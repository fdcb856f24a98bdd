----------------------------- MODULE EditedFile -----------------------------
(***************************************************************************)
(* What config_update promises about the file: a caller takes a copy of    *)
(* the whole file and puts it in place, edited, in one step, over whatever *)
(* is there by then.  So the file is always what the edits of some of the  *)
(* calls made of the first one, and a call may undo what was put since it  *)
(* took its copy.  A copy may also be given up, at any time and several at *)
(* once.  Nothing is promised of a damaged file.                           *)
(***************************************************************************)
CONSTANTS Callers,     (* those who edit the file                          *)
          Requests,    (* what may be asked                                *)
          First,       (* the file at the start                            *)
          Edit(_, _)   (* the file as a request changes it                 *)

VARIABLES file,        (* what the name stands for                         *)
          taken,       (* the copy a caller has taken and what it is to    *)
                       (* change in it: a set of at most one pair          *)
          damaged      (* whether a write failed unnoticed                 *)

absVars == <<file, taken, damaged>>

Init == file = First /\ taken = [c \in Callers |-> {}] /\ damaged = FALSE

Take(c, req) ==
  /\ UNCHANGED <<file, damaged>>
  /\ taken[c] = {}
  /\ taken' = [taken EXCEPT ![c] = {<<file, req>>}]

Put(c) ==
  /\ UNCHANGED damaged
  /\ taken' = [taken EXCEPT ![c] = {}]
  /\ \E copy \in taken[c] : file' = Edit(copy[1], copy[2])

GiveUp(S) ==
  /\ UNCHANGED <<file, damaged>>
  /\ taken' = [c \in Callers |-> IF c \in S THEN {} ELSE taken[c]]

Damage == damaged'

Next ==
  \/ \E c \in Callers : Put(c) \/ \E req \in Requests : Take(c, req)
  \/ \E S \in SUBSET Callers : GiveUp(S)
  \/ Damage

Spec == Init /\ [][Next]_absVars
=============================================================================
