------------------------------ MODULE DropOldest ------------------------------
(***************************************************************************)
(* What the MQTT driver promises about received messages: readers get them *)
(* in the order of their arrival, each at most once; a message is skipped  *)
(* only when N newer ones wait or the driver was initialised anew; "no     *)
(* data" means that nothing waits.  Messages are numbered by arrival.      *)
(***************************************************************************)
EXTENDS Naturals, Sequences

CONSTANTS N,        (* messages kept                                       *)
          Lengths,  (* payload lengths                                     *)
          Limit,    (* longest payload a reader gets                       *)
          MaxSent   (* bound: messages sent                                *)

VARIABLES sent,     (* the payload length of every message so far          *)
          oldest,   (* the number of the next message to hand out          *)
          returned  (* what the last read gave                             *)

absVars == <<sent, oldest, returned>>

Nothing == [number |-> 0, length |-> 0]
Cut(length) == IF length <= Limit THEN length ELSE Limit

Init == sent = <<>> /\ oldest = 1 /\ returned = Nothing

Arrive(length) ==
  /\ Len(sent) < MaxSent
  /\ sent' = Append(sent, length)
  /\ oldest' = IF Len(sent) - oldest + 1 < N THEN oldest ELSE oldest + 1
  /\ UNCHANGED returned

Read ==
  /\ oldest <= Len(sent)
  /\ returned' = [number |-> oldest, length |-> Cut(sent[oldest])]
  /\ oldest' = oldest + 1
  /\ UNCHANGED sent

ReadNothing ==
  /\ oldest > Len(sent)
  /\ returned' = Nothing
  /\ UNCHANGED <<sent, oldest>>

Reset ==
  /\ oldest' = Len(sent) + 1
  /\ UNCHANGED <<sent, returned>>

Next == (\E length \in Lengths : Arrive(length)) \/ Read \/ ReadNothing \/ Reset

Spec == Init /\ [][Next]_absVars
=============================================================================
