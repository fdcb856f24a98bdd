----------------------------- MODULE BacnetReset -----------------------------
(***************************************************************************)
(* The read path across a release of the driver.  A caller passes          *)
(* ensure_init_and_connect_locked under g_plc_mutex and reads without it,  *)
(* so BacnetContext::reset, run by another caller that reloads, may come   *)
(* at any point of the read.  (When a reload happens is in BacnetReload.)  *)
(*                                                                         *)
(* reset stops the worker, forgets the addresses of the devices and then   *)
(* clears the two maps one after the other; no lock spans these steps, and *)
(* the transactions of the stack are not touched.                          *)
(***************************************************************************)
EXTENDS BacnetReadNominal

CONSTANT MaxResets   \* bound: how often the driver is released

ASSUME ResetAssumption == MaxResets \in Nat

VARIABLES
  release,    (* where the release of the driver is; "up": it is in use    *)
  caller,     (* what each reader knows: not in a call, past the ensure,   *)
              (* or with the address of its device resolved                *)
  bound,      (* are the devices in the stack's address cache?             *)
  resets,     (* releases so far                                           *)
  abandoned   (* history: the busy ids whose mapping a release has cleared *)

resetVars == <<release, caller, bound, resets, abandoned>>
allVars   == <<vars, resetVars>>

Stages == {"up", "join", "forget", "objects", "ids", "down"}

ResetTypeOK ==
  /\ TypeOK
  /\ release \in Stages
  /\ caller \in [Readers -> {"out", "ensured", "addressed"}]
  /\ bound \in BOOLEAN
  /\ resets \in 0..MaxResets
  /\ abandoned \subseteq InvokeIds

ResetInit ==
  /\ Init
  /\ release = "up" /\ bound = TRUE /\ resets = 0
  /\ caller = [r \in Readers |-> "out"]
  /\ abandoned = {}

-----------------------------------------------------------------------------
(***************************************************************************)
(* A caller.  g_plc_mutex keeps it out while the driver is released and    *)
(* initialised again, and keeps nobody out afterwards.                     *)
(***************************************************************************)
Ensured(r) ==
  /\ release = "up"
  /\ caller[r] = "out"
  /\ caller' = [caller EXCEPT ![r] = "ensured"]
  /\ UNCHANGED <<vars, release, bound, resets, abandoned>>

(* resolve_target_address, when a request is about to be sent: without an  *)
(* address there is none.                                                  *)
Resolves(r) ==
  caller' = [caller EXCEPT ![r] =
               IF reader'[r].pc = "idle" THEN "out"
               ELSE IF reader[r].pc = "idle" /\ bound THEN "addressed" ELSE @]

Reads(r) ==
  /\ caller[r] # "out"
  /\ ReaderNext(r)
  /\ (reader[r].pc = "send" /\ caller[r] # "addressed") => reader'[r].pc = "idle"
  /\ Resolves(r)
  /\ UNCHANGED <<release, bound, resets, abandoned>>

(* A stopped worker finishes the turn of its loop it is in.                *)
Works ==
  /\ release \in {"up", "join"}
  /\ WorkerNext
  /\ abandoned' = {i \in abandoned : tsm'[i] # Free}
  /\ UNCHANGED <<release, caller, bound, resets>>

World == Environment /\ UNCHANGED resetVars

-----------------------------------------------------------------------------
(***************************************************************************)
(* BacnetContext::reset and cleanup_context, then initialize and connect.  *)
(***************************************************************************)
StopWorker ==
  /\ release = "up"
  /\ resets < MaxResets
  /\ resets' = resets + 1
  /\ release' = "join"
  /\ UNCHANGED <<vars, caller, bound, abandoned>>

(* Mutant: the worker is told to stop and not waited for.                  *)
JoinWorker_Detached ==
  /\ release = "join"
  /\ release' = "forget"
  /\ UNCHANGED <<vars, caller, bound, resets, abandoned>>

JoinWorker ==
  /\ release = "join"
  /\ worker = IdleWorker
  /\ release' = "forget"
  /\ UNCHANGED <<vars, caller, bound, resets, abandoned>>

(* Mutant: the addresses stay in the cache.                                *)
ForgetDevices_Kept ==
  /\ release = "forget"
  /\ release' = "objects"
  /\ UNCHANGED <<vars, caller, bound, resets, abandoned>>

ForgetDevices ==
  /\ release = "forget"
  /\ bound' = FALSE
  /\ release' = "objects"
  /\ UNCHANGED <<vars, caller, resets, abandoned>>

ClearObjects ==
  /\ release = "objects"
  /\ object_states_mutex = Nobody
  /\ object_states' = [k \in Keys |-> NewObjectState]
  /\ release' = "ids"
  /\ UNCHANGED <<invoke_id_to_key, object_states_mutex, invoke_id_to_key_mutex, reader,
                 returned, worker, tsm, net, device, caller, bound, resets, abandoned>>

ClearIds ==
  /\ release = "ids"
  /\ invoke_id_to_key_mutex = Nobody
  /\ invoke_id_to_key' = [i \in InvokeIds |-> NoKey]
  /\ abandoned' = abandoned \cup {i \in InvokeIds : invoke_id_to_key[i] # NoKey}
  /\ release' = "down"
  /\ UNCHANGED <<object_states, object_states_mutex, invoke_id_to_key_mutex, reader,
                 returned, worker, tsm, net, device, caller, bound, resets>>

(* Initialised again, the devices found, the worker started.               *)
ComeBack ==
  /\ release = "down"
  /\ bound' = TRUE
  /\ release' = "up"
  /\ UNCHANGED <<vars, caller, resets, abandoned>>

-----------------------------------------------------------------------------
Reset == StopWorker \/ JoinWorker \/ ForgetDevices \/ ClearObjects \/ ClearIds \/ ComeBack

ResetNext == (\E r \in Readers : Ensured(r) \/ Reads(r)) \/ Works \/ World \/ Reset

ResetSpec == ResetInit /\ [][ResetNext]_allVars
-----------------------------------------------------------------------------
(* However a release and the reads it overtakes interleave, the two maps   *)
(* and the threads disagree only between the two clears; when the worker   *)
(* runs again they tell one story, and no id they use is free in the       *)
(* stack, whose table no release clears, if every reply decodes.  (That no *)
(* read recorded across a release waits for a mapping that was cleared is  *)
(* NoOrphanRequest: the clears alone do not see to it, the addresses       *)
(* forgotten before them do.)                                              *)
TablesAgreeAgain ==
  release # "ids" => TablesAgree /\ (EveryReplyDecodes => UsedIdsAreBusy)

(* i is held by somebody who will give it back.                       *)
Tracked(i) ==
  \/ invoke_id_to_key[i] # NoKey
  \/ worker.pc \in {"apply", "refuse"} /\ worker.reply.id = i
  \/ \E r \in Readers : reader[r].pc \in {"map", "record"} /\ reader[r].id = i

(* An id of the stack is lost to the driver only by a release that came    *)
(* while its request was under way; replies, refusals, losses and sweeps   *)
(* give every id back.                                                     *)
LostOnlyByReset == \A i \in InvokeIds : tsm[i] # Free => Tracked(i) \/ i \in abandoned

(* The cache a driver promises, across releases: clearing object_states    *)
(* forgets everything in one step, and nothing else ever does.  No answer  *)
(* to a question of before the release is credited after it, and none      *)
(* takes a key back to an older reading than it was given since.           *)
Forgets == release = "objects" /\ Abstract!Forget

ImplementsForgetfulCache ==
  Abstract!Init /\ [][Abstract!Next \/ Forgets]_(Abstract!absVars)
=============================================================================
