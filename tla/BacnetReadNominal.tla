-------------------------- MODULE BacnetReadNominal --------------------------
(***************************************************************************)
(* The read path when no reply overtakes the insertion of its mapping      *)
(* (EarlyReplies is FALSE) and no PDU outlives the reuse of its invoke id  *)
(* (LateReplies is FALSE).  Under these two conditions on the network the  *)
(* driver implements ObjectCache; without the second a late reply is       *)
(* credited to a wrong key.  When moreover every reply decodes, no request *)
(* is stranded and no id in use is free; without the first or this third   *)
(* condition a request is left that nothing answers.                       *)
(***************************************************************************)
EXTENDS BacnetRead

ASSUME NominalAssumption == ~EarlyReplies /\ ~LateReplies

EveryReplyDecodes == ReplyKinds \cap {"malformed", "undecodable"} = {}

(* The reading a key holds, or held before it was lost; a value of another *)
(* key is no reading of it.                                                *)
HeldReading(k) ==
  LET v == object_states[k].cached_value IN
  IF v.key = k THEN v.version + 1 ELSE 0

Abstract ==
  INSTANCE ObjectCache WITH
    open <- {k \in Keys : HasActiveRequest(k)},
    held <- [k \in Keys |-> HeldReading(k)],
    lost <- {k \in Keys : object_states[k].lost}

(* plc_proto_read, the reply handlers and the sweep together implement the *)
(* one-question-per-key cache: no reply is credited to a wrong key, no     *)
(* retransmitted, duplicated or late answer takes a key back to an older   *)
(* reading, and a reading is lost only where an answer was being stored.   *)
ImplementsObjectCache == Abstract!Spec

(* An invoke id that is mapped, or whose reply is being applied, is not    *)
(* free in the stack: no handler or sweep frees an id still in use, if     *)
(* every reply decodes.                                                    *)
UsedIdsAreBusy ==
  /\ \A i \in InvokeIds : invoke_id_to_key[i] # NoKey => tsm[i] # Free
  /\ worker.pc \in {"apply", "refuse"} => tsm[worker.reply.id] # Free

(* A key that waits for the device is released in the end, even when the   *)
(* network loses what it will, unless the two mutexes lock each other out; *)
(* under this module's conditions, and with replies that decode.           *)
(* (The fairness it needs is stated where it runs, in BacnetBatch.)        *)
EveryRequestEnds ==
  [](~LockCycle) => \A k \in Keys : HasActiveRequest(k) ~> ~HasActiveRequest(k)
=============================================================================
