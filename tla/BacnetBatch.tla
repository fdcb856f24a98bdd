---------------------------- MODULE BacnetBatch ----------------------------
(***************************************************************************)
(* plc_proto_read_object_properties: one thread reads the properties of an *)
(* object one after the other through plc_proto_read, beside the other     *)
(* readers.  A property is asked for again every 100 ms until it answers,  *)
(* is found to be refused, or MaxTries are spent.                          *)
(***************************************************************************)
EXTENDS BacnetReadNominal, Sequences

CONSTANTS
  Batcher,     (* the reader that runs the batch                           *)
  Properties,  (* the keys it reads, in order                              *)
  MaxTries     (* max_retries                                              *)

ASSUME BatchAssumption ==
  /\ Batcher \in Readers
  /\ Properties \in Seq(Keys) /\ Properties # <<>>
  /\ MaxTries \in Nat \ {0}

VARIABLES
  batch,       (* where the batch is                                       *)
  fields,      (* what it stored for each property                         *)
  turn         (* history: what was so when the property's turn began, and *)
               (* whether it was refused since                             *)

batchVars == <<object_states, invoke_id_to_key, object_states_mutex, invoke_id_to_key_mutex,
             reader, returned, worker, tsm, net, device, batch, fields, turn>>

Indices == 1..Len(Properties)
NoField == NoValue       \* NULL, -1 or 0xFFFFFFFF, as the field has it

(* A string whose text is lost is stored as NULL.                          *)
Stored(k) == IF object_states[k].lost THEN NoField ELSE object_states[k].cached_value

IdleBatch == [pc |-> "idle", index |-> 1, attempt |-> 0]

(* Nothing is known of k, and nobody is asking for it.                      *)
Unknown(k) == ~has_valid_cache(k) /\ Unrequested(k) /\ \A r \in Readers : reader[r].key # k

Turn(k) == [unknown |-> Unknown(k), version |-> device[k], refused |-> FALSE]

BatchTypeOK ==
  /\ TypeOK
  /\ batch \in [pc: {"idle", "read", "sleep"}, index: Indices, attempt: 0..MaxTries - 1]
  /\ fields \in [Indices -> Values]
  /\ turn \in [unknown: BOOLEAN, version: Versions, refused: BOOLEAN]

BatchInit ==
  /\ Init
  /\ batch = IdleBatch
  /\ fields = [i \in Indices |-> NoField]
  /\ turn = [unknown |-> FALSE, version |-> 0, refused |-> FALSE]

-----------------------------------------------------------------------------
Property == Properties[batch.index]

BeginBatch ==
  /\ batch.pc = "idle"
  /\ batch' = [IdleBatch EXCEPT !.pc = "read"]
  /\ fields' = [i \in Indices |-> NoField]
  /\ turn' = Turn(Properties[1])
  /\ UNCHANGED vars

(* read_property_sync is done with its property.                           *)
NextProperty ==
  IF batch.index = Len(Properties) THEN batch' = IdleBatch /\ UNCHANGED turn
  ELSE /\ batch' = [pc |-> "read", index |-> batch.index + 1, attempt |-> 0]
       /\ turn' = Turn(Properties[batch.index + 1])

Returns == reader'[Batcher].pc = "idle"

(* Any PROTO_SUCCESS is taken for the answer, with the value the cache has *)
(* at that moment; NO_DATA is waited for; anything else is given up.       *)
BatchReads ==
  /\ batch.pc = "read"
  /\ ReadFromCache(Batcher, Property) \/ ReadStillPending(Batcher, Property)
     \/ ReadStart(Batcher, Property) \/ ReaderInside(Batcher)
  /\ \/ ~Returns /\ UNCHANGED <<batch, fields, turn>>
     \/ /\ Returns /\ returned'.rc = "SUCCESS"
        /\ fields' = [fields EXCEPT ![batch.index] = Stored(Property)]
        /\ NextProperty
     \/ /\ Returns /\ returned'.rc = "NO_DATA"
        /\ batch' = [batch EXCEPT !.pc = "sleep"]
        /\ UNCHANGED <<fields, turn>>
     \/ /\ Returns /\ returned'.rc = "ERROR_READ"
        /\ NextProperty
        /\ UNCHANGED fields

(* Mutant: the attempts are not counted.                                   *)
Wake_Uncounted ==
  /\ batch.pc = "sleep"
  /\ object_states_mutex = Nobody
  /\ IF object_states[Property].status = "UNSUPPORTED" THEN NextProperty
     ELSE batch' = [batch EXCEPT !.pc = "read"] /\ UNCHANGED turn
  /\ UNCHANGED vars /\ UNCHANGED fields

(* After the 100 ms the batch looks whether the device refused meanwhile.  *)
Wake ==
  /\ batch.pc = "sleep"
  /\ object_states_mutex = Nobody
  /\ IF object_states[Property].status = "UNSUPPORTED" \/ batch.attempt + 1 = MaxTries
     THEN NextProperty
     ELSE /\ batch' = [batch EXCEPT !.pc = "read", !.attempt = @ + 1]
          /\ UNCHANGED turn
  /\ UNCHANGED vars /\ UNCHANGED fields

(* The worker goes on beside the batch.                                    *)
Refuses ==
  worker.pc = "apply" /\ worker.key = Property /\ worker.reply.kind \in {"unstorable", "unsupported"}

BatchApplyReply ==
  /\ ApplyReply
  /\ turn' = [turn EXCEPT !.refused = @ \/ Refuses]
  /\ UNCHANGED <<batch, fields>>

Others ==
  \/ \E r \in Readers \ {Batcher} : ReaderNext(r)
  \/ \E m \in net : Handle(m)
  \/ ApplyRefused \/ SweepBegin \/ SweepEnd
  \/ Environment

BatchNext ==
  \/ BeginBatch \/ BatchReads \/ Wake \/ BatchApplyReply
  \/ Others /\ UNCHANGED <<batch, fields, turn>>

BatchSpec == BatchInit /\ [][BatchNext]_batchVars

(***************************************************************************)
(* Fairness.  A thread inside a call runs on, and time passes.  A mutex    *)
(* that is free again and again is acquired in the end (application        *)
(* threads are cyclic tasks that sleep between calls), and the worker's    *)
(* loop reaches its sweep timer on every turn, so lock acquisitions and    *)
(* the sweep get strong fairness.  The batch calls, sleeps and wakes.      *)
(* No message need ever arrive.  What BacnetReadNominal excludes stays     *)
(* excluded: replies that overtake the mapping of their request or outlive *)
(* the reuse of its id, and, by the replies of the run, undecodable ones.  *)
(***************************************************************************)
BatchFairness ==
  /\ \A r \in Readers \ {Batcher} : SF_vars(ReaderInside(r))
  /\ SF_vars(ApplyReply \/ ApplyRefused \/ SweepEnd)
  /\ SF_vars(SweepBegin)
  /\ WF_vars(Tick)
  /\ SF_batchVars(BatchReads)
  /\ SF_batchVars(Wake)

FairBatchSpec == BatchSpec /\ BatchFairness
-----------------------------------------------------------------------------
(* A batch gives a property up as refused only because the device refused  *)
(* it while the batch waited: an earlier refusal, whose status the entry   *)
(* still has, is not taken for this one's.                                 *)
RefusalIsCurrent ==
  (batch.pc = "sleep" /\ object_states[Property].status = "UNSUPPORTED") => turn.refused

(* What the batch reports for a property that had no value and no request  *)
(* when its turn came is the property's own, and not older than the turn.  *)
(* (A property that has a value is reported from the cache at once.)       *)
UnknownIsReadFresh ==
  [][\A i \in Indices : fields'[i] # fields[i] /\ fields'[i] # NoField =>
       /\ fields'[i].key = Properties[i]
       /\ turn.unknown => fields'[i].version >= turn.version]_batchVars

(* A batch ends, whatever the network loses, unless the two mutexes lock   *)
(* each other out.  (Early, late and undecodable replies are excluded.)    *)
BatchEnds ==
  [](~LockCycle) => (batch.pc # "idle" ~> batch.pc = "idle")
=============================================================================
