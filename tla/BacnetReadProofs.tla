--------------------------- MODULE BacnetReadProofs ---------------------------
(***************************************************************************)
(* Proofs about the read path, for every set of threads, keys and invoke   *)
(* ids and every set of replies.  First about BacnetRead, whose network    *)
(* loses, duplicates, delays and reorders, without any of the conditions   *)
(* of BacnetReadNominal.  Then under these: no id in use is ever freed, no *)
(* key waits for ever for want of a mapping, not even when the driver is   *)
(* released under a read (BacnetReset); the path implements ObjectCache;   *)
(* and the batch read on top of it reports what is current (BacnetBatch).  *)
(***************************************************************************)
EXTENDS BacnetReset, BacnetBatch, TLAPS


(* The type of the thread records, by where the thread is.                 *)
LEMMA ReaderType ==
  ASSUME TypeOK, NEW r \in Readers
  PROVE  \/ reader[r].pc = "idle" /\ reader[r] = IdleReader
         \/ reader[r].pc = "send" /\ reader[r] \in ReaderSends
         \/ reader[r].pc \in {"map", "record"} /\ reader[r] \in ReaderRequests
<1>1. reader[r] \in ReaderStates
  BY DEF TypeOK
<1>2. CASE reader[r] = IdleReader
  BY <1>2 DEF IdleReader
<1>3. CASE reader[r] \in ReaderSends
  BY <1>3 DEF ReaderSends
<1>4. CASE reader[r] \in ReaderRequests
  BY <1>4 DEF ReaderRequests
<1> QED
  BY <1>1, <1>2, <1>3, <1>4 DEF ReaderStates

LEMMA WorkerType ==
  ASSUME TypeOK
  PROVE  \/ worker.pc = "receive" /\ worker = IdleWorker
         \/ worker.pc \in {"apply", "refuse"} /\ worker \in WorkerHandles
         \/ worker.pc = "sweep" /\ worker \in WorkerSweeps
<1>1. worker \in WorkerStates
  BY DEF TypeOK
<1>2. CASE worker = IdleWorker
  BY <1>2 DEF IdleWorker
<1>3. CASE worker \in WorkerHandles
  BY <1>3 DEF WorkerHandles
<1>4. CASE worker \in WorkerSweeps
  BY <1>4 DEF WorkerSweeps
<1> QED
  BY <1>1, <1>2, <1>3, <1>4 DEF WorkerStates

-----------------------------------------------------------------------------
LEMMA AgeType == 0 \in Ages /\ MaxAge \in Ages /\ \A a \in Ages : Older(a) \in Ages
  BY ConstantsAssumption DEF Ages, MaxAge, Older

(* Marking a request active, or ending it with some status, keeps an entry *)
(* an entry.                                                               *)
LEMMA MarkType ==
  ASSUME NEW s \in ObjectState, NEW i \in InvokeIds \cup {NoId}, NEW st \in Statuses
  PROVE  [s EXCEPT !.active_invoke_id = i, !.status = st] \in ObjectState
  BY DEF ObjectState

LEMMA InitType == Init => TypeOK
<1> SUFFICES ASSUME Init PROVE TypeOK
  OBVIOUS
<1>1. NewObjectState \in ObjectState
  BY AgeType, ConstantsAssumption
  DEF NewObjectState, ObjectState, NoValue, Values, Versions, Statuses
<1>2. 0 \in Versions
  BY ConstantsAssumption DEF Versions
<1> QED
  BY <1>1, <1>2 DEF Init, TypeOK, ReaderStates, WorkerStates, Codes

LEMMA StepType == TypeOK /\ [Next]_vars => TypeOK'
<1> SUFFICES ASSUME TypeOK, [Next]_vars PROVE TypeOK'
  OBVIOUS
<1>1. ASSUME NEW r \in Readers, ReaderNext(r) PROVE TypeOK'
  <2>1. ASSUME NEW k \in Keys, ReadFromCache(r, k) PROVE TypeOK'
    BY <2>1 DEF TypeOK, ReadFromCache, Return, ReaderStates, Codes
  <2>2. ASSUME NEW k \in Keys, ReadStillPending(r, k) PROVE TypeOK'
    BY <2>2 DEF TypeOK, ReadStillPending, Return, ReaderStates, Codes
  <2>3. ASSUME NEW k \in Keys, ReadStart(r, k) PROVE TypeOK'
    BY <2>3 DEF TypeOK, ReadStart, ReaderStates, ReaderSends, IdleReader
  <2>4. CASE SendRequest(r)
    <3>1. reader[r] \in ReaderSends
      BY <2>4, ReaderType DEF SendRequest
    <3>2. PICK i \in Available :
             /\ tsm' = [tsm EXCEPT ![i] = 0]
             /\ net' = Sent(Request(i, reader[r].key))
             /\ reader' = [reader EXCEPT ![r].pc = "map", ![r].id = i]
      BY <2>4 DEF SendRequest
    <3>3. i \in InvokeIds
      BY DEF Available
    <3>4. Request(i, reader[r].key) \in Pdus
      BY <3>1, <3>3, ConstantsAssumption DEF Request, Pdus, ReaderSends, Versions
    <3>5. [reader[r] EXCEPT !.pc = "map", !.id = i] \in ReaderRequests
      BY <3>1, <3>3 DEF ReaderSends, ReaderRequests
    <3>6. reader' \in [Readers -> ReaderStates]
      BY <3>2, <3>5 DEF TypeOK, ReaderStates
    <3>7. tsm' \in [InvokeIds -> Ages \cup {Free}]
      BY <3>2, AgeType DEF TypeOK
    <3>8. net' \subseteq Pdus
      BY <3>2, <3>4 DEF TypeOK, Sent
    <3> QED
      BY <2>4, <3>6, <3>7, <3>8 DEF SendRequest, TypeOK
  <2>5. CASE SendFails(r)
    <3>1. reader[r].key \in Keys
      BY <2>5, ReaderType DEF SendFails, ReaderSends
    <3> QED
      BY <2>5, <3>1 DEF TypeOK, SendFails, Return, ReaderStates, Codes
  <2>6. CASE MapInvokeId(r)
    <3>1. reader[r] \in ReaderRequests
      BY <2>6, ReaderType DEF MapInvokeId
    <3>2. [reader[r] EXCEPT !.pc = "record"] \in ReaderRequests
      BY <3>1 DEF ReaderRequests
    <3> QED
      BY <2>6, <3>1, <3>2 DEF TypeOK, MapInvokeId, ReaderStates, ReaderRequests
  <2>7. CASE RecordRequest(r)
    <3>1. reader[r] \in ReaderRequests
      BY <2>7, ReaderType DEF RecordRequest
    <3>2. [object_states[reader[r].key] EXCEPT !.active_invoke_id = reader[r].id,
                                               !.status = "NO_DATA"] \in ObjectState
      <4>1. object_states[reader[r].key] \in ObjectState /\ reader[r].id \in InvokeIds
        BY <3>1 DEF TypeOK, ReaderRequests
      <4> QED
        BY <4>1, MarkType DEF Statuses
    <3> QED
      BY <2>7, <3>1, <3>2
      DEF TypeOK, RecordRequest, Return, RecordedCode, ReaderStates, ReaderRequests, Codes
  <2> QED
    BY <1>1, <2>1, <2>2, <2>3, <2>4, <2>5, <2>6, <2>7 DEF ReaderNext, ReaderInside
<1>2. ASSUME NEW m \in net, Handle(m) PROVE TypeOK'
  <2>1. m \in Pdus /\ m.id \in InvokeIds /\ net \ {m} \subseteq Pdus
    BY DEF TypeOK, Pdus
  <2>2. CASE DropMalformed(m)
    BY <2>1, <2>2 DEF TypeOK, DropMalformed, Receive, tsm_free_invoke_id
  <2>3. CASE DropUnmatched(m)
    BY <2>1, <2>3 DEF TypeOK, DropUnmatched, Receive, tsm_free_invoke_id
  <2>4. CASE DropUndecodable(m)
    BY <2>1, <2>4 DEF TypeOK, DropUndecodable, Receive, tsm_free_invoke_id, EraseMapping
  <2>5. ASSUME NEW pc \in {"apply", "refuse"}, Mapped(m), WorkerTakes(pc, m)
        PROVE  worker' \in WorkerStates
    <3>1. invoke_id_to_key[m.id] \in Keys
      BY <2>1, <2>5 DEF TypeOK, Mapped
    <3> QED
      BY <2>1, <2>5, <3>1 DEF WorkerTakes, IdleWorker, WorkerStates, WorkerHandles
  <2>6. CASE TakeMapping(m)
    <3>1. worker' \in WorkerStates
      BY <2>5, <2>6 DEF TakeMapping
    <3> QED
      BY <2>1, <2>6, <3>1 DEF TypeOK, TakeMapping, Receive, EraseMapping
  <2>7. CASE TakeRefused(m)
    <3>1. worker' \in WorkerStates
      BY <2>5, <2>7 DEF TakeRefused
    <3> QED
      BY <2>1, <2>7, <3>1 DEF TypeOK, TakeRefused, Receive, EraseMapping
  <2> QED
    BY <1>2, <2>2, <2>3, <2>4, <2>6, <2>7 DEF Handle
<1>3. CASE ApplyReply
  <2>1. worker \in WorkerHandles
    BY <1>3, WorkerType DEF ApplyReply
  <2>2. worker.key \in Keys /\ worker.reply \in Pdus
    BY <2>1 DEF WorkerHandles
  <2>3. worker.reply.id \in InvokeIds
    BY <2>2 DEF Pdus
  <2>4. Applied(object_states[worker.key], worker.reply) \in ObjectState
    <3>1. object_states[worker.key] \in ObjectState
      BY <2>2 DEF TypeOK
    <3>2. [key |-> worker.reply.key, version |-> worker.reply.version] \in Values
      BY <2>2 DEF Pdus, Values
    <3> QED
      BY <3>1, <3>2, AgeType DEF Applied, ObjectState, Statuses
  <2> QED
    BY <1>3, <2>2, <2>3, <2>4 DEF TypeOK, ApplyReply, tsm_free_invoke_id, WorkerStates
<1>4. CASE ApplyRefused
  <2>1. worker \in WorkerHandles
    BY <1>4, WorkerType DEF ApplyRefused
  <2>2. worker.key \in Keys /\ worker.reply.id \in InvokeIds
    BY <2>1 DEF WorkerHandles, Pdus
  <2>3. [object_states[worker.key] EXCEPT !.active_invoke_id = NoId,
                                          !.status = "ERROR_READ"] \in ObjectState
    BY <2>2, MarkType DEF TypeOK, Statuses
  <2> QED
    BY <1>4, <2>2, <2>3 DEF TypeOK, ApplyRefused, tsm_free_invoke_id, WorkerStates
<1>5. CASE SweepBegin
  <2>1. worker' \in WorkerStates
    BY <1>5 DEF SweepBegin, WorkerStates, WorkerSweeps, IdleWorker
  <2> QED
    BY <1>5, <2>1 DEF TypeOK, SweepBegin
<1>6. CASE SweepEnd
  <2>1. \A k \in Keys : Swept(k) \in ObjectState
    BY MarkType DEF TypeOK, Swept, Statuses
  <2>2. object_states' \in [Keys -> ObjectState]
    BY <1>6, <2>1 DEF TypeOK, SweepEnd
  <2>3. SweptMap \in [InvokeIds -> Keys \cup {NoKey}]
    BY DEF TypeOK, SweptMap
  <2>4. tsm' \in [InvokeIds -> Ages \cup {Free}]
    BY <1>6 DEF TypeOK, SweepEnd
  <2> QED
    BY <1>6, <2>2, <2>3, <2>4 DEF TypeOK, SweepEnd, WorkerStates
<1>7. ASSUME NEW m \in net, Lose(m) PROVE TypeOK'
  BY <1>7 DEF TypeOK, Lose
<1>8. ASSUME NEW m \in net, NEW kind \in ReplyKinds, DeviceAnswers(m, kind) PROVE TypeOK'
  <2>1. Reply(m, kind) \in Pdus
    <3>1. m \in Pdus /\ 0 \in Versions
      BY ConstantsAssumption DEF TypeOK, Versions
    <3>2. device[m.key] \in Versions
      BY <3>1 DEF TypeOK, Pdus
    <3> QED
      BY <3>1, <3>2 DEF Pdus, Reply
  <2> QED
    BY <1>8, <2>1 DEF TypeOK, DeviceAnswers, Sent
<1>9. ASSUME NEW k \in Keys, DeviceChanges(k) PROVE TypeOK'
  BY <1>9, ConstantsAssumption DEF TypeOK, DeviceChanges, Versions
<1>10. CASE Tick
  <2>1. \A k \in Keys : [object_states[k] EXCEPT !.age = Older(@)] \in ObjectState
    BY AgeType DEF TypeOK, ObjectState
  <2>2. \A i \in InvokeIds : tsm[i] # Free => Older(tsm[i]) \in Ages
    BY AgeType DEF TypeOK
  <2> QED
    BY <1>10, <2>1, <2>2 DEF TypeOK, Tick
<1>11. CASE UNCHANGED vars
  BY <1>11 DEF TypeOK, vars
<1> QED
  BY <1>1, <1>2, <1>3, <1>4, <1>5, <1>6, <1>7, <1>8, <1>9, <1>10, <1>11
  DEF Next, WorkerNext, Environment

(* Type correctness of the read path: no thread ever goes on with invoke   *)
(* id 0 or with a key it did not look up.                                  *)
THEOREM TypeCorrect == Spec => []TypeOK
  BY InitType, StepType, PTL DEF Spec

-----------------------------------------------------------------------------
(***************************************************************************)
(* The inductive invariant.  The table properties alone are not inductive: *)
(* what a reader found when it looked up its key must still hold when it   *)
(* records its request, which needs the lock owners and WindowCoherent.    *)
(***************************************************************************)
LockInv ==
  /\ \A r \in Readers : reader[r].pc # "idle" <=> object_states_mutex = r
  /\ worker.pc \in {"refuse", "sweep"} <=> invoke_id_to_key_mutex = Worker

TableInv == LockInv /\ MapCoherent /\ HandlerCoherent /\ WindowCoherent

(* One request per key follows: two ids mapped to k are both the one k     *)
(* awaits.                                                                 *)
LEMMA OneRequest == TypeOK /\ TableInv => OneRequestPerKey
<1> SUFFICES ASSUME TypeOK, TableInv,
                    NEW i \in InvokeIds, NEW j \in InvokeIds,
                    invoke_id_to_key[i] = invoke_id_to_key[j],
                    invoke_id_to_key[i] # NoKey
             PROVE  i = j
  BY DEF OneRequestPerKey
<1> DEFINE k == invoke_id_to_key[i]
<1>1. Awaits(k, i) /\ Awaits(k, j)
  BY DEF TableInv, MapCoherent
<1>2. CASE \E r \in Readers : Recording(r, k, i) \/ Recording(r, k, j)
  <2>1. PICK r \in Readers : Recording(r, k, i) \/ Recording(r, k, j)
    BY <1>2
  <2>2. object_states[k].active_invoke_id = NoId
    BY <2>1 DEF TableInv, WindowCoherent, HasActiveRequest, Recording
  <2>3. \A s \in Readers : reader[s].pc # "idle" => s = r
    BY <2>1 DEF TableInv, LockInv, Recording
  <2>4. Recording(r, k, i) /\ Recording(r, k, j)
    BY <1>1, <2>2, <2>3, ConstantsAssumption DEF Awaits, Recording
  <2> QED
    BY <2>4 DEF Recording
<1>3. CASE ~\E r \in Readers : Recording(r, k, i) \/ Recording(r, k, j)
  BY <1>1, <1>3 DEF Awaits
<1> QED
  BY <1>2, <1>3

LEMMA InitTable == Init => TableInv
  BY ConstantsAssumption
  DEF Init, TableInv, LockInv, MapCoherent, HandlerCoherent, WindowCoherent,
      IdleReader, IdleWorker

(* The invariant reads the locks, the reverse map, the threads and the     *)
(* marks: a step that leaves these alone keeps it.                         *)
LEMMA TableFrame ==
  ASSUME TypeOK, TableInv,
         UNCHANGED <<invoke_id_to_key, object_states_mutex, invoke_id_to_key_mutex,
                     reader, worker>>,
         \A k \in Keys : object_states'[k].active_invoke_id
                           = object_states[k].active_invoke_id
  PROVE  TableInv'
<1>1. \A r \in Readers : reader[r].pc # "idle" => reader[r].key \in Keys
  BY ReaderType DEF IdleReader, ReaderSends, ReaderRequests
<1>2. worker.pc \in {"apply", "refuse"} => worker.key \in Keys
  BY WorkerType DEF IdleWorker, WorkerHandles, WorkerSweeps
<1>3. \A i \in InvokeIds : invoke_id_to_key[i] \in Keys \cup {NoKey}
  BY DEF TypeOK
<1>4. LockInv'
  BY DEF TableInv, LockInv
<1>5. \A k \in Keys : \A i : Awaits(k, i) => Awaits(k, i)'
  BY DEF Awaits, Recording
<1>6. MapCoherent'
  BY <1>3, <1>5 DEF TableInv, MapCoherent
<1>7. HandlerCoherent'
  BY <1>2, <1>5 DEF TableInv, HandlerCoherent
<1>8. \A k \in Keys : Unrequested(k) => Unrequested(k)'
  BY DEF Unrequested, HasActiveRequest
<1>9. WindowCoherent'
  BY <1>1, <1>8 DEF TableInv, WindowCoherent, HasActiveRequest
<1> QED
  BY <1>4, <1>6, <1>7, <1>9 DEF TableInv

(* A reader past its check is the only one: it holds the lock.             *)
LEMMA OneReaderInside ==
  ASSUME LockInv, NEW r \in Readers, NEW s \in Readers,
         reader[r].pc # "idle", reader[s].pc # "idle"
  PROVE  r = s
  BY DEF LockInv

(* With object_states_mutex free nobody is inside, so awaiting a reply     *)
(* means having its mark.                                                  *)
LEMMA NobodyInside ==
  ASSUME LockInv, object_states_mutex = Nobody
  PROVE  /\ \A r \in Readers : reader[r].pc = "idle"
         /\ \A k, i : Awaits(k, i) <=> object_states[k].active_invoke_id = i
<1>1. \A r \in Readers : reader[r].pc = "idle"
  BY ConstantsAssumption DEF LockInv
<1> QED
  BY <1>1 DEF Awaits, Recording

LEMMA ReaderTable ==
  ASSUME TypeOK, TableInv, NEW r \in Readers, ReaderNext(r)
  PROVE  TableInv'
<1> USE DEF TableInv
<1>1. ASSUME NEW k \in Keys, ReadFromCache(r, k) \/ ReadStillPending(r, k)
      PROVE  TableInv'
  <2>1. reader' = reader
    BY <1>1, ReaderType
    DEF ReadFromCache, ReadStillPending, Enters, Return, TypeOK, ReaderSends, ReaderRequests
  <2> QED
    BY <1>1, <2>1, TableFrame DEF ReadFromCache, ReadStillPending
<1>2. ASSUME NEW k \in Keys, ReadStart(r, k) PROVE TableInv'
  <2>1. /\ reader' = [reader EXCEPT ![r] = [IdleReader EXCEPT !.pc = "send", !.key = k]]
        /\ object_states_mutex = Nobody /\ object_states_mutex' = r
        /\ ~HasActiveRequest(k)
        /\ UNCHANGED <<object_states, invoke_id_to_key, invoke_id_to_key_mutex, worker>>
    BY <1>2 DEF ReadStart, Enters
  <2>2. /\ \A s \in Readers : reader[s].pc = "idle"
        /\ \A q, i : Awaits(q, i) <=> object_states[q].active_invoke_id = i
    BY <2>1, NobodyInside
  <2>3. /\ reader'[r].pc = "send" /\ reader'[r].key = k
        /\ \A s \in Readers : s # r => reader'[s] = reader[s]
    BY <2>1 DEF TypeOK, IdleReader
  <2>4. LockInv'
    BY <2>1, <2>2, <2>3 DEF LockInv
  <2>5. \A q, i : Awaits(q, i) => Awaits(q, i)'
    BY <2>1, <2>2 DEF Awaits
  <2>6. MapCoherent' /\ HandlerCoherent'
    BY <2>1, <2>5 DEF MapCoherent, HandlerCoherent
  <2>7. Unrequested(k)
    <3>1. \A i \in InvokeIds : ~Awaits(k, i)
      BY <2>1, <2>2, ConstantsAssumption DEF HasActiveRequest
    <3>2. worker.pc \in {"apply", "refuse"} => worker.reply.id \in InvokeIds
      BY WorkerType DEF IdleWorker, WorkerHandles, WorkerSweeps, Pdus
    <3> QED
      BY <2>1, <3>1, <3>2, ConstantsAssumption
      DEF Unrequested, MapCoherent, HandlerCoherent
  <2>8. Unrequested(k)'
    BY <2>1, <2>7 DEF Unrequested, HasActiveRequest
  <2> QED
    BY <2>2, <2>3, <2>4, <2>6, <2>8 DEF WindowCoherent
<1>3. CASE SendRequest(r)
  <2>1. PICK i \in InvokeIds : reader' = [reader EXCEPT ![r].pc = "map", ![r].id = i]
    BY <1>3 DEF SendRequest, Available
  <2>2. /\ reader[r].pc = "send" /\ reader'[r].pc = "map" /\ reader'[r].key = reader[r].key
        /\ \A s \in Readers : s # r => reader'[s] = reader[s]
        /\ UNCHANGED <<object_states, invoke_id_to_key, object_states_mutex,
                       invoke_id_to_key_mutex, worker>>
    <3>1. reader[r] \in ReaderSends
      BY <1>3, ReaderType DEF SendRequest
    <3> QED
      BY <1>3, <2>1, <3>1 DEF SendRequest, TypeOK, ReaderSends
  <2>3. LockInv'
    BY <2>2 DEF LockInv
  <2>4. \A q, j : Awaits(q, j) => Awaits(q, j)'
    BY <2>2 DEF Awaits, Recording
  <2>5. MapCoherent' /\ HandlerCoherent'
    BY <2>2, <2>4 DEF MapCoherent, HandlerCoherent
  <2>6. \A q : Unrequested(q) => Unrequested(q)'
    BY <2>2 DEF Unrequested, HasActiveRequest
  <2>7. WindowCoherent'
    BY <2>2, <2>6 DEF WindowCoherent, HasActiveRequest
  <2> QED
    BY <2>3, <2>5, <2>7
<1>4. CASE SendFails(r)
  <2>1. /\ reader[r].pc = "send" /\ reader'[r].pc = "idle"
        /\ \A s \in Readers : s # r => reader'[s] = reader[s]
        /\ object_states_mutex' = Nobody
        /\ UNCHANGED <<object_states, invoke_id_to_key, invoke_id_to_key_mutex, worker>>
    BY <1>4 DEF SendFails, Return, TypeOK, IdleReader
  <2>2. \A s \in Readers : reader'[s].pc = "idle"
    BY <2>1, OneReaderInside
  <2>3. LockInv'
    BY <2>1, <2>2, ConstantsAssumption DEF LockInv
  <2>4. \A q, j : Awaits(q, j) => Awaits(q, j)'
    BY <2>1 DEF Awaits, Recording
  <2>5. MapCoherent' /\ HandlerCoherent'
    BY <2>1, <2>4 DEF MapCoherent, HandlerCoherent
  <2> QED
    BY <2>2, <2>3, <2>5 DEF WindowCoherent
<1>5. CASE MapInvokeId(r)
  <2>1. PICK key \in Keys, id \in InvokeIds : reader[r].key = key /\ reader[r].id = id
    BY <1>5, ReaderType DEF MapInvokeId, ReaderRequests
  <2>2. /\ reader[r].pc = "map" /\ Recording(r, key, id)'
        /\ \A s \in Readers : s # r => reader'[s] = reader[s]
        /\ invoke_id_to_key'[id] = key
        /\ \A i \in InvokeIds : i # id => invoke_id_to_key'[i] = invoke_id_to_key[i]
        /\ UNCHANGED <<object_states, object_states_mutex, invoke_id_to_key_mutex, worker>>
    <3>1. reader[r] \in ReaderRequests
      BY <1>5, ReaderType DEF MapInvokeId
    <3> QED
      BY <1>5, <2>1, <3>1 DEF MapInvokeId, TypeOK, Recording, ReaderRequests
  <2>3. LockInv'
    BY <2>2 DEF LockInv, Recording
  <2>4. \A q, j : Awaits(q, j) => Awaits(q, j)'
    BY <2>2 DEF Awaits, Recording
  <2>5. Awaits(key, id)'
    BY <2>2 DEF Awaits
  <2>6. MapCoherent'
    <3> SUFFICES ASSUME NEW i \in InvokeIds, NEW q, invoke_id_to_key'[i] = q, q # NoKey
                 PROVE  Awaits(q, i)'
      BY DEF MapCoherent
    <3>1. CASE i = id
      BY <2>2, <2>5, <3>1
    <3>2. CASE i # id
      BY <2>2, <2>4, <3>2 DEF MapCoherent
    <3> QED
      BY <3>1, <3>2
  <2>7. Unrequested(key)
    BY <2>1, <2>2 DEF WindowCoherent
  <2>8. HandlerCoherent'
    BY <2>2, <2>4, <2>7 DEF HandlerCoherent, Unrequested
  <2>9. WindowCoherent'
    <3>1. \A s \in Readers : s # r => reader'[s].pc = "idle"
      BY <2>2, OneReaderInside
    <3>2. reader'[r].pc = "record" /\ reader'[r].key = key
      BY <2>2 DEF Recording
    <3>3. ~HasActiveRequest(key)'
      BY <2>2, <2>7 DEF Unrequested, HasActiveRequest
    <3> QED
      BY <3>1, <3>2, <3>3 DEF WindowCoherent
  <2> QED
    BY <2>3, <2>6, <2>8, <2>9
<1>6. CASE RecordRequest(r)
  <2> DEFINE id == reader[r].id  key == reader[r].key
  <2>1. key \in Keys /\ id \in InvokeIds
    BY <1>6, ReaderType DEF RecordRequest, ReaderRequests
  <2>2. /\ reader[r].pc = "record" /\ reader'[r].pc = "idle"
        /\ \A s \in Readers : s # r => reader'[s] = reader[s]
        /\ object_states'[key].active_invoke_id = id
        /\ \A q \in Keys : q # key => object_states'[q] = object_states[q]
        /\ object_states_mutex' = Nobody
        /\ UNCHANGED <<invoke_id_to_key, invoke_id_to_key_mutex, worker>>
    <3>1. object_states[key] \in ObjectState
      BY <2>1 DEF TypeOK
    <3> QED
      BY <1>6, <2>1, <3>1
      DEF RecordRequest, Return, TypeOK, IdleReader, ObjectState
  <2>3. \A s \in Readers : reader'[s].pc = "idle"
    BY <2>2, OneReaderInside
  <2>4. LockInv'
    BY <2>2, <2>3, ConstantsAssumption DEF LockInv
  <2>5. ASSUME NEW q \in Keys, NEW i \in InvokeIds, Awaits(q, i) PROVE Awaits(q, i)'
    <3>1. CASE q = key
      <4>1. object_states[key].active_invoke_id = NoId
        BY <2>2 DEF WindowCoherent, HasActiveRequest
      <4>2. \E s \in Readers : Recording(s, key, i)
        BY <2>5, <3>1, <4>1, ConstantsAssumption DEF Awaits
      <4>3. i = id
        BY <2>2, <4>2, OneReaderInside DEF Recording
      <4> QED
        BY <2>2, <3>1, <4>3 DEF Awaits
    <3>2. CASE q # key
      <4>1. ~\E s \in Readers : Recording(s, q, i)
        BY <2>2, <3>2, OneReaderInside DEF Recording
      <4> QED
        BY <2>2, <2>5, <3>2, <4>1 DEF Awaits
    <3> QED
      BY <3>1, <3>2
  <2>6. MapCoherent'
    BY <2>2, <2>5 DEF MapCoherent, TypeOK
  <2>7. worker.pc \in {"apply", "refuse"} =>
          worker.key \in Keys /\ worker.reply.id \in InvokeIds
    BY WorkerType DEF IdleWorker, WorkerHandles, WorkerSweeps, Pdus
  <2>8. HandlerCoherent'
    BY <2>2, <2>5, <2>7 DEF HandlerCoherent
  <2> QED
    BY <2>3, <2>4, <2>6, <2>8 DEF WindowCoherent
<1> QED
  BY <1>1, <1>2, <1>3, <1>4, <1>5, <1>6 DEF ReaderNext, ReaderInside

LEMMA HandleTable ==
  ASSUME TypeOK, TableInv, NEW m \in net, Handle(m)
  PROVE  TableInv'
<1> USE DEF TableInv
<1>1. m \in Pdus /\ m.id \in InvokeIds
  BY DEF TypeOK, Pdus
<1>2. worker = IdleWorker
  BY WorkerType DEF Handle, DropMalformed, DropUnmatched, DropUndecodable, TakeMapping,
     TakeRefused, Receive, WorkerHandles, WorkerSweeps
<1>3. CASE DropMalformed(m) \/ DropUnmatched(m)
  BY <1>3, TableFrame DEF DropMalformed, DropUnmatched
(* A mapping taken out leaves the others, and every wait, as they were.    *)
<1>4. ASSUME EraseMapping(m.id), UNCHANGED <<object_states, reader>>
      PROVE  /\ invoke_id_to_key'[m.id] = NoKey
             /\ \A i \in InvokeIds : i # m.id => invoke_id_to_key'[i] = invoke_id_to_key[i]
             /\ \A q, i : Awaits(q, i) => Awaits(q, i)'
             /\ MapCoherent'
  <2>1. /\ invoke_id_to_key'[m.id] = NoKey
        /\ \A i \in InvokeIds : i # m.id => invoke_id_to_key'[i] = invoke_id_to_key[i]
    BY <1>1, <1>4 DEF EraseMapping, TypeOK
  <2>2. \A q, i : Awaits(q, i) => Awaits(q, i)'
    BY <1>4 DEF Awaits, Recording
  <2>3. MapCoherent'
    BY <2>1, <2>2 DEF MapCoherent
  <2> QED
    BY <2>1, <2>2, <2>3
<1>5. CASE DropUndecodable(m)
  <2>1. /\ EraseMapping(m.id)
        /\ UNCHANGED <<object_states, object_states_mutex, invoke_id_to_key_mutex,
                       reader, worker>>
    BY <1>2, <1>5 DEF DropUndecodable
  <2>2. LockInv'
    BY <2>1 DEF LockInv
  <2>3. HandlerCoherent'
    BY <1>2, <2>1 DEF HandlerCoherent, IdleWorker
  <2>4. \A r \in Readers : reader[r].pc # "idle" => reader[r].key # NoKey
    BY ReaderType, ConstantsAssumption DEF ReaderSends, ReaderRequests, IdleReader
  <2>5. \A q : q # NoKey /\ Unrequested(q) => Unrequested(q)'
    BY <1>4, <2>1 DEF Unrequested, HasActiveRequest
  <2>6. WindowCoherent'
    BY <2>1, <2>4, <2>5 DEF WindowCoherent, HasActiveRequest
  <2> QED
    BY <1>4, <2>1, <2>2, <2>3, <2>6
<1>6. CASE TakeMapping(m) \/ TakeRefused(m)
  <2> DEFINE key == invoke_id_to_key[m.id]
  <2>1. /\ EraseMapping(m.id) /\ Mapped(m)
        /\ UNCHANGED <<object_states, object_states_mutex, reader>>
        /\ worker'.pc \in {"apply", "refuse"}
        /\ worker'.key = key /\ worker'.reply = m
    BY <1>6 DEF TakeMapping, TakeRefused, WorkerTakes, IdleWorker
  <2>2. worker'.pc = "refuse" <=> invoke_id_to_key_mutex' = Worker
    BY <1>2, <1>6, ConstantsAssumption
    DEF TakeMapping, TakeRefused, WorkerTakes, IdleWorker, LockInv
  <2>3. LockInv'
    BY <2>1, <2>2 DEF LockInv
  <2>4. key # NoKey /\ Awaits(key, m.id)
    BY <1>1, <2>1 DEF Mapped, MapCoherent
  <2>5. \A i \in InvokeIds : invoke_id_to_key'[i] # key
    <3>1. \A i \in InvokeIds : i # m.id => invoke_id_to_key[i] # key
      BY <1>1, <2>4, OneRequest DEF OneRequestPerKey
    <3> QED
      BY <1>4, <2>1, <2>4, <3>1
  <2>6. HandlerCoherent'
    BY <1>4, <2>1, <2>4, <2>5 DEF HandlerCoherent
  <2>7. \A r \in Readers : reader[r].pc # "idle" => reader[r].key # NoKey
    BY ReaderType, ConstantsAssumption DEF ReaderSends, ReaderRequests, IdleReader
  <2>8. \A q : q # NoKey /\ Unrequested(q) => Unrequested(q)'
    BY <1>1, <1>4, <2>1 DEF Unrequested, HasActiveRequest
  <2>9. WindowCoherent'
    BY <2>1, <2>7, <2>8 DEF WindowCoherent, HasActiveRequest
  <2> QED
    BY <1>4, <2>1, <2>3, <2>6, <2>9
<1> QED
  BY <1>3, <1>5, <1>6 DEF Handle

LEMMA WorkerTable ==
  ASSUME TypeOK, TableInv, ApplyReply \/ ApplyRefused \/ SweepBegin \/ SweepEnd
  PROVE  TableInv'
<1> USE DEF TableInv
<1>1. CASE ApplyReply \/ ApplyRefused
  <2>1. worker \in WorkerHandles /\ worker.key \in Keys
    BY <1>1, WorkerType DEF ApplyReply, ApplyRefused, WorkerHandles
  <2>2. /\ object_states_mutex = Nobody
        /\ worker.pc \in {"apply", "refuse"} /\ worker'.pc = "receive"
        /\ UNCHANGED <<invoke_id_to_key, object_states_mutex, reader>>
    BY <1>1 DEF ApplyReply, ApplyRefused, IdleWorker
  <2>3. \A q \in Keys : q # worker.key => object_states'[q] = object_states[q]
    BY <1>1, <2>1 DEF ApplyReply, ApplyRefused, TypeOK
  <2>4. invoke_id_to_key_mutex' # Worker
    BY <1>1, ConstantsAssumption DEF ApplyReply, ApplyRefused, LockInv
  <2>5. LockInv'
    BY <2>2, <2>4 DEF LockInv
  <2>6. MapCoherent'
    <3> SUFFICES ASSUME NEW i \in InvokeIds, invoke_id_to_key[i] # NoKey
                 PROVE  Awaits(invoke_id_to_key[i], i)'
      BY <2>2 DEF MapCoherent
    <3>1. invoke_id_to_key[i] \in Keys /\ invoke_id_to_key[i] # worker.key
      BY <2>2 DEF TypeOK, HandlerCoherent
    <3>2. object_states[invoke_id_to_key[i]].active_invoke_id = i
      BY <2>2, NobodyInside DEF MapCoherent
    <3> QED
      BY <2>2, <2>3, <3>1, <3>2 DEF Awaits
  <2>7. HandlerCoherent'
    BY <2>2 DEF HandlerCoherent
  <2>8. WindowCoherent'
    BY <2>2, NobodyInside DEF WindowCoherent
  <2> QED
    BY <2>5, <2>6, <2>7, <2>8
<1>2. CASE SweepBegin
  <2>1. /\ worker'.pc = "sweep" /\ invoke_id_to_key_mutex' = Worker
        /\ UNCHANGED <<object_states, invoke_id_to_key, object_states_mutex, reader>>
    BY <1>2 DEF SweepBegin, IdleWorker
  <2>2. LockInv'
    BY <2>1 DEF LockInv
  <2>3. MapCoherent'
    BY <2>1 DEF MapCoherent, Awaits, Recording
  <2>4. HandlerCoherent'
    BY <2>1 DEF HandlerCoherent
  <2>5. WindowCoherent'
    BY <2>1 DEF WindowCoherent, Unrequested, HasActiveRequest
  <2> QED
    BY <2>2, <2>3, <2>4, <2>5
<1>3. CASE SweepEnd
  <2>1. /\ object_states_mutex = Nobody
        /\ worker'.pc = "receive" /\ invoke_id_to_key_mutex' = Nobody
        /\ invoke_id_to_key' = SweptMap
        /\ UNCHANGED <<object_states_mutex, reader>>
    BY <1>3 DEF SweepEnd, IdleWorker
  <2>0. \A i \in InvokeIds : SweptMap[i] \in Keys \cup {NoKey}
    BY DEF SweptMap, TypeOK
  <2>2. LockInv'
    BY <2>1, ConstantsAssumption DEF LockInv
  <2>3. MapCoherent'
    <3> SUFFICES ASSUME NEW i \in InvokeIds, NEW k \in Keys, SweptMap[i] = k
                 PROVE  Awaits(k, i)'
      BY <2>0, <2>1 DEF MapCoherent
    <3>1. i \notin StaleIds /\ invoke_id_to_key[i] = k /\ k # NoKey
      BY ConstantsAssumption DEF SweptMap
    <3>2. object_states[k].active_invoke_id = i
      BY <2>1, <3>1, NobodyInside DEF MapCoherent
    <3>3. \A j \in StaleIds : invoke_id_to_key[j] # k
      BY <3>1, <3>2 DEF StaleIds
    <3>4. object_states'[k] = object_states[k]
      BY <1>3, <3>3 DEF SweepEnd
    <3> QED
      BY <3>2, <3>4 DEF Awaits
  <2>4. HandlerCoherent'
    BY <2>1 DEF HandlerCoherent
  <2>5. WindowCoherent'
    BY <2>1, NobodyInside DEF WindowCoherent
  <2> QED
    BY <2>2, <2>3, <2>4, <2>5
<1> QED
  BY <1>1, <1>2, <1>3

LEMMA StepTable == TypeOK /\ TableInv /\ [Next]_vars => TableInv'
<1> SUFFICES ASSUME TypeOK, TableInv, [Next]_vars PROVE TableInv'
  OBVIOUS
<1>1. ASSUME NEW r \in Readers, ReaderNext(r) PROVE TableInv'
  BY <1>1, ReaderTable
<1>2. CASE WorkerNext
  BY <1>2, HandleTable, WorkerTable DEF WorkerNext
<1>3. CASE Environment
  <2>1. CASE Tick
    <3>1. \A k \in Keys : object_states'[k].active_invoke_id
                            = object_states[k].active_invoke_id
      BY <2>1 DEF Tick, TypeOK, ObjectState
    <3> QED
      BY <2>1, <3>1, TableFrame DEF Tick
  <2>2. CASE ~Tick
    BY <1>3, <2>2, TableFrame DEF Environment, Lose, DeviceAnswers, DeviceChanges
  <2> QED
    BY <2>1, <2>2
<1>4. CASE UNCHANGED vars
  BY <1>4, TableFrame DEF vars
<1> QED
  BY <1>1, <1>2, <1>3, <1>4 DEF Next

(* A reply found in the reverse map, or already taken out of it by a       *)
(* handler, is the one its key awaits, and the key a reader is about to    *)
(* request has no other request; a key has at most one entry of the map:   *)
(* for any number of threads, keys and ids,                                *)
(* with the two mutexes as the code takes them.                            *)
THEOREM TableCoherent ==
  Spec => []TablesAgree
<1>1. Spec => [](TypeOK /\ TableInv)
  BY InitType, StepType, InitTable, StepTable, PTL DEF Spec
<1>2. TypeOK /\ TableInv => TablesAgree
  BY OneRequest DEF TableInv, TablesAgree
<1> QED
  BY <1>1, <1>2, PTL

(* Every request transmitted is for a key that has none, whichever threads *)
(* call and however the replies and the sweep interleave with them.        *)
THEOREM NoDuplicates == Spec => NoDuplicateRequest
<1>1. Spec => [](TypeOK /\ TableInv)
  BY InitType, StepType, InitTable, StepTable, PTL DEF Spec
<1>2. TableInv =>
        \A r \in Readers : (reader[r].pc = "send" /\ reader'[r].pc = "map")
                             => Unrequested(reader[r].key)
  BY DEF TableInv, WindowCoherent
<1>3. TableInv =>
        [\A r \in Readers : (reader[r].pc = "send" /\ reader'[r].pc = "map")
                              => Unrequested(reader[r].key)]_vars
  BY <1>2
<1> QED
  BY <1>1, <1>3, PTL DEF NoDuplicateRequest

-----------------------------------------------------------------------------
(***************************************************************************)
(* What the entries say.                                                   *)
(***************************************************************************)
LEMMA StepStatus ==
  TypeOK /\ StatusTellsPending /\ [Next]_vars => StatusTellsPending'
<1> SUFFICES ASSUME TypeOK, StatusTellsPending, [Next]_vars,
                    NEW k \in Keys
             PROVE  object_states'[k].active_invoke_id # NoId
                      <=> object_states'[k].status = "NO_DATA"
  BY DEF StatusTellsPending, HasActiveRequest
<1>1. object_states[k] \in ObjectState
  BY DEF TypeOK
<1>2. object_states[k].active_invoke_id # NoId <=> object_states[k].status = "NO_DATA"
  BY DEF StatusTellsPending, HasActiveRequest
<1>3. CASE UNCHANGED object_states
  BY <1>2, <1>3
<1>4. ASSUME NEW r \in Readers, RecordRequest(r)
      PROVE  object_states'[k].active_invoke_id # NoId
               <=> object_states'[k].status = "NO_DATA"
  <2>1. reader[r].key \in Keys /\ reader[r].id \in InvokeIds
    BY <1>4, ReaderType DEF RecordRequest, ReaderRequests
  <2>2. reader[r].id # NoId
    BY <2>1, ConstantsAssumption
  <2> QED
    BY <1>1, <1>2, <1>4, <2>1, <2>2 DEF RecordRequest, TypeOK, ObjectState
<1>5. CASE ApplyReply
  <2>1. worker.key \in Keys
    BY <1>5, WorkerType DEF ApplyReply, WorkerHandles
  <2>2. /\ Applied(object_states[k], worker.reply).active_invoke_id = NoId
        /\ Applied(object_states[k], worker.reply).status # "NO_DATA"
    BY <1>1 DEF Applied, ObjectState
  <2> QED
    BY <1>2, <1>5, <2>1, <2>2 DEF ApplyReply, TypeOK
<1>6. CASE ApplyRefused
  <2>1. worker.key \in Keys
    BY <1>6, WorkerType DEF ApplyRefused, WorkerHandles
  <2> QED
    BY <1>1, <1>2, <1>6, <2>1 DEF ApplyRefused, TypeOK, ObjectState
<1>7. CASE SweepEnd
  <2>1. Swept(k).active_invoke_id = NoId /\ Swept(k).status = "TIMEOUT"
    BY <1>1 DEF Swept, ObjectState
  <2>2. object_states'[k] = Swept(k) \/ object_states'[k] = object_states[k]
    BY <1>7 DEF SweepEnd
  <2> QED
    BY <1>2, <2>1, <2>2
<1>8. CASE Tick
  BY <1>1, <1>2, <1>8 DEF Tick, ObjectState
<1> QED
  BY <1>3, <1>4, <1>5, <1>6, <1>7, <1>8
  DEF Next, ReaderNext, ReaderInside, ReadFromCache, ReadStillPending, ReadStart,
      SendRequest, SendFails, MapInvokeId, WorkerNext, Handle, DropMalformed,
      DropUnmatched, DropUndecodable, TakeMapping, TakeRefused, SweepBegin, Environment,
      Lose, DeviceAnswers, DeviceChanges, vars

(* The status field and active_invoke_id never disagree, whichever of the  *)
(* six paths ends a request.                                               *)
THEOREM StatusHolds == Spec => []StatusTellsPending
<1>1. Init => StatusTellsPending
  BY DEF Init, StatusTellsPending, HasActiveRequest, NewObjectState
<1> QED
  BY <1>1, InitType, StepType, StepStatus, PTL DEF Spec

(* The flag of a value in the cache stays: no failure path resets it.      *)
LEMMA ValueStays ==
  ASSUME TypeOK, [Next]_vars, NEW k \in Keys, has_valid_cache(k)
  PROVE  has_valid_cache(k)'
<1> SUFFICES object_states'[k].cached_value # NoValue
  BY DEF has_valid_cache
<1>1. object_states[k] \in ObjectState /\ object_states[k].cached_value # NoValue
  BY DEF TypeOK, has_valid_cache
<1>2. CASE UNCHANGED object_states
  BY <1>1, <1>2
<1>3. ASSUME NEW r \in Readers, RecordRequest(r)
      PROVE  object_states'[k].cached_value # NoValue
  BY <1>1, <1>3 DEF RecordRequest, TypeOK, ObjectState
<1>4. CASE ApplyReply
  <2>1. worker.key \in Keys /\ worker.reply.key \in Keys
    BY <1>4, WorkerType DEF ApplyReply, WorkerHandles, Pdus
  <2>2. [key |-> worker.reply.key, version |-> worker.reply.version] # NoValue
    BY <2>1, ConstantsAssumption DEF NoValue
  <2>3. Applied(object_states[k], worker.reply).cached_value # NoValue
    BY <1>1, <2>2 DEF Applied, ObjectState
  <2> QED
    BY <1>1, <1>4, <2>1, <2>3 DEF ApplyReply, TypeOK
<1>5. CASE ApplyRefused
  BY <1>1, <1>5 DEF ApplyRefused, TypeOK, ObjectState
<1>6. CASE SweepEnd
  <2>1. Swept(k).cached_value = object_states[k].cached_value
    BY <1>1 DEF Swept, ObjectState
  <2> QED
    BY <1>1, <1>6, <2>1 DEF SweepEnd
<1>7. CASE Tick
  BY <1>1, <1>7 DEF Tick, ObjectState
<1> QED
  BY <1>2, <1>3, <1>4, <1>5, <1>6, <1>7
  DEF Next, ReaderNext, ReaderInside, ReadFromCache, ReadStillPending, ReadStart,
      SendRequest, SendFails, MapInvokeId, WorkerNext, Handle, DropMalformed,
      DropUnmatched, DropUndecodable, TakeMapping, TakeRefused, SweepBegin, Environment,
      Lose, DeviceAnswers, DeviceChanges, vars

(* And its content goes only with an ack that cannot be stored.            *)
LEMMA HoldsStays ==
  ASSUME TypeOK, [Next]_vars, NEW k \in Keys, Holds(k), ~StoreFails(k)
  PROVE  Holds(k)'
<1> SUFFICES object_states'[k].lost = FALSE
  BY ValueStays DEF Holds
<1>1. object_states[k] \in ObjectState /\ object_states[k].lost = FALSE
  BY DEF TypeOK, Holds, ObjectState
<1>2. CASE UNCHANGED object_states
  BY <1>1, <1>2
<1>3. ASSUME NEW r \in Readers, RecordRequest(r)
      PROVE  object_states'[k].lost = FALSE
  BY <1>1, <1>3 DEF RecordRequest, TypeOK, ObjectState
<1>4. CASE ApplyReply
  <2>1. CASE worker.key # k
    BY <1>1, <1>4, <2>1 DEF ApplyReply, TypeOK
  <2>2. CASE worker.key = k
    <3>1. worker.reply.kind # "unallocated"
      BY <1>4, <2>2 DEF ApplyReply, StoreFails
    <3>2. Applied(object_states[k], worker.reply).lost = FALSE
      BY <1>1, <3>1 DEF Applied, ObjectState
    <3> QED BY <1>4, <2>2, <3>2 DEF ApplyReply, TypeOK
  <2> QED BY <2>1, <2>2
<1>5. CASE ApplyRefused
  BY <1>1, <1>5 DEF ApplyRefused, TypeOK, ObjectState
<1>6. CASE SweepEnd
  <2>1. Swept(k).lost = object_states[k].lost
    BY <1>1 DEF Swept, ObjectState
  <2> QED
    BY <1>1, <1>6, <2>1 DEF SweepEnd
<1>7. CASE Tick
  BY <1>1, <1>7 DEF Tick, ObjectState
<1> QED
  BY <1>2, <1>3, <1>4, <1>5, <1>6, <1>7
  DEF Next, ReaderNext, ReaderInside, ReadFromCache, ReadStillPending, ReadStart,
      SendRequest, SendFails, MapInvokeId, WorkerNext, Handle, DropMalformed,
      DropUnmatched, DropUndecodable, TakeMapping, TakeRefused, SweepBegin, Environment,
      Lose, DeviceAnswers, DeviceChanges, vars

(* The flag a caller relies on, with what it needs to be inductive.        *)
SuccessInv ==
  returned.rc = "SUCCESS" => returned.key \in Keys /\ has_valid_cache(returned.key)

LEMMA StepSuccess == TypeOK /\ SuccessInv /\ [Next]_vars => SuccessInv'
<1> SUFFICES ASSUME TypeOK, SuccessInv, [Next]_vars, returned'.rc = "SUCCESS"
             PROVE  returned'.key \in Keys /\ has_valid_cache(returned.key)'
  BY DEF SuccessInv
<1>1. CASE UNCHANGED returned
  <2>1. returned.key \in Keys /\ has_valid_cache(returned.key)
    BY <1>1 DEF SuccessInv
  <2>2. PICK k \in Keys : returned.key = k
    BY <2>1
  <2> QED
    BY <1>1, <2>1, <2>2, ValueStays DEF has_valid_cache
<1>2. ASSUME NEW r \in Readers, NEW k \in Keys, ReadFromCache(r, k)
      PROVE  returned'.key \in Keys /\ has_valid_cache(returned.key)'
  BY <1>2 DEF ReadFromCache, Return, CacheHit, has_valid_cache
<1>3. ASSUME NEW r \in Readers, NEW k \in Keys, ReadStillPending(r, k) PROVE FALSE
  BY <1>3 DEF ReadStillPending, Return
<1>4. ASSUME NEW r \in Readers, SendFails(r) PROVE FALSE
  BY <1>4 DEF SendFails, Return
<1>5. ASSUME NEW r \in Readers, RecordRequest(r)
      PROVE  returned'.key \in Keys /\ has_valid_cache(returned.key)'
  <2>1. reader[r].key \in Keys
    BY <1>5, ReaderType DEF RecordRequest, ReaderRequests
  <2>2. returned'.key = reader[r].key /\ has_valid_cache(reader[r].key)
    BY <1>5 DEF RecordRequest, Return, RecordedCode
  <2>3. PICK k \in Keys : reader[r].key = k
    BY <2>1
  <2> QED
    BY <2>2, <2>3, ValueStays DEF has_valid_cache
<1> QED
  BY <1>1, <1>2, <1>3, <1>4, <1>5
  DEF Next, ReaderNext, ReaderInside, ReadStart, SendRequest, MapInvokeId, WorkerNext,
      Handle, DropMalformed, DropUnmatched, DropUndecodable, TakeMapping, TakeRefused,
      ApplyReply, ApplyRefused, SweepBegin, SweepEnd, Environment, Lose, DeviceAnswers,
      DeviceChanges, Tick, vars

(* A key for which PROTO_SUCCESS was returned has had a value stored, for  *)
(* good; and a value that is there outlives every refusal, timeout, sweep  *)
(* and undecodable reply, and goes only when an ack of its own key finds   *)
(* no memory for its text.                                                 *)
THEOREM SuccessHolds == Spec => SuccessHadValue
<1>1. Init => SuccessInv
  BY DEF Init, SuccessInv
<1>2. Spec => []SuccessInv
  BY <1>1, InitType, StepType, StepSuccess, PTL DEF Spec
<1>3. SuccessInv => (returned.rc = "SUCCESS" => has_valid_cache(returned.key))
  BY DEF SuccessInv
<1>4. TypeOK /\ [Next]_vars => [\A k \in Keys : Holds(k) => Holds(k)' \/ StoreFails(k)]_vars
  BY HoldsStays
<1> QED
  BY <1>2, <1>3, <1>4, TypeCorrect, PTL DEF Spec, SuccessHadValue

-----------------------------------------------------------------------------

(***************************************************************************)
(* The inductive invariant, if every reply decodes.  An id in use is busy, *)
(* whether a reader has just been given it, it is mapped, or a handler has *)
(* its reply; and every active request has its mapping or its handler.     *)
(***************************************************************************)
ReaderIds ==
  \A r \in Readers : reader[r].pc \in {"map", "record"} => tsm[reader[r].id] # Free

(* The id of a reader that has sent is nobody else's until it is mapped.   *)
SentIdsUnmapped ==
  \A r \in Readers : reader[r].pc = "map" =>
    /\ invoke_id_to_key[reader[r].id] = NoKey
    /\ ~(worker.pc \in {"apply", "refuse"} /\ worker.reply.id = reader[r].id)

(* The handler's id is in no table.                                        *)
HandlerIds ==
  worker.pc \in {"apply", "refuse"} => invoke_id_to_key[worker.reply.id] = NoKey

(* A reader that is about to record finds its mapping still there, or a    *)
(* handler already has the reply.                                          *)
RecordingMapped ==
  \A r \in Readers : reader[r].pc = "record" =>
    \/ invoke_id_to_key[reader[r].id] = reader[r].key
    \/ worker.pc \in {"apply", "refuse"} /\ worker.key = reader[r].key

NominalInv ==
  UsedIdsAreBusy /\ ReaderIds /\ SentIdsUnmapped /\ HandlerIds /\ RecordingMapped
  /\ NoOrphanRequest

-----------------------------------------------------------------------------
LEMMA InitNominal == Init => NominalInv
  BY DEF Init, NominalInv, UsedIdsAreBusy, ReaderIds, SentIdsUnmapped, HandlerIds,
     RecordingMapped, NoOrphanRequest, HasActiveRequest, NewObjectState, IdleReader, IdleWorker

(* A step that leaves the tables and the threads alone and frees no id     *)
(* that is in use keeps the invariant.                                     *)
LEMMA NominalFrame ==
  ASSUME TypeOK, NominalInv, UNCHANGED <<invoke_id_to_key, reader, worker>>,
         \A k \in Keys : object_states'[k].active_invoke_id = object_states[k].active_invoke_id,
         \A i \in InvokeIds :
           \/ invoke_id_to_key[i] # NoKey
           \/ worker.pc \in {"apply", "refuse"} /\ worker.reply.id = i
           \/ \E r \in Readers : reader[r].pc \in {"map", "record"} /\ reader[r].id = i
           => (tsm[i] # Free => tsm'[i] # Free)
  PROVE  NominalInv'
<1>1. \A r \in Readers : reader[r].pc \in {"map", "record"} => reader[r].id \in InvokeIds
  BY ReaderType DEF IdleReader, ReaderSends, ReaderRequests
<1>2. worker.pc \in {"apply", "refuse"} => worker.reply.id \in InvokeIds
  BY WorkerType DEF IdleWorker, WorkerHandles, WorkerSweeps, Pdus
<1>3. UsedIdsAreBusy'
  BY <1>2 DEF NominalInv, UsedIdsAreBusy
<1>4. ReaderIds'
  BY <1>1 DEF NominalInv, ReaderIds
<1>5. SentIdsUnmapped' /\ HandlerIds' /\ RecordingMapped'
  BY DEF NominalInv, SentIdsUnmapped, HandlerIds, RecordingMapped
<1>6. NoOrphanRequest'
  BY DEF NominalInv, NoOrphanRequest, HasActiveRequest
<1> QED BY <1>3, <1>4, <1>5, <1>6 DEF NominalInv

LEMMA ReaderNominal ==
  ASSUME TypeOK, TableInv, NominalInv, NEW r \in Readers, ReaderNext(r)
  PROVE  NominalInv'
<1> USE DEF NominalInv
<1>0. \A s \in Readers : s # r /\ reader[r].pc # "idle" => reader[s].pc = "idle"
  BY OneReaderInside DEF TableInv
<1>1. ASSUME NEW k \in Keys, ReadFromCache(r, k) \/ ReadStillPending(r, k)
      PROVE  NominalInv'
  <2>1. reader' = reader
    BY <1>1, ReaderType
    DEF ReadFromCache, ReadStillPending, Enters, Return, TypeOK, ReaderSends, ReaderRequests
  <2> QED BY <1>1, <2>1, NominalFrame DEF ReadFromCache, ReadStillPending
<1>2. ASSUME NEW k \in Keys, ReadStart(r, k) PROVE NominalInv'
  <2>1. /\ reader'[r].pc = "send" /\ \A s \in Readers : s # r => reader'[s] = reader[s]
        /\ UNCHANGED <<object_states, invoke_id_to_key, worker, tsm>>
    BY <1>2 DEF ReadStart, TypeOK, IdleReader
  <2> QED BY <2>1 DEF UsedIdsAreBusy, ReaderIds, SentIdsUnmapped, HandlerIds, RecordingMapped,
          NoOrphanRequest, HasActiveRequest
<1>3. CASE SendRequest(r)
  <2>1. reader[r].pc = "send" /\ UNCHANGED <<object_states, invoke_id_to_key, worker>>
    BY <1>3 DEF SendRequest
  <2>2. PICK i \in Available : /\ tsm' = [tsm EXCEPT ![i] = 0]
                               /\ reader' = [reader EXCEPT ![r].pc = "map", ![r].id = i]
    BY <1>3 DEF SendRequest
  <2>3. i \in InvokeIds /\ tsm[i] = Free
    BY <2>2 DEF Available
  <2>4. invoke_id_to_key[i] = NoKey
    BY <2>3 DEF UsedIdsAreBusy
  <2>5. ~(worker.pc \in {"apply", "refuse"} /\ worker.reply.id = i)
    BY <2>3 DEF UsedIdsAreBusy
  <2>6. \A j \in InvokeIds : tsm[j] # Free => tsm'[j] # Free
    BY <2>2, <2>3 DEF TypeOK, Free
  <2>7. tsm'[i] # Free
    BY <2>2, <2>3 DEF TypeOK, Free
  <2>8. reader[r] \in ReaderSends
    BY <2>1, ReaderType
  <2>9. /\ reader'[r].pc = "map" /\ reader'[r].id = i
        /\ \A s \in Readers : s # r => reader'[s].pc = "idle"
    BY <1>0, <2>1, <2>2, <2>8 DEF TypeOK, ReaderSends
  <2>10. worker.pc \in {"apply", "refuse"} => worker.reply.id \in InvokeIds
    BY WorkerType DEF WorkerHandles, Pdus
  <2>11. UsedIdsAreBusy'
    BY <2>1, <2>6, <2>10 DEF UsedIdsAreBusy
  <2>12. ReaderIds' /\ SentIdsUnmapped' /\ RecordingMapped'
    BY <2>1, <2>4, <2>5, <2>7, <2>9 DEF ReaderIds, SentIdsUnmapped, RecordingMapped
  <2>13. HandlerIds' /\ NoOrphanRequest'
    BY <2>1 DEF HandlerIds, NoOrphanRequest, HasActiveRequest
  <2> QED BY <2>11, <2>12, <2>13
<1>4. CASE SendFails(r)
  <2>1. /\ reader'[r].pc = "idle" /\ \A s \in Readers : s # r => reader'[s] = reader[s]
        /\ UNCHANGED <<object_states, invoke_id_to_key, worker, tsm>>
    BY <1>4 DEF SendFails, Return, TypeOK, IdleReader
  <2> QED BY <2>1 DEF UsedIdsAreBusy, ReaderIds, SentIdsUnmapped, HandlerIds, RecordingMapped,
          NoOrphanRequest, HasActiveRequest
<1>5. CASE MapInvokeId(r)
  <2> DEFINE i == reader[r].id
             k == reader[r].key
  <2>1. reader[r].pc = "map" /\ reader[r] \in ReaderRequests /\ i \in InvokeIds /\ k \in Keys
    BY <1>5, ReaderType DEF MapInvokeId, ReaderRequests
  <2>2. /\ invoke_id_to_key' = [invoke_id_to_key EXCEPT ![i] = k]
        /\ UNCHANGED <<object_states, worker, tsm>>
        /\ reader' = [reader EXCEPT ![r].pc = "record"]
    BY <1>5 DEF MapInvokeId
  <2>3. /\ reader'[r].pc = "record" /\ reader'[r].id = i /\ reader'[r].key = k
        /\ \A s \in Readers : s # r => reader'[s].pc = "idle"
    BY <1>0, <2>1, <2>2 DEF TypeOK, ReaderRequests
  <2>4. invoke_id_to_key[i] = NoKey /\ tsm[i] # Free
        /\ ~(worker.pc \in {"apply", "refuse"} /\ worker.reply.id = i)
    BY <2>1 DEF SentIdsUnmapped, ReaderIds
  <2>5. invoke_id_to_key'[i] = k /\ \A j \in InvokeIds : j # i => invoke_id_to_key'[j] = invoke_id_to_key[j]
    BY <2>1, <2>2 DEF TypeOK
  <2>6. UsedIdsAreBusy' /\ ReaderIds'
    BY <2>2, <2>3, <2>4, <2>5 DEF UsedIdsAreBusy, ReaderIds
  <2>7. SentIdsUnmapped' /\ RecordingMapped'
    BY <2>3, <2>5 DEF SentIdsUnmapped, RecordingMapped
  <2>8. HandlerIds'
    <3>1. worker.pc \in {"apply", "refuse"} => worker.reply.id \in InvokeIds
      BY WorkerType DEF WorkerHandles, Pdus
    <3> QED BY <2>2, <2>4, <2>5, <3>1 DEF HandlerIds
  <2>9. NoOrphanRequest'
    <3>1. \A q \in Keys : HasActiveRequest(q) =>
            object_states[q].active_invoke_id \in InvokeIds
      BY DEF HasActiveRequest, TypeOK, ObjectState
    <3>2. \A q \in Keys : HasActiveRequest(q) /\ invoke_id_to_key[object_states[q].active_invoke_id] = q
            => object_states[q].active_invoke_id # i
      BY <2>4, ConstantsAssumption
    <3> QED BY <2>2, <2>5, <3>1, <3>2 DEF NoOrphanRequest, HasActiveRequest
  <2> QED BY <2>6, <2>7, <2>8, <2>9
<1>6. CASE RecordRequest(r)
  <2> DEFINE i == reader[r].id
             k == reader[r].key
  <2>1. reader[r].pc = "record" /\ i \in InvokeIds /\ k \in Keys
    BY <1>6, ReaderType DEF RecordRequest, ReaderRequests
  <2>2. /\ object_states' = [object_states EXCEPT ![k].active_invoke_id = i, ![k].status = "NO_DATA"]
        /\ UNCHANGED <<invoke_id_to_key, worker, tsm>>
        /\ reader'[r].pc = "idle" /\ \A s \in Readers : s # r => reader'[s] = reader[s]
    BY <1>6 DEF RecordRequest, Return, TypeOK, IdleReader
  <2>3. invoke_id_to_key[i] = k \/ (worker.pc \in {"apply", "refuse"} /\ worker.key = k)
    <3>1. reader[r].pc = "record" =>
            \/ invoke_id_to_key[reader[r].id] = reader[r].key
            \/ worker.pc \in {"apply", "refuse"} /\ worker.key = reader[r].key
      BY DEF RecordingMapped
    <3> QED BY <2>1, <3>1
  <2>4. /\ object_states'[k].active_invoke_id = i
        /\ \A q \in Keys : q # k => object_states'[q] = object_states[q]
    BY <2>1, <2>2 DEF TypeOK, ObjectState
  <2>5. NoOrphanRequest'
    BY <2>2, <2>3, <2>4 DEF NoOrphanRequest, HasActiveRequest
  <2> QED BY <2>2, <2>5 DEF UsedIdsAreBusy, ReaderIds, SentIdsUnmapped, HandlerIds, RecordingMapped
<1> QED BY <1>1, <1>2, <1>3, <1>4, <1>5, <1>6 DEF ReaderNext, ReaderInside

LEMMA HandleNominal ==
  ASSUME EveryReplyDecodes, TypeOK, TableInv, NominalInv, NEW m \in net, Handle(m)
  PROVE  NominalInv'
<1> USE DEF NominalInv
<1>1. m \in Pdus /\ m.id \in InvokeIds
  BY DEF TypeOK, Pdus
<1>2. worker = IdleWorker /\ worker.pc = "receive"
  BY WorkerType DEF Handle, DropMalformed, DropUnmatched, DropUndecodable, TakeMapping,
     TakeRefused, Receive, WorkerHandles, WorkerSweeps, IdleWorker
<1>3. \A r \in Readers : ~(reader[r].pc = "map" /\ reader[r].id = m.id)
  BY NominalAssumption
  DEF Handle, DropMalformed, DropUnmatched, DropUndecodable, TakeMapping, TakeRefused, Receive
<1>4. ~DropMalformed(m) /\ ~DropUndecodable(m)
  BY <1>1 DEF EveryReplyDecodes, DropMalformed, DropUndecodable, Receive, Pdus, Requested
<1>r. \A r \in Readers : reader[r].pc \in {"map", "record"} =>
        reader[r].id \in InvokeIds /\ reader[r].key \in Keys
  BY ReaderType DEF IdleReader, ReaderSends, ReaderRequests
<1>5. CASE DropUnmatched(m)
  <2>1. /\ invoke_id_to_key[m.id] = NoKey /\ tsm' = [tsm EXCEPT ![m.id] = Free]
        /\ UNCHANGED <<object_states, invoke_id_to_key, reader, worker>>
    BY <1>5 DEF DropUnmatched, Mapped, tsm_free_invoke_id
  <2>2. \A r \in Readers : reader[r].pc \in {"map", "record"} => reader[r].id # m.id
    BY <1>2, <1>3, <1>r, <2>1, ConstantsAssumption DEF RecordingMapped
  <2>3. \A i \in InvokeIds : i # m.id => tsm'[i] = tsm[i]
    BY <2>1 DEF TypeOK
  <2> QED BY <1>2, <2>1, <2>2, <2>3, NominalFrame
<1>6. CASE TakeMapping(m) \/ TakeRefused(m)
  <2> DEFINE key == invoke_id_to_key[m.id]
  <2>1. /\ EraseMapping(m.id) /\ key # NoKey
        /\ UNCHANGED <<object_states, reader, tsm>>
        /\ worker'.pc \in {"apply", "refuse"} /\ worker'.key = key /\ worker'.reply = m
    BY <1>6 DEF TakeMapping, TakeRefused, WorkerTakes, IdleWorker, Mapped
  <2>2. /\ invoke_id_to_key'[m.id] = NoKey
        /\ \A i \in InvokeIds : i # m.id => invoke_id_to_key'[i] = invoke_id_to_key[i]
    BY <1>1, <2>1 DEF EraseMapping, TypeOK
  <2>3. UsedIdsAreBusy' /\ ReaderIds'
    BY <1>1, <2>1, <2>2 DEF UsedIdsAreBusy, ReaderIds
  <2>4. SentIdsUnmapped'
    BY <1>3, <1>r, <2>1, <2>2 DEF SentIdsUnmapped
  <2>5. HandlerIds'
    BY <2>1, <2>2 DEF HandlerIds
  <2>6. RecordingMapped'
    BY <1>2, <1>r, <2>1, <2>2 DEF RecordingMapped
  <2>7. NoOrphanRequest'
    <3>1. \A q \in Keys : HasActiveRequest(q) => object_states[q].active_invoke_id \in InvokeIds
      BY DEF HasActiveRequest, TypeOK, ObjectState
    <3> QED BY <1>2, <2>1, <2>2, <3>1 DEF NoOrphanRequest, HasActiveRequest
  <2> QED BY <2>3, <2>4, <2>5, <2>6, <2>7
<1> QED BY <1>4, <1>5, <1>6 DEF Handle

LEMMA WorkerNominal ==
  ASSUME TypeOK, TableInv, NominalInv, ApplyReply \/ ApplyRefused \/ SweepBegin \/ SweepEnd
  PROVE  NominalInv'
<1> USE DEF NominalInv
<1>1. CASE ApplyReply \/ ApplyRefused
  <2> DEFINE i == worker.reply.id
             k == worker.key
  <2>1. worker.pc \in {"apply", "refuse"} /\ worker \in WorkerHandles /\ k \in Keys
        /\ worker.reply \in Pdus /\ i \in InvokeIds
    BY <1>1, WorkerType DEF ApplyReply, ApplyRefused, WorkerHandles, Pdus
  <2>2. /\ object_states_mutex = Nobody /\ worker'.pc = "receive"
        /\ tsm' = [tsm EXCEPT ![i] = Free]
        /\ UNCHANGED <<invoke_id_to_key, reader>>
    BY <1>1 DEF ApplyReply, ApplyRefused, IdleWorker, tsm_free_invoke_id
  <2>3. \A r \in Readers : reader[r].pc = "idle"
    BY <2>2, NobodyInside DEF TableInv
  <2>4. /\ object_states'[k].active_invoke_id = NoId
        /\ \A q \in Keys : q # k => object_states'[q] = object_states[q]
    <3>1. object_states[k] \in ObjectState /\ object_states \in [Keys -> ObjectState]
      BY <2>1 DEF TypeOK
    <3>2. Applied(object_states[k], worker.reply).active_invoke_id = NoId
      BY <3>1 DEF Applied, ObjectState
    <3>3. CASE ApplyReply
      BY <2>1, <3>1, <3>2, <3>3 DEF ApplyReply
    <3>4. CASE ApplyRefused
      BY <2>1, <3>1, <3>4 DEF ApplyRefused, ObjectState
    <3> QED BY <1>1, <3>3, <3>4
  <2>5. invoke_id_to_key[i] = NoKey
    BY <2>1 DEF HandlerIds
  <2>6. UsedIdsAreBusy'
    BY <2>1, <2>2, <2>5 DEF UsedIdsAreBusy, TypeOK
  <2>7. NoOrphanRequest'
    BY <2>2, <2>4 DEF NoOrphanRequest, HasActiveRequest
  <2> QED BY <2>2, <2>3, <2>6, <2>7 DEF ReaderIds, SentIdsUnmapped, HandlerIds, RecordingMapped
<1>2. CASE SweepBegin
  <2>1. /\ worker.pc = "receive" /\ worker'.pc = "sweep"
        /\ UNCHANGED <<object_states, invoke_id_to_key, reader, tsm>>
    BY <1>2 DEF SweepBegin, IdleWorker
  <2> QED BY <2>1 DEF UsedIdsAreBusy, ReaderIds, SentIdsUnmapped, HandlerIds, RecordingMapped,
          NoOrphanRequest, HasActiveRequest
<1>3. CASE SweepEnd
  <2>1. /\ object_states_mutex = Nobody /\ worker.pc = "sweep" /\ worker'.pc = "receive"
        /\ invoke_id_to_key' = SweptMap
        /\ tsm' = [i \in InvokeIds |-> IF i \in StaleIds THEN Free ELSE tsm[i]]
        /\ UNCHANGED reader
    BY <1>3 DEF SweepEnd, IdleWorker
  <2>2. \A r \in Readers : reader[r].pc = "idle"
    BY <2>1, NobodyInside DEF TableInv
  <2>3. UsedIdsAreBusy'
    BY <2>1 DEF UsedIdsAreBusy, SweptMap
  <2>4. NoOrphanRequest'
    <3> SUFFICES ASSUME NEW q \in Keys, object_states'[q].active_invoke_id # NoId
                 PROVE  invoke_id_to_key'[object_states'[q].active_invoke_id] = q
      BY DEF NoOrphanRequest, HasActiveRequest
    <3>1. object_states[q] \in ObjectState
      BY DEF TypeOK
    <3>2. object_states'[q] = object_states[q] /\ \A j \in StaleIds : invoke_id_to_key[j] # q
      <4>1. CASE \E j \in StaleIds : invoke_id_to_key[j] = q
        <5>1. object_states'[q] = Swept(q)
          BY <1>3, <4>1 DEF SweepEnd
        <5>2. Swept(q).active_invoke_id = NoId
          BY <3>1 DEF Swept, ObjectState
        <5> QED BY <5>1, <5>2
      <4>2. CASE ~\E j \in StaleIds : invoke_id_to_key[j] = q
        BY <1>3, <4>2 DEF SweepEnd
      <4> QED BY <4>1, <4>2
    <3> DEFINE i == object_states[q].active_invoke_id
    <3>3. i \in InvokeIds /\ i # NoId
      BY <3>1, <3>2 DEF ObjectState
    <3>4. invoke_id_to_key[i] = q
      BY <2>1, <3>2, <3>3 DEF NoOrphanRequest, HasActiveRequest
    <3>5. SweptMap[i] = q
      BY <3>2, <3>3, <3>4 DEF SweptMap
    <3> QED BY <2>1, <3>2, <3>5
  <2> QED BY <2>1, <2>2, <2>3, <2>4 DEF ReaderIds, SentIdsUnmapped, HandlerIds, RecordingMapped
<1> QED BY <1>1, <1>2, <1>3

LEMMA StepNominal ==
  ASSUME EveryReplyDecodes
  PROVE  TypeOK /\ TableInv /\ NominalInv /\ [Next]_vars => NominalInv'
<1> SUFFICES ASSUME TypeOK, TableInv, NominalInv, [Next]_vars PROVE NominalInv'
  OBVIOUS
<1>1. ASSUME NEW r \in Readers, ReaderNext(r) PROVE NominalInv'
  BY <1>1, ReaderNominal
<1>2. CASE WorkerNext
  BY <1>2, HandleNominal, WorkerNominal DEF WorkerNext
<1>3. CASE Tick
  <2>1. \A k \in Keys : object_states'[k].active_invoke_id = object_states[k].active_invoke_id
    BY <1>3 DEF Tick, TypeOK, ObjectState
  <2>2. \A i \in InvokeIds : tsm[i] # Free => tsm'[i] # Free
    <3>1. \A a \in Ages : a # Free
      BY ConstantsAssumption DEF Ages, MaxAge, Free
    <3> QED BY <1>3, <3>1, AgeType DEF Tick, TypeOK
  <2> QED BY <1>3, <2>1, <2>2, NominalFrame DEF Tick
<1>4. CASE Environment /\ ~Tick
  BY <1>4, NominalFrame DEF Environment, Lose, DeviceAnswers, DeviceChanges
<1>5. CASE UNCHANGED vars
  BY <1>5, NominalFrame DEF vars
<1> QED BY <1>1, <1>2, <1>3, <1>4, <1>5 DEF Next

LEMMA NominalInvHolds == ASSUME EveryReplyDecodes PROVE Spec => []NominalInv
  BY InitType, StepType, InitTable, StepTable, InitNominal, StepNominal, PTL DEF Spec

(* If every reply decodes, no id that is mapped or whose reply is being    *)
(* applied is ever given back to the stack, for any number of threads,     *)
(* keys and ids.                                                           *)
THEOREM UsedIdsStayBusy == ASSUME EveryReplyDecodes PROVE Spec => []UsedIdsAreBusy
  BY NominalInvHolds, PTL DEF NominalInv

(* If every reply decodes, a key that waits has a mapping for the reply or *)
(* the sweep to find, or a handler that already has its reply.             *)
THEOREM NoOrphans == ASSUME EveryReplyDecodes PROVE Spec => []NoOrphanRequest
  BY NominalInvHolds, PTL DEF NominalInv

-----------------------------------------------------------------------------
(* A reader moves only itself, and not into "map" but from "send".         *)
LEMMA ReaderMoves ==
  ASSUME TypeOK, NEW r \in Readers, ReaderNext(r)
  PROVE  /\ \A s \in Readers : s # r => reader'[s] = reader[s]
         /\ reader'[r].pc \in {"map", "record"} => reader[r].pc \in {"send", "map"}
         /\ reader'[r].pc = "record" => reader[r].pc = "map"
         /\ UNCHANGED worker
<1> DEFINE Moved == /\ reader'[r].pc \in {"idle", "send"} /\ UNCHANGED worker
                    /\ \A s \in Readers : s # r => reader'[s] = reader[s]
<1>0. DOMAIN reader = Readers
  BY DEF TypeOK
<1>1. ASSUME NEW k \in Keys, ReadFromCache(r, k) \/ ReadStillPending(r, k) \/ ReadStart(r, k)
      PROVE  Moved
  <2>1. CASE ReadFromCache(r, k)
    BY <1>0, <2>1 DEF ReadFromCache, Return, IdleReader
  <2>2. CASE ReadStillPending(r, k)
    BY <1>0, <2>2 DEF ReadStillPending, Return, IdleReader
  <2>3. CASE ReadStart(r, k)
    BY <1>0, <2>3 DEF ReadStart, IdleReader
  <2> QED BY <1>1, <2>1, <2>2, <2>3
<1>2. CASE ReaderInside(r)
  BY <1>2, ReaderType
  DEF ReaderInside, SendRequest, SendFails, MapInvokeId, RecordRequest, Return, TypeOK,
      IdleReader, ReaderSends, ReaderRequests
<1> QED BY <1>1, <1>2 DEF ReaderNext

-----------------------------------------------------------------------------
(***************************************************************************)
(* The refinement.  A key owns an id from the moment its request is sent,  *)
(* and the key the id was still mapped to (a reply that does not decode    *)
(* frees an id and leaves its mapping) owns it no longer.  A PDU under an  *)
(* owned id is about its owner; and whatever lower bound holds of the      *)
(* answers a key may still be given goes on to hold: device values only    *)
(* grow, and a fresh id has no PDU of an earlier request.                  *)
(***************************************************************************)
SentUnder(r, i) == reader[r].pc = "map" /\ reader[r].id = i

Owns(k, i) ==
  \/ \E r \in Readers : SentUnder(r, i) /\ reader[r].key = k
  \/ invoke_id_to_key[i] = k /\ \A r \in Readers : ~SentUnder(r, i)

Handling == worker.pc \in {"apply", "refuse"}

CurrentInv ==
  /\ \A m \in net : m.kind = "ack" => m.version <= device[m.key]
  /\ \A m \in net : \A k \in Keys : Owns(k, m.id) => m.key = k
  /\ Handling => /\ worker.reply.key = worker.key
                 /\ worker.reply.kind = "ack" => worker.reply.version <= device[worker.key]

(* Every answer k may still be given is at least the reading `floor`.      *)
FloorInv(k, floor) ==
  /\ floor <= device[k] + 1
  /\ \A m \in net : Owns(k, m.id) /\ m.kind = "ack" => floor <= m.version + 1
  /\ Handling /\ worker.key = k /\ worker.reply.kind = "ack" => floor <= worker.reply.version + 1

HeldInv == \A k \in Keys : FloorInv(k, HeldReading(k))

LEMMA NetType ==
  ASSUME TypeOK
  PROVE  /\ \A m \in net : m.id \in InvokeIds /\ m.key \in Keys /\ m.version \in Nat
         /\ \A k \in Keys : device[k] \in Nat
         /\ Handling => worker.key \in Keys /\ worker.reply.version \in Nat
<1>1. Versions \subseteq Nat
  BY ConstantsAssumption DEF Versions
<1> QED
  BY <1>1, WorkerType DEF TypeOK, Pdus, Handling, IdleWorker, WorkerSweeps, WorkerHandles

LEMMA HeldType == ASSUME TypeOK, NEW k \in Keys PROVE HeldReading(k) \in Nat
<1>1. object_states[k].cached_value \in Values /\ Versions \subseteq Nat
  BY ConstantsAssumption DEF TypeOK, ObjectState, Versions
<1>2. object_states[k].cached_value.version \in Nat
  BY <1>1 DEF Values
<1> QED BY <1>2 DEF HeldReading

(* A PDU under an owned id was there, under that owner; or is the owner's  *)
(* request; or is the answer to a PDU that was there.                      *)
OldPdu(k, m)   == m \in net /\ Owns(k, m.id)
AskingPdu(k, m) == m.kind = Requested /\ m.key = k
AnswerPdu(k, m) ==
  /\ \E n \in net : Owns(k, n.id) /\ m.id = n.id /\ m.key = n.key
  /\ m.kind = "ack" => m.version = device[m.key]

LEMMA OwnerStays ==
  ASSUME TypeOK, Next, NEW k \in Keys, NEW i \in InvokeIds, Owns(k, i)',
         \A r \in Readers : ~SendRequest(r)
  PROVE  Owns(k, i)
<1>k. k # NoKey
  BY ConstantsAssumption
<1>1. ASSUME NEW r \in Readers, ReaderNext(r) PROVE Owns(k, i)
  <2>1. CASE MapInvokeId(r)
    <3>1. reader[r].pc = "map" /\ reader[r].id \in InvokeIds
      BY <2>1, ReaderType DEF MapInvokeId, ReaderRequests
    <3>2. invoke_id_to_key'[i] = IF i = reader[r].id THEN reader[r].key ELSE invoke_id_to_key[i]
      BY <2>1, <3>1 DEF MapInvokeId, TypeOK
    <3>3. \A s \in Readers : reader'[s].pc = "map" => reader'[s] = reader[s]
      BY <2>1, <3>1, ReaderType DEF MapInvokeId, TypeOK, ReaderRequests
    <3>4. /\ \A s \in Readers : SentUnder(s, i)' => SentUnder(s, i) /\ reader'[s].key = reader[s].key
          /\ \A s \in Readers : s # r /\ SentUnder(s, i) => SentUnder(s, i)'
      BY <2>1, <3>3 DEF SentUnder, MapInvokeId
    <3>5. CASE \E s \in Readers : SentUnder(s, i)' /\ reader'[s].key = k
      BY <3>4, <3>5 DEF Owns
    <3>6. CASE invoke_id_to_key'[i] = k /\ \A s \in Readers : ~SentUnder(s, i)'
      <4>1. CASE i = reader[r].id
        BY <3>1, <3>2, <3>6, <4>1 DEF Owns, SentUnder
      <4>2. CASE i # reader[r].id
        BY <3>2, <3>4, <3>6, <4>2 DEF Owns, SentUnder
      <4> QED BY <4>1, <4>2
    <3> QED BY <3>5, <3>6 DEF Owns
  <2>2. CASE ~MapInvokeId(r)
    <3>1. UNCHANGED invoke_id_to_key
      <4>1. ASSUME NEW q \in Keys, ReadFromCache(r, q) \/ ReadStillPending(r, q) \/ ReadStart(r, q)
            PROVE  UNCHANGED invoke_id_to_key
        BY <4>1 DEF ReadFromCache, ReadStillPending, ReadStart
      <4>2. CASE SendFails(r) \/ RecordRequest(r)
        BY <4>2 DEF SendFails, RecordRequest
      <4> QED BY <1>1, <2>2, <4>1, <4>2 DEF ReaderNext, ReaderInside
    <3>2. reader[r].pc # "map" /\ reader'[r].pc # "map"
      <4>1. ASSUME NEW q \in Keys, ReadFromCache(r, q) \/ ReadStillPending(r, q)
            PROVE  reader[r].pc = "idle" /\ reader'[r].pc = "idle"
        BY <4>1 DEF ReadFromCache, ReadStillPending, Enters, Return, TypeOK, IdleReader
      <4>2. ASSUME NEW q \in Keys, ReadStart(r, q)
            PROVE  reader[r].pc = "idle" /\ reader'[r].pc = "send"
        BY <4>2 DEF ReadStart, Enters, TypeOK, IdleReader
      <4>3. CASE SendFails(r) \/ RecordRequest(r)
        BY <4>3 DEF SendFails, RecordRequest, Return, TypeOK, IdleReader
      <4> QED BY <1>1, <2>2, <4>1, <4>2, <4>3 DEF ReaderNext, ReaderInside
    <3>3. \A s \in Readers : s # r => reader'[s] = reader[s]
      BY <1>1, ReaderMoves
    <3>4. \A s \in Readers : (SentUnder(s, i)' <=> SentUnder(s, i))
                             /\ (SentUnder(s, i) => reader'[s].key = reader[s].key)
      BY <3>2, <3>3 DEF SentUnder
    <3> QED BY <3>1, <3>4 DEF Owns
  <2> QED BY <2>1, <2>2
<1>2. CASE WorkerNext
  <2>1. UNCHANGED reader
    BY <1>2 DEF WorkerNext, Handle, DropMalformed, DropUnmatched, DropUndecodable, TakeMapping,
       TakeRefused, ApplyReply, ApplyRefused, SweepBegin, SweepEnd
  <2>2. invoke_id_to_key'[i] = k => invoke_id_to_key[i] = k
    <3>1. ASSUME NEW m \in net, DropUndecodable(m) \/ TakeMapping(m) \/ TakeRefused(m)
          PROVE  invoke_id_to_key'[i] = k => invoke_id_to_key[i] = k
      BY <1>k, <3>1 DEF DropUndecodable, TakeMapping, TakeRefused, EraseMapping, TypeOK
    <3>2. CASE SweepEnd
      BY <1>k, <3>2 DEF SweepEnd, SweptMap
    <3>3. ASSUME NEW m \in net, DropMalformed(m) \/ DropUnmatched(m)
          PROVE  UNCHANGED invoke_id_to_key
      BY <3>3 DEF DropMalformed, DropUnmatched
    <3>4. CASE ApplyReply \/ ApplyRefused \/ SweepBegin
      BY <3>4 DEF ApplyReply, ApplyRefused, SweepBegin
    <3> QED BY <1>2, <3>1, <3>2, <3>3, <3>4 DEF WorkerNext, Handle
  <2> QED BY <2>1, <2>2 DEF Owns, SentUnder
<1>3. CASE Environment
  BY <1>3 DEF Environment, Lose, DeviceAnswers, DeviceChanges, Tick, Owns, SentUnder
<1> QED BY <1>1, <1>2, <1>3 DEF Next

(* A request is sent only while the tables agree.                          *)
SendsFresh == (\E r \in Readers : SendRequest(r)) => TableInv

LEMMA PduStep ==
  ASSUME TypeOK, SendsFresh, Next, NEW k \in Keys, NEW m \in net', Owns(k, m.id)'
  PROVE  OldPdu(k, m) \/ AskingPdu(k, m) \/ AnswerPdu(k, m)
<1>1. ASSUME NEW r \in Readers, SendRequest(r)
      PROVE  OldPdu(k, m) \/ AskingPdu(k, m)
  <2>1. PICK i \in Available :
          /\ net' = Sent(Request(i, reader[r].key))
          /\ reader' = [reader EXCEPT ![r].pc = "map", ![r].id = i]
    BY <1>1 DEF SendRequest
  <2>2. /\ i \in InvokeIds /\ tsm[i] = Free /\ \A n \in net : n.id # i
        /\ reader[r] \in ReaderSends /\ reader[r].pc = "send" /\ reader[r].key \in Keys
    BY <1>1, <2>1, ReaderType, NominalAssumption DEF Available, SendRequest, ReaderSends
  <2>3. UNCHANGED invoke_id_to_key /\ \A s \in Readers : s # r => reader[s].pc = "idle"
    BY <1>1, <2>2, OneReaderInside DEF SendRequest, TableInv, SendsFresh
  <2>4. /\ reader'[r].pc = "map" /\ reader'[r].id = i /\ reader'[r].key = reader[r].key
        /\ \A s \in Readers : s # r => reader'[s] = reader[s]
    BY <2>1, <2>2 DEF TypeOK, ReaderSends
  <2>5. CASE m \in net
    <3>1. \A s \in Readers : ~SentUnder(s, m.id) /\ ~SentUnder(s, m.id)'
      BY <2>2, <2>3, <2>4, <2>5 DEF SentUnder
    <3>2. invoke_id_to_key[m.id] = k
      BY <2>3, <3>1 DEF Owns
    <3> QED BY <2>5, <3>1, <3>2 DEF Owns, OldPdu
  <2>6. CASE m \notin net
    <3>1. m = Request(i, reader[r].key)
      BY <2>1, <2>6 DEF Sent
    <3>2. m.id = i /\ m.kind = Requested /\ m.key = reader[r].key
      BY <3>1 DEF Request
    <3>3. \A s \in Readers : SentUnder(s, i)' <=> s = r
      BY <2>3, <2>4 DEF SentUnder
    <3>4. k = reader[r].key
      BY <2>4, <3>2, <3>3 DEF Owns
    <3> QED BY <3>2, <3>4 DEF AskingPdu
  <2> QED BY <2>5, <2>6
<1>2. ASSUME \A r \in Readers : ~SendRequest(r)
      PROVE  OldPdu(k, m) \/ AnswerPdu(k, m)
  <2>0. m.id \in InvokeIds
    BY StepType DEF TypeOK, Pdus
  <2>1. Owns(k, m.id)
    BY <1>2, <2>0, OwnerStays
  <2>2. CASE m \in net
    BY <2>1, <2>2 DEF OldPdu
  <2>3. CASE m \notin net
    <3>1. PICK n \in net, kind \in ReplyKinds : DeviceAnswers(n, kind)
      BY <1>2, <2>3
      DEF Next, ReaderNext, ReaderInside, ReadFromCache, ReadStillPending, ReadStart, SendFails,
          MapInvokeId, RecordRequest, WorkerNext, Handle, DropMalformed, DropUnmatched,
          DropUndecodable, TakeMapping, TakeRefused, ApplyReply, ApplyRefused, SweepBegin,
          SweepEnd, Receive, Environment, Lose, DeviceChanges, Tick
    <3>2. m = Reply(n, kind)
      BY <2>3, <3>1 DEF DeviceAnswers, Sent
    <3>3. n \in Pdus
      BY DEF TypeOK
    <3>4. /\ m.id = n.id /\ m.key = n.key
          /\ m.kind = "ack" => m.version = device[n.key]
      BY <3>2, <3>3 DEF Reply, Pdus
    <3> QED BY <2>1, <3>4 DEF AnswerPdu
  <2> QED BY <2>2, <2>3
<1> QED BY <1>1, <1>2

(* What a handler is given is a PDU under the key's id.                    *)
LEMMA HandlerStep ==
  ASSUME TypeOK, Next, Handling'
  PROVE  \/ worker' = worker /\ Handling
         \/ /\ worker'.reply \in net /\ worker'.key \in Keys
            /\ Owns(worker'.key, worker'.reply.id)
<1>1. ASSUME NEW m \in net, TakeMapping(m) \/ TakeRefused(m)
      PROVE  worker'.reply \in net /\ worker'.key \in Keys /\ Owns(worker'.key, worker'.reply.id)
  <2>1. worker'.key = invoke_id_to_key[m.id] /\ worker'.reply = m /\ Mapped(m)
    BY <1>1 DEF TakeMapping, TakeRefused, WorkerTakes, IdleWorker
  <2>2. invoke_id_to_key[m.id] \in Keys
    BY <2>1 DEF Mapped, TypeOK, Pdus
  <2>3. \A r \in Readers : ~SentUnder(r, m.id)
    BY <1>1, NominalAssumption DEF TakeMapping, TakeRefused, Receive, SentUnder
  <2> QED BY <2>1, <2>2, <2>3 DEF Owns
<1>2. ASSUME NEW m \in net, DropMalformed(m) \/ DropUnmatched(m) \/ DropUndecodable(m)
      PROVE  worker' = worker
  BY <1>2 DEF DropMalformed, DropUnmatched, DropUndecodable
<1>3. CASE ApplyReply \/ ApplyRefused \/ SweepBegin \/ SweepEnd
  <2>1. CASE ApplyReply \/ ApplyRefused \/ SweepEnd
    <3>1. worker' = IdleWorker
      BY <2>1 DEF ApplyReply, ApplyRefused, SweepEnd
    <3> QED BY <3>1 DEF Handling, IdleWorker
  <2>2. CASE SweepBegin
    <3>1. worker'.pc = "sweep"
      BY <2>2 DEF SweepBegin, IdleWorker
    <3> QED BY <3>1 DEF Handling
  <2> QED BY <1>3, <2>1, <2>2
<1>4. ASSUME NEW r \in Readers, ReaderNext(r) PROVE worker' = worker
  BY <1>4, ReaderMoves
<1>5. ASSUME Environment PROVE worker' = worker
  BY <1>5 DEF Environment, Lose, DeviceAnswers, DeviceChanges, Tick
<1>6. worker' = worker => Handling
  BY DEF Handling
<1> QED BY <1>1, <1>2, <1>3, <1>4, <1>5, <1>6 DEF Next, WorkerNext, Handle

LEMMA DeviceStays ==
  ASSUME Next, \A k \in Keys : ~DeviceChanges(k)
  PROVE  UNCHANGED device
<1>1. ASSUME NEW r \in Readers, ReaderNext(r) PROVE UNCHANGED device
  <2>1. ASSUME NEW k \in Keys, ReadFromCache(r, k) \/ ReadStillPending(r, k) \/ ReadStart(r, k)
        PROVE  UNCHANGED device
    BY <2>1 DEF ReadFromCache, ReadStillPending, ReadStart
  <2>2. CASE ReaderInside(r)
    BY <2>2 DEF ReaderInside, SendRequest, SendFails, MapInvokeId, RecordRequest
  <2> QED BY <1>1, <2>1, <2>2 DEF ReaderNext
<1>2. ASSUME NEW m \in net, Handle(m) PROVE UNCHANGED device
  BY <1>2 DEF Handle, DropMalformed, DropUnmatched, DropUndecodable, TakeMapping, TakeRefused
<1>3. CASE ApplyReply \/ ApplyRefused \/ SweepBegin \/ SweepEnd
  BY <1>3 DEF ApplyReply, ApplyRefused, SweepBegin, SweepEnd
<1>4. CASE Environment
  BY <1>4 DEF Environment, Lose, DeviceAnswers, Tick
<1> QED BY <1>1, <1>2, <1>3, <1>4 DEF Next, WorkerNext

LEMMA DeviceGrows ==
  ASSUME TypeOK, Next, NEW k \in Keys
  PROVE  device[k] <= device'[k]
<1>0. device[k] \in Nat
  BY NetType
<1>1. ASSUME NEW q \in Keys, DeviceChanges(q) PROVE device[k] <= device'[k]
  BY <1>0, <1>1 DEF DeviceChanges, TypeOK
<1>2. CASE \A q \in Keys : ~DeviceChanges(q)
  BY <1>0, <1>2, DeviceStays
<1> QED BY <1>1, <1>2

LEMMA CurrentStep ==
  ASSUME TypeOK, SendsFresh, CurrentInv, Next
  PROVE  CurrentInv'
<1>0. TypeOK'
  BY StepType
<1>1. ASSUME NEW m \in net', m.kind = "ack" PROVE m.version <= device'[m.key]
  <2>0. m.key \in Keys /\ m.version \in Nat /\ device'[m.key] \in Nat /\ device[m.key] \in Nat
    BY <1>0, NetType DEF TypeOK, Pdus, Versions
  <2>1. m.version <= device[m.key]
    <3>1. CASE m \in net
      BY <1>1, <3>1 DEF CurrentInv
    <3>2. CASE m \notin net
      <4>1. \/ \E r \in Readers : SendRequest(r)
            \/ \E n \in net, kind \in ReplyKinds : DeviceAnswers(n, kind)
        BY <3>2
        DEF Next, ReaderNext, ReaderInside, ReadFromCache, ReadStillPending, ReadStart, SendFails,
            MapInvokeId, RecordRequest, WorkerNext, Handle, DropMalformed, DropUnmatched,
            DropUndecodable, TakeMapping, TakeRefused, ApplyReply, ApplyRefused, SweepBegin,
            SweepEnd, Receive, Environment, Lose, DeviceChanges, Tick
      <4>2. ASSUME NEW r \in Readers, SendRequest(r) PROVE FALSE
        BY <1>1, <3>2, <4>2 DEF SendRequest, Sent, Request, Requested
      <4>3. ASSUME NEW n \in net, NEW kind \in ReplyKinds, DeviceAnswers(n, kind)
            PROVE  m.version <= device[m.key]
        <5>1. m = Reply(n, kind) /\ n \in Pdus
          BY <3>2, <4>3 DEF DeviceAnswers, Sent, TypeOK
        <5>2. m.version = device[m.key]
          BY <1>1, <5>1 DEF Reply, Pdus
        <5> QED BY <2>0, <5>2
      <4> QED BY <4>1, <4>2, <4>3
    <3> QED BY <3>1, <3>2
  <2> QED BY <2>0, <2>1, DeviceGrows
<1>2. ASSUME NEW m \in net', NEW k \in Keys, Owns(k, m.id)' PROVE m.key = k
  BY <1>2, PduStep DEF CurrentInv, OldPdu, AskingPdu, AnswerPdu
<1>3. ASSUME Handling'
      PROVE  /\ worker'.reply.key = worker'.key
             /\ worker'.reply.kind = "ack" => worker'.reply.version <= device'[worker'.key]
  <2>1. /\ worker'.reply.key = worker'.key
        /\ worker'.reply.kind = "ack" => worker'.reply.version <= device[worker'.key]
    BY <1>3, HandlerStep DEF CurrentInv
  <2>2. worker'.key \in Keys /\ worker'.reply.version \in Nat
    <3>1. worker' \in WorkerStates /\ Versions \subseteq Nat
      BY <1>0, ConstantsAssumption DEF TypeOK, Versions
    <3>2. worker' \in WorkerHandles
      BY <1>3, <3>1 DEF Handling, WorkerStates, IdleWorker, WorkerSweeps
    <3> QED BY <3>1, <3>2 DEF WorkerHandles, Pdus
  <2>3. device[worker'.key] <= device'[worker'.key] /\ device[worker'.key] \in Nat
        /\ device'[worker'.key] \in Nat
    BY <1>0, <2>2, DeviceGrows, NetType DEF TypeOK, Versions
  <2> QED BY <2>1, <2>2, <2>3
<1> QED BY <1>1, <1>2, <1>3 DEF CurrentInv

LEMMA FloorStep ==
  ASSUME TypeOK, SendsFresh, CurrentInv, Next,
         NEW k \in Keys, NEW floor \in Nat, FloorInv(k, floor)
  PROVE  FloorInv(k, floor)'
<1>0. TypeOK' /\ device[k] \in Nat /\ device'[k] \in Nat /\ device[k] <= device'[k]
  BY StepType, NetType, DeviceGrows DEF TypeOK, Versions
<1>1. floor <= device'[k] + 1
  BY <1>0 DEF FloorInv
<1>2. ASSUME NEW m \in net', Owns(k, m.id)', m.kind = "ack" PROVE floor <= m.version + 1
  <2>1. CASE OldPdu(k, m)
    BY <1>2, <2>1 DEF FloorInv, OldPdu
  <2>2. CASE AskingPdu(k, m)
    BY <1>2, <2>2 DEF AskingPdu, Requested
  <2>3. CASE AnswerPdu(k, m)
    BY <1>2, <2>3 DEF AnswerPdu, CurrentInv, FloorInv
  <2> QED BY <1>2, <2>1, <2>2, <2>3, PduStep
<1>3. ASSUME Handling', worker'.key = k, worker'.reply.kind = "ack"
      PROVE  floor <= worker'.reply.version + 1
  BY <1>3, HandlerStep DEF FloorInv
<1> QED BY <1>1, <1>2, <1>3 DEF FloorInv

(* The steps that touch the mark or the value of an entry, and no other.   *)
Kept(k) ==
  /\ object_states'[k].active_invoke_id = object_states[k].active_invoke_id
  /\ object_states'[k].cached_value = object_states[k].cached_value
  /\ object_states'[k].lost = object_states[k].lost

LEMMA EntryStep ==
  ASSUME TypeOK, Next
  PROVE  \/ \A k \in Keys : Kept(k)
         \/ \E r \in Readers : RecordRequest(r)
         \/ ApplyReply \/ ApplyRefused \/ SweepEnd
<1>1. UNCHANGED object_states => \A k \in Keys : Kept(k)
  BY DEF Kept
<1>2. ASSUME NEW r \in Readers, ReaderNext(r), ~RecordRequest(r) PROVE UNCHANGED object_states
  <2>1. ASSUME NEW k \in Keys, ReadFromCache(r, k) \/ ReadStillPending(r, k) \/ ReadStart(r, k)
        PROVE  UNCHANGED object_states
    BY <2>1 DEF ReadFromCache, ReadStillPending, ReadStart
  <2>2. CASE SendRequest(r) \/ SendFails(r) \/ MapInvokeId(r)
    BY <2>2 DEF SendRequest, SendFails, MapInvokeId
  <2> QED BY <1>2, <2>1, <2>2 DEF ReaderNext, ReaderInside
<1>3. ASSUME NEW m \in net, Handle(m) PROVE UNCHANGED object_states
  BY <1>3 DEF Handle, DropMalformed, DropUnmatched, DropUndecodable, TakeMapping, TakeRefused
<1>4. CASE SweepBegin \/ (Environment /\ ~Tick)
  BY <1>1, <1>4 DEF SweepBegin, Environment, Lose, DeviceAnswers, DeviceChanges
<1>5. CASE Tick
  BY <1>5 DEF Tick, TypeOK, ObjectState, Kept
<1> QED BY <1>1, <1>2, <1>3, <1>4, <1>5 DEF Next, WorkerNext

(* What the handlers, a recording reader and the sweep do to an entry.     *)
LEMMA EntryOfRecord ==
  ASSUME TypeOK, TableInv, NEW r \in Readers, RecordRequest(r)
  PROVE  /\ reader[r].key \in Keys /\ ~HasActiveRequest(reader[r].key)
         /\ \A k \in Keys :
              /\ object_states'[k].cached_value = object_states[k].cached_value
              /\ object_states'[k].lost = object_states[k].lost
              /\ HasActiveRequest(k)' <=> (HasActiveRequest(k) \/ k = reader[r].key)
<1>1. reader[r].key \in Keys /\ reader[r].id \in InvokeIds /\ reader[r].pc = "record"
  BY ReaderType DEF RecordRequest, ReaderRequests
<1>2. reader[r].id # NoId /\ ~HasActiveRequest(reader[r].key)
  BY <1>1, ConstantsAssumption DEF TableInv, WindowCoherent
<1>3. \A k \in Keys : object_states[k] \in ObjectState
  BY DEF TypeOK
<1> SUFFICES ASSUME NEW k \in Keys
             PROVE  /\ object_states'[k].cached_value = object_states[k].cached_value
                    /\ object_states'[k].lost = object_states[k].lost
                    /\ HasActiveRequest(k)' <=> (HasActiveRequest(k) \/ k = reader[r].key)
  BY <1>1, <1>2
<1>4. CASE k = reader[r].key
  BY <1>1, <1>2, <1>3, <1>4 DEF RecordRequest, TypeOK, ObjectState, HasActiveRequest
<1>5. CASE k # reader[r].key
  BY <1>1, <1>2, <1>3, <1>5 DEF RecordRequest, TypeOK, HasActiveRequest
<1> QED BY <1>4, <1>5

Marked(k) ==
  /\ ~(ApplyReply /\ k = worker.key /\ worker.reply.kind \in {"ack", "unallocated"})
       => object_states'[k].lost = object_states[k].lost
  /\ ApplyReply /\ k = worker.key /\ worker.reply.kind = "ack" => object_states'[k].lost = FALSE

LEMMA EntryOfHandler ==
  ASSUME TypeOK, TableInv, ApplyReply \/ ApplyRefused
  PROVE  /\ worker \in WorkerHandles /\ worker.key \in Keys /\ Handling
         /\ HasActiveRequest(worker.key)
         /\ \A k \in Keys :
              /\ HasActiveRequest(k)' <=> (HasActiveRequest(k) /\ k # worker.key)
              /\ object_states'[k].cached_value =
                   IF ApplyReply /\ k = worker.key /\ worker.reply.kind = "ack"
                   THEN [key |-> worker.reply.key, version |-> worker.reply.version]
                   ELSE object_states[k].cached_value
              /\ Marked(k)
<1>1. worker \in WorkerHandles /\ worker.key \in Keys /\ worker.reply.id \in InvokeIds /\ Handling
  BY WorkerType DEF ApplyReply, ApplyRefused, WorkerHandles, Pdus, Handling
<1>2. HasActiveRequest(worker.key)
  <2>1. Awaits(worker.key, worker.reply.id) /\ object_states_mutex = Nobody
    BY <1>1 DEF TableInv, HandlerCoherent, Handling, ApplyReply, ApplyRefused
  <2>2. object_states[worker.key].active_invoke_id = worker.reply.id
    BY <2>1, NobodyInside DEF TableInv
  <2> QED BY <1>1, <2>2, ConstantsAssumption DEF HasActiveRequest
<1> SUFFICES
      ASSUME NEW k \in Keys
      PROVE  /\ HasActiveRequest(k)' <=> (HasActiveRequest(k) /\ k # worker.key)
             /\ object_states'[k].cached_value =
                  IF ApplyReply /\ k = worker.key /\ worker.reply.kind = "ack"
                  THEN [key |-> worker.reply.key, version |-> worker.reply.version]
                  ELSE object_states[k].cached_value
             /\ Marked(k)
  BY <1>1, <1>2
<1>3. object_states[k] \in ObjectState
  BY DEF TypeOK
<1>4. CASE ApplyReply
  <2>1. object_states'[k] = IF k = worker.key THEN Applied(object_states[k], worker.reply)
                            ELSE object_states[k]
    BY <1>1, <1>4 DEF ApplyReply, TypeOK
  <2>2. /\ Applied(object_states[k], worker.reply).active_invoke_id = NoId
        /\ Applied(object_states[k], worker.reply).cached_value =
             IF worker.reply.kind = "ack"
             THEN [key |-> worker.reply.key, version |-> worker.reply.version]
             ELSE object_states[k].cached_value
        /\ worker.reply.kind = "ack" => Applied(object_states[k], worker.reply).lost = FALSE
        /\ worker.reply.kind \notin {"ack", "unallocated"} =>
             Applied(object_states[k], worker.reply).lost = object_states[k].lost
    BY <1>3 DEF Applied, ObjectState
  <2>3. Marked(k)
    BY <1>4, <2>1, <2>2 DEF Marked
  <2> QED BY <1>1, <1>2, <1>4, <2>1, <2>2, <2>3 DEF HasActiveRequest
<1>5. CASE ApplyRefused
  <2>1. ~ApplyReply
    BY <1>5 DEF ApplyReply, ApplyRefused
  <2>2. CASE k = worker.key
    BY <1>1, <1>2, <1>3, <1>5, <2>1, <2>2
    DEF ApplyRefused, TypeOK, ObjectState, HasActiveRequest, Marked
  <2>3. CASE k # worker.key
    BY <1>1, <1>2, <1>3, <1>5, <2>1, <2>3 DEF ApplyRefused, TypeOK, HasActiveRequest, Marked
  <2> QED BY <1>1, <1>2, <2>2, <2>3
<1> QED BY <1>4, <1>5

LEMMA EntryOfSweep ==
  ASSUME TypeOK, SweepEnd, NEW k \in Keys
  PROVE  LET staleKeys == {invoke_id_to_key[i] : i \in StaleIds} IN
         /\ k \in staleKeys => HasActiveRequest(k)
         /\ HasActiveRequest(k)' <=> (HasActiveRequest(k) /\ k \notin staleKeys)
         /\ object_states'[k].cached_value = object_states[k].cached_value
         /\ object_states'[k].lost = object_states[k].lost
<1> DEFINE staleKeys == {invoke_id_to_key[i] : i \in StaleIds}
<1>1. object_states[k] \in ObjectState
  BY DEF TypeOK
<1>2. k \in staleKeys => HasActiveRequest(k)
  BY ConstantsAssumption DEF StaleIds, HasActiveRequest
<1>3. object_states'[k] = IF k \in staleKeys THEN Swept(k) ELSE object_states[k]
  BY DEF SweepEnd
<1>4. /\ Swept(k).active_invoke_id = NoId /\ Swept(k).lost = object_states[k].lost
      /\ Swept(k).cached_value = object_states[k].cached_value
  BY <1>1 DEF Swept, ObjectState
<1> QED BY <1>2, <1>3, <1>4 DEF HasActiveRequest

(* The reading a key holds bounds every answer it may still be given.      *)
LEMMA HeldStep ==
  ASSUME TypeOK, TableInv, CurrentInv, HeldInv, Next
  PROVE  HeldInv'
<1> SUFFICES ASSUME NEW k \in Keys PROVE FloorInv(k, HeldReading(k))'
  BY DEF HeldInv
<1>1. CASE ApplyReply /\ worker.key = k /\ worker.reply.kind = "ack"
  <2>1. Handling /\ k # NoKey /\ worker.reply.key = k /\ worker.reply.version <= device[k]
    BY <1>1, EntryOfHandler, ConstantsAssumption DEF CurrentInv
  <2>2. worker.reply.version \in Nat /\ device[k] \in Nat
    BY <2>1, NetType
  <2>3. UNCHANGED <<device, invoke_id_to_key, reader, net>> /\ ~Handling'
    BY <1>1 DEF ApplyReply, Handling, IdleWorker
  <2>4. \A i \in InvokeIds : ~Owns(k, i)'
    <3>1. \A r \in Readers : reader[r].pc = "idle"
      BY <1>1, NobodyInside DEF ApplyReply, TableInv
    <3>2. \A i \in InvokeIds : invoke_id_to_key[i] # k
      BY <1>1, <2>1 DEF TableInv, HandlerCoherent, Handling
    <3> QED BY <2>3, <3>1, <3>2 DEF Owns, SentUnder
  <2>5. \A m \in net' : m.id \in InvokeIds
    BY <2>3, NetType
  <2>6. HeldReading(k)' = worker.reply.version + 1
    BY <1>1, <2>1, EntryOfHandler DEF HeldReading
  <2> QED BY <2>1, <2>2, <2>3, <2>4, <2>5, <2>6 DEF FloorInv
<1>2. CASE ~(ApplyReply /\ worker.key = k /\ worker.reply.kind = "ack")
  <2>1. object_states'[k].cached_value = object_states[k].cached_value
    BY <1>2, EntryStep, EntryOfRecord, EntryOfHandler, EntryOfSweep DEF Kept
  <2>2. HeldReading(k)' = HeldReading(k)
    BY <2>1 DEF HeldReading
  <2>3. PICK floor \in Nat : floor = HeldReading(k)
    BY HeldType
  <2>4. FloorInv(k, floor)
    BY <2>3 DEF HeldInv
  <2>5. FloorInv(k, floor)'
    BY <2>4, FloorStep DEF SendsFresh
  <2>6. HeldReading(k)' = floor
    BY <2>2, <2>3
  <2> QED BY <2>5, <2>6 DEF FloorInv
<1> QED BY <1>1, <1>2

RefineInv == CurrentInv /\ HeldInv

LEMMA InitRefine == Init => RefineInv /\ Abstract!Init
<1> SUFFICES ASSUME Init PROVE RefineInv /\ Abstract!Init
  OBVIOUS
<1>1. \A k \in Keys : HeldReading(k) = 0 /\ ~HasActiveRequest(k) /\ ~object_states[k].lost
  BY ConstantsAssumption DEF Init, HeldReading, HasActiveRequest, NewObjectState, NoValue
<1>2. net = {} /\ ~Handling /\ \A k \in Keys : device[k] = 0
  BY DEF Init, Handling, IdleWorker
<1>3. RefineInv
  BY <1>1, <1>2 DEF RefineInv, CurrentInv, HeldInv, FloorInv
<1>4. Abstract!Init
  BY <1>1 DEF Init, Abstract!Init
<1> QED BY <1>3, <1>4

LEMMA StepRefine == TypeOK /\ TableInv /\ RefineInv /\ [Next]_vars => RefineInv'
<1>1. TypeOK /\ TableInv /\ RefineInv /\ Next => RefineInv'
  BY CurrentStep, HeldStep DEF RefineInv, SendsFresh
<1>2. RefineInv /\ UNCHANGED vars => RefineInv'
  BY DEF vars, RefineInv, CurrentInv, HeldInv, FloorInv, HeldReading, Owns, SentUnder, Handling
<1> QED BY <1>1, <1>2

(* A request recorded is a question asked; an ack applied is an answer;    *)
(* every other end of a request is giving up; the rest is stuttering.      *)
LEMMA RefineStep ==
  ASSUME TypeOK, TableInv, RefineInv, [Next]_vars
  PROVE  Abstract!Next \/ UNCHANGED Abstract!absVars
<1> DEFINE open == {k \in Keys : HasActiveRequest(k)}
           held == [k \in Keys |-> HeldReading(k)]
           lost == {k \in Keys : object_states[k].lost}
<1>1. ASSUME NEW r \in Readers, RecordRequest(r) PROVE Abstract!Next
  <2>1. \A k \in Keys : HeldReading(k)' = HeldReading(k)
    BY <1>1, EntryOfRecord DEF HeldReading
  <2>2. reader[r].key \in Keys /\ reader[r].key \notin open /\ open' = open \cup {reader[r].key}
    BY <1>1, EntryOfRecord
  <2>3. held' = held /\ lost' = lost /\ UNCHANGED device
    <3>1. \A k \in Keys : object_states'[k].lost = object_states[k].lost
      BY <1>1, EntryOfRecord
    <3>2. held' = held /\ lost' = lost
      BY <2>1, <3>1
    <3> QED BY <1>1, <3>2 DEF RecordRequest
  <2>4. Abstract!Ask(reader[r].key)
    BY <2>2, <2>3 DEF Abstract!Ask
  <2> QED BY <2>2, <2>4 DEF Abstract!Next
<1>2. CASE ApplyReply /\ worker.reply.kind = "ack"
  <2> DEFINE q == worker.key
             v == worker.reply.version + 1
  <2>1. /\ q \in Keys /\ Handling /\ q \in open
        /\ \A k \in Keys : HasActiveRequest(k)' <=> (HasActiveRequest(k) /\ k # q)
    BY <1>2, EntryOfHandler
  <2>2. open' = open \ {q}
    BY <2>1
  <2>3. worker.reply.key = q /\ worker.reply.version <= device[q]
    BY <1>2, <2>1 DEF RefineInv, CurrentInv
  <2>4. HeldReading(q) <= v
    BY <1>2, <2>1 DEF RefineInv, HeldInv, FloorInv
  <2>5. \A k \in Keys : HeldReading(k)' = IF k = q THEN v ELSE HeldReading(k)
    BY <1>2, <2>3, EntryOfHandler DEF HeldReading
  <2>6. held' = [held EXCEPT ![q] = v]
    BY <2>1, <2>5
  <2>7. v \in held[q]..(device[q] + 1) /\ v > 0
    BY <2>1, <2>3, <2>4, NetType, HeldType
  <2>8. lost' = lost \ {q} /\ UNCHANGED device
    <3>1. \A k \in Keys : Marked(k)
      BY <1>2, EntryOfHandler
    <3>2. \A k \in Keys : object_states'[k].lost = IF k = q THEN FALSE ELSE object_states[k].lost
      BY <1>2, <3>1 DEF Marked
    <3>3. lost' = lost \ {q}
      BY <3>2
    <3> QED BY <1>2, <3>3 DEF ApplyReply
  <2>9. ASSUME NEW k \in Keys, k = q PROVE Abstract!Answer(k)
    BY <2>1, <2>2, <2>6, <2>7, <2>8, <2>9 DEF Abstract!Answer
  <2> QED BY <2>1, <2>9 DEF Abstract!Next
<1>3. CASE (ApplyReply /\ worker.reply.kind # "ack") \/ ApplyRefused
  <2> DEFINE q == worker.key
  <2>1. /\ q \in Keys /\ q \in open
        /\ \A k \in Keys : HasActiveRequest(k)' <=> (HasActiveRequest(k) /\ k # q)
    BY <1>3, EntryOfHandler
  <2>2. open' = open \ {q}
    BY <2>1
  <2>3. ~(ApplyReply /\ worker.reply.kind = "ack")
    BY <1>3 DEF ApplyReply, ApplyRefused
  <2>4. \A k \in Keys : HeldReading(k)' = HeldReading(k)
    BY <1>3, <2>3, EntryOfHandler DEF HeldReading
  <2>5. held' = held /\ UNCHANGED device
    BY <1>3, <2>4 DEF ApplyReply, ApplyRefused
  <2>6. CASE lost' = lost
    <3>1. \E K \in SUBSET open : K # {} /\ open' = open \ K
      BY <2>1, <2>2
    <3> QED BY <2>5, <2>6, <3>1 DEF Abstract!GiveUp, Abstract!Next
  <2>7. CASE lost' # lost
    <3>1. ApplyReply /\ worker.reply.kind = "unallocated"
      <4> SUFFICES ASSUME ~(ApplyReply /\ worker.reply.kind = "unallocated") PROVE lost' = lost
        BY <2>7
      <4>1. \A k \in Keys : Marked(k)
        BY <1>3, EntryOfHandler
      <4>2. \A k \in Keys : object_states'[k].lost = object_states[k].lost
        BY <2>3, <4>1 DEF Marked
      <4> QED BY <4>2
    <3>2. \A k \in Keys : k # q => object_states'[k].lost = object_states[k].lost
      BY <3>1, EntryOfHandler DEF Marked
    <3>3. lost' = lost \cup {q}
      <4>1. object_states'[q].lost # object_states[q].lost
        BY <2>7, <3>2
      <4>2. object_states'[q].lost
               = (object_states[q].lost \/ object_states[q].cached_value # NoValue)
        <5>1. object_states[q] \in ObjectState
          BY <2>1 DEF TypeOK
        <5>2. object_states'[q] = Applied(object_states[q], worker.reply)
          BY <2>1, <3>1 DEF ApplyReply, TypeOK
        <5> QED BY <3>1, <5>1, <5>2 DEF Applied, ObjectState
      <4>3. object_states[q].lost \in BOOLEAN
        BY <2>1 DEF TypeOK, ObjectState
      <4>4. object_states'[q].lost = TRUE
        BY <4>1, <4>2, <4>3
      <4> QED BY <2>1, <3>2, <4>4
    <3>4. ASSUME NEW k \in Keys, k = q PROVE Abstract!Spoil(k)
      BY <2>1, <2>2, <2>5, <3>3, <3>4 DEF Abstract!Spoil
    <3> QED BY <2>1, <3>4 DEF Abstract!Next
  <2> QED BY <2>6, <2>7
<1>4. CASE SweepEnd
  <2> DEFINE staleKeys == {invoke_id_to_key[i] : i \in StaleIds}
  <2>1. \A k \in Keys : HeldReading(k)' = HeldReading(k)
    BY <1>4, EntryOfSweep DEF HeldReading
  <2>2. held' = held /\ lost' = lost /\ UNCHANGED device
    BY <1>4, <2>1, EntryOfSweep DEF SweepEnd
  <2>3. staleKeys \subseteq Keys
    BY WorkerType, <1>4 DEF SweepEnd, StaleIds, WorkerSweeps
  <2>4. staleKeys \subseteq open /\ open' = open \ staleKeys
    BY <1>4, <2>3, EntryOfSweep
  <2>5. CASE staleKeys = {}
    BY <2>2, <2>4, <2>5 DEF Abstract!absVars
  <2>6. CASE staleKeys # {}
    <3>1. \E K \in SUBSET open : K # {} /\ open' = open \ K
      BY <2>4, <2>6
    <3> QED BY <2>2, <3>1 DEF Abstract!GiveUp, Abstract!Next
  <2> QED BY <2>5, <2>6
<1>5. ASSUME \A k \in Keys : Kept(k), Next
      PROVE  Abstract!Next \/ UNCHANGED Abstract!absVars
  <2>1. \A k \in Keys : HeldReading(k)' = HeldReading(k)
                        /\ (HasActiveRequest(k)' <=> HasActiveRequest(k))
                        /\ object_states'[k].lost = object_states[k].lost
    BY <1>5 DEF Kept, HeldReading, HasActiveRequest
  <2>2. held' = held /\ open' = open /\ lost' = lost
    BY <2>1
  <2>3. ASSUME NEW k \in Keys, DeviceChanges(k) PROVE Abstract!Next
    <3>1. Abstract!Change(k)
      BY <2>2, <2>3 DEF DeviceChanges, Abstract!Change
    <3> QED BY <3>1 DEF Abstract!Next
  <2>4. CASE \A k \in Keys : ~DeviceChanges(k)
    <3>1. UNCHANGED device
      BY <1>5, <2>4, DeviceStays
    <3> QED BY <2>2, <3>1 DEF Abstract!absVars
  <2> QED BY <2>3, <2>4
<1>6. CASE UNCHANGED vars
  <2>1. UNCHANGED <<object_states, device>>
    BY <1>6 DEF vars
  <2>2. held' = held /\ open' = open /\ lost' = lost
    BY <2>1 DEF HeldReading, HasActiveRequest
  <2> QED BY <2>1, <2>2 DEF Abstract!absVars
<1> QED BY <1>1, <1>2, <1>3, <1>4, <1>5, <1>6, EntryStep

(* plc_proto_read, the handlers and the sweep implement ObjectCache, for   *)
(* any number of threads, keys, ids and device changes and whatever the    *)
(* device replies: one question per key, and no answer takes a key back to *)
(* an older reading.                                                       *)
THEOREM ReadsImplementCache == Spec => ImplementsObjectCache
<1>1. TypeOK /\ TableInv /\ RefineInv /\ [Next]_vars => [Abstract!Next]_(Abstract!absVars)
  BY RefineStep
<1> QED
  BY <1>1, InitType, StepType, InitTable, StepTable, InitRefine, StepRefine, PTL
  DEF Spec, ImplementsObjectCache, Abstract!Spec

-----------------------------------------------------------------------------
(***************************************************************************)
(* Across a release.  Between the two clears the tables do not agree, but  *)
(* nothing is active, no reader has an address and the worker is gone: the *)
(* second clear finds nothing that a mapping is still needed for.          *)
(***************************************************************************)
CallerInv ==
  \A r \in Readers :
    /\ caller[r] = "addressed" => reader[r].pc # "idle" /\ release \notin {"ids", "down"}
    /\ reader[r].pc \in {"map", "record"} => caller[r] = "addressed"

StageInv ==
  /\ release \in {"forget", "objects", "ids", "down"} => worker = IdleWorker
  /\ release \in {"objects", "ids", "down"} => ~bound

BetweenClears ==
  release = "ids" => LockInv /\ \A k \in Keys : ~HasActiveRequest(k)

(* The mapping of a reader about to record is there, or was taken by the   *)
(* handler of its reply, or went with the id.                              *)
RecordingNoted ==
  \A r \in Readers : reader[r].pc = "record" =>
    \/ invoke_id_to_key[reader[r].id] # NoKey
    \/ Handling /\ worker.reply.id = reader[r].id
    \/ tsm[reader[r].id] = Free

OutsideClears ==
  release # "ids" => TableInv /\ (EveryReplyDecodes => NominalInv)

ResetInv ==
  /\ ResetTypeOK /\ CallerInv /\ StageInv /\ BetweenClears
  /\ RecordingNoted /\ OutsideClears

LEMMA InitReset == ResetInit => ResetInv
<1> SUFFICES ASSUME ResetInit PROVE ResetInv
  OBVIOUS
<1>1. TypeOK /\ TableInv /\ NominalInv
  BY InitType, InitTable, InitNominal DEF ResetInit
<1>2. ResetTypeOK
  BY <1>1, ResetAssumption DEF ResetInit, ResetTypeOK, Stages
<1>3. CallerInv /\ RecordingNoted
  BY DEF ResetInit, Init, IdleReader, CallerInv, RecordingNoted
<1> QED
  BY <1>1, <1>2, <1>3 DEF ResetInit, ResetInv, StageInv, BetweenClears, OutsideClears

(* A step of the read path outside the clears.                             *)
LEMMA ReadPathStep ==
  ASSUME ResetInv, release # "ids", [Next]_vars
  PROVE  TypeOK' /\ TableInv' /\ (EveryReplyDecodes => NominalInv')
<1>1. TypeOK /\ TableInv /\ (EveryReplyDecodes => NominalInv)
  BY DEF ResetInv, ResetTypeOK, OutsideClears
<1>2. TypeOK' /\ TableInv'
  BY <1>1, StepType, StepTable
<1>3. ASSUME EveryReplyDecodes PROVE NominalInv'
  BY <1>1, <1>3, StepNominal
<1> QED BY <1>2, <1>3

(* A reader maps its id before it records; only a handler takes a mapping  *)
(* without object_states_mutex, and it keeps the reply or frees the id.    *)
LEMMA NotedByReads ==
  ASSUME TypeOK, TableInv, RecordingNoted, NEW r \in Readers, ReaderNext(r)
  PROVE  RecordingNoted'
<1>1. /\ \A s \in Readers : s # r => reader'[s] = reader[s]
      /\ reader'[r].pc = "record" => reader[r].pc = "map"
      /\ UNCHANGED worker
  BY ReaderMoves
<1>2. CASE reader[r].pc = "idle" /\ UNCHANGED <<invoke_id_to_key, tsm>>
  BY <1>1, <1>2 DEF RecordingNoted, Handling
<1>3. CASE reader[r].pc # "idle"
  <2>1. \A s \in Readers : s # r => reader[s].pc = "idle"
    BY <1>3, OneReaderInside DEF TableInv
  <2>2. CASE MapInvokeId(r)
    <3>1. reader[r].id \in InvokeIds /\ reader[r].key \in Keys /\ reader[r] \in ReaderRequests
      BY <2>2, ReaderType DEF MapInvokeId, ReaderRequests
    <3>2. reader'[r].id = reader[r].id /\ invoke_id_to_key'[reader[r].id] = reader[r].key
      BY <2>2, <3>1 DEF MapInvokeId, TypeOK, ReaderRequests
    <3> QED BY <1>1, <2>1, <3>1, <3>2, ConstantsAssumption DEF RecordingNoted
  <2>3. CASE reader'[r].pc # "record"
    BY <1>1, <2>1, <2>3 DEF RecordingNoted
  <2>4. CASE ~MapInvokeId(r)
    <3>1. reader[r].pc # "map" \/ ~ReaderInside(r)
      BY <2>4 DEF ReaderInside, SendRequest, SendFails, RecordRequest
    <3>2. ReaderInside(r)
      BY <1>3 DEF ReaderNext, ReadFromCache, ReadStillPending, ReadStart, Enters
    <3> QED BY <1>1, <2>3, <3>1, <3>2
  <2> QED BY <2>2, <2>4
<1>4. reader[r].pc = "idle" => UNCHANGED <<invoke_id_to_key, tsm>>
  BY DEF ReaderNext, ReaderInside, ReadFromCache, ReadStillPending, ReadStart, SendRequest,
     SendFails, MapInvokeId, RecordRequest
<1> QED BY <1>2, <1>3, <1>4

LEMMA NotedByWorker ==
  ASSUME TypeOK, TableInv, RecordingNoted, WorkerNext
  PROVE  RecordingNoted'
<1>1. UNCHANGED reader
  BY DEF WorkerNext, Handle, DropMalformed, DropUnmatched, DropUndecodable, TakeMapping,
     TakeRefused, ApplyReply, ApplyRefused, SweepBegin, SweepEnd
<1> SUFFICES ASSUME NEW r \in Readers, reader[r].pc = "record"
             PROVE  \/ invoke_id_to_key'[reader[r].id] # NoKey
                    \/ Handling' /\ worker'.reply.id = reader[r].id
                    \/ tsm'[reader[r].id] = Free
  BY <1>1 DEF RecordingNoted
<1> DEFINE i == reader[r].id
<1>2. /\ i \in InvokeIds
      /\ invoke_id_to_key[i] # NoKey \/ (Handling /\ worker.reply.id = i) \/ tsm[i] = Free
  BY ReaderType DEF RecordingNoted, ReaderRequests
<1>3. object_states_mutex # Nobody
  BY NobodyInside DEF TableInv
<1>4. ASSUME NEW m \in net, DropMalformed(m) \/ DropUnmatched(m) \/ DropUndecodable(m)
      PROVE  tsm'[i] = Free \/ invoke_id_to_key'[i] # NoKey
  <2>1. ~Handling /\ tsm' = [tsm EXCEPT ![m.id] = Free]
    BY <1>4
    DEF DropMalformed, DropUnmatched, DropUndecodable, Receive, Handling, tsm_free_invoke_id
  <2>2. i # m.id => invoke_id_to_key'[i] = invoke_id_to_key[i]
    BY <1>2, <1>4 DEF DropMalformed, DropUnmatched, DropUndecodable, EraseMapping, TypeOK
  <2>3. tsm'[i] = IF i = m.id THEN Free ELSE tsm[i]
    BY <1>2, <2>1 DEF TypeOK
  <2> QED BY <1>2, <2>1, <2>2, <2>3
<1>5. ASSUME NEW m \in net, TakeMapping(m) \/ TakeRefused(m)
      PROVE  \/ invoke_id_to_key'[i] # NoKey
             \/ Handling' /\ worker'.reply.id = i
             \/ tsm'[i] = Free
  <2>1. ~Handling /\ Handling' /\ worker'.reply = m /\ UNCHANGED tsm
    BY <1>5 DEF TakeMapping, TakeRefused, Receive, WorkerTakes, IdleWorker, Handling
  <2>2. i # m.id => invoke_id_to_key'[i] = invoke_id_to_key[i]
    BY <1>2, <1>5 DEF TakeMapping, TakeRefused, EraseMapping, TypeOK
  <2> QED BY <1>2, <2>1, <2>2
<1>6. CASE SweepBegin
  <2>1. ~Handling /\ UNCHANGED <<invoke_id_to_key, tsm>>
    BY <1>6 DEF SweepBegin, Handling
  <2> QED BY <1>2, <2>1
<1>7. ~(ApplyReply \/ ApplyRefused \/ SweepEnd)
  BY <1>3 DEF ApplyReply, ApplyRefused, SweepEnd
<1> QED BY <1>4, <1>5, <1>6, <1>7 DEF WorkerNext, Handle

LEMMA StepNoted ==
  ASSUME TypeOK, RecordingNoted, [Next]_vars,
         TableInv \/ \A r \in Readers : reader'[r].pc # "record"
  PROVE  RecordingNoted'
<1>1. CASE \A r \in Readers : reader'[r].pc # "record"
  BY <1>1 DEF RecordingNoted
<1>2. ASSUME TableInv, NEW r \in Readers, ReaderNext(r) PROVE RecordingNoted'
  BY <1>2, NotedByReads
<1>3. CASE TableInv /\ WorkerNext
  BY <1>3, NotedByWorker
<1>4. CASE Environment \/ UNCHANGED vars
  <2>1. /\ UNCHANGED <<reader, worker, invoke_id_to_key>>
        /\ \A i \in InvokeIds : tsm[i] = Free => tsm'[i] = Free
    BY <1>4 DEF Environment, Lose, DeviceAnswers, DeviceChanges, Tick, vars
  <2>2. \A r \in Readers : reader[r].pc = "record" => reader[r].id \in InvokeIds
    BY ReaderType DEF ReaderRequests
  <2> QED BY <2>1, <2>2 DEF RecordingNoted, Handling
<1> QED BY <1>1, <1>2, <1>3, <1>4 DEF Next

LEMMA ReadsReset ==
  ASSUME ResetInv, NEW r \in Readers, Reads(r)
  PROVE  ResetInv'
<1> USE DEF ResetInv, ResetTypeOK
<1>1. ReaderNext(r) /\ Next /\ Resolves(r)
      /\ UNCHANGED <<release, bound, resets, abandoned, worker>>
  BY ReaderMoves DEF Reads, Next
<1>2. TypeOK'
  BY <1>1, StepType
<1>3. /\ \A s \in Readers : s # r => reader'[s] = reader[s] /\ caller'[s] = caller[s]
      /\ caller'[r] = IF reader'[r].pc = "idle" THEN "out"
                      ELSE IF reader[r].pc = "idle" /\ bound THEN "addressed" ELSE caller[r]
      /\ caller' \in [Readers -> {"out", "ensured", "addressed"}]
  BY <1>1, ReaderMoves DEF Resolves
<1>4. CallerInv'
  <2>1. caller'[r] = "addressed" => reader'[r].pc # "idle" /\ release' \notin {"ids", "down"}
    BY <1>1, <1>3 DEF CallerInv, StageInv
  <2>2. ASSUME reader'[r].pc \in {"map", "record"} PROVE caller'[r] = "addressed"
    <3>1. reader[r].pc = "send" => caller[r] = "addressed"
      BY <2>2 DEF Reads
    <3>2. reader[r].pc \in {"send", "map"} /\ reader'[r].pc # "idle" /\ reader[r].pc # "idle"
      BY <1>1, <2>2, ReaderMoves
    <3>3. caller[r] = "addressed"
      BY <3>1, <3>2 DEF CallerInv
    <3> QED BY <1>3, <3>2, <3>3
  <2> QED BY <1>1, <1>3, <2>1, <2>2 DEF CallerInv
<1>5. StageInv'
  BY <1>1 DEF StageInv
<1>6. RecordingNoted'
  <2>1. TableInv \/ \A s \in Readers : reader'[s].pc # "record"
    BY <1>1, <1>4 DEF OutsideClears, CallerInv
  <2> QED BY <1>1, <2>1, StepNoted
<1>7. CASE release # "ids"
  <2>1. OutsideClears'
    BY <1>1, <1>7, ReadPathStep DEF OutsideClears
  <2> QED BY <1>1, <1>2, <1>3, <1>4, <1>5, <1>6, <1>7, <2>1 DEF BetweenClears
<1>8. CASE release = "ids"
  <2>1. reader[r].pc \notin {"map", "record"} /\ reader'[r].pc \notin {"map", "record"}
    BY <1>1, <1>4, <1>8 DEF CallerInv
  <2>2. LockInv /\ \A k \in Keys : ~HasActiveRequest(k)
    BY <1>8 DEF BetweenClears
  <2>3. UNCHANGED <<object_states, invoke_id_to_key_mutex>> /\ LockInv'
    <3>1. ASSUME NEW k \in Keys, ReadFromCache(r, k) \/ ReadStillPending(r, k)
          PROVE  UNCHANGED <<object_states, invoke_id_to_key_mutex>> /\ LockInv'
      BY <1>1, <2>2, <3>1
      DEF ReadFromCache, ReadStillPending, Enters, Return, TypeOK, LockInv, IdleReader
    <3>2. ASSUME NEW k \in Keys, ReadStart(r, k)
          PROVE  UNCHANGED <<object_states, invoke_id_to_key_mutex>> /\ LockInv'
      BY <1>1, <2>2, <3>2, ConstantsAssumption
      DEF ReadStart, Enters, TypeOK, LockInv, IdleReader
    <3>3. CASE SendFails(r)
      BY <1>1, <2>2, <3>3, ConstantsAssumption
      DEF SendFails, Return, TypeOK, LockInv, IdleReader
    <3>4. ~SendRequest(r)
      BY <2>1, ReaderType DEF SendRequest, TypeOK, ReaderSends
    <3>5. ~MapInvokeId(r) /\ ~RecordRequest(r)
      BY <2>1 DEF MapInvokeId, RecordRequest
    <3> QED BY <1>1, <3>1, <3>2, <3>3, <3>4, <3>5 DEF ReaderNext, ReaderInside
  <2> QED
    BY <1>1, <1>2, <1>3, <1>4, <1>5, <1>6, <1>8, <2>2, <2>3
    DEF BetweenClears, OutsideClears, HasActiveRequest
<1> QED BY <1>7, <1>8

LEMMA ClearObjectsReset ==
  ASSUME ResetInv, ClearObjects
  PROVE  ResetInv'
<1> USE DEF ResetInv, ResetTypeOK
<1>1. TableInv /\ \A r \in Readers : reader[r].pc = "idle"
  BY NobodyInside DEF ClearObjects, TableInv, OutsideClears
<1>2. NewObjectState \in ObjectState
  BY AgeType, ConstantsAssumption
  DEF NewObjectState, ObjectState, NoValue, Values, Versions, Statuses
<1>3. ResetTypeOK'
  BY <1>2 DEF ClearObjects, TypeOK, Stages
<1>4. CallerInv' /\ StageInv'
  BY <1>1 DEF ClearObjects, CallerInv, StageInv
<1>5. BetweenClears'
  BY <1>1 DEF ClearObjects, BetweenClears, TableInv, LockInv, HasActiveRequest, NewObjectState
<1>6. RecordingNoted' /\ OutsideClears'
  BY <1>1 DEF ClearObjects, RecordingNoted, OutsideClears
<1> QED BY <1>3, <1>4, <1>5, <1>6

LEMMA ClearIdsReset ==
  ASSUME ResetInv, ClearIds
  PROVE  ResetInv'
<1> USE DEF ResetInv, ResetTypeOK
<1>1. /\ release = "ids" /\ release' = "down" /\ worker = IdleWorker /\ ~bound
      /\ LockInv /\ \A k \in Keys : ~HasActiveRequest(k)
      /\ UNCHANGED <<object_states, object_states_mutex, invoke_id_to_key_mutex, reader,
                     worker, tsm, caller, bound, resets>>
  BY DEF ClearIds, StageInv, BetweenClears
<1>2. \A i \in InvokeIds : invoke_id_to_key'[i] = NoKey
  BY DEF ClearIds
<1>3. \A r \in Readers : reader[r].pc \notin {"map", "record"}
  BY <1>1 DEF CallerInv
<1>4. ResetTypeOK'
  BY DEF ClearIds, TypeOK, Stages
<1>5. CallerInv' /\ StageInv' /\ BetweenClears'
  BY <1>1 DEF CallerInv, StageInv, BetweenClears
<1>6. TableInv'
  <2>1. LockInv' /\ MapCoherent' /\ HandlerCoherent'
    BY <1>1, <1>2 DEF LockInv, MapCoherent, HandlerCoherent, IdleWorker
  <2>2. \A r \in Readers : reader[r].pc = "send" => reader[r].key \in Keys
    BY ReaderType DEF ReaderSends
  <2>3. \A k \in Keys : Unrequested(k)'
    BY <1>1, <1>2, ConstantsAssumption DEF Unrequested, HasActiveRequest, IdleWorker
  <2>4. WindowCoherent'
    BY <1>1, <1>3, <2>2, <2>3 DEF WindowCoherent
  <2> QED BY <2>1, <2>4 DEF TableInv
<1>7. NominalInv'
  BY <1>1, <1>2, <1>3 DEF NominalInv, UsedIdsAreBusy, ReaderIds, SentIdsUnmapped, HandlerIds,
     RecordingMapped, NoOrphanRequest, HasActiveRequest, IdleWorker
<1>8. RecordingNoted' /\ OutsideClears'
  BY <1>1, <1>3, <1>6, <1>7 DEF RecordingNoted, OutsideClears
<1> QED BY <1>4, <1>5, <1>8

(* The other steps of a release leave the read path alone.                 *)
LEMMA StagesReset ==
  ASSUME ResetInv, StopWorker \/ JoinWorker \/ ForgetDevices \/ ComeBack
  PROVE  ResetInv'
<1> USE DEF ResetInv, ResetTypeOK
<1>1. UNCHANGED <<vars, caller, abandoned>> /\ release # "ids" /\ release' # "ids"
      /\ release' \in Stages
  BY DEF StopWorker, JoinWorker, ForgetDevices, ComeBack, Stages
<1>2. TypeOK' /\ TableInv' /\ (EveryReplyDecodes => NominalInv')
  BY <1>1, ReadPathStep
<1>3. resets' \in 0..MaxResets /\ bound' \in BOOLEAN
  <2>1. CASE StopWorker
    <3>1. resets \in 0..MaxResets /\ resets < MaxResets /\ resets' = resets + 1 /\ MaxResets \in Nat
      BY <2>1, ResetAssumption DEF StopWorker
    <3>2. resets' \in 0..MaxResets
      BY ONLY <3>1
    <3> QED BY <2>1, <3>2 DEF StopWorker
  <2>2. CASE JoinWorker \/ ForgetDevices \/ ComeBack
    BY <2>2 DEF JoinWorker, ForgetDevices, ComeBack
  <2> QED BY <2>1, <2>2
<1>4. CallerInv' /\ StageInv'
  BY <1>1 DEF CallerInv, StageInv, StopWorker, JoinWorker, ForgetDevices, ComeBack, vars
<1>5. RecordingNoted'
  BY <1>1, StepNoted DEF OutsideClears
<1> QED BY <1>1, <1>2, <1>3, <1>4, <1>5 DEF BetweenClears, OutsideClears

LEMMA StepReset == ResetInv /\ [ResetNext]_allVars => ResetInv'
<1> SUFFICES ASSUME ResetInv, [ResetNext]_allVars PROVE ResetInv'
  OBVIOUS
<1> USE DEF ResetInv, ResetTypeOK
<1>1. ASSUME NEW r \in Readers, Ensured(r) PROVE ResetInv'
  <2>1. TypeOK' /\ TableInv' /\ (EveryReplyDecodes => NominalInv')
    BY <1>1, ReadPathStep DEF Ensured
  <2>2. CallerInv' /\ StageInv'
    BY <1>1 DEF Ensured, CallerInv, StageInv, vars
  <2>3. RecordingNoted'
    BY <1>1, StepNoted DEF Ensured, OutsideClears
  <2> QED BY <1>1, <2>1, <2>2, <2>3 DEF Ensured, BetweenClears, OutsideClears
<1>2. ASSUME NEW r \in Readers, Reads(r) PROVE ResetInv'
  BY <1>2, ReadsReset
<1>3. CASE Works
  <2>1. Next /\ release \in {"up", "join"} /\ UNCHANGED <<release, caller, bound, resets, reader>>
    BY <1>3 DEF Works, Next, WorkerNext, Handle, DropMalformed, DropUnmatched, DropUndecodable,
       TakeMapping, TakeRefused, ApplyReply, ApplyRefused, SweepBegin, SweepEnd
  <2>2. TypeOK' /\ TableInv' /\ (EveryReplyDecodes => NominalInv')
    BY <2>1, ReadPathStep
  <2>3. abandoned' \subseteq InvokeIds
    BY <1>3 DEF Works
  <2>4. RecordingNoted'
    BY <2>1, StepNoted DEF OutsideClears
  <2> QED BY <2>1, <2>2, <2>3, <2>4 DEF CallerInv, StageInv, BetweenClears, OutsideClears
<1>4. CASE World
  <2>1. /\ Next /\ UNCHANGED resetVars /\ UNCHANGED <<reader, worker, object_states_mutex,
                                                   invoke_id_to_key_mutex>>
        /\ \A k \in Keys : object_states'[k].active_invoke_id = object_states[k].active_invoke_id
    BY <1>4 DEF World, Next, Environment, Lose, DeviceAnswers, DeviceChanges, Tick, TypeOK,
       ObjectState
  <2>2. TypeOK' /\ CallerInv' /\ StageInv'
    BY <2>1, StepType DEF CallerInv, StageInv, resetVars
  <2>3. OutsideClears'
    BY <2>1, ReadPathStep DEF OutsideClears, resetVars
  <2>4. BetweenClears'
    BY <2>1 DEF BetweenClears, LockInv, HasActiveRequest, resetVars
  <2>5. TableInv \/ \A r \in Readers : reader'[r].pc # "record"
    BY <2>1 DEF OutsideClears, CallerInv
  <2>6. RecordingNoted'
    BY <2>1, <2>5, StepNoted
  <2> QED BY <2>1, <2>2, <2>3, <2>4, <2>6 DEF resetVars
<1>5. CASE Reset
  BY <1>5, ClearObjectsReset, ClearIdsReset, StagesReset DEF Reset
<1>6. CASE UNCHANGED allVars
  <2>1. UNCHANGED vars /\ UNCHANGED resetVars
    BY <1>6 DEF allVars
  <2>2. TypeOK' /\ OutsideClears'
    BY <2>1, StepType, ReadPathStep DEF OutsideClears, resetVars
  <2>3. CallerInv' /\ StageInv' /\ BetweenClears' /\ RecordingNoted'
    BY <2>1 DEF resetVars, vars, CallerInv, StageInv, BetweenClears, LockInv, HasActiveRequest,
       RecordingNoted, Handling
  <2> QED BY <2>1, <2>2, <2>3 DEF resetVars
<1> QED BY <1>1, <1>2, <1>3, <1>4, <1>5, <1>6 DEF ResetNext

LEMMA ResetInvHolds == ResetSpec => []ResetInv
  BY InitReset, StepReset, PTL DEF ResetSpec

(* However a release overtakes the reads under way, the tables agree again *)
(* when it is over; and if every reply decodes, no id they use is free.    *)
THEOREM ResetKeepsTables == ResetSpec => []TablesAgreeAgain
<1>1. ResetInv => TablesAgreeAgain
  BY OneRequest
  DEF ResetInv, ResetTypeOK, OutsideClears, TableInv, NominalInv, TablesAgree, TablesAgreeAgain
<1> QED BY <1>1, ResetInvHolds, PTL

(* And no release leaves a key waiting for a mapping it has cleared, if    *)
(* every reply decodes.                                                    *)
THEOREM ResetLeavesNoOrphan ==
  ASSUME EveryReplyDecodes PROVE ResetSpec => []NoOrphanRequest
<1>1. ResetInv => NoOrphanRequest
  BY DEF ResetInv, BetweenClears, OutsideClears, NominalInv, NoOrphanRequest
<1> QED BY <1>1, ResetInvHolds, PTL

(* Between the clears the reads do little and the worker nothing.          *)
LEMMA RefineBetween ==
  ASSUME ResetInv, RefineInv, release = "ids", Next, worker' = worker,
         \A r \in Readers : ~SendRequest(r) /\ ~RecordRequest(r)
  PROVE  RefineInv' /\ (Abstract!Next \/ UNCHANGED Abstract!absVars)
<1> DEFINE open == {k \in Keys : HasActiveRequest(k)}
           held == [k \in Keys |-> HeldReading(k)]
           lost == {k \in Keys : object_states[k].lost}
<1>1. TypeOK /\ SendsFresh /\ worker = IdleWorker
  BY DEF ResetInv, ResetTypeOK, StageInv, SendsFresh
<1>2. \A k \in Keys : Kept(k)
  <2>1. ~ApplyReply /\ ~ApplyRefused /\ ~SweepEnd
    BY <1>1 DEF ApplyReply, ApplyRefused, SweepEnd, IdleWorker
  <2> QED BY <1>1, <2>1, EntryStep
<1>3. \A k \in Keys : HeldReading(k)' = HeldReading(k)
                      /\ (HasActiveRequest(k)' <=> HasActiveRequest(k))
                      /\ object_states'[k].lost = object_states[k].lost
  BY <1>2 DEF Kept, HeldReading, HasActiveRequest
<1>4. CurrentInv'
  BY <1>1, CurrentStep DEF RefineInv
<1>5. HeldInv'
  <2> SUFFICES ASSUME NEW k \in Keys PROVE FloorInv(k, HeldReading(k))'
    BY DEF HeldInv
  <2>1. PICK floor \in Nat : floor = HeldReading(k)
    BY <1>1, HeldType
  <2>2. FloorInv(k, floor)
    BY <2>1 DEF RefineInv, HeldInv
  <2>3. FloorInv(k, floor)'
    BY <1>1, <2>2, FloorStep DEF RefineInv
  <2>4. HeldReading(k)' = floor
    BY <1>3, <2>1
  <2> QED BY <2>3, <2>4 DEF FloorInv
<1>6. held' = held /\ open' = open /\ lost' = lost
  BY <1>3
<1>7. ASSUME NEW k \in Keys, DeviceChanges(k) PROVE Abstract!Next
  <2>1. Abstract!Change(k)
    BY <1>6, <1>7 DEF DeviceChanges, Abstract!Change
  <2> QED BY <2>1 DEF Abstract!Next
<1>8. CASE \A k \in Keys : ~DeviceChanges(k)
  <2>1. UNCHANGED device
    BY <1>8, DeviceStays
  <2> QED BY <1>4, <1>5, <1>6, <2>1 DEF RefineInv, Abstract!absVars
<1> QED BY <1>4, <1>5, <1>7, <1>8 DEF RefineInv

(* The first clear forgets; the bound on later answers becomes none.       *)
LEMMA RefineClearObjects ==
  ASSUME ResetInv, RefineInv, ClearObjects
  PROVE  RefineInv' /\ Abstract!Forget
<1>1. \A k \in Keys : HeldReading(k)' = 0 /\ ~HasActiveRequest(k)' /\ ~object_states'[k].lost
  BY ConstantsAssumption
  DEF ClearObjects, HeldReading, HasActiveRequest, NewObjectState, NoValue
<1>2. UNCHANGED <<device, net, worker, reader, invoke_id_to_key>>
  BY DEF ClearObjects
<1>3. CurrentInv'
  BY <1>2 DEF RefineInv, CurrentInv, Owns, SentUnder, Handling
<1>4. HeldInv'
  <2> SUFFICES ASSUME NEW k \in Keys PROVE FloorInv(k, HeldReading(k))'
    BY DEF HeldInv
  <2>1. /\ device[k] \in Nat /\ \A m \in net : m.version \in Nat
        /\ Handling => worker.reply.version \in Nat
    BY NetType DEF ResetInv, ResetTypeOK
  <2> QED BY <1>1, <1>2, <2>1 DEF FloorInv, Handling
<1>5. Abstract!Forget
  BY <1>1, <1>2 DEF Abstract!Forget
<1> QED BY <1>3, <1>4, <1>5 DEF RefineInv

(* The second clear takes ids away from keys that asked for nothing.       *)
LEMMA RefineClearIds ==
  ASSUME ResetInv, RefineInv, ClearIds
  PROVE  RefineInv' /\ UNCHANGED Abstract!absVars
<1>1. UNCHANGED <<device, net, worker, reader, object_states>>
  BY DEF ClearIds
<1>2. \A m \in net : m.id \in InvokeIds
  BY NetType DEF ResetInv, ResetTypeOK
<1>3. \A k \in Keys : \A m \in net : Owns(k, m.id)' => Owns(k, m.id)
  <2>1. \A i \in InvokeIds : invoke_id_to_key'[i] = NoKey
    BY DEF ClearIds
  <2> QED BY <1>1, <1>2, <2>1, ConstantsAssumption DEF Owns, SentUnder
<1>4. RefineInv'
  BY <1>1, <1>3 DEF RefineInv, CurrentInv, HeldInv, FloorInv, HeldReading, Handling
<1> QED BY <1>1, <1>4 DEF Abstract!absVars, HeldReading, HasActiveRequest

LEMMA RefineReset ==
  ASSUME ResetInv, RefineInv, [ResetNext]_allVars
  PROVE  /\ RefineInv'
         /\ Abstract!Next \/ Forgets \/ UNCHANGED Abstract!absVars
<1> USE DEF ResetInv, ResetTypeOK
<1>1. ASSUME release # "ids", [Next]_vars
      PROVE  RefineInv' /\ (Abstract!Next \/ UNCHANGED Abstract!absVars)
  BY <1>1, StepRefine, RefineStep DEF OutsideClears
<1>2. ASSUME UNCHANGED vars PROVE RefineInv' /\ UNCHANGED Abstract!absVars
  BY <1>2 DEF vars, RefineInv, CurrentInv, HeldInv, FloorInv, HeldReading, Owns, SentUnder,
     Handling, Abstract!absVars, HasActiveRequest
<1>3. ASSUME NEW r \in Readers, Reads(r)
      PROVE  RefineInv' /\ (Abstract!Next \/ UNCHANGED Abstract!absVars)
  <2>1. ReaderNext(r) /\ Next /\ worker' = worker
    BY <1>3, ReaderMoves DEF Reads, Next
  <2>2. CASE release = "ids"
    <3>1. \A s \in Readers : ~RecordRequest(s)
      BY <2>2 DEF CallerInv, RecordRequest
    <3>2. \A s \in Readers : ~SendRequest(s)
      <4> SUFFICES ASSUME NEW s \in Readers, SendRequest(s) PROVE FALSE
        OBVIOUS
      <4>1. reader[s].pc = "send" /\ reader'[s].pc = "map"
        BY ReaderType DEF SendRequest, TypeOK, ReaderSends
      <4>2. s = r /\ caller[r] # "addressed"
        BY <2>1, <2>2, <4>1, ReaderMoves DEF CallerInv
      <4>3. reader'[r].pc = "idle"
        BY <1>3, <4>1, <4>2 DEF Reads
      <4> QED BY <4>1, <4>2, <4>3
    <3> QED BY <2>1, <2>2, <3>1, <3>2, RefineBetween
  <2> QED BY <1>1, <2>1, <2>2
<1>4. CASE Works
  BY <1>1, <1>4 DEF Works, Next
<1>5. CASE World
  <2>1. Next /\ UNCHANGED <<reader, worker>>
    BY <1>5 DEF World, Next, Environment, Lose, DeviceAnswers, DeviceChanges, Tick
  <2>2. \A r \in Readers : ~SendRequest(r) /\ ~RecordRequest(r)
    <3> SUFFICES ASSUME NEW r \in Readers, SendRequest(r) \/ RecordRequest(r) PROVE FALSE
      OBVIOUS
    <3> QED
      BY <2>1, ReaderType
      DEF SendRequest, RecordRequest, Return, TypeOK, ReaderSends, IdleReader
  <2> QED BY <1>1, <2>1, <2>2, RefineBetween
<1>6. CASE ClearObjects
  BY <1>6, RefineClearObjects DEF Forgets, ClearObjects
<1>7. CASE ClearIds
  BY <1>7, RefineClearIds
<1>8. CASE StopWorker \/ JoinWorker \/ ForgetDevices \/ ComeBack
  BY <1>2, <1>8 DEF StopWorker, JoinWorker, ForgetDevices, ComeBack
<1>9. ASSUME NEW r \in Readers, Ensured(r) PROVE UNCHANGED vars
  BY <1>9 DEF Ensured
<1>10. CASE UNCHANGED allVars
  BY <1>2, <1>10 DEF allVars
<1> QED BY <1>2, <1>3, <1>4, <1>5, <1>6, <1>7, <1>8, <1>9, <1>10 DEF ResetNext, Reset

(* And the driver is the same cache before, during and after a release,    *)
(* which forgets what it held in one step and credits nothing old later.   *)
THEOREM ReleaseForgets == ResetSpec => ImplementsForgetfulCache
<1>1. ResetInit => RefineInv /\ Abstract!Init
  BY InitRefine DEF ResetInit
<1>2. ResetInv /\ RefineInv /\ [ResetNext]_allVars => RefineInv'
  BY RefineReset
<1>3. ResetInv /\ RefineInv /\ [ResetNext]_allVars
      => [Abstract!Next \/ Forgets]_(Abstract!absVars)
  BY RefineReset
<1> QED
  BY <1>1, <1>2, <1>3, ResetInvHolds, PTL DEF ResetSpec, ImplementsForgetfulCache
-----------------------------------------------------------------------------
(***************************************************************************)
(* No id is lost but by a release.  A thread that lets go of an id gives   *)
(* it back, or leaves it in the map, or to the handler of its reply.       *)
(***************************************************************************)
LEMMA ReadsKeepTrack ==
  ASSUME ResetInv, LostOnlyByReset, NEW r \in Readers, Reads(r)
  PROVE  LostOnlyByReset'
<1> USE DEF ResetInv, ResetTypeOK
<1>0. ReaderNext(r) /\ abandoned' = abandoned /\ worker' = worker
      /\ \A s \in Readers : s # r => reader'[s] = reader[s]
  BY ReaderMoves DEF Reads
<1>1. ASSUME NEW k \in Keys, ReadFromCache(r, k) \/ ReadStillPending(r, k) \/ ReadStart(r, k)
      PROVE  UNCHANGED <<tsm, invoke_id_to_key>> /\ reader[r].pc \notin {"map", "record"}
  BY <1>1 DEF ReadFromCache, ReadStillPending, ReadStart, Enters
<1>2. CASE SendRequest(r)
  <2>1. PICK i \in InvokeIds : /\ tsm' = [tsm EXCEPT ![i] = 0]
                              /\ reader'[r].pc = "map" /\ reader'[r].id = i
    <3>1. PICK i \in InvokeIds : /\ tsm' = [tsm EXCEPT ![i] = 0]
                                /\ reader' = [reader EXCEPT ![r].pc = "map", ![r].id = i]
      BY <1>2 DEF SendRequest, Available
    <3>2. reader[r] \in ReaderSends /\ DOMAIN reader = Readers
      BY <1>2, ReaderType DEF SendRequest, TypeOK
    <3>3. reader'[r].pc = "map" /\ reader'[r].id = i
      BY <3>1, <3>2 DEF ReaderSends
    <3> QED BY <3>1, <3>3
  <2>2. reader[r].pc = "send" /\ invoke_id_to_key' = invoke_id_to_key
    BY <1>2 DEF SendRequest
  <2> QED BY <1>0, <2>1, <2>2 DEF TypeOK, LostOnlyByReset, Tracked
<1>3. CASE SendFails(r)
  <2>1. reader[r].pc = "send" /\ UNCHANGED <<tsm, invoke_id_to_key>>
    BY <1>3 DEF SendFails
  <2> QED BY <1>0, <2>1 DEF LostOnlyByReset, Tracked
<1>4. CASE MapInvokeId(r)
  <2>1. reader[r].pc = "map" /\ reader[r].id \in InvokeIds /\ reader[r].key \in Keys
    BY <1>4, ReaderType DEF MapInvokeId, ReaderRequests
  <2>2. invoke_id_to_key' = [invoke_id_to_key EXCEPT ![reader[r].id] = reader[r].key]
        /\ tsm' = tsm
    BY <1>4 DEF MapInvokeId
  <2> QED BY <1>0, <2>1, <2>2, ConstantsAssumption DEF TypeOK, LostOnlyByReset, Tracked
<1>5. CASE RecordRequest(r)
  <2>1. /\ reader[r].pc = "record" /\ reader[r].id \in InvokeIds /\ reader[r].key \in Keys
        /\ UNCHANGED <<tsm, invoke_id_to_key>>
    BY <1>5, ReaderType DEF RecordRequest, ReaderRequests
  <2>2. \/ invoke_id_to_key[reader[r].id] # NoKey
        \/ worker.pc \in {"apply", "refuse"} /\ worker.reply.id = reader[r].id
        \/ tsm[reader[r].id] = Free
    BY <2>1 DEF RecordingNoted, Handling
  <2> QED BY <1>0, <2>1, <2>2 DEF LostOnlyByReset, Tracked
<1> QED
  BY <1>0, <1>1, <1>2, <1>3, <1>4, <1>5 DEF ReaderNext, ReaderInside, LostOnlyByReset, Tracked

LEMMA WorksKeepsTrack ==
  ASSUME ResetInv, LostOnlyByReset, Works
  PROVE  LostOnlyByReset'
<1> USE DEF ResetInv, ResetTypeOK
<1>0. /\ WorkerNext /\ reader' = reader
      /\ \A i \in abandoned : tsm'[i] # Free => i \in abandoned'
  BY DEF Works, WorkerNext, Handle, DropMalformed, DropUnmatched, DropUndecodable, TakeMapping,
     TakeRefused, ApplyReply, ApplyRefused, SweepBegin, SweepEnd
<1> SUFFICES ASSUME NEW i \in InvokeIds, tsm'[i] # Free, Tracked(i) \/ i \in abandoned
             PROVE  Tracked(i)' \/ i \in abandoned
  <2>1. \A i \in InvokeIds : tsm'[i] # Free => tsm[i] # Free
    BY <1>0
    DEF WorkerNext, Handle, DropMalformed, DropUnmatched, DropUndecodable, TakeMapping,
        TakeRefused, ApplyReply, ApplyRefused, SweepBegin, SweepEnd, tsm_free_invoke_id, TypeOK
  <2> QED BY <1>0, <2>1 DEF LostOnlyByReset
<1>1. ASSUME NEW m \in net, DropMalformed(m) \/ DropUnmatched(m) \/ DropUndecodable(m)
      PROVE  Tracked(i)' \/ i \in abandoned
  <2>1. i # m.id /\ worker.pc = "receive"
    BY <1>1 DEF DropMalformed, DropUnmatched, DropUndecodable, tsm_free_invoke_id, TypeOK, Receive
  <2>2. invoke_id_to_key'[i] = invoke_id_to_key[i]
    BY <1>1, <2>1 DEF DropMalformed, DropUnmatched, DropUndecodable, EraseMapping, TypeOK
  <2> QED BY <1>0, <2>1, <2>2 DEF Tracked
<1>2. ASSUME NEW m \in net, TakeMapping(m) \/ TakeRefused(m)
      PROVE  Tracked(i)' \/ i \in abandoned
  <2>1. /\ worker.pc = "receive" /\ worker'.pc \in {"apply", "refuse"}
        /\ worker'.reply = m
    BY <1>2 DEF TakeMapping, TakeRefused, Receive, WorkerTakes, IdleWorker
  <2>2. i # m.id => invoke_id_to_key'[i] = invoke_id_to_key[i]
    BY <1>2 DEF TakeMapping, TakeRefused, EraseMapping, TypeOK
  <2> QED BY <1>0, <2>1, <2>2 DEF Tracked
<1>3. CASE ApplyReply \/ ApplyRefused
  <2>1. worker.reply.id # i /\ UNCHANGED invoke_id_to_key
    BY <1>3 DEF ApplyReply, ApplyRefused, tsm_free_invoke_id, TypeOK
  <2> QED BY <1>0, <2>1 DEF Tracked
<1>4. CASE SweepBegin
  <2>1. worker.pc = "receive" /\ UNCHANGED invoke_id_to_key
    BY <1>4 DEF SweepBegin
  <2> QED BY <1>0, <2>1 DEF Tracked
<1>5. CASE SweepEnd
  <2>1. worker.pc = "sweep" /\ i \notin StaleIds
    BY <1>5 DEF SweepEnd
  <2>2. invoke_id_to_key'[i] = invoke_id_to_key[i]
    BY <1>5, <2>1 DEF SweepEnd, SweptMap
  <2> QED BY <1>0, <2>1, <2>2 DEF Tracked
<1> QED BY <1>0, <1>1, <1>2, <1>3, <1>4, <1>5 DEF WorkerNext, Handle

LEMMA StepTrack == ResetInv /\ LostOnlyByReset /\ [ResetNext]_allVars => LostOnlyByReset'
<1> SUFFICES ASSUME ResetInv, LostOnlyByReset, [ResetNext]_allVars PROVE LostOnlyByReset'
  OBVIOUS
<1> USE DEF ResetInv, ResetTypeOK
<1>1. ASSUME NEW r \in Readers, Reads(r) PROVE LostOnlyByReset'
  BY <1>1, ReadsKeepTrack
<1>2. CASE Works
  BY <1>2, WorksKeepsTrack
<1>3. CASE World
  <2>1. UNCHANGED <<reader, worker, invoke_id_to_key, abandoned>>
    BY <1>3
    DEF World, Environment, Lose, DeviceAnswers, DeviceChanges, Tick, resetVars
  <2>2. \A i \in InvokeIds : tsm'[i] # Free => tsm[i] # Free
    BY <1>3 DEF World, Environment, Lose, DeviceAnswers, DeviceChanges, Tick
  <2> QED BY <2>1, <2>2 DEF LostOnlyByReset, Tracked
<1>4. CASE ClearIds
  BY <1>4 DEF ClearIds, LostOnlyByReset, Tracked
<1>5. CASE ClearObjects
  BY <1>5 DEF ClearObjects, LostOnlyByReset, Tracked
<1>6. CASE (\E r \in Readers : Ensured(r)) \/ StopWorker \/ JoinWorker \/ ForgetDevices \/ ComeBack
           \/ UNCHANGED allVars
  <2>1. UNCHANGED <<vars, abandoned>>
    BY <1>6 DEF Ensured, StopWorker, JoinWorker, ForgetDevices, ComeBack, allVars, resetVars
  <2> QED BY <2>1 DEF vars, LostOnlyByReset, Tracked
<1> QED BY <1>1, <1>2, <1>3, <1>4, <1>5, <1>6 DEF ResetNext, Reset

(* For any number of threads, keys, ids and releases: an id that nobody    *)
(* will give back is one whose mapping a release has cleared.              *)
THEOREM IdsLostOnlyByReset == ResetSpec => []LostOnlyByReset
<1>1. ResetInit => LostOnlyByReset
  BY DEF ResetInit, Init, LostOnlyByReset
<1> QED BY <1>1, InitReset, StepReset, StepTrack, PTL DEF ResetSpec
-----------------------------------------------------------------------------
(***************************************************************************)
(* The batch read.  A key of which nothing is known stays Fresh: whatever  *)
(* it comes to hold, and whatever it may still be given, was read from the *)
(* device after the property's turn began.                                 *)
(***************************************************************************)
Fresh(k, v) ==
  /\ FloorInv(k, v + 1)
  /\ has_valid_cache(k) => object_states[k].cached_value.version >= v

OwnValues ==
  \A k \in Keys : has_valid_cache(k) => object_states[k].cached_value.key = k

(* What the batch is doing is what its thread is doing.                    *)
TurnInv ==
  /\ batch.pc # "read" => reader[Batcher].pc = "idle"
  /\ reader[Batcher].pc # "idle" => reader[Batcher].key = Property
  /\ (batch.pc # "idle" /\ turn.unknown) => Fresh(Property, turn.version)

BatchInv ==
  /\ BatchTypeOK /\ TableInv /\ RefineInv /\ StatusTellsPending
  /\ OwnValues /\ TurnInv /\ RefusalIsCurrent

LEMMA PropertyType ==
  ASSUME BatchTypeOK
  PROVE  /\ Property \in Keys /\ batch.index \in Indices
         /\ \A i \in Indices : Properties[i] \in Keys
         /\ 1 \in Indices /\ Len(Properties) \in Nat
<1>1. Properties \in Seq(Keys) /\ Properties # <<>> /\ batch.index \in Indices
  BY BatchAssumption DEF BatchTypeOK
<1>2. Len(Properties) \in Nat \ {0} /\ \A i \in 1..Len(Properties) : Properties[i] \in Keys
  BY <1>1
<1> QED BY <1>1, <1>2 DEF Property, Indices

(* Every step of the batch is a step of the read path, or leaves it alone. *)
LEMMA BatchIsRead == ASSUME BatchTypeOK, [BatchNext]_batchVars PROVE [Next]_vars
<1>1. CASE BatchReads
  <2>1. ReaderNext(Batcher)
    BY <1>1, PropertyType DEF BatchReads, ReaderNext
  <2> QED BY <2>1, BatchAssumption DEF Next
<1>2. CASE BatchApplyReply
  BY <1>2 DEF BatchApplyReply, Next, WorkerNext
<1>3. CASE Others
  BY <1>3 DEF Others, Next, WorkerNext
<1>4. CASE BeginBatch \/ Wake
  BY <1>4 DEF BeginBatch, Wake
<1>5. CASE UNCHANGED batchVars
  BY <1>5 DEF batchVars, vars
<1> QED BY <1>1, <1>2, <1>3, <1>4, <1>5 DEF BatchNext

LEMMA TurnType ==
  ASSUME BatchTypeOK, NEW k \in Keys
  PROVE  Turn(k) \in [unknown: BOOLEAN, version: Versions, refused: BOOLEAN]
<1>1. Unknown(k) \in BOOLEAN
  BY DEF Unknown
<1>2. device[k] \in Versions
  BY DEF BatchTypeOK, TypeOK
<1> QED BY <1>1, <1>2 DEF Turn

LEMMA NextPropertyType ==
  ASSUME BatchTypeOK, NextProperty
  PROVE  /\ batch' \in [pc: {"idle", "read", "sleep"}, index: Indices, attempt: 0..MaxTries - 1]
         /\ turn' \in [unknown: BOOLEAN, version: Versions, refused: BOOLEAN]
         /\ batch'.pc # "sleep"
<1>0. 0 \in 0..MaxTries - 1
  BY BatchAssumption
<1>1. CASE batch.index = Len(Properties)
  BY <1>0, <1>1, PropertyType DEF NextProperty, IdleBatch, BatchTypeOK
<1>2. CASE batch.index # Len(Properties)
  <2>1. batch.index + 1 \in Indices
    BY <1>2, PropertyType DEF Indices
  <2>2. Turn(Properties[batch.index + 1]) \in [unknown: BOOLEAN, version: Versions, refused: BOOLEAN]
    BY <2>1, PropertyType, TurnType
  <2> QED BY <1>0, <1>2, <2>1, <2>2 DEF NextProperty
<1> QED BY <1>1, <1>2

LEMMA StepBatchType ==
  ASSUME BatchTypeOK, [BatchNext]_batchVars
  PROVE  BatchTypeOK'
<1>0. TypeOK'
  BY BatchIsRead, StepType DEF BatchTypeOK
<1>1. CASE BeginBatch
  <2>1. Turn(Properties[1]) \in [unknown: BOOLEAN, version: Versions, refused: BOOLEAN]
    BY PropertyType, TurnType
  <2>2. NoField \in Values /\ 0 \in 0..MaxTries - 1
    BY BatchAssumption, ConstantsAssumption DEF NoField, NoValue, Values, Versions
  <2> QED BY <1>0, <1>1, <2>1, <2>2, PropertyType DEF BeginBatch, BatchTypeOK, IdleBatch
<1>2. CASE BatchReads
  <2>1. Stored(Property) \in Values
    <3>1. object_states[Property].cached_value \in Values
      BY PropertyType DEF BatchTypeOK, TypeOK, ObjectState
    <3>2. NoField \in Values
      BY ConstantsAssumption DEF NoField, NoValue, Values, Versions
    <3> QED BY <3>1, <3>2 DEF Stored
  <2>2. CASE UNCHANGED <<batch, fields, turn>>
    BY <1>0, <2>2 DEF BatchTypeOK
  <2>3. CASE fields' = [fields EXCEPT ![batch.index] = Stored(Property)]
             /\ NextProperty
    BY <1>0, <2>1, <2>3, NextPropertyType DEF BatchTypeOK
  <2>4. CASE batch' = [batch EXCEPT !.pc = "sleep"] /\ UNCHANGED <<fields, turn>>
    BY <1>0, <2>4 DEF BatchTypeOK
  <2>5. CASE NextProperty /\ UNCHANGED fields
    BY <1>0, <2>5, NextPropertyType DEF BatchTypeOK
  <2> QED BY <1>2, <2>2, <2>3, <2>4, <2>5 DEF BatchReads
<1>3. CASE Wake
  <2>1. CASE NextProperty
    BY <1>0, <1>3, <2>1, NextPropertyType DEF Wake, BatchTypeOK
  <2>2. CASE ~NextProperty
    <3>1. batch.attempt + 1 \in 0..MaxTries - 1
      BY <1>3, <2>2, BatchAssumption DEF Wake, BatchTypeOK
    <3>2. batch' = [batch EXCEPT !.pc = "read", !.attempt = @ + 1] /\ UNCHANGED <<turn, fields>>
      BY <1>3, <2>2 DEF Wake
    <3> QED BY <1>0, <3>1, <3>2 DEF BatchTypeOK
  <2> QED BY <2>1, <2>2
<1>4. CASE BatchApplyReply
  <2>1. Refuses \in BOOLEAN
    BY DEF Refuses
  <2> QED BY <1>0, <1>4, <2>1 DEF BatchApplyReply, BatchTypeOK
<1>5. CASE (Others /\ UNCHANGED <<batch, fields, turn>>) \/ UNCHANGED batchVars
  BY <1>0, <1>5 DEF BatchTypeOK, batchVars
<1> QED BY <1>1, <1>2, <1>3, <1>4, <1>5 DEF BatchNext

-----------------------------------------------------------------------------
(* Nothing is known of k, no id is its and no handler has its reply: the   *)
(* present value bounds from below whatever k may be given from now on.    *)
LEMMA FreshStart ==
  ASSUME TypeOK, NEW k \in Keys, Unknown(k)
  PROVE  Fresh(k, device[k])
<1>1. \A i \in InvokeIds : ~Owns(k, i)
  BY DEF Unknown, Unrequested, Owns, SentUnder
<1>2. ~(Handling /\ worker.key = k) /\ ~has_valid_cache(k)
  BY DEF Unknown, Unrequested, Handling
<1>3. FloorInv(k, device[k] + 1)
  BY <1>1, <1>2, NetType DEF FloorInv
<1> QED BY <1>2, <1>3 DEF Fresh

LEMMA FreshStep ==
  ASSUME TypeOK, TableInv, RefineInv, [Next]_vars,
         NEW k \in Keys, NEW v \in Nat, Fresh(k, v)
  PROVE  Fresh(k, v)'
<1>1. CASE UNCHANGED vars
  BY <1>1 DEF vars, Fresh, FloorInv, Owns, SentUnder, Handling, has_valid_cache
<1>2. CASE Next
  <2>1. v + 1 \in Nat /\ FloorInv(k, v + 1)
    BY DEF Fresh
  <2>2. FloorInv(k, v + 1)'
    BY <1>2, <2>1, FloorStep DEF RefineInv, SendsFresh
  <2>3. ASSUME has_valid_cache(k)' PROVE object_states'[k].cached_value.version >= v
    <3>1. CASE ApplyReply /\ k = worker.key /\ worker.reply.kind = "ack"
      <4>1. /\ object_states'[k].cached_value.version = worker.reply.version
            /\ Handling /\ worker.reply.version \in Nat
        BY <3>1, EntryOfHandler, NetType
      <4> QED BY <2>1, <3>1, <4>1 DEF FloorInv
    <3>2. CASE ~(ApplyReply /\ k = worker.key /\ worker.reply.kind = "ack")
      <4>1. object_states'[k].cached_value = object_states[k].cached_value
        BY <1>2, <3>2, EntryStep, EntryOfRecord, EntryOfHandler, EntryOfSweep DEF Kept
      <4> QED BY <2>3, <4>1 DEF Fresh, has_valid_cache
    <3> QED BY <3>1, <3>2
  <2> QED BY <2>2, <2>3 DEF Fresh
<1> QED BY <1>1, <1>2

LEMMA OwnValuesStep ==
  ASSUME TypeOK, TableInv, RefineInv, OwnValues, [Next]_vars
  PROVE  OwnValues'
<1> SUFFICES ASSUME NEW k \in Keys, has_valid_cache(k)'
             PROVE  object_states'[k].cached_value.key = k
  BY DEF OwnValues
<1>1. CASE UNCHANGED vars
  BY <1>1 DEF vars, OwnValues, has_valid_cache
<1>2. CASE Next /\ ApplyReply /\ k = worker.key /\ worker.reply.kind = "ack"
  <2>1. object_states'[k].cached_value.key = worker.reply.key /\ Handling
    BY <1>2, EntryOfHandler
  <2> QED BY <1>2, <2>1 DEF RefineInv, CurrentInv
<1>3. CASE Next /\ ~(ApplyReply /\ k = worker.key /\ worker.reply.kind = "ack")
  <2>1. object_states'[k].cached_value = object_states[k].cached_value
    BY <1>3, EntryStep, EntryOfRecord, EntryOfHandler, EntryOfSweep DEF Kept
  <2> QED BY <2>1 DEF OwnValues, has_valid_cache
<1> QED BY <1>1, <1>2, <1>3

(* The stages of the batch's own thread.                                   *)
LEMMA BatcherMoves ==
  ASSUME BatchTypeOK, BatchReads,
         reader[Batcher].pc # "idle" => reader[Batcher].key = Property
  PROVE  /\ Returns => reader'[Batcher] = IdleReader
         /\ ~Returns => reader'[Batcher].pc # "idle" /\ reader'[Batcher].key = Property
<1>t. reader \in [Readers -> ReaderStates] /\ Batcher \in Readers
  BY BatchAssumption DEF BatchTypeOK, TypeOK
<1>1. CASE ReadFromCache(Batcher, Property) \/ ReadStillPending(Batcher, Property)
  BY <1>t, <1>1 DEF ReadFromCache, ReadStillPending, Return, Returns, IdleReader
<1>2. CASE ReadStart(Batcher, Property)
  BY <1>t, <1>2 DEF ReadStart, Returns, IdleReader
<1>3. CASE SendRequest(Batcher)
  BY <1>t, <1>3, ReaderType DEF SendRequest, Returns, ReaderSends, BatchTypeOK
<1>4. CASE MapInvokeId(Batcher)
  BY <1>t, <1>4, ReaderType DEF MapInvokeId, Returns, ReaderRequests, BatchTypeOK
<1>5. CASE SendFails(Batcher) \/ RecordRequest(Batcher)
  BY <1>t, <1>5 DEF SendFails, RecordRequest, Return, Returns, IdleReader
<1> QED BY <1>1, <1>2, <1>3, <1>4, <1>5 DEF BatchReads, ReaderInside

(* A new turn begins fresh, the turn under way stays so.                   *)
LEMMA TurnStays ==
  ASSUME BatchInv, [BatchNext]_batchVars,
         batch'.index = batch.index, turn'.unknown = turn.unknown, turn'.version = turn.version,
         batch.pc # "idle", turn'.unknown
  PROVE  Fresh(Property, turn.version)'
<1>1. PICK q \in Keys, v \in Nat : q = Property /\ v = turn.version
  BY PropertyType, ConstantsAssumption DEF BatchInv, BatchTypeOK, Versions
<1>2. Fresh(q, v)
  BY <1>1 DEF BatchInv, TurnInv
<1>3. Fresh(q, v)'
  BY <1>2, BatchIsRead, FreshStep DEF BatchInv, BatchTypeOK
<1>4. Property' = q /\ turn'.version = v
  BY <1>1 DEF Property
<1> QED BY <1>3, <1>4 DEF Fresh, FloorInv, Owns, SentUnder, Handling, has_valid_cache

LEMMA TurnStarts ==
  ASSUME BatchInv, [BatchNext]_batchVars, NEW i \in Indices,
         batch'.index = i, turn' = Turn(Properties[i]), turn'.unknown
  PROVE  Fresh(Property, turn.version)'
<1>1. PICK q \in Keys, v \in Nat : q = Properties[i] /\ v = device[q]
  BY PropertyType, NetType DEF BatchInv, BatchTypeOK
<1>2. Unknown(q) /\ turn'.version = v
  BY <1>1 DEF Turn
<1>3. Fresh(q, v)
  BY <1>1, <1>2, FreshStart DEF BatchInv, BatchTypeOK
<1>4. Fresh(q, v)'
  BY <1>3, BatchIsRead, FreshStep DEF BatchInv, BatchTypeOK
<1>5. Property' = q
  BY <1>1 DEF Property
<1> QED BY <1>2, <1>4, <1>5 DEF Fresh, FloorInv, Owns, SentUnder, Handling, has_valid_cache

LEMMA NextTurn ==
  ASSUME BatchInv, [BatchNext]_batchVars, NextProperty, batch'.pc # "idle", turn'.unknown
  PROVE  Fresh(Property, turn.version)'
<1>1. batch.index # Len(Properties)
  BY DEF NextProperty, IdleBatch
<1>2. batch.index + 1 \in Indices
  BY <1>1, PropertyType DEF Indices, BatchInv
<1>3. batch'.index = batch.index + 1 /\ turn' = Turn(Properties[batch.index + 1])
  BY <1>1 DEF NextProperty
<1> QED BY <1>2, <1>3, TurnStarts

LEMMA TurnStep ==
  ASSUME BatchInv, [BatchNext]_batchVars
  PROVE  TurnInv'
<1> DEFINE FreshNext == (batch'.pc # "idle" /\ turn'.unknown) => Fresh(Property, turn.version)'
<1> USE DEF BatchInv
<1>1. CASE BeginBatch
  <2>1. FreshNext
    <3>1. batch'.index = 1 /\ turn' = Turn(Properties[1]) /\ 1 \in Indices
      BY <1>1, PropertyType DEF BeginBatch, IdleBatch
    <3> QED BY <3>1, TurnStarts
  <2>2. reader'[Batcher].pc = "idle"
    BY <1>1 DEF BeginBatch, TurnInv, vars
  <2> QED BY <2>1, <2>2 DEF TurnInv
<1>2. CASE BatchReads
  <2>1. /\ Returns => reader'[Batcher].pc = "idle"
        /\ ~Returns => reader'[Batcher].pc # "idle" /\ reader'[Batcher].key = Property
    BY <1>2, BatcherMoves DEF TurnInv, IdleReader
  <2>2. CASE NextProperty /\ Returns
    <3>1. FreshNext
      BY <2>2, NextTurn
    <3> QED BY <2>1, <2>2, <3>1 DEF TurnInv
  <2>3. CASE Returns /\ batch' = [batch EXCEPT !.pc = "sleep"] /\ UNCHANGED turn
    <3>1. batch'.pc = "sleep" /\ batch'.index = batch.index /\ batch.pc # "idle"
      BY <1>2, <2>3 DEF BatchReads, BatchTypeOK
    <3>2. FreshNext
      BY <2>3, <3>1, TurnStays
    <3> QED BY <2>1, <2>3, <3>1, <3>2 DEF TurnInv
  <2>4. CASE ~Returns /\ UNCHANGED <<batch, turn>>
    <3>1. batch'.pc = "read" /\ batch'.index = batch.index /\ batch.pc # "idle"
          /\ Property' = Property
      BY <1>2, <2>4 DEF BatchReads, Property
    <3>2. FreshNext
      BY <2>4, <3>1, TurnStays
    <3> QED BY <2>1, <2>4, <3>1, <3>2 DEF TurnInv
  <2> QED BY <1>2, <2>2, <2>3, <2>4 DEF BatchReads
<1>3. CASE Wake
  <2>1. reader'[Batcher].pc = "idle"
    BY <1>3 DEF Wake, TurnInv, vars
  <2>2. FreshNext
    <3>1. CASE NextProperty
      BY <3>1, NextTurn
    <3>2. CASE ~NextProperty
      <4>1. batch'.index = batch.index /\ UNCHANGED turn /\ batch.pc # "idle"
        BY <1>3, <3>2 DEF Wake, BatchTypeOK
      <4> QED BY <4>1, TurnStays
    <3> QED BY <3>1, <3>2
  <2> QED BY <2>1, <2>2 DEF TurnInv
<1>4. CASE /\ UNCHANGED batch /\ turn'.unknown = turn.unknown /\ turn'.version = turn.version
           /\ reader'[Batcher] = reader[Batcher]
  <2>1. FreshNext
    BY <1>4, TurnStays
  <2>2. Property' = Property
    BY <1>4 DEF Property
  <2> QED BY <1>4, <2>1, <2>2 DEF TurnInv
<1>5. CASE BatchApplyReply
  BY <1>4, <1>5 DEF BatchApplyReply, ApplyReply, BatchTypeOK
<1>6. CASE Others /\ UNCHANGED <<batch, fields, turn>>
  <2>1. ASSUME NEW r \in Readers \ {Batcher}, ReaderNext(r)
        PROVE  reader'[Batcher] = reader[Batcher]
    BY <2>1, ReaderMoves, BatchAssumption DEF BatchTypeOK
  <2>2. ASSUME NEW m \in net, Handle(m) PROVE UNCHANGED reader
    BY <2>2 DEF Handle, DropMalformed, DropUnmatched, DropUndecodable, TakeMapping, TakeRefused
  <2>3. ApplyRefused \/ SweepBegin \/ SweepEnd => UNCHANGED reader
    BY DEF ApplyRefused, SweepBegin, SweepEnd
  <2>4. Environment => UNCHANGED reader
    BY DEF Environment, Lose, DeviceAnswers, DeviceChanges, Tick
  <2>5. reader'[Batcher] = reader[Batcher]
    BY <1>6, <2>1, <2>2, <2>3, <2>4 DEF Others
  <2> QED BY <1>4, <1>6, <2>5
<1>7. CASE UNCHANGED batchVars
  BY <1>4, <1>7 DEF batchVars
<1> QED BY <1>1, <1>2, <1>3, <1>5, <1>6, <1>7 DEF BatchNext

(* Only a reply that says so makes a status UNSUPPORTED.                   *)
LEMMA OthersKeepStatus ==
  ASSUME TypeOK, Others, NEW k \in Keys, object_states'[k].status = "UNSUPPORTED"
  PROVE  object_states[k].status = "UNSUPPORTED"
<1>0. object_states[k] \in ObjectState
  BY DEF TypeOK
<1>1. CASE UNCHANGED object_states
  BY <1>1
<1>2. ASSUME NEW r \in Readers, RecordRequest(r) PROVE object_states[k].status = "UNSUPPORTED"
  <2>1. reader[r].key \in Keys
    BY <1>2, ReaderType DEF RecordRequest, ReaderRequests
  <2> QED BY <1>0, <1>2, <2>1 DEF RecordRequest, TypeOK, ObjectState
<1>3. CASE ApplyRefused
  <2>1. worker.key \in Keys
    BY <1>3, WorkerType DEF ApplyRefused, WorkerHandles
  <2> QED BY <1>0, <1>3, <2>1 DEF ApplyRefused, TypeOK, ObjectState
<1>4. CASE SweepEnd
  <2>1. Swept(k).status = "TIMEOUT"
    BY <1>0 DEF Swept, ObjectState
  <2>2. object_states'[k] = Swept(k) \/ object_states'[k] = object_states[k]
    BY <1>4 DEF SweepEnd
  <2> QED BY <2>1, <2>2
<1>5. CASE Tick
  BY <1>0, <1>5 DEF Tick, ObjectState
<1>6. ASSUME NEW r \in Readers, ReaderNext(r) PROVE object_states[k].status = "UNSUPPORTED"
  <2>1. ASSUME NEW q \in Keys, ReadFromCache(r, q) \/ ReadStillPending(r, q) \/ ReadStart(r, q)
        PROVE  UNCHANGED object_states
    BY <2>1 DEF ReadFromCache, ReadStillPending, ReadStart
  <2>2. CASE SendRequest(r) \/ SendFails(r) \/ MapInvokeId(r)
    BY <1>1, <2>2 DEF SendRequest, SendFails, MapInvokeId
  <2> QED BY <1>1, <1>2, <1>6, <2>1, <2>2 DEF ReaderNext, ReaderInside
<1>7. ASSUME NEW m \in net, Handle(m) PROVE UNCHANGED object_states
  BY <1>7 DEF Handle, DropMalformed, DropUnmatched, DropUndecodable, TakeMapping, TakeRefused
<1>8. CASE SweepBegin \/ (Environment /\ ~Tick)
  BY <1>1, <1>8 DEF SweepBegin, Environment, Lose, DeviceAnswers, DeviceChanges
<1> QED BY <1>1, <1>3, <1>4, <1>5, <1>6, <1>7, <1>8 DEF Others

(* The batch goes to sleep with a request under way.                       *)
LEMMA SleepsPending ==
  ASSUME BatchInv, BatchReads, Returns, returned'.rc = "NO_DATA"
  PROVE  object_states'[Property].status = "NO_DATA"
<1>0. /\ Property \in Keys /\ object_states[Property] \in ObjectState
      /\ Batcher \in Readers /\ TypeOK
      /\ reader[Batcher].pc # "idle" => reader[Batcher].key = Property
  BY PropertyType, BatchAssumption DEF BatchInv, BatchTypeOK, TypeOK, TurnInv
<1>1. CASE ReadFromCache(Batcher, Property)
  BY <1>1 DEF ReadFromCache, Return
<1>2. CASE ReadStillPending(Batcher, Property)
  BY <1>0, <1>2 DEF ReadStillPending, BatchInv, StatusTellsPending
<1>3. CASE ReadStart(Batcher, Property)
  BY <1>0, <1>3 DEF ReadStart, Returns, TypeOK, IdleReader
<1>4. CASE SendRequest(Batcher)
  BY <1>0, <1>4, ReaderType DEF SendRequest, Returns, TypeOK, ReaderSends
<1>5. CASE MapInvokeId(Batcher)
  BY <1>0, <1>5, ReaderType DEF MapInvokeId, Returns, TypeOK, ReaderRequests
<1>6. CASE SendFails(Batcher)
  BY <1>6 DEF SendFails, Return
<1>7. CASE RecordRequest(Batcher)
  BY <1>0, <1>7 DEF RecordRequest, TypeOK, ObjectState
<1> QED BY <1>1, <1>2, <1>3, <1>4, <1>5, <1>6, <1>7 DEF BatchReads, ReaderInside

LEMMA RefusalStep ==
  ASSUME BatchInv, [BatchNext]_batchVars
  PROVE  RefusalIsCurrent'
<1> SUFFICES ASSUME batch'.pc = "sleep", object_states'[Property'].status = "UNSUPPORTED"
             PROVE  turn'.refused
  BY DEF RefusalIsCurrent
<1> USE DEF BatchInv
<1>1. CASE BeginBatch
  BY <1>1 DEF BeginBatch, IdleBatch
<1>2. CASE BatchReads
  <2>1. ~NextProperty
    BY NextPropertyType
  <2>2. Returns /\ returned'.rc = "NO_DATA" /\ batch' = [batch EXCEPT !.pc = "sleep"]
    BY <1>2, <2>1 DEF BatchReads
  <2>3. Property' = Property
    BY <2>2 DEF Property, BatchTypeOK
  <2> QED BY <1>2, <2>2, <2>3, SleepsPending
<1>3. CASE Wake
  BY <1>3, NextPropertyType DEF Wake, BatchTypeOK
<1>4. CASE BatchApplyReply
  <2>1. Property' = Property /\ batch.pc = "sleep" /\ Property \in Keys
    BY <1>4, PropertyType DEF BatchApplyReply, Property
  <2>2. turn'.refused = (turn.refused \/ Refuses)
    BY <1>4 DEF BatchApplyReply, BatchTypeOK
  <2>3. CASE object_states[Property].status = "UNSUPPORTED"
    BY <2>1, <2>2, <2>3 DEF RefusalIsCurrent
  <2>4. CASE object_states[Property].status # "UNSUPPORTED"
    <3>1. object_states[Property] \in ObjectState
      BY <2>1 DEF BatchTypeOK, TypeOK
    <3>2. ApplyReply /\ worker.pc = "apply"
      BY <1>4 DEF BatchApplyReply, ApplyReply
    <3>3. object_states'[Property] =
            IF worker.key = Property THEN Applied(object_states[Property], worker.reply)
            ELSE object_states[Property]
      BY <2>1, <3>2 DEF ApplyReply, BatchTypeOK, TypeOK
    <3>4. worker.key = Property /\ Applied(object_states[Property], worker.reply).status = "UNSUPPORTED"
      BY <2>1, <2>4, <3>3
    <3>5. worker.reply.kind \in {"unstorable", "unsupported"}
      BY <3>1, <3>4 DEF Applied, ObjectState
    <3> QED BY <2>2, <3>2, <3>4, <3>5 DEF Refuses
  <2> QED BY <2>3, <2>4
<1>5. CASE Others /\ UNCHANGED <<batch, fields, turn>>
  <2>1. Property' = Property /\ batch.pc = "sleep" /\ Property \in Keys
    BY <1>5, PropertyType DEF Property
  <2> QED BY <1>5, <2>1, OthersKeepStatus DEF RefusalIsCurrent, BatchTypeOK
<1>6. CASE UNCHANGED batchVars
  BY <1>6 DEF batchVars, RefusalIsCurrent, Property
<1> QED BY <1>1, <1>2, <1>3, <1>4, <1>5, <1>6 DEF BatchNext

LEMMA InitBatch == BatchInit => BatchInv
<1> SUFFICES ASSUME BatchInit PROVE BatchInv
  OBVIOUS
<1>0. Init /\ TypeOK /\ TableInv /\ RefineInv
  BY InitType, InitTable, InitRefine DEF BatchInit
<1>1. BatchTypeOK
  <2>1. NoField \in Values /\ 0 \in 0..MaxTries - 1 /\ 0 \in Versions
    BY BatchAssumption, ConstantsAssumption DEF NoField, NoValue, Values, Versions
  <2>2. 1 \in Indices
    <3>1. Properties \in Seq(Keys) /\ Properties # <<>>
      BY BatchAssumption
    <3>2. Len(Properties) \in Nat \ {0}
      BY <3>1
    <3> QED BY <3>2 DEF Indices
  <2> QED BY <1>0, <2>1, <2>2 DEF BatchInit, BatchTypeOK, IdleBatch
<1>2. StatusTellsPending /\ OwnValues
  BY <1>0 DEF Init, StatusTellsPending, HasActiveRequest, NewObjectState, OwnValues, has_valid_cache
<1>3. TurnInv /\ RefusalIsCurrent
  BY <1>0, BatchAssumption
  DEF BatchInit, Init, TurnInv, RefusalIsCurrent, IdleReader, IdleBatch
<1> QED BY <1>0, <1>1, <1>2, <1>3 DEF BatchInv

LEMMA StepBatch == BatchInv /\ [BatchNext]_batchVars => BatchInv'
<1> SUFFICES ASSUME BatchInv, [BatchNext]_batchVars PROVE BatchInv'
  OBVIOUS
<1>1. [Next]_vars /\ TypeOK /\ TableInv /\ RefineInv /\ StatusTellsPending /\ OwnValues
  BY BatchIsRead DEF BatchInv, BatchTypeOK
<1>2. TableInv' /\ RefineInv' /\ StatusTellsPending' /\ OwnValues'
  BY <1>1, StepTable, StepRefine, StepStatus, OwnValuesStep
<1>3. BatchTypeOK'
  BY StepBatchType DEF BatchInv
<1>4. TurnInv' /\ RefusalIsCurrent'
  BY TurnStep, RefusalStep
<1> QED BY <1>2, <1>3, <1>4 DEF BatchInv

LEMMA BatchInvHolds == BatchSpec => []BatchInv
  BY InitBatch, StepBatch, PTL DEF BatchSpec

(* A batch never takes the refusal of an earlier request for the answer to *)
(* its own: it goes to sleep only when the status says NO_DATA.            *)
THEOREM RefusalHolds == BatchSpec => []RefusalIsCurrent
<1>1. BatchInv => RefusalIsCurrent
  BY DEF BatchInv
<1> QED BY <1>1, BatchInvHolds, PTL

(* What a batch stores is the property's own value; and where nothing was  *)
(* known it was read after the property's turn began, although a success   *)
(* is not tied to the request: for any number of readers, properties and   *)
(* attempts.                                                               *)
THEOREM UnknownFresh == BatchSpec => UnknownIsReadFresh
<1> DEFINE AllFresh ==
      \A i \in Indices : fields'[i] # fields[i] /\ fields'[i] # NoField =>
        /\ fields'[i].key = Properties[i]
        /\ turn.unknown => fields'[i].version >= turn.version
<1>1. ASSUME BatchInv, BatchNext PROVE AllFresh
  <2>0. fields \in [Indices -> Values]
    BY <1>1 DEF BatchInv, BatchTypeOK
  <2>1. CASE BeginBatch
    BY <2>1 DEF BeginBatch
  <2>2. CASE BatchReads
    <3>1. CASE UNCHANGED fields
      BY <3>1
    <3>2. CASE fields' = [fields EXCEPT ![batch.index] = Stored(Property)]
      <4> SUFFICES ASSUME NEW i \in Indices, fields'[i] # fields[i], fields'[i] # NoField
                   PROVE  /\ fields'[i].key = Properties[i]
                          /\ turn.unknown => fields'[i].version >= turn.version
        OBVIOUS
      <4>1. i = batch.index /\ fields'[i] = object_states[Property].cached_value
        BY <2>0, <3>2 DEF Stored
      <4>2. Property = Properties[i] /\ Property \in Keys /\ has_valid_cache(Property)
        BY <1>1, <4>1, PropertyType DEF Property, BatchInv, has_valid_cache, NoField
      <4>3. object_states[Property].cached_value.key = Property
        BY <1>1, <4>2 DEF BatchInv, OwnValues
      <4>4. turn.unknown => object_states[Property].cached_value.version >= turn.version
        BY <1>1, <2>2, <4>2 DEF BatchInv, TurnInv, BatchReads, Fresh
      <4> QED BY <4>1, <4>2, <4>3, <4>4
    <3> QED BY <2>2, <3>1, <3>2 DEF BatchReads
  <2>3. CASE Wake \/ BatchApplyReply \/ (Others /\ UNCHANGED <<batch, fields, turn>>)
    BY <2>3 DEF Wake, BatchApplyReply
  <2> QED BY <1>1, <2>1, <2>2, <2>3 DEF BatchNext
<1>2. BatchInv /\ [BatchNext]_batchVars => [AllFresh]_batchVars
  BY <1>1
<1> QED BY <1>2, BatchInvHolds, PTL DEF BatchSpec, UnknownIsReadFresh
=============================================================================
