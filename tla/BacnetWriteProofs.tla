--------------------------- MODULE BacnetWriteProofs ---------------------------
(***************************************************************************)
(* Proofs about BacnetWrite for any number of callers, invoke ids and PDUs *)
(* in flight, and any timeouts.                                            *)
(***************************************************************************)
EXTENDS BacnetWrite, TLAPS

(* Only the owner of operation_mutex is inside a call.                     *)
LockInv == \A c \in Callers : caller[c].pc # "idle" => operation_mutex = c

(***************************************************************************)
(* What holds of an undisturbed id: who holds it agrees with what the      *)
(* stack keeps it for, the PDUs that carry it belong to that transaction,  *)
(* and a handler frees it only while it is in use.                         *)
(***************************************************************************)
Owned(i) ==
  /\ Pending(i) => tsm[i] = "write" /\ i \notin invoke_id_to_key /\ ~Unnoted(i) /\ ~Frees(i)
  /\ i \in invoke_id_to_key => tsm[i] = "read" /\ ~Unnoted(i) /\ ~Frees(i)
  /\ \A c \in Callers : Notes(c, i) => tsm[i] = caller[c].use /\ ~Frees(i)
  /\ \A m \in net : m.id = i /\ tsm[i] # "free" => m.use = tsm[i]
  /\ Frees(i) => tsm[i] # "free"

OwnInv == \A i \in InvokeIds \ disturbed : Owned(i)

-----------------------------------------------------------------------------
LEMMA AgesGrow ==
  /\ MaxAge \in Nat /\ 0 \in Ages /\ 0 \in 0..MaxDelay
  /\ \A a \in Ages : Older(a) \in Ages
  BY ConstantsAssumption DEF MaxAge, MaxDelay, Ages, Older

LEMMA CallerShapes ==
  ASSUME TypeOK, NEW c \in Callers
  PROVE  /\ caller[c].pc = "idle" => caller[c] = IdleCaller
         /\ caller[c].pc = "send" => caller[c] \in CallerSends
         /\ caller[c].pc = "note" => caller[c] \in CallerNotes
<1>1. caller[c] \in {IdleCaller} \cup CallerSends \cup CallerNotes
  BY DEF TypeOK
<1> QED
  BY <1>1 DEF IdleCaller, CallerSends, CallerNotes

LEMMA WorkerShapes ==
  ASSUME TypeOK
  PROVE  /\ worker.pc = "receive" => worker = IdleWorker
         /\ worker.pc = "free" => worker \in WorkerFrees
         /\ worker.pc = "sweep" => worker \in WorkerSweeps
<1>1. worker \in {IdleWorker} \cup WorkerFrees \cup WorkerSweeps
  BY DEF TypeOK
<1> QED
  BY <1>1 DEF IdleWorker, WorkerFrees, WorkerSweeps

-----------------------------------------------------------------------------
(* The steps preserve the types.                                           *)
LEMMA CallerType ==
  ASSUME TypeOK, NEW c \in Callers, CallerNext(c)
  PROVE  TypeOK'
<1> USE DEF TypeOK
<1>1. ASSUME NEW use \in Uses, NEW t \in Timeouts, Begin(c, use, t)
      PROVE  TypeOK'
  BY <1>1 DEF Begin, CallerSends
<1>2. CASE SendRequest(c)
  <2>1. caller[c] \in CallerSends
    BY <1>2, CallerShapes DEF SendRequest
  <2>2. PICK i \in InvokeIds :
          /\ tsm' = [tsm EXCEPT ![i] = caller[c].use]
          /\ net' = Sent([id |-> i, use |-> caller[c].use, kind |-> "request"])
          /\ caller' = [caller EXCEPT ![c] = [pc |-> "note", use |-> caller[c].use,
                                               timeout |-> caller[c].timeout, id |-> i]]
          /\ disturbed' = disturbed \cup {j \in {i} : \E m \in net : m.id = j}
    BY <1>2 DEF SendRequest
  <2>3. caller[c].use \in Uses /\ caller[c].timeout \in Timeouts
    BY <2>1 DEF CallerSends
  <2>4. [pc |-> "note", use |-> caller[c].use, timeout |-> caller[c].timeout, id |-> i]
          \in CallerNotes
    BY <2>3 DEF CallerNotes
  <2>5. caller' \in [Callers -> {IdleCaller} \cup CallerSends \cup CallerNotes]
    BY <2>2, <2>4
  <2>6. net' \subseteq Pdus
    BY <2>2, <2>3 DEF Sent, Pdus
  <2>7. tsm' \in [InvokeIds -> Uses \cup {"free"}] /\ disturbed' \subseteq InvokeIds
    BY <2>2, <2>3
  <2> QED
    BY <1>2, <2>5, <2>6, <2>7 DEF SendRequest
<1>3. CASE SendFails(c)
  BY <1>3 DEF SendFails, Return
<1>4. CASE NoteWrite(c)
  <2>1. caller[c].id \in InvokeIds /\ caller[c].timeout \in Timeouts
    BY <1>4, CallerShapes DEF NoteWrite, CallerNotes
  <2>2. [age |-> 0, timeout |-> caller[c].timeout] \in Item
    BY <2>1, AgesGrow DEF Item
  <2> QED
    BY <1>4, <2>2 DEF NoteWrite, Return
<1>5. CASE NoteRead(c)
  <2>1. caller[c].id \in InvokeIds
    BY <1>5, CallerShapes DEF NoteRead, CallerNotes
  <2> QED
    BY <1>5, <2>1 DEF NoteRead, Return
<1> QED
  BY <1>1, <1>2, <1>3, <1>4, <1>5 DEF CallerNext, CallerInside

LEMMA HandleType ==
  ASSUME TypeOK, NEW m \in net, Handle(m)
  PROVE  TypeOK'
<1>1. m.id \in InvokeIds
  BY DEF TypeOK, Pdus
<1>2. worker' \in WorkerFrees /\ net' \subseteq net
  BY <1>1 DEF Handle, HandleWriteAck, HandleReadAck, HandleMalformedAck, HandleReadError,
     HandleWriteError, HandleRefusal, Receive, WorkerFrees
<1>3. write_pending_map' \in [InvokeIds -> Item \cup {NoItem}]
  BY DEF Handle, HandleWriteAck, HandleReadAck, HandleMalformedAck, HandleReadError,
     HandleWriteError, HandleRefusal, ErasePending, TypeOK
<1>4. /\ invoke_id_to_key' \subseteq InvokeIds
      /\ disturbed' \subseteq InvokeIds
      /\ UNCHANGED <<operation_mutex, caller, tsm>>
  BY <1>1 DEF Handle, HandleWriteAck, HandleReadAck, HandleMalformedAck, HandleReadError,
     HandleWriteError, HandleRefusal, Untimely, TypeOK
<1> QED
  BY <1>2, <1>3, <1>4 DEF TypeOK

LEMMA WorkerType ==
  ASSUME TypeOK, SweepReads \/ WorkerInside
  PROVE  TypeOK'
<1> USE DEF TypeOK
<1>1. CASE SweepReads
  <2>1. [pc |-> "sweep", since |-> 0] \in WorkerSweeps
    BY AgesGrow DEF WorkerSweeps
  <2> QED
    BY <1>1, <2>1 DEF SweepReads, Released
<1>2. CASE FreeInvokeId
  BY <1>2 DEF FreeInvokeId
<1>3. CASE SweepWrites
  BY <1>3 DEF SweepWrites, Released
<1> QED
  BY <1>1, <1>2, <1>3 DEF WorkerInside

LEMMA EnvironmentType ==
  ASSUME TypeOK, Environment
  PROVE  TypeOK'
<1> USE DEF TypeOK
<1>1. ASSUME NEW m \in net, NEW kind \in Replies, DeviceAnswers(m, kind)
      PROVE  TypeOK'
  <2>1. [m EXCEPT !.kind = kind] \in Pdus
    BY <1>1 DEF Pdus
  <2> QED
    BY <1>1, <2>1 DEF DeviceAnswers, Sent
<1>2. ASSUME NEW m \in net, Lose(m)
      PROVE  TypeOK'
  BY <1>2 DEF Lose
<1>3. CASE Tick
  <2>1. \A i \in InvokeIds : Pending(i) => Aged(write_pending_map[i]) \in Item
    BY AgesGrow DEF Pending, Aged, Item
  <2>2. write_pending_map' \in [InvokeIds -> Item \cup {NoItem}]
    BY <1>3, <2>1 DEF Tick
  <2>3. worker.pc = "sweep" => [worker EXCEPT !.since = @ + 1] \in WorkerSweeps
    BY <1>3, WorkerShapes DEF Tick, WorkerSweeps, MaxDelay
  <2>4. worker' \in {IdleWorker} \cup WorkerFrees \cup WorkerSweeps
    BY <1>3, <2>3 DEF Tick
  <2> QED
    BY <1>3, <2>2, <2>4 DEF Tick
<1> QED
  BY <1>1, <1>2, <1>3 DEF Environment

LEMMA NextType ==
  ASSUME TypeOK, [Next]_vars
  PROVE  TypeOK'
<1>1. CASE UNCHANGED vars
  BY <1>1 DEF vars, TypeOK
<1> QED
  BY <1>1, CallerType, HandleType, WorkerType, EnvironmentType DEF Next, WorkerNext

(* The types of the module hold in every reachable state.                  *)
THEOREM TypeCorrect == Spec => []TypeOK
<1>1. Init => TypeOK
  BY DEF Init, TypeOK
<1> QED
  BY <1>1, NextType, PTL DEF Spec

-----------------------------------------------------------------------------
(* What a step of one caller, a handler, the worker and the environment    *)
(* leave alone.                                                            *)
LEMMA CallerFrame ==
  ASSUME TypeOK, NEW c \in Callers, CallerNext(c)
  PROVE  /\ UNCHANGED worker
         /\ \A d \in Callers \ {c} : caller'[d] = caller[d]
         /\ operation_mutex \in {c, Nobody} \/ caller[c].pc # "idle"
  BY DEF CallerNext, CallerInside, Begin, SendRequest, SendFails, NoteWrite, NoteRead,
     Return, TypeOK

LEMMA HandleFrame ==
  ASSUME TypeOK, NEW m \in net, Handle(m)
  PROVE  /\ m.id \in InvokeIds /\ m.use \in Uses
         /\ worker.pc = "receive" /\ worker' = [pc |-> "free", id |-> m.id]
         /\ net' = net \ {m}
         /\ UNCHANGED <<operation_mutex, caller, tsm>>
         /\ disturbed \cup Untimely(m) \subseteq disturbed'
         /\ invoke_id_to_key' \subseteq invoke_id_to_key
         /\ \A i \in InvokeIds : write_pending_map'[i] \in {write_pending_map[i], NoItem}
         /\ \A i \in InvokeIds \ {m.id} :
              /\ write_pending_map'[i] = write_pending_map[i]
              /\ i \in invoke_id_to_key' <=> i \in invoke_id_to_key
<1>1. m.id \in InvokeIds /\ m.use \in Uses
  BY DEF TypeOK, Pdus
<1>2. /\ worker.pc = "receive" /\ worker' = [pc |-> "free", id |-> m.id]
      /\ net' = net \ {m}
      /\ UNCHANGED <<operation_mutex, caller, tsm>>
  BY DEF Handle, HandleWriteAck, HandleReadAck, HandleMalformedAck, HandleReadError,
     HandleWriteError, HandleRefusal, Receive
<1>3. disturbed \cup Untimely(m) \subseteq disturbed'
  BY <1>1 DEF Handle, HandleWriteAck, HandleReadAck, HandleMalformedAck, HandleReadError,
     HandleWriteError, HandleRefusal, Untimely
<1>4. /\ invoke_id_to_key' \subseteq invoke_id_to_key
      /\ \A i \in InvokeIds \ {m.id} : i \in invoke_id_to_key' <=> i \in invoke_id_to_key
  BY DEF Handle, HandleWriteAck, HandleReadAck, HandleMalformedAck, HandleReadError,
     HandleWriteError, HandleRefusal
<1>5. /\ \A i \in InvokeIds : write_pending_map'[i] \in {write_pending_map[i], NoItem}
      /\ \A i \in InvokeIds \ {m.id} : write_pending_map'[i] = write_pending_map[i]
  BY <1>1 DEF Handle, HandleWriteAck, HandleReadAck, HandleMalformedAck, HandleReadError,
     HandleWriteError, HandleRefusal, ErasePending, TypeOK
<1> QED
  BY <1>1, <1>2, <1>3, <1>4, <1>5

LEMMA WorkerFrame ==
  ASSUME TypeOK, SweepReads \/ WorkerInside \/ Environment
  PROVE  UNCHANGED <<operation_mutex, caller>>
  BY DEF SweepReads, WorkerInside, FreeInvokeId, SweepWrites, Environment, DeviceAnswers,
     Lose, Tick

LEMMA NextLock ==
  ASSUME TypeOK, LockInv, [Next]_vars
  PROVE  LockInv'
<1>1. ASSUME NEW c \in Callers, CallerNext(c)
      PROVE  LockInv'
  <2>1. CASE \E use \in Uses, t \in Timeouts : Begin(c, use, t)
    BY <2>1, ConstantsAssumption DEF Begin, LockInv, TypeOK
  <2>2. CASE SendRequest(c)
    BY <2>2 DEF SendRequest, LockInv, TypeOK
  <2>3. CASE SendFails(c) \/ NoteWrite(c) \/ NoteRead(c)
    BY <2>3, ConstantsAssumption
    DEF SendFails, NoteWrite, NoteRead, Return, LockInv, TypeOK, IdleCaller
  <2> QED
    BY <1>1, <2>1, <2>2, <2>3 DEF CallerNext, CallerInside
<1>2. ASSUME NEW m \in net, Handle(m)
      PROVE  LockInv'
  BY <1>2, HandleFrame DEF LockInv
<1>3. CASE SweepReads \/ WorkerInside \/ Environment
  BY <1>3, WorkerFrame DEF LockInv
<1>4. CASE UNCHANGED vars
  BY <1>4 DEF vars, LockInv
<1> QED
  BY <1>1, <1>2, <1>3, <1>4 DEF Next, WorkerNext

-----------------------------------------------------------------------------
(* No id of a write leaks.  Inductive is that the caller about to note it  *)
(* notes a write: a read noted under the id would not keep it.             *)
WriteIsTracked ==
  \A i \in InvokeIds : tsm[i] = "write" =>
    \/ Pending(i) \/ Frees(i)
    \/ \E c \in Callers : Notes(c, i) /\ caller[c].use = "write"

LEMMA NextTracked ==
  ASSUME TypeOK, WriteIsTracked, [Next]_vars
  PROVE  WriteIsTracked'
<1> DEFINE Tracked(i) == \/ Pending(i) \/ Frees(i)
                        \/ \E c \in Callers : Notes(c, i) /\ caller[c].use = "write"
<1> SUFFICES ASSUME NEW i \in InvokeIds, tsm'[i] = "write"
             PROVE  Tracked(i)'
  BY DEF WriteIsTracked
<1>0. tsm[i] = "write" => Tracked(i)
  BY DEF WriteIsTracked
<1>1. ASSUME NEW c \in Callers, CallerNext(c)
      PROVE  Tracked(i)'
  <2> USE DEF Pending, Notes, Frees
  <2>1. CASE SendRequest(c)
    BY <1>0, <2>1 DEF SendRequest, TypeOK
  <2>2. CASE NoteWrite(c)
    <3>1. [age |-> 0, timeout |-> caller[c].timeout] \in Item
      BY <2>2, CallerShapes, AgesGrow DEF NoteWrite, CallerNotes, Item
    <3> QED
      BY <1>0, <2>2, <3>1 DEF NoteWrite, Return, TypeOK
  <2>3. CASE NoteRead(c)
    BY <1>0, <2>3 DEF NoteRead, Return, TypeOK
  <2>4. CASE SendFails(c) \/ \E use \in Uses, t \in Timeouts : Begin(c, use, t)
    BY <1>0, <2>4 DEF SendFails, Return, Begin, TypeOK
  <2> QED
    BY <1>1, <2>1, <2>2, <2>3, <2>4 DEF CallerNext, CallerInside
<1>2. ASSUME NEW m \in net, Handle(m)
      PROVE  Tracked(i)'
  BY <1>0, <1>2, HandleFrame DEF Pending, Notes, Frees
<1>3. CASE SweepReads \/ SweepWrites
  <2>1. CASE SweepReads
    <3>1. tsm[i] = "write" /\ UNCHANGED <<write_pending_map, caller>> /\ worker.pc = "receive"
      BY <2>1 DEF SweepReads, Released
    <3> QED
      BY <1>0, <3>1 DEF Pending, Notes, Frees
  <2>2. CASE SweepWrites
    <3>1. tsm[i] = "write" /\ ~Expired(i) /\ UNCHANGED caller /\ worker.pc = "sweep"
      BY <2>2 DEF SweepWrites, Released
    <3>2. write_pending_map'[i] = write_pending_map[i]
      BY <2>2, <3>1 DEF SweepWrites
    <3> QED
      BY <1>0, <3>1, <3>2 DEF Pending, Notes, Frees
  <2> QED
    BY <1>3, <2>1, <2>2
<1>4. CASE FreeInvokeId
  BY <1>0, <1>4 DEF FreeInvokeId, Pending, Notes, Frees, TypeOK
<1>5. CASE Environment
  <2>1. Pending(i) => Pending(i)'
    <3>1. CASE Tick
      <4>1. Pending(i) => write_pending_map'[i] = Aged(write_pending_map[i])
        BY <3>1 DEF Tick
      <4>2. Pending(i) => Aged(write_pending_map[i]) \in Item
        BY AgesGrow DEF Pending, Aged, Item
      <4> QED
        BY <4>1, <4>2 DEF Pending
    <3>2. CASE ~Tick
      BY <1>5, <3>2 DEF Environment, DeviceAnswers, Lose, Pending
    <3> QED
      BY <3>1, <3>2
  <2>2. /\ UNCHANGED <<caller, tsm>>
        /\ worker.pc = "free" => UNCHANGED worker
    BY <1>5 DEF Environment, DeviceAnswers, Lose, Tick
  <2> QED
    BY <1>0, <2>1, <2>2 DEF Notes, Frees
<1>6. CASE UNCHANGED vars
  BY <1>0, <1>6 DEF vars, Pending, Notes, Frees
<1> QED
  BY <1>1, <1>2, <1>3, <1>4, <1>5, <1>6 DEF Next, WorkerNext, WorkerInside

(* As long as the stack keeps a transaction for a write, its entry is      *)
(* there to be found, or about to be, or the id is about to be freed.      *)
THEOREM NoIdLeaks == Spec => []BusyIsTracked
<1>1. Init => TypeOK /\ WriteIsTracked
  BY DEF Init, TypeOK, WriteIsTracked
<1>2. WriteIsTracked => BusyIsTracked
  BY DEF WriteIsTracked, BusyIsTracked, Unnoted
<1> QED
  BY <1>1, <1>2, NextType, NextTracked, PTL DEF Spec

-----------------------------------------------------------------------------
(* The steps that keep an undisturbed id owned.                            *)
LEMMA CallerOwned ==
  ASSUME TypeOK, LockInv, NEW c \in Callers, CallerNext(c),
         NEW i \in InvokeIds \ disturbed', i \in InvokeIds \ disturbed => Owned(i)
  PROVE  Owned(i)'
<1> USE DEF Pending, Unnoted, Notes, Frees
<1>0. i \notin disturbed /\ Owned(i)
  BY DEF CallerNext, CallerInside, Begin, SendRequest, SendFails, NoteWrite, NoteRead
<1>1. CASE SendRequest(c)
  <2>1. PICK j \in InvokeIds :
          /\ tsm[j] = "free"
          /\ tsm' = [tsm EXCEPT ![j] = caller[c].use]
          /\ net' = Sent([id |-> j, use |-> caller[c].use, kind |-> "request"])
          /\ caller' = [caller EXCEPT ![c] = [pc |-> "note", use |-> caller[c].use,
                                               timeout |-> caller[c].timeout, id |-> j]]
          /\ disturbed' = disturbed \cup {k \in {j} : \E m \in net : m.id = k}
    BY <1>1 DEF SendRequest
  <2>2. /\ caller[c].pc = "send"
        /\ UNCHANGED <<write_pending_map, invoke_id_to_key, worker>>
    BY <1>1 DEF SendRequest
  <2>3. /\ \A d \in Callers : Notes(d, i)' => Notes(d, i) \/ (d = c /\ i = j)
        /\ \A d \in Callers \ {c} : caller'[d] = caller[d]
        /\ caller'[c].use = caller[c].use
    BY <2>1, <2>2 DEF TypeOK
  <2>4. \A m \in net' : m \in net \/ (m.id = j /\ m.use = caller[c].use)
    BY <2>1 DEF Sent
  <2>5. CASE i = j
    <3>1. ~Pending(i) /\ i \notin invoke_id_to_key /\ ~Frees(i)
      BY <1>0, <2>1, <2>5 DEF Owned
    <3>2. \A d \in Callers : ~Notes(d, i)
      <4> SUFFICES ASSUME NEW d \in Callers, Notes(d, i) PROVE FALSE
        OBVIOUS
      <4>1. caller[d].use \in Uses
        BY CallerShapes DEF CallerNotes
      <4> QED
        BY <1>0, <2>1, <2>5, <4>1 DEF Owned, Uses
    <3>3. \A m \in net : m.id # i
      BY <2>1, <2>5
    <3>4. tsm'[i] = caller[c].use
      BY <2>1, <2>5 DEF TypeOK
    <3>5. caller[c].use # "free"
      BY <2>2, CallerShapes DEF CallerSends, Uses
    <3> QED
      BY <2>2, <2>3, <2>4, <2>5, <3>1, <3>2, <3>3, <3>4, <3>5 DEF Owned
  <2>6. CASE i # j
    BY <1>0, <2>1, <2>2, <2>3, <2>4, <2>6 DEF Owned, TypeOK
  <2> QED
    BY <2>5, <2>6
<1>2. CASE NoteWrite(c) \/ NoteRead(c)
  <2>1. /\ caller[c].pc = "note" /\ operation_mutex = c
        /\ \A d \in Callers : ~Notes(d, i)'
        /\ \A d \in Callers \ {c} : ~Notes(d, i)
        /\ UNCHANGED <<worker, tsm, net, disturbed>>
    BY <1>2 DEF NoteWrite, NoteRead, Return, LockInv, TypeOK, IdleCaller
  <2>2. CASE Notes(c, i)
    <3>1. ~Pending(i) /\ i \notin invoke_id_to_key /\ tsm[i] = caller[c].use /\ ~Frees(i)
      BY <1>0, <2>2 DEF Owned
    <3>2. CASE NoteWrite(c)
      BY <1>0, <2>1, <3>1, <3>2 DEF Owned, NoteWrite
    <3>3. CASE NoteRead(c)
      BY <1>0, <2>1, <3>1, <3>3 DEF Owned, NoteRead
    <3> QED
      BY <1>2, <3>2, <3>3
  <2>3. CASE ~Notes(c, i)
    <3>1. /\ Pending(i)' <=> Pending(i)
          /\ i \in invoke_id_to_key' <=> i \in invoke_id_to_key
      BY <1>2, <2>1, <2>3 DEF NoteWrite, NoteRead, TypeOK
    <3> QED
      BY <1>0, <2>1, <2>3, <3>1 DEF Owned
  <2> QED
    BY <2>2, <2>3
<1>3. CASE SendFails(c) \/ \E use \in Uses, t \in Timeouts : Begin(c, use, t)
  <2>1. /\ \A d \in Callers : Notes(d, i)' => Notes(d, i) /\ caller'[d] = caller[d]
        /\ UNCHANGED <<write_pending_map, invoke_id_to_key, worker, tsm, net>>
    BY <1>3 DEF SendFails, Return, Begin, TypeOK, IdleCaller
  <2> QED
    BY <1>0, <2>1 DEF Owned
<1> QED
  BY <1>1, <1>2, <1>3 DEF CallerNext, CallerInside

LEMMA HandleOwned ==
  ASSUME TypeOK, NEW m \in net, Handle(m),
         NEW i \in InvokeIds \ disturbed', i \in InvokeIds \ disturbed => Owned(i)
  PROVE  Owned(i)'
<1> USE DEF Pending, Unnoted, Notes, Frees
<1>0. i \notin disturbed /\ Owned(i)
  BY HandleFrame
<1>1. CASE i = m.id
  <2>1. tsm[i] # "free" /\ ~Unnoted(i) /\ m.use = tsm[i]
    BY <1>0, <1>1, HandleFrame DEF Untimely, Owned
  <2>2. ~Pending(i)' /\ i \notin invoke_id_to_key'
    BY <1>0, <1>1, <2>1, ItemAssumption
    DEF Handle, HandleWriteAck, HandleReadAck, HandleMalformedAck, HandleReadError,
        HandleWriteError, HandleRefusal, Receive, ErasePending, Owned, TypeOK
  <2> QED
    BY <1>0, <2>1, <2>2, HandleFrame DEF Owned
<1>2. CASE i # m.id
  BY <1>0, <1>2, HandleFrame DEF Owned
<1> QED
  BY <1>1, <1>2

LEMMA WorkerOwned ==
  ASSUME TypeOK, SweepReads \/ WorkerInside,
         NEW i \in InvokeIds \ disturbed', i \in InvokeIds \ disturbed => Owned(i)
  PROVE  Owned(i)'
<1> USE DEF Pending, Unnoted, Notes, Frees
<1>0. i \notin disturbed /\ Owned(i)
  BY DEF SweepReads, WorkerInside, FreeInvokeId, SweepWrites
<1>1. CASE FreeInvokeId
  <2>1. CASE worker.id = i
    <3>1. ~Pending(i) /\ i \notin invoke_id_to_key /\ \A c \in Callers : ~Notes(c, i)
      BY <1>0, <1>1, <2>1 DEF FreeInvokeId, Owned
    <3> QED
      BY <1>1, <2>1, <3>1 DEF FreeInvokeId, Owned, IdleWorker, TypeOK
  <2>2. CASE worker.id # i
    BY <1>0, <1>1, <2>2 DEF FreeInvokeId, Owned, IdleWorker, TypeOK
  <2> QED
    BY <2>1, <2>2
<1>2. CASE SweepReads
  <2>1. PICK stale \in SUBSET invoke_id_to_key :
          Released(stale) /\ invoke_id_to_key' = invoke_id_to_key \ stale
    BY <1>2 DEF SweepReads
  <2>2. /\ ~Frees(i) /\ ~Frees(i)'
        /\ UNCHANGED <<write_pending_map, caller, net>>
    BY <1>2 DEF SweepReads
  <2>3. CASE i \in stale
    BY <1>0, <2>1, <2>2, <2>3 DEF Released, Owned
  <2>4. CASE i \notin stale
    BY <1>0, <2>1, <2>2, <2>4 DEF Released, Owned
  <2> QED
    BY <2>3, <2>4
<1>3. CASE SweepWrites
  <2>1. /\ ~Frees(i) /\ ~Frees(i)'
        /\ UNCHANGED <<invoke_id_to_key, caller, net>>
    BY <1>3 DEF SweepWrites, IdleWorker
  <2>2. CASE Expired(i)
    BY <1>0, <1>3, <2>1, <2>2, ItemAssumption DEF SweepWrites, Released, Expired, Owned
  <2>3. CASE ~Expired(i)
    BY <1>0, <1>3, <2>1, <2>3 DEF SweepWrites, Released, Owned
  <2> QED
    BY <2>2, <2>3
<1> QED
  BY <1>1, <1>2, <1>3 DEF WorkerInside

LEMMA EnvironmentOwned ==
  ASSUME TypeOK, Environment,
         NEW i \in InvokeIds \ disturbed', i \in InvokeIds \ disturbed => Owned(i)
  PROVE  Owned(i)'
<1> USE DEF Pending, Unnoted, Notes, Frees
<1>0. /\ i \notin disturbed /\ Owned(i)
      /\ UNCHANGED <<invoke_id_to_key, caller, tsm>>
  BY DEF Environment, DeviceAnswers, Lose, Tick
<1>3. Frees(i)' <=> Frees(i)
  <2>1. CASE Tick /\ worker.pc = "sweep"
    BY <2>1, WorkerShapes DEF Tick, WorkerSweeps
  <2>2. CASE ~(Tick /\ worker.pc = "sweep")
    BY <2>2 DEF Environment, DeviceAnswers, Lose, Tick
  <2> QED
    BY <2>1, <2>2
<1>1. Pending(i)' => Pending(i)
  BY DEF Environment, DeviceAnswers, Lose, Tick
<1>2. \A m \in net' : \E n \in net : m.id = n.id /\ m.use = n.use
  <2>1. ASSUME NEW n \in net, NEW kind \in Replies, DeviceAnswers(n, kind)
        PROVE  \A m \in net' : m \in net \/ (m.id = n.id /\ m.use = n.use)
    <3>1. [n EXCEPT !.kind = kind].id = n.id /\ [n EXCEPT !.kind = kind].use = n.use
      BY DEF TypeOK, Pdus
    <3> QED
      BY <2>1, <3>1 DEF DeviceAnswers, Sent
  <2> QED
    BY <2>1 DEF Environment, Lose, Tick
<1> QED
  BY <1>0, <1>1, <1>2, <1>3 DEF Owned

LEMMA NextOwn ==
  ASSUME TypeOK, LockInv, OwnInv, [Next]_vars
  PROVE  OwnInv'
<1> SUFFICES ASSUME NEW i \in InvokeIds \ disturbed'
             PROVE  Owned(i)'
  BY DEF OwnInv
<1>0. i \in InvokeIds \ disturbed => Owned(i)
  BY DEF OwnInv
<1>1. CASE UNCHANGED vars
  BY <1>0, <1>1 DEF vars, Owned, Pending, Unnoted, Notes, Frees
<1> QED
  BY <1>0, <1>1, CallerOwned, HandleOwned, WorkerOwned, EnvironmentOwned DEF Next, WorkerNext

(* Unless its id was disturbed, an entry of write_pending_map is that of   *)
(* the write that owns the id.                                             *)
THEOREM PendingOwnsIdHolds == Spec => []PendingOwnsId
<1>1. Init => TypeOK /\ LockInv /\ OwnInv
  <2> SUFFICES ASSUME Init PROVE TypeOK /\ LockInv /\ OwnInv
    OBVIOUS
  <2>1. TypeOK /\ LockInv
    BY DEF Init, TypeOK, LockInv, IdleCaller
  <2>2. OwnInv
    BY ItemAssumption
    DEF Init, OwnInv, Owned, Pending, Unnoted, Notes, Frees, IdleCaller, IdleWorker
  <2> QED
    BY <2>1, <2>2
<1>2. OwnInv => PendingOwnsId
  BY DEF OwnInv, Owned, PendingOwnsId
<1> QED
  BY <1>1, <1>2, NextType, NextLock, NextOwn, PTL DEF Spec

(* The sweep drops an entry only when the timeout that write asked for has *)
(* passed.                                                                 *)
THEOREM DroppedOnlyWhenOverdueHolds == Spec => DroppedOnlyWhenOverdue
<1>1. ASSUME TypeOK, [Next]_vars,
             NEW i \in InvokeIds, SweepWrites, Pending(i), write_pending_map'[i] = NoItem
      PROVE  write_pending_map[i].age > write_pending_map[i].timeout
  <2>1. Expired(i)
    BY <1>1, ItemAssumption DEF SweepWrites, Pending
  <2>2. worker.since \in Nat
    BY <1>1, WorkerShapes DEF SweepWrites, WorkerSweeps
  <2>3. write_pending_map[i].age \in Int /\ write_pending_map[i].timeout \in Int
    <3>1. write_pending_map[i] \in Item
      BY <1>1 DEF Pending
    <3>2. Ages \subseteq Int /\ Timeouts \subseteq Int
      BY ConstantsAssumption, AgesGrow DEF Ages
    <3> QED
      BY <3>1, <3>2 DEF Item
  <2> QED
    BY <2>1, <2>2, <2>3 DEF Expired
<1>2. TypeOK /\ [Next]_vars => [\A i \in InvokeIds :
        SweepWrites /\ Pending(i) /\ write_pending_map'[i] = NoItem
          => write_pending_map[i].age > write_pending_map[i].timeout]_vars
  BY <1>1
<1> QED
  BY <1>2, TypeCorrect, PTL DEF Spec, DroppedOnlyWhenOverdue
=============================================================================
