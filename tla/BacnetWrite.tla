----------------------------- MODULE BacnetWrite -----------------------------
(***************************************************************************)
(* The write path of the BACnet driver, and what it shares with the reads. *)
(*                                                                         *)
(* plc_proto_write sends one WriteProperty request, notes it in            *)
(* write_pending_map under its invoke id and returns the id at once.  The  *)
(* worker thread erases the entry when the device acknowledges or refuses  *)
(* with an error; every few seconds it drops the entries whose own timeout *)
(* has passed.  Reads draw their invoke ids from the same transactions of  *)
(* the stack, and the handlers of both find their request by the id alone. *)
(*                                                                         *)
(* Of a read only its invoke id is kept here: BacnetRead has the rest.     *)
(* One critical section is one step; write_pending_mutex and               *)
(* invoke_id_to_key_mutex each span one such step and need no variable.    *)
(***************************************************************************)
EXTENDS Integers, FiniteSets

CONSTANTS
  Callers,     (* application threads: plc_proto_read and plc_proto_write  *)
  InvokeIds,   (* invoke ids of the transaction state machine, 1..255      *)
  NoId,        (* invoke id 0                                              *)
  NoItem,      (* "not in write_pending_map"                               *)
  Nobody,      (* owner of a free mutex                                    *)
  Timeouts,    (* final_timeout_ms of a write, in ticks                    *)
  MaxTimeout,  (* the longest of them                                      *)
  MaxInFlight  (* bound: PDUs in flight                                    *)

ASSUME ConstantsAssumption ==
  /\ NoId \notin InvokeIds
  /\ Nobody \notin Callers
  /\ MaxTimeout \in Nat /\ MaxInFlight \in Nat
  /\ Timeouts \subseteq 0..MaxTimeout /\ Timeouts # {}

VARIABLES
  write_pending_map, (* invoke id -> WriteBufferItem: its age, its timeout *)
  invoke_id_to_key,  (* the ids that the reverse map of the reads holds    *)
  operation_mutex,   (* its owner                                          *)
  caller,            (* where each application thread is                   *)
  worker,            (* where the worker thread is                         *)
  tsm,               (* the stack's transactions: what each id is used for *)
  net,               (* requests and replies in flight                     *)
  disturbed          (* history: ids that met one of the disturbances      *)

vars == <<write_pending_map, invoke_id_to_key, operation_mutex, caller, worker,
          tsm, net, disturbed>>

-----------------------------------------------------------------------------
(* A sweep compares the age an entry had when `now` was read; MaxDelay     *)
(* bounds the ticks between that and the second half of the sweep.  Ages   *)
(* saturate where no comparison can tell them apart any more.              *)
MaxDelay == 1
MaxAge   == MaxTimeout + MaxDelay + 1
Ages     == 0..MaxAge
Older(a) == IF a < MaxAge THEN a + 1 ELSE a

Uses     == {"read", "write"}
Item     == [age: Ages, timeout: Timeouts]
Replies  == {"ack", "error", "abort"}     \* abort stands for Reject as well
Pdus     == [id: InvokeIds, use: Uses, kind: Replies \cup {"request"}]

ASSUME ItemAssumption == NoItem \notin Item

IdleCaller  == [pc |-> "idle"]
CallerSends == [pc: {"send"}, use: Uses, timeout: Timeouts]
CallerNotes == [pc: {"note"}, use: Uses, timeout: Timeouts, id: InvokeIds]

IdleWorker   == [pc |-> "receive"]
WorkerFrees  == [pc: {"free"}, id: InvokeIds]
WorkerSweeps == [pc: {"sweep"}, since: 0..MaxDelay]

(* Every variable keeps its type; a caller past its send and a handler     *)
(* past its lookup have a real invoke id.                                  *)
TypeOK ==
  /\ write_pending_map \in [InvokeIds -> Item \cup {NoItem}]
  /\ invoke_id_to_key \subseteq InvokeIds
  /\ operation_mutex \in Callers \cup {Nobody}
  /\ caller \in [Callers -> {IdleCaller} \cup CallerSends \cup CallerNotes]
  /\ worker \in {IdleWorker} \cup WorkerFrees \cup WorkerSweeps
  /\ tsm \in [InvokeIds -> Uses \cup {"free"}]
  /\ net \subseteq Pdus
  /\ disturbed \subseteq InvokeIds

Init ==
  /\ write_pending_map = [i \in InvokeIds |-> NoItem]
  /\ invoke_id_to_key = {}
  /\ operation_mutex = Nobody
  /\ caller = [c \in Callers |-> IdleCaller]
  /\ worker = IdleWorker
  /\ tsm = [i \in InvokeIds |-> "free"]
  /\ net = {}
  /\ disturbed = {}

Pending(i) == write_pending_map[i] \in Item

(* c has sent its request under i and has not noted it yet.                *)
Notes(c, i) == caller[c].pc = "note" /\ caller[c].id = i

(* The id is between its request and the note of it.                       *)
Unnoted(i) == \E c \in Callers : Notes(c, i)

Frees(i) == worker.pc = "free" /\ worker.id = i

-----------------------------------------------------------------------------
(***************************************************************************)
(* execute_write_property and execute_read_property hold operation_mutex   *)
(* from before the request is sent until it is noted.                      *)
(***************************************************************************)
Begin(c, use, t) ==
  /\ caller[c].pc = "idle"
  /\ operation_mutex = Nobody
  /\ operation_mutex' = c
  /\ caller' = [caller EXCEPT ![c] = [pc |-> "send", use |-> use, timeout |-> t]]
  /\ UNCHANGED <<write_pending_map, invoke_id_to_key, worker, tsm, net, disturbed>>

(* A PDU sent while MaxInFlight are under way is lost.                     *)
Sent(m) == IF Cardinality(net) < MaxInFlight THEN net \cup {m} ELSE net

(* First disturbance: the stack has come round to an id that PDUs of an    *)
(* earlier transaction still carry.                                        *)
SendRequest(c) ==
  /\ caller[c].pc = "send"
  /\ \E i \in {j \in InvokeIds : tsm[j] = "free"} :
       /\ tsm' = [tsm EXCEPT ![i] = caller[c].use]
       /\ net' = Sent([id |-> i, use |-> caller[c].use, kind |-> "request"])
       /\ caller' = [caller EXCEPT ![c] = [pc |-> "note", use |-> caller[c].use,
                                            timeout |-> caller[c].timeout, id |-> i]]
       /\ disturbed' = disturbed \cup {j \in {i} : \E m \in net : m.id = j}
  /\ UNCHANGED <<write_pending_map, invoke_id_to_key, operation_mutex, worker>>

Return(c) ==
  /\ caller' = [caller EXCEPT ![c] = IdleCaller]
  /\ operation_mutex' = Nobody

(* The stack has no free transaction, or declines to send: invoke id 0.    *)
SendFails(c) ==
  /\ caller[c].pc = "send"
  /\ Return(c)
  /\ UNCHANGED <<write_pending_map, invoke_id_to_key, worker, tsm, net, disturbed>>

NoteWrite(c) ==
  /\ caller[c].pc = "note" /\ caller[c].use = "write"
  /\ write_pending_map' =
       [write_pending_map EXCEPT ![caller[c].id] = [age |-> 0, timeout |-> caller[c].timeout]]
  /\ Return(c)
  /\ UNCHANGED <<invoke_id_to_key, worker, tsm, net, disturbed>>

NoteRead(c) ==
  /\ caller[c].pc = "note" /\ caller[c].use = "read"
  /\ invoke_id_to_key' = invoke_id_to_key \cup {caller[c].id}
  /\ Return(c)
  /\ UNCHANGED <<write_pending_map, worker, tsm, net, disturbed>>

-----------------------------------------------------------------------------
(***************************************************************************)
(* The reply handlers.  Each looks its id up, and frees the id in the      *)
(* stack after the lock is released.                                       *)
(***************************************************************************)
(* Second disturbance: a reply arrives before its request is noted, or     *)
(* after the id was freed.                                                 *)
Untimely(m) == {i \in {m.id} : tsm[i] = "free" \/ Unnoted(i)}

Receive(m, kind) ==
  /\ worker.pc = "receive"
  /\ m \in net /\ m.kind = kind
  /\ net' = net \ {m}
  /\ worker' = [pc |-> "free", id |-> m.id]

ErasePending(i) == write_pending_map' = [write_pending_map EXCEPT ![i] = NoItem]

HandleWriteAck(m) ==
  /\ m.use = "write"
  /\ Receive(m, "ack")
  /\ ErasePending(m.id)
  /\ disturbed' = disturbed \cup Untimely(m)
  /\ UNCHANGED <<invoke_id_to_key, operation_mutex, caller, tsm>>

HandleReadAck(m) ==
  /\ m.use = "read"
  /\ Receive(m, "ack")
  /\ invoke_id_to_key' = invoke_id_to_key \ {m.id}
  /\ disturbed' = disturbed \cup Untimely(m)
  /\ UNCHANGED <<write_pending_map, operation_mutex, caller, tsm>>

(* Third disturbance: the header of a read's ack does not decode, and its  *)
(* mapping stays while the stack frees the id.                             *)
HandleMalformedAck(m) ==
  /\ m.use = "read"
  /\ Receive(m, "ack")
  /\ disturbed' = disturbed \cup {m.id}
  /\ UNCHANGED <<write_pending_map, invoke_id_to_key, operation_mutex, caller, tsm>>

HandleReadError(m) ==
  /\ m.id \in invoke_id_to_key
  /\ Receive(m, "error")
  /\ invoke_id_to_key' = invoke_id_to_key \ {m.id}
  /\ disturbed' = disturbed \cup Untimely(m)
  /\ UNCHANGED <<write_pending_map, operation_mutex, caller, tsm>>

(* Mutant: the pending writes are not looked at.                           *)
HandleWriteError_Ignored(m) ==
  /\ m.id \notin invoke_id_to_key
  /\ Receive(m, "error")
  /\ disturbed' = disturbed \cup Untimely(m)
  /\ UNCHANGED <<write_pending_map, invoke_id_to_key, operation_mutex, caller, tsm>>

HandleWriteError(m) ==
  /\ m.id \notin invoke_id_to_key
  /\ Receive(m, "error")
  /\ ErasePending(m.id)
  /\ disturbed' = disturbed \cup Untimely(m)
  /\ UNCHANGED <<invoke_id_to_key, operation_mutex, caller, tsm>>

(* Fourth disturbance: Abort and Reject look only among the reads, so the  *)
(* entry of a refused write stays while its id is freed.                   *)
HandleRefusal(m) ==
  /\ Receive(m, "abort")
  /\ invoke_id_to_key' = invoke_id_to_key \ {m.id}
  /\ disturbed' = disturbed \cup Untimely(m) \cup {i \in {m.id} : Pending(i)}
  /\ UNCHANGED <<write_pending_map, operation_mutex, caller, tsm>>

(* Mutant: the handler does not free the id.                               *)
FreeInvokeId_Forgotten ==
  /\ worker.pc = "free"
  /\ worker' = IdleWorker
  /\ UNCHANGED <<write_pending_map, invoke_id_to_key, operation_mutex, caller, tsm, net,
                 disturbed>>

FreeInvokeId ==
  /\ worker.pc = "free"
  /\ tsm' = [tsm EXCEPT ![worker.id] = "free"]
  /\ worker' = IdleWorker
  /\ UNCHANGED <<write_pending_map, invoke_id_to_key, operation_mutex, caller, net,
                 disturbed>>

-----------------------------------------------------------------------------
(***************************************************************************)
(* cleanup_stale_requests: `now`, the reads, the writes.  Which of the     *)
(* reads are stale depends on time stamps this module does not keep: any   *)
(* may be.                                                                 *)
(***************************************************************************)
Released(ids) == tsm' = [i \in InvokeIds |-> IF i \in ids THEN "free" ELSE tsm[i]]

SweepReads ==
  /\ worker.pc = "receive"
  /\ worker' = [pc |-> "sweep", since |-> 0]
  /\ \E stale \in SUBSET invoke_id_to_key :
       /\ Released(stale)
       /\ invoke_id_to_key' = invoke_id_to_key \ stale
  /\ UNCHANGED <<write_pending_map, operation_mutex, caller, net, disturbed>>

(* Mutants: the difference is taken as unsigned; only entries whose id is   *)
(* still in use are looked at.                                             *)
Expired_Unsigned(i) ==
  /\ Pending(i)
  /\ \/ write_pending_map[i].age < worker.since
     \/ write_pending_map[i].age - worker.since > write_pending_map[i].timeout

Expired_Busy(i) ==
  /\ Pending(i) /\ tsm[i] = "write"
  /\ write_pending_map[i].age - worker.since > write_pending_map[i].timeout

(* elapsed > timeout_ms, in signed arithmetic: an entry made after `now`   *)
(* was read has a negative elapsed time.                                   *)
Expired(i) ==
  /\ Pending(i)
  /\ write_pending_map[i].age - worker.since > write_pending_map[i].timeout

(* Mutant: the id of a dropped entry is not freed.                         *)
SweepWrites_KeepsId ==
  /\ worker.pc = "sweep"
  /\ write_pending_map' =
       [i \in InvokeIds |-> IF Expired(i) THEN NoItem ELSE write_pending_map[i]]
  /\ worker' = IdleWorker
  /\ UNCHANGED <<invoke_id_to_key, operation_mutex, caller, tsm, net, disturbed>>

SweepWrites ==
  /\ worker.pc = "sweep"
  /\ Released({i \in InvokeIds : Expired(i)})
  /\ write_pending_map' =
       [i \in InvokeIds |-> IF Expired(i) THEN NoItem ELSE write_pending_map[i]]
  /\ worker' = IdleWorker
  /\ UNCHANGED <<invoke_id_to_key, operation_mutex, caller, net, disturbed>>

-----------------------------------------------------------------------------
(***************************************************************************)
(* The environment: the device answers, once or again for a retransmitted  *)
(* request; the network loses PDUs; time passes.                           *)
(***************************************************************************)
DeviceAnswers(m, kind) ==
  LET reply == [m EXCEPT !.kind = kind] IN
  /\ m \in net /\ m.kind = "request"
  /\ \/ net' = (net \ {m}) \cup {reply}
     \/ net' = Sent(reply)
  /\ UNCHANGED <<write_pending_map, invoke_id_to_key, operation_mutex, caller, worker,
                 tsm, disturbed>>

Lose(m) ==
  /\ m \in net
  /\ net' = net \ {m}
  /\ UNCHANGED <<write_pending_map, invoke_id_to_key, operation_mutex, caller, worker,
                 tsm, disturbed>>

Aged(item) == [item EXCEPT !.age = Older(@)]

Tick ==
  /\ worker.pc = "sweep" => worker.since < MaxDelay
  /\ worker' = IF worker.pc = "sweep" THEN [worker EXCEPT !.since = @ + 1] ELSE worker
  /\ write_pending_map' =
       [i \in InvokeIds |-> IF Pending(i) THEN Aged(write_pending_map[i])
                                          ELSE write_pending_map[i]]
  /\ UNCHANGED <<invoke_id_to_key, operation_mutex, caller, tsm, net, disturbed>>

-----------------------------------------------------------------------------
CallerInside(c) == SendRequest(c) \/ SendFails(c) \/ NoteWrite(c) \/ NoteRead(c)

CallerNext(c) ==
  \/ \E use \in Uses, t \in Timeouts : Begin(c, use, t)
  \/ CallerInside(c)

Handle(m) ==
  \/ HandleWriteAck(m) \/ HandleReadAck(m) \/ HandleMalformedAck(m)
  \/ HandleReadError(m) \/ HandleWriteError(m) \/ HandleRefusal(m)

WorkerInside == FreeInvokeId \/ SweepWrites

WorkerNext == (\E m \in net : Handle(m)) \/ SweepReads \/ WorkerInside

Environment ==
  \/ \E m \in net : Lose(m) \/ \E kind \in Replies : DeviceAnswers(m, kind)
  \/ Tick

Next == (\E c \in Callers : CallerNext(c)) \/ WorkerNext \/ Environment

Spec == Init /\ [][Next]_vars

(* A thread inside a call or a handler runs on, the worker's loop reaches  *)
(* its sweep timer again and again between replies, and time passes.       *)
(* Nothing is assumed of the device or of the network.                     *)
Fairness ==
  /\ \A c \in Callers : WF_vars(CallerInside(c))
  /\ WF_vars(WorkerInside)
  /\ SF_vars(SweepReads)
  /\ WF_vars(Tick)

FairSpec == Spec /\ Fairness

-----------------------------------------------------------------------------
(***************************************************************************)
(* Properties.                                                             *)
(***************************************************************************)

(* No id of a write leaks: as long as the stack keeps a transaction for a  *)
(* write, its entry is in write_pending_map for a reply or the sweep to    *)
(* find, or a thread is about to put it there or to free the id.  Whatever *)
(* is early, late, duplicated or refused.                                  *)
BusyIsTracked ==
  \A i \in InvokeIds : tsm[i] = "write" => Pending(i) \/ Unnoted(i) \/ Frees(i)

(* Unless its id was disturbed, an entry is that of the write that owns    *)
(* the id: dropping it frees no id of another request, noting a request    *)
(* overwrites no entry, and the reverse map of the reads has no such id.   *)
PendingOwnsId ==
  \A i \in InvokeIds \ disturbed :
    Pending(i) => /\ tsm[i] = "write"
                  /\ ~Unnoted(i)
                  /\ i \notin invoke_id_to_key

(* The sweep drops an entry only when the timeout that write asked for has *)
(* passed, even though `now` was read before other callers noted theirs.   *)
DroppedOnlyWhenOverdue ==
  [][\A i \in InvokeIds : SweepWrites /\ Pending(i) /\ write_pending_map'[i] = NoItem
       => write_pending_map[i].age > write_pending_map[i].timeout]_vars

(* callbacks.cc:198 deletes entries at once so that the table does not     *)
(* leak.  Even the entries no reply will find any more are dropped or      *)
(* replaced in the end, when every reply is lost as well.                  *)
Overdue(i) == Pending(i) /\ write_pending_map[i].age > write_pending_map[i].timeout

OverdueWriteGoes == \A i \in InvokeIds : Overdue(i) ~> ~Overdue(i)

(* Every invoke id a write takes comes back to the stack.                  *)
IdComesBack == \A i \in InvokeIds : tsm[i] = "write" ~> tsm[i] # "write"
=============================================================================
