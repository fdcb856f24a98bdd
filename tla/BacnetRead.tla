------------------------------ MODULE BacnetRead ------------------------------
(***************************************************************************)
(* The asynchronous read path of the BACnet driver.                        *)
(*                                                                         *)
(* Application threads call plc_proto_read for an object key; the call     *)
(* answers from the cache, or sends one ReadProperty request and returns   *)
(* at once.  The worker thread receives the replies, matches them to their *)
(* key through the invoke id, updates the cache, and every few seconds     *)
(* sweeps requests that look abandoned.                                    *)
(*                                                                         *)
(* A step is one critical section, or the part of one that lies between    *)
(* two lock operations, so every interleaving the two mutexes allow is a   *)
(* behaviour.  operation_mutex is left out: a reader takes it only while   *)
(* it holds object_states_mutex, so no two readers ever contend for it.    *)
(***************************************************************************)
EXTENDS Integers, FiniteSets

CONSTANTS
  Readers,       (* application threads that call plc_proto_read           *)
  Keys,          (* ObjectKey values: device, type, instance, property     *)
  InvokeIds,     (* invoke ids of the transaction state machine, 1..255    *)
  NoKey,         (* "not in the map"                                       *)
  NoId,          (* invoke id 0: no active request                         *)
  Nobody,        (* owner of a free mutex                                  *)
  Worker,        (* the worker thread                                      *)
  ReplyKinds,    (* the replies the device may give                        *)
  CacheStrategy, (* "Conservative" or "Aggressive"                         *)
  CacheExpiry,   (* cache_expiry_ms, in ticks                              *)
  StaleAge,      (* 2 * read_timeout_ms, in ticks                          *)
  MaxVersion,    (* bound: how often a property changes on the device      *)
  MaxInFlight,   (* bound: PDUs in flight                                  *)
  EarlyReplies,  (* a reply may be handled before its mapping is inserted  *)
  LateReplies    (* a PDU may outlive the reuse of its invoke id           *)

Requested  == "request"
AckKinds   == {"ack", "unstorable", "unallocated", "undecodable", "malformed"}
ErrorKinds == {"unsupported", "error"}
AbortKinds == {"abort", "reject"}

ASSUME ConstantsAssumption ==
  /\ NoKey \notin Keys
  /\ NoId \notin InvokeIds
  /\ Nobody \notin Readers /\ Worker \notin Readers /\ Nobody # Worker
  /\ ReplyKinds \subseteq (AckKinds \cup ErrorKinds \cup AbortKinds)
  /\ CacheStrategy \in {"Conservative", "Aggressive"}
  /\ CacheExpiry \in Nat /\ StaleAge \in Nat /\ MaxVersion \in Nat /\ MaxInFlight \in Nat
  /\ EarlyReplies \in BOOLEAN /\ LateReplies \in BOOLEAN

VARIABLES
  object_states,          (* the cache: ObjectKey -> ObjectState           *)
  invoke_id_to_key,       (* reverse map used by the reply handlers        *)
  object_states_mutex,    (* its owner                                     *)
  invoke_id_to_key_mutex, (* its owner                                     *)
  reader,                 (* where each application thread is              *)
  returned,               (* what the last call to return gave its caller  *)
  worker,                 (* where the worker thread is                    *)
  tsm,                    (* the stack's transactions: age of each request *)
  net,                    (* requests and replies in flight                *)
  device                  (* the value each property has on the device     *)

vars == <<object_states, invoke_id_to_key, object_states_mutex,
          invoke_id_to_key_mutex, reader, returned, worker, tsm, net, device>>

-----------------------------------------------------------------------------
(* Ages saturate just above the threshold they are compared with.          *)
MaxAge == StaleAge + 1
Ages   == 0..MaxAge
Older(a) == IF a < MaxAge THEN a + 1 ELSE a

Free     == -1                         \* a transaction slot not in use
Versions == 0..MaxVersion
Values   == [key: Keys \cup {NoKey}, version: Versions]
NoValue  == [key |-> NoKey, version |-> 0]

Codes    == {"SUCCESS", "NO_DATA", "ERROR_READ"}  \* what plc_proto_read returns
Statuses == {"SUCCESS", "NO_DATA", "ERROR_READ", "UNSUPPORTED", "TIMEOUT", "ERROR_MEMORY"}

(* lost: an ack of a string was half stored.  cached_value then has the    *)
(* type of a string and no text; the field of that name here goes on       *)
(* saying which value was overwritten.                                     *)
ObjectState == [active_invoke_id: InvokeIds \cup {NoId}, status: Statuses,
                cached_value: Values, lost: BOOLEAN, age: Ages]

(* A new entry has no request, no value and the zero timestamp: it is as   *)
(* old as the machine's uptime, which exceeds every threshold.             *)
NewObjectState == [active_invoke_id |-> NoId, status |-> "SUCCESS",
                   cached_value |-> NoValue, lost |-> FALSE, age |-> MaxAge]

(* The flag of the entry: a store succeeded once, and no later one, failed *)
(* or not, takes the flag back.  The value itself may be gone.             *)
has_valid_cache(k) == object_states[k].cached_value # NoValue

Holds(k) == has_valid_cache(k) /\ ~object_states[k].lost

Pdus    == [id: InvokeIds, key: Keys, kind: ReplyKinds \cup {Requested},
            version: Versions]
NoReply == [id |-> NoId, key |-> NoKey, kind |-> "none", version |-> 0]

IdleReader == [pc |-> "idle", key |-> NoKey, id |-> NoId]
IdleWorker == [pc |-> "receive", key |-> NoKey, reply |-> NoReply, stale |-> {}]

ReaderSends    == [pc: {"send"}, key: Keys, id: {NoId}]
ReaderRequests == [pc: {"map", "record"}, key: Keys, id: InvokeIds]
ReaderStates   == {IdleReader} \cup ReaderSends \cup ReaderRequests

WorkerHandles == [pc: {"apply", "refuse"}, key: Keys, reply: Pdus, stale: {{}}]
WorkerSweeps  == [pc: {"sweep"}, key: {NoKey}, reply: {NoReply}, stale: SUBSET Keys]
WorkerStates  == {IdleWorker} \cup WorkerHandles \cup WorkerSweeps

(* Every variable keeps its type; a reader past its send has a real invoke *)
(* id, and a handler past its lookup has a real key and reply.             *)
TypeOK ==
  /\ object_states \in [Keys -> ObjectState]
  /\ invoke_id_to_key \in [InvokeIds -> Keys \cup {NoKey}]
  /\ object_states_mutex \in Readers \cup {Nobody}
  /\ invoke_id_to_key_mutex \in {Worker, Nobody}
  /\ reader \in [Readers -> ReaderStates]
  /\ returned \in [key: Keys \cup {NoKey}, rc: Codes]
  /\ worker \in WorkerStates
  /\ tsm \in [InvokeIds -> Ages \cup {Free}]
  /\ net \subseteq Pdus
  /\ device \in [Keys -> Versions]

Init ==
  /\ object_states = [k \in Keys |-> NewObjectState]
  /\ invoke_id_to_key = [i \in InvokeIds |-> NoKey]
  /\ object_states_mutex = Nobody
  /\ invoke_id_to_key_mutex = Nobody
  /\ reader = [r \in Readers |-> IdleReader]
  /\ returned = [key |-> NoKey, rc |-> "NO_DATA"]
  /\ worker = IdleWorker
  /\ tsm = [i \in InvokeIds |-> Free]
  /\ net = {}
  /\ device = [k \in Keys |-> 0]

-----------------------------------------------------------------------------
(***************************************************************************)
(* plc_proto_read.  The caller enters with object_states_mutex free and    *)
(* keeps it until it returns; the context is initialised and CONNECTED.    *)
(***************************************************************************)
Enters(r) == reader[r].pc = "idle" /\ object_states_mutex = Nobody

Return(r, k, code) ==
  /\ reader' = [reader EXCEPT ![r] = IdleReader]
  /\ returned' = [key |-> k, rc |-> code]

CacheHit(k) ==
  /\ CacheStrategy = "Conservative"
  /\ has_valid_cache(k)
  /\ object_states[k].age < CacheExpiry

HasActiveRequest(k) == object_states[k].active_invoke_id # NoId

ReadFromCache(r, k) ==
  /\ Enters(r)
  /\ CacheHit(k)
  /\ Return(r, k, "SUCCESS")
  /\ UNCHANGED <<object_states, invoke_id_to_key, object_states_mutex,
                 invoke_id_to_key_mutex, worker, tsm, net, device>>

ReadStillPending(r, k) ==
  /\ Enters(r)
  /\ ~CacheHit(k)
  /\ HasActiveRequest(k)
  /\ Return(r, k, "NO_DATA")
  /\ UNCHANGED <<object_states, invoke_id_to_key, object_states_mutex,
                 invoke_id_to_key_mutex, worker, tsm, net, device>>

(* Mutant: the active request is not looked at.                            *)
ReadStart_Unguarded(r, k) ==
  /\ Enters(r)
  /\ ~CacheHit(k)
  /\ object_states_mutex' = r
  /\ reader' = [reader EXCEPT ![r] = [IdleReader EXCEPT !.pc = "send", !.key = k]]
  /\ UNCHANGED <<object_states, invoke_id_to_key, invoke_id_to_key_mutex, returned,
                 worker, tsm, net, device>>

ReadStart(r, k) ==
  /\ Enters(r)
  /\ ~CacheHit(k)
  /\ ~HasActiveRequest(k)
  /\ object_states_mutex' = r
  /\ reader' = [reader EXCEPT ![r] = [IdleReader EXCEPT !.pc = "send", !.key = k]]
  /\ UNCHANGED <<object_states, invoke_id_to_key, invoke_id_to_key_mutex, returned,
                 worker, tsm, net, device>>

(***************************************************************************)
(* Send_Read_Property_Request takes a free invoke id and transmits.  The   *)
(* stack hands the 255 ids out in turn; when PDUs do not outlive a whole   *)
(* turn, no PDU in flight carries the id it hands out.                     *)
(***************************************************************************)
Available_AtOnce == {i \in InvokeIds : tsm[i] = Free}   \* mutant

Available ==
  {i \in InvokeIds : tsm[i] = Free /\ (LateReplies \/ \A m \in net : m.id # i)}

(* A PDU sent while MaxInFlight are under way is lost.                      *)
Sent(m) == IF Cardinality(net) < MaxInFlight THEN net \cup {m} ELSE net

Request(i, k) == [id |-> i, key |-> k, kind |-> Requested, version |-> 0]

SendRequest(r) ==
  /\ reader[r].pc = "send"
  /\ \E i \in Available :
       /\ tsm' = [tsm EXCEPT ![i] = 0]
       /\ net' = Sent(Request(i, reader[r].key))
       /\ reader' = [reader EXCEPT ![r].pc = "map", ![r].id = i]
  /\ UNCHANGED <<object_states, invoke_id_to_key, object_states_mutex,
                 invoke_id_to_key_mutex, returned, worker, device>>

(* The stack has no free transaction, or declines to send: invoke id 0.    *)
SendFails(r) ==
  /\ reader[r].pc = "send"
  /\ Return(r, reader[r].key, "ERROR_READ")
  /\ object_states_mutex' = Nobody
  /\ UNCHANGED <<object_states, invoke_id_to_key, invoke_id_to_key_mutex,
                 worker, tsm, net, device>>

MapInvokeId(r) ==
  /\ reader[r].pc = "map"
  /\ invoke_id_to_key_mutex = Nobody
  /\ invoke_id_to_key' = [invoke_id_to_key EXCEPT ![reader[r].id] = reader[r].key]
  /\ reader' = [reader EXCEPT ![r].pc = "record"]
  /\ UNCHANGED <<object_states, object_states_mutex, invoke_id_to_key_mutex, returned,
                 worker, tsm, net, device>>

(* An old value is handed out while the refresh runs in the background.    *)
RecordedCode_Always(k) == "SUCCESS"              \* mutant

RecordedCode(k) == IF has_valid_cache(k) THEN "SUCCESS" ELSE "NO_DATA"

RecordRequest_KeepsStatus(r) ==      \* mutant: the status of the last request stays
  LET k == reader[r].key IN
  /\ reader[r].pc = "record"
  /\ object_states' = [object_states EXCEPT ![k].active_invoke_id = reader[r].id]
  /\ Return(r, k, RecordedCode(k))
  /\ object_states_mutex' = Nobody
  /\ UNCHANGED <<invoke_id_to_key, invoke_id_to_key_mutex, worker, tsm, net, device>>

RecordRequest(r) ==
  LET k == reader[r].key IN
  /\ reader[r].pc = "record"
  /\ object_states' = [object_states EXCEPT ![k].active_invoke_id = reader[r].id,
                                            ![k].status = "NO_DATA"]
  /\ Return(r, k, RecordedCode(k))
  /\ object_states_mutex' = Nobody
  /\ UNCHANGED <<invoke_id_to_key, invoke_id_to_key_mutex, worker, tsm, net, device>>

-----------------------------------------------------------------------------
(***************************************************************************)
(* The reply handlers, run by the worker thread.  Abort and Reject keep    *)
(* invoke_id_to_key_mutex while they wait for object_states_mutex; the     *)
(* other handlers release it first.                                        *)
(***************************************************************************)
Receive(m, kinds) ==
  /\ worker.pc = "receive"
  /\ m \in net /\ m.kind \in kinds
  /\ EarlyReplies \/ \A r \in Readers : ~(reader[r].pc = "map" /\ reader[r].id = m.id)
  /\ net' = net \ {m}

Mapped(m) == invoke_id_to_key[m.id] # NoKey

tsm_free_invoke_id(i) == tsm' = [tsm EXCEPT ![i] = Free]

EraseMapping_Forgotten(i) == UNCHANGED invoke_id_to_key   \* mutant

EraseMapping(i) == invoke_id_to_key' = [invoke_id_to_key EXCEPT ![i] = NoKey]

WorkerTakes(pc, m) ==
  worker' = [IdleWorker EXCEPT !.pc = pc, !.key = invoke_id_to_key[m.id], !.reply = m]

(* The service header does not decode: the handler returns at once and the *)
(* stack frees the id.                                                     *)
DropMalformed(m) ==
  /\ Receive(m, {"malformed"})
  /\ tsm_free_invoke_id(m.id)
  /\ UNCHANGED <<object_states, invoke_id_to_key, object_states_mutex,
                 invoke_id_to_key_mutex, reader, returned, worker, device>>

DropUnmatched(m) ==
  /\ Receive(m, ReplyKinds \ {"malformed"})
  /\ ~Mapped(m)
  /\ invoke_id_to_key_mutex = Nobody
  /\ tsm_free_invoke_id(m.id)
  /\ UNCHANGED <<object_states, invoke_id_to_key, object_states_mutex,
                 invoke_id_to_key_mutex, reader, returned, worker, device>>

(* The value does not decode: the mapping is gone, the request stays       *)
(* active.                                                                 *)
DropUndecodable(m) ==
  /\ Receive(m, {"undecodable"})
  /\ Mapped(m)
  /\ invoke_id_to_key_mutex = Nobody
  /\ EraseMapping(m.id)
  /\ tsm_free_invoke_id(m.id)
  /\ UNCHANGED <<object_states, object_states_mutex, invoke_id_to_key_mutex,
                 reader, returned, worker, device>>

TakeMapping(m) ==
  /\ Receive(m, {"ack", "unstorable", "unallocated"} \cup ErrorKinds)
  /\ Mapped(m)
  /\ invoke_id_to_key_mutex = Nobody
  /\ EraseMapping(m.id)
  /\ WorkerTakes("apply", m)
  /\ UNCHANGED <<object_states, object_states_mutex, invoke_id_to_key_mutex,
                 reader, returned, tsm, device>>

(* Mutant: the mark is cleared, the status is not set.                     *)
Applied_KeepsStatus(state, m) == [state EXCEPT !.active_invoke_id = NoId]

(* Mutant: a value that is not refreshed is dropped.                       *)
Applied_Drops(state, m) ==
  IF m.kind = "ack"
  THEN [state EXCEPT !.active_invoke_id = NoId, !.status = "SUCCESS", !.age = 0, !.lost = FALSE,
                     !.cached_value = [key |-> m.key, version |-> m.version]]
  ELSE [state EXCEPT !.active_invoke_id = NoId, !.status = "UNSUPPORTED",
                     !.cached_value = NoValue]

(* What the ack and error handlers write into the entry.  The memory of a  *)
(* string is allocated after cached_value has been given its type, and in  *)
(* place of its old content: when that fails the old value is gone, and    *)
(* the flag that says there is one stays.  (Without the flag the content   *)
(* is never handed out, and there is nothing to lose.)                     *)
Applied(state, m) ==
  CASE m.kind = "ack" ->
         [state EXCEPT !.active_invoke_id = NoId, !.status = "SUCCESS", !.age = 0, !.lost = FALSE,
                       !.cached_value = [key |-> m.key, version |-> m.version]]
    [] m.kind = "unallocated" ->
         [state EXCEPT !.active_invoke_id = NoId, !.status = "ERROR_MEMORY",
                       !.lost = @ \/ state.cached_value # NoValue]
    [] m.kind \in {"unstorable", "unsupported"} ->
         [state EXCEPT !.active_invoke_id = NoId, !.status = "UNSUPPORTED"]
    [] OTHER ->
         [state EXCEPT !.active_invoke_id = NoId, !.status = "ERROR_READ"]

ApplyReply ==
  /\ worker.pc = "apply"
  /\ object_states_mutex = Nobody
  /\ object_states' = [object_states EXCEPT ![worker.key] = Applied(@, worker.reply)]
  /\ tsm_free_invoke_id(worker.reply.id)
  /\ worker' = IdleWorker
  /\ UNCHANGED <<invoke_id_to_key, object_states_mutex, invoke_id_to_key_mutex,
                 reader, returned, net, device>>

TakeRefused(m) ==
  /\ Receive(m, AbortKinds)
  /\ Mapped(m)
  /\ invoke_id_to_key_mutex = Nobody
  /\ invoke_id_to_key_mutex' = Worker
  /\ EraseMapping(m.id)
  /\ WorkerTakes("refuse", m)
  /\ UNCHANGED <<object_states, object_states_mutex, reader, returned, tsm, device>>

ApplyRefused ==
  /\ worker.pc = "refuse"
  /\ object_states_mutex = Nobody
  /\ object_states' = [object_states EXCEPT ![worker.key].active_invoke_id = NoId,
                                            ![worker.key].status = "ERROR_READ"]
  /\ tsm_free_invoke_id(worker.reply.id)
  /\ invoke_id_to_key_mutex' = Nobody
  /\ worker' = IdleWorker
  /\ UNCHANGED <<invoke_id_to_key, object_states_mutex, reader, returned, net, device>>

(***************************************************************************)
(* cleanup_stale_requests: `now` is read first, then the two mutexes are   *)
(* taken one after the other, then every mapping is examined.              *)
(***************************************************************************)
SweepBegin ==
  /\ worker.pc = "receive"
  /\ invoke_id_to_key_mutex = Nobody
  /\ invoke_id_to_key_mutex' = Worker
  /\ worker' = [IdleWorker EXCEPT !.pc = "sweep",
                  !.stale = {k \in Keys : object_states[k].age > StaleAge}]
  /\ UNCHANGED <<object_states, invoke_id_to_key, object_states_mutex, reader,
                 returned, tsm, net, device>>

(* Mutants: entries without a value are not swept; mappings stay behind.   *)
StaleIds_OnlyCached ==
  {i \in InvokeIds : LET k == invoke_id_to_key[i] IN
     k \in worker.stale /\ object_states[k].active_invoke_id = i /\ has_valid_cache(k)}

SweptMap_Kept == invoke_id_to_key

StaleIds ==
  {i \in InvokeIds : LET k == invoke_id_to_key[i] IN
     k \in worker.stale /\ object_states[k].active_invoke_id = i}

SweptMap == [i \in InvokeIds |-> IF i \in StaleIds THEN NoKey ELSE invoke_id_to_key[i]]

Swept(k) == [object_states[k] EXCEPT !.active_invoke_id = NoId, !.status = "TIMEOUT"]

SweepEnd_KeepsIds ==                  \* mutant: the ids are not given back
  LET staleKeys == {invoke_id_to_key[i] : i \in StaleIds} IN
  /\ worker.pc = "sweep"
  /\ object_states_mutex = Nobody
  /\ object_states' = [k \in Keys |->
       IF k \in staleKeys THEN Swept(k) ELSE object_states[k]]
  /\ invoke_id_to_key' = SweptMap
  /\ invoke_id_to_key_mutex' = Nobody
  /\ worker' = IdleWorker
  /\ UNCHANGED <<object_states_mutex, reader, returned, tsm, net, device>>

SweepEnd ==
  LET staleKeys == {invoke_id_to_key[i] : i \in StaleIds} IN
  /\ worker.pc = "sweep"
  /\ object_states_mutex = Nobody
  /\ object_states' = [k \in Keys |->
       IF k \in staleKeys THEN Swept(k) ELSE object_states[k]]
  /\ invoke_id_to_key' = SweptMap
  /\ tsm' = [i \in InvokeIds |-> IF i \in StaleIds THEN Free ELSE tsm[i]]
  /\ invoke_id_to_key_mutex' = Nobody
  /\ worker' = IdleWorker
  /\ UNCHANGED <<object_states_mutex, reader, returned, net, device>>

-----------------------------------------------------------------------------
(***************************************************************************)
(* The environment: the device answers, once or again for a retransmitted  *)
(* request; the network loses PDUs; values change; time passes.            *)
(***************************************************************************)
(* Only an ack carries the value; each kind stands for one thing it says,  *)
(* or, of the acks, for how far the driver gets with it: "unallocated" is  *)
(* an ack of a string when there is no memory to store it in.              *)
Reply(m, kind) ==
  [m EXCEPT !.kind = kind, !.version = IF kind = "ack" THEN device[m.key] ELSE 0]

DeviceAnswers(m, kind) ==
  /\ m \in net /\ m.kind = Requested
  /\ \/ net' = (net \ {m}) \cup {Reply(m, kind)}
     \/ net' = Sent(Reply(m, kind))
  /\ UNCHANGED <<object_states, invoke_id_to_key, object_states_mutex,
                 invoke_id_to_key_mutex, reader, returned, worker, tsm, device>>

Lose(m) ==
  /\ m \in net
  /\ net' = net \ {m}
  /\ UNCHANGED <<object_states, invoke_id_to_key, object_states_mutex,
                 invoke_id_to_key_mutex, reader, returned, worker, tsm, device>>

DeviceChanges(k) ==
  /\ device[k] < MaxVersion
  /\ device' = [device EXCEPT ![k] = @ + 1]
  /\ UNCHANGED <<object_states, invoke_id_to_key, object_states_mutex,
                 invoke_id_to_key_mutex, reader, returned, worker, tsm, net>>

Tick ==
  /\ object_states' = [k \in Keys |-> [object_states[k] EXCEPT !.age = Older(@)]]
  /\ tsm' = [i \in InvokeIds |-> IF tsm[i] = Free THEN Free ELSE Older(tsm[i])]
  /\ UNCHANGED <<invoke_id_to_key, object_states_mutex, invoke_id_to_key_mutex,
                 reader, returned, worker, net, device>>

-----------------------------------------------------------------------------
ReaderInside(r) ==
  SendRequest(r) \/ SendFails(r) \/ MapInvokeId(r) \/ RecordRequest(r)

ReaderNext(r) ==
  \/ \E k \in Keys : ReadFromCache(r, k) \/ ReadStillPending(r, k) \/ ReadStart(r, k)
  \/ ReaderInside(r)

Handle(m) ==
  \/ DropMalformed(m) \/ DropUnmatched(m) \/ DropUndecodable(m)
  \/ TakeMapping(m) \/ TakeRefused(m)

WorkerNext ==
  \/ \E m \in net : Handle(m)
  \/ ApplyReply \/ ApplyRefused \/ SweepBegin \/ SweepEnd

Environment ==
  \/ \E m \in net : Lose(m) \/ \E kind \in ReplyKinds : DeviceAnswers(m, kind)
  \/ \E k \in Keys : DeviceChanges(k)
  \/ Tick

Next == (\E r \in Readers : ReaderNext(r)) \/ WorkerNext \/ Environment

Spec == Init /\ [][Next]_vars
-----------------------------------------------------------------------------
(***************************************************************************)
(* Properties that hold whatever the network and the device do.            *)
(***************************************************************************)
Recording(r, k, i) ==
  reader[r].pc = "record" /\ reader[r].key = k /\ reader[r].id = i

(* k waits for the reply to i, or a reader is about to note that it does.  *)
Awaits(k, i) ==
  \/ object_states[k].active_invoke_id = i
  \/ \E r \in Readers : Recording(r, k, i)

(* The reverse map never points at a key that waits for another request:   *)
(* a reply found in invoke_id_to_key always completes the request its key  *)
(* is waiting for, and never clears the mark of a newer one.               *)
MapCoherent ==
  \A i \in InvokeIds :
    invoke_id_to_key[i] # NoKey => Awaits(invoke_id_to_key[i], i)

(* The same of the mapping a handler has already taken out of the map: in  *)
(* the gap between its two critical sections the key is not released.      *)
HandlerCoherent ==
  worker.pc \in {"apply", "refuse"} =>
    /\ Awaits(worker.key, worker.reply.id)
    /\ \A i \in InvokeIds : invoke_id_to_key[i] # worker.key

(* active_invoke_id is documented as the guard against duplicate requests: *)
(* a key has at most one entry in the reverse map.                         *)
OneRequestPerKey ==
  \A i, j \in InvokeIds :
    (invoke_id_to_key[i] = invoke_id_to_key[j] /\ invoke_id_to_key[i] # NoKey) => i = j

(* k has no request recorded, mapped or being completed.                   *)
Unrequested(k) ==
  /\ ~HasActiveRequest(k)
  /\ \A i \in InvokeIds : invoke_id_to_key[i] # k
  /\ ~(worker.pc \in {"apply", "refuse"} /\ worker.key = k)

(* Between the check that k has no active request and the moment its new   *)
(* one is recorded, neither another caller nor a handler makes one appear. *)
WindowCoherent ==
  \A r \in Readers :
    /\ reader[r].pc \in {"send", "map"} => Unrequested(reader[r].key)
    /\ reader[r].pc = "record" => ~HasActiveRequest(reader[r].key)

(* The two maps and the threads between their steps tell one story: an     *)
(* invoke id leads to the key that waits for it, and no other id does, at  *)
(* every moment of a call, a handler and the sweep.                        *)
TablesAgree == MapCoherent /\ HandlerCoherent /\ OneRequestPerKey /\ WindowCoherent

(* impl/bacnet/README.md:3811-3826: the calls of all threads are           *)
(* deduplicated per key.  A request is transmitted only for a key that has *)
(* none.                                                                   *)
NoDuplicateRequest ==
  [][\A r \in Readers : (reader[r].pc = "send" /\ reader'[r].pc = "map")
       => Unrequested(reader[r].key)]_vars

(* The status a batch read looks at says NO_DATA exactly while a request   *)
(* is active: every path that clears the mark also says why it ended.      *)
StatusTellsPending ==
  \A k \in Keys : HasActiveRequest(k) <=> object_states[k].status = "NO_DATA"

(* k is being given an ack whose text the driver cannot store.             *)
StoreFails(k) ==
  worker.pc = "apply" /\ worker.key = k /\ worker.reply.kind = "unallocated"

(* A key for which a caller was told PROTO_SUCCESS has had a value stored, *)
(* and a value that is stored stays: refreshes that are refused, time out, *)
(* do not decode or have a type the driver has none for leave the last     *)
(* good one in place.  One thing takes it away, an ack of a string when    *)
(* the memory for its text cannot be had; callers go on being told         *)
(* PROTO_SUCCESS then, with no value behind it, until an ack is stored.    *)
SuccessHadValue ==
  /\ [](returned.rc = "SUCCESS" => has_valid_cache(returned.key))
  /\ [][\A k \in Keys : Holds(k) => Holds(k)' \/ StoreFails(k)]_vars

-----------------------------------------------------------------------------
(***************************************************************************)
(* Properties that hold under conditions, or not at all.                   *)
(***************************************************************************)

(* impl/bacnet/README.md:754-779 draws one context_mutex for readers,      *)
(* handlers and the sweep.  The code has two mutexes; this says no reader  *)
(* and worker wait for each other's.                                       *)
LockCycle ==
  /\ invoke_id_to_key_mutex = Worker /\ worker.pc \in {"refuse", "sweep"}
  /\ \E r \in Readers : object_states_mutex = r /\ reader[r].pc = "map"

NoLockCycle == ~LockCycle

(* A key that waits can still be released: its mapping is there for the    *)
(* reply or the sweep to find, or a handler already has it.  (False after  *)
(* an early reply, and after an ack whose value does not decode.)          *)
NoOrphanRequest ==
  \A k \in Keys : HasActiveRequest(k) =>
    \/ invoke_id_to_key[object_states[k].active_invoke_id] = k
    \/ worker.pc \in {"apply", "refuse"} /\ worker.key = k
=============================================================================
