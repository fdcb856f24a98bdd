# Verification of procto-manager

procto-manager is a set of protocol drivers for a PLC runtime: BACnet (C++),
MQTT (C) and Modbus (C), each behind the two calls `plc_proto_read` and
`plc_proto_write`. The calls are made by cyclic application threads and must
not block; what they ask for is done by worker, callback and monitor threads
that share state with them. This directory models that shared state in TLA+,
checks it with TLC and proves its main invariants with TLAPS.

`PROJECT.json` lists, machine-readably, the components, the runs, the source
lines every definition stands for, the hazards, the findings and the theorems.

## 1. Inventory

| component | state it keeps | operations | who it talks to | what is hard | what makes it correct |
|---|---|---|---|---|---|
| BACnet read path (`proto_bacnet_core.cc`, `_io.cc`, `_callbacks.cc`, `_discovery.cc`) | `object_states` (cache per object key), `invoke_id_to_key` (which key a reply is for), a mutex for each | `plc_proto_read`, the ack, error, abort and reject handlers, `cleanup_stale_requests` | application threads, worker thread, the stack's transaction table, the device | two mutexes, replies that are early, late, repeated or undecodable, a sweep racing replies | one request per key; a reply completes the request it answers; a waiting key is released; a stored value is not lost to a failed refresh |
| BACnet write path | `write_pending_map` | `plc_proto_write`, ack and error handlers, the sweep | the same invoke ids as reads | an entry left behind by an abort, ids reused | an entry belongs to the transaction of its id |
| BACnet life cycle and hot configuration (`_core.cc`, `_driver.cc`, `_hot_config.cc`) | `initialized_`, `connection_state`, `worker_stop`, `pending_reload`, the monitor's `running` and `last_mtime`, three mutexes | initialise, connect, deferred reload, release, `bacnet_reload_config`, the monitor loop | all of the above, the configuration file | locks held across a join; an edit between two looks at the file | threads are started and stopped in pairs; no edit is forgotten; a released driver comes back |
| BACnet batch read (`_batch.cpp`) | none of its own | `plc_proto_read_object_properties` | polls `plc_proto_read` | tells an old value from a new answer by timing | reports what the device said |
| BACnet value conversion (`_utils.cc`, `_io.cc`, `_batch.cpp`) | `cached_value` of an object, the copies callers hold, the heap behind strings | `convert_to_application_value`, `store_application_value`, the copy in `plc_proto_read`, the fields of the batch and their release | acks, readers and writers | copies share a string's buffer and use it without a lock; widths, bits and unions | what is read back is what was written; a copied string stays what it was; a field is the property |
| BACnet configuration file (`_utils.cc`) | the file, its lock file, temporary files | the YAML loader, `config_update` | the monitor, other processes | read before lock, lock file removed while in use | an update is never half seen, and exact when it runs alone |
| MQTT message ring (`proto_mqtt_core.c`, `_callbacks.c`) | 100 slots, head, tail, count | `messageArrived`, `mqtt_proto_read` | callback thread, application threads | wrap, overrun, payload of the limit size | the newest messages, in order, once |
| MQTT connection (`plc_mqtt_entry.c`, `proto_mqtt_core.c`, `_callbacks.c`) | `connect_status`, `reconnect_attempts`, `g_ctx_mutex` | connect, disconnect, reconnect, five callbacks | the MQTTAsync library | the status is set after the call it describes, and read before the decision it supports | the status tells what is under way |
| MQTT hot configuration (`_hot_config.c`, `plc_mqtt_entry.c`) | `g_inited`, the context, `running` | `on_config_changed`, init, stop | monitor thread, application threads | the context is released while in use | no call uses a released context |
| Modbus | none | pass-through to libmodbus | | | |
| logging, vendored libraries, demos, build scripts | | | | not modelled | |

## 2. Modules

| module | what it is |
|---|---|
| `BacnetRead` | the read path under any network |
| `BacnetReadNominal` | the read path under two conditions on the network, and a third on the replies; refinement |
| `ObjectCache` | what the read path promises: at most one open question per key, readings that never go back and are lost only to an answer that comes to nothing |
| `BacnetBatch` | the polling batch read on top of the nominal read path, beside other readers; liveness |
| `BacnetReset` | the nominal read path across a release of the driver; refinement of `ObjectCache` with one step that forgets |
| `BacnetReadProofs` | theorems about the last five: the tables, the refinement, the ids, the batch, the release |
| `BacnetValue`, `BacnetValueProofs` | the way of a value through the driver, and theorems about it |
| `BacnetWrite`, `BacnetWriteProofs` | the write path, the invoke ids it shares with reads, and theorems about it |
| `BacnetReload`, `BacnetReloadProofs` | the life cycle of the driver and the hot configuration, and theorems about it |
| `ConfigUpdate`, `EditedFile`, `ConfigUpdateProofs` | the configuration file: `config_update` of several processes and the loader, what it promises about the file, the proof that it does, and that the two parsers agree |
| `MqttRing`, `DropOldest`, `MqttRingProofs` | the ring of messages, the queue it implements, the proof that it does |
| `MqttConn`, `MqttConnProofs` | the connection state machine and theorems about it |
| `MqttEntry`, `MqttEntryProofs` | the life of the MQTT context and its hot configuration, and theorems about it |
| `MC*` | instances for TLC |

### BacnetRead

`object_states` and `invoke_id_to_key` are the two maps of `BacnetContext`
(`NoKey` and the initial entry stand for "absent"); the two mutex variables
hold their owners; `reader` and `worker` say where each thread is. A step is a
critical section, or the part of one between two lock operations:

| action | code |
|---|---|
| `ReadFromCache`, `ReadStillPending`, `ReadStart` | the three ways through `plc_proto_read` once the driver is connected |
| `SendRequest`, `SendFails`, `MapInvokeId`, `RecordRequest` | `execute_read_property` and what follows it, all under `object_states_mutex` |
| `DropMalformed`, `DropUnmatched`, `DropUndecodable` | the early returns of the handlers |
| `TakeMapping`, `ApplyReply` | the ack and error handlers: two separate critical sections |
| `TakeRefused`, `ApplyRefused` | the abort and reject handlers: one inside the other |
| `SweepBegin`, `SweepEnd` | `cleanup_stale_requests`: the entries that are too old are fixed when `now` is read |

External: `tsm` is the stack's transaction table (age of each busy invoke id),
`net` the datagrams under way, which may be lost, answered, and answered again
for a retransmission; `device` the values of the properties. `operation_mutex`
is left out because readers take it only inside `object_states_mutex` and
writers, which take no mutex of this module, only delay them; values
are the key and the version they were read from; ages saturate one tick above
the threshold they are compared with. A new entry's timestamp is the clock's
zero, so it is as old as can be, which is what the code gives it.

An ack is told apart by how far the handler gets with it: the header does not
decode (`malformed`), the value does not (`undecodable`), its type has no place
in the driver (`unstorable`), it is a string and there is no memory for its text
(`unallocated`), or it is stored. A failed allocation
(`proto_bacnet_utils.cc:645`, `659`) comes after `cached_value` was overwritten
and leaves `has_valid_cache` as it was (`proto_bacnet_callbacks.cc:127`): the
entry is `lost`, its flag says there is a value and there is none. `Holds` is
"flag and value".

Two constants describe the environment. `EarlyReplies`: a reply may be handled
before its sender has inserted the mapping (the sender holds no lock the
handler needs). `LateReplies`: a datagram may outlive the reuse of its invoke
id (the stack hands its 255 ids out in turn).

### BacnetBatch

`plc_proto_read_object_properties` is one of the readers of `BacnetRead`, the
`Batcher`; its reads are the actions of that module, taken through `BatchReads`
with what `read_property_sync` makes of their return code. `BeginBatch` starts a
batch, `NextProperty` ends a property's turn, `Wake` is the end of the 100 ms
sleep and the look at `object_states` for a refusal. `turn` is a history
variable: what was so when the property's turn began, and whether the device
refused it since. A property is "unknown" when it has no value, no request and
no reader on it; of a known one the batch may report the old value, as the code
does. Several keys may repeat in `Properties`. A string
whose text is lost becomes a NULL in the result (`Stored`).

### BacnetReset

What `BacnetContext::reset` does to reads that are under way. A caller is
`Ensured` under `g_plc_mutex` and reads without it (`Reads`), so the release may
come at any point: `StopWorker`, `JoinWorker`, `ForgetDevices`
(`address_remove_device`), `ClearObjects`, `ClearIds`, `ComeBack`. `caller`
tells how far a reader got before: `addressed` once `resolve_target_address`
found its device in the stack's cache. A reader without an address cannot send.
`abandoned` is a history variable, the busy ids whose mapping a release
cleared. When a release happens is `BacnetReload`'s subject, here it may always.
Of `ObjectCache` a release is `Forget`, and only the clear of `object_states` may
be (`Forgets`); without a release this is `ImplementsObjectCache`. An ack that
is stored is `Answer`, one whose text cannot be allocated `Spoil`.

### BacnetValue

One property from end to end. `DeviceChanges` and `Write` (with `Accepts` and
`Converted`, the two parts of `convert_to_application_value`) change it in the
device; `Answer` is an ack on its way; `StoreNumber`, `StoreString`,
`StoreFails` (no memory) and `StoreUnsupported` are the ways through
`store_application_value` for the handler; `Read` and `BatchRead` copy
`cached_value`; `BatchStore` is what `plc_proto_read_object_properties` makes
of the copy for the field in question, `BatchRelease`
`plc_proto_free_object_properties`. A value is a type, a number, a pointer into
`heap` and a length; a union member that is read though another was written is
`Garbage`. `field` is the property it is about, with the datatypes the standard
gives it. Widths are scaled: a word has `WordBits` bits. `sent` and `author`
are history: what the device sent and the input it stems from. When a request
may be sent and which ack is for whom is `BacnetRead`'s subject; here an ack and
a cached copy may come at any time.

### BacnetWrite

`write_pending_map` gives every noted write its age and its timeout; of the
reads only the set of mapped invoke ids is kept (`invoke_id_to_key`), because
what reads and writes share is the ids: the same transactions of the stack,
and handlers that go by the id alone. `operation_mutex` is held from `Begin`
to `NoteWrite`/`NoteRead` or `SendFails`, as in `execute_write_property` and
`execute_read_property`; the other mutexes span one step each. A handler is
two steps, the lookup and `FreeInvokeId`, because it frees the id after it has
released the lock. `cleanup_stale_requests` is `SweepReads` (which reads are
stale depends on timestamps of `BacnetRead`, so any may be) and `SweepWrites`;
`since` is the time that has passed since it read `now`, so that an entry made
in between has a negative elapsed time, as in the code. The context is
initialised and connected throughout.

`disturbed` is a history variable that guards nothing. It collects the ids
that met one of four things after which the code cannot know whose entry it
finds: the stack came round to an id that datagrams of an earlier transaction
still carry; a reply came before its request was noted or after its id was
freed; the ack of a read did not decode and its mapping stayed; an abort or a
reject answered a write (`handle_abort_response` looks only among the reads). `PendingOwnsId` is about the other ids, the remaining
properties about all.

### ConfigUpdate

`config_update` is one step per call of the file system: `ReadFile` (before the
lock), `OpenLock`, `Lock`, `OpenTemp`, `WriteLines`, `Rename`, `Discard`,
`Unlock`, `RemoveLock`, and the failures that lead elsewhere. Names and files
(inodes) are apart, because what the code does wrong or right depends on it: a
lock file that was removed is still locked by those who have it open, and a
rename takes a name over. The temporary name is the process and the second. The
text is a sequence of lines, each with its section and key. `Rewritten` is the
scan (`config_update` goes by the last header it recognised, and does not know
`mstp:`), `current_section` and `Loaded` are the loader, which tracks sections
otherwise and cuts every number to the type of its field. `Crash` ends a
process: its locks go, its files stay. A request may ask for any member of
`bacnet_config_t`, also one the scan never writes (`Written` tells them apart). `overlapped` and `spoiled` are history
variables. `EditedFile` is the promise: a caller takes a copy of the whole file
and puts it in place, edited, in one step; `taken` is the text a call has read and
what it was asked, from `ReadFile` until the rename or a failure.

### MqttEntry

A caller is at `Enter` (it takes `g_ctx_mutex`), `Initialize`, `Watch`
(`hot_config_init`), `Connect`, which releases the mutex, then `Fetch` and
`Use`, without it: the operation reads `g_mqtt_ctx.userdata` and works on what
it points to. A monitor is `Baseline`, `Detect`, `Confirm`, `Release`,
`Reinitialize` or `MonitorEnds`, the two halves of `on_config_changed` under
the mutex. A call of `hot_config_stop` (`Stop`, made by `demo/main.cc:23`)
clears a flag and does not wait, so the old monitor and the next can coexist:
monitors are numbered by the stops before them. `stale` is the set of
operations whose context was freed under them. Calm means here that the file
is always there, no two edits share a second, none falls between the reading
of the file and the monitor's first look, and the program does not stop the
monitor. What the library's callbacks do with a released context is left out.

### BacnetReload

A caller passes through the stages of `plc_proto_read` up to the point where
the driver is connected: `Call` (the unlocked look at `pending_reload`),
`Recheck` (the second look, under `hot_config_mutex`), `LockPlc`, `Release`,
`Join`, `Reset`, then `Ensure`, `Initialize`, `Watch`, `Connect` under
`g_plc_mutex`. The monitor thread is `MonitorEnds`, `MonitorDetects`,
`MonitorFlags`. The file has a version and an mtime in seconds; `Edit` and
`Vanish` are the outside world. The driver's own mutexes are left out: they
are only taken under `g_plc_mutex`.

`calm` is chosen in the initial state and restricts the environment for the
properties whose name begins with Calm: the file is always there, edits fall
in different seconds, none falls between the reading of the file and the first
look of the monitor, and the monitor reports no change while a release is
under way (that last one is the deadlock of finding 2). Without calm anything
may happen, and the other invariants must still hold.

### MqttRing and MqttConn

`MqttRing`: every operation is one `msg_mutex` section, so one action. A
message is its arrival number and the length of its payload.

`MqttConn`: `connect_status` is accessed through a getter and a setter that
lock `state_mutex` for one access, so each access is a step, and each library
call is a step of its own. `link` is what MQTTAsync knows; it runs one callback
at a time and reports the outcome of every connect and disconnect. `mode` is
chosen at the start: the entry API or the driver API, and whether the
execution is calm (no `proto_connect` or `proto_disconnect` overlaps a
callback). `operation_status` is left out, nothing reads it.

## 3. What is checked

| run | instance | shows |
|---|---|---|
| `read` | 2 readers, 2 keys, 2 ids, 1 datagram, 2 versions, replies of six kinds, early and late; 6.5 M states up to symmetry | the tables agree, the status is true, a stored value is lost only to a failed allocation, no request is doubled, whatever the network does |
| `batch` | the batch and 1 reader, 1 key, 1 id, 1 datagram, 2 attempts, 2 versions, fair; 179 k states | a refusal and a value are the present turn's; the batch and every request end, even if the network loses everything; early, late and undecodable replies are excluded |
| `reset` | 1 reader, 2 keys, 2 ids, 2 datagrams, 2 versions, 1 release; 2.3 M states up to symmetry | refinement of `ObjectCache` before, during and after a release; no stranded request, no id freed while in use; what a release costs is ids |
| `bacnet_write` | 2 callers that read and write, 1 id, timeouts of 0 and 1 ticks, 2 datagrams, fair; 100 k states | no id of a write leaks; an undisturbed entry is the owner's; nothing is dropped early; everything overdue goes and every id comes back |
| `bacnet_reload` | 2 callers, a thread that asks for reloads, the monitor, up to 2 edits, fair; 45 k states | threads start and stop in pairs, no edit is forgotten, edits take effect, the driver comes back |
| `value` | 2 callers, one of them the batch, 9 fields, 13 device values and 18 inputs of every type, 3-bit words, 2 changes, 2 strings; 8.9 M states | a copied string keeps its text, what was written is read back, fields say what the device sent |
| `config_update` | 3 callers in 2 processes, 3 calls, 7 lines, 2 seconds, any call may fail and any process die, fair; 192 k states | refinement of `EditedFile`; an update that runs alone changes exactly the settings it was asked for and writes; no copy stays; every call ends |
| `mqtt_ring` | 3 slots, 7 messages, payloads below, at and above the limit; 894 k states | ring arithmetic, refinement of `DropOldest` |
| `mqtt_conn` | 2 threads, limit 1, fair | the status never claims a connection that is not there; the limit is never reached; calm pending states are real and end |
| `mqtt_entry` | 2 callers, the monitor, 1 stop, up to 3 edits, fair; 67 k states | one context, one start of the monitor, no edit is forgotten, edits take effect although reloads fail; only an edit takes a context from its user |
| `read_locks`, `bacnet_reload_deadlock` | the smallest instance that shows it | the findings below |

The type invariants are proved, not run: `TypeOK` of every module is the first
theorem of its proof module.

The properties, in the words of the code:

- `TablesAgree`: the reverse map, a handler that has taken an entry out of it,
  and a reader that is about to add one agree with `active_invoke_id`, and no
  key is mapped twice. So a reply never completes a newer request of its key,
  whatever the network does. (It is the conjunction of `MapCoherent`,
  `HandlerCoherent`, `OneRequestPerKey` and `WindowCoherent`.)
- `NoDuplicateRequest`: the guard documented at `impl/bacnet/README.md:3811`
  works for all threads together.
- `StatusTellsPending`: what callers and the batch read conclude from the status
  is right.
- `SuccessHadValue`: what they conclude from `PROTO_SUCCESS` is right but for one
  case. A key answered with `PROTO_SUCCESS` has had a value stored, and refreshes
  that are refused, time out, do not decode or have no type here leave it; an ack
  of a string whose text cannot be allocated takes it away, and callers are told
  `PROTO_SUCCESS` all the same until the next ack is stored.
- `RefusalIsCurrent`, `UnknownIsReadFresh`, `BatchEnds`: the batch read knows
  neither which request a value came from nor which one a status is about. The
  first two say it concludes rightly all the same.
- `TablesAgreeAgain`, `NoOrphanRequest`, `LostOnlyByReset`,
  `ImplementsForgetfulCache`, `EveryRequestEnds`: under the nominal conditions
  (no reply is handled before its mapping is inserted, no PDU outlives the reuse
  of its id, every reply decodes), the first four also across a release. The tables disagree between the two
  clears and at no other moment; that no read waits for a cleared mapping is due
  to the addresses being forgotten first; the clear of `object_states` forgets
  everything in one step, and no answer to an old question is credited later.
  Each condition is needed for something: dropping the third strands the
  request of an ack that does not decode; dropping the first strands a request
  in the same way; dropping the second lets a late reply be credited to a wrong
  key. The runs assume all three; the proofs show what needs the third and what
  does not (section 5).
- `RestartIsClean`, `ServedWhileConnected`, `CalmEditIsKnown`,
  `CalmEditIsApplied`, `CalmDriverComesBack`: the reload.
- `ImplementsDropOldest`: the ring. (`Window` follows it closely and is proved.)
- `OkMeansUp`, `LimitNeverReached`, `CalmPendingIsUnderWay`, `CalmPendingEnds`:
  the connection.
- `BusyIsTracked`, `PendingOwnsId`, `DroppedOnlyWhenOverdue`,
  `OverdueWriteGoes`, `IdComesBack`: the write path. The first and the last two
  hold even for the entries that an abort or an early ack leaves behind; that
  such an entry's sweep may free the id of another request is what the word
  "undisturbed" in `PendingOwnsId` excludes.
- `ImplementsEditedFile` (the comment at `proto_bacnet_utils.cc:970`, no
  half-written file), `SoloUpdateIsExact`, `QuietMeansClean`,
  `EveryUpdateEnds`: the configuration file. The first says more than that the
  file is whole: it is what edits of some of the calls made of the first one, and
  what a call undoes was put in place after it had read. The second composes the two parsers: what `config_update` writes is what the
  loader then reads, field by field, nothing else changed. It says what the code does and not
  what the header file promises: a field that is asked for and not written,
  `hot_config_enabled` or one of the `mstp_` fields, keeps its value although the
  call returns `PROTO_SUCCESS` (section 4). It says nothing of `cache_strategy`
  and of a `port` under `mstp:`, which may be written without being asked for.
- `StaleOnlyAfterEdit`: operations lose their context to a reload that an edit
  caused, never to stops, restarts or failed attempts.
- `HeldStringIsSent`, `ReadBackIsWritten`, `FieldIsProperty`: the conversions.
  The first is about sharing: a reader's string and the cache's are one buffer,
  so it matters that an ack neither reuses nor frees the one before. The second
  composes the two conversions, with the terminators that are added and cut;
  the third composes the second half of them with the batch's tests of types.
  `units` is a signed field, so it is right modulo a word; `cov_increment` is
  excluded unless it is a REAL (see section 4).
- `OneContext`, `StartedOnce`, and `CalmEditIsKnown` and `CalmEditIsApplied` of
  `MqttEntry`: the comments at `plc_mqtt_entry.c:64` and `73`, and hot
  configuration through failed reloads.

Bounds. Two readers, keys and ids are the least number for every conflict the
code can have: two callers of one key, two keys for one id (by reuse), two ids
for one key. More readers queue for the one mutex the first two contend for;
more ids lengthen the way to a reuse. In `read` one datagram is
under way at a time, which may be the late reply to an earlier request while the
present one is lost; in `reset` and `bacnet_write` two keep a late and a fresh
one at once. The `unallocated` ack is one of the replies of `read` only: in
`reset` and `batch` the run would pass five minutes, and what they say of it, the
step `Spoil` and the theorems of section 5, is proved for every set of replies.
A ring of three slots wraps, overruns and is emptied
at every offset within seven messages. In `bacnet_reload` two callers contend
for every step of a reload, and find the driver already released
(`ReleaseNothing`), while the third thread raises `pending_reload` at any
moment; two edits let one edit arrive while another is being applied. One
invoke id in `bacnet_write` means that every request reuses the last one's id,
the case all its hazards need; entries of different ids do not meet.
In `batch` one key is enough because the turns of different properties share
nothing but the reader; the other reader supplies the competing requests, and
one id makes every request reuse the last one's. In `reset` one release meets
reads before, during and after it; a second would find the same states but for
`abandoned`. One reader is enough there, since a second would wait for
`object_states_mutex`; two keys and ids and two datagrams let an answer to an
earlier question meet a later one. In `value` two changes let a second value, of
another type or length, follow the one a caller holds, and the two buffers are
the old and the new string's; words of three bits, bytes of two and one flag are
cut at each of their limits (13, and bit strings of two, three and four bits),
an enumerated 6 is negative in the field of the units,
and the inputs hold strings at, below and above the limit, with and without
terminators. In `config_update` two callers share a process and so a temporary name, the third has its own; two seconds let names differ or not; the document
has one section the scan does not know and a number (256) that its field's type
turns into 0; of the four fields asked for two are written and two are not. The theorems hold without the bounds.

Fairness. `batch`: a thread inside a call runs on, time passes, and a
mutex that is free again and again is acquired in the end (callers are cyclic
tasks that sleep between calls; the worker's loop comes to its sweep on every
turn). No message need arrive; but replies that overtake their
mapping, outlive the reuse of their id or do not decode are excluded, as in all
that builds on `BacnetReadNominal`, and the two liveness properties assume that
the lock cycle of finding 1 does not occur. `config_update`: a call runs on, and
`flock` wakes a waiter when the file is released again and again; that `flock`
fails is not counted on. `mqtt_conn`: threads run on and the library
reports an outcome, for which it has timeouts. `bacnet_write`: threads run on,
the sweep comes again and again, time passes; nothing of the device or the
network. `bacnet_reload`: the two applications read again and again, the
monitor looks again and again, locks are acquired in the end, and the datalink
comes up and the device answers if they are tried again and again (the code
tries again on every call); nothing of the thread that asks for reloads.
`mqtt_entry`: the same of its callers and monitors, and that the
initialisation succeeds if it is tried again and again.

Deadlock is checked everywhere except in the BACnet reload runs, where the
deadlock of finding 2 is reachable, and in `config_update`, where the calls are
bounded and every process may die.

## 4. Findings

1. Lock order (`NoLockCycle`): readers take `object_states_mutex` then
   `invoke_id_to_key_mutex`; the sweep and the abort and reject handlers take
   them the other way round. The documentation draws a single mutex.
2. Reload deadlock (`NoReloadDeadlock`): the reloading caller holds
   `hot_config_mutex` while it joins the monitor that waits for it.

Facts met on the way that no run states:

- The BACnet sweep of reads compares its threshold, "twice the request
  timeout" (`proto_bacnet_discovery.cc:282`), with the age of the cached
  value: a request just sent for an old or new key can be given up.
- An ack whose value does not decode (`proto_bacnet_callbacks.cc:97`), like a
  reply that is handled before its mapping is inserted, leaves its key marked
  as waiting for ever (`NoOrphanRequest` holds under the nominal conditions
  only), although `impl/bacnet/README.md:3845` has the mark cleared when the
  response arrives.
- An abort or reject of a write, and an ack handled before the entry is
  inserted, leave an entry in `write_pending_map`, which the comment at
  `proto_bacnet_internal.hpp:466` says holds unacknowledged writes only. It is
  dropped at its timeout (`OverdueWriteGoes`), and its id freed once more.
- A release clears `invoke_id_to_key` but leaves the stack's transactions: the
  ids of requests under way stay busy until a late reply (`LostOnlyByReset`).
  255 of them would end all requests.
- The batch read's `success_count` starts at 1 for the identifier
  (`proto_bacnet_batch.cpp:152`), so it always returns `PROTO_SUCCESS`, although
  `proto_bacnet.h:380` knows another outcome. A SIGNED present value is lost: the
  test for UNSIGNED is made twice (lines 175 and 177), so a value that was read
  with success keeps the mark that `proto_bacnet.h:355` gives "invalid";
  `FieldIsProperty` is about the fields that were filled. A property that has an
  old value is reported from the cache, also when its refresh was refused.
- `out_of_service`, `event_state`, `units` and `cov_increment` are taken from
  the union without a look at the type (`proto_bacnet_batch.cpp:197`, `205`,
  `227`, `245`): a `cov_increment` that is not a REAL becomes garbage. An
  `Unsigned_Int` of the stack, 64 bits, is cut to 32, and of a bit string eight
  bits are kept (`proto_bacnet_utils.cc:604`, `633`).
- A buffer that `store_application_value` allocates is never freed by the
  driver, as the copies given to callers may still point to it: every ack of a
  string costs one. When the allocation fails the cached value has a string
  type and no text, and `has_valid_cache` stays as it was: if it was set, the last
  good value is gone and callers, from the cache or while a refresh is pending,
  are told `PROTO_SUCCESS` with a NULL for a text (`SuccessHadValue` has this as
  its exception). The comments at
  `proto_bacnet_internal.hpp:432` ("whether there is a valid value") and
  `proto_bacnet_core.cc:735` do not reckon with it.
- `CON_PENDING` and `DCON_PENDING` are set after the library call
  (`proto_mqtt_core.c:377`, `419`), so a callback that runs in between is
  overwritten: `PendingIsUnderWay` holds in calm executions only, which is
  `CalmPendingIsUnderWay`.
- MQTT reads and writes use the context without the mutex under which the
  monitor thread releases it (`plc_mqtt_entry.c:102`): after an edit `stale` is
  not always empty.
- After `hot_config_stop` a failed reload leads the next call to start MQTT's
  monitoring again, possibly beside the old monitor.
- `max_reconnect_attempts` never takes effect (`LimitNeverReached` proves the
  branch dead): the counter is reset by every success, and the entry dials
  again on every call whatever the settings say.
- The BACnet driver's automatic reconnection
  (`check_and_reconnect_if_needed`) runs only in a worker, and a worker runs
  only while the driver is connected (`ServedWhileConnected`): it never acts.
- A configuration file missing for one look ends either monitor for good,
  while its `running` flag stays set; edits within one second are one edit.
- MQTT's `hot_config_init` leaves `running` set when it fails. `Watch` of
  `MqttEntry` has the failure that the file is missing; a failing
  `pthread_create` (`proto_mqtt_hot_config.c:126`), after which there is no
  monitor either and never will be, is not modelled.
- `config_update` reads the file before it takes its lock
  (`proto_bacnet_utils.cc:740`, `938`), so an update that overlaps another may
  undo it; it removes the lock file while others may wait for it, so two can be
  inside at once (`ImplementsEditedFile` holds all the same); two threads of one process
  share a temporary name within a second; short writes go unnoticed.
- `impl/bacnet/README.md:1633` and the comment at `proto_bacnet_utils.cc:728`
  have an update change only what is asked: `cache_strategy` is always written
  (892), and since the scan does not know `mstp:` an update of `network.port`
  may rewrite a `port` under `mstp:`. `hot_config_enabled` and the
  five `mstp_` fields are never written (`proto_bacnet_utils.cc:912`, and the
  headers of the scan at 809-824), although a caller may ask for them:
  `proto_bacnet.h:452-457` and its examples 2 and 3, and
  `impl/bacnet/README.md:1644` and 1691, say that the boolean is updated. The call
  returns `PROTO_SUCCESS`. No run of its own states this disagreement;
  `SoloUpdateIsExact` states the code's side of it, and its instance asks for both.

## 5. What is proved

Every theorem holds for all values of the constants that satisfy the named
assumptions, and every proof is checked to its last leaf.

- `BacnetReadProofs`. `TypeCorrect` first: a reader past its send has an id, a
  handler past its lookup a key. `MapCoherent` alone is not inductive: that a
  reply's step keeps it needs to know that the handler's own key is not mapped,
  that a reader inside is alone there (it holds the mutex), and that the key of
  that reader has no request. `TableInv` is the conjunction of `MapCoherent`,
  `HandlerCoherent`, `WindowCoherent` and the ownership of the mutexes; each
  group of actions has its lemma. `OneRequestPerKey` and `NoDuplicateRequest`
  follow from it; `StatusTellsPending` and `SuccessHadValue` have small
  invariants of their own on top (of the second: once a flag is set it stays, and
  the only step that makes an entry `lost` is the one `StoreFails` names,
  `HoldsStays`).
- The same module under the two conditions on the network (`NominalAssumption`),
  in four parts.
  The ids, if moreover every reply decodes (`EveryReplyDecodes`, the hypothesis
  of `UsedIdsStayBusy`, `NoOrphans`, `ResetLeavesNoOrphan` and of one conjunct of
  `TablesAgreeAgain`; all the rest does without): `NominalInv` adds to
  `UsedIdsAreBusy` and `NoOrphanRequest` what a reader past its send and a
  handler past its lookup know of their id.
  The refinement, `ReadsImplementCache`, whatever the replies: a reply whose
  header does not decode frees an id that is still mapped, and the next request
  may be sent under it, so a key cannot be said to own the ids mapped to it. It
  owns an id from its send, and the key the id was mapped to owns it no longer
  (`Owns`); no reply is looked up in between, and the insertion then replaces the
  old mapping. That an ack never takes a key back
  needs two more invariants. A PDU under an id that a key owns is about that key
  (`CurrentInv`); and any lower bound of the answers a key may still be given
  goes on to be one (`FloorInv`), as the device's values only grow and a fresh
  id has no PDU of an earlier request. The reading a key holds is such a bound
  (`HeldInv`), so `RefineStep` can map an applied ack to `Answer`, one that
  could not be stored to `Spoil`, a recorded
  request to `Ask`, every other end of a request to `GiveUp`.
  The batch: a property of which nothing is known has the device's present value
  for a bound, by the same lemma, whence `UnknownFresh`; `RefusalHolds` because
  the batch goes to sleep only when the status says NO_DATA.
  The release: between the two clears the tables need not agree, but nothing is
  active, no reader has an address and the worker is gone (`BetweenClears`); at
  every other stage `TableInv` holds, and `NominalInv` if every reply decodes
  (`ResetInv`). A reader about to record finds its mapping, or the handler of its
  reply, or its id given back already (`RecordingNoted`), so it leaves no id
  behind (`IdsLostOnlyByReset`).
  `ReleaseForgets`: between the clears no request is sent, which is all that
  `CurrentInv` and `FloorInv` need the tables for (`SendsFresh`), so both go
  through the release; the first clear maps to `Forget`, the second to nothing.
- `BacnetValueProofs`. `IInv` says of the device's value, the ack, the cache and
  every copy what input it stems from and, of a string, where its text is
  (`Kept`); it is preserved because the heap only grows (`AppendKeeps`,
  `CopiesUnchanged`). `StringsStay` and `ReadBack` follow. That a text has a first
  NUL, which `CString` needs, is well-foundedness of the natural numbers
  (`LeastExists`).
  `FieldHolds` needs `FieldInv`: the ack, the cache and every copy hold what the
  device sent in the union's member of its type (`Faithful`), whatever acks,
  failed allocations and copies come between. The rest is arithmetic. The flags
  of a bit string are added up by a recursive function, so they are first shown
  to be *some* sums (`AreSums`, `FlagsAreSums`), by the least position at which
  they were not; then the sums below a position stay under its power of two
  (`SumsBelow`), from there on grow by multiples of it (`SumsGrow`), and so show
  its bit (`SumsShowBits`). What SMT does not know of `2^n`, `Powers` takes from
  the cardinality of power sets (`FS_SUBSET`, a theorem of the TLAPS library whose
  own proof takes `2^(n + 1) = 2 * 2^n` for granted; so that recurrence, which no
  prover here knows, is the one fact `FieldHolds` has from the library's word).
- `ConfigUpdateProofs`. The hypotheses are those of the shipped `config.yaml` and
  of `bacnet_config_t` (`DocumentAssumption`): the file has no sections but the
  loader's, in whatever order and as often as one likes; what is asked for is
  any member of `bacnet_config_t`, in the type of its field, and not 0 unless it
  is the boolean.
  `CopiesApart`: until something is spoiled the file in place is whole, no
  temporary name stands for it, no two names and no two callers share a file, and
  what is about to be renamed is whole; `NeverTorn` is its first conjunct.
  `EditInPlace` adds that a call that has written has exactly its edit in its
  copy. So a rename maps to `Put` of `EditedFile`, and every other step to
  `Take`, `GiveUp` or nothing (`PromisedStep`): `FileIsEdited`.
  `SoloUpdateHolds` has two halves. The protocol: a call that is not noted as
  overlapped is the only one (`CallsApart`), so the file it put in place is still
  there (`EditInPlace`). The parsers: both are recursions over the lines, and both
  know the section of every line, but for `mstp` in the scan
  (`LoaderKnowsSection`, `ScanKnowsSection`; again by the least line where they
  would not), so a line the scan writes
  is rewritten exactly when the field the loader takes from it was asked for
  (`EditIsExact`); under `mstp` the scan is wrong about the section, but rewrites
  no line whose key it does not look for (`OnlyScanKeys`).
  `NoCopyLeftBehind`: every temporary name belongs to a caller that will remove
  or rename it (`NamesOwned`).
- `BacnetReloadProofs`. The ownership of the two mutexes comes with the types;
  `ReloadInv` adds what each stage of a caller implies (`StageInv`), what the
  monitor's stage implies (`MonitorInv`), the worker and connection state
  (`ServedInv`), and the order of versions and mtimes (`FileInv`). The three
  properties are conjuncts or consequences.
- `MqttRingProofs`. Modular arithmetic is settled in three lemmas
  (`FollowingWraps`, `IndexWraps`, `WindowWraps`); `Window` is inductive with
  the types; `Refinement` maps every step of the ring to a step of the queue.
- `MqttConnProofs`. `ConnInv` says which status and link each callback implies;
  `CalmInv` that in calm executions what a thread decided on still holds when it
  sets the status.
- `BacnetWriteProofs`. `BusyIsTracked` becomes inductive when the caller that
  has sent the request is known to note a write (`WriteIsTracked`).
  `PendingOwnsId` needs that all who hold an undisturbed id agree with the
  stack about it: entry, mapping, caller, handler and the datagrams under way
  (`Owned`), and that one caller at a time is inside (`LockInv`).
- `MqttEntryProofs`. Ownership of the mutex comes with the types; `ContextInv`
  says what each stage of a caller or monitor implies of the context,
  `StartInv` that a caller about to start the monitor finds none, `CalmInv`
  that from its first look on the one monitor knows what was loaded. `StaleOnlyAfterEdit`
  needs that without an edit no monitor ever comes to its release.

Only model-checked: the nine liveness properties (`BatchEnds`,
`EveryRequestEnds`, `OverdueWriteGoes`, `IdComesBack`, the two `CalmEditIsApplied`,
`CalmDriverComesBack`, `CalmPendingEnds`, `EveryUpdateEnds`), which rest on
fairness and `ENABLED`. Every other property of the passing runs is proved. Where
a definition is recursive (`current_section`, `Flags`), nothing is proved
by induction over its steps, for which the provers have no rule: the proofs go by
the least number at which a claim would fail.

## 6. Plan

What is left, in the order of importance.

1. `MqttDriver`: `MqttEntry` composed with `MqttConn` and `MqttRing`, with the
   library's callbacks into a released context.
2. `BacnetReset` with writers: `write_pending_map` is cleared last, and a write
   between the clears keeps its id until a reply.
3. `ConfigUpdate` in place of `Edit` in `BacnetReload`.

## 7. Not modelled

- MQTT send and subscribe: the callbacks set `operation_status`, which nothing
  reads, and log.
- MQTT configuration and JSON formatting, logging, statistics, the table the
  loader prints: no state.
- The MQTT library's callbacks into a context that was released: whether there
  can be any depends on `MQTTAsync_destroy`, which is not in the repository.
- Datalink set-up is one step that succeeds or fails (`BacnetReload`).
- Process exit (`bacnet_cleanup`, `hot_config_cleanup`),
  `BacnetDriver::disconnect`, `reload_config` and `bacnet_data_value_free`,
  which nothing calls, and the
  synchronous `proto_mqtt.c`, which the entry superseded.
- Modbus is a pass-through to libmodbus without state.
- Vendored code: of the 45 thousand lines of C and C++ in the repository some
  38 thousand are the headers of bacnet-stack, paho-mqtt, libmodbus and spdlog,
  and demos. The stack, the MQTT library and the file system appear as external
  parts, modelled from how the drivers use them. Of the drivers' own seven
  thousand lines the modules cover nearly half; the rest is declarations,
  logging and what is listed here.
