---------------------------- MODULE ConfigUpdate ----------------------------
(***************************************************************************)
(* The configuration file of the BACnet driver: config_update, called by   *)
(* threads of several processes, and the loader that reads what it wrote.  *)
(*                                                                         *)
(* config_update reads the file, edits the lines in memory, takes a lock   *)
(* on a lock file, writes a temporary file and renames it over the file.   *)
(* A step is one call of the file system.  Names and the files they stand  *)
(* for (inodes) are kept apart: a file that is open or locked lives on     *)
(* when its name is removed or taken over.                                 *)
(*                                                                         *)
(* The text is a sequence of lines "key: value", each in a section; what   *)
(* the scan and the loader do with it are operators of the line's place.   *)
(* Comments, indentation and quoting are left out.                         *)
(***************************************************************************)
EXTENDS Integers, Sequences

CONSTANTS
  Callers,      (* threads that call config_update                         *)
  Process,      (* Process[c]: the process c belongs to                    *)
  Document,     (* the lines of the file in order: <<section, key>>        *)
  Values,       (* what may stand after a key                              *)
  Requests,     (* what may be asked: functions from <<section, key>> to   *)
                (* values, for the fields of bacnet_config_t that are set  *)
  FirstContent, (* the lines' values at the start                          *)
  Files,        (* files (inodes) for the settings                         *)
  LockFiles,    (* files (inodes) to lock                                  *)
  NoFile,       (* "no such name", "not open"                              *)
  Nobody,       (* holder of a free lock                                   *)
  Empty, Torn,  (* contents of a file just truncated, or written in part   *)
  Seconds,      (* what time(nullptr) may say                              *)
  MaxCalls      (* bound: calls of config_update                           *)

Lines     == 1..Len(Document)
Whole     == [Lines -> Values]
Broken    == {Empty, Torn}
Contents  == Whole \cup Broken
Processes == {Process[c] : c \in Callers}

ASSUME ConfigAssumption ==
  /\ Document \in Seq(STRING \X STRING)
  /\ Values \subseteq Nat /\ 0 \in Values
  /\ FirstContent \in Whole
  /\ Empty \notin Whole /\ Torn \notin Whole
  /\ NoFile \notin Files /\ NoFile \notin LockFiles
  /\ Nobody \notin Callers
  /\ Process \in [Callers -> Processes]
  /\ MaxCalls \in Nat
  /\ Files # {}
  /\ \A req \in Requests : \A f \in DOMAIN req : req[f] \in Values

-----------------------------------------------------------------------------
(***************************************************************************)
(* The scan of config_update.  It goes by the last header it recognised;   *)
(* it does not know "mstp:".  A line is rewritten when its key is one of   *)
(* that section's and the caller asks for it; cache_strategy always is.    *)
(***************************************************************************)
UpdateKeys ==
  [discovery    |-> {"target_device_start", "target_device_end", "whois_retry",
                     "response_timeout_ms"},
   local_device |-> {"instance_id", "max_apdu"},
   network      |-> {"interface", "port", "broadcast_address"},
   services     |-> {"read_timeout_ms", "write_timeout_ms", "default_priority",
                     "cache_expiry_ms", "cache_strategy", "datalink_maintenance_ms"},
   connection   |-> {"max_reconnect_attempts", "reconnect_interval_ms"},
   hot_config   |-> {"polling_interval_ms"}]

Section(i) == Document[i][1]
Key(i)     == Document[i][2]

Last(S) == CHOOSE j \in S : \A k \in S : k <= j

HeadersUpTo(i) == {j \in 1..i : Section(j) \in DOMAIN UpdateKeys}
Scanned(i)     == IF HeadersUpTo(i) = {} THEN "None" ELSE Section(Last(HeadersUpTo(i)))

(* Mutant: the test whether the field is asked for is left out.            *)
Rewritten_Unasked(i, req) ==
  HeadersUpTo(i) # {} /\ Key(i) \in UpdateKeys[Scanned(i)]

Rewritten(i, req) ==
  /\ HeadersUpTo(i) # {}
  /\ Key(i) \in UpdateKeys[Scanned(i)]
  /\ <<Scanned(i), Key(i)>> \in DOMAIN req \/ Key(i) = "cache_strategy"

NewValue(i, req) ==
  LET f == <<Scanned(i), Key(i)>> IN IF f \in DOMAIN req THEN req[f] ELSE 0

Edited(content, req) ==
  IF content \in Broken THEN content
  ELSE [i \in Lines |-> IF Rewritten(i, req) THEN NewValue(i, req) ELSE content[i]]

(***************************************************************************)
(* bacnet_load_config_from_yaml.  A section is entered at its header, if   *)
(* the section the parser is in allows it; the end of a mapping leads back *)
(* to "bacnet", but not from "mstp".  Every value passes through the type  *)
(* of its field, and some that are 0 after that give way to the default.   *)
(***************************************************************************)
AllSections == DOMAIN UpdateKeys \cup {"mstp"}
SwitchFrom  == AllSections \cup {"bacnet"}
ClosedByEnd == DOMAIN UpdateKeys

Starts(i) == i = 1 \/ (i > 1 /\ Section(i - 1) # Section(i))
Ends(i)   == i > 0 /\ (i = Len(Document) \/ Section(i + 1) # Section(i))

current_section[i \in 0..Len(Document)] ==
  IF i = 0 THEN "bacnet"
  ELSE LET before == current_section[i - 1]
           left   == IF Ends(i - 1) /\ before \in ClosedByEnd THEN "bacnet" ELSE before
       IN  IF Starts(i) /\ left \in SwitchFrom THEN Section(i) ELSE left

Default == -1            \* the field's value in bacnet::defaults

Guarded ==
  {"read_timeout_ms", "write_timeout_ms", "default_priority", "datalink_maintenance_ms",
   "max_reconnect_attempts", "reconnect_interval_ms", "polling_interval_ms"}

Bytes == {"whois_retry", "default_priority", "max_reconnect_attempts", "mac_address",
          "max_master", "max_info_frames", "cache_strategy"}

InType(key, v) == IF key \in Bytes THEN v % 256 ELSE v

Parsed(key, v) ==
  IF key \in Guarded /\ InType(key, v) = 0 THEN Default ELSE InType(key, v)

(* The value a setting has after the file is loaded.                       *)
Loaded(content, f) ==
  LET at == {i \in Lines : <<current_section[i], Key(i)>> = f} IN
  IF at = {} THEN Default ELSE Parsed(f[2], content[Last(at)])

(* As the shipped config.yaml: the file has no sections but those the      *)
(* loader knows.  What can be asked for is any member of bacnet_config_t,  *)
(* also one no line of config_update writes; its number has the type of    *)
(* its setting.  A number 0 or an empty text is not asked for; only        *)
(* hot_config_enabled, unset at -1, can be asked to be 0.                  *)
ASSUME DocumentAssumption ==
  /\ \A i \in Lines : Section(i) \in AllSections
  /\ \A req \in Requests : \A f \in DOMAIN req :
       /\ InType(f[2], req[f]) = req[f]
       /\ req[f] = 0 => f = <<"hot_config", "enabled">>

-----------------------------------------------------------------------------
VARIABLES
  data,        (* what each file (inode) holds                             *)
  config_path, (* the file config.yaml names                               *)
  temp_path,   (* the file each temporary name stands for                  *)
  lock_path,   (* the file config.yaml.lock names                          *)
  flock,       (* who holds the lock of each lock file                     *)
  updater,     (* where each call of config_update is                      *)
  crashed,     (* processes that are gone                                  *)
  calls,       (* how often config_update was called                       *)
  overlapped,  (* history: callers another call ran beside                 *)
  spoiled      (* history: a write came out short, or two writers had the  *)
               (* same temporary file                                      *)

vars == <<data, config_path, temp_path, lock_path, flock, updater, crashed,
          calls, overlapped, spoiled>>

TempNames == Processes \X Seconds
NoName    == <<>>
NoRequest == <<>>

Idle == [pc |-> "idle", request |-> NoRequest, lines |-> Empty, lock |-> NoFile,
         name |-> NoName, fd |-> NoFile, ok |-> FALSE]

Steps == {"idle", "open", "lock", "temp", "write", "rename", "discard", "unlock", "remove"}

Updater == [pc: Steps, request: Requests \cup {NoRequest}, lines: Contents,
            lock: LockFiles \cup {NoFile}, name: TempNames \cup {NoName},
            fd: Files \cup {NoFile}, ok: BOOLEAN]

Asking(c)  == updater[c].pc \in {"open", "lock", "temp", "write"}
Copying(c) == updater[c].pc \in {"write", "rename", "discard"}

(* Every variable keeps its type; the name and the file of the temporary   *)
(* copy are known from the moment it is open.                              *)
TypeOK ==
  /\ data \in [Files -> Contents]
  /\ config_path \in Files
  /\ temp_path \in [TempNames -> Files \cup {NoFile}]
  /\ lock_path \in LockFiles \cup {NoFile}
  /\ flock \in [LockFiles -> Callers \cup {Nobody}]
  /\ updater \in [Callers -> Updater]
  /\ \A c \in Callers : Asking(c) => updater[c].request \in Requests
  /\ \A c \in Callers : Copying(c) => updater[c].name \in TempNames /\ updater[c].fd \in Files
  /\ crashed \subseteq Processes
  /\ calls \in 0..MaxCalls
  /\ overlapped \subseteq Callers
  /\ spoiled \in BOOLEAN

Init ==
  /\ config_path = CHOOSE f \in Files : TRUE
  /\ data = [f \in Files |-> IF f = config_path THEN FirstContent ELSE Empty]
  /\ temp_path = [n \in TempNames |-> NoFile]
  /\ lock_path = NoFile
  /\ flock = [l \in LockFiles |-> Nobody]
  /\ updater = [c \in Callers |-> Idle]
  /\ crashed = {}
  /\ calls = 0
  /\ overlapped = {}
  /\ spoiled = FALSE

At(c, pc) == updater[c].pc = pc /\ Process[c] \notin crashed

GoTo(c, pc) == updater' = [updater EXCEPT ![c].pc = pc]

Others(c) == {d \in Callers \ {c} : updater[d].pc # "idle" /\ Process[d] \notin crashed}

-----------------------------------------------------------------------------
(* The lines are read before the lock is taken.                            *)
ReadFile(c, req) ==
  /\ At(c, "idle")
  /\ calls < MaxCalls /\ calls' = calls + 1
  /\ updater' = [updater EXCEPT ![c] =
       [Idle EXCEPT !.pc = "open", !.request = req, !.lines = data[config_path]]]
  /\ overlapped' = IF Others(c) = {} THEN overlapped \ {c}
                   ELSE overlapped \cup Others(c) \cup {c}
  /\ UNCHANGED <<data, config_path, temp_path, lock_path, flock, crashed, spoiled>>

(* Which of the unused files a new name gets makes no difference.          *)
OneOf(S) == IF S = {} THEN {} ELSE {CHOOSE f \in S : TRUE}

(* fopen(lock_path, "w"): the file the name stands for, or a new one.      *)
FreshLocks ==
  {l \in LockFiles : l # lock_path /\ flock[l] = Nobody
                     /\ \A d \in Callers : updater[d].lock # l}

OpenLock(c) ==
  /\ At(c, "open")
  /\ \E l \in IF lock_path # NoFile THEN {lock_path} ELSE OneOf(FreshLocks) :
       /\ lock_path' = l
       /\ updater' = [updater EXCEPT ![c].pc = "lock", ![c].lock = l]
  /\ UNCHANGED <<data, config_path, temp_path, flock, crashed, calls, overlapped, spoiled>>

OpenLockFails(c) ==
  /\ At(c, "open")
  /\ updater' = [updater EXCEPT ![c] = Idle]
  /\ UNCHANGED <<data, config_path, temp_path, lock_path, flock, crashed,
                 calls, overlapped, spoiled>>

Lock(c) ==
  /\ At(c, "lock")
  /\ flock[updater[c].lock] = Nobody
  /\ flock' = [flock EXCEPT ![updater[c].lock] = c]
  /\ GoTo(c, "temp")
  /\ UNCHANGED <<data, config_path, temp_path, lock_path, crashed, calls, overlapped, spoiled>>

(* This way out leaves the lock file behind.                               *)
LockFails(c) ==
  /\ At(c, "lock")
  /\ updater' = [updater EXCEPT ![c] = Idle]
  /\ UNCHANGED <<data, config_path, temp_path, lock_path, flock, crashed,
                 calls, overlapped, spoiled>>

(***************************************************************************)
(* fopen(temp_path, "w"): the name is the process and the second.  If it   *)
(* is there already the same file is truncated, whoever writes it.         *)
(***************************************************************************)
FreshFiles ==
  {f \in Files : f # config_path /\ (\A n \in TempNames : temp_path[n] # f)
                 /\ \A d \in Callers : updater[d].fd # f}

(* Mutant: the copy is written over the file itself.                       *)
OpenTemp_InPlace(c) ==
  /\ At(c, "temp")
  /\ \E second \in Seconds : LET n == <<Process[c], second>> IN
       /\ temp_path' = [temp_path EXCEPT ![n] = config_path]
       /\ data' = [data EXCEPT ![config_path] = Empty]
       /\ updater' = [updater EXCEPT ![c].pc = "write", ![c].name = n, ![c].fd = config_path]
  /\ UNCHANGED <<config_path, lock_path, flock, crashed, calls, overlapped, spoiled>>

OpenTemp(c) ==
  /\ At(c, "temp")
  /\ \E second \in Seconds : LET n == <<Process[c], second>> IN
     \E f \in IF temp_path[n] # NoFile THEN {temp_path[n]} ELSE OneOf(FreshFiles) :
       /\ temp_path' = [temp_path EXCEPT ![n] = f]
       /\ data' = [data EXCEPT ![f] = Empty]
       /\ updater' = [updater EXCEPT ![c].pc = "write", ![c].name = n, ![c].fd = f]
       /\ spoiled' = (spoiled \/ temp_path[n] # NoFile)
  /\ UNCHANGED <<config_path, lock_path, flock, crashed, calls, overlapped>>

OpenTempFails(c) ==
  /\ At(c, "temp")
  /\ GoTo(c, "unlock")
  /\ UNCHANGED <<data, config_path, temp_path, lock_path, flock, crashed,
                 calls, overlapped, spoiled>>

(* fputs, fflush, fsync and fclose: none of them is asked whether it could *)
(* write.  On top of what another writer left, the result may be a mix.    *)
WriteLines(c) ==
  LET f == updater[c].fd  new == Edited(updater[c].lines, updater[c].request) IN
  /\ At(c, "write")
  /\ \/ data[f] = Empty /\ data' = [data EXCEPT ![f] = new] /\ UNCHANGED spoiled
     \/ data' = [data EXCEPT ![f] = Torn] /\ spoiled' = TRUE
  /\ GoTo(c, "rename")
  /\ UNCHANGED <<config_path, temp_path, lock_path, flock, crashed, calls, overlapped>>

(* The file the name config.yaml stood for is gone, if nobody has it open. *)
Rename(c) ==
  LET n == updater[c].name IN
  /\ At(c, "rename")
  /\ temp_path[n] # NoFile
  /\ config_path' = temp_path[n]
  /\ data' = IF \E d \in Callers : updater[d].fd = config_path THEN data
             ELSE [data EXCEPT ![config_path] = Empty]
  /\ temp_path' = [temp_path EXCEPT ![n] = NoFile]
  /\ updater' = [updater EXCEPT ![c].pc = "unlock", ![c].name = NoName, ![c].fd = NoFile, ![c].ok = TRUE]
  /\ UNCHANGED <<lock_path, flock, crashed, calls, overlapped, spoiled>>

RenameFails(c) ==
  /\ At(c, "rename")
  /\ GoTo(c, "discard")
  /\ UNCHANGED <<data, config_path, temp_path, lock_path, flock, crashed,
                 calls, overlapped, spoiled>>

Discard_Forgotten(c) ==                            \* mutant: no remove(temp_path)
  /\ At(c, "discard")
  /\ updater' = [updater EXCEPT ![c].pc = "unlock", ![c].name = NoName, ![c].fd = NoFile]
  /\ UNCHANGED <<data, config_path, temp_path, lock_path, flock, crashed,
                 calls, overlapped, spoiled>>

Discard(c) ==
  /\ At(c, "discard")
  /\ temp_path' = [temp_path EXCEPT ![updater[c].name] = NoFile]
  /\ updater' = [updater EXCEPT ![c].pc = "unlock", ![c].name = NoName, ![c].fd = NoFile]
  /\ UNCHANGED <<data, config_path, lock_path, flock, crashed, calls, overlapped, spoiled>>

Unlock_Forgotten(c) ==                             \* mutant: the lock file stays open
  /\ At(c, "unlock")
  /\ GoTo(c, "remove")
  /\ UNCHANGED <<data, config_path, temp_path, lock_path, flock, crashed,
                 calls, overlapped, spoiled>>

Unlock(c) ==
  /\ At(c, "unlock")
  /\ flock' = [flock EXCEPT ![updater[c].lock] = Nobody]
  /\ updater' = [updater EXCEPT ![c] = [Idle EXCEPT !.pc = "remove"]]
  /\ UNCHANGED <<data, config_path, temp_path, lock_path, crashed, calls, overlapped, spoiled>>

(* remove(lock_path), whichever file the name stands for by now.           *)
RemoveLock(c) ==
  /\ At(c, "remove")
  /\ lock_path' = NoFile
  /\ updater' = [updater EXCEPT ![c] = Idle]
  /\ UNCHANGED <<data, config_path, temp_path, flock, crashed, calls, overlapped, spoiled>>

(* A process ends where it is: its locks and open files are released, the  *)
(* names it made stay.                                                     *)
Crash(p) ==
  /\ p \in Processes \ crashed
  /\ crashed' = crashed \cup {p}
  /\ flock' = [l \in LockFiles |->
       IF flock[l] # Nobody /\ Process[flock[l]] = p THEN Nobody ELSE flock[l]]
  /\ updater' = [c \in Callers |-> IF Process[c] = p THEN Idle ELSE updater[c]]
  /\ UNCHANGED <<data, config_path, temp_path, lock_path, calls, overlapped, spoiled>>

Update(c) ==
  \/ OpenLock(c) \/ OpenLockFails(c) \/ Lock(c) \/ OpenTemp(c) \/ OpenTempFails(c)
  \/ WriteLines(c) \/ Rename(c) \/ RenameFails(c) \/ Discard(c)
  \/ Unlock(c) \/ RemoveLock(c)

Next ==
  \/ \E c \in Callers : Update(c) \/ LockFails(c) \/ \E req \in Requests : ReadFile(c, req)
  \/ \E p \in Processes : Crash(p)

Spec == Init /\ [][Next]_vars

(* A call in progress runs on; flock wakes a waiter in the end when the    *)
(* file it waits for is released again and again.  That flock fails is not *)
(* counted on.                                                             *)
FairSpec ==
  /\ Spec
  /\ \A c \in Callers : WF_vars(Update(c)) /\ SF_vars(Lock(c))
-----------------------------------------------------------------------------
(* What a call has read and will put in place, edited, if all goes well.   *)
Copied(c) ==
  IF updater[c].pc \in {"open", "lock", "temp", "write", "rename"}
  THEN {<<updater[c].lines, updater[c].request>>} ELSE {}

Promised ==
  INSTANCE EditedFile WITH
    First <- FirstContent, Edit <- Edited, file <- data[config_path],
    taken <- [c \in Callers |-> Copied(c)], damaged <- spoiled

(* utils.cc:970 "no half-written file appears", and more: what config.yaml *)
(* names changes in one step from one whole text to another, which is the  *)
(* edit a call made of the file it read.  Crashes, failing calls and       *)
(* overlapping updates never leave anything else; only a short write       *)
(* nobody checks, or two threads of one process that use the same          *)
(* temporary name in the same second, may.                                 *)
ImplementsEditedFile == Promised!Spec

(***************************************************************************)
(* What one update that returned PROTO_SUCCESS means for the settings the  *)
(* loader then reads: a field asked for that the scan writes takes the     *)
(* value asked for, every other field keeps its value, also when the line  *)
(* beside it is rewritten.                                                 *)
(*                                                                         *)
(* A field the scan does not write keeps its value EVEN IF IT WAS ASKED    *)
(* FOR: proto_bacnet.h:452-457 says that hot_config_enabled is updated,    *)
(* and the mstp_ fields are asked for like any other; utils.cc:912-919     *)
(* has no code for the first, the scan no section for the others, and the  *)
(* call succeeds all the same.  The property is what the code does.        *)
(*                                                                         *)
(* It is said of a call that ran alone, as calls that overlap lose each    *)
(* other's changes, and neither of cache_strategy, which is written even   *)
(* if not asked for, nor of a line under "mstp" whose key is also one the  *)
(* scan looks for ("port"), which is taken for that of "network".          *)
(***************************************************************************)
ScanKeys == UNION {UpdateKeys[s] : s \in DOMAIN UpdateKeys}

Exempt(f) == f[2] = "cache_strategy" \/ (f[1] = "mstp" /\ f[2] \in ScanKeys)

Written(f) == f[1] \in DOMAIN UpdateKeys /\ f[2] \in UpdateKeys[f[1]]

Field(i) == <<Section(i), Key(i)>>

Expected(c, f) ==
  IF f \in DOMAIN updater[c].request /\ Written(f) THEN updater[c].request[f]
  ELSE Loaded(updater[c].lines, f)

Finished(c) == updater[c].pc = "unlock" /\ updater[c].ok

Alone(c) == c \notin overlapped /\ ~spoiled

SoloUpdateIsExact ==
  \A c \in Callers : Finished(c) /\ Alone(c) =>
    \A i \in Lines : ~Exempt(Field(i)) => Loaded(data[config_path], Field(i)) = Expected(c, Field(i))

(* When no call is in progress and no process died, no temporary copy is   *)
(* left: every way out of config_update removes or renames its own.        *)
QuietMeansClean ==
  (crashed = {} /\ \A c \in Callers : updater[c].pc = "idle") =>
    \A n \in TempNames : temp_path[n] = NoFile

(* A call that began ends, though flock may block it: no lock outlives its *)
(* holder.                                                                 *)
EveryUpdateEnds ==
  \A c \in Callers : updater[c].pc # "idle" ~> updater[c].pc = "idle"
=============================================================================
