------------------------- MODULE ConfigUpdateProofs -------------------------
(***************************************************************************)
(* What config_update keeps true for any number of callers and processes.  *)
(***************************************************************************)
EXTENDS ConfigUpdate, FiniteSetTheorems, WellFoundedInduction, TLAPS

(* Until the first short write or shared name: the file in place is whole  *)
(* and no copy, each copy belongs to one name and one caller, and what a   *)
(* caller is about to rename is whole.                                     *)
CopiesApart ==
  /\ data[config_path] \notin Broken
  /\ \A n \in TempNames : temp_path[n] # config_path
  /\ \A m, n \in TempNames : temp_path[m] = temp_path[n] /\ temp_path[m] # NoFile => m = n
  /\ \A c \in Callers : Copying(c) => temp_path[updater[c].name] = updater[c].fd
  /\ \A c, d \in Callers : Copying(c) /\ Copying(d) /\ c # d => updater[c].fd # updater[d].fd
  /\ \A c \in Callers : updater[c].pc = "rename" => data[updater[c].fd] \notin Broken
  /\ \A c \in Callers : updater[c].pc \in {"open", "lock", "temp", "write"} =>
       updater[c].lines \notin Broken

(* Every temporary name is some live caller's.                             *)
NamesOwned ==
  crashed = {} => \A n \in TempNames : temp_path[n] # NoFile =>
    \E c \in Callers : Copying(c) /\ updater[c].name = n

(* What a call has read and been asked for is known until its end.  Its    *)
(* copy is its edit, and, as long as no other call was beside it, so is    *)
(* the file it put in place.                                               *)
Done(c)   == updater[c].pc = "rename" \/ Finished(c)
EditOf(c) == Edited(updater[c].lines, updater[c].request)

EditInPlace ==
  \A c \in Callers :
    /\ Done(c) => updater[c].lines \notin Broken /\ updater[c].request \in Requests
    /\ updater[c].pc = "rename" => data[updater[c].fd] = EditOf(c)
    /\ Finished(c) /\ c \notin overlapped => data[config_path] = EditOf(c)

(* A dead process has no call under way, a call is not successful before   *)
(* its rename, and one that is not noted as overlapped is the only one.    *)
CallsApart ==
  \A c \in Callers :
    /\ Process[c] \in crashed => updater[c].pc = "idle"
    /\ updater[c].ok => updater[c].pc = "unlock"
    /\ updater[c].pc # "idle" /\ c \notin overlapped =>
         \A d \in Callers \ {c} : updater[d].pc = "idle"

-----------------------------------------------------------------------------
(* The edit of whole lines is whole again, and of broken ones is nothing   *)
(* new.                                                                    *)
LEMMA EditedType ==
  ASSUME NEW content \in Contents, NEW req \in Requests
  PROVE  /\ Edited(content, req) \in Contents
         /\ content \notin Broken => Edited(content, req) \notin Broken
<1>1. CASE content \in Broken
  BY <1>1 DEF Edited, Contents
<1>2. CASE content \notin Broken
  <2>1. content \in Whole
    BY <1>2 DEF Contents
  <2>2. \A i \in Lines : NewValue(i, req) \in Values
    BY ConfigAssumption DEF NewValue
  <2>3. Edited(content, req) = [i \in Lines |->
          IF Rewritten(i, req) THEN NewValue(i, req) ELSE content[i]]
    BY <1>2 DEF Edited
  <2>4. Edited(content, req) \in Whole
    BY <2>1, <2>2, <2>3 DEF Whole
  <2> QED BY <2>4, ConfigAssumption DEF Contents, Broken
<1> QED BY <1>1, <1>2

(* What TypeOK says of one caller.                                         *)
UpdaterOK(u) ==
  /\ u \in Updater
  /\ u.pc \in {"open", "lock", "temp", "write"} => u.request \in Requests
  /\ u.pc \in {"write", "rename", "discard"} => u.name \in TempNames /\ u.fd \in Files

LEMMA TypeOKSplit ==
  TypeOK <=>
    /\ data \in [Files -> Contents] /\ config_path \in Files
    /\ temp_path \in [TempNames -> Files \cup {NoFile}]
    /\ lock_path \in LockFiles \cup {NoFile}
    /\ flock \in [LockFiles -> Callers \cup {Nobody}]
    /\ updater = [c \in Callers |-> updater[c]] /\ \A c \in Callers : UpdaterOK(updater[c])
    /\ crashed \subseteq Processes /\ calls \in 0..MaxCalls /\ overlapped \subseteq Callers
    /\ spoiled \in BOOLEAN
BY DEF TypeOK, UpdaterOK, Asking, Copying

LEMMA TypeOKSplitNext ==
  TypeOK' <=>
    /\ data' \in [Files -> Contents] /\ config_path' \in Files
    /\ temp_path' \in [TempNames -> Files \cup {NoFile}]
    /\ lock_path' \in LockFiles \cup {NoFile}
    /\ flock' \in [LockFiles -> Callers \cup {Nobody}]
    /\ updater' = [c \in Callers |-> updater'[c]] /\ \A c \in Callers : UpdaterOK(updater'[c])
    /\ crashed' \subseteq Processes /\ calls' \in 0..MaxCalls /\ overlapped' \subseteq Callers
    /\ spoiled' \in BOOLEAN
BY DEF TypeOK, UpdaterOK, Asking, Copying

LEMMA IdleOK ==
  /\ UpdaterOK(Idle) /\ UpdaterOK([Idle EXCEPT !.pc = "remove"])
  /\ Idle.pc = "idle" /\ [Idle EXCEPT !.pc = "remove"].pc = "remove"
BY DEF UpdaterOK, Updater, Idle, Steps, Contents, Broken

(* A caller that moves on keeps its type if the next step asks for nothing *)
(* that it does not know yet.                                              *)
LEMMA MovedOK ==
  ASSUME NEW u, UpdaterOK(u), NEW pc \in Steps,
         pc \in {"open", "lock", "temp", "write"} => u.request \in Requests,
         pc \in {"write", "rename", "discard"} => u.name \in TempNames /\ u.fd \in Files
  PROVE  UpdaterOK([u EXCEPT !.pc = pc])
<1> DEFINE v == [u EXCEPT !.pc = pc]
<1>1. u \in Updater
  BY DEF UpdaterOK
<1>2. /\ v \in Updater /\ v.pc = pc
      /\ v.request = u.request /\ v.name = u.name /\ v.fd = u.fd
  BY <1>1 DEF Updater
<1> HIDE DEF v
<1>3. UpdaterOK(v)
  BY <1>2 DEF UpdaterOK
<1> QED BY <1>3 DEF v

LEMMA InitType == Init => TypeOK
<1> SUFFICES ASSUME Init PROVE TypeOK
  OBVIOUS
<1>1. config_path \in Files
  BY ConfigAssumption DEF Init
<1>2. data \in [Files -> Contents]
  BY ConfigAssumption DEF Init, Contents, Broken
<1>3. updater = [c \in Callers |-> updater[c]] /\ \A c \in Callers : UpdaterOK(updater[c])
  BY IdleOK DEF Init
<1>4. calls \in 0..MaxCalls
  BY ConfigAssumption DEF Init
<1>5. /\ temp_path \in [TempNames -> Files \cup {NoFile}]
      /\ lock_path \in LockFiles \cup {NoFile}
      /\ flock \in [LockFiles -> Callers \cup {Nobody}]
      /\ crashed \subseteq Processes /\ overlapped \subseteq Callers /\ spoiled \in BOOLEAN
  BY DEF Init
<1> QED BY <1>1, <1>2, <1>3, <1>4, <1>5, TypeOKSplit

LEMMA OneOfIn == ASSUME NEW S, NEW x \in OneOf(S) PROVE x \in S
BY DEF OneOf

LEMMA StepType == TypeOK /\ [Next]_vars => TypeOK'
<1> SUFFICES ASSUME TypeOK, [Next]_vars PROVE TypeOK'
  OBVIOUS
<1>0. /\ data \in [Files -> Contents] /\ config_path \in Files
      /\ temp_path \in [TempNames -> Files \cup {NoFile}]
      /\ updater \in [Callers -> Updater] /\ \A c \in Callers : UpdaterOK(updater[c])
      /\ Broken \subseteq Contents
  BY TypeOKSplit DEF TypeOK, Contents
<1>a. ASSUME NEW c \in Callers, NEW u, UpdaterOK(u), updater' = [updater EXCEPT ![c] = u]
      PROVE  updater' = [d \in Callers |-> updater'[d]] /\ \A d \in Callers : UpdaterOK(updater'[d])
  BY <1>0, <1>a
<1>u. \A c \in Callers : UpdaterOK(updater[c])
  BY <1>0
<1>1. CASE UNCHANGED vars
  BY <1>1 DEF TypeOK, Asking, Copying, vars
<1>2. ASSUME NEW c \in Callers, NEW req \in Requests, ReadFile(c, req) PROVE TypeOK'
  <2>1. data[config_path] \in Contents
    BY <1>0
  <2>2. UpdaterOK([Idle EXCEPT !.pc = "open", !.request = req, !.lines = data[config_path]])
    BY <2>1, IdleOK DEF UpdaterOK, Updater, Steps, Idle
  <2>3. updater' = [updater EXCEPT ![c] =
          [Idle EXCEPT !.pc = "open", !.request = req, !.lines = data[config_path]]]
    BY <1>2 DEF ReadFile
  <2>4. calls' \in 0..MaxCalls /\ overlapped' \subseteq Callers
    BY <1>2, ConfigAssumption DEF ReadFile, TypeOK, Others
  <2> QED BY <1>2, <1>a, <2>2, <2>3, <2>4, TypeOKSplit, TypeOKSplitNext DEF ReadFile
<1>3. ASSUME NEW c \in Callers, OpenLock(c) PROVE TypeOK'
  <2>1. PICK l \in LockFiles : lock_path' = l
                               /\ updater' = [updater EXCEPT ![c].pc = "lock", ![c].lock = l]
    BY <1>3, OneOfIn DEF TypeOK, OpenLock, FreshLocks
  <2>2. UpdaterOK([updater[c] EXCEPT !.pc = "lock", !.lock = l])
    <3>1. UpdaterOK([updater[c] EXCEPT !.pc = "lock"])
      BY <1>u, <1>3, MovedOK DEF UpdaterOK, Steps, OpenLock, At
    <3>2. updater[c] \in Updater
      BY <1>u DEF UpdaterOK
    <3> QED BY <3>1, <3>2 DEF UpdaterOK, Updater
  <2>3. updater' = [updater EXCEPT ![c] = [updater[c] EXCEPT !.pc = "lock", !.lock = l]]
    BY <1>0, <2>1
  <2> QED BY <1>3, <1>a, <2>1, <2>2, <2>3, TypeOKSplit, TypeOKSplitNext DEF OpenLock
<1>4. ASSUME NEW c \in Callers, OpenLockFails(c) \/ LockFails(c) \/ RemoveLock(c) PROVE TypeOK'
  <2>1. updater' = [updater EXCEPT ![c] = Idle]
    BY <1>4 DEF OpenLockFails, LockFails, RemoveLock
  <2> QED BY <1>4, <1>a, <2>1, IdleOK, TypeOKSplit, TypeOKSplitNext DEF OpenLockFails, LockFails, RemoveLock
<1>5. ASSUME NEW c \in Callers, Lock(c) \/ OpenTempFails(c) \/ RenameFails(c) PROVE TypeOK'
  <2>1. PICK pc \in Steps : updater' = [updater EXCEPT ![c] = [updater[c] EXCEPT !.pc = pc]]
                            /\ UpdaterOK([updater[c] EXCEPT !.pc = pc])
    <3>1. CASE Lock(c)
      <4>1. updater[c].pc = "lock" /\ updater' = [updater EXCEPT ![c] = [updater[c] EXCEPT !.pc = "temp"]]
        BY <1>0, <3>1 DEF Lock, At, GoTo
      <4>2. UpdaterOK([updater[c] EXCEPT !.pc = "temp"]) /\ "temp" \in Steps
        BY <1>u, <4>1, MovedOK DEF UpdaterOK, Steps
      <4> QED BY <4>1, <4>2
    <3>2. CASE OpenTempFails(c)
      <4>1. updater' = [updater EXCEPT ![c] = [updater[c] EXCEPT !.pc = "unlock"]]
        BY <1>0, <3>2 DEF OpenTempFails, GoTo
      <4>2. UpdaterOK([updater[c] EXCEPT !.pc = "unlock"]) /\ "unlock" \in Steps
        BY <1>u, MovedOK DEF Steps
      <4> QED BY <4>1, <4>2
    <3>3. CASE RenameFails(c)
      <4>1. updater[c].pc = "rename" /\ updater' = [updater EXCEPT ![c] = [updater[c] EXCEPT !.pc = "discard"]]
        BY <1>0, <3>3 DEF RenameFails, At, GoTo
      <4>2. UpdaterOK([updater[c] EXCEPT !.pc = "discard"]) /\ "discard" \in Steps
        BY <1>u, <4>1, MovedOK DEF UpdaterOK, Steps
      <4> QED BY <4>1, <4>2
    <3> QED BY <1>5, <3>1, <3>2, <3>3
  <2>2. flock' \in [LockFiles -> Callers \cup {Nobody}]
    BY <1>5 DEF TypeOK, Lock, OpenTempFails, RenameFails
  <2> QED BY <1>5, <1>a, <2>1, <2>2, TypeOKSplit, TypeOKSplitNext DEF Lock, OpenTempFails, RenameFails
<1>6. ASSUME NEW c \in Callers, OpenTemp(c) PROVE TypeOK'
  <2>1. PICK second \in Seconds :
          \E f \in IF temp_path[<<Process[c], second>>] # NoFile
                   THEN {temp_path[<<Process[c], second>>]} ELSE OneOf(FreshFiles) :
            /\ temp_path' = [temp_path EXCEPT ![<<Process[c], second>>] = f]
            /\ data' = [data EXCEPT ![f] = Empty]
            /\ updater' = [updater EXCEPT ![c].pc = "write", ![c].name = <<Process[c], second>>,
                                          ![c].fd = f]
            /\ spoiled' = (spoiled \/ temp_path[<<Process[c], second>>] # NoFile)
    BY <1>6 DEF OpenTemp
  <2> DEFINE n == <<Process[c], second>>
  <2>2. n \in TempNames
    BY DEF TempNames, Processes
  <2> HIDE DEF n
  <2>3. PICK f \in Files :
            /\ temp_path' = [temp_path EXCEPT ![n] = f]
            /\ data' = [data EXCEPT ![f] = Empty]
            /\ updater' = [updater EXCEPT ![c].pc = "write", ![c].name = n, ![c].fd = f]
            /\ spoiled' = (spoiled \/ temp_path[n] # NoFile)
    BY <1>0, <2>1, <2>2, OneOfIn DEF FreshFiles, n
  <2>4. UpdaterOK([updater[c] EXCEPT !.pc = "write", !.name = n, !.fd = f])
    <3> DEFINE u == updater[c]
               v == [u EXCEPT !.pc = "write", !.name = n, !.fd = f]
    <3>1. UpdaterOK(u) /\ u.pc = "temp"
      BY <1>u, <1>6 DEF OpenTemp, At
    <3>2. u \in Updater /\ u.request \in Requests
      BY <3>1 DEF UpdaterOK
    <3> HIDE DEF u
    <3>3. v \in Updater /\ v.pc = "write" /\ v.request = u.request /\ v.name = n /\ v.fd = f
      BY <2>2, <2>3, <3>2 DEF Updater, Steps
    <3> HIDE DEF v
    <3>4. UpdaterOK(v)
      BY <2>2, <3>2, <3>3 DEF UpdaterOK
    <3> QED BY <3>4 DEF u, v
  <2>5. updater' = [updater EXCEPT ![c] = [updater[c] EXCEPT !.pc = "write", !.name = n, !.fd = f]]
    BY <1>0, <2>3
  <2>6. data' \in [Files -> Contents] /\ temp_path' \in [TempNames -> Files \cup {NoFile}]
        /\ spoiled' \in BOOLEAN
    BY <1>0, <2>2, <2>3, TypeOKSplit DEF Broken
  <2> QED BY <1>6, <1>a, <2>4, <2>5, <2>6, TypeOKSplit, TypeOKSplitNext DEF OpenTemp
<1>7. ASSUME NEW c \in Callers, WriteLines(c) PROVE TypeOK'
  <2> DEFINE new == Edited(updater[c].lines, updater[c].request)
  <2>1. new \in Contents
    BY <1>0, <1>7, EditedType DEF UpdaterOK, Updater, WriteLines, At
  <2>2. data' \in [Files -> Contents] /\ spoiled' \in BOOLEAN
    BY <1>0, <1>7, <2>1, TypeOKSplit DEF WriteLines, Broken
  <2>3. UpdaterOK([updater[c] EXCEPT !.pc = "rename"])
    BY <1>u, <1>7, MovedOK DEF UpdaterOK, Steps, WriteLines, At
  <2>4. updater' = [updater EXCEPT ![c] = [updater[c] EXCEPT !.pc = "rename"]]
    BY <1>0, <1>7 DEF WriteLines, GoTo
  <2> QED BY <1>7, <1>a, <2>2, <2>3, <2>4, TypeOKSplit, TypeOKSplitNext DEF WriteLines
<1>8. ASSUME NEW c \in Callers, Rename(c) \/ Discard(c) PROVE TypeOK'
  <2>1. data' \in [Files -> Contents] /\ config_path' \in Files
        /\ temp_path' \in [TempNames -> Files \cup {NoFile}]
    BY <1>0, <1>8, TypeOKSplit DEF Rename, Discard, Broken, UpdaterOK, At
  <2>2. /\ updater' = [d \in Callers |-> updater'[d]]
        /\ \A d \in Callers : d # c => updater'[d] = updater[d]
    BY <1>0, <1>8 DEF Rename, Discard
  <2>3. UpdaterOK(updater'[c])
    <3> DEFINE u == updater[c]
               ended == [u EXCEPT !.pc = "unlock", !.name = NoName, !.fd = NoFile]
               done == [u EXCEPT !.pc = "unlock", !.name = NoName, !.fd = NoFile, !.ok = TRUE]
    <3>1. u \in Updater
      BY <1>u DEF UpdaterOK
    <3>2. updater'[c] = done \/ updater'[c] = ended
      BY <1>0, <1>8 DEF Rename, Discard
    <3> HIDE DEF u
    <3>3. ended \in Updater /\ ended.pc = "unlock" /\ done \in Updater /\ done.pc = "unlock"
      BY <3>1 DEF Updater, Steps
    <3> HIDE DEF ended, done
    <3> QED BY <3>2, <3>3 DEF UpdaterOK
  <2> QED BY <1>0, <1>8, <2>1, <2>2, <2>3, TypeOKSplit, TypeOKSplitNext DEF Rename, Discard
<1>10. ASSUME NEW c \in Callers, Unlock(c) PROVE TypeOK'
  <2>1. updater' = [updater EXCEPT ![c] = [Idle EXCEPT !.pc = "remove"]]
    BY <1>10 DEF Unlock
  <2>2. flock' \in [LockFiles -> Callers \cup {Nobody}]
    BY <1>10 DEF TypeOK, Unlock
  <2> QED BY <1>10, <1>a, <2>1, <2>2, IdleOK, TypeOKSplit, TypeOKSplitNext DEF Unlock
<1>11. ASSUME NEW p \in Processes, Crash(p) PROVE TypeOK'
  <2>1. updater' = [c \in Callers |-> updater'[c]] /\ \A c \in Callers : UpdaterOK(updater'[c])
    BY <1>0, <1>11, IdleOK DEF Crash
  <2>2. flock' \in [LockFiles -> Callers \cup {Nobody}]
    BY <1>11 DEF TypeOK, Crash
  <2> QED BY <1>11, <2>1, <2>2, TypeOKSplit, TypeOKSplitNext DEF Crash
<1> QED BY <1>1, <1>2, <1>3, <1>4, <1>5, <1>6, <1>7, <1>8, <1>10, <1>11
        DEF Next, Update

-----------------------------------------------------------------------------
(* How the callers move: which are copying, and what the others keep.      *)
LEMMA CopiesApartStep ==
  TypeOK /\ TypeOK' /\ (~spoiled => CopiesApart) /\ [Next]_vars => (~spoiled' => CopiesApart')
<1> SUFFICES ASSUME TypeOK, TypeOK', ~spoiled => CopiesApart, [Next]_vars, ~spoiled'
             PROVE  CopiesApart'
  OBVIOUS
<1>t. /\ data \in [Files -> Contents] /\ config_path \in Files
      /\ temp_path \in [TempNames -> Files \cup {NoFile}]
      /\ updater \in [Callers -> Updater] /\ NoFile \notin Files
      /\ \A c \in Callers : Copying(c) => updater[c].name \in TempNames /\ updater[c].fd \in Files
  BY ConfigAssumption DEF TypeOK
<1>i. Idle.pc = "idle"
  BY DEF Idle
<1>1. CASE UNCHANGED vars
  BY <1>1 DEF CopiesApart, Copying, vars
<1>2. ASSUME NEW c \in Callers, NEW req \in Requests, ReadFile(c, req) PROVE CopiesApart'
  BY <1>2, <1>t DEF CopiesApart, ReadFile, Copying, Idle
<1>3. ASSUME NEW c \in Callers, OpenLock(c) PROVE CopiesApart'
  BY <1>3, <1>t DEF CopiesApart, OpenLock, Copying, At
<1>4. ASSUME NEW c \in Callers, OpenLockFails(c) \/ LockFails(c) \/ RemoveLock(c)
      PROVE  CopiesApart'
  BY <1>4, <1>t, <1>i DEF CopiesApart, OpenLockFails, LockFails, RemoveLock, Copying
<1>5. ASSUME NEW c \in Callers, Lock(c) \/ OpenTempFails(c) PROVE CopiesApart'
  <2>1. /\ updater[c].pc \in {"lock", "temp"} /\ updater'[c].pc \in {"temp", "unlock"}
        /\ updater'[c].lines = updater[c].lines
        /\ \A d \in Callers : d # c => updater'[d] = updater[d]
    BY <1>5, <1>t DEF Lock, OpenTempFails, At, GoTo, Updater
  <2>2. data' = data /\ config_path' = config_path /\ temp_path' = temp_path /\ spoiled' = spoiled
    BY <1>5 DEF Lock, OpenTempFails
  <2> QED BY <2>1, <2>2 DEF CopiesApart, Copying
<1>6. ASSUME NEW c \in Callers, OpenTemp(c) PROVE CopiesApart'
  <2>1. PICK second \in Seconds :
          \E f \in IF temp_path[<<Process[c], second>>] # NoFile
                   THEN {temp_path[<<Process[c], second>>]} ELSE OneOf(FreshFiles) :
            /\ temp_path' = [temp_path EXCEPT ![<<Process[c], second>>] = f]
            /\ data' = [data EXCEPT ![f] = Empty]
            /\ updater' = [updater EXCEPT ![c].pc = "write", ![c].name = <<Process[c], second>>,
                                          ![c].fd = f]
            /\ spoiled' = (spoiled \/ temp_path[<<Process[c], second>>] # NoFile)
    BY <1>6 DEF OpenTemp
  <2> DEFINE n == <<Process[c], second>>
  <2>2. n \in TempNames
    BY DEF TempNames, Processes
  <2> HIDE DEF n
  <2>3. PICK f \in FreshFiles :
            /\ temp_path' = [temp_path EXCEPT ![n] = f]
            /\ data' = [data EXCEPT ![f] = Empty]
            /\ updater' = [updater EXCEPT ![c].pc = "write", ![c].name = n, ![c].fd = f]
            /\ ~spoiled /\ temp_path[n] = NoFile
    BY <2>1, OneOfIn DEF n, TypeOK
  <2>4. /\ f \in Files /\ f # config_path /\ f # NoFile
        /\ \A m \in TempNames : temp_path[m] # f
        /\ \A d \in Callers : updater[d].fd # f
    BY <1>t, <2>3 DEF FreshFiles
  <2>5. /\ updater'[c].pc = "write" /\ updater'[c].name = n /\ updater'[c].fd = f
        /\ updater'[c].lines = updater[c].lines
        /\ \A d \in Callers : d # c => updater'[d] = updater[d]
    BY <1>t, <2>3 DEF Updater
  <2>6. config_path' = config_path /\ updater[c].pc = "temp"
    BY <1>6 DEF OpenTemp, At
  <2>7. ASSUME NEW d \in Callers, Copying(d)' PROVE temp_path'[updater'[d].name] = updater'[d].fd
    <3>1. CASE d = c
      BY <1>t, <2>2, <2>3, <2>5, <3>1
    <3>2. CASE d # c
      <4>1. updater'[d] = updater[d] /\ Copying(d)
        BY <2>5, <2>7, <3>2 DEF Copying
      <4>2. /\ temp_path[updater[d].name] = updater[d].fd
            /\ updater[d].name \in TempNames /\ updater[d].name # n
        BY <1>t, <2>3, <4>1 DEF CopiesApart
      <4> QED BY <1>t, <2>3, <4>1, <4>2
    <3> QED BY <3>1, <3>2
  <2>8. ASSUME NEW d \in Callers, NEW e \in Callers, Copying(d)', Copying(e)', d # e
        PROVE  updater'[d].fd # updater'[e].fd
    <3>1. CASE d = c \/ e = c
      BY <2>4, <2>5, <2>8, <3>1
    <3>2. CASE d # c /\ e # c
      <4>1. /\ updater'[d] = updater[d] /\ updater'[e] = updater[e]
            /\ Copying(d) /\ Copying(e)
        BY <2>5, <2>8, <3>2 DEF Copying
      <4> QED BY <2>3, <2>8, <4>1 DEF CopiesApart
    <3> QED BY <3>1, <3>2
  <2>9. ASSUME NEW d \in Callers, updater'[d].pc = "rename" PROVE data'[updater'[d].fd] \notin Broken
    BY <1>t, <2>3, <2>4, <2>5, <2>9 DEF CopiesApart, Copying
  <2>10. ASSUME NEW d \in Callers, updater'[d].pc \in {"open", "lock", "temp", "write"}
         PROVE  updater'[d].lines \notin Broken
    BY <2>3, <2>5, <2>6, <2>10 DEF CopiesApart
  <2>11. data'[config_path'] \notin Broken /\ \A m \in TempNames : temp_path'[m] # config_path'
    BY <1>t, <2>2, <2>3, <2>4, <2>6 DEF CopiesApart
  <2>12. \A l, m \in TempNames : temp_path'[l] = temp_path'[m] /\ temp_path'[l] # NoFile => l = m
    BY <1>t, <2>2, <2>3, <2>4 DEF CopiesApart
  <2> QED BY <2>7, <2>8, <2>9, <2>10, <2>11, <2>12 DEF CopiesApart
<1>7. ASSUME NEW c \in Callers, WriteLines(c) PROVE CopiesApart'
  <2> DEFINE f == updater[c].fd
             new == Edited(updater[c].lines, updater[c].request)
  <2>1. ~spoiled /\ data' = [data EXCEPT ![f] = new] /\ updater[c].pc = "write"
    BY <1>7 DEF WriteLines, At
  <2>2. new \notin Broken
    BY <2>1, EditedType DEF CopiesApart, TypeOK, Updater, Asking
  <2>3. f \in Files /\ f # config_path /\ Copying(c)
    BY <1>t, <2>1 DEF CopiesApart, Copying
  <2> HIDE DEF new
  <2>4. /\ updater'[c].pc = "rename" /\ updater'[c].name = updater[c].name /\ updater'[c].fd = f
        /\ \A d \in Callers : d # c => updater'[d] = updater[d]
    BY <1>t, <1>7 DEF WriteLines, GoTo, Updater
  <2>5. config_path' = config_path /\ temp_path' = temp_path
    BY <1>7 DEF WriteLines
  <2> HIDE DEF f
  <2> QED BY <1>t, <2>1, <2>2, <2>3, <2>4, <2>5 DEF CopiesApart, Copying, f
<1>8. ASSUME NEW c \in Callers, Rename(c) PROVE CopiesApart'
  <2> DEFINE n == updater[c].name
  <2>1. /\ ~spoiled /\ updater[c].pc = "rename" /\ Copying(c)
        /\ n \in TempNames /\ temp_path[n] = updater[c].fd /\ updater[c].fd \in Files
    BY <1>t, <1>8 DEF Rename, At, Copying, CopiesApart
  <2>2. /\ config_path' = updater[c].fd
        /\ temp_path' = [temp_path EXCEPT ![n] = NoFile]
        /\ updater'[c].pc = "unlock" /\ \A d \in Callers : d # c => updater'[d] = updater[d]
    BY <1>t, <1>8, <2>1 DEF Rename, Updater
  <2>3. \A f \in Files : f # config_path => data'[f] = data[f]
    BY <1>t, <1>8 DEF Rename
  <2>4. \A d \in Callers : Copying(d) => updater[d].fd # config_path
    BY <1>t, <2>1 DEF CopiesApart
  <2>5. data'[config_path'] \notin Broken
    BY <2>1, <2>2, <2>3, <2>4 DEF CopiesApart
  <2>6. \A m \in TempNames : temp_path'[m] # config_path'
    BY <1>t, <2>1, <2>2 DEF CopiesApart
  <2>7. \A d \in Callers : d # c /\ Copying(d) => updater[d].name # n
    BY <1>t, <2>1 DEF CopiesApart
  <2> HIDE DEF n
  <2> QED BY <1>t, <2>1, <2>2, <2>3, <2>4, <2>5, <2>6, <2>7 DEF CopiesApart, Copying
<1>9. ASSUME NEW c \in Callers, RenameFails(c) PROVE CopiesApart'
  BY <1>9, <1>t DEF CopiesApart, RenameFails, Copying, At, GoTo
<1>10. ASSUME NEW c \in Callers, Discard(c) PROVE CopiesApart'
  <2> DEFINE n == updater[c].name
  <2>1. /\ ~spoiled /\ updater[c].pc = "discard" /\ Copying(c)
        /\ n \in TempNames /\ temp_path[n] = updater[c].fd /\ updater[c].fd \in Files
    BY <1>t, <1>10 DEF Discard, At, Copying, CopiesApart
  <2>2. /\ config_path' = config_path /\ data' = data
        /\ temp_path' = [temp_path EXCEPT ![n] = NoFile]
        /\ updater'[c].pc = "unlock" /\ \A d \in Callers : d # c => updater'[d] = updater[d]
    BY <1>t, <1>10 DEF Discard, Updater
  <2>3. \A d \in Callers : d # c /\ Copying(d) => updater[d].name # n
    BY <1>t, <2>1 DEF CopiesApart
  <2> HIDE DEF n
  <2> QED BY <1>t, <2>1, <2>2, <2>3 DEF CopiesApart, Copying
<1>11. ASSUME NEW c \in Callers, Unlock(c) PROVE CopiesApart'
  <2>1. updater'[c].pc = "remove" /\ \A d \in Callers : d # c => updater'[d] = updater[d]
    BY <1>t, <1>11 DEF Unlock, Idle
  <2> QED BY <1>11, <2>1 DEF Unlock, CopiesApart, Copying
<1>12. ASSUME NEW p \in Processes, Crash(p) PROVE CopiesApart'
  <2>1. \A d \in Callers : updater'[d] = updater[d] \/ updater'[d].pc = "idle"
    BY <1>i, <1>12 DEF Crash
  <2> QED BY <1>12, <2>1 DEF Crash, CopiesApart, Copying
<1> QED BY <1>1, <1>2, <1>3, <1>4, <1>5, <1>6, <1>7, <1>8, <1>9, <1>10, <1>11, <1>12
        DEF Next, Update

LEMMA NamesOwnedStep ==
  TypeOK /\ NamesOwned /\ [Next]_vars => NamesOwned'
<1> SUFFICES ASSUME TypeOK, NamesOwned, [Next]_vars, crashed' = {},
                    NEW n \in TempNames, temp_path'[n] # NoFile
             PROVE  \E d \in Callers : Copying(d)' /\ updater'[d].name = n
  BY DEF NamesOwned
<1>t. /\ temp_path \in [TempNames -> Files \cup {NoFile}]
      /\ updater \in [Callers -> Updater]
      /\ \A c \in Callers : Copying(c) => updater[c].name \in TempNames
  BY DEF TypeOK
<1>a. ASSUME temp_path'[n] = temp_path[n], crashed' = crashed,
             \A d \in Callers : Copying(d) => Copying(d)' /\ updater'[d].name = updater[d].name
      PROVE  \E d \in Callers : Copying(d)' /\ updater'[d].name = n
  BY <1>a DEF NamesOwned
<1>1. CASE UNCHANGED vars
  BY <1>1, <1>a DEF Copying, vars
<1>2. ASSUME NEW c \in Callers, NEW req \in Requests, ReadFile(c, req)
      PROVE  \E d \in Callers : Copying(d)' /\ updater'[d].name = n
  BY <1>2, <1>a, <1>t DEF ReadFile, Copying, At
<1>3. ASSUME NEW c \in Callers, OpenLock(c)
      PROVE  \E d \in Callers : Copying(d)' /\ updater'[d].name = n
  BY <1>3, <1>a, <1>t DEF OpenLock, Copying, At
<1>4. ASSUME NEW c \in Callers, OpenLockFails(c) \/ LockFails(c) \/ RemoveLock(c)
      PROVE  \E d \in Callers : Copying(d)' /\ updater'[d].name = n
  BY <1>4, <1>a, <1>t DEF OpenLockFails, LockFails, RemoveLock, Copying, At
<1>5. ASSUME NEW c \in Callers, Lock(c) \/ OpenTempFails(c)
      PROVE  \E d \in Callers : Copying(d)' /\ updater'[d].name = n
  BY <1>5, <1>a, <1>t DEF Lock, OpenTempFails, Copying, At, GoTo
<1>6. ASSUME NEW c \in Callers, OpenTemp(c)
      PROVE  \E d \in Callers : Copying(d)' /\ updater'[d].name = n
  <2>0. PICK second \in Seconds :
          \E f : /\ temp_path' = [temp_path EXCEPT ![<<Process[c], second>>] = f]
                /\ updater' = [updater EXCEPT ![c].pc = "write",
                                 ![c].name = <<Process[c], second>>, ![c].fd = f]
    BY <1>6 DEF OpenTemp
  <2>1. PICK f :
          /\ temp_path' = [temp_path EXCEPT ![<<Process[c], second>>] = f]
          /\ updater' = [updater EXCEPT ![c].pc = "write", ![c].name = <<Process[c], second>>,
                                        ![c].fd = f]
    BY <2>0
  <2> DEFINE m == <<Process[c], second>>
  <2> HIDE DEF m
  <2>2. /\ temp_path' = [temp_path EXCEPT ![m] = f]
        /\ updater' = [updater EXCEPT ![c].pc = "write", ![c].name = m, ![c].fd = f]
    BY <2>1 DEF m
  <2>3. /\ updater'[c].pc = "write" /\ updater'[c].name = m
        /\ \A d \in Callers : d # c => updater'[d] = updater[d]
    BY <1>t, <2>2 DEF Updater
  <2>4. CASE n = m
    BY <2>3, <2>4 DEF Copying
  <2>5. CASE n # m
    <3>1. temp_path'[n] = temp_path[n] /\ crashed' = crashed /\ ~Copying(c)
      BY <1>6, <1>t, <2>2, <2>5 DEF OpenTemp, At, Copying
    <3> QED BY <1>a, <2>3, <3>1 DEF Copying
  <2> QED BY <2>4, <2>5
<1>7. ASSUME NEW c \in Callers, WriteLines(c) \/ RenameFails(c)
      PROVE  \E d \in Callers : Copying(d)' /\ updater'[d].name = n
  <2>1. /\ updater'[c].pc \in {"rename", "discard"} /\ updater'[c].name = updater[c].name
        /\ \A d \in Callers : d # c => updater'[d] = updater[d]
    BY <1>7, <1>t DEF WriteLines, RenameFails, GoTo, Updater
  <2> QED BY <1>7, <1>a, <2>1 DEF WriteLines, RenameFails, Copying
<1>8. ASSUME NEW c \in Callers, Rename(c) \/ Discard(c)
      PROVE  \E d \in Callers : Copying(d)' /\ updater'[d].name = n
  <2>1. /\ Copying(c) /\ temp_path' = [temp_path EXCEPT ![updater[c].name] = NoFile]
        /\ crashed' = crashed /\ \A d \in Callers : d # c => updater'[d] = updater[d]
    BY <1>8, <1>t DEF Rename, Discard, Copying, At
  <2>2. temp_path'[n] = temp_path[n] /\ updater[c].name # n
    BY <1>t, <2>1
  <2>3. PICK d \in Callers : Copying(d) /\ updater[d].name = n
    BY <2>1, <2>2 DEF NamesOwned
  <2> QED BY <2>1, <2>2, <2>3 DEF Copying
<1>10. ASSUME NEW c \in Callers, Unlock(c)
      PROVE  \E d \in Callers : Copying(d)' /\ updater'[d].name = n
  <2>1. ~Copying(c) /\ \A d \in Callers : d # c => updater'[d] = updater[d]
    BY <1>t, <1>10 DEF Unlock, Copying, At
  <2> QED BY <1>10, <1>a, <2>1 DEF Unlock, Copying
<1>11. ASSUME NEW p \in Processes, Crash(p)
       PROVE  \E d \in Callers : Copying(d)' /\ updater'[d].name = n
  BY <1>11 DEF Crash
<1> QED BY <1>1, <1>2, <1>3, <1>4, <1>5, <1>6, <1>7, <1>8, <1>10, <1>11 DEF Next, Update

-----------------------------------------------------------------------------
(***************************************************************************)
(* What the two scans of the file have in common: in a file with no other  *)
(* sections than the loader's, both know which section a line is in, but   *)
(* for the lines of "mstp", which the scan of config_update does not know. *)
(***************************************************************************)
(* A set of numbers has a least one: of the intervals up to its members    *)
(* one has no other inside.                                                *)
LEMMA LeastNumber ==
  ASSUME NEW T, T \subseteq Nat, T # {}
  PROVE  \E n \in T : \A m \in T : n <= m
<1> DEFINE Initial == {1..n : n \in T}
<1>1. Initial \subseteq FiniteSubsetsOf(Nat) /\ Initial # {}
  <2>1. \A n \in Nat : IsFiniteSet(1..n) /\ 1..n \in SUBSET Nat
    BY FS_Interval
  <2> QED BY <2>1 DEF FiniteSubsetsOf
<1>2. PICK i \in Initial : \A j \in Initial : ~(<<j, i>> \in StrictSubsetOrdering(Nat))
  <2> HIDE DEF Initial
  <2> QED BY <1>1, FS_StrictSubsetOrderingWellFounded, WFMin
<1>3. PICK n \in T : i = 1..n
  OBVIOUS
<1>4. ASSUME NEW m \in T, m < n PROVE FALSE
  <2>1. n \in 1..n /\ n \notin 1..m
    BY <1>4
  <2>2. 1..m \subseteq 1..n /\ 1..m # 1..n
    BY <1>4, <2>1
  <2>3. <<1..m, i>> \in StrictSubsetOrdering(Nat)
    <3>1. 1..m \in SUBSET Nat /\ i \in SUBSET Nat
      BY <1>3
    <3> QED BY <1>3, <2>2, <3>1 DEF StrictSubsetOrdering
  <2>4. 1..m \in Initial
    OBVIOUS
  <2> QED BY <1>2, <2>3, <2>4
<1> QED BY <1>4

(* Of any lines there is a last one.                                       *)
LEMMA LastIsLast ==
  ASSUME NEW S, S \subseteq Lines, S # {}
  PROVE  Last(S) \in S /\ \A k \in S : k <= Last(S)
<1> DEFINE N == Len(Document)
           T == {N - k : k \in S}
<1>1. N \in Nat /\ \A k \in S : k \in 1..N
  BY ConfigAssumption DEF Lines
<1>2. T \subseteq Nat /\ T # {}
  BY <1>1
<1>3. PICK n \in T : \A m \in T : n <= m
  <2> HIDE DEF T
  <2> QED BY <1>2, LeastNumber
<1>4. PICK j \in S : n = N - j
  OBVIOUS
<1>5. ASSUME NEW k \in S PROVE k <= j
  <2>1. N - k \in T
    OBVIOUS
  <2>2. N - j <= N - k
    BY <1>3, <1>4, <2>1
  <2> HIDE DEF N
  <2> QED BY <1>1, <2>2
<1> QED BY <1>5 DEF Last

(* What the loader does at a line.                                         *)
Entered(i, before) ==
  LET left == IF Ends(i - 1) /\ before \in ClosedByEnd THEN "bacnet" ELSE before
  IN  IF Starts(i) /\ left \in SwitchFrom THEN Section(i) ELSE left

(* One line leads from the section of the line before, or from none, to    *)
(* the section of the line.                                                *)
LEMMA EnteredIsSection ==
  ASSUME NEW i \in Lines,
         NEW before, before = IF i = 1 THEN "bacnet" ELSE Section(i - 1)
  PROVE  Entered(i, before) = Section(i)
<1>1. i \in Nat /\ i >= 1 /\ i <= Len(Document) /\ Len(Document) \in Nat
  BY ConfigAssumption DEF Lines
<1>2. i # 1 => i - 1 \in Lines
  BY <1>1 DEF Lines
<1>3. before \in SwitchFrom /\ "bacnet" \in SwitchFrom
  BY <1>2, DocumentAssumption DEF SwitchFrom
<1>4. CASE Starts(i)
  BY <1>3, <1>4 DEF Entered
<1>5. CASE ~Starts(i)
  <2>1. i # 1 /\ Section(i - 1) = Section(i)
    BY <1>1, <1>5 DEF Starts
  <2>2. (i - 1) + 1 = i /\ i - 1 # Len(Document)
    BY <1>1
  <2>3. ~Ends(i - 1)
    BY <2>1, <2>2 DEF Ends
  <2> QED BY <1>5, <2>1, <2>3 DEF Entered
<1> QED BY <1>4, <1>5

(* The loader is always in the section the line is in: there is one        *)
(* function that does at each line what the loader does, and this is it.   *)
LEMMA LoaderKnowsSection == \A i \in Lines : current_section[i] = Section(i)
<1> DEFINE N == Len(Document)
           Scan(g) == g = [i \in 0..N |-> IF i = 0 THEN "bacnet" ELSE Entered(i, g[i - 1])]
           shown == [i \in 0..N |-> IF i = 0 THEN "bacnet" ELSE Section(i)]
<1>1. N \in Nat
  BY ConfigAssumption
<1>2. Scan(shown)
  <2>1. ASSUME NEW i \in 0..N, i # 0
        PROVE  Section(i) = Entered(i, shown[i - 1])
    <3>1. i \in Lines /\ i - 1 \in 0..N /\ (i - 1 = 0 <=> i = 1)
      BY <1>1, <2>1 DEF Lines
    <3>2. shown[i - 1] = IF i = 1 THEN "bacnet" ELSE Section(i - 1)
      BY <3>1
    <3> QED BY <3>1, <3>2, EnteredIsSection
  <2> HIDE DEF N
  <2> QED BY <2>1
<1>3. Scan(current_section)
  <2>1. current_section = CHOOSE g : Scan(g)
    BY DEF current_section, Entered
  <2> HIDE DEF Scan, shown
  <2> QED BY <1>2, <2>1
<1> DEFINE T == {i \in Lines : current_section[i] # Section(i)}
<1>4. SUFFICES ASSUME T # {} PROVE FALSE
  OBVIOUS
<1>5. PICK i \in T : \A m \in T : i <= m
  <2>1. T \subseteq Nat
    BY <1>1 DEF Lines
  <2> HIDE DEF T
  <2> QED BY <1>4, <2>1, LeastNumber
<1>6. i \in Lines /\ i \in 0..N /\ i # 0 /\ i - 1 \in 0..N
  BY <1>1 DEF Lines
<1>7. current_section[i - 1] = IF i = 1 THEN "bacnet" ELSE Section(i - 1)
  <2>1. CASE i = 1
    BY <1>1, <1>3, <1>6, <2>1
  <2>2. CASE i # 1
    <3>1. i - 1 \in Lines /\ ~(i <= i - 1)
      BY <1>1, <1>6, <2>2 DEF Lines
    <3> QED BY <1>5, <2>2, <3>1
  <2> QED BY <2>1, <2>2
<1>8. current_section[i] = Entered(i, current_section[i - 1])
  BY <1>3, <1>6
<1> QED BY <1>5, <1>6, <1>7, <1>8, EnteredIsSection

(* So is the scan of config_update at a line whose section it knows: that  *)
(* section's header is the last it recognised.                             *)
LEMMA ScanKnowsSection ==
  ASSUME NEW i \in Lines, Section(i) # "mstp"
  PROVE  HeadersUpTo(i) # {} /\ Scanned(i) = Section(i)
<1>1. i \in Nat /\ i >= 1 /\ i <= Len(Document) /\ Len(Document) \in Nat
  BY ConfigAssumption DEF Lines
<1>2. Section(i) \in DOMAIN UpdateKeys
  BY DocumentAssumption DEF AllSections
<1>3. i \in HeadersUpTo(i) /\ \A k \in HeadersUpTo(i) : k <= i
  BY <1>1, <1>2 DEF HeadersUpTo
<1>4. HeadersUpTo(i) \subseteq Lines
  BY <1>1 DEF HeadersUpTo, Lines
<1>5. Last(HeadersUpTo(i)) \in HeadersUpTo(i) /\ i <= Last(HeadersUpTo(i))
  BY <1>3, <1>4, LastIsLast
<1>6. Last(HeadersUpTo(i)) = i
  BY <1>1, <1>3, <1>4, <1>5 DEF Lines
<1> QED BY <1>3, <1>6 DEF Scanned

(* No line is rewritten whose key the scan never looks for.                *)
LEMMA OnlyScanKeys ==
  ASSUME NEW j \in Lines, NEW req \in Requests, Rewritten(j, req)
  PROVE  Key(j) \in ScanKeys
<1>1. HeadersUpTo(j) # {} /\ Key(j) \in UpdateKeys[Scanned(j)]
  BY DEF Rewritten
<1>2. HeadersUpTo(j) \subseteq Lines
  BY ConfigAssumption DEF HeadersUpTo, Lines
<1>3. Last(HeadersUpTo(j)) \in HeadersUpTo(j)
  BY <1>1, <1>2, LastIsLast
<1>4. Scanned(j) \in DOMAIN UpdateKeys
  BY <1>1, <1>3 DEF Scanned, HeadersUpTo
<1> QED BY <1>1, <1>4 DEF ScanKeys

(* What the loader reads after an edit: what was asked for where the scan  *)
(* writes it, and what stood there before everywhere else.                 *)
LEMMA EditIsExact ==
  ASSUME NEW content \in Whole, NEW req \in Requests, NEW i \in Lines, ~Exempt(Field(i)),
         content \notin Broken
  PROVE  Loaded(Edited(content, req), Field(i)) =
           IF Field(i) \in DOMAIN req /\ Written(Field(i)) THEN req[Field(i)]
           ELSE Loaded(content, Field(i))
<1> DEFINE f == Field(i)
           at == {j \in Lines : <<current_section[j], Key(j)>> = f}
           j == Last(at)
           edited == Edited(content, req)
<1>1. f = <<Section(i), Key(i)>> /\ f[1] = Section(i) /\ f[2] = Key(i)
  BY DEF Field
<1>2. i \in at
  BY <1>1, LoaderKnowsSection
<1>3. j \in at
  <2> HIDE DEF at
  <2>1. at \subseteq Lines
    BY DEF at
  <2> QED BY <1>2, <2>1, LastIsLast
<1>4. j \in Lines /\ Section(j) = f[1] /\ Key(j) = f[2] /\ f = <<Section(j), Key(j)>>
  BY <1>1, <1>3, LoaderKnowsSection
<1> HIDE DEF j
<1>5. f[1] # "mstp" => HeadersUpTo(j) # {} /\ Scanned(j) = f[1]
  BY <1>4, ScanKnowsSection
<1>e. Key(j) # "cache_strategy" /\ (f[1] = "mstp" => Key(j) \notin ScanKeys)
  BY <1>1, <1>4 DEF Exempt
<1>w. Written(f) => f[1] # "mstp"
  BY DEF Written, UpdateKeys
<1>6. edited[j] = IF Rewritten(j, req) THEN NewValue(j, req) ELSE content[j]
  BY <1>4 DEF Edited
<1>7. Loaded(edited, f) = Parsed(f[2], edited[j]) /\ Loaded(content, f) = Parsed(f[2], content[j])
  BY <1>2 DEF Loaded, j
<1> HIDE DEF f, at, edited
<1>8. CASE f \in DOMAIN req /\ Written(f)
  <2>1. f[2] \in UpdateKeys[f[1]] /\ InType(f[2], req[f]) = req[f]
    BY <1>8, DocumentAssumption DEF Written
  <2>0. req[f] # 0
    <3>1. f # <<"hot_config", "enabled">>
      BY <2>1 DEF UpdateKeys
    <3> QED BY <1>8, <3>1, DocumentAssumption
  <2>2. edited[j] = req[f]
    BY <1>4, <1>5, <1>6, <1>8, <1>w, <2>1 DEF Rewritten, NewValue
  <2>3. Parsed(f[2], edited[j]) = req[f]
    BY <2>0, <2>1, <2>2 DEF Parsed
  <2> QED BY <1>7, <1>8, <2>3 DEF f, edited
<1>9. CASE ~(f \in DOMAIN req /\ Written(f))
  <2>1. ~Rewritten(j, req)
    <3>1. CASE f[1] = "mstp"
      BY <1>4, <1>e, <3>1, OnlyScanKeys
    <3>2. CASE f[1] # "mstp"
      <4>1. f[1] \in DOMAIN UpdateKeys
        BY <1>4, <3>2, DocumentAssumption DEF AllSections
      <4>2. Rewritten(j, req) => f[2] \in UpdateKeys[f[1]] /\ f \in DOMAIN req
        BY <1>4, <1>5, <1>e, <3>2 DEF Rewritten
      <4> QED BY <1>9, <4>1, <4>2 DEF Written
    <3> QED BY <3>1, <3>2
  <2>2. edited[j] = content[j]
    BY <1>6, <2>1
  <2> QED BY <1>7, <1>9, <2>2 DEF f, edited
<1> QED BY <1>8, <1>9

-----------------------------------------------------------------------------
(* A step of a call under way changes no other call.                       *)
OwnStep(c) ==
  /\ updater[c].pc # "idle" /\ Process[c] \notin crashed
  /\ \A d \in Callers : d # c => updater'[d] = updater[d]
  /\ UNCHANGED <<crashed, overlapped>>

LEMMA UpdateIsOwn ==
  ASSUME TypeOK, NEW c \in Callers, Update(c) \/ LockFails(c)
  PROVE  OwnStep(c) /\ (updater'[c].ok => updater'[c].pc = "unlock" \/ updater[c].ok)
                    /\ (updater'[c].pc # "unlock" /\ updater[c].pc = "unlock" => ~updater'[c].ok)
<1>t. updater \in [Callers -> Updater]
  BY DEF TypeOK
<1>i. ~Idle.ok /\ [Idle EXCEPT !.pc = "remove"].ok = FALSE
  BY DEF Idle
<1>1. CASE OpenLock(c)
  BY <1>1, <1>t DEF OpenLock, At, OwnStep, Updater
<1>2. CASE OpenLockFails(c) \/ LockFails(c) \/ RemoveLock(c)
  BY <1>2, <1>t, <1>i DEF OpenLockFails, LockFails, RemoveLock, At, OwnStep
<1>3. CASE Lock(c) \/ OpenTempFails(c) \/ WriteLines(c) \/ RenameFails(c)
  BY <1>3, <1>t DEF Lock, OpenTempFails, WriteLines, RenameFails, GoTo, At, OwnStep, Updater
<1>4. CASE OpenTemp(c)
  BY <1>4, <1>t DEF OpenTemp, At, OwnStep, Updater
<1>5. CASE Rename(c) \/ Discard(c)
  BY <1>5, <1>t DEF Rename, Discard, At, OwnStep, Updater
<1>6. CASE Unlock(c)
  BY <1>6, <1>t, <1>i DEF Unlock, At, OwnStep
<1> QED BY <1>1, <1>2, <1>3, <1>4, <1>5, <1>6 DEF Update

LEMMA CallsApartStep == TypeOK /\ CallsApart /\ [Next]_vars => CallsApart'
<1> SUFFICES ASSUME TypeOK, CallsApart, [Next]_vars PROVE CallsApart'
  OBVIOUS
<1>t. updater \in [Callers -> Updater] /\ crashed \subseteq Processes
  BY DEF TypeOK
<1>i. Idle.pc = "idle" /\ ~Idle.ok
  BY DEF Idle
<1>1. CASE UNCHANGED vars
  BY <1>1 DEF CallsApart, vars
<1>2. ASSUME NEW c \in Callers, NEW req \in Requests, ReadFile(c, req) PROVE CallsApart'
  <2>1. /\ updater[c].pc = "idle" /\ Process[c] \notin crashed /\ crashed' = crashed
        /\ updater'[c].pc = "open" /\ ~updater'[c].ok
        /\ \A d \in Callers : d # c => updater'[d] = updater[d]
    BY <1>2, <1>t DEF ReadFile, At, Idle
  <2>2. Others(c) = {d \in Callers \ {c} : updater[d].pc # "idle"}
    BY DEF Others, CallsApart
  <2>3. CASE Others(c) = {}
    <3>1. \A d \in Callers : d # c => updater'[d].pc = "idle"
      BY <2>1, <2>2, <2>3
    <3> QED BY <2>1, <3>1 DEF CallsApart
  <2>4. CASE Others(c) # {}
    <3>1. overlapped' = overlapped \cup Others(c) \cup {c}
      BY <1>2, <2>4 DEF ReadFile
    <3> QED BY <2>1, <2>2, <3>1 DEF CallsApart
  <2> QED BY <2>3, <2>4
<1>3. ASSUME NEW c \in Callers, Update(c) \/ LockFails(c) PROVE CallsApart'
  BY <1>3, UpdateIsOwn DEF OwnStep, CallsApart
<1>4. ASSUME NEW p \in Processes, Crash(p) PROVE CallsApart'
  <2>1. \A c \in Callers : updater'[c] = IF Process[c] = p THEN Idle ELSE updater[c]
    BY <1>4 DEF Crash
  <2>2. crashed' = crashed \cup {p} /\ overlapped' = overlapped
    BY <1>4 DEF Crash
  <2> QED BY <1>i, <2>1, <2>2 DEF CallsApart
<1> QED BY <1>1, <1>2, <1>3, <1>4 DEF Next

(* The calls that are where they were, with the file they are at.          *)
LEMMA EditsStay ==
  ASSUME EditInPlace,
         \A c \in Callers : updater'[c] = updater[c] \/ ~Done(c)',
         \A c \in Callers : Done(c)' => data'[updater[c].fd] = data[updater[c].fd]
                                        \/ updater[c].pc # "rename",
         \A c \in Callers : Finished(c)' /\ c \notin overlapped' =>
           c \notin overlapped /\ data'[config_path'] = data[config_path]
  PROVE  EditInPlace'
BY DEF EditInPlace, Done, Finished, EditOf

LEMMA EditInPlaceStep ==
  ASSUME TypeOK, TypeOK', CallsApart, ~spoiled, ~spoiled', CopiesApart, EditInPlace, [Next]_vars
  PROVE  EditInPlace'
<1>t. /\ data \in [Files -> Contents] /\ config_path \in Files
      /\ updater \in [Callers -> Updater]
      /\ \A c \in Callers : Copying(c) => updater[c].name \in TempNames /\ updater[c].fd \in Files
      /\ \A c \in Callers : Asking(c) => updater[c].request \in Requests
  BY DEF TypeOK
<1>i. Idle.pc = "idle" /\ [Idle EXCEPT !.pc = "remove"].pc = "remove"
  BY DEF Idle
<1>1. CASE UNCHANGED vars
  BY <1>1, EditsStay DEF vars, EditInPlace
<1>2. ASSUME NEW c \in Callers, NEW req \in Requests, ReadFile(c, req) PROVE EditInPlace'
  <2>1. /\ updater'[c].pc = "open" /\ data' = data /\ config_path' = config_path
        /\ \A d \in Callers : d # c => updater'[d] = updater[d]
    BY <1>2, <1>t DEF ReadFile, Idle
  <2>2. ASSUME NEW d \in Callers, Finished(d)', d \notin overlapped' PROVE d \notin overlapped
    BY <1>2, <2>1, <2>2 DEF ReadFile, Finished
  <2> QED BY <2>1, <2>2, EditsStay DEF Done, Finished
<1>3. ASSUME NEW c \in Callers,
             \/ OpenLock(c) \/ OpenLockFails(c) \/ LockFails(c) \/ RemoveLock(c) \/ Lock(c)
             \/ OpenTempFails(c) \/ RenameFails(c) \/ Discard(c) \/ Unlock(c)
      PROVE  EditInPlace'
  <2>1. OwnStep(c) /\ data' = data /\ config_path' = config_path
    BY <1>3, UpdateIsOwn
       DEF Update, OpenLock, OpenLockFails, LockFails, RemoveLock, Lock, OpenTempFails, RenameFails,
           Discard, Unlock
  <2>2. ~Done(c)'
    <3>1. CASE OpenLock(c) \/ Lock(c) \/ RenameFails(c)
      BY <1>t, <3>1 DEF OpenLock, Lock, RenameFails, GoTo, Done, Finished, Updater
    <3>2. CASE OpenLockFails(c) \/ LockFails(c) \/ RemoveLock(c) \/ Unlock(c)
      BY <1>t, <1>i, <3>2 DEF OpenLockFails, LockFails, RemoveLock, Unlock, Done, Finished
    <3>3. CASE OpenTempFails(c) \/ Discard(c)
      <4>1. updater[c].pc # "unlock" /\ updater'[c].pc = "unlock" /\ updater'[c].ok = updater[c].ok
        BY <1>t, <3>3 DEF OpenTempFails, Discard, GoTo, At, Updater
      <4> QED BY <4>1 DEF CallsApart, Done, Finished
    <3> QED BY <1>3, <3>1, <3>2, <3>3
  <2> QED BY <2>1, <2>2, EditsStay DEF OwnStep
<1>4. ASSUME NEW c \in Callers, OpenTemp(c) PROVE EditInPlace'
  <2>1. PICK f \in FreshFiles :
          data' = [data EXCEPT ![f] = Empty] /\ updater'[c].pc = "write"
    <3>1. PICK second \in Seconds :
            \E f \in IF temp_path[<<Process[c], second>>] # NoFile
                     THEN {temp_path[<<Process[c], second>>]} ELSE OneOf(FreshFiles) :
              /\ data' = [data EXCEPT ![f] = Empty]
              /\ updater' = [updater EXCEPT ![c].pc = "write", ![c].name = <<Process[c], second>>,
                                            ![c].fd = f]
              /\ spoiled' = (spoiled \/ temp_path[<<Process[c], second>>] # NoFile)
      BY <1>4 DEF OpenTemp
    <3>2. temp_path[<<Process[c], second>>] = NoFile
      BY <3>1
    <3>3. PICK f \in FreshFiles :
            /\ data' = [data EXCEPT ![f] = Empty]
            /\ updater' = [updater EXCEPT ![c].pc = "write", ![c].name = <<Process[c], second>>,
                                          ![c].fd = f]
      BY <3>1, <3>2, OneOfIn
    <3>4. updater'[c].pc = "write"
      BY <1>t, <3>3 DEF Updater
    <3> QED BY <3>3, <3>4
  <2>2. OwnStep(c) /\ config_path' = config_path
    BY <1>4, UpdateIsOwn DEF Update, OpenTemp
  <2>3. f # config_path /\ \A d \in Callers : updater[d].fd # f
    BY <2>1 DEF FreshFiles
  <2>4. ~Done(c)'
    BY <2>1 DEF Done, Finished
  <2>5. ASSUME NEW d \in Callers, Done(d)', updater[d].pc = "rename"
        PROVE  data'[updater[d].fd] = data[updater[d].fd]
    BY <1>t, <2>1, <2>3, <2>5 DEF Copying
  <2>6. data'[config_path'] = data[config_path]
    BY <1>t, <2>1, <2>2, <2>3
  <2> QED BY <2>2, <2>4, <2>5, <2>6, EditsStay DEF OwnStep
<1>5. ASSUME NEW c \in Callers, WriteLines(c) PROVE EditInPlace'
  <2> DEFINE f == updater[c].fd
  <2>1. /\ data' = [data EXCEPT ![f] = EditOf(c)] /\ updater[c].pc = "write"
        /\ config_path' = config_path
    BY <1>5 DEF WriteLines, EditOf, At
  <2>2. OwnStep(c)
    BY <1>5, UpdateIsOwn DEF Update
  <2>3. updater'[c].pc = "rename" /\ updater'[c].fd = f /\ EditOf(c)' = EditOf(c)
        /\ updater'[c].lines = updater[c].lines /\ updater'[c].request = updater[c].request
    BY <1>5, <1>t DEF WriteLines, GoTo, Updater, EditOf
  <2>4. Copying(c) /\ f \in Files /\ f # config_path
    BY <1>t, <2>1 DEF CopiesApart, Copying
  <2>5. data'[f] = EditOf(c)' /\ updater'[c].lines \notin Broken /\ updater'[c].request \in Requests
    BY <1>t, <2>1, <2>3, <2>4 DEF CopiesApart, Asking
  <2>6. ASSUME NEW d \in Callers, d # c
        PROVE  /\ updater'[d] = updater[d] /\ (d \notin overlapped' <=> d \notin overlapped)
               /\ updater[d].pc = "rename" => data'[updater[d].fd] = data[updater[d].fd]
    BY <1>t, <2>1, <2>2, <2>4, <2>6 DEF OwnStep, CopiesApart, Copying
  <2>7. data'[config_path'] = data[config_path]
    BY <1>t, <2>1, <2>4
  <2> HIDE DEF f
  <2> QED BY <2>3, <2>5, <2>6, <2>7 DEF EditInPlace, Done, Finished, EditOf
<1>6. ASSUME NEW c \in Callers, Rename(c) PROVE EditInPlace'
  <2> DEFINE f == updater[c].fd
  <2>1. /\ updater[c].pc = "rename" /\ Copying(c) /\ config_path' = f
        /\ f \in Files /\ f # config_path
    BY <1>6, <1>t DEF Rename, At, Copying, CopiesApart
  <2>2. OwnStep(c)
    BY <1>6, UpdateIsOwn DEF Update
  <2>3. \A g \in Files : g # config_path => data'[g] = data[g]
    BY <1>t, <1>6 DEF Rename
  <2>4. /\ updater'[c].pc = "unlock" /\ EditOf(c)' = EditOf(c)
        /\ updater'[c].lines = updater[c].lines /\ updater'[c].request = updater[c].request
    BY <1>6, <1>t DEF Rename, Updater, EditOf
  <2>5. data'[config_path'] = EditOf(c)'
    BY <2>1, <2>3, <2>4 DEF EditInPlace
  <2>6. ASSUME NEW d \in Callers, d # c
        PROVE  /\ updater'[d] = updater[d]
               /\ updater[d].pc = "rename" => data'[updater[d].fd] = data[updater[d].fd]
               /\ Finished(d)' => d \in overlapped'
    <3>1. updater'[d] = updater[d] /\ overlapped' = overlapped
      BY <2>2, <2>6 DEF OwnStep
    <3>2. updater[d].pc = "rename" => updater[d].fd \in Files /\ updater[d].fd # config_path
      BY <1>t DEF CopiesApart, Copying
    <3>3. Finished(d)' => d \in overlapped'
      BY <2>1, <2>6, <3>1 DEF Finished, CallsApart
    <3> QED BY <2>3, <3>1, <3>2, <3>3
  <2> QED BY <2>1, <2>4, <2>5, <2>6 DEF EditInPlace, Done, Finished, EditOf
<1>7. ASSUME NEW p \in Processes, Crash(p) PROVE EditInPlace'
  <2>1. /\ \A c \in Callers : updater'[c] = updater[c] \/ updater'[c].pc = "idle"
        /\ data' = data /\ config_path' = config_path /\ overlapped' = overlapped
    BY <1>7, <1>i DEF Crash
  <2> QED BY <2>1, EditsStay DEF Done, Finished
<1> QED BY <1>1, <1>2, <1>3, <1>4, <1>5, <1>6, <1>7 DEF Next, Update

LEMMA SpoiledStays == [Next]_vars /\ TypeOK /\ spoiled => spoiled'
<1> SUFFICES ASSUME [Next]_vars, TypeOK, spoiled PROVE spoiled'
  OBVIOUS
<1>1. CASE UNCHANGED spoiled
  BY <1>1
<1>2. ASSUME NEW c \in Callers, OpenTemp(c) \/ WriteLines(c) PROVE spoiled'
  BY <1>2 DEF OpenTemp, WriteLines
<1>3. ASSUME NEW c \in Callers, Update(c) \/ LockFails(c), ~OpenTemp(c), ~WriteLines(c)
      PROVE  UNCHANGED spoiled
  BY <1>3 DEF Update, OpenLock, OpenLockFails, LockFails, RemoveLock, Lock, OpenTempFails,
     Rename, RenameFails, Discard, Unlock
<1>4. ASSUME NEW c \in Callers, NEW req \in Requests, ReadFile(c, req) PROVE UNCHANGED spoiled
  BY <1>4 DEF ReadFile
<1>5. ASSUME NEW p \in Processes, Crash(p) PROVE UNCHANGED spoiled
  BY <1>5 DEF Crash
<1>6. CASE UNCHANGED vars
  BY <1>6 DEF vars
<1> QED BY <1>1, <1>2, <1>3, <1>4, <1>5, <1>6 DEF Next

LEMMA InitApart == Init => CopiesApart /\ CallsApart /\ EditInPlace
<1> SUFFICES ASSUME Init PROVE CopiesApart /\ CallsApart /\ EditInPlace
  OBVIOUS
<1>1. \A c \in Callers : updater[c].pc = "idle" /\ ~updater[c].ok
  BY DEF Init, Idle
<1>2. CopiesApart
  BY <1>1, ConfigAssumption DEF Init, CopiesApart, Copying, Broken, Contents
<1> QED BY <1>1, <1>2 DEF CallsApart, EditInPlace, Done, Finished

LEMMA EditInPlaceIsExact == TypeOK /\ (~spoiled => EditInPlace) => SoloUpdateIsExact
<1> SUFFICES ASSUME TypeOK, EditInPlace, NEW c \in Callers, Finished(c), c \notin overlapped,
                    NEW i \in Lines, ~Exempt(Field(i))
             PROVE  Loaded(data[config_path], Field(i)) = Expected(c, Field(i))
  BY DEF SoloUpdateIsExact, Alone
<1>1. updater[c].lines \notin Broken /\ updater[c].request \in Requests
      /\ data[config_path] = EditOf(c)
  BY DEF EditInPlace, Done
<1>2. updater[c].lines \in Whole
  BY <1>1 DEF TypeOK, Updater, Contents
<1> QED BY <1>1, <1>2, EditIsExact DEF EditOf, Expected

-----------------------------------------------------------------------------
(* A step that leaves the file alone and after which some of the callers   *)
(* hold no copy any more and the others what they held, is a GiveUp.       *)
LEMMA GivenUp ==
  ASSUME data'[config_path'] = data[config_path], spoiled' = spoiled,
         \A c \in Callers : Copied(c)' = {} \/ Copied(c)' = Copied(c)
  PROVE  Promised!Next
<1> DEFINE S == {c \in Callers : Copied(c)' = {}}
<1>1. [c \in Callers |-> Copied(c)]' =
        [c \in Callers |-> IF c \in S THEN {} ELSE [d \in Callers |-> Copied(d)][c]]
  OBVIOUS
<1>2. Promised!GiveUp(S)
  BY <1>1 DEF Promised!GiveUp
<1> QED BY <1>2 DEF Promised!Next

LEMMA InitPromised == Init => Promised!Init
<1> SUFFICES ASSUME Init PROVE Promised!Init
  OBVIOUS
<1>1. \A c \in Callers : Copied(c) = {}
  BY DEF Init, Copied, Idle
<1>2. config_path \in Files
  BY ConfigAssumption DEF Init
<1>3. data[config_path] = FirstContent /\ spoiled = FALSE
  BY <1>2 DEF Init
<1> QED BY <1>1, <1>3 DEF Promised!Init

(* Every step of the callers is one of EditedFile, or leaves it alone.     *)
LEMMA PromisedStep ==
  ASSUME TypeOK, TypeOK', ~spoiled => CopiesApart, ~spoiled => EditInPlace, [Next]_vars
  PROVE  Promised!Next \/ UNCHANGED Promised!absVars
<1> SUFFICES ASSUME ~spoiled' PROVE Promised!Next \/ UNCHANGED Promised!absVars
  BY DEF Promised!Next, Promised!Damage
<1>t. /\ data \in [Files -> Contents] /\ config_path \in Files
      /\ updater \in [Callers -> Updater] /\ spoiled \in BOOLEAN
      /\ \A c \in Callers : Copying(c) => updater[c].name \in TempNames /\ updater[c].fd \in Files
  BY DEF TypeOK
<1>s. ~spoiled /\ CopiesApart /\ EditInPlace /\ spoiled' = spoiled
  BY SpoiledStays, <1>t DEF TypeOK
<1>i. Idle.pc = "idle" /\ [Idle EXCEPT !.pc = "remove"].pc = "remove"
  BY DEF Idle
<1>1. CASE UNCHANGED vars
  BY <1>1 DEF vars, Promised!absVars, Copied
<1>2. ASSUME NEW c \in Callers, NEW req \in Requests, ReadFile(c, req) PROVE Promised!Next
  <2>1. /\ data' = data /\ config_path' = config_path /\ updater[c].pc = "idle"
        /\ updater'[c].pc = "open" /\ updater'[c].request = req
        /\ updater'[c].lines = data[config_path]
        /\ \A d \in Callers : d # c => updater'[d] = updater[d]
    BY <1>2, <1>t DEF ReadFile, At, Idle
  <2>2. Copied(c) = {} /\ Copied(c)' = {<<data[config_path], req>>}
    BY <2>1 DEF Copied
  <2>3. \A d \in Callers : d # c => Copied(d)' = Copied(d)
    BY <2>1 DEF Copied
  <2>4. [d \in Callers |-> Copied(d)]' =
          [[d \in Callers |-> Copied(d)] EXCEPT ![c] = {<<data[config_path], req>>}]
    BY <2>2, <2>3
  <2>5. Promised!Take(c, req)
    BY <1>s, <2>1, <2>2, <2>4 DEF Promised!Take
  <2> QED BY <2>5 DEF Promised!Next
<1>3. ASSUME NEW c \in Callers,
             \/ OpenLock(c) \/ OpenLockFails(c) \/ LockFails(c) \/ RemoveLock(c) \/ Lock(c)
             \/ OpenTempFails(c) \/ RenameFails(c) \/ Discard(c) \/ Unlock(c)
      PROVE  Promised!Next
  <2>1. OwnStep(c) /\ data' = data /\ config_path' = config_path
    BY <1>3, UpdateIsOwn
       DEF Update, OpenLock, OpenLockFails, LockFails, RemoveLock, Lock, OpenTempFails, RenameFails,
           Discard, Unlock
  <2>2. Copied(c)' = {} \/ Copied(c)' = Copied(c)
    <3>1. CASE OpenLock(c) \/ Lock(c)
      <4>1. /\ updater[c].pc \in {"open", "lock"} /\ updater'[c].pc \in {"lock", "temp"}
            /\ updater'[c].lines = updater[c].lines /\ updater'[c].request = updater[c].request
        BY <1>t, <3>1 DEF OpenLock, Lock, At, GoTo, Updater
      <4> QED BY <4>1 DEF Copied
    <3>2. CASE OpenLockFails(c) \/ LockFails(c) \/ RemoveLock(c) \/ Unlock(c)
      BY <1>t, <1>i, <3>2 DEF OpenLockFails, LockFails, RemoveLock, Unlock, Copied
    <3>3. CASE OpenTempFails(c) \/ RenameFails(c) \/ Discard(c)
      BY <1>t, <3>3 DEF OpenTempFails, RenameFails, Discard, GoTo, Copied, Updater
    <3> QED BY <1>3, <3>1, <3>2, <3>3
  <2>3. \A d \in Callers : d # c => Copied(d)' = Copied(d)
    BY <2>1 DEF OwnStep, Copied
  <2> QED BY <1>s, <2>1, <2>2, <2>3, GivenUp
<1>4. ASSUME NEW c \in Callers, OpenTemp(c) \/ WriteLines(c) PROVE Promised!Next
  <2>1. OwnStep(c) /\ config_path' = config_path
    BY <1>4, UpdateIsOwn DEF Update, OpenTemp, WriteLines
  <2>2. PICK f \in Files : f # config_path /\ \E text : data' = [data EXCEPT ![f] = text]
    <3>1. CASE OpenTemp(c)
      <4>1. PICK second \in Seconds :
              \E f \in IF temp_path[<<Process[c], second>>] # NoFile
                       THEN {temp_path[<<Process[c], second>>]} ELSE OneOf(FreshFiles) :
                /\ data' = [data EXCEPT ![f] = Empty]
                /\ spoiled' = (spoiled \/ temp_path[<<Process[c], second>>] # NoFile)
        BY <3>1 DEF OpenTemp
      <4>2. PICK f \in FreshFiles : data' = [data EXCEPT ![f] = Empty]
        BY <4>1, OneOfIn
      <4> QED BY <4>2 DEF FreshFiles
    <3>2. CASE WriteLines(c)
      <4>1. updater[c].fd \in Files /\ updater[c].fd # config_path
        BY <1>s, <1>t, <3>2 DEF WriteLines, At, CopiesApart, Copying
      <4>2. \E text : data' = [data EXCEPT ![updater[c].fd] = text]
        BY <3>2 DEF WriteLines
      <4> QED BY <4>1, <4>2
    <3> QED BY <1>4, <3>1, <3>2
  <2>3. data'[config_path'] = data[config_path]
    BY <1>t, <2>1, <2>2
  <2>4. /\ updater[c].pc \in {"temp", "write"} /\ updater'[c].pc \in {"write", "rename"}
        /\ updater'[c].lines = updater[c].lines /\ updater'[c].request = updater[c].request
    <3>1. CASE OpenTemp(c)
      BY <1>t, <3>1 DEF OpenTemp, At, Updater
    <3>2. CASE WriteLines(c)
      BY <1>t, <3>2 DEF WriteLines, At, GoTo, Updater
    <3> QED BY <1>4, <3>1, <3>2
  <2>5. \A d \in Callers : Copied(d)' = Copied(d)
    BY <2>1, <2>4 DEF OwnStep, Copied
  <2> QED BY <1>s, <2>3, <2>5, GivenUp
<1>5. ASSUME NEW c \in Callers, Rename(c) PROVE Promised!Next
  <2>1. OwnStep(c)
    BY <1>5, UpdateIsOwn DEF Update
  <2>2. /\ updater[c].pc = "rename" /\ updater'[c].pc = "unlock"
        /\ updater[c].fd \in Files /\ updater[c].fd # config_path
        /\ config_path' = updater[c].fd
    BY <1>s, <1>t, <1>5 DEF Rename, At, CopiesApart, Copying, Updater
  <2>3. data'[config_path'] = Edited(updater[c].lines, updater[c].request)
    <3>1. \A g \in Files : g # config_path => data'[g] = data[g]
      BY <1>t, <1>5 DEF Rename
    <3> QED BY <1>s, <2>2, <3>1 DEF EditInPlace, EditOf
  <2>4. Copied(c) = {<<updater[c].lines, updater[c].request>>} /\ Copied(c)' = {}
    BY <2>2 DEF Copied
  <2>5. \A d \in Callers : d # c => Copied(d)' = Copied(d)
    BY <2>1 DEF OwnStep, Copied
  <2>6. [d \in Callers |-> Copied(d)]' = [[d \in Callers |-> Copied(d)] EXCEPT ![c] = {}]
    BY <2>4, <2>5
  <2>7. \E copy \in [d \in Callers |-> Copied(d)][c] :
          data'[config_path'] = Edited(copy[1], copy[2])
    <3> DEFINE copy == <<updater[c].lines, updater[c].request>>
    <3>1. copy \in [d \in Callers |-> Copied(d)][c]
      BY <2>4
    <3>2. copy[1] = updater[c].lines /\ copy[2] = updater[c].request
      OBVIOUS
    <3>3. data'[config_path'] = Edited(copy[1], copy[2])
      BY <2>3, <3>2, Zenon
    <3> QED BY <3>1, <3>3
  <2>8. Promised!Put(c)
    BY <1>s, <2>6, <2>7 DEF Promised!Put
  <2> QED BY <2>8 DEF Promised!Next
<1>6. ASSUME NEW p \in Processes, Crash(p) PROVE Promised!Next
  <2>1. /\ data' = data /\ config_path' = config_path
        /\ \A d \in Callers : updater'[d] = updater[d] \/ updater'[d].pc = "idle"
    BY <1>6, <1>i DEF Crash
  <2>2. \A d \in Callers : Copied(d)' = {} \/ Copied(d)' = Copied(d)
    BY <2>1 DEF Copied
  <2> QED BY <1>s, <2>1, <2>2, GivenUp
<1> QED BY <1>1, <1>2, <1>3, <1>4, <1>5, <1>6 DEF Next, Update

-----------------------------------------------------------------------------
(* Every variable of the file protocol keeps its type, with any number of  *)
(* callers and processes, calls and crashes.                               *)
THEOREM ConfigTypeCorrect == Spec => []TypeOK
BY InitType, StepType, PTL DEF Spec

(* The configuration file is EditedFile: whatever the callers, the failing *)
(* calls and the processes that die, config.yaml changes in one step from  *)
(* one whole text to another, the edit a call made of the text it read,    *)
(* until a write comes out short or two callers have one temporary file.   *)
THEOREM FileIsEdited == Spec => ImplementsEditedFile
<1>1. Init => Promised!Init /\ (~spoiled => CopiesApart) /\ CallsApart /\ (~spoiled => EditInPlace)
  BY InitApart, InitPromised
<1>2. ASSUME TypeOK, TypeOK', ~spoiled => CopiesApart, CallsApart, ~spoiled => EditInPlace,
             [Next]_vars
      PROVE  ~spoiled' => EditInPlace'
  BY <1>2, SpoiledStays, EditInPlaceStep
<1>3. ASSUME TypeOK, TypeOK', ~spoiled => CopiesApart, ~spoiled => EditInPlace, [Next]_vars
      PROVE  Promised!Next \/ UNCHANGED Promised!absVars
  BY <1>3, PromisedStep
<1> QED BY <1>1, <1>2, <1>3, CopiesApartStep, CallsApartStep, ConfigTypeCorrect, PTL
        DEF Spec, ImplementsEditedFile, Promised!Spec

(* In particular the file in place is never half-written.                  *)
NeverTorn == ~spoiled => data[config_path] \notin Broken

THEOREM NeverTornSafe == Spec => []NeverTorn
<1>1. Init => (~spoiled => CopiesApart)
  BY InitApart
<1>2. (~spoiled => CopiesApart) => NeverTorn
  BY DEF CopiesApart, NeverTorn
<1> QED BY <1>1, <1>2, CopiesApartStep, ConfigTypeCorrect, PTL DEF Spec

(* An update that ran alone changes of the loaded settings exactly those   *)
(* it was asked for and writes: they have the values asked for, and every  *)
(* other field the value it had, hot_config_enabled and the mstp_ fields   *)
(* although they may be asked for too.  This for every file of the         *)
(* loader's sections in whatever order, any number of callers, failing     *)
(* calls and dying processes.                                              *)
THEOREM SoloUpdateHolds == Spec => []SoloUpdateIsExact
<1>1. Init => (~spoiled => CopiesApart) /\ CallsApart /\ (~spoiled => EditInPlace)
  BY InitApart
<1>2. ASSUME TypeOK, TypeOK', ~spoiled => CopiesApart, CallsApart, ~spoiled => EditInPlace,
             [Next]_vars
      PROVE  ~spoiled' => EditInPlace'
  BY <1>2, SpoiledStays, EditInPlaceStep
<1>3. TypeOK /\ (~spoiled => EditInPlace) => SoloUpdateIsExact
  BY EditInPlaceIsExact
<1> QED BY <1>1, <1>2, <1>3, CopiesApartStep, CallsApartStep, ConfigTypeCorrect, PTL DEF Spec

(* As long as no process dies, every temporary name belongs to a call      *)
(* under way; so none is left when all calls have ended.                   *)
THEOREM NoCopyLeftBehind == Spec => []QuietMeansClean
<1>1. Init => NamesOwned
  BY DEF Init, NamesOwned
<1>2. NamesOwned => QuietMeansClean
  BY DEF NamesOwned, QuietMeansClean, Copying
<1> QED BY <1>1, <1>2, NamesOwnedStep, ConfigTypeCorrect, PTL DEF Spec
=============================================================================
