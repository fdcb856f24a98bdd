-------------------------- MODULE BacnetReloadProofs --------------------------
(***************************************************************************)
(* Proofs about BacnetReload for any number of application threads and     *)
(* edits, calm or not, with the monitor enabled or disabled.               *)
(***************************************************************************)
EXTENDS BacnetReload, TLAPS

(***************************************************************************)
(* The inductive invariant.  StageInv says what holds at each stage of a release and of an                *)
(* initialisation; MonitorInv who the monitor depends on; FileInv that in  *)
(* calm executions the monitor's baseline and the file move together.      *)
(***************************************************************************)
StageInv ==
  \A a \in Apps :
    /\ app[a] \in {"join", "reset"} => initialized /\ ~running
    /\ app[a] = "reset" => monitor = "none"
    /\ app[a] = "init" => ~initialized
    /\ app[a] = "watch" => initialized /\ monitor = "none" /\ ~running /\ ~worker
    /\ app[a] = "connect" => initialized /\ connection_state # "CONNECTED"

MonitorInv ==
  /\ ~initialized => monitor = "none" /\ ~running /\ ~worker
  /\ running => monitor # "none"
  /\ monitor # "none" => running \/ \E a \in Apps : app[a] = "join"

ServedInv == initialized => (worker <=> connection_state = "CONNECTED")

FileInv ==
  calm =>
    /\ file.exists /\ file.mtime = file.version
    /\ last_mtime <= file.mtime
    /\ monitor = "ended" => ~running
    /\ \A a \in Apps : app[a] = "watch" => config = file.version
    /\ hot_config_enabled /\ initialized =>
         running \/ \E a \in Apps : app[a] \in {"join", "reset", "watch"}

ReloadInv == StageInv /\ MonitorInv /\ ServedInv /\ FileInv /\ CalmEditIsKnown

-----------------------------------------------------------------------------
LEMMA InitType == Init => TypeOK
<1>1. 0 \in Versions
  BY ReloadAssumption DEF Versions
<1>2. Init => file \in Files
  BY <1>1 DEF Init, Files
<1> QED
  BY <1>1, <1>2, ReloadAssumption DEF Init, TypeOK, MonitorStates, AppStates, Reloading,
     Connecting, PlcHolders

LEMMA GoType ==
  ASSUME TypeOK, NEW a \in Apps, NEW pc \in AppStates, GoTo(a, pc)
  PROVE  app' \in [Apps -> AppStates]
  BY DEF TypeOK, GoTo

LEMMA AppType ==
  ASSUME TypeOK, NEW a \in Apps, AppNext(a)
  PROVE  TypeOK'
<1> USE DEF TypeOK, driver, watcher, locks
<1>1. app' \in [Apps -> AppStates]
  <2>1. \E pc \in AppStates : GoTo(a, pc)
    BY DEF AppNext, Locking, Inside, Starting, Call, CallReload, Recheck, LockPlc, Ensure,
       Flag, Release, ReleaseNothing, Join, Reset, Watch, Initialize, InitializeFails,
       Connect, ConnectFails, Fails, Unlocked, AppStates, Reloading, Connecting
  <2> QED
    BY <2>1, GoType
<1>2. config' \in Versions \cup {Defaults}
  BY DEF AppNext, Locking, Inside, Starting, Call, CallReload, Recheck, LockPlc, Ensure,
     Flag, Release, ReleaseNothing, Join, Reset, Watch, Initialize, InitializeFails,
     Connect, ConnectFails, LoadConfig, Files
<1>3. CASE Call(a) \/ CallReload(a) \/ Flag(a)
  BY <1>1, <1>2, <1>3 DEF Call, CallReload, Flag, GoTo, Reloading, PlcHolders, Connecting
<1>4. CASE Locking(a) /\ ~Flag(a)
  <2> USE <1>1, <1>2 DEF GoTo, Reloading, Connecting, PlcHolders
  <2>1. CASE Recheck(a) /\ pending_reload
    BY <2>1, ReloadAssumption DEF Recheck
  <2>2. CASE Recheck(a) /\ ~pending_reload
    BY <2>2 DEF Recheck
  <2>3. CASE LockPlc(a)
    BY <2>3, ReloadAssumption DEF LockPlc
  <2>4. CASE Ensure(a) /\ initialized /\ connection_state = "CONNECTED"
    BY <2>4 DEF Ensure
  <2>5. CASE Ensure(a) /\ ~(initialized /\ connection_state = "CONNECTED")
    <3>1. GoTo(a, "connect") \/ GoTo(a, "init")
      BY <2>5 DEF Ensure
    <3>2. g_plc_mutex = Nobody /\ g_plc_mutex' = a
      BY <2>5 DEF Ensure
    <3>3. UNCHANGED <<driver, watcher, hot_config_mutex, pending_reload, file, calm>>
      BY <2>5 DEF Ensure
    <3>4. app[a] = "ensure"
      BY <2>5 DEF Ensure
    <3> QED
      BY <3>1, <3>2, <3>3, <3>4, ReloadAssumption
  <2> QED
    BY <1>4, <2>1, <2>2, <2>3, <2>4, <2>5 DEF Locking
<1>5. CASE Inside(a)
  <2> USE <1>1, <1>2, ReloadAssumption DEF GoTo, Reloading, Connecting, PlcHolders
  <2>1. CASE Release(a)
    BY <2>1 DEF Release
  <2>2. CASE ReleaseNothing(a)
    BY <2>2 DEF ReleaseNothing, Unlocked
  <2>3. CASE Join(a)
    BY <2>3 DEF Join, MonitorStates
  <2>4. CASE Reset(a)
    BY <2>4 DEF Reset, Unlocked
  <2>5. CASE Watch(a)
    <3>1. running' \in BOOLEAN /\ last_mtime' \in Versions /\ monitor' \in MonitorStates
      BY <2>5 DEF Watch, Files, MonitorStates
    <3>2. UNCHANGED <<driver, locks, pending_reload, file, calm>> /\ GoTo(a, "connect")
      BY <2>5 DEF Watch
    <3> QED
      BY <2>5, <3>1, <3>2 DEF Watch
  <2> QED
    BY <1>5, <2>1, <2>2, <2>3, <2>4, <2>5 DEF Inside
<1>6. CASE Starting(a)
  <2> USE <1>1, <1>2, ReloadAssumption DEF Fails, GoTo, Reloading, Connecting, PlcHolders
  <2>1. CASE Initialize(a)
    BY <2>1 DEF Initialize
  <2>2. CASE InitializeFails(a)
    BY <2>2 DEF InitializeFails
  <2>3. CASE Connect(a)
    BY <2>3 DEF Connect
  <2>4. CASE ConnectFails(a)
    BY <2>4 DEF ConnectFails
  <2> QED
    BY <1>6, <2>1, <2>2, <2>3, <2>4 DEF Starting
<1> QED
  BY <1>3, <1>5, <1>6, <1>4 DEF AppNext

LEMMA MonitorType == TypeOK /\ MonitorNext => TypeOK'
  BY DEF TypeOK, driver, watcher, locks, MonitorNext, MonitorEnds, MonitorDetects,
     MonitorFlags, MonitorStates, Files

(* An edit of the file moves it one version on, and its time no further    *)
(* than that.                                                              *)
LEMMA EditType ==
  ASSUME TypeOK, file.mtime <= file.version, Edit
  PROVE  file' \in Files /\ file'.mtime <= file'.version
  BY ReloadAssumption DEF TypeOK, Edit, Files, Versions

TypeInv == TypeOK /\ file.mtime <= file.version

LEMMA StepType == TypeInv /\ [Next]_vars => TypeInv'
<1> SUFFICES ASSUME TypeInv, [Next]_vars PROVE TypeInv'
  OBVIOUS
<1> USE DEF TypeInv
<1>1. ASSUME NEW a \in Apps, AppNext(a) PROVE TypeInv'
  <2>1. UNCHANGED file
    BY <1>1 DEF AppNext, Locking, Inside, Starting, Call, CallReload, Recheck, LockPlc,
       Ensure, Flag, Release, ReleaseNothing, Join, Reset, Watch, Initialize,
       InitializeFails, Connect, ConnectFails
  <2> QED
    BY <1>1, <2>1, AppType
<1>2. CASE MonitorNext
  <2>1. UNCHANGED file
    BY <1>2 DEF MonitorNext, MonitorEnds, MonitorDetects, MonitorFlags
  <2> QED
    BY <1>2, <2>1, MonitorType
<1>3. CASE Edit
  <2>1. file' \in Files /\ file'.mtime <= file'.version
    BY <1>3, EditType
  <2>2. UNCHANGED <<driver, watcher, locks, pending_reload, app, calm>>
    BY <1>3 DEF Edit
  <2> QED
    BY <2>1, <2>2 DEF TypeOK, driver, watcher, locks
<1>4. CASE Vanish
  BY <1>4 DEF Vanish, TypeOK, Files, driver, watcher, locks
<1>5. CASE UNCHANGED vars
  BY <1>5 DEF vars, TypeOK, driver, watcher, locks
<1> QED
  BY <1>1, <1>2, <1>3, <1>4, <1>5 DEF Next

LEMMA InitTypeInv == Init => TypeInv
  BY InitType DEF TypeInv, Init

(* Type correctness; the file's time never runs ahead of its edits.        *)
THEOREM TypeCorrect == Spec => []TypeOK
<1>1. TypeInv => TypeOK
  BY DEF TypeInv
<1> QED
  BY <1>1, InitTypeInv, StepType, PTL DEF Spec

-----------------------------------------------------------------------------
LEMMA InitInv == Init => ReloadInv
  BY DEF Init, ReloadInv, StageInv, MonitorInv, ServedInv, FileInv,
     CalmEditIsKnown, Reloading, Connecting

(* Two callers are never both past the lock of g_plc_mutex.                *)
LEMMA OneInside ==
  ASSUME TypeOK, NEW a \in Apps, NEW b \in Apps,
         app[a] \in PlcHolders, app[b] \in PlcHolders
  PROVE  a = b
  BY DEF TypeOK

LEMMA CallStep ==
  ASSUME TypeInv, ReloadInv, NEW a \in Apps,
         Call(a) \/ CallReload(a) \/ Locking(a)
  PROVE  ReloadInv'
<1> USE DEF TypeInv, TypeOK, ReloadInv, driver, watcher, locks
<1>1. StageInv'
  BY DEF StageInv, ServedInv, Call, CallReload, Locking, Recheck, LockPlc, Ensure, Flag, GoTo
<1>2. MonitorInv' /\ ServedInv'
  BY DEF MonitorInv, ServedInv, Call, CallReload, Locking, Recheck, LockPlc, Ensure, Flag, GoTo
<1>3. FileInv'
  BY DEF FileInv, Call, CallReload, Locking, Recheck, LockPlc, Ensure, Flag, GoTo
<1>4. CalmEditIsKnown'
  BY DEF CalmEditIsKnown, Call, CallReload, Locking, Recheck, LockPlc, Ensure, Flag, GoTo,
     Reloading
<1> QED
  BY <1>1, <1>2, <1>3, <1>4

LEMMA ReleaseStep ==
  ASSUME TypeInv, ReloadInv, NEW a \in Apps,
         Release(a) \/ ReleaseNothing(a) \/ Join(a) \/ Reset(a)
  PROVE  ReloadInv'
<1> USE DEF TypeInv, TypeOK, ReloadInv, driver, watcher, locks
<1>0. \A b \in Apps : app[b] \in PlcHolders => b = a
  BY OneInside DEF Release, ReleaseNothing, Join, Reset, PlcHolders
<1>1. StageInv'
  BY <1>0 DEF StageInv, MonitorInv, Release, ReleaseNothing, Join, Reset, Unlocked, GoTo,
     PlcHolders, Connecting
<1>2. MonitorInv' /\ ServedInv'
  BY <1>0 DEF MonitorInv, StageInv, ServedInv, Release, ReleaseNothing, Join, Reset, Unlocked,
     GoTo, PlcHolders
<1>3. FileInv'
  BY <1>0 DEF FileInv, Release, ReleaseNothing, Join, Reset, Unlocked, GoTo,
     PlcHolders, Connecting
<1>4. CalmEditIsKnown'
  BY DEF CalmEditIsKnown, StageInv, Release, ReleaseNothing, Join, Reset, Unlocked, GoTo,
     Reloading
<1> QED
  BY <1>1, <1>2, <1>3, <1>4

LEMMA StartStep ==
  ASSUME TypeInv, ReloadInv, NEW a \in Apps, Watch(a) \/ Starting(a)
  PROVE  ReloadInv'
<1> USE DEF TypeInv, TypeOK, ReloadInv, driver, watcher, locks, Starting
<1>0. \A b \in Apps : app[b] \in PlcHolders => b = a
  BY OneInside DEF Watch, Initialize, InitializeFails, Connect, ConnectFails, PlcHolders, Connecting
<1>1. StageInv'
  BY <1>0 DEF StageInv, MonitorInv, ServedInv, Watch, Initialize, InitializeFails, Connect,
     ConnectFails, Fails, GoTo, PlcHolders, Connecting
<1>2. MonitorInv' /\ ServedInv'
  BY <1>0 DEF MonitorInv, StageInv, ServedInv, Watch, Initialize, InitializeFails, Connect,
     ConnectFails, Fails, GoTo, PlcHolders
<1>3. FileInv'
  BY <1>0 DEF FileInv, StageInv, LoadConfig, Watch, Initialize, InitializeFails,
     Connect, ConnectFails, Fails, GoTo, PlcHolders, Connecting
<1>4. CalmEditIsKnown'
  BY DEF CalmEditIsKnown, FileInv, StageInv, LoadConfig, Watch, Initialize, InitializeFails,
     Connect, ConnectFails, Fails, GoTo, Reloading
<1> QED
  BY <1>1, <1>2, <1>3, <1>4

LEMMA MonitorStep ==
  ASSUME TypeInv, ReloadInv, MonitorNext
  PROVE  ReloadInv'
<1> USE DEF TypeInv, TypeOK, ReloadInv, driver, watcher, locks, MonitorNext
<1>1. ServedInv'
  BY DEF ServedInv, MonitorEnds, MonitorDetects, MonitorFlags
<1>2. StageInv' /\ MonitorInv'
  BY DEF StageInv, MonitorInv, MonitorEnds, MonitorDetects, MonitorFlags
<1>3. FileInv'
  BY DEF FileInv, Files, Versions, MonitorEnds, MonitorDetects, MonitorFlags
<1>4. CalmEditIsKnown'
  BY DEF CalmEditIsKnown, FileInv, Reloading, MonitorEnds, MonitorDetects, MonitorFlags
<1> QED
  BY <1>1, <1>2, <1>3, <1>4

LEMMA FileStep ==
  ASSUME TypeInv, ReloadInv, Edit \/ Vanish
  PROVE  ReloadInv'
<1> USE DEF TypeInv, TypeOK, ReloadInv, driver, watcher, locks
<1>1. StageInv' /\ MonitorInv' /\ ServedInv'
  BY DEF StageInv, MonitorInv, ServedInv, Edit, Vanish
<1>2. ASSUME calm
      PROVE  /\ file'.exists
             /\ file'.version = file.version + 1 /\ file'.mtime = file.mtime + 1
             /\ \A a \in Apps : app[a] # "watch"
  <2>1. file.mtime \in Int /\ file.version \in Int
    BY ReloadAssumption DEF Files, Versions
  <2> QED
    BY <1>2, <2>1 DEF Edit, Vanish, EditIsCalm
<1>3. file.mtime \in Int /\ file.version \in Int /\ last_mtime \in Int
  BY ReloadAssumption DEF Files, Versions
<1>4. UNCHANGED <<driver, watcher, locks, pending_reload, app, calm>>
  BY DEF Edit, Vanish
<1>5. FileInv'
  BY <1>2, <1>3, <1>4 DEF FileInv
<1>6. CalmEditIsKnown'
  BY <1>2, <1>3, <1>4 DEF CalmEditIsKnown, FileInv, MonitorInv, MonitorStates, Reloading
<1> QED
  BY <1>1, <1>5, <1>6

LEMMA StepInv == TypeInv /\ ReloadInv /\ [Next]_vars => ReloadInv'
<1> SUFFICES ASSUME TypeInv, ReloadInv, [Next]_vars PROVE ReloadInv'
  OBVIOUS
<1>1. ASSUME NEW a \in Apps, AppNext(a) PROVE ReloadInv'
  BY <1>1, CallStep, ReleaseStep, StartStep DEF AppNext, Inside
<1>2. CASE MonitorNext
  BY <1>2, MonitorStep
<1>3. CASE Edit \/ Vanish
  BY <1>3, FileStep
<1>4. CASE UNCHANGED vars
  BY <1>4 DEF vars, driver, watcher, locks, ReloadInv, StageInv, MonitorInv,
     ServedInv, FileInv, CalmEditIsKnown
<1> QED
  BY <1>1, <1>2, <1>3, <1>4 DEF Next

(* No caller starts a monitor while the last one is not joined, however    *)
(* many callers, edits and disappearances of the file.                     *)
THEOREM RestartHolds == Spec => []RestartIsClean
<1>1. ReloadInv => RestartIsClean
  BY DEF ReloadInv, StageInv, RestartIsClean
<1> QED
  BY <1>1, InitTypeInv, StepType, InitInv, StepInv, PTL DEF Spec

(* A connected driver has its worker and a watched one its context.        *)
THEOREM ServedHolds == Spec => []ServedWhileConnected
<1>1. ReloadInv => ServedWhileConnected
  BY DEF ReloadInv, ServedInv, MonitorInv, ServedWhileConnected
<1> QED
  BY <1>1, InitTypeInv, StepType, InitInv, StepInv, PTL DEF Spec

(* In calm executions no edit is ever forgotten.                           *)
THEOREM EditIsKnown == Spec => []CalmEditIsKnown
<1>1. ReloadInv => CalmEditIsKnown
  BY DEF ReloadInv
<1> QED
  BY <1>1, InitTypeInv, StepType, InitInv, StepInv, PTL DEF Spec
=============================================================================
