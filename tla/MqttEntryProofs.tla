---------------------------- MODULE MqttEntryProofs ----------------------------
(***************************************************************************)
(* Proofs about MqttEntry for any number of application threads, edits of  *)
(* the file and stops of the monitor.                                      *)
(***************************************************************************)
EXTENDS MqttEntry, TLAPS

(***************************************************************************)
(* The inductive invariant.  ContextInv: whoever is about to initialise    *)
(* finds no context, and who has initialised and looks at the monitor has  *)
(* one.  StartInv: the monitor is started by the first caller that gets so *)
(* far.  CalmInv: in calm executions there is one monitor, it is not       *)
(* lost, and from its first look on it knows what was loaded.              *)
(***************************************************************************)
ContextInv ==
  /\ OneContext
  /\ \A a \in Apps : app[a] = "init" => ~g_inited
  /\ \A a \in Apps : app[a] = "watch" => g_inited
  /\ \A m \in Monitors : monitor[m] = "reinit" => ~g_inited

StartInv ==
  /\ \A a \in Apps : app[a] = "watch" => ~running
  /\ stops = 0 /\ ~running => \A m \in Monitors : monitor[m] = "none"

CalmInv ==
  calm =>
    /\ stops = 0 /\ \A m \in Monitors : m # 0 => monitor[m] = "none"
    /\ file.exists /\ file.mtime = file.version + 1
    /\ last_mtime <= file.mtime
    /\ \A a \in Apps : app[a] = "watch" => config = file.version
    /\ running => monitor[0] \notin {"none", "ended"}
    /\ g_inited => running \/ \E a \in Apps : app[a] = "watch"
    /\ monitor[0] = "start" => g_inited /\ config = file.version
    /\ monitor[0] = "check" /\ g_inited =>
         config = file.version \/ file.mtime # last_mtime

EntryInv ==
  TypeOK /\ file.mtime <= file.version + 1 /\ ContextInv /\ StartInv /\ CalmInv

-----------------------------------------------------------------------------
LEMMA Numbers ==
  /\ 0 \in Versions /\ Versions \subseteq Int
  /\ 0 \in Times /\ 1 \in Times /\ \A t \in Times : t \in Int /\ 0 <= t
  /\ 0 \in Monitors
  BY EntryAssumption DEF Versions, Times, Monitors

LEMMA InitInv == Init => EntryInv
<1> SUFFICES ASSUME Init PROVE EntryInv
  OBVIOUS
<1>1. TypeOK
  BY Numbers, EntryAssumption DEF Init, TypeOK, Files, AppStates, MonitorStates, Ensuring
<1>2. ContextInv /\ StartInv
  BY DEF Init, ContextInv, OneContext, StartInv
<1>4. file.mtime <= file.version + 1
  BY DEF Init
<1>3. CalmInv
  BY Numbers DEF Init, CalmInv
<1> QED
  BY <1>1, <1>2, <1>3, <1>4 DEF EntryInv

(* Two threads are never both inside the mutex.                            *)
LEMMA OneInside ==
  ASSUME TypeOK, NEW a \in Apps, app[a] \in Ensuring
  PROVE  /\ g_ctx_mutex = a
         /\ \A b \in Apps : app[b] \in Ensuring => b = a
         /\ \A m \in Monitors : monitor[m] # "reinit"
  BY EntryAssumption DEF TypeOK

LEMMA NoneInside ==
  ASSUME TypeOK, g_ctx_mutex = Nobody \/ g_ctx_mutex \in Monitors
  PROVE  \A a \in Apps : app[a] \notin Ensuring
  BY EntryAssumption DEF TypeOK

-----------------------------------------------------------------------------
(* The steps of an application thread.                                     *)
LEMMA AppType ==
  ASSUME EntryInv, NEW a \in Apps, AppNext(a)
  PROVE  TypeOK'
<1> USE DEF EntryInv, TypeOK, context, watcher, outside
<1>1. app' \in [Apps -> AppStates] /\ \A b \in Apps \ {a} : app'[b] = app[b]
  BY DEF AppNext, Enter, Ensure, Operate, Initialize, InitializeFails, Watch, Connect, Fetch,
     Use, GoTo, AppStates, Ensuring
<1>2. UNCHANGED <<stops, file, calm>>
  BY DEF AppNext, Enter, Ensure, Operate, Initialize, InitializeFails, Watch, Connect, Fetch,
     Use
<1>3. CASE Enter(a)
  BY <1>1, <1>2, <1>3, EntryAssumption DEF Enter, GoTo, Ensuring
<1>4. CASE Initialize(a)
  BY <1>1, <1>2, <1>4 DEF Initialize, DriverInit, LoadConfig, GoTo, Ensuring, Files
<1>5. CASE InitializeFails(a)
  BY <1>1, <1>2, <1>5, OneInside, EntryAssumption DEF InitializeFails, Unlock, GoTo, Ensuring
<1>6. CASE Watch(a)
  <2>1. monitor' \in [Monitors -> MonitorStates]
    BY <1>6 DEF Watch, MonitorStates
  <2>2. \A m \in Monitors : monitor'[m] = "reinit" <=> monitor[m] = "reinit"
    <3>1. \A m \in Monitors : monitor[m] # "reinit"
      BY <1>6, OneInside DEF Watch, Ensuring
    <3> QED
      BY <1>6, <3>1 DEF Watch
  <2>3. last_mtime' \in Times /\ running' \in BOOLEAN
    BY <1>6, Numbers DEF Watch
  <2>4. UNCHANGED <<context, g_ctx_mutex>>
    BY <1>6 DEF Watch
  <2>5. app[a] = "watch" /\ app'[a] = "connect"
    BY <1>6 DEF Watch, GoTo
  <2>6. \A b \in Apps : app'[b] \in Ensuring <=> app[b] \in Ensuring
    BY <1>1, <2>5 DEF Ensuring
  <2>7. stale' \subseteq {b \in Apps : app'[b] = "use"}
    BY <1>1, <2>4, <2>5
  <2> QED
    BY <1>1, <1>2, <2>1, <2>2, <2>3, <2>4, <2>6, <2>7
<1>7. CASE Connect(a)
  BY <1>1, <1>2, <1>7, OneInside, EntryAssumption DEF Connect, Unlock, GoTo, Ensuring
<1>8. CASE Operate(a)
  BY <1>1, <1>2, <1>8 DEF Operate, Fetch, Use, GoTo, Ensuring
<1> QED
  BY <1>3, <1>4, <1>5, <1>6, <1>7, <1>8 DEF AppNext, Ensure

LEMMA AppContext ==
  ASSUME EntryInv, NEW a \in Apps, AppNext(a)
  PROVE  ContextInv' /\ StartInv'
<1> USE DEF EntryInv, TypeOK, ContextInv, OneContext, StartInv, context, watcher, outside, GoTo
<1>1. CASE Enter(a)
  BY <1>1 DEF Enter
<1>2. CASE Initialize(a)
  <2>1. \A b \in Apps : app[b] \in Ensuring => b = a
    BY <1>2, OneInside DEF Initialize, Ensuring
  <2>2. \A m \in Monitors : monitor[m] # "reinit"
    BY <1>2, OneInside DEF Initialize, Ensuring
  <2> QED
    BY <1>2, <2>1, <2>2 DEF Initialize, DriverInit, LoadConfig, Ensuring
<1>3. CASE InitializeFails(a)
  BY <1>3 DEF InitializeFails
<1>4. CASE Watch(a)
  <2>1. \A b \in Apps : app[b] \in Ensuring => b = a
    BY <1>4, OneInside DEF Watch, Ensuring
  <2>2. \A m \in Monitors : monitor[m] # "reinit"
    BY <1>4, OneInside DEF Watch, Ensuring
  <2> QED
    BY <1>4, <2>1, <2>2 DEF Watch, Ensuring
<1>5. CASE Connect(a)
  BY <1>5 DEF Connect
<1>6. CASE Operate(a)
  BY <1>6 DEF Operate, Fetch, Use
<1> QED
  BY <1>1, <1>2, <1>3, <1>4, <1>5, <1>6 DEF AppNext, Ensure

LEMMA AppCalm ==
  ASSUME EntryInv, NEW a \in Apps, AppNext(a)
  PROVE  CalmInv'
<1> USE DEF EntryInv, TypeOK, CalmInv, context, watcher, outside, GoTo
<1>1. CASE Enter(a)
  BY <1>1 DEF Enter
<1>2. CASE Initialize(a)
  <2>1. \A b \in Apps : app[b] \in Ensuring => b = a
    BY <1>2, OneInside DEF Initialize, Ensuring
  <2>2. config' = file.version /\ UNCHANGED <<watcher, outside>>
    BY <1>2 DEF Initialize, DriverInit, LoadConfig
  <2>3. calm => monitor[0] # "start"
    BY <1>2 DEF Initialize, ContextInv
  <2>4. running \/ app'[a] = "watch"
    BY <1>2 DEF Initialize
  <2> QED
    BY <2>1, <2>2, <2>3, <2>4
<1>3. CASE InitializeFails(a)
  BY <1>3 DEF InitializeFails
<1>4. CASE Watch(a)
  <2>1. \A b \in Apps : app[b] \in Ensuring => b = a
    BY <1>4, OneInside DEF Watch, Ensuring
  <2>2. calm => monitor'[0] = "start"
    BY <1>4, Numbers DEF Watch
  <2>3. running' /\ last_mtime' = 0 /\ UNCHANGED <<context, outside>>
    BY <1>4 DEF Watch
  <2>4. g_inited /\ (calm => config = file.version)
    BY <1>4 DEF Watch, ContextInv
  <2>5. file.mtime \in Times
    BY DEF Files
  <2>6. 0 <= file.mtime
    BY <2>5, Numbers
  <2>7. \A b \in Apps : app'[b] # "watch"
    BY <1>4, <2>1 DEF Watch, Ensuring
  <2>8. calm => \A n \in Monitors : n # 0 => monitor'[n] = "none"
    BY <1>4 DEF Watch
  <2>9. UNCHANGED <<stops, file, calm, g_inited, config>>
    BY <2>3
  <2>10. calm => stops' = 0 /\ file'.exists /\ file'.mtime = file'.version + 1
    BY <2>9
  <2> QED
    BY <2>2, <2>3, <2>4, <2>6, <2>7, <2>8, <2>9, <2>10
<1>5. CASE Connect(a)
  BY <1>5 DEF Connect
<1>6. CASE Operate(a)
  <2>1. UNCHANGED <<g_inited, config, watcher, outside>>
    BY <1>6 DEF Operate, Fetch, Use
  <2>2. app[a] # "watch" /\ app'[a] # "watch" /\ \A b \in Apps \ {a} : app'[b] = app[b]
    BY <1>6 DEF Operate, Fetch, Use
  <2>3. \A b \in Apps : app'[b] = "watch" <=> app[b] = "watch"
    BY <2>2
  <2> QED
    BY <2>1, <2>3
<1> QED
  BY <1>1, <1>2, <1>3, <1>4, <1>5, <1>6 DEF AppNext, Ensure

-----------------------------------------------------------------------------
(* The steps of a monitor thread.                                          *)
LEMMA MonitorType ==
  ASSUME EntryInv, NEW m \in Monitors, MonitorNext(m)
  PROVE  TypeOK'
<1> USE DEF EntryInv, TypeOK, context, watcher, outside, MonitorTo
<1>1. monitor' \in [Monitors -> MonitorStates]
      /\ \A n \in Monitors \ {m} : monitor'[n] = monitor[n]
  BY DEF MonitorNext, Baseline, MonitorEnds, Detect, Confirm, Release, Reinitialize,
     MonitorStates
<1>2. UNCHANGED <<app, stops, file, calm, running>>
  BY DEF MonitorNext, Baseline, MonitorEnds, Detect, Confirm, Release, Reinitialize
<1>3. CASE Baseline(m) \/ MonitorEnds(m) \/ Detect(m) \/ Confirm(m)
  BY <1>1, <1>2, <1>3 DEF Baseline, MonitorEnds, Detect, Confirm, Files
<1>4. CASE Release(m)
  <2>1. contexts' \in Nat /\ userdata' \in BOOLEAN /\ g_inited' \in BOOLEAN
        /\ stale' \subseteq {a \in Apps : app[a] = "use"}
    <3>1. CASE g_inited
      <4>1. contexts' = 0 /\ userdata' = FALSE /\ g_inited' = FALSE
        BY <1>4, <3>1 DEF Release, DriverRelease, ContextInv, OneContext
      <4>2. stale' = stale \cup {a \in Apps : app[a] = "use"}
        BY <1>4, <3>1 DEF Release, DriverRelease
      <4> QED
        BY <4>1, <4>2
    <3>2. CASE ~g_inited
      BY <1>4, <3>2 DEF Release
    <3> QED
      BY <3>1, <3>2
  <2>2. g_ctx_mutex = Nobody /\ g_ctx_mutex' = m /\ monitor'[m] = "reinit"
    BY <1>4 DEF Release
  <2>3. UNCHANGED <<config, last_mtime>>
    BY <1>4 DEF Release
  <2> QED
    BY <1>1, <1>2, <2>1, <2>2, <2>3, EntryAssumption
<1>5. CASE Reinitialize(m)
  <2>1. contexts' \in Nat /\ userdata' \in BOOLEAN /\ g_inited' \in BOOLEAN
        /\ config' \in Versions /\ stale' = stale
    <3>1. CASE DriverInit
      BY <3>1 DEF DriverInit, LoadConfig, Files
    <3>2. CASE UNCHANGED context
      BY <3>2
    <3> QED
      BY <1>5, <3>1, <3>2 DEF Reinitialize
  <2>2. g_ctx_mutex = m /\ g_ctx_mutex' = Nobody /\ monitor'[m] = "check"
    BY <1>5 DEF Reinitialize, Unlock
  <2>3. UNCHANGED last_mtime
    BY <1>5 DEF Reinitialize
  <2> QED
    BY <1>1, <1>2, <2>1, <2>2, <2>3, EntryAssumption
<1> QED
  BY <1>3, <1>4, <1>5 DEF MonitorNext

LEMMA MonitorContext ==
  ASSUME EntryInv, NEW m \in Monitors, MonitorNext(m)
  PROVE  ContextInv' /\ StartInv'
<1> USE DEF EntryInv, TypeOK, ContextInv, OneContext, StartInv, context, watcher, outside,
            MonitorTo
<1>1. CASE Baseline(m) \/ MonitorEnds(m) \/ Detect(m) \/ Confirm(m)
  BY <1>1 DEF Baseline, MonitorEnds, Detect, Confirm
<1>2. CASE Release(m)
  <2>1. \A a \in Apps : app[a] \notin Ensuring
    BY <1>2, NoneInside DEF Release
  <2> QED
    <3>1. app' = app /\ g_inited' = FALSE /\ UNCHANGED <<running, stops>>
      BY <1>2 DEF Release
    <3>2. contexts' = 0 /\ userdata' = FALSE
      BY <1>2 DEF Release, DriverRelease
    <3>3. \A n \in Monitors : monitor'[n] = "none" <=> monitor[n] = "none"
      BY <1>2 DEF Release
    <3> QED
      BY <2>1, <3>1, <3>2, <3>3 DEF Ensuring
<1>3. CASE Reinitialize(m)
  <2>1. g_ctx_mutex = m
    BY <1>3 DEF Reinitialize
  <2>2. \A a \in Apps : app[a] \notin Ensuring
    BY <2>1, NoneInside
  <2>3. \A n \in Monitors : monitor[n] = "reinit" => n = m
    BY <2>1
  <2> QED
    <3>1. UNCHANGED <<app, running, stops>>
      BY <1>3 DEF Reinitialize
    <3>2. OneContext'
      <4>1. CASE DriverInit
        BY <1>3, <4>1 DEF Reinitialize, DriverInit, LoadConfig
      <4>2. CASE UNCHANGED context
        BY <4>2
      <4> QED
        BY <1>3, <4>1, <4>2 DEF Reinitialize
    <3>3. \A n \in Monitors : monitor'[n] # "reinit"
      BY <1>3, <2>3 DEF Reinitialize
    <3>4. \A n \in Monitors : monitor'[n] = "none" <=> monitor[n] = "none"
      BY <1>3 DEF Reinitialize
    <3> QED
      BY <2>2, <3>1, <3>2, <3>3, <3>4 DEF Ensuring
<1> QED
  BY <1>1, <1>2, <1>3 DEF MonitorNext

LEMMA MonitorCalm ==
  ASSUME EntryInv, NEW m \in Monitors, MonitorNext(m)
  PROVE  CalmInv'
<1> USE Numbers DEF EntryInv, TypeOK, CalmInv, context, watcher, outside, MonitorTo
<1>0. calm => m = 0
  BY DEF MonitorNext, Baseline, MonitorEnds, Detect, Confirm, Release, Reinitialize
<1>1. CASE Baseline(m)
  <2>1. calm => running /\ \A a \in Apps : app[a] # "watch"
    BY <1>1 DEF Baseline, StartInv
  <2> QED
    BY <1>0, <1>1, <2>1 DEF Baseline, Files, Times
<1>2. CASE MonitorEnds(m)
  <2>1. ~calm
    BY <1>0, <1>2 DEF MonitorEnds, StartInv
  <2> QED
    BY <1>2, <2>1 DEF MonitorEnds
<1>3. CASE Detect(m)
  <2>1. file.mtime \in Int /\ last_mtime' = file.mtime
    BY <1>3 DEF Detect, Files
  <2>2. calm => monitor'[0] = "changed"
    BY <1>0, <1>3 DEF Detect
  <2> QED
    BY <1>0, <1>3, <2>1, <2>2 DEF Detect
<1>4. CASE Confirm(m)
  BY <1>0, <1>4 DEF Confirm
<1>5. CASE Release(m)
  <2>1. \A a \in Apps : app[a] # "watch"
    BY <1>5, NoneInside DEF Release, Ensuring
  <2>2. calm => monitor'[0] = "reinit"
    BY <1>0, <1>5 DEF Release
  <2>3. g_inited' = FALSE
    BY <1>5 DEF Release
  <2> QED
    BY <1>0, <1>5, <2>1, <2>2, <2>3 DEF Release
<1>6. CASE Reinitialize(m)
  <2>1. calm => monitor'[0] = "check" /\ running
    BY <1>0, <1>6 DEF Reinitialize, StartInv
  <2>2. g_inited' => config' = file.version
    BY <1>6 DEF Reinitialize, DriverInit, LoadConfig, ContextInv
  <2>3. UNCHANGED <<app, running, last_mtime, stops, file, calm>>
    BY <1>6 DEF Reinitialize
  <2>4. calm => \A n \in Monitors : n # 0 => monitor'[n] = "none"
    BY <1>0, <1>6 DEF Reinitialize
  <2>5. calm => \A a \in Apps : app[a] # "watch"
    BY <2>1, <1>6 DEF StartInv
  <2> QED
    BY <2>1, <2>2, <2>3, <2>4, <2>5
<1> QED
  BY <1>1, <1>2, <1>3, <1>4, <1>5, <1>6 DEF MonitorNext
-----------------------------------------------------------------------------
(* The steps of the world outside.                                         *)
LEMMA StopStep ==
  ASSUME EntryInv, Stop
  PROVE  EntryInv'
<1> USE DEF EntryInv, Stop, context, watcher, outside
<1>1. stops' \in Monitors /\ stops' # 0
  BY EntryAssumption DEF TypeOK, Monitors
<1>2. TypeOK'
  BY <1>1 DEF TypeOK
<1>3. ContextInv'
  BY DEF ContextInv, OneContext
<1>4. StartInv' /\ CalmInv'
  BY <1>1 DEF StartInv, CalmInv
<1> QED
  BY <1>2, <1>3, <1>4

LEMMA FileStep ==
  ASSUME EntryInv, Edit \/ Vanish
  PROVE  EntryInv'
<1> USE DEF EntryInv, context, watcher, outside
<1>0. UNCHANGED <<context, g_ctx_mutex, watcher, app, stops, calm>>
  BY DEF Edit, Vanish
<1>1. file.mtime \in Int /\ file.version \in Int /\ last_mtime \in Int
  BY Numbers DEF TypeOK, Files
<1>2. ASSUME calm
      PROVE  /\ file'.exists
             /\ file'.version = file.version + 1 /\ file'.mtime = file.mtime + 1
             /\ \A a \in Apps : app[a] # "watch"
             /\ \A m \in Monitors : monitor[m] # "start"
  BY <1>1, <1>2 DEF Edit, Vanish, EditIsCalm
<1>3. CalmInv'
  BY <1>0, <1>1, <1>2, Numbers DEF CalmInv
<1>4. ContextInv' /\ StartInv'
  BY <1>0 DEF ContextInv, OneContext, StartInv
<1>5. file' \in Files /\ file'.mtime <= file'.version + 1
  <2>1. CASE Edit
    <3>1. PICK t \in {file.mtime, file.mtime + 1} :
            file' = [exists |-> TRUE, version |-> file.version + 1, mtime |-> t]
      BY <2>1 DEF Edit
    <3>2. file.version + 1 \in Versions /\ file.mtime >= 0
      BY <2>1, EntryAssumption DEF TypeOK, Edit, Files, Versions, Times
    <3>3. t <= file.version + 2
      BY <1>1
    <3>4. t \in Times
      BY <1>1, <3>2, <3>3, EntryAssumption DEF Versions, Times
    <3> QED
      BY <1>1, <3>1, <3>2, <3>3, <3>4 DEF Files
  <2>2. CASE Vanish
    BY <2>2 DEF TypeOK, Vanish, Files
  <2> QED
    BY <2>1, <2>2
<1>6. TypeOK'
  BY <1>0, <1>5 DEF TypeOK
<1> QED
  BY <1>3, <1>4, <1>5, <1>6

LEMMA StepInv == EntryInv /\ [Next]_vars => EntryInv'
<1> SUFFICES ASSUME EntryInv, [Next]_vars PROVE EntryInv'
  OBVIOUS
<1>1. ASSUME NEW a \in Apps, AppNext(a) PROVE EntryInv'
  <2>1. UNCHANGED file
    BY <1>1 DEF AppNext, Enter, Ensure, Operate, Initialize, InitializeFails, Watch, Connect,
       Fetch, Use, outside
  <2> QED
    BY <1>1, <2>1, AppType, AppContext, AppCalm DEF EntryInv
<1>2. ASSUME NEW m \in Monitors, MonitorNext(m) PROVE EntryInv'
  <2>1. UNCHANGED file
    BY <1>2 DEF MonitorNext, Baseline, MonitorEnds, Detect, Confirm, Release, Reinitialize,
       outside
  <2> QED
    BY <1>2, <2>1, MonitorType, MonitorContext, MonitorCalm DEF EntryInv
<1>3. CASE Stop
  BY <1>3, StopStep
<1>4. CASE Edit \/ Vanish
  BY <1>4, FileStep
<1>5. CASE UNCHANGED vars
  BY <1>5 DEF vars, context, watcher, outside, EntryInv, TypeOK, ContextInv, OneContext,
     StartInv, CalmInv
<1> QED
  BY <1>1, <1>2, <1>3, <1>4, <1>5 DEF Next

(* Type correctness, and who holds the mutex.                              *)
THEOREM TypeCorrect == Spec => []TypeOK
<1>1. EntryInv => TypeOK
  BY DEF EntryInv
<1> QED
  BY <1>1, InitInv, StepInv, PTL DEF Spec

(* However reloads and calls of the entry interleave and fail, an          *)
(* initialised entry has a context, and there is never another.            *)
THEOREM OneContextHolds == Spec => []OneContext
<1>1. EntryInv => OneContext
  BY DEF EntryInv, ContextInv
<1> QED
  BY <1>1, InitInv, StepInv, PTL DEF Spec

(* As long as the program does not stop the monitor, it is started once.   *)
THEOREM StartedOnceHolds == Spec => []StartedOnce
<1>1. EntryInv => StartedOnce
  BY DEF EntryInv, StartInv, StartedOnce
<1> QED
  BY <1>1, InitInv, StepInv, PTL DEF Spec

(* In calm executions no edit is ever forgotten.                           *)
THEOREM EditIsKnown == Spec => []CalmEditIsKnown
<1>1. EntryInv => CalmEditIsKnown
  <2> SUFFICES ASSUME EntryInv, calm, g_inited, config # file.version
               PROVE  \/ monitor[0] = "check" /\ file.mtime # last_mtime
                      \/ monitor[0] \in {"changed", "reload"}
    BY Numbers DEF CalmEditIsKnown
  <2>1. running /\ monitor[0] \notin {"none", "ended", "start"}
    BY DEF EntryInv, CalmInv
  <2>2. monitor[0] # "reinit"
    BY Numbers DEF EntryInv, ContextInv
  <2>3. monitor[0] \in MonitorStates
    BY Numbers DEF EntryInv, TypeOK
  <2> QED
    BY <2>1, <2>2, <2>3 DEF EntryInv, CalmInv, MonitorStates
<1> QED
  BY <1>1, InitInv, StepInv, PTL DEF Spec
-----------------------------------------------------------------------------
(***************************************************************************)
(* Until the first edit: there is no monitor before the context, the       *)
(* monitor's record is the time of the file from its first look on, so no  *)
(* monitor gets as far as a release.                                       *)
(***************************************************************************)
UneditedInv ==
  file.version = 0 =>
    /\ stale = {}
    /\ file.mtime = 1
    /\ \A m \in Monitors : monitor[m] \in {"none", "start", "check", "ended"}
    /\ \A m \in Monitors : monitor[m] = "check" => last_mtime = 1
    /\ ~g_inited => \A m \in Monitors : monitor[m] = "none"
    /\ \A a \in Apps : app[a] \in {"init", "watch"} =>
         \A m \in Monitors : monitor[m] = "none"

LEMMA AppUnedited ==
  ASSUME EntryInv, UneditedInv, NEW a \in Apps, AppNext(a)
  PROVE  UneditedInv'
<1> USE DEF EntryInv, TypeOK, UneditedInv, context, watcher, outside, GoTo
<1>1. CASE Enter(a)
  BY <1>1 DEF Enter
<1>2. CASE Initialize(a)
  BY <1>2 DEF Initialize, DriverInit, LoadConfig
<1>3. CASE InitializeFails(a)
  BY <1>3 DEF InitializeFails
<1>4. CASE Watch(a)
  <2>1. \A b \in Apps : app'[b] \notin {"init", "watch"}
    BY <1>4, OneInside DEF Watch, Ensuring
  <2>2. g_inited' /\ UNCHANGED <<file, stale>>
    BY <1>4 DEF Watch, ContextInv
  <2>3. file.version = 0 => \A m \in Monitors : monitor'[m] \in {"none", "start"}
    BY <1>4 DEF Watch
  <2> QED BY <2>1, <2>2, <2>3
<1>5. CASE Connect(a)
  BY <1>5 DEF Connect
<1>6. CASE Operate(a)
  BY <1>6 DEF Operate, Fetch, Use
<1> QED BY <1>1, <1>2, <1>3, <1>4, <1>5, <1>6 DEF AppNext, Ensure

LEMMA StepUnedited == EntryInv /\ UneditedInv /\ [Next]_vars => UneditedInv'
<1> SUFFICES ASSUME EntryInv, UneditedInv, [Next]_vars PROVE UneditedInv'
  OBVIOUS
<1> USE DEF EntryInv, TypeOK, context, watcher, outside
<1>1. ASSUME NEW a \in Apps, AppNext(a) PROVE UneditedInv'
  BY <1>1, AppUnedited
<1>2. ASSUME NEW m \in Monitors, MonitorNext(m) PROVE UneditedInv'
  <2>1. CASE Baseline(m)
    BY <2>1 DEF Baseline, MonitorTo, UneditedInv
  <2>2. CASE MonitorEnds(m)
    BY <2>2 DEF MonitorEnds, MonitorTo, UneditedInv
  <2>3. CASE Detect(m) \/ Confirm(m) \/ Release(m) \/ Reinitialize(m)
    <3>1. file.version # 0 /\ UNCHANGED file
      BY <2>3 DEF Detect, Confirm, Release, Reinitialize, UneditedInv
    <3> QED BY <3>1 DEF UneditedInv
  <2> QED BY <1>2, <2>1, <2>2, <2>3 DEF MonitorNext
<1>3. CASE Stop
  BY <1>3 DEF Stop, UneditedInv
<1>4. CASE Edit
  <2>1. file'.version = file.version + 1 /\ file.version \in Versions
    BY <1>4 DEF Edit, Files
  <2>2. file'.version # 0
    BY <2>1, EntryAssumption DEF Versions
  <2> QED BY <2>2 DEF UneditedInv
<1>5. CASE Vanish
  BY <1>5 DEF Vanish, Files, UneditedInv
<1>6. CASE UNCHANGED vars
  BY <1>6 DEF vars, UneditedInv
<1> QED BY <1>1, <1>2, <1>3, <1>4, <1>5, <1>6 DEF Next

(* For any number of callers, stops and restarts of the monitor, failed    *)
(* initialisations and missing files: no operation loses its context       *)
(* before the file is edited.                                              *)
THEOREM StaleOnlyAfterEditHolds == Spec => []StaleOnlyAfterEdit
<1>1. Init => UneditedInv
  BY DEF Init, UneditedInv
<1>2. EntryInv /\ UneditedInv => StaleOnlyAfterEdit
  <2> SUFFICES ASSUME EntryInv, UneditedInv, file.version # 0 PROVE file.version > 0
    BY DEF StaleOnlyAfterEdit, UneditedInv
  <2>1. file.version \in Versions
    BY DEF EntryInv, TypeOK, Files
  <2> QED BY <2>1, EntryAssumption DEF Versions
<1> QED
  BY <1>1, <1>2, InitInv, StepInv, StepUnedited, PTL DEF Spec
=============================================================================
