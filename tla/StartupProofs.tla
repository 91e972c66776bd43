----------------------------- MODULE StartupProofs -----------------------------
(***************************************************************************)
(* Proofs about the start of the server, for any controls, configuration    *)
(* and number of commands.                                                  *)
(***************************************************************************)
EXTENDS Startup, TLAPS

Places ==
  {"enter", "abort", "reset", "look", "initialize", "test", "configure", "create",
   "out", "settings", "exec", "idle", "started"}

Types ==
  /\ pc \in [Threads -> Places]
  /\ ready \in BOOLEAN /\ acquiring \in BOOLEAN
  /\ clash \in BOOLEAN /\ alone \in BOOLEAN /\ recovered \in BOOLEAN
  /\ crashed \in {"no", "stop", "start", "gui"}

-----------------------------------------------------------------------------
(* The inductive invariant.                                                *)

\* An initialised driver without a poller exists only while some thread is about
\* to create it, or after a clash.
PollerDue == ready /\ poller = {} => Window \/ clash

\* Until the result of Initialize is tested, lastError tells it, as long as there is
\* no temperature thread that could assign it, which comes with the poller.
InitializeTold ==
  \A t \in Threads :
    pc[t] = "test" /\ ~clash /\ poller = {} => (lastError = "SUCCESS" <=> ready)

\* Until the result of StartAcquisition is tested, a success means a driver that
\* is initialised.
StartTold ==
  pc["server"] = "started" /\ lastError = "SUCCESS" /\ ~clash => ready

\* An INIT that comes out with a success has got to its end, if nobody else has
\* assigned lastError.
OutHasPoller ==
  pc["server"] = "out" /\ lastError = "SUCCESS" /\ (~clash \/ alone) => poller # {}

\* The main thread does nothing any more when an INIT is alone.
AloneAtRest == alone => pc["main"] = "exec"

RecoveredHasPoller == recovered => poller # {}

IInv ==
  /\ Types
  /\ PollerDue /\ InitializeTold /\ StartTold /\ OutHasPoller
  /\ AloneAtRest /\ RecoveredHasPoller
  /\ StartSafe /\ InitTruthful

LEMMA InvInit == Init => IInv
  BY DEF Init, IInv, Types, Threads, Places, PollerDue, InitializeTold, StartTold,
    OutHasPoller, AloneAtRest, RecoveredHasPoller, StartSafe, InitTruthful

\* Every step keeps the invariant.  What makes an action keep a part of it is a
\* step of its own where it is more than that nothing it speaks of changes.
LEMMA InvStep ==
  ASSUME IInv, [Next]_vars PROVE IInv'
<1> USE DEF IInv, Types, Threads, Places, PollerDue, InitializeTold, StartTold,
      OutHasPoller, AloneAtRest, RecoveredHasPoller, StartSafe, InitTruthful,
      Undisturbed, Window, At, Go, Other, Relies, Assign, env, init, refusals, threads
<1>1. ASSUME NEW t \in Threads, Enter(t) PROVE IInv'
  BY <1>1 DEF Enter
<1>2. ASSUME NEW t \in Threads, InitStop(t) PROVE IInv'
  BY <1>2 DEF InitStop, Abort
<1>3. ASSUME NEW t \in Threads, Reset(t) PROVE IInv'
  BY <1>3 DEF Reset
<1>4. ASSUME NEW t \in Threads, LookForCameras(t) PROVE IInv'
  BY <1>4 DEF LookForCameras, NoDevice
<1>5. ASSUME NEW t \in Threads, Initialize(t) PROVE IInv'
  \* The window opens.
  <2>1. Window'
    BY <1>5 DEF Initialize
  \* Whoever relied on the driver's being initialised is told of the clash.
  <2>2. InitializeTold' /\ StartTold'
    BY <1>5 DEF Initialize
  <2> QED BY <1>5, <2>1, <2>2 DEF Initialize
<1>6. ASSUME NEW t \in Threads, TestInitialize(t) PROVE IInv'
  \* The window is left only if lastError says that the driver is not initialised,
  \* which is true or a clash.
  <2>1. pc'[t] = "out" /\ ~clash' /\ poller = {} => ~ready'
    BY <1>6 DEF TestInitialize
  <2>2. PollerDue'
    BY <1>6, <2>1 DEF TestInitialize
  <2> QED BY <1>6, <2>2 DEF TestInitialize
<1>7. ASSUME NEW t \in Threads, Configure(t) PROVE IInv'
  BY <1>7 DEF Configure, SetDriver, DriverAnswers
<1>8. ASSUME NEW t \in Threads, CreatePoller(t) PROVE IInv'
  <2>1. poller' # {}
    BY <1>8 DEF CreatePoller
  <2> QED BY <1>8, <2>1 DEF CreatePoller
<1>9. ASSUME CheckInit PROVE IInv'
  BY <1>9 DEF CheckInit, Initialised
<1>10. ASSUME ApplySetting PROVE IInv'
  BY <1>10 DEF ApplySetting, SetDriver, DriverAnswers
<1>11. ASSUME OtherCommand PROVE IInv'
  BY <1>11 DEF OtherCommand, Serve, DriverAnswers
<1>12. ASSUME StopExposure PROVE IInv'
  BY <1>12 DEF StopExposure, Serve, Abort
<1>13. ASSUME BeginInit PROVE IInv'
  BY <1>13 DEF BeginInit, Serve
<1>14. ASSUME AnswerInit PROVE IInv'
  \* A success that nobody has disturbed comes with a poller, be it that there was
  \* no clash, that this INIT was alone, or that one before it was.
  <2>1. RecoveredHasPoller' /\ InitTruthful'
    BY <1>14 DEF AnswerInit
  <2> QED BY <1>14, <2>1 DEF AnswerInit
<1>15. ASSUME StartAcquisition PROVE IInv'
  BY <1>15 DEF StartAcquisition, Serve, DriverAnswers
<1>16. ASSUME StartPolling PROVE IInv'
  \* A START that succeeds has an initialised driver, hence a poller, or a window,
  \* or a clash, from which no INIT has recovered when there is no poller.
  <2>1. Started /\ poller = {} => Window \/ ~Undisturbed
    BY <1>16 DEF StartPolling, Started
  <2>2. StartSafe'
    BY <1>16, <2>1 DEF StartPolling
  <2> QED BY <1>16, <2>2 DEF StartPolling
<1>17. ASSUME AcquisitionEnds PROVE IInv'
  BY <1>17 DEF AcquisitionEnds
<1>18. ASSUME UNCHANGED vars PROVE IInv'
  BY <1>18 DEF vars
<1>19. ASSUME PollingFails PROVE IInv'
  BY <1>19 DEF PollingFails, DriverAnswers
<1> QED
  BY <1>1, <1>2, <1>3, <1>4, <1>5, <1>6, <1>7, <1>8, <1>9, <1>10, <1>11, <1>12, <1>13,
     <1>14, <1>15, <1>16, <1>17, <1>18, <1>19 DEF Next, Main, Server, InitCamera

\* The invariant holds in every reachable state, for any controls, configuration and
\* number of commands.
THEOREM InvCorrect == Spec => []IInv
<1>1. Init => IInv
  BY InvInit
<1>2. IInv /\ [Next]_vars => IInv'
  BY InvStep
<1> QED BY <1>1, <1>2, PTL DEF Spec

\* START meets a null statusPolling only while a thread initialises the camera, or
\* after a clash (camera.cpp:605).
THEOREM StartSafeCorrect == Spec => []StartSafe
<1>1. IInv => StartSafe
  BY DEF IInv
<1> QED BY <1>1, InvCorrect, PTL

\* A client whose INIT succeeds finds a poller when it sends START, unless there was
\* a clash that no INIT has repaired (server.cpp:378-390).
THEOREM InitTruthfulCorrect == Spec => []InitTruthful
<1>1. IInv => InitTruthful
  BY DEF IInv
<1> QED BY <1>1, InvCorrect, PTL

-----------------------------------------------------------------------------
(* The settings of the configuration.                                      *)

\* Where the main thread is before it has left InitCamera.
Initialising ==
  pc["main"] \in {"enter", "abort", "reset", "look", "initialize", "test", "configure",
                  "create"}

Distinct(s) == \A i, j \in DOMAIN s : s[i] = s[j] => i = j
InRest(k) == \E i \in DOMAIN rest : rest[i] = k
Settled(k) == controls[k] = IF k \in refused THEN "none" ELSE Wanted(k)
NoneMade == \A k \in ControlSet : controls[k] = "none"

\* What has still to be set is the rest of the list, in its order.
RestType ==
  /\ rest \in Seq(ControlSet) /\ Distinct(rest)
  /\ pc["main"] = "settings" => rest # <<>>
  /\ DOMAIN controls = ControlSet

\* Nothing is set before InitCamera is left; then what is in the rest is not made
\* yet, and all else is, or was refused.
Progress ==
  /\ pc["main"] \notin {"settings", "exec"} => NoneMade /\ refused = {}
  /\ pc["main"] = "settings" /\ ~clash =>
       /\ "main" \in poller
       /\ \A k \in ControlSet :
            IF InRest(k) THEN controls[k] = "none" /\ k \notin refused ELSE Settled(k)

\* lastError tells the main thread whether InitCamera got to its end, but for an
\* error that is late.
MainTold ==
  /\ Initialising => "main" \notin poller
  /\ pc["main"] = "create" /\ ~clash => lastError = "SUCCESS" \/ late
  /\ pc["main"] = "out" /\ ~clash =>
       /\ lastError = "SUCCESS" => "main" \in poller
       /\ "main" \in poller => lastError = "SUCCESS" \/ late

SInv == Types /\ RestType /\ Progress /\ MainTold /\ SettingsMade

\* A sequence that is not empty is its head and its tail.
LEMMA HeadTail ==
  ASSUME NEW S, NEW s \in Seq(S), s # <<>>
  PROVE  /\ Head(s) \in S /\ Tail(s) \in Seq(S)
         /\ Head(s) = s[1] /\ 1 \in DOMAIN s
         /\ \A i \in DOMAIN s : s[i] = Head(s) \/ \E j \in DOMAIN Tail(s) : Tail(s)[j] = s[i]
         /\ \A j \in DOMAIN Tail(s) : j + 1 \in DOMAIN s \ {1} /\ Tail(s)[j] = s[j + 1]
         /\ DOMAIN Tail(s) \subseteq Nat
<1>1. /\ Head(s) = s[1] /\ Head(s) \in S /\ Tail(s) \in Seq(S) /\ Len(Tail(s)) = Len(s) - 1
      /\ \A j \in 1..Len(Tail(s)) : Tail(s)[j] = s[j + 1]
  OBVIOUS
<1>2. DOMAIN s = 1..Len(s) /\ DOMAIN Tail(s) = 1..Len(Tail(s)) /\ Len(s) \in Nat
  BY <1>1
<1>3. ASSUME NEW i \in DOMAIN s, i # 1
      PROVE  i - 1 \in DOMAIN Tail(s) /\ Tail(s)[i - 1] = s[i]
  BY <1>1, <1>2, <1>3
<1>4. 1 \in DOMAIN s
  BY <1>1, <1>2
<1>5. ASSUME NEW j \in DOMAIN Tail(s)
      PROVE  j + 1 \in DOMAIN s \ {1} /\ Tail(s)[j] = s[j + 1]
  BY <1>1, <1>2, <1>5
<1>6. DOMAIN Tail(s) \subseteq Nat
  BY <1>2
<1> QED BY <1>1, <1>3, <1>4, <1>5, <1>6

\* What is left of a list without repetitions has none, and its head is gone.
LEMMA TailDistinct ==
  ASSUME NEW S, NEW s \in Seq(S), s # <<>>, Distinct(s)
  PROVE  /\ Distinct(Tail(s))
         /\ \A j \in DOMAIN Tail(s) : Tail(s)[j] # Head(s)
<1>1. ASSUME NEW j \in DOMAIN Tail(s) PROVE Tail(s)[j] # Head(s)
  BY HeadTail DEF Distinct
<1>2. ASSUME NEW i \in DOMAIN Tail(s), NEW j \in DOMAIN Tail(s), Tail(s)[i] = Tail(s)[j]
      PROVE  i = j
  <2>1. i \in Nat /\ j \in Nat
    BY HeadTail
  <2>2. i + 1 = j + 1
    BY <1>2, HeadTail DEF Distinct
  <2> QED BY <2>1, <2>2
<1> QED BY <1>1, <1>2 DEF Distinct

\* A step that changes neither the settings nor the way of the main thread keeps the
\* invariant if it does not spoil lastError unnoticed.
LEMMA ServerKeeps ==
  ASSUME SInv, Types',
         pc'["main"] = pc["main"], UNCHANGED <<config, rest, controls, refused>>,
         poller' = poller \/ poller' = poller \cup {"server"},
         clash => clash', late => late',
         \/ lastError' = lastError \/ clash'
         \/ pc["main"] \notin {"create", "out"}
         \/ late' /\ lastError' # "SUCCESS"
  PROVE  SInv'
<1> USE DEF SInv, Types, Threads, RestType, Progress, MainTold, SettingsMade, Initialising,
      NoneMade, Settled, InRest, Wanted, ControlSet
<1>1. RestType' /\ Progress'
  OBVIOUS
<1>2. MainTold'
  OBVIOUS
<1>3. SettingsMade'
  OBVIOUS
<1> QED BY <1>1, <1>2, <1>3

LEMMA SInit == Init => SInv
<1>1. <<>> \in Seq(ControlSet) /\ Distinct(<<>>)
  BY DEF Distinct
<1> QED BY <1>1 DEF Init, SInv, Types, Threads, Places, RestType, Progress, MainTold,
    SettingsMade, Initialising, NoneMade

\* Until the end of InitCamera nothing is set and main is not in poller, so a step
\* of the main thread up to there needs to be looked at only for lastError; the
\* settings then run down the list.
LEMMA SStep ==
  ASSUME SInv, Types', [Next]_vars PROVE SInv'
<1> USE DEF At, Go, Other, Assign, env, init, refusals, threads
<1>1. ASSUME InitCamera("server") \/ AnswerInit PROVE SInv'
  <2>1. UNCHANGED <<config, rest, controls, refused>> /\ late' = late /\ pc'["main"] = pc["main"]
    BY <1>1 DEF SInv, Types, Threads, InitCamera, Enter, InitStop, Reset, LookForCameras,
      Initialize, TestInitialize, Configure, CreatePoller, AnswerInit
  <2>2. /\ poller' = poller \/ poller' = poller \cup {"server"}
        /\ clash => clash'
        /\ lastError' = lastError \/ clash' \/ pc["main"] \notin {"create", "out"}
    BY <1>1 DEF SInv, Types, Threads, InitCamera, Enter, InitStop, Abort, Reset,
      LookForCameras, Initialize, TestInitialize, Configure, SetDriver, CreatePoller,
      AnswerInit, Relies
  <2> QED BY <2>1, <2>2, ServerKeeps
<1>2. ASSUME OtherCommand \/ StopExposure \/ BeginInit \/ StartAcquisition \/ StartPolling
      PROVE SInv'
  <2>1. UNCHANGED <<config, rest, controls, refused>> /\ late' = late /\ pc'["main"] = pc["main"]
    BY <1>2 DEF SInv, Types, Threads, OtherCommand, StopExposure, BeginInit,
      StartAcquisition, StartPolling, Serve
  <2>2. /\ poller' = poller
        /\ clash => clash'
        /\ lastError' = lastError \/ clash' \/ pc["main"] \notin {"create", "out"}
    BY <1>2 DEF SInv, Types, OtherCommand, StopExposure, Abort, BeginInit,
      StartAcquisition, StartPolling, Relies
  <2> QED BY <2>1, <2>2, ServerKeeps
<1>3. ASSUME AcquisitionEnds \/ UNCHANGED vars PROVE SInv'
  BY <1>3, ServerKeeps DEF AcquisitionEnds, vars
<1>7. ASSUME PollingFails PROVE SInv'
  <2>1. pc["main"] \notin {"create", "out"} \/ (late' /\ lastError' # "SUCCESS")
    BY <1>7 DEF PollingFails, DriverAnswers
  <2> QED BY <1>7, <2>1, ServerKeeps DEF PollingFails
<1>4. ASSUME InitCamera("main") PROVE SInv'
  <2> USE DEF SInv, Types, Threads, RestType, Progress, MainTold, SettingsMade,
        Initialising, NoneMade, Wanted
  <2>1. ASSUME \/ Enter("main") \/ InitStop("main") \/ Reset("main")
               \/ LookForCameras("main") \/ Initialize("main")
        PROVE SInv'
    BY <2>1 DEF Enter, InitStop, Reset, LookForCameras, NoDevice, Initialize
  <2>2. ASSUME TestInitialize("main") PROVE SInv'
    BY <2>2 DEF TestInitialize
  \* What the driver refuses last in here is late.
  <2>3. ASSUME Configure("main") PROVE SInv'
    BY <2>3 DEF Configure, SetDriver, DriverAnswers
  <2>4. ASSUME CreatePoller("main") PROVE SInv'
    BY <2>4 DEF CreatePoller
  <2> QED BY <1>4, <2>1, <2>2, <2>3, <2>4 DEF InitCamera
<1>5. ASSUME CheckInit PROVE SInv'
  <2> USE DEF SInv, Types, Threads, CheckInit, Initialised
  <2>1. /\ Controls \in Seq(ControlSet) /\ Controls # <<>> /\ Distinct(Controls)
        /\ <<>> \in Seq(ControlSet) /\ Distinct(<<>>)
    BY StartupAssumption DEF ControlSet, Distinct
  <2>2. RestType'
    BY <1>5, <2>1 DEF RestType
  <2>3. ASSUME NEW k \in ControlSet PROVE \E i \in DOMAIN Controls : Controls[i] = k
    BY DEF ControlSet
  <2>4. Progress'
    BY <1>5, <2>3 DEF Progress, NoneMade, MainTold, InRest
  <2>5. MainTold' /\ SettingsMade'
    BY <1>5 DEF MainTold, Initialising, SettingsMade, Progress, NoneMade
  <2> QED BY <2>2, <2>4, <2>5
<1>6. ASSUME ApplySetting PROVE SInv'
  <2> USE DEF SInv, Types, Threads
  <2> DEFINE head == Head(rest)
  <2>1. rest \in Seq(ControlSet) /\ rest # <<>> /\ Distinct(rest)
    BY <1>6 DEF ApplySetting, RestType
  <2>2. /\ head \in ControlSet /\ Tail(rest) \in Seq(ControlSet) /\ Distinct(Tail(rest))
        /\ \A i \in DOMAIN rest :
             rest[i] = head \/ \E j \in DOMAIN Tail(rest) : Tail(rest)[j] = rest[i]
        /\ \A j \in DOMAIN Tail(rest) : Tail(rest)[j] # head /\ InRest(Tail(rest)[j])
        /\ InRest(head)
    BY <2>1, HeadTail, TailDistinct DEF InRest
  <2>3. RestType'
    BY <1>6, <2>2 DEF ApplySetting, RestType
  \* Without a clash the driver takes the setting or refuses it, and what is not made
  \* yet is still in the list.
  <2>4. ASSUME ~clash'
        PROVE  /\ "main" \in poller'
               /\ \A k \in ControlSet :
                    IF InRest(k)' THEN controls'[k] = "none" /\ k \notin refused'
                    ELSE Settled(k)'
    <3>1. /\ ~clash /\ poller' = poller /\ config' = config /\ rest' = Tail(rest)
          /\ \/ /\ controls' = [controls EXCEPT ![head] = Wanted(head)]
                /\ refused' = refused
             \/ controls' = controls /\ refused' = refused \cup {head}
      BY <1>6, <2>4 DEF ApplySetting, SetDriver, DriverAnswers
    <3>2. /\ "main" \in poller
          /\ \A k \in ControlSet :
               IF InRest(k) THEN controls[k] = "none" /\ k \notin refused ELSE Settled(k)
      BY <1>6, <3>1 DEF ApplySetting, Progress
    <3>3. ASSUME NEW k \in ControlSet
          PROVE  IF InRest(k)' THEN controls'[k] = "none" /\ k \notin refused'
                 ELSE Settled(k)'
      <4>1. Wanted(k)' = Wanted(k) /\ (InRest(k)' <=> InRest(k) /\ k # head)
        BY <3>1, <2>2 DEF Wanted, InRest
      <4>2. CASE k = head
        BY <4>1, <4>2, <3>1, <3>2, <2>2 DEF RestType, Settled
      <4>3. CASE k # head
        <5>1. controls'[k] = controls[k] /\ (k \in refused' <=> k \in refused)
          BY <4>3, <3>1 DEF RestType
        <5> QED BY <5>1, <3>2, <4>1, <4>3 DEF Settled
      <4> QED BY <4>2, <4>3
    <3> QED BY <3>1, <3>2, <3>3
  <2>5. Progress'
    BY <1>6, <2>4 DEF ApplySetting, Progress
  <2>6. MainTold'
    BY <1>6 DEF ApplySetting, MainTold, Initialising
  <2>7. SettingsMade'
    <3>1. pc'["main"] = "exec" => rest' = <<>>
      BY <1>6 DEF ApplySetting
    <3>2. DOMAIN <<>> = {}
      OBVIOUS
    <3> QED BY <3>1, <3>2, <2>4 DEF SettingsMade, InRest, Settled
  <2> QED BY <2>3, <2>5, <2>6, <2>7
<1> QED
  BY <1>1, <1>2, <1>3, <1>4, <1>5, <1>6, <1>7 DEF Next, Main, Server

\* The settings that the driver has after the start are those of the configuration,
\* but for what it refused, or none, when InitCamera did not get to its end or an
\* error came late (main.cpp:432-456), for any list of distinct controls.
THEOREM SettingsMadeCorrect == Spec => []SettingsMade
<1>1. Init => SInv
  BY SInit
<1>2. IInv /\ IInv' /\ SInv /\ [Next]_vars => SInv'
  BY SStep DEF IInv
<1>3. SInv => SettingsMade
  BY DEF SInv
<1> QED BY <1>1, <1>2, <1>3, InvCorrect, PTL DEF Spec
=============================================================================
