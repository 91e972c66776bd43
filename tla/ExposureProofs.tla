--------------------------- MODULE ExposureProofs ---------------------------
(* Proofs of the properties of Exposure that hold for every client, patient  *)
(* or not, and for every fault that the model has.                           *)
EXTENDS Exposure, TLAPS, SequenceTheorems, FiniteSetTheorems,
        FunctionTheorems

USE DEF driverVars, settingVars, pollerVars, watchVars, outVars, cameraVars,
        serverVars

\* What a command carries.
LEMMA CommandFields ==
  ASSUME NEW c \in Commands \cup {Save}
  PROVE  /\ c.op \in Ops \cup {"SaveFITS"}
         /\ c.op = "FITSFILE" => c.name \in Names
         /\ c.op = "FRAME" => c.frame \in Frames
         /\ c.op = "EXPTIME" => c.time \in Times \cup {NoTime}
BY DEF Commands, Save, Ops

\* Taking an event leaves a queue of events; its head is one.
LEMMA TakeType ==
  ASSUME TypeOK, NEW op, Take(op)
  PROVE  /\ events' \in Seq(Commands \cup {Save})
         /\ Head(events) \in Commands \cup {Save}
         /\ Head(events).op = op
BY DEF TypeOK, Take

\* The driver's answers are error codes.
LEMMA AnswerType ==
  ASSUME TypeOK
  PROVE  /\ DriverAnswer \in Errors
         /\ AbortAnswer \in Errors
         /\ ReadAnswers \subseteq Errors
         /\ \A f \in Frames : SetImageAnswer(f) \in Errors
BY DEF TypeOK, DriverAnswer, AbortAnswer, ReadAnswers, SetImageAnswer, Errors

\* A command posted by a client, or a SaveFITS posted by the poller, keeps the
\* queue a sequence of events.
LEMMA EmitType ==
  ASSUME TypeOK
  PROVE  events \o [i \in 1..connected |-> Save] \in Seq(Commands \cup {Save})
<1>1. [i \in 1..connected |-> Save] \in Seq(Commands \cup {Save})
  BY DEF TypeOK
<1> QED BY <1>1 DEF TypeOK

-----------------------------------------------------------------------------
\* Aborting keeps the types of what the driver and lastError hold.
LEMMA AbortType ==
  ASSUME TypeOK, AbortAcquisition
  PROVE  /\ drv' \in {"uninit", "idle", "acquiring"} /\ drvFrame' \in Frames
         /\ drvTime' \in Nat /\ acq' \in Acquisitions /\ lastError' \in Errors
BY AnswerType DEF AbortAcquisition, TypeOK, Acquisitions

LEMMA NoAcquisitionType == NoAcquisition \in Acquisitions
BY ExposureAssumption DEF NoAcquisition, Acquisitions, Names

\* Replacing the elements of a sequence keeps it a sequence.
LEMMA MapType ==
  ASSUME NEW S, NEW s \in Seq(S), NEW f \in [DOMAIN s -> S]
  PROVE  f \in Seq(S)
<1>1. DOMAIN s = 1..Len(s) /\ Len(s) \in Nat
  OBVIOUS
<1> QED BY <1>1, SeqDef

\* So does moving the pending acquisitions of a set to another fate.
LEMMA FateMap ==
  ASSUME TypeOK, NEW D, NEW v \in Fates
  PROVE  [i \in DOMAIN fate |-> IF i \in D /\ fate[i] = "pending" THEN v
                                                              ELSE fate[i]]
           \in Seq(Fates)
<1>1. fate \in Seq(Fates)
  BY DEF TypeOK
<1>2. \A i \in DOMAIN fate : fate[i] \in Fates
  BY <1>1
<1> QED BY <1>1, <1>2, MapType

\* StopExposure leaves the fates of acquisitions.
LEMMA StopType ==
  ASSUME TypeOK
  PROVE  [i \in DOMAIN fate |->
            IF fate[i] = "pending" THEN "stopped" ELSE fate[i]] \in Seq(Fates)
<1>1. "stopped" \in Fates BY DEF Fates
<1>2. [i \in DOMAIN fate |-> IF i \in DOMAIN fate /\ fate[i] = "pending"
                             THEN "stopped" ELSE fate[i]] \in Seq(Fates)
  BY <1>1, FateMap
<1> QED BY <1>2

\* GetStatus leaves an error code and one of the two states it can report.
LEMMA GetStatusType ==
  ASSUME TypeOK, GetStatus
  PROVE  lastError' \in Errors /\ seen' \in {"idle", "acquiring"}
BY DEF GetStatus, TypeOK, Errors

\* A new acquisition.
LEMMA StartType ==
  ASSUME TypeOK
  PROVE  /\ [id |-> Len(fate) + 1, file |-> fitsFilename, frame |-> drvFrame,
             time |-> drvTime, aborted |-> FALSE] \in Acquisitions
         /\ Append(fate, "pending") \in Seq(Fates)
<1>1. /\ fate \in Seq(Fates) /\ fitsFilename \in Names /\ drvFrame \in Frames
      /\ drvTime \in Nat
  BY DEF TypeOK
<1>2. "pending" \in Fates
  BY DEF Fates
<1>3. Len(fate) + 1 \in Nat
  BY <1>1
<1>4. Append(fate, "pending") \in Seq(Fates)
  BY <1>1, <1>2
<1> QED BY <1>1, <1>3, <1>4 DEF Acquisitions

LEMMA ImageType ==
  ASSUME TypeOK
  PROVE  Image \in Images
BY DEF TypeOK, Image, Images

LEMMA FateType ==
  ASSUME TypeOK, NEW e \in Errors, SaveFails(e)
  PROVE  /\ lastError' \in Errors /\ cameraStatus' \in Statuses
         /\ fate' \in Seq(Fates)
<1>1. lastError' \in Errors /\ cameraStatus' \in Statuses
  BY DEF SaveFails, Statuses
<1> DEFINE D == {i \in DOMAIN fate : acq.id \in {i, 0}}
<1>2. "failed" \in Fates
  BY DEF Fates
<1>3. [i \in DOMAIN fate |-> IF i \in D /\ fate[i] = "pending" THEN "failed"
                             ELSE fate[i]] \in Seq(Fates)
  BY <1>2, FateMap
<1>4. fate' = [i \in DOMAIN fate |-> IF i \in D /\ fate[i] = "pending" THEN "failed"
                                     ELSE fate[i]]
  BY DEF SaveFails
<1> QED BY <1>1, <1>3, <1>4

LEMMA SaveType ==
  ASSUME TypeOK, SaveFITS
  PROVE  TypeOK'
<1>1. /\ timerActive' \in BOOLEAN /\ connected' \in Nat
      /\ events' \in Seq(Commands \cup {Save})
  BY TakeType DEF SaveFITS, Disconnect
<1>2. /\ lastError' \in Errors /\ cameraStatus' \in Statuses
      /\ fate' \in Seq(Fates) /\ disk' \in [Files -> Images \cup {NoImage}]
  <2>1. CASE SaveFails("BADALLOC") /\ UNCHANGED disk
    BY <2>1, FateType DEF TypeOK, Errors
  <2>2. CASE \E e \in ReadAnswers \ {"SUCCESS"} :
               SaveFails(e) /\ UNCHANGED disk
    BY <2>2, FateType, AnswerType DEF TypeOK
  <2>3. CASE SaveFails("FITS_FILENAME") /\ UNCHANGED disk
    BY <2>3, FateType DEF TypeOK, Errors
  <2>4. CASE /\ SaveFails("FITS")
             /\ disk' = [disk EXCEPT ![fitsFilename] = NoImage]
    BY <2>4, FateType DEF TypeOK, Errors
  <2>5. CASE /\ lastError' = "SUCCESS"
             /\ cameraStatus' = "Ready"
             /\ disk' = [disk EXCEPT ![fitsFilename] = Image]
             /\ fate' = [i \in DOMAIN fate |->
                           IF i = acq.id /\ fate[i] = "pending"
                           THEN "saved" ELSE fate[i]]
    <3>1. fate' = [i \in DOMAIN fate |->
                     IF i \in {acq.id} /\ fate[i] = "pending"
                     THEN "saved" ELSE fate[i]]
      BY <2>5
    <3>2. "saved" \in Fates BY DEF Fates
    <3>3. fate' \in Seq(Fates) BY <3>1, <3>2, FateMap
    <3> QED BY <2>5, <3>3, ImageType DEF TypeOK, Errors, Statuses
  <2> QED BY <2>1, <2>2, <2>3, <2>4, <2>5 DEF SaveFITS
<1> QED BY <1>1, <1>2 DEF SaveFITS, TypeOK

-----------------------------------------------------------------------------
\* The types of all variables are kept: whatever the clients send and the
\* driver answers, the server's members stay what their declarations say and
\* the error codes and fates stay within the listed ones.
THEOREM TypeCorrect == Spec => []TypeOK
<1>1. Init => TypeOK
  <2> SUFFICES ASSUME Init PROVE TypeOK
    OBVIOUS
  <2>1. /\ drv \in {"uninit", "idle", "acquiring"} /\ pollerExists \in BOOLEAN
        /\ cameraStatus \in Statuses /\ lastError \in Errors
    BY DEF Init, Statuses, Errors
  <2>2. /\ drvFrame \in Frames /\ frame \in Frames /\ acq \in Acquisitions
        /\ fitsFilename \in Names
    BY ExposureAssumption, NoAcquisitionType DEF Init, Names
  <2>3. /\ events \in Seq(Commands \cup {Save}) /\ fate \in Seq(Fates)
        /\ disk \in [Files -> Images \cup {NoImage}]
        /\ reply \in [op : Ops \cup {"none"}, status : {"OK", "error"}]
    BY DEF Init, NoReply
  <2>4. drvTime \in Nat /\ expTime \in Int /\ exposureClock \in Int
    BY DEF Init
  <2> QED BY <2>1, <2>2, <2>3, <2>4 DEF Init, TypeOK, Slots
<1>2. TypeOK /\ [Next]_vars => TypeOK'
  <2> SUFFICES ASSUME TypeOK, [Next]_vars PROVE TypeOK'
    OBVIOUS
  <2> USE DEF Answer
  <2>1. ASSUME NEW c \in Commands, Submit(c) PROVE TypeOK'
    BY <2>1 DEF TypeOK, Submit
  <2>2. CASE SetFitsFile
    <3>1. Head(events).name \in Names
      BY <2>2, TakeType, CommandFields DEF SetFitsFile
    <3> QED BY <2>2, <3>1, TakeType DEF SetFitsFile, TypeOK, Ops, Errors
  <2>3. CASE SetFrame
    <3>1. Head(events).frame \in Frames
      BY <2>3, TakeType, CommandFields DEF SetFrame
    <3> QED BY <2>3, <3>1, TakeType, AnswerType DEF SetFrame, TypeOK, Slots
  <2>4. CASE SetExpTime
    <3>1. Head(events).time \in Times \cup {NoTime}
      BY <2>4, TakeType, CommandFields DEF SetExpTime
    <3>3. Times \subseteq Int BY ExposureAssumption
    <3>4. /\ expTime' \in Int /\ exposureClock' \in Int /\ drvTime' \in Nat
          /\ lastError' \in Errors
      <4>1. CASE Head(events).time = NoTime
        BY <2>4, <4>1 DEF SetExpTime, StoreTime, TypeOK
      <4>2. CASE Head(events).time # NoTime
        <5>1. Head(events).time \in Int
          BY <3>1, <3>3, <4>2
        <5>2. /\ SetExposureTimeAnswer(Head(events).time) \in Errors
              /\ SetExposureTimeAnswer(Head(events).time) = "SUCCESS"
                   => Head(events).time \in Nat
          <6>1. CASE drv = "idle" /\ Head(events).time < 0
            BY <6>1 DEF SetExposureTimeAnswer, Errors
          <6>2. CASE drv = "idle" /\ ~(Head(events).time < 0)
            BY <6>2, <5>1, AnswerType DEF SetExposureTimeAnswer
          <6>3. CASE drv # "idle"
            BY <6>3, AnswerType DEF SetExposureTimeAnswer, DriverAnswer, TypeOK
          <6> QED BY <6>1, <6>2, <6>3
        <5>3. drvTime \in Nat
          BY DEF TypeOK
        <5> QED BY <2>4, <4>2, <5>1, <5>2, <5>3 DEF SetExpTime, StoreTime
      <4> QED BY <4>1, <4>2
    <3>5. /\ reply' \in [op : Ops \cup {"none"}, status : {"OK", "error"}]
          /\ slot' \in Slots
      BY <2>4 DEF SetExpTime, Ops, TypeOK, Slots
    <3> QED BY <2>4, <3>4, <3>5, TakeType DEF SetExpTime, StoreTime, TypeOK
  <2>5. CASE RefuseStart
    BY <2>5, TakeType DEF RefuseStart, TypeOK, Ops, Errors
  <2>6. CASE StartExposure
    <3>1. /\ acq' \in Acquisitions /\ fate' \in Seq(Fates)
          /\ drv' \in {"uninit", "idle", "acquiring"}
      <4>1. CASE DriverAnswer = "SUCCESS"
        BY <2>6, <4>1, StartType DEF StartExposure
      <4>2. CASE DriverAnswer # "SUCCESS"
        BY <2>6, <4>2 DEF StartExposure, TypeOK
      <4> QED BY <4>1, <4>2
    <3>2. lastError' \in Errors /\ events' \in Seq(Commands \cup {Save})
      BY <2>6, TakeType, AnswerType DEF StartExposure
    <3> QED BY <2>6, <3>1, <3>2 DEF StartExposure, TypeOK, Slots
  <2>7. CASE ConnectSave
    <3>1. connected' \in Nat /\ slot' \in Slots
      BY <2>7 DEF ConnectSave, TypeOK, Slots
    <3>2. crashed' \in BOOLEAN
      BY <2>7 DEF ConnectSave, TypeOK
    <3>3. reply' \in [op : Ops \cup {"none"}, status : {"OK", "error"}]
      BY <2>7 DEF ConnectSave, TypeOK, Ops
    <3> QED BY <2>7, <3>1, <3>2, <3>3 DEF ConnectSave, TypeOK
  <2>8. CASE StartPolling
    BY <2>8 DEF StartPolling, TypeOK, Slots, Ops, Statuses
  <2>9. CASE StopExposure
    <3>1. slot' \in Slots /\ forInit' \in BOOLEAN
      BY <2>9 DEF StopExposure, Slots
    <3> QED BY <2>9, <3>1, TakeType, AbortType DEF StopExposure, TypeOK
  <2>10. CASE FinishStop
    <3>1. fate' \in Seq(Fates)
      BY <2>10, StopType DEF FinishStop
    <3>2. /\ slot' \in Slots /\ cameraStatus' \in Statuses /\ connected' \in Nat
          /\ reply' \in [op : Ops \cup {"none"}, status : {"OK", "error"}]
      BY <2>10 DEF FinishStop, Disconnect, TypeOK, Slots, Statuses, Ops
    <3> QED BY <2>10, <3>1, <3>2 DEF FinishStop, TypeOK
  <2>11. CASE InitCamera
    <3>1. forInit' \in BOOLEAN /\ slot' \in Slots
      BY <2>11 DEF InitCamera, TypeOK, Slots
    <3> QED BY <2>11, <3>1, TakeType, AbortType DEF InitCamera, TypeOK
  <2>12. CASE MarkExposure \/ HaltPolling
    <3>1. CASE MarkExposure
      BY <3>1 DEF MarkExposure, MarkStopped, TypeOK, Slots
    <3>2. CASE HaltPolling
      <4>1. slot' \in Slots /\ crashed' \in BOOLEAN
        BY <3>2 DEF HaltPolling, TypeOK, Slots
      <4>2. stopThread' \in BOOLEAN
        BY <3>2 DEF HaltPolling, TypeOK
      <4>3. UNCHANGED <<drv, drvTime, drvFrame, acq, lastError, cameraStatus, frame,
                        expTime, fitsFilename, exposureClock, isStopped, timerActive,
                        connected, pollerExists, poller, seen, forInit, events,
                        reply, disk, fate>>
        BY <3>2 DEF HaltPolling, driverVars, cameraVars, settingVars, watchVars, outVars
      <4> QED BY <4>1, <4>2, <4>3 DEF TypeOK
    <3> QED BY <2>12, <3>1, <3>2
  <2>13. CASE NoDevice \/ InitFails
    BY <2>13 DEF NoDevice, InitFails, TypeOK, Slots, Ops, Errors, Statuses
  <2>14. CASE Initialize
    <3>1. lastError' \in Errors /\ cameraStatus' \in Statuses /\ slot' \in Slots
      BY <2>14 DEF Initialize, Errors, Statuses, Slots
    <3> QED BY <2>14, <3>1, NoAcquisitionType DEF Initialize, TypeOK
  <2>15. CASE Configure \/ FinishInit
    <3>1. FullFrame \in Frames
      BY ExposureAssumption
    <3>2. CASE Configure
      <4>1. stopThread' \in BOOLEAN /\ slot' \in Slots
        BY <3>2 DEF Configure, TypeOK, Slots
      <4>2. /\ frame' \in Frames /\ drvFrame' \in Frames
            /\ UNCHANGED <<drv, drvTime, acq, lastError, cameraStatus, expTime,
                           fitsFilename, exposureClock, isStopped, timerActive,
                           connected, pollerExists, poller, seen>>
            /\ UNCHANGED <<forInit, events, reply, crashed, disk, fate>>
        BY <3>1, <3>2 DEF Configure, watchVars, outVars
      <4> QED BY <4>1, <4>2 DEF TypeOK
    <3>3. CASE FinishInit
      BY <3>3 DEF FinishInit, TypeOK, Slots, Ops, Statuses
    <3> QED BY <2>15, <3>2, <3>3
  <2>16. CASE SaveFITS
    BY <2>16, SaveType
  <2>17. CASE ExposureCounter
    BY <2>17, ExposureAssumption DEF ExposureCounter, NextClock, TypeOK, Statuses
  <2>18. CASE PollerEnter
    BY <2>18, GetStatusType
       DEF PollerEnter, ForgetStop, FirstStatus, TypeOK
  <2>19. CASE PollerTest
    BY <2>19 DEF PollerTest, TypeOK
  <2>20. CASE PollerPoll
    BY <2>20, GetStatusType DEF PollerPoll, NextStatus, TypeOK
  <2>21. CASE PollerEmit
    BY <2>21, EmitType DEF PollerEmit, TypeOK
  <2>22. CASE PollerReturn
    BY <2>22 DEF PollerReturn, TypeOK
  <2>23. CASE DriverDone
    BY <2>23 DEF DriverDone, TypeOK
  <2>24. CASE UNCHANGED vars
    BY <2>24 DEF vars, TypeOK
  <2>25. CASE AnswerSetting
    BY <2>25 DEF AnswerSetting, TypeOK, Slots, Ops
  <2> QED BY <2>1, <2>2, <2>3, <2>4, <2>5, <2>6, <2>7, <2>8, <2>9, <2>10,
             <2>11, <2>12, <2>13, <2>14, <2>15, <2>16, <2>17, <2>18, <2>19,
             <2>20, <2>21, <2>22, <2>23, <2>24, <2>25
          DEF Next, ServerThread, Poller
<1> QED BY <1>1, <1>2, PTL DEF Spec

-----------------------------------------------------------------------------
\* The exposure clock and the exposure time are written by EXPTIME and by the
\* timer alone.
LEMMA ClockWriters ==
  ASSUME [Next]_vars, ~SetExpTime, ~ExposureCounter
  PROVE  UNCHANGED <<exposureClock, expTime>>
BY DEF Next, ServerThread, Poller, vars, Submit, SetFitsFile, SetFrame,
       AnswerSetting, RefuseStart, StartExposure, ConnectSave, StartPolling,
       StopExposure, MarkExposure, HaltPolling, FinishStop, InitCamera, NoDevice,
       Initialize, InitFails, Configure, FinishInit, SaveFITS, PollerEnter, PollerTest, PollerPoll, PollerEmit,
       PollerReturn, DriverDone

\* Whatever EXPTIME is sent and when, the clock that the timer counts down
\* (camera.cpp:717-730) stays between 0 and the exposure time, so that the
\* EXPTIME of a stopped exposure (camera.cpp:826) is not negative.
THEOREM ClockCorrect == Spec => []ClockBounded
<1>1. Init => ClockBounded
  BY DEF Init, ClockBounded
<1>2. TypeOK /\ ClockBounded /\ [Next]_vars => ClockBounded'
  <2> SUFFICES ASSUME TypeOK, ClockBounded, [Next]_vars PROVE ClockBounded'
    OBVIOUS
  <2>1. CASE SetExpTime
    <3>1. Head(events).time \in Times \cup {NoTime} /\ Times \subseteq Int
      BY <2>1, TakeType, CommandFields, ExposureAssumption DEF SetExpTime
    <3>2. CASE Head(events).time = NoTime
      BY <2>1, <3>2 DEF SetExpTime, StoreTime, TypeOK, ClockBounded
    <3>3. CASE Head(events).time # NoTime
      <4>1. /\ exposureClock' = Head(events).time
            /\ expTime' = Head(events).time
        BY <2>1, <3>3 DEF SetExpTime, StoreTime
      <4>2. Head(events).time \in Int
        BY <3>1, <3>3
      <4> QED BY <4>1, <4>2 DEF ClockBounded
    <3> QED BY <3>2, <3>3
  <2>2. CASE ExposureCounter
    BY <2>2, ExposureAssumption DEF ExposureCounter, NextClock, TypeOK, ClockBounded
  <2>3. CASE ~SetExpTime /\ ~ExposureCounter
    BY <2>3, ClockWriters DEF ClockBounded
  <2> QED BY <2>1, <2>2, <2>3
<1> QED BY <1>1, <1>2, TypeCorrect, PTL DEF Spec

-----------------------------------------------------------------------------
\* TimerWatched is not inductive: StartPolling starts the timer, and relies on
\* ConnectSave having connected SaveFITS before.
TimerInv ==
  /\ TimerWatched
  /\ slot = "watch" => connected > 0
  /\ slot \in {"halt", "leave"} => ~timerActive

LEMMA TimerKept == TypeOK /\ TimerInv /\ [Next]_vars => TimerInv'
<1> SUFFICES ASSUME TypeOK, TimerInv, [Next]_vars PROVE TimerInv'
  OBVIOUS
<1> USE DEF TimerInv, TimerWatched
<1>1. CASE ConnectSave
  BY <1>1 DEF ConnectSave, TypeOK
<1>2. CASE StartPolling
  BY <1>2 DEF StartPolling
\* The timer is stopped two steps before the disconnect().
<1>3. CASE MarkExposure \/ HaltPolling \/ FinishStop
  <2>1. CASE MarkExposure
    BY <2>1 DEF MarkExposure, MarkStopped
  <2>2. CASE HaltPolling
    BY <2>2 DEF HaltPolling
  <2>3. CASE FinishStop
    BY <2>3 DEF FinishStop
  <2> QED BY <1>3, <2>1, <2>2, <2>3
<1>4. CASE SaveFITS
  BY <1>4 DEF SaveFITS, Disconnect, Take
<1>5. CASE ExposureCounter
  BY <1>5 DEF ExposureCounter
<1>6. CASE NoDevice \/ Initialize \/ InitFails \/ Configure \/ FinishInit
  <2>1. slot' \in {"idle", "test", "join"} /\ UNCHANGED <<timerActive, connected>>
    BY <1>6 DEF NoDevice, Initialize, InitFails, Configure, FinishInit
  <2> QED BY <2>1
<1>7. CASE RefuseStart \/ StartExposure \/ StopExposure \/ InitCamera
  BY <1>7 DEF RefuseStart, StartExposure, StopExposure, InitCamera, Take
<1>8. CASE SetFitsFile \/ SetFrame \/ SetExpTime \/ AnswerSetting
  <2>1. UNCHANGED <<timerActive, connected>> /\ slot' \in {slot, "frame", "time", "idle"}
    BY <1>8 DEF SetFitsFile, SetFrame, SetExpTime, AnswerSetting
  <2> QED BY <2>1
<1>9. CASE Poller
  BY <1>9 DEF Poller, PollerEnter, PollerTest, PollerPoll, PollerEmit,
              PollerReturn
<1>10. ASSUME NEW c \in Commands, Submit(c) PROVE TimerInv'
  BY <1>10 DEF Submit
<1>11. CASE DriverDone \/ UNCHANGED vars
  BY <1>11 DEF DriverDone, vars
<1> QED BY <1>1, <1>2, <1>3, <1>4, <1>5, <1>6, <1>7, <1>8, <1>9, <1>10, <1>11
        DEF Next, ServerThread

\* While the exposure clock ticks, SaveFITS is connected to the end of the
\* acquisition: no slot stops the one without the other.
THEOREM TimerCorrect == Spec => []TimerWatched
<1>1. Init => TimerInv
  BY DEF Init, TimerInv, TimerWatched
<1>2. TimerInv => TimerWatched
  BY DEF TimerInv
<1> QED BY <1>1, <1>2, TimerKept, TypeCorrect, PTL DEF Spec

-----------------------------------------------------------------------------
\* An aborted acquisition is the driver's last one, and the exposure is marked
\* stopped as soon as the server thread has left StopExposure.
AbortInv ==
  /\ AbortedMarked
  /\ acq.aborted => /\ drv = "idle"
                    /\ isStopped \/ slot = "stop"

LEMMA AbortKept == TypeOK /\ AbortInv /\ [Next]_vars => AbortInv'
<1> SUFFICES ASSUME TypeOK, AbortInv, [Next]_vars PROVE AbortInv'
  OBVIOUS
<1> USE DEF AbortInv, AbortedMarked
<1>1. CASE StartExposure
  BY <1>1 DEF StartExposure, Take, DriverAnswer, TypeOK
<1>2. CASE ConnectSave \/ StartPolling
  BY <1>2 DEF ConnectSave, StartPolling
<1>3. CASE MarkExposure \/ HaltPolling \/ FinishStop
  BY <1>3 DEF MarkExposure, MarkStopped, HaltPolling, FinishStop
<1>4. CASE StopExposure \/ InitCamera
  BY <1>4 DEF StopExposure, InitCamera, AbortAcquisition, Take, TypeOK,
              Acquisitions
<1>5. CASE NoDevice \/ Initialize \/ InitFails \/ Configure \/ FinishInit
  <2>1. CASE NoDevice \/ InitFails \/ Configure \/ FinishInit
    BY <2>1 DEF NoDevice, InitFails, Configure, FinishInit
  <2>2. CASE Initialize
    BY <2>2 DEF Initialize, NoAcquisition
  <2> QED BY <1>5, <2>1, <2>2
<1>6. CASE SaveFITS
  <2>1. /\ acq' = acq /\ drv' = drv /\ slot' = slot /\ slot = "idle"
        /\ isStopped' = isStopped
    BY <1>6 DEF SaveFITS, Take
  <2>2. \/ disk' = disk
        \/ disk' = [disk EXCEPT ![fitsFilename] = NoImage]
        \/ disk' = [disk EXCEPT ![fitsFilename] = Image]
    BY <1>6 DEF SaveFITS
  <2>3. Image.acq.aborted => Image.stopped
    BY <2>1 DEF Image
  <2> QED BY <2>1, <2>2, <2>3 DEF TypeOK
<1>7. CASE SetFitsFile \/ SetFrame \/ SetExpTime \/ RefuseStart \/ AnswerSetting
  <2>1. UNCHANGED <<acq, drv, isStopped, disk>> /\ (slot = "stop" => slot' = "stop")
    BY <1>7 DEF SetFitsFile, SetFrame, SetExpTime, RefuseStart, AnswerSetting, Take
  <2> QED BY <2>1
<1>8. CASE ExposureCounter \/ DriverDone \/ UNCHANGED vars
  BY <1>8 DEF ExposureCounter, DriverDone, vars
<1>9. CASE Poller
  BY <1>9 DEF Poller, PollerEnter, PollerTest, PollerPoll, PollerEmit,
              PollerReturn
<1>10. ASSUME NEW c \in Commands, Submit(c) PROVE AbortInv'
  BY <1>10 DEF Submit
<1> QED BY <1>1, <1>2, <1>3, <1>4, <1>5, <1>6, <1>7, <1>8, <1>9, <1>10
        DEF Next, ServerThread

\* An image of an aborted acquisition is written with the header of a stopped
\* exposure (camera.cpp:822-828), at whatever point STOP or INIT overtakes the
\* SaveFITS that the poller has posted.
THEOREM AbortCorrect == Spec => []AbortedMarked
<1>1. Init => AbortInv
  BY DEF Init, AbortInv, AbortedMarked, NoAcquisition
<1>2. AbortInv => AbortedMarked
  BY DEF AbortInv
<1> QED BY <1>1, <1>2, AbortKept, TypeCorrect, PTL DEF Spec

-----------------------------------------------------------------------------
\* Between the call and the answer a lastError of success is the driver's word.
AnswersInv ==
  /\ AnswersTruthful
  /\ slot = "frame" /\ lastError = "SUCCESS" => frame = drvFrame
  /\ slot = "time" /\ lastError = "SUCCESS" => expTime = drvTime

LEMMA AnswersKept ==
  TypeOK /\ AnswersInv /\ [Next]_vars => AnswersInv'
<1> SUFFICES ASSUME TypeOK, AnswersInv, [Next]_vars
             PROVE  AnswersInv'
  OBVIOUS
<1> USE DEF AnswersInv, AnswersTruthful, Answer
<1>1. CASE SetFitsFile
  BY <1>1 DEF SetFitsFile
<1>2. CASE SetFrame
  <2>1. slot = "idle" /\ slot' = "frame" /\ UNCHANGED <<reply, expTime, drvTime>>
    BY <1>2 DEF SetFrame, Take
  <2>2. lastError' = "SUCCESS" => frame' = drvFrame'
    BY <1>2 DEF SetFrame
  <2> QED BY <2>1, <2>2
<1>3. CASE SetExpTime
  <2>1. slot = "idle" /\ UNCHANGED <<frame, drvFrame>>
    BY <1>3 DEF SetExpTime, Take
  <2>2. CASE Head(events).time = NoTime
    <3>1. /\ UNCHANGED <<expTime, drvTime, slot>>
          /\ reply'.status = "error" /\ reply'.op = "EXPTIME"
      BY <1>3, <2>2 DEF SetExpTime
    <3> QED BY <2>1, <3>1
  <2>3. CASE Head(events).time # NoTime
    <3>1. /\ slot' = "time" /\ UNCHANGED reply
          /\ lastError' = "SUCCESS" => expTime' = drvTime'
      BY <1>3, <2>3 DEF SetExpTime, StoreTime
    <3> QED BY <2>1, <3>1
  <2> QED BY <2>2, <2>3
<1>4. CASE RefuseStart \/ StartExposure
  BY <1>4 DEF RefuseStart, StartExposure, Take
<1>5. CASE ConnectSave \/ StartPolling
  BY <1>5 DEF ConnectSave, StartPolling
<1>6. CASE StopExposure \/ InitCamera
  BY <1>6 DEF StopExposure, InitCamera, AbortAcquisition, Take
<1>7. CASE MarkExposure \/ HaltPolling \/ FinishStop
  BY <1>7 DEF MarkExposure, HaltPolling, FinishStop
<1>8. CASE NoDevice \/ InitFails
  BY <1>8 DEF NoDevice, InitFails
<1>9. CASE Initialize \/ Configure
  BY <1>9 DEF Initialize, Configure
<1>10. CASE FinishInit
  BY <1>10 DEF FinishInit
<1>11. CASE SaveFITS
  <2>1. slot = "idle" /\ UNCHANGED <<reply, slot, frame, drvFrame, expTime, drvTime>>
    BY <1>11 DEF SaveFITS, Take
  <2> QED BY <2>1
<1>12. CASE ExposureCounter \/ DriverDone \/ UNCHANGED vars
  BY <1>12 DEF ExposureCounter, DriverDone, vars
<1>13. CASE Poller
  <2>1. lastError' = "SUCCESS" => lastError = "SUCCESS"
    BY <1>13 DEF Poller, PollerEnter, PollerTest, PollerPoll, PollerEmit,
                 PollerReturn, FirstStatus, NextStatus, GetStatus
  <2>2. UNCHANGED <<reply, slot, frame, drvFrame, expTime, drvTime>>
    BY <1>13 DEF Poller, PollerEnter, PollerTest, PollerPoll, PollerEmit,
                 PollerReturn
  <2> QED BY <2>1, <2>2
<1>14. ASSUME NEW c \in Commands, Submit(c) PROVE AnswersInv'
  BY <1>14 DEF Submit
<1>15. CASE AnswerSetting
  BY <1>15 DEF AnswerSetting, SettingStatus
<1> QED BY <1>1, <1>2, <1>3, <1>4, <1>5, <1>6, <1>7, <1>8, <1>9, <1>10, <1>11,
           <1>12, <1>13, <1>14, <1>15 DEF Next, ServerThread

\* A FRAME or an EXPTIME answered with success has reached the driver
\* (server.cpp:421-422, 487-488), although the members are assigned before the
\* driver is asked and the poller may write lastError before the answer.
THEOREM AnswersCorrect == Spec => []AnswersTruthful
<1>1. Init => AnswersInv
  BY DEF Init, AnswersInv, AnswersTruthful, NoReply
<1>2. AnswersInv => AnswersTruthful
  BY DEF AnswersInv
<1> QED BY <1>1, <1>2, AnswersKept, TypeCorrect, PTL DEF Spec

-----------------------------------------------------------------------------
\* A stopped exposure is not connected to SaveFITS once StopExposure is over, and
\* START forgets the stop before it connects.
StopInv ==
  /\ isStopped => connected = 0 \/ slot \in {"halt", "leave"}
  /\ slot \in {"launch", "watch"} => ~isStopped

LEMMA StopKept == TypeOK /\ StopInv /\ [Next]_vars => StopInv'
<1> SUFFICES ASSUME TypeOK, StopInv, [Next]_vars PROVE StopInv'
  OBVIOUS
<1> USE DEF StopInv
<1>1. CASE StartExposure \/ RefuseStart
  BY <1>1 DEF StartExposure, RefuseStart, Take
<1>2. CASE ConnectSave
  BY <1>2 DEF ConnectSave
<1>3. CASE StartPolling
  BY <1>3 DEF StartPolling
<1>4. CASE MarkExposure \/ HaltPolling \/ FinishStop
  BY <1>4 DEF MarkExposure, MarkStopped, HaltPolling, FinishStop, Disconnect
<1>5. CASE StopExposure \/ InitCamera
  BY <1>5 DEF StopExposure, InitCamera, Take
<1>6. CASE NoDevice \/ InitFails
  BY <1>6 DEF NoDevice, InitFails
<1>7. CASE Initialize \/ Configure
  <2>1. UNCHANGED <<isStopped, connected>> /\ slot \in {"init", "test"}
        /\ slot' \in {"test", "join"}
    BY <1>7 DEF Initialize, Configure
  <2> QED BY <2>1
<1>8. CASE FinishInit
  BY <1>8 DEF FinishInit
<1>9. CASE SaveFITS
  BY <1>9 DEF SaveFITS, Disconnect, Take
<1>10. CASE SetFitsFile \/ SetFrame \/ SetExpTime \/ AnswerSetting
  <2>1. /\ UNCHANGED <<isStopped, connected>> /\ slot \in {"idle", "frame", "time"}
        /\ slot' \in {"idle", "frame", "time"}
    BY <1>10 DEF SetFitsFile, SetFrame, SetExpTime, AnswerSetting, Take
  <2> QED BY <2>1
<1>11. CASE ExposureCounter \/ DriverDone \/ UNCHANGED vars
  BY <1>11 DEF ExposureCounter, DriverDone, vars
<1>12. CASE Poller
  BY <1>12 DEF Poller, PollerEnter, PollerTest, PollerPoll, PollerEmit,
               PollerReturn
<1>13. ASSUME NEW c \in Commands, Submit(c) PROVE StopInv'
  BY <1>13 DEF Submit
<1> QED BY <1>1, <1>2, <1>3, <1>4, <1>5, <1>6, <1>7, <1>8, <1>9, <1>10, <1>11,
           <1>12, <1>13 DEF Next, ServerThread

\* The queue holds finitely many SaveFITS calls, and taking its head does not
\* make them more.
LEMMA SavesFinite == TypeOK => IsFiniteSet(Saves)
<1> SUFFICES ASSUME TypeOK PROVE IsFiniteSet(Saves)
  OBVIOUS
<1>1. Saves \subseteq 1..Len(events) /\ Len(events) \in Nat
  BY DEF TypeOK, Saves
<1>2. IsFiniteSet(1..Len(events))
  BY <1>1, FS_Interval
<1> QED BY <1>1, <1>2, FS_Subset

LEMMA TakeSaves ==
  ASSUME TypeOK, NEW op, Take(op)
  PROVE  Cardinality(Saves') <= Cardinality(Saves)
<1>1. events \in Seq(Commands \cup {Save}) /\ events # <<>>
      /\ events' = Tail(events)
  BY DEF TypeOK, Take
<1>2. /\ Len(events') = Len(events) - 1
      /\ \A i \in 1..Len(events') : events'[i] = events[i + 1]
  BY <1>1
<1> DEFINE next == [i \in Saves' |-> i + 1]
<1>3. next \in Injection(Saves', Saves)
  <2>1. DOMAIN events = 1..Len(events) /\ DOMAIN events' = 1..Len(events')
        /\ Len(events) \in Nat /\ Len(events') \in Nat
    BY <1>1
  <2>2. \A i \in Saves' : i \in 1..Len(events') /\ i + 1 \in Saves
    BY <1>2, <2>1 DEF Saves
  <2>3. next \in [Saves' -> Saves]
    BY <2>2
  <2>4. \A i, j \in Saves' : next[i] = next[j] => i = j
    BY <2>2
  <2> QED BY <2>3, <2>4 DEF Injection, IsInjective
<1> HIDE DEF next
<1>4. IsFiniteSet(Saves)
  BY SavesFinite
<1>5. Cardinality(Saves') <= Cardinality(Saves)
  BY <1>3, <1>4, FS_Injection
<1> QED BY <1>5

\* Posting a command adds no SaveFITS call.
LEMMA SubmitSaves ==
  ASSUME TypeOK, NEW c \in Commands, Submit(c)
  PROVE  Saves' = Saves
<1>1. c # Save
  BY DEF Commands, Save
<1>2. events \in Seq(Commands \cup {Save}) /\ events' = Append(events, c)
  BY DEF TypeOK, Submit
<1> QED BY <1>1, <1>2 DEF Saves

\* After StopExposure no SaveFITS call is posted until the next START, even when
\* the poller leaves its loop only later: disconnect() (camera.cpp:623) is
\* enough, whatever the poller is doing.  Until then one may be posted for an
\* exposure that is already marked.
THEOREM StopCorrect == Spec => StopSticks
<1> DEFINE A == isStopped /\ isStopped' /\ slot \notin {"halt", "leave"} =>
                  Cardinality(Saves') <= Cardinality(Saves)
<1>1. Init => StopInv
  BY DEF Init, StopInv
<1>2. TypeOK /\ StopInv /\ [Next]_vars => [A]_vars
  <2> SUFFICES ASSUME TypeOK, StopInv, Next, isStopped, isStopped',
                      slot \notin {"halt", "leave"}
               PROVE  Cardinality(Saves') <= Cardinality(Saves)
    BY DEF A
  <2>1. Cardinality(Saves) \in Nat
    BY SavesFinite, FS_CardinalityType
  <2>2. CASE events' = events
    BY <2>1, <2>2 DEF Saves
  <2>3. ASSUME NEW c \in Commands, Submit(c)
        PROVE  Cardinality(Saves') <= Cardinality(Saves)
    BY <2>1, <2>3, SubmitSaves
  <2>4. ASSUME NEW op, Take(op)
        PROVE  Cardinality(Saves') <= Cardinality(Saves)
    BY <2>4, TakeSaves
  <2>5. CASE PollerEmit
    <3>1. connected = 0
      BY DEF StopInv
    <3>2. [i \in 1..connected |-> Save] = <<>>
      BY <3>1
    <3>3. events' = events
      <4>1. events \in Seq(Commands \cup {Save})
        BY DEF TypeOK
      <4>2. events \o <<>> = events
        BY <4>1, ConcatEmptySeq
      <4> QED BY <2>5, <3>2, <4>2 DEF PollerEmit
    <3> QED BY <2>2, <3>3
  <2>6. \/ \E c \in Commands : Submit(c)
        \/ \E op \in Ops \cup {"SaveFITS"} : Take(op)
        \/ PollerEmit
        \/ events' = events
    BY DEF Next, ServerThread, Poller, SetFitsFile, SetFrame, SetExpTime,
           AnswerSetting, RefuseStart, StartExposure, ConnectSave, StartPolling,
           StopExposure, MarkExposure, HaltPolling, FinishStop, InitCamera,
           NoDevice, Initialize, InitFails, Configure, FinishInit, SaveFITS, ExposureCounter, PollerEnter,
           PollerTest, PollerPoll, PollerReturn, DriverDone, Ops
  <2> QED BY <2>2, <2>3, <2>4, <2>5, <2>6
<1>3. [][A]_vars => StopSticks
  BY PTL DEF StopSticks
<1> QED BY <1>1, <1>2, <1>3, StopKept, TypeCorrect, PTL DEF Spec

-----------------------------------------------------------------------------
(* Clients that leave a running exposure alone, and nothing that fails.     *)
(* Commands other than STOP then reach the server only at rest, and every   *)
(* exposure begins there.                                                   *)

Looking == {"enter", "test", "poll", "emit"}

Busy ==
  \/ drv = "acquiring"
  \/ slot \in {"launch", "watch"}
  \/ poller # "dead"
  \/ Saves # {}

OneSave == \A i, j \in Saves : i = j
StopsOnly == \A i \in DOMAIN events : events[i].op \in {"STOP", "SaveFITS"}
StartLast ==
  \A i, j \in DOMAIN events : i < j /\ events[i].op = "START" => events[j].op = "STOP"

Ready == drv # "uninit" /\ pollerExists

\* While an exposure is under way the queue holds nothing that could disturb it, and
\* so it will be when one begins.
Queue ==
  /\ Busy => StopsOnly
  /\ StartLast

\* SaveFITS is connected once, and only as long as the poller, or the call that it
\* has posted, is there to undo it.
Linked ==
  /\ connected <= 1 /\ OneSave
  /\ connected = 1 => slot = "watch" \/ poller \in Looking \/ Saves # {}
  /\ poller \in Looking \/ slot \in {"launch", "watch"} => Saves = {}
  /\ slot = "launch" => poller = "dead" /\ connected = 0 /\ lastError = "SUCCESS"
  /\ slot = "watch" => poller = "dead" /\ connected = 1

\* The driver acquires only from the launch of an exposure until the poller sees the
\* end of it or STOP aborts it; FRAME, EXPTIME and INIT find it at rest.
Exposing ==
  /\ slot \in {"frame", "time", "init", "test", "join"} => ~Busy
  /\ slot = "test" => lastError = "SUCCESS"
  /\ ~forInit
  /\ drv = "acquiring" => slot \in {"launch", "watch", "idle"}
  /\ drv = "acquiring" /\ slot = "idle" =>
       /\ connected = 1
       /\ poller \in {"enter", "test", "poll"}
       /\ poller # "enter" => ~stopThread /\ seen = "acquiring"

PatientInv == Ready /\ Queue /\ Linked /\ Exposing

\* No step but taking, posting and emitting changes the queue.
LEMMA SameQueue ==
  ASSUME events' = events
  PROVE  /\ Saves' = Saves /\ (OneSave' <=> OneSave)
         /\ (StopsOnly' <=> StopsOnly) /\ (StartLast' <=> StartLast)
BY DEF Saves, OneSave, StopsOnly, StartLast

LEMMA EventOps ==
  ASSUME TypeOK, NEW i \in DOMAIN events
  PROVE  /\ events[i] = Save <=> events[i].op = "SaveFITS"
         /\ events[i].op \in Ops \cup {"SaveFITS"}
<1>1. events[i] \in Commands \cup {Save}
  BY DEF TypeOK
<1> QED BY <1>1 DEF Commands, Save, Ops

\* What is taken comes off the front of the queue; a SaveFITS that is taken was the
\* only one, and after a START there is nothing but STOP.
LEMMA TakeQueue ==
  ASSUME TypeOK, NEW op, Take(op)
  PROVE  /\ StopsOnly => StopsOnly' /\ op \in {"STOP", "SaveFITS"}
         /\ StartLast => StartLast'
         /\ StartLast /\ op = "START" => StopsOnly'
         /\ OneSave => OneSave'
         /\ op # "SaveFITS" /\ Saves = {} => Saves' = {}
         /\ op # "SaveFITS" /\ Saves # {} => Saves' # {}
         /\ op = "SaveFITS" => Saves # {}
         /\ op = "SaveFITS" /\ OneSave => Saves' = {}
<1>1. /\ events \in Seq(Commands \cup {Save}) /\ events # <<>>
      /\ events' = Tail(events) /\ events[1].op = op
  BY DEF TypeOK, Take
<1>2. /\ Len(events) \in Nat \ {0} /\ Len(events') = Len(events) - 1
      /\ DOMAIN events = 1..Len(events) /\ DOMAIN events' = 1..Len(events')
      /\ \A i \in 1..Len(events') : events'[i] = events[i + 1]
  BY <1>1
<1>3. \A i \in DOMAIN events' : i + 1 \in DOMAIN events /\ events'[i] = events[i + 1]
  BY <1>2
<1>4. \A i \in DOMAIN events : i # 1 => i - 1 \in DOMAIN events' /\ events'[i - 1] = events[i]
  BY <1>2
<1>5. 1 \in DOMAIN events /\ DOMAIN events \subseteq Int /\ DOMAIN events' \subseteq Int
  BY <1>2
<1>6. (op = "SaveFITS" <=> 1 \in Saves)
  BY <1>1, <1>5, EventOps DEF Saves
<1>7. Saves' = {i \in DOMAIN events' : i + 1 \in Saves}
  BY <1>3 DEF Saves
<1>8. Saves \subseteq DOMAIN events
  BY DEF Saves
<1>9. StopsOnly => StopsOnly' /\ op \in {"STOP", "SaveFITS"}
  BY <1>1, <1>3, <1>5 DEF StopsOnly
<1>10. StartLast => StartLast'
  BY <1>3, <1>5 DEF StartLast
<1>11. StartLast /\ op = "START" => StopsOnly'
  <2> SUFFICES ASSUME StartLast, op = "START", NEW i \in DOMAIN events'
               PROVE  events'[i].op = "STOP"
    BY DEF StopsOnly
  <2>1. i + 1 \in DOMAIN events /\ 1 < i + 1 /\ events'[i] = events[i + 1]
    BY <1>2, <1>3
  <2> QED BY <2>1, <1>1, <1>5 DEF StartLast
<1>12. OneSave => OneSave'
  BY <1>5, <1>7 DEF OneSave
<1>13. op # "SaveFITS" /\ Saves = {} => Saves' = {}
  BY <1>7
<1>14. op # "SaveFITS" /\ Saves # {} => Saves' # {}
  BY <1>4, <1>5, <1>6, <1>7, <1>8
<1>15. op = "SaveFITS" /\ OneSave => Saves' = {}
  BY <1>2, <1>6, <1>7 DEF OneSave
<1> QED BY <1>6, <1>9, <1>10, <1>11, <1>12, <1>13, <1>14, <1>15

\* Emitting posts one call if there is one connection.
LEMMA EmitQueue ==
  ASSUME TypeOK, PollerEmit, connected <= 1, Saves = {}, StopsOnly
  PROVE  /\ OneSave' /\ StopsOnly' /\ StartLast'
         /\ connected = 1 => Saves' # {}
<1>1. events \in Seq(Commands \cup {Save}) /\ connected \in {0, 1}
  BY DEF TypeOK
<1>2. CASE connected = 0
  <2>1. [i \in 1..connected |-> Save] = <<>>
    BY <1>2
  <2>2. events' = events
    BY <1>1, <2>1, ConcatEmptySeq DEF PollerEmit
  <2> QED BY <1>2, <2>2, SameQueue DEF StopsOnly, StartLast, OneSave
<1>3. CASE connected = 1
  <2>1. [i \in 1..connected |-> Save] = <<Save>>
    BY <1>3
  <2>2. events' = events \o <<Save>> /\ Save \in Commands \cup {Save}
    BY <2>1 DEF PollerEmit
  <2>3. /\ Len(events) \in Nat
        /\ DOMAIN events = 1..Len(events) /\ DOMAIN events' = 1..(Len(events) + 1)
        /\ \A i \in 1..Len(events) : events'[i] = events[i]
        /\ events'[Len(events) + 1] = Save
    BY <1>1, <2>2
  <2>4. Saves' = {Len(events) + 1}
    BY <2>3 DEF Saves
  <2>5. Save.op = "SaveFITS"
    BY DEF Save
  <2>6. StopsOnly'
    BY <2>3, <2>5 DEF StopsOnly
  <2>7. StartLast'
    BY <2>6 DEF StartLast, StopsOnly
  <2> QED BY <2>4, <2>6, <2>7 DEF OneSave
<1> QED BY <1>1, <1>2, <1>3

\* A patient client sends STOP, or something else at rest.
LEMMA SubmitQueue ==
  ASSUME TypeOK, Patient, PatientInv, NEW c \in Commands, Submit(c)
  PROVE  Queue' /\ Saves' = Saves
<1>1. Saves' = Saves
  BY SubmitSaves
<1>2. events \in Seq(Commands \cup {Save}) /\ events' = Append(events, c)
  BY DEF TypeOK, Submit
<1>3. /\ Len(events) \in Nat
      /\ DOMAIN events = 1..Len(events) /\ DOMAIN events' = 1..(Len(events) + 1)
      /\ \A i \in 1..Len(events) : events'[i] = events[i]
      /\ events'[Len(events) + 1] = c
  BY <1>2
<1>4. Busy' <=> Busy
  BY <1>1 DEF Submit, Busy
<1>5. CASE c.op = "STOP"
  <2>1. StopsOnly => StopsOnly'
    BY <1>3, <1>5 DEF StopsOnly
  <2>2. StartLast'
    BY <1>3, <1>5 DEF StartLast, PatientInv, Queue
  <2> QED BY <1>1, <1>4, <2>1, <2>2 DEF Queue, PatientInv
<1>6. CASE c.op # "STOP"
  <2>1. Quiet
    BY <1>6 DEF Submit
  <2>2. ~Busy
    BY <2>1 DEF Quiet, Busy
  <2>3. \A i \in DOMAIN events : events[i].op # "START"
    <3> SUFFICES ASSUME NEW i \in DOMAIN events, events[i].op = "START"
                 PROVE  i \in Starts
      BY <2>1 DEF Quiet
    <3>1. events[i] # Save
      BY EventOps
    <3> QED BY <3>1 DEF Starts, Waiting
  <2>4. StartLast'
    BY <1>3, <2>3 DEF StartLast
  <2> QED BY <1>1, <1>4, <2>2, <2>4 DEF Queue
<1> QED BY <1>5, <1>6

LEMMA PatientKept ==
  ASSUME Patient, ~Faulty, TypeOK, PatientInv, [Next]_vars
  PROVE  PatientInv'
<1> USE DEF PatientInv, Ready, Queue, Linked, Exposing
<1>1. ASSUME NEW c \in Commands, Submit(c) PROVE PatientInv'
  <2>1. Queue' /\ Saves' = Saves
    BY <1>1, SubmitQueue
  <2> QED BY <1>1, <2>1 DEF Submit, Busy, OneSave
\* A command that is neither START nor STOP is executed at rest and leaves the
\* camera there.
<1>2. CASE SetFitsFile \/ SetFrame \/ SetExpTime \/ RefuseStart
  <2>1. PICK op \in {"FITSFILE", "FRAME", "EXPTIME", "START"} : Take(op)
    BY <1>2 DEF SetFitsFile, SetFrame, SetExpTime, RefuseStart
  <2>2. /\ ~Busy /\ Saves' = {} /\ StartLast' /\ slot = "idle"
    BY <2>1, TakeQueue DEF Busy, Take
  <2>3. /\ UNCHANGED <<drv, poller, connected, pollerExists, stopThread, seen, forInit>>
        /\ slot' \in {"idle", "frame", "time"}
    BY <1>2, <2>2 DEF SetFitsFile, SetFrame, SetExpTime, RefuseStart
  <2>4. ~Busy'
    BY <2>2, <2>3 DEF Busy
  <2> QED BY <2>2, <2>3, <2>4 DEF Busy, OneSave
<1>17. CASE AnswerSetting
  <2>1. /\ slot \in {"frame", "time"} /\ slot' = "idle"
        /\ UNCHANGED <<drv, poller, connected, pollerExists, stopThread, seen, forInit,
                       events>>
    BY <1>17 DEF AnswerSetting
  <2>2. ~Busy /\ ~Busy'
    BY <2>1, SameQueue DEF Busy
  <2> QED BY <2>1, <2>2, SameQueue DEF Busy
\* START is taken at rest, so the driver accepts it.
<1>3. CASE StartExposure
  <2>1. ~Busy /\ Saves' = {} /\ StopsOnly' /\ StartLast'
    <3>1. Take("START")
      BY <1>3 DEF StartExposure
    <3>2. ~Busy
      BY <3>1, TakeQueue
    <3> QED BY <3>1, <3>2, TakeQueue DEF Busy
  <2>2. drv = "idle" /\ poller = "dead" /\ connected = 0
    BY <2>1 DEF Busy, TypeOK, Looking
  <2>3. DriverAnswer = "SUCCESS"
    BY <2>2 DEF DriverAnswer
  <2>4. /\ drv' = "acquiring" /\ slot' = "launch" /\ lastError' = "SUCCESS"
        /\ UNCHANGED <<poller, connected, pollerExists, forInit>>
    BY <1>3, <2>3 DEF StartExposure
  <2> QED BY <2>1, <2>2, <2>4 DEF OneSave
<1>4. CASE ConnectSave
  <2>1. /\ slot = "launch" /\ slot' = "watch" /\ connected' = 1
        /\ UNCHANGED <<events, drv, poller, pollerExists, forInit>>
    BY <1>4 DEF ConnectSave
  <2>2. Busy /\ Saves = {} /\ poller = "dead"
    BY <2>1 DEF Busy
  <2> QED BY <2>1, <2>2, SameQueue DEF Busy
<1>5. CASE StartPolling
  <2>1. /\ slot = "watch" /\ slot' = "idle" /\ poller' = "enter"
        /\ UNCHANGED <<events, drv, connected, pollerExists, forInit>>
    BY <1>5 DEF StartPolling
  <2>2. Busy /\ Saves = {}
    BY <2>1 DEF Busy
  <2> QED BY <2>1, <2>2, SameQueue DEF Busy, Looking
<1>6. CASE StopExposure
  <2>1. /\ slot = "idle" /\ slot' = "stop" /\ drv' = "idle"
        /\ UNCHANGED <<connected, poller, pollerExists>> /\ ~forInit'
    BY <1>6 DEF StopExposure, AbortAcquisition, Take, TypeOK
  <2>2. /\ StopsOnly => StopsOnly'
        /\ StartLast' /\ OneSave' /\ (Saves = {} <=> Saves' = {})
    BY <1>6, TakeQueue DEF StopExposure
  <2>3. Busy' => Busy
    BY <2>1, <2>2 DEF Busy
  <2> QED BY <2>1, <2>2, <2>3
<1>7. CASE MarkExposure \/ HaltPolling \/ FinishStop
  <2>1. /\ slot \in {"stop", "halt", "leave"} /\ slot' \in {"halt", "leave", "idle"}
        /\ connected' \in {connected, 0}
        /\ UNCHANGED <<events, drv, poller, pollerExists, forInit>>
    <3>1. CASE MarkExposure
      BY <3>1 DEF MarkExposure
    <3>2. CASE HaltPolling
      BY <3>2 DEF HaltPolling
    <3>3. CASE FinishStop
      BY <3>3 DEF FinishStop, Disconnect
    <3> QED BY <1>7, <3>1, <3>2, <3>3
  <2>2. /\ drv' # "acquiring" /\ (Busy' => Busy)
        /\ Saves' = Saves /\ OneSave' /\ StartLast' /\ (StopsOnly => StopsOnly')
    BY <2>1, SameQueue DEF Busy
  <2> QED BY <2>1, <2>2
\* INIT, too, is taken at rest and has nothing to stop.
<1>8. CASE InitCamera
  <2>1. ~Busy /\ Saves' = {} /\ StartLast'
    <3>1. Take("INIT")
      BY <1>8 DEF InitCamera
    <3>2. ~Busy
      BY <3>1, TakeQueue
    <3> QED BY <3>1, <3>2, TakeQueue DEF Busy
  <2>2. /\ slot' = "init" /\ drv' = drv
        /\ UNCHANGED <<poller, connected, pollerExists, forInit>>
    BY <1>8, <2>1 DEF InitCamera, Busy
  <2>3. ~Busy'
    BY <2>1, <2>2 DEF Busy
  <2> QED BY <2>1, <2>2, <2>3 DEF OneSave, Busy
<1>9. CASE Initialize \/ Configure \/ FinishInit
  <2>1. /\ slot \in {"init", "test", "join"} /\ slot' \in {"test", "join", "idle"}
        /\ drv' # "acquiring" /\ drv' # "uninit" /\ pollerExists'
        /\ slot' = "test" => lastError' = "SUCCESS"
        /\ UNCHANGED <<events, poller, connected, forInit>>
    BY <1>9 DEF Initialize, Configure, FinishInit, Busy
  <2>2. ~Busy /\ ~Busy'
    BY <2>1, SameQueue DEF Busy
  <2> QED BY <2>1, <2>2, SameQueue DEF Busy
<1>10. CASE NoDevice \/ InitFails
  BY <1>10 DEF NoDevice, InitFails
<1>11. CASE SaveFITS
  <2>1. /\ connected' = 0 /\ slot = "idle"
        /\ UNCHANGED <<drv, poller, slot, pollerExists, stopThread, seen, forInit>>
    BY <1>11 DEF SaveFITS, Take, Disconnect
  <2>2. Saves # {} /\ Saves' = {} /\ StopsOnly' /\ StartLast' /\ OneSave'
    BY <1>11, TakeQueue DEF SaveFITS, Busy
  <2>3. drv # "acquiring"
    BY <2>1, <2>2 DEF Looking
  <2> QED BY <2>1, <2>2, <2>3
<1>12. CASE PollerEnter \/ PollerTest \/ PollerPoll
  <2>1. /\ poller \in {"enter", "test", "poll"} /\ poller' \in {"test", "poll", "emit"}
        /\ UNCHANGED <<events, drv, slot, connected, pollerExists, forInit>>
    BY <1>12 DEF PollerEnter, PollerTest, PollerPoll
  \* As long as the driver acquires, this is what the poller sees.
  <2>2. drv = "acquiring" /\ slot = "idle" =>
          poller' # "emit" /\ ~stopThread' /\ seen' = "acquiring"
    BY <1>12 DEF PollerEnter, PollerTest, PollerPoll, ForgetStop, FirstStatus,
      NextStatus, GetStatus
  <2>3. Busy /\ poller # "dead" /\ poller' # "dead" /\ slot \notin {"launch", "watch"}
    BY <2>1 DEF Busy
  <2> QED BY <2>1, <2>2, <2>3, SameQueue DEF Looking
<1>13. CASE PollerEmit
  <2>1. /\ poller = "emit" /\ poller' = "return"
        /\ UNCHANGED <<drv, slot, connected, pollerExists, forInit, lastError>>
    BY <1>13 DEF PollerEmit
  <2>2. Busy /\ Saves = {}
    BY <2>1 DEF Busy, Looking
  <2>3. /\ OneSave' /\ StopsOnly' /\ StartLast'
        /\ connected = 1 => Saves' # {}
    BY <1>13, <2>2, EmitQueue
  <2>4. slot \notin {"launch", "watch"} /\ drv # "acquiring"
    BY <2>1
  <2> QED BY <2>1, <2>2, <2>3, <2>4 DEF Looking
<1>14. CASE PollerReturn
  <2>1. /\ poller = "return" /\ poller' = "dead"
        /\ UNCHANGED <<events, drv, slot, connected, pollerExists, forInit, lastError>>
    BY <1>14 DEF PollerReturn
  <2> QED BY <2>1, SameQueue DEF Looking, Busy
<1>15. CASE DriverDone
  BY <1>15, SameQueue DEF DriverDone, Busy
<1>16. CASE ExposureCounter \/ UNCHANGED vars
  <2>1. UNCHANGED <<drv, slot, lastError, poller, connected, pollerExists, stopThread,
                    seen, events, forInit>>
    BY <1>16 DEF ExposureCounter, vars
  <2> QED BY <2>1, SameQueue DEF Busy
<1> QED
  BY <1>1, <1>2, <1>3, <1>4, <1>5, <1>6, <1>7, <1>8, <1>9, <1>10, <1>11, <1>12, <1>13,
     <1>14, <1>15, <1>16, <1>17 DEF Next, ServerThread, Poller

LEMMA PatientInit ==
  ASSUME ~Faulty, Init PROVE PatientInv
BY DEF Init, PatientInv, Ready, Queue, Linked, Exposing, Busy, Looking, Saves, OneSave,
  StartLast, StopsOnly

\* Whatever commands wait and wherever the poller is, the invariant of patient clients
\* holds: a START begins only when nothing of the exposure before is left.
THEOREM PatientCorrect ==
  ASSUME Patient, ~Faulty PROVE Spec => []PatientInv
<1>1. Init => PatientInv
  BY PatientInit
<1>2. TypeOK /\ PatientInv /\ [Next]_vars => PatientInv'
  BY PatientKept
<1> QED BY <1>1, <1>2, TypeCorrect, PTL DEF Spec

\* SaveFITS is posted only after the driver has finished (statuspollingthread.cpp):
\* the poller leaves its loop while the driver acquires neither for a stop that an
\* earlier exposure has left nor for a status of before.
THEOREM PrematureCorrect ==
  ASSUME Patient, ~Faulty PROVE Spec => []NoPrematureSave
<1>1. PatientInv /\ TypeOK => NoPrematureSave
  BY DEF PatientInv, Linked, Exposing, NoPrematureSave, Looking, TypeOK
<1> QED BY <1>1, PatientCorrect, TypeCorrect, PTL

\* An exposure is read out once: connect() of a START (camera.cpp:604) comes only after
\* the disconnect() of the exposure before, by SaveFITS or by STOP.
THEOREM OnceCorrect ==
  ASSUME Patient, ~Faulty PROVE Spec => []SavedOnce
<1>1. PatientInv => SavedOnce
  BY DEF PatientInv, Linked, OneSave, SavedOnce
<1> QED BY <1>1, PatientCorrect, PTL

\* An exposure that runs is watched until it ends: start() (camera.cpp:605) is called
\* when run() of the exposure before has returned, so that it is not ignored.
THEOREM WatchedCorrect ==
  ASSUME Patient, ~Faulty PROVE Spec => []Watched
<1>1. PatientInv => Watched
  BY DEF PatientInv, Exposing, Watched
<1> QED BY <1>1, PatientCorrect, PTL

-----------------------------------------------------------------------------
(* The header of an image.  Clients of this part also send only what the    *)
(* driver accepts: regions on the detector and times that are not negative. *)

Accepted == BadFrames = {} /\ Times \subseteq Nat

\* At rest FRAME and EXPTIME set the members and the driver alike, and during an
\* exposure they are not executed.
Settings ==
  /\ frame = drvFrame /\ expTime = drvTime
  /\ Busy => /\ acq.file = fitsFilename
             /\ acq.frame = frame /\ acq.time = expTime

HeaderInv == Settings /\ HeaderTruthful

\* What is executed while an exposure is under way is STOP or SaveFITS.
LEMMA BusyTakes ==
  ASSUME TypeOK, PatientInv, NEW op, Take(op), op \notin {"STOP", "SaveFITS"}
  PROVE  ~Busy /\ slot = "idle" /\ drv = "idle" /\ Saves' = {}
<1>1. ~Busy
  BY TakeQueue DEF PatientInv, Queue
<1> QED BY <1>1, TakeQueue DEF Busy, PatientInv, Ready, TypeOK, Take

LEMMA HeaderKept ==
  ASSUME Patient, ~Faulty, Accepted, TypeOK, PatientInv, HeaderInv, [Next]_vars
  PROVE  HeaderInv'
<1> USE DEF HeaderInv
<1>1. ASSUME UNCHANGED <<frame, drvFrame, expTime, drvTime, fitsFilename, disk>>,
             Busy' => Busy, UNCHANGED <<acq.file, acq.frame, acq.time>>
      PROVE  HeaderInv'
  BY <1>1 DEF Settings, HeaderTruthful
\* A command that changes a setting leaves the camera at rest.
<1>2. CASE SetFitsFile \/ SetFrame \/ SetExpTime
  <2>1. PICK op \in {"FITSFILE", "FRAME", "EXPTIME"} : Take(op)
    BY <1>2 DEF SetFitsFile, SetFrame, SetExpTime
  <2>2. ~Busy /\ slot = "idle" /\ drv = "idle" /\ Saves' = {}
    BY <2>1, BusyTakes
  <2>3. ~Busy'
    BY <1>2, <2>2 DEF Busy, SetFitsFile, SetFrame, SetExpTime
  <2>4. frame' = drvFrame' /\ expTime' = drvTime'
    <3>1. CASE SetFitsFile
      BY <3>1 DEF SetFitsFile, Settings
    <3>2. CASE SetFrame
      BY <3>2, <2>2 DEF SetFrame, SetImageAnswer, DriverAnswer, Accepted, Settings
    <3>3. CASE SetExpTime
      <4>1. Head(events).time \in Times \cup {NoTime}
        BY <3>3, TakeType, CommandFields DEF SetExpTime
      <4>2. Head(events).time # NoTime =>
              SetExposureTimeAnswer(Head(events).time) = "SUCCESS"
        BY <4>1, <2>2 DEF Accepted, SetExposureTimeAnswer, DriverAnswer
      <4> QED BY <3>3, <4>2 DEF SetExpTime, StoreTime, Settings
    <3> QED BY <1>2, <3>1, <3>2, <3>3
  <2>5. disk' = disk
    BY <1>2 DEF SetFitsFile, SetFrame, SetExpTime
  <2> QED BY <2>3, <2>4, <2>5 DEF Settings, HeaderTruthful
<1>3. CASE RefuseStart
  <2>1. ~Busy /\ Saves' = {}
    BY <1>3, BusyTakes DEF RefuseStart
  <2>2. Busy' => Busy
    BY <1>3, <2>1 DEF RefuseStart, Busy
  <2> QED BY <1>1, <1>3, <2>2 DEF RefuseStart
\* The acquisition is of the members as they are, which are those of the driver.
<1>4. CASE StartExposure
  <2>1. drv = "idle"
    BY <1>4, BusyTakes DEF StartExposure
  <2>2. DriverAnswer = "SUCCESS"
    BY <2>1 DEF DriverAnswer
  <2>3. /\ acq'.file = fitsFilename /\ acq'.frame = drvFrame /\ acq'.time = drvTime
        /\ UNCHANGED <<frame, drvFrame, expTime, drvTime, fitsFilename, disk>>
    BY <1>4, <2>2 DEF StartExposure
  <2> QED BY <2>3 DEF Settings, HeaderTruthful
<1>5. CASE ConnectSave \/ StartPolling
  <2>1. Busy /\ UNCHANGED <<frame, drvFrame, expTime, drvTime, fitsFilename, disk, acq>>
    BY <1>5 DEF ConnectSave, StartPolling, Busy
  <2> QED BY <1>1, <2>1
<1>6. CASE StopExposure \/ MarkExposure \/ HaltPolling \/ FinishStop
  <2>1. /\ UNCHANGED <<frame, drvFrame, expTime, drvTime, fitsFilename, disk, poller>>
        /\ drv' = "acquiring" => drv = "acquiring"
        /\ slot' \notin {"launch", "watch"}
        /\ UNCHANGED <<acq.file, acq.frame, acq.time>>
    <3>1. CASE StopExposure
      BY <3>1 DEF StopExposure, AbortAcquisition, TypeOK, Acquisitions
    <3>2. CASE MarkExposure \/ HaltPolling
      BY <3>2 DEF MarkExposure, HaltPolling
    <3>3. CASE FinishStop
      BY <3>3 DEF FinishStop
    <3> QED BY <1>6, <3>1, <3>2, <3>3
  <2>2. Saves' # {} => Saves # {}
    BY <1>6, SameQueue, TakeQueue DEF StopExposure, MarkExposure, HaltPolling, FinishStop
  <2> QED BY <1>1, <2>1, <2>2 DEF Busy
\* InitCamera selects the whole detector, at rest.
<1>7. CASE InitCamera
  <2>1. ~Busy /\ drv = "idle" /\ Saves' = {}
    BY <1>7, BusyTakes DEF InitCamera
  <2>2. /\ UNCHANGED <<frame, drvFrame, expTime, drvTime, fitsFilename, disk, acq>>
        /\ slot' = "init" /\ drv' = drv /\ poller' = poller
    BY <1>7, <2>1 DEF InitCamera
  <2> QED BY <1>1, <2>1, <2>2 DEF Busy
<1>8. CASE Initialize \/ Configure
  <2>1. ~Busy /\ Saves' = Saves
    BY <1>8, SameQueue DEF Initialize, Configure, PatientInv, Exposing
  <2>2. frame' = drvFrame' /\ UNCHANGED <<expTime, drvTime, disk>> /\ ~Busy'
    BY <1>8, <2>1 DEF Initialize, Configure, Busy, Settings
  <2> QED BY <2>2 DEF Settings, HeaderTruthful
<1>9. CASE FinishInit \/ AnswerSetting
  <2>1. ~Busy /\ Saves' = Saves
    BY <1>9, SameQueue DEF FinishInit, AnswerSetting, PatientInv, Exposing
  <2>2. UNCHANGED <<frame, drvFrame, expTime, drvTime, fitsFilename, disk, acq>> /\ ~Busy'
    BY <1>9, <2>1 DEF FinishInit, AnswerSetting, Busy
  <2> QED BY <1>1, <2>2
<1>10. CASE NoDevice \/ InitFails
  BY <1>10 DEF NoDevice, InitFails, PatientInv, Exposing
\* The image is written under the name, and its header from the members, that the
\* acquisition began with.
<1>11. CASE SaveFITS
  <2>1. /\ UNCHANGED <<frame, drvFrame, expTime, drvTime, fitsFilename, acq>>
        /\ UNCHANGED <<drv, slot, poller>>
    BY <1>11 DEF SaveFITS, Take
  <2>2. Busy
    BY <1>11, TakeQueue DEF SaveFITS, Busy
  <2>3. \/ disk' = disk
        \/ disk' = [disk EXCEPT ![fitsFilename] = Image]
    BY <1>11 DEF SaveFITS
  <2>4. /\ Image.acq.file = fitsFilename
        /\ ~Image.stopped => Image.time = Image.acq.time /\ Image.frame = Image.acq.frame
    BY <2>2 DEF Image, Settings
  <2>5. HeaderTruthful'
    BY <2>3, <2>4 DEF HeaderTruthful, TypeOK
  <2> QED BY <2>1, <2>2, <2>5 DEF Settings
<1>12. CASE Poller
  <2>1. poller # "dead"
    BY <1>12 DEF Poller, PollerEnter, PollerTest, PollerPoll, PollerEmit, PollerReturn
  <2>2. UNCHANGED <<frame, drvFrame, expTime, drvTime, fitsFilename, disk, acq>>
    BY <1>12 DEF Poller, PollerEnter, PollerTest, PollerPoll, PollerEmit, PollerReturn
  <2> QED BY <1>1, <2>1, <2>2 DEF Busy
<1>13. ASSUME NEW c \in Commands, Submit(c) PROVE HeaderInv'
  <2>1. Saves' = Saves
    BY <1>13, SubmitSaves
  <2> QED BY <1>1, <1>13, <2>1 DEF Submit, Busy
<1>14. CASE ExposureCounter \/ DriverDone \/ UNCHANGED vars
  <2>1. /\ UNCHANGED <<frame, drvFrame, expTime, drvTime, fitsFilename, disk, acq, slot,
                       poller, events>>
        /\ drv' = "acquiring" => drv = "acquiring"
    BY <1>14 DEF ExposureCounter, DriverDone, vars
  <2> QED BY <1>1, <2>1, SameQueue DEF Busy
<1> QED
  BY <1>2, <1>3, <1>4, <1>5, <1>6, <1>7, <1>8, <1>9, <1>10, <1>11, <1>12, <1>13, <1>14
     DEF Next, ServerThread

\* The image of a patient client is in the file that was named before its START, and
\* its header tells the time and the region that its pixels were taken with, unless it
\* was stopped (camera.cpp:781-837).
THEOREM HeaderCorrect ==
  ASSUME Patient, ~Faulty, Accepted PROVE Spec => []HeaderTruthful
<1>1. Init => HeaderInv
  BY DEF Init, HeaderInv, Settings, HeaderTruthful, Busy, Saves
<1>2. TypeOK /\ PatientInv /\ HeaderInv /\ [Next]_vars => HeaderInv'
  BY HeaderKept
<1>3. HeaderInv => HeaderTruthful
  BY DEF HeaderInv
<1> QED BY <1>1, <1>2, <1>3, PatientCorrect, TypeCorrect, PTL DEF Spec
-----------------------------------------------------------------------------
(* The safety part of FateResolved: a pending acquisition is never          *)
(* forgotten.  Something that the fairness of FairSpec runs is always left  *)
(* to decide what becomes of it.                                            *)

Stopping == {"stop", "halt", "leave"}

\* The i-th acquisition is the last one, and the server thread is in the slot that
\* will watch it or stop it, or the poller that will post its SaveFITS is in its loop, or
\* that call is in the queue.
Remembered(i) ==
  /\ i = Len(fate) /\ i = acq.id
  /\ \/ slot \in {"launch", "watch"} \cup Stopping
     \/ connected = 1 /\ poller \in Looking
     \/ Saves # {}

NoneForgotten ==
  ~crashed /\ \A i \in DOMAIN fate : fate[i] = "pending" => Remembered(i)

\* When the driver is at rest, nothing waits for it.
LEMMA NothingPending ==
  ASSUME NoneForgotten, ~Busy, slot \notin Stopping, NEW i \in DOMAIN fate
  PROVE  fate[i] # "pending"
BY DEF NoneForgotten, Remembered, Busy, Looking

LEMMA RememberedKept ==
  ASSUME Patient, ~Faulty, TypeOK, PatientInv, NoneForgotten, [Next]_vars
  PROVE  NoneForgotten'
\* The steps that leave the acquisition to what had it.
<1>1. ASSUME UNCHANGED <<crashed, fate, acq.id>>,
             slot \in {"launch", "watch"} \cup Stopping =>
               \/ slot' \in {"launch", "watch"} \cup Stopping
               \/ connected' = 1 /\ poller' \in Looking,
             connected = 1 /\ poller \in Looking =>
               \/ connected' = 1 /\ poller' \in Looking
               \/ Saves' # {},
             Saves # {} => Saves' # {}
      PROVE  NoneForgotten'
  BY <1>1 DEF NoneForgotten, Remembered
\* The steps at rest, where nothing is pending.
<1>2. ASSUME ~Busy, slot \notin Stopping, UNCHANGED <<crashed, fate>>
      PROVE  NoneForgotten'
  <2>1. \A i \in DOMAIN fate : fate[i] # "pending"
    BY <1>2, NothingPending
  <2> QED BY <1>2, <2>1 DEF NoneForgotten
<1>3. ASSUME NEW c \in Commands, Submit(c) PROVE NoneForgotten'
  BY <1>1, <1>3, SubmitSaves DEF Submit
<1>4. CASE SetFitsFile \/ SetFrame \/ SetExpTime \/ RefuseStart \/ InitCamera
  <2>1. PICK op \in {"FITSFILE", "FRAME", "EXPTIME", "START", "INIT"} : Take(op)
    BY <1>4 DEF SetFitsFile, SetFrame, SetExpTime, RefuseStart, InitCamera
  <2>2. ~Busy /\ slot = "idle"
    BY <2>1, BusyTakes
  <2>3. UNCHANGED <<crashed, fate>>
    BY <1>4 DEF SetFitsFile, SetFrame, SetExpTime, RefuseStart, InitCamera
  <2> QED BY <1>2, <2>2, <2>3 DEF Stopping
\* Only the new acquisition is pending.
<1>5. CASE StartExposure
  <2>1. ~Busy /\ slot = "idle" /\ drv = "idle"
    BY <1>5, BusyTakes DEF StartExposure
  <2>2. DriverAnswer = "SUCCESS"
    BY <2>1 DEF DriverAnswer
  <2>3. /\ fate' = Append(fate, "pending") /\ acq'.id = Len(fate) + 1
        /\ slot' = "launch" /\ crashed' = crashed
    BY <1>5, <2>2 DEF StartExposure
  <2>4. \A i \in DOMAIN fate : fate[i] # "pending"
    BY <2>1, NothingPending DEF Stopping
  <2>5. /\ fate \in Seq(Fates) /\ Len(fate) \in Nat /\ DOMAIN fate = 1..Len(fate)
    BY DEF TypeOK
  <2>6. /\ Len(fate') = Len(fate) + 1
        /\ \A i \in DOMAIN fate' : i # Len(fate) + 1 =>
             i \in DOMAIN fate /\ fate'[i] = fate[i]
    BY <2>3, <2>5
  <2> QED BY <2>3, <2>4, <2>6 DEF NoneForgotten, Remembered
<1>6. CASE ConnectSave
  <2>1. /\ slot = "launch" /\ slot' = "watch"
        /\ UNCHANGED <<crashed, fate, acq, events, poller>>
    BY <1>6 DEF ConnectSave, PatientInv, Linked, Ready
  <2> QED BY <1>1, <2>1, SameQueue DEF PatientInv, Linked, Looking, Stopping
<1>7. CASE StartPolling
  <2>1. /\ slot = "watch" /\ poller' = "enter" /\ connected' = 1
        /\ UNCHANGED <<crashed, fate, acq, events>>
    BY <1>7 DEF StartPolling, PatientInv, Linked
  <2> QED BY <1>1, <2>1, SameQueue DEF Looking, Stopping
<1>8. CASE StopExposure
  <2>1. /\ slot = "idle" /\ slot' = "stop" /\ acq'.id = acq.id
        /\ UNCHANGED <<crashed, fate, poller, connected>>
    BY <1>8 DEF StopExposure, AbortAcquisition, Take, TypeOK, Acquisitions
  <2>2. Saves # {} => Saves' # {}
    BY <1>8, TakeQueue DEF StopExposure
  <2> QED BY <1>1, <2>1, <2>2 DEF Stopping
<1>17. CASE MarkExposure \/ HaltPolling
  <2>1. /\ slot \in Stopping /\ slot' \in Stopping
        /\ UNCHANGED <<crashed, fate, acq, events, poller, connected>>
    BY <1>17 DEF MarkExposure, HaltPolling, Stopping, PatientInv, Ready
  <2> QED BY <1>1, <2>1, SameQueue
\* The end of StopExposure stops whatever is pending.
<1>9. CASE FinishStop
  <2>1. /\ crashed' = crashed
        /\ fate' = [i \in DOMAIN fate |->
                      IF fate[i] = "pending" THEN "stopped" ELSE fate[i]]
    BY <1>9 DEF FinishStop
  <2> QED BY <2>1 DEF NoneForgotten
<1>10. CASE Initialize \/ Configure \/ FinishInit \/ AnswerSetting
  <2>1. /\ slot \in {"init", "test", "join", "frame", "time"}
        /\ UNCHANGED <<crashed, fate>>
    BY <1>10 DEF Initialize, Configure, FinishInit, AnswerSetting
  <2> QED BY <1>2, <2>1 DEF PatientInv, Exposing, Stopping
<1>11. CASE NoDevice \/ InitFails
  BY <1>11 DEF NoDevice, InitFails, PatientInv, Exposing
\* SaveFITS decides about the acquisition that the driver ran last, and no other is
\* pending.
<1>12. CASE SaveFITS
  <2>1. /\ crashed' = crashed
        /\ \E end \in {"failed", "saved"} :
             \/ fate' = [i \in DOMAIN fate |->
                           IF i = acq.id /\ fate[i] = "pending" THEN end ELSE fate[i]]
             \/ fate' = [i \in DOMAIN fate |->
                           IF acq.id \in {i, 0} /\ fate[i] = "pending" THEN end
                                                                   ELSE fate[i]]
    BY <1>12 DEF SaveFITS, SaveFails
  <2>2. \A i \in DOMAIN fate' : fate'[i] # "pending"
    BY <2>1 DEF NoneForgotten, Remembered
  <2> QED BY <2>1, <2>2 DEF NoneForgotten
<1>13. CASE PollerEnter \/ PollerTest \/ PollerPoll
  <2>1. /\ poller' \in Looking
        /\ UNCHANGED <<crashed, fate, acq, events, slot, connected>>
    BY <1>13 DEF PollerEnter, PollerTest, PollerPoll, Looking
  <2> QED BY <1>1, <2>1, SameQueue
\* The loop is left for a SaveFITS in the queue.
<1>14. CASE PollerEmit
  <2>1. /\ poller = "emit" /\ UNCHANGED <<crashed, fate, acq, slot>>
    BY <1>14 DEF PollerEmit
  <2>2. Busy /\ Saves = {} /\ connected <= 1 /\ slot \notin {"launch", "watch"}
    BY <2>1 DEF Busy, Looking, PatientInv, Linked
  <2>3. connected = 1 => Saves' # {}
    BY <1>14, <2>2, EmitQueue DEF PatientInv, Queue
  <2> QED BY <1>1, <2>1, <2>2, <2>3
<1>15. CASE PollerReturn
  <2>1. /\ poller = "return"
        /\ UNCHANGED <<crashed, fate, acq, events, slot, connected>>
    BY <1>15 DEF PollerReturn
  <2> QED BY <1>1, <2>1, SameQueue DEF Looking
<1>16. CASE DriverDone \/ ExposureCounter \/ UNCHANGED vars
  <2>1. UNCHANGED <<crashed, fate, acq, events, slot, connected, poller>>
    BY <1>16 DEF DriverDone, ExposureCounter, vars
  <2> QED BY <1>1, <2>1, SameQueue
<1> QED
  BY <1>3, <1>4, <1>5, <1>6, <1>7, <1>8, <1>9, <1>10, <1>11, <1>12, <1>13, <1>14, <1>15,
     <1>16, <1>17 DEF Next, ServerThread, Poller

\* Of a patient client no acquisition is lost between the slots and the poller: as
\* long as it is pending the poller looks for its end, its SaveFITS is posted, or the slot
\* that goes on with it has not returned; and no null poller is dereferenced
\* (camera.cpp:577-627, statuspollingthread.cpp).
THEOREM NoneForgottenCorrect ==
  ASSUME Patient, ~Faulty PROVE Spec => []NoneForgotten
<1>1. Init => NoneForgotten
  BY DEF Init, NoneForgotten
<1>2. TypeOK /\ PatientInv /\ NoneForgotten /\ [Next]_vars => NoneForgotten'
  BY RememberedKept
<1> QED BY <1>1, <1>2, PatientCorrect, TypeCorrect, PTL DEF Spec
=============================================================================
