------------------------------ MODULE Exposure ------------------------------
(***************************************************************************)
(* One exposure from START to the FITS file: the slots of class Camera     *)
(* that the server thread runs (camera/camera.cpp), the                    *)
(* StatusPollingThread that watches the driver, and the Andor driver as    *)
(* those two use it.                                                       *)
(*                                                                         *)
(* The server thread runs one slot at a time.  Commands and SaveFITS calls *)
(* reach it through its queue of posted events (`events'); a slot whose    *)
(* steps another thread can interleave with is split at those points, and  *)
(* `slot' says where the server thread is.  A slot of the build without    *)
(* EMULATOR_MODE is modelled.                                              *)
(***************************************************************************)
EXTENDS Naturals, Integers, Sequences, FiniteSets

CONSTANTS
  Files,         \* FITS file names a client can give
  NoFile,        \* the empty file name
  Frames,        \* read-out regions (binning, origin and size together)
  FullFrame,     \* the region InitCamera sets: the whole detector
  BadFrames,     \* regions the driver refuses
  Pixels,        \* Pixels[f]: number of binned pixels of region f
  Times,         \* exposure times a client can give, in clock units; the
                 \* driver refuses a negative one
  NoTime,        \* an EXPTIME argument that is no number
  Resolution,    \* CAMERA_TIMER_RESOLUTION, in clock units
  MaxExposures,  \* bound: successful StartAcquisition calls in a behaviour
  MaxCommands,   \* bound: commands waiting in the event queue
  Patient,       \* TRUE: clients leave a running exposure alone (see Submit)
  Faulty         \* TRUE: the camera may be absent or fail to initialise, and
                 \* GetStatus, the allocator and the disk may fail

ASSUME ExposureAssumption ==
  /\ NoFile \notin Files
  /\ FullFrame \in Frames \ BadFrames
  /\ BadFrames \subseteq Frames
  /\ Pixels \in [Frames -> Nat]
  /\ Times \subseteq Int
  /\ NoTime \notin Times
  /\ Resolution \in Nat \ {0}
  /\ MaxExposures \in Nat
  /\ MaxCommands \in Nat \ {0}
  /\ Patient \in BOOLEAN
  /\ Faulty \in BOOLEAN

VARIABLES
  \* ---- the driver (external) ----
  drv,            \* "uninit", "idle" or "acquiring"
  drvFrame,       \* the region the driver will read out
  drvTime,        \* the exposure time the driver will use
  acq,            \* the last acquisition the driver started
  \* ---- the Camera object ----
  lastError,
  cameraStatus,
  fitsFilename,   \* currentFITS_Filename
  frame,          \* currentImage_startX ... currentImage_binY
  expTime,        \* currentExpTime
  exposureClock,  \* currentExposureClock
  isStopped,
  timerActive,    \* exp_timer->isActive()
  connected,      \* connections Camera_IDLE() -> SaveFITS()
  pollerExists,   \* statusPolling # nullptr
  \* ---- StatusPollingThread ----
  poller,         \* "dead", "enter", "test", "poll", "emit" or "return"
  stopThread,     \* stop_thread
  seen,           \* camera_status
  \* ---- the server thread and what the outside sees of it ----
  slot,           \* where the server thread is; "idle": in its event loop
  forInit,        \* StopExposure was called by InitCamera, not for STOP
  events,         \* events posted to the server thread, oldest first
  reply,          \* the last status sent to a client
  crashed,        \* a null statusPolling was dereferenced
  disk,           \* the FITS files
  fate            \* history: fate[i] is what became of the i-th acquisition

driverVars == <<drv, drvFrame, drvTime, acq>>
settingVars == <<fitsFilename, frame, expTime, exposureClock>>
pollerVars == <<poller, stopThread, seen>>
watchVars == <<isStopped, timerActive, connected, pollerExists>>
outVars == <<crashed, disk, fate>>
cameraVars == <<cameraStatus, settingVars, watchVars>>
serverVars == <<slot, forInit, reply, outVars>>
vars == <<driverVars, lastError, cameraVars, pollerVars, events, serverVars>>

-----------------------------------------------------------------------------
Names == Files \cup {NoFile}
Save == [op |-> "SaveFITS"]

\* The commands of ExecuteCommand that take part in an exposure.  STOP, START
\* and INIT carry no argument.
Commands ==
  [op : {"START", "STOP", "INIT"}]
    \cup [op : {"FITSFILE"}, name : Names]
    \cup [op : {"FRAME"}, frame : Frames]
    \cup [op : {"EXPTIME"}, time : Times \cup {NoTime}]

Ops == {"START", "STOP", "INIT", "FITSFILE", "FRAME", "EXPTIME"}

Errors == {"SUCCESS", "NOT_INITIALIZED", "ACQUIRING", "IDLE", "PINVALID",
           "NO_NEW_DATA", "ERROR_ACK", "NO_DEVICE", "FITS_FILENAME", "FITS",
           "BADALLOC", "INVALID_ARGS"}

Statuses == {"Uninitialized", "Initialization", "Ready", "Acquisition",
             "Abort", "Reading", "Failure"}

\* Where the server thread is inside a slot: SetFrame or SetExpTime has called
\* the driver ("frame", "time"); StartExposure has called StartAcquisition
\* ("launch"), has connected SaveFITS ("watch"); StopExposure has called
\* AbortAcquisition ("stop"), has marked the exposure ("halt"), has told the
\* poller to stop ("leave"); InitCamera is about to look for cameras ("init"),
\* has called Initialize ("test"), waits for the old status polling ("join").
Slots == {"idle", "frame", "time", "launch", "watch", "stop", "halt", "leave",
          "init", "test", "join"}

NoReply == [op |-> "none", status |-> "OK"]

\* An acquisition as the driver ran it, and the file its client named for it.
\* The driver has no data when the id is 0.
Acquisitions == [id : Nat, file : Names, frame : Frames, time : Nat,
                 aborted : BOOLEAN]
NoAcquisition == [id |-> 0, file |-> NoFile, frame |-> FullFrame, time |-> 0,
                  aborted |-> FALSE]

\* A FITS file: the pixels come from `acq', the other fields are its header.
Images == [acq : Acquisitions, frame : Frames, time : Int, stopped : BOOLEAN]
NoImage == [none |-> TRUE]

Fates == {"pending", "saved", "failed", "stopped"}

Saves == {i \in DOMAIN events : events[i] = Save}
Waiting == {i \in DOMAIN events : events[i] # Save}
Starts == {i \in Waiting : events[i].op = "START"}

\* Nothing of an earlier exposure is left to see: no acquisition, no poller, no
\* SaveFITS on its way, and no START that may yet begin one.
Quiet ==
  /\ drv # "acquiring"
  /\ slot = "idle"
  /\ poller = "dead"
  /\ Saves = {}
  /\ Starts = {}

-----------------------------------------------------------------------------
(* The driver, as its error codes are used here (external).                *)

\* The answer of StartAcquisition, and of SetImage and SetExposureTime to an
\* argument that is in range.
DriverAnswer ==
  CASE drv = "uninit"    -> "NOT_INITIALIZED"
    [] drv = "acquiring" -> "ACQUIRING"
    [] drv = "idle"      -> "SUCCESS"

\* The answer of AbortAcquisition.
AbortAnswer ==
  CASE drv = "uninit"    -> "NOT_INITIALIZED"
    [] drv = "acquiring" -> "SUCCESS"
    [] drv = "idle"      -> "IDLE"

AbortAcquisition ==
  /\ drv' = IF drv = "acquiring" THEN "idle" ELSE drv
  /\ acq' = IF drv = "acquiring" THEN [acq EXCEPT !.aborted = TRUE] ELSE acq
  /\ lastError' = AbortAnswer
  /\ UNCHANGED <<drvFrame, drvTime>>

\* The answers GetAcquiredData16 may give for a buffer of region `frame'.
ReadAnswers ==
  IF drv # "idle" THEN {DriverAnswer}
  ELSE IF acq.id = 0 THEN {"NO_NEW_DATA"}
  ELSE IF Pixels[frame] # Pixels[acq.frame] THEN {"PINVALID"}
  ELSE IF acq.aborted THEN {"SUCCESS", "NO_NEW_DATA"}
  ELSE {"SUCCESS"}

\* The exposure and the read-out end in the hardware.
DriverDone ==
  /\ ~crashed
  /\ drv = "acquiring"
  /\ drv' = "idle"
  /\ UNCHANGED <<drvFrame, drvTime, acq, lastError, cameraVars, pollerVars,
                 serverVars, events>>

-----------------------------------------------------------------------------
(* The server thread: ExecuteCommand and the slots of Camera.              *)

\* A command of a client reaches the queue.  At most MaxCommands wait, and no
\* START comes that could exceed MaxExposures acquisitions.  When Patient, the
\* clients send nothing but STOP between a START and the end of all it began.
Submit(c) ==
  /\ ~crashed
  /\ Cardinality(Waiting) < MaxCommands
  /\ c.op = "START" => Len(fate) + Cardinality(Starts) < MaxExposures
  /\ Patient /\ c.op # "STOP" => Quiet
  /\ events' = Append(events, c)
  /\ UNCHANGED <<driverVars, lastError, cameraVars, pollerVars, serverVars>>

\* The server thread takes the oldest event, a command `op'.
Take(op) ==
  /\ ~crashed
  /\ slot = "idle"
  /\ events # <<>>
  /\ Head(events).op = op
  /\ events' = Tail(events)

\* SEND_STATUS; which error it is makes no difference here.
Answer(op, status) ==
  reply' = [op |-> op, status |-> IF status = "SUCCESS" THEN "OK" ELSE "error"]

\* FITSFILE: the name is stored before it is examined.
SetFitsFile ==
  /\ Take("FITSFILE")
  /\ fitsFilename' = Head(events).name
  /\ Answer("FITSFILE",
            IF fitsFilename' = NoFile THEN "INVALID_ARGS" ELSE "SUCCESS")
  /\ UNCHANGED <<driverVars, lastError, cameraStatus, frame, expTime,
                 exposureClock, watchVars, pollerVars, slot, forInit, outVars>>

\* What SetImage answers to region f.
SetImageAnswer(f) ==
  IF drv = "idle" /\ f \in BadFrames THEN "PINVALID" ELSE DriverAnswer

\* FRAME: the members are assigned whatever the driver answers.
SetFrame ==
  /\ Take("FRAME")
  /\ LET f == Head(events).frame IN
       /\ frame' = f
       /\ lastError' = SetImageAnswer(f)
       /\ drvFrame' = IF SetImageAnswer(f) = "SUCCESS" THEN f ELSE drvFrame
  /\ slot' = "frame"
  /\ UNCHANGED <<drv, drvTime, acq, cameraStatus, fitsFilename, expTime,
                 exposureClock, watchVars, pollerVars, forInit, reply, outVars>>

\* What SetExposureTime answers to time t.
SetExposureTimeAnswer(t) ==
  IF drv = "idle" /\ t < 0 THEN "PINVALID" ELSE DriverAnswer

\* SetExpTime stores the time (mutants: never, or when the driver accepts it).
StoreTime_Never(t) == UNCHANGED expTime
StoreTime_IfAccepted(t) ==
  expTime' = IF SetExposureTimeAnswer(t) = "SUCCESS" THEN t ELSE expTime
StoreTime(t) == expTime' = t

\* EXPTIME: the argument is parsed into the running clock.
SetExpTime ==
  /\ Take("EXPTIME")
  /\ LET t == Head(events).time IN
       IF t = NoTime
       THEN /\ exposureClock' = 0
            /\ Answer("EXPTIME", "INVALID_ARGS")
            /\ UNCHANGED <<expTime, lastError, drvTime, slot>>
       ELSE /\ exposureClock' = t
            /\ StoreTime(t)
            /\ lastError' = SetExposureTimeAnswer(t)
            /\ drvTime' = IF lastError' = "SUCCESS" THEN t ELSE drvTime
            /\ slot' = "time"
            /\ UNCHANGED reply
  /\ UNCHANGED <<drv, drvFrame, acq, cameraStatus, fitsFilename, frame,
                 watchVars, pollerVars, forInit, outVars>>

\* The answer to FRAME or EXPTIME is lastError, where the poller may have left an
\* error of its own since (mutant: success, as for FITSFILE).
SettingStatus_Ok == "SUCCESS"
SettingStatus == lastError

AnswerSetting ==
  /\ ~crashed
  /\ slot \in {"frame", "time"}
  /\ Answer(IF slot = "frame" THEN "FRAME" ELSE "EXPTIME", SettingStatus)
  /\ slot' = "idle"
  /\ UNCHANGED <<driverVars, lastError, cameraVars, pollerVars, events, forInit,
                 outVars>>

\* START without a file name.
RefuseStart ==
  /\ Take("START")
  /\ fitsFilename = NoFile
  /\ lastError' = "FITS_FILENAME"
  /\ Answer("START", "FITS_FILENAME")
  /\ UNCHANGED <<driverVars, cameraVars, pollerVars, slot, forInit, outVars>>

\* START up to the call of StartAcquisition.
StartExposure ==
  /\ Take("START")
  /\ fitsFilename # NoFile
  /\ isStopped' = FALSE
  /\ lastError' = DriverAnswer
  /\ IF DriverAnswer = "SUCCESS"
     THEN /\ drv' = "acquiring"
          /\ acq' = [id |-> Len(fate) + 1, file |-> fitsFilename,
                     frame |-> drvFrame, time |-> drvTime, aborted |-> FALSE]
          /\ fate' = Append(fate, "pending")
     ELSE UNCHANGED <<drv, acq, fate>>
  /\ slot' = "launch"
  /\ UNCHANGED <<drvFrame, drvTime, cameraStatus, settingVars, timerActive,
                 connected, pollerExists, pollerVars, forInit, reply, crashed,
                 disk>>

\* The test of lastError, which the poller may have changed since.
ConnectSave ==
  /\ ~crashed
  /\ slot = "launch"
  /\ IF lastError = "SUCCESS"
     THEN IF pollerExists
          THEN /\ connected' = connected + 1
               /\ slot' = "watch"
               /\ UNCHANGED <<reply, crashed>>
          ELSE /\ crashed' = TRUE
               /\ UNCHANGED <<connected, slot, reply>>
     ELSE /\ slot' = "idle"
          /\ Answer("START", lastError)
          /\ UNCHANGED <<connected, crashed>>
  /\ UNCHANGED <<driverVars, lastError, cameraStatus, settingVars, isStopped,
                 timerActive, pollerExists, pollerVars, events, forInit, disk,
                 fate>>

\* statusPolling->start(), which does nothing when the thread still runs.
StartPolling ==
  /\ ~crashed
  /\ slot = "watch"
  /\ poller' = IF poller = "dead" THEN "enter" ELSE poller
  /\ cameraStatus' = "Acquisition"
  /\ timerActive' = TRUE
  /\ slot' = "idle"
  /\ Answer("START", lastError)
  /\ UNCHANGED <<driverVars, lastError, settingVars, isStopped, connected,
                 pollerExists, stopThread, seen, events, forInit, outVars>>

\* STOP up to AbortAcquisition.
StopExposure ==
  /\ Take("STOP")
  /\ AbortAcquisition
  /\ slot' = "stop"
  /\ forInit' = FALSE
  /\ UNCHANGED <<cameraVars, pollerVars, reply, outVars>>

\* Mutants: the timer runs on, the exposure is not marked.
MarkStopped_TimerRuns == isStopped' = TRUE /\ UNCHANGED timerActive
MarkStopped_NotMarked == timerActive' = FALSE /\ UNCHANGED isStopped
MarkStopped == isStopped' = TRUE /\ timerActive' = FALSE

\* The exposure is marked and its clock stopped.  The poller may see the idle
\* driver from now on, and post a SaveFITS for the exposure so marked.
MarkExposure ==
  /\ ~crashed
  /\ slot = "stop"
  /\ MarkStopped
  /\ slot' = "halt"
  /\ UNCHANGED <<driverVars, lastError, cameraStatus, settingVars, connected,
                 pollerExists, pollerVars, events, forInit, reply, outVars>>

\* statusPolling->stop().
HaltPolling ==
  /\ ~crashed
  /\ slot = "halt"
  /\ IF pollerExists
     THEN stopThread' = TRUE /\ slot' = "leave" /\ UNCHANGED crashed
     ELSE crashed' = TRUE /\ UNCHANGED <<stopThread, slot>>
  /\ UNCHANGED <<driverVars, lastError, cameraVars, poller, seen, events,
                 forInit, reply, disk, fate>>

\* statusPolling->disconnect() (mutants: SaveFITS stays connected; only one
\* connection is undone).
Disconnect_Not == UNCHANGED connected
Disconnect_One == connected' = connected - 1
Disconnect == connected' = 0

\* The rest of StopExposure: SaveFITS is disconnected.  STOP is answered, INIT
\* goes on.
FinishStop ==
  /\ ~crashed
  /\ slot = "leave"
  /\ Disconnect
  /\ cameraStatus' = "Abort"
  /\ fate' = [i \in DOMAIN fate |->
                IF fate[i] = "pending" THEN "stopped" ELSE fate[i]]
  /\ IF forInit THEN slot' = "init" /\ UNCHANGED reply
                ELSE slot' = "idle" /\ Answer("STOP", lastError)
  /\ UNCHANGED <<driverVars, lastError, settingVars, isStopped, timerActive,
                 pollerExists, pollerVars, events, forInit, crashed, disk>>

\* INIT: an acquisition in progress is stopped first.  When GetStatus fails its
\* result is an uninitialised local, which may look like one.
InitCamera ==
  /\ Take("INIT")
  /\ \E acquiring \in IF drv = "uninit" \/ Faulty THEN BOOLEAN
                                               ELSE {drv = "acquiring"} :
       IF lastError # "NOT_INITIALIZED" /\ acquiring
       THEN AbortAcquisition /\ slot' = "stop" /\ forInit' = TRUE
       ELSE slot' = "init" /\ UNCHANGED <<driverVars, lastError, forInit>>
  /\ UNCHANGED <<cameraVars, pollerVars, reply, outVars>>

\* GetAvailableCameras finds none.
NoDevice ==
  /\ Faulty
  /\ ~crashed
  /\ slot = "init"
  /\ lastError' = "NO_DEVICE"
  /\ cameraStatus' = "Uninitialized"
  /\ slot' = "idle"
  /\ Answer("INIT", lastError')
  /\ UNCHANGED <<driverVars, settingVars, watchVars, pollerVars, events, forInit,
                 outVars>>

\* Initialize of the driver, which may fail.
Initialize ==
  /\ ~crashed
  /\ slot = "init"
  /\ \/ drv' = "idle" /\ lastError' = "SUCCESS"
     \/ Faulty /\ drv' = "uninit" /\ lastError' = "ERROR_ACK"
  /\ acq' = NoAcquisition
  /\ cameraStatus' = "Initialization"
  /\ slot' = "test"
  /\ UNCHANGED <<drvFrame, drvTime, settingVars, watchVars, pollerVars, events,
                 forInit, reply, outVars>>

\* The test of lastError, where the poller may have left an error of its own: the
\* camera then counts as uninitialised, whatever the driver did.
InitFails ==
  /\ ~crashed
  /\ slot = "test"
  /\ lastError # "SUCCESS"
  /\ cameraStatus' = "Uninitialized"
  /\ slot' = "idle"
  /\ Answer("INIT", lastError)
  /\ UNCHANGED <<driverVars, lastError, settingVars, watchVars, pollerVars,
                 events, forInit, outVars>>

\* The whole detector is selected, the old poller told to stop.
Configure ==
  /\ ~crashed
  /\ slot = "test"
  /\ lastError = "SUCCESS"
  /\ drvFrame' = FullFrame
  /\ frame' = FullFrame
  /\ stopThread' = IF pollerExists THEN TRUE ELSE stopThread
  /\ slot' = "join"
  /\ UNCHANGED <<drv, drvTime, acq, lastError, cameraStatus, fitsFilename, expTime,
                 exposureClock, watchVars, poller, seen, events, forInit, reply,
                 outVars>>

\* statusPolling->wait(), or the creation of the poller.
FinishInit ==
  /\ ~crashed
  /\ slot = "join"
  /\ poller = "dead"
  /\ pollerExists' = TRUE
  /\ cameraStatus' = "Ready"
  /\ slot' = "idle"
  /\ Answer("INIT", lastError)
  /\ UNCHANGED <<driverVars, lastError, settingVars, isStopped, timerActive,
                 connected, pollerVars, events, forInit, outVars>>

\* The clock one tick later (mutant: not kept from becoming negative).
NextClock_Unclamped == exposureClock - Resolution
NextClock ==
  LET c == exposureClock - Resolution IN IF c < Resolution THEN 0 ELSE c

\* The timeout of exp_timer.
ExposureCounter ==
  /\ ~crashed
  /\ slot = "idle"
  /\ timerActive
  /\ exposureClock' = NextClock
  /\ timerActive' = (exposureClock' # 0)
  /\ cameraStatus' = IF exposureClock' = 0 THEN "Reading" ELSE cameraStatus
  /\ UNCHANGED <<driverVars, lastError, fitsFilename, frame, expTime,
                 isStopped, connected, pollerExists, pollerVars, serverVars,
                 events>>

\* The header is written from the members of Camera as they are now.
Image ==
  [acq |-> acq, frame |-> frame, stopped |-> isStopped,
   time |-> IF isStopped THEN expTime - exposureClock ELSE expTime]

\* SaveFITS gives up with error e: a failed allocation leaves the status at
\* "Reading", every other error sets "Failure".  The data of the acquisition it
\* was for may have gone with an Initialize.
SaveFails(e) ==
  /\ lastError' = e
  /\ cameraStatus' = IF e = "BADALLOC" THEN "Reading" ELSE "Failure"
  /\ fate' = [i \in DOMAIN fate |->
                IF acq.id \in {i, 0} /\ fate[i] = "pending" THEN "failed"
                                                             ELSE fate[i]]

\* SaveFITS.  The old file goes when the new one is created (the name is
\* prefixed with "!"), before anything can be written to it.
SaveFITS ==
  /\ Take("SaveFITS")
  /\ timerActive' = FALSE
  /\ Disconnect
  /\ \/ /\ Faulty
        /\ SaveFails("BADALLOC")
        /\ UNCHANGED disk
     \/ \E e \in ReadAnswers \ {"SUCCESS"} : SaveFails(e) /\ UNCHANGED disk
     \/ /\ "SUCCESS" \in ReadAnswers
        /\ fitsFilename = NoFile
        /\ SaveFails("FITS_FILENAME")
        /\ UNCHANGED disk
     \/ /\ "SUCCESS" \in ReadAnswers
        /\ fitsFilename # NoFile
        /\ Faulty
        /\ SaveFails("FITS")
        /\ disk' = [disk EXCEPT ![fitsFilename] = NoImage]
     \/ /\ "SUCCESS" \in ReadAnswers
        /\ fitsFilename # NoFile
        /\ lastError' = "SUCCESS"
        /\ cameraStatus' = "Ready"
        /\ disk' = [disk EXCEPT ![fitsFilename] = Image]
        /\ fate' = [i \in DOMAIN fate |->
                      IF i = acq.id /\ fate[i] = "pending" THEN "saved"
                                                           ELSE fate[i]]
  /\ UNCHANGED <<driverVars, settingVars, isStopped, pollerExists, pollerVars,
                 slot, forInit, reply, crashed>>

-----------------------------------------------------------------------------
(* StatusPollingThread::run.                                               *)

\* GetStatus: camera_status keeps its old value when the call fails, and exit()
\* does not leave run().
GetStatus ==
  \/ /\ drv # "uninit"
     /\ seen' = drv
     /\ UNCHANGED lastError
  \/ /\ drv = "uninit" \/ Faulty
     /\ lastError' = IF drv = "uninit" THEN "NOT_INITIALIZED" ELSE "ERROR_ACK"
     /\ UNCHANGED seen

\* run() forgets an earlier stop() (mutant: it does not).
ForgetStop_Never == UNCHANGED stopThread
ForgetStop == stopThread' = FALSE

\* The first GetStatus (mutant: none), and the one of every turn of the loop
\* (mutant: its result is dropped).
FirstStatus_None == UNCHANGED <<seen, lastError>>
FirstStatus == GetStatus
NextStatus_Dropped == UNCHANGED <<seen, lastError>>
NextStatus == GetStatus

\* The thread begins.
PollerEnter ==
  /\ ~crashed
  /\ poller = "enter"
  /\ ForgetStop
  /\ FirstStatus
  /\ poller' = "test"
  /\ UNCHANGED <<driverVars, cameraVars, serverVars, events>>

\* The condition of the loop.
PollerTest ==
  /\ ~crashed
  /\ poller = "test"
  /\ poller' = IF seen = "acquiring" /\ ~stopThread THEN "poll" ELSE "emit"
  /\ UNCHANGED <<driverVars, lastError, cameraVars, stopThread, seen,
                 serverVars, events>>

\* The body of the loop.
PollerPoll ==
  /\ ~crashed
  /\ poller = "poll"
  /\ NextStatus
  /\ poller' = "test"
  /\ UNCHANGED <<driverVars, cameraVars, stopThread, serverVars, events>>

\* Camera_IDLE(): one SaveFITS call is posted for every connection.  A posted
\* call is not withdrawn by a later disconnect().
PollerEmit ==
  /\ ~crashed
  /\ poller = "emit"
  /\ events' = events \o [i \in 1..connected |-> Save]
  /\ poller' = "return"
  /\ UNCHANGED <<driverVars, lastError, cameraVars, stopThread, seen,
                 serverVars>>

\* run() returns; until then start() does nothing.
PollerReturn ==
  /\ ~crashed
  /\ poller = "return"
  /\ poller' = "dead"
  /\ UNCHANGED <<driverVars, lastError, cameraVars, stopThread, seen,
                 serverVars, events>>

-----------------------------------------------------------------------------
\* The InitCamera of the start of the server is over: it succeeded, or it failed and
\* there is no poller.  It counts as failed, too, when a client of the time before
\* its end has overwritten lastError, and then leaves an initialised driver without
\* a poller (camera.cpp:225).  What such a client meets is the subject of Startup.
\* camera_status is never initialised.
Init ==
  /\ \/ /\ drv = "idle" /\ pollerExists = TRUE
        /\ cameraStatus = "Ready" /\ lastError = "SUCCESS"
     \/ /\ Faulty
        /\ pollerExists = FALSE
        /\ cameraStatus = "Uninitialized"
        /\ \/ drv = "uninit" /\ lastError \in {"NO_DEVICE", "ERROR_ACK"}
           \/ drv = "idle" /\ lastError = "PINVALID"
  /\ drvFrame = FullFrame /\ frame = FullFrame
  /\ drvTime = 0 /\ expTime = 0 /\ exposureClock = 0
  /\ acq = NoAcquisition
  /\ fitsFilename = NoFile
  /\ isStopped = FALSE /\ timerActive = FALSE /\ connected = 0
  /\ poller = "dead" /\ stopThread = FALSE
  /\ seen \in {"idle", "acquiring"}
  /\ slot = "idle" /\ forInit = FALSE /\ events = <<>>
  /\ reply = NoReply
  /\ crashed = FALSE
  /\ disk = [f \in Files |-> NoImage]
  /\ fate = <<>>

ServerThread ==
  \/ SetFitsFile \/ SetFrame \/ SetExpTime \/ AnswerSetting
  \/ RefuseStart \/ StartExposure \/ ConnectSave \/ StartPolling
  \/ StopExposure \/ MarkExposure \/ HaltPolling \/ FinishStop
  \/ InitCamera \/ NoDevice \/ Initialize \/ InitFails \/ Configure \/ FinishInit
  \/ SaveFITS

Poller == PollerEnter \/ PollerTest \/ PollerPoll \/ PollerEmit \/ PollerReturn

Next ==
  \/ \E c \in Commands : Submit(c)
  \/ ServerThread
  \/ ExposureCounter
  \/ Poller
  \/ DriverDone

Spec == Init /\ [][Next]_vars

\* The server thread runs its queue, the timer fires, the poller is scheduled,
\* and a started exposure ends.  Nothing makes a client send anything.
Fairness ==
  /\ WF_vars(ServerThread)
  /\ WF_vars(ExposureCounter)
  /\ WF_vars(Poller)
  /\ WF_vars(DriverDone)

FairSpec == Spec /\ Fairness

-----------------------------------------------------------------------------
(* Properties.                                                             *)

\* The types of all variables.
TypeOK ==
  /\ drv \in {"uninit", "idle", "acquiring"}
  /\ drvFrame \in Frames /\ drvTime \in Nat /\ acq \in Acquisitions
  /\ lastError \in Errors /\ cameraStatus \in Statuses
  /\ fitsFilename \in Names /\ frame \in Frames
  /\ expTime \in Int /\ exposureClock \in Int
  /\ isStopped \in BOOLEAN /\ timerActive \in BOOLEAN
  /\ connected \in Nat /\ pollerExists \in BOOLEAN
  /\ poller \in {"dead", "enter", "test", "poll", "emit", "return"}
  /\ stopThread \in BOOLEAN /\ seen \in {"idle", "acquiring"}
  /\ slot \in Slots /\ forInit \in BOOLEAN
  /\ events \in Seq(Commands \cup {Save})
  /\ reply \in [op : Ops \cup {"none"}, status : {"OK", "error"}]
  /\ crashed \in BOOLEAN
  /\ disk \in [Files -> Images \cup {NoImage}]
  /\ fate \in Seq(Fates)

\* The clock stays between 0 and the exposure time: the EXPTIME of a stopped
\* exposure, their difference (camera.cpp:826), is never negative, whatever was
\* set while it ran.  The exception is a negative time, which the driver refuses
\* but SetExpTime keeps.
ClockBounded ==
  IF expTime < 0 THEN exposureClock \in {expTime, 0}
                 ELSE exposureClock \in 0..expTime

\* While the exposure clock ticks, the end of the acquisition is connected to
\* SaveFITS and the exposure has not been stopped.
TimerWatched == timerActive => connected > 0

\* An image of an aborted acquisition that still reaches the disk, because its
\* SaveFITS was on its way when STOP was served, says in its header that it was
\* stopped.
AbortedMarked ==
  \A f \in Files :
    disk[f] # NoImage => (disk[f].acq.aborted => disk[f].stopped)

\* A FRAME answered with success is the region the driver reads out, an
\* EXPTIME answered with success the time the driver exposes, until the next
\* of them is executed; the poller, which writes the same lastError between the
\* call and the answer, never makes a success of a refusal.
AnswersTruthful ==
  reply.status = "OK" =>
    /\ reply.op = "FRAME" /\ slot # "frame" => frame = drvFrame
    /\ reply.op = "EXPTIME" /\ slot # "time" => expTime = drvTime

\* No new SaveFITS call appears between the end of a STOP and the next START, even
\* when the poller finds the driver idle, or its own stop, only then.  While
\* StopExposure runs, after it has marked the exposure and before its disconnect()
\* (camera.cpp:620-623), one may.
StopSticks ==
  [][isStopped /\ isStopped' /\ slot \notin {"halt", "leave"} =>
       Cardinality(Saves') <= Cardinality(Saves)]_vars

\* SaveFITS is never on its way while the driver still exposes.
NoPrematureSave == Saves # {} => drv # "acquiring"

\* At most one SaveFITS call is connected, and at most one on its way: an exposure is read
\* out once.
SavedOnce == connected <= 1 /\ \A i, j \in Saves : i = j

\* Between two slots, an exposure that runs has a poller that was not told to
\* stop, and SaveFITS connected to its end.
Watched ==
  drv = "acquiring" /\ slot = "idle" =>
    /\ connected = 1
    /\ poller \in {"enter", "test", "poll"}
    /\ poller # "enter" => ~stopThread /\ seen = "acquiring"

\* Every image is in the file that was named before its START, and, unless its
\* exposure was stopped, its header tells the time and the region its pixels
\* were taken with (camera.cpp:781-837).
HeaderTruthful ==
  \A f \in Files : disk[f] # NoImage =>
    /\ disk[f].acq.file = f
    /\ ~disk[f].stopped => /\ disk[f].time = disk[f].acq.time
                           /\ disk[f].frame = disk[f].acq.frame

\* Every started acquisition is saved, fails visibly or is stopped.
FateResolved ==
  \A i \in 1..MaxExposures :
    (i \in DOMAIN fate /\ fate[i] = "pending")
      ~> (i \in DOMAIN fate /\ fate[i] # "pending")
=============================================================================
