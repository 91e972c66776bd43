----------------------------- MODULE Temperature -----------------------------
(***************************************************************************)
(* What the program knows of the temperature of the chip and of the        *)
(* cooler.  TempPollingThread (camera/temppollingthread.cpp) and the       *)
(* server thread both ask the driver, and share currentTemperature and     *)
(* currentCoolerStatus under tempMutex (camera/camera.cpp); lastError,     *)
(* which the commands answer with, is shared with StatusPollingThread too, *)
(* and not under a mutex (server/server.cpp).                              *)
(*                                                                         *)
(* What the server GUIs are told of it is modelled in StateFeed.            *)
(***************************************************************************)
EXTENDS Naturals

CONSTANTS
  Temps,        \* temperatures
  Good,         \* states of the cooler, which come with a temperature
  Busy,         \* an answer without one: DRV_ACQUIRING or an error
  Garbage,      \* the value of a variable that was never assigned
  Fake,         \* the temperature that GETTEMP sends when there is none
  MaxDrifts,    \* bound: changes of the real temperature or cooler state
  MaxRequests,  \* bound: commands and saved images
  MaxFaults,    \* bound: failures of the status polling thread
  KeyFaults     \* TRUE: CFITSIO may refuse the key CCDTEMP

States == Good \cup {Busy}
Readings == [temp : Temps, state : States]
Known == [temp : Temps \cup {Garbage}, state : States \cup {Garbage}]
Unread == [temp |-> Garbage, state |-> Garbage]
Unanswered == [status |-> "ERROR", temp |-> Garbage]

\* lastError: DRV_SUCCESS, the code of another call that failed, or the answer
\* of GetTemperatureF.
Codes == {"OK", "ERROR", Busy}

ASSUME TemperatureAssumption ==
  /\ Garbage \notin Temps \cup States \cup {Fake}
  /\ Fake \notin Temps
  /\ Busy \notin Good \cup {"OK", "ERROR"}
  /\ {MaxDrifts, MaxRequests, MaxFaults} \subseteq Nat
  /\ KeyFaults \in BOOLEAN

VARIABLES
  \* ---- the camera (driver) ----
  camera,       \* its temperature and the state of its cooler
  cooler,       \* "ON" or "OFF": how the cooler was switched
  drifts,
  \* ---- shared by the threads ----
  known,        \* currentTemperature, currentCoolerStatus
  lastError,
  mutex,        \* tempMutex: "free", or who has locked it
  \* ---- TempPollingThread ----
  poller,       \* where run() is: see PollerStates
  stop,         \* stop_thread
  reading,      \* its temp and cool
  \* ---- the server thread ----
  task,         \* where the command is: see Tasks
  request,      \* the command
  answer,       \* what GetTemperatureF gave it
  out,          \* what GetCCDTemperature gave its caller
  reply,        \* the status and the temperature sent
  requests,
  faults

cameraVars == <<camera, cooler, drifts>>
pollerVars == <<poller, stop, reading>>
taskVars == <<task, request, answer, out, reply, requests>>
vars == <<cameraVars, known, lastError, mutex, pollerVars, taskVars, faults>>

\* Not created; start() was called; at the test of the loop; before lock();
\* about to compare the temperature, the state; asleep; returned.
PollerStates == {"none", "started", "loop", "lock", "temp", "state", "sleep",
                 "ended"}
Tasks == {"idle", "ask", "store", "stop", "wait", "start", "answer",
          "send"}
Requests == {"GETTEMP", "ON", "OFF", "INIT", "OTHER"}

-----------------------------------------------------------------------------
(* The camera.                                                             *)

Drift ==
  /\ drifts < MaxDrifts
  /\ camera' \in Readings \ {camera}
  /\ drifts' = drifts + 1
  /\ UNCHANGED <<cooler, known, lastError, mutex, pollerVars, taskVars,
                 faults>>

\* GetTemperatureF: a call that is refused leaves its argument alone (external).
GetTemperatureF(old) ==
  [state |-> camera.state,
   temp |-> IF camera.state \in Good THEN camera.temp ELSE old]

-----------------------------------------------------------------------------
(* TempPollingThread::run                                                  *)

PollBegin ==
  /\ poller = "started"
  /\ poller' = "loop"
  /\ stop' = FALSE
  /\ reading' = Unread
  /\ UNCHANGED <<cameraVars, known, lastError, mutex, taskVars, faults>>

PollEnd ==
  /\ poller = "loop"
  /\ stop
  /\ poller' = "ended"
  /\ UNCHANGED <<cameraVars, known, lastError, mutex, stop, reading,
                 taskVars, faults>>

PollAsk ==
  /\ poller = "loop"
  /\ ~stop
  /\ reading' = GetTemperatureF(reading.temp)
  /\ poller' = "lock"
  /\ UNCHANGED <<cameraVars, known, lastError, mutex, stop, taskVars, faults>>

PollLock ==
  /\ poller = "lock"
  /\ mutex = "free"
  /\ mutex' = "poller"
  /\ poller' = "temp"
  /\ UNCHANGED <<cameraVars, known, lastError, stop, reading, taskVars,
                 faults>>

PollTemp ==
  /\ poller = "temp"
  /\ known' = [known EXCEPT !.temp = reading.temp]
  /\ poller' = "state"
  /\ UNCHANGED <<cameraVars, lastError, mutex, stop, reading, taskVars,
                 faults>>

\* unlock() (mutant: only if something was changed).
Unlock_Changed ==
  mutex' = IF known.state # reading.state THEN "free" ELSE mutex
Unlock == mutex' = "free"

PollState ==
  /\ poller = "state"
  /\ known' = [known EXCEPT !.state = reading.state]
  /\ Unlock
  /\ poller' = "sleep"
  /\ UNCHANGED <<cameraVars, lastError, stop, reading, taskVars, faults>>

PollSleep ==
  /\ poller = "sleep"
  /\ poller' = "loop"
  /\ UNCHANGED <<cameraVars, known, lastError, mutex, stop, reading,
                 taskVars, faults>>

Poller ==
  PollBegin \/ PollEnd \/ PollAsk \/ PollLock \/ PollTemp \/ PollState \/ PollSleep

-----------------------------------------------------------------------------
(* The server thread.                                                      *)

\* A command is taken up.
Begin(r) ==
  /\ task = "idle"
  /\ requests < MaxRequests
  /\ requests' = requests + 1
  /\ request' = r
  /\ answer' = Unread /\ out' = Unread /\ reply' = Unanswered

\* A call of the driver.
Call(ok) == lastError' = IF ok THEN "OK" ELSE "ERROR"

GetTemp ==
  /\ Begin("GETTEMP")
  /\ task' = "ask"
  /\ UNCHANGED <<cameraVars, known, lastError, mutex, pollerVars, faults>>

\* SetCoolerON and SetCoolerOFF.
SwitchCooler ==
  \E s \in {"ON", "OFF"} : \E ok \in BOOLEAN :
    /\ Begin(s)
    /\ task' = "ask"
    /\ Call(ok)
    /\ cooler' = IF ok THEN s ELSE cooler
    /\ UNCHANGED <<camera, drifts, known, mutex, pollerVars, faults>>

\* FAN, GAIN, RATE, SHUTTER, SETTEMP: one call of the driver, and its status.
OtherCommand ==
  \E ok \in BOOLEAN :
    /\ Begin("OTHER")
    /\ task' = "answer"
    /\ Call(ok)
    /\ UNCHANGED <<cameraVars, known, mutex, pollerVars, faults>>

\* InitCamera up to GetCCDTemperature: without a camera, or if Initialize fails,
\* it returns; after that ok is the result of the last call.
InitCamera ==
  \E ok, initialized \in BOOLEAN :
    /\ initialized \/ ~ok
    /\ Begin("INIT")
    /\ task' = IF initialized THEN "ask" ELSE "answer"
    /\ camera' \in (IF initialized THEN Readings ELSE {camera})
    /\ Call(ok)
    /\ UNCHANGED <<cooler, drifts, known, mutex, pollerVars, faults>>

\* SaveFITS writes the temperature under the lock; an error of CFITSIO between
\* lock() and unlock() is thrown.
SaveFITS ==
  /\ task = "idle"
  /\ requests < MaxRequests
  /\ requests' = requests + 1
  /\ mutex = "free"
  /\ \E ok \in (IF KeyFaults THEN BOOLEAN ELSE {TRUE}) :
       /\ mutex' = IF ok THEN "free" ELSE "server"
       /\ lastError' = IF ok THEN lastError ELSE "ERROR"
  /\ UNCHANGED <<cameraVars, known, pollerVars, task, request, answer, out,
                 reply, faults>>

\* GetCCDTemperature asks the driver ...
Ask ==
  /\ task = "ask"
  /\ answer' = GetTemperatureF(Garbage)
  /\ task' = "store"
  /\ UNCHANGED <<cameraVars, known, lastError, mutex, pollerVars, request,
                 out, reply, requests, faults>>

\* ... and assigns lastError when there is no temperature (mutants: whatever the
\* answer is; to success, when there is a temperature; not at all).
SetLastError_Always == lastError' = answer.state
SetLastError_Both == lastError' = IF answer.state = Busy THEN Busy ELSE "OK"
SetLastError_Not == UNCHANGED lastError
SetLastError == lastError' = IF answer.state = Busy THEN Busy ELSE lastError

\* ... and the temperature for everybody when there is one.
Store ==
  /\ task = "store"
  /\ mutex = "free"
  /\ SetLastError
  /\ IF answer.state = Busy
     THEN UNCHANGED <<known, out>>
     ELSE known' = answer /\ out' = answer
  /\ task' = IF request # "INIT" THEN "answer"
             ELSE IF poller = "none" THEN "start" ELSE "stop"
  /\ UNCHANGED <<cameraVars, mutex, pollerVars, request, answer, reply,
                 requests, faults>>

\* tempPolling->stop().
StopPoller ==
  /\ task = "stop"
  /\ stop' = TRUE
  /\ task' = "wait"
  /\ UNCHANGED <<cameraVars, known, lastError, mutex, poller, reading,
                 request, answer, out, reply, requests, faults>>

\* wait(2000) times out on a thread that will not end: one that began after
\* stop(), or one that waits for a mutex that nobody unlocks.
WaitPoller ==
  /\ task = "wait"
  /\ poller = "ended" \/ ~stop \/ (poller = "lock" /\ mutex = "server")
  /\ task' = "start"
  /\ UNCHANGED <<cameraVars, known, lastError, mutex, pollerVars, request,
                 answer, out, reply, requests, faults>>

\* start() does nothing for a thread that runs (mutant: nor for one
\* that has ended).
Restart_First == poller' = IF poller = "none" THEN "started" ELSE poller
Restart == poller' = IF poller \in {"none", "ended"} THEN "started" ELSE poller

StartPoller ==
  /\ task = "start"
  /\ Restart
  /\ task' = "answer"
  /\ UNCHANGED <<cameraVars, known, lastError, mutex, stop, reading, request,
                 answer, out, reply, requests, faults>>

\* The status of the command; GETTEMP goes on with the packet of the
\* temperature.
SetStatus ==
  /\ task = "answer"
  /\ reply' = [status |-> lastError, temp |-> Garbage]
  /\ task' = IF request = "GETTEMP" THEN "send" ELSE "idle"
  /\ UNCHANGED <<cameraVars, known, lastError, mutex, pollerVars, request,
                 answer, out, requests, faults>>

\* lastError is looked at a second time for the temperature.
SendTemp ==
  /\ task = "send"
  /\ reply' = [reply EXCEPT !.temp = IF lastError = "OK" THEN out.temp ELSE Fake]
  /\ task' = "idle"
  /\ UNCHANGED <<cameraVars, known, lastError, mutex, pollerVars, request,
                 answer, out, requests, faults>>

\* StatusPollingThread, which INIT creates after this thread, fails to get a
\* status: it assigns lastError from its own thread, without the mutex.
StatusFails ==
  /\ poller # "none"
  /\ faults < MaxFaults
  /\ faults' = faults + 1
  /\ lastError' = "ERROR"
  /\ UNCHANGED <<cameraVars, known, mutex, pollerVars, taskVars>>

-----------------------------------------------------------------------------
Init ==
  /\ camera \in [temp : Temps, state : {Busy}] /\ cooler = "OFF" /\ drifts = 0
  /\ known = Unread /\ lastError = "ERROR" /\ mutex = "free"
  /\ poller = "none" /\ stop = FALSE /\ reading = Unread
  /\ task = "idle" /\ request = "OTHER" /\ answer = Unread /\ out = Unread
  /\ reply = Unanswered
  /\ requests = 0 /\ faults = 0

Command == GetTemp \/ SwitchCooler \/ OtherCommand \/ InitCamera

\* What the server thread does of itself.
Serve ==
  \/ Ask \/ Store \/ StopPoller \/ WaitPoller \/ StartPoller
  \/ SetStatus \/ SendTemp

Next ==
  \/ Drift \/ StatusFails
  \/ Poller
  \/ Command \/ SaveFITS \/ Serve

Spec == Init /\ [][Next]_vars

\* Every thread runs.  The poller sleeps for a second or more without the
\* mutex, so that the server thread gets it.
Fairness ==
  /\ WF_vars(Poller)
  /\ WF_vars(Serve) /\ SF_vars(Store)

FairSpec == Spec /\ Fairness

-----------------------------------------------------------------------------
\* The types of all variables.
TypeOK ==
  /\ camera \in Readings /\ cooler \in {"ON", "OFF"} /\ drifts \in 0..MaxDrifts
  /\ {known, reading, answer, out} \subseteq Known
  /\ lastError \in Codes
  /\ mutex \in {"free", "poller", "server"}
  /\ poller \in PollerStates /\ stop \in BOOLEAN
  /\ task \in Tasks /\ request \in Requests
  /\ reply \in [status : Codes, temp : Temps \cup {Garbage, Fake}]
  /\ requests \in 0..MaxRequests /\ faults \in 0..MaxFaults

\* A temperature that GETTEMP sends is what the camera answered to this command,
\* and the status says so too, unless it is the false one: lastError, which
\* decides it, is shared with every command and with another thread
\* (server.cpp:505-510, camera.cpp:455-489).
TempTruthful ==
  task = "idle" /\ request = "GETTEMP" /\ reply.temp # Fake =>
    answer.state \in Good /\ reply.temp = answer.temp /\ reply.status = "OK"

\* The cooler is as it was asked for if COOLER was answered with success,
\* although the status is taken after the temperature was asked for too
\* (server.cpp:442-447, camera.cpp:395-418).
CoolerTruthful ==
  task = "idle" /\ request \in {"ON", "OFF"} /\ reply.status = "OK" =>
    cooler = request

\* Every command is answered: the mutex of the temperature is unlocked again,
\* and INIT does not wait for ever for the thread it stops.
Answered == task # "idle" ~> task = "idle"

\* Once the camera was initialised, the server knows the state of the cooler,
\* and the temperature when there is one: INIT leaves the thread polling,
\* whatever the moment at which it stops and starts it.
ServerKnows ==
  <>[](poller # "none" =>
         /\ known.state = camera.state
         /\ camera.state \in Good => known.temp = camera.temp)
=============================================================================
