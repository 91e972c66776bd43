-------------------------- MODULE TemperatureProofs --------------------------
(***************************************************************************)
(* Proofs about Temperature, for all temperatures, states of the cooler    *)
(* and bounds.                                                             *)
(*                                                                         *)
(* IInv adds to the two safety properties what holds while a command is    *)
(* under way: as long as lastError is DRV_SUCCESS, what the command has    *)
(* fetched is what the camera answered, and the cooler is switched.  Other *)
(* threads may only spoil lastError, so this is kept by all their steps.   *)
(***************************************************************************)
EXTENDS Temperature, TLAPS

\* GETTEMP between the answer of the camera and the end of the command.
Fetched ==
  task \in {"answer", "send"} /\ request = "GETTEMP" /\ lastError = "OK" =>
    answer.state \in Good /\ out = answer

\* Only GETTEMP sends a temperature, only INIT deals with the poller, and what is
\* stored was just answered.
Places ==
  /\ task = "send" => request = "GETTEMP"
  /\ task \in {"stop", "wait", "start"} => request = "INIT"
  /\ task = "store" => answer.state \in States

\* A status that is not DRV_SUCCESS means that lastError is not, by the time it
\* is looked at again.
StatusFirst == task = "send" /\ lastError = "OK" => reply.status = "OK"

\* COOLER between its call of the driver and its status.
Switched ==
  task # "idle" /\ request \in {"ON", "OFF"} /\ lastError = "OK" =>
    cooler = request

Safe == Places /\ Fetched /\ StatusFirst /\ Switched /\ TempTruthful /\ CoolerTruthful

IInv == TypeOK /\ Safe

\* Both a variable that was never read and an answer of the camera are Known.
LEMMA KnownType ==
  /\ Unread \in Known /\ Readings \subseteq Known
  /\ \A r \in Readings : r.state \in States
  BY TemperatureAssumption DEF Unread, Known, Readings, States

LEMMA InitIInv == Init => IInv
<1> SUFFICES ASSUME Init PROVE IInv
  OBVIOUS
<1>1. camera \in Readings
  BY DEF Init, Readings, States
<1>2. {known, reading, answer, out} \subseteq Known
  BY KnownType DEF Init
<1>3. lastError \in Codes /\ reply \in [status : Codes, temp : Temps \cup {Garbage, Fake}]
  BY DEF Init, Unanswered, Codes
<1>4. drifts \in 0..MaxDrifts /\ requests \in 0..MaxRequests /\ faults \in 0..MaxFaults
  BY TemperatureAssumption DEF Init
<1>5. TypeOK
  BY <1>1, <1>2, <1>3, <1>4 DEF Init, TypeOK, PollerStates, Tasks, Requests
<1>6. Safe
  BY DEF Init, Safe, Places, Fetched, StatusFirst, Switched, TempTruthful, CoolerTruthful
<1> QED BY <1>5, <1>6 DEF IInv

\* Every step keeps the types.
LEMMA TypeStep == TypeOK /\ [Next]_vars => TypeOK'
<1> SUFFICES ASSUME TypeOK, [Next]_vars PROVE TypeOK'
  OBVIOUS
<1> USE TemperatureAssumption
    DEF TypeOK, Readings, States, Known, Unread, Unanswered, Codes, PollerStates,
        Tasks, Requests, cameraVars, pollerVars, taskVars
<1>1. CASE Drift
  BY <1>1 DEF Drift
<1>2. CASE StatusFails
  BY <1>2 DEF StatusFails
<1>3. CASE PollBegin
  <2>1. {known', reading', answer', out'} \subseteq Known
    BY <1>3, KnownType DEF PollBegin
  <2>2. poller' \in PollerStates /\ stop' \in BOOLEAN
    BY <1>3 DEF PollBegin
  <2> HIDE DEF PollerStates, Known, Unread
  <2> QED BY <1>3, <2>1, <2>2 DEF PollBegin
<1>4. CASE PollEnd
  BY <1>4 DEF PollEnd
<1>5. CASE PollAsk
  BY <1>5 DEF PollAsk, GetTemperatureF
<1>6. CASE PollLock
  BY <1>6 DEF PollLock
<1>7. CASE PollTemp
  BY <1>7 DEF PollTemp
<1>8. CASE PollState
  BY <1>8 DEF PollState, Unlock
<1>9. CASE PollSleep
  BY <1>9 DEF PollSleep
<1>10. CASE GetTemp
  BY <1>10 DEF GetTemp, Begin
<1>11. CASE SwitchCooler
  BY <1>11 DEF SwitchCooler, Begin, Call
<1>12. CASE OtherCommand
  BY <1>12 DEF OtherCommand, Begin, Call
<1>13. CASE InitCamera
  BY <1>13 DEF InitCamera, Begin, Call
<1>14. CASE SaveFITS
  BY <1>14 DEF SaveFITS
<1>15. CASE Ask
  BY <1>15 DEF Ask, GetTemperatureF
<1>16. CASE Store
  BY <1>16 DEF Store, SetLastError
<1>17. CASE StopPoller
  BY <1>17 DEF StopPoller
<1>18. CASE WaitPoller
  BY <1>18 DEF WaitPoller
<1>19. CASE StartPoller
  BY <1>19 DEF StartPoller, Restart
<1>20. CASE SetStatus
  BY <1>20 DEF SetStatus
<1>21. CASE SendTemp
  BY <1>21 DEF SendTemp
<1>22. CASE UNCHANGED vars
  BY <1>22 DEF vars
<1> QED BY <1>1, <1>2, <1>3, <1>4, <1>5, <1>6, <1>7, <1>8, <1>9, <1>10,
           <1>11, <1>12, <1>13, <1>14, <1>15, <1>16, <1>17, <1>18, <1>19,
           <1>20, <1>21, <1>22
     DEF Next, Poller, Command, Serve

\* Every step keeps the rest.
LEMMA SafetyStep == IInv /\ [Next]_vars => Safe'
<1> SUFFICES ASSUME IInv, [Next]_vars PROVE Safe'
  OBVIOUS
<1> USE TemperatureAssumption
    DEF IInv, TypeOK, Safe, Places, Fetched, StatusFirst, Switched,
        TempTruthful, CoolerTruthful, Unread, Unanswered, cameraVars, pollerVars, taskVars
<1>1. CASE Drift
  BY <1>1 DEF Drift
<1>2. CASE StatusFails
  BY <1>2 DEF StatusFails
<1>3. CASE PollBegin
  BY <1>3 DEF PollBegin
<1>4. CASE PollEnd
  BY <1>4 DEF PollEnd
<1>5. CASE PollAsk
  BY <1>5 DEF PollAsk, GetTemperatureF
<1>6. CASE PollLock
  BY <1>6 DEF PollLock
<1>7. CASE PollTemp
  BY <1>7 DEF PollTemp
<1>8. CASE PollState
  BY <1>8 DEF PollState, Unlock
<1>9. CASE PollSleep
  BY <1>9 DEF PollSleep
<1>10. CASE GetTemp
  BY <1>10 DEF GetTemp, Begin
<1>11. CASE SwitchCooler
  BY <1>11 DEF SwitchCooler, Begin, Call
<1>12. CASE OtherCommand
  BY <1>12 DEF OtherCommand, Begin, Call
<1>13. CASE InitCamera
  BY <1>13 DEF InitCamera, Begin, Call
<1>14. CASE SaveFITS
  BY <1>14 DEF SaveFITS
<1>15. CASE Ask
  BY <1>15, KnownType DEF Ask, GetTemperatureF
<1>16. CASE Store
  BY <1>16 DEF Store, SetLastError, States
<1>17. CASE StopPoller
  BY <1>17 DEF StopPoller
<1>18. CASE WaitPoller
  BY <1>18 DEF WaitPoller
<1>19. CASE StartPoller
  BY <1>19 DEF StartPoller, Restart
<1>20. CASE SetStatus
  BY <1>20 DEF SetStatus
<1>21. CASE SendTemp
  BY <1>21 DEF SendTemp
<1>22. CASE UNCHANGED vars
  BY <1>22 DEF vars
<1> QED BY <1>1, <1>2, <1>3, <1>4, <1>5, <1>6, <1>7, <1>8, <1>9, <1>10,
           <1>11, <1>12, <1>13, <1>14, <1>15, <1>16, <1>17, <1>18, <1>19,
           <1>20, <1>21, <1>22
     DEF Next, Poller, Command, Serve

THEOREM Invariance == Spec => []IInv
<1>1. IInv /\ [Next]_vars => IInv'
  BY TypeStep, SafetyStep DEF IInv
<1> QED BY <1>1, InitIInv, PTL DEF Spec

\* Every reachable state is well typed.
THEOREM TypeCorrect == Spec => []TypeOK
<1> IInv => TypeOK
  BY DEF IInv, Safe
<1> QED BY Invariance, PTL

\* GETTEMP never passes an invented temperature off as a real one, whatever the
\* other threads do with lastError meanwhile (server.cpp:501-520).
THEOREM TempCorrect == Spec => []TempTruthful
<1> IInv => TempTruthful
  BY DEF IInv, Safe
<1> QED BY Invariance, PTL

\* COOLER is answered with success only if the cooler was switched
\* (server.cpp:432-451).
THEOREM CoolerCorrect == Spec => []CoolerTruthful
<1> IInv => CoolerTruthful
  BY DEF IInv, Safe
<1> QED BY Invariance, PTL

-----------------------------------------------------------------------------
(* Locking, stopping and starting.                                         *)

\* tempMutex is locked by the thread just between its lock() and unlock(), and by
\* the server only after an error of CFITSIO.
MutexHeld ==
  /\ mutex = "poller" <=> poller \in {"temp", "state"}
  /\ mutex = "server" => KeyFaults

\* Between commands, a thread that was ever created runs, and if it is told to stop
\* it is about to forget it.
PollerAlive ==
  task = "idle" /\ poller # "none" => poller # "ended" /\ (stop => poller = "started")

\* Only INIT ends the thread, while it waits for it, and starts it again.
StopInv ==
  /\ poller = "none" => ~stop
  /\ task \in {"stop", "wait"} => poller # "none"
  /\ poller = "ended" => stop /\ task \in {"wait", "start"}
  /\ stop /\ poller \notin {"started", "ended"} => task = "wait"

LEMMA MutexStep ==
  ASSUME TypeOK, MutexHeld, [Next]_vars PROVE MutexHeld'
<1> USE DEF MutexHeld
<1>1. CASE PollLock
  BY <1>1 DEF PollLock
<1>2. CASE PollTemp
  BY <1>2 DEF PollTemp
<1>3. CASE PollState
  BY <1>3 DEF PollState, Unlock
<1>4. CASE PollBegin \/ PollEnd \/ PollAsk \/ PollSleep
  BY <1>4 DEF PollBegin, PollEnd, PollAsk, PollSleep
<1>5. CASE SaveFITS
  BY <1>5 DEF SaveFITS, pollerVars
<1>6. CASE StartPoller
  BY <1>6 DEF StartPoller, Restart
<1>7. CASE StopPoller
  BY <1>7 DEF StopPoller
<1>8. CASE \/ Drift \/ StatusFails \/ GetTemp \/ SwitchCooler \/ OtherCommand \/ InitCamera
           \/ Ask \/ Store \/ WaitPoller \/ SetStatus \/ SendTemp \/ UNCHANGED vars
  BY <1>8 DEF Drift, StatusFails, GetTemp, SwitchCooler, OtherCommand, InitCamera,
    Ask, Store, WaitPoller, SetStatus, SendTemp, vars, pollerVars
<1> QED
  BY <1>1, <1>2, <1>3, <1>4, <1>5, <1>6, <1>7, <1>8 DEF Next, Poller, Command, Serve

LEMMA StopStep ==
  ASSUME ~KeyFaults, TypeOK, MutexHeld, StopInv, [Next]_vars PROVE StopInv'
<1> USE DEF StopInv
<1>1. CASE PollBegin \/ PollEnd
  BY <1>1 DEF PollBegin, PollEnd, taskVars
<1>2. CASE PollAsk \/ PollLock \/ PollTemp \/ PollState \/ PollSleep
  BY <1>2 DEF PollAsk, PollLock, PollTemp, PollState, PollSleep, taskVars
<1>3. CASE GetTemp \/ SwitchCooler \/ OtherCommand \/ InitCamera
  BY <1>3 DEF GetTemp, SwitchCooler, OtherCommand, InitCamera, Begin, pollerVars
<1>4. CASE Ask \/ SetStatus \/ SendTemp
  BY <1>4 DEF Ask, SetStatus, SendTemp, pollerVars
<1>5. CASE Store
  BY <1>5 DEF Store, pollerVars
<1>6. CASE StopPoller
  BY <1>6 DEF StopPoller
<1>7. CASE WaitPoller
  \* The wait ends with a thread that has ended, or that has forgotten the stop; it
  \* does not time out, because nobody keeps the mutex.
  <2>1. poller = "ended" \/ ~stop
    BY <1>7 DEF WaitPoller, MutexHeld
  <2> QED BY <1>7, <2>1 DEF WaitPoller, pollerVars
<1>8. CASE StartPoller
  BY <1>8 DEF StartPoller, Restart
<1>9. CASE UNCHANGED vars
  BY <1>9 DEF vars, pollerVars, taskVars
<1>10. CASE SaveFITS
  <2>1. UNCHANGED <<poller, stop, task>>
    BY <1>10 DEF SaveFITS, pollerVars
  <2> QED BY <2>1
<1>11. CASE Drift
  BY <1>11 DEF Drift, pollerVars, taskVars
<1>12. CASE StatusFails
  BY <1>12 DEF StatusFails, pollerVars, taskVars
<1> QED
  BY <1>1, <1>2, <1>3, <1>4, <1>5, <1>6, <1>7, <1>8, <1>9, <1>10, <1>11, <1>12
     DEF Next, Poller, Command, Serve

\* Nobody but the thread in its critical section holds tempMutex for longer than a
\* step (temppollingthread.cpp, camera.cpp:455-489), unless CFITSIO throws between
\* lock() and unlock() of SaveFITS (camera.cpp:853-886).
THEOREM MutexCorrect == Spec => []MutexHeld
<1>1. Init => MutexHeld
  BY DEF Init, MutexHeld
<1>2. TypeOK /\ MutexHeld /\ [Next]_vars => MutexHeld'
  BY MutexStep
<1> QED BY <1>1, <1>2, TypeCorrect, PTL DEF Spec

\* INIT leaves the thread polling, at whatever moment it stops and starts it
\* (camera.cpp:331-338): stop() may come before run() resets stop_thread, and
\* start() while run() has not returned.  This is the safety part of ServerKnows.
THEOREM AliveCorrect == ASSUME ~KeyFaults PROVE Spec => []PollerAlive
<1>1. Init => StopInv
  BY DEF Init, StopInv
<1>2. TypeOK /\ MutexHeld /\ StopInv /\ [Next]_vars => StopInv'
  BY StopStep
<1>3. StopInv => PollerAlive
  BY DEF StopInv, PollerAlive
<1> QED BY <1>1, <1>2, <1>3, TypeCorrect, MutexCorrect, PTL DEF Spec
=============================================================================
