-------------------------------- MODULE Startup --------------------------------
(***************************************************************************)
(* The start of the server (NewtonCam/main.cpp).  The main thread            *)
(* initialises the camera and gives it the settings of the configuration,    *)
(* while the thread of the server, if there is a GUI, already executes       *)
(* commands of clients.  Both use lastError, the driver and statusPolling.   *)
(* What comes after the start is in Exposure and Observation.               *)
(***************************************************************************)
EXTENDS Naturals, Sequences

CONSTANTS
  Controls,    \* what the main thread sets, in its order: temperature, cooler, ...
  MaxCommands  \* bound: number of commands

ASSUME StartupAssumption ==
  /\ Controls \in Seq(STRING) \ {<<>>}
  /\ \A i, j \in DOMAIN Controls : Controls[i] = Controls[j] => i = j
  /\ MaxCommands \in Nat

Threads == {"main", "server"}
ControlSet == {Controls[i] : i \in DOMAIN Controls}

VARIABLES
  gui,        \* not started with --nogui
  config,     \* entry of each control: "good", or "bad" if it is absent or not
              \* understood; the driver may still refuse a good one
  pc,         \* where each thread is
  rest,       \* controls that the main thread has still to set
  lastError,
  ready,      \* the driver is initialised
  acquiring,
  poller,     \* the threads whose InitCamera got to the creation of statusPolling,
              \* which is null while there are none
  controls,   \* what the main thread has set: "none", "default", "configured"
  crashed,    \* "no", or what the process died of
  reply,      \* answer of the last START or INIT
  commands,
  clash,      \* history: lastError was assigned by one thread where the other
              \* relied on it, or the one made a call of the main thread fail
  late,       \* history: the last call of the main thread in InitCamera failed, or
              \* a polling thread wrote an error after it
  refused,    \* history: controls that the driver refused by itself
  alone,      \* history: the last INIT began after the start
  recovered   \* history: such an INIT has succeeded since the last clash

env == <<gui, config>>
init == <<alone, recovered>>
refusals == <<late, refused>>
threads == <<pc, rest, commands>>
vars == <<gui, config, pc, rest, lastError, ready, acquiring, poller,
          controls, crashed, reply, commands, clash, refusals, init>>

-----------------------------------------------------------------------------
Other(t) == IF t = "main" THEN "server" ELSE "main"

\* After a call of the driver, until lastError is tested or sent.
Relies(t) == pc[t] \in {"test", "create", "out", "started"}

\* lastError is assigned by thread t.
Assign(t, error) ==
  /\ lastError' = error
  /\ clash' = (clash \/ Relies(Other(t)))

At(t, place) == crashed = "no" /\ pc[t] = place
Go(t, place) == pc' = [pc EXCEPT ![t] = place] /\ UNCHANGED <<rest, commands>>

\* What the driver may say of a call that needs it initialised and idle: it may
\* refuse a value, or fail.
DriverAnswers ==
  IF ~ready THEN {"NOT_INITIALIZED"}
  ELSE IF acquiring THEN {"ACQUIRING"} ELSE {"SUCCESS", "REFUSED"}

\* Thread t sets something at the driver, which says `answer'.
SetDriver(t, answer) ==
  /\ lastError' = answer
  /\ clash' = \/ clash \/ Relies(Other(t))
              \/ t = "main" /\ answer \in {"NOT_INITIALIZED", "ACQUIRING"}

-----------------------------------------------------------------------------
(* InitCamera, in the main thread or, for INIT, in the server's.           *)

\* An acquisition is aborted unless the camera was never initialised.  When
\* GetStatus fails its result is an uninitialised local, which may look like one.
Enter(t) ==
  /\ At(t, "enter")
  /\ IF lastError = "NOT_INITIALIZED"
     THEN Go(t, "reset") /\ UNCHANGED <<lastError, clash>>
     ELSE \E status \in IF ready THEN {"SUCCESS", "FAILED"} ELSE {"NOT_INITIALIZED"} :
            /\ Assign(t, status)
            /\ \E busy \in IF status = "SUCCESS" THEN {acquiring} ELSE BOOLEAN :
                 Go(t, IF busy THEN "abort" ELSE "reset")
  /\ UNCHANGED <<env, refusals, init, ready, acquiring, poller, controls, crashed, reply>>

\* StopExposure dereferences statusPolling.
Abort(t) ==
  /\ acquiring' = FALSE
  /\ Assign(t, IF ~ready THEN "NOT_INITIALIZED" ELSE IF acquiring THEN "SUCCESS" ELSE "IDLE")
  /\ crashed' = IF poller # {} THEN "no" ELSE "stop"

InitStop(t) ==
  /\ At(t, "abort")
  /\ Abort(t)
  /\ Go(t, "reset")
  /\ UNCHANGED <<env, refusals, init, ready, poller, controls, reply>>

Reset(t) ==
  /\ At(t, "reset")
  /\ Assign(t, "SUCCESS")
  /\ Go(t, "look")
  /\ UNCHANGED <<env, refusals, init, ready, acquiring, poller, controls, crashed, reply>>

\* GetAvailableCameras; there may be none (mutant: which is not taken for an error).
NoDevice_Fine == "SUCCESS"
NoDevice == "NO_DEVICE"

LookForCameras(t) ==
  /\ At(t, "look")
  /\ \/ Assign(t, "SUCCESS") /\ Go(t, "initialize")
     \/ Assign(t, NoDevice) /\ Go(t, "out")
  /\ UNCHANGED <<env, refusals, init, ready, acquiring, poller, controls, crashed, reply>>

\* Initialize of the driver ends an acquisition, and may fail.
Initialize(t) ==
  /\ At(t, "initialize")
  /\ \/ Assign(t, "SUCCESS") /\ ready' = TRUE
     \/ Assign(t, "FAILED") /\ ready' = FALSE
  /\ acquiring' = FALSE
  /\ Go(t, "test")
  /\ UNCHANGED <<env, refusals, init, poller, controls, crashed, reply>>

TestInitialize(t) ==
  /\ At(t, "test")
  /\ Go(t, IF lastError = "SUCCESS" THEN "configure" ELSE "out")
  /\ UNCHANGED <<env, refusals, init, lastError, clash, ready, acquiring, poller,
                 controls, crashed, reply>>

\* Some of the calls that set region, rate, gain and shutter, or the last of them.
\* What they answer is not looked at; the last answer is what lastError keeps.
Configure(t) ==
  /\ At(t, "configure")
  /\ \E answer \in DriverAnswers, place \in {"configure", "create"} :
       /\ SetDriver(t, answer)
       /\ Go(t, place)
       /\ late' = IF t = "main" THEN place = "create" /\ answer # "SUCCESS" ELSE late
  /\ UNCHANGED <<env, init, ready, acquiring, poller, controls, crashed, reply, refused>>

CreatePoller(t) ==
  /\ At(t, "create")
  /\ poller' = poller \cup {t}
  /\ Go(t, "out")
  /\ UNCHANGED <<env, refusals, init, lastError, clash, ready, acquiring, controls, crashed, reply>>

InitCamera(t) ==
  \/ Enter(t) \/ InitStop(t) \/ Reset(t) \/ LookForCameras(t)
  \/ Initialize(t) \/ TestInitialize(t) \/ Configure(t) \/ CreatePoller(t)

-----------------------------------------------------------------------------
(* The main thread.                                                        *)

\* A bad entry counts as the default.
Wanted(k) == IF config[k] = "good" THEN "configured" ELSE "default"

\* Settings are made when lastError says so (mutant: always).  Without a GUI the
\* success is logged through a pointer that was never set.
Initialised_Always == TRUE
Initialised == lastError = "SUCCESS"

CheckInit ==
  /\ At("main", "out")
  /\ \E death \in {"no", "gui"} :
       /\ death = "gui" => Initialised /\ ~gui
       /\ crashed' = death
  /\ pc' = [pc EXCEPT !.main = IF Initialised THEN "settings" ELSE "exec"]
  /\ rest' = IF Initialised THEN Controls ELSE <<>>
  /\ UNCHANGED <<env, refusals, init, lastError, clash, ready, acquiring, poller,
                 controls, reply, commands>>

\* Nobody looks at the answers, such as that to a temperature out of range.
ApplySetting ==
  /\ At("main", "settings")
  /\ \E answer \in DriverAnswers :
       /\ SetDriver("main", answer)
       /\ controls' = IF answer = "SUCCESS"
                      THEN [controls EXCEPT ![Head(rest)] = Wanted(Head(rest))]
                      ELSE controls
       /\ refused' = IF answer = "REFUSED" THEN refused \cup {Head(rest)} ELSE refused
  /\ rest' = Tail(rest)
  /\ pc' = [pc EXCEPT !.main = IF rest' = <<>> THEN "exec" ELSE "settings"]
  /\ UNCHANGED <<env, init, ready, acquiring, poller, crashed, reply, commands, late>>

Main == InitCamera("main") \/ CheckInit \/ ApplySetting

-----------------------------------------------------------------------------
(* The thread of the server.  Without a GUI it is the main thread, in exec(). *)

Serve ==
  /\ At("server", "idle")
  /\ gui \/ pc["main"] = "exec"
  /\ commands < MaxCommands
  /\ commands' = commands + 1
  /\ UNCHANGED rest

\* GAIN, RATE, SETTEMP, ..., or SaveFITS: a call of the driver, or an error that
\* the server finds itself.
OtherCommand ==
  /\ Serve
  /\ \E error \in DriverAnswers \cup {"P1INVALID"} : Assign("server", error)
  /\ UNCHANGED <<env, refusals, init, pc, ready, acquiring, poller, controls, crashed, reply>>

StopExposure ==
  /\ Serve
  /\ Abort("server")
  /\ UNCHANGED <<env, refusals, init, pc, ready, poller, controls, reply>>

BeginInit ==
  /\ Serve
  /\ pc' = [pc EXCEPT !.server = "enter"]
  /\ reply' = "none"
  /\ alone' = (pc["main"] = "exec")
  /\ UNCHANGED <<env, refusals, recovered, lastError, clash, ready, acquiring, poller,
                 controls, crashed>>

AnswerInit ==
  /\ At("server", "out")
  /\ reply' = IF lastError = "SUCCESS" THEN "initialised" ELSE "failed"
  /\ recovered' = (recovered \/ (alone /\ lastError = "SUCCESS"))
  /\ Go("server", "idle")
  /\ UNCHANGED <<env, refusals, alone, lastError, clash, ready, acquiring, poller,
                 controls, crashed>>

\* StartAcquisition; lastError is tested after the time that logging takes.
StartAcquisition ==
  /\ Serve
  /\ \E answer \in DriverAnswers :
       /\ Assign("server", answer)
       /\ acquiring' = (acquiring \/ answer = "SUCCESS")
  /\ pc' = [pc EXCEPT !.server = "started"]
  /\ UNCHANGED <<env, refusals, init, ready, poller, controls, crashed, reply>>

\* statusPolling->start() (mutant: lastError is not looked at).
Started_Always == TRUE
Started == lastError = "SUCCESS"

StartPolling ==
  /\ At("server", "started")
  /\ reply' = IF Started THEN "started" ELSE "failed"
  /\ crashed' = IF Started /\ poller = {} THEN "start" ELSE "no"
  /\ Go("server", "idle")
  /\ UNCHANGED <<env, refusals, init, lastError, clash, ready, acquiring, poller, controls>>

AcquisitionEnds ==
  /\ crashed = "no" /\ acquiring
  /\ acquiring' = FALSE
  /\ UNCHANGED <<env, refusals, init, threads, lastError, clash, ready, poller, controls,
                 crashed, reply>>

\* A polling thread, of the temperature or the status, assigns lastError when a call
\* of its own fails; neither runs before statusPolling exists.
PollingFails ==
  /\ crashed = "no" /\ poller # {}
  /\ lastError' \in {"FAILED"} \cup (DriverAnswers \ {"SUCCESS", "REFUSED"})
  /\ late' = (late \/ pc["main"] \in {"create", "out"})
  /\ UNCHANGED <<env, init, threads, clash, refused, ready, acquiring, poller, controls,
                 crashed, reply>>

Server ==
  \/ InitCamera("server") \/ AnswerInit
  \/ OtherCommand \/ StopExposure \/ BeginInit \/ StartAcquisition \/ StartPolling

-----------------------------------------------------------------------------
Init ==
  /\ gui \in BOOLEAN /\ config \in [ControlSet -> {"good", "bad"}]
  /\ pc = [t \in Threads |-> IF t = "main" THEN "enter" ELSE "idle"]
  /\ rest = <<>>
  /\ lastError = "NOT_INITIALIZED"
  /\ ready = FALSE /\ acquiring = FALSE
  /\ poller = {}
  /\ controls = [k \in ControlSet |-> "none"]
  /\ crashed = "no" /\ reply = "none"
  /\ commands = 0 /\ clash = FALSE /\ late = FALSE /\ refused = {}
  /\ alone = FALSE /\ recovered = FALSE

Next == Main \/ Server \/ PollingFails \/ AcquisitionEnds

Spec == Init /\ [][Next]_vars

-----------------------------------------------------------------------------
(* Properties.                                                             *)

\* The threads did not get in each other's way, or have since been set right by
\* an INIT.
Undisturbed == ~clash \/ recovered

\* Some thread is in InitCamera, after Initialize and before statusPolling exists.
Window == \E t \in Threads : pc[t] \in {"test", "configure", "create"}

\* After the start the driver has all settings of the configuration but those it
\* refused, or none; none only if InitCamera of the main thread did not get to its end
\* or a failure at its very end was taken for that (main.cpp:435).
SettingsMade ==
  pc["main"] = "exec" /\ ~clash =>
    \/ /\ "main" \in poller
       /\ \A k \in ControlSet :
            controls[k] = IF k \in refused THEN "none" ELSE Wanted(k)
    \/ /\ "main" \notin poller \/ late
       /\ \A k \in ControlSet : controls[k] = "none"

\* START dereferences statusPolling while it is null only in the two seconds and
\* more in which some thread initialises the camera, or after a clash that made an
\* initialisation fail which the driver takes for done (camera.cpp:225, 340, 605).
StartSafe == crashed = "start" => Window \/ ~Undisturbed

\* A client whose INIT succeeds may start exposures: there is a poller.
InitTruthful == reply = "initialised" /\ Undisturbed => poller # {}
=============================================================================
