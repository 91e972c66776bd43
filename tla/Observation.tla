------------------------------ MODULE Observation ------------------------------
(***************************************************************************)
(* An observation: clients run one after the other, each sends the commands  *)
(* that its options ask for (client/main.cpp) and leaves; what they set      *)
(* stays at the server, and the exposure that one has started goes on while  *)
(* the next are served (server.cpp, camera.cpp).  Exposure has the details   *)
(* of one exposure, Frame those of a region, Session those of a connection.  *)
(***************************************************************************)
EXTENDS Naturals, Sequences

CONSTANTS
  Options,      \* what clients are started with: flags, arguments set[k] of
                \* options k (--shutter has one by default), and files
  Values,       \* of settings
  KnownValues,  \* the rates and gains that the server knows by name
  Files,        \* names of files
  NoFile,       \* no name
  Standard,     \* Standard[k]: setting k at first, and of an unknown rate or gain
  MaxClients,   \* bound: number of clients
  MaxRefusals   \* bound: how often the idle driver refuses a setting or START

Settings == {"RATE", "GAIN", "FRAME", "EXPTIME", "SHUTTER"}
Flags == {"stop", "init", "gettemp", "COOLER", "FAN", "SETTEMP"}

ASSUME ObservationAssumption ==
  /\ \A o \in Options : /\ o.flags \subseteq Flags
                        /\ "SHUTTER" \in DOMAIN o.set /\ DOMAIN o.set \subseteq Settings
                        /\ \A k \in DOMAIN o.set : o.set[k] \in Values
                        /\ {o.fits, o.hdr} \subseteq Files \cup {NoFile}
                        /\ o.fits = NoFile => o.hdr = NoFile
  /\ NoFile \notin Files
  /\ KnownValues \subseteq Values /\ Standard \in [Settings -> Values]
  /\ MaxClients \in Nat /\ MaxRefusals \in Nat

VARIABLES
  client,     \* the client being served: its number, options and commands to do
  served,     \* number of clients so far
  events,     \* event queue of the server: commands, and calls of SaveFITS
  camera,     \* members of Camera: settings, currentFITS_Filename, currentHDR_...
  driver,     \* settings of the driver
  lastError,
  acq,        \* the acquisition of the driver, and who started it how
  poller,     \* StatusPollingThread, and its stop_thread
  connected,  \* connections of Camera_IDLE() to SaveFITS()
  image,      \* what the last call of SaveFITS did
  refused,    \* history: settings that were refused when they were last set
  refusals    \* how often the driver has refused

vars == <<client, served, events, camera, driver, lastError, acq, poller,
          connected, image, refused, refusals>>

NoClient == [id |-> 0]
Calls == {i \in DOMAIN events : events[i].cmd # "SAVE"}
Acquiring == acq.status = "running"

-----------------------------------------------------------------------------
(* The client.                                                             *)

Commands == Settings \cup {"STOP", "INIT", "GETTEMP", "COOLER", "FAN", "SETTEMP",
                         "FITSFILE", "HEADFILE", "START"}

\* Where a command comes in the client's script (mutant: files come first).
Rank_Files(c) ==
  IF c \in {"FITSFILE", "HEADFILE"} THEN 1
  ELSE CASE c = "STOP" -> 0     [] c = "INIT" -> 1      [] c = "GETTEMP" -> 2
         [] c = "RATE" -> 3     [] c = "GAIN" -> 4      [] c = "FRAME" -> 5
         [] c = "EXPTIME" -> 6  [] c = "SHUTTER" -> 7   [] c = "COOLER" -> 8
         [] c = "FAN" -> 9      [] c = "SETTEMP" -> 10  [] c = "START" -> 13
Rank(c) ==
  CASE c = "STOP" -> 0     [] c = "INIT" -> 1      [] c = "GETTEMP" -> 2
    [] c = "RATE" -> 3     [] c = "GAIN" -> 4      [] c = "FRAME" -> 5
    [] c = "EXPTIME" -> 6  [] c = "SHUTTER" -> 7   [] c = "COOLER" -> 8
    [] c = "FAN" -> 9      [] c = "SETTEMP" -> 10  [] c = "FITSFILE" -> 11
    [] c = "HEADFILE" -> 12                        [] c = "START" -> 13

\* Does a client with options o send command c?  --stop sends nothing else.
Wanted(o, c) ==
  IF "stop" \in o.flags THEN c = "STOP"
  ELSE CASE c = "STOP" -> FALSE
         [] c = "INIT" -> "init" \in o.flags
         [] c = "GETTEMP" -> "gettemp" \in o.flags
         [] c \in {"COOLER", "FAN", "SETTEMP"} -> c \in o.flags
         [] c \in Settings \ {"SHUTTER"} -> c \in DOMAIN o.set
         [] c \in {"SHUTTER", "FITSFILE", "START"} -> o.fits # NoFile
         [] c = "HEADFILE" -> o.hdr # NoFile

Script(o) == {c \in Commands : Wanted(o, c)}

\* A client is served when the last one has left and its command is done.
Connect(o) ==
  /\ client = NoClient /\ Calls = {}
  /\ served < MaxClients
  /\ served' = served + 1
  /\ client' = IF Script(o) = {} THEN NoClient
               ELSE [id |-> served', opts |-> o, todo |-> Script(o)]
  /\ UNCHANGED <<events, camera, driver, lastError, acq, poller, connected,
                 image, refused, refusals>>

\* SEND_COMMAND; the client then waits for the status.
SendCommand ==
  /\ client # NoClient /\ Calls = {}
  /\ \E c \in client.todo :
       /\ \A d \in client.todo : Rank(c) <= Rank(d)
       /\ events' = Append(events, [cmd |-> c, by |-> client])
  /\ UNCHANGED <<client, served, camera, driver, lastError, acq, poller, connected,
                 image, refused, refusals>>

\* The client is killed, or gives up waiting.
ClientDies ==
  /\ client # NoClient
  /\ client' = NoClient
  /\ UNCHANGED <<served, events, camera, driver, lastError, acq, poller, connected,
                 image, refused, refusals>>

\* SERVER_STATUS: the client leaves when a status is not OK (mutant: it does not),
\* or when there is nothing left to send.
Continue_Always(status) ==
  IF client = NoClient \/ client.todo = {Head(events).cmd} THEN NoClient
  ELSE [client EXCEPT !.todo = @ \ {Head(events).cmd}]
Continue(status) ==
  IF client = NoClient \/ status # "OK" \/ client.todo = {Head(events).cmd}
  THEN NoClient
  ELSE [client EXCEPT !.todo = @ \ {Head(events).cmd}]

-----------------------------------------------------------------------------
(* ExecuteCommand.  Every command ends with its status; one that comes while *)
(* an exposure is not saved yet disturbs it.                                *)

Command(c) ==
  /\ events # <<>>
  /\ Head(events).cmd = c

Opts == Head(events).by.opts

Answer(status) ==
  /\ client' = Continue(status)
  /\ UNCHANGED served

Unsaved == acq.status \in {"running", "ended", "aborted"}
Disturbed == [acq EXCEPT !.quiet = @ /\ ~Unsaved]

\* What the driver answers to a setting or to START.
DriverAnswer(answer) ==
  /\ answer = "ACQUIRING" <=> Acquiring
  /\ answer = "REFUSED" => refusals < MaxRefusals
  /\ refusals' = IF answer = "REFUSED" THEN refusals + 1 ELSE refusals
Answers == {"OK", "ACQUIRING", "REFUSED"}

\* SetRate and SetCCDGain take the slowest for a name that they do not know.
Effective(k, v) ==
  IF k \in {"RATE", "GAIN"} /\ v \notin KnownValues THEN Standard[k] ELSE v

\* RATE, GAIN, FRAME, EXPTIME, SHUTTER: the member is assigned whatever the
\* driver answers.
Set(k) ==
  /\ Command(k)
  /\ \E answer \in Answers :
       LET v == Effective(k, Opts.set[k])
       IN /\ DriverAnswer(answer)
          /\ camera' = [camera EXCEPT ![k] = v]
          /\ driver' = IF answer = "OK" THEN [driver EXCEPT ![k] = v] ELSE driver
          /\ refused' = IF answer = "OK" THEN refused \ {k} ELSE refused \cup {k}
          /\ lastError' = answer
          /\ Answer(answer)
  /\ acq' = Disturbed
  /\ events' = Tail(events)
  /\ UNCHANGED <<poller, connected, image>>

\* COOLER, FAN, SETTEMP; the fan may be changed during an acquisition.
Control(c) ==
  /\ Command(c)
  /\ \E answer \in {"OK", "ACQUIRING"} :
       /\ IF Acquiring THEN c # "FAN" => answer = "ACQUIRING" ELSE answer = "OK"
       /\ lastError' = answer
       /\ Answer(answer)
  /\ events' = Tail(events)
  /\ UNCHANGED <<camera, driver, acq, poller, connected, image, refused, refusals>>

\* GETTEMP answers lastError, which it assigns only when the camera gives no
\* temperature.
GetTemp ==
  /\ Command("GETTEMP")
  /\ lastError' = IF Acquiring THEN "ACQUIRING" ELSE lastError
  /\ Answer(lastError')
  /\ events' = Tail(events)
  /\ UNCHANGED <<camera, driver, acq, poller, connected, image, refused, refusals>>

\* FITSFILE and HEADFILE ask nobody.
SetFile(c) ==
  /\ Command(c)
  /\ camera' = [camera EXCEPT ![c] = IF c = "FITSFILE" THEN Opts.fits ELSE Opts.hdr]
  /\ acq' = Disturbed
  /\ Answer("OK")
  /\ events' = Tail(events)
  /\ UNCHANGED <<driver, lastError, poller, connected, image, refused, refusals>>

\* Camera_IDLE(), over n connections, queues as many calls of SaveFITS.
Saves(n) == [i \in 1..n |-> [cmd |-> "SAVE"]]

\* start() does nothing while run() has not returned.  history: `watched' if the
\* remains of an earlier exposure will not take the place of this one's.
StartExposure ==
  /\ Command("START")
  /\ \E answer \in Answers :
       /\ DriverAnswer(answer)
       /\ lastError' = answer
       /\ Answer(answer)
       /\ IF answer # "OK"
          THEN acq' = Disturbed /\ UNCHANGED <<poller, connected>>
          ELSE /\ acq' = [status |-> "running", id |-> Head(events).by.id,
                          opts |-> Opts, taken |-> driver,
                          hdr |-> camera["HEADFILE"], quiet |-> TRUE,
                          watched |->
                            /\ poller.at # "seen" /\ ~(poller.at = "on" /\ poller.stop)
                            /\ \A i \in DOMAIN events : events[i].cmd # "SAVE"]
               /\ connected' = connected + 1
               /\ poller' = IF poller.at = "off" THEN [poller EXCEPT !.at = "started"]
                            ELSE poller
  /\ events' = Tail(events)
  /\ UNCHANGED <<camera, driver, image, refused>>

\* AbortAcquisition fails when nothing is acquired; the rest is done anyway.
StopExposure ==
  /\ Command("STOP")
  /\ lastError' = IF Acquiring THEN "OK" ELSE "IDLE"
  /\ acq' = IF Acquiring THEN [Disturbed EXCEPT !.status = "aborted"] ELSE Disturbed
  /\ poller' = [poller EXCEPT !.stop = TRUE]
  /\ connected' = 0
  /\ Answer(lastError')
  /\ events' = Tail(events)
  /\ UNCHANGED <<camera, driver, image, refused, refusals>>

\* INIT aborts an acquisition, as STOP does, ends the poller, which emits
\* Camera_IDLE() if it had not yet, and sets what InitCamera sets: the shutter as
\* it was set last, and not the exposure time, which Initialize may forget.
InitCamera ==
  /\ Command("INIT")
  /\ acq' = [Disturbed EXCEPT !.status = IF @ = "none" THEN @ ELSE "cleared"]
  /\ connected' = IF Acquiring THEN 0 ELSE connected
  /\ events' = Tail(events) \o Saves(IF poller.at = "off" THEN 0 ELSE connected')
  /\ poller' = [at |-> "off", stop |-> poller.at # "off" \/ poller.stop]
  /\ camera' = [k \in DOMAIN camera |->
                  IF k \in {"RATE", "GAIN", "FRAME"} THEN Standard[k] ELSE camera[k]]
  /\ \E time \in {driver["EXPTIME"], Standard["EXPTIME"]} :
       /\ driver' = [k \in Settings |-> IF k = "EXPTIME" THEN time ELSE camera'[k]]
       /\ refused' = IF time # driver["EXPTIME"] \/ "EXPTIME" \in refused
                     THEN {"EXPTIME"} ELSE {}
  /\ lastError' = "OK"
  /\ Answer("OK")
  /\ UNCHANGED <<image, refusals>>

ExecuteCommand ==
  \/ \E k \in Settings : Set(k)
  \/ \E c \in {"COOLER", "FAN", "SETTEMP"} : Control(c)
  \/ GetTemp
  \/ \E c \in {"FITSFILE", "HEADFILE"} : SetFile(c)
  \/ StartExposure
  \/ StopExposure
  \/ InitCamera

-----------------------------------------------------------------------------
(* The exposure (see Exposure).                                            *)

AcquisitionEnds ==
  /\ Acquiring
  /\ acq' = [acq EXCEPT !.status = "ended"]
  /\ UNCHANGED <<client, served, events, camera, driver, lastError, poller, connected,
                 image, refused, refusals>>

\* run() forgets a stop() that came before it (mutant: it does not).
ForgetStop_Never(p) == p
ForgetStop(p) == [p EXCEPT !.stop = FALSE]

PollerEnter ==
  /\ poller.at = "started"
  /\ poller' = [ForgetStop(poller) EXCEPT !.at = "on"]
  /\ UNCHANGED <<client, served, events, camera, driver, lastError, acq, connected,
                 image, refused, refusals>>

\* It sees the end of an acquisition, or that it is to stop ...
PollerSees ==
  /\ poller.at = "on"
  /\ ~Acquiring \/ poller.stop
  /\ poller' = [poller EXCEPT !.at = "seen"]
  /\ UNCHANGED <<client, served, events, camera, driver, lastError, acq, connected,
                 image, refused, refusals>>

\* ... and emits Camera_IDLE().
PollerEmits ==
  /\ poller.at = "seen"
  /\ poller' = [poller EXCEPT !.at = "off"]
  /\ events' = events \o Saves(connected)
  /\ UNCHANGED <<client, served, camera, driver, lastError, acq, connected,
                 image, refused, refusals>>

\* An image of another region than the members tell is lost, unless it happens to
\* have as many pixels.  The header is written from the members.
SaveFITS ==
  /\ Command("SAVE")
  /\ connected' = 0
  /\ events' = Tail(events)
  /\ \E read \in BOOLEAN :
       /\ acq.status \in {"none", "running", "read", "cleared"} => ~read
       /\ acq.status = "ended" /\ camera["FRAME"] = driver["FRAME"] => read
       /\ lastError' = IF read THEN "OK"
                       ELSE IF Acquiring THEN "ACQUIRING" ELSE "NO_DATA"
       /\ acq' = IF read THEN [acq EXCEPT !.status = "read"] ELSE acq
       /\ image' = [saved |-> read, of |-> acq, label |-> camera, refused |-> refused]
  /\ UNCHANGED <<client, served, camera, driver, poller, refused, refusals>>

-----------------------------------------------------------------------------
\* The server has initialised the camera.
Init ==
  /\ client = NoClient /\ served = 0
  /\ events = <<>>
  /\ driver = Standard
  /\ camera = [k \in Settings \cup {"FITSFILE", "HEADFILE"} |->
                 IF k \in Settings THEN Standard[k] ELSE NoFile]
  /\ lastError = "OK"
  /\ acq = [status |-> "none", id |-> 0, quiet |-> TRUE, watched |-> FALSE]
  /\ poller = [at |-> "off", stop |-> FALSE]
  /\ connected = 0
  /\ image = [saved |-> FALSE, of |-> acq, label |-> camera, refused |-> {}]
  /\ refused = {} /\ refusals = 0

Poller == PollerEnter \/ PollerSees \/ PollerEmits

Next ==
  \/ \E o \in Options : Connect(o)
  \/ SendCommand \/ ClientDies
  \/ ExecuteCommand \/ SaveFITS
  \/ AcquisitionEnds \/ Poller

Spec ==
  /\ Init /\ [][Next]_vars
  /\ WF_vars(ExecuteCommand \/ SaveFITS) /\ WF_vars(Poller) /\ WF_vars(AcquisitionEnds)

-----------------------------------------------------------------------------
(* Properties.                                                             *)

Given(o, k) == k \in DOMAIN o.set

\* An image that nobody disturbed is in the file that its client named, with the
\* header file that it named or else the one named last, was taken with every
\* setting that its client gave, and its header says so; a setting that its client
\* did not give is the one in the header, unless it was refused when another client
\* gave it, or was the exposure time before an INIT.
Honoured ==
  image.saved /\ image.of.quiet =>
    LET o == image.of.opts
    IN /\ image.label["FITSFILE"] = o.fits
       /\ image.label["HEADFILE"] = IF o.hdr # NoFile THEN o.hdr ELSE image.of.hdr
       /\ \A k \in Settings :
            IF Given(o, k)
            THEN /\ image.of.taken[k] = Effective(k, o.set[k])
                 /\ image.label[k] = image.of.taken[k]
            ELSE k \notin image.refused => image.label[k] = image.of.taken[k]

\* While the driver acquires nobody redirects the image: a client that names a file
\* is refused at SHUTTER, which comes first, and leaves (client/main.cpp:493-562).
FileKept ==
  Acquiring => /\ camera["FITSFILE"] = acq.opts.fits
               /\ camera["HEADFILE"] = acq.hdr

\* Whoever comes after its client, an exposure that nobody disturbs and that starts
\* when nothing is left of the one before is saved, unless its region is not the
\* one that the driver took.
Delivered ==
  \A n \in 1..MaxClients :
    (acq.id = n /\ acq.status = "running" /\ acq.watched) ~>
      \/ image.of.id = n /\ (image.saved \/ "FRAME" \in image.refused)
      \/ acq.id = n /\ ~acq.quiet
=============================================================================
