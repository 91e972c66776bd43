# NewtonCam: specifications and proofs

NewtonCam is a server for an Andor Newton CCD camera. A command line client connects over TCP, sets up an exposure and
starts it; the server watches the driver and writes a FITS file; server GUIs show the state. This directory holds TLA+
modules that model it, configurations with which TLC checks small instances, and proofs that TLAPS checks for all
instances. PROJECT.json lists the runs, the theorems, the lines of the code that each definition stands for, the hazards
of the code and the disagreement between the code and its comments that a run exhibits.

## 1. Inventory

| Component | State | Operations | Module |
|---|---|---|---|
| Exposure: slots of `Camera`, `StatusPollingThread`, `SaveFITS` (src/camera) | region, time, clock, file name, `lastError`, `isStopped`, timer, connection of `Camera_IDLE()` | START, STOP, INIT, FITSFILE, FRAME, EXPTIME, timer, saving | Exposure |
| Temperature: `TempPollingThread`, `GetCCDTemperature`, `SetCoolerON/OFF`, other controls | `currentTemperature`, `currentCoolerStatus`, `tempMutex`, `lastError` | GETTEMP, COOLER, INIT, polling | Temperature |
| Sessions: `Server` and the handler's sockets (src/server, src/client) | `newClientConnection`, `clientSocket`, `current_socket`, `receive_queue` | connect, HELLO, command and status, disconnect | Session |
| Packets on the wire: `NetPacket`, `NetPacketHandler` (src/net_protocol) | the packet half read, `receive_queue` | Send, Receive, ReadDataStream | NetPacketStream over PacketChannel |
| State feed: `SendServerState`, `SendServerLog`, `SendPacket`, src/NewtonGUI | `currentStatePacket`, `send_socket_queue` | signals, posted updates, GUI sockets | StateFeed |
| Contents of packets: Info, Cmd, Status, Temp, Hello, Gui | the content and bytes of an object | setters, Send, Receive | PacketContents |
| Client script (src/client) and the settings that outlive a client | the members of `Camera`, the settings of the driver | RATE, GAIN, FRAME, EXPTIME, SHUTTER, FITSFILE, HEADFILE, START, STOP, INIT | Observation |
| Geometry of a frame: `SetFrame`, the buffer of `SaveFITS` | `currentImage_*` | FRAME, INIT, saving | Frame |
| Server program (src/NewtonCam) | `lastError`, `statusPolling`, initial settings | start while clients are served | Startup |
| `ServerGUI`, cam_caps | widgets | display, print | not modelled |

How they interact. The server runs its slots in one thread with an event loop: `ClientConnection`, `ExecuteCommand`,
`ClientDisconnected`, the exposure timer and `SaveFITS` never overlap. Four other activities do overlap with them: the
thread of `NetPacketHandler`, which reads the sockets and posts `PacketIsReceived()`; `StatusPollingThread`, which posts
`Camera_IDLE()`; `TempPollingThread`; and the driver. They share members of `Camera`, of which only the temperature has a
mutex. Posted signals are delivered in order, and may be delivered after what they announced has been undone.

What is hard about it, and what makes each part correct:

* Exposure. START, STOP and INIT race with a poller that begins, looks and returns when the scheduler says so; Qt's
  `start()` is ignored while `run()` has not returned; the settings can change while an exposure runs. Correct means:
  every exposure is read out once, not too early, and has a fate; the header tells the truth; the clock stays sane.
* Temperature. Two threads ask the driver and share the answers; `lastError`, by which commands report success, is shared
  with three threads and not locked. Correct means: no false temperature passes for a real one, success means success, the
  poller survives a re-initialisation, and nobody keeps the mutex.
* Sessions. Who is being served is spread over two flags of the server, a pointer in the handler and signals in flight.
  Correct means: one client at a time, answers go to the one who asked, and the server becomes free again.
* Packets. TCP cuts the bytes anywhere, `Receive` gives up in the middle of a packet, and its waiting calls ReadDataStream
  again from the inside. Correct means: a FIFO channel.
* Contents. Texts are cut and joined at spaces, numbers lose digits, and a packet that cannot be made leaves the one before
  it to be sent. Correct means: what is read is what was set, and the exceptions are known.
* Frames. Binning, clipping and what the driver accepts are computed from unchecked ints. Correct means: a success is what
  was asked for, less the bins that do not fit, and the saved image is of the region in its header.
* Observations. Clients come one after the other, but settings, file names and the running exposure stay. Correct means: an
  image is what its client asked for and is where it wanted it, whoever comes after.
* Start. The camera is initialised in the main thread while the server already executes commands, INIT and START among
  them, and any call of the driver may be refused. Correct means: the configured settings are made, and START meets a poller.
* State feed. Three threads change what is sent, members are read one by one, and one packet is refilled while the sending
  of it is posted or under way. Correct means: a GUI never falls back, and in the end shows the state.

## 2. Modules

Names of the code are kept (`lastError` is `lastError`). A slot of the server thread is one action unless another thread
can interfere inside it; then a variable (`slot`, `task`, `at`) says where it is. A constant that bounds a behaviour is
commented with "bound" where it is declared, and appears in a guard only.

**Exposure.** `drv`, `drvFrame`, `drvTime` and `acq` are the driver. `events` is the queue of the server thread: commands
and `SaveFITS` calls. `Submit` puts a command there; `StartExposure`, `ConnectSave` and `StartPolling` are the parts of
StartExposure; `StopExposure`, `MarkExposure`, `HaltPolling` and `FinishStop` those of StopExposure, cut at AbortAcquisition,
at `isStopped`, at `stop()` and at `disconnect()`, for STOP and for INIT (`forInit`); `InitCamera` to `FinishInit` those of InitCamera.
FRAME and EXPTIME call the driver in one step and are answered with `lastError` in another (`AnswerSetting`), because the
poller may assign it in between. `Init` has the three states that the start of the server may leave: initialised with a
poller, failed, and, with `Faulty`, counted as failed although the driver is initialised, so that there is no poller.
`PollerEnter` ... `PollerReturn` are StatusPollingThread::run. `fate` is a history of what became of each acquisition.
`Patient` says that clients send nothing but STOP while an exposure is running; `Faulty` allows a camera that is absent
or fails, and an allocator and a disk that fail.

**Temperature.** `camera` is what the driver would answer; `Drift` changes it. `Poll...` are TempPollingThread::run, cut at
lock(), at each assignment and at unlock(). A command is a `task` that goes through `Ask` and `Store` (GetCCDTemperature,
cut at the mutex), for INIT through `StopPoller`, `WaitPoller` and `StartPoller`, and ends in `SetStatus`; GETTEMP then
looks at `lastError` again in `SendTemp`. `StatusFails` is the other thread that writes `lastError`.

**Session.** A connection of a client is a member of `Clients`. The clients go through connect, HELLO, and one command at
a time (`ClientStep`). `Accept`, `HelloFails`, `TurnAway`, `Welcome` and `Adopt` are ClientConnection, which waits for
HELLO in the middle; `ReadyRead` and `ClientDisconnected` are signals of the sockets; `ReadDataStream` is the handler's
thread. Packets are whole here and the nested calls of ReadDataStream are left to NetPacketStream. A client may break off
anywhere (`Leave`) or, when no status comes within 30 s, take the OK of the answer before for it (`GiveUp`,
client/main.cpp:48-62) and go on; `hasty` is a history: some client did so while its command was not answered.

**NetPacketStream.** A byte is a pair of a packet and a position. `Send` is MakePacket and Send; `Arrive` is TCP;
`ReadDataStream`, `ReadHeader`, `ReadContent`, `Wait` and `ReadMore` are the handler's thread; `Execute` is the server
taking the packet, with the Reset() that INIT does. waitForReadyRead() of the handler's thread emits readyRead(), and the
connection of server.cpp:288 is then a direct call: `Reenter` begins an inner ReadDataStream, `outer` says where the outer one
waits, `Return` goes back to it. When the inner one completes the packet it announces it and makes a new one (`Announce`); the
outer one still receives into the old object (`stale`, `ReadStale`) and then looks at the new one (`TestPacket`), which has
no error and the id INFO, and announces it too. Qt does not emit readyRead() from within a wait inside of its own
emission, so there are two levels. `spoiled` and `strange` are histories: an inner call has taken bytes; an id was unknown.

**PacketChannel** is the abstract specification; the refinement maps `sent` and `got` to themselves, and `broken`, after
which the channel promises only that what was executed stays so, to `~Intact`, which is `spoiled \/ strange`.

**StateFeed.** The members that GUIs are told of are two fields, whose values are numbers of changes. `ThreadAssigns` and
`ThreadEmits` are the polling threads, `ServerChanges` is whatever a slot of the server thread assigns; `Deliver`,
`ReadMember` and `SendServerState` are SendServerState, cut where another thread can change what it reads. `SendPacket`,
`Write` and `SocketDisconnected` are the handler's thread. A GUI (`GuiConnects`, `GuiListens`, `ServerMsgIsReceived`) has
packets on their way to it and packets in its socket. `torn` is a history: the packet was read while it was written.

**PacketContents.** A text is a sequence of pieces; a numeral is the number it denotes. A sender has one object of some class
and fills it (`Set`) and sends it (`SendPacket`) again and again; a receiver reads what comes as an object of the class it expects
(`Receive`). It assumes that a content without a text fits into a packet (`MaxLength >= 8`). The `...Content` operators are the `Init` methods, the `Parse...` operators the `ParseContent` methods with the
getters. The operations of QString are modelled as its documentation has them, which is external to this code.

**Frame.** One client sends FRAME with any arguments; `SetFrame` computes for each axis the `End`, the binning and the size,
in C++ arithmetic (`Wrap`, `Quotient`, `Remainder`, for arguments of either sign), and asks the driver (`SetImage`). `SaveFITS`
compares the pixels of the members with those of the driver, as ints both. `NoOverflow` says for which arguments the
properties claim anything: binnings that the client lets through (client/main.cpp:196) and a last pixel that is an int.

**Observation.** A client is started with `Options`; its `Script` is the set of commands that it will send, and `Rank` is where
each comes in client/main.cpp: `SendCommand` takes the first of those left. The client waits for each status and leaves at the
first that is not OK (`Continue`). `ExecuteCommand` is the server, a command being
one step (Exposure has the steps inside); `SaveFITS`, `Poller` and `AcquisitionEnds` are the exposure that goes on. `quiet`
is a history: no command touched the settings, the files or the acquisition before it was saved; `watched` is one, too: at
START there was neither a posted SaveFITS nor a poller that had been told to stop or had seen the end.

**Startup.** `pc` says where the main thread and the server's thread are. `InitCamera(t)` is InitCamera in thread `t`, cut at
the calls after which lastError is tested. `Main` is the rest of main(), `Server` the commands; `PollingFails` is a polling
thread that leaves an error in lastError. The driver may refuse any call (`DriverAnswers`): those after Initialize in
`Configure`, whose answers nobody looks at, and those of the settings in `ApplySetting`. Three histories: `clash`, one
thread assigned lastError where the other relied on it, or a call of the main thread met a driver that was not initialised or
not idle; `late`, lastError held an error although the InitCamera of the main thread had come, or was coming, to its end;
`refused`, the settings that the driver refused by itself.

Operators named `X_Something` next to an operator `X` are deliberately wrong variants of `X`. No specification uses them;
each shows a mistake in `X` that a property would notice, and TLC finds that property violated when `X` is replaced.

## 3. Runs

| Run | Question | Bounds and choices |
|---|---|---|
| ExposurePatient | Is every exposure of a well-behaved client saved once, at the right time, with a truthful header, and does each reach a fate? | 2 exposures, so that one follows another; 2 regions; `Patient` |
| ExposureRaces | Do clock, timer, stop mark and connection stay consistent when commands come at any time? | 2 exposures, 1 command waiting |
| ExposureFaulty | And if the camera, the driver, the disk or the allocator fail, or the start left no poller? | 1 exposure; a region and a time (a negative one) that the driver refuses |
| ExposureLost | an exposure that is never saved: a finding | 2 exposures, 1 command waiting |
| Stream | Do packets cut anywhere arrive whole, once, in order, and all of them, as long as inner calls only wait? Can a signal come without a packet? | 3 packets, each an INFO with an empty content, an INIT with two letters, or of unknown id; a header of 2, so that a content may be misread as a header |
| Session | Is one client served at a time, let go when it is gone, and answered while it waits? Does each get its own answers? | 3 connections, one not allowed; 2 commands each |
| Temperature | Are temperature and cooler told truthfully, is the server kept up to date, and is every command answered? | 3 commands, so that an INIT, another INIT and a GETTEMP, or a failure and two more, occur; 1 change of the camera; 1 failure of the status thread |
| StateFeed | Does a GUI end up with the state, and never fall back? | 1 GUI; 2 changes, so that one packet is refilled before it is sent; 2 clients, one after the other |
| Contents | Does the receiver understand what the sender set? | texts of up to two words with spaces in front, between and behind, and one long text; vectors of 0, 1 and 3 numbers; one number that loses digits; contents around the maximal length |
| Frame | Which frames are accepted, what do they read out, when is an image lost? | a detector of 5 by 2 pixels and ints of 6 bits; arguments from a negative one to beyond the detector, and some that overflow; two commands, so that a refused one follows another |
| Observation | Is an image what its client asked for, in the file that it named, and is it saved? | 3 clients; 5 sets of options (with region and time; with rate, unknown gain and header file; with INIT and closed shutter; without a file; `--stop`); 1 refusal of the driver |
| Startup | Which settings are made, and when can START meet no poller? | the four controls of main(), each well or badly configured; 4 commands, so that an INIT, its repetition, a START and another one occur |

Why the bounds are enough: the races are between one command and the remains of the one before it, so two exposures,
three commands or three connections contain them all; the clock needs an exposure time that is no multiple of its tick
(3 and 2); the stream needs an empty content and others, and a packet behind the one that an inner call completes. A time that the
driver takes is in the other runs of Exposure; the theorems ClockCorrect and AnswersCorrect are about all times.

Choices that restrict a run are named constants. `Patient` is how src/client/main.cpp behaves unless it is
killed, gives up waiting or a second client interferes; the runs without it show what it is worth. `AwaitsInit` is src/client/main.cpp
waiting for the status of INIT before it sends anything. `KeyFaults` is FALSE in the runs of Temperature: with TRUE an
error of CFITSIO leaves `tempMutex` locked (camera.cpp:853-886), and nothing that needs it is ever answered again.

GuisKnow excepts two ways in which a GUI of this code does miss the state: bytes of the packet read while SetParams writes
them, and a packet that comes while NewtonGui still waits for the greeting, for which it gets no readyRead()
(newtongui.cpp:90 and 134). It claims nothing while a client is connected: GETTEMP, EXPTIME and every successful call of
the driver change members without a signal, and it is ClientDisconnected that makes up for them (server.cpp:323).

STOP without an initialised camera dereferences a null pointer (camera.cpp:622): in ExposureFaulty, the run in which
there may be no camera, `crashed` becomes TRUE then, and the system stops there.

Where CHECK_DEADLOCK is FALSE the system may really stop: the clients need not send anything more, or (ExposureFaulty)
the process has crashed.

### Fairness

The server thread, the handler's thread and the polling threads are scheduled (weak fairness); Qt delivers what is posted
and its event loop neglects no socket (weak fairness of each signal in Session); TCP delivers; an acquisition ends. A
client that waits takes its status; nothing makes a client send, connect or leave. GETTEMP gets `tempMutex` although the
temperature thread takes it again and again, because that thread sleeps a second or more without it: strong fairness
of `Store`.

Observation assumes the same of the server, the poller and the driver; nothing makes a client come, send or leave.

### What the violation shows

ExposureLost: `start()` is ignored while the thread of the exposure before is still in `run()`. A START served then, after
the SaveFITS that this thread has posted or after a STOP, is answered with success, and its exposure is never saved.

### What else the models reach

These are behaviours of the code that the properties except by name, each with the constant or the condition that does it:

1. An EXPTIME, FRAME or FITSFILE during an exposure changes what SaveFITS writes about it, although the driver refuses
   (`Patient` in Exposure, `quiet` in Observation). The client program sends SHUTTER before FITSFILE, is refused there and
   leaves, so that the file is kept (FileKept); but its RATE to EXPTIME come earlier and have already changed the members.
2. The length of a packet is counted in characters and read as bytes (netpacket.cpp:84 and 224): with a letter of two bytes
   the stream is out of step. Stream takes `Bytes = Chars`.
3. A command of a client that went away is answered to the next client, and a client that gave up waiting takes each late
   answer for that of its next command (`hasty` in Session).
   Nobody waits for ever because of it (Answered).
4. GETTEMP sends false values, "if temperature asking function failed" (server.cpp:507), also when an earlier command left
   an error that nobody reset.
5. FRAME with binning 0 and a start beyond the detector divides by zero and ends the server (AnsweredRight). A frame that
   the driver refuses stays in the members, and the next START saves an image that is lost or has a false header (ImageTruthful).
6. A setting that the driver refused is in the header of later images (`refused` in Observation), and INIT does not set the
   exposure time that the member still has.
7. During the start, and whenever INIT is executed without success before, START and STOP may dereference a null
   `statusPolling` (StartSafe, Window); Exposure has the crash of START too, in the third state of its Init. INIT does so as well when GetStatus fails and its uninitialised result looks like an
   acquisition (camera.cpp:177-181). With `--nogui` the success of the start is reported through an uninitialised pointer
   (main.cpp:442): `crashed` is "gui" then.
8. An error that the poller leaves in `lastError` is answered to a command that succeeded, and an INIT whose Initialize
   succeeded counts as failed (ConnectSave, AnswerSetting and InitFails of Exposure, with `Faulty`). With a GetStatus that
   fails, Camera_IDLE comes while the driver exposes (NoPrematureSave is claimed with `Faulty` FALSE).
9. A SaveFITS may be posted while StopExposure runs, after the exposure is marked and before the disconnect(): StopSticks
   excepts the slots "halt" and "leave", and AbortedMarked says what its image is labelled.
10. A setting that the driver refuses at the start, such as an `init_temp` out of range (main.cpp:254-260, 444), is refused
   unnoticed (`refused` in SettingsMade).
11. A state whose camera status has no word cannot be read by a GUI (StateUnderstood), and a command with an empty vector
    sends the packet before it (SentOrStale).
12. An inner ReadDataStream may complete the packet that the outer one waits for, and replace it; the outer one, at the end
    of its wait, finds a new packet without an error and with the id INFO, and announces it: ExecuteCommand takes a packet
    that nobody sent, and logs its empty text (TestPacket of NetPacketStream). The outer Receive may also go on with its old
    length and swallow bytes of the next packet, after which the stream is out of step. InSync, ImplementsChannel and their
    theorems therefore claim nothing once an inner call has taken bytes. NewtonGui is spared: it connects readyRead() to its
    socket in its own thread, so that its wait is inside of the emission already.
13. When the last driver call of an InitCamera that gets to its end is refused (camera.cpp:321-325), main() finds its error,
    reports "Initialization process failed!" (main.cpp:440), and makes no setting of a camera that is initialised and will take
    exposures (`late` in SettingsMade).

## 4. Proofs

All proofs assume the ASSUME of the module (constants have the kind of value that their comment says), and what a theorem
states as a hypothesis, which is named below.

**ExposureProofs**: `TypeCorrect`, `ClockCorrect`, `TimerCorrect`, `AbortCorrect`, `AnswersCorrect` and `StopCorrect`, for any clients and faults, files, regions, times and bounds. Each property but the first has its own
small inductive invariant on top of the types:
* the clock is changed only with the time or towards 0, so ClockBounded is inductive itself;
* AnswersInv: between the call of the driver and the answer, a success in lastError means that members and driver agree;
  the poller writes only errors;
* TimerInv: while the timer runs, or is about to be started, SaveFITS is connected;
* AbortInv: an aborted acquisition is the driver's last one, and the exposure is marked as stopped unless StopExposure is
  still on its way to that;
* StopInv: once StopExposure has disconnected it, nothing is connected to SaveFITS until the next START; the queue can then only
  lose SaveFITS calls. While StopExposure runs (Stopping) the mark is there and the connection may be.

For patient clients there is one invariant for the rest, `PatientInv`: its theorems assume `Patient /\ ~Faulty`, which
the run ExposurePatient has; for other clients they are false (ExposureLost shows how an exposure is left unwatched).
* Ready: the driver is initialised and the poller exists;
* Queue: while an exposure is `Busy` (the driver acquires, a START is under way, the poller lives or a SaveFITS is posted)
  the queue holds nothing but STOP and SaveFITS, and a START that waits has nothing but STOP behind it;
* Linked: SaveFITS is connected at most once, and only as long as there is something left that will undo it;
* Exposing: while the driver acquires the poller has not been told to stop and has not seen an end.

From it follow `PrematureCorrect`, `OnceCorrect` and `WatchedCorrect`. `HeaderCorrect` adds that members and driver agree on
time and region, and that they, and the file name, do not change while an exposure is busy; it assumes `Accepted` too, because a region or a time that the driver refuses stays in
the members and gets into the header of the next image.

`NoneForgottenCorrect` is the safety part of FateResolved: a pending acquisition is the driver's last one, and the slot that
will watch or stop it has not returned, or the connected poller is in its loop, or a SaveFITS is in the queue; each step
hands it on to the next of these or resolves it. Whatever has it is scheduled by FairSpec.

**SessionProofs**, whatever the clients do: `TypeCorrect` together with Signals (as many posted calls of ExecuteCommand as
packets), without which `Tail` of the queue has no type; `OneClientCorrect` from Single, which says where the owner is during
a slot; and `AnswersToAskerCorrect`: Queue, Owner and, until a client is hasty, Commands together say that all packets and
statuses in flight belong to the one client that waits, who is the owner.

`NeverStuckCorrect` is what Answered and FreedAgain need besides fairness: the handler's thread is told of all that it has not
read of the client that is served (Told), of which nothing came before it was served (Unheard); while a client waits there is
a command or a status on its way, its own or one left behind (Underway), and it is on the wire, read next, announced to the owner,
answered, or the client is just being adopted (Carried); ClientConnection comes to its end, its guest having sent HELLO or
gone (SlotEnds); and a server that is not free is connected to the socket whose end frees it (Heard).

**TemperatureProofs**: `TypeCorrect`, `TempCorrect` and `CoolerCorrect`. The invariant says that as long as `lastError` is
DRV_SUCCESS the command under way has fetched what the camera answered, and the cooler is switched. The status thread can
only spoil `lastError`, so it cannot break this, wherever it interferes.

Two more are about the threads themselves. `MutexCorrect`: the mutex is held just in the critical section of the temperature
thread, and by the server for longer than a step only after an error of CFITSIO. `AliveCorrect`, for `~KeyFaults`: between
commands a thread that was ever created runs and is not to stop. Its invariant says that the thread has ended only while INIT
waits for it or is about to start it, and that a stop which was not forgotten is one that INIT still waits for. This is what
ServerKnows needs besides fairness.

**StateFeedProofs**: `TypeCorrect`, `OrderedCorrect` and `NeverBackwardsCorrect`, for any number of GUIs. NeverBackwards
compares what is shown with what is shown next, which was sent long before; Ordered is what carries it: the members are
not older than the arguments, these not older than the packet, and from there through the network and the socket of each
GUI (Chain) every value is at least as old as the one behind it.

`NothingLostCorrect` is the other half, the safety part of GuisKnow: once no thread and no posted call has anything left
to tell, and no client is connected, the newest packet of every GUI is the state. TellInv says where each difference is
still to be told: one between members and arguments by a signal or a call that has not read the field yet (Noticed), one
between arguments and packet before the server thread does anything else (Filled), one between the packet and the newest one
of a GUI by a posted or running SendPacket that will come to its socket (Queued, Written). Packets are whole there; the model does
not say what the bytes of a torn one are.

**NetPacketStreamProofs**: `TypeCorrect` and `SignalCorrect` for all clients, and for those that keep to `Clean` (they wait for
the status of INIT, letters have one byte and contents fit, as those of this repository do with ASCII texts)
`StreamCorrect`, `InSyncCorrect` and `ChannelCorrect`. SignalCorrect needs nothing of the framing: signals and queue are
counted, and a packet is announced without joining the queue only if its id is unknown, whatever was misread, invented or
swallowed. The others hold until an inner ReadDataStream takes bytes or an id is unknown (`Intact`), with inner calls that begin, wait and return
at any moment. The invariant needs to know which packet a byte belongs
to, although the same packet may be sent more than once: there is a function f from the unread bytes to the places of their packets in `sent`
(Framed), such that around each byte there is the rest of its packet and behind the last byte of a packet there is the first
one of the next (Blocks), and the bytes begin either with a whole packet or, if a header was read, with the content that
it announces (Starts, Continues). Cutting bytes off or adding some moves f along. Bytes read as a header are the
header of one packet only (HeaderInjective), and every step is one of the channel or a stutter. This proves the safety part of
ImplementsChannel; that packets arrive at last stays with TLC.

The second part of the module is about what is in the packets: `CommandsUnderstood`, `AnswersUnderstood`, `StatesUnderstood` and
`SentOrStaleHolds`, for every set of words, numbers and texts of any length. The invariant, ObjectInv, is short: the packet in the
object was made from a request of the object's class that fitted, and what was read is what the expected class makes of such a
packet. The work is in the lemmas about QString: what `trimmed`, `Split` and `Fields` return for a text of which only the
structure is known. A delimiter between two texts separates their fields (FieldsApart), and words that were joined come out as
the fields they went in as (JoinWords). The folds and CHOOSEs of these operators are characterised by their least or
greatest position, which the least number principle of WellFoundedInduction gives, so that no induction over the length of a text is
needed.

**FrameProofs**: `AnsweredCorrect` and `RegionCorrect` for every detector, binning of the driver and width of int, without
hypotheses; `ImageCorrect` for detectors whose pixels an int can count. The lemmas are arithmetic on one axis: the
end that SetFrame computes is within the detector and a whole number of bins after the start (WholeBins), so that the driver
accepts it just when AcceptedFits says so, nothing wraps in it (WrapInt), and the size in the members is the size that the driver
reads out (SizeAgrees). Both rest on `Answered`: the answer is a function of the arguments of the last FRAME.

**ObservationProofs**: `FileKeptCorrect` and `HonouredCorrect`, for any number of clients with any options. The invariant:
* OneCall: the one command in the queue is the first of what its client has left, and that client waits or is gone;
* InOrder: what a client has left is the end of its script;
* Obeyed: for a client that goes on, members and driver have what it has sent, nothing of that was refused, the
  file names are its own, and once it has set the shutter nothing is acquired. START is the last command of a script, so that
  all of this holds of everything that the client was given when its exposure starts;
* Agree: members and driver differ only in a setting that the driver refused;
* Kept: until an undisturbed exposure is saved the members are what its client wanted and the driver took it with. It is not
  implied by Honoured, which speaks only of what has been saved.

`NotForgottenCorrect` is the safety part of Delivered: an exposure that is undisturbed and starts when nothing of the one before
is left keeps a connected poller that takes neither a stop nor an earlier end for its own end, or a call of SaveFITS, which does
not come before the end; if that call saves nothing, the region is one that the driver refused.

**StartupProofs**: `StartSafeCorrect`, `InitTruthfulCorrect` and `SettingsMadeCorrect`, for any list of settings,
configuration and number of commands. Two invariants:
* IInv: a driver that is initialised while there is no poller means that some thread is about to create it (the window),
  or a clash; as long as there is no poller, and so no thread that polls, lastError tells the result of Initialize until it
  is tested, and a success of StartAcquisition is one, again unless there was a clash. An INIT that begins after the start has nobody to clash with, so its success means a poller
  whatever happened before.
* SInv: the main thread leaves InitCamera with a success only if it has created its poller, and without one only if it
  has not or an error came late; from then on every setting is in the rest of the list and not made, or is made or was refused
  (lemmas HeadTail and TailDistinct: the head that is set and the tail that stays are all of the list, and the head does
  not come again). The assumption of Startup says that the settings of main() are distinct.

Only model-checked: liveness (FateResolved, that packets arrive in ImplementsChannel, Answered, FreedAgain, ServerKnows,
GuisKnow, Delivered), which is beyond the provers. Of each of them the safety part is a theorem (NoneForgottenCorrect,
ChannelCorrect, NeverStuckCorrect, AliveCorrect, NothingLostCorrect, NotForgottenCorrect): there is no reachable state in which
what is awaited has been lost. That the steps which are left are then taken, and lead to the end, is what TLC checks under fairness.

## 5. Assumptions and what is left out

* The build without EMULATOR_MODE. Logging, the wording of messages and the layout of FITS headers.
* The driver: an aborted or finished acquisition is idle at once; the exposure time survives Initialize; GetTemperatureF
  does not write its argument when it gives no temperature.
* `wait(2000)` of INIT waits until the thread has ended, except where it never will: a thread sleeps for 1 s at most
  before it looks at `stop_thread`.
* SaveFITS is one step: what it writes is read by no other thread. In Session a command is one step.
* A status that cannot be sent although the socket is open (server.cpp, SEND_STATUS) is not modelled.
* `Reset()` runs in the server thread on the packet of the handler's thread; C++ promises nothing if they overlap. The
  clients of this repository do not make them overlap, and the model does not either. Other members that two threads
  use without a lock are read and written as wholes.
* In StateFeed, a client waits for the answers to its commands before it leaves, so commands are executed while one is
  connected; adding a socket to `send_socket_queue` and going through it do not overlap; SendServerLog is left out.
* In Observation a command is one step and the poller sees the end of an acquisition or its stop at any time after; the
  driver refuses a setting at most `MaxRefusals` times. In Frame the exposure is saved at once. In Startup logging takes time
  but does nothing, and SaveFITS is a command like any other that uses lastError.
* In NetPacketStream an INFO packet joins `receive_queue` as the very object that an outer Receive may still use; only its
  text, which is logged, could differ or be read after it was deleted, and is not followed. After framing was lost the bytes that
  are read as a header give any id and length.
* PacketContents takes only white space of one kind (a space) into account, and numbers either survive rounding or not.
* Not modelled: destructors and shutdown (`shutdownApp` waits 3 s and then deletes a thread that may still run),
  `setInterval` and `setPollingInterval` (called before the threads run), fonts, positions and the log file of the ini file,
  the widgets of ServerGUI and NewtonGUI, which display what they are given, `SendServerLog`, whose two threads on one socket
  are undefined behaviour, and cam_caps, a sequential tool that prints what the driver says.

## 6. Plan

Done: all modules above, and the proofs of section 4. Every invariant and every action property that a run checks is a
theorem, and so is the safety part of every liveness property. What is left:

1. Bounds on how often what is left to do can be handed on (a measure that falls), which would reduce the liveness
   properties to fairness alone.
2. `SendServerLog`, whose two threads on one socket need a model of what QTcpSocket does then, and the bytes of a torn packet.
