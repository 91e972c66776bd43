------------------------------ MODULE StateFeed ------------------------------
(***************************************************************************)
(* What server GUIs are told of the camera.  Every signal of a change makes *)
(* the server thread call SendServerState (server/server.cpp), which fills  *)
(* one packet and has the thread of NetPacketHandler send it to the sockets *)
(* of send_socket_queue (net_protocol/netpackethandler.cpp); a GUI shows    *)
(* what it receives (NewtonGUI/newtongui.cpp).                              *)
(*                                                                          *)
(* The state has two fields: "error" is lastError, and "temp" stands for    *)
(* the temperature, the cooler, the clock and the status.  A value is the   *)
(* number of the change that made it.                                       *)
(***************************************************************************)
EXTENDS Naturals, Sequences, SequencesExt, FiniteSets

CONSTANTS
  Guis,         \* the GUIs that ever connect
  MaxChanges,   \* bound: changes of the state
  MaxSessions   \* bound: command clients

ASSUME StateFeedAssumption == MaxChanges \in Nat /\ MaxSessions \in Nat

Fields == {"error", "temp"}
State == [Fields -> 0..MaxChanges]
Default == [f \in Fields |-> 0]

VARIABLES
  \* ---- the camera's members and the threads that change them ----
  state,
  telling,   \* telling[f]: the thread of f has changed f and not emitted yet
  posted,    \* signals of the threads, posted to the server thread
  \* ---- the server thread ----
  client,    \* a command client is connected
  sessions,
  phase,     \* where SendServerState is; "idle": in the event loop
  args,      \* the arguments of SetParams
  packet,    \* currentStatePacket
  \* ---- the handler's thread ----
  updates,   \* posted calls of SendPacket
  sockets,   \* send_socket_queue
  sending,   \* the sockets that SendPacket has still to serve
  torn,      \* history: the packet was read while it was written
  \* ---- the GUIs ----
  gui,       \* "out", "hello": connected but not listening, "on", "gone"
  net,       \* packets on their way to it
  buffer,    \* packets in its socket
  wake,      \* a readyRead() is posted to its handler, or it reads on
  shown      \* what it shows

threadVars == <<telling, posted>>
serverVars == <<client, sessions, phase, args, packet>>
handlerVars == <<updates, sockets, sending, torn>>
guiVars == <<gui, net, buffer, wake, shown>>
vars == <<state, threadVars, serverVars, handlerVars, guiVars>>

\* "call": about to read the members; a field: only that one is left to read;
\* "fill": SetParams changes the packet.
Phases == {"idle", "call", "fill"} \cup Fields

-----------------------------------------------------------------------------
(* Changes.                                                                *)

Change(f) ==
  /\ state["error"] + state["temp"] < MaxChanges
  /\ state' = [state EXCEPT ![f] = @ + 1]

\* TempPollingThread and StatusPollingThread: the member is assigned ...
ThreadAssigns(f) ==
  /\ ~telling[f]
  /\ Change(f)
  /\ telling' = [telling EXCEPT ![f] = TRUE]
  /\ UNCHANGED <<posted, serverVars, handlerVars, guiVars>>

\* ... and the signal is emitted, which posts it.
ThreadEmits(f) ==
  /\ telling[f]
  /\ telling' = [telling EXCEPT ![f] = FALSE]
  /\ posted' = posted + 1
  /\ UNCHANGED <<state, serverVars, handlerVars, guiVars>>

\* The temperature thread has the mutex from before the change until after the
\* signal.
Locked(f) == f = "temp" /\ telling[f]

\* A slot of the server thread changes something.  The timer and SaveFITS emit a
\* signal afterwards; a command need not: GETTEMP, EXPTIME, and every call of
\* the driver that succeeds and so resets lastError, emit none.
ServerChanges(f) ==
  /\ phase = "idle"
  /\ ~Locked(f)
  /\ Change(f)
  /\ phase' \in IF client THEN {"idle", "call"} ELSE {"call"}
  /\ UNCHANGED <<threadVars, client, sessions, args, packet, handlerVars, guiVars>>

ClientConnection ==
  /\ phase = "idle"
  /\ ~client
  /\ sessions < MaxSessions
  /\ client' = TRUE
  /\ sessions' = sessions + 1
  /\ UNCHANGED <<state, threadVars, phase, args, packet, handlerVars, guiVars>>

\* CameraError is emitted when a client has gone (mutant: it is not).
EmitError_Not == UNCHANGED phase
EmitError == phase' = "call"

ClientDisconnected ==
  /\ phase = "idle"
  /\ client
  /\ client' = FALSE
  /\ EmitError
  /\ UNCHANGED <<state, threadVars, sessions, args, packet, handlerVars, guiVars>>

-----------------------------------------------------------------------------
(* SendServerState.                                                        *)

\* A signal of another thread is delivered.
Deliver ==
  /\ phase = "idle"
  /\ posted > 0
  /\ posted' = posted - 1
  /\ phase' = "call"
  /\ UNCHANGED <<state, telling, client, sessions, args, packet, handlerVars,
                 guiVars>>

\* The members are read, in an order that C++ leaves open.
ReadMember(f) ==
  /\ phase \in {"call", f}
  /\ args' = [args EXCEPT ![f] = state[f]]
  /\ \E h \in Fields \ {f} : phase' = IF phase = f THEN "fill" ELSE h
  /\ UNCHANGED <<state, threadVars, client, sessions, packet, handlerVars, guiVars>>

\* SetParams, and UpdateRemoteGui, which posts a SendPacket.
SendServerState ==
  /\ phase = "fill"
  /\ packet' = args
  /\ updates' = updates + 1
  /\ phase' = "idle"
  /\ UNCHANGED <<state, threadVars, client, sessions, args, sockets, sending,
                 torn, guiVars>>

-----------------------------------------------------------------------------
(* The handler's thread.                                                   *)

SendPacket ==
  /\ sending = <<>>
  /\ updates > 0
  /\ updates' = updates - 1
  /\ sending' = sockets
  /\ UNCHANGED <<state, threadVars, serverVars, sockets, torn, guiVars>>

\* The bytes of the packet are read for one socket; nothing keeps the server
\* thread from changing them meanwhile.  A socket that was closed takes none.
\* (Mutant: new packets overtake what the socket has not sent yet.)
Queue_First(s, p) == <<p>> \o s
Queue(s, p) == Append(s, p)

Write ==
  /\ sending # <<>>
  /\ LET g == Head(sending)
     IN net' = IF gui[g] = "gone" THEN net
               ELSE [net EXCEPT ![g] = Queue(@, packet)]
  /\ sending' = Tail(sending)
  /\ torn' = (torn \/ phase = "fill")
  /\ UNCHANGED <<state, threadVars, serverVars, updates, sockets, gui, buffer,
                 wake, shown>>

\* The socket is found in the queue and removed.
SocketDisconnected(g) ==
  /\ sending = <<>>
  /\ gui[g] = "gone"
  /\ \E i \in DOMAIN sockets :
       /\ sockets[i] = g
       /\ sockets' = RemoveAt(sockets, i)
  /\ UNCHANGED <<state, threadVars, serverVars, updates, sending, torn, guiVars>>

-----------------------------------------------------------------------------
(* The GUIs.                                                               *)

\* ClientConnection of a GUI, after the greeting: the state is sent at once.
GuiConnects(g) ==
  /\ phase = "idle"
  /\ gui[g] = "out"
  /\ gui' = [gui EXCEPT ![g] = "hello"]
  /\ sockets' = Append(sockets, g)
  /\ phase' = "call"
  /\ UNCHANGED <<state, threadVars, client, sessions, args, packet, updates,
                 sending, torn, net, buffer, wake, shown>>

\* readyRead() is connected when the greeting is done; what is in the socket
\* already causes no signal any more.
GuiListens(g) ==
  /\ gui[g] = "hello"
  /\ gui' = [gui EXCEPT ![g] = "on"]
  /\ UNCHANGED <<state, threadVars, serverVars, handlerVars, net, buffer, wake,
                 shown>>

GuiLeaves(g) ==
  /\ gui[g] = "on"
  /\ gui' = [gui EXCEPT ![g] = "gone"]
  /\ UNCHANGED <<state, threadVars, serverVars, handlerVars, net, buffer, wake,
                 shown>>

\* A packet reaches the socket (external: TCP).
Arrive(g) ==
  /\ gui[g] \in {"hello", "on"}
  /\ net[g] # <<>>
  /\ buffer' = [buffer EXCEPT ![g] = Append(@, Head(net[g]))]
  /\ net' = [net EXCEPT ![g] = Tail(@)]
  /\ wake' = [wake EXCEPT ![g] = gui[g] = "on"]
  /\ UNCHANGED <<state, threadVars, serverVars, handlerVars, gui, shown>>

\* ReadDataStream, which reads on while the socket has something, and
\* ServerMsgIsReceived.
ServerMsgIsReceived(g) ==
  /\ gui[g] = "on"
  /\ wake[g] /\ buffer[g] # <<>>
  /\ shown' = [shown EXCEPT ![g] = Head(buffer[g])]
  /\ buffer' = [buffer EXCEPT ![g] = Tail(@)]
  /\ wake' = [wake EXCEPT ![g] = Len(buffer[g]) > 1]
  /\ UNCHANGED <<state, threadVars, serverVars, handlerVars, gui, net>>

-----------------------------------------------------------------------------
Init ==
  /\ state = Default
  /\ telling = [f \in Fields |-> FALSE] /\ posted = 0
  /\ client = FALSE /\ sessions = 0
  /\ phase = "idle" /\ args = Default /\ packet = Default
  /\ updates = 0 /\ sockets = <<>> /\ sending = <<>> /\ torn = FALSE
  /\ gui = [g \in Guis |-> "out"]
  /\ net = [g \in Guis |-> <<>>] /\ buffer = [g \in Guis |-> <<>>]
  /\ wake = [g \in Guis |-> FALSE]
  /\ shown = [g \in Guis |-> Default]

ServerThread == Deliver \/ SendServerState \/ \E f \in Fields : ReadMember(f)

Handler == SendPacket \/ Write \/ \E g \in Guis : SocketDisconnected(g)

GuiStep(g) == GuiListens(g) \/ Arrive(g) \/ ServerMsgIsReceived(g)

Next ==
  \/ \E f \in Fields : ThreadAssigns(f) \/ ThreadEmits(f) \/ ServerChanges(f)
  \/ ClientConnection \/ ClientDisconnected
  \/ ServerThread
  \/ Handler
  \/ \E g \in Guis : GuiConnects(g) \/ GuiLeaves(g) \/ GuiStep(g)

Spec == Init /\ [][Next]_vars

\* Every thread runs, and TCP delivers.
Fairness ==
  /\ \A f \in Fields : WF_vars(ThreadEmits(f))
  /\ WF_vars(ServerThread) /\ WF_vars(Handler)
  /\ \A g \in Guis : WF_vars(GuiListens(g)) /\ WF_vars(Arrive(g))
                     /\ WF_vars(ServerMsgIsReceived(g))

FairSpec == Spec /\ Fairness

-----------------------------------------------------------------------------
\* The types of all variables.
TypeOK ==
  /\ {state, args, packet} \subseteq State
  /\ telling \in [Fields -> BOOLEAN] /\ posted \in Nat
  /\ client \in BOOLEAN /\ sessions \in 0..MaxSessions
  /\ phase \in Phases
  /\ updates \in Nat /\ torn \in BOOLEAN
  /\ {sockets, sending} \subseteq Seq(Guis)
  /\ gui \in [Guis -> {"out", "hello", "on", "gone"}]
  /\ {net, buffer} \subseteq [Guis -> Seq(State)]
  /\ wake \in [Guis -> BOOLEAN]
  /\ shown \in [Guis -> State]

\* While no client is connected, a GUI that stays shows the state of the server
\* in the end: commands that change it silently are made up for when their
\* client goes (server.cpp:323), and that one packet is refilled while the
\* sending of it is posted or under way loses nothing but values that are out of
\* date.  There are two ways to fail: the bytes were read while they were written
\* (torn), or the last packet came before the GUI listened (newtongui.cpp:134),
\* and stays unread until another one comes.
GuisKnow ==
  <>[](\A g \in Guis :
         gui[g] = "on" /\ ~client =>
           \/ torn
           \/ shown[g] = state
           \/ ~wake[g] /\ buffer[g] # <<>> /\ Last(buffer[g]) = state)

\* No GUI falls back to an older value, though the members are read one by one
\* while other threads change them, and a packet is sent to one GUI after the
\* other while it is refilled (server.cpp:628-639, netpackethandler.cpp:168-181).
NeverBackwards ==
  [][\A g \in Guis : \A f \in Fields : shown'[g][f] >= shown[g][f]]_vars
=============================================================================
