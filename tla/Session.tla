------------------------------- MODULE Session -------------------------------
(***************************************************************************)
(* Who may command the camera: connections of clients to class Server      *)
(* (server/server.cpp), the thread of NetPacketHandler that reads their    *)
(* packets, and the client program (client/main.cpp), which sends one      *)
(* command at a time and waits for its status.                             *)
(*                                                                         *)
(* Every connection is a member of Clients of its own.  The packets of a   *)
(* connection are whole here: NetPacketStream says how they become so.     *)
(***************************************************************************)
EXTENDS Naturals, Sequences, FiniteSets

CONSTANTS
  Clients,      \* the connections that are ever made
  Allowed,      \* those from an address in allowed_hosts
  NoClient,     \* the null socket
  MaxCommands   \* bound: commands that a client sends

ASSUME SessionAssumption ==
  /\ IsFiniteSet(Clients)
  /\ Allowed \subseteq Clients
  /\ NoClient \notin Clients
  /\ MaxCommands \in Nat

VARIABLES
  \* ---- the clients and their sockets ----
  client,        \* what a client does: see ClientStates
  greeted,       \* the clients that have sent HELLO
  asked,         \* commands it has sent
  wire,          \* its commands that its socket at the server has not received
  inbox,         \* those received and not read by the handler
  answers,       \* statuses on their way to it, each named by the client
                 \* whose command it answers
  hasty,         \* history: a client went away, or on, with its command unanswered
  \* ---- the server thread ----
  pending,       \* connections that wait for nextPendingConnection()
  slot,          \* "idle", or where ClientConnection is: "hello" or "adopt"
  guest,         \* the socket that ClientConnection serves
  free,          \* newClientConnection
  clientSocket,
  linked,        \* sockets whose disconnected() is connected
  posted,        \* posted calls of ExecuteCommand
  \* ---- NetPacketHandler and its thread ----
  currentSocket, \* current_socket
  wake,          \* ReadDataStream is posted to the handler's thread or runs
  receiveQueue   \* receive_queue; a packet is named by the client that sent it

clientVars == <<client, greeted, asked, hasty>>
socketVars == <<wire, inbox, answers>>
slotVars == <<pending, slot, guest>>
ownerVars == <<free, clientSocket, linked>>
handlerVars == <<currentSocket, wake, receiveQueue>>
vars == <<clientVars, socketVars, slotVars, ownerVars, posted, handlerVars>>

\* Not connected yet; connected; has sent HELLO and waits for the status; may
\* send a command; waits for its status; has closed the connection.
ClientStates == {"out", "dialing", "hello", "ready", "asked", "gone"}

-----------------------------------------------------------------------------
(* The client program.                                                     *)

Connect(c) ==
  /\ client[c] = "out"
  /\ client' = [client EXCEPT ![c] = "dialing"]
  /\ pending' = Append(pending, c)
  /\ UNCHANGED <<greeted, asked, hasty, socketVars, slot, guest, ownerVars, posted,
                 handlerVars>>

SendHello(c) ==
  /\ client[c] = "dialing"
  /\ client' = [client EXCEPT ![c] = "hello"]
  /\ greeted' = greeted \cup {c}
  /\ UNCHANGED <<asked, hasty, socketVars, slotVars, ownerVars, posted,
                 handlerVars>>

SendCommand(c) ==
  /\ client[c] = "ready"
  /\ asked[c] < MaxCommands
  /\ client' = [client EXCEPT ![c] = "asked"]
  /\ asked' = [asked EXCEPT ![c] = @ + 1]
  /\ wire' = [wire EXCEPT ![c] = Append(@, c)]
  /\ UNCHANGED <<greeted, hasty, inbox, answers, slotVars, ownerVars, posted,
                 handlerVars>>

\* SERVER_STATUS: any status that comes is taken for the answer.
TakeStatus(c) ==
  /\ client[c] = "asked"
  /\ answers[c] # <<>>
  /\ answers' = [answers EXCEPT ![c] = Tail(@)]
  /\ client' = [client EXCEPT ![c] = "ready"]
  /\ UNCHANGED <<greeted, asked, hasty, wire, inbox, slotVars, ownerVars, posted,
                 handlerVars>>

\* No status comes in time: isPacketValid() still speaks of the last one, which
\* was an OK, and the client goes on.
GiveUp(c) ==
  /\ client[c] = "asked"
  /\ client' = [client EXCEPT ![c] = "ready"]
  /\ hasty' = TRUE
  /\ UNCHANGED <<greeted, asked, socketVars, slotVars, ownerVars, posted,
                 handlerVars>>

\* The client has nothing more to send, stops on an error that was answered, is
\* killed or loses its connection.
Leave(c) ==
  /\ client[c] \in {"dialing", "hello", "ready", "asked"}
  /\ client' = [client EXCEPT ![c] = "gone"]
  /\ hasty' = (hasty \/ client[c] = "asked")
  /\ UNCHANGED <<greeted, asked, socketVars, slotVars, ownerVars, posted,
                 handlerVars>>

-----------------------------------------------------------------------------
(* The server thread.                                                      *)

\* ClientConnection: the slot waits for HELLO.
Accept ==
  /\ slot = "idle"
  /\ pending # <<>>
  /\ slot' = "hello"
  /\ guest' = Head(pending)
  /\ pending' = Tail(pending)
  /\ UNCHANGED <<clientVars, socketVars, ownerVars, posted, handlerVars>>

\* ClientConnection ends with the socket of its guest closed.
Reject ==
  /\ client' = [client EXCEPT ![guest] = "gone"]
  /\ slot' = "idle"
  /\ UNCHANGED <<greeted, asked, hasty, socketVars, pending, guest, ownerVars,
                 posted, handlerVars>>

\* No HELLO comes, or the socket is found closed when the answer is sent.
HelloFails ==
  /\ slot = "hello"
  /\ client[guest] \in {"dialing", "gone"}
  /\ Reject

\* The server takes the client that it has received HELLO from.
Acceptable == free /\ guest \in Allowed

\* SERVER_ERROR_BUSY or SERVER_ERROR_DENIED.
TurnAway ==
  /\ slot = "hello"
  /\ guest \in greeted
  /\ ~Acceptable
  /\ Reject

\* The OK status is sent: the client may already send a command.
Welcome ==
  /\ slot = "hello"
  /\ guest \in greeted
  /\ Acceptable
  /\ client' = [client EXCEPT ![guest] = IF @ = "hello" THEN "ready" ELSE @]
  /\ slot' = "adopt"
  /\ UNCHANGED <<greeted, asked, hasty, socketVars, pending, guest, ownerVars,
                 posted, handlerVars>>

\* newClientConnection = false (mutant: it stays true).
Occupy_Not == UNCHANGED free
Occupy == free' = FALSE

\* SetSocket (mutant: the handler keeps the old socket).
SetSocket_Not == UNCHANGED currentSocket
SetSocket == currentSocket' = guest

Adopt ==
  /\ slot = "adopt"
  /\ Occupy
  /\ clientSocket' = guest
  /\ SetSocket
  /\ linked' = linked \cup {guest}
  /\ slot' = "idle"
  /\ UNCHANGED <<clientVars, socketVars, pending, guest, posted, wake,
                 receiveQueue>>

\* The event loop finds data on the socket of c: readyRead().
ReadyRead(c) ==
  /\ slot = "idle"
  /\ c \in linked
  /\ wire[c] # <<>>
  /\ inbox' = [inbox EXCEPT ![c] = @ \o wire[c]]
  /\ wire' = [wire EXCEPT ![c] = <<>>]
  /\ wake' = TRUE
  /\ UNCHANGED <<clientVars, answers, slotVars, ownerVars, posted,
                 currentSocket, receiveQueue>>

\* newClientConnection = true (mutant: the server stays busy).
Release_Not == UNCHANGED free
Release == free' = TRUE

\* The event loop finds the socket of c closed: ClientDisconnected().  Reset()
\* discards a packet that is half read; receive_queue and the posted calls stay.
ClientDisconnected(c) ==
  /\ slot = "idle"
  /\ c \in linked
  /\ client[c] = "gone"
  /\ wire[c] = <<>>
  /\ linked' = linked \ {c}
  /\ Release
  /\ UNCHANGED <<clientVars, socketVars, slotVars, clientSocket, posted,
                 handlerVars>>

\* ExecuteCommand and SEND_STATUS(clientSocket); on a closed socket the status
\* is lost.
ExecuteCommand ==
  /\ slot = "idle"
  /\ posted > 0
  /\ posted' = posted - 1
  /\ receiveQueue' = Tail(receiveQueue)
  /\ answers' = IF clientSocket \in linked
                THEN [answers EXCEPT ![clientSocket] =
                        Append(@, Head(receiveQueue))]
                ELSE answers
  /\ UNCHANGED <<clientVars, wire, inbox, slotVars, ownerVars, currentSocket,
                 wake>>

-----------------------------------------------------------------------------
(* The handler's thread.                                                   *)

\* ReadDataStream reads from current_socket, whoever's that is by now, until
\* nothing is left.
ReadDataStream ==
  /\ wake
  /\ IF currentSocket # NoClient /\ inbox[currentSocket] # <<>>
     THEN /\ receiveQueue' = Append(receiveQueue, Head(inbox[currentSocket]))
          /\ inbox' = [inbox EXCEPT ![currentSocket] = Tail(@)]
          /\ posted' = posted + 1
          /\ UNCHANGED wake
     ELSE /\ wake' = FALSE
          /\ UNCHANGED <<receiveQueue, inbox, posted>>
  /\ UNCHANGED <<clientVars, wire, answers, slotVars, ownerVars, currentSocket>>

-----------------------------------------------------------------------------
Init ==
  /\ client = [c \in Clients |-> "out"] /\ greeted = {}
  /\ asked = [c \in Clients |-> 0] /\ hasty = FALSE
  /\ wire = [c \in Clients |-> <<>>]
  /\ inbox = [c \in Clients |-> <<>>]
  /\ answers = [c \in Clients |-> <<>>]
  /\ pending = <<>> /\ slot = "idle" /\ guest = NoClient
  /\ free = TRUE /\ clientSocket = NoClient /\ linked = {}
  /\ posted = 0
  /\ currentSocket = NoClient /\ wake = FALSE /\ receiveQueue = <<>>

ClientStep(c) ==
  \/ Connect(c) \/ SendHello(c) \/ SendCommand(c)
  \/ TakeStatus(c) \/ GiveUp(c) \/ Leave(c)

ServerThread ==
  \/ Accept \/ HelloFails \/ TurnAway \/ Welcome \/ Adopt
  \/ \E c \in Clients : ReadyRead(c) \/ ClientDisconnected(c)
  \/ ExecuteCommand

Next ==
  \/ \E c \in Clients : ClientStep(c)
  \/ ServerThread
  \/ ReadDataStream

Spec == Init /\ [][Next]_vars

\* The threads of the server run, its event loop neglects no socket, and a
\* client that waits for a status takes it.
Fairness ==
  /\ WF_vars(ServerThread)
  /\ \A c \in Clients : WF_vars(ReadyRead(c)) /\ WF_vars(ClientDisconnected(c))
  /\ WF_vars(ExecuteCommand)
  /\ WF_vars(ReadDataStream)
  /\ \A c \in Clients : WF_vars(TakeStatus(c))

FairSpec == Spec /\ Fairness

-----------------------------------------------------------------------------
\* The types of all variables.
TypeOK ==
  /\ client \in [Clients -> ClientStates] /\ greeted \subseteq Clients
  /\ asked \in [Clients -> 0..MaxCommands] /\ hasty \in BOOLEAN
  /\ {wire, inbox, answers} \subseteq [Clients -> Seq(Clients)]
  /\ {pending, receiveQueue} \subseteq Seq(Clients)
  /\ slot \in {"idle", "hello", "adopt"}
  /\ {guest, clientSocket, currentSocket} \subseteq Clients \cup {NoClient}
  /\ free \in BOOLEAN /\ wake \in BOOLEAN
  /\ linked \subseteq Clients
  /\ posted \in Nat

\* One client at a time: the server is free exactly when it has seen the last
\* client go, and otherwise the statuses and the handler belong to the one
\* client whose socket is open (server.cpp:232, 276-288, 317-321).
OneClient ==
  slot # "adopt" =>
    IF free THEN linked = {}
    ELSE linked = {clientSocket} /\ currentSocket = clientSocket

\* As long as every client waits for its answers, a status reaches the client
\* whose command it is the status of (server.cpp:559).
AnswersToAsker ==
  hasty \/ \A c \in Clients : \A i \in DOMAIN answers[c] : answers[c][i] = c

\* No client that stays waits forever, whoever else has gone or gone on
\* (server.cpp:232-321, 559).
Answered == \A c \in Clients : client[c] = "asked" ~> client[c] # "asked"

\* The server does not stay busy with a client that has gone.
FreedAgain ==
  \A c \in Clients :
    (~free /\ clientSocket = c /\ client[c] = "gone") ~> free
=============================================================================
