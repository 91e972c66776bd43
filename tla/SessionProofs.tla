---------------------------- MODULE SessionProofs ----------------------------
(***************************************************************************)
(* Proofs about Session, for any number of connections.                    *)
(***************************************************************************)
EXTENDS Session, TLAPS

LEMMA AppendType ==
  ASSUME NEW S, NEW s \in Seq(S), NEW e \in S
  PROVE  /\ Append(s, e) \in Seq(S)
         /\ Len(Append(s, e)) = Len(s) + 1
         /\ Append(s, e)[Len(s) + 1] = e
         /\ Append(s, e) # <<>>
         /\ \A i \in 1..Len(s) : Append(s, e)[i] = s[i]
  OBVIOUS

\* A sequence loses its head, or is extended, without new elements.
LEMMA TailType ==
  ASSUME NEW S, NEW s \in Seq(S), s # <<>>
  PROVE  /\ Head(s) \in S /\ Tail(s) \in Seq(S) /\ Len(s) > 0
         /\ Len(Tail(s)) = Len(s) - 1
         /\ s[1] = Head(s)
         /\ \A i \in 1..Len(Tail(s)) : Tail(s)[i] = s[i + 1]
  OBVIOUS

-----------------------------------------------------------------------------
\* Every call of ExecuteCommand finds a packet: without this the types are not
\* kept, because ExecuteCommand takes the head of receive_queue untested; and a
\* slot that runs has a guest.
Signals ==
  /\ posted = Len(receiveQueue)
  /\ slot # "idle" => guest \in Clients

LEMMA TypeInit == Init => TypeOK /\ Signals
<1> SUFFICES ASSUME Init PROVE TypeOK /\ Signals
  OBVIOUS
<1>1. <<>> \in Seq(Clients) /\ Len(<<>>) = 0
  OBVIOUS
<1>2. client \in [Clients -> ClientStates] /\ asked \in [Clients -> 0..MaxCommands]
  BY SessionAssumption DEF Init, ClientStates
<1>3. {wire, inbox, answers} \subseteq [Clients -> Seq(Clients)]
  BY <1>1 DEF Init
<1>4. pending \in Seq(Clients) /\ receiveQueue \in Seq(Clients)
      /\ posted = Len(receiveQueue)
  BY <1>1 DEF Init
<1>5. /\ greeted \subseteq Clients /\ linked \subseteq Clients
      /\ {guest, clientSocket, currentSocket} \subseteq Clients \cup {NoClient}
      /\ slot = "idle" /\ posted \in Nat
      /\ {free, wake, hasty} \subseteq BOOLEAN
  BY DEF Init
<1> QED BY <1>2, <1>3, <1>4, <1>5 DEF TypeOK, Signals

LEMMA TypeStep ==
  ASSUME TypeOK, Signals, [Next]_vars
  PROVE  TypeOK' /\ Signals'
<1> USE DEF Signals
<1>1. ASSUME NEW c \in Clients, ClientStep(c) PROVE TypeOK' /\ Signals'
  <2>1. CASE Connect(c)
    <3>1. pending' \in Seq(Clients)
      BY <2>1, AppendType DEF Connect, TypeOK
    <3>2. client' \in [Clients -> ClientStates]
      BY <2>1 DEF Connect, TypeOK, ClientStates
    <3> QED BY <2>1, <3>1, <3>2 DEF Connect, TypeOK, ClientStates, socketVars, ownerVars, handlerVars
  <2>2. CASE SendHello(c)
    BY <2>2 DEF SendHello, TypeOK, ClientStates, socketVars, slotVars, ownerVars,
                handlerVars
  <2>3. CASE SendCommand(c)
    <3>1. wire' \in [Clients -> Seq(Clients)]
      BY <2>3, AppendType DEF SendCommand, TypeOK
    <3>2. client' \in [Clients -> ClientStates]
      BY <2>3 DEF SendCommand, TypeOK, ClientStates
    <3>3. asked' \in [Clients -> 0..MaxCommands]
      <4>1. asked[c] \in 0..MaxCommands /\ asked[c] < MaxCommands
        BY <2>3 DEF SendCommand, TypeOK
      <4>2. asked[c] + 1 \in 0..MaxCommands
        BY <4>1, SessionAssumption
      <4> QED BY <2>3, <4>2 DEF SendCommand, TypeOK
    <3> QED BY <2>3, <3>1, <3>2, <3>3
            DEF SendCommand, TypeOK, ClientStates, slotVars, ownerVars, handlerVars
  <2>4. CASE TakeStatus(c)
    <3>1. answers' \in [Clients -> Seq(Clients)]
      BY <2>4, TailType DEF TakeStatus, TypeOK
    <3> QED BY <2>4, <3>1 DEF TakeStatus, TypeOK, ClientStates, slotVars,
                              ownerVars, handlerVars
  <2>5. CASE GiveUp(c) \/ Leave(c)
    BY <2>5 DEF GiveUp, Leave, TypeOK, ClientStates, socketVars, slotVars,
                ownerVars, handlerVars
  <2> QED BY <1>1, <2>1, <2>2, <2>3, <2>4, <2>5 DEF ClientStep
<1>2. CASE Accept
  <2>1. pending' \in Seq(Clients) /\ guest' \in Clients
    BY <1>2, TailType DEF Accept, TypeOK
  <2> QED BY <1>2, <2>1 DEF Accept, TypeOK, clientVars, socketVars, ownerVars,
                        handlerVars
<1>3. CASE HelloFails \/ TurnAway
  BY <1>3 DEF HelloFails, TurnAway, Reject, TypeOK, ClientStates, socketVars,
              ownerVars, handlerVars
<1>4. CASE Welcome
  <2>1. client' \in [Clients -> ClientStates]
    BY <1>4 DEF Welcome, TypeOK, ClientStates
  <2> QED BY <1>4, <2>1 DEF Welcome, TypeOK, socketVars, ownerVars, handlerVars
<1>5. CASE Adopt
  <2>1. guest \in Clients
    BY <1>5 DEF Adopt
  <2>2. linked' \subseteq Clients
    BY <1>5, <2>1 DEF Adopt, TypeOK
  <2> QED BY <1>5, <2>1, <2>2 DEF Adopt, Occupy, SetSocket, TypeOK, clientVars, socketVars
<1>6. ASSUME NEW c \in Clients, ReadyRead(c) PROVE TypeOK' /\ Signals'
  <2>1. inbox[c] \o wire[c] \in Seq(Clients)
    BY DEF TypeOK
  <2>2. /\ inbox' \in [Clients -> Seq(Clients)]
        /\ wire' \in [Clients -> Seq(Clients)]
    <3>1. /\ inbox \in [Clients -> Seq(Clients)]
          /\ wire \in [Clients -> Seq(Clients)]
          /\ <<>> \in Seq(Clients)
      BY DEF TypeOK
    <3>2. /\ inbox' = [inbox EXCEPT ![c] = inbox[c] \o wire[c]]
          /\ wire' = [wire EXCEPT ![c] = <<>>]
      BY <1>6 DEF ReadyRead
    <3> QED BY <2>1, <3>1, <3>2
  <2> QED BY <1>6, <2>2 DEF ReadyRead, TypeOK, clientVars, slotVars, ownerVars
<1>7. ASSUME NEW c \in Clients, ClientDisconnected(c)
      PROVE  TypeOK' /\ Signals'
  BY <1>7 DEF ClientDisconnected, Release, TypeOK, clientVars, socketVars,
              slotVars, handlerVars
<1>8. CASE ExecuteCommand
  <2>1. receiveQueue \in Seq(Clients) /\ receiveQueue # <<>>
    BY <1>8 DEF ExecuteCommand, TypeOK
  <2>2. Head(receiveQueue) \in Clients /\ receiveQueue' \in Seq(Clients)
        /\ posted' \in Nat /\ posted' = Len(receiveQueue')
    BY <1>8, <2>1, TailType DEF ExecuteCommand, TypeOK
  <2>3. answers' \in [Clients -> Seq(Clients)]
    <3>1. \A c \in Clients :
            Append(answers[c], Head(receiveQueue)) \in Seq(Clients)
      BY <2>2 DEF TypeOK
    <3> QED BY <1>8, <3>1 DEF ExecuteCommand, TypeOK
  <2> QED BY <1>8, <2>2, <2>3 DEF ExecuteCommand, TypeOK, clientVars, slotVars,
                                  ownerVars
<1>9. CASE ReadDataStream
  <2>1. CASE currentSocket # NoClient /\ inbox[currentSocket] # <<>>
    <3>1. currentSocket \in Clients /\ inbox[currentSocket] \in Seq(Clients)
      BY <2>1 DEF TypeOK
    <3>2. /\ Head(inbox[currentSocket]) \in Clients
          /\ Tail(inbox[currentSocket]) \in Seq(Clients)
      BY <2>1, <3>1, TailType
    <3>3. /\ receiveQueue' \in Seq(Clients) /\ posted' \in Nat
          /\ posted' = Len(receiveQueue')
      <4>1. /\ receiveQueue' = Append(receiveQueue, Head(inbox[currentSocket]))
            /\ posted' = posted + 1
        BY <1>9, <2>1 DEF ReadDataStream
      <4>2. receiveQueue \in Seq(Clients) /\ posted \in Nat
        BY DEF TypeOK
      <4> QED BY <3>2, <4>1, <4>2, AppendType
    <3>4. inbox' \in [Clients -> Seq(Clients)]
      BY <1>9, <2>1, <3>1, <3>2 DEF ReadDataStream, TypeOK
    <3> QED BY <1>9, <2>1, <3>3, <3>4 DEF ReadDataStream, TypeOK, clientVars,
                                          slotVars, ownerVars
  <2>2. CASE ~(currentSocket # NoClient /\ inbox[currentSocket] # <<>>)
    BY <1>9, <2>2 DEF ReadDataStream, TypeOK, clientVars, slotVars, ownerVars
  <2> QED BY <2>1, <2>2
<1>10. CASE UNCHANGED vars
  BY <1>10 DEF vars, TypeOK, clientVars, socketVars, slotVars, ownerVars,
               handlerVars
<1> QED BY <1>1, <1>2, <1>3, <1>4, <1>5, <1>6, <1>7, <1>8, <1>9, <1>10
        DEF Next, ServerThread

\* Whatever the clients do and however the two threads interleave, every
\* variable keeps its type, and no posted call of ExecuteCommand meets an empty
\* receive_queue (server.cpp:329).
THEOREM TypeCorrect == Spec => [](TypeOK /\ Signals)
BY TypeInit, TypeStep, PTL DEF Spec

-----------------------------------------------------------------------------
\* OneClient with the moment inside ClientConnection at which it is broken:
\* the guest is welcome and nobody else is served.
Single ==
  /\ OneClient
  /\ slot = "adopt" => free /\ linked = {}

LEMMA SingleStep ==
  ASSUME TypeOK, Single, [Next]_vars
  PROVE  Single'
<1> USE DEF Single, OneClient
<1>1. ASSUME NEW c \in Clients, ClientStep(c) PROVE Single'
  BY <1>1 DEF ClientStep, Connect, SendHello, SendCommand, TakeStatus, GiveUp,
              Leave, slotVars, ownerVars, handlerVars
<1>2. CASE Accept \/ HelloFails \/ TurnAway
  BY <1>2 DEF Accept, HelloFails, TurnAway, Reject, ownerVars, handlerVars
<1>3. CASE Welcome
  BY <1>3 DEF Welcome, Acceptable, ownerVars, handlerVars
<1>4. CASE Adopt
  <2>1. linked' = {guest} /\ clientSocket' = guest /\ currentSocket' = guest
        /\ ~free'
    BY <1>4 DEF Adopt, Occupy, SetSocket
  <2> QED BY <1>4, <2>1 DEF Adopt
<1>5. ASSUME NEW c \in Clients, ReadyRead(c) PROVE Single'
  BY <1>5 DEF ReadyRead, slotVars, ownerVars
<1>6. ASSUME NEW c \in Clients, ClientDisconnected(c) PROVE Single'
  <2>1. slot = "idle" /\ linked = {clientSocket} /\ c = clientSocket
    BY <1>6 DEF ClientDisconnected
  <2>2. linked' = {} /\ free' /\ slot' = slot
    BY <1>6, <2>1 DEF ClientDisconnected, Release, slotVars
  <2> QED BY <2>1, <2>2
<1>7. CASE ExecuteCommand \/ ReadDataStream
  BY <1>7 DEF ExecuteCommand, ReadDataStream, slotVars, ownerVars
<1>8. CASE UNCHANGED vars
  BY <1>8 DEF vars, slotVars, ownerVars, handlerVars
<1> QED BY <1>1, <1>2, <1>3, <1>4, <1>5, <1>6, <1>7, <1>8
        DEF Next, ServerThread

\* The server serves one client at a time, however many connect and whenever
\* they go (server.cpp:232, 276-288, 317-321).
THEOREM OneClientCorrect == Spec => []OneClient
<1>1. Init => Single
  BY DEF Init, Single, OneClient
<1>2. Single => OneClient
  BY DEF Single
<1> QED BY TypeCorrect, SingleStep, <1>1, <1>2, PTL DEF Spec

-----------------------------------------------------------------------------
\* What client[c] says of a connection that ClientConnection has not ended for.
Fresh == {"dialing", "hello", "gone"}

\* The connections that wait are distinct and have not been served; the guest
\* is none of them.
Queue ==
  /\ \A i \in 1..Len(pending) : client[pending[i]] \in Fresh
  /\ \A i, j \in 1..Len(pending) : pending[i] = pending[j] => i = j
  /\ slot # "idle" => \A i \in 1..Len(pending) : pending[i] # guest
  /\ slot = "hello" => guest \in Clients /\ client[guest] \in Fresh
  /\ slot = "adopt" => guest \in Clients /\ client[guest] # "out"

\* The one client that is served, if there is one.
Serves(c) == IF slot = "adopt" THEN c = guest ELSE ~free /\ c = clientSocket

\* Only that client may have a command on its way.
Owner == \A c \in Clients : client[c] \in {"ready", "asked"} => Serves(c)

Idle(c) == wire[c] = <<>> /\ inbox[c] = <<>> /\ answers[c] = <<>>

\* The command of c is in exactly one place on its way.
InFlight(c) ==
  \/ /\ wire[c] = <<c>> /\ inbox[c] = <<>> /\ answers[c] = <<>>
     /\ receiveQueue = <<>>
  \/ /\ wire[c] = <<>> /\ inbox[c] = <<c>> /\ answers[c] = <<>>
     /\ receiveQueue = <<>>
  \/ Idle(c) /\ receiveQueue = <<c>>
  \/ /\ wire[c] = <<>> /\ inbox[c] = <<>> /\ answers[c] = <<c>>
     /\ receiveQueue = <<>>

\* Clients that wait for their answers have one command on its way or none.
Commands ==
  /\ \A c \in Clients : IF client[c] = "asked" THEN InFlight(c) ELSE Idle(c)
  /\ (\A c \in Clients : client[c] # "asked") => receiveQueue = <<>>

IInv == Single /\ Queue /\ Owner /\ (hasty \/ Commands)

LEMMA QueueStep ==
  ASSUME TypeOK, Queue, [Next]_vars
  PROVE  Queue'
<1> USE DEF Queue, Fresh
<1>0. pending \in Seq(Clients) /\ client \in [Clients -> ClientStates]
      /\ Len(pending) \in Nat
      /\ \A i \in 1..Len(pending) : pending[i] \in Clients
  BY DEF TypeOK
<1>1. ASSUME NEW c \in Clients, Connect(c) PROVE Queue'
  <2>1. /\ pending' = Append(pending, c) /\ client[c] = "out"
        /\ slot' = slot /\ guest' = guest
        /\ client' = [client EXCEPT ![c] = "dialing"]
    BY <1>1 DEF Connect
  <2>2. /\ Len(pending') = Len(pending) + 1
        /\ pending'[Len(pending) + 1] = c
        /\ \A i \in 1..Len(pending) : pending'[i] = pending[i]
    BY <1>0, <2>1, AppendType
  <2>3. \A i \in 1..Len(pending) : pending[i] # c
    BY <2>1
  <2>4. slot # "idle" => guest # c
    <3>1. CASE slot = "hello" BY <3>1, <2>1
    <3>2. CASE slot = "adopt" BY <3>2, <2>1
    <3> QED BY <3>1, <3>2 DEF TypeOK
  <2>5. \A i \in 1..Len(pending') : i = Len(pending) + 1 \/ i \in 1..Len(pending)
    BY <1>0, <2>2
  <2>6. \A d \in Clients : client'[d] = IF d = c THEN "dialing" ELSE client[d]
    BY <1>0, <2>1
  <2>7. \A i \in 1..Len(pending') : client'[pending'[i]] \in Fresh
    BY <1>0, <2>2, <2>3, <2>5, <2>6
  <2>8. \A i, j \in 1..Len(pending') : pending'[i] = pending'[j] => i = j
    BY <2>2, <2>3, <2>5
  <2>9. slot' # "idle" => \A i \in 1..Len(pending') : pending'[i] # guest'
    BY <2>1, <2>2, <2>4, <2>5
  <2> QED BY <2>1, <2>4, <2>6, <2>7, <2>8, <2>9
<1>2. ASSUME NEW c \in Clients,
             \/ SendHello(c) \/ SendCommand(c)
             \/ TakeStatus(c) \/ GiveUp(c) \/ Leave(c)
      PROVE  Queue'
  <2>1. /\ client' \in [Clients -> ClientStates]
        /\ \A d \in Clients : client[d] \in Fresh => client'[d] \in Fresh
        /\ \A d \in Clients : client[d] # "out" => client'[d] # "out"
    BY <1>0, <1>2 DEF SendHello, SendCommand, TakeStatus, GiveUp, Leave,
                      ClientStates
  <2>2. UNCHANGED <<pending, slot, guest>>
    BY <1>2 DEF SendHello, SendCommand, TakeStatus, GiveUp, Leave, slotVars
  <2> QED BY <1>0, <2>1, <2>2
<1>3. CASE Accept
  <2>1. /\ pending' = Tail(pending) /\ guest' = Head(pending) /\ pending # <<>>
        /\ slot' = "hello" /\ client' = client
    BY <1>3 DEF Accept, clientVars
  <2>2. /\ Len(pending) > 0 /\ Len(pending') = Len(pending) - 1
        /\ pending[1] = guest' /\ guest' \in Clients
        /\ \A i \in 1..Len(pending') : pending'[i] = pending[i + 1]
    BY <1>0, <2>1, TailType
  <2>3. 1 \in 1..Len(pending)
        /\ \A i \in 1..Len(pending') : i + 1 \in 1..Len(pending) /\ i + 1 # 1
    BY <1>0, <2>2
  <2>4. client'[guest'] \in Fresh
    BY <2>1, <2>2, <2>3
  <2>5. \A i \in 1..Len(pending') : client'[pending'[i]] \in Fresh /\ pending'[i] # guest'
    BY <2>1, <2>2, <2>3
  <2>6. \A i, j \in 1..Len(pending') : pending'[i] = pending'[j] => i = j
    <3>1. ASSUME NEW i \in 1..Len(pending'), NEW j \in 1..Len(pending'),
                 pending'[i] = pending'[j]
          PROVE  i = j
      <4>1. i + 1 = j + 1
        BY <2>2, <2>3, <3>1
      <4> QED BY <4>1
    <3> QED BY <3>1
  <2> QED BY <2>1, <2>2, <2>4, <2>5, <2>6
<1>4. CASE HelloFails \/ TurnAway
  <2>1. /\ slot = "hello" /\ slot' = "idle" /\ pending' = pending
        /\ client' = [client EXCEPT ![guest] = "gone"]
    BY <1>4 DEF HelloFails, TurnAway, Reject
  <2> QED BY <1>0, <2>1
<1>5. CASE Welcome
  <2>1. /\ slot = "hello" /\ slot' = "adopt" /\ pending' = pending
        /\ guest' = guest
        /\ client' = [client EXCEPT ![guest] = IF @ = "hello" THEN "ready" ELSE @]
    BY <1>5 DEF Welcome
  <2> QED BY <1>0, <2>1
<1>6. CASE Adopt
  BY <1>6 DEF Adopt, clientVars
<1>7. CASE (\E c \in Clients : ReadyRead(c) \/ ClientDisconnected(c))
           \/ ExecuteCommand \/ ReadDataStream
  <2>1. UNCHANGED <<client, pending, slot, guest>>
    BY <1>7 DEF ReadyRead, ClientDisconnected, ExecuteCommand, ReadDataStream,
                clientVars, slotVars
  <2> QED BY <2>1
<1>8. CASE UNCHANGED vars
  BY <1>8 DEF vars, clientVars, slotVars
<1> QED BY <1>1, <1>2, <1>3, <1>4, <1>5, <1>6, <1>7, <1>8
        DEF Next, ServerThread, ClientStep

LEMMA OwnerStep ==
  ASSUME TypeOK, Single, Queue, Owner, [Next]_vars
  PROVE  Owner'
<1> USE DEF Owner, Serves
<1>0. client \in [Clients -> ClientStates]
  BY DEF TypeOK
<1>1. ASSUME NEW c \in Clients, ClientStep(c) PROVE Owner'
  <2>1. \A d \in Clients : client'[d] \in {"ready", "asked"} =>
                            client[d] \in {"ready", "asked"}
    BY <1>0, <1>1 DEF ClientStep, Connect, SendHello, SendCommand, TakeStatus,
                      GiveUp, Leave
  <2>2. UNCHANGED <<slot, guest, free, clientSocket>>
    BY <1>1 DEF ClientStep, Connect, SendHello, SendCommand, TakeStatus, GiveUp,
                Leave, slotVars, ownerVars
  <2> QED BY <2>1, <2>2
<1>2. CASE Accept
  BY <1>2 DEF Accept, clientVars, ownerVars
<1>3. CASE HelloFails \/ TurnAway
  <2>1. /\ slot = "hello" /\ slot' = "idle"
        /\ client' = [client EXCEPT ![guest] = "gone"]
        /\ UNCHANGED <<free, clientSocket>>
    BY <1>3 DEF HelloFails, TurnAway, Reject, ownerVars
  <2> QED BY <1>0, <2>1
<1>4. CASE Welcome
  <2>1. /\ slot = "hello" /\ slot' = "adopt" /\ free /\ guest' = guest
        /\ client' = [client EXCEPT ![guest] = IF @ = "hello" THEN "ready" ELSE @]
    BY <1>4 DEF Welcome, Acceptable
  <2> QED BY <1>0, <2>1
<1>5. CASE Adopt
  BY <1>5 DEF Adopt, Occupy, clientVars
<1>6. ASSUME NEW c \in Clients, ClientDisconnected(c) PROVE Owner'
  <2>1. slot = "idle" /\ c \in linked /\ client[c] = "gone" /\ client' = client
    BY <1>6 DEF ClientDisconnected, clientVars
  <2>2. c = clientSocket
    BY <2>1 DEF Single, OneClient
  <2> QED BY <2>1, <2>2
<1>7. CASE (\E c \in Clients : ReadyRead(c)) \/ ExecuteCommand \/ ReadDataStream
  <2>1. UNCHANGED <<client, slot, guest, free, clientSocket>>
    BY <1>7 DEF ReadyRead, ExecuteCommand, ReadDataStream, clientVars, slotVars,
                ownerVars
  <2> QED BY <2>1
<1>8. CASE UNCHANGED vars
  BY <1>8 DEF vars, clientVars, slotVars, ownerVars
<1> QED BY <1>1, <1>2, <1>3, <1>4, <1>5, <1>6, <1>7, <1>8
        DEF Next, ServerThread

\* Only one client at a time has a command on its way.
LEMMA OneAsks ==
  ASSUME Owner, NEW c \in Clients, NEW d \in Clients,
         client[c] \in {"ready", "asked"}, client[d] \in {"ready", "asked"}
  PROVE  c = d
BY DEF Owner, Serves

\* What a client did in haste is not forgotten.
LEMMA HastyStep ==
  ASSUME [Next]_vars, hasty
  PROVE  hasty'
<1>1. ASSUME NEW c \in Clients, ClientStep(c) PROVE hasty'
  BY <1>1 DEF ClientStep, Connect, SendHello, SendCommand, TakeStatus, GiveUp,
              Leave
<1>2. CASE ServerThread \/ ReadDataStream \/ UNCHANGED vars
  BY <1>2 DEF ServerThread, Accept, HelloFails, TurnAway, Reject, Welcome, Adopt,
              ReadyRead, ClientDisconnected, ExecuteCommand, ReadDataStream,
              vars, clientVars
<1> QED BY <1>1, <1>2 DEF Next

LEMMA CommandsStep ==
  ASSUME ~hasty', TypeOK, Signals, IInv, [Next]_vars
  PROVE  Commands'
<1> USE DEF Commands, Idle
<1>0. /\ client \in [Clients -> ClientStates]
      /\ wire \in [Clients -> Seq(Clients)]
      /\ inbox \in [Clients -> Seq(Clients)]
      /\ answers \in [Clients -> Seq(Clients)]
      /\ receiveQueue \in Seq(Clients)
      /\ Queue /\ Owner /\ Single /\ Commands
  BY HastyStep DEF TypeOK, IInv
<1>a. \A d \in Clients : /\ Append(<<>>, d) = <<d>> /\ <<>> \o <<d>> = <<d>>
                         /\ Head(<<d>>) = d /\ Tail(<<d>>) = <<>> /\ <<d>> # <<>>
  OBVIOUS
<1>1. ASSUME NEW c \in Clients, Connect(c) \/ SendHello(c) \/ Leave(c)
      PROVE  Commands'
  <2>1. /\ UNCHANGED <<wire, inbox, answers, receiveQueue>>
        /\ \A d \in Clients : client'[d] = "asked" <=> client[d] = "asked"
    BY <1>0, <1>1 DEF Connect, SendHello, Leave, ClientStates, socketVars,
                      handlerVars
  <2> QED BY <1>0, <2>1 DEF InFlight
<1>2. ASSUME NEW c \in Clients, SendCommand(c) PROVE Commands'
  <2>1. /\ client[c] = "ready" /\ client' = [client EXCEPT ![c] = "asked"]
        /\ wire' = [wire EXCEPT ![c] = Append(wire[c], c)]
        /\ UNCHANGED <<inbox, answers, receiveQueue>>
    BY <1>2 DEF SendCommand, handlerVars
  <2>2. \A d \in Clients : client[d] # "asked"
    BY <1>0, <2>1, OneAsks
  <2>3. receiveQueue = <<>> /\ \A d \in Clients : Idle(d)
    BY <1>0, <2>2
  <2>4. wire'[c] = <<c>> /\ \A d \in Clients \ {c} : wire'[d] = wire[d]
    BY <1>0, <1>a, <2>1, <2>3
  <2>5. InFlight(c)'
    BY <2>1, <2>3, <2>4 DEF InFlight
  <2>6. \A d \in Clients \ {c} : client'[d] # "asked" /\ Idle(d)'
    BY <1>0, <2>1, <2>2, <2>3, <2>4
  <2>7. client'[c] = "asked"
    BY <1>0, <2>1
  <2> QED BY <2>5, <2>6, <2>7
<1>3. ASSUME NEW c \in Clients, TakeStatus(c) PROVE Commands'
  <2>1. /\ client[c] = "asked" /\ client' = [client EXCEPT ![c] = "ready"]
        /\ answers[c] # <<>> /\ answers' = [answers EXCEPT ![c] = Tail(answers[c])]
        /\ UNCHANGED <<inbox, wire, receiveQueue>>
    BY <1>3 DEF TakeStatus, handlerVars
  <2>2. wire[c] = <<>> /\ inbox[c] = <<>> /\ answers[c] = <<c>> /\ receiveQueue = <<>>
    BY <1>0, <2>1 DEF InFlight
  <2>3. \A d \in Clients \ {c} : client[d] # "asked" /\ Idle(d)
    BY <1>0, <2>1, OneAsks
  <2>4. \A d \in Clients : client'[d] # "asked" /\ Idle(d)'
    BY <1>0, <1>a, <2>1, <2>2, <2>3
  <2> QED BY <2>1, <2>2, <2>4
<1>4. CASE HelloFails \/ TurnAway \/ Welcome
  <2>1. guest \in Clients /\ client[guest] # "asked"
    BY <1>0, <1>4 DEF HelloFails, TurnAway, Welcome, Queue, Fresh
  <2>2. /\ UNCHANGED <<wire, inbox, answers, receiveQueue>>
        /\ \A d \in Clients : client'[d] = "asked" <=> client[d] = "asked"
    BY <1>0, <1>4, <2>1 DEF HelloFails, TurnAway, Welcome, Reject, socketVars,
                            handlerVars
  <2> QED BY <1>0, <2>2 DEF InFlight
<1>5. CASE Accept \/ Adopt
           \/ (\E c \in Clients : ClientDisconnected(c)) \/ UNCHANGED vars
  <2>1. UNCHANGED <<client, wire, inbox, answers, receiveQueue>>
    BY <1>5 DEF Accept, Adopt, ClientDisconnected, vars, clientVars, socketVars,
                handlerVars
  <2> QED BY <1>0, <2>1 DEF InFlight
<1>6. ASSUME NEW c \in Clients, ReadyRead(c) PROVE Commands'
  <2>1. /\ wire[c] # <<>> /\ inbox' = [inbox EXCEPT ![c] = inbox[c] \o wire[c]]
        /\ wire' = [wire EXCEPT ![c] = <<>>]
        /\ UNCHANGED <<client, answers, receiveQueue>>
    BY <1>6 DEF ReadyRead, clientVars
  <2>2. /\ client[c] = "asked" /\ wire[c] = <<c>> /\ inbox[c] = <<>>
        /\ answers[c] = <<>> /\ receiveQueue = <<>>
    BY <1>0, <2>1 DEF InFlight
  <2>3. wire'[c] = <<>> /\ inbox'[c] = <<c>>
    BY <1>0, <1>a, <2>1, <2>2
  <2>4. InFlight(c)'
    BY <2>1, <2>2, <2>3 DEF InFlight
  <2>5. \A d \in Clients \ {c} : client[d] # "asked" /\ Idle(d)
    BY <1>0, <2>2, OneAsks
  <2>6. \A d \in Clients \ {c} : client'[d] # "asked" /\ Idle(d)'
    BY <1>0, <2>1, <2>5
  <2> QED BY <2>1, <2>2, <2>4, <2>6
<1>7. CASE ExecuteCommand
  <2>1. receiveQueue # <<>> /\ slot = "idle"
    BY <1>0, <1>7 DEF ExecuteCommand, Signals
  <2>2. PICK c \in Clients : client[c] = "asked"
    BY <1>0, <2>1
  <2>3. /\ wire[c] = <<>> /\ inbox[c] = <<>> /\ answers[c] = <<>>
        /\ receiveQueue = <<c>>
    BY <1>0, <2>1, <2>2 DEF InFlight
  <2>4. c = clientSocket /\ clientSocket \in linked
    BY <1>0, <2>1, <2>2 DEF Owner, Serves, Single, OneClient
  <2>5. /\ receiveQueue' = Tail(receiveQueue)
        /\ answers' = [answers EXCEPT ![c] = Append(answers[c], Head(receiveQueue))]
        /\ UNCHANGED <<client, wire, inbox>>
    BY <1>7, <2>4 DEF ExecuteCommand, clientVars
  <2>6. receiveQueue' = <<>> /\ answers'[c] = <<c>>
    BY <1>0, <1>a, <2>3, <2>5
  <2>7. InFlight(c)'
    BY <2>3, <2>5, <2>6 DEF InFlight
  <2>8. \A d \in Clients \ {c} : client[d] # "asked" /\ Idle(d)
    BY <1>0, <2>2, OneAsks
  <2>9. \A d \in Clients \ {c} : client'[d] # "asked" /\ Idle(d)'
    BY <1>0, <2>5, <2>8
  <2> QED BY <2>2, <2>5, <2>7, <2>9
<1>8. CASE ReadDataStream
  <2>1. CASE currentSocket # NoClient /\ inbox[currentSocket] # <<>>
    <3>1. PICK c \in Clients : c = currentSocket
      BY <2>1 DEF TypeOK
    <3>2. /\ client[c] = "asked" /\ wire[c] = <<>> /\ inbox[c] = <<c>>
          /\ answers[c] = <<>> /\ receiveQueue = <<>>
      BY <1>0, <2>1, <3>1 DEF InFlight
    <3>3. /\ receiveQueue' = Append(receiveQueue, Head(inbox[c]))
          /\ inbox' = [inbox EXCEPT ![c] = Tail(inbox[c])]
          /\ UNCHANGED <<client, wire, answers>>
      BY <1>8, <2>1, <3>1 DEF ReadDataStream, clientVars
    <3>4. receiveQueue' = <<c>> /\ inbox'[c] = <<>>
      BY <1>0, <1>a, <3>1, <3>2, <3>3
    <3>5. InFlight(c)'
      BY <3>2, <3>3, <3>4 DEF InFlight
    <3>6. \A d \in Clients \ {c} : client[d] # "asked" /\ Idle(d)
      BY <1>0, <3>1, <3>2, OneAsks
    <3>7. \A d \in Clients \ {c} : client'[d] # "asked" /\ Idle(d)'
      BY <1>0, <3>1, <3>3, <3>6
    <3> QED BY <3>1, <3>2, <3>3, <3>5, <3>7
  <2>2. CASE ~(currentSocket # NoClient /\ inbox[currentSocket] # <<>>)
    <3>1. UNCHANGED <<client, wire, inbox, answers, receiveQueue>>
      BY <1>8, <2>2 DEF ReadDataStream, clientVars
    <3> QED BY <1>0, <3>1 DEF InFlight
  <2> QED BY <2>1, <2>2
<1>9. ASSUME NEW c \in Clients, GiveUp(c) PROVE FALSE
  BY <1>9 DEF GiveUp
<1> QED BY <1>1, <1>2, <1>3, <1>4, <1>5, <1>6, <1>7, <1>8, <1>9
        DEF Next, ServerThread, ClientStep

LEMMA InvCorrect == Spec => []IInv
<1>1. Init => IInv
  <2> SUFFICES ASSUME Init PROVE IInv
    OBVIOUS
  <2>1. /\ \A c \in Clients : client[c] = "out" /\ Idle(c)
        /\ Len(pending) = 0 /\ slot = "idle" /\ free /\ linked = {}
        /\ receiveQueue = <<>>
    BY DEF Init, Idle
  <2>2. 1..Len(pending) = {}
    BY <2>1
  <2> QED BY <2>1, <2>2 DEF IInv, Single, OneClient, Queue, Owner, Commands
<1>2. TypeOK /\ Signals /\ IInv /\ [Next]_vars => IInv'
  BY SingleStep, QueueStep, OwnerStep, CommandsStep DEF IInv
<1> QED BY TypeCorrect, <1>1, <1>2, PTL DEF Spec

\* As long as no client goes away, or on, before its command was answered, a
\* status reaches the client whose command it is the status of
\* (server.cpp:559), and nobody else, although statuses name no command and the
\* socket they are sent to is replaced from client to client.
THEOREM AnswersToAskerCorrect == Spec => []AnswersToAsker
<1>1. IInv /\ TypeOK => AnswersToAsker
  <2> SUFFICES ASSUME IInv, TypeOK, ~hasty, NEW c \in Clients,
                      NEW i \in DOMAIN answers[c]
               PROVE  answers[c][i] = c
    BY DEF AnswersToAsker
  <2>1. answers[c] = <<>> \/ answers[c] = <<c>>
    BY DEF IInv, Commands, InFlight, Idle
  <2> QED BY <2>1
<1> QED BY TypeCorrect, InvCorrect, <1>1, PTL

-----------------------------------------------------------------------------
(* What Answered and FreedAgain need besides fairness.                     *)

\* A client that waits for the answer to HELLO, or has it, has sent HELLO.
Greeted ==
  \A c \in Clients : client[c] \in {"hello", "ready", "asked"} => c \in greeted

\* The handler's thread is told of all that it has not read of the client that
\* is served.
Told == \A c \in linked : inbox[c] # <<>> => wake

\* Nothing is received of a connection before it is served.
Unserved(c) ==
  \/ client[c] = "out"
  \/ \E i \in 1..Len(pending) : pending[i] = c
  \/ slot # "idle" /\ guest = c

Unheard == \A c \in Clients : Unserved(c) => inbox[c] = <<>> /\ c \notin linked

\* As long as a client waits there is a command or a status on its way: its own,
\* or one that another client has left behind.
Underway ==
  \A c \in Clients :
    client[c] = "asked" => \/ wire[c] # <<>> \/ inbox[c] # <<>>
                           \/ receiveQueue # <<>> \/ answers[c] # <<>>

\* ClientConnection comes to its end, whatever its guest does.
SlotEnds ==
  slot = "hello" =>
    /\ guest \in Clients
    /\ client[guest] \in {"dialing", "gone"} \/ guest \in greeted

\* What will end the wait of c is at a place from where a step of the server
\* takes it on as soon as no ClientConnection is under way.
Carried(c) ==
  \/ slot = "adopt" /\ guest = c
  \/ wire[c] # <<>> /\ c \in linked
  \/ wake /\ currentSocket = c /\ inbox[c] # <<>>
  \/ posted > 0 /\ clientSocket = c /\ c \in linked
  \/ answers[c] # <<>>

\* A busy server will hear that its client has gone.
Heard == slot # "adopt" /\ ~free => clientSocket \in linked

NeverStuck ==
  /\ SlotEnds
  /\ \A c \in Clients : client[c] = "asked" => Carried(c)
  /\ Heard

LEMMA GreetedStep ==
  ASSUME TypeOK, Queue, Greeted, [Next]_vars
  PROVE  Greeted'
<1> USE DEF Greeted
<1>0. client \in [Clients -> ClientStates]
  BY DEF TypeOK
<1>1. ASSUME NEW c \in Clients, ClientStep(c) PROVE Greeted'
  <2>1. CASE SendHello(c)
    BY <1>0, <2>1 DEF SendHello
  <2>2. CASE Connect(c) \/ SendCommand(c) \/ TakeStatus(c) \/ GiveUp(c) \/ Leave(c)
    BY <1>0, <2>2 DEF Connect, SendCommand, TakeStatus, GiveUp, Leave
  <2> QED BY <1>1, <2>1, <2>2 DEF ClientStep
<1>2. CASE HelloFails \/ TurnAway
  BY <1>0, <1>2 DEF HelloFails, TurnAway, Reject
<1>3. CASE Welcome
  BY <1>0, <1>3 DEF Welcome
<1>4. CASE Accept \/ Adopt \/ (\E c \in Clients : ReadyRead(c) \/ ClientDisconnected(c))
           \/ ExecuteCommand \/ ReadDataStream \/ UNCHANGED vars
  BY <1>4 DEF Accept, Adopt, ReadyRead, ClientDisconnected, ExecuteCommand,
              ReadDataStream, vars, clientVars
<1> QED BY <1>1, <1>2, <1>3, <1>4 DEF Next, ServerThread

LEMMA UnheardStep ==
  ASSUME TypeOK, Single, Queue, Unheard, [Next]_vars
  PROVE  Unheard'
<1> USE DEF Unheard, Unserved
<1>0. /\ client \in [Clients -> ClientStates]
      /\ inbox \in [Clients -> Seq(Clients)]
      /\ pending \in Seq(Clients)
  BY DEF TypeOK
<1>1. ASSUME NEW c \in Clients, Connect(c) PROVE Unheard'
  <2>1. /\ client[c] = "out" /\ pending' = Append(pending, c)
        /\ client' = [client EXCEPT ![c] = "dialing"]
        /\ UNCHANGED <<inbox, linked, slot, guest>>
    BY <1>1 DEF Connect, socketVars, ownerVars
  <2>2. \A d \in Clients :
          (\E i \in 1..Len(pending') : pending'[i] = d)
            => d = c \/ \E i \in 1..Len(pending) : pending[i] = d
    <3>1. /\ Len(pending') = Len(pending) + 1 /\ Len(pending) \in Nat
          /\ pending'[Len(pending) + 1] = c
          /\ \A i \in 1..Len(pending) : pending'[i] = pending[i]
      BY <1>0, <2>1, AppendType
    <3>2. \A i \in 1..Len(pending') : i = Len(pending) + 1 \/ i \in 1..Len(pending)
      BY <3>1
    <3> QED BY <3>1, <3>2
  <2> QED BY <1>0, <2>1, <2>2
<1>2. ASSUME NEW c \in Clients,
             \/ SendHello(c) \/ SendCommand(c)
             \/ TakeStatus(c) \/ GiveUp(c) \/ Leave(c)
      PROVE  Unheard'
  <2>1. /\ \A d \in Clients : client'[d] = "out" => client[d] = "out"
        /\ UNCHANGED <<inbox, linked, pending, slot, guest>>
    BY <1>0, <1>2 DEF SendHello, SendCommand, TakeStatus, GiveUp, Leave,
                      socketVars, slotVars, ownerVars
  <2> QED BY <2>1
<1>3. CASE Accept
  <2>1. /\ pending # <<>> /\ guest' = Head(pending) /\ pending' = Tail(pending)
        /\ UNCHANGED <<client, inbox, linked>>
    BY <1>3 DEF Accept, clientVars, socketVars, ownerVars
  <2>2. /\ 1 \in 1..Len(pending) /\ pending[1] = guest'
        /\ \A i \in 1..Len(pending') : /\ i + 1 \in 1..Len(pending)
                                       /\ pending'[i] = pending[i + 1]
    BY <1>0, <2>1, TailType
  <2> QED BY <2>1, <2>2
<1>4. CASE HelloFails \/ TurnAway \/ Welcome
  <2>1. /\ \A d \in Clients : client'[d] = "out" => client[d] = "out"
        /\ slot' # "idle" => slot # "idle"
        /\ UNCHANGED <<inbox, linked, pending, guest>>
    BY <1>0, <1>4 DEF HelloFails, TurnAway, Reject, Welcome, socketVars, ownerVars
  <2> QED BY <2>1
<1>5. CASE Adopt
  <2>1. /\ slot = "adopt" /\ slot' = "idle" /\ linked' = linked \cup {guest}
        /\ UNCHANGED <<client, inbox, pending, guest>>
    BY <1>5 DEF Adopt, clientVars, socketVars
  <2>2. guest \in Clients /\ client[guest] # "out"
        /\ \A i \in 1..Len(pending) : pending[i] # guest
    BY <2>1 DEF Queue
  <2> QED BY <2>1, <2>2
<1>6. ASSUME NEW c \in Clients, ReadyRead(c) PROVE Unheard'
  <2>1. /\ c \in linked /\ \A d \in Clients \ {c} : inbox'[d] = inbox[d]
        /\ UNCHANGED <<client, pending, slot, guest, linked>>
    BY <1>0, <1>6 DEF ReadyRead, clientVars, slotVars, ownerVars
  <2> QED BY <2>1
<1>7. ASSUME NEW c \in Clients, ClientDisconnected(c) PROVE Unheard'
  BY <1>7 DEF ClientDisconnected, clientVars, socketVars, slotVars
<1>8. CASE ReadDataStream
  <2>1. /\ \A d \in Clients : inbox[d] = <<>> => inbox'[d] = <<>>
        /\ UNCHANGED <<client, pending, slot, guest, linked>>
    BY <1>0, <1>8 DEF ReadDataStream, TypeOK, clientVars, slotVars, ownerVars
  <2> QED BY <2>1
<1>9. CASE ExecuteCommand \/ UNCHANGED vars
  BY <1>9 DEF ExecuteCommand, vars, clientVars, socketVars, slotVars, ownerVars
<1> QED BY <1>1, <1>2, <1>3, <1>4, <1>5, <1>6, <1>7, <1>8, <1>9
        DEF Next, ServerThread, ClientStep

LEMMA ToldStep ==
  ASSUME TypeOK, Signals, Single, Unheard, Told, [Next]_vars
  PROVE  Told'
<1> USE DEF Told
<1>0. /\ inbox \in [Clients -> Seq(Clients)]
      /\ linked \subseteq Clients
  BY DEF TypeOK
<1>1. ASSUME NEW c \in Clients, ClientStep(c) PROVE Told'
  BY <1>1 DEF ClientStep, Connect, SendHello, SendCommand, TakeStatus, GiveUp,
              Leave, socketVars, ownerVars, handlerVars
<1>2. CASE Accept \/ HelloFails \/ TurnAway \/ Welcome \/ UNCHANGED vars
  BY <1>2 DEF Accept, HelloFails, TurnAway, Welcome, Reject, vars, socketVars,
              ownerVars, handlerVars
<1>3. CASE Adopt
  <2>1. slot = "adopt" /\ linked' = {guest} /\ inbox' = inbox
    BY <1>3 DEF Adopt, Single, socketVars
  <2>2. inbox[guest] = <<>>
    BY <2>1 DEF Signals, Unheard, Unserved
  <2> QED BY <2>1, <2>2
<1>4. ASSUME NEW c \in Clients, ReadyRead(c) PROVE Told'
  BY <1>4 DEF ReadyRead
<1>5. ASSUME NEW c \in Clients, ClientDisconnected(c) PROVE Told'
  BY <1>5 DEF ClientDisconnected, socketVars, handlerVars
<1>6. CASE ExecuteCommand
  BY <1>6 DEF ExecuteCommand, ownerVars
<1>7. CASE ReadDataStream
  <2>1. CASE currentSocket # NoClient /\ inbox[currentSocket] # <<>>
    <3>1. /\ \A d \in Clients : inbox'[d] # <<>> => inbox[d] # <<>>
          /\ UNCHANGED <<wake, linked>>
      BY <1>0, <1>7, <2>1 DEF ReadDataStream, TypeOK, ownerVars
    <3> QED BY <1>0, <3>1
  <2>2. CASE ~(currentSocket # NoClient /\ inbox[currentSocket] # <<>>)
    <3>1. UNCHANGED <<inbox, linked>>
      BY <1>7, <2>2 DEF ReadDataStream, ownerVars
    <3>2. ASSUME NEW c \in linked PROVE inbox[c] = <<>>
      <4>1. c = currentSocket
        BY <3>2 DEF Single, OneClient
      <4>2. c # NoClient
        BY <1>0, SessionAssumption
      <4> QED BY <2>2, <4>1, <4>2
    <3> QED BY <3>1, <3>2
  <2> QED BY <2>1, <2>2
<1> QED BY <1>1, <1>2, <1>3, <1>4, <1>5, <1>6, <1>7 DEF Next, ServerThread

LEMMA UnderwayStep ==
  ASSUME TypeOK, Signals, Single, Owner, Underway, [Next]_vars
  PROVE  Underway'
<1> USE DEF Underway
<1>0. /\ client \in [Clients -> ClientStates]
      /\ wire \in [Clients -> Seq(Clients)]
      /\ inbox \in [Clients -> Seq(Clients)]
      /\ answers \in [Clients -> Seq(Clients)]
      /\ receiveQueue \in Seq(Clients)
  BY DEF TypeOK
<1>1. ASSUME NEW c \in Clients, SendCommand(c) PROVE Underway'
  <2>1. /\ client' = [client EXCEPT ![c] = "asked"]
        /\ wire' = [wire EXCEPT ![c] = Append(wire[c], c)]
        /\ UNCHANGED <<inbox, receiveQueue, answers>>
    BY <1>1 DEF SendCommand, handlerVars
  <2>2. Append(wire[c], c) # <<>>
    <3>1. wire[c] \in Seq(Clients)
      BY <1>0
    <3> QED BY <3>1, AppendType
  <2> QED BY <1>0, <2>1, <2>2
<1>2. ASSUME NEW c \in Clients,
             \/ Connect(c) \/ SendHello(c)
             \/ TakeStatus(c) \/ GiveUp(c) \/ Leave(c)
      PROVE  Underway'
  <2>1. /\ \A d \in Clients : client'[d] = "asked" => client[d] = "asked"
        /\ \A d \in Clients : client'[d] = "asked" => answers'[d] = answers[d]
        /\ UNCHANGED <<wire, inbox, receiveQueue>>
    BY <1>0, <1>2 DEF Connect, SendHello, TakeStatus, GiveUp, Leave, socketVars,
                      handlerVars
  <2> QED BY <2>1
<1>3. CASE \/ Accept \/ HelloFails \/ TurnAway \/ Welcome \/ Adopt
           \/ (\E c \in Clients : ClientDisconnected(c)) \/ UNCHANGED vars
  <2>1. /\ \A d \in Clients : client'[d] = "asked" => client[d] = "asked"
        /\ UNCHANGED <<wire, inbox, answers, receiveQueue>>
    BY <1>0, <1>3 DEF Accept, HelloFails, TurnAway, Reject, Welcome, Adopt,
                      ClientDisconnected, vars, clientVars, socketVars, handlerVars
  <2> QED BY <2>1
<1>4. ASSUME NEW c \in Clients, ReadyRead(c) PROVE Underway'
  <2>1. /\ wire[c] # <<>>
        /\ inbox' = [inbox EXCEPT ![c] = inbox[c] \o wire[c]]
        /\ wire' = [wire EXCEPT ![c] = <<>>]
        /\ UNCHANGED <<client, answers, receiveQueue>>
    BY <1>4 DEF ReadyRead, clientVars
  <2>2. inbox[c] \o wire[c] # <<>>
    BY <1>0, <2>1
  <2> QED BY <1>0, <2>1, <2>2
<1>5. CASE ReadDataStream
  <2>1. CASE currentSocket # NoClient /\ inbox[currentSocket] # <<>>
    <3>1. receiveQueue' = Append(receiveQueue, Head(inbox[currentSocket]))
      BY <1>5, <2>1 DEF ReadDataStream
    <3>2. Head(inbox[currentSocket]) \in Clients
      BY <1>0, <2>1, TailType DEF TypeOK
    <3>3. receiveQueue' # <<>>
      BY <1>0, <3>1, <3>2, AppendType
    <3> QED BY <3>3
  <2>2. CASE ~(currentSocket # NoClient /\ inbox[currentSocket] # <<>>)
    BY <1>5, <2>2 DEF ReadDataStream, clientVars
  <2> QED BY <2>1, <2>2
<1>6. CASE ExecuteCommand
  <2>1. slot = "idle" /\ UNCHANGED <<client, wire, inbox>>
    BY <1>6 DEF ExecuteCommand, clientVars
  <2>2. ASSUME NEW c \in Clients, client[c] = "asked" PROVE answers'[c] # <<>>
    <3>1. c = clientSocket /\ clientSocket \in linked
      BY <2>1, <2>2 DEF Owner, Serves, Single, OneClient
    <3>2. answers' = [answers EXCEPT ![c] = Append(answers[c], Head(receiveQueue))]
      BY <1>6, <3>1 DEF ExecuteCommand
    <3>3. Head(receiveQueue) \in Clients
      BY <1>0, <1>6, TailType DEF ExecuteCommand, Signals
    <3>4. Append(answers[c], Head(receiveQueue)) # <<>>
      <4>1. answers[c] \in Seq(Clients)
        BY <1>0
      <4> QED BY <3>3, <4>1, AppendType
    <3> QED BY <1>0, <3>2, <3>4
  <2> QED BY <2>1, <2>2
<1> QED BY <1>1, <1>2, <1>3, <1>4, <1>5, <1>6 DEF Next, ServerThread, ClientStep

LEMMA Moves ==
  ASSUME TypeOK, Signals, IInv, Greeted, Told, Underway
  PROVE  NeverStuck
<1>0. /\ client \in [Clients -> ClientStates]
      /\ Single /\ Queue /\ Owner
  BY DEF TypeOK, IInv
<1>1. SlotEnds
  BY <1>0 DEF SlotEnds, Queue, Fresh, Greeted
<1>2. Heard
  BY <1>0 DEF Heard, Single, OneClient
<1>3. ASSUME NEW c \in Clients, client[c] = "asked" PROVE Carried(c)
  <2>1. Serves(c)
    BY <1>0, <1>3 DEF Owner
  <2>2. \/ slot = "adopt" /\ guest = c
        \/ linked = {c} /\ clientSocket = c /\ currentSocket = c
    BY <1>0, <2>1 DEF Serves, Single, OneClient
  <2>3. CASE slot = "adopt" /\ guest = c
    BY <2>3 DEF Carried
  <2>4. CASE linked = {c} /\ clientSocket = c /\ currentSocket = c
    <3>1. receiveQueue # <<>> => posted > 0
      BY DEF Signals, TypeOK
    <3>2. inbox[c] # <<>> => wake
      BY <2>4 DEF Told
    <3> QED BY <1>3, <2>4, <3>1, <3>2 DEF Carried, Underway
  <2> QED BY <2>2, <2>3, <2>4
<1> QED BY <1>1, <1>2, <1>3 DEF NeverStuck

\* No order of steps of the two threads and the clients loses a command or a
\* wake-up: whoever else has gone or gone on, a client that waits has a command
\* or a status where a step that nothing but ClientConnection delays takes it on;
\* ClientConnection ends; and a server that turns others away is still connected
\* to the socket whose end frees it (server.cpp:232-321).
THEOREM NeverStuckCorrect == Spec => []NeverStuck
<1>1. Init => Greeted /\ Told /\ Unheard /\ Underway
  BY DEF Init, Greeted, Told, Unheard, Underway
<1>2. TypeOK /\ Signals /\ IInv /\ Greeted /\ Told /\ Unheard /\ Underway
      /\ [Next]_vars
        => Greeted' /\ Told' /\ Unheard' /\ Underway'
  BY GreetedStep, ToldStep, UnheardStep, UnderwayStep DEF IInv
<1>3. TypeOK /\ Signals /\ IInv /\ Greeted /\ Told /\ Underway => NeverStuck
  BY Moves
<1> QED BY TypeCorrect, InvCorrect, <1>1, <1>2, <1>3, PTL DEF Spec
=============================================================================
