--------------------------- MODULE StateFeedProofs ---------------------------
(***************************************************************************)
(* Proofs about StateFeed, for any number of GUIs, changes and sessions.   *)
(*                                                                         *)
(* A GUI never falls back because values only get newer on their way from  *)
(* the state to what is shown: Ordered compares the neighbours.  And it    *)
(* gets everything, because what it was not sent yet is still told of:     *)
(* TellInv follows that from the members to the sockets.                   *)
(***************************************************************************)
EXTENDS StateFeed, SequenceTheorems, TLAPS

USE DEF threadVars, serverVars, handlerVars, guiVars

\* s is not newer than t.
Older(s, t) == \A f \in Fields : s[f] <= t[f]

Sorted(q) == \A i, j \in DOMAIN q : i <= j => Older(q[i], q[j])

Before(q, r) == \A i \in DOMAIN q, j \in DOMAIN r : Older(q[i], r[j])

\* What a GUI shows, the packets b in its socket, the packets n on their way and
\* the packet p of the server.
Chain(v, b, n, p) ==
  /\ Older(v, p)
  /\ \A i \in DOMAIN b : Older(v, b[i]) /\ Older(b[i], p)
  /\ \A i \in DOMAIN n : Older(v, n[i]) /\ Older(n[i], p)
  /\ Sorted(b) /\ Sorted(n) /\ Before(b, n)

Ordered ==
  /\ Older(packet, args) /\ Older(args, state)
  /\ \A g \in Guis : Chain(shown[g], buffer[g], net[g], packet)

LEMMA OlderOrder ==
  ASSUME NEW r \in State, NEW s \in State, NEW t \in State
  PROVE  /\ Older(s, s)
         /\ Older(r, s) /\ Older(s, t) => Older(r, t)
  BY StateFeedAssumption DEF Older, State

\* A field is assigned.
LEMMA Assigned ==
  ASSUME NEW s \in State, NEW f \in Fields, NEW v \in 0..MaxChanges
  PROVE  [s EXCEPT ![f] = v] \in State
  BY DEF State

\* A change makes the state newer.
LEMMA ChangeType ==
  ASSUME state \in State, NEW f \in Fields, Change(f)
  PROVE  state' \in State /\ Older(state, state')
<1>1. state["error"] \in Nat /\ state["temp"] \in Nat /\ state[f] \in Nat
  BY StateFeedAssumption DEF State, Fields
<1>2. state[f] = state["error"] \/ state[f] = state["temp"]
  BY DEF Fields
<1>3. state[f] + 1 \in 0..MaxChanges
  BY <1>1, <1>2, StateFeedAssumption DEF Change
<1>4. state' \in State
  BY <1>3, Assigned DEF Change
<1> QED
  BY <1>1, <1>4, StateFeedAssumption DEF Change, State, Older

\* Sequences that lose their head or get one more element.
LEMMA TailType ==
  ASSUME NEW S, NEW q \in Seq(S), q # <<>>
  PROVE  /\ Head(q) \in S /\ Tail(q) \in Seq(S) /\ 1 \in DOMAIN q
         /\ Head(q) = q[1]
         /\ \A i \in DOMAIN Tail(q) : i \in Nat /\ i + 1 \in DOMAIN q /\ Tail(q)[i] = q[i + 1]
  OBVIOUS

LEMMA AppendType ==
  ASSUME NEW S, NEW q \in Seq(S), NEW e \in S
  PROVE  /\ Append(q, e) \in Seq(S)
         /\ \A i \in DOMAIN Append(q, e) :
              \/ i \in DOMAIN q /\ Append(q, e)[i] = q[i]
              \/ i = Len(q) + 1 /\ Append(q, e)[i] = e
  OBVIOUS

LEMMA RemoveType ==
  ASSUME NEW S, NEW q \in Seq(S), NEW i \in DOMAIN q
  PROVE  RemoveAt(q, i) \in Seq(S)
  BY DEF RemoveAt

-----------------------------------------------------------------------------
(* The four steps of a chain.                                              *)

LEMMA ChainFill ==
  ASSUME NEW v \in State, NEW b \in Seq(State), NEW n \in Seq(State),
         NEW p \in State, NEW q \in State, Chain(v, b, n, p), Older(p, q)
  PROVE  Chain(v, b, n, q)
<1>1. \A i \in DOMAIN b : b[i] \in State
  OBVIOUS
<1>2. \A i \in DOMAIN n : n[i] \in State
  OBVIOUS
<1> QED
  BY <1>1, <1>2, OlderOrder DEF Chain

LEMMA ChainWrite ==
  ASSUME NEW v \in State, NEW b \in Seq(State), NEW n \in Seq(State),
         NEW p \in State, Chain(v, b, n, p)
  PROVE  Chain(v, b, Append(n, p), p)
<1> DEFINE m == Append(n, p)
<1>1. \A i \in DOMAIN m : \/ i \in DOMAIN n /\ m[i] = n[i]
                          \/ i = Len(n) + 1 /\ m[i] = p
  BY AppendType
<1>2. Len(n) + 1 \notin DOMAIN n /\ \A i \in DOMAIN n : i \in Nat /\ i < Len(n) + 1
  OBVIOUS
<1> HIDE DEF m
<1>3. \A i \in DOMAIN m : Older(v, m[i]) /\ Older(m[i], p)
  BY <1>1, OlderOrder DEF Chain
<1>4. Sorted(m)
  <2> SUFFICES ASSUME NEW i \in DOMAIN m, NEW j \in DOMAIN m, i <= j
               PROVE  Older(m[i], m[j])
    BY DEF Sorted
  <2>1. CASE j \in DOMAIN n /\ m[j] = n[j]
    <3>1. i \in DOMAIN n /\ m[i] = n[i]
      BY <1>1, <1>2, <2>1
    <3> QED
      BY <2>1, <3>1 DEF Chain, Sorted
  <2>2. CASE m[j] = p
    BY <2>2, <1>3
  <2> QED
    BY <1>1, <2>1, <2>2
<1>5. Before(b, m)
  BY <1>1 DEF Chain, Before
<1> QED
  BY <1>3, <1>4, <1>5 DEF Chain, m

LEMMA ChainArrive ==
  ASSUME NEW v \in State, NEW b \in Seq(State), NEW n \in Seq(State),
         NEW p \in State, Chain(v, b, n, p), n # <<>>
  PROVE  Chain(v, Append(b, Head(n)), Tail(n), p)
<1> DEFINE c == Append(b, Head(n))
           t == Tail(n)
<1>1. Head(n) \in State /\ Head(n) = n[1] /\ 1 \in DOMAIN n
  BY TailType
<1>2. \A i \in DOMAIN t : i \in Nat /\ i + 1 \in DOMAIN n /\ t[i] = n[i + 1]
  BY TailType
<1>3. \A i \in DOMAIN c : \/ i \in DOMAIN b /\ c[i] = b[i]
                          \/ i = Len(b) + 1 /\ c[i] = n[1]
  BY <1>1, AppendType
<1>4. \A i \in DOMAIN b : i \in Nat /\ i < Len(b) + 1
  OBVIOUS
<1> HIDE DEF c, t
<1>5. \A i \in DOMAIN c : Older(v, c[i]) /\ Older(c[i], p)
  BY <1>1, <1>3 DEF Chain
<1>6. \A i \in DOMAIN t : Older(v, t[i]) /\ Older(t[i], p)
  BY <1>2 DEF Chain
<1>7. Sorted(c)
  <2> SUFFICES ASSUME NEW i \in DOMAIN c, NEW j \in DOMAIN c, i <= j
               PROVE  Older(c[i], c[j])
    BY DEF Sorted
  <2>1. CASE j \in DOMAIN b /\ c[j] = b[j]
    <3>1. i \in DOMAIN b /\ c[i] = b[i]
      BY <1>3, <1>4, <2>1
    <3> QED
      BY <2>1, <3>1 DEF Chain, Sorted
  <2>2. CASE c[j] = n[1]
    BY <2>2, <1>1, <1>3, OlderOrder DEF Chain, Before
  <2> QED
    BY <1>3, <2>1, <2>2
<1>8. Sorted(t)
  <2> SUFFICES ASSUME NEW i \in DOMAIN t, NEW j \in DOMAIN t, i <= j
               PROVE  Older(t[i], t[j])
    BY DEF Sorted
  <2>1. i + 1 <= j + 1 /\ i + 1 \in DOMAIN n /\ j + 1 \in DOMAIN n
    BY <1>2
  <2> QED
    BY <1>2, <2>1 DEF Chain, Sorted
<1>9. Before(c, t)
  <2> SUFFICES ASSUME NEW i \in DOMAIN c, NEW j \in DOMAIN t
               PROVE  Older(c[i], t[j])
    BY DEF Before
  <2>1. j + 1 \in DOMAIN n /\ 1 <= j + 1 /\ t[j] = n[j + 1]
    BY <1>2
  <2> QED
    BY <1>1, <1>3, <2>1 DEF Chain, Before, Sorted
<1> QED
  BY <1>5, <1>6, <1>7, <1>8, <1>9 DEF Chain, c, t

LEMMA ChainShow ==
  ASSUME NEW v \in State, NEW b \in Seq(State), NEW n \in Seq(State),
         NEW p \in State, Chain(v, b, n, p), b # <<>>
  PROVE  Older(v, Head(b)) /\ Chain(Head(b), Tail(b), n, p)
<1> DEFINE t == Tail(b)
<1>1. Head(b) \in State /\ Head(b) = b[1] /\ 1 \in DOMAIN b
  BY TailType
<1>2. \A i \in DOMAIN t : i \in Nat /\ i + 1 \in DOMAIN b /\ t[i] = b[i + 1]
  BY TailType
<1> HIDE DEF t
<1>3. Older(v, b[1]) /\ Older(b[1], p)
  BY <1>1 DEF Chain
<1>4. \A i \in DOMAIN t : Older(b[1], t[i]) /\ Older(t[i], p)
  <2> SUFFICES ASSUME NEW i \in DOMAIN t
               PROVE  Older(b[1], t[i]) /\ Older(t[i], p)
    OBVIOUS
  <2>1. i + 1 \in DOMAIN b /\ 1 <= i + 1 /\ t[i] = b[i + 1]
    BY <1>2
  <2> QED
    BY <1>1, <2>1 DEF Chain, Sorted
<1>5. \A i \in DOMAIN n : Older(b[1], n[i]) /\ Older(n[i], p)
  BY <1>1 DEF Chain, Before
<1>6. Sorted(t)
  <2> SUFFICES ASSUME NEW i \in DOMAIN t, NEW j \in DOMAIN t, i <= j
               PROVE  Older(t[i], t[j])
    BY DEF Sorted
  <2>1. i + 1 <= j + 1 /\ i + 1 \in DOMAIN b /\ j + 1 \in DOMAIN b
    BY <1>2
  <2> QED
    BY <1>2, <2>1 DEF Chain, Sorted
<1>7. Before(t, n)
  BY <1>2 DEF Chain, Before
<1> QED
  BY <1>1, <1>3, <1>4, <1>5, <1>6, <1>7 DEF Chain, t

-----------------------------------------------------------------------------
LEMMA Start == Init => TypeOK /\ Ordered
<1> SUFFICES ASSUME Init
             PROVE  TypeOK /\ Ordered
  OBVIOUS
<1>1. Default \in State
  BY StateFeedAssumption DEF Default, State
<1>2. <<>> \in Seq(Guis) /\ <<>> \in Seq(State) /\ Len(<<>>) = 0 /\ DOMAIN <<>> = {}
  OBVIOUS
<1>3. TypeOK
  <2> USE DEF Init
  <2>1. {state, args, packet} \subseteq State /\ shown \in [Guis -> State]
    BY <1>1
  <2>2. {sockets, sending} \subseteq Seq(Guis) /\ {net, buffer} \subseteq [Guis -> Seq(State)]
    BY <1>2
  <2>3. telling \in [Fields -> BOOLEAN] /\ wake \in [Guis -> BOOLEAN]
    OBVIOUS
  <2>4. gui \in [Guis -> {"out", "hello", "on", "gone"}]
    OBVIOUS
  <2>5. sessions \in 0..MaxSessions /\ posted \in Nat /\ updates \in Nat
    BY StateFeedAssumption
  <2>6. client \in BOOLEAN /\ torn \in BOOLEAN
    OBVIOUS
  <2>7. phase \in Phases
    BY DEF Phases
  <2> HIDE DEF Init
  <2> QED
    BY <2>1, <2>2, <2>3, <2>4, <2>5, <2>6, <2>7 DEF TypeOK
<1>4. Older(Default, Default)
  BY <1>1, OlderOrder
<1>5. /\ Sorted(<<>>) /\ Before(<<>>, <<>>)
  BY <1>2 DEF Sorted, Before
<1>6. Ordered
  BY <1>2, <1>4, <1>5 DEF Init, Ordered, Chain
<1> QED
  BY <1>3, <1>6

-----------------------------------------------------------------------------
LEMMA TypeStep == TypeOK /\ [Next]_vars => TypeOK'
<1> SUFFICES ASSUME TypeOK, [Next]_vars
             PROVE  TypeOK'
  OBVIOUS
<1> USE DEF TypeOK
<1>1. ASSUME NEW f \in Fields, ThreadAssigns(f)
      PROVE  TypeOK'
  <2>1. state' \in State
    BY <1>1, ChangeType DEF ThreadAssigns
  <2> QED
    BY <1>1, <2>1 DEF ThreadAssigns
<1>2. ASSUME NEW f \in Fields, ThreadEmits(f)
      PROVE  TypeOK'
  BY <1>2 DEF ThreadEmits
<1>3. ASSUME NEW f \in Fields, ServerChanges(f)
      PROVE  TypeOK'
  <2>1. state' \in State
    BY <1>3, ChangeType DEF ServerChanges
  <2> QED
    BY <1>3, <2>1 DEF ServerChanges, Phases
<1>4. CASE ClientConnection
  BY <1>4, StateFeedAssumption DEF ClientConnection
<1>5. CASE ClientDisconnected
  BY <1>5 DEF ClientDisconnected, EmitError, Phases
<1>6. CASE Deliver
  BY <1>6 DEF Deliver, Phases
<1>7. ASSUME NEW f \in Fields, ReadMember(f)
      PROVE  TypeOK'
  <2>1. state[f] \in 0..MaxChanges
    BY DEF State
  <2>2. args' \in State
    BY <1>7, <2>1, Assigned DEF ReadMember
  <2>3. phase' \in Phases
    BY <1>7 DEF ReadMember, Phases
  <2> QED
    BY <1>7, <2>2, <2>3 DEF ReadMember
<1>8. CASE SendServerState
  BY <1>8 DEF SendServerState, Phases
<1>9. CASE SendPacket
  BY <1>9 DEF SendPacket
<1>10. CASE Write
  <2>1. Head(sending) \in Guis /\ Tail(sending) \in Seq(Guis)
    BY <1>10, TailType DEF Write
  <2>2. Append(net[Head(sending)], packet) \in Seq(State)
    BY <2>1, AppendType
  <2>3. net' \in [Guis -> Seq(State)]
    BY <1>10, <2>1, <2>2 DEF Write, Queue
  <2> QED
    BY <1>10, <2>1, <2>3 DEF Write
<1>11. ASSUME NEW g \in Guis, SocketDisconnected(g)
       PROVE  TypeOK'
  BY <1>11, RemoveType DEF SocketDisconnected
<1>12. ASSUME NEW g \in Guis, GuiConnects(g)
       PROVE  TypeOK'
  BY <1>12, AppendType DEF GuiConnects, Phases
<1>13. ASSUME NEW g \in Guis, GuiLeaves(g)
       PROVE  TypeOK'
  BY <1>13 DEF GuiLeaves
<1>14. ASSUME NEW g \in Guis, GuiListens(g)
       PROVE  TypeOK'
  BY <1>14 DEF GuiListens
<1>15. ASSUME NEW g \in Guis, Arrive(g)
       PROVE  TypeOK'
  <2>1. Head(net[g]) \in State /\ Tail(net[g]) \in Seq(State)
    BY <1>15, TailType DEF Arrive
  <2>2. Append(buffer[g], Head(net[g])) \in Seq(State)
    BY <2>1, AppendType
  <2> QED
    BY <1>15, <2>1, <2>2 DEF Arrive
<1>16. ASSUME NEW g \in Guis, ServerMsgIsReceived(g)
       PROVE  TypeOK'
  <2>1. Head(buffer[g]) \in State /\ Tail(buffer[g]) \in Seq(State)
    BY <1>16, TailType DEF ServerMsgIsReceived
  <2> QED
    BY <1>16, <2>1 DEF ServerMsgIsReceived
<1>17. CASE UNCHANGED vars
  BY <1>17 DEF vars
<1> QED
  BY <1>1, <1>2, <1>3, <1>4, <1>5, <1>6, <1>7, <1>8, <1>9, <1>10, <1>11,
     <1>12, <1>13, <1>14, <1>15, <1>16, <1>17 DEF Next, ServerThread, Handler, GuiStep

\* The variables keep their types (TypeOK).
THEOREM TypeCorrect == Spec => []TypeOK
<1>1. Init => TypeOK
  BY Start
<1> QED
  BY <1>1, TypeStep, PTL DEF Spec

-----------------------------------------------------------------------------
LEMMA OrderedStep == TypeOK /\ Ordered /\ [Next]_vars => Ordered'
<1> SUFFICES ASSUME TypeOK, Ordered, [Next]_vars
             PROVE  Ordered'
  OBVIOUS
<1>0. /\ state \in State /\ args \in State /\ packet \in State
      /\ \A g \in Guis : shown[g] \in State /\ buffer[g] \in Seq(State) /\ net[g] \in Seq(State)
  BY DEF TypeOK
<1>1. ASSUME NEW f \in Fields, Change(f), UNCHANGED <<args, packet, guiVars>>
      PROVE  Ordered'
  <2>1. state' \in State /\ Older(args, state')
    BY <1>0, <1>1, ChangeType, OlderOrder DEF Ordered
  <2> QED
    BY <1>1, <2>1 DEF Ordered
<1>2. ASSUME UNCHANGED <<state, args, packet, net, buffer, shown>>
      PROVE  Ordered'
  BY <1>2 DEF Ordered
<1>3. ASSUME NEW f \in Fields, args' = [args EXCEPT ![f] = state[f]],
             UNCHANGED <<state, packet, guiVars>>
      PROVE  Ordered'
  <2>1. state[f] \in 0..MaxChanges
    BY <1>0 DEF State
  <2>2. args' \in State
    BY <1>0, <1>3, <2>1, Assigned
  <2>3. Older(args, args') /\ Older(args', state)
    BY <1>0, <1>3, StateFeedAssumption DEF Ordered, Older, State
  <2> QED
    BY <1>0, <1>3, <2>2, <2>3, OlderOrder DEF Ordered
<1>4. CASE SendServerState
  <2>1. Older(packet, args) /\ Older(args, args)
    BY <1>0, OlderOrder DEF Ordered
  <2> QED
    BY <1>0, <1>4, <2>1, ChainFill DEF SendServerState, Ordered
<1>5. CASE Write
  <2> DEFINE g == Head(sending)
  <2>1. g \in Guis
    BY <1>5, TailType DEF Write, TypeOK
  <2>2. Chain(shown[g], buffer[g], Append(net[g], packet), packet)
    BY <1>0, <2>1, ChainWrite DEF Ordered
  <2>3. net \in [Guis -> Seq(State)]
    BY DEF TypeOK
  <2> HIDE DEF g
  <2>4. net' = net \/ net' = [net EXCEPT ![g] = Append(@, packet)]
    BY <1>5 DEF Write, Queue, g
  <2> QED
    BY <1>5, <2>1, <2>2, <2>3, <2>4 DEF Write, Ordered
<1>6. ASSUME NEW g \in Guis, Arrive(g)
      PROVE  Ordered'
  <2>1. Chain(shown[g], Append(buffer[g], Head(net[g])), Tail(net[g]), packet)
    BY <1>0, <1>6, ChainArrive DEF Arrive, Ordered
  <2>2. net \in [Guis -> Seq(State)] /\ buffer \in [Guis -> Seq(State)]
    BY DEF TypeOK
  <2> QED
    BY <1>6, <2>1, <2>2 DEF Arrive, Ordered
<1>7. ASSUME NEW g \in Guis, ServerMsgIsReceived(g)
      PROVE  Ordered'
  <2>1. Chain(Head(buffer[g]), Tail(buffer[g]), net[g], packet)
    BY <1>0, <1>7, ChainShow DEF ServerMsgIsReceived, Ordered
  <2>2. shown \in [Guis -> State] /\ buffer \in [Guis -> Seq(State)]
    BY DEF TypeOK
  <2> QED
    BY <1>7, <2>1, <2>2 DEF ServerMsgIsReceived, Ordered
<1>8. ASSUME NEW f \in Fields, ThreadAssigns(f) \/ ServerChanges(f)
      PROVE  Ordered'
  BY <1>1, <1>8 DEF ThreadAssigns, ServerChanges
<1>9. ASSUME NEW f \in Fields, ReadMember(f)
      PROVE  Ordered'
  BY <1>3, <1>9 DEF ReadMember
<1>10. ASSUME NEW f \in Fields, ThreadEmits(f)
       PROVE  Ordered'
  BY <1>2, <1>10 DEF ThreadEmits
<1>11. CASE ClientConnection \/ ClientDisconnected \/ Deliver \/ SendPacket
  BY <1>2, <1>11 DEF ClientConnection, ClientDisconnected, Deliver, SendPacket
<1>12. ASSUME NEW g \in Guis,
              SocketDisconnected(g) \/ GuiConnects(g) \/ GuiLeaves(g) \/ GuiListens(g)
       PROVE  Ordered'
  BY <1>2, <1>12 DEF SocketDisconnected, GuiConnects, GuiLeaves, GuiListens
<1>13. CASE UNCHANGED vars
  BY <1>2, <1>13 DEF vars
<1> QED
  BY <1>4, <1>5, <1>6, <1>7, <1>8, <1>9, <1>10, <1>11, <1>12, <1>13
     DEF Next, ServerThread, Handler, GuiStep

\* Values only get newer on their way from the camera to the GUIs (Ordered).
THEOREM OrderedCorrect == Spec => []Ordered
<1>1. Init => TypeOK /\ Ordered
  BY Start
<1>2. TypeOK /\ Ordered /\ [Next]_vars => (TypeOK /\ Ordered)'
  BY TypeStep, OrderedStep
<1> QED
  BY <1>1, <1>2, PTL DEF Spec

\* The step that NeverBackwards speaks of.
LEMMA NewerStep ==
  TypeOK /\ Ordered /\ [Next]_vars =>
    \A g \in Guis : \A f \in Fields : shown'[g][f] >= shown[g][f]
<1> SUFFICES ASSUME TypeOK, Ordered, [Next]_vars, NEW g \in Guis
             PROVE  Older(shown[g], shown'[g])
  BY StateFeedAssumption, TypeStep DEF Older, TypeOK, State
<1>1. shown[g] \in State /\ buffer[g] \in Seq(State) /\ net[g] \in Seq(State)
      /\ packet \in State /\ shown \in [Guis -> State]
  BY DEF TypeOK
<1>2. ASSUME NEW h \in Guis, ServerMsgIsReceived(h)
      PROVE  Older(shown[g], shown'[g])
  <2>1. CASE h = g
    BY <1>1, <1>2, <2>1, ChainShow DEF ServerMsgIsReceived, Ordered
  <2>2. CASE h # g
    BY <1>1, <1>2, <2>2, OlderOrder DEF ServerMsgIsReceived
  <2> QED
    BY <2>1, <2>2
<1>3. CASE shown' = shown
  BY <1>1, <1>3, OlderOrder
<1>4. (\E h \in Guis : ServerMsgIsReceived(h)) \/ shown' = shown
  BY DEF Next, ServerThread, Handler, GuiStep, vars, ThreadAssigns, ThreadEmits,
         ServerChanges, ClientConnection, ClientDisconnected, Deliver, ReadMember,
         SendServerState, SendPacket, Write, SocketDisconnected,
         GuiConnects, GuiLeaves, GuiListens, Arrive
<1> QED
  BY <1>2, <1>3, <1>4

\* No GUI falls back to an older value (NeverBackwards).
THEOREM NeverBackwardsCorrect == Spec => NeverBackwards
<1>1. Spec => []TypeOK /\ []Ordered
  BY TypeCorrect, OrderedCorrect
<1>2. TypeOK /\ Ordered /\ [Next]_vars =>
        [\A g \in Guis : \A f \in Fields : shown'[g][f] >= shown[g][f]]_vars
  BY NewerStep
<1> QED
  BY <1>1, <1>2, PTL DEF Spec, NeverBackwards
-----------------------------------------------------------------------------
(* The safety part of GuisKnow: no change of the state is lost.  What the   *)
(* newest packet of a GUI does not have yet is still to be told.            *)

\* The GUIs that a packet can be sent to.
Listed(g) == gui[g] \in {"hello", "on"}

\* A call of SendServerState that has not read field f yet is under way, or a signal
\* will cause one.
ToRead(f) ==
  \/ \E h \in Fields : telling[h]
  \/ posted > 0
  \/ phase \in {"call", f}

\* A packet will be written for g.
ToWrite(g) == updates > 0 \/ \E i \in DOMAIN sending : sending[i] = g

\* The newest packet that was sent to g, if there is one, or what it shows.
Newest(g) ==
  IF net[g] # <<>> THEN net[g][Len(net[g])]
  ELSE IF buffer[g] # <<>> THEN buffer[g][Len(buffer[g])]
  ELSE shown[g]

\* A change that was made while a client was connected is told when it goes; all others
\* by a signal that comes after the change.
Noticed == ~client => \A f \in Fields : state[f] = args[f] \/ ToRead(f)

\* What was read is in the packet before the next signal is looked at.
Filled == phase = "idle" => packet = args

\* A GUI is in send_socket_queue until it goes.
Queued == \A g \in Guis : Listed(g) => \E i \in DOMAIN sockets : sockets[i] = g

\* A packet that a GUI has not been sent will be, or is about to be refilled, and so
\* it is for a GUI that is new.
Written ==
  \A g \in Guis : Listed(g) => Newest(g) = packet \/ ToWrite(g) \/ phase # "idle"

TellInv == Noticed /\ Filled /\ Queued /\ Written

\* Nothing is left to do between the members and the sockets.
AllTold ==
  /\ \A f \in Fields : ~telling[f]
  /\ posted = 0 /\ phase = "idle" /\ updates = 0 /\ sending = <<>>

\* When all is told, the newest packet of every GUI is the state; and when nothing of
\* it is on its way any more, the GUI shows the state, or does not know of the packet.
NothingLost ==
  AllTold /\ ~client =>
    \A g \in Guis : Listed(g) =>
      /\ Newest(g) = state
      /\ net[g] = <<>> /\ ~(wake[g] /\ buffer[g] # <<>>) =>
           \/ shown[g] = state
           \/ ~wake[g] /\ buffer[g] # <<>> /\ Last(buffer[g]) = state

\* What is removed from a queue is nothing else.
LEMMA RemoveKeeps ==
  ASSUME NEW S, NEW q \in Seq(S), NEW i \in DOMAIN q, NEW j \in DOMAIN q, i # j
  PROVE  \E k \in DOMAIN RemoveAt(q, i) : RemoveAt(q, i)[k] = q[j]
<1> DEFINE r == RemoveAt(q, i)
<1>1. i \in 1..Len(q) /\ j \in 1..Len(q) /\ Len(q) \in Nat
  OBVIOUS
<1>2. /\ Len(r) = Len(q) - 1 /\ DOMAIN r = 1..Len(r)
      /\ \A k \in 1..Len(r) : r[k] = IF k < i THEN q[k] ELSE q[k + 1]
  <2> DEFINE a == SubSeq(q, 1, i - 1)
             b == SubSeq(q, i + 1, Len(q))
  <2>1. /\ a \in Seq(S) /\ Len(a) = i - 1
        /\ \A k \in 1..(i - 1) : a[k] = q[k]
    BY <1>1
  <2>2. /\ b \in Seq(S) /\ Len(b) = Len(q) - i
        /\ \A k \in 1..(Len(q) - i) : b[k] = q[k + i]
    BY <1>1
  <2>3. r = a \o b
    BY DEF RemoveAt
  <2> HIDE DEF a, b, r
  <2>4. /\ Len(r) = Len(a) + Len(b) /\ DOMAIN r = 1..Len(r)
        /\ \A k \in 1..Len(r) : r[k] = IF k <= Len(a) THEN a[k] ELSE b[k - Len(a)]
    <3>1. \A k \in 1..(Len(a) + Len(b)) :
            (a \o b)[k] = IF k <= Len(a) THEN a[k] ELSE b[k - Len(a)]
      BY <2>1, <2>2, ConcatProperties
    <3>2. a \o b \in Seq(S) /\ Len(a \o b) = Len(a) + Len(b)
      BY <2>1, <2>2, ConcatProperties
    <3> QED BY <2>3, <3>1, <3>2
  <2>5. ASSUME NEW k \in 1..Len(r) PROVE r[k] = IF k < i THEN q[k] ELSE q[k + 1]
    <3>1. CASE k < i
      <4>1. k \in 1..(i - 1) /\ k <= Len(a)
        BY <1>1, <2>1, <3>1
      <4> QED BY <2>1, <2>4, <3>1, <4>1
    <3>2. CASE ~(k < i)
      <4>1. /\ k \in Int /\ i \in Int /\ Len(q) \in Int /\ Len(a) = i - 1
            /\ Len(b) = Len(q) - i /\ k >= i /\ k <= Len(a) + Len(b)
        BY <1>1, <2>1, <2>2, <2>4, <3>2
      <4>3. /\ ~(k <= Len(a)) /\ k - Len(a) \in 1..(Len(q) - i)
            /\ (k - Len(a)) + i = k + 1
        <5>1. k <= (i - 1) + (Len(q) - i)
          BY <4>1
        <5>2. k <= Len(q) - 1
          BY <4>1, <5>1
        <5>3. ~(k <= i - 1)
          BY <4>1
        <5>4. (k - (i - 1)) + i = k + 1
          BY <4>1
        <5>5. k - (i - 1) \in Int
          BY <4>1
        <5>6. 1 <= k - (i - 1)
          BY <4>1
        <5>7. k - (i - 1) <= Len(q) - i
          BY <4>1, <5>2
        <5>8. k - (i - 1) \in 1..(Len(q) - i)
          BY <4>1, <5>5, <5>6, <5>7
        <5> QED BY <4>1, <5>3, <5>4, <5>8
      <4>2. b[k - Len(a)] = q[(k - Len(a)) + i]
        BY <2>2, <4>3
      <4> QED BY <2>4, <3>2, <4>2, <4>3
    <3> QED BY <3>1, <3>2
  <2> QED BY <1>1, <2>1, <2>2, <2>4, <2>5
<1> HIDE DEF r
<1>3. CASE j < i
  BY <1>1, <1>2, <1>3 DEF r
<1>4. CASE j > i
  <2>1. j - 1 \in 1..Len(r) /\ ~(j - 1 < i) /\ (j - 1) + 1 = j
    BY <1>1, <1>2, <1>4
  <2> QED BY <1>2, <2>1 DEF r
<1> QED BY <1>1, <1>3, <1>4

\* The last element stays when the head is taken, unless it is the head.
LEMMA TailLast ==
  ASSUME NEW S, NEW q \in Seq(S), q # <<>>
  PROVE  /\ Len(q) = 1 => Tail(q) = <<>> /\ Head(q) = q[Len(q)]
         /\ Len(q) # 1 => Tail(q) # <<>> /\ Tail(q)[Len(Tail(q))] = q[Len(q)]
<1>1. /\ Tail(q) \in Seq(S) /\ Len(q) \in Nat \ {0} /\ Len(Tail(q)) = Len(q) - 1
      /\ Head(q) = q[1]
      /\ \A i \in 1..(Len(q) - 1) : Tail(q)[i] = q[i + 1]
  OBVIOUS
<1>2. CASE Len(q) = 1
  <2>1. Len(Tail(q)) = 0
    BY <1>1, <1>2
  <2>2. Tail(q) = <<>>
    BY <1>1, <2>1, EmptySeq
  <2> QED BY <1>1, <1>2, <2>2
<1>3. CASE Len(q) # 1
  <2>1. Len(q) - 1 \in 1..(Len(q) - 1) /\ (Len(q) - 1) + 1 = Len(q)
    BY <1>1, <1>3
  <2>2. Tail(q)[Len(q) - 1] = q[Len(q)]
    BY <1>1, <2>1
  <2>3. Len(Tail(q)) # 0
    BY <1>1, <1>3
  <2>4. Tail(q) # <<>>
    BY <2>3, EmptySeq
  <2> QED BY <1>1, <1>3, <2>2, <2>4
<1> QED BY <1>2, <1>3

LEMMA NoticedStep ==
  ASSUME TypeOK, Noticed, [Next]_vars PROVE Noticed'
<1>0. /\ state \in State /\ args \in State /\ telling \in [Fields -> BOOLEAN]
      /\ posted \in Nat
  BY DEF TypeOK
<1>1. ASSUME NEW f \in Fields, ThreadAssigns(f) PROVE Noticed'
  <2>1. telling'[f]
    BY <1>0, <1>1 DEF ThreadAssigns
  <2> QED BY <2>1 DEF Noticed, ToRead
<1>2. ASSUME NEW f \in Fields, ThreadEmits(f) PROVE Noticed'
  <2>1. posted' > 0
    BY <1>0, <1>2 DEF ThreadEmits
  <2> QED BY <2>1 DEF Noticed, ToRead
<1>3. ASSUME NEW f \in Fields, ServerChanges(f) PROVE Noticed'
  BY <1>3 DEF ServerChanges, Noticed, ToRead
<1>4. CASE ClientConnection
  BY <1>4 DEF ClientConnection, Noticed
<1>5. CASE ClientDisconnected \/ Deliver \/ (\E g \in Guis : GuiConnects(g))
  <2>1. phase' = "call"
    BY <1>5 DEF ClientDisconnected, EmitError, Deliver, GuiConnects
  <2> QED BY <2>1 DEF Noticed, ToRead
\* The other field is read next, or has been read.
<1>6. ASSUME NEW f \in Fields, ReadMember(f) PROVE Noticed'
  <2>1. /\ phase \in {"call", f} /\ args' = [args EXCEPT ![f] = state[f]]
        /\ UNCHANGED <<state, telling, posted, client>>
        /\ \E h \in Fields \ {f} : phase' = IF phase = f THEN "fill" ELSE h
    BY <1>6 DEF ReadMember
  <2>2. args'[f] = state'[f]
    BY <1>0, <2>1 DEF State
  <2>3. ASSUME NEW h \in Fields \ {f}, ~client'
        PROVE  state'[h] = args'[h] \/ ToRead(h)'
    <3>1. CASE phase = "call"
      <4>1. phase' = h
        <5>1. "call" # f
          BY DEF Fields
        <5>2. Fields \ {f} = {h}
          BY DEF Fields
        <5> QED BY <2>1, <3>1, <5>1, <5>2
      <4> QED BY <4>1 DEF ToRead
    <3>2. CASE phase = f
      <4>1. phase \notin {"call", h}
        BY <3>2 DEF Fields
      <4>2. state[h] = args[h] \/ (\E k \in Fields : telling[k]) \/ posted > 0
        BY <2>1, <2>3, <4>1 DEF Noticed, ToRead
      <4>3. args'[h] = args[h]
        BY <1>0, <2>1 DEF State
      <4> QED BY <2>1, <4>2, <4>3 DEF ToRead
    <3> QED BY <2>1, <3>1, <3>2
  <2> QED BY <2>2, <2>3 DEF Noticed
<1>7. CASE SendServerState
  BY <1>7 DEF SendServerState, Noticed, ToRead, Fields
<1>8. ASSUME UNCHANGED <<state, args, telling, posted, client, phase>> PROVE Noticed'
  BY <1>8 DEF Noticed, ToRead
<1>9. CASE Handler \/ UNCHANGED vars
  BY <1>8, <1>9 DEF Handler, SendPacket, Write, SocketDisconnected, vars
<1>10. ASSUME NEW g \in Guis, GuiLeaves(g) \/ GuiStep(g) PROVE Noticed'
  BY <1>8, <1>10 DEF GuiLeaves, GuiStep, GuiListens, Arrive, ServerMsgIsReceived
<1> QED BY <1>1, <1>2, <1>3, <1>4, <1>5, <1>6, <1>7, <1>9, <1>10
        DEF Next, ServerThread

LEMMA FilledStep ==
  ASSUME TypeOK, Filled, [Next]_vars PROVE Filled'
<1>1. CASE SendServerState
  BY <1>1 DEF SendServerState, Filled
<1>2. ASSUME NEW f \in Fields, ReadMember(f) PROVE Filled'
  BY <1>2 DEF ReadMember, Filled, Fields
<1>3. CASE ~SendServerState /\ ~(\E f \in Fields : ReadMember(f))
  <2>1. UNCHANGED <<packet, args>> /\ (phase' = "idle" => phase = "idle")
    BY <1>3 DEF Next, ServerThread, Handler, GuiStep, vars, ThreadAssigns, ThreadEmits,
         ServerChanges, ClientConnection, ClientDisconnected, EmitError, Deliver,
         SendPacket, Write, SocketDisconnected, GuiConnects, GuiLeaves, GuiListens, Arrive,
         ServerMsgIsReceived
  <2> QED BY <2>1 DEF Filled
<1> QED BY <1>1, <1>2, <1>3

LEMMA QueuedStep ==
  ASSUME TypeOK, Queued, [Next]_vars PROVE Queued'
<1>0. sockets \in Seq(Guis) /\ gui \in [Guis -> {"out", "hello", "on", "gone"}]
  BY DEF TypeOK
<1>1. ASSUME NEW h \in Guis, SocketDisconnected(h) PROVE Queued'
  <2>1. PICK i \in DOMAIN sockets : sockets[i] = h /\ sockets' = RemoveAt(sockets, i)
    BY <1>1 DEF SocketDisconnected
  <2>2. gui' = gui /\ gui[h] = "gone"
    BY <1>1 DEF SocketDisconnected
  <2> SUFFICES ASSUME NEW g \in Guis, Listed(g)
               PROVE  \E k \in DOMAIN sockets' : sockets'[k] = g
    BY <2>2 DEF Queued, Listed
  <2>3. PICK j \in DOMAIN sockets : sockets[j] = g
    BY DEF Queued
  <2>4. i # j
    BY <2>1, <2>2, <2>3 DEF Listed
  <2> QED BY <1>0, <2>1, <2>3, <2>4, RemoveKeeps
<1>2. ASSUME NEW h \in Guis, GuiConnects(h) PROVE Queued'
  <2>1. sockets' = Append(sockets, h)
    BY <1>2 DEF GuiConnects
  <2>2. /\ \A i \in DOMAIN sockets : i \in DOMAIN sockets' /\ sockets'[i] = sockets[i]
        /\ Len(sockets) + 1 \in DOMAIN sockets' /\ sockets'[Len(sockets) + 1] = h
    BY <1>0, <2>1
  <2>3. \A g \in Guis : Listed(g)' => g = h \/ Listed(g)
    BY <1>0, <1>2 DEF GuiConnects, Listed
  <2> QED BY <2>2, <2>3 DEF Queued
<1>3. ASSUME sockets' = sockets, \A g \in Guis : Listed(g)' => Listed(g) PROVE Queued'
  BY <1>3 DEF Queued
<1>4. ASSUME NEW h \in Guis, GuiLeaves(h) \/ GuiListens(h) PROVE Queued'
  BY <1>0, <1>3, <1>4 DEF GuiLeaves, GuiListens, Listed
<1>5. CASE UNCHANGED <<sockets, gui>>
  BY <1>3, <1>5 DEF Listed
<1> QED
  BY <1>1, <1>2, <1>4, <1>5 DEF Next, ServerThread, Handler, GuiStep, vars, ThreadAssigns,
         ThreadEmits, ServerChanges, ClientConnection, ClientDisconnected, Deliver,
         ReadMember, SendServerState, SendPacket, Write, Arrive, ServerMsgIsReceived

\* A packet on its way stays the newest when it arrives and when it is shown.
LEMMA NewestKept ==
  ASSUME TypeOK, NEW g \in Guis, NEW h \in Guis, Arrive(h) \/ ServerMsgIsReceived(h)
  PROVE  Newest(g)' = Newest(g)
<1>0. /\ net \in [Guis -> Seq(State)] /\ buffer \in [Guis -> Seq(State)]
      /\ shown \in [Guis -> State]
      /\ net[g] \in Seq(State) /\ buffer[g] \in Seq(State)
  BY DEF TypeOK
<1>1. CASE h # g
  <2>1. net'[g] = net[g] /\ buffer'[g] = buffer[g] /\ shown'[g] = shown[g]
    BY <1>0, <1>1 DEF Arrive, ServerMsgIsReceived
  <2> QED BY <2>1 DEF Newest
<1>2. CASE h = g /\ Arrive(h)
  <2>1. /\ net[g] # <<>> /\ net'[g] = Tail(net[g])
        /\ buffer'[g] = Append(buffer[g], Head(net[g]))
    BY <1>0, <1>2 DEF Arrive
  <2>2. Newest(g) = net[g][Len(net[g])]
    BY <2>1 DEF Newest
  <2>3. CASE Len(net[g]) = 1
    <3>1. net'[g] = <<>> /\ Head(net[g]) = net[g][Len(net[g])]
      BY <1>0, <2>1, <2>3, TailLast
    <3>2. buffer'[g] # <<>> /\ buffer'[g][Len(buffer'[g])] = Head(net[g])
      BY <1>0, <2>1, AppendType, TailType
    <3> QED BY <2>2, <2>3, <3>1, <3>2 DEF Newest
  <2>4. CASE Len(net[g]) # 1
    <3>1. net'[g] # <<>> /\ net'[g][Len(net'[g])] = net[g][Len(net[g])]
      BY <1>0, <2>1, <2>4, TailLast
    <3> QED BY <2>2, <3>1 DEF Newest
  <2> QED BY <2>3, <2>4
<1>3. CASE h = g /\ ServerMsgIsReceived(h)
  <2>1. /\ buffer[g] # <<>> /\ buffer'[g] = Tail(buffer[g])
        /\ shown'[g] = Head(buffer[g]) /\ net' = net
    BY <1>0, <1>3 DEF ServerMsgIsReceived
  <2>2. CASE net[g] # <<>>
    BY <2>1, <2>2 DEF Newest
  <2>3. CASE net[g] = <<>> /\ Len(buffer[g]) = 1
    <3>1. buffer'[g] = <<>> /\ Head(buffer[g]) = buffer[g][Len(buffer[g])]
      BY <1>0, <2>1, <2>3, TailLast
    <3> QED BY <2>1, <2>3, <3>1 DEF Newest
  <2>4. CASE net[g] = <<>> /\ Len(buffer[g]) # 1
    <3>1. buffer'[g] # <<>> /\ buffer'[g][Len(buffer'[g])] = buffer[g][Len(buffer[g])]
      BY <1>0, <2>1, <2>4, TailLast
    <3> QED BY <2>1, <2>4, <3>1 DEF Newest
  <2> QED BY <2>2, <2>3, <2>4
<1> QED BY <1>1, <1>2, <1>3

LEMMA WrittenStep ==
  ASSUME TypeOK, Queued, Written, [Next]_vars PROVE Written'
<1>0. /\ sockets \in Seq(Guis) /\ sending \in Seq(Guis) /\ updates \in Nat
      /\ gui \in [Guis -> {"out", "hello", "on", "gone"}]
      /\ net \in [Guis -> Seq(State)]
  BY DEF TypeOK
\* The steps that change none of it, or begin a call.
<1>1. ASSUME UNCHANGED <<packet, updates, sending>>,
             \A g \in Guis : Newest(g)' = Newest(g) /\ (Listed(g)' => Listed(g)),
             phase' = "idle" => phase = "idle"
      PROVE  Written'
  BY <1>1 DEF Written, ToWrite
<1>2. CASE phase' # "idle"
  BY <1>2 DEF Written
<1>3. CASE SendServerState
  <2>1. updates' > 0
    BY <1>0, <1>3 DEF SendServerState
  <2> QED BY <2>1 DEF Written, ToWrite
\* All in the queue will get the packet.
<1>4. CASE SendPacket
  <2>1. sending' = sockets /\ gui' = gui
    BY <1>4 DEF SendPacket
  <2> QED BY <2>1 DEF Written, ToWrite, Queued, Listed
\* It is written for one of them.
<1>5. CASE Write
  <2> DEFINE h == Head(sending)
  <2>1. /\ h \in Guis /\ h = sending[1] /\ sending' = Tail(sending)
        /\ UNCHANGED <<packet, phase, updates, gui, buffer, shown>>
    BY <1>0, <1>5, TailType DEF Write
  <2>2. net' = IF gui[h] = "gone" THEN net ELSE [net EXCEPT ![h] = Append(@, packet)]
    BY <1>5 DEF Write, Queue
  <2> HIDE DEF h
  <2> SUFFICES ASSUME NEW g \in Guis, Listed(g)
               PROVE  Newest(g)' = packet' \/ ToWrite(g)' \/ phase' # "idle"
    BY <2>1 DEF Written, Listed
  <2>3. CASE g = h
    <3>1. net'[g] = Append(net[g], packet)
      BY <1>0, <2>1, <2>2, <2>3 DEF Listed
    <3>2. net[g] \in Seq(State)
      BY <1>0
    <3>3. net'[g] # <<>> /\ net'[g][Len(net'[g])] = packet
      BY <3>1, <3>2
    <3> QED BY <2>1, <3>3 DEF Newest
  <2>4. CASE g # h
    <3>1. net'[g] = net[g]
      BY <1>0, <2>1, <2>2, <2>4
    <3>2. Newest(g)' = Newest(g)
      BY <2>1, <3>1 DEF Newest
    <3>3. (\E i \in DOMAIN sending : sending[i] = g) =>
             \E i \in DOMAIN sending' : sending'[i] = g
      <4> SUFFICES ASSUME NEW i \in DOMAIN sending, sending[i] = g
                   PROVE  \E k \in DOMAIN sending' : sending'[k] = g
        OBVIOUS
      <4>1. i # 1
        BY <2>1, <2>4
      <4>2. sending # <<>>
        BY <1>5 DEF Write
      <4>3. i - 1 \in DOMAIN sending' /\ sending'[i - 1] = sending[i]
        BY <1>0, <2>1, <4>1, <4>2
      <4> QED BY <4>3
    <3> QED BY <2>1, <3>2, <3>3 DEF Written, ToWrite
  <2> QED BY <2>3, <2>4
<1>6. ASSUME NEW h \in Guis, Arrive(h) \/ ServerMsgIsReceived(h) PROVE Written'
  <2>1. \A g \in Guis : Newest(g)' = Newest(g)
    BY <1>6, NewestKept
  <2> QED BY <1>1, <1>6, <2>1 DEF Arrive, ServerMsgIsReceived, Listed
<1>7. ASSUME NEW h \in Guis, GuiLeaves(h) \/ GuiListens(h) PROVE Written'
  <2>1. \A g \in Guis : Newest(g)' = Newest(g)
    BY <1>7 DEF GuiLeaves, GuiListens, Newest
  <2>2. \A g \in Guis : Listed(g)' => Listed(g)
    BY <1>0, <1>7 DEF GuiLeaves, GuiListens, Listed
  <2> QED BY <1>1, <1>7, <2>1, <2>2 DEF GuiLeaves, GuiListens
<1>8. CASE UNCHANGED <<packet, updates, sending, guiVars>> /\ (phase' = "idle" => phase = "idle")
  BY <1>1, <1>8 DEF Newest, Listed
<1>9. ASSUME NEW f \in Fields, ReadMember(f) PROVE Written'
  BY <1>2, <1>9 DEF ReadMember, Fields
<1>10. ASSUME NEW f \in Fields, ThreadAssigns(f) \/ ThreadEmits(f) \/ ServerChanges(f)
       PROVE  Written'
  BY <1>8, <1>10 DEF ThreadAssigns, ThreadEmits, ServerChanges
<1>11. CASE ClientConnection \/ ClientDisconnected \/ Deliver \/ UNCHANGED vars
  BY <1>2, <1>8, <1>11 DEF ClientConnection, ClientDisconnected, EmitError, Deliver, vars
<1>12. ASSUME NEW h \in Guis, SocketDisconnected(h) PROVE Written'
  BY <1>8, <1>12 DEF SocketDisconnected
<1>13. ASSUME NEW h \in Guis, GuiConnects(h) PROVE Written'
  BY <1>2, <1>13 DEF GuiConnects
<1> QED BY <1>3, <1>4, <1>5, <1>6, <1>7, <1>9, <1>10, <1>11, <1>12, <1>13
        DEF Next, ServerThread, Handler, GuiStep

\* No change gets lost on its way to the GUIs: when no thread and no posted call has
\* anything left to tell, and no client may have changed the state silently, the newest
\* packet of every GUI is the state, although all GUIs and all changes share one packet that
\* is refilled while it is being sent (server.cpp:628-639, netpackethandler.cpp:168-181).
\* A packet is whole here; what becomes of one that is torn is not modelled.
THEOREM NothingLostCorrect == Spec => []NothingLost
<1>1. Init => TellInv
  BY DEF Init, TellInv, Noticed, Filled, Queued, Written, Listed
<1>2. TypeOK /\ TellInv /\ [Next]_vars => TellInv'
  BY NoticedStep, FilledStep, QueuedStep, WrittenStep DEF TellInv
<1>3. TypeOK /\ TellInv => NothingLost
  <2> SUFFICES ASSUME TypeOK, TellInv, AllTold, ~client, NEW g \in Guis, Listed(g)
               PROVE  /\ Newest(g) = state
                      /\ net[g] = <<>> /\ ~(wake[g] /\ buffer[g] # <<>>) =>
                           \/ shown[g] = state
                           \/ ~wake[g] /\ buffer[g] # <<>> /\ Last(buffer[g]) = state
    BY DEF NothingLost
  <2>1. \A f \in Fields : state[f] = args[f]
    BY DEF TellInv, Noticed, ToRead, AllTold, Fields
  <2>2. state = args
    BY <2>1 DEF TypeOK, State
  <2>3. packet = args
    BY DEF TellInv, Filled, AllTold
  <2>4. Newest(g) = packet
    BY DEF TellInv, Written, ToWrite, AllTold
  <2> QED BY <2>2, <2>3, <2>4 DEF Newest, Last
<1> QED BY <1>1, <1>2, <1>3, TypeCorrect, PTL DEF Spec
=============================================================================
