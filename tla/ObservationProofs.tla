---------------------------- MODULE ObservationProofs ----------------------------
(***************************************************************************)
(* Proofs about observations, for any options of any number of clients.     *)
(***************************************************************************)
EXTENDS Observation, SequenceTheorems, TLAPS

Names == {"FITSFILE", "HEADFILE"}
Client == [id : Nat \ {0}, opts : Options, todo : SUBSET Commands]
Event == [cmd : {"SAVE"}] \cup [cmd : Commands, by : Client]
Acquisition ==
  [status : {"none"}, id : {0}, quiet : BOOLEAN, watched : BOOLEAN]
    \cup [status : {"running", "ended", "aborted", "read", "cleared"}, id : Nat,
          opts : Options, taken : [Settings -> Values], hdr : Files \cup {NoFile},
          quiet : BOOLEAN, watched : BOOLEAN]

Types ==
  /\ client \in {NoClient} \cup Client
  /\ served \in Nat
  /\ events \in Seq(Event)
  /\ camera \in [Settings \cup Names -> Values \cup Files \cup {NoFile}]
  /\ \A k \in Settings : camera[k] \in Values
  /\ \A k \in Names : camera[k] \in Files \cup {NoFile}
  /\ driver \in [Settings -> Values]
  /\ acq \in Acquisition
  /\ poller \in [at : {"off", "started", "on", "seen"}, stop : BOOLEAN]
  /\ connected \in Nat
  /\ refused \subseteq Settings

-----------------------------------------------------------------------------
(* The inductive invariant.                                                *)

\* The client that is served, which may have died since it sent its command.
Present == ({client} \ {NoClient}) \cup {events[i].by : i \in Calls}

\* There is one command at a time, and it is the next one of a client that waits
\* for its status or is gone.
OneCall ==
  /\ \A i, j \in Calls : i = j
  /\ \A i \in Calls : /\ client \in {NoClient, events[i].by}
                      /\ events[i].cmd \in events[i].by.todo
                      /\ \A d \in events[i].by.todo : Rank(events[i].cmd) <= Rank(d)

\* What a client has left to send is the end of its script.
InOrder(cl) ==
  /\ cl.todo \subseteq Script(cl.opts)
  /\ \A c \in Script(cl.opts) \ cl.todo, d \in cl.todo : Rank(c) < Rank(d)

Done(cl, c) == c \in Script(cl.opts) \ cl.todo

\* A client that goes on got an OK for all that it has sent: the members and the
\* driver are as it told them, and nothing is being acquired once it has set the
\* shutter.
Obeyed(cl) ==
  /\ Done(cl, "FITSFILE") => camera["FITSFILE"] = cl.opts.fits
  /\ Done(cl, "HEADFILE") => camera["HEADFILE"] = cl.opts.hdr
  /\ Done(cl, "SHUTTER") => ~Acquiring
  /\ \A k \in Settings :
       Done(cl, k) => /\ camera[k] = Effective(k, cl.opts.set[k])
                      /\ driver[k] = camera[k]
                      /\ k \notin refused

Served == \A cl \in Present : InOrder(cl) /\ Obeyed(cl)

\* A member differs from the driver's setting only if the driver refused it.
Agree == \A k \in Settings \ refused : camera[k] = driver[k]

\* Until an exposure that nobody disturbs is saved, the members are what its
\* client wanted and what the driver took it with.
Kept ==
  Unsaved /\ acq.quiet =>
    LET o == acq.opts
    IN /\ camera["FITSFILE"] = o.fits
       /\ camera["HEADFILE"] = acq.hdr
       /\ o.hdr # NoFile => acq.hdr = o.hdr
       /\ \A k \in Settings :
            IF Given(o, k)
            THEN /\ acq.taken[k] = Effective(k, o.set[k])
                 /\ camera[k] = acq.taken[k]
            ELSE k \notin refused => camera[k] = acq.taken[k]

IInv == Types /\ OneCall /\ Served /\ Agree /\ Kept /\ FileKept /\ Honoured
-----------------------------------------------------------------------------
(* The script.                                                             *)

LEMMA Ranks ==
  /\ Rank("STOP") = 0 /\ Rank("INIT") = 1 /\ Rank("GETTEMP") = 2
  /\ Rank("RATE") = 3 /\ Rank("GAIN") = 4 /\ Rank("FRAME") = 5
  /\ Rank("EXPTIME") = 6 /\ Rank("SHUTTER") = 7 /\ Rank("COOLER") = 8
  /\ Rank("FAN") = 9 /\ Rank("SETTEMP") = 10 /\ Rank("FITSFILE") = 11
  /\ Rank("HEADFILE") = 12 /\ Rank("START") = 13
  BY DEF Rank

LEMMA RankNat == \A c \in Commands : Rank(c) \in 0..13
  BY Ranks DEF Commands, Settings

\* No two commands have the same place.
LEMMA RankUnique == \A c, d \in Commands : Rank(c) <= Rank(d) => c = d \/ Rank(c) < Rank(d)
  BY Ranks DEF Commands, Settings

\* A client that starts an exposure has named its file, set the shutter and sends
\* every setting that it was given; one that names a file sets the shutter.
LEMMA Scripts ==
  ASSUME NEW o \in Options
  PROVE  /\ Script(o) \subseteq Commands
         /\ "STOP" \in Script(o) => Script(o) = {"STOP"}
         /\ "START" \in Script(o) =>
              /\ {"FITSFILE", "SHUTTER"} \subseteq Script(o)
              /\ DOMAIN o.set \subseteq Script(o)
              /\ o.hdr # NoFile => "HEADFILE" \in Script(o)
         /\ \A c \in Names : c \in Script(o) => "SHUTTER" \in Script(o)
         /\ \A k \in Settings : k \in Script(o) => k \in DOMAIN o.set
<1> USE ObservationAssumption DEF Script, Wanted, Commands, Settings, Names
<1>1. CASE "stop" \in o.flags
  BY <1>1
<1>2. CASE "stop" \notin o.flags
  <2>1. \A k \in Settings \ {"SHUTTER"} : Wanted(o, k) <=> k \in DOMAIN o.set
    BY <1>2
  <2>2. \A c \in {"SHUTTER", "FITSFILE", "START"} : Wanted(o, c) <=> o.fits # NoFile
    BY <1>2
  <2>3. Wanted(o, "HEADFILE") <=> o.hdr # NoFile
    BY <1>2
  <2>4. ~Wanted(o, "STOP")
    BY <1>2
  <2>5. "SHUTTER" \in DOMAIN o.set /\ DOMAIN o.set \subseteq Settings
        /\ (o.fits = NoFile => o.hdr = NoFile)
    OBVIOUS
  <2> HIDE DEF Wanted
  <2>6. ASSUME "START" \in Script(o)
        PROVE  /\ {"FITSFILE", "SHUTTER"} \subseteq Script(o)
               /\ DOMAIN o.set \subseteq Script(o)
               /\ o.hdr # NoFile => "HEADFILE" \in Script(o)
    BY <2>1, <2>2, <2>3, <2>5, <2>6
  <2>7. \A c \in Names : c \in Script(o) => "SHUTTER" \in Script(o)
    BY <2>2, <2>3, <2>5
  <2>8. \A k \in Settings : k \in Script(o) => k \in DOMAIN o.set
    BY <2>1, <2>5
  <2> QED BY <2>4, <2>6, <2>7, <2>8
<1> QED BY <1>1, <1>2

-----------------------------------------------------------------------------
(* The event queue.                                                        *)

LEMMA SavesType == \A n \in Nat : Saves(n) \in Seq(Event) /\ Len(Saves(n)) = n
  BY DEF Saves, Event

\* What Calls and Present are for a queue es.
CallsIn(es) == {i \in DOMAIN es : es[i].cmd # "SAVE"}

\* Calls of SaveFITS that are added leave the commands where they are.
LEMMA Appended ==
  ASSUME NEW es \in Seq(Event), NEW n \in Nat
  PROVE  /\ es \o Saves(n) \in Seq(Event)
         /\ CallsIn(es \o Saves(n)) = CallsIn(es)
         /\ \A i \in CallsIn(es) : (es \o Saves(n))[i] = es[i]
<1> DEFINE new == es \o Saves(n)
<1>1. new \in Seq(Event) /\ Len(new) = Len(es) + n /\ Len(es) \in Nat
  BY SavesType
<1>2. \A i \in 1..Len(new) :
        new[i] = IF i <= Len(es) THEN es[i] ELSE [cmd |-> "SAVE"]
  BY SavesType DEF Saves
<1>3. DOMAIN new = 1..Len(new) /\ DOMAIN es = 1..Len(es)
  BY <1>1
<1> HIDE DEF new
<1>4. CallsIn(new) = CallsIn(es) /\ \A i \in CallsIn(es) : new[i] = es[i]
  BY <1>1, <1>2, <1>3 DEF CallsIn
<1> QED BY <1>1, <1>4 DEF new

\* The first event is gone; what is left of a queue whose only command came first
\* holds no command, and a call of SaveFITS leaves the commands.
LEMMA Removed ==
  ASSUME NEW es \in Seq(Event), es # <<>>
  PROVE  /\ Head(es) = es[1] /\ Head(es) \in Event /\ 1 \in DOMAIN es
         /\ Tail(es) \in Seq(Event)
         /\ \A i \in CallsIn(Tail(es)) :
              i \in Nat /\ i + 1 \in CallsIn(es) /\ Tail(es)[i] = es[i + 1]
         /\ \A i \in CallsIn(es) : i = 1 \/ i - 1 \in CallsIn(Tail(es))
<1>1. Len(es) \in Nat \ {0} /\ DOMAIN es = 1..Len(es)
  BY EmptySeq
<1>2. Tail(es) \in Seq(Event) /\ Len(Tail(es)) = Len(es) - 1
      /\ \A i \in 1..(Len(es) - 1) : Tail(es)[i] = es[i + 1]
  BY <1>1
<1>3. DOMAIN Tail(es) = 1..(Len(es) - 1)
  BY <1>2
<1>4. Head(es) = es[1] /\ Head(es) \in Event /\ 1 \in DOMAIN es
  BY <1>1
<1>5. \A i \in CallsIn(Tail(es)) :
        i \in Nat /\ i + 1 \in CallsIn(es) /\ Tail(es)[i] = es[i + 1]
  BY <1>1, <1>2, <1>3 DEF CallsIn
<1>6. ASSUME NEW i \in CallsIn(es), i # 1 PROVE i - 1 \in CallsIn(Tail(es))
  <2>1. i \in 1..Len(es) /\ i - 1 \in 1..(Len(es) - 1)
    BY <1>1, <1>6 DEF CallsIn
  <2>2. Tail(es)[i - 1] = es[(i - 1) + 1] /\ (i - 1) + 1 = i
    BY <1>2, <2>1
  <2> QED BY <1>3, <2>1, <2>2 DEF CallsIn
<1> QED BY <1>2, <1>4, <1>5, <1>6
-----------------------------------------------------------------------------
(* A command is handled.                                                   *)

LEMMA ClientIsNot == \A cl \in Client : cl # NoClient
  BY DEF Client, NoClient

\* Its client by is the one that is served, alive or not, and sends it next.
LEMMA Handled ==
  ASSUME Types, OneCall, Served, NEW c \in Commands, Command(c)
  PROVE  /\ Calls = {1} /\ events[1] = Head(events)
         /\ Head(events).by \in Client /\ Head(events).by \in Present
         /\ InOrder(Head(events).by) /\ Obeyed(Head(events).by)
         /\ client \in {NoClient, Head(events).by}
         /\ c \in Head(events).by.todo
         /\ \A d \in Head(events).by.todo : Rank(c) <= Rank(d)
<1>1. events \in Seq(Event) /\ events # <<>>
  BY DEF Types, Command
<1>2. Head(events) = events[1] /\ Head(events) \in Event /\ 1 \in DOMAIN events
  BY <1>1, Removed
<1>3. c # "SAVE"
  BY DEF Commands, Settings
<1>4. Head(events).cmd = c /\ Head(events).by \in Client
  BY <1>2, <1>3 DEF Command, Event
<1>5. 1 \in Calls
  BY <1>2, <1>3, <1>4 DEF Calls
<1>6. Calls = {1}
  BY <1>5 DEF OneCall
<1>7. Head(events).by \in Present
  BY <1>2, <1>5 DEF Present
<1> QED BY <1>2, <1>4, <1>5, <1>6, <1>7 DEF OneCall, Served

\* A handled command is not in the queue any more.
LEMMA NoCallLeft ==
  ASSUME Types, Calls = {1}, events # <<>>, NEW n \in Nat,
         events' = Tail(events) \/ events' = Tail(events) \o Saves(n)
  PROVE  events' \in Seq(Event) /\ Calls' = {}
<1>1. events \in Seq(Event)
  BY DEF Types
<1>2. Tail(events) \in Seq(Event) /\ CallsIn(Tail(events)) = {}
  <2>1. Tail(events) \in Seq(Event)
    BY <1>1, Removed
  <2>2. ASSUME NEW i \in CallsIn(Tail(events)) PROVE FALSE
    <3>1. i \in Nat /\ i + 1 \in CallsIn(events)
      BY <1>1, <2>2, Removed
    <3>2. i + 1 = 1
      BY <3>1 DEF Calls, CallsIn
    <3>3. 0 \notin DOMAIN Tail(events)
      BY <2>1
    <3> QED BY <3>1, <3>2, <3>3 DEF CallsIn
  <2> QED BY <2>1, <2>2
<1>3. CASE events' = Tail(events)
  BY <1>2, <1>3 DEF Calls, CallsIn
<1>4. CASE events' = Tail(events) \o Saves(n)
  <2>1. events' \in Seq(Event) /\ CallsIn(events') = {}
    BY <1>2, <1>4, Appended
  <2> QED BY <2>1 DEF Calls, CallsIn
<1> QED BY <1>3, <1>4

\* Who is present then is the client, if it got an OK and has more to send: it has
\* done what it had done, and this command.
LEMMA Answered ==
  ASSUME Types, OneCall, Served, NEW c \in Commands, Command(c), NEW st, Answer(st),
         Calls' = {}
  PROVE  /\ client' \in {NoClient} \cup Client /\ served' \in Nat
         /\ OneCall'
         /\ \A cl \in Present' :
              /\ st = "OK" /\ cl.opts = Head(events).by.opts
              /\ InOrder(cl) /\ cl.todo # {}
              /\ \A d : Done(cl, d) <=> Done(Head(events).by, d) \/ d = c
<1> DEFINE by == Head(events).by
<1>1. /\ by \in Client /\ InOrder(by) /\ client \in {NoClient, by}
      /\ c \in by.todo /\ \A d \in by.todo : Rank(c) <= Rank(d)
      /\ Head(events).cmd = c
  BY Handled DEF Command
<1>2. served' \in Nat
  BY DEF Types, Answer
<1>3. OneCall'
  BY DEF OneCall
<1>4. Present' = {client'} \ {NoClient}
  BY DEF Present, NoClient
<1> HIDE DEF by
<1>5. CASE client' = NoClient
  BY <1>2, <1>3, <1>4, <1>5
<1>6. CASE client' # NoClient
  <2>1. /\ client = by /\ st = "OK" /\ client.todo # {c}
        /\ client' = [by EXCEPT !.todo = @ \ {c}]
    BY <1>1, <1>6 DEF Answer, Continue, by
  <2>2. /\ client' \in Client /\ client'.opts = by.opts
        /\ client'.todo = by.todo \ {c} /\ client'.todo # {}
    BY <1>1, <2>1 DEF Client
  <2> DEFINE cl == client'
  <2>3. by.todo \subseteq Script(by.opts) /\ by.todo \subseteq Commands
    BY <1>1 DEF InOrder, Client
  <2>4. \A d : Done(cl, d) <=> Done(by, d) \/ d = c
    BY <1>1, <2>2, <2>3 DEF Done
  <2>5. InOrder(cl)
    <3>1. ASSUME NEW e \in Script(cl.opts) \ cl.todo, NEW d \in cl.todo
          PROVE Rank(e) < Rank(d)
      <4>1. d \in by.todo /\ d # c /\ d \in Commands
        BY <2>2, <2>3, <3>1
      <4>2. e = c \/ e \in Script(by.opts) \ by.todo
        BY <2>2, <3>1
      <4>3. CASE e = c
        BY <1>1, <4>1, <4>3, RankUnique
      <4>4. CASE e \in Script(by.opts) \ by.todo
        BY <1>1, <4>1, <4>4 DEF InOrder
      <4> QED BY <4>2, <4>3, <4>4
    <3>2. cl.todo \subseteq Script(cl.opts)
      BY <2>2, <2>3
    <3> HIDE DEF cl
    <3> QED BY <3>1, <3>2 DEF InOrder
  <2>6. \A x \in Present' : x = cl
    BY <1>4
  <2> HIDE DEF cl
  <2>7. cl.opts = by.opts /\ cl.todo # {}
    BY <2>2 DEF cl
  <2> QED BY <1>2, <1>3, <2>1, <2>2, <2>4, <2>5, <2>6, <2>7 DEF by
<1> QED BY <1>5, <1>6
-----------------------------------------------------------------------------
(* Init and the steps of the client.                                       *)

LEMMA InvInit == Init => IInv
<1> SUFFICES ASSUME Init PROVE IInv
  OBVIOUS
<1> USE DEF Init
<1>1. Calls = {} /\ Present = {}
  BY DEF Calls, Present
<1>2. /\ camera \in [Settings \cup Names -> Values \cup Files \cup {NoFile}]
      /\ \A k \in Settings : camera[k] = Standard[k] /\ camera[k] \in Values
      /\ \A k \in Names : camera[k] = NoFile
  BY ObservationAssumption DEF Names, Settings
<1>3. Types
  <2>1. acq \in Acquisition
    BY DEF Acquisition
  <2>2. events \in Seq(Event)
    OBVIOUS
  <2> QED BY <1>2, <2>1, <2>2, ObservationAssumption DEF Types
<1>4. OneCall /\ Served
  BY <1>1 DEF OneCall, Served
<1>5. Agree /\ Kept /\ FileKept /\ Honoured
  BY <1>2 DEF Agree, Kept, Unsaved, FileKept, Acquiring, Honoured
<1> QED BY <1>3, <1>4, <1>5 DEF IInv

\* What is said of the camera, the exposure and the image stays true while they
\* do not change.
LEMMA Untouched ==
  ASSUME IInv, UNCHANGED <<camera, driver, acq, image, refused>>
  PROVE  /\ Agree' /\ Kept' /\ FileKept' /\ Honoured'
         /\ \A cl : Obeyed(cl) => Obeyed(cl)'
  BY DEF IInv, Agree, Kept, Unsaved, FileKept, Acquiring, Honoured, Obeyed

LEMMA ConnectStep ==
  ASSUME IInv, NEW o \in Options, Connect(o) PROVE IInv'
<1>1. Types /\ OneCall /\ Served
  BY DEF IInv
<1>2. client' = NoClient
        \/ client' = [id |-> served + 1, opts |-> o, todo |-> Script(o)]
  BY DEF Connect
<1>3. served' \in Nat /\ served + 1 \in Nat \ {0}
  BY <1>1 DEF Types, Connect
<1>4. client' \in {NoClient} \cup Client
  BY <1>2, <1>3, Scripts DEF Client
<1>5. Types'
  BY <1>1, <1>3, <1>4 DEF Types, Connect
<1>6. Calls' = {}
  BY DEF Connect, Calls
<1>7. OneCall'
  BY <1>6 DEF OneCall
<1>8. ASSUME NEW cl \in Present' PROVE (InOrder(cl) /\ Obeyed(cl))'
  <2>1. cl = [id |-> served + 1, opts |-> o, todo |-> Script(o)]
    BY <1>2, <1>6, <1>8 DEF Present
  <2>2. cl.opts = o /\ cl.todo = Script(o)
    BY <2>1
  <2>3. \A d : ~Done(cl, d)
    BY <2>2 DEF Done
  <2>4. InOrder(cl)
    BY <2>2 DEF InOrder
  <2> QED BY <2>3, <2>4 DEF Obeyed
<1>9. Agree' /\ Kept' /\ FileKept' /\ Honoured'
  BY Untouched DEF Connect
<1> QED BY <1>5, <1>7, <1>8, <1>9 DEF IInv, Served

LEMMA SendStep ==
  ASSUME IInv, SendCommand PROVE IInv'
<1>1. Types /\ OneCall /\ Served
  BY DEF IInv
<1>2. PICK c \in client.todo :
        /\ \A d \in client.todo : Rank(c) <= Rank(d)
        /\ events' = Append(events, [cmd |-> c, by |-> client])
  BY DEF SendCommand
<1>3. client \in Client /\ c \in Commands /\ c # "SAVE"
  BY <1>1, <1>2 DEF SendCommand, Types, Client, Commands, Settings
<1> DEFINE e == [cmd |-> c, by |-> client]
<1>4. e \in Event
  BY <1>3 DEF Event
<1>5. /\ events \in Seq(Event) /\ Len(events) \in Nat
      /\ DOMAIN events = 1..Len(events)
  BY <1>1 DEF Types
<1> HIDE DEF e
<1>6. /\ events' \in Seq(Event) /\ Len(events') = Len(events) + 1
      /\ DOMAIN events' = 1..(Len(events) + 1)
      /\ \A i \in 1..Len(events) : events'[i] = events[i]
      /\ events'[Len(events) + 1] = e
  BY <1>2, <1>4, <1>5 DEF e
<1>7. \A i \in Calls' : i = Len(events) + 1
  <2>1. \A i \in DOMAIN events : events[i].cmd = "SAVE"
    BY DEF SendCommand, Calls
  <2> QED BY <1>5, <1>6, <2>1 DEF Calls
<1>8. \A i \in Calls' : events'[i].cmd = c /\ events'[i].by = client
  BY <1>6, <1>7 DEF e
<1>9. client' = client
  BY DEF SendCommand
<1>10. OneCall'
  BY <1>2, <1>7, <1>8, <1>9 DEF OneCall
<1>11. \A cl \in Present' : cl = client /\ cl \in Present
  BY <1>3, <1>8, <1>9, ClientIsNot DEF Present
<1>12. Types'
  BY <1>1, <1>6 DEF Types, SendCommand
<1>13. /\ Agree' /\ Kept' /\ FileKept' /\ Honoured'
       /\ \A cl : Obeyed(cl) => Obeyed(cl)'
  BY Untouched DEF SendCommand
<1>14. Served'
  BY <1>1, <1>11, <1>13 DEF Served, InOrder
<1> QED BY <1>10, <1>12, <1>13, <1>14 DEF IInv

LEMMA DeathStep ==
  ASSUME IInv, ClientDies PROVE IInv'
<1>1. Types /\ OneCall /\ Served
  BY DEF IInv
<1>2. Types'
  BY <1>1 DEF Types, ClientDies
<1>3. Calls' = Calls /\ events' = events /\ client' = NoClient
  BY DEF Calls, ClientDies
<1>4. OneCall'
  BY <1>1, <1>3 DEF OneCall
<1>5. \A cl \in Present' : cl \in Present
  BY <1>3 DEF Present
<1>6. /\ Agree' /\ Kept' /\ FileKept' /\ Honoured'
      /\ \A cl : Obeyed(cl) => Obeyed(cl)'
  BY Untouched DEF ClientDies
<1>7. Served'
  BY <1>1, <1>5, <1>6 DEF Served, InOrder
<1> QED BY <1>2, <1>4, <1>6, <1>7 DEF IInv
-----------------------------------------------------------------------------
(* The steps of the server.                                                *)

\* What every command does to the queue and to its client.
LEMMA CommandStep ==
  ASSUME IInv, NEW c \in Commands, Command(c), NEW st, Answer(st), NEW n \in Nat,
         events' = Tail(events) \/ events' = Tail(events) \o Saves(n)
  PROVE  /\ events' \in Seq(Event) /\ OneCall'
         /\ client' \in {NoClient} \cup Client /\ served' \in Nat
         /\ \A cl \in Present' :
              /\ st = "OK" /\ cl.opts = Head(events).by.opts
              /\ InOrder(cl) /\ cl.todo # {}
              /\ \A d : Done(cl, d) <=> Done(Head(events).by, d) \/ d = c
<1>1. Types /\ OneCall /\ Served
  BY DEF IInv
<1>2. Calls = {1} /\ events # <<>>
  BY <1>1, Handled DEF Command
<1>3. events' \in Seq(Event) /\ Calls' = {}
  BY <1>1, <1>2, NoCallLeft
<1>4. /\ client' \in {NoClient} \cup Client /\ served' \in Nat
      /\ OneCall'
      /\ \A cl \in Present' :
           /\ st = "OK" /\ cl.opts = Head(events).by.opts
           /\ InOrder(cl) /\ cl.todo # {}
           /\ \A d : Done(cl, d) <=> Done(Head(events).by, d) \/ d = c
  BY <1>1, <1>3, Answered
<1> QED BY <1>3, <1>4

\* The options of a client whose command it is.
LEMMA ItsOptions ==
  ASSUME IInv, NEW c \in Commands, Command(c)
  PROVE  /\ Opts \in Options /\ c \in Script(Opts)
         /\ Obeyed(Head(events).by) /\ Head(events).by \in Client
         /\ \A d \in Commands :
              Done(Head(events).by, d) <=> d \in Script(Opts) /\ Rank(d) < Rank(c)
<1> DEFINE by == Head(events).by
<1>1. Types /\ OneCall /\ Served
  BY DEF IInv
<1>2. /\ by \in Client /\ InOrder(by) /\ Obeyed(by) /\ c \in by.todo
      /\ \A d \in by.todo : Rank(c) <= Rank(d)
  BY <1>1, Handled
<1>3. by.opts = Opts /\ Opts \in Options
  BY <1>2 DEF Opts, Client
<1>4. c \in Script(Opts)
  BY <1>2, <1>3 DEF InOrder
<1>5. ASSUME NEW d \in Commands
      PROVE Done(by, d) <=> d \in Script(Opts) /\ Rank(d) < Rank(c)
  <2>1. Rank(c) \in Nat /\ Rank(d) \in Nat
    BY RankNat
  <2>2. CASE d \in by.todo
    BY <1>2, <2>1, <2>2 DEF Done
  <2>3. CASE d \notin by.todo
    BY <1>2, <1>3, <2>3 DEF Done, InOrder
  <2> QED BY <2>2, <2>3
<1> QED BY <1>2, <1>3, <1>4, <1>5

\* A disturbed acquisition is the same but for `quiet'.
LEMMA Disturbance ==
  ASSUME Types
  PROVE  /\ Disturbed \in Acquisition /\ Disturbed.status = acq.status
         /\ Disturbed.quiet = (acq.quiet /\ ~Unsaved)
         /\ acq.status # "none" => Disturbed.opts = acq.opts /\ Disturbed.hdr = acq.hdr
                                   /\ Disturbed.taken = acq.taken
<1>1. CASE acq.status = "none"
  BY <1>1 DEF Types, Acquisition, Disturbed, Unsaved
<1>2. CASE acq.status # "none"
  BY <1>2 DEF Types, Acquisition, Disturbed, Unsaved
<1> QED BY <1>1, <1>2

\* Whatever disturbs an exposure that is not saved leaves nothing to be kept.
LEMMA DisturbedKept ==
  ASSUME Types, acq' = Disturbed
  PROVE  Kept' /\ (Acquiring' <=> Acquiring)
  BY Disturbance DEF Kept, Unsaved, Acquiring

LEMMA ControlStep ==
  ASSUME IInv, NEW c \in {"COOLER", "FAN", "SETTEMP", "GETTEMP"}, Command(c),
         NEW st, Answer(st), events' = Tail(events),
         UNCHANGED <<camera, driver, acq, poller, connected, image, refused>>
  PROVE  IInv'
<1> DEFINE by == Head(events).by
<1>1. c \in Commands /\ c \notin Settings \cup Names
  BY DEF Commands, Settings, Names
<1>2. /\ events' \in Seq(Event) /\ OneCall'
      /\ client' \in {NoClient} \cup Client /\ served' \in Nat
      /\ \A cl \in Present' :
           /\ cl.opts = by.opts /\ InOrder(cl)
           /\ \A d : Done(cl, d) <=> Done(by, d) \/ d = c
  BY <1>1, CommandStep
<1>3. Types'
  BY <1>2 DEF Types, IInv
<1>4. Obeyed(by)
  BY <1>1, ItsOptions
<1>5. Agree' /\ Kept' /\ FileKept' /\ Honoured'
  BY <1>4, Untouched
<1> HIDE DEF by
<1>6. ASSUME NEW cl \in Present' PROVE InOrder(cl) /\ Obeyed(cl)'
  <2>1. cl.opts = by.opts /\ InOrder(cl)
        /\ \A d \in Settings \cup Names : Done(cl, d) <=> Done(by, d)
    BY <1>1, <1>2
  <2> QED BY <1>4, <2>1, Untouched DEF Obeyed, Names, Settings
<1>7. Served'
  BY <1>6 DEF Served, InOrder
<1> QED BY <1>2, <1>3, <1>5, <1>7 DEF IInv

LEMMA SetStep ==
  ASSUME IInv, NEW k \in Settings, Set(k) PROVE IInv'
<1> DEFINE by == Head(events).by
<1> DEFINE v == Effective(k, Opts.set[k])
<1>1. k \in Commands /\ k \notin Names /\ Command(k) /\ events' = Tail(events)
  BY DEF Commands, Settings, Names, Set
<1>2. PICK answer \in Answers :
        /\ DriverAnswer(answer)
        /\ camera' = [camera EXCEPT ![k] = v]
        /\ driver' = IF answer = "OK" THEN [driver EXCEPT ![k] = v] ELSE driver
        /\ refused' = IF answer = "OK" THEN refused \ {k} ELSE refused \cup {k}
        /\ Answer(answer)
  BY DEF Set
<1>3. /\ events' \in Seq(Event) /\ OneCall'
      /\ client' \in {NoClient} \cup Client /\ served' \in Nat
      /\ \A cl \in Present' :
           /\ answer = "OK" /\ cl.opts = by.opts /\ InOrder(cl)
           /\ \A d : Done(cl, d) <=> Done(by, d) \/ d = k
  BY <1>1, <1>2, CommandStep
<1>4. Types
  BY DEF IInv
<1>5. v \in Values
  <2>1. Opts \in Options /\ k \in Script(Opts)
    BY <1>1, ItsOptions
  <2>2. k \in DOMAIN Opts.set
    BY <2>1, Scripts
  <2> QED BY <2>1, <2>2, ObservationAssumption DEF Effective
<1> HIDE DEF v
<1>6. /\ camera'[k] = v /\ camera' \in [Settings \cup Names -> Values \cup Files \cup {NoFile}]
      /\ \A j \in Settings \cup Names : j # k => camera'[j] = camera[j]
  BY <1>2, <1>4, <1>5 DEF Types
<1>7. /\ driver' \in [Settings -> Values]
      /\ answer = "OK" => driver'[k] = v
      /\ \A j \in Settings : j # k => driver'[j] = driver[j]
  BY <1>2, <1>4, <1>5 DEF Types
<1>8. acq' = Disturbed /\ UNCHANGED <<poller, connected, image>>
  BY DEF Set
<1>9. Types'
  BY <1>1, <1>2, <1>3, <1>4, <1>5, <1>6, <1>7, <1>8, Disturbance DEF Types
<1>10. Agree'
  BY <1>2, <1>6, <1>7 DEF Agree, IInv
<1>11. Kept' /\ (Acquiring' <=> Acquiring)
  BY <1>4, <1>8, DisturbedKept
<1>12. FileKept'
  BY <1>1, <1>4, <1>6, <1>8, <1>11, Disturbance DEF FileKept, IInv, Names, Acquiring
<1>13. Honoured'
  BY <1>8 DEF Honoured, IInv
<1>14. Obeyed(by)
  BY <1>1, ItsOptions
<1> HIDE DEF by
<1>15. ASSUME NEW cl \in Present' PROVE InOrder(cl) /\ Obeyed(cl)'
  <2>1. /\ answer = "OK" /\ cl.opts = by.opts /\ InOrder(cl)
        /\ \A d : Done(cl, d) <=> Done(by, d) \/ d = k
    BY <1>3
  <2>2. ~Acquiring
    BY <1>2, <2>1 DEF DriverAnswer
  <2>3. camera'[k] = Effective(k, cl.opts.set[k]) /\ driver'[k] = camera'[k]
        /\ k \notin refused'
    BY <1>2, <1>6, <1>7, <2>1 DEF v, by, Opts
  <2>4. \A j \in Settings \ {k} :
          Done(cl, j) => /\ camera'[j] = Effective(j, cl.opts.set[j])
                         /\ driver'[j] = camera'[j]
                         /\ j \notin refused'
    BY <1>2, <1>6, <1>7, <1>14, <2>1 DEF Obeyed
  <2>5. /\ Done(cl, "FITSFILE") => camera'["FITSFILE"] = cl.opts.fits
        /\ Done(cl, "HEADFILE") => camera'["HEADFILE"] = cl.opts.hdr
    BY <1>1, <1>6, <1>14, <2>1 DEF Obeyed, Names
  <2> QED BY <1>11, <2>1, <2>2, <2>3, <2>4, <2>5 DEF Obeyed
<1>16. Served'
  BY <1>15 DEF Served, InOrder
<1> QED BY <1>3, <1>9, <1>10, <1>11, <1>12, <1>13, <1>16 DEF IInv

LEMMA SetFileStep ==
  ASSUME IInv, NEW c \in Names, SetFile(c) PROVE IInv'
<1> DEFINE by == Head(events).by
<1> DEFINE v == IF c = "FITSFILE" THEN Opts.fits ELSE Opts.hdr
<1>1. c \in Commands /\ c \notin Settings /\ Command(c) /\ events' = Tail(events)
  BY DEF Commands, Settings, Names, SetFile
<1>2. camera' = [camera EXCEPT ![c] = v] /\ acq' = Disturbed /\ Answer("OK")
      /\ UNCHANGED <<driver, poller, connected, image, refused>>
  BY DEF SetFile
<1>3. /\ events' \in Seq(Event) /\ OneCall'
      /\ client' \in {NoClient} \cup Client /\ served' \in Nat
      /\ \A cl \in Present' :
           /\ cl.opts = by.opts /\ InOrder(cl)
           /\ \A d : Done(cl, d) <=> Done(by, d) \/ d = c
  BY <1>1, <1>2, CommandStep
<1>4. Types
  BY DEF IInv
<1>5. /\ Opts \in Options /\ c \in Script(Opts) /\ Obeyed(by)
      /\ \A d \in Commands :
           Done(by, d) <=> d \in Script(Opts) /\ Rank(d) < Rank(c)
  BY <1>1, ItsOptions
<1>6. v \in Files \cup {NoFile}
  BY <1>5, ObservationAssumption
<1> HIDE DEF v
<1>7. /\ camera'[c] = v /\ camera' \in [Settings \cup Names -> Values \cup Files \cup {NoFile}]
      /\ \A j \in Settings \cup Names : j # c => camera'[j] = camera[j]
  BY <1>2, <1>4, <1>6 DEF Types
<1>8. Types'
  BY <1>1, <1>2, <1>3, <1>4, <1>6, <1>7, Disturbance DEF Types
<1>9. Agree'
  BY <1>1, <1>2, <1>7 DEF Agree, IInv
<1>10. Kept' /\ (Acquiring' <=> Acquiring)
  BY <1>2, <1>4, DisturbedKept
\* Its client set the shutter before, which the driver refuses while it acquires.
<1>11. ~Acquiring
  <2>1. "SHUTTER" \in Script(Opts) /\ "SHUTTER" \in Commands
    BY <1>5, Scripts DEF Commands, Settings
  <2>2. Rank("SHUTTER") < Rank(c)
    BY Ranks DEF Names
  <2>3. Done(by, "SHUTTER")
    BY <1>5, <2>1, <2>2
  <2> QED BY <1>5, <2>3 DEF Obeyed
<1>12. FileKept'
  BY <1>10, <1>11 DEF FileKept
<1>13. Honoured'
  BY <1>2 DEF Honoured, IInv
<1> HIDE DEF by
<1>14. ASSUME NEW cl \in Present' PROVE InOrder(cl) /\ Obeyed(cl)'
  <2>1. /\ cl.opts = by.opts /\ InOrder(cl)
        /\ \A d : Done(cl, d) <=> Done(by, d) \/ d = c
    BY <1>3
  <2>2. \A j \in Settings :
          Done(cl, j) => /\ camera'[j] = Effective(j, cl.opts.set[j])
                         /\ driver'[j] = camera'[j]
                         /\ j \notin refused'
    BY <1>1, <1>2, <1>5, <1>7, <2>1 DEF Obeyed
  <2>3. /\ Done(cl, "FITSFILE") => camera'["FITSFILE"] = cl.opts.fits
        /\ Done(cl, "HEADFILE") => camera'["HEADFILE"] = cl.opts.hdr
    BY <1>5, <1>7, <2>1 DEF Obeyed, Names, v, by, Opts
  <2> QED BY <1>10, <1>11, <2>1, <2>2, <2>3 DEF Obeyed
<1>15. Served'
  BY <1>14 DEF Served, InOrder
<1> QED BY <1>3, <1>8, <1>9, <1>10, <1>12, <1>13, <1>15 DEF IInv

\* START is the last command: nobody is present when it is handled.
LEMMA StartStep ==
  ASSUME IInv, StartExposure PROVE IInv'
<1> DEFINE by == Head(events).by
<1>1. "START" \in Commands /\ Command("START") /\ events' = Tail(events)
  BY DEF Commands, StartExposure
<1>2. PICK answer \in Answers :
        /\ DriverAnswer(answer)
        /\ Answer(answer)
        /\ IF answer # "OK"
           THEN acq' = Disturbed /\ UNCHANGED <<poller, connected>>
           ELSE /\ acq' = [status |-> "running", id |-> Head(events).by.id,
                           opts |-> Opts, taken |-> driver,
                           hdr |-> camera["HEADFILE"], quiet |-> TRUE,
                           watched |->
                             /\ poller.at # "seen" /\ ~(poller.at = "on" /\ poller.stop)
                             /\ \A i \in DOMAIN events : events[i].cmd # "SAVE"]
                /\ connected' = connected + 1
                /\ poller' = IF poller.at = "off" THEN [poller EXCEPT !.at = "started"]
                             ELSE poller
  BY DEF StartExposure
<1>3. UNCHANGED <<camera, driver, image, refused>>
  BY DEF StartExposure
<1>4. Types
  BY DEF IInv
<1>5. /\ events' \in Seq(Event) /\ OneCall'
      /\ client' \in {NoClient} \cup Client /\ served' \in Nat
      /\ \A cl \in Present' :
           /\ cl.opts = by.opts /\ InOrder(cl) /\ cl.todo # {}
           /\ \A d : Done(cl, d) <=> Done(by, d) \/ d = "START"
  BY <1>1, <1>2, CommandStep
<1>6. /\ Opts \in Options /\ "START" \in Script(Opts) /\ Obeyed(by) /\ by \in Client
      /\ by.opts = Opts
      /\ \A d \in Commands :
           Done(by, d) <=> d \in Script(Opts) /\ Rank(d) < Rank("START")
  BY <1>1, ItsOptions DEF Opts
<1>7. \A d \in Script(Opts) : d # "START" => Done(by, d)
  <2>1. Script(Opts) \subseteq Commands
    BY <1>6, Scripts
  <2>2. \A d \in Commands : d # "START" => Rank(d) < Rank("START")
    BY Ranks DEF Commands, Settings
  <2> QED BY <1>6, <2>1, <2>2
<1> HIDE DEF by
<1>8. Present' = {}
  <2> SUFFICES ASSUME NEW cl \in Present' PROVE FALSE
    OBVIOUS
  <2>1. PICK d : d \in cl.todo
    BY <1>5
  <2>2. d \in Script(Opts) /\ ~Done(cl, d)
    BY <1>5, <1>6, <2>1 DEF InOrder, Done
  <2> QED BY <1>5, <1>7, <2>2
<1>9. Served'
  BY <1>8 DEF Served
<1>10. Agree' /\ Honoured'
  BY <1>3 DEF Agree, Honoured, IInv
<1>11. CASE answer # "OK"
  <2>1. acq' = Disturbed /\ UNCHANGED <<poller, connected>>
    BY <1>2, <1>11
  <2>2. Types'
    BY <1>3, <1>4, <1>5, <2>1, Disturbance DEF Types
  <2>3. Kept' /\ (Acquiring' <=> Acquiring)
    BY <1>4, <2>1, DisturbedKept
  <2>4. FileKept'
    BY <1>3, <1>4, <2>1, <2>3, Disturbance DEF FileKept, IInv, Acquiring
  <2> QED BY <1>5, <1>9, <1>10, <2>2, <2>3, <2>4 DEF IInv
<1>12. CASE answer = "OK"
  <2>1. /\ acq'.status = "running" /\ acq'.opts = Opts /\ acq'.taken = driver
        /\ acq'.hdr = camera["HEADFILE"] /\ acq'.quiet = TRUE
    BY <1>2, <1>12
  <2>2. acq' \in Acquisition
    <3>1. by.id \in Nat /\ camera["HEADFILE"] \in Files \cup {NoFile}
          /\ driver \in [Settings -> Values]
      BY <1>4, <1>6 DEF Types, Client, Names
    <3> DEFINE w == /\ poller.at # "seen" /\ ~(poller.at = "on" /\ poller.stop)
                    /\ \A i \in DOMAIN events : events[i].cmd # "SAVE"
    <3>2. w \in BOOLEAN
      OBVIOUS
    <3> HIDE DEF w
    <3>3. acq' = [status |-> "running", id |-> by.id,
                  opts |-> Opts, taken |-> driver,
                  hdr |-> camera["HEADFILE"], quiet |-> TRUE, watched |-> w]
      BY <1>2, <1>12 DEF by, w
    <3> QED BY <1>6, <3>1, <3>2, <3>3 DEF Acquisition
  <2>3. poller' \in [at : {"off", "started", "on", "seen"}, stop : BOOLEAN]
        /\ connected' \in Nat
    BY <1>2, <1>4, <1>12 DEF Types
  <2>4. Types'
    BY <1>3, <1>4, <1>5, <2>2, <2>3 DEF Types
  \* The client has done everything that it was given to do.
  <2>5. camera["FITSFILE"] = Opts.fits
    BY <1>6, <1>7, Scripts DEF Obeyed
  <2>6. Opts.hdr # NoFile => camera["HEADFILE"] = Opts.hdr
    BY <1>6, <1>7, Scripts DEF Obeyed
  <2>7. ASSUME NEW k \in Settings, Given(Opts, k)
        PROVE driver[k] = Effective(k, Opts.set[k]) /\ camera[k] = driver[k]
    <3>1. k \in Script(Opts) /\ k # "START"
      BY <1>6, <2>7, Scripts DEF Given, Settings
    <3>2. Done(by, k)
      BY <1>7, <3>1
    <3> QED BY <1>6, <3>2 DEF Obeyed
  <2>8. Kept'
    BY <1>3, <2>1, <2>5, <2>6, <2>7 DEF Kept, IInv, Agree, Given
  <2>9. FileKept'
    BY <1>3, <2>1, <2>5 DEF FileKept
  <2> QED BY <1>5, <1>9, <1>10, <2>4, <2>8, <2>9 DEF IInv
<1> QED BY <1>11, <1>12

LEMMA StopStep ==
  ASSUME IInv, StopExposure PROVE IInv'
<1> DEFINE by == Head(events).by
<1>1. /\ "STOP" \in Commands /\ "STOP" \notin Settings \cup Names
      /\ Command("STOP") /\ events' = Tail(events) /\ Answer(lastError')
  BY DEF Commands, Settings, Names, StopExposure
<1>2. /\ acq' = IF Acquiring THEN [Disturbed EXCEPT !.status = "aborted"] ELSE Disturbed
      /\ poller' = [poller EXCEPT !.stop = TRUE] /\ connected' = 0
      /\ UNCHANGED <<camera, driver, image, refused>>
  BY DEF StopExposure
<1>3. Types
  BY DEF IInv
<1>4. /\ events' \in Seq(Event) /\ OneCall'
      /\ client' \in {NoClient} \cup Client /\ served' \in Nat
      /\ \A cl \in Present' :
           /\ cl.opts = by.opts /\ InOrder(cl)
           /\ \A d : Done(cl, d) <=> Done(by, d) \/ d = "STOP"
  BY <1>1, CommandStep
<1>5. /\ acq' \in Acquisition /\ ~Acquiring'
      /\ Unsaved' => ~acq'.quiet
  <2>1. CASE Acquiring
    <3>1. /\ acq.status = "running" /\ acq' = [Disturbed EXCEPT !.status = "aborted"]
          /\ Disturbed \in Acquisition /\ Disturbed.status = "running"
          /\ Disturbed.quiet = FALSE
      BY <1>2, <1>3, <2>1, Disturbance DEF Acquiring, Unsaved
    <3>2. acq'.status = "aborted" /\ acq'.quiet = FALSE /\ acq' \in Acquisition
      BY <3>1 DEF Acquisition
    <3> QED BY <3>2 DEF Acquiring
  <2>2. CASE ~Acquiring
    BY <1>2, <1>3, <2>2, Disturbance DEF Acquiring, Unsaved
  <2> QED BY <2>1, <2>2
<1>6. poller' \in [at : {"off", "started", "on", "seen"}, stop : BOOLEAN]
  BY <1>2, <1>3 DEF Types
<1>7. Types'
  BY <1>2, <1>3, <1>4, <1>5, <1>6 DEF Types
<1>8. Agree' /\ Kept' /\ FileKept' /\ Honoured'
  BY <1>2, <1>5 DEF Agree, Kept, FileKept, Honoured, IInv
<1>9. Obeyed(by)
  BY <1>1, ItsOptions
<1> HIDE DEF by
<1>10. ASSUME NEW cl \in Present' PROVE InOrder(cl) /\ Obeyed(cl)'
  <2>1. cl.opts = by.opts /\ InOrder(cl)
        /\ \A d \in Settings \cup Names : Done(cl, d) <=> Done(by, d)
    BY <1>1, <1>4
  <2> QED BY <1>2, <1>5, <1>9, <2>1 DEF Obeyed, Names, Settings
<1>11. Served'
  BY <1>10 DEF Served, InOrder
<1> QED BY <1>4, <1>7, <1>8, <1>11 DEF IInv

\* INIT comes before everything that its client sets.
LEMMA InitCameraStep ==
  ASSUME IInv, InitCamera PROVE IInv'
<1> DEFINE by == Head(events).by
<1> DEFINE n == IF poller.at = "off" THEN 0 ELSE connected'
<1>1. /\ "INIT" \in Commands /\ "INIT" \notin Settings \cup Names /\ Command("INIT")
      /\ Answer("OK") /\ events' = Tail(events) \o Saves(n)
  <2>1. events' = Tail(events) \o Saves(n)
    BY DEF InitCamera
  <2>2. Command("INIT") /\ Answer("OK")
    BY DEF InitCamera
  <2> HIDE DEF n
  <2> QED BY <2>1, <2>2 DEF Commands, Settings, Names
<1>2. /\ acq' = [Disturbed EXCEPT !.status = IF @ = "none" THEN @ ELSE "cleared"]
      /\ connected' = IF Acquiring THEN 0 ELSE connected
      /\ poller' = [at |-> "off", stop |-> poller.at # "off" \/ poller.stop]
      /\ camera' = [k \in DOMAIN camera |->
                      IF k \in {"RATE", "GAIN", "FRAME"} THEN Standard[k] ELSE camera[k]]
      /\ image' = image
  BY DEF InitCamera
<1>3. PICK time \in {driver["EXPTIME"], Standard["EXPTIME"]} :
        /\ driver' = [k \in Settings |-> IF k = "EXPTIME" THEN time ELSE camera'[k]]
        /\ refused' = IF time # driver["EXPTIME"] \/ "EXPTIME" \in refused
                      THEN {"EXPTIME"} ELSE {}
  BY DEF InitCamera
<1>4. Types
  BY DEF IInv
<1>5. n \in Nat
  BY <1>2, <1>4 DEF Types
<1> HIDE DEF n
<1>6. /\ events' \in Seq(Event) /\ OneCall'
      /\ client' \in {NoClient} \cup Client /\ served' \in Nat
      /\ \A cl \in Present' :
           /\ cl.opts = by.opts /\ InOrder(cl)
           /\ \A d : Done(cl, d) <=> Done(by, d) \/ d = "INIT"
  BY <1>1, <1>5, CommandStep
<1>7. acq' \in Acquisition /\ ~Unsaved' /\ ~Acquiring'
  <2>1. Disturbed \in Acquisition
    BY <1>4, Disturbance
  <2>2. acq' \in Acquisition /\ acq'.status \in {"none", "cleared"}
    BY <1>2, <2>1 DEF Acquisition
  <2> QED BY <2>2 DEF Unsaved, Acquiring
<1>8. /\ camera' \in [Settings \cup Names -> Values \cup Files \cup {NoFile}]
      /\ \A k \in Settings : camera'[k] \in Values
      /\ \A k \in Names : camera'[k] = camera[k]
      /\ \A k \in Settings : camera'[k] = IF k \in {"RATE", "GAIN", "FRAME"}
                                          THEN Standard[k] ELSE camera[k]
  <2>1. /\ DOMAIN camera = Settings \cup Names
        /\ \A k \in Settings : camera[k] \in Values /\ Standard[k] \in Values
        /\ \A k \in Names : camera[k] \in Files \cup {NoFile}
        /\ \A k \in Names : k \notin {"RATE", "GAIN", "FRAME"}
    BY <1>4, ObservationAssumption DEF Types, Names
  <2> QED BY <1>2, <2>1
<1>9. /\ driver' \in [Settings -> Values] /\ refused' \subseteq Settings
      /\ \A k \in Settings : k # "EXPTIME" => driver'[k] = camera'[k]
      /\ driver'["EXPTIME"] = time
  <2>1. time \in Values /\ "EXPTIME" \in Settings
    BY <1>4, ObservationAssumption DEF Types, Settings
  <2> QED BY <1>3, <1>8, <2>1
<1>10. /\ poller' \in [at : {"off", "started", "on", "seen"}, stop : BOOLEAN]
       /\ connected' \in Nat
  BY <1>2, <1>4 DEF Types
<1>11. Types'
  BY <1>4, <1>6, <1>7, <1>8, <1>9, <1>10 DEF Types
<1>12. Agree'
  <2> SUFFICES ASSUME NEW k \in Settings \ refused' PROVE camera'[k] = driver'[k]
    BY DEF Agree
  <2>1. CASE k # "EXPTIME"
    BY <1>9, <2>1
  <2>2. CASE k = "EXPTIME"
    <3>1. time = driver["EXPTIME"] /\ "EXPTIME" \notin refused
      BY <1>3, <2>2
    <3>2. camera["EXPTIME"] = driver["EXPTIME"]
      BY <2>2, <3>1 DEF IInv, Agree
    <3> QED BY <1>8, <1>9, <2>2, <3>1, <3>2
  <2> QED BY <2>1, <2>2
<1>13. Kept' /\ FileKept' /\ Honoured'
  BY <1>2, <1>7 DEF Kept, FileKept, Honoured, IInv
<1> HIDE DEF by
<1>14. ASSUME NEW cl \in Present' PROVE InOrder(cl) /\ Obeyed(cl)'
  <2>1. cl.opts = by.opts /\ InOrder(cl)
        /\ \A d \in Settings \cup Names : Done(cl, d) <=> Done(by, d)
    BY <1>1, <1>6
  <2>2. Settings \cup Names \subseteq Commands
    BY DEF Commands, Names
  <2>3. \A d \in Settings \cup Names : ~Done(by, d)
    <3>1. \A d \in Commands : Done(by, d) => Rank(d) < Rank("INIT")
      BY <1>1, ItsOptions DEF by
    <3>2. \A d \in Settings \cup Names : ~(Rank(d) < Rank("INIT"))
      BY Ranks DEF Settings, Names
    <3> QED BY <2>2, <3>1, <3>2
  <2> QED BY <2>1, <2>3 DEF Obeyed, Names, Settings
<1>15. Served'
  BY <1>14 DEF Served, InOrder
<1> QED BY <1>6, <1>11, <1>12, <1>13, <1>15 DEF IInv

-----------------------------------------------------------------------------
(* The steps of the exposure.                                              *)

LEMMA EndStep ==
  ASSUME IInv, AcquisitionEnds PROVE IInv'
<1>1. Types
  BY DEF IInv
<1>2. /\ acq.status = "running" /\ acq' = [acq EXCEPT !.status = "ended"]
      /\ UNCHANGED <<client, served, events, camera, driver, poller, connected,
                     image, refused>>
  BY DEF AcquisitionEnds, Acquiring
<1>3. /\ acq' \in Acquisition /\ acq'.status = "ended"
      /\ acq'.opts = acq.opts /\ acq'.taken = acq.taken /\ acq'.hdr = acq.hdr
      /\ acq'.quiet = acq.quiet
  BY <1>1, <1>2 DEF Types, Acquisition
<1>4. Types'
  BY <1>1, <1>2, <1>3 DEF Types
<1>5. Calls' = Calls /\ Present' = Present
  BY <1>2 DEF Calls, Present
<1>6. OneCall'
  BY <1>2, <1>5 DEF OneCall, IInv
<1>7. ~Acquiring'
  BY <1>3 DEF Acquiring
<1>8. Served'
  BY <1>2, <1>5, <1>7 DEF Served, InOrder, Obeyed, IInv
<1>9. Kept'
  BY <1>2, <1>3 DEF Kept, Unsaved, IInv
<1>10. Agree' /\ FileKept' /\ Honoured'
  BY <1>2, <1>7 DEF Agree, FileKept, Honoured, IInv
<1> QED BY <1>4, <1>6, <1>8, <1>9, <1>10 DEF IInv

\* While no command comes or goes, the same client is present.
LEMMA SamePresent ==
  ASSUME IInv, client' = client, NEW n \in Nat,
         \/ events' = events
         \/ events # <<>> /\ Head(events).cmd = "SAVE" /\ events' = Tail(events)
         \/ events' = events \o Saves(n)
  PROVE  /\ events' \in Seq(Event) /\ OneCall'
         /\ \A cl \in Present' : cl \in Present
<1>1. events \in Seq(Event) /\ OneCall
  BY DEF IInv, Types
<1>2. CASE events' = events
  BY <1>1, <1>2 DEF OneCall, Calls, Present
<1>3. CASE events # <<>> /\ Head(events).cmd = "SAVE" /\ events' = Tail(events)
  <2>1. events' \in Seq(Event)
    BY <1>1, <1>3, Removed
  <2>2. \A i \in Calls' : i \in Nat /\ i + 1 \in Calls /\ events'[i] = events[i + 1]
    BY <1>1, <1>3, Removed DEF Calls, CallsIn
  <2>3. \A i, j \in Calls' : i = j
    BY <1>1, <2>2 DEF OneCall
  <2> QED BY <1>1, <2>1, <2>2, <2>3 DEF OneCall, Present
<1>4. CASE events' = events \o Saves(n)
  <2>1. /\ events' \in Seq(Event) /\ Calls' = Calls
        /\ \A i \in Calls : events'[i] = events[i]
    BY <1>1, <1>4, Appended DEF Calls, CallsIn
  <2> QED BY <1>1, <2>1 DEF OneCall, Present
<1> QED BY <1>2, <1>3, <1>4

LEMMA PollerStep ==
  ASSUME IInv, Poller PROVE IInv'
<1>1. Types
  BY DEF IInv
<1>2. UNCHANGED <<client, served, camera, driver, acq, connected, image, refused>>
  BY DEF Poller, PollerEnter, PollerSees, PollerEmits
<1>3. poller' \in [at : {"off", "started", "on", "seen"}, stop : BOOLEAN]
  BY <1>1 DEF Types, Poller, PollerEnter, PollerSees, PollerEmits, ForgetStop
<1>4. events' = events \/ events' = events \o Saves(connected)
  BY DEF Poller, PollerEnter, PollerSees, PollerEmits, Saves
<1>5. /\ events' \in Seq(Event) /\ OneCall'
      /\ \A cl \in Present' : cl \in Present
  BY <1>1, <1>2, <1>4, SamePresent DEF Types
<1>6. Types'
  BY <1>1, <1>2, <1>3, <1>5 DEF Types
<1>7. /\ Agree' /\ Kept' /\ FileKept' /\ Honoured'
      /\ \A cl : Obeyed(cl) => Obeyed(cl)'
  BY <1>2, Untouched
<1>8. Served'
  BY <1>5, <1>7 DEF Served, InOrder, IInv
<1> QED BY <1>5, <1>6, <1>7, <1>8 DEF IInv

\* What is saved was there to be kept.
LEMMA SaveStep ==
  ASSUME IInv, SaveFITS PROVE IInv'
<1>1. Types
  BY DEF IInv
<1>2. PICK read \in BOOLEAN :
        /\ acq.status \in {"none", "running", "read", "cleared"} => ~read
        /\ acq' = IF read THEN [acq EXCEPT !.status = "read"] ELSE acq
        /\ image' = [saved |-> read, of |-> acq, label |-> camera, refused |-> refused]
  BY DEF SaveFITS
<1>3. UNCHANGED <<client, served, camera, driver, poller, refused>> /\ connected' = 0
      /\ events # <<>> /\ Head(events).cmd = "SAVE" /\ events' = Tail(events)
  BY DEF SaveFITS, Command
<1>4. read => acq.status \in {"ended", "aborted"}
  BY <1>1, <1>2 DEF Types, Acquisition
<1>5. /\ acq' \in Acquisition
      /\ acq' = acq \/ acq'.status = "read"
  BY <1>1, <1>2, <1>4 DEF Types, Acquisition
<1>6. 0 \in Nat /\ events' \in Seq(Event) /\ OneCall'
      /\ \A cl \in Present' : cl \in Present
  BY <1>3, SamePresent
<1>7. Types'
  BY <1>1, <1>3, <1>5, <1>6 DEF Types
<1>8. Acquiring' => Acquiring
  BY <1>5 DEF Acquiring
<1>9. Served'
  BY <1>3, <1>6, <1>8 DEF Served, InOrder, Obeyed, IInv
<1>10. Agree'
  BY <1>3 DEF Agree, IInv
<1>11. Kept'
  BY <1>3, <1>5 DEF Kept, Unsaved, IInv
<1>12. FileKept'
  BY <1>3, <1>5 DEF FileKept, Acquiring, IInv
<1>13. Honoured'
  <2> SUFFICES ASSUME read, acq.quiet PROVE Honoured'
    BY <1>2 DEF Honoured
  <2>1. image'.of = acq /\ image'.label = camera /\ image'.refused = refused
    BY <1>2
  <2>2. Unsaved
    BY <1>4 DEF Unsaved
  <2> QED BY <2>1, <2>2 DEF Honoured, Kept, IInv
<1> QED BY <1>6, <1>7, <1>9, <1>10, <1>11, <1>12, <1>13 DEF IInv

-----------------------------------------------------------------------------
(* The theorems.                                                           *)

LEMMA StutterStep ==
  ASSUME IInv, UNCHANGED vars PROVE IInv'
<1>1. Calls' = Calls /\ Present' = Present
  BY DEF vars, Calls, Present
<1>2. Types'
  BY DEF IInv, vars, Types
<1>3. OneCall'
  BY <1>1 DEF IInv, vars, OneCall
<1>4. /\ Agree' /\ Kept' /\ FileKept' /\ Honoured'
      /\ \A cl : Obeyed(cl) => Obeyed(cl)'
  BY Untouched DEF vars
<1>5. Served'
  BY <1>1, <1>4 DEF IInv, Served, InOrder
<1> QED BY <1>2, <1>3, <1>4, <1>5 DEF IInv

LEMMA InvStep ==
  ASSUME IInv, [Next]_vars PROVE IInv'
<1>1. ASSUME NEW o \in Options, Connect(o) PROVE IInv'
  BY <1>1, ConnectStep
<1>2. CASE SendCommand
  BY <1>2, SendStep
<1>3. CASE ClientDies
  BY <1>3, DeathStep
<1>4. ASSUME NEW k \in Settings, Set(k) PROVE IInv'
  BY <1>4, SetStep
<1>5. ASSUME NEW c \in {"COOLER", "FAN", "SETTEMP"}, Control(c) PROVE IInv'
  <2>1. PICK answer \in {"OK", "ACQUIRING"} : Answer(answer)
    BY <1>5 DEF Control
  <2>2. /\ Command(c) /\ events' = Tail(events)
        /\ UNCHANGED <<camera, driver, acq, poller, connected, image, refused>>
    BY <1>5 DEF Control
  <2> QED BY <2>1, <2>2, ControlStep
<1>6. CASE GetTemp
  <2>1. /\ Command("GETTEMP") /\ Answer(lastError') /\ events' = Tail(events)
        /\ UNCHANGED <<camera, driver, acq, poller, connected, image, refused>>
    BY <1>6 DEF GetTemp
  <2> QED BY <2>1, ControlStep
<1>7. ASSUME NEW c \in {"FITSFILE", "HEADFILE"}, SetFile(c) PROVE IInv'
  BY <1>7, SetFileStep DEF Names
<1>8. CASE StartExposure
  BY <1>8, StartStep
<1>9. CASE StopExposure
  BY <1>9, StopStep
<1>10. CASE InitCamera
  BY <1>10, InitCameraStep
<1>11. CASE SaveFITS
  BY <1>11, SaveStep
<1>12. CASE AcquisitionEnds
  BY <1>12, EndStep
<1>13. CASE Poller
  BY <1>13, PollerStep
<1>14. CASE UNCHANGED vars
  BY <1>14, StutterStep
<1> QED
  BY <1>1, <1>2, <1>3, <1>4, <1>5, <1>6, <1>7, <1>8, <1>9, <1>10, <1>11, <1>12,
     <1>13, <1>14
  DEF Next, ExecuteCommand

\* The state is what IInv says of it, whatever clients come, die or leave, and
\* whatever the driver refuses.
THEOREM ObservationCorrect == Spec => []IInv
  BY InvInit, InvStep, PTL DEF Spec

\* Nobody redirects the image while the driver acquires (client/main.cpp:493-562,
\* the shutter before the files).
THEOREM FileKeptCorrect == Spec => []FileKept
<1>1. IInv => FileKept
  BY DEF IInv
<1> QED BY <1>1, ObservationCorrect, PTL

\* An image that is saved and that nobody disturbed is the one that its client
\* asked for, with the name, header and settings that it gave: by the order of the
\* commands and the client's leaving at the first status that is not OK.
THEOREM HonouredCorrect == Spec => []Honoured
<1>1. IInv => Honoured
  BY DEF IInv
<1> QED BY <1>1, ObservationCorrect, PTL
-----------------------------------------------------------------------------
(* The safety part of Delivered: an exposure that is to be saved is not     *)
(* forgotten.                                                               *)

\* The exposure that Delivered speaks of, until it is saved.
Pending == acq.status \in {"running", "ended"} /\ acq.quiet /\ acq.watched

\* The poller will look at this acquisition, and not take a stop for its end.
Watching ==
  \/ poller.at = "started"
  \/ poller.at = "on" /\ ~poller.stop
  \/ poller.at = "seen" /\ acq.status = "ended"

SaveQueued == \E i \in DOMAIN events : events[i].cmd = "SAVE"

\* The attempt to save it has failed, and the reason is the region.
Lost == image.of = acq /\ "FRAME" \in image.refused

\* The end of the exposure will lead to a call of SaveFITS, none comes too early, and
\* the one that comes saves it unless its region is not the one that the driver took.
NotForgotten ==
  Pending =>
    /\ acq.status = "running" => ~SaveQueued
    /\ \/ connected > 0 /\ Watching
       \/ acq.status = "ended" /\ (SaveQueued \/ Lost)

\* A command in the queue is no call of SaveFITS.
LEMMA SaveQueue ==
  ASSUME Types
  PROVE  /\ \A c \in Commands : Command(c) /\ events' = Tail(events) =>
              (SaveQueued' <=> SaveQueued)
         /\ \A c \in Commands, cl \in Client :
              events' = Append(events, [cmd |-> c, by |-> cl]) =>
                (SaveQueued' <=> SaveQueued)
         /\ \A n \in Nat :
              events' = events \o Saves(n) => (SaveQueued' <=> SaveQueued \/ n > 0)
<1>0. events \in Seq(Event) /\ Len(events) \in Nat /\ DOMAIN events = 1..Len(events)
  BY DEF Types
<1>1. "SAVE" \notin Commands
  BY DEF Commands, Settings
<1>2. ASSUME NEW c \in Commands, Command(c), events' = Tail(events)
      PROVE  SaveQueued' <=> SaveQueued
  <2>1. /\ events # <<>> /\ events[1].cmd = c /\ Len(events) # 0
        /\ DOMAIN events' = 1..(Len(events) - 1)
        /\ \A i \in 1..(Len(events) - 1) : events'[i] = events[i + 1]
    BY <1>0, <1>2, Removed DEF Command
  <2>2. \A i \in DOMAIN events' : i + 1 \in DOMAIN events /\ events'[i] = events[i + 1]
    BY <1>0, <2>1
  <2>3. \A i \in DOMAIN events : i # 1 =>
          i - 1 \in DOMAIN events' /\ events'[i - 1] = events[i]
    BY <1>0, <2>1
  <2> QED BY <1>1, <2>1, <2>2, <2>3 DEF SaveQueued
<1>3. ASSUME NEW c \in Commands, NEW cl \in Client,
             events' = Append(events, [cmd |-> c, by |-> cl])
      PROVE  SaveQueued' <=> SaveQueued
  <2> DEFINE e == [cmd |-> c, by |-> cl]
  <2>1. e.cmd # "SAVE" /\ e \in Event
    BY <1>1 DEF Event
  <2>2. events' = Append(events, e)
    BY <1>3
  <2> HIDE DEF e
  <2>3. /\ DOMAIN events' = 1..(Len(events) + 1) /\ events'[Len(events) + 1] = e
        /\ \A i \in 1..Len(events) : events'[i] = events[i]
    BY <1>0, <2>1, <2>2
  <2> QED BY <1>0, <2>1, <2>3 DEF SaveQueued
<1>4. ASSUME NEW n \in Nat, events' = events \o Saves(n)
      PROVE  SaveQueued' <=> SaveQueued \/ n > 0
  <2>1. /\ Saves(n) \in Seq(Event) /\ Len(Saves(n)) = n
        /\ \A i \in 1..n : Saves(n)[i].cmd = "SAVE"
    BY SavesType DEF Saves
  <2>2. /\ DOMAIN events' = 1..(Len(events) + n)
        /\ \A i \in 1..(Len(events) + n) :
             events'[i] = IF i <= Len(events) THEN events[i] ELSE Saves(n)[i - Len(events)]
    <3> DEFINE sv == Saves(n)
    <3>1. sv \in Seq(Event) /\ Len(sv) = n
      BY <2>1
    <3>2. events' = events \o sv
      BY <1>4
    <3> HIDE DEF sv
    <3>3. /\ events \o sv \in Seq(Event) /\ Len(events \o sv) = Len(events) + n
          /\ \A i \in 1..(Len(events) + n) :
               (events \o sv)[i] = IF i <= Len(events) THEN events[i]
                                                     ELSE sv[i - Len(events)]
      BY <1>0, <3>1, ConcatProperties
    <3>4. DOMAIN events' = 1..(Len(events) + n)
      BY <3>2, <3>3
    <3> QED BY <3>2, <3>3, <3>4 DEF sv
  <2>3. \A i \in DOMAIN events : i \in DOMAIN events' /\ events'[i] = events[i]
    BY <1>0, <2>2
  <2>4. \A i \in DOMAIN events' : i \in DOMAIN events \/ n > 0
    BY <1>0, <2>2
  <2>5. ASSUME n > 0 PROVE SaveQueued'
    <3>1. /\ Len(events) + 1 \in DOMAIN events' /\ ~(Len(events) + 1 <= Len(events))
          /\ (Len(events) + 1) - Len(events) = 1 /\ 1 \in 1..n
      BY <1>0, <2>2, <2>5
    <3> QED BY <2>1, <2>2, <3>1 DEF SaveQueued
  <2> QED BY <2>3, <2>4, <2>5 DEF SaveQueued
<1> QED BY <1>2, <1>3, <1>4

\* What disturbs an exposure, or ends it otherwise, leaves none that is pending.
LEMMA NotPending ==
  ASSUME Types,
         \/ acq' = Disturbed
         \/ acq'.status \notin {"running", "ended"}
  PROVE  ~Pending'
  BY Disturbance DEF Pending, Unsaved

LEMMA NotForgottenStep ==
  ASSUME IInv, NotForgotten, [Next]_vars PROVE NotForgotten'
<1>0. /\ Types /\ Agree /\ connected \in Nat
      /\ poller \in [at : {"off", "started", "on", "seen"}, stop : BOOLEAN]
      /\ acq \in Acquisition
  BY DEF IInv, Types
\* The steps that are no part of an exposure.
<1>1. ASSUME UNCHANGED <<acq, connected, poller, image>>, SaveQueued' <=> SaveQueued
      PROVE  NotForgotten'
  BY <1>1 DEF NotForgotten, Pending, Watching, Lost
<1>2. ASSUME ~Pending' PROVE NotForgotten'
  BY <1>2 DEF NotForgotten
<1>3. ASSUME NEW o \in Options, Connect(o) PROVE NotForgotten'
  BY <1>1, <1>3 DEF Connect, SaveQueued
<1>4. CASE SendCommand
  <2>1. client \in Client
    BY <1>0, <1>4 DEF SendCommand, Types
  <2>2. PICK c \in client.todo : events' = Append(events, [cmd |-> c, by |-> client])
    BY <1>4 DEF SendCommand
  <2>3. c \in Commands
    BY <2>1 DEF Client
  <2>4. SaveQueued' <=> SaveQueued
    BY <1>0, <2>1, <2>2, <2>3, SaveQueue
  <2> QED BY <1>1, <1>4, <2>4 DEF SendCommand
<1>5. CASE ClientDies \/ UNCHANGED vars
  BY <1>1, <1>5 DEF ClientDies, vars, SaveQueued
<1>6. ASSUME NEW k \in Settings, Set(k) PROVE NotForgotten'
  BY <1>0, <1>2, <1>6, NotPending DEF Set
<1>7. CASE GetTemp \/ \E c \in {"COOLER", "FAN", "SETTEMP"} : Control(c)
  <2>1. /\ \E c \in {"COOLER", "FAN", "SETTEMP", "GETTEMP"} : Command(c)
        /\ events' = Tail(events) /\ UNCHANGED <<acq, connected, poller, image>>
    BY <1>7 DEF GetTemp, Control
  <2>2. {"COOLER", "FAN", "SETTEMP", "GETTEMP"} \subseteq Commands
    BY DEF Commands
  <2>3. SaveQueued' <=> SaveQueued
    BY <1>0, <2>1, <2>2, SaveQueue
  <2> QED BY <1>1, <2>1, <2>3
<1>8. ASSUME NEW c \in {"FITSFILE", "HEADFILE"}, SetFile(c) PROVE NotForgotten'
  BY <1>0, <1>2, <1>8, NotPending DEF SetFile
\* It begins with a poller that is started or will not be stopped, and nothing of the one
\* before is in the queue.
<1>9. CASE StartExposure
  <2>1. CASE acq' = Disturbed
    BY <1>0, <1>2, <2>1, NotPending
  <2>2. CASE acq' # Disturbed
    <3>1. /\ acq'.watched =>
               /\ poller.at # "seen" /\ ~(poller.at = "on" /\ poller.stop)
               /\ \A i \in DOMAIN events : events[i].cmd # "SAVE"
          /\ connected' = connected + 1
          /\ poller' = IF poller.at = "off" THEN [poller EXCEPT !.at = "started"]
                       ELSE poller
      BY <1>9, <2>2 DEF StartExposure
    <3>2. Command("START") /\ events' = Tail(events) /\ "START" \in Commands
      BY <1>9 DEF StartExposure, Commands
    <3>3. SaveQueued' <=> SaveQueued
      BY <1>0, <3>2, SaveQueue
    <3>4. connected' > 0
      BY <1>0, <3>1
    <3>5. acq'.watched => Watching'
      BY <1>0, <3>1 DEF Watching
    <3> QED BY <3>1, <3>3, <3>4, <3>5 DEF NotForgotten, Pending, SaveQueued
  <2> QED BY <2>1, <2>2
<1>10. CASE StopExposure
  <2>1. CASE ~Acquiring
    BY <1>0, <1>2, <1>10, <2>1, NotPending DEF StopExposure
  <2>2. CASE Acquiring
    <3>1. Disturbed \in Acquisition /\ acq' = [Disturbed EXCEPT !.status = "aborted"]
      BY <1>0, <1>10, <2>2, Disturbance DEF StopExposure
    <3>2. acq'.status = "aborted"
      BY <3>1 DEF Acquisition
    <3> QED BY <1>0, <1>2, <3>2, NotPending
  <2> QED BY <2>1, <2>2
<1>11. CASE InitCamera
  <2>1. /\ Disturbed \in Acquisition
        /\ acq' = [Disturbed EXCEPT !.status = IF @ = "none" THEN @ ELSE "cleared"]
    BY <1>0, <1>11, Disturbance DEF InitCamera
  <2>2. acq'.status \in {"none", "cleared"}
    BY <2>1 DEF Acquisition
  <2> QED BY <1>0, <1>2, <2>2, NotPending
\* SaveFITS fails only because of the region, which the driver has refused then.
<1>12. CASE SaveFITS
  <2>1. PICK read \in BOOLEAN :
          /\ acq.status = "ended" /\ camera["FRAME"] = driver["FRAME"] => read
          /\ acq.status \in {"none", "running", "read", "cleared"} => ~read
          /\ acq' = IF read THEN [acq EXCEPT !.status = "read"] ELSE acq
          /\ image' = [saved |-> read, of |-> acq, label |-> camera, refused |-> refused]
    BY <1>12 DEF SaveFITS
  <2>2. SaveQueued
    <3>1. events \in Seq(Event) /\ events # <<>> /\ Head(events).cmd = "SAVE"
      BY <1>0, <1>12 DEF SaveFITS, Command, Types
    <3>2. Head(events) = events[1] /\ 1 \in DOMAIN events
      BY <3>1, Removed
    <3> QED BY <3>1, <3>2 DEF SaveQueued
  <2>3. CASE read
    <3>1. acq'.status = "read"
      BY <1>0, <2>1, <2>3 DEF Acquisition
    <3> QED BY <1>0, <1>2, <3>1, NotPending
  <2>4. CASE ~read
    <3>1. acq' = acq
      BY <2>1, <2>4
    <3>2. Pending => acq.status = "ended"
      BY <2>2 DEF NotForgotten, Pending
    <3>3. Pending => "FRAME" \in refused
      BY <1>0, <2>1, <2>4, <3>2 DEF Agree, Settings
    <3>4. image'.of = acq /\ image'.refused = refused
      BY <2>1
    <3> QED BY <3>1, <3>2, <3>3, <3>4 DEF NotForgotten, Pending, Lost
  <2> QED BY <2>3, <2>4
<1>13. CASE AcquisitionEnds
  <2>1. /\ acq.status = "running" /\ acq' = [acq EXCEPT !.status = "ended"]
        /\ UNCHANGED <<connected, poller>>
    BY <1>13 DEF AcquisitionEnds, Acquiring
  <2>2. acq'.status = "ended" /\ acq'.quiet = acq.quiet /\ acq'.watched = acq.watched
    BY <1>0, <2>1 DEF Acquisition
  <2> QED BY <2>1, <2>2 DEF NotForgotten, Pending, Watching
\* The poller sees the end only when there is one.
<1>14. CASE PollerEnter \/ PollerSees
  <2>1. UNCHANGED <<acq, connected, image, events>>
    BY <1>14 DEF PollerEnter, PollerSees
  <2>2. Pending /\ Watching => Watching'
    BY <1>0, <1>14, <2>1 DEF PollerEnter, ForgetStop, PollerSees, Watching, Acquiring,
      Pending
  <2> QED BY <2>1, <2>2 DEF NotForgotten, Pending, SaveQueued, Lost
<1>15. CASE PollerEmits
  <2>1. /\ poller.at = "seen" /\ UNCHANGED <<acq, image>>
        /\ events' = events \o Saves(connected)
    BY <1>15 DEF PollerEmits
  <2>2. SaveQueued' <=> SaveQueued \/ connected > 0
    BY <1>0, <2>1, SaveQueue
  <2> QED BY <2>1, <2>2 DEF NotForgotten, Pending, Watching, Lost
<1> QED
  BY <1>3, <1>4, <1>5, <1>6, <1>7, <1>8, <1>9, <1>10, <1>11, <1>12, <1>13, <1>14, <1>15
     DEF Next, ExecuteCommand, Poller

\* Whoever comes after its client, an exposure that nobody disturbs has a poller that
\* will see its end, and nothing else, and be connected to SaveFITS, or a call of SaveFITS in the
\* queue, until it is saved; and it is not saved only when its region is one that the
\* driver has refused (camera.cpp:577-611 and SaveFITS).
THEOREM NotForgottenCorrect == Spec => []NotForgotten
<1>1. Init => NotForgotten
  BY DEF Init, NotForgotten, Pending
<1>2. IInv /\ NotForgotten /\ [Next]_vars => NotForgotten'
  BY NotForgottenStep
<1> QED BY <1>1, <1>2, ObservationCorrect, PTL DEF Spec
=============================================================================
