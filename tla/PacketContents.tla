---------------------------- MODULE PacketContents ----------------------------
(***************************************************************************)
(* What the classes of packets make of their arguments and read back from  *)
(* a content (net_protocol/netpacket.cpp).  A sender fills one object again *)
(* and again and sends it; a receiver reads a packet as an object of the    *)
(* class it expects.  NetPacketStream says how the bytes get there; the      *)
(* names of the two differ, so that NetPacketStreamProofs can use both.      *)
(*                                                                          *)
(* A text is a sequence of pieces: the delimiter Sp, numerals, and pieces   *)
(* of words.  A numeral is the number that it denotes.                      *)
(***************************************************************************)
EXTENDS Naturals, Sequences, SequencesExt, FiniteSets

CONSTANTS
  Sp,         \* NETPROTOCOL_CONTENT_DELIMETER, a space
  Joint,      \* "_", which takes the place of Sp in the name of a command
  Pieces,     \* pieces of words, none of which is a numeral
  Upper,      \* Upper[p]: p in upper case
  Numbers,
  Given,      \* those of them that callers give as numbers with fractions
  Whole,      \* those that toUInt() and toLong() read
  Zero,       \* 0
  UnknownError, \* NETPROTOCOL_ERROR_UNKNOWN
  Success,    \* DRV_SUCCESS
  TempOff,    \* DRV_TEMP_OFF
  Rounded12,  \* Rounded12[x]: x as setNum(x, 'g', 12) writes it
  Rounded6,   \* Rounded6[x]: x as QTextStream writes it
  Texts,      \* texts that callers give
  StatusTexts, \* those of them that describe the camera
  Vectors,    \* vectors of numbers that callers give
  MaxLength   \* NETPROTOCOL_MAX_CONTENT_LEN, in pieces: no content without a text
              \* is too long

ASSUME PacketContentsAssumption ==
  /\ Joint \in Pieces /\ Sp \notin Pieces \cup Numbers
  /\ Pieces \cap Numbers = {}
  /\ Upper \in [Pieces -> Pieces]
  /\ {Zero, UnknownError, Success, TempOff} \subseteq Whole /\ Whole \subseteq Numbers
  /\ Rounded12 \in [Numbers -> Numbers] /\ Rounded6 \in [Numbers -> Numbers]
  /\ \A n \in Whole : Rounded12[n] = n /\ Rounded6[n] = n
  /\ Texts \subseteq Seq({Sp} \cup Pieces)
  /\ StatusTexts \subseteq Texts
  /\ Given \subseteq Numbers /\ Vectors \subseteq Seq(Numbers)
  /\ MaxLength \in Nat /\ MaxLength >= 8

VARIABLES
  asked,   \* history: what the sender's object was last told to hold
  packet,  \* Packet of the sender's object, and the request it was made of
  wire,    \* the packet on its way; <<>> if there is none
  read     \* what the receiver read of it, and the request it was made of

objectVars == <<asked, packet, wire, read>>

-----------------------------------------------------------------------------
(* Operations of QString (external).                                       *)

\* indexOf(Sp): 0 if there is none.
IndexOf(t) == SelectInSeq(t, LAMBDA a : a = Sp)

\* split(Sp, SkipEmptyParts).
Fields(t) ==
  LET begins == {i \in DOMAIN t : t[i] # Sp /\ (i = 1 \/ t[i - 1] = Sp)}
      begin(k) == CHOOSE i \in begins : Cardinality({j \in begins : j < i}) = k - 1
      stop(i) == CHOOSE j \in i..Len(t) : /\ \A k \in i..j : t[k] # Sp
                                          /\ j = Len(t) \/ t[j + 1] = Sp
  IN [k \in 1..Cardinality(begins) |-> SubSeq(t, begin(k), stop(begin(k)))]

\* The fields with one delimiter between two of them.
Join(fs) ==
  FoldLeft(LAMBDA t, f : IF t = <<>> THEN f ELSE t \o <<Sp>> \o f, <<>>, fs)

simplified(t) == Join(Fields(t))

trimmed(t) ==
  LET inner == {i \in DOMAIN t : t[i] # Sp}
  IN IF inner = {} THEN <<>>
     ELSE SubSeq(t, CHOOSE i \in inner : \A j \in inner : i <= j,
                    CHOOSE i \in inner : \A j \in inner : i >= j)

toUpper(t) == [i \in DOMAIN t |-> IF t[i] \in Pieces THEN Upper[t[i]] ELSE t[i]]

\* toDouble(), toUInt() and toLong() ignore white space around a numeral.
IsNumber(t) == Len(trimmed(t)) = 1 /\ trimmed(t)[1] \in Numbers
IsWhole(t) == IsNumber(t) /\ trimmed(t)[1] \in Whole
Value(t) == trimmed(t)[1]

-----------------------------------------------------------------------------
(* What is asked of the objects.  A command has a text or numbers.         *)

Classes == {"INFO", "CMD", "STATUS", "TEMP", "HELLO", "GUI"}

Info == [id : {"INFO"}, text : Texts]
TextCommand == [id : {"CMD"}, name : Texts, text : Texts]
NumberCommand == [id : {"CMD"}, name : Texts, numbers : Vectors]
Status == [id : {"STATUS"}, code : Whole, text : Texts]
Temp == [id : {"TEMP"}, temp : Given, cooler : Whole]
Hello == [id : {"HELLO"}, version : Texts,
          type : {t \in Texts \ {<<>>} : \A i \in DOMAIN t : t[i] # Sp}]
Gui == [id : {"GUI"}, error : Whole, temp : Given, cooler : Whole,
        clock : Given, status : StatusTexts]

\* What an object of class c is told to hold.
Requests(c) ==
  CASE c = "INFO"   -> Info
    [] c = "CMD"    -> TextCommand \cup NumberCommand
    [] c = "STATUS" -> Status
    [] c = "TEMP"   -> Temp
    [] c = "HELLO"  -> Hello
    [] c = "GUI"    -> Gui

-----------------------------------------------------------------------------
(* Making a content.                                                       *)

\* CmdNetPacket::Init, for a text.
CmdName(name) ==
  LET s == simplified(name)
  IN toUpper([i \in DOMAIN s |-> IF s[i] = Sp THEN Joint ELSE s[i]])

\* Init of a vector: 12 digits, one delimiter between two numbers.
NumberArgs(numbers) ==
  Join([i \in DOMAIN numbers |-> <<Rounded12[numbers[i]]>>])

CmdContent(m) ==
  CmdName(m.name) \o <<Sp>>
    \o IF "text" \in DOMAIN m THEN m.text ELSE NumberArgs(m.numbers)

\* StatusNetPacket::Init (mutant: without the delimiter).
StatusContent_Bare(m) == <<m.code>> \o m.text
StatusContent(m) == IF m.text = <<>> THEN <<m.code>> ELSE <<m.code, Sp>> \o m.text

TempContent(m) == <<Rounded6[m.temp], Sp, m.cooler>>

\* The constructor leaves the delimiter out when there is no version,
\* SetSenderType does not.
HelloContents(m) ==
  {m.type \o <<Sp>> \o m.version}
    \cup IF m.version = <<>> THEN {m.type} ELSE {}

GuiContent(m) ==
  <<m.error, Sp, Rounded6[m.temp], Sp, m.cooler, Sp, Rounded6[m.clock], Sp>>
    \o m.status

Contents(m) ==
  CASE m.id = "INFO"   -> {m.text}
    [] m.id = "CMD"    -> {CmdContent(m)}
    [] m.id = "STATUS" -> {StatusContent(m)}
    [] m.id = "TEMP"   -> {TempContent(m)}
    [] m.id = "HELLO"  -> HelloContents(m)
    [] m.id = "GUI"    -> {GuiContent(m)}

\* CmdNetPacket::Init returns without SetContent when the vector is empty.
Silent(m) == m.id = "CMD" /\ "numbers" \in DOMAIN m /\ m.numbers = <<>>

\* MakePacket gives up when the content is too long (mutant: it does not).
Fits_Always(t) == TRUE
Fits(t) == Len(t) <= MaxLength

-----------------------------------------------------------------------------
(* Reading a content.                                                      *)

\* split_content: the delimiter stays in the right part.
SplitLeft(t) == IF IndexOf(t) = 0 THEN t ELSE SubSeq(t, 1, IndexOf(t) - 1)
SplitRight(t) == IF IndexOf(t) = 0 THEN <<>> ELSE SubSeq(t, IndexOf(t), Len(t))

\* GetCmdArgs(QVector): the parts between delimiters (mutant: empty parts
\* too, of which the delimiter that split_content leaves makes one).
ArgFields_All(t) == <<<<>>>> \o Fields(t)
ArgFields(t) == Fields(t)

\* What the three forms of GetCmdArgs give.
ParseCmd(t) ==
  LET args == SplitRight(t)
      parts == ArgFields(args)
  IN [id |-> "CMD", valid |-> TRUE, name |-> SplitLeft(t), text |-> args,
      isNumber |-> IsNumber(args),
      numbers |-> IF parts # <<>> /\ \A i \in DOMAIN parts : IsNumber(parts[i])
                  THEN [i \in DOMAIN parts |-> Value(parts[i])] ELSE <<>>]

Invalid(id) == [id |-> id, valid |-> FALSE]

ParseStatus(t) ==
  IF IsWhole(SplitLeft(t))
  THEN [id |-> "STATUS", valid |-> TRUE, code |-> Value(SplitLeft(t)),
        text |-> SplitRight(t)]
  ELSE Invalid("STATUS")

\* A temperature that cannot be read leaves the object valid, with whatever it
\* held before, which `unread' stands for.
ParseTemp(t) ==
  LET f == Fields(t)
  IN IF f # <<>> /\ IsNumber(f[1]) /\ (Len(f) > 1 => IsWhole(f[2]))
     THEN [id |-> "TEMP", valid |-> TRUE, unread |-> FALSE, temp |-> Value(f[1]),
           cooler |-> IF Len(f) > 1 THEN <<Value(f[2])>> ELSE <<>>]
     ELSE [id |-> "TEMP", valid |-> TRUE, unread |-> TRUE]

\* HelloNetPacket::ParseContent cuts at the first delimiter (mutant: the last).
Cut_Last(s) == SelectLastInSeq(s, LAMBDA a : a = Sp)
Cut(s) == IndexOf(s)
ParseHello(t) ==
  LET s == trimmed(t)
  IN [id |-> "HELLO", valid |-> TRUE,
      type |-> IF Cut(s) = 0 THEN s ELSE SubSeq(s, 1, Cut(s) - 1),
      version |-> IF Cut(s) = 0 THEN <<>> ELSE SubSeq(s, Cut(s) + 1, Len(s))]

\* The fields from the fifth on are the status of the camera (mutant: only the
\* fifth is).
StatusFields_One(f) == f[5]
StatusFields(f) == Join(SubSeq(f, 5, Len(f)))
ParseGui(t) ==
  LET f == Fields(t)
  IN IF /\ Len(f) >= 5
        /\ IsWhole(f[1]) /\ IsNumber(f[2]) /\ IsWhole(f[3]) /\ IsNumber(f[4])
     THEN [id |-> "GUI", valid |-> TRUE, error |-> Value(f[1]),
           temp |-> Value(f[2]), cooler |-> Value(f[3]), clock |-> Value(f[4]),
           status |-> StatusFields(f)]
     ELSE Invalid("GUI")

ParseContent(id, t) ==
  CASE id = "INFO"   -> [id |-> "INFO", valid |-> TRUE, text |-> t]
    [] id = "CMD"    -> ParseCmd(t)
    [] id = "STATUS" -> ParseStatus(t)
    [] id = "TEMP"   -> ParseTemp(t)
    [] id = "HELLO"  -> ParseHello(t)
    [] id = "GUI"    -> ParseGui(t)

-----------------------------------------------------------------------------
\* What an object of class c holds when it is made by the default constructor.
Default(c) ==
  CASE c = "INFO"   -> [id |-> c, text |-> <<>>]
    [] c = "CMD"    -> [id |-> c, name |-> <<>>, text |-> <<>>]
    [] c = "STATUS" -> [id |-> c, code |-> UnknownError, text |-> <<>>]
    [] c = "TEMP"   -> [id |-> c, temp |-> Zero, cooler |-> Zero]
    [] c = "HELLO"  -> [id |-> c, type |-> <<>>, version |-> <<>>]
    [] c = "GUI"    -> [id |-> c, error |-> Success, temp |-> Zero,
                        cooler |-> TempOff, clock |-> Zero, status |-> <<>>]

Nothing == [expected |-> "nothing"]

ObjectInit ==
  /\ asked \in {Default(c) : c \in Classes}
  /\ \E t \in Contents(asked) : packet = [of |-> asked, content |-> t]
  /\ wire = <<>>
  /\ read = Nothing

\* SetInfo, SetCommand, SetStatus, SetTemp, SetSenderType or SetParams.
Set(m) ==
  /\ wire = <<>>
  /\ asked' = m
  /\ \E t \in Contents(m) :
       packet' = IF Silent(m) \/ ~Fits(t) THEN packet
                 ELSE [of |-> m, content |-> t]
  /\ read' = Nothing
  /\ UNCHANGED wire

\* Send does not look at ValidPacket: it writes what was made last.
SendPacket ==
  /\ wire = <<>>
  /\ wire' = <<packet>>
  /\ UNCHANGED <<asked, packet, read>>

\* Receive of an object of class `expected', with which the id is compared.
Receive(expected) ==
  /\ wire # <<>>
  /\ read' = [expected |-> expected, of |-> wire[1].of,
             is |-> IF wire[1].of.id # expected THEN Invalid(expected)
                    ELSE ParseContent(expected, wire[1].content)]
  /\ wire' = <<>>
  /\ UNCHANGED <<asked, packet>>

ObjectNext ==
  \/ \E m \in Requests(asked.id) : Set(m)
  \/ SendPacket
  \/ \E c \in Classes : Receive(c)

ObjectSpec == ObjectInit /\ [][ObjectNext]_objectVars

-----------------------------------------------------------------------------
(* Properties.                                                             *)

\* The receiver has read a packet of class c as one of class c.
Reads(c) == read.expected = c /\ read.of.id = c

\* A command that the client sends is the one that the server executes: its
\* name, its text but for white space around it, its numbers to 12 digits, and
\* a single number is one for GetCmdArgs(double), too (server.cpp:362-544).
CommandUnderstood ==
  Reads("CMD") =>
    /\ read.is.valid
    /\ read.is.name = CmdName(read.of.name)
    /\ "text" \in DOMAIN read.of => trimmed(read.is.text) = trimmed(read.of.text)
    /\ "numbers" \in DOMAIN read.of =>
         /\ read.is.numbers = [i \in DOMAIN read.of.numbers |->
                                Rounded12[read.of.numbers[i]]]
         /\ read.is.isNumber <=> Len(read.of.numbers) = 1

\* A status reaches the client as the number that the server set, whatever text
\* goes with it, and a temperature to 6 digits, with the state of the cooler; the
\* type by which ClientConnection tells clients from GUIs survives a version of
\* any number of words, or none (client/main.cpp:323 sends three).
AnswerUnderstood ==
  /\ Reads("STATUS") =>
       /\ read.is.valid
       /\ read.is.code = read.of.code
       /\ trimmed(read.is.text) = trimmed(read.of.text)
  /\ Reads("TEMP") =>
       /\ read.is.valid /\ ~read.is.unread
       /\ read.is.temp = Rounded6[read.of.temp]
       /\ read.is.cooler = <<read.of.cooler>>
  /\ Reads("HELLO") =>
       /\ read.is.type = read.of.type
       /\ trimmed(read.is.version) = trimmed(read.of.version)

\* A GUI reads the state whenever the status of the camera has a word, and only
\* then; white space within the status comes out as single delimiters.
StateUnderstood ==
  Reads("GUI") =>
    IF simplified(read.of.status) = <<>> THEN ~read.is.valid
    ELSE read.is = [id |-> "GUI", valid |-> TRUE, error |-> read.of.error,
                    temp |-> Rounded6[read.of.temp], cooler |-> read.of.cooler,
                    clock |-> Rounded6[read.of.clock],
                    status |-> simplified(read.of.status)]

\* A content that the size field cannot tell never leaves; what leaves is what
\* was asked for last, or an earlier request of the same object when the last
\* one was too long, or a command with no numbers.
SentOrStale ==
  /\ Len(packet.content) <= MaxLength
  /\ packet.of.id = asked.id
  /\ packet.of # asked =>
       Silent(asked) \/ \E t \in Contents(asked) : Len(t) > MaxLength
=============================================================================
