----------------------------- MODULE LinkProofs -----------------------------
(***************************************************************************)
(* Proofs about Link: the two configuration files, the way from a line     *)
(* typed at the menu to a request, and the way of requests and responses   *)
(* through streams that are cut into pieces and break, for every content   *)
(* of the files, every input, every encoding and every length.             *)
(***************************************************************************)
EXTENDS Link, WireProofs, FiniteSetTheorems, TLAPS

-----------------------------------------------------------------------------
(* What steps leave alone *)

\* A request is asked with the number of the menu for it.
LEMMA MenuNumbers ==
  /\ \A i : MenuNumber([code |-> 701, id |-> i]) = 120 /\ MenuNumber([code |-> 704, id |-> i]) = 140
  /\ \A i, n, k : MenuNumber([code |-> 700, id |-> i, name |-> n, key |-> k]) = 110
  /\ \A i, d : MenuNumber([code |-> 702, id |-> i, target |-> d]) = 130
  /\ \A i, d, x : LET message(type) == [code |-> 703, id |-> i, target |-> d, type |-> type, content |-> x] IN
       /\ MenuNumber(message(1)) = 151
       /\ MenuNumber(message(2)) = 152
       /\ MenuNumber(message(3)) = 150
BY DEF MenuNumber

LEMMA Asked ==
  AskServer \/ Register \/ AskFriend => \E r : Ask(r) /\ pc = "choice" /\ number = MenuNumber(r)
<1>1. CASE AskServer
  BY <1>1, MenuNumbers DEF AskServer
<1>2. CASE Register
  <2>1. PICK n : Ask([code |-> 700, id |-> me, name |-> n, key |-> Key])
    BY <1>2, Zenon DEF Register
  <2>2. pc = "choice" /\ number = 110
    BY <1>2 DEF Register
  <2> QED
    BY <2>1, <2>2, MenuNumbers
<1>3. CASE AskFriend
  <2>1. PICK row \in friends :
          \/ number = 130 /\ Ask([code |-> 702, id |-> me, target |-> row.id])
          \/ number = 151 /\ Send(row.id, 1, <<>>)
          \/ number = 152 /\ \E content \in Texts : Send(row.id, 2, content)
          \/ number = 150 /\ \E content \in Texts : Send(row.id, 3, content)
    BY <1>3, SMT DEF AskFriend
  <2>2. pc = "choice"
    BY <1>3 DEF AskFriend
  <2>3. CASE number = 130 /\ Ask([code |-> 702, id |-> me, target |-> row.id])
    BY <2>2, <2>3, MenuNumbers
  <2>4. ASSUME NEW type, NEW content, Send(row.id, type, content),
               <<type, number>> \in {<<1, 151>>, <<2, 152>>, <<3, 150>>}
        PROVE  \E r : Ask(r) /\ number = MenuNumber(r)
    BY <2>4, MenuNumbers DEF Send
  <2>5. CASE number = 151 /\ Send(row.id, 1, <<>>)
    BY <2>2, <2>4, <2>5
  <2>6. ASSUME NEW content \in Texts,
               \/ number = 152 /\ Send(row.id, 2, content)
               \/ number = 150 /\ Send(row.id, 3, content)
        PROVE  \E r : Ask(r) /\ number = MenuNumber(r)
    BY <2>4, <2>6
  <2> QED
    BY <2>1, <2>2, <2>3, <2>5, <2>6
<1> QED
  BY <1>1, <1>2, <1>3

\* Nothing but the user's choice asks, and only starting up reads the files.
LEMMA OtherSteps ==
  ASSUME BackToMenu \/ Exit \/ Client \/ Server \/ Break
  PROVE  UNCHANGED <<files, input, ask>> /\ (UNCHANGED pc \/ pc' \in {"menu", "start"})
<1> USE DEF config, input, exchange, End
<1>1. CASE BackToMenu \/ Exit
  BY <1>1 DEF BackToMenu, Exit
<1>2. CASE ClientReceives \/ ClientGivesUp
  BY <1>2 DEF ClientReceives, ClientGivesUp
<1>3. CASE Process
  BY <1>3 DEF Process
<1>4. CASE ServerReceives \/ ServerGivesUp \/ Break
  BY <1>4 DEF ServerReceives, ServerGivesUp, Break
<1>5. CASE Handle
  BY <1>5 DEF Handle
<1> QED
  BY <1>1, <1>2, <1>3, <1>4, <1>5 DEF Client, Server

-----------------------------------------------------------------------------
(* Configuration *)

\* The two programs' bounds of a port are the same number.
LEMMA PortBounds == \A p : LegalPort(p) <=> p \in Ports
<1>1. 1..2^16 - 1 = Ports
  BY SMT DEF Ports
<1> QED
  BY <1>1, Zenon DEF LegalPort

\* The configuration under which client and server agree on a port.
Agreed ==
  \E p \in Ports :
    files = [server |-> <<p>>, client |-> [lines |-> 1, address |-> Localhost, port |-> p]]

LEMMA AgreedPort ==
  Agreed => /\ validateAndLoadServerInfo
            /\ files.client.address = Localhost /\ files.client.port = get_server_port
<1> SUFFICES ASSUME NEW p \in Ports,
                    files = [server |-> <<p>>,
                             client |-> [lines |-> 1, address |-> Localhost, port |-> p]]
             PROVE  /\ validateAndLoadServerInfo
                    /\ files.client.address = Localhost /\ files.client.port = get_server_port
  BY DEF Agreed
<1>1. files.server = <<p>> /\ files.client = [lines |-> 1, address |-> Localhost, port |-> p]
  OBVIOUS
<1>2. files.client.lines = 1 /\ files.client.address = Localhost /\ files.client.port = p
  BY <1>1
<1>3. Len(Localhost) = 4 /\ \A i \in 1..4 : Localhost[i] \in 0..255
  BY DEF Localhost
<1>4. validateAndLoadServerInfo
  BY <1>2, <1>3 DEF validateAndLoadServerInfo
<1>5. Len(files.server) = 1 /\ files.server[1] = p
  BY <1>1
<1>6. get_server_port = p
  BY <1>5, PortBounds DEF get_server_port
<1> QED
  BY <1>2, <1>4, <1>6

\* A client whose server.info.txt names the port that myport.info.txt gives the
\* server is not turned away: both programs take the same numbers for ports.
THEOREM PortsMeet == Spec => []SamePortsMeet
<1>1. Init => SamePortsMeet
  BY DEF Init, SamePortsMeet
<1>2. ASSUME Start PROVE SamePortsMeet'
  <2>1. UNCHANGED files /\ (pc' = "refused" => ~Agreed)
    BY <1>2, AgreedPort DEF Start, config
  <2> QED
    BY <2>1 DEF SamePortsMeet, Agreed
<1>3. ASSUME SamePortsMeet, UNCHANGED files, pc' # "refused" \/ UNCHANGED pc PROVE SamePortsMeet'
  BY <1>3 DEF SamePortsMeet
<1>4. ASSUME EndOfInput \/ ReadMenu PROVE UNCHANGED files /\ (pc' # "refused" \/ UNCHANGED pc)
  BY <1>4 DEF EndOfInput, ReadMenu, config
<1>5. ASSUME AskServer \/ Register \/ AskFriend PROVE UNCHANGED files /\ pc' # "refused"
  <2>1. PICK r : Ask(r)
    BY <1>5, Asked
  <2> QED
    BY <2>1 DEF Ask, config
<1>6. SamePortsMeet /\ [Next]_vars => SamePortsMeet'
  <2>1. UNCHANGED vars => UNCHANGED <<files, pc>>
    BY DEF vars, config
  <2> QED
    BY <1>2, <1>3, <1>4, <1>5, <2>1, OtherSteps DEF Next, User
<1> QED
  BY <1>1, <1>6, PTL DEF Spec

-----------------------------------------------------------------------------
(* The menu *)

\* The number chosen is the line typed: no line that is not a number of the
\* menu becomes one, neither a number above 65535 nor the end of the input.
ChoiceOK == pc = "choice" => line = number /\ isValidMenuOption(number)

LEMMA ChoiceInvariant == Spec => []ChoiceOK
<1>1. Init => ChoiceOK
  BY DEF Init, ChoiceOK
<1>2. ASSUME ReadMenu PROVE ChoiceOK'
  <2>1. PICK n \in Nat \cup {NaN} :
          line' = n /\ number' = getUserInput(n) /\ isValidMenuOption(number')
    BY <1>2, LinkAssumption DEF ReadMenu
  <2>2. number' # 65535
    BY <2>1 DEF isValidMenuOption
  <2>3. number' = n
    BY <2>1, <2>2 DEF getUserInput
  <2> QED
    BY <2>1, <2>3 DEF ChoiceOK
<1>3. ASSUME ChoiceOK, UNCHANGED input, UNCHANGED pc \/ pc' # "choice" PROVE ChoiceOK'
  BY <1>3 DEF ChoiceOK, input
<1>4. ASSUME EndOfInput PROVE UNCHANGED <<input, pc>>
  BY <1>4 DEF EndOfInput
<1>5. ASSUME Start PROVE pc' # "choice"
  BY <1>5 DEF Start
<1>6. ASSUME AskServer \/ Register \/ AskFriend PROVE pc' # "choice"
  <2>1. PICK r : Ask(r)
    BY <1>6, Asked
  <2> QED
    BY <2>1 DEF Ask
<1>7. ChoiceOK /\ [Next]_vars => ChoiceOK'
  <2>1. UNCHANGED vars => UNCHANGED <<input, pc>>
    BY DEF vars
  <2>2. pc' # "choice" => ChoiceOK'
    BY DEF ChoiceOK
  <2> QED
    BY <1>2, <1>3, <1>4, <1>5, <1>6, <2>1, <2>2, OtherSteps DEF Next, User
<1> QED
  BY <1>1, <1>7, PTL DEF Spec

\* A request comes from a line typed since the last one, whose number is the
\* menu's number for it, whatever users type and however they end the input.
THEOREM RequestsTyped == Spec => RequestsWereTyped
<1>1. ASSUME ChoiceOK, [Next]_vars PROVE ask' # ask /\ ask' # None => line = MenuNumber(ask')
  <2>1. CASE AskServer \/ Register \/ AskFriend
    <3>1. PICK r : Ask(r) /\ pc = "choice" /\ number = MenuNumber(r)
      BY <2>1, Asked
    <3> QED
      BY <1>1, <3>1 DEF Ask, ChoiceOK
  <2>2. CASE Start
    BY <2>2 DEF Start, Forget
  <2>3. CASE EndOfInput \/ ReadMenu
    BY <2>3 DEF EndOfInput, ReadMenu, exchange
  <2>4. CASE UNCHANGED vars
    BY <2>4 DEF vars, exchange
  <2> QED
    BY <1>1, <2>1, <2>2, <2>3, <2>4, OtherSteps DEF Next, User
<1> QED
  BY <1>1, ChoiceInvariant, PTL DEF Spec, RequestsWereTyped

-----------------------------------------------------------------------------
(* The streams *)

LEMMA MissingIsInt ==
  ASSUME NEW b \in Seq(Byte), NEW header \in Nat, NEW at \in Nat, at + 4 <= header
  PROVE  Missing(b, header, at) \in Int
<1>1. Len(b) \in Nat
  OBVIOUS
<1>2. CASE Len(b) < header
  BY <1>1, <1>2 DEF Missing
<1>3. CASE Len(b) >= header
  <2>1. readUint32LE(b, at) \in Nat
    BY <1>1, <1>3, SizeIsNat
  <2> QED
    BY <1>1, <1>3, <2>1 DEF Missing, PayloadSize
<1> QED
  BY <1>1, <1>2, <1>3

\* Nothing is missing only when all has been received.
LEMMA Whole ==
  ASSUME NEW q \in Seq(Byte), NEW b \in Seq(Byte), NEW c \in Seq(Byte), Part(q, 0, b \o c),
         NEW header \in Nat, NEW at \in Nat, at + 4 <= header,
         Len(q) = header + readUint32LE(q, at), Missing(b, header, at) = 0
  PROVE  b = q /\ c = <<>>
<1>1. Len(b) \in Nat /\ Len(c) \in Nat /\ Len(q) \in Nat /\ Len(b \o c) = Len(b) + Len(c)
  OBVIOUS
<1>2. Len(b) >= header
  BY <1>1 DEF Missing
<1>3. Len(b) + Len(c) <= Len(q) /\ \A i \in 1..Len(b) : b[i] = q[i]
  <2>1. \A i \in 1..Len(b) : i \in 1..Len(b \o c) /\ (b \o c)[i] = b[i]
    BY <1>1
  <2>2. \A i \in 1..Len(b \o c) : q[0 + i] = (b \o c)[i]
    BY DEF Part
  <2>3. Len(b \o c) <= Len(q)
    BY <1>1 DEF Part
  <2> QED
    BY <1>1, <2>1, <2>2, <2>3
<1>4. readUint32LE(b, at) = readUint32LE(q, at)
  <2>1. b[at + 1] = q[at + 1] /\ b[at + 2] = q[at + 2] /\ b[at + 3] = q[at + 3] /\ b[at + 4] = q[at + 4]
    <3>1. \A j \in 1..4 : at + j \in 1..Len(b)
      BY <1>1, <1>2
    <3> QED
      BY <1>3, <3>1
  <2> QED
    BY <2>1, Zenon DEF readUint32LE
<1>5. readUint32LE(q, at) \in Nat
  BY <1>1, <1>2, <1>3, SizeIsNat
<1>6. Len(b) = Len(q)
  BY <1>1, <1>2, <1>4, <1>5 DEF Missing, PayloadSize
<1>7. b = q
  BY <1>3, <1>6, SeqEqual
<1>8. Len(c) = 0
  BY <1>1, <1>3, <1>6
<1> QED
  BY <1>7, <1>8

LEMMA TwoPieces ==
  ASSUME NEW x \in Seq(Byte), NEW y \in Seq(Byte), NEW c \in Seq(Byte), Len(x) + Len(y) = Len(c),
         \A i \in 1..Len(x) : x[i] = c[i], \A i \in 1..Len(y) : y[i] = c[Len(x) + i]
  PROVE  x \o y = c
<1>1. Len(x) \in Nat /\ Len(y) \in Nat /\ Len(c) \in Nat
  OBVIOUS
<1>2. x \o y \in Seq(Byte) /\ Len(x \o y) = Len(c)
  OBVIOUS
<1>3. ASSUME NEW i \in 1..Len(c) PROVE (x \o y)[i] = c[i]
  <2>1. CASE i <= Len(x)
    BY <1>1, <2>1
  <2>2. CASE i > Len(x)
    <3>1. i - Len(x) \in 1..Len(y) /\ Len(x) + (i - Len(x)) = i
      BY <1>1, <2>2
    <3>2. (x \o y)[i] = y[i - Len(x)]
      BY <1>1, <2>2, <3>1
    <3> QED
      BY <3>1, <3>2
  <2> QED
    BY <1>1, <2>1, <2>2
<1> QED
  BY <1>2, <1>3, SeqEqual

LEMMA Associative ==
  ASSUME NEW u \in Seq(Byte), NEW v \in Seq(Byte), NEW w \in Seq(Byte)
  PROVE  (u \o v) \o w = u \o (v \o w)
<1>1. /\ (u \o v) \o w \in Seq(Byte) /\ u \o (v \o w) \in Seq(Byte)
      /\ Len((u \o v) \o w) = Len(u \o (v \o w))
  OBVIOUS
<1>2. ASSUME NEW i \in 1..Len((u \o v) \o w) PROVE ((u \o v) \o w)[i] = (u \o (v \o w))[i]
  OBVIOUS
<1> QED
  BY <1>1, <1>2, SeqEqual

\* What recv takes off a stream.
LEMMA Taken ==
  ASSUME NEW b \in Seq(Byte), NEW c \in Seq(Byte), NEW n \in Int, n >= 1, n <= Len(c)
  PROVE  /\ b \o SubSeq(c, 1, n) \in Seq(Byte) /\ SubSeq(c, n + 1, Len(c)) \in Seq(Byte)
         /\ (b \o SubSeq(c, 1, n)) \o SubSeq(c, n + 1, Len(c)) = b \o c
<1> DEFINE x == SubSeq(c, 1, n)
           y == SubSeq(c, n + 1, Len(c))
<1>1. x \in Seq(Byte) /\ Len(x) = n /\ \A i \in 1..n : x[i] = c[i]
  OBVIOUS
<1>2. y \in Seq(Byte) /\ Len(y) = Len(c) - n /\ \A i \in 1..Len(c) - n : y[i] = c[n + i]
  OBVIOUS
<1> HIDE DEF x, y
<1>3. Len(c) \in Nat
  OBVIOUS
<1>4. b \o x \in Seq(Byte)
  BY <1>1
<1>5. x \o y = c
  <2>1. Len(x) + Len(y) = Len(c)
    BY <1>1, <1>2, <1>3
  <2>2. \A i \in 1..Len(x) : x[i] = c[i]
    BY <1>1
  <2>3. \A i \in 1..Len(y) : y[i] = c[Len(x) + i]
    BY <1>1, <1>2
  <2>4. x \in Seq(Byte) /\ y \in Seq(Byte)
    BY <1>1, <1>2
  <2> QED
    BY <2>1, <2>2, <2>3, <2>4, TwoPieces, Zenon
<1>6. (b \o x) \o y = b \o (x \o y)
  BY <1>1, <1>2, Associative
<1> QED
  BY <1>2, <1>4, <1>5, <1>6 DEF x, y

\* What a break leaves of a stream.
LEMMA CutOff ==
  ASSUME NEW q, NEW b \in Seq(Byte), NEW c \in Seq(Byte), Part(q, 0, b \o c), Len(q) \in Nat,
         NEW i \in 0..Len(c)
  PROVE  SubSeq(c, 1, i) \in Seq(Byte) /\ Part(q, 0, b \o SubSeq(c, 1, i))
<1> DEFINE x == SubSeq(c, 1, i)
<1>1. x \in Seq(Byte) /\ Len(x) = i /\ \A j \in 1..i : x[j] = c[j]
  OBVIOUS
<1> HIDE DEF x
<1>2. Len(b) \in Nat /\ Len(c) \in Nat /\ Len(b \o x) = Len(b) + i /\ Len(b \o c) = Len(b) + Len(c)
  BY <1>1
<1>3. ASSUME NEW j \in 1..Len(b \o x) PROVE (b \o x)[j] = (b \o c)[j] /\ j \in 1..Len(b \o c)
  <2>1. CASE j <= Len(b)
    BY <1>1, <1>2, <2>1
  <2>2. CASE j > Len(b)
    <3>1. j - Len(b) \in 1..i /\ j - Len(b) \in 1..Len(c)
      BY <1>2, <2>2
    <3>2. (b \o x)[j] = x[j - Len(b)] /\ (b \o c)[j] = c[j - Len(b)]
      BY <1>1, <1>2, <2>2, <3>1
    <3> QED
      BY <1>1, <1>2, <3>1, <3>2
  <2> QED
    BY <1>2, <2>1, <2>2
<1>4. Part(q, 0, b \o x)
  BY <1>2, <1>3 DEF Part
<1> QED
  BY <1>1, <1>4 DEF x

-----------------------------------------------------------------------------
(* The inductive invariant *)

\* Where the programs are: a client that does not run has no connection.
PhaseInv ==
  /\ pc \in {"start", "refused", "menu", "choice", "wait"}
  /\ cut \in BOOLEAN /\ serving \in BOOLEAN /\ eof \in BOOLEAN
  /\ pc \in {"start", "refused"} => cut
  /\ pc = "refused" => ~serving /\ ask = None
  /\ pc \in {"menu", "choice"} => ask = None \/ result # None
  /\ pc = "wait" => ask # None /\ result = None

\* The ID: issued, saved in hexadecimal, and what a running client goes by.
IdInv ==
  /\ me \in Ids \cup {Nobody} /\ issued \in Ids \cup {Nobody}
  /\ myInfo = IF issued = Nobody THEN None ELSE bytesToHex(issued)
  /\ pc \in {"menu", "choice", "wait"} => me = issued
  /\ ask # None /\ result = None => ask.id = issued

\* The rows of the server's table, and those the client has or will get.
TableInv ==
  /\ table \subseteq Rows /\ friends \subseteq table
  /\ \A row \in table : row.id \in Ids \cup {Friend.id}
  /\ \A row, other \in table : row.id = other.id => row = other

\* The exchange: nothing is served, answered or returned that was not asked,
\* served or answered.
ExchangeInv ==
  /\ ask # None => ask \in Requests /\ Small(ask)
  /\ ask = None => served = None
  /\ served # None => served = ask
  /\ answer = None <=> served = None
  /\ answer # None => /\ answer \in Responses /\ SmallReply(answer)
                      /\ answer.code = 2100 => answer.id \in Ids
                      /\ answer.code = 2101 => ToSet(answer.rows) \subseteq table
  /\ result # None => served # None /\ result = Kept(answer)

\* The streams: of the request, then of the response, the bytes received and
\* those on their way are a beginning of what was sent, and nothing else is.
StreamInv ==
  /\ toServer \in Seq(Byte) /\ toClient \in Seq(Byte) /\ inbox \in Seq(Byte) /\ reply \in Seq(Byte)
  /\ ask = None /\ pc # "refused" => toServer = <<>> /\ inbox = <<>>
  /\ served = None /\ pc # "refused" => toClient = <<>> /\ reply = <<>>
  /\ ask # None /\ served = None => Part(createBuffer(ask), 0, inbox \o toServer)
  /\ served # None => toServer = <<>> /\ inbox = <<>>
  /\ served # None /\ result = None => Part(_build_response(answer), 0, reply \o toClient)
  /\ result # None => toClient = <<>> /\ reply = <<>>

LinkInv == PhaseInv /\ IdInv /\ TableInv /\ ExchangeInv /\ StreamInv

-----------------------------------------------------------------------------
(* What is received *)

\* The server handles nothing but the whole request that was asked.
LEMMA WholeRequest ==
  ASSUME LinkInv, serving, ServerMissing = 0
  PROVE  /\ ask # None /\ served = None /\ answer = None /\ result = None
         /\ toServer = <<>> /\ toClient = <<>> /\ reply = <<>>
         /\ ParseRequest(inbox) = ask
<1> DEFINE q == createBuffer(ask)
<1>1. inbox \in Seq(Byte) /\ toServer \in Seq(Byte) /\ RequestHeader \in Nat \ {0} /\ IdSize \in Nat
      /\ RequestHeader = IdSize + 7
  BY Sizes DEF LinkInv, StreamInv
<1>2. inbox # <<>>
  BY <1>1 DEF ServerMissing, Missing
<1>3. pc # "refused"
  BY DEF LinkInv, PhaseInv
<1>4. ask # None /\ served = None
  BY <1>2, <1>3 DEF LinkInv, StreamInv
<1>5. answer = None /\ result = None
  BY <1>4 DEF LinkInv, ExchangeInv
<1>6. toClient = <<>> /\ reply = <<>>
  BY <1>3, <1>4 DEF LinkInv, StreamInv
<1>7. ask \in Requests /\ Small(ask)
  BY <1>4 DEF LinkInv, ExchangeInv
<1>8. q \in Seq(Byte) /\ Len(q) = RequestHeader + readUint32LE(q, IdSize + 3) /\ Part(q, 0, inbox \o toServer)
  <2>1. q \in Seq(Byte) /\ Len(q) = RequestHeader + readUint32LE(q, IdSize + 3)
    BY <1>7, RequestLayout
  <2> QED
    BY <1>4, <2>1 DEF LinkInv, StreamInv
<1>9. Missing(inbox, RequestHeader, IdSize + 3) = 0
  BY DEF ServerMissing
<1>10. inbox = q /\ toServer = <<>>
  <2> HIDE DEF q
  <2>1. IdSize + 3 \in Nat /\ (IdSize + 3) + 4 <= RequestHeader
    BY <1>1
  <2> QED
    BY <1>1, <1>8, <1>9, <2>1, Whole
<1> QED
  BY <1>4, <1>5, <1>6, <1>7, <1>10, ReadRequest

\* The client processes nothing but the whole response to what it asked.
LEMMA WholeReply ==
  ASSUME LinkInv, pc = "wait", ClientMissing = 0
  PROVE  /\ ask # None /\ served = ask /\ answer # None /\ result = None
         /\ toServer = <<>> /\ inbox = <<>> /\ toClient = <<>>
         /\ ParseReply(reply) = Kept(answer)
<1> DEFINE q == _build_response(answer)
<1>1. reply \in Seq(Byte) /\ toClient \in Seq(Byte) /\ ReplyHeader \in Nat \ {0} /\ ReplyHeader = 7
  BY Sizes DEF LinkInv, StreamInv
<1>2. reply # <<>>
  <2>1. \A b, at : b = <<>> => Missing(b, ReplyHeader, at) = ReplyHeader
    BY <1>1 DEF Missing
  <2> QED
    BY <1>1, <2>1 DEF ClientMissing
<1>3. ask # None /\ result = None
  BY DEF LinkInv, PhaseInv
<1>4. served # None
  BY <1>2 DEF LinkInv, StreamInv
<1>5. answer # None /\ served = ask
  BY <1>4 DEF LinkInv, ExchangeInv
<1>6. toServer = <<>> /\ inbox = <<>>
  BY <1>4 DEF LinkInv, StreamInv
<1>7. answer \in Responses /\ SmallReply(answer)
  BY <1>5 DEF LinkInv, ExchangeInv
<1>8. q \in Seq(Byte) /\ Len(q) = ReplyHeader + readUint32LE(q, 3) /\ Part(q, 0, reply \o toClient)
  <2>1. q \in Seq(Byte) /\ Len(q) = ReplyHeader + readUint32LE(q, 3)
    BY <1>7, ReplyLayout
  <2> QED
    BY <1>3, <1>4, <2>1 DEF LinkInv, StreamInv
<1>9. Missing(reply, ReplyHeader, 3) = 0
  BY DEF ClientMissing
<1>10. reply = q /\ toClient = <<>>
  <2> HIDE DEF q
  <2>1. 3 \in Nat /\ 3 + 4 <= ReplyHeader
    BY <1>1
  <2> QED
    BY <1>1, <1>8, <1>9, <2>1, Whole
<1> QED
  BY <1>3, <1>5, <1>6, <1>7, <1>10, ReadReply

-----------------------------------------------------------------------------
(* What is sent *)

LEMMA Constants ==
  /\ Ids \subseteq Bytes(IdSize) /\ Nobody \in Bytes(IdSize) /\ Nobody \notin Ids
  /\ Friend \in Rows /\ Friend.id \notin Ids
  /\ Key \in Bytes(KeySize)
  /\ Texts \subseteq Seq(Byte) /\ StoredNo \in Uint32 /\ Mail \subseteq Messages
<1>1. Nobody \in Bytes(IdSize)
  BY Sizes DEF Nobody, Bytes, Byte
<1>2. Friend \in Rows
  BY LinkAssumption DEF Rows
<1> QED
  BY <1>1, <1>2, LinkAssumption

\* A message as the client reads it.
Received == [from : Bytes(IdSize), type : Byte, content : Seq(Byte)]

LEMMA Nothings ==
  /\ None \notin Requests /\ None \notin Responses /\ None \notin Seq(Byte) /\ None \notin Received
  /\ None \notin [code : {2104}, msgs : Seq(Received)]
<1>1. None \notin Requests \cup Responses \cup Received \cup [code : {2104}, msgs : Seq(Received)]
                  \cup Seq(Byte)
  BY NoneAssumption DEF Received
<1> QED
  BY <1>1

LEMMA SizesFit ==
  /\ NameSize + KeySize \in Uint32 /\ IdSize \in Uint32 /\ IdSize + 4 \in Uint32
  /\ IdSize + KeySize \in Uint32
  /\ \A content \in Texts \cup {<<>>} : IdSize + 5 + Len(content) \in Uint32
<1>1. /\ NameSize + KeySize \in Uint32 /\ IdSize + KeySize \in Uint32
      /\ \A content \in Texts \cup {<<>>} : IdSize + 5 + Len(content) \in Uint32
  BY SizeAssumption
<1>2. IdSize + 5 + Len(<<>>) \in Uint32
  BY <1>1
<1>3. IdSize + 5 \in Uint32 /\ IdSize \in Nat
  BY <1>2, Sizes
<1>4. IdSize \in Uint32
  BY <1>3, Below
<1>5. IdSize + 4 \in Uint32
  BY <1>3, Below
<1> QED
  BY <1>1, <1>4, <1>5

LEMMA Narrower ==
  ASSUME NEW n \in Seq(1..255), \A i \in 1..Len(n) : n[i] < 128
  PROVE  n \in Seq(1..127)
<1>1. PICK k \in Nat : n \in [1..k -> 1..255]
  <2>1. n \in UNION {[1..k -> 1..255] : k \in Nat}
    BY SeqDef, Zenon
  <2> QED
    BY <2>1, Zenon
<1>2. Len(n) = k
  BY <1>1
<1>3. ASSUME NEW i \in 1..k PROVE n[i] \in 1..127
  <2>1. n[i] \in 1..255 /\ n[i] < 128
    BY <1>1, <1>2
  <2>2. \A x \in 1..255 : x < 128 => x \in 1..127
    OBVIOUS
  <2> QED
    BY <2>1, <2>2, Zenon
<1>4. n \in [1..k -> 1..127]
  BY <1>1, <1>3
<1> QED
  BY <1>4

\* What the user can ask is a request, with the client's ID.
LEMMA AskedRequests ==
  ASSUME LinkInv, AskServer \/ Register \/ AskFriend
  PROVE  \E r : Ask(r) /\ pc = "choice" /\ r \in Requests /\ r # None /\ Small(r) /\ r.id = me
<1>1. me \in Bytes(IdSize)
  BY Constants DEF LinkInv, IdInv
<1>2. SUFFICES \E r : Ask(r) /\ pc = "choice" /\ r \in Requests /\ Small(r) /\ r.id = me
  BY Nothings
<1>3. CASE AskServer
  <2>1. PICK code \in {701, 704} : Ask([code |-> code, id |-> me])
    BY <1>3 DEF AskServer
  <2> DEFINE r == [code |-> code, id |-> me]
  <2>2. r \in [code : {701, 704}, id : Bytes(IdSize)]
    BY <1>1
  <2>3. r \in Requests /\ r.id = me /\ r.code \in {701, 704}
    BY <2>2 DEF Requests
  <2>4. Small(r)
    BY <2>3 DEF Small
  <2> QED
    BY <1>3, <2>1, <2>3, <2>4 DEF AskServer
<1>4. CASE Register
  <2>1. PICK n \in Names : Ask([code |-> 700, id |-> me, name |-> n, key |-> Key])
    BY <1>4 DEF Register
  <2> DEFINE r == [code |-> 700, id |-> me, name |-> n, key |-> Key]
  <2>2. n \in Usernames
    <3>1. n \in Typed /\ isValidUsername(n)
      BY DEF Names
    <3>2. n \in Seq(1..255) /\ \A i \in 1..Len(n) : n[i] < 128
      BY <3>1, LinkAssumption DEF isValidUsername
    <3>3. n \in Seq(1..127)
      BY <3>2, Narrower
    <3> QED
      BY <3>1, <3>3 DEF Usernames
  <2>3. r \in [code : {700}, id : Bytes(IdSize), name : Usernames, key : Bytes(KeySize)]
    BY <1>1, <2>2, Constants
  <2>4. r \in Requests /\ r.id = me /\ r.code = 700
    BY <2>3 DEF Requests
  <2>5. Small(r)
    BY <2>4, SizesFit DEF Small
  <2> QED
    BY <1>4, <2>1, <2>4, <2>5 DEF Register
<1>5. CASE AskFriend
  <2>1. PICK row \in friends :
          \/ Ask([code |-> 702, id |-> me, target |-> row.id])
          \/ Send(row.id, 1, <<>>)
          \/ \E content \in Texts : Send(row.id, 2, content)
          \/ \E content \in Texts : Send(row.id, 3, content)
    BY <1>5 DEF AskFriend
  <2>2. row.id \in Bytes(IdSize)
    <3>1. row \in Rows
      BY DEF LinkInv, TableInv
    <3> QED
      BY <3>1 DEF Rows
  <2>3. CASE Ask([code |-> 702, id |-> me, target |-> row.id])
    <3> DEFINE r == [code |-> 702, id |-> me, target |-> row.id]
    <3>1. r \in [code : {702}, id : Bytes(IdSize), target : Bytes(IdSize)]
      BY <1>1, <2>2
    <3>2. r \in Requests /\ r.id = me /\ r.code = 702
      BY <3>1 DEF Requests
    <3>3. Small(r)
      BY <3>2, SizesFit DEF Small
    <3> QED
      BY <1>5, <2>3, <3>2, <3>3 DEF AskFriend
  <2>4. ASSUME NEW type, NEW content, Send(row.id, type, content),
               \/ type = 1 /\ content = <<>>
               \/ type \in {2, 3} /\ content \in Texts
        PROVE  \E r : Ask(r) /\ pc = "choice" /\ r \in Requests /\ Small(r) /\ r.id = me
    <3> DEFINE r == [code |-> 703, id |-> me, target |-> row.id, type |-> type, content |-> content]
    <3>1. \/ r \in [code : {703}, id : Bytes(IdSize), target : Bytes(IdSize), type : {1}, content : {<<>>}]
          \/ r \in [code : {703}, id : Bytes(IdSize), target : Bytes(IdSize), type : {2, 3},
                    content : Seq(Byte)]
      BY <1>1, <2>2, <2>4, Constants
    <3>2. r \in Requests /\ r.id = me /\ r.code = 703 /\ r.content = content
      BY <3>1 DEF Requests
    <3>3. IdSize + 5 + Len(content) \in Uint32
      BY <2>4, SizesFit
    <3>4. Small(r)
      BY <3>2, <3>3 DEF Small
    <3> QED
      BY <1>5, <2>4, <3>2, <3>4 DEF AskFriend, Send
  <2> QED
    BY <2>1, <2>3, <2>4
<1> QED
  BY <1>3, <1>4, <1>5

\* There are no more rows than the server has IDs, and one for the friend.
LEMMA RowCount ==
  ASSUME LinkInv, NEW S \in SUBSET table
  PROVE  IsFiniteSet(S) /\ Cardinality(S) \in Nat /\ Cardinality(S) <= Cardinality(Ids) + 1
<1> DEFINE T == Ids \cup {Friend.id}
           f == [row \in S |-> row.id]
<1>1. IsFiniteSet(T) /\ Cardinality(T) = Cardinality(Ids) + 1
  BY LinkAssumption, Constants, FS_AddElement
<1>2. f \in Injection(S, T)
  <2>1. f \in [S -> T]
    BY DEF LinkInv, TableInv
  <2>2. \A x, y \in S : f[x] = f[y] => x = y
    BY DEF LinkInv, TableInv
  <2> QED
    BY <2>1, <2>2 DEF Injection, IsInjective
<1>3. IsFiniteSet(S) /\ Cardinality(S) <= Cardinality(T)
  BY <1>1, <1>2, FS_Injection
<1> QED
  BY <1>1, <1>3, FS_CardinalityType

\* What the handlers answer to a request they have read.
LEMMA ReplyCases ==
  ASSUME NEW r \in Requests, NEW a \in Replies(r)
  PROVE  \/ a = Error
         \/ r.code = 700 /\ \E i \in Ids : ~Known(i) /\ a = [code |-> 2100, id |-> i]
         \/ r.code = 701 /\ \E rows \in SetToSeqs({row \in table : row.id # r.id}) :
                              a = [code |-> 2101, rows |-> rows]
         \/ r.code = 702 /\ \E row \in table : row.id = r.target /\ a = [code |-> 2102, id |-> row.id, key |-> Key]
         \/ r.code = 703 /\ \E row \in table : row.id = r.target /\ a = [code |-> 2103, id |-> row.id, no |-> StoredNo]
         \/ r.code = 704 /\ \E msgs \in BoundedSeq(Mail, MaxWaiting) : a = [code |-> 2104, msgs |-> msgs]
<1> DEFINE code == r.code
           registered == {[code |-> 2100, id |-> i] : i \in
                            {i \in Ids : ~Known(i) /\ \A row \in table : row.name # r.name}}
           rowsOf == {[code |-> 2101, rows |-> rows] : rows \in SetToSeqs({row \in table : row.id # r.id})}
           keys   == {[code |-> 2102, id |-> row.id, key |-> Key] : row \in {row \in table : row.id = r.target}}
           stored == {[code |-> 2103, id |-> row.id, no |-> StoredNo] :
                        row \in {row \in table : row.id = r.target}}
           given  == {[code |-> 2104, msgs |-> msgs] : msgs \in BoundedSeq(Mail, MaxWaiting)}
           known  == Known(r.id)
           all    == Replies(r)
<1>1. all = {Error} \cup
        IF r = None THEN {} ELSE IF code = 700 THEN registered ELSE IF ~known THEN {}
        ELSE CASE code = 701 -> rowsOf [] code = 702 -> keys [] code = 703 -> stored [] code = 704 -> given
  BY Zenon DEF Replies
<1>2. code \in 700..704 /\ code = r.code /\ a \in all
  BY RequestKinds
<1> HIDE DEF code, registered, rowsOf, keys, stored, given, known, all
<1>3. CASE a = Error
  BY <1>3
<1>4. CASE code = 700 /\ a \in registered
  BY <1>2, <1>4 DEF registered
<1>5. CASE code = 701 /\ a \in rowsOf
  BY <1>2, <1>5 DEF rowsOf
<1>6. CASE code = 702 /\ a \in keys
  BY <1>2, <1>6 DEF keys
<1>7. CASE code = 703 /\ a \in stored
  BY <1>2, <1>7 DEF stored
<1>8. CASE code = 704 /\ a \in given
  BY <1>2, <1>8 DEF given
<1>9. \/ a = Error
      \/ code = 700 /\ a \in registered
      \/ code = 701 /\ a \in rowsOf
      \/ code = 702 /\ a \in keys
      \/ code = 703 /\ a \in stored
      \/ code = 704 /\ a \in given
  BY <1>1, <1>2
<1> QED
  BY <1>3, <1>4, <1>5, <1>6, <1>7, <1>8, <1>9

\* The response to a request is one that can be sent, and is one to it.
Replied(r, a) ==
  /\ a \in Responses /\ SmallReply(a) /\ Fits(r, Visible(a))
  /\ a.code = 2100 => r.code = 700 /\ a.id \in Ids /\ ~Known(a.id)
  /\ a.code = 2101 => ToSet(a.rows) \subseteq table

\* But for messages, the response is seen as it is.
LEMMA Simple ==
  ASSUME NEW r, NEW a \in Responses, a.code # 2104,
         a = Error \/ (a.code = r.code + 1400 /\ (r.code \in {702, 703} => a.id = r.target)),
         Len(ReplyPayload(a)) \in Uint32,
         a.code = 2100 => r.code = 700 /\ a.id \in Ids /\ ~Known(a.id),
         a.code = 2101 => ToSet(a.rows) \subseteq table
  PROVE  Replied(r, a)
<1>1. Visible(a) = a
  BY DEF Visible
<1>2. SmallReply(a)
  BY DEF SmallReply, Readable
<1> QED
  BY <1>1, <1>2 DEF Replied, Fits

LEMMA PayloadsFit ==
  ASSUME NEW a \in Responses, a.code # 2104,
         a.code = 2101 => Len(a.rows) <= Cardinality(Ids) + 1
  PROVE  Len(ReplyPayload(a)) \in Uint32
<1>1. Readable(a)
  BY DEF Readable
<1>2. /\ a.code = 2100 => Len(ReplyPayload(a)) = IdSize
      /\ a.code = 2102 => Len(ReplyPayload(a)) = IdSize + KeySize
      /\ a.code = 2103 => Len(ReplyPayload(a)) = IdSize + 4
      /\ a.code = 9000 => Len(ReplyPayload(a)) = 0
  BY <1>1, ReplyPayloadLayout
<1>3. 0 \in Uint32
  BY SizesFit, Below, Sizes
<1>4. ASSUME a.code = 2101 PROVE Len(ReplyPayload(a)) \in Uint32
  <2> DEFINE n == Len(a.rows)
             m == Cardinality(Ids) + 1
             w == IdSize + NameSize
  <2>1. Len(ReplyPayload(a)) = n * w
    BY <1>1, <1>4, ReplyPayloadLayout
  <2>2. n \in Nat /\ m \in Nat /\ w \in Nat /\ n <= m
    BY <1>4, ReplyKinds, Sizes, LinkAssumption, FS_CardinalityType
  <2>3. m * w \in Uint32
    BY SizeAssumption
  <2> HIDE DEF n, m, w
  <2>4. n * w \in Nat /\ n * w <= m * w
    <3>1. \A x, y, z \in Nat : x * z \in Nat /\ (x + y) * z = x * z + y * z /\ y * z >= 0
      BY SMTT(30)
    <3>2. m - n \in Nat /\ n + (m - n) = m
      BY <2>2
    <3> DEFINE d == m - n
    <3> HIDE DEF d
    <3>3. d \in Nat /\ n + d = m
      BY <3>2 DEF d
    <3>4. n * w \in Nat /\ (n + d) * w = n * w + d * w /\ d * w >= 0 /\ d * w \in Nat
      BY <2>2, <3>1, <3>3
    <3> QED
      BY <3>3, <3>4
  <2> QED
    BY <2>1, <2>3, <2>4, Below
<1> QED
  BY <1>2, <1>3, <1>4, SizesFit, ReplyKinds

LEMMA RepliesTyped ==
  ASSUME LinkInv, NEW r \in Requests, NEW a \in Replies(r)
  PROVE  Replied(r, a)
<1>1. CASE a = Error
  <2>1. a \in Responses /\ a.code = 9000
    BY <1>1 DEF Error, Responses
  <2>2. Len(ReplyPayload(a)) \in Uint32
    BY <2>1, PayloadsFit
  <2> QED
    BY <1>1, <2>1, <2>2, Simple
<1>2. CASE r.code = 700 /\ \E i \in Ids : ~Known(i) /\ a = [code |-> 2100, id |-> i]
  <2>1. PICK i \in Ids : ~Known(i) /\ a = [code |-> 2100, id |-> i]
    BY <1>2
  <2>2. a \in [code : {2100}, id : Bytes(IdSize)]
    BY <2>1, Constants
  <2>3. a \in Responses /\ a.code = 2100 /\ a.id = i
    BY <2>1, <2>2 DEF Responses
  <2>4. Len(ReplyPayload(a)) \in Uint32
    BY <2>3, PayloadsFit
  <2> QED
    BY <1>2, <2>1, <2>3, <2>4, Simple
<1>3. CASE r.code = 701 /\ \E rows \in SetToSeqs({row \in table : row.id # r.id}) :
                             a = [code |-> 2101, rows |-> rows]
  <2> DEFINE S == {row \in table : row.id # r.id}
             n == Cardinality(S)
  <2>1. PICK rows \in SetToSeqs(S) : a = [code |-> 2101, rows |-> rows]
    BY <1>3, Zenon
  <2>2. n \in Nat /\ n <= Cardinality(Ids) + 1
    BY RowCount
  <2>3. rows \in [1..n -> S] /\ S \subseteq table /\ table \subseteq Rows
    BY <2>1 DEF SetToSeqs, LinkInv, TableInv
  <2> HIDE DEF S, n
  <2>4. rows \in Seq(Rows) /\ Len(rows) = n
    <3>1. rows \in [1..n -> Rows]
      BY <2>3
    <3> QED
      BY <2>2, <3>1
  <2>5. ToSet(rows) \subseteq table
    BY <2>2, <2>3 DEF ToSet
  <2>6. a \in [code : {2101}, rows : Seq(Rows)]
    BY <2>1, <2>4
  <2>7. a \in Responses /\ a.code = 2101 /\ a.rows = rows
    BY <2>1, <2>6 DEF Responses
  <2>8. Len(ReplyPayload(a)) \in Uint32
    BY <2>2, <2>4, <2>7, PayloadsFit
  <2> QED
    BY <1>3, <2>5, <2>7, <2>8, Simple
<1>4. CASE r.code = 702 /\ \E row \in table : row.id = r.target /\ a = [code |-> 2102, id |-> row.id, key |-> Key]
  <2>1. PICK row \in table : row.id = r.target /\ a = [code |-> 2102, id |-> row.id, key |-> Key]
    BY <1>4
  <2>2. row.id \in Bytes(IdSize)
    BY DEF LinkInv, TableInv, Rows
  <2>3. a \in [code : {2102}, id : Bytes(IdSize), key : Bytes(KeySize)]
    BY <2>1, <2>2, Constants
  <2>4. a \in Responses /\ a.code = 2102 /\ a.id = r.target
    BY <2>1, <2>3 DEF Responses
  <2>5. Len(ReplyPayload(a)) \in Uint32
    BY <2>4, PayloadsFit
  <2> QED
    BY <1>4, <2>4, <2>5, Simple
<1>5. CASE r.code = 703 /\ \E row \in table : row.id = r.target /\ a = [code |-> 2103, id |-> row.id, no |-> StoredNo]
  <2>1. PICK row \in table : row.id = r.target /\ a = [code |-> 2103, id |-> row.id, no |-> StoredNo]
    BY <1>5
  <2>2. row.id \in Bytes(IdSize)
    BY DEF LinkInv, TableInv, Rows
  <2>3. a \in [code : {2103}, id : Bytes(IdSize), no : Uint32]
    BY <2>1, <2>2, Constants
  <2>4. a \in Responses /\ a.code = 2103 /\ a.id = r.target
    BY <2>1, <2>3 DEF Responses
  <2>5. Len(ReplyPayload(a)) \in Uint32
    BY <2>4, PayloadsFit
  <2> QED
    BY <1>5, <2>4, <2>5, Simple
<1>6. CASE r.code = 704 /\ \E msgs \in BoundedSeq(Mail, MaxWaiting) : a = [code |-> 2104, msgs |-> msgs]
  <2>1. PICK msgs \in BoundedSeq(Mail, MaxWaiting) : a = [code |-> 2104, msgs |-> msgs]
    BY <1>6
  <2>2. Len(ReplyPayload(a)) \in Uint32
    BY <2>1, SizeAssumption
  <2>3. PICK n \in Nat : msgs \in [1..n -> Mail]
    BY <2>1, LinkAssumption DEF BoundedSeq, SeqOf
  <2>4. Len(msgs) = n /\ \A i \in 1..Len(msgs) : msgs[i] \in Mail /\ msgs[i] \in Messages
    BY <2>3, Constants
  <2>5. msgs \in Seq(Messages)
    <3>1. msgs \in [1..n -> Messages]
      BY <2>3, Constants
    <3> QED
      BY <3>1
  <2>6. a \in [code : {2104}, msgs : Seq(Messages)]
    BY <2>1, <2>5
  <2>7. a \in Responses /\ a.code = 2104 /\ a.msgs = msgs
    BY <2>1, <2>6 DEF Responses
  <2>8. \A i \in 1..Len(msgs) : Len(msgs[i].content) \in Uint32
    BY <2>4, SizeAssumption
  <2>9. \A i \in 1..Len(msgs) : Seen(msgs[i]) # None
    BY <2>4, Nothings DEF Seen, Messages, Received
  <2>10. SmallReply(a)
    BY <2>2, <2>7, <2>8, <2>9 DEF SmallReply, Readable
  <2>11. Fits(r, Visible(a))
    <3>1. Visible(a).code = 2104
      BY <2>1, <2>7 DEF Visible
    <3> QED
      BY <1>6, <3>1 DEF Fits
  <2> QED
    BY <2>7, <2>10, <2>11 DEF Replied
<1> QED
  BY <1>1, <1>2, <1>3, <1>4, <1>5, <1>6, ReplyCases

\* What the client reads of a response is what can be seen of it.
LEMMA KeptIsSeen ==
  ASSUME NEW a \in Responses, SmallReply(a)
  PROVE  Kept(a) = Visible(a) /\ Kept(a) # None
<1>1. a # None
  BY Nothings
<1>2. CASE a.code = 2104
  <2> DEFINE msgs == a.msgs
             seen == [i \in 1..Len(msgs) |-> Seen(msgs[i])]
  <2>1. a = [code |-> 2104, msgs |-> msgs] /\ msgs \in Seq(Messages)
    BY <1>2, ReplyKinds
  <2>2. Kept(a) = [code |-> 2104, msgs |-> seen]
    BY <1>2 DEF Kept
  <2>3. Visible(a) = [a EXCEPT !.msgs = seen]
    BY <1>1, <1>2 DEF Visible, Seen
  <2>4. seen \in Seq(Received)
    <3>1. \A i \in 1..Len(msgs) : msgs[i] \in Messages
      BY <2>1
    <3>2. \A m \in Messages : Seen(m) \in Received
      BY DEF Messages, Seen, Received
    <3>3. Len(msgs) \in Nat
      BY <2>1
    <3> QED
      BY <3>1, <3>2, <3>3
  <2> HIDE DEF msgs, seen
  <2>5. Visible(a) = [code |-> 2104, msgs |-> seen]
    BY <2>1, <2>3
  <2>6. [code |-> 2104, msgs |-> seen] # None
    <3>1. [code |-> 2104, msgs |-> seen] \in [code : {2104}, msgs : Seq(Received)]
      BY <2>4
    <3> QED
      BY <3>1, Nothings
  <2> QED
    BY <2>2, <2>5, <2>6
<1>3. CASE a.code # 2104
  BY <1>1, <1>3 DEF Kept, Visible
<1> QED
  BY <1>2, <1>3

-----------------------------------------------------------------------------
(* The steps *)

\* The user's choices.
LEMMA ChoiceStep ==
  ASSUME LinkInv, eof' \in BOOLEAN, UNCHANGED pc \/ {pc, pc'} \subseteq {"menu", "choice"},
         UNCHANGED <<wire, identity, table, exchange>>
  PROVE  LinkInv'
<1> USE DEF wire, identity, exchange
<1>1. PhaseInv'
  BY DEF LinkInv, PhaseInv
<1>2. IdInv'
  BY DEF LinkInv, IdInv
<1>3. TableInv'
  BY DEF LinkInv, TableInv
<1>4. ExchangeInv'
  BY DEF LinkInv, ExchangeInv
<1>5. StreamInv'
  <2>1. pc' = "refused" <=> pc = "refused"
    OBVIOUS
  <2> QED
    BY <2>1 DEF LinkInv, StreamInv
<1> QED
  BY <1>1, <1>2, <1>3, <1>4, <1>5 DEF LinkInv

\* The program ends, at the user's wish or because nothing comes any more.
LEMMA EndStep ==
  ASSUME LinkInv, pc \in {"choice", "wait"}, End,
         UNCHANGED <<eof, toServer, toClient, inbox, reply, serving, identity, table, exchange>>
  PROVE  LinkInv'
<1> USE DEF End, identity, exchange
<1>1. PhaseInv'
  BY DEF LinkInv, PhaseInv
<1>2. IdInv'
  BY DEF LinkInv, IdInv
<1>3. TableInv'
  BY DEF LinkInv, TableInv
<1>4. ExchangeInv'
  BY DEF LinkInv, ExchangeInv
<1>5. StreamInv'
  BY DEF LinkInv, StreamInv
<1> QED
  BY <1>1, <1>2, <1>3, <1>4, <1>5 DEF LinkInv

\* What leaves programs, IDs, rows and the exchange alone.
LEMMA StreamStep ==
  ASSUME LinkInv, UNCHANGED cut \/ cut' = TRUE, UNCHANGED serving \/ serving' = FALSE,
         UNCHANGED <<eof, pc, identity, table, exchange>>, StreamInv'
  PROVE  LinkInv'
<1> USE DEF identity, exchange
<1>1. PhaseInv'
  <2>1. cut' \in BOOLEAN /\ (cut => cut')
    BY DEF LinkInv, PhaseInv
  <2>2. serving' \in BOOLEAN /\ (~serving => ~serving')
    <3>1. serving \in BOOLEAN
      BY DEF LinkInv, PhaseInv
    <3>2. CASE UNCHANGED serving
      BY <3>1, <3>2, Zenon
    <3>3. CASE serving' = FALSE
      BY <3>3, Zenon
    <3> QED
      BY <3>2, <3>3, Zenon
  <2> QED
    BY <2>1, <2>2 DEF LinkInv, PhaseInv
<1>2. IdInv'
  BY DEF LinkInv, IdInv
<1>3. TableInv'
  BY DEF LinkInv, TableInv
<1>4. ExchangeInv'
  BY DEF LinkInv, ExchangeInv
<1> QED
  BY <1>1, <1>2, <1>3, <1>4 DEF LinkInv

LEMMA ServerGivesUpStep ==
  ASSUME LinkInv, ServerGivesUp
  PROVE  LinkInv'
<1> USE DEF ServerGivesUp, config, identity, exchange
<1>1. StreamInv'
  BY DEF LinkInv, StreamInv
<1> QED
  BY <1>1, StreamStep DEF LinkInv, PhaseInv

\* Bytes lost at the end leave a beginning.
LEMMA BreakStep ==
  ASSUME LinkInv, Break
  PROVE  LinkInv'
<1>1. /\ cut' = TRUE
      /\ UNCHANGED <<config, input, pc, inbox, reply, serving, identity, table, exchange>>
  BY DEF Break
<1>2. PICK i \in 0..Len(toServer) : toServer' = SubSeq(toServer, 1, i)
  BY DEF Break
<1>3. PICK j \in 0..Len(toClient) : toClient' = SubSeq(toClient, 1, j)
  BY DEF Break
<1>4. UNCHANGED <<eof, pc, inbox, reply, serving, identity, table, ask, served, answer, result>>
  BY <1>1 DEF config, exchange
<1>5. toServer \in Seq(Byte) /\ toClient \in Seq(Byte) /\ inbox \in Seq(Byte) /\ reply \in Seq(Byte)
  BY DEF LinkInv, StreamInv
<1>6. toServer' \in Seq(Byte) /\ (toServer = <<>> => toServer' = <<>>)
  BY <1>2, <1>5
<1>7. toClient' \in Seq(Byte) /\ (toClient = <<>> => toClient' = <<>>)
  BY <1>3, <1>5
<1>8. ask # None /\ served = None => Part(createBuffer(ask), 0, inbox \o toServer')
  <2> SUFFICES ASSUME ask # None, served = None PROVE Part(createBuffer(ask), 0, inbox \o toServer')
    OBVIOUS
  <2>1. Part(createBuffer(ask), 0, inbox \o toServer)
    BY DEF LinkInv, StreamInv
  <2>2. Len(createBuffer(ask)) \in Nat
    BY RequestLayout DEF LinkInv, ExchangeInv
  <2> QED
    BY <1>2, <1>5, <2>1, <2>2, CutOff
<1>9. served # None /\ result = None => Part(_build_response(answer), 0, reply \o toClient')
  <2> SUFFICES ASSUME served # None, result = None
               PROVE  Part(_build_response(answer), 0, reply \o toClient')
    OBVIOUS
  <2>1. Part(_build_response(answer), 0, reply \o toClient)
    BY DEF LinkInv, StreamInv
  <2>2. Len(_build_response(answer)) \in Nat
    BY ReplyLayout DEF LinkInv, ExchangeInv
  <2> QED
    BY <1>3, <1>5, <2>1, <2>2, CutOff
<1>10. StreamInv'
  BY <1>4, <1>5, <1>6, <1>7, <1>8, <1>9 DEF LinkInv, StreamInv
<1> QED
  BY <1>1, <1>4, <1>10, StreamStep DEF exchange

\* What is received is taken off the front of what is on its way.
LEMMA ServerReceivesStep ==
  ASSUME LinkInv, ServerReceives
  PROVE  LinkInv'
<1>1. /\ serving
      /\ UNCHANGED <<eof, pc, cut, toClient, reply, serving, identity, table, exchange>>
      /\ UNCHANGED <<ask, served, answer, result>>
  BY DEF ServerReceives, config, exchange
<1>2. toServer \in Seq(Byte) /\ toClient \in Seq(Byte) /\ inbox \in Seq(Byte) /\ reply \in Seq(Byte)
  BY DEF LinkInv, StreamInv
<1>3. ServerMissing \in Int
  BY <1>2, MissingIsInt, Sizes DEF ServerMissing
<1>4. PICK n \in 1..ServerMissing : /\ n <= Len(toServer)
                                    /\ inbox' = inbox \o SubSeq(toServer, 1, n)
                                    /\ toServer' = SubSeq(toServer, n + 1, Len(toServer))
  BY DEF ServerReceives
<1>5. n \in Int /\ n >= 1
  BY <1>3
<1>6. inbox' \in Seq(Byte) /\ toServer' \in Seq(Byte) /\ inbox' \o toServer' = inbox \o toServer
  BY <1>2, <1>4, <1>5, Taken
<1>7. toServer # <<>>
  BY <1>4, <1>5
<1>8. pc # "refused" /\ ask # None /\ served = None
  BY <1>1, <1>7 DEF LinkInv, PhaseInv, StreamInv
<1>9. StreamInv'
  <2>1. /\ toClient = <<>> /\ reply = <<>> /\ Part(createBuffer(ask), 0, inbox \o toServer)
    BY <1>8 DEF LinkInv, StreamInv
  <2> QED
    BY <1>1, <1>2, <1>6, <1>8, <2>1 DEF StreamInv
<1> QED
  BY <1>1, <1>9, StreamStep

LEMMA ClientReceivesStep ==
  ASSUME LinkInv, ClientReceives
  PROVE  LinkInv'
<1>1. /\ pc = "wait"
      /\ UNCHANGED <<eof, pc, cut, toServer, inbox, serving, identity, table, exchange>>
      /\ UNCHANGED <<ask, served, answer, result>>
  BY DEF ClientReceives, config, exchange
<1>2. toServer \in Seq(Byte) /\ toClient \in Seq(Byte) /\ inbox \in Seq(Byte) /\ reply \in Seq(Byte)
  BY DEF LinkInv, StreamInv
<1>3. ClientMissing \in Int
  <2>1. 3 + 4 <= ReplyHeader /\ ReplyHeader \in Nat
    BY Sizes
  <2> QED
    BY <1>2, <2>1, MissingIsInt DEF ClientMissing
<1>4. PICK n \in 1..ClientMissing : /\ n <= Len(toClient)
                                    /\ reply' = reply \o SubSeq(toClient, 1, n)
                                    /\ toClient' = SubSeq(toClient, n + 1, Len(toClient))
  BY DEF ClientReceives
<1>5. n \in Int /\ n >= 1
  BY <1>3
<1>6. reply' \in Seq(Byte) /\ toClient' \in Seq(Byte) /\ reply' \o toClient' = reply \o toClient
  BY <1>2, <1>4, <1>5, Taken
<1>7. toClient # <<>>
  BY <1>4, <1>5
<1>8. served # None /\ result = None /\ ask # None
  BY <1>1, <1>7 DEF LinkInv, PhaseInv, StreamInv
<1>9. StreamInv'
  <2>1. toServer = <<>> /\ inbox = <<>> /\ Part(_build_response(answer), 0, reply \o toClient)
    BY <1>8 DEF LinkInv, StreamInv
  <2> QED
    BY <1>1, <1>2, <1>6, <1>8, <2>1 DEF StreamInv
<1> QED
  BY <1>1, <1>9, StreamStep

\* my.info gives back the ID that was saved.
LEMMA SavedId ==
  ASSUME LinkInv
  PROVE  (IF myInfo = None THEN Nobody ELSE uuidHex32ToBytes16(myInfo)) = issued
<1>1. issued \in Bytes(IdSize) /\ IdSize \in Nat
  BY Constants, Sizes DEF LinkInv, IdInv
<1>2. bytesToHex(issued) \in Seq(Byte) /\ uuidHex32ToBytes16(bytesToHex(issued)) = issued
  BY <1>1, ReadHex
<1>3. bytesToHex(issued) # None
  BY <1>2, Nothings
<1> QED
  BY <1>2, <1>3 DEF LinkInv, IdInv

LEMMA StartStep ==
  ASSUME LinkInv, Start
  PROVE  LinkInv'
<1>1. /\ pc = "start" /\ ~serving /\ me' = issued /\ friends' = {}
      /\ ask' = None /\ served' = None /\ answer' = None /\ result' = None
      /\ UNCHANGED <<eof, myInfo, issued, table>>
  BY SavedId DEF Start, Forget, config
<1>2. \/ /\ pc' = "menu" /\ serving' = TRUE /\ cut' = FALSE
         /\ toServer' = <<>> /\ toClient' = <<>> /\ inbox' = <<>> /\ reply' = <<>>
      \/ pc' = "refused" /\ UNCHANGED <<cut, toServer, toClient, inbox, reply, serving>>
  BY DEF Start, wire
<1>3. PhaseInv'
  <2>1. cut /\ serving = FALSE
    BY <1>1 DEF LinkInv, PhaseInv
  <2>2. CASE pc' = "menu" /\ serving' = TRUE /\ cut' = FALSE
    BY <1>1, <2>2 DEF LinkInv, PhaseInv
  <2>3. CASE pc' = "refused" /\ UNCHANGED <<cut, serving>>
    BY <1>1, <2>1, <2>3 DEF LinkInv, PhaseInv
  <2> QED
    BY <1>2, <2>2, <2>3
<1>4. IdInv'
  BY <1>1 DEF LinkInv, IdInv
<1>5. TableInv'
  BY <1>1 DEF LinkInv, TableInv
<1>6. ExchangeInv'
  BY <1>1 DEF ExchangeInv
<1>7. StreamInv'
  BY <1>1, <1>2 DEF LinkInv, StreamInv
<1> QED
  BY <1>3, <1>4, <1>5, <1>6, <1>7 DEF LinkInv

\* A request is asked on streams that carry nothing.
LEMMA AskStep ==
  ASSUME LinkInv, pc = "choice", NEW r \in Requests, Ask(r), r # None, Small(r), r.id = me
  PROVE  LinkInv'
<1>1. /\ ask' = r /\ served' = None /\ answer' = None /\ result' = None
      /\ toServer' = IF cut THEN toServer ELSE toServer \o createBuffer(r)
      /\ pc' = "wait"
      /\ UNCHANGED <<eof, cut, toClient, inbox, reply, serving, me, friends, myInfo, issued, table>>
  BY DEF Ask, config, identity
<1>2. PhaseInv'
  BY <1>1 DEF LinkInv, PhaseInv
<1>3. IdInv'
  BY <1>1 DEF LinkInv, IdInv
<1>4. TableInv'
  BY <1>1 DEF LinkInv, TableInv
<1>5. ExchangeInv'
  BY <1>1 DEF ExchangeInv
<1>6. StreamInv'
  <2>1. ask = None \/ result # None
    BY DEF LinkInv, PhaseInv
  <2>2. toServer = <<>> /\ inbox = <<>> /\ toClient = <<>> /\ reply = <<>>
    BY <2>1 DEF LinkInv, ExchangeInv, StreamInv
  <2>3. createBuffer(r) \in Seq(Byte)
    BY RequestLayout
  <2>4. toServer' \in Seq(Byte) /\ inbox' \o toServer' = toServer' /\ toServer' \in {<<>>, createBuffer(r)}
    BY <1>1, <2>2, <2>3
  <2>5. Part(createBuffer(r), 0, toServer')
    BY <2>3, <2>4 DEF Part
  <2> QED
    BY <1>1, <2>2, <2>4, <2>5 DEF StreamInv
<1> QED
  BY <1>2, <1>3, <1>4, <1>5, <1>6 DEF LinkInv

\* The server answers the request that was asked.
LEMMA Handled ==
  ASSUME LinkInv, Handle
  PROVE  \E a \in Replies(ask) :
           /\ Replied(ask, a)
           /\ served' = ask /\ answer' = a /\ inbox' = <<>>
           /\ table' = IF a.code = 2100 THEN table \cup {[id |-> a.id, name |-> ask.name]} ELSE table
           /\ toClient' = IF cut THEN toClient ELSE toClient \o _build_response(a)
<1>1. ask # None /\ ParseRequest(inbox) = ask
  BY WholeRequest DEF Handle
<1>2. ask \in Requests
  BY <1>1 DEF LinkInv, ExchangeInv
<1> DEFINE Answered(r, a) ==
             /\ served' = r /\ answer' = a /\ inbox' = <<>>
             /\ table' = IF a.code = 2100 THEN table \cup {[id |-> a.id, name |-> r.name]} ELSE table
             /\ toClient' = IF cut THEN toClient ELSE toClient \o _build_response(a)
<1>3. \E a \in Replies(ParseRequest(inbox)) : Answered(ParseRequest(inbox), a)
  <2>1. inbox' = <<>> /\ served' = ParseRequest(inbox)
    BY Zenon DEF Handle
  <2>2. PICK a \in Replies(ParseRequest(inbox)) :
          /\ answer' = a
          /\ table' = IF a.code = 2100
                      THEN table \cup {[id |-> a.id, name |-> ParseRequest(inbox).name]} ELSE table
          /\ toClient' = IF cut THEN toClient ELSE toClient \o _build_response(a)
    BY Zenon DEF Handle
  <2> QED
    BY <2>1, <2>2, Zenon
<1> HIDE DEF Answered
<1>4. PICK a \in Replies(ask) : Answered(ask, a)
  BY <1>1, <1>3, Zenon
<1>5. Replied(ask, a)
  BY <1>2, <1>4, RepliesTyped
<1> QED
  BY <1>4, <1>5, Zenon DEF Answered

LEMMA HandleStep ==
  ASSUME LinkInv, Handle
  PROVE  LinkInv'
<1>1. PICK a \in Replies(ask) :
        /\ Replied(ask, a)
        /\ served' = ask /\ answer' = a /\ inbox' = <<>>
        /\ table' = IF a.code = 2100 THEN table \cup {[id |-> a.id, name |-> ask.name]} ELSE table
        /\ toClient' = IF cut THEN toClient ELSE toClient \o _build_response(a)
  BY Handled
<1>2. /\ ask # None /\ served = None /\ answer = None /\ result = None
      /\ toServer = <<>> /\ toClient = <<>> /\ reply = <<>>
  BY WholeRequest DEF Handle
<1>3. UNCHANGED <<eof, pc, cut, toServer, reply, serving, me, friends, myInfo, issued, ask, result>>
  BY DEF Handle, config, identity
<1>4. /\ a \in Responses /\ SmallReply(a)
      /\ a.code = 2100 => ask.code = 700 /\ a.id \in Ids /\ ~Known(a.id)
      /\ a.code = 2101 => ToSet(a.rows) \subseteq table
  BY <1>1 DEF Replied
<1>5. a # None /\ ask \in Requests
  BY <1>2, <1>4, Nothings DEF LinkInv, ExchangeInv
<1>6. PhaseInv'
  BY <1>3 DEF LinkInv, PhaseInv
<1>7. IdInv'
  BY <1>3 DEF LinkInv, IdInv
<1>8. TableInv' /\ table \subseteq table'
  <2>1. CASE a.code # 2100
    BY <1>1, <1>3, <2>1 DEF LinkInv, TableInv
  <2>2. CASE a.code = 2100
    <3> DEFINE new == [id |-> a.id, name |-> ask.name]
    <3>1. new \in Rows /\ new.id = a.id
      <4>1. ask.name \in Usernames
        BY <1>4, <1>5, <2>2, RequestKinds
      <4> QED
        BY <1>4, <2>2, <4>1, Constants DEF Rows
    <3>2. \A row \in table : row.id # a.id
      BY <1>4, <2>2 DEF Known
    <3>3. table' = table \cup {new}
      BY <1>1, <2>2
    <3> HIDE DEF new
    <3> QED
      BY <1>3, <1>4, <2>2, <3>1, <3>2, <3>3 DEF LinkInv, TableInv
  <2> QED
    BY <2>1, <2>2
<1>9. ExchangeInv'
  BY <1>1, <1>2, <1>3, <1>4, <1>5, <1>8 DEF LinkInv, ExchangeInv
<1>10. StreamInv'
  <2>1. _build_response(a) \in Seq(Byte)
    BY <1>4, ReplyLayout
  <2>2. /\ toClient' \in Seq(Byte) /\ reply' \o toClient' = toClient'
        /\ toClient' \in {<<>>, _build_response(a)}
    BY <1>1, <1>2, <1>3, <2>1
  <2>3. Part(_build_response(a), 0, toClient')
    BY <2>1, <2>2 DEF Part
  <2> QED
    BY <1>1, <1>2, <1>3, <1>5, <2>2, <2>3 DEF LinkInv, StreamInv
<1> QED
  BY <1>6, <1>7, <1>8, <1>9, <1>10 DEF LinkInv

\* The client gets what can be seen of the response that was meant.
LEMMA ProcessStep ==
  ASSUME LinkInv, Process
  PROVE  LinkInv' /\ result' = Visible(answer)
<1>1. /\ ask # None /\ served = ask /\ answer # None /\ result = None
      /\ toServer = <<>> /\ inbox = <<>> /\ toClient = <<>>
      /\ ParseReply(reply) = Kept(answer)
  BY WholeReply DEF Process
<1> DEFINE a == Kept(answer)
<1>2. /\ answer \in Responses /\ SmallReply(answer)
      /\ answer.code = 2100 => answer.id \in Ids
      /\ answer.code = 2101 => ToSet(answer.rows) \subseteq table
  BY <1>1 DEF LinkInv, ExchangeInv
<1>3. a # None /\ a = Visible(answer)
  BY <1>2, KeptIsSeen
<1>4. /\ a.code = 2100 => a.id \in Ids
      /\ a.code = 2101 => ToSet(a.rows) \subseteq table
  BY <1>2 DEF Kept
<1>5. /\ pc = "wait" /\ reply' = <<>> /\ result' = a
      /\ UNCHANGED <<eof, toServer, toClient, inbox, serving, table, ask, served, answer>>
  BY <1>1, <1>3 DEF Process, config
<1>6. \/ pc' = "start" /\ cut' = TRUE /\ UNCHANGED <<me, friends, myInfo, issued>>
      \/ /\ pc' = "menu" /\ UNCHANGED cut
         /\ IF a.code = 2100
            THEN me' = a.id /\ issued' = a.id /\ myInfo' = bytesToHex(a.id)
            ELSE UNCHANGED <<me, issued, myInfo>>
         /\ friends' = IF a.code # 2101 THEN friends
                       ELSE {row \in friends : \A i \in 1..Len(a.rows) : a.rows[i].id # row.id}
                              \cup ToSet(a.rows)
  BY <1>1, <1>3 DEF Process, End, identity
<1> HIDE DEF a
<1>7. PhaseInv'
  <2>1. CASE pc' = "start" /\ cut' = TRUE
    BY <1>3, <1>5, <2>1 DEF LinkInv, PhaseInv
  <2>2. CASE pc' = "menu" /\ UNCHANGED cut
    BY <1>3, <1>5, <2>2 DEF LinkInv, PhaseInv
  <2> QED
    BY <1>6, <2>1, <2>2, Zenon
<1>8. IdInv'
  <2>1. me = issued /\ issued \in Ids \cup {Nobody}
        /\ myInfo = IF issued = Nobody THEN None ELSE bytesToHex(issued)
    BY <1>5 DEF LinkInv, IdInv
  <2>2. a.code = 2100 => a.id \in Ids /\ a.id # Nobody
    BY <1>4, Constants
  <2>3. \/ UNCHANGED <<me, issued, myInfo>>
        \/ a.code = 2100 /\ me' = a.id /\ issued' = a.id /\ myInfo' = bytesToHex(a.id)
    BY <1>6
  <2>4. result' # None
    BY <1>3, <1>5
  <2> QED
    BY <2>1, <2>2, <2>3, <2>4 DEF IdInv
<1>9. TableInv'
  BY <1>4, <1>5, <1>6 DEF LinkInv, TableInv
<1>10. ExchangeInv'
  BY <1>1, <1>5 DEF LinkInv, ExchangeInv, a
<1>11. StreamInv'
  BY <1>1, <1>3, <1>5 DEF LinkInv, StreamInv
<1> QED
  BY <1>3, <1>5, <1>7, <1>8, <1>9, <1>10, <1>11 DEF LinkInv

LEMMA LinkStep ==
  ASSUME LinkInv, [Next]_vars
  PROVE  LinkInv'
<1> USE DEF config, exchange
<1>1. CASE Start
  BY <1>1, StartStep
<1>2. CASE EndOfInput \/ ReadMenu \/ BackToMenu
  <2>1. /\ eof' \in BOOLEAN /\ (UNCHANGED pc \/ {pc, pc'} \subseteq {"menu", "choice"})
        /\ UNCHANGED <<wire, identity, table, exchange>>
    BY <1>2 DEF EndOfInput, ReadMenu, BackToMenu, LinkInv, PhaseInv
  <2> QED
    BY <2>1, ChoiceStep
<1>3. CASE AskServer \/ Register \/ AskFriend
  BY <1>3, AskedRequests, AskStep
<1>4. CASE Exit
  <2>1. /\ pc \in {"choice", "wait"} /\ End
        /\ UNCHANGED <<eof, toServer, toClient, inbox, reply, serving, identity, table, exchange>>
    BY <1>4 DEF Exit
  <2> QED
    BY <2>1, EndStep
<1>5. CASE ClientGivesUp
  <2>1. /\ pc \in {"choice", "wait"} /\ End
        /\ UNCHANGED <<eof, toServer, toClient, inbox, reply, serving, identity, table, exchange>>
    BY <1>5 DEF ClientGivesUp
  <2> QED
    BY <2>1, EndStep
<1>6. CASE UNCHANGED vars
  <2>1. UNCHANGED <<eof, pc, wire, identity, table, exchange>>
    BY <1>6 DEF vars
  <2>2. eof' \in BOOLEAN
    BY <2>1 DEF LinkInv, PhaseInv
  <2> QED
    BY <2>1, <2>2, ChoiceStep
<1> QED
  BY <1>1, <1>2, <1>3, <1>4, <1>5, <1>6, ClientReceivesStep, ProcessStep, ServerReceivesStep,
     ServerGivesUpStep, HandleStep, BreakStep DEF Next, User, Client, Server

LEMMA LinkInvariant == Spec => []LinkInv
<1>1. Init => LinkInv
  <2> SUFFICES ASSUME Init PROVE LinkInv
    OBVIOUS
  <2>1. PhaseInv
    BY DEF Init, PhaseInv
  <2>2. IdInv
    BY DEF Init, IdInv
  <2>3. TableInv
    BY Constants DEF Init, TableInv
  <2>4. ExchangeInv
    BY DEF Init, ExchangeInv
  <2>5. StreamInv
    BY DEF Init, StreamInv
  <2> QED
    BY <2>1, <2>2, <2>3, <2>4, <2>5 DEF LinkInv
<1> QED
  BY <1>1, LinkStep, PTL DEF Spec

\* The client holds an ID the server has drawn, or none; what its cache holds
\* are rows of the server's table.
THEOREM TypeCorrect == Spec => []TypeOK
<1>1. LinkInv => TypeOK
  BY DEF LinkInv, PhaseInv, IdInv, TableInv, TypeOK
<1> QED
  BY <1>1, LinkInvariant, PTL

\* The ID in a request is the one the client was told when it registered,
\* also after a restart, from the hexadecimal digits in my.info, and whatever
\* pieces the request came in.
THEOREM IdIsKept == Spec => []IdKept
<1>1. LinkInv => IdKept
  BY DEF LinkInv, IdInv, ExchangeInv, IdKept
<1> QED
  BY <1>1, LinkInvariant, PTL

-----------------------------------------------------------------------------
(* The link implements the exchange *)

LEMMA NoAnswer == Visible(None) = None
BY DEF Visible

\* The steps that the exchange does not see.
LEMMA Unseen ==
  ASSUME EndOfInput \/ ReadMenu \/ BackToMenu \/ Exit \/ ClientReceives \/ ClientGivesUp
           \/ ServerReceives \/ ServerGivesUp \/ Break \/ UNCHANGED vars
  PROVE  UNCHANGED exchange
<1>1. CASE EndOfInput \/ ReadMenu \/ BackToMenu \/ Exit
  BY <1>1 DEF EndOfInput, ReadMenu, BackToMenu, Exit, exchange
<1>2. CASE ClientReceives \/ ClientGivesUp
  BY <1>2 DEF ClientReceives, ClientGivesUp, exchange
<1>3. CASE ServerReceives \/ ServerGivesUp \/ Break
  BY <1>3 DEF ServerReceives, ServerGivesUp, Break, exchange
<1>4. CASE UNCHANGED vars
  BY <1>4 DEF vars
<1> QED
  BY <1>1, <1>2, <1>3, <1>4

\* What ClientConnection and connection.py pass in pieces is passed whole or
\* not at all: the server is served the request that was asked, the client
\* gets the response that was meant, each at most once; starting up gives up
\* whatever was asked before.
THEOREM LinkImplementsExchange == Spec => ImplementsExchange
<1>1. Init => Passed!Init
  BY NoAnswer DEF Init, Passed!Init
<1>2. ASSUME LinkInv, [Next]_vars PROVE [Passed!Next]_(Passed!exchange)
  <2>1. CASE Start
    BY <2>1, NoAnswer DEF Start, Forget, Passed!Next, Passed!GiveUp
  <2>2. CASE AskServer \/ Register \/ AskFriend
    <3>1. PICK r : Ask(r) /\ pc = "choice" /\ r # None
      BY <1>2, <2>2, AskedRequests
    <3>2. ask = None \/ result # None
      BY <1>2, <3>1 DEF LinkInv, PhaseInv
    <3>3. ask' = r /\ served' = None /\ answer' = None /\ result' = None
      BY <3>1 DEF Ask
    <3> QED
      BY <3>1, <3>2, <3>3, NoAnswer DEF Passed!Next, Passed!Ask
  <2>3. CASE Handle
    <3>1. PICK a \in Replies(ask) : Replied(ask, a) /\ served' = ask /\ answer' = a
      BY <1>2, <2>3, Handled
    <3>2. ask # None /\ served = None
      BY <1>2, <2>3, WholeRequest DEF Handle
    <3>3. UNCHANGED <<ask, result>>
      BY <2>3 DEF Handle
    <3>4. Visible(a) # None /\ Fits(ask, Visible(a))
      BY <3>1, KeptIsSeen DEF Replied
    <3>5. Visible(answer)' = Visible(a)
      BY <3>1 DEF Visible
    <3> QED
      BY <3>1, <3>2, <3>3, <3>4, <3>5 DEF Passed!Next, Passed!Serve
  <2>4. CASE Process
    <3>1. answer # None /\ result = None
      BY <1>2, <2>4, WholeReply DEF Process
    <3>2. Visible(answer) # None
      BY <1>2, <3>1, KeptIsSeen DEF LinkInv, ExchangeInv
    <3>3. result' = Visible(answer)
      BY <1>2, <2>4, ProcessStep
    <3>4. UNCHANGED <<ask, served, answer>>
      BY <2>4 DEF Process
    <3>5. Visible(answer)' = Visible(answer)
      BY <3>4 DEF Visible
    <3> QED
      BY <3>1, <3>2, <3>3, <3>4, <3>5 DEF Passed!Next, Passed!Return
  <2>5. CASE UNCHANGED exchange
    <3>1. Visible(answer)' = Visible(answer)
      BY <2>5 DEF exchange, Visible
    <3> QED
      BY <2>5, <3>1 DEF exchange, Passed!exchange
  <2> QED
    BY <1>2, <2>1, <2>2, <2>3, <2>4, <2>5, Unseen DEF Next, User, Client, Server
<1> QED
  BY <1>1, <1>2, LinkInvariant, PTL DEF Spec, ImplementsExchange, Passed!Spec
=============================================================================
