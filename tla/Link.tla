-------------------------------- MODULE Link --------------------------------
(***************************************************************************)
(* One client program and the server thread that serves it, down to the    *)
(* bytes: how they find each other (FileManager.cpp, get_port.py), how     *)
(* lines typed become requests (ClientMenu.cpp, ClientActions.cpp), how    *)
(* requests and responses travel in pieces (ClientConnection.cpp,          *)
(* connection.py), and how the ID gets from the server into requests, also *)
(* through my.info.  The streams may break anywhere, programs end and are  *)
(* started again.  Keys and contents of messages are arbitrary bytes:      *)
(* module Client tells which there are.                                    *)
(***************************************************************************)
EXTENDS Wire

CONSTANTS
  Lines,        \* what users enter at the menu: numbers, NaN for anything else
  Typed,        \* what they enter at the prompt for a name: bytes
  Texts,        \* the contents of messages: bytes
  Key,          \* a public key: bytes
  Ids,          \* the IDs the server may draw: bytes
  Friend,       \* the row of another client
  Mail,         \* the messages that may wait for the client
  MaxWaiting,   \* how many of them at once
  StoredNo,     \* the number the server gives a message it stores
  ServerFiles,  \* the contents of myport.info.txt: the number or NaN in each line, <<>> if
                \* there is no such file
  ClientFiles,  \* the contents of server.info.txt
  NaN

Nobody == [i \in 1..IdSize |-> 0]  \* _clientID before registration
Localhost == <<127, 0, 0, 1>>      \* the address at which the server listens

\* Names and texts are lines of text: they have no byte 0.
ASSUME LinkAssumption ==
  /\ NaN \notin Nat /\ Lines \subseteq Nat \cup {NaN}
  /\ IsFiniteSet(Ids) /\ Ids \subseteq Bytes(IdSize) \ {Nobody, Friend.id}
  /\ Friend \in [id : Bytes(IdSize) \ {Nobody}, name : Usernames]
  /\ Typed \subseteq Seq(1..255) /\ Texts \subseteq Seq(Byte) /\ Key \in Bytes(KeySize)
  /\ Mail \subseteq Messages
  /\ MaxWaiting \in Nat /\ StoredNo \in Uint32

\* None is nothing that may be sent, read or saved.
ASSUME NoneAssumption ==
  LET Read == [from : Bytes(IdSize), type : Byte, content : Seq(Byte)] IN
  None \notin Requests \cup Responses \cup Read \cup [code : {2104}, msgs : Seq(Read)] \cup Seq(Byte)

\* The size of whatever is sent fits into the four bytes there are for it.
ASSUME SizeAssumption ==
  /\ \A content \in Texts \cup {<<>>} : IdSize + 5 + Len(content) \in Uint32
  /\ {NameSize + KeySize, IdSize + KeySize} \subseteq Uint32
  /\ (Cardinality(Ids) + 1) * (IdSize + NameSize) \in Uint32
  /\ \A m \in Mail : Len(m.content) \in Uint32
  /\ \A msgs \in BoundedSeq(Mail, MaxWaiting) :
       Len(ReplyPayload([code |-> 2104, msgs |-> msgs])) \in Uint32

VARIABLES
  files,    \* the two configuration files
  pc,       \* the client's main thread
  number,   \* the menu number chosen
  eof,      \* the standard input has ended
  me,       \* _clientID
  friends,  \* the rows of the cache
  myInfo,   \* my.info: the ID in hexadecimal, or None
  cut,      \* the connection is broken
  toServer, toClient,  \* the bytes on their way
  inbox, reply,        \* the bytes received of a request, of a response
  serving,  \* the server thread runs
  table,    \* the table clients
  line,     \* history: the last line typed at the menu and not acted upon
  issued,   \* history: the ID of the last registration the client was told of
  ask, served, answer, result  \* history: the request, as sent and as read by
                               \* the server; the response, as sent and as read

config   == <<files, eof>>
input    == <<number, line>>
wire     == <<cut, toServer, toClient, inbox, reply, serving>>
identity == <<me, friends, myInfo, issued>>
exchange == <<ask, served, answer, result>>
vars     == <<config, input, pc, wire, identity, table, exchange>>

Init ==
  /\ files \in [server : ServerFiles, client : ClientFiles]
  /\ eof = FALSE /\ pc = "start" /\ number = 0 /\ line = None
  /\ me = Nobody /\ friends = {} /\ myInfo = None /\ issued = Nobody
  /\ cut = TRUE /\ serving = FALSE
  /\ toServer = <<>> /\ toClient = <<>> /\ inbox = <<>> /\ reply = <<>>
  /\ table = {Friend}
  /\ ask = None /\ served = None /\ answer = None /\ result = None

Forget == ask' = None /\ served' = None /\ answer' = None /\ result' = None

-----------------------------------------------------------------------------
(* Starting up *)

\* Mutant: a bound one too small.
ButTheLast(port) == port \in 1..2^16 - 2
LegalPort(port) == port \in 1..2^16 - 1

get_server_port ==
  IF Len(files.server) = 1 /\ LegalPort(files.server[1]) THEN files.server[1] ELSE 1357

\* One line, an address of four bytes, a port.
Ports == 1..65535
validateAndLoadServerInfo ==
  /\ files.client.lines = 1
  /\ files.client.port \in Ports
  /\ Len(files.client.address) = 4 /\ \A i \in 1..4 : files.client.address[i] \in 0..255

\* The program starts: loadMyInfo, then the constructor of ClientConnection,
\* which throws if server.info.txt is no good or nobody listens there.  Threads
\* left over from an earlier connection are the subject of module Server.
Start ==
  /\ pc = "start" /\ ~serving
  /\ me' = IF myInfo = None THEN Nobody ELSE uuidHex32ToBytes16(myInfo)
  /\ friends' = {}
  /\ IF /\ validateAndLoadServerInfo
        /\ files.client.address = Localhost /\ files.client.port = get_server_port
     THEN /\ pc' = "menu" /\ serving' = TRUE /\ cut' = FALSE
          /\ toServer' = <<>> /\ toClient' = <<>> /\ inbox' = <<>> /\ reply' = <<>>
     ELSE pc' = "refused" /\ UNCHANGED wire
  /\ Forget
  /\ UNCHANGED <<config, input, myInfo, issued, table>>

-----------------------------------------------------------------------------
(* The user *)

EndOfInput ==
  /\ ~eof /\ pc \in {"menu", "choice"}
  /\ eof' = TRUE
  /\ UNCHANGED <<files, input, pc, wire, identity, table, exchange>>

\* Mutant: no check against UINT16_MAX.
WrappedNumber(n) == IF n = NaN THEN 65535 ELSE n % 2^16

\* getUserInput, with INPUT_ERROR = UINT16_MAX.
getUserInput(n) == IF n = NaN \/ n > 65535 THEN 65535 ELSE n

isValidMenuOption(n) == n \in {110, 120, 130, 140, 150, 151, 152, 0}

\* clientMenuMain reads lines until one is a number of the menu; at the end of
\* the input every line is empty, and it reads for ever.
ReadMenu ==
  /\ pc = "menu"
  /\ \E n \in IF eof THEN {NaN} ELSE Lines :
       line' = n /\ number' = getUserInput(n) /\ isValidMenuOption(number')
  /\ pc' = "choice"
  /\ UNCHANGED <<config, wire, identity, table, exchange>>

\* What getValidUsername returns, which asks until the name is valid; at the
\* end of the input it asks for ever.
Names == IF eof THEN {} ELSE {n \in Typed : isValidUsername(n)}
Zero  == <<48>>  \* "0"

\* Back to the menu without a request: registered already, cancelled, no such
\* friend, or no key or no text for it.
BackToMenu ==
  /\ pc = "choice"
  /\ \/ number = 110 /\ me # Nobody
     \/ /\ number \in {130, 150, 151, 152}
        /\ \E n \in Names : \/ n = Zero \/ \A row \in friends : row.name # n
                            \/ number \in {150, 152}
  /\ pc' = "menu"
  /\ UNCHANGED <<config, input, wire, identity, table, exchange>>

\* createBuffer, sendData.
Ask(r) ==
  /\ ask' = r /\ served' = None /\ answer' = None /\ result' = None
  /\ toServer' = IF cut THEN toServer ELSE toServer \o createBuffer(r)
  /\ pc' = "wait" /\ line' = None
  /\ UNCHANGED <<config, number, cut, toClient, inbox, reply, serving, identity, table>>

AskServer ==
  /\ pc = "choice" /\ number \in {120, 140}
  /\ Ask([code |-> IF number = 120 THEN 701 ELSE 704, id |-> me])

Register ==
  /\ pc = "choice" /\ number = 110 /\ me = Nobody
  /\ \E n \in Names : Ask([code |-> 700, id |-> me, name |-> n, key |-> Key])

Send(target, type, content) ==
  Ask([code |-> 703, id |-> me, target |-> target, type |-> type, content |-> content])

\* handlePublicKey and handleAllMessages, with tryGetFriendIdByName.
AskFriend ==
  /\ pc = "choice"
  /\ \E row \in friends :
       /\ row.name \in Names \ {Zero}
       /\ \/ number = 130 /\ Ask([code |-> 702, id |-> me, target |-> row.id])
          \/ number = 151 /\ Send(row.id, 1, <<>>)
          \/ number = 152 /\ \E content \in Texts : Send(row.id, 2, content)
          \/ number = 150 /\ \E content \in Texts : Send(row.id, 3, content)

\* The program ends and closes its socket; it may be started again.
End == pc' = "start" /\ cut' = TRUE

Exit ==
  /\ pc = "choice" /\ number = 0
  /\ End
  /\ UNCHANGED <<config, input, toServer, toClient, inbox, reply, serving, identity,
                 table, exchange>>

-----------------------------------------------------------------------------
(* The streams *)

\* Mutant: the payload is read at once.
MissingOnce(bytes, header, at) ==
  CASE Len(bytes) < header -> header - Len(bytes)
    [] Len(bytes) = header -> PayloadSize(bytes, at)
    [] OTHER               -> 0

\* What receive_exact and receiveExact still wait for: of the header, then of
\* the payload whose size the header gives.
Missing(bytes, header, at) ==
  IF Len(bytes) < header THEN header - Len(bytes)
  ELSE header + PayloadSize(bytes, at) - Len(bytes)

ServerMissing == Missing(inbox, RequestHeader, IdSize + 3)
ClientMissing == Missing(reply, ReplyHeader, 3)

\* recv returns what is there, at least a byte, at most what was asked for.
ServerReceives ==
  /\ serving
  /\ \E n \in 1..ServerMissing :
       /\ n <= Len(toServer)
       /\ inbox' = inbox \o SubSeq(toServer, 1, n)
       /\ toServer' = SubSeq(toServer, n + 1, Len(toServer))
  /\ UNCHANGED <<config, input, pc, cut, toClient, reply, serving, identity, table, exchange>>

ClientReceives ==
  /\ pc = "wait"
  /\ \E n \in 1..ClientMissing :
       /\ n <= Len(toClient)
       /\ reply' = reply \o SubSeq(toClient, 1, n)
       /\ toClient' = SubSeq(toClient, n + 1, Len(toClient))
  /\ UNCHANGED <<config, input, pc, cut, toServer, inbox, serving, identity, table, exchange>>

\* The connection breaks; what is on its way arrives up to some byte.
Break ==
  /\ ~cut
  /\ cut' = TRUE
  /\ \E i \in 0..Len(toServer) : toServer' = SubSeq(toServer, 1, i)
  /\ \E i \in 0..Len(toClient) : toClient' = SubSeq(toClient, 1, i)
  /\ UNCHANGED <<config, input, pc, inbox, reply, serving, identity, table, exchange>>

\* receive_exact gets an empty chunk: ConnectionError ends the thread.
ServerGivesUp ==
  /\ serving /\ cut /\ toServer = <<>> /\ ServerMissing > 0
  /\ serving' = FALSE
  /\ UNCHANGED <<config, input, pc, cut, toServer, toClient, inbox, reply, identity, table,
                 exchange>>

\* asio::read throws; main() ends the program.
ClientGivesUp ==
  /\ pc = "wait" /\ cut /\ toClient = <<>> /\ ClientMissing > 0
  /\ End
  /\ UNCHANGED <<config, input, toServer, toClient, inbox, reply, serving, identity, table,
                 exchange>>

-----------------------------------------------------------------------------
(* The server's handlers and the client's processing *)

Error == [code |-> 9000]
Known(i) == \E row \in table : row.id = i

\* The responses of request_handler_main; a database error is always possible.
Replies(r) ==
  {Error} \cup
  IF r = None THEN {}
  ELSE IF r.code = 700
  THEN {[code |-> 2100, id |-> i] : i \in
         {i \in Ids : ~Known(i) /\ \A row \in table : row.name # r.name}}
  ELSE IF ~Known(r.id) THEN {}
  ELSE CASE r.code = 701 -> {[code |-> 2101, rows |-> rows] :
                               rows \in SetToSeqs({row \in table : row.id # r.id})}
         [] r.code = 702 -> {[code |-> 2102, id |-> row.id, key |-> Key] :
                               row \in {row \in table : row.id = r.target}}
         [] r.code = 703 -> {[code |-> 2103, id |-> row.id, no |-> StoredNo] :
                               row \in {row \in table : row.id = r.target}}
         [] r.code = 704 -> {[code |-> 2104, msgs |-> msgs] : msgs \in BoundedSeq(Mail, MaxWaiting)}

Handle ==
  /\ serving /\ ServerMissing = 0
  /\ inbox' = <<>>
  /\ LET r == ParseRequest(inbox) IN
     /\ served' = r
     /\ \E a \in Replies(r) :
          /\ answer' = a
          /\ table' = IF a.code = 2100 THEN table \cup {[id |-> a.id, name |-> r.name]} ELSE table
          /\ toClient' = IF cut THEN toClient ELSE toClient \o _build_response(a)
  /\ UNCHANGED <<config, input, pc, cut, toServer, reply, serving, identity, ask, result>>

Unreadable == [code |-> 0]

\* responseClientMain; what cannot be read, or a confirmation for an unknown
\* friend, ends the program.
Process ==
  /\ pc = "wait" /\ ClientMissing = 0
  /\ reply' = <<>>
  /\ LET a == ParseReply(reply) IN
     /\ result' = IF a = None THEN Unreadable ELSE a
     /\ IF a = None \/ (a.code = 2103 /\ \A row \in friends : row.id # a.id)
        THEN End /\ UNCHANGED identity
        ELSE /\ pc' = "menu" /\ UNCHANGED cut
             /\ IF a.code = 2100
                THEN me' = a.id /\ issued' = a.id /\ myInfo' = bytesToHex(a.id)
                ELSE UNCHANGED <<me, issued, myInfo>>
             /\ friends' = IF a.code # 2101 THEN friends
                           ELSE {row \in friends : \A i \in 1..Len(a.rows) : a.rows[i].id # row.id}
                                  \cup ToSet(a.rows)
  /\ UNCHANGED <<config, input, toServer, toClient, inbox, serving, table, ask, served, answer>>

-----------------------------------------------------------------------------
User   == EndOfInput \/ ReadMenu \/ BackToMenu \/ AskServer \/ Register \/ AskFriend \/ Exit
Client == ClientReceives \/ ClientGivesUp \/ Process
Server == ServerReceives \/ ServerGivesUp \/ Handle
Next   == Start \/ User \/ Client \/ Server \/ Break

Spec == Init /\ [][Next]_vars

\* Bytes under way arrive, or the connection breaks and both ends notice; both
\* programs run.  Users owe nothing.
FairSpec == Spec /\ WF_vars(Client) /\ WF_vars(Server)

-----------------------------------------------------------------------------
(* Correctness *)

\* The client holds an ID the server has drawn, or none; what its cache holds
\* are rows of the server's table.
TypeOK ==
  /\ pc \in {"start", "refused", "menu", "choice", "wait"}
  /\ me \in Ids \cup {Nobody} /\ issued \in Ids \cup {Nobody}
  /\ friends \subseteq table
  /\ cut \in BOOLEAN /\ serving \in BOOLEAN /\ eof \in BOOLEAN

\* A client whose server.info.txt names the port that myport.info.txt gives
\* the server is not turned away: validateAndLoadServerInfo and
\* get_server_port take the same numbers for ports.
SamePortsMeet ==
  pc = "refused" => ~ \E p \in Ports :
    files = [server |-> <<p>>, client |-> [lines |-> 1, address |-> Localhost, port |-> p]]

\* Whatever the pieces in which the streams arrive and wherever they break, the
\* server reads the request that was asked, the client the response that was
\* meant, each at most once (receive_exact, sendAndReceive).  The client skips
\* the numbers of the messages.
Visible(a) ==
  IF a # None /\ a.code = 2104
  THEN [a EXCEPT !.msgs = [i \in 1..Len(@) |->
         [from |-> @[i].from, type |-> @[i].type, content |-> @[i].content]]]
  ELSE a
Fits(r, a) == a = Error \/ (a.code = r.code + 1400 /\ (r.code \in {702, 703} => a.id = r.target))
Passed == INSTANCE Exchange WITH answer <- Visible(answer)
ImplementsExchange == Passed!Spec

\* A request comes from a line typed since the last one, whose number is
\* the menu's number for it: neither a number out of range nor the end of the
\* input (clientMenuMain) asks the server for anything.
MenuNumber(r) ==
  CASE r.code = 700 -> 110 [] r.code = 701 -> 120 [] r.code = 702 -> 130 [] r.code = 704 -> 140
    [] r.code = 703 -> CASE r.type = 1 -> 151 [] r.type = 2 -> 152 [] r.type = 3 -> 150
RequestsWereTyped ==
  [][ask' # ask /\ ask' # None => line = MenuNumber(ask')]_vars

\* The ID in a request is the one the client was told when it registered, also
\* after it was saved in hexadecimal and loaded again.
IdKept == served # None /\ result = None => served.id = issued

\* sendAndReceive returns or throws: neither side waits for bytes that the
\* other has not announced.
CallsReturn == pc = "wait" ~> pc # "wait"
=============================================================================
