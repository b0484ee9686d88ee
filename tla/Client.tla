------------------------------- MODULE Client -------------------------------
(***************************************************************************)
(* The MessageU client programs: the main thread that runs the menu        *)
(* (Main.cpp, ClientActions.cpp), the thread that polls for messages       *)
(* (PullRequests.cpp), the one connection they share (ClientConnection.cpp)*)
(* and the cache of friends and keys both update while they process        *)
(* responses (ResponseClient.cpp, ClientContext.cpp).                      *)
(*                                                                         *)
(* Every client is registered.  The server handles a request in one step   *)
(* and is the mailbox of module Mailbox; a request it has received from a  *)
(* connection that is lost it still handles, at some time.  A text is the  *)
(* key it was encrypted with; RSA is left out but for whom a key is sent   *)
(* to.                                                                     *)
(***************************************************************************)
EXTENDS Naturals, Sequences, FiniteSets, SequencesExt

CONSTANTS
  Clients,     \* the client programs
  Pollers,     \* those that run long enough for a poll, 60 s
  Commands,    \* the menu commands users give
  None,        \* no key, no message, no client, no thread
  Refusals,    \* the server may answer any request with an error
  Breaks,      \* connections may break
  Restarts,    \* those that may be killed, and are started again
  MaxSends,    \* bound: commands that send a message
  Slots        \* bound: per client, server threads of lost connections with a
               \* request still to handle

ASSUME ClientsAssumption ==
  /\ Pollers \subseteq Clients /\ Restarts \subseteq Clients
  /\ Commands \subseteq {"list", "publicKey", "waiting", "text", "requestKey", "sendKey", "exit"}
  /\ {Refusals, Breaks} \subseteq BOOLEAN /\ MaxSends \in Nat
  /\ None \notin Clients

VARIABLES
  friends,    \* per client: its cache of the other clients
  pc,         \* per client and thread: the step it takes next
  req, rsp,   \* per client and thread: its request, what is left of its response
  mutex,      \* per client: the thread that holds _connMutex, or None
  toServer, toClient,  \* per client: the two directions of its connection
  broken,     \* per client: the connection is lost
  stop,       \* per client: stopFlag
  sends,      \* the number of commands given that send a message
  box,        \* the server: per client, the messages waiting for it
  posted,     \* the server: the number of messages stored
  leftover,   \* the server: per client, requests of its lost connections
  handled,    \* history: per client, the numbers of the messages processed
  dropped,    \* history: per client, the numbers of the messages lost on the way to it
  mixed,      \* history: the clients whose two threads have had messages in hand
              \* at the same time
  had,        \* history: per client, the keys its program has had
  spoiled     \* history: the keys that were refused, or lost on the way, or that
              \* a program that has ended had had

net  == <<mutex, toServer, toClient, broken>>
srv  == <<box, posted>>
hist == <<handled, dropped, mixed, had, spoiled>>
vars == <<friends, pc, req, rsp, net, stop, sends, srv, leftover, hist>>

Threads == {"main", "pull"}
Steps   == {"menu", "sleep", "send", "receive", "process", "base", "store",
            "join", "done", "exited"}
Kinds   == {"list", "publicKey", "waiting", "send"}

Key     == [by : Clients, to : Clients, n : 1..MaxSends]
Friend  == [known : BOOLEAN, named : BOOLEAN, pub : BOOLEAN, sym : Key \cup {None}]
Content == [type : {"requestKey", "sendKey", "text"}, key : Key \cup {None}]
Message == [no : Nat, from : Clients, type : {"requestKey", "sendKey", "text"},
            key : Key \cup {None}]
Request == [kind : Kinds, peer : Clients \cup {None}, content : Content \cup {None}]
Response == [kind : Kinds \cup {"error"}, peer : Clients \cup {None},
             names : SUBSET Clients, msgs : Seq(Message)]

ASSUME NoneAssumption == None \notin Threads \cup Key \cup Content \cup Request \cup Response

Reply(kind, peer, names, msgs) == [kind |-> kind, peer |-> peer, names |-> names, msgs |-> msgs]
ErrorResponse == Reply("error", None, {}, <<>>)
Numbers(msgs) == {m.no : m \in msgs}

\* The messages in responses on the way to c; the keys sent in messages and in
\* requests.
OnTheWay(c)    == UNION {ToSet(response.msgs) : response \in ToSet(toClient[c])}
KeysIn(msgs)   == {m.key : m \in {m \in msgs : m.type = "sendKey"}}
KeyOf(request) == IF request # None /\ request.kind = "send" /\ request.content.type = "sendKey"
                  THEN {request.content.key} ELSE {}

NoFriends == [d \in Clients |-> [known |-> FALSE, named |-> FALSE, pub |-> FALSE, sym |-> None]]

Home(t) == IF t = "main" THEN "menu" ELSE "sleep"

Init ==
  /\ friends = [c \in Clients |-> NoFriends]
  /\ pc = [c \in Clients |-> [t \in Threads |-> Home(t)]]
  /\ req = [c \in Clients |-> [t \in Threads |-> None]]
  /\ rsp = [c \in Clients |-> [t \in Threads |-> None]]
  /\ mutex = [c \in Clients |-> None] /\ broken = [c \in Clients |-> FALSE]
  /\ toServer = [c \in Clients |-> <<>>] /\ toClient = [c \in Clients |-> <<>>]
  /\ stop = [c \in Clients |-> FALSE] /\ sends = 0
  /\ box = [c \in Clients |-> <<>>] /\ posted = 0
  /\ leftover = [c \in Clients |-> [s \in Slots |-> None]]
  /\ handled = [c \in Clients |-> {}]
  /\ dropped = [c \in Clients |-> {}]
  /\ mixed = {} /\ had = [c \in Clients |-> {}] /\ spoiled = {}

Goto(c, t, step) == pc' = [pc EXCEPT ![c][t] = step]

\* A thread is through with its request and response.
Return(c, t) ==
  /\ Goto(c, t, Home(t))
  /\ req' = [req EXCEPT ![c][t] = None]
  /\ rsp' = [rsp EXCEPT ![c][t] = None]

-----------------------------------------------------------------------------
(* The menu: handleMenuChoice prepares a request *)

Prepare(c, t, kind, peer, content) ==
  /\ Goto(c, t, "send")
  /\ req' = [req EXCEPT ![c][t] = [kind |-> kind, peer |-> peer, content |-> content]]

\* handleClientList, handleWaitingMessages.
AskServer(c) ==
  /\ pc[c]["main"] = "menu"
  /\ \E kind \in {"list", "waiting"} \cap Commands : Prepare(c, "main", kind, None, None)
  /\ UNCHANGED <<friends, rsp, net, stop, sends, srv, leftover, hist>>

\* The friends tryGetFriendIdByName finds: those that have a name.
Named(c) == {d \in Clients \ {c} : friends[c][d].named}

AskPublicKey(c) ==
  /\ pc[c]["main"] = "menu" /\ "publicKey" \in Commands
  /\ \E d \in Named(c) : Prepare(c, "main", "publicKey", d, None)
  /\ UNCHANGED <<friends, rsp, net, stop, sends, srv, leftover, hist>>

\* handleAllMessages with the key it has read, a new key, or none.
SendCommand(c, type, d, key) ==
  /\ pc[c]["main"] = "menu" /\ type \in Commands /\ sends < MaxSends
  /\ d \in Named(c)
  /\ Prepare(c, "main", "send", d, [type |-> type, key |-> key])
  /\ sends' = sends + 1
  /\ UNCHANGED <<rsp, net, stop, srv, leftover, handled, dropped, mixed, spoiled>>

RequestKey(c) ==
  /\ \E d \in Clients : SendCommand(c, "requestKey", d, None)
  /\ UNCHANGED <<friends, had>>

\* handleSendText: the text is encrypted here with the key of this moment.
SendText(c) ==
  /\ \E d \in Clients : friends[c][d].sym # None /\ SendCommand(c, "text", d, friends[c][d].sym)
  /\ UNCHANGED <<friends, had>>

\* Mutant: a key that is there is kept.
FirstKey(friend, key) ==
  [friend EXCEPT !.sym = IF friend.known /\ friend.sym = None THEN key ELSE friend.sym]

\* setFriendSymmetricKey does nothing without an entry.
NewKey(friend, key) == [friend EXCEPT !.sym = IF friend.known THEN key ELSE friend.sym]

\* handleSendSymmetricKey: a new key is in use before it is on its way.
SendKey(c) ==
  /\ \E d \in Clients :
       LET key == [by |-> c, to |-> d, n |-> sends + 1] IN
       /\ friends[c][d].pub
       /\ SendCommand(c, "sendKey", d, key)
       /\ friends' = [friends EXCEPT ![c][d] = NewKey(@, key)]
       /\ had' = [had EXCEPT ![c] = @ \cup {key}]

Exit(c) ==
  /\ pc[c]["main"] = "menu" /\ "exit" \in Commands
  /\ stop' = [stop EXCEPT ![c] = TRUE]
  /\ Goto(c, "main", "join")
  /\ UNCHANGED <<friends, req, rsp, net, sends, srv, leftover, hist>>

\* A program ends, and with it the ClientContext that knew friends and keys.
Forget(c) ==
  /\ friends' = [friends EXCEPT ![c] = NoFriends]
  /\ had' = [had EXCEPT ![c] = {}]
  /\ pc' = [pc EXCEPT ![c] = [t \in Threads |-> "exited"]]

Join(c) ==
  /\ pc[c]["main"] = "join" /\ pc[c]["pull"] = "done"
  /\ Forget(c)
  /\ spoiled' = spoiled \cup had[c]
  /\ UNCHANGED <<req, rsp, net, stop, sends, srv, leftover, handled, dropped, mixed>>

-----------------------------------------------------------------------------
(* The polling thread *)

Poll(c) ==
  /\ c \in Pollers /\ pc[c]["pull"] = "sleep" /\ ~stop[c]
  /\ Prepare(c, "pull", "waiting", None, None)
  /\ UNCHANGED <<friends, rsp, net, stop, sends, srv, leftover, hist>>

StopPolling(c) ==
  /\ pc[c]["pull"] = "sleep" /\ stop[c]
  /\ Goto(c, "pull", "done")
  /\ UNCHANGED <<friends, req, rsp, net, stop, sends, srv, leftover, hist>>

-----------------------------------------------------------------------------
(* sendAndReceive, under _connMutex *)

\* Mutant: no lock_guard.
NoLock(c) == TRUE

MutexFree(c) == mutex[c] = None

Send(c, t) ==
  /\ pc[c][t] = "send" /\ ~broken[c] /\ MutexFree(c)
  /\ mutex' = [mutex EXCEPT ![c] = t]
  /\ toServer' = [toServer EXCEPT ![c] = Append(@, req[c][t])]
  /\ Goto(c, t, "receive")
  /\ UNCHANGED <<friends, req, rsp, toClient, broken, stop, sends, srv, leftover, hist>>

\* What a thread has yet to process.
Pending(c, t) == IF rsp[c][t] = None THEN {} ELSE ToSet(rsp[c][t].msgs)

Receive(c, t) ==
  /\ pc[c][t] = "receive" /\ toClient[c] # <<>>
  /\ rsp' = [rsp EXCEPT ![c][t] = Head(toClient[c])]
  /\ toClient' = [toClient EXCEPT ![c] = Tail(@)]
  /\ mutex' = [mutex EXCEPT ![c] = None]
  /\ Goto(c, t, "process")
  /\ mixed' = IF Head(toClient[c]).msgs # <<>> /\ \E u \in Threads \ {t} : Pending(c, u) # {}
              THEN mixed \cup {c} ELSE mixed
  /\ UNCHANGED <<friends, req, toServer, broken, stop, sends, srv, leftover,
                 handled, dropped, had, spoiled>>

\* The keys in requests without an answer.
SentKeys(c) == UNION {KeyOf(request) : request \in ToSet(toServer[c])}

\* A request under way is lost with its connection, or the server has received
\* it, and its thread will handle it before it meets the end of the connection.
LeaveBehind(c) ==
  \/ UNCHANGED leftover
  \/ \E s \in Slots :
       /\ leftover[c][s] = None /\ toServer[c] # <<>>
       /\ leftover' = [leftover EXCEPT ![c][s] = Head(toServer[c])]

\* The server stops, or the network breaks; responses under way are lost.
Break(c) ==
  /\ Breaks /\ ~broken[c]
  /\ broken' = [broken EXCEPT ![c] = TRUE]
  /\ toServer' = [toServer EXCEPT ![c] = <<>>]
  /\ toClient' = [toClient EXCEPT ![c] = <<>>]
  /\ dropped' = [dropped EXCEPT ![c] = @ \cup Numbers(OnTheWay(c))]
  /\ spoiled' = spoiled \cup KeysIn(OnTheWay(c)) \cup SentKeys(c)
  /\ LeaveBehind(c)
  /\ UNCHANGED <<friends, pc, req, rsp, mutex, stop, sends, srv, handled, mixed, had>>

\* The program is killed: besides, it loses what it was about to send and what
\* it was processing.
Crash(c) ==
  /\ c \in Restarts /\ pc[c]["main"] # "exited"
  /\ Forget(c)
  /\ req' = [req EXCEPT ![c] = [t \in Threads |-> None]]
  /\ rsp' = [rsp EXCEPT ![c] = [t \in Threads |-> None]]
  /\ mutex' = [mutex EXCEPT ![c] = None]
  /\ broken' = [broken EXCEPT ![c] = TRUE]
  /\ toServer' = [toServer EXCEPT ![c] = <<>>]
  /\ toClient' = [toClient EXCEPT ![c] = <<>>]
  /\ LET lost == OnTheWay(c) \cup Pending(c, "main") \cup Pending(c, "pull") IN
     /\ dropped' = [dropped EXCEPT ![c] = @ \cup Numbers(lost)]
     /\ spoiled' = spoiled \cup KeysIn(lost) \cup had[c] \cup SentKeys(c)
  /\ LeaveBehind(c)
  /\ UNCHANGED <<stop, sends, srv, handled, mixed>>

\* main() from the start: my.info is there, the cache is empty.
Restart(c) ==
  /\ c \in Restarts /\ pc[c]["main"] = "exited"
  /\ pc' = [pc EXCEPT ![c]["main"] = "menu", ![c]["pull"] = "sleep"]
  /\ broken' = [broken EXCEPT ![c] = FALSE]
  /\ stop' = [stop EXCEPT ![c] = FALSE]
  /\ UNCHANGED <<friends, req, rsp, mutex, toServer, toClient, sends, srv, leftover, hist>>

\* Mutants: a lock that is not a guard; main() rethrows without stopFlag.
KeepLock(c, t) == UNCHANGED mutex
StopNot(c, t) == UNCHANGED stop

Release(c, t) == mutex' = [mutex EXCEPT ![c] = IF @ = t THEN None ELSE @]
StopBoth(c, t) == stop' = [stop EXCEPT ![c] = @ \/ t = "main"]

\* asio throws.  The main thread lets the polling thread end and exits; the
\* polling thread swallows the exception and goes on.
Fail(c, t) ==
  /\ broken[c]
  /\ pc[c][t] = "receive" \/ (pc[c][t] = "send" /\ MutexFree(c))
  /\ Release(c, t)
  /\ req' = [req EXCEPT ![c][t] = None]
  /\ Goto(c, t, IF t = "main" THEN "join" ELSE "sleep")
  /\ StopBoth(c, t)
  /\ spoiled' = IF pc[c][t] = "send" THEN spoiled \cup KeyOf(req[c][t]) ELSE spoiled
  /\ UNCHANGED <<friends, rsp, toServer, toClient, broken, sends, srv, leftover,
                 handled, dropped, mixed, had>>

-----------------------------------------------------------------------------
(* The server *)

\* Mutant: messages are fetched without being deleted.
KeepMessages(c) == box[c]

Left(c) == <<>>

\* Mutant: list_clients_except forgets whom to except.
EveryClient(c) == Clients
Listed(c) == Clients \ {c}

Answer(c, response) == toClient' = [toClient EXCEPT ![c] = Append(@, response)]

\* A database error, with nothing stored.
Refuse(c, r) ==
  /\ Refusals
  /\ Answer(c, ErrorResponse)
  /\ spoiled' = spoiled \cup KeyOf(r)
  /\ UNCHANGED srv

\* clients_list_handler, public_key_handler.
LookUp(c, r) ==
  /\ r.kind \in {"list", "publicKey"}
  /\ Answer(c, Reply(r.kind, r.peer, IF r.kind = "list" THEN Listed(c) ELSE {}, <<>>))
  /\ UNCHANGED <<srv, spoiled>>

\* Mutant: delete_messages without its WHERE.
EmptyAll(c) ==
  /\ box' = [d \in Clients |-> <<>>]
  /\ UNCHANGED posted

\* waiting_messages_handler: the mailbox is emptied.
Empty(c) ==
  /\ box' = [box EXCEPT ![c] = Left(c)]
  /\ UNCHANGED posted

Fetch(c, r) ==
  /\ r.kind = "waiting"
  /\ Answer(c, Reply("waiting", None, {}, box[c]))
  /\ Empty(c)
  /\ UNCHANGED spoiled

\* send_message_handler.
NewMessage(c, r) == [no |-> posted + 1, from |-> c, type |-> r.content.type, key |-> r.content.key]

\* Mutant: the messages are selected newest first.
PostFirst(c, r) ==
  /\ posted' = posted + 1
  /\ box' = [box EXCEPT ![r.peer] = <<NewMessage(c, r)>> \o @]

Post(c, r) ==
  /\ posted' = posted + 1
  /\ box' = [box EXCEPT ![r.peer] = Append(@, NewMessage(c, r))]

Store(c, r) ==
  /\ r.kind = "send"
  /\ Answer(c, Reply("send", r.peer, {}, <<>>))
  /\ Post(c, r)
  /\ UNCHANGED spoiled

\* request_handler_main: the request at the head of the connection is answered.
Serve(c) ==
  /\ toServer[c] # <<>>
  /\ LET r == Head(toServer[c]) IN Refuse(c, r) \/ LookUp(c, r) \/ Fetch(c, r) \/ Store(c, r)
  /\ toServer' = [toServer EXCEPT ![c] = Tail(@)]
  /\ UNCHANGED <<friends, pc, req, rsp, mutex, broken, stop, sends, leftover,
                 handled, dropped, mixed, had>>

\* The same for a connection that is lost: nobody gets the answer, nor the
\* messages in it.
ServeLeftover(c, s) ==
  /\ leftover[c][s] # None
  /\ LET r == leftover[c][s] IN
     \/ Refusals /\ spoiled' = spoiled \cup KeyOf(r) /\ UNCHANGED <<srv, dropped>>
     \/ r.kind \in {"list", "publicKey"} /\ UNCHANGED <<srv, dropped, spoiled>>
     \/ /\ r.kind = "waiting" /\ Empty(c)
        /\ dropped' = [dropped EXCEPT ![c] = @ \cup Numbers(ToSet(box[c]))]
        /\ spoiled' = spoiled \cup KeysIn(ToSet(box[c]))
     \/ r.kind = "send" /\ Post(c, r) /\ UNCHANGED <<dropped, spoiled>>
  /\ leftover' = [leftover EXCEPT ![c][s] = None]
  /\ UNCHANGED <<friends, pc, req, rsp, net, stop, sends, handled, mixed, had>>

-----------------------------------------------------------------------------
(* responseClientMain: the response is processed outside _connMutex, and   *)
(* every call of ClientContext locks _friendsMutex by itself.              *)

Kind(c, t, kind) == pc[c][t] = "process" /\ rsp[c][t].kind = kind

\* responseErrorGeneral; responseMessageSent, whose friend has a name and
\* hence an entry in the cache; a list of clients or messages at its end.
Finish(c, t) ==
  /\ \E kind \in {"error", "send", "list", "waiting"} : Kind(c, t, kind)
  /\ rsp[c][t].names = {} /\ rsp[c][t].msgs = <<>>
  /\ Return(c, t)
  /\ UNCHANGED <<friends, net, stop, sends, srv, leftover, hist>>

\* setFriendBase makes an entry, or overwrites the name in it.
Entry(friend, named) == [friend EXCEPT !.known = TRUE, !.named = named]

\* responseClientList: setFriendBase of one client in the list after another,
\* in the order of the rows, which may be any.
LearnName(c, t) ==
  /\ Kind(c, t, "list")
  /\ \E d \in rsp[c][t].names :
       /\ friends' = [friends EXCEPT ![c][d] = Entry(@, TRUE)]
       /\ rsp' = [rsp EXCEPT ![c][t].names = @ \ {d}]
  /\ UNCHANGED <<pc, req, net, stop, sends, srv, leftover, hist>>

\* Mutant: the loop over the records ends when stopFlag is set.
AdvanceUnlessStopped(c, t) ==
  /\ rsp' = [rsp EXCEPT ![c][t].msgs = IF stop[c] THEN <<>> ELSE Tail(@)]
  /\ handled' = [handled EXCEPT ![c] = @ \cup {Head(rsp[c][t].msgs).no}]
  /\ Goto(c, t, "process")

\* The loop of responseWaitingMessages goes on to the next record.
Advance(c, t) ==
  /\ rsp' = [rsp EXCEPT ![c][t].msgs = Tail(@)]
  /\ handled' = [handled EXCEPT ![c] = @ \cup {Head(rsp[c][t].msgs).no}]
  /\ Goto(c, t, "process")

\* Requests for a key are shown, texts if the key they were encrypted with is
\* the one in the cache (handleTextMessage).
Show(c, t) ==
  /\ Kind(c, t, "waiting") /\ rsp[c][t].msgs # <<>>
  /\ Head(rsp[c][t].msgs).type # "sendKey"
  /\ Advance(c, t)
  /\ UNCHANGED <<friends, req, net, stop, sends, srv, leftover, dropped, mixed, had, spoiled>>

\* The friend a response or record brings a key of.
Peer(c, t) == IF rsp[c][t].kind = "publicKey" THEN rsp[c][t].peer
                                              ELSE Head(rsp[c][t].msgs).from

\* responsePublicKey and handleSymmetricKeyMessage: tryGetFriendCopy ...
Check(c, t) ==
  /\ \/ Kind(c, t, "publicKey")
     \/ Kind(c, t, "waiting") /\ rsp[c][t].msgs # <<>> /\ Head(rsp[c][t].msgs).type = "sendKey"
  /\ Goto(c, t, IF friends[c][Peer(c, t)].known THEN "store" ELSE "base")
  /\ UNCHANGED <<friends, req, rsp, net, stop, sends, srv, leftover, hist>>

\* Mutant: no setFriendBase before the key is set.
BaseForgotten(c, t) ==
  /\ pc[c][t] = "base"
  /\ Goto(c, t, "store")
  /\ UNCHANGED <<friends, req, rsp, net, stop, sends, srv, leftover, hist>>

\* ... setFriendBase with an empty name if there is no such friend ...
Base(c, t) ==
  /\ pc[c][t] = "base"
  /\ friends' = [friends EXCEPT ![c][Peer(c, t)] = Entry(@, FALSE)]
  /\ Goto(c, t, "store")
  /\ UNCHANGED <<req, rsp, net, stop, sends, srv, leftover, hist>>

\* ... setFriendPublicKey or setFriendSymmetricKey, which do nothing without
\* an entry.
NewPublicKey(friend) == [friend EXCEPT !.pub = friend.pub \/ friend.known]

StorePublicKey(c, t) ==
  /\ pc[c][t] = "store" /\ rsp[c][t].kind = "publicKey"
  /\ friends' = [friends EXCEPT ![c][Peer(c, t)] = NewPublicKey(@)]
  /\ Return(c, t)
  /\ UNCHANGED <<net, stop, sends, srv, leftover, hist>>

StoreSymmetricKey(c, t) ==
  /\ pc[c][t] = "store" /\ rsp[c][t].kind = "waiting"
  /\ friends' = [friends EXCEPT ![c][Peer(c, t)] = NewKey(@, Head(rsp[c][t].msgs).key)]
  /\ had' = [had EXCEPT ![c] = @ \cup {Head(rsp[c][t].msgs).key}]
  /\ Advance(c, t)
  /\ UNCHANGED <<req, net, stop, sends, srv, leftover, dropped, mixed, spoiled>>

-----------------------------------------------------------------------------
Process(c, t) ==
  \/ Finish(c, t) \/ LearnName(c, t) \/ Show(c, t)
  \/ Check(c, t) \/ Base(c, t) \/ StorePublicKey(c, t) \/ StoreSymmetricKey(c, t)

\* The commands of the user.
Menu(c) ==
  \/ AskServer(c) \/ AskPublicKey(c) \/ RequestKey(c) \/ SendText(c) \/ SendKey(c) \/ Exit(c)

Next ==
  \E c \in Clients :
    \/ Menu(c) \/ Join(c) \/ Poll(c) \/ StopPolling(c)
    \/ Serve(c) \/ Break(c) \/ Crash(c) \/ Restart(c)
    \/ \E s \in Slots : ServeLeftover(c, s)
    \/ \E t \in Threads : Send(c, t) \/ Receive(c, t) \/ Fail(c, t) \/ Process(c, t)

Spec == Init /\ [][Next]_vars

\* Threads run and the server answers.  The polling thread leaves _connMutex
\* free for 60 s between two requests, so that a thread that keeps trying to
\* lock it succeeds: strong fairness.
Run(c, t) ==
  \/ Send(c, t) \/ Receive(c, t) \/ Fail(c, t) \/ Process(c, t)
  \/ t = "main" /\ Join(c)
  \/ t = "pull" /\ StopPolling(c)
Fairness == \A c \in Clients : WF_vars(Serve(c)) /\ \A t \in Threads : SF_vars(Run(c, t))
FairSpec == Spec /\ Fairness

-----------------------------------------------------------------------------
(* Correctness *)

\* The clients' caches, threads and connection and the server's mailboxes
\* have their types; a client never caches itself, and a friend with a name
\* or a key has an entry.
TypeOK ==
  /\ friends \in [Clients -> [Clients -> Friend]]
  /\ pc \in [Clients -> [Threads -> Steps]]
  /\ req \in [Clients -> [Threads -> Request \cup {None}]]
  /\ rsp \in [Clients -> [Threads -> Response \cup {None}]]
  /\ mutex \in [Clients -> Threads \cup {None}]
  /\ toServer \in [Clients -> Seq(Request)] /\ toClient \in [Clients -> Seq(Response)]
  /\ box \in [Clients -> Seq(Message)]
  /\ broken \in [Clients -> BOOLEAN] /\ stop \in [Clients -> BOOLEAN]
  /\ leftover \in [Clients -> [Slots -> Request \cup {None}]]
  /\ sends \in 0..MaxSends /\ posted \in Nat
  /\ mixed \subseteq Clients /\ had \in [Clients -> SUBSET Key] /\ spoiled \subseteq Key
  /\ \A c \in Clients :
       /\ handled[c] \subseteq 1..posted /\ dropped[c] \subseteq 1..posted
       /\ \A d \in Clients :
            (friends[c][d].named \/ friends[c][d].pub \/ friends[c][d].sym # None)
              => friends[c][d].known /\ c # d

\* A thread never gets the answer to the other thread's request: main and
\* pull share one connection without request numbers (sendAndReceive).
ResponseMatchesRequest ==
  \A c \in Clients, t \in Threads :
    rsp[c][t] # None => rsp[c][t].kind \in {"error", req[c][t].kind}

\* A message that was stored is waiting at the server, or on its way, or being
\* processed, or was processed, or was on its way when the connection broke: the
\* end of the program, in whichever order its threads stop, drops none.
NoMessageDropped ==
  \A n \in 1..posted : \E c \in Clients :
    \/ n \in handled[c] \cup Numbers(ToSet(box[c])) \cup Numbers(OnTheWay(c)) \cup dropped[c]
    \/ \E t \in Threads : n \in Numbers(Pending(c, t))

\* The texts c is through with in a step.
TextsShown(c) ==
  {m \in Pending(c, "main") \cup Pending(c, "pull") :
     m.no \in handled'[c] \ handled[c] /\ m.type = "text"}

\* "The clients can then exchange AES-encrypted text messages through the
\* server" (README.md): a text can be read unless its key was refused, lost on
\* the way or forgotten.
TextsReadable ==
  [][\A c \in Clients : \A m \in TextsShown(c) :
       m.key \notin spoiled => friends[c][m.from].sym = m.key]_vars

\* A text cannot be read only if its key or the one in the cache was refused,
\* lost on the way or forgotten, or if the reader has made one of the two and
\* the texts and keys have crossed: text after text and key after key, in
\* whatever order requests, polls, ends and leftovers come, unless its two
\* threads process messages at the same time.
TextsFitKeys ==
  [][\A c \in Clients \ mixed : \A m \in TextsShown(c) :
       LET sym == friends[c][m.from].sym IN
       \/ sym = m.key
       \/ {sym, m.key} \cap spoiled # {}
       \/ c \in {m.key.by} \cup {key.by : key \in {sym} \ {None}}]_vars

\* When nothing is under way, two friends have the same key for each other,
\* unless one they have was refused, lost on the way or forgotten, or they have
\* sent each other a key at the same time: then each has the other's.
Quiet ==
  \A c \in Clients : /\ box[c] = <<>> /\ toServer[c] = <<>> /\ toClient[c] = <<>>
                     /\ \A t \in Threads : req[c][t] = None
                     /\ \A s \in Slots : leftover[c][s] = None
Crossed(c, d) ==
  /\ None \notin {friends[c][d].sym, friends[d][c].sym}
  /\ friends[c][d].sym.by = d /\ friends[d][c].sym.by = c
KeysAgree ==
  Quiet => \A c, d \in Clients \ mixed :
    \/ friends[c][d].sym = friends[d][c].sym
    \/ {friends[c][d].sym, friends[d][c].sym} \cap spoiled # {}
    \/ Crossed(c, d)

\* Every step is one of the mailbox that the server implements
\* (Server!ImplementsMailbox), addresses being given: the clients process the
\* messages of a mailbox at most once, and in order, whatever breaks, unless
\* their two threads process messages at the same time.
Mails(c, numbers) == {[id |-> n, to |-> c] : n \in numbers}
Mailboxes == INSTANCE Mailbox WITH
  Ids <- Clients, addr <- [c \in Clients |-> c], last <- posted,
  waiting <- UNION {Mails(c, Numbers(ToSet(box[c]))) : c \in Clients},
  out <- UNION {Mails(c, dropped[c] \cup Numbers(OnTheWay(c) \cup Pending(c, "main")
                                                   \cup Pending(c, "pull"))) : c \in Clients},
  delivered <- [c \in Clients |-> Mails(c, handled[c])]
UsesMailbox ==
  [][Mailboxes!Next \/ \E c \in mixed : Mailboxes!Overtake(c)]_(Mailboxes!mailbox)

\* The interactive and the polling flow process the messages of a client in
\* the order in which the server stored them.
ProcessedInOrder ==
  [][\A c \in Clients : \A n \in handled'[c] \ handled[c], m \in handled[c] : n > m]_vars

\* A client whose threads have never had messages in hand at the same time
\* processes them in that order, whichever thread fetches them.
OneBatchInOrder ==
  [][\A c \in Clients \ mixed : \A n \in handled'[c] \ handled[c], m \in handled[c] : n > m]_vars

\* A friend in the cache keeps the name the client list gave it.
NamesKept ==
  [][\A c, d \in Clients : friends[c][d].named => friends'[c][d].named]_vars

\* Once main() waits for the polling thread, the program ends.
ExitTerminates == \A c \in Clients : pc[c]["main"] = "join" ~> pc[c]["main"] = "exited"

\* The user gets back to the menu, or the program ends: the threads do not
\* block each other on the connection, broken or not.
CommandsAnswered ==
  \A c \in Clients : pc[c]["main"] = "send" ~> pc[c]["main"] \in {"menu", "exited"}
=============================================================================
