---------------------------- MODULE ClientProofs ----------------------------
(***************************************************************************)
(* Proofs about Client, for every set of clients, commands and faults.     *)
(***************************************************************************)
EXTENDS Client, TLAPS

-----------------------------------------------------------------------------
(* Sequences *)

\* What the client programs do to a connection, which holds one message.
LEMMA SingletonFacts ==
  ASSUME NEW S, NEW x \in S
  PROVE  /\ <<x>> \in Seq(S) /\ <<x>> # <<>> /\ <<>> \in Seq(S)
         /\ Append(<<>>, x) = <<x>>
         /\ Head(<<x>>) = x /\ Tail(<<x>>) = <<>>
         /\ ToSet(<<x>>) = {x} /\ ToSet(<<>>) = {}
BY DEF ToSet

\* What they do to a list of messages.
LEMMA ListFacts ==
  ASSUME NEW S, NEW s \in Seq(S)
  PROVE  /\ ToSet(s) \subseteq S
         /\ \A x \in S : Append(s, x) \in Seq(S) /\ ToSet(Append(s, x)) = ToSet(s) \cup {x}
         /\ s # <<>> => /\ Head(s) \in S /\ Tail(s) \in Seq(S)
                        /\ ToSet(s) = {Head(s)} \cup ToSet(Tail(s))
<1>1. ToSet(s) \subseteq S
  BY DEF ToSet
<1>2. ASSUME NEW x \in S PROVE Append(s, x) \in Seq(S) /\ ToSet(Append(s, x)) = ToSet(s) \cup {x}
  <2>1. /\ Append(s, x) \in Seq(S) /\ Len(Append(s, x)) = Len(s) + 1
        /\ \A i \in 1..Len(s) : Append(s, x)[i] = s[i]
        /\ Append(s, x)[Len(s) + 1] = x
    OBVIOUS
  <2>2. ToSet(Append(s, x)) = {Append(s, x)[i] : i \in 1..Len(s) + 1}
    BY <2>1 DEF ToSet
  <2>3. ToSet(s) = {s[i] : i \in 1..Len(s)}
    BY DEF ToSet
  <2> QED
    BY <2>1, <2>2, <2>3
<1>3. ASSUME s # <<>>
      PROVE  /\ Head(s) \in S /\ Tail(s) \in Seq(S)
             /\ ToSet(s) = {Head(s)} \cup ToSet(Tail(s))
  <2>1. /\ Head(s) \in S /\ Tail(s) \in Seq(S) /\ Head(s) = s[1] /\ Len(s) \in Nat /\ Len(s) > 0
        /\ Len(Tail(s)) = Len(s) - 1
        /\ \A i \in 1..Len(s) - 1 : Tail(s)[i] = s[i + 1]
    BY <1>3
  <2>2. ToSet(s) = {s[i] : i \in 1..Len(s)}
    BY DEF ToSet
  <2>3. ToSet(Tail(s)) = {Tail(s)[i] : i \in 1..Len(s) - 1}
    <3>1. DOMAIN Tail(s) = 1..Len(s) - 1
      BY <2>1
    <3> QED
      BY <3>1 DEF ToSet
  <2>4. \A i \in 1..Len(s) : i = 1 \/ (i - 1 \in 1..Len(s) - 1 /\ s[i] = Tail(s)[i - 1])
    BY <2>1
  <2>5. \A i \in 1..Len(s) - 1 : Tail(s)[i] \in ToSet(s)
    BY <2>1, <2>2
  <2>6. \A x \in ToSet(s) : x = Head(s) \/ x \in ToSet(Tail(s))
    BY <2>1, <2>2, <2>3, <2>4
  <2>7. Head(s) \in ToSet(s)
    BY <2>1, <2>2
  <2> QED
    BY <2>1, <2>3, <2>5, <2>6, <2>7
<1> QED
  BY <1>1, <1>2, <1>3

-----------------------------------------------------------------------------
(* Types *)

Under == {"process", "base", "store"}

\* sendAndReceive holds _connMutex from its request to its response, and only
\* then; the threads of a program end together.
ControlOK ==
  /\ pc \in [Clients -> [Threads -> Steps]]
  /\ mutex \in [Clients -> Threads \cup {None}]
  /\ broken \in [Clients -> BOOLEAN] /\ stop \in [Clients -> BOOLEAN]
  /\ \A c \in Clients, t \in Threads :
       /\ mutex[c] = t <=> pc[c][t] = "receive"
       /\ pc[c][t] = "exited" <=> pc[c]["main"] = "exited"

\* The messages for c that the server has stored, the requests c sends, and the
\* responses it gets: none is about c itself, and a key that is sent is a key.
MailFor(c) ==
  {m \in Message : /\ m.no \in 1..posted /\ m.from # c
                   /\ m.type = "sendKey" => m.key \in Key}
RequestsOf(c) ==
  {r \in Request : /\ r.kind \in {"publicKey", "send"} => r.peer \in Clients \ {c}
                   /\ r.kind = "send" => /\ r.content \in Content
                                         /\ r.content.type = "sendKey" => r.content.key \in Key}
ResponsesTo(c) ==
  {r \in Response : /\ r.kind = "publicKey" => r.peer \in Clients \ {c}
                    /\ r.names \subseteq Clients \ {c}
                    /\ r.kind # "waiting" => r.msgs = <<>>
                    /\ r.msgs \in Seq(MailFor(c))}

\* The response a thread has is an answer to the request it has made, and where
\* it is about to use a key there is one.
ThreadOK(c, t) ==
  /\ req[c][t] \in RequestsOf(c) \cup {None} /\ rsp[c][t] \in ResponsesTo(c) \cup {None}
  /\ req[c][t] # None <=> pc[c][t] \in {"send", "receive"} \cup Under
  /\ rsp[c][t] # None <=> pc[c][t] \in Under
  /\ rsp[c][t] # None => rsp[c][t].kind \in {"error", req[c][t].kind}
  /\ pc[c][t] \in {"base", "store"}
       => \/ rsp[c][t].kind = "publicKey"
          \/ /\ rsp[c][t].kind = "waiting" /\ rsp[c][t].msgs # <<>>
             /\ Head(rsp[c][t].msgs).type = "sendKey"
  /\ t = "pull" /\ req[c][t] # None => req[c][t].kind = "waiting"

\* A connection is empty but for the request of the thread that holds
\* _connMutex, or the response to it.
WireOK(c) ==
  \/ toServer[c] = <<>> /\ toClient[c] = <<>>
  \/ /\ mutex[c] # None
     /\ toServer[c] = <<req[c][mutex[c]]>> /\ toClient[c] = <<>>
  \/ /\ mutex[c] # None /\ toServer[c] = <<>>
     /\ toClient[c] = <<Head(toClient[c])>> /\ Head(toClient[c]) \in ResponsesTo(c)
     /\ Head(toClient[c]).kind \in {"error", req[c][mutex[c]].kind}

ThreadsOK ==
  /\ req \in [Clients -> [Threads -> Request \cup {None}]]
  /\ rsp \in [Clients -> [Threads -> Response \cup {None}]]
  /\ \A c \in Clients, t \in Threads : ThreadOK(c, t)

ConnectionsOK ==
  /\ DOMAIN toServer = Clients /\ DOMAIN toClient = Clients
  /\ \A c \in Clients : WireOK(c)

MailboxesOK ==
  /\ posted \in Nat /\ DOMAIN box = Clients /\ DOMAIN handled = Clients /\ DOMAIN dropped = Clients
  /\ \A c \in Clients : /\ box[c] \in Seq(MailFor(c))
                        /\ handled[c] \subseteq 1..posted /\ dropped[c] \subseteq 1..posted

\* What a lost connection has left behind is a request.
LeftoverOK ==
  /\ leftover \in [Clients -> [Slots -> Request \cup {None}]]
  /\ \A c \in Clients, s \in Slots : leftover[c][s] \in RequestsOf(c) \cup {None}

BrokenOK == \A c \in Clients : broken[c] => toServer[c] = <<>> /\ toClient[c] = <<>>

DataOK == ThreadsOK /\ ConnectionsOK /\ BrokenOK /\ MailboxesOK

\* The cache: a friend with a name or a key has an entry, and no client is its
\* own friend.
EntryOK(c, d, f) ==
  /\ f \in Friend
  /\ f.named = TRUE \/ f.pub = TRUE \/ f.sym # None => f.known = TRUE
  /\ c = d => f.known = FALSE

FriendsOK ==
  /\ DOMAIN friends = Clients
  /\ \A c \in Clients : friends[c] \in [Clients -> Friend]
  /\ \A c, d \in Clients : EntryOK(c, d, friends[c][d])

KeysOK ==
  /\ sends \in 0..MaxSends
  /\ mixed \subseteq Clients /\ had \in [Clients -> SUBSET Key] /\ spoiled \subseteq Key

TypeInv == ControlOK /\ DataOK /\ LeftoverOK /\ FriendsOK /\ KeysOK

\* Every action of the programs' threads preserves the control part.
LEMMA ControlStep == ControlOK /\ [Next]_vars => ControlOK'
<1> SUFFICES ASSUME ControlOK, [Next]_vars PROVE ControlOK'
  OBVIOUS
<1> USE NoneAssumption DEF ControlOK, Steps, Threads, net, srv, hist
<1>1. ASSUME NEW c \in Clients, AskServer(c) PROVE ControlOK'
  BY <1>1 DEF AskServer, Prepare, Goto
<1>2. ASSUME NEW c \in Clients, AskPublicKey(c) PROVE ControlOK'
  BY <1>2 DEF AskPublicKey, Prepare, Goto
<1>3. ASSUME NEW c \in Clients, RequestKey(c) PROVE ControlOK'
  BY <1>3 DEF RequestKey, SendCommand, Prepare, Goto
<1>4. ASSUME NEW c \in Clients, SendText(c) PROVE ControlOK'
  BY <1>4 DEF SendText, SendCommand, Prepare, Goto
<1>5. ASSUME NEW c \in Clients, SendKey(c) PROVE ControlOK'
  BY <1>5 DEF SendKey, SendCommand, Prepare, Goto
<1>6. ASSUME NEW c \in Clients, Exit(c) PROVE ControlOK'
  BY <1>6 DEF Exit, Goto
<1>7. ASSUME NEW c \in Clients, Join(c) PROVE ControlOK'
  BY <1>7 DEF Join, Forget
<1>8. ASSUME NEW c \in Clients, Poll(c) PROVE ControlOK'
  BY <1>8 DEF Poll, Prepare, Goto
<1>9. ASSUME NEW c \in Clients, StopPolling(c) PROVE ControlOK'
  BY <1>9 DEF StopPolling, Goto
<1>10. ASSUME NEW c \in Clients, Serve(c) PROVE ControlOK'
  BY <1>10 DEF Serve
<1>11. ASSUME NEW c \in Clients, Break(c) PROVE ControlOK'
  BY <1>11 DEF Break
<1>12. ASSUME NEW c \in Clients, Crash(c) PROVE ControlOK'
  BY <1>12 DEF Crash, Forget
<1>13. ASSUME NEW c \in Clients, Restart(c) PROVE ControlOK'
  BY <1>13 DEF Restart
<1>14. ASSUME NEW c \in Clients, NEW t \in Threads, Send(c, t) PROVE ControlOK'
  BY <1>14 DEF Send, MutexFree, Goto
<1>15. ASSUME NEW c \in Clients, NEW t \in Threads, Receive(c, t) PROVE ControlOK'
  BY <1>15 DEF Receive, Goto
<1>16. ASSUME NEW c \in Clients, NEW t \in Threads, Fail(c, t) PROVE ControlOK'
  BY <1>16 DEF Fail, Goto, MutexFree, Release, StopBoth
<1>17. ASSUME NEW c \in Clients, NEW t \in Threads, Finish(c, t) PROVE ControlOK'
  BY <1>17 DEF Finish, Return, Goto, Home, Kind
<1>18. ASSUME NEW c \in Clients, NEW t \in Threads, LearnName(c, t) PROVE ControlOK'
  BY <1>18 DEF LearnName
<1>19. ASSUME NEW c \in Clients, NEW t \in Threads, Show(c, t) PROVE ControlOK'
  BY <1>19 DEF Show, Advance, Goto, Kind
<1>20. ASSUME NEW c \in Clients, NEW t \in Threads, Check(c, t) PROVE ControlOK'
  BY <1>20 DEF Check, Goto, Kind
<1>21. ASSUME NEW c \in Clients, NEW t \in Threads, Base(c, t) PROVE ControlOK'
  BY <1>21 DEF Base, Goto
<1>22. ASSUME NEW c \in Clients, NEW t \in Threads, StorePublicKey(c, t) PROVE ControlOK'
  BY <1>22 DEF StorePublicKey, Return, Goto, Home
<1>23. ASSUME NEW c \in Clients, NEW t \in Threads, StoreSymmetricKey(c, t) PROVE ControlOK'
  BY <1>23 DEF StoreSymmetricKey, Advance, Goto
<1>24. ASSUME NEW c \in Clients, NEW s \in Slots, ServeLeftover(c, s) PROVE ControlOK'
  BY <1>24 DEF ServeLeftover
<1>25. CASE UNCHANGED vars
  BY <1>25 DEF vars, net, srv, hist
<1> QED
  BY <1>1, <1>2, <1>3, <1>4, <1>5, <1>6, <1>7, <1>8, <1>9, <1>10, <1>11, <1>12, <1>13, <1>14, <1>15,
     <1>16, <1>17, <1>18, <1>19, <1>20, <1>21, <1>22, <1>23, <1>24, <1>25 DEF Next, Menu, Process

\* Whoever holds _connMutex has made a request, and the connection carries it or
\* an answer to it.
LEMMA WireFacts ==
  ASSUME TypeInv, NEW c \in Clients
  PROVE  /\ mutex[c] # None => /\ mutex[c] \in Threads /\ pc[c][mutex[c]] = "receive"
                               /\ req[c][mutex[c]] \in RequestsOf(c)
         /\ toServer[c] # <<>> => /\ mutex[c] # None /\ toServer[c] = <<req[c][mutex[c]]>>
                                  /\ toClient[c] = <<>>
                                  /\ Head(toServer[c]) = req[c][mutex[c]]
                                  /\ Tail(toServer[c]) = <<>>
                                  /\ ToSet(toServer[c]) = {req[c][mutex[c]]}
         /\ toClient[c] # <<>> => /\ mutex[c] # None /\ toServer[c] = <<>>
                                  /\ Head(toClient[c]) \in ResponsesTo(c)
                                  /\ Head(toClient[c]).kind \in {"error", req[c][mutex[c]].kind}
                                  /\ Tail(toClient[c]) = <<>>
                                  /\ ToSet(toClient[c]) = {Head(toClient[c])}
<1>1. mutex[c] # None => /\ mutex[c] \in Threads /\ pc[c][mutex[c]] = "receive"
                         /\ req[c][mutex[c]] \in RequestsOf(c)
  BY DEF TypeInv, ControlOK, DataOK, ThreadsOK, ThreadOK
<1>2. WireOK(c)
  BY DEF TypeInv, DataOK, ConnectionsOK
<1>3. ASSUME toServer[c] # <<>>
      PROVE  /\ mutex[c] # None /\ toServer[c] = <<req[c][mutex[c]]>> /\ toClient[c] = <<>>
             /\ Head(toServer[c]) = req[c][mutex[c]] /\ Tail(toServer[c]) = <<>>
             /\ ToSet(toServer[c]) = {req[c][mutex[c]]}
  <2>1. mutex[c] # None /\ toServer[c] = <<req[c][mutex[c]]>> /\ toClient[c] = <<>>
    BY <1>2, <1>3 DEF WireOK
  <2> QED
    BY <2>1, <1>1, SingletonFacts
<1>4. ASSUME toClient[c] # <<>>
      PROVE  /\ mutex[c] # None /\ toServer[c] = <<>> /\ Head(toClient[c]) \in ResponsesTo(c)
             /\ Head(toClient[c]).kind \in {"error", req[c][mutex[c]].kind}
             /\ Tail(toClient[c]) = <<>> /\ ToSet(toClient[c]) = {Head(toClient[c])}
  <2>1. /\ mutex[c] # None /\ toServer[c] = <<>> /\ toClient[c] = <<Head(toClient[c])>>
        /\ Head(toClient[c]) \in ResponsesTo(c)
        /\ Head(toClient[c]).kind \in {"error", req[c][mutex[c]].kind}
    BY <1>2, <1>4 DEF WireOK
  <2>2. ASSUME NEW r \in ResponsesTo(c), toClient[c] = <<r>>
        PROVE  Tail(toClient[c]) = <<>> /\ ToSet(toClient[c]) = {r}
    BY <2>2, SingletonFacts
  <2> QED
    BY <2>1, <2>2
<1> QED
  BY <1>1, <1>3, <1>4

\* What can get lost are messages and keys.
LEMMA LostFacts ==
  ASSUME TypeInv, NEW c \in Clients
  PROVE  /\ OnTheWay(c) \subseteq MailFor(c) /\ SentKeys(c) \subseteq Key
         /\ \A t \in Threads : Pending(c, t) \subseteq MailFor(c) /\ KeyOf(req[c][t]) \subseteq Key
<1>1. \A r \in RequestsOf(c) \cup {None} : KeyOf(r) \subseteq Key
  BY DEF RequestsOf, KeyOf
<1>2. \A t \in Threads : req[c][t] \in RequestsOf(c) \cup {None}
  BY DEF TypeInv, DataOK, ThreadsOK, ThreadOK
<1>3. \A r \in ResponsesTo(c) : ToSet(r.msgs) \subseteq MailFor(c)
  BY ListFacts DEF ResponsesTo
<1>4. \A t \in Threads : Pending(c, t) \subseteq MailFor(c)
  BY <1>3 DEF Pending, TypeInv, DataOK, ThreadsOK, ThreadOK
<1>5. SentKeys(c) \subseteq Key
  BY <1>1, WireFacts DEF SentKeys, ToSet
<1>6. OnTheWay(c) \subseteq MailFor(c)
  <2>1. ToSet(toClient[c]) \subseteq ResponsesTo(c)
    <3>1. CASE toClient[c] = <<>>
      BY <3>1 DEF ToSet
    <3>2. CASE toClient[c] # <<>>
      <4>1. ToSet(toClient[c]) = {Head(toClient[c])} /\ Head(toClient[c]) \in ResponsesTo(c)
        BY <3>2, WireFacts
      <4> QED
        BY <4>1
    <3> QED
      BY <3>1, <3>2
  <2> QED
    BY <2>1, <1>3 DEF OnTheWay
<1> QED
  BY <1>1, <1>2, <1>4, <1>5, <1>6

LEMMA MailFacts ==
  ASSUME NEW c \in Clients, NEW M \in SUBSET MailFor(c)
  PROVE  Numbers(M) \subseteq 1..posted /\ KeysIn(M) \subseteq Key
BY DEF MailFor, Numbers, KeysIn

\* The friend a key belongs to is another client.
LEMMA PeerFacts ==
  ASSUME TypeInv, NEW c \in Clients, NEW t \in Threads, rsp[c][t] # None,
         \/ rsp[c][t].kind = "publicKey"
         \/ /\ rsp[c][t].kind = "waiting" /\ rsp[c][t].msgs # <<>>
            /\ Head(rsp[c][t].msgs).type = "sendKey"
  PROVE  /\ Peer(c, t) \in Clients \ {c}
         /\ rsp[c][t].kind # "publicKey" => /\ Head(rsp[c][t].msgs) \in MailFor(c)
                                            /\ Head(rsp[c][t].msgs).key \in Key
<1>1. rsp[c][t] \in ResponsesTo(c)
  BY DEF TypeInv, DataOK, ThreadsOK, ThreadOK
<1>2. rsp[c][t].kind = "publicKey" => rsp[c][t].peer \in Clients \ {c}
  BY <1>1 DEF ResponsesTo
<1>3. rsp[c][t].msgs \in Seq(MailFor(c))
  BY <1>1 DEF ResponsesTo
<1>4. rsp[c][t].msgs # <<>> => Head(rsp[c][t].msgs) \in MailFor(c)
  BY <1>3, ListFacts
<1>5. Head(rsp[c][t].msgs) \in MailFor(c) => Head(rsp[c][t].msgs).from \in Clients \ {c}
  BY DEF MailFor, Message
<1>6. Head(rsp[c][t].msgs) \in MailFor(c) /\ Head(rsp[c][t].msgs).type = "sendKey"
        => Head(rsp[c][t].msgs).key \in Key
  BY DEF MailFor
<1> QED
  BY <1>2, <1>4, <1>5, <1>6 DEF Peer

\* ClientContext changes the entry of one friend at a time.
LEMMA EntryUpdate ==
  ASSUME FriendsOK, NEW c \in Clients, NEW d \in Clients, NEW f, EntryOK(c, d, f),
         friends' = [friends EXCEPT ![c][d] = f]
  PROVE  FriendsOK'
BY DEF FriendsOK, EntryOK

LEMMA EntryFacts ==
  ASSUME NEW c \in Clients, NEW d \in Clients, NEW f \in Friend, EntryOK(c, d, f)
  PROVE  /\ \A named \in BOOLEAN : c # d => EntryOK(c, d, Entry(f, named))
         /\ EntryOK(c, d, NewPublicKey(f))
         /\ \A k \in Key : EntryOK(c, d, NewKey(f, k))
<1>1. ASSUME NEW named \in BOOLEAN, c # d PROVE EntryOK(c, d, Entry(f, named))
  BY <1>1 DEF EntryOK, Entry, Friend
<1>2. EntryOK(c, d, NewPublicKey(f))
  BY DEF EntryOK, NewPublicKey, Friend
<1>3. ASSUME NEW k \in Key PROVE EntryOK(c, d, NewKey(f, k))
  BY DEF EntryOK, NewKey, Friend
<1> QED
  BY <1>1, <1>2, <1>3

LEMMA EntriesForgotten ==
  ASSUME FriendsOK, NEW c \in Clients, Forget(c)
  PROVE  FriendsOK'
<1>1. friends' = [friends EXCEPT ![c] = NoFriends]
  BY DEF Forget
<1>2. NoFriends \in [Clients -> Friend]
  BY DEF NoFriends, Friend
<1>3. \A d \in Clients : EntryOK(c, d, NoFriends[d])
  BY <1>2 DEF NoFriends, EntryOK
<1> QED
  BY <1>1, <1>2, <1>3 DEF FriendsOK

\* ClientContext's cache is changed by the keys and names that responses bring
\* and by the keys that handleSendSymmetricKey makes.
LEMMA FriendsStep == TypeInv /\ [Next]_vars => FriendsOK'
<1> SUFFICES ASSUME TypeInv, [Next]_vars PROVE FriendsOK'
  OBVIOUS
<1>0. FriendsOK
  BY DEF TypeInv
<1> USE <1>0
<1>1. ASSUME NEW c \in Clients, AskServer(c) PROVE FriendsOK'
  BY <1>1 DEF AskServer, FriendsOK
<1>2. ASSUME NEW c \in Clients, AskPublicKey(c) PROVE FriendsOK'
  BY <1>2 DEF AskPublicKey, FriendsOK
<1>3. ASSUME NEW c \in Clients, RequestKey(c) PROVE FriendsOK'
  BY <1>3 DEF RequestKey, FriendsOK
<1>4. ASSUME NEW c \in Clients, SendText(c) PROVE FriendsOK'
  BY <1>4 DEF SendText, FriendsOK
<1>5. ASSUME NEW c \in Clients, SendKey(c) PROVE FriendsOK'
  <2>1. PICK d \in Clients :
          LET key == [by |-> c, to |-> d, n |-> sends + 1] IN
          /\ SendCommand(c, "sendKey", d, key)
          /\ friends' = [friends EXCEPT ![c][d] = NewKey(friends[c][d], key)]
    BY <1>5 DEF SendKey
  <2> DEFINE key == [by |-> c, to |-> d, n |-> sends + 1]
  <2>2. sends < MaxSends
    BY <2>1 DEF SendCommand
  <2>3. key \in Key
    BY <2>2, ClientsAssumption DEF Key, KeysOK, TypeInv
  <2>4. EntryOK(c, d, NewKey(friends[c][d], key))
    <3>1. friends[c][d] \in Friend /\ EntryOK(c, d, friends[c][d])
      BY DEF FriendsOK
    <3> QED
      BY <2>3, <3>1, EntryFacts
  <2>5. friends' = [friends EXCEPT ![c][d] = NewKey(friends[c][d], key)]
    BY <2>1
  <2> QED
    BY <2>4, <2>5, EntryUpdate
<1>6. ASSUME NEW c \in Clients, Exit(c) PROVE FriendsOK'
  BY <1>6 DEF Exit, FriendsOK
<1>7. ASSUME NEW c \in Clients, Join(c) PROVE FriendsOK'
  BY <1>7, EntriesForgotten DEF Join
<1>8. ASSUME NEW c \in Clients, Poll(c) PROVE FriendsOK'
  BY <1>8 DEF Poll, FriendsOK
<1>9. ASSUME NEW c \in Clients, StopPolling(c) PROVE FriendsOK'
  BY <1>9 DEF StopPolling, FriendsOK
<1>10. ASSUME NEW c \in Clients, Serve(c) PROVE FriendsOK'
  BY <1>10 DEF Serve, FriendsOK
<1>11. ASSUME NEW c \in Clients, Break(c) PROVE FriendsOK'
  BY <1>11 DEF Break, FriendsOK
<1>12. ASSUME NEW c \in Clients, Crash(c) PROVE FriendsOK'
  BY <1>12, EntriesForgotten DEF Crash
<1>13. ASSUME NEW c \in Clients, Restart(c) PROVE FriendsOK'
  BY <1>13 DEF Restart, FriendsOK
<1>14. ASSUME NEW c \in Clients, NEW t \in Threads, Send(c, t) PROVE FriendsOK'
  BY <1>14 DEF Send, FriendsOK
<1>15. ASSUME NEW c \in Clients, NEW t \in Threads, Receive(c, t) PROVE FriendsOK'
  BY <1>15 DEF Receive, FriendsOK
<1>16. ASSUME NEW c \in Clients, NEW t \in Threads, Fail(c, t) PROVE FriendsOK'
  BY <1>16 DEF Fail, FriendsOK
<1>17. ASSUME NEW c \in Clients, NEW t \in Threads, Finish(c, t) PROVE FriendsOK'
  BY <1>17 DEF Finish, FriendsOK
<1>18. ASSUME NEW c \in Clients, NEW t \in Threads, LearnName(c, t) PROVE FriendsOK'
  <2>1. PICK d \in rsp[c][t].names :
          friends' = [friends EXCEPT ![c][d] = Entry(friends[c][d], TRUE)]
    BY <1>18 DEF LearnName
  <2>2. d \in Clients \ {c}
    <3>1. rsp[c][t] \in ResponsesTo(c)
      BY <1>18 DEF LearnName, Kind, TypeInv, DataOK, ThreadsOK, ThreadOK, Under
    <3> QED
      BY <3>1 DEF ResponsesTo
  <2>3. friends[c][d] \in Friend /\ EntryOK(c, d, friends[c][d])
    BY <2>2 DEF FriendsOK
  <2>4. EntryOK(c, d, Entry(friends[c][d], TRUE))
    BY <2>2, <2>3, EntryFacts
  <2> QED
    BY <2>1, <2>2, <2>4, EntryUpdate
<1>19. ASSUME NEW c \in Clients, NEW t \in Threads, Show(c, t) PROVE FriendsOK'
  BY <1>19 DEF Show, FriendsOK
<1>20. ASSUME NEW c \in Clients, NEW t \in Threads, Check(c, t) PROVE FriendsOK'
  BY <1>20 DEF Check, FriendsOK
<1>21. ASSUME NEW c \in Clients, NEW t \in Threads, Base(c, t) PROVE FriendsOK'
  <2>1. friends' = [friends EXCEPT ![c][Peer(c, t)] = Entry(friends[c][Peer(c, t)], FALSE)]
    BY <1>21 DEF Base
  <2>2. Peer(c, t) \in Clients \ {c}
    BY <1>21, PeerFacts DEF TypeInv, DataOK, ThreadsOK, ThreadOK, Under, Base
  <2>3. EntryOK(c, Peer(c, t), Entry(friends[c][Peer(c, t)], FALSE))
    <3>1. friends[c][Peer(c, t)] \in Friend /\ EntryOK(c, Peer(c, t), friends[c][Peer(c, t)])
      BY <2>2 DEF FriendsOK
    <3> QED
      BY <2>2, <3>1, EntryFacts
  <2> QED
    BY <2>1, <2>2, <2>3, EntryUpdate
<1>22. ASSUME NEW c \in Clients, NEW t \in Threads, StorePublicKey(c, t) PROVE FriendsOK'
  <2>1. friends' = [friends EXCEPT ![c][Peer(c, t)] = NewPublicKey(friends[c][Peer(c, t)])]
    BY <1>22 DEF StorePublicKey
  <2>2. Peer(c, t) \in Clients \ {c}
    BY <1>22, PeerFacts DEF TypeInv, DataOK, ThreadsOK, ThreadOK, Under, StorePublicKey
  <2>3. EntryOK(c, Peer(c, t), NewPublicKey(friends[c][Peer(c, t)]))
    <3>1. friends[c][Peer(c, t)] \in Friend /\ EntryOK(c, Peer(c, t), friends[c][Peer(c, t)])
      BY <2>2 DEF FriendsOK
    <3> QED
      BY <2>2, <3>1, EntryFacts
  <2> QED
    BY <2>1, <2>2, <2>3, EntryUpdate
<1>23. ASSUME NEW c \in Clients, NEW t \in Threads, StoreSymmetricKey(c, t) PROVE FriendsOK'
  <2>1. friends' = [friends EXCEPT ![c][Peer(c, t)] = NewKey(friends[c][Peer(c, t)], Head(rsp[c][t].msgs).key)]
    BY <1>23 DEF StoreSymmetricKey
  <2>2. Peer(c, t) \in Clients \ {c} /\ Head(rsp[c][t].msgs).key \in Key
    BY <1>23, PeerFacts DEF TypeInv, DataOK, ThreadsOK, ThreadOK, Under, StoreSymmetricKey
  <2>3. EntryOK(c, Peer(c, t), NewKey(friends[c][Peer(c, t)], Head(rsp[c][t].msgs).key))
    <3>1. friends[c][Peer(c, t)] \in Friend /\ EntryOK(c, Peer(c, t), friends[c][Peer(c, t)])
      BY <2>2 DEF FriendsOK
    <3> QED
      BY <2>2, <3>1, EntryFacts
  <2> QED
    BY <2>1, <2>2, <2>3, EntryUpdate
<1>24. ASSUME NEW c \in Clients, NEW s \in Slots, ServeLeftover(c, s) PROVE FriendsOK'
  BY <1>24 DEF ServeLeftover, FriendsOK
<1>25. CASE UNCHANGED vars
  BY <1>25 DEF vars, FriendsOK
<1> QED
  BY <1>1, <1>2, <1>3, <1>4, <1>5, <1>6, <1>7, <1>8, <1>9, <1>10, <1>11, <1>12, <1>13, <1>14, <1>15,
     <1>16, <1>17, <1>18, <1>19, <1>20, <1>21, <1>22, <1>23, <1>24, <1>25 DEF Next, Menu, Process

\* The keys a program has had, and those that are spoiled, are keys.
LEMMA KeysStep == TypeInv /\ [Next]_vars => KeysOK'
<1> SUFFICES ASSUME TypeInv, [Next]_vars PROVE KeysOK'
  OBVIOUS
<1>0. KeysOK
  BY DEF TypeInv
<1> USE <1>0 DEF KeysOK, net, srv, hist
<1>1. ASSUME NEW c \in Clients, AskServer(c) PROVE KeysOK'
  BY <1>1 DEF AskServer
<1>2. ASSUME NEW c \in Clients, AskPublicKey(c) PROVE KeysOK'
  BY <1>2 DEF AskPublicKey
<1>3. ASSUME NEW c \in Clients, RequestKey(c) PROVE KeysOK'
  BY <1>3, ClientsAssumption DEF RequestKey, SendCommand
<1>4. ASSUME NEW c \in Clients, SendText(c) PROVE KeysOK'
  BY <1>4, ClientsAssumption DEF SendText, SendCommand
<1>5. ASSUME NEW c \in Clients, SendKey(c) PROVE KeysOK'
  <2>1. PICK d \in Clients :
          LET key == [by |-> c, to |-> d, n |-> sends + 1] IN
          SendCommand(c, "sendKey", d, key) /\ had' = [had EXCEPT ![c] = had[c] \cup {key}]
    BY <1>5 DEF SendKey
  <2>2. sends < MaxSends /\ sends' = sends + 1 /\ UNCHANGED <<mixed, spoiled>>
    BY <2>1 DEF SendCommand
  <2>3. [by |-> c, to |-> d, n |-> sends + 1] \in Key
    BY <2>2, ClientsAssumption DEF Key
  <2> QED
    BY <2>1, <2>2, <2>3, ClientsAssumption
<1>6. ASSUME NEW c \in Clients, Exit(c) PROVE KeysOK'
  BY <1>6 DEF Exit
<1>7. ASSUME NEW c \in Clients, Join(c) PROVE KeysOK'
  BY <1>7 DEF Join, Forget
<1>8. ASSUME NEW c \in Clients, Poll(c) PROVE KeysOK'
  BY <1>8 DEF Poll
<1>9. ASSUME NEW c \in Clients, StopPolling(c) PROVE KeysOK'
  BY <1>9 DEF StopPolling
<1>10. ASSUME NEW c \in Clients, Serve(c) PROVE KeysOK'
  <2>1. spoiled' \in {spoiled, spoiled \cup KeyOf(Head(toServer[c]))} /\ UNCHANGED <<sends, mixed, had>>
    BY <1>10 DEF Serve, Refuse, LookUp, Fetch, Store
  <2>2. toServer[c] # <<>>
    BY <1>10 DEF Serve
  <2>3. mutex[c] \in Threads /\ Head(toServer[c]) = req[c][mutex[c]]
    BY <2>2, WireFacts
  <2>4. KeyOf(Head(toServer[c])) \subseteq Key
    BY <2>3, LostFacts
  <2> QED
    BY <2>1, <2>4
<1>11. ASSUME NEW c \in Clients, Break(c) PROVE KeysOK'
  <2>1. spoiled' = spoiled \cup KeysIn(OnTheWay(c)) \cup SentKeys(c) /\ UNCHANGED <<sends, mixed, had>>
    BY <1>11 DEF Break
  <2> QED
    BY <2>1, LostFacts, MailFacts
<1>12. ASSUME NEW c \in Clients, Crash(c) PROVE KeysOK'
  <2> DEFINE lost == OnTheWay(c) \cup Pending(c, "main") \cup Pending(c, "pull")
  <2>1. /\ spoiled' = spoiled \cup KeysIn(lost) \cup had[c] \cup SentKeys(c)
        /\ UNCHANGED <<sends, mixed>> /\ had' = [had EXCEPT ![c] = {}]
    BY <1>12 DEF Crash, Forget
  <2>2. lost \subseteq MailFor(c)
    BY LostFacts DEF Threads
  <2> HIDE DEF lost
  <2>3. KeysIn(lost) \subseteq Key
    BY <2>2, MailFacts
  <2> QED
    BY <2>1, <2>3, LostFacts
<1>13. ASSUME NEW c \in Clients, Restart(c) PROVE KeysOK'
  BY <1>13 DEF Restart
<1>14. ASSUME NEW c \in Clients, NEW t \in Threads, Send(c, t) PROVE KeysOK'
  BY <1>14 DEF Send
<1>15. ASSUME NEW c \in Clients, NEW t \in Threads, Receive(c, t) PROVE KeysOK'
  BY <1>15 DEF Receive
<1>16. ASSUME NEW c \in Clients, NEW t \in Threads, Fail(c, t) PROVE KeysOK'
  <2>1. /\ spoiled' \in {spoiled, spoiled \cup KeyOf(req[c][t])}
        /\ UNCHANGED <<sends, mixed, had>>
    BY <1>16 DEF Fail
  <2> QED
    BY <2>1, LostFacts
<1>17. ASSUME NEW c \in Clients, NEW t \in Threads, Finish(c, t) PROVE KeysOK'
  BY <1>17 DEF Finish
<1>18. ASSUME NEW c \in Clients, NEW t \in Threads, LearnName(c, t) PROVE KeysOK'
  BY <1>18 DEF LearnName
<1>19. ASSUME NEW c \in Clients, NEW t \in Threads, Show(c, t) PROVE KeysOK'
  BY <1>19 DEF Show, Advance
<1>20. ASSUME NEW c \in Clients, NEW t \in Threads, Check(c, t) PROVE KeysOK'
  BY <1>20 DEF Check
<1>21. ASSUME NEW c \in Clients, NEW t \in Threads, Base(c, t) PROVE KeysOK'
  BY <1>21 DEF Base
<1>22. ASSUME NEW c \in Clients, NEW t \in Threads, StorePublicKey(c, t) PROVE KeysOK'
  BY <1>22 DEF StorePublicKey
<1>23. ASSUME NEW c \in Clients, NEW t \in Threads, StoreSymmetricKey(c, t) PROVE KeysOK'
  <2>1. /\ had' = [had EXCEPT ![c] = @ \cup {Head(rsp[c][t].msgs).key}]
        /\ UNCHANGED <<sends, mixed, spoiled>>
    BY <1>23 DEF StoreSymmetricKey
  <2>2. Head(rsp[c][t].msgs).key \in Key
    BY <1>23, PeerFacts DEF TypeInv, DataOK, ThreadsOK, ThreadOK, Under, StoreSymmetricKey
  <2> QED
    BY <2>1, <2>2
<1>24. ASSUME NEW c \in Clients, NEW s \in Slots, ServeLeftover(c, s) PROVE KeysOK'
  <2>1. /\ spoiled' \in {spoiled, spoiled \cup KeyOf(leftover[c][s]), spoiled \cup KeysIn(ToSet(box[c]))}
        /\ UNCHANGED <<sends, mixed, had>>
    BY <1>24 DEF ServeLeftover
  <2>2. KeyOf(leftover[c][s]) \subseteq Key
    BY DEF TypeInv, LeftoverOK, RequestsOf, KeyOf
  <2>3. ToSet(box[c]) \subseteq MailFor(c)
    BY ListFacts DEF TypeInv, DataOK, MailboxesOK
  <2>4. KeysIn(ToSet(box[c])) \subseteq Key
    BY <2>3, MailFacts
  <2> QED
    BY <2>1, <2>2, <2>4
<1>25. CASE UNCHANGED vars
  BY <1>25 DEF vars
<1> QED
  BY <1>1, <1>2, <1>3, <1>4, <1>5, <1>6, <1>7, <1>8, <1>9, <1>10, <1>11, <1>12, <1>13, <1>14, <1>15,
     <1>16, <1>17, <1>18, <1>19, <1>20, <1>21, <1>22, <1>23, <1>24, <1>25 DEF Next, Menu, Process

\* A thread of a lost connection has the request that was under way.
LEMMA LeftBehind ==
  ASSUME TypeInv, NEW c \in Clients, LeaveBehind(c)
  PROVE  LeftoverOK'
<1>1. CASE UNCHANGED leftover
  BY <1>1 DEF TypeInv, LeftoverOK
<1>2. ASSUME NEW s \in Slots, toServer[c] # <<>>,
             leftover' = [leftover EXCEPT ![c][s] = Head(toServer[c])]
      PROVE  LeftoverOK'
  <2>1. Head(toServer[c]) \in RequestsOf(c)
    BY <1>2, WireFacts
  <2>2. Head(toServer[c]) \in Request
    BY <2>1 DEF RequestsOf
  <2> QED
    BY <1>2, <2>1, <2>2 DEF TypeInv, LeftoverOK
<1> QED
  BY <1>1, <1>2 DEF LeaveBehind

LEMMA LeftoverStep == TypeInv /\ [Next]_vars => LeftoverOK'
<1> SUFFICES ASSUME TypeInv, [Next]_vars PROVE LeftoverOK'
  OBVIOUS
<1> USE DEF net, srv, hist
<1>1. ASSUME UNCHANGED leftover PROVE LeftoverOK'
  BY <1>1 DEF TypeInv, LeftoverOK
<1>2. ASSUME NEW c \in Clients, Menu(c) \/ Join(c) \/ Poll(c) \/ StopPolling(c) \/ Restart(c) \/ Serve(c)
      PROVE  UNCHANGED leftover
  BY <1>2 DEF Menu, AskServer, AskPublicKey, RequestKey, SendText, SendKey, SendCommand, Exit,
              Join, Poll, StopPolling, Restart, Serve
<1>3. ASSUME NEW c \in Clients, Break(c) \/ Crash(c) PROVE LeftoverOK'
  BY <1>3, LeftBehind DEF Break, Crash
<1>4. ASSUME NEW c \in Clients, NEW t \in Threads, Send(c, t) \/ Receive(c, t) \/ Fail(c, t)
      PROVE  UNCHANGED leftover
  BY <1>4 DEF Send, Receive, Fail
<1>5. ASSUME NEW c \in Clients, NEW t \in Threads, Process(c, t) PROVE UNCHANGED leftover
  BY <1>5 DEF Process, Finish, LearnName, Show, Check, Base, StorePublicKey, StoreSymmetricKey
<1>6. ASSUME NEW c \in Clients, NEW s \in Slots, ServeLeftover(c, s) PROVE LeftoverOK'
  <2>1. leftover' = [leftover EXCEPT ![c][s] = None]
    BY <1>6 DEF ServeLeftover
  <2> QED
    BY <2>1 DEF TypeInv, LeftoverOK
<1>7. CASE UNCHANGED vars
  BY <1>1, <1>7 DEF vars
<1> QED
  BY <1>1, <1>2, <1>3, <1>4, <1>5, <1>6, <1>7 DEF Next

\* A message that is stored stays a message.
LEMMA PostedGrows ==
  ASSUME posted \in Nat, posted' \in Nat, posted' >= posted, NEW c \in Clients
  PROVE  MailFor(c) \subseteq MailFor(c)' /\ ResponsesTo(c) \subseteq ResponsesTo(c)'
<1>1. MailFor(c) \subseteq MailFor(c)'
  BY DEF MailFor
<1>2. \A M \in Seq(MailFor(c)) : M \in Seq(MailFor(c)')
  BY <1>1
<1> QED
  BY <1>1, <1>2 DEF ResponsesTo

\* Most steps store no message and leave the requests and responses of every
\* other thread alone.
LEMMA ThreadUpdate ==
  ASSUME TypeInv, NEW c \in Clients, NEW t \in Threads, UNCHANGED posted,
         NEW q \in RequestsOf(c) \cup {None}, NEW r \in ResponsesTo(c) \cup {None},
         req' = [req EXCEPT ![c][t] = q], rsp' = [rsp EXCEPT ![c][t] = r],
         \A d \in Clients, u \in Threads : d # c \/ u # t => pc'[d][u] = pc[d][u],
         ThreadOK(c, t)'
  PROVE  ThreadsOK'
<1>1. \A d \in Clients : ResponsesTo(d)' = ResponsesTo(d)
  BY DEF ResponsesTo, MailFor
<1>2. q \in Request \cup {None} /\ r \in Response \cup {None}
  BY DEF RequestsOf, ResponsesTo
<1>3. /\ req' \in [Clients -> [Threads -> Request \cup {None}]]
      /\ rsp' \in [Clients -> [Threads -> Response \cup {None}]]
  BY <1>2 DEF TypeInv, DataOK, ThreadsOK
<1>4. ASSUME NEW d \in Clients, NEW u \in Threads, d # c \/ u # t
      PROVE  ThreadOK(d, u)'
  <2>1. req'[d][u] = req[d][u] /\ rsp'[d][u] = rsp[d][u] /\ pc'[d][u] = pc[d][u]
    BY <1>4 DEF TypeInv, DataOK, ThreadsOK
  <2>2. ThreadOK(d, u)
    BY DEF TypeInv, DataOK, ThreadsOK
  <2> QED
    BY <2>1, <2>2, <1>1 DEF ThreadOK
<1> QED
  BY <1>3, <1>4 DEF ThreadsOK

\* A command, or the polling thread, prepares a request.
LEMMA Prepared ==
  ASSUME TypeInv, NEW c \in Clients, NEW t \in Threads, pc[c][t] \in {"menu", "sleep"},
         NEW kind \in Kinds, NEW peer \in Clients \cup {None}, NEW content \in Content \cup {None},
         kind \in {"publicKey", "send"} => peer \in Clients \ {c},
         kind = "send" => /\ content \in Content
                          /\ content.type = "sendKey" => content.key \in Key,
         t = "pull" => kind = "waiting",
         Prepare(c, t, kind, peer, content), UNCHANGED <<rsp, posted>>
  PROVE  ThreadsOK'
<1> DEFINE q == [kind |-> kind, peer |-> peer, content |-> content]
<1>1. q \in RequestsOf(c) /\ q # None
  BY NoneAssumption DEF RequestsOf, Request
<1>2. rsp[c][t] = None
  BY DEF TypeInv, DataOK, ThreadsOK, ThreadOK, Under
<1>3. q.kind = kind
  OBVIOUS
<1> HIDE DEF q
<1>4. /\ req' = [req EXCEPT ![c][t] = q] /\ pc' = [pc EXCEPT ![c][t] = "send"]
      /\ rsp' = [rsp EXCEPT ![c][t] = None]
  BY <1>2 DEF Prepare, Goto, q, TypeInv, DataOK, ThreadsOK
<1>5. /\ req'[c][t] = q /\ pc'[c][t] = "send" /\ rsp'[c][t] = None
      /\ \A d \in Clients, u \in Threads : d # c \/ u # t => pc'[d][u] = pc[d][u]
  BY <1>4 DEF TypeInv, DataOK, ThreadsOK, ControlOK
<1>6. ThreadOK(c, t)'
  BY <1>1, <1>3, <1>5 DEF ThreadOK, Under, RequestsOf
<1> QED
  BY <1>1, <1>4, <1>5, <1>6, ThreadUpdate

\* A command that sends a message prepares a request.
LEMMA SendPrepared ==
  ASSUME TypeInv, NEW c \in Clients, NEW d \in Clients, NEW key \in Key \cup {None},
         NEW type \in {"requestKey", "text", "sendKey"}, type = "sendKey" => key \in Key,
         SendCommand(c, type, d, key)
  PROVE  ThreadsOK'
<1>1. [type |-> type, key |-> key] \in Content
  BY DEF Content
<1>2. /\ pc[c]["main"] = "menu" /\ d \in Clients \ {c} /\ UNCHANGED <<rsp, posted>>
      /\ Prepare(c, "main", "send", d, [type |-> type, key |-> key])
  BY DEF SendCommand, Named, srv
<1> QED
  BY <1>1, <1>2, Prepared DEF Threads, Kinds

\* Threads without a request change places.
LEMMA IdleThreads ==
  ASSUME TypeInv, UNCHANGED <<req, rsp, posted>>,
         \A d \in Clients, u \in Threads :
            \/ pc'[d][u] = pc[d][u]
            \/ {pc[d][u], pc'[d][u]} \subseteq {"menu", "sleep", "join", "done", "exited"}
  PROVE  ThreadsOK'
<1>1. ASSUME NEW d \in Clients, NEW u \in Threads PROVE ThreadOK(d, u)'
  <2>1. ThreadOK(d, u)
    BY DEF TypeInv, DataOK, ThreadsOK
  <2>2. UNCHANGED ResponsesTo(d)
    BY DEF ResponsesTo, MailFor
  <2> QED
    BY <2>1, <2>2 DEF ThreadOK, Under
<1> QED
  BY <1>1 DEF TypeInv, DataOK, ThreadsOK

\* Whatever a thread does, the response it has is an answer to its request.
LEMMA ThreadsStep == TypeInv /\ [Next]_vars => ThreadsOK'
<1> SUFFICES ASSUME TypeInv, [Next]_vars PROVE ThreadsOK'
  OBVIOUS
<1>1. ASSUME NEW c \in Clients, AskServer(c) PROVE ThreadsOK'
  <2>1. PICK kind \in {"list", "waiting"} : Prepare(c, "main", kind, None, None)
    BY <1>1 DEF AskServer
  <2> QED
    BY <1>1, <2>1, Prepared DEF AskServer, srv, Threads, Kinds
<1>2. ASSUME NEW c \in Clients, AskPublicKey(c) PROVE ThreadsOK'
  <2>1. PICK d \in Clients \ {c} : Prepare(c, "main", "publicKey", d, None)
    BY <1>2 DEF AskPublicKey, Named
  <2> QED
    BY <1>2, <2>1, Prepared DEF AskPublicKey, srv, Threads, Kinds
<1>3. ASSUME NEW c \in Clients, RequestKey(c) PROVE ThreadsOK'
  BY <1>3, SendPrepared DEF RequestKey
<1>4. ASSUME NEW c \in Clients, SendText(c) PROVE ThreadsOK'
  <2>1. PICK d \in Clients : SendCommand(c, "text", d, friends[c][d].sym)
    BY <1>4 DEF SendText
  <2>2. friends[c][d].sym \in Key \cup {None}
    BY DEF TypeInv, FriendsOK, Friend
  <2> QED
    BY <2>1, <2>2, SendPrepared
<1>5. ASSUME NEW c \in Clients, SendKey(c) PROVE ThreadsOK'
  <2>1. PICK d \in Clients : SendCommand(c, "sendKey", d, [by |-> c, to |-> d, n |-> sends + 1])
    BY <1>5 DEF SendKey
  <2>2. sends < MaxSends /\ sends \in Nat
    BY <2>1, ClientsAssumption DEF SendCommand, TypeInv, KeysOK
  <2>3. [by |-> c, to |-> d, n |-> sends + 1] \in Key
    BY <2>2, ClientsAssumption DEF Key
  <2> QED
    BY <2>1, <2>3, SendPrepared
<1>6. ASSUME NEW c \in Clients, Exit(c) PROVE ThreadsOK'
  <2>1. /\ \A d \in Clients, u \in Threads :
             \/ pc'[d][u] = pc[d][u]
             \/ {pc[d][u], pc'[d][u]} \subseteq {"menu", "sleep", "join", "done", "exited"}
        /\ UNCHANGED <<req, rsp, posted>>
    BY <1>6 DEF Exit, Goto, srv, TypeInv, ControlOK, Threads
  <2> QED
    BY <2>1, IdleThreads
<1>7. ASSUME NEW c \in Clients, Join(c) PROVE ThreadsOK'
  <2>1. /\ \A d \in Clients, u \in Threads :
             \/ pc'[d][u] = pc[d][u]
             \/ {pc[d][u], pc'[d][u]} \subseteq {"menu", "sleep", "join", "done", "exited"}
        /\ UNCHANGED <<req, rsp, posted>>
    BY <1>7 DEF Join, Forget, srv, TypeInv, ControlOK, Threads
  <2> QED
    BY <2>1, IdleThreads
<1>8. ASSUME NEW c \in Clients, Poll(c) PROVE ThreadsOK'
  BY <1>8, Prepared DEF Poll, srv, Threads, Kinds
<1>9. ASSUME NEW c \in Clients, StopPolling(c) PROVE ThreadsOK'
  <2>1. /\ \A d \in Clients, u \in Threads :
             \/ pc'[d][u] = pc[d][u]
             \/ {pc[d][u], pc'[d][u]} \subseteq {"menu", "sleep", "join", "done", "exited"}
        /\ UNCHANGED <<req, rsp, posted>>
    BY <1>9 DEF StopPolling, Goto, srv, TypeInv, ControlOK, Threads
  <2> QED
    BY <2>1, IdleThreads
<1>10. ASSUME NEW c \in Clients, Serve(c) PROVE ThreadsOK'
  <2>1. /\ UNCHANGED <<pc, req, rsp>>
        /\ posted' = posted \/ posted' = posted + 1
    BY <1>10 DEF Serve, Refuse, LookUp, Fetch, Store, Empty, Post, srv
  <2>2. posted \in Nat /\ posted' \in Nat /\ posted' >= posted
    BY <2>1 DEF TypeInv, DataOK, MailboxesOK
  <2>3. \A d \in Clients : ResponsesTo(d) \subseteq ResponsesTo(d)'
    BY <2>2, PostedGrows
  <2>4. ASSUME NEW d \in Clients, NEW u \in Threads PROVE ThreadOK(d, u)'
    <3>1. ThreadOK(d, u)
      BY DEF TypeInv, DataOK, ThreadsOK
    <3> QED
      BY <3>1, <2>1, <2>3 DEF ThreadOK
  <2> QED
    BY <2>1, <2>4 DEF TypeInv, DataOK, ThreadsOK
<1>11. ASSUME NEW c \in Clients, Break(c) PROVE ThreadsOK'
  <2>1. /\ \A d \in Clients, u \in Threads :
             \/ pc'[d][u] = pc[d][u]
             \/ {pc[d][u], pc'[d][u]} \subseteq {"menu", "sleep", "join", "done", "exited"}
        /\ UNCHANGED <<req, rsp, posted>>
    BY <1>11 DEF Break, srv, TypeInv, ControlOK, Threads
  <2> QED
    BY <2>1, IdleThreads
<1>12. ASSUME NEW c \in Clients, Crash(c) PROVE ThreadsOK'
  <2>1. /\ pc' = [pc EXCEPT ![c] = [t \in Threads |-> "exited"]]
        /\ req' = [req EXCEPT ![c] = [t \in Threads |-> None]]
        /\ rsp' = [rsp EXCEPT ![c] = [t \in Threads |-> None]]
        /\ UNCHANGED posted
    BY <1>12 DEF Crash, Forget, srv
  <2>2. \A d \in Clients : ResponsesTo(d)' = ResponsesTo(d)
    BY <2>1 DEF ResponsesTo, MailFor
  <2>3. /\ req' \in [Clients -> [Threads -> Request \cup {None}]]
        /\ rsp' \in [Clients -> [Threads -> Response \cup {None}]]
    BY <2>1 DEF TypeInv, DataOK, ThreadsOK
  <2>4. ASSUME NEW d \in Clients, NEW u \in Threads PROVE ThreadOK(d, u)'
    <3>1. CASE d = c
      <4>1. pc'[d][u] = "exited" /\ req'[d][u] = None /\ rsp'[d][u] = None
        BY <3>1, <2>1 DEF TypeInv, ControlOK, DataOK, ThreadsOK
      <4> QED
        BY <4>1 DEF ThreadOK, Under
    <3>2. CASE d # c
      <4>1. pc'[d][u] = pc[d][u] /\ req'[d][u] = req[d][u] /\ rsp'[d][u] = rsp[d][u]
        BY <3>2, <2>1 DEF TypeInv, ControlOK, DataOK, ThreadsOK
      <4>2. ThreadOK(d, u)
        BY DEF TypeInv, DataOK, ThreadsOK
      <4> QED
        BY <4>1, <4>2, <2>2 DEF ThreadOK
    <3> QED
      BY <3>1, <3>2
  <2> QED
    BY <2>3, <2>4 DEF ThreadsOK
<1>13. ASSUME NEW c \in Clients, Restart(c) PROVE ThreadsOK'
  <2>1. /\ \A d \in Clients, u \in Threads :
             \/ pc'[d][u] = pc[d][u]
             \/ {pc[d][u], pc'[d][u]} \subseteq {"menu", "sleep", "join", "done", "exited"}
        /\ UNCHANGED <<req, rsp, posted>>
    BY <1>13 DEF Restart, srv, TypeInv, ControlOK, Threads
  <2> QED
    BY <2>1, IdleThreads
<1>14. ASSUME NEW c \in Clients, NEW t \in Threads, Send(c, t) PROVE ThreadsOK'
  <2> DEFINE q == req[c][t]
             r == rsp[c][t]
  <2>1. /\ pc[c][t] = "send"
        /\ req' = [req EXCEPT ![c][t] = q] /\ rsp' = [rsp EXCEPT ![c][t] = r]
        /\ pc' = [pc EXCEPT ![c][t] = "receive"] /\ UNCHANGED posted
    BY <1>14 DEF Send, Goto, srv, TypeInv, DataOK, ThreadsOK
  <2>2. ThreadOK(c, t) /\ q \in RequestsOf(c) \cup {None} /\ r \in ResponsesTo(c) \cup {None}
    BY DEF TypeInv, DataOK, ThreadsOK, ThreadOK
  <2>3. q # None /\ r = None /\ (t = "pull" => q.kind = "waiting")
    BY <2>1, <2>2 DEF ThreadOK, Under
  <2> HIDE DEF q, r
  <2>4. /\ req'[c][t] = q /\ rsp'[c][t] = r /\ pc'[c][t] = "receive"
        /\ \A d \in Clients, u \in Threads : d # c \/ u # t => pc'[d][u] = pc[d][u]
    BY <2>1 DEF TypeInv, ControlOK, DataOK, ThreadsOK
  <2>5. UNCHANGED ResponsesTo(c)
    BY <2>1 DEF ResponsesTo, MailFor
  <2>6. ThreadOK(c, t)'
    BY <2>1, <2>2, <2>3, <2>4, <2>5 DEF ThreadOK, Under
  <2> QED
    BY <2>1, <2>2, <2>4, <2>6, ThreadUpdate
<1>15. ASSUME NEW c \in Clients, NEW t \in Threads, Receive(c, t) PROVE ThreadsOK'
  <2> DEFINE q == req[c][t]
             r == Head(toClient[c])
  <2>1. /\ pc[c][t] = "receive" /\ toClient[c] # <<>>
        /\ req' = [req EXCEPT ![c][t] = q] /\ rsp' = [rsp EXCEPT ![c][t] = r]
        /\ pc' = [pc EXCEPT ![c][t] = "process"] /\ UNCHANGED posted
    BY <1>15 DEF Receive, Goto, srv, TypeInv, DataOK, ThreadsOK
  <2>2. ThreadOK(c, t) /\ q \in RequestsOf(c) \cup {None} /\ r \in ResponsesTo(c) \cup {None}
    BY <2>1, WireFacts DEF TypeInv, DataOK, ThreadsOK, ThreadOK
  <2>3. /\ q # None /\ r # None /\ r.kind \in {"error", q.kind}
        /\ t = "pull" => q.kind = "waiting"
    <3>1. mutex[c] = t
      BY <2>1 DEF TypeInv, ControlOK
    <3>2. r \in ResponsesTo(c) /\ r.kind \in {"error", q.kind}
      BY <3>1, <2>1, WireFacts
    <3>3. r # None
      BY <3>2, NoneAssumption DEF ResponsesTo
    <3> QED
      BY <3>2, <3>3, <2>1, <2>2 DEF ThreadOK
  <2> HIDE DEF q, r
  <2>4. /\ req'[c][t] = q /\ rsp'[c][t] = r /\ pc'[c][t] = "process"
        /\ \A d \in Clients, u \in Threads : d # c \/ u # t => pc'[d][u] = pc[d][u]
    BY <2>1 DEF TypeInv, ControlOK, DataOK, ThreadsOK
  <2>5. UNCHANGED ResponsesTo(c)
    BY <2>1 DEF ResponsesTo, MailFor
  <2>6. ThreadOK(c, t)'
    BY <2>1, <2>2, <2>3, <2>4, <2>5 DEF ThreadOK, Under
  <2> QED
    BY <2>1, <2>2, <2>4, <2>6, ThreadUpdate
<1>16. ASSUME NEW c \in Clients, NEW t \in Threads, Fail(c, t) PROVE ThreadsOK'
  <2> DEFINE q == None
             r == rsp[c][t]
  <2>1. /\ pc[c][t] \in {"send", "receive"}
        /\ req' = [req EXCEPT ![c][t] = q] /\ rsp' = [rsp EXCEPT ![c][t] = r]
        /\ pc' = [pc EXCEPT ![c][t] = IF t = "main" THEN "join" ELSE "sleep"] /\ UNCHANGED posted
    BY <1>16 DEF Fail, Goto, srv, TypeInv, DataOK, ThreadsOK
  <2>2. ThreadOK(c, t) /\ q \in RequestsOf(c) \cup {None} /\ r \in ResponsesTo(c) \cup {None}
    BY DEF TypeInv, DataOK, ThreadsOK, ThreadOK
  <2>3. q = None /\ r = None
    BY <2>1, <2>2 DEF ThreadOK, Under
  <2> HIDE DEF q, r
  <2>4. /\ req'[c][t] = q /\ rsp'[c][t] = r /\ pc'[c][t] = IF t = "main" THEN "join" ELSE "sleep"
        /\ \A d \in Clients, u \in Threads : d # c \/ u # t => pc'[d][u] = pc[d][u]
    BY <2>1 DEF TypeInv, ControlOK, DataOK, ThreadsOK
  <2>5. UNCHANGED ResponsesTo(c)
    BY <2>1 DEF ResponsesTo, MailFor
  <2>6. ThreadOK(c, t)'
    BY <2>1, <2>2, <2>3, <2>4, <2>5 DEF ThreadOK, Under
  <2> QED
    BY <2>1, <2>2, <2>4, <2>6, ThreadUpdate
<1>17. ASSUME NEW c \in Clients, NEW t \in Threads, Finish(c, t) PROVE ThreadsOK'
  <2> DEFINE q == None
             r == None
  <2>1. /\ Return(c, t)
        /\ req' = [req EXCEPT ![c][t] = q] /\ rsp' = [rsp EXCEPT ![c][t] = r]
        /\ pc' = [pc EXCEPT ![c][t] = Home(t)] /\ UNCHANGED posted
    <3>1. Return(c, t) /\ UNCHANGED srv
      BY <1>17, Zenon DEF Finish
    <3> QED
      BY <3>1 DEF Return, Goto, srv
  <2>2. q \in RequestsOf(c) \cup {None} /\ r \in ResponsesTo(c) \cup {None}
    OBVIOUS
  <2>3. q = None /\ r = None
    OBVIOUS
  <2> HIDE DEF q, r
  <2>4. /\ req'[c][t] = q /\ rsp'[c][t] = r /\ pc'[c][t] = Home(t)
        /\ \A d \in Clients, u \in Threads : d # c \/ u # t => pc'[d][u] = pc[d][u]
    BY <2>1 DEF TypeInv, ControlOK, DataOK, ThreadsOK
  <2>5. UNCHANGED ResponsesTo(c)
    BY <2>1 DEF ResponsesTo, MailFor
  <2>6. ThreadOK(c, t)'
    BY <2>1, <2>2, <2>3, <2>4, <2>5 DEF ThreadOK, Under, Home
  <2> QED
    BY <2>1, <2>2, <2>4, <2>6, ThreadUpdate
<1>18. ASSUME NEW c \in Clients, NEW t \in Threads, LearnName(c, t) PROVE ThreadsOK'
  <2>1. PICK d \in rsp[c][t].names :
          rsp' = [rsp EXCEPT ![c][t] = [rsp[c][t] EXCEPT !.names = rsp[c][t].names \ {d}]]
    BY <1>18 DEF LearnName, TypeInv, DataOK, ThreadsOK
  <2> DEFINE q == req[c][t]
             r == [rsp[c][t] EXCEPT !.names = rsp[c][t].names \ {d}]
  <2>2. /\ pc[c][t] = "process" /\ rsp[c][t].kind = "list" /\ UNCHANGED <<pc, posted>>
        /\ req' = [req EXCEPT ![c][t] = q] /\ rsp' = [rsp EXCEPT ![c][t] = r]
    BY <1>18, <2>1 DEF LearnName, Kind, srv, TypeInv, DataOK, ThreadsOK
  <2>3. ThreadOK(c, t) /\ q \in RequestsOf(c) \cup {None}
    BY DEF TypeInv, DataOK, ThreadsOK, ThreadOK
  <2>4. /\ q # None /\ r # None /\ r \in ResponsesTo(c) \cup {None} /\ r.kind \in {"error", q.kind}
        /\ t = "pull" => q.kind = "waiting"
    <3>1. rsp[c][t] \in ResponsesTo(c)
      BY <2>2, <2>3 DEF ThreadOK, Under
    <3>2. r \in ResponsesTo(c) /\ r.kind = rsp[c][t].kind
      BY <3>1 DEF ResponsesTo, Response
    <3>3. r # None
      BY <3>2, NoneAssumption DEF ResponsesTo
    <3> QED
      BY <3>2, <3>3, <2>2, <2>3 DEF ThreadOK, Under
  <2> HIDE DEF q, r
  <2>5. req'[c][t] = q /\ rsp'[c][t] = r /\ pc'[c][t] = "process"
    BY <2>2 DEF TypeInv, ControlOK, DataOK, ThreadsOK
  <2>6. UNCHANGED ResponsesTo(c)
    BY <2>2 DEF ResponsesTo, MailFor
  <2>7. ThreadOK(c, t)'
    BY <2>3, <2>4, <2>5, <2>6 DEF ThreadOK, Under
  <2> QED
    BY <2>2, <2>3, <2>4, <2>7, ThreadUpdate
<1>19. ASSUME NEW c \in Clients, NEW t \in Threads, Show(c, t) PROVE ThreadsOK'
  <2> DEFINE q == req[c][t]
             r == [rsp[c][t] EXCEPT !.msgs = Tail(rsp[c][t].msgs)]
  <2>1. /\ pc[c][t] = "process" /\ rsp[c][t].msgs # <<>>
        /\ req' = [req EXCEPT ![c][t] = q] /\ rsp' = [rsp EXCEPT ![c][t] = r]
        /\ pc' = [pc EXCEPT ![c][t] = "process"] /\ UNCHANGED posted
    BY <1>19 DEF Show, Advance, Goto, Kind, srv, TypeInv, DataOK, ThreadsOK
  <2>2. ThreadOK(c, t) /\ q \in RequestsOf(c) \cup {None}
    BY DEF TypeInv, DataOK, ThreadsOK, ThreadOK
  <2>3. /\ q # None /\ r # None /\ r \in ResponsesTo(c) \cup {None} /\ r.kind \in {"error", q.kind}
        /\ t = "pull" => q.kind = "waiting"
    <3>1. rsp[c][t] \in ResponsesTo(c) /\ rsp[c][t].msgs # <<>>
      BY <2>1, <2>2 DEF ThreadOK, Under
    <3>2. r \in ResponsesTo(c)
      BY <3>1, ListFacts DEF ResponsesTo, Response
    <3>3. r # None
      BY <3>2, NoneAssumption DEF ResponsesTo
    <3>4. r.kind = rsp[c][t].kind
      BY <3>1 DEF ResponsesTo, Response
    <3> QED
      BY <3>2, <3>3, <3>4, <2>1, <2>2 DEF ThreadOK, Under
  <2> HIDE DEF q, r
  <2>4. /\ req'[c][t] = q /\ rsp'[c][t] = r /\ pc'[c][t] = "process"
        /\ \A d \in Clients, u \in Threads : d # c \/ u # t => pc'[d][u] = pc[d][u]
    BY <2>1 DEF TypeInv, ControlOK, DataOK, ThreadsOK
  <2>5. UNCHANGED ResponsesTo(c)
    BY <2>1 DEF ResponsesTo, MailFor
  <2>6. ThreadOK(c, t)'
    BY <2>1, <2>2, <2>3, <2>4, <2>5 DEF ThreadOK, Under
  <2> QED
    BY <2>1, <2>2, <2>3, <2>4, <2>6, ThreadUpdate
<1>20. ASSUME NEW c \in Clients, NEW t \in Threads, Check(c, t) PROVE ThreadsOK'
  <2> DEFINE q == req[c][t]
             r == rsp[c][t]
  <2>1. /\ \/ Kind(c, t, "publicKey")
           \/ /\ Kind(c, t, "waiting") /\ rsp[c][t].msgs # <<>>
              /\ Head(rsp[c][t].msgs).type = "sendKey"
        /\ req' = [req EXCEPT ![c][t] = q] /\ rsp' = [rsp EXCEPT ![c][t] = r]
        /\ pc' = [pc EXCEPT ![c][t] = IF friends[c][Peer(c, t)].known THEN "store" ELSE "base"] /\ UNCHANGED posted
    BY <1>20 DEF Check, Goto, srv, TypeInv, DataOK, ThreadsOK
  <2>2. ThreadOK(c, t) /\ q \in RequestsOf(c) \cup {None} /\ r \in ResponsesTo(c) \cup {None}
    BY DEF TypeInv, DataOK, ThreadsOK, ThreadOK
  <2>3. q = req[c][t] /\ r = rsp[c][t]
    OBVIOUS
  <2> HIDE DEF q, r
  <2>4. /\ req'[c][t] = q /\ rsp'[c][t] = r /\ pc'[c][t] = IF friends[c][Peer(c, t)].known THEN "store" ELSE "base"
        /\ \A d \in Clients, u \in Threads : d # c \/ u # t => pc'[d][u] = pc[d][u]
    BY <2>1 DEF TypeInv, ControlOK, DataOK, ThreadsOK
  <2>5. UNCHANGED ResponsesTo(c)
    BY <2>1 DEF ResponsesTo, MailFor
  <2>6. ThreadOK(c, t)'
    BY <2>1, <2>2, <2>3, <2>4, <2>5 DEF ThreadOK, Under, Kind
  <2> QED
    BY <2>1, <2>2, <2>4, <2>6, ThreadUpdate
<1>21. ASSUME NEW c \in Clients, NEW t \in Threads, Base(c, t) PROVE ThreadsOK'
  <2> DEFINE q == req[c][t]
             r == rsp[c][t]
  <2>1. /\ pc[c][t] = "base"
        /\ req' = [req EXCEPT ![c][t] = q] /\ rsp' = [rsp EXCEPT ![c][t] = r]
        /\ pc' = [pc EXCEPT ![c][t] = "store"] /\ UNCHANGED posted
    BY <1>21 DEF Base, Goto, srv, TypeInv, DataOK, ThreadsOK
  <2>2. ThreadOK(c, t) /\ q \in RequestsOf(c) \cup {None} /\ r \in ResponsesTo(c) \cup {None}
    BY DEF TypeInv, DataOK, ThreadsOK, ThreadOK
  <2>3. q = req[c][t] /\ r = rsp[c][t]
    OBVIOUS
  <2> HIDE DEF q, r
  <2>4. /\ req'[c][t] = q /\ rsp'[c][t] = r /\ pc'[c][t] = "store"
        /\ \A d \in Clients, u \in Threads : d # c \/ u # t => pc'[d][u] = pc[d][u]
    BY <2>1 DEF TypeInv, ControlOK, DataOK, ThreadsOK
  <2>5. UNCHANGED ResponsesTo(c)
    BY <2>1 DEF ResponsesTo, MailFor
  <2>6. ThreadOK(c, t)'
    BY <2>1, <2>2, <2>3, <2>4, <2>5 DEF ThreadOK, Under
  <2> QED
    BY <2>1, <2>2, <2>4, <2>6, ThreadUpdate
<1>22. ASSUME NEW c \in Clients, NEW t \in Threads, StorePublicKey(c, t) PROVE ThreadsOK'
  <2> DEFINE q == None
             r == None
  <2>1. /\ Return(c, t)
        /\ req' = [req EXCEPT ![c][t] = q] /\ rsp' = [rsp EXCEPT ![c][t] = r]
        /\ pc' = [pc EXCEPT ![c][t] = Home(t)] /\ UNCHANGED posted
    <3>1. Return(c, t) /\ UNCHANGED srv
      BY <1>22, Zenon DEF StorePublicKey
    <3> QED
      BY <3>1 DEF Return, Goto, srv
  <2>2. q \in RequestsOf(c) \cup {None} /\ r \in ResponsesTo(c) \cup {None}
    OBVIOUS
  <2>3. q = None /\ r = None
    OBVIOUS
  <2> HIDE DEF q, r
  <2>4. /\ req'[c][t] = q /\ rsp'[c][t] = r /\ pc'[c][t] = Home(t)
        /\ \A d \in Clients, u \in Threads : d # c \/ u # t => pc'[d][u] = pc[d][u]
    BY <2>1 DEF TypeInv, ControlOK, DataOK, ThreadsOK
  <2>5. UNCHANGED ResponsesTo(c)
    BY <2>1 DEF ResponsesTo, MailFor
  <2>6. ThreadOK(c, t)'
    BY <2>1, <2>2, <2>3, <2>4, <2>5 DEF ThreadOK, Under, Home
  <2> QED
    BY <2>1, <2>2, <2>4, <2>6, ThreadUpdate
<1>23. ASSUME NEW c \in Clients, NEW t \in Threads, StoreSymmetricKey(c, t) PROVE ThreadsOK'
  <2> DEFINE q == req[c][t]
             r == [rsp[c][t] EXCEPT !.msgs = Tail(rsp[c][t].msgs)]
  <2>1. /\ pc[c][t] = "store" /\ rsp[c][t].kind = "waiting"
        /\ req' = [req EXCEPT ![c][t] = q] /\ rsp' = [rsp EXCEPT ![c][t] = r]
        /\ pc' = [pc EXCEPT ![c][t] = "process"] /\ UNCHANGED posted
    BY <1>23 DEF StoreSymmetricKey, Advance, Goto, srv, TypeInv, DataOK, ThreadsOK
  <2>2. ThreadOK(c, t) /\ q \in RequestsOf(c) \cup {None}
    BY DEF TypeInv, DataOK, ThreadsOK, ThreadOK
  <2>3. /\ q # None /\ r # None /\ r \in ResponsesTo(c) \cup {None} /\ r.kind \in {"error", q.kind}
        /\ t = "pull" => q.kind = "waiting"
    <3>1. rsp[c][t] \in ResponsesTo(c) /\ rsp[c][t].msgs # <<>>
      BY <2>1, <2>2 DEF ThreadOK, Under
    <3>2. r \in ResponsesTo(c)
      BY <3>1, ListFacts DEF ResponsesTo, Response
    <3>3. r # None
      BY <3>2, NoneAssumption DEF ResponsesTo
    <3>4. r.kind = rsp[c][t].kind
      BY <3>1 DEF ResponsesTo, Response
    <3> QED
      BY <3>2, <3>3, <3>4, <2>1, <2>2 DEF ThreadOK, Under
  <2> HIDE DEF q, r
  <2>4. /\ req'[c][t] = q /\ rsp'[c][t] = r /\ pc'[c][t] = "process"
        /\ \A d \in Clients, u \in Threads : d # c \/ u # t => pc'[d][u] = pc[d][u]
    BY <2>1 DEF TypeInv, ControlOK, DataOK, ThreadsOK
  <2>5. UNCHANGED ResponsesTo(c)
    BY <2>1 DEF ResponsesTo, MailFor
  <2>6. ThreadOK(c, t)'
    BY <2>1, <2>2, <2>3, <2>4, <2>5 DEF ThreadOK, Under
  <2> QED
    BY <2>1, <2>2, <2>3, <2>4, <2>6, ThreadUpdate
<1>24. ASSUME NEW c \in Clients, NEW s \in Slots, ServeLeftover(c, s) PROVE ThreadsOK'
  <2>1. /\ UNCHANGED <<pc, req, rsp>>
        /\ posted' = posted \/ posted' = posted + 1
    BY <1>24 DEF ServeLeftover, Empty, Post, srv
  <2>2. posted \in Nat /\ posted' \in Nat /\ posted' >= posted
    BY <2>1 DEF TypeInv, DataOK, MailboxesOK
  <2>3. \A d \in Clients : ResponsesTo(d) \subseteq ResponsesTo(d)'
    BY <2>2, PostedGrows
  <2>4. ASSUME NEW d \in Clients, NEW u \in Threads PROVE ThreadOK(d, u)'
    <3>1. ThreadOK(d, u)
      BY DEF TypeInv, DataOK, ThreadsOK
    <3> QED
      BY <3>1, <2>1, <2>3 DEF ThreadOK
  <2> QED
    BY <2>1, <2>4 DEF TypeInv, DataOK, ThreadsOK
<1>25. CASE UNCHANGED vars
  BY <1>25, IdleThreads DEF vars, srv
<1> QED
  BY <1>1, <1>2, <1>3, <1>4, <1>5, <1>6, <1>7, <1>8, <1>9, <1>10, <1>11, <1>12, <1>13, <1>14,
     <1>15, <1>16, <1>17, <1>18, <1>19, <1>20, <1>21, <1>22, <1>23, <1>24, <1>25 DEF Next, Menu, Process

\* A connection carries the same while nothing is sent or received on it.
LEMMA WireKept ==
  ASSUME TypeInv, NEW d \in Clients, ResponsesTo(d) \subseteq ResponsesTo(d)',
         mutex'[d] = mutex[d], toServer'[d] = toServer[d], toClient'[d] = toClient[d],
         mutex[d] # None => req'[d][mutex[d]] = req[d][mutex[d]]
  PROVE  WireOK(d)'
<1>1. WireOK(d)
  BY DEF TypeInv, DataOK, ConnectionsOK
<1> QED
  BY <1>1 DEF WireOK

\* Only the thread that holds _connMutex could change the request on its way,
\* and it waits for the response.
LEMMA ConnectionsKept ==
  ASSUME TypeInv, UNCHANGED <<mutex, toServer, toClient, posted>>,
         NEW c \in Clients, NEW t \in Threads, pc[c][t] # "receive",
         \A d \in Clients, u \in Threads : d # c \/ u # t => req'[d][u] = req[d][u]
  PROVE  ConnectionsOK'
<1>1. ASSUME NEW d \in Clients PROVE WireOK(d)'
  <2>1. ResponsesTo(d) \subseteq ResponsesTo(d)'
    BY DEF ResponsesTo, MailFor
  <2>2. ASSUME mutex[d] # None PROVE req'[d][mutex[d]] = req[d][mutex[d]]
    <3>1. mutex[d] \in Threads /\ pc[d][mutex[d]] = "receive"
      BY <2>2, WireFacts
    <3> QED
      BY <3>1
  <2> QED
    BY <2>1, <2>2, WireKept
<1> QED
  BY <1>1 DEF ConnectionsOK, TypeInv, DataOK

\* A server's answer is a response to the client that asked.
LEMMA AnswerFacts ==
  ASSUME TypeInv, NEW c \in Clients, NEW q \in RequestsOf(c)
  PROVE  /\ ErrorResponse \in ResponsesTo(c)
         /\ \A names \in {{}, Listed(c)} :
              q.kind # "waiting" => Reply(q.kind, q.peer, names, <<>>) \in ResponsesTo(c)
         /\ Reply("waiting", None, {}, box[c]) \in ResponsesTo(c)
<1>1. <<>> \in Seq(MailFor(c)) /\ <<>> \in Seq(Message)
  OBVIOUS
<1>2. box[c] \in Seq(MailFor(c)) /\ box[c] \in Seq(Message)
  <2>1. box[c] \in Seq(MailFor(c))
    BY DEF TypeInv, DataOK, MailboxesOK
  <2>2. MailFor(c) \subseteq Message
    BY DEF MailFor
  <2> QED
    BY <2>1, <2>2
<1>3. q.kind \in Kinds /\ q.peer \in Clients \cup {None}
  BY DEF RequestsOf, Request
<1>4. q.kind = "publicKey" => q.peer \in Clients \ {c}
  BY DEF RequestsOf
<1>5. ErrorResponse \in ResponsesTo(c)
  BY <1>1 DEF ErrorResponse, Reply, ResponsesTo, Response
<1>6. ASSUME NEW names \in {{}, Listed(c)}, q.kind # "waiting"
      PROVE  Reply(q.kind, q.peer, names, <<>>) \in ResponsesTo(c)
  BY <1>1, <1>3, <1>4, <1>6 DEF Reply, Listed, ResponsesTo, Response
<1>7. Reply("waiting", None, {}, box[c]) \in ResponsesTo(c)
  BY <1>2 DEF Reply, ResponsesTo, Response, Kinds
<1> QED
  BY <1>5, <1>6, <1>7

\* The server answers the request of the thread that waits.
LEMMA Answered ==
  ASSUME TypeInv, NEW c \in Clients, toServer[c] # <<>>,
         NEW r \in ResponsesTo(c), r.kind \in {"error", Head(toServer[c]).kind},
         posted' \in Nat, posted' >= posted, UNCHANGED <<req, mutex>>,
         toServer' = [toServer EXCEPT ![c] = Tail(@)],
         toClient' = [toClient EXCEPT ![c] = Append(@, r)]
  PROVE  ConnectionsOK'
<1>1. \A d \in Clients : ResponsesTo(d) \subseteq ResponsesTo(d)'
  BY PostedGrows DEF TypeInv, DataOK, MailboxesOK
<1>2. \A d \in Clients \ {c} : toServer'[d] = toServer[d] /\ toClient'[d] = toClient[d]
  BY DEF TypeInv, DataOK, ConnectionsOK
<1>3. \A d \in Clients \ {c} : WireOK(d)'
  BY <1>1, <1>2, WireKept
<1>4. /\ mutex[c] # None /\ toClient[c] = <<>> /\ Tail(toServer[c]) = <<>>
      /\ r.kind \in {"error", req[c][mutex[c]].kind}
  BY WireFacts
<1>5. toServer'[c] = <<>> /\ toClient'[c] = <<r>>
  BY <1>4 DEF TypeInv, DataOK, ConnectionsOK
<1>6. Head(toClient'[c]) = r
  BY <1>5
<1>7. WireOK(c)'
  BY <1>1, <1>4, <1>5, <1>6 DEF WireOK
<1> QED
  BY <1>3, <1>7 DEF ConnectionsOK, TypeInv, DataOK

\* Nothing is on its way on a connection that breaks.
LEMMA EmptyConnection ==
  ASSUME TypeInv, NEW c \in Clients, UNCHANGED posted,
         toServer' = [toServer EXCEPT ![c] = <<>>], toClient' = [toClient EXCEPT ![c] = <<>>],
         \A d \in Clients \ {c} : req'[d] = req[d] /\ mutex'[d] = mutex[d]
  PROVE  ConnectionsOK'
<1>1. \A d \in Clients : ResponsesTo(d) \subseteq ResponsesTo(d)'
  BY DEF ResponsesTo, MailFor
<1>2. \A d \in Clients \ {c} : toServer'[d] = toServer[d] /\ toClient'[d] = toClient[d]
  BY DEF TypeInv, DataOK, ConnectionsOK
<1>3. \A d \in Clients \ {c} : WireOK(d)'
  BY <1>1, <1>2, WireKept
<1>4. toServer'[c] = <<>> /\ toClient'[c] = <<>>
  BY DEF TypeInv, DataOK, ConnectionsOK
<1>5. WireOK(c)'
  BY <1>4 DEF WireOK
<1> QED
  BY <1>3, <1>5 DEF ConnectionsOK, TypeInv, DataOK

\* The two directions of a connection carry one request or one response.
LEMMA ConnectionsStep == TypeInv /\ [Next]_vars => ConnectionsOK'
<1> SUFFICES ASSUME TypeInv, [Next]_vars PROVE ConnectionsOK'
  OBVIOUS
<1>1. ASSUME NEW c \in Clients, AskServer(c) PROVE ConnectionsOK'
  <2>1. /\ pc[c]["main"] \in {"menu"} /\ UNCHANGED <<mutex, toServer, toClient, posted>>
        /\ \A d \in Clients, u \in Threads : d # c \/ u # "main" => req'[d][u] = req[d][u]
    BY <1>1 DEF AskServer, Prepare, net, srv, TypeInv, ControlOK, DataOK, ThreadsOK
  <2> QED
    BY <2>1, ConnectionsKept DEF Threads
<1>2. ASSUME NEW c \in Clients, AskPublicKey(c) PROVE ConnectionsOK'
  <2>1. /\ pc[c]["main"] \in {"menu"} /\ UNCHANGED <<mutex, toServer, toClient, posted>>
        /\ \A d \in Clients, u \in Threads : d # c \/ u # "main" => req'[d][u] = req[d][u]
    BY <1>2 DEF AskPublicKey, Prepare, net, srv, TypeInv, ControlOK, DataOK, ThreadsOK
  <2> QED
    BY <2>1, ConnectionsKept DEF Threads
<1>3. ASSUME NEW c \in Clients, RequestKey(c) PROVE ConnectionsOK'
  <2>1. /\ pc[c]["main"] \in {"menu"} /\ UNCHANGED <<mutex, toServer, toClient, posted>>
        /\ \A d \in Clients, u \in Threads : d # c \/ u # "main" => req'[d][u] = req[d][u]
    BY <1>3 DEF RequestKey, SendCommand, Prepare, net, srv, TypeInv, ControlOK, DataOK, ThreadsOK
  <2> QED
    BY <2>1, ConnectionsKept DEF Threads
<1>4. ASSUME NEW c \in Clients, SendText(c) PROVE ConnectionsOK'
  <2>1. /\ pc[c]["main"] \in {"menu"} /\ UNCHANGED <<mutex, toServer, toClient, posted>>
        /\ \A d \in Clients, u \in Threads : d # c \/ u # "main" => req'[d][u] = req[d][u]
    BY <1>4 DEF SendText, SendCommand, Prepare, net, srv, TypeInv, ControlOK, DataOK, ThreadsOK
  <2> QED
    BY <2>1, ConnectionsKept DEF Threads
<1>5. ASSUME NEW c \in Clients, SendKey(c) PROVE ConnectionsOK'
  <2>1. /\ pc[c]["main"] \in {"menu"} /\ UNCHANGED <<mutex, toServer, toClient, posted>>
        /\ \A d \in Clients, u \in Threads : d # c \/ u # "main" => req'[d][u] = req[d][u]
    BY <1>5 DEF SendKey, SendCommand, Prepare, net, srv, TypeInv, ControlOK, DataOK, ThreadsOK
  <2> QED
    BY <2>1, ConnectionsKept DEF Threads
<1>6. ASSUME NEW c \in Clients, Exit(c) PROVE ConnectionsOK'
  <2>1. /\ pc[c]["main"] \in {"menu"} /\ UNCHANGED <<mutex, toServer, toClient, posted>>
        /\ \A d \in Clients, u \in Threads : d # c \/ u # "main" => req'[d][u] = req[d][u]
    BY <1>6 DEF Exit, net, srv, TypeInv, ControlOK, DataOK, ThreadsOK
  <2> QED
    BY <2>1, ConnectionsKept DEF Threads
<1>7. ASSUME NEW c \in Clients, Join(c) PROVE ConnectionsOK'
  <2>1. /\ pc[c]["main"] \in {"join"} /\ UNCHANGED <<mutex, toServer, toClient, posted>>
        /\ \A d \in Clients, u \in Threads : d # c \/ u # "main" => req'[d][u] = req[d][u]
    BY <1>7 DEF Join, net, srv, TypeInv, ControlOK, DataOK, ThreadsOK
  <2> QED
    BY <2>1, ConnectionsKept DEF Threads
<1>8. ASSUME NEW c \in Clients, Poll(c) PROVE ConnectionsOK'
  <2>1. /\ pc[c]["pull"] \in {"sleep"} /\ UNCHANGED <<mutex, toServer, toClient, posted>>
        /\ \A d \in Clients, u \in Threads : d # c \/ u # "pull" => req'[d][u] = req[d][u]
    BY <1>8 DEF Poll, Prepare, net, srv, TypeInv, ControlOK, DataOK, ThreadsOK
  <2> QED
    BY <2>1, ConnectionsKept DEF Threads
<1>9. ASSUME NEW c \in Clients, StopPolling(c) PROVE ConnectionsOK'
  <2>1. /\ pc[c]["pull"] \in {"sleep"} /\ UNCHANGED <<mutex, toServer, toClient, posted>>
        /\ \A d \in Clients, u \in Threads : d # c \/ u # "pull" => req'[d][u] = req[d][u]
    BY <1>9 DEF StopPolling, net, srv, TypeInv, ControlOK, DataOK, ThreadsOK
  <2> QED
    BY <2>1, ConnectionsKept DEF Threads
<1>10. ASSUME NEW c \in Clients, Serve(c) PROVE ConnectionsOK'
  <2> DEFINE q == Head(toServer[c])
  <2>1. /\ toServer[c] # <<>> /\ q \in RequestsOf(c) /\ UNCHANGED <<req, mutex>>
        /\ toServer' = [toServer EXCEPT ![c] = Tail(@)]
    BY <1>10, WireFacts DEF Serve
  <2>2. posted' \in Nat /\ posted' >= posted
    BY <1>10 DEF Serve, Refuse, LookUp, Fetch, Store, Empty, Post, srv, TypeInv, DataOK, MailboxesOK
  <2>3. CASE Refuse(c, q)
    <3>1. ErrorResponse.kind = "error"
      BY DEF ErrorResponse, Reply
    <3> QED
      BY <2>1, <2>2, <2>3, <3>1, AnswerFacts, Answered DEF Refuse, Answer
  <2>4. CASE LookUp(c, q)
    <3> DEFINE r == Reply(q.kind, q.peer, IF q.kind = "list" THEN Listed(c) ELSE {}, <<>>)
    <3>1. r \in ResponsesTo(c) /\ r.kind = q.kind
      BY <2>1, <2>4, AnswerFacts DEF LookUp, Reply
    <3>2. toClient' = [toClient EXCEPT ![c] = Append(@, r)]
      BY <2>4 DEF LookUp, Answer
    <3> HIDE DEF r
    <3> QED
      BY <2>1, <2>2, <3>1, <3>2, Answered
  <2>5. CASE Fetch(c, q)
    <3> DEFINE r == Reply("waiting", None, {}, box[c])
    <3>1. r \in ResponsesTo(c) /\ r.kind = q.kind
      BY <2>1, <2>5, AnswerFacts DEF Fetch, Reply
    <3>2. toClient' = [toClient EXCEPT ![c] = Append(@, r)]
      BY <2>5 DEF Fetch, Answer
    <3> HIDE DEF r
    <3> QED
      BY <2>1, <2>2, <3>1, <3>2, Answered
  <2>6. CASE Store(c, q)
    <3> DEFINE r == Reply("send", q.peer, {}, <<>>)
    <3>1. r \in ResponsesTo(c) /\ r.kind = q.kind
      BY <2>1, <2>6, AnswerFacts DEF Store, Reply
    <3>2. toClient' = [toClient EXCEPT ![c] = Append(@, r)]
      BY <2>6 DEF Store, Answer
    <3> HIDE DEF r
    <3> QED
      BY <2>1, <2>2, <3>1, <3>2, Answered
  <2> QED
    BY <1>10, <2>3, <2>4, <2>5, <2>6 DEF Serve
<1>11. ASSUME NEW c \in Clients, Break(c) PROVE ConnectionsOK'
  <2>1. /\ toServer' = [toServer EXCEPT ![c] = <<>>] /\ toClient' = [toClient EXCEPT ![c] = <<>>]
        /\ UNCHANGED <<req, mutex, posted>>
    BY <1>11 DEF Break, srv
  <2> QED
    BY <2>1, EmptyConnection
<1>12. ASSUME NEW c \in Clients, Crash(c) PROVE ConnectionsOK'
  <2>1. /\ toServer' = [toServer EXCEPT ![c] = <<>>] /\ toClient' = [toClient EXCEPT ![c] = <<>>]
        /\ UNCHANGED posted
    BY <1>12 DEF Crash, srv
  <2>2. \A d \in Clients \ {c} : req'[d] = req[d] /\ mutex'[d] = mutex[d]
    BY <1>12 DEF Crash, TypeInv, ControlOK, DataOK, ThreadsOK
  <2> QED
    BY <2>1, <2>2, EmptyConnection
<1>13. ASSUME NEW c \in Clients, Restart(c) PROVE ConnectionsOK'
  <2>1. /\ pc[c]["main"] \in {"exited"} /\ UNCHANGED <<mutex, toServer, toClient, posted>>
        /\ \A d \in Clients, u \in Threads : d # c \/ u # "main" => req'[d][u] = req[d][u]
    BY <1>13 DEF Restart, net, srv, TypeInv, ControlOK, DataOK, ThreadsOK
  <2> QED
    BY <2>1, ConnectionsKept DEF Threads
<1>14. ASSUME NEW c \in Clients, NEW t \in Threads, Send(c, t) PROVE ConnectionsOK'
  <2>1. /\ pc[c][t] = "send" /\ mutex[c] = None
        /\ mutex' = [mutex EXCEPT ![c] = t]
        /\ toServer' = [toServer EXCEPT ![c] = Append(@, req[c][t])]
        /\ UNCHANGED <<req, toClient, posted>>
    BY <1>14 DEF Send, MutexFree, srv
  <2>2. toServer[c] = <<>> /\ toClient[c] = <<>>
    BY <2>1, WireFacts
  <2>3. toServer'[c] = <<req[c][t]>> /\ toClient'[c] = <<>> /\ mutex'[c] = t /\ t # None
    BY <2>1, <2>2, NoneAssumption DEF TypeInv, ControlOK, DataOK, ConnectionsOK
  <2>4. WireOK(c)'
    BY <2>1, <2>3 DEF WireOK
  <2>5. \A d \in Clients : ResponsesTo(d) \subseteq ResponsesTo(d)'
    BY <2>1 DEF ResponsesTo, MailFor
  <2>6. \A d \in Clients \ {c} : /\ mutex'[d] = mutex[d]
                                 /\ toServer'[d] = toServer[d] /\ toClient'[d] = toClient[d]
    BY <2>1 DEF TypeInv, ControlOK, DataOK, ConnectionsOK
  <2>7. \A d \in Clients \ {c} : WireOK(d)'
    BY <2>1, <2>5, <2>6, WireKept
  <2> QED
    BY <2>1, <2>4, <2>7 DEF ConnectionsOK, TypeInv, DataOK
<1>15. ASSUME NEW c \in Clients, NEW t \in Threads, Receive(c, t) PROVE ConnectionsOK'
  <2>1. /\ toClient[c] # <<>>
        /\ mutex' = [mutex EXCEPT ![c] = None]
        /\ toClient' = [toClient EXCEPT ![c] = Tail(@)]
        /\ UNCHANGED <<req, toServer, posted>>
    BY <1>15 DEF Receive, srv
  <2>2. toServer[c] = <<>> /\ Tail(toClient[c]) = <<>>
    BY <2>1, WireFacts
  <2>3. toServer'[c] = <<>> /\ toClient'[c] = <<>>
    BY <2>1, <2>2 DEF TypeInv, DataOK, ConnectionsOK
  <2>4. WireOK(c)'
    BY <2>3 DEF WireOK
  <2>5. \A d \in Clients : ResponsesTo(d) \subseteq ResponsesTo(d)'
    BY <2>1 DEF ResponsesTo, MailFor
  <2>6. \A d \in Clients \ {c} : /\ mutex'[d] = mutex[d]
                                 /\ toServer'[d] = toServer[d] /\ toClient'[d] = toClient[d]
    BY <2>1 DEF TypeInv, ControlOK, DataOK, ConnectionsOK
  <2>7. \A d \in Clients \ {c} : WireOK(d)'
    BY <2>1, <2>5, <2>6, WireKept
  <2> QED
    BY <2>1, <2>4, <2>7 DEF ConnectionsOK, TypeInv, DataOK
<1>16. ASSUME NEW c \in Clients, NEW t \in Threads, Fail(c, t) PROVE ConnectionsOK'
  <2>1. /\ broken[c] /\ pc[c][t] \in {"send", "receive"} /\ (pc[c][t] = "send" => mutex[c] = None)
        /\ mutex' = [mutex EXCEPT ![c] = IF @ = t THEN None ELSE @]
        /\ req' = [req EXCEPT ![c][t] = None]
        /\ UNCHANGED <<toServer, toClient, posted>>
    BY <1>16 DEF Fail, MutexFree, Release, srv
  <2>2. toServer[c] = <<>> /\ toClient[c] = <<>>
    BY <2>1 DEF TypeInv, DataOK, BrokenOK
  <2>3. WireOK(c)'
    BY <2>1, <2>2 DEF WireOK
  <2>4. \A d \in Clients : ResponsesTo(d) \subseteq ResponsesTo(d)'
    BY <2>1 DEF ResponsesTo, MailFor
  <2>5. \A d \in Clients \ {c} : mutex'[d] = mutex[d] /\ req'[d] = req[d]
    BY <2>1 DEF TypeInv, ControlOK, DataOK, ThreadsOK
  <2>6. \A d \in Clients \ {c} : WireOK(d)'
    BY <2>1, <2>4, <2>5, WireKept
  <2> QED
    BY <2>1, <2>3, <2>6 DEF ConnectionsOK, TypeInv, DataOK
<1>17. ASSUME NEW c \in Clients, NEW t \in Threads, Finish(c, t) PROVE ConnectionsOK'
  <2>1. /\ pc[c][t] \in {"process"} /\ UNCHANGED <<mutex, toServer, toClient, posted>>
        /\ \A d \in Clients, u \in Threads : d # c \/ u # t => req'[d][u] = req[d][u]
    BY <1>17 DEF Finish, Return, Kind, net, srv, TypeInv, ControlOK, DataOK, ThreadsOK
  <2> QED
    BY <2>1, ConnectionsKept DEF Threads
<1>18. ASSUME NEW c \in Clients, NEW t \in Threads, LearnName(c, t) PROVE ConnectionsOK'
  <2>1. /\ pc[c][t] \in {"process"} /\ UNCHANGED <<mutex, toServer, toClient, posted>>
        /\ \A d \in Clients, u \in Threads : d # c \/ u # t => req'[d][u] = req[d][u]
    BY <1>18 DEF LearnName, Kind, net, srv
  <2> QED
    BY <2>1, ConnectionsKept DEF Threads
<1>19. ASSUME NEW c \in Clients, NEW t \in Threads, Show(c, t) PROVE ConnectionsOK'
  <2>1. /\ pc[c][t] \in {"process"} /\ UNCHANGED <<mutex, toServer, toClient, posted>>
        /\ \A d \in Clients, u \in Threads : d # c \/ u # t => req'[d][u] = req[d][u]
    BY <1>19 DEF Show, Kind, net, srv, TypeInv, ControlOK, DataOK, ThreadsOK
  <2> QED
    BY <2>1, ConnectionsKept DEF Threads
<1>20. ASSUME NEW c \in Clients, NEW t \in Threads, Check(c, t) PROVE ConnectionsOK'
  <2>1. /\ pc[c][t] \in {"process"} /\ UNCHANGED <<mutex, toServer, toClient, posted>>
        /\ \A d \in Clients, u \in Threads : d # c \/ u # t => req'[d][u] = req[d][u]
    BY <1>20 DEF Check, Kind, net, srv, TypeInv, ControlOK, DataOK, ThreadsOK
  <2> QED
    BY <2>1, ConnectionsKept DEF Threads
<1>21. ASSUME NEW c \in Clients, NEW t \in Threads, Base(c, t) PROVE ConnectionsOK'
  <2>1. /\ pc[c][t] \in {"base"} /\ UNCHANGED <<mutex, toServer, toClient, posted>>
        /\ \A d \in Clients, u \in Threads : d # c \/ u # t => req'[d][u] = req[d][u]
    BY <1>21 DEF Base, net, srv, TypeInv, ControlOK, DataOK, ThreadsOK
  <2> QED
    BY <2>1, ConnectionsKept DEF Threads
<1>22. ASSUME NEW c \in Clients, NEW t \in Threads, StorePublicKey(c, t) PROVE ConnectionsOK'
  <2>1. /\ pc[c][t] \in {"store"} /\ UNCHANGED <<mutex, toServer, toClient, posted>>
        /\ \A d \in Clients, u \in Threads : d # c \/ u # t => req'[d][u] = req[d][u]
    BY <1>22 DEF StorePublicKey, Return, net, srv, TypeInv, ControlOK, DataOK, ThreadsOK
  <2> QED
    BY <2>1, ConnectionsKept DEF Threads
<1>23. ASSUME NEW c \in Clients, NEW t \in Threads, StoreSymmetricKey(c, t) PROVE ConnectionsOK'
  <2>1. /\ pc[c][t] \in {"store"} /\ UNCHANGED <<mutex, toServer, toClient, posted>>
        /\ \A d \in Clients, u \in Threads : d # c \/ u # t => req'[d][u] = req[d][u]
    BY <1>23 DEF StoreSymmetricKey, net, srv, TypeInv, ControlOK, DataOK, ThreadsOK
  <2> QED
    BY <2>1, ConnectionsKept DEF Threads
<1>24. ASSUME NEW c \in Clients, NEW s \in Slots, ServeLeftover(c, s) PROVE ConnectionsOK'
  <2>1. /\ UNCHANGED <<req, mutex, toServer, toClient>>
        /\ posted' = posted \/ posted' = posted + 1
    BY <1>24 DEF ServeLeftover, Empty, Post, net, srv
  <2>2. posted \in Nat /\ posted' \in Nat /\ posted' >= posted
    BY <2>1 DEF TypeInv, DataOK, MailboxesOK
  <2>3. \A d \in Clients : ResponsesTo(d) \subseteq ResponsesTo(d)'
    BY <2>2, PostedGrows
  <2> QED
    BY <2>1, <2>3, WireKept DEF ConnectionsOK, TypeInv, DataOK
<1>25. CASE UNCHANGED vars
  <2>1. \A d \in Clients : ResponsesTo(d) \subseteq ResponsesTo(d)'
    BY <1>25 DEF ResponsesTo, MailFor, vars, srv
  <2> QED
    BY <1>25, <2>1, WireKept DEF vars, net, ConnectionsOK, TypeInv, DataOK
<1> QED
  BY <1>1, <1>2, <1>3, <1>4, <1>5, <1>6, <1>7, <1>8, <1>9, <1>10, <1>11, <1>12, <1>13, <1>14,
     <1>15, <1>16, <1>17, <1>18, <1>19, <1>20, <1>21, <1>22, <1>23, <1>24, <1>25 DEF Next, Menu, Process

\* Nothing is sent on a connection that is broken.
LEMMA BrokenStep == TypeInv /\ [Next]_vars => BrokenOK'
<1> SUFFICES ASSUME TypeInv, [Next]_vars PROVE BrokenOK'
  OBVIOUS
<1>0. /\ DOMAIN toServer = Clients /\ DOMAIN toClient = Clients
      /\ broken \in [Clients -> BOOLEAN]
      /\ \A c \in Clients : broken[c] => toServer[c] = <<>> /\ toClient[c] = <<>>
  BY DEF TypeInv, ControlOK, DataOK, ConnectionsOK, BrokenOK
<1> USE <1>0 DEF BrokenOK
<1>1. ASSUME NEW c \in Clients, AskServer(c) PROVE BrokenOK'
  BY <1>1 DEF AskServer, net
<1>2. ASSUME NEW c \in Clients, AskPublicKey(c) PROVE BrokenOK'
  BY <1>2 DEF AskPublicKey, net
<1>3. ASSUME NEW c \in Clients, RequestKey(c) PROVE BrokenOK'
  BY <1>3 DEF RequestKey, SendCommand, net
<1>4. ASSUME NEW c \in Clients, SendText(c) PROVE BrokenOK'
  BY <1>4 DEF SendText, SendCommand, net
<1>5. ASSUME NEW c \in Clients, SendKey(c) PROVE BrokenOK'
  BY <1>5 DEF SendKey, SendCommand, net
<1>6. ASSUME NEW c \in Clients, Exit(c) PROVE BrokenOK'
  BY <1>6 DEF Exit, net
<1>7. ASSUME NEW c \in Clients, Join(c) PROVE BrokenOK'
  BY <1>7 DEF Join, net
<1>8. ASSUME NEW c \in Clients, Poll(c) PROVE BrokenOK'
  BY <1>8 DEF Poll, net
<1>9. ASSUME NEW c \in Clients, StopPolling(c) PROVE BrokenOK'
  BY <1>9 DEF StopPolling, net
<1>10. ASSUME NEW c \in Clients, Serve(c) PROVE BrokenOK'
  <2>1. toServer[c] # <<>> /\ UNCHANGED broken /\ toServer' = [toServer EXCEPT ![c] = Tail(@)]
    BY <1>10 DEF Serve
  <2>2. \A d \in Clients \ {c} : toClient'[d] = toClient[d]
    BY <1>10 DEF Serve, Refuse, LookUp, Fetch, Store, Answer
  <2> QED
    BY <2>1, <2>2
<1>11. ASSUME NEW c \in Clients, Break(c) PROVE BrokenOK'
  BY <1>11 DEF Break, net
<1>12. ASSUME NEW c \in Clients, Crash(c) PROVE BrokenOK'
  BY <1>12 DEF Crash, net
<1>13. ASSUME NEW c \in Clients, Restart(c) PROVE BrokenOK'
  BY <1>13 DEF Restart, net
<1>14. ASSUME NEW c \in Clients, NEW t \in Threads, Send(c, t) PROVE BrokenOK'
  <2>1. ~broken[c] /\ UNCHANGED <<broken, toClient>>
        /\ toServer' = [toServer EXCEPT ![c] = Append(@, req[c][t])]
    BY <1>14 DEF Send
  <2> QED
    BY <2>1
<1>15. ASSUME NEW c \in Clients, NEW t \in Threads, Receive(c, t) PROVE BrokenOK'
  <2>1. toClient[c] # <<>> /\ UNCHANGED <<broken, toServer>>
        /\ toClient' = [toClient EXCEPT ![c] = Tail(@)]
    BY <1>15 DEF Receive
  <2> QED
    BY <2>1
<1>16. ASSUME NEW c \in Clients, NEW t \in Threads, Fail(c, t) PROVE BrokenOK'
  BY <1>16, Zenon DEF Fail
<1>17. ASSUME NEW c \in Clients, NEW t \in Threads, Finish(c, t) PROVE BrokenOK'
  BY <1>17, Zenon DEF Finish, net
<1>18. ASSUME NEW c \in Clients, NEW t \in Threads, LearnName(c, t) PROVE BrokenOK'
  BY <1>18, Zenon DEF LearnName, net
<1>19. ASSUME NEW c \in Clients, NEW t \in Threads, Show(c, t) PROVE BrokenOK'
  BY <1>19 DEF Show, net
<1>20. ASSUME NEW c \in Clients, NEW t \in Threads, Check(c, t) PROVE BrokenOK'
  BY <1>20 DEF Check, net
<1>21. ASSUME NEW c \in Clients, NEW t \in Threads, Base(c, t) PROVE BrokenOK'
  BY <1>21 DEF Base, net
<1>22. ASSUME NEW c \in Clients, NEW t \in Threads, StorePublicKey(c, t) PROVE BrokenOK'
  BY <1>22 DEF StorePublicKey, net
<1>23. ASSUME NEW c \in Clients, NEW t \in Threads, StoreSymmetricKey(c, t) PROVE BrokenOK'
  BY <1>23 DEF StoreSymmetricKey, net
<1>24. ASSUME NEW c \in Clients, NEW s \in Slots, ServeLeftover(c, s) PROVE BrokenOK'
  BY <1>24 DEF ServeLeftover, net
<1>25. CASE UNCHANGED vars
  BY <1>25 DEF vars, net
<1> QED
  BY <1>1, <1>2, <1>3, <1>4, <1>5, <1>6, <1>7, <1>8, <1>9, <1>10, <1>11, <1>12, <1>13, <1>14,
     <1>15, <1>16, <1>17, <1>18, <1>19, <1>20, <1>21, <1>22, <1>23, <1>24, <1>25 DEF Next, Menu, Process

\* Nothing is stored: a mailbox is left alone or emptied.
LEMMA MailboxesKept ==
  ASSUME TypeInv, UNCHANGED posted,
         \/ UNCHANGED box
         \/ \E c \in Clients : box' = [box EXCEPT ![c] = <<>>],
         \/ UNCHANGED <<handled, dropped>>
         \/ /\ UNCHANGED dropped
            /\ \E c \in Clients, n \in 1..posted : handled' = [handled EXCEPT ![c] = @ \cup {n}]
         \/ /\ UNCHANGED handled
            /\ \E c \in Clients, N \in SUBSET (1..posted) :
                 dropped' = [dropped EXCEPT ![c] = @ \cup N]
  PROVE  MailboxesOK'
<1>1. MailboxesOK
  BY DEF TypeInv, DataOK
<1>2. \A c \in Clients : UNCHANGED MailFor(c)
  BY DEF MailFor
<1>3. DOMAIN box' = Clients /\ \A c \in Clients : box'[c] = box[c] \/ box'[c] = <<>>
  BY <1>1 DEF MailboxesOK
<1>4. \A c \in Clients : box'[c] \in Seq(MailFor(c)')
  <2> SUFFICES ASSUME NEW c \in Clients PROVE box'[c] \in Seq(MailFor(c)')
    OBVIOUS
  <2>1. box[c] \in Seq(MailFor(c)) /\ <<>> \in Seq(MailFor(c)) /\ MailFor(c)' = MailFor(c)
    BY <1>1, <1>2 DEF MailboxesOK
  <2> HIDE DEF MailboxesOK
  <2> QED
    BY <1>3, <2>1
<1>5. /\ DOMAIN handled' = Clients /\ DOMAIN dropped' = Clients
      /\ \A c \in Clients : handled'[c] \subseteq 1..posted /\ dropped'[c] \subseteq 1..posted
  <2>1. CASE UNCHANGED <<handled, dropped>>
    BY <1>1, <2>1 DEF MailboxesOK
  <2>2. ASSUME NEW d \in Clients, NEW n \in 1..posted,
               UNCHANGED dropped, handled' = [handled EXCEPT ![d] = @ \cup {n}]
        PROVE  /\ DOMAIN handled' = Clients /\ DOMAIN dropped' = Clients
               /\ \A c \in Clients : handled'[c] \subseteq 1..posted /\ dropped'[c] \subseteq 1..posted
    BY <1>1, <2>2 DEF MailboxesOK
  <2>3. ASSUME NEW d \in Clients, NEW N \in SUBSET (1..posted),
               UNCHANGED handled, dropped' = [dropped EXCEPT ![d] = @ \cup N]
        PROVE  /\ DOMAIN handled' = Clients /\ DOMAIN dropped' = Clients
               /\ \A c \in Clients : handled'[c] \subseteq 1..posted /\ dropped'[c] \subseteq 1..posted
    BY <1>1, <2>3 DEF MailboxesOK
  <2> QED
    BY <2>1, <2>2, <2>3
<1> QED
  BY <1>1, <1>3, <1>4, <1>5 DEF MailboxesOK

\* The server numbers the messages it stores.
LEMMA MailboxPosted ==
  ASSUME TypeInv, NEW c \in Clients, NEW q \in RequestsOf(c), q.kind = "send", Post(c, q),
         UNCHANGED <<handled, dropped>>
  PROVE  MailboxesOK'
<1> DEFINE m == NewMessage(c, q)
<1>1. posted' = posted + 1 /\ box' = [box EXCEPT ![q.peer] = Append(@, m)]
  BY DEF Post
<1>2. /\ q.peer \in Clients \ {c}
      /\ q.content \in Content /\ (q.content.type = "sendKey" => q.content.key \in Key)
  BY DEF RequestsOf
<1>3. posted \in Nat
  BY DEF TypeInv, DataOK, MailboxesOK
<1>4. m \in MailFor(q.peer)'
  BY <1>1, <1>2, <1>3 DEF NewMessage, MailFor, Message, Content
<1>5. \A d \in Clients : box[d] \in Seq(MailFor(d)')
  <2>1. \A d \in Clients : MailFor(d) \subseteq MailFor(d)'
    BY <1>1, <1>3, PostedGrows
  <2> QED
    BY <2>1 DEF TypeInv, DataOK, MailboxesOK
<1> HIDE DEF m
<1>6. \A d \in Clients : box'[d] \in Seq(MailFor(d)')
  <2> SUFFICES ASSUME NEW d \in Clients PROVE box'[d] \in Seq(MailFor(d)')
    OBVIOUS
  <2>1. box'[d] = IF d = q.peer THEN Append(box[d], m) ELSE box[d]
    BY <1>1 DEF TypeInv, DataOK, MailboxesOK
  <2>2. Append(box[q.peer], m) \in Seq(MailFor(q.peer)')
    BY <1>2, <1>4, <1>5, ListFacts
  <2> QED
    BY <2>1, <2>2, <1>5
<1>7. DOMAIN box' = Clients
  BY <1>1 DEF TypeInv, DataOK, MailboxesOK
<1> QED
  BY <1>1, <1>3, <1>6, <1>7 DEF TypeInv, DataOK, MailboxesOK

\* Only messages that were stored are processed or lost.
LEMMA MailboxesStep == TypeInv /\ [Next]_vars => MailboxesOK'
<1> SUFFICES ASSUME TypeInv, [Next]_vars PROVE MailboxesOK'
  OBVIOUS
<1>1. ASSUME NEW c \in Clients, AskServer(c) PROVE MailboxesOK'
  BY <1>1, MailboxesKept DEF AskServer, srv, hist
<1>2. ASSUME NEW c \in Clients, AskPublicKey(c) PROVE MailboxesOK'
  BY <1>2, MailboxesKept DEF AskPublicKey, srv, hist
<1>3. ASSUME NEW c \in Clients, RequestKey(c) PROVE MailboxesOK'
  BY <1>3, MailboxesKept DEF RequestKey, SendCommand, srv, hist
<1>4. ASSUME NEW c \in Clients, SendText(c) PROVE MailboxesOK'
  BY <1>4, MailboxesKept DEF SendText, SendCommand, srv, hist
<1>5. ASSUME NEW c \in Clients, SendKey(c) PROVE MailboxesOK'
  BY <1>5, MailboxesKept DEF SendKey, SendCommand, srv, hist
<1>6. ASSUME NEW c \in Clients, Exit(c) PROVE MailboxesOK'
  BY <1>6, MailboxesKept DEF Exit, srv, hist
<1>7. ASSUME NEW c \in Clients, Join(c) PROVE MailboxesOK'
  BY <1>7, MailboxesKept DEF Join, srv, hist
<1>8. ASSUME NEW c \in Clients, Poll(c) PROVE MailboxesOK'
  BY <1>8, MailboxesKept DEF Poll, srv, hist
<1>9. ASSUME NEW c \in Clients, StopPolling(c) PROVE MailboxesOK'
  BY <1>9, MailboxesKept DEF StopPolling, srv, hist
<1>10. ASSUME NEW c \in Clients, Serve(c) PROVE MailboxesOK'
  <2>1. toServer[c] # <<>> /\ UNCHANGED <<handled, dropped>>
    BY <1>10 DEF Serve
  <2>2. PICK q \in RequestsOf(c) : q = Head(toServer[c])
    BY <2>1, WireFacts
  <2>3. CASE Refuse(c, q) \/ LookUp(c, q)
    BY <2>1, <2>3, MailboxesKept DEF Refuse, LookUp, srv
  <2>4. CASE Fetch(c, q)
    BY <2>1, <2>4, MailboxesKept DEF Fetch, Empty, Left
  <2>5. CASE Store(c, q)
    BY <2>1, <2>5, MailboxPosted DEF Store
  <2> QED
    BY <1>10, <2>2, <2>3, <2>4, <2>5 DEF Serve
<1>11. ASSUME NEW c \in Clients, Break(c) PROVE MailboxesOK'
  <2>1. /\ UNCHANGED <<box, posted, handled>>
        /\ dropped' = [dropped EXCEPT ![c] = @ \cup Numbers(OnTheWay(c))]
    BY <1>11 DEF Break, srv
  <2>2. Numbers(OnTheWay(c)) \subseteq 1..posted
    BY LostFacts, MailFacts
  <2> QED
    BY <2>1, <2>2, MailboxesKept
<1>12. ASSUME NEW c \in Clients, Crash(c) PROVE MailboxesOK'
  <2> DEFINE lost == OnTheWay(c) \cup Pending(c, "main") \cup Pending(c, "pull")
  <2>1. /\ UNCHANGED <<box, posted, handled>>
        /\ dropped' = [dropped EXCEPT ![c] = @ \cup Numbers(lost)]
    BY <1>12 DEF Crash, srv
  <2>2. lost \subseteq MailFor(c)
    BY LostFacts DEF Threads
  <2> HIDE DEF lost
  <2>3. Numbers(lost) \subseteq 1..posted
    BY <2>2, MailFacts
  <2> QED
    BY <2>1, <2>3, MailboxesKept
<1>13. ASSUME NEW c \in Clients, Restart(c) PROVE MailboxesOK'
  BY <1>13, MailboxesKept DEF Restart, srv, hist
<1>14. ASSUME NEW c \in Clients, NEW t \in Threads, Send(c, t) PROVE MailboxesOK'
  BY <1>14, MailboxesKept DEF Send, srv, hist
<1>15. ASSUME NEW c \in Clients, NEW t \in Threads, Receive(c, t) PROVE MailboxesOK'
  BY <1>15, MailboxesKept DEF Receive, srv, hist
<1>16. ASSUME NEW c \in Clients, NEW t \in Threads, Fail(c, t) PROVE MailboxesOK'
  BY <1>16, Zenon, MailboxesKept DEF Fail, srv, hist
<1>17. ASSUME NEW c \in Clients, NEW t \in Threads, Finish(c, t) PROVE MailboxesOK'
  BY <1>17, Zenon, MailboxesKept DEF Finish, srv, hist
<1>18. ASSUME NEW c \in Clients, NEW t \in Threads, LearnName(c, t) PROVE MailboxesOK'
  BY <1>18, Zenon, MailboxesKept DEF LearnName, srv, hist
<1>19. ASSUME NEW c \in Clients, NEW t \in Threads, Show(c, t) PROVE MailboxesOK'
  <2>1. /\ UNCHANGED <<box, posted, dropped>> /\ pc[c][t] \in Under
        /\ handled' = [handled EXCEPT ![c] = @ \cup {Head(rsp[c][t].msgs).no}]
    BY <1>19 DEF Show, Advance, Kind, Under, srv
  <2>2. rsp[c][t].msgs # <<>>
    BY <1>19 DEF Show, TypeInv, DataOK, ThreadsOK, ThreadOK
  <2>3. rsp[c][t] \in ResponsesTo(c)
    BY <2>1 DEF TypeInv, DataOK, ThreadsOK, ThreadOK
  <2>4. Head(rsp[c][t].msgs) \in MailFor(c)
    BY <2>2, <2>3, ListFacts DEF ResponsesTo
  <2>5. Head(rsp[c][t].msgs).no \in 1..posted
    BY <2>4 DEF MailFor
  <2> QED
    BY <2>1, <2>5, MailboxesKept
<1>20. ASSUME NEW c \in Clients, NEW t \in Threads, Check(c, t) PROVE MailboxesOK'
  BY <1>20, MailboxesKept DEF Check, srv, hist
<1>21. ASSUME NEW c \in Clients, NEW t \in Threads, Base(c, t) PROVE MailboxesOK'
  BY <1>21, MailboxesKept DEF Base, srv, hist
<1>22. ASSUME NEW c \in Clients, NEW t \in Threads, StorePublicKey(c, t) PROVE MailboxesOK'
  BY <1>22, MailboxesKept DEF StorePublicKey, srv, hist
<1>23. ASSUME NEW c \in Clients, NEW t \in Threads, StoreSymmetricKey(c, t) PROVE MailboxesOK'
  <2>1. /\ UNCHANGED <<box, posted, dropped>> /\ pc[c][t] \in Under
        /\ handled' = [handled EXCEPT ![c] = @ \cup {Head(rsp[c][t].msgs).no}]
    BY <1>23 DEF StoreSymmetricKey, Advance, Under, srv
  <2>2. rsp[c][t].msgs # <<>>
    BY <1>23 DEF StoreSymmetricKey, TypeInv, DataOK, ThreadsOK, ThreadOK
  <2>3. rsp[c][t] \in ResponsesTo(c)
    BY <2>1 DEF TypeInv, DataOK, ThreadsOK, ThreadOK
  <2>4. Head(rsp[c][t].msgs) \in MailFor(c)
    BY <2>2, <2>3, ListFacts DEF ResponsesTo
  <2>5. Head(rsp[c][t].msgs).no \in 1..posted
    BY <2>4 DEF MailFor
  <2> QED
    BY <2>1, <2>5, MailboxesKept
<1>24. ASSUME NEW c \in Clients, NEW s \in Slots, ServeLeftover(c, s) PROVE MailboxesOK'
  <2>1. PICK q \in RequestsOf(c) : q = leftover[c][s]
    BY <1>24 DEF ServeLeftover, TypeInv, LeftoverOK
  <2>2. UNCHANGED handled
    BY <1>24 DEF ServeLeftover
  <2>3. CASE UNCHANGED <<srv, dropped>>
    BY <2>2, <2>3, MailboxesKept DEF srv
  <2>4. CASE Empty(c) /\ dropped' = [dropped EXCEPT ![c] = @ \cup Numbers(ToSet(box[c]))]
    <3>1. ToSet(box[c]) \subseteq MailFor(c)
      BY ListFacts DEF TypeInv, DataOK, MailboxesOK
    <3>2. Numbers(ToSet(box[c])) \subseteq 1..posted
      BY <3>1, MailFacts
    <3> QED
      BY <2>2, <2>4, <3>2, MailboxesKept DEF Empty, Left
  <2>5. CASE q.kind = "send" /\ Post(c, q) /\ UNCHANGED dropped
    BY <2>2, <2>5, MailboxPosted
  <2> QED
    BY <1>24, <2>1, <2>3, <2>4, <2>5 DEF ServeLeftover
<1>25. CASE UNCHANGED vars
  BY <1>25, MailboxesKept DEF vars, srv, hist
<1> QED
  BY <1>1, <1>2, <1>3, <1>4, <1>5, <1>6, <1>7, <1>8, <1>9, <1>10, <1>11, <1>12, <1>13, <1>14,
     <1>15, <1>16, <1>17, <1>18, <1>19, <1>20, <1>21, <1>22, <1>23, <1>24, <1>25 DEF Next, Menu, Process

LEMMA TypeInvariant == Spec => []TypeInv
<1>1. ASSUME Init PROVE TypeInv
  <2> USE <1>1 DEF Init
  <2>1. ControlOK
    BY NoneAssumption DEF ControlOK, Steps, Threads, Home
  <2>2. ThreadsOK
    BY DEF ThreadsOK, ThreadOK, Threads, Home, Under
  <2>3. ConnectionsOK /\ BrokenOK
    BY DEF ConnectionsOK, BrokenOK, WireOK
  <2>4. MailboxesOK
    BY DEF MailboxesOK
  <2>5. FriendsOK
    <3>1. NoFriends \in [Clients -> Friend]
      BY DEF NoFriends, Friend
    <3>2. \A c, d \in Clients : EntryOK(c, d, NoFriends[d])
      BY <3>1 DEF NoFriends, EntryOK
    <3> QED
      BY <3>1, <3>2 DEF FriendsOK
  <2>6. KeysOK /\ LeftoverOK
    BY ClientsAssumption DEF KeysOK, LeftoverOK
  <2> QED
    BY <2>1, <2>2, <2>3, <2>4, <2>5, <2>6 DEF TypeInv, DataOK
<1>2. TypeInv /\ [Next]_vars => TypeInv'
  BY ControlStep, ThreadsStep, ConnectionsStep, BrokenStep, MailboxesStep, LeftoverStep,
     FriendsStep, KeysStep
     DEF TypeInv, DataOK
<1> QED
  BY <1>1, <1>2, PTL DEF Spec

-----------------------------------------------------------------------------
(* Responses and messages *)

\* A thread never gets the answer to the other thread's request, although
\* responses carry no request number: sendAndReceive holds _connMutex until the
\* response is there, and a connection that breaks under it is never used again.
THEOREM ResponsesMatch == Spec => []ResponseMatchesRequest
<1>1. TypeInv => ResponseMatchesRequest
  BY DEF TypeInv, DataOK, ThreadsOK, ThreadOK, ResponseMatchesRequest
<1> QED
  BY <1>1, TypeInvariant, PTL

\* The variables per client are functions on the clients.
FunctionsOK ==
  /\ friends = [c \in Clients |-> friends[c]] /\ box = [c \in Clients |-> box[c]]
  /\ toServer = [c \in Clients |-> toServer[c]] /\ toClient = [c \in Clients |-> toClient[c]]

LEMMA FunctionsInvariant == Spec => []FunctionsOK
<1>1. Init => FunctionsOK
  BY DEF Init, FunctionsOK
<1>2. ASSUME FunctionsOK, [Next]_vars PROVE FunctionsOK'
  <2> USE FunctionsOK DEF FunctionsOK, net, srv, hist
  <2>1. ASSUME NEW c \in Clients, Menu(c) PROVE FunctionsOK'
    BY <2>1 DEF Menu, AskServer, AskPublicKey, RequestKey, SendText, SendKey, SendCommand, Exit
  <2>2. ASSUME NEW c \in Clients, Join(c) \/ Poll(c) \/ StopPolling(c) \/ Restart(c)
        PROVE  FunctionsOK'
    BY <2>2 DEF Join, Forget, Poll, StopPolling, Restart
  <2>3. ASSUME NEW c \in Clients, Break(c) \/ Crash(c) PROVE FunctionsOK'
    BY <2>3 DEF Break, Crash, Forget
  <2>4. ASSUME NEW c \in Clients, Serve(c) PROVE FunctionsOK'
    BY <2>4 DEF Serve, Refuse, LookUp, Fetch, Store, Answer, Empty, Post
  <2>5. ASSUME NEW c \in Clients, NEW t \in Threads, Send(c, t) \/ Receive(c, t) \/ Fail(c, t)
        PROVE  FunctionsOK'
    BY <2>5 DEF Send, Receive, Fail
  <2>6. ASSUME NEW c \in Clients, NEW s \in Slots, ServeLeftover(c, s) PROVE FunctionsOK'
    BY <2>6 DEF ServeLeftover, Empty, Post
  <2>7. ASSUME NEW c \in Clients, NEW t \in Threads, Process(c, t) PROVE FunctionsOK'
    BY <2>7 DEF Process, Finish, LearnName, Show, Check, Base, StorePublicKey, StoreSymmetricKey
  <2>8. CASE UNCHANGED vars
    BY <2>8 DEF vars
  <2> QED
    BY <1>2, <2>1, <2>2, <2>3, <2>4, <2>5, <2>6, <2>7, <2>8 DEF Next
<1> QED
  BY <1>1, <1>2, PTL DEF Spec

\* The clients' caches, threads and connections and the server's mailboxes have
\* their types, and a friend with a name or a key has an entry.
THEOREM TypeCorrect == Spec => []TypeOK
<1>1. ASSUME TypeInv, FunctionsOK PROVE TypeOK
  <2> USE <1>1, ClientsAssumption DEF TypeInv, DataOK
  <2>1. posted \in Nat /\ leftover \in [Clients -> [Slots -> Request \cup {None}]]
    BY DEF MailboxesOK, LeftoverOK
  <2>2. friends \in [Clients -> [Clients -> Friend]]
    BY DEF FriendsOK, FunctionsOK
  <2>3. \A c, d \in Clients :
          (friends[c][d].named \/ friends[c][d].pub \/ friends[c][d].sym # None)
            => friends[c][d].known /\ c # d
    BY DEF FriendsOK, EntryOK, Friend
  <2>4. toServer \in [Clients -> Seq(Request)] /\ toClient \in [Clients -> Seq(Response)]
    <3>1. \A c \in Clients : /\ toServer[c] = <<>> \/ \E q \in Request : toServer[c] = <<q>>
                             /\ toClient[c] = <<>> \/ \E r \in Response : toClient[c] = <<r>>
      BY WireFacts DEF ConnectionsOK, WireOK, RequestsOf, ResponsesTo
    <3>2. \A c \in Clients : toServer[c] \in Seq(Request) /\ toClient[c] \in Seq(Response)
      <4>1. <<>> \in Seq(Request) /\ <<>> \in Seq(Response)
        OBVIOUS
      <4>2. (\A q \in Request : <<q>> \in Seq(Request)) /\ \A r \in Response : <<r>> \in Seq(Response)
        OBVIOUS
      <4> QED
        BY <3>1, <4>1, <4>2
    <3> QED
      BY <3>2 DEF FunctionsOK
  <2>5. box \in [Clients -> Seq(Message)]
    <3>1. \A c \in Clients : MailFor(c) \subseteq Message
      BY DEF MailFor
    <3>2. \A c \in Clients : box[c] \in Seq(Message)
      BY <3>1 DEF MailboxesOK
    <3> QED
      BY <3>2 DEF FunctionsOK
  <2>6. pc \in [Clients -> [Threads -> Steps]] /\ mutex \in [Clients -> Threads \cup {None}]
        /\ broken \in [Clients -> BOOLEAN] /\ stop \in [Clients -> BOOLEAN]
    BY DEF ControlOK
  <2>7. \A c \in Clients : handled[c] \subseteq 1..posted /\ dropped[c] \subseteq 1..posted
    BY DEF MailboxesOK
  <2> QED
    BY <2>1, <2>2, <2>3, <2>4, <2>5, <2>6, <2>7 DEF TypeOK, ThreadsOK, KeysOK
<1> QED
  BY <1>1, TypeInvariant, FunctionsInvariant, PTL
=============================================================================
