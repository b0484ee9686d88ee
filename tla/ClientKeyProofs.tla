--------------------------- MODULE ClientKeyProofs ---------------------------
(***************************************************************************)
(* Proofs about the keys of module Client, whoever sends keys, polls, is   *)
(* killed and started again, and whatever is lost or served late: a text   *)
(* that finds another key than its own in the cache of its receiver has    *)
(* crossed a key of the receiver's, and friends at rest have the same key, *)
(* unless a key was refused, lost or forgotten.                            *)
(***************************************************************************)
EXTENDS ClientMailProofs

-----------------------------------------------------------------------------
(* The messages that c has yet to process *)

Mail(c) == ToSet(InHand(c, "main")) \cup ToSet(InHand(c, "pull")) \cup ToSet(Carried(c))
             \cup ToSet(box[c])
MailsKept(S) == \A d \in S : Mail(d)' = Mail(d)

LEMMA MailTypes ==
  ASSUME TypeInv, NEW c \in Clients
  PROVE  Mail(c) \subseteq MailFor(c)
<1>1. /\ InHand(c, "main") \in Seq(MailFor(c)) /\ InHand(c, "pull") \in Seq(MailFor(c))
      /\ Carried(c) \in Seq(MailFor(c)) /\ box[c] \in Seq(MailFor(c))
  BY Lists DEF Threads, TypeInv, DataOK, MailboxesOK
<1> QED
  BY <1>1, ListFacts DEF Mail

LEMMA MailsUntouched ==
  ASSUME UNCHANGED <<rsp, toClient, box>>
  PROVE  MailsKept(Clients)
BY DEF MailsKept, Mail, InHand, Carried

\* Mail changes when a message for c is stored, processed or lost.
LEMMA MailKept ==
  ASSUME TypeInv, NEW c \in Clients,
         \/ Still
         \/ \E d \in Clients :
              \/ Fetched(d) \/ (\E t \in Threads : Received(d, t))
              \/ d # c /\ (Stored(d) \/ Taken(d) \/ Lost(d) \/ \E t \in Threads : Processed(d, t))
  PROVE  Mail(c)' = Mail(c)
<1> USE DEF Mail, srv
<1>1. DOMAIN box = Clients /\ Threads = {"main", "pull"}
  BY DEF TypeInv, DataOK, MailboxesOK, Threads
<1>2. ToSet(<<>>) = {}
  BY DEF ToSet
<1>3. Untouched(c) /\ box'[c] = box[c] => Mail(c)' = Mail(c)
  BY <1>1 DEF Untouched
<1>4. CASE Still
  BY <1>3, <1>4 DEF Still
<1>5. ASSUME NEW d \in Clients, d # c,
             \/ Stored(d) \/ Fetched(d) \/ Taken(d) \/ Lost(d)
             \/ \E t \in Threads : Received(d, t) \/ Processed(d, t)
      PROVE  Mail(c)' = Mail(c)
  <2>1. Untouched(c)
    BY <1>5 DEF Stored, Fetched, Taken, Lost, Received, Processed, OthersUntouched
  <2>2. box'[c] = box[c]
    BY <1>1, <1>5 DEF Stored, Fetched, Taken, Lost, Received, Processed
  <2> QED
    BY <1>3, <2>1, <2>2
<1>6. CASE Fetched(c)
  <2>1. /\ Carried(c)' = box[c] /\ box'[c] = <<>> /\ Carried(c) = <<>>
        /\ InHand(c, "main")' = InHand(c, "main") /\ InHand(c, "pull")' = InHand(c, "pull")
    BY <1>1, <1>6 DEF Fetched
  <2> QED
    BY <1>2, <2>1
<1>7. ASSUME NEW t \in Threads, Received(c, t) PROVE Mail(c)' = Mail(c)
  <2>1. /\ InHand(c, t) = <<>> /\ InHand(c, t)' = Carried(c) /\ Carried(c)' = <<>>
        /\ box'[c] = box[c] /\ \A u \in Threads \ {t} : InHand(c, u)' = InHand(c, u)
    BY <1>7, HandFree DEF Received
  <2> QED
    BY <1>1, <1>2, <2>1
<1> QED
  BY <1>4, <1>5, <1>6, <1>7

LEMMA MailStored ==
  ASSUME TypeInv, NEW c \in Clients, NEW m \in Message,
         box' = [box EXCEPT ![c] = Append(@, m)], \A d \in Clients : Untouched(d)
  PROVE  /\ Mail(c)' = Mail(c) \cup {m}
         /\ \A d \in Clients \ {c} : Mail(d)' = Mail(d)
<1>1. box'[c] = Append(box[c], m) /\ \A d \in Clients \ {c} : box'[d] = box[d]
  BY DEF TypeInv, DataOK, MailboxesOK
<1>2. ToSet(box'[c]) = ToSet(box[c]) \cup {m}
  BY <1>1, MessageLists, ListFacts
<1> QED
  BY <1>1, <1>2 DEF Mail, Untouched, Threads

\* The message that is processed is the oldest one, unless both threads have
\* had messages in hand.
LEMMA MailProcessed ==
  ASSUME TypeInv, OrderOK, NEW c \in Clients, NEW t \in Threads, Processed(c, t),
         NEW h, h = Head(InHand(c, t))
  PROVE  /\ h \in Mail(c) /\ Mail(c)' \subseteq Mail(c) /\ Mail(c) \subseteq Mail(c)' \cup {h}
         /\ c \notin mixed => \A m \in Mail(c)' : h.no < m.no
<1>1. /\ InHand(c, t) # <<>> /\ InHand(c, t)' = Tail(InHand(c, t))
      /\ \A u \in Threads \ {t} : InHand(c, u)' = InHand(c, u)
      /\ Carried(c)' = Carried(c) /\ box'[c] = box[c]
  BY DEF Processed, srv
<1>2. InHand(c, t) \in Seq(Message) /\ ToSet(<<>>) = {} /\ Threads = {"main", "pull"}
  BY MessageLists DEF Threads, ToSet
<1>3. h \in Message /\ ToSet(InHand(c, t)) = {h} \cup ToSet(Tail(InHand(c, t)))
  BY <1>1, <1>2, ListFacts
<1>4. ASSUME c \notin mixed, NEW m \in Mail(c)' PROVE h.no < m.no
  <2>1. Once(c) /\ OneHand(c)
    BY <1>4 DEF OrderOK
  <2>2. h.no \in InHands(c)
    BY <1>2, <1>3 DEF InHands, NosOf, Numbers
  <2>3. CASE m \in ToSet(Tail(InHand(c, t)))
    <3>1. Before({h.no}, NosOf(Tail(InHand(c, t))))
      BY <1>1, <1>2, <2>1, SortedFacts DEF Once
    <3> QED
      BY <2>3, <3>1 DEF Before, NosOf, Numbers
  <2>4. CASE m \in ToSet(Carried(c)) \cup ToSet(box[c])
    BY <2>1, <2>2, <2>4 DEF Once, OneHand, Before, NosOf, Numbers
  <2>5. ASSUME NEW u \in Threads \ {t} PROVE ToSet(InHand(c, u)) = {}
    BY <1>1, <1>2, <2>1 DEF OneHand
  <2> QED
    BY <1>1, <1>2, <1>4, <2>3, <2>4, <2>5 DEF Mail
<1> QED
  BY <1>1, <1>2, <1>3, <1>4 DEF Mail

\* A break loses what is on the way, the end of a program what is in hand too,
\* and a lost connection's thread what is in the mailbox.
LEMMA MailLost ==
  ASSUME TypeInv, NEW c \in Clients, Lost(c)
  PROVE  /\ Mail(c)' \subseteq Mail(c)
         /\ Mail(c) \ Mail(c)' \subseteq OnTheWay(c) \cup Pending(c, "main") \cup Pending(c, "pull")
         /\ UNCHANGED rsp => Mail(c) \ Mail(c)' \subseteq OnTheWay(c)
<1>1. /\ Carried(c)' = <<>> /\ box' = box
      /\ \A t \in Threads : InHand(c, t)' \in {InHand(c, t), <<>>}
  BY DEF Lost, srv
<1>2. ToSet(<<>>) = {} /\ Threads = {"main", "pull"}
  BY DEF ToSet, Threads
<1>3. /\ OnTheWay(c) = ToSet(Carried(c)) /\ Pending(c, "main") = ToSet(InHand(c, "main"))
      /\ Pending(c, "pull") = ToSet(InHand(c, "pull"))
  BY <1>2, Lists
<1>4. UNCHANGED rsp => \A t \in Threads : InHand(c, t)' = InHand(c, t)
  BY DEF InHand
<1> QED
  BY <1>1, <1>2, <1>3, <1>4 DEF Mail

LEMMA MailTaken ==
  ASSUME TypeInv, NEW c \in Clients, Taken(c)
  PROVE  Mail(c)' \subseteq Mail(c) /\ Mail(c) \ Mail(c)' \subseteq ToSet(box[c])
<1>1. box'[c] = <<>> /\ Untouched(c) /\ ToSet(<<>>) = {} /\ Threads = {"main", "pull"}
  BY DEF Taken, TypeInv, DataOK, MailboxesOK, ToSet, Threads
<1> QED
  BY <1>1 DEF Mail, Untouched

-----------------------------------------------------------------------------
(* Entries in the cache *)

\* setFriend...Key finds an entry: tryGetFriendCopy has found one, or
\* setFriendBase has made it, and only the end of the program removes it.
KnownOK ==
  \A c \in Clients, t \in Threads : pc[c][t] = "store" => friends[c][Peer(c, t)].known = TRUE

LEMMA KnownKept ==
  ASSUME KnownOK,
         \A c \in Clients : \A d \in Clients : friends[c][d].known = TRUE => friends'[c][d].known = TRUE,
         \A c \in Clients, t \in Threads :
           pc'[c][t] = "store" => pc[c][t] = "store" /\ rsp'[c][t] = rsp[c][t] /\ Peer(c, t) \in Clients
  PROVE  KnownOK'
<1> SUFFICES ASSUME NEW c \in Clients, NEW t \in Threads, pc'[c][t] = "store"
             PROVE  friends'[c][Peer(c, t)'].known = TRUE
  BY DEF KnownOK
<1>1. pc[c][t] = "store" /\ rsp'[c][t] = rsp[c][t] /\ Peer(c, t) \in Clients
  OBVIOUS
<1>2. Peer(c, t)' = Peer(c, t)
  BY <1>1 DEF Peer
<1>3. friends[c][Peer(c, t)].known = TRUE
  BY <1>1 DEF KnownOK
<1> QED
  BY <1>1, <1>2, <1>3

\* The friend of a thread that is about to store a key.
LEMMA StoringPeer ==
  ASSUME TypeInv, NEW c \in Clients, NEW t \in Threads, pc[c][t] \in {"base", "store"}
  PROVE  Peer(c, t) \in Clients
<1>1. /\ rsp[c][t] # None
      /\ \/ rsp[c][t].kind = "publicKey"
         \/ /\ rsp[c][t].kind = "waiting" /\ rsp[c][t].msgs # <<>>
            /\ Head(rsp[c][t].msgs).type = "sendKey"
  BY DEF TypeInv, DataOK, ThreadsOK, ThreadOK, Under
<1> QED
  BY <1>1, PeerFacts

\* No step of the programs makes the entry disappear under a thread that needs it.
LEMMA KnownStep == TypeInv /\ KnownOK /\ [Next]_vars => KnownOK'
<1> SUFFICES ASSUME TypeInv, KnownOK, [Next]_vars PROVE KnownOK'
  OBVIOUS
<1>0. /\ pc \in [Clients -> [Threads -> Steps]] /\ \A c \in Clients : friends[c] \in [Clients -> Friend]
      /\ DOMAIN friends = Clients /\ rsp \in [Clients -> [Threads -> Response \cup {None}]]
  BY DEF TypeInv, ControlOK, DataOK, ThreadsOK, FriendsOK
<1> DEFINE Kept == \A c \in Clients : \A d \in Clients :
                     friends[c][d].known = TRUE => friends'[c][d].known = TRUE
           Stays(c, t) == pc'[c][t] = "store"
                            => pc[c][t] = "store" /\ rsp'[c][t] = rsp[c][t] /\ Peer(c, t) \in Clients
<1>1. (Kept /\ \A c \in Clients, t \in Threads : Stays(c, t)) => KnownOK'
  BY KnownKept
<1>2. ASSUME NEW c \in Clients, NEW t \in Threads, NEW step, step # "store", Goto(c, t, step),
             \A b \in Clients, u \in Threads : b # c \/ u # t => rsp'[b][u] = rsp[b][u], Kept
      PROVE  KnownOK'
  <2>1. \A b \in Clients, u \in Threads :
          pc'[b][u] = "store" => pc[b][u] = "store" /\ rsp'[b][u] = rsp[b][u]
    BY <1>0, <1>2 DEF Goto
  <2> QED
    BY <1>1, <1>2, <2>1, StoringPeer
<1>3. UNCHANGED friends => Kept
  OBVIOUS
<1>4. ASSUME UNCHANGED <<pc, rsp>>, Kept PROVE KnownOK'
  BY <1>1, <1>4, StoringPeer
<1>5. ASSUME NEW c \in Clients, NEW d \in Clients, NEW f,
             friends' = [friends EXCEPT ![c][d] = f], friends[c][d].known = TRUE => f.known = TRUE
      PROVE  Kept
  BY <1>0, <1>5
<1>6. ASSUME NEW c \in Clients,
             AskServer(c) \/ AskPublicKey(c) \/ RequestKey(c) \/ SendText(c) \/ Exit(c)
      PROVE  KnownOK'
  <2>1. (\E step : step # "store" /\ Goto(c, "main", step)) /\ UNCHANGED <<rsp, friends>>
    BY <1>6 DEF AskServer, AskPublicKey, RequestKey, SendText, SendCommand, Prepare, Exit
  <2> QED
    BY <1>2, <1>3, <2>1 DEF Threads
<1>7. ASSUME NEW c \in Clients, SendKey(c) PROVE KnownOK'
  <2>1. PICK d, key : d \in Clients /\ SendCommand(c, "sendKey", d, key)
          /\ friends' = [friends EXCEPT ![c][d] = NewKey(friends[c][d], key)]
    BY <1>7 DEF SendKey
  <2>2. friends[c][d] \in Friend
    BY <1>0, <2>1
  <2>3. NewKey(friends[c][d], key).known = friends[c][d].known
    BY <2>2 DEF NewKey, Friend
  <2>4. Kept
    BY <1>5, <2>1, <2>3
  <2>5. Goto(c, "main", "send") /\ UNCHANGED rsp
    BY <2>1 DEF SendCommand, Prepare
  <2> QED
    BY <1>2, <2>4, <2>5 DEF Threads
<1>8. ASSUME NEW c \in Clients, Join(c) \/ Crash(c) PROVE KnownOK'
  <2>1. /\ Forget(c)
        /\ \A b \in Clients \ {c} : rsp'[b] = rsp[b]
    BY <1>0, <1>8 DEF Join, Crash
  <2>2. /\ \A t \in Threads : pc'[c][t] = "exited"
        /\ \A b \in Clients \ {c} : pc'[b] = pc[b] /\ friends'[b] = friends[b]
    BY <1>0, <2>1 DEF Forget
  <2> SUFFICES ASSUME NEW b \in Clients, NEW t \in Threads, pc'[b][t] = "store"
               PROVE  friends'[b][Peer(b, t)'].known = TRUE
    BY DEF KnownOK
  <2>3. b # c
    BY <2>2
  <2>4. pc[b][t] = "store" /\ friends'[b] = friends[b] /\ rsp'[b] = rsp[b]
    BY <2>1, <2>2, <2>3
  <2>5. Peer(b, t)' = Peer(b, t)
    BY <2>4 DEF Peer
  <2>6. friends[b][Peer(b, t)].known = TRUE
    BY <2>4 DEF KnownOK
  <2> QED
    BY <2>4, <2>5, <2>6
<1>9. ASSUME NEW c \in Clients, Poll(c) \/ StopPolling(c) PROVE KnownOK'
  <2>1. (\E step : step # "store" /\ Goto(c, "pull", step)) /\ UNCHANGED <<rsp, friends>>
    BY <1>9 DEF Poll, StopPolling, Prepare
  <2> QED
    BY <1>2, <1>3, <2>1 DEF Threads
<1>10. ASSUME NEW c \in Clients, Restart(c) PROVE KnownOK'
  <2>1. UNCHANGED <<rsp, friends>> /\ \A b \in Clients, t \in Threads : pc'[b][t] = "store" => pc[b][t] = "store"
    BY <1>0, <1>10 DEF Restart, Threads
  <2> QED
    BY <1>1, <1>3, <2>1, StoringPeer
<1>11. ASSUME NEW c \in Clients, Serve(c) \/ Break(c) \/ \E s \in Slots : ServeLeftover(c, s)
       PROVE  KnownOK'
  BY <1>3, <1>4, <1>11 DEF Serve, Break, ServeLeftover
<1>12. ASSUME NEW c \in Clients, NEW t \in Threads, Send(c, t) \/ Receive(c, t) \/ Fail(c, t)
       PROVE  KnownOK'
  <2>1. /\ UNCHANGED friends /\ \E step : step # "store" /\ Goto(c, t, step)
        /\ \A b \in Clients, u \in Threads : b # c \/ u # t => rsp'[b][u] = rsp[b][u]
    BY <1>0, <1>12 DEF Send, Receive, Fail
  <2> QED
    BY <1>2, <1>3, <2>1
<1>13. ASSUME NEW c \in Clients, NEW t \in Threads, Return(c, t), Kept PROVE KnownOK'
  <2>1. Goto(c, t, Home(t)) /\ Home(t) # "store" /\ rsp' = [rsp EXCEPT ![c][t] = None]
    BY <1>13 DEF Return, Home
  <2>2. \A b \in Clients, u \in Threads : b # c \/ u # t => rsp'[b][u] = rsp[b][u]
    BY <1>0, <2>1
  <2> QED
    BY <1>2, <1>13, <2>1, <2>2
<1>14. ASSUME NEW c \in Clients, NEW t \in Threads, Finish(c, t) PROVE KnownOK'
  BY <1>3, <1>13, <1>14 DEF Finish
<1>15. ASSUME NEW c \in Clients, NEW t \in Threads, LearnName(c, t) PROVE KnownOK'
  <2>1. rsp[c][t] \in ResponsesTo(c) /\ pc[c][t] = "process"
    BY <1>15 DEF LearnName, Kind, TypeInv, DataOK, ThreadsOK, ThreadOK, Under
  <2>2. PICK d \in Clients : friends' = [friends EXCEPT ![c][d] = Entry(friends[c][d], TRUE)]
    <3>1. PICK d \in rsp[c][t].names :
            friends' = [friends EXCEPT ![c][d] = Entry(friends[c][d], TRUE)]
      BY <1>15 DEF LearnName
    <3> QED
      BY <2>1, <3>1 DEF ResponsesTo
  <2>3. Entry(friends[c][d], TRUE).known = TRUE
    BY <1>0 DEF Entry, Friend
  <2>4. Kept
    BY <1>5, <2>2, <2>3
  <2>5. UNCHANGED pc /\ \A b \in Clients, u \in Threads : b # c \/ u # t => rsp'[b][u] = rsp[b][u]
    BY <1>0, <1>15 DEF LearnName
  <2>6. \A b \in Clients, u \in Threads : Stays(b, u)
    BY <2>1, <2>5, StoringPeer
  <2> QED
    BY <1>1, <2>4, <2>6
<1>16. ASSUME NEW c \in Clients, NEW t \in Threads, Advance(c, t), Kept PROVE KnownOK'
  <2>1. Goto(c, t, "process") /\ rsp' = [rsp EXCEPT ![c][t].msgs = Tail(@)]
    BY <1>16 DEF Advance
  <2>2. \A b \in Clients, u \in Threads : b # c \/ u # t => rsp'[b][u] = rsp[b][u]
    BY <1>0, <2>1
  <2> QED
    BY <1>2, <1>16, <2>1, <2>2
<1>17. ASSUME NEW c \in Clients, NEW t \in Threads, Show(c, t) PROVE KnownOK'
  BY <1>3, <1>16, <1>17 DEF Show
<1>18. ASSUME NEW c \in Clients, NEW t \in Threads, NEW d \in Clients,
              \/ friends' = [friends EXCEPT ![c][d] = NewPublicKey(friends[c][d])]
              \/ \E key : friends' = [friends EXCEPT ![c][d] = NewKey(friends[c][d], key)]
              \/ friends' = [friends EXCEPT ![c][d] = Entry(friends[c][d], FALSE)]
       PROVE  Kept
  <2>1. friends[c][d] \in Friend
    BY <1>0
  <2>2. /\ NewPublicKey(friends[c][d]).known = friends[c][d].known
        /\ \A key : NewKey(friends[c][d], key).known = friends[c][d].known
        /\ Entry(friends[c][d], FALSE).known = TRUE
    BY <2>1 DEF NewPublicKey, NewKey, Entry, Friend
  <2>3. CASE friends' = [friends EXCEPT ![c][d] = NewPublicKey(friends[c][d])]
    BY <1>5, <2>2, <2>3
  <2>4. CASE \E key : friends' = [friends EXCEPT ![c][d] = NewKey(friends[c][d], key)]
    <3>1. PICK key : friends' = [friends EXCEPT ![c][d] = NewKey(friends[c][d], key)]
      BY <2>4
    <3> QED
      BY <1>5, <2>2, <3>1
  <2>5. CASE friends' = [friends EXCEPT ![c][d] = Entry(friends[c][d], FALSE)]
    BY <1>5, <2>2, <2>5
  <2> QED
    BY <1>18, <2>3, <2>4, <2>5
<1>19. ASSUME NEW c \in Clients, NEW t \in Threads, StorePublicKey(c, t) PROVE KnownOK'
  <2>1. Peer(c, t) \in Clients
    BY <1>19, StoringPeer DEF StorePublicKey
  <2> QED
    BY <1>13, <1>18, <1>19, <2>1 DEF StorePublicKey
<1>20. ASSUME NEW c \in Clients, NEW t \in Threads, StoreSymmetricKey(c, t) PROVE KnownOK'
  <2>1. Peer(c, t) \in Clients
    BY <1>20, StoringPeer DEF StoreSymmetricKey
  <2> QED
    BY <1>16, <1>18, <1>20, <2>1 DEF StoreSymmetricKey
<1>21. ASSUME NEW c \in Clients, NEW t \in Threads, Check(c, t) PROVE KnownOK'
  <2>1. Goto(c, t, IF friends[c][Peer(c, t)].known THEN "store" ELSE "base")
    BY <1>21 DEF Check
  <2>0. UNCHANGED <<rsp, friends>>
    BY <1>21 DEF Check
  <2> SUFFICES ASSUME NEW b \in Clients, NEW u \in Threads, pc'[b][u] = "store"
               PROVE  friends[b][Peer(b, u)].known = TRUE
    <3>1. \A b \in Clients, u \in Threads : Peer(b, u)' = Peer(b, u)
      BY <2>0 DEF Peer
    <3> QED
      BY <2>0, <3>1 DEF KnownOK
  <2>2. CASE b = c /\ u = t
    <3>1. Peer(c, t) \in Clients
      BY <1>21, PeerFacts DEF Check, Kind, TypeInv, DataOK, ThreadsOK, ThreadOK, Under
    <3>2. friends[c][Peer(c, t)].known \in BOOLEAN
      BY <1>0, <3>1 DEF Friend
    <3>3. friends[c][Peer(c, t)].known
      BY <1>0, <2>1, <2>2 DEF Goto
    <3> QED
      BY <2>2, <3>2, <3>3
  <2>3. CASE b # c \/ u # t
    BY <1>0, <2>1, <2>3 DEF Goto, KnownOK
  <2> QED
    BY <2>2, <2>3
<1>22. ASSUME NEW c \in Clients, NEW t \in Threads, Base(c, t) PROVE KnownOK'
  <2>1. /\ Goto(c, t, "store") /\ UNCHANGED rsp /\ Peer(c, t) \in Clients
        /\ friends' = [friends EXCEPT ![c][Peer(c, t)] = Entry(friends[c][Peer(c, t)], FALSE)]
    BY <1>22, StoringPeer DEF Base
  <2>2. Kept
    BY <1>18, <2>1
  <2>3. friends'[c][Peer(c, t)].known = TRUE
    BY <1>0, <2>1 DEF Entry, Friend
  <2> SUFFICES ASSUME NEW b \in Clients, NEW u \in Threads, pc'[b][u] = "store"
               PROVE  friends'[b][Peer(b, u)].known = TRUE
    <3>1. \A b \in Clients, u \in Threads : Peer(b, u)' = Peer(b, u)
      BY <2>1 DEF Peer
    <3> QED
      BY <3>1 DEF KnownOK
  <2>4. CASE b = c /\ u = t
    BY <2>3, <2>4
  <2>5. CASE b # c \/ u # t
    <3>1. pc[b][u] = "store"
      BY <1>0, <2>1, <2>5 DEF Goto
    <3> QED
      BY <2>2, <3>1, StoringPeer DEF KnownOK
  <2> QED
    BY <2>4, <2>5
<1>23. CASE UNCHANGED vars
  BY <1>3, <1>4, <1>23 DEF vars
<1> QED
  BY <1>6, <1>7, <1>8, <1>9, <1>10, <1>11, <1>12, <1>14, <1>15, <1>17, <1>19, <1>20, <1>21, <1>22,
     <1>23 DEF Next, Menu, Process

-----------------------------------------------------------------------------
(* How keys move *)

Sym(c, d) == friends[c][d].sym

\* The commands to send a message that have not reached the database: the one
\* that main() waits for, and those a lost connection has left behind.
Sends(c) == {q \in RequestsOf(c) : q.kind = "send"}
Asking(c) == pc[c]["main"] = "send" \/ (pc[c]["main"] = "receive" /\ toServer[c] # <<>>)
Asked(c) == IF Asking(c) /\ req[c]["main"].kind = "send" THEN {req[c]["main"]} ELSE {}
Late(c) == {q \in Sends(c) : \E s \in Slots : leftover[c][s] = q}

\* The keys for d that the program of c has made and that are not spoiled.
Made(c, d) == {key \in had[c] \ spoiled : key.by = c /\ key.to = d}

BringsKey(m) == m.type = "sendKey"
SendsKey(q)  == q.content.type = "sendKey"
SendsText(q) == q.content.type = "text"

KeysKept == UNCHANGED had /\ \A c, d \in Clients : Sym(c, d)' = Sym(c, d)
KeyChanged(c, d, key) ==
  /\ Sym(c, d)' = key /\ \A b, e \in Clients : b # c \/ e # d => Sym(b, e)' = Sym(b, e)
  /\ had' = [had EXCEPT ![c] = @ \cup {key}]
AskedKept(S) == \A d \in S : Asked(d)' = Asked(d)
LateKept(S)  == \A d \in S : Late(d)' = Late(d)

\* What a step does to keys and what carries them: nothing; a user sends a
\* message; it is stored; one is processed; some are lost or refused; or a
\* program ends.
Steady == /\ KeysKept /\ AskedKept(Clients) /\ LateKept(Clients) /\ MailsKept(Clients)
          /\ UNCHANGED <<sends, spoiled>>

Commanding(c, q) ==
  /\ Asked(c) = {} /\ Asked(c)' = {q} /\ AskedKept(Clients \ {c}) /\ LateKept(Clients)
  /\ \A r \in Late(c) : SendsText(r) => r.content.key \notin Made(c, r.peer)
  /\ sends' = sends + 1 /\ UNCHANGED spoiled /\ MailsKept(Clients)

Commanded(c) ==
  \E q \in Sends(c) :
    /\ Commanding(c, q)
    /\ \/ ~SendsKey(q) /\ ~SendsText(q) /\ KeysKept
       \/ /\ SendsText(q) /\ KeysKept
          /\ q.content.key = Sym(c, q.peer) /\ q.content.key # None
       \/ /\ SendsKey(q) /\ KeyChanged(c, q.peer, q.content.key)
          /\ q.content.key = [by |-> c, to |-> q.peer, n |-> sends + 1]

Posted(c) ==
  /\ \E q \in Sends(c), m \in Message :
       /\ m.no = posted + 1 /\ m.from = c /\ m.type = q.content.type /\ m.key = q.content.key
       /\ Mail(q.peer)' = Mail(q.peer) \cup {m} /\ MailsKept(Clients \ {q.peer})
       /\ \/ Asked(c) = {q} /\ Asked(c)' = {} /\ LateKept(Clients)
          \/ q \in Late(c) /\ Late(c)' \subseteq Late(c) /\ Asked(c)' = Asked(c)
  /\ AskedKept(Clients \ {c}) /\ LateKept(Clients \ {c})
  /\ KeysKept /\ UNCHANGED <<sends, spoiled>>

Handled(c) ==
  /\ \E h \in Mail(c) :
       /\ Mail(c)' \subseteq Mail(c) /\ Mail(c) \subseteq Mail(c)' \cup {h}
       /\ c \notin mixed => \A m \in Mail(c)' : h.no < m.no
       /\ \/ ~BringsKey(h) /\ KeysKept
          \/ BringsKey(h) /\ KeyChanged(c, h.from, h.key)
  /\ MailsKept(Clients \ {c}) /\ AskedKept(Clients) /\ LateKept(Clients)
  /\ UNCHANGED <<sends, spoiled>>

SomeLost(c) ==
  /\ Mail(c)' \subseteq Mail(c) /\ MailsKept(Clients \ {c})
  /\ \A m \in Mail(c) \ Mail(c)' : BringsKey(m) => m.key \in spoiled'
  /\ Asked(c)' \subseteq Asked(c) /\ AskedKept(Clients \ {c})
  /\ LateKept(Clients \ {c})
  /\ \A q \in Late(c)' \ Late(c) : q \in Asked(c) /\ (SendsKey(q) => q.content.key \in spoiled')
  /\ spoiled \subseteq spoiled' /\ UNCHANGED sends

Spoilt(c) ==
  /\ SomeLost(c) /\ KeysKept
  /\ \A q \in Asked(c) \ Asked(c)' : SendsKey(q) => q.content.key \in spoiled'

Forgotten(c) ==
  /\ SomeLost(c) /\ had[c] \subseteq spoiled' /\ had' = [had EXCEPT ![c] = {}]
  /\ \A d \in Clients : Sym(c, d)' = None
  /\ \A b \in Clients \ {c}, d \in Clients : Sym(b, d)' = Sym(b, d)

KeyMove ==
  \/ Steady
  \/ \E c \in Clients : Commanded(c) \/ Posted(c) \/ Handled(c) \/ Spoilt(c) \/ Forgotten(c)

\* Nobody sends a text late under a key of his own and goes on: main() is still
\* to notice that the connection is lost.
Stuck(c) == broken[c] = TRUE /\ pc[c]["main"] \in {"receive", "join"}
StuckOK ==
  \A c \in Clients : \A q \in Late(c) :
    SendsText(q) /\ q.content.key \in Made(c, q.peer) => Stuck(c)

LEMMA AskedTypes ==
  ASSUME TypeInv, NEW c \in Clients
  PROVE  /\ Asked(c) \subseteq Sends(c)
         /\ pc[c]["main"] \notin {"send", "receive"} => Asked(c) = {}
         /\ pc[c]["main"] = "receive" /\ toServer[c] # <<>>
              => mutex[c] = "main" /\ toServer[c] = <<req[c]["main"]>>
<1>1. Asking(c) => req[c]["main"] \in RequestsOf(c)
  BY DEF Asking, TypeInv, DataOK, ThreadsOK, ThreadOK, Threads
<1>2. pc[c]["main"] = "receive" => mutex[c] = "main"
  BY DEF TypeInv, ControlOK, Threads
<1> QED
  BY <1>1, <1>2, WireFacts DEF Asked, Asking, Sends

LEMMA LateUntouched ==
  ASSUME TypeInv, NEW S \in SUBSET Clients, \A d \in S : leftover'[d] = leftover[d]
  PROVE  LateKept(S)
BY DEF LateKept, Late, Sends, RequestsOf

LEMMA OthersAsked ==
  ASSUME NEW S \in SUBSET Clients,
         \A d \in S : /\ pc'[d]["main"] = pc[d]["main"] /\ req'[d]["main"] = req[d]["main"]
                      /\ toServer'[d] = toServer[d]
  PROVE  AskedKept(S)
BY DEF AskedKept, Asked, Asking

\* Steps of a client leave the commands of the others alone.
LEMMA AskedElsewhere ==
  ASSUME TypeInv, NEW c \in Clients, NEW t \in Threads,
         UNCHANGED pc \/ \E step : Goto(c, t, step),
         UNCHANGED req \/ \E r : req' = [req EXCEPT ![c][t] = r],
         UNCHANGED toServer \/ \E s : toServer' = [toServer EXCEPT ![c] = s]
  PROVE  /\ AskedKept(Clients \ {c})
         /\ Asked(c)' = Asked(c) => AskedKept(Clients)
<1>1. /\ pc \in [Clients -> [Threads -> Steps]]
      /\ req \in [Clients -> [Threads -> Request \cup {None}]]
  BY DEF TypeInv, ControlOK, DataOK, ThreadsOK
<1>2. \A d \in Clients \ {c} : pc'[d]["main"] = pc[d]["main"]
  BY <1>1 DEF Goto, Threads
<1>3. \A d \in Clients \ {c} : req'[d]["main"] = req[d]["main"]
  BY <1>1 DEF Threads
<1>4. \A d \in Clients \ {c} : toServer'[d] = toServer[d]
  BY DEF TypeInv, DataOK, ConnectionsOK
<1>5. AskedKept(Clients \ {c})
  BY <1>2, <1>3, <1>4, OthersAsked
<1> QED
  BY <1>5 DEF AskedKept

\* The main thread is not waiting for the connection.
LEMMA NothingAsked ==
  ASSUME NEW c \in Clients,
         \/ pc'[c]["main"] \notin {"send", "receive"}
         \/ pc'[c]["main"] = "receive" /\ toServer'[c] = <<>>
         \/ req'[c]["main"].kind # "send"
  PROVE  Asked(c)' = {}
BY DEF Asked, Asking

LEMMA AskedBeside ==
  ASSUME NEW c \in Clients,
         pc'[c]["main"] = pc[c]["main"], req'[c]["main"] = req[c]["main"],
         pc[c]["main"] # "receive" \/ (toServer[c] # <<>> <=> toServer'[c] # <<>>)
  PROVE  Asked(c)' = Asked(c)
BY DEF Asked, Asking

-----------------------------------------------------------------------------
(* What each step of the programs does to keys *)

LEMMA SymsUntouched ==
  ASSUME TypeInv, NEW c \in Clients, NEW d \in Clients, NEW f, f.sym = friends[c][d].sym,
         friends' = [friends EXCEPT ![c][d] = f], UNCHANGED had
  PROVE  KeysKept
BY DEF KeysKept, Sym, TypeInv, FriendsOK

LEMMA EntrySyms ==
  ASSUME NEW f \in Friend
  PROVE  /\ \A named \in BOOLEAN : Entry(f, named).sym = f.sym
         /\ NewPublicKey(f).sym = f.sym
         /\ \A key : f.known = TRUE => NewKey(f, key).sym = key
BY DEF Entry, NewPublicKey, NewKey, Friend

\* Of the menu, only the commands that send a message matter.
LEMMA MenuKeys ==
  ASSUME TypeInv, NEW c \in Clients, AskServer(c) \/ AskPublicKey(c) \/ Exit(c)
  PROVE  Steady
<1> USE DEF net, srv, hist
<1>1. /\ pc \in [Clients -> [Threads -> Steps]] /\ "main" \in Threads
      /\ req \in [Clients -> [Threads -> Request \cup {None}]]
  BY DEF TypeInv, ControlOK, DataOK, ThreadsOK, Threads
<1>2. /\ UNCHANGED <<friends, rsp, toClient, toServer, box, sends, had, spoiled, leftover>>
      /\ pc[c]["main"] = "menu"
  BY DEF AskServer, AskPublicKey, Exit
<1>3. /\ \E step : Goto(c, "main", step)
      /\ UNCHANGED req \/ \E r : req' = [req EXCEPT ![c]["main"] = r]
  BY DEF AskServer, AskPublicKey, Exit, Prepare
<1>4. pc'[c]["main"] = "join" \/ req'[c]["main"].kind # "send"
  BY <1>1 DEF AskServer, AskPublicKey, Exit, Prepare, Goto
<1>5. Asked(c) = {} /\ Asked(c)' = {}
  BY <1>2, <1>4, AskedTypes, NothingAsked
<1>6. AskedKept(Clients)
  BY <1>1, <1>2, <1>3, <1>5, AskedElsewhere
<1>7. LateKept(Clients) /\ MailsKept(Clients)
  BY <1>2, LateUntouched, MailsUntouched
<1> QED
  BY <1>2, <1>6, <1>7 DEF Steady, KeysKept, Sym

\* handleSendText and the others: the command is now under way.
Ask(type, d, key) == [kind |-> "send", peer |-> d, content |-> [type |-> type, key |-> key]]

LEMMA AskTypes ==
  ASSUME NEW c \in Clients, NEW d \in Clients \ {c}, NEW key \in Key \cup {None}
  PROVE  /\ Ask("requestKey", d, None) \in Sends(c) /\ Ask("text", d, key) \in Sends(c)
         /\ key \in Key => Ask("sendKey", d, key) \in Sends(c)
<1>1. ASSUME NEW type \in {"requestKey", "sendKey", "text"}, NEW k \in Key \cup {None},
             type = "sendKey" => k \in Key
      PROVE  Ask(type, d, k) \in Sends(c)
  <2>1. [type |-> type, key |-> k] \in Content
    BY DEF Content
  <2> QED
    BY <1>1, <2>1 DEF Ask, Sends, RequestsOf, Request, Kinds
<1> QED
  BY <1>1

LEMMA CommandKeys ==
  ASSUME TypeInv, StuckOK, NEW c \in Clients, NEW type, NEW d, NEW key, SendCommand(c, type, d, key)
  PROVE  /\ Commanding(c, Ask(type, d, key))
         /\ d \in Clients \ {c} /\ friends[c][d].known = TRUE
<1> USE DEF net, srv, hist
<1>0. PICK q : q = Ask(type, d, key)
  OBVIOUS
<1>1. /\ pc \in [Clients -> [Threads -> Steps]] /\ "main" \in Threads
      /\ req \in [Clients -> [Threads -> Request \cup {None}]]
  BY DEF TypeInv, ControlOK, DataOK, ThreadsOK, Threads
<1>2. /\ UNCHANGED <<rsp, toClient, toServer, box, spoiled, leftover>> /\ pc[c]["main"] = "menu"
      /\ Goto(c, "main", "send") /\ sends' = sends + 1 /\ d \in Named(c)
      /\ req' = [req EXCEPT ![c]["main"] = q]
  BY <1>0 DEF SendCommand, Prepare, Ask
<1>3. pc'[c]["main"] = "send" /\ req'[c]["main"] = q
  BY <1>1, <1>2 DEF Goto
<1>4. Asked(c)' = {q}
  BY <1>0, <1>3 DEF Asked, Asking, Ask
<1>5. Asked(c) = {}
  BY <1>2, AskedTypes
<1>6. AskedKept(Clients \ {c})
  BY <1>1, <1>2, AskedElsewhere
<1>7. d \in Clients \ {c} /\ friends[c][d].known = TRUE
  <2>1. d \in Clients \ {c} /\ friends[c][d].named
    BY <1>2 DEF Named
  <2>2. EntryOK(c, d, friends[c][d]) /\ friends[c][d] \in Friend
    BY <2>1 DEF TypeInv, FriendsOK
  <2> QED
    BY <2>1, <2>2 DEF EntryOK, Friend
<1>8. LateKept(Clients) /\ MailsKept(Clients)
  BY <1>2, LateUntouched, MailsUntouched
<1>9. \A r \in Late(c) : SendsText(r) => r.content.key \notin Made(c, r.peer)
  BY <1>2 DEF StuckOK, Stuck
<1> QED
  BY <1>0, <1>2, <1>4, <1>5, <1>6, <1>7, <1>8, <1>9 DEF Commanding

LEMMA SendKeys ==
  ASSUME TypeInv, StuckOK, NEW c \in Clients, RequestKey(c) \/ SendText(c) \/ SendKey(c)
  PROVE  Commanded(c)
<1>2. CASE RequestKey(c)
  <2>1. PICK d \in Clients : SendCommand(c, "requestKey", d, None) /\ UNCHANGED <<friends, had>>
    BY <1>2 DEF RequestKey
  <2>2. PICK q : q = Ask("requestKey", d, None)
    OBVIOUS
  <2>3. ~SendsKey(q) /\ ~SendsText(q) /\ KeysKept
    BY <2>1, <2>2 DEF KeysKept, Sym, Ask, SendsKey, SendsText
  <2>4. Commanding(c, q) /\ q \in Sends(c)
    BY <2>1, <2>2, CommandKeys, AskTypes
  <2> QED
    BY <2>3, <2>4 DEF Commanded
<1>3. CASE SendText(c)
  <2>1. PICK d \in Clients : friends[c][d].sym # None /\ SendCommand(c, "text", d, friends[c][d].sym)
                             /\ UNCHANGED <<friends, had>>
    BY <1>3 DEF SendText
  <2>2. PICK q : q = Ask("text", d, friends[c][d].sym)
    OBVIOUS
  <2>3. friends[c][d].sym \in Key \cup {None}
    BY DEF TypeInv, FriendsOK, Friend
  <2>4. SendsText(q) /\ KeysKept /\ q.content.key = Sym(c, q.peer) /\ q.content.key # None
    BY <2>1, <2>2 DEF KeysKept, Sym, Ask, SendsText
  <2>5. Commanding(c, q) /\ q \in Sends(c)
    BY <2>1, <2>2, <2>3, CommandKeys, AskTypes
  <2> QED
    BY <2>4, <2>5 DEF Commanded
<1>4. CASE SendKey(c)
  <2>1. PICK d \in Clients :
          LET key == [by |-> c, to |-> d, n |-> sends + 1] IN
          /\ SendCommand(c, "sendKey", d, key)
          /\ friends' = [friends EXCEPT ![c][d] = NewKey(friends[c][d], key)]
          /\ had' = [had EXCEPT ![c] = @ \cup {key}]
    BY <1>4 DEF SendKey
  <2>2. PICK key : key = [by |-> c, to |-> d, n |-> sends + 1]
    OBVIOUS
  <2>3. /\ SendCommand(c, "sendKey", d, key) /\ had' = [had EXCEPT ![c] = @ \cup {key}]
        /\ friends' = [friends EXCEPT ![c][d] = NewKey(friends[c][d], key)]
    BY <2>1, <2>2
  <2>4. PICK q : q = Ask("sendKey", d, key)
    OBVIOUS
  <2>5. key \in Key
    <3>1. sends < MaxSends /\ sends \in Nat
      BY <2>3, ClientsAssumption DEF SendCommand, TypeInv, KeysOK
    <3> QED
      BY <2>2, <3>1, ClientsAssumption DEF Key
  <2>6. KeyChanged(c, d, key)
    <3>1. friends[c][d].known = TRUE
      BY <2>3, CommandKeys
    <3>3. friends[c][d] \in Friend
      BY DEF TypeInv, FriendsOK
    <3>2. NewKey(friends[c][d], key).sym = key
      BY <3>1, <3>3, EntrySyms
    <3> QED
      BY <2>3, <3>2 DEF KeyChanged, Sym, TypeInv, FriendsOK
  <2>7. /\ SendsKey(q) /\ KeyChanged(c, q.peer, q.content.key)
        /\ q.content.key = [by |-> c, to |-> q.peer, n |-> sends + 1]
    BY <2>2, <2>4, <2>6 DEF Ask, SendsKey
  <2>8. Commanding(c, q) /\ q \in Sends(c)
    BY <2>3, <2>4, <2>5, CommandKeys, AskTypes
  <2> QED
    BY <2>7, <2>8 DEF Commanded
<1> QED
  BY <1>2, <1>3, <1>4

\* The polling thread asks or ends, and a program starts again.
LEMMA StartKeys ==
  ASSUME TypeInv, NEW c \in Clients, Poll(c) \/ StopPolling(c) \/ Restart(c)
  PROVE  Steady
<1> USE DEF net, srv, hist
<1>1. /\ UNCHANGED <<friends, rsp, toClient, toServer, box, sends, had, spoiled, leftover>>
      /\ pc \in [Clients -> [Threads -> Steps]] /\ Threads = {"main", "pull"}
      /\ req \in [Clients -> [Threads -> Request \cup {None}]]
  BY DEF Poll, StopPolling, Restart, Prepare, TypeInv, ControlOK, DataOK, ThreadsOK, Threads
<1>2. \A d \in Clients : pc'[d]["main"] = pc[d]["main"]
                         \/ (pc[d]["main"] = "exited" /\ pc'[d]["main"] = "menu")
  BY <1>1 DEF Poll, Prepare, StopPolling, Restart, Goto
<1>3. \A d \in Clients : req'[d]["main"] = req[d]["main"]
  BY <1>1 DEF Poll, Prepare, StopPolling, Restart
<1>4. \A d \in Clients : Asked(d)' = Asked(d)
  BY <1>1, <1>2, <1>3 DEF Asked, Asking
<1> QED
  BY <1>1, <1>4, MailsUntouched, LateUntouched DEF Steady, KeysKept, Sym, AskedKept

\* A command stays under way while sendAndReceive sends it, whoever has the
\* connection.
LEMMA WireKeys ==
  ASSUME TypeInv, NEW c \in Clients, NEW t \in Threads, Send(c, t) \/ Receive(c, t)
  PROVE  Steady
<1> USE DEF net, srv, hist
<1>1. /\ pc \in [Clients -> [Threads -> Steps]] /\ DOMAIN toServer = Clients
      /\ UNCHANGED <<friends, req, sends, had, spoiled, leftover>> /\ Threads = {"main", "pull"}
  BY DEF Send, Receive, TypeInv, ControlOK, DataOK, ConnectionsOK, Threads
<1>2. UNCHANGED toServer \/ \E s : toServer' = [toServer EXCEPT ![c] = s]
  BY DEF Send, Receive
<1>3. \E step : Goto(c, t, step)
  BY DEF Send, Receive
<1>4. Asked(c)' = Asked(c)
  <2>1. CASE Send(c, t)
    <3>1. mutex[c] = None /\ toServer' = [toServer EXCEPT ![c] = Append(@, req[c][t])]
          /\ pc[c][t] = "send" /\ Goto(c, t, "receive")
      BY <2>1 DEF Send, MutexFree
    <3>2. toServer[c] = <<>> /\ \A u \in Threads : pc[c][u] # "receive"
      BY <1>1, <3>1, WireFacts, NoneAssumption DEF TypeInv, ControlOK
    <3>3. toServer'[c] = <<req[c][t]>> /\ pc'[c][t] = "receive"
          /\ \A u \in Threads : u # t => pc'[c][u] = pc[c][u]
      BY <1>1, <3>1, <3>2 DEF Goto
    <3>4. toServer'[c] # <<>>
      BY <3>3
    <3> QED
      BY <1>1, <3>1, <3>2, <3>3, <3>4 DEF Asked, Asking
  <2>2. CASE Receive(c, t)
    <3>1. pc[c][t] = "receive" /\ toClient[c] # <<>> /\ Goto(c, t, "process") /\ UNCHANGED toServer
      BY <2>2 DEF Receive
    <3>2. toServer[c] = <<>> /\ pc'[c][t] = "process"
          /\ \A u \in Threads : u # t => pc'[c][u] = pc[c][u]
      BY <1>1, <3>1, WireFacts DEF Goto
    <3> QED
      BY <1>1, <3>1, <3>2 DEF Asked, Asking
  <2> QED
    BY <2>1, <2>2
<1>5. AskedKept(Clients)
  BY <1>1, <1>2, <1>3, <1>4, AskedElsewhere
<1>6. Still \/ Received(c, t)
  <2>1. CASE Send(c, t)
    <3>1. UNCHANGED <<rsp, toClient, srv, handled, dropped>>
      BY <2>1 DEF Send
    <3> QED
      BY <3>1, StillKept
  <2> QED
    BY <2>1, ReceiveMoves
<1>7. MailsKept(Clients)
  BY <1>6, MailKept DEF MailsKept
<1> QED
  BY <1>1, <1>5, <1>7, LateUntouched DEF Steady, KeysKept, Sym

\* A command that a step of c's connection takes away was on it.
LEMMA LateGrown ==
  ASSUME TypeInv, NEW c \in Clients, LeaveBehind(c), NEW q \in Late(c)' \ Late(c)
  PROVE  /\ q \in Asked(c) /\ pc[c]["main"] = "receive"
         /\ toServer[c] # <<>> /\ q = Head(toServer[c])
<1>1. leftover \in [Clients -> [Slots -> Request \cup {None}]]
  BY DEF TypeInv, LeftoverOK
<1>2. PICK s \in Slots : leftover'[c][s] = q /\ q \in Sends(c)
  BY DEF Late, Sends, RequestsOf
<1>3. leftover[c][s] # q
  BY <1>2 DEF Late
<1>4. toServer[c] # <<>> /\ leftover'[c][s] = Head(toServer[c])
  BY <1>1, <1>2, <1>3 DEF LeaveBehind
<1>5. mutex[c] \in Threads /\ q = req[c][mutex[c]] /\ pc[c][mutex[c]] = "receive"
  BY <1>2, <1>4, WireFacts
<1>6. mutex[c] = "main"
  <2>1. mutex[c] # "pull"
    BY <1>2, <1>5, NoneAssumption DEF Sends, RequestsOf, TypeInv, DataOK, ThreadsOK, ThreadOK, Threads
  <2> QED
    BY <1>5, <2>1 DEF Threads
<1>7. Asked(c) = {q}
  BY <1>2, <1>4, <1>5, <1>6 DEF Asked, Asking, Sends
<1> QED
  BY <1>2, <1>4, <1>5, <1>6, <1>7

LEMMA LateElsewhere ==
  ASSUME TypeInv, NEW c \in Clients, LeaveBehind(c)
  PROVE  LateKept(Clients \ {c})
<1>1. \A d \in Clients \ {c} : leftover'[d] = leftover[d]
  BY DEF LeaveBehind, TypeInv, LeftoverOK
<1> QED
  BY <1>1, LateUntouched

\* What the connection carries of a command is spoiled with it.
LEMMA SentSpoilt ==
  ASSUME TypeInv, NEW c \in Clients, toServer[c] # <<>>,
         NEW q, q = Head(toServer[c]), q \in Sends(c), SendsKey(q), SentKeys(c) \subseteq spoiled'
  PROVE  q.content.key \in spoiled'
<1>1. ToSet(toServer[c]) = {q}
  BY WireFacts
<1>2. q # None /\ q.kind = "send"
  BY NoneAssumption DEF Sends, RequestsOf
<1> QED
  BY <1>1, <1>2 DEF SentKeys, KeyOf, SendsKey

\* asio throws: the command is lost.
LEMMA FailKeys ==
  ASSUME TypeInv, NEW c \in Clients, NEW t \in Threads, Fail(c, t)
  PROVE  Spoilt(c)
<1> USE DEF net, srv, hist
<1>1. /\ pc \in [Clients -> [Threads -> Steps]] /\ Threads = {"main", "pull"}
      /\ req \in [Clients -> [Threads -> Request \cup {None}]]
      /\ UNCHANGED <<friends, rsp, toServer, toClient, box, sends, had, leftover>>
      /\ pc[c][t] \in {"send", "receive"} /\ broken[c]
  BY DEF Fail, TypeInv, ControlOK, DataOK, ThreadsOK, Threads
<1>2. \E step : Goto(c, t, step)
  BY DEF Fail
<1>3. req' = [req EXCEPT ![c][t] = None]
  BY DEF Fail
<1>4. AskedKept(Clients \ {c}) /\ MailsKept(Clients) /\ LateKept(Clients)
  BY <1>1, <1>2, <1>3, AskedElsewhere, MailsUntouched, LateUntouched
<1>5. toServer[c] = <<>>
  BY <1>1 DEF TypeInv, DataOK, BrokenOK
<1>6. Asked(c)' \subseteq Asked(c)
  <2>1. CASE t = "main"
    <3>1. pc'[c]["main"] = "join"
      BY <1>1, <2>1 DEF Fail, Goto
    <3> QED
      BY <3>1, NothingAsked
  <2>2. CASE t = "pull"
    <3>1. pc'[c]["main"] = pc[c]["main"] /\ req'[c]["main"] = req[c]["main"]
      BY <1>1, <1>2, <1>3, <2>2 DEF Goto
    <3> QED
      BY <1>1, <3>1, AskedBeside
  <2> QED
    BY <1>1, <2>1, <2>2
<1>7. spoiled \subseteq spoiled' /\ \A q \in Asked(c) \ Asked(c)' : SendsKey(q) => q.content.key \in spoiled'
  <2>1. spoiled \subseteq spoiled'
    BY DEF Fail
  <2> SUFFICES ASSUME NEW q \in Asked(c) \ Asked(c)', SendsKey(q) PROVE q.content.key \in spoiled'
    BY <2>1
  <2>2. q = req[c]["main"] /\ q.kind = "send" /\ q # None /\ pc[c]["main"] = "send"
    BY <1>5, AskedTypes, NoneAssumption DEF Asked, Asking, Sends, RequestsOf
  <2>3. t = "main"
    <3>1. t = "pull" => pc'[c]["main"] = pc[c]["main"] /\ req'[c]["main"] = req[c]["main"]
      BY <1>1, <1>2, <1>3 DEF Goto
    <3> QED
      BY <1>1, <3>1, AskedBeside
  <2>4. spoiled' = spoiled \cup KeyOf(q)
    BY <2>2, <2>3 DEF Fail
  <2> QED
    BY <2>2, <2>4 DEF KeyOf, SendsKey
<1>8. KeysKept
  BY <1>1 DEF KeysKept, Sym
<1> QED
  BY <1>1, <1>4, <1>6, <1>7, <1>8 DEF Spoilt, SomeLost, MailsKept, LateKept

\* The messages in its responses are lost, and its command, unless the server
\* has received that.
LEMMA BreakKeys ==
  ASSUME TypeInv, NEW c \in Clients, Break(c)
  PROVE  Spoilt(c)
<1> USE DEF net, srv, hist
<1>1. /\ UNCHANGED <<friends, pc, req, rsp, box, sends, had>>
      /\ toServer' = [toServer EXCEPT ![c] = <<>>]
      /\ spoiled' = spoiled \cup KeysIn(OnTheWay(c)) \cup SentKeys(c)
  BY DEF Break
<1>2. Lost(c)
  BY BreakMoves
<1>3. Mail(c)' \subseteq Mail(c) /\ Mail(c) \ Mail(c)' \subseteq OnTheWay(c)
  BY <1>1, <1>2, MailLost
<1>4. \A m \in Mail(c) \ Mail(c)' : BringsKey(m) => m.key \in spoiled'
  BY <1>1, <1>3 DEF KeysIn, BringsKey
<1>5. MailsKept(Clients \ {c})
  BY <1>2, MailKept DEF MailsKept
<1>6. AskedKept(Clients \ {c}) /\ LateKept(Clients \ {c})
  BY <1>1, AskedElsewhere, LateElsewhere DEF Break, Threads
<1>7. toServer'[c] = <<>>
  BY <1>1 DEF TypeInv, DataOK, ConnectionsOK
<1>8. Asked(c)' \subseteq Asked(c)
  BY <1>1, <1>7 DEF Asked, Asking
<1>0. SentKeys(c) \subseteq spoiled'
  BY <1>1
<1>9. ASSUME NEW q \in Asked(c), toServer[c] # <<>>, q = Head(toServer[c]), SendsKey(q)
      PROVE  q.content.key \in spoiled'
  <2>1. q \in Sends(c)
    BY <1>9, AskedTypes
  <2> QED
    BY <1>0, <1>9, <2>1, SentSpoilt
<1>10. \A q \in Asked(c) \ Asked(c)' : SendsKey(q) => q.content.key \in spoiled'
  <2> SUFFICES ASSUME NEW q \in Asked(c) \ Asked(c)', SendsKey(q) PROVE q.content.key \in spoiled'
    OBVIOUS
  <2>1. pc[c]["main"] = "receive" /\ toServer[c] # <<>> /\ q = req[c]["main"]
    BY <1>1, <1>7 DEF Asked, Asking
  <2>2. toServer[c] = <<q>>
    BY <2>1, AskedTypes
  <2>3. q = Head(toServer[c])
    BY <2>2
  <2> QED
    BY <1>9, <2>1, <2>3
<1>11. \A q \in Late(c)' \ Late(c) : q \in Asked(c) /\ (SendsKey(q) => q.content.key \in spoiled')
  <2>1. LeaveBehind(c)
    BY DEF Break
  <2> QED
    BY <1>9, <2>1, LateGrown
<1>12. spoiled \subseteq spoiled' /\ UNCHANGED sends /\ KeysKept
  BY <1>1 DEF KeysKept, Sym
<1> QED
  BY <1>3, <1>4, <1>5, <1>6, <1>8, <1>10, <1>11, <1>12 DEF Spoilt, SomeLost

\* The cache is gone when a program ends; nobody counts on its keys any more.
LEMMA ForgetKeys ==
  ASSUME TypeInv, NEW c \in Clients, Forget(c)
  PROVE  /\ \A d \in Clients : Sym(c, d)' = None
         /\ \A b \in Clients \ {c}, d \in Clients : Sym(b, d)' = Sym(b, d)
         /\ had' = [had EXCEPT ![c] = {}] /\ pc'[c]["main"] = "exited"
         /\ \A b \in Clients \ {c} : pc'[b] = pc[b]
<1>1. friends' = [friends EXCEPT ![c] = NoFriends] /\ DOMAIN friends = Clients
  BY DEF Forget, TypeInv, FriendsOK
<1>2. \A d \in Clients : NoFriends[d].sym = None
  BY DEF NoFriends
<1>3. pc'[c]["main"] = "exited" /\ \A b \in Clients \ {c} : pc'[b] = pc[b]
  BY DEF Forget, TypeInv, ControlOK, Threads
<1>4. had' = [had EXCEPT ![c] = {}]
  BY DEF Forget
<1> QED
  BY <1>1, <1>2, <1>3, <1>4 DEF Sym

LEMMA EndKeys ==
  ASSUME TypeInv, NEW c \in Clients, Join(c) \/ Crash(c)
  PROVE  Forgotten(c)
<1> USE DEF net, srv, hist
<1>1. /\ Forget(c) /\ had[c] \subseteq spoiled' /\ spoiled \subseteq spoiled' /\ UNCHANGED sends
      /\ \A d \in Clients \ {c} : req'[d] = req[d] /\ toServer'[d] = toServer[d]
  BY DEF Join, Crash, TypeInv, DataOK, ThreadsOK, ConnectionsOK
<1>2. Asked(c)' = {} /\ AskedKept(Clients \ {c})
  <2>1. pc'[c]["main"] = "exited" /\ \A d \in Clients \ {c} : pc'[d] = pc[d]
    BY <1>1, ForgetKeys
  <2> QED
    BY <1>1, <2>1, NothingAsked, OthersAsked
<1>3. CASE Join(c)
  <2>1. MailsKept(Clients) /\ LateKept(Clients)
    BY <1>3, MailsUntouched, LateUntouched DEF Join
  <2>2. Asked(c) = {}
    BY <1>3, AskedTypes DEF Join
  <2> QED
    BY <1>1, <1>2, <2>1, <2>2, ForgetKeys DEF Forgotten, SomeLost, MailsKept, LateKept
<1>4. CASE Crash(c)
  <2>1. Lost(c) /\ LeaveBehind(c)
    BY <1>4, CrashMoves DEF Crash
  <2>2. Mail(c)' \subseteq Mail(c)
        /\ Mail(c) \ Mail(c)' \subseteq OnTheWay(c) \cup Pending(c, "main") \cup Pending(c, "pull")
    BY <2>1, MailLost
  <2>3. spoiled' = spoiled \cup KeysIn(OnTheWay(c) \cup Pending(c, "main") \cup Pending(c, "pull"))
                     \cup had[c] \cup SentKeys(c)
    BY <1>4 DEF Crash
  <2>4. \A m \in Mail(c) \ Mail(c)' : BringsKey(m) => m.key \in spoiled'
    BY <2>2, <2>3 DEF KeysIn, BringsKey
  <2>5. MailsKept(Clients \ {c}) /\ LateKept(Clients \ {c})
    BY <2>1, MailKept, LateElsewhere DEF MailsKept
  <2>6. \A q \in Late(c)' \ Late(c) : q \in Asked(c) /\ (SendsKey(q) => q.content.key \in spoiled')
    BY <2>1, <2>3, LateGrown, AskedTypes, SentSpoilt
  <2> QED
    BY <1>1, <1>2, <2>2, <2>4, <2>5, <2>6, ForgetKeys DEF Forgotten, SomeLost
<1> QED
  BY <1>3, <1>4


\* The server stores the message of a command, or refuses it; requests of the
\* polling thread are none.
LEMMA ServeKeys ==
  ASSUME TypeInv, NEW c \in Clients, Serve(c)
  PROVE  Steady \/ Posted(c) \/ Spoilt(c)
<1> USE DEF net, srv, hist
<1>1. /\ UNCHANGED <<friends, pc, req, rsp, sends, had, leftover>> /\ toServer[c] # <<>>
      /\ toServer' = [toServer EXCEPT ![c] = Tail(@)]
  BY DEF Serve
<1>2. mutex[c] \in Threads /\ pc[c][mutex[c]] = "receive" /\ Threads = {"main", "pull"}
  BY <1>1, WireFacts DEF Threads
<1>3. PICK q \in RequestsOf(c) : q = Head(toServer[c]) /\ q = req[c][mutex[c]]
  BY <1>1, WireFacts
<1>4. Refuse(c, q) \/ LookUp(c, q) \/ Fetch(c, q) \/ Store(c, q)
  BY <1>3 DEF Serve
<1>5. toServer'[c] = <<>>
  BY <1>1, WireFacts DEF TypeInv, DataOK, ConnectionsOK
<1>6. AskedKept(Clients \ {c}) /\ LateKept(Clients)
  BY <1>1, AskedElsewhere, LateUntouched DEF Threads
<1>7. q.kind = "send" => Asked(c) = {q} /\ Asked(c)' = {}
  <2> SUFFICES ASSUME q.kind = "send" PROVE Asked(c) = {q} /\ Asked(c)' = {}
    OBVIOUS
  <2>1. mutex[c] = "main"
    <3>1. mutex[c] # "pull"
      BY <1>2, <1>3, NoneAssumption DEF TypeInv, DataOK, ThreadsOK, ThreadOK, RequestsOf
    <3> QED
      BY <1>2, <3>1
  <2> QED
    BY <1>1, <1>2, <1>3, <1>5, <2>1 DEF Asked, Asking
<1>8. q.kind # "send" => AskedKept(Clients)
  <2> SUFFICES ASSUME q.kind # "send" PROVE Asked(c)' = Asked(c)
    BY <1>6 DEF AskedKept
  <2>1. CASE mutex[c] = "main"
    BY <1>1, <1>3, <2>1 DEF Asked
  <2>2. CASE mutex[c] = "pull"
    <3>1. pc[c]["main"] # "receive"
      BY <1>2, <2>2 DEF TypeInv, ControlOK
    <3> QED
      BY <1>1, <3>1, AskedBeside
  <2> QED
    BY <1>2, <2>1, <2>2
<1>9. KeysKept
  BY <1>1 DEF KeysKept, Sym
<1>10. CASE LookUp(c, q) \/ Fetch(c, q)
  <2>1. q.kind # "send" /\ UNCHANGED spoiled
    BY <1>10 DEF LookUp, Fetch
  <2>2. MailsKept(Clients)
    BY <1>3, <1>10, ServeMoves, MailKept DEF MailsKept
  <2> QED
    BY <1>1, <1>6, <1>8, <1>9, <2>1, <2>2 DEF Steady
<1>11. CASE Refuse(c, q)
  <2>1. MailsKept(Clients)
    BY <1>3, <1>11, ServeMoves, MailKept DEF MailsKept
  <2>2. spoiled' = spoiled \cup KeyOf(q)
    BY <1>11 DEF Refuse
  <2>3. CASE q.kind # "send"
    <3>1. spoiled' = spoiled
      BY <2>2, <2>3 DEF KeyOf
    <3> QED
      BY <1>1, <1>6, <1>8, <1>9, <2>1, <2>3, <3>1 DEF Steady
  <2>4. CASE q.kind = "send"
    <3>1. SendsKey(q) => q.content.key \in spoiled'
      BY <1>3, <2>2, <2>4, NoneAssumption DEF KeyOf, SendsKey, RequestsOf
    <3>2. Mail(c)' = Mail(c) /\ Late(c)' = Late(c) /\ MailsKept(Clients \ {c}) /\ LateKept(Clients \ {c})
      BY <1>6, <2>1 DEF MailsKept, LateKept
    <3>3. SomeLost(c)
      BY <1>1, <1>6, <1>7, <2>2, <2>4, <3>2 DEF SomeLost
    <3> QED
      BY <1>7, <1>9, <2>4, <3>1, <3>3 DEF Spoilt
  <2> QED
    BY <2>3, <2>4
<1>12. CASE Store(c, q)
  <2>1. q.kind = "send" /\ q \in Sends(c) /\ Post(c, q) /\ UNCHANGED spoiled
    BY <1>3, <1>12 DEF Store, Sends
  <2>2. PICK m : m = NewMessage(c, q)
    OBVIOUS
  <2>3. m \in Message /\ m.no = posted + 1 /\ \A d \in Clients : Untouched(d)
    BY <1>3, <1>12, <2>2, ServeMoves
  <2>4. m.from = c /\ m.type = q.content.type /\ m.key = q.content.key
    BY <2>2 DEF NewMessage
  <2>5. q.peer \in Clients /\ box' = [box EXCEPT ![q.peer] = Append(@, m)]
    BY <2>1, <2>2 DEF Post, Sends, RequestsOf
  <2>6. Mail(q.peer)' = Mail(q.peer) \cup {m} /\ MailsKept(Clients \ {q.peer})
    BY <2>3, <2>5, MailStored DEF MailsKept
  <2> QED
    BY <1>1, <1>6, <1>7, <1>9, <2>1, <2>3, <2>4, <2>6 DEF Posted, LateKept
<1> QED
  BY <1>4, <1>10, <1>11, <1>12

\* Its thread leaves one command less behind.
LEMMA LateServed ==
  ASSUME TypeInv, NEW c \in Clients, NEW s \in Slots, ServeLeftover(c, s)
  PROVE  Late(c)' \subseteq Late(c) /\ LateKept(Clients \ {c})
<1>1. leftover' = [leftover EXCEPT ![c][s] = None]
  BY DEF ServeLeftover
<1>2. leftover \in [Clients -> [Slots -> Request \cup {None}]]
  BY DEF TypeInv, LeftoverOK
<1>3. \A d \in Clients \ {c} : leftover'[d] = leftover[d]
  BY <1>1, <1>2
<1>4. \A z \in Slots : leftover'[c][z] \in {leftover[c][z], None}
  BY <1>1, <1>2
<1>5. None \notin Sends(c)' /\ Sends(c)' = Sends(c)
  BY NoneAssumption DEF Sends, RequestsOf
<1>6. Late(c)' \subseteq Late(c)
  BY <1>4, <1>5 DEF Late
<1> QED
  BY <1>3, <1>6, LateUntouched

\* The thread of a lost connection does the same with a command it was left with.
LEMMA LeftoverKeys ==
  ASSUME TypeInv, NEW c \in Clients, NEW s \in Slots, ServeLeftover(c, s)
  PROVE  Posted(c) \/ Spoilt(c)
<1> USE DEF net, srv, hist
<1>1. /\ UNCHANGED <<friends, pc, req, rsp, sends, had, toServer, toClient, handled>>
      /\ leftover' = [leftover EXCEPT ![c][s] = None] /\ leftover[c][s] # None
  BY DEF ServeLeftover
<1>2. PICK q \in RequestsOf(c) : q = leftover[c][s]
  BY <1>1 DEF TypeInv, LeftoverOK
<1>3. AskedKept(Clients)
  BY <1>1 DEF AskedKept, Asked, Asking
<1>4. Late(c)' \subseteq Late(c) /\ LateKept(Clients \ {c})
  BY LateServed
<1>5. KeysKept
  BY <1>1 DEF KeysKept, Sym
<1>6. ASSUME Mail(c)' \subseteq Mail(c), MailsKept(Clients \ {c}), spoiled \subseteq spoiled',
             \A m \in Mail(c) \ Mail(c)' : BringsKey(m) => m.key \in spoiled'
      PROVE  Spoilt(c)
  <2>1. Asked(c)' = Asked(c) /\ AskedKept(Clients \ {c})
    BY <1>3 DEF AskedKept
  <2> QED
    BY <1>1, <1>4, <1>5, <1>6, <2>1 DEF Spoilt, SomeLost
<1>7. CASE spoiled \subseteq spoiled' /\ UNCHANGED <<srv, dropped>>
  <2>1. MailsKept(Clients)
    BY <1>1, <1>7, MailsUntouched
  <2> QED
    BY <1>6, <1>7, <2>1 DEF MailsKept
<1>8. CASE /\ q.kind = "waiting" /\ Empty(c) /\ spoiled' = spoiled \cup KeysIn(ToSet(box[c]))
           /\ dropped' = [dropped EXCEPT ![c] = @ \cup Numbers(ToSet(box[c]))]
  <2>1. Taken(c)
    BY <1>1, <1>8 DEF Empty, Left, Taken, NosOf, Untouched, Carried, InHand
  <2>2. Mail(c)' \subseteq Mail(c) /\ Mail(c) \ Mail(c)' \subseteq ToSet(box[c])
    BY <2>1, MailTaken
  <2>3. MailsKept(Clients \ {c})
    BY <2>1, MailKept DEF MailsKept
  <2>4. \A m \in Mail(c) \ Mail(c)' : BringsKey(m) => m.key \in spoiled'
    BY <1>8, <2>2 DEF KeysIn, BringsKey
  <2> QED
    BY <1>6, <1>8, <2>2, <2>3, <2>4
<1>9. CASE q.kind = "send" /\ Post(c, q) /\ UNCHANGED spoiled
  <2>1. q \in Late(c) /\ q \in Sends(c)
    BY <1>2, <1>9 DEF Late, Sends
  <2>2. PICK m : m = NewMessage(c, q)
    OBVIOUS
  <2>3. m \in Message /\ m.no = posted + 1
    <3>1. q.content \in Content /\ posted + 1 \in Nat
      BY <1>9 DEF RequestsOf, TypeInv, DataOK, MailboxesOK
    <3> QED
      BY <2>2, <3>1 DEF NewMessage, Content, Message
  <2>4. m.from = c /\ m.type = q.content.type /\ m.key = q.content.key
    BY <2>2 DEF NewMessage
  <2>5. q.peer \in Clients /\ box' = [box EXCEPT ![q.peer] = Append(@, m)]
    BY <1>9, <2>2, <2>1 DEF Post, Sends, RequestsOf
  <2>6. \A d \in Clients : Untouched(d)
    BY <1>1 DEF Untouched, Carried, InHand
  <2>7. Mail(q.peer)' = Mail(q.peer) \cup {m} /\ MailsKept(Clients \ {q.peer})
    BY <2>3, <2>5, <2>6, MailStored DEF MailsKept
  <2>8. Asked(c)' = Asked(c) /\ AskedKept(Clients \ {c})
    BY <1>3 DEF AskedKept
  <2> QED
    BY <1>1, <1>4, <1>5, <1>9, <2>1, <2>3, <2>4, <2>7, <2>8 DEF Posted
<1>10. \/ spoiled \subseteq spoiled' /\ UNCHANGED <<srv, dropped>>
       \/ /\ q.kind = "waiting" /\ Empty(c) /\ spoiled' = spoiled \cup KeysIn(ToSet(box[c]))
          /\ dropped' = [dropped EXCEPT ![c] = @ \cup Numbers(ToSet(box[c]))]
       \/ q.kind = "send" /\ Post(c, q) /\ UNCHANGED spoiled
  BY <1>2 DEF ServeLeftover
<1> QED
  BY <1>7, <1>8, <1>9, <1>10

\* While a thread processes a response, what the main thread asks stays.
LEMMA ProcessAsked ==
  ASSUME TypeInv, NEW c \in Clients, NEW t \in Threads, Process(c, t)
  PROVE  AskedKept(Clients) /\ LateKept(Clients) /\ UNCHANGED <<box, sends, spoiled>>
<1> USE DEF net, srv, hist
<1>1. /\ pc[c][t] \in Under /\ UNCHANGED <<toServer, box, sends, spoiled, leftover>>
      /\ UNCHANGED req \/ \E r : req' = [req EXCEPT ![c][t] = r]
  BY DEF Process, Finish, LearnName, Show, Check, Base, StorePublicKey, StoreSymmetricKey, Advance,
         Return, Kind, Under
<1>2. UNCHANGED pc \/ \E step \in {Home(t)} \cup Under : Goto(c, t, step)
  BY DEF Process, Finish, LearnName, Show, Check, Base, StorePublicKey, StoreSymmetricKey, Advance,
         Return, Under
<1>3. /\ pc \in [Clients -> [Threads -> Steps]] /\ Threads = {"main", "pull"}
      /\ req \in [Clients -> [Threads -> Request \cup {None}]]
  BY DEF TypeInv, ControlOK, DataOK, ThreadsOK, Threads
<1>4. Asked(c)' = Asked(c)
  <2>1. CASE t = "main"
    <3>1. pc[c]["main"] \notin {"send", "receive"} /\ pc'[c]["main"] \notin {"send", "receive"}
      BY <1>1, <1>2, <1>3, <2>1 DEF Goto, Home, Under
    <3> QED
      BY <3>1, AskedTypes, NothingAsked
  <2>2. CASE t = "pull"
    <3>1. pc'[c]["main"] = pc[c]["main"] /\ req'[c]["main"] = req[c]["main"]
      BY <1>1, <1>2, <1>3, <2>2 DEF Goto
    <3> QED
      BY <1>1, <3>1 DEF Asked, Asking
  <2> QED
    BY <1>3, <2>1, <2>2
<1> QED
  BY <1>1, <1>2, <1>4, AskedElsewhere, LateUntouched

\* Names and public keys change no symmetric key.
LEMMA CacheKeys ==
  ASSUME TypeInv, NEW c \in Clients, NEW t \in Threads, Process(c, t),
         Finish(c, t) \/ LearnName(c, t) \/ Check(c, t) \/ Base(c, t) \/ StorePublicKey(c, t)
  PROVE  Steady
<1> USE DEF net, srv, hist
<1>1. \A d \in Clients : friends[c][d] \in Friend
  BY DEF TypeInv, FriendsOK
<1>2. UNCHANGED had
  BY DEF Finish, LearnName, Check, Base, StorePublicKey
<1>3. KeysKept
  <2>1. CASE Finish(c, t) \/ Check(c, t)
    BY <1>2, <2>1 DEF Finish, Check, KeysKept, Sym
  <2>2. CASE LearnName(c, t)
    <3>1. rsp[c][t] \in ResponsesTo(c)
      BY <2>2 DEF LearnName, Kind, TypeInv, DataOK, ThreadsOK, ThreadOK, Under
    <3>2. PICK d \in Clients : friends' = [friends EXCEPT ![c][d] = Entry(friends[c][d], TRUE)]
      <4>1. PICK d \in rsp[c][t].names :
              friends' = [friends EXCEPT ![c][d] = Entry(friends[c][d], TRUE)]
        BY <2>2 DEF LearnName
      <4> QED
        BY <3>1, <4>1 DEF ResponsesTo
    <3>3. Entry(friends[c][d], TRUE).sym = friends[c][d].sym
      BY <1>1, EntrySyms
    <3> QED
      BY <1>2, <3>2, <3>3, SymsUntouched
  <2>3. CASE Base(c, t) \/ StorePublicKey(c, t)
    <3>1. PICK d \in Clients : d = Peer(c, t)
      BY <2>3, StoringPeer DEF Base, StorePublicKey
    <3>2. \/ friends' = [friends EXCEPT ![c][d] = Entry(friends[c][d], FALSE)]
          \/ friends' = [friends EXCEPT ![c][d] = NewPublicKey(friends[c][d])]
      BY <2>3, <3>1 DEF Base, StorePublicKey
    <3>3. /\ Entry(friends[c][d], FALSE).sym = friends[c][d].sym
          /\ NewPublicKey(friends[c][d]).sym = friends[c][d].sym
      BY <1>1, EntrySyms
    <3> QED
      BY <1>2, <3>2, <3>3, SymsUntouched
  <2> QED
    BY <2>1, <2>2, <2>3
<1>4. Still
  <2>1. CASE Check(c, t) \/ Base(c, t)
    <3>1. UNCHANGED <<rsp, toClient, srv, handled, dropped>>
      BY <2>1 DEF Check, Base
    <3> QED
      BY <3>1, StillKept
  <2> QED
    BY <2>1, FinishMoves, LearnMoves, KeyMoves
<1>5. MailsKept(Clients)
  BY <1>4, MailKept DEF MailsKept
<1> QED
  BY <1>3, <1>5, ProcessAsked DEF Steady

\* A key is in use from the moment its message is processed.
LEMMA LearnKeys ==
  ASSUME TypeInv, OrderOK, KnownOK, NEW c \in Clients, NEW t \in Threads, Process(c, t),
         Show(c, t) \/ StoreSymmetricKey(c, t)
  PROVE  Handled(c)
<1> USE DEF net, srv, hist
<1>1. Processed(c, t) /\ rsp[c][t].msgs = InHand(c, t)
  BY ProcessMoves
<1>2. PICK h : h = Head(InHand(c, t)) /\ h = Head(rsp[c][t].msgs)
  BY <1>1
<1>3. /\ h \in Mail(c) /\ Mail(c)' \subseteq Mail(c) /\ Mail(c) \subseteq Mail(c)' \cup {h}
      /\ c \notin mixed => \A m \in Mail(c)' : h.no < m.no
  BY <1>1, <1>2, MailProcessed
<1>4. \/ ~BringsKey(h) /\ KeysKept
      \/ BringsKey(h) /\ KeyChanged(c, h.from, h.key)
  <2>1. CASE Show(c, t)
    BY <1>2, <2>1 DEF Show, KeysKept, Sym, BringsKey
  <2>2. CASE StoreSymmetricKey(c, t)
    <3>1. /\ pc[c][t] = "store" /\ rsp[c][t].kind = "waiting" /\ had' = [had EXCEPT ![c] = @ \cup {h.key}]
          /\ friends' = [friends EXCEPT ![c][Peer(c, t)] = NewKey(@, h.key)]
      BY <1>2, <2>2 DEF StoreSymmetricKey
    <3>2. BringsKey(h)
      BY <1>2, <3>1 DEF TypeInv, DataOK, ThreadsOK, ThreadOK, Under, BringsKey
    <3>3. PICK d \in Clients : d = Peer(c, t) /\ d = h.from
      BY <1>2, <3>1, StoringPeer DEF Peer
    <3>4. friends' = [friends EXCEPT ![c][d] = NewKey(friends[c][d], h.key)]
      BY <3>1, <3>3
    <3>5. friends[c][d].known = TRUE /\ friends[c][d] \in Friend
      BY <3>1, <3>3 DEF KnownOK, TypeInv, FriendsOK
    <3>6. NewKey(friends[c][d], h.key).sym = h.key
      BY <3>5, EntrySyms
    <3>7. KeyChanged(c, d, h.key)
      BY <3>1, <3>4, <3>6 DEF KeyChanged, Sym, TypeInv, FriendsOK
    <3> QED
      BY <3>2, <3>3, <3>7
  <2> QED
    BY <2>1, <2>2
<1>5. MailsKept(Clients \ {c})
  BY <1>1, MailKept DEF MailsKept
<1> QED
  BY <1>3, <1>4, <1>5, ProcessAsked DEF Handled

LEMMA KeySteps == TypeInv /\ OrderOK /\ KnownOK /\ StuckOK /\ [Next]_vars => KeyMove
<1> SUFFICES ASSUME TypeInv, OrderOK, KnownOK, StuckOK, [Next]_vars PROVE KeyMove
  OBVIOUS
<1>1. ASSUME NEW c \in Clients, Menu(c) \/ Join(c) \/ Poll(c) \/ StopPolling(c) PROVE KeyMove
  BY <1>1, MenuKeys, SendKeys, EndKeys, StartKeys DEF Menu, KeyMove
<1>2. ASSUME NEW c \in Clients, Serve(c) \/ Break(c) \/ Crash(c) \/ Restart(c) PROVE KeyMove
  BY <1>2, ServeKeys, BreakKeys, EndKeys, StartKeys DEF KeyMove
<1>3. ASSUME NEW c \in Clients, NEW s \in Slots, ServeLeftover(c, s) PROVE KeyMove
  BY <1>3, LeftoverKeys DEF KeyMove
<1>4. ASSUME NEW c \in Clients, NEW t \in Threads, Send(c, t) \/ Receive(c, t) \/ Fail(c, t) PROVE KeyMove
  BY <1>4, WireKeys, FailKeys DEF KeyMove
<1>5. ASSUME NEW c \in Clients, NEW t \in Threads, Process(c, t) PROVE KeyMove
  BY <1>5, CacheKeys, LearnKeys DEF Process, KeyMove
<1>6. CASE UNCHANGED vars
  <2>1. UNCHANGED <<friends, pc, req, rsp, toServer, toClient, box, sends, had, spoiled, leftover>>
    BY <1>6 DEF vars, net, srv, hist
  <2>2. MailsKept(Clients) /\ LateKept(Clients) /\ AskedKept(Clients)
    BY <2>1, MailsUntouched, LateUntouched, OthersAsked
  <2>3. Steady
    BY <2>1, <2>2 DEF Steady, KeysKept, Sym
  <2> QED
    BY <2>3 DEF KeyMove
<1> QED
  BY <1>1, <1>2, <1>3, <1>4, <1>5, <1>6 DEF Next

\* A program whose connection is lost does not get another one.
LEMMA StuckStays ==
  ASSUME TypeInv, [Next]_vars, NEW c \in Clients, Stuck(c)
  PROVE  Stuck(c)' \/ had'[c] = {}
<1> USE DEF net, srv, hist
<1>0. /\ pc \in [Clients -> [Threads -> Steps]] /\ broken \in [Clients -> BOOLEAN]
      /\ Threads = {"main", "pull"} /\ DOMAIN had = Clients
  BY DEF TypeInv, ControlOK, KeysOK, Threads
<1>1. ASSUME UNCHANGED <<pc, broken>> PROVE Stuck(c)'
  BY <1>1 DEF Stuck
<1>2. ASSUME NEW b \in Clients, NEW t \in Threads, NEW step, Goto(b, t, step), UNCHANGED broken,
             b # c \/ t # "main" \/ step = "join"
      PROVE  Stuck(c)'
  <2>1. pc'[c]["main"] = pc[c]["main"] \/ pc'[c]["main"] = "join"
    BY <1>0, <1>2 DEF Goto
  <2> QED
    BY <1>2, <2>1 DEF Stuck
<1>3. ASSUME NEW b \in Clients, Menu(b) PROVE Stuck(c)'
  <2>1. pc[b]["main"] = "menu" /\ UNCHANGED broken
    BY <1>3 DEF Menu, AskServer, AskPublicKey, RequestKey, SendText, SendKey, SendCommand, Exit
  <2>2. \E step : Goto(b, "main", step)
    BY <1>3 DEF Menu, AskServer, AskPublicKey, RequestKey, SendText, SendKey, SendCommand, Exit, Prepare
  <2> QED
    BY <1>0, <1>2, <2>1, <2>2 DEF Stuck
<1>4. ASSUME NEW b \in Clients, Poll(b) \/ StopPolling(b) PROVE Stuck(c)'
  <2>1. UNCHANGED broken /\ \E step : Goto(b, "pull", step)
    BY <1>4 DEF Poll, StopPolling, Prepare
  <2> QED
    BY <1>0, <1>2, <2>1
<1>5. ASSUME NEW b \in Clients, Join(b) \/ Crash(b) PROVE Stuck(c)' \/ had'[c] = {}
  <2>1. Forget(b) /\ \A d \in Clients \ {b} : broken'[d] = broken[d]
    BY <1>0, <1>5 DEF Join, Crash
  <2> QED
    BY <1>0, <2>1, ForgetKeys DEF Stuck
<1>6. ASSUME NEW b \in Clients, Serve(b) \/ \E s \in Slots : ServeLeftover(b, s) PROVE Stuck(c)'
  BY <1>1, <1>6 DEF Serve, ServeLeftover
<1>7. ASSUME NEW b \in Clients, Break(b) PROVE Stuck(c)'
  BY <1>0, <1>7 DEF Break, Stuck
<1>8. ASSUME NEW b \in Clients, Restart(b) PROVE Stuck(c)'
  BY <1>0, <1>8 DEF Restart, Stuck
<1>9. ASSUME NEW b \in Clients, NEW t \in Threads, Send(b, t) PROVE Stuck(c)'
  <2>1. Goto(b, t, "receive") /\ UNCHANGED broken /\ pc[b][t] = "send"
    BY <1>9 DEF Send
  <2> QED
    BY <1>2, <2>1 DEF Stuck
<1>10. ASSUME NEW b \in Clients, NEW t \in Threads, Receive(b, t) PROVE Stuck(c)'
  <2>1. Goto(b, t, "process") /\ UNCHANGED broken /\ toClient[b] # <<>>
    BY <1>10 DEF Receive
  <2>2. b # c
    BY <2>1 DEF Stuck, TypeInv, DataOK, BrokenOK
  <2> QED
    BY <1>2, <2>1, <2>2
<1>11. ASSUME NEW b \in Clients, NEW t \in Threads, Fail(b, t) PROVE Stuck(c)'
  <2>1. Goto(b, t, IF t = "main" THEN "join" ELSE "sleep") /\ UNCHANGED broken
    BY <1>11 DEF Fail
  <2> QED
    BY <1>2, <2>1
<1>12. ASSUME NEW b \in Clients, NEW t \in Threads, Process(b, t) PROVE Stuck(c)'
  <2>1. pc[b][t] \in Under /\ UNCHANGED broken
    BY <1>12 DEF Process, Finish, LearnName, Show, Check, Base, StorePublicKey, StoreSymmetricKey,
                 Kind, Under
  <2>2. UNCHANGED pc \/ \E step : Goto(b, t, step)
    BY <1>12 DEF Process, Finish, LearnName, Show, Check, Base, StorePublicKey, StoreSymmetricKey,
                 Advance, Return
  <2>3. b # c \/ t # "main"
    BY <2>1 DEF Stuck, Under
  <2> QED
    BY <1>1, <1>2, <2>1, <2>2, <2>3
<1>13. CASE UNCHANGED vars
  BY <1>1, <1>13 DEF vars
<1> QED
  BY <1>3, <1>4, <1>5, <1>6, <1>7, <1>8, <1>9, <1>10, <1>11, <1>12, <1>13 DEF Next

\* A command is left behind by a program that is stuck, or has ended.
LEMMA LeftStuck ==
  ASSUME TypeInv, [Next]_vars, NEW c \in Clients, NEW q \in Late(c)' \ Late(c)
  PROVE  had'[c] = {} \/ (q \in Asked(c) /\ Stuck(c)')
<1> USE DEF net, srv, hist
<1>0. broken \in [Clients -> BOOLEAN] /\ DOMAIN had = Clients
  BY DEF TypeInv, ControlOK, KeysOK
<1>1. ~UNCHANGED leftover
  BY LateUntouched DEF LateKept
<1>2. PICK b \in Clients : Break(b) \/ Crash(b) \/ \E s \in Slots : ServeLeftover(b, s)
  <2>1. \A b \in Clients : ~Menu(b)
    BY <1>1 DEF Menu, AskServer, AskPublicKey, RequestKey, SendText, SendKey, SendCommand, Exit
  <2>2. \A b \in Clients : ~(Join(b) \/ Poll(b) \/ StopPolling(b) \/ Serve(b) \/ Restart(b))
    BY <1>1 DEF Join, Poll, StopPolling, Serve, Restart
  <2>3. \A b \in Clients, t \in Threads : ~(Send(b, t) \/ Receive(b, t) \/ Fail(b, t))
    BY <1>1 DEF Send, Receive, Fail
  <2>4. ASSUME NEW b \in Clients, NEW t \in Threads, Process(b, t) PROVE UNCHANGED leftover
    BY <2>4 DEF Process, Finish, LearnName, Show, Check, Base, StorePublicKey, StoreSymmetricKey
  <2>5. ~UNCHANGED vars
    BY <1>1 DEF vars
  <2> QED
    BY <1>1, <2>1, <2>2, <2>3, <2>4, <2>5 DEF Next
<1>3. Break(b) \/ Crash(b) => LeaveBehind(b)
  BY DEF Break, Crash
<1>4. b = c /\ ~\E s \in Slots : ServeLeftover(b, s)
  BY <1>2, <1>3, LateElsewhere, LateServed DEF LateKept
<1>5. CASE Break(c)
  <2>1. UNCHANGED pc /\ broken'[c] = TRUE
    BY <1>0, <1>5 DEF Break
  <2> QED
    BY <1>3, <1>4, <1>5, <2>1, LateGrown DEF Stuck
<1>6. CASE Crash(c)
  BY <1>0, <1>6 DEF Crash, Forget
<1> QED
  BY <1>2, <1>4, <1>5, <1>6

-----------------------------------------------------------------------------
(* Who has which key *)

Pair(key, c, d)    == key.by = c /\ key.to = d
Between(key, c, d) == Pair(key, c, d) \/ Pair(key, d, c)

\* Whoever made a key has it, until the program ends.
Owned(key) == key \in spoiled \/ key \in had[key.by]

\* A message with a key is yet to be processed; the keys c will have had when it
\* gets to m.
Coming(c, key) == \E m \in Mail(c) : BringsKey(m) /\ m.key = key
Older(c, m) == had[c] \cup {key \in Key : \E o \in Mail(c) : BringsKey(o) /\ o.key = key /\ o.no < m.no}

\* The keys of a program are numbered, and it uses one for every friend it has
\* made one for.
HadOK ==
  \A c \in Clients : \A key \in had[c] :
    Owned(key) /\ (key.by = c => key.n \in 1..sends /\ Sym(c, key.to) # None)

\* A key in the cache is one of the two friends'; an own one is the newest.
SymOK ==
  \A c, d \in Clients : Sym(c, d) # None =>
    /\ Sym(c, d) \in had[c] /\ Between(Sym(c, d), c, d)
    /\ Pair(Sym(c, d), c, d) => \A key \in Made(c, d) : key.n <= Sym(c, d).n

\* So are the keys of messages, and of commands to send them.
KeyOK(brings, text, key, c, d) ==
  /\ brings => Pair(key, c, d) /\ Owned(key)
  /\ text => key # None /\ Between(key, c, d) /\ Owned(key)
MailOK ==
  \A c \in Clients : \A m \in Mail(c) : KeyOK(BringsKey(m), m.type = "text", m.key, m.from, c)
CommandsOK ==
  \A c \in Clients : \A q \in Asked(c) \cup Late(c) :
    /\ KeyOK(SendsKey(q), SendsText(q), q.content.key, c, q.peer)
    /\ q \in Late(c) /\ SendsKey(q) => q.content.key \in spoiled

\* A key is about to be sent, or waits for the friend, or the friend has it.
Accounted ==
  \A c, d \in Clients : \A key \in Made(c, d) :
    \/ \E q \in Asked(c) : SendsKey(q) /\ q.content.key = key
    \/ Coming(d, key) \/ key \in had[d]

\* A key is sent once, and before the texts encrypted with it, and neither while
\* there is a newer one.
SendingOK ==
  \A c, d \in Clients : \A q \in Asked(c) \cup Late(c) : q.content.key \in Made(c, d) =>
    /\ SendsKey(q) => ~Coming(d, q.content.key) /\ q.content.key \notin had[d]
    /\ SendsText(q) => Coming(d, q.content.key) \/ q.content.key \in had[d]
    /\ SendsKey(q) \/ SendsText(q) => \A key \in Made(c, d) : key.n <= q.content.key.n

\* So it is when they wait, for a client whose threads take turns.
WaitingOK ==
  \A c \in Clients \ mixed, d \in Clients : \A m \in Mail(c) : m.key \in Made(d, c) =>
    /\ BringsKey(m) => m.key \notin Older(c, m)
    /\ m.type = "text" => m.key \in Older(c, m)
    /\ BringsKey(m) \/ m.type = "text" => \A key \in Older(c, m) \cap Made(d, c) : key.n <= m.key.n

\* Such a client has the newest of the friend's keys it has got, or one of its own.
CacheOK ==
  \A c \in Clients \ mixed, d \in Clients : \A key \in had[c] \cap Made(d, c) : c # d =>
    /\ Sym(c, d) # None
    /\ Sym(c, d) \in spoiled \/ Sym(c, d).by = c \/ key.n <= Sym(c, d).n

\* Two friends do not both stay with a key of their own that the other has got.
Stubborn(c, d) == Sym(c, d) \in Made(c, d) /\ Sym(c, d) \in had[d]
NotBoth == \A c, d \in Clients : c # d => ~(Stubborn(c, d) /\ Stubborn(d, c))

KeysInv ==
  /\ TypeInv /\ HadOK /\ SymOK /\ MailOK /\ CommandsOK /\ Accounted /\ SendingOK
  /\ WaitingOK /\ CacheOK /\ NotBoth

LEMMA KeyTypes ==
  ASSUME TypeInv
  PROVE  /\ sends \in Nat /\ posted \in Nat /\ had \in [Clients -> SUBSET Key] /\ spoiled \subseteq Key
         /\ None \notin Key /\ \A key \in Key : key.by \in Clients /\ key.to \in Clients /\ key.n \in Nat
         /\ \A c, d \in Clients : Sym(c, d) \in Key \cup {None}
         /\ \A c \in Clients :
              /\ \A m \in Mail(c) : /\ m.from \in Clients /\ m.from # c /\ m.no \in Nat /\ m.no <= posted
                                    /\ m.key \in Key \cup {None} /\ BringsKey(m) => m.key \in Key
              /\ \A q \in Sends(c) : /\ q.peer \in Clients /\ q.peer # c
                                     /\ q.content.key \in Key \cup {None}
                                     /\ SendsKey(q) => q.content.key \in Key
              /\ Asked(c) \cup Late(c) \subseteq Sends(c)
<1>1. /\ sends \in Nat /\ posted \in Nat /\ had \in [Clients -> SUBSET Key] /\ spoiled \subseteq Key
      /\ None \notin Key /\ \A key \in Key : key.by \in Clients /\ key.to \in Clients /\ key.n \in Nat
  BY NoneAssumption, ClientsAssumption DEF TypeInv, DataOK, MailboxesOK, KeysOK, Key
<1>2. \A c, d \in Clients : Sym(c, d) \in Key \cup {None}
  BY DEF Sym, TypeInv, FriendsOK, Friend
<1>3. ASSUME NEW c \in Clients, NEW m \in Mail(c)
      PROVE  /\ m.from \in Clients /\ m.from # c /\ m.no \in Nat /\ m.no <= posted
             /\ m.key \in Key \cup {None} /\ BringsKey(m) => m.key \in Key
  BY <1>1, <1>3, MailTypes DEF MailFor, Message, BringsKey
<1>4. ASSUME NEW c \in Clients, NEW q \in Sends(c)
      PROVE  /\ q.peer \in Clients /\ q.peer # c /\ q.content.key \in Key \cup {None}
             /\ SendsKey(q) => q.content.key \in Key
  BY <1>4 DEF Sends, RequestsOf, Content, SendsKey
<1>5. \A c \in Clients : Asked(c) \cup Late(c) \subseteq Sends(c)
  BY AskedTypes DEF Late
<1> QED
  BY <1>1, <1>2, <1>3, <1>4, <1>5

\* A new key has not been seen anywhere.
LEMMA NewKeyFacts ==
  ASSUME TypeInv, HadOK, NEW c \in Clients, NEW key, key.by = c, key.n = sends + 1
  PROVE  key \notin had[c] /\ (Owned(key) => key \in spoiled)
<1>1. key \notin had[c]
  BY KeyTypes DEF HadOK
<1> QED
  BY <1>1 DEF Owned

\* Programs get keys; they lose them all when they end, and then those are spoiled.
LEMMA KeysGrow ==
  ASSUME KeysInv, KeyMove
  PROVE  /\ spoiled \subseteq spoiled' /\ \A c \in Clients : had[c] \subseteq had'[c] \cup spoiled'
         /\ \A key \in Key : Owned(key) => Owned(key)'
         /\ \A c, d \in Clients : \A key \in Key : Owned(key) /\ key \in Made(c, d)' => key \in Made(c, d)
<1>1. /\ spoiled \subseteq spoiled'
      /\ \A c \in Clients : had[c] \subseteq had'[c] \cup spoiled'
  <2>1. CASE Steady
    BY <2>1 DEF Steady, KeysKept
  <2>2. ASSUME NEW c \in Clients, Commanded(c) \/ Posted(c) \/ Handled(c) \/ Spoilt(c)
        PROVE  spoiled \subseteq spoiled' /\ \A d \in Clients : had[d] \subseteq had'[d]
    <3>1. spoiled \subseteq spoiled'
      BY <2>2 DEF Commanded, Commanding, Posted, Handled, Spoilt, SomeLost
    <3>2. UNCHANGED had \/ \E key : had' = [had EXCEPT ![c] = @ \cup {key}]
      BY <2>2 DEF Commanded, Posted, Handled, Spoilt, KeysKept, KeyChanged
    <3> QED
      BY <3>1, <3>2, KeyTypes DEF KeysInv
  <2>3. ASSUME NEW c \in Clients, Forgotten(c)
        PROVE  spoiled \subseteq spoiled' /\ \A d \in Clients : had[d] \subseteq had'[d] \cup spoiled'
    BY <2>3, KeyTypes DEF Forgotten, SomeLost, KeysInv
  <2> QED
    BY <2>1, <2>2, <2>3 DEF KeyMove
<1>2. \A key \in Key : Owned(key) => Owned(key)'
  BY <1>1, KeyTypes DEF Owned, KeysInv
<1> QED
  BY <1>1, <1>2 DEF Owned, Made

\* The changes of a command, with the names of what changes.
LEMMA CommandFacts ==
  ASSUME KeysInv, NEW x \in Clients, Commanded(x)
  PROVE  \E q \in Sends(x) :
           /\ Commanding(x, q) /\ q.peer \in Clients \ {x}
           /\ \/ /\ ~SendsKey(q) /\ KeysKept
                 /\ SendsText(q) => q.content.key = Sym(x, q.peer) /\ q.content.key # None
              \/ /\ SendsKey(q) /\ ~SendsText(q) /\ q.content.key \in Key
                 /\ Sym(x, q.peer)' = q.content.key
                 /\ \A b, e \in Clients : b # x \/ e # q.peer => Sym(b, e)' = Sym(b, e)
                 /\ had'[x] = had[x] \cup {q.content.key} /\ \A b \in Clients \ {x} : had'[b] = had[b]
                 /\ q.content.key.by = x /\ q.content.key.to = q.peer /\ q.content.key.n = sends + 1
                 /\ q.content.key \notin had[x] /\ (Owned(q.content.key) => q.content.key \in spoiled)
<1>1. PICK q \in Sends(x) :
        /\ Commanding(x, q)
        /\ \/ ~SendsKey(q) /\ ~SendsText(q) /\ KeysKept
           \/ SendsText(q) /\ KeysKept /\ q.content.key = Sym(x, q.peer) /\ q.content.key # None
           \/ /\ SendsKey(q) /\ KeyChanged(x, q.peer, q.content.key)
              /\ q.content.key = [by |-> x, to |-> q.peer, n |-> sends + 1]
  BY DEF Commanded
<1>2. q.peer \in Clients \ {x} /\ (SendsKey(q) => q.content.key \in Key)
  BY KeyTypes DEF KeysInv
<1>3. ~(SendsKey(q) /\ SendsText(q))
  BY DEF SendsKey, SendsText
<1>4. CASE ~SendsKey(q)
  BY <1>1, <1>2, <1>4
<1>5. CASE SendsKey(q)
  <2>0. /\ KeyChanged(x, q.peer, q.content.key)
        /\ q.content.key = [by |-> x, to |-> q.peer, n |-> sends + 1]
    BY <1>1, <1>3, <1>5
  <2>1. q.content.key.by = x /\ q.content.key.to = q.peer /\ q.content.key.n = sends + 1
    BY <2>0
  <2>2. q.content.key \notin had[x] /\ (Owned(q.content.key) => q.content.key \in spoiled)
    BY <2>1, NewKeyFacts DEF KeysInv
  <2>3. had'[x] = had[x] \cup {q.content.key} /\ \A b \in Clients \ {x} : had'[b] = had[b]
    BY <2>0, KeyTypes DEF KeyChanged, KeysInv
  <2> QED
    BY <1>1, <1>2, <1>3, <1>5, <2>0, <2>1, <2>2, <2>3 DEF KeyChanged
<1> QED
  BY <1>1, <1>4, <1>5

\* The changes when a message is processed.
LEMMA HandlingFacts ==
  ASSUME KeysInv, NEW x \in Clients, Handled(x)
  PROVE  \E h \in Mail(x) :
           /\ Mail(x)' \subseteq Mail(x) /\ Mail(x) \subseteq Mail(x)' \cup {h}
           /\ x \notin mixed => \A m \in Mail(x)' : h.no < m.no
           /\ h.from \in Clients \ {x}
           /\ \/ ~BringsKey(h) /\ KeysKept
              \/ /\ BringsKey(h) /\ h.key \in Key /\ Pair(h.key, h.from, x) /\ Owned(h.key)
                 /\ Sym(x, h.from)' = h.key
                 /\ \A b, e \in Clients : b # x \/ e # h.from => Sym(b, e)' = Sym(b, e)
                 /\ had'[x] = had[x] \cup {h.key} /\ \A b \in Clients \ {x} : had'[b] = had[b]
<1>1. PICK h \in Mail(x) :
        /\ Mail(x)' \subseteq Mail(x) /\ Mail(x) \subseteq Mail(x)' \cup {h}
        /\ x \notin mixed => \A m \in Mail(x)' : h.no < m.no
        /\ \/ ~BringsKey(h) /\ KeysKept
           \/ BringsKey(h) /\ KeyChanged(x, h.from, h.key)
  BY DEF Handled
<1>2. h.from \in Clients \ {x} /\ (BringsKey(h) => h.key \in Key)
  <2>1. TypeInv
    BY DEF KeysInv
  <2>2. h \in MailFor(x)
    BY <2>1, MailTypes
  <2> QED
    BY <2>2 DEF MailFor, Message, BringsKey
<1>3. BringsKey(h) => Pair(h.key, h.from, x) /\ Owned(h.key)
  BY DEF KeysInv, MailOK, KeyOK
<1>4. KeyChanged(x, h.from, h.key)
        => had'[x] = had[x] \cup {h.key} /\ \A b \in Clients \ {x} : had'[b] = had[b]
  BY KeyTypes DEF KeyChanged, KeysInv
<1> QED
  BY <1>1, <1>2, <1>3, <1>4 DEF KeyChanged

-----------------------------------------------------------------------------
(* Every step keeps it so *)

LEMMA HadStep == KeysInv /\ KeyMove => HadOK'
<1> SUFFICES ASSUME KeysInv, KeyMove, NEW c \in Clients, NEW key \in had'[c]
             PROVE  Owned(key)' /\ (key.by = c => key.n \in (1..sends)' /\ Sym(c, key.to)' # None)
  BY DEF HadOK
<1> DEFINE Good == Owned(key)' /\ (key.by = c => key.n \in (1..sends)' /\ Sym(c, key.to)' # None)
<1>0. /\ sends \in Nat /\ had \in [Clients -> SUBSET Key] /\ None \notin Key
      /\ \A k \in Key : k.by \in Clients /\ k.to \in Clients /\ k.n \in Nat
  BY KeyTypes DEF KeysInv
<1>1. ASSUME key \in had[c]
      PROVE  key \in Key /\ Owned(key)' /\ (key.by = c => key.n \in 1..sends /\ Sym(c, key.to) # None)
  BY <1>0, <1>1, KeysGrow DEF KeysInv, HadOK
<1>2. ASSUME KeysKept, sends' \in {sends, sends + 1} PROVE Good
  <2>1. key \in had[c]
    BY <1>2 DEF KeysKept
  <2> QED
    BY <1>0, <1>1, <1>2, <2>1 DEF KeysKept
<1>3. CASE Steady
  BY <1>2, <1>3 DEF Steady
<1>4. ASSUME NEW x \in Clients, Commanded(x) PROVE Good
  <2>1. PICK q \in Sends(x) :
           /\ Commanding(x, q) /\ q.peer \in Clients \ {x}
           /\ \/ ~SendsKey(q) /\ KeysKept
              \/ /\ SendsKey(q) /\ q.content.key \in Key
                 /\ Sym(x, q.peer)' = q.content.key
                 /\ \A b, e \in Clients : b # x \/ e # q.peer => Sym(b, e)' = Sym(b, e)
                 /\ had'[x] = had[x] \cup {q.content.key} /\ \A b \in Clients \ {x} : had'[b] = had[b]
                 /\ q.content.key.by = x /\ q.content.key.to = q.peer /\ q.content.key.n = sends + 1
    BY <1>4, CommandFacts
  <2>2. sends' = sends + 1
    BY <2>1 DEF Commanding
  <2>3. CASE KeysKept
    BY <1>2, <2>2, <2>3
  <2>4. CASE key = q.content.key /\ c = x /\ SendsKey(q)
    BY <1>0, <2>1, <2>2, <2>4 DEF Owned, KeysKept
  <2>5. CASE key \in had[c] /\ SendsKey(q)
    BY <1>0, <1>1, <2>1, <2>2, <2>5
  <2> QED
    BY <2>1, <2>3, <2>4, <2>5
<1>5. ASSUME NEW x \in Clients, Posted(x) \/ Spoilt(x) PROVE Good
  BY <1>2, <1>5 DEF Posted, Spoilt, SomeLost
<1>6. ASSUME NEW x \in Clients, Handled(x) PROVE Good
  <2>1. PICK h \in Mail(x) :
           /\ h.from \in Clients \ {x}
           /\ \/ ~BringsKey(h) /\ KeysKept
              \/ /\ BringsKey(h) /\ h.key \in Key /\ Pair(h.key, h.from, x) /\ Owned(h.key)
                 /\ Sym(x, h.from)' = h.key
                 /\ \A b, e \in Clients : b # x \/ e # h.from => Sym(b, e)' = Sym(b, e)
                 /\ had'[x] = had[x] \cup {h.key} /\ \A b \in Clients \ {x} : had'[b] = had[b]
    BY <1>6, HandlingFacts
  <2>2. UNCHANGED sends
    BY <1>6 DEF Handled
  <2>3. CASE KeysKept
    BY <1>2, <2>2, <2>3
  <2>4. CASE key = h.key /\ c = x /\ BringsKey(h) /\ ~KeysKept
    BY <2>1, <2>4, KeysGrow DEF Pair
  <2>5. CASE key \in had[c] /\ BringsKey(h) /\ ~KeysKept
    BY <1>0, <1>1, <2>1, <2>2, <2>5
  <2> QED
    BY <2>1, <2>3, <2>4, <2>5
<1>7. ASSUME NEW x \in Clients, Forgotten(x) PROVE Good
  <2>1. c # x /\ had'[c] = had[c] /\ UNCHANGED sends /\ \A d \in Clients : Sym(c, d)' = Sym(c, d)
    BY <1>0, <1>7 DEF Forgotten, SomeLost
  <2> QED
    BY <1>0, <1>1, <2>1
<1> QED
  BY <1>3, <1>4, <1>5, <1>6, <1>7 DEF KeyMove

LEMMA SymStep == KeysInv /\ KeyMove => SymOK'
<1> SUFFICES ASSUME KeysInv, KeyMove, NEW c \in Clients, NEW d \in Clients, Sym(c, d)' # None
             PROVE  /\ Sym(c, d)' \in had'[c] /\ Between(Sym(c, d)', c, d)
                    /\ Pair(Sym(c, d)', c, d) => \A key \in Made(c, d)' : key.n <= Sym(c, d)'.n
  BY DEF SymOK, Between, Pair
<1> DEFINE Good == /\ Sym(c, d)' \in had'[c] /\ Between(Sym(c, d)', c, d)
                   /\ Pair(Sym(c, d)', c, d) => \A key \in Made(c, d)' : key.n <= Sym(c, d)'.n
<1>0. /\ sends \in Nat /\ had \in [Clients -> SUBSET Key] /\ None \notin Key
      /\ \A k \in Key : k.by \in Clients /\ k.to \in Clients /\ k.n \in Nat
  BY KeyTypes DEF KeysInv
<1>1. spoiled \subseteq spoiled'
  BY KeysGrow
<1>2. ASSUME Sym(c, d)' = Sym(c, d), had[c] \subseteq had'[c], Made(c, d)' \subseteq Made(c, d) PROVE Good
  BY <1>2 DEF KeysInv, SymOK
<1>3. ASSUME had'[c] = had[c] PROVE Made(c, d)' \subseteq Made(c, d)
  BY <1>1, <1>3 DEF Made
<1>4. ASSUME KeysKept PROVE Good
  BY <1>2, <1>3, <1>4 DEF KeysKept
<1>5. ASSUME NEW x \in Clients, Commanded(x) PROVE Good
  <2>1. PICK q \in Sends(x) :
              \/ KeysKept
              \/ /\ q.content.key \in Key /\ q.peer \in Clients \ {x}
                 /\ Sym(x, q.peer)' = q.content.key
                 /\ \A b, e \in Clients : b # x \/ e # q.peer => Sym(b, e)' = Sym(b, e)
                 /\ had'[x] = had[x] \cup {q.content.key} /\ \A b \in Clients \ {x} : had'[b] = had[b]
                 /\ q.content.key.by = x /\ q.content.key.to = q.peer /\ q.content.key.n = sends + 1
    BY <1>5, CommandFacts
  <2>2. CASE ~KeysKept /\ c = x /\ d = q.peer
    <3>1. \A key \in Made(c, d)' : key = q.content.key \/ (key \in had[c] /\ key.by = c)
      BY <2>1, <2>2 DEF Made
    <3>2. \A key \in Made(c, d)' : key.n <= q.content.key.n
      BY <1>0, <2>1, <2>2, <3>1 DEF KeysInv, HadOK
    <3> QED
      BY <2>1, <2>2, <3>2 DEF Between, Pair
  <2>3. CASE ~KeysKept /\ (c # x \/ d # q.peer)
    <3>1. Sym(c, d)' = Sym(c, d) /\ had[c] \subseteq had'[c]
      BY <2>1, <2>3
    <3>2. Made(c, d)' \subseteq Made(c, d)
      BY <1>1, <2>1, <2>3 DEF Made
    <3> QED
      BY <1>2, <3>1, <3>2
  <2> QED
    BY <1>4, <2>2, <2>3
<1>6. ASSUME NEW x \in Clients, Handled(x) PROVE Good
  <2>1. PICK h \in Mail(x) :
              \/ KeysKept
              \/ /\ h.key \in Key /\ Pair(h.key, h.from, x) /\ h.from \in Clients \ {x}
                 /\ Sym(x, h.from)' = h.key
                 /\ \A b, e \in Clients : b # x \/ e # h.from => Sym(b, e)' = Sym(b, e)
                 /\ had'[x] = had[x] \cup {h.key} /\ \A b \in Clients \ {x} : had'[b] = had[b]
    BY <1>6, HandlingFacts
  <2>2. CASE ~KeysKept /\ c = x /\ d = h.from
    BY <2>1, <2>2 DEF Between, Pair
  <2>3. CASE ~KeysKept /\ (c # x \/ d # h.from)
    <3>1. Sym(c, d)' = Sym(c, d) /\ had[c] \subseteq had'[c]
      BY <2>1, <2>3
    <3>2. Made(c, d)' \subseteq Made(c, d)
      BY <1>1, <2>1, <2>3 DEF Made, Pair
    <3> QED
      BY <1>2, <3>1, <3>2
  <2> QED
    BY <1>4, <2>2, <2>3
<1>7. ASSUME NEW x \in Clients, Forgotten(x) PROVE Good
  <2>1. c # x /\ Sym(c, d)' = Sym(c, d) /\ had'[c] = had[c]
    BY <1>0, <1>7 DEF Forgotten
  <2> QED
    BY <1>2, <1>3, <2>1
<1> QED
  BY <1>4, <1>5, <1>6, <1>7 DEF KeyMove, Steady, Posted, Spoilt

\* The key of a command is one of the two friends'.
LEMMA CommandKeyOK ==
  ASSUME KeysInv, KeyMove, NEW x \in Clients, Commanded(x)
  PROVE  \A q \in Asked(x)' : KeyOK(SendsKey(q), SendsText(q), q.content.key, x, q.peer)'
<1>1. PICK q \in Sends(x) :
           /\ Commanding(x, q) /\ q.peer \in Clients \ {x}
           /\ \/ /\ ~SendsKey(q) /\ KeysKept
                 /\ SendsText(q) => q.content.key = Sym(x, q.peer) /\ q.content.key # None
              \/ /\ SendsKey(q) /\ ~SendsText(q) /\ q.content.key \in Key
                 /\ had'[x] = had[x] \cup {q.content.key}
                 /\ q.content.key.by = x /\ q.content.key.to = q.peer
  BY CommandFacts
<1>2. Asked(x)' = {q}
  BY <1>1 DEF Commanding
<1>3. SendsKey(q) => Pair(q.content.key, x, q.peer) /\ Owned(q.content.key)'
  BY <1>1 DEF Pair, Owned
<1>4. SendsText(q) => /\ q.content.key # None /\ Between(q.content.key, x, q.peer)
                      /\ Owned(q.content.key)'
  <2> SUFFICES ASSUME SendsText(q) PROVE /\ q.content.key # None /\ Between(q.content.key, x, q.peer)
                                         /\ Owned(q.content.key)'
    OBVIOUS
  <2>1. q.content.key = Sym(x, q.peer) /\ q.content.key # None /\ q.peer \in Clients
    BY <1>1
  <2>2. q.content.key \in had[x] /\ Between(q.content.key, x, q.peer)
    BY <2>1 DEF KeysInv, SymOK
  <2>3. q.content.key \in Key
    BY <2>2, KeyTypes DEF KeysInv
  <2>4. Owned(q.content.key)
    BY <2>2 DEF KeysInv, HadOK
  <2> QED
    BY <2>1, <2>2, <2>3, <2>4, KeysGrow
<1> QED
  BY <1>2, <1>3, <1>4 DEF KeyOK, Pair, Between, SendsKey, SendsText

\* What is posted was asked for.
LEMMA PostFacts ==
  ASSUME KeysInv, NEW x \in Clients, Posted(x)
  PROVE  \E q \in Sends(x), m \in Message :
           /\ m.no = posted + 1 /\ m.from = x /\ m.key = q.content.key
           /\ BringsKey(m) <=> SendsKey(q)
           /\ m.type = "text" <=> SendsText(q)
           /\ q.peer \in Clients \ {x} /\ q \in Asked(x) \cup Late(x)
           /\ KeyOK(SendsKey(q), SendsText(q), q.content.key, x, q.peer)
           /\ Mail(q.peer)' = Mail(q.peer) \cup {m} /\ MailsKept(Clients \ {q.peer})
           /\ \/ Asked(x) = {q} /\ Asked(x)' = {} /\ LateKept(Clients)
              \/ /\ q \in Late(x) /\ Late(x)' \subseteq Late(x) /\ Asked(x)' = Asked(x)
                 /\ SendsKey(q) => q.content.key \in spoiled
<1>1. PICK q \in Sends(x), m \in Message :
        /\ m.no = posted + 1 /\ m.from = x /\ m.type = q.content.type /\ m.key = q.content.key
        /\ Mail(q.peer)' = Mail(q.peer) \cup {m} /\ MailsKept(Clients \ {q.peer})
        /\ \/ Asked(x) = {q} /\ Asked(x)' = {} /\ LateKept(Clients)
           \/ q \in Late(x) /\ Late(x)' \subseteq Late(x) /\ Asked(x)' = Asked(x)
  BY DEF Posted
<1>2. q \in Asked(x) \cup Late(x)
  BY <1>1
<1>3. /\ KeyOK(SendsKey(q), SendsText(q), q.content.key, x, q.peer)
      /\ q \in Late(x) /\ SendsKey(q) => q.content.key \in spoiled
  BY <1>2 DEF KeysInv, CommandsOK
<1>4. q.peer \in Clients \ {x}
  BY DEF Sends, RequestsOf
<1>5. (BringsKey(m) <=> SendsKey(q)) /\ (m.type = "text" <=> SendsText(q))
  BY <1>1 DEF BringsKey, SendsKey, SendsText
<1> QED
  BY <1>1, <1>2, <1>3, <1>4, <1>5

LEMMA MailStep == KeysInv /\ KeyMove => MailOK'
<1> SUFFICES ASSUME KeysInv, KeyMove, NEW c \in Clients, NEW m \in Mail(c)'
             PROVE  KeyOK(BringsKey(m), m.type = "text", m.key, m.from, c)'
  BY DEF MailOK
<1> DEFINE Good == KeyOK(BringsKey(m), m.type = "text", m.key, m.from, c)'
<1>1. ASSUME m \in Mail(c) PROVE Good
  <2>1. m \in MailFor(c)
    BY <1>1, MailTypes DEF KeysInv
  <2>2. m.key \in Key \cup {None} /\ (BringsKey(m) => m.key \in Key)
    BY <2>1 DEF MailFor, Message, BringsKey
  <2>3. KeyOK(BringsKey(m), m.type = "text", m.key, m.from, c)
    BY <1>1 DEF KeysInv, MailOK
  <2>4. m.key \in Key /\ Owned(m.key) => Owned(m.key)'
    BY KeysGrow
  <2> QED
    BY <2>2, <2>3, <2>4 DEF KeyOK, BringsKey, Pair, Between
<1>2. ASSUME MailsKept(Clients) PROVE Good
  BY <1>1, <1>2 DEF MailsKept
<1>3. ASSUME NEW x \in Clients, Posted(x) PROVE Good
  <2>1. PICK q \in Sends(x), n \in Message :
           /\ n.no = posted + 1 /\ n.from = x /\ n.key = q.content.key
           /\ BringsKey(n) <=> SendsKey(q)
           /\ n.type = "text" <=> SendsText(q)
           /\ q.peer \in Clients \ {x}
           /\ KeyOK(SendsKey(q), SendsText(q), q.content.key, x, q.peer)
           /\ Mail(q.peer)' = Mail(q.peer) \cup {n} /\ MailsKept(Clients \ {q.peer})
    BY <1>3, PostFacts
  <2>2. CASE c = q.peer /\ m = n
    <3>1. n.key \in Key \cup {None} /\ (SendsKey(q) => n.key \in Key)
      BY <2>1 DEF Message, Sends, RequestsOf, SendsKey
    <3>2. KeyOK(BringsKey(m), m.type = "text", m.key, m.from, c)
      BY <2>1, <2>2 DEF KeyOK
    <3>3. n.key \in Key /\ Owned(n.key) => Owned(n.key)'
      BY KeysGrow
    <3> QED
      BY <2>1, <2>2, <3>1, <3>2, <3>3 DEF KeyOK, BringsKey, Pair, Between
  <2>3. CASE m \in Mail(c)
    BY <1>1, <2>3
  <2> QED
    BY <2>1, <2>2, <2>3 DEF MailsKept
<1>4. ASSUME NEW x \in Clients, Mail(x)' \subseteq Mail(x), MailsKept(Clients \ {x}) PROVE Good
  BY <1>1, <1>4 DEF MailsKept
<1>5. Handled(c) \/ Spoilt(c) \/ Forgotten(c) => Good
  BY <1>4 DEF Handled, Spoilt, Forgotten, SomeLost
<1>6. ASSUME NEW x \in Clients, Handled(x) \/ Spoilt(x) \/ Forgotten(x) PROVE Good
  BY <1>4, <1>6 DEF Handled, Spoilt, Forgotten, SomeLost
<1>7. Steady => MailsKept(Clients)
  BY DEF Steady
<1>8. \A x \in Clients : Commanded(x) => MailsKept(Clients)
  BY DEF Commanded, Commanding
<1> QED
  BY <1>2, <1>3, <1>6, <1>7, <1>8 DEF KeyMove

\* No step of another kind than a command adds one.
LEMMA CommandsLeft ==
  ASSUME KeysInv, KeyMove, NEW c \in Clients, ~Commanded(c)
  PROVE  /\ Asked(c)' \subseteq Asked(c) /\ Late(c)' \subseteq Asked(c) \cup Late(c)
         /\ \A q \in Late(c)' \ Late(c) : SendsKey(q) => q.content.key \in spoiled'
<1>1. CASE Steady
  BY <1>1 DEF Steady, AskedKept, LateKept
<1>2. ASSUME NEW x \in Clients \ {c}, Commanded(x) PROVE Asked(c)' = Asked(c) /\ Late(c)' = Late(c)
  BY <1>2 DEF Commanded, Commanding, AskedKept, LateKept
<1>3. ASSUME NEW x \in Clients, Posted(x)
      PROVE  Asked(c)' \subseteq Asked(c) /\ Late(c)' \subseteq Late(c)
  <2>1. AskedKept(Clients \ {x}) /\ LateKept(Clients \ {x})
    BY <1>3 DEF Posted
  <2>2. Asked(x)' \subseteq Asked(x) /\ Late(x)' \subseteq Late(x)
    BY <1>3, PostFacts DEF LateKept
  <2> QED
    BY <2>1, <2>2 DEF AskedKept, LateKept
<1>4. ASSUME NEW x \in Clients, Handled(x) PROVE Asked(c)' = Asked(c) /\ Late(c)' = Late(c)
  BY <1>4 DEF Handled, AskedKept, LateKept
<1>5. ASSUME NEW x \in Clients, SomeLost(x)
      PROVE  /\ Asked(c)' \subseteq Asked(c) /\ Late(c)' \subseteq Asked(c) \cup Late(c)
             /\ \A q \in Late(c)' \ Late(c) : SendsKey(q) => q.content.key \in spoiled'
  <2>1. CASE x = c
    BY <1>5, <2>1 DEF SomeLost
  <2>2. CASE x # c
    BY <1>5, <2>2 DEF SomeLost, AskedKept, LateKept
  <2> QED
    BY <2>1, <2>2
<1>6. \A x \in Clients : Spoilt(x) \/ Forgotten(x) => SomeLost(x)
  BY DEF Spoilt, Forgotten
<1> QED
  BY <1>1, <1>2, <1>3, <1>4, <1>5, <1>6 DEF KeyMove

LEMMA CommandsStep == KeysInv /\ KeyMove => CommandsOK'
<1> SUFFICES ASSUME KeysInv, KeyMove, NEW c \in Clients, NEW q \in Asked(c)' \cup Late(c)'
             PROVE  /\ KeyOK(SendsKey(q), SendsText(q), q.content.key, c, q.peer)'
                    /\ q \in Late(c)' /\ SendsKey(q) => q.content.key \in spoiled'
  BY DEF CommandsOK, SendsKey, SendsText
<1>1. ASSUME q \in Asked(c) \cup Late(c)
      PROVE  /\ KeyOK(SendsKey(q), SendsText(q), q.content.key, c, q.peer)'
             /\ q \in Late(c) /\ SendsKey(q) => q.content.key \in spoiled'
  <2>1. q \in Sends(c)
    BY <1>1, AskedTypes DEF Late, KeysInv
  <2>2. q.content.key \in Key \cup {None} /\ (SendsKey(q) => q.content.key \in Key)
    BY <2>1 DEF Sends, RequestsOf, Content, SendsKey
  <2>3. /\ KeyOK(SendsKey(q), SendsText(q), q.content.key, c, q.peer)
        /\ q \in Late(c) /\ SendsKey(q) => q.content.key \in spoiled
    BY <1>1 DEF KeysInv, CommandsOK
  <2>4. q.content.key \in Key /\ Owned(q.content.key) => Owned(q.content.key)'
    BY KeysGrow
  <2>5. KeyOK(SendsKey(q), SendsText(q), q.content.key, c, q.peer)'
    BY <2>2, <2>3, <2>4 DEF KeyOK, SendsKey, SendsText, Pair, Between
  <2> QED
    BY <2>3, <2>5, KeysGrow
<1>2. CASE Commanded(c)
  <2>1. Late(c)' = Late(c)
    BY <1>2 DEF Commanded, Commanding, LateKept
  <2>2. q \in Asked(c)' => KeyOK(SendsKey(q), SendsText(q), q.content.key, c, q.peer)'
    BY <1>2, CommandKeyOK DEF KeyOK, SendsKey, SendsText, Pair, Between
  <2> QED
    BY <1>1, <2>1, <2>2
<1>3. CASE ~Commanded(c)
  BY <1>1, <1>3, CommandsLeft
<1> QED
  BY <1>2, <1>3

\* The friend has the key, or it waits for him.
Arrived(d, key) == Coming(d, key) \/ key \in had[d]

LEMMA ArrivedKept ==
  ASSUME KeysInv, KeyMove, NEW d \in Clients, NEW key, Arrived(d, key)
  PROVE  Arrived(d, key)' \/ key \in spoiled'
<1>1. CASE key \in had[d]
  BY <1>1, KeysGrow DEF Arrived
<1>2. ASSUME Mail(d) \subseteq Mail(d)', Coming(d, key) PROVE Coming(d, key)'
  BY <1>2 DEF Coming, BringsKey
<1>3. ASSUME NEW x \in Clients, Posted(x) PROVE Mail(d) \subseteq Mail(d)'
  BY <1>3, PostFacts DEF MailsKept
<1>4. ASSUME NEW x \in Clients, Handled(x), Coming(d, key) PROVE Arrived(d, key)'
  <2>1. CASE x # d
    BY <1>2, <1>4, <2>1 DEF Handled, MailsKept, Arrived
  <2>2. CASE x = d
    <3>1. PICK h \in Mail(d) :
            /\ Mail(d) \subseteq Mail(d)' \cup {h}
            /\ ~BringsKey(h) \/ had'[d] = had[d] \cup {h.key}
      BY <1>4, <2>2, HandlingFacts
    <3>2. PICK m \in Mail(d) : BringsKey(m) /\ m.key = key
      BY <1>4 DEF Coming
    <3> QED
      BY <3>1, <3>2 DEF Arrived, Coming, BringsKey
  <2> QED
    BY <2>1, <2>2
<1>5. ASSUME NEW x \in Clients, SomeLost(x), Coming(d, key) PROVE Coming(d, key)' \/ key \in spoiled'
  <2>1. PICK m \in Mail(d) : BringsKey(m) /\ m.key = key
    BY <1>5 DEF Coming
  <2> QED
    BY <1>5, <2>1 DEF SomeLost, MailsKept, Coming, BringsKey
<1>6. /\ Steady => Mail(d) \subseteq Mail(d)'
      /\ \A x \in Clients : Commanded(x) => Mail(d) \subseteq Mail(d)'
      /\ \A x \in Clients : Spoilt(x) \/ Forgotten(x) => SomeLost(x)
  BY DEF Steady, Commanded, Commanding, MailsKept, Spoilt, Forgotten
<1> QED
  BY <1>1, <1>2, <1>3, <1>4, <1>5, <1>6 DEF KeyMove, Arrived

\* A key of a friend's arrives when he has sent it.
LEMMA ArrivedNew ==
  ASSUME KeysInv, KeyMove, NEW d \in Clients, NEW key \in Key, key.by # d, Arrived(d, key)',
         ~Arrived(d, key)
  PROVE  \E x \in Clients : \E q \in Asked(x) \cup Late(x) :
           /\ Posted(x) /\ SendsKey(q) /\ q.content.key = key /\ key.by = x
           /\ \/ Asked(x) = {q} /\ Asked(x)' = {} /\ LateKept(Clients)
              \/ key \in spoiled
<1>1. ASSUME Coming(d, key)', Mail(d)' \subseteq Mail(d) PROVE FALSE
  BY <1>1 DEF Coming, BringsKey, Arrived
<1>2. ASSUME key \in had'[d], had'[d] = had[d] PROVE FALSE
  BY <1>2 DEF Arrived
<1>3. ASSUME NEW x \in Clients, Commanded(x) PROVE FALSE
  <2>1. Mail(d)' = Mail(d)
    BY <1>3 DEF Commanded, Commanding, MailsKept
  <2>2. \A k \in had'[d] : k \in had[d] \/ k.by = d
    BY <1>3, CommandFacts DEF KeysKept
  <2> QED
    BY <1>1, <2>1, <2>2 DEF Arrived
<1>4. ASSUME NEW x \in Clients, Handled(x) PROVE FALSE
  <2>1. Mail(d)' \subseteq Mail(d)
    BY <1>4 DEF Handled, MailsKept
  <2>2. \A k \in had'[d] : k \in had[d] \/ Coming(d, k)
    BY <1>4, HandlingFacts DEF KeysKept, Coming
  <2> QED
    BY <1>1, <2>1, <2>2 DEF Arrived
<1>5. ASSUME NEW x \in Clients, Spoilt(x) \/ Forgotten(x) PROVE FALSE
  <2>1. Mail(d)' \subseteq Mail(d)
    BY <1>5 DEF Spoilt, Forgotten, SomeLost, MailsKept
  <2>2. had'[d] \subseteq had[d]
    BY <1>5, KeyTypes DEF Spoilt, KeysKept, Forgotten, KeysInv
  <2> QED
    BY <1>1, <2>1, <2>2 DEF Arrived
<1>6. ~Steady
  BY <1>1, <1>2 DEF Steady, KeysKept, MailsKept, Arrived
<1>7. PICK x \in Clients : Posted(x)
  BY <1>3, <1>4, <1>5, <1>6 DEF KeyMove
<1>8. PICK q \in Sends(x), m \in Message :
        /\ m.key = q.content.key /\ (BringsKey(m) <=> SendsKey(q)) /\ q.peer \in Clients \ {x}
        /\ q \in Asked(x) \cup Late(x)
        /\ KeyOK(SendsKey(q), SendsText(q), q.content.key, x, q.peer)
        /\ Mail(q.peer)' = Mail(q.peer) \cup {m} /\ MailsKept(Clients \ {q.peer})
        /\ \/ Asked(x) = {q} /\ Asked(x)' = {} /\ LateKept(Clients)
           \/ SendsKey(q) => q.content.key \in spoiled
  BY <1>7, PostFacts
<1>9. Coming(d, key)'
  BY <1>2, <1>7 DEF Posted, KeysKept, Arrived
<1>10. BringsKey(m) /\ m.key = key /\ d = q.peer
  BY <1>1, <1>8, <1>9 DEF Coming, BringsKey, MailsKept, Arrived
<1>11. key.by = x
  BY <1>8, <1>10 DEF KeyOK, Pair
<1> QED
  BY <1>7, <1>8, <1>10, <1>11

\* A program makes a key only on command.
LEMMA MadeNew ==
  ASSUME KeysInv, KeyMove, NEW c \in Clients, NEW d \in Clients, NEW key \in Made(c, d)',
         key \notin Made(c, d)
  PROVE  /\ Commanded(c)
         /\ \E q \in Sends(c) : /\ Asked(c)' = {q} /\ Commanding(c, q)
                                /\ SendsKey(q) /\ q.content.key = key /\ q.peer = d
<1>1. key \in had'[c] /\ key \notin had[c] /\ key.by = c /\ key.to = d
  BY KeysGrow DEF Made
<1>2. ~KeysKept
  BY <1>1 DEF KeysKept
<1>3. ASSUME NEW x \in Clients, Handled(x) PROVE FALSE
  <2>1. PICK h \in Mail(x) :
          /\ Pair(h.key, h.from, x) /\ h.from \in Clients \ {x}
          /\ had'[x] = had[x] \cup {h.key} /\ \A b \in Clients \ {x} : had'[b] = had[b]
    BY <1>2, <1>3, HandlingFacts
  <2> QED
    BY <1>1, <2>1 DEF Pair
<1>4. ASSUME NEW x \in Clients, Forgotten(x) PROVE FALSE
  BY <1>1, <1>4, KeyTypes DEF Forgotten, KeysInv
<1>5. PICK x \in Clients : Commanded(x)
  BY <1>2, <1>3, <1>4 DEF KeyMove, Steady, Posted, Spoilt
<1>6. PICK q \in Sends(x) :
        /\ Commanding(x, q) /\ SendsKey(q)
        /\ had'[x] = had[x] \cup {q.content.key} /\ \A b \in Clients \ {x} : had'[b] = had[b]
        /\ q.content.key.by = x /\ q.content.key.to = q.peer
  BY <1>2, <1>5, CommandFacts
<1>7. x = c /\ q.content.key = key /\ q.peer = d
  BY <1>1, <1>6
<1>8. Asked(c)' = {q}
  BY <1>6, <1>7 DEF Commanding
<1> QED
  BY <1>5, <1>6, <1>7, <1>8

LEMMA AccountedStep == KeysInv /\ KeyMove => Accounted'
<1> SUFFICES ASSUME KeysInv, KeyMove, NEW c \in Clients, NEW d \in Clients, NEW key \in Made(c, d)'
             PROVE  (\E q \in Asked(c)' : SendsKey(q) /\ q.content.key = key) \/ Arrived(d, key)'
  BY DEF Accounted, Arrived, SendsKey
<1> DEFINE Good == (\E q \in Asked(c)' : SendsKey(q) /\ q.content.key = key) \/ Arrived(d, key)'
<1>1. key \notin spoiled' /\ key.by = c /\ key.to = d /\ key \in had'[c]
  BY DEF Made
<1>2. CASE key \notin Made(c, d)
  BY <1>2, MadeNew
<1>3. CASE Arrived(d, key)
  BY <1>1, <1>3, ArrivedKept
<1>4. ASSUME NEW q \in Asked(c), SendsKey(q), q.content.key = key PROVE Good
  <2>1. ~Commanded(c)
    BY <1>4 DEF Commanded, Commanding
  <2>2. AskedKept(Clients) => Good
    BY <1>4 DEF AskedKept
  <2>3. ASSUME NEW x \in Clients, x # c, AskedKept(Clients \ {x}) PROVE Good
    BY <1>4, <2>3 DEF AskedKept
  <2>4. CASE Posted(c)
    <3>1. PICK r \in Sends(c), m \in Message :
            /\ m.key = r.content.key /\ (BringsKey(m) <=> SendsKey(r)) /\ r.peer \in Clients
            /\ KeyOK(SendsKey(r), SendsText(r), r.content.key, c, r.peer)
            /\ Mail(r.peer)' = Mail(r.peer) \cup {m}
            /\ Asked(c) = {r} \/ Asked(c)' = Asked(c)
      BY <2>4, PostFacts
    <3>2. CASE Asked(c) = {r}
      <4>1. r.peer = d /\ BringsKey(m) /\ m.key = key
        BY <1>1, <1>4, <3>1, <3>2 DEF KeyOK, Pair
      <4> QED
        BY <3>1, <4>1 DEF Arrived, Coming, BringsKey
    <3> QED
      BY <1>4, <3>1, <3>2
  <2>5. CASE Spoilt(c)
    BY <1>1, <1>4, <2>5 DEF Spoilt
  <2>6. CASE Forgotten(c)
    BY <1>1, <2>6, KeyTypes DEF Forgotten, KeysInv
  <2>7. ASSUME NEW x \in Clients \ {c}, Commanded(x) \/ Posted(x) \/ Spoilt(x) \/ Forgotten(x) PROVE Good
    BY <2>3, <2>7 DEF Commanded, Commanding, Posted, Spoilt, Forgotten, SomeLost
  <2>8. CASE Steady \/ \E x \in Clients : Handled(x)
    BY <2>2, <2>8 DEF Steady, Handled
  <2> QED
    BY <2>1, <2>4, <2>5, <2>6, <2>7, <2>8 DEF KeyMove
<1>5. key \in Made(c, d) => (\E q \in Asked(c) : SendsKey(q) /\ q.content.key = key) \/ Arrived(d, key)
  BY DEF KeysInv, Accounted, Arrived
<1> QED
  BY <1>2, <1>3, <1>4, <1>5

\* A new command sends a new key, or a text with the newest key.
LEMMA NewSending ==
  ASSUME KeysInv, KeyMove, NEW c \in Clients, Commanded(c), NEW q \in Asked(c)', NEW d \in Clients,
         q.content.key \in Made(c, d)'
  PROVE  /\ SendsKey(q) => ~Arrived(d, q.content.key)'
         /\ SendsText(q) => Arrived(d, q.content.key)'
         /\ SendsKey(q) \/ SendsText(q) => \A key \in Made(c, d)' : key.n <= q.content.key.n
<1>1. PICK r \in Sends(c) :
        /\ Commanding(c, r) /\ r.peer \in Clients \ {c}
        /\ \/ /\ ~SendsKey(r) /\ KeysKept
              /\ SendsText(r) => r.content.key = Sym(c, r.peer) /\ r.content.key # None
           \/ /\ SendsKey(r) /\ ~SendsText(r) /\ r.content.key \in Key
              /\ had'[c] = had[c] \cup {r.content.key} /\ \A b \in Clients \ {c} : had'[b] = had[b]
              /\ r.content.key.by = c /\ r.content.key.to = r.peer /\ r.content.key.n = sends + 1
              /\ r.content.key \notin had[c] /\ (Owned(r.content.key) => r.content.key \in spoiled)
  BY CommandFacts
<1>2. Asked(c) = {} /\ r = q /\ UNCHANGED spoiled /\ Mail(d)' = Mail(d)
  BY <1>1 DEF Commanding, MailsKept
<1>3. PICK key : key = q.content.key
  OBVIOUS
<1>4. key \notin spoiled' /\ key.by = c /\ key.to = d /\ key \in had'[c]
  BY <1>3 DEF Made
<1>5. CASE SendsKey(q)
  <2>1. ~Owned(key) /\ q.peer = d /\ had'[d] = had[d] /\ key \in Key
    BY <1>1, <1>2, <1>3, <1>4, <1>5
  <2>2. ~Coming(d, key)'
    <3>1. ~Coming(d, key)
      BY <2>1 DEF KeysInv, MailOK, KeyOK, Coming
    <3> QED
      BY <1>2, <3>1 DEF Coming, BringsKey
  <2>3. key \notin had'[d]
    BY <2>1 DEF KeysInv, HadOK
  <2>4. \A k \in Made(c, d)' : k.n <= key.n
    <3>1. \A k \in Made(c, d)' : k = key \/ (k \in had[c] /\ k.by = c)
      BY <1>1, <1>2, <1>3, <1>5 DEF Made
    <3>2. \A k \in had[c] : k.by = c => k.n \in 1..sends
      BY DEF KeysInv, HadOK
    <3>3. key.n = sends + 1 /\ sends \in Nat
      BY <1>1, <1>2, <1>3, <1>5, KeyTypes DEF KeysInv
    <3> QED
      BY <3>1, <3>2, <3>3
  <2>5. ~SendsText(q)
    BY <1>5 DEF SendsKey, SendsText
  <2> QED
    BY <1>3, <2>2, <2>3, <2>4, <2>5 DEF Arrived
<1>6. CASE SendsText(q)
  <2>1. key = Sym(c, q.peer) /\ key # None /\ KeysKept /\ ~SendsKey(q) /\ q.peer \in Clients \ {c}
    BY <1>1, <1>2, <1>3, <1>6
  <2>2. Between(key, c, q.peer)
    BY <2>1 DEF KeysInv, SymOK
  <2>3. q.peer = d
    BY <1>4, <2>1, <2>2 DEF Between, Pair
  <2>4. Made(c, d)' = Made(c, d)
    BY <1>2, <2>1 DEF Made, KeysKept
  <2>5. key \in Made(c, d)
    BY <1>3, <2>4
  <2>6. Arrived(d, key)
    BY <1>2, <2>5 DEF KeysInv, Accounted, Arrived
  <2>7. Arrived(d, key)'
    BY <1>2, <2>1, <2>6 DEF Arrived, Coming, BringsKey, KeysKept
  <2>8. \A k \in Made(c, d) : k.n <= key.n
    BY <1>4, <2>1, <2>3 DEF KeysInv, SymOK, Pair
  <2> QED
    BY <1>3, <2>1, <2>4, <2>7, <2>8
<1> QED
  BY <1>5, <1>6

LEMMA SendingStep == KeysInv /\ KeyMove => SendingOK'
<1> SUFFICES ASSUME KeysInv, KeyMove, NEW c \in Clients, NEW d \in Clients,
                    NEW q \in Asked(c)' \cup Late(c)', q.content.key \in Made(c, d)'
             PROVE  /\ SendsKey(q) => ~Arrived(d, q.content.key)'
                    /\ SendsText(q) => Arrived(d, q.content.key)'
                    /\ SendsKey(q) \/ SendsText(q) => \A key \in Made(c, d)' : key.n <= q.content.key.n
  BY DEF SendingOK, Arrived, SendsKey, SendsText
<1> DEFINE Good == /\ SendsKey(q) => ~Arrived(d, q.content.key)'
                   /\ SendsText(q) => Arrived(d, q.content.key)'
                   /\ SendsKey(q) \/ SendsText(q) => \A key \in Made(c, d)' : key.n <= q.content.key.n
<1>1. PICK key : key = q.content.key
  OBVIOUS
<1>2. key \notin spoiled' /\ key \notin spoiled /\ key.by = c /\ key.to = d
  BY <1>1, KeysGrow DEF Made
<1>3. ASSUME q \in Asked(c) \cup Late(c), SendsKey(q) \/ SendsText(q) PROVE Good
  <2>1. /\ KeyOK(SendsKey(q), SendsText(q), key, c, q.peer)
        /\ q \in Late(c) /\ SendsKey(q) => key \in spoiled
    BY <1>1, <1>3 DEF KeysInv, CommandsOK
  <2>0. q \in Sends(c)
    BY <1>3, AskedTypes DEF Late, KeysInv
  <2>8. key \in Key
    BY <1>1, <1>3, <2>0, <2>1 DEF Sends, RequestsOf, Content, KeyOK, SendsKey
  <2>2. key \in Made(c, d)
    BY <1>1, <1>2, <1>3, <2>1, <2>8, KeysGrow DEF KeyOK
  <2>3. /\ SendsKey(q) => ~Arrived(d, key)
        /\ SendsText(q) => Arrived(d, key)
        /\ \A k \in Made(c, d) : k.n <= key.n
    BY <1>1, <1>3, <2>2 DEF KeysInv, SendingOK, Arrived
  <2>4. SendsText(q) => Arrived(d, key)'
    BY <1>2, <2>3, ArrivedKept
  <2>5. q.peer = d /\ d # c
    <3>1. q.peer # c
      BY <2>0 DEF Sends, RequestsOf
    <3> QED
      BY <1>2, <1>3, <2>1, <3>1 DEF KeyOK, Between, Pair
  <2>6. ASSUME SendsKey(q), Arrived(d, key)' PROVE FALSE
    <3>1. PICK x \in Clients : \E r \in Asked(x) \cup Late(x) :
             /\ Posted(x) /\ key.by = x
             /\ \/ Asked(x) = {r} /\ Asked(x)' = {} /\ LateKept(Clients)
                \/ key \in spoiled
      BY <1>2, <2>3, <2>5, <2>6, <2>8, ArrivedNew
    <3>2. x = c /\ Asked(c)' = {} /\ Late(c)' = Late(c)
      BY <1>2, <3>1 DEF LateKept
    <3> QED
      BY <1>2, <2>1, <2>6, <3>2
  <2>7. ASSUME NEW k \in Made(c, d)', k \notin Made(c, d) PROVE FALSE
    <3>1. Asked(c) = {} /\ \A r \in Late(c) : SendsText(r) => r.content.key \notin Made(c, r.peer)
      BY <2>7, MadeNew DEF Commanding
    <3> QED
      BY <1>1, <1>2, <1>3, <2>1, <2>2, <2>5, <3>1
  <2> QED
    BY <1>1, <2>3, <2>4, <2>6, <2>7
<1>4. CASE q \notin Asked(c) \cup Late(c)
  <2>1. Commanded(c)
    BY <1>4, CommandsLeft
  <2>2. q \in Asked(c)'
    BY <1>4, <2>1 DEF Commanded, Commanding, LateKept
  <2> QED
    BY <2>1, <2>2, NewSending
<1> QED
  BY <1>3, <1>4

\* What c has before it gets to m stays, and what is new comes after m.
LEMMA OlderKept ==
  ASSUME KeysInv, KeyMove, NEW c \in Clients, NEW m, NEW key \in Older(c, m)
  PROVE  key \in Older(c, m)' \/ key \in spoiled'
<1>1. CASE key \in had[c]
  BY <1>1, KeysGrow DEF Older
<1>2. ASSUME NEW o \in Mail(c), BringsKey(o), o.key = key, o.no < m.no, key \in Key
      PROVE  key \in Older(c, m)' \/ key \in spoiled'
  <2>1. CASE o \in Mail(c)'
    BY <1>2, <2>1 DEF Older, BringsKey
  <2>2. CASE o \notin Mail(c)'
    <3>1. ~Steady /\ \A x \in Clients : ~Commanded(x)
      BY <2>2 DEF Steady, Commanded, Commanding, MailsKept
    <3>2. \A x \in Clients : ~Posted(x)
      BY <2>2, PostFacts DEF MailsKept
    <3>3. ASSUME NEW x \in Clients, Handled(x) PROVE key \in had'[c]
      <4>1. x = c
        BY <2>2, <3>3 DEF Handled, MailsKept
      <4>2. PICK h \in Mail(c) :
              /\ Mail(c) \subseteq Mail(c)' \cup {h}
              /\ ~BringsKey(h) \/ had'[c] = had[c] \cup {h.key}
        BY <3>3, <4>1, HandlingFacts
      <4> QED
        BY <1>2, <2>2, <4>2
    <3>4. ASSUME NEW x \in Clients, SomeLost(x) PROVE key \in spoiled'
      BY <1>2, <2>2, <3>4 DEF SomeLost, MailsKept
    <3> QED
      BY <3>1, <3>2, <3>3, <3>4 DEF KeyMove, Spoilt, Forgotten, Older
  <2> QED
    BY <2>1, <2>2
<1> QED
  BY <1>1, <1>2 DEF Older

LEMMA OlderNew ==
  ASSUME KeysInv, KeyMove, NEW c \in Clients \ mixed, NEW d \in Clients \ {c},
         NEW m \in Mail(c), m \in Mail(c)', NEW key \in Older(c, m)', key \in Made(d, c)', key \in Key
  PROVE  key \in Older(c, m) \cap Made(d, c)
<1>1. key.by # c
  BY DEF Made
<1>2. key \in Older(c, m)
  <2>1. ASSUME NEW o \in Mail(c)', BringsKey(o), o.key = key, o.no < m.no PROVE key \in Older(c, m)
    <3>1. CASE o \in Mail(c)
      BY <2>1, <3>1 DEF Older
    <3>2. CASE o \notin Mail(c)
      <4>1. PICK x \in Clients : Posted(x)
        BY <2>1, <3>2 DEF KeyMove, Steady, Commanded, Commanding, Handled, Spoilt, Forgotten, SomeLost,
                          MailsKept
      <4>2. o.no = posted + 1
        BY <3>2, <4>1, PostFacts DEF MailsKept
      <4>3. m \in MailFor(c) /\ posted \in Nat
        BY MailTypes DEF KeysInv, TypeInv, DataOK, MailboxesOK
      <4>4. m.no \in Nat /\ m.no <= posted
        BY <4>3 DEF MailFor, Message
      <4> QED
        BY <2>1, <4>2, <4>3, <4>4
    <3> QED
      BY <3>1, <3>2
  <2>2. ASSUME key \in had'[c], key \notin had[c] PROVE key \in Older(c, m)
    <3>1. \A x \in Clients : ~Commanded(x)
      BY <1>1, <2>2, CommandFacts DEF KeysKept
    <3>2. \A x \in Clients : ~Forgotten(x)
      BY <2>2, KeyTypes DEF Forgotten, KeysInv
    <3>3. PICK x \in Clients : Handled(x)
      BY <2>2, <3>1, <3>2 DEF KeyMove, Steady, Posted, Spoilt, KeysKept
    <3>4. PICK h \in Mail(x) :
            /\ x \notin mixed => \A n \in Mail(x)' : h.no < n.no
            /\ \/ KeysKept
               \/ /\ BringsKey(h)
                  /\ had'[x] = had[x] \cup {h.key} /\ \A b \in Clients \ {x} : had'[b] = had[b]
      BY <3>3, HandlingFacts
    <3>5. x = c /\ h.key = key /\ BringsKey(h) /\ h.no < m.no
      BY <2>2, <3>4 DEF KeysKept
    <3> QED
      BY <3>4, <3>5 DEF Older
  <2> QED
    BY <2>1, <2>2 DEF Older, BringsKey
<1>3. Owned(key)
  <2>1. ASSUME NEW o \in Mail(c), BringsKey(o), o.key = key PROVE Owned(key)
    BY <2>1 DEF KeysInv, MailOK, KeyOK
  <2> QED
    BY <1>2, <2>1 DEF Older, KeysInv, HadOK
<1> QED
  BY <1>2, <1>3, KeysGrow

\* The key of a message that c has not spoiled is of the friend who sent it.
LEMMA SenderFacts ==
  ASSUME KeysInv, NEW c \in Clients, NEW d \in Clients, NEW m \in Mail(c), BringsKey(m) \/ m.type = "text",
         m.key.by = d, m.key.to = c
  PROVE  m.key \in Key /\ Owned(m.key) /\ d = m.from /\ d # c
<1>1. m \in MailFor(c)
  BY MailTypes DEF KeysInv
<1>2. m.from # c /\ m.key \in Key \cup {None} /\ (BringsKey(m) => m.key \in Key)
  BY <1>1 DEF MailFor, Message, BringsKey
<1>3. KeyOK(BringsKey(m), m.type = "text", m.key, m.from, c)
  BY DEF KeysInv, MailOK
<1> QED
  BY <1>2, <1>3 DEF KeyOK, Between, Pair

LEMMA WaitingStep == KeysInv /\ KeyMove /\ mixed \subseteq mixed' /\ TypeInv' => WaitingOK'
<1> SUFFICES ASSUME KeysInv, KeyMove, mixed \subseteq mixed', TypeInv', NEW c \in Clients \ mixed',
                    NEW d \in Clients, NEW m \in Mail(c)', m.key \in Made(d, c)'
             PROVE  /\ BringsKey(m) => m.key \notin Older(c, m)'
                    /\ m.type = "text" => m.key \in Older(c, m)'
                    /\ BringsKey(m) \/ m.type = "text"
                         => \A key \in Older(c, m)' \cap Made(d, c)' : key.n <= m.key.n
  BY DEF WaitingOK, BringsKey
<1> DEFINE Good == /\ BringsKey(m) => m.key \notin Older(c, m)'
                   /\ m.type = "text" => m.key \in Older(c, m)'
                   /\ BringsKey(m) \/ m.type = "text"
                        => \A key \in Older(c, m)' \cap Made(d, c)' : key.n <= m.key.n
<1>1. c \in Clients \ mixed /\ Older(c, m)' \subseteq Key
  BY DEF Older, TypeInv, KeysOK
<1>2. m.key.by = d /\ m.key.to = c /\ m.key \notin spoiled'
  BY DEF Made
<1>3. ASSUME m \in Mail(c), BringsKey(m) \/ m.type = "text" PROVE Good
  <2>1. m.key \in Key /\ Owned(m.key) /\ d # c
    BY <1>2, <1>3, SenderFacts
  <2>2. m.key \in Made(d, c)
    BY <2>1, KeysGrow
  <2>3. /\ BringsKey(m) => m.key \notin Older(c, m)
        /\ m.type = "text" => m.key \in Older(c, m)
        /\ \A key \in Older(c, m) \cap Made(d, c) : key.n <= m.key.n
    BY <1>1, <1>3, <2>2 DEF KeysInv, WaitingOK
  <2>4. \A key \in Older(c, m)' \cap Made(d, c)' : key \in Older(c, m) \cap Made(d, c)
    BY <1>1, <1>3, <2>1, OlderNew
  <2>5. m.key \in Older(c, m) => m.key \in Older(c, m)'
    BY <1>2, OlderKept
  <2> QED
    BY <2>3, <2>4, <2>5
<1>4. ASSUME m \notin Mail(c), BringsKey(m) \/ m.type = "text" PROVE Good
  <2>1. PICK x \in Clients : Posted(x)
    BY <1>4 DEF KeyMove, Steady, Commanded, Commanding, Handled, Spoilt, Forgotten, SomeLost, MailsKept
  <2>2. PICK q \in Sends(x), n \in Message :
          /\ n.no = posted + 1 /\ n.from = x /\ n.key = q.content.key
          /\ (BringsKey(n) <=> SendsKey(q)) /\ (n.type = "text" <=> SendsText(q))
          /\ q.peer \in Clients \ {x} /\ q \in Asked(x) \cup Late(x)
          /\ KeyOK(SendsKey(q), SendsText(q), q.content.key, x, q.peer)
          /\ Mail(q.peer)' = Mail(q.peer) \cup {n} /\ MailsKept(Clients \ {q.peer})
    BY <2>1, PostFacts
  <2>3. m = n /\ c = q.peer
    <3>1. c = q.peer
      <4>1. ASSUME c # q.peer PROVE Mail(c)' = Mail(c)
        BY <2>2, <4>1 DEF MailsKept
      <4> QED
        BY <1>4, <4>1
    <3> QED
      BY <1>4, <2>2, <3>1
  <2>4. d = x /\ m.key \in Key
    <3>1. m.key \in Key
      BY <1>4, <2>2, <2>3, KeyTypes DEF KeyOK, Message, KeysInv
    <3> QED
      BY <1>2, <1>4, <2>2, <2>3, <3>1 DEF KeyOK, Between, Pair
  <2>5. Made(d, c)' = Made(d, c) /\ had'[c] = had[c]
    BY <2>1 DEF Posted, KeysKept, Made
  <2>6. /\ SendsKey(q) => ~Arrived(c, m.key)
        /\ SendsText(q) => Arrived(c, m.key)
        /\ \A key \in Made(d, c) : key.n <= m.key.n
    BY <1>4, <2>2, <2>3, <2>4, <2>5 DEF KeysInv, SendingOK, Arrived
  <2>7. Mail(c)' = Mail(c) \cup {m} /\ m.no = posted + 1
    BY <2>2, <2>3
  <2>8. m.key \in Older(c, m)' => Arrived(c, m.key)
    BY <2>5, <2>7, KeyTypes DEF Older, Arrived, Coming, BringsKey, KeysInv
  <2>9. Arrived(c, m.key) => m.key \in Older(c, m)'
    <3>1. \A o \in Mail(c) : o.no < m.no
      <4>1. posted \in Nat /\ \A o \in MailFor(c) : o.no \in Nat /\ o.no <= posted
        BY DEF MailFor, Message, KeysInv, TypeInv, DataOK, MailboxesOK
      <4> QED
        BY <2>7, <4>1, MailTypes DEF KeysInv
    <3> QED
      BY <2>4, <2>5, <2>7, <3>1 DEF Older, Arrived, Coming, BringsKey
  <2> QED
    BY <2>2, <2>3, <2>5, <2>6, <2>8, <2>9
<1> QED
  BY <1>3, <1>4 DEF BringsKey

\* The newest key is in use whichever way the cache changes.
LEMMA CacheStep == KeysInv /\ KeyMove /\ mixed \subseteq mixed' => CacheOK'
<1> SUFFICES ASSUME KeysInv, KeyMove, mixed \subseteq mixed', NEW c \in Clients \ mixed',
                    NEW d \in Clients \ {c}, NEW key \in had'[c], key \in Made(d, c)'
             PROVE  /\ Sym(c, d)' # None
                    /\ Sym(c, d)' \in spoiled' \/ Sym(c, d)'.by = c \/ key.n <= Sym(c, d)'.n
  BY DEF CacheOK
<1> DEFINE Good == /\ Sym(c, d)' # None
                   /\ Sym(c, d)' \in spoiled' \/ Sym(c, d)'.by = c \/ key.n <= Sym(c, d)'.n
<1>0. /\ c \in Clients \ mixed /\ had \in [Clients -> SUBSET Key] /\ None \notin Key
      /\ spoiled \subseteq spoiled' /\ \A k \in Key : k.n \in Nat
  BY KeysGrow, KeyTypes DEF KeysInv
<1>1. key \notin spoiled' /\ key.by = d /\ key.to = c
  BY DEF Made
<1>2. ASSUME key \in had[c]
      PROVE  /\ key \in Made(d, c) /\ Sym(c, d) # None
             /\ Sym(c, d) \in spoiled \/ Sym(c, d).by = c \/ key.n <= Sym(c, d).n
  <2>1. key \in Key /\ Owned(key)
    BY <1>0, <1>2 DEF KeysInv, HadOK
  <2>2. key \in Made(d, c)
    BY <2>1, KeysGrow
  <2> QED
    BY <1>0, <1>2, <2>2 DEF KeysInv, CacheOK
<1>3. ASSUME key \in had[c], Sym(c, d)' = Sym(c, d) PROVE Good
  BY <1>0, <1>2, <1>3
<1>4. ASSUME KeysKept PROVE Good
  BY <1>3, <1>4 DEF KeysKept
<1>5. ASSUME NEW x \in Clients, Commanded(x) PROVE Good
  <2>1. PICK q \in Sends(x) :
          \/ KeysKept
          \/ /\ q.content.key \in Key /\ Sym(x, q.peer)' = q.content.key
             /\ \A b, e \in Clients : b # x \/ e # q.peer => Sym(b, e)' = Sym(b, e)
             /\ had'[x] = had[x] \cup {q.content.key} /\ \A b \in Clients \ {x} : had'[b] = had[b]
             /\ q.content.key.by = x /\ q.peer \in Clients
    BY <1>5, CommandFacts
  <2>2. CASE x = c /\ q.peer = d /\ ~KeysKept
    BY <1>0, <2>1, <2>2
  <2>3. CASE ~(x = c /\ q.peer = d) /\ ~KeysKept
    <3>1. Sym(c, d)' = Sym(c, d)
      BY <2>1, <2>3
    <3>2. key \in had[c]
      BY <1>1, <2>1, <2>3
    <3> QED
      BY <1>3, <3>1, <3>2
  <2> QED
    BY <1>4, <2>2, <2>3
<1>6. ASSUME NEW x \in Clients, Handled(x) PROVE Good
  <2>1. PICK h \in Mail(x) :
           /\ h.from \in Clients \ {x}
           /\ \/ KeysKept
              \/ /\ BringsKey(h) /\ h.key \in Key /\ Pair(h.key, h.from, x) /\ Owned(h.key)
                 /\ Sym(x, h.from)' = h.key
                 /\ \A b, e \in Clients : b # x \/ e # h.from => Sym(b, e)' = Sym(b, e)
                 /\ had'[x] = had[x] \cup {h.key} /\ \A b \in Clients \ {x} : had'[b] = had[b]
    BY <1>6, HandlingFacts
  <2>2. CASE x = c /\ h.from = d /\ ~KeysKept
    <3>1. Sym(c, d)' = h.key /\ h.key # None /\ had'[c] = had[c] \cup {h.key}
      BY <1>0, <2>1, <2>2
    <3>2. ASSUME h.key \notin spoiled', key \in had[c] PROVE key.n <= h.key.n
      <4>1. h.key \in Made(d, c)
        BY <1>0, <2>1, <2>2, <3>2 DEF Made, Owned, Pair
      <4>2. key \in Older(c, h) \cap Made(d, c)
        BY <1>2, <3>2 DEF Older
      <4>3. h \in Mail(c) /\ BringsKey(h)
        BY <2>1, <2>2
      <4> QED
        BY <1>0, <4>1, <4>2, <4>3 DEF KeysInv, WaitingOK
    <3>3. key \in had[c] \/ (key = h.key /\ key.n \in Nat)
      BY <1>0, <2>1, <2>2, <3>1
    <3> QED
      BY <3>1, <3>2, <3>3
  <2>3. CASE ~(x = c /\ h.from = d) /\ ~KeysKept
    <3>1. Sym(c, d)' = Sym(c, d)
      BY <2>1, <2>3
    <3>2. key \in had[c]
      BY <1>1, <2>1, <2>3 DEF Pair
    <3> QED
      BY <1>3, <3>1, <3>2
  <2> QED
    BY <1>4, <2>2, <2>3
<1>7. ASSUME NEW x \in Clients, Forgotten(x) PROVE Good
  <2>1. x # c
    BY <1>0, <1>7 DEF Forgotten
  <2> QED
    BY <1>0, <1>3, <1>7, <2>1 DEF Forgotten
<1> QED
  BY <1>4, <1>5, <1>6, <1>7 DEF KeyMove, Steady, Posted, Spoilt

\* Whoever changes to a key the friend has got changes to the friend's.
LEMMA StubbornNew ==
  ASSUME KeysInv, KeyMove, NEW c \in Clients, NEW d \in Clients \ {c}, Stubborn(c, d)'
  PROVE  Stubborn(c, d) \/ (Sym(d, c)' # None /\ Sym(d, c)'.by = c)
<1> DEFINE key == Sym(c, d)'
<1>0. /\ key \in had'[c] /\ key \notin spoiled' /\ key.by = c /\ key.to = d /\ key \in had'[d]
      /\ had \in [Clients -> SUBSET Key] /\ spoiled \subseteq spoiled' /\ None \notin Key
  BY KeysGrow, KeyTypes DEF Stubborn, Made, KeysInv
<1>1. ASSUME Sym(c, d)' = Sym(c, d), key \in had[d] PROVE Stubborn(c, d)
  <2>1. Sym(c, d) \in Key /\ Owned(Sym(c, d))
    BY <1>0, <1>1 DEF KeysInv, HadOK
  <2>2. Sym(c, d) \in Made(c, d)
    BY <1>0, <1>1, <2>1 DEF Owned, Made
  <2> QED
    BY <1>1, <2>2 DEF Stubborn
<1>2. ASSUME KeysKept PROVE Stubborn(c, d)
  BY <1>0, <1>1, <1>2 DEF KeysKept
<1>3. ASSUME NEW x \in Clients, Commanded(x) PROVE Stubborn(c, d)
  <2>1. PICK q \in Sends(x) :
          \/ KeysKept
          \/ /\ q.content.key \in Key /\ Sym(x, q.peer)' = q.content.key
             /\ \A b, e \in Clients : b # x \/ e # q.peer => Sym(b, e)' = Sym(b, e)
             /\ had'[x] = had[x] \cup {q.content.key} /\ \A b \in Clients \ {x} : had'[b] = had[b]
             /\ q.content.key.by = x /\ q.peer \in Clients
             /\ (Owned(q.content.key) => q.content.key \in spoiled)
    BY <1>3, CommandFacts
  <2>2. CASE x = c /\ q.peer = d /\ ~KeysKept
    <3>1. key = q.content.key /\ key \in had[d]
      BY <1>0, <2>1, <2>2
    <3>2. Owned(key)
      BY <3>1 DEF KeysInv, HadOK
    <3> QED
      BY <1>0, <2>1, <2>2, <3>1, <3>2
  <2>3. CASE ~(x = c /\ q.peer = d) /\ ~KeysKept
    <3>1. Sym(c, d)' = Sym(c, d)
      BY <2>1, <2>3
    <3>2. key \in had[d]
      BY <1>0, <2>1, <2>3
    <3> QED
      BY <1>1, <3>1, <3>2
  <2> QED
    BY <1>2, <2>2, <2>3
<1>4. ASSUME NEW x \in Clients, Handled(x)
      PROVE  Stubborn(c, d) \/ (Sym(d, c)' # None /\ Sym(d, c)'.by = c)
  <2>1. PICK h \in Mail(x) :
           /\ h.from \in Clients \ {x}
           /\ \/ KeysKept
              \/ /\ h.key \in Key /\ Pair(h.key, h.from, x)
                 /\ Sym(x, h.from)' = h.key
                 /\ \A b, e \in Clients : b # x \/ e # h.from => Sym(b, e)' = Sym(b, e)
                 /\ had'[x] = had[x] \cup {h.key} /\ \A b \in Clients \ {x} : had'[b] = had[b]
    BY <1>4, HandlingFacts
  <2>2. CASE x = c /\ h.from = d /\ ~KeysKept
    BY <1>0, <2>1, <2>2 DEF Pair
  <2>3. CASE ~(x = c /\ h.from = d) /\ ~KeysKept
    <3>1. Sym(c, d)' = Sym(c, d)
      BY <2>1, <2>3
    <3>2. CASE key \in had[d]
      BY <1>1, <3>1, <3>2
    <3>3. CASE key \notin had[d]
      BY <1>0, <2>1, <2>3, <3>3 DEF Pair
    <3> QED
      BY <3>2, <3>3
  <2> QED
    BY <1>2, <2>2, <2>3
<1>5. ASSUME NEW x \in Clients, Forgotten(x) PROVE Stubborn(c, d)
  <2>1. x # c /\ x # d
    BY <1>0, <1>5 DEF Forgotten
  <2> QED
    BY <1>0, <1>1, <1>5, <2>1 DEF Forgotten
<1> QED
  BY <1>2, <1>3, <1>4, <1>5 DEF KeyMove, Steady, Posted, Spoilt

LEMMA NotBothStep == KeysInv /\ KeyMove => NotBoth'
<1> SUFFICES ASSUME KeysInv, KeyMove, NEW c \in Clients, NEW d \in Clients \ {c},
                    Stubborn(c, d)', Stubborn(d, c)'
             PROVE  FALSE
  BY DEF NotBoth, Stubborn
<1>1. Sym(c, d)'.by = c /\ Sym(d, c)'.by = d
  BY DEF Stubborn, Made
<1>2. Stubborn(c, d) /\ Stubborn(d, c)
  BY <1>1, StubbornNew
<1> QED
  BY <1>2 DEF KeysInv, NotBoth

LEMMA StuckStep == KeysInv /\ StuckOK /\ KeyMove /\ [Next]_vars => StuckOK'
<1> SUFFICES ASSUME KeysInv, StuckOK, KeyMove, [Next]_vars, NEW c \in Clients, NEW q \in Late(c)',
                    SendsText(q), q.content.key \in Made(c, q.peer)'
             PROVE  Stuck(c)'
  BY DEF StuckOK, SendsText
<1>1. TypeInv /\ had'[c] # {}
  BY DEF KeysInv, Made
<1>2. CASE q \in Late(c)
  <2>1. q.content.key \in Key /\ Owned(q.content.key)
    <3>1. KeyOK(SendsKey(q), SendsText(q), q.content.key, c, q.peer)
      BY <1>2 DEF KeysInv, CommandsOK
    <3> QED
      BY <1>1, <1>2, <3>1, KeyTypes DEF KeyOK
  <2>2. q.content.key \in Made(c, q.peer)
    <3>1. PICK d : d = q.peer /\ d \in Clients
      BY <1>1, <1>2, KeyTypes
    <3> QED
      BY <2>1, <3>1, KeysGrow
  <2> QED
    BY <1>1, <1>2, <2>2, StuckStays DEF StuckOK
<1>3. CASE q \notin Late(c)
  BY <1>1, <1>3, LeftStuck
<1> QED
  BY <1>2, <1>3

AllKeys == TypeInv /\ OrderOK /\ KnownOK /\ StuckOK /\ KeysInv

LEMMA KeysInitially == Init => KnownOK /\ StuckOK /\ (TypeInv => KeysInv)
<1> SUFFICES ASSUME Init PROVE KnownOK /\ StuckOK /\ (TypeInv => KeysInv)
  OBVIOUS
<1>1. \A c \in Clients : /\ had[c] = {} /\ Asked(c) = {} /\ Late(c) = {} /\ Mail(c) = {}
                         /\ \A d \in Clients : Sym(c, d) = None /\ Made(c, d) = {}
  BY NoneAssumption DEF Init, Asked, Asking, Late, Sends, RequestsOf, Mail, InHand, Carried, ToSet, Sym,
                        NoFriends, Made, Home, Threads
<1>2. KnownOK /\ StuckOK
  BY <1>1 DEF Init, KnownOK, Home, StuckOK
<1>3. HadOK /\ SymOK /\ MailOK /\ CommandsOK /\ Accounted /\ NotBoth
  BY <1>1 DEF HadOK, SymOK, MailOK, CommandsOK, Accounted, NotBoth, Stubborn
<1>4. SendingOK /\ WaitingOK /\ CacheOK
  BY <1>1 DEF SendingOK, WaitingOK, CacheOK
<1> QED
  BY <1>2, <1>3, <1>4 DEF KeysInv

LEMMA KeysPreserved == AllKeys /\ TypeInv' /\ OrderOK' /\ [Next]_vars => AllKeys'
<1> SUFFICES ASSUME AllKeys, TypeInv', OrderOK', [Next]_vars PROVE AllKeys'
  OBVIOUS
<1>1. TypeInv /\ OrderOK /\ KnownOK /\ StuckOK /\ KeysInv
  BY DEF AllKeys
<1>2. KeyMove /\ mixed \subseteq mixed'
  BY <1>1, KeySteps, MixedGrows
<1>3. KnownOK' /\ StuckOK'
  BY <1>1, <1>2, KnownStep, StuckStep
<1>4. HadOK' /\ SymOK' /\ MailOK' /\ CommandsOK' /\ Accounted' /\ SendingOK'
  BY <1>1, <1>2, HadStep, SymStep, MailStep, CommandsStep, AccountedStep, SendingStep
<1>5. WaitingOK' /\ CacheOK' /\ NotBoth'
  BY <1>1, <1>2, WaitingStep, CacheStep, NotBothStep
<1> QED
  BY <1>3, <1>4, <1>5 DEF AllKeys, KeysInv

LEMMA KeyInvariant == Spec => []AllKeys
<1>1. Init /\ TypeInv /\ OrderOK => AllKeys
  BY KeysInitially DEF AllKeys
<1> QED
  BY <1>1, KeysPreserved, OrderInvariant, PTL DEF Spec

-----------------------------------------------------------------------------
(* Texts find their keys *)

\* The message that is shown is the oldest one.
LEMMA OldestShown ==
  ASSUME TypeInv, OrderOK, [Next]_vars, NEW c \in Clients \ mixed, NEW m \in TextsShown(c)
  PROVE  m \in Mail(c) /\ \A o \in Mail(c) : ~(o.no < m.no)
<1>1. /\ m \in Pending(c, "main") \cup Pending(c, "pull")
      /\ m.no \in handled'[c] /\ m.no \notin handled[c]
  BY DEF TextsShown
<1>2. m \in Mail(c)
  BY <1>1 DEF Pending, Mail, InHand
<1>3. DOMAIN handled = Clients /\ \A o \in Mail(c) : o.no \in Nat
  BY KeyTypes DEF TypeInv, DataOK, MailboxesOK
<1>4. PICK t \in Threads : Processed(c, t) /\ handled'[c] = handled[c] \cup {Head(InHand(c, t)).no}
  <2>1. Move
    BY StepMoves
  <2>2. \A d \in Clients, t \in Threads : d # c /\ Processed(d, t) => handled'[c] = handled[c]
    BY <1>3 DEF Processed
  <2>3. \E t \in Threads : Processed(c, t)
    BY <1>1, <2>1, <2>2 DEF Move, Still, Stored, Fetched, Taken, Lost, Received
  <2> QED
    BY <1>3, <2>3 DEF Processed
<1>5. PICK h : h = Head(InHand(c, t))
  OBVIOUS
<1>6. h \in Mail(c) /\ \A o \in Mail(c) : o = h \/ h.no < o.no
  <2>1. /\ h \in Mail(c) /\ Mail(c) \subseteq Mail(c)' \cup {h}
        /\ \A o \in Mail(c)' : h.no < o.no
    BY <1>4, <1>5, MailProcessed
  <2> QED
    BY <2>1
<1>7. m.no = h.no
  BY <1>1, <1>4, <1>5
<1> QED
  BY <1>2, <1>3, <1>6, <1>7

\* A text whose key c has not made and that is not spoiled is the newest that c
\* has got of its sender, and that is in the cache.
LEMMA TextKey ==
  ASSUME KeysInv, NEW c \in Clients \ mixed, NEW m \in Mail(c), m.type = "text",
         \A o \in Mail(c) : ~(o.no < m.no)
  PROVE  LET sym == Sym(c, m.from) IN
         \/ sym = m.key
         \/ {sym, m.key} \cap spoiled # {}
         \/ c \in {m.key.by} \cup {key.by : key \in {sym} \ {None}}
<1> SUFFICES ASSUME Sym(c, m.from) \notin spoiled, m.key \notin spoiled, m.key.by # c,
                    Sym(c, m.from) # None => Sym(c, m.from).by # c
             PROVE  Sym(c, m.from) = m.key
  OBVIOUS
<1>1. PICK d \in Clients \ {c} : d = m.from
  BY KeyTypes DEF KeysInv
<1>2. m.key \in Key /\ m.key \in Made(d, c)
  <2>1. m.key # None /\ Between(m.key, d, c) /\ Owned(m.key)
    BY <1>1 DEF KeysInv, MailOK, KeyOK
  <2> QED
    BY <2>1, KeyTypes DEF KeysInv, Between, Pair, Owned, Made
<1>3. Older(c, m) = had[c]
  BY DEF Older
<1>4. m.key \in had[c] /\ \A key \in had[c] \cap Made(d, c) : key.n <= m.key.n
  BY <1>2, <1>3 DEF KeysInv, WaitingOK
<1>5. Sym(c, d) # None /\ m.key.n <= Sym(c, d).n
  BY <1>1, <1>2, <1>4 DEF KeysInv, CacheOK
<1>6. Sym(c, d) \in Key /\ Sym(c, d) \in had[c] /\ Sym(c, d) \in Made(d, c)
  <2>1. Sym(c, d) \in had[c] /\ Between(Sym(c, d), c, d)
    BY <1>5 DEF KeysInv, SymOK
  <2>2. Owned(Sym(c, d))
    BY <2>1 DEF KeysInv, HadOK
  <2> QED
    BY <1>1, <1>5, <2>1, <2>2, KeyTypes DEF KeysInv, Between, Pair, Owned, Made
<1>7. Sym(c, d).n <= m.key.n
  BY <1>4, <1>6
<1> QED
  BY <1>1, <1>2, <1>5, <1>6, <1>7 DEF Key, Made

\* A text meets its key in the cache of the client that processes it
\* (handleTextMessage), or one of the two keys was refused, lost on the way or
\* forgotten at the end of a program, or one of them is the reader's own; for
\* clients whose threads take turns with messages.
THEOREM TextsFindTheirKey == Spec => TextsFitKeys
<1>1. ASSUME AllKeys, [Next]_vars, NEW c \in Clients \ mixed, NEW m \in TextsShown(c)
      PROVE  LET sym == friends[c][m.from].sym IN
             \/ sym = m.key
             \/ {sym, m.key} \cap spoiled # {}
             \/ c \in {m.key.by} \cup {key.by : key \in {sym} \ {None}}
  <2>1. TypeInv /\ OrderOK /\ KeysInv
    BY <1>1 DEF AllKeys
  <2>2. m \in Mail(c) /\ \A o \in Mail(c) : ~(o.no < m.no)
    BY <1>1, <2>1, OldestShown
  <2>3. m.type = "text"
    BY <1>1 DEF TextsShown
  <2> QED
    BY <2>1, <2>2, <2>3, TextKey DEF Sym
<1>2. AllKeys /\ [Next]_vars
        => \A c \in Clients \ mixed : \A m \in TextsShown(c) :
             LET sym == friends[c][m.from].sym IN
             \/ sym = m.key
             \/ {sym, m.key} \cap spoiled # {}
             \/ c \in {m.key.by} \cup {key.by : key \in {sym} \ {None}}
  BY <1>1
<1> QED
  BY <1>2, KeyInvariant, PTL DEF Spec, TextsFitKeys

-----------------------------------------------------------------------------
(* Friends agree *)

\* At rest, a client that keeps a key of its own has a friend who has changed to
\* it, or to an own one; and not both keep their own.
LEMMA OwnKey ==
  ASSUME KeysInv, NEW c \in Clients, NEW d \in Clients \ mixed, c # d, Asked(c) = {}, Mail(d) = {},
         {Sym(c, d), Sym(d, c)} \cap spoiled = {}, Sym(c, d) # None, Sym(c, d).by = c
  PROVE  Stubborn(c, d) /\ (Sym(d, c) = Sym(c, d) \/ (Sym(d, c) # None /\ Sym(d, c).by = d))
<1>1. PICK x : x = Sym(c, d)
  OBVIOUS
<1>2. x \in Key /\ x \in Made(c, d)
  <2>1. x \in had[c] /\ Between(x, c, d)
    BY <1>1 DEF KeysInv, SymOK
  <2> QED
    BY <1>1, <2>1, KeyTypes DEF KeysInv, Between, Pair, Made
<1>3. x \in had[d]
  BY <1>2 DEF KeysInv, Accounted, Coming
<1>4. Sym(d, c) # None /\ (Sym(d, c).by = d \/ x.n <= Sym(d, c).n)
  BY <1>2, <1>3 DEF KeysInv, CacheOK
<1>5. ASSUME Sym(d, c).by # d PROVE Sym(d, c) = x
  <2>1. Sym(d, c) \in had[d] /\ Between(Sym(d, c), d, c)
    BY <1>4 DEF KeysInv, SymOK
  <2>2. Owned(Sym(d, c))
    BY <2>1 DEF KeysInv, HadOK
  <2>3. Sym(d, c) \in Key /\ Sym(d, c) \in Made(c, d)
    BY <1>4, <1>5, <2>1, <2>2, KeyTypes DEF KeysInv, Between, Pair, Owned, Made
  <2>4. Sym(d, c).n <= x.n
    BY <1>1, <1>2, <2>3 DEF KeysInv, SymOK, Pair, Made
  <2> QED
    BY <1>2, <1>4, <1>5, <2>3, <2>4 DEF Key, Made
<1> QED
  BY <1>1, <1>2, <1>3, <1>4, <1>5 DEF Stubborn

\* Nor has a client the friend's key while the friend has none.
LEMMA FriendsKey ==
  ASSUME KeysInv, NEW c \in Clients, NEW d \in Clients, c # d,
         Sym(c, d) # None, Sym(c, d) \notin spoiled, Sym(c, d).by # c
  PROVE  Sym(c, d).by = d /\ Sym(d, c) # None
<1>1. PICK x : x = Sym(c, d)
  OBVIOUS
<1>2. x \in had[c] /\ Between(x, c, d)
  BY <1>1 DEF KeysInv, SymOK
<1>3. x.by = d /\ x.to = c /\ Owned(x)
  BY <1>1, <1>2 DEF Between, Pair, KeysInv, HadOK
<1>4. x \in had[d]
  BY <1>1, <1>3 DEF Owned
<1>5. Sym(d, c) # None
  BY <1>3, <1>4 DEF KeysInv, HadOK
<1> QED
  BY <1>1, <1>3, <1>5

\* Friends between whom nothing is under way have the same key
\* (setFriendSymmetricKey on both sides), or each has the other's because they
\* have sent keys at the same time, or one they have was refused, lost on the
\* way or forgotten at the end of a program; for clients whose threads take
\* turns with messages.
THEOREM FriendsAgree == Spec => []KeysAgree
<1>1. ASSUME AllKeys, Quiet, NEW c \in Clients PROVE Mail(c) = {} /\ Asked(c) = {}
  <2>1. /\ box[c] = <<>> /\ toClient[c] = <<>> /\ \A t \in Threads : req[c][t] = None
    BY <1>1 DEF Quiet
  <2>2. \A t \in Threads : rsp[c][t] = None /\ pc[c][t] \notin {"send", "receive"}
    BY <1>1, <2>1 DEF AllKeys, TypeInv, DataOK, ThreadsOK, ThreadOK
  <2>3. Asked(c) = {}
    BY <2>2 DEF Asked, Asking, Threads
  <2>4. Mail(c) = {}
    BY <2>1, <2>2 DEF Mail, InHand, Carried, ToSet, Threads
  <2> QED
    BY <2>3, <2>4
<1>2. ASSUME AllKeys, Quiet, NEW c \in Clients \ mixed, NEW d \in Clients \ mixed,
             Sym(c, d) # Sym(d, c), {Sym(c, d), Sym(d, c)} \cap spoiled = {}
      PROVE  /\ None \notin {Sym(c, d), Sym(d, c)}
             /\ Sym(c, d).by = d /\ Sym(d, c).by = c
  <2>1. KeysInv /\ c # d
    BY <1>2 DEF AllKeys
  <2>2. /\ Mail(c) = {} /\ Asked(c) = {} /\ Mail(d) = {} /\ Asked(d) = {}
        /\ {Sym(d, c), Sym(c, d)} \cap spoiled = {}
    BY <1>1, <1>2
  <2>3. ASSUME Sym(c, d) # None, Sym(c, d).by = c PROVE FALSE
    <3>1. Stubborn(c, d) /\ Sym(d, c) # None /\ Sym(d, c).by = d
      BY <1>2, <2>1, <2>2, <2>3, OwnKey
    <3>2. Stubborn(d, c)
      BY <1>2, <2>1, <2>2, <3>1, OwnKey
    <3> QED
      BY <2>1, <3>1, <3>2 DEF KeysInv, NotBoth
  <2>4. ASSUME Sym(d, c) # None, Sym(d, c).by = d PROVE FALSE
    <3>1. Stubborn(d, c) /\ Sym(c, d) # None /\ Sym(c, d).by = c
      BY <1>2, <2>1, <2>2, <2>4, OwnKey
    <3> QED
      BY <2>3, <3>1
  <2> QED
    BY <1>2, <2>1, <2>3, <2>4, FriendsKey
<1>3. AllKeys => KeysAgree
  <2> SUFFICES ASSUME AllKeys, Quiet, NEW c \in Clients \ mixed, NEW d \in Clients \ mixed,
                      Sym(c, d) # Sym(d, c), {Sym(c, d), Sym(d, c)} \cap spoiled = {}
               PROVE  Crossed(c, d)
    BY DEF KeysAgree, Sym
  <2> QED
    BY <1>2 DEF Crossed, Sym
<1> QED
  BY <1>3, KeyInvariant, PTL
=============================================================================
