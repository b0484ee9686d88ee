-------------------------- MODULE ClientMailProofs --------------------------
(***************************************************************************)
(* Proofs about the messages of module Client: none is dropped, each is    *)
(* processed at most once, and those of a client whose threads never have  *)
(* messages in hand at the same time in order, as module Mailbox promises, *)
(* whoever polls, whatever breaks and whoever is killed.                   *)
(***************************************************************************)
EXTENDS ClientProofs

-----------------------------------------------------------------------------
(* How messages move *)

\* The list of messages on the way to c, and the one a thread has in hand.
Carried(c)   == IF toClient[c] = <<>> THEN <<>> ELSE Head(toClient[c]).msgs
InHand(c, t) == IF rsp[c][t] = None THEN <<>> ELSE rsp[c][t].msgs

\* The numbers of the messages in a list, and those in the threads' hands.
NosOf(s) == Numbers(ToSet(s))
InHands(c) == NosOf(InHand(c, "main")) \cup NosOf(InHand(c, "pull"))

LEMMA Lists ==
  ASSUME TypeInv, NEW c \in Clients
  PROVE  /\ Carried(c) \in Seq(MailFor(c)) /\ OnTheWay(c) = ToSet(Carried(c))
         /\ \A t \in Threads : /\ InHand(c, t) \in Seq(MailFor(c))
                               /\ Pending(c, t) = ToSet(InHand(c, t))
<1>1. ToSet(<<>>) = {} /\ <<>> \in Seq(MailFor(c))
  BY DEF ToSet
<1>2. \A r \in ResponsesTo(c) : r.msgs \in Seq(MailFor(c))
  BY DEF ResponsesTo
<1>3. ASSUME NEW t \in Threads
      PROVE  InHand(c, t) \in Seq(MailFor(c)) /\ Pending(c, t) = ToSet(InHand(c, t))
  BY <1>1, <1>2 DEF InHand, Pending, TypeInv, DataOK, ThreadsOK, ThreadOK
<1>4. CASE toClient[c] = <<>>
  BY <1>1, <1>3, <1>4 DEF Carried, OnTheWay, ToSet
<1>5. CASE toClient[c] # <<>>
  <2>1. ToSet(toClient[c]) = {Head(toClient[c])} /\ Head(toClient[c]) \in ResponsesTo(c)
    BY <1>5, WireFacts
  <2>2. OnTheWay(c) = ToSet(Head(toClient[c]).msgs)
    BY <2>1 DEF OnTheWay
  <2> QED
    BY <1>2, <1>3, <1>5, <2>1, <2>2 DEF Carried
<1> QED
  BY <1>4, <1>5

\* Whoever waits for a response has none in hand.
LEMMA HandFree ==
  ASSUME TypeInv, NEW c \in Clients, NEW t \in Threads, mutex[c] = t
  PROVE  InHand(c, t) = <<>>
<1>1. pc[c][t] = "receive"
  BY DEF TypeInv, ControlOK
<1>2. rsp[c][t] = None
  BY <1>1 DEF TypeInv, DataOK, ThreadsOK, ThreadOK, Under
<1> QED
  BY <1>2 DEF InHand

\* What a step does to the messages: nothing; one is stored; they are fetched
\* from the mailbox, by the connection or in vain; a thread receives them; it
\* processes one; or they are lost.
Untouched(c) == Carried(c)' = Carried(c) /\ \A t \in Threads : InHand(c, t)' = InHand(c, t)
OthersUntouched(c) == \A d \in Clients \ {c} : Untouched(d)

Still == UNCHANGED <<srv, handled, dropped>> /\ \A c \in Clients : Untouched(c)

Stored(c) ==
  /\ posted' = posted + 1
  /\ \E m \in Message : m.no = posted + 1 /\ box' = [box EXCEPT ![c] = Append(@, m)]
  /\ UNCHANGED <<handled, dropped>> /\ \A d \in Clients : Untouched(d)

Fetched(c) ==
  /\ Carried(c) = <<>> /\ Carried(c)' = box[c]
  /\ box' = [box EXCEPT ![c] = <<>>]
  /\ \E t \in Threads : mutex[c] = t
  /\ \A t \in Threads : InHand(c, t)' = InHand(c, t)
  /\ UNCHANGED <<posted, handled, dropped>> /\ OthersUntouched(c)

Taken(c) ==
  /\ box' = [box EXCEPT ![c] = <<>>]
  /\ dropped' = [dropped EXCEPT ![c] = @ \cup NosOf(box[c])]
  /\ UNCHANGED <<posted, handled>> /\ \A d \in Clients : Untouched(d)

Received(c, t) ==
  /\ c \notin mixed' => Carried(c) = <<>> \/ \A u \in Threads \ {t} : InHand(c, u) = <<>>
  /\ mutex[c] = t /\ InHand(c, t)' = Carried(c) /\ Carried(c)' = <<>>
  /\ \A u \in Threads \ {t} : InHand(c, u)' = InHand(c, u)
  /\ UNCHANGED <<srv, handled, dropped>> /\ OthersUntouched(c)

Processed(c, t) ==
  /\ InHand(c, t) # <<>> /\ InHand(c, t)' = Tail(InHand(c, t))
  /\ handled' = [handled EXCEPT ![c] = @ \cup {Head(InHand(c, t)).no}]
  /\ \A u \in Threads \ {t} : InHand(c, u)' = InHand(c, u)
  /\ Carried(c)' = Carried(c)
  /\ UNCHANGED <<srv, dropped>> /\ OthersUntouched(c)

Lost(c) ==
  /\ Carried(c)' = <<>>
  /\ \/ /\ dropped' = [dropped EXCEPT ![c] = @ \cup Numbers(OnTheWay(c))]
        /\ \A t \in Threads : InHand(c, t)' = InHand(c, t)
     \/ /\ dropped' = [dropped EXCEPT ![c] =
             @ \cup Numbers(OnTheWay(c) \cup Pending(c, "main") \cup Pending(c, "pull"))]
        /\ \A t \in Threads : InHand(c, t)' = <<>>
  /\ UNCHANGED <<srv, handled>> /\ OthersUntouched(c)

Move ==
  \/ Still
  \/ \E c \in Clients : \/ Stored(c) \/ Fetched(c) \/ Taken(c) \/ Lost(c)
                        \/ \E t \in Threads : Received(c, t) \/ Processed(c, t)

LEMMA StillKept ==
  ASSUME UNCHANGED <<rsp, toClient, srv, handled, dropped>>
  PROVE  Still
BY DEF Still, Untouched, Carried, InHand

\* A thread that returns has processed its list.
LEMMA StillReturned ==
  ASSUME TypeInv, NEW c \in Clients, NEW t \in Threads,
         rsp[c][t] # None => rsp[c][t].msgs = <<>>,
         rsp' = [rsp EXCEPT ![c][t] = None], UNCHANGED <<toClient, srv, handled, dropped>>
  PROVE  Still
<1>1. rsp \in [Clients -> [Threads -> Response \cup {None}]]
  BY DEF TypeInv, DataOK, ThreadsOK
<1>2. \A d \in Clients, u \in Threads : InHand(d, u)' = InHand(d, u)
  BY <1>1 DEF InHand
<1> QED
  BY <1>2 DEF Still, Untouched, Carried

\* The server's answers: errors and confirmations bring no messages.
LEMMA ServeMoves ==
  ASSUME TypeInv, NEW c \in Clients, Serve(c), NEW q \in RequestsOf(c), q = Head(toServer[c])
  PROVE  /\ Refuse(c, q) \/ LookUp(c, q) => Still
         /\ Fetch(c, q) => Fetched(c)
         /\ Store(c, q) => /\ \A d \in Clients : Untouched(d)
                           /\ NewMessage(c, q) \in Message /\ NewMessage(c, q).no = posted + 1
<1> USE DEF net, srv, hist
<1>1. toServer[c] # <<>>
  BY DEF Serve
<1>2. /\ toClient[c] = <<>> /\ Carried(c) = <<>> /\ \E t \in Threads : mutex[c] = t
  BY <1>1, WireFacts DEF Carried
<1>3. UNCHANGED <<rsp, handled, dropped>>
  BY DEF Serve
<1>4. \A d \in Clients, t \in Threads : InHand(d, t)' = InHand(d, t)
  BY <1>3 DEF InHand
<1>5. ASSUME NEW r \in ResponsesTo(c), Answer(c, r)
      PROVE  OthersUntouched(c) /\ Carried(c)' = r.msgs
  <2>1. toClient' = [toClient EXCEPT ![c] = Append(@, r)]
    BY <1>5 DEF Answer
  <2>2. \A d \in Clients \ {c} : toClient'[d] = toClient[d]
    BY <2>1 DEF TypeInv, DataOK, ConnectionsOK
  <2>3. toClient'[c] = <<r>>
    BY <1>2, <2>1 DEF TypeInv, DataOK, ConnectionsOK
  <2>4. Carried(c)' = r.msgs
    BY <2>3, SingletonFacts DEF Carried
  <2> QED
    BY <1>4, <2>2, <2>4 DEF OthersUntouched, Untouched, Carried
<1>6. ASSUME NEW r \in ResponsesTo(c), Answer(c, r), r.msgs = <<>>
      PROVE  \A d \in Clients : Untouched(d)
  BY <1>2, <1>4, <1>5, <1>6 DEF OthersUntouched, Untouched
<1>7. ASSUME Refuse(c, q) PROVE Still
  BY <1>3, <1>6, <1>7, AnswerFacts DEF Refuse, Still, ErrorResponse, Reply
<1>8. ASSUME LookUp(c, q) PROVE Still
  <2> DEFINE r == Reply(q.kind, q.peer, IF q.kind = "list" THEN Listed(c) ELSE {}, <<>>)
  <2>1. r \in ResponsesTo(c) /\ Answer(c, r) /\ r.msgs = <<>>
    BY <1>8, AnswerFacts DEF LookUp, Reply
  <2> HIDE DEF r
  <2> QED
    BY <1>3, <1>6, <1>8, <2>1 DEF LookUp, Still
<1>9. ASSUME Fetch(c, q) PROVE Fetched(c)
  <2>1. OthersUntouched(c) /\ Carried(c)' = box[c]
    BY <1>5, <1>9, AnswerFacts DEF Fetch, Reply
  <2> QED
    BY <1>2, <1>3, <1>4, <1>9, <2>1 DEF Fetch, Empty, Left, Fetched
<1>10. ASSUME Store(c, q)
       PROVE  /\ \A d \in Clients : Untouched(d)
              /\ NewMessage(c, q) \in Message /\ NewMessage(c, q).no = posted + 1
  <2>1. \A d \in Clients : Untouched(d)
    <3> DEFINE r == Reply("send", q.peer, {}, <<>>)
    <3>1. r \in ResponsesTo(c) /\ Answer(c, r) /\ r.msgs = <<>>
      BY <1>10, AnswerFacts DEF Store, Reply
    <3> HIDE DEF r
    <3> QED
      BY <1>6, <3>1
  <2>2. q.content \in Content /\ posted + 1 \in Nat
    BY <1>10 DEF Store, RequestsOf, TypeInv, DataOK, MailboxesOK
  <2>3. NewMessage(c, q) \in Message /\ NewMessage(c, q).no = posted + 1
    BY <2>2 DEF NewMessage, Content, Message
  <2> QED
    BY <2>1, <2>3
<1> QED
  BY <1>7, <1>8, <1>9, <1>10

\* The thread of a lost connection stores a message, or takes those of the
\* mailbox with it.
LEMMA LeftoverMoves ==
  ASSUME TypeInv, NEW c \in Clients, NEW s \in Slots, ServeLeftover(c, s)
  PROVE  Still \/ Taken(c) \/ \E d \in Clients : Stored(d)
<1> USE DEF net, srv, hist
<1>1. PICK q \in RequestsOf(c) : q = leftover[c][s]
  BY DEF ServeLeftover, TypeInv, LeftoverOK
<1>2. UNCHANGED <<rsp, toClient, handled>> /\ \A d \in Clients : Untouched(d)
  BY DEF ServeLeftover, Untouched, Carried, InHand
<1>3. CASE UNCHANGED <<srv, dropped>>
  BY <1>2, <1>3 DEF Still
<1>4. CASE Empty(c) /\ dropped' = [dropped EXCEPT ![c] = @ \cup Numbers(ToSet(box[c]))]
  BY <1>2, <1>4 DEF Empty, Left, Taken, NosOf
<1>5. CASE q.kind = "send" /\ Post(c, q) /\ UNCHANGED dropped
  <2>1. q.content \in Content /\ posted + 1 \in Nat /\ q.peer \in Clients
    BY <1>5 DEF RequestsOf, TypeInv, DataOK, MailboxesOK
  <2>2. NewMessage(c, q) \in Message /\ NewMessage(c, q).no = posted + 1
    BY <2>1 DEF NewMessage, Content, Message
  <2>3. Stored(q.peer)
    BY <1>2, <1>5, <2>2 DEF Stored, Post
  <2> QED
    BY <2>1, <2>3
<1> QED
  BY <1>1, <1>3, <1>4, <1>5 DEF ServeLeftover

\* What is on the way is lost with the connection.
LEMMA BreakMoves ==
  ASSUME TypeInv, NEW c \in Clients, Break(c)
  PROVE  Lost(c)
<1> USE DEF net, srv, hist
<1>1. /\ toClient' = [toClient EXCEPT ![c] = <<>>] /\ UNCHANGED <<rsp, srv, handled>>
      /\ dropped' = [dropped EXCEPT ![c] = @ \cup Numbers(OnTheWay(c))]
  BY DEF Break
<1>2. toClient'[c] = <<>> /\ \A d \in Clients \ {c} : toClient'[d] = toClient[d]
  BY <1>1 DEF TypeInv, DataOK, ConnectionsOK
<1> QED
  BY <1>1, <1>2 DEF Lost, OthersUntouched, Untouched, Carried, InHand

\* What is in hand is lost with the program.
LEMMA CrashMoves ==
  ASSUME TypeInv, NEW c \in Clients, Crash(c)
  PROVE  Lost(c)
<1> USE DEF net, srv, hist
<1>1. /\ toClient' = [toClient EXCEPT ![c] = <<>>] /\ UNCHANGED <<srv, handled>>
      /\ rsp' = [rsp EXCEPT ![c] = [t \in Threads |-> None]]
      /\ dropped' = [dropped EXCEPT ![c] =
           @ \cup Numbers(OnTheWay(c) \cup Pending(c, "main") \cup Pending(c, "pull"))]
  BY DEF Crash
<1>2. toClient'[c] = <<>> /\ \A d \in Clients \ {c} : toClient'[d] = toClient[d]
  BY <1>1 DEF TypeInv, DataOK, ConnectionsOK
<1>3. \A t \in Threads : /\ rsp'[c][t] = None
                         /\ \A d \in Clients \ {c} : rsp'[d][t] = rsp[d][t]
  BY <1>1 DEF TypeInv, DataOK, ThreadsOK
<1> QED
  BY <1>1, <1>2, <1>3 DEF Lost, OthersUntouched, Untouched, Carried, InHand

\* sendAndReceive hands the list to the thread that holds _connMutex.
LEMMA ReceiveMoves ==
  ASSUME TypeInv, NEW c \in Clients, NEW t \in Threads, Receive(c, t)
  PROVE  Received(c, t)
<1> USE DEF net, srv, hist
<1>1. /\ rsp' = [rsp EXCEPT ![c][t] = Head(toClient[c])]
      /\ toClient' = [toClient EXCEPT ![c] = Tail(@)]
      /\ pc[c][t] = "receive" /\ toClient[c] # <<>> /\ UNCHANGED <<srv, handled, dropped>>
  BY DEF Receive
<1>2. Head(toClient[c]) \in ResponsesTo(c) /\ Tail(toClient[c]) = <<>>
  BY <1>1, WireFacts
<1>3. toClient'[c] = <<>> /\ \A d \in Clients \ {c} : toClient'[d] = toClient[d]
  BY <1>1, <1>2 DEF TypeInv, DataOK, ConnectionsOK
<1>4. /\ rsp'[c][t] = Head(toClient[c])
      /\ \A u \in Threads : u # t => rsp'[c][u] = rsp[c][u]
      /\ \A d \in Clients \ {c} : rsp'[d] = rsp[d]
  BY <1>1 DEF TypeInv, DataOK, ThreadsOK
<1>5. mutex[c] = t
  BY <1>1 DEF TypeInv, ControlOK
<1>6. Head(toClient[c]) # None
  BY <1>2, NoneAssumption DEF ResponsesTo
<1>7. c \notin mixed' => Carried(c) = <<>> \/ \A u \in Threads \ {t} : InHand(c, u) = <<>>
  <2>1. c \notin mixed' => Carried(c) = <<>> \/ \A u \in Threads \ {t} : Pending(c, u) = {}
    BY <1>1 DEF Receive, Carried
  <2>2. ASSUME NEW u \in Threads, Pending(c, u) = {} PROVE InHand(c, u) = <<>>
    <3>1. PICK s \in Seq(MailFor(c)) : s = InHand(c, u)
      BY Lists
    <3>2. ToSet(s) = {}
      BY <2>2, <3>1, Lists
    <3>3. s # <<>> => Head(s) \in ToSet(s)
      BY ListFacts
    <3> QED
      BY <3>1, <3>2, <3>3
  <2> QED
    BY <2>1, <2>2
<1> QED
  BY <1>1, <1>3, <1>4, <1>5, <1>6, <1>7
     DEF Received, OthersUntouched, Untouched, Carried, InHand

\* Responses without messages, or at their end, leave none behind.
LEMMA FinishMoves ==
  ASSUME TypeInv, NEW c \in Clients, NEW t \in Threads, Finish(c, t)
  PROVE  Still
<1> USE DEF net, srv, hist
<1>1. /\ rsp[c][t].msgs = <<>> /\ rsp' = [rsp EXCEPT ![c][t] = None]
      /\ UNCHANGED <<toClient, srv, handled, dropped>>
  BY DEF Finish, Return
<1> QED
  BY <1>1, StillReturned

\* Responses about names and public keys bring none.
LEMMA LearnMoves ==
  ASSUME TypeInv, NEW c \in Clients, NEW t \in Threads, LearnName(c, t)
  PROVE  Still
<1> USE DEF net, srv, hist
<1>1. PICK d \in rsp[c][t].names : rsp' = [rsp EXCEPT ![c][t].names = @ \ {d}]
  BY DEF LearnName
<1>2. UNCHANGED <<toClient, srv, handled, dropped>> /\ pc[c][t] \in Under
  BY DEF LearnName, Kind, Under
<1>3. rsp \in [Clients -> [Threads -> Response \cup {None}]] /\ rsp[c][t] \in Response
  BY <1>2 DEF TypeInv, DataOK, ThreadsOK, ThreadOK, ResponsesTo
<1>4. rsp'[c][t] \in Response /\ rsp'[c][t].msgs = rsp[c][t].msgs
  BY <1>1, <1>3 DEF Response
<1>5. \A b \in Clients, u \in Threads : b # c \/ u # t => rsp'[b][u] = rsp[b][u]
  BY <1>1, <1>3
<1>6. \A b \in Clients, u \in Threads : InHand(b, u)' = InHand(b, u)
  BY <1>3, <1>4, <1>5, NoneAssumption DEF InHand
<1> QED
  BY <1>2, <1>6 DEF Still, Untouched, Carried

LEMMA KeyMoves ==
  ASSUME TypeInv, NEW c \in Clients, NEW t \in Threads, StorePublicKey(c, t)
  PROVE  Still
<1> USE DEF net, srv, hist
<1>1. /\ rsp[c][t].kind = "publicKey" /\ rsp' = [rsp EXCEPT ![c][t] = None]
      /\ UNCHANGED <<toClient, srv, handled, dropped>>
  BY DEF StorePublicKey, Return
<1>2. rsp[c][t] # None => rsp[c][t].msgs = <<>>
  BY <1>1 DEF TypeInv, DataOK, ThreadsOK, ThreadOK, ResponsesTo
<1> QED
  BY <1>1, <1>2, StillReturned

\* The loop of responseWaitingMessages takes the head of the list.
LEMMA ProcessMoves ==
  ASSUME TypeInv, NEW c \in Clients, NEW t \in Threads, Show(c, t) \/ StoreSymmetricKey(c, t)
  PROVE  Processed(c, t) /\ rsp[c][t].msgs = InHand(c, t)
<1> USE DEF net, srv, hist
<1>1. /\ rsp' = [rsp EXCEPT ![c][t].msgs = Tail(@)]
      /\ handled' = [handled EXCEPT ![c] = @ \cup {Head(rsp[c][t].msgs).no}]
      /\ UNCHANGED <<toClient, srv, dropped>> /\ pc[c][t] \in Under
      /\ Show(c, t) => rsp[c][t].msgs # <<>>
      /\ StoreSymmetricKey(c, t) => pc[c][t] = "store" /\ rsp[c][t].kind = "waiting"
  BY DEF Show, StoreSymmetricKey, Advance, Kind, Under
<1>2. rsp[c][t] # None /\ rsp[c][t] \in ResponsesTo(c) /\ rsp[c][t].msgs # <<>>
  BY <1>1 DEF TypeInv, DataOK, ThreadsOK, ThreadOK
<1>3. /\ rsp'[c][t] = [rsp[c][t] EXCEPT !.msgs = Tail(@)]
      /\ \A u \in Threads : u # t => rsp'[c][u] = rsp[c][u]
      /\ \A d \in Clients \ {c} : rsp'[d] = rsp[d]
  BY <1>1 DEF TypeInv, DataOK, ThreadsOK
<1>4. rsp'[c][t] \in Response /\ rsp'[c][t].msgs = Tail(rsp[c][t].msgs)
  <2>1. rsp[c][t] \in Response /\ Tail(rsp[c][t].msgs) \in Seq(Message)
    BY <1>2 DEF ResponsesTo, Response
  <2> QED
    BY <1>3, <2>1 DEF Response
<1>5. rsp'[c][t] # None
  BY <1>4, NoneAssumption
<1> QED
  BY <1>1, <1>2, <1>3, <1>4, <1>5
     DEF Processed, OthersUntouched, Untouched, Carried, InHand

LEMMA StepMoves == TypeInv /\ [Next]_vars => Move
<1> SUFFICES ASSUME TypeInv, [Next]_vars PROVE Move
  OBVIOUS
<1> USE DEF net, srv, hist
<1>1. ASSUME NEW c \in Clients, Menu(c) \/ Join(c) \/ Poll(c) \/ StopPolling(c) \/ Restart(c)
      PROVE  Still
  <2>1. UNCHANGED <<rsp, toClient, srv, handled, dropped>>
    BY <1>1 DEF Menu, AskServer, AskPublicKey, RequestKey, SendText, SendKey, SendCommand, Exit,
                Join, Poll, StopPolling, Restart
  <2> QED
    BY <2>1, StillKept
<1>2. ASSUME NEW c \in Clients, Serve(c) PROVE Still \/ Fetched(c) \/ \E d \in Clients : Stored(d)
  <2>1. PICK q \in RequestsOf(c) : q = Head(toServer[c])
    BY <1>2, WireFacts DEF Serve
  <2>2. ASSUME Store(c, q) PROVE Stored(q.peer) /\ q.peer \in Clients
    BY <1>2, <2>1, <2>2, ServeMoves DEF Serve, Store, Post, Stored, RequestsOf
  <2> QED
    BY <1>2, <2>1, <2>2, ServeMoves DEF Serve
<1>3. ASSUME NEW c \in Clients, NEW t \in Threads, Send(c, t) \/ Fail(c, t) PROVE Still
  <2>1. UNCHANGED <<rsp, toClient, srv, handled, dropped>>
    BY <1>3 DEF Send, Fail
  <2> QED
    BY <2>1, StillKept
<1>4. ASSUME NEW c \in Clients, NEW t \in Threads, Check(c, t) \/ Base(c, t) PROVE Still
  <2>1. UNCHANGED <<rsp, toClient, srv, handled, dropped>>
    BY <1>4 DEF Check, Base
  <2> QED
    BY <2>1, StillKept
<1>5. CASE UNCHANGED vars
  <2>1. UNCHANGED <<rsp, toClient, srv, handled, dropped>>
    BY <1>5 DEF vars
  <2>2. Still
    BY <2>1, StillKept
  <2> QED
    BY <2>2 DEF Move
<1> QED
  BY <1>1, <1>2, <1>3, <1>4, <1>5, BreakMoves, CrashMoves, ReceiveMoves, FinishMoves, LearnMoves,
     KeyMoves, ProcessMoves, LeftoverMoves DEF Next, Process, Move

-----------------------------------------------------------------------------
(* No message is dropped *)

\* The numbers of all the messages that c has, had, or may yet have.
Held(c) == handled[c] \cup dropped[c] \cup NosOf(box[c]) \cup NosOf(Carried(c)) \cup InHands(c)

LEMMA NumberFacts ==
  ASSUME NEW s \in Seq(Message)
  PROVE  /\ NosOf(<<>>) = {}
         /\ \A m \in Message : NosOf(Append(s, m)) = NosOf(s) \cup {m.no}
         /\ s # <<>> => NosOf(s) = {Head(s).no} \cup NosOf(Tail(s))
<1>1. ToSet(<<>>) = {}
  BY DEF ToSet
<1>2. \A m \in Message : ToSet(Append(s, m)) = ToSet(s) \cup {m}
  BY ListFacts
<1>3. s # <<>> => ToSet(s) = {Head(s)} \cup ToSet(Tail(s))
  BY ListFacts
<1> QED
  BY <1>1, <1>2, <1>3 DEF NosOf, Numbers

LEMMA MessageLists ==
  ASSUME TypeInv, NEW c \in Clients
  PROVE  /\ box[c] \in Seq(Message) /\ Carried(c) \in Seq(Message)
         /\ \A t \in Threads : InHand(c, t) \in Seq(Message)
         /\ NosOf(box[c]) \cup NosOf(Carried(c)) \cup InHands(c) \subseteq 1..posted
<1>1. MailFor(c) \subseteq Message /\ \A m \in MailFor(c) : m.no \in 1..posted
  BY DEF MailFor
<1>2. /\ box[c] \in Seq(MailFor(c)) /\ Carried(c) \in Seq(MailFor(c))
      /\ \A t \in Threads : InHand(c, t) \in Seq(MailFor(c))
  BY Lists DEF TypeInv, DataOK, MailboxesOK
<1>3. ASSUME NEW s \in Seq(MailFor(c)) PROVE s \in Seq(Message) /\ NosOf(s) \subseteq 1..posted
  <2>1. ToSet(s) \subseteq MailFor(c)
    BY ListFacts
  <2>2. s \in Seq(Message)
    BY <1>1
  <2> QED
    BY <1>1, <2>1, <2>2 DEF NosOf, Numbers
<1> QED
  BY <1>2, <1>3 DEF Threads, InHands

LEMMA HeldKept ==
  ASSUME TypeInv, Move, NEW c \in Clients
  PROVE  Held(c) \subseteq Held(c)'
<1> USE DEF Held, InHands, srv
<1>1. /\ DOMAIN box = Clients /\ DOMAIN handled = Clients /\ DOMAIN dropped = Clients
      /\ "main" \in Threads /\ "pull" \in Threads /\ Threads = {"main", "pull"}
  BY DEF TypeInv, DataOK, MailboxesOK, Threads
<1>2. NosOf(<<>>) = {}
  BY DEF NosOf, Numbers, ToSet
<1>3. CASE Still
  BY <1>1, <1>3 DEF Still, Untouched
<1>4. ASSUME NEW d \in Clients, Stored(d) PROVE Held(c) \subseteq Held(c)'
  <2>1. PICK m \in Message : box' = [box EXCEPT ![d] = Append(@, m)]
    BY <1>4 DEF Stored
  <2>2. NosOf(box[c]) \subseteq NosOf(box'[c])
    <3>1. CASE c = d
      BY <1>1, <2>1, <3>1, MessageLists, NumberFacts
    <3>2. CASE c # d
      BY <1>1, <2>1, <3>2
    <3> QED
      BY <3>1, <3>2
  <2> QED
    BY <1>1, <1>4, <2>2 DEF Stored, Untouched
<1>5. ASSUME NEW d \in Clients, d # c,
             \/ Fetched(d) \/ Taken(d) \/ Lost(d)
             \/ \E t \in Threads : Received(d, t) \/ Processed(d, t)
      PROVE  Held(c) \subseteq Held(c)'
  <2>1. Untouched(c)
    BY <1>5 DEF Fetched, Taken, Lost, Received, Processed, OthersUntouched
  <2>2. box'[c] = box[c] /\ handled'[c] = handled[c] /\ dropped'[c] = dropped[c]
    BY <1>1, <1>5 DEF Fetched, Taken, Lost, Received, Processed
  <2> QED
    BY <1>1, <2>1, <2>2 DEF Untouched
<1>6. CASE Fetched(c)
  BY <1>1, <1>2, <1>6 DEF Fetched
<1>7. CASE Lost(c)
  <2>1. dropped[c] \cup NosOf(Carried(c)) \subseteq dropped'[c]
    BY <1>1, <1>7, Lists DEF Lost, NosOf, Numbers
  <2>2. InHands(c) \subseteq InHands(c)' \cup dropped'[c]
    BY <1>1, <1>7, Lists DEF Lost, NosOf, Numbers
  <2> QED
    BY <1>7, <2>1, <2>2 DEF Lost
<1>8. ASSUME NEW t \in Threads, Received(c, t) PROVE Held(c) \subseteq Held(c)'
  <2>1. InHand(c, t) = <<>>
    BY <1>8 DEF Received, TypeInv, ControlOK, DataOK, ThreadsOK, ThreadOK, Under, InHand
  <2> QED
    BY <1>1, <1>2, <1>8, <2>1 DEF Received
<1>9. ASSUME NEW t \in Threads, Processed(c, t) PROVE Held(c) \subseteq Held(c)'
  <2>1. NosOf(InHand(c, t)) = {Head(InHand(c, t)).no} \cup NosOf(InHand(c, t)')
    BY <1>9, MessageLists, NumberFacts DEF Processed
  <2>2. handled'[c] = handled[c] \cup {Head(InHand(c, t)).no}
    BY <1>1, <1>9 DEF Processed
  <2> QED
    BY <1>1, <1>9, <2>1, <2>2 DEF Processed
<1>10. CASE Taken(c)
  <2>1. dropped'[c] = dropped[c] \cup NosOf(box[c]) /\ Untouched(c) /\ handled'[c] = handled[c]
    BY <1>1, <1>10 DEF Taken
  <2> QED
    BY <1>1, <2>1 DEF Untouched
<1> QED
  BY <1>3, <1>4, <1>5, <1>6, <1>7, <1>8, <1>9, <1>10 DEF Move

AllHeld == \A n \in 1..posted : \E c \in Clients : n \in Held(c)

\* Every message that was stored is waiting, or on its way, or in the hands of
\* a thread, or was processed, or was lost with a connection or a program:
\* whichever order the threads of a program end in, it drops none.
THEOREM MessagesAccountedFor == Spec => []NoMessageDropped
<1>1. Init => AllHeld
  BY DEF Init, AllHeld
<1>2. ASSUME TypeInv, AllHeld, [Next]_vars PROVE AllHeld'
  <2>1. Move
    BY <1>2, StepMoves
  <2>2. \A n \in 1..posted : \E c \in Clients : n \in Held(c)'
    BY <1>2, <2>1, HeldKept DEF AllHeld
  <2>3. CASE UNCHANGED posted
    BY <2>2, <2>3 DEF AllHeld
  <2>4. ASSUME NEW c \in Clients, Stored(c) PROVE AllHeld'
    <3>1. PICK m \in Message : m.no = posted + 1 /\ box' = [box EXCEPT ![c] = Append(@, m)]
      BY <2>4 DEF Stored
    <3>2. posted + 1 \in NosOf(box'[c])
      BY <1>2, <3>1, MessageLists, NumberFacts DEF TypeInv, DataOK, MailboxesOK
    <3>3. posted + 1 \in Held(c)'
      BY <3>2 DEF Held
    <3>4. posted' = posted + 1 /\ posted \in Nat
      BY <1>2, <2>4 DEF Stored, TypeInv, DataOK, MailboxesOK
    <3>5. \A n \in 1..posted' : n \in 1..posted \/ n = posted + 1
      BY <3>4
    <3> QED
      BY <2>2, <3>3, <3>5 DEF AllHeld
  <2> QED
    BY <2>1, <2>3, <2>4 DEF Move, Still, Fetched, Taken, Lost, Received, Processed, srv
<1>3. ASSUME TypeInv, AllHeld PROVE NoMessageDropped
  BY <1>3, Lists DEF AllHeld, NoMessageDropped, Held, InHands, NosOf, Threads
<1> QED
  BY <1>1, <1>2, <1>3, TypeInvariant, PTL DEF Spec

-----------------------------------------------------------------------------
(* Messages are processed once, and in order *)

\* A list is in the order in which the messages were stored.
Sorted(s) == \A i, j \in DOMAIN s : i < j => s[i].no < s[j].no
Before(M, N) == \A m \in M, n \in N : m < n

\* No message is in two places, and what waits for a client is younger than
\* all that was fetched.
Once(c) ==
  /\ Sorted(box[c]) /\ Sorted(Carried(c)) /\ \A t \in Threads : Sorted(InHand(c, t))
  /\ Before(handled[c] \cup dropped[c] \cup NosOf(Carried(c)) \cup InHands(c), NosOf(box[c]))
  /\ dropped[c] \cap (NosOf(Carried(c)) \cup InHands(c)) = {}
  /\ NosOf(Carried(c)) \cap InHands(c) = {}
  /\ NosOf(InHand(c, "main")) \cap NosOf(InHand(c, "pull")) = {}

\* One thread at most has messages in hand, younger than all that were processed
\* and older than those on the way.
OneHand(c) ==
  /\ InHand(c, "main") = <<>> \/ InHand(c, "pull") = <<>>
  /\ Before(handled[c], NosOf(Carried(c)) \cup InHands(c))
  /\ Before(InHands(c), NosOf(Carried(c)))

OrderOK == \A c \in Clients : Once(c) /\ (c \notin mixed => OneHand(c))

\* That two threads have had messages in hand is never forgotten.
LEMMA MixedGrows == [Next]_vars => mixed \subseteq mixed'
<1> SUFFICES ASSUME [Next]_vars PROVE mixed \subseteq mixed'
  OBVIOUS
<1> USE DEF hist
<1>1. ASSUME NEW c \in Clients, Menu(c) \/ Join(c) \/ Poll(c) \/ StopPolling(c) \/ Restart(c)
      PROVE  mixed \subseteq mixed'
  BY <1>1 DEF Menu, AskServer, AskPublicKey, RequestKey, SendText, SendKey, SendCommand, Exit,
              Join, Poll, StopPolling, Restart
<1>2. ASSUME NEW c \in Clients, Serve(c) \/ Break(c) \/ Crash(c) PROVE mixed \subseteq mixed'
  BY <1>2 DEF Serve, Break, Crash
<1>3. ASSUME NEW c \in Clients, NEW s \in Slots, ServeLeftover(c, s) PROVE mixed \subseteq mixed'
  BY <1>3 DEF ServeLeftover
<1>4. ASSUME NEW c \in Clients, NEW t \in Threads, Send(c, t) \/ Receive(c, t) \/ Fail(c, t)
      PROVE  mixed \subseteq mixed'
  BY <1>4 DEF Send, Receive, Fail
<1>5. ASSUME NEW c \in Clients, NEW t \in Threads, Process(c, t) PROVE mixed \subseteq mixed'
  BY <1>5 DEF Process, Finish, LearnName, Show, Check, Base, StorePublicKey, StoreSymmetricKey
<1>6. CASE UNCHANGED vars
  BY <1>6 DEF vars
<1> QED
  BY <1>1, <1>2, <1>3, <1>4, <1>5, <1>6 DEF Next

LEMMA SortedFacts ==
  ASSUME NEW s \in Seq(Message), Sorted(s)
  PROVE  /\ Sorted(<<>>)
         /\ \A m \in Message : Before(NosOf(s), {m.no}) => Sorted(Append(s, m))
         /\ s # <<>> => Sorted(Tail(s)) /\ Before({Head(s).no}, NosOf(Tail(s)))
<1>1. Sorted(<<>>)
  BY DEF Sorted
<1>2. ASSUME NEW m \in Message, Before(NosOf(s), {m.no}) PROVE Sorted(Append(s, m))
  <2>1. \A i \in DOMAIN s : s[i].no < m.no
    BY <1>2 DEF Before, NosOf, Numbers, ToSet
  <2>2. /\ DOMAIN s = 1..Len(s) /\ DOMAIN Append(s, m) = 1..Len(s) + 1 /\ Len(s) \in Nat
        /\ \A i \in 1..Len(s) : Append(s, m)[i] = s[i]
        /\ Append(s, m)[Len(s) + 1] = m
    OBVIOUS
  <2> QED
    BY <2>1, <2>2 DEF Sorted
<1>3. ASSUME s # <<>> PROVE Sorted(Tail(s)) /\ Before({Head(s).no}, NosOf(Tail(s)))
  <2>1. /\ DOMAIN s = 1..Len(s) /\ DOMAIN Tail(s) = 1..Len(s) - 1 /\ Len(s) \in Nat /\ Len(s) > 0
        /\ \A i \in 1..Len(s) - 1 : Tail(s)[i] = s[i + 1]
        /\ Head(s) = s[1]
    BY <1>3
  <2>2. Sorted(Tail(s))
    BY <2>1 DEF Sorted
  <2>3. \A i \in DOMAIN Tail(s) : Head(s).no < Tail(s)[i].no
    BY <2>1 DEF Sorted
  <2> QED
    BY <2>2, <2>3 DEF Before, NosOf, Numbers, ToSet
<1> QED
  BY <1>1, <1>2, <1>3

\* The lists of c after a step of somebody else, or with the messages of the
\* mailbox fetched, received, processed or lost.
LEMMA OrderStep == TypeInv /\ OrderOK /\ Move /\ mixed \subseteq mixed' => OrderOK'
<1> SUFFICES ASSUME TypeInv, OrderOK, Move, mixed \subseteq mixed', NEW c \in Clients
             PROVE  Once(c)' /\ (c \notin mixed' => OneHand(c)')
  BY DEF OrderOK
<1> USE DEF Once, OneHand, InHands, srv
<1>1. Once(c) /\ (c \notin mixed' => OneHand(c))
  BY DEF OrderOK
<1>2. /\ DOMAIN box = Clients /\ DOMAIN handled = Clients /\ DOMAIN dropped = Clients
      /\ posted \in Nat /\ Threads = {"main", "pull"}
  BY DEF TypeInv, DataOK, MailboxesOK, Threads
<1>3. NosOf(<<>>) = {} /\ Sorted(<<>>)
  BY DEF NosOf, Numbers, ToSet, Sorted
<1>4. /\ handled[c] \cup dropped[c] \subseteq 1..posted
      /\ NosOf(box[c]) \cup NosOf(Carried(c)) \cup InHands(c) \subseteq 1..posted
      /\ box[c] \in Seq(Message) /\ \A t \in Threads : InHand(c, t) \in Seq(Message)
  BY MessageLists DEF TypeInv, DataOK, MailboxesOK
<1>5. /\ Untouched(c) /\ box'[c] = box[c] /\ handled'[c] = handled[c] /\ dropped'[c] = dropped[c]
        => Once(c)' /\ (c \notin mixed' => OneHand(c)')
  BY <1>1, <1>2 DEF Untouched
<1>6. CASE Still
  BY <1>5, <1>6 DEF Still
<1>7. ASSUME NEW d \in Clients, d # c,
             \/ Stored(d) \/ Fetched(d) \/ Taken(d) \/ Lost(d)
             \/ \E t \in Threads : Received(d, t) \/ Processed(d, t)
      PROVE  Once(c)' /\ (c \notin mixed' => OneHand(c)')
  <2>1. Untouched(c)
    BY <1>7 DEF Stored, Fetched, Taken, Lost, Received, Processed, OthersUntouched
  <2>2. box'[c] = box[c] /\ handled'[c] = handled[c] /\ dropped'[c] = dropped[c]
    BY <1>2, <1>7 DEF Stored, Fetched, Taken, Lost, Received, Processed
  <2> QED
    BY <1>5, <2>1, <2>2
<1>8. CASE Stored(c)
  <2>1. PICK m \in Message : m.no = posted + 1 /\ box' = [box EXCEPT ![c] = Append(@, m)]
    BY <1>8 DEF Stored
  <2>2. /\ Untouched(c) /\ handled'[c] = handled[c] /\ dropped'[c] = dropped[c]
        /\ box'[c] = Append(box[c], m)
    BY <1>2, <1>8, <2>1 DEF Stored
  <2>3. \A n \in 1..posted : n < posted + 1
    BY <1>2
  <2>4. NosOf(box'[c]) = NosOf(box[c]) \cup {posted + 1}
    BY <1>4, <2>1, <2>2, NumberFacts
  <2>5. Sorted(box'[c])
    <3>1. Before(NosOf(box[c]), {m.no})
      BY <1>4, <2>1, <2>3 DEF Before
    <3> QED
      BY <1>1, <1>4, <2>2, <3>1, SortedFacts
  <2>6. Before(handled[c] \cup dropped[c] \cup NosOf(Carried(c)) \cup InHands(c), NosOf(box'[c]))
    BY <1>1, <1>4, <2>3, <2>4 DEF Before
  <2> QED
    BY <1>1, <1>2, <2>2, <2>5, <2>6 DEF Untouched
<1>9. CASE Fetched(c)
  <2>1. /\ Carried(c)' = box[c] /\ box'[c] = <<>> /\ Carried(c) = <<>>
        /\ InHand(c, "main")' = InHand(c, "main") /\ InHand(c, "pull")' = InHand(c, "pull")
        /\ handled'[c] = handled[c] /\ dropped'[c] = dropped[c]
    BY <1>2, <1>9 DEF Fetched
  <2>2. NosOf(box[c]) \cap (handled[c] \cup dropped[c] \cup InHands(c)) = {}
    BY <1>1, <1>4 DEF Before
  <2>3. Once(c)'
    BY <1>1, <1>2, <1>3, <2>1, <2>2 DEF Before
  <2>4. c \notin mixed' => OneHand(c)'
    BY <1>1, <1>3, <2>1 DEF Before
  <2> QED
    BY <2>3, <2>4
<1>10. CASE Taken(c)
  <2>1. /\ box'[c] = <<>> /\ Untouched(c)
        /\ handled'[c] = handled[c] /\ dropped'[c] = dropped[c] \cup NosOf(box[c])
    BY <1>2, <1>10 DEF Taken
  <2>2. NosOf(box[c]) \cap (NosOf(Carried(c)) \cup InHands(c)) = {}
    BY <1>1, <1>4 DEF Before
  <2>3. Once(c)'
    BY <1>1, <1>2, <1>3, <2>1, <2>2 DEF Before, Untouched
  <2>4. c \notin mixed' => OneHand(c)'
    BY <1>1, <1>2, <2>1 DEF Untouched
  <2> QED
    BY <2>3, <2>4
<1>11. ASSUME NEW t \in Threads, Received(c, t) PROVE Once(c)' /\ (c \notin mixed' => OneHand(c)')
  <2>1. InHand(c, t) = <<>>
    BY <1>11, HandFree DEF Received
  <2>2. /\ box'[c] = box[c] /\ handled'[c] = handled[c] /\ dropped'[c] = dropped[c]
        /\ Carried(c)' = <<>> /\ InHand(c, t)' = Carried(c)
        /\ \A u \in Threads \ {t} : InHand(c, u)' = InHand(c, u)
    BY <1>11 DEF Received
  <2>3. NosOf(Carried(c)') = {} /\ InHands(c)' = InHands(c) \cup NosOf(Carried(c))
    BY <1>2, <1>3, <2>1, <2>2
  <2>4. /\ \A u \in Threads : Sorted(InHand(c, u)')
        /\ NosOf(InHand(c, "main")') \cap NosOf(InHand(c, "pull")') = {}
    BY <1>1, <1>2, <2>2
  <2>5. Once(c)'
    BY <1>1, <1>3, <2>2, <2>3, <2>4 DEF Before
  <2>6. ASSUME c \notin mixed' PROVE OneHand(c)'
    <3>1. Carried(c) = <<>> \/ \A u \in Threads \ {t} : InHand(c, u) = <<>>
      BY <1>11, <2>6 DEF Received
    <3>2. InHand(c, "main")' = <<>> \/ InHand(c, "pull")' = <<>>
      BY <1>1, <1>2, <2>2, <2>6, <3>1
    <3> QED
      BY <1>1, <2>2, <2>3, <2>6, <3>2 DEF Before
  <2> QED
    BY <2>5, <2>6
<1>12. ASSUME NEW t \in Threads, Processed(c, t) PROVE Once(c)' /\ (c \notin mixed' => OneHand(c)')
  <2>1. PICK h : h = Head(InHand(c, t)).no
    OBVIOUS
  <2>2. /\ InHand(c, t) # <<>> /\ InHand(c, t)' = Tail(InHand(c, t))
        /\ handled'[c] = handled[c] \cup {h}
        /\ \A u \in Threads \ {t} : InHand(c, u)' = InHand(c, u)
        /\ Carried(c)' = Carried(c) /\ box'[c] = box[c] /\ dropped'[c] = dropped[c]
    BY <1>2, <1>12, <2>1 DEF Processed
  <2>3. /\ Sorted(InHand(c, t)') /\ Before({h}, NosOf(InHand(c, t)'))
        /\ NosOf(InHand(c, t)) = {h} \cup NosOf(InHand(c, t)')
    BY <1>1, <1>4, <2>1, <2>2, SortedFacts, NumberFacts
  <2>4. InHands(c)' \subseteq InHands(c) /\ h \in InHands(c)
    BY <1>2, <2>2, <2>3
  <2>5. /\ \A u \in Threads : Sorted(InHand(c, u)')
        /\ NosOf(InHand(c, "main")') \cap NosOf(InHand(c, "pull")') = {}
    BY <1>1, <1>2, <2>2, <2>3
  <2>6. Once(c)'
    BY <1>1, <2>2, <2>4, <2>5 DEF Before
  <2>7. ASSUME c \notin mixed' PROVE OneHand(c)'
    <3>1. \A u \in Threads \ {t} : InHand(c, u) = <<>>
      BY <1>1, <1>2, <2>2, <2>7
    <3>2. InHands(c)' = NosOf(InHand(c, t)')
      BY <1>2, <1>3, <2>2, <3>1
    <3>3. InHand(c, "main")' = <<>> \/ InHand(c, "pull")' = <<>>
      BY <1>2, <2>2, <3>1
    <3>4. Before(handled'[c], NosOf(Carried(c)') \cup InHands(c)')
      BY <1>1, <2>2, <2>3, <2>4, <2>7, <3>2 DEF Before
    <3> QED
      BY <1>1, <2>2, <2>4, <2>7, <3>3, <3>4 DEF Before
  <2> QED
    BY <2>6, <2>7
<1>13. CASE Lost(c)
  <2>1. /\ OnTheWay(c) = ToSet(Carried(c))
        /\ Pending(c, "main") = ToSet(InHand(c, "main")) /\ Pending(c, "pull") = ToSet(InHand(c, "pull"))
    BY <1>2, Lists
  <2>2. /\ Numbers(OnTheWay(c)) = NosOf(Carried(c))
        /\ Numbers(OnTheWay(c) \cup Pending(c, "main") \cup Pending(c, "pull"))
             = NosOf(Carried(c)) \cup InHands(c)
    BY <2>1 DEF NosOf, Numbers
  <2>3. Carried(c)' = <<>> /\ box'[c] = box[c] /\ handled'[c] = handled[c]
    BY <1>13 DEF Lost
  <2>4. \/ /\ dropped'[c] = dropped[c] \cup NosOf(Carried(c))
           /\ \A t \in Threads : InHand(c, t)' = InHand(c, t)
        \/ /\ dropped'[c] = dropped[c] \cup NosOf(Carried(c)) \cup InHands(c)
           /\ \A t \in Threads : InHand(c, t)' = <<>>
    BY <1>2, <1>13, <2>2 DEF Lost
  <2>5. CASE /\ dropped'[c] = dropped[c] \cup NosOf(Carried(c))
             /\ \A t \in Threads : InHand(c, t)' = InHand(c, t)
    BY <1>1, <1>2, <1>3, <2>3, <2>5 DEF Before
  <2>6. CASE /\ dropped'[c] = dropped[c] \cup NosOf(Carried(c)) \cup InHands(c)
             /\ \A t \in Threads : InHand(c, t)' = <<>>
    BY <1>1, <1>2, <1>3, <2>3, <2>6 DEF Before
  <2> QED
    BY <2>4, <2>5, <2>6
<1> QED
  BY <1>6, <1>7, <1>8, <1>9, <1>10, <1>11, <1>12, <1>13 DEF Move

LEMMA OrderInvariant == Spec => [](TypeInv /\ OrderOK)
<1>1. Init => OrderOK
  BY DEF Init, OrderOK, Once, OneHand, InHands, Carried, InHand, Sorted, Before, NosOf, Numbers,
         ToSet, Threads
<1> QED
  BY <1>1, StepMoves, MixedGrows, OrderStep, TypeInvariant, PTL DEF Spec

\* A client whose two threads have never had messages in hand at the same time
\* processes its messages in the order in which the server stored them, whether
\* the menu or the polling thread fetches them, whatever is lost, and whatever
\* the other clients do.
THEOREM OneThreadInOrder == Spec => OneBatchInOrder
<1>1. ASSUME TypeInv, OrderOK, Move, NEW c \in Clients \ mixed,
             NEW n \in handled'[c] \ handled[c], NEW m \in handled[c]
      PROVE  n > m
  <2>1. PICK t \in Threads : Processed(c, t)
    <3>1. \A d \in Clients, t \in Threads : d # c /\ Processed(d, t) => handled'[c] = handled[c]
      BY <1>1 DEF Processed, TypeInv, DataOK, MailboxesOK
    <3> QED
      BY <1>1, <3>1 DEF Move, Still, Stored, Fetched, Taken, Lost, Received
  <2>2. n = Head(InHand(c, t)).no /\ InHand(c, t) # <<>>
    BY <1>1, <2>1 DEF Processed, TypeInv, DataOK, MailboxesOK
  <2>3. n \in NosOf(InHand(c, t))
    BY <1>1, <2>2, MessageLists, NumberFacts
  <2>4. n \in InHands(c) /\ n \in 1..posted /\ m \in 1..posted
    BY <1>1, <2>3, MessageLists DEF InHands, Threads, TypeInv, DataOK, MailboxesOK
  <2>5. Before(handled[c], InHands(c))
    BY <1>1 DEF OrderOK, OneHand, Before
  <2> QED
    BY <2>4, <2>5 DEF Before
<1>2. TypeInv /\ OrderOK /\ [Next]_vars
        => \A c \in Clients \ mixed : \A n \in handled'[c] \ handled[c], m \in handled[c] : n > m
  BY <1>1, StepMoves
<1> QED
  BY <1>2, OrderInvariant, PTL DEF Spec, OneBatchInOrder

-----------------------------------------------------------------------------
(* The clients and the server's mailbox *)

\* The messages of the mailbox, by the numbers of those of each client: those
\* that wait, and those that were fetched and are not processed.
AllMails(f) == UNION {Mails(c, f[c]) : c \in Clients}
WaitingNos  == [c \in Clients |-> NosOf(box[c])]
OutNos      == [c \in Clients |-> dropped[c] \cup NosOf(Carried(c)) \cup InHands(c)]
DeliveredTo == [c \in Clients |-> Mails(c, handled[c])]

LEMMA MailsFacts ==
  ASSUME NEW f, NEW g, NEW c \in Clients, NEW N, \A d \in Clients \ {c} : g[d] = f[d]
  PROVE  /\ g[c] = f[c] => AllMails(g) = AllMails(f)
         /\ g[c] = f[c] \cup N => AllMails(g) = AllMails(f) \cup Mails(c, N)
         /\ g[c] = f[c] \ N => AllMails(g) = AllMails(f) \ Mails(c, N)
         /\ N \subseteq f[c] => Mails(c, N) \in SUBSET AllMails(f)
         /\ \A m \in AllMails(f) : m.to = c => m \in Mails(c, f[c])
         /\ \A m \in Mails(c, N) : m.to = c
<1>1. \A h, m : m \in AllMails(h) <=> \E d \in Clients : \E n \in h[d] : m = [id |-> n, to |-> d]
  BY DEF AllMails, Mails
<1>2. \A S, m : m \in Mails(c, S) <=> \E n \in S : m = [id |-> n, to |-> c]
  BY DEF Mails
<1>3. \A n1, n2, d1, d2 : [id |-> n1, to |-> d1] = [id |-> n2, to |-> d2] => n1 = n2 /\ d1 = d2
  <2> TAKE n1, n2, d1, d2
  <2> HAVE [id |-> n1, to |-> d1] = [id |-> n2, to |-> d2]
  <2>1. [id |-> n1, to |-> d1].id = [id |-> n2, to |-> d2].id
    OBVIOUS
  <2>2. [id |-> n1, to |-> d1].to = [id |-> n2, to |-> d2].to
    OBVIOUS
  <2> QED
    BY <2>1, <2>2
<1>4. ASSUME g[c] = f[c] PROVE AllMails(g) = AllMails(f)
  <2>1. \A d \in Clients : g[d] = f[d]
    BY <1>4
  <2> QED
    BY <2>1 DEF AllMails
<1>5. ASSUME g[c] = f[c] \cup N PROVE AllMails(g) = AllMails(f) \cup Mails(c, N)
  BY <1>1, <1>2, <1>5
<1>6. ASSUME g[c] = f[c] \ N PROVE AllMails(g) = AllMails(f) \ Mails(c, N)
  BY <1>1, <1>2, <1>3, <1>6
<1>7. N \subseteq f[c] => Mails(c, N) \in SUBSET AllMails(f)
  BY <1>1, <1>2
<1>8. \A m \in AllMails(f) : m.to = c => m \in Mails(c, f[c])
  BY <1>1, <1>2
<1>9. \A m \in Mails(c, N) : m.to = c
  BY <1>2
<1> QED
  BY <1>4, <1>5, <1>6, <1>7, <1>8, <1>9

\* The same of a step that moves messages of c.
LEMMA MailsChange ==
  ASSUME NEW c \in Clients, NEW N
  PROVE  /\ (\A d \in Clients \ {c} : WaitingNos'[d] = WaitingNos[d])
              => /\ WaitingNos'[c] = WaitingNos[c] \cup N
                      => AllMails(WaitingNos)' = AllMails(WaitingNos) \cup Mails(c, N)
                 /\ WaitingNos'[c] = WaitingNos[c] \ N
                      => AllMails(WaitingNos)' = AllMails(WaitingNos) \ Mails(c, N)
         /\ (\A d \in Clients \ {c} : OutNos'[d] = OutNos[d])
              => /\ OutNos'[c] = OutNos[c] \cup N
                      => AllMails(OutNos)' = AllMails(OutNos) \cup Mails(c, N)
                 /\ OutNos'[c] = OutNos[c] \ N
                      => AllMails(OutNos)' = AllMails(OutNos) \ Mails(c, N)
<1>1. PICK v, w : v = WaitingNos /\ w = WaitingNos'
  OBVIOUS
<1>2. AllMails(WaitingNos) = AllMails(v) /\ AllMails(WaitingNos)' = AllMails(w)
  BY <1>1 DEF AllMails
<1>3. PICK p, q : p = OutNos /\ q = OutNos'
  OBVIOUS
<1>4. AllMails(OutNos) = AllMails(p) /\ AllMails(OutNos)' = AllMails(q)
  BY <1>3 DEF AllMails
<1>5. (\A d \in Clients \ {c} : w[d] = v[d])
        => /\ w[c] = v[c] \cup N => AllMails(w) = AllMails(v) \cup Mails(c, N)
           /\ w[c] = v[c] \ N => AllMails(w) = AllMails(v) \ Mails(c, N)
  BY MailsFacts
<1>6. (\A d \in Clients \ {c} : q[d] = p[d])
        => /\ q[c] = p[c] \cup N => AllMails(q) = AllMails(p) \cup Mails(c, N)
           /\ q[c] = p[c] \ N => AllMails(q) = AllMails(p) \ Mails(c, N)
  BY MailsFacts
<1> QED
  BY <1>1, <1>2, <1>3, <1>4, <1>5, <1>6

\* The variables of the mailbox that the clients' are mapped to.
Mapped ==
  Mailboxes!mailbox
    = <<[c \in Clients |-> c], posted, AllMails(WaitingNos), AllMails(OutNos), DeliveredTo>>

LEMMA Mapping == TypeInv => Mapped
<1> SUFFICES ASSUME TypeInv PROVE Mapped
  OBVIOUS
<1>1. \A c \in Clients : WaitingNos[c] = Numbers(ToSet(box[c]))
  BY DEF WaitingNos, NosOf
<1>2. UNION {Mails(c, Numbers(ToSet(box[c]))) : c \in Clients} = AllMails(WaitingNos)
  BY <1>1 DEF AllMails
<1>3. ASSUME NEW c \in Clients
      PROVE  OutNos[c] = dropped[c] \cup Numbers(OnTheWay(c) \cup Pending(c, "main") \cup Pending(c, "pull"))
  <2>1. /\ OnTheWay(c) = ToSet(Carried(c)) /\ Pending(c, "main") = ToSet(InHand(c, "main"))
        /\ Pending(c, "pull") = ToSet(InHand(c, "pull"))
    BY Lists DEF Threads
  <2>2. Numbers(OnTheWay(c) \cup Pending(c, "main") \cup Pending(c, "pull"))
          = NosOf(Carried(c)) \cup InHands(c)
    BY <2>1 DEF NosOf, InHands, Numbers
  <2> QED
    BY <2>2 DEF OutNos
<1>4. UNION {Mails(c, dropped[c] \cup Numbers(OnTheWay(c) \cup Pending(c, "main")
                                               \cup Pending(c, "pull"))) : c \in Clients}
        = AllMails(OutNos)
  BY <1>3 DEF AllMails
<1> QED
  BY <1>2, <1>4 DEF Mapped, Mailboxes!mailbox, DeliveredTo

LEMMA MailboxStep ==
  TypeInv /\ TypeInv' /\ OrderOK /\ Move
    => [Mailboxes!Next \/ \E c \in mixed : Mailboxes!Overtake(c)]_(Mailboxes!mailbox)
<1> SUFFICES ASSUME TypeInv, TypeInv', OrderOK, Move
             PROVE  \/ Mailboxes!Next \/ \E c \in mixed : Mailboxes!Overtake(c)
                    \/ UNCHANGED Mailboxes!mailbox
  OBVIOUS
<1>1. Mapped /\ Mapped'
  BY Mapping, PTL
<1>2. UNCHANGED <<posted, AllMails(WaitingNos), AllMails(OutNos), DeliveredTo>>
        => UNCHANGED Mailboxes!mailbox
  BY <1>1 DEF Mapped
<1>3. /\ UNION {Mails(c, Numbers(ToSet(box[c]))) : c \in Clients} = AllMails(WaitingNos)
      /\ UNION {Mails(c, Numbers(ToSet(box[c]))) : c \in Clients}' = AllMails(WaitingNos)'
      /\ UNION {Mails(c, dropped[c] \cup Numbers(OnTheWay(c)
                 \cup Pending(c, "main") \cup Pending(c, "pull"))) : c \in Clients} = AllMails(OutNos)
      /\ UNION {Mails(c, dropped[c] \cup Numbers(OnTheWay(c)
                 \cup Pending(c, "main") \cup Pending(c, "pull"))) : c \in Clients}' = AllMails(OutNos)'
  BY <1>1 DEF Mapped, Mailboxes!mailbox
<1>4. ASSUME NEW c \in Clients, posted' = posted + 1,
             AllMails(WaitingNos)' = AllMails(WaitingNos) \cup {[id |-> posted + 1, to |-> c]},
             UNCHANGED <<AllMails(OutNos), DeliveredTo>>
      PROVE  Mailboxes!Post(c)
  BY <1>3, <1>4 DEF Mailboxes!Post, DeliveredTo
<1>5. ASSUME NEW c \in Clients, NEW B \in SUBSET AllMails(WaitingNos),
             \A m \in B : m.to = c, \A m \in AllMails(WaitingNos) \ B : m.to # c,
             AllMails(WaitingNos)' = AllMails(WaitingNos) \ B,
             AllMails(OutNos)' = AllMails(OutNos) \cup B,
             UNCHANGED <<posted, DeliveredTo>>
      PROVE  Mailboxes!Take(c)
  BY <1>3, <1>5 DEF Mailboxes!Take, DeliveredTo
<1>6. ASSUME NEW c \in Clients, NEW B \in SUBSET AllMails(OutNos),
             \A m \in B : m.to = c,
             AllMails(OutNos)' = AllMails(OutNos) \ B,
             DeliveredTo' = [DeliveredTo EXCEPT ![c] = @ \cup B],
             UNCHANGED <<posted, AllMails(WaitingNos)>>
      PROVE  /\ Mailboxes!Overtake(c)
             /\ (\A m \in B, n \in DeliveredTo[c] : m.id > n.id) => Mailboxes!Deliver(c)
  BY <1>3, <1>6 DEF Mailboxes!Overtake, Mailboxes!Deliver, DeliveredTo
<1>7. /\ DOMAIN box = Clients /\ DOMAIN handled = Clients /\ DOMAIN dropped = Clients
      /\ Threads = {"main", "pull"} /\ NosOf(<<>>) = {}
  BY DEF TypeInv, DataOK, MailboxesOK, Threads, NosOf, Numbers, ToSet
<1> USE <1>7 DEF srv, InHands
<1>8. CASE Still
  <2>1. UNCHANGED <<posted, WaitingNos, OutNos, DeliveredTo>>
    BY <1>8 DEF Still, Untouched, WaitingNos, OutNos, DeliveredTo
  <2> QED
    BY <1>2, <2>1 DEF AllMails
<1>9. ASSUME NEW c \in Clients, Stored(c) PROVE Mailboxes!Post(c)
  <2>1. PICK m \in Message : m.no = posted + 1 /\ box' = [box EXCEPT ![c] = Append(@, m)]
    BY <1>9 DEF Stored
  <2>2. NosOf(box'[c]) = NosOf(box[c]) \cup {posted + 1}
    BY <2>1, MessageLists, NumberFacts
  <2>3. WaitingNos'[c] = WaitingNos[c] \cup {posted + 1}
        /\ \A d \in Clients \ {c} : WaitingNos'[d] = WaitingNos[d]
    BY <2>1, <2>2 DEF WaitingNos
  <2>4. AllMails(WaitingNos)' = AllMails(WaitingNos) \cup Mails(c, {posted + 1})
    BY <2>3, MailsChange
  <2>5. Mails(c, {posted + 1}) = {[id |-> posted + 1, to |-> c]}
    BY DEF Mails
  <2>6. UNCHANGED <<OutNos, DeliveredTo>>
    BY <1>9 DEF Stored, Untouched, OutNos, DeliveredTo
  <2>7. UNCHANGED AllMails(OutNos)
    BY <2>6 DEF AllMails
  <2>8. posted' = posted + 1
    BY <1>9 DEF Stored
  <2> QED
    BY <1>4, <2>4, <2>5, <2>6, <2>7, <2>8
<1>10. ASSUME NEW c \in Clients, Fetched(c) \/ Taken(c) PROVE Mailboxes!Take(c)
  <2>1. WaitingNos'[c] = WaitingNos[c] \ WaitingNos[c]
        /\ \A d \in Clients \ {c} : WaitingNos'[d] = WaitingNos[d]
    BY <1>10 DEF Fetched, Taken, WaitingNos
  <2>2. OutNos'[c] = OutNos[c] \cup WaitingNos[c]
        /\ \A d \in Clients \ {c} : OutNos'[d] = OutNos[d]
    BY <1>10 DEF Fetched, Taken, OthersUntouched, Untouched, OutNos, WaitingNos
  <2>3. PICK B : B = Mails(c, WaitingNos[c])
    OBVIOUS
  <2>4. AllMails(WaitingNos)' = AllMails(WaitingNos) \ B
    BY <2>1, <2>3, MailsChange
  <2>5. AllMails(OutNos)' = AllMails(OutNos) \cup B
    BY <2>2, <2>3, MailsChange
  <2>6. /\ B \in SUBSET AllMails(WaitingNos) /\ \A m \in B : m.to = c
        /\ \A m \in AllMails(WaitingNos) \ B : m.to # c
    BY <2>3, MailsFacts
  <2>7. UNCHANGED <<posted, DeliveredTo>>
    BY <1>10 DEF Fetched, Taken, DeliveredTo
  <2> QED
    BY <1>5, <2>4, <2>5, <2>6, <2>7
<1>11. ASSUME NEW c \in Clients, NEW t \in Threads, Received(c, t)
       PROVE  UNCHANGED Mailboxes!mailbox
  <2>1. InHand(c, t) = <<>>
    BY <1>11, HandFree DEF Received
  <2>2. \A d \in Clients : OutNos'[d] = OutNos[d]
    BY <1>11, <2>1 DEF Received, OthersUntouched, Untouched, OutNos
  <2>3. AllMails(OutNos)' = AllMails(OutNos)
    BY <2>2 DEF AllMails
  <2>4. UNCHANGED <<posted, WaitingNos, DeliveredTo>>
    BY <1>11 DEF Received, WaitingNos, DeliveredTo
  <2> QED
    BY <1>2, <2>3, <2>4 DEF AllMails
<1>12. ASSUME NEW c \in Clients, Lost(c) PROVE UNCHANGED Mailboxes!mailbox
  <2>1. /\ OnTheWay(c) = ToSet(Carried(c)) /\ Pending(c, "main") = ToSet(InHand(c, "main"))
        /\ Pending(c, "pull") = ToSet(InHand(c, "pull"))
    BY Lists
  <2>2. OutNos'[c] = OutNos[c]
    <3>1. Numbers(OnTheWay(c) \cup Pending(c, "main") \cup Pending(c, "pull"))
            = NosOf(Carried(c)) \cup InHands(c)
      BY <2>1 DEF NosOf, Numbers
    <3>2. Numbers(OnTheWay(c)) = NosOf(Carried(c))
      BY <2>1 DEF NosOf
    <3> QED
      BY <1>12, <3>1, <3>2 DEF Lost, OutNos
  <2>3. \A d \in Clients : OutNos'[d] = OutNos[d]
    BY <1>12, <2>2 DEF Lost, OthersUntouched, Untouched, OutNos
  <2>4. AllMails(OutNos)' = AllMails(OutNos)
    BY <2>3 DEF AllMails
  <2>5. UNCHANGED <<posted, WaitingNos, DeliveredTo>>
    BY <1>12 DEF Lost, WaitingNos, DeliveredTo
  <2> QED
    BY <1>2, <2>4, <2>5 DEF AllMails
<1>13. ASSUME NEW c \in Clients, NEW t \in Threads, Processed(c, t)
       PROVE  Mailboxes!Overtake(c) /\ (c \notin mixed => Mailboxes!Deliver(c))
  <2>1. PICK h : h = Head(InHand(c, t)).no
    OBVIOUS
  <2>2. Once(c) /\ (c \notin mixed => OneHand(c))
    BY DEF OrderOK
  <2>3. /\ InHand(c, t) # <<>> /\ InHand(c, t)' = Tail(InHand(c, t)) /\ Carried(c)' = Carried(c)
        /\ \A u \in Threads \ {t} : InHand(c, u)' = InHand(c, u)
    BY <1>13 DEF Processed
  <2>4. /\ NosOf(InHand(c, t)) = {h} \cup NosOf(InHand(c, t)') /\ NosOf(InHand(c, t)) \subseteq 1..posted
        /\ Before({h}, NosOf(InHand(c, t)'))
    <3>1. InHand(c, t) \in Seq(Message) /\ Sorted(InHand(c, t))
      BY <2>2, MessageLists DEF Once
    <3>2. NosOf(InHand(c, t)) \subseteq 1..posted
      BY MessageLists
    <3> QED
      BY <2>1, <2>3, <3>1, <3>2, SortedFacts, NumberFacts
  <2>5. h \in 1..posted /\ h \notin NosOf(InHand(c, t)')
    BY <2>4 DEF Before
  <2>6. h \in InHands(c) /\ InHands(c)' = InHands(c) \ {h}
    BY <2>2, <2>3, <2>4, <2>5 DEF Once
  <2>7. h \notin dropped[c] /\ h \notin NosOf(Carried(c))
    BY <2>2, <2>6 DEF Once
  <2>8. OutNos'[c] = OutNos[c] \ {h} /\ {h} \subseteq OutNos[c]
        /\ \A d \in Clients \ {c} : OutNos'[d] = OutNos[d]
    BY <1>13, <2>3, <2>6, <2>7 DEF Processed, OthersUntouched, Untouched, OutNos
  <2>9. PICK B : B = Mails(c, {h})
    OBVIOUS
  <2>10. AllMails(OutNos)' = AllMails(OutNos) \ B /\ B \in SUBSET AllMails(OutNos)
    BY <2>8, <2>9, MailsChange, MailsFacts
  <2>11. \A m \in B : m.to = c
    BY <2>9 DEF Mails
  <2>12. c \notin mixed => \A m \in B, n \in DeliveredTo[c] : m.id > n.id
    <3>1. handled[c] \subseteq 1..posted /\ posted \in Nat
      BY DEF TypeInv, DataOK, MailboxesOK
    <3>2. c \notin mixed => \A n \in handled[c] : h > n
      BY <2>2, <2>5, <2>6, <3>1 DEF OneHand, Before
    <3> QED
      BY <2>9, <3>2 DEF Mails, DeliveredTo
  <2>13. DeliveredTo' = [DeliveredTo EXCEPT ![c] = @ \cup B]
    <3>1. handled'[c] = handled[c] \cup {h} /\ \A d \in Clients \ {c} : handled'[d] = handled[d]
      BY <1>13, <2>1 DEF Processed
    <3>2. Mails(c, handled[c] \cup {h}) = Mails(c, handled[c]) \cup B
      BY <2>9 DEF Mails
    <3> QED
      BY <3>1, <3>2 DEF DeliveredTo
  <2>14. UNCHANGED <<posted, WaitingNos>>
    BY <1>13 DEF Processed, WaitingNos
  <2>15. UNCHANGED AllMails(WaitingNos)
    BY <2>14 DEF AllMails
  <2> QED
    BY <1>6, <2>10, <2>11, <2>12, <2>13, <2>14, <2>15
<1> QED
  BY <1>8, <1>9, <1>10, <1>11, <1>12, <1>13 DEF Move, Mailboxes!Next

\* The clients and the server's mailboxes are the clients and the mailbox of
\* module Mailbox, whoever polls, whatever breaks and whoever is killed: a
\* message is processed at most once, by the client it is for, and in order
\* unless both threads of the client have had messages in hand.
THEOREM ClientsUseMailbox == Spec => UsesMailbox
BY MailboxStep, StepMoves, OrderInvariant, PTL DEF Spec, UsesMailbox
=============================================================================
