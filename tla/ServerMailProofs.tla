-------------------------- MODULE ServerMailProofs --------------------------
(***************************************************************************)
(* Proofs about the messages: nothing vanishes, delivery is in order, once *)
(* and to the right client, and the server implements the mailbox.         *)
(***************************************************************************)
EXTENDS ServerProofs

-----------------------------------------------------------------------------
(* What the table, the threads and the clients hold *)

\* Rows are numbered by a growing counter, and whatever a thread has
\* selected or a client has received was stored once.
StoreInv ==
  /\ messages \subseteq posted
  /\ \A s \in Sessions : batch[s] \subseteq posted
  /\ \A c \in Clients : delivered[c] \subseteq posted
  /\ \A m \in posted : m.id <= lastId
  /\ \A m, n \in posted : m.id = n.id => m = n

\* add_message commits under a fresh ID; no other action makes a row.
LEMMA StoreStep == TypeInv /\ StoreInv /\ [Next]_vars => StoreInv'
<1> SUFFICES ASSUME TypeInv, StoreInv, [Next]_vars PROVE StoreInv'
  OBVIOUS
<1> USE NoneAssumption DEF TypeInv, TypeOK, ControlOK, Message, StoreInv, vars, db, hist
<1>1. ASSUME NEW s \in Sessions, Accept(s) PROVE StoreInv'
  BY <1>1 DEF Accept, Goto
<1>2. ASSUME NEW s \in Sessions, Drop(s) PROVE StoreInv'
  BY <1>2 DEF Drop
<1>3. ASSUME NEW s \in Sessions, Receive(s) PROVE StoreInv'
  BY <1>3 DEF Receive, Requests, Answer, Goto
<1>4. ASSUME NEW s \in Sessions, Disconnected(s) PROVE StoreInv'
  BY <1>4 DEF Disconnected, CloseAll
<1>5. ASSUME NEW s \in Sessions, WriteFails(s) PROVE StoreInv'
  BY <1>5 DEF WriteFails, Answer, Goto
<1>6. ASSUME NEW s \in Sessions, AddClient(s) PROVE StoreInv'
  BY <1>6 DEF AddClient, Execute, CanWrite, Answer, Goto
<1>7. ASSUME NEW s \in Sessions, CommitClient(s) PROVE StoreInv'
  BY <1>7 DEF CommitClient, Commit, Goto
<1>8. ASSUME NEW s \in Sessions, ClientExists(s) PROVE StoreInv'
  BY <1>8 DEF ClientExists, Read, Answer, Goto
<1>9. ASSUME NEW s \in Sessions, UpdateLastSeen(s) PROVE StoreInv'
  BY <1>9 DEF UpdateLastSeen, Execute, CanWrite, Goto
<1>10. ASSUME NEW s \in Sessions, CommitLastSeen(s) PROVE StoreInv'
  BY <1>10 DEF CommitLastSeen, Commit, Handler, Answer, Goto
<1>11. ASSUME NEW s \in Sessions, ListClients(s) PROVE StoreInv'
  BY <1>11 DEF ListClients, Read, Answer, Goto
<1>12. ASSUME NEW s \in Sessions, GetPublicKey(s) PROVE StoreInv'
  BY <1>12 DEF GetPublicKey, Read, Answer, Goto
<1>13. ASSUME NEW s \in Sessions, GetWaiting(s) PROVE StoreInv'
  BY <1>13 DEF GetWaiting, Answer, Goto, Waiting
<1>14. ASSUME NEW s \in Sessions, DeleteMessages(s) PROVE StoreInv'
  BY <1>14 DEF DeleteMessages, Execute, CanWrite, Goto
<1>15. ASSUME NEW s \in Sessions, CommitDelete(s) PROVE StoreInv'
  BY <1>15 DEF CommitDelete, Commit, Answer, Goto, Deleted
<1>16. ASSUME NEW s \in Sessions, TargetExists(s) PROVE StoreInv'
  BY <1>16 DEF TargetExists, Read, Answer, Goto
<1>17. ASSUME NEW s \in Sessions, AddMessage(s) PROVE StoreInv'
  BY <1>17 DEF AddMessage, Execute, CanWrite, Goto
<1>18. ASSUME NEW s \in Sessions, CommitMessage(s) PROVE StoreInv'
  BY <1>18 DEF CommitMessage, Commit, Answer, Goto, Message, Request, TargetRequest
<1>19. ASSUME NEW s \in Sessions, Respond(s) PROVE StoreInv'
  BY <1>19 DEF Respond, Forget, Goto, Held
<1>20. ASSUME NEW s \in Sessions, RespondFails(s) PROVE StoreInv'
  BY <1>20 DEF RespondFails, Forget, Goto
<1>21. CASE Crash
  BY <1>21 DEF Crash, CloseAll
<1>22. CASE UNCHANGED vars
  BY <1>22
<1> QED
  BY <1>1, <1>2, <1>3, <1>4, <1>5, <1>6, <1>7, <1>8, <1>9, <1>10, <1>11, <1>12, <1>13,
     <1>14, <1>15, <1>16, <1>17, <1>18, <1>19, <1>20, <1>21, <1>22 DEF Next, Thread

\* The rows a thread selects are its requester's, the oldest, and still the
\* oldest while other threads add rows; deleted is what it is about to send.
BatchInv ==
  \A s \in Sessions :
    /\ batch[s] # {} => pc[s] \in {"deleteMessages", "commitDelete", "respond"}
    /\ \A n \in batch[s] : n.to = req[s].id
    /\ \A n \in batch[s], m \in messages : m.to = n.to => m \in batch[s] \/ m.id > n.id
    /\ Held(s) \cap messages = {}

\* The interval between SELECT and DELETE, in which other threads run.
LEMMA BatchStep == TypeInv /\ StoreInv /\ BatchInv /\ [Next]_vars => BatchInv'
<1> SUFFICES ASSUME TypeInv /\ StoreInv, BatchInv, [Next]_vars PROVE BatchInv'
  OBVIOUS
<1> USE NoneAssumption, RequestFacts, ResponseFacts DEF TypeInv, TypeOK, ControlOK,
      StoreInv, BatchInv, Held, vars, db, hist
<1>1. ASSUME NEW s \in Sessions, Accept(s) PROVE BatchInv'
  BY <1>1 DEF Accept, Goto
<1>2. ASSUME NEW s \in Sessions, Drop(s) PROVE BatchInv'
  BY <1>2 DEF Drop
<1>3. ASSUME NEW s \in Sessions, Receive(s) PROVE BatchInv'
  BY <1>3 DEF Receive, Requests, Answer, Goto
<1>4. ASSUME NEW s \in Sessions, Disconnected(s) PROVE BatchInv'
  BY <1>4 DEF Disconnected, CloseAll
<1>5. ASSUME NEW s \in Sessions, WriteFails(s) PROVE BatchInv'
  BY <1>5 DEF WriteFails, Answer, Goto
<1>6. ASSUME NEW s \in Sessions, AddClient(s) PROVE BatchInv'
  BY <1>6, SMTT(30) DEF AddClient, Execute, CanWrite, Answer, Goto
<1>7. ASSUME NEW s \in Sessions, CommitClient(s) PROVE BatchInv'
  BY <1>7 DEF CommitClient, Commit, Goto
<1>8. ASSUME NEW s \in Sessions, ClientExists(s) PROVE BatchInv'
  BY <1>8 DEF ClientExists, Read, Answer, Goto
<1>9. ASSUME NEW s \in Sessions, UpdateLastSeen(s) PROVE BatchInv'
  BY <1>9 DEF UpdateLastSeen, Execute, CanWrite, Goto
<1>10. ASSUME NEW s \in Sessions, CommitLastSeen(s) PROVE BatchInv'
  BY <1>10 DEF CommitLastSeen, Commit, Handler, Answer, Goto
<1>11. ASSUME NEW s \in Sessions, ListClients(s) PROVE BatchInv'
  BY <1>11 DEF ListClients, Read, Answer, Goto
<1>12. ASSUME NEW s \in Sessions, GetPublicKey(s) PROVE BatchInv'
  BY <1>12 DEF GetPublicKey, Read, Answer, Goto
<1>13. ASSUME NEW s \in Sessions, GetWaiting(s) PROVE BatchInv'
  BY <1>13 DEF GetWaiting, Answer, Goto, Waiting
<1>14. ASSUME NEW s \in Sessions, DeleteMessages(s) PROVE BatchInv'
  BY <1>14 DEF DeleteMessages, Execute, CanWrite, Goto
<1>15. ASSUME NEW s \in Sessions, CommitDelete(s) PROVE BatchInv'
  BY <1>15 DEF CommitDelete, Commit, Answer, Goto, Deleted, IdsOf
<1>16. ASSUME NEW s \in Sessions, TargetExists(s) PROVE BatchInv'
  BY <1>16 DEF TargetExists, Read, Answer, Goto
<1>17. ASSUME NEW s \in Sessions, AddMessage(s) PROVE BatchInv'
  BY <1>17 DEF AddMessage, Execute, CanWrite, Goto
<1>18. ASSUME NEW s \in Sessions, CommitMessage(s) PROVE BatchInv'
  BY <1>18 DEF CommitMessage, Commit, Answer, Goto, Message
<1>19. ASSUME NEW s \in Sessions, Respond(s) PROVE BatchInv'
  BY <1>19 DEF Respond, Forget, Goto
<1>20. ASSUME NEW s \in Sessions, RespondFails(s) PROVE BatchInv'
  BY <1>20 DEF RespondFails, Forget, Goto
<1>21. CASE Crash
  BY <1>21 DEF Crash, CloseAll, Held
<1>22. CASE UNCHANGED vars
  BY <1>22
<1> QED
  BY <1>1, <1>2, <1>3, <1>4, <1>5, <1>6, <1>7, <1>8, <1>9, <1>10, <1>11, <1>12, <1>13,
     <1>14, <1>15, <1>16, <1>17, <1>18, <1>19, <1>20, <1>21, <1>22 DEF Next, Thread

\* What waits for a client, and what its live connection is about to send
\* it, is younger than all it has received.
DeliveryInv ==
  /\ \A c \in Clients : \A n \in delivered[c] :
       /\ n.to = me[c]
       /\ \A m \in messages : m.to = n.to => m.id > n.id
  /\ \A s \in Sessions : up[s] =>
       \A m \in batch[s], n \in delivered[owner[s]] : m.id > n.id

\* A response is taken on a live connection only, of which there is one.
LEMMA DeliveryStep == TypeInv /\ PeerInv /\ RegistrationInv /\ StoreInv /\ BatchInv /\
      DeliveryInv /\ [Next]_vars => DeliveryInv'
<1> SUFFICES ASSUME TypeInv /\ PeerInv /\ RegistrationInv /\ StoreInv /\ BatchInv,
      DeliveryInv, [Next]_vars PROVE DeliveryInv'
  OBVIOUS
<1> USE NoneAssumption, RequestFacts, ResponseFacts DEF TypeInv, TypeOK, ControlOK,
      DeliveryInv, vars, db, hist
<1>1. ASSUME NEW s \in Sessions, Accept(s) PROVE DeliveryInv'
  BY <1>1 DEF Accept, Goto, BatchInv, PeerInv
<1>2. ASSUME NEW s \in Sessions, Drop(s) PROVE DeliveryInv'
  BY <1>2 DEF Drop
<1>3. ASSUME NEW s \in Sessions, Receive(s) PROVE DeliveryInv'
  BY <1>3 DEF Receive, Requests, Answer, Goto
<1>4. ASSUME NEW s \in Sessions, Disconnected(s) PROVE DeliveryInv'
  BY <1>4 DEF Disconnected, CloseAll
<1>5. ASSUME NEW s \in Sessions, WriteFails(s) PROVE DeliveryInv'
  BY <1>5 DEF WriteFails, Answer, Goto
<1>6. ASSUME NEW s \in Sessions, AddClient(s) PROVE DeliveryInv'
  BY <1>6 DEF AddClient, Execute, CanWrite, Answer, Goto
<1>7. ASSUME NEW s \in Sessions, CommitClient(s) PROVE DeliveryInv'
  BY <1>7 DEF CommitClient, Commit, Goto
<1>8. ASSUME NEW s \in Sessions, ClientExists(s) PROVE DeliveryInv'
  BY <1>8 DEF ClientExists, Read, Answer, Goto
<1>9. ASSUME NEW s \in Sessions, UpdateLastSeen(s) PROVE DeliveryInv'
  BY <1>9 DEF UpdateLastSeen, Execute, CanWrite, Goto
<1>10. ASSUME NEW s \in Sessions, CommitLastSeen(s) PROVE DeliveryInv'
  BY <1>10 DEF CommitLastSeen, Commit, Handler, Answer, Goto
<1>11. ASSUME NEW s \in Sessions, ListClients(s) PROVE DeliveryInv'
  BY <1>11 DEF ListClients, Read, Answer, Goto
<1>12. ASSUME NEW s \in Sessions, GetPublicKey(s) PROVE DeliveryInv'
  BY <1>12 DEF GetPublicKey, Read, Answer, Goto
<1>13. ASSUME NEW s \in Sessions, GetWaiting(s) PROVE DeliveryInv'
  BY <1>13 DEF GetWaiting, Answer, Goto, Waiting, PeerInv
<1>14. ASSUME NEW s \in Sessions, DeleteMessages(s) PROVE DeliveryInv'
  BY <1>14 DEF DeleteMessages, Execute, CanWrite, Goto
<1>15. ASSUME NEW s \in Sessions, CommitDelete(s) PROVE DeliveryInv'
  BY <1>15 DEF CommitDelete, Commit, Answer, Goto, Deleted, IdsOf
<1>16. ASSUME NEW s \in Sessions, TargetExists(s) PROVE DeliveryInv'
  BY <1>16 DEF TargetExists, Read, Answer, Goto
<1>17. ASSUME NEW s \in Sessions, AddMessage(s) PROVE DeliveryInv'
  BY <1>17 DEF AddMessage, Execute, CanWrite, Goto
<1>18. ASSUME NEW s \in Sessions, CommitMessage(s) PROVE DeliveryInv'
  BY <1>18 DEF CommitMessage, Commit, Answer, Goto, Message, StoreInv
<1>19. ASSUME NEW s \in Sessions, Respond(s) PROVE DeliveryInv'
  BY <1>19, SMTT(30) DEF Respond, Forget, Goto, PeerInv, BatchInv, RegistrationInv,
                         Told, Held, StoreInv, Message, RegisterRequest
<1>20. ASSUME NEW s \in Sessions, RespondFails(s) PROVE DeliveryInv'
  BY <1>20 DEF RespondFails, Forget, Goto
<1>21. CASE Crash
  BY <1>21 DEF Crash, CloseAll
<1>22. CASE UNCHANGED vars
  BY <1>22
<1> QED
  BY <1>1, <1>2, <1>3, <1>4, <1>5, <1>6, <1>7, <1>8, <1>9, <1>10, <1>11, <1>12, <1>13,
     <1>14, <1>15, <1>16, <1>17, <1>18, <1>19, <1>20, <1>21, <1>22 DEF Next, Thread

\* The invariants of this module together.
LEMMA MailInvariant == Spec => [](StoreInv /\ BatchInv /\ DeliveryInv)
<1>1. Init => StoreInv /\ BatchInv /\ DeliveryInv
  BY DEF Init, StoreInv, BatchInv, DeliveryInv, Held
<1> QED
  BY <1>1, StoreStep, BatchStep, DeliveryStep, TypeInvariant, RegistrationInvariant, PTL
     DEF Spec

-----------------------------------------------------------------------------
(* The properties of Server *)

\* The client receives what the response held, and keeps what it has.
LEMMA RespondKeeps ==
  ASSUME NEW s \in Sessions, TypeInv, PeerInv, NoMessageVanishes, Respond(s)
  PROVE  NoMessageVanishes'
<1>1. owner[s] \in Clients
  BY DEF Respond, PeerInv
<1>2. delivered' = [c \in Clients |-> IF c = owner[s] THEN delivered[c] \cup Held(s)
                                     ELSE delivered[c]]
  BY DEF Respond, TypeInv, TypeOK
<1>3. \A t \in Sessions \ {s} : Held(t)' = Held(t)
  BY DEF Respond, Forget, Goto, Held, TypeInv, TypeOK
<1>4. UNCHANGED <<posted, messages, lost>>
  BY DEF Respond, db
<1> SUFFICES ASSUME NEW m \in posted
             PROVE  \/ m \in messages \cup lost
                    \/ \E t \in Sessions : m \in Held(t)'
                    \/ \E c \in Clients : m \in delivered'[c]
  BY <1>4 DEF NoMessageVanishes
<1>5. CASE m \in Held(s)
  BY <1>1, <1>2, <1>5
<1>6. CASE \E c \in Clients : m \in delivered[c]
  BY <1>2, <1>6
<1>7. CASE \E t \in Sessions \ {s} : m \in Held(t)
  BY <1>3, <1>7
<1> QED
  BY <1>5, <1>6, <1>7 DEF NoMessageVanishes

\* Each action moves a message forward or leaves it where it is.
LEMMA VanishStep == TypeInv /\ PeerInv /\ StoreInv /\ BatchInv /\ NoMessageVanishes /\
      [Next]_vars => NoMessageVanishes'
<1> SUFFICES ASSUME TypeInv /\ PeerInv /\ StoreInv /\ BatchInv, NoMessageVanishes,
      [Next]_vars PROVE NoMessageVanishes'
  OBVIOUS
<1> USE NoneAssumption, RequestFacts, ResponseFacts DEF TypeInv, TypeOK,
      NoMessageVanishes, Held, vars, db, hist
<1>1. ASSUME NEW s \in Sessions, Accept(s) PROVE NoMessageVanishes'
  BY <1>1 DEF Accept, Goto
<1>2. ASSUME NEW s \in Sessions, Drop(s) PROVE NoMessageVanishes'
  BY <1>2 DEF Drop
<1>3. ASSUME NEW s \in Sessions, Receive(s) PROVE NoMessageVanishes'
  BY <1>3 DEF Receive, Requests, Answer, Goto
<1>4. ASSUME NEW s \in Sessions, Disconnected(s) PROVE NoMessageVanishes'
  BY <1>4 DEF Disconnected, CloseAll
<1>5. ASSUME NEW s \in Sessions, WriteFails(s) PROVE NoMessageVanishes'
  BY <1>5 DEF WriteFails, Answer, Goto, Writes
<1>6. ASSUME NEW s \in Sessions, AddClient(s) PROVE NoMessageVanishes'
  BY <1>6 DEF AddClient, Execute, CanWrite, Answer, Goto
<1>7. ASSUME NEW s \in Sessions, CommitClient(s) PROVE NoMessageVanishes'
  BY <1>7 DEF CommitClient, Commit, Goto
<1>8. ASSUME NEW s \in Sessions, ClientExists(s) PROVE NoMessageVanishes'
  BY <1>8 DEF ClientExists, Read, Answer, Goto
<1>9. ASSUME NEW s \in Sessions, UpdateLastSeen(s) PROVE NoMessageVanishes'
  BY <1>9 DEF UpdateLastSeen, Execute, CanWrite, Goto
<1>10. ASSUME NEW s \in Sessions, CommitLastSeen(s) PROVE NoMessageVanishes'
  BY <1>10, SMTT(30) DEF CommitLastSeen, Commit, Answer, Goto
<1>11. ASSUME NEW s \in Sessions, ListClients(s) PROVE NoMessageVanishes'
  BY <1>11 DEF ListClients, Read, Answer, Goto
<1>12. ASSUME NEW s \in Sessions, GetPublicKey(s) PROVE NoMessageVanishes'
  BY <1>12 DEF GetPublicKey, Read, Answer, Goto
<1>13. ASSUME NEW s \in Sessions, GetWaiting(s) PROVE NoMessageVanishes'
  BY <1>13 DEF GetWaiting, Answer, Goto
<1>14. ASSUME NEW s \in Sessions, DeleteMessages(s) PROVE NoMessageVanishes'
  BY <1>14 DEF DeleteMessages, Execute, CanWrite, Goto
<1>15. ASSUME NEW s \in Sessions, CommitDelete(s) PROVE NoMessageVanishes'
  BY <1>15 DEF CommitDelete, Commit, Answer, Goto, Deleted, IdsOf, StoreInv
<1>16. ASSUME NEW s \in Sessions, TargetExists(s) PROVE NoMessageVanishes'
  BY <1>16 DEF TargetExists, Read, Answer, Goto
<1>17. ASSUME NEW s \in Sessions, AddMessage(s) PROVE NoMessageVanishes'
  BY <1>17 DEF AddMessage, Execute, CanWrite, Goto
<1>18. ASSUME NEW s \in Sessions, CommitMessage(s) PROVE NoMessageVanishes'
  BY <1>18 DEF CommitMessage, Commit, Answer, Goto
<1>19. ASSUME NEW s \in Sessions, Respond(s) PROVE NoMessageVanishes'
  BY <1>19, RespondKeeps
<1>20. ASSUME NEW s \in Sessions, RespondFails(s) PROVE NoMessageVanishes'
  BY <1>20 DEF RespondFails, Forget, Goto
<1>21. CASE Crash
  BY <1>21 DEF Crash, CloseAll, Held
<1>22. CASE UNCHANGED vars
  BY <1>22
<1> QED
  BY <1>1, <1>2, <1>3, <1>4, <1>5, <1>6, <1>7, <1>8, <1>9, <1>10, <1>11, <1>12, <1>13,
     <1>14, <1>15, <1>16, <1>17, <1>18, <1>19, <1>20, <1>21, <1>22 DEF Next, Thread

\* Between add_message and the client only an undeliverable response loses
\* a message: fetches that race with sends and fetches delete what they
\* return and nothing else, and a crash rolls back what was not committed.
THEOREM NothingVanishes == Spec => []NoMessageVanishes
<1>1. Init => NoMessageVanishes
  BY DEF Init, NoMessageVanishes
<1> QED
  BY <1>1, VanishStep, TypeInvariant, RegistrationInvariant, MailInvariant, PTL DEF Spec

\* No message reaches a client twice or after a younger one.
THEOREM InOrderOnce == Spec => []DeliversInOrderOnce
<1>1. DeliveryInv => DeliversInOrderOnce
  BY DEF DeliveryInv, DeliversInOrderOnce, Held
<1> QED
  BY <1>1, MailInvariant, PTL

\* Every message a client receives is its own, and its ID is its own.
THEOREM RightRecipient == Spec => []OnlyToRecipient
<1>1. RegistrationInv /\ DeliveryInv => OnlyToRecipient
  BY DEF RegistrationInv, DeliveryInv, OnlyToRecipient
<1> QED
  BY <1>1, MailInvariant, RegistrationInvariant, PTL

-----------------------------------------------------------------------------
(* What the server acknowledges *)

\* A success that is about to be sent comes from a thread that has committed,
\* and the row it speaks of is there.
AnswerInv ==
  \A s \in Sessions :
    pc[s] = "respond" /\ resp[s].code # "error" =>
      /\ tx[s] = "none" /\ lock # s
      /\ resp[s].code = "registered" => clients[resp[s].id] = req[s].name
      /\ resp[s].code = "sent" => [id |-> resp[s].num, to |-> req[s].to] \in posted

\* Only the handlers and their commits build a success, outside transactions;
\* commits of other threads leave its row alone.
LEMMA AnswerStep == TypeInv /\ HandlersSeeCommittedState /\ RegistrationInv /\ AnswerInv /\ [Next]_vars
      => AnswerInv'
<1> SUFFICES ASSUME TypeInv, HandlersSeeCommittedState, RegistrationInv, AnswerInv, [Next]_vars
    PROVE AnswerInv'
  OBVIOUS
<1> USE NoneAssumption DEF TypeInv, TypeOK, AnswerInv, HandlersSeeCommittedState, ErrorResponse,
      Handlers, vars, db, hist
<1>1. ASSUME NEW s \in Sessions, Accept(s) PROVE AnswerInv'
  BY <1>1 DEF Accept, Goto
<1>2. ASSUME NEW s \in Sessions, Drop(s) PROVE AnswerInv'
  BY <1>2 DEF Drop
<1>3. ASSUME NEW s \in Sessions, Receive(s) PROVE AnswerInv'
  BY <1>3 DEF Receive, Requests, Answer, Goto
<1>4. ASSUME NEW s \in Sessions, Disconnected(s) PROVE AnswerInv'
  BY <1>4 DEF Disconnected, CloseAll
<1>5. ASSUME NEW s \in Sessions, WriteFails(s) PROVE AnswerInv'
  BY <1>5 DEF WriteFails, Answer, Goto
<1>6. ASSUME NEW s \in Sessions, AddClient(s) PROVE AnswerInv'
  BY <1>6 DEF AddClient, Execute, CanWrite, Answer, Goto
<1>7. ASSUME NEW s \in Sessions, CommitClient(s) PROVE AnswerInv'
  <2>1. resp[s].code = "registered" /\ resp[s].id \in Ids \ Registered
    BY <1>7, ResponseFacts DEF CommitClient, ControlOK, RegistrationInv, Conflict
  <2>2. \A t \in Sessions : Told(t) => resp[t].id \in Registered
    BY DEF RegistrationInv
  <2> QED
    BY <1>7, <2>1, <2>2 DEF CommitClient, Commit, Goto, Told, Registered
<1>8. ASSUME NEW s \in Sessions, ClientExists(s) PROVE AnswerInv'
  BY <1>8 DEF ClientExists, Read, Answer, Goto
<1>9. ASSUME NEW s \in Sessions, UpdateLastSeen(s) PROVE AnswerInv'
  BY <1>9 DEF UpdateLastSeen, Execute, CanWrite, Goto
<1>10. ASSUME NEW s \in Sessions, CommitLastSeen(s) PROVE AnswerInv'
  BY <1>10, RequestFacts DEF ControlOK, CommitLastSeen, Commit, Handler, Answer, Goto
<1>11. ASSUME NEW s \in Sessions, ListClients(s) PROVE AnswerInv'
  BY <1>11 DEF ListClients, Read, Answer, Goto
<1>12. ASSUME NEW s \in Sessions, GetPublicKey(s) PROVE AnswerInv'
  BY <1>12 DEF GetPublicKey, Read, Answer, Goto
<1>13. ASSUME NEW s \in Sessions, GetWaiting(s) PROVE AnswerInv'
  BY <1>13 DEF GetWaiting, Answer, Goto
<1>14. ASSUME NEW s \in Sessions, DeleteMessages(s) PROVE AnswerInv'
  BY <1>14 DEF DeleteMessages, Execute, CanWrite, Goto
<1>15. ASSUME NEW s \in Sessions, CommitDelete(s) PROVE AnswerInv'
  BY <1>15 DEF CommitDelete, Commit, Answer, Goto
<1>16. ASSUME NEW s \in Sessions, TargetExists(s) PROVE AnswerInv'
  BY <1>16 DEF TargetExists, Read, Answer, Goto
<1>17. ASSUME NEW s \in Sessions, AddMessage(s) PROVE AnswerInv'
  BY <1>17 DEF AddMessage, Execute, CanWrite, Goto
<1>18. ASSUME NEW s \in Sessions, CommitMessage(s) PROVE AnswerInv'
  BY <1>18 DEF CommitMessage, Commit, Answer, Goto
<1>19. ASSUME NEW s \in Sessions, Respond(s) PROVE AnswerInv'
  BY <1>19 DEF Respond, Forget, Goto
<1>20. ASSUME NEW s \in Sessions, RespondFails(s) PROVE AnswerInv'
  BY <1>20 DEF RespondFails, Forget, Goto
<1>21. CASE Crash
  BY <1>21 DEF Crash, CloseAll
<1>22. CASE UNCHANGED vars
  BY <1>22
<1> QED
  BY <1>1, <1>2, <1>3, <1>4, <1>5, <1>6, <1>7, <1>8, <1>9, <1>10, <1>11, <1>12, <1>13,
     <1>14, <1>15, <1>16, <1>17, <1>18, <1>19, <1>20, <1>21, <1>22 DEF Next, Thread

\* No success is rolled back afterwards: whatever is acknowledged, a
\* registration, a message or the end of one, is committed.
THEOREM AcknowledgedCommitted == Spec => []AcknowledgedIsCommitted
<1>1. Init => AnswerInv
  BY DEF Init, AnswerInv
<1>2. Spec => []AnswerInv
  BY <1>1, AnswerStep, TypeInvariant, HandlersCommitted, RegistrationInvariant, PTL DEF Spec
<1>3. AnswerInv /\ BatchInv => AcknowledgedIsCommitted
  BY DEF AnswerInv, BatchInv, Held, AcknowledgedIsCommitted
<1> QED
  BY <1>2, <1>3, MailInvariant, PTL

-----------------------------------------------------------------------------
(* The server implements the mailbox *)

Received == UNION {delivered[c] : c \in Clients}
Out == (posted \ messages) \ Received

\* What the mailbox sees of the server.
Seen == <<me, lastId, messages, posted, delivered>>

\* waiting_messages_handler takes the oldest messages of its requester.
LEMMA CommitDeleteTakes ==
  ASSUME NEW s \in Sessions, NEW i, i = req[s].id,
         TypeInv, StoreInv, BatchInv, DeliveryInv, CommitDelete(s)
  PROVE  Abstract!Take(i)
<1> DEFINE B == Deleted(s)
<1>1. B \subseteq messages /\ B \subseteq batch[s]
  BY DEF Deleted, IdsOf, StoreInv
<1>2. \A m \in B : m.to = i
  BY <1>1 DEF BatchInv
<1>3. ASSUME NEW m \in B, NEW n \in messages \ B, n.to = i PROVE n.id > m.id
  BY <1>1, <1>2, <1>3 DEF BatchInv, Deleted, IdsOf
<1>4. messages' = messages \ B /\ UNCHANGED <<me, lastId, posted, delivered>>
  BY DEF CommitDelete, hist
<1>5. B \cap Received = {}
  <2> SUFFICES ASSUME NEW m \in B, NEW c \in Clients, m \in delivered[c] PROVE FALSE
    BY DEF Received
  <2>1. m.id > m.id /\ m.id \in Nat
    BY <1>1 DEF DeliveryInv, TypeInv, TypeOK, Message
  <2> QED
    BY <2>1
<1>6. Out' = Out \cup B
  BY <1>1, <1>4, <1>5 DEF Out, Received, StoreInv
<1> HIDE DEF B
<1> QED
  BY <1>1, <1>2, <1>3, <1>4, <1>6 DEF Abstract!Take, Out, Received

\* send_message_handler posts one message to its target.
LEMMA CommitMessagePosts ==
  ASSUME NEW s \in Sessions, NEW i, i = req[s].to, TypeInv, StoreInv, CommitMessage(s)
  PROVE  Abstract!Post(i)
<1> DEFINE m == [id |-> lastId + 1, to |-> i]
<1>1. /\ lastId' = lastId + 1 /\ messages' = messages \cup {m} /\ posted' = posted \cup {m}
      /\ UNCHANGED <<me, delivered>>
  BY DEF CommitMessage
<1>2. m \notin posted
  BY DEF StoreInv, TypeInv, TypeOK
<1> HIDE DEF m
<1>3. Out' = Out
  BY <1>1, <1>2 DEF Out, Received
<1> QED
  BY <1>1, <1>3 DEF Abstract!Post, Out, Received, m

\* A response that is taken tells a client its new ID, or delivers what was
\* taken for it, which is nothing for the other kinds of response.
LEMMA RespondDelivers ==
  ASSUME NEW s \in Sessions, NEW c, c = owner[s],
         TypeInv, PeerInv, RegistrationInv, StoreInv, BatchInv, DeliveryInv, Respond(s)
  PROVE  Abstract!Enroll(c) \/ Abstract!Deliver(c)
<1> DEFINE B == Held(s)
<1>1. c \in Clients /\ req[s] \in Request /\ req[s].id = me[c]
  BY DEF Respond, PeerInv
<1>2. UNCHANGED <<lastId, messages, posted>>
  BY DEF Respond, db
<1>3. delivered' = [delivered EXCEPT ![c] = @ \cup B]
  BY DEF Respond
<1>4. CASE Told(s)
  <2>1. B = {}
    BY <1>4 DEF Told, Held
  <2>2. delivered' = delivered
    BY <1>1, <1>3, <2>1 DEF TypeInv, TypeOK
  <2>3. me[c] = None
    BY <1>1, <1>4 DEF RegistrationInv, RegisterRequest
  <2>4. resp[s].id \in Ids /\ \A d \in Clients : me[d] # resp[s].id
    BY <1>4 DEF RegistrationInv, Registered
  <2>5. me' = [me EXCEPT ![c] = resp[s].id]
    BY <1>4 DEF Respond, Told
  <2> QED
    BY <1>2, <2>2, <2>3, <2>4, <2>5 DEF Abstract!Enroll
<1>5. CASE ~Told(s)
  <2>1. me' = me
    BY <1>5 DEF Respond, Told
  <2>2. \A m \in B : m.to = me[c]
    BY <1>1 DEF BatchInv, Held
  <2>3. \A m \in B, n \in delivered[c] : m.id > n.id /\ m.id \in Nat
    BY DEF DeliveryInv, Respond, Held, TypeInv, TypeOK, Message
  <2>4. B \subseteq posted /\ B \cap messages = {}
    BY DEF StoreInv, BatchInv, Held
  <2>5. B \cap Received = {}
    <3> SUFFICES ASSUME NEW m \in B, NEW d \in Clients, m \in delivered[d] PROVE FALSE
      BY DEF Received
    <3>1. CASE d = c
      <4>1. m.id > m.id /\ m.id \in Nat
        BY <2>3, <3>1
      <4> QED
        BY <4>1
    <3>2. CASE d # c
      <4>1. m.to = me[c] /\ m.to = me[d] /\ m.to \in Ids
        BY <2>2, <2>4 DEF DeliveryInv, TypeInv, TypeOK, Message
      <4> QED
        BY <4>1, <1>1, <3>2, NoneAssumption DEF RegistrationInv
    <3> QED
      BY <3>1, <3>2
  <2> HIDE DEF B
  <2>6. Received' = Received \cup B
    BY <1>1, <1>3 DEF Received, TypeInv, TypeOK
  <2>7. Out' = Out \ B /\ B \subseteq Out
    BY <1>2, <2>4, <2>5, <2>6 DEF Out
  <2> QED
    BY <1>2, <1>3, <2>1, <2>2, <2>3, <2>7 DEF Abstract!Deliver, Out, Received
<1> QED
  BY <1>4, <1>5

\* The mailbox does not notice any other action.
LEMMA OthersUnseen ==
  [Next]_vars => \/ UNCHANGED Seen
                 \/ \E s \in Sessions : CommitDelete(s) \/ CommitMessage(s) \/ Respond(s)
<1> SUFFICES ASSUME [Next]_vars
             PROVE  \/ UNCHANGED Seen
                    \/ \E s \in Sessions : CommitDelete(s) \/ CommitMessage(s) \/ Respond(s)
  OBVIOUS
<1> USE DEF Seen, db, hist
<1>1. ASSUME NEW s \in Sessions, Accept(s) PROVE UNCHANGED Seen
  BY <1>1 DEF Accept
<1>2. ASSUME NEW s \in Sessions, Drop(s) PROVE UNCHANGED Seen
  BY <1>2 DEF Drop
<1>3. ASSUME NEW s \in Sessions, Receive(s) PROVE UNCHANGED Seen
  BY <1>3 DEF Receive
<1>4. ASSUME NEW s \in Sessions, Disconnected(s) PROVE UNCHANGED Seen
  BY <1>4 DEF Disconnected
<1>5. ASSUME NEW s \in Sessions, WriteFails(s) PROVE UNCHANGED Seen
  BY <1>5 DEF WriteFails
<1>6. ASSUME NEW s \in Sessions, AddClient(s) PROVE UNCHANGED Seen
  BY <1>6 DEF AddClient
<1>7. ASSUME NEW s \in Sessions, CommitClient(s) PROVE UNCHANGED Seen
  BY <1>7 DEF CommitClient
<1>8. ASSUME NEW s \in Sessions, ClientExists(s) PROVE UNCHANGED Seen
  BY <1>8 DEF ClientExists
<1>9. ASSUME NEW s \in Sessions, UpdateLastSeen(s) PROVE UNCHANGED Seen
  BY <1>9 DEF UpdateLastSeen
<1>10. ASSUME NEW s \in Sessions, CommitLastSeen(s) PROVE UNCHANGED Seen
  BY <1>10 DEF CommitLastSeen
<1>11. ASSUME NEW s \in Sessions, ListClients(s) PROVE UNCHANGED Seen
  BY <1>11 DEF ListClients
<1>12. ASSUME NEW s \in Sessions, GetPublicKey(s) PROVE UNCHANGED Seen
  BY <1>12 DEF GetPublicKey
<1>13. ASSUME NEW s \in Sessions, GetWaiting(s) PROVE UNCHANGED Seen
  BY <1>13 DEF GetWaiting
<1>14. ASSUME NEW s \in Sessions, DeleteMessages(s) PROVE UNCHANGED Seen
  BY <1>14 DEF DeleteMessages
<1>15. ASSUME NEW s \in Sessions, TargetExists(s) PROVE UNCHANGED Seen
  BY <1>15 DEF TargetExists
<1>16. ASSUME NEW s \in Sessions, AddMessage(s) PROVE UNCHANGED Seen
  BY <1>16 DEF AddMessage
<1>17. ASSUME NEW s \in Sessions, RespondFails(s) PROVE UNCHANGED Seen
  BY <1>17 DEF RespondFails
<1>18. CASE Crash
  BY <1>18 DEF Crash
<1>19. CASE UNCHANGED vars
  BY <1>19 DEF vars
<1> QED
  BY <1>1, <1>2, <1>3, <1>4, <1>5, <1>6, <1>7, <1>8, <1>9, <1>10, <1>11, <1>12, <1>13,
     <1>14, <1>15, <1>16, <1>17, <1>18, <1>19 DEF Next, Thread

\* The server, with its threads, transactions, broken connections and
\* crashes, implements the mailbox.
THEOREM ServerImplementsMailbox == Spec => ImplementsMailbox
<1>1. Init => Abstract!Init
  BY DEF Init, Abstract!Init
<1>2. TypeInv /\ PeerInv /\ RegistrationInv /\ StoreInv /\ BatchInv /\ DeliveryInv /\
      [Next]_vars
        => [Abstract!Next]_(Abstract!mailbox)
  <2> SUFFICES ASSUME TypeInv, PeerInv, RegistrationInv, StoreInv, BatchInv, DeliveryInv,
                      [Next]_vars
               PROVE  Abstract!Next \/ UNCHANGED Abstract!mailbox
    OBVIOUS
  <2>1. UNCHANGED Seen => UNCHANGED Abstract!mailbox
    BY DEF Seen, Abstract!mailbox
  <2>2. ASSUME NEW s \in Sessions, CommitDelete(s) 
        PROVE  Abstract!Next \/ UNCHANGED Abstract!mailbox
    <3>1. CASE Deleted(s) = {}
      <4>1. UNCHANGED Seen
        BY <2>2, <3>1 DEF CommitDelete, hist, Seen
      <4> QED
        BY <4>1, <2>1
    <3>2. CASE Deleted(s) # {}
      <4>1. PICK i \in Ids : i = req[s].id
        BY <3>2 DEF Deleted, IdsOf, BatchInv, StoreInv, TypeInv, TypeOK, Message
      <4>2. Abstract!Take(i)
        BY <2>2, <4>1, CommitDeleteTakes
      <4> QED
        BY <4>2 DEF Abstract!Next
    <3> QED
      BY <3>1, <3>2
  <2>3. ASSUME NEW s \in Sessions, CommitMessage(s) PROVE Abstract!Next
    <3>1. PICK i \in Ids : i = req[s].to
      BY <2>3, RequestFacts DEF CommitMessage, TypeInv, ControlOK
    <3>2. Abstract!Post(i)
      BY <2>3, <3>1, CommitMessagePosts
    <3> QED
      BY <3>2 DEF Abstract!Next
  <2>4. ASSUME NEW s \in Sessions, Respond(s) PROVE Abstract!Next
    <3>1. PICK c \in Clients : c = owner[s]
      BY <2>4 DEF Respond, PeerInv
    <3>2. Abstract!Enroll(c) \/ Abstract!Deliver(c)
      BY <2>4, <3>1, RespondDelivers
    <3> QED
      BY <3>1, <3>2 DEF Abstract!Next
  <2> QED
    BY <2>1, <2>2, <2>3, <2>4, OthersUnseen
<1> QED
  BY <1>1, <1>2, TypeInvariant, RegistrationInvariant, MailInvariant, PTL
     DEF Spec, ImplementsMailbox, Abstract!Spec
=============================================================================
