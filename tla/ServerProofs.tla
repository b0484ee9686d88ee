---------------------------- MODULE ServerProofs ----------------------------
(***************************************************************************)
(* Proofs about Server: types, the discipline of the database's write      *)
(* lock, and registration.  Every invariant is proved from the ones before *)
(* it by one lemma that goes through the actions, and one theorem that     *)
(* combines it with Init.  ServerMailProofs continues with the messages.   *)
(***************************************************************************)
EXTENDS Server, TLAPS

-----------------------------------------------------------------------------
(* Types *)

\* What a thread relies on between its database calls: the request it is
\* handling has the fields the call reads, and a response is there to send.
ControlOK ==
  \A s \in Sessions :
    /\ pc[s] \in {"addClient", "commitClient"} => req[s] \in RegisterRequest
    /\ pc[s] \in {"clientExists", "updateLastSeen", "commitLastSeen"}
         => req[s] \in PlainRequest \cup TargetRequest /\ req[s].code # "version"
    /\ pc[s] \in Handlers \cup {"commitMessage", "commitDelete"}
         => req[s] \in PlainRequest \cup TargetRequest
    /\ pc[s] \in {"targetExists", "addMessage", "commitMessage"} => req[s] \in TargetRequest
    /\ pc[s] = "commitClient" => resp[s] \in RegisteredResponse
    /\ pc[s] = "respond" => resp[s] \in Response

TypeInv == TypeOK /\ ControlOK

\* The kinds of request are told apart by their codes.
LEMMA RequestFacts ==
  /\ RegisterRequest \subseteq Request
  /\ \A r \in Request : r.code = "register" => r \in RegisterRequest
  /\ \A r \in Request : r.code # "register" => r \in PlainRequest \cup TargetRequest
  /\ \A r \in PlainRequest \cup TargetRequest :
       /\ r \in Request
       /\ r.code \in {"version", "unknown", "list", "waiting", "publicKey", "send"}
       /\ r.id \in Ids \cup {None}
       /\ r.code \in {"publicKey", "send"} => r \in TargetRequest
  /\ \A r \in TargetRequest : r.to \in Ids
  /\ \A r \in RegisterRequest : r.name \in Names
BY DEF Request, RegisterRequest, PlainRequest, TargetRequest

\* The answers the handlers build are responses.
LEMMA ResponseFacts ==
  /\ ErrorResponse \in Response
  /\ [code |-> "publicKey"] \in Response /\ [code |-> "waiting"] \in Response
  /\ \A i \in Ids : [code |-> "registered", id |-> i] \in RegisteredResponse
  /\ \A r \in RegisteredResponse : r \in Response /\ r.code = "registered" /\ r.id \in Ids
  /\ \A R \in SUBSET Ids : [code |-> "list", rows |-> R] \in Response
  /\ \A n \in Nat : [code |-> "sent", num |-> n] \in Response
  /\ \A r \in Response : r.code = "registered" => r.id \in Ids
BY DEF Response, RegisteredResponse, ErrorResponse

\* Every action of request_handler.py and main.py preserves the types.
LEMMA TypeStep == TypeInv /\ [Next]_vars => TypeInv'
<1> SUFFICES ASSUME TypeInv, [Next]_vars PROVE TypeInv'
  OBVIOUS
<1> USE NoneAssumption DEF TypeInv, TypeOK, ControlOK, vars, db, hist, Steps, Handlers,
      Writes, Commits
<1>1. ASSUME NEW s \in Sessions, Accept(s) PROVE TypeInv'
  BY <1>1 DEF Accept, Goto
<1>2. ASSUME NEW s \in Sessions, Drop(s) PROVE TypeInv'
  BY <1>2 DEF Drop
<1>3. ASSUME NEW s \in Sessions, Receive(s) PROVE TypeInv'
  <2>1. PICK r \in Request :
          /\ req' = [req EXCEPT ![s] = r]
          /\ IF r.code = "version" \/ (r.code = "register" /\ ~r.valid)
             THEN Answer(s, ErrorResponse)
             ELSE /\ Goto(s, IF r.code = "register" THEN "addClient" ELSE "clientExists")
                  /\ UNCHANGED resp
    BY <1>3 DEF Receive, Requests
  <2>2. UNCHANGED <<db, lock, tx, seen, owner, up, batch, hist>>
    BY <1>3 DEF Receive
  <2>3. CASE r.code = "version" \/ (r.code = "register" /\ ~r.valid)
    BY <2>1, <2>2, <2>3, ResponseFacts, SMTT(30) DEF Answer, Goto
  <2>4. CASE r.code = "register" /\ r.valid
    <3>1. r \in RegisterRequest
      BY <2>4, RequestFacts
    <3> QED
      BY <2>1, <2>2, <2>4, <3>1 DEF Goto
  <2>5. CASE r.code \notin {"version", "register"}
    <3>1. r \in PlainRequest \cup TargetRequest
      BY <2>5, RequestFacts
    <3> QED
      BY <2>1, <2>2, <2>5, <3>1 DEF Goto
  <2> QED
    BY <2>3, <2>4, <2>5, <2>1
<1>4. ASSUME NEW s \in Sessions, Disconnected(s) PROVE TypeInv'
  BY <1>4 DEF Disconnected, CloseAll
<1>5. ASSUME NEW s \in Sessions, WriteFails(s) PROVE TypeInv'
  BY <1>5, ResponseFacts DEF WriteFails, Answer, Goto
<1>6. ASSUME NEW s \in Sessions, AddClient(s) PROVE TypeInv'
  BY <1>6, ResponseFacts, SMTT(30) DEF AddClient, Execute, Answer, Goto, Registered
<1>7. ASSUME NEW s \in Sessions, CommitClient(s) PROVE TypeInv'
  BY <1>7, RequestFacts, ResponseFacts DEF CommitClient, Commit, Goto
<1>8. ASSUME NEW s \in Sessions, ClientExists(s) PROVE TypeInv'
  BY <1>8, ResponseFacts, SMTT(30) DEF ClientExists, Read, Answer, Goto, Registered
<1>9. ASSUME NEW s \in Sessions, UpdateLastSeen(s) PROVE TypeInv'
  BY <1>9 DEF UpdateLastSeen, Execute, Goto, Registered
<1>10. ASSUME NEW s \in Sessions, CommitLastSeen(s) PROVE TypeInv'
  <2>1. /\ req[s] \in PlainRequest \cup TargetRequest
        /\ req[s].code \in {"unknown", "list", "waiting", "publicKey", "send"}
    BY <1>10, RequestFacts DEF CommitLastSeen
  <2>2. CASE req[s].code = "send" \/ (req[s].valid /\ req[s].code # "unknown")
    <3>1. \/ Handler(req[s]) \in {"listClients", "getPublicKey", "getWaiting"}
          \/ Handler(req[s]) = "targetExists" /\ req[s] \in TargetRequest
      BY <2>1, <2>2, RequestFacts DEF Handler
    <3> QED
      BY <1>10, <2>1, <2>2, <3>1 DEF CommitLastSeen, Commit, Goto
  <2>3. CASE ~(req[s].code = "send" \/ (req[s].valid /\ req[s].code # "unknown"))
    BY <1>10, <2>3, ResponseFacts, SMTT(30) DEF CommitLastSeen, Commit, Answer, Goto
  <2> QED
    BY <2>2, <2>3
<1>11. ASSUME NEW s \in Sessions, ListClients(s) PROVE TypeInv'
  BY <1>11, ResponseFacts DEF ListClients, Read, Answer, Goto, Registered, View
<1>12. ASSUME NEW s \in Sessions, GetPublicKey(s) PROVE TypeInv'
  BY <1>12, ResponseFacts, SMTT(30) DEF GetPublicKey, Read, Answer, Goto, Registered
<1>13. ASSUME NEW s \in Sessions, GetWaiting(s) PROVE TypeInv'
  BY <1>13, ResponseFacts, SMTT(30) DEF GetWaiting, Answer, Goto, Waiting
<1>14. ASSUME NEW s \in Sessions, DeleteMessages(s) PROVE TypeInv'
  BY <1>14 DEF DeleteMessages, Execute, Goto, Registered
<1>15. ASSUME NEW s \in Sessions, CommitDelete(s) PROVE TypeInv'
  BY <1>15, ResponseFacts, SMTT(30) DEF CommitDelete, Commit, Answer, Goto
<1>16. ASSUME NEW s \in Sessions, TargetExists(s) PROVE TypeInv'
  BY <1>16, RequestFacts, ResponseFacts, SMTT(30)
     DEF TargetExists, Read, Answer, Goto, Registered
<1>17. ASSUME NEW s \in Sessions, AddMessage(s) PROVE TypeInv'
  BY <1>17 DEF AddMessage, Execute, Goto, Registered
<1>18. ASSUME NEW s \in Sessions, CommitMessage(s) PROVE TypeInv'
  BY <1>18, RequestFacts, ResponseFacts DEF CommitMessage, Commit, Answer, Goto, Message
<1>19. ASSUME NEW s \in Sessions, Respond(s) PROVE TypeInv'
  <2>1. me' \in [Clients -> Ids \cup {None}]
    BY <1>19, ResponseFacts DEF Respond
  <2>2. delivered' \in [Clients -> SUBSET Message]
    BY <1>19 DEF Respond, Held
  <2>3. UNCHANGED <<db, lock, tx, seen, owner, up, posted, lost>> /\ Forget(s)
    BY <1>19 DEF Respond
  <2> QED
    BY <2>1, <2>2, <2>3, <1>19 DEF Forget, Goto, Respond
<1>20. ASSUME NEW s \in Sessions, RespondFails(s) PROVE TypeInv'
  BY <1>20 DEF RespondFails, Forget, Goto, Held
<1>21. CASE Crash
  BY <1>21 DEF Crash, CloseAll, Held
<1>22. CASE UNCHANGED vars
  BY <1>22
<1> QED
  BY <1>1, <1>2, <1>3, <1>4, <1>5, <1>6, <1>7, <1>8, <1>9, <1>10, <1>11, <1>12, <1>13,
     <1>14, <1>15, <1>16, <1>17, <1>18, <1>19, <1>20, <1>21, <1>22 DEF Next, Thread

\* The form the other proofs use: the types with what they rest on.
LEMMA TypeInvariant == Spec => []TypeInv
<1>1. Init => TypeInv
  BY NoneAssumption DEF Init, TypeInv, TypeOK, ControlOK, Steps, Handlers, Writes, Commits
<1> QED
  BY <1>1, TypeStep, PTL DEF Spec

\* Every state of the server is well typed, and a thread that has ended has
\* closed its database connection (handle_client).
THEOREM TypeCorrect == Spec => []TypeOK
<1>1. TypeInv => TypeOK
  BY DEF TypeInv
<1> QED
  BY <1>1, TypeInvariant, PTL

-----------------------------------------------------------------------------
(* Transactions *)

\* A thread between execute() and commit() holds the write lock.
LockInv == \A s \in Sessions : pc[s] \in Commits => lock = s

\* CanWrite keeps a second thread from executing a write meanwhile.
LEMMA LockStep == TypeInv /\ LockInv /\ [Next]_vars => LockInv'
<1> SUFFICES ASSUME TypeInv, LockInv, [Next]_vars PROVE LockInv'
  OBVIOUS
<1> USE NoneAssumption DEF TypeInv, TypeOK, LockInv, vars, db, hist, Commits, Handlers,
      Writes, Steps
<1>1. ASSUME NEW s \in Sessions, Accept(s) PROVE LockInv'
  BY <1>1 DEF Accept, Goto
<1>2. ASSUME NEW s \in Sessions, Drop(s) PROVE LockInv'
  BY <1>2 DEF Drop
<1>3. ASSUME NEW s \in Sessions, Receive(s) PROVE LockInv'
  BY <1>3 DEF Receive, Requests, Answer, Goto
<1>4. ASSUME NEW s \in Sessions, Disconnected(s) PROVE LockInv'
  BY <1>4 DEF Disconnected, CloseAll
<1>5. ASSUME NEW s \in Sessions, WriteFails(s) PROVE LockInv'
  BY <1>5 DEF WriteFails, Answer, Goto
<1>6. ASSUME NEW s \in Sessions, AddClient(s) PROVE LockInv'
  BY <1>6 DEF AddClient, Execute, CanWrite, Answer, Goto
<1>7. ASSUME NEW s \in Sessions, CommitClient(s) PROVE LockInv'
  BY <1>7 DEF CommitClient, Commit, Goto
<1>8. ASSUME NEW s \in Sessions, ClientExists(s) PROVE LockInv'
  BY <1>8 DEF ClientExists, Read, Answer, Goto
<1>9. ASSUME NEW s \in Sessions, UpdateLastSeen(s) PROVE LockInv'
  BY <1>9 DEF UpdateLastSeen, Execute, CanWrite, Goto
<1>10. ASSUME NEW s \in Sessions, CommitLastSeen(s) PROVE LockInv'
  BY <1>10, RequestFacts DEF CommitLastSeen, Commit, Handler, Answer, Goto, ControlOK
<1>11. ASSUME NEW s \in Sessions, ListClients(s) PROVE LockInv'
  BY <1>11 DEF ListClients, Read, Answer, Goto
<1>12. ASSUME NEW s \in Sessions, GetPublicKey(s) PROVE LockInv'
  BY <1>12 DEF GetPublicKey, Read, Answer, Goto
<1>13. ASSUME NEW s \in Sessions, GetWaiting(s) PROVE LockInv'
  BY <1>13 DEF GetWaiting, Answer, Goto
<1>14. ASSUME NEW s \in Sessions, DeleteMessages(s) PROVE LockInv'
  BY <1>14 DEF DeleteMessages, Execute, CanWrite, Goto
<1>15. ASSUME NEW s \in Sessions, CommitDelete(s) PROVE LockInv'
  BY <1>15 DEF CommitDelete, Commit, Answer, Goto
<1>16. ASSUME NEW s \in Sessions, TargetExists(s) PROVE LockInv'
  BY <1>16 DEF TargetExists, Read, Answer, Goto
<1>17. ASSUME NEW s \in Sessions, AddMessage(s) PROVE LockInv'
  BY <1>17 DEF AddMessage, Execute, CanWrite, Goto
<1>18. ASSUME NEW s \in Sessions, CommitMessage(s) PROVE LockInv'
  BY <1>18 DEF CommitMessage, Commit, Answer, Goto
<1>19. ASSUME NEW s \in Sessions, Respond(s) PROVE LockInv'
  BY <1>19 DEF Respond, Forget, Goto
<1>20. ASSUME NEW s \in Sessions, RespondFails(s) PROVE LockInv'
  BY <1>20 DEF RespondFails, Forget, Goto
<1>21. CASE Crash
  BY <1>21 DEF Crash, CloseAll
<1>22. CASE UNCHANGED vars
  BY <1>22
<1> QED
  BY <1>1, <1>2, <1>3, <1>4, <1>5, <1>6, <1>7, <1>8, <1>9, <1>10, <1>11, <1>12, <1>13,
     <1>14, <1>15, <1>16, <1>17, <1>18, <1>19, <1>20, <1>21, <1>22 DEF Next, Thread

\* What a thread commits in update_client_last_seen ends its transaction,
\* and no other thread gives it a new one.
LEMMA HandlersStep == TypeInv /\ HandlersSeeCommittedState /\ [Next]_vars =>
      HandlersSeeCommittedState'
<1> SUFFICES ASSUME TypeInv, HandlersSeeCommittedState, [Next]_vars PROVE
      HandlersSeeCommittedState'
  OBVIOUS
<1> USE NoneAssumption DEF TypeInv, TypeOK, HandlersSeeCommittedState, vars, db, hist,
      Commits, Handlers, Writes, Steps
<1>1. ASSUME NEW s \in Sessions, Accept(s) PROVE HandlersSeeCommittedState'
  BY <1>1 DEF Accept, Goto
<1>2. ASSUME NEW s \in Sessions, Drop(s) PROVE HandlersSeeCommittedState'
  BY <1>2 DEF Drop
<1>3. ASSUME NEW s \in Sessions, Receive(s) PROVE HandlersSeeCommittedState'
  BY <1>3 DEF Receive, Requests, Answer, Goto
<1>4. ASSUME NEW s \in Sessions, Disconnected(s) PROVE HandlersSeeCommittedState'
  BY <1>4 DEF Disconnected, CloseAll
<1>5. ASSUME NEW s \in Sessions, WriteFails(s) PROVE HandlersSeeCommittedState'
  BY <1>5 DEF WriteFails, Answer, Goto
<1>6. ASSUME NEW s \in Sessions, AddClient(s) PROVE HandlersSeeCommittedState'
  BY <1>6 DEF AddClient, Execute, CanWrite, Answer, Goto
<1>7. ASSUME NEW s \in Sessions, CommitClient(s) PROVE HandlersSeeCommittedState'
  BY <1>7 DEF CommitClient, Commit, Goto
<1>8. ASSUME NEW s \in Sessions, ClientExists(s) PROVE HandlersSeeCommittedState'
  BY <1>8 DEF ClientExists, Read, Answer, Goto
<1>9. ASSUME NEW s \in Sessions, UpdateLastSeen(s) PROVE HandlersSeeCommittedState'
  BY <1>9 DEF UpdateLastSeen, Execute, CanWrite, Goto
<1>10. ASSUME NEW s \in Sessions, CommitLastSeen(s) PROVE HandlersSeeCommittedState'
  BY <1>10 DEF CommitLastSeen, Commit, Handler, Answer, Goto
<1>11. ASSUME NEW s \in Sessions, ListClients(s) PROVE HandlersSeeCommittedState'
  BY <1>11 DEF ListClients, Read, Answer, Goto
<1>12. ASSUME NEW s \in Sessions, GetPublicKey(s) PROVE HandlersSeeCommittedState'
  BY <1>12 DEF GetPublicKey, Read, Answer, Goto
<1>13. ASSUME NEW s \in Sessions, GetWaiting(s) PROVE HandlersSeeCommittedState'
  BY <1>13 DEF GetWaiting, Answer, Goto
<1>14. ASSUME NEW s \in Sessions, DeleteMessages(s) PROVE HandlersSeeCommittedState'
  BY <1>14 DEF DeleteMessages, Execute, CanWrite, Goto
<1>15. ASSUME NEW s \in Sessions, CommitDelete(s) PROVE HandlersSeeCommittedState'
  BY <1>15 DEF CommitDelete, Commit, Answer, Goto
<1>16. ASSUME NEW s \in Sessions, TargetExists(s) PROVE HandlersSeeCommittedState'
  BY <1>16 DEF TargetExists, Read, Answer, Goto
<1>17. ASSUME NEW s \in Sessions, AddMessage(s) PROVE HandlersSeeCommittedState'
  BY <1>17 DEF AddMessage, Execute, CanWrite, Goto
<1>18. ASSUME NEW s \in Sessions, CommitMessage(s) PROVE HandlersSeeCommittedState'
  BY <1>18 DEF CommitMessage, Commit, Answer, Goto
<1>19. ASSUME NEW s \in Sessions, Respond(s) PROVE HandlersSeeCommittedState'
  BY <1>19 DEF Respond, Forget, Goto
<1>20. ASSUME NEW s \in Sessions, RespondFails(s) PROVE HandlersSeeCommittedState'
  BY <1>20 DEF RespondFails, Forget, Goto
<1>21. CASE Crash
  BY <1>21 DEF Crash, CloseAll
<1>22. CASE UNCHANGED vars
  BY <1>22
<1> QED
  BY <1>1, <1>2, <1>3, <1>4, <1>5, <1>6, <1>7, <1>8, <1>9, <1>10, <1>11, <1>12, <1>13,
     <1>14, <1>15, <1>16, <1>17, <1>18, <1>19, <1>20, <1>21, <1>22 DEF Next, Thread

\* The handlers never work on a snapshot, whatever writes have failed before
\* on the same connection and left their transaction open.
THEOREM HandlersCommitted == Spec => []HandlersSeeCommittedState
<1>1. Init => HandlersSeeCommittedState
  BY DEF Init, HandlersSeeCommittedState, Handlers
<1> QED
  BY <1>1, HandlersStep, TypeInvariant, PTL DEF Spec

-----------------------------------------------------------------------------
(* Clients and their connections *)

\* A client has one live connection, and what is being handled for it on
\* that connection carries the ID the client has.
PeerInv ==
  \A s \in Sessions : up[s] =>
    /\ owner[s] \in Clients /\ pc[s] # "closed"
    /\ \A t \in Sessions : up[t] /\ owner[t] = owner[s] => t = s
    /\ pc[s] # "recv" => req[s] \in Request /\ req[s].id = me[owner[s]]

\* A client's ID changes only in Respond on its own live connection.
LEMMA PeerStep == TypeInv /\ PeerInv /\ [Next]_vars => PeerInv'
<1> SUFFICES ASSUME TypeInv, PeerInv, [Next]_vars PROVE PeerInv'
  OBVIOUS
<1> USE NoneAssumption, RequestFacts, ResponseFacts DEF TypeInv, TypeOK, PeerInv, vars, db, hist
<1>1. ASSUME NEW s \in Sessions, Accept(s) PROVE PeerInv'
  BY <1>1 DEF Accept, Goto
<1>2. ASSUME NEW s \in Sessions, Drop(s) PROVE PeerInv'
  BY <1>2 DEF Drop
<1>3. ASSUME NEW s \in Sessions, Receive(s) PROVE PeerInv'
  BY <1>3 DEF Receive, Requests, Answer, Goto, Request
<1>4. ASSUME NEW s \in Sessions, Disconnected(s) PROVE PeerInv'
  BY <1>4 DEF Disconnected, CloseAll
<1>5. ASSUME NEW s \in Sessions, WriteFails(s) PROVE PeerInv'
  BY <1>5 DEF WriteFails, Answer, Goto, Writes
<1>6. ASSUME NEW s \in Sessions, AddClient(s) PROVE PeerInv'
  BY <1>6 DEF AddClient, Execute, CanWrite, Answer, Goto
<1>7. ASSUME NEW s \in Sessions, CommitClient(s) PROVE PeerInv'
  BY <1>7 DEF CommitClient, Commit, Goto
<1>8. ASSUME NEW s \in Sessions, ClientExists(s) PROVE PeerInv'
  BY <1>8 DEF ClientExists, Read, Answer, Goto
<1>9. ASSUME NEW s \in Sessions, UpdateLastSeen(s) PROVE PeerInv'
  BY <1>9 DEF UpdateLastSeen, Execute, CanWrite, Goto
<1>10. ASSUME NEW s \in Sessions, CommitLastSeen(s) PROVE PeerInv'
  BY <1>10 DEF CommitLastSeen, Commit, Handler, Answer, Goto, ControlOK
<1>11. ASSUME NEW s \in Sessions, ListClients(s) PROVE PeerInv'
  BY <1>11 DEF ListClients, Read, Answer, Goto
<1>12. ASSUME NEW s \in Sessions, GetPublicKey(s) PROVE PeerInv'
  BY <1>12 DEF GetPublicKey, Read, Answer, Goto
<1>13. ASSUME NEW s \in Sessions, GetWaiting(s) PROVE PeerInv'
  BY <1>13 DEF GetWaiting, Answer, Goto
<1>14. ASSUME NEW s \in Sessions, DeleteMessages(s) PROVE PeerInv'
  BY <1>14 DEF DeleteMessages, Execute, CanWrite, Goto
<1>15. ASSUME NEW s \in Sessions, CommitDelete(s) PROVE PeerInv'
  BY <1>15 DEF CommitDelete, Commit, Answer, Goto
<1>16. ASSUME NEW s \in Sessions, TargetExists(s) PROVE PeerInv'
  BY <1>16 DEF TargetExists, Read, Answer, Goto
<1>17. ASSUME NEW s \in Sessions, AddMessage(s) PROVE PeerInv'
  BY <1>17 DEF AddMessage, Execute, CanWrite, Goto
<1>18. ASSUME NEW s \in Sessions, CommitMessage(s) PROVE PeerInv'
  BY <1>18 DEF CommitMessage, Commit, Answer, Goto
<1>19. ASSUME NEW s \in Sessions, Respond(s) PROVE PeerInv'
  BY <1>19 DEF Respond, Forget, Goto
<1>20. ASSUME NEW s \in Sessions, RespondFails(s) PROVE PeerInv'
  BY <1>20 DEF RespondFails, Forget, Goto
<1>21. CASE Crash
  BY <1>21 DEF Crash, CloseAll
<1>22. CASE UNCHANGED vars
  BY <1>22
<1> QED
  BY <1>1, <1>2, <1>3, <1>4, <1>5, <1>6, <1>7, <1>8, <1>9, <1>10, <1>11, <1>12, <1>13,
     <1>14, <1>15, <1>16, <1>17, <1>18, <1>19, <1>20, <1>21, <1>22 DEF Next, Thread

\* The session is about to tell a client the ID it has registered.
Told(s) == pc[s] = "respond" /\ resp[s].code = "registered"

\* A row about to be committed conflicts with none in the table, and an ID
\* about to be told is registered and nobody else's.
RegistrationInv ==
  /\ \A s \in Sessions :
       /\ pc[s] = "commitClient" => ~Conflict(resp[s].id, req[s].name)
       /\ Told(s) => /\ req[s] \in RegisterRequest
                     /\ resp[s].id \in Registered
                     /\ \A c \in Clients : me[c] # resp[s].id
                     /\ \A t \in Sessions \ {s} : Told(t) => resp[t].id # resp[s].id
  /\ \A c \in Clients : me[c] # None =>
       me[c] \in Registered /\ \A d \in Clients \ {c} : me[d] # me[c]

\* What every action but two does to registration: nothing.
Quiet(s) ==
  /\ UNCHANGED <<clients, me>>
  /\ \A t \in Sessions \ {s} : pc'[t] = pc[t] /\ resp'[t] = resp[t] /\ req'[t] = req[t]
  /\ pc'[s] # "commitClient" /\ ~Told(s)'

\* Quiet steps keep the invariant.
LEMMA QuietStep ==
  ASSUME NEW s \in Sessions, RegistrationInv, Quiet(s)
  PROVE  RegistrationInv'
BY DEF Quiet, RegistrationInv, Told, Registered, Conflict

\* Two threads cannot both be between execute() and commit() of add_client,
\* so the constraints checked by the first still hold at the second.
LEMMA RegistrationStep == TypeInv /\ LockInv /\ PeerInv /\ RegistrationInv /\ [Next]_vars
      => RegistrationInv'
<1> SUFFICES ASSUME TypeInv /\ LockInv /\ PeerInv, RegistrationInv, [Next]_vars PROVE
      RegistrationInv'
  OBVIOUS
<1> USE NoneAssumption DEF vars, db, hist
<1>1. ASSUME NEW s \in Sessions, Accept(s) PROVE RegistrationInv'
  <2>1. Quiet(s)
    BY <1>1 DEF Accept, Goto, Quiet, Told, TypeInv, TypeOK, Writes
  <2> QED
    BY <2>1, QuietStep
<1>2. ASSUME NEW s \in Sessions, Drop(s) PROVE RegistrationInv'
  BY <1>2
     DEF Drop, TypeInv, TypeOK, ControlOK, LockInv, RegistrationInv, Told, Registered,
         Conflict, Commits
<1>3. ASSUME NEW s \in Sessions, Receive(s) PROVE RegistrationInv'
  <2>1. Quiet(s)
    BY <1>3
       DEF Receive, Requests, Answer, Goto, ErrorResponse, Quiet, Told, TypeInv, TypeOK,
           Writes
  <2> QED
    BY <2>1, QuietStep
<1>4. ASSUME NEW s \in Sessions, Disconnected(s) PROVE RegistrationInv'
  <2>1. Quiet(s)
    BY <1>4 DEF Disconnected, CloseAll, Quiet, Told, TypeInv, TypeOK, Writes
  <2> QED
    BY <2>1, QuietStep
<1>5. ASSUME NEW s \in Sessions, WriteFails(s) PROVE RegistrationInv'
  <2>1. Quiet(s)
    BY <1>5 DEF WriteFails, Answer, Goto, ErrorResponse, Quiet, Told, TypeInv, TypeOK, Writes
  <2> QED
    BY <2>1, QuietStep
<1>6. ASSUME NEW s \in Sessions, AddClient(s) PROVE RegistrationInv'
  BY <1>6, NoneAssumption, RequestFacts, ResponseFacts
     DEF AddClient, Execute, CanWrite, Answer, Goto, ErrorResponse, TypeInv, TypeOK,
         ControlOK, LockInv, RegistrationInv, Told, Registered, Conflict, Commits
<1>7. ASSUME NEW s \in Sessions, CommitClient(s) PROVE RegistrationInv'
  <2> USE RequestFacts, ResponseFacts DEF TypeInv, TypeOK, ControlOK, LockInv,
        RegistrationInv, Told, Registered, Conflict, Commits
  <2>1. lock = s BY <1>7 DEF CommitClient
  <2>2. clients' = [clients EXCEPT ![resp[s].id] = req[s].name] /\ resp[s].id \in Ids /\
        req[s].name \in Names
    BY <1>7 DEF CommitClient
  <2>3. Registered' = Registered \cup {resp[s].id}
    BY <2>2
  <2>4. ASSUME NEW t \in Sessions, t # s PROVE ~(pc'[t] = "commitClient")
    BY <2>1, <2>4, <1>7 DEF CommitClient, Goto
  <2>5. resp[s].id \notin Registered
    BY <1>7 DEF CommitClient
  <2>6. ASSUME NEW t \in Sessions, Told(t)' PROVE
          /\ (req[t] \in RegisterRequest)'
          /\ (resp[t].id \in Registered)'
          /\ (\A c \in Clients : me[c] # resp[t].id)'
    <3>1. CASE t = s
      BY <1>7, <2>2, <2>3, <2>5, <2>6, <3>1 DEF CommitClient, Goto, Told
    <3> QED BY <3>1, <1>7, <2>3, <2>6 DEF CommitClient, Goto, Told
  <2>7. ASSUME NEW t \in Sessions, NEW u \in Sessions \ {t}, Told(t)', Told(u)' PROVE
        resp'[u].id # resp'[t].id
    BY <2>5, <2>7, <1>7 DEF CommitClient, Goto, Told
  <2> QED BY <2>4, <2>6, <2>7, <1>7 DEF CommitClient, Goto
<1>8. ASSUME NEW s \in Sessions, ClientExists(s) PROVE RegistrationInv'
  <2>1. Quiet(s)
    BY <1>8
       DEF ClientExists, Read, Answer, Goto, ErrorResponse, Quiet, Told, TypeInv, TypeOK,
           Writes
  <2> QED
    BY <2>1, QuietStep
<1>9. ASSUME NEW s \in Sessions, UpdateLastSeen(s) PROVE RegistrationInv'
  <2>1. Quiet(s)
    BY <1>9 DEF UpdateLastSeen, Execute, Goto, Quiet, Told, TypeInv, TypeOK, Writes
  <2> QED
    BY <2>1, QuietStep
<1>10. ASSUME NEW s \in Sessions, CommitLastSeen(s) PROVE RegistrationInv'
  <2>1. Quiet(s)
    BY <1>10, RequestFacts
       DEF CommitLastSeen, Commit, Handler, Answer, Goto, ErrorResponse, ControlOK, Quiet,
           Told, TypeInv, TypeOK, Writes
  <2> QED
    BY <2>1, QuietStep
<1>11. ASSUME NEW s \in Sessions, ListClients(s) PROVE RegistrationInv'
  <2>1. Quiet(s)
    BY <1>11
       DEF ListClients, Read, Answer, Goto, ErrorResponse, Quiet, Told, TypeInv, TypeOK,
           Writes
  <2> QED
    BY <2>1, QuietStep
<1>12. ASSUME NEW s \in Sessions, GetPublicKey(s) PROVE RegistrationInv'
  <2>1. Quiet(s)
    BY <1>12
       DEF GetPublicKey, Read, Answer, Goto, ErrorResponse, Quiet, Told, TypeInv, TypeOK,
           Writes
  <2> QED
    BY <2>1, QuietStep
<1>13. ASSUME NEW s \in Sessions, GetWaiting(s) PROVE RegistrationInv'
  <2>1. Quiet(s)
    BY <1>13 DEF GetWaiting, Answer, Goto, ErrorResponse, Quiet, Told, TypeInv, TypeOK, Writes
  <2> QED
    BY <2>1, QuietStep
<1>14. ASSUME NEW s \in Sessions, DeleteMessages(s) PROVE RegistrationInv'
  <2>1. Quiet(s)
    BY <1>14 DEF DeleteMessages, Execute, Goto, Quiet, Told, TypeInv, TypeOK, Writes
  <2> QED
    BY <2>1, QuietStep
<1>15. ASSUME NEW s \in Sessions, CommitDelete(s) PROVE RegistrationInv'
  <2>1. Quiet(s)
    BY <1>15
       DEF CommitDelete, Commit, Answer, Goto, ErrorResponse, Quiet, Told, TypeInv, TypeOK,
           Writes
  <2> QED
    BY <2>1, QuietStep
<1>16. ASSUME NEW s \in Sessions, TargetExists(s) PROVE RegistrationInv'
  <2>1. Quiet(s)
    BY <1>16
       DEF TargetExists, Read, Answer, Goto, ErrorResponse, Quiet, Told, TypeInv, TypeOK,
           Writes
  <2> QED
    BY <2>1, QuietStep
<1>17. ASSUME NEW s \in Sessions, AddMessage(s) PROVE RegistrationInv'
  <2>1. Quiet(s)
    BY <1>17 DEF AddMessage, Execute, Goto, Quiet, Told, TypeInv, TypeOK, Writes
  <2> QED
    BY <2>1, QuietStep
<1>18. ASSUME NEW s \in Sessions, CommitMessage(s) PROVE RegistrationInv'
  <2>1. Quiet(s)
    BY <1>18
       DEF CommitMessage, Commit, Answer, Goto, ErrorResponse, Quiet, Told, TypeInv, TypeOK,
           Writes
  <2> QED
    BY <2>1, QuietStep
<1>19. ASSUME NEW s \in Sessions, Respond(s) PROVE RegistrationInv'
  BY <1>19, NoneAssumption, RequestFacts, ResponseFacts
     DEF Respond, Forget, Goto, PeerInv, TypeInv, TypeOK, ControlOK, LockInv,
         RegistrationInv, Told, Registered, Conflict, Commits
<1>20. ASSUME NEW s \in Sessions, RespondFails(s) PROVE RegistrationInv'
  <2>1. Quiet(s)
    BY <1>20 DEF RespondFails, Forget, Goto, Quiet, Told, TypeInv, TypeOK, Writes
  <2> QED
    BY <2>1, QuietStep
<1>21. CASE Crash
  BY <1>21
     DEF Crash, CloseAll, TypeInv, TypeOK, ControlOK, LockInv, RegistrationInv, Told,
         Registered, Conflict, Commits
<1>22. CASE UNCHANGED vars
  BY <1>22 DEF RegistrationInv, Told, Registered, Conflict
<1> QED
  BY <1>1, <1>2, <1>3, <1>4, <1>5, <1>6, <1>7, <1>8, <1>9, <1>10, <1>11, <1>12, <1>13,
     <1>14, <1>15, <1>16, <1>17, <1>18, <1>19, <1>20, <1>21, <1>22 DEF Next, Thread

\* The invariants of this module together.
LEMMA RegistrationInvariant == Spec => [](LockInv /\ PeerInv /\ RegistrationInv)
<1>1. Init => LockInv /\ PeerInv /\ RegistrationInv
  BY DEF Init, LockInv, PeerInv, RegistrationInv, Told, Commits
<1> QED
  BY <1>1, LockStep, PeerStep, RegistrationStep, TypeInvariant, PTL DEF Spec

\* Only the commit() of add_client writes the table clients.
LEMMA OnlyCommitClient ==
  [Next]_vars => clients' = clients \/ \E s \in Sessions : CommitClient(s)
<1> SUFFICES ASSUME [Next]_vars PROVE clients' = clients \/ \E s \in Sessions : CommitClient(s)
  OBVIOUS
<1> USE DEF db
<1>1. ASSUME NEW s \in Sessions, Accept(s) PROVE clients' = clients
  BY <1>1 DEF Accept
<1>2. ASSUME NEW s \in Sessions, Drop(s) PROVE clients' = clients
  BY <1>2 DEF Drop
<1>3. ASSUME NEW s \in Sessions, Receive(s) PROVE clients' = clients
  BY <1>3 DEF Receive
<1>4. ASSUME NEW s \in Sessions, Disconnected(s) PROVE clients' = clients
  BY <1>4 DEF Disconnected
<1>5. ASSUME NEW s \in Sessions, WriteFails(s) PROVE clients' = clients
  BY <1>5 DEF WriteFails
<1>6. ASSUME NEW s \in Sessions, AddClient(s) PROVE clients' = clients
  BY <1>6 DEF AddClient
<1>7. ASSUME NEW s \in Sessions, ClientExists(s) PROVE clients' = clients
  BY <1>7 DEF ClientExists
<1>8. ASSUME NEW s \in Sessions, UpdateLastSeen(s) PROVE clients' = clients
  BY <1>8 DEF UpdateLastSeen
<1>9. ASSUME NEW s \in Sessions, CommitLastSeen(s) PROVE clients' = clients
  BY <1>9 DEF CommitLastSeen
<1>10. ASSUME NEW s \in Sessions, ListClients(s) PROVE clients' = clients
  BY <1>10 DEF ListClients
<1>11. ASSUME NEW s \in Sessions, GetPublicKey(s) PROVE clients' = clients
  BY <1>11 DEF GetPublicKey
<1>12. ASSUME NEW s \in Sessions, GetWaiting(s) PROVE clients' = clients
  BY <1>12 DEF GetWaiting
<1>13. ASSUME NEW s \in Sessions, DeleteMessages(s) PROVE clients' = clients
  BY <1>13 DEF DeleteMessages
<1>14. ASSUME NEW s \in Sessions, CommitDelete(s) PROVE clients' = clients
  BY <1>14 DEF CommitDelete
<1>15. ASSUME NEW s \in Sessions, TargetExists(s) PROVE clients' = clients
  BY <1>15 DEF TargetExists
<1>16. ASSUME NEW s \in Sessions, AddMessage(s) PROVE clients' = clients
  BY <1>16 DEF AddMessage
<1>17. ASSUME NEW s \in Sessions, CommitMessage(s) PROVE clients' = clients
  BY <1>17 DEF CommitMessage
<1>18. ASSUME NEW s \in Sessions, Respond(s) PROVE clients' = clients
  BY <1>18 DEF Respond
<1>19. ASSUME NEW s \in Sessions, RespondFails(s) PROVE clients' = clients
  BY <1>19 DEF RespondFails
<1>20. CASE Crash
  BY <1>20 DEF Crash
<1>21. CASE UNCHANGED vars
  BY <1>21 DEF vars
<1> QED
  BY <1>1, <1>2, <1>3, <1>4, <1>5, <1>6, <1>7, <1>8, <1>9, <1>10, <1>11, <1>12, <1>13,
     <1>14, <1>15, <1>16, <1>17, <1>18, <1>19, <1>20, <1>21 DEF Next, Thread

\* An insert that was committed never duplicates a name.
THEOREM NamesStayUnique == Spec => []NamesUnique
<1>1. Init => NamesUnique
  BY DEF Init, NamesUnique, Registered
<1>2. TypeInv /\ RegistrationInv /\ NamesUnique /\ [Next]_vars => NamesUnique'
  <2> SUFFICES ASSUME TypeInv, RegistrationInv, NamesUnique, [Next]_vars
               PROVE  NamesUnique'
    OBVIOUS
  <2>1. ASSUME NEW s \in Sessions, CommitClient(s) PROVE NamesUnique'
    BY <2>1, NoneAssumption
       DEF CommitClient, NamesUnique, RegistrationInv, Conflict, Registered, TypeInv, TypeOK
  <2>2. CASE clients' = clients
    BY <2>2 DEF NamesUnique, Registered
  <2> QED
    BY <2>1, <2>2, OnlyCommitClient
<1> QED
  BY <1>1, <1>2, TypeInvariant, RegistrationInvariant, PTL DEF Spec

\* No commit and no crash changes or removes a row of the table clients.
THEOREM RegistrationsNeverChange == Spec => RegistrationsPersist
<1>1. TypeInv /\ RegistrationInv /\ [Next]_vars
        => [\A i \in Registered : clients'[i] = clients[i]]_vars
  <2> SUFFICES ASSUME TypeInv, RegistrationInv, [Next]_vars
               PROVE  \A i \in Registered : clients'[i] = clients[i]
    OBVIOUS
  <2>1. ASSUME NEW s \in Sessions, CommitClient(s)
        PROVE  \A i \in Registered : clients'[i] = clients[i]
    BY <2>1 DEF CommitClient, RegistrationInv, Conflict, Registered, TypeInv, TypeOK
  <2>2. CASE clients' = clients
    BY <2>2
  <2> QED
    BY <2>1, <2>2, OnlyCommitClient
<1> QED
  BY <1>1, TypeInvariant, RegistrationInvariant, PTL DEF Spec, RegistrationsPersist
=============================================================================
