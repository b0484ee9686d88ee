------------------------------- MODULE Server -------------------------------
(***************************************************************************)
(* The MessageU server: one thread per connection (main.py), the request   *)
(* handlers (request_handler.py) and the SQLite database every thread      *)
(* opens a connection of its own to (database.py).                         *)
(*                                                                         *)
(* Every database call is a step of its own, so the threads interleave     *)
(* between the calls of one handler.  A write is two steps, execute() and  *)
(* commit(), because between them the thread holds the database's write    *)
(* lock.  What the server stores and returns unread is left out: public    *)
(* keys, and the sender, type and content of a message.                    *)
(***************************************************************************)
EXTENDS Naturals, FiniteSets

CONSTANTS
  Clients,    \* the client programs, each with its my.info file
  Sessions,   \* the server threads, one per accepted connection
  Ids,        \* the client IDs secrets.token_bytes may draw
  Names,      \* the user names clients register
  None,       \* no ID, no session, no name
  Codes,      \* the request codes clients send
  Shapes,     \* validity of the requests' sizes, types and text
  MaxMsgs,    \* bound: no message is sent once this many are stored
  MaxMsgId,   \* the largest message ID that fits the wire's 4-byte field
  MaxVars     \* the largest number of variables of one SQL statement

ASSUME NoneAssumption == None \notin Clients \cup Sessions \cup Ids \cup Names
ASSUME BoundAssumption == MaxMsgs \in Nat /\ MaxMsgId \in Nat /\ MaxVars \in Nat

VARIABLES
  clients,    \* table clients: the name registered under each ID, or None
  messages,   \* table messages: the committed rows
  lastId,     \* the AUTOINCREMENT counter of table messages
  lock,       \* the session that holds the database's write lock, or None
  tx,         \* per session: state of its connection's open transaction
  seen,       \* per session: the IDs its read snapshot contains
  pc,         \* per session: the call its thread makes next
  owner,      \* per session: the client that opened it
  up,         \* per session: the client still holds its end of the socket
  req, resp,  \* per session: request being handled, response to be sent
  batch,      \* per session: the rows selected for the response
  me,         \* per client: the ID it was told, kept in my.info
  posted, delivered, lost  \* history: the messages ever stored, received by
                           \* each client, and dropped with a response that
                           \* reached nobody

db   == <<clients, messages, lastId>>
hist == <<me, posted, delivered, lost>>
vars == <<db, lock, tx, seen, pc, owner, up, req, resp, batch, hist>>

Message == [id : Nat, to : Ids]
IdsOf(rows) == {m.id : m \in rows}

RegisterRequest == [code : {"register"}, id : {None}, name : Names, valid : BOOLEAN]
PlainRequest    == [code : {"version", "unknown", "list", "waiting"},
                    id : Ids \cup {None}, valid : BOOLEAN]
TargetRequest   == [code : {"publicKey", "send"}, id : Ids \cup {None}, to : Ids,
                    valid : BOOLEAN]
Request         == RegisterRequest \cup PlainRequest \cup TargetRequest

RegisteredResponse == [code : {"registered"}, id : Ids]
Response ==
  RegisteredResponse
    \cup [code : {"error", "publicKey", "waiting"}]
    \cup [code : {"list"}, rows : SUBSET Ids]
    \cup [code : {"sent"}, num : Nat]

ErrorResponse == [code |-> "error"]

\* The steps of a thread between receiving a request and sending its response.
Handlers == {"listClients", "getPublicKey", "getWaiting", "targetExists",
             "addMessage", "deleteMessages"}
Writes   == {"addClient", "updateLastSeen", "addMessage", "deleteMessages"}
Commits  == {"commitClient", "commitLastSeen", "commitMessage", "commitDelete"}
Steps    == {"closed", "recv", "clientExists", "respond"} \cup Handlers \cup Writes \cup Commits

-----------------------------------------------------------------------------
(***************************************************************************)
(* SQLite as the server uses it: WAL journal, Python's implicit BEGIN      *)
(* before INSERT, UPDATE and DELETE, autocommitted SELECTs otherwise, and  *)
(* no rollback() anywhere.  tx[s] is                                       *)
(*   "none"   no open transaction;                                         *)
(*   "open"   BEGIN was executed, nothing has been read yet;               *)
(*   "fresh"  the transaction reads a snapshot that is still the newest;   *)
(*   "stale"  another connection has committed since the snapshot.         *)
(* A write needs the write lock and a snapshot that is not stale; if it    *)
(* fails, the transaction its implicit BEGIN opened stays open.            *)
(***************************************************************************)
Registered == {i \in Ids : clients[i] # None}
View(s) == IF tx[s] \in {"fresh", "stale"} THEN seen[s] ELSE Registered

\* A SELECT of session s: inside an open transaction it fixes the snapshot.
Read(s) ==
  IF tx[s] = "open"
  THEN /\ tx' = [tx EXCEPT ![s] = "fresh"]
       /\ seen' = [seen EXCEPT ![s] = Registered]
  ELSE UNCHANGED <<tx, seen>>

CanWrite(s) == lock \in {None, s} /\ tx[s] # "stale"

\* execute() of a writing statement: the lock is taken and kept.
Execute(s) ==
  /\ CanWrite(s)
  /\ lock' = s
  /\ tx' = [tx EXCEPT ![s] = "fresh"]
  /\ seen' = [seen EXCEPT ![s] = Registered]

\* commit(): every other snapshot is now out of date.
Commit(s) ==
  /\ lock' = None
  /\ tx' = [t \in Sessions |-> IF t = s THEN "none"
                               ELSE IF tx[t] = "fresh" THEN "stale" ELSE tx[t]]
  /\ seen' = [seen EXCEPT ![s] = {}]

Goto(s, step) == pc' = [pc EXCEPT ![s] = step]
Answer(s, r)  == Goto(s, "respond") /\ resp' = [resp EXCEPT ![s] = r]

-----------------------------------------------------------------------------
(* Connections *)

Init ==
  /\ clients = [i \in Ids |-> None] /\ messages = {} /\ lastId = 0
  /\ lock = None
  /\ tx = [s \in Sessions |-> "none"] /\ seen = [s \in Sessions |-> {}]
  /\ pc = [s \in Sessions |-> "closed"]
  /\ owner = [s \in Sessions |-> None] /\ up = [s \in Sessions |-> FALSE]
  /\ req = [s \in Sessions |-> None] /\ resp = [s \in Sessions |-> None]
  /\ batch = [s \in Sessions |-> {}]
  /\ me = [c \in Clients |-> None]
  /\ posted = {} /\ delivered = [c \in Clients |-> {}] /\ lost = {}

\* A client program connects once; main() starts a thread with its own
\* database connection.  A thread left over from an earlier connection of
\* the same client may still be running.
Accept(s) ==
  /\ pc[s] = "closed"
  /\ \E c \in Clients :
       /\ \A t \in Sessions : ~(up[t] /\ owner[t] = c)
       /\ owner' = [owner EXCEPT ![s] = c]
  /\ up' = [up EXCEPT ![s] = TRUE]
  /\ Goto(s, "recv")
  /\ UNCHANGED <<db, lock, tx, seen, req, resp, batch, hist>>

\* The client exits or dies, or the network between the two breaks.
Drop(s) ==
  /\ up[s]
  /\ up' = [up EXCEPT ![s] = FALSE]
  /\ UNCHANGED <<db, lock, tx, seen, pc, owner, req, resp, batch, hist>>

\* Mutant: the thread ends without db.close().
CloseAllButDatabase(S) ==
  /\ pc'    = [s \in Sessions |-> IF s \in S THEN "closed" ELSE pc[s]]
  /\ owner' = [s \in Sessions |-> IF s \in S THEN None ELSE owner[s]]
  /\ up'    = [s \in Sessions |-> IF s \in S THEN FALSE ELSE up[s]]
  /\ req'   = [s \in Sessions |-> IF s \in S THEN None ELSE req[s]]
  /\ resp'  = [s \in Sessions |-> IF s \in S THEN None ELSE resp[s]]
  /\ batch' = [s \in Sessions |-> IF s \in S THEN {} ELSE batch[s]]
  /\ UNCHANGED <<lock, tx, seen>>

\* The thread leaves its loop; db.close() rolls an open transaction back.
CloseAll(S) ==
  /\ pc'    = [s \in Sessions |-> IF s \in S THEN "closed" ELSE pc[s]]
  /\ owner' = [s \in Sessions |-> IF s \in S THEN None ELSE owner[s]]
  /\ up'    = [s \in Sessions |-> IF s \in S THEN FALSE ELSE up[s]]
  /\ tx'    = [s \in Sessions |-> IF s \in S THEN "none" ELSE tx[s]]
  /\ seen'  = [s \in Sessions |-> IF s \in S THEN {} ELSE seen[s]]
  /\ req'   = [s \in Sessions |-> IF s \in S THEN None ELSE req[s]]
  /\ resp'  = [s \in Sessions |-> IF s \in S THEN None ELSE resp[s]]
  /\ batch' = [s \in Sessions |-> IF s \in S THEN {} ELSE batch[s]]
  /\ lock'  = IF lock \in S THEN None ELSE lock

\* recv() returns no bytes: receive_exact raises ConnectionError.
Disconnected(s) ==
  /\ pc[s] = "recv" /\ ~up[s]
  /\ CloseAll({s})
  /\ UNCHANGED <<db, hist>>

-----------------------------------------------------------------------------
(* Requests *)

\* What client c may send: it registers only while it has no ID and sends
\* the ID it has, all zeros (None) before registration.
Requests(c) ==
  {r \in Request : /\ r.id = me[c] /\ r.code \in Codes /\ r.valid \in Shapes
                   /\ r.code = "register" => me[c] = None
                   /\ r.code = "send" => lastId < MaxMsgs}

\* request_handler_main and register_handler up to the first database call.
Receive(s) ==
  /\ pc[s] = "recv" /\ up[s]
  /\ \E r \in Requests(owner[s]) :
       /\ req' = [req EXCEPT ![s] = r]
       /\ IF r.code = "version" \/ (r.code = "register" /\ ~r.valid)
          THEN Answer(s, ErrorResponse)
          ELSE /\ Goto(s, IF r.code = "register" THEN "addClient" ELSE "clientExists")
               /\ UNCHANGED resp
  /\ UNCHANGED <<db, lock, tx, seen, owner, up, batch, hist>>

\* Mutant: sqlite3.connect without a timeout that ever ends.
WriteFailsIfStale(s) ==
  /\ pc[s] \in Writes
  /\ tx[s] = "stale"
  /\ Answer(s, ErrorResponse)
  /\ batch' = [batch EXCEPT ![s] = {}]
  /\ UNCHANGED <<db, lock, tx, seen, owner, up, req, hist>>

\* A write that cannot have the lock within the 2 s timeout, or whose
\* transaction reads a stale snapshot, raises OperationalError: an error
\* response, and the transaction stays open.
WriteFails(s) ==
  /\ pc[s] \in Writes
  /\ ~CanWrite(s)
  /\ tx' = [tx EXCEPT ![s] = IF @ = "none" THEN "open" ELSE @]
  /\ Answer(s, ErrorResponse)
  /\ batch' = [batch EXCEPT ![s] = {}]
  /\ UNCHANGED <<db, lock, seen, owner, up, req, hist>>

-----------------------------------------------------------------------------
(* Registration *)

\* Mutants: the table clients without one of its two constraints.
ConflictOnId(id, name) == id \in Registered
ConflictOnName(id, name) == \E i \in Registered : clients[i] = name

\* The constraints of table clients: ID PRIMARY KEY, UserName UNIQUE.
Conflict(id, name) == id \in Registered \/ \E i \in Registered : clients[i] = name

\* The INSERT of add_client.  A name or an ID already in the table raises
\* IntegrityError: an error response, the transaction and its lock stay.
AddClient(s) ==
  /\ pc[s] = "addClient"
  /\ Execute(s)
  /\ \E id \in Ids :
       IF Conflict(id, req[s].name)
       THEN Answer(s, ErrorResponse)
       ELSE /\ Goto(s, "commitClient")
            /\ resp' = [resp EXCEPT ![s] = [code |-> "registered", id |-> id]]
  /\ UNCHANGED <<db, owner, up, req, batch, hist>>

\* Mutant: add_client without its commit().
SkipCommitClient(s) ==
  /\ pc[s] = "commitClient"
  /\ Goto(s, "respond")
  /\ UNCHANGED <<db, lock, tx, seen, owner, up, req, resp, batch, hist>>

CommitClient(s) ==
  /\ pc[s] = "commitClient"
  /\ Commit(s)
  /\ clients' = [clients EXCEPT ![resp[s].id] = req[s].name]
  /\ Goto(s, "respond")
  /\ UNCHANGED <<messages, lastId, owner, up, req, resp, batch, hist>>

-----------------------------------------------------------------------------
(* Every other request: the requester must exist, and is touched *)

ClientExists(s) ==
  /\ pc[s] = "clientExists"
  /\ Read(s)
  /\ IF req[s].id \in View(s)
     THEN Goto(s, "updateLastSeen") /\ UNCHANGED resp
     ELSE Answer(s, ErrorResponse)
  /\ UNCHANGED <<db, lock, owner, up, req, batch, hist>>

UpdateLastSeen(s) ==
  /\ pc[s] = "updateLastSeen"
  /\ Execute(s)
  /\ Goto(s, "commitLastSeen")
  /\ UNCHANGED <<db, owner, up, req, resp, batch, hist>>

\* The dispatch of request_handler_main; every handler first checks the
\* size of the request, send_message_handler after it knows the target.
Handler(r) ==
  CASE r.code = "list"      -> "listClients"
    [] r.code = "publicKey" -> "getPublicKey"
    [] r.code = "waiting"   -> "getWaiting"
    [] r.code = "send"      -> "targetExists"

\* Mutant: update_client_last_seen without its commit().
SkipCommitLastSeen(s) ==
  /\ pc[s] = "commitLastSeen"
  /\ IF req[s].code = "send" \/ (req[s].valid /\ req[s].code # "unknown")
     THEN Goto(s, Handler(req[s])) /\ UNCHANGED resp
     ELSE Answer(s, ErrorResponse)
  /\ UNCHANGED <<db, lock, tx, seen, owner, up, req, batch, hist>>

CommitLastSeen(s) ==
  /\ pc[s] = "commitLastSeen"
  /\ Commit(s)
  /\ IF req[s].code = "send" \/ (req[s].valid /\ req[s].code # "unknown")
     THEN Goto(s, Handler(req[s])) /\ UNCHANGED resp
     ELSE Answer(s, ErrorResponse)
  /\ UNCHANGED <<db, owner, up, req, batch, hist>>

-----------------------------------------------------------------------------
(* The client list and public keys *)

ListClients(s) ==
  /\ pc[s] = "listClients"
  /\ Read(s)
  /\ Answer(s, [code |-> "list", rows |-> View(s) \ {req[s].id}])
  /\ UNCHANGED <<db, lock, owner, up, req, batch, hist>>

GetPublicKey(s) ==
  /\ pc[s] = "getPublicKey"
  /\ Read(s)
  /\ Answer(s, IF req[s].to \in View(s) THEN [code |-> "publicKey"] ELSE ErrorResponse)
  /\ UNCHANGED <<db, lock, owner, up, req, batch, hist>>

-----------------------------------------------------------------------------
(* Waiting messages: SELECT, build the payload, DELETE by ID, commit *)

\* Mutants: the SELECT without its WHERE; with ORDER BY ID DESC LIMIT 1.
AllWaiting(id) == messages
NewestWaiting(id) == {m \in messages : m.to = id /\ \A n \in messages : n.to = id => n.id <= m.id}

Waiting(id) == {m \in messages : m.to = id}

\* to_bytes raises OverflowError on an ID beyond four bytes, before the
\* DELETE; a DELETE with too many placeholders fails before its BEGIN.
GetWaiting(s) ==
  /\ pc[s] = "getWaiting"
  /\ LET rows == Waiting(req[s].id) IN
       \/ /\ rows = {}
          /\ Answer(s, [code |-> "waiting"])
          /\ UNCHANGED batch
       \/ /\ (\E m \in rows : m.id > MaxMsgId) \/ Cardinality(rows) > MaxVars
          /\ Answer(s, ErrorResponse)
          /\ UNCHANGED batch
       \/ /\ rows # {}
          /\ \A m \in rows : m.id <= MaxMsgId
          /\ Cardinality(rows) <= MaxVars
          /\ batch' = [batch EXCEPT ![s] = rows]
          /\ Goto(s, "deleteMessages")
          /\ UNCHANGED resp
  /\ UNCHANGED <<db, lock, tx, seen, owner, up, req, hist>>

DeleteMessages(s) ==
  /\ pc[s] = "deleteMessages"
  /\ Execute(s)
  /\ Goto(s, "commitDelete")
  /\ UNCHANGED <<db, owner, up, req, resp, batch, hist>>

\* Mutants: delete by recipient instead of by ID; do not delete at all.
DeletedByRecipient(s) == Waiting(req[s].id)
DeletedNone(s) == {}

Deleted(s) == {m \in messages : m.id \in IdsOf(batch[s])}

CommitDelete(s) ==
  /\ pc[s] = "commitDelete"
  /\ Commit(s)
  /\ messages' = messages \ Deleted(s)
  /\ Answer(s, [code |-> "waiting"])
  /\ UNCHANGED <<clients, lastId, owner, up, req, batch, hist>>

-----------------------------------------------------------------------------
(* Sending a message *)

TargetExists(s) ==
  /\ pc[s] = "targetExists"
  /\ Read(s)
  /\ IF req[s].to \in View(s) /\ req[s].valid
     THEN Goto(s, "addMessage") /\ UNCHANGED resp
     ELSE Answer(s, ErrorResponse)
  /\ UNCHANGED <<db, lock, owner, up, req, batch, hist>>

AddMessage(s) ==
  /\ pc[s] = "addMessage"
  /\ Execute(s)
  /\ Goto(s, "commitMessage")
  /\ UNCHANGED <<db, owner, up, req, resp, batch, hist>>

\* The ID is assigned under the lock.  If it does not fit four bytes the
\* row is stored all the same and the sender gets an error.
CommitMessage(s) ==
  /\ pc[s] = "commitMessage"
  /\ Commit(s)
  /\ lastId' = lastId + 1
  /\ messages' = messages \cup {[id |-> lastId + 1, to |-> req[s].to]}
  /\ posted' = posted \cup {[id |-> lastId + 1, to |-> req[s].to]}
  /\ Answer(s, IF lastId + 1 <= MaxMsgId
               THEN [code |-> "sent", num |-> lastId + 1] ELSE ErrorResponse)
  /\ UNCHANGED <<clients, owner, up, req, batch, me, delivered, lost>>

-----------------------------------------------------------------------------
(* The response *)

\* The rows a thread has deleted and not yet handed to its client.
Held(s) == IF pc[s] = "respond" /\ resp[s].code = "waiting" THEN batch[s] ELSE {}

\* The loop of handle_client starts over.
Forget(s) ==
  /\ Goto(s, "recv")
  /\ req' = [req EXCEPT ![s] = None]
  /\ resp' = [resp EXCEPT ![s] = None]
  /\ batch' = [batch EXCEPT ![s] = {}]

\* sendall() succeeds and the client takes the response.
Respond(s) ==
  /\ pc[s] = "respond" /\ up[s]
  /\ me' = IF resp[s].code = "registered"
           THEN [me EXCEPT ![owner[s]] = resp[s].id] ELSE me
  /\ delivered' = [delivered EXCEPT ![owner[s]] = @ \cup Held(s)]
  /\ Forget(s)
  /\ UNCHANGED <<db, lock, tx, seen, owner, up, posted, lost>>

\* The client is gone: sendall() raises or the bytes reach nobody.  Either
\* way the thread has yet to notice (Disconnected) and close the database.
RespondFails(s) ==
  /\ pc[s] = "respond" /\ ~up[s]
  /\ lost' = lost \cup Held(s)
  /\ Forget(s)
  /\ UNCHANGED <<db, lock, tx, seen, owner, up, me, posted, delivered>>

\* The server process stops: its daemon threads die where they are.
Crash ==
  /\ \E s \in Sessions : pc[s] # "closed"
  /\ lost' = lost \cup UNION {Held(s) : s \in Sessions}
  /\ CloseAll(Sessions)
  /\ UNCHANGED <<db, me, posted, delivered>>

-----------------------------------------------------------------------------
\* What a thread does by itself once it has a request, or has lost its peer.
Thread(s) ==
  \/ Disconnected(s) \/ WriteFails(s)
  \/ AddClient(s) \/ CommitClient(s)
  \/ ClientExists(s) \/ UpdateLastSeen(s) \/ CommitLastSeen(s)
  \/ ListClients(s) \/ GetPublicKey(s)
  \/ GetWaiting(s) \/ DeleteMessages(s) \/ CommitDelete(s)
  \/ TargetExists(s) \/ AddMessage(s) \/ CommitMessage(s)
  \/ Respond(s) \/ RespondFails(s)

Next ==
  \/ \E s \in Sessions : Accept(s) \/ Drop(s) \/ Receive(s) \/ Thread(s)
  \/ Crash

Spec == Init /\ [][Next]_vars

\* The tables, the connections' transactions and the threads have their
\* types, and a thread that has ended has closed its database connection.
TypeOK ==
  /\ clients \in [Ids -> Names \cup {None}]
  /\ messages \subseteq Message
  /\ lastId \in Nat
  /\ lock \in Sessions \cup {None}
  /\ tx \in [Sessions -> {"none", "open", "fresh", "stale"}]
  /\ seen \in [Sessions -> SUBSET Ids]
  /\ pc \in [Sessions -> Steps]
  /\ owner \in [Sessions -> Clients \cup {None}]
  /\ up \in [Sessions -> BOOLEAN]
  /\ req \in [Sessions -> Request \cup {None}]
  /\ resp \in [Sessions -> Response \cup {None}]
  /\ batch \in [Sessions -> SUBSET Message]
  /\ me \in [Clients -> Ids \cup {None}]
  /\ posted \subseteq Message /\ lost \subseteq Message
  /\ delivered \in [Clients -> SUBSET Message]
  /\ \A s \in Sessions : pc[s] = "closed" => tx[s] = "none" /\ lock # s

-----------------------------------------------------------------------------
(* Correctness *)

\* A message is stored, or on its way to its recipient, or received, or was
\* in a response of waiting_messages_handler that reached nobody: no race of
\* a fetch with concurrent sends and fetches and no crash of the server loses
\* it in another way.
NoMessageVanishes ==
  \A m \in posted :
    \/ m \in messages \cup lost
    \/ \E s \in Sessions : m \in Held(s)
    \/ \E c \in Clients : m \in delivered[c]

\* Whatever waiting_messages_handler is about to send a client is younger
\* than all the client has received: nothing is delivered twice or out of
\* order, threads left over from an earlier connection notwithstanding.
DeliversInOrderOnce ==
  \A s \in Sessions : up[s] =>
    \A m \in Held(s), n \in delivered[owner[s]] : m.id > n.id

\* A client receives only messages to the ID it has, it has one only if the
\* table clients holds it, and no two clients have the same.
OnlyToRecipient ==
  \A c \in Clients :
    /\ \A m \in delivered[c] : m.to = me[c]
    /\ me[c] # None => /\ me[c] \in Registered
                       /\ \A d \in Clients \ {c} : me[d] # me[c]

\* The handlers behind the dispatch of request_handler_main run outside any
\* transaction, although failed writes leave transactions open and nothing
\* rolls them back: what they read is what is committed, never a snapshot.
HandlersSeeCommittedState ==
  \A s \in Sessions : pc[s] \in Handlers => tx[s] = "none" /\ lock # s

\* A thread about to answer anything but an error has left no transaction or
\* lock behind, and what it answers is committed: the registration under the
\* ID it returns, the message under the number it returns, the deletion of
\* the rows it hands out.  Failed writes, stale snapshots and commits of
\* other threads end in errors, never in a success that is rolled back when
\* the connection is closed.
AcknowledgedIsCommitted ==
  \A s \in Sessions :
    pc[s] = "respond" /\ resp[s].code # "error" =>
      /\ tx[s] = "none" /\ lock # s
      /\ resp[s].code = "registered" => clients[resp[s].id] = req[s].name
      /\ resp[s].code = "sent" => [id |-> resp[s].num, to |-> req[s].to] \in posted
      /\ resp[s].code = "waiting" => batch[s] \cap messages = {}

\* The table clients has the UserName UNIQUE constraint of _create_tables,
\* in every state the threads' commits lead to.
NamesUnique ==
  \A i, j \in Registered : clients[i] = clients[j] => i = j

\* A registration is never overwritten, renamed or lost, by a crash either.
RegistrationsPersist == [][\A i \in Registered : clients'[i] = clients[i]]_vars

\* The server implements the mailbox: taken is what no longer is in the
\* table messages, out is what was taken and not received.
Abstract == INSTANCE Mailbox WITH
  addr <- me, last <- lastId, waiting <- messages,
  out <- (posted \ messages) \ UNION {delivered[c] : c \in Clients}

\* The threads, transactions and crashes of the server together only ever
\* enroll clients, post messages, take the oldest of a mailbox for delivery,
\* and deliver them once, in order and to the right client.
ImplementsMailbox == Abstract!Spec

\* Once it has a request, or has lost its peer, a thread runs on: Python's
\* threads are scheduled fairly and a lock is awaited for 2 s at most.
Fairness == \A s \in Sessions : WF_vars(Thread(s))
FairSpec == Spec /\ Fairness

\* handle_client answers every request it has received, or its connection
\* is closed: no thread waits for another one for ever.
EveryRequestAnswered ==
  \A s \in Sessions : pc[s] \notin {"recv", "closed"} ~> pc[s] \in {"recv", "closed"}

\* A thread that has taken the write lock of the database gives it back,
\* as "handling multiple clients concurrently" needs.
WriteLockReturned == \A s \in Sessions : lock = s ~> lock # s
=============================================================================
