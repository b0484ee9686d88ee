------------------------------ MODULE Identity ------------------------------
(***************************************************************************)
(* How a client program gets its identity and keeps it: registration       *)
(* (ClientActions.cpp, request_handler.py), the file my.info in which the  *)
(* ID, the name and the private key survive the program (FileManager.cpp), *)
(* and the polling thread that reads the ID (PullRequests.cpp).  Programs  *)
(* crash and are started again; a request they have sent stays on its way. *)
(***************************************************************************)
EXTENDS Naturals, FiniteSets

CONSTANTS
  Clients,   \* the installations of the client program
  Names,     \* the names users enter
  Cancel,    \* the input "0", with which a user cancels
  None,      \* no name, no key, no ID, no file, no response
  Empty,     \* a my.info that was truncated and not yet written
  Torn,      \* an ID of which only some bytes have been written
  MaxKeys    \* bound: key pairs generated, one per registration attempt

\* What my.info holds, and a row of the table clients: a public key stands for
\* the private key it belongs to.
Row == [id : Nat, name : Names \cup {Cancel}, key : Nat \ {0}]

ASSUME IdentityAssumption ==
  /\ MaxKeys \in Nat
  /\ Cancel \notin Names \cup {None, Empty, Torn}
  /\ None # Empty /\ Torn \notin {None, Empty}
  /\ {None, Empty, Torn} \cap (Names \cup Nat \cup Row) = {}

VARIABLES
  pc,        \* per client: "off", or the step its main thread takes next
  id, name, key,  \* per client: ClientContext's _clientID, _userName, _privateKey
  file,      \* per client: my.info: None, Empty, or what it holds
  rsp,       \* per client: the ID in the server's response, None for an error
  asked,     \* per client: the attempt whose answer it waits for, or None
  keys,      \* the number of key pairs generated
  requests,  \* registration requests on their way to the server
  table,     \* the server's table clients
  poll,      \* per client: the ID of the polling thread's last request
  orphans    \* history: keys of attempts a crash or a failed save cut short

memory == <<id, name, key>>
vars   == <<pc, memory, file, rsp, asked, keys, requests, table, poll, orphans>>

Steps == {"off", "menu", "waiting", "answered", "halfSet", "set", "truncated"}
Valid(f) == f \notin {None, Empty}

Init ==
  /\ pc = [c \in Clients |-> "off"]
  /\ id = [c \in Clients |-> None] /\ name = [c \in Clients |-> None]
  /\ key = [c \in Clients |-> None] /\ file = [c \in Clients |-> None]
  /\ rsp = [c \in Clients |-> None] /\ poll = [c \in Clients |-> None]
  /\ asked = [c \in Clients |-> None]
  /\ keys = 0 /\ requests = {} /\ table = {} /\ orphans = {}

Goto(c, step) == pc' = [pc EXCEPT ![c] = step]
Set(f, c, v)  == [f EXCEPT ![c] = v]

\* loadMyInfo: a file that is missing or incomplete leaves the client without
\* an identity, ready to register.
Start(c) ==
  /\ pc[c] = "off"
  /\ Goto(c, "menu")
  /\ IF Valid(file[c])
     THEN /\ id' = Set(id, c, file[c].id)
          /\ name' = Set(name, c, file[c].name)
          /\ key' = Set(key, c, file[c].key)
     ELSE UNCHANGED memory
  /\ UNCHANGED <<file, rsp, asked, keys, requests, table, poll, orphans>>

-----------------------------------------------------------------------------
(* handleRegister *)

\* Mutants: no check of hasClientID; a private key that is there is kept.
Always(c) == TRUE
FirstKey(c, k) == IF key[c] = None THEN k ELSE key[c]

MayRegister(c) == id[c] = None
PrivateKey(c, k) == k

\* The name and the private key are set before the server has accepted them.
\* getValidUsername returns "0" for a user who cancels, and handleRegister
\* does not look.
Register(c) ==
  /\ pc[c] = "menu" /\ MayRegister(c) /\ keys < MaxKeys
  /\ keys' = keys + 1
  /\ \E n \in Names \cup {Cancel} :
       /\ name' = Set(name, c, n)
       /\ requests' = requests \cup {[client |-> c, name |-> n, key |-> keys + 1]}
  /\ key' = Set(key, c, PrivateKey(c, keys + 1))
  /\ asked' = Set(asked, c, keys + 1)
  /\ Goto(c, "waiting")
  /\ UNCHANGED <<id, file, rsp, table, poll, orphans>>

\* Mutant: the table clients without UNIQUE.
AnyName(n) == TRUE
NameFree(n) == \A row \in table : row.name # n

\* register_handler: a new row, or an error for a name that is taken or for
\* any database error.  The answer reaches the program that asked, if it
\* still runs.
Serve(r) ==
  /\ requests' = requests \ {r}
  /\ \E i \in {None, Cardinality(table) + 1} :
       /\ i # None => NameFree(r.name)
       /\ table' = IF i = None THEN table
                   ELSE table \cup {[id |-> i, name |-> r.name, key |-> r.key]}
       /\ IF pc[r.client] = "waiting" /\ asked[r.client] = r.key
          THEN rsp' = Set(rsp, r.client, i) /\ Goto(r.client, "answered")
          ELSE UNCHANGED <<rsp, pc>>
  /\ UNCHANGED <<memory, file, asked, keys, poll, orphans>>

ErrorAnswer(c) ==
  /\ pc[c] = "answered" /\ rsp[c] = None
  /\ Goto(c, "menu")
  /\ UNCHANGED <<memory, file, rsp, asked, keys, requests, table, poll, orphans>>

-----------------------------------------------------------------------------
(* responseRegister: setClientID, then saveMyInfo *)

\* The 16 bytes are copied without a lock, while the polling thread reads.
BeginSetID(c) ==
  /\ pc[c] = "answered" /\ rsp[c] # None
  /\ id' = Set(id, c, Torn)
  /\ Goto(c, "halfSet")
  /\ UNCHANGED <<name, key, file, rsp, asked, keys, requests, table, poll, orphans>>

EndSetID(c) ==
  /\ pc[c] = "halfSet"
  /\ id' = Set(id, c, rsp[c])
  /\ rsp' = Set(rsp, c, None)
  /\ Goto(c, "set")
  /\ UNCHANGED <<name, key, file, asked, keys, requests, table, poll, orphans>>

\* The file is truncated when it is opened ...
Open(c) ==
  /\ pc[c] = "set"
  /\ file' = Set(file, c, Empty)
  /\ Goto(c, "truncated")
  /\ UNCHANGED <<memory, rsp, asked, keys, requests, table, poll, orphans>>

\* ... or cannot be opened or written, which the program only reports ...
SaveFails(c) ==
  /\ pc[c] \in {"set", "truncated"}
  /\ orphans' = orphans \cup {key[c]}
  /\ Goto(c, "menu")
  /\ UNCHANGED <<memory, file, rsp, asked, keys, requests, table, poll>>

\* Mutant: the three lines are not flushed.
WriteNothing(c) == file[c]
Contents(c) == [id |-> id[c], name |-> name[c], key |-> key[c]]

\* ... and its three lines are written when it is closed.
Write(c) ==
  /\ pc[c] = "truncated"
  /\ file' = Set(file, c, Contents(c))
  /\ Goto(c, "menu")
  /\ UNCHANGED <<memory, rsp, asked, keys, requests, table, poll, orphans>>

-----------------------------------------------------------------------------
\* pullWaitingMessagesLoop: hasClientID, then a request with getClientID.
Poll(c) ==
  /\ pc[c] # "off" /\ id[c] # None
  /\ poll' = Set(poll, c, id[c])
  /\ UNCHANGED <<pc, memory, file, rsp, asked, keys, requests, table, orphans>>

\* The program ends and its memory is gone.
Forget(c) ==
  /\ Goto(c, "off")
  /\ id' = Set(id, c, None) /\ name' = Set(name, c, None) /\ key' = Set(key, c, None)
  /\ rsp' = Set(rsp, c, None) /\ poll' = Set(poll, c, None)
  /\ asked' = Set(asked, c, None)
  /\ UNCHANGED <<file, keys, requests, table>>

Exit(c) ==
  /\ pc[c] = "menu"
  /\ Forget(c)
  /\ UNCHANGED orphans

\* It is killed, or the connection breaks, while it is registering.
Crash(c) ==
  /\ pc[c] \notin {"off", "menu"}
  /\ orphans' = orphans \cup {key[c]}
  /\ Forget(c)

Next ==
  \/ \E c \in Clients :
       \/ Start(c) \/ Register(c) \/ ErrorAnswer(c) \/ BeginSetID(c) \/ EndSetID(c)
       \/ Open(c) \/ SaveFails(c) \/ Write(c) \/ Poll(c) \/ Exit(c) \/ Crash(c)
  \/ \E r \in requests : Serve(r)

Spec == Init /\ [][Next]_vars

-----------------------------------------------------------------------------
(* Correctness *)

\* The programs' memory and files have their types and hold keys that have been
\* generated, a program that is off remembers nothing, one that waits for the
\* server has asked it with the key it keeps, and IDs and names are unique at
\* the server.
TypeOK ==
  /\ pc \in [Clients -> Steps] /\ keys \in 0..MaxKeys
  /\ id \in [Clients -> {None, Torn} \cup Nat] /\ poll \in [Clients -> {None, Torn} \cup Nat]
  /\ name \in [Clients -> {None, Cancel} \cup Names] /\ rsp \in [Clients -> {None} \cup Nat]
  /\ key \in [Clients -> {None} \cup 1..keys] /\ asked \in [Clients -> {None} \cup 1..keys]
  /\ file \in [Clients -> {None, Empty} \cup Row]
  /\ requests \subseteq [client : Clients, name : Names \cup {Cancel}, key : 1..keys]
  /\ table \subseteq Row /\ orphans \subseteq 1..keys
  /\ \A c \in Clients :
       /\ pc[c] = "off" => id[c] = None /\ name[c] = None /\ key[c] = None
       /\ pc[c] = "waiting" => asked[c] = key[c] /\ key[c] # None
  /\ \A r1, r2 \in table : r1.id = r2.id \/ r1.name = r2.name => r1 = r2

\* An identity, in memory or in my.info, is the server's: its name is the one
\* registered under its ID and its private key fits the public key there,
\* however many attempts have failed and set name and key before.
IdentityMatchesServer ==
  \A c \in Clients :
    /\ Valid(file[c]) => file[c] \in table
    /\ pc[c] \notin {"off", "halfSet"} /\ id[c] # None
         => [id |-> id[c], name |-> name[c], key |-> key[c]] \in table

\* Whoever is registered can log in again: its row is in some my.info or about
\* to be written there, unless a crash or a failed save came between.
RegistrationsUsable ==
  \A row \in table :
    \/ row.key \in orphans
    \/ \E c \in Clients : (Valid(file[c]) /\ file[c] = row) \/ (pc[c] # "menu" /\ key[c] = row.key)

\* A client with a valid my.info keeps that identity for ever.
IdentityKept == [][\A c \in Clients : Valid(file[c]) => file'[c] = file[c]]_vars

\* The polling thread never sends part of an ID (ClientContext.h: thread-safe
\* access and updates to shared data).
PollsWithWholeID == \A c \in Clients : poll[c] # Torn
=============================================================================
