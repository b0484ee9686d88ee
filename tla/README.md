# A verification development of MessageU

MessageU is a store-and-forward messenger: a Python server with an SQLite
database, and C++ clients that exchange RSA-wrapped symmetric keys and
AES-encrypted texts through it. This directory holds TLA+ modules of its
concurrent core and its protocol, the TLC runs that check them, and TLAPS proofs.
Paths below are relative to the repository (`src/Server`, `src/Client`).

Run a check with `tlc -config MCServerMail.cfg MCServer.tla`, a proof with
`tlapm ServerMailProofs.tla`.

## Inventory

| part | state | operations | talks to |
|---|---|---|---|
| server threads (`main.py`, `connection.py`) | one daemon thread, socket and database connection per client connection | accept; receive, handle, send; end | handlers by call, clients by TCP |
| request handlers (`request_handler.py`) | none of their own | register, list, public key, waiting messages, send message | database by call |
| database (`database.py`) | tables `clients` and `messages`; per connection an implicit transaction | insert, select, update, delete, commit, close | SQLite file shared by all threads |
| server configuration (`get_port.py`) | `myport.info.txt` | read the port | file |
| client main thread (`Main.cpp`, `ClientActions.cpp`) | `stopFlag` | eight menu commands, exit, fatal end | connection and context by call |
| menu (`ClientMenu.cpp`) | none | read lines until one is a number of the menu | standard input |
| polling thread (`PullRequests.cpp`) | none | a poll every 60 s until `stopFlag` | the same connection and context |
| connection (`ClientConnection.cpp`) | one socket, `_connMutex` | `sendAndReceive` | server |
| responses (`ResponseClient.cpp`) | none | process each of six responses | context |
| context (`ClientContext.cpp`) | ID, name, private key (no mutex); `_friends` (`_friendsMutex`, per call) | getters, setters | both threads |
| identity file (`FileManager.cpp`) | `my.info`, `server.info.txt` | load, save | context |
| encoding (`Message.cpp`, `Utilities.cpp`, `Constants.h`, `MessageCodes.h`) | none | little-endian, hexadecimal, name check | |
| cryptography (`*Wrapper.cpp`) | none | calls of Crypto++ | |

What is hard here, and what makes each part correct:

* **Server.** Threads interleave between the database calls of a handler. A
  fetch is a SELECT and a later DELETE, with stores and other fetches of the
  same mailbox between them; a failed write leaves its implicit transaction
  open, because the code never calls `rollback()`, and with it perhaps a stale
  snapshot or the write lock; responses get lost and the process may die after
  any step. Correct means: unique names, registrations for ever, messages lost
  in no way but with a lost response, delivered once, in order, to their
  recipient only, and an answer to every request.
* **Clients.** Two threads share a connection without request numbers and
  process responses outside its mutex; the cache is locked per call, but used
  in check-then-act sequences. Correct means: answers find their request, no
  message is dropped, keys and texts fit, commands and exit terminate.
  Programs are killed and restarted with an empty cache, requests are refused,
  connections break, and the server may handle a request of a connection that is
  gone after the client is back: keys and texts may be lost by that, or be of no
  use because two friends send each other keys at the same time, and by nothing
  else.
* **Link.** Requests and responses have no delimiter but the payload size in
  their headers, and arrive in pieces; two programs in two languages check the
  same port, encode and decode the same layouts. Correct means: whole, once,
  and what was meant, or the connection ends.
* **Identity.** Memory, file and server must agree about who a client is, over
  failed registrations, crashes between the steps and restarts.

`PROJECT.json` lists the hazards of the code line by line, with the properties
that cover each of them or the reason why none does.

## Modules

| module | models |
|---|---|
| `Mailbox` | abstract specification: what the server promises |
| `Server` | threads, handlers, database; implements `Mailbox` |
| `Client` | both threads of each client, connection, cache, restarts; the server is one atomic step per request; uses `Mailbox` |
| `Identity` | registration, `my.info`, crash and restart |
| `Exchange` | abstract specification: what `sendAndReceive` and the server's receive loop promise |
| `Wire` | layouts of requests and responses, how they are read, names and the hexadecimal ID |
| `Link` | one client and its server thread: configuration, menu, byte streams; implements `Exchange`, extends `Wire` |
| `MCServer`, `MCClient`, `MCIdentity`, `MCLink` | model-checking instances |
| `ServerProofs`, `ServerMailProofs` | theorems about `Server`: types, registrations; messages |
| `ClientProofs`, `ClientMailProofs`, `ClientKeyProofs` | theorems about `Client`: types, requests and responses; messages; keys |
| `IdentityProofs` | theorems about `Identity` |
| `WireProofs`, `LinkProofs` | theorems about `Wire`: what is written is what is read; and about `Link`: menu, ports, streams, ID |

The modules compose through the two abstract specifications.

* `Server` and `Client` handle a request and a response as one value each.
  That is what `Exchange` promises, and `Link`, where they are bytes, implements
  it (`ImplementsExchange`).
* `Client` has the server as one step per request. `Server`, where a request is
  many steps of one thread among others, implements `Mailbox`
  (`ImplementsMailbox`), and every step of the clients and their atomic server
  is one of the same `Mailbox` (`UsesMailbox`). The numbers of the messages are
  the server's `lastId`, what is on the way or lost is its `out`.

**Server.** `pc[s]` names the database call the thread of session `s` makes
next: `recv` → (`addClient` → `commitClient` | `clientExists` →
`updateLastSeen` → `commitLastSeen` → a handler) → `respond` → `recv`. A
writing call is two steps, `Execute` (the lock is taken) and `Commit`.
SQLite is not in the repository; it is modelled from how `database.py` uses it
(WAL journal, Python's implicit BEGIN before INSERT, UPDATE and DELETE,
timeout of 2 s): `tx[s]` is the state of the connection's transaction, `lock`
the holder of the write lock, `seen[s]` the registered IDs in its snapshot.
`WriteFails` is every `OperationalError` of a write: the lock is held by
another connection for the whole timeout, or the snapshot is stale. It leaves
the transaction open, as the code does. `AddClient` with a conflict is the
`IntegrityError`: it leaves transaction *and* lock. `Accept`, `Drop` and
`Receive` are the clients: they connect, vanish, and send whatever a client
program may send in its state, with the ID it was told; a client that was cut
off may connect again while the old thread still runs, which is where two
threads serve one mailbox. `Crash` ends the process. Left out, because the
server never looks at them: public keys, contents, senders, types and
`LastSeen`. `valid` stands for all checks of size, type and text of a request.

**Client.** Per client and thread, `pc` goes from `menu` or `sleep` over `send`
(waiting for `_connMutex`), `receive` (holding it) and `process` back. A list
of friends or of waiting messages is processed record by record; `LearnName`,
`Check`, `Base` and the store steps are the separately locked calls
`setFriendBase`, `tryGetFriendCopy` and `setFriend...Key`. A key is `[by, to, n]`,
a text is the key it was encrypted with. All clients are registered, and any of
them may send keys. The server is the step `Serve`, which may refuse
(`Refusals`). `Break` loses what is on the wire (`Breaks`); `Crash` besides loses
the cache and what is being processed, and `Restart` starts the program with an
empty cache (`Restarts` are the clients to which that happens). A request that
the server has received when its client goes away is not lost: it is in
`leftover` (`LeaveBehind`), and `ServeLeftover` handles it at any time later, also
after the client has connected again (`main.py:38-43`). `Slots` bounds how many
there are of a client at once. The server's other concurrency is the subject of
`Server`.

Four history variables tell apart what the properties have to: `dropped`, the
messages lost on their way; `had`, the keys a running program has had; `spoiled`,
the keys that were refused, or lost with a connection, or had been had by a
program that has ended; and `mixed`, the clients whose two threads have had
messages in hand at the same time. `mixed` grows only in `Receive`, when a
batch reaches one thread while the other is still processing one.

**Link.** A byte is a number; a line typed is a number or `NaN`; a configuration
file is what its lines hold. `files` is chosen at the start. `ReadMenu` and the
actions after it are the menu and `handleMenuChoice` with its prompts,
`createBuffer` writes a request, `ServerReceives` and `ClientReceives` take any
number of the bytes that are there, at most as many as `receive_exact` and
`receiveExact` ask for: first the header, then what the payload size in it
says. `Break` cuts both streams at some byte; the ends of what is left are met
later, by `ServerGivesUp` and `ClientGivesUp`. `Handle` parses the request
(`ParseRequest`), chooses one of the responses the handlers may give, with an
error always among them, and `Process` parses it. The server's database is
the table of IDs and names. The widths of integers, header sizes and codes are
those of the code; IDs, names and keys are `IdSize`, `NameSize`, `KeySize` bytes.

**Identity.** `Register` sets name and private key before the server answers;
`BeginSetID`/`EndSetID` are the unlocked copy of the ID, between which the
polling thread may read it (`Torn`); `Open` truncates `my.info`, `Write` fills
it, `SaveFails` is either of them failing. `Crash` is a kill or a fatal error. Requests of dead
programs still reach the server.

## Runs

Every bound is a CONSTANT. Two threads or clients are the least with which
anything interleaves; the proofs below cover any number.

| run | distinct states | shows |
|---|---|---|
| `server_mail` | 181 000 | `TypeOK`, `NoMessageVanishes`, `DeliversInOrderOnce`, `ImplementsMailbox`, and `EveryRequestAnswered` under `FairSpec`, with one client that reconnects, two threads, three messages. `MaxMsgId = 2`: the third ID overflows its field; `MaxVars = 1`: a batch of two is already too large to delete |
| `server_clients` | 1 195 000 | `OnlyToRecipient`, `AcknowledgedIsCommitted`, `HandlersSeeCommittedState`, `NamesUnique`, `RegistrationsPersist` with two clients that send every kind of request, and two names and two IDs that collide |
| `server_lock` | violated | `WriteLockReturned` |
| `client_keys` | 1 166 000 | `TypeOK`, `KeysAgree`, `NoMessageDropped`, `TextsFitKeys`, `UsesMailbox`: two sends in all of either side (a key and its successor, two keys that cross, or a key and a text), with refusals, kills and restarts of one side, and one request of it handled late |
| `client_polls` | 1 529 000 | `KeysAgree`, `TextsFitKeys`, `OneBatchInOrder`, `UsesMailbox`: one side polls, and three sends in all of either side (a key, the friend's text under it, and a new key) |
| `client_threads` | 119 000 | `ResponseMatchesRequest`, `NoMessageDropped`, `ExitTerminates`, `CommandsAnswered` under `FairSpec`: polls of one side, breaks, exits. A request handled late changes neither threads nor connections, so there is none here (`Slots` is empty) |
| `client_order`, `client_names`, `client_texts` | violated | `ProcessedInOrder`, `NamesKept`, `TextsReadable` |
| `link` | 218 000 | `ImplementsExchange`, `RequestsWereTyped`, `IdKept`, `SamePortsMeet`, `CallsReturn`, `TypeOK` under `FairSpec`, with ports at and beyond both limits in either file, every menu number and some that are none, names of one byte (`0` too), at the limit, too long and not ASCII, and up to two waiting messages (`MaxWaiting`) of different sizes |
| `identity` | 54 000 | `TypeOK`, `IdentityMatchesServer`, `RegistrationsUsable`, `IdentityKept`: two installations, one name and `0`, three attempts in all |
| `identity_torn` | violated | `PollsWithWholeID` |

`link` uses IDs of two bytes, names of up to two and keys of one: an offset that
is wrong by one reads a neighbouring field there as it does with 16, 254 and
160, and every way to cut a request or response is tried. One of the bytes of
an ID is zero and one has two different digits; the number of one waiting
message fills the first and the last of its four bytes, that of a stored one
(`StoredNo`) the first two.

Deadlock is checked where the system cannot stop. `client_threads` and `link`
switch the check off: a program that has exited, that was turned away, or whose
input has ended does nothing.

**What the violations show.**

* `server_lock`: a registration under a name that is taken answers with an
  error and keeps the database's write lock until its client's next successful
  write or disconnect (`request_handler.py:133`, no `rollback()`). Until then
  no other client can register, send or fetch, and since every request but a
  registration updates `LastSeen`, none can do anything at all.
* `client_order`: responses are processed outside `_connMutex`; a batch the
  polling thread has fetched may be processed after a younger one of the main
  thread, and an old key then replaces a new one.
* `client_names`: `handleSymmetricKeyMessage` makes an entry with an empty name
  for an unknown friend, after the other thread has stored the name.
* `client_texts`: a friend gets a key, sends a text under it, and before the text
  is fetched its reader sends the friend a new key. `setFriendSymmetricKey` keeps
  one key per friend and replaces it at once (`ClientActions.cpp:266`), so the
  text cannot be read, although nobody did anything wrong and nothing was lost.
* `identity_torn`: the polling thread may send half an ID.

Without a run: `0` at the registration prompt registers the user `0`, although the
comment before `getValidUsername` calls it a cancellation
(`ClientActions.cpp:93-94`, `:122`). `Identity` models it as the code has it.

**What keys may do.** A key whose message is refused or lost is in use by its
sender all the same, so that its texts are unreadable until it sends another
one. Friends who send each other a key at the same time end with each other's.
And the texts of a friend whom one sends a new key may be on their way. `KeysAgree`
and `TextsFitKeys` name these cases and no others: when a text meets a key that
does not fit, one of the two was lost or forgotten (`spoiled`), or was made by the
reader; when two friends at rest have different keys, one of these was lost or
forgotten, or each has the key the other made (`Crossed`). Clients in `mixed` are
left out of both, since a batch that overtakes another one may bring back an old
key (`client_order`). So texts that are sent in one direction, with the keys for
them, fit, key after key, whichever thread fetches them, as long as no key is
lost and the two threads take turns.

**Fairness.** `Server!Fairness` is weak fairness of each thread once it has a
request or has lost its peer: the interpreter schedules all threads, and no
database call blocks for more than 2 s, after which `WriteFails` is enabled.
Clients owe nothing: they need not send, answer or disconnect.
`Client!Fairness` has the server answer (weak fairness of `Serve`) and each thread
run with strong fairness (`Run`): the threads compete for `_connMutex`, and the
polling thread leaves it free for 60 s between two requests, so that a thread
that keeps trying to lock it succeeds. `Link!FairSpec` is weak fairness of the
client's and of the server's reading and processing: bytes under way arrive, or
the connection is cut and both ends notice. Users owe nothing anywhere: they
need not type, and neither polls nor breaks need happen.

## Proofs

Each theorem holds for every value of the constants that satisfies the module's
assumptions: that the values which stand for "nothing" are no clients, names,
keys or the like, that bounds are natural numbers, and what TLA+ cannot know of
an unspecified constant's type. `Link` besides assumes of what it is given that
it fits: IDs and keys have their width, whatever is asked or answered is shorter
than 2^32 bytes, and names typed hold no byte 0 (`LinkAssumption`,
`SizeAssumption`). A terminal delivers none; `isValidUsername` would let it pass,
and the server would cut the name there. TLC evaluates all assumptions on every
run.

| module | theorem | states |
|---|---|---|
| `ServerProofs` | `TypeCorrect` | `Spec => []TypeOK` |
| | `HandlersCommitted` | `Spec => []HandlersSeeCommittedState` |
| | `NamesStayUnique` | `Spec => []NamesUnique` |
| | `RegistrationsNeverChange` | `Spec => RegistrationsPersist` |
| `ServerMailProofs` | `NothingVanishes` | `Spec => []NoMessageVanishes` |
| | `InOrderOnce` | `Spec => []DeliversInOrderOnce` |
| | `RightRecipient` | `Spec => []OnlyToRecipient` |
| | `AcknowledgedCommitted` | `Spec => []AcknowledgedIsCommitted` |
| | `ServerImplementsMailbox` | `Spec => ImplementsMailbox` |
| `ClientProofs` | `TypeCorrect` | `Spec => []TypeOK` |
| | `ResponsesMatch` | `Spec => []ResponseMatchesRequest` |
| `ClientMailProofs` | `MessagesAccountedFor` | `Spec => []NoMessageDropped` |
| | `OneThreadInOrder` | `Spec => OneBatchInOrder` |
| | `ClientsUseMailbox` | `Spec => UsesMailbox` |
| `ClientKeyProofs` | `TextsFindTheirKey` | `Spec => TextsFitKeys` |
| | `FriendsAgree` | `Spec => []KeysAgree` |
| `IdentityProofs` | `TypeCorrect` | `Spec => []TypeOK` |
| | `IdentityIsKept` | `Spec => IdentityKept` |
| | `IdentityMatches` | `Spec => []IdentityMatchesServer` |
| | `RegistrationsAreUsable` | `Spec => []RegistrationsUsable` |
| `WireProofs` | `ReadRequest` | `ParseRequest(createBuffer(r)) = r` for every request whose payload size fits in four bytes |
| | `ReadReply` | `ParseReply(_build_response(a))` is `a` without the numbers of messages, for every such response |
| | `ReadHex` | `uuidHex32ToBytes16(bytesToHex(id)) = id` |
| `LinkProofs` | `PortsMeet` | `Spec => []SamePortsMeet` |
| | `RequestsTyped` | `Spec => RequestsWereTyped` |
| | `TypeCorrect` | `Spec => []TypeOK` |
| | `IdIsKept` | `Spec => []IdKept` |
| | `LinkImplementsExchange` | `Spec => ImplementsExchange` |

Each argument is a chain of invariants, each inductive relative to those before
it, with a lemma that has a step per action.

**Server.**

1. `TypeInv`: `TypeOK`, and that the request of a thread has the fields its
   next call reads (`ControlOK`).
2. `LockInv`: a thread between `execute()` and `commit()` holds the write lock
   with a fresh snapshot. So no two threads are there at once, and the row an
   INSERT has checked against the table is still unique at its commit.
3. `HandlersSeeCommittedState`: the commit of `update_client_last_seen` ends
   whatever transaction a failed write has left open.
4. `PeerInv`: a client has at most one connection, and a request carries the
   ID its client has.
5. `RegistrationInv`: what a client has been told, or is about to be, is in
   the table, once. It implies `NamesUnique` step by step, and that a commit
   never overwrites a row.
6. `StoreInv`: message IDs are unique and at most `lastId`, and whatever is
   stored, selected or received was posted.
7. `BatchInv`: the rows a thread has selected are its requester's and older
   than whatever else the table holds for it, while other threads store and
   delete; after its own commit the table holds none of them.
8. `DeliveryInv`: what a client has received is to its ID, older than
   everything stored for it and than the batch of its live connection. A thread
   of an earlier connection may hold the same rows, but delivers nothing.
9. `AnswerInv`: a success about to be sent comes from a thread without
   transaction or lock (from 3: only handlers and their commits build one), and
   its row is there (from 5: no commit of another thread overwrites it). With
   `BatchInv` it is `AcknowledgedIsCommitted`.

`ServerImplementsMailbox` maps the commits to `Enroll`, `Post` and `Take`, the
response to `Deliver`, and everything else to stuttering; it needs all of them.

**Client.** `TypeInv` is one invariant in several parts, because each needs the
others' previous values:

1. `ControlOK`: `_connMutex` is held by a thread exactly while it waits for a
   response; both threads of a program end together.
2. `ThreadsOK`: a thread has a request from its menu choice to its return, a
   response while it processes one, and that response is an error or of the
   request's kind. Where it is about to store a key there is one, of a friend
   that is somebody else.
3. `ConnectionsOK`: a connection is empty, or carries the one request of the
   thread that holds `_connMutex`, or the one response to it. This is why
   responses need no request numbers: `ResponsesMatch` is 1 to 3. `Receive`
   moves the response from the connection into 2.
4. `BrokenOK`: nothing is on a lost connection. `LeftoverOK`: what the server
   handles late is a request its client could have sent.
5. `MailboxesOK`: what was stored, fetched, processed or lost has a number the
   server has given, and no client has mail from itself.
6. `FriendsOK`, `KeysOK`: a friend with a name or key has an entry, and no
   client is its own friend, whatever the two threads store between the checks
   of each other.

`FunctionsOK` says that the variables the other parts only apply are functions.
Together they are `TypeOK`.

`ClientMailProofs` first proves what steps do to messages at all (`StepMoves`):
every step of the clients leaves mailboxes, lists under way and history as they
are, stores one message, fetches a mailbox for the thread that waits or in vain
for one that has gone, hands a list to the thread that holds `_connMutex`,
processes the head of a list, or loses lists (`Move`). Every later proof goes over
these cases instead of the actions:

1. `AllHeld`: whoever holds a message in whatever form does not let go of it
   but to the next holder, which is `NoMessageDropped`.
2. `OrderOK`: of every client, each list is in order, the mailbox is younger than
   all that was fetched, and no message is in two places (`Once`). Of a client
   that is not in `mixed`, one thread at most has messages in hand, and these are
   younger than what was processed and older than what is on the way
   (`OneHand`). `OneThreadInOrder` follows.
3. `MailboxStep`: under the refinement mapping (unions over clients) `Stored` is
   `Post`, `Fetched` and `Taken` are `Take`, `Processed` is `Deliver`, everything
   else stutters. `Deliver` asks that a message be younger than all delivered
   before: that is `OneHand`. A client in `mixed` has lost the order, as
   `client_order` shows; for it `Processed` is `Overtake`, which still takes the
   message out of `out`, so that nothing is delivered twice: that is `Once`.

`ClientKeyProofs` is about any number of clients, all of which may poll, send
keys, break, be refused, killed and restarted, with any number of requests
handled late. The mail of a client (`Mail`) is what waits for it, is on its way and
in its hands.

1. `KeySteps` proves what steps do to keys, mail and the commands under way:
   nothing (`Steady`), or a command is given (`Commanded`), one is stored, at once
   or late (`Posted`), a message is processed (`Handled`), mail or commands are
   lost or refused (`Spoilt`), or a program ends (`Forgotten`). It needs
   `KnownOK`: a thread about to store a key finds the entry its check found or
   made, so that `setFriendSymmetricKey` never drops a key. And it needs
   `StuckOK`: a client that has left behind a text under a key of its own gives no
   command any more, as its main thread ends with the connection, and with the
   program all its keys are forgotten.
2. `HadOK`, `SymOK`, `MailOK`, `CommandsOK`: the keys a program has had are numbered
   in the order in which they were made; a key in the cache is one the program
   has had, made by one of the two friends, and if by itself the newest; a key
   that is brought was made by the one who brings it.
3. `Accounted`: a key that is not spoiled is about to be sent, or in the friend's
   mail, or the friend has had it.
4. `SendingOK`, `WaitingOK`: such keys travel once and in the order of their
   numbers, and a text travels behind its key and before the next one. While
   it is sent that holds because the main thread does not get back to the menu
   before its answer; while it waits, for a client that is not in `mixed`, because
   its mail is processed in order (`OneHand`).
5. `CacheOK`: such a client has in its cache the newest of the keys it has
   received, or one of its own, or a spoiled one. `NotBoth`: two friends do not
   both keep a key of their own that the other has already had. Whoever
   processes the other's key last gives its own up.

When a text is processed its key has come before it, and no newer one
(`OldestShown`, `TextKey`), so what is in the cache is that key, or spoiled, or the
reader's own (`TextsFindTheirKey`). At rest there is neither mail nor command, so
either friend has had all unspoiled keys of the other; `OwnKey` and `FriendsKey`
compare what is in the two caches, and `NotBoth` leaves equality, or that the keys
have crossed (`FriendsAgree`). Neither theorem has an assumption: what polls may
spoil is said by `mixed` in the properties themselves.

**Identity.** `AttemptInv`: the key pair of an attempt to register belongs to
one program and one request, and a key nobody uses any more is in `orphans`.
`TypeInv` has the
types of `TypeOK`, and that whoever waits has asked under the key in memory.
`NoFileYet`: a program between registration and save has no valid `my.info`, so
`saveMyInfo` never truncates one (`IdentityIsKept`). `MatchInv`: answer, file and
memory have the row that the server has; the half-set ID is excluded until its
second half is written. `RegistrationsUsable` is then inductive.

**Wire.** A buffer is a concatenation of fields of known lengths, and reading
takes parts out of it at offsets (`Part`, `Joined5`: where the parts of a
concatenation are). `Read16` and `Read32` are division with remainder, `ReadName`
finds the first 0 of a name field, which exists because a valid name is shorter
than its field. Lists are the hard part, since they are written by flattening a
sequence and read by division (`ReadAllRows`, rows of one size) or by a loop over
offsets (`ReadAllRecords`, whose records tell their own size; `AllTurns` says
what a turn of the loop leaves for the next ones). These are inductions over a
list of any length. The library's induction theorems take an operator as a
parameter, so they cannot be used; `Induction` says the same of a *set* of
numbers, and follows from `LeastNumber`, which the library's theorem about the
well-founded order of `Nat` gives. `Pieces` is the one induction over flattened
sequences, and everything about lists and hexadecimal digits goes back to it.

**Link.** `PortsMeet` needs that two different readers, `stoi` with a range
check and `int` with another, agree on every line (`AgreedPort`, from
`PortBounds`). `ChoiceOK`: the number in `choice` is that of the line typed, cut to 16
bits, and the cut is exact because longer numbers were turned away before; so a
request is only sent for what was typed (`RequestsTyped`).

The other three theorems come from one inductive invariant, `LinkInv`, which TLC
checked on the instance of `link` before it was proved. Its parts need one
another:

1. `PhaseInv`: a running client has an exchange open exactly while it waits,
   and one that is not running has no connection.
2. `IdInv`: memory, `my.info` in hexadecimal, and the request under way have
   the ID last issued. A restart needs `ReadHex`.
3. `TableInv`: IDs in the table are unique and drawn by the server, so that
   there are only so many rows to list (`RowCount`), and the client's rows are
   among them.
4. `ExchangeInv`: what is asked is a request that can be encoded
   (`AskedRequests`), what is answered a response that can be
   (`RepliesTyped`); nothing is served that was not asked.
5. `StreamInv`: the bytes received and those on their way are together a
   beginning of what was sent: all of it, or what a break has left. Before the
   request is served only the upper stream carries anything, after it only the
   lower one, and after the response neither does.

A receiver that has nothing to wait for any more has the whole (`Whole`): the
size in the header it has received is the one in the buffer that was sent, and
as many bytes as that follow. So what the server parses is `createBuffer(ask)`,
what the client parses is `_build_response(answer)` (`WholeRequest`,
`WholeReply`), and with `ReadRequest` and `ReadReply` these are `ask` and
`answer`. In `LinkImplementsExchange` connecting is `GiveUp`, a choice of the
user that sends something is `Ask`, `Handle` is `Serve`, `Process` is `Return`,
and bytes that travel are stuttering.

**Only model-checked.** Liveness (`EveryRequestAnswered`, `ExitTerminates`,
`CommandsAnswered`, `CallsReturn`) is out of the prover's reach. All other
properties of the passing runs are proved, for every value of the constants.

## Not modelled, and why

* Cryptography, Base64, sockets, threads (libraries). A ciphertext is the key it
  was made with, so an AES or RSA call that fails is not in the models; a text
  under another key is counted as unreadable, whatever AES makes of it.
* Logging and what is shown to the user, but for whether a text can be shown.
* Characters: how `strtoul`, `stoi` and `int` read a line, leading zeros and
  blanks, upper and lower case of the hexadecimal ID. The models start from the
  number, or `NaN`. The Windows call for the program's directory.
* A `my.info` that is written in part: a crash leaves it empty or whole.
* A payload of 2^32 bytes or more, which `_build_response` cannot build after the
  messages in it are deleted (`request_handler.py:226-228`): it is one more
  response that is lost, with its messages, as any response may be in `Server`.
* That something fails for ever is in the models, and contradicts no document:
  a mailbox with a message number beyond four bytes, or with more messages than
  an SQL statement has variables, answers errors (`Server`, `GetWaiting` and
  `DeleteMessages`); the menu loops at the end of its input (`Link`, `ReadMenu`).
  The properties say that nothing is lost or sent by it.
* Malformed responses: the client's checks are in `Wire`, but this server sends
  none, as `ImplementsExchange` shows.
* Simultaneous creation of the tables by the very first connections.
* `LastSeen`, which nothing reads; `print_db`, `drop_tables`, `canSendText`,
  `canSendSymmetricKey`, which nothing calls.

## Plan

Done: `Mailbox`, `Server` with its runs and proofs; `Client` with restarts and
its use of `Mailbox`; `Identity`; `Exchange`, `Wire`, `Link`.

Every safety property, action property and refinement the passing runs check is
proved as well, without assumptions about who polls, sends or restarts. What is
left is liveness, which stays with TLC, and the creation of the tables by
simultaneous first connections, which is not modelled.
