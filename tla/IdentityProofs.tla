--------------------------- MODULE IdentityProofs ---------------------------
(***************************************************************************)
(* Proofs about Identity, for every set of installations and names: the    *)
(* types, the life of a registration attempt, and from both that a client  *)
(* has the server's identity, keeps it, and can log in with it again.      *)
(***************************************************************************)
EXTENDS Identity, FiniteSetTheorems, TLAPS

-----------------------------------------------------------------------------
(* Types *)

Attempt == [client : Clients, name : Names \cup {Cancel}, key : Nat \ {0}]

\* The ranges of the variables, and the key pairs generated so far: whatever
\* carries a key carries one of them.
RangesOK ==
  /\ pc \in [Clients -> Steps]
  /\ id \in [Clients -> Nat \cup {None, Torn}]
  /\ name \in [Clients -> Names \cup {Cancel, None}]
  /\ key \in [Clients -> (Nat \ {0}) \cup {None}]
  /\ file \in [Clients -> Row \cup {None, Empty}]
  /\ rsp \in [Clients -> Nat \cup {None}]
  /\ asked \in [Clients -> (Nat \ {0}) \cup {None}]
  /\ poll \in [Clients -> Nat \cup {None, Torn}]
  /\ keys \in 0..MaxKeys
  /\ requests \subseteq Attempt /\ orphans \subseteq Nat \ {0}
  /\ table \subseteq Row /\ IsFiniteSet(table)

KeysBounded ==
  /\ \A c \in Clients : /\ key[c] # None => key[c] <= keys
                        /\ file[c] \in Row => file[c].key <= keys
                        /\ asked[c] # None => asked[c] <= keys
  /\ \A r \in requests \cup table : r.key <= keys
  /\ \A k \in orphans : k <= keys

\* What each step of the main thread relies on: there is an attempt under way
\* whose name and key are set, the ID the server answered with is there until
\* setClientID has copied it, and a program that is off remembers nothing.
StepsOK ==
  \A c \in Clients :
    /\ pc[c] = "off" => id[c] = None /\ name[c] = None /\ key[c] = None
    /\ pc[c] \notin {"off", "menu"} => name[c] # None /\ key[c] # None
    /\ pc[c] \in {"waiting", "answered"} => id[c] = None
    /\ pc[c] = "waiting" => asked[c] = key[c]
    /\ pc[c] = "halfSet" <=> id[c] = Torn
    /\ pc[c] = "halfSet" => rsp[c] # None
    /\ pc[c] \in {"set", "truncated"} => id[c] # None
    /\ id[c] # None => name[c] # None /\ key[c] # None

\* Cardinality(table) + 1 is an ID no row has.
RowsOK ==
  /\ \A row \in table : row.id <= Cardinality(table)
  /\ \A r1, r2 \in table : r1.id = r2.id \/ r1.name = r2.name => r1 = r2

TypeInv == RangesOK /\ KeysBounded /\ StepsOK /\ RowsOK

\* Every action of the client's threads and of register_handler preserves them.
LEMMA TypeStep == TypeInv /\ [Next]_vars => TypeInv'
<1> SUFFICES ASSUME TypeInv, [Next]_vars PROVE TypeInv'
  OBVIOUS
<1> USE IdentityAssumption DEF TypeInv, RangesOK, KeysBounded, StepsOK, RowsOK, Attempt, Row, Steps,
      vars, memory
<1>1. ASSUME NEW c \in Clients, Start(c) PROVE TypeInv'
  <2>1. CASE Valid(file[c])
    <3>1. /\ file[c] \in Row /\ file[c].id \in Nat /\ file[c].name \in Names \cup {Cancel}
          /\ file[c].key \in Nat /\ file[c].key <= keys
      BY <2>1 DEF Valid
    <3>2. file[c].id \notin {None, Torn} /\ file[c].name # None /\ file[c].key # None
      BY <3>1
    <3> QED
      BY <1>1, <2>1, <3>1, <3>2 DEF Start, Goto, Set
  <2>2. CASE ~Valid(file[c])
    BY <1>1, <2>2 DEF Start, Goto, Set
  <2> QED
    BY <2>1, <2>2
<1>2. ASSUME NEW c \in Clients, Register(c) PROVE TypeInv'
  BY <1>2 DEF Register, Goto, Set, MayRegister, PrivateKey
<1>3. ASSUME NEW c \in Clients, ErrorAnswer(c) PROVE TypeInv'
  BY <1>3 DEF ErrorAnswer, Goto
<1>4. ASSUME NEW c \in Clients, BeginSetID(c) PROVE TypeInv'
  BY <1>4 DEF BeginSetID, Goto, Set
<1>5. ASSUME NEW c \in Clients, EndSetID(c) PROVE TypeInv'
  BY <1>5 DEF EndSetID, Goto, Set
<1>6. ASSUME NEW c \in Clients, Open(c) PROVE TypeInv'
  BY <1>6 DEF Open, Goto, Set
<1>7. ASSUME NEW c \in Clients, SaveFails(c) PROVE TypeInv'
  BY <1>7 DEF SaveFails, Goto
<1>8. ASSUME NEW c \in Clients, Write(c) PROVE TypeInv'
  BY <1>8 DEF Write, Goto, Set, Contents
<1>9. ASSUME NEW c \in Clients, Poll(c) PROVE TypeInv'
  BY <1>9 DEF Poll, Set
<1>10. ASSUME NEW c \in Clients, Exit(c) PROVE TypeInv'
  BY <1>10 DEF Exit, Forget, Goto, Set
<1>11. ASSUME NEW c \in Clients, Crash(c) PROVE TypeInv'
  BY <1>11 DEF Crash, Forget, Goto, Set
<1>12. ASSUME NEW r \in requests, Serve(r) PROVE TypeInv'
  <2>1. PICK i \in {None, Cardinality(table) + 1} :
          /\ i # None => NameFree(r.name)
          /\ table' = IF i = None THEN table
                      ELSE table \cup {[id |-> i, name |-> r.name, key |-> r.key]}
          /\ IF pc[r.client] = "waiting" /\ asked[r.client] = r.key
             THEN rsp' = Set(rsp, r.client, i) /\ Goto(r.client, "answered")
             ELSE UNCHANGED <<rsp, pc>>
    BY <1>12 DEF Serve
  <2>2. /\ requests' = requests \ {r}
        /\ UNCHANGED <<memory, file, asked, keys, poll, orphans>>
    BY <1>12 DEF Serve
  <2>3. Cardinality(table) \in Nat
    BY FS_CardinalityType
  <2>4. RowsOK' /\ IsFiniteSet(table')
    <3>1. CASE i = None
      BY <3>1, <2>1, <2>3
    <3>2. CASE i # None
      <4> DEFINE row == [id |-> i, name |-> r.name, key |-> r.key]
      <4>1. i = Cardinality(table) + 1 /\ table' = table \cup {row}
        BY <3>2, <2>1
      <4>2. row \notin table
        BY <4>1, <2>3
      <4>3. IsFiniteSet(table') /\ Cardinality(table') = Cardinality(table) + 1
        BY <4>1, <4>2, FS_AddElement
      <4>4. \A q \in table : q.id # row.id /\ q.name # row.name
        BY <4>1, <2>1, <2>3, <3>2 DEF NameFree
      <4> QED
        BY <4>1, <4>3, <4>4, <2>3
    <3> QED
      BY <3>1, <3>2
  <2>5. RangesOK' /\ KeysBounded' /\ StepsOK'
    BY <2>1, <2>2, <2>3, <2>4 DEF Goto, Set
  <2> QED
    BY <2>4, <2>5
<1>13. CASE UNCHANGED vars
  BY <1>13
<1> QED
  BY <1>1, <1>2, <1>3, <1>4, <1>5, <1>6, <1>7, <1>8, <1>9, <1>10, <1>11, <1>12, <1>13 DEF Next

LEMMA TypeInvariant == Spec => []TypeInv
<1>1. Init => TypeInv
  BY IdentityAssumption, FS_EmptySet DEF Init, TypeInv, RangesOK, KeysBounded, StepsOK, RowsOK, Steps
<1> QED
  BY <1>1, TypeStep, PTL DEF Spec

\* The programs' memory and files, the server's table and the requests under way
\* have their types and hold keys that have been generated, a program that is
\* off remembers nothing, one that waits has asked with the key it keeps, and
\* IDs and names are unique at the server: register_handler's ID is new.
THEOREM TypeCorrect == Spec => []TypeOK
<1>1. TypeInv => TypeOK
  BY IdentityAssumption DEF TypeInv, RangesOK, KeysBounded, StepsOK, RowsOK, TypeOK, Attempt
<1> QED
  BY <1>1, TypeInvariant, PTL

-----------------------------------------------------------------------------
(* Registration attempts *)

\* The key pair tells the attempts apart, at the server as on the way to it.
KeysUnique ==
  /\ \A r1, r2 \in requests : r1.key = r2.key => r1 = r2
  /\ \A r1, r2 \in table : r1.key = r2.key => r1 = r2
  /\ \A r \in requests, row \in table : r.key # row.key

\* The request a client waits for carries its name and key, and the server has
\* no row of the attempt until the client has an answer with its ID.
AttemptsOK ==
  \A c \in Clients :
    /\ pc[c] = "waiting" =>
         \A r \in requests : r.key = key[c] => r.client = c /\ r.name = name[c]
    /\ pc[c] = "answered" => \A r \in requests : r.key # key[c]
    /\ pc[c] = "waiting" \/ (pc[c] = "answered" /\ rsp[c] = None)
         => \A row \in table : row.key # key[c]

\* An attempt that nobody waits for was cut short.
RequestsAwaited ==
  \A r \in requests :
    r.key \in orphans \/ (pc[r.client] = "waiting" /\ key[r.client] = r.key)

\* While the client registers, my.info is missing or incomplete.
NoFileYet ==
  \A c \in Clients :
    pc[c] \notin {"off", "menu"} \/ (pc[c] = "menu" /\ id[c] = None) => ~Valid(file[c])

\* The ID in the server's answer is that of the row with the client's name and
\* key, from the answer to the end of setClientID.
AnswersMatch ==
  \A c \in Clients :
    pc[c] \in {"answered", "halfSet"} /\ rsp[c] # None
      => [id |-> rsp[c], name |-> name[c], key |-> key[c]] \in table

AttemptInv == KeysUnique /\ AttemptsOK /\ RequestsAwaited

MatchInv == AnswersMatch /\ IdentityMatchesServer

\* An attempt keeps its key from handleRegister to the answer, through every
\* crash and every other attempt.
LEMMA AttemptStep == TypeInv /\ AttemptInv /\ [Next]_vars => AttemptInv'
<1> SUFFICES ASSUME TypeInv, AttemptInv, [Next]_vars PROVE AttemptInv'
  OBVIOUS
<1> USE IdentityAssumption DEF AttemptInv, KeysUnique, AttemptsOK, RequestsAwaited, TypeInv, RangesOK, KeysBounded, StepsOK,
      Attempt, Row, Steps, vars, memory
<1>1. ASSUME NEW c \in Clients, Start(c) PROVE AttemptInv'
  BY <1>1 DEF Start, Goto, Set, Valid
<1>2. ASSUME NEW c \in Clients, Register(c) PROVE AttemptInv'
  BY <1>2 DEF Register, Goto, Set, MayRegister, PrivateKey
<1>3. ASSUME NEW c \in Clients, ErrorAnswer(c) PROVE AttemptInv'
  BY <1>3 DEF ErrorAnswer, Goto
<1>4. ASSUME NEW c \in Clients, BeginSetID(c) PROVE AttemptInv'
  BY <1>4 DEF BeginSetID, Goto, Set
<1>5. ASSUME NEW c \in Clients, EndSetID(c) PROVE AttemptInv'
  BY <1>5 DEF EndSetID, Goto, Set
<1>6. ASSUME NEW c \in Clients, Open(c) PROVE AttemptInv'
  BY <1>6 DEF Open, Goto, Set
<1>7. ASSUME NEW c \in Clients, SaveFails(c) PROVE AttemptInv'
  BY <1>7 DEF SaveFails, Goto
<1>8. ASSUME NEW c \in Clients, Write(c) PROVE AttemptInv'
  BY <1>8 DEF Write, Goto, Set, Contents
<1>9. ASSUME NEW c \in Clients, Poll(c) PROVE AttemptInv'
  BY <1>9 DEF Poll
<1>10. ASSUME NEW c \in Clients, Exit(c) PROVE AttemptInv'
  BY <1>10 DEF Exit, Forget, Goto, Set
<1>11. ASSUME NEW c \in Clients, Crash(c) PROVE AttemptInv'
  BY <1>11 DEF Crash, Forget, Goto, Set
<1>12. ASSUME NEW r \in requests, Serve(r) PROVE AttemptInv'
  BY <1>12 DEF Serve, NameFree, Goto, Set
<1>13. CASE UNCHANGED vars
  BY <1>13
<1> QED
  BY <1>1, <1>2, <1>3, <1>4, <1>5, <1>6, <1>7, <1>8, <1>9, <1>10, <1>11, <1>12, <1>13 DEF Next

LEMMA AttemptInvariant == Spec => []AttemptInv
<1>1. Init => AttemptInv
  BY DEF Init, AttemptInv, KeysUnique, AttemptsOK, RequestsAwaited
<1> QED
  BY <1>1, AttemptStep, TypeInvariant, PTL DEF Spec

\* loadMyInfo gives a program with a valid my.info an ID, and hasClientID keeps
\* it from registering again.
LEMMA FileStep == TypeInv /\ NoFileYet /\ [Next]_vars => NoFileYet'
<1> SUFFICES ASSUME TypeInv, NoFileYet, [Next]_vars PROVE NoFileYet'
  OBVIOUS
<1> USE IdentityAssumption DEF NoFileYet, Valid, TypeInv, RangesOK, KeysBounded, StepsOK,
      Attempt, Row, Steps, vars, memory
<1>1. ASSUME NEW c \in Clients, Start(c) PROVE NoFileYet'
  BY <1>1 DEF Start, Goto, Set, Valid
<1>2. ASSUME NEW c \in Clients, Register(c) PROVE NoFileYet'
  BY <1>2 DEF Register, Goto, Set, MayRegister, PrivateKey
<1>3. ASSUME NEW c \in Clients, ErrorAnswer(c) PROVE NoFileYet'
  BY <1>3 DEF ErrorAnswer, Goto
<1>4. ASSUME NEW c \in Clients, BeginSetID(c) PROVE NoFileYet'
  BY <1>4 DEF BeginSetID, Goto, Set
<1>5. ASSUME NEW c \in Clients, EndSetID(c) PROVE NoFileYet'
  BY <1>5 DEF EndSetID, Goto, Set
<1>6. ASSUME NEW c \in Clients, Open(c) PROVE NoFileYet'
  BY <1>6 DEF Open, Goto, Set
<1>7. ASSUME NEW c \in Clients, SaveFails(c) PROVE NoFileYet'
  BY <1>7 DEF SaveFails, Goto
<1>8. ASSUME NEW c \in Clients, Write(c) PROVE NoFileYet'
  BY <1>8 DEF Write, Goto, Set, Contents
<1>9. ASSUME NEW c \in Clients, Poll(c) PROVE NoFileYet'
  BY <1>9 DEF Poll
<1>10. ASSUME NEW c \in Clients, Exit(c) PROVE NoFileYet'
  BY <1>10 DEF Exit, Forget, Goto, Set
<1>11. ASSUME NEW c \in Clients, Crash(c) PROVE NoFileYet'
  BY <1>11 DEF Crash, Forget, Goto, Set
<1>12. ASSUME NEW r \in requests, Serve(r) PROVE NoFileYet'
  BY <1>12 DEF Serve, NameFree, Goto, Set
<1>13. CASE UNCHANGED vars
  BY <1>13
<1> QED
  BY <1>1, <1>2, <1>3, <1>4, <1>5, <1>6, <1>7, <1>8, <1>9, <1>10, <1>11, <1>12, <1>13 DEF Next

LEMMA FileInvariant == Spec => []NoFileYet
<1>1. Init => NoFileYet
  BY DEF Init, NoFileYet, Valid
<1> QED
  BY <1>1, FileStep, TypeInvariant, PTL DEF Spec

\* A client with a valid my.info keeps that identity for ever: only a client
\* that has none registers, and saveMyInfo truncates no other file.
THEOREM IdentityIsKept == Spec => IdentityKept
<1>1. TypeInv /\ NoFileYet /\ [Next]_vars
        => [\A c \in Clients : Valid(file[c]) => file'[c] = file[c]]_vars
  BY DEF Next, Start, Register, Serve, ErrorAnswer, BeginSetID, EndSetID, Open, SaveFails, Write,
         Poll, Exit, Crash, Forget, Set, NoFileYet, TypeInv, RangesOK, Steps
<1> QED
  BY <1>1, TypeInvariant, FileInvariant, PTL DEF Spec, IdentityKept

\* The name and key of an attempt are still the ones its answer belongs to when
\* the ID is set and when my.info is written.
LEMMA MatchStep == TypeInv /\ AttemptInv /\ MatchInv /\ [Next]_vars => MatchInv'
<1> SUFFICES ASSUME TypeInv, AttemptInv, MatchInv, [Next]_vars PROVE MatchInv'
  OBVIOUS
<1> USE IdentityAssumption DEF MatchInv, AnswersMatch, IdentityMatchesServer, AttemptInv,
      AttemptsOK, Valid, TypeInv, RangesOK, KeysBounded, StepsOK,
      Attempt, Row, Steps, vars, memory
<1>1. ASSUME NEW c \in Clients, Start(c) PROVE MatchInv'
  <2>1. CASE Valid(file[c])
    <3>1. /\ file[c] \in Row /\ file[c] \in table
          /\ file[c] = [id |-> file[c].id, name |-> file[c].name, key |-> file[c].key]
      BY <2>1
    <3> QED
      BY <1>1, <2>1, <3>1 DEF Start, Goto, Set
  <2>2. CASE ~Valid(file[c])
    BY <1>1, <2>2 DEF Start, Goto
  <2> QED
    BY <2>1, <2>2
<1>2. ASSUME NEW c \in Clients, Register(c) PROVE MatchInv'
  <2>1. /\ pc[c] = "menu" /\ pc' = [pc EXCEPT ![c] = "waiting"] /\ id[c] = None
        /\ UNCHANGED <<id, file, rsp, table>>
    BY <1>2 DEF Register, Goto, MayRegister
  <2>2. \A d \in Clients \ {c} : pc'[d] = pc[d] /\ name'[d] = name[d] /\ key'[d] = key[d]
    BY <1>2 DEF Register, Goto, Set
  <2>3. pc'[c] = "waiting" /\ id'[c] = None
    BY <2>1
  <2>4. IdentityMatchesServer'
    BY <2>1, <2>2, <2>3
  <2>5. AnswersMatch'
    BY <2>1, <2>2, <2>3
  <2> QED
    BY <2>4, <2>5
<1>3. ASSUME NEW c \in Clients, ErrorAnswer(c) PROVE MatchInv'
  BY <1>3 DEF ErrorAnswer, Goto
<1>4. ASSUME NEW c \in Clients, BeginSetID(c) PROVE MatchInv'
  BY <1>4 DEF BeginSetID, Goto, Set
<1>5. ASSUME NEW c \in Clients, EndSetID(c) PROVE MatchInv'
  <2>1. /\ pc[c] = "halfSet" /\ pc' = [pc EXCEPT ![c] = "set"] /\ rsp[c] # None
        /\ id' = [id EXCEPT ![c] = rsp[c]] /\ rsp' = [rsp EXCEPT ![c] = None]
        /\ UNCHANGED <<name, key, file, table>>
    BY <1>5 DEF EndSetID, Goto, Set
  <2>2. [id |-> id'[c], name |-> name'[c], key |-> key'[c]] \in table'
    BY <2>1
  <2>3. \A d \in Clients \ {c} : pc'[d] = pc[d] /\ id'[d] = id[d] /\ rsp'[d] = rsp[d]
    BY <2>1
  <2>4. pc'[c] = "set" /\ rsp'[c] = None
    BY <2>1
  <2>5. IdentityMatchesServer'
    <3>1. \A d \in Clients : Valid(file[d]) => file'[d] \in table'
      BY <2>1
    <3>2. \A d \in Clients \ {c} : pc'[d] \notin {"off", "halfSet"} /\ id'[d] # None
            => [id |-> id'[d], name |-> name'[d], key |-> key'[d]] \in table'
      BY <2>1, <2>3
    <3> QED
      BY <3>1, <3>2, <2>1, <2>2
  <2>6. AnswersMatch'
    BY <2>1, <2>3, <2>4
  <2> QED
    BY <2>5, <2>6
<1>6. ASSUME NEW c \in Clients, Open(c) PROVE MatchInv'
  BY <1>6 DEF Open, Goto, Set
<1>7. ASSUME NEW c \in Clients, SaveFails(c) PROVE MatchInv'
  BY <1>7 DEF SaveFails, Goto
<1>8. ASSUME NEW c \in Clients, Write(c) PROVE MatchInv'
  BY <1>8 DEF Write, Goto, Set, Contents
<1>9. ASSUME NEW c \in Clients, Poll(c) PROVE MatchInv'
  BY <1>9 DEF Poll
<1>10. ASSUME NEW c \in Clients, Exit(c) PROVE MatchInv'
  BY <1>10 DEF Exit, Forget, Goto, Set
<1>11. ASSUME NEW c \in Clients, Crash(c) PROVE MatchInv'
  BY <1>11 DEF Crash, Forget, Goto, Set
<1>12. ASSUME NEW r \in requests, Serve(r) PROVE MatchInv'
  BY <1>12 DEF Serve, NameFree, Goto, Set
<1>13. CASE UNCHANGED vars
  BY <1>13
<1> QED
  BY <1>1, <1>2, <1>3, <1>4, <1>5, <1>6, <1>7, <1>8, <1>9, <1>10, <1>11, <1>12, <1>13 DEF Next

LEMMA MatchInvariant == Spec => []MatchInv
<1>1. Init => MatchInv
  BY DEF Init, MatchInv, AnswersMatch, IdentityMatchesServer, Valid
<1> QED
  BY <1>1, MatchStep, TypeInvariant, AttemptInvariant, PTL DEF Spec

\* An identity, in memory or in my.info, is the server's: its name is the one
\* registered under its ID and its private key fits the public key there,
\* although handleRegister sets both before the server has accepted them.
THEOREM IdentityMatches == Spec => []IdentityMatchesServer
<1>1. MatchInv => IdentityMatchesServer
  BY DEF MatchInv
<1> QED
  BY <1>1, MatchInvariant, PTL

\* A row of the server stays with the client that asked for it: the client is on
\* its way to saving it, or has saved it, or was cut short.
LEMMA UsableStep == TypeInv /\ AttemptInv /\ NoFileYet /\ MatchInv /\ RegistrationsUsable /\ [Next]_vars => RegistrationsUsable'
<1> SUFFICES ASSUME TypeInv, AttemptInv, NoFileYet, MatchInv, RegistrationsUsable, [Next]_vars PROVE RegistrationsUsable'
  OBVIOUS
<1> USE IdentityAssumption DEF RegistrationsUsable, NoFileYet, MatchInv, IdentityMatchesServer,
      AttemptInv, KeysUnique, AttemptsOK, RequestsAwaited, Valid, TypeInv, RangesOK, KeysBounded, StepsOK,
      Attempt, Row, Steps, vars, memory
<1>1. ASSUME NEW c \in Clients, Start(c) PROVE RegistrationsUsable'
  BY <1>1 DEF Start, Goto, Set, Valid
<1>2. ASSUME NEW c \in Clients, Register(c) PROVE RegistrationsUsable'
  BY <1>2 DEF Register, Goto, Set, MayRegister, PrivateKey
<1>3. ASSUME NEW c \in Clients, ErrorAnswer(c) PROVE RegistrationsUsable'
  BY <1>3 DEF ErrorAnswer, Goto
<1>4. ASSUME NEW c \in Clients, BeginSetID(c) PROVE RegistrationsUsable'
  BY <1>4 DEF BeginSetID, Goto, Set
<1>5. ASSUME NEW c \in Clients, EndSetID(c) PROVE RegistrationsUsable'
  BY <1>5 DEF EndSetID, Goto, Set
<1>6. ASSUME NEW c \in Clients, Open(c) PROVE RegistrationsUsable'
  BY <1>6 DEF Open, Goto, Set
<1>7. ASSUME NEW c \in Clients, SaveFails(c) PROVE RegistrationsUsable'
  BY <1>7 DEF SaveFails, Goto
<1>8. ASSUME NEW c \in Clients, Write(c) PROVE RegistrationsUsable'
  BY <1>8 DEF Write, Goto, Set, Contents
<1>9. ASSUME NEW c \in Clients, Poll(c) PROVE RegistrationsUsable'
  BY <1>9 DEF Poll
<1>10. ASSUME NEW c \in Clients, Exit(c) PROVE RegistrationsUsable'
  BY <1>10 DEF Exit, Forget, Goto, Set
<1>11. ASSUME NEW c \in Clients, Crash(c) PROVE RegistrationsUsable'
  BY <1>11 DEF Crash, Forget, Goto, Set
<1>12. ASSUME NEW r \in requests, Serve(r) PROVE RegistrationsUsable'
  BY <1>12 DEF Serve, NameFree, Goto, Set
<1>13. CASE UNCHANGED vars
  BY <1>13
<1> QED
  BY <1>1, <1>2, <1>3, <1>4, <1>5, <1>6, <1>7, <1>8, <1>9, <1>10, <1>11, <1>12, <1>13 DEF Next

\* Whoever is registered can log in again: its row is in some my.info or about
\* to be written there, unless a crash or a failed save came between
\* register_handler's commit and the end of saveMyInfo.
THEOREM RegistrationsAreUsable == Spec => []RegistrationsUsable
<1>1. Init => RegistrationsUsable
  BY DEF Init, RegistrationsUsable
<1> QED
  BY <1>1, UsableStep, TypeInvariant, AttemptInvariant, FileInvariant, MatchInvariant, PTL
     DEF Spec
=============================================================================
