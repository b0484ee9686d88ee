------------------------------ MODULE Mailbox ------------------------------
(***************************************************************************)
(* What the server promises its clients, with no threads, transactions or  *)
(* connections: every client gets an address of its own, and a message     *)
(* posted to an address waits there until it is taken for delivery, oldest *)
(* first, and is delivered at most once, in order, to the client with that *)
(* address.  A message that was taken may stay out for ever: the server    *)
(* promises nothing once it has deleted a message.                         *)
(***************************************************************************)
EXTENDS Naturals

CONSTANTS Clients, Ids, None

VARIABLES
  addr,       \* per client: its address, or None
  last,       \* the number of the last message posted
  waiting,    \* the messages in the mailbox
  out,        \* the messages taken and not delivered
  delivered   \* per client: the messages it received

mailbox == <<addr, last, waiting, out, delivered>>

Init ==
  /\ addr = [c \in Clients |-> None]
  /\ last = 0 /\ waiting = {} /\ out = {}
  /\ delivered = [c \in Clients |-> {}]

Enroll(c) ==
  /\ addr[c] = None
  /\ \E i \in Ids :
       /\ \A d \in Clients : addr[d] # i
       /\ addr' = [addr EXCEPT ![c] = i]
  /\ UNCHANGED <<last, waiting, out, delivered>>

Post(i) ==
  /\ last' = last + 1
  /\ waiting' = waiting \cup {[id |-> last + 1, to |-> i]}
  /\ UNCHANGED <<addr, out, delivered>>

\* Messages to i are taken, and whatever stays behind is younger.
Take(i) ==
  /\ \E B \in SUBSET waiting :
       /\ \A m \in B : m.to = i
       /\ \A m \in B, n \in waiting \ B : n.to = i => n.id > m.id
       /\ waiting' = waiting \ B
       /\ out' = out \cup B
  /\ UNCHANGED <<addr, last, delivered>>

\* Everything c receives is addressed to c and younger than all it has.
Deliver(c) ==
  /\ \E B \in SUBSET out :
       /\ \A m \in B : m.to = addr[c]
       /\ \A m \in B, n \in delivered[c] : m.id > n.id
       /\ out' = out \ B
       /\ delivered' = [delivered EXCEPT ![c] = @ \cup B]
  /\ UNCHANGED <<addr, last, waiting>>

\* Not among the steps of the server: a client that has taken several batches
\* receives them in any order, but nothing twice.
Overtake(c) ==
  /\ \E B \in SUBSET out :
       /\ \A m \in B : m.to = addr[c]
       /\ out' = out \ B
       /\ delivered' = [delivered EXCEPT ![c] = @ \cup B]
  /\ UNCHANGED <<addr, last, waiting>>

Next ==
  \/ \E c \in Clients : Enroll(c) \/ Deliver(c)
  \/ \E i \in Ids : Post(i) \/ Take(i)

Spec == Init /\ [][Next]_mailbox
=============================================================================
