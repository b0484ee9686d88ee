------------------------------ MODULE Exchange ------------------------------
(***************************************************************************)
(* What sendAndReceive and the server's receive loop promise each other,   *)
(* and what the modules Client and Server take for granted: requests and   *)
(* responses are passed whole.  The client asks; the server is served that *)
(* very request, at most once; the client gets that very answer, at most   *)
(* once; or it gives up, whether or not it was served, and asks again on   *)
(* another connection.                                                     *)
(***************************************************************************)
CONSTANTS None, Fits(_, _)  \* whether an answer is one to a request

VARIABLES ask, served, answer, result

exchange == <<ask, served, answer, result>>

Init == ask = None /\ served = None /\ answer = None /\ result = None

Ask ==
  /\ ask = None \/ result # None
  /\ ask' # None
  /\ served' = None /\ answer' = None /\ result' = None

Serve ==
  /\ ask # None /\ served = None
  /\ served' = ask
  /\ answer' # None /\ Fits(ask, answer')
  /\ UNCHANGED <<ask, result>>

Return ==
  /\ answer # None /\ result = None
  /\ result' = answer
  /\ UNCHANGED <<ask, served, answer>>

GiveUp == ask' = None /\ served' = None /\ answer' = None /\ result' = None

Next == Ask \/ Serve \/ Return \/ GiveUp

Spec == Init /\ [][Next]_exchange
=============================================================================
