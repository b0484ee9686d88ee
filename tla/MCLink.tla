------------------------------- MODULE MCLink -------------------------------
(* A model-checking instance of Link: IDs of two bytes, names of up to two. *)
EXTENDS Link

MCLines  == {NaN, 0, 100, 110, 120, 130, 140, 150, 151, 152, 65535, 65536 + 110}
MCTyped  == {<<48>>, <<98>>, <<97, 98>>, <<97, 98, 99>>, <<200>>}
MCTexts  == {<<7>>, <<0, 8>>}
MCKey    == <<9>>
MCIds    == {<<18, 0>>}
MCFriend == [id |-> <<0, 52>>, name |-> <<98>>]
MCMail   == {[from |-> <<0, 52>>, no |-> 2^24 + 3, type |-> 1, content |-> <<>>],
             [from |-> <<0, 52>>, no |-> 4, type |-> 3, content |-> <<7, 0>>]}
MCServerFiles == {<<65535>>, <<65536>>, <<NaN, 65535>>}
MCClientFiles ==
  {[lines |-> 1, address |-> Localhost, port |-> p] : p \in {NaN, 0, 1357, 65535, 65536}}
    \cup {[lines |-> 1, address |-> <<127, 0, 0, 256>>, port |-> 1357],
          [lines |-> 2, address |-> Localhost, port |-> 1357]}
=============================================================================
