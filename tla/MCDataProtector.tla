--------------------------- MODULE MCDataProtector ---------------------------
(***************************************************************************)
(* A small instance of DataProtector.                                      *)
(***************************************************************************)
EXTENDS DataProtector

Narrow == [Algorithm |-> "aead", KeySize |-> 1, NonceSize |-> 1, TagSize |-> 1]

\* Another implementation of the algorithm, whose tag length exceeds its field
\* and is cut to that of the first: 5 % 4 = 1.
Wide == [Narrow EXCEPT !.TagSize = 5]

TwoCiphers == {Narrow, Wide}

TwoKeys == {[name |-> "old", size |-> 1], [name |-> "new", size |-> 1]}

TwoSlots == {<<1, "aead">>, <<2, "aead">>}

\* The length of the huge payload is cut to that of the small one.
TwoPayloads == {[name |-> "small", size |-> 1], [name |-> "huge", size |-> 5]}
Damage == [name |-> "garbage", size |-> 1]

FourConfigs ==
  {[Algorithm |-> "aead", KeyID |-> k, MaximumPlaintextBytes |-> 5] : k \in {0, 1, 2}}
    \cup {[Algorithm |-> "aead", KeyID |-> 1, MaximumPlaintextBytes |-> 0]}
=============================================================================
