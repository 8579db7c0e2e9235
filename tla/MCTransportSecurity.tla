------------------------- MODULE MCTransportSecurity -------------------------
(***************************************************************************)
(* Small instances of TransportSecurity: named values for the constants    *)
(* that the configurations combine.                                        *)
(***************************************************************************)
EXTENDS TransportSecurity

\* Ciphers.  The narrow one and its twin have the same algorithm, and the
\* tag of the wide one does not fit the length field.
Narrow == [Algorithm |-> "narrow", KeySize |-> 1, NonceSize |-> 1, TagSize |-> 1]
Twin   == [Narrow EXCEPT !.TagSize = 2]
Wide   == [Algorithm |-> "wide", KeySize |-> 1, NonceSize |-> 1, TagSize |-> 5]

OneCipher   == {Narrow}
TwinCiphers == {Narrow, Twin}
WideCiphers == {Narrow, Wide}

\* Keys; the long one fits no cipher.
Good == [name |-> "good", size |-> 1]
Long == [name |-> "long", size |-> 2]

OneKey   == {Good}
ManyKeys == {Good, Long}

\* Payloads
Small   == [name |-> "small", size |-> 1, magic |-> FALSE]
Second  == [name |-> "second", size |-> 1, magic |-> FALSE]
Large   == [name |-> "large", size |-> 2, magic |-> FALSE]
Magical == [name |-> "magical", size |-> 1, magic |-> TRUE]

OnePayload  == {Small}
TwoPayloads == {Small, Second}
AllPayloads == {Small, Large, Magical}
OddPayloads == {Large, Magical}

\* Configurations.  Session 0 asks for a random session.
Config(policy, sender, session) ==
  [Policy |-> policy, OutboundAlgorithm |-> "narrow", OutboundKeyID |-> 1,
   SenderID |-> sender, SessionID |-> session, MaximumPlaintextBytes |-> 1,
   ReplayWindowSize |-> 2]

Everyone == {"alice", "bob"}
OnlyAlice == {"alice"}
OnlyBob   == {"bob"}

\* Both senders reconfigure, with sessions drawn and sessions chosen
Restless == [e \in Endpoints |-> {Config("Required", 0, s) : s \in {0, 1, 2}}]

\* The sender changes its key, the receiver keeps what it has
Rotating ==
  [e \in Endpoints |->
     IF e = "alice"
     THEN {[Config("Required", 0, 0) EXCEPT !.OutboundKeyID = k] : k \in {1, 2}}
     ELSE {[Config("Required", 0, 0) EXCEPT !.ReplayWindowSize = 0]}]

\* Every policy, with limits that admit payloads too long for the header and one
\* that admits none.  The sender may also lack its key (3) or its cipher, or hold
\* a key that does not fit (2).
Limit(policy, bytes) == [Config(policy, 0, 0) EXCEPT !.MaximumPlaintextBytes = bytes]

Mixed ==
  [e \in Endpoints |->
     IF e = "alice"
     THEN {Limit("Disabled", 1), Limit("Preferred", 2), Limit("Required", 2)}
            \cup {[Limit("Preferred", 2) EXCEPT !.OutboundKeyID = k] : k \in {2, 3}}
            \cup {[Limit("Required", 2) EXCEPT !.OutboundAlgorithm = "wide"]}
     ELSE {Limit("Disabled", 0), Limit("Preferred", 2), Limit("Required", 2)}]

\* An outbound cipher that exceeds the envelope's fields
WideConfig == [Config("Required", 0, 0) EXCEPT !.OutboundAlgorithm = "wide"]

\* The same explicit session every time
Chosen == [e \in Endpoints |-> {Config("Required", 0, 1)}]

\* Plaintext is permitted, and the sender's limit exceeds the receiver's
Limited ==
  [e \in Endpoints |->
     {[Config("Disabled", 0, 0) EXCEPT
         !.MaximumPlaintextBytes = IF e = "alice" THEN 2 ELSE 1]}]

AllCiphers == [e \in Endpoints |-> {Narrow}]
WithWide   == [e \in Endpoints |-> {Narrow, Wide}]
SharedKey  == [e \in Endpoints |-> [s \in KeySlots |-> Good]]
MisfitKey  == [e \in Endpoints |-> [s \in KeySlots |-> IF s[1] = 1 THEN Good ELSE Long]]
=============================================================================
