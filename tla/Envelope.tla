------------------------------- MODULE Envelope -------------------------------
(***************************************************************************)
(* The bytes a TransportSecurity endpoint hands to its carrier, and what   *)
(* an authenticated cipher makes of them.                                  *)
(*                                                                         *)
(* A frame is either a plain payload or an envelope.  The cipher is ideal: *)
(* it opens an envelope exactly when nothing of it has changed since it    *)
(* was sealed and the key is the one that sealed it.  An envelope carries, *)
(* beside the header the receiver reads, the header it was sealed with.    *)
(***************************************************************************)
EXTENDS Integers

CONSTANTS
  Ciphers,      \* implementations: [Algorithm, KeySize, NonceSize, TagSize]
  KeyIDs,       \* key identifiers a provider can hold, none of them 0
  Materials,    \* key bytes: [name, size]
  Protocols,
  Payloads,     \* [name, size, magic]; magic: the first four bytes are EnvelopeMagic
  SessionIDs,   \* session identifiers, none of them 0
  MaxSequence,  \* bound: the largest sequence number, 2^64 - 1 in the code
  MaxField,     \* bound: the largest one-byte length, 255 in the code
  MaxLength     \* bound: the largest four-byte length, 2^32 - 1 in the code

ASSUME LengthsAssumption ==
  /\ MaxField \in Nat /\ MaxLength \in Nat
  /\ \A c \in Ciphers : c.NonceSize \in Nat /\ c.TagSize \in Nat
  /\ \A p \in Payloads : p.size \in Nat

EnvelopeVersion == 1

Algorithms == {c.Algorithm : c \in Ciphers}
KeySlots   == KeyIDs \X Algorithms

\* Bytes after the fixed header that a header announces
Announced(h) == h.nonceLength + h.ciphertextLength + h.tagLength

\* An empty KeyMaterialView: what a provider returns for an entry it lacks
NoKey == [name |-> "none", size |-> 0]

\* A null pointer with a size
NullInput == [kind |-> "null"]
Plain(p)  == [kind |-> "plain", payload |-> p]

\* What Protect writes and Seal binds to it: magic, header, nonce, ciphertext
\* and tag.  size counts the bytes that follow the fixed header.
Envelope(h, size, material, p) ==
  [kind |-> "envelope", magic |-> TRUE, header |-> h, size |-> size,
   sealedHeader |-> h, sealedKey |-> material, intact |-> TRUE, payload |-> p]

\* IAeadCipher::Open: the 44 header bytes are its additional data.

\* Mutant of Opens: the header is not authenticated.
OpensAnyHeader(material, f) == material = f.sealedKey /\ f.intact

Opens(material, f) ==
  /\ material = f.sealedKey
  /\ f.intact
  /\ f.header = f.sealedHeader

\* The first four bytes are the magic.  A payload too short to hold it, or
\* absent, does not look protected.
LooksProtected(f) ==
  \/ f.kind = "envelope" /\ f.magic
  \/ f.kind = "plain" /\ f.payload.magic

-----------------------------------------------------------------------------
(***************************************************************************)
(* What can arrive in place of an envelope that was sent: the same with    *)
(* one part damaged or cut off.                                            *)
(***************************************************************************)

DamagedHeaders(h) ==
  {[h EXCEPT !.version = v] : v \in {0, 2}}
    \cup {[h EXCEPT !.algorithm = a] : a \in Algorithms \cup {"Unknown"}}
    \cup {[h EXCEPT !.flags = 1]}
    \cup {[h EXCEPT !.protocol = p] : p \in Protocols}
    \cup {[h EXCEPT !.keyID = k] : k \in KeyIDs \cup {0}}
    \cup {[h EXCEPT !.senderID = @ + 1]}
    \cup {[h EXCEPT !.sessionID = s] : s \in SessionIDs \cup {0}}
    \cup {[h EXCEPT !.sequence = n] : n \in 0 .. MaxSequence}
    \cup {[h EXCEPT !.nonceLength = @ + 1, !.tagLength = @ - 1]}
    \cup {[h EXCEPT !.ciphertextLength = n] : n \in 0 .. MaxLength}

Damaged(f) ==
  IF f.kind # "envelope" THEN {}
  ELSE {[f EXCEPT !.header = h] : h \in DamagedHeaders(f.header) \ {f.header}}
         \cup {[f EXCEPT !.magic = FALSE],
               [f EXCEPT !.intact = FALSE],
               [f EXCEPT !.size = -1],         \* inside the fixed header
               [f EXCEPT !.size = @ - 1]}
=============================================================================
