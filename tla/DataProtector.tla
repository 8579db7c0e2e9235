---------------------------- MODULE DataProtector ----------------------------
(***************************************************************************)
(* A DataProtector whose envelopes are kept outside of it, over any number *)
(* of reconfigurations, key rotations and changes of the cipher registry.  *)
(* A restart is a reconfiguration, since the configuration is all it has.  *)
(*                                                                         *)
(* The cipher is ideal: an envelope carries, as its seal, all that Seal    *)
(* binds, and Open compares it with what it is given.                      *)
(***************************************************************************)
EXTENDS Integers, FiniteSets

CONSTANTS
  Ciphers,        \* records Algorithm, KeySize, NonceSize, TagSize
  Materials,      \* keys, with their size
  Slots,          \* <<key identifier, algorithm>> pairs of the provider
  Payloads,       \* with their size
  Contexts,
  NoContext,      \* the empty context
  Garbage,        \* a payload that was damaged
  Configs,        \* records Algorithm, KeyID, MaximumPlaintextBytes
  FieldModulus,   \* 2^16: the nonce and tag length fields
  SizeModulus,    \* 2^32: the plaintext length field
  MaxRecords      \* bound: envelopes kept

NoKey    == [name |-> "none", size |-> 0]
Nothing  == [kind |-> "nothing"]
Partial  == [kind |-> "partial"]
Whole(f) == [kind |-> "envelope", envelope |-> f]
Plain(p) == [kind |-> "plain", payload |-> p]

ASSUME SizesAssumption ==
  /\ FieldModulus \in Nat \ {0} /\ SizeModulus \in Nat \ {0}
  /\ \A c \in Ciphers : c.KeySize \in Nat \ {0} /\ c.NonceSize \in Nat /\ c.TagSize \in Nat
  /\ \A p \in Payloads \cup {Garbage} : p.size \in Nat
  /\ \A c \in Configs : c.MaximumPlaintextBytes \in Nat
  /\ Garbage \notin Payloads /\ NoKey \notin Materials

VARIABLES
  config,     \* _config
  keys,       \* the provider's entries
  ciphers,    \* the registry's implementations
  stored,     \* the envelopes that Protect has returned
  output,     \* the buffer of the latest caller
  recovered   \* history: what was last unprotected, under which context

provisioning == <<config, keys, ciphers>>
vars == <<provisioning, stored, output, recovered>>

Init ==
  /\ config \in Configs
  /\ keys = [s \in Slots |-> NoKey]
  /\ ciphers = {}
  /\ stored = {}
  /\ output = Nothing
  /\ recovered = Nothing

-----------------------------------------------------------------------------
(* What the application changes between calls *)

SetConfig(c) ==
  /\ config' = c
  /\ UNCHANGED <<keys, ciphers, stored, output, recovered>>

\* Add replaces the entry of the slot; a removed key is NoKey.
SetKey(s, m) ==
  /\ keys' = [keys EXCEPT ![s] = m]
  /\ UNCHANGED <<config, ciphers, stored, output, recovered>>

Register(c) ==
  /\ \A d \in ciphers : d.Algorithm # c.Algorithm
  /\ ciphers' = ciphers \cup {c}
  /\ UNCHANGED <<config, keys, stored, output, recovered>>

Unregister(c) ==
  /\ c \in ciphers
  /\ ciphers' = ciphers \ {c}
  /\ UNCHANGED <<config, keys, stored, output, recovered>>

-----------------------------------------------------------------------------
(* Protect *)

KeyFor(keyID, algorithm) ==
  IF <<keyID, algorithm>> \in Slots THEN keys[<<keyID, algorithm>>] ELSE NoKey

\* The checks that Protect makes before it writes anything
CanSeal(c, p) ==
  /\ config.KeyID # 0
  /\ p.size <= config.MaximumPlaintextBytes
  /\ c.Algorithm = config.Algorithm
  /\ KeyFor(config.KeyID, c.Algorithm).size = c.KeySize

\* Mutant of Header: the plaintext length keeps its width.
HeaderUncut(c, p) ==
  [version |-> 1, algorithm |-> config.Algorithm, keyID |-> config.KeyID,
   nonceSize |-> c.NonceSize % FieldModulus, tagSize |-> c.TagSize % FieldModulus,
   plaintextSize |-> p.size]

Header(c, p) ==
  [version |-> 1, algorithm |-> config.Algorithm, keyID |-> config.KeyID,
   nonceSize |-> c.NonceSize % FieldModulus, tagSize |-> c.TagSize % FieldModulus,
   plaintextSize |-> p.size % SizeModulus]

\* length counts the bytes after the fixed header.
Envelope(c, p, context) ==
  [magic |-> TRUE, header |-> Header(c, p),
   length |-> c.NonceSize + c.TagSize + p.size, payload |-> p,
   seal |-> [header |-> Header(c, p), payload |-> p, context |-> context,
             key |-> KeyFor(config.KeyID, config.Algorithm), cipher |-> c]]

\* A failed check, allocation, nonce or Seal leaves the buffer empty.
ProtectFailed ==
  /\ output' = Nothing
  /\ UNCHANGED <<provisioning, stored, recovered>>

\* The scratch buffer for the context cannot be had: the exception leaves the
\* header and the nonce in the caller's buffer.
ProtectInterrupted(c, p, context) ==
  /\ CanSeal(c, p)
  /\ context # NoContext
  /\ output' = Partial
  /\ UNCHANGED <<provisioning, stored, recovered>>

ProtectSealed(c, p, context) ==
  /\ CanSeal(c, p)
  /\ stored' = stored \cup {Envelope(c, p, context)}
  /\ output' = Whole(Envelope(c, p, context))
  /\ UNCHANGED <<provisioning, recovered>>

-----------------------------------------------------------------------------
(* Unprotect *)

\* IAeadCipher::Open: the header and the context are its additional data.

\* Mutant of Opens: the context is left out of the additional data.
OpensAnyContext(key, f, context) ==
  key = f.seal.key /\ f.header = f.seal.header /\ f.payload = f.seal.payload

Opens(key, f, context) ==
  /\ key = f.seal.key
  /\ f.header = f.seal.header
  /\ f.payload = f.seal.payload
  /\ context = f.seal.context

\* Mutant of InboundKey: the configured key, not the one the header names.
InboundKeyConfigured(h) == KeyFor(config.KeyID, h.algorithm)

InboundKey(h) == KeyFor(h.keyID, h.algorithm)

\* All checks of Unprotect, for the implementation that Find returns
CanOpen(c, f, context) ==
  LET h == f.header
  IN  /\ f.magic /\ h.keyID # 0 /\ h.version = 1
      /\ h.plaintextSize <= config.MaximumPlaintextBytes
      /\ c.Algorithm = h.algorithm
      /\ h.nonceSize = c.NonceSize /\ h.tagSize = c.TagSize
      /\ f.length = h.nonceSize + h.tagSize + h.plaintextSize
      /\ InboundKey(h).size = c.KeySize
      /\ Opens(InboundKey(h), f, context)

\* Mutant of UnprotectFailed: what Open wrote is not cleared.
UnprotectFailedUncleared(f) ==
  /\ output' = Plain(f.payload)
  /\ UNCHANGED <<provisioning, stored, recovered>>

\* A failed check or allocation, or Open, leaves the buffer empty.
UnprotectFailed(f) ==
  /\ output' = Nothing
  /\ UNCHANGED <<provisioning, stored, recovered>>

UnprotectOpened(c, f, context) ==
  /\ CanOpen(c, f, context)
  /\ output' = Plain(f.payload)
  /\ recovered' = [payload |-> f.payload, context |-> context]
  /\ UNCHANGED <<provisioning, stored>>

\* UnprotectString has a buffer of its own, and a string that only a success
\* assigns to.
UnprotectString(c, f, context) ==
  /\ CanOpen(c, f, context)
  /\ recovered' = [payload |-> f.payload, context |-> context]
  /\ UNCHANGED <<provisioning, stored, output>>

-----------------------------------------------------------------------------
(* What may be found in place of an envelope: the same with a part damaged *)
(* or cut off.                                                             *)

DamagedHeaders(h) ==
  {[h EXCEPT !.version = 2], [h EXCEPT !.nonceSize = @ + 1, !.tagSize = @ - 1],
   [h EXCEPT !.plaintextSize = @ + 1]}
    \cup {[h EXCEPT !.keyID = s[1], !.algorithm = s[2]] : s \in Slots}
    \cup {[h EXCEPT !.keyID = 0]}

Damaged(f) ==
  {[f EXCEPT !.header = h] : h \in DamagedHeaders(f.header)}
    \cup {[f EXCEPT !.magic = FALSE], [f EXCEPT !.length = @ + 1],
          [f EXCEPT !.payload = Garbage]}

Found == stored \cup UNION {Damaged(f) : f \in stored}

Next ==
  \/ \E c \in Configs : SetConfig(c)
  \/ \E s \in Slots, m \in Materials \cup {NoKey} : SetKey(s, m)
  \/ \E c \in Ciphers : Register(c) \/ Unregister(c)
  \/ ProtectFailed
  \/ \E c \in ciphers, p \in Payloads, context \in Contexts :
       \/ ProtectInterrupted(c, p, context)
       \/ Cardinality(stored) < MaxRecords /\ ProtectSealed(c, p, context)
  \/ \E f \in Found :
       \/ UnprotectFailed(f)
       \/ \E c \in ciphers, context \in Contexts :
            UnprotectOpened(c, f, context) \/ UnprotectString(c, f, context)

Spec == Init /\ [][Next]_vars

-----------------------------------------------------------------------------
Record(f) == [payload |-> f.seal.payload, context |-> f.seal.context]

\* Whatever is found damaged, and however keys and configurations change, what
\* is recovered under a context was protected under it, unchanged
\* (DataProtector::Unprotect, 117-190; wiki/Protecting-Data.md).
Vault == INSTANCE DataVault
  WITH records <- {Record(f) : f \in stored},
       Records <- [payload : Payloads, context : Contexts],
       None <- Nothing

ImplementsVault == Vault!Spec

\* The lengths of an envelope that its header can hold
Fits(f) ==
  /\ f.seal.payload.size < SizeModulus
  /\ f.seal.cipher.NonceSize < FieldModulus
  /\ f.seal.cipher.TagSize < FieldModulus

\* An envelope stays readable under its context, and no other, through every
\* change of the configuration, of other keys and of other ciphers, as long as
\* its own key and cipher are there and the limit admits it
\* (DataProtector.hpp:73-80, 129-187; wiki/Implementing-Key-Providers.md).
StaysReadable ==
  \A f \in stored :
    /\ Fits(f)
    /\ KeyFor(f.header.keyID, f.header.algorithm) = f.seal.key
    /\ f.seal.cipher \in ciphers
    /\ f.seal.payload.size <= config.MaximumPlaintextBytes
    => \A context \in Contexts :
         CanOpen(f.seal.cipher, f, context) <=> context = f.seal.context

\* The caller's buffer never keeps bytes that were not authenticated, nor an
\* envelope that was not sealed, save for the header and nonce of a call that
\* ended in an exception (DataProtector.hpp:41, 84, 111, 123, 186).
OutputVerified ==
  \/ output \in {Nothing, Partial}
  \/ \E f \in stored : output \in {Whole(f), Plain(f.seal.payload)}

\* The length fields keep their width.
TypeOK ==
  /\ config \in Configs
  /\ keys \in [Slots -> Materials \cup {NoKey}]
  /\ ciphers \subseteq Ciphers
  /\ \A c, d \in ciphers : c.Algorithm = d.Algorithm => c = d
  /\ \A f \in stored :
       /\ f.header.nonceSize \in 0 .. FieldModulus - 1
       /\ f.header.tagSize \in 0 .. FieldModulus - 1
       /\ f.header.plaintextSize \in 0 .. SizeModulus - 1
       /\ Record(f) \in [payload : Payloads, context : Contexts]
=============================================================================
