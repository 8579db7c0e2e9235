------------------------- MODULE DataProtector_proofs -------------------------
(***************************************************************************)
(* Proofs about DataProtector for all ciphers, keys, payloads, contexts,   *)
(* configurations and widths of the length fields.                         *)
(***************************************************************************)
EXTENDS DataProtector, TLAPS

USE SizesAssumption

\* What Protect writes: the header says how to open what was sealed with it.
WellSealed(f) ==
  LET h == f.header
      s == f.seal
  IN  /\ f = [magic |-> TRUE, header |-> h, length |-> f.length,
              payload |-> s.payload, seal |-> s]
      /\ s.header = h
      /\ s.payload \in Payloads /\ s.context \in Contexts /\ s.cipher \in Ciphers
      /\ s.key.size = s.cipher.KeySize
      /\ h.keyID # 0 /\ h.version = 1 /\ h.algorithm = s.cipher.Algorithm
      /\ h.nonceSize = s.cipher.NonceSize % FieldModulus
      /\ h.tagSize = s.cipher.TagSize % FieldModulus
      /\ h.plaintextSize = s.payload.size % SizeModulus
      /\ f.length = s.cipher.NonceSize + s.cipher.TagSize + s.payload.size

\* The inductive invariant
SealIInv ==
  /\ ciphers \subseteq Ciphers
  /\ \A f \in stored : WellSealed(f)

LEMMA EnvelopeWellSealed ==
  ASSUME NEW c \in Ciphers, NEW p \in Payloads, NEW context \in Contexts, CanSeal(c, p)
  PROVE  /\ WellSealed(Envelope(c, p, context))
         /\ Record(Envelope(c, p, context)) = [payload |-> p, context |-> context]
BY DEF CanSeal, Envelope, Header, WellSealed, Record

LEMMA InitSealIInv == Init => SealIInv
BY DEF Init, SealIInv

LEMMA NextSealIInv == SealIInv /\ [Next]_vars => SealIInv'
<1> SUFFICES ASSUME SealIInv, [Next]_vars PROVE SealIInv'
  OBVIOUS
<1>1. CASE UNCHANGED <<ciphers, stored>>
  BY <1>1 DEF SealIInv, WellSealed
<1>2. ASSUME NEW c \in Ciphers, Register(c) \/ Unregister(c) PROVE SealIInv'
  BY <1>2 DEF SealIInv, Register, Unregister
<1>3. ASSUME NEW c \in ciphers, NEW p \in Payloads, NEW context \in Contexts,
             ProtectSealed(c, p, context)
      PROVE  SealIInv'
  <2>1. /\ UNCHANGED ciphers /\ CanSeal(c, p)
        /\ stored' = stored \cup {Envelope(c, p, context)}
    BY <1>3 DEF ProtectSealed, provisioning
  <2>2. c \in Ciphers
    BY DEF SealIInv
  <2>3. WellSealed(Envelope(c, p, context))
    BY <2>1, <2>2, EnvelopeWellSealed
  <2>4. QED
    BY <2>1, <2>3 DEF SealIInv
<1>4. QED
  BY <1>1, <1>2, <1>3
     DEF Next, vars, provisioning, SetConfig, SetKey, ProtectFailed, ProtectInterrupted,
         UnprotectFailed, UnprotectOpened, UnprotectString

LEMMA AlwaysSealIInv == Spec => []SealIInv
BY InitSealIInv, NextSealIInv, PTL DEF Spec

-----------------------------------------------------------------------------
LEMMA Fitting ==
  ASSUME NEW n \in Nat, NEW m \in Nat \ {0}, n < m
  PROVE  n % m = n
OBVIOUS

\* An envelope that fits its length fields stays readable under its context,
\* and no other, as long as its key and its cipher are there
\* (DataProtector.hpp:73-80, 129-187).
THEOREM EnvelopesStayReadable == Spec => []StaysReadable
<1>1. SealIInv => StaysReadable
  <2> SUFFICES ASSUME SealIInv, NEW f \in stored, Fits(f),
                      KeyFor(f.header.keyID, f.header.algorithm) = f.seal.key,
                      f.seal.payload.size <= config.MaximumPlaintextBytes,
                      NEW context \in Contexts
               PROVE  CanOpen(f.seal.cipher, f, context) <=> context = f.seal.context
    BY DEF StaysReadable
  <2>1. WellSealed(f)
    BY DEF SealIInv
  <2>2. /\ f.header.nonceSize = f.seal.cipher.NonceSize
        /\ f.header.tagSize = f.seal.cipher.TagSize
        /\ f.header.plaintextSize = f.seal.payload.size
    BY <2>1, Fitting DEF WellSealed, Fits
  <2>3. f.magic = TRUE /\ f.payload = f.seal.payload
    BY <2>1 DEF WellSealed
  <2>4. QED
    BY <2>1, <2>2, <2>3 DEF WellSealed, CanOpen, InboundKey, Opens
<1>2. QED
  BY <1>1, AlwaysSealIInv, PTL

-----------------------------------------------------------------------------
\* Damage never changes the seal.
LEMMA FoundSeals ==
  ASSUME SealIInv, NEW f \in Found
  PROVE  \E g \in stored : f.seal = g.seal
<1>1. CASE f \in stored
  BY <1>1
<1>2. ASSUME NEW g \in stored, f \in Damaged(g) PROVE f.seal = g.seal
  <2>1. g = [magic |-> TRUE, header |-> g.header, length |-> g.length,
             payload |-> g.seal.payload, seal |-> g.seal]
    BY DEF SealIInv, WellSealed
  <2>2. CASE \E h : f = [g EXCEPT !.header = h]
    BY <2>1, <2>2
  <2>3. CASE f = [g EXCEPT !.magic = FALSE]
    BY <2>1, <2>3
  <2>4. CASE f = [g EXCEPT !.length = @ + 1]
    BY <2>1, <2>4
  <2>5. CASE f = [g EXCEPT !.payload = Garbage]
    BY <2>1, <2>5
  <2>6. QED
    BY <1>2, <2>2, <2>3, <2>4, <2>5 DEF Damaged
<1>3. QED
  BY <1>1, <1>2 DEF Found

VaultRecords == {Record(f) : f \in stored}
VaultStep == Vault!Next \/ UNCHANGED <<VaultRecords, recovered>>

\* What opens is on record.
LEMMA RecoveredIsStored ==
  ASSUME SealIInv, NEW f \in Found, NEW c, NEW context, CanOpen(c, f, context)
  PROVE  /\ [payload |-> f.payload, context |-> context] \in VaultRecords
         /\ [payload |-> f.payload, context |-> context]
              \in [payload : Payloads, context : Contexts]
<1>1. PICK g \in stored : f.seal = g.seal
  BY FoundSeals
<1>2. f.payload = g.seal.payload /\ context = g.seal.context
  BY <1>1 DEF CanOpen, Opens
<1>3. QED
  BY <1>1, <1>2 DEF SealIInv, WellSealed, VaultRecords, Record

LEMMA NextVaults == SealIInv /\ [Next]_vars => [Vault!Next]_<<VaultRecords, recovered>>
<1> SUFFICES ASSUME SealIInv, [Next]_vars PROVE VaultStep
  BY DEF VaultStep
<1>1. CASE UNCHANGED <<stored, recovered>>
  BY <1>1 DEF VaultStep, VaultRecords, Record
<1>2. ASSUME NEW c \in ciphers, NEW p \in Payloads, NEW context \in Contexts,
             ProtectSealed(c, p, context)
      PROVE  VaultStep
  <2> DEFINE r == [payload |-> p, context |-> context]
  <2>1. CanSeal(c, p) /\ stored' = stored \cup {Envelope(c, p, context)} /\ UNCHANGED recovered
    BY <1>2 DEF ProtectSealed
  <2>2. Record(Envelope(c, p, context)) = r
    BY <2>1, EnvelopeWellSealed DEF SealIInv
  <2>3. VaultRecords' = VaultRecords \cup {r}
    BY <2>1, <2>2 DEF VaultRecords, Record
  <2>4. r \in [payload : Payloads, context : Contexts]
    OBVIOUS
  <2>5. QED
    BY <2>1, <2>3, <2>4 DEF VaultStep, VaultRecords, Vault!Next, Vault!Store
<1>3. ASSUME NEW f \in Found, NEW c \in ciphers, NEW context \in Contexts,
             UnprotectOpened(c, f, context) \/ UnprotectString(c, f, context)
      PROVE  VaultStep
  <2>1. /\ CanOpen(c, f, context) /\ UNCHANGED stored
        /\ recovered' = [payload |-> f.payload, context |-> context]
    BY <1>3 DEF UnprotectOpened, UnprotectString
  <2>2. UNCHANGED VaultRecords
    BY <2>1 DEF VaultRecords, Record
  <2>3. QED
    BY <2>1, <2>2, RecoveredIsStored DEF VaultStep, VaultRecords, Vault!Next, Vault!Recover
<1>4. QED
  BY <1>1, <1>2, <1>3
     DEF Next, vars, SetConfig, SetKey, Register, Unregister, ProtectFailed,
         ProtectInterrupted, UnprotectFailed

\* What is recovered under a context was protected under it
\* (DataProtector::Unprotect, 117-190).
THEOREM ProtectorImplementsVault == Spec => ImplementsVault
<1>1. Init => Vault!Init
  BY DEF Init, Vault!Init
<1>2. SealIInv /\ [Next]_vars => [Vault!Next]_<<VaultRecords, recovered>>
  BY NextVaults
<1>3. QED
  BY <1>1, <1>2, AlwaysSealIInv, PTL
     DEF Spec, ImplementsVault, Vault!Spec, Vault!vaultVars, VaultRecords

-----------------------------------------------------------------------------
(* The caller's buffer *)

\* The envelopes that are kept stay kept, and so a buffer that is left alone
\* stays verified.
LEMMA SameOutput ==
  ASSUME OutputVerified, UNCHANGED output, stored \subseteq stored'
  PROVE  OutputVerified'
BY DEF OutputVerified, Whole, Plain

LEMMA NextOutput == SealIInv /\ OutputVerified /\ [Next]_vars => OutputVerified'
<1> SUFFICES ASSUME SealIInv, OutputVerified, [Next]_vars PROVE OutputVerified'
  OBVIOUS
<1>1. CASE output' \in {Nothing, Partial}
  BY <1>1 DEF OutputVerified, Nothing, Partial
<1>2. ASSUME NEW c \in ciphers, NEW p \in Payloads, NEW context \in Contexts,
             ProtectSealed(c, p, context)
      PROVE  OutputVerified'
  <2>1. /\ Envelope(c, p, context) \in stored'
        /\ output' = Whole(Envelope(c, p, context))
    BY <1>2 DEF ProtectSealed
  <2>2. QED
    BY <2>1 DEF OutputVerified, Whole
<1>3. ASSUME NEW f \in Found, NEW c \in ciphers, NEW context \in Contexts,
             UnprotectOpened(c, f, context)
      PROVE  OutputVerified'
  <2>1. PICK g \in stored : f.seal = g.seal
    BY FoundSeals
  <2>2. f.payload = f.seal.payload /\ output' = Plain(f.payload) /\ UNCHANGED stored
    BY <1>3 DEF UnprotectOpened, CanOpen, Opens
  <2>3. g \in stored' /\ output' = Plain(g.seal.payload)
    BY <2>1, <2>2
  <2>4. QED
    BY <2>3 DEF OutputVerified, Plain
<1>4. CASE UNCHANGED <<stored, output>>
  BY <1>4, SameOutput
<1>5. QED
  BY <1>1, <1>2, <1>3, <1>4
     DEF Next, vars, SetConfig, SetKey, Register, Unregister, ProtectFailed,
         ProtectInterrupted, UnprotectFailed, UnprotectString

\* The caller's buffer never keeps bytes that were not authenticated nor an
\* envelope that was not sealed, for any ciphers, keys and damage
\* (DataProtector.hpp:41, 84, 111, 123, 186).
THEOREM BuffersAreVerified == Spec => []OutputVerified
<1>1. Init => OutputVerified
  BY DEF Init, OutputVerified
<1>2. QED
  BY <1>1, AlwaysSealIInv, NextOutput, PTL DEF Spec

-----------------------------------------------------------------------------
(* Types *)

\* What the configuration, the keys and the registry hold
ProvisionedOK ==
  /\ config \in Configs
  /\ keys \in [Slots -> Materials \cup {NoKey}]
  /\ ciphers \subseteq Ciphers
  /\ \A c, d \in ciphers : c.Algorithm = d.Algorithm => c = d

LEMMA NextProvisioned == ProvisionedOK /\ [Next]_vars => ProvisionedOK'
<1> SUFFICES ASSUME ProvisionedOK, [Next]_vars PROVE ProvisionedOK'
  OBVIOUS
<1>1. CASE UNCHANGED provisioning
  BY <1>1 DEF ProvisionedOK, provisioning
<1>2. ASSUME NEW c \in Configs, SetConfig(c) PROVE ProvisionedOK'
  BY <1>2 DEF ProvisionedOK, SetConfig
<1>3. ASSUME NEW s \in Slots, NEW m \in Materials \cup {NoKey}, SetKey(s, m)
      PROVE  ProvisionedOK'
  BY <1>3 DEF ProvisionedOK, SetKey
<1>4. ASSUME NEW c \in Ciphers, Register(c) \/ Unregister(c) PROVE ProvisionedOK'
  BY <1>4 DEF ProvisionedOK, Register, Unregister
<1>5. QED
  BY <1>1, <1>2, <1>3, <1>4
     DEF Next, vars, ProtectFailed, ProtectInterrupted, ProtectSealed, UnprotectFailed,
         UnprotectOpened, UnprotectString

\* A length field holds no more than its width.
LEMMA FieldsFit ==
  ASSUME NEW f, WellSealed(f)
  PROVE  /\ f.header.nonceSize \in 0 .. FieldModulus - 1
         /\ f.header.tagSize \in 0 .. FieldModulus - 1
         /\ f.header.plaintextSize \in 0 .. SizeModulus - 1
         /\ Record(f) \in [payload : Payloads, context : Contexts]
<1>1. \A n \in Nat, m \in Nat \ {0} : n % m \in 0 .. m - 1
  OBVIOUS
<1>2. /\ f.seal.cipher.NonceSize \in Nat /\ f.seal.cipher.TagSize \in Nat
      /\ f.seal.payload.size \in Nat
  BY DEF WellSealed
<1>3. QED
  BY <1>1, <1>2 DEF WellSealed, Record

\* The variables keep their types and the length fields their width, for every
\* size of ciphers and payloads.
THEOREM ProtectorTypeCorrect == Spec => []TypeOK
<1>1. Init => ProvisionedOK
  BY DEF Init, ProvisionedOK
<1>2. ProvisionedOK /\ SealIInv => TypeOK
  BY FieldsFit DEF ProvisionedOK, SealIInv, TypeOK
<1>3. QED
  BY <1>1, <1>2, NextProvisioned, AlwaysSealIInv, PTL DEF Spec
=============================================================================
