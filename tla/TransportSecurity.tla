-------------------------- MODULE TransportSecurity --------------------------
(***************************************************************************)
(* Several TransportSecurity objects, each with its own key provider and   *)
(* cipher registry, that exchange frames over a carrier which loses,       *)
(* duplicates, reorders, misdelivers and damages them.  A call to a        *)
(* TransportSecurity is one step: the object has no lock of its own, so    *)
(* this module stands for callers that do not overlap.                     *)
(*                                                                         *)
(* The per-object state is a function of the endpoint.  air holds every    *)
(* frame a Protect ever returned: a frame can arrive any number of times,  *)
(* in any order, at any endpoint, or never.                                *)
(***************************************************************************)
EXTENDS ReplayTable, Envelope, SequencesExt

CONSTANTS
  Endpoints,
  Senders, Receivers,   \* endpoints whose application calls Protect, Unprotect
  Managed,              \* endpoints whose keys and ciphers change while they run
  Observable,           \* endpoints whose application registers observers
  Configs,              \* [Endpoints -> set of configurations it may be given]
  InitialCiphers,       \* [Endpoints -> registered ciphers]
  InitialKeys,          \* [Endpoints -> [KeySlots -> key or NoKey]]
  Faults,               \* bound: errors that can strike after a sequence is taken
  ReuseSessions         \* whether an explicit session identifier may be used again

ASSUME EndpointsAssumption ==
  Senders \cup Receivers \cup Managed \cup Observable \subseteq Endpoints

ASSUME IdentifiersAssumption ==
  /\ SessionIDs \subseteq Nat \ {0}
  /\ KeyIDs \subseteq Nat \ {0}
  /\ MaxSequence \in Nat \ {0}

ASSUME ConfigsAssumption ==
  \A e \in Endpoints : \A c \in Configs[e] :
    /\ c.SessionID \in SessionIDs \cup {0}
    /\ c.ReplayWindowSize \in Nat
    /\ c.MaximumPlaintextBytes \in Nat

\* A registry has one implementation of an algorithm at most.
ASSUME ProvisioningAssumption ==
  /\ InitialCiphers \in [Endpoints -> SUBSET Ciphers]
  /\ \A e \in Endpoints : \A c, d \in InitialCiphers[e] : c.Algorithm = d.Algorithm => c = d
  /\ InitialKeys \in [Endpoints -> [KeySlots -> Materials \cup {NoKey}]]

VARIABLES
  config,         \* _config
  replay,         \* _replay._states
  windowSize,     \* _replay._windowSize
  sessionID,      \* _sessionID
  sessionReady,   \* _sessionReady
  nextSequence,   \* _nextSequence
  observed,       \* endpoints with a registered observer
  ciphers,        \* the registry's implementations
  keys,           \* the provider's entries
  air,            \* frames sent so far
  used,           \* history: [sender, session] pairs an endpoint has claimed
  accepted,       \* history: bag of messages authenticated since the last reset
  notices         \* what the observers were told during the latest call

channel      == <<air, used>>
provisioning == <<ciphers, keys>>
outbound     == <<sessionID, sessionReady, nextSequence>>
inbound      == <<replay, windowSize, accepted>>
vars == <<config, outbound, inbound, observed, provisioning, channel, notices>>

-----------------------------------------------------------------------------
(* Observers *)

Notice(e, what)      == [to |-> e, what |-> what]
SessionNotice(e, what, id) == [to |-> e, what |-> what, session |-> id]

\* The observers of e, if it has any, see these events in this order.
Notify(e, events) == notices' = IF e \in observed THEN events ELSE <<>>

Failure(e, error) == <<[to |-> e, what |-> "Failure", error |-> error]>>

\* A call that fails at once reports the error and changes nothing else.
Refuse(e, error) ==
  /\ Notify(e, Failure(e, error))
  /\ UNCHANGED <<config, outbound, inbound, observed, provisioning, channel>>

\* Checks are tried in order; the first that fails gives the error.
Check(fails, error) == [fails |-> fails, error |-> error]

FirstError(checks) ==
  LET i == SelectInSeq(checks, LAMBDA c : c.fails)
  IN  IF i = 0 THEN "None" ELSE checks[i].error

-----------------------------------------------------------------------------
(* Ciphers, keys and sessions *)

\* AeadCipherRegistry::Find: the set has at most one member.
Found(e, algorithm) == {c \in ciphers[e] : c.Algorithm = algorithm}

\* IKeyProvider::GetKey
KeyFor(e, keyID, algorithm) ==
  IF <<keyID, algorithm>> \in KeySlots THEN keys[e][<<keyID, algorithm>>] ELSE NoKey

\* The pair that separates one endpoint's envelopes from all others
Claim(c, id) == [sender |-> c.SenderID, session |-> id]

\* A configuration an application may install: an explicit session identifier
\* is a new one for its sender unless sessions are reused.
Usable(c) ==
  \/ c.SessionID = 0
  \/ ReuseSessions
  \/ Claim(c, c.SessionID) \notin used

Claimed(c) == IF c.SessionID = 0 THEN {} ELSE {Claim(c, c.SessionID)}

\* EnsureSessionID: the session of the next envelope, 0 when the random source
\* fails or yields zero four times.  A drawn identifier was never used before.
SessionDraws(e) ==
  IF sessionReady[e] THEN {sessionID[e]}
  ELSE IF config[e].SessionID # 0 THEN {config[e].SessionID}
  ELSE {0} \cup {id \in SessionIDs : \A u \in used : u.session # id}

\* The session is established if it was not, and used from here on.
Establish(e, id) ==
  /\ sessionID' = [sessionID EXCEPT ![e] = id]
  /\ sessionReady' = [sessionReady EXCEPT ![e] = TRUE]
  /\ used' = used \cup {Claim(config[e], id)}

EstablishNotice(e, id) ==
  IF sessionReady[e] THEN <<>>
  ELSE <<SessionNotice(e, "SessionEstablished", id)>>

-----------------------------------------------------------------------------
(* Construction and configuration *)

Init ==
  /\ config \in [Endpoints -> UNION {Configs[e] : e \in Endpoints}]
  /\ \A e \in Endpoints : config[e] \in Configs[e]
  /\ ReuseSessions \/ \A d, e \in Endpoints :
       d # e => Claimed(config[d]) \cap Claimed(config[e]) = {}
  /\ replay = [e \in Endpoints |-> NoStates]
  /\ windowSize = [e \in Endpoints |-> Clamp(config[e].ReplayWindowSize)]
  /\ sessionID = [e \in Endpoints |-> config[e].SessionID]
  /\ sessionReady = [e \in Endpoints |-> config[e].SessionID # 0]
  /\ nextSequence = [e \in Endpoints |-> 1]
  /\ observed = {}
  /\ ciphers = InitialCiphers
  /\ keys = InitialKeys
  /\ air = {}
  /\ used = UNION {Claimed(config[e]) : e \in Endpoints}
  /\ accepted = [e \in Endpoints |-> EmptyBag]
  /\ notices = <<>>

\* The replay history of e starts again.
Forget(e) ==
  /\ replay' = [replay EXCEPT ![e] = NoStates]
  /\ accepted' = [accepted EXCEPT ![e] = EmptyBag]

\* What a configuration determines, in the constructor and in SetConfig

\* Mutant of Configure: a session that was ready stays ready.
ConfigureStillReady(e, c) ==
  /\ Usable(c)
  /\ Forget(e)
  /\ config' = [config EXCEPT ![e] = c]
  /\ windowSize' = [windowSize EXCEPT ![e] = Clamp(c.ReplayWindowSize)]
  /\ nextSequence' = [nextSequence EXCEPT ![e] = 1]
  /\ sessionID' = [sessionID EXCEPT ![e] = c.SessionID]
  /\ sessionReady' = [sessionReady EXCEPT ![e] = @ \/ c.SessionID # 0]
  /\ used' = used \cup Claimed(c)
  /\ UNCHANGED <<air, provisioning>>

\* Mutant of Configure: without an explicit session the old one goes on.
ConfigureSameSession(e, c) ==
  /\ Usable(c)
  /\ Forget(e)
  /\ config' = [config EXCEPT ![e] = c]
  /\ windowSize' = [windowSize EXCEPT ![e] = Clamp(c.ReplayWindowSize)]
  /\ nextSequence' = [nextSequence EXCEPT ![e] = 1]
  /\ sessionID' = [sessionID EXCEPT ![e] = IF c.SessionID = 0 THEN @ ELSE c.SessionID]
  /\ sessionReady' = [sessionReady EXCEPT ![e] = sessionID'[e] # 0]
  /\ used' = used \cup Claimed(c)
  /\ UNCHANGED <<air, provisioning>>

Configure(e, c) ==
  /\ Usable(c)
  /\ Forget(e)
  /\ config' = [config EXCEPT ![e] = c]
  /\ windowSize' = [windowSize EXCEPT ![e] = Clamp(c.ReplayWindowSize)]
  /\ nextSequence' = [nextSequence EXCEPT ![e] = 1]
  /\ sessionID' = [sessionID EXCEPT ![e] = c.SessionID]
  /\ sessionReady' = [sessionReady EXCEPT ![e] = c.SessionID # 0]
  /\ used' = used \cup Claimed(c)
  /\ UNCHANGED <<air, provisioning>>

\* Mutant of SessionChange: a session that ends is not reported.
SessionChangeUnended(e, before, after) ==
  IF after # 0 /\ after # before
  THEN <<SessionNotice(e, "SessionEstablished", after)>> ELSE <<>>

\* SessionReset for a session that ends, SessionEstablished for one that begins
SessionChange(e, before, after) ==
  (IF before # 0 /\ before # after
   THEN <<SessionNotice(e, "SessionReset", before)>> ELSE <<>>)
  \o
  (IF after # 0 /\ after # before
   THEN <<SessionNotice(e, "SessionEstablished", after)>> ELSE <<>>)

SetConfig(e, c) ==
  /\ Configure(e, c)
  /\ Notify(e, <<Notice(e, "ConfigurationChanged")>>
                 \o SessionChange(e, sessionID[e], c.SessionID))
  /\ UNCHANGED observed

\* The object is destroyed, with its observers, and constructed again: a
\* restarted device, or an application that replaces the object.
Restart(e, c) ==
  /\ Configure(e, c)
  /\ observed' = observed \ {e}
  /\ notices' = <<>>

ResetReplayProtection(e) ==
  /\ Forget(e)
  /\ Notify(e, <<Notice(e, "ReplayProtectionReset")>>)
  /\ UNCHANGED <<config, outbound, windowSize, observed, provisioning, channel>>

RegisterObserver(e) ==
  /\ observed' = observed \cup {e}
  /\ notices' = <<>>
  /\ UNCHANGED <<config, outbound, inbound, provisioning, channel>>

UnregisterObserver(e) ==
  /\ observed' = observed \ {e}
  /\ notices' = <<>>
  /\ UNCHANGED <<config, outbound, inbound, provisioning, channel>>

-----------------------------------------------------------------------------
(* The key provider and the cipher registry, changed by the application *)

AddKey(e, slot, material) ==
  /\ keys' = [keys EXCEPT ![e][slot] = material]
  /\ notices' = <<>>
  /\ UNCHANGED <<config, outbound, inbound, observed, ciphers, channel>>

RemoveKey(e, slot) == keys[e][slot] # NoKey /\ AddKey(e, slot, NoKey)

Register(e, c) ==
  /\ Found(e, c.Algorithm) = {}
  /\ ciphers' = [ciphers EXCEPT ![e] = @ \cup {c}]
  /\ notices' = <<>>
  /\ UNCHANGED <<config, outbound, inbound, observed, keys, channel>>

Unregister(e, c) ==
  /\ c \in ciphers[e]
  /\ ciphers' = [ciphers EXCEPT ![e] = @ \ {c}]
  /\ notices' = <<>>
  /\ UNCHANGED <<config, outbound, inbound, observed, keys, channel>>

-----------------------------------------------------------------------------
(* Protect *)

OutboundCiphers(e) == Found(e, config[e].OutboundAlgorithm)
OutboundKey(e) == KeyFor(e, config[e].OutboundKeyID, config[e].OutboundAlgorithm)

InvalidArgument(e, p, null) ==
  \/ null /\ p.size # 0
  \/ p.size > config[e].MaximumPlaintextBytes

\* Disabled never protects; Preferred does when it has a cipher and a key.
SendsPlain(e) ==
  \/ config[e].Policy = "Disabled"
  \/ config[e].Policy = "Preferred" /\ (OutboundCiphers(e) = {} \/ OutboundKey(e) = NoKey)

\* The checks before a session is needed
ProtectError(e, p, null) ==
  IF InvalidArgument(e, p, null) THEN "InvalidArgument"
  ELSE IF SendsPlain(e) THEN "None"
  ELSE FirstError(<<
    Check(OutboundCiphers(e) = {}, "UnsupportedAlgorithm"),
    Check(OutboundKey(e) = NoKey, "MissingKey"),
    Check(\E c \in OutboundCiphers(e) : c.KeySize # OutboundKey(e).size,
          "InvalidKeyLength")>>)

\* A length that the header has no room for

\* Mutant of ExceedsFields: the payload's length is not checked.
ExceedsFieldsUnsized(e, p) ==
  \E c \in OutboundCiphers(e) : c.NonceSize > MaxField \/ c.TagSize > MaxField

ExceedsFields(e, p) ==
  \/ \E c \in OutboundCiphers(e) : c.NonceSize > MaxField \/ c.TagSize > MaxField
  \/ p.size > MaxLength

\* The checks between the session and the sequence number

\* Mutant of SequenceError: the last sequence number is given out too.
SequenceErrorUnlimited(e, p) ==
  FirstError(<<
    Check(nextSequence[e] = 0, "SequenceExhausted"),
    Check(ExceedsFields(e, p), "BufferLimitExceeded")>>)

SequenceError(e, p) ==
  FirstError(<<
    Check(nextSequence[e] \in {0, MaxSequence}, "SequenceExhausted"),
    Check(ExceedsFields(e, p), "BufferLimitExceeded")>>)

ProtectRefused(e, p, null) ==
  /\ ProtectError(e, p, null) # "None"
  /\ Refuse(e, ProtectError(e, p, null))

ProtectPlain(e, p) ==
  /\ ProtectError(e, p, FALSE) = "None"
  /\ SendsPlain(e)
  /\ air' = air \cup {Plain(p)}
  /\ notices' = <<>>
  /\ UNCHANGED <<config, outbound, inbound, observed, provisioning, used>>

ReadyToSeal(e, p) == ProtectError(e, p, FALSE) = "None" /\ ~SendsPlain(e)

\* No session identifier can be drawn.
ProtectUnsessioned(e, p) ==
  /\ ReadyToSeal(e, p)
  /\ ~sessionReady[e]
  /\ 0 \in SessionDraws(e)
  /\ Refuse(e, "RandomFailure")

\* A session, perhaps a new one, is in place.
InSession(e, p, id) ==
  /\ ReadyToSeal(e, p)
  /\ id \in SessionDraws(e)
  /\ sessionReady[e] \/ id # 0
  /\ Establish(e, id)
  /\ UNCHANGED <<config, inbound, observed, provisioning>>

\* The session stays established although the call fails.
ProtectExhausted(e, p, id) ==
  /\ InSession(e, p, id)
  /\ SequenceError(e, p) # "None"
  /\ Notify(e, EstablishNotice(e, id) \o Failure(e, SequenceError(e, p)))
  /\ UNCHANGED <<nextSequence, air>>

\* A sequence number is taken, whether or not an envelope comes of it.

\* Mutant of TakeSequence: the number is read and not advanced.
TakeSequenceAgain(e, p) == SequenceError(e, p) = "None" /\ UNCHANGED nextSequence

TakeSequence(e, p) ==
  /\ SequenceError(e, p) = "None"
  /\ nextSequence' = [nextSequence EXCEPT ![e] = @ + 1]

\* The buffer cannot be allocated, the nonce cannot be drawn, or Seal fails.
ProtectSpoiled(e, p, id, fault) ==
  /\ InSession(e, p, id)
  /\ TakeSequence(e, p)
  /\ Notify(e, EstablishNotice(e, id) \o Failure(e, fault))
  /\ UNCHANGED air

\* Nonce, ciphertext and tag
BodySize(c, p) == c.NonceSize + p.size + c.TagSize

\* The fixed header.  Its lengths are cut to one byte, one byte and four.
Header(e, cipher, protocol, p, id) ==
  [version |-> EnvelopeVersion, algorithm |-> cipher.Algorithm, flags |-> 0,
   protocol |-> protocol, keyID |-> config[e].OutboundKeyID,
   senderID |-> config[e].SenderID, sessionID |-> id,
   sequence |-> nextSequence[e], nonceLength |-> cipher.NonceSize % (MaxField + 1),
   tagLength |-> cipher.TagSize % (MaxField + 1),
   ciphertextLength |-> p.size % (MaxLength + 1)]

ProtectSealed(e, protocol, p, id) ==
  /\ InSession(e, p, id)
  /\ TakeSequence(e, p)
  /\ \E c \in OutboundCiphers(e) :
       air' = air \cup {Envelope(Header(e, c, protocol, p, id), BodySize(c, p),
                                OutboundKey(e), p)}
  /\ Notify(e, EstablishNotice(e, id))

-----------------------------------------------------------------------------
(* Unprotect *)

ReplayDomain(h) == [sender |-> h.senderID, key |-> h.keyID, session |-> h.sessionID]

\* The key an envelope names

\* Mutant of InboundKey: the receiver's own outbound key is taken.
InboundKeyOwn(e, h) == KeyFor(e, config[e].OutboundKeyID, h.algorithm)

InboundKey(e, h) == KeyFor(e, h.keyID, h.algorithm)

\* A plain payload that begins with the magic is read as an envelope; it is
\* taken to be shorter than a header.
Truncated(f) == f.kind = "plain" \/ f.size < 0

\* The checks of an envelope, in the order of the code
EnvelopeChecks(e, protocol, f) ==
  LET h      == f.header
      found  == Found(e, h.algorithm)
      key    == InboundKey(e, h)
  IN  <<
    Check(h.version # EnvelopeVersion, "UnsupportedVersion"),
    Check(h.ciphertextLength > config[e].MaximumPlaintextBytes, "BufferLimitExceeded"),
    Check(f.size # Announced(h) \/ 0 \in {h.sessionID, h.sequence, h.keyID},
          "MalformedEnvelope"),
    Check(found = {}, "UnsupportedAlgorithm"),
    Check(\E c \in found : h.nonceLength # c.NonceSize \/ h.tagLength # c.TagSize,
          "MalformedEnvelope"),
    Check(~WouldAccept(replay[e], windowSize[e], ReplayDomain(h), h.sequence),
          "ReplayDetected"),
    Check(key = NoKey, "MissingKey"),
    Check(\E c \in found : key.size # c.KeySize, "InvalidKeyLength"),
    Check(~Opens(key, f), "AuthenticationFailed"),
    Check(h.protocol # protocol, "ProtocolMismatch")>>

EnvelopeError(e, protocol, f) == FirstError(EnvelopeChecks(e, protocol, f))

UnprotectError(e, protocol, f) ==
  CASE f.kind = "null" -> "InvalidArgument"
    [] f.kind # "null" /\ ~LooksProtected(f) ->
         IF config[e].Policy = "Required" THEN "PlaintextRejected" ELSE "None"
    [] f.kind # "null" /\ LooksProtected(f) ->
         IF Truncated(f) THEN "MalformedEnvelope" ELSE EnvelopeError(e, protocol, f)

\* What the receiver learns of an authenticated message
Message(f) ==
  [id |-> [domain |-> ReplayDomain(f.header), sequence |-> f.header.sequence],
   protocol |-> f.header.protocol, algorithm |-> f.header.algorithm,
   payload |-> f.payload]

\* Mutant of UnprotectRejected: the sequence is committed before the envelope
\* is authenticated.
UnprotectRejectedLate(e, protocol, f) ==
  LET error == UnprotectError(e, protocol, f)
  IN  /\ error # "None"
      /\ Notify(e, Failure(e, error))
      /\ replay' =
           IF error \in {"AuthenticationFailed", "ProtocolMismatch"}
           THEN [replay EXCEPT ![e] = Commit(@, ReplayDomain(f.header), f.header.sequence)]
           ELSE replay
      /\ UNCHANGED <<config, outbound, windowSize, accepted, observed, provisioning, channel>>

UnprotectRejected(e, protocol, f) ==
  /\ UnprotectError(e, protocol, f) # "None"
  /\ Refuse(e, UnprotectError(e, protocol, f))

\* A plain payload is handed over unauthenticated; nothing is remembered.
UnprotectPlain(e, protocol, f) ==
  /\ UnprotectError(e, protocol, f) = "None"
  /\ ~LooksProtected(f)
  /\ notices' = <<>>
  /\ UNCHANGED <<config, outbound, inbound, observed, provisioning, channel>>

UnprotectAccepted(e, protocol, f) ==
  /\ UnprotectError(e, protocol, f) = "None"
  /\ LooksProtected(f)
  /\ replay' = [replay EXCEPT
       ![e] = Commit(@, ReplayDomain(f.header), f.header.sequence)]
  /\ accepted' = [accepted EXCEPT ![e] = @ (+) SetToBag({Message(f)})]
  /\ notices' = <<>>
  /\ UNCHANGED <<config, outbound, windowSize, observed, provisioning, channel>>

Unprotect(e, protocol, f) ==
  \/ UnprotectRejected(e, protocol, f)
  \/ UnprotectPlain(e, protocol, f)
  \/ UnprotectAccepted(e, protocol, f)

-----------------------------------------------------------------------------
Protect(e) ==
  \E p \in Payloads :
    \/ \E null \in BOOLEAN : ProtectRefused(e, p, null)
    \/ ProtectPlain(e, p)
    \/ ProtectUnsessioned(e, p)
    \/ \E id \in SessionDraws(e) :
         \/ ProtectExhausted(e, p, id)
         \/ \E fault \in Faults : ProtectSpoiled(e, p, id, fault)
         \/ \E protocol \in Protocols : ProtectSealed(e, protocol, p, id)

Arrivals == {NullInput} \cup air \cup UNION {Damaged(f) : f \in air}

Manage(e) ==
  \/ \E slot \in KeySlots, m \in Materials : AddKey(e, slot, m)
  \/ \E slot \in KeySlots : RemoveKey(e, slot)
  \/ \E c \in Ciphers : Register(e, c) \/ Unregister(e, c)

Operate(e) ==
  \/ \E c \in Configs[e] : SetConfig(e, c) \/ Restart(e, c)
  \/ ResetReplayProtection(e)

Observe(e) == RegisterObserver(e) \/ UnregisterObserver(e)

Next ==
  \/ \E e \in Senders : Protect(e)
  \/ \E e \in Receivers, protocol \in Protocols, f \in Arrivals :
       Unprotect(e, protocol, f)
  \/ \E e \in Endpoints : Operate(e)
  \/ \E e \in Managed : Manage(e)
  \/ \E e \in Observable : Observe(e)

Spec == Init /\ [][Next]_vars

-----------------------------------------------------------------------------
(* Properties *)

AllConfigs == UNION {Configs[e] : e \in Endpoints}
Envelopes  == {f \in air : f.kind = "envelope"}
Sequences  == 1 .. (MaxSequence - 1)     \* the sequences Protect gives out

Domains  == [sender : {c.SenderID : c \in AllConfigs}, key : KeyIDs, session : SessionIDs]
Messages == [id : [domain : Domains, sequence : Sequences], protocol : Protocols,
             algorithm : Algorithms, payload : Payloads]

TypeOK ==
  /\ config \in [Endpoints -> AllConfigs]
  /\ \A e \in Endpoints : /\ DOMAIN replay[e] \subseteq Domains
                          /\ replay[e] \in [DOMAIN replay[e] -> Entry]
  /\ windowSize \in [Endpoints -> 1 .. WordBits]
  /\ sessionID \in [Endpoints -> SessionIDs \cup {0}]
  /\ sessionReady \in [Endpoints -> BOOLEAN]
  /\ nextSequence \in [Endpoints -> 1 .. MaxSequence]
  /\ observed \subseteq Observable
  /\ ciphers \in [Endpoints -> SUBSET Ciphers]
  /\ keys \in [Endpoints -> [KeySlots -> Materials \cup {NoKey}]]
  /\ \A f \in Envelopes : Message(f) \in Messages
  /\ \A e \in Endpoints : BagToSet(accepted[e]) \subseteq Messages

\* An endpoint's session is its claim: ready exactly when there is an
\* identifier, the configured one if there is one, and claimed by nobody else
\* (EnsureSessionID and SetConfig, TransportSecurity.hpp:102-121, 194-196).
SessionsClaimed ==
  /\ \A e \in Endpoints :
       /\ sessionReady[e] <=> sessionID[e] # 0
       /\ config[e].SessionID # 0 => sessionID[e] = config[e].SessionID
       /\ sessionReady[e] => Claim(config[e], sessionID[e]) \in used
  /\ \A d, e \in Endpoints :
       d # e /\ sessionReady[d] /\ sessionReady[e]
         => Claim(config[d], sessionID[d]) # Claim(config[e], sessionID[e])

EnvelopeClaim(f) == [sender |-> f.header.senderID, session |-> f.header.sessionID]

\* Two different envelopes never share sender, session and sequence, whatever
\* is reconfigured, restarted or refused in between: a second envelope of the
\* same identity would be dropped by every receiver as a replay of the first
\* (Protect and SetConfig, TransportSecurity.hpp:194-196, 253-263).
NoIdentityReuse ==
  \A f, g \in Envelopes :
    EnvelopeClaim(f) = EnvelopeClaim(g) /\ f.header.sequence = g.header.sequence
      => f = g

\* The inductive invariant behind it: whoever has a session has claimed it
\* alone, every envelope belongs to a claim, and those of a session in use
\* precede its next sequence (TransportSecurity.hpp:102-121, 189-202, 263).
IdentityIInv ==
  /\ config \in [Endpoints -> AllConfigs]
  /\ sessionID \in [Endpoints -> SessionIDs \cup {0}]
  /\ sessionReady \in [Endpoints -> BOOLEAN]
  /\ nextSequence \in [Endpoints -> Nat]
  /\ SessionsClaimed
  /\ \A f \in Envelopes : f.header.sequence \in Nat /\ EnvelopeClaim(f) \in used
  /\ \A e \in Endpoints, f \in Envelopes :
       sessionReady[e] /\ EnvelopeClaim(f) = Claim(config[e], sessionID[e])
         => f.header.sequence < nextSequence[e]
  /\ NoIdentityReuse

\* The endpoints implement the abstract channel: what a receiver accepts as
\* authenticated was sent exactly so, and is accepted once (Unprotect,
\* TransportSecurity.hpp:359-416).
Channel == INSTANCE AuthenticChannel
             WITH sent <- {Message(f) : f \in Envelopes}, delivered <- accepted

ImplementsChannel == Channel!Spec

\* The sequences e has accepted in a domain
History(e, d) == {m.id.sequence : m \in {n \in BagToSet(accepted[e]) : n.id.domain = d}}

\* The receiver can open f at all: it has the cipher and the key.
CanOpen(e, f) ==
  /\ f.header.ciphertextLength <= config[e].MaximumPlaintextBytes
  /\ KeyFor(e, f.header.keyID, f.header.algorithm) = f.sealedKey
  /\ \E c \in Found(e, f.header.algorithm) :
       /\ c.KeySize = f.sealedKey.size
       /\ c.NonceSize = f.header.nonceLength
       /\ c.TagSize = f.header.tagLength

\* No call that went before, of whatever frame, makes a receiver drop an
\* undamaged envelope it could open, unless that envelope itself was accepted
\* before or newer ones have pushed it out of the window; and then it is
\* dropped as a replay (Unprotect, TransportSecurity.hpp:375-408).
AcceptsExactlyFresh ==
  \A e \in Receivers, f \in Envelopes :
    LET seen == History(e, ReplayDomain(f.header))
        seq  == f.header.sequence
    IN  CanOpen(e, f) =>
          UnprotectError(e, f.header.protocol, f) =
            IF seq \notin seen /\ \A t \in seen : t - seq < windowSize[e]
            THEN "None" ELSE "ReplayDetected"

\* The replay history has an entry for exactly the sender, key and session of
\* the messages accepted since the last reset: no frame that is refused, however
\* far it came, makes the table grow (Unprotect, TransportSecurity.hpp:375-408,
\* ReplayWindow.hpp:35-49).
OnlyAcceptedRemembered ==
  \A e \in Endpoints :
    DOMAIN replay[e] = {m.id.domain : m \in BagToSet(accepted[e])}

\* What an observer takes the session to be after one more event
Learn(session, n) ==
  CASE n.what = "SessionEstablished" -> n.session
    [] n.what = "SessionReset" -> IF n.session = session THEN 0 ELSE session
    [] OTHER -> session

\* ... and after all of these, in this order
Followed(session, events) ==
  LET known[i \in 0 .. Len(events)] ==
        IF i = 0 THEN session ELSE Learn(known[i - 1], events[i])
  IN  known[Len(events)]

\* What the observer of e makes of the notices: those of another object are
\* not for it.
Heard(e) ==
  [i \in DOMAIN notices |-> IF notices[i].to = e THEN notices[i] ELSE Notice(e, "Nothing")]

\* An observer that follows the session events always knows the session, also
\* when a call that establishes one fails, or one call ends a session and
\* begins another (TransportSecurity.hpp:107, 116, 197-201).
ObserverFollowsSession ==
  [][\A e \in observed \cap observed' :
       sessionID'[e] = Followed(sessionID[e], Heard(e)')]_vars

-----------------------------------------------------------------------------
(* What the documentation says and the code does not do *)

Told(e, what) == \E i \in DOMAIN notices : notices[i].to = e /\ notices[i].what = what

\* "Called when transport-security sequence/session state is reset.", "Called
\* when inbound replay-protection state is reset."
\* (ITransportSecurityObserver.hpp:23, 33): a call that starts the outbound
\* sequence again and loses the replay history reports at least one of the two
\* resets (SetConfig, TransportSecurity.hpp:193-200).
ResetsReported ==
  [][\A e \in observed \cap observed' :
       nextSequence'[e] < nextSequence[e] /\ replay[e] # NoStates /\ replay'[e] = NoStates
         => Told(e, "SessionReset")' \/ Told(e, "ReplayProtectionReset")']_vars

\* "`Disabled`: plaintext send/receive." (TRANSPORT_SECURITY.md:89): what a
\* Disabled endpoint receives as plaintext, it delivers.
DisabledReceivesPlaintext ==
  \A e \in Receivers, protocol \in Protocols, f \in air \ Envelopes :
    config[e].Policy = "Disabled" => UnprotectError(e, protocol, f) = "None"

\* "A packet is not delivered upward when any of the following occurs: ...
\* configured payload limit violation." (TRANSPORT_SECURITY.md:123-134): a
\* delivered payload respects MaximumPlaintextBytes.
LimitGuardsDelivery ==
  \A e \in Receivers, protocol \in Protocols, f \in air :
    UnprotectError(e, protocol, f) = "None"
      => f.payload.size <= config[e].MaximumPlaintextBytes

\* At least one of these two promises about plaintext is kept in every state
\* (Unprotect, TransportSecurity.hpp:325-333).
PlaintextPromises == DisabledReceivesPlaintext \/ LimitGuardsDelivery
=============================================================================
