----------------------- MODULE TransportSecurity_proofs -----------------------
(***************************************************************************)
(* Proofs about TransportSecurity for every set of endpoints, ciphers,     *)
(* keys, payloads, sessions and configurations.                            *)
(***************************************************************************)
EXTENDS TransportSecurity, ReplayTable_proofs

USE EndpointsAssumption, IdentifiersAssumption, ConfigsAssumption

-----------------------------------------------------------------------------
(* The identity of envelopes.  Sessions that an application chooses are new *)
(* ones throughout (~ReuseSessions).                                       *)

\* A step that touches neither sessions nor envelopes keeps the invariant.
LEMMA QuietIdentity ==
  ASSUME IdentityIInv, UNCHANGED <<config, outbound, used>>, Envelopes' = Envelopes
  PROVE  IdentityIInv'
BY DEF IdentityIInv, SessionsClaimed, NoIdentityReuse, outbound, Claim, EnvelopeClaim

\* The session an envelope is sealed in is the endpoint's own claim, or one
\* that no endpoint ever made.
LEMMA SessionIsOwn ==
  ASSUME IdentityIInv, NEW e \in Endpoints, NEW p, NEW id, InSession(e, p, id)
  PROVE  /\ id \in SessionIDs
         /\ sessionReady[e] => id = sessionID[e]
         /\ ~sessionReady[e] => Claim(config[e], id) \notin used
<1>1. id \in SessionDraws(e) /\ (sessionReady[e] \/ id # 0)
  BY DEF InSession
<1>2. CASE sessionReady[e]
  BY <1>1, <1>2 DEF SessionDraws, IdentityIInv, SessionsClaimed
<1>3. CASE ~sessionReady[e]
  <2>1. config[e].SessionID = 0
    BY <1>3 DEF IdentityIInv, SessionsClaimed, AllConfigs
  <2>2. id \in SessionIDs /\ \A u \in used : u.session # id
    BY <1>1, <1>3, <2>1 DEF SessionDraws
  <2>3. QED
    BY <1>3, <2>2 DEF Claim
<1>4. QED
  BY <1>2, <1>3

\* Establishing a session keeps the claims apart.
LEMMA EstablishClaims ==
  ASSUME IdentityIInv, NEW e \in Endpoints, NEW p, NEW id, InSession(e, p, id)
  PROVE  /\ sessionID' \in [Endpoints -> SessionIDs \cup {0}]
         /\ sessionReady' \in [Endpoints -> BOOLEAN]
         /\ config' = config
         /\ SessionsClaimed'
<1>1. /\ sessionID' = [sessionID EXCEPT ![e] = id]
      /\ sessionReady' = [sessionReady EXCEPT ![e] = TRUE]
      /\ used' = used \cup {Claim(config[e], id)}
      /\ config' = config
  BY DEF InSession, Establish
<1>2. /\ id \in SessionIDs
      /\ sessionReady[e] => id = sessionID[e]
      /\ ~sessionReady[e] => Claim(config[e], id) \notin used
  BY SessionIsOwn
<1>3. id # 0
  BY <1>2
<1>4. /\ sessionID' \in [Endpoints -> SessionIDs \cup {0}]
      /\ sessionReady' \in [Endpoints -> BOOLEAN]
  BY <1>1, <1>2 DEF IdentityIInv
<1>5. ASSUME NEW d \in Endpoints
      PROVE  /\ sessionReady'[d] <=> sessionID'[d] # 0
             /\ config'[d].SessionID # 0 => sessionID'[d] = config'[d].SessionID
             /\ sessionReady'[d] => Claim(config'[d], sessionID'[d]) \in used'
  <2>1. CASE d = e
    BY <1>1, <1>2, <1>3, <2>1 DEF IdentityIInv, SessionsClaimed
  <2>2. CASE d # e
    BY <1>1, <2>2 DEF IdentityIInv, SessionsClaimed
  <2>3. QED
    BY <2>1, <2>2
<1>6. ASSUME NEW c \in Endpoints, NEW d \in Endpoints, c # d,
             sessionReady'[c], sessionReady'[d]
      PROVE  Claim(config'[c], sessionID'[c]) # Claim(config'[d], sessionID'[d])
  <2>1. ASSUME NEW x \in Endpoints, x # e, sessionReady'[x]
        PROVE  Claim(config'[x], sessionID'[x]) # Claim(config[e], id)
    <3>1. /\ sessionReady[x] /\ sessionID'[x] = sessionID[x] /\ config'[x] = config[x]
          /\ Claim(config[x], sessionID[x]) \in used
      BY <1>1, <2>1 DEF IdentityIInv, SessionsClaimed
    <3>2. CASE sessionReady[e]
      BY <1>2, <2>1, <3>1, <3>2 DEF IdentityIInv, SessionsClaimed
    <3>3. CASE ~sessionReady[e]
      BY <1>2, <3>1, <3>3
    <3>4. QED
      BY <3>2, <3>3
  <2>2. sessionID'[e] = id /\ config'[e] = config[e]
    BY <1>1 DEF IdentityIInv
  <2>3. CASE c = e \/ d = e
    BY <1>6, <2>1, <2>2, <2>3
  <2>4. CASE c # e /\ d # e
    <3>1. /\ sessionReady[c] /\ sessionID'[c] = sessionID[c]
          /\ sessionReady[d] /\ sessionID'[d] = sessionID[d]
      BY <1>1, <1>6, <2>4 DEF IdentityIInv
    <3>2. QED
      BY <1>1, <1>6, <3>1 DEF IdentityIInv, SessionsClaimed
  <2>5. QED
    BY <2>3, <2>4
<1>7. QED
  BY <1>1, <1>4, <1>5, <1>6 DEF SessionsClaimed

\* Before anything is sealed in it, a session in place contains only earlier
\* sequences.
LEMMA SessionBehind ==
  ASSUME IdentityIInv, NEW e \in Endpoints, NEW p, NEW id, InSession(e, p, id),
         NEW f \in Envelopes, EnvelopeClaim(f) = Claim(config[e], id)
  PROVE  f.header.sequence < nextSequence[e]
<1>1. EnvelopeClaim(f) \in used
  BY DEF IdentityIInv
<1>2. sessionReady[e] /\ id = sessionID[e]
  BY <1>1, SessionIsOwn
<1>3. QED
  BY <1>2 DEF IdentityIInv

\* A call that establishes or uses a session and sends nothing.
LEMMA SessionKeepsIdentity ==
  ASSUME IdentityIInv, NEW e \in Endpoints, NEW p, NEW id, InSession(e, p, id),
         Envelopes' = Envelopes,
         \/ UNCHANGED nextSequence
         \/ nextSequence' = [nextSequence EXCEPT ![e] = @ + 1]
  PROVE  IdentityIInv'
<1>1. /\ sessionID' = [sessionID EXCEPT ![e] = id]
      /\ sessionReady' = [sessionReady EXCEPT ![e] = TRUE]
      /\ used \subseteq used'
      /\ config' = config
  BY DEF InSession, Establish
<1>2. /\ sessionID' \in [Endpoints -> SessionIDs \cup {0}]
      /\ sessionReady' \in [Endpoints -> BOOLEAN]
      /\ SessionsClaimed'
  BY EstablishClaims
<1>3. /\ nextSequence' \in [Endpoints -> Nat]
      /\ \A d \in Endpoints : nextSequence[d] \in Nat /\ nextSequence'[d] >= nextSequence[d]
  BY DEF IdentityIInv
<1>4. ASSUME NEW d \in Endpoints, NEW f \in Envelopes, sessionReady'[d],
             EnvelopeClaim(f) = Claim(config[d], sessionID'[d])
      PROVE  f.header.sequence < nextSequence[d]
  <2>1. CASE d = e
    BY <1>1, <1>4, <2>1, SessionBehind DEF IdentityIInv
  <2>2. CASE d # e
    BY <1>1, <1>4, <2>2 DEF IdentityIInv
  <2>3. QED
    BY <2>1, <2>2
<1>5. \A f \in Envelopes' : f.header.sequence \in Nat /\ EnvelopeClaim(f) \in used'
  BY <1>1 DEF IdentityIInv
<1>6. \A d \in Endpoints, f \in Envelopes' :
        sessionReady'[d] /\ EnvelopeClaim(f) = Claim(config'[d], sessionID'[d])
          => f.header.sequence < nextSequence'[d]
  BY <1>1, <1>3, <1>4, <1>5
<1>7. config' \in [Endpoints -> AllConfigs] /\ NoIdentityReuse'
  BY <1>1 DEF IdentityIInv, NoIdentityReuse, EnvelopeClaim
<1>8. QED
  BY <1>2, <1>3, <1>5, <1>6, <1>7 DEF IdentityIInv, EnvelopeClaim

\* An envelope that is sealed takes the next sequence of its own session.
LEMMA SealKeepsIdentity ==
  ASSUME IdentityIInv, NEW e \in Endpoints, NEW protocol, NEW p, NEW id,
         ProtectSealed(e, protocol, p, id)
  PROVE  IdentityIInv'
<1>1. PICK c \in OutboundCiphers(e) :
        air' = air \cup {Envelope(Header(e, c, protocol, p, id), BodySize(c, p), OutboundKey(e), p)}
  BY DEF ProtectSealed
<1> DEFINE new == Envelope(Header(e, c, protocol, p, id), BodySize(c, p), OutboundKey(e), p)
<1>2. /\ InSession(e, p, id)
      /\ nextSequence' = [nextSequence EXCEPT ![e] = @ + 1]
  BY DEF ProtectSealed, TakeSequence
<1>3. /\ Envelopes' = Envelopes \cup {new}
      /\ new.header.sequence = nextSequence[e]
      /\ EnvelopeClaim(new) = Claim(config[e], id)
  BY <1>1 DEF Envelopes, Envelope, Header, EnvelopeClaim, Claim
<1>4. /\ sessionID' = [sessionID EXCEPT ![e] = id]
      /\ sessionReady' = [sessionReady EXCEPT ![e] = TRUE]
      /\ used' = used \cup {Claim(config[e], id)}
      /\ config' = config
  BY <1>2 DEF InSession, Establish
<1>5. /\ sessionID' \in [Endpoints -> SessionIDs \cup {0}]
      /\ sessionReady' \in [Endpoints -> BOOLEAN]
      /\ SessionsClaimed'
  BY <1>2, EstablishClaims
<1>6. /\ nextSequence' \in [Endpoints -> Nat]
      /\ nextSequence[e] \in Nat
      /\ nextSequence'[e] = nextSequence[e] + 1
      /\ \A d \in Endpoints \ {e} : nextSequence'[d] = nextSequence[d]
  BY <1>2 DEF IdentityIInv
<1>7. ASSUME NEW f \in Envelopes, EnvelopeClaim(f) = EnvelopeClaim(new)
      PROVE  f.header.sequence < nextSequence[e]
  BY <1>2, <1>3, <1>7, SessionBehind
<1>8. \A f \in Envelopes' : f.header.sequence \in Nat /\ EnvelopeClaim(f) \in used'
  BY <1>3, <1>4, <1>6 DEF IdentityIInv
<1>9. ASSUME NEW d \in Endpoints, NEW f \in Envelopes', sessionReady'[d],
             EnvelopeClaim(f) = Claim(config'[d], sessionID'[d])
      PROVE  f.header.sequence < nextSequence'[d]
  <2>1. CASE d = e
    <3>1. EnvelopeClaim(f) = EnvelopeClaim(new)
      BY <1>3, <1>4, <1>9, <2>1 DEF IdentityIInv
    <3>2. CASE f \in Envelopes
      BY <1>6, <1>7, <1>8, <2>1, <3>1, <3>2
    <3>3. CASE f = new
      BY <1>3, <1>6, <2>1, <3>3
    <3>4. QED
      BY <1>3, <3>2, <3>3
  <2>2. CASE d # e
    <3>1. /\ sessionReady[d] /\ sessionID'[d] = sessionID[d]
          /\ sessionReady'[e] /\ sessionID'[e] = id
      BY <1>4, <1>9, <2>2 DEF IdentityIInv
    <3>2. f # new
      BY <1>3, <1>4, <1>5, <1>9, <2>2, <3>1 DEF SessionsClaimed
    <3>3. QED
      BY <1>3, <1>4, <1>6, <1>9, <2>2, <3>1, <3>2 DEF IdentityIInv
  <2>3. QED
    BY <2>1, <2>2
<1>10. NoIdentityReuse'
  <2> SUFFICES ASSUME NEW f \in Envelopes', NEW g \in Envelopes',
                      EnvelopeClaim(f) = EnvelopeClaim(g),
                      f.header.sequence = g.header.sequence
               PROVE  f = g
    BY DEF NoIdentityReuse, EnvelopeClaim
  <2>1. CASE f \in Envelopes /\ g \in Envelopes
    BY <2>1 DEF IdentityIInv, NoIdentityReuse
  <2>2. CASE f = new \/ g = new
    BY <1>3, <1>6, <1>7, <2>2
  <2>3. QED
    BY <1>3, <2>1, <2>2
<1>11. QED
  BY <1>4, <1>5, <1>6, <1>8, <1>9, <1>10 DEF IdentityIInv, EnvelopeClaim

\* A configuration claims a session nobody has used, or none.
LEMMA ConfigureKeepsIdentity ==
  ASSUME ~ReuseSessions, IdentityIInv, NEW e \in Endpoints, NEW c \in Configs[e],
         Configure(e, c)
  PROVE  IdentityIInv'
<1>1. /\ config' = [config EXCEPT ![e] = c]
      /\ nextSequence' = [nextSequence EXCEPT ![e] = 1]
      /\ sessionID' = [sessionID EXCEPT ![e] = c.SessionID]
      /\ sessionReady' = [sessionReady EXCEPT ![e] = c.SessionID # 0]
      /\ used' = used \cup Claimed(c)
      /\ Envelopes' = Envelopes
  BY DEF Configure, Envelopes
<1>2. c.SessionID \in SessionIDs \cup {0} /\ c \in AllConfigs
  BY DEF AllConfigs
<1>3. c.SessionID # 0 => /\ Claim(c, c.SessionID) \notin used
                         /\ Claim(c, c.SessionID) \in used'
  BY <1>1 DEF Configure, Usable, Claimed
<1>4. /\ config' \in [Endpoints -> AllConfigs]
      /\ sessionID' \in [Endpoints -> SessionIDs \cup {0}]
      /\ sessionReady' \in [Endpoints -> BOOLEAN]
      /\ nextSequence' \in [Endpoints -> Nat]
  BY <1>1, <1>2 DEF IdentityIInv
<1>5. /\ config'[e] = c /\ sessionID'[e] = c.SessionID
      /\ sessionReady'[e] <=> c.SessionID # 0
      /\ \A d \in Endpoints \ {e} :
           /\ config'[d] = config[d] /\ sessionID'[d] = sessionID[d]
           /\ sessionReady'[d] = sessionReady[d]
           /\ nextSequence'[d] = nextSequence[d]
  BY <1>1 DEF IdentityIInv
<1>6. SessionsClaimed'
  <2>1. ASSUME NEW d \in Endpoints
        PROVE  /\ sessionReady'[d] <=> sessionID'[d] # 0
               /\ config'[d].SessionID # 0 => sessionID'[d] = config'[d].SessionID
               /\ sessionReady'[d] => Claim(config'[d], sessionID'[d]) \in used'
    <3>1. CASE d = e
      BY <1>3, <1>5, <3>1
    <3>2. CASE d # e
      BY <1>1, <1>5, <3>2 DEF IdentityIInv, SessionsClaimed
    <3>3. QED
      BY <3>1, <3>2
  <2>2. ASSUME NEW x \in Endpoints, NEW y \in Endpoints, x # y,
               sessionReady'[x], sessionReady'[y]
        PROVE  Claim(config'[x], sessionID'[x]) # Claim(config'[y], sessionID'[y])
    <3>1. ASSUME NEW d \in Endpoints, d # e, sessionReady'[d]
          PROVE  Claim(config'[d], sessionID'[d]) \in used
      BY <1>5, <3>1 DEF IdentityIInv, SessionsClaimed
    <3>2. CASE x = e \/ y = e
      BY <1>3, <1>5, <2>2, <3>1, <3>2
    <3>3. CASE x # e /\ y # e
      BY <1>5, <2>2, <3>3 DEF IdentityIInv, SessionsClaimed
    <3>4. QED
      BY <3>2, <3>3
  <2>3. QED
    BY <2>1, <2>2 DEF SessionsClaimed
<1>7. \A f \in Envelopes' : f.header.sequence \in Nat /\ EnvelopeClaim(f) \in used'
  BY <1>1 DEF IdentityIInv
<1>8. ASSUME NEW d \in Endpoints, NEW f \in Envelopes', sessionReady'[d],
             EnvelopeClaim(f) = Claim(config'[d], sessionID'[d])
      PROVE  f.header.sequence < nextSequence'[d]
  <2>1. EnvelopeClaim(f) \in used
    BY <1>1 DEF IdentityIInv
  <2>2. d # e
    BY <1>3, <1>5, <1>8, <2>1
  <2>3. QED
    BY <1>1, <1>5, <1>8, <2>2 DEF IdentityIInv
<1>9. NoIdentityReuse'
  BY <1>1 DEF IdentityIInv, NoIdentityReuse, EnvelopeClaim
<1>10. QED
  BY <1>4, <1>6, <1>7, <1>8, <1>9 DEF IdentityIInv, EnvelopeClaim

LEMMA InitIdentity == ~ReuseSessions /\ Init => IdentityIInv
<1> SUFFICES ASSUME ~ReuseSessions, Init
             PROVE  IdentityIInv
  OBVIOUS
<1>1. \A e \in Endpoints : config[e] \in AllConfigs /\ config[e].SessionID \in SessionIDs \cup {0}
  BY DEF Init, AllConfigs
<1>2. /\ config \in [Endpoints -> AllConfigs]
      /\ sessionID \in [Endpoints -> SessionIDs \cup {0}]
      /\ sessionReady \in [Endpoints -> BOOLEAN]
      /\ nextSequence \in [Endpoints -> Nat]
  BY <1>1 DEF Init, AllConfigs
<1>3. Envelopes = {}
  BY DEF Init, Envelopes
<1>4. ASSUME NEW e \in Endpoints, sessionReady[e]
      PROVE  Claim(config[e], sessionID[e]) \in Claimed(config[e])
  BY <1>4 DEF Init, Claimed
<1>5. ASSUME NEW d \in Endpoints, NEW e \in Endpoints, d # e,
             sessionReady[d], sessionReady[e]
      PROVE  Claim(config[d], sessionID[d]) # Claim(config[e], sessionID[e])
  <2>1. Claimed(config[d]) \cap Claimed(config[e]) = {}
    BY <1>5 DEF Init
  <2>2. QED
    BY <1>4, <1>5, <2>1
<1>6. ASSUME NEW e \in Endpoints
      PROVE  /\ sessionReady[e] <=> sessionID[e] # 0
             /\ config[e].SessionID # 0 => sessionID[e] = config[e].SessionID
             /\ sessionReady[e] => Claim(config[e], sessionID[e]) \in used
  <2>1. Claimed(config[e]) \subseteq used
    BY DEF Init
  <2>2. QED
    BY <1>4, <2>1 DEF Init
<1>7. SessionsClaimed
  BY <1>5, <1>6 DEF SessionsClaimed
<1>8. QED
  BY <1>2, <1>3, <1>7 DEF IdentityIInv, NoIdentityReuse

LEMMA NextIdentity == ~ReuseSessions /\ IdentityIInv /\ [Next]_vars => IdentityIInv'
<1> SUFFICES ASSUME ~ReuseSessions, IdentityIInv, [Next]_vars
             PROVE  IdentityIInv'
  OBVIOUS
<1>1. UNCHANGED channel => Envelopes' = Envelopes
  BY DEF channel, Envelopes
<1>2. ASSUME NEW e \in Senders, Protect(e)
      PROVE  IdentityIInv'
  <2>1. PICK p \in Payloads :
          \/ \E null \in BOOLEAN : ProtectRefused(e, p, null)
          \/ ProtectPlain(e, p)
          \/ ProtectUnsessioned(e, p)
          \/ \E id \in SessionDraws(e) :
               \/ ProtectExhausted(e, p, id)
               \/ \E fault \in Faults : ProtectSpoiled(e, p, id, fault)
               \/ \E protocol \in Protocols : ProtectSealed(e, protocol, p, id)
    BY <1>2 DEF Protect
  <2>2. ASSUME NEW null \in BOOLEAN, ProtectRefused(e, p, null)
        PROVE  IdentityIInv'
    BY <1>1, <2>2, QuietIdentity DEF ProtectRefused, Refuse, channel
  <2>3. CASE ProtectPlain(e, p)
    <3>1. Envelopes' = Envelopes
      BY <2>3 DEF ProtectPlain, Envelopes, Plain
    <3>2. QED
      BY <2>3, <3>1, QuietIdentity DEF ProtectPlain
  <2>4. CASE ProtectUnsessioned(e, p)
    BY <1>1, <2>4, QuietIdentity DEF ProtectUnsessioned, Refuse, channel
  <2>5. ASSUME NEW id \in SessionDraws(e), ProtectExhausted(e, p, id)
        PROVE  IdentityIInv'
    <3>1. Envelopes' = Envelopes
      BY <2>5 DEF ProtectExhausted, Envelopes
    <3>2. QED
      BY <1>2, <2>5, <3>1, SessionKeepsIdentity DEF ProtectExhausted
  <2>6. ASSUME NEW id \in SessionDraws(e), NEW fault \in Faults,
               ProtectSpoiled(e, p, id, fault)
        PROVE  IdentityIInv'
    <3>1. Envelopes' = Envelopes
      BY <2>6 DEF ProtectSpoiled, Envelopes
    <3>2. QED
      BY <1>2, <2>6, <3>1, SessionKeepsIdentity DEF ProtectSpoiled, TakeSequence
  <2>7. ASSUME NEW id \in SessionDraws(e), NEW protocol \in Protocols,
               ProtectSealed(e, protocol, p, id)
        PROVE  IdentityIInv'
    BY <1>2, <2>7, SealKeepsIdentity
  <2>8. QED
    BY <2>1, <2>2, <2>3, <2>4, <2>5, <2>6, <2>7
<1>3. ASSUME NEW e \in Receivers, NEW protocol \in Protocols, NEW f \in Arrivals,
             Unprotect(e, protocol, f)
      PROVE  IdentityIInv'
  <2>1. UNCHANGED <<config, outbound, channel>>
    BY <1>3 DEF Unprotect, UnprotectRejected, UnprotectPlain, UnprotectAccepted, Refuse
  <2>2. QED
    BY <1>1, <2>1, QuietIdentity DEF channel
<1>4. ASSUME NEW e \in Endpoints, Operate(e)
      PROVE  IdentityIInv'
  <2>1. ASSUME NEW c \in Configs[e], SetConfig(e, c) \/ Restart(e, c)
        PROVE  IdentityIInv'
    BY <2>1, ConfigureKeepsIdentity DEF SetConfig, Restart
  <2>2. CASE ResetReplayProtection(e)
    BY <1>1, <2>2, QuietIdentity DEF ResetReplayProtection, channel
  <2>3. QED
    BY <1>4, <2>1, <2>2 DEF Operate
<1>5. ASSUME NEW e \in Managed, Manage(e)
      PROVE  IdentityIInv'
  <2>1. UNCHANGED <<config, outbound, channel>>
    BY <1>5 DEF Manage, AddKey, RemoveKey, Register, Unregister
  <2>2. QED
    BY <1>1, <2>1, QuietIdentity DEF channel
<1>6. ASSUME NEW e \in Observable, Observe(e)
      PROVE  IdentityIInv'
  <2>1. UNCHANGED <<config, outbound, channel>>
    BY <1>6 DEF Observe, RegisterObserver, UnregisterObserver
  <2>2. QED
    BY <1>1, <2>1, QuietIdentity DEF channel
<1>7. CASE UNCHANGED vars
  BY <1>1, <1>7, QuietIdentity DEF vars, channel
<1>8. QED
  BY <1>2, <1>3, <1>4, <1>5, <1>6, <1>7 DEF Next

\* As long as applications choose new session identifiers, every session in use
\* is claimed by one endpoint alone and its envelopes precede its next sequence.
THEOREM IdentityInvariant == Spec => [](ReuseSessions \/ IdentityIInv)
<1>1. CASE ReuseSessions
  BY <1>1, PTL
<1>2. CASE ~ReuseSessions
  <2>1. Init => IdentityIInv
    BY <1>2, InitIdentity
  <2>2. IdentityIInv /\ [Next]_vars => IdentityIInv'
    BY <1>2, NextIdentity
  <2>3. QED
    BY <2>1, <2>2, PTL DEF Spec
<1>3. QED
  BY <1>1, <1>2

\* Then no two envelopes share sender, session and sequence, for any number of
\* endpoints, sessions, reconfigurations and restarts.
THEOREM IdentitiesAreUnique == Spec => [](ReuseSessions \/ NoIdentityReuse)
<1>1. IdentityIInv => NoIdentityReuse
  BY DEF IdentityIInv
<1>2. QED
  BY <1>1, IdentityInvariant, PTL

\* And whoever has a session has claimed it, the configured one if there is one,
\* and no two endpoints have the same.
THEOREM SessionsStayClaimed == Spec => [](ReuseSessions \/ SessionsClaimed)
<1>1. IdentityIInv => SessionsClaimed
  BY DEF IdentityIInv
<1>2. QED
  BY <1>1, IdentityInvariant, PTL

-----------------------------------------------------------------------------
(* The replay table and the messages behind it *)

\* The inductive form: the histories of all endpoints are functions.
RememberedIInv ==
  /\ replay \in [Endpoints -> {replay[e] : e \in Endpoints}]
  /\ accepted \in [Endpoints -> {accepted[e] : e \in Endpoints}]
  /\ OnlyAcceptedRemembered

\* Neither history changes.
LEMMA SameRemembered ==
  ASSUME RememberedIInv, UNCHANGED <<replay, accepted>>
  PROVE  RememberedIInv'
BY DEF RememberedIInv, OnlyAcceptedRemembered

\* Both histories start again.
LEMMA ForgetRemembered ==
  ASSUME RememberedIInv, NEW e \in Endpoints, Forget(e)
  PROVE  RememberedIInv'
<1>1. /\ replay' = [replay EXCEPT ![e] = NoStates]
      /\ accepted' = [accepted EXCEPT ![e] = EmptyBag]
  BY DEF Forget
<1>2. DOMAIN NoStates = {} /\ BagToSet(EmptyBag) = {}
  BY DEF NoStates, EmptyBag, BagToSet, SetToBag
<1>3. QED
  BY <1>1, <1>2 DEF RememberedIInv, OnlyAcceptedRemembered

\* A message is committed and counted in the same step, at one endpoint.
LEMMA AcceptedGrows ==
  ASSUME RememberedIInv, NEW e \in Endpoints, NEW protocol, NEW f,
         UnprotectAccepted(e, protocol, f)
  PROVE  /\ replay'[e] = Commit(replay[e], ReplayDomain(f.header), f.header.sequence)
         /\ accepted'[e] = accepted[e] (+) SetToBag({Message(f)})
         /\ BagToSet(accepted'[e]) = BagToSet(accepted[e]) \cup {Message(f)}
         /\ \A d \in Endpoints \ {e} : replay'[d] = replay[d] /\ accepted'[d] = accepted[d]
<1> DEFINE m == Message(f)
<1>1. /\ replay' = [replay EXCEPT
           ![e] = Commit(@, ReplayDomain(f.header), f.header.sequence)]
      /\ accepted' = [accepted EXCEPT ![e] = @ (+) SetToBag({m})]
  BY DEF UnprotectAccepted
<1> HIDE DEF m
<1>2. BagToSet(accepted'[e]) = BagToSet(accepted[e]) \cup {m}
  BY <1>1 DEF RememberedIInv, BagToSet, SetToBag, (+)
<1>3. /\ replay'[e] = Commit(replay[e], ReplayDomain(f.header), f.header.sequence)
      /\ accepted'[e] = accepted[e] (+) SetToBag({m})
      /\ \A d \in Endpoints \ {e} : replay'[d] = replay[d] /\ accepted'[d] = accepted[d]
  BY <1>1 DEF RememberedIInv
<1>4. QED
  BY <1>2, <1>3 DEF m

LEMMA AcceptRemembered ==
  ASSUME RememberedIInv, NEW e \in Endpoints, NEW protocol, NEW f,
         UnprotectAccepted(e, protocol, f)
  PROVE  RememberedIInv'
<1> DEFINE m == Message(f)
<1>1. /\ replay'[e] = Commit(replay[e], ReplayDomain(f.header), f.header.sequence)
      /\ BagToSet(accepted'[e]) = BagToSet(accepted[e]) \cup {m}
      /\ \A d \in Endpoints \ {e} : replay'[d] = replay[d] /\ accepted'[d] = accepted[d]
  BY AcceptedGrows, Zenon
<1>2. DOMAIN replay'[e] = DOMAIN replay[e] \cup {m.id.domain}
  BY <1>1 DEF Commit, Message
<1>3. ASSUME NEW d \in Endpoints
      PROVE  DOMAIN replay'[d] = {n.id.domain : n \in BagToSet(accepted'[d])}
  <2>1. DOMAIN replay[d] = {n.id.domain : n \in BagToSet(accepted[d])}
    BY DEF RememberedIInv, OnlyAcceptedRemembered
  <2>2. CASE d = e
    <3> HIDE DEF m
    <3>1. QED
      BY <1>1, <1>2, <2>1, <2>2
  <2>3. CASE d # e
    BY <1>1, <2>1, <2>3
  <2>4. QED
    BY <2>2, <2>3
<1>4. /\ replay' \in [Endpoints -> {replay'[d] : d \in Endpoints}]
      /\ accepted' \in [Endpoints -> {accepted'[d] : d \in Endpoints}]
  BY DEF RememberedIInv, UnprotectAccepted
<1>5. QED
  BY <1>3, <1>4 DEF RememberedIInv, OnlyAcceptedRemembered

LEMMA InitRemembered == Init => RememberedIInv
BY DEF Init, RememberedIInv, OnlyAcceptedRemembered, NoStates, EmptyBag, BagToSet, SetToBag

LEMMA NextRemembered == RememberedIInv /\ [Next]_vars => RememberedIInv'
<1> SUFFICES ASSUME RememberedIInv, [Next]_vars PROVE RememberedIInv'
  OBVIOUS
<1>1. ASSUME NEW e \in Senders, Protect(e) PROVE RememberedIInv'
  BY <1>1, SameRemembered
     DEF Protect, ProtectRefused, Refuse, ProtectPlain, ProtectUnsessioned, InSession,
         ProtectExhausted, ProtectSpoiled, ProtectSealed, inbound
<1>2. ASSUME NEW e \in Receivers, NEW protocol \in Protocols, NEW f \in Arrivals,
             Unprotect(e, protocol, f)
      PROVE  RememberedIInv'
  BY <1>2, SameRemembered, AcceptRemembered
     DEF Unprotect, UnprotectRejected, Refuse, UnprotectPlain, inbound
<1>3. ASSUME NEW e \in Endpoints, Operate(e) PROVE RememberedIInv'
  BY <1>3, ForgetRemembered
     DEF Operate, SetConfig, Restart, Configure, ResetReplayProtection
<1>4. ASSUME NEW e \in Endpoints, Manage(e) \/ Observe(e) PROVE RememberedIInv'
  BY <1>4, SameRemembered
     DEF Manage, Observe, AddKey, RemoveKey, Register, Unregister, RegisterObserver,
         UnregisterObserver, inbound
<1>5. CASE UNCHANGED vars
  BY <1>5, SameRemembered DEF vars, inbound
<1>6. QED
  BY <1>1, <1>2, <1>3, <1>4, <1>5 DEF Next

\* For any endpoints, configurations and frames, the replay table holds an entry
\* for exactly the senders, keys and sessions of the messages accepted since the
\* last reset.
THEOREM TableIsEarned == Spec => []OnlyAcceptedRemembered
<1>1. RememberedIInv => OnlyAcceptedRemembered
  BY DEF RememberedIInv
<1>2. QED
  BY <1>1, InitRemembered, NextRemembered, PTL DEF Spec

-----------------------------------------------------------------------------
(* Checks that are tried in order *)

\* The first check that fails names the error.
LEMMA FirstErrorIs ==
  ASSUME NEW checks, NEW n \in Nat, Len(checks) = n
  PROVE  \/ /\ FirstError(checks) = "None"
            /\ \A i \in 1 .. n : ~checks[i].fails
         \/ \E i \in 1 .. n :
              /\ FirstError(checks) = checks[i].error
              /\ checks[i].fails
              /\ \A j \in 1 .. n : checks[j].fails => i <= j
<1> DEFINE failing == {i \in 1 .. Len(checks) : checks[i].fails}
<1>1. FirstError(checks) = LET i == IF failing # {} THEN Min(failing) ELSE 0
                           IN  IF i = 0 THEN "None" ELSE checks[i].error
  BY DEF FirstError, SelectInSeq
<1>2. CASE failing = {}
  BY <1>1, <1>2
<1>3. CASE failing # {}
  <2>1. failing \subseteq Nat
    OBVIOUS
  <2>2. \E i \in failing : \A j \in failing : i <= j
    <3> HIDE DEF failing
    <3>1. QED
      BY <1>3, <2>1, Least
  <2>3. Min(failing) \in failing /\ \A j \in failing : Min(failing) <= j
    <3> HIDE DEF failing
    <3>1. QED
      BY <2>2 DEF Min
  <2>4. Min(failing) \in 1 .. n /\ Min(failing) # 0
    BY <2>3
  <2>5. FirstError(checks) = checks[Min(failing)].error
    <3> HIDE DEF failing
    <3>1. QED
      BY <1>1, <1>3, <2>4
  <2>6. /\ checks[Min(failing)].fails
        /\ \A j \in 1 .. n : checks[j].fails => Min(failing) <= j
    BY <2>3
  <2>7. QED
    <3> HIDE DEF failing
    <3>1. QED
      BY <2>4, <2>5, <2>6
<1>4. QED
  BY <1>2, <1>3

LEMMA NoneFails ==
  ASSUME NEW checks, NEW n \in Nat, Len(checks) = n, FirstError(checks) = "None",
         \A i \in 1 .. n : checks[i].error # "None"
  PROVE  \A i \in 1 .. n : ~checks[i].fails
BY FirstErrorIs

\* A session and a sequence number are there to be used.
LEMMA SequenceTaken ==
  ASSUME NEW e, NEW p, SequenceError(e, p) = "None"
  PROVE  nextSequence[e] \notin {0, MaxSequence} /\ ~ExceedsFields(e, p)
<1> DEFINE spent  == Check(nextSequence[e] \in {0, MaxSequence}, "SequenceExhausted")
           wide   == Check(ExceedsFields(e, p), "BufferLimitExceeded")
           checks == <<spent, wide>>
<1>1. FirstError(checks) = "None"
  BY DEF SequenceError
<1>2. Len(checks) = 2 /\ checks[1] = spent /\ checks[2] = wide
  OBVIOUS
<1>3. /\ spent.error # "None" /\ wide.error # "None"
      /\ nextSequence[e] \in {0, MaxSequence} => spent.fails
      /\ ExceedsFields(e, p) => wide.fails
  BY DEF Check
<1>4. QED
  <2> HIDE DEF spent, wide, checks
  <2>1. \A i \in 1 .. 2 : checks[i].error # "None"
    BY <1>2, <1>3
  <2>2. \A i \in 1 .. 2 : ~checks[i].fails
    BY <1>1, <1>2, <2>1, NoneFails
  <2>3. QED
    BY <1>2, <1>3, <2>2

\* What is sealed has a cipher and a key.
LEMMA SealHasKey ==
  ASSUME NEW e, NEW p, ReadyToSeal(e, p)
  PROVE  OutboundKey(e) # NoKey
<1> DEFINE first  == Check(OutboundCiphers(e) = {}, "UnsupportedAlgorithm")
           second == Check(OutboundKey(e) = NoKey, "MissingKey")
           third  == Check(\E c \in OutboundCiphers(e) : c.KeySize # OutboundKey(e).size,
                           "InvalidKeyLength")
           checks == <<first, second, third>>
<1>1. FirstError(checks) = "None"
  BY DEF ReadyToSeal, ProtectError
<1>2. Len(checks) = 3 /\ checks[1] = first /\ checks[2] = second /\ checks[3] = third
  OBVIOUS
<1>3. /\ first.error # "None" /\ second.error # "None" /\ third.error # "None"
      /\ OutboundKey(e) = NoKey => second.fails
  BY DEF Check
<1>4. QED
  <2> HIDE DEF first, second, third, checks
  <2>1. \A i \in 1 .. 3 : checks[i].error # "None"
    BY <1>2, <1>3
  <2>2. \A i \in 1 .. 3 : ~checks[i].fails
    BY <1>1, <1>2, <2>1, NoneFails
  <2>3. QED
    BY <1>2, <1>3, <2>2
-----------------------------------------------------------------------------
(* Types of what an endpoint sends with *)

OutboundIInv ==
  /\ config \in [Endpoints -> AllConfigs]
  /\ \A e \in Endpoints : config[e].SessionID \in SessionIDs \cup {0}
  /\ windowSize \in [Endpoints -> 1 .. WordBits]
  /\ sessionID \in [Endpoints -> SessionIDs \cup {0}]
  /\ sessionReady \in [Endpoints -> BOOLEAN]
  /\ \A e \in Endpoints : sessionReady[e] => sessionID[e] # 0
  /\ nextSequence \in [Endpoints -> 1 .. MaxSequence]
  /\ observed \subseteq Observable
  /\ ciphers \in [Endpoints -> SUBSET Ciphers]
  /\ \A e \in Endpoints : \A c, d \in ciphers[e] : c.Algorithm = d.Algorithm => c = d
  /\ keys \in [Endpoints -> [KeySlots -> Materials \cup {NoKey}]]

LEMMA SameOutbound ==
  ASSUME OutboundIInv, UNCHANGED <<config, outbound, windowSize, observed, provisioning>>
  PROVE  OutboundIInv'
BY DEF OutboundIInv, outbound, provisioning

LEMMA InitOutbound == Init => OutboundIInv
<1> SUFFICES ASSUME Init PROVE OutboundIInv
  OBVIOUS
<1>1. ASSUME NEW e \in Endpoints
      PROVE  /\ config[e] \in AllConfigs /\ config[e].SessionID \in SessionIDs \cup {0}
             /\ Clamp(config[e].ReplayWindowSize) \in 1 .. WordBits
  BY ClampRange DEF Init, AllConfigs
<1>2. config \in [Endpoints -> AllConfigs]
  BY DEF Init, AllConfigs
<1>3. /\ windowSize \in [Endpoints -> 1 .. WordBits]
      /\ sessionID \in [Endpoints -> SessionIDs \cup {0}]
      /\ sessionReady \in [Endpoints -> BOOLEAN]
      /\ \A e \in Endpoints : sessionReady[e] => sessionID[e] # 0
  BY <1>1 DEF Init
<1>4. nextSequence \in [Endpoints -> 1 .. MaxSequence]
  <2>1. 1 \in 1 .. MaxSequence
    OBVIOUS
  <2>2. QED
    BY <2>1 DEF Init
<1>5. /\ observed \subseteq Observable
      /\ ciphers \in [Endpoints -> SUBSET Ciphers]
      /\ \A e \in Endpoints : \A c, d \in ciphers[e] : c.Algorithm = d.Algorithm => c = d
      /\ keys \in [Endpoints -> [KeySlots -> Materials \cup {NoKey}]]
  BY ProvisioningAssumption DEF Init
<1>6. QED
  BY <1>1, <1>2, <1>3, <1>4, <1>5 DEF OutboundIInv

\* The session of an envelope is never zero.
LEMMA SessionDrawn ==
  ASSUME OutboundIInv, NEW e \in Endpoints, NEW p, NEW id, InSession(e, p, id)
  PROVE  id \in SessionIDs
BY DEF OutboundIInv, InSession, SessionDraws

LEMMA SessionOutbound ==
  ASSUME OutboundIInv, NEW e \in Endpoints, NEW p, NEW id, InSession(e, p, id),
         UNCHANGED nextSequence \/ TakeSequence(e, p)
  PROVE  OutboundIInv'
<1>1. id \in SessionIDs /\ id # 0
  BY SessionDrawn
<1>2. /\ sessionID' = [sessionID EXCEPT ![e] = id]
      /\ sessionReady' = [sessionReady EXCEPT ![e] = TRUE]
      /\ UNCHANGED <<config, windowSize, observed, ciphers, keys>>
  BY DEF InSession, Establish, inbound, provisioning
<1>3. nextSequence' \in [Endpoints -> 1 .. MaxSequence]
  <2>1. ASSUME TakeSequence(e, p)
        PROVE  nextSequence' \in [Endpoints -> 1 .. MaxSequence]
    <3>1. nextSequence[e] \in 1 .. MaxSequence /\ nextSequence[e] # MaxSequence
      BY <2>1, SequenceTaken DEF OutboundIInv, TakeSequence
    <3>2. nextSequence[e] + 1 \in 1 .. MaxSequence
      BY <3>1
    <3>3. QED
      BY <2>1, <3>2 DEF OutboundIInv, TakeSequence
  <2>2. QED
    BY <2>1 DEF OutboundIInv
<1>4. QED
  BY <1>1, <1>2, <1>3 DEF OutboundIInv

LEMMA ConfigureOutbound ==
  ASSUME OutboundIInv, NEW e \in Endpoints, NEW c \in Configs[e], Configure(e, c),
         observed' \subseteq observed
  PROVE  OutboundIInv'
<1>1. /\ c \in AllConfigs /\ c.SessionID \in SessionIDs \cup {0}
      /\ Clamp(c.ReplayWindowSize) \in 1 .. WordBits
  BY ClampRange DEF AllConfigs
<1>2. /\ config' = [config EXCEPT ![e] = c]
      /\ windowSize' = [windowSize EXCEPT ![e] = Clamp(c.ReplayWindowSize)]
      /\ nextSequence' = [nextSequence EXCEPT ![e] = 1]
      /\ sessionID' = [sessionID EXCEPT ![e] = c.SessionID]
      /\ sessionReady' = [sessionReady EXCEPT ![e] = c.SessionID # 0]
      /\ UNCHANGED <<ciphers, keys>>
  BY DEF Configure, provisioning
<1>3. 1 \in 1 .. MaxSequence
  OBVIOUS
<1>4. QED
  BY <1>1, <1>2, <1>3 DEF OutboundIInv

LEMMA ManageOutbound ==
  ASSUME OutboundIInv, NEW e \in Endpoints, Manage(e)
  PROVE  OutboundIInv'
<1>1. ASSUME NEW slot \in KeySlots, NEW m \in Materials \cup {NoKey}, AddKey(e, slot, m)
      PROVE  OutboundIInv'
  BY <1>1 DEF OutboundIInv, AddKey, outbound, inbound
<1>2. ASSUME NEW c \in Ciphers, Register(e, c)
      PROVE  OutboundIInv'
  BY <1>2 DEF OutboundIInv, Register, Found, outbound, inbound
<1>3. ASSUME NEW c \in Ciphers, Unregister(e, c)
      PROVE  OutboundIInv'
  BY <1>3 DEF OutboundIInv, Unregister, outbound, inbound
<1>4. QED
  BY <1>1, <1>2, <1>3 DEF Manage, RemoveKey

LEMMA NextOutbound == OutboundIInv /\ [Next]_vars => OutboundIInv'
<1> SUFFICES ASSUME OutboundIInv, [Next]_vars PROVE OutboundIInv'
  OBVIOUS
<1>1. ASSUME NEW e \in Senders, Protect(e) PROVE OutboundIInv'
  BY <1>1, SameOutbound, SessionOutbound
     DEF Protect, ProtectRefused, Refuse, ProtectPlain, ProtectUnsessioned,
         ProtectExhausted, ProtectSpoiled, ProtectSealed, inbound
<1>2. ASSUME NEW e \in Receivers, NEW protocol \in Protocols, NEW f \in Arrivals,
             Unprotect(e, protocol, f)
      PROVE  OutboundIInv'
  BY <1>2, SameOutbound
     DEF Unprotect, UnprotectRejected, Refuse, UnprotectPlain, UnprotectAccepted, inbound
<1>3. ASSUME NEW e \in Endpoints, Operate(e) PROVE OutboundIInv'
  BY <1>3, SameOutbound, ConfigureOutbound
     DEF Operate, SetConfig, Restart, ResetReplayProtection
<1>4. ASSUME NEW e \in Managed, Manage(e) PROVE OutboundIInv'
  BY <1>4, ManageOutbound
<1>5. ASSUME NEW e \in Observable, Observe(e) PROVE OutboundIInv'
  BY <1>5 DEF Observe, RegisterObserver, UnregisterObserver, OutboundIInv, outbound,
              inbound, provisioning
<1>6. CASE UNCHANGED vars
  BY <1>6, SameOutbound DEF vars, inbound
<1>7. QED
  BY <1>1, <1>2, <1>3, <1>4, <1>5, <1>6 DEF Next
-----------------------------------------------------------------------------
(* Frames.  Every envelope is as Protect wrote it, and a receiver with the  *)
(* key sees nothing wrong with it.                                         *)

WellSealed(f) ==
  /\ f = Envelope(f.header, Announced(f.header), f.sealedKey, f.payload)
  /\ f.header.version = EnvelopeVersion
  /\ f.size \in Nat
  /\ f.header.ciphertextLength = f.payload.size
  /\ f.sealedKey # NoKey
  /\ Message(f) \in Messages

FramesIInv == \A f \in air : f = Plain(f.payload) \/ WellSealed(f)

\* What a frame is, is seen from its kind.
LEMMA FrameKinds ==
  ASSUME FramesIInv, NEW f \in air
  PROVE  /\ f = Plain(f.payload) <=> f.kind = "plain"
         /\ WellSealed(f) <=> f.kind = "envelope"
         /\ f \in Envelopes <=> f.kind = "envelope"
BY DEF FramesIInv, WellSealed, Plain, Envelope, Envelopes

\* A length within its field is written as it is.
LEMMA UncutLength ==
  ASSUME NEW n \in Nat, NEW m \in Nat, n <= m
  PROVE  n % (m + 1) = n
OBVIOUS

LEMMA SealedWell ==
  ASSUME OutboundIInv, NEW e \in Endpoints, NEW protocol \in Protocols, NEW p \in Payloads,
         NEW id, InSession(e, p, id), TakeSequence(e, p), NEW c \in OutboundCiphers(e)
  PROVE  WellSealed(Envelope(Header(e, c, protocol, p, id), BodySize(c, p), OutboundKey(e), p))
<1> DEFINE h == Header(e, c, protocol, p, id)
           f == Envelope(h, BodySize(c, p), OutboundKey(e), p)
<1>1. c \in Ciphers /\ c.Algorithm = config[e].OutboundAlgorithm
  BY DEF OutboundIInv, OutboundCiphers, Found
<1>2. OutboundKey(e) # NoKey
  BY SealHasKey DEF InSession
<1>3. config[e].OutboundKeyID \in KeyIDs
  BY <1>2 DEF OutboundKey, KeyFor, KeySlots
<1>4. id \in SessionIDs
  BY SessionDrawn
<1>5. nextSequence[e] \in Sequences
  <2>1. nextSequence[e] \in 1 .. MaxSequence /\ nextSequence[e] # MaxSequence
    BY SequenceTaken DEF OutboundIInv, TakeSequence
  <2>2. QED
    BY <2>1 DEF Sequences
<1>6. /\ h.version = EnvelopeVersion /\ h.algorithm = c.Algorithm /\ h.protocol = protocol
      /\ h.keyID = config[e].OutboundKeyID /\ h.senderID = config[e].SenderID
      /\ h.sessionID = id /\ h.sequence = nextSequence[e]
      /\ h.nonceLength = c.NonceSize /\ h.tagLength = c.TagSize
      /\ h.ciphertextLength = p.size
  <2>1. c.NonceSize <= MaxField /\ c.TagSize <= MaxField /\ p.size <= MaxLength
    BY <1>1, SequenceTaken, LengthsAssumption DEF TakeSequence, ExceedsFields
  <2>2. /\ c.NonceSize % (MaxField + 1) = c.NonceSize
        /\ c.TagSize % (MaxField + 1) = c.TagSize
        /\ p.size % (MaxLength + 1) = p.size
    BY <1>1, <2>1, UncutLength, LengthsAssumption
  <2>3. QED
    BY <2>2 DEF Header
<1>7. config[e].SenderID \in {x.SenderID : x \in AllConfigs} /\ c.Algorithm \in Algorithms
  BY <1>1 DEF OutboundIInv, Algorithms
<1>8. Announced(h) = BodySize(c, p) /\ Announced(h) \in Nat
  <2> HIDE DEF h
  <2>1. QED
    BY <1>1, <1>6, LengthsAssumption DEF Announced, BodySize
<1>9. /\ f.header = h /\ f.sealedKey = OutboundKey(e) /\ f.payload = p
      /\ f.size = Announced(h) /\ f = Envelope(f.header, Announced(f.header), f.sealedKey, f.payload)
  BY <1>8 DEF Envelope
<1>10. ReplayDomain(h) \in Domains
  BY <1>3, <1>4, <1>6, <1>7 DEF ReplayDomain, Domains
<1>11. Message(f) \in Messages
  <2> HIDE DEF h, f
  <2>1. [domain |-> ReplayDomain(h), sequence |-> h.sequence]
          \in [domain : Domains, sequence : Sequences]
    BY <1>5, <1>6, <1>10
  <2>2. QED
    BY <1>6, <1>7, <1>9, <2>1 DEF Message, Messages
<1>12. QED
  <2> HIDE DEF h, f
  <2>1. WellSealed(f)
    BY <1>2, <1>6, <1>8, <1>9, <1>11 DEF WellSealed
  <2>2. QED
    BY <2>1 DEF h, f

LEMMA NextFrames == OutboundIInv /\ FramesIInv /\ [Next]_vars => FramesIInv'
<1> SUFFICES ASSUME OutboundIInv, FramesIInv, [Next]_vars PROVE FramesIInv'
  OBVIOUS
<1>1. CASE UNCHANGED air
  BY <1>1 DEF FramesIInv, WellSealed, Plain, Envelope, Message, Messages
<1>2. ASSUME NEW e \in Senders, NEW p \in Payloads, ProtectPlain(e, p)
      PROVE  FramesIInv'
  <2>1. Plain(p) = Plain(Plain(p).payload)
    BY DEF Plain
  <2>2. QED
    BY <1>2, <2>1 DEF ProtectPlain, FramesIInv
<1>3. ASSUME NEW e \in Senders, NEW p \in Payloads, NEW id, NEW protocol \in Protocols,
             ProtectSealed(e, protocol, p, id)
      PROVE  FramesIInv'
  <2>1. PICK c \in OutboundCiphers(e) :
          air' = air \cup {Envelope(Header(e, c, protocol, p, id), BodySize(c, p), OutboundKey(e), p)}
    BY <1>3 DEF ProtectSealed
  <2>2. WellSealed(Envelope(Header(e, c, protocol, p, id), BodySize(c, p), OutboundKey(e), p))
    BY <1>3, SealedWell DEF ProtectSealed
  <2>3. QED
    BY <2>1, <2>2 DEF FramesIInv
<1>4. ASSUME NEW e \in Senders, Protect(e)
      PROVE  FramesIInv'
  BY <1>1, <1>2, <1>3, <1>4
     DEF Protect, ProtectRefused, Refuse, ProtectUnsessioned, ProtectExhausted,
         ProtectSpoiled, channel
<1>5. ASSUME NEW e \in Receivers, NEW protocol \in Protocols, NEW f \in Arrivals,
             Unprotect(e, protocol, f)
      PROVE  UNCHANGED air
  BY <1>5 DEF Unprotect, UnprotectRejected, Refuse, UnprotectPlain, UnprotectAccepted, channel
<1>6. ASSUME NEW e \in Endpoints, Operate(e)
      PROVE  UNCHANGED air
  BY <1>6 DEF Operate, SetConfig, Restart, Configure, ResetReplayProtection, channel
<1>7. ASSUME NEW e, Manage(e) \/ Observe(e)
      PROVE  UNCHANGED air
  BY <1>7 DEF Manage, AddKey, RemoveKey, Register, Unregister, Observe, RegisterObserver,
              UnregisterObserver, channel
<1>8. QED
  BY <1>1, <1>4, <1>5, <1>6, <1>7 DEF Next, channel, vars
-----------------------------------------------------------------------------
(* What Unprotect takes for authentic *)

\* The ten checks, one by one
LEMMA ChecksListed ==
  ASSUME NEW e, NEW protocol, NEW f
  PROVE  LET checks == EnvelopeChecks(e, protocol, f)
             h      == f.header
             found  == Found(e, h.algorithm)
             key    == InboundKey(e, h)
         IN  /\ Len(checks) = 10
             /\ \A i \in 1 .. 10 : checks[i].error # "None"
             /\ checks[1].fails <=> h.version # EnvelopeVersion
             /\ checks[2].fails <=> h.ciphertextLength > config[e].MaximumPlaintextBytes
             /\ checks[3].fails <=> \/ f.size # Announced(h)
                                    \/ 0 \in {h.sessionID, h.sequence, h.keyID}
             /\ checks[4].fails <=> found = {}
             /\ checks[5].fails <=>
                  \E c \in found : h.nonceLength # c.NonceSize \/ h.tagLength # c.TagSize
             /\ checks[6].error = "ReplayDetected"
             /\ checks[6].fails <=>
                  ~WouldAccept(replay[e], windowSize[e], ReplayDomain(h), h.sequence)
             /\ checks[7].fails <=> key = NoKey
             /\ checks[8].fails <=> \E c \in found : key.size # c.KeySize
             /\ checks[9].fails <=> ~Opens(key, f)
             /\ checks[10].fails <=> h.protocol # protocol
<1> DEFINE h      == f.header
           found  == Found(e, h.algorithm)
           key    == InboundKey(e, h)
           checks == EnvelopeChecks(e, protocol, f)
           c1 == Check(h.version # EnvelopeVersion, "UnsupportedVersion")
           c2 == Check(h.ciphertextLength > config[e].MaximumPlaintextBytes,
                       "BufferLimitExceeded")
           c3 == Check(f.size # Announced(h) \/ 0 \in {h.sessionID, h.sequence, h.keyID},
                       "MalformedEnvelope")
           c4 == Check(found = {}, "UnsupportedAlgorithm")
           c5 == Check(\E c \in found : h.nonceLength # c.NonceSize \/ h.tagLength # c.TagSize,
                       "MalformedEnvelope")
           c6 == Check(~WouldAccept(replay[e], windowSize[e], ReplayDomain(h), h.sequence),
                       "ReplayDetected")
           c7 == Check(key = NoKey, "MissingKey")
           c8 == Check(\E c \in found : key.size # c.KeySize, "InvalidKeyLength")
           c9 == Check(~Opens(key, f), "AuthenticationFailed")
           c10 == Check(h.protocol # protocol, "ProtocolMismatch")
<1>1. checks = <<c1, c2, c3, c4, c5, c6, c7, c8, c9, c10>>
  BY DEF EnvelopeChecks
<1>2. /\ c1.error # "None" /\ c2.error # "None" /\ c3.error # "None" /\ c4.error # "None"
      /\ c5.error # "None" /\ c6.error # "None" /\ c7.error # "None" /\ c8.error # "None"
      /\ c9.error # "None" /\ c10.error # "None" /\ c6.error = "ReplayDetected"
  BY DEF Check
<1>3. /\ c1.fails <=> h.version # EnvelopeVersion
      /\ c2.fails <=> h.ciphertextLength > config[e].MaximumPlaintextBytes
      /\ c3.fails <=> f.size # Announced(h) \/ 0 \in {h.sessionID, h.sequence, h.keyID}
      /\ c4.fails <=> found = {}
      /\ c5.fails <=>
           \E c \in found : h.nonceLength # c.NonceSize \/ h.tagLength # c.TagSize
      /\ c6.fails <=>
           ~WouldAccept(replay[e], windowSize[e], ReplayDomain(h), h.sequence)
      /\ c7.fails <=> key = NoKey
      /\ c8.fails <=> \E c \in found : key.size # c.KeySize
      /\ c9.fails <=> ~Opens(key, f)
      /\ c10.fails <=> h.protocol # protocol
  BY Zenon DEF Check
<1> HIDE DEF checks, c1, c2, c3, c4, c5, c6, c7, c8, c9, c10
<1>4. /\ Len(checks) = 10
      /\ checks[1] = c1 /\ checks[2] = c2 /\ checks[3] = c3 /\ checks[4] = c4
      /\ checks[5] = c5 /\ checks[6] = c6 /\ checks[7] = c7 /\ checks[8] = c8
      /\ checks[9] = c9 /\ checks[10] = c10
  BY <1>1
<1>5. \A i \in 1 .. 10 : checks[i].error # "None"
  BY <1>1, <1>2
<1> HIDE DEF h, found, key
<1>6. /\ checks[1].fails <=> h.version # EnvelopeVersion
      /\ checks[2].fails <=> h.ciphertextLength > config[e].MaximumPlaintextBytes
      /\ checks[3].fails <=> f.size # Announced(h) \/ 0 \in {h.sessionID, h.sequence, h.keyID}
      /\ checks[4].fails <=> found = {}
      /\ checks[5].fails <=>
           \E c \in found : h.nonceLength # c.NonceSize \/ h.tagLength # c.TagSize
      /\ checks[6].fails <=>
           ~WouldAccept(replay[e], windowSize[e], ReplayDomain(h), h.sequence)
      /\ checks[7].fails <=> key = NoKey
      /\ checks[8].fails <=> \E c \in found : key.size # c.KeySize
      /\ checks[9].fails <=> ~Opens(key, f)
      /\ checks[10].fails <=> h.protocol # protocol
  BY <1>3, <1>4, Zenon
<1>7. checks[6].error = "ReplayDetected"
  BY <1>2, <1>4
<1>8. QED
  BY <1>4, <1>5, <1>6, <1>7, Zenon DEF checks, h, found, key

\* Whatever passes every check was acceptable to the window and opened.
LEMMA EnvelopeChecked ==
  ASSUME NEW e, NEW protocol, NEW f, EnvelopeError(e, protocol, f) = "None"
  PROVE  /\ f.size = Announced(f.header)
         /\ WouldAccept(replay[e], windowSize[e], ReplayDomain(f.header), f.header.sequence)
         /\ Opens(InboundKey(e, f.header), f)
<1> DEFINE checks == EnvelopeChecks(e, protocol, f)
<1>1. /\ Len(checks) = 10
      /\ \A i \in 1 .. 10 : checks[i].error # "None"
      /\ f.size # Announced(f.header) => checks[3].fails
      /\ checks[6].fails <=> ~WouldAccept(replay[e], windowSize[e], ReplayDomain(f.header),
                                          f.header.sequence)
      /\ checks[9].fails <=> ~Opens(InboundKey(e, f.header), f)
  <2>1. Len(checks) = 10
    BY ChecksListed
  <2>2. \A i \in 1 .. 10 : checks[i].error # "None"
    BY ChecksListed
  <2>3. f.size # Announced(f.header) => checks[3].fails
    BY ChecksListed
  <2>4. checks[6].fails <=> ~WouldAccept(replay[e], windowSize[e], ReplayDomain(f.header),
                                         f.header.sequence)
    BY ChecksListed
  <2>5. checks[9].fails <=> ~Opens(InboundKey(e, f.header), f)
    BY ChecksListed
  <2>6. QED
    BY <2>1, <2>2, <2>3, <2>4, <2>5
<1>2. FirstError(checks) = "None"
  BY DEF EnvelopeError
<1>3. \A i \in 1 .. 10 : ~checks[i].fails
  <2> HIDE DEF checks
  <2>1. QED
    BY <1>1, <1>2, NoneFails
<1>4. ~checks[3].fails /\ ~checks[6].fails /\ ~checks[9].fails
  BY <1>3
<1>5. QED
  <2> HIDE DEF checks
  <2>1. QED
    BY <1>1, <1>4

\* Only an envelope that arrives as it was sent is taken for authentic, and only
\* when the window accepts it.
LEMMA Opened ==
  ASSUME FramesIInv, NEW e, NEW protocol, NEW f \in Arrivals,
         UnprotectError(e, protocol, f) = "None", LooksProtected(f)
  PROVE  /\ f \in Envelopes
         /\ WellSealed(f)
         /\ WouldAccept(replay[e], windowSize[e], ReplayDomain(f.header), f.header.sequence)
<1>1. f.kind # "null"
  BY DEF LooksProtected
<1>2. ~Truncated(f) /\ EnvelopeError(e, protocol, f) = "None"
  BY <1>1 DEF UnprotectError
<1>3. /\ f.size = Announced(f.header)
      /\ WouldAccept(replay[e], windowSize[e], ReplayDomain(f.header), f.header.sequence)
      /\ f.intact /\ f.header = f.sealedHeader
  BY <1>2, EnvelopeChecked DEF Opens
<1>4. f.kind = "envelope" /\ f.magic
  BY <1>2 DEF LooksProtected, Truncated
<1>5. CASE f \in air
  BY <1>3, <1>4, <1>5, FrameKinds
<1>6. ASSUME NEW g \in air, f \in Damaged(g)
      PROVE  FALSE
  <2>1. g.kind = "envelope"
    BY <1>6 DEF Damaged
  <2>2. g = Envelope(g.header, Announced(g.header), g.sealedKey, g.payload) /\ g.size \in Nat
    BY <2>1, FrameKinds DEF WellSealed
  <2>3. g.size = Announced(g.header) /\ g.sealedHeader = g.header
    BY <2>2 DEF Envelope
  <2>4. ASSUME NEW h \in DamagedHeaders(g.header) \ {g.header}, f = [g EXCEPT !.header = h]
        PROVE  FALSE
    <3>1. f.header = h /\ f.sealedHeader = g.header
      BY <2>2, <2>3, <2>4 DEF Envelope
    <3>2. QED
      BY <1>3, <2>4, <3>1
  <2>5. CASE f = [g EXCEPT !.magic = FALSE]
    BY <1>4, <2>2, <2>5 DEF Envelope
  <2>6. CASE f = [g EXCEPT !.intact = FALSE]
    BY <1>3, <2>2, <2>6 DEF Envelope
  <2>7. CASE f = [g EXCEPT !.size = -1]
    BY <1>2, <2>2, <2>7 DEF Envelope, Truncated
  <2>8. CASE f = [g EXCEPT !.size = @ - 1]
    <3>1. f.size = g.size - 1 /\ f.header = g.header
      BY <2>2, <2>8 DEF Envelope
    <3>2. QED
      BY <1>3, <2>2, <2>3, <3>1
  <2>9. QED
    BY <1>6, <2>1, <2>4, <2>5, <2>6, <2>7, <2>8 DEF Damaged
<1>7. QED
  BY <1>3, <1>4, <1>5, <1>6 DEF Arrivals, NullInput
-----------------------------------------------------------------------------
(* Histories.  What the table of an endpoint remembers is what the endpoint *)
(* accepted, and that was sent.                                            *)

InboundIInv ==
  \A e \in Endpoints :
    /\ BagToSet(accepted[e]) \subseteq {Message(f) : f \in Envelopes}
    /\ replay[e] = [d \in DOMAIN replay[e] |-> replay[e][d]]
    /\ \A d \in Domains : Remembers(replay[e], d, History(e, d))

LEMMA SentMessages ==
  ASSUME FramesIInv, NEW f \in Envelopes
  PROVE  Message(f) \in Messages /\ WellSealed(f)
BY FrameKinds DEF Envelopes, WellSealed

LEMMA AcceptedMessages ==
  ASSUME FramesIInv, InboundIInv, NEW e \in Endpoints
  PROVE  /\ BagToSet(accepted[e]) \subseteq Messages
         /\ \A d : History(e, d) \in SUBSET Nat
<1>1. \A f \in Envelopes : Message(f) \in Messages
  BY SentMessages
<1>2. BagToSet(accepted[e]) \subseteq Messages
  <2>1. BagToSet(accepted[e]) \subseteq {Message(f) : f \in Envelopes}
    BY DEF InboundIInv
  <2>2. QED
    BY <1>1, <2>1
<1>3. \A m \in Messages : m.id.sequence \in Nat
  BY DEF Messages, Sequences
<1>4. QED
  BY <1>2, <1>3 DEF History

LEMMA SameInbound ==
  ASSUME InboundIInv, UNCHANGED <<replay, accepted>>, air \subseteq air'
  PROVE  InboundIInv'
<1>1. {Message(f) : f \in Envelopes} \subseteq {Message(f) : f \in Envelopes'}
  BY DEF Envelopes
<1>2. \A e, d : History(e, d)' = History(e, d)
  BY DEF History
<1>3. \A e \in Endpoints : BagToSet(accepted'[e]) \subseteq {Message(f) : f \in Envelopes'}
  BY <1>1 DEF InboundIInv
<1>4. QED
  BY <1>2, <1>3 DEF InboundIInv

LEMMA ForgetInbound ==
  ASSUME RememberedIInv, InboundIInv, NEW e \in Endpoints, Forget(e), UNCHANGED air
  PROVE  InboundIInv'
<1>1. /\ replay'[e] = NoStates /\ accepted'[e] = EmptyBag
      /\ \A x \in Endpoints \ {e} : replay'[x] = replay[x] /\ accepted'[x] = accepted[x]
      /\ Envelopes' = Envelopes
  BY DEF Forget, RememberedIInv, Envelopes
<1>2. BagToSet(EmptyBag) = {} /\ NoStates = [d \in DOMAIN NoStates |-> NoStates[d]]
  BY DEF EmptyBag, BagToSet, SetToBag, NoStates
<1>3. \A d \in Domains : Remembers(NoStates, d, {})
  BY NothingRemembered
<1>4. ASSUME NEW x \in Endpoints
      PROVE  /\ BagToSet(accepted'[x]) \subseteq {Message(f) : f \in Envelopes}
             /\ replay'[x] = [d \in DOMAIN replay'[x] |-> replay'[x][d]]
             /\ \A d \in Domains : Remembers(replay'[x], d, History(x, d)')
  <2>1. CASE x = e
    <3>1. \A d \in Domains : History(x, d)' = {}
      BY <1>1, <1>2, <2>1 DEF History
    <3>2. QED
      BY <1>1, <1>2, <1>3, <2>1, <3>1
  <2>2. CASE x # e
    BY <1>1, <2>2 DEF InboundIInv, History
  <2>3. QED
    BY <2>1, <2>2
<1>5. QED
  BY <1>1, <1>4 DEF InboundIInv

LEMMA AcceptInbound ==
  ASSUME FramesIInv, RememberedIInv, InboundIInv, NEW e \in Endpoints,
         NEW protocol, NEW f \in Arrivals, UnprotectAccepted(e, protocol, f)
  PROVE  InboundIInv'
<1> DEFINE m   == Message(f)
           d   == m.id.domain
           seq == m.id.sequence
<1>1. f \in Envelopes /\ m \in Messages
  BY Opened, SentMessages DEF UnprotectAccepted
<1>2. /\ replay'[e] = Commit(replay[e], d, seq)
      /\ BagToSet(accepted'[e]) = BagToSet(accepted[e]) \cup {m}
      /\ \A x \in Endpoints \ {e} : replay'[x] = replay[x] /\ accepted'[x] = accepted[x]
      /\ Envelopes' = Envelopes
  <2>1. /\ replay'[e] = Commit(replay[e], ReplayDomain(f.header), f.header.sequence)
        /\ BagToSet(accepted'[e]) = BagToSet(accepted[e]) \cup {m}
        /\ \A x \in Endpoints \ {e} : replay'[x] = replay[x] /\ accepted'[x] = accepted[x]
    BY AcceptedGrows, Zenon
  <2>2. d = ReplayDomain(f.header) /\ seq = f.header.sequence
    BY DEF Message
  <2>3. QED
    BY <2>1, <2>2 DEF UnprotectAccepted, channel, Envelopes
<1>3. d \in Domains /\ seq \in Nat
  BY <1>1 DEF Messages, Sequences
<1> HIDE DEF m, d, seq
<1>4. /\ History(e, d)' = History(e, d) \cup {seq}
      /\ \A x \in Domains \ {d} : History(e, x)' = History(e, x)
  BY <1>2 DEF History, d, seq
<1>5. ASSUME NEW x \in Domains
      PROVE  Remembers(Commit(replay[e], d, seq), x, History(e, x)')
  <2>1. Remembers(replay[e], x, History(e, x)) /\ History(e, x) \in SUBSET Nat
    BY AcceptedMessages DEF InboundIInv
  <2>2. CASE x = d
    <3>1. Remembers(Commit(replay[e], d, seq), d, History(e, d) \cup {seq})
      BY <1>3, <2>1, <2>2, CommitRemembers
    <3>2. QED
      BY <1>4, <2>2, <3>1
  <2>3. CASE x # d
    BY <1>4, <2>1, <2>3, CommitKeeps
  <2>4. QED
    BY <2>2, <2>3
<1>6. Commit(replay[e], d, seq)
        = [x \in DOMAIN Commit(replay[e], d, seq) |-> Commit(replay[e], d, seq)[x]]
  BY DEF Commit
<1>7. ASSUME NEW x \in Endpoints
      PROVE  /\ BagToSet(accepted'[x]) \subseteq {Message(g) : g \in Envelopes}
             /\ replay'[x] = [y \in DOMAIN replay'[x] |-> replay'[x][y]]
             /\ \A y \in Domains : Remembers(replay'[x], y, History(x, y)')
  <2>1. CASE x = e
    <3>1. BagToSet(accepted'[e]) \subseteq {Message(g) : g \in Envelopes}
      BY <1>1, <1>2 DEF InboundIInv, m
    <3>2. replay'[e] = Commit(replay[e], d, seq)
      BY <1>2
    <3>3. \A y \in Domains : Remembers(replay'[e], y, History(e, y)')
      BY <1>5, <3>2
    <3>4. QED
      BY <1>6, <2>1, <3>1, <3>2, <3>3
  <2>2. CASE x # e
    <3>1. replay'[x] = replay[x] /\ accepted'[x] = accepted[x]
      BY <1>2, <2>2
    <3>2. \A y : History(x, y)' = History(x, y)
      BY <3>1 DEF History
    <3>3. QED
      BY <1>2, <3>1, <3>2 DEF InboundIInv
  <2>3. QED
    BY <2>1, <2>2
<1>8. QED
  BY <1>2, <1>7 DEF InboundIInv

\* Everything that holds of the endpoints and the frames between them, whether
\* or not sessions are reused
TransportIInv == OutboundIInv /\ FramesIInv /\ RememberedIInv /\ InboundIInv

LEMMA InitTransport == Init => TransportIInv
<1> SUFFICES ASSUME Init PROVE TransportIInv
  OBVIOUS
<1>1. BagToSet(EmptyBag) = {} /\ NoStates = [d \in DOMAIN NoStates |-> NoStates[d]]
  BY DEF EmptyBag, BagToSet, SetToBag, NoStates
<1>2. FramesIInv
  BY DEF Init, FramesIInv
<1>3. RememberedIInv
  BY InitRemembered
<1>4. ASSUME NEW e \in Endpoints
      PROVE  /\ BagToSet(accepted[e]) \subseteq {Message(f) : f \in Envelopes}
             /\ replay[e] = [d \in DOMAIN replay[e] |-> replay[e][d]]
             /\ \A d \in Domains : Remembers(replay[e], d, History(e, d))
  <2>1. replay[e] = NoStates /\ accepted[e] = EmptyBag
    BY DEF Init
  <2>2. \A d \in Domains : History(e, d) = {}
    BY <1>1, <2>1 DEF History
  <2>3. QED
    BY <1>1, <2>1, <2>2, NothingRemembered
<1>5. QED
  BY <1>2, <1>3, <1>4, InitOutbound DEF TransportIInv, InboundIInv

LEMMA NextInbound == TransportIInv /\ [Next]_vars => InboundIInv'
<1> SUFFICES ASSUME TransportIInv, [Next]_vars PROVE InboundIInv'
  OBVIOUS
<1> USE DEF TransportIInv
<1>1. ASSUME NEW e \in Senders, Protect(e) PROVE InboundIInv'
  BY <1>1, SameInbound
     DEF Protect, ProtectRefused, Refuse, ProtectPlain, ProtectUnsessioned, InSession,
         ProtectExhausted, ProtectSpoiled, ProtectSealed, inbound, channel
<1>2. ASSUME NEW e \in Receivers, NEW protocol \in Protocols, NEW f \in Arrivals,
             Unprotect(e, protocol, f)
      PROVE  InboundIInv'
  BY <1>2, SameInbound, AcceptInbound
     DEF Unprotect, UnprotectRejected, Refuse, UnprotectPlain, inbound, channel
<1>3. ASSUME NEW e \in Endpoints, Operate(e) PROVE InboundIInv'
  BY <1>3, ForgetInbound
     DEF Operate, SetConfig, Restart, Configure, ResetReplayProtection, channel
<1>4. ASSUME NEW e \in Endpoints, Manage(e) \/ Observe(e) PROVE InboundIInv'
  BY <1>4, SameInbound
     DEF Manage, Observe, AddKey, RemoveKey, Register, Unregister, RegisterObserver,
         UnregisterObserver, inbound, channel
<1>5. CASE UNCHANGED vars
  BY <1>5, SameInbound DEF vars, inbound, channel
<1>6. QED
  BY <1>1, <1>2, <1>3, <1>4, <1>5 DEF Next

LEMMA NextTransport == TransportIInv /\ [Next]_vars => TransportIInv'
BY NextOutbound, NextFrames, NextRemembered, NextInbound DEF TransportIInv

\* At every endpoint, sealed frames are as Protect wrote them, histories hold
\* only what was sent, and the replay table remembers exactly its history.
THEOREM TransportInvariant == Spec => []TransportIInv
BY InitTransport, NextTransport, PTL DEF Spec

LEMMA TransportTypes == TransportIInv => TypeOK
<1> SUFFICES ASSUME TransportIInv PROVE TypeOK
  OBVIOUS
<1> USE DEF TransportIInv
<1>1. ASSUME NEW e \in Endpoints
      PROVE  DOMAIN replay[e] \subseteq Domains /\ replay[e] \in [DOMAIN replay[e] -> Entry]
  <2>1. BagToSet(accepted[e]) \subseteq Messages
    BY AcceptedMessages
  <2>2. \A m \in Messages : m.id.domain \in Domains
    BY DEF Messages
  <2>3. DOMAIN replay[e] \subseteq Domains
    <3>1. DOMAIN replay[e] = {m.id.domain : m \in BagToSet(accepted[e])}
      BY DEF RememberedIInv, OnlyAcceptedRemembered
    <3>2. QED
      BY <2>1, <2>2, <3>1
  <2>4. \A d \in DOMAIN replay[e] : replay[e][d] \in Entry
    BY <2>3 DEF InboundIInv, Remembers
  <2>5. QED
    BY <2>3, <2>4 DEF InboundIInv
<1>2. \A f \in Envelopes : Message(f) \in Messages
  BY SentMessages
<1>3. \A e \in Endpoints : BagToSet(accepted[e]) \subseteq Messages
  BY AcceptedMessages
<1>4. QED
  BY <1>1, <1>2, <1>3 DEF OutboundIInv, TypeOK

\* The variables keep their types, for any endpoints, ciphers, keys and payloads.
THEOREM TransportTypeCorrect == Spec => []TypeOK
BY TransportInvariant, TransportTypes, PTL
-----------------------------------------------------------------------------
(* What Unprotect makes of an envelope that arrives as it was sent *)

\* With cipher and key at hand, nothing but the window refuses it.
LEMMA OnlyWindowRefuses ==
  ASSUME TransportIInv, NEW e \in Endpoints, NEW f \in Envelopes, CanOpen(e, f)
  PROVE  UnprotectError(e, f.header.protocol, f) =
           IF WouldAccept(replay[e], windowSize[e], ReplayDomain(f.header), f.header.sequence)
           THEN "None" ELSE "ReplayDetected"
<1> DEFINE h      == f.header
           found  == Found(e, h.algorithm)
           checks == EnvelopeChecks(e, h.protocol, f)
<1>1. WellSealed(f) /\ Message(f) \in Messages
  BY SentMessages DEF TransportIInv
<1>2. /\ f.kind = "envelope" /\ f.magic /\ f.intact /\ f.sealedHeader = h
      /\ f.size = Announced(h) /\ f.size \in Nat
  BY <1>1 DEF WellSealed, Envelope
<1>3. UnprotectError(e, h.protocol, f) = FirstError(checks)
  BY <1>2 DEF UnprotectError, LooksProtected, Truncated, EnvelopeError
<1>4. ReplayDomain(h) \in Domains /\ h.sequence \in Sequences /\ f.payload \in Payloads
  BY <1>1 DEF Message, Messages
<1>5. h.sessionID # 0 /\ h.sequence # 0 /\ h.keyID # 0
  BY <1>4 DEF ReplayDomain, Domains, Sequences
<1>6. /\ h.version = EnvelopeVersion
      /\ h.ciphertextLength \in Nat /\ config[e].MaximumPlaintextBytes \in Nat
  BY <1>1, <1>4, LengthsAssumption DEF WellSealed, TransportIInv, OutboundIInv, AllConfigs
<1>7. InboundKey(e, h) = f.sealedKey /\ f.sealedKey # NoKey
  BY <1>1 DEF CanOpen, InboundKey, WellSealed
<1>8. PICK c \in found : /\ c.KeySize = f.sealedKey.size
                         /\ c.NonceSize = h.nonceLength
                         /\ c.TagSize = h.tagLength
  BY DEF CanOpen
<1>9. \A d \in found : d = c
  <2>1. \A x, y \in ciphers[e] : x.Algorithm = y.Algorithm => x = y
    BY DEF TransportIInv, OutboundIInv
  <2>2. QED
    BY <2>1 DEF Found
<1>10. /\ ~checks[1].fails /\ ~checks[4].fails /\ ~checks[5].fails
       /\ ~checks[7].fails /\ ~checks[8].fails /\ ~checks[10].fails
  <2> DEFINE key == InboundKey(e, h)
  <2>1. /\ checks[1].fails <=> h.version # EnvelopeVersion
        /\ checks[4].fails <=> found = {}
        /\ checks[10].fails <=> h.protocol # h.protocol
    BY ChecksListed
  <2>2. checks[5].fails <=>
          \E d \in found : h.nonceLength # d.NonceSize \/ h.tagLength # d.TagSize
    BY ChecksListed
  <2>3. /\ checks[7].fails <=> key = NoKey
        /\ checks[8].fails <=> \E d \in found : key.size # d.KeySize
    BY ChecksListed
  <2> HIDE DEF checks, found
  <2>4. ~checks[1].fails /\ ~checks[4].fails /\ ~checks[7].fails /\ ~checks[10].fails
    BY <1>6, <1>7, <1>8, <2>1, <2>3
  <2>5. ~checks[5].fails /\ ~checks[8].fails
    BY <1>7, <1>8, <1>9, <2>2, <2>3
  <2>6. QED
    BY <2>4, <2>5
<1>11. ~checks[2].fails
  <2>1. checks[2].fails <=> h.ciphertextLength > config[e].MaximumPlaintextBytes
    BY ChecksListed
  <2>2. h.ciphertextLength <= config[e].MaximumPlaintextBytes
    BY DEF CanOpen
  <2>3. QED
    BY <1>6, <2>1, <2>2
<1>12. ~checks[3].fails
  <2>1. checks[3].fails <=> f.size # Announced(h) \/ 0 \in {h.sessionID, h.sequence, h.keyID}
    BY ChecksListed
  <2>2. QED
    BY <1>2, <1>5, <2>1
<1>13. ~checks[9].fails
  <2>1. checks[9].fails <=> ~Opens(InboundKey(e, h), f)
    BY ChecksListed
  <2>2. QED
    BY <1>2, <1>7, <2>1 DEF Opens
<1>14. /\ checks[6].fails <=> ~WouldAccept(replay[e], windowSize[e], ReplayDomain(h), h.sequence)
       /\ checks[6].error = "ReplayDetected"
  BY ChecksListed
<1>15. Len(checks) = 10
  BY ChecksListed
<1> HIDE DEF checks
<1>16. \/ /\ FirstError(checks) = "None"
          /\ \A i \in 1 .. 10 : ~checks[i].fails
       \/ \E i \in 1 .. 10 : FirstError(checks) = checks[i].error /\ checks[i].fails
  BY <1>15, FirstErrorIs
<1>17. \A i \in 1 .. 10 : checks[i].fails => i = 6
  BY <1>10, <1>11, <1>12, <1>13
<1>18. FirstError(checks) = IF checks[6].fails THEN "ReplayDetected" ELSE "None"
  BY <1>14, <1>16, <1>17
<1>19. QED
  BY <1>3, <1>14, <1>18

\* For any endpoints, frames and damage before it: an envelope that arrives as
\* it was sent, at a receiver that can open it, is accepted unless it was
\* accepted before or newer ones have pushed it out of the window, and then it
\* is refused as a replay.
THEOREM FreshIsAccepted == Spec => []AcceptsExactlyFresh
<1>1. TransportIInv => AcceptsExactlyFresh
  <2> SUFFICES ASSUME TransportIInv, NEW e \in Receivers, NEW f \in Envelopes, CanOpen(e, f)
               PROVE  LET seen == History(e, ReplayDomain(f.header))
                          seq  == f.header.sequence
                      IN  UnprotectError(e, f.header.protocol, f) =
                            IF seq \notin seen /\ \A t \in seen : t - seq < windowSize[e]
                            THEN "None" ELSE "ReplayDetected"
    BY DEF AcceptsExactlyFresh
  <2> DEFINE d    == ReplayDomain(f.header)
             seen == History(e, d)
             seq  == f.header.sequence
  <2>1. e \in Endpoints
    OBVIOUS
  <2>2. UnprotectError(e, f.header.protocol, f) =
          IF WouldAccept(replay[e], windowSize[e], d, seq) THEN "None" ELSE "ReplayDetected"
    BY <2>1, OnlyWindowRefuses
  <2>3. d \in Domains /\ seq \in Sequences
    BY SentMessages DEF TransportIInv, Message, Messages
  <2>4. Remembers(replay[e], d, seen) /\ seen \in SUBSET Nat
    BY <2>1, <2>3, AcceptedMessages DEF TransportIInv, InboundIInv
  <2>5. d.session # 0 /\ seq # 0 /\ seq \in Nat /\ windowSize[e] \in 1 .. WordBits
    BY <2>1, <2>3 DEF Domains, Sequences, TransportIInv, OutboundIInv
  <2>6. WouldAccept(replay[e], windowSize[e], d, seq)
          <=> seq \notin seen /\ \A t \in seen : t - seq < windowSize[e]
    <3> HIDE DEF d, seen, seq
    <3>1. QED
      BY <2>4, <2>5, RememberedAnswers
  <2>7. QED
    BY <2>2, <2>6
<1>2. QED
  BY <1>1, TransportInvariant, PTL
-----------------------------------------------------------------------------
(* The endpoints implement the channel.  Sessions that an application       *)
(* chooses are new ones throughout.                                        *)

\* The bags of the channel are those of the endpoints.
LEMMA SameBags ==
  /\ EmptyBag = Channel!EmptyBag
  /\ \A B : BagToSet(B) = Channel!BagToSet(B)
  /\ \A S : SetToBag(S) = Channel!SetToBag(S)
  /\ \A B, C : B (+) C = Channel!(+)(B, C)
BY DEF EmptyBag, Channel!EmptyBag, BagToSet, Channel!BagToSet, SetToBag, Channel!SetToBag,
       (+), Channel!(+)

\* The channel sees the envelopes and what was accepted.
LEMMA Unseen ==
  ASSUME Envelopes' = Envelopes, UNCHANGED accepted
  PROVE  UNCHANGED Channel!channelVars
BY DEF Channel!channelVars

\* Sealing sends a message whose identity no other has.
LEMMA SealSends ==
  ASSUME TransportIInv, IdentityIInv, NEW e \in Senders, NEW protocol \in Protocols,
         NEW p \in Payloads, NEW id, ProtectSealed(e, protocol, p, id)
  PROVE  \E m \in Messages : Channel!Send(m)
<1> USE DEF TransportIInv
<1>1. InSession(e, p, id) /\ TakeSequence(e, p) /\ UNCHANGED accepted
  BY DEF ProtectSealed, InSession, inbound
<1>2. PICK c \in OutboundCiphers(e) :
        air' = air \cup {Envelope(Header(e, c, protocol, p, id), BodySize(c, p), OutboundKey(e), p)}
  BY DEF ProtectSealed
<1> DEFINE new == Envelope(Header(e, c, protocol, p, id), BodySize(c, p), OutboundKey(e), p)
<1>3. /\ Envelopes' = Envelopes \cup {new}
      /\ new.header.sequence = nextSequence[e]
      /\ EnvelopeClaim(new) = Claim(config[e], id)
  BY <1>2 DEF Envelopes, Envelope, Header, EnvelopeClaim, Claim
<1>4. Message(new) \in Messages
  BY <1>1, SealedWell DEF WellSealed
<1> HIDE DEF new
<1>5. ASSUME NEW f \in Envelopes
      PROVE  Message(f).id # Message(new).id
  <2>1. CASE EnvelopeClaim(f) = EnvelopeClaim(new)
    <3>1. f.header.sequence < nextSequence[e] /\ f.header.sequence \in Nat
      BY <1>1, <1>3, <2>1, SessionBehind DEF IdentityIInv
    <3>2. f.header.sequence # new.header.sequence
      BY <1>3, <3>1 DEF IdentityIInv
    <3>3. QED
      BY <3>2 DEF Message
  <2>2. CASE EnvelopeClaim(f) # EnvelopeClaim(new)
    BY <2>2 DEF Message, ReplayDomain, EnvelopeClaim
  <2>3. QED
    BY <2>1, <2>2
<1>6. {Message(f) : f \in Envelopes'} = {Message(f) : f \in Envelopes} \cup {Message(new)}
  BY <1>3
<1>7. Channel!Send(Message(new))
  BY <1>1, <1>5, <1>6 DEF Channel!Send
<1>8. QED
  BY <1>4, <1>7

\* What is accepted was sent and is delivered for the first time.
LEMMA AcceptDelivers ==
  ASSUME TransportIInv, NEW e \in Receivers, NEW protocol, NEW f \in Arrivals,
         UnprotectAccepted(e, protocol, f)
  PROVE  \E m \in Messages : Channel!Deliver(e, m)
<1> USE DEF TransportIInv
<1> DEFINE m   == Message(f)
           d   == m.id.domain
           seq == m.id.sequence
<1>1. /\ f \in Envelopes
      /\ WouldAccept(replay[e], windowSize[e], ReplayDomain(f.header), f.header.sequence)
  BY Opened DEF UnprotectAccepted
<1>2. m \in Messages /\ m \in {Message(g) : g \in Envelopes}
  BY <1>1, SentMessages
<1>3. d = ReplayDomain(f.header) /\ seq = f.header.sequence
  BY DEF Message
<1>4. d \in Domains /\ seq \in Nat /\ e \in Endpoints
  BY <1>2 DEF Messages, Sequences
<1>5. /\ Envelopes' = Envelopes
      /\ accepted' = [accepted EXCEPT ![e] = @ (+) SetToBag({m})]
  BY DEF UnprotectAccepted, channel, Envelopes
<1> HIDE DEF m, d, seq
<1>6. seq \notin History(e, d)
  <2>1. Remembers(replay[e], d, History(e, d)) /\ History(e, d) \in SUBSET Nat
    BY <1>4, AcceptedMessages DEF InboundIInv
  <2>2. windowSize[e] \in 1 .. WordBits
    BY <1>4 DEF OutboundIInv
  <2>3. WouldAccept(replay[e], windowSize[e], d, seq)
    BY <1>1, <1>3
  <2>4. QED
    BY <1>4, <2>1, <2>2, <2>3, RememberedAnswers
<1>7. \A n \in BagToSet(accepted[e]) : n.id # m.id
  BY <1>6 DEF History, d, seq
<1>8. \A n \in Channel!BagToSet(accepted[e]) : n.id # m.id
  BY <1>7, SameBags
<1>9. accepted' = [accepted EXCEPT ![e] = Channel!(+)(@, Channel!SetToBag({m}))]
  BY <1>5, SameBags
<1>10. Channel!Deliver(e, m)
  BY <1>2, <1>5, <1>8, <1>9 DEF Channel!Deliver
<1>11. QED
  BY <1>2, <1>10

LEMMA ForgetForgets ==
  ASSUME NEW e \in Endpoints, Forget(e), UNCHANGED air
  PROVE  Channel!Forget(e)
BY SameBags DEF Forget, Channel!Forget, Envelopes

LEMMA InitChannel == Init => Channel!Init
BY SameBags DEF Init, Channel!Init, Envelopes

LEMMA NextChannel ==
  TransportIInv /\ IdentityIInv /\ [Next]_vars => [Channel!Next]_(Channel!channelVars)
<1> SUFFICES ASSUME TransportIInv, IdentityIInv, [Next]_vars
             PROVE  Channel!Next \/ UNCHANGED Channel!channelVars
  OBVIOUS
<1>1. ASSUME NEW e \in Senders, Protect(e)
      PROVE  Channel!Next \/ UNCHANGED Channel!channelVars
  <2>1. ASSUME NEW p \in Payloads, NEW id, NEW protocol \in Protocols,
               ProtectSealed(e, protocol, p, id)
        PROVE  Channel!Next
    BY <2>1, SealSends DEF Channel!Next
  <2>2. ASSUME NEW p \in Payloads, ProtectPlain(e, p)
        PROVE  UNCHANGED Channel!channelVars
    <3>1. Envelopes' = Envelopes /\ UNCHANGED accepted
      BY <2>2 DEF ProtectPlain, Envelopes, Plain, inbound
    <3>2. QED
      BY <3>1, Unseen
  <2>3. CASE UNCHANGED <<air, accepted>>
    BY <2>3, Unseen DEF Envelopes
  <2>4. QED
    BY <1>1, <2>1, <2>2, <2>3
       DEF Protect, ProtectRefused, Refuse, ProtectUnsessioned, ProtectExhausted,
           ProtectSpoiled, InSession, inbound, channel
<1>2. ASSUME NEW e \in Receivers, NEW protocol \in Protocols, NEW f \in Arrivals,
             Unprotect(e, protocol, f)
      PROVE  Channel!Next \/ UNCHANGED Channel!channelVars
  <2>1. CASE UnprotectAccepted(e, protocol, f)
    BY <2>1, AcceptDelivers DEF Channel!Next
  <2>2. CASE UNCHANGED <<air, accepted>>
    BY <2>2, Unseen DEF Envelopes
  <2>3. QED
    BY <1>2, <2>1, <2>2
       DEF Unprotect, UnprotectRejected, Refuse, UnprotectPlain, inbound, channel
<1>3. ASSUME NEW e \in Endpoints, Operate(e)
      PROVE  Channel!Next
  <2>1. Forget(e) /\ UNCHANGED air
    BY <1>3 DEF Operate, SetConfig, Restart, Configure, ResetReplayProtection, channel
  <2>2. QED
    BY <2>1, ForgetForgets DEF Channel!Next
<1>4. CASE UNCHANGED <<air, accepted>>
  BY <1>4, Unseen DEF Envelopes
<1>5. QED
  BY <1>1, <1>2, <1>3, <1>4
     DEF Next, Manage, Observe, AddKey, RemoveKey, Register, Unregister,
         RegisterObserver, UnregisterObserver, inbound, channel, vars

\* For any endpoints, frames and damage: as long as applications choose new
\* session identifiers, what a receiver accepts as authenticated was sent exactly
\* so and is accepted once until the receiver forgets its history.
THEOREM TransportImplementsChannel ==
  ASSUME ~ReuseSessions
  PROVE  Spec => ImplementsChannel
<1>1. Init => IdentityIInv
  BY InitIdentity
<1>2. IdentityIInv /\ [Next]_vars => IdentityIInv'
  BY NextIdentity
<1>3. QED
  BY <1>1, <1>2, InitTransport, NextTransport, InitChannel, NextChannel, PTL
     DEF Spec, ImplementsChannel, Channel!Spec
-----------------------------------------------------------------------------
(* What an observer makes of a sequence of notices.  Followed is a recursive *)
(* function; that it exists, and has one value, is shown with the least    *)
(* index at which it would not (Least).                                    *)

Elements(s) == {s[i] : i \in DOMAIN s}
IsSequence(s) == s \in Seq(Elements(s))

\* The observer knows g[i] after the first i of the events.
Trace(g, session, s) ==
  g[0] = session /\ \A i \in 1 .. Len(s) : g[i] = Learn(g[i - 1], s[i])

\* ... and g says nothing of more than the first n.
TraceTo(g, session, s, n) ==
  /\ g = [i \in 0 .. n |-> g[i]]
  /\ g[0] = session
  /\ \A i \in 1 .. n : g[i] = Learn(g[i - 1], s[i])

LEMMA Sequenced ==
  ASSUME NEW T, NEW s \in Seq(T)
  PROVE  IsSequence(s)
BY DEF IsSequence, Elements

LEMMA Shape ==
  ASSUME NEW s, IsSequence(s)
  PROVE  /\ Len(s) \in Nat /\ DOMAIN s = 1 .. Len(s)
         /\ s = [i \in 1 .. Len(s) |-> s[i]]
BY DEF IsSequence

\* There is such a g for the first n events.
LEMMA TraceExists ==
  ASSUME NEW session, NEW s, NEW N \in Nat
  PROVE  \E g : TraceTo(g, session, s, N)
<1> DEFINE Bad == {n \in Nat : ~\E g : TraceTo(g, session, s, n)}
<1>1. SUFFICES ASSUME N \in Bad PROVE FALSE
  OBVIOUS
<1>2. PICK n \in Bad : \A m \in Bad : n <= m
  <2> HIDE DEF Bad
  <2>1. Bad \subseteq Nat
    BY DEF Bad
  <2>2. QED
    BY <1>1, <2>1, Least
<1>3. n # 0
  <2>1. TraceTo([i \in {0} |-> session], session, s, 0)
    <3>1. 0 .. 0 = {0} /\ 1 .. 0 = {}
      OBVIOUS
    <3>2. QED
      BY <3>1 DEF TraceTo
  <2>2. QED
    BY <2>1
<1>4. n \in Nat /\ n - 1 \in Nat /\ n - 1 \notin Bad
  BY <1>2, <1>3
<1>5. PICK g : TraceTo(g, session, s, n - 1)
  BY <1>4
<1> DEFINE h == [i \in 0 .. n |-> IF i = n THEN Learn(g[n - 1], s[n]) ELSE g[i]]
<1>6. h = [i \in 0 .. n |-> h[i]] /\ h[0] = session
  BY <1>3, <1>4, <1>5 DEF TraceTo
<1>7. ASSUME NEW i \in 1 .. n PROVE h[i] = Learn(h[i - 1], s[i])
  <2>1. i - 1 \in 0 .. n /\ i - 1 # n /\ i \in 0 .. n /\ h[i - 1] = g[i - 1]
    BY <1>4
  <2>2. CASE i = n
    BY <2>1, <2>2
  <2>3. CASE i # n
    <3>1. i \in 1 .. n - 1 /\ h[i] = g[i]
      BY <1>4, <2>1, <2>3
    <3>2. QED
      BY <1>5, <2>1, <3>1 DEF TraceTo
  <2>4. QED
    BY <2>2, <2>3
<1>8. TraceTo(h, session, s, n)
  <2> HIDE DEF h
  <2>1. QED
    BY <1>6, <1>7 DEF TraceTo
<1>9. QED
  BY <1>2, <1>8

\* Followed is the last value of one.
LEMMA FollowedTrace ==
  ASSUME NEW session, NEW s, IsSequence(s)
  PROVE  \E g : Trace(g, session, s) /\ Followed(session, s) = g[Len(s)]
<1> DEFINE K(k) == k = [i \in 0 .. Len(s) |->
                          IF i = 0 THEN session ELSE Learn(k[i - 1], s[i])]
           g == CHOOSE k : K(k)
<1>1. Len(s) \in Nat
  BY Shape
<1>2. \E k : K(k)
  <2>1. PICK k : TraceTo(k, session, s, Len(s))
    BY <1>1, TraceExists
  <2> DEFINE Known(i) == IF i = 0 THEN session ELSE Learn(k[i - 1], s[i])
  <2>2. \A i \in 0 .. Len(s) : k[i] = Known(i)
    BY <1>1, <2>1 DEF TraceTo
  <2>3. K(k)
    <3>1. K(k) <=> k = [i \in 0 .. Len(s) |-> Known(i)]
      OBVIOUS
    <3> HIDE DEF K, Known
    <3>2. k = [i \in 0 .. Len(s) |-> Known(i)]
      BY <2>1, <2>2 DEF TraceTo
    <3>3. QED
      BY <3>1, <3>2
  <2>4. QED
    BY <2>3
<1>3. K(g)
  <2> HIDE DEF K
  <2>1. QED
    BY <1>2
<1>4. Followed(session, s) = g[Len(s)]
  BY Zenon DEF Followed
<1> HIDE DEF g
<1>5. Trace(g, session, s)
  BY <1>1, <1>3 DEF Trace
<1>6. QED
  BY <1>4, <1>5

\* ... and of any other.
LEMMA FollowedIs ==
  ASSUME NEW session, NEW s, IsSequence(s), NEW g, Trace(g, session, s)
  PROVE  Followed(session, s) = g[Len(s)]
<1>1. Len(s) \in Nat
  BY Shape
<1>2. PICK f : Trace(f, session, s) /\ Followed(session, s) = f[Len(s)]
  BY FollowedTrace
<1> DEFINE Bad == {i \in Nat : i <= Len(s) /\ f[i] # g[i]}
<1>3. SUFFICES ASSUME Bad # {} PROVE FALSE
  BY <1>1, <1>2
<1>4. PICK i \in Bad : \A j \in Bad : i <= j
  <2> HIDE DEF Bad
  <2>1. Bad \subseteq Nat
    BY DEF Bad
  <2>2. QED
    BY <1>3, <2>1, Least
<1>5. i # 0
  BY <1>2, <1>4 DEF Trace
<1>6. i \in 1 .. Len(s) /\ i - 1 \in Nat /\ i - 1 \notin Bad /\ i - 1 <= Len(s)
  BY <1>1, <1>4, <1>5
<1>7. f[i - 1] = g[i - 1]
  BY <1>6
<1>8. f[i] = Learn(f[i - 1], s[i]) /\ g[i] = Learn(g[i - 1], s[i])
  BY <1>2, <1>6 DEF Trace
<1>9. QED
  BY <1>4, <1>7, <1>8

LEMMA FollowedNone ==
  ASSUME NEW session
  PROVE  IsSequence(<<>>) /\ Followed(session, <<>>) = session
<1> DEFINE g == [i \in {0} |-> session]
<1>1. IsSequence(<<>>)
  BY DEF IsSequence, Elements
<1>2. Trace(g, session, <<>>)
  BY DEF Trace
<1>3. QED
  BY <1>1, <1>2, FollowedIs

LEMMA FollowedOne ==
  ASSUME NEW session, NEW n
  PROVE  IsSequence(<<n>>) /\ Followed(session, <<n>>) = Learn(session, n)
<1> DEFINE g == [i \in 0 .. 1 |-> IF i = 0 THEN session ELSE Learn(session, n)]
           s == <<n>>
<1>1. IsSequence(s) /\ Len(s) = 1 /\ s[1] = n
  BY DEF IsSequence, Elements
<1>2. g[0] = session /\ g[1] = Learn(session, n)
  OBVIOUS
<1> HIDE DEF g, s
<1>3. Trace(g, session, s)
  BY <1>1, <1>2 DEF Trace
<1>4. QED
  BY <1>1, <1>2, <1>3, FollowedIs DEF s

\* One sequence after another
LEMMA FollowedBoth ==
  ASSUME NEW session, NEW r, NEW s, IsSequence(r), IsSequence(s)
  PROVE  /\ IsSequence(r \o s)
         /\ Followed(session, r \o s) = Followed(Followed(session, r), s)
<1> DEFINE T == Elements(r) \cup Elements(s)
           q == r \o s
           m == Len(r)
<1>1. r \in Seq(T) /\ s \in Seq(T) /\ q \in Seq(T)
  BY DEF IsSequence
<1>2. /\ m \in Nat /\ Len(s) \in Nat /\ Len(q) = m + Len(s)
      /\ \A i \in 1 .. Len(q) : q[i] = IF i <= m THEN r[i] ELSE s[i - m]
  BY <1>1
<1>3. PICK f : Trace(f, session, r) /\ Followed(session, r) = f[m]
  BY FollowedTrace
<1>4. PICK g : Trace(g, f[m], s) /\ Followed(f[m], s) = g[Len(s)]
  BY FollowedTrace
<1> DEFINE h == [i \in 0 .. Len(q) |-> IF i <= m THEN f[i] ELSE g[i - m]]
<1> HIDE DEF q, m, T
<1>5. g[0] = f[m] /\ f[0] = session
  BY <1>3, <1>4 DEF Trace
<1>6. ASSUME NEW i \in 1 .. Len(q) PROVE h[i] = Learn(h[i - 1], q[i])
  <2>1. CASE i <= m
    <3>1. h[i] = f[i] /\ h[i - 1] = f[i - 1] /\ q[i] = r[i] /\ i \in 1 .. m
      BY <1>2, <2>1
    <3>2. QED
      BY <1>3, <3>1 DEF Trace, m
  <2>2. CASE i > m
    <3> DEFINE j == i - m
    <3>1. /\ j \in 1 .. Len(s) /\ h[i] = g[j] /\ q[i] = s[j]
          /\ i - 1 - m = j - 1
      BY <1>2, <2>2
    <3>2. h[i - 1] = g[j - 1]
      <4>1. CASE i - 1 <= m
        <5>1. i - 1 = m /\ j - 1 = 0 /\ i - 1 \in 0 .. Len(q)
          BY <1>2, <2>2, <4>1
        <5>2. h[i - 1] = f[m]
          BY <1>2, <5>1
        <5>3. QED
          BY <1>5, <5>1, <5>2
      <4>2. CASE ~(i - 1 <= m)
        BY <1>2, <3>1, <4>2
      <4>3. QED
        BY <4>1, <4>2
    <3> HIDE DEF h, j
    <3>3. QED
      BY <1>4, <3>1, <3>2 DEF Trace
  <2>3. QED
    BY <1>2, <2>1, <2>2
<1>7. h[0] = session
  BY <1>2, <1>5
<1>8. h[Len(q)] = g[Len(s)]
  <2>1. CASE Len(s) = 0
    <3>1. Len(q) = m /\ h[Len(q)] = f[m]
      BY <1>2, <2>1
    <3>2. QED
      BY <1>5, <2>1, <3>1
  <2>2. CASE Len(s) # 0
    <3>1. Len(q) > m /\ Len(q) - m = Len(s) /\ Len(q) \in 0 .. Len(q)
      BY <1>2, <2>2
    <3>2. QED
      BY <1>2, <3>1
  <2>3. QED
    BY <2>1, <2>2
<1> HIDE DEF h
<1>9. IsSequence(q) /\ Trace(h, session, q)
  BY <1>1, <1>6, <1>7, Sequenced DEF Trace
<1>10. Followed(session, q) = h[Len(q)]
  BY <1>9, FollowedIs
<1>11. QED
  BY <1>3, <1>4, <1>8, <1>9, <1>10 DEF q

\* What is learned of each event alone is all that counts.
LEMMA FollowedAlike ==
  ASSUME NEW session, NEW r, NEW s, IsSequence(r), IsSequence(s), Len(r) = Len(s),
         \A i \in 1 .. Len(s) : \A x : Learn(x, r[i]) = Learn(x, s[i])
  PROVE  Followed(session, r) = Followed(session, s)
<1>1. PICK g : Trace(g, session, s) /\ Followed(session, s) = g[Len(s)]
  BY FollowedTrace
<1>2. Trace(g, session, r)
  BY <1>1 DEF Trace
<1>3. QED
  BY <1>1, <1>2, FollowedIs

\* Events that say nothing of the session
LEMMA FollowedSilent ==
  ASSUME NEW session, NEW s, IsSequence(s), \A i \in 1 .. Len(s) : Learn(session, s[i]) = session
  PROVE  Followed(session, s) = session
<1> DEFINE g == [i \in 0 .. Len(s) |-> session]
<1>1. Len(s) \in Nat
  BY Shape
<1>2. Trace(g, session, s) /\ g[Len(s)] = session
  BY <1>1 DEF Trace
<1>3. QED
  BY <1>2, FollowedIs
-----------------------------------------------------------------------------
(* What a call tells its observers of the session *)

\* A notice of a session names it.
NamesSession(n) == n.what \in {"SessionEstablished", "SessionReset"} => "session" \in DOMAIN n

\* q is about c alone and leads from the session before to the one after.
TellsOf(c, q, before, after) ==
  /\ IsSequence(q)
  /\ \A i \in DOMAIN q : q[i].to = c /\ NamesSession(q[i])
  /\ Followed(before, q) = after

LEMMA TellsNothing ==
  ASSUME NEW c, NEW x
  PROVE  TellsOf(c, <<>>, x, x)
BY FollowedNone DEF TellsOf

LEMMA TellsOne ==
  ASSUME NEW c, NEW n, n.to = c, NamesSession(n), NEW x, NEW y, Learn(x, n) = y
  PROVE  TellsOf(c, <<n>>, x, y)
BY FollowedOne DEF TellsOf

LEMMA TellsBoth ==
  ASSUME NEW c, NEW q, NEW r, NEW x, NEW y, NEW z, TellsOf(c, q, x, y), TellsOf(c, r, y, z)
  PROVE  TellsOf(c, q \o r, x, z)
<1>1. IsSequence(q) /\ IsSequence(r)
  BY DEF TellsOf
<1>2. IsSequence(q \o r) /\ Followed(x, q \o r) = z
  BY <1>1, FollowedBoth DEF TellsOf
<1>3. \A i \in DOMAIN (q \o r) : (q \o r)[i].to = c /\ NamesSession((q \o r)[i])
  <2> DEFINE T == Elements(q) \cup Elements(r)
  <2>1. q \in Seq(T) /\ r \in Seq(T)
    BY <1>1 DEF IsSequence
  <2> HIDE DEF T
  <2>2. SUFFICES ASSUME NEW i \in 1 .. Len(q) + Len(r)
                 PROVE  (q \o r)[i].to = c /\ NamesSession((q \o r)[i])
    BY <2>1
  <2>3. CASE i <= Len(q)
    BY <2>1, <2>2, <2>3 DEF TellsOf
  <2>4. CASE i > Len(q)
    <3>1. (q \o r)[i] = r[i - Len(q)] /\ i - Len(q) \in DOMAIN r
      BY <2>1, <2>2, <2>4
    <3>2. QED
      BY <3>1 DEF TellsOf
  <2>5. QED
    BY <2>1, <2>3, <2>4
<1>4. QED
  BY <1>2, <1>3 DEF TellsOf

LEMMA FailureTells ==
  ASSUME NEW c, NEW error, NEW x
  PROVE  TellsOf(c, Failure(c, error), x, x)
BY TellsOne DEF Failure, Learn, NamesSession

LEMMA NoticeTells ==
  ASSUME NEW c, NEW what, what \notin {"SessionEstablished", "SessionReset"}, NEW x
  PROVE  TellsOf(c, <<Notice(c, what)>>, x, x)
BY TellsOne DEF Notice, Learn, NamesSession

LEMMA EstablishTells ==
  ASSUME NEW c, NEW id, sessionReady[c] => id = sessionID[c]
  PROVE  TellsOf(c, EstablishNotice(c, id), sessionID[c], id)
<1>1. CASE sessionReady[c]
  BY <1>1, TellsNothing DEF EstablishNotice
<1>2. CASE ~sessionReady[c]
  <2> DEFINE n == SessionNotice(c, "SessionEstablished", id)
  <2>1. n.to = c /\ NamesSession(n) /\ Learn(sessionID[c], n) = id
    BY DEF SessionNotice, Learn, NamesSession
  <2>2. EstablishNotice(c, id) = <<n>>
    BY <1>2 DEF EstablishNotice
  <2> HIDE DEF n
  <2>3. QED
    BY <2>1, <2>2, TellsOne
<1>3. QED
  BY <1>1, <1>2

LEMMA ChangeTells ==
  ASSUME NEW c, NEW before, NEW after
  PROVE  TellsOf(c, SessionChange(c, before, after), before, after)
<1> DEFINE r == SessionNotice(c, "SessionReset", before)
           n == SessionNotice(c, "SessionEstablished", after)
           ends   == IF before # 0 /\ before # after THEN <<r>> ELSE <<>>
           begins == IF after # 0 /\ after # before THEN <<n>> ELSE <<>>
           between == IF before = after THEN after ELSE 0
<1>1. r.to = c /\ NamesSession(r) /\ Learn(before, r) = 0
  BY DEF SessionNotice, Learn, NamesSession
<1>2. n.to = c /\ NamesSession(n) /\ Learn(between, n) = after
  BY DEF SessionNotice, Learn, NamesSession
<1>3. SessionChange(c, before, after) = ends \o begins
  BY DEF SessionChange
<1> HIDE DEF r, n
<1>4. TellsOf(c, ends, before, between)
  <2>1. CASE before # 0 /\ before # after
    BY <1>1, <2>1, TellsOne
  <2>2. CASE ~(before # 0 /\ before # after)
    BY <2>2, TellsNothing
  <2>3. QED
    BY <2>1, <2>2
<1>5. TellsOf(c, begins, between, after)
  <2>1. CASE after # 0 /\ after # before
    BY <1>2, <2>1, TellsOne
  <2>2. CASE ~(after # 0 /\ after # before)
    BY <2>2, TellsNothing
  <2>3. QED
    BY <2>1, <2>2
<1> HIDE DEF ends, begins, between
<1>6. QED
  BY <1>3, <1>4, <1>5, TellsBoth

\* A call at c that tells its observers what it makes of the session, and
\* changes nothing of it elsewhere
Speaks(c) ==
  /\ \E q : Notify(c, q) /\ TellsOf(c, q, sessionID[c], sessionID'[c])
  /\ \A e \in Endpoints \ {c} : sessionID'[e] = sessionID[e]
  /\ UNCHANGED observed

\* A call that neither tells nor changes anything of the session speaks.
LEMMA SpeaksNothing ==
  ASSUME NEW c, UNCHANGED <<sessionID, observed>>,
         notices' = <<>> \/ \E error : Notify(c, Failure(c, error))
  PROVE  Speaks(c)
<1>1. CASE notices' = <<>>
  <2>1. Notify(c, <<>>)
    BY <1>1 DEF Notify
  <2>2. QED
    BY <2>1, TellsNothing DEF Speaks
<1>2. ASSUME NEW error, Notify(c, Failure(c, error))
      PROVE  Speaks(c)
  BY <1>2, FailureTells DEF Speaks
<1>3. QED
  BY <1>1, <1>2

LEMMA SpeaksSession ==
  ASSUME OutboundIInv, NEW c \in Endpoints, NEW p, NEW id, InSession(c, p, id),
         \/ Notify(c, EstablishNotice(c, id))
         \/ \E error : Notify(c, EstablishNotice(c, id) \o Failure(c, error))
  PROVE  Speaks(c)
<1>1. /\ sessionReady[c] => id = sessionID[c]
      /\ sessionID' = [sessionID EXCEPT ![c] = id]
      /\ UNCHANGED observed
  BY DEF InSession, SessionDraws, Establish
<1>2. sessionID'[c] = id /\ \A e \in Endpoints \ {c} : sessionID'[e] = sessionID[e]
  BY <1>1 DEF OutboundIInv
<1>3. TellsOf(c, EstablishNotice(c, id), sessionID[c], id)
  BY <1>1, EstablishTells
<1>4. \A error : TellsOf(c, EstablishNotice(c, id) \o Failure(c, error), sessionID[c], id)
  BY <1>3, FailureTells, TellsBoth
<1>5. QED
  BY <1>1, <1>2, <1>3, <1>4 DEF Speaks

LEMMA ProtectSpeaks ==
  ASSUME OutboundIInv, NEW c \in Endpoints, Protect(c)
  PROVE  Speaks(c)
<1>1. ASSUME NEW p \in Payloads,
             \/ \E null \in BOOLEAN : ProtectRefused(c, p, null)
             \/ ProtectPlain(c, p)
             \/ ProtectUnsessioned(c, p)
      PROVE  Speaks(c)
  <2>1. UNCHANGED <<sessionID, observed>>
    BY <1>1 DEF ProtectRefused, ProtectPlain, ProtectUnsessioned, Refuse, outbound
  <2>2. notices' = <<>> \/ \E error : Notify(c, Failure(c, error))
    BY <1>1 DEF ProtectRefused, ProtectPlain, ProtectUnsessioned, Refuse
  <2>3. QED
    BY <2>1, <2>2, SpeaksNothing
<1>2. ASSUME NEW p \in Payloads, NEW id,
             \/ ProtectExhausted(c, p, id)
             \/ \E fault \in Faults : ProtectSpoiled(c, p, id, fault)
             \/ \E protocol \in Protocols : ProtectSealed(c, protocol, p, id)
      PROVE  Speaks(c)
  <2>1. InSession(c, p, id)
    BY <1>2 DEF ProtectExhausted, ProtectSpoiled, ProtectSealed
  <2>2. \/ Notify(c, EstablishNotice(c, id))
        \/ \E error : Notify(c, EstablishNotice(c, id) \o Failure(c, error))
    BY <1>2 DEF ProtectExhausted, ProtectSpoiled, ProtectSealed
  <2>3. QED
    BY <2>1, <2>2, SpeaksSession
<1>3. QED
  BY <1>1, <1>2 DEF Protect

LEMMA UnprotectSpeaks ==
  ASSUME NEW c, NEW protocol, NEW f, Unprotect(c, protocol, f)
  PROVE  Speaks(c)
<1>1. UNCHANGED <<sessionID, observed>>
  BY DEF Unprotect, UnprotectRejected, Refuse, UnprotectPlain, UnprotectAccepted, outbound
<1>2. notices' = <<>> \/ \E error : Notify(c, Failure(c, error))
  BY DEF Unprotect, UnprotectRejected, Refuse, UnprotectPlain, UnprotectAccepted
<1>3. QED
  BY <1>1, <1>2, SpeaksNothing

LEMMA ConfigureSpeaks ==
  ASSUME OutboundIInv, NEW c \in Endpoints, NEW conf, SetConfig(c, conf)
  PROVE  Speaks(c)
<1> DEFINE id == conf.SessionID
           q == <<Notice(c, "ConfigurationChanged")>> \o SessionChange(c, sessionID[c], id)
<1>1. /\ sessionID' = [sessionID EXCEPT ![c] = id]
      /\ Notify(c, q)
      /\ UNCHANGED observed
  BY DEF SetConfig, Configure
<1> HIDE DEF id
<1>2. sessionID'[c] = id /\ \A e \in Endpoints \ {c} : sessionID'[e] = sessionID[e]
  BY <1>1 DEF OutboundIInv
<1>3. TellsOf(c, <<Notice(c, "ConfigurationChanged")>>, sessionID[c], sessionID[c])
  BY NoticeTells
<1>4. TellsOf(c, q, sessionID[c], id)
  BY <1>3, ChangeTells, TellsBoth
<1> HIDE DEF q
<1>5. QED
  BY <1>1, <1>2, <1>4 DEF Speaks

LEMMA ResetSpeaks ==
  ASSUME NEW c, ResetReplayProtection(c)
  PROVE  Speaks(c)
<1> DEFINE q == <<Notice(c, "ReplayProtectionReset")>>
<1>1. Notify(c, q) /\ UNCHANGED <<sessionID, observed>>
  BY DEF ResetReplayProtection, outbound
<1>2. TellsOf(c, q, sessionID[c], sessionID[c])
  BY NoticeTells
<1> HIDE DEF q
<1>3. QED
  BY <1>1, <1>2 DEF Speaks

\* Whoever listens to the object that spoke, or to another one, follows.
LEMMA SpokenFollowed ==
  ASSUME OutboundIInv, NEW c \in Endpoints, Speaks(c), NEW e \in observed
  PROVE  sessionID'[e] = Followed(sessionID[e], Heard(e)')
<1>1. PICK q : Notify(c, q) /\ TellsOf(c, q, sessionID[c], sessionID'[c])
  BY DEF Speaks
<1> DEFINE h == [i \in DOMAIN notices' |->
                   IF notices'[i].to = e THEN notices'[i] ELSE Notice(e, "Nothing")]
<1>2. Heard(e)' = h
  BY DEF Heard
<1>3. CASE e = c
  <2>1. notices' = q /\ IsSequence(q) /\ \A i \in DOMAIN q : q[i].to = c
    BY <1>1, <1>3 DEF Notify, TellsOf
  <2>2. DOMAIN q = 1 .. Len(q) /\ q = [i \in 1 .. Len(q) |-> q[i]]
    BY <2>1, Shape
  <2>3. h = q
    BY <1>3, <2>1, <2>2
  <2> HIDE DEF h
  <2>4. QED
    BY <1>1, <1>2, <1>3, <2>3 DEF TellsOf
<1>4. CASE e # c
  <2>1. IsSequence(notices') /\ \A i \in DOMAIN notices' : notices'[i].to # e
    BY <1>1, <1>4, FollowedNone DEF Notify, TellsOf
  <2>2. Len(notices') \in Nat /\ DOMAIN notices' = 1 .. Len(notices')
    BY <2>1, Shape
  <2>3. h = [i \in 1 .. Len(notices') |-> Notice(e, "Nothing")]
    BY <2>1, <2>2
  <2>4. IsSequence(h) /\ \A i \in 1 .. Len(h) : h[i] = Notice(e, "Nothing")
    <3>1. h \in Seq({Notice(e, "Nothing")}) /\ Len(h) = Len(notices')
      BY <2>2, <2>3
    <3>2. QED
      BY <2>3, <3>1, Sequenced
  <2>5. \A i \in 1 .. Len(h) : Learn(sessionID[e], h[i]) = sessionID[e]
    BY <2>4 DEF Notice, Learn
  <2> HIDE DEF h
  <2>6. Followed(sessionID[e], h) = sessionID[e]
    BY <2>4, <2>5, FollowedSilent
  <2>7. sessionID'[e] = sessionID[e]
    <3>1. e \in Endpoints \ {c}
      BY <1>4 DEF OutboundIInv
    <3>2. QED
      BY <3>1 DEF Speaks
  <2>8. QED
    BY <1>2, <2>6, <2>7
<1>5. QED
  BY <1>3, <1>4

\* What tells nobody and changes no session needs no following.
LEMMA SilenceFollowed ==
  ASSUME NEW e, notices' = <<>>, sessionID'[e] = sessionID[e]
  PROVE  sessionID'[e] = Followed(sessionID[e], Heard(e)')
<1>1. Heard(e)' = <<>>
  BY DEF Heard
<1>2. QED
  BY <1>1, FollowedNone

LEMMA NextFollowed ==
  ASSUME OutboundIInv, Next, NEW e \in observed, e \in observed'
  PROVE  sessionID'[e] = Followed(sessionID[e], Heard(e)')
<1>1. ASSUME NEW c \in Senders, Protect(c)
      PROVE  sessionID'[e] = Followed(sessionID[e], Heard(e)')
  <2>1. c \in Endpoints /\ Speaks(c)
    BY <1>1, ProtectSpeaks
  <2>2. QED
    BY <2>1, SpokenFollowed
<1>2. ASSUME NEW c \in Receivers, NEW protocol \in Protocols, NEW f \in Arrivals,
             Unprotect(c, protocol, f)
      PROVE  sessionID'[e] = Followed(sessionID[e], Heard(e)')
  <2>1. c \in Endpoints /\ Speaks(c)
    BY <1>2, UnprotectSpeaks
  <2>2. QED
    BY <2>1, SpokenFollowed
<1>3. ASSUME NEW c \in Endpoints, Operate(c)
      PROVE  sessionID'[e] = Followed(sessionID[e], Heard(e)')
  <2>1. ASSUME NEW conf \in Configs[c], SetConfig(c, conf)
        PROVE  sessionID'[e] = Followed(sessionID[e], Heard(e)')
    BY <2>1, ConfigureSpeaks, SpokenFollowed
  <2>2. ASSUME NEW conf \in Configs[c], Restart(c, conf)
        PROVE  sessionID'[e] = Followed(sessionID[e], Heard(e)')
    <3>1. /\ sessionID' = [sessionID EXCEPT ![c] = conf.SessionID]
          /\ observed' = observed \ {c}
          /\ notices' = <<>>
      BY <2>2 DEF Restart, Configure
    <3>2. sessionID'[e] = sessionID[e]
      BY <3>1 DEF OutboundIInv
    <3>3. QED
      BY <3>1, <3>2, SilenceFollowed
  <2>3. CASE ResetReplayProtection(c)
    BY <2>3, ResetSpeaks, SpokenFollowed
  <2>4. QED
    BY <1>3, <2>1, <2>2, <2>3 DEF Operate
<1>4. ASSUME NEW c, Manage(c) \/ Observe(c)
      PROVE  sessionID'[e] = Followed(sessionID[e], Heard(e)')
  <2>1. notices' = <<>> /\ sessionID' = sessionID
    BY <1>4 DEF Manage, Observe, AddKey, RemoveKey, Register, Unregister,
                RegisterObserver, UnregisterObserver, outbound
  <2>2. QED
    BY <2>1, SilenceFollowed
<1>5. QED
  BY <1>1, <1>2, <1>3, <1>4 DEF Next

\* For any endpoints and observers: whoever is told of an object, and follows
\* what it is told, knows the object's session after every call.
THEOREM ObserversFollow == Spec => ObserverFollowsSession
<1> DEFINE Follows == \A e \in observed \cap observed' :
                        sessionID'[e] = Followed(sessionID[e], Heard(e)')
<1>1. OutboundIInv /\ [Next]_vars => [Follows]_vars
  BY NextFollowed
<1> HIDE DEF Follows
<1>2. Spec => [][Follows]_vars
  BY <1>1, InitOutbound, NextOutbound, PTL DEF Spec
<1>3. QED
  BY <1>2 DEF ObserverFollowsSession, Follows
=============================================================================
