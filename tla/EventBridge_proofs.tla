-------------------------- MODULE EventBridge_proofs --------------------------
(***************************************************************************)
(* Proofs about EventBridge for every set of endpoints, configurations and *)
(* provisioned keys, and for a queue of any length.                        *)
(***************************************************************************)
EXTENDS EventBridge, TransportSecurity_proofs

USE EndpointsAssumption

-----------------------------------------------------------------------------
(* The objects do not notice the bridge. *)

\* The bridge is registered where it can be, and nobody else is.
Connected ==
  /\ initialized => handle \in Observable
  /\ observed \subseteq IF initialized THEN {handle} ELSE {}

LEMMA CallIsCall ==
  ASSUME NEW e \in Endpoints, Call(e)
  PROVE  Next
<1>1. CASE e \in Senders /\ Protect(e)
  BY <1>1 DEF Next
<1>2. ASSUME e \in Receivers, NEW protocol \in Protocols, NEW f \in Arrivals,
             Unprotect(e, protocol, f)
      PROVE  Next
  BY <1>2 DEF Next
<1>3. CASE Operate(e)
  BY <1>3 DEF Next
<1>4. QED
  BY <1>1, <1>2, <1>3 DEF Call

LEMMA BridgeNextIsNext == Connected /\ [BridgeNext]_bridgeVars => [Next]_vars
<1> SUFFICES ASSUME Connected, [BridgeNext]_bridgeVars PROVE [Next]_vars
  OBVIOUS
<1>1. ASSUME NEW e \in Observable, Initialize(e) PROVE [Next]_vars
  <2>1. CASE initialized
    BY <1>1, <2>1 DEF Initialize, bridgeVars
  <2>2. CASE ~initialized
    BY <1>1, <2>2 DEF Initialize, Next, Observe
  <2>3. QED
    BY <2>1, <2>2
<1>2. CASE Shutdown
  BY <1>2 DEF Connected, Shutdown, Next, Observe
<1>3. CASE Handle
  BY <1>3 DEF Handle
<1>4. ASSUME NEW e \in Endpoints, Call(e) PROVE [Next]_vars
  BY <1>4, CallIsCall
<1>5. CASE UNCHANGED bridgeVars
  BY <1>5 DEF bridgeVars
<1>6. QED
  BY <1>1, <1>2, <1>3, <1>4, <1>5 DEF BridgeNext

\* A call leaves the registrations alone, save that a restarted object loses
\* its observer.
LEMMA CallObserved ==
  ASSUME NEW e, Call(e)
  PROVE  observed' \in {observed, observed \ {e}}
BY DEF Call, Protect, ProtectRefused, ProtectPlain, ProtectUnsessioned, ProtectExhausted,
       ProtectSpoiled, ProtectSealed, InSession, Unprotect, UnprotectRejected, Refuse,
       UnprotectPlain, UnprotectAccepted, Operate, SetConfig, Restart,
       ResetReplayProtection

LEMMA InitConnected == BridgeInit => Connected
BY DEF BridgeInit, Init, Connected

LEMMA NextConnected == Connected /\ [BridgeNext]_bridgeVars => Connected'
<1> SUFFICES ASSUME Connected, [BridgeNext]_bridgeVars PROVE Connected'
  OBVIOUS
<1>1. ASSUME NEW e \in Observable, Initialize(e) PROVE Connected'
  BY <1>1 DEF Connected, Initialize, RegisterObserver, bridgeVars, vars, bridge
<1>2. CASE Shutdown
  BY <1>2 DEF Connected, Shutdown, UnregisterObserver
<1>3. CASE Handle
  BY <1>3 DEF Connected, Handle, vars, bridge
<1>4. ASSUME NEW e \in Endpoints, Call(e) PROVE Connected'
  <2>1. UNCHANGED bridge
    BY <1>4 DEF Call
  <2>2. QED
    BY <1>4, <2>1, CallObserved DEF Connected, bridge
<1>5. CASE UNCHANGED bridgeVars
  BY <1>5 DEF Connected, bridgeVars, vars, bridge
<1>6. QED
  BY <1>1, <1>2, <1>3, <1>4, <1>5 DEF BridgeNext

\* A bridge only listens: what the objects do with it they also do without it, so
\* every theorem about them holds with it too, for a queue of any length.
THEOREM BridgeOnlyObserves == BridgeSpec => Spec
<1>1. BridgeInit => Init
  BY DEF BridgeInit
<1>2. QED
  BY <1>1, InitConnected, NextConnected, BridgeNextIsNext, PTL DEF BridgeSpec, Spec

-----------------------------------------------------------------------------
(* The consumer *)

\* What is queued, once it is handled, ends at the session of the object the
\* bridge is connected to.
BridgeIInv ==
  /\ OutboundIInv
  /\ Connected
  /\ IsSequence(queue)
  /\ ConsumerCatchesUp

\* An event teaches what its notice teaches.
LEMMA EventTeaches ==
  ASSUME NEW n, NamesSession(n), NEW x
  PROVE  Learn(x, Event(n)) = Learn(x, n)
BY DEF NamesSession, Event, Learn

LEMMA EventsFollowed ==
  ASSUME NEW c, NEW q, NEW x, NEW y, TellsOf(c, q, x, y)
  PROVE  /\ IsSequence([i \in DOMAIN q |-> Event(q[i])])
         /\ Followed(x, [i \in DOMAIN q |-> Event(q[i])]) = y
<1> DEFINE r == [i \in DOMAIN q |-> Event(q[i])]
<1>1. IsSequence(q) /\ (\A i \in DOMAIN q : NamesSession(q[i])) /\ Followed(x, q) = y
  BY DEF TellsOf
<1>2. Len(q) \in Nat /\ DOMAIN q = 1 .. Len(q)
  BY <1>1, Shape
<1>3. r \in Seq({r[i] : i \in DOMAIN q}) /\ Len(r) = Len(q)
  BY <1>2
<1>4. IsSequence(r)
  BY <1>3, Sequenced
<1>5. \A i \in 1 .. Len(q) : \A z : Learn(z, r[i]) = Learn(z, q[i])
  BY <1>1, <1>2, EventTeaches
<1> HIDE DEF r
<1>6. Followed(x, r) = Followed(x, q)
  BY <1>1, <1>3, <1>4, <1>5, FollowedAlike
<1>7. QED
  BY <1>1, <1>4, <1>6 DEF r

LEMMA FollowedFirst ==
  ASSUME NEW x, NEW s, IsSequence(s), s # <<>>
  PROVE  IsSequence(Tail(s)) /\ Followed(Learn(x, Head(s)), Tail(s)) = Followed(x, s)
<1>1. s = <<Head(s)>> \o Tail(s) /\ Tail(s) \in Seq(Elements(s))
  BY DEF IsSequence
<1>2. IsSequence(Tail(s))
  BY <1>1, Sequenced
<1> DEFINE h == Head(s)
           t == Tail(s)
<1>3. IsSequence(<<h>>) /\ Followed(x, <<h>>) = Learn(x, h)
  BY FollowedOne
<1> HIDE DEF h, t
<1>4. Followed(x, <<h>> \o t) = Followed(Followed(x, <<h>>), t)
  BY <1>2, <1>3, FollowedBoth DEF t
<1>5. QED
  BY <1>1, <1>2, <1>3, <1>4 DEF h, t

\* What a call at e makes of the queue
LEMMA CallForwarded ==
  ASSUME BridgeIInv, NEW e \in Endpoints, Call(e), Speaks(e)
  PROVE  IsSequence(queue') /\ ConsumerCatchesUp'
<1>1. PICK q : Notify(e, q) /\ TellsOf(e, q, sessionID[e], sessionID'[e])
  BY DEF Speaks
<1>2. UNCHANGED <<initialized, handle, view, observed>> /\ Forward
  BY DEF Call, bridge, Speaks
<1>3. CASE e \in observed
  <2>1. handle = e /\ handle \in observed
    BY <1>3 DEF BridgeIInv, Connected
  <2> DEFINE r == [i \in DOMAIN q |-> Event(q[i])]
  <2>2. queue' = queue \o r
    BY <1>1, <1>2, <1>3 DEF Forward, Notify
  <2>3. IsSequence(r) /\ Followed(sessionID[e], r) = sessionID'[e]
    BY <1>1, EventsFollowed
  <2> HIDE DEF r
  <2>4. IsSequence(queue \o r) /\ Followed(view, queue \o r) = Followed(Followed(view, queue), r)
    BY <2>3, FollowedBoth DEF BridgeIInv
  <2>5. Followed(view, queue) = sessionID[e]
    BY <2>1 DEF BridgeIInv, ConsumerCatchesUp
  <2>6. QED
    BY <1>2, <2>1, <2>2, <2>3, <2>4, <2>5 DEF ConsumerCatchesUp
<1>4. CASE e \notin observed
  <2>1. notices' = <<>>
    BY <1>1, <1>4 DEF Notify
  <2>2. queue' = queue
    <3>1. queue' = queue \o <<>>
      BY <1>2, <2>1 DEF Forward
    <3>2. QED
      BY <3>1 DEF BridgeIInv, IsSequence
  <2>3. ASSUME handle \in observed PROVE sessionID'[handle] = sessionID[handle]
    <3>1. handle \in Endpoints \ {e}
      BY <1>4, <2>3 DEF BridgeIInv, OutboundIInv
    <3>2. QED
      BY <3>1 DEF Speaks
  <2>4. QED
    BY <1>2, <2>2, <2>3 DEF ConsumerCatchesUp, BridgeIInv
<1>5. QED
  BY <1>3, <1>4

\* A restarted object has no bridge.
LEMMA RestartForwarded ==
  ASSUME BridgeIInv, NEW e \in Endpoints, NEW c, Restart(e, c), Forward, UNCHANGED <<bridge, view>>
  PROVE  IsSequence(queue') /\ ConsumerCatchesUp'
<1>1. /\ sessionID' = [sessionID EXCEPT ![e] = c.SessionID]
      /\ observed' = observed \ {e}
      /\ notices' = <<>>
      /\ handle' = handle /\ view' = view
  BY DEF Restart, Configure, bridge
<1>2. queue' = queue
  <2>1. queue' = queue \o <<>>
    BY <1>1 DEF Forward
  <2>2. QED
    BY <2>1 DEF BridgeIInv, IsSequence
<1>3. ASSUME handle \in observed' PROVE sessionID'[handle] = sessionID[handle]
  BY <1>1, <1>3 DEF BridgeIInv, OutboundIInv
<1>4. QED
  BY <1>1, <1>2, <1>3 DEF ConsumerCatchesUp, BridgeIInv

LEMMA CallCatchesUp ==
  ASSUME BridgeIInv, NEW e \in Endpoints, Call(e)
  PROVE  IsSequence(queue') /\ ConsumerCatchesUp'
<1>1. OutboundIInv
  BY DEF BridgeIInv
<1>2. Speaks(e) \/ \E c \in Configs[e] : Restart(e, c)
  <2>1. CASE Protect(e)
    BY <1>1, <2>1, ProtectSpeaks
  <2>2. ASSUME NEW protocol, NEW f, Unprotect(e, protocol, f)
        PROVE  Speaks(e)
    BY <2>2, UnprotectSpeaks
  <2>3. ASSUME NEW c \in Configs[e], SetConfig(e, c)
        PROVE  Speaks(e)
    BY <1>1, <2>3, ConfigureSpeaks
  <2>4. CASE ResetReplayProtection(e)
    BY <2>4, ResetSpeaks
  <2>5. QED
    BY <2>1, <2>2, <2>3, <2>4 DEF Call, Operate
<1>3. Forward /\ UNCHANGED <<bridge, view>>
  BY DEF Call
<1>4. QED
  BY <1>2, <1>3, CallForwarded, RestartForwarded

LEMMA InitBridge == BridgeInit => BridgeIInv
BY InitOutbound, InitConnected, FollowedNone
   DEF BridgeInit, Init, BridgeIInv, ConsumerCatchesUp

LEMMA NextBridge == BridgeIInv /\ [BridgeNext]_bridgeVars => BridgeIInv'
<1> SUFFICES ASSUME BridgeIInv, [BridgeNext]_bridgeVars PROVE BridgeIInv'
  OBVIOUS
<1>1. OutboundIInv' /\ Connected'
  BY NextOutbound, NextConnected, BridgeNextIsNext DEF BridgeIInv
<1>2. IsSequence(queue') /\ ConsumerCatchesUp'
  <2>1. ASSUME NEW e \in Observable, Initialize(e)
        PROVE  IsSequence(queue') /\ ConsumerCatchesUp'
    <3>1. CASE initialized
      BY <2>1, <3>1 DEF Initialize, bridgeVars, vars, outbound, bridge, consumer,
                        ConsumerCatchesUp, BridgeIInv
    <3>2. CASE ~initialized
      <4>1. /\ queue' = <<>> /\ handle' = e /\ view' = sessionID[e]
            /\ sessionID' = sessionID
        BY <2>1, <3>2 DEF Initialize, RegisterObserver, outbound
      <4>2. QED
        BY <4>1, FollowedNone DEF ConsumerCatchesUp
    <3>3. QED
      BY <3>1, <3>2
  <2>2. CASE Shutdown
    <3>1. observed' = {} /\ queue' = queue
      BY <2>2 DEF Shutdown, UnregisterObserver, consumer, BridgeIInv, Connected
    <3>2. QED
      BY <3>1 DEF ConsumerCatchesUp, BridgeIInv
  <2>3. CASE Handle
    <3>1. /\ queue # <<>> /\ view' = Learn(view, Head(queue)) /\ queue' = Tail(queue)
          /\ UNCHANGED <<handle, observed, sessionID>>
      BY <2>3 DEF Handle, vars, bridge, outbound
    <3>2. IsSequence(queue)
      BY DEF BridgeIInv
    <3>3. /\ IsSequence(Tail(queue))
          /\ Followed(Learn(view, Head(queue)), Tail(queue)) = Followed(view, queue)
      BY <3>1, <3>2, FollowedFirst
    <3>4. QED
      BY <3>1, <3>3 DEF ConsumerCatchesUp, BridgeIInv
  <2>4. ASSUME NEW e \in Endpoints, Call(e)
        PROVE  IsSequence(queue') /\ ConsumerCatchesUp'
    BY <2>4, CallCatchesUp
  <2>5. CASE UNCHANGED bridgeVars
    BY <2>5 DEF bridgeVars, vars, outbound, bridge, consumer, ConsumerCatchesUp, BridgeIInv
  <2>6. QED
    BY <2>1, <2>2, <2>3, <2>4, <2>5 DEF BridgeNext
<1>3. QED
  BY <1>1, <1>2 DEF BridgeIInv

\* For any endpoints and any length of the queue: as long as the object lives
\* that the bridge is connected to, the consumer arrives at its session.
THEOREM ConsumersCatchUp == BridgeSpec => []ConsumerCatchesUp
<1>1. BridgeIInv => ConsumerCatchesUp
  BY DEF BridgeIInv
<1>2. QED
  BY <1>1, InitBridge, NextBridge, PTL DEF BridgeSpec
=============================================================================
