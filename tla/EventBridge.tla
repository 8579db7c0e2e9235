----------------------------- MODULE EventBridge -----------------------------
(***************************************************************************)
(* A TransportSecurityEventBridge: the observer that turns the             *)
(* notifications of a TransportSecurity object into queued events, and the *)
(* consumer that handles the events later, when the object may long be in  *)
(* another state.  The endpoints and their calls are those of              *)
(* TransportSecurity; the bridge is their only observer.                   *)
(*                                                                         *)
(* Assumption of the model: whoever connects the bridge again first lets   *)
(* the consumer empty the queue, since an event does not say which object  *)
(* it is about.                                                            *)
(***************************************************************************)
EXTENDS TransportSecurity

CONSTANT MaxQueue     \* bound: events that wait for the consumer

VARIABLES
  initialized,    \* _initialized
  handle,         \* _observerHandle: the endpoint it was registered at, or NoHandle
  queue,          \* events not yet handled
  view            \* the session that the consumer takes to be the current one

bridge   == <<initialized, handle>>
consumer == <<queue, view>>
bridgeVars == <<vars, bridge, consumer>>

NoHandle == "none"

\* An event keeps what the notification said, and not who said it.
Event(n) == IF "session" \in DOMAIN n THEN [what |-> n.what, session |-> n.session]
            ELSE [what |-> n.what]

BridgeInit ==
  /\ Init
  /\ initialized = FALSE
  /\ handle = NoHandle
  /\ queue = <<>>
  /\ view = 0

-----------------------------------------------------------------------------
(* The bridge *)

\* Mutant of Initialize: a bridge that is connected can be connected again.
InitializeAgain(e) ==
  /\ queue = <<>>
  /\ initialized' = TRUE
  /\ handle' = e
  /\ observed' = (observed \ {handle}) \cup {e}
  /\ notices' = <<>>
  /\ view' = IF initialized THEN view ELSE sessionID[e]
  /\ UNCHANGED <<config, outbound, inbound, provisioning, channel, queue>>

\* Initialize for an object that lives.  The consumer starts from the session
\* that GetSessionID tells.  A bridge that is initialized answers true and does
\* nothing, also when it is given another object.
Initialize(e) ==
  IF initialized
  THEN UNCHANGED bridgeVars
  ELSE /\ queue = <<>>
       /\ initialized' = TRUE
       /\ handle' = e
       /\ RegisterObserver(e)
       /\ view' = sessionID[e]
       /\ UNCHANGED queue

\* Shutdown, or the destruction of the bridge.  What is queued stays queued.
Shutdown ==
  /\ initialized
  /\ initialized' = FALSE
  /\ handle' = NoHandle
  /\ UnregisterObserver(handle)
  /\ UNCHANGED consumer

\* The handlers: each notification of a call becomes an event.

Forward == queue' = queue \o [i \in DOMAIN notices' |-> Event(notices'[i])]

\* The consumer handles the oldest event.
Handle ==
  /\ queue # <<>>
  /\ view' = Learn(view, Head(queue))
  /\ queue' = Tail(queue)
  /\ UNCHANGED <<vars, bridge>>

\* A call at e, with what its observers do before it returns
Call(e) ==
  /\ \/ e \in Senders /\ Protect(e)
     \/ e \in Receivers /\ \E protocol \in Protocols, f \in Arrivals :
                             Unprotect(e, protocol, f)
     \/ Operate(e)
  /\ Forward
  /\ Len(queue') <= MaxQueue
  /\ UNCHANGED <<bridge, view>>

BridgeNext ==
  \/ \E e \in Observable : Initialize(e)
  \/ Shutdown
  \/ Handle
  \/ \E e \in Endpoints : Call(e)

BridgeSpec == BridgeInit /\ [][BridgeNext]_bridgeVars

-----------------------------------------------------------------------------
(* Properties *)

\* As long as the object the bridge was connected to lives, a consumer that
\* handles what is queued arrives at that object's session, however far behind
\* it is, whatever calls failed or changed the session in between, and
\* whatever other object the bridge was offered meanwhile
\* (TransportSecurityEventBridge.hpp:21-56, TransportSecurity.hpp:107-116, 197-200).
ConsumerCatchesUp ==
  handle \in observed => Followed(view, queue) = sessionID[handle]
=============================================================================
