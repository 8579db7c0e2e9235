--------------------------- MODULE SecureTransport ---------------------------
(***************************************************************************)
(* A node: SecureTransportDecorators that share one TransportSecurity      *)
(* object, the carriers they decorate, and the application around them.    *)
(* The application sends from its own tasks, from the observers and from   *)
(* the callbacks; a carrier delivers from a task of its own, or loops a    *)
(* frame back before its Send returns.  The node receives what it sent:    *)
(* another node with the same keys would answer the same.                  *)
(*                                                                         *)
(* Assumptions about what the code leaves to its users: a decorator is     *)
(* destroyed, and its callbacks are replaced, only while none of its calls *)
(* is in progress (Quiet); decorators are constructed and destroyed by an  *)
(* application task that is in no other call.                              *)
(***************************************************************************)
EXTENDS SharedSecurity

CONSTANTS
  Applications, Radios,    \* tasks of the application, of the carriers
  Decorators, Carriers,
  CarrierOf,               \* [Decorators -> Carriers]
  MaxAir                   \* bound: envelopes the carriers take

ASSUME NodeAssumption ==
  /\ Applications \cup Radios \subseteq Tasks
  /\ CarrierOf \in [Decorators -> Carriers]

VARIABLES
  alive,        \* decorators that are constructed
  receiver,     \* the decorator each carrier calls, or Nobody
  callbacks,    \* which callbacks each decorator has been given
  air           \* bag of the envelopes the carriers took

node == <<alive, receiver, callbacks, air>>
vars == <<stack, security, node>>

Nobody == "nobody"
Callbacks == {"receiver", "error"}

Init ==
  /\ stack = [t \in Tasks |-> <<>>]
  /\ config \in Configs
  /\ replay = NoStates
  /\ sessionID = config.SessionID
  /\ sessionReady = (config.SessionID # 0)
  /\ nextSequence = 1
  /\ used = {config.SessionID} \ {0}
  /\ accepted = EmptyBag
  /\ learned = config.SessionID
  /\ alive = {}
  /\ receiver = [c \in Carriers |-> Nobody]
  /\ callbacks = [d \in Decorators |-> {}]
  /\ air = EmptyBag

-----------------------------------------------------------------------------
(* Lifetimes *)

\* No task is inside a call of d.
Quiet(d) == \A t \in Tasks : \A i \in DOMAIN stack[t] :
              stack[t][i].call \in {"Send", "Handle"} => stack[t][i].decorator # d

Installed(c, d) == receiver' = [receiver EXCEPT ![c] = d]

\* The constructor takes the carrier's receiver over.
Construct(t, d) ==
  /\ Idle(t)
  /\ d \notin alive
  /\ \A other \in Decorators : CarrierOf[other] = CarrierOf[d] => Quiet(other)
  /\ alive' = alive \cup {d}
  /\ Installed(CarrierOf[d], d)
  /\ UNCHANGED <<stack, security, callbacks, air>>

\* The destructor clears the carrier's receiver, whoever that is.
Destroy(t, d) ==
  /\ Idle(t)
  /\ d \in alive
  /\ \A other \in Decorators : CarrierOf[other] = CarrierOf[d] => Quiet(other)
  /\ alive' = alive \ {d}
  /\ callbacks' = [callbacks EXCEPT ![d] = {}]
  /\ Installed(CarrierOf[d], Nobody)
  /\ UNCHANGED <<stack, security, air>>

\* SetReceiver and SetErrorObserver, with a callback or without one
SetCallback(t, d, which) ==
  /\ Idle(t)
  /\ d \in alive
  /\ Quiet(d)
  /\ \/ callbacks' = [callbacks EXCEPT ![d] = @ \cup {which}]
     \/ callbacks' = [callbacks EXCEPT ![d] = @ \ {which}]
  /\ UNCHANGED <<stack, security, alive, receiver, air>>

-----------------------------------------------------------------------------
(* HandleReceive *)

\* The receiver of carrier c is called with plaintext or an envelope, whole or
\* damaged.  History: a Handle remembers the policy it was called under.
Receive(t, c, f, whole, below) ==
  /\ receiver[c] # Nobody
  /\ Alone(t, "Unprotect")
  /\ stack' = [stack EXCEPT ![t] =
       <<UnprotectCall(f, whole),
         [call |-> "Handle", step |-> "unprotecting", outcome |-> Refused,
          decorator |-> receiver[c], policy |-> config.Policy]>> \o below]

Arrive(t, c, f, whole) ==
  /\ Idle(t)
  /\ f = Plaintext => whole
  /\ Room(4)
  /\ Receive(t, c, f, whole, <<>>)
  /\ UNCHANGED <<security, node>>

\* The callback for what Unprotect returned, if the decorator has it
Dispatch(t) ==
  /\ At(t, "Handle", "returned")
  /\ LET has == callbacks[Top(t).decorator]
     IN  IF Top(t).outcome.ok /\ "receiver" \in has THEN Goto(t, "delivering")
         ELSE IF ~Top(t).outcome.ok /\ "error" \in has THEN Goto(t, "reporting")
         ELSE Leave(t)
  /\ UNCHANGED <<security, node>>

\* The application's code inside a callback
InCallback(t) == At(t, "Handle", "delivering") \/ At(t, "Handle", "reporting")

CallbackReturns(t) ==
  /\ InCallback(t)
  /\ Leave(t)
  /\ UNCHANGED <<security, node>>

CallbackThrows(t) ==
  /\ InCallback(t)
  /\ Throw(t)
  /\ UNCHANGED <<security, node>>

-----------------------------------------------------------------------------
(* Send *)

\* A carrier takes a frame.  Plaintext needs no record: it may arrive anyhow.
Taken(f) ==
  \/ f = Plaintext /\ UNCHANGED air
  \/ f # Plaintext /\ BagCardinality(air) < MaxAir /\ air' = air (+) SetToBag({f})

Send(t, d) ==
  /\ d \in alive
  /\ Alone(t, "Protect")
  /\ Room(2)
  /\ Push(t, <<ProtectCall, [call |-> "Send", step |-> "protecting", outcome |-> Refused,
                          decorator |-> d]>>)
  /\ UNCHANGED <<security, node>>

\* Nothing to send, or the carrier refuses: the caller is told false.
SendFails(t) ==
  /\ At(t, "Send", "returned")
  /\ Leave(t)
  /\ UNCHANGED <<security, node>>

CarrierAccepts(t) ==
  /\ At(t, "Send", "returned")
  /\ Top(t).outcome.ok
  /\ Taken(Top(t).outcome.frame)
  /\ Leave(t)
  /\ UNCHANGED <<security, alive, receiver, callbacks>>

\* The carrier calls its receiver before its Send returns.
CarrierLoops(t) ==
  /\ At(t, "Send", "returned")
  /\ Top(t).outcome.ok
  /\ Taken(Top(t).outcome.frame)
  /\ Room(3)
  /\ Receive(t, CarrierOf[Top(t).decorator], Top(t).outcome.frame, TRUE,
             <<[Top(t) EXCEPT !.step = "sent"]>> \o Tail(stack[t]))
  /\ UNCHANGED <<security, alive, receiver, callbacks>>

SendReturns(t) ==
  /\ At(t, "Send", "sent")
  /\ Leave(t)
  /\ UNCHANGED <<security, node>>

-----------------------------------------------------------------------------
\* Where the application's own code runs
Acting(t) == (t \in Applications /\ Idle(t)) \/ Observing(t) \/ InCallback(t)

Act(t) ==
  /\ Acting(t)
  /\ \/ \E d \in Decorators : Send(t, d)
     \/ /\ \/ \E c \in Configs : SetConfig(t, c)
           \/ ResetReplayProtection(t)
        /\ UNCHANGED node

Manage(t) ==
  \E d \in Decorators :
    \/ Construct(t, d)
    \/ Destroy(t, d)
    \/ \E which \in Callbacks : SetCallback(t, d, which)

Work(t) ==
  /\ ProtectStep(t) \/ UnprotectStep(t) \/ SetConfigStep(t) \/ ObserverReturns(t)
  /\ UNCHANGED node

Transport(t) ==
  \/ Dispatch(t) \/ CallbackReturns(t) \/ CallbackThrows(t)
  \/ SendFails(t) \/ CarrierAccepts(t) \/ CarrierLoops(t) \/ SendReturns(t)

Next ==
  \/ \E t \in Tasks : Act(t) \/ Work(t) \/ Transport(t)
  \/ \E t \in Applications : Manage(t)
  \/ \E t \in Radios, c \in Carriers, f \in BagToSet(air) \cup {Plaintext}, whole \in BOOLEAN :
       Arrive(t, c, f, whole)

Spec == Init /\ [][Next]_vars

-----------------------------------------------------------------------------
(* Properties *)

Activations == UNION {{stack[t][i] : i \in DOMAIN stack[t]} : t \in Tasks}

\* Two envelopes that a receiver could accept never share session and
\* sequence, although observers call the object again in the middle of Protect
\* and reconfigure it there (TransportSecurity.hpp:250-263, 189-202).
UniqueIdentity ==
  \A f \in {e \in BagToSet(air) : e.sessionID # 0} :
    /\ air[f] = 1
    /\ \A g \in BagToSet(air) :
         f.sessionID = g.sessionID /\ f.sequence = g.sequence => f = g

\* Between two resets an envelope is accepted at most once, also when it
\* arrives again inside the callback it was handed to, on the sender's own
\* task, or after an exception left Unprotect half way; what is not accepted is
\* not remembered and opens no entry (TransportSecurity.hpp:375-408).
RemembersAccepted ==
  /\ DOMAIN replay = {id.domain : id \in BagToSet(accepted)}
  /\ \A id \in BagToSet(accepted) : accepted[id] = 1
  /\ \A f \in BagToSet(air) :
       LET seen == {id.sequence : id \in {n \in BagToSet(accepted) : n.domain = Domain(f)}}
       IN  f.sessionID # 0 =>
             (WouldAccept(replay, WindowSize, Domain(f), f.sequence)
                <=> f.sequence \notin seen /\ \A s \in seen : s - f.sequence < WindowSize)

\* Only an observer that changes the configuration inside Protect can make it
\* return an envelope that no receiver opens: one without a session, or sealed
\* with another key than its header names (TransportSecurity.hpp:234-250, 275-277).
SpoiledByReconfiguration ==
  \A f \in BagToSet(air) : f.sessionID = 0 \/ f.key # f.keyID => f.disturbed

\* Whenever no SetConfig is in progress, an observer that follows the session
\* events knows the session, however calls and notifications are nested
\* (TransportSecurity.hpp:107-116, 197-200).
ObserverKnowsSession ==
  (\A a \in Activations : a.call # "SetConfig") => learned = sessionID

\* What a receiver callback is handed
Handed == {a \in Activations : a.call = "Handle" /\ a.step = "delivering"}

\* It was sent, and arrived whole and sealed with the key it names.
Authentic(outcome) ==
  /\ outcome.ok
  /\ outcome.whole
  /\ outcome.frame \in BagToSet(air)
  /\ outcome.frame.key = outcome.frame.keyID

\* The application is handed no failed result, nothing as protected that is not
\* authentic, and nothing else unless the policy was already lenient when the
\* frame came in: observers and other calls that relax it in between open no
\* gap (TransportSecurity.hpp:325-333, 375-408; SecureTransportDecorator.hpp:59-64).
HandsOnlyAdmitted ==
  \A a \in Handed :
    Authentic(a.outcome) \/ (a.outcome = Unprotected /\ a.policy # "Required")

\* The node is the one endpoint of the abstract channel.  An envelope that names
\* no session is no message: no receiver could be given it.
Self == "node"
Sent == {[id |-> Identity(f)] : f \in {e \in BagToSet(air) : e.sessionID # 0}}
Delivered ==
  [n \in {Self} |-> [m \in {[id |-> i] : i \in BagToSet(accepted)} |-> accepted[m.id]]]
Identities ==
  [domain : [sender : {0}, key : KeyIDs, session : SessionIDs], sequence : 1 .. MaxSequence]

Channel == INSTANCE AuthenticChannel
             WITH Endpoints <- {Self}, Messages <- [id : Identities],
                  sent <- Sent, delivered <- Delivered

\* A node with calls that overlap and nest implements the same channel as calls
\* that do not: whatever observers, callbacks and other tasks do between the
\* steps of a call, no two messages share an identity, what is accepted was
\* sent, and it is accepted once until the history is reset; nothing that runs
\* between the check of a replay and its commit makes the check stale
\* (TransportSecurity.hpp:250-277, 375-408).
ImplementsChannel == Channel!Spec

-----------------------------------------------------------------------------
(* What the documentation says and the code does not do *)

\* "installs itself as the carrier receiver until destruction"
\* (SecureTransportDecorator.hpp:14): a carrier with a decorator has a receiver
\* (the destructor, SecureTransportDecorator.hpp:31).
ReceiverUntilDestruction == \A d \in alive : receiver[CarrierOf[d]] # Nobody

\* "Callback receiving successfully authenticated and unprotected application
\* payloads" (SecureTransportDecorator.hpp:17): HandleReceive looks at Success
\* alone, and plaintext is a success when the policy is not Required
\* (SecureTransportDecorator.hpp:62-63, TransportSecurity.hpp:325-333).
ReceivesAuthenticated == \A a \in Handed : Authentic(a.outcome)
=============================================================================
