--------------------------- MODULE AuthenticChannel ---------------------------
(***************************************************************************)
(* What protected transport promises its users, with no envelope, key,     *)
(* cipher, window or sequence counter: a message that reaches a receiver   *)
(* as authenticated was sent, exactly as it arrives, and it reaches that   *)
(* receiver at most once until the receiver forgets its history.  Messages *)
(* may be lost, reordered and delivered to several receivers.              *)
(***************************************************************************)
EXTENDS Bags, Integers

CONSTANTS Endpoints, Messages     \* a message has a field id

VARIABLES sent, delivered

channelVars == <<sent, delivered>>

Init ==
  /\ sent = {}
  /\ delivered = [e \in Endpoints |-> EmptyBag]

\* No two messages share an identity.
Send(m) ==
  /\ \A n \in sent : n.id # m.id
  /\ sent' = sent \cup {m}
  /\ UNCHANGED delivered

Deliver(e, m) ==
  /\ m \in sent
  /\ \A n \in BagToSet(delivered[e]) : n.id # m.id
  /\ delivered' = [delivered EXCEPT ![e] = @ (+) SetToBag({m})]
  /\ UNCHANGED sent

Forget(e) ==
  /\ delivered' = [delivered EXCEPT ![e] = EmptyBag]
  /\ UNCHANGED sent

Next ==
  \/ \E m \in Messages : Send(m)
  \/ \E e \in Endpoints, m \in Messages : Deliver(e, m)
  \/ \E e \in Endpoints : Forget(e)

Spec == Init /\ [][Next]_channelVars
=============================================================================
