----------------------------- MODULE DataVault ------------------------------
(***************************************************************************)
(* What protected data promises: what is recovered under a context is what *)
(* was stored under that context, with no key, cipher or envelope.         *)
(***************************************************************************)
CONSTANTS Records, None     \* a record is a payload with its context

VARIABLES records, recovered

vaultVars == <<records, recovered>>

Init == records = {} /\ recovered = None

Store(r) == records' = records \cup {r} /\ UNCHANGED recovered

Recover(r) == r \in records /\ recovered' = r /\ UNCHANGED records

Next == \E r \in Records : Store(r) \/ Recover(r)

Spec == Init /\ [][Next]_vaultVars
=============================================================================
