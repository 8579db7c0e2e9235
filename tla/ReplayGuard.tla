----------------------------- MODULE ReplayGuard -----------------------------
(***************************************************************************)
(* What replay protection promises, with no bitmap and no vector: a set of *)
(* the sequences admitted in each replay domain since the history was last *)
(* forgotten, and how far behind the newest one an admission may lie.      *)
(* A sequence is admitted at most once.                                    *)
(***************************************************************************)
EXTENDS Integers

CONSTANTS
  Domains,      \* replay domains: [sender, key, session]
  Sequences,    \* sequence numbers
  Reaches       \* possible lengths of the window

VARIABLES seen, reach, admitted     \* admitted counts the admissions

guardVars == <<seen, reach, admitted>>

\* Sequence s is new in domain d: never seen, and fewer than reach behind
\* everything seen.  Zero identifies no session and no message.
Fresh(d, s) ==
  /\ d.session # 0
  /\ s # 0
  /\ s \notin seen[d]
  /\ \A t \in seen[d] : t - s < reach

Nothing == [d \in Domains |-> {}]

Init == seen = Nothing /\ reach \in Reaches /\ admitted = 0

Admit(d, s) ==
  /\ Fresh(d, s)
  /\ seen' = [seen EXCEPT ![d] = @ \cup {s}]
  /\ admitted' = admitted + 1
  /\ UNCHANGED reach

Forget == seen' = Nothing /\ reach' \in Reaches /\ admitted' = 0

Next == Forget \/ \E d \in Domains, s \in Sequences : Admit(d, s)

Spec == Init /\ [][Next]_guardVars
=============================================================================
