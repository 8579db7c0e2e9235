---------------------------- MODULE ReplayWindow ----------------------------
(***************************************************************************)
(* The ReplayWindow object as TransportSecurity uses it: an inbound        *)
(* envelope is committed only when WouldAccept held for it, Reset empties  *)
(* the object and SetConfig replaces it by one of another size.            *)
(*                                                                         *)
(* accepted and commits are history variables: what has been committed in  *)
(* each domain since the object was last emptied, and how often.  Nothing  *)
(* in the code depends on them.                                            *)
(***************************************************************************)
EXTENDS ReplayTable

CONSTANTS
  Senders, Keys,   \* sender and key identities
  Sessions,        \* session identifiers, with 0 for "no session"
  MaxSequence,     \* bound: largest sequence number (2^64 - 1 in the code)
  RequestedSizes   \* window sizes a configuration may ask for

ASSUME MaxSequenceAssumption == MaxSequence \in Nat
ASSUME RequestedSizesAssumption == RequestedSizes \subseteq Nat

Domains   == [sender : Senders, key : Keys, session : Sessions]
Sequences == 0 .. MaxSequence
Sizes     == {Clamp(n) : n \in RequestedSizes}

VARIABLES
  states,       \* _states
  windowSize,   \* _windowSize
  accepted,     \* history: the sequences committed in each domain
  commits       \* history: the number of commits

vars == <<states, windowSize, accepted, commits>>

Nothing == [d \in Domains |-> {}]

\* The constructor
Init ==
  /\ states = NoStates
  /\ windowSize \in Sizes
  /\ accepted = Nothing
  /\ commits = 0

\* An Unprotect call that goes through: WouldAccept, then Commit
Accept(d, seq) ==
  /\ WouldAccept(states, windowSize, d, seq)
  /\ states' = Commit(states, d, seq)
  /\ accepted' = [accepted EXCEPT ![d] = @ \cup {seq}]
  /\ commits' = commits + 1
  /\ UNCHANGED windowSize

Reset ==
  /\ states' = NoStates
  /\ accepted' = Nothing
  /\ commits' = 0
  /\ UNCHANGED windowSize

\* _replay = ReplayWindow(size) in SetConfig
Replace(size) ==
  /\ states' = NoStates
  /\ windowSize' = Clamp(size)
  /\ accepted' = Nothing
  /\ commits' = 0

Next ==
  \/ \E d \in Domains, seq \in Sequences : Accept(d, seq)
  \/ Reset
  \/ \E size \in RequestedSizes : Replace(size)

Spec == Init /\ [][Next]_vars

-----------------------------------------------------------------------------
TypeOK ==
  /\ DOMAIN states \subseteq Domains
  /\ states \in [DOMAIN states -> Entry]
  /\ windowSize \in 1 .. WordBits
  /\ accepted \in [Domains -> SUBSET Sequences]
  /\ commits \in Nat

Guard == INSTANCE ReplayGuard WITH seen <- accepted, reach <- windowSize,
                                   admitted <- commits, Reaches <- 1 .. WordBits

\* The window answers exactly what the full history would: a sequence is
\* accepted if and only if it was never committed in its domain and is less
\* than the window size behind everything that was.  No bit is lost or
\* invented when the word slides, by any distance (ReplayWindow.hpp:24-49).
WindowExact ==
  \A d \in Domains, seq \in Sequences :
     WouldAccept(states, windowSize, d, seq) <=> Guard!Fresh(d, seq)

\* The bitmap implements the abstract guard: no step commits a sequence twice
\* or revives one that fell out of the window (ReplayWindow.hpp:10-11, 24-52).
ImplementsGuard == Guard!Spec

\* One domain's entry against its history: Highest is the newest accepted
\* sequence, and bit b is set exactly when Highest - b was accepted.
EntryMatches(d) ==
  IF d \in DOMAIN states
  THEN /\ states[d].Highest \in accepted[d]
       /\ \A s \in accepted[d] : s <= states[d].Highest
       /\ \A b \in Bits : b \in states[d].Bitmap
                            <=> states[d].Highest - b \in accepted[d]
  ELSE accepted[d] = {}

\* The inductive invariant: every entry matches the history of its domain
\* (ReplayWindow.hpp:35-49).
IInv == TypeOK /\ \A d \in Domains : EntryMatches(d)
=============================================================================
