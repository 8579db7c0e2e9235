------------------------- MODULE ReplayWindow_proofs -------------------------
(***************************************************************************)
(* Proofs about ReplayWindow for every word width, every set of senders,   *)
(* keys, sessions and requested sizes, and every largest sequence.         *)
(***************************************************************************)
EXTENDS ReplayWindow, ReplayTable_proofs

USE WordBitsAssumption, MaxSequenceAssumption, RequestedSizesAssumption

-----------------------------------------------------------------------------
(* The inductive invariant. *)

LEMMA InitIInv == Init => IInv
BY ClampRange DEF Init, IInv, TypeOK, Sizes, NoStates, Nothing, EntryMatches

\* An emptied window matches the empty history.
LEMMA EmptyMatches ==
  ASSUME states' = NoStates, accepted' = Nothing,
         commits' = 0, windowSize' \in 1 .. WordBits
  PROVE  IInv'
BY DEF IInv, TypeOK, NoStates, Nothing, EntryMatches

LEMMA AcceptIInv ==
  ASSUME IInv, NEW d \in Domains, NEW seq \in Sequences, Accept(d, seq)
  PROVE  IInv'
<1>1. /\ DOMAIN states' = DOMAIN states \cup {d}
      /\ \A x \in DOMAIN states \ {d} : states'[x] = states[x]
      /\ states'[d] = IF d \in DOMAIN states THEN Updated(states[d], seq)
                      ELSE FirstEntry(seq)
  BY DEF Accept, Commit
<1>2. /\ accepted'[d] = accepted[d] \cup {seq}
      /\ \A x \in Domains \ {d} : accepted'[x] = accepted[x]
      /\ accepted' \in [Domains -> SUBSET Sequences]
  BY DEF Accept, IInv, TypeOK
<1>3. seq \in Nat /\ \A x \in Domains : accepted[x] \in SUBSET Nat
  BY DEF Sequences, IInv, TypeOK
<1>4. states'[d] \in Entry /\ Matches(states'[d], accepted'[d])
  <2>1. Remembers(states, d, accepted[d])
    BY DEF IInv, TypeOK, EntryMatches, Remembers, Matches
  <2>2. Remembers(states', d, accepted'[d])
    BY <1>2, <1>3, <2>1, CommitRemembers DEF Accept
  <2>3. QED
    BY <1>1, <2>2 DEF Remembers
<1>5. TypeOK'
  <2>1. states' = [x \in DOMAIN states' |-> states'[x]]
    BY DEF Accept, Commit
  <2>2. \A x \in DOMAIN states' : states'[x] \in Entry
    BY <1>1, <1>4 DEF IInv, TypeOK
  <2>3. states' \in [DOMAIN states' -> Entry]
    BY <2>1, <2>2
  <2>4. QED
    BY <1>1, <1>2, <2>3 DEF IInv, TypeOK, Accept
<1>6. ASSUME NEW x \in Domains
      PROVE  EntryMatches(x)'
  <2>1. CASE x = d
    BY <1>1, <1>4, <2>1 DEF EntryMatches, Matches
  <2>2. CASE x # d
    <3>1. EntryMatches(x)
      BY DEF IInv
    <3>2. QED
      BY <1>1, <1>2, <2>2, <3>1 DEF EntryMatches
  <2>3. QED
    BY <2>1, <2>2
<1>7. QED
  BY <1>5, <1>6 DEF IInv

LEMMA NextIInv == IInv /\ [Next]_vars => IInv'
<1> SUFFICES ASSUME IInv, [Next]_vars
             PROVE  IInv'
  OBVIOUS
<1>1. ASSUME NEW d \in Domains, NEW seq \in Sequences, Accept(d, seq)
      PROVE  IInv'
  BY <1>1, AcceptIInv
<1>2. CASE Reset
  BY <1>2, EmptyMatches DEF Reset, IInv, TypeOK
<1>3. ASSUME NEW size \in RequestedSizes, Replace(size)
      PROVE  IInv'
  BY <1>3, ClampRange, EmptyMatches DEF Replace
<1>4. CASE UNCHANGED vars
  BY <1>4 DEF vars, IInv, TypeOK, EntryMatches
<1>5. QED
  BY <1>1, <1>2, <1>3, <1>4 DEF Next

\* Every reachable entry matches the history of its domain, and the variables
\* keep their types.
THEOREM EntriesMatch == Spec => []IInv
BY InitIInv, NextIInv, PTL DEF Spec

\* The table's entries and the history keep their types, for every width of the
\* word and every size of the window.
THEOREM WindowTypeCorrect == Spec => []TypeOK
<1>1. IInv => TypeOK
  BY DEF IInv
<1>2. QED
  BY <1>1, EntriesMatch, PTL

-----------------------------------------------------------------------------
(* What the invariant gives. *)

LEMMA IInvExact == IInv => WindowExact
<1> SUFFICES ASSUME IInv, NEW d \in Domains, NEW seq \in Sequences
             PROVE  WouldAccept(states, windowSize, d, seq) <=> Guard!Fresh(d, seq)
  BY DEF WindowExact
<1>1. /\ seq \in Nat
      /\ windowSize \in 1 .. WordBits
      /\ accepted[d] \in SUBSET Nat
      /\ EntryMatches(d)
  BY DEF IInv, TypeOK, Sequences
<1>2. Remembers(states, d, accepted[d])
  BY <1>1 DEF EntryMatches, Remembers, Matches, IInv, TypeOK
<1>3. QED
  BY <1>1, <1>2, RememberedAnswers DEF Guard!Fresh

\* The window accepts a sequence if and only if the whole history would.
THEOREM WindowIsExact == Spec => []WindowExact
BY EntriesMatch, IInvExact, PTL

LEMMA InitGuard == Init => Guard!Init
BY ClampRange DEF Init, Sizes, Guard!Init, Nothing, Guard!Nothing

LEMMA NextGuard == IInv /\ [Next]_vars => [Guard!Next]_(Guard!guardVars)
<1> SUFFICES ASSUME IInv, [Next]_vars
             PROVE  [Guard!Next]_(Guard!guardVars)
  OBVIOUS
<1>1. ASSUME NEW d \in Domains, NEW seq \in Sequences, Accept(d, seq)
      PROVE  Guard!Admit(d, seq)
  BY <1>1, IInvExact DEF Accept, WindowExact, Guard!Admit
<1>2. CASE Reset
  BY <1>2 DEF Reset, IInv, TypeOK, Nothing, Guard!Nothing, Guard!Forget, Guard!Next
<1>3. ASSUME NEW size \in RequestedSizes, Replace(size)
      PROVE  Guard!Next
  BY <1>3, ClampRange DEF Replace, Nothing, Guard!Nothing, Guard!Forget, Guard!Next
<1>4. CASE UNCHANGED vars
  BY <1>4 DEF vars, Guard!guardVars
<1>5. QED
  BY <1>1, <1>2, <1>3, <1>4 DEF Next, Guard!Next

\* ReplayWindow implements ReplayGuard: every step admits a fresh sequence,
\* forgets the history or changes nothing the guard can see.
THEOREM WindowImplementsGuard == Spec => ImplementsGuard
BY InitGuard, NextGuard, EntriesMatch, PTL DEF Spec, ImplementsGuard, Guard!Spec
=============================================================================
