-------------------------- MODULE ReplayTable_proofs --------------------------
(***************************************************************************)
(* What the operators of ReplayTable do to an entry, for every width of    *)
(* the word.  Cited by the proofs about the modules that use the table.    *)
(***************************************************************************)
EXTENDS ReplayTable, WellFoundedInduction, TLAPS

USE WordBitsAssumption

\* The constructor's clamp yields a size between one and the word width.
LEMMA ClampRange ==
  ASSUME NEW n \in Nat
  PROVE  Clamp(n) \in 1 .. WordBits
BY DEF Clamp

\* A shift by less than the width moves every bit by exactly that much.
LEMMA ShiftBits ==
  ASSUME NEW bitmap \in SUBSET Bits, NEW n \in 0 .. (WordBits - 1),
         NEW b \in Bits
  PROVE  b \in ShiftLeft(bitmap, n) <=> b - n \in bitmap
<1>1. n % WordBits = n
  OBVIOUS
<1>2. QED
  BY <1>1 DEF ShiftLeft, Bits

\* What one entry must say about the set of sequences committed in its domain.
Matches(entry, seqs) ==
  /\ entry.Highest \in seqs
  /\ \A s \in seqs : s <= entry.Highest
  /\ \A b \in Bits : b \in entry.Bitmap <=> entry.Highest - b \in seqs

\* The first entry of a domain matches the one sequence that opened it.
LEMMA FirstMatches ==
  ASSUME NEW seq \in Nat
  PROVE  FirstEntry(seq) \in Entry /\ Matches(FirstEntry(seq), {seq})
BY DEF FirstEntry, Entry, Matches, Bits

\* Sliding the window to a newer sequence keeps every older bit that still
\* fits the word, at its new distance, and adds the new one.
LEMMA SlidMatches ==
  ASSUME NEW entry \in Entry, NEW seqs \in SUBSET Nat, NEW seq \in Nat,
         Matches(entry, seqs), seq > entry.Highest
  PROVE  Slid(entry, seq) \in Entry /\ Matches(Slid(entry, seq), seqs \cup {seq})
<1> DEFINE shift == seq - entry.Highest
           after == Slid(entry, seq)
<1>1. entry.Highest \in Nat /\ entry.Bitmap \in SUBSET Bits /\ shift \in Nat \ {0}
  BY DEF Entry
<1>2. after.Highest = seq
  BY DEF Slid
<1>3. after.Bitmap \in SUBSET Bits
  BY DEF Slid, ShiftLeft, Bits
<1>4. after \in Entry
  BY <1>3 DEF Slid, Entry
<1>5. \A s \in seqs \cup {seq} : s <= seq
  BY <1>1 DEF Matches
<1>6. ASSUME NEW b \in Bits
      PROVE  b \in after.Bitmap <=> seq - b \in seqs \cup {seq}
  <2>1. seq \notin seqs
    BY <1>1 DEF Matches
  <2>2. CASE b = 0
    <3>1. 0 \in after.Bitmap
      BY DEF Slid
    <3>2. QED
      BY <2>2, <3>1
  <2>3. CASE b # 0 /\ shift >= WordBits
    <3>1. after.Bitmap = {0}
      BY <2>3 DEF Slid
    <3>2. seq - b > entry.Highest /\ seq - b # seq
      BY <1>1, <2>3 DEF Bits
    <3>3. seq - b \notin seqs
      BY <1>1, <3>2 DEF Matches, Bits
    <3>4. QED
      BY <2>3, <3>1, <3>2, <3>3
  <2>4. CASE b # 0 /\ shift < WordBits
    <3>1. after.Bitmap = ShiftLeft(entry.Bitmap, shift) \cup {0}
      BY <1>1, <2>4 DEF Slid
    <3>2. b \in ShiftLeft(entry.Bitmap, shift) <=> b - shift \in entry.Bitmap
      BY <1>1, <2>4, ShiftBits
    <3>3. b - shift \in entry.Bitmap <=> seq - b \in seqs
      <4>1. CASE b - shift \in Bits
        BY <1>1, <4>1 DEF Matches, Bits
      <4>2. CASE b - shift \notin Bits
        BY <1>1, <4>2 DEF Matches, Bits
      <4>3. QED
        BY <4>1, <4>2
    <3>4. seq - b # seq
      BY <2>4 DEF Bits
    <3>5. QED
      BY <2>4, <3>1, <3>2, <3>3, <3>4
  <2>5. QED
    BY <1>1, <2>2, <2>3, <2>4
<1>7. QED
  BY <1>2, <1>4, <1>5, <1>6 DEF Matches

\* Marking an older sequence sets its bit and no other, when the word has one.
LEMMA MarkedMatches ==
  ASSUME NEW entry \in Entry, NEW seqs \in SUBSET Nat, NEW seq \in Nat,
         Matches(entry, seqs), seq <= entry.Highest
  PROVE  /\ Marked(entry, seq) \in Entry
         /\ Matches(Marked(entry, seq), seqs \cup {seq})
<1> DEFINE delta == entry.Highest - seq
           after == Marked(entry, seq)
<1>1. entry.Highest \in Nat /\ entry.Bitmap \in SUBSET Bits /\ delta \in Nat
  BY DEF Entry
<1>2. /\ after.Highest = entry.Highest
      /\ after.Bitmap = IF delta < WordBits THEN entry.Bitmap \cup {delta}
                        ELSE entry.Bitmap
  BY <1>1 DEF Marked, Entry
<1>3. after \in Entry
  BY <1>1 DEF Marked, Entry, Bits
<1>4. ASSUME NEW b \in Bits
      PROVE  b \in after.Bitmap <=> after.Highest - b \in seqs \cup {seq}
  <2>1. b = delta <=> entry.Highest - b = seq
    BY <1>1 DEF Bits
  <2>2. b \in entry.Bitmap <=> entry.Highest - b \in seqs
    BY DEF Matches
  <2>3. delta >= WordBits => b # delta
    BY <1>1 DEF Bits
  <2>4. QED
    BY <1>1, <1>2, <2>1, <2>2, <2>3
<1>5. QED
  BY <1>1, <1>2, <1>3, <1>4 DEF Matches

\* Commit keeps the entry of the committed domain in step with its history.
LEMMA UpdatedMatches ==
  ASSUME NEW entry \in Entry, NEW seqs \in SUBSET Nat, NEW seq \in Nat,
         Matches(entry, seqs)
  PROVE  /\ Updated(entry, seq) \in Entry
         /\ Matches(Updated(entry, seq), seqs \cup {seq})
<1>1. CASE seq > entry.Highest
  BY <1>1, SlidMatches DEF Updated
<1>2. CASE seq <= entry.Highest
  BY <1>2, MarkedMatches DEF Updated, Entry
<1>3. QED
  BY <1>1, <1>2 DEF Entry

-----------------------------------------------------------------------------
(* The table as a whole, against the set of sequences committed in a domain *)

Remembers(states, d, seqs) ==
  IF d \in DOMAIN states THEN states[d] \in Entry /\ Matches(states[d], seqs)
  ELSE seqs = {}

LEMMA NothingRemembered ==
  ASSUME NEW d
  PROVE  Remembers(NoStates, d, {})
BY DEF Remembers, NoStates

\* The table answers as the whole history would.
LEMMA RememberedAnswers ==
  ASSUME NEW states, NEW d, NEW seqs \in SUBSET Nat, Remembers(states, d, seqs),
         NEW size \in 1 .. WordBits, NEW seq \in Nat
  PROVE  WouldAccept(states, size, d, seq)
           <=> d.session # 0 /\ seq # 0 /\ seq \notin seqs /\ \A t \in seqs : t - seq < size
<1>1. CASE d \notin DOMAIN states
  BY <1>1 DEF Remembers, WouldAccept
<1>2. CASE d \in DOMAIN states
  <2> DEFINE high  == states[d].Highest
             delta == high - seq
  <2>1. /\ high \in Nat /\ high \in seqs /\ (\A t \in seqs : t \in Nat /\ t <= high)
        /\ delta \in Int
        /\ \A b \in Bits : b \in states[d].Bitmap <=> high - b \in seqs
    BY <1>2 DEF Remembers, Matches, Entry
  <2>2. CASE delta < 0
    <3>1. \A t \in seqs : t < seq
      <4> HIDE DEF high
      <4>1. QED
        BY <2>1, <2>2
    <3>2. QED
      BY <1>2, <2>1, <2>2, <3>1 DEF WouldAccept
  <2>3. CASE delta >= 0 /\ delta < size
    <3>1. delta \in states[d].Bitmap <=> seq \in seqs
      BY <2>1, <2>3 DEF Bits
    <3>2. ASSUME NEW t \in seqs PROVE t - seq < size
      <4>1. t \in Nat /\ t <= high /\ high \in Nat /\ high - seq < size
        BY <2>1, <2>3
      <4>2. size \in Nat
        OBVIOUS
      <4> HIDE DEF high
      <4>3. QED
        BY <4>1, <4>2
    <3>3. QED
      BY <1>2, <2>1, <2>3, <3>1, <3>2 DEF WouldAccept
  <2>4. CASE delta >= size
    BY <1>2, <2>1, <2>4 DEF WouldAccept
  <2>5. QED
    BY <2>1, <2>2, <2>3, <2>4
<1>3. QED
  BY <1>1, <1>2

\* A commit is remembered in its domain and changes no other.
LEMMA CommitRemembers ==
  ASSUME NEW states, NEW d, NEW seqs \in SUBSET Nat, Remembers(states, d, seqs),
         NEW seq \in Nat
  PROVE  LET after == Commit(states, d, seq)
         IN  /\ DOMAIN after = DOMAIN states \cup {d}
             /\ Remembers(after, d, seqs \cup {seq})
             /\ \A x \in DOMAIN states \ {d} : after[x] = states[x]
<1> DEFINE after == Commit(states, d, seq)
<1>1. /\ DOMAIN after = DOMAIN states \cup {d}
      /\ \A x \in DOMAIN states \ {d} : after[x] = states[x]
      /\ after[d] = IF d \in DOMAIN states THEN Updated(states[d], seq) ELSE FirstEntry(seq)
  BY DEF Commit
<1>2. after[d] \in Entry /\ Matches(after[d], seqs \cup {seq})
  <2>1. CASE d \in DOMAIN states
    BY <1>1, <2>1, UpdatedMatches DEF Remembers
  <2>2. CASE d \notin DOMAIN states
    <3>1. seqs \cup {seq} = {seq}
      BY <2>2 DEF Remembers
    <3>2. QED
      BY <1>1, <2>2, <3>1, FirstMatches
  <2>3. QED
    BY <2>1, <2>2
<1>3. Remembers(after, d, seqs \cup {seq})
  <2> HIDE DEF after
  <2>1. QED
    BY <1>1, <1>2 DEF Remembers
<1>4. QED
  BY <1>1, <1>3

\* What is remembered of the other domains
LEMMA CommitKeeps ==
  ASSUME NEW states, NEW d, NEW seq, NEW x, x # d, NEW seqs, Remembers(states, x, seqs)
  PROVE  Remembers(Commit(states, d, seq), x, seqs)
BY DEF Commit, Remembers

-----------------------------------------------------------------------------
\* A set of naturals that is not empty has a least element.
LEMMA Least ==
  ASSUME NEW S, S \subseteq Nat, S # {}
  PROVE  \E i \in S : \A j \in S : i <= j
<1> DEFINE R == OpToRel(<, Nat)
<1>1. IsWellFoundedOn(R, Nat)
  BY NatLessThanWellFounded
<1>2. \E i \in S : \A j \in S : <<j, i>> \notin R
  <2> HIDE DEF R
  <2>1. QED
    BY <1>1, WFMin
<1>3. \A i, j \in Nat : j < i => <<j, i>> \in R
  BY DEF OpToRel
<1>4. QED
  <2> HIDE DEF R
  <2>1. PICK i \in S : \A j \in S : <<j, i>> \notin R
    BY <1>2
  <2>2. \A j \in S : ~(j < i)
    BY <1>3, <2>1
  <2>3. QED
    BY <2>2
=============================================================================
