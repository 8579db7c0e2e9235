----------------------------- MODULE ReplayTable -----------------------------
(***************************************************************************)
(* The data structure inside ReplayWindow: for every replay domain (sender, *)
(* key, session) that has committed something, the highest committed       *)
(* sequence and a machine word whose bit b remembers sequence Highest - b. *)
(*                                                                         *)
(* The vector of State entries is searched by domain and Commit adds an    *)
(* entry only for a domain the search missed, so it is a partial function  *)
(* from domains to entries.  A bitmap is the set of its bits that are 1.   *)
(***************************************************************************)
EXTENDS Integers

CONSTANT WordBits    \* width of the bitmap word; 64 in the code

ASSUME WordBitsAssumption == WordBits \in Nat \ {0}

Bits == 0 .. (WordBits - 1)

Entry == [Highest : Nat, Bitmap : SUBSET Bits]

\* _states after construction or Reset
NoStates == [d \in {} |-> [Highest |-> 0, Bitmap |-> {}]]

\* Mutant of Clamp: the upper bound is forgotten.
ClampBelow(size) == IF size < 1 THEN 1 ELSE size

\* std::max(1, std::min(64, windowSize)) in the constructor
Clamp(size) == IF size < 1 THEN 1
               ELSE IF size > WordBits THEN WordBits ELSE size

\* word << n.  A count of WordBits or more is undefined in C++; the shifters
\* of the targets use the count modulo the width.  Bits shifted past the top
\* of the word are lost.
ShiftLeft(bitmap, n) == {b + (n % WordBits) : b \in bitmap} \cap Bits

-----------------------------------------------------------------------------
(***************************************************************************)
(* WouldAccept.  The last conjunct is the whole answer for a domain with   *)
(* an entry; a domain without one accepts anything that is not zero.       *)
(***************************************************************************)

\* Mutant of WouldAccept: the search forgets to compare the session.
WouldAcceptAnySession(states, size, d, seq) ==
  /\ d.session # 0
  /\ seq # 0
  /\ \A x \in DOMAIN states : x.sender = d.sender /\ x.key = d.key =>
       LET delta == states[x].Highest - seq
       IN  delta < 0 \/ (delta < size /\ delta \notin states[x].Bitmap)

WouldAccept(states, size, d, seq) ==
  /\ d.session # 0
  /\ seq # 0
  /\ d \in DOMAIN states =>
       LET delta == states[d].Highest - seq
       IN  delta < 0 \/ (delta < size /\ delta \notin states[d].Bitmap)

-----------------------------------------------------------------------------
(***************************************************************************)
(* Commit: a first sequence opens the domain, a newer one slides the       *)
(* window, an older one sets its bit.                                      *)
(***************************************************************************)

FirstEntry(seq) == [Highest |-> seq, Bitmap |-> {0}]

\* Mutant of Slid: the guard lets a shift by the full width through.
SlidOffByOne(entry, seq) ==
  LET shift == seq - entry.Highest
  IN  [Highest |-> seq,
       Bitmap  |-> IF shift > WordBits THEN {0}
                   ELSE ShiftLeft(entry.Bitmap, shift) \cup {0}]

Slid(entry, seq) ==
  LET shift == seq - entry.Highest
  IN  [Highest |-> seq,
       Bitmap  |-> IF shift >= WordBits THEN {0}
                   ELSE ShiftLeft(entry.Bitmap, shift) \cup {0}]

\* Mutant of Marked: an out-of-order sequence is not remembered.
MarkedNothing(entry, seq) == entry

Marked(entry, seq) ==
  LET delta == entry.Highest - seq
  IN  [entry EXCEPT !.Bitmap = IF delta < WordBits THEN @ \cup {delta} ELSE @]

Updated(entry, seq) ==
  IF seq > entry.Highest THEN Slid(entry, seq) ELSE Marked(entry, seq)

\* Mutant of Commit: an entry that exists is not found.
CommitReopening(states, d, seq) ==
  [x \in DOMAIN states \cup {d} |-> IF x # d THEN states[x] ELSE FirstEntry(seq)]

Commit(states, d, seq) ==
  [x \in DOMAIN states \cup {d} |->
     IF x # d THEN states[x]
     ELSE IF d \in DOMAIN states THEN Updated(states[d], seq)
     ELSE FirstEntry(seq)]
=============================================================================
