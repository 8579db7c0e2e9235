------------------------ MODULE SecureTransport_proofs ------------------------
(***************************************************************************)
(* Proofs about a node for every number of tasks, decorators and carriers, *)
(* every depth of nested calls and every set of configurations.            *)
(***************************************************************************)
EXTENDS SecureTransport, ReplayTable_proofs

-----------------------------------------------------------------------------
(* What a stack holds.  A call of the security object is always made by a   *)
(* call of a decorator.                                                     *)

Sessions  == SessionIDs \cup {0}
Numbers   == 0 .. MaxSequence
Envelopes == [keyID : KeyIDs, sessionID : Sessions, sequence : Numbers, key : KeyIDs,
              disturbed : BOOLEAN]
Frames    == Envelopes \cup {Plaintext}
Outcomes  == {Refused} \cup [ok : {TRUE}, frame : Frames, whole : BOOLEAN]

Steps == {"observing", "plain", "session", "sequence", "seal", "check", "reject", "open", "commit", "refused",
          "reset", "established", "return", "protecting", "unprotecting", "returned",
          "delivering", "reporting", "sent"}

Notices    == [call : {"Notice"}, step : Steps]
Protects   == [call : {"Protect"}, step : Steps, key : KeyIDs, sequence : Numbers,
               disturbed : BOOLEAN]
Unprotects == [call : {"Unprotect"}, step : Steps, frame : Frames, whole : BOOLEAN]
SetConfigs == [call : {"SetConfig"}, step : Steps, previous : Sessions]
Sends(D)   == [call : {"Send"}, step : Steps, outcome : Outcomes, decorator : D]
Handles(D) == [call : {"Handle"}, step : Steps, outcome : Outcomes, decorator : D,
               policy : Policies]

Inner    == Protects \cup Unprotects
Outer(D) == Sends(D) \cup Handles(D)
Calls(D) == Notices \cup SetConfigs \cup Inner \cup Outer(D)

\* Stacks over the decorators in D
Stacks(D) ==
  {s \in Seq(Calls(D)) :
     \A i \in 1 .. Len(s) : s[i] \in Inner => i < Len(s) /\ s[i + 1] \in Outer(D)}

\* The inductive invariant
NodeIInv ==
  /\ stack \in [Tasks -> Stacks(alive)]
  /\ config \in Configs
  /\ sessionID \in Sessions
  /\ nextSequence \in Numbers
  /\ BagToSet(air) \subseteq Envelopes
  /\ alive \subseteq Decorators
  /\ receiver \in [Carriers -> Decorators \cup {Nobody}]
  /\ callbacks \in [Decorators -> SUBSET Callbacks]
  /\ \A c \in Carriers :
       receiver[c] # Nobody => receiver[c] \in alive /\ CarrierOf[receiver[c]] = c

\* Numbers the model gives sessions and sequences
LEMMA Ranges ==
  /\ \A id \in Sessions : id \in Nat
  /\ \A n \in Numbers : n \in Nat /\ (n \notin {0, MaxSequence} => n + 1 \in Numbers)
  /\ 0 \in Sessions /\ 0 \in Numbers /\ 1 \in Numbers
  /\ SessionIDs \subseteq Sessions
BY SharedAssumption DEF Sessions, Numbers

-----------------------------------------------------------------------------
(* Operations on stacks *)

LEMMA Elements ==
  ASSUME NEW D, NEW s \in Stacks(D), NEW i \in 1 .. Len(s)
  PROVE  s[i] \in Calls(D)
BY DEF Stacks

\* The kinds of calls are apart.
LEMMA Apart ==
  ASSUME NEW D, NEW a \in Calls(D)
  PROVE  /\ a \in Inner <=> a.call \in {"Protect", "Unprotect"}
         /\ a \in Protects <=> a.call = "Protect"
         /\ a \in Unprotects <=> a.call = "Unprotect"
         /\ a \in SetConfigs <=> a.call = "SetConfig"
         /\ a \in Notices <=> a.call = "Notice"
         /\ a \in Sends(D) <=> a.call = "Send"
         /\ a \in Handles(D) <=> a.call = "Handle"
BY DEF Calls, Inner, Outer, Notices, Protects, Unprotects, SetConfigs, Sends, Handles

LEMMA EmptyStack ==
  ASSUME NEW D
  PROVE  <<>> \in Stacks(D)
BY DEF Stacks

\* A call that is not one of the security object's own goes on top of anything.
LEMMA Cons ==
  ASSUME NEW D, NEW s \in Stacks(D), NEW a \in Calls(D), a \notin Inner
  PROVE  <<a>> \o s \in Stacks(D)
<1> DEFINE r == <<a>> \o s
<1>1. s \in Seq(Calls(D))
  BY DEF Stacks
<1>2. r \in Seq(Calls(D)) /\ Len(r) = Len(s) + 1 /\ r[1] = a
  BY <1>1
<1>3. \A i \in 1 .. Len(s) : r[i + 1] = s[i]
  BY <1>1
<1>4. ASSUME NEW i \in 1 .. Len(r), r[i] \in Inner
      PROVE  i < Len(r) /\ r[i + 1] \in Outer(D)
  <2>1. i # 1
    BY <1>2, <1>4
  <2>2. i - 1 \in 1 .. Len(s) /\ r[i] = s[i - 1]
    BY <1>1, <1>2, <1>3, <2>1
  <2>3. i - 1 < Len(s) /\ s[(i - 1) + 1] \in Outer(D)
    BY <1>4, <2>2 DEF Stacks
  <2>4. r[i + 1] = s[i]
    BY <1>1, <1>3, <2>2, <2>3
  <2>5. QED
    BY <1>1, <1>2, <2>2, <2>3, <2>4
<1>5. QED
  BY <1>2, <1>4 DEF Stacks

\* A call of the security object goes on top of the decorator's.
LEMMA ConsInner ==
  ASSUME NEW D, NEW s \in Stacks(D), s # <<>>, Head(s) \in Outer(D), NEW a \in Inner
  PROVE  <<a>> \o s \in Stacks(D)
<1> DEFINE r == <<a>> \o s
<1>1. s \in Seq(Calls(D)) /\ a \in Calls(D)
  BY DEF Stacks, Calls
<1>2. r \in Seq(Calls(D)) /\ Len(r) = Len(s) + 1 /\ r[1] = a
  BY <1>1
<1>3. \A i \in 1 .. Len(s) : r[i + 1] = s[i]
  BY <1>1
<1>4. ASSUME NEW i \in 1 .. Len(r), r[i] \in Inner
      PROVE  i < Len(r) /\ r[i + 1] \in Outer(D)
  <2>1. CASE i = 1
    BY <1>1, <1>2, <1>3, <2>1
  <2>2. CASE i # 1
    <3>1. i - 1 \in 1 .. Len(s) /\ r[i] = s[i - 1]
      BY <1>1, <1>2, <1>3, <2>2
    <3>2. i - 1 < Len(s) /\ s[(i - 1) + 1] \in Outer(D)
      BY <1>4, <3>1 DEF Stacks
    <3>3. r[i + 1] = s[i]
      BY <1>1, <1>3, <3>1, <3>2
    <3>4. QED
      BY <1>1, <1>2, <3>1, <3>2, <3>3
  <2>3. QED
    BY <2>1, <2>2
<1>5. QED
  BY <1>2, <1>4 DEF Stacks

LEMMA Rest ==
  ASSUME NEW D, NEW s \in Stacks(D), s # <<>>
  PROVE  /\ Tail(s) \in Stacks(D)
         /\ Head(s) \in Calls(D)
         /\ Head(s) \in Inner => Tail(s) # <<>> /\ Head(Tail(s)) \in Outer(D)
<1>1. s \in Seq(Calls(D)) /\ Len(s) \in Nat /\ Len(s) # 0
  BY DEF Stacks
<1>2. Tail(s) \in Seq(Calls(D)) /\ Len(Tail(s)) = Len(s) - 1
  BY <1>1
<1>3. \A i \in 1 .. Len(Tail(s)) : Tail(s)[i] = s[i + 1]
  BY <1>1
<1>4. Head(s) = s[1] /\ Head(s) \in Calls(D)
  BY <1>1
<1>5. ASSUME NEW i \in 1 .. Len(Tail(s)), Tail(s)[i] \in Inner
      PROVE  i < Len(Tail(s)) /\ Tail(s)[i + 1] \in Outer(D)
  <2>1. i + 1 \in 1 .. Len(s) /\ s[i + 1] \in Inner
    BY <1>1, <1>2, <1>3, <1>5
  <2>2. i + 1 < Len(s) /\ s[(i + 1) + 1] \in Outer(D)
    BY <2>1 DEF Stacks
  <2>3. QED
    BY <1>1, <1>2, <1>3, <2>2
<1>6. Head(s) \in Inner => Len(Tail(s)) # 0 /\ Head(Tail(s)) \in Outer(D)
  <2>1. SUFFICES ASSUME s[1] \in Inner PROVE Len(Tail(s)) # 0 /\ Head(Tail(s)) \in Outer(D)
    BY <1>4
  <2>2. 1 < Len(s) /\ s[1 + 1] \in Outer(D)
    BY <1>1, <2>1 DEF Stacks
  <2>3. QED
    BY <1>1, <1>2, <1>3, <2>2
<1>7. \A r : r = <<>> => Len(r) = 0
  OBVIOUS
<1>8. Tail(s) \in Stacks(D)
  BY <1>2, <1>5 DEF Stacks
<1>9. QED
  BY <1>4, <1>6, <1>7, <1>8

\* The innermost call is replaced by one of the same kind.
LEMMA Replace ==
  ASSUME NEW D, NEW s \in Stacks(D), s # <<>>, NEW a \in Calls(D), a.call = Head(s).call
  PROVE  <<a>> \o Tail(s) \in Stacks(D)
<1>1. CASE a \in Inner
  <2>1. Head(s) \in Inner
    BY <1>1, Rest, Apart
  <2>2. QED
    BY <1>1, <2>1, Rest, ConsInner
<1>2. CASE a \notin Inner
  BY <1>2, Rest, Cons
<1>3. QED
  BY <1>1, <1>2

\* What an exception leaves
LEMMA Suffix ==
  ASSUME NEW D, NEW s \in Stacks(D), NEW k \in 1 .. Len(s)
  PROVE  SubSeq(s, k + 1, Len(s)) \in Stacks(D)
<1> DEFINE r == SubSeq(s, k + 1, Len(s))
<1>1. s \in Seq(Calls(D)) /\ Len(s) \in Nat
  BY DEF Stacks
<1>2. r \in Seq(Calls(D)) /\ Len(r) = Len(s) - k
  BY <1>1
<1>3. \A i \in 1 .. Len(r) : r[i] = s[k + i]
  BY <1>1, <1>2
<1>4. ASSUME NEW i \in 1 .. Len(r), r[i] \in Inner
      PROVE  i < Len(r) /\ r[i + 1] \in Outer(D)
  <2>1. k + i \in 1 .. Len(s) /\ s[k + i] \in Inner
    BY <1>1, <1>2, <1>3, <1>4
  <2>2. k + i < Len(s) /\ s[(k + i) + 1] \in Outer(D)
    BY <2>1 DEF Stacks
  <2>3. i < Len(r) /\ i + 1 \in 1 .. Len(r)
    BY <1>1, <1>2, <2>2
  <2>4. r[i + 1] = s[k + (i + 1)]
    BY <1>3, <2>3
  <2>5. QED
    BY <2>2, <2>3, <2>4
<1>5. QED
  BY <1>2, <1>4 DEF Stacks

LEMMA UnwoundIsSuffix ==
  ASSUME NEW D, NEW s \in Stacks(D)
  PROVE  \/ Unwound(s) = <<>>
         \/ \E k \in 1 .. Len(s) : Unwound(s) = SubSeq(s, k + 1, Len(s))
<1> DEFINE notices == {i \in DOMAIN s : s[i].call = "Notice"}
           first   == CHOOSE i \in notices : \A j \in notices : i <= j
<1>1. CASE notices = {}
  BY <1>1 DEF Unwound
<1>2. CASE notices # {}
  <2>1. notices \subseteq 1 .. Len(s) /\ Len(s) \in Nat
    BY DEF Stacks
  <2>2. \E i \in notices : \A j \in notices : i <= j
    <3>1. notices \subseteq Nat
      BY <2>1
    <3>2. QED
      BY <1>2, <3>1, Least
  <2>3. first \in 1 .. Len(s)
    BY <2>1, <2>2
  <2>4. Unwound(s) = SubSeq(s, first + 1, Len(s))
    BY <1>2 DEF Unwound
  <2>5. QED
    BY <2>3, <2>4
<1>3. QED
  BY <1>1, <1>2

LEMMA Thrown ==
  ASSUME NEW D, NEW s \in Stacks(D)
  PROVE  Unwound(s) \in Stacks(D)
BY UnwoundIsSuffix, EmptyStack, Suffix

\* Stacks over other decorators
LEMMA Retype ==
  ASSUME NEW D, NEW E, NEW s \in Stacks(D),
         \A i \in 1 .. Len(s) : s[i] \in Outer(D) => s[i].decorator \in E
  PROVE  s \in Stacks(E)
<1>1. s \in Seq(Calls(D)) /\ Len(s) \in Nat
  BY DEF Stacks
<1>2. ASSUME NEW i \in 1 .. Len(s)
      PROVE  s[i] \in Calls(E) /\ (s[i] \in Outer(D) => s[i] \in Outer(E))
  BY <1>1, <1>2 DEF Calls, Outer, Sends, Handles
<1>3. s \in Seq(Calls(E))
  BY <1>1, <1>2
<1>4. ASSUME NEW i \in 1 .. Len(s), s[i] \in Inner
      PROVE  i < Len(s) /\ s[i + 1] \in Outer(E)
  BY <1>1, <1>2, <1>4 DEF Stacks
<1>5. QED
  BY <1>3, <1>4 DEF Stacks

LEMMA DisturbedStack ==
  ASSUME NEW D, NEW s \in Stacks(D)
  PROVE  Disturbed(s) \in Stacks(D)
<1> DEFINE r == Disturbed(s)
<1>1. s \in Seq(Calls(D)) /\ Len(s) \in Nat /\ DOMAIN s = 1 .. Len(s)
  BY DEF Stacks
<1>2. ASSUME NEW i \in 1 .. Len(s)
      PROVE  /\ r[i] \in Calls(D)
             /\ r[i] \in Inner => s[i] \in Inner
             /\ s[i] \in Outer(D) => r[i] \in Outer(D)
  <2>1. CASE s[i].call = "Protect"
    <3>1. s[i] \in Protects
      <4>1. s[i] \in Calls(D)
        BY <1>1
      <4>2. QED
        BY <2>1, <4>1, Apart
    <3>2. r[i] = [s[i] EXCEPT !.disturbed = TRUE]
      BY <1>1, <2>1 DEF Disturbed
    <3>3. r[i] \in Protects
      BY <3>1, <3>2 DEF Protects
    <3>4. s[i] \notin Outer(D)
      BY <2>1 DEF Outer, Sends, Handles
    <3>5. QED
      BY <3>1, <3>3, <3>4 DEF Calls, Inner
  <2>2. CASE s[i].call # "Protect"
    BY <1>1, <2>2 DEF Disturbed
  <2>3. QED
    BY <2>1, <2>2
<1>3. r \in Seq(Calls(D)) /\ Len(r) = Len(s)
  <2>1. r \in [1 .. Len(s) -> Calls(D)]
    BY <1>1, <1>2 DEF Disturbed
  <2>2. QED
    BY <1>1, <2>1
<1>4. ASSUME NEW i \in 1 .. Len(r), r[i] \in Inner
      PROVE  i < Len(r) /\ r[i + 1] \in Outer(D)
  <2>1. s[i] \in Inner
    BY <1>2, <1>3, <1>4
  <2>2. i < Len(s) /\ s[i + 1] \in Outer(D)
    BY <1>3, <2>1 DEF Stacks
  <2>3. i + 1 \in 1 .. Len(s)
    BY <1>1, <2>2
  <2>4. QED
    BY <1>2, <1>3, <2>2, <2>3
<1>5. QED
  BY <1>3, <1>4 DEF Stacks

-----------------------------------------------------------------------------
(* Steps of one task's stack *)

LEMMA Stepped ==
  ASSUME NEW D, NEW a \in Calls(D), NEW x \in Steps
  PROVE  [a EXCEPT !.step = x] \in Calls(D) /\ [a EXCEPT !.step = x].call = a.call
<1>1. CASE a \in Notices \cup SetConfigs
  BY <1>1 DEF Calls, Notices, SetConfigs
<1>2. CASE a \in Inner
  BY <1>2 DEF Calls, Inner, Protects, Unprotects
<1>3. CASE a \in Outer(D)
  BY <1>3 DEF Calls, Outer, Sends, Handles
<1>4. QED
  BY <1>1, <1>2, <1>3 DEF Calls

LEMMA NoticeIsCall ==
  ASSUME NEW D
  PROVE  Notice \in Calls(D) /\ Notice \notin Inner
<1>1. Notice \in Notices /\ Notice.call = "Notice"
  BY DEF Notice, Notices, Steps
<1>2. Notice \in Calls(D)
  BY <1>1 DEF Calls
<1>3. QED
  BY <1>1, <1>2, Apart

LEMMA Update ==
  ASSUME NEW D, stack \in [Tasks -> Stacks(D)], NEW t \in Tasks, NEW r \in Stacks(D),
         stack' = [stack EXCEPT ![t] = r]
  PROVE  stack' \in [Tasks -> Stacks(D)]
OBVIOUS

LEMMA LeaveTyped ==
  ASSUME NEW D, stack \in [Tasks -> Stacks(D)], NEW t \in Tasks, ~Idle(t), Leave(t)
  PROVE  stack' \in [Tasks -> Stacks(D)]
<1>1. Tail(stack[t]) \in Stacks(D)
  BY Rest DEF Idle
<1>2. QED
  BY <1>1, Update DEF Leave

LEMMA GotoTyped ==
  ASSUME NEW D, stack \in [Tasks -> Stacks(D)], NEW t \in Tasks, ~Idle(t),
         NEW x \in Steps, Goto(t, x)
  PROVE  stack' \in [Tasks -> Stacks(D)]
<1> DEFINE a == [Head(stack[t]) EXCEPT !.step = x]
<1>1. Head(stack[t]) \in Calls(D)
  BY Rest DEF Idle
<1>2. a \in Calls(D) /\ a.call = Head(stack[t]).call
  BY <1>1, Stepped
<1>3. <<a>> \o Tail(stack[t]) \in Stacks(D)
  <2> HIDE DEF a
  <2>1. QED
    BY <1>2, Replace DEF Idle
<1>4. QED
  BY <1>3, Update DEF Goto

LEMMA NotifyTyped ==
  ASSUME NEW D, stack \in [Tasks -> Stacks(D)], NEW t \in Tasks, ~Idle(t),
         NEW x \in Steps, NotifyThen(t, x)
  PROVE  stack' \in [Tasks -> Stacks(D)]
<1> DEFINE a == [Head(stack[t]) EXCEPT !.step = x]
           r == <<a>> \o Tail(stack[t])
<1>1. Head(stack[t]) \in Calls(D) /\ Tail(stack[t]) \in Stacks(D)
  BY Rest DEF Idle
<1>2. a \in Calls(D) /\ a.call = Head(stack[t]).call
  BY <1>1, Stepped
<1>3. r \in Stacks(D)
  <2> HIDE DEF a
  <2>1. QED
    BY <1>2, Replace DEF Idle
<1>4. <<Notice>> \o r \in Stacks(D)
  <2> HIDE DEF r
  <2>1. QED
    BY <1>3, NoticeIsCall, Cons
<1>5. <<Notice, a>> \o Tail(stack[t]) = <<Notice>> \o r
  <2> HIDE DEF a
  <2>1. Tail(stack[t]) \in Seq(Calls(D))
    BY <1>1 DEF Stacks
  <2>2. QED
    BY <1>2, <2>1, NoticeIsCall
<1>6. QED
  BY <1>4, <1>5, Update DEF NotifyThen

LEMMA ReturnTyped ==
  ASSUME NEW D, stack \in [Tasks -> Stacks(D)], NEW t \in Tasks, ~Idle(t),
         Top(t).call \in {"Protect", "Unprotect"}, NEW v \in Outcomes, Return(t, v)
  PROVE  stack' \in [Tasks -> Stacks(D)]
<1> DEFINE below == Tail(stack[t])
           a     == [Head(below) EXCEPT !.step = "returned", !.outcome = v]
<1>1. Head(stack[t]) \in Calls(D) /\ below \in Stacks(D)
  BY Rest DEF Idle
<1>2. Head(stack[t]) \in Inner
  BY <1>1, Apart DEF Top
<1>3. below # <<>> /\ Head(below) \in Outer(D)
  BY <1>2, Rest DEF Idle
<1>4. a \in Calls(D) /\ a.call = Head(below).call
  <2>1. ASSUME NEW b \in Outer(D)
        PROVE  [b EXCEPT !.step = "returned", !.outcome = v] \in Calls(D)
                /\ [b EXCEPT !.step = "returned", !.outcome = v].call = b.call
    <3>1. CASE b \in Sends(D)
      BY <3>1 DEF Calls, Outer, Sends, Steps
    <3>2. CASE b \in Handles(D)
      BY <3>2 DEF Calls, Outer, Handles, Steps
    <3>3. QED
      BY <3>1, <3>2 DEF Outer
  <2>2. QED
    BY <1>3, <2>1
<1>5. <<a>> \o Tail(below) \in Stacks(D)
  <2> HIDE DEF a, below
  <2>1. QED
    BY <1>1, <1>3, <1>4, Replace
<1>6. QED
  BY <1>5, Update DEF Return

LEMMA ThrowTyped ==
  ASSUME NEW D, stack \in [Tasks -> Stacks(D)], NEW t \in Tasks, Throw(t)
  PROVE  stack' \in [Tasks -> Stacks(D)]
<1>1. Unwound(stack[t]) \in Stacks(D)
  BY Thrown
<1>2. QED
  BY <1>1, Update DEF Throw

\* The innermost call of a task that is in one
LEMMA TopTyped ==
  ASSUME NEW D, stack \in [Tasks -> Stacks(D)], NEW t \in Tasks, NEW call, NEW step,
         At(t, call, step)
  PROVE  ~Idle(t) /\ Top(t) \in Calls(D) /\ Top(t).call = call
BY Rest DEF At, Top, Idle

-----------------------------------------------------------------------------
(* Every step keeps the invariant *)

\* What the steps inside the security object leave alone or keep typed
ObjectTyped == config \in Configs /\ sessionID \in Sessions /\ nextSequence \in Numbers

LEMMA ConfigTyped ==
  ASSUME NEW c \in Configs
  PROVE  c.OutboundKeyID \in KeyIDs /\ c.SessionID \in Sessions /\ c.Policy \in Policies
<1>1. c \in [OutboundKeyID : KeyIDs, SessionID : Sessions, Policy : Policies]
  BY SharedAssumption DEF Sessions
<1>2. QED
  BY <1>1

\* A payload that passes through unprotected, whoever called
LEMMA PlainOutcome ==
  /\ Unprotected \in Outcomes /\ Unprotected.ok /\ Unprotected.frame = Plaintext
  /\ Unprotected.whole /\ Plaintext \in Frames /\ Envelopes \subseteq Frames
  /\ \A f \in Envelopes : f # Plaintext
<1>1. ASSUME NEW f \in Envelopes
      PROVE  f # Plaintext
  BY SharedAssumption DEF Envelopes, Plaintext
<1>2. QED
  BY <1>1 DEF Unprotected, Returned, Outcomes, Frames

LEMMA PassTyped ==
  ASSUME NodeIInv, NEW t \in Tasks, NEW call \in {"Protect", "Unprotect"},
         PassThrough(t, call) \/ PassThrows(t, call)
  PROVE  stack' \in [Tasks -> Stacks(alive)] /\ ObjectTyped'
<1> USE DEF NodeIInv
<1>1. ObjectTyped'
  BY DEF PassThrough, PassThrows, security, outbound, ObjectTyped
<1>2. ~Idle(t) /\ Top(t).call = call
  BY TopTyped DEF PassThrough, PassThrows
<1>3. CASE PassThrough(t, call)
  <2>1. Return(t, Unprotected) /\ Unprotected \in Outcomes
    BY <1>3, PlainOutcome DEF PassThrough
  <2>2. QED
    BY <1>1, <1>2, <2>1, ReturnTyped
<1>4. CASE PassThrows(t, call)
  BY <1>1, <1>4, ThrowTyped DEF PassThrows
<1>5. QED
  BY <1>3, <1>4

LEMMA ProtectTyped ==
  ASSUME NodeIInv, NEW t \in Tasks, ProtectStep(t)
  PROVE  stack' \in [Tasks -> Stacks(alive)] /\ ObjectTyped'
<1> USE DEF NodeIInv
<1>1. ASSUME NEW id \in SessionIDs, EstablishSession(t, id)
      PROVE  stack' \in [Tasks -> Stacks(alive)] /\ ObjectTyped'
  <2>1. ~Idle(t) /\ NotifyThen(t, "sequence")
    BY <1>1, TopTyped DEF EstablishSession
  <2>2. stack' \in [Tasks -> Stacks(alive)]
    BY <2>1, NotifyTyped DEF Steps
  <2>3. QED
    BY <1>1, <2>2, Ranges DEF EstablishSession, ObjectTyped
<1>2. CASE SessionFails(t) \/ SequenceExhausted(t) \/ SealFails(t)
  <2>1. ~Idle(t) /\ NotifyThen(t, "refused")
    BY <1>2, TopTyped DEF SessionFails, SequenceExhausted, SealFails, Fail, Ensured
  <2>2. stack' \in [Tasks -> Stacks(alive)]
    BY <2>1, NotifyTyped DEF Steps
  <2>3. QED
    BY <1>2, <2>2
       DEF SessionFails, SequenceExhausted, SealFails, security, outbound, ObjectTyped
<1>3. CASE TakeSequence(t)
  <2> DEFINE a == [Head(stack[t]) EXCEPT !.step = "seal", !.sequence = nextSequence]
  <2>1. ~Idle(t) /\ Head(stack[t]) \in Calls(alive) /\ Head(stack[t]).call = "Protect"
    BY <1>3, TopTyped DEF TakeSequence, Ensured, Top
  <2>2. a \in Calls(alive) /\ a.call = Head(stack[t]).call
    <3>1. Head(stack[t]) \in Protects
      BY <2>1, Apart
    <3>2. a \in Protects
      BY <3>1 DEF Protects, Steps
    <3>3. QED
      BY <2>1, <3>2 DEF Calls, Inner, Protects
  <2>3. <<a>> \o Tail(stack[t]) \in Stacks(alive)
    <3> HIDE DEF a
    <3>1. QED
      BY <2>1, <2>2, Replace DEF Idle
  <2>4. stack' \in [Tasks -> Stacks(alive)]
    BY <1>3, <2>3, Update DEF TakeSequence
  <2>5. QED
    BY <1>3, <2>4, Ranges DEF TakeSequence, ObjectTyped
<1>4. CASE Seal(t)
  <2>1. ~Idle(t) /\ Top(t) \in Protects /\ Top(t).call = "Protect"
    BY <1>4, TopTyped, Apart DEF Seal
  <2>2. SealedBy(Top(t)) \in Envelopes
    BY <2>1, ConfigTyped DEF SealedBy, Envelopes, Protects
  <2>3. Returned(SealedBy(Top(t)), TRUE) \in Outcomes
    BY <2>2 DEF Returned, Outcomes, Frames
  <2>4. stack' \in [Tasks -> Stacks(alive)]
    BY <1>4, <2>1, <2>3, ReturnTyped DEF Seal
  <2>5. QED
    BY <1>4, <2>4 DEF Seal, security, outbound, ObjectTyped
<1>5. CASE ReturnRefused(t, "Protect")
  <2>1. ~Idle(t) /\ Top(t).call = "Protect"
    BY <1>5, TopTyped DEF ReturnRefused
  <2>2. stack' \in [Tasks -> Stacks(alive)]
    BY <1>5, <2>1, ReturnTyped DEF ReturnRefused, Outcomes
  <2>3. QED
    BY <1>5, <2>2 DEF ReturnRefused, security, outbound, ObjectTyped
<1>6. QED
  BY <1>1, <1>2, <1>3, <1>4, <1>5, PassTyped DEF ProtectStep

LEMMA UnprotectTyped ==
  ASSUME NodeIInv, NEW t \in Tasks, UnprotectStep(t)
  PROVE  stack' \in [Tasks -> Stacks(alive)] /\ ObjectTyped'
<1> USE DEF NodeIInv
<1>1. ObjectTyped'
  BY DEF UnprotectStep, RejectPlaintext, PassThrough, PassThrows, CheckReplay, Open, OpenThrows,
         CommitReplay, CommitThrows, ReturnRefused, security, outbound, ObjectTyped
<1>2. CASE RejectPlaintext(t) \/ CheckReplay(t) \/ Open(t)
  <2>1. ~Idle(t) /\ \/ Goto(t, "open") \/ Goto(t, "commit") \/ NotifyThen(t, "refused")
    BY <1>2, TopTyped DEF RejectPlaintext, CheckReplay, Open, Fail
  <2>2. stack' \in [Tasks -> Stacks(alive)]
    BY <2>1, GotoTyped, NotifyTyped DEF Steps
  <2>3. QED
    BY <1>1, <2>2
<1>3. CASE OpenThrows(t) \/ CommitThrows(t)
  BY <1>1, <1>3, ThrowTyped DEF OpenThrows, CommitThrows
<1>4. CASE CommitReplay(t)
  <2>1. ~Idle(t) /\ Top(t) \in Unprotects /\ Top(t).call = "Unprotect"
    BY <1>4, TopTyped, Apart DEF CommitReplay
  <2>2. Returned(Top(t).frame, Top(t).whole) \in Outcomes
    BY <2>1 DEF Returned, Outcomes, Unprotects
  <2>3. stack' \in [Tasks -> Stacks(alive)]
    BY <1>4, <2>1, <2>2, ReturnTyped DEF CommitReplay
  <2>4. QED
    BY <1>1, <2>3
<1>5. CASE ReturnRefused(t, "Unprotect")
  <2>1. ~Idle(t) /\ Top(t).call = "Unprotect"
    BY <1>5, TopTyped DEF ReturnRefused
  <2>2. stack' \in [Tasks -> Stacks(alive)]
    BY <1>5, <2>1, ReturnTyped DEF ReturnRefused, Outcomes
  <2>3. QED
    BY <1>1, <2>2
<1>6. QED
  BY <1>2, <1>3, <1>4, <1>5, PassTyped DEF UnprotectStep

LEMMA ReconfiguringTyped ==
  ASSUME NodeIInv, NEW t \in Tasks, SetConfigStep(t)
  PROVE  stack' \in [Tasks -> Stacks(alive)] /\ ObjectTyped'
<1> USE DEF NodeIInv
<1>1. ObjectTyped'
  BY DEF SetConfigStep, TellReset, TellEstablished, SetConfigReturns, security, outbound,
         ObjectTyped
<1>2. ~Idle(t)
  BY TopTyped DEF SetConfigStep, TellReset, TellEstablished, SetConfigReturns
<1>3. \/ \E x \in Steps : Goto(t, x) \/ NotifyThen(t, x)
      \/ Leave(t)
  BY DEF SetConfigStep, TellReset, TellEstablished, SetConfigReturns, Steps
<1>4. QED
  BY <1>1, <1>2, <1>3, GotoTyped, NotifyTyped, LeaveTyped

LEMMA Two ==
  ASSUME NEW T, NEW a \in T, NEW b \in T, NEW s \in Seq(T)
  PROVE  <<a, b>> \o s = <<a>> \o (<<b>> \o s)
<1> DEFINE l == <<a, b>> \o s
           m == <<b>> \o s
           r == <<a>> \o m
<1>1. l \in Seq(T) /\ Len(l) = Len(s) + 2 /\ l[1] = a /\ l[2] = b
  OBVIOUS
<1>2. m \in Seq(T) /\ Len(m) = Len(s) + 1 /\ m[1] = b
  OBVIOUS
<1>3. r \in Seq(T) /\ Len(r) = Len(m) + 1 /\ r[1] = a
  <2> HIDE DEF m
  <2>1. QED
    BY <1>2
<1>4. ASSUME NEW i \in 1 .. Len(m)
      PROVE  r[i + 1] = m[i]
  <2> HIDE DEF m
  <2>1. QED
    BY <1>2
<1>5. ASSUME NEW i \in 1 .. Len(l)
      PROVE  l[i] = r[i]
  <2>1. CASE i <= 2
    <3> HIDE DEF l, m, r
    <3>1. QED
      BY <1>1, <1>2, <1>3, <1>4, <2>1
  <2>2. CASE i > 2
    <3>1. l[i] = s[i - 2]
      BY <1>1, <2>2
    <3>2. m[i - 1] = s[i - 2]
      BY <1>1, <1>2, <2>2
    <3>3. r[i] = m[i - 1]
      <4> HIDE DEF l, m, r
      <4>1. QED
        BY <1>1, <1>2, <1>4, <2>2
    <3>4. QED
      BY <3>1, <3>2, <3>3
  <2>3. QED
    BY <1>1, <2>1, <2>2
<1>6. QED
  <2> HIDE DEF l, m, r
  <2>1. l = r
    BY <1>1, <1>2, <1>3, <1>5
  <2>2. QED
    BY <2>1 DEF l, m, r

\* Two calls that are made together: one of the security object's on top of the
\* decorator's
LEMMA PairTyped ==
  ASSUME NEW D, NEW s \in Stacks(D), NEW a \in Inner, NEW b \in Outer(D)
  PROVE  <<a, b>> \o s \in Stacks(D)
<1> DEFINE r == <<b>> \o s
<1>1. b \in Calls(D) /\ b \notin Inner
  BY DEF Calls, Inner, Outer, Sends, Handles, Protects, Unprotects
<1>2. s \in Seq(Calls(D))
  BY DEF Stacks
<1>3. r \in Stacks(D) /\ r # <<>> /\ Head(r) \in Outer(D)
  BY <1>1, <1>2, Cons
<1>4. <<a>> \o r \in Stacks(D)
  <2> HIDE DEF r
  <2>1. QED
    BY <1>3, ConsInner
<1>5. <<a, b>> \o s = <<a>> \o r
  <2>1. a \in Calls(D)
    BY DEF Calls
  <2>2. QED
    BY <1>1, <1>2, <2>1, Two
<1>6. QED
  BY <1>4, <1>5

LEMMA ReceiveTyped ==
  ASSUME NodeIInv, NEW t \in Tasks, NEW c \in Carriers, NEW f \in Frames,
         NEW whole \in BOOLEAN, NEW below \in Stacks(alive), Receive(t, c, f, whole, below)
  PROVE  stack' \in [Tasks -> Stacks(alive)]
<1> DEFINE b == [call |-> "Handle", step |-> "unprotecting", outcome |-> Refused,
                 decorator |-> receiver[c], policy |-> config.Policy]
<1>1. UnprotectCall(f, whole) \in Inner
  BY DEF UnprotectCall, Unprotects, Inner, Steps
<1>2. receiver[c] \in alive
  BY DEF NodeIInv, Receive
<1>3. b \in Outer(alive)
  BY <1>2, ConfigTyped DEF Outer, Handles, Outcomes, Steps, NodeIInv
<1>4. <<UnprotectCall(f, whole), b>> \o below \in Stacks(alive)
  <2> HIDE DEF b
  <2>1. QED
    BY <1>1, <1>3, PairTyped
<1>5. QED
  BY <1>4, Update DEF Receive, NodeIInv

LEMMA SendTyped ==
  ASSUME NodeIInv, NEW t \in Tasks, NEW d, Send(t, d)
  PROVE  stack' \in [Tasks -> Stacks(alive)]
<1> DEFINE b == [call |-> "Send", step |-> "protecting", outcome |-> Refused,
                 decorator |-> d]
<1>1. ProtectCall \in Inner
  BY ConfigTyped, Ranges DEF ProtectCall, Protects, Inner, Steps, NodeIInv
<1>2. b \in Outer(alive)
  BY DEF Send, Outer, Sends, Outcomes, Steps
<1>3. <<ProtectCall, b>> \o stack[t] \in Stacks(alive)
  <2> HIDE DEF b
  <2>1. QED
    BY <1>1, <1>2, PairTyped DEF NodeIInv
<1>4. QED
  BY <1>3, Update DEF Send, Push, NodeIInv

LEMMA SetConfigTyped ==
  ASSUME NodeIInv, NEW t \in Tasks, NEW c \in Configs, SetConfig(t, c)
  PROVE  stack' \in [Tasks -> Stacks(alive)] /\ ObjectTyped'
<1> DEFINE a == [call |-> "SetConfig", step |-> "reset", previous |-> sessionID]
           r == <<a>> \o Disturbed(stack[t])
<1>1. Disturbed(stack[t]) \in Stacks(alive)
  BY DisturbedStack DEF NodeIInv
<1>2. a \in Calls(alive) /\ a \notin Inner
  <2>1. a \in SetConfigs /\ a.call = "SetConfig"
    BY DEF SetConfigs, Steps, NodeIInv
  <2>2. QED
    BY <2>1, Apart DEF Calls
<1>3. r \in Stacks(alive)
  <2> HIDE DEF a
  <2>1. QED
    BY <1>1, <1>2, Cons
<1>4. <<Notice>> \o r \in Stacks(alive)
  <2> HIDE DEF r
  <2>1. QED
    BY <1>3, NoticeIsCall, Cons
<1>5. <<Notice, a>> \o Disturbed(stack[t]) = <<Notice>> \o r
  <2> HIDE DEF a
  <2>1. Disturbed(stack[t]) \in Seq(Calls(alive))
    BY <1>1 DEF Stacks
  <2>2. QED
    BY <1>2, <2>1, NoticeIsCall
<1>6. stack' \in [Tasks -> Stacks(alive)]
  BY <1>4, <1>5, Update DEF SetConfig, NodeIInv
<1>7. QED
  BY <1>6, ConfigTyped, Ranges DEF SetConfig, ObjectTyped

LEMMA TransportTyped ==
  ASSUME NodeIInv, NEW t \in Tasks, Transport(t)
  PROVE  stack' \in [Tasks -> Stacks(alive)] /\ BagToSet(air') \subseteq Envelopes
<1> USE DEF NodeIInv
<1>1. CASE Dispatch(t)
  <2>1. ~Idle(t) /\ \/ Leave(t) \/ \E x \in {"delivering", "reporting"} : Goto(t, x)
    BY <1>1, TopTyped DEF Dispatch
  <2>2. stack' \in [Tasks -> Stacks(alive)]
    BY <2>1, LeaveTyped, GotoTyped DEF Steps
  <2>3. QED
    BY <1>1, <2>2 DEF Dispatch, node
<1>2. CASE CallbackReturns(t) \/ SendFails(t) \/ SendReturns(t)
  <2>1. ~Idle(t) /\ Leave(t)
    BY <1>2, TopTyped DEF CallbackReturns, InCallback, SendFails, SendReturns
  <2>2. QED
    BY <1>2, <2>1, LeaveTyped DEF CallbackReturns, SendFails, SendReturns, node
<1>3. CASE CallbackThrows(t)
  BY <1>3, ThrowTyped DEF CallbackThrows, node
<1>4. ASSUME At(t, "Send", "returned"), Top(t).outcome.ok
      PROVE  Top(t) \in Sends(alive) /\ Top(t).outcome.frame \in Frames
  <2>1. Top(t) \in Sends(alive)
    BY <1>4, TopTyped, Apart
  <2>2. Top(t).outcome \in Outcomes
    BY <2>1 DEF Sends
  <2>3. ASSUME NEW o \in Outcomes, o.ok
        PROVE  o.frame \in Frames
    <3>1. o # Refused
      BY <2>3 DEF Refused
    <3>2. o \in [ok : {TRUE}, frame : Frames, whole : BOOLEAN]
      BY <3>1 DEF Outcomes
    <3>3. QED
      BY <3>2
  <2>4. QED
    BY <1>4, <2>1, <2>2, <2>3
<1>5. ASSUME NEW f \in Frames, Taken(f)
      PROVE  BagToSet(air') \subseteq Envelopes
  BY <1>5 DEF Taken, Frames, BagToSet, SetToBag, (+)
<1>6. CASE CarrierAccepts(t)
  <2>1. ~Idle(t) /\ Leave(t)
    BY <1>6, TopTyped DEF CarrierAccepts
  <2>2. QED
    BY <1>4, <1>5, <1>6, <2>1, LeaveTyped DEF CarrierAccepts
<1>7. CASE CarrierLoops(t)
  <2> DEFINE f     == Top(t).outcome.frame
             b     == [Top(t) EXCEPT !.step = "sent"]
             below == <<b>> \o Tail(stack[t])
             c     == CarrierOf[Top(t).decorator]
  <2>1. Top(t) \in Sends(alive) /\ f \in Frames /\ ~Idle(t)
    BY <1>4, <1>7, TopTyped DEF CarrierLoops
  <2>2. b \in Calls(alive) /\ b.call = Head(stack[t]).call
    BY <1>7, TopTyped, Stepped DEF CarrierLoops, Top, Steps
  <2>3. below \in Stacks(alive)
    <3> HIDE DEF b
    <3>1. QED
      BY <2>1, <2>2, Replace DEF Idle
  <2>4. c \in Carriers
    BY <2>1, NodeAssumption DEF Sends
  <2>5. Receive(t, c, f, TRUE, below) /\ Taken(f)
    BY <1>7 DEF CarrierLoops
  <2>6. QED
    <3> HIDE DEF f, b, below, c
    <3>1. QED
      BY <1>5, <2>1, <2>3, <2>4, <2>5, ReceiveTyped
<1>8. QED
  BY <1>1, <1>2, <1>3, <1>6, <1>7 DEF Transport

LEMMA ActTyped ==
  ASSUME NodeIInv, NEW t \in Tasks, Act(t)
  PROVE  stack' \in [Tasks -> Stacks(alive)] /\ ObjectTyped' /\ UNCHANGED node
<1>1. CASE \E d \in Decorators : Send(t, d)
  BY <1>1, SendTyped DEF Send, security, outbound, ObjectTyped, NodeIInv
<1>2. ASSUME NEW c \in Configs, SetConfig(t, c), UNCHANGED node
      PROVE  stack' \in [Tasks -> Stacks(alive)] /\ ObjectTyped' /\ UNCHANGED node
  BY <1>2, SetConfigTyped
<1>3. CASE ResetReplayProtection(t) /\ UNCHANGED node
  <2>1. <<Notice>> \o stack[t] \in Stacks(alive)
    BY NoticeIsCall, Cons DEF NodeIInv
  <2>2. stack' \in [Tasks -> Stacks(alive)]
    BY <1>3, <2>1, Update DEF ResetReplayProtection, Push, NodeIInv
  <2>3. QED
    BY <1>3, <2>2 DEF ResetReplayProtection, outbound, ObjectTyped, NodeIInv
<1>4. QED
  BY <1>1, <1>2, <1>3 DEF Act

LEMMA WorkTyped ==
  ASSUME NodeIInv, NEW t \in Tasks, Work(t)
  PROVE  stack' \in [Tasks -> Stacks(alive)] /\ ObjectTyped' /\ UNCHANGED node
<1>1. CASE ObserverReturns(t)
  <2>1. ~Idle(t) /\ Leave(t)
    BY <1>1, TopTyped DEF ObserverReturns, Observing, NodeIInv
  <2>2. stack' \in [Tasks -> Stacks(alive)]
    BY <2>1, LeaveTyped DEF NodeIInv
  <2>3. QED
    BY <1>1, <2>2 DEF Work, ObserverReturns, security, outbound, ObjectTyped, NodeIInv
<1>2. QED
  BY <1>1, ProtectTyped, UnprotectTyped, ReconfiguringTyped DEF Work

\* A stack in which no call belongs to d is one over the others.
LEMMA WithoutDecorator ==
  ASSUME NodeIInv, NEW d, Quiet(d)
  PROVE  stack \in [Tasks -> Stacks(alive \ {d})]
<1>1. ASSUME NEW t \in Tasks
      PROVE  stack[t] \in Stacks(alive \ {d})
  <2>1. stack[t] \in Stacks(alive)
    BY DEF NodeIInv
  <2>2. DOMAIN stack[t] = 1 .. Len(stack[t])
    BY <2>1 DEF Stacks
  <2>3. ASSUME NEW i \in 1 .. Len(stack[t]), stack[t][i] \in Outer(alive)
        PROVE  stack[t][i].decorator \in alive \ {d}
    <3>1. stack[t][i].decorator \in alive /\ stack[t][i].call \in {"Send", "Handle"}
      BY <2>3 DEF Outer, Sends, Handles
    <3>2. stack[t][i].decorator # d
      BY <2>2, <3>1 DEF Quiet
    <3>3. QED
      BY <3>1, <3>2
  <2>4. QED
    BY <2>1, <2>3, Retype
<1>2. QED
  BY <1>1 DEF NodeIInv

LEMMA WithDecorator ==
  ASSUME NodeIInv, NEW d
  PROVE  stack \in [Tasks -> Stacks(alive \cup {d})]
<1>1. ASSUME NEW t \in Tasks
      PROVE  stack[t] \in Stacks(alive \cup {d})
  <2>1. stack[t] \in Stacks(alive)
    BY DEF NodeIInv
  <2>2. ASSUME NEW i \in 1 .. Len(stack[t]), stack[t][i] \in Outer(alive)
        PROVE  stack[t][i].decorator \in alive \cup {d}
    BY <2>2 DEF Outer, Sends, Handles
  <2>3. QED
    BY <2>1, <2>2, Retype
<1>2. QED
  BY <1>1 DEF NodeIInv

LEMMA ManageStep ==
  ASSUME NodeIInv, NEW t \in Tasks, Manage(t)
  PROVE  NodeIInv'
<1> USE NodeAssumption DEF NodeIInv
<1>1. ASSUME NEW d \in Decorators, Construct(t, d)
      PROVE  NodeIInv'
  <2>1. stack' \in [Tasks -> Stacks(alive')]
    BY <1>1, WithDecorator DEF Construct
  <2>2. QED
    BY <1>1, <2>1 DEF Construct, Installed, security, outbound
<1>2. ASSUME NEW d \in Decorators, Destroy(t, d)
      PROVE  NodeIInv'
  <2>1. stack' \in [Tasks -> Stacks(alive')]
    BY <1>2, WithoutDecorator DEF Destroy
  <2>2. CarrierOf[d] \in Carriers /\ receiver' = [receiver EXCEPT ![CarrierOf[d]] = Nobody]
    BY <1>2 DEF Destroy, Installed
  <2>3. QED
    BY <1>2, <2>1, <2>2 DEF Destroy, security, outbound
<1>3. ASSUME NEW d \in Decorators, NEW which \in Callbacks, SetCallback(t, d, which)
      PROVE  NodeIInv'
  BY <1>3 DEF SetCallback, security, outbound
<1>4. QED
  BY <1>1, <1>2, <1>3 DEF Manage

\* Init and Next keep the stacks typed and the carriers' receivers alive.
THEOREM NodeInvariant == Spec => []NodeIInv
<1>1. Init => NodeIInv
  <2>1. SUFFICES ASSUME Init PROVE NodeIInv
    OBVIOUS
  <2>2. stack \in [Tasks -> Stacks(alive)]
    BY <2>1, EmptyStack DEF Init
  <2>3. config \in Configs /\ sessionID \in Sessions /\ nextSequence \in Numbers
    BY <2>1, ConfigTyped, Ranges DEF Init
  <2>4. BagToSet(air) \subseteq Envelopes
    BY <2>1 DEF Init, EmptyBag, SetToBag, BagToSet
  <2>5. QED
    BY <2>1, <2>2, <2>3, <2>4 DEF Init, NodeIInv
<1>2. NodeIInv /\ [Next]_vars => NodeIInv'
  <2> SUFFICES ASSUME NodeIInv, [Next]_vars PROVE NodeIInv'
    OBVIOUS
  <2>1. ASSUME NEW t \in Tasks, Act(t) \/ Work(t) PROVE NodeIInv'
    <3>1. stack' \in [Tasks -> Stacks(alive)] /\ ObjectTyped' /\ UNCHANGED node
      BY <2>1, ActTyped, WorkTyped
    <3>2. QED
      BY <3>1 DEF NodeIInv, ObjectTyped, node
  <2>2. ASSUME NEW t \in Tasks, Transport(t) PROVE NodeIInv'
    <3>1. stack' \in [Tasks -> Stacks(alive)] /\ BagToSet(air') \subseteq Envelopes
      BY <2>2, TransportTyped
    <3>2. UNCHANGED <<security, alive, receiver, callbacks>>
      BY <2>2 DEF Transport, Dispatch, CallbackReturns, CallbackThrows, SendFails,
                  CarrierAccepts, CarrierLoops, SendReturns, node
    <3>3. QED
      BY <3>1, <3>2 DEF NodeIInv, security, outbound
  <2>3. ASSUME NEW t \in Applications, Manage(t) PROVE NodeIInv'
    BY <2>3, ManageStep, NodeAssumption
  <2>4. ASSUME NEW t \in Radios, NEW c \in Carriers, NEW f \in BagToSet(air) \cup {Plaintext},
               NEW whole \in BOOLEAN, Arrive(t, c, f, whole)
        PROVE  NodeIInv'
    <3>1. t \in Tasks /\ f \in Frames /\ <<>> \in Stacks(alive)
      BY NodeAssumption, EmptyStack DEF NodeIInv, Frames
    <3>2. stack' \in [Tasks -> Stacks(alive)]
      BY <2>4, <3>1, ReceiveTyped DEF Arrive
    <3>3. QED
      BY <2>4, <3>2 DEF Arrive, NodeIInv, security, outbound, node
  <2>5. CASE UNCHANGED vars
    BY <2>5 DEF vars, security, outbound, node, NodeIInv
  <2>6. QED
    BY <2>1, <2>2, <2>3, <2>4, <2>5 DEF Next
<1>3. QED
  BY <1>1, <1>2, PTL DEF Spec

-----------------------------------------------------------------------------
(* Stacks.  Only the innermost call can be about to seal or have a result   *)
(* in its hands; the call under Unprotect is the decorator's Handle.        *)

Passing == {"seal", "returned"}

Settled(s) ==
  \A i \in 1 .. Len(s) :
    /\ s[i].step \notin Passing
    /\ s[i].call = "Unprotect" => i < Len(s) /\ s[i + 1].call = "Handle"

Ordered(s) ==
  s # <<>> =>
    /\ Settled(Tail(s))
    /\ Head(s).call = "Unprotect" => Tail(s) # <<>> /\ Head(Tail(s)).call = "Handle"

\* A sequence is taken and not sealed yet; a sealed envelope is not sent yet.
Pends(s) == s # <<>> /\ Head(s).call = "Protect" /\ Head(s).step = "seal"
Held(s)  == Head(s).outcome.frame
Holds(s) ==
  /\ s # <<>> /\ Head(s).call = "Send" /\ Head(s).step = "returned" /\ Head(s).outcome.ok
  /\ Held(s) # Plaintext

Protecting(s) == \E i \in 1 .. Len(s) : s[i].call = "Protect"

\* Envelopes with one identity
Clash(f, g) == f.sessionID # 0 /\ f.sessionID = g.sessionID /\ f.sequence = g.sequence

\* Envelopes that exist outside of Protect
Sealed == BagToSet(air) \cup {Held(stack[t]) : t \in {u \in Tasks : Holds(stack[u])}}

Claimed(f) ==
  f.sessionID # 0 =>
    f.sessionID \in used /\ (f.sessionID = sessionID => f.sequence < nextSequence)

\* The inductive invariant
UniqueIInv ==
  /\ \A t \in Tasks : Ordered(stack[t])
  /\ \A t, u \in Tasks : t # u /\ Protecting(stack[t]) => ~Protecting(stack[u])
  /\ 0 \notin used
  /\ sessionID # 0 => sessionID \in used
  /\ \A f \in Sealed : Claimed(f)
  /\ \A t \in Tasks : Pends(stack[t]) =>
       /\ Head(stack[t]).sequence < nextSequence
       /\ \A f \in Sealed : sessionID # 0 /\ f.sessionID = sessionID
                              => f.sequence # Head(stack[t]).sequence
  /\ \A f \in BagToSet(air) : f.sessionID # 0 => air[f] = 1
  /\ \A f, g \in BagToSet(air) : Clash(f, g) => f = g
  /\ \A t \in Tasks : Holds(stack[t]) => \A f \in BagToSet(air) : ~Clash(Held(stack[t]), f)
  /\ \A t, u \in Tasks :
       t # u /\ Holds(stack[t]) /\ Holds(stack[u]) => ~Clash(Held(stack[t]), Held(stack[u]))

-----------------------------------------------------------------------------
(* Operations on settled stacks *)

LEMMA SettledStack ==
  ASSUME NEW T, NEW s \in Seq(T), Settled(s)
  PROVE  Ordered(s) /\ ~Pends(s) /\ ~Holds(s)
<1>1. SUFFICES ASSUME s # <<>> PROVE Ordered(s) /\ ~Pends(s) /\ ~Holds(s)
  BY DEF Ordered, Pends, Holds
<1>2. Len(s) \in Nat /\ Len(s) # 0 /\ Head(s) = s[1] /\ Tail(s) \in Seq(T)
  BY <1>1
<1>3. Len(Tail(s)) = Len(s) - 1 /\ \A i \in 1 .. Len(Tail(s)) : Tail(s)[i] = s[i + 1]
  BY <1>2
<1>4. ~Pends(s) /\ ~Holds(s)
  BY <1>2 DEF Settled, Passing, Pends, Holds
<1>5. ASSUME NEW i \in 1 .. Len(Tail(s))
      PROVE  /\ Tail(s)[i].step \notin Passing
             /\ Tail(s)[i].call = "Unprotect"
                  => i < Len(Tail(s)) /\ Tail(s)[i + 1].call = "Handle"
  <2>1. i + 1 \in 1 .. Len(s) /\ Tail(s)[i] = s[i + 1]
    BY <1>2, <1>3
  <2>2. ASSUME s[i + 1].call = "Unprotect"
        PROVE  i < Len(Tail(s)) /\ Tail(s)[i + 1].call = "Handle"
    <3>1. i + 1 < Len(s) /\ s[(i + 1) + 1].call = "Handle"
      BY <2>1, <2>2 DEF Settled
    <3>2. QED
      BY <1>2, <1>3, <3>1
  <2>3. QED
    BY <2>1, <2>2 DEF Settled
<1>6. Settled(Tail(s))
  BY <1>5 DEF Settled
<1>7. Head(s).call = "Unprotect" => Tail(s) # <<>> /\ Head(Tail(s)).call = "Handle"
  <2>1. SUFFICES ASSUME s[1].call = "Unprotect"
                 PROVE  Tail(s) # <<>> /\ Head(Tail(s)).call = "Handle"
    BY <1>2
  <2>2. 1 < Len(s) /\ s[1 + 1].call = "Handle"
    BY <1>2, <2>1 DEF Settled
  <2>3. \A r : r = <<>> => Len(r) = 0
    OBVIOUS
  <2>4. Len(Tail(s)) # 0 /\ Head(Tail(s)) = s[2]
    BY <1>2, <1>3, <2>2
  <2>5. Tail(s) # <<>>
    BY <2>3, <2>4
  <2>6. QED
    BY <2>2, <2>4, <2>5
<1>8. QED
  BY <1>4, <1>6, <1>7 DEF Ordered

LEMMA Tails ==
  ASSUME NEW T, NEW s \in Seq(T), s # <<>>
  PROVE  /\ Tail(s) \in Seq(T) /\ Head(s) \in T
         /\ Protecting(Tail(s)) => Protecting(s)
         /\ Head(s).call = "Protect" => Protecting(s)
<1>1. Len(s) \in Nat /\ Len(s) # 0 /\ Head(s) = s[1] /\ Tail(s) \in Seq(T)
  OBVIOUS
<1>2. Len(Tail(s)) = Len(s) - 1 /\ \A i \in 1 .. Len(Tail(s)) : Tail(s)[i] = s[i + 1]
  BY <1>1
<1>3. QED
  BY <1>1, <1>2 DEF Protecting

LEMMA ConsTop ==
  ASSUME NEW T, NEW s \in Seq(T), NEW a \in T
  PROVE  LET r == <<a>> \o s
         IN  /\ r \in Seq(T) /\ r # <<>> /\ Head(r) = a /\ Tail(r) = s
             /\ Protecting(r) <=> a.call = "Protect" \/ Protecting(s)
<1> DEFINE r == <<a>> \o s
<1>1. r \in Seq(T) /\ Len(r) = Len(s) + 1 /\ r[1] = a /\ r # <<>> /\ Head(r) = a
  OBVIOUS
<1>2. \A i \in 1 .. Len(s) : r[i + 1] = s[i]
  OBVIOUS
<1>3. Tail(r) = s
  OBVIOUS
<1>4. \A i \in 1 .. Len(r) : i = 1 \/ (i - 1 \in 1 .. Len(s) /\ r[i] = s[i - 1])
  OBVIOUS
<1>5. Protecting(r) <=> a.call = "Protect" \/ Protecting(s)
  <2> HIDE DEF r
  <2>1. ASSUME NEW i \in 1 .. Len(s), s[i].call = "Protect" PROVE Protecting(r)
    BY <1>1, <1>2, <2>1 DEF Protecting
  <2>2. a.call = "Protect" => Protecting(r)
    BY <1>1 DEF Protecting
  <2>3. Protecting(r) => a.call = "Protect" \/ Protecting(s)
    BY <1>1, <1>4 DEF Protecting
  <2>4. QED
    BY <2>1, <2>2, <2>3 DEF Protecting
<1>6. QED
  BY <1>1, <1>3, <1>5

LEMMA SettledCons ==
  ASSUME NEW T, NEW s \in Seq(T), NEW a \in T, Settled(s), a.step \notin Passing,
         a.call = "Unprotect" => s # <<>> /\ Head(s).call = "Handle"
  PROVE  Settled(<<a>> \o s)
<1> DEFINE r == <<a>> \o s
<1>1. r \in Seq(T) /\ Len(r) = Len(s) + 1 /\ r[1] = a
  OBVIOUS
<1>2. \A i \in 1 .. Len(s) : r[i + 1] = s[i]
  OBVIOUS
<1>3. Len(s) \in Nat /\ (s # <<>> => Len(s) # 0 /\ Head(s) = s[1])
  OBVIOUS
<1>4. ASSUME NEW i \in 1 .. Len(r)
      PROVE  /\ r[i].step \notin Passing
             /\ r[i].call = "Unprotect" => i < Len(r) /\ r[i + 1].call = "Handle"
  <2> HIDE DEF r
  <2>1. CASE i = 1
    BY <1>1, <1>2, <1>3, <2>1
  <2>2. CASE i # 1
    <3>1. i - 1 \in 1 .. Len(s) /\ r[i] = s[i - 1]
      BY <1>1, <1>2, <1>3, <2>2
    <3>2. ASSUME s[i - 1].call = "Unprotect"
          PROVE  i < Len(r) /\ r[i + 1].call = "Handle"
      <4>1. i - 1 < Len(s) /\ s[(i - 1) + 1].call = "Handle"
        BY <3>1, <3>2 DEF Settled
      <4>2. QED
        BY <1>1, <1>2, <1>3, <3>1, <4>1
    <3>3. QED
      BY <3>1, <3>2 DEF Settled
  <2>3. QED
    BY <2>1, <2>2
<1>5. QED
  BY <1>4 DEF Settled

\* What an exception leaves of an ordered stack is settled.
LEMMA SettledUnwound ==
  ASSUME NEW D, NEW s \in Stacks(D), Ordered(s)
  PROVE  Settled(Unwound(s)) /\ (Protecting(Unwound(s)) => Protecting(s))
<1> DEFINE u == Unwound(s)
<1>1. s \in Seq(Calls(D)) /\ Len(s) \in Nat
  BY DEF Stacks
<1>2. u = <<>> \/ \E k \in 1 .. Len(s) : u = SubSeq(s, k + 1, Len(s))
  BY UnwoundIsSuffix
<1>3. CASE u = <<>>
  BY <1>3 DEF Settled, Protecting
<1>4. ASSUME NEW k \in 1 .. Len(s), u = SubSeq(s, k + 1, Len(s))
      PROVE  Settled(u) /\ (Protecting(u) => Protecting(s))
  <2> DEFINE r == Tail(s)
  <2> HIDE DEF u
  <2>1. s # <<>> /\ Len(s) # 0 /\ r \in Seq(Calls(D)) /\ Len(r) = Len(s) - 1
    BY <1>1
  <2>2. \A i \in 1 .. Len(r) : r[i] = s[i + 1]
    BY <1>1, <2>1
  <2>3. Len(u) = Len(s) - k /\ \A i \in 1 .. Len(u) : u[i] = s[k + i]
    BY <1>1, <1>4
  <2>4. Settled(r)
    BY <2>1 DEF Ordered
  <2>5. \A i \in 1 .. Len(u) : (k - 1) + i \in 1 .. Len(r) /\ u[i] = r[(k - 1) + i]
    <3> HIDE DEF r
    <3>1. ASSUME NEW i \in 1 .. Len(u)
          PROVE  (k - 1) + i \in 1 .. Len(r) /\ u[i] = r[(k - 1) + i]
      <4>1. (k - 1) + i \in 1 .. Len(r) /\ ((k - 1) + i) + 1 = k + i
        BY <1>1, <2>1, <2>3
      <4>2. r[(k - 1) + i] = s[k + i]
        BY <2>2, <4>1
      <4>3. QED
        BY <2>3, <4>1, <4>2
    <3>2. QED
      BY <3>1
  <2>6. ASSUME NEW i \in 1 .. Len(u)
        PROVE  /\ u[i].step \notin Passing
               /\ u[i].call = "Unprotect" => i < Len(u) /\ u[i + 1].call = "Handle"
    <3> HIDE DEF r
    <3>1. ASSUME u[i].call = "Unprotect"
          PROVE  i < Len(u) /\ u[i + 1].call = "Handle"
      <4>1. (k - 1) + i < Len(r) /\ r[((k - 1) + i) + 1].call = "Handle"
        BY <2>4, <2>5, <3>1 DEF Settled
      <4>2. i + 1 \in 1 .. Len(u)
        BY <1>1, <2>1, <2>3, <4>1
      <4>3. u[i + 1] = r[(k - 1) + (i + 1)]
        BY <2>5, <4>2
      <4>4. i < Len(u) /\ (k - 1) + (i + 1) = ((k - 1) + i) + 1
        BY <1>1, <2>1, <2>3, <4>1
      <4>5. QED
        BY <4>1, <4>3, <4>4
    <3>2. QED
      BY <2>4, <2>5, <3>1 DEF Settled
  <2>7. Protecting(u) => Protecting(s)
    BY <1>1, <2>3 DEF Protecting
  <2>8. QED
    BY <2>6, <2>7 DEF Settled
<1>5. QED
  BY <1>2, <1>3, <1>4

LEMMA SettledDisturbed ==
  ASSUME NEW D, NEW s \in Stacks(D), Settled(s)
  PROVE  /\ Settled(Disturbed(s))
         /\ Protecting(Disturbed(s)) => Protecting(s)
<1> DEFINE r == Disturbed(s)
<1>1. s \in Seq(Calls(D)) /\ Len(s) \in Nat /\ DOMAIN s = 1 .. Len(s)
  BY DEF Stacks
<1>2. r \in Seq(Calls(D))
  BY DisturbedStack DEF Stacks
<1>3. Len(r) = Len(s)
  <2>1. DOMAIN r = 1 .. Len(s)
    BY <1>1 DEF Disturbed
  <2>2. QED
    <3> HIDE DEF r
    <3>1. QED
      BY <1>1, <1>2, <2>1
<1>4. ASSUME NEW i \in 1 .. Len(s)
      PROVE  r[i].step = s[i].step /\ r[i].call = s[i].call
  <2>1. s[i] \in Calls(D)
    BY <1>1
  <2>2. CASE s[i].call = "Protect"
    <3>1. s[i] \in Protects
      BY <2>1, <2>2, Apart
    <3>2. r[i] = [s[i] EXCEPT !.disturbed = TRUE]
      BY <1>1, <2>2 DEF Disturbed
    <3>3. QED
      BY <3>1, <3>2 DEF Protects
  <2>3. CASE s[i].call # "Protect"
    BY <1>1, <2>3 DEF Disturbed
  <2>4. QED
    BY <2>2, <2>3
<1>5. Settled(r) /\ (Protecting(r) => Protecting(s))
  <2> HIDE DEF r
  <2>1. Protecting(r) => Protecting(s)
    BY <1>3, <1>4 DEF Protecting
  <2>2. ASSUME NEW i \in 1 .. Len(r)
        PROVE  /\ r[i].step \notin Passing
               /\ r[i].call = "Unprotect" => i < Len(r) /\ r[i + 1].call = "Handle"
    <3>1. i \in 1 .. Len(s) /\ r[i].step = s[i].step /\ r[i].call = s[i].call
      BY <1>3, <1>4
    <3>2. ASSUME s[i].call = "Unprotect"
          PROVE  i < Len(r) /\ r[i + 1].call = "Handle"
      <4>1. i < Len(s) /\ s[i + 1].call = "Handle"
        BY <3>1, <3>2 DEF Settled
      <4>2. i + 1 \in 1 .. Len(s)
        BY <1>1, <3>1, <4>1
      <4>3. QED
        BY <1>3, <1>4, <4>1, <4>2
    <3>3. QED
      BY <3>1, <3>2 DEF Settled
  <2>3. QED
    BY <2>1, <2>2 DEF Settled
<1>6. QED
  BY <1>5

LEMMA TopSettled ==
  ASSUME NEW T, NEW s \in Seq(T), Ordered(s), s # <<>>, Head(s).step \notin Passing
  PROVE  Settled(s)
<1>1. Tail(s) \in Seq(T) /\ Head(s) \in T /\ s = <<Head(s)>> \o Tail(s)
  OBVIOUS
<1>2. Settled(<<Head(s)>> \o Tail(s))
  BY <1>1, SettledCons DEF Ordered
<1>3. QED
  BY <1>1, <1>2

-----------------------------------------------------------------------------
(* What a step does to one stack *)

\* A stack that has nothing in its hands and no new Protect beside another's
Tame(t, r) ==
  /\ Ordered(r) /\ ~Pends(r) /\ ~Holds(r)
  /\ Protecting(r) => Protecting(stack[t]) \/ \A u \in Tasks \ {t} : ~Protecting(stack[u])

Becomes(t, r) == stack' = [stack EXCEPT ![t] = r]

LEMMA StackTyped ==
  ASSUME NodeIInv, UniqueIInv, NEW t \in Tasks
  PROVE  /\ stack[t] \in Stacks(alive) /\ stack[t] \in Seq(Calls(alive))
         /\ Ordered(stack[t])
BY DEF NodeIInv, UniqueIInv, Stacks

LEMMA SettledTame ==
  ASSUME NEW t \in Tasks, NEW r \in Seq(Calls(alive)), Settled(r),
         Protecting(r) => Protecting(stack[t])
  PROVE  Tame(t, r)
BY SettledStack DEF Tame

LEMMA LeaveTame ==
  ASSUME NodeIInv, UniqueIInv, NEW t \in Tasks, ~Idle(t), Leave(t)
  PROVE  \E r : Becomes(t, r) /\ Tame(t, r)
<1> DEFINE r == Tail(stack[t])
<1>1. stack[t] \in Seq(Calls(alive)) /\ stack[t] # <<>> /\ Ordered(stack[t])
  BY StackTyped DEF Idle
<1>2. r \in Seq(Calls(alive)) /\ (Protecting(r) => Protecting(stack[t]))
  BY <1>1, Tails
<1>3. Settled(r)
  BY <1>1 DEF Ordered
<1>4. Becomes(t, r)
  BY DEF Leave, Becomes
<1>5. QED
  BY <1>2, <1>3, <1>4, SettledTame

\* The innermost call goes on at x, with or without a notification on top.
LEMMA SettledGoesOn ==
  ASSUME NodeIInv, UniqueIInv, NEW t \in Tasks, ~Idle(t), NEW x \in Steps \ Passing
  PROVE  LET a == [Head(stack[t]) EXCEPT !.step = x]
             r == <<a>> \o Tail(stack[t])
         IN  /\ r \in Seq(Calls(alive)) /\ Settled(r)
             /\ Protecting(r) => Protecting(stack[t])
<1> DEFINE a == [Head(stack[t]) EXCEPT !.step = x]
           r == <<a>> \o Tail(stack[t])
<1>1. stack[t] \in Seq(Calls(alive)) /\ stack[t] # <<>> /\ Ordered(stack[t])
  BY StackTyped DEF Idle
<1>2. /\ Tail(stack[t]) \in Seq(Calls(alive)) /\ Head(stack[t]) \in Calls(alive)
      /\ Protecting(Tail(stack[t])) => Protecting(stack[t])
      /\ Head(stack[t]).call = "Protect" => Protecting(stack[t])
  BY <1>1, Tails
<1>3. a \in Calls(alive) /\ a.call = Head(stack[t]).call
  BY <1>2, Stepped
<1>4. a.step = x
  <2>1. ASSUME NEW b \in Calls(alive) PROVE [b EXCEPT !.step = x].step = x
    BY <2>1 DEF Calls, Notices, SetConfigs, Inner, Protects, Unprotects, Outer, Sends, Handles
  <2>2. QED
    BY <1>2, <2>1
<1> HIDE DEF a
<1>5. r \in Seq(Calls(alive)) /\ (Protecting(r) <=> a.call = "Protect" \/ Protecting(Tail(stack[t])))
  BY <1>2, <1>3, ConsTop
<1>6. Settled(r)
  BY <1>1, <1>2, <1>3, <1>4, SettledCons DEF Ordered
<1>7. QED
  BY <1>2, <1>3, <1>5, <1>6 DEF a

LEMMA GotoTame ==
  ASSUME NodeIInv, UniqueIInv, NEW t \in Tasks, ~Idle(t), NEW x \in Steps \ Passing, Goto(t, x)
  PROVE  \E r : Becomes(t, r) /\ Tame(t, r)
<1> DEFINE r == <<[Head(stack[t]) EXCEPT !.step = x]>> \o Tail(stack[t])
<1>1. r \in Seq(Calls(alive)) /\ Settled(r) /\ (Protecting(r) => Protecting(stack[t]))
  BY SettledGoesOn
<1>2. Becomes(t, r)
  BY DEF Goto, Becomes
<1>3. QED
  BY <1>1, <1>2, SettledTame

LEMMA NoticeTop ==
  ASSUME NEW s \in Seq(Calls(alive)), Settled(s)
  PROVE  LET r == <<Notice>> \o s
         IN  r \in Seq(Calls(alive)) /\ Settled(r) /\ (Protecting(r) => Protecting(s))
<1>1. Notice \in Calls(alive) /\ Notice.call = "Notice" /\ Notice.step \notin Passing
  BY NoticeIsCall DEF Notice, Passing
<1>2. QED
  BY <1>1, ConsTop, SettledCons

LEMMA NotifyTame ==
  ASSUME NodeIInv, UniqueIInv, NEW t \in Tasks, ~Idle(t), NEW x \in Steps \ Passing,
         NotifyThen(t, x)
  PROVE  \E r : Becomes(t, r) /\ Tame(t, r)
<1> DEFINE a == [Head(stack[t]) EXCEPT !.step = x]
           m == <<a>> \o Tail(stack[t])
           r == <<Notice>> \o m
<1>1. m \in Seq(Calls(alive)) /\ Settled(m) /\ (Protecting(m) => Protecting(stack[t]))
  BY SettledGoesOn
<1>2. r \in Seq(Calls(alive)) /\ Settled(r) /\ (Protecting(r) => Protecting(m))
  <2> HIDE DEF m
  <2>1. QED
    BY <1>1, NoticeTop
<1>3. Becomes(t, r)
  <2>1. stack[t] \in Seq(Calls(alive)) /\ stack[t] # <<>>
    BY StackTyped DEF Idle
  <2>2. Tail(stack[t]) \in Seq(Calls(alive)) /\ Head(stack[t]) \in Calls(alive)
    BY <2>1, Tails
  <2>3. a \in Calls(alive) /\ Notice \in Calls(alive)
    BY <2>2, Stepped, NoticeIsCall
  <2>4. <<Notice, a>> \o Tail(stack[t]) = r
    <3> DEFINE q == Tail(stack[t])
    <3> HIDE DEF a, q
    <3>1. q \in Seq(Calls(alive))
      BY <2>2 DEF q
    <3>2. <<Notice, a>> \o q = <<Notice>> \o (<<a>> \o q)
      BY <2>3, <3>1, Two
    <3>3. QED
      BY <3>2 DEF q
  <2>5. stack' = [stack EXCEPT ![t] = <<Notice, a>> \o Tail(stack[t])]
    BY DEF NotifyThen
  <2> HIDE DEF a, r
  <2>6. QED
    BY <2>4, <2>5 DEF Becomes
<1>4. QED
  <2> HIDE DEF r, m
  <2>1. QED
    BY <1>1, <1>2, <1>3, SettledTame

\* A call of the security object returns to its caller.
LEMMA Returning ==
  ASSUME NodeIInv, UniqueIInv, NEW t \in Tasks, ~Idle(t),
         Top(t).call \in {"Protect", "Unprotect"}, NEW v \in Outcomes, Return(t, v)
  PROVE  \E r : /\ Becomes(t, r)
                /\ r # <<>> /\ Ordered(r) /\ ~Pends(r)
                /\ Protecting(r) => Protecting(stack[t])
                /\ Head(r).outcome = v
                /\ Head(r).call = Head(Tail(stack[t])).call
<1> DEFINE below == Tail(stack[t])
           a     == [Head(below) EXCEPT !.step = "returned", !.outcome = v]
           r     == <<a>> \o Tail(below)
<1>1. stack[t] \in Seq(Calls(alive)) /\ stack[t] # <<>> /\ Ordered(stack[t])
  BY StackTyped DEF Idle
<1>2. /\ below \in Seq(Calls(alive)) /\ Head(stack[t]) \in Calls(alive)
      /\ Protecting(below) => Protecting(stack[t])
  BY <1>1, Tails
<1>3. below # <<>> /\ Head(below) \in Outer(alive)
  <2>1. Head(stack[t]) \in Inner
    BY <1>2, Apart DEF Top
  <2>2. QED
    BY <1>1, <2>1, StackTyped, Rest
<1>4. /\ Tail(below) \in Seq(Calls(alive))
      /\ Protecting(Tail(below)) => Protecting(below)
  <2> HIDE DEF below
  <2>1. QED
    BY <1>2, <1>3, Tails
<1>5. /\ a \in Calls(alive) /\ a.call = Head(below).call /\ a.outcome = v
      /\ a.call \in {"Send", "Handle"}
  <2>1. ASSUME NEW b \in Outer(alive)
        PROVE  LET c == [b EXCEPT !.step = "returned", !.outcome = v]
               IN  /\ c \in Calls(alive) /\ c.call = b.call /\ c.outcome = v
                   /\ c.call \in {"Send", "Handle"}
    <3>1. CASE b \in Sends(alive)
      BY <3>1 DEF Calls, Outer, Sends, Steps
    <3>2. CASE b \in Handles(alive)
      BY <3>2 DEF Calls, Outer, Handles, Steps
    <3>3. QED
      BY <3>1, <3>2 DEF Outer
  <2>2. QED
    BY <1>3, <2>1
<1>6. Ordered(below) /\ Settled(Tail(below))
  <2>1. Settled(below)
    BY <1>1 DEF Ordered
  <2> HIDE DEF below
  <2>2. Ordered(below)
    BY <1>2, <2>1, SettledStack
  <2>3. QED
    BY <1>3, <2>2 DEF Ordered
<1>7. /\ r # <<>> /\ Head(r) = a /\ Tail(r) = Tail(below)
      /\ Protecting(r) <=> a.call = "Protect" \/ Protecting(Tail(below))
  <2> HIDE DEF a, below
  <2>1. QED
    BY <1>4, <1>5, ConsTop
<1>8. Becomes(t, r)
  BY DEF Return, Becomes
<1>9. QED
  <2> HIDE DEF r, a
  <2>1. Ordered(r) /\ ~Pends(r)
    BY <1>5, <1>6, <1>7 DEF Ordered, Pends
  <2>2. Protecting(r) => Protecting(stack[t])
    BY <1>2, <1>4, <1>5, <1>7
  <2>3. QED
    BY <1>5, <1>7, <1>8, <2>1, <2>2

LEMMA ReturnRefusedTame ==
  ASSUME NodeIInv, UniqueIInv, NEW t \in Tasks, NEW call \in {"Protect", "Unprotect"},
         ReturnRefused(t, call)
  PROVE  \E r : Becomes(t, r) /\ Tame(t, r)
<1>1. ~Idle(t) /\ Top(t).call = call /\ Return(t, Refused)
  BY TopTyped DEF ReturnRefused, NodeIInv
<1>2. Refused \in Outcomes /\ ~Refused.ok
  BY DEF Outcomes, Refused
<1>3. PICK r : /\ Becomes(t, r)
               /\ r # <<>> /\ Ordered(r) /\ ~Pends(r)
               /\ Protecting(r) => Protecting(stack[t])
               /\ Head(r).outcome = Refused
  BY <1>1, <1>2, Returning
<1>4. QED
  BY <1>2, <1>3 DEF Tame, Holds

LEMMA PassTame ==
  ASSUME NodeIInv, UniqueIInv, NEW t \in Tasks, NEW call \in {"Protect", "Unprotect"},
         PassThrough(t, call)
  PROVE  \E r : Becomes(t, r) /\ Tame(t, r)
<1>1. ~Idle(t) /\ Top(t).call = call /\ Return(t, Unprotected)
  BY TopTyped DEF PassThrough, NodeIInv
<1>2. Unprotected \in Outcomes /\ Unprotected.frame = Plaintext
  BY PlainOutcome
<1>3. PICK r : /\ Becomes(t, r)
               /\ r # <<>> /\ Ordered(r) /\ ~Pends(r)
               /\ Protecting(r) => Protecting(stack[t])
               /\ Head(r).outcome = Unprotected
  BY <1>1, <1>2, Returning
<1>4. QED
  BY <1>2, <1>3 DEF Tame, Holds, Held

LEMMA ThrowTame ==
  ASSUME NodeIInv, UniqueIInv, NEW t \in Tasks, Throw(t)
  PROVE  \E r : Becomes(t, r) /\ Tame(t, r)
<1>1. stack[t] \in Stacks(alive) /\ Ordered(stack[t])
  BY StackTyped
<1>2. Unwound(stack[t]) \in Seq(Calls(alive))
  BY <1>1, Thrown DEF Stacks
<1>3. Settled(Unwound(stack[t])) /\ (Protecting(Unwound(stack[t])) => Protecting(stack[t]))
  BY <1>1, SettledUnwound
<1>4. Becomes(t, Unwound(stack[t]))
  BY DEF Throw, Becomes
<1>5. QED
  BY <1>2, <1>3, <1>4, SettledTame

-----------------------------------------------------------------------------
(* What a step does to the object and the carriers *)

LEMMA SealedTyped ==
  ASSUME NodeIInv
  PROVE  Sealed \subseteq Envelopes
<1>1. ASSUME NEW t \in Tasks, Holds(stack[t])
      PROVE  Held(stack[t]) \in Envelopes
  <2>1. stack[t] \in Stacks(alive) /\ stack[t] # <<>>
    BY <1>1 DEF NodeIInv, Holds
  <2>2. Head(stack[t]) \in Sends(alive)
    BY <1>1, <2>1, Rest, Apart DEF Holds
  <2>3. ASSUME NEW o \in Outcomes, o.ok, o.frame # Plaintext PROVE o.frame \in Envelopes
    <3>1. o # Refused
      BY <2>3 DEF Refused
    <3>2. QED
      BY <2>3, <3>1 DEF Outcomes, Frames
  <2>4. QED
    BY <1>1, <2>2, <2>3 DEF Sends, Held, Holds
<1>2. QED
  BY <1>1 DEF Sealed, NodeIInv

\* The other tasks keep their stacks.
LEMMA Others ==
  ASSUME NodeIInv, NEW t \in Tasks, NEW r, Becomes(t, r)
  PROVE  stack'[t] = r /\ \A u \in Tasks \ {t} : stack'[u] = stack[u]
BY DEF NodeIInv, Becomes

\* No new envelope comes from a step that leaves nothing in the task's hands.
LEMMA NothingSealed ==
  ASSUME NodeIInv, NEW t \in Tasks, NEW r, Becomes(t, r), ~Holds(r),
         BagToSet(air') \subseteq Sealed
  PROVE  Sealed' \subseteq Sealed
<1>1. stack'[t] = r /\ \A u \in Tasks \ {t} : stack'[u] = stack[u]
  BY Others
<1>2. ASSUME NEW u \in Tasks, Holds(stack'[u])
      PROVE  u # t /\ Holds(stack[u]) /\ Held(stack'[u]) = Held(stack[u])
  BY <1>1, <1>2
<1>3. \A u \in Tasks : Holds(stack'[u]) => Held(stack'[u]) \in Sealed
  BY <1>2 DEF Sealed
<1>4. Sealed' = BagToSet(air') \cup {Held(stack'[u]) : u \in {v \in Tasks : Holds(stack'[v])}}
  BY DEF Sealed
<1>5. QED
  BY <1>3, <1>4

\* The parts of the invariant about stacks alone
LEMMA StacksStep ==
  ASSUME NodeIInv, UniqueIInv, NEW t \in Tasks, NEW r, Becomes(t, r), Ordered(r),
         Protecting(r) => Protecting(stack[t]) \/ \A u \in Tasks \ {t} : ~Protecting(stack[u])
  PROVE  /\ \A u \in Tasks : Ordered(stack'[u])
         /\ \A u, v \in Tasks : u # v /\ Protecting(stack'[u]) => ~Protecting(stack'[v])
<1>1. stack'[t] = r /\ \A u \in Tasks \ {t} : stack'[u] = stack[u]
  BY Others
<1>2. /\ \A u \in Tasks : Ordered(stack[u])
      /\ \A u, v \in Tasks : u # v /\ Protecting(stack[u]) => ~Protecting(stack[v])
  BY DEF UniqueIInv
<1>3. QED
  BY <1>1, <1>2

\* The parts about what the tasks hold
LEMMA HeldStep ==
  ASSUME NodeIInv, UniqueIInv, NEW t \in Tasks, NEW r, Becomes(t, r), ~Holds(r)
  PROVE  /\ \A u \in Tasks : Holds(stack'[u]) => \A f \in BagToSet(air) : ~Clash(Held(stack'[u]), f)
         /\ \A u, v \in Tasks : u # v /\ Holds(stack'[u]) /\ Holds(stack'[v])
                                 => ~Clash(Held(stack'[u]), Held(stack'[v]))
<1>1. stack'[t] = r /\ \A u \in Tasks \ {t} : stack'[u] = stack[u]
  BY Others
<1>2. ASSUME NEW u \in Tasks, Holds(stack'[u])
      PROVE  u # t /\ Holds(stack[u]) /\ Held(stack'[u]) = Held(stack[u])
  BY <1>1, <1>2
<1>3. QED
  BY <1>2 DEF UniqueIInv

\* A task that is about to seal is inside Protect.
LEMMA PendingProtects ==
  ASSUME NodeIInv, UniqueIInv, NEW t \in Tasks, Pends(stack[t])
  PROVE  Protecting(stack[t])
BY StackTyped, Tails DEF Pends

\* A step that leaves the object and the carriers alone
LEMMA TameStep ==
  ASSUME NodeIInv, UniqueIInv, NEW t \in Tasks, NEW r, Becomes(t, r), Tame(t, r),
         UNCHANGED <<used, sessionID, nextSequence, air>>
  PROVE  UniqueIInv'
<1>1. stack'[t] = r /\ \A u \in Tasks \ {t} : stack'[u] = stack[u]
  BY Others
<1>2. Sealed' \subseteq Sealed
  BY NothingSealed DEF Tame, Sealed
<1>3. /\ \A u \in Tasks : Ordered(stack'[u])
      /\ \A u, v \in Tasks : u # v /\ Protecting(stack'[u]) => ~Protecting(stack'[v])
  BY StacksStep DEF Tame
<1>4. /\ \A u \in Tasks : Holds(stack'[u]) => \A f \in BagToSet(air) : ~Clash(Held(stack'[u]), f)
      /\ \A u, v \in Tasks : u # v /\ Holds(stack'[u]) /\ Holds(stack'[v])
                              => ~Clash(Held(stack'[u]), Held(stack'[v]))
  BY HeldStep DEF Tame
<1>5. \A f \in Sealed' : Claimed(f)'
  BY <1>2 DEF UniqueIInv, Claimed
<1>6. ASSUME NEW u \in Tasks, Pends(stack'[u])
      PROVE  /\ Head(stack'[u]).sequence < nextSequence
             /\ \A f \in Sealed' : sessionID # 0 /\ f.sessionID = sessionID
                                    => f.sequence # Head(stack'[u]).sequence
  <2>1. stack'[u] = stack[u]
    BY <1>1, <1>6 DEF Tame
  <2>2. QED
    BY <1>2, <1>6, <2>1 DEF UniqueIInv
<1>7. QED
  BY <1>3, <1>4, <1>5, <1>6 DEF UniqueIInv

\* A new session, or none: nothing was sealed in it yet.
LEMMA SessionStep ==
  ASSUME NodeIInv, UniqueIInv, NEW t \in Tasks, NEW r, Becomes(t, r), Tame(t, r),
         \A u \in Tasks \ {t} : ~Protecting(stack[u]),
         sessionID' \notin used, used' = used \cup ({sessionID'} \ {0}), UNCHANGED air
  PROVE  UniqueIInv'
<1>1. stack'[t] = r /\ \A u \in Tasks \ {t} : stack'[u] = stack[u]
  BY Others
<1>2. Sealed' \subseteq Sealed
  BY NothingSealed DEF Tame, Sealed
<1>3. /\ \A u \in Tasks : Ordered(stack'[u])
      /\ \A u, v \in Tasks : u # v /\ Protecting(stack'[u]) => ~Protecting(stack'[v])
  BY StacksStep DEF Tame
<1>4. /\ \A u \in Tasks : Holds(stack'[u]) => \A f \in BagToSet(air) : ~Clash(Held(stack'[u]), f)
      /\ \A u, v \in Tasks : u # v /\ Holds(stack'[u]) /\ Holds(stack'[v])
                              => ~Clash(Held(stack'[u]), Held(stack'[v]))
  BY HeldStep DEF Tame
<1>5. \A f \in Sealed' : Claimed(f)'
  <2>1. \A f \in Sealed' : f.sessionID # 0 => f.sessionID \in used
    BY <1>2 DEF UniqueIInv, Claimed
  <2>2. QED
    BY <2>1 DEF Claimed
<1>6. \A u \in Tasks : ~Pends(stack'[u])
  <2>1. \A u \in Tasks \ {t} : ~Pends(stack[u])
    BY PendingProtects
  <2>2. QED
    BY <1>1, <2>1 DEF Tame
<1>7. 0 \notin used' /\ (sessionID' # 0 => sessionID' \in used')
  BY DEF UniqueIInv
<1>8. QED
  BY <1>3, <1>4, <1>5, <1>6, <1>7 DEF UniqueIInv

\* An envelope that a task holds goes to a carrier.
LEMMA SentStep ==
  ASSUME NodeIInv, UniqueIInv, NEW t \in Tasks, NEW r, Becomes(t, r), Tame(t, r),
         Holds(stack[t]), Taken(Held(stack[t])), UNCHANGED <<used, sessionID, nextSequence>>
  PROVE  UniqueIInv'
<1> DEFINE e == Held(stack[t])
<1> HIDE DEF e
<1>1. stack'[t] = r /\ \A u \in Tasks \ {t} : stack'[u] = stack[u]
  BY Others
<1>2. air' = air (+) SetToBag({e})
  BY DEF Taken, Holds, e
<1>3. /\ BagToSet(air') = BagToSet(air) \cup {e}
      /\ \A f \in BagToSet(air) \ {e} : air'[f] = air[f] + 0
      /\ e \notin BagToSet(air) => air'[e] = 0 + 1
  BY <1>2 DEF BagToSet, SetToBag, (+)
<1>4. e \in Sealed /\ \A f \in BagToSet(air) : ~Clash(e, f)
  BY DEF UniqueIInv, Sealed, e
<1>5. Sealed' \subseteq Sealed
  <2>1. BagToSet(air') \subseteq Sealed
    BY <1>3, <1>4 DEF Sealed
  <2>2. QED
    BY <2>1, NothingSealed DEF Tame
<1>6. /\ \A u \in Tasks : Ordered(stack'[u])
      /\ \A u, v \in Tasks : u # v /\ Protecting(stack'[u]) => ~Protecting(stack'[v])
  BY StacksStep DEF Tame
<1>7. /\ \A u \in Tasks : Holds(stack'[u]) => \A f \in BagToSet(air) : ~Clash(Held(stack'[u]), f)
      /\ \A u, v \in Tasks : u # v /\ Holds(stack'[u]) /\ Holds(stack'[v])
                              => ~Clash(Held(stack'[u]), Held(stack'[v]))
  BY HeldStep DEF Tame
<1>8. \A u \in Tasks : Holds(stack'[u]) => \A f \in BagToSet(air') : ~Clash(Held(stack'[u]), f)
  <2>1. ASSUME NEW u \in Tasks, Holds(stack'[u])
        PROVE  ~Clash(Held(stack'[u]), e)
    <3>1. u # t /\ stack'[u] = stack[u]
      BY <1>1, <2>1 DEF Tame
    <3>2. QED
      BY <2>1, <3>1 DEF UniqueIInv, e
  <2>2. QED
    BY <1>3, <1>7, <2>1
<1>9. \A f \in Sealed' : Claimed(f)'
  BY <1>5 DEF UniqueIInv, Claimed
<1>10. ASSUME NEW u \in Tasks, Pends(stack'[u])
       PROVE  /\ Head(stack'[u]).sequence < nextSequence
              /\ \A f \in Sealed' : sessionID # 0 /\ f.sessionID = sessionID
                                     => f.sequence # Head(stack'[u]).sequence
  <2>1. stack'[u] = stack[u]
    BY <1>1, <1>10 DEF Tame
  <2>2. QED
    BY <1>5, <1>10, <2>1 DEF UniqueIInv
<1>11. ASSUME NEW f \in BagToSet(air'), f.sessionID # 0
       PROVE  air'[f] = 1
  <2>1. CASE f = e
    <3>1. e \notin BagToSet(air)
      BY <1>4, <1>11, <2>1 DEF Clash
    <3>2. QED
      BY <1>3, <2>1, <3>1
  <2>2. CASE f # e
    <3>1. f \in BagToSet(air) \ {e} /\ air[f] = 1
      BY <1>3, <1>11, <2>2 DEF UniqueIInv
    <3>2. QED
      BY <1>3, <3>1
  <2>3. QED
    BY <2>1, <2>2
<1>12. ASSUME NEW f \in BagToSet(air'), NEW g \in BagToSet(air'), Clash(f, g)
       PROVE  f = g
  <2>1. Clash(g, f)
    BY <1>12 DEF Clash
  <2>2. QED
    BY <1>3, <1>4, <1>12, <2>1 DEF UniqueIInv
<1>13. QED
  BY <1>6, <1>7, <1>8, <1>9, <1>10, <1>11, <1>12 DEF UniqueIInv

\* A sequence is taken above all that were sealed in the session.
LEMMA TakeSequenceStep ==
  ASSUME NodeIInv, UniqueIInv, NEW t \in Tasks, TakeSequence(t), UNCHANGED node
  PROVE  UniqueIInv'
<1> DEFINE a == [Head(stack[t]) EXCEPT !.step = "seal", !.sequence = nextSequence]
           r == <<a>> \o Tail(stack[t])
<1>1. /\ stack[t] \in Seq(Calls(alive)) /\ stack[t] # <<>> /\ Ordered(stack[t])
      /\ Head(stack[t]) \in Protects /\ Head(stack[t]).call = "Protect"
  <2>1. At(t, "Protect", "sequence") \/ At(t, "Protect", "session")
    BY DEF TakeSequence, Ensured
  <2>2. stack \in [Tasks -> Stacks(alive)]
    BY DEF NodeIInv
  <2>3. ~Idle(t) /\ Top(t) \in Calls(alive) /\ Top(t).call = "Protect"
    BY <2>1, <2>2, TopTyped
  <2>4. Top(t) \in Protects
    BY <2>3, Apart
  <2>5. QED
    BY <2>3, <2>4, StackTyped DEF Top, Idle
<1>2. /\ Tail(stack[t]) \in Seq(Calls(alive)) /\ Settled(Tail(stack[t]))
      /\ Protecting(stack[t])
  BY <1>1, Tails DEF Ordered
<1>3. /\ a \in Calls(alive) /\ a.call = "Protect" /\ a.step = "seal"
      /\ a.sequence = nextSequence
  <2>1. a \in Protects /\ a.step = "seal" /\ a.sequence = nextSequence
    BY <1>1 DEF Protects, Steps, NodeIInv
  <2>2. QED
    BY <2>1 DEF Protects, Calls, Inner
<1>4. r # <<>> /\ Head(r) = a /\ Tail(r) = Tail(stack[t])
  <2> HIDE DEF a
  <2>1. QED
    BY <1>2, <1>3, ConsTop
<1>5. Becomes(t, r)
  BY DEF TakeSequence, Becomes
<1> HIDE DEF r, a
<1>6. Ordered(r) /\ ~Holds(r)
  BY <1>2, <1>3, <1>4 DEF Ordered, Holds
<1>7. stack'[t] = r /\ \A u \in Tasks \ {t} : stack'[u] = stack[u]
  BY <1>5, Others
<1>8. Sealed' \subseteq Sealed
  BY <1>5, <1>6, NothingSealed DEF Sealed, node
<1>9. /\ \A u \in Tasks : Ordered(stack'[u])
      /\ \A u, v \in Tasks : u # v /\ Protecting(stack'[u]) => ~Protecting(stack'[v])
  BY <1>2, <1>5, <1>6, StacksStep
<1>10. /\ \A u \in Tasks : Holds(stack'[u]) => \A f \in BagToSet(air) : ~Clash(Held(stack'[u]), f)
       /\ \A u, v \in Tasks : u # v /\ Holds(stack'[u]) /\ Holds(stack'[v])
                               => ~Clash(Held(stack'[u]), Held(stack'[v]))
  BY <1>5, <1>6, HeldStep
<1>11. nextSequence \in Nat /\ nextSequence' = nextSequence + 1
       /\ UNCHANGED <<sessionID, used, air>>
  BY Ranges DEF NodeIInv, TakeSequence, node
<1>12. \A f \in Sealed : f.sequence \in Nat
  BY SealedTyped, Ranges DEF Envelopes
<1>13. ASSUME NEW f \in Sealed', f.sessionID # 0
       PROVE  /\ f.sessionID \in used
              /\ f.sessionID = sessionID => f.sequence < nextSequence /\ f.sequence < nextSequence'
  BY <1>8, <1>11, <1>12, <1>13 DEF UniqueIInv, Claimed
<1>14. \A f \in Sealed' : Claimed(f)'
  BY <1>11, <1>13 DEF Claimed
<1>15. ASSUME NEW u \in Tasks, Pends(stack'[u])
       PROVE  /\ Head(stack'[u]).sequence < nextSequence'
              /\ \A f \in Sealed' : sessionID # 0 /\ f.sessionID = sessionID
                                     => f.sequence # Head(stack'[u]).sequence
  <2>1. u = t
    <3>1. \A v \in Tasks \ {t} : ~Protecting(stack[v])
      BY <1>2 DEF UniqueIInv
    <3>2. QED
      BY <1>7, <1>15, <3>1, PendingProtects
  <2>2. Head(stack'[u]).sequence = nextSequence
    BY <1>3, <1>4, <1>7, <2>1
  <2>3. \A f \in Sealed' : sessionID # 0 /\ f.sessionID = sessionID
                              => f.sequence # nextSequence
    BY <1>8, <1>11, <1>12, <1>13
  <2>4. QED
    BY <1>11, <2>2, <2>3
<1>16. QED
  BY <1>9, <1>10, <1>11, <1>14, <1>15 DEF UniqueIInv

\* The envelope gets the sequence that was taken, in the session that is current.
LEMMA SealStep ==
  ASSUME NodeIInv, UniqueIInv, NEW t \in Tasks, Seal(t), UNCHANGED node
  PROVE  UniqueIInv'
<1> DEFINE e == SealedBy(Top(t))
           v == Returned(e, TRUE)
<1>1. /\ stack[t] \in Seq(Calls(alive)) /\ stack[t] # <<>> /\ ~Idle(t)
      /\ Top(t) \in Protects /\ Top(t).call = "Protect" /\ Top(t).step = "seal"
      /\ Pends(stack[t])
  BY StackTyped, TopTyped, Apart DEF Seal, At, Top, Idle, Pends, NodeIInv
<1>2. e \in Envelopes /\ e.sessionID = sessionID /\ e.sequence = Top(t).sequence
  BY <1>1, ConfigTyped DEF SealedBy, Envelopes, Protects, NodeIInv
<1> HIDE DEF e
<1>3. v \in Outcomes /\ v.ok /\ v.frame = e
  BY <1>2 DEF Returned, Outcomes, Frames
<1>4. Return(t, v)
  BY DEF Seal, e
<1> HIDE DEF v
<1>5. PICK r : /\ Becomes(t, r)
               /\ r # <<>> /\ Ordered(r) /\ ~Pends(r)
               /\ Protecting(r) => Protecting(stack[t])
               /\ Head(r).outcome = v
  BY <1>1, <1>3, <1>4, Returning
<1>6. stack'[t] = r /\ \A u \in Tasks \ {t} : stack'[u] = stack[u]
  BY <1>5, Others
<1>7. Holds(r) => Held(r) = e
  BY <1>3, <1>5 DEF Holds, Held
<1>8. UNCHANGED <<sessionID, nextSequence, used, air>>
  BY DEF Seal, security, outbound, node
<1>9. /\ \A u \in Tasks : Ordered(stack'[u])
      /\ \A u, w \in Tasks : u # w /\ Protecting(stack'[u]) => ~Protecting(stack'[w])
  BY <1>5, StacksStep
<1>10. Top(t).sequence < nextSequence
       /\ \A f \in Sealed : sessionID # 0 /\ f.sessionID = sessionID
                              => f.sequence # Top(t).sequence
  BY <1>1 DEF UniqueIInv, Top
<1>11. \A f \in Sealed : ~Clash(e, f)
  BY <1>2, <1>10 DEF Clash
<1>12. ASSUME NEW u \in Tasks \ {t}, Holds(stack'[u])
       PROVE  /\ Holds(stack[u]) /\ Held(stack'[u]) = Held(stack[u])
              /\ Held(stack'[u]) \in Sealed
  BY <1>6, <1>12 DEF Sealed
<1>13. Sealed' \subseteq Sealed \cup {e}
  <2>1. Sealed' = BagToSet(air') \cup {Held(stack'[u]) : u \in {w \in Tasks : Holds(stack'[w])}}
    BY DEF Sealed
  <2>2. BagToSet(air') \subseteq Sealed
    BY <1>8 DEF Sealed
  <2>3. ASSUME NEW u \in Tasks, Holds(stack'[u]) PROVE Held(stack'[u]) \in Sealed \cup {e}
    BY <1>6, <1>7, <1>12, <2>3
  <2>4. QED
    BY <2>1, <2>2, <2>3
<1>14. Claimed(e) /\ \A f \in Sealed : Claimed(f)
  BY <1>2, <1>10 DEF Claimed, UniqueIInv
<1>15. \A f \in Sealed' : Claimed(f)'
  BY <1>8, <1>13, <1>14 DEF Claimed
<1>16. \A u \in Tasks : ~Pends(stack'[u])
  <2>1. \A u \in Tasks \ {t} : ~Protecting(stack[u])
    BY <1>1, PendingProtects DEF UniqueIInv
  <2>2. QED
    BY <1>5, <1>6, <2>1, PendingProtects
<1>17. \A f \in BagToSet(air) : f \in Sealed
  BY DEF Sealed
<1>18. \A u \in Tasks : Holds(stack'[u]) => \A f \in BagToSet(air) : ~Clash(Held(stack'[u]), f)
  <2>1. ASSUME NEW u \in Tasks, Holds(stack'[u]), NEW f \in BagToSet(air)
        PROVE  ~Clash(Held(stack'[u]), f)
    <3>1. CASE u = t
      BY <1>6, <1>7, <1>11, <1>17, <2>1, <3>1
    <3>2. CASE u # t
      BY <1>12, <2>1, <3>2 DEF UniqueIInv
    <3>3. QED
      BY <3>1, <3>2
  <2>2. QED
    BY <2>1
<1>19. ASSUME NEW u \in Tasks, NEW w \in Tasks, u # w, Holds(stack'[u]), Holds(stack'[w])
       PROVE  ~Clash(Held(stack'[u]), Held(stack'[w]))
  <2>1. \A f, g : Clash(f, g) => Clash(g, f)
    BY DEF Clash
  <2>2. CASE u = t
    BY <1>6, <1>7, <1>11, <1>12, <1>19, <2>2
  <2>3. CASE w = t
    BY <1>6, <1>7, <1>11, <1>12, <1>19, <2>1, <2>3
  <2>4. CASE u # t /\ w # t
    BY <1>12, <1>19, <2>4 DEF UniqueIInv
  <2>5. QED
    BY <2>2, <2>3, <2>4
<1>20. QED
  BY <1>8, <1>9, <1>15, <1>16, <1>18, <1>19 DEF UniqueIInv

-----------------------------------------------------------------------------
(* The actions *)

LEMMA PairTop ==
  ASSUME NEW s \in Seq(Calls(alive)), Settled(s), NEW a \in Calls(alive), NEW b \in Calls(alive),
         a.step \notin Passing, b.step \notin Passing, b.call # "Unprotect",
         a.call = "Unprotect" => b.call = "Handle"
  PROVE  LET r == <<a, b>> \o s
         IN  /\ r \in Seq(Calls(alive)) /\ Settled(r)
             /\ Protecting(r) => a.call = "Protect" \/ b.call = "Protect" \/ Protecting(s)
<1> DEFINE m == <<b>> \o s
           r == <<a>> \o m
<1>1. /\ m \in Seq(Calls(alive)) /\ m # <<>> /\ Head(m) = b /\ Settled(m)
      /\ Protecting(m) => b.call = "Protect" \/ Protecting(s)
  BY ConsTop, SettledCons
<1>2. /\ r \in Seq(Calls(alive)) /\ Settled(r)
      /\ Protecting(r) => a.call = "Protect" \/ Protecting(m)
  <2> HIDE DEF m
  <2>1. QED
    BY <1>1, ConsTop, SettledCons
<1>3. <<a, b>> \o s = r
  BY Two
<1> HIDE DEF r, m
<1>4. QED
  BY <1>1, <1>2, <1>3

LEMMA ActingSettled ==
  ASSUME NodeIInv, UniqueIInv, NEW t \in Tasks, Acting(t)
  PROVE  Settled(stack[t])
<1>1. CASE Idle(t)
  BY <1>1 DEF Idle, Settled
<1>2. CASE ~Idle(t)
  <2>1. Top(t).step \in {"observing", "delivering", "reporting"}
    BY <1>2 DEF Acting, Observing, InCallback, At
  <2>2. QED
    BY <1>2, <2>1, StackTyped, TopSettled DEF Idle, Top, Passing
<1>3. QED
  BY <1>1, <1>2

LEMMA AloneProtects ==
  ASSUME NodeIInv, NEW t \in Tasks, Alone(t, "Protect") \/ Alone(t, "SetConfig")
  PROVE  \A u \in Tasks \ {t} : ~Protecting(stack[u])
<1>1. "Protect" \in Excludes("Protect") /\ "Protect" \in Excludes("SetConfig")
  BY DEF Excludes
<1>2. ASSUME NEW u \in Tasks \ {t} PROVE ~Protecting(stack[u])
  <2>1. "Protect" \notin Inside(u)
    BY <1>1 DEF Alone
  <2>2. DOMAIN stack[u] = 1 .. Len(stack[u])
    BY DEF NodeIInv, Stacks
  <2>3. QED
    BY <2>1, <2>2 DEF Inside, Protecting
<1>3. QED
  BY <1>2

LEMMA ActStep ==
  ASSUME NodeIInv, UniqueIInv, NEW t \in Tasks, Act(t)
  PROVE  UniqueIInv'
<1>1. Settled(stack[t]) /\ stack[t] \in Seq(Calls(alive))
  BY ActingSettled, StackTyped DEF Act
<1>2. ASSUME NEW d \in Decorators, Send(t, d)
      PROVE  UniqueIInv'
  <2> DEFINE b == [call |-> "Send", step |-> "protecting", outcome |-> Refused, decorator |-> d]
             r == <<ProtectCall, b>> \o stack[t]
  <2>1. /\ ProtectCall \in Calls(alive) /\ ProtectCall.step \notin Passing
        /\ ProtectCall.call = "Protect"
    BY ConfigTyped, Ranges DEF ProtectCall, Protects, Inner, Calls, Steps, Passing, NodeIInv
  <2>2. b \in Calls(alive) /\ b.step \notin Passing /\ b.call = "Send"
    <3>1. b \in Sends(alive)
      BY <1>2 DEF Send, Sends, Outcomes, Steps
    <3>2. QED
      BY <3>1 DEF Calls, Outer, Passing
  <2>3. r \in Seq(Calls(alive)) /\ Settled(r)
    <3> HIDE DEF b
    <3>1. QED
      BY <1>1, <2>1, <2>2, PairTop
  <2>4. Becomes(t, r)
    BY <1>2 DEF Send, Push, Becomes
  <2>5. Tame(t, r)
    <3> HIDE DEF r
    <3>1. QED
      BY <1>2, <2>3, SettledStack, AloneProtects DEF Tame, Send
  <2>6. QED
    <3> HIDE DEF r
    <3>1. QED
      BY <1>2, <2>4, <2>5, TameStep DEF Send, security, outbound, node
<1>3. ASSUME NEW c \in Configs, SetConfig(t, c), UNCHANGED node
      PROVE  UniqueIInv'
  <2> DEFINE a == [call |-> "SetConfig", step |-> "reset", previous |-> sessionID]
             m == Disturbed(stack[t])
             r == <<Notice, a>> \o m
  <2>1. a \in Calls(alive) /\ a.step \notin Passing /\ a.call = "SetConfig"
    BY DEF SetConfigs, Calls, Steps, Passing, NodeIInv
  <2>2. Notice \in Calls(alive) /\ Notice.step \notin Passing /\ Notice.call = "Notice"
    BY NoticeIsCall DEF Notice, Passing
  <2>3. m \in Seq(Calls(alive)) /\ Settled(m) /\ (Protecting(m) => Protecting(stack[t]))
    BY <1>1, StackTyped, DisturbedStack, SettledDisturbed DEF Stacks
  <2>4. /\ r \in Seq(Calls(alive)) /\ Settled(r)
        /\ Protecting(r) => Protecting(m)
    <3> HIDE DEF a, m
    <3>1. QED
      BY <2>1, <2>2, <2>3, PairTop
  <2>5. Becomes(t, r)
    BY <1>3 DEF SetConfig, Becomes
  <2> HIDE DEF r, m
  <2>6. Tame(t, r)
    BY <2>3, <2>4, SettledTame
  <2>7. sessionID' \notin used /\ used' = used \cup ({sessionID'} \ {0}) /\ UNCHANGED air
    BY <1>3 DEF SetConfig, node
  <2>8. \A u \in Tasks \ {t} : ~Protecting(stack[u])
    BY <1>3, AloneProtects DEF SetConfig
  <2>9. QED
    BY <2>5, <2>6, <2>7, <2>8, SessionStep
<1>4. CASE ResetReplayProtection(t) /\ UNCHANGED node
  <2> DEFINE r == <<Notice>> \o stack[t]
  <2>1. r \in Seq(Calls(alive)) /\ Settled(r) /\ (Protecting(r) => Protecting(stack[t]))
    BY <1>1, NoticeTop
  <2>2. Becomes(t, r)
    BY <1>4 DEF ResetReplayProtection, Push, Becomes
  <2> HIDE DEF r
  <2>3. QED
    BY <1>4, <2>1, <2>2, SettledTame, TameStep DEF ResetReplayProtection, outbound, node
<1>5. QED
  BY <1>2, <1>3, <1>4 DEF Act

LEMMA PassUnique ==
  ASSUME NodeIInv, UniqueIInv, NEW t \in Tasks, NEW call \in {"Protect", "Unprotect"},
         PassThrough(t, call) \/ PassThrows(t, call), UNCHANGED node
  PROVE  UniqueIInv'
<1>1. \E r : Becomes(t, r) /\ Tame(t, r)
  BY PassTame, ThrowTame DEF PassThrows
<1>2. UNCHANGED <<used, sessionID, nextSequence, air>>
  BY DEF PassThrough, PassThrows, security, outbound, node
<1>3. QED
  BY <1>1, <1>2, TameStep

LEMMA ProtectStepUnique ==
  ASSUME NodeIInv, UniqueIInv, NEW t \in Tasks, ProtectStep(t), UNCHANGED node
  PROVE  UniqueIInv'
<1>1. ASSUME NEW id \in SessionIDs, EstablishSession(t, id)
      PROVE  UniqueIInv'
  <2>1. ~Idle(t) /\ Top(t).call = "Protect" /\ NotifyThen(t, "sequence")
    BY <1>1, TopTyped DEF EstablishSession, NodeIInv
  <2>2. PICK r : Becomes(t, r) /\ Tame(t, r)
    BY <2>1, NotifyTame DEF Steps, Passing
  <2>3. Protecting(stack[t])
    BY <2>1, StackTyped, Tails DEF Top, Idle
  <2>4. \A u \in Tasks \ {t} : ~Protecting(stack[u])
    BY <2>3 DEF UniqueIInv
  <2>5. id # 0
    BY SharedAssumption
  <2>6. sessionID' \notin used /\ used' = used \cup ({sessionID'} \ {0}) /\ UNCHANGED air
    BY <1>1, <2>5 DEF EstablishSession, node
  <2>7. QED
    BY <2>2, <2>4, <2>6, SessionStep
<1>2. CASE SessionFails(t) \/ SequenceExhausted(t) \/ SealFails(t)
  <2>1. ~Idle(t) /\ NotifyThen(t, "refused")
    BY <1>2, TopTyped
       DEF SessionFails, SequenceExhausted, SealFails, Fail, Ensured, NodeIInv
  <2>2. PICK r : Becomes(t, r) /\ Tame(t, r)
    BY <2>1, NotifyTame DEF Steps, Passing
  <2>3. QED
    BY <1>2, <2>2, TameStep
       DEF SessionFails, SequenceExhausted, SealFails, security, outbound, node
<1>3. CASE ReturnRefused(t, "Protect")
  <2>1. PICK r : Becomes(t, r) /\ Tame(t, r)
    BY <1>3, ReturnRefusedTame
  <2>2. QED
    BY <1>3, <2>1, TameStep DEF ReturnRefused, security, outbound, node
<1>4. CASE PassThrough(t, "Protect") \/ PassThrows(t, "Protect")
  BY <1>4, PassUnique
<1>5. QED
  BY <1>1, <1>2, <1>3, <1>4, TakeSequenceStep, SealStep DEF ProtectStep

LEMMA UnprotectStepUnique ==
  ASSUME NodeIInv, UniqueIInv, NEW t \in Tasks, UnprotectStep(t), UNCHANGED node
  PROVE  UniqueIInv'
<1>1. UNCHANGED <<used, sessionID, nextSequence, air>>
  BY DEF UnprotectStep, RejectPlaintext, PassThrough, PassThrows, CheckReplay, Open, OpenThrows,
         CommitReplay, CommitThrows, ReturnRefused, security, outbound, node
<1>2. CASE RejectPlaintext(t) \/ CheckReplay(t) \/ Open(t)
  <2>1. ~Idle(t) /\ \/ Goto(t, "open") \/ Goto(t, "commit") \/ NotifyThen(t, "refused")
    BY <1>2, TopTyped DEF RejectPlaintext, CheckReplay, Open, Fail, NodeIInv
  <2>2. \E r : Becomes(t, r) /\ Tame(t, r)
    BY <2>1, GotoTame, NotifyTame DEF Steps, Passing
  <2>3. QED
    BY <1>1, <2>2, TameStep
<1>3. CASE OpenThrows(t) \/ CommitThrows(t)
  BY <1>1, <1>3, ThrowTame, TameStep DEF OpenThrows, CommitThrows
<1>4. CASE CommitReplay(t)
  <2> DEFINE v == Returned(Top(t).frame, Top(t).whole)
  <2>1. ~Idle(t) /\ Top(t) \in Unprotects /\ Top(t).call = "Unprotect"
    BY <1>4, TopTyped, Apart DEF CommitReplay, NodeIInv
  <2>2. v \in Outcomes
    BY <2>1 DEF Returned, Outcomes, Unprotects
  <2>3. Return(t, v)
    BY <1>4 DEF CommitReplay
  <2>4. Head(Tail(stack[t])).call = "Handle"
    BY <2>1, StackTyped DEF Ordered, Top, Idle
  <2> HIDE DEF v
  <2>5. PICK r : /\ Becomes(t, r)
                 /\ r # <<>> /\ Ordered(r) /\ ~Pends(r)
                 /\ Protecting(r) => Protecting(stack[t])
                 /\ Head(r).call = Head(Tail(stack[t])).call
    BY <2>1, <2>2, <2>3, Returning
  <2>6. Tame(t, r)
    BY <2>4, <2>5 DEF Tame, Holds
  <2>7. QED
    BY <1>1, <2>5, <2>6, TameStep
<1>5. CASE ReturnRefused(t, "Unprotect")
  BY <1>1, <1>5, ReturnRefusedTame, TameStep
<1>6. QED
  BY <1>2, <1>3, <1>4, <1>5, PassUnique DEF UnprotectStep

LEMMA WorkStep ==
  ASSUME NodeIInv, UniqueIInv, NEW t \in Tasks, Work(t)
  PROVE  UniqueIInv'
<1>1. CASE SetConfigStep(t) \/ ObserverReturns(t)
  <2>1. ~Idle(t)
    BY <1>1, TopTyped DEF SetConfigStep, TellReset, TellEstablished, SetConfigReturns,
                          ObserverReturns, Observing, NodeIInv
  <2>2. \/ \E x \in Steps \ Passing : Goto(t, x) \/ NotifyThen(t, x)
        \/ Leave(t)
    BY <1>1 DEF SetConfigStep, TellReset, TellEstablished, SetConfigReturns,
                ObserverReturns, Steps, Passing
  <2>3. \E r : Becomes(t, r) /\ Tame(t, r)
    BY <2>1, <2>2, GotoTame, NotifyTame, LeaveTame
  <2>4. UNCHANGED <<used, sessionID, nextSequence, air>>
    BY <1>1 DEF Work, SetConfigStep, TellReset, TellEstablished, SetConfigReturns,
                ObserverReturns, security, outbound, node
  <2>5. QED
    BY <2>3, <2>4, TameStep
<1>2. QED
  BY <1>1, ProtectStepUnique, UnprotectStepUnique DEF Work

\* A frame that arrives leaves nothing in the task's hands.
LEMMA ReceiveTame ==
  ASSUME NodeIInv, UniqueIInv, NEW t \in Tasks, NEW c \in Carriers, NEW f \in Frames,
         NEW whole \in BOOLEAN, NEW below \in Seq(Calls(alive)), Settled(below),
         Protecting(below) => Protecting(stack[t]), Receive(t, c, f, whole, below)
  PROVE  \E r : Becomes(t, r) /\ Tame(t, r)
<1> DEFINE a == UnprotectCall(f, whole)
           b == [call |-> "Handle", step |-> "unprotecting", outcome |-> Refused,
                 decorator |-> receiver[c], policy |-> config.Policy]
           r == <<a, b>> \o below
<1>1. a \in Calls(alive) /\ a.step \notin Passing /\ a.call = "Unprotect"
  BY DEF UnprotectCall, Unprotects, Inner, Calls, Steps, Passing
<1>2. b \in Calls(alive) /\ b.step \notin Passing /\ b.call = "Handle"
  <2>1. receiver[c] \in alive
    BY DEF NodeIInv, Receive
  <2>2. b \in Handles(alive)
    BY <2>1, ConfigTyped DEF Handles, Outcomes, Steps, NodeIInv
  <2>3. QED
    BY <2>2 DEF Calls, Outer, Passing
<1>3. r \in Seq(Calls(alive)) /\ Settled(r) /\ (Protecting(r) => Protecting(below))
  <2> HIDE DEF a, b
  <2>1. QED
    BY <1>1, <1>2, PairTop
<1>4. Becomes(t, r)
  BY DEF Receive, Becomes
<1>5. QED
  <2> HIDE DEF r
  <2>1. QED
    BY <1>3, <1>4, SettledTame

LEMMA TransportStep ==
  ASSUME NodeIInv, UniqueIInv, NEW t \in Tasks, Transport(t)
  PROVE  UniqueIInv'
<1>1. UNCHANGED <<used, sessionID, nextSequence>>
  BY DEF Transport, Dispatch, CallbackReturns, CallbackThrows, SendFails, CarrierAccepts,
         CarrierLoops, SendReturns, security, outbound
<1>2. CASE Dispatch(t)
  <2>1. ~Idle(t) /\ \/ Leave(t) \/ \E x \in {"delivering", "reporting"} : Goto(t, x)
    BY <1>2, TopTyped DEF Dispatch, NodeIInv
  <2>2. \E r : Becomes(t, r) /\ Tame(t, r)
    BY <2>1, LeaveTame, GotoTame DEF Steps, Passing
  <2>3. QED
    BY <1>1, <1>2, <2>2, TameStep DEF Dispatch, node
<1>3. CASE CallbackReturns(t) \/ SendFails(t) \/ SendReturns(t)
  <2>1. ~Idle(t) /\ Leave(t)
    BY <1>3, TopTyped DEF CallbackReturns, InCallback, SendFails, SendReturns, NodeIInv
  <2>2. \E r : Becomes(t, r) /\ Tame(t, r)
    BY <2>1, LeaveTame
  <2>3. QED
    BY <1>1, <1>3, <2>2, TameStep DEF CallbackReturns, SendFails, SendReturns, node
<1>4. CASE CallbackThrows(t)
  BY <1>1, <1>4, ThrowTame, TameStep DEF CallbackThrows, node
<1>5. ASSUME At(t, "Send", "returned"), Top(t).outcome.ok
      PROVE  /\ ~Idle(t) /\ Held(stack[t]) = Top(t).outcome.frame
             /\ Held(stack[t]) = Plaintext \/ Holds(stack[t])
             /\ Held(stack[t]) \in Frames
  <2>1. /\ ~Idle(t) /\ Held(stack[t]) = Top(t).outcome.frame
        /\ Held(stack[t]) = Plaintext \/ Holds(stack[t])
    BY <1>5 DEF At, Idle, Top, Holds, Held
  <2>2. QED
    BY <2>1, SealedTyped DEF Sealed, Frames
<1>6. ASSUME NEW r, Becomes(t, r), Tame(t, r), Taken(Held(stack[t])),
             Held(stack[t]) = Plaintext \/ Holds(stack[t])
      PROVE  UniqueIInv'
  <2>1. CASE Held(stack[t]) = Plaintext
    BY <1>1, <1>6, <2>1, TameStep DEF Taken
  <2>2. CASE Held(stack[t]) # Plaintext
    BY <1>1, <1>6, <2>2, SentStep
  <2>3. QED
    BY <2>1, <2>2
<1>7. CASE CarrierAccepts(t)
  <2>1. ~Idle(t) /\ Leave(t)
    BY <1>5, <1>7 DEF CarrierAccepts
  <2>2. PICK r : Becomes(t, r) /\ Tame(t, r)
    BY <2>1, LeaveTame
  <2>3. QED
    BY <1>5, <1>6, <1>7, <2>2 DEF CarrierAccepts
<1>8. CASE CarrierLoops(t)
  <2> DEFINE f     == Top(t).outcome.frame
             below == <<[Head(stack[t]) EXCEPT !.step = "sent"]>> \o Tail(stack[t])
             c     == CarrierOf[Top(t).decorator]
  <2>1. /\ ~Idle(t) /\ f \in Frames /\ Receive(t, c, f, TRUE, below)
    BY <1>5, <1>8 DEF CarrierLoops, Top
  <2>2. /\ below \in Seq(Calls(alive)) /\ Settled(below)
        /\ Protecting(below) => Protecting(stack[t])
    BY <2>1, SettledGoesOn DEF Steps, Passing
  <2>3. c \in Carriers
    <3>1. Top(t) \in Sends(alive)
      BY <1>8, TopTyped, Apart DEF CarrierLoops, NodeIInv
    <3>2. QED
      BY <3>1, NodeAssumption DEF Sends, NodeIInv
  <2>4. PICK r : Becomes(t, r) /\ Tame(t, r)
    <3> HIDE DEF f, below, c
    <3>1. QED
      BY <2>1, <2>2, <2>3, ReceiveTame
  <2>5. QED
    BY <1>5, <1>6, <1>8, <2>4 DEF CarrierLoops
<1>9. QED
  BY <1>2, <1>3, <1>4, <1>7, <1>8 DEF Transport

\* A step that changes neither stacks, object nor carriers
LEMMA StutterStep ==
  ASSUME UniqueIInv, UNCHANGED <<stack, used, sessionID, nextSequence, air>>
  PROVE  UniqueIInv'
BY DEF UniqueIInv, Sealed, Claimed

THEOREM UniqueInvariant == Spec => []UniqueIInv
<1>1. Init => UniqueIInv
  <2>1. SUFFICES ASSUME Init PROVE UniqueIInv
    OBVIOUS
  <2>2. \A t \in Tasks : Ordered(stack[t]) /\ ~Holds(stack[t]) /\ ~Pends(stack[t])
                           /\ ~Protecting(stack[t])
    BY <2>1 DEF Init, Ordered, Holds, Pends, Protecting
  <2>3. BagToSet(air) = {}
    BY <2>1 DEF Init, EmptyBag, SetToBag, BagToSet
  <2>4. Sealed = {}
    BY <2>2, <2>3 DEF Sealed
  <2>5. 0 \notin used /\ (sessionID # 0 => sessionID \in used)
    BY <2>1 DEF Init
  <2>6. QED
    BY <2>2, <2>3, <2>4, <2>5 DEF UniqueIInv
<1>2. NodeIInv /\ UniqueIInv /\ [Next]_vars => UniqueIInv'
  <2> SUFFICES ASSUME NodeIInv, UniqueIInv, [Next]_vars PROVE UniqueIInv'
    OBVIOUS
  <2>1. ASSUME NEW t \in Tasks, Act(t) \/ Work(t) \/ Transport(t) PROVE UniqueIInv'
    BY <2>1, ActStep, WorkStep, TransportStep
  <2>2. ASSUME NEW t \in Applications, Manage(t) PROVE UniqueIInv'
    BY <2>2, StutterStep
       DEF Manage, Construct, Destroy, SetCallback, security, outbound
  <2>3. ASSUME NEW t \in Radios, NEW c \in Carriers, NEW f \in BagToSet(air) \cup {Plaintext},
               NEW whole \in BOOLEAN, Arrive(t, c, f, whole)
        PROVE  UniqueIInv'
    <3>1. t \in Tasks /\ f \in Frames
      BY NodeAssumption DEF NodeIInv, Frames
    <3>2. <<>> \in Seq(Calls(alive)) /\ Settled(<<>>) /\ ~Protecting(<<>>)
      BY DEF Settled, Protecting
    <3>3. PICK r : Becomes(t, r) /\ Tame(t, r)
      BY <2>3, <3>1, <3>2, ReceiveTame DEF Arrive
    <3>4. QED
      BY <2>3, <3>1, <3>3, TameStep DEF Arrive, security, outbound, node
  <2>4. CASE UNCHANGED vars
    BY <2>4, StutterStep DEF vars, security, outbound, node
  <2>5. QED
    BY <2>1, <2>2, <2>3, <2>4 DEF Next
<1>3. QED
  BY <1>1, <1>2, NodeInvariant, PTL DEF Spec

\* Two envelopes that a receiver could accept never share session and sequence,
\* however calls, observers and callbacks are nested and whatever fails
\* (TransportSecurity.hpp:250-263, 189-202).
THEOREM NodeIdentitiesAreUnique == Spec => []UniqueIdentity
<1>1. UniqueIInv => UniqueIdentity
  BY DEF UniqueIInv, UniqueIdentity, Clash
<1>2. QED
  BY <1>1, UniqueInvariant, PTL
=============================================================================
