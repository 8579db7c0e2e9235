--------------------------- MODULE NodeHistory_proofs ---------------------------
(***************************************************************************)
(* What a node hands to the application, sends, tells its observers and    *)
(* remembers, for every number of tasks, decorators and carriers, every    *)
(* depth of nested calls and every set of configurations.                  *)
(***************************************************************************)
EXTENDS SecureTransport_proofs

-----------------------------------------------------------------------------
(* The inductive invariant                                                  *)

\* A call lies on top of another.  Over a SetConfig there is only a
\* notification; nothing is called while an envelope is opened, and plaintext
\* passes only for a Handle that was called under a lenient policy.
Openings == {"open", "commit"}

Above(a, b) ==
  /\ a.call = "Protect" => b.call = "Send"
  /\ a.call = "Unprotect" => b.call = "Handle"
  /\ a.call = "Unprotect" /\ a.step = "plain" => b.policy # "Required"
  /\ b.call = "SetConfig" => a.call = "Notice"
  /\ b.step \notin Openings

\* Stacks of the calls in G
Chains(G) == {s \in Seq(G) : \A i \in 1 .. Len(s) - 1 : Above(s[i], s[i + 1])}

\* What was sent is numbered, and only a configuration can have spoilt it.
Explained(f) ==
  /\ f.sequence # 0
  /\ f.sessionID = 0 \/ f.key # f.keyID => f.disturbed

\* A success of an Unprotect that was called under policy
Admitted(v, policy, sent) ==
  \/ v.whole /\ v.frame \in sent /\ v.frame.key = v.frame.keyID
  \/ v = Unprotected /\ policy # "Required"

\* A Protect that no configuration disturbed has the current key and session;
\* an Unprotect handles plaintext or what was sent; the session a SetConfig
\* replaced was claimed and is over.
GoodProtect(a, key, id)   ==
  /\ a.step = "seal" => a.sequence # 0
  /\ ~a.disturbed => /\ a.key = key
                     /\ a.step \in {"sequence", "seal"} => id # 0
GoodUnprotect(a, sent)    ==
  /\ a.frame = Plaintext \/ a.frame \in sent
  /\ a.step = "commit" => Opens(a)
GoodSetConfig(a, id, ids) == a.previous # 0 => a.previous \in ids /\ a.previous # id
GoodSend(a)               ==
  a.outcome.ok => a.outcome.frame = Plaintext \/ Explained(a.outcome.frame)
GoodHandle(a, sent)       ==
  /\ a.step = "delivering" => a.outcome.ok
  /\ a.outcome.ok => Admitted(a.outcome, a.policy, sent)

\* Calls as they are when key and id are the current ones, ids the sessions
\* claimed so far, and sent what the carriers took
GoodCalls(key, id, ids, sent) ==
  {a \in Calls(Decorators) :
     /\ a.call = "Protect" => GoodProtect(a, key, id)
     /\ a.call = "Unprotect" => GoodUnprotect(a, sent)
     /\ a.call = "SetConfig" => GoodSetConfig(a, id, ids)
     /\ a.call = "Send" => GoodSend(a)
     /\ a.call = "Handle" => GoodHandle(a, sent)}

Good == GoodCalls(config.OutboundKeyID, sessionID, used, BagToSet(air))

CallsIInv ==
  /\ \A t \in Tasks : stack[t] \in Chains(Good)
  /\ sessionReady <=> sessionID # 0
  /\ sessionID # 0 => sessionID \in used
  /\ \A f \in BagToSet(air) : Explained(f)

\* SetConfigs in progress, and those that will still put the observer right
Reconfiguring(s) == {s[i] : i \in {j \in 1 .. Len(s) : s[j].call = "SetConfig"}}

Corrects(a) ==
  \/ a.step = "reset" /\ learned \in {0, a.previous}
  \/ a.step = "established" /\ learned = 0

ObserverIInv ==
  learned # sessionID => \E t \in Tasks : \E a \in Reconfiguring(stack[t]) : Corrects(a)

Unprotecting(s) == \E i \in 1 .. Len(s) : s[i].call = "Unprotect"
Opening(s) == s # <<>> /\ Head(s).call = "Unprotect" /\ Head(s).step \in Openings

\* The sequences accepted in domain d
Seen(d) == {id.sequence : id \in {n \in BagToSet(accepted) : n.domain = d}}

\* The table remembers exactly what was accepted.
MemoryIInv ==
  /\ DOMAIN replay = {id.domain : id \in BagToSet(accepted)}
  /\ \A id \in BagToSet(accepted) : accepted[id] = 1 /\ id.sequence \in Nat
  /\ \A d \in DOMAIN replay : Remembers(replay, d, Seen(d))

\* CheckReplay's answer for a table
Admits(states, f) ==
  f.sessionID # 0 /\ WouldAccept(states, WindowSize, Domain(f), f.sequence)

\* What is being opened has not been accepted, and is one task's alone.
OpeningIInv ==
  /\ \A t \in Tasks : Opening(stack[t]) => Admits(replay, Head(stack[t]).frame)
  /\ \A t, u \in Tasks : t # u /\ Unprotecting(stack[t]) => ~Unprotecting(stack[u])

-----------------------------------------------------------------------------
(* Operations on chains                                                     *)

LEMMA ChainTail ==
  ASSUME NEW G, NEW s \in Chains(G), s # <<>>
  PROVE  /\ Head(s) \in G /\ Tail(s) \in Chains(G)
         /\ Tail(s) # <<>> => Head(Tail(s)) \in G /\ Above(Head(s), Head(Tail(s)))
         /\ \A a \in Reconfiguring(s) : a = Head(s) \/ a \in Reconfiguring(Tail(s))
         /\ Unprotecting(Tail(s)) => Unprotecting(s)
         /\ Head(s).call = "Unprotect" => Unprotecting(s)
         /\ ~Opening(Tail(s))
<1> DEFINE r == Tail(s)
<1>1. /\ s \in Seq(G) /\ Len(s) \in Nat /\ Len(s) # 0 /\ Head(s) = s[1] /\ Head(s) \in G
      /\ \A i \in 1 .. Len(s) - 1 : Above(s[i], s[i + 1])
  BY DEF Chains
<1>2. r \in Seq(G) /\ Len(r) = Len(s) - 1 /\ \A i \in 1 .. Len(r) : r[i] = s[i + 1]
  BY <1>1
<1>3. r # <<>> => Len(r) # 0 /\ Head(r) = r[1] /\ r[1] \in G
  BY <1>2
<1> HIDE DEF r
<1>4. r \in Chains(G)
  <2>1. ASSUME NEW i \in 1 .. Len(r) - 1
        PROVE  Above(r[i], r[i + 1])
    <3>1. i \in 1 .. Len(r) /\ i + 1 \in 1 .. Len(r) /\ i + 1 \in 1 .. Len(s) - 1
      BY <1>1, <1>2
    <3>2. r[i] = s[i + 1] /\ r[i + 1] = s[(i + 1) + 1]
      BY <1>2, <3>1
    <3>3. QED
      BY <1>1, <3>1, <3>2
  <2>2. QED
    BY <1>2, <2>1 DEF Chains
<1>5. r # <<>> => Head(r) \in G /\ Above(Head(s), Head(r))
  <2>1. SUFFICES ASSUME r # <<>> PROVE Above(s[1], r[1])
    BY <1>1, <1>3
  <2>2. 1 \in 1 .. Len(s) - 1 /\ r[1] = s[1 + 1]
    BY <1>1, <1>2, <1>3, <2>1
  <2>3. QED
    BY <1>1, <2>2
<1>6. ASSUME NEW a \in Reconfiguring(s)
      PROVE  a = Head(s) \/ a \in Reconfiguring(r)
  <2>1. PICK i \in 1 .. Len(s) : s[i].call = "SetConfig" /\ a = s[i]
    BY DEF Reconfiguring
  <2>2. CASE i = 1
    BY <1>1, <2>1, <2>2
  <2>3. CASE i # 1
    <3>1. i - 1 \in 1 .. Len(r) /\ (i - 1) + 1 = i
      BY <1>1, <1>2, <2>3
    <3>2. r[i - 1] = a /\ r[i - 1].call = "SetConfig"
      BY <1>2, <2>1, <3>1
    <3>3. QED
      BY <3>1, <3>2 DEF Reconfiguring
  <2>4. QED
    BY <2>2, <2>3
<1>7. Unprotecting(r) => Unprotecting(s)
  BY <1>1, <1>2 DEF Unprotecting
<1>8. Head(s).call = "Unprotect" => Unprotecting(s)
  BY <1>1 DEF Unprotecting
<1>9. ~Opening(r)
  BY <1>5 DEF Opening, Above
<1>10. QED
  BY <1>1, <1>4, <1>5, <1>6, <1>7, <1>8, <1>9 DEF r

LEMMA ChainCons ==
  ASSUME NEW G, NEW s \in Chains(G), NEW a \in G, s # <<>> => Above(a, Head(s))
  PROVE  LET r == <<a>> \o s
         IN  /\ r \in Chains(G) /\ r # <<>> /\ Head(r) = a
             /\ Reconfiguring(s) \subseteq Reconfiguring(r)
             /\ a.call = "SetConfig" => a \in Reconfiguring(r)
             /\ Unprotecting(r) => a.call = "Unprotect" \/ Unprotecting(s)
<1> DEFINE r == <<a>> \o s
<1>1. /\ s \in Seq(G) /\ Len(s) \in Nat /\ (s # <<>> => Len(s) # 0 /\ Head(s) = s[1])
      /\ \A i \in 1 .. Len(s) - 1 : Above(s[i], s[i + 1])
  BY DEF Chains
<1>2. r \in Seq(G) /\ Len(r) = Len(s) + 1 /\ r[1] = a /\ r # <<>> /\ Head(r) = a
  BY <1>1
<1>3. \A i \in 1 .. Len(s) : r[i + 1] = s[i]
  BY <1>1
<1>4. \A i \in 1 .. Len(r) : i = 1 \/ (i - 1 \in 1 .. Len(s) /\ r[i] = s[i - 1])
  BY <1>1
<1> HIDE DEF r
<1>5. r \in Chains(G)
  <2>1. ASSUME NEW i \in 1 .. Len(r) - 1
        PROVE  Above(r[i], r[i + 1])
    <3>1. CASE i = 1
      <4>1. 1 \in 1 .. Len(s) /\ s # <<>>
        BY <1>1, <1>2, <3>1
      <4>2. r[1 + 1] = s[1]
        BY <1>3, <4>1
      <4>3. QED
        BY <1>1, <1>2, <3>1, <4>1, <4>2
    <3>2. CASE i # 1
      <4>1. i - 1 \in 1 .. Len(s) - 1 /\ i \in 1 .. Len(r) /\ i \in 1 .. Len(s)
        BY <1>1, <1>2, <3>2
      <4>2. r[i] = s[i - 1] /\ r[i + 1] = s[i] /\ (i - 1) + 1 = i
        BY <1>3, <1>4, <3>2, <4>1
      <4>3. QED
        BY <1>1, <4>1, <4>2
    <3>3. QED
      BY <3>1, <3>2
  <2>2. QED
    BY <1>2, <2>1 DEF Chains
<1>6. ASSUME NEW b \in Reconfiguring(s)
      PROVE  b \in Reconfiguring(r)
  <2>1. PICK i \in 1 .. Len(s) : s[i].call = "SetConfig" /\ b = s[i]
    BY DEF Reconfiguring
  <2>2. i + 1 \in 1 .. Len(r) /\ r[i + 1] = b
    BY <1>1, <1>2, <1>3, <2>1
  <2>3. QED
    BY <2>1, <2>2 DEF Reconfiguring
<1>7. a.call = "SetConfig" => a \in Reconfiguring(r)
  <2>1. 1 \in 1 .. Len(r)
    BY <1>1, <1>2
  <2>2. QED
    BY <1>2, <2>1 DEF Reconfiguring
<1>8. Unprotecting(r) => a.call = "Unprotect" \/ Unprotecting(s)
  BY <1>2, <1>4 DEF Unprotecting
<1>9. QED
  BY <1>2, <1>5, <1>6, <1>7, <1>8 DEF r

\* Two calls that are made together
LEMMA ChainPair ==
  ASSUME NEW G, NEW s \in Chains(G), NEW a \in G, NEW b \in G, Above(a, b),
         s # <<>> => Above(b, Head(s))
  PROVE  LET r == <<a, b>> \o s
         IN  /\ r \in Chains(G) /\ r # <<>> /\ Head(r) = a
             /\ Reconfiguring(s) \subseteq Reconfiguring(r)
             /\ b.call = "SetConfig" => b \in Reconfiguring(r)
             /\ Unprotecting(r) => a.call = "Unprotect" \/ b.call = "Unprotect" \/ Unprotecting(s)
<1> DEFINE m == <<b>> \o s
           r == <<a>> \o m
<1>1. /\ m \in Chains(G) /\ m # <<>> /\ Head(m) = b
      /\ Reconfiguring(s) \subseteq Reconfiguring(m)
      /\ b.call = "SetConfig" => b \in Reconfiguring(m)
      /\ Unprotecting(m) => b.call = "Unprotect" \/ Unprotecting(s)
  BY ChainCons
<1>2. /\ r \in Chains(G) /\ r # <<>> /\ Head(r) = a
      /\ Reconfiguring(m) \subseteq Reconfiguring(r)
      /\ Unprotecting(r) => a.call = "Unprotect" \/ Unprotecting(m)
  <2> HIDE DEF m
  <2>1. QED
    BY <1>1, ChainCons
<1>3. <<a, b>> \o s = r
  BY Two DEF Chains
<1> HIDE DEF r, m
<1>4. QED
  BY <1>1, <1>2, <1>3

\* Where an exception ends
LEMMA UnwoundAt ==
  ASSUME NEW T, NEW s \in Seq(T)
  PROVE  \/ Unwound(s) = <<>> /\ \A i \in 1 .. Len(s) : s[i].call # "Notice"
         \/ \E k \in 1 .. Len(s) :
              /\ Unwound(s) = SubSeq(s, k + 1, Len(s))
              /\ \A i \in 1 .. Len(s) : s[i].call = "Notice" => k <= i
<1> DEFINE notices == {i \in DOMAIN s : s[i].call = "Notice"}
           first   == CHOOSE i \in notices : \A j \in notices : i <= j
<1>1. DOMAIN s = 1 .. Len(s) /\ Len(s) \in Nat
  OBVIOUS
<1>2. CASE notices = {}
  BY <1>1, <1>2 DEF Unwound
<1>3. CASE notices # {}
  <2>1. notices \subseteq 1 .. Len(s) /\ notices \subseteq Nat
    BY <1>1
  <2>2. \E i \in notices : \A j \in notices : i <= j
    BY <1>3, <2>1, Least
  <2>3. first \in notices /\ \A j \in notices : first <= j
    BY <2>2
  <2>4. Unwound(s) = SubSeq(s, first + 1, Len(s))
    BY <1>3 DEF Unwound
  <2>5. QED
    BY <1>1, <2>1, <2>3, <2>4
<1>4. QED
  BY <1>2, <1>3

\* An exception leaves no SetConfig that it did not start in.
LEMMA ChainUnwound ==
  ASSUME NEW G, NEW s \in Chains(G), s # <<>>, Head(s).call # "SetConfig"
  PROVE  /\ Unwound(s) \in Chains(G) /\ ~Opening(Unwound(s))
         /\ Reconfiguring(s) \subseteq Reconfiguring(Unwound(s))
         /\ Unprotecting(Unwound(s)) => Unprotecting(s)
<1> DEFINE r == Unwound(s)
<1>1. /\ s \in Seq(G) /\ Len(s) \in Nat /\ Len(s) # 0 /\ Head(s) = s[1]
      /\ \A i \in 1 .. Len(s) - 1 : Above(s[i], s[i + 1])
  BY DEF Chains
<1>2. ASSUME NEW i \in 1 .. Len(s), s[i].call = "SetConfig"
      PROVE  i - 1 \in 1 .. Len(s) /\ s[i - 1].call = "Notice"
  <2>1. i # 1
    BY <1>1, <1>2
  <2>2. i - 1 \in 1 .. Len(s) - 1 /\ (i - 1) + 1 = i /\ i - 1 \in 1 .. Len(s)
    BY <1>1, <2>1
  <2>3. Above(s[i - 1], s[i])
    BY <1>1, <2>2
  <2>4. QED
    BY <1>2, <2>2, <2>3 DEF Above
<1>3. CASE r = <<>> /\ \A i \in 1 .. Len(s) : s[i].call # "Notice"
  <2>1. Reconfiguring(s) = {}
    BY <1>2, <1>3 DEF Reconfiguring
  <2>2. r \in Chains(G)
    BY <1>3 DEF Chains
  <2>3. ~Opening(r) /\ ~Unprotecting(r)
    BY <1>3 DEF Opening, Unprotecting
  <2>4. QED
    BY <2>1, <2>2, <2>3
<1>4. ASSUME NEW k \in 1 .. Len(s), r = SubSeq(s, k + 1, Len(s)),
             \A i \in 1 .. Len(s) : s[i].call = "Notice" => k <= i
      PROVE  /\ r \in Chains(G) /\ ~Opening(r)
             /\ Reconfiguring(s) \subseteq Reconfiguring(r)
             /\ Unprotecting(r) => Unprotecting(s)
  <2> HIDE DEF r
  <2>1. r \in Seq(G) /\ Len(r) = Len(s) - k /\ (r # <<>> => Len(r) # 0 /\ Head(r) = r[1])
    BY <1>1, <1>4
  <2>2. \A i \in 1 .. Len(r) : k + i \in 1 .. Len(s) /\ r[i] = s[k + i]
    BY <1>1, <1>4, <2>1
  <2>3. ASSUME NEW i \in 1 .. Len(r) - 1
        PROVE  Above(r[i], r[i + 1])
    <3>1. i \in 1 .. Len(r) /\ i + 1 \in 1 .. Len(r) /\ k + i \in 1 .. Len(s) - 1
      BY <1>1, <2>1
    <3>2. r[i] = s[k + i] /\ r[i + 1] = s[k + (i + 1)] /\ k + (i + 1) = (k + i) + 1
      BY <2>2, <3>1
    <3>3. QED
      BY <1>1, <3>1, <3>2
  <2>4. r \in Chains(G)
    BY <2>1, <2>3 DEF Chains
  <2>5. ~Opening(r)
    <3>1. SUFFICES ASSUME r # <<>> PROVE r[1].step \notin Openings
      BY <2>1 DEF Opening
    <3>2. k \in 1 .. Len(s) - 1 /\ r[1] = s[k + 1]
      BY <1>1, <2>1, <2>2, <3>1
    <3>3. QED
      BY <1>1, <3>2 DEF Above
  <2>6. ASSUME NEW a \in Reconfiguring(s)
        PROVE  a \in Reconfiguring(r)
    <3>1. PICK i \in 1 .. Len(s) : s[i].call = "SetConfig" /\ a = s[i]
      BY DEF Reconfiguring
    <3>2. i - 1 \in 1 .. Len(s) /\ k <= i - 1
      BY <1>2, <1>4, <3>1
    <3>3. i - k \in 1 .. Len(r) /\ k + (i - k) = i
      BY <1>1, <2>1, <3>2
    <3>4. r[i - k] = a
      BY <2>2, <3>1, <3>3
    <3>5. QED
      BY <3>1, <3>3, <3>4 DEF Reconfiguring
  <2>7. Unprotecting(r) => Unprotecting(s)
    BY <2>2 DEF Unprotecting
  <2>8. QED
    BY <2>4, <2>5, <2>6, <2>7
<1>5. \/ r = <<>> /\ \A i \in 1 .. Len(s) : s[i].call # "Notice"
      \/ \E k \in 1 .. Len(s) :
           /\ r = SubSeq(s, k + 1, Len(s))
           /\ \A i \in 1 .. Len(s) : s[i].call = "Notice" => k <= i
  BY <1>1, UnwoundAt
<1>6. QED
  BY <1>3, <1>4, <1>5

-----------------------------------------------------------------------------
(* Good calls                                                               *)

\* The call goes on at x.
LEMMA GoodStep ==
  ASSUME NEW key, NEW id, NEW ids, NEW sent, NEW a \in GoodCalls(key, id, ids, sent),
         NEW x \in Steps,
         a.call = "Protect" => x # "seal" /\ (x = "sequence" => a.disturbed \/ id # 0),
         a.call = "Unprotect" /\ x = "commit" => Opens(a),
         a.call = "Handle" /\ x = "delivering" => a.outcome.ok
  PROVE  LET b == [a EXCEPT !.step = x]
         IN  b \in GoodCalls(key, id, ids, sent) /\ b.call = a.call /\ b.step = x
<1> DEFINE b == [a EXCEPT !.step = x]
<1>1. a \in Calls(Decorators)
  BY DEF GoodCalls
<1>2. b \in Calls(Decorators) /\ b.call = a.call
  BY <1>1, Stepped
<1>3. CASE a \in Notices
  <2>1. b.step = x /\ b.call = "Notice"
    BY <1>3 DEF Notices
  <2>2. QED
    BY <1>2, <2>1 DEF GoodCalls
<1>4. CASE a \in SetConfigs
  <2>1. b.step = x /\ b.call = "SetConfig" /\ a.call = "SetConfig" /\ b.previous = a.previous
    BY <1>4 DEF SetConfigs
  <2>2. QED
    BY <1>2, <2>1 DEF GoodCalls, GoodSetConfig
<1>5. CASE a \in Protects
  <2>1. /\ b.step = x /\ b.call = "Protect" /\ a.call = "Protect"
        /\ b.key = a.key /\ b.disturbed = a.disturbed
    BY <1>5 DEF Protects
  <2>2. GoodProtect(b, key, id)
    BY <2>1 DEF GoodCalls, GoodProtect
  <2>3. QED
    BY <1>2, <2>1, <2>2 DEF GoodCalls
<1>6. CASE a \in Unprotects
  <2>1. /\ b.step = x /\ b.call = "Unprotect" /\ a.call = "Unprotect"
        /\ b.frame = a.frame /\ b.whole = a.whole
    BY <1>6 DEF Unprotects
  <2>2. GoodUnprotect(b, sent)
    BY <2>1 DEF GoodCalls, GoodUnprotect, Opens
  <2>3. QED
    BY <1>2, <2>1, <2>2 DEF GoodCalls
<1>7. CASE a \in Sends(Decorators)
  <2>1. b.step = x /\ b.call = "Send" /\ a.call = "Send" /\ b.outcome = a.outcome
    BY <1>7 DEF Sends
  <2>2. QED
    BY <1>2, <2>1 DEF GoodCalls, GoodSend
<1>8. CASE a \in Handles(Decorators)
  <2>1. /\ b.step = x /\ b.call = "Handle" /\ a.call = "Handle"
        /\ b.outcome = a.outcome /\ b.policy = a.policy
    BY <1>8 DEF Handles
  <2>2. GoodHandle(b, sent)
    BY <2>1 DEF GoodCalls, GoodHandle
  <2>3. QED
    BY <1>2, <2>1, <2>2 DEF GoodCalls
<1>9. QED
  BY <1>1, <1>3, <1>4, <1>5, <1>6, <1>7, <1>8 DEF Calls, Inner, Outer

\* A call that is good stays so when a session is established, and when a
\* carrier takes an envelope.
LEMMA GoodGrows ==
  ASSUME NEW key, NEW id, NEW ids, NEW sent, NEW id2, NEW ids2, NEW sent2,
         id2 = id \/ (id2 # 0 /\ id2 \notin ids), ids \subseteq ids2, sent \subseteq sent2
  PROVE  GoodCalls(key, id, ids, sent) \subseteq GoodCalls(key, id2, ids2, sent2)
<1> SUFFICES ASSUME NEW a \in GoodCalls(key, id, ids, sent)
             PROVE  a \in GoodCalls(key, id2, ids2, sent2)
  OBVIOUS
<1>1. a.call = "Protect" => GoodProtect(a, key, id2)
  BY DEF GoodCalls, GoodProtect
<1>2. a.call = "Unprotect" => GoodUnprotect(a, sent2)
  BY DEF GoodCalls, GoodUnprotect
<1>3. a.call = "SetConfig" => GoodSetConfig(a, id2, ids2)
  BY DEF GoodCalls, GoodSetConfig
<1>4. a.call = "Handle" => GoodHandle(a, sent2)
  BY DEF GoodCalls, GoodHandle, Admitted
<1>5. QED
  BY <1>1, <1>2, <1>3, <1>4 DEF GoodCalls

LEMMA MoreChains ==
  ASSUME NEW G, NEW H, G \subseteq H
  PROVE  Chains(G) \subseteq Chains(H)
<1> SUFFICES ASSUME NEW s \in Seq(G) PROVE s \in Seq(H)
  BY DEF Chains
<1>1. s \in [1 .. Len(s) -> H] /\ Len(s) \in Nat
  OBVIOUS
<1>2. QED
  BY <1>1

LEMMA NoticeGood ==
  ASSUME NEW key, NEW id, NEW ids, NEW sent
  PROVE  Notice \in GoodCalls(key, id, ids, sent)
<1>1. Notice \in Calls(Decorators)
  BY NoticeIsCall
<1>2. QED
  BY <1>1 DEF Notice, GoodCalls

\* A new configuration with another session: what stays is disturbed.
LEMMA ChainDisturbed ==
  ASSUME NEW key, NEW id, NEW ids, NEW sent, NEW key2, NEW id2,
         NEW s \in Chains(GoodCalls(key, id, ids, sent)),
         id2 \notin ids
  PROVE  LET r == Disturbed(s)
             ids2 == ids \cup ({id2} \ {0})
         IN  /\ r \in Chains(GoodCalls(key2, id2, ids2, sent))
             /\ Reconfiguring(s) \subseteq Reconfiguring(r)
             /\ Unprotecting(r) => Unprotecting(s)
             /\ r # <<>> => s # <<>> /\ Head(r).call = Head(s).call /\ Head(r).step = Head(s).step
<1> DEFINE r == Disturbed(s)
           ids2 == ids \cup ({id2} \ {0})
           G == GoodCalls(key, id, ids, sent)
           H == GoodCalls(key2, id2, ids2, sent)
<1>1. /\ s \in Seq(G) /\ Len(s) \in Nat /\ DOMAIN s = 1 .. Len(s)
      /\ \A i \in 1 .. Len(s) - 1 : Above(s[i], s[i + 1])
  BY DEF Chains
<1>2. ASSUME NEW i \in 1 .. Len(s)
      PROVE  /\ r[i] \in H /\ r[i].call = s[i].call /\ r[i].step = s[i].step
             /\ s[i].call # "Protect" => r[i] = s[i]
  <2>1. s[i] \in G
    BY <1>1
  <2>2. s[i] \in Calls(Decorators)
    BY <2>1 DEF GoodCalls
  <2>3. CASE s[i].call = "Protect"
    <3>1. s[i] \in Protects
      BY <2>2, <2>3, Apart
    <3>2. r[i] = [s[i] EXCEPT !.disturbed = TRUE]
      BY <1>1, <2>3 DEF Disturbed
    <3>3. /\ r[i] \in Protects /\ r[i].call = "Protect" /\ r[i].step = s[i].step
          /\ r[i].sequence = s[i].sequence /\ r[i].disturbed
      BY <3>1, <3>2 DEF Protects
    <3>4. GoodProtect(s[i], key, id)
      BY <2>1, <2>3 DEF GoodCalls
    <3>5. GoodProtect(r[i], key2, id2)
      BY <3>3, <3>4 DEF GoodProtect
    <3>6. r[i] \in H
      BY <3>3, <3>5 DEF GoodCalls, Calls, Inner
    <3>7. QED
      BY <2>3, <3>3, <3>6
  <2>4. CASE s[i].call # "Protect"
    <3>1. r[i] = s[i]
      BY <1>1, <2>4 DEF Disturbed
    <3>2. s[i].call = "SetConfig" => GoodSetConfig(s[i], id2, ids2)
      BY <2>1 DEF GoodCalls, GoodSetConfig
    <3>3. s[i] \in H
      BY <2>1, <2>4, <3>2 DEF GoodCalls
    <3>4. QED
      BY <3>1, <3>3
  <2>5. QED
    BY <2>3, <2>4
<1>3. r \in Seq(H) /\ Len(r) = Len(s)
  <2>1. r \in [1 .. Len(s) -> H]
    <3> HIDE DEF H
    <3>1. QED
      BY <1>1, <1>2 DEF Disturbed
  <2> HIDE DEF r, H
  <2>2. DOMAIN r = 1 .. Len(s)
    BY <2>1
  <2>3. r \in Seq(H)
    BY <1>1, <2>1
  <2>4. QED
    BY <1>1, <2>2, <2>3
<1> HIDE DEF r, H, G
<1>4. r \in Chains(H)
  <2>1. ASSUME NEW i \in 1 .. Len(r) - 1
        PROVE  Above(r[i], r[i + 1])
    <3>1. i \in 1 .. Len(s) /\ i + 1 \in 1 .. Len(s) /\ i \in 1 .. Len(s) - 1
      BY <1>1, <1>3
    <3>2. Above(s[i], s[i + 1])
      BY <1>1, <3>1
    <3>3. /\ r[i].call = s[i].call /\ r[i].step = s[i].step
          /\ r[i + 1].call = s[i + 1].call /\ r[i + 1].step = s[i + 1].step
          /\ s[i + 1].call # "Protect" => r[i + 1] = s[i + 1]
      BY <1>2, <3>1
    <3>4. QED
      BY <3>2, <3>3 DEF Above
  <2>2. QED
    BY <1>3, <2>1 DEF Chains
<1>5. ASSUME NEW a \in Reconfiguring(s)
      PROVE  a \in Reconfiguring(r)
  <2>1. PICK i \in 1 .. Len(s) : s[i].call = "SetConfig" /\ a = s[i]
    BY DEF Reconfiguring
  <2>2. i \in 1 .. Len(r) /\ r[i] = a
    BY <1>2, <1>3, <2>1
  <2>3. QED
    BY <2>1, <2>2 DEF Reconfiguring
<1>6. Unprotecting(r) => Unprotecting(s)
  BY <1>2, <1>3 DEF Unprotecting
<1>7. ASSUME r # <<>>
      PROVE  s # <<>> /\ Head(r).call = Head(s).call /\ Head(r).step = Head(s).step
  <2>1. Len(r) # 0 /\ Head(r) = r[1]
    BY <1>3, <1>7
  <2>2. s # <<>> /\ Head(s) = s[1] /\ 1 \in 1 .. Len(s)
    BY <1>1, <1>3, <2>1
  <2>3. QED
    BY <1>2, <2>1, <2>2
<1>8. QED
  BY <1>4, <1>5, <1>6, <1>7 DEF r, H

-----------------------------------------------------------------------------
(* What a step does to one stack                                            *)

\* From s to r nothing is opened, every SetConfig stays, and no Unprotect is
\* new: the steps outside of Unprotect's own and of the configuration's.
Follows(s, r, G) ==
  /\ r \in Chains(G) /\ ~Opening(r)
  /\ Reconfiguring(s) \subseteq Reconfiguring(r)
  /\ Unprotecting(r) => Unprotecting(s)

LEMMA Leaves ==
  ASSUME NEW G, NEW s \in Chains(G), s # <<>>, Head(s).call # "SetConfig"
  PROVE  Follows(s, Tail(s), G)
<1>1. ASSUME NEW a \in Reconfiguring(s)
      PROVE  a \in Reconfiguring(Tail(s))
  <2>1. a.call = "SetConfig"
    BY DEF Reconfiguring
  <2>2. QED
    BY <2>1, ChainTail
<1>2. QED
  BY <1>1, ChainTail DEF Follows

\* The innermost call becomes one of the same kind.
LEMMA GoesOn ==
  ASSUME NEW G, NEW H, G \subseteq H, NEW s \in Chains(G), s # <<>>, NEW a \in H,
         a.call = Head(s).call, a.call = "Unprotect" => a.step # "plain"
  PROVE  LET r == <<a>> \o Tail(s)
         IN  /\ r \in Chains(H) /\ r # <<>> /\ Head(r) = a
             /\ \A b \in Reconfiguring(s) : b = Head(s) \/ b \in Reconfiguring(r)
             /\ a.call = "SetConfig" => a \in Reconfiguring(r)
             /\ Unprotecting(r) => Unprotecting(s)
<1>1. /\ Tail(s) \in Chains(H)
      /\ Tail(s) # <<>> => Above(Head(s), Head(Tail(s)))
  BY ChainTail, MoreChains
<1>2. Tail(s) # <<>> => Above(a, Head(Tail(s)))
  BY <1>1 DEF Above
<1> DEFINE r == <<a>> \o Tail(s)
<1>3. /\ r \in Chains(H) /\ r # <<>> /\ Head(r) = a
      /\ Reconfiguring(Tail(s)) \subseteq Reconfiguring(r)
      /\ a.call = "SetConfig" => a \in Reconfiguring(r)
      /\ Unprotecting(r) => a.call = "Unprotect" \/ Unprotecting(Tail(s))
  BY <1>1, <1>2, ChainCons
<1>4. /\ \A b \in Reconfiguring(s) : b = Head(s) \/ b \in Reconfiguring(Tail(s))
      /\ Unprotecting(Tail(s)) => Unprotecting(s)
      /\ Head(s).call = "Unprotect" => Unprotecting(s)
  BY ChainTail
<1> HIDE DEF r
<1>5. QED
  BY <1>3, <1>4 DEF r

LEMMA Goes ==
  ASSUME NEW G, NEW H, G \subseteq H, NEW s \in Chains(G), s # <<>>, NEW a \in H,
         a.call = Head(s).call, a.call # "SetConfig", a.step \notin Openings,
         a.call = "Unprotect" => a.step # "plain"
  PROVE  Follows(s, <<a>> \o Tail(s), H)
<1> DEFINE r == <<a>> \o Tail(s)
<1>1. /\ r \in Chains(H) /\ r # <<>> /\ Head(r) = a
      /\ \A b \in Reconfiguring(s) : b = Head(s) \/ b \in Reconfiguring(r)
      /\ Unprotecting(r) => Unprotecting(s)
  BY GoesOn
<1>2. \A b \in Reconfiguring(s) : b.call = "SetConfig"
  BY DEF Reconfiguring
<1> HIDE DEF r
<1>3. Follows(s, r, H)
  BY <1>1, <1>2 DEF Follows, Opening
<1>4. QED
  BY <1>3 DEF r

\* A notification on top of the innermost call
LEMMA Notifies ==
  ASSUME NEW G, NEW H, G \subseteq H, Notice \in H, NEW s \in Chains(G), s # <<>>, NEW a \in H,
         a.call = Head(s).call, a.step \notin Openings,
         a.call = "Unprotect" => a.step # "plain"
  PROVE  LET r == <<Notice, a>> \o Tail(s)
         IN  /\ r \in Chains(H) /\ ~Opening(r)
             /\ \A b \in Reconfiguring(s) : b = Head(s) \/ b \in Reconfiguring(r)
             /\ a.call = "SetConfig" => a \in Reconfiguring(r)
             /\ Unprotecting(r) => Unprotecting(s)
<1> DEFINE q == Tail(s)
           r == <<Notice, a>> \o q
<1>1. /\ q \in Chains(H) /\ (q # <<>> => Above(Head(s), Head(q)))
      /\ \A b \in Reconfiguring(s) : b = Head(s) \/ b \in Reconfiguring(q)
      /\ Unprotecting(q) => Unprotecting(s)
      /\ Head(s).call = "Unprotect" => Unprotecting(s)
  BY ChainTail, MoreChains
<1>2. Above(Notice, a) /\ (q # <<>> => Above(a, Head(q)))
  BY <1>1 DEF Above, Notice
<1> HIDE DEF q
<1>3. /\ r \in Chains(H) /\ Head(r) = Notice
      /\ Reconfiguring(q) \subseteq Reconfiguring(r)
      /\ a.call = "SetConfig" => a \in Reconfiguring(r)
      /\ Unprotecting(r) => Notice.call = "Unprotect" \/ a.call = "Unprotect" \/ Unprotecting(q)
  BY <1>1, <1>2, ChainPair
<1>4. ~Opening(r) /\ Notice.call = "Notice"
  BY <1>3 DEF Opening, Notice
<1> HIDE DEF r
<1>5. /\ r \in Chains(H) /\ ~Opening(r)
      /\ \A b \in Reconfiguring(s) : b = Head(s) \/ b \in Reconfiguring(r)
      /\ a.call = "SetConfig" => a \in Reconfiguring(r)
      /\ Unprotecting(r) => Unprotecting(s)
  BY <1>1, <1>3, <1>4
<1>6. QED
  BY <1>5 DEF r, q

LEMMA Returns ==
  ASSUME NEW G, NEW s \in Chains(G), s # <<>>, Tail(s) # <<>>,
         Head(s).call \in {"Protect", "Unprotect"}, NEW a \in G,
         a.call = Head(Tail(s)).call, a.step \notin Openings
  PROVE  Follows(s, <<a>> \o Tail(Tail(s)), G)
<1> DEFINE m == Tail(s)
           r == <<a>> \o Tail(m)
<1>1. /\ m \in Chains(G) /\ Above(Head(s), Head(m))
      /\ \A b \in Reconfiguring(s) : b = Head(s) \/ b \in Reconfiguring(m)
      /\ Unprotecting(m) => Unprotecting(s)
  BY ChainTail
<1>2. a.call \in {"Send", "Handle"}
  BY <1>1 DEF Above
<1>3. Follows(m, r, G)
  <2> HIDE DEF m
  <2>1. QED
    BY <1>1, <1>2, Goes DEF m
<1>4. Head(s) \notin Reconfiguring(s)
  BY DEF Reconfiguring
<1> HIDE DEF r, m
<1>5. Follows(s, r, G)
  BY <1>1, <1>3, <1>4 DEF Follows
<1>6. QED
  BY <1>5 DEF r, m

LEMMA Throws ==
  ASSUME NEW G, NEW s \in Chains(G), s # <<>>, Head(s).call # "SetConfig"
  PROVE  Follows(s, Unwound(s), G)
BY ChainUnwound DEF Follows

-----------------------------------------------------------------------------
(* What a step does to the invariant                                        *)

HistoryIInv == CallsIInv /\ ObserverIInv /\ MemoryIInv /\ OpeningIInv

\* The innermost call of a task
LEMMA TopGood ==
  ASSUME NodeIInv, CallsIInv, NEW t \in Tasks
  PROVE  /\ stack[t] \in Chains(Good) /\ stack[t] \in Stacks(alive)
         /\ stack[t] # <<>> => Head(stack[t]) \in Good /\ Head(stack[t]) \in Calls(alive)
<1>1. stack[t] \in Chains(Good) /\ stack[t] \in Stacks(alive)
  BY DEF CallsIInv, NodeIInv
<1>2. QED
  BY <1>1, ChainTail, Rest

LEMMA CallsStep ==
  ASSUME NodeIInv, NEW t \in Tasks, NEW r, Becomes(t, r), r \in Chains(Good'),
         \A u \in Tasks \ {t} : stack[u] \in Chains(Good'),
         sessionReady' <=> sessionID' # 0, sessionID' # 0 => sessionID' \in used',
         \A f \in BagToSet(air') : Explained(f)
  PROVE  CallsIInv'
<1>1. stack'[t] = r /\ \A u \in Tasks \ {t} : stack'[u] = stack[u]
  BY Others
<1>2. \A u \in Tasks : stack'[u] \in Chains(Good')
  BY <1>1
<1>3. QED
  BY <1>2 DEF CallsIInv

LEMMA ObserverStep ==
  ASSUME NodeIInv, ObserverIInv, NEW t \in Tasks, NEW r, Becomes(t, r),
         Reconfiguring(stack[t]) \subseteq Reconfiguring(r),
         learned' = sessionID' \/ UNCHANGED <<learned, sessionID>>
  PROVE  ObserverIInv'
<1>1. stack'[t] = r /\ \A u \in Tasks \ {t} : stack'[u] = stack[u]
  BY Others
<1>2. \A u \in Tasks : Reconfiguring(stack[u]) \subseteq Reconfiguring(stack'[u])
  BY <1>1
<1>3. CASE learned' = sessionID'
  BY <1>3 DEF ObserverIInv
<1>4. CASE UNCHANGED <<learned, sessionID>>
  <2>1. SUFFICES ASSUME learned # sessionID
                 PROVE  \E u \in Tasks : \E a \in Reconfiguring(stack'[u]) : Corrects(a)'
    BY <1>4 DEF ObserverIInv
  <2>2. PICK u \in Tasks : \E a \in Reconfiguring(stack[u]) : Corrects(a)
    BY <2>1 DEF ObserverIInv
  <2>3. \A a : Corrects(a) => Corrects(a)'
    BY <1>4 DEF Corrects
  <2>4. QED
    BY <1>2, <2>2, <2>3
<1>5. QED
  BY <1>3, <1>4

LEMMA OpeningUnprotects ==
  ASSUME NodeIInv, CallsIInv, NEW t \in Tasks, Opening(stack[t])
  PROVE  Unprotecting(stack[t])
BY TopGood, ChainTail DEF Opening

LEMMA OpeningStep ==
  ASSUME NodeIInv, CallsIInv, OpeningIInv, NEW t \in Tasks, NEW r, Becomes(t, r),
         Opening(r) => Admits(replay', Head(r).frame),
         Unprotecting(r) => Unprotecting(stack[t]) \/ \A u \in Tasks \ {t} : ~Unprotecting(stack[u]),
         UNCHANGED replay \/ \A u \in Tasks \ {t} : ~Unprotecting(stack[u])
  PROVE  OpeningIInv'
<1>1. stack'[t] = r /\ \A u \in Tasks \ {t} : stack'[u] = stack[u]
  BY Others
<1>2. ASSUME NEW u \in Tasks, Opening(stack'[u])
      PROVE  Admits(replay', Head(stack'[u]).frame)
  <2>1. CASE u = t
    BY <1>1, <1>2, <2>1
  <2>2. CASE u # t
    <3>1. stack'[u] = stack[u] /\ Opening(stack[u])
      BY <1>1, <1>2, <2>2
    <3>2. Unprotecting(stack[u])
      BY <3>1, OpeningUnprotects
    <3>3. replay' = replay /\ Admits(replay, Head(stack[u]).frame)
      BY <2>2, <3>1, <3>2 DEF OpeningIInv
    <3>4. QED
      BY <3>1, <3>3
  <2>3. QED
    BY <2>1, <2>2
<1>3. \A u, v \in Tasks : u # v /\ Unprotecting(stack[u]) => ~Unprotecting(stack[v])
  BY DEF OpeningIInv
<1>4. \A u, v \in Tasks : u # v /\ Unprotecting(stack'[u]) => ~Unprotecting(stack'[v])
  BY <1>1, <1>3
<1>5. QED
  BY <1>2, <1>4 DEF OpeningIInv

LEMMA MemoryStep ==
  ASSUME MemoryIInv, UNCHANGED inbound
  PROVE  MemoryIInv'
BY DEF MemoryIInv, inbound, Seen

\* The steps that neither open an envelope nor reconfigure the object
Plain(t) == \E r : Becomes(t, r) /\ Follows(stack[t], r, Good)

LEMMA PlainStep ==
  ASSUME NodeIInv, HistoryIInv, NEW t \in Tasks, Plain(t),
         UNCHANGED <<config, sessionID, sessionReady, used, learned, inbound, air>>
  PROVE  HistoryIInv'
<1>1. PICK r : Becomes(t, r) /\ Follows(stack[t], r, Good)
  BY DEF Plain
<1>2. Good' = Good
  BY DEF Good
<1>3. CallsIInv'
  <2>1. \A u \in Tasks : stack[u] \in Chains(Good')
    BY <1>2 DEF HistoryIInv, CallsIInv
  <2>2. /\ sessionReady' <=> sessionID' # 0
        /\ sessionID' # 0 => sessionID' \in used'
        /\ \A f \in BagToSet(air') : Explained(f)
    BY DEF HistoryIInv, CallsIInv
  <2>3. QED
    BY <1>1, <1>2, <2>1, <2>2, CallsStep DEF Follows
<1>4. ObserverIInv'
  BY <1>1, ObserverStep DEF HistoryIInv, Follows
<1>5. UNCHANGED replay
  BY DEF inbound
<1>6. OpeningIInv'
  BY <1>1, <1>5, OpeningStep DEF HistoryIInv, Follows
<1>7. QED
  BY <1>3, <1>4, <1>6, MemoryStep DEF HistoryIInv

LEMMA LeavePlain ==
  ASSUME NodeIInv, CallsIInv, NEW t \in Tasks, ~Idle(t), Top(t).call # "SetConfig", Leave(t)
  PROVE  Plain(t)
<1>1. stack[t] \in Chains(Good) /\ stack[t] # <<>> /\ Head(stack[t]).call # "SetConfig"
  BY TopGood DEF Idle, Top
<1>2. Follows(stack[t], Tail(stack[t]), Good)
  BY <1>1, Leaves
<1>3. QED
  BY <1>2 DEF Plain, Becomes, Leave

LEMMA ThrowPlain ==
  ASSUME NodeIInv, CallsIInv, NEW t \in Tasks, ~Idle(t), Top(t).call # "SetConfig", Throw(t)
  PROVE  Plain(t)
<1>1. stack[t] \in Chains(Good) /\ stack[t] # <<>> /\ Head(stack[t]).call # "SetConfig"
  BY TopGood DEF Idle, Top
<1>2. Follows(stack[t], Unwound(stack[t]), Good)
  BY <1>1, Throws
<1>3. QED
  BY <1>2 DEF Plain, Becomes, Throw

\* The innermost call goes on at x.
LEMMA TopGoesOn ==
  ASSUME NodeIInv, CallsIInv, NEW t \in Tasks, ~Idle(t), NEW x \in Steps,
         Top(t).call = "Protect" => x # "seal" /\ (x = "sequence" => sessionID # 0),
         Top(t).call = "Unprotect" /\ x = "commit" => Opens(Top(t)),
         Top(t).call = "Handle" /\ x = "delivering" => Top(t).outcome.ok
  PROVE  LET a == [Head(stack[t]) EXCEPT !.step = x]
         IN  a \in Good /\ a.call = Top(t).call /\ a.step = x
<1>1. Head(stack[t]) \in Good
  BY TopGood DEF Idle
<1>2. QED
  BY <1>1, GoodStep DEF Good, Top

LEMMA GotoPlain ==
  ASSUME NodeIInv, CallsIInv, NEW t \in Tasks, ~Idle(t),
         Top(t).call \notin {"SetConfig", "Unprotect"},
         NEW x \in Steps \ Openings, Goto(t, x),
         Top(t).call = "Protect" => x # "seal" /\ (x = "sequence" => sessionID # 0),
         Top(t).call = "Handle" /\ x = "delivering" => Top(t).outcome.ok
  PROVE  Plain(t)
<1> DEFINE a == [Head(stack[t]) EXCEPT !.step = x]
<1>1. a \in Good /\ a.call = Top(t).call /\ a.step = x
  BY TopGoesOn DEF Openings
<1>2. stack[t] \in Chains(Good) /\ stack[t] # <<>>
  BY TopGood DEF Idle
<1>3. Follows(stack[t], <<a>> \o Tail(stack[t]), Good)
  <2> HIDE DEF a
  <2>1. QED
    BY <1>1, <1>2, Goes DEF Top
<1>4. QED
  BY <1>3 DEF Plain, Becomes, Goto

LEMMA FailPlain ==
  ASSUME NodeIInv, CallsIInv, NEW t \in Tasks, ~Idle(t),
         Top(t).call \in {"Protect", "Unprotect"}, Fail(t)
  PROVE  Plain(t)
<1> DEFINE a == [Head(stack[t]) EXCEPT !.step = "refused"]
           r == <<Notice, a>> \o Tail(stack[t])
<1>1. a \in Good /\ a.call = Top(t).call /\ a.step = "refused"
  <2>1. "refused" \in Steps
    BY DEF Steps
  <2>2. QED
    BY <2>1, TopGoesOn
<1>2. stack[t] \in Chains(Good) /\ stack[t] # <<>>
  BY TopGood DEF Idle
<1>3. Notice \in Good
  BY NoticeGood DEF Good
<1>4. /\ r \in Chains(Good) /\ ~Opening(r)
      /\ \A b \in Reconfiguring(stack[t]) : b = Head(stack[t]) \/ b \in Reconfiguring(r)
      /\ Unprotecting(r) => Unprotecting(stack[t])
  <2> HIDE DEF a
  <2>1. QED
    BY <1>1, <1>2, <1>3, Notifies DEF Top, Openings
<1>5. Head(stack[t]) \notin Reconfiguring(stack[t])
  BY DEF Reconfiguring, Top
<1>6. Becomes(t, r)
  BY DEF Becomes, Fail, NotifyThen
<1> HIDE DEF r
<1>7. QED
  BY <1>4, <1>5, <1>6 DEF Plain, Follows

\* A call of the security object returns to its caller.
LEMMA ReturnPlain ==
  ASSUME NodeIInv, CallsIInv, NEW t \in Tasks, ~Idle(t),
         Top(t).call \in {"Protect", "Unprotect"}, NEW v \in Outcomes, Return(t, v),
         Top(t).call = "Protect" /\ v.ok => v.frame = Plaintext \/ Explained(v.frame),
         Top(t).call = "Unprotect" /\ v.ok =>
           Admitted(v, Head(Tail(stack[t])).policy, BagToSet(air))
  PROVE  Plain(t)
<1> DEFINE s     == stack[t]
           below == Tail(s)
           a     == [Head(below) EXCEPT !.step = "returned", !.outcome = v]
<1>1. s \in Chains(Good) /\ s \in Stacks(alive) /\ s # <<>> /\ Head(s) \in Calls(alive)
  BY TopGood DEF Idle
<1>2. Head(s) \in Inner
  BY <1>1, Apart DEF Top
<1>3. below # <<>> /\ Head(below) \in Outer(alive)
  <2> HIDE DEF s
  <2>1. QED
    BY <1>1, <1>2, Rest DEF below
<1>4. Head(below) \in Good /\ Above(Head(s), Head(below))
  <2> HIDE DEF s
  <2>1. QED
    BY <1>1, <1>3, ChainTail DEF below
<1>5. a \in Good /\ a.call = Head(below).call /\ a.step = "returned"
  <2>1. Head(below) \in Calls(Decorators)
    BY <1>4 DEF Good, GoodCalls
  <2>2. CASE Head(s).call = "Protect"
    <3>1. Head(below).call = "Send"
      BY <1>4, <2>2 DEF Above
    <3>2. Head(below) \in Sends(Decorators)
      BY <2>1, <3>1, Apart
    <3>3. a \in Sends(Decorators) /\ a.call = "Send" /\ a.step = "returned" /\ a.outcome = v
      <4> HIDE DEF below
      <4>1. QED
        BY <3>2 DEF Sends, Steps
    <3>4. GoodSend(a)
      BY <2>2, <3>3 DEF GoodSend, Top
    <3>5. QED
      <4> HIDE DEF a
      <4>1. QED
        BY <3>1, <3>3, <3>4 DEF Good, GoodCalls, Calls, Outer
  <2>3. CASE Head(s).call = "Unprotect"
    <3>1. Head(below).call = "Handle"
      BY <1>4, <2>3 DEF Above
    <3>2. Head(below) \in Handles(Decorators)
      BY <2>1, <3>1, Apart
    <3>3. /\ a \in Handles(Decorators) /\ a.call = "Handle" /\ a.step = "returned"
          /\ a.outcome = v /\ a.policy = Head(below).policy
      <4> HIDE DEF below
      <4>1. QED
        BY <3>2 DEF Handles, Steps
    <3>4. GoodHandle(a, BagToSet(air))
      BY <2>3, <3>3 DEF GoodHandle, Top
    <3>5. QED
      <4> HIDE DEF a
      <4>1. QED
        BY <3>1, <3>3, <3>4 DEF Good, GoodCalls, Calls, Outer
  <2>4. QED
    BY <2>2, <2>3 DEF Top
<1>6. Follows(s, <<a>> \o Tail(below), Good)
  <2>1. a.step \notin Openings /\ Head(s).call \in {"Protect", "Unprotect"}
    BY <1>5 DEF Openings, Top
  <2> HIDE DEF a, s
  <2>2. QED
    BY <1>1, <1>3, <1>5, <2>1, Returns DEF below
<1>7. QED
  BY <1>6 DEF Plain, Becomes, Return

LEMMA ReturnRefusedPlain ==
  ASSUME NodeIInv, CallsIInv, NEW t \in Tasks, NEW call \in {"Protect", "Unprotect"},
         ReturnRefused(t, call)
  PROVE  Plain(t)
<1>1. ~Idle(t) /\ Top(t).call = call /\ Return(t, Refused)
  BY DEF ReturnRefused, At
<1>2. Refused \in Outcomes /\ ~Refused.ok
  BY DEF Outcomes, Refused
<1>3. QED
  BY <1>1, <1>2, ReturnPlain

-----------------------------------------------------------------------------
(* Protect                                                                  *)

LEMMA EstablishSessionHistory ==
  ASSUME NodeIInv, HistoryIInv, NEW t \in Tasks, NEW id \in SessionIDs,
         EstablishSession(t, id), UNCHANGED node
  PROVE  HistoryIInv'
<1> DEFINE s == stack[t]
           a == [Head(s) EXCEPT !.step = "sequence"]
           r == <<Notice, a>> \o Tail(s)
<1>1. id # 0 /\ id \notin used
  BY SharedAssumption DEF EstablishSession
<1>2. /\ sessionID' = id /\ used' = used \cup {id} /\ learned' = id /\ sessionReady'
      /\ UNCHANGED <<config, inbound, air>>
  BY DEF EstablishSession, Learn, node
<1>3. Good \subseteq Good'
  <2>1. Good' = GoodCalls(config.OutboundKeyID, id, used \cup {id}, BagToSet(air))
    BY <1>2 DEF Good
  <2>2. GoodCalls(config.OutboundKeyID, sessionID, used, BagToSet(air))
          \subseteq GoodCalls(config.OutboundKeyID, id, used \cup {id}, BagToSet(air))
    BY <1>1, GoodGrows
  <2>3. QED
    BY <2>1, <2>2 DEF Good
<1>4. s \in Chains(Good) /\ s # <<>> /\ Head(s) \in Good /\ Head(s).call = "Protect"
  BY TopGood DEF EstablishSession, At, Idle, Top, HistoryIInv
<1>5. a \in Good' /\ a.call = "Protect" /\ a.step = "sequence"
  <2>1. Head(s) \in GoodCalls(config'.OutboundKeyID, sessionID', used', BagToSet(air'))
    BY <1>3, <1>4 DEF Good
  <2>2. sessionID' # 0 /\ "sequence" \in Steps
    BY <1>1, <1>2 DEF Steps
  <2> HIDE DEF s
  <2>3. a \in GoodCalls(config'.OutboundKeyID, sessionID', used', BagToSet(air'))
          /\ a.call = Head(s).call /\ a.step = "sequence"
    BY <1>4, <2>1, <2>2, GoodStep
  <2> HIDE DEF a
  <2>4. QED
    BY <1>4, <2>3 DEF Good
<1>6. Notice \in Good'
  BY NoticeGood DEF Good
<1>7. /\ r \in Chains(Good') /\ ~Opening(r)
      /\ \A b \in Reconfiguring(s) : b = Head(s) \/ b \in Reconfiguring(r)
      /\ Unprotecting(r) => Unprotecting(s)
  <2> HIDE DEF a, s
  <2>1. a.step \notin Openings
    BY <1>5 DEF Openings
  <2>2. QED
    BY <1>3, <1>4, <1>5, <1>6, <2>1, Notifies
<1>8. Head(s) \notin Reconfiguring(s)
  BY <1>4 DEF Reconfiguring
<1>9. Becomes(t, r)
  BY DEF EstablishSession, NotifyThen, Becomes
<1> HIDE DEF r, a
<1>10. CallsIInv'
  <2>1. \A u \in Tasks : stack[u] \in Chains(Good')
    BY <1>3, MoreChains DEF HistoryIInv, CallsIInv
  <2>2. /\ sessionReady' <=> sessionID' # 0
        /\ sessionID' # 0 => sessionID' \in used'
        /\ \A f \in BagToSet(air') : Explained(f)
    BY <1>1, <1>2 DEF HistoryIInv, CallsIInv
  <2>3. QED
    BY <1>7, <1>9, <2>1, <2>2, CallsStep
<1>11. ObserverIInv'
  BY <1>2, <1>7, <1>8, <1>9, ObserverStep DEF HistoryIInv
<1>12. OpeningIInv'
  <2>1. UNCHANGED replay
    BY <1>2 DEF inbound
  <2>2. QED
    BY <1>7, <1>9, <2>1, OpeningStep DEF HistoryIInv
<1>13. QED
  BY <1>2, <1>10, <1>11, <1>12, MemoryStep DEF HistoryIInv

LEMMA TakeSequenceHistory ==
  ASSUME NodeIInv, HistoryIInv, NEW t \in Tasks, TakeSequence(t), UNCHANGED node
  PROVE  HistoryIInv'
<1> DEFINE s == stack[t]
           a == [Head(s) EXCEPT !.step = "seal", !.sequence = nextSequence]
<1>1. s \in Chains(Good) /\ s # <<>> /\ Head(s) \in Good /\ Head(s).call = "Protect"
  BY TopGood DEF TakeSequence, Ensured, At, Idle, Top, HistoryIInv
<1>2. Head(s) \in Protects
  BY <1>1, Apart DEF Good, GoodCalls
<1>3. ~Head(s).disturbed => Head(s).key = config.OutboundKeyID /\ sessionID # 0
  <2>1. GoodProtect(Head(s), config.OutboundKeyID, sessionID)
    BY <1>1 DEF Good, GoodCalls
  <2>2. Head(s).step = "sequence" \/ sessionReady
    BY DEF TakeSequence, Ensured, At, Top
  <2>3. sessionReady <=> sessionID # 0
    BY DEF HistoryIInv, CallsIInv
  <2>4. QED
    BY <2>1, <2>2, <2>3 DEF GoodProtect
<1>4. a \in Protects /\ a.call = "Protect" /\ a.step = "seal" /\ a.sequence # 0
        /\ a.disturbed = Head(s).disturbed /\ a.key = Head(s).key
  <2>1. nextSequence \in Numbers /\ nextSequence # 0
    BY DEF NodeIInv, TakeSequence
  <2> HIDE DEF s
  <2>2. QED
    BY <1>2, <2>1 DEF Protects, Steps
<1>5. a \in Good
  <2> HIDE DEF a
  <2>1. GoodProtect(a, config.OutboundKeyID, sessionID)
    BY <1>3, <1>4 DEF GoodProtect
  <2>2. QED
    BY <1>4, <2>1 DEF Good, GoodCalls, Calls, Inner
<1>6. Follows(s, <<a>> \o Tail(s), Good)
  <2> HIDE DEF a, s
  <2>1. QED
    BY <1>1, <1>4, <1>5, Goes DEF Openings
<1>7. Plain(t)
  BY <1>6 DEF Plain, Becomes, TakeSequence
<1>8. QED
  BY <1>7, PlainStep DEF TakeSequence, node

LEMMA SealHistory ==
  ASSUME NodeIInv, HistoryIInv, NEW t \in Tasks, Seal(t), UNCHANGED node
  PROVE  HistoryIInv'
<1> DEFINE v == Returned(SealedBy(Top(t)), TRUE)
<1>1. ~Idle(t) /\ Top(t).call = "Protect" /\ Top(t).step = "seal" /\ Return(t, v)
  BY DEF Seal, At
<1>2. Top(t) \in Good /\ Top(t) \in Calls(alive)
  BY <1>1, TopGood DEF Idle, Top, HistoryIInv
<1>3. Top(t) \in Protects
  BY <1>1, <1>2, Apart
<1>4. GoodProtect(Top(t), config.OutboundKeyID, sessionID)
  BY <1>1, <1>2 DEF Good, GoodCalls
<1>5. SealedBy(Top(t)) \in Frames /\ Explained(SealedBy(Top(t)))
  <2>1. SealedBy(Top(t)) \in Envelopes
    BY <1>3, ConfigTyped DEF SealedBy, Envelopes, Protects, NodeIInv
  <2>2. Explained(SealedBy(Top(t)))
    BY <1>1, <1>4 DEF SealedBy, Explained, GoodProtect
  <2>3. QED
    BY <2>1, <2>2 DEF Frames
<1>6. v \in Outcomes /\ v.frame = SealedBy(Top(t))
  BY <1>5 DEF Returned, Outcomes
<1>7. Plain(t)
  <2> HIDE DEF v
  <2>1. QED
    BY <1>1, <1>5, <1>6, ReturnPlain DEF HistoryIInv
<1>8. QED
  BY <1>7, PlainStep DEF Seal, security, outbound, node

\* The payload goes through, or cannot be copied.
LEMMA PassHistory ==
  ASSUME NodeIInv, HistoryIInv, NEW t \in Tasks, NEW call \in {"Protect", "Unprotect"},
         PassThrough(t, call) \/ PassThrows(t, call), UNCHANGED node
  PROVE  HistoryIInv'
<1>1. /\ ~Idle(t) /\ Top(t).call = call /\ Top(t).step = "plain"
      /\ UNCHANGED <<config, sessionID, sessionReady, used, learned, inbound, air>>
  BY DEF PassThrough, PassThrows, At, security, outbound, node
<1>2. CASE PassThrough(t, call)
  <2>1. Unprotected \in Outcomes /\ Unprotected.frame = Plaintext
    BY DEF Unprotected, Returned, Outcomes, Frames
  <2>2. call = "Unprotect" => Head(Tail(stack[t])).policy # "Required"
    <3>1. SUFFICES ASSUME call = "Unprotect" PROVE Head(Tail(stack[t])).policy # "Required"
      OBVIOUS
    <3>2. /\ stack[t] \in Chains(Good) /\ stack[t] \in Stacks(alive) /\ stack[t] # <<>>
          /\ Head(stack[t]) \in Calls(alive)
      BY <1>1, TopGood DEF Idle, HistoryIInv
    <3>3. Head(stack[t]) \in Inner
      BY <1>1, <3>1, <3>2, Apart DEF Top
    <3>4. Tail(stack[t]) # <<>>
      BY <3>2, <3>3, Rest
    <3>5. Above(Head(stack[t]), Head(Tail(stack[t])))
      BY <3>2, <3>4, ChainTail
    <3>6. QED
      BY <1>1, <3>1, <3>5 DEF Above, Top
  <2>3. call = "Unprotect" =>
          Admitted(Unprotected, Head(Tail(stack[t])).policy, BagToSet(air))
    BY <2>2 DEF Admitted
  <2>4. Return(t, Unprotected) /\ CallsIInv
    BY <1>2 DEF PassThrough, HistoryIInv
  <2>5. Plain(t)
    BY <1>1, <2>1, <2>3, <2>4, ReturnPlain
  <2>6. QED
    BY <1>1, <2>5, PlainStep
<1>3. CASE PassThrows(t, call)
  <2>1. Throw(t) /\ CallsIInv /\ Top(t).call # "SetConfig"
    BY <1>1, <1>3 DEF PassThrows, HistoryIInv
  <2>2. Plain(t)
    BY <1>1, <2>1, ThrowPlain
  <2>3. QED
    BY <1>1, <2>2, PlainStep
<1>4. QED
  BY <1>2, <1>3

LEMMA ProtectHistory ==
  ASSUME NodeIInv, HistoryIInv, NEW t \in Tasks, ProtectStep(t), UNCHANGED node
  PROVE  HistoryIInv'
<1>1. CASE SessionFails(t) \/ SequenceExhausted(t) \/ SealFails(t)
  <2>1. ~Idle(t) /\ Top(t).call = "Protect" /\ Fail(t)
    BY <1>1 DEF SessionFails, SequenceExhausted, SealFails, Ensured, At
  <2>2. Plain(t)
    BY <2>1, FailPlain DEF HistoryIInv
  <2>3. QED
    BY <1>1, <2>2, PlainStep
       DEF SessionFails, SequenceExhausted, SealFails, security, outbound, node
<1>2. CASE ReturnRefused(t, "Protect")
  <2>1. Plain(t)
    BY <1>2, ReturnRefusedPlain DEF HistoryIInv
  <2>2. QED
    BY <1>2, <2>1, PlainStep DEF ReturnRefused, security, outbound, node
<1>3. QED
  BY <1>1, <1>2, PassHistory, EstablishSessionHistory, TakeSequenceHistory, SealHistory
     DEF ProtectStep

-----------------------------------------------------------------------------
(* Unprotect                                                                *)

\* The envelope stays in its task's hands.
LEMMA OpensHistory ==
  ASSUME NodeIInv, HistoryIInv, NEW t \in Tasks, ~Idle(t), Top(t).call = "Unprotect",
         NEW x \in Openings, Goto(t, x), x = "commit" => Opens(Top(t)),
         Admits(replay, Top(t).frame), UNCHANGED <<security, node>>
  PROVE  HistoryIInv'
<1> DEFINE s == stack[t]
           a == [Head(s) EXCEPT !.step = x]
           r == <<a>> \o Tail(s)
<1>1. a \in Good /\ a.call = "Unprotect" /\ a.step = x
  <2>1. x \in Steps /\ x \in {"open", "commit"} /\ CallsIInv
    BY DEF Openings, Steps, HistoryIInv
  <2>2. a \in Good /\ a.call = Top(t).call /\ a.step = x
    BY <2>1, TopGoesOn
  <2> HIDE DEF a
  <2>3. QED
    BY <2>2
<1>2. s \in Chains(Good) /\ s # <<>> /\ Head(s) \in Calls(alive) /\ Head(s).call = "Unprotect"
  BY TopGood DEF Idle, Top, HistoryIInv
<1>3. a.frame = Head(s).frame
  <2> HIDE DEF s
  <2>1. Head(s) \in Unprotects
    BY <1>2, Apart
  <2>2. QED
    BY <2>1 DEF Unprotects
<1>4. /\ r \in Chains(Good) /\ Head(r) = a
      /\ \A b \in Reconfiguring(s) : b = Head(s) \/ b \in Reconfiguring(r)
      /\ Unprotecting(r) => Unprotecting(s)
  <2> HIDE DEF a, s
  <2>1. a.step # "plain"
    BY <1>1 DEF Openings
  <2>2. QED
    BY <1>1, <1>2, <2>1, GoesOn
<1>5. Head(s) \notin Reconfiguring(s)
  BY <1>2 DEF Reconfiguring
<1>6. Becomes(t, r)
  BY DEF Goto, Becomes
<1>7. Admits(replay', Head(r).frame)
  <2>1. replay' = replay /\ Head(s) = Top(t)
    BY DEF security, inbound, Top
  <2> HIDE DEF r, a, s
  <2>2. QED
    BY <1>3, <1>4, <2>1
<1>8. UNCHANGED <<config, sessionID, sessionReady, used, learned, replay, inbound, air>>
  BY DEF security, outbound, inbound, node
<1>9. Good' = Good
  BY <1>8 DEF Good
<1> HIDE DEF r, a
<1>10. CallsIInv'
  <2>1. \A u \in Tasks : stack[u] \in Chains(Good')
    BY <1>9 DEF HistoryIInv, CallsIInv
  <2>2. /\ sessionReady' <=> sessionID' # 0
        /\ sessionID' # 0 => sessionID' \in used'
        /\ \A f \in BagToSet(air') : Explained(f)
    BY <1>8 DEF HistoryIInv, CallsIInv
  <2>3. QED
    BY <1>4, <1>6, <1>9, <2>1, <2>2, CallsStep
<1>11. ObserverIInv'
  BY <1>4, <1>5, <1>6, <1>8, ObserverStep DEF HistoryIInv
<1>12. OpeningIInv'
  BY <1>4, <1>6, <1>7, <1>8, OpeningStep DEF HistoryIInv
<1>13. QED
  BY <1>8, <1>10, <1>11, <1>12, MemoryStep DEF HistoryIInv

LEMMA CheckReplayHistory ==
  ASSUME NodeIInv, HistoryIInv, NEW t \in Tasks, CheckReplay(t), UNCHANGED node
  PROVE  HistoryIInv'
<1>1. ~Idle(t) /\ Top(t).call = "Unprotect" /\ UNCHANGED security
  BY DEF CheckReplay, At
<1>2. CASE Fresh(Top(t).frame)
  <2>1. Goto(t, "open") /\ Admits(replay, Top(t).frame)
    BY <1>2 DEF CheckReplay, Fresh, Admits
  <2>2. QED
    BY <1>1, <2>1, OpensHistory DEF Openings
<1>3. CASE ~Fresh(Top(t).frame)
  <2>1. Plain(t)
    BY <1>1, <1>3, FailPlain DEF CheckReplay, HistoryIInv
  <2>2. QED
    BY <1>1, <2>1, PlainStep DEF security, outbound, node
<1>4. QED
  BY <1>2, <1>3

LEMMA OpenHistory ==
  ASSUME NodeIInv, HistoryIInv, NEW t \in Tasks, Open(t), UNCHANGED node
  PROVE  HistoryIInv'
<1>1. ~Idle(t) /\ Top(t).call = "Unprotect" /\ Top(t).step = "open" /\ UNCHANGED security
  BY DEF Open, At
<1>2. CASE Opens(Top(t))
  <2>1. Goto(t, "commit")
    BY <1>2 DEF Open
  <2>2. Admits(replay, Top(t).frame)
    BY <1>1 DEF HistoryIInv, OpeningIInv, Opening, Openings, Idle, Top
  <2>3. QED
    BY <1>1, <1>2, <2>1, <2>2, OpensHistory DEF Openings
<1>3. CASE ~Opens(Top(t))
  <2>1. Plain(t)
    BY <1>1, <1>3, FailPlain DEF Open, HistoryIInv
  <2>2. QED
    BY <1>1, <2>1, PlainStep DEF security, outbound, node
<1>4. QED
  BY <1>2, <1>3

\* A sequence that is new to the table is committed.
LEMMA CommitMemory ==
  ASSUME MemoryIInv, NEW f, f.sequence \in Nat, Admits(replay, f),
         replay' = Commit(replay, Domain(f), f.sequence),
         accepted' = accepted (+) SetToBag({Identity(f)})
  PROVE  MemoryIInv'
<1> DEFINE d == Domain(f)
           n == f.sequence
           id == Identity(f)
<1>1. id.domain = d /\ id.sequence = n
  BY DEF Identity
<1>2. \A x : Seen(x) \in SUBSET Nat
  BY DEF Seen, MemoryIInv
<1>3. ASSUME NEW x PROVE Remembers(replay, x, Seen(x))
  <2>1. CASE x \in DOMAIN replay
    BY <2>1 DEF MemoryIInv
  <2>2. CASE x \notin DOMAIN replay
    BY <2>2 DEF MemoryIInv, Seen, Remembers
  <2>3. QED
    BY <2>1, <2>2
<1> HIDE DEF d, n, id
<1>4. n \in Nat /\ WouldAccept(replay, WindowSize, d, n)
  BY DEF Admits, d, n
<1>5. WindowSize \in 1 .. WordBits
  BY SharedAssumption
<1>6. n \notin Seen(d)
  BY <1>2, <1>3, <1>4, <1>5, RememberedAnswers
<1>7. id \notin BagToSet(accepted)
  BY <1>1, <1>6 DEF Seen
<1>8. /\ BagToSet(accepted') = BagToSet(accepted) \cup {id}
      /\ \A x \in BagToSet(accepted) : accepted'[x] = accepted[x] + 0
      /\ accepted'[id] = 0 + 1
  <2>1. accepted' = accepted (+) SetToBag({id})
    BY DEF id
  <2>2. QED
    BY <1>7, <2>1 DEF BagToSet, SetToBag, (+)
<1>9. Seen(d)' = Seen(d) \cup {n}
  BY <1>1, <1>8 DEF Seen
<1>10. ASSUME NEW x, x # d PROVE Seen(x)' = Seen(x)
  BY <1>1, <1>8, <1>10 DEF Seen
<1>11. replay' = Commit(replay, d, n)
  BY DEF d, n
<1>12. DOMAIN replay' = DOMAIN replay \cup {d} /\ Remembers(replay', d, Seen(d)')
  <2>1. Seen(d) \in SUBSET Nat /\ Remembers(replay, d, Seen(d))
    BY <1>2, <1>3
  <2>2. /\ DOMAIN Commit(replay, d, n) = DOMAIN replay \cup {d}
        /\ Remembers(Commit(replay, d, n), d, Seen(d) \cup {n})
    BY <1>4, <2>1, CommitRemembers
  <2>3. QED
    BY <1>9, <1>11, <2>2
<1>13. ASSUME NEW x, x # d PROVE Remembers(replay', x, Seen(x)')
  BY <1>3, <1>10, <1>11, <1>13, CommitKeeps
<1>14. DOMAIN replay' = {x.domain : x \in BagToSet(accepted')}
  BY <1>1, <1>8, <1>12 DEF MemoryIInv
<1>15. \A x \in BagToSet(accepted') : accepted'[x] = 1 /\ x.sequence \in Nat
  <2>1. \A x \in BagToSet(accepted) : accepted[x] = 1 /\ x.sequence \in Nat
    BY DEF MemoryIInv
  <2>2. ASSUME NEW x \in BagToSet(accepted)
        PROVE  accepted'[x] = 1
    <3>1. accepted[x] = 1 /\ accepted'[x] = accepted[x] + 0
      BY <1>8, <2>1
    <3>2. QED
      BY <3>1
  <2>3. accepted'[id] = 1 /\ id.sequence \in Nat
    BY <1>1, <1>4, <1>8
  <2>4. BagToSet(accepted') = BagToSet(accepted) \cup {id}
    BY <1>8
  <2>5. QED
    BY <2>1, <2>2, <2>3, <2>4
<1>16. \A x : Remembers(replay', x, Seen(x)')
  BY <1>12, <1>13
<1>17. QED
  BY <1>14, <1>15, <1>16 DEF MemoryIInv

LEMMA CommitReplayHistory ==
  ASSUME NodeIInv, HistoryIInv, NEW t \in Tasks, CommitReplay(t), UNCHANGED node
  PROVE  HistoryIInv'
<1> DEFINE a == Top(t)
           f == a.frame
           v == Returned(f, a.whole)
<1>1. /\ ~Idle(t) /\ a.call = "Unprotect" /\ a.step = "commit" /\ Return(t, v)
      /\ replay' = Commit(replay, Domain(f), f.sequence)
      /\ accepted' = accepted (+) SetToBag({Identity(f)})
      /\ UNCHANGED <<config, sessionID, sessionReady, used, learned, air>>
  BY DEF CommitReplay, At, outbound, node
<1>2. a \in Good /\ a \in Calls(alive)
  BY <1>1, TopGood DEF Idle, Top, HistoryIInv
<1>3. a \in Unprotects /\ GoodUnprotect(a, BagToSet(air))
  <2> HIDE DEF a
  <2>1. QED
    BY <1>1, <1>2, Apart DEF Good, GoodCalls
<1>4. Opening(stack[t]) /\ Unprotecting(stack[t])
  <2>1. Opening(stack[t])
    BY <1>1 DEF Opening, Openings, Idle, Top
  <2>2. QED
    BY <2>1, OpeningUnprotects DEF HistoryIInv
<1>5. Admits(replay, f)
  BY <1>4 DEF HistoryIInv, OpeningIInv, Top
<1>6. f # Plaintext
  BY <1>5 DEF Admits, Plaintext
<1>7. /\ f \in Envelopes /\ f \in BagToSet(air) /\ a.whole \in BOOLEAN
      /\ a.whole /\ f.key = f.keyID
  <2> HIDE DEF a
  <2>1. QED
    BY <1>1, <1>3, <1>6 DEF Unprotects, Frames, GoodUnprotect, Opens
<1>8. v \in Outcomes /\ v.frame = f /\ v.whole = a.whole
  <2> HIDE DEF f, a
  <2>1. QED
    BY <1>7 DEF Returned, Outcomes, Frames
<1>9. PICK r : Becomes(t, r) /\ Follows(stack[t], r, Good)
  <2> HIDE DEF v, f
  <2>1. Admitted(v, Head(Tail(stack[t])).policy, BagToSet(air))
    BY <1>7, <1>8 DEF Admitted
  <2>2. Plain(t)
    BY <1>1, <1>8, <2>1, ReturnPlain DEF HistoryIInv
  <2>3. QED
    BY <2>2 DEF Plain
<1>10. Good' = Good
  BY <1>1 DEF Good
<1>11. CallsIInv'
  <2>1. \A u \in Tasks : stack[u] \in Chains(Good')
    BY <1>10 DEF HistoryIInv, CallsIInv
  <2>2. /\ sessionReady' <=> sessionID' # 0
        /\ sessionID' # 0 => sessionID' \in used'
        /\ \A e \in BagToSet(air') : Explained(e)
    BY <1>1 DEF HistoryIInv, CallsIInv
  <2>3. QED
    BY <1>9, <1>10, <2>1, <2>2, CallsStep DEF Follows
<1>12. ObserverIInv'
  BY <1>1, <1>9, ObserverStep DEF HistoryIInv, Follows
<1>13. OpeningIInv'
  <2>1. \A u \in Tasks \ {t} : ~Unprotecting(stack[u])
    BY <1>4 DEF HistoryIInv, OpeningIInv
  <2>2. QED
    BY <1>9, <2>1, OpeningStep DEF HistoryIInv, Follows
<1>14. MemoryIInv'
  <2>1. f.sequence \in Nat
    BY <1>7, Ranges DEF Envelopes
  <2> HIDE DEF f
  <2>2. QED
    BY <1>1, <1>5, <2>1, CommitMemory DEF HistoryIInv
<1>15. QED
  BY <1>11, <1>12, <1>13, <1>14 DEF HistoryIInv

LEMMA UnprotectHistory ==
  ASSUME NodeIInv, HistoryIInv, NEW t \in Tasks, UnprotectStep(t), UNCHANGED node
  PROVE  HistoryIInv'
<1>1. CASE OpenThrows(t) \/ CommitThrows(t)
  <2>1. ~Idle(t) /\ Top(t).call = "Unprotect" /\ Throw(t) /\ UNCHANGED security
    BY <1>1 DEF OpenThrows, CommitThrows, At
  <2>2. Plain(t)
    BY <2>1, ThrowPlain DEF HistoryIInv
  <2>3. QED
    BY <2>1, <2>2, PlainStep DEF security, outbound, node
<1>2. CASE ReturnRefused(t, "Unprotect")
  <2>1. Plain(t)
    BY <1>2, ReturnRefusedPlain DEF HistoryIInv
  <2>2. QED
    BY <1>2, <2>1, PlainStep DEF ReturnRefused, security, outbound, node
<1>3. CASE RejectPlaintext(t)
  <2>1. ~Idle(t) /\ Top(t).call = "Unprotect" /\ Fail(t) /\ UNCHANGED security
    BY <1>3 DEF RejectPlaintext, At
  <2>2. Plain(t)
    BY <2>1, FailPlain DEF HistoryIInv
  <2>3. QED
    BY <2>1, <2>2, PlainStep DEF security, outbound, node
<1>4. QED
  BY <1>1, <1>2, <1>3, PassHistory, CheckReplayHistory, OpenHistory, CommitReplayHistory
     DEF UnprotectStep

-----------------------------------------------------------------------------
(* SetConfig and ResetReplayProtection                                      *)

\* The steps of a SetConfig: the object is left alone, the observer told.
LEMMA TellsStep ==
  ASSUME NodeIInv, HistoryIInv, NEW t \in Tasks, NEW r, Becomes(t, r), r \in Chains(Good),
         ~Opening(r), Unprotecting(r) => Unprotecting(stack[t]),
         UNCHANGED <<config, outbound, inbound, node>>, ObserverIInv'
  PROVE  HistoryIInv'
<1>1. UNCHANGED <<config, sessionID, sessionReady, used, replay, air>>
  BY DEF outbound, inbound, node
<1>2. Good' = Good
  BY <1>1 DEF Good
<1>3. CallsIInv'
  <2>1. \A u \in Tasks : stack[u] \in Chains(Good')
    BY <1>2 DEF HistoryIInv, CallsIInv
  <2>2. /\ sessionReady' <=> sessionID' # 0
        /\ sessionID' # 0 => sessionID' \in used'
        /\ \A f \in BagToSet(air') : Explained(f)
    BY <1>1 DEF HistoryIInv, CallsIInv
  <2>3. QED
    BY <1>2, <2>1, <2>2, CallsStep
<1>4. OpeningIInv'
  BY <1>1, OpeningStep DEF HistoryIInv
<1>5. QED
  BY <1>3, <1>4, MemoryStep DEF HistoryIInv

\* What the innermost call does not correct, another does.
LEMMA OthersCorrect ==
  ASSUME NodeIInv, ObserverIInv, NEW t \in Tasks, NEW r, Becomes(t, r),
         \A a \in Reconfiguring(stack[t]) : a = Top(t) \/ a \in Reconfiguring(r),
         UNCHANGED <<learned, sessionID>>, learned # sessionID => ~Corrects(Top(t))
  PROVE  ObserverIInv'
<1>1. stack'[t] = r /\ \A u \in Tasks \ {t} : stack'[u] = stack[u]
  BY Others
<1>2. SUFFICES ASSUME learned # sessionID
               PROVE  \E u \in Tasks : \E a \in Reconfiguring(stack'[u]) : Corrects(a)'
  BY DEF ObserverIInv
<1>3. PICK u \in Tasks : \E a \in Reconfiguring(stack[u]) : Corrects(a)
  BY <1>2 DEF ObserverIInv
<1>4. PICK a \in Reconfiguring(stack[u]) : Corrects(a)
  BY <1>3
<1>5. a # Top(t)
  BY <1>2, <1>4
<1>6. a \in Reconfiguring(stack'[u])
  BY <1>1, <1>4, <1>5
<1>7. Corrects(a)'
  BY <1>4 DEF Corrects
<1>8. QED
  BY <1>6, <1>7

LEMMA Tells ==
  ASSUME NodeIInv, CallsIInv, NEW t \in Tasks, ~Idle(t), Top(t).call = "SetConfig",
         NEW x \in {"established", "return"}, Goto(t, x) \/ NotifyThen(t, x)
  PROVE  \E r : /\ Becomes(t, r) /\ r \in Chains(Good) /\ ~Opening(r)
                /\ \A a \in Reconfiguring(stack[t]) : a = Top(t) \/ a \in Reconfiguring(r)
                /\ \E a \in Reconfiguring(r) : a.step = x
                /\ Unprotecting(r) => Unprotecting(stack[t])
<1> DEFINE s == stack[t]
           a == [Head(s) EXCEPT !.step = x]
<1>1. s \in Chains(Good) /\ s # <<>> /\ Head(s) = Top(t)
  BY TopGood DEF Idle, Top
<1>2. a \in Good /\ a.call = "SetConfig" /\ a.step = x
  <2>1. x \in Steps
    BY DEF Steps
  <2>2. a \in Good /\ a.call = Top(t).call /\ a.step = x
    BY <2>1, TopGoesOn
  <2> HIDE DEF a
  <2>3. QED
    BY <2>2
<1>3. CASE Goto(t, x)
  <2> DEFINE r == <<a>> \o Tail(s)
  <2>1. /\ r \in Chains(Good) /\ Head(r) = a
        /\ \A b \in Reconfiguring(s) : b = Head(s) \/ b \in Reconfiguring(r)
        /\ a \in Reconfiguring(r)
        /\ Unprotecting(r) => Unprotecting(s)
    <3> HIDE DEF a, s
    <3>1. QED
      BY <1>1, <1>2, GoesOn
  <2>2. Becomes(t, r)
    BY <1>3 DEF Goto, Becomes
  <2> HIDE DEF r, a
  <2>3. ~Opening(r)
    BY <1>2, <2>1 DEF Opening
  <2>4. QED
    BY <1>1, <1>2, <2>1, <2>2, <2>3
<1>4. CASE NotifyThen(t, x)
  <2> DEFINE r == <<Notice, a>> \o Tail(s)
  <2>1. Notice \in Good /\ a.step \notin Openings
    BY <1>2, NoticeGood DEF Good, Openings
  <2>2. /\ r \in Chains(Good) /\ ~Opening(r)
        /\ \A b \in Reconfiguring(s) : b = Head(s) \/ b \in Reconfiguring(r)
        /\ a \in Reconfiguring(r)
        /\ Unprotecting(r) => Unprotecting(s)
    <3> HIDE DEF a, s
    <3>1. QED
      BY <1>1, <1>2, <2>1, Notifies
  <2>3. Becomes(t, r)
    BY <1>4 DEF NotifyThen, Becomes
  <2> HIDE DEF r, a
  <2>4. QED
    BY <1>1, <1>2, <2>2, <2>3
<1>5. QED
  BY <1>3, <1>4

LEMMA TopReplaces ==
  ASSUME NodeIInv, CallsIInv, NEW t \in Tasks, ~Idle(t), Top(t).call = "SetConfig"
  PROVE  Top(t).previous # 0 => Top(t).previous # sessionID
<1>1. Top(t) \in Good
  BY TopGood DEF Idle, Top
<1>2. QED
  BY <1>1 DEF Good, GoodCalls, GoodSetConfig

LEMMA TellResetHistory ==
  ASSUME NodeIInv, HistoryIInv, NEW t \in Tasks, TellReset(t), UNCHANGED node
  PROVE  HistoryIInv'
<1> DEFINE p == Top(t).previous
<1>1. ~Idle(t) /\ Top(t).call = "SetConfig" /\ UNCHANGED <<config, outbound, inbound>>
  BY DEF TellReset, At
<1>2. p # 0 => p # sessionID
  BY <1>1, TopReplaces DEF HistoryIInv
<1>3. Goto(t, "established") \/ NotifyThen(t, "established")
  BY DEF TellReset
<1>4. PICK r : /\ Becomes(t, r) /\ r \in Chains(Good) /\ ~Opening(r)
               /\ \A a \in Reconfiguring(stack[t]) : a = Top(t) \/ a \in Reconfiguring(r)
               /\ \E a \in Reconfiguring(r) : a.step = "established"
               /\ Unprotecting(r) => Unprotecting(stack[t])
  <2>1. "established" \in {"established", "return"} /\ CallsIInv
    BY DEF HistoryIInv
  <2>2. QED
    BY <1>1, <1>3, <2>1, Tells
<1>5. learned' = IF p # 0 /\ learned = p THEN 0 ELSE learned
  BY <1>2 DEF TellReset, Learn
<1>6. ObserverIInv'
  <2>1. CASE learned' = 0
    <3>1. PICK a \in Reconfiguring(r) : a.step = "established"
      BY <1>4
    <3>2. a \in Reconfiguring(stack'[t])
      BY <1>4, Others
    <3>3. Corrects(a)'
      BY <2>1, <3>1 DEF Corrects
    <3>4. QED
      BY <3>2, <3>3 DEF ObserverIInv
  <2>2. CASE learned' # 0
    <3>1. UNCHANGED <<learned, sessionID>> /\ learned # 0
      BY <1>1, <1>5, <2>2 DEF outbound
    <3>2. ~Corrects(Top(t))
      BY <1>5, <2>2, <3>1 DEF Corrects
    <3>3. QED
      BY <1>4, <3>1, <3>2, OthersCorrect DEF HistoryIInv
  <2>3. QED
    BY <2>1, <2>2
<1>7. QED
  BY <1>1, <1>4, <1>6, TellsStep

LEMMA TellEstablishedHistory ==
  ASSUME NodeIInv, HistoryIInv, NEW t \in Tasks, TellEstablished(t), UNCHANGED node
  PROVE  HistoryIInv'
<1>1. /\ ~Idle(t) /\ Top(t).call = "SetConfig" /\ Top(t).step = "established"
      /\ UNCHANGED <<config, outbound, inbound>>
  BY DEF TellEstablished, At
<1>2. Top(t).previous # 0 => Top(t).previous # sessionID
  BY <1>1, TopReplaces DEF HistoryIInv
<1>3. Goto(t, "return") \/ NotifyThen(t, "return")
  BY DEF TellEstablished
<1>4. PICK r : /\ Becomes(t, r) /\ r \in Chains(Good) /\ ~Opening(r)
               /\ \A a \in Reconfiguring(stack[t]) : a = Top(t) \/ a \in Reconfiguring(r)
               /\ \E a \in Reconfiguring(r) : a.step = "return"
               /\ Unprotecting(r) => Unprotecting(stack[t])
  <2>1. "return" \in {"established", "return"} /\ CallsIInv
    BY DEF HistoryIInv
  <2>2. QED
    BY <1>1, <1>3, <2>1, Tells
<1>5. UNCHANGED sessionID /\ (sessionReady <=> sessionID # 0)
  BY <1>1 DEF outbound, HistoryIInv, CallsIInv
<1>6. ObserverIInv'
  <2>1. CASE sessionReady /\ sessionID # Top(t).previous
    <3>1. learned' = sessionID'
      BY <1>5, <2>1 DEF TellEstablished, Learn
    <3>2. QED
      BY <3>1 DEF ObserverIInv
  <2>2. CASE ~(sessionReady /\ sessionID # Top(t).previous)
    <3>1. UNCHANGED learned
      BY <2>2 DEF TellEstablished
    <3>2. sessionID = 0
      BY <1>2, <1>5, <2>2
    <3>3. learned # sessionID => ~Corrects(Top(t))
      BY <1>1, <3>2 DEF Corrects
    <3>4. QED
      BY <1>4, <1>5, <3>1, <3>3, OthersCorrect DEF HistoryIInv
  <2>3. QED
    BY <2>1, <2>2
<1>7. QED
  BY <1>1, <1>4, <1>6, TellsStep

LEMMA SetConfigReturnsHistory ==
  ASSUME NodeIInv, HistoryIInv, NEW t \in Tasks, SetConfigReturns(t), UNCHANGED node
  PROVE  HistoryIInv'
<1> DEFINE r == Tail(stack[t])
<1>1. ~Idle(t) /\ Top(t).step = "return" /\ Leave(t) /\ UNCHANGED security
  BY DEF SetConfigReturns, At
<1>2. /\ r \in Chains(Good) /\ ~Opening(r)
      /\ \A a \in Reconfiguring(stack[t]) : a = Top(t) \/ a \in Reconfiguring(r)
      /\ Unprotecting(r) => Unprotecting(stack[t])
  BY <1>1, TopGood, ChainTail DEF Idle, Top, HistoryIInv
<1>3. Becomes(t, r)
  BY <1>1 DEF Leave, Becomes
<1> HIDE DEF r
<1>4. UNCHANGED <<learned, sessionID>> /\ UNCHANGED <<config, outbound, inbound>>
  BY <1>1 DEF security, outbound
<1>5. ~Corrects(Top(t))
  BY <1>1 DEF Corrects
<1>6. ObserverIInv'
  BY <1>2, <1>3, <1>4, <1>5, OthersCorrect DEF HistoryIInv
<1>7. QED
  BY <1>2, <1>3, <1>4, <1>6, TellsStep

LEMMA SetConfigStepHistory ==
  ASSUME NodeIInv, HistoryIInv, NEW t \in Tasks, SetConfigStep(t), UNCHANGED node
  PROVE  HistoryIInv'
BY TellResetHistory, TellEstablishedHistory, SetConfigReturnsHistory DEF SetConfigStep

\* Where the application acts, any call may be made.
LEMMA ActingTop ==
  ASSUME NEW t \in Tasks, Acting(t), stack[t] # <<>>
  PROVE  /\ Head(stack[t]).call \in {"Notice", "Handle"}
         /\ Head(stack[t]).step \notin Openings
BY DEF Acting, Idle, Observing, InCallback, At, Top, Openings

LEMMA AloneExcludes ==
  ASSUME NodeIInv, NEW t \in Tasks, NEW call, Alone(t, call),
         NEW u \in Tasks \ {t}, NEW i \in 1 .. Len(stack[u])
  PROVE  stack[u][i].call \notin Excludes(call)
<1>1. DOMAIN stack[u] = 1 .. Len(stack[u])
  BY DEF NodeIInv, Stacks
<1>2. QED
  BY <1>1 DEF Alone, Inside

LEMMA AloneUnprotects ==
  ASSUME NodeIInv, NEW t \in Tasks, Alone(t, "Unprotect") \/ Alone(t, "SetConfig")
  PROVE  \A u \in Tasks \ {t} : ~Unprotecting(stack[u])
<1>1. "Unprotect" \in Excludes("Unprotect") /\ "Unprotect" \in Excludes("SetConfig")
  BY DEF Excludes
<1>2. QED
  BY <1>1, AloneExcludes DEF Unprotecting

LEMMA ForgetMemory ==
  ASSUME replay' = NoStates, accepted' = EmptyBag
  PROVE  MemoryIInv'
<1>1. BagToSet(accepted') = {} /\ DOMAIN replay' = {}
  BY DEF EmptyBag, SetToBag, BagToSet, NoStates
<1>2. QED
  BY <1>1 DEF MemoryIInv

LEMMA ResetHistory ==
  ASSUME NodeIInv, HistoryIInv, NEW t \in Tasks, Acting(t), ResetReplayProtection(t),
         UNCHANGED node
  PROVE  HistoryIInv'
<1> DEFINE r == <<Notice>> \o stack[t]
<1>1. UNCHANGED <<config, sessionID, sessionReady, used, learned, air>>
  BY DEF ResetReplayProtection, outbound, node
<1>2. Notice \in Good /\ Notice.call = "Notice"
  BY NoticeGood DEF Good, Notice
<1>3. stack[t] # <<>> => Above(Notice, Head(stack[t]))
  BY <1>2, ActingTop DEF Above
<1>4. /\ r \in Chains(Good) /\ Head(r) = Notice
      /\ Reconfiguring(stack[t]) \subseteq Reconfiguring(r)
      /\ Unprotecting(r) => Notice.call = "Unprotect" \/ Unprotecting(stack[t])
  BY <1>2, <1>3, TopGood, ChainCons DEF HistoryIInv
<1>5. Becomes(t, r)
  BY DEF ResetReplayProtection, Push, Becomes
<1> HIDE DEF r
<1>6. ~Opening(r)
  BY <1>2, <1>4 DEF Opening
<1>7. Good' = Good
  BY <1>1 DEF Good
<1>8. CallsIInv'
  <2>1. \A u \in Tasks : stack[u] \in Chains(Good')
    BY <1>7 DEF HistoryIInv, CallsIInv
  <2>2. /\ sessionReady' <=> sessionID' # 0
        /\ sessionID' # 0 => sessionID' \in used'
        /\ \A f \in BagToSet(air') : Explained(f)
    BY <1>1 DEF HistoryIInv, CallsIInv
  <2>3. QED
    BY <1>4, <1>5, <1>7, <2>1, <2>2, CallsStep
<1>9. ObserverIInv'
  BY <1>1, <1>4, <1>5, ObserverStep DEF HistoryIInv
<1>10. OpeningIInv'
  <2>1. \A u \in Tasks \ {t} : ~Unprotecting(stack[u])
    BY AloneUnprotects DEF ResetReplayProtection
  <2>2. QED
    BY <1>2, <1>4, <1>5, <1>6, <2>1, OpeningStep DEF HistoryIInv
<1>11. MemoryIInv'
  BY ForgetMemory DEF ResetReplayProtection
<1>12. QED
  BY <1>8, <1>9, <1>10, <1>11 DEF HistoryIInv

\* A stack without a Protect has nothing to disturb.
LEMMA Undisturbed ==
  ASSUME NEW T, NEW s \in Seq(T), \A i \in 1 .. Len(s) : s[i].call # "Protect"
  PROVE  Disturbed(s) = s
<1>1. DOMAIN s = 1 .. Len(s) /\ s = [i \in 1 .. Len(s) |-> s[i]]
  OBVIOUS
<1>2. QED
  BY <1>1 DEF Disturbed

LEMMA SetConfigHistory ==
  ASSUME NodeIInv, HistoryIInv, NEW t \in Tasks, NEW c \in Configs, Acting(t),
         SetConfig(t, c), UNCHANGED node
  PROVE  HistoryIInv'
<1> DEFINE s == stack[t]
           d == Disturbed(s)
           a == [call |-> "SetConfig", step |-> "reset", previous |-> sessionID]
           r == <<Notice, a>> \o d
           G == GoodCalls(config.OutboundKeyID, sessionID, used, BagToSet(air))
           claimed == used \cup ({c.SessionID} \ {0})
           H == GoodCalls(c.OutboundKeyID, c.SessionID, claimed, BagToSet(air))
<1>1. /\ config' = c /\ sessionID' = c.SessionID /\ c.SessionID \notin used /\ used' = claimed
      /\ replay' = NoStates /\ accepted' = EmptyBag /\ (sessionReady' <=> c.SessionID # 0)
      /\ UNCHANGED <<learned, air>>
  BY DEF SetConfig, node
<1>2. Good = G /\ Good' = H
  BY <1>1 DEF Good
<1>3. \A u \in Tasks : stack[u] \in Chains(G)
  BY <1>2 DEF HistoryIInv, CallsIInv
<1>4. ASSUME NEW q \in Chains(G)
      PROVE  /\ Disturbed(q) \in Chains(H)
             /\ Reconfiguring(q) \subseteq Reconfiguring(Disturbed(q))
             /\ Unprotecting(Disturbed(q)) => Unprotecting(q)
             /\ Disturbed(q) # <<>> => /\ q # <<>> /\ Head(Disturbed(q)).call = Head(q).call
                                       /\ Head(Disturbed(q)).step = Head(q).step
  <2>1. c.SessionID \notin used
    BY <1>1
  <2>2. q \in Chains(GoodCalls(config.OutboundKeyID, sessionID, used, BagToSet(air)))
    OBVIOUS
  <2>3. H = GoodCalls(c.OutboundKeyID, c.SessionID, used \cup ({c.SessionID} \ {0}), BagToSet(air))
    OBVIOUS
  <2> HIDE DEF G, H, s, d, r, a
  <2>4. QED
    BY <2>1, <2>2, <2>3, ChainDisturbed
<1>5. \A u \in Tasks \ {t} : stack[u] \in Chains(H)
  <2>1. ASSUME NEW u \in Tasks \ {t} PROVE Disturbed(stack[u]) = stack[u]
    <3>1. "Protect" \in Excludes("SetConfig") /\ Alone(t, "SetConfig")
      BY DEF Excludes, SetConfig
    <3>2. \A i \in 1 .. Len(stack[u]) : stack[u][i].call # "Protect"
      BY <3>1, AloneExcludes
    <3>3. stack[u] \in Seq(G)
      BY <1>3 DEF Chains
    <3>4. QED
      BY <3>2, <3>3, Undisturbed
  <2>2. QED
    BY <1>3, <1>4, <2>1
<1>6. a \in H /\ a.call = "SetConfig" /\ a.step = "reset" /\ a.previous = sessionID
  <2>1. a \in SetConfigs
    BY DEF SetConfigs, Steps, NodeIInv
  <2>2. GoodSetConfig(a, c.SessionID, claimed)
    BY <1>1 DEF GoodSetConfig, HistoryIInv, CallsIInv
  <2>3. QED
    BY <2>1, <2>2 DEF GoodCalls, Calls
<1>7. Notice \in H
  BY NoticeGood
<1> HIDE DEF G, H
<1>8. /\ d \in Chains(H) /\ Reconfiguring(s) \subseteq Reconfiguring(d)
      /\ Unprotecting(d) => Unprotecting(s)
      /\ d # <<>> => /\ Head(d).call \in {"Notice", "Handle"}
                     /\ Head(d).step \notin Openings
  BY <1>3, <1>4, ActingTop
<1>9. Above(Notice, a) /\ (d # <<>> => Above(a, Head(d)))
  <2> HIDE DEF a, d
  <2>1. QED
    BY <1>6, <1>8 DEF Above, Notice, Openings
<1>10. /\ r \in Chains(H) /\ Head(r) = Notice
       /\ Reconfiguring(d) \subseteq Reconfiguring(r)
       /\ a \in Reconfiguring(r)
       /\ Unprotecting(r) => Notice.call = "Unprotect" \/ a.call = "Unprotect" \/ Unprotecting(d)
  <2> HIDE DEF a, d
  <2>1. QED
    BY <1>6, <1>7, <1>8, <1>9, ChainPair
<1>11. Becomes(t, r)
  BY DEF SetConfig, Becomes
<1> HIDE DEF r, d, a
<1>12. ~Opening(r) /\ (Unprotecting(r) => Unprotecting(s))
  BY <1>6, <1>8, <1>10 DEF Opening, Notice
<1>13. CallsIInv'
  <2>1. /\ sessionReady' <=> sessionID' # 0
        /\ sessionID' # 0 => sessionID' \in used'
        /\ \A f \in BagToSet(air') : Explained(f)
    BY <1>1 DEF HistoryIInv, CallsIInv
  <2>2. QED
    BY <1>2, <1>5, <1>10, <1>11, <2>1, CallsStep
<1>14. ObserverIInv'
  <2>1. stack'[t] = r /\ \A u \in Tasks \ {t} : stack'[u] = stack[u]
    BY <1>11, Others
  <2>2. CASE learned = sessionID
    <3>1. PICK b \in Reconfiguring(r) : b.step = "reset" /\ b.previous = sessionID
      BY <1>6, <1>10
    <3>2. Corrects(b)'
      BY <1>1, <2>2, <3>1 DEF Corrects
    <3>3. QED
      BY <2>1, <3>2 DEF ObserverIInv
  <2>3. CASE learned # sessionID
    <3>1. PICK u \in Tasks : \E b \in Reconfiguring(stack[u]) : Corrects(b)
      BY <2>3 DEF HistoryIInv, ObserverIInv
    <3>2. Reconfiguring(stack[u]) \subseteq Reconfiguring(stack'[u])
      BY <1>8, <1>10, <2>1
    <3>3. \A b : Corrects(b) => Corrects(b)'
      BY <1>1 DEF Corrects
    <3>4. QED
      BY <3>1, <3>2, <3>3 DEF ObserverIInv
  <2>4. QED
    BY <2>2, <2>3
<1>15. OpeningIInv'
  <2>1. \A u \in Tasks \ {t} : ~Unprotecting(stack[u])
    BY AloneUnprotects DEF SetConfig
  <2>2. QED
    BY <1>11, <1>12, <2>1, OpeningStep DEF HistoryIInv
<1>16. MemoryIInv'
  BY <1>1, ForgetMemory
<1>17. QED
  BY <1>13, <1>14, <1>15, <1>16 DEF HistoryIInv

-----------------------------------------------------------------------------
(* Send, HandleReceive and the carriers                                     *)

LEMMA SendHistory ==
  ASSUME NodeIInv, HistoryIInv, NEW t \in Tasks, NEW x \in Decorators, Acting(t), Send(t, x)
  PROVE  HistoryIInv'
<1> DEFINE s == stack[t]
           b == [call |-> "Send", step |-> "protecting", outcome |-> Refused, decorator |-> x]
           r == <<ProtectCall, b>> \o s
<1>1. ProtectCall \in Good /\ ProtectCall.call = "Protect"
  <2>1. ProtectCall \in Protects
    BY ConfigTyped, Ranges DEF ProtectCall, Protects, Steps, NodeIInv
  <2>2. GoodProtect(ProtectCall, config.OutboundKeyID, sessionID)
    BY DEF ProtectCall, GoodProtect
  <2>3. QED
    BY <2>1, <2>2 DEF Good, GoodCalls, Calls, Inner, Protects
<1>2. b \in Good /\ b.call = "Send" /\ b.step = "protecting"
  <2>1. b \in Sends(Decorators)
    BY DEF Sends, Outcomes, Steps
  <2>2. GoodSend(b)
    BY DEF GoodSend, Refused
  <2>3. QED
    BY <2>1, <2>2 DEF Good, GoodCalls, Calls, Outer
<1>3. s \in Chains(Good)
  BY TopGood DEF HistoryIInv
<1>4. Above(ProtectCall, b) /\ (s # <<>> => Above(b, Head(s)))
  <2>1. s # <<>> => Head(s).call \in {"Notice", "Handle"} /\ Head(s).step \notin Openings
    BY ActingTop
  <2> HIDE DEF b, s
  <2>2. QED
    BY <1>1, <1>2, <2>1 DEF Above, Openings
<1>5. /\ r \in Chains(Good) /\ Head(r) = ProtectCall
      /\ Reconfiguring(s) \subseteq Reconfiguring(r)
      /\ Unprotecting(r) => ProtectCall.call = "Unprotect" \/ b.call = "Unprotect"
                              \/ Unprotecting(s)
  <2> HIDE DEF b, s
  <2>1. QED
    BY <1>1, <1>2, <1>3, <1>4, ChainPair
<1>6. Becomes(t, r)
  BY DEF Send, Push, Becomes
<1> HIDE DEF r, b
<1>7. Follows(s, r, Good)
  BY <1>1, <1>2, <1>5 DEF Follows, Opening
<1>8. QED
  BY <1>6, <1>7, PlainStep DEF Plain, Send, security, outbound, node

LEMMA TakenAir ==
  ASSUME NEW f, Taken(f)
  PROVE  BagToSet(air') = BagToSet(air) \cup ({f} \ {Plaintext})
BY DEF Taken, BagToSet, SetToBag, (+)

\* The object is left alone; a carrier may have taken an envelope.
LEMMA CarrierStep ==
  ASSUME NodeIInv, HistoryIInv, NEW t \in Tasks, NEW r, Becomes(t, r),
         r \in Chains(Good'), ~Opening(r), Reconfiguring(stack[t]) \subseteq Reconfiguring(r),
         Unprotecting(r) => Unprotecting(stack[t]) \/ \A u \in Tasks \ {t} : ~Unprotecting(stack[u]),
         Good \subseteq Good', UNCHANGED security, \A f \in BagToSet(air') : Explained(f)
  PROVE  HistoryIInv'
<1>1. UNCHANGED <<config, sessionID, sessionReady, used, learned, replay, inbound>>
  BY DEF security, outbound, inbound
<1>2. CallsIInv'
  <2>1. \A u \in Tasks : stack[u] \in Chains(Good')
    BY MoreChains DEF HistoryIInv, CallsIInv
  <2>2. (sessionReady' <=> sessionID' # 0) /\ (sessionID' # 0 => sessionID' \in used')
    BY <1>1 DEF HistoryIInv, CallsIInv
  <2>3. QED
    BY <2>1, <2>2, CallsStep
<1>3. ObserverIInv'
  BY <1>1, ObserverStep DEF HistoryIInv
<1>4. OpeningIInv'
  BY <1>1, OpeningStep DEF HistoryIInv
<1>5. QED
  BY <1>1, <1>2, <1>3, <1>4, MemoryStep DEF HistoryIInv

LEMMA AirGrows ==
  ASSUME BagToSet(air) \subseteq BagToSet(air'), UNCHANGED security
  PROVE  Good \subseteq Good'
<1>1. UNCHANGED <<config, sessionID, used>>
  BY DEF security, outbound
<1>2. GoodCalls(config.OutboundKeyID, sessionID, used, BagToSet(air))
        \subseteq GoodCalls(config.OutboundKeyID, sessionID, used, BagToSet(air'))
  BY GoodGrows
<1>3. QED
  BY <1>1, <1>2 DEF Good

LEMMA ReceiveHistory ==
  ASSUME NodeIInv, HistoryIInv, NEW t \in Tasks, NEW c \in Carriers, NEW f \in Frames,
         NEW whole \in BOOLEAN, NEW below \in Chains(Good),
         Receive(t, c, f, whole, below), f = Plaintext \/ f \in BagToSet(air'),
         below # <<>> => Head(below).call = "Send" /\ Head(below).step \notin Openings,
         Reconfiguring(stack[t]) \subseteq Reconfiguring(below),
         BagToSet(air) \subseteq BagToSet(air'), \A e \in BagToSet(air') : Explained(e),
         UNCHANGED security
  PROVE  HistoryIInv'
<1> DEFINE a == UnprotectCall(f, whole)
           b == [call |-> "Handle", step |-> "unprotecting", outcome |-> Refused,
                 decorator |-> receiver[c], policy |-> config.Policy]
           r == <<a, b>> \o below
<1>1. Good \subseteq Good' /\ below \in Chains(Good')
  BY AirGrows, MoreChains
<1>2. /\ a \in Good' /\ a.call = "Unprotect" /\ a.step \in {"check", "reject", "plain"}
      /\ a.step = "plain" => config.Policy # "Required"
  <2>1. /\ a \in Unprotects /\ a.call = "Unprotect" /\ a.frame = f
        /\ a.step \in {"check", "reject", "plain"}
        /\ a.step = "plain" => config.Policy # "Required"
    BY DEF UnprotectCall, Unprotects, Steps
  <2> HIDE DEF a
  <2>2. GoodUnprotect(a, BagToSet(air'))
    BY <2>1 DEF GoodUnprotect
  <2>3. QED
    BY <2>1, <2>2 DEF Good, GoodCalls, Calls, Inner
<1>3. /\ b \in Good' /\ b.call = "Handle" /\ b.step = "unprotecting"
      /\ b.policy = config.Policy
  <2>1. receiver[c] \in Decorators /\ config.Policy \in Policies
    BY ConfigTyped DEF NodeIInv, Receive
  <2>2. b \in Handles(Decorators)
    BY <2>1 DEF Handles, Outcomes, Steps
  <2>3. GoodHandle(b, BagToSet(air'))
    BY DEF GoodHandle, Refused
  <2>4. QED
    BY <2>2, <2>3 DEF Good, GoodCalls, Calls, Outer
<1>4. Above(a, b) /\ (below # <<>> => Above(b, Head(below)))
  <2> HIDE DEF a, b
  <2>1. QED
    BY <1>2, <1>3 DEF Above, Openings
<1>5. /\ r \in Chains(Good') /\ Head(r) = a
      /\ Reconfiguring(below) \subseteq Reconfiguring(r)
  <2> HIDE DEF a, b
  <2>1. QED
    BY <1>1, <1>2, <1>3, <1>4, ChainPair
<1>6. Becomes(t, r)
  BY DEF Receive, Becomes
<1> HIDE DEF r, a
<1>7. ~Opening(r)
  BY <1>2, <1>5 DEF Opening, Openings
<1>8. \A u \in Tasks \ {t} : ~Unprotecting(stack[u])
  BY AloneUnprotects DEF Receive
<1>9. Reconfiguring(stack[t]) \subseteq Reconfiguring(r)
  BY <1>5
<1>10. QED
  BY <1>1, <1>5, <1>6, <1>7, <1>8, <1>9, CarrierStep

\* What a Send has in its hands is explained.
LEMMA HeldExplained ==
  ASSUME NodeIInv, CallsIInv, NEW t \in Tasks, At(t, "Send", "returned"), Top(t).outcome.ok
  PROVE  /\ ~Idle(t) /\ Top(t) \in Sends(alive) /\ Top(t).outcome.frame \in Frames
         /\ Top(t).outcome.frame = Plaintext \/ Explained(Top(t).outcome.frame)
<1>1. ~Idle(t) /\ Top(t) \in Good /\ Top(t) \in Calls(alive) /\ Top(t).call = "Send"
  BY TopGood DEF At, Idle, Top
<1>2. Top(t) \in Sends(alive)
  BY <1>1, Apart
<1>3. Top(t).outcome.frame = Plaintext \/ Explained(Top(t).outcome.frame)
  BY <1>1 DEF Good, GoodCalls, GoodSend
<1>4. ASSUME NEW o \in Outcomes, o.ok
      PROVE  o.frame \in Frames
  <2>1. o # Refused
    BY <1>4 DEF Refused
  <2>2. o \in [ok : {TRUE}, frame : Frames, whole : BOOLEAN]
    BY <2>1 DEF Outcomes
  <2>3. QED
    BY <2>2
<1>5. Top(t).outcome \in Outcomes
  BY <1>2 DEF Sends
<1>6. QED
  BY <1>1, <1>2, <1>3, <1>4, <1>5

LEMMA CarrierAcceptsHistory ==
  ASSUME NodeIInv, HistoryIInv, NEW t \in Tasks, CarrierAccepts(t)
  PROVE  HistoryIInv'
<1> DEFINE f == Top(t).outcome.frame
<1>1. /\ ~Idle(t) /\ Top(t).call = "Send" /\ (f = Plaintext \/ Explained(f))
      /\ Taken(f) /\ Leave(t)
  BY HeldExplained DEF CarrierAccepts, At, HistoryIInv
<1> HIDE DEF f
<1>2. BagToSet(air') = BagToSet(air) \cup ({f} \ {Plaintext})
  BY <1>1, TakenAir
<1>3. \A e \in BagToSet(air') : Explained(e)
  BY <1>1, <1>2 DEF HistoryIInv, CallsIInv
<1>4. UNCHANGED security
  BY DEF CarrierAccepts
<1>5. Good \subseteq Good'
  BY <1>2, <1>4, AirGrows
<1>6. PICK r : Becomes(t, r) /\ Follows(stack[t], r, Good)
  BY <1>1, LeavePlain DEF HistoryIInv, Plain
<1>7. r \in Chains(Good')
  BY <1>5, <1>6, MoreChains DEF Follows
<1>8. QED
  BY <1>3, <1>4, <1>5, <1>6, <1>7, CarrierStep DEF Follows

LEMMA CarrierLoopsHistory ==
  ASSUME NodeIInv, HistoryIInv, NEW t \in Tasks, CarrierLoops(t)
  PROVE  HistoryIInv'
<1> DEFINE f     == Top(t).outcome.frame
           s     == stack[t]
           a     == [Head(s) EXCEPT !.step = "sent"]
           below == <<a>> \o Tail(s)
           c     == CarrierOf[Top(t).decorator]
<1>1. /\ ~Idle(t) /\ Top(t) \in Sends(alive) /\ f \in Frames
      /\ f = Plaintext \/ Explained(f)
      /\ Taken(f)
      /\ Receive(t, c, f, TRUE, below) /\ UNCHANGED security /\ Top(t).call = "Send"
  BY HeldExplained DEF CarrierLoops, At, HistoryIInv, Top
<1>2. c \in Carriers
  BY <1>1, NodeAssumption DEF Sends, NodeIInv
<1>3. s \in Chains(Good) /\ s # <<>> /\ Head(s).call = "Send"
  BY <1>1, TopGood DEF Idle, Top, HistoryIInv
<1>4. a \in Good /\ a.call = "Send" /\ a.step = "sent"
  <2>1. CallsIInv /\ "sent" \in Steps
    BY DEF Steps, HistoryIInv
  <2>2. a \in Good /\ a.call = Top(t).call /\ a.step = "sent"
    BY <1>1, <2>1, TopGoesOn
  <2> HIDE DEF a
  <2>3. QED
    BY <1>1, <2>2
<1>5. /\ below \in Chains(Good) /\ Head(below) = a
      /\ \A b \in Reconfiguring(s) : b = Head(s) \/ b \in Reconfiguring(below)
  <2> HIDE DEF a, s
  <2>1. QED
    BY <1>3, <1>4, GoesOn
<1>6. Reconfiguring(s) \subseteq Reconfiguring(below)
  <2>1. Head(s) \notin Reconfiguring(s)
    BY <1>3 DEF Reconfiguring
  <2> HIDE DEF below, s
  <2>2. QED
    BY <1>5, <2>1
<1> HIDE DEF f, c, below, a
<1>7. BagToSet(air') = BagToSet(air) \cup ({f} \ {Plaintext})
  BY <1>1, TakenAir
<1>8. \A e \in BagToSet(air') : Explained(e)
  BY <1>1, <1>7 DEF HistoryIInv, CallsIInv
<1>9. Head(below).call = "Send" /\ Head(below).step \notin Openings
  BY <1>4, <1>5 DEF Openings
<1>10. QED
  BY <1>1, <1>2, <1>5, <1>6, <1>7, <1>8, <1>9, ReceiveHistory

LEMMA TransportHistory ==
  ASSUME NodeIInv, HistoryIInv, NEW t \in Tasks, Transport(t)
  PROVE  HistoryIInv'
<1>1. CASE Dispatch(t)
  <2>1. ~Idle(t) /\ Top(t).call = "Handle" /\ UNCHANGED <<security, node>>
    BY <1>1 DEF Dispatch, At
  <2>2. \/ Leave(t) \/ Goto(t, "reporting")
        \/ Goto(t, "delivering") /\ Top(t).outcome.ok
    BY <1>1 DEF Dispatch
  <2>3. "reporting" \in Steps \ Openings /\ "delivering" \in Steps \ Openings
    BY DEF Steps, Openings
  <2>4. Plain(t)
    BY <2>1, <2>2, <2>3, LeavePlain, GotoPlain DEF HistoryIInv
  <2>5. QED
    BY <2>1, <2>4, PlainStep DEF security, outbound, node
<1>2. CASE CallbackReturns(t) \/ SendFails(t) \/ SendReturns(t)
  <2>1. /\ ~Idle(t) /\ Top(t).call \in {"Handle", "Send"} /\ Leave(t)
        /\ UNCHANGED <<security, node>>
    BY <1>2 DEF CallbackReturns, InCallback, SendFails, SendReturns, At
  <2>2. Plain(t)
    BY <2>1, LeavePlain DEF HistoryIInv
  <2>3. QED
    BY <2>1, <2>2, PlainStep DEF security, outbound, node
<1>3. CASE CallbackThrows(t)
  <2>1. ~Idle(t) /\ Top(t).call = "Handle" /\ Throw(t) /\ UNCHANGED <<security, node>>
    BY <1>3 DEF CallbackThrows, InCallback, At
  <2>2. Plain(t)
    BY <2>1, ThrowPlain DEF HistoryIInv
  <2>3. QED
    BY <2>1, <2>2, PlainStep DEF security, outbound, node
<1>4. QED
  BY <1>1, <1>2, <1>3, CarrierAcceptsHistory, CarrierLoopsHistory DEF Transport

LEMMA ArriveHistory ==
  ASSUME NodeIInv, HistoryIInv, NEW t \in Tasks, NEW c \in Carriers,
         NEW f \in BagToSet(air) \cup {Plaintext}, NEW whole \in BOOLEAN, Arrive(t, c, f, whole)
  PROVE  HistoryIInv'
<1>1. /\ f \in Frames /\ UNCHANGED <<security, air>> /\ stack[t] = <<>>
      /\ Receive(t, c, f, whole, <<>>)
  BY DEF Arrive, Idle, node, NodeIInv, Frames
<1>2. <<>> \in Chains(Good) /\ Reconfiguring(stack[t]) \subseteq Reconfiguring(<<>>)
  BY <1>1 DEF Chains
<1>3. \A e \in BagToSet(air') : Explained(e)
  BY <1>1 DEF HistoryIInv, CallsIInv
<1>4. QED
  BY <1>1, <1>2, <1>3, ReceiveHistory

LEMMA ActHistory ==
  ASSUME NodeIInv, HistoryIInv, NEW t \in Tasks, Act(t)
  PROVE  HistoryIInv'
BY SendHistory, SetConfigHistory, ResetHistory DEF Act

LEMMA WorkHistory ==
  ASSUME NodeIInv, HistoryIInv, NEW t \in Tasks, Work(t)
  PROVE  HistoryIInv'
<1>1. UNCHANGED node
  BY DEF Work
<1>2. CASE ObserverReturns(t)
  <2>1. ~Idle(t) /\ Top(t).call = "Notice" /\ Leave(t) /\ UNCHANGED security
    BY <1>2 DEF ObserverReturns, Observing, At
  <2>2. Plain(t)
    BY <2>1, LeavePlain DEF HistoryIInv
  <2>3. QED
    BY <1>1, <2>1, <2>2, PlainStep DEF security, outbound, node
<1>3. QED
  BY <1>1, <1>2, ProtectHistory, UnprotectHistory, SetConfigStepHistory DEF Work

LEMMA IdleHistory ==
  ASSUME HistoryIInv, UNCHANGED <<stack, security, air>>
  PROVE  HistoryIInv'
<1>1. UNCHANGED <<config, sessionID, sessionReady, used, learned, replay, accepted>>
  BY DEF security, outbound, inbound
<1>2. Good' = Good
  BY <1>1 DEF Good
<1>3. CallsIInv'
  BY <1>1, <1>2 DEF HistoryIInv, CallsIInv
<1>4. ObserverIInv'
  BY <1>1 DEF HistoryIInv, ObserverIInv, Corrects
<1>5. OpeningIInv'
  BY <1>1 DEF HistoryIInv, OpeningIInv
<1>6. QED
  BY <1>1, <1>3, <1>4, <1>5, MemoryStep DEF HistoryIInv, inbound

\* Init and Next keep the calls good, the table exact and the observer's
\* knowledge correct or about to be corrected.
THEOREM HistoryInvariant == Spec => []HistoryIInv
<1>1. Init => HistoryIInv
  <2> SUFFICES ASSUME Init PROVE HistoryIInv
    OBVIOUS
  <2>1. \A t \in Tasks : /\ stack[t] \in Chains(Good) /\ ~Opening(stack[t])
                         /\ ~Unprotecting(stack[t])
    BY DEF Init, Chains, Opening, Unprotecting
  <2>2. BagToSet(air) = {}
    BY DEF Init, EmptyBag, SetToBag, BagToSet
  <2>3. CallsIInv
    BY <2>1, <2>2 DEF Init, CallsIInv
  <2>4. ObserverIInv
    BY DEF Init, ObserverIInv
  <2>5. MemoryIInv
    <3>1. BagToSet(accepted) = {} /\ DOMAIN replay = {}
      BY DEF Init, EmptyBag, SetToBag, BagToSet, NoStates
    <3>2. QED
      BY <3>1 DEF MemoryIInv
  <2>6. QED
    BY <2>1, <2>3, <2>4, <2>5 DEF HistoryIInv, OpeningIInv
<1>2. NodeIInv /\ HistoryIInv /\ [Next]_vars => HistoryIInv'
  <2> SUFFICES ASSUME NodeIInv, HistoryIInv, [Next]_vars PROVE HistoryIInv'
    OBVIOUS
  <2>1. ASSUME NEW t \in Tasks, Act(t) \/ Work(t) \/ Transport(t) PROVE HistoryIInv'
    BY <2>1, ActHistory, WorkHistory, TransportHistory
  <2>2. ASSUME NEW t \in Applications, Manage(t) PROVE HistoryIInv'
    BY <2>2, IdleHistory DEF Manage, Construct, Destroy, SetCallback
  <2>3. ASSUME NEW t \in Radios, NEW c \in Carriers, NEW f \in BagToSet(air) \cup {Plaintext},
               NEW whole \in BOOLEAN, Arrive(t, c, f, whole)
        PROVE  HistoryIInv'
    BY <2>3, ArriveHistory, NodeAssumption
  <2>4. CASE UNCHANGED vars
    BY <2>4, IdleHistory DEF vars, node
  <2>5. QED
    BY <2>1, <2>2, <2>3, <2>4 DEF Next
<1>3. QED
  BY <1>1, <1>2, NodeInvariant, PTL DEF Spec

-----------------------------------------------------------------------------
(* What follows                                                             *)

\* Under every policy, and whatever observers and other calls do to it while a
\* frame is handled, the application is handed what was sent, whole and sealed
\* with the key it names, or plaintext that came in under a lenient policy
\* (TransportSecurity.hpp:325-333, 375-408; SecureTransportDecorator.hpp:59-64).
THEOREM AdmittedIsHanded == Spec => []HandsOnlyAdmitted
<1>1. HistoryIInv => HandsOnlyAdmitted
  <2> SUFFICES ASSUME HistoryIInv, NEW t \in Tasks, NEW i \in DOMAIN stack[t],
                      stack[t][i].call = "Handle", stack[t][i].step = "delivering"
               PROVE  LET a == stack[t][i]
                      IN  \/ Authentic(a.outcome)
                          \/ a.outcome = Unprotected /\ a.policy # "Required"
    BY DEF HandsOnlyAdmitted, Handed, Activations
  <2>1. stack[t] \in Seq(Good)
    BY DEF HistoryIInv, CallsIInv, Chains
  <2>2. stack[t][i] \in Good
    BY <2>1
  <2>3. GoodHandle(stack[t][i], BagToSet(air))
    BY <2>2 DEF Good, GoodCalls
  <2>4. QED
    BY <2>3 DEF GoodHandle, Admitted, Authentic
<1>2. QED
  BY <1>1, HistoryInvariant, PTL

\* Only an observer that changes the configuration inside Protect can make it
\* return an envelope that no receiver opens
\* (TransportSecurity.hpp:234-250, 275-277).
THEOREM SpoiltIsReconfigured == Spec => []SpoiledByReconfiguration
<1>1. HistoryIInv => SpoiledByReconfiguration
  BY DEF HistoryIInv, CallsIInv, SpoiledByReconfiguration, Explained
<1>2. QED
  BY <1>1, HistoryInvariant, PTL

\* Whenever no SetConfig is in progress, an observer that follows the session
\* events knows the session, however calls and notifications are nested
\* (TransportSecurity.hpp:107-116, 197-200).
THEOREM ObserverKnows == Spec => []ObserverKnowsSession
<1>1. NodeIInv /\ HistoryIInv => ObserverKnowsSession
  <2> SUFFICES ASSUME NodeIInv, HistoryIInv, learned # sessionID
               PROVE  \E a \in Activations : a.call = "SetConfig"
    BY DEF ObserverKnowsSession
  <2>1. PICK t \in Tasks : \E a \in Reconfiguring(stack[t]) : Corrects(a)
    BY DEF HistoryIInv, ObserverIInv
  <2>2. PICK i \in 1 .. Len(stack[t]) : stack[t][i].call = "SetConfig"
    BY <2>1 DEF Reconfiguring
  <2>3. DOMAIN stack[t] = 1 .. Len(stack[t])
    BY DEF NodeIInv, Stacks
  <2>4. QED
    BY <2>2, <2>3 DEF Activations
<1>2. QED
  BY <1>1, NodeInvariant, HistoryInvariant, PTL

\* Between two resets an envelope is accepted at most once, whoever delivers it
\* again and whatever throws; what was not accepted is not remembered
\* (TransportSecurity.hpp:375-408).
THEOREM AcceptedIsRemembered == Spec => []RemembersAccepted
<1>1. NodeIInv /\ HistoryIInv => RemembersAccepted
  <2> SUFFICES ASSUME NodeIInv, HistoryIInv PROVE RemembersAccepted
    OBVIOUS
  <2>1. MemoryIInv
    BY DEF HistoryIInv
  <2>2. ASSUME NEW f \in BagToSet(air), f.sessionID # 0
        PROVE  WouldAccept(replay, WindowSize, Domain(f), f.sequence)
                 <=> /\ f.sequence \notin Seen(Domain(f))
                     /\ \A s \in Seen(Domain(f)) : s - f.sequence < WindowSize
    <3> DEFINE d == Domain(f)
    <3>1. f.sequence \in Nat /\ f \in Envelopes
      BY Ranges DEF NodeIInv, Envelopes
    <3>2. d.session = f.sessionID
      BY DEF Domain
    <3>3. f.sequence # 0
      BY DEF HistoryIInv, CallsIInv, Explained
    <3>4. Seen(d) \in SUBSET Nat /\ Remembers(replay, d, Seen(d))
      BY <2>1 DEF MemoryIInv, Seen, Remembers
    <3>5. WindowSize \in 1 .. WordBits
      BY SharedAssumption
    <3> HIDE DEF d
    <3>6. WouldAccept(replay, WindowSize, d, f.sequence)
            <=> /\ d.session # 0 /\ f.sequence # 0 /\ f.sequence \notin Seen(d)
                /\ \A s \in Seen(d) : s - f.sequence < WindowSize
      BY <3>1, <3>4, <3>5, RememberedAnswers
    <3>7. QED
      BY <2>2, <3>2, <3>3, <3>6 DEF d
  <2>3. QED
    BY <2>1, <2>2 DEF MemoryIInv, RemembersAccepted, Seen
<1>2. QED
  BY <1>1, NodeInvariant, HistoryInvariant, PTL

-----------------------------------------------------------------------------
(* The node implements the abstract channel.  The steps are those of the    *)
(* invariants: what a step needs to know of the state it ends in, it takes  *)
(* from the invariants there.                                               *)

\* The bags of the channel are those of the node.
LEMMA SameBags ==
  /\ EmptyBag = Channel!EmptyBag
  /\ \A B : BagToSet(B) = Channel!BagToSet(B)
  /\ \A S : SetToBag(S) = Channel!SetToBag(S)
  /\ \A B, C : B (+) C = Channel!(+)(B, C)
BY DEF EmptyBag, Channel!EmptyBag, BagToSet, Channel!BagToSet, SetToBag, Channel!SetToBag,
       (+), Channel!(+)

\* The channel sees what the carriers took and what was accepted.
LEMMA Unseen ==
  ASSUME UNCHANGED <<air, accepted>>
  PROVE  UNCHANGED Channel!channelVars
BY DEF Channel!channelVars, Sent, Delivered

\* An identity says which message it is.
LEMMA IdentityFields ==
  ASSUME NEW f
  PROVE  /\ Identity(f).sequence = f.sequence
         /\ Identity(f).domain.session = f.sessionID
         /\ Identity(f).domain = Domain(f)
BY DEF Identity, Domain

LEMMA Identified ==
  ASSUME NEW f \in Envelopes, f.sessionID # 0, f.sequence # 0
  PROVE  [id |-> Identity(f)] \in [id : Identities]
<1>1. f.keyID \in KeyIDs /\ f.sessionID \in SessionIDs /\ f.sequence \in 1 .. MaxSequence
  BY SharedAssumption DEF Envelopes, Sessions, Numbers
<1>2. Domain(f) \in [sender : {0}, key : KeyIDs, session : SessionIDs]
  BY <1>1 DEF Domain
<1>3. QED
  BY <1>1, <1>2 DEF Identity, Identities

\* What a carrier takes is sent, unless it names no session.
LEMMA TakenSends ==
  ASSUME UniqueIInv, UniqueIInv', NEW f \in Envelopes, f # Plaintext, Explained(f), Taken(f),
         UNCHANGED accepted
  PROVE  Channel!Next \/ UNCHANGED Channel!channelVars
<1> DEFINE m == [id |-> Identity(f)]
<1>1. BagToSet(air') = BagToSet(air) \cup {f}
  BY TakenAir
<1>2. Delivered' = Delivered
  BY DEF Delivered
<1>3. CASE f.sessionID = 0
  <2>1. Sent' = Sent
    BY <1>1, <1>3 DEF Sent
  <2>2. QED
    BY <1>2, <2>1 DEF Channel!channelVars
<1>4. CASE f.sessionID # 0
  <2>1. m \in [id : Identities]
    BY <1>4, Identified DEF Explained
  <2>2. f \notin BagToSet(air)
    <3>1. SUFFICES ASSUME f \in BagToSet(air) PROVE FALSE
      OBVIOUS
    <3>2. air[f] = 1 /\ air'[f] = 1
      BY <1>1, <1>4, <3>1 DEF UniqueIInv
    <3>3. air'[f] = air[f] + 1
      BY <3>1 DEF Taken, BagToSet, SetToBag, (+)
    <3>4. QED
      BY <3>2, <3>3
  <2>3. ASSUME NEW n \in Sent PROVE n.id # m.id
    <3>1. PICK g \in BagToSet(air) : g.sessionID # 0 /\ n = [id |-> Identity(g)]
      BY DEF Sent
    <3>2. SUFFICES ASSUME Identity(g) = Identity(f) PROVE FALSE
      BY <3>1
    <3>3. Clash(f, g)
      BY <1>4, <3>2, IdentityFields DEF Clash
    <3>4. f = g
      BY <1>1, <3>3 DEF UniqueIInv
    <3>5. QED
      BY <2>2, <3>1, <3>4
  <2>4. Sent' = Sent \cup {m}
    BY <1>1, <1>4 DEF Sent
  <2> HIDE DEF m
  <2>5. Channel!Send(m)
    BY <1>2, <2>3, <2>4 DEF Channel!Send
  <2>6. QED
    BY <2>1, <2>5 DEF Channel!Next
<1>5. QED
  BY <1>3, <1>4

\* What is committed was sent and is delivered for the first time.
LEMMA CommitDelivers ==
  ASSUME NodeIInv, HistoryIInv, HistoryIInv', NEW t \in Tasks, CommitReplay(t), UNCHANGED node
  PROVE  Channel!Next
<1> DEFINE f  == Top(t).frame
           id == Identity(f)
           m  == [id |-> id]
<1>1. /\ Head(stack[t]) \in Good /\ Head(stack[t]) \in Calls(alive) /\ Top(t).call = "Unprotect"
      /\ Top(t).step = "commit" /\ stack[t] # <<>>
  BY TopGood DEF CommitReplay, At, Idle, HistoryIInv, Top
<1>2. Top(t) \in Unprotects /\ GoodUnprotect(Top(t), BagToSet(air))
  BY <1>1, Apart DEF Good, GoodCalls, Top
<1>3. f.sessionID # 0
  <2>1. Opening(stack[t])
    BY <1>1 DEF Opening, Openings, Top
  <2>2. QED
    BY <2>1 DEF HistoryIInv, OpeningIInv, Admits, Top
<1>4. f \in Envelopes /\ f \in BagToSet(air)
  <2>1. f # Plaintext
    BY <1>3 DEF Plaintext
  <2> HIDE DEF f
  <2>2. f \in Frames /\ (f = Plaintext \/ f \in BagToSet(air))
    BY <1>2 DEF Unprotects, GoodUnprotect, f
  <2>3. QED
    BY <2>1, <2>2 DEF Frames
<1>5. accepted' = accepted (+) SetToBag({id}) /\ UNCHANGED air
  BY DEF CommitReplay, node
<1>6. f.sequence # 0
  BY <1>4 DEF HistoryIInv, CallsIInv, Explained
<1> HIDE DEF f
<1>7. m \in [id : Identities] /\ m \in Sent
  BY <1>3, <1>4, <1>6, Identified DEF Sent
<1> HIDE DEF id
<1>8. id \notin BagToSet(accepted)
  <2>1. SUFFICES ASSUME id \in BagToSet(accepted) PROVE FALSE
    OBVIOUS
  <2>2. accepted'[id] = accepted[id] + 1 /\ id \in BagToSet(accepted')
    BY <1>5, <2>1 DEF BagToSet, SetToBag, (+)
  <2>3. accepted[id] = 1 /\ accepted'[id] = 1
    BY <2>1, <2>2 DEF HistoryIInv, MemoryIInv
  <2>4. QED
    BY <2>2, <2>3
<1>9. Delivered' = [Delivered EXCEPT ![Self] = @ (+) SetToBag({m})]
  <2> DEFINE Told(A) == [n \in {[id |-> i] : i \in BagToSet(A)} |-> A[n.id]]
  <2>1. Told(accepted') = Told(accepted) (+) SetToBag({m})
    <3>1. BagToSet(accepted') = BagToSet(accepted) \cup {id}
      BY <1>5 DEF BagToSet, SetToBag, (+)
    <3>2. accepted'[id] = 0 + 1
      BY <1>5, <1>8 DEF BagToSet, SetToBag, (+)
    <3>3. \A i \in BagToSet(accepted) : accepted'[i] = accepted[i] + 0
      BY <1>5, <1>8 DEF BagToSet, SetToBag, (+)
    <3>4. /\ DOMAIN Told(accepted') = DOMAIN Told(accepted) \cup {m}
          /\ DOMAIN SetToBag({m}) = {m} /\ SetToBag({m})[m] = 1
          /\ m \notin DOMAIN Told(accepted) /\ Told(accepted')[m] = 0 + 1
      BY <1>8, <3>1, <3>2 DEF SetToBag
    <3>5. \A n \in DOMAIN Told(accepted) : Told(accepted')[n] = Told(accepted)[n] + 0
      BY <3>1, <3>3
    <3> DEFINE A == Told(accepted)
               B == Told(accepted')
               C == SetToBag({m})
    <3>6. B = [n \in DOMAIN B |-> B[n]]
      OBVIOUS
    <3> HIDE DEF A, B, C, m, Told
    <3>7. B = A (+) C
      BY <3>4, <3>5, <3>6 DEF (+), A, B, C
    <3>8. QED
      BY <3>7 DEF A, B, C
  <2>2. Delivered = [n \in {Self} |-> Told(accepted)] /\ Delivered' = [n \in {Self} |-> Told(accepted')]
    BY DEF Delivered
  <2> HIDE DEF Told, m
  <2>3. QED
    BY <2>1, <2>2
<1>10. \A n \in BagToSet(Delivered[Self]) : n.id # m.id
  BY <1>8 DEF Delivered, BagToSet
<1>11. Sent' = Sent
  BY <1>5 DEF Sent
<1> HIDE DEF m
<1>12. Channel!Deliver(Self, m)
  BY <1>7, <1>9, <1>10, <1>11, SameBags DEF Channel!Deliver
<1>13. QED
  BY <1>7, <1>12 DEF Channel!Next

LEMMA EmptyForgets ==
  ASSUME accepted' = EmptyBag, UNCHANGED air
  PROVE  Channel!Next
<1>1. Delivered' = [Delivered EXCEPT ![Self] = EmptyBag]
  <2>1. BagToSet(EmptyBag) = {}
    BY DEF BagToSet, EmptyBag, SetToBag
  <2>2. [m \in {[id |-> i] : i \in BagToSet(EmptyBag)} |-> EmptyBag[m.id]] = EmptyBag
    BY <2>1 DEF EmptyBag, SetToBag
  <2>3. QED
    BY <2>2 DEF Delivered
<1>2. Channel!Forget(Self)
  BY <1>1, SameBags DEF Channel!Forget, Sent
<1>3. QED
  BY <1>2 DEF Channel!Next

LEMMA InitNodeChannel == Init => Channel!Init
<1> SUFFICES ASSUME Init PROVE Channel!Init
  OBVIOUS
<1>1. BagToSet(EmptyBag) = {}
  BY DEF BagToSet, EmptyBag, SetToBag
<1>2. Sent = {}
  BY <1>1 DEF Init, Sent
<1>3. [m \in {[id |-> i] : i \in BagToSet(EmptyBag)} |-> EmptyBag[m.id]] = EmptyBag
  BY <1>1 DEF EmptyBag, SetToBag
<1>4. Delivered = [n \in {Self} |-> EmptyBag]
  BY <1>3 DEF Init, Delivered
<1>5. QED
  BY <1>2, <1>4, SameBags DEF Channel!Init

\* What the steps of the calls do to the history
LEMMA WorkAccepts ==
  ASSUME NEW t, Work(t)
  PROVE  UNCHANGED <<air, accepted>> \/ (CommitReplay(t) /\ UNCHANGED node)
<1>1. CASE ProtectStep(t)
  BY <1>1 DEF Work, ProtectStep, PassThrough, PassThrows, EstablishSession, SessionFails, SequenceExhausted, TakeSequence,
              Seal, SealFails, ReturnRefused, node, security, inbound
<1>2. CASE UnprotectStep(t)
  BY <1>2 DEF Work, UnprotectStep, RejectPlaintext, PassThrough, PassThrows, CheckReplay, Open,
              OpenThrows, CommitThrows, ReturnRefused,
              node, security, inbound
<1>3. CASE SetConfigStep(t) \/ ObserverReturns(t)
  BY <1>3 DEF Work, SetConfigStep, TellReset, TellEstablished, SetConfigReturns, ObserverReturns,
              node, security, inbound
<1>4. QED
  BY <1>1, <1>2, <1>3 DEF Work

LEMMA NextNodeChannel ==
  ASSUME NodeIInv, HistoryIInv, HistoryIInv', UniqueIInv, UniqueIInv', [Next]_vars
  PROVE  Channel!Next \/ UNCHANGED Channel!channelVars
<1>1. ASSUME NEW t \in Tasks, Act(t)
      PROVE  Channel!Next \/ UNCHANGED Channel!channelVars
  <2>1. ASSUME NEW d, Send(t, d) PROVE UNCHANGED Channel!channelVars
    BY <2>1, Unseen DEF Send, security, inbound, node
  <2>2. ASSUME accepted' = EmptyBag, UNCHANGED node PROVE Channel!Next
    BY <2>2, EmptyForgets DEF node
  <2>3. QED
    BY <1>1, <2>1, <2>2 DEF Act, SetConfig, ResetReplayProtection
<1>2. ASSUME NEW t \in Tasks, Work(t)
      PROVE  Channel!Next \/ UNCHANGED Channel!channelVars
  BY <1>2, WorkAccepts, CommitDelivers, Unseen
<1>3. ASSUME NEW t \in Tasks, CarrierAccepts(t) \/ CarrierLoops(t)
      PROVE  Channel!Next \/ UNCHANGED Channel!channelVars
  <2> DEFINE f == Top(t).outcome.frame
  <2>1. /\ Taken(f) /\ f \in Frames /\ (f = Plaintext \/ Explained(f))
        /\ UNCHANGED accepted
    BY <1>3, HeldExplained DEF CarrierAccepts, CarrierLoops, HistoryIInv, security, inbound
  <2> HIDE DEF f
  <2>2. CASE f = Plaintext
    BY <2>1, <2>2, Unseen DEF Taken
  <2>3. CASE f # Plaintext
    <3>1. f \in Envelopes /\ Explained(f)
      BY <2>1, <2>3 DEF Frames
    <3>2. QED
      BY <2>1, <2>3, <3>1, TakenSends
  <2>4. QED
    BY <2>2, <2>3
<1>4. CASE UNCHANGED <<air, accepted>>
  BY <1>4, Unseen
<1>5. ASSUME NEW t \in Tasks, Transport(t), ~CarrierAccepts(t), ~CarrierLoops(t)
      PROVE  UNCHANGED <<air, accepted>>
  BY <1>5 DEF Transport, Dispatch, CallbackReturns, CallbackThrows, SendFails, SendReturns,
              security, inbound, node
<1>6. ASSUME NEW t \in Applications, Manage(t)
      PROVE  UNCHANGED <<air, accepted>>
  BY <1>6 DEF Manage, Construct, Destroy, SetCallback, security, inbound
<1>7. ASSUME NEW t, NEW c, NEW f, NEW whole, Arrive(t, c, f, whole)
      PROVE  UNCHANGED <<air, accepted>>
  BY <1>7 DEF Arrive, security, inbound, node
<1>8. UNCHANGED vars => UNCHANGED <<air, accepted>>
  BY DEF vars, security, inbound, node
<1>9. QED
  BY <1>1, <1>2, <1>3, <1>4, <1>5, <1>6, <1>7, <1>8 DEF Next

\* For any tasks, decorators, carriers and depth of nested calls, a node
\* implements the channel that calls one at a time implement: what it accepts
\* was sent, under an identity no other message has, and is accepted once until
\* the history is reset (TransportSecurity.hpp:250-277, 375-408).
THEOREM NodeImplementsChannel == Spec => ImplementsChannel
<1>1. NodeIInv /\ HistoryIInv /\ HistoryIInv' /\ UniqueIInv /\ UniqueIInv' /\ [Next]_vars
        => [Channel!Next]_(Channel!channelVars)
  BY NextNodeChannel
<1>2. QED
  BY <1>1, InitNodeChannel, NodeInvariant, HistoryInvariant, UniqueInvariant, PTL
     DEF Spec, ImplementsChannel, Channel!Spec
=============================================================================
