---------------------------- MODULE SharedSecurity ----------------------------
(***************************************************************************)
(* The inside of the calls to one TransportSecurity object: the steps      *)
(* between which other tasks run, and the points at which the observers    *)
(* run, who may call the object again before the call that notified them   *)
(* has gone on.                                                            *)
(*                                                                         *)
(* Every task has a stack of activations, the innermost first.  A          *)
(* notification is an activation of its own on top of the call that gives  *)
(* it.  The checks that TransportSecurity models in full (sizes, ciphers)  *)
(* are reduced to their outcome; the configured cipher and key are there,  *)
(* so that Preferred protects what it sends.                               *)
(*                                                                         *)
(* The object has no lock.  Assumption of the model: the application lets  *)
(* calls of two tasks overlap only when one of them is Protect and the     *)
(* other Unprotect or ResetReplayProtection (Alone).                       *)
(***************************************************************************)
EXTENDS ReplayTable, Sequences, FiniteSets, Bags

CONSTANTS
  Tasks,
  KeyIDs,        \* the provider holds a key for each, and the keys differ
  SessionIDs,
  Configs,       \* [OutboundKeyID, SessionID, Policy]; the rest never changes
  WindowSize,    \* ReplayWindowSize, within its clamp
  MaxSequence,   \* bound: the largest sequence number
  MaxDepth       \* bound: activations of all tasks when a call has been made

Policies == {"Required", "Preferred", "Disabled"}

ASSUME SharedAssumption ==
  /\ 0 \notin KeyIDs
  /\ SessionIDs \subseteq Nat \ {0}
  /\ Configs \subseteq
       [OutboundKeyID : KeyIDs, SessionID : SessionIDs \cup {0}, Policy : Policies]
  /\ WindowSize \in 1 .. WordBits
  /\ MaxSequence \in Nat \ {0}

VARIABLES
  stack,          \* the activations of every task
  config,         \* _config
  replay,         \* _replay._states
  sessionID,      \* _sessionID
  sessionReady,   \* _sessionReady
  nextSequence,   \* _nextSequence
  used,           \* history: sessions claimed so far
  accepted,       \* history: bag of the identities accepted since the last reset
  learned         \* the session an observer takes to be the current one

outbound == <<sessionID, sessionReady, nextSequence, used>>
inbound  == <<replay, accepted>>
security == <<config, outbound, inbound, learned>>

\* A frame without a header.  Anybody can put one on a carrier.
Plaintext == [keyID |-> 0, sessionID |-> 0, sequence |-> 0, key |-> 0, disturbed |-> FALSE]

\* What Protect or Unprotect returns: a failure, or a success with the frame that
\* was made or opened.  Success is Protected unless the frame is Plaintext.
Refused == [ok |-> FALSE]
Returned(f, whole) == [ok |-> TRUE, frame |-> f, whole |-> whole]
Unprotected == Returned(Plaintext, TRUE)

-----------------------------------------------------------------------------
(* Activations *)

Idle(t) == stack[t] = <<>>
Top(t)  == Head(stack[t])
At(t, call, step) == ~Idle(t) /\ Top(t).call = call /\ Top(t).step = step

Push(t, activations) == stack' = [stack EXCEPT ![t] = activations \o @]
Goto(t, step) == stack' = [stack EXCEPT ![t] = <<[Head(@) EXCEPT !.step = step]>> \o Tail(@)]

\* The innermost call ends.
Leave(t) == stack' = [stack EXCEPT ![t] = Tail(@)]

\* The caller goes on with what its call returned.
Return(t, value) ==
  stack' = [stack EXCEPT ![t] =
    <<[Head(Tail(@)) EXCEPT !.step = "returned", !.outcome = value]>> \o Tail(Tail(@))]

\* The call goes on at step once the observer has returned.
Notice == [call |-> "Notice", step |-> "observing"]
NotifyThen(t, step) ==
  stack' = [stack EXCEPT ![t] = <<Notice, [Head(@) EXCEPT !.step = step]>> \o Tail(@)]

Learn(event, id) ==
  CASE event = "SessionEstablished" -> id
    [] event = "SessionReset" -> IF id = learned THEN 0 ELSE learned

Observing(t) == At(t, "Notice", "observing")

\* Calls that t is inside of
Inside(t) == {stack[t][i].call : i \in DOMAIN stack[t]}

Excludes(call) ==
  CASE call = "Protect"   -> {"Protect", "SetConfig"}
    [] call = "Unprotect" -> {"Unprotect", "SetConfig"}
    [] call = "SetConfig" -> {"Protect", "Unprotect", "SetConfig"}

\* No other task is inside a call that this one must not overlap.
Alone(t, call) == \A u \in Tasks \ {t} : Inside(u) \cap Excludes(call) = {}

\* The bound on making a call: n more activations stay within MaxDepth.
\* Notifications always find room.
Room(n) == Cardinality(UNION {{t} \X DOMAIN stack[t] : t \in Tasks}) + n <= MaxDepth

\* The observer returns to the call that notified it.
ObserverReturns(t) ==
  /\ Observing(t)
  /\ Leave(t)
  /\ UNCHANGED security

\* An exception leaves the innermost call.  A notification swallows it;
\* without one it leaves every call of the task.
Unwound(activations) ==
  LET notices == {i \in DOMAIN activations : activations[i].call = "Notice"}
  IN  IF notices = {} THEN <<>>
      ELSE LET i == CHOOSE i \in notices : \A j \in notices : i <= j
           IN  SubSeq(activations, i + 1, Len(activations))

Throw(t) == stack' = [stack EXCEPT ![t] = Unwound(@)]

\* ReportFailure: the observers are told before the call returns.
Fail(t) == NotifyThen(t, "refused")

ReturnRefused(t, call) ==
  /\ At(t, call, "refused")
  /\ Return(t, Refused)
  /\ UNCHANGED security

-----------------------------------------------------------------------------
(* Protect *)

\* The policy is looked at first, and the key before there is a session.
ProtectCall ==
  [call |-> "Protect", step |-> IF config.Policy = "Disabled" THEN "plain" ELSE "session",
   key |-> config.OutboundKeyID, sequence |-> 0, disturbed |-> FALSE]

\* The payload goes through as it is.
PassThrough(t, call) ==
  /\ At(t, call, "plain")
  /\ Return(t, Unprotected)
  /\ UNCHANGED security

\* The payload cannot be copied.
PassThrows(t, call) ==
  /\ At(t, call, "plain")
  /\ Throw(t)
  /\ UNCHANGED security

EstablishSession(t, id) ==
  /\ At(t, "Protect", "session")
  /\ ~sessionReady
  /\ id \in SessionIDs \ used
  /\ sessionID' = id
  /\ sessionReady' = TRUE
  /\ used' = used \cup {id}
  /\ learned' = Learn("SessionEstablished", id)
  /\ NotifyThen(t, "sequence")
  /\ UNCHANGED <<config, nextSequence, inbound>>

\* Mutant of SessionFails: the failure is not looked at.
SessionFailsUnnoticed(t) ==
  /\ At(t, "Protect", "session")
  /\ ~sessionReady
  /\ Goto(t, "sequence")
  /\ UNCHANGED security

\* The random source fails.
SessionFails(t) ==
  /\ At(t, "Protect", "session")
  /\ ~sessionReady
  /\ Fail(t)
  /\ UNCHANGED security

\* A session that is ready needs no step.
Ensured(t) == At(t, "Protect", "sequence") \/ (At(t, "Protect", "session") /\ sessionReady)

SequenceExhausted(t) ==
  /\ Ensured(t)
  /\ nextSequence \in {0, MaxSequence}
  /\ Fail(t)
  /\ UNCHANGED security

TakeSequence(t) ==
  /\ Ensured(t)
  /\ nextSequence \notin {0, MaxSequence}
  /\ nextSequence' = nextSequence + 1
  /\ stack' = [stack EXCEPT ![t] =
       <<[Head(@) EXCEPT !.step = "seal", !.sequence = nextSequence]>> \o Tail(@)]
  /\ UNCHANGED <<config, sessionID, sessionReady, used, inbound, learned>>

\* The header is written from the object as it is now, and sealed with the key
\* that was looked up at the beginning.
SealedBy(a) ==
  [keyID |-> config.OutboundKeyID, sessionID |-> sessionID, sequence |-> a.sequence,
   key |-> a.key, disturbed |-> a.disturbed]

Seal(t) ==
  /\ At(t, "Protect", "seal")
  /\ Return(t, Returned(SealedBy(Top(t)), TRUE))
  /\ UNCHANGED security

\* The buffer, the nonce or the cipher fails.
SealFails(t) ==
  /\ At(t, "Protect", "seal")
  /\ Fail(t)
  /\ UNCHANGED security

ProtectStep(t) ==
  \/ PassThrough(t, "Protect")
  \/ PassThrows(t, "Protect")
  \/ \E id \in SessionIDs : EstablishSession(t, id)
  \/ SessionFails(t)
  \/ SequenceExhausted(t)
  \/ TakeSequence(t)
  \/ Seal(t)
  \/ SealFails(t)
  \/ ReturnRefused(t, "Protect")

-----------------------------------------------------------------------------
(* Unprotect *)

Domain(f)   == [sender |-> 0, key |-> f.keyID, session |-> f.sessionID]
Identity(f) == [domain |-> Domain(f), sequence |-> f.sequence]

\* What arrives is plaintext, or an envelope, whole or damaged in its body.
UnprotectCall(f, whole) ==
  [call |-> "Unprotect",
   step |-> IF f # Plaintext THEN "check"
            ELSE IF config.Policy = "Required" THEN "reject"
            ELSE "plain",
   frame |-> f, whole |-> whole]

\* Mutant of RejectPlaintext: the failure is reported, and the call goes on.
RejectFallsThrough(t) ==
  /\ At(t, "Unprotect", "reject")
  /\ NotifyThen(t, "plain")
  /\ UNCHANGED security

\* PlaintextRejected
RejectPlaintext(t) ==
  /\ At(t, "Unprotect", "reject")
  /\ Fail(t)
  /\ UNCHANGED security

\* A zero session is malformed, a sequence that was committed a replay.
Fresh(f) == f.sessionID # 0 /\ WouldAccept(replay, WindowSize, Domain(f), f.sequence)

\* An ideal cipher, given the key that the header names
Opens(a) == a.whole /\ a.frame.key = a.frame.keyID

\* Mutant of CheckReplay: the sequence is committed with the check, before the
\* envelope is authenticated.
CheckAndCommit(t) ==
  /\ At(t, "Unprotect", "check")
  /\ LET f == Top(t).frame
     IN  IF Fresh(f) THEN replay' = Commit(replay, Domain(f), f.sequence) /\ Goto(t, "open")
         ELSE UNCHANGED replay /\ Fail(t)
  /\ UNCHANGED <<config, outbound, accepted, learned>>

\* Mutant of CheckReplay: the session is looked at, and the sequence left to the
\* commit, which refuses nothing.
CheckSession(t) ==
  /\ At(t, "Unprotect", "check")
  /\ IF Top(t).frame.sessionID # 0 THEN Goto(t, "open") ELSE Fail(t)
  /\ UNCHANGED security

CheckReplay(t) ==
  /\ At(t, "Unprotect", "check")
  /\ IF Fresh(Top(t).frame) THEN Goto(t, "open") ELSE Fail(t)
  /\ UNCHANGED security

Open(t) ==
  /\ At(t, "Unprotect", "open")
  /\ IF Opens(Top(t)) THEN Goto(t, "commit") ELSE Fail(t)
  /\ UNCHANGED security

\* The buffer for the plaintext cannot be allocated.
OpenThrows(t) ==
  /\ At(t, "Unprotect", "open")
  /\ Throw(t)
  /\ UNCHANGED security

CommitReplay(t) ==
  /\ At(t, "Unprotect", "commit")
  /\ LET f == Top(t).frame
     IN  /\ replay' = Commit(replay, Domain(f), f.sequence)
         /\ accepted' = accepted (+) SetToBag({Identity(f)})
         /\ Return(t, Returned(f, Top(t).whole))
  /\ UNCHANGED <<config, outbound, learned>>

\* The entry of a new domain cannot be allocated.
CommitThrows(t) ==
  /\ At(t, "Unprotect", "commit")
  /\ Domain(Top(t).frame) \notin DOMAIN replay
  /\ Throw(t)
  /\ UNCHANGED security

UnprotectStep(t) ==
  \/ RejectPlaintext(t)
  \/ PassThrough(t, "Unprotect")
  \/ PassThrows(t, "Unprotect")
  \/ CheckReplay(t)
  \/ Open(t)
  \/ OpenThrows(t)
  \/ CommitReplay(t)
  \/ CommitThrows(t)
  \/ ReturnRefused(t, "Unprotect")

-----------------------------------------------------------------------------
(* SetConfig and ResetReplayProtection *)

\* Protects in progress that a new configuration disturbs
Disturbed(activations) ==
  [i \in DOMAIN activations |->
     IF activations[i].call = "Protect" THEN [activations[i] EXCEPT !.disturbed = TRUE]
     ELSE activations[i]]

\* Mutant of SetConfig: without an explicit session the current one goes on.
SetConfigKeepsSession(t, c) ==
  /\ Alone(t, "SetConfig")
  /\ Room(2)
  /\ c.SessionID \notin used
  /\ config' = c
  /\ replay' = NoStates
  /\ accepted' = EmptyBag
  /\ nextSequence' = 1
  /\ sessionID' = IF c.SessionID = 0 THEN sessionID ELSE c.SessionID
  /\ sessionReady' = (sessionID' # 0)
  /\ used' = used \cup ({c.SessionID} \ {0})
  /\ stack' = [stack EXCEPT ![t] =
       <<Notice, [call |-> "SetConfig", step |-> "reset", previous |-> sessionID]>>
         \o Disturbed(@)]
  /\ UNCHANGED learned

\* An explicit session is a new one.  The observers are told of the new
\* configuration before anything else.
SetConfig(t, c) ==
  /\ Alone(t, "SetConfig")
  /\ Room(2)
  /\ c.SessionID \notin used
  /\ config' = c
  /\ replay' = NoStates
  /\ accepted' = EmptyBag
  /\ nextSequence' = 1
  /\ sessionID' = c.SessionID
  /\ sessionReady' = (c.SessionID # 0)
  /\ used' = used \cup ({c.SessionID} \ {0})
  /\ stack' = [stack EXCEPT ![t] =
       <<Notice, [call |-> "SetConfig", step |-> "reset", previous |-> sessionID]>>
         \o Disturbed(@)]
  /\ UNCHANGED learned

\* Mutant of TellReset: the observers are told only when a new session follows.
TellReplaced(t) ==
  /\ At(t, "SetConfig", "reset")
  /\ LET previous == Top(t).previous
     IN  IF previous # 0 /\ sessionReady /\ previous # sessionID
         THEN /\ learned' = Learn("SessionReset", previous)
              /\ NotifyThen(t, "established")
         ELSE Goto(t, "established") /\ UNCHANGED learned
  /\ UNCHANGED <<config, outbound, inbound>>

\* The session that ended, compared with the session that is current now
TellReset(t) ==
  /\ At(t, "SetConfig", "reset")
  /\ LET previous == Top(t).previous
     IN  IF previous # 0 /\ previous # sessionID
         THEN /\ learned' = Learn("SessionReset", previous)
              /\ NotifyThen(t, "established")
         ELSE Goto(t, "established") /\ UNCHANGED learned
  /\ UNCHANGED <<config, outbound, inbound>>

TellEstablished(t) ==
  /\ At(t, "SetConfig", "established")
  /\ IF sessionReady /\ sessionID # Top(t).previous
     THEN /\ learned' = Learn("SessionEstablished", sessionID)
          /\ NotifyThen(t, "return")
     ELSE Goto(t, "return") /\ UNCHANGED learned
  /\ UNCHANGED <<config, outbound, inbound>>

SetConfigReturns(t) ==
  /\ At(t, "SetConfig", "return")
  /\ Leave(t)
  /\ UNCHANGED security

ResetReplayProtection(t) ==
  /\ Alone(t, "Unprotect")
  /\ Room(2)
  /\ replay' = NoStates
  /\ accepted' = EmptyBag
  /\ Push(t, <<Notice>>)
  /\ UNCHANGED <<config, outbound, learned>>

SetConfigStep(t) == TellReset(t) \/ TellEstablished(t) \/ SetConfigReturns(t)
=============================================================================
