# Verification of ESPressio Security

This directory holds TLA+ models of ESPressio Security, the TLC runs that check
small instances of them, and proofs checked by TLAPS. Source references are to
the headers in `src/` of the repository.

## The system

ESPressio Security protects payloads that other libraries carry (ESP-Now,
sockets) or store. It is a header-only C++ library. Its parts:

| Part | State | Operations | Used by |
| --- | --- | --- | --- |
| `ReplayWindow` | window size; per (sender, key, session) the highest sequence and a 64-bit bitmap | `WouldAccept`, `Commit`, `Reset` | `TransportSecurity` |
| `TransportSecurity` | configuration, replay window, session identifier and whether it is ready, next sequence, optional observer list | constructor, `SetConfig`, `ResetReplayProtection`, `Protect`, `Unprotect`, `RegisterObserver`, `UnregisterObserver` | the decorator, applications |
| `AeadCipherRegistry` | pointers to cipher implementations, one per algorithm | `Register`, `Unregister`, `Find` | `TransportSecurity`, `DataProtector` |
| `StaticKeyProvider` | entries (key identifier, algorithm, shared storage) behind a mutex | `Add`, `Remove`, `Clear`, `GetKey` | `TransportSecurity`, `DataProtector` |
| `KeyMaterialStorage`, `KeyMaterialView` | key bytes, erased when the last reference goes | `Bind`, destructors | key providers and their callers |
| `SecureTransportDecorator` | carrier, security object, receiver and error callbacks | `Send`, `SetReceiver`, `SetErrorObserver`, the carrier's callback | applications |
| `DataProtector` | configuration | `Protect`, `Unprotect` and string variants | applications |
| Observers, `TransportSecurityEventBridge` | observer handle, initialised flag | `Initialize`, `Shutdown`, one handler per notification | `TransportSecurity` calls them inside its own calls |
| `IRandomSource` and its implementations | none | `Fill` | `Protect` |
| mbedTLS ciphers | none | `Seal`, `Open` | through the registry |

How they interact: `Protect` and `Unprotect` look a cipher up in the registry
and borrow a key from the provider for the length of the call. `Protect`
establishes a session when there is none, takes a sequence number and seals.
`Unprotect` checks the header, asks the replay window, opens, checks the
protocol and only then commits the sequence. Both call the observers
synchronously, before they return.

What is hard: the carrier may lose, repeat, reorder, misdeliver and damage
frames; either end may be reconfigured, restarted or re-keyed while frames are
in flight; a call of `Protect` may fail after it has claimed a session and a
sequence; sequence numbers end; the replay bitmap slides by arbitrary
distances. `TransportSecurity` has no lock, yet its calls overlap even where the
application keeps tasks apart: observers run inside `Protect` and `SetConfig`
and may call the object again, a carrier may call its receiver before its own
`Send` returns, the receiver's callback may send, and an exception may leave
`Unprotect` between the check and the commit of a sequence. Bridged events are
handled when the session they tell of may have ended. `hazards` in
`PROJECT.json` lists each at its line.

What makes each part correct:

- `ReplayWindow` answers as the full history of committed sequences would.
- `TransportSecurity` never gives two envelopes one identity; what it accepts
  was sent exactly so, once; it accepts everything fresh it can open; its
  notifications let an observer follow the session.
- A key view stays usable until it is released, and retired key bytes are
  erased when the last view goes.
- A decorator hands on what was sent, whole, and at most once; anything else only
  under a policy that allows plaintext.
- A consumer of the bridge's events arrives at the session of the object the
  bridge is connected to.
- `DataProtector` opens exactly what it sealed, with its bound context.

## Modules

| Module | Models |
| --- | --- |
| `ReplayTable` | the data structure of `ReplayWindow`: entries, bitmap, `WouldAccept`, `Commit` |
| `ReplayWindow` | the object: a state machine over the table, with the committed sequences as a history |
| `ReplayGuard` | abstract: a set of admitted sequences per domain |
| `Envelope` | frames, damage to them, the ideal cipher |
| `TransportSecurity` | endpoints that protect, exchange and unprotect frames, with their providers, registries and observers |
| `AuthenticChannel` | abstract: messages that are sent, and delivered at most once; implemented by `TransportSecurity` and by `SecureTransport` |
| `StaticKeyProvider` | tasks that share one key provider, step by step around its mutex, with the storage the views share |
| `KeyMap` | abstract: a map that changes in one step, from which keys are borrowed |
| `DataProtector` | a data protector, its provider and registry, and the envelopes kept outside of it |
| `DataVault` | abstract: payloads stored and recovered under a context |
| `EventBridge` | the bridge that queues notifications, and a consumer of the queue; extends `TransportSecurity` |
| `SharedSecurity` | the inside of the calls to one `TransportSecurity` object: steps, nested calls, exceptions |
| `SecureTransport` | a node: decorators and carriers around one shared object; extends `SharedSecurity` |
| `MCTransportSecurity`, `MCEventBridge`, `MCSecureTransport`, `MCDataProtector` | named values for the constants of the runs; the other runs need none |
| `ReplayTable_proofs`, `ReplayWindow_proofs`, `TransportSecurity_proofs`, `StaticKeyProvider_proofs`, `DataProtector_proofs`, `SecureTransport_proofs`, `NodeHistory_proofs`, `EventBridge_proofs` | proofs |

Every module keeps the names of the source where it can. Names ending in a
variant of a definition, placed before it and commented "Mutant of", are
deliberately broken forms: each property of a passing run has one that it
detects.

### ReplayTable, ReplayWindow, ReplayGuard

The vector of `State` entries is a partial function from domains to entries,
since `Commit` adds an entry only for a domain the search missed. A bitmap is
the set of its bits that are one, the width of the word is the constant
`WordBits`, and a left shift takes its count modulo the width and drops what
leaves the word. `ReplayWindow` steps by an accepted `Unprotect` (`Accept`),
by `Reset`, and by the replacement in `SetConfig` (`Replace`). The history counts
every commit, so that a commit which changes nothing in the table still has to
be a step of the guard.

`WindowExact` says that `WouldAccept` agrees with the abstract guard about every
sequence in every reachable state; `ImplementsGuard` says that the object
implements the guard step by step.

### Envelope, TransportSecurity, AuthenticChannel

Every endpoint is one `TransportSecurity` object with its own provider and
registry. A call is one step. The variables are the members of the class; `air`
is the set of frames ever returned by `Protect`, from which `Unprotect` takes
any, any number of times, at any endpoint: loss, delay, duplication and
reordering need no action of their own. `Damaged` adds, for each envelope, the
frames that differ from it in one part. `used`, `accepted` and `notices` are
histories: the (sender, session) pairs claimed so far, the bag of messages
accepted since the last reset, and the notifications of the latest call. A bag,
because a second acceptance of one message must not look like no step at all.

`Protect` is split by outcome: refused at once, passed on as plaintext, no
session to be had, refused after the session (`ProtectExhausted`), failed after
the sequence was taken (`ProtectSpoiled`: allocation, nonce, `Seal`), sealed.
`Unprotect` is rejected, plain or accepted; the checks are listed in the order
of the code and the first that fails names the error. A call that fails at once
changes nothing but the notifications (`Refuse`).

Assumptions of the model: the cipher is ideal (`Opens`); random session
identifiers do not repeat (64 random bits), while the source may fail or return
zeros; explicit session identifiers are new for their sender, as
TRANSPORT_SECURITY.md:145 asks, unless `ReuseSessions` is set; nonces are not
modelled. The one-byte and four-byte length fields of the header hold up to
`MaxField` and `MaxLength`: `Header` cuts what it writes to them, as the casts do,
and `ExceedsFields` refuses what would be cut. A payload that begins with the magic is taken to be shorter than a
header. `flags` stands for both ignored header fields.

### EventBridge

A bridge is the only observer of its endpoint; every notification of a call is
appended to `queue`, and `Handle` takes the oldest when it likes. `Initialize`
on a bridge that is initialised answers true and changes nothing, whichever
object it is given. The consumer starts from `GetSessionID` and follows the
events; `ConsumerCatchesUp` says that after all that is queued it is at the
session of the object the bridge is registered at. What an observer makes of a
sequence of notifications is `Followed`, a recursive function; of notifications
given to several objects' observers, an observer hears its own (`Heard`).

Assumptions of the model: the queue is empty when the bridge is connected again,
since an event does not say whose it is; every event can be allocated (when one
cannot, the exception is swallowed and the consumer misses it).

### SharedSecurity, SecureTransport

`TransportSecurity` takes a call as one step. These modules take the calls apart,
and reduce the checks to their outcome in return: sizes and ciphers are left to
`TransportSecurity`. The policy is kept: under `Disabled` a payload passes `Protect`
as it is, plaintext that arrives is refused under `Required` (`RejectPlaintext`) and
passed on under the others (`PassThrough`), and the outcome says that it was
`Unprotected`. `Preferred` always protects here, since the configured key and cipher
are there. Every task has a stack
of activations (`stack`), the innermost first, each with the call, the step it
is at and its local variables. A notification is an activation of its own on
top of the call that gives it; while it is the innermost, the application's
observer runs, and may do anything the application may (`Acting`). So it is with
the receiver and error callbacks of `HandleReceive`. The steps of `Protect` are:
look the key up, establish a session (and notify), take a sequence, write the
header and seal; those of `Unprotect`: check the replay window, open, commit;
those of `SetConfig`: change everything, then notify of the configuration, of
the session that ended and of the one that began. `Throw` is an exception: it
leaves every activation up to and including the nearest notification, which
swallows it, or the whole stack. A call reads the policy when it begins; the code
reads it before the first notification of the call, so nothing can change it first.

`SecureTransport` adds decorators (`Construct`, `Destroy`, `SetCallback`, `Send`,
`Dispatch`) and carriers. A carrier may refuse an envelope (`SendFails`), take it
(`CarrierAccepts`) or call its receiver before it returns (`CarrierLoops`). What
was taken arrives any number of times, whole or damaged (`Arrive`), or never, and
so does plaintext, which anybody can put on a carrier.
`air` is the bag of taken envelopes and keeps, for each, the key it was really
sealed with and whether the configuration changed inside the `Protect` that made
it. The node receives its own envelopes; another node with the same keys
would answer the same, except that their sessions could not be told apart by a
sender, which the model fixes at zero.

`ImplementsChannel` maps the node to the one endpoint of an `AuthenticChannel`:
`Sent` is the identities of the envelopes that carriers took, `Delivered` the bag of
those accepted since the last reset. The abstract channel is the one that
`TransportSecurity` implements with whole calls, so the steps between which
observers, callbacks and other tasks run make no difference to it. An envelope
without a session, which an observer that reconfigures inside `Protect` can cause,
is no message: no receiver could be given it. `UniqueIdentity` and the refinement
speak of envelopes that carriers took: of one that a carrier refused nothing is
kept, so they show that what is sent instead is new, and nothing about the
envelope that is gone.

`HandsOnlyAdmitted` says what a receiver callback can rely on: what it is handed is
authentic, or it is plaintext and the policy was already lenient when it came in.
`Handle` remembers that policy, since the policy at the time of the callback may be
another.

Assumptions about what the code leaves to its users, each a named definition:
calls of two tasks overlap only if one is `Protect` and the other `Unprotect` or
`ResetReplayProtection` (`Alone`), so what is shown of the gap between the check
and the commit of a sequence is about observers, callbacks, exceptions and those
calls, and not about two tasks in `Unprotect`; a decorator is destroyed, and its
callbacks are replaced, only while no task is inside one of its calls (`Quiet`),
by a task that is in no other call. Within one task nothing is excluded: `Protect`
inside `Protect`, `SetConfig` inside `SetConfig` and `Unprotect` inside a callback
of `Unprotect` all happen. Explicit sessions are new.

### StaticKeyProvider, KeyMap

A call is the sequence of its steps: what it does before it takes the mutex,
the lock, the work inside, the unlock, and what its local variables do after.
`entries` maps each pair of identifier and algorithm to its storage. A storage
is erased by the step that drops the last reference to it, whichever task that
is: `Add` inside the mutex, `Clear` after it, the holder of a view at its end.
The iterator that `GetKey` keeps between its search and `Bind` is no reference,
so only the mutex keeps the entry alive meanwhile. `TransportSecurity` sees the
provider only between calls, where it is the map of `KeyMap`.

`AddBuild` never fails, as a failed allocation changes nothing. `AddFailed` is
the growth of the vector that throws.

### DataProtector, DataVault

`DataProtector` keeps nothing between calls but its configuration, so what is
hard lies in what changes between the call that writes an envelope and the one
that reads it. `stored` is every envelope returned; `Unprotect` is given any of
them or any `Damaged` form, under any context. `CanSeal` and `CanOpen` gather
the checks of `Protect` and `Unprotect`; the errors they would name are left
out, since no property tells them apart. `output` is the caller's buffer,
`recovered` what a successful call returned and under which context. The length
fields are cut to their widths (`FieldModulus`, `SizeModulus`) as the casts do.
An envelope carries a `seal`, the arguments of `Seal`, which an ideal `Open`
compares.

A payload or a tag longer than its field can say gives an envelope whose header
does not describe it, though `Protect` reports success; `StaysReadable` is stated
for those that fit (`Fits`). Whether the others could open as something else is
not a result of the model: an ideal `Open` returns the payload that was sealed or
fails, so `ImplementsVault` says only that what is recovered was stored under the
context it is recovered under.

## Runs

| Run | Configuration | Shows |
| --- | --- | --- |
| `window` | `ReplayWindow.cfg` | two sessions with a three-bit word: types, exactness, the inductive invariant, the refinement of `ReplayGuard`; the sessions keep separate histories |
| `delivery` | `MCDelivery.cfg` | types; fresh envelopes, and only those, are accepted; only accepted ones open entries in the replay table; the refinement of `AuthenticChannel`: with loss, duplication, reordering, damage, session exhaustion, all policies at both ends, plaintext between envelopes, keys and ciphers that are missing or do not fit, and a payload too long for the header, whose envelope would not be accepted if it were sealed |
| `sessions` | `MCSessions.cfg` | no identity is used twice, over reconfiguration, restart and failing calls of two senders |
| `rotation` | `MCRotation.cfg` | keys and ciphers change at the receiver and the outbound key at the sender |
| `observed` | `MCObserved.cfg` | an observer that follows the notifications knows the session, and so, in the end, does one that handles the bridge's events late |
| `node` | `MCNode.cfg` | one object called from two tasks, from observers and from callbacks: identities stay unique, each envelope is accepted once, an unusable envelope comes only of a reconfiguration inside `Protect`, the observer knows the session; receiver callbacks get what is authentic, and plaintext only when it came in under a lenient policy, though the policy changes at any time, inside calls too; the refinement of `AuthenticChannel` |
| `keys` | `StaticKeyProvider.cfg` | two tasks and two keys: no key is erased that a task borrowed or the provider holds; the inductive invariant; the refinement of `KeyMap`; retired keys are erased in the end |
| `stored` | `MCDataProtector.cfg` | what is recovered was stored under that context; envelopes stay readable through rotation; buffers keep nothing unverified; field widths |
| `resets`, `plaintext`, `deaf`, `unauthenticated` | `MCResets.cfg`, `MCPlaintext.cfg`, `MCDeaf.cfg`, `MCUnauthenticated.cfg` | the code does what a comment or a document denies; see below |

Bounds. `WordBits` is 2 or 3 with sequences up to 6, so that a sequence lags or
leads by less than, exactly and more than the word, and requested sizes fall
below, inside and above the clamp. `MaxSequence` stands for 2^64 - 1 and is
reached, so exhaustion is among the behaviours; three or four sequences per
session are enough to have one in, one at the edge of and one beyond a window
of two. Two or three sessions allow a session, its successor and a return. The
model has no other bound: `air` is finite because sessions and sequences are.
`Faults` limits which error a late failure of `Protect` reports, since the
state does not depend on it. In `keys` a task can hold a view
of either key, or be in the middle of `GetKey`, while the other replaces or
clears both; three storages fill both slots and replace one. Each storage is
allocated once, so calls of `Add` are bounded by `Storages`. In `stored` two
envelopes (`MaxRecords`) allow one to be taken for the other, two keys and two
slots allow a key to be replaced, moved and added, and the lengths that exceed
their fields are cut to the lengths of the ones that do not. In `observed` the
queue has room for three events (`MaxQueue`), all those of one `SetConfig`, so
that several calls can be waiting to be handled. In `node` the properties are
about one frame or a pair, so two that the carriers take (`MaxAir`) are
enough; three sequences (`MaxSequence` stands for 2^64 - 1, so two can be used)
and two sessions let a session be exhausted, ended and followed. Five
activations over both tasks when a call has been made (`MaxDepth`; notifications
find room on top) are what the hard cases need: `SetConfig` and a second `Send`
in the notification of a `Protect`, a frame looped back inside `Send` whose
callback sends, and a `Send` that overlaps the carrier's task in `Unprotect`.
`node` has one configuration under `Required`, which draws its sessions, and one
under `Disabled` with another key and an explicit session; `Preferred` sends here as
`Required` does and receives as `Disabled` does. All properties of `node` are proved for every value of these bounds. `MaxField` and `MaxLength` stand
for 255 and 2^32 - 1; in `delivery` a payload is longer than `MaxLength` and within
`MaximumPlaintextBytes`, and the second of two keys does not fit the cipher.

Fairness. Only `StaticKeyProvider` assumes any: `WF_vars(Continue(t))` for each
task, that is, a task inside a call or using a key is scheduled again and ends
its use. A task is not obliged to begin a call, nor to win the mutex against
others, since weak fairness obliges nothing that is disabled again and again.
`RetiredIsErased` needs no more, because no waiting call holds a reference that
matters: the new storage of `Add` is not retired until it is stored or given up.

### Disagreements with the documentation

- `SetConfig` with the explicit session already in use starts the sequence again
  without `SessionReset`, and drops the replay history without
  `ReplayProtectionReset` (run `resets`; ITransportSecurityObserver.hpp:23
  and 33).
- A `Disabled` receiver refuses plaintext that begins with the envelope magic
  (run `plaintext`; TRANSPORT_SECURITY.md:89), and plaintext above
  `MaximumPlaintextBytes` is delivered (run `plaintext`;
  TRANSPORT_SECURITY.md:123-134). The run refutes both in one state.
- A decorator "installs itself as the carrier receiver until destruction"
  (SecureTransportDecorator.hpp:14), but the destructor of one that was replaced
  clears the receiver of the one that replaced it (run `deaf`).
- The receiver callback gets "successfully authenticated and unprotected
  application payloads" (SecureTransportDecorator.hpp:17; the "authenticated
  receiver" of TRANSPORT_SECURITY.md:119), but `HandleReceive` looks only at
  `Success`, and plaintext is a success under `Preferred` and `Disabled` (run
  `unauthenticated`). TRANSPORT_SECURITY.md:87-93 says that those policies permit
  plaintext; a callback that relies on its own description has to look at
  `Protected`.

## Proofs

What is proved holds for every value of the constants that satisfies the named
assumptions. They say that sets of endpoints, applications and radios lie in
those they are drawn from; that identifiers, sizes and lengths are natural
numbers and identifiers in use are not zero (`IdentifiersAssumption`,
`LengthsAssumption`, `ConfigsAssumption`, `SharedAssumption`); that a window's
size is within its clamp; and that a registry has one cipher per algorithm to
begin with (`ProvisioningAssumption`), as `Register` keeps it.

`ReplayTable_proofs` has what the other proofs need of the table, as lemmas about
its operators. `Remembers(states, d, S)` says that the entry of domain d is the
memory of the set S of sequences: the highest is its maximum, and bit b is set
exactly when the sequence b below it is in S. `NothingRemembered` is the empty
table, `CommitRemembers` and `CommitKeeps` are a commit of the same and of
another domain, and `RememberedAnswers` is the point of it: a table that
remembers S gives the answer S would.

`ReplayWindow_proofs` proves, for every positive word width and every set of
senders, keys, sessions and sizes:

- `EntriesMatch`: `IInv` always holds. The invariant ties each entry to the
  history of its domain. `WindowExact` alone is not inductive, since the bits
  beyond the window but inside the word matter after the next slide.
- `WindowTypeCorrect`, `WindowIsExact` and `WindowImplementsGuard` follow from it.

`TransportSecurity_proofs` has two invariants. `IdentityIInv` needs that explicit
sessions are new, so `IdentitiesAreUnique` and `SessionsStayClaimed` have
`ReuseSessions` as the alternative. Uniqueness is not inductive by itself: the
invariant adds that an endpoint with a session is the only one that claimed it,
that every envelope lies in a claim, and that the envelopes of a session in use
have sequences below the next one. Sealing then adds a sequence above all
others of its claim, and a new session is outside every claim.

`TransportIInv` holds whether or not sessions are reused. It consists of the types
of what an endpoint sends from (`OutboundIInv`), of the frames as `Protect` writes
them (`FramesIInv`), of a table that has exactly the domains of what was accepted
(`RememberedIInv`, of which `TableIsEarned` states the part a reader wants: frames
that are refused cannot make the table grow), and of a history that holds only
what was sent and that the table remembers (`InboundIInv`). From it follow

- `TransportTypeCorrect`;
- `FreshIsAccepted`: of the checks of `Unprotect`, taken in the order of the code,
  an envelope that can be opened passes all but the window's, and the window's
  answer is the history's by `RememberedAnswers`;
- with `IdentityIInv`, `TransportImplementsChannel`: an accepted message was sent,
  since no damage yields a frame that opens as another; and it was not accepted
  before, since the window would have refused its sequence, and unique identities
  leave no other message of the same one.

`StaticKeyProvider_proofs` proves, for every number of tasks, slots and storages,
`ProviderInvariant`, `KeysOutliveTheirUse` and `ProviderImplementsMap`. That no
referenced storage is erased is preserved only because no step refers to a
storage that nothing referred to before, and `Bind` is the one step for which
that is not plain: it needs that the entry found is still in the map, which
needs in turn that a task inside a critical section is the mutex's owner. These
three facts are `KeyIInv`. `StepMutex`, `StepFound` and `StepReferences` prove
its parts for any step, and `NextKeyIInv` applies them to each action.

`DataProtector_proofs` proves `ProtectorImplementsVault` and
`EnvelopesStayReadable` from one invariant, `SealIInv`: the header of every
stored envelope says what its seal was made with. Damage never changes a seal
(`FoundSeals`), so what opens has the payload and the context of a stored one.
`BuffersAreVerified` and `ProtectorTypeCorrect` rest on the same invariant; the
latter needs that the types of what the environment provides are kept, and that
what is cut to the width of a field is within it (`FieldsFit`).

`SecureTransport_proofs` proves, for every number of tasks, decorators and carriers
and every depth of nested calls, the invariant that the rest needs, `NodeIInv`.
It types the stacks over the decorators that are alive: every activation of a
decorator names a living one, and a call of the object lies on a call of a
decorator. The lemmas before it say what pushing, replacing, returning and
unwinding do to such a stack (`Cons`, `Replace`, `Rest`, `Suffix`, `Thrown`); `Retype` is what makes `Destroy` a step of it, given `Quiet`.

The second half of the module proves `NodeIdentitiesAreUnique`, the uniqueness of
identities with the calls taken apart. The invariant, `UniqueIInv`, rests on
three facts: only the innermost call of a task can have taken a sequence that
is not sealed yet or hold an envelope that is not sent yet (`Ordered`); at most
one task is inside `Protect`; and what was sealed in the current session lies
below `nextSequence` and differs from the sequence about to be sealed.
`TameStep` covers every step that leaves nothing in the task's hands,
`SessionStep` a new session, from `Protect` or from `SetConfig`, `SentStep` an
envelope that a carrier takes; `TakeSequenceStep` and `SealStep` the two that
are left. The proof needs `Alone` only where a session changes or a `Protect`
begins.

`NodeHistory_proofs` proves the other four invariants of the node, and that it
implements the abstract channel, from `HistoryIInv`, which has four parts.

- `CallsIInv`: what a stack may hold. Every activation is good (`GoodCalls`): a
  `Protect` that no configuration disturbed has the current key, and a session
  once it is past the step that establishes one; an `Unprotect` handles plaintext
  or what was sent; what a decorator is about to hand on is whole, was sent and has
  the key it names, or is plaintext that came in under a lenient policy
  (`Admitted`). And every activation may lie on the one below it (`Above`): on a
  `SetConfig` lies only a notification, on a call that opens an envelope nothing,
  and an `Unprotect` that passes plaintext on lies on a `Handle` that began under a
  lenient policy.
  Goodness depends on the configuration, so `ChainDisturbed` is needed to carry a
  whole stack over a `SetConfig` made somewhere above it, and `GoodGrows` over a
  session that begins and an envelope that is taken. `SpoiltIsReconfigured` and
  `AdmittedIsHanded` are consequences.
- `ObserverIInv`: if the observer is wrong about the session, there is a `SetConfig`
  in progress whose remaining notifications put it right (`Corrects`): it has both
  to give and the observer knows nothing or the session it replaced, or it has
  the second to give and the observer knows nothing. This is what
  `ObserverKnowsSession` lacks to be inductive. No exception can remove such a
  `SetConfig`: it would have to leave a notification first, which swallows it
  (`ChainUnwound`). And a `SetConfig` made inside one of its notifications replaces
  the session without changing what the observer knows, so whichever of the two
  corrects then, one does.
- `MemoryIInv`: the table remembers exactly what was accepted since the last reset,
  and each of it was accepted once.
- `OpeningIInv`: what a task opens between the check and the commit is still
  admitted by the table. The check's answer would be stale if anyone committed in
  between; that none does is proved from `Alone` for other tasks and from `Above`
  for the same one.

`AcceptedIsRemembered` follows from `MemoryIInv` and `RememberedAnswers`. The proof
has one lemma per step of the calls; the steps that neither open an envelope nor
reconfigure the object are all instances of `PlainStep`, whatever they do to
their stack (`Leaves`, `Goes`, `Notifies`, `Returns`, `Throws`).

`NodeImplementsChannel` needs `UniqueIInv` and `HistoryIInv` before and after a
step. An envelope that a carrier takes sends a message of a new identity
(`TakenSends`): after the step, too, no two taken envelopes share one.
`CommitReplay` delivers one (`CommitDelivers`): it was sent, by the goodness of the
`Unprotect` that opened it, and by `OpeningIInv` the table still admits it, so it
was not accepted before. `SetConfig` and `ResetReplayProtection` forget, and every
other step is a stutter (`WorkAccepts`).

### Observers

The last part of `TransportSecurity_proofs` proves `ObserversFollow`, that an
observer knows the session after each call. `Followed` is a recursive function,
and what it computes for sequences of any length is shown without the library's
induction theorems: were there an index at which no such function exists
(`TraceExists`) or at which two of them differ (`FollowedIs`), there would be a
least one (`Least`), and the step to it from the index before gives the
contradiction. What the rest needs are its values for no event (`FollowedNone`), one
(`FollowedOne`) and one sequence after another (`FollowedBoth`), and that only what
is learned of each event counts (`FollowedAlike`, `FollowedSilent`).
`TellsOf(c, q, before, after)` says that the notices q are about c and lead from
one session to the other; it composes (`TellsBoth`), which gives `EstablishTells`
and `ChangeTells`, and with them that each call `Speaks`: what it tells is what it
did to the session. The invariant is `OutboundIInv`: a session that is ready is the
one `Protect` stays in.

`EventBridge_proofs` proves `BridgeOnlyObserves`, that every behaviour with a bridge
is a behaviour of `TransportSecurity`, so that the theorems about the endpoints hold
with it too; and `ConsumersCatchUp`. `ConsumerCatchesUp` is not inductive alone: the
invariant, `BridgeIInv`, adds that only the connected object is observed
(`Connected`), so that a call of another one queues nothing. A call of the connected
one queues events that teach what its notices teach (`EventsFollowed`), after what
is queued already, and handling the oldest event moves it from the queue to what the
consumer knows (`FollowedFirst`).

## Only model-checked

`RetiredIsErased` is a liveness property under fairness, out of the prover's reach.
Every other property of a passing run is a theorem. No module uses a recursive
operator.

## Not modelled

- two tasks inside `Protect`, or inside `Unprotect`, of one object: the code has
  no lock and promises nothing there, so nothing but the race itself could
  be stated;
- a cipher that is destroyed while the registry still points at it: the
  application's obligation, stated nowhere more precisely;
- several observers of one object: the order in which the Observable library
  calls them is not in this repository;
- an event the bridge cannot allocate, and the events of two objects in one
  queue: no document says what a consumer may assume then;
- the arithmetic of the ciphers, the quality of random bytes (the random sources
  are modelled by success, failure and zero results), allocation policies,
  message texts, the examples, the platform's tests and build files.
