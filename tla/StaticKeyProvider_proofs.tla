----------------------- MODULE StaticKeyProvider_proofs -----------------------
(***************************************************************************)
(* Proofs about StaticKeyProvider for every set of tasks, slots and        *)
(* storages.                                                               *)
(***************************************************************************)
EXTENDS StaticKeyProvider, TLAPS

USE NoneAssumption

Places == Critical \cup Waiting \cup {"idle", "using", "clear release"}

\* The type invariant of what holds slots and references
HoldersOK ==
  /\ entries \in [Slots -> Storages \cup {None}]
  /\ slot \in [Threads -> Slots]
  /\ fresh \in [Threads -> Storages \cup {None}]
  /\ removed \in [Threads -> SUBSET Storages]
  /\ found \in [Threads -> Storages \cup {None}]
  /\ view \in [Threads -> Storages \cup {None}]

-----------------------------------------------------------------------------
(* One lemma for each part of the invariant, about any step of a thread t  *)
(* that moves from one place to another.                                   *)

\* The thread takes the mutex, gives it back, or stays on its side of it.
LEMMA StepMutex ==
  ASSUME KeyIInv, NEW t \in Threads, NEW from, NEW to \in Places, Goto(t, from, to),
         \/ UNCHANGED mutex /\ (from \in Critical <=> to \in Critical)
         \/ mutex = None /\ mutex' = t /\ to \in Critical
         \/ from \in Critical /\ mutex' = None /\ to \notin Critical
  PROVE  /\ pc' \in [Threads -> Places]
         /\ mutex' \in Threads \cup {None}
         /\ \A u \in Threads : pc'[u] \in Critical <=> mutex' = u
<1>1. pc \in [Threads -> Places] /\ mutex \in Threads \cup {None}
  BY DEF KeyIInv, TypeOK, Places
<1>2. /\ pc[t] = from /\ pc'[t] = to
      /\ \A u \in Threads \ {t} : pc'[u] = pc[u]
      /\ pc' \in [Threads -> Places]
  BY <1>1 DEF Goto
<1>3. \A u \in Threads : pc[u] \in Critical <=> mutex = u
  BY DEF KeyIInv
<1>4. None \notin Threads
  OBVIOUS
<1>5. ASSUME NEW u \in Threads
      PROVE  pc'[u] \in Critical <=> mutex' = u
  <2>1. CASE u = t
    BY <1>2, <1>3, <1>4, <2>1
  <2>2. CASE u # t
    BY <1>2, <1>3, <1>4, <2>2
  <2>3. QED
    BY <2>1, <2>2
<1>6. QED
  BY <1>1, <1>2, <1>5

\* What another thread has found stays where it is until it is bound, since
\* only the owner of the mutex changes the entries.
LEMMA StepFound ==
  ASSUME KeyIInv, NEW t \in Threads, NEW from, NEW to, Goto(t, from, to),
         UNCHANGED entries \/ from \in Critical,
         \A u \in Threads \ {t} : slot'[u] = slot[u] /\ found'[u] = found[u],
         to = "get bind" => entries'[slot'[t]] = found'[t] /\ found'[t] # None
  PROVE  \A u \in Threads : pc'[u] = "get bind" =>
           entries'[slot'[u]] = found'[u] /\ found'[u] # None
<1>1. /\ pc[t] = from /\ pc'[t] = to
      /\ \A u \in Threads \ {t} : pc'[u] = pc[u]
  BY DEF Goto, KeyIInv, TypeOK
<1>2. ASSUME NEW u \in Threads, pc'[u] = "get bind"
      PROVE  entries'[slot'[u]] = found'[u] /\ found'[u] # None
  <2>1. CASE u = t
    BY <1>1, <1>2, <2>1
  <2>2. CASE u # t
    <3>1. pc[u] = "get bind" /\ mutex = u
      BY <1>1, <1>2, <2>2 DEF KeyIInv, Critical
    <3>2. from \notin Critical
      BY <1>1, <2>2, <3>1 DEF KeyIInv
    <3>3. QED
      BY <2>2, <3>1, <3>2 DEF KeyIInv
  <2>3. QED
    BY <2>1, <2>2
<1>3. QED
  BY <1>2

\* No step makes a reference to anything but what is referenced already or has
\* just been allocated, so nothing that is erased is ever referenced again.
LEMMA StepReferences ==
  ASSUME KeyIInv, created \subseteq created', created' \subseteq Storages,
         Referenced' \subseteq Referenced \cup {None} \cup (created' \ created),
         UNCHANGED erased \/ EraseUnreferenced
  PROVE  /\ erased' \subseteq created'
         /\ Referenced' \subseteq created' \cup {None}
         /\ UsedNotErased'
<1>1. /\ created \subseteq Storages /\ erased \subseteq created
      /\ Referenced \subseteq created \cup {None} /\ erased \cap Referenced = {}
  BY DEF KeyIInv, TypeOK, UsedNotErased
<1>2. None \notin created'
  OBVIOUS
<1>3. Referenced' \subseteq created' \cup {None}
  BY <1>1
<1>4. erased' \subseteq created'
  BY <1>1 DEF EraseUnreferenced
<1>5. ASSUME NEW x \in erased' PROVE x \notin Referenced'
  <2>1. CASE x \in erased
    BY <1>1, <1>2, <1>4, <2>1
  <2>2. CASE x \notin erased
    BY <1>5, <2>2 DEF EraseUnreferenced
  <2>3. QED
    BY <2>1, <2>2
<1>6. QED
  BY <1>3, <1>4, <1>5 DEF UsedNotErased

\* A step that meets the conditions of the three lemmas keeps the invariant.
LEMMA StepIInv ==
  ASSUME KeyIInv, NEW t \in Threads, NEW from, NEW to \in Places, Goto(t, from, to),
         \/ UNCHANGED mutex /\ (from \in Critical <=> to \in Critical)
         \/ mutex = None /\ mutex' = t /\ to \in Critical
         \/ from \in Critical /\ mutex' = None /\ to \notin Critical,
         UNCHANGED entries \/ from \in Critical,
         \A u \in Threads \ {t} : slot'[u] = slot[u] /\ found'[u] = found[u],
         to = "get bind" => entries'[slot'[t]] = found'[t] /\ found'[t] # None,
         created \subseteq created', created' \subseteq Storages,
         Referenced' \subseteq Referenced \cup {None} \cup (created' \ created),
         UNCHANGED erased \/ EraseUnreferenced,
         HoldersOK'
  PROVE  KeyIInv'
<1>1. /\ pc' \in [Threads -> Places]
      /\ mutex' \in Threads \cup {None}
      /\ \A u \in Threads : pc'[u] \in Critical <=> mutex' = u
  BY StepMutex
<1>2. \A u \in Threads : pc'[u] = "get bind" =>
        entries'[slot'[u]] = found'[u] /\ found'[u] # None
  BY StepFound
<1>3. /\ erased' \subseteq created'
      /\ Referenced' \subseteq created' \cup {None}
      /\ UsedNotErased'
  BY StepReferences
<1>4. TypeOK'
  BY <1>1, <1>3 DEF TypeOK, HoldersOK, Places
<1>5. QED
  BY <1>1, <1>2, <1>3, <1>4 DEF KeyIInv, Critical

\* What a thread's locals, its view and the entries may come to hold without
\* making a reference to anything new.
LEMMA StepReferenced ==
  ASSUME NEW t \in Threads, NEW new,
         \A k \in Slots : entries'[k] \in Referenced \cup new,
         \A u \in Threads : fresh'[u] \in Referenced \cup new,
         \A u \in Threads : view'[u] \in Referenced \cup new,
         \A u \in Threads : removed'[u] \subseteq Referenced \cup new
  PROVE  Referenced' \subseteq Referenced \cup new
<1>1. SUFFICES ASSUME NEW x \in Referenced'
               PROVE  x \in Referenced \cup new
  OBVIOUS
<1>2. CASE \E k \in Slots : x = entries'[k]
  BY <1>2
<1>3. CASE \E u \in Threads : x = fresh'[u] \/ x = view'[u] \/ x \in removed'[u]
  BY <1>3
<1>4. QED
  BY <1>1, <1>2, <1>3 DEF Referenced

\* The same, for a step that leaves all holders of references alone.
LEMMA SameReferenced ==
  ASSUME UNCHANGED <<entries, fresh, removed, view>>
  PROVE  Referenced' = Referenced
BY DEF Referenced

\* What each holder holds is referenced.
LEMMA Held ==
  /\ \A k \in Slots : entries[k] \in Referenced
  /\ \A u \in Threads : fresh[u] \in Referenced /\ view[u] \in Referenced
  /\ \A u \in Threads : removed[u] \subseteq Referenced
BY DEF Referenced

-----------------------------------------------------------------------------
LEMMA InitKeyIInv == Init => KeyIInv
<1> SUFFICES ASSUME Init PROVE KeyIInv
  OBVIOUS
<1>1. TypeOK
  BY DEF Init, TypeOK
<1>2. \A t \in Threads : (pc[t] \in Critical <=> mutex = t) /\ pc[t] # "get bind"
  BY DEF Init, Critical
<1>3. Referenced \subseteq {None} /\ erased = {}
  BY DEF Init, Referenced
<1>4. QED
  BY <1>1, <1>2, <1>3 DEF KeyIInv, UsedNotErased

\* The steps of a call that only take the mutex ...
LEMMA LockStep ==
  ASSUME KeyIInv, NEW t \in Threads, NEW from, NEW to \in Critical \ {"get bind"},
         Lock(t, from, to),
         UNCHANGED <<entries, locals, view, created, erased>>
  PROVE  KeyIInv'
<1>1. UNCHANGED <<entries, slot, fresh, removed, found, view, created, erased>>
  BY DEF locals
<1>2. Goto(t, from, to) /\ mutex = None /\ mutex' = t /\ to \in Places
  BY DEF Lock, Places
<1>3. Referenced' = Referenced
  BY <1>1, SameReferenced
<1>4. created \subseteq Storages /\ HoldersOK'
  BY <1>1 DEF KeyIInv, TypeOK, HoldersOK
<1>5. QED
  BY <1>1, <1>2, <1>3, <1>4, StepIInv

\* ... and those that only give it back.
LEMMA UnlockStep ==
  ASSUME KeyIInv, NEW t \in Threads, NEW from \in Critical,
         NEW to \in {"idle", "using", "clear release"}, Unlock(t, from, to),
         UNCHANGED <<entries, locals, view, created, erased>>
  PROVE  KeyIInv'
<1>1. UNCHANGED <<entries, slot, fresh, removed, found, view, created, erased>>
  BY DEF locals
<1>2. Goto(t, from, to) /\ mutex' = None /\ to \in Places /\ to \notin Critical
      /\ to # "get bind"
  BY DEF Unlock, Places, Critical
<1>3. Referenced' = Referenced
  BY <1>1, SameReferenced
<1>4. created \subseteq Storages /\ HoldersOK'
  BY <1>1 DEF KeyIInv, TypeOK, HoldersOK
<1>5. QED
  BY <1>1, <1>2, <1>3, <1>4, StepIInv

\* Every step of the provider keeps the invariant.
LEMMA NextKeyIInv == KeyIInv /\ [Next]_vars => KeyIInv'
<1> SUFFICES ASSUME KeyIInv, [Next]_vars PROVE KeyIInv'
  OBVIOUS
<1>T. TypeOK /\ HoldersOK /\ created \subseteq Storages
  BY DEF KeyIInv, TypeOK, HoldersOK
<1>S. CASE UNCHANGED vars
  <2>1. UNCHANGED <<entries, mutex, pc, slot, fresh, removed, found, view, created, erased>>
    BY <1>S DEF vars, locals
  <2>2. Referenced' = Referenced
    BY <2>1, SameReferenced
  <2>3. TypeOK'
    BY <1>T, <2>1 DEF TypeOK
  <2>4. QED
    BY <2>1, <2>2, <2>3 DEF KeyIInv, UsedNotErased
<1>1. ASSUME NEW t \in Threads, NEW k \in Slots, NEW s \in Storages, AddBuild(t, k, s)
      PROVE  KeyIInv'
  <2>1. Referenced' \subseteq Referenced \cup {s}
    BY <1>1, <1>T, Held, StepReferenced DEF AddBuild, TypeOK
  <2>2. Referenced' \subseteq Referenced \cup (created' \ created)
    BY <1>1, <2>1 DEF AddBuild
  <2>3. QED
    BY <1>1, <1>T, <2>2, StepIInv DEF AddBuild, HoldersOK, Goto, Places, Waiting, Critical
<1>2. ASSUME NEW t \in Threads, AddStore(t)
      PROVE  KeyIInv'
  <2>1. Referenced' \subseteq Referenced \cup {None}
    BY <1>2, <1>T, Held, StepReferenced DEF AddStore, TypeOK
  <2>2. HoldersOK'
    BY <1>2, <1>T DEF AddStore, HoldersOK
  <2>3. QED
    BY <1>2, <1>T, <2>1, <2>2, StepIInv DEF AddStore, Places, Waiting, Critical
<1>3. ASSUME NEW t \in Threads, AddFailed(t)
      PROVE  KeyIInv'
  <2>1. Referenced' \subseteq Referenced \cup {None}
    BY <1>3, <1>T, Held, StepReferenced DEF AddFailed, TypeOK
  <2>2. HoldersOK'
    <3>1. fresh' = [fresh EXCEPT ![t] = None] /\ UNCHANGED <<entries, slot, removed, found, view>>
      BY <1>3 DEF AddFailed
    <3>2. QED
      BY <1>T, <3>1 DEF HoldersOK
  <2>3. QED
    BY <1>3, <1>T, <2>1, <2>2, StepIInv DEF AddFailed, Places, Waiting, Critical
<1>4. ASSUME NEW t \in Threads, NEW k \in Slots, RemoveBegin(t, k)
      PROVE  KeyIInv'
  <2>1. Referenced' \subseteq Referenced \cup {None}
    BY <1>4, <1>T, Held, StepReferenced DEF RemoveBegin, TypeOK
  <2>2. HoldersOK'
    BY <1>4, <1>T DEF RemoveBegin, HoldersOK
  <2>3. QED
    BY <1>4, <1>T, <2>1, <2>2, StepIInv DEF RemoveBegin, HoldersOK, Places, Waiting, Critical
<1>5. ASSUME NEW t \in Threads, Remove(t)
      PROVE  KeyIInv'
  <2>1. Referenced' \subseteq Referenced \cup {None}
    BY <1>5, <1>T, Held, StepReferenced DEF Remove, TypeOK, locals
  <2>2. HoldersOK'
    BY <1>5, <1>T DEF Remove, HoldersOK, locals
  <2>3. QED
    BY <1>5, <1>T, <2>1, <2>2, StepIInv DEF Remove, Places, Waiting, Critical, locals
<1>6. ASSUME NEW t \in Threads, ClearBegin(t)
      PROVE  KeyIInv'
  <2>1. Referenced' \subseteq Referenced \cup {None}
    BY <1>6, <1>T, Held, StepReferenced DEF ClearBegin, TypeOK, locals
  <2>2. HoldersOK'
    BY <1>6, <1>T DEF ClearBegin, HoldersOK, locals
  <2>3. QED
    BY <1>6, <1>T, <2>1, <2>2, StepIInv DEF ClearBegin, Places, Waiting, Critical, locals
<1>7. ASSUME NEW t \in Threads, ClearSwap(t)
      PROVE  KeyIInv'
  <2> DEFINE held == {entries[k] : k \in Slots} \ {None}
  <2>1. held \subseteq Storages /\ held \subseteq Referenced
    BY <1>T DEF HoldersOK, Referenced
  <2>2. /\ removed' = [removed EXCEPT ![t] = held]
        /\ entries' = [k \in Slots |-> None]
        /\ UNCHANGED <<mutex, slot, fresh, found, view, created, erased>>
        /\ Goto(t, "clear", "clear unlock")
    BY <1>7 DEF ClearSwap
  <2> HIDE DEF held
  <2>3. \A u \in Threads : removed'[u] \subseteq Referenced
    BY <1>T, <2>1, <2>2, Held DEF HoldersOK
  <2>4. Referenced' \subseteq Referenced \cup {None}
    BY <2>2, <2>3, Held, StepReferenced
  <2>5. HoldersOK'
    BY <1>T, <2>1, <2>2 DEF HoldersOK
  <2>6. QED
    BY <1>T, <2>2, <2>4, <2>5, StepIInv DEF Places, Critical
<1>8. ASSUME NEW t \in Threads, ClearRelease(t)
      PROVE  KeyIInv'
  <2>1. Referenced' \subseteq Referenced \cup {None}
    BY <1>8, <1>T, Held, StepReferenced DEF ClearRelease, TypeOK
  <2>2. HoldersOK'
    BY <1>8, <1>T DEF ClearRelease, HoldersOK
  <2>3. QED
    BY <1>8, <1>T, <2>1, <2>2, StepIInv DEF ClearRelease, Places, Waiting, Critical
<1>9. ASSUME NEW t \in Threads, NEW k \in Slots, GetBegin(t, k)
      PROVE  KeyIInv'
  <2>1. Referenced' \subseteq Referenced \cup {None}
    BY <1>9, <1>T, Held, StepReferenced DEF GetBegin, TypeOK
  <2>2. HoldersOK'
    BY <1>9, <1>T DEF GetBegin, HoldersOK
  <2>3. QED
    BY <1>9, <1>T, <2>1, <2>2, StepIInv DEF GetBegin, HoldersOK, Places, Waiting, Critical
<1>10. ASSUME NEW t \in Threads, GetMissing(t)
      PROVE  KeyIInv'
  <2>1. Referenced' \subseteq Referenced \cup {None}
    BY <1>10, <1>T, Held, StepReferenced DEF GetMissing, TypeOK, locals
  <2>2. HoldersOK'
    BY <1>10, <1>T DEF GetMissing, HoldersOK, locals
  <2>3. QED
    BY <1>10, <1>T, <2>1, <2>2, StepIInv DEF GetMissing, Places, Waiting, Critical, locals
<1>11. ASSUME NEW t \in Threads, GetFound(t)
      PROVE  KeyIInv'
  <2>1. Referenced' \subseteq Referenced \cup {None}
    BY <1>11, <1>T, Held, StepReferenced DEF GetFound, TypeOK
  <2>2. HoldersOK'
    BY <1>11, <1>T DEF GetFound, HoldersOK
  <2>3. QED
    BY <1>11, <1>T, <2>1, <2>2, StepIInv DEF GetFound, HoldersOK, Places, Waiting, Critical
<1>12. ASSUME NEW t \in Threads, GetBind(t)
      PROVE  KeyIInv'
  <2>1. Referenced' \subseteq Referenced \cup {None}
    <3>1. found[t] \in Referenced
      BY <1>12, Held DEF GetBind, Goto, KeyIInv, HoldersOK, TypeOK
    <3>2. QED
      BY <1>12, <1>T, <3>1, Held, StepReferenced DEF GetBind, HoldersOK, locals
  <2>2. HoldersOK'
    BY <1>12, <1>T DEF GetBind, HoldersOK, locals
  <2>3. QED
    BY <1>12, <1>T, <2>1, <2>2, StepIInv DEF GetBind, Places, Waiting, Critical, locals
<1>13. ASSUME NEW t \in Threads, Release(t)
      PROVE  KeyIInv'
  <2>1. Referenced' \subseteq Referenced \cup {None}
    BY <1>13, <1>T, Held, StepReferenced DEF Release, TypeOK, locals
  <2>2. HoldersOK'
    BY <1>13, <1>T DEF Release, HoldersOK, locals
  <2>3. QED
    BY <1>13, <1>T, <2>1, <2>2, StepIInv DEF Release, Places, Waiting, Critical, locals
<1>14. ASSUME NEW t \in Threads, AddLock(t) \/ RemoveLock(t) \/ ClearLock(t) \/ GetLock(t)
      PROVE  KeyIInv'
  BY <1>14, LockStep DEF AddLock, RemoveLock, ClearLock, GetLock, Critical
<1>15. ASSUME NEW t \in Threads, ClearUnlock(t) \/ GetUnlock(t) \/ Return(t)
      PROVE  KeyIInv'
  BY <1>15, UnlockStep DEF ClearUnlock, GetUnlock, Return, Critical
<1>16. ASSUME NEW t \in Threads, Begin(t) PROVE KeyIInv'
  BY <1>16, <1>1, <1>4, <1>6, <1>9 DEF Begin
<1>17. ASSUME NEW t \in Threads, Continue(t) PROVE KeyIInv'
  BY <1>17, <1>2, <1>3, <1>5, <1>7, <1>8, <1>10, <1>11, <1>12, <1>13, <1>14, <1>15
     DEF Continue
<1>18. QED
  BY <1>S, <1>16, <1>17 DEF Next

-----------------------------------------------------------------------------
\* Whoever is inside a critical section owns the mutex, and what GetKey found
\* is still the map's entry when it is bound (StaticKeyProvider.hpp:36-104).
THEOREM ProviderInvariant == Spec => []KeyIInv
<1>1. Init => KeyIInv
  BY InitKeyIInv
<1>2. KeyIInv /\ [Next]_vars => KeyIInv'
  BY NextKeyIInv
<1>3. QED
  BY <1>1, <1>2, PTL DEF Spec

\* No task, however many share the provider, ever holds a view of erased bytes
\* (StaticKeyProvider.hpp:76-104, ESPressio_SecurityTypes.hpp:89-128).
THEOREM KeysOutliveTheirUse == Spec => []UsedNotErased
<1>1. KeyIInv => UsedNotErased
  BY DEF KeyIInv
<1>2. QED
  BY <1>1, ProviderInvariant, PTL

-----------------------------------------------------------------------------
(* Each step of the provider is one step of the map, or leaves it alone. *)

MapStep == Map!Next \/ UNCHANGED <<entries, view>>

LEMMA NextMaps == KeyIInv /\ [Next]_vars => [Map!Next]_<<entries, view>>
<1> SUFFICES ASSUME KeyIInv, [Next]_vars PROVE MapStep
  BY DEF MapStep
<1>T. HoldersOK
  BY DEF KeyIInv, TypeOK, HoldersOK
<1>1. CASE UNCHANGED vars
  BY <1>1 DEF vars, MapStep
<1>2. ASSUME NEW t \in Threads, AddStore(t) PROVE MapStep
  <2>1. entries' = [entries EXCEPT ![slot[t]] = fresh[t]] /\ UNCHANGED view
    BY <1>2 DEF AddStore
  <2>2. slot[t] \in Slots /\ fresh[t] \in Storages \cup {None}
    BY <1>T DEF HoldersOK
  <2>3. CASE fresh[t] = None
    BY <2>1, <2>2, <2>3 DEF MapStep, Map!Next, Map!Remove
  <2>4. CASE fresh[t] \in Storages
    BY <2>1, <2>2, <2>4 DEF MapStep, Map!Next, Map!Put
  <2>5. QED
    BY <2>2, <2>3, <2>4
<1>3. ASSUME NEW t \in Threads, Remove(t) PROVE MapStep
  <2>1. entries' = [entries EXCEPT ![slot[t]] = None] /\ UNCHANGED view
    BY <1>3 DEF Remove
  <2>2. slot[t] \in Slots
    BY <1>T DEF HoldersOK
  <2>3. QED
    BY <2>1, <2>2 DEF MapStep, Map!Next, Map!Remove
<1>4. ASSUME NEW t \in Threads, ClearSwap(t) PROVE MapStep
  BY <1>4 DEF ClearSwap, MapStep, Map!Next, Map!Clear
\* The view gets what the map holds at the moment of Bind, not only what it
\* held at the moment of the search.
<1>5. ASSUME NEW t \in Threads, GetBind(t) PROVE MapStep
  <2>1. view' = [view EXCEPT ![t] = found[t]] /\ UNCHANGED entries /\ pc[t] = "get bind"
    BY <1>5 DEF GetBind, Goto
  <2>2. slot[t] \in Slots /\ entries[slot[t]] = found[t]
    BY <1>T, <2>1 DEF KeyIInv, HoldersOK
  <2>3. QED
    BY <2>1, <2>2 DEF MapStep, Map!Next, Map!Borrow
<1>6. ASSUME NEW t \in Threads, NEW k \in Slots, GetBegin(t, k) PROVE MapStep
  BY <1>6 DEF GetBegin, MapStep, Map!Next, Map!Release
<1>7. ASSUME NEW t \in Threads, Release(t) PROVE MapStep
  BY <1>7 DEF Release, MapStep, Map!Next, Map!Release
<1>8. ASSUME NEW t \in Threads,
             \/ AddLock(t) \/ RemoveLock(t) \/ ClearLock(t) \/ GetLock(t)
             \/ ClearUnlock(t) \/ GetUnlock(t) \/ Return(t) \/ ClearRelease(t)
             \/ AddFailed(t) \/ GetMissing(t) \/ GetFound(t)
      PROVE  MapStep
  BY <1>8 DEF AddLock, RemoveLock, ClearLock, GetLock, ClearUnlock, GetUnlock, Return,
     ClearRelease, AddFailed, GetMissing, GetFound, MapStep
<1>9. ASSUME NEW t \in Threads, Begin(t) PROVE MapStep
  <2>1. CASE \E k \in Slots, s \in Storages : AddBuild(t, k, s)
    BY <2>1 DEF AddBuild, MapStep
  <2>2. CASE (\E k \in Slots : RemoveBegin(t, k)) \/ ClearBegin(t)
    BY <2>2 DEF RemoveBegin, ClearBegin, MapStep
  <2>3. QED
    BY <1>6, <1>9, <2>1, <2>2 DEF Begin
<1>10. ASSUME NEW t \in Threads, Continue(t) PROVE MapStep
  BY <1>10, <1>2, <1>3, <1>4, <1>5, <1>7, <1>8 DEF Continue
<1>11. QED
  BY <1>1, <1>9, <1>10 DEF Next

\* For every set of tasks, the provider implements a map that changes in one
\* step (StaticKeyProvider.hpp:36-104).
THEOREM ProviderImplementsMap == Spec => ImplementsMap
<1>1. Init => Map!Init
  BY DEF Init, Map!Init
<1>2. KeyIInv /\ [Next]_vars => [Map!Next]_<<entries, view>>
  BY NextMaps
<1>3. QED
  BY <1>1, <1>2, ProviderInvariant, PTL DEF Spec, ImplementsMap, Map!Spec, Map!mapVars
=============================================================================
