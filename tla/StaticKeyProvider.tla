-------------------------- MODULE StaticKeyProvider --------------------------
(***************************************************************************)
(* StaticKeyProvider shared by several tasks.  Each call is the sequence of *)
(* its steps outside and inside the mutex; the key bytes live in shared    *)
(* storages, which are overwritten when the last reference to them goes.   *)
(*                                                                         *)
(* A slot is a pair of key identifier and algorithm: the entries' vector   *)
(* holds at most one of each.                                              *)
(***************************************************************************)
EXTENDS FiniteSets

CONSTANTS
  Threads,
  Slots,
  Storages,     \* bound: the storages that are ever allocated
  None

ASSUME NoneAssumption == None \notin Threads \cup Storages

VARIABLES
  entries,      \* _entries
  mutex,        \* the thread inside _mutex, or None
  pc,           \* where each thread is
  slot,         \* the slot its call is about
  fresh,        \* Add's local storage
  removed,      \* Clear's local vector
  found,        \* GetKey's iterator: what the entry it points at held
  view,         \* the caller's KeyMaterialView
  created,      \* storages allocated so far
  erased        \* storages whose bytes are overwritten

locals == <<slot, fresh, removed, found>>
vars   == <<entries, mutex, pc, locals, view, created, erased>>

Init ==
  /\ entries = [k \in Slots |-> None]
  /\ mutex = None
  /\ pc = [t \in Threads |-> "idle"]
  /\ slot \in [Threads -> Slots]
  /\ fresh = [t \in Threads |-> None]
  /\ removed = [t \in Threads |-> {}]
  /\ found = [t \in Threads |-> None]
  /\ view = [t \in Threads |-> None]
  /\ created = {}
  /\ erased = {}

-----------------------------------------------------------------------------
(* Shared ownership *)

\* The storages some shared pointer holds.  The iterator of GetKey is none.
Referenced ==
  {entries[k] : k \in Slots} \cup {fresh[t] : t \in Threads}
    \cup {view[t] : t \in Threads} \cup UNION {removed[t] : t \in Threads}

\* A step that may drop references erases what nothing holds afterwards:
\* ~KeyMaterialStorage runs in the task that releases the last one.
EraseUnreferenced == erased' = erased \cup (created' \ Referenced')

Goto(t, from, to) == pc[t] = from /\ pc' = [pc EXCEPT ![t] = to]

Lock(t, from, to) == Goto(t, from, to) /\ mutex = None /\ mutex' = t

\* Mutant of Unlock: the guard's scope outlives the call.
UnlockKeeping(t, from, to) == Goto(t, from, to) /\ UNCHANGED mutex

Unlock(t, from, to) == Goto(t, from, to) /\ mutex' = None

-----------------------------------------------------------------------------
(* Add: the storage is built before the mutex is taken. *)

AddBuild(t, k, s) ==
  /\ Goto(t, "idle", "add lock")
  /\ s \notin created
  /\ created' = created \cup {s}
  /\ slot' = [slot EXCEPT ![t] = k]
  /\ fresh' = [fresh EXCEPT ![t] = s]
  /\ UNCHANGED <<entries, mutex, removed, found, view, erased>>

AddLock(t) ==
  /\ Lock(t, "add lock", "add store")
  /\ UNCHANGED <<entries, locals, view, created, erased>>

\* An entry that exists gets the new storage and drops the old one.
AddStore(t) ==
  /\ Goto(t, "add store", "unlock")
  /\ entries' = [entries EXCEPT ![slot[t]] = fresh[t]]
  /\ fresh' = [fresh EXCEPT ![t] = None]
  /\ UNCHANGED <<mutex, slot, removed, found, view, created>>
  /\ EraseUnreferenced

\* A new entry that does not fit: push_back throws and the storage goes.
AddFailed(t) ==
  /\ Goto(t, "add store", "unlock")
  /\ entries[slot[t]] = None
  /\ fresh' = [fresh EXCEPT ![t] = None]
  /\ UNCHANGED <<entries, mutex, slot, removed, found, view, created>>
  /\ EraseUnreferenced

-----------------------------------------------------------------------------
(* Remove and Clear *)

RemoveBegin(t, k) ==
  /\ Goto(t, "idle", "remove lock")
  /\ slot' = [slot EXCEPT ![t] = k]
  /\ UNCHANGED <<entries, mutex, fresh, removed, found, view, created, erased>>

RemoveLock(t) ==
  /\ Lock(t, "remove lock", "remove")
  /\ UNCHANGED <<entries, locals, view, created, erased>>

Remove(t) ==
  /\ Goto(t, "remove", "unlock")
  /\ entries' = [entries EXCEPT ![slot[t]] = None]
  /\ UNCHANGED <<mutex, locals, view, created>>
  /\ EraseUnreferenced

ClearBegin(t) ==
  /\ Goto(t, "idle", "clear lock")
  /\ UNCHANGED <<entries, mutex, locals, view, created, erased>>

ClearLock(t) ==
  /\ Lock(t, "clear lock", "clear")
  /\ UNCHANGED <<entries, locals, view, created, erased>>

\* The entries move to a local vector, which outlives the mutex.
ClearSwap(t) ==
  /\ Goto(t, "clear", "clear unlock")
  /\ removed' = [removed EXCEPT ![t] = {entries[k] : k \in Slots} \ {None}]
  /\ entries' = [k \in Slots |-> None]
  /\ UNCHANGED <<mutex, slot, fresh, found, view, created, erased>>

ClearUnlock(t) ==
  /\ Unlock(t, "clear unlock", "clear release")
  /\ UNCHANGED <<entries, locals, view, created, erased>>

ClearRelease(t) ==
  /\ Goto(t, "clear release", "idle")
  /\ removed' = [removed EXCEPT ![t] = {}]
  /\ UNCHANGED <<entries, mutex, slot, fresh, found, view, created>>
  /\ EraseUnreferenced

-----------------------------------------------------------------------------
(* GetKey, and the caller that holds the view *)

\* Mutant of GetBegin: the caller's view is not cleared first.
GetBeginKeeping(t, k) ==
  /\ Goto(t, "idle", "get lock") \/ Goto(t, "using", "get lock")
  /\ slot' = [slot EXCEPT ![t] = k]
  /\ UNCHANGED <<entries, mutex, fresh, removed, found, view, created, erased>>

\* A caller may pass the view of an earlier call, which is let go first.
GetBegin(t, k) ==
  /\ Goto(t, "idle", "get lock") \/ Goto(t, "using", "get lock")
  /\ slot' = [slot EXCEPT ![t] = k]
  /\ view' = [view EXCEPT ![t] = None]
  /\ UNCHANGED <<entries, mutex, fresh, removed, found, created>>
  /\ EraseUnreferenced

\* Mutant of GetLock: the mutex is not taken.
GetLockFree(t) ==
  /\ Goto(t, "get lock", "get find")
  /\ UNCHANGED <<entries, mutex, locals, view, created, erased>>

GetLock(t) ==
  /\ Lock(t, "get lock", "get find")
  /\ UNCHANGED <<entries, locals, view, created, erased>>

GetMissing(t) ==
  /\ Goto(t, "get find", "unlock")
  /\ entries[slot[t]] = None
  /\ UNCHANGED <<entries, mutex, locals, view, created, erased>>

GetFound(t) ==
  /\ Goto(t, "get find", "get bind")
  /\ entries[slot[t]] # None
  /\ found' = [found EXCEPT ![t] = entries[slot[t]]]
  /\ UNCHANGED <<entries, mutex, slot, fresh, removed, view, created, erased>>

\* Bind copies the shared pointer.
GetBind(t) ==
  /\ Goto(t, "get bind", "get unlock")
  /\ view' = [view EXCEPT ![t] = found[t]]
  /\ UNCHANGED <<entries, mutex, locals, created, erased>>

GetUnlock(t) ==
  /\ Unlock(t, "get unlock", "using")
  /\ UNCHANGED <<entries, locals, view, created, erased>>

\* The operation is over and the view is destroyed.
Release(t) ==
  /\ Goto(t, "using", "idle")
  /\ view' = [view EXCEPT ![t] = None]
  /\ UNCHANGED <<entries, mutex, locals, created>>
  /\ EraseUnreferenced

\* The end of Add, of Remove, and of a GetKey that found nothing
Return(t) ==
  /\ Unlock(t, "unlock", "idle")
  /\ UNCHANGED <<entries, locals, view, created, erased>>

-----------------------------------------------------------------------------
Begin(t) ==
  \/ \E k \in Slots :
       \/ \E s \in Storages : AddBuild(t, k, s)
       \/ RemoveBegin(t, k)
       \/ GetBegin(t, k)
  \/ ClearBegin(t)

\* The steps of a call that has begun, and the end of a view's use
Continue(t) ==
  \/ AddLock(t) \/ AddStore(t) \/ AddFailed(t)
  \/ RemoveLock(t) \/ Remove(t)
  \/ ClearLock(t) \/ ClearSwap(t) \/ ClearUnlock(t) \/ ClearRelease(t)
  \/ GetLock(t) \/ GetMissing(t) \/ GetFound(t) \/ GetBind(t) \/ GetUnlock(t)
  \/ Release(t) \/ Return(t)

Next == \E t \in Threads : Begin(t) \/ Continue(t)

\* A task that is inside a call, or uses a key, is scheduled again; nothing
\* obliges it to begin another call or to win the mutex against others.
Fairness == \A t \in Threads : WF_vars(Continue(t))

Spec == Init /\ [][Next]_vars /\ Fairness

-----------------------------------------------------------------------------
Critical == {"add store", "remove", "clear", "clear unlock", "get find",
             "get bind", "get unlock", "unlock"}
Waiting  == {"add lock", "remove lock", "clear lock", "get lock"}

TypeOK ==
  /\ entries \in [Slots -> Storages \cup {None}]
  /\ mutex \in Threads \cup {None}
  /\ pc \in [Threads -> Critical \cup Waiting \cup {"idle", "using", "clear release"}]
  /\ slot \in [Threads -> Slots]
  /\ fresh \in [Threads -> Storages \cup {None}]
  /\ removed \in [Threads -> SUBSET Storages]
  /\ found \in [Threads -> Storages \cup {None}]
  /\ view \in [Threads -> Storages \cup {None}]
  /\ created \subseteq Storages
  /\ erased \subseteq created

\* Key bytes are never overwritten under a task that borrowed them, nor while
\* the provider would still hand them out, however calls overlap
\* (StaticKeyProvider.hpp:76-104, ESPressio_SecurityTypes.hpp:89-128).
UsedNotErased == erased \cap Referenced = {}

\* The inductive invariant: the thread in a critical section owns the mutex,
\* so that the entry GetKey found is still there when it is bound, and what is
\* referenced is allocated and intact (StaticKeyProvider.hpp:36-104).
KeyIInv ==
  /\ TypeOK
  /\ \A t \in Threads : pc[t] \in Critical <=> mutex = t
  /\ \A t \in Threads : pc[t] = "get bind" =>
       entries[slot[t]] = found[t] /\ found[t] # None
  /\ Referenced \subseteq created \cup {None}
  /\ UsedNotErased

\* However calls overlap, the provider is a map that changes in one step, and
\* a borrowed key is the one the map held at one moment of the call
\* (StaticKeyProvider.hpp:36-104).
Map == INSTANCE KeyMap WITH map <- entries

ImplementsMap == Map!Spec

Retired(s) ==
  /\ s \in created
  /\ \A k \in Slots : entries[k] # s
  /\ \A t \in Threads : fresh[t] # s

\* A key that was replaced, removed, cleared or never published is overwritten
\* in the end (StaticKeyProvider.hpp:76-77, 87).
RetiredIsErased == \A s \in Storages : Retired(s) ~> s \in erased
=============================================================================
