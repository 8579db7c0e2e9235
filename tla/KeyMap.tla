------------------------------- MODULE KeyMap -------------------------------
(***************************************************************************)
(* What a key provider promises the tasks that share it: a map that        *)
(* changes in one step, from which a task borrows the key of that moment   *)
(* and keeps it, whatever happens to the map, until it gives it back.      *)
(***************************************************************************)
CONSTANTS Threads, Slots, Storages, None

VARIABLES map, view

mapVars == <<map, view>>

Init ==
  /\ map = [k \in Slots |-> None]
  /\ view = [t \in Threads |-> None]

Put(k, s) == map' = [map EXCEPT ![k] = s] /\ UNCHANGED view

Remove(k) == map' = [map EXCEPT ![k] = None] /\ UNCHANGED view

Clear == map' = [k \in Slots |-> None] /\ UNCHANGED view

Borrow(t, k) == view' = [view EXCEPT ![t] = map[k]] /\ UNCHANGED map

Release(t) == view' = [view EXCEPT ![t] = None] /\ UNCHANGED map

Next ==
  \/ \E k \in Slots, s \in Storages : Put(k, s)
  \/ \E k \in Slots : Remove(k)
  \/ Clear
  \/ \E t \in Threads : Release(t) \/ \E k \in Slots : Borrow(t, k)

Spec == Init /\ [][Next]_mapVars
=============================================================================
