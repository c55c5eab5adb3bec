------------------------------ MODULE SyncPoint -------------------------------
(***************************************************************************)
(* What "sync" promises: all processes "will all wait at this barrier      *)
(* until every other core has reached a corresponding sync call"           *)
(* (docs/documentation.html:125).  A process leaves its n-th               *)
(* synchronisation only when every process has entered its n-th one.       *)
(***************************************************************************)
EXTENDS Naturals

CONSTANT Members  \* the processes that synchronise

VARIABLES entered,  \* [p]: synchronisations p has entered
          left      \* [p]: synchronisations p has left

svars == <<entered, left>>

Init == /\ entered = [p \in Members |-> 0]
        /\ left = [p \in Members |-> 0]

Enter(p) ==
  /\ entered[p] = left[p]
  /\ entered' = [entered EXCEPT ![p] = @ + 1]
  /\ UNCHANGED left

Leave(p) ==
  /\ left[p] < entered[p]
  /\ \A q \in Members : entered[p] <= entered[q]
  /\ left' = [left EXCEPT ![p] = @ + 1]
  /\ UNCHANGED entered

Next == \E p \in Members : Enter(p) \/ Leave(p)

Spec == Init /\ [][Next]_svars
===============================================================================
