------------------------------ MODULE MCHostCalls ------------------------------
(***************************************************************************)
(* The lists of a given length over the calls MCCommands and MCTransfers,  *)
(* those of MCOnce not more than once, to keep the run small.  A list      *)
(* counts once: the cores and the threads come in their order, and two     *)
(* calls that have neither the core nor the thread in common stand in one  *)
(* order, as the other order gives the same run.                           *)
(***************************************************************************)
EXTENDS HostCalls

CONSTANTS Length, MCCommands, MCTransfers, MCOnce

MCPrograms ==
  {p \in [1..Length -> {item \in Items : item.call \in MCCommands \cup MCTransfers}] :
     /\ \A call \in MCOnce : Cardinality({i \in 1..Length : p[i].call = call}) <= 1
     /\ p[1].core = 0
     /\ \A i \in 1..Length : p[i].thread = "t1" => \E j \in 1..i-1 : p[j].thread = "t0"
     /\ \A i \in 1..Length-1 :
          \/ p[i].core <= p[i+1].core
          \/ p[i].thread = p[i+1].thread /\ p[i].thread # None}
===============================================================================
