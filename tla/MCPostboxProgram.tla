--------------------------- MODULE MCPostboxProgram ---------------------------
(***************************************************************************)
(* Lists of matched transfers: all those between two cores up to a length  *)
(* that makes the sequence bytes wrap with a call under way, and all       *)
(* shorter ones in which a third core takes part.  Nothing distinguishes   *)
(* the cores, so the first transfer may always come from the same one.     *)
(***************************************************************************)
EXTENDS PostboxProgram

CONSTANTS Pair1, Pair2,  \* the two cores
          Long, Short    \* the lengths of the two kinds of lists

BetweenTwo == {t \in Transfers : t.from \in {Pair1, Pair2} /\ t.to \in {Pair1, Pair2}}
AllPrograms ==
  {list \in [1..Long -> BetweenTwo] \cup [1..Short -> Transfers] : list[1].from = Pair1}
===============================================================================
