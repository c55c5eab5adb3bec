------------------------------ MODULE Rendezvous ------------------------------
(***************************************************************************)
(* What the point-to-point calls of ePython promise to each ordered pair   *)
(* of cores, with no slot, no sequence byte and no copy loop in sight: a   *)
(* message is posted, then taken by its destination, then known by its     *)
(* source to have been taken, and the next one is not posted before that.  *)
(*                                                                         *)
(* A taken message is delivered cell by cell.  Each cell is the one that   *)
(* was posted or the one that the previous take of the same pair returned: *)
(* this is the strongest promise the copy loop of device-functions.c keeps *)
(* (see Postbox).                                                          *)
(***************************************************************************)
EXTENDS Naturals

CONSTANTS Cores,   \* the cores that run the interpreter
          Cells    \* the parts in which the payload of a message is copied

VARIABLES posted,  \* posted[p][q]: messages p has put in its slot at q
          taken,   \* taken[p][q]:  messages q has taken from p
          known,   \* known[p][q]:  messages p knows q has taken
          got      \* got[p][q]:    the payload the last take of q returned

rvars == <<posted, taken, known, got>>

Init ==
  /\ posted = [p \in Cores |-> [q \in Cores |-> 0]]
  /\ taken  = [p \in Cores |-> [q \in Cores |-> 0]]
  /\ known  = [p \in Cores |-> [q \in Cores |-> 0]]
  /\ got    = [p \in Cores |-> [q \in Cores |-> [c \in Cells |-> 0]]]

Post(p, q) ==
  /\ posted[p][q] = known[p][q]
  /\ posted' = [posted EXCEPT ![p][q] = @ + 1]
  /\ UNCHANGED <<taken, known, got>>

Take(p, q) ==
  /\ taken[p][q] < posted[p][q]
  /\ taken' = [taken EXCEPT ![p][q] = @ + 1]
  /\ \E payload \in [Cells -> 0..posted[p][q]] :
       /\ \A c \in Cells : payload[c] \in {taken'[p][q], got[p][q][c]}
       /\ got' = [got EXCEPT ![p][q] = payload]
  /\ UNCHANGED <<posted, known>>

Know(p, q) ==
  /\ known[p][q] < taken[p][q]
  /\ known' = [known EXCEPT ![p][q] = @ + 1]
  /\ UNCHANGED <<posted, taken, got>>

Next == \E p, q \in Cores : Post(p, q) \/ Take(p, q) \/ Know(p, q)

Spec == Init /\ [][Next]_rvars

-------------------------------------------------------------------------------
TypeOK ==
  /\ posted \in [Cores -> [Cores -> Nat]]
  /\ taken  \in [Cores -> [Cores -> Nat]]
  /\ known  \in [Cores -> [Cores -> Nat]]
  /\ got    \in [Cores -> [Cores -> [Cells -> Nat]]]

(* At most one message of a pair is under way: nothing is taken that was   *)
(* not posted, nothing is known to be taken that was not, and no message   *)
(* is posted over one that has not been taken (device-functions.c:601-640, *)
(* 722-740).                                                               *)
OneAtATime ==
  \A p, q \in Cores : /\ known[p][q] <= taken[p][q]
                      /\ taken[p][q] <= posted[p][q]
                      /\ posted[p][q] <= known[p][q] + 1

(* A payload is never from the future: every cell that a take returned was *)
(* posted by then.                                                         *)
NothingFromTheFuture ==
  \A p, q \in Cores, c \in Cells : got[p][q][c] <= taken[p][q]
===============================================================================
