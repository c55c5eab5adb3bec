---------------------------- MODULE DeviceBarrier -----------------------------
(***************************************************************************)
(* The barrier of the Epiphany cores: how the host starts them             *)
(* (device-support.c, startApplicableCores), how each sets its half of the *)
(* barrier up (device/main.c) and the barrier itself (device-functions.c,  *)
(* performBarrier).                                                        *)
(*                                                                         *)
(* The lowest active core is the master.  Every core has an array of       *)
(* flags: the others report their arrival in the array of the master,      *)
(* which polls it in ascending order, clears it and sets flag 0 in the     *)
(* array of each other core.  Which core is the lowest, and which cores    *)
(* are polled, is read from the "active" flags that the host is writing    *)
(* while the cores already run.                                            *)
(***************************************************************************)
EXTENDS Integers

CONSTANTS
  TotalCores,    \* TOTAL_CORES: 16 in the code
  Intent,        \* the cores the user asked for
  Left,          \* active flags found in memory: nothing clears them first
  HostFirst,     \* TRUE: the host has started all cores before the first one
                 \* reads the active flags
  SetupFirst,    \* TRUE: no core arrives at the first barrier before every
                 \* core has set up its array
  MaxRounds      \* bound: synchronisations of a core

CoreIds == 0..TotalCores-1

ASSUME TotalAssumption == TotalCores \in Nat \ {0}
ASSUME IntentAssumption == Intent \subseteq CoreIds /\ Intent # {}
ASSUME LeftAssumption == Left \subseteq CoreIds
ASSUME OrderAssumption == HostFirst \in BOOLEAN /\ SetupFirst \in BOOLEAN
ASSUME RoundsAssumption == MaxRounds \in Nat

VARIABLES
  core_run, active,  \* the words of core_ctrl the start-up uses
  hostAt,            \* the core the host starts next
  lowestCoreId,      \* [c]: what c takes for the lowest active core
  barrier,           \* [c][i]: flag i in the array of core c
  pc, at,            \* [c]: place in the code, index of the running loop
  entered, left      \* [c]: synchronisations c has entered, and left

hostVars == <<core_run, active, hostAt>>
vars == <<hostVars, lowestCoreId, barrier, pc, at, entered, left>>

Init ==
  /\ core_run = [c \in CoreIds |-> 0]
  /\ active = [c \in CoreIds |-> c \in Left]
  /\ hostAt = 0
  /\ lowestCoreId = [c \in CoreIds |-> TotalCores]
  /\ barrier = [c \in CoreIds |-> [i \in CoreIds |-> 0]]
  /\ pc = [c \in CoreIds |-> "spin"]
  /\ at = [c \in CoreIds |-> 0]
  /\ entered = [c \in Intent |-> 0]
  /\ left = [c \in Intent |-> 0]

Goto(c, label, index) == /\ pc' = [pc EXCEPT ![c] = label]
                         /\ at' = [at EXCEPT ![c] = index]

-------------------------------------------------------------------------------
(* The host lets a core run and only then declares it active.              *)
LetRun ==
  /\ hostAt \in Intent
  /\ core_run[hostAt] = 0
  /\ core_run' = [core_run EXCEPT ![hostAt] = 1]
  /\ UNCHANGED <<active, hostAt, lowestCoreId, barrier, pc, at, entered, left>>

Declare ==
  /\ hostAt < TotalCores
  /\ hostAt \in Intent => core_run[hostAt] = 1
  /\ active' = [active EXCEPT ![hostAt] = hostAt \in Intent]
  /\ hostAt' = hostAt + 1
  /\ UNCHANGED <<core_run, lowestCoreId, barrier, pc, at, entered, left>>

-------------------------------------------------------------------------------
(* A core leaves its spin ...                                              *)
Boot(c) ==
  /\ pc[c] = "spin"
  /\ core_run[c] = 1
  /\ HostFirst => hostAt = TotalCores
  /\ Goto(c, "scan", 0)
  /\ UNCHANGED <<hostVars, lowestCoreId, barrier, entered, left>>

(* ... looks for the lowest active core, one flag at a time ...            *)
Scan(c) ==
  /\ pc[c] = "scan"
  /\ at[c] < TotalCores
  /\ lowestCoreId' = [lowestCoreId EXCEPT ![c] =
                        IF active[at[c]] /\ at[c] < @ THEN at[c] ELSE @]
  /\ Goto(c, "scan", at[c] + 1)
  /\ UNCHANGED <<hostVars, barrier, entered, left>>

(* ... and clears its array (init_barrier).                                *)
InitBarrier(c) ==
  /\ pc[c] = "scan"
  /\ at[c] = TotalCores
  /\ barrier' = [barrier EXCEPT ![c] = [i \in CoreIds |-> 0]]
  /\ Goto(c, "run", 0)
  /\ UNCHANGED <<hostVars, lowestCoreId, entered, left>>

IsMaster(c) == lowestCoreId[c] = c

MayArrive(c) ==
  /\ pc[c] = "run"
  /\ entered[c] < MaxRounds
  /\ SetupFirst /\ entered[c] = 0 => \A d \in Intent : pc[d] \notin {"spin", "scan"}

(* A core that is not the master reports its arrival.  If it found no      *)
(* active core at all, the address is that of no core.                     *)
Arrive(c) ==
  /\ MayArrive(c)
  /\ ~IsMaster(c)
  /\ IF lowestCoreId[c] \in CoreIds
       THEN barrier' = [barrier EXCEPT ![lowestCoreId[c]][c] = 1]
       ELSE UNCHANGED barrier
  /\ entered' = [entered EXCEPT ![c] = @ + 1]
  /\ Goto(c, "wait", 0)
  /\ UNCHANGED <<hostVars, lowestCoreId, left>>

\* Mutant of Depart: the flag stays up.
DepartFlagUp(c) ==
  /\ pc[c] = "wait"
  /\ barrier[c][0] # 0
  /\ left' = [left EXCEPT ![c] = @ + 1]
  /\ Goto(c, "run", 0)
  /\ UNCHANGED <<hostVars, barrier, lowestCoreId, entered>>

(* It is released, and takes the flag down for the next time.              *)
Depart(c) ==
  /\ pc[c] = "wait"
  /\ barrier[c][0] # 0
  /\ barrier' = [barrier EXCEPT ![c][0] = 0]
  /\ left' = [left EXCEPT ![c] = @ + 1]
  /\ Goto(c, "run", 0)
  /\ UNCHANGED <<hostVars, lowestCoreId, entered>>

(* The master: its three loops, one iteration a step.                      *)
MasterArrive(c) ==
  /\ MayArrive(c)
  /\ IsMaster(c)
  /\ barrier' = [barrier EXCEPT ![c][c] = 1]
  /\ entered' = [entered EXCEPT ![c] = @ + 1]
  /\ Goto(c, "poll", 1)
  /\ UNCHANGED <<hostVars, lowestCoreId, left>>

Poll(c) ==
  /\ pc[c] = "poll"
  /\ IF at[c] < TotalCores
       THEN /\ active[at[c]] => barrier[c][at[c]] # 0
            /\ Goto(c, "poll", at[c] + 1)
       ELSE Goto(c, "clear", 0)
  /\ UNCHANGED <<hostVars, lowestCoreId, barrier, entered, left>>

Clear(c) ==
  /\ pc[c] = "clear"
  /\ IF at[c] < TotalCores
       THEN /\ IF active[at[c]]
                 THEN barrier' = [barrier EXCEPT ![c][at[c]] = 0]
                 ELSE UNCHANGED barrier
            /\ Goto(c, "clear", at[c] + 1)
       ELSE Goto(c, "free", 1) /\ UNCHANGED barrier
  /\ UNCHANGED <<hostVars, lowestCoreId, entered, left>>

\* Mutant of Free: the loop ends one core early.
FreeMissesLast(c) ==
  /\ pc[c] = "free"
  /\ IF at[c] < TotalCores - 1
       THEN /\ IF active[at[c]]
                 THEN barrier' = [barrier EXCEPT ![at[c]][0] = 1]
                 ELSE UNCHANGED barrier
            /\ Goto(c, "free", at[c] + 1)
            /\ UNCHANGED left
       ELSE /\ Goto(c, "run", 0)
            /\ left' = [left EXCEPT ![c] = @ + 1]
            /\ UNCHANGED barrier
  /\ UNCHANGED <<hostVars, lowestCoreId, entered>>

Free(c) ==
  /\ pc[c] = "free"
  /\ IF at[c] < TotalCores
       THEN /\ IF active[at[c]]
                 THEN barrier' = [barrier EXCEPT ![at[c]][0] = 1]
                 ELSE UNCHANGED barrier
            /\ Goto(c, "free", at[c] + 1)
            /\ UNCHANGED left
       ELSE /\ Goto(c, "run", 0)
            /\ left' = [left EXCEPT ![c] = @ + 1]
            /\ UNCHANGED barrier
  /\ UNCHANGED <<hostVars, lowestCoreId, entered>>

CoreStep(c) ==
  \/ Boot(c) \/ Scan(c) \/ InitBarrier(c)
  \/ Arrive(c) \/ Depart(c)
  \/ MasterArrive(c) \/ Poll(c) \/ Clear(c) \/ Free(c)

AllThrough == \A c \in Intent : left[c] = MaxRounds
Finished == AllThrough /\ hostAt = TotalCores /\ UNCHANGED vars

Next == LetRun \/ Declare \/ (\E c \in Intent : CoreStep(c)) \/ Finished

Spec == Init /\ [][Next]_vars

(* The host goes on starting cores and no core ever stops.                 *)
FairSpec == /\ Spec
            /\ WF_vars(LetRun \/ Declare)
            /\ \A c \in Intent : WF_vars(CoreStep(c))

-------------------------------------------------------------------------------
TypeOK ==
  /\ core_run \in [CoreIds -> {0, 1}]
  /\ active \in [CoreIds -> BOOLEAN]
  /\ hostAt \in 0..TotalCores
  /\ lowestCoreId \in [CoreIds -> 0..TotalCores]
  /\ barrier \in [CoreIds -> [CoreIds -> {0, 1}]]
  /\ pc \in [CoreIds -> {"spin", "scan", "run", "wait", "poll", "clear", "free"}]
  /\ at \in [CoreIds -> 0..TotalCores]
  /\ entered \in [Intent -> Nat]
  /\ left \in [Intent -> Nat]

(* The flags, and the order in which the three loops of the master go over *)
(* them, implement the abstract synchronisation: nobody leaves before all  *)
(* have entered, round after round, however fast a released core returns.  *)
Abstract == INSTANCE SyncPoint WITH Members <- Intent
SyncPointSpec == Abstract!Spec

(* "they will all wait at this barrier until every other core has reached  *)
(* a corresponding sync call" (docs/documentation.html:125).               *)
NobodyLeavesEarly == \A c, d \in Intent : left[c] <= entered[d]

(* Every core gets through every synchronisation: no arrival and no        *)
(* release is lost between two rounds.                                     *)
EverySyncReturns == <>AllThrough

(* There is one master, the lowest core of the run.                        *)
OneMaster ==
  \A c, d \in Intent : pc[c] \notin {"spin", "scan"} /\ pc[d] \notin {"spin", "scan"}
    => lowestCoreId[c] = lowestCoreId[d]
-------------------------------------------------------------------------------
(* Why it works: an inductive invariant, for a start-up in order.          *)
Started(c) == pc[c] \notin {"spin", "scan"}
Inside(c) == pc[c] \in {"wait", "poll", "clear", "free"}
IsLowest(m) == m \in Intent /\ \A c \in Intent : m <= c

\* A released core has not yet taken its flag down; an arrived one has
\* reported to the master m, which has not yet cleared the report.
Released(c) == barrier[c][0] # 0
Arrived(m, c) == barrier[m][c] # 0

(* The host is through with the flags before a core looks at them, and a   *)
(* core that has looked at some knows the lowest of these.                 *)
StartInv ==
  /\ \A c \in CoreIds : c < hostAt => (active[c] <=> c \in Intent)
  /\ \A c \in Intent :
       /\ IF pc[c] = "spin" THEN lowestCoreId[c] = TotalCores ELSE hostAt = TotalCores
       /\ pc[c] = "scan" => /\ lowestCoreId[c] \in Intent \cup {TotalCores}
                            /\ \A d \in Intent : d < at[c] => lowestCoreId[c] <= d
       /\ Started(c) => IsLowest(lowestCoreId[c])
       /\ ~Started(c) => \A d \in Intent : entered[d] = 0

CountInv ==
  \A c \in Intent : entered[c] = IF Inside(c) THEN left[c] + 1 ELSE left[c]

(* Where a core is that is not the master m, by the place of m.            *)
Between(m, c) ==
  /\ pc[c] = "wait" => Arrived(m, c) \/ Released(c)
  /\ Arrived(m, c) => ~Released(c)
  /\ left[c] = IF Released(c) THEN left[m] - 1 ELSE left[m]

Clearing(m, c) ==
  /\ pc[c] = "wait" /\ ~Released(c) /\ left[c] = left[m]
  /\ Arrived(m, c) <=> c >= at[m]

Freeing(m, c) ==
  IF c >= at[m]
    THEN pc[c] = "wait" /\ ~Released(c) /\ ~Arrived(m, c) /\ left[c] = left[m]
    ELSE /\ pc[c] = "wait" => Arrived(m, c) \/ Released(c)
         /\ Arrived(m, c) => ~Released(c)
         /\ left[c] = IF Released(c) THEN left[m] ELSE left[m] + 1

PlaceInv(m, c) ==
  /\ pc[c] \in {"spin", "scan", "run", "wait"}
  /\ Arrived(m, c) \/ Released(c) => pc[c] = "wait"
  /\ pc[m] \in {"spin", "scan", "run", "poll"} => Between(m, c)
  /\ pc[m] = "poll" /\ c < at[m] => Arrived(m, c)
  /\ pc[m] = "clear" => Clearing(m, c)
  /\ pc[m] = "free" => Freeing(m, c)

BarrierInv ==
  \A m \in Intent : IsLowest(m) =>
    /\ pc[m] # "wait"
    /\ \A c \in Intent : c # m => PlaceInv(m, c)

IndInv == TypeOK /\ StartInv /\ CountInv /\ BarrierInv
===============================================================================
