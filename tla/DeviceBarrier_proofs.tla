------------------------- MODULE DeviceBarrier_proofs -------------------------
(***************************************************************************)
(* Proofs about DeviceBarrier, for any number of cores, any choice of used *)
(* cores and any flags left in memory, when the start-up is in order       *)
(* (HostFirst and SetupFirst): the barrier implements SyncPoint, and cores *)
(* never all wait for each other.                                          *)
(*                                                                         *)
(* The master is the lowest used core, which every core finds by itself.   *)
(* IndInv says, for each place of the master, where each other core can be *)
(* and which of its two flags is up.                                       *)
(***************************************************************************)
EXTENDS DeviceBarrier, TLAPS

(* Used cores are numbers, and a core other than the lowest is above it.   *)
LEMMA Numbers ==
  /\ \A c \in Intent : c \in CoreIds /\ c \in Nat /\ c < TotalCores
  /\ 0 \in CoreIds /\ TotalCores \in Nat
  /\ \A m, c \in Intent : IsLowest(m) /\ c # m => m < c /\ c >= 1 /\ c # 0
BY TotalAssumption, IntentAssumption DEF CoreIds, IsLowest

(* The core in one of the loops is the master, and the flags are settled.  *)
LEMMA InLoop ==
  ASSUME IndInv, NEW c \in Intent, pc[c] \in {"poll", "clear", "free"}
  PROVE  /\ c \in CoreIds /\ at[c] \in 0..TotalCores /\ Started(c) /\ IsLowest(c)
         /\ \A i \in CoreIds : active[i] <=> i \in Intent
         /\ \A m \in Intent : IsLowest(m) => m = c
         /\ \A d \in Intent : d # c => PlaceInv(c, d)
<1>1. c \in CoreIds /\ at[c] \in 0..TotalCores /\ Started(c)
  BY Numbers DEF IndInv, TypeOK, Started
<1>2. \A i \in CoreIds : active[i] <=> i \in Intent
  BY <1>1, Numbers DEF IndInv, StartInv, CoreIds, Started
<1>3. ASSUME NEW m \in Intent, IsLowest(m)
      PROVE  m = c
  BY <1>1, <1>3 DEF IndInv, BarrierInv, PlaceInv
<1>4. IsLowest(c)
  BY <1>1, <1>3 DEF IndInv, StartInv, IsLowest
<1> QED BY <1>1, <1>2, <1>3, <1>4 DEF IndInv, BarrierInv

(* What the host does concerns the start only.                             *)
LEMMA HostInd ==
  ASSUME IndInv, LetRun \/ Declare, HostFirst
  PROVE  IndInv'
<1> USE Numbers DEF LetRun, Declare
<1>1. TypeOK'
  <2>1. CASE LetRun
    BY <2>1 DEF IndInv, TypeOK
  <2>2. CASE Declare
    <3>1. hostAt' \in 0..TotalCores /\ hostAt \in CoreIds
      BY <2>2 DEF IndInv, TypeOK, CoreIds
    <3>2. active' \in [CoreIds -> BOOLEAN]
      BY <2>2, <3>1 DEF IndInv, TypeOK
    <3> QED BY <2>2, <3>1, <3>2 DEF IndInv, TypeOK
  <2> QED BY <2>1, <2>2
<1>2. StartInv'
  <2>1. CASE LetRun
    BY <2>1 DEF IndInv, TypeOK, StartInv, Started, IsLowest
  <2>2. CASE Declare
    <3>1. hostAt' = hostAt + 1 /\ hostAt < TotalCores /\ hostAt \in Nat
      BY <2>2 DEF IndInv, TypeOK
    <3>2. ASSUME NEW d \in CoreIds, d < hostAt'
          PROVE  active'[d] <=> d \in Intent
      <4>1. CASE d = hostAt
        BY <2>2, <4>1 DEF IndInv, TypeOK
      <4>2. CASE d # hostAt
        <5>1. d < hostAt
          BY <3>1, <3>2, <4>2 DEF CoreIds
        <5> QED BY <2>2, <4>2, <5>1 DEF IndInv, TypeOK, StartInv
      <4> QED BY <4>1, <4>2
    <3>3. ASSUME NEW d \in Intent
          PROVE  pc[d] = "spin"
      BY <3>1 DEF IndInv, StartInv
    <3> QED BY <2>2, <3>2, <3>3 DEF IndInv, StartInv, Started, IsLowest
  <2> QED BY <2>1, <2>2
<1>3. CountInv'
  BY DEF IndInv, CountInv, Inside
<1>4. BarrierInv'
  BY DEF IndInv, BarrierInv, PlaceInv, Between, Clearing, Freeing, Arrived, Released,
    IsLowest
<1> QED BY <1>1, <1>2, <1>3, <1>4 DEF IndInv

(* A core looks at the active flags when the host is through with them.    *)
LEMMA BootInd ==
  ASSUME IndInv, NEW c \in Intent, Boot(c), HostFirst, SetupFirst
  PROVE  IndInv'
<1> USE Numbers DEF Boot, Goto, hostVars
<1>1. TypeOK'
  BY DEF IndInv, TypeOK
<1>2. StartInv'
  <2>1. hostAt' = TotalCores /\ pc' = [pc EXCEPT ![c] = "scan"] /\ at' = [at EXCEPT ![c] = 0]
    OBVIOUS
  <2>2. lowestCoreId[c] \in Intent \cup {TotalCores}
    BY DEF IndInv, TypeOK, StartInv
  <2> QED BY <2>1, <2>2 DEF IndInv, TypeOK, StartInv, Started, IsLowest
<1>3. CountInv'
  BY DEF IndInv, TypeOK, CountInv, Inside, MayArrive
<1>4. ASSUME NEW m \in Intent, IsLowest(m)
      PROVE  pc'[m] # "wait"
  BY <1>4 DEF IndInv, TypeOK, StartInv, BarrierInv, IsLowest, IsMaster, Started
<1>5. ASSUME NEW m \in Intent, IsLowest(m), NEW d \in Intent, d # m
      PROVE  PlaceInv(m, d)'
  BY <1>5 DEF IndInv, TypeOK, StartInv, CountInv, BarrierInv, PlaceInv, Between,
    Clearing, Freeing,
    Arrived, Released, IsLowest, IsMaster, Started, Inside, MayArrive
<1>6. BarrierInv'
  BY <1>4, <1>5 DEF BarrierInv, IsLowest
<1> QED BY <1>1, <1>2, <1>3, <1>6 DEF IndInv

(* The lowest core of the flags seen so far remains the lowest one.        *)
LEMMA ScanInd ==
  ASSUME IndInv, NEW c \in Intent, Scan(c), HostFirst, SetupFirst
  PROVE  IndInv'
<1> USE Numbers DEF Scan, Goto, hostVars
<1>1. TypeOK'
  BY DEF IndInv, TypeOK
<1>2. StartInv'
  <2>1. hostAt = TotalCores /\ at[c] \in CoreIds /\ lowestCoreId[c] \in 0..TotalCores
    BY DEF IndInv, TypeOK, StartInv, CoreIds
  <2>2. active[at[c]] <=> at[c] \in Intent
    BY <2>1 DEF IndInv, StartInv, CoreIds
  <2>3. lowestCoreId' = [lowestCoreId EXCEPT ![c] =
          IF at[c] \in Intent /\ at[c] < lowestCoreId[c] THEN at[c] ELSE lowestCoreId[c]]
    BY <2>2 DEF IndInv, TypeOK
  <2>4. /\ lowestCoreId'[c] \in Intent \cup {TotalCores}
        /\ \A d \in Intent : d < at'[c] => lowestCoreId'[c] <= d
    <3>1. /\ lowestCoreId[c] \in Intent \cup {TotalCores}
          /\ \A d \in Intent : d < at[c] => lowestCoreId[c] <= d
      BY DEF IndInv, StartInv
    <3>2. at'[c] = at[c] + 1 /\ at[c] \in Nat
      BY <2>1 DEF IndInv, TypeOK, CoreIds
    <3>3. lowestCoreId'[c] =
            IF at[c] \in Intent /\ at[c] < lowestCoreId[c] THEN at[c] ELSE lowestCoreId[c]
      BY <2>3 DEF IndInv, TypeOK
    <3> QED BY <2>1, <3>1, <3>2, <3>3
  <2> QED BY <2>1, <2>4 DEF IndInv, TypeOK, StartInv, Started, IsLowest
<1>3. CountInv'
  BY DEF IndInv, TypeOK, CountInv, Inside, MayArrive
<1>4. ASSUME NEW m \in Intent, IsLowest(m)
      PROVE  pc'[m] # "wait"
  BY <1>4 DEF IndInv, TypeOK, StartInv, BarrierInv, IsLowest, IsMaster, Started
<1>5. ASSUME NEW m \in Intent, IsLowest(m), NEW d \in Intent, d # m
      PROVE  PlaceInv(m, d)'
  <2>1. pc' = pc /\ (m = c => pc[m] = "scan") /\ (m # c => at'[m] = at[m]) /\ m \in CoreIds
    BY DEF IndInv, TypeOK
  <2>2. PlaceInv(m, d)
    BY <1>5 DEF IndInv, BarrierInv
  <2> QED BY <2>1, <2>2 DEF PlaceInv, Between, Clearing, Freeing, Arrived, Released
<1>6. BarrierInv'
  BY <1>4, <1>5 DEF BarrierInv, IsLowest
<1> QED BY <1>1, <1>2, <1>3, <1>6 DEF IndInv

(* A core clears its array while nobody has arrived.                       *)
LEMMA InitBarrierInd ==
  ASSUME IndInv, NEW c \in Intent, InitBarrier(c), HostFirst, SetupFirst
  PROVE  IndInv'
<1> USE Numbers DEF InitBarrier, Goto, hostVars
<1>1. TypeOK'
  BY DEF IndInv, TypeOK
<1>2. StartInv'
  BY DEF IndInv, TypeOK, StartInv, CountInv, Started, Inside, IsLowest, IsMaster,
    MayArrive
<1>3. CountInv'
  BY DEF IndInv, TypeOK, CountInv, Inside, MayArrive
<1>4. ASSUME NEW m \in Intent, IsLowest(m)
      PROVE  pc'[m] # "wait"
  BY <1>4 DEF IndInv, TypeOK, StartInv, BarrierInv, IsLowest, IsMaster, Started
<1>5. ASSUME NEW m \in Intent, IsLowest(m), NEW d \in Intent, d # m
      PROVE  PlaceInv(m, d)'
  <2>1. PlaceInv(m, d) /\ m \in CoreIds /\ d \in CoreIds
    BY <1>5 DEF IndInv, BarrierInv
  <2>2. entered[m] = 0 /\ entered[d] = 0
    BY DEF IndInv, StartInv, Started
  <2>3. ~Inside(m) /\ ~Inside(d)
    BY <2>2 DEF IndInv, TypeOK, CountInv
  <2>4. ~Arrived(m, d) /\ ~Released(d)
    BY <2>1, <2>3 DEF PlaceInv, Inside
  <2>5. ~Arrived(m, d)' /\ ~Released(d)'
    BY <2>1, <2>4 DEF IndInv, TypeOK, Arrived, Released
  <2>6. pc[m] \in {"spin", "scan", "run"} /\ pc[d] \in {"spin", "scan", "run"}
    BY <2>1, <2>3 DEF IndInv, TypeOK, Inside
  <2>7. pc'[m] \in {"spin", "scan", "run"} /\ pc'[d] \in {"spin", "scan", "run"}
    BY <2>1, <2>6 DEF IndInv, TypeOK
  <2> QED BY <2>1, <2>4, <2>5, <2>6, <2>7 DEF PlaceInv, Between
<1>6. BarrierInv'
  BY <1>4, <1>5 DEF BarrierInv, IsLowest
<1> QED BY <1>1, <1>2, <1>3, <1>6 DEF IndInv

(* A core arrives when its last release is behind it.                      *)
LEMMA ArriveInd ==
  ASSUME IndInv, NEW c \in Intent, Arrive(c), HostFirst, SetupFirst
  PROVE  IndInv'
<1> USE Numbers DEF Arrive, Goto, hostVars
<1>1. TypeOK'
  <2>1. barrier' \in [CoreIds -> [CoreIds -> {0, 1}]]
    <3>1. CASE lowestCoreId[c] \in CoreIds
      <4>1. c \in CoreIds /\ barrier' = [barrier EXCEPT ![lowestCoreId[c]][c] = 1]
        BY <3>1
      <4> QED BY <3>1, <4>1 DEF IndInv, TypeOK
    <3>2. CASE lowestCoreId[c] \notin CoreIds
      BY <3>2 DEF IndInv, TypeOK
    <3> QED BY <3>1, <3>2
  <2>2. pc' \in [CoreIds -> {"spin", "scan", "run", "wait", "poll", "clear", "free"}]
    BY DEF IndInv, TypeOK
  <2>3. at' \in [CoreIds -> 0..TotalCores] /\ entered' \in [Intent -> Nat]
    BY DEF IndInv, TypeOK, MayArrive
  <2> QED BY <2>1, <2>2, <2>3 DEF IndInv, TypeOK
<1>2. StartInv'
  BY DEF IndInv, TypeOK, StartInv, CountInv, Started, Inside, IsLowest, IsMaster,
    MayArrive
<1>3. CountInv'
  BY DEF IndInv, TypeOK, CountInv, Inside, MayArrive
<1>4. ASSUME NEW m \in Intent, IsLowest(m)
      PROVE  pc'[m] # "wait"
  <2>1. IsLowest(lowestCoreId[c])
    BY DEF IndInv, StartInv, Started, MayArrive
  <2>2. m # c
    BY <1>4, <2>1 DEF IsLowest, IsMaster
  <2> QED BY <1>4, <2>2 DEF IndInv, TypeOK, BarrierInv
<1>5. ASSUME NEW m \in Intent, IsLowest(m), NEW d \in Intent, d # m
      PROVE  PlaceInv(m, d)'
  <2>1. IsLowest(lowestCoreId[c])
    BY DEF IndInv, StartInv, Started, MayArrive
  <2>2. m = lowestCoreId[c] /\ m # c /\ m \in CoreIds /\ c \in CoreIds /\ d \in CoreIds
    BY <1>5, <2>1 DEF IsLowest, IsMaster
  <2>3. PlaceInv(m, c) /\ PlaceInv(m, d) /\ pc[c] = "run"
    BY <1>5, <2>2 DEF IndInv, BarrierInv, MayArrive
  <2>4. ~Arrived(m, c) /\ ~Released(c)
    BY <2>3 DEF PlaceInv
  <2>5. barrier' = [barrier EXCEPT ![m][c] = 1]
    BY <2>2
  <2>6. Arrived(m, c)' /\ ~Released(c)'
    BY <2>2, <2>4, <2>5 DEF IndInv, TypeOK, Arrived, Released
  <2>7. d # c => (Arrived(m, d)' <=> Arrived(m, d)) /\ (Released(d)' <=> Released(d))
    BY <1>5, <2>2, <2>5 DEF IndInv, TypeOK, Arrived, Released
  <2>8. /\ pc'[m] = pc[m] /\ at'[m] = at[m] /\ pc'[c] = "wait"
        /\ d # c => pc'[d] = pc[d]
    BY <2>2 DEF IndInv, TypeOK
  <2>9. CASE d = c
    BY <2>3, <2>4, <2>6, <2>8, <2>9 DEF PlaceInv, Between, Clearing, Freeing
  <2>10. CASE d # c
    BY <2>3, <2>7, <2>8, <2>10 DEF PlaceInv, Between, Clearing, Freeing
  <2> QED BY <2>9, <2>10
<1>6. BarrierInv'
  BY <1>4, <1>5 DEF BarrierInv, IsLowest
<1> QED BY <1>1, <1>2, <1>3, <1>6 DEF IndInv

(* A released core leaves, and its two flags are down.                     *)
LEMMA DepartInd ==
  ASSUME IndInv, NEW c \in Intent, Depart(c), HostFirst, SetupFirst
  PROVE  IndInv'
<1> USE Numbers DEF Depart, Goto, hostVars
<1>1. TypeOK'
  BY DEF IndInv, TypeOK
<1>2. StartInv'
  BY DEF IndInv, TypeOK, StartInv, CountInv, Started, Inside, IsLowest, IsMaster,
    MayArrive
<1>3. CountInv'
  BY DEF IndInv, TypeOK, CountInv, Inside, MayArrive
<1>4. ASSUME NEW m \in Intent, IsLowest(m)
      PROVE  pc'[m] # "wait"
  BY <1>4 DEF IndInv, TypeOK, StartInv, BarrierInv, IsLowest, IsMaster, Started
<1>5. ASSUME NEW m \in Intent, IsLowest(m), NEW d \in Intent, d # m
      PROVE  PlaceInv(m, d)'
  BY <1>5 DEF IndInv, TypeOK, StartInv, CountInv, BarrierInv, PlaceInv, Between,
    Clearing, Freeing,
    Arrived, Released, IsLowest, IsMaster, Started, Inside, MayArrive
<1>6. BarrierInv'
  BY <1>4, <1>5 DEF BarrierInv, IsLowest
<1> QED BY <1>1, <1>2, <1>3, <1>6 DEF IndInv

(* The master arrives when it has let the others go.                       *)
LEMMA MasterArriveInd ==
  ASSUME IndInv, NEW c \in Intent, MasterArrive(c), HostFirst, SetupFirst
  PROVE  IndInv'
<1> USE Numbers DEF MasterArrive, Goto, hostVars
<1>1. TypeOK'
  BY DEF IndInv, TypeOK
<1>2. StartInv'
  BY DEF IndInv, TypeOK, StartInv, CountInv, Started, Inside, IsLowest, IsMaster,
    MayArrive
<1>3. CountInv'
  BY DEF IndInv, TypeOK, CountInv, Inside, MayArrive
<1>4. ASSUME NEW m \in Intent, IsLowest(m)
      PROVE  pc'[m] # "wait"
  BY <1>4 DEF IndInv, TypeOK, StartInv, BarrierInv, IsLowest, IsMaster, Started
<1>5. ASSUME NEW m \in Intent, IsLowest(m), NEW d \in Intent, d # m
      PROVE  PlaceInv(m, d)'
  <2>1. m = c /\ m \in CoreIds /\ d \in CoreIds /\ PlaceInv(m, d)
    BY <1>5 DEF IndInv, TypeOK, StartInv, BarrierInv, IsLowest, IsMaster, Started,
      MayArrive
  <2>2. (Arrived(m, d) <=> Arrived(m, d)') /\ (Released(d) <=> Released(d)')
    BY <1>5, <2>1 DEF IndInv, TypeOK, Arrived, Released
  <2>3. pc[m] = "run" /\ pc'[m] = "poll" /\ at'[m] = 1 /\ pc'[d] = pc[d] /\ d >= 1
    BY <1>5, <2>1 DEF IndInv, TypeOK, MayArrive
  <2> QED BY <2>1, <2>2, <2>3 DEF PlaceInv, Between
<1>6. BarrierInv'
  BY <1>4, <1>5 DEF BarrierInv, IsLowest
<1> QED BY <1>1, <1>2, <1>3, <1>6 DEF IndInv

(* The master goes on when the next core has arrived.                      *)
LEMMA PollInd ==
  ASSUME IndInv, NEW c \in Intent, Poll(c)
  PROVE  IndInv'
<1>0. /\ c \in CoreIds /\ at[c] \in 0..TotalCores /\ Started(c) /\ IsLowest(c)
      /\ \A i \in CoreIds : active[i] <=> i \in Intent
      /\ \A m \in Intent : IsLowest(m) => m = c
      /\ \A d \in Intent : d # c => PlaceInv(c, d)
  BY InLoop DEF Poll
<1>1. CASE at[c] < TotalCores
  <2>1. /\ pc[c] = "poll" /\ at[c] \in CoreIds
        /\ pc' = [pc EXCEPT ![c] = "poll"] /\ at' = [at EXCEPT ![c] = at[c] + 1]
        /\ at[c] \in Intent => barrier[c][at[c]] # 0
        /\ UNCHANGED <<core_run, active, hostAt, lowestCoreId, entered, barrier, left>>
    BY <1>0, <1>1, Numbers DEF Poll, CoreIds, Goto, hostVars
  <2>2. TypeOK'
    <3>1. barrier' \in [CoreIds -> [CoreIds -> {0, 1}]]
      BY <1>0, <2>1, Numbers DEF IndInv, TypeOK
    <3>2. at' \in [CoreIds -> 0..TotalCores]
      BY <1>0, <1>1, <2>1, Numbers DEF IndInv, TypeOK
    <3> QED BY <1>0, <2>1, <3>1, <3>2 DEF IndInv, TypeOK
  <2>3. StartInv'
    BY <1>0, <2>1 DEF IndInv, TypeOK, StartInv, Started, IsLowest
  <2>4. CountInv'
    BY <1>0, <2>1, Numbers DEF IndInv, TypeOK, CountInv, Inside
  <2>5. ASSUME NEW d \in Intent, d # c
        PROVE  PlaceInv(c, d)'
    <3>1. PlaceInv(c, d) /\ d \in CoreIds /\ d \in Nat /\ d # 0 /\ d < TotalCores /\ d > c
      BY <1>0, <2>5, Numbers
    <3>2. pc'[c] = "poll" /\ at'[c] = at[c] + 1 /\ pc'[d] = pc[d] /\ left'[d] = left[d]
      BY <1>0, <2>1, <2>5, <3>1 DEF IndInv, TypeOK
    <3>3. (Arrived(c, d)' <=> Arrived(c, d)) /\ (Released(d)' <=> Released(d))
      BY <2>1 DEF Arrived, Released
    <3>4. d = at[c] => Arrived(c, d)
      BY <2>1, <2>5 DEF Arrived
    <3> QED BY <1>0, <2>1, <3>1, <3>2, <3>3, <3>4 DEF PlaceInv, Between, Clearing,
      Freeing
  <2>6. BarrierInv'
    BY <1>0, <2>1, <2>5 DEF IndInv, TypeOK, BarrierInv, IsLowest
  <2> QED BY <2>2, <2>3, <2>4, <2>6 DEF IndInv
<1>2. CASE ~(at[c] < TotalCores)
  <2>1. /\ pc[c] = "poll" /\ at[c] = TotalCores
        /\ pc' = [pc EXCEPT ![c] = "clear"] /\ at' = [at EXCEPT ![c] = 0]
        /\ UNCHANGED <<core_run, active, hostAt, lowestCoreId, entered, barrier, left>>
    BY <1>0, <1>2, Numbers DEF Poll, Goto, hostVars
  <2>2. TypeOK'
    <3>1. barrier' \in [CoreIds -> [CoreIds -> {0, 1}]]
      BY <1>0, <2>1, Numbers DEF IndInv, TypeOK
    <3>2. at' \in [CoreIds -> 0..TotalCores]
      BY <1>0, <1>2, <2>1, Numbers DEF IndInv, TypeOK
    <3> QED BY <1>0, <2>1, <3>1, <3>2 DEF IndInv, TypeOK
  <2>3. StartInv'
    BY <1>0, <2>1 DEF IndInv, TypeOK, StartInv, Started, IsLowest
  <2>4. CountInv'
    BY <1>0, <2>1, Numbers DEF IndInv, TypeOK, CountInv, Inside
  <2>5. ASSUME NEW d \in Intent, d # c
        PROVE  PlaceInv(c, d)'
    <3>1. PlaceInv(c, d) /\ d \in CoreIds /\ d \in Nat /\ d # 0 /\ d < TotalCores /\ d > c
      BY <1>0, <2>5, Numbers
    <3>2. pc'[c] = "clear" /\ at'[c] = 0 /\ pc'[d] = pc[d] /\ left'[d] = left[d]
      BY <1>0, <2>1, <2>5, <3>1 DEF IndInv, TypeOK
    <3>3. (Arrived(c, d)' <=> Arrived(c, d)) /\ (Released(d)' <=> Released(d))
      BY <2>1 DEF Arrived, Released
    <3> QED BY <1>0, <2>1, <3>1, <3>2, <3>3 DEF PlaceInv, Between, Clearing, Freeing
  <2>6. BarrierInv'
    BY <1>0, <2>1, <2>5 DEF IndInv, TypeOK, BarrierInv, IsLowest
  <2> QED BY <2>2, <2>3, <2>4, <2>6 DEF IndInv
<1> QED BY <1>1, <1>2

(* The master clears the reports of cores that wait for it.                *)
LEMMA ClearInd ==
  ASSUME IndInv, NEW c \in Intent, Clear(c)
  PROVE  IndInv'
<1>0. /\ c \in CoreIds /\ at[c] \in 0..TotalCores /\ Started(c) /\ IsLowest(c)
      /\ \A i \in CoreIds : active[i] <=> i \in Intent
      /\ \A m \in Intent : IsLowest(m) => m = c
      /\ \A d \in Intent : d # c => PlaceInv(c, d)
  BY InLoop DEF Clear
<1>1. CASE at[c] < TotalCores
  <2>1. /\ pc[c] = "clear" /\ at[c] \in CoreIds
        /\ pc' = [pc EXCEPT ![c] = "clear"] /\ at' = [at EXCEPT ![c] = at[c] + 1]
        /\ barrier' = IF at[c] \in Intent THEN [barrier EXCEPT ![c][at[c]] = 0] ELSE barrier
        /\ UNCHANGED <<core_run, active, hostAt, lowestCoreId, entered, left>>
    BY <1>0, <1>1, Numbers DEF Clear, CoreIds, Goto, hostVars
  <2>2. TypeOK'
    <3>1. barrier' \in [CoreIds -> [CoreIds -> {0, 1}]]
      BY <1>0, <2>1, Numbers DEF IndInv, TypeOK
    <3>2. at' \in [CoreIds -> 0..TotalCores]
      BY <1>0, <1>1, <2>1, Numbers DEF IndInv, TypeOK
    <3> QED BY <1>0, <2>1, <3>1, <3>2 DEF IndInv, TypeOK
  <2>3. StartInv'
    BY <1>0, <2>1 DEF IndInv, TypeOK, StartInv, Started, IsLowest
  <2>4. CountInv'
    BY <1>0, <2>1, Numbers DEF IndInv, TypeOK, CountInv, Inside
  <2>5. ASSUME NEW d \in Intent, d # c
        PROVE  PlaceInv(c, d)'
    <3>1. PlaceInv(c, d) /\ d \in CoreIds /\ d \in Nat /\ d # 0 /\ d < TotalCores /\ d > c
      BY <1>0, <2>5, Numbers
    <3>2. pc'[c] = "clear" /\ at'[c] = at[c] + 1 /\ pc'[d] = pc[d] /\ left'[d] = left[d]
      BY <1>0, <2>1, <2>5, <3>1 DEF IndInv, TypeOK
    <3>3. Released(d)' <=> Released(d)
      BY <1>0, <2>1, <2>5, <3>1 DEF IndInv, TypeOK, Released
    <3>4. Arrived(c, d)' <=> Arrived(c, d) /\ d # at[c]
      BY <1>0, <2>1, <2>5, <3>1 DEF IndInv, TypeOK, Arrived
    <3> QED BY <1>0, <2>1, <3>1, <3>2, <3>3, <3>4 DEF PlaceInv, Between, Clearing,
      Freeing
  <2>6. BarrierInv'
    BY <1>0, <2>1, <2>5 DEF IndInv, TypeOK, BarrierInv, IsLowest
  <2> QED BY <2>2, <2>3, <2>4, <2>6 DEF IndInv
<1>2. CASE ~(at[c] < TotalCores)
  <2>1. /\ pc[c] = "clear" /\ at[c] = TotalCores
        /\ pc' = [pc EXCEPT ![c] = "free"] /\ at' = [at EXCEPT ![c] = 1]
        /\ UNCHANGED <<core_run, active, hostAt, lowestCoreId, entered, barrier, left>>
    BY <1>0, <1>2, Numbers DEF Clear, Goto, hostVars
  <2>2. TypeOK'
    <3>1. barrier' \in [CoreIds -> [CoreIds -> {0, 1}]]
      BY <1>0, <2>1, Numbers DEF IndInv, TypeOK
    <3>2. at' \in [CoreIds -> 0..TotalCores]
      BY <1>0, <1>2, <2>1, Numbers DEF IndInv, TypeOK
    <3> QED BY <1>0, <2>1, <3>1, <3>2 DEF IndInv, TypeOK
  <2>3. StartInv'
    BY <1>0, <2>1 DEF IndInv, TypeOK, StartInv, Started, IsLowest
  <2>4. CountInv'
    BY <1>0, <2>1, Numbers DEF IndInv, TypeOK, CountInv, Inside
  <2>5. ASSUME NEW d \in Intent, d # c
        PROVE  PlaceInv(c, d)'
    <3>1. PlaceInv(c, d) /\ d \in CoreIds /\ d \in Nat /\ d # 0 /\ d < TotalCores /\ d > c
      BY <1>0, <2>5, Numbers
    <3>2. pc'[c] = "free" /\ at'[c] = 1 /\ pc'[d] = pc[d] /\ left'[d] = left[d]
      BY <1>0, <2>1, <2>5, <3>1 DEF IndInv, TypeOK
    <3>3. (Arrived(c, d)' <=> Arrived(c, d)) /\ (Released(d)' <=> Released(d))
      BY <2>1 DEF Arrived, Released
    <3> QED BY <1>0, <2>1, <3>1, <3>2, <3>3 DEF PlaceInv, Between, Clearing, Freeing
  <2>6. BarrierInv'
    BY <1>0, <2>1, <2>5 DEF IndInv, TypeOK, BarrierInv, IsLowest
  <2> QED BY <2>2, <2>3, <2>4, <2>6 DEF IndInv
<1> QED BY <1>1, <1>2

(* The master releases the cores one by one, and leaves.                   *)
LEMMA FreeInd ==
  ASSUME IndInv, NEW c \in Intent, Free(c)
  PROVE  IndInv'
<1>0. /\ c \in CoreIds /\ at[c] \in 0..TotalCores /\ Started(c) /\ IsLowest(c)
      /\ \A i \in CoreIds : active[i] <=> i \in Intent
      /\ \A m \in Intent : IsLowest(m) => m = c
      /\ \A d \in Intent : d # c => PlaceInv(c, d)
  BY InLoop DEF Free
<1>1. CASE at[c] < TotalCores
  <2>1. /\ pc[c] = "free" /\ at[c] \in CoreIds
        /\ pc' = [pc EXCEPT ![c] = "free"] /\ at' = [at EXCEPT ![c] = at[c] + 1]
        /\ barrier' = IF at[c] \in Intent THEN [barrier EXCEPT ![at[c]][0] = 1] ELSE barrier
        /\ UNCHANGED <<core_run, active, hostAt, lowestCoreId, entered, left>>
    BY <1>0, <1>1, Numbers DEF Free, CoreIds, Goto, hostVars
  <2>2. TypeOK'
    <3>1. barrier' \in [CoreIds -> [CoreIds -> {0, 1}]]
      BY <1>0, <2>1, Numbers DEF IndInv, TypeOK
    <3>2. at' \in [CoreIds -> 0..TotalCores]
      BY <1>0, <1>1, <2>1, Numbers DEF IndInv, TypeOK
    <3> QED BY <1>0, <2>1, <3>1, <3>2 DEF IndInv, TypeOK
  <2>3. StartInv'
    BY <1>0, <2>1 DEF IndInv, TypeOK, StartInv, Started, IsLowest
  <2>4. CountInv'
    BY <1>0, <2>1, Numbers DEF IndInv, TypeOK, CountInv, Inside
  <2>5. ASSUME NEW d \in Intent, d # c
        PROVE  PlaceInv(c, d)'
    <3>1. PlaceInv(c, d) /\ d \in CoreIds /\ d \in Nat /\ d # 0 /\ d < TotalCores /\ d > c
      BY <1>0, <2>5, Numbers
    <3>2. pc'[c] = "free" /\ at'[c] = at[c] + 1 /\ pc'[d] = pc[d] /\ left'[d] = left[d]
      BY <1>0, <2>1, <2>5, <3>1 DEF IndInv, TypeOK
    <3>3. Arrived(c, d)' <=> Arrived(c, d)
      BY <1>0, <2>1, <2>5, <3>1, Numbers DEF IndInv, TypeOK, Arrived
    <3>4. Released(d)' <=> Released(d) \/ d = at[c]
      BY <1>0, <2>1, <2>5, <3>1, Numbers DEF IndInv, TypeOK, Released
    <3> QED BY <1>0, <2>1, <3>1, <3>2, <3>3, <3>4 DEF PlaceInv, Between, Clearing,
      Freeing
  <2>6. BarrierInv'
    BY <1>0, <2>1, <2>5 DEF IndInv, TypeOK, BarrierInv, IsLowest
  <2> QED BY <2>2, <2>3, <2>4, <2>6 DEF IndInv
<1>2. CASE ~(at[c] < TotalCores)
  <2>1. /\ pc[c] = "free" /\ at[c] = TotalCores
        /\ pc' = [pc EXCEPT ![c] = "run"] /\ at' = [at EXCEPT ![c] = 0]
        /\ left' = [left EXCEPT ![c] = left[c] + 1]
        /\ UNCHANGED <<core_run, active, hostAt, lowestCoreId, entered, barrier>>
    BY <1>0, <1>2, Numbers DEF Free, Goto, hostVars
  <2>2. TypeOK'
    <3>1. barrier' \in [CoreIds -> [CoreIds -> {0, 1}]]
      BY <1>0, <2>1, Numbers DEF IndInv, TypeOK
    <3>2. at' \in [CoreIds -> 0..TotalCores]
      BY <1>0, <1>2, <2>1, Numbers DEF IndInv, TypeOK
    <3> QED BY <1>0, <2>1, <3>1, <3>2 DEF IndInv, TypeOK
  <2>3. StartInv'
    BY <1>0, <2>1 DEF IndInv, TypeOK, StartInv, Started, IsLowest
  <2>4. CountInv'
    BY <1>0, <2>1, Numbers DEF IndInv, TypeOK, CountInv, Inside
  <2>5. ASSUME NEW d \in Intent, d # c
        PROVE  PlaceInv(c, d)'
    <3>1. PlaceInv(c, d) /\ d \in CoreIds /\ d \in Nat /\ d # 0 /\ d < TotalCores /\ d > c
      BY <1>0, <2>5, Numbers
    <3>2. pc'[c] = "run" /\ at'[c] = 0 /\ pc'[d] = pc[d] /\ left'[d] = left[d] /\ left'[c] = left[c] + 1 /\ left[c] \in Nat
      BY <1>0, <2>1, <2>5, <3>1 DEF IndInv, TypeOK
    <3>3. (Arrived(c, d)' <=> Arrived(c, d)) /\ (Released(d)' <=> Released(d))
      BY <2>1 DEF Arrived, Released
    <3> QED BY <1>0, <2>1, <3>1, <3>2, <3>3 DEF PlaceInv, Between, Clearing, Freeing
  <2>6. BarrierInv'
    BY <1>0, <2>1, <2>5 DEF IndInv, TypeOK, BarrierInv, IsLowest
  <2> QED BY <2>2, <2>3, <2>4, <2>6 DEF IndInv
<1> QED BY <1>1, <1>2

(* The flags are down and nobody has entered.                              *)
LEMMA InitInd == Init => IndInv
<1> SUFFICES ASSUME Init PROVE IndInv
  OBVIOUS
<1> USE Numbers DEF Init
<1>1. TypeOK
  BY DEF TypeOK
<1>2. StartInv
  BY DEF StartInv, Started, CoreIds
<1>3. CountInv
  BY DEF CountInv, Inside
<1>4. BarrierInv
  BY DEF BarrierInv, PlaceInv, Between, Arrived, Released
<1> QED BY <1>1, <1>2, <1>3, <1>4 DEF IndInv

(* Every step preserves the invariant.                                     *)
LEMMA NextInd ==
  ASSUME IndInv, [Next]_vars, HostFirst, SetupFirst
  PROVE  IndInv'
<1>1. ASSUME NEW c \in Intent, CoreStep(c)
      PROVE  IndInv'
  BY <1>1, BootInd, ScanInd, InitBarrierInd, ArriveInd, DepartInd, MasterArriveInd,
    PollInd, ClearInd, FreeInd DEF CoreStep
<1>2. CASE UNCHANGED vars
  BY <1>2 DEF vars, hostVars, IndInv, TypeOK, StartInv, CountInv, BarrierInv, PlaceInv,
    Between, Clearing, Freeing, Arrived, Released, Started, Inside, IsLowest
<1> QED BY <1>1, <1>2, HostInd DEF Next, Finished

(* The invariant holds in every reachable state (device/main.c:44-95,      *)
(* device-functions.c:810-831).                                            *)
THEOREM Invariance == ASSUME HostFirst, SetupFirst PROVE Spec => []IndInv
<1>1. Init => IndInv
  BY InitInd
<1>2. IndInv /\ [Next]_vars => IndInv'
  BY NextInd
<1> QED BY <1>1, <1>2, PTL DEF Spec

(* Type correctness.                                                       *)
THEOREM TypeCorrect == ASSUME HostFirst, SetupFirst PROVE Spec => []TypeOK
<1>1. IndInv => TypeOK
  BY DEF IndInv
<1> QED BY <1>1, Invariance, PTL

(* All cores that have looked agree on the master (device/main.c:52-59).   *)
THEOREM SameMaster == ASSUME HostFirst, SetupFirst PROVE Spec => []OneMaster
<1>1. IndInv => OneMaster
  BY Numbers DEF IndInv, StartInv, OneMaster, Started, IsLowest
<1> QED BY <1>1, Invariance, PTL

(* How far the cores are, by the place of the master m.                    *)
LEMMA Levels ==
  ASSUME IndInv, NEW m \in Intent, IsLowest(m), NEW d \in Intent
  PROVE  /\ left[m] \in Nat /\ left[d] \in Nat
         /\ IF pc[m] \in {"clear", "free"}
              THEN entered[d] >= left[m] + 1 /\ left[d] <= left[m] + 1
              ELSE entered[d] >= left[m] /\ left[d] <= left[m]
<1>1. left[m] \in Nat /\ left[d] \in Nat
  BY DEF IndInv, TypeOK
<1>2. CASE d = m
  BY <1>1, <1>2 DEF IndInv, CountInv, Inside
<1>3. CASE d # m
  <2>1. PlaceInv(m, d) /\ (pc[d] = "wait" => entered[d] = left[d] + 1) /\ entered[d] >= left[d]
    BY <1>1, <1>3 DEF IndInv, BarrierInv, CountInv, Inside
  <2>2. pc[m] \in {"spin", "scan", "run", "poll", "clear", "free"}
    BY <1>3, Numbers DEF IndInv, TypeOK, BarrierInv
  <2>3. CASE pc[m] \in {"spin", "scan", "run", "poll"}
    BY <1>1, <2>1, <2>3 DEF PlaceInv, Between
  <2>4. CASE pc[m] = "clear"
    BY <1>1, <2>1, <2>4 DEF PlaceInv, Clearing
  <2>5. CASE pc[m] = "free"
    <3>1. CASE d >= at[m]
      BY <1>1, <2>1, <2>5, <3>1 DEF PlaceInv, Freeing
    <3>2. CASE ~(d >= at[m])
      BY <1>1, <2>1, <2>5, <3>2 DEF PlaceInv, Freeing
    <3> QED BY <3>1, <3>2
  <2> QED BY <2>2, <2>3, <2>4, <2>5
<1> QED BY <1>2, <1>3

(* A core whose flag was set by the master finds everybody in the round    *)
(* it leaves, and so does the master when it has set all flags.            *)
LEMMA LeavesLast ==
  ASSUME IndInv, NEW c \in Intent,
         Depart(c) \/ (Free(c) /\ at[c] = TotalCores)
  PROVE  entered[c] = left[c] + 1 /\ \A d \in Intent : entered[c] <= entered[d]
<1>0. \A d \in Intent : left[d] \in Nat /\ entered[d] \in Nat
  BY DEF IndInv, TypeOK
<1>1. entered[c] = left[c] + 1
  BY DEF IndInv, CountInv, Inside, Depart, Free
<1>2. CASE Free(c) /\ at[c] = TotalCores
  <2>1. IsLowest(c) /\ pc[c] = "free"
    BY <1>2, InLoop DEF Free
  <2> QED BY <1>0, <1>1, <2>1, Levels
<1>3. CASE Depart(c)
  <2> DEFINE m == lowestCoreId[c]
  <2>1. IsLowest(m) /\ m \in Intent /\ pc[m] # "wait" /\ m # c /\ pc[c] = "wait" /\ Released(c)
    BY <1>3 DEF IndInv, StartInv, BarrierInv, Started, IsLowest, Depart, Released
  <2>2. PlaceInv(m, c)
    BY <2>1 DEF IndInv, BarrierInv
  <2>3. pc[m] \in {"spin", "scan", "run", "poll", "clear", "free"}
    BY <2>1, Numbers DEF IndInv, TypeOK
  <2>4. left[c] = IF pc[m] = "free" THEN left[m] ELSE left[m] - 1
    BY <2>1, <2>2, <2>3 DEF PlaceInv, Between, Clearing, Freeing
  <2>5. pc[m] # "clear"
    BY <2>1, <2>2 DEF PlaceInv, Clearing
  <2> QED BY <1>0, <1>1, <2>1, <2>4, <2>5, Levels
<1> QED BY <1>2, <1>3

(* Every step of the barrier is a step of SyncPoint or leaves it alone.    *)
LEMMA StepSimulates ==
  ASSUME IndInv, [Next]_vars
  PROVE  [Abstract!Next]_(Abstract!svars)
<1> USE DEF Abstract!Next, Abstract!Enter, Abstract!Leave, Abstract!svars
<1>1. ASSUME NEW c \in Intent, Arrive(c) \/ MasterArrive(c)
      PROVE  Abstract!Enter(c)
  <2>1. entered[c] = left[c]
    BY <1>1 DEF IndInv, CountInv, Inside, Arrive, MasterArrive, MayArrive
  <2> QED BY <1>1, <2>1 DEF Arrive, MasterArrive
<1>2. ASSUME NEW c \in Intent, Depart(c) \/ (Free(c) /\ at[c] = TotalCores)
      PROVE  Abstract!Leave(c)
  <2>1. entered[c] = left[c] + 1 /\ (\A d \in Intent : entered[c] <= entered[d])
        /\ left[c] \in Nat
    BY <1>2, LeavesLast DEF IndInv, TypeOK
  <2>2. left' = [left EXCEPT ![c] = @ + 1] /\ UNCHANGED entered
    BY <1>2, Numbers DEF Depart, Free
  <2> QED BY <2>1, <2>2
<1>3. ASSUME NEW c \in Intent, Free(c), at[c] # TotalCores
      PROVE  UNCHANGED <<entered, left>>
  <2>1. at[c] < TotalCores
    BY <1>3, InLoop, Numbers DEF Free
  <2> QED BY <1>3, <2>1 DEF Free
<1>4. ASSUME NEW c \in Intent,
  Boot(c) \/ Scan(c) \/ InitBarrier(c) \/ Poll(c) \/ Clear(c)
      PROVE  UNCHANGED <<entered, left>>
  BY <1>4 DEF Boot, Scan, InitBarrier, Poll, Clear
<1>5. ASSUME LetRun \/ Declare \/ Finished \/ UNCHANGED vars
      PROVE  UNCHANGED <<entered, left>>
  BY <1>5 DEF LetRun, Declare, Finished, vars
<1> QED BY <1>1, <1>2, <1>3, <1>4, <1>5 DEF Next, CoreStep

(* The barrier of the cores implements the abstract synchronisation: a     *)
(* core leaves its n-th sync only when every core has entered its n-th     *)
(* one, round after round on the same flags (device-functions.c:810-831).  *)
THEOREM ImplementsSyncPoint == ASSUME HostFirst, SetupFirst PROVE Spec => SyncPointSpec
<1>1. Init => Abstract!Init
  BY DEF Init, Abstract!Init
<1>2. IndInv /\ [Next]_vars => [Abstract!Next]_(Abstract!svars)
  BY StepSimulates
<1> QED BY <1>1, <1>2, Invariance, PTL DEF Spec, SyncPointSpec, Abstract!Spec

(* "They will all wait at this barrier until every other core has reached  *)
(* a corresponding sync call" (docs/documentation.html:125).               *)
THEOREM NobodyEarly == ASSUME HostFirst, SetupFirst PROVE Spec => []NobodyLeavesEarly
<1>1. ASSUME IndInv, NEW c \in Intent, NEW d \in Intent
      PROVE  left[c] <= entered[d]
  <2>1. CASE Started(c)
    <3>1. IsLowest(lowestCoreId[c]) /\ lowestCoreId[c] \in Intent
      BY <1>1, <2>1 DEF IndInv, StartInv, IsLowest
    <3>2. entered[d] \in Nat
      BY <1>1 DEF IndInv, TypeOK
    <3> QED BY <1>1, <3>1, <3>2, Levels
  <2>2. CASE ~Started(c)
    <3>1. left[c] = 0
      BY <1>1, <2>2 DEF IndInv, StartInv, CountInv, Inside, Started
    <3> QED BY <1>1, <3>1 DEF IndInv, TypeOK
  <2> QED BY <2>1, <2>2
<1>2. IndInv => NobodyLeavesEarly
  BY <1>1 DEF NobodyLeavesEarly
<1> QED BY <1>2, Invariance, PTL
-------------------------------------------------------------------------------
(* What brings the host or a core on, with every spin at its end.          *)
HostGoesOn == hostAt < TotalCores

CoreGoesOn(c) ==
  \/ pc[c] = "spin" /\ core_run[c] = 1 /\ (HostFirst => hostAt = TotalCores)
  \/ pc[c] \in {"scan", "clear", "free"}
  \/ MayArrive(c)
  \/ pc[c] = "wait" /\ Released(c)
  \/ pc[c] = "poll" /\ (at[c] < TotalCores /\ active[at[c]] => Arrived(c, at[c]))

NobodyIsStuck == AllThrough \/ HostGoesOn \/ \E c \in Intent : CoreGoesOn(c)

(* What IndInv does not say: a core the host is through with was let run,  *)
(* no core enters more rounds than the bound, and the master finds its own *)
(* flag up.                                                                *)
OnTheWay(c) ==
  /\ c < hostAt => core_run[c] = 1
  /\ entered[c] <= MaxRounds
  /\ pc[c] = "poll" => Arrived(c, c)

GoInv == \A c \in Intent : OnTheWay(c)

LEMMA GoStep ==
  ASSUME IndInv, GoInv, [Next]_vars
  PROVE  GoInv'
<1> USE Numbers
<1>1. /\ TypeOK
      /\ hostAt \in Nat /\ core_run \in [CoreIds -> {0, 1}]
      /\ barrier \in [CoreIds -> [CoreIds -> {0, 1}]]
      /\ pc \in [CoreIds -> {"spin", "scan", "run", "wait", "poll", "clear", "free"}]
      /\ entered \in [Intent -> Nat]
  BY DEF IndInv, TypeOK
<1>2. CASE LetRun \/ Declare \/ UNCHANGED vars
  <2> SUFFICES ASSUME NEW d \in Intent
               PROVE  OnTheWay(d)'
    BY DEF GoInv
  <2>1. OnTheWay(d)
    BY DEF GoInv
  <2>2. UNCHANGED <<entered, pc, barrier>>
    BY <1>2 DEF LetRun, Declare, vars
  <2>3. d < hostAt' => core_run'[d] = 1
    <3>1. CASE LetRun
      BY <1>1, <2>1, <3>1 DEF LetRun, OnTheWay
    <3>2. CASE Declare
      <4>1. d < hostAt' => d < hostAt \/ d = hostAt
        BY <1>1, <3>2 DEF Declare
      <4> QED BY <2>1, <3>2, <4>1 DEF Declare, OnTheWay
    <3>3. CASE UNCHANGED vars
      BY <2>1, <3>3 DEF OnTheWay, vars, hostVars
    <3> QED BY <1>2, <3>1, <3>2, <3>3
  <2> QED BY <2>1, <2>2, <2>3 DEF OnTheWay, Arrived
<1>3. ASSUME NEW c \in Intent, CoreStep(c)
      PROVE  GoInv'
  <2> SUFFICES ASSUME NEW d \in Intent
               PROVE  OnTheWay(d)'
    BY DEF GoInv
  <2>1. OnTheWay(d) /\ UNCHANGED <<hostAt, core_run>>
    BY <1>3 DEF GoInv, CoreStep, Boot, Scan, InitBarrier, Arrive, Depart, MasterArrive,
       Poll, Clear, Free, hostVars
  <2>2. entered'[d] <= MaxRounds
    BY <1>1, <1>3, <2>1, RoundsAssumption DEF OnTheWay, CoreStep, Boot, Scan, InitBarrier,
       Arrive, Depart, MasterArrive, MayArrive, Poll, Clear, Free
  <2>3. pc'[d] = "poll" => barrier'[d][d] # 0
    <3>1. CASE Boot(c) \/ Scan(c) \/ Poll(c)
      BY <1>1, <2>1, <3>1 DEF OnTheWay, Arrived, Boot, Scan, Poll, Goto
    <3>2. CASE InitBarrier(c)
      BY <1>1, <2>1, <3>2 DEF OnTheWay, Arrived, InitBarrier, Goto
    <3>3. CASE Arrive(c)
      BY <1>1, <2>1, <3>3 DEF OnTheWay, Arrived, Arrive, Goto
    <3>4. CASE Depart(c)
      BY <1>1, <2>1, <3>4 DEF OnTheWay, Arrived, Depart, Goto
    <3>5. CASE MasterArrive(c)
      BY <1>1, <2>1, <3>5 DEF OnTheWay, Arrived, MasterArrive, Goto
    <3>6. CASE Clear(c)
      BY <1>1, <2>1, <3>6 DEF OnTheWay, Arrived, Clear, Goto
    <3>7. CASE Free(c)
      BY <1>1, <2>1, <3>7 DEF OnTheWay, Arrived, Free, Goto
    <3> QED BY <1>3, <3>1, <3>2, <3>3, <3>4, <3>5, <3>6, <3>7 DEF CoreStep
  <2> QED BY <2>1, <2>2, <2>3 DEF OnTheWay, Arrived
<1>4. CASE Finished
  BY <1>2, <1>4 DEF Finished
<1> QED BY <1>2, <1>3, <1>4 DEF Next

(* No arrival and no release is lost: while a core has a synchronisation   *)
(* to go through, the host or a core can go on.                            *)
THEOREM SomebodyPasses == ASSUME HostFirst, SetupFirst PROVE Spec => []NobodyIsStuck
<1> USE Numbers
<1>1. ASSUME IndInv, GoInv, ~HostGoesOn, \A c \in Intent : ~CoreGoesOn(c)
      PROVE  AllThrough
  <2>1. /\ hostAt = TotalCores
        /\ \A c \in CoreIds : active[c] <=> c \in Intent
        /\ \A c \in Intent : /\ OnTheWay(c) /\ core_run[c] = 1
                             /\ entered[c] \in Nat /\ left[c] \in Nat
                             /\ entered[c] = IF Inside(c) THEN left[c] + 1 ELSE left[c]
                             /\ at[c] \in 0..TotalCores
    BY <1>1 DEF IndInv, TypeOK, StartInv, CountInv, HostGoesOn, GoInv, OnTheWay, CoreIds
  <2>2. \A c \in Intent : pc[c] \in {"run", "wait", "poll"}
    BY <1>1, <2>1 DEF CoreGoesOn, IndInv, TypeOK
  <2>3. \A c \in Intent : pc[c] = "run" => entered[c] = MaxRounds /\ left[c] = MaxRounds
    BY <1>1, <2>1, <2>2, RoundsAssumption DEF CoreGoesOn, MayArrive, OnTheWay, Inside
  <2>4. PICK m \in Intent : IsLowest(m)
    <3>1. PICK c \in Intent : Started(c)
      BY <2>2, IntentAssumption DEF Started
    <3> QED BY <1>1, <3>1 DEF IndInv, StartInv, IsLowest
  <2>5. pc[m] # "wait" /\ \A c \in Intent : c # m => PlaceInv(m, c)
    BY <1>1, <2>4 DEF IndInv, BarrierInv
  <2>6. pc[m] # "poll"
    <3> SUFFICES ASSUME pc[m] = "poll"
                 PROVE  FALSE
      OBVIOUS
    <3>1. /\ at[m] < TotalCores /\ at[m] \in CoreIds
          /\ at[m] \in Intent /\ ~Arrived(m, at[m])
      BY <1>1, <2>1 DEF CoreGoesOn, CoreIds
    <3>2. at[m] # m
      BY <2>1, <3>1 DEF OnTheWay
    <3>3. PICK c \in Intent : c = at[m] /\ c # m
      BY <3>1, <3>2
    <3>4. Between(m, c) /\ pc[c] \in {"run", "wait"} /\ (Released(c) => pc[c] = "wait")
      BY <2>2, <2>5, <3>3 DEF PlaceInv
    <3>5. pc[c] = "run" /\ ~Released(c)
      BY <1>1, <3>1, <3>3, <3>4 DEF Between, CoreGoesOn
    <3>6. left[m] = MaxRounds
      BY <2>3, <3>4, <3>5 DEF Between
    <3>7. entered[m] = MaxRounds + 1 /\ entered[m] <= MaxRounds
      BY <2>1, <3>6 DEF Inside, OnTheWay
    <3> QED BY <2>1, <3>7, RoundsAssumption
  <2>7. pc[m] = "run" /\ left[m] = MaxRounds
    BY <2>2, <2>3, <2>5, <2>6
  <2>8. ASSUME NEW c \in Intent
        PROVE  left[c] = MaxRounds
    <3>1. CASE pc[c] = "run"
      BY <2>3, <3>1
    <3>2. CASE pc[c] # "run"
      <4>1. c # m /\ Between(m, c) /\ pc[c] = "wait"
        BY <2>2, <2>5, <2>7, <3>2 DEF PlaceInv
      <4>2. ~Released(c)
        BY <1>1, <4>1 DEF CoreGoesOn
      <4>3. entered[c] = MaxRounds + 1 /\ entered[c] <= MaxRounds
        BY <2>1, <2>7, <4>1, <4>2 DEF Between, Inside, OnTheWay
      <4> QED BY <2>1, <4>3, RoundsAssumption
    <3> QED BY <3>1, <3>2
  <2> QED BY <2>8 DEF AllThrough
<1>2. IndInv /\ GoInv => NobodyIsStuck
  BY <1>1 DEF NobodyIsStuck
<1>3. Init => IndInv /\ GoInv
  <2>1. Init => GoInv
    BY RoundsAssumption DEF Init, GoInv, OnTheWay
  <2> QED BY <2>1, InitInd
<1>4. IndInv /\ GoInv /\ [Next]_vars => (IndInv /\ GoInv)'
  BY NextInd, GoStep
<1> QED BY <1>2, <1>3, <1>4, PTL DEF Spec
===============================================================================
