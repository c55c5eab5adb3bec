--------------------------- MODULE GlobalSync_proofs ---------------------------
(***************************************************************************)
(* Proofs about GlobalSync, for any number of cores and of threads and any *)
(* interleaving of them, when no flag is found up (FlagsDown): the flags   *)
(* of the threads implement SyncPoint, neither side passes a               *)
(* synchronisation that the head of the other has not begun, and nothing   *)
(* stops a run that has a master but an answer that is overwritten.        *)
(*                                                                         *)
(* The threads: IndInv says where a thread can be and which of its two     *)
(* flags is up, as seen from the rounds the master has let go.  The        *)
(* mailbox: the place of core 0 determines the command and core_busy.      *)
(***************************************************************************)
EXTENDS GlobalSync, TLAPS

FlagsDown == 1 \notin FoundInHeap

-------------------------------------------------------------------------------
(* The thread that lets the others go; there may be none.                  *)
Master == baseHostPid
Others == Threads \ {Master}

(* Rounds of the threads that were let go. *)
Rounds == IF Master \in Threads THEN threadLeft[Master] ELSE 0

(* A thread that has arrived, that is let go, that is not at the barrier.  *)
Waiting(t)  == hostPc[t] = "wait" /\ flip[t] = 1 /\ flop[t] # 1 /\ threadLeft[t] = Rounds
Released(t) == hostPc[t] = "wait" /\ flip[t] # 1 /\ flop[t] = 1 /\ threadLeft[t] + 1 = Rounds
Outside(t)  == /\ hostPc[t] \in {"run", "device", "arrive"}
               /\ flip[t] # 1 /\ flop[t] # 1 /\ threadLeft[t] = Rounds

MasterInv ==
  /\ hostPc[Master] # "wait"
  /\ flip[Master] = 1 <=> hostPc[Master] = "poll"
  /\ hostPc[Master] = "poll" => \A t \in Others : t < at[Master] => Waiting(t)

CountInv(t) ==
  /\ threadEntered[t] =
       IF hostPc[t] \in {"wait", "poll"} THEN threadLeft[t] + 1 ELSE threadLeft[t]
  /\ threadCalled[t] =
       IF hostPc[t] \in {"device", "arrive"} THEN threadEntered[t] + 1 ELSE threadEntered[t]
  /\ threadCalled[t] <= MaxRounds
  /\ hostPc[t] = "device" => t = 0 /\ baseHostPid > 0

(* The mailbox of the lowest core, from the place of that core.  An answer *)
(* before core_busy was cleared is lost when it is.                        *)
MailboxInv ==
  LET place == pc[Lowest]
      begun == called[Lowest]
  IN  /\ place \in {"run", "enter", "leave"} =>
           core_command = 0 /\ core_busy = pb /\ pb = begun + 1
      /\ place = "announce" =>
           core_command = 0 /\ core_busy = pb /\ before = pb /\ pb = begun
      /\ place = "release" =>
           /\ core_busy = pb
           /\ \/ core_command = 8 /\ before = pb /\ pb = begun
              \/ core_command = 0 /\ pb = before + 1 /\ pb = begun + 1
      /\ place = "wait" =>
           \/ core_command = 8 /\ core_busy = 0 /\ before = pb /\ pb = begun
           \/ core_command = 0 /\ core_busy \in {0, pb} /\ pb = before + 1 /\ pb = begun + 1

CoreInv(c) ==
  /\ returned[c] = left[c]
  /\ entered[c] = IF pc[c] \in {"run", "leave"} THEN called[c] ELSE called[c] - 1
  /\ c # Lowest => pc[c] \in {"run", "enter", "leave"}
  /\ pc[c] # "run" => called[c] >= 1
  /\ \A d \in Physical : left[c] <= entered[d]

(* A synchronisation is answered when thread 0 has met the device.         *)
PbInv ==
  pb = IF baseHostPid = 0 THEN 1
       ELSE IF hostPc[0] = "device" THEN threadCalled[0] ELSE threadCalled[0] + 1

Place(t) == Waiting(t) \/ Released(t) \/ Outside(t)

ThreadsInv == /\ \A t \in Others : Place(t)
              /\ Master \in Threads => MasterInv
              /\ \A t \in Threads : CountInv(t)
              /\ PbInv

DeviceInv == /\ baseHostPid > 0 => MailboxInv
             /\ \A c \in Physical : CoreInv(c)

IndInv == TypeOK /\ ThreadsInv /\ DeviceInv

-------------------------------------------------------------------------------
LEMMA Numbers ==
  /\ baseHostPid \in Nat /\ total_threads \in Nat /\ MaxRounds \in Nat
  /\ 0 \in Threads /\ \A t \in Threads : t \in Nat /\ t < total_threads
  /\ \A t \in Nat : t < total_threads => t \in Threads
  /\ baseHostPid > 0 <=> Lowest \in Physical
  /\ baseHostPid > 0 => 0 \in Others
BY ProcessesAssumption, BoundsAssumption DEF Threads, Physical, Lowest, Others, Master

LEMMA InitInd ==
  ASSUME Init, FlagsDown
  PROVE  IndInv
<1> USE Numbers
<1>1. TypeOK
  <2>1. flip \in [Threads -> Nat] /\ flop \in [Threads -> Nat]
    BY HeapAssumption DEF Init
  <2>2. core_command = 0 /\ pb = 1 /\ core_busy = 1 /\ before = 0
    BY DEF Init
  <2>3. pb \in 1..MaxRounds+1 /\ core_busy \in 0..pb /\ before \in 0..pb
    BY <2>2
  <2> QED BY <2>1, <2>2, <2>3 DEF Init, TypeOK, Cores!Init
<1>2. ASSUME NEW t \in Threads
      PROVE  flip[t] # 1 /\ flop[t] # 1 /\ hostPc[t] = "run" /\ threadLeft[t] = 0
             /\ threadEntered[t] = 0 /\ threadCalled[t] = 0
  BY FlagsDown DEF Init, FlagsDown
<1>3. Rounds = 0
  BY <1>2 DEF Rounds
<1>4. ThreadsInv
  <2>1. \A t \in Others : Outside(t)
    BY <1>2, <1>3 DEF Outside, Others
  <2>2. Master \in Threads => MasterInv
    BY <1>2 DEF MasterInv
  <2>3. \A t \in Threads : CountInv(t)
    BY <1>2 DEF CountInv
  <2>4. PbInv
    BY <1>2 DEF PbInv, Init
  <2> QED BY <2>1, <2>2, <2>3, <2>4 DEF ThreadsInv, Place
<1>5. DeviceInv
  BY DEF DeviceInv, Init, MailboxInv, CoreInv, Cores!Init, Physical, Lowest
<1> QED BY <1>1, <1>4, <1>5 DEF IndInv

-------------------------------------------------------------------------------
(* The steps of the cores leave the threads alone.                         *)
LEMMA ThreadsFrame ==
  ASSUME ThreadsInv, UNCHANGED threadVars, pb' = pb
  PROVE  ThreadsInv'
BY DEF ThreadsInv, threadVars, Place, Waiting, Released, Outside, Rounds, MasterInv,
  CountInv, PbInv

LEMMA CoreSyncInd ==
  ASSUME IndInv, NEW c \in Physical, CoreSync(c)
  PROVE  IndInv'
<1> USE Numbers DEF CoreSync, CoreGoto, mailbox
<1>1. TypeOK'
  BY DEF IndInv, TypeOK, threadVars
<1>2. ThreadsInv'
  BY ThreadsFrame DEF IndInv
<1>3. called[c] \in Nat /\ called'[c] = called[c] + 1 /\ pc[c] = "run"
      /\ pc'[c] = (IF c = Lowest THEN "announce" ELSE "enter")
      /\ \A d \in Physical \ {c} : called'[d] = called[d] /\ pc'[d] = pc[d]
  BY DEF IndInv, TypeOK
<1>4. baseHostPid > 0 => MailboxInv'
  <2>1. CASE c = Lowest
    BY <1>3, <2>1 DEF IndInv, DeviceInv, MailboxInv
  <2>2. CASE c # Lowest
    BY <1>3, <2>2 DEF IndInv, DeviceInv, MailboxInv
  <2> QED BY <2>1, <2>2
<1>5. ASSUME NEW d \in Physical
      PROVE  CoreInv(d)'
  BY <1>3 DEF IndInv, DeviceInv, CoreInv
<1> QED BY <1>1, <1>2, <1>4, <1>5 DEF IndInv, DeviceInv

(* The lowest core announces, lets go of core_busy and is answered.        *)
LEMMA HandshakeInd ==
  ASSUME IndInv, Announce \/ Release \/ Answered
  PROVE  IndInv'
<1> USE Numbers DEF Announce, Release, Answered, CoreGoto, mailbox
<1>1. TypeOK'
  BY DEF IndInv, TypeOK, threadVars
<1>2. ThreadsInv'
  BY ThreadsFrame DEF IndInv, mailbox
<1>3. /\ baseHostPid > 0 /\ Lowest \in Physical
      /\ called' = called /\ entered' = entered /\ left' = left /\ returned' = returned
      /\ before' = before /\ pb' = pb /\ pb \in Nat /\ before \in Nat
      /\ \A d \in Physical \ {Lowest} : pc'[d] = pc[d]
  BY DEF IndInv, TypeOK
<1>4. MailboxInv'
  <2>1. CASE Announce
    BY <1>3, <2>1 DEF IndInv, TypeOK, DeviceInv, MailboxInv
  <2>2. CASE Release
    BY <1>3, <2>2 DEF IndInv, TypeOK, DeviceInv, MailboxInv
  <2>3. CASE Answered
    BY <1>3, <2>3 DEF IndInv, TypeOK, DeviceInv, MailboxInv
  <2> QED BY <2>1, <2>2, <2>3
<1>5. pc'[Lowest] \in {"release", "wait", "enter"} /\ pc[Lowest] \notin {"run", "leave"}
  BY <1>3 DEF IndInv, TypeOK
<1>6. ASSUME NEW d \in Physical
      PROVE  CoreInv(d)'
  BY <1>3, <1>5 DEF IndInv, DeviceInv, CoreInv
<1> QED BY <1>1, <1>2, <1>4, <1>6 DEF IndInv, DeviceInv

(* The barrier of the cores.                                               *)
LEMMA CoreEnterInd ==
  ASSUME IndInv, NEW c \in Physical, CoreEnter(c)
  PROVE  IndInv'
<1> USE Numbers DEF CoreEnter, CoreGoto, mailbox, Cores!Enter
<1>1. TypeOK'
  BY DEF IndInv, TypeOK, threadVars
<1>2. ThreadsInv'
  BY ThreadsFrame DEF IndInv
<1>3. /\ pc[c] = "enter" /\ pc'[c] = "leave" /\ entered'[c] = entered[c] + 1
      /\ entered[c] \in Nat
      /\ \A d \in Physical \ {c} : entered'[d] = entered[d] /\ pc'[d] = pc[d]
  BY DEF IndInv, TypeOK
<1>4. baseHostPid > 0 => MailboxInv'
  <2>1. baseHostPid > 0 =>
          \/ pc'[Lowest] = pc[Lowest]
          \/ pc[Lowest] = "enter" /\ pc'[Lowest] = "leave"
    BY <1>3
  <2> QED BY <1>3, <2>1 DEF IndInv, DeviceInv, MailboxInv
<1>5. ASSUME NEW d \in Physical
      PROVE  CoreInv(d)'
  <2>1. CoreInv(d) /\ called[d] \in Nat /\ left[d] \in Nat
    BY DEF IndInv, DeviceInv, TypeOK
  <2>2. \A e \in Physical : entered[e] \in Nat /\ entered[e] <= entered'[e]
    BY <1>3 DEF IndInv, TypeOK
  <2> QED BY <1>3, <2>1, <2>2 DEF CoreInv
<1> QED BY <1>1, <1>2, <1>4, <1>5 DEF IndInv, DeviceInv

LEMMA CoreLeaveInd ==
  ASSUME IndInv, NEW c \in Physical, CoreLeave(c)
  PROVE  IndInv'
<1> USE Numbers DEF CoreLeave, CoreGoto, mailbox, Cores!Leave
<1>1. TypeOK'
  BY DEF IndInv, TypeOK, threadVars
<1>2. ThreadsInv'
  BY ThreadsFrame DEF IndInv
<1>3. /\ pc[c] = "leave" /\ pc'[c] = "run" /\ left'[c] = left[c] + 1
      /\ returned'[c] = returned[c] + 1 /\ left[c] < entered[c]
      /\ \A d \in Physical : entered[c] <= entered[d] /\ entered[d] \in Nat
      /\ \A d \in Physical \ {c} :
           left'[d] = left[d] /\ pc'[d] = pc[d] /\ returned'[d] = returned[d]
  BY DEF IndInv, TypeOK
<1>4. baseHostPid > 0 => MailboxInv'
  <2>1. baseHostPid > 0 =>
          \/ pc'[Lowest] = pc[Lowest]
          \/ pc[Lowest] = "leave" /\ pc'[Lowest] = "run"
    BY <1>3
  <2> QED BY <1>3, <2>1 DEF IndInv, DeviceInv, MailboxInv
<1>5. ASSUME NEW d \in Physical
      PROVE  CoreInv(d)'
  <2>1. CoreInv(d) /\ called[d] \in Nat /\ left[d] \in Nat
    BY DEF IndInv, DeviceInv, TypeOK
  <2>2. left'[d] \in Nat /\ \A e \in Physical : left'[d] <= entered[e]
    BY <1>3, <2>1 DEF CoreInv
  <2> QED BY <1>3, <2>1, <2>2 DEF CoreInv
<1> QED BY <1>1, <1>2, <1>4, <1>5 DEF IndInv, DeviceInv

-------------------------------------------------------------------------------
(* A step of thread t that lets no round go leaves the others where they   *)
(* are.                                                                    *)
LEMMA OtherThreads ==
  ASSUME ThreadsInv, NEW t \in Threads,
         \A u \in Threads \ {t} :
           /\ hostPc'[u] = hostPc[u] /\ flip'[u] = flip[u] /\ flop'[u] = flop[u]
           /\ at'[u] = at[u] /\ threadCalled'[u] = threadCalled[u]
           /\ threadEntered'[u] = threadEntered[u] /\ threadLeft'[u] = threadLeft[u],
         Rounds' = Rounds
  PROVE  /\ \A u \in Others \ {t} :
              Place(u)' /\ (Waiting(u)' <=> Waiting(u))
         /\ \A u \in Threads \ {t} : CountInv(u)'
<1>1. ASSUME NEW u \in Others \ {t}
      PROVE  Place(u)' /\ (Waiting(u)' <=> Waiting(u))
  BY DEF ThreadsInv, Place, Waiting, Released, Outside, Others
<1>2. ASSUME NEW u \in Threads \ {t}
      PROVE  CountInv(u)'
  BY DEF ThreadsInv, CountInv
<1> QED BY <1>1, <1>2

(* The mailbox is out of reach of the barrier of the threads.              *)
LEMMA DeviceFrame ==
  ASSUME DeviceInv, UNCHANGED <<mailbox, deviceVars>>
  PROVE  DeviceInv'
BY DEF DeviceInv, mailbox, deviceVars, MailboxInv, CoreInv

LEMMA ThreadSyncInd ==
  ASSUME IndInv, NEW t \in Threads, ThreadSync(t)
  PROVE  IndInv'
<1> USE Numbers DEF ThreadSync, ThreadGoto
<1>1. TypeOK'
  BY DEF IndInv, TypeOK, mailbox, deviceVars
<1>2. DeviceInv'
  BY DeviceFrame DEF IndInv
<1>3. /\ hostPc[t] = "run" /\ threadCalled'[t] = threadCalled[t] + 1
      /\ hostPc'[t] = (IF t = 0 /\ baseHostPid > 0 THEN "device" ELSE "arrive")
      /\ threadCalled[t] \in Nat /\ threadCalled[t] < MaxRounds
      /\ flip' = flip /\ flop' = flop /\ threadLeft' = threadLeft
      /\ threadEntered' = threadEntered /\ pb' = pb
      /\ \A u \in Threads \ {t} : /\ hostPc'[u] = hostPc[u] /\ at'[u] = at[u]
                                  /\ threadCalled'[u] = threadCalled[u]
  BY DEF IndInv, TypeOK, mailbox
<1>4. Rounds' = Rounds
  BY <1>3 DEF Rounds
<1>5. /\ \A u \in Others \ {t} : Place(u)' /\ (Waiting(u)' <=> Waiting(u))
      /\ \A u \in Threads \ {t} : CountInv(u)'
  BY <1>3, <1>4, OtherThreads DEF IndInv
<1>6. t \in Others => Place(t)'
  BY <1>3, <1>4 DEF IndInv, ThreadsInv, Place, Waiting, Released, Outside
<1>7. Master \in Threads => MasterInv'
  BY <1>3, <1>5 DEF IndInv, ThreadsInv, MasterInv, Others, Waiting
<1>8. CountInv(t)'
  BY <1>3 DEF IndInv, ThreadsInv, CountInv
<1>9. PbInv'
  BY <1>3 DEF IndInv, ThreadsInv, PbInv
<1> QED BY <1>1, <1>2, <1>5, <1>6, <1>7, <1>8, <1>9 DEF IndInv, ThreadsInv

(* Thread 0 answers the core that waits for it.                            *)
LEMMA SyncWithDeviceInd ==
  ASSUME IndInv, NEW t \in Threads, SyncWithDevice(t)
  PROVE  IndInv'
<1> USE Numbers DEF SyncWithDevice, ThreadGoto
<1>1. /\ t = 0 /\ baseHostPid > 0 /\ Lowest \in Physical /\ 0 \in Others
      /\ hostPc[t] = "device" /\ hostPc'[t] = "arrive"
      /\ flip' = flip /\ flop' = flop /\ threadLeft' = threadLeft
      /\ threadEntered' = threadEntered /\ threadCalled' = threadCalled
      /\ \A u \in Threads \ {t} : hostPc'[u] = hostPc[u] /\ at'[u] = at[u]
  BY DEF IndInv, TypeOK, ThreadsInv, CountInv
<1>2. /\ core_command = 8 /\ core_command' = 0 /\ pb' = pb + 1 /\ core_busy' = pb'
      /\ pb \in 1..MaxRounds+1 /\ core_busy \in 0..pb /\ before \in 0..pb
      /\ UNCHANGED deviceVars
  BY DEF IndInv, TypeOK
<1>3. /\ pc[Lowest] \in {"release", "wait"} /\ before = pb /\ pb = called[Lowest]
  <2>1. pc[Lowest] \in {"run", "announce", "release", "wait", "enter", "leave"}
    BY <1>1 DEF IndInv, TypeOK
  <2> QED BY <1>1, <1>2, <2>1 DEF IndInv, DeviceInv, MailboxInv
<1>4. pb = threadCalled[0] /\ threadCalled[0] <= MaxRounds
  BY <1>1 DEF IndInv, ThreadsInv, PbInv, CountInv
<1>5. TypeOK'
  <2>1. pb' \in 1..MaxRounds+1 /\ core_busy' \in 0..pb' /\ before' \in 0..pb'
    BY <1>2, <1>4 DEF deviceVars
  <2> QED BY <1>2, <2>1 DEF IndInv, TypeOK, deviceVars
<1>6. MailboxInv'
  BY <1>1, <1>2, <1>3 DEF MailboxInv, deviceVars
<1>7. ASSUME NEW c \in Physical
      PROVE  CoreInv(c)'
  BY <1>2 DEF IndInv, DeviceInv, CoreInv, deviceVars
<1>8. Rounds' = Rounds
  BY <1>1 DEF Rounds
<1>9. /\ \A u \in Others \ {t} : Place(u)' /\ (Waiting(u)' <=> Waiting(u))
      /\ \A u \in Threads \ {t} : CountInv(u)'
  BY <1>1, <1>8, OtherThreads DEF IndInv
<1>10. Place(t)' /\ CountInv(t)'
  BY <1>1, <1>8 DEF IndInv, ThreadsInv, Place, Waiting, Released, Outside, CountInv
<1>11. Master \in Threads => MasterInv'
  BY <1>1, <1>9 DEF IndInv, ThreadsInv, MasterInv, Others, Waiting
<1>12. PbInv'
  BY <1>1, <1>2, <1>4 DEF PbInv
<1> QED BY <1>1, <1>5, <1>6, <1>7, <1>9, <1>10, <1>11, <1>12
      DEF IndInv, ThreadsInv, DeviceInv

(* The master is alone in its loop; another one that arrives waits.        *)
LEMMA ArriveInd ==
  ASSUME IndInv, NEW t \in Threads, Arrive(t)
  PROVE  IndInv'
<1> USE Numbers DEF Arrive, ThreadGoto
<1>1. TypeOK'
  BY DEF IndInv, TypeOK, mailbox, deviceVars
<1>2. DeviceInv'
  BY DeviceFrame DEF IndInv
<1>3. /\ hostPc[t] = "arrive" /\ flip'[t] = 1 /\ threadEntered'[t] = threadEntered[t] + 1
      /\ hostPc'[t] = (IF t = Master THEN "poll" ELSE "wait") /\ at'[t] = 0
      /\ threadEntered[t] \in Nat
      /\ flop' = flop /\ threadLeft' = threadLeft
      /\ threadCalled' = threadCalled /\ pb' = pb
      /\ \A u \in Threads \ {t} : /\ hostPc'[u] = hostPc[u] /\ at'[u] = at[u]
                                  /\ threadEntered'[u] = threadEntered[u]
                                  /\ flip'[u] = flip[u]
  BY DEF IndInv, TypeOK, mailbox, IsMaster, Master
<1>4. Rounds' = Rounds
  BY <1>3 DEF Rounds
<1>5. /\ \A u \in Others \ {t} : Place(u)' /\ (Waiting(u)' <=> Waiting(u))
      /\ \A u \in Threads \ {t} : CountInv(u)'
  BY <1>3, <1>4, OtherThreads DEF IndInv
<1>6. t \in Others => Waiting(t)'
  BY <1>3, <1>4 DEF IndInv, ThreadsInv, Place, Waiting, Released, Outside, Others
<1>7. Master \in Threads => MasterInv'
  <2>1. CASE t = Master
    BY <1>3, <2>1 DEF MasterInv, Others
  <2>2. CASE t # Master
    <3>1. t \in Others
      BY <2>2 DEF Others
    <3> QED BY <1>3, <1>5, <1>6, <2>2, <3>1
          DEF IndInv, ThreadsInv, MasterInv, Others
  <2> QED BY <2>1, <2>2
<1>8. CountInv(t)'
  BY <1>3 DEF IndInv, ThreadsInv, CountInv
<1>9. PbInv'
  BY <1>3 DEF IndInv, ThreadsInv, PbInv
<1> QED BY <1>1, <1>2, <1>5, <1>6, <1>7, <1>8, <1>9 DEF IndInv, ThreadsInv, Place

(* A thread in the loop of the master is the master.                       *)
LEMMA OnlyTheMaster ==
  ASSUME IndInv, NEW t \in Threads, hostPc[t] = "poll"
  PROVE  t = Master /\ MasterInv /\ Rounds = threadLeft[t]
BY DEF IndInv, ThreadsInv, Place, Waiting, Released, Outside, Others, Rounds

LEMMA PollInd ==
  ASSUME IndInv, NEW t \in Threads, Poll(t)
  PROVE  IndInv'
<1> USE Numbers DEF Poll, ThreadGoto
<1>1. /\ hostPc[t] = "poll" /\ hostPc' = hostPc /\ at[t] \in Nat
      /\ at[t] < total_threads /\ flip[at[t]] = 1 /\ at' = [at EXCEPT ![t] = at[t] + 1]
      /\ at'[t] = at[t] + 1
      /\ flip' = flip /\ flop' = flop /\ threadLeft' = threadLeft
      /\ threadEntered' = threadEntered /\ threadCalled' = threadCalled /\ pb' = pb
      /\ \A u \in Threads \ {t} : at'[u] = at[u]
  BY DEF IndInv, TypeOK, mailbox
<1>2. TypeOK'
  <2>1. at' \in [Threads -> 0..total_threads]
    BY <1>1 DEF IndInv, TypeOK
  <2> QED BY <2>1 DEF IndInv, TypeOK, mailbox, deviceVars
<1>3. DeviceInv'
  BY DeviceFrame DEF IndInv
<1>4. t = Master /\ MasterInv
  BY <1>1, OnlyTheMaster
<1>5. MasterInv'
  <2>1. ASSUME NEW u \in Others, u < at'[t]
        PROVE  Waiting(u)
    <3>1. u \in Threads /\ u \in Nat /\ (u < at[t] \/ u = at[t])
      BY <1>1, <2>1 DEF Others
    <3>2. CASE u < at[t]
      BY <1>1, <1>4, <3>2 DEF MasterInv
    <3>3. CASE u = at[t]
      BY <1>1, <3>3 DEF IndInv, ThreadsInv, Place, Released, Outside
    <3> QED BY <3>1, <3>2, <3>3
  <2> QED BY <1>1, <1>4, <2>1 DEF MasterInv, Waiting, Rounds
<1>6. /\ \A u \in Others : Place(u)'
      /\ \A u \in Threads : CountInv(u)'
      /\ PbInv'
  BY <1>1 DEF IndInv, ThreadsInv, Place, Waiting, Released, Outside, Rounds, CountInv, PbInv
<1> QED BY <1>2, <1>3, <1>5, <1>6 DEF IndInv, ThreadsInv

(* When the master has seen every flip, every other thread waits: lowering *)
(* the flips and raising the flops lets each of them go, and none twice.   *)
LEMMA LetGoInd ==
  ASSUME IndInv, NEW t \in Threads, LetGo(t)
  PROVE  /\ \A u \in Threads : threadEntered[u] = threadLeft[t] + 1
         /\ IndInv'
<1> USE Numbers DEF LetGo, ThreadGoto
<1>1. /\ hostPc[t] = "poll" /\ at[t] = total_threads /\ hostPc'[t] = "run"
      /\ threadLeft'[t] = threadLeft[t] + 1 /\ threadLeft[t] \in Nat
      /\ \A u \in Threads : flip'[u] = 0 /\ flop'[u] = 1
      /\ threadEntered' = threadEntered /\ threadCalled' = threadCalled /\ pb' = pb
      /\ \A u \in Threads \ {t} :
           hostPc'[u] = hostPc[u] /\ threadLeft'[u] = threadLeft[u]
  BY DEF IndInv, TypeOK, mailbox
<1>2. TypeOK'
  BY DEF IndInv, TypeOK, mailbox, deviceVars
<1>3. DeviceInv'
  BY DeviceFrame DEF IndInv
<1>4. t = Master /\ MasterInv /\ Rounds = threadLeft[t]
  BY <1>1, OnlyTheMaster
<1>5. \A u \in Others : Waiting(u) /\ u # t /\ u \in Threads
  BY <1>1, <1>4 DEF MasterInv, Others
<1>6. Rounds' = Rounds + 1
  BY <1>1, <1>4 DEF Rounds
<1>7. \A u \in Others : Released(u)'
  BY <1>1, <1>4, <1>5, <1>6 DEF Waiting, Released
<1>8. MasterInv'
  BY <1>1, <1>4 DEF MasterInv
<1>9. \A u \in Threads : CountInv(u)'
  BY <1>1 DEF IndInv, ThreadsInv, CountInv
<1>10. PbInv'
  BY <1>1 DEF IndInv, ThreadsInv, PbInv, TypeOK
<1>11. \A u \in Threads : threadEntered[u] = threadLeft[t] + 1
  <2> TAKE u \in Threads
  <2>1. CASE u = t
    BY <1>1, <2>1 DEF IndInv, ThreadsInv, CountInv
  <2>2. CASE u # t
    BY <1>4, <1>5, <2>2 DEF IndInv, ThreadsInv, CountInv, Others, Waiting
  <2> QED BY <2>1, <2>2
<1> QED BY <1>2, <1>3, <1>7, <1>8, <1>9, <1>10, <1>11 DEF IndInv, ThreadsInv, Place

(* A flop that is up was raised for the round this thread waits for.       *)
LEMMA DepartInd ==
  ASSUME IndInv, NEW t \in Threads, Depart(t)
  PROVE  /\ t \in Others /\ Released(t)
         /\ IndInv'
<1> USE Numbers DEF Depart, ThreadGoto
<1>1. /\ hostPc[t] = "wait" /\ flop[t] = 1 /\ hostPc'[t] = "run" /\ flop'[t] = 0
      /\ threadLeft'[t] = threadLeft[t] + 1 /\ threadLeft[t] \in Nat
      /\ flip' = flip /\ pb' = pb
      /\ threadEntered' = threadEntered /\ threadCalled' = threadCalled
      /\ \A u \in Threads \ {t} : /\ hostPc'[u] = hostPc[u] /\ at'[u] = at[u]
                                  /\ flop'[u] = flop[u] /\ threadLeft'[u] = threadLeft[u]
  BY DEF IndInv, TypeOK, mailbox
<1>2. TypeOK'
  BY DEF IndInv, TypeOK, mailbox, deviceVars
<1>3. DeviceInv'
  BY DeviceFrame DEF IndInv
<1>4. t \in Others /\ t # Master /\ Released(t)
  BY <1>1 DEF IndInv, ThreadsInv, MasterInv, Others, Place, Waiting, Outside
<1>5. Rounds' = Rounds
  BY <1>1, <1>4 DEF Rounds
<1>6. /\ \A u \in Others \ {t} : Place(u)' /\ (Waiting(u)' <=> Waiting(u))
      /\ \A u \in Threads \ {t} : CountInv(u)'
  BY <1>1, <1>5, OtherThreads DEF IndInv
<1>7. Outside(t)' /\ ~Waiting(t)
  BY <1>1, <1>4, <1>5 DEF Released, Outside, Waiting
<1>8. CountInv(t)'
  BY <1>1 DEF IndInv, ThreadsInv, CountInv
<1>9. Master \in Threads => MasterInv'
  BY <1>1, <1>4, <1>6, <1>7 DEF IndInv, ThreadsInv, MasterInv, Others
<1>10. PbInv'
  BY <1>1 DEF IndInv, ThreadsInv, PbInv
<1> QED BY <1>2, <1>3, <1>4, <1>6, <1>7, <1>8, <1>9, <1>10 DEF IndInv, ThreadsInv, Place

-------------------------------------------------------------------------------
LEMMA StepInd ==
  ASSUME IndInv, [Next]_vars
  PROVE  IndInv'
<1>1. CASE UNCHANGED vars
  <2>1. TypeOK'
    BY <1>1 DEF vars, IndInv, TypeOK, threadVars, deviceVars, mailbox
  <2> QED BY <1>1, <2>1, ThreadsFrame, DeviceFrame DEF vars, mailbox, IndInv
<1>2. ASSUME NEW c \in Physical, CoreStep(c)
      PROVE  IndInv'
  BY <1>2, CoreSyncInd, CoreEnterInd, CoreLeaveInd, HandshakeInd DEF CoreStep
<1>3. ASSUME NEW t \in Threads, ThreadStep(t)
      PROVE  IndInv'
  BY <1>3, ThreadSyncInd, SyncWithDeviceInd, ArriveInd, PollInd, LetGoInd, DepartInd
    DEF ThreadStep
<1> QED BY <1>1, <1>2, <1>3 DEF Next, Finished

(* The invariant of GlobalSync, for all constants the code allows.         *)
THEOREM Invariance ==
  ASSUME FlagsDown
  PROVE  Spec => []IndInv
<1>1. Init => IndInv
  BY InitInd
<1>2. IndInv /\ [Next]_vars => IndInv'
  BY StepInd
<1> QED BY <1>1, <1>2, PTL DEF Spec

(* The variables stay in their types: core_busy never runs ahead of the    *)
(* counter of the host.                                                    *)
THEOREM TypeCorrect ==
  ASSUME FlagsDown
  PROVE  Spec => []TypeOK
<1>1. IndInv => TypeOK
  BY DEF IndInv
<1> QED BY <1>1, Invariance, PTL

-------------------------------------------------------------------------------
(* Every thread has entered the rounds that were let go, and has left no   *)
(* other.                                                                  *)
LEMMA RoundsBetween ==
  ASSUME IndInv
  PROVE  \A t \in Threads : /\ threadLeft[t] <= Rounds /\ Rounds <= threadEntered[t]
                            /\ threadEntered[t] <= threadCalled[t]
<1> SUFFICES ASSUME NEW t \in Threads
             PROVE  /\ threadLeft[t] <= Rounds /\ Rounds <= threadEntered[t]
                    /\ threadEntered[t] <= threadCalled[t]
  OBVIOUS
<1>1. CountInv(t) /\ threadLeft[t] \in Nat /\ threadEntered[t] \in Nat
  BY DEF IndInv, ThreadsInv, TypeOK
<1>2. CASE t = Master
  BY <1>1, <1>2 DEF Rounds, CountInv
<1>3. CASE t # Master
  <2>1. Place(t) /\ Rounds \in Nat
    BY <1>3 DEF IndInv, ThreadsInv, TypeOK, Others, Rounds
  <2> QED BY <1>1, <2>1 DEF Place, Waiting, Released, Outside, CountInv
<1> QED BY <1>2, <1>3

(* Core 0 has begun, and thread 0 as well, all that was answered.          *)
LEMMA AnsweredBetween ==
  ASSUME IndInv, baseHostPid > 0
  PROVE  /\ pb \in Nat
         /\ pb - 1 <= called[Lowest] /\ entered[Lowest] <= pb - 1
         /\ pb - 1 <= threadCalled[0] /\ threadEntered[0] <= pb - 1
<1>1. Lowest \in Physical /\ 0 \in Threads
  BY Numbers
<1>2. /\ pb \in Nat /\ called[Lowest] \in Nat /\ entered[Lowest] \in Nat
      /\ threadCalled[0] \in Nat /\ threadEntered[0] \in Nat
      /\ pc[Lowest] \in {"run", "announce", "release", "wait", "enter", "leave"}
  BY <1>1 DEF IndInv, TypeOK
<1>3. pb - 1 <= called[Lowest] /\ entered[Lowest] <= pb - 1
  BY <1>1, <1>2 DEF IndInv, DeviceInv, MailboxInv, CoreInv
<1>4. pb - 1 <= threadCalled[0] /\ threadEntered[0] <= pb - 1
  BY <1>1, <1>2 DEF IndInv, ThreadsInv, PbInv, CountInv
<1> QED BY <1>2, <1>3, <1>4

(* No thread passes a synchronisation that core 0 has not begun, and no    *)
(* core passes one that thread 0 has not begun.                            *)
THEOREM Handshake ==
  ASSUME FlagsDown
  PROVE  Spec => []HandshakeHolds
<1>1. IndInv => HandshakeHolds
  <2> SUFFICES ASSUME IndInv, baseHostPid > 0
               PROVE  /\ \A t \in Threads : threadLeft[t] <= called[Lowest]
                      /\ \A c \in Physical : returned[c] <= threadCalled[0]
    BY DEF HandshakeHolds
  <2>1. 0 \in Threads /\ Lowest \in Physical
    BY Numbers
  <2>2. /\ called[Lowest] \in Nat /\ threadCalled[0] \in Nat /\ entered[Lowest] \in Nat
        /\ threadEntered[0] \in Nat /\ Rounds \in Nat
    BY <2>1 DEF IndInv, TypeOK, Rounds
  <2>3. \A t \in Threads : threadLeft[t] <= called[Lowest]
    <3>1. \A t \in Threads : threadLeft[t] \in Nat
      BY DEF IndInv, TypeOK
    <3> QED BY <2>1, <2>2, <3>1, RoundsBetween, AnsweredBetween
  <2>4. \A c \in Physical : returned[c] <= threadCalled[0]
    <3>1. \A c \in Physical : returned[c] \in Nat /\ returned[c] <= entered[Lowest]
      BY <2>1 DEF IndInv, TypeOK, DeviceInv, CoreInv
    <3> QED BY <2>2, <3>1, AnsweredBetween
  <2> QED BY <2>3, <2>4
<1> QED BY <1>1, Invariance, PTL

(* Each of the two groups keeps the promise of sync among its own members: *)
(* nobody returns from a synchronisation that another has not called.      *)
EachGroupWaits ==
  /\ \A c, d \in Physical : returned[c] <= called[d]
  /\ \A t, u \in Threads : threadLeft[t] <= threadCalled[u]

THEOREM GroupsWait ==
  ASSUME FlagsDown
  PROVE  Spec => []EachGroupWaits
<1>1. IndInv => EachGroupWaits
  <2> SUFFICES ASSUME IndInv
               PROVE  EachGroupWaits
    OBVIOUS
  <2>1. ASSUME NEW c \in Physical, NEW d \in Physical
        PROVE  returned[c] <= called[d]
    <3>1. /\ CoreInv(c) /\ CoreInv(d) /\ left[c] \in Nat /\ entered[d] \in Nat
          /\ called[d] \in Nat
      BY DEF IndInv, TypeOK, DeviceInv
    <3> QED BY <3>1 DEF CoreInv
  <2>2. ASSUME NEW t \in Threads, NEW u \in Threads
        PROVE  threadLeft[t] <= threadCalled[u]
    <3>1. /\ threadLeft[t] \in Nat /\ Rounds \in Nat /\ threadEntered[u] \in Nat
          /\ threadCalled[u] \in Nat
      BY DEF IndInv, TypeOK, Rounds
    <3> QED BY <3>1, RoundsBetween
  <2> QED BY <2>1, <2>2 DEF EachGroupWaits
<1> QED BY <1>1, Invariance, PTL

-------------------------------------------------------------------------------
(* The steps of the barrier that SyncPoint sees.                           *)
LEMMA StepRefines ==
  ASSUME IndInv, [Next]_vars
  PROVE  ThreadsMeet!Next \/ UNCHANGED ThreadsMeet!svars
<1> DEFINE Goal == ThreadsMeet!Next \/ UNCHANGED ThreadsMeet!svars
<1>1. CASE UNCHANGED vars
  BY <1>1 DEF vars, threadVars, ThreadsMeet!svars
<1>2. ASSUME NEW c \in Physical, CoreStep(c)
      PROVE  Goal
  BY <1>2 DEF CoreStep, CoreSync, CoreEnter, CoreLeave, Announce, Release, Answered,
    threadVars, ThreadsMeet!svars
<1>3. ASSUME NEW t \in Threads, ThreadStep(t)
      PROVE  Goal
  <2>1. CASE ThreadSync(t) \/ SyncWithDevice(t) \/ Poll(t)
    BY <2>1 DEF ThreadSync, SyncWithDevice, Poll, ThreadsMeet!svars
  <2>2. CASE Arrive(t)
    <3>1. threadEntered[t] = threadLeft[t]
      BY <2>2 DEF Arrive, IndInv, ThreadsInv, CountInv
    <3> QED BY <2>2, <3>1 DEF Arrive, ThreadsMeet!Next, ThreadsMeet!Enter
  <2>3. CASE LetGo(t)
    <3>1. \A u \in Threads : threadEntered[u] = threadLeft[t] + 1 /\ threadLeft[t] \in Nat
      BY <2>3, LetGoInd DEF IndInv, TypeOK
    <3>2. threadLeft[t] < threadEntered[t] /\ \A u \in Threads : threadEntered[t] <= threadEntered[u]
      BY <3>1
    <3>3. ThreadsMeet!Leave(t)
      BY <2>3, <3>2 DEF LetGo, ThreadsMeet!Leave
    <3> QED BY <3>3 DEF ThreadsMeet!Next
  <2>4. CASE Depart(t)
    <3>1. t \in Others /\ Released(t) /\ threadLeft[t] \in Nat
      BY <2>4, DepartInd DEF IndInv, TypeOK
    <3>2. threadEntered[t] = Rounds /\ threadLeft[t] < Rounds
      BY <3>1 DEF IndInv, ThreadsInv, CountInv, Released
    <3> QED BY <2>4, <3>2, RoundsBetween DEF Depart, ThreadsMeet!Next, ThreadsMeet!Leave
  <2> QED BY <1>3, <2>1, <2>2, <2>3, <2>4 DEF ThreadStep
<1> QED BY <1>1, <1>2, <1>3 DEF Next, Finished

(* The flags of the threads implement SyncPoint, though they are reused    *)
(* every round with no second barrier between.                             *)
THEOREM ThreadsSynchronise ==
  ASSUME FlagsDown
  PROVE  Spec => ThreadSyncSpec
<1>1. Init => ThreadsMeet!Init
  BY DEF Init, ThreadsMeet!Init
<1>2. IndInv /\ [Next]_vars => [ThreadsMeet!Next]_ThreadsMeet!svars
  BY StepRefines
<1> QED BY <1>1, <1>2, Invariance, PTL DEF Spec, ThreadSyncSpec, ThreadsMeet!Spec
-------------------------------------------------------------------------------
(* Nobody is stuck.  What IndInv does not say of a core: it leaves every   *)
(* synchronisation it has called, and calls no more than the bound.        *)
RoundInv(c) ==
  /\ called[c] <= MaxRounds
  /\ left[c] = IF pc[c] = "run" THEN called[c] ELSE called[c] - 1

RoundsInv == \A c \in Physical : RoundInv(c)

(* A thread has the number that makes it the master: there are more        *)
(* threads than cores.                                                     *)
MasterExists == Master \in Threads

LEMMA RoundsStep ==
  ASSUME IndInv, RoundsInv, [Next]_vars
  PROVE  RoundsInv'
<1>1. TypeOK
  BY DEF IndInv
<1>2. ASSUME UNCHANGED deviceVars
      PROVE  RoundsInv'
  BY <1>2 DEF RoundsInv, RoundInv, deviceVars
<1>3. ASSUME NEW c \in Physical, CoreStep(c)
      PROVE  RoundsInv'
  <2> SUFFICES ASSUME NEW d \in Physical
               PROVE  RoundInv(d)'
    BY DEF RoundsInv
  <2>1. /\ RoundInv(d) /\ called[d] \in Nat /\ left[d] \in Nat
        /\ called \in [Physical -> Nat] /\ left \in [Physical -> Nat]
        /\ pc \in [Physical -> {"run", "announce", "release", "wait", "enter", "leave"}]
    BY <1>1 DEF RoundsInv, TypeOK
  <2>2. CASE CoreSync(c)
    BY <2>1, <2>2, BoundsAssumption DEF CoreSync, CoreGoto, RoundInv
  <2>3. CASE CoreEnter(c)
    BY <2>1, <2>3 DEF CoreEnter, CoreGoto, RoundInv, Cores!Enter
  <2>4. CASE CoreLeave(c)
    BY <2>1, <2>4 DEF CoreLeave, CoreGoto, RoundInv, Cores!Leave
  <2>5. CASE Announce \/ Release \/ Answered
    BY <2>1, <2>5 DEF Announce, Release, Answered, CoreGoto, RoundInv
  <2> QED BY <1>3, <2>2, <2>3, <2>4, <2>5 DEF CoreStep
<1>4. CASE UNCHANGED vars \/ \E t \in Threads : ThreadStep(t)
  <2>1. UNCHANGED deviceVars
    BY <1>4 DEF vars, ThreadStep, ThreadSync, SyncWithDevice, Arrive, Poll, LetGo, Depart
  <2> QED BY <1>2, <2>1
<1> QED BY <1>3, <1>4 DEF Next, Finished

(* Threads none of which goes on are through, unless thread 0 waits for    *)
(* core 0.                                                                 *)
LEMMA ThreadsStop ==
  ASSUME IndInv, MasterExists, \A t \in Threads : ~ThreadGoesOn(t),
         hostPc[0] # "device" \/ threadCalled[0] > MaxRounds
  PROVE  \A t \in Threads : threadLeft[t] = MaxRounds /\ threadCalled[t] = MaxRounds
                            /\ hostPc[t] = "run"
<1> USE Numbers
<1>1. /\ MasterInv /\ Master \in Threads /\ Rounds = threadLeft[Master]
      /\ \A t \in Others : Place(t) /\ t \in Threads
      /\ \A t \in Threads :
           /\ CountInv(t) /\ at[t] \in Nat
           /\ threadCalled[t] \in Nat /\ threadEntered[t] \in Nat /\ threadLeft[t] \in Nat
           /\ hostPc[t] \in {"run", "device", "arrive", "poll", "wait"}
  BY DEF IndInv, ThreadsInv, TypeOK, MasterExists, Rounds, Others
<1>2. \A t \in Threads : hostPc[t] # "device"
  BY <1>1 DEF CountInv
<1>3. \A t \in Threads : hostPc[t] = "run" => threadCalled[t] = MaxRounds
                                              /\ threadLeft[t] = MaxRounds
  BY <1>1 DEF CountInv, ThreadGoesOn
<1>4. \A t \in Others : Waiting(t) \/ (hostPc[t] = "run" /\ Rounds = MaxRounds)
  <2> SUFFICES ASSUME NEW t \in Others
               PROVE  Waiting(t) \/ (hostPc[t] = "run" /\ Rounds = MaxRounds)
    OBVIOUS
  <2>1. CASE Released(t)
    BY <1>1, <2>1 DEF Released, ThreadGoesOn
  <2>2. CASE Outside(t)
    BY <1>1, <1>2, <1>3, <2>2 DEF Outside, ThreadGoesOn
  <2> QED BY <1>1, <2>1, <2>2 DEF Place
<1>5. hostPc[Master] = "run"
  <2> SUFFICES ASSUME hostPc[Master] # "run"
               PROVE  FALSE
    OBVIOUS
  <2>1. /\ hostPc[Master] = "poll" /\ flip[Master] = 1
        /\ at[Master] < total_threads /\ flip[at[Master]] # 1
    BY <1>1, <1>2 DEF MasterInv, ThreadGoesOn
  <2>2. at[Master] \in Others
    BY <1>1, <2>1 DEF Others
  <2>3. Rounds = MaxRounds
    BY <1>4, <2>1, <2>2 DEF Waiting
  <2>4. threadCalled[Master] = MaxRounds + 1 /\ threadCalled[Master] <= MaxRounds
    BY <1>1, <2>1, <2>3 DEF CountInv
  <2> QED BY <2>4
<1>6. Rounds = MaxRounds
  BY <1>1, <1>3, <1>5
<1>7. \A t \in Others : hostPc[t] = "run"
  <2> SUFFICES ASSUME NEW t \in Others, Waiting(t)
               PROVE  FALSE
    BY <1>4
  <2>1. threadCalled[t] = MaxRounds + 1 /\ threadCalled[t] <= MaxRounds
    BY <1>1, <1>6 DEF Waiting, CountInv
  <2> QED BY <2>1
<1>8. \A t \in Threads : hostPc[t] = "run"
  BY <1>5, <1>7 DEF Others
<1> QED BY <1>3, <1>8

(* Cores none of which goes on are through, unless core 0 waits.           *)
LEMMA CoresStop ==
  ASSUME IndInv, RoundsInv, \A c \in Physical : ~CoreGoesOn(c),
         Lowest \in Physical => pc[Lowest] # "wait"
  PROVE  \A c \in Physical : returned[c] = MaxRounds /\ called[c] = MaxRounds
                             /\ pc[c] = "run"
<1>1. \A c \in Physical :
        /\ CoreInv(c) /\ RoundInv(c)
        /\ called[c] \in Nat /\ entered[c] \in Nat /\ left[c] \in Nat
        /\ pc[c] \in {"run", "announce", "release", "wait", "enter", "leave"}
  BY DEF IndInv, DeviceInv, TypeOK, RoundsInv
<1>2. \A c \in Physical : pc[c] \in {"run", "leave"}
  <2> SUFFICES ASSUME NEW c \in Physical
               PROVE  pc[c] \in {"run", "leave"}
    OBVIOUS
  <2>1. pc[c] # "wait"
    BY <1>1 DEF CoreInv
  <2>2. pc[c] # "enter"
    BY <1>1 DEF CoreInv, RoundInv, CoreGoesOn
  <2> QED BY <1>1, <2>1, <2>2 DEF CoreGoesOn
<1>3. \A c \in Physical : entered[c] = called[c] /\ called[c] <= MaxRounds
  BY <1>1, <1>2 DEF CoreInv, RoundInv
<1>4. \A c \in Physical : pc[c] = "run" => called[c] = MaxRounds
  BY <1>1, <1>3, BoundsAssumption DEF CoreGoesOn
\* A core that waits for another waits for one that is a round behind.
<1>5. ASSUME NEW c \in Physical, pc[c] = "leave"
      PROVE  \E d \in Physical : pc[d] = "leave" /\ entered[d] = entered[c] - 1
  <2>1. PICK d \in Physical : ~(entered[c] <= entered[d])
    BY <1>5 DEF CoreGoesOn
  <2>2. pc[d] = "leave"
    BY <1>1, <1>2, <1>3, <1>4, <2>1
  <2>3. left[c] = entered[c] - 1 /\ left[c] <= entered[d]
    BY <1>1, <1>3, <1>5 DEF CoreInv, RoundInv
  <2>4. entered[d] = entered[c] - 1
    BY <1>1, <2>1, <2>3
  <2> QED BY <2>2, <2>4
<1>6. \A c \in Physical : pc[c] = "run"
  <2> SUFFICES ASSUME NEW c \in Physical, pc[c] = "leave"
               PROVE  FALSE
    BY <1>2
  <2>1. PICK d \in Physical : pc[d] = "leave" /\ entered[d] = entered[c] - 1
    BY <1>5
  <2>2. PICK e \in Physical : pc[e] = "leave" /\ entered[e] = entered[d] - 1
    BY <1>5, <2>1
  <2>3. left[c] = entered[c] - 1 /\ left[c] <= entered[e]
    BY <1>1, <1>3 DEF CoreInv, RoundInv
  <2> QED BY <1>1, <2>1, <2>2, <2>3
<1> QED BY <1>1, <1>4, <1>6 DEF CoreInv, RoundInv

(* When nobody can go on although core 0 still waits, its answer is lost,  *)
(* and the threads have left all synchronisations that were answered.      *)
LEMMA OnlyALostAnswer ==
  ASSUME IndInv, RoundsInv, MasterExists, baseHostPid > 0, pc[Lowest] = "wait",
         ~CoreGoesOn(Lowest), \A t \in Threads : ~ThreadGoesOn(t)
  PROVE  HeldUp
<1> USE Numbers
<1>1. /\ MailboxInv /\ PbInv /\ Lowest \in Physical /\ 0 \in Threads /\ CountInv(0)
      /\ threadCalled[0] \in Nat /\ called[Lowest] \in Nat /\ pb \in Nat
      /\ threadLeft[0] \in Nat /\ threadEntered[0] \in Nat
      /\ before \in Nat /\ called[Lowest] <= MaxRounds
  BY DEF IndInv, TypeOK, DeviceInv, ThreadsInv, RoundsInv, RoundInv
<1>2. ~(core_busy # 0 /\ core_busy > before)
  BY <1>1 DEF CoreGoesOn
<1>3. \/ core_command = 8 /\ pb = called[Lowest]
      \/ core_command = 0 /\ core_busy = 0 /\ pb = called[Lowest] + 1
  <2>1. core_command = 0 /\ core_busy = pb /\ pb = before + 1 => FALSE
    BY <1>1, <1>2
  <2> QED BY <1>1, <2>1 DEF MailboxInv
<1>4. \/ hostPc[0] = "device" /\ core_command # 8
      \/ \A t \in Threads : threadLeft[t] = MaxRounds /\ threadCalled[t] = MaxRounds
                             /\ hostPc[t] = "run"
  BY <1>1, ThreadsStop DEF ThreadGoesOn
<1>5. core_command = 0 /\ core_busy = 0 /\ pb = called[Lowest] + 1
  <2> SUFFICES ASSUME core_command = 8, pb = called[Lowest]
               PROVE  FALSE
    BY <1>3
  <2> QED BY <1>1, <1>4 DEF PbInv
<1>6. ASSUME NEW t \in Threads
      PROVE  threadLeft[t] = called[Lowest]
  <2>1. CASE hostPc[0] = "device"
    <3>1. threadLeft[0] = called[Lowest] /\ Place(0)
      BY <1>1, <1>5, <2>1 DEF PbInv, CountInv, IndInv, ThreadsInv
    <3>2. Rounds = called[Lowest]
      BY <2>1, <3>1 DEF Place, Waiting, Released, Outside
    <3>3. CASE t = Master
      BY <3>2, <3>3 DEF Rounds
    <3>4. CASE t # Master
      <4>1. Place(t)
        BY <3>4 DEF IndInv, ThreadsInv, Others
      <4>2. ~Released(t)
        BY DEF Released, ThreadGoesOn
      <4> QED BY <3>2, <4>1, <4>2 DEF Place, Waiting, Outside
    <3> QED BY <3>3, <3>4
  <2>2. CASE hostPc[0] # "device"
    BY <1>1, <1>4, <1>5, <2>2 DEF PbInv
  <2> QED BY <2>1, <2>2
<1> QED BY <1>1, <1>5, <1>6 DEF HeldUp, AnswerLost

(* "Everybody waits for everybody" is no circle, provided one thread has   *)
(* the number of the master: with no more threads than cores none has, and *)
(* the first synchronisation never returns (host-functions.c:682).  The    *)
(* one way to stop is the answer that core 0 overwrites                    *)
(* (device-functions.c:799-800), and the threads are through by then.      *)
THEOREM SomebodyPasses ==
  ASSUME FlagsDown, MasterExists
  PROVE  Spec => []NobodyIsStuck
<1> USE Numbers
<1>1. ASSUME IndInv, RoundsInv, \A c \in Physical : ~CoreGoesOn(c),
             \A t \in Threads : ~ThreadGoesOn(t)
      PROVE  AllThrough \/ HeldUp
  <2>1. CASE baseHostPid > 0
    <3>1. /\ MailboxInv /\ PbInv /\ Lowest \in Physical /\ 0 \in Threads /\ CountInv(0)
          /\ threadCalled[0] \in Nat /\ called[Lowest] \in Nat /\ pb \in Nat
          /\ before \in Nat /\ called[Lowest] <= MaxRounds
      BY <1>1, <2>1 DEF IndInv, TypeOK, DeviceInv, ThreadsInv, RoundsInv, RoundInv
    <3>2. ASSUME pc[Lowest] = "wait"
          PROVE  HeldUp
      BY <1>1, <2>1, <3>1, <3>2, OnlyALostAnswer
    <3> SUFFICES ASSUME pc[Lowest] # "wait"
                 PROVE  AllThrough
      BY <3>2
    <3>3. \A c \in Physical : returned[c] = MaxRounds /\ called[c] = MaxRounds
                              /\ pc[c] = "run"
      BY <1>1, CoresStop
    <3>4. pb = MaxRounds + 1
      BY <3>1, <3>3 DEF MailboxInv
    <3>5. hostPc[0] = "device" => threadCalled[0] > MaxRounds
      BY <2>1, <3>1, <3>4 DEF PbInv
    <3>6. \A t \in Threads : threadLeft[t] = MaxRounds
      BY <1>1, <3>5, ThreadsStop
    <3> QED BY <3>3, <3>6 DEF AllThrough
  <2>2. CASE ~(baseHostPid > 0)
    <3>1. Lowest \notin Physical /\ CountInv(0)
      BY <1>1, <2>2 DEF IndInv, ThreadsInv
    <3>2. hostPc[0] # "device"
      BY <2>2, <3>1 DEF CountInv
    <3>3. \A t \in Threads : threadLeft[t] = MaxRounds
      BY <1>1, <3>2, ThreadsStop
    <3>4. Physical = {}
      BY <2>2 DEF Physical
    <3> QED BY <3>3, <3>4 DEF AllThrough
  <2> QED BY <2>1, <2>2
<1>2. IndInv /\ RoundsInv => NobodyIsStuck
  BY <1>1 DEF NobodyIsStuck
<1>3. Init => IndInv /\ RoundsInv
  BY InitInd DEF Init, Cores!Init, RoundsInv, RoundInv
<1>4. IndInv /\ RoundsInv /\ [Next]_vars => (IndInv /\ RoundsInv)'
  BY StepInd, RoundsStep
<1> QED BY <1>2, <1>3, <1>4, PTL DEF Spec
===============================================================================
