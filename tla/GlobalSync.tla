------------------------------ MODULE GlobalSync -------------------------------
(***************************************************************************)
(* "sync" of a run on physical cores and on virtual ones, which are        *)
(* threads of the host (host-functions.c and device-functions.c,           *)
(* syncCores).                                                             *)
(*                                                                         *)
(* The lowest core and thread 0 shake hands through the mailbox of that    *)
(* core: command 8, answered by the next value of core_busy.  After that   *)
(* the cores synchronise among themselves, and so do the threads.          *)
(*                                                                         *)
(* The barrier of the cores is DeviceBarrier, which implements SyncPoint:  *)
(* SyncPoint stands for it here.  The barrier of the threads has a flag    *)
(* "flip" for the arrival of each thread, which the master polls, and a    *)
(* flag "flop" for its release, both written under a mutex.  A thread that *)
(* sees its flop up does nothing before it has the mutex, so the critical  *)
(* sections are single steps.                                              *)
(*                                                                         *)
(* Nothing is assumed about how fast either side is.  The core stores the  *)
(* command before it clears core_busy, and thread 0 looks at the command   *)
(* alone: it may answer in between, and its answer is then overwritten.    *)
(***************************************************************************)
EXTENDS Naturals

CONSTANTS
  baseHostPid,   \* the number of physical cores, and the first virtual one
  total_threads, \* the number of virtual cores: threads of the host
  FoundInHeap,   \* what the flags hold at first: the loop that should clear
                 \* them runs before total_threads has its value
  MaxRounds      \* bound: synchronisations of a process

ASSUME ProcessesAssumption == baseHostPid \in Nat /\ total_threads \in Nat \ {0}
ASSUME HeapAssumption == FoundInHeap \subseteq Nat /\ FoundInHeap # {}
ASSUME BoundsAssumption == MaxRounds \in Nat

Physical == 0..baseHostPid-1
Threads == 0..total_threads-1
Lowest == 0

VARIABLES
  core_command, core_busy, \* the mailbox of the lowest core
  before,                  \* its local copy of core_busy
  pb,                      \* the counter of the host for that core
  pc,                      \* [c]: where core c is in its sync
  entered, left,           \* the barrier of the cores
  called, returned,        \* [c]: synchronisations that core c began and ended
  flip, flop,              \* the barrier of the threads
  hostPc, at,              \* [t]: place of thread t, index of its loop
  threadCalled, threadEntered, threadLeft  \* [t]: the same for threads

deviceVars == <<before, pc, entered, left, called, returned>>
threadVars == <<flip, flop, hostPc, at, threadCalled, threadEntered, threadLeft>>
mailbox == <<core_command, core_busy, pb>>
vars == <<deviceVars, threadVars, mailbox>>

Cores == INSTANCE SyncPoint WITH Members <- Physical

Init ==
  /\ core_command = 0
  /\ core_busy = 1
  /\ before = 0
  /\ pb = 1
  /\ pc = [c \in Physical |-> "run"]
  /\ Cores!Init
  /\ called = [c \in Physical |-> 0]
  /\ returned = [c \in Physical |-> 0]
  /\ flip \in [Threads -> FoundInHeap]
  /\ flop \in [Threads -> FoundInHeap]
  /\ hostPc = [t \in Threads |-> "run"]
  /\ at = [t \in Threads |-> 0]
  /\ threadCalled = [t \in Threads |-> 0]
  /\ threadEntered = [t \in Threads |-> 0]
  /\ threadLeft = [t \in Threads |-> 0]

-------------------------------------------------------------------------------
(* A physical core.                                                        *)
CoreGoto(c, label) == pc' = [pc EXCEPT ![c] = label]

CoreSync(c) ==
  /\ pc[c] = "run"
  /\ called[c] < MaxRounds
  /\ called' = [called EXCEPT ![c] = @ + 1]
  /\ IF c = Lowest
       THEN before' = core_busy /\ CoreGoto(c, "announce")
       ELSE CoreGoto(c, "enter") /\ UNCHANGED before
  /\ UNCHANGED <<mailbox, threadVars, entered, left, returned>>

Announce ==
  /\ Lowest \in Physical /\ pc[Lowest] = "announce"
  /\ core_command' = 8
  /\ CoreGoto(Lowest, "release")
  /\ UNCHANGED <<core_busy, before, pb, threadVars, entered, left, called, returned>>

Release ==
  /\ Lowest \in Physical /\ pc[Lowest] = "release"
  /\ core_busy' = 0
  /\ CoreGoto(Lowest, "wait")
  /\ UNCHANGED <<core_command, before, pb, threadVars, entered, left, called, returned>>

\* Mutant of Answered: the spin ends at any other value of core_busy.
AnsweredEarly ==
  /\ Lowest \in Physical /\ pc[Lowest] = "wait"
  /\ core_busy # before
  /\ CoreGoto(Lowest, "enter")
  /\ UNCHANGED <<mailbox, before, threadVars, entered, left, called, returned>>

Answered ==
  /\ Lowest \in Physical /\ pc[Lowest] = "wait"
  /\ core_busy # 0 /\ core_busy > before
  /\ CoreGoto(Lowest, "enter")
  /\ UNCHANGED <<mailbox, before, threadVars, entered, left, called, returned>>

(* performBarrier.                                                         *)
CoreEnter(c) ==
  /\ pc[c] = "enter"
  /\ Cores!Enter(c)
  /\ CoreGoto(c, "leave")
  /\ UNCHANGED <<mailbox, before, threadVars, called, returned>>

CoreLeave(c) ==
  /\ pc[c] = "leave"
  /\ Cores!Leave(c)
  /\ CoreGoto(c, "run")
  /\ returned' = [returned EXCEPT ![c] = @ + 1]
  /\ UNCHANGED <<mailbox, before, threadVars, called>>

CoreStep(c) == CoreSync(c) \/ CoreEnter(c) \/ CoreLeave(c)
                 \/ (c = Lowest /\ (Announce \/ Release \/ Answered))

-------------------------------------------------------------------------------
(* A thread.                                                               *)
ThreadGoto(t, label, index) == /\ hostPc' = [hostPc EXCEPT ![t] = label]
                               /\ at' = [at EXCEPT ![t] = index]

ThreadSync(t) ==
  /\ hostPc[t] = "run"
  /\ threadCalled[t] < MaxRounds
  /\ threadCalled' = [threadCalled EXCEPT ![t] = @ + 1]
  /\ ThreadGoto(t, IF t = 0 /\ baseHostPid > 0 THEN "device" ELSE "arrive", 0)
  /\ UNCHANGED <<mailbox, deviceVars, flip, flop, threadEntered, threadLeft>>

\* Mutants of SyncWithDevice: the command is not reset; pb is incremented twice.
SyncWithDeviceKeeps(t) ==
  /\ hostPc[t] = "device"
  /\ core_command = 8
  /\ pb' = pb + 1
  /\ core_busy' = pb'
  /\ ThreadGoto(t, "arrive", 0)
  /\ UNCHANGED <<core_command, deviceVars, flip, flop, threadCalled, threadEntered,
                 threadLeft>>

SyncWithDeviceTwice(t) ==
  /\ hostPc[t] = "device"
  /\ core_command = 8
  /\ core_command' = 0
  /\ pb' = pb + 2
  /\ core_busy' = pb'
  /\ ThreadGoto(t, "arrive", 0)
  /\ UNCHANGED <<deviceVars, flip, flop, threadCalled, threadEntered, threadLeft>>

(* Thread 0 polls the command only, never core_busy.  Its two stores are   *)
(* one step: a core that clears core_busy between them might as well have  *)
(* done so before the first, which it does not look at.                    *)
SyncWithDevice(t) ==
  /\ hostPc[t] = "device"
  /\ core_command = 8
  /\ core_command' = 0
  /\ pb' = pb + 1
  /\ core_busy' = pb'
  /\ ThreadGoto(t, "arrive", 0)
  /\ UNCHANGED <<deviceVars, flip, flop, threadCalled, threadEntered, threadLeft>>

(* The number of a thread is compared with the number of a process.        *)
IsMaster(t) == t = baseHostPid

Arrive(t) ==
  /\ hostPc[t] = "arrive"
  /\ flip' = [flip EXCEPT ![t] = 1]
  /\ threadEntered' = [threadEntered EXCEPT ![t] = @ + 1]
  /\ ThreadGoto(t, IF IsMaster(t) THEN "poll" ELSE "wait", 0)
  /\ UNCHANGED <<mailbox, deviceVars, flop, threadCalled, threadLeft>>

Poll(t) ==
  /\ hostPc[t] = "poll"
  /\ at[t] < total_threads
  /\ flip[at[t]] = 1
  /\ ThreadGoto(t, "poll", at[t] + 1)
  /\ UNCHANGED <<mailbox, deviceVars, flip, flop, threadCalled, threadEntered, threadLeft>>

\* Mutant of LetGo: the arrivals are not cleared.
LetGoFlipUp(t) ==
  /\ hostPc[t] = "poll"
  /\ at[t] = total_threads
  /\ flop' = [u \in Threads |-> 1]
  /\ threadLeft' = [threadLeft EXCEPT ![t] = @ + 1]
  /\ ThreadGoto(t, "run", 0)
  /\ UNCHANGED <<mailbox, deviceVars, flip, threadCalled, threadEntered>>

LetGo(t) ==
  /\ hostPc[t] = "poll"
  /\ at[t] = total_threads
  /\ flip' = [u \in Threads |-> 0]
  /\ flop' = [u \in Threads |-> 1]
  /\ threadLeft' = [threadLeft EXCEPT ![t] = @ + 1]
  /\ ThreadGoto(t, "run", 0)
  /\ UNCHANGED <<mailbox, deviceVars, threadCalled, threadEntered>>

Depart(t) ==
  /\ hostPc[t] = "wait"
  /\ flop[t] = 1
  /\ flop' = [flop EXCEPT ![t] = 0]
  /\ threadLeft' = [threadLeft EXCEPT ![t] = @ + 1]
  /\ ThreadGoto(t, "run", 0)
  /\ UNCHANGED <<mailbox, deviceVars, flip, threadCalled, threadEntered>>

ThreadStep(t) == ThreadSync(t) \/ SyncWithDevice(t) \/ Arrive(t) \/ Poll(t)
                   \/ LetGo(t) \/ Depart(t)

AllThrough == /\ \A c \in Physical : returned[c] = MaxRounds
              /\ \A t \in Threads : threadLeft[t] = MaxRounds
Finished == AllThrough /\ UNCHANGED vars

Next == (\E c \in Physical : CoreStep(c)) \/ (\E t \in Threads : ThreadStep(t)) \/ Finished

Spec == Init /\ [][Next]_vars

(* Cores run on their own, threads are scheduled.                          *)
FairSpec == /\ Spec
            /\ \A c \in Physical : WF_vars(CoreStep(c))
            /\ \A t \in Threads : WF_vars(ThreadStep(t))

-------------------------------------------------------------------------------
TypeOK ==
  /\ core_command \in {0, 8}
  /\ pb \in 1..MaxRounds+1 /\ core_busy \in 0..pb /\ before \in 0..pb
  /\ pc \in [Physical -> {"run", "announce", "release", "wait", "enter", "leave"}]
  /\ entered \in [Physical -> Nat] /\ left \in [Physical -> Nat]
  /\ called \in [Physical -> Nat] /\ returned \in [Physical -> Nat]
  /\ flip \in [Threads -> Nat] /\ flop \in [Threads -> Nat]
  /\ hostPc \in [Threads -> {"run", "device", "arrive", "poll", "wait"}]
  /\ at \in [Threads -> 0..total_threads]
  /\ threadCalled \in [Threads -> Nat]
  /\ threadEntered \in [Threads -> Nat] /\ threadLeft \in [Threads -> Nat]

(* The flip and flop flags implement the abstract synchronisation for the  *)
(* threads (host-functions.c:682-708), provided one of them is the master: *)
(* the arrays are reused every round with no second barrier between.       *)
ThreadsMeet == INSTANCE SyncPoint
  WITH Members <- Threads, entered <- threadEntered, left <- threadLeft
ThreadSyncSpec == ThreadsMeet!Spec

(* What the handshake gives: no thread passes a synchronisation that the   *)
(* lowest core has not begun, and no core passes one that thread 0 has not *)
(* begun (host-functions.c:661-671, device-functions.c:797-802).           *)
HandshakeHolds ==
  baseHostPid > 0 =>
    /\ \A t \in Threads : threadLeft[t] <= called[Lowest]
    /\ \A c \in Physical : returned[c] <= threadCalled[0]

(* The answer to core 0 was overwritten by its own core_busy = 0 ...       *)
AnswerLost == /\ Lowest \in Physical /\ pc[Lowest] = "wait"
              /\ core_command = 0 /\ core_busy = 0

(* ... and the threads are through all that was answered.                  *)
HeldUp == AnswerLost /\ \A t \in Threads : threadLeft[t] = called[Lowest]

(* Everybody gets through every synchronisation, or core 0 does not get    *)
(* the answer it was given, and then the threads still get through the     *)
(* synchronisation that they gave it in (host-functions.c:661-708,         *)
(* device-functions.c:797-802).                                            *)
EverySyncReturns == <>(AllThrough \/ HeldUp)

(* What brings a core or a thread on, with every spin at its end.          *)
CoreGoesOn(c) ==
  \/ pc[c] = "run" /\ called[c] < MaxRounds
  \/ pc[c] \in {"announce", "release"}
  \/ pc[c] = "wait" /\ core_busy # 0 /\ core_busy > before
  \/ pc[c] = "enter" /\ entered[c] = left[c]
  \/ pc[c] = "leave" /\ \A d \in Physical : entered[c] <= entered[d]

ThreadGoesOn(t) ==
  \/ hostPc[t] = "run" /\ threadCalled[t] < MaxRounds
  \/ hostPc[t] = "device" /\ core_command = 8
  \/ hostPc[t] = "arrive"
  \/ hostPc[t] = "poll" /\ (at[t] < total_threads => flip[at[t]] = 1)
  \/ hostPc[t] = "wait" /\ flop[t] = 1

(* No core waits for threads that wait for it: the two barriers and the    *)
(* handshake before them are passed in an order in which somebody always   *)
(* can, until all are through all synchronisations.  One thing alone stops *)
(* a run: an answer that is overwritten, and that not before the threads   *)
(* are through the synchronisation it belongs to.                          *)
NobodyIsStuck ==
  \/ AllThrough \/ HeldUp
  \/ \E c \in Physical : CoreGoesOn(c)
  \/ \E t \in Threads : ThreadGoesOn(t)

(* "All the active cores can be synchronised via the sync call, where they *)
(* will all wait at this barrier until every other core has reached a      *)
(* corresponding sync call" (docs/documentation.html:125), cores being     *)
(* physical or virtual (documentation.html:74).                            *)
EveryCoreWaits ==
  /\ \A c \in Physical, t \in Threads : /\ returned[c] <= threadCalled[t]
                                        /\ threadLeft[t] <= called[c]
  /\ \A c, d \in Physical : returned[c] <= called[d]
  /\ \A t, u \in Threads : threadLeft[t] <= threadCalled[u]
===============================================================================
