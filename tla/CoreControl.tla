----------------------------- MODULE CoreControl ------------------------------
(***************************************************************************)
(* The mailbox through which an Epiphany core has the host do what it      *)
(* cannot: print, read input, report an error, concatenate strings,        *)
(* compute transcendental functions (shared.h, struct core_ctrl).          *)
(*                                                                         *)
(* A core fills "data", sets "core_command", remembers the value of        *)
(* "core_busy", sets it to 0 and spins until it is larger than before.     *)
(* One host thread, the monitor, goes round the cores; where it finds      *)
(* core_busy = 0 it executes the command, leaves the answer in "data" and  *)
(* puts the next value of a counter into core_busy.  The same two words    *)
(* tell that a core has not started (core_busy = 0, core_run = 1) and that *)
(* it has ended (core_busy = 0, core_run = 0).                             *)
(*                                                                         *)
(* Nothing here is locked: the protocol is the order of the loads and      *)
(* stores, which the actions keep one by one where another party can see   *)
(* the difference.                                                         *)
(***************************************************************************)
EXTENDS Integers, FiniteSets

CONSTANTS
  TotalCores,      \* TOTAL_CORES: 16 in the code
  Intent,          \* the cores the user asked for (intentActive)
  BusyMax,         \* the largest value of core_busy: 2^32 - 1 in the code
  MaxCalls,        \* bound: calls a core makes
  BootBeforeWatch  \* TRUE: every core has stored core_busy = 1 before the
                   \* monitor loads it for the first time

CoreIds == 0..TotalCores-1

ASSUME TotalAssumption == TotalCores \in Nat \ {0}
ASSUME IntentAssumption == Intent \subseteq CoreIds
ASSUME BusyAssumption == BusyMax \in Nat /\ BusyMax >= 1
ASSUME CallsAssumption == MaxCalls \in Nat
ASSUME BootAssumption == BootBeforeWatch \in BOOLEAN

Commands == {"display", "input", "error", "concatenate", "maths"}
None == "none"

\* The data area holds what the core asked in its n-th call, or the answer.
Asked(n) == [is |-> "request", call |-> n]
Answer(n) == [is |-> "answer", call |-> n]

VARIABLES
  core_run, core_busy, core_command, data,  \* the shared core_ctrl of each core
  pc,        \* [c]: where core c is
  wanted,    \* [c]: the command of the call c is making
  before,    \* [c]: the local copy of core_busy the spin compares with
  calls,     \* [c]: calls c has begun
  returned,  \* [c]: calls of c that have returned
  result,    \* [c]: what c found in the data area when its last call returned
  hostPc,    \* where the host thread is
  scan,      \* the core it is looking at
  active, totalActive, pb,  \* its own bookkeeping
  served     \* [c]: commands of c it has executed

coreVars == <<pc, wanted, before, calls, returned, result>>
hostVars == <<hostPc, scan, active, totalActive, pb, served>>
shared   == <<core_run, core_busy, core_command, data>>
vars == <<shared, coreVars, hostVars>>

Init ==
  /\ core_run = [c \in CoreIds |-> 0]
  /\ core_busy = [c \in CoreIds |-> 0]
  /\ core_command = [c \in CoreIds |-> None]
  /\ data = [c \in CoreIds |-> Asked(0)]
  /\ pc = [c \in CoreIds |-> "boot"]
  /\ wanted = [c \in CoreIds |-> None]
  /\ before = [c \in CoreIds |-> 0]
  /\ calls = [c \in CoreIds |-> 0]
  /\ returned = [c \in CoreIds |-> 0]
  /\ result = [c \in CoreIds |-> Asked(0)]
  /\ hostPc = "start"
  /\ scan = 0
  /\ active = [c \in CoreIds |-> FALSE]
  /\ totalActive = 0
  /\ pb = [c \in CoreIds |-> 0]
  /\ served = [c \in CoreIds |-> 0]

Goto(c, label) == pc' = [pc EXCEPT ![c] = label]

-------------------------------------------------------------------------------
(* The core.                                                               *)

(* It spins until it is told to run, then marks itself busy.               *)
Boot(c) ==
  /\ pc[c] = "boot"
  /\ core_run[c] = 1
  /\ core_busy' = [core_busy EXCEPT ![c] = 1]
  /\ Goto(c, "running")
  /\ UNCHANGED <<core_run, core_command, data, wanted, before, calls, returned,
                 result, hostVars>>

(* The interpreter comes to a statement that needs the host.  An error     *)
(* ends the program after the statement, which may make more calls.        *)
Begin(c, command) ==
  /\ pc[c] = "running"
  /\ calls[c] < MaxCalls
  /\ calls' = [calls EXCEPT ![c] = @ + 1]
  /\ wanted' = [wanted EXCEPT ![c] = command]
  /\ Goto(c, IF command = "error" THEN "command" ELSE "fill")
  /\ UNCHANGED <<shared, before, returned, result, hostVars>>

(* raiseError stores the command first and the data after it; the other    *)
(* calls the other way round.                                              *)
Fill(c) ==
  /\ pc[c] = "fill"
  /\ data' = [data EXCEPT ![c] = Asked(calls[c])]
  /\ Goto(c, IF wanted[c] = "error" THEN "remember" ELSE "command")
  /\ UNCHANGED <<core_run, core_busy, core_command, wanted, before, calls, returned,
                 result, hostVars>>

Command(c) ==
  /\ pc[c] = "command"
  /\ core_command' = [core_command EXCEPT ![c] = wanted[c]]
  /\ Goto(c, IF wanted[c] = "error" THEN "fill" ELSE "remember")
  /\ UNCHANGED <<core_run, core_busy, data, wanted, before, calls, returned,
                 result, hostVars>>

Remember(c) ==
  /\ pc[c] = "remember"
  /\ before' = [before EXCEPT ![c] = core_busy[c]]
  /\ Goto(c, "release")
  /\ UNCHANGED <<shared, wanted, calls, returned, result, hostVars>>

Release(c) ==
  /\ pc[c] = "release"
  /\ core_busy' = [core_busy EXCEPT ![c] = 0]
  /\ Goto(c, "wait")
  /\ UNCHANGED <<core_run, core_command, data, wanted, before, calls, returned,
                 result, hostVars>>

\* Mutant of SpinEnds: any other value than before will do.
SpinEndsEarly(c) == core_busy[c] # before[c]

(* The spin, and what is read when it ends.                                *)
SpinEnds(c) == core_busy[c] # 0 /\ core_busy[c] > before[c]

Return(c) ==
  /\ pc[c] = "wait"
  /\ SpinEnds(c)
  /\ result' = [result EXCEPT ![c] = data[c]]
  /\ returned' = [returned EXCEPT ![c] = @ + 1]
  /\ Goto(c, "running")
  /\ UNCHANGED <<shared, wanted, before, calls, hostVars>>

(* The program is over, or stopped by an error: two stores, in this order. *)
End(c) ==
  /\ pc[c] = "running"
  /\ core_busy' = [core_busy EXCEPT ![c] = 0]
  /\ Goto(c, "ending")
  /\ UNCHANGED <<core_run, core_command, data, wanted, before, calls, returned,
                 result, hostVars>>

Ended(c) ==
  /\ pc[c] = "ending"
  /\ core_run' = [core_run EXCEPT ![c] = 0]
  /\ Goto(c, "ended")
  /\ UNCHANGED <<core_busy, core_command, data, wanted, before, calls, returned,
                 result, hostVars>>

CallStep(c) == Boot(c) \/ Fill(c) \/ Command(c) \/ Remember(c) \/ Release(c)
                 \/ Return(c) \/ Ended(c)
CoreStep(c) == CallStep(c) \/ End(c) \/ \E command \in Commands : Begin(c, command)

-------------------------------------------------------------------------------
(* The host: it starts the cores, then watches them.                       *)

StartCore ==
  /\ hostPc = "start"
  /\ scan < TotalCores
  /\ IF scan \in Intent
       THEN /\ core_run' = [core_run EXCEPT ![scan] = 1]
            /\ active' = [active EXCEPT ![scan] = TRUE]
            /\ totalActive' = totalActive + 1
       ELSE UNCHANGED <<core_run, active, totalActive>>
  /\ scan' = scan + 1
  /\ UNCHANGED <<core_busy, core_command, data, coreVars, hostPc, pb, served>>

StartWatch ==
  /\ hostPc = "start"
  /\ scan = TotalCores
  /\ BootBeforeWatch => \A c \in Intent : pc[c] # "boot"
  /\ pb' = [c \in CoreIds |-> 1]
  /\ hostPc' = "round"
  /\ UNCHANGED <<shared, coreVars, scan, active, totalActive, served>>

(* while (totalActive > 0): a new round, or the end.                       *)
Round ==
  /\ hostPc = "round"
  /\ IF totalActive > 0 THEN hostPc' = "look" /\ scan' = 0
                        ELSE hostPc' = "done" /\ UNCHANGED scan
  /\ UNCHANGED <<shared, coreVars, active, totalActive, pb, served>>

NextCore == IF scan + 1 < TotalCores
              THEN hostPc' = "look" /\ scan' = scan + 1
              ELSE hostPc' = "round" /\ UNCHANGED scan

\* Mutant of Look: core_busy is not looked at.
LookAtAny ==
  /\ hostPc = "look"
  /\ IF active[scan] THEN hostPc' = "check" /\ UNCHANGED scan ELSE NextCore
  /\ UNCHANGED <<shared, coreVars, active, totalActive, pb, served>>

(* It loads core_busy of the next core that is active ...                  *)
Look ==
  /\ hostPc = "look"
  /\ IF active[scan] /\ core_busy[scan] = 0
       THEN hostPc' = "check" /\ UNCHANGED scan
       ELSE NextCore
  /\ UNCHANGED <<shared, coreVars, active, totalActive, pb, served>>

(* ... and, if that was 0, core_run and core_command.                      *)
\* Mutants of Deactivate: the core is counted out in every round, or never.
DeactivateAgain ==
  /\ hostPc = "check"
  /\ core_run[scan] = 0
  /\ totalActive' = totalActive - 1
  /\ NextCore
  /\ UNCHANGED <<shared, coreVars, active, pb, served>>

DeactivateUncounted ==
  /\ hostPc = "check"
  /\ core_run[scan] = 0
  /\ active' = [active EXCEPT ![scan] = FALSE]
  /\ NextCore
  /\ UNCHANGED <<shared, coreVars, totalActive, pb, served>>

Deactivate ==
  /\ hostPc = "check"
  /\ core_run[scan] = 0
  /\ active' = [active EXCEPT ![scan] = FALSE]
  /\ totalActive' = totalActive - 1
  /\ NextCore
  /\ UNCHANGED <<shared, coreVars, pb, served>>

NoCommand ==
  /\ hostPc = "check"
  /\ core_run[scan] # 0
  /\ core_command[scan] \notin Commands
  /\ NextCore
  /\ UNCHANGED <<shared, coreVars, active, totalActive, pb, served>>

\* Mutant of Serve: core_command is not reset.
ServeAndKeep ==
  /\ hostPc = "check"
  /\ core_run[scan] # 0
  /\ core_command[scan] \in Commands
  /\ data' = [data EXCEPT ![scan] = Answer(data[scan].call)]
  /\ served' = [served EXCEPT ![scan] = @ + 1]
  /\ hostPc' = "answer"
  /\ UNCHANGED <<core_run, core_busy, core_command, coreVars, scan, active,
                 totalActive, pb>>

Serve ==
  /\ hostPc = "check"
  /\ core_run[scan] # 0
  /\ core_command[scan] \in Commands
  /\ IF core_command[scan] \in {"input", "concatenate", "maths"}
       THEN data' = [data EXCEPT ![scan] = Answer(data[scan].call)]
       ELSE UNCHANGED data
  /\ core_command' = [core_command EXCEPT ![scan] = None]
  /\ served' = [served EXCEPT ![scan] = @ + 1]
  /\ hostPc' = "answer"
  /\ UNCHANGED <<core_run, core_busy, coreVars, scan, active, totalActive, pb>>

\* Mutant of GiveBack: pb++ for ++pb.
GiveBackOld ==
  /\ hostPc = "answer"
  /\ pb' = [pb EXCEPT ![scan] = (@ + 1) % (BusyMax + 1)]
  /\ core_busy' = [core_busy EXCEPT ![scan] = pb[scan]]
  /\ NextCore
  /\ UNCHANGED <<core_run, core_command, data, coreVars, active, totalActive, served>>

GiveBack ==
  /\ hostPc = "answer"
  /\ pb' = [pb EXCEPT ![scan] = (@ + 1) % (BusyMax + 1)]
  /\ core_busy' = [core_busy EXCEPT ![scan] = pb'[scan]]
  /\ NextCore
  /\ UNCHANGED <<core_run, core_command, data, coreVars, active, totalActive, served>>

HostStep == StartCore \/ StartWatch \/ Round \/ Look \/ Deactivate \/ NoCommand
              \/ Serve \/ GiveBack

(* The host has left its loop and every core it started has ended.         *)
AllEnded == hostPc = "done" /\ \A c \in Intent : pc[c] = "ended"
Finished == AllEnded /\ UNCHANGED vars

Next == HostStep \/ (\E c \in CoreIds : CoreStep(c)) \/ Finished

Spec == Init /\ [][Next]_vars

(* Each core is a processor of its own and the host thread is scheduled;   *)
(* input arrives in the end.  A program is free to go on or to end.        *)
FairSpec ==
  /\ Spec
  /\ WF_vars(HostStep)
  /\ \A c \in CoreIds : WF_vars(CoreStep(c))

-------------------------------------------------------------------------------
Message == [is : {"request", "answer"}, call : Nat]

TypeOK ==
  /\ core_run \in [CoreIds -> {0, 1}]
  /\ core_busy \in [CoreIds -> 0..BusyMax]
  /\ core_command \in [CoreIds -> Commands \cup {None}]
  /\ data \in [CoreIds -> Message]
  /\ pc \in [CoreIds -> {"boot", "running", "fill", "command", "remember",
                         "release", "wait", "ending", "ended"}]
  /\ wanted \in [CoreIds -> Commands \cup {None}]
  /\ before \in [CoreIds -> 0..BusyMax]
  /\ calls \in [CoreIds -> 0..MaxCalls]
  /\ returned \in [CoreIds -> Nat]
  /\ result \in [CoreIds -> Message]
  /\ hostPc \in {"start", "round", "look", "check", "answer", "done"}
  /\ scan \in 0..TotalCores
  /\ hostPc \in {"look", "check", "answer"} => scan < TotalCores
  /\ active \in [CoreIds -> BOOLEAN]
  /\ totalActive \in Int
  /\ pb \in [CoreIds -> 0..BusyMax]
  /\ served \in [CoreIds -> Nat]

(* Every command is executed once: none twice, none that was not issued,   *)
(* and no call returns before its command was executed (the increments of  *)
(* pb and the comparison of the spin, device-support.c:178,                *)
(* device-functions.c:198).                                                *)
ServedOnce ==
  \A c \in CoreIds : /\ returned[c] <= served[c]
                     /\ served[c] <= calls[c]
                     /\ calls[c] <= returned[c] + 1

(* A call that asks for an answer returns the answer to what IT asked: the *)
(* data area is not overwritten under it, and an older answer is never     *)
(* taken for the new one.                                                  *)
OwnAnswer ==
  \A c \in CoreIds :
    calls[c] > 0 /\ calls[c] = returned[c]
      => /\ result[c].call = calls[c]
         /\ wanted[c] \in {"input", "concatenate", "maths"} => result[c].is = "answer"

(* While the host executes a command of a core and writes to its mailbox,  *)
(* that core does nothing but wait for this command.                       *)
HostOwnsMailbox ==
  hostPc = "answer" => pc[scan] = "wait" /\ core_busy[scan] = 0

(* The host does not stop watching before every core has ended: nobody     *)
(* else would answer a core that still runs (device-support.c:143-149).    *)
NobodyAbandoned == hostPc = "done" => \A c \in Intent : pc[c] = "ended"

(* "The host acts as a monitor, responding to core communications for host *)
(* actions" (device-support.c:138): every call returns, and no core can    *)
(* keep the host from the others.                                          *)
EveryCallReturns == \A c \in CoreIds : pc[c] = "wait" ~> pc[c] = "running"

(* If every program is finite, the whole run ends.                         *)
RunEnds == <>AllEnded

-------------------------------------------------------------------------------
(* Why it works: an inductive invariant.  The words of the mailbox are a   *)
(* function of how far the call has come.                                  *)
Answering(c) == hostPc = "answer" /\ scan = c
InCall(c) == pc[c] \in {"fill", "command", "remember", "release", "wait"}
Replied(c) == pc[c] = "wait" /\ (core_busy[c] # 0 \/ Answering(c))

CallInv(c) ==
  /\ calls[c] = IF InCall(c) THEN returned[c] + 1 ELSE returned[c]
  /\ served[c] = IF Replied(c) THEN returned[c] + 1 ELSE returned[c]
  /\ calls[c] > 0 => wanted[c] \in Commands
  /\ pc[c] = "boot" => returned[c] = 0
  /\ hostPc = "start" => served[c] = 0

(* core_busy is 0 while the host may act, and otherwise one more than the  *)
(* number of calls that were given back.                                   *)
BusyInv(c) ==
  /\ pc[c] \in {"boot", "ending", "ended"} => core_busy[c] = 0
  /\ pc[c] \in {"running", "fill", "command", "remember", "release"}
       => core_busy[c] = returned[c] + 1
  /\ pc[c] \in {"release", "wait"} => before[c] = returned[c] + 1
  /\ pc[c] = "wait" => core_busy[c] \in {0, returned[c] + 2}
  /\ Answering(c) => pc[c] = "wait" /\ core_busy[c] = 0
  /\ hostPc # "start" => pb[c] = IF Answering(c) THEN served[c] ELSE served[c] + 1

CommandInv(c) ==
  core_command[c] = IF \/ pc[c] \in {"remember", "release"}
                       \/ pc[c] = "fill" /\ wanted[c] = "error"
                       \/ pc[c] = "wait" /\ ~Replied(c)
                      THEN wanted[c] ELSE None

DataInv(c) ==
  /\ \/ pc[c] \in {"remember", "release", "wait"}
     \/ pc[c] = "command" /\ wanted[c] # "error"
     => data[c].call = calls[c]
  /\ Replied(c) /\ wanted[c] \in {"input", "concatenate", "maths"}
     => data[c].is = "answer"
  /\ calls[c] > 0 /\ ~InCall(c)
     => /\ result[c].call = calls[c]
        /\ wanted[c] \in {"input", "concatenate", "maths"} => result[c].is = "answer"

(* A core is watched from its start until the host has seen its end.       *)
WatchInv(c) ==
  /\ active[c] => c \in Intent
  /\ pc[c] \notin {"boot", "ended"} => core_run[c] = 1
  /\ c \notin Intent => pc[c] = "boot" /\ core_run[c] = 0
  /\ hostPc = "start" => active[c] = (c \in Intent /\ c < scan)
  /\ hostPc # "start" /\ c \in Intent => pc[c] # "boot" /\ (active[c] \/ pc[c] = "ended")
  /\ hostPc = "check" /\ scan = c
     => active[c] /\ core_busy[c] = 0 /\ pc[c] \in {"wait", "ending", "ended"}

CountInv ==
  /\ totalActive = Cardinality({c \in CoreIds : active[c]})
  /\ hostPc = "done" => totalActive = 0

CoreInv(c) ==
  CallInv(c) /\ BusyInv(c) /\ CommandInv(c) /\ DataInv(c) /\ WatchInv(c)

IndInv ==
  /\ TypeOK
  /\ CountInv
  /\ \A c \in CoreIds : CoreInv(c)
===============================================================================
