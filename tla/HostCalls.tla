------------------------------- MODULE HostCalls -------------------------------
(***************************************************************************)
(* Messages between physical cores and virtual ones, the threads of the    *)
(* host.  They go through the mailbox of CoreControl: commands 5, 6 and 7  *)
(* are a send, a receive and a sendrecv of the core.  The monitor leaves   *)
(* them alone; the thread that is the partner polls core_command, looks    *)
(* for its own number in the data area, and answers as the monitor would,  *)
(* by core_busy = ++pb (host-functions.c, sendRecvDataWithDeviceCore,      *)
(* sendDataToDeviceCore, recvDataFromDeviceCore).                          *)
(*                                                                         *)
(* So two or more threads of the host now act on one mailbox.  The core    *)
(* makes its calls from a list; so does each thread, and the two match.    *)
(***************************************************************************)
EXTENDS CoreControl, Sequences

CONSTANTS
  Threads,   \* the virtual cores
  Programs,  \* the lists of calls to run
  LastBytes  \* the last of the four bytes of the values the threads send

HostCommands == {"send", "recv", "sendrecv"}
Items ==
  [core : Intent, call : HostCommands, thread : Threads]
    \cup [core : Intent, call : Commands \ {"error"}, thread : {None}]

ASSUME ThreadsAssumption == None \notin Threads
ASSUME ProgramsAssumption == Programs \subseteq Seq(Items)

VARIABLES
  list,         \* the list this behaviour runs
  address,      \* [c]: data[0..3]: the call whose partner it names, 0 if none
  back,         \* [c]: data[11..15], where a sendrecv of c gets its message
  declared,     \* [c]: core_ctrl[c].active, the byte after data[14]
  coreDoing,    \* [c]: the item c works on, or the last one it did
  threadPc,     \* [t]: where thread t is
  threadDoing,  \* [t]: its item
  got,          \* [t]: the call of the core whose message t received last
  (* Two histories, read by no guard.                                      *)
  seen,         \* [t]: the call whose command t has seen and looks into
  overtaken     \* TRUE once a thread took the address of a later call for
                \* that of the call whose command it saw

transferVars == <<address, back, declared, coreDoing>>
looks == <<seen, overtaken>>
threadVars == <<threadPc, threadDoing, got, looks>>
callVars == <<list, transferVars, threadVars>>
allVars == <<vars, callVars>>

CallsInit ==
  /\ Init
  /\ list \in Programs
  /\ address = [c \in CoreIds |-> 0]
  /\ back = [c \in CoreIds |-> Asked(0)]
  /\ declared = [c \in CoreIds |-> c \in Intent]
  /\ coreDoing = [c \in CoreIds |-> 0]
  /\ threadPc = [t \in Threads |-> "idle"]
  /\ threadDoing = [t \in Threads |-> 0]
  /\ got = [t \in Threads |-> 0]
  /\ seen = [t \in Threads |-> 0]
  /\ overtaken = FALSE

\* The items of c, and of t, that come after item i of the list.
CoreItems(c, i) == {j \in i+1..Len(list) : list[j].core = c}
ThreadItems(t, i) == {j \in i+1..Len(list) : list[j].thread = t}
Earliest(i, items) == i \in items /\ \A j \in items : i <= j
\* The number its core gives to the call of item i.
NumberOf(i) == Cardinality({j \in 1..i : list[j].core = list[i].core})

-------------------------------------------------------------------------------
(* The core.                                                               *)
BeginTransfer(c, i) ==
  /\ pc[c] = "running"
  /\ calls[c] < MaxCalls
  /\ calls' = [calls EXCEPT ![c] = @ + 1]
  /\ wanted' = [wanted EXCEPT ![c] = list[i].call]
  /\ Goto(c, "address")
  /\ UNCHANGED <<shared, before, returned, result, hostVars>>

NextCall(c) ==
  /\ \E i \in DOMAIN list :
       /\ Earliest(i, CoreItems(c, coreDoing[c]))
       /\ IF list[i].call \in HostCommands
            THEN BeginTransfer(c, i)
            ELSE Begin(c, list[i].call)
       /\ coreDoing' = [coreDoing EXCEPT ![c] = i]
  /\ UNCHANGED <<list, address, back, declared, threadVars>>

\* Mutant of Address: the number of the next call.
AddressOffByOne(c) ==
  /\ pc[c] = "address"
  /\ address' = [address EXCEPT ![c] = calls[c] + 1]
  /\ Goto(c, IF wanted[c] = "recv" THEN "host_remember" ELSE "payload")
  /\ UNCHANGED <<shared, wanted, before, calls, returned, result,
                 hostVars, list, back, declared, coreDoing, threadVars>>

Address(c) ==
  /\ pc[c] = "address"
  /\ address' = [address EXCEPT ![c] = calls[c]]
  /\ Goto(c, IF wanted[c] = "recv" THEN "host_remember" ELSE "payload")
  /\ UNCHANGED <<shared, wanted, before, calls, returned, result,
                 hostVars, list, back, declared, coreDoing, threadVars>>

Payload(c) ==
  /\ pc[c] = "payload"
  /\ data' = [data EXCEPT ![c] = Asked(calls[c])]
  /\ Goto(c, "host_remember")
  /\ UNCHANGED <<core_run, core_busy, core_command, wanted, before, calls, returned,
                 result, hostVars, callVars>>

(* The copy of core_busy is taken first here, the command stored next, and *)
(* core_busy cleared last.                                                 *)
HostRemember(c) ==
  /\ pc[c] = "host_remember"
  /\ before' = [before EXCEPT ![c] = core_busy[c]]
  /\ Goto(c, "host_command")
  /\ UNCHANGED <<shared, wanted, calls, returned, result, hostVars, callVars>>

HostCommand(c) ==
  /\ pc[c] = "host_command"
  /\ core_command' = [core_command EXCEPT ![c] = wanted[c]]
  /\ Goto(c, "release")
  /\ UNCHANGED <<core_run, core_busy, data, wanted, before, calls, returned, result,
                 hostVars, callVars>>

\* Mutant of TransferReturn: sendrecv looks where recv does.
TransferReturnData(c) == Return(c) /\ UNCHANGED callVars

(* The spin ends; sendrecv finds its message in another place than recv.   *)
TransferReturn(c) ==
  /\ pc[c] = "wait"
  /\ IF wanted[c] = "sendrecv"
       THEN /\ SpinEnds(c)
            /\ result' = [result EXCEPT ![c] = back[c]]
            /\ returned' = [returned EXCEPT ![c] = @ + 1]
            /\ Goto(c, "running")
            /\ UNCHANGED <<shared, wanted, before, calls, hostVars>>
       ELSE Return(c)
  /\ UNCHANGED callVars

(* A call to the monitor uses the same bytes.                              *)
MonitorFill(c) ==
  /\ Fill(c)
  /\ address' = [address EXCEPT ![c] = 0]
  /\ UNCHANGED <<list, back, declared, coreDoing, threadVars>>

EndProgram(c) ==
  /\ CoreItems(c, coreDoing[c]) = {}
  /\ End(c)
  /\ UNCHANGED callVars

CallsCoreStep(c) ==
  \/ NextCall(c) \/ Address(c) \/ Payload(c) \/ HostRemember(c) \/ HostCommand(c)
  \/ MonitorFill(c) \/ TransferReturn(c) \/ EndProgram(c)
  \/ (Boot(c) \/ Command(c) \/ Remember(c) \/ Release(c) \/ Ended(c)) /\ UNCHANGED callVars

-------------------------------------------------------------------------------
(* A thread.                                                               *)
ThreadGoto(t, label) == threadPc' = [threadPc EXCEPT ![t] = label]

ThreadCall(t) ==
  /\ threadPc[t] = "idle"
  /\ hostPc # "start"
  /\ \E i \in DOMAIN list :
       /\ Earliest(i, ThreadItems(t, threadDoing[t]))
       /\ threadDoing' = [threadDoing EXCEPT ![t] = i]
  /\ ThreadGoto(t, "poll")
  /\ UNCHANGED <<vars, list, transferVars, got, looks>>

(* It polls the command only, never core_busy.                             *)
SeeCommand(t) ==
  LET item == list[threadDoing[t]] IN
  /\ threadPc[t] = "poll"
  /\ core_command[item.core] = item.call
  /\ seen' = [seen EXCEPT ![t] = calls[item.core]]
  /\ ThreadGoto(t, "check")
  /\ UNCHANGED <<vars, list, transferVars, threadDoing, got, overtaken>>

Names(c, t) == \E i \in DOMAIN list : /\ list[i].core = c /\ list[i].thread = t
                                      /\ NumberOf(i) = address[c]

\* Mutant of Check: the address is not looked at.
CheckNothing(t) ==
  LET c == list[threadDoing[t]].core IN
  /\ threadPc[t] = "check"
  /\ ThreadGoto(t, "serve")
  /\ overtaken' = (overtaken \/ (Names(c, t) /\ calls[c] # seen[t]))
  /\ seen' = [seen EXCEPT ![t] = 0]
  /\ UNCHANGED <<vars, list, transferVars, threadDoing, got>>

(* Is the call for this thread?  The core may have gone on since.          *)
Check(t) ==
  LET c == list[threadDoing[t]].core IN
  /\ threadPc[t] = "check"
  /\ ThreadGoto(t, IF Names(c, t) THEN "serve" ELSE "poll")
  /\ overtaken' = (overtaken \/ (Names(c, t) /\ calls[c] # seen[t]))
  /\ seen' = [seen EXCEPT ![t] = 0]
  /\ UNCHANGED <<vars, list, transferVars, threadDoing, got>>

(* The message is taken from the data area, or put there.  A thread that   *)
(* does both puts now, and takes after it has answered.  The four bytes it *)
(* puts at data[12] end in the flag "active".                              *)
ThreadServe(t) ==
  LET item == list[threadDoing[t]]
      message == Answer(NumberOf(threadDoing[t])) IN
  /\ threadPc[t] = "serve"
  /\ got' = IF item.call = "send" THEN [got EXCEPT ![t] = data[item.core].call] ELSE got
  /\ data' = IF item.call = "recv" THEN [data EXCEPT ![item.core] = message] ELSE data
  /\ back' = IF item.call = "sendrecv" THEN [back EXCEPT ![item.core] = message] ELSE back
  /\ IF item.call = "sendrecv"
       THEN \E lastByte \in LastBytes :
              declared' = [declared EXCEPT ![item.core] = lastByte # 0]
       ELSE UNCHANGED declared
  /\ ThreadGoto(t, "answer")
  /\ UNCHANGED <<core_run, core_busy, core_command, coreVars, hostVars, list, address,
                 coreDoing, threadDoing, looks>>

\* Mutants of ThreadAnswer: the command is not reset; pb++ for ++pb.
ThreadAnswerKeeps(t) ==
  LET c == list[threadDoing[t]].core IN
  /\ threadPc[t] = "answer"
  /\ pb' = [pb EXCEPT ![c] = (@ + 1) % (BusyMax + 1)]
  /\ core_busy' = [core_busy EXCEPT ![c] = pb'[c]]
  /\ served' = [served EXCEPT ![c] = @ + 1]
  /\ ThreadGoto(t, IF list[threadDoing[t]].call = "sendrecv" THEN "take" ELSE "idle")
  /\ UNCHANGED <<core_run, core_command, data, coreVars, hostPc, scan, active,
                 totalActive, list, transferVars, threadDoing, got, looks>>

ThreadAnswerOld(t) ==
  LET c == list[threadDoing[t]].core IN
  /\ threadPc[t] = "answer"
  /\ core_command' = [core_command EXCEPT ![c] = None]
  /\ pb' = [pb EXCEPT ![c] = (@ + 1) % (BusyMax + 1)]
  /\ core_busy' = [core_busy EXCEPT ![c] = pb[c]]
  /\ served' = [served EXCEPT ![c] = @ + 1]
  /\ ThreadGoto(t, IF list[threadDoing[t]].call = "sendrecv" THEN "take" ELSE "idle")
  /\ UNCHANGED <<core_run, data, coreVars, hostPc, scan, active, totalActive, list,
                 transferVars, threadDoing, got, looks>>

ThreadAnswer(t) ==
  LET c == list[threadDoing[t]].core IN
  /\ threadPc[t] = "answer"
  /\ core_command' = [core_command EXCEPT ![c] = None]
  /\ pb' = [pb EXCEPT ![c] = (@ + 1) % (BusyMax + 1)]
  /\ core_busy' = [core_busy EXCEPT ![c] = pb'[c]]
  /\ served' = [served EXCEPT ![c] = @ + 1]
  /\ ThreadGoto(t, IF list[threadDoing[t]].call = "sendrecv" THEN "take" ELSE "idle")
  /\ UNCHANGED <<core_run, data, coreVars, hostPc, scan, active, totalActive, list,
                 transferVars, threadDoing, got, looks>>

LateTake(t) ==
  /\ threadPc[t] = "take"
  /\ got' = [got EXCEPT ![t] = data[list[threadDoing[t]].core].call]
  /\ ThreadGoto(t, "idle")
  /\ UNCHANGED <<vars, list, transferVars, threadDoing, looks>>

ThreadStep(t) == ThreadCall(t) \/ SeeCommand(t) \/ Check(t) \/ ThreadServe(t)
                   \/ ThreadAnswer(t) \/ LateTake(t)

-------------------------------------------------------------------------------
ThreadDone(t) == threadPc[t] = "idle" /\ ThreadItems(t, threadDoing[t]) = {}
AllDone == AllEnded /\ \A t \in Threads : ThreadDone(t)
AllFinished == AllDone /\ UNCHANGED allVars

CallsNext ==
  \/ HostStep /\ UNCHANGED callVars
  \/ \E c \in CoreIds : CallsCoreStep(c)
  \/ \E t \in Threads : ThreadStep(t)
  \/ AllFinished

(* Cores run on their own, threads of the host are scheduled.              *)
CallsSpec ==
  /\ CallsInit /\ [][CallsNext]_allVars
  /\ WF_allVars(HostStep /\ UNCHANGED callVars)
  /\ \A c \in CoreIds : WF_allVars(CallsCoreStep(c))
  /\ \A t \in Threads : WF_allVars(ThreadStep(t))

-------------------------------------------------------------------------------
CallsTypeOK ==
  /\ core_run \in [CoreIds -> {0, 1}]
  /\ core_busy \in [CoreIds -> 0..BusyMax]
  /\ core_command \in [CoreIds -> Commands \cup HostCommands \cup {None}]
  /\ data \in [CoreIds -> Message] /\ back \in [CoreIds -> Message]
  /\ address \in [CoreIds -> 0..MaxCalls]
  /\ pc \in [CoreIds -> {"boot", "running", "fill", "command", "remember", "release",
                         "wait", "ending", "ended", "address", "payload",
                         "host_remember", "host_command"}]
  /\ declared \in [CoreIds -> BOOLEAN]
  /\ coreDoing \in [CoreIds -> 0..Len(list)]
  /\ threadPc \in [Threads -> {"idle", "poll", "check", "serve", "answer", "take"}]
  /\ threadDoing \in [Threads -> 0..Len(list)]
  /\ got \in [Threads -> Nat]
  /\ seen \in [Threads -> 0..MaxCalls]
  /\ overtaken \in BOOLEAN

(* A core stores the address of a call while a thread may still look at    *)
(* the command of the call before it (host-functions.c:756-764).  If both  *)
(* calls are of the kind the thread waits for, the first for another       *)
(* thread, it takes the second as issued before its message, its command   *)
(* and its core_busy are stored.  What follows is claimed of runs in which *)
(* that has not happened; it cannot happen when for each kind of call a    *)
(* core has one partner.                                                   *)
OnePartner(p) ==
  \A i, j \in DOMAIN p :
    p[i].core = p[j].core /\ p[i].call = p[j].call => p[i].thread = p[j].thread
OnePartnerIsSafe == OnePartner(list) => ~overtaken

(* A thread that received from a core got the message the core meant for   *)
(* it, the one of the matching call: with several threads polling the same *)
(* mailbox none takes what is meant for another, also when the answer      *)
(* comes before the core waits for it.                                     *)
ThreadGetsItsMessage ==
  \A t \in Threads :
    ~overtaken /\ threadPc[t] = "idle" /\ threadDoing[t] # 0 /\ list[threadDoing[t]].call = "send"
      => got[t] = NumberOf(threadDoing[t])

(* The same for a core that receives from a thread.                        *)
CoreGetsItsMessage ==
  \A c \in Intent :
    /\ ~overtaken /\ pc[c] = "running" /\ coreDoing[c] # 0
    /\ list[coreDoing[c]].call \in {"recv", "sendrecv"}
    => result[c] = Answer(calls[c])

(* A call is answered once, by the monitor or by one thread, also when a   *)
(* late look of the monitor makes it answer before the core waits: the     *)
(* counters that the two kinds of threads share stay in step with the      *)
(* core.                                                                   *)
AnsweredOnce ==
  \A c \in Intent : ~overtaken =>
    /\ returned[c] <= served[c] /\ served[c] <= calls[c]
    /\ hostPc # "start" /\ pc[c] = "running" => pb[c] = core_busy[c]

(* The flag says which cores the host started and which run: the other     *)
(* cores refuse to send to a core that is not active, and the barrier      *)
(* leaves it out.  "Starts up applicable cores and tracks which were       *)
(* initially active" (device-support.c:295).                               *)
RunningCoreIsActive == \A c \in Intent : pc[c] = "running" => declared[c]

(* The code can lose an answer: the command is stored before core_busy is  *)
(* cleared (device-functions.c:615-616), so a thread may answer in         *)
(* between, or the monitor that loaded core_busy when it was still 0.  The *)
(* core clears the answer, and nobody gives another.                       *)
AnswerLost(c) == /\ pc[c] = "wait" /\ core_busy[c] = 0 /\ core_command[c] = None
                 /\ ~(hostPc = "answer" /\ scan = c)

(* "Sends data to some other core and blocks on this being received"       *)
(* (device-functions.c:599), and no longer: when the calls of the cores    *)
(* and of the threads match, all of them return and the run ends, unless   *)
(* an answer is lost or a look overtaken.                                  *)
MatchedCallsReturn == <>(AllDone \/ overtaken \/ \E c \in Intent : AnswerLost(c))

(* What brings the monitor, a core or a thread on: a round in which the    *)
(* monitor finds nothing to do and a look at a command that is for another *)
(* thread do not.                                                          *)
MonitorGoesOn ==
  \/ hostPc = "start" /\ (scan < TotalCores \/ \A c \in Intent : pc[c] # "boot")
  \/ hostPc = "answer"
  \/ /\ hostPc \in {"round", "look", "check"}
     /\ \/ totalActive = 0
        \/ \E c \in CoreIds : /\ active[c] /\ core_busy[c] = 0
                              /\ core_run[c] = 0 \/ core_command[c] \in Commands

CoreGoesOn(c) ==
  \/ pc[c] = "boot" /\ core_run[c] = 1
  \/ pc[c] = "running" /\ (CoreItems(c, coreDoing[c]) = {} \/ calls[c] < MaxCalls)
  \/ pc[c] = "wait" /\ SpinEnds(c)
  \/ pc[c] \notin {"boot", "running", "wait", "ended"}

ThreadGoesOn(t) ==
  LET item == list[threadDoing[t]] IN
  \/ threadPc[t] = "idle" /\ hostPc # "start" /\ ThreadItems(t, threadDoing[t]) # {}
  \/ /\ threadPc[t] = "poll"
     /\ core_command[item.core] = item.call /\ Names(item.core, t)
  \/ threadPc[t] = "check" /\ Names(item.core, t)
  \/ threadPc[t] \in {"serve", "answer", "take"}

(* The core is at item i of the list, or its thread is.                    *)
Open(i) == LET item == list[i] IN
  \/ i \in CoreItems(item.core, coreDoing[item.core])
  \/ coreDoing[item.core] = i /\ pc[item.core] \notin {"running", "ending", "ended"}
  \/ item.thread # None /\ i \in ThreadItems(item.thread, threadDoing[item.thread])

(* No circle of cores and threads waits for each other: while nobody goes  *)
(* on, all are done, or the first call that has not returned is held up by *)
(* a lost answer and not by a call behind it, however the calls of a core  *)
(* to several threads and to the monitor and the calls of a thread to      *)
(* several cores are mixed.  A command that is left unseen, or an answer   *)
(* its core does not take for one, would break it.                         *)
SomebodyGoesOn ==
  \/ overtaken \/ AllDone \/ MonitorGoesOn
  \/ \E c \in CoreIds : CoreGoesOn(c)
  \/ \E t \in Threads : ThreadGoesOn(t)
  \/ \E i \in DOMAIN list : /\ \A j \in 1..i-1 : ~Open(j)
                           /\ coreDoing[list[i].core] = i /\ AnswerLost(list[i].core)
===============================================================================
