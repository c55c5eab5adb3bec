--------------------------- MODULE HostCalls_proofs ----------------------------
(***************************************************************************)
(* Proofs about HostCalls, for any number of cores and of threads, any     *)
(* lists of calls and any interleaving, when no core is looked at before   *)
(* it has started (BootBeforeWatch) and the counter of the host does not   *)
(* wrap (MaxCalls < BusyMax): as long as no look was overtaken, every      *)
(* message goes to the one it is meant for, every call is answered once,   *)
(* and nobody waits in a circle, but perhaps for an answer that is lost;   *)
(* and no look is overtaken when a core has one partner for each kind of   *)
(* call.                                                                   *)
(*                                                                         *)
(* Why it works: a call is served once (Taken) and only while it is up,    *)
(* which is from its command on, so an early answer finds the data there   *)
(* already.  The number in the address names the call the core is in, so   *)
(* one thread at most goes from "check" to "serve"; and a core and a       *)
(* thread go through the transfers they share in the same order, so what   *)
(* that thread serves is this very transfer (PairInv).  If nobody can go   *)
(* on, the first open item of the list is not held up by another one: its  *)
(* core waits for an answer that was given already.                        *)
(***************************************************************************)
EXTENDS HostCalls, TLAPS, FiniteSetTheorems, WellFoundedInduction

-------------------------------------------------------------------------------
(* The types of what CallsTypeOK leaves out; the item of a thread is one   *)
(* of its own.                                                             *)
RestTypeOK ==
  /\ list \in Seq(Items)
  /\ wanted \in [CoreIds -> Commands \cup HostCommands \cup {None}]
  /\ before \in [CoreIds -> 0..BusyMax] /\ pb \in [CoreIds -> 0..BusyMax]
  /\ calls \in [CoreIds -> 0..MaxCalls]
  /\ returned \in [CoreIds -> Nat] /\ served \in [CoreIds -> Nat]
  /\ result \in [CoreIds -> Message]
  /\ hostPc \in {"start", "round", "look", "check", "answer", "done"}
  /\ scan \in 0..TotalCores
  /\ hostPc \in {"look", "check", "answer"} => scan < TotalCores
  /\ active \in [CoreIds -> BOOLEAN]

ThreadPlace(t) ==
  /\ threadPc[t] # "idle" => threadDoing[t] # 0
  /\ threadDoing[t] # 0 => list[threadDoing[t]].thread = t

TypeInv == CallsTypeOK /\ RestTypeOK /\ \A t \in Threads : ThreadPlace(t)

(* The monitor watches a core from its start to its end and counts the     *)
(* cores it watches, and a core does not end before its list does.         *)
Watching == {c \in CoreIds : active[c]}

RunInv(c) ==
  /\ active[c] => c \in Intent
  /\ c \notin Intent => pc[c] = "boot" /\ core_run[c] = 0
  /\ hostPc = "start" =>
       /\ active[c] = (c \in Intent /\ c < scan)
       /\ ~active[c] => pc[c] = "boot"
       /\ pc[c] = "boot" => core_run[c] = IF active[c] THEN 1 ELSE 0
  /\ hostPc # "start" /\ c \in Intent => pc[c] # "boot" /\ (active[c] \/ pc[c] = "ended")
  /\ hostPc = "check" /\ scan = c => active[c]
  /\ pc[c] \notin {"boot", "ended"} => core_run[c] = 1
  /\ pc[c] = "ended" => core_run[c] = 0
  /\ pc[c] \in {"ending", "ended"} => CoreItems(c, coreDoing[c]) = {}

CountOfRuns ==
  /\ totalActive = Cardinality(Watching)
  /\ hostPc = "done" => totalActive = 0

RunsInv == TypeInv /\ CountOfRuns /\ \A c \in CoreIds : RunInv(c)

(* A call that has begun; one whose command is stored; one that was served. *)
UnderWay(c) == pc[c] \in {"fill", "command", "remember", "release", "wait",
                          "address", "payload", "host_remember", "host_command"}
Up(c) == pc[c] \in {"release", "wait"}
Taken(c) == served[c] = returned[c] + 1

(* How far the core has come in its list, and the counters of its calls.   *)
CallOf(c) ==
  /\ calls[c] = IF UnderWay(c) THEN returned[c] + 1 ELSE returned[c]
  /\ served[c] \in {returned[c], returned[c] + 1}
  /\ Taken(c) => pc[c] \in {"remember", "release", "wait"}
  /\ coreDoing[c] = 0 => calls[c] = 0 /\ ~UnderWay(c) /\ wanted[c] = None
  /\ coreDoing[c] # 0 => /\ list[coreDoing[c]].core = c
                         /\ list[coreDoing[c]].call = wanted[c]
                         /\ NumberOf(coreDoing[c]) = calls[c]
  /\ pc[c] \in {"address", "payload", "host_remember", "host_command"}
       => wanted[c] \in HostCommands
  /\ pc[c] = "payload" => wanted[c] # "recv"
  /\ pc[c] \in {"fill", "command", "remember"} => wanted[c] \in Commands \ {"error"}
  /\ pc[c] = "boot" => returned[c] = 0 /\ coreDoing[c] = 0
  /\ hostPc = "start" => served[c] = 0

(* core_busy, which an answer may reach before the core clears it, and its *)
(* copy, which may hold that answer.                                       *)
BusyOf(c) ==
  /\ pc[c] \in {"boot", "ending", "ended"} => core_busy[c] = 0
  /\ pc[c] = "running" \/ (UnderWay(c) /\ pc[c] \notin {"remember", "release", "wait"})
       => core_busy[c] = returned[c] + 1
  /\ pc[c] \in {"remember", "release"}
       => core_busy[c] = IF Taken(c) /\ ~Answering(c) THEN returned[c] + 2 ELSE returned[c] + 1
  /\ pc[c] = "host_command" => before[c] = returned[c] + 1
  /\ Up(c) => \/ before[c] = returned[c] + 1
              \/ before[c] = returned[c] + 2 /\ Taken(c) /\ ~Answering(c)
                   /\ (pc[c] = "wait" => core_busy[c] = 0)
  /\ pc[c] = "wait" =>
       core_busy[c] = 0 \/ (core_busy[c] = returned[c] + 2 /\ Taken(c) /\ ~Answering(c))
  /\ Answering(c) => Taken(c) /\ wanted[c] \in Commands
  /\ hostPc # "start" => pb[c] = IF Answering(c) THEN served[c] ELSE served[c] + 1

CommandOf(c) ==
  core_command[c] = IF pc[c] \in {"remember", "release", "wait"} /\ ~Taken(c)
                      THEN wanted[c] ELSE None

(* The address names the call; what the core sends lies next to it, and    *)
(* what it receives is there when the call is taken.                       *)
DataOf(c) ==
  /\ pc[c] \notin {"boot", "fill", "command", "remember", "address"}
       /\ wanted[c] \in HostCommands => address[c] = calls[c]
  /\ pc[c] \in {"host_remember", "host_command", "release", "wait"}
       /\ wanted[c] \in {"send", "sendrecv"} => data[c].call = calls[c]
  /\ Taken(c) =>
       /\ wanted[c] = "recv" => data[c] = Answer(calls[c])
       /\ wanted[c] = "sendrecv" => back[c] = Answer(calls[c])
  /\ ~UnderWay(c) /\ coreDoing[c] # 0 /\ wanted[c] \in {"recv", "sendrecv"}
       => result[c] = Answer(calls[c])

MailboxInv(c) == CallOf(c) /\ BusyOf(c) /\ CommandOf(c) /\ DataOf(c)

(* A thread that acts on a mailbox; under OnePartner a look is an act.     *)
Acts(t) == \/ threadPc[t] \in {"serve", "answer"}
           \/ threadPc[t] = "check" /\ OnePartner(list)

(* A thread that has looked at a mailbox, and one that acts on it.  As     *)
(* long as the core is in the call that was seen, the call is up; and if   *)
(* it is for the thread it is its item.                                    *)
ThreadInv(t) ==
  LET j == threadDoing[t]
      c == list[j].core
  IN  /\ hostPc = "start" => threadPc[t] = "idle"
      /\ threadPc[t] = "check" =>
           /\ seen[t] <= calls[c]
           /\ OnePartner(list) => seen[t] = calls[c]
           /\ seen[t] = calls[c] =>
                /\ UnderWay(c) => Up(c)
                /\ wanted[c] \in HostCommands
                /\ list[coreDoing[c]].thread = t => coreDoing[c] = j
      /\ Acts(t) => Up(c) /\ ~Taken(c) /\ coreDoing[c] = j
      /\ threadPc[t] = "take" => list[j].call = "sendrecv"
      /\ threadPc[t] = "answer" =>
           /\ list[j].call = "recv" => data[c] = Answer(calls[c])
           /\ list[j].call = "sendrecv" => back[c] = Answer(calls[c])
      /\ j # 0 /\ threadPc[t] \in {"answer", "idle"} /\ list[j].call = "send"
           => got[t] = NumberOf(j)

(* Transfer j was answered, as its core and as its thread see it.          *)
Unanswered(c) == UnderWay(c) /\ ~Taken(c)
CorePast(j) ==
  LET c == list[j].core
  IN  j < coreDoing[c] \/ (j = coreDoing[c] /\ ~Unanswered(c))
ThreadPast(j) ==
  LET t == list[j].thread
  IN  j < threadDoing[t] \/ (j = threadDoing[t] /\ threadPc[t] \in {"take", "idle"})

PairInv(j) == list[j].thread \in Threads => (CorePast(j) <=> ThreadPast(j))

CallsInv ==
  /\ RunsInv
  /\ \A c \in CoreIds : MailboxInv(c)
  /\ \A t \in Threads : ThreadInv(t)
  /\ \A j \in DOMAIN list : PairInv(j)

\* The places of a core, and of a thread.
PcLabels == {"boot", "running", "fill", "command", "remember", "release", "wait",
             "ending", "ended", "address", "payload", "host_remember", "host_command"}
ThreadLabels == {"idle", "poll", "check", "serve", "answer", "take"}

-------------------------------------------------------------------------------
(* The numbers of the calls.                                               *)
UpTo(i) == {j \in 1..i : list[j].core = list[i].core}

LEMMA UpToFinite ==
  ASSUME NEW i \in Nat
  PROVE  IsFiniteSet(UpTo(i)) /\ NumberOf(i) \in Nat
<1>1. IsFiniteSet(1..i)
  BY FS_Interval
<1>2. IsFiniteSet(UpTo(i))
  BY <1>1, FS_Subset DEF UpTo
<1> QED BY <1>2, FS_CardinalityType DEF NumberOf, UpTo

(* A later item of the same core has a higher number, the next one the     *)
(* next.                                                                   *)
LEMMA NumberAdds ==
  ASSUME NEW i \in Nat, NEW j \in Nat, i < j, list[i].core = list[j].core, i # 0
  PROVE  /\ NumberOf(i) < NumberOf(j)
         /\ (\A k \in i+1..j-1 : list[k].core # list[j].core)
              => NumberOf(j) = NumberOf(i) + 1
<1>1. /\ IsFiniteSet(UpTo(i)) /\ IsFiniteSet(UpTo(j))
      /\ NumberOf(i) = Cardinality(UpTo(i)) /\ NumberOf(j) = Cardinality(UpTo(j))
      /\ NumberOf(i) \in Nat /\ NumberOf(j) \in Nat
  BY UpToFinite DEF NumberOf, UpTo
<1>2. UpTo(i) \cup {j} \subseteq UpTo(j) /\ j \notin UpTo(i)
  BY DEF UpTo
<1>3. Cardinality(UpTo(i) \cup {j}) = Cardinality(UpTo(i)) + 1
  BY <1>1, <1>2, FS_AddElement
<1>4. Cardinality(UpTo(i) \cup {j}) <= Cardinality(UpTo(j))
  BY <1>1, <1>2, FS_Subset
<1>5. ASSUME \A k \in i+1..j-1 : list[k].core # list[j].core
      PROVE  UpTo(j) = UpTo(i) \cup {j}
  <2>1. ASSUME NEW k \in UpTo(j)
        PROVE  k \in UpTo(i) \cup {j}
    <3>1. k \in 1..j /\ list[k].core = list[j].core
      BY DEF UpTo
    <3>2. k \notin i+1..j-1
      BY <1>5, <3>1
    <3>3. k \in 1..i \/ k = j
      BY <3>1, <3>2
    <3> QED BY <3>1, <3>3 DEF UpTo
  <2> QED BY <1>2, <2>1
<1> QED BY <1>1, <1>3, <1>4, <1>5

LEMMA FirstNumber ==
  ASSUME NEW j \in Nat, j # 0, \A k \in 1..j-1 : list[k].core # list[j].core
  PROVE  NumberOf(j) = 1
<1>1. UpTo(j) = {j}
  <2>1. \A k \in 1..j : k \in 1..j-1 \/ k = j
    OBVIOUS
  <2> QED BY <2>1 DEF UpTo
<1> QED BY <1>1, FS_Singleton DEF NumberOf, UpTo

(* The number of a call leads back to its item.                            *)
LEMMA BackToItem ==
  ASSUME list \in Seq(Items), NEW i \in DOMAIN list, NEW j \in DOMAIN list,
         list[j].core = list[i].core, NumberOf(j) = NumberOf(i)
  PROVE  j = i
<1>1. DOMAIN list = 1..Len(list) /\ Len(list) \in Nat
  OBVIOUS
<1>2. i \in Nat /\ j \in Nat /\ i # 0 /\ j # 0
  BY <1>1
<1>3. NumberOf(i) \in Nat /\ NumberOf(j) \in Nat
  BY <1>2, UpToFinite
<1>4. i < j => NumberOf(i) < NumberOf(j)
  BY <1>2, NumberAdds
<1>5. j < i => NumberOf(j) < NumberOf(i)
  BY <1>2, NumberAdds
<1> QED BY <1>2, <1>3, <1>4, <1>5

(* The item a core turns to has the next number.                           *)
LEMMA NextNumber ==
  ASSUME list \in Seq(Items), NEW c, NEW d \in 0..Len(list), NEW i,
         Earliest(i, CoreItems(c, d)), d # 0 => list[d].core = c
  PROVE  /\ i \in DOMAIN list /\ list[i].core = c /\ i > d
         /\ NumberOf(i) = IF d = 0 THEN 1 ELSE NumberOf(d) + 1
<1>1. /\ Len(list) \in Nat /\ DOMAIN list = 1..Len(list)
      /\ i \in d+1..Len(list) /\ list[i].core = c
      /\ \A j \in d+1..Len(list) : list[j].core = c => i <= j
  BY DEF Earliest, CoreItems
<1>2. \A k \in d+1..i-1 : list[k].core # list[i].core
  BY <1>1
<1>3. CASE d = 0
  BY <1>1, <1>2, <1>3, FirstNumber
<1>4. CASE d # 0
  BY <1>1, <1>2, <1>4, NumberAdds
<1> QED BY <1>1, <1>3, <1>4

LEMMA Values ==
  /\ 0 \in 0..BusyMax /\ 1 \in 0..BusyMax
  /\ Commands \cap HostCommands = {} /\ None \notin Commands \cup HostCommands
  /\ \A n \in Nat : /\ Asked(n) \in Message /\ Answer(n) \in Message
                    /\ Asked(n).call = n /\ Answer(n).call = n
BY BusyAssumption DEF Commands, HostCommands, None, Message, Asked, Answer

LEMMA ItemFacts ==
  ASSUME list \in Seq(Items), NEW j \in DOMAIN list
  PROVE  /\ j \in Nat /\ j # 0 /\ j \in 1..Len(list) /\ Len(list) \in Nat
         /\ list[j].core \in Intent /\ list[j].core \in CoreIds
         /\ \/ list[j].call \in HostCommands /\ list[j].thread \in Threads
            \/ list[j].call \in Commands /\ list[j].thread = None
<1>1. list[j] \in Items /\ DOMAIN list = 1..Len(list) /\ Len(list) \in Nat
  OBVIOUS
<1> QED BY <1>1, IntentAssumption DEF Items

(* The item of a thread that is not idle.                                  *)
LEMMA ThreadItem ==
  ASSUME TypeInv, NEW t \in Threads, threadPc[t] # "idle"
  PROVE  /\ threadDoing[t] \in DOMAIN list /\ threadDoing[t] \in Nat /\ threadDoing[t] # 0
         /\ list[threadDoing[t]].thread = t
         /\ list[threadDoing[t]].call \in HostCommands
         /\ list[threadDoing[t]].core \in CoreIds
         /\ list[threadDoing[t]].core \in Intent
<1>1. /\ list \in Seq(Items) /\ threadDoing[t] \in 0..Len(list) /\ threadDoing[t] # 0
      /\ list[threadDoing[t]].thread = t
  BY DEF TypeInv, RestTypeOK, CallsTypeOK, ThreadPlace
<1>2. threadDoing[t] \in DOMAIN list
  BY <1>1
<1> QED BY <1>1, <1>2, ItemFacts, ThreadsAssumption

(* The list stays as it is.                                                *)
LEMMA ListStays ==
  ASSUME [CallsNext]_allVars
  PROVE  list' = list
BY DEF CallsNext, HostStep, CallsCoreStep, ThreadStep, AllFinished, allVars, callVars,
   NextCall, Address, Payload, HostRemember, HostCommand, MonitorFill, TransferReturn,
   EndProgram, ThreadCall, SeeCommand, Check, ThreadServe, ThreadAnswer, LateTake

LEMMA SameNumbers ==
  ASSUME list' = list
  PROVE  \A i : NumberOf(i)' = NumberOf(i)
BY DEF NumberOf

-------------------------------------------------------------------------------
(* The types, of every step.                                               *)
LEMMA PlacesStay ==
  ASSUME TypeInv, UNCHANGED <<list, threadPc, threadDoing>>
  PROVE  \A t \in Threads : ThreadPlace(t)'
BY DEF TypeInv, ThreadPlace

LEMMA CoreTypes ==
  ASSUME TypeInv, NEW c \in CoreIds, CallsCoreStep(c)
  PROVE  TypeInv'
<1> USE DEF Goto, shared, hostVars, callVars, transferVars, threadVars, looks
<1>1. /\ CallsTypeOK /\ RestTypeOK /\ list \in Seq(Items) /\ Len(list) \in Nat
      /\ calls[c] \in 0..MaxCalls /\ calls[c] \in Nat /\ returned[c] \in Nat
      /\ Asked(calls[c]) \in Message
  <2>1. CallsTypeOK /\ RestTypeOK
    BY DEF TypeInv
  <2>2. calls[c] \in 0..MaxCalls /\ calls[c] \in Nat /\ returned[c] \in Nat
        /\ list \in Seq(Items)
    BY <2>1, CallsAssumption DEF RestTypeOK
  <2> QED BY <2>1, <2>2, Values
<1>2. ASSUME CallsTypeOK', RestTypeOK', UNCHANGED <<list, threadPc, threadDoing>>
      PROVE  TypeInv'
  BY <1>2, PlacesStay DEF TypeInv
<1>3. pc' \in [CoreIds -> PcLabels]
  <2>1. \E label \in PcLabels : pc' = [pc EXCEPT ![c] = label]
    BY DEF CallsCoreStep, NextCall, BeginTransfer, Begin, Address, Payload, HostRemember,
       HostCommand, MonitorFill, Fill, TransferReturn, Return, EndProgram, End, Boot,
       Command, Remember, Release, Ended, PcLabels
  <2>2. pc \in [CoreIds -> PcLabels]
    BY <1>1 DEF CallsTypeOK, PcLabels
  <2> QED BY <2>1, <2>2
<1>4. CASE Boot(c) /\ UNCHANGED callVars
  <2>1. core_busy' \in [CoreIds -> 0..BusyMax]
    BY <1>1, <1>4, BusyAssumption DEF Boot, CallsTypeOK
  <2> QED BY <1>1, <1>2, <1>3, <1>4, <2>1 DEF Boot, CallsTypeOK, RestTypeOK, PcLabels
<1>5. CASE NextCall(c)
  <2>1. PICK i : /\ i \in DOMAIN list
                 /\ IF list[i].call \in HostCommands
                      THEN BeginTransfer(c, i) ELSE Begin(c, list[i].call)
                 /\ coreDoing' = [coreDoing EXCEPT ![c] = i]
    BY <1>5 DEF NextCall
  <2>2. list[i].call \in Commands \cup HostCommands /\ i \in 0..Len(list)
    BY <1>1, <2>1, ItemFacts
  <2>3. /\ calls' = [calls EXCEPT ![c] = calls[c] + 1] /\ calls[c] + 1 \in 0..MaxCalls
        /\ wanted' = [wanted EXCEPT ![c] = list[i].call]
        /\ UNCHANGED <<core_run, core_busy, core_command, data, before, returned, result>>
        /\ UNCHANGED <<hostPc, scan, active, totalActive, pb, served>>
        /\ UNCHANGED <<list, address, back, declared, threadPc, threadDoing, got, seen,
                       overtaken>>
    BY <1>1, <1>5, <2>1, CallsAssumption DEF NextCall, BeginTransfer, Begin
  <2>4. /\ calls' \in [CoreIds -> 0..MaxCalls]
        /\ wanted' \in [CoreIds -> Commands \cup HostCommands \cup {None}]
        /\ coreDoing' \in [CoreIds -> 0..Len(list)]
    BY <1>1, <2>1, <2>2, <2>3 DEF CallsTypeOK, RestTypeOK
  <2> QED BY <1>1, <1>2, <1>3, <2>3, <2>4 DEF CallsTypeOK, RestTypeOK, PcLabels
<1>6. CASE Address(c)
  <2>1. address' \in [CoreIds -> 0..MaxCalls]
    BY <1>1, <1>6 DEF Address, CallsTypeOK
  <2> QED BY <1>1, <1>2, <1>3, <1>6, <2>1 DEF Address, CallsTypeOK, RestTypeOK, PcLabels
<1>7. CASE Payload(c)
  <2>1. data' \in [CoreIds -> Message]
    BY <1>1, <1>7 DEF Payload, CallsTypeOK
  <2> QED BY <1>1, <1>2, <1>3, <1>7, <2>1 DEF Payload, CallsTypeOK, RestTypeOK, PcLabels
<1>8. CASE HostRemember(c) \/ (Remember(c) /\ UNCHANGED callVars)
  <2>1. before' \in [CoreIds -> 0..BusyMax]
    BY <1>1, <1>8 DEF HostRemember, Remember, CallsTypeOK, RestTypeOK
  <2> QED BY <1>1, <1>2, <1>3, <1>8, <2>1 DEF HostRemember, Remember, CallsTypeOK,
             RestTypeOK, PcLabels
<1>9. CASE HostCommand(c) \/ (Command(c) /\ UNCHANGED callVars)
  <2>1. core_command' \in [CoreIds -> Commands \cup HostCommands \cup {None}]
    BY <1>1, <1>9 DEF HostCommand, Command, CallsTypeOK, RestTypeOK
  <2> QED BY <1>1, <1>2, <1>3, <1>9, <2>1 DEF HostCommand, Command, CallsTypeOK,
             RestTypeOK, PcLabels
<1>10. CASE MonitorFill(c)
  <2>1. data' \in [CoreIds -> Message] /\ address' \in [CoreIds -> 0..MaxCalls]
    BY <1>1, <1>10, CallsAssumption DEF MonitorFill, Fill, CallsTypeOK
  <2> QED BY <1>1, <1>2, <1>3, <1>10, <2>1 DEF MonitorFill, Fill, CallsTypeOK,
             RestTypeOK, PcLabels
<1>11. CASE TransferReturn(c)
  <2>1. /\ result' = [result EXCEPT ![c] = IF wanted[c] = "sendrecv" THEN back[c] ELSE data[c]]
        /\ returned' = [returned EXCEPT ![c] = returned[c] + 1]
        /\ UNCHANGED <<core_run, core_busy, core_command, data, wanted, before, calls>>
        /\ UNCHANGED <<hostPc, scan, active, totalActive, pb, served, callVars>>
    BY <1>11 DEF TransferReturn, Return
  <2>2. result' \in [CoreIds -> Message] /\ returned' \in [CoreIds -> Nat]
    BY <1>1, <2>1 DEF CallsTypeOK, RestTypeOK
  <2> QED BY <1>1, <1>2, <1>3, <2>1, <2>2 DEF CallsTypeOK, RestTypeOK, PcLabels
<1>12. CASE EndProgram(c) \/ (Release(c) /\ UNCHANGED callVars)
  <2>1. core_busy' \in [CoreIds -> 0..BusyMax]
    BY <1>1, <1>12, Values DEF EndProgram, End, Release, CallsTypeOK
  <2> QED BY <1>1, <1>2, <1>3, <1>12, <2>1 DEF EndProgram, End, Release, CallsTypeOK,
             RestTypeOK, PcLabels
<1>13. CASE Ended(c) /\ UNCHANGED callVars
  <2>1. core_run' \in [CoreIds -> {0, 1}]
    BY <1>1, <1>13 DEF Ended, CallsTypeOK
  <2> QED BY <1>1, <1>2, <1>3, <1>13, <2>1 DEF Ended, CallsTypeOK, RestTypeOK, PcLabels
<1> QED BY <1>4, <1>5, <1>6, <1>7, <1>8, <1>9, <1>10, <1>11, <1>12, <1>13 DEF CallsCoreStep

LEMMA NextValue ==
  ASSUME NEW n \in 0..BusyMax
  PROVE  (n + 1) % (BusyMax + 1) \in 0..BusyMax
BY BusyAssumption

LEMMA HostTypes ==
  ASSUME TypeInv, HostStep, UNCHANGED callVars
  PROVE  TypeInv'
<1> USE DEF shared, coreVars, hostVars, callVars, transferVars, threadVars, looks, NextCore
<1>1. CallsTypeOK /\ RestTypeOK /\ TotalCores \in Nat /\ TotalCores # 0
  BY TotalAssumption DEF TypeInv
<1>2. ASSUME CallsTypeOK', RestTypeOK', UNCHANGED <<list, threadPc, threadDoing>>
      PROVE  TypeInv'
  BY <1>2, PlacesStay DEF TypeInv
<1>3. hostPc \in {"look", "check", "answer"} \/ (hostPc = "start" /\ scan < TotalCores)
        => scan \in CoreIds
  BY <1>1 DEF RestTypeOK, CoreIds
<1>4. CASE StartCore
  <2>1. core_run' \in [CoreIds -> {0, 1}] /\ active' \in [CoreIds -> BOOLEAN]
    BY <1>1, <1>3, <1>4 DEF StartCore, CallsTypeOK, RestTypeOK
  <2>2. scan' \in 0..TotalCores
    BY <1>1, <1>4 DEF StartCore, RestTypeOK
  <2> QED BY <1>1, <1>2, <1>4, <2>1, <2>2 DEF StartCore, CallsTypeOK, RestTypeOK
<1>5. CASE StartWatch
  <2>1. pb' \in [CoreIds -> 0..BusyMax]
    BY <1>5, Values DEF StartWatch
  <2> QED BY <1>1, <1>2, <1>5, <2>1 DEF StartWatch, CallsTypeOK, RestTypeOK
<1>6. CASE Round \/ Look \/ NoCommand
  BY <1>1, <1>2, <1>6 DEF Round, Look, NoCommand, CallsTypeOK, RestTypeOK
<1>7. CASE Deactivate
  <2>1. active' \in [CoreIds -> BOOLEAN]
    BY <1>1, <1>7 DEF Deactivate, RestTypeOK
  <2>2. /\ hostPc' \in {"look", "round"} /\ scan' \in 0..TotalCores
        /\ hostPc' = "look" => scan' < TotalCores
    BY <1>1, <1>7 DEF Deactivate, RestTypeOK
  <2>3. UNCHANGED <<shared, coreVars, callVars, pb, served>>
    BY <1>7 DEF Deactivate
  <2>4. CallsTypeOK'
    BY <1>1, <2>3 DEF CallsTypeOK
  <2>5. RestTypeOK'
    BY <1>1, <2>1, <2>2, <2>3 DEF RestTypeOK
  <2> QED BY <1>2, <2>3, <2>4, <2>5
<1>8. CASE Serve
  <2>1. scan \in CoreIds /\ data[scan] \in Message /\ served[scan] \in Nat
    BY <1>1, <1>3, <1>8 DEF Serve, CallsTypeOK, RestTypeOK
  <2>2. Answer(data[scan].call) \in Message
    BY <2>1, Values DEF Message
  <2>3. data' \in [CoreIds -> Message]
    BY <1>1, <1>8, <2>2 DEF Serve, CallsTypeOK
  <2>4. served' \in [CoreIds -> Nat]
    BY <1>1, <1>8, <2>1 DEF Serve, RestTypeOK
  <2>5. core_command' \in [CoreIds -> Commands \cup HostCommands \cup {None}]
    BY <1>1, <1>8 DEF Serve, CallsTypeOK
  <2> QED BY <1>1, <1>2, <1>8, <2>3, <2>4, <2>5 DEF Serve, CallsTypeOK, RestTypeOK
<1>9. CASE GiveBack
  <2>1. scan \in CoreIds /\ pb[scan] \in 0..BusyMax
    BY <1>1, <1>3, <1>9 DEF GiveBack, RestTypeOK
  <2>2. (pb[scan] + 1) % (BusyMax + 1) \in 0..BusyMax
    BY <2>1, NextValue
  <2>3. pb' = [pb EXCEPT ![scan] = (pb[scan] + 1) % (BusyMax + 1)]
    BY <1>9 DEF GiveBack
  <2>4. pb' \in [CoreIds -> 0..BusyMax]
    BY <1>1, <2>2, <2>3 DEF RestTypeOK
  <2>5. pb'[scan] \in 0..BusyMax
    BY <2>1, <2>4
  <2>6. core_busy' \in [CoreIds -> 0..BusyMax]
    BY <1>1, <1>9, <2>5 DEF GiveBack, CallsTypeOK
  <2>7. /\ hostPc' \in {"look", "round"} /\ scan' \in 0..TotalCores
        /\ hostPc' = "look" => scan' < TotalCores
    BY <1>1, <1>9 DEF GiveBack, RestTypeOK
  <2>8. UNCHANGED <<core_run, core_command, data, coreVars, callVars, active, served>>
    BY <1>9 DEF GiveBack
  <2>9. CallsTypeOK'
    BY <1>1, <2>6, <2>8 DEF CallsTypeOK
  <2>10. RestTypeOK'
    BY <1>1, <2>4, <2>7, <2>8 DEF RestTypeOK
  <2> QED BY <1>2, <2>8, <2>9, <2>10
<1> QED BY <1>4, <1>5, <1>6, <1>7, <1>8, <1>9 DEF HostStep

LEMMA ThreadTypes ==
  ASSUME TypeInv, NEW t \in Threads, ThreadStep(t)
  PROVE  TypeInv'
<1> USE DEF ThreadGoto, vars, shared, coreVars, hostVars, transferVars, looks
<1>1. CallsTypeOK /\ RestTypeOK /\ ThreadPlace(t) /\ list \in Seq(Items) /\ Len(list) \in Nat
  BY DEF TypeInv, RestTypeOK
<1>2. ASSUME CallsTypeOK', RestTypeOK', list' = list, threadDoing' = threadDoing,
             threadPc[t] # "idle",
             \A u \in Threads \ {t} : threadPc'[u] = threadPc[u]
      PROVE  TypeInv'
  <2>1. ASSUME NEW u \in Threads
        PROVE  ThreadPlace(u)'
    BY <1>1, <1>2 DEF TypeInv, ThreadPlace
  <2> QED BY <1>2, <2>1 DEF TypeInv
<1>3. /\ threadPc' \in [Threads -> ThreadLabels]
      /\ \A u \in Threads \ {t} : threadPc'[u] = threadPc[u]
  <2>1. \E label \in ThreadLabels : threadPc' = [threadPc EXCEPT ![t] = label]
    BY DEF ThreadStep, ThreadCall, SeeCommand, Check, ThreadServe, ThreadAnswer, LateTake,
       ThreadLabels
  <2>2. threadPc \in [Threads -> ThreadLabels]
    BY <1>1 DEF CallsTypeOK, ThreadLabels
  <2> QED BY <2>1, <2>2
<1>4. CASE ThreadCall(t)
  <2>1. PICK i \in DOMAIN list : /\ Earliest(i, ThreadItems(t, threadDoing[t]))
                                 /\ threadDoing' = [threadDoing EXCEPT ![t] = i]
    BY <1>4 DEF ThreadCall
  <2>2. i \in 0..Len(list) /\ list[i].thread = t /\ i # 0
    BY <1>1, <2>1, ItemFacts DEF Earliest, ThreadItems
  <2>3. threadDoing' \in [Threads -> 0..Len(list)]
    BY <1>1, <2>1, <2>2 DEF CallsTypeOK
  <2>4. CallsTypeOK' /\ RestTypeOK'
    BY <1>1, <1>3, <1>4, <2>3 DEF ThreadCall, CallsTypeOK, RestTypeOK, ThreadLabels
  <2>5. ASSUME NEW u \in Threads
        PROVE  ThreadPlace(u)'
    <3>1. list' = list
      BY <1>4 DEF ThreadCall
    <3>2. CASE u = t
      BY <1>1, <2>1, <2>2, <3>1, <3>2 DEF ThreadPlace, CallsTypeOK
    <3>3. CASE u # t
      BY <1>1, <1>3, <2>1, <3>1, <3>3 DEF TypeInv, ThreadPlace, CallsTypeOK
    <3> QED BY <3>2, <3>3
  <2> QED BY <2>4, <2>5 DEF TypeInv
<1>5. CASE ~ThreadCall(t)
  <2>1. threadPc[t] # "idle" /\ list' = list /\ threadDoing' = threadDoing
    BY <1>5 DEF ThreadStep, SeeCommand, Check, ThreadServe, ThreadAnswer, LateTake
  <2>2. PICK c \in CoreIds : c = list[threadDoing[t]].core
    BY <2>1, ThreadItem
  <2>3. threadDoing[t] \in Nat /\ NumberOf(threadDoing[t]) \in Nat
    BY <2>1, ThreadItem, UpToFinite
  <2>4. /\ data[c].call \in Nat /\ calls[c] \in 0..MaxCalls /\ pb[c] \in 0..BusyMax
        /\ served[c] \in Nat
    BY <1>1 DEF CallsTypeOK, RestTypeOK, Message
  <2>5. CASE SeeCommand(t)
    <3>1. seen' \in [Threads -> 0..MaxCalls]
      BY <1>1, <2>2, <2>4, <2>5 DEF SeeCommand, CallsTypeOK
    <3>2. CallsTypeOK' /\ RestTypeOK'
      BY <1>1, <1>3, <2>5, <3>1 DEF SeeCommand, CallsTypeOK, RestTypeOK, ThreadLabels
    <3> QED BY <1>2, <1>3, <2>1, <3>2
  <2>6. CASE Check(t)
    <3>1. seen' \in [Threads -> 0..MaxCalls] /\ overtaken' \in BOOLEAN
      BY <1>1, <2>6, CallsAssumption DEF Check, CallsTypeOK
    <3>2. CallsTypeOK' /\ RestTypeOK'
      BY <1>1, <1>3, <2>6, <3>1 DEF Check, CallsTypeOK, RestTypeOK, ThreadLabels
    <3> QED BY <1>2, <1>3, <2>1, <3>2
  <2>7. CASE ThreadServe(t)
    <3> DEFINE message == Answer(NumberOf(threadDoing[t]))
    <3>1. message \in Message
      BY <2>3, Values
    <3>2. /\ got' = got \/ got' = [got EXCEPT ![t] = data[c].call]
          /\ data' = data \/ data' = [data EXCEPT ![c] = message]
          /\ back' = back \/ back' = [back EXCEPT ![c] = message]
          /\ declared' = declared \/ \E b \in BOOLEAN : declared' = [declared EXCEPT ![c] = b]
      BY <2>2, <2>7 DEF ThreadServe
    <3> HIDE DEF message
    <3>3. got' \in [Threads -> Nat]
      BY <1>1, <2>4, <3>2 DEF CallsTypeOK
    <3>5. data' \in [CoreIds -> Message]
      BY <1>1, <3>1, <3>2 DEF CallsTypeOK
    <3>7. back' \in [CoreIds -> Message]
      BY <1>1, <3>1, <3>2 DEF CallsTypeOK
    <3>6. declared' \in [CoreIds -> BOOLEAN]
      BY <1>1, <3>2 DEF CallsTypeOK
    <3>4. CallsTypeOK' /\ RestTypeOK'
      BY <1>1, <1>3, <2>7, <3>3, <3>5, <3>7, <3>6 DEF ThreadServe, CallsTypeOK, RestTypeOK, ThreadLabels
    <3> QED BY <1>2, <1>3, <2>1, <3>4
  <2>8. CASE ThreadAnswer(t)
    <3>1. /\ core_command' = [core_command EXCEPT ![c] = None]
          /\ pb' = [pb EXCEPT ![c] = (pb[c] + 1) % (BusyMax + 1)]
          /\ core_busy' = [core_busy EXCEPT ![c] = pb'[c]]
          /\ served' = [served EXCEPT ![c] = served[c] + 1]
      BY <2>2, <2>8 DEF ThreadAnswer
    <3>2. pb' \in [CoreIds -> 0..BusyMax]
      BY <1>1, <2>4, <3>1, NextValue DEF RestTypeOK
    <3>3. /\ core_busy' \in [CoreIds -> 0..BusyMax] /\ served' \in [CoreIds -> Nat]
          /\ core_command' \in [CoreIds -> Commands \cup HostCommands \cup {None}]
      BY <1>1, <2>4, <3>1, <3>2 DEF CallsTypeOK, RestTypeOK
    <3>4. CallsTypeOK' /\ RestTypeOK'
      BY <1>1, <1>3, <2>8, <3>2, <3>3 DEF ThreadAnswer, CallsTypeOK, RestTypeOK, ThreadLabels
    <3> QED BY <1>2, <1>3, <2>1, <3>4
  <2>9. CASE LateTake(t)
    <3>1. got' \in [Threads -> Nat]
      BY <1>1, <2>2, <2>4, <2>9 DEF LateTake, CallsTypeOK
    <3>2. CallsTypeOK' /\ RestTypeOK'
      BY <1>1, <1>3, <2>9, <3>1 DEF LateTake, CallsTypeOK, RestTypeOK, ThreadLabels
    <3> QED BY <1>2, <1>3, <2>1, <3>2
  <2> QED BY <1>5, <2>5, <2>6, <2>7, <2>8, <2>9 DEF ThreadStep
<1> QED BY <1>4, <1>5

LEMMA TypeInit ==
  ASSUME CallsInit
  PROVE  TypeInv
<1>1. list \in Seq(Items) /\ Len(list) \in Nat
  BY ProgramsAssumption DEF CallsInit
<1>2. Asked(0) \in Message /\ 0 \in 0..BusyMax /\ 0 \in 0..MaxCalls /\ 0 \in 0..TotalCores
  BY Values, CallsAssumption, TotalAssumption
<1>3. CallsTypeOK
  <2>1. /\ core_run \in [CoreIds -> {0, 1}] /\ core_busy \in [CoreIds -> 0..BusyMax]
        /\ core_command \in [CoreIds -> Commands \cup HostCommands \cup {None}]
        /\ pc \in [CoreIds -> PcLabels] /\ data \in [CoreIds -> Message]
    BY <1>2 DEF CallsInit, Init, PcLabels
  <2>2. /\ back \in [CoreIds -> Message] /\ address \in [CoreIds -> 0..MaxCalls]
        /\ declared \in [CoreIds -> BOOLEAN] /\ coreDoing \in [CoreIds -> 0..Len(list)]
    BY <1>1, <1>2 DEF CallsInit
  <2>3. threadPc \in [Threads -> ThreadLabels] /\ threadDoing \in [Threads -> 0..Len(list)]
    BY <1>1 DEF CallsInit, ThreadLabels
  <2>4. got \in [Threads -> Nat] /\ seen \in [Threads -> 0..MaxCalls]
    BY <1>2 DEF CallsInit
  <2>5. overtaken \in BOOLEAN
    BY DEF CallsInit
  <2> QED BY <2>1, <2>2, <2>3, <2>4, <2>5 DEF CallsTypeOK, PcLabels, ThreadLabels
<1>4. RestTypeOK
  BY <1>1, <1>2 DEF CallsInit, Init, RestTypeOK
<1> QED BY <1>3, <1>4 DEF TypeInv, ThreadPlace, CallsInit

LEMMA TypeStep ==
  ASSUME TypeInv, [CallsNext]_allVars
  PROVE  TypeInv'
<1>1. CASE UNCHANGED allVars
  <2>1. CallsTypeOK' /\ RestTypeOK' /\ UNCHANGED <<list, threadPc, threadDoing>>
    BY <1>1 DEF TypeInv, CallsTypeOK, RestTypeOK, allVars, vars, shared, coreVars,
                hostVars, callVars, transferVars, threadVars, looks
  <2> QED BY <2>1, PlacesStay DEF TypeInv
<1> QED BY <1>1, CoreTypes, HostTypes, ThreadTypes DEF CallsNext, AllFinished

-------------------------------------------------------------------------------
(* The monitor and the cores it watches, of every step.                    *)
LEMMA WatchingFinite == IsFiniteSet(Watching) /\ Cardinality(Watching) \in Nat
<1>1. IsFiniteSet(CoreIds)
  BY TotalAssumption, FS_Interval DEF CoreIds
<1>2. IsFiniteSet(Watching)
  BY <1>1, FS_Subset DEF Watching
<1> QED BY <1>2, FS_CardinalityType

(* The host leaves the cores alone that it does not look at.               *)
LEMMA StartCoreGoes ==
  ASSUME RunsInv, StartCore, UNCHANGED callVars
  PROVE  CountOfRuns' /\ \A c \in CoreIds : RunInv(c)'
<1> USE DEF StartCore, coreVars, callVars, transferVars
<1>1. /\ CallsTypeOK /\ RestTypeOK /\ CountOfRuns /\ totalActive \in Nat
      /\ \A c \in CoreIds : RunInv(c)
  BY WatchingFinite DEF RunsInv, TypeInv, CountOfRuns
<1>2. scan \in CoreIds
  BY <1>1, TotalAssumption DEF RestTypeOK, CoreIds
<1>3. ~active[scan] /\ pc[scan] = "boot"
  <2>1. ~(scan < scan) /\ RunInv(scan)
    BY <1>1, <1>2 DEF CoreIds
  <2> QED BY <2>1 DEF RunInv
<1>4. CountOfRuns'
  <2>1. CASE scan \in Intent
    <3>1. Watching' = Watching \cup {scan} /\ scan \notin Watching
      BY <1>1, <1>2, <1>3, <2>1 DEF RestTypeOK, Watching
    <3>2. Cardinality(Watching') = Cardinality(Watching) + 1
      BY <3>1, WatchingFinite, FS_AddElement
    <3> QED BY <1>1, <2>1, <3>2 DEF CountOfRuns
  <2>2. CASE scan \notin Intent
    BY <1>1, <2>2 DEF CountOfRuns, Watching
  <2> QED BY <2>1, <2>2
<1>5. ASSUME NEW c \in CoreIds
      PROVE  RunInv(c)'
  <2>1. RunInv(c) /\ CoreItems(c, coreDoing[c])' = CoreItems(c, coreDoing[c])
    BY <1>1 DEF CoreItems
  <2>2. /\ hostPc' = "start" /\ scan' = scan + 1 /\ pc' = pc
        /\ c \in Int /\ scan \in Int
    BY <1>2 DEF CoreIds
  <2>3. CASE c = scan
    <3>1. active'[c] = (c \in Intent) /\ core_run'[c] = IF active'[c] THEN 1 ELSE 0
      <4>1. core_run[c] = 0 /\ active[c] = FALSE
        BY <1>1, <1>3, <2>1, <2>3 DEF RunInv, RestTypeOK
      <4>2. CASE c \in Intent
        BY <1>1, <2>3, <4>2 DEF RestTypeOK, CallsTypeOK
      <4>3. CASE c \notin Intent
        <5>1. active' = active /\ core_run' = core_run
          BY <2>3, <4>3
        <5>2. (c \in Intent) = FALSE
          BY <4>3
        <5> QED BY <4>1, <5>1, <5>2
      <4> QED BY <4>2, <4>3
    <3>2. c < scan + 1 /\ pc'[c] = "boot"
      BY <1>3, <2>2, <2>3
    <3>3. /\ active'[c] => c \in Intent
          /\ c \notin Intent => core_run'[c] = 0
          /\ core_run'[c] = IF active'[c] THEN 1 ELSE 0
      BY <3>1
    <3>5. active'[c] = (c \in Intent /\ c < scan')
      <4>1. c < scan'
        BY <2>2, <3>2
      <4> QED BY <3>1, <4>1
    <3>4. hostPc' = "start" /\ pc'[c] = "boot"
      BY <2>2, <3>2
    <3> QED BY <3>3, <3>4, <3>5 DEF RunInv
  <2>4. CASE c # scan
    <3>1. active'[c] = active[c] /\ core_run'[c] = core_run[c]
      BY <1>1, <1>2, <2>4 DEF RestTypeOK, CallsTypeOK
    <3> QED BY <2>1, <2>2, <2>4, <3>1 DEF RunInv
  <2> QED BY <2>3, <2>4
<1> QED BY <1>4, <1>5

LEMMA DeactivateGoes ==
  ASSUME RunsInv, Deactivate, UNCHANGED callVars
  PROVE  CountOfRuns' /\ \A c \in CoreIds : RunInv(c)'
<1> USE DEF Deactivate, NextCore, shared, coreVars, callVars, transferVars
<1>1. /\ CallsTypeOK /\ RestTypeOK /\ CountOfRuns /\ totalActive \in Nat
      /\ \A c \in CoreIds : RunInv(c)
  BY WatchingFinite DEF RunsInv, TypeInv, CountOfRuns
<1>2. scan \in CoreIds
  BY <1>1, TotalAssumption DEF RestTypeOK, CoreIds
<1>3. active[scan] /\ pc[scan] = "ended"
  BY <1>1, <1>2 DEF RunInv
<1>4. hostPc' \in {"look", "round"} /\ active' = [active EXCEPT ![scan] = FALSE]
  OBVIOUS
<1>5. CountOfRuns'
  <2>1. Watching' = Watching \ {scan} /\ scan \in Watching
    BY <1>1, <1>2, <1>3 DEF RestTypeOK, Watching
  <2>2. Cardinality(Watching') = Cardinality(Watching) - 1
    BY <2>1, WatchingFinite, FS_RemoveElement
  <2> QED BY <1>1, <1>4, <2>2 DEF CountOfRuns
<1>6. ASSUME NEW c \in CoreIds
      PROVE  RunInv(c)'
  <2>1. RunInv(c) /\ CoreItems(c, coreDoing[c])' = CoreItems(c, coreDoing[c])
    BY <1>1 DEF CoreItems
  <2>2. pc' = pc /\ core_run' = core_run /\ (c # scan => active'[c] = active[c])
    BY <1>1, <1>2 DEF RestTypeOK
  <2> QED BY <1>3, <1>4, <2>1, <2>2 DEF RunInv
<1> QED BY <1>5, <1>6

LEMMA HostGoes ==
  ASSUME RunsInv, HostStep, BootBeforeWatch, UNCHANGED callVars
  PROVE  CountOfRuns' /\ \A c \in CoreIds : RunInv(c)'
<1>1. /\ CallsTypeOK /\ RestTypeOK /\ CountOfRuns /\ totalActive \in Nat
      /\ \A c \in CoreIds : RunInv(c)
  BY WatchingFinite DEF RunsInv, TypeInv, CountOfRuns
<1>2. ASSUME UNCHANGED <<core_run, pc, active, totalActive, coreDoing, list>>,
             hostPc' # "start",
             hostPc' = "done" => totalActive = 0,
             hostPc' = "check" => active[scan'],
             hostPc = "start" => scan = TotalCores /\ \A c \in Intent : pc[c] # "boot"
      PROVE  CountOfRuns' /\ \A c \in CoreIds : RunInv(c)'
  <2>1. CountOfRuns'
    BY <1>1, <1>2 DEF CountOfRuns, Watching
  <2>2. ASSUME NEW c \in CoreIds
        PROVE  RunInv(c)'
    <3>1. RunInv(c) /\ CoreItems(c, coreDoing[c])' = CoreItems(c, coreDoing[c])
      BY <1>1, <1>2 DEF CoreItems
    <3>2. hostPc = "start" /\ c \in Intent => active[c]
      <4>1. hostPc = "start" => c < scan
        BY <1>2, TotalAssumption DEF CoreIds
      <4> QED BY <3>1, <4>1 DEF RunInv
    <3> QED BY <1>2, <3>1, <3>2 DEF RunInv
  <2> QED BY <2>1, <2>2
<1> USE DEF shared, coreVars, callVars, transferVars
<1>3. CASE StartCore \/ Deactivate
  BY <1>3, StartCoreGoes, DeactivateGoes
<1>4. CASE StartWatch
  BY <1>2, <1>4 DEF StartWatch
<1>5. CASE Round
  BY <1>1, <1>2, <1>5 DEF Round
<1>6. CASE Look
  BY <1>2, <1>6 DEF Look, NextCore
<1>7. CASE NoCommand \/ Serve \/ GiveBack
  BY <1>2, <1>7 DEF NoCommand, Serve, GiveBack, NextCore
<1> QED BY <1>3, <1>4, <1>5, <1>6, <1>7 DEF HostStep

(* A core runs while it is watched, and ends with its list.                *)
LEMMA CoreGoes ==
  ASSUME RunsInv, NEW c \in CoreIds, CallsCoreStep(c)
  PROVE  CountOfRuns' /\ \A d \in CoreIds : RunInv(d)'
<1>1. /\ CallsTypeOK /\ RestTypeOK /\ CountOfRuns
      /\ \A d \in CoreIds : RunInv(d)
  BY DEF RunsInv, TypeInv
<1>2. ASSUME UNCHANGED <<hostVars, list>>,
             \A d \in CoreIds \ {c} :
               pc'[d] = pc[d] /\ core_run'[d] = core_run[d] /\ coreDoing'[d] = coreDoing[d],
             RunInv(c)'
      PROVE  CountOfRuns' /\ \A d \in CoreIds : RunInv(d)'
  <2>1. CountOfRuns'
    BY <1>1, <1>2 DEF CountOfRuns, Watching, hostVars
  <2>2. ASSUME NEW d \in CoreIds
        PROVE  RunInv(d)'
    <3>1. CASE d # c
      <4>1. RunInv(d) /\ (coreDoing'[d] = coreDoing[d])
        BY <1>1, <1>2, <3>1
      <4>2. CoreItems(d, coreDoing[d])' = CoreItems(d, coreDoing[d])
        BY <1>2, <4>1 DEF CoreItems
      <4> QED BY <1>2, <3>1, <4>1, <4>2 DEF RunInv, hostVars
    <3> QED BY <1>2, <3>1
  <2> QED BY <2>1, <2>2
<1>3. ASSUME UNCHANGED <<hostVars, list, core_run>>,
             \A d \in CoreIds \ {c} : pc'[d] = pc[d] /\ coreDoing'[d] = coreDoing[d],
             pc[c] \notin {"boot", "ending", "ended"},
             pc'[c] \notin {"boot", "ending", "ended"}
      PROVE  CountOfRuns' /\ \A d \in CoreIds : RunInv(d)'
  <2>1. RunInv(c)'
    BY <1>1, <1>3 DEF RunInv, hostVars
  <2> QED BY <1>2, <1>3, <2>1
<1> USE DEF Goto, shared, callVars, transferVars
<1>4. CASE Boot(c) /\ UNCHANGED callVars
  <2>1. /\ pc[c] = "boot" /\ pc'[c] = "running" /\ core_run[c] = 1 /\ core_run' = core_run
        /\ UNCHANGED hostVars
    BY <1>1, <1>4 DEF Boot, CallsTypeOK
  <2>2. c \in Intent /\ hostPc = "start" /\ active[c]
    BY <1>1, <2>1 DEF RunInv
  <2>3. RunInv(c)'
    BY <1>1, <2>1, <2>2 DEF RunInv, hostVars
  <2> QED BY <1>1, <1>2, <1>4, <2>3 DEF Boot
<1>5. CASE NextCall(c)
  BY <1>1, <1>3, <1>5 DEF NextCall, BeginTransfer, Begin, CallsTypeOK
<1>6. CASE Address(c) \/ Payload(c) \/ HostRemember(c) \/ HostCommand(c)
  BY <1>1, <1>3, <1>6 DEF Address, Payload, HostRemember, HostCommand, CallsTypeOK
<1>7. CASE MonitorFill(c) \/ TransferReturn(c)
  BY <1>1, <1>3, <1>7 DEF MonitorFill, Fill, TransferReturn, Return, CallsTypeOK
<1>8. CASE (Command(c) \/ Remember(c) \/ Release(c)) /\ UNCHANGED callVars
  BY <1>1, <1>3, <1>8 DEF Command, Remember, Release, CallsTypeOK
<1>9. CASE EndProgram(c)
  <2>1. /\ pc[c] = "running" /\ pc'[c] = "ending" /\ core_run' = core_run
        /\ UNCHANGED <<hostVars, list, coreDoing>> /\ CoreItems(c, coreDoing[c]) = {}
    BY <1>1, <1>9 DEF EndProgram, End, CallsTypeOK
  <2>2. CoreItems(c, coreDoing[c])' = {}
    BY <2>1 DEF CoreItems
  <2>3. RunInv(c)'
    BY <1>1, <2>1, <2>2 DEF RunInv, hostVars
  <2> QED BY <1>1, <1>2, <1>9, <2>1, <2>3 DEF EndProgram, End
<1>10. CASE Ended(c) /\ UNCHANGED callVars
  <2>1. /\ pc[c] = "ending" /\ pc'[c] = "ended" /\ core_run'[c] = 0
        /\ UNCHANGED <<hostVars, list, coreDoing>>
    BY <1>1, <1>10 DEF Ended, CallsTypeOK
  <2>2. CoreItems(c, coreDoing[c])' = CoreItems(c, coreDoing[c])
    BY <2>1 DEF CoreItems
  <2>3. RunInv(c)'
    BY <1>1, <2>1, <2>2 DEF RunInv, hostVars
  <2> QED BY <1>1, <1>2, <1>10, <2>1, <2>3 DEF Ended
<1> QED BY <1>4, <1>5, <1>6, <1>7, <1>8, <1>9, <1>10 DEF CallsCoreStep

LEMMA RunsInit ==
  ASSUME CallsInit
  PROVE  RunsInv
<1>1. CountOfRuns
  <2>1. Watching = {} /\ totalActive = 0
    BY DEF CallsInit, Init, Watching
  <2> QED BY <2>1, FS_EmptySet DEF CountOfRuns, CallsInit, Init
<1>2. ASSUME NEW c \in CoreIds
      PROVE  RunInv(c)
  <2>1. ~(c < 0)
    BY DEF CoreIds
  <2> QED BY <2>1 DEF CallsInit, Init, RunInv
<1> QED BY <1>1, <1>2, TypeInit DEF RunsInv

LEMMA RunsStep ==
  ASSUME RunsInv, [CallsNext]_allVars, BootBeforeWatch
  PROVE  RunsInv'
<1>1. TypeInv'
  BY TypeStep DEF RunsInv
<1>2. CountOfRuns' /\ \A c \in CoreIds : RunInv(c)'
  <2>1. CASE HostStep /\ UNCHANGED callVars
    BY <2>1, HostGoes
  <2>2. CASE \E c \in CoreIds : CallsCoreStep(c)
    BY <2>2, CoreGoes
  <2>3. CASE (\E t \in Threads : ThreadStep(t)) \/ UNCHANGED allVars
    <3>1. UNCHANGED <<core_run, pc, hostPc, scan, active, totalActive, coreDoing>>
      BY <2>3 DEF ThreadStep, ThreadCall, SeeCommand, Check, ThreadServe, ThreadAnswer,
         LateTake, allVars, vars, shared, coreVars, hostVars, callVars, transferVars
    <3>2. \A c \in CoreIds : CoreItems(c, coreDoing[c])' = CoreItems(c, coreDoing[c])
      BY <3>1, ListStays DEF CoreItems
    <3> QED BY <3>1, <3>2 DEF RunsInv, CountOfRuns, Watching, RunInv
  <2> QED BY <2>1, <2>2, <2>3 DEF CallsNext, AllFinished
<1> QED BY <1>1, <1>2 DEF RunsInv

(* Every variable keeps its type, whatever overtakes what.                 *)
THEOREM CallsTypeCorrect == CallsSpec => []CallsTypeOK
<1>1. CallsInit => TypeInv
  BY TypeInit
<1>2. TypeInv /\ [CallsNext]_allVars => TypeInv'
  BY TypeStep
<1>3. TypeInv => CallsTypeOK
  BY DEF TypeInv
<1> QED BY <1>1, <1>2, <1>3, PTL DEF CallsSpec

(* The monitor does not leave before every core it started has ended, with *)
(* commands in the mailboxes that are not for it (device-support.c:143).   *)
THEOREM MonitorStays ==
  ASSUME BootBeforeWatch
  PROVE  CallsSpec => []NobodyAbandoned
<1>1. ASSUME RunsInv, hostPc = "done", NEW c \in Intent
      PROVE  pc[c] = "ended"
  <2>1. Watching = {}
    BY <1>1, WatchingFinite, FS_EmptySet DEF RunsInv, CountOfRuns
  <2>2. c \in CoreIds /\ ~active[c] /\ RunInv(c)
    BY <1>1, <2>1, IntentAssumption DEF Watching, RunsInv
  <2> QED BY <1>1, <2>2 DEF RunInv
<1>2. RunsInv => NobodyAbandoned
  BY <1>1 DEF NobodyAbandoned
<1>3. CallsInit => RunsInv
  BY RunsInit
<1>4. RunsInv /\ [CallsNext]_allVars => RunsInv'
  BY RunsStep
<1> QED BY <1>2, <1>3, <1>4, PTL DEF CallsSpec

-------------------------------------------------------------------------------
(* What the parts of the invariant say when a core, a thread, or the       *)
(* monitor does something else.                                            *)

(* The entries of a core.                                                  *)
SameCore(d) ==
  /\ pc'[d] = pc[d] /\ wanted'[d] = wanted[d] /\ before'[d] = before[d]
  /\ calls'[d] = calls[d] /\ returned'[d] = returned[d] /\ result'[d] = result[d]
  /\ core_busy'[d] = core_busy[d] /\ core_command'[d] = core_command[d]
  /\ data'[d] = data[d] /\ address'[d] = address[d] /\ back'[d] = back[d]
  /\ coreDoing'[d] = coreDoing[d] /\ served'[d] = served[d]

LEMMA OtherCore ==
  ASSUME NEW d \in CoreIds, MailboxInv(d), SameCore(d), list' = list, pb'[d] = pb[d],
         Answering(d)' <=> Answering(d), hostPc' = "start" <=> hostPc = "start"
  PROVE  MailboxInv(d)'
<1>1. /\ UnderWay(d)' <=> UnderWay(d)
      /\ Up(d)' <=> Up(d)
      /\ Taken(d)' <=> Taken(d)
  BY DEF SameCore, UnderWay, Up, Taken
<1>2. NumberOf(coreDoing[d])' = NumberOf(coreDoing[d])
  BY DEF NumberOf, SameCore
<1>3. CallOf(d)'
  BY <1>1, <1>2 DEF MailboxInv, CallOf, SameCore
<1>4. BusyOf(d)'
  BY <1>1 DEF MailboxInv, BusyOf, SameCore
<1>5. CommandOf(d)' /\ DataOf(d)'
  BY <1>1 DEF MailboxInv, CommandOf, DataOf, SameCore
<1> QED BY <1>3, <1>4, <1>5 DEF MailboxInv

(* A step on the mailbox of c, as the threads that look at it see it: the  *)
(* next call, or no call that was not up comes up ...                      *)
Onward(c) ==
  \/ calls'[c] = calls[c] + 1
  \/ /\ calls'[c] = calls[c] /\ coreDoing'[c] = coreDoing[c] /\ wanted'[c] = wanted[c]
     /\ UnderWay(c)' => UnderWay(c) /\ (Up(c) => Up(c)')
(* ... and a transfer that a thread may act on stays up.                   *)
Undisturbed(c) ==
  Up(c) /\ ~Taken(c) /\ wanted[c] \in HostCommands =>
    /\ Up(c)' /\ ~Taken(c)'
    /\ calls'[c] = calls[c] /\ coreDoing'[c] = coreDoing[c]
    /\ data'[c] = data[c] /\ back'[c] = back[c]

(* What a thread that acts on a mailbox acts on.                           *)
LEMMA ActsOn ==
  ASSUME CallsInv, NEW t \in Threads, Acts(t),
         NEW c \in CoreIds, c = list[threadDoing[t]].core
  PROVE  /\ threadPc[t] # "idle" /\ Up(c) /\ ~Taken(c) /\ coreDoing[c] = threadDoing[t]
         /\ wanted[c] = list[threadDoing[t]].call /\ wanted[c] \in HostCommands
         /\ list[coreDoing[c]].thread = t
<1>1. threadPc[t] # "idle" /\ TypeInv /\ ThreadInv(t)
  BY DEF Acts, CallsInv, RunsInv
<1>2. /\ threadDoing[t] # 0 /\ list[threadDoing[t]].thread = t
      /\ list[threadDoing[t]].call \in HostCommands
  BY <1>1, ThreadItem
<1>3. Up(c) /\ ~Taken(c) /\ coreDoing[c] = threadDoing[t] /\ CallOf(c)
  BY <1>1 DEF ThreadInv, CallsInv, MailboxInv
<1> QED BY <1>1, <1>2, <1>3 DEF CallOf

LEMMA ThreadsStay ==
  ASSUME CallsInv, NEW c \in CoreIds, list' = list, UNCHANGED threadVars,
         hostPc' = "start" => hostPc = "start",
         \A d \in CoreIds \ {c} : SameCore(d), Onward(c), Undisturbed(c),
         NEW t \in Threads
  PROVE  ThreadInv(t)'
<1>1. /\ threadPc' = threadPc /\ threadDoing' = threadDoing /\ got' = got /\ seen' = seen
      /\ NumberOf(threadDoing[t])' = NumberOf(threadDoing[t])
      /\ OnePartner(list)' = OnePartner(list)
      /\ ThreadInv(t) /\ TypeInv /\ CallsTypeOK /\ RestTypeOK
  BY DEF threadVars, looks, NumberOf, OnePartner, CallsInv, RunsInv, TypeInv
<1>2. CASE threadPc[t] \in {"check", "serve", "answer"}
  <2>1. PICK d \in CoreIds : d = list[threadDoing[t]].core
    BY <1>1, <1>2, ThreadItem
  <2>2. calls[d] \in Nat /\ seen[t] \in Nat
    BY <1>1, CallsAssumption DEF CallsTypeOK, RestTypeOK
  <2>3. CASE d # c
    <3>1. SameCore(d)
      BY <2>3
    <3>2. (UnderWay(d)' <=> UnderWay(d)) /\ (Up(d)' <=> Up(d)) /\ (Taken(d)' <=> Taken(d))
      BY <3>1 DEF SameCore, UnderWay, Up, Taken
    <3> QED BY <1>1, <1>2, <2>1, <3>1, <3>2 DEF ThreadInv, Acts, SameCore
  <2>4. CASE d = c
    <3>1. CASE Acts(t)
      <4>1. /\ Up(c) /\ ~Taken(c) /\ wanted[c] \in HostCommands
            /\ coreDoing[c] = threadDoing[t]
        <5>1. c = list[threadDoing[t]].core /\ Acts(t)
          BY <2>1, <2>4, <3>1
        <5> QED BY <5>1, ActsOn, Zenon
      <4>2. /\ Up(c)' /\ ~Taken(c)' /\ calls'[c] = calls[c] /\ coreDoing'[c] = coreDoing[c]
            /\ data'[c] = data[c] /\ back'[c] = back[c]
        BY <4>1 DEF Undisturbed
      <4>3. wanted'[c] = wanted[c]
        BY <2>2, <2>4, <4>2 DEF Onward
      <4> QED BY <1>1, <1>2, <2>1, <2>4, <4>1, <4>2, <4>3 DEF ThreadInv, Acts
    <3>2. CASE ~Acts(t)
      <4>1. threadPc[t] = "check" /\ ~OnePartner(list)
        BY <1>2, <3>2 DEF Acts
      <4>2. seen[t] <= calls'[c]
        BY <1>1, <2>1, <2>2, <2>4, <4>1 DEF ThreadInv, Onward
      <4>3. ASSUME seen[t] = calls'[c]
            PROVE  /\ UnderWay(c)' => Up(c)'
                   /\ wanted'[c] \in HostCommands
                   /\ list[coreDoing'[c]].thread = t => coreDoing'[c] = threadDoing[t]
        <5>1. calls'[c] # calls[c] + 1
          BY <1>1, <2>1, <2>2, <2>4, <4>1, <4>3 DEF ThreadInv
        <5>2. /\ seen[t] = calls[c] /\ coreDoing'[c] = coreDoing[c] /\ wanted'[c] = wanted[c]
              /\ UnderWay(c)' => UnderWay(c) /\ (Up(c) => Up(c)')
          BY <4>3, <5>1 DEF Onward
        <5> QED BY <1>1, <2>1, <2>4, <4>1, <5>2 DEF ThreadInv
      <4> QED BY <1>1, <2>1, <2>4, <4>1, <4>2, <4>3 DEF ThreadInv, Acts
    <3> QED BY <3>1, <3>2
  <2> QED BY <2>3, <2>4
<1>3. CASE threadPc[t] \notin {"check", "serve", "answer"}
  BY <1>1, <1>3 DEF ThreadInv, Acts
<1> QED BY <1>2, <1>3

LEMMA MailboxFrame ==
  ASSUME CallsInv, RunsInv', NEW c \in CoreIds, \A d \in CoreIds : MailboxInv(d)',
         list' = list, UNCHANGED threadVars, hostPc' = "start" => hostPc = "start",
         \A d \in CoreIds \ {c} : SameCore(d), Onward(c), Undisturbed(c),
         \A j \in DOMAIN list : list[j].core = c /\ list[j].thread \in Threads
            => (CorePast(j)' <=> CorePast(j))
  PROVE  CallsInv'
<1>1. \A t \in Threads : ThreadInv(t)'
  BY ThreadsStay
<1>2. ASSUME NEW j \in DOMAIN list, list[j].thread \in Threads
      PROVE  CorePast(j)' <=> ThreadPast(j)'
  <2>1. PairInv(j) /\ (ThreadPast(j)' <=> ThreadPast(j)) /\ list[j].core \in CoreIds
    BY ItemFacts DEF CallsInv, RunsInv, TypeInv, RestTypeOK, ThreadPast, threadVars
  <2>2. CASE list[j].core = c
    BY <1>2, <2>1, <2>2 DEF PairInv
  <2>3. CASE list[j].core # c
    <3>1. SameCore(list[j].core)
      BY <2>1, <2>3
    <3>2. CorePast(j)' <=> CorePast(j)
      BY <3>1 DEF CorePast, SameCore, Unanswered, UnderWay, Taken
    <3> QED BY <1>2, <2>1, <3>2 DEF PairInv
  <2> QED BY <2>2, <2>3
<1>3. ASSUME NEW j \in DOMAIN list'
      PROVE  PairInv(j)'
  BY <1>2, <1>3 DEF PairInv
<1> QED BY <1>1, <1>3 DEF CallsInv

(* The same when c itself makes the step.                                  *)
LEMMA CoreFrame ==
  ASSUME CallsInv, RunsInv', NEW c \in CoreIds, MailboxInv(c)',
         list' = list, UNCHANGED <<hostVars, threadVars>>,
         \A d \in CoreIds \ {c} : SameCore(d), Onward(c), Undisturbed(c),
         \A j \in DOMAIN list : list[j].core = c /\ list[j].thread \in Threads
            => (CorePast(j)' <=> CorePast(j))
  PROVE  CallsInv'
<1>1. ASSUME NEW d \in CoreIds
      PROVE  MailboxInv(d)'
  <2>1. CASE d = c
    BY <2>1
  <2>2. CASE d # c
    <3>1. MailboxInv(d) /\ SameCore(d) /\ (Answering(d)' <=> Answering(d))
      BY <2>2 DEF CallsInv, Answering, hostVars
    <3> QED BY <3>1, OtherCore DEF hostVars
  <2> QED BY <2>1, <2>2
<1>2. hostPc' = hostPc
  BY DEF hostVars
<1> QED BY <1>1, <1>2, MailboxFrame

(* A step of core c within a call, or outside of all calls, which answers  *)
(* nothing.                                                                *)
LEMMA CoreFrameInCall ==
  ASSUME CallsInv, RunsInv', NEW c \in CoreIds, MailboxInv(c)',
         list' = list, UNCHANGED <<hostVars, threadVars, coreDoing>>,
         \A d \in CoreIds \ {c} : SameCore(d),
         calls'[c] = calls[c], wanted'[c] = wanted[c],
         UnderWay(c)' => UnderWay(c) /\ (Up(c) => Up(c)'), Undisturbed(c),
         Unanswered(c)' <=> Unanswered(c)
  PROVE  CallsInv'
<1>1. \A j \in DOMAIN list : list[j].core = c => (CorePast(j)' <=> CorePast(j))
  BY DEF CorePast
<1>2. Onward(c)
  BY DEF Onward
<1> QED BY <1>1, <1>2, CoreFrame

-------------------------------------------------------------------------------
(* A core that starts marks itself busy; the host does not watch it yet.   *)
LEMMA BootInd ==
  ASSUME CallsInv, RunsInv', NEW c \in CoreIds, Boot(c) /\ UNCHANGED callVars
  PROVE  CallsInv'
<1> USE DEF Boot, Goto, shared, hostVars, callVars, transferVars, threadVars, looks
<1>1. CallsTypeOK /\ RestTypeOK /\ MailboxInv(c) /\ RunInv(c) /\ returned[c] \in Nat
  BY DEF CallsInv, RunsInv, TypeInv, RestTypeOK
<1>2. /\ pc[c] = "boot" /\ pc'[c] = "running" /\ core_busy'[c] = 1 /\ core_command' = core_command
      /\ UNCHANGED <<data, address, back, before, result>> /\ coreDoing[c] = 0
      /\ core_run[c] = 1 /\ c \in Intent /\ hostPc = "start"
  BY <1>1 DEF CallsTypeOK, RestTypeOK, RunInv, MailboxInv, CallOf
<1>3. \A d \in CoreIds \ {c} : SameCore(d)
  BY DEF SameCore
<1>4. /\ UNCHANGED <<coreDoing, list, calls, wanted, returned, served, hostVars, threadVars>>
      /\ Taken(c)' <=> Taken(c)
      /\ Answering(c)' <=> Answering(c)
  BY DEF Taken, Answering
<1>5. MailboxInv(c)'
  <2>1. CallOf(c)'
    BY <1>1, <1>2, <1>4, SameNumbers DEF MailboxInv, CallOf, UnderWay
  <2>2. BusyOf(c)'
    BY <1>1, <1>2, <1>4 DEF MailboxInv, CallOf, BusyOf, UnderWay, Up
  <2>3. CommandOf(c)'
    BY <1>1, <1>2, <1>4 DEF MailboxInv, CallOf, CommandOf
  <2>4. DataOf(c)'
    BY <1>1, <1>2, <1>4, Values DEF MailboxInv, CallOf, DataOf, UnderWay
  <2> QED BY <2>1, <2>2, <2>3, <2>4 DEF MailboxInv
<1>6. /\ Unanswered(c)' <=> Unanswered(c)
      /\ UnderWay(c)' => UnderWay(c) /\ (Up(c) => Up(c)')
      /\ Undisturbed(c)
  BY <1>2, <1>4 DEF Unanswered, UnderWay, Up, Undisturbed
<1> HIDE DEF Boot, Goto, shared, hostVars, callVars, transferVars, threadVars, looks
<1> QED BY <1>3, <1>4, <1>5, <1>6, CoreFrameInCall

(* The command is stored: from here on the host may act on it.             *)
LEMMA CommandInd ==
  ASSUME CallsInv, RunsInv', NEW c \in CoreIds, Command(c) /\ UNCHANGED callVars
  PROVE  CallsInv'
<1> USE DEF Command, Goto, shared, hostVars, callVars, transferVars, threadVars, looks
<1>1. CallsTypeOK /\ RestTypeOK /\ MailboxInv(c) /\ RunInv(c) /\ returned[c] \in Nat
  BY DEF CallsInv, RunsInv, TypeInv, RestTypeOK
<1>2. /\ pc[c] = "command" /\ core_command'[c] = wanted[c] /\ pc'[c] = "remember"
      /\ UNCHANGED <<data, address, back, before, result, core_busy>>
      /\ wanted[c] \in Commands \ {"error"}
  BY <1>1 DEF CallsTypeOK, RestTypeOK, RunInv, MailboxInv, CallOf
<1>3. \A d \in CoreIds \ {c} : SameCore(d)
  BY DEF SameCore
<1>4. /\ UNCHANGED <<coreDoing, list, calls, wanted, returned, served, hostVars, threadVars>>
      /\ Taken(c)' <=> Taken(c)
      /\ Answering(c)' <=> Answering(c)
  BY DEF Taken, Answering
<1>5. MailboxInv(c)'
  <2>1. CallOf(c)'
    BY <1>1, <1>2, <1>4, SameNumbers DEF MailboxInv, CallOf, UnderWay
  <2>2. BusyOf(c)'
    BY <1>1, <1>2, <1>4 DEF MailboxInv, CallOf, BusyOf, UnderWay, Up
  <2>3. CommandOf(c)'
    BY <1>1, <1>2, <1>4 DEF MailboxInv, CallOf, CommandOf
  <2>4. DataOf(c)'
    BY <1>1, <1>2, <1>4, Values DEF MailboxInv, CallOf, DataOf, UnderWay
  <2> QED BY <2>1, <2>2, <2>3, <2>4 DEF MailboxInv
<1>6. /\ Unanswered(c)' <=> Unanswered(c)
      /\ UnderWay(c)' => UnderWay(c) /\ (Up(c) => Up(c)')
      /\ Undisturbed(c)
  BY <1>2, <1>4 DEF Unanswered, UnderWay, Up, Undisturbed
<1> HIDE DEF Command, Goto, shared, hostVars, callVars, transferVars, threadVars, looks
<1> QED BY <1>3, <1>4, <1>5, <1>6, CoreFrameInCall

(* The copy of core_busy that the spin compares with.                      *)
LEMMA RememberInd ==
  ASSUME CallsInv, RunsInv', NEW c \in CoreIds, Remember(c) /\ UNCHANGED callVars
  PROVE  CallsInv'
<1> USE DEF Remember, Goto, shared, hostVars, callVars, transferVars, threadVars, looks
<1>1. CallsTypeOK /\ RestTypeOK /\ MailboxInv(c) /\ RunInv(c) /\ returned[c] \in Nat
  BY DEF CallsInv, RunsInv, TypeInv, RestTypeOK
<1>2. /\ pc[c] = "remember" /\ pc'[c] = "release" /\ before'[c] = core_busy[c]
      /\ UNCHANGED <<data, address, back, result, core_busy, core_command>>
      /\ wanted[c] \in Commands \ {"error"}
  BY <1>1 DEF CallsTypeOK, RestTypeOK, RunInv, MailboxInv, CallOf
<1>3. \A d \in CoreIds \ {c} : SameCore(d)
  BY DEF SameCore
<1>4. /\ UNCHANGED <<coreDoing, list, calls, wanted, returned, served, hostVars, threadVars>>
      /\ Taken(c)' <=> Taken(c)
      /\ Answering(c)' <=> Answering(c)
  BY DEF Taken, Answering
<1>5. MailboxInv(c)'
  <2>1. CallOf(c)'
    BY <1>1, <1>2, <1>4, SameNumbers DEF MailboxInv, CallOf, UnderWay
  <2>2. BusyOf(c)'
    BY <1>1, <1>2, <1>4 DEF MailboxInv, CallOf, BusyOf, UnderWay, Up
  <2>3. CommandOf(c)'
    BY <1>1, <1>2, <1>4 DEF MailboxInv, CallOf, CommandOf
  <2>4. DataOf(c)'
    BY <1>1, <1>2, <1>4, Values DEF MailboxInv, CallOf, DataOf, UnderWay, Commands, HostCommands
  <2> QED BY <2>1, <2>2, <2>3, <2>4 DEF MailboxInv
<1>6. /\ Unanswered(c)' <=> Unanswered(c)
      /\ UnderWay(c)' => UnderWay(c) /\ (Up(c) => Up(c)')
      /\ Undisturbed(c)
  BY <1>2, <1>4 DEF Unanswered, UnderWay, Up, Undisturbed
<1> HIDE DEF Remember, Goto, shared, hostVars, callVars, transferVars, threadVars, looks
<1> QED BY <1>3, <1>4, <1>5, <1>6, CoreFrameInCall

(* A transfer takes the copy first ...                                     *)
LEMMA HostRememberInd ==
  ASSUME CallsInv, RunsInv', NEW c \in CoreIds, HostRemember(c)
  PROVE  CallsInv'
<1> USE DEF HostRemember, Goto, shared, hostVars, callVars, transferVars, threadVars, looks
<1>1. CallsTypeOK /\ RestTypeOK /\ MailboxInv(c) /\ RunInv(c) /\ returned[c] \in Nat
  BY DEF CallsInv, RunsInv, TypeInv, RestTypeOK
<1>2. /\ pc[c] = "host_remember" /\ pc'[c] = "host_command" /\ before'[c] = core_busy[c]
      /\ UNCHANGED <<data, address, back, result, core_busy, core_command>>
  BY <1>1 DEF CallsTypeOK, RestTypeOK, RunInv, MailboxInv, CallOf
<1>3. \A d \in CoreIds \ {c} : SameCore(d)
  BY DEF SameCore
<1>4. /\ UNCHANGED <<coreDoing, list, calls, wanted, returned, served, hostVars, threadVars>>
      /\ Taken(c)' <=> Taken(c)
      /\ Answering(c)' <=> Answering(c)
  BY DEF Taken, Answering
<1>5. MailboxInv(c)'
  <2>1. CallOf(c)'
    BY <1>1, <1>2, <1>4, SameNumbers DEF MailboxInv, CallOf, UnderWay
  <2>2. BusyOf(c)'
    BY <1>1, <1>2, <1>4 DEF MailboxInv, CallOf, BusyOf, UnderWay, Up
  <2>3. CommandOf(c)'
    BY <1>1, <1>2, <1>4 DEF MailboxInv, CallOf, CommandOf
  <2>4. DataOf(c)'
    BY <1>1, <1>2, <1>4, Values DEF MailboxInv, CallOf, DataOf, UnderWay
  <2> QED BY <2>1, <2>2, <2>3, <2>4 DEF MailboxInv
<1>6. /\ Unanswered(c)' <=> Unanswered(c)
      /\ UnderWay(c)' => UnderWay(c) /\ (Up(c) => Up(c)')
      /\ Undisturbed(c)
  BY <1>2, <1>4 DEF Unanswered, UnderWay, Up, Undisturbed
<1> HIDE DEF HostRemember, Goto, shared, hostVars, callVars, transferVars, threadVars, looks
<1> QED BY <1>3, <1>4, <1>5, <1>6, CoreFrameInCall

(* ... and stores its command next.                                        *)
LEMMA HostCommandInd ==
  ASSUME CallsInv, RunsInv', NEW c \in CoreIds, HostCommand(c)
  PROVE  CallsInv'
<1> USE DEF HostCommand, Goto, shared, hostVars, callVars, transferVars, threadVars, looks
<1>1. CallsTypeOK /\ RestTypeOK /\ MailboxInv(c) /\ RunInv(c) /\ returned[c] \in Nat
  BY DEF CallsInv, RunsInv, TypeInv, RestTypeOK
<1>2. /\ pc[c] = "host_command" /\ pc'[c] = "release" /\ core_command'[c] = wanted[c]
      /\ UNCHANGED <<data, address, back, result, core_busy, before>>
      /\ wanted[c] \in HostCommands
  BY <1>1 DEF CallsTypeOK, RestTypeOK, RunInv, MailboxInv, CallOf
<1>3. \A d \in CoreIds \ {c} : SameCore(d)
  BY DEF SameCore
<1>4. /\ UNCHANGED <<coreDoing, list, calls, wanted, returned, served, hostVars, threadVars>>
      /\ Taken(c)' <=> Taken(c)
      /\ Answering(c)' <=> Answering(c)
  BY DEF Taken, Answering
<1>5. MailboxInv(c)'
  <2>1. CallOf(c)'
    BY <1>1, <1>2, <1>4, SameNumbers DEF MailboxInv, CallOf, UnderWay
  <2>2. BusyOf(c)'
    BY <1>1, <1>2, <1>4 DEF MailboxInv, CallOf, BusyOf, UnderWay, Up
  <2>3. CommandOf(c)'
    BY <1>1, <1>2, <1>4 DEF MailboxInv, CallOf, CommandOf
  <2>4. DataOf(c)'
    BY <1>1, <1>2, <1>4, Values DEF MailboxInv, CallOf, DataOf, UnderWay
  <2> QED BY <2>1, <2>2, <2>3, <2>4 DEF MailboxInv
<1>6. /\ Unanswered(c)' <=> Unanswered(c)
      /\ UnderWay(c)' => UnderWay(c) /\ (Up(c) => Up(c)')
      /\ Undisturbed(c)
  BY <1>2, <1>4 DEF Unanswered, UnderWay, Up, Undisturbed
<1> HIDE DEF HostCommand, Goto, shared, hostVars, callVars, transferVars, threadVars, looks
<1> QED BY <1>3, <1>4, <1>5, <1>6, CoreFrameInCall

(* core_busy is cleared, and an answer that was there already is lost.     *)
LEMMA ReleaseInd ==
  ASSUME CallsInv, RunsInv', NEW c \in CoreIds, Release(c) /\ UNCHANGED callVars
  PROVE  CallsInv'
<1> USE DEF Release, Goto, shared, hostVars, callVars, transferVars, threadVars, looks
<1>1. CallsTypeOK /\ RestTypeOK /\ MailboxInv(c) /\ RunInv(c) /\ returned[c] \in Nat
  BY DEF CallsInv, RunsInv, TypeInv, RestTypeOK
<1>2. /\ pc[c] = "release" /\ pc'[c] = "wait" /\ core_busy'[c] = 0
      /\ UNCHANGED <<data, address, back, result, core_command, before>>
  BY <1>1 DEF CallsTypeOK, RestTypeOK, RunInv, MailboxInv, CallOf
<1>3. \A d \in CoreIds \ {c} : SameCore(d)
  BY DEF SameCore
<1>4. /\ UNCHANGED <<coreDoing, list, calls, wanted, returned, served, hostVars, threadVars>>
      /\ Taken(c)' <=> Taken(c)
      /\ Answering(c)' <=> Answering(c)
  BY DEF Taken, Answering
<1>5. MailboxInv(c)'
  <2>1. CallOf(c)'
    BY <1>1, <1>2, <1>4, SameNumbers DEF MailboxInv, CallOf, UnderWay
  <2>2. BusyOf(c)'
    BY <1>1, <1>2, <1>4 DEF MailboxInv, CallOf, BusyOf, UnderWay, Up
  <2>3. CommandOf(c)'
    BY <1>1, <1>2, <1>4 DEF MailboxInv, CallOf, CommandOf
  <2>4. DataOf(c)'
    BY <1>1, <1>2, <1>4, Values DEF MailboxInv, CallOf, DataOf, UnderWay
  <2> QED BY <2>1, <2>2, <2>3, <2>4 DEF MailboxInv
<1>6. /\ Unanswered(c)' <=> Unanswered(c)
      /\ UnderWay(c)' => UnderWay(c) /\ (Up(c) => Up(c)')
      /\ Undisturbed(c)
  BY <1>2, <1>4 DEF Unanswered, UnderWay, Up, Undisturbed
<1> HIDE DEF Release, Goto, shared, hostVars, callVars, transferVars, threadVars, looks
<1> QED BY <1>3, <1>4, <1>5, <1>6, CoreFrameInCall

(* core_run falls after core_busy.                                         *)
LEMMA EndedInd ==
  ASSUME CallsInv, RunsInv', NEW c \in CoreIds, Ended(c) /\ UNCHANGED callVars
  PROVE  CallsInv'
<1> USE DEF Ended, Goto, shared, hostVars, callVars, transferVars, threadVars, looks
<1>1. CallsTypeOK /\ RestTypeOK /\ MailboxInv(c) /\ RunInv(c) /\ returned[c] \in Nat
  BY DEF CallsInv, RunsInv, TypeInv, RestTypeOK
<1>2. /\ pc[c] = "ending" /\ pc'[c] = "ended"
      /\ UNCHANGED <<data, address, back, result, core_command, before, core_busy>>
  BY <1>1 DEF CallsTypeOK, RestTypeOK, RunInv, MailboxInv, CallOf
<1>3. \A d \in CoreIds \ {c} : SameCore(d)
  BY DEF SameCore
<1>4. /\ UNCHANGED <<coreDoing, list, calls, wanted, returned, served, hostVars, threadVars>>
      /\ Taken(c)' <=> Taken(c)
      /\ Answering(c)' <=> Answering(c)
  BY DEF Taken, Answering
<1>5. MailboxInv(c)'
  <2>1. CallOf(c)'
    BY <1>1, <1>2, <1>4, SameNumbers DEF MailboxInv, CallOf, UnderWay
  <2>2. BusyOf(c)'
    BY <1>1, <1>2, <1>4 DEF MailboxInv, CallOf, BusyOf, UnderWay, Up
  <2>3. CommandOf(c)'
    BY <1>1, <1>2, <1>4 DEF MailboxInv, CallOf, CommandOf
  <2>4. DataOf(c)'
    BY <1>1, <1>2, <1>4, Values DEF MailboxInv, CallOf, DataOf, UnderWay
  <2> QED BY <2>1, <2>2, <2>3, <2>4 DEF MailboxInv
<1>6. /\ Unanswered(c)' <=> Unanswered(c)
      /\ UnderWay(c)' => UnderWay(c) /\ (Up(c) => Up(c)')
      /\ Undisturbed(c)
  BY <1>2, <1>4 DEF Unanswered, UnderWay, Up, Undisturbed
<1> HIDE DEF Ended, Goto, shared, hostVars, callVars, transferVars, threadVars, looks
<1> QED BY <1>3, <1>4, <1>5, <1>6, CoreFrameInCall

(* The address names the call.                                             *)
LEMMA AddressInd ==
  ASSUME CallsInv, RunsInv', NEW c \in CoreIds, Address(c)
  PROVE  CallsInv'
<1> USE DEF Address, Goto, shared, hostVars, callVars, transferVars, threadVars, looks
<1>1. CallsTypeOK /\ RestTypeOK /\ MailboxInv(c) /\ RunInv(c) /\ returned[c] \in Nat
  BY DEF CallsInv, RunsInv, TypeInv, RestTypeOK
<1>2. /\ pc[c] = "address" /\ address'[c] = calls[c]
      /\ pc'[c] = (IF wanted[c] = "recv" THEN "host_remember" ELSE "payload")
      /\ wanted[c] \in HostCommands
      /\ UNCHANGED <<data, back, result, core_command, before, core_busy>>
  BY <1>1 DEF CallsTypeOK, RestTypeOK, RunInv, MailboxInv, CallOf
<1>3. \A d \in CoreIds \ {c} : SameCore(d)
  BY DEF SameCore
<1>4. /\ UNCHANGED <<coreDoing, list, calls, wanted, returned, served, hostVars, threadVars>>
      /\ Taken(c)' <=> Taken(c)
      /\ Answering(c)' <=> Answering(c)
  BY DEF Taken, Answering
<1>5. MailboxInv(c)'
  <2>1. CallOf(c)'
    BY <1>1, <1>2, <1>4, SameNumbers DEF MailboxInv, CallOf, UnderWay
  <2>2. BusyOf(c)'
    BY <1>1, <1>2, <1>4 DEF MailboxInv, CallOf, BusyOf, UnderWay, Up
  <2>3. CommandOf(c)'
    BY <1>1, <1>2, <1>4 DEF MailboxInv, CallOf, CommandOf
  <2>4. DataOf(c)'
    BY <1>1, <1>2, <1>4, Values DEF MailboxInv, CallOf, DataOf, UnderWay
  <2> QED BY <2>1, <2>2, <2>3, <2>4 DEF MailboxInv
<1>6. /\ Unanswered(c)' <=> Unanswered(c)
      /\ UnderWay(c)' => UnderWay(c) /\ (Up(c) => Up(c)')
      /\ Undisturbed(c)
  BY <1>2, <1>4 DEF Unanswered, UnderWay, Up, Undisturbed
<1> HIDE DEF Address, Goto, shared, hostVars, callVars, transferVars, threadVars, looks
<1> QED BY <1>3, <1>4, <1>5, <1>6, CoreFrameInCall

(* What the core sends, next to the address.                               *)
LEMMA PayloadInd ==
  ASSUME CallsInv, RunsInv', NEW c \in CoreIds, Payload(c)
  PROVE  CallsInv'
<1> USE DEF Payload, Goto, shared, hostVars, callVars, transferVars, threadVars, looks
<1>1. CallsTypeOK /\ RestTypeOK /\ MailboxInv(c) /\ RunInv(c) /\ returned[c] \in Nat
  BY DEF CallsInv, RunsInv, TypeInv, RestTypeOK
<1>2. /\ pc[c] = "payload" /\ pc'[c] = "host_remember" /\ data'[c].call = calls[c]
      /\ wanted[c] \in HostCommands /\ wanted[c] # "recv"
      /\ UNCHANGED <<address, back, result, core_command, before, core_busy>>
  BY <1>1 DEF CallsTypeOK, RestTypeOK, RunInv, MailboxInv, CallOf, Asked
<1>3. \A d \in CoreIds \ {c} : SameCore(d)
  BY DEF SameCore
<1>4. /\ UNCHANGED <<coreDoing, list, calls, wanted, returned, served, hostVars, threadVars>>
      /\ Taken(c)' <=> Taken(c)
      /\ Answering(c)' <=> Answering(c)
  BY DEF Taken, Answering
<1>5. MailboxInv(c)'
  <2>1. CallOf(c)'
    BY <1>1, <1>2, <1>4, SameNumbers DEF MailboxInv, CallOf, UnderWay
  <2>2. BusyOf(c)'
    BY <1>1, <1>2, <1>4 DEF MailboxInv, CallOf, BusyOf, UnderWay, Up
  <2>3. CommandOf(c)'
    BY <1>1, <1>2, <1>4 DEF MailboxInv, CallOf, CommandOf
  <2>4. DataOf(c)'
    BY <1>1, <1>2, <1>4, Values DEF MailboxInv, CallOf, DataOf, UnderWay
  <2> QED BY <2>1, <2>2, <2>3, <2>4 DEF MailboxInv
<1>6. /\ Unanswered(c)' <=> Unanswered(c)
      /\ UnderWay(c)' => UnderWay(c) /\ (Up(c) => Up(c)')
      /\ Undisturbed(c)
  BY <1>2, <1>4 DEF Unanswered, UnderWay, Up, Undisturbed
<1> HIDE DEF Payload, Goto, shared, hostVars, callVars, transferVars, threadVars, looks
<1> QED BY <1>3, <1>4, <1>5, <1>6, CoreFrameInCall

(* A call to the monitor uses the same bytes.                              *)
LEMMA MonitorFillInd ==
  ASSUME CallsInv, RunsInv', NEW c \in CoreIds, MonitorFill(c)
  PROVE  CallsInv'
<1> USE DEF MonitorFill, Fill, Goto, shared, hostVars, callVars, transferVars, threadVars, looks
<1>1. CallsTypeOK /\ RestTypeOK /\ MailboxInv(c) /\ RunInv(c) /\ returned[c] \in Nat
  BY DEF CallsInv, RunsInv, TypeInv, RestTypeOK
<1>2. /\ pc[c] = "fill" /\ wanted[c] \in Commands \ {"error"} /\ pc'[c] = "command"
      /\ UNCHANGED <<back, result, core_command, before, core_busy>>
  BY <1>1 DEF CallsTypeOK, RestTypeOK, RunInv, MailboxInv, CallOf
<1>3. \A d \in CoreIds \ {c} : SameCore(d)
  BY DEF SameCore
<1>4. /\ UNCHANGED <<coreDoing, list, calls, wanted, returned, served, hostVars, threadVars>>
      /\ Taken(c)' <=> Taken(c)
      /\ Answering(c)' <=> Answering(c)
  BY DEF Taken, Answering
<1>5. MailboxInv(c)'
  <2>1. CallOf(c)'
    BY <1>1, <1>2, <1>4, SameNumbers DEF MailboxInv, CallOf, UnderWay
  <2>2. BusyOf(c)'
    BY <1>1, <1>2, <1>4 DEF MailboxInv, CallOf, BusyOf, UnderWay, Up
  <2>3. CommandOf(c)'
    BY <1>1, <1>2, <1>4 DEF MailboxInv, CallOf, CommandOf
  <2>4. DataOf(c)'
    BY <1>1, <1>2, <1>4, Values DEF MailboxInv, CallOf, DataOf, UnderWay
  <2> QED BY <2>1, <2>2, <2>3, <2>4 DEF MailboxInv
<1>6. /\ Unanswered(c)' <=> Unanswered(c)
      /\ UnderWay(c)' => UnderWay(c) /\ (Up(c) => Up(c)')
      /\ Undisturbed(c)
  BY <1>2, <1>4 DEF Unanswered, UnderWay, Up, Undisturbed
<1> HIDE DEF MonitorFill, Fill, Goto, shared, hostVars, callVars, transferVars, threadVars, looks
<1> QED BY <1>3, <1>4, <1>5, <1>6, CoreFrameInCall

(* The program is over, between two calls.                                 *)
LEMMA EndProgramInd ==
  ASSUME CallsInv, RunsInv', NEW c \in CoreIds, EndProgram(c)
  PROVE  CallsInv'
<1> USE DEF EndProgram, End, Goto, shared, hostVars, callVars, transferVars, threadVars, looks
<1>1. CallsTypeOK /\ RestTypeOK /\ MailboxInv(c) /\ RunInv(c) /\ returned[c] \in Nat
  BY DEF CallsInv, RunsInv, TypeInv, RestTypeOK
<1>2. /\ pc[c] = "running" /\ pc'[c] = "ending" /\ core_busy'[c] = 0
      /\ UNCHANGED <<data, address, back, result, core_command, before>>
  BY <1>1 DEF CallsTypeOK, RestTypeOK, RunInv, MailboxInv, CallOf
<1>3. \A d \in CoreIds \ {c} : SameCore(d)
  BY DEF SameCore
<1>4. /\ UNCHANGED <<coreDoing, list, calls, wanted, returned, served, hostVars, threadVars>>
      /\ Taken(c)' <=> Taken(c)
      /\ Answering(c)' <=> Answering(c)
  BY DEF Taken, Answering
<1>5. MailboxInv(c)'
  <2>1. CallOf(c)'
    BY <1>1, <1>2, <1>4, SameNumbers DEF MailboxInv, CallOf, UnderWay
  <2>2. BusyOf(c)'
    BY <1>1, <1>2, <1>4 DEF MailboxInv, CallOf, BusyOf, UnderWay, Up
  <2>3. CommandOf(c)'
    BY <1>1, <1>2, <1>4 DEF MailboxInv, CallOf, CommandOf
  <2>4. DataOf(c)'
    BY <1>1, <1>2, <1>4, Values DEF MailboxInv, CallOf, DataOf, UnderWay
  <2> QED BY <2>1, <2>2, <2>3, <2>4 DEF MailboxInv
<1>6. /\ Unanswered(c)' <=> Unanswered(c)
      /\ UnderWay(c)' => UnderWay(c) /\ (Up(c) => Up(c)')
      /\ Undisturbed(c)
  BY <1>2, <1>4 DEF Unanswered, UnderWay, Up, Undisturbed
<1> HIDE DEF EndProgram, End, Goto, shared, hostVars, callVars, transferVars, threadVars, looks
<1> QED BY <1>3, <1>4, <1>5, <1>6, CoreFrameInCall

(* The core turns to its next call; what it has behind it stays the same.  *)
LEMMA NextCallInd ==
  ASSUME CallsInv, RunsInv', NEW c \in CoreIds, NextCall(c)
  PROVE  CallsInv'
<1>1. CallsTypeOK /\ RestTypeOK /\ MailboxInv(c)
  BY DEF CallsInv, RunsInv, TypeInv
<1>2. PICK i : /\ i \in DOMAIN list
               /\ Earliest(i, CoreItems(c, coreDoing[c]))
               /\ IF list[i].call \in HostCommands
                    THEN BeginTransfer(c, i) ELSE Begin(c, list[i].call)
               /\ coreDoing' = [coreDoing EXCEPT ![c] = i]
  BY DEF NextCall
<1>3. /\ list \in Seq(Items) /\ coreDoing[c] \in 0..Len(list) /\ Len(list) \in Nat
      /\ coreDoing[c] # 0 => list[coreDoing[c]].core = c
  BY <1>1 DEF RestTypeOK, CallsTypeOK, MailboxInv, CallOf
<1>4. /\ list[i].core = c /\ i > coreDoing[c] /\ i \in 0..Len(list) /\ i # 0
      /\ NumberOf(i) = IF coreDoing[c] = 0 THEN 1 ELSE NumberOf(coreDoing[c]) + 1
  BY <1>2, <1>3, NextNumber, ItemFacts
<1>5. list[i].call \in (Commands \ {"error"}) \cup HostCommands
  <2>1. list[i] \in Items
    BY <1>2, <1>3
  <2> QED BY <2>1 DEF Items
<1>6. /\ pc[c] = "running" /\ calls[c] < MaxCalls
      /\ calls' = [calls EXCEPT ![c] = calls[c] + 1]
      /\ wanted' = [wanted EXCEPT ![c] = list[i].call]
      /\ pc' = [pc EXCEPT ![c] = IF list[i].call \in HostCommands THEN "address" ELSE "fill"]
      /\ coreDoing' = [coreDoing EXCEPT ![c] = i]
      /\ UNCHANGED <<core_run, core_busy, core_command, data, before, returned, result>>
      /\ UNCHANGED <<hostPc, scan, active, totalActive, pb, served>>
      /\ UNCHANGED <<list, address, back, declared, threadVars>>
  BY <1>2, <1>5 DEF NextCall, BeginTransfer, Begin, Goto, shared, hostVars
<1>7. /\ pc'[c] = (IF list[i].call \in HostCommands THEN "address" ELSE "fill")
      /\ calls'[c] = calls[c] + 1 /\ wanted'[c] = list[i].call /\ coreDoing'[c] = i
      /\ returned'[c] = returned[c] /\ served'[c] = served[c] /\ returned[c] \in Nat
      /\ calls[c] = returned[c]
  BY <1>1, <1>6 DEF CallsTypeOK, RestTypeOK, MailboxInv, CallOf, UnderWay
<1>8. /\ UnderWay(c)' /\ ~UnderWay(c) /\ ~Taken(c) /\ ~Taken(c)' /\ ~Up(c)
      /\ ~Answering(c) /\ ~Answering(c)'
  <2>1. ~Taken(c) /\ ~Answering(c)
    BY <1>1, <1>6 DEF MailboxInv, CallOf, BusyOf
  <2> QED BY <1>6, <1>7, <2>1 DEF UnderWay, Taken, Up, Answering
<1>9. MailboxInv(c)'
  <2>1. CallOf(c)'
    <3>1. NumberOf(i) = calls[c] + 1
      BY <1>1, <1>4, <1>7 DEF MailboxInv, CallOf
    <3>2. NumberOf(coreDoing[c])' = NumberOf(i)
      BY <1>6, <1>7 DEF NumberOf
    <3>3. /\ calls'[c] = returned'[c] + 1 /\ served'[c] = returned'[c]
          /\ NumberOf(coreDoing[c])' = calls'[c] /\ coreDoing'[c] # 0
      BY <1>1, <1>4, <1>7, <1>8, <3>1, <3>2 DEF MailboxInv, CallOf, Taken
    <3>4. list'[coreDoing'[c]].core = c /\ list'[coreDoing'[c]].call = wanted'[c]
      BY <1>4, <1>6, <1>7
    <3>5. /\ pc'[c] \in {"address", "fill"}
          /\ pc'[c] = "address" => wanted'[c] \in HostCommands
          /\ pc'[c] = "fill" => wanted'[c] \in Commands \ {"error"}
      BY <1>5, <1>7
    <3>6. hostPc' = "start" => served'[c] = 0
      BY <1>1, <1>6 DEF MailboxInv, CallOf
    <3> QED BY <1>8, <3>3, <3>4, <3>5, <3>6 DEF CallOf
  <2>2. BusyOf(c)'
    BY <1>1, <1>6, <1>7, <1>8 DEF MailboxInv, BusyOf, UnderWay, Up
  <2>3. CommandOf(c)'
    BY <1>1, <1>6, <1>7, <1>8 DEF MailboxInv, CommandOf
  <2>4. DataOf(c)'
    BY <1>5, <1>7, <1>8 DEF DataOf
  <2> QED BY <2>1, <2>2, <2>3, <2>4 DEF MailboxInv
<1>10. \A d \in CoreIds \ {c} : SameCore(d)
  BY <1>1, <1>6 DEF SameCore, CallsTypeOK, RestTypeOK
<1>11. ASSUME NEW j \in DOMAIN list, list[j].core = c
       PROVE  CorePast(j)' <=> CorePast(j)
  <2>1. j \in Nat /\ j \in 1..Len(list) /\ i \in Nat /\ coreDoing[c] \in Nat
    BY <1>3, <1>4, ItemFacts
  <2>2. j > coreDoing[c] => i <= j
    BY <1>2, <1>11, <2>1 DEF Earliest, CoreItems
  <2>3. Unanswered(c)' /\ ~Unanswered(c)
    BY <1>8 DEF Unanswered
  <2> QED BY <1>4, <1>6, <1>7, <1>11, <2>1, <2>2, <2>3 DEF CorePast
<1>12. Onward(c) /\ Undisturbed(c)
  BY <1>7, <1>8 DEF Onward, Undisturbed
<1> HIDE DEF MailboxInv, CallsTypeOK, RestTypeOK
<1> QED BY <1>6, <1>9, <1>10, <1>11, <1>12, CoreFrame DEF hostVars

(* The spin ends, because the call was taken.                              *)
LEMMA TransferReturnInd ==
  ASSUME CallsInv, RunsInv', NEW c \in CoreIds, TransferReturn(c)
  PROVE  CallsInv'
<1>1. CallsTypeOK /\ RestTypeOK /\ MailboxInv(c)
  BY DEF CallsInv, RunsInv, TypeInv
<1>2. /\ pc[c] = "wait" /\ SpinEnds(c)
      /\ result' = [result EXCEPT ![c] = IF wanted[c] = "sendrecv" THEN back[c] ELSE data[c]]
      /\ returned' = [returned EXCEPT ![c] = returned[c] + 1]
      /\ pc' = [pc EXCEPT ![c] = "running"]
      /\ UNCHANGED <<core_run, core_busy, core_command, data, wanted, before, calls>>
      /\ UNCHANGED <<hostPc, scan, active, totalActive, pb, served, callVars>>
  BY DEF TransferReturn, Return, Goto, shared, hostVars
<1>3. UNCHANGED <<list, address, back, declared, coreDoing, threadVars>>
  BY <1>2 DEF callVars, transferVars
<1>4. /\ core_busy[c] = returned[c] + 2 /\ Taken(c) /\ ~Answering(c)
      /\ returned[c] \in Nat /\ UnderWay(c)
  <2>1. returned[c] \in Nat /\ UnderWay(c)
    BY <1>1, <1>2 DEF RestTypeOK, UnderWay
  <2> QED BY <1>1, <1>2, <2>1 DEF MailboxInv, BusyOf, SpinEnds
<1>5. /\ pc'[c] = "running" /\ returned'[c] = returned[c] + 1
      /\ result'[c] = IF wanted[c] = "sendrecv" THEN back[c] ELSE data[c]
      /\ ~UnderWay(c)' /\ ~Taken(c)' /\ ~Answering(c)' /\ ~Up(c)'
  <2>1. /\ pc'[c] = "running" /\ returned'[c] = returned[c] + 1
        /\ result'[c] = IF wanted[c] = "sendrecv" THEN back[c] ELSE data[c]
    BY <1>1, <1>2 DEF CallsTypeOK, RestTypeOK
  <2> QED BY <1>2, <1>4, <2>1 DEF UnderWay, Taken, Answering, Up
<1>6. MailboxInv(c)'
  <2>1. CallOf(c)'
    BY <1>1, <1>2, <1>3, <1>4, <1>5, SameNumbers DEF MailboxInv, CallOf, Taken
  <2>2. BusyOf(c)'
    BY <1>1, <1>2, <1>3, <1>4, <1>5 DEF MailboxInv, CallOf, BusyOf, Taken
  <2>3. CommandOf(c)'
    BY <1>1, <1>2, <1>3, <1>4, <1>5 DEF MailboxInv, CommandOf
  <2>4. DataOf(c)'
    BY <1>1, <1>2, <1>3, <1>4, <1>5 DEF MailboxInv, DataOf
  <2> QED BY <2>1, <2>2, <2>3, <2>4 DEF MailboxInv
<1>7. \A d \in CoreIds \ {c} : SameCore(d)
  BY <1>1, <1>2, <1>3 DEF SameCore, CallsTypeOK, RestTypeOK
<1>8. ~Unanswered(c) /\ ~Unanswered(c)' /\ Undisturbed(c)
  BY <1>4, <1>5 DEF Unanswered, Undisturbed
<1> HIDE DEF MailboxInv, CallsTypeOK, RestTypeOK
<1> QED BY <1>2, <1>3, <1>5, <1>6, <1>7, <1>8, CoreFrameInCall DEF hostVars

-------------------------------------------------------------------------------
(* The monitor moves on and touches no mailbox.                            *)
LEMMA MonitorMoves ==
  ASSUME CallsInv, RunsInv',
         UNCHANGED <<core_busy, core_command, data, coreVars, served, callVars>>,
         hostPc # "answer", hostPc' # "answer", hostPc' = "start" => hostPc = "start",
         \A d \in CoreIds : hostPc' # "start" => pb'[d] = served[d] + 1
  PROVE  CallsInv'
<1>1. /\ UNCHANGED <<pc, wanted, before, calls, returned, result>>
      /\ UNCHANGED <<list, address, back, declared, coreDoing>>
      /\ UNCHANGED <<threadPc, threadDoing, got, seen>>
  BY DEF coreVars, callVars, transferVars, threadVars, looks
<1>2. ASSUME NEW d \in CoreIds
      PROVE  MailboxInv(d)'
  <2>1. /\ UnderWay(d)' = UnderWay(d) /\ Up(d)' = Up(d) /\ Taken(d)' = Taken(d)
        /\ ~Answering(d) /\ ~Answering(d)' /\ MailboxInv(d)
    BY <1>1 DEF UnderWay, Answering, Up, Taken, CallsInv
  <2>2. NumberOf(coreDoing[d])' = NumberOf(coreDoing[d])
    BY <1>1 DEF NumberOf
  <2>3. CallOf(d)'
    BY <1>1, <2>1, <2>2 DEF MailboxInv, CallOf
  <2>4. BusyOf(d)'
    BY <1>1, <2>1 DEF MailboxInv, BusyOf
  <2>5. CommandOf(d)' /\ DataOf(d)'
    BY <1>1, <2>1 DEF MailboxInv, CommandOf, DataOf
  <2> QED BY <2>3, <2>4, <2>5 DEF MailboxInv
<1>3. ASSUME NEW t \in Threads
      PROVE  ThreadInv(t)'
  <2>1. NumberOf(threadDoing[t])' = NumberOf(threadDoing[t])
    BY <1>1 DEF NumberOf
  <2> QED BY <1>1, <2>1 DEF CallsInv, ThreadInv, Acts, UnderWay, Up, Taken, OnePartner
<1>4. ASSUME NEW j \in DOMAIN list'
      PROVE  PairInv(j)'
  BY <1>1, <1>4 DEF CallsInv, PairInv, CorePast, ThreadPast, Unanswered, UnderWay, Taken
<1> QED BY <1>2, <1>3, <1>4 DEF CallsInv

LEMMA MonitorMovesInd ==
  ASSUME CallsInv, RunsInv', UNCHANGED callVars,
         StartCore \/ StartWatch \/ Round \/ Look \/ Deactivate \/ NoCommand
  PROVE  CallsInv'
<1>1. /\ UNCHANGED <<core_busy, core_command, data, coreVars, served, callVars>>
      /\ hostPc # "answer" /\ hostPc' # "answer" /\ (hostPc' = "start" => hostPc = "start")
      /\ (hostPc' # "start" => hostPc # "start" /\ pb' = pb) \/ StartWatch
  BY DEF StartCore, StartWatch, Round, Look, Deactivate, NoCommand, NextCore, shared
<1>2. \A d \in CoreIds : hostPc # "start" => pb[d] = served[d] + 1
  BY <1>1 DEF CallsInv, MailboxInv, BusyOf, Answering
<1>3. StartWatch => \A d \in CoreIds : pb'[d] = served[d] + 1
  BY DEF StartWatch, CallsInv, MailboxInv, CallOf
<1> QED BY <1>1, <1>2, <1>3, MonitorMoves

(* Threads leave a call to the monitor alone.                              *)
LEMMA NotForThreads ==
  ASSUME CallsInv, NEW c \in CoreIds, wanted[c] \in Commands, coreDoing[c] # 0
  PROVE  list[coreDoing[c]].thread \notin Threads
<1>1. CallOf(c) /\ list \in Seq(Items) /\ coreDoing[c] \in 0..Len(list)
  BY DEF CallsInv, RunsInv, TypeInv, MailboxInv, RestTypeOK, CallsTypeOK
<1>2. coreDoing[c] \in DOMAIN list /\ list[coreDoing[c]].call = wanted[c]
  BY <1>1 DEF CallOf
<1> QED BY <1>1, <1>2, ItemFacts, Values, ThreadsAssumption

(* The monitor executes a command, perhaps before the core waits: it may   *)
(* have loaded core_busy in the call before.                               *)
LEMMA ServeInd ==
  ASSUME CallsInv, RunsInv', UNCHANGED callVars, Serve
  PROVE  CallsInv'
<1>1. CallsTypeOK /\ RestTypeOK /\ TotalCores \in Nat
  BY TotalAssumption DEF CallsInv, RunsInv, TypeInv
<1>0. PICK c \in CoreIds : c = scan
  BY <1>1 DEF RestTypeOK, Serve, CoreIds
<1>2. /\ MailboxInv(c) /\ returned[c] \in Nat /\ served[c] \in Nat
  BY <1>1 DEF CallsInv, RestTypeOK
<1>3. /\ hostPc = "check" /\ core_command[c] \in Commands
      /\ \/ data' = data
         \/ data' = [data EXCEPT ![c] = Answer(data[c].call)]
      /\ core_command' = [core_command EXCEPT ![c] = None]
      /\ served' = [served EXCEPT ![c] = served[c] + 1]
      /\ hostPc' = "answer"
      /\ UNCHANGED <<core_run, core_busy, pc, wanted, before, calls, returned, result>>
      /\ UNCHANGED <<scan, active, totalActive, pb>>
      /\ UNCHANGED <<list, address, back, declared, coreDoing, threadVars>>
  BY <1>0 DEF Serve, coreVars, callVars, transferVars
<1>4. /\ pc[c] \in {"remember", "release", "wait"} /\ ~Taken(c)
      /\ wanted[c] \in Commands /\ UnderWay(c) /\ ~Answering(c) /\ served[c] = returned[c]
  <2>1. pc[c] \in {"remember", "release", "wait"} /\ ~Taken(c) /\ wanted[c] = core_command[c]
    BY <1>2, <1>3, Values DEF MailboxInv, CommandOf
  <2> QED BY <1>2, <1>3, <2>1 DEF UnderWay, Answering, MailboxInv, CallOf, Taken
<1>5. /\ Answering(c)' /\ Taken(c)' /\ UnderWay(c)' /\ (Up(c)' <=> Up(c))
      /\ served'[c] = served[c] + 1 /\ core_command'[c] = None
  <2>1. served'[c] = served[c] + 1 /\ core_command'[c] = None
    BY <1>1, <1>3 DEF CallsTypeOK, RestTypeOK
  <2> QED BY <1>0, <1>3, <1>4, <2>1 DEF Answering, Taken, UnderWay, Up
<1>6. MailboxInv(c)'
  <2>1. CallOf(c)'
    BY <1>2, <1>3, <1>4, <1>5, SameNumbers DEF MailboxInv, CallOf
  <2>2. BusyOf(c)'
    BY <1>2, <1>3, <1>4, <1>5 DEF MailboxInv, BusyOf
  <2>3. CommandOf(c)'
    BY <1>5 DEF CommandOf
  <2>4. DataOf(c)'
    BY <1>2, <1>3, <1>4, <1>5 DEF MailboxInv, DataOf, Commands, HostCommands
  <2> QED BY <2>1, <2>2, <2>3, <2>4 DEF MailboxInv
<1>7. \A d \in CoreIds \ {c} : SameCore(d)
  BY <1>1, <1>3 DEF SameCore, CallsTypeOK, RestTypeOK
<1>8. ASSUME NEW d \in CoreIds
      PROVE  MailboxInv(d)'
  <2>1. CASE d = c
    BY <1>6, <2>1
  <2>2. CASE d # c
    <3>1. MailboxInv(d) /\ SameCore(d) /\ ~Answering(d) /\ ~Answering(d)'
      BY <1>0, <1>3, <1>7, <2>2 DEF CallsInv, Answering
    <3> QED BY <1>3, <3>1, OtherCore
  <2> QED BY <2>1, <2>2
<1>9. Onward(c) /\ Undisturbed(c)
  BY <1>3, <1>4, <1>5, Values DEF Onward, Undisturbed
<1>10. ASSUME NEW j \in DOMAIN list, list[j].core = c, list[j].thread \in Threads
       PROVE  CorePast(j)' <=> CorePast(j)
  <2>1. j # coreDoing[c]
    BY <1>1, <1>4, <1>10, ItemFacts, NotForThreads DEF RestTypeOK
  <2> QED BY <1>3, <1>10, <2>1 DEF CorePast
<1> HIDE DEF MailboxInv, CallsTypeOK, RestTypeOK
<1> QED BY <1>3, <1>7, <1>8, <1>9, <1>10, MailboxFrame

(* The monitor gives core_busy back, which does not wrap.                  *)
LEMMA GiveBackInd ==
  ASSUME CallsInv, RunsInv', UNCHANGED callVars, GiveBack, MaxCalls < BusyMax
  PROVE  CallsInv'
<1>1. CallsTypeOK /\ RestTypeOK /\ TotalCores \in Nat
  BY TotalAssumption DEF CallsInv, RunsInv, TypeInv
<1>0. PICK c \in CoreIds : c = scan
  BY <1>1 DEF RestTypeOK, GiveBack, CoreIds
<1>2. /\ MailboxInv(c) /\ returned[c] \in Nat /\ served[c] \in Nat /\ calls[c] \in 0..MaxCalls
  BY <1>1 DEF CallsInv, RestTypeOK
<1>3. /\ hostPc = "answer"
      /\ pb' = [pb EXCEPT ![c] = (pb[c] + 1) % (BusyMax + 1)]
      /\ core_busy' = [core_busy EXCEPT ![c] = pb'[c]]
      /\ hostPc' \in {"look", "round"}
      /\ UNCHANGED <<core_run, core_command, data, pc, wanted, before, calls, returned, result>>
      /\ UNCHANGED <<active, totalActive, served>>
      /\ UNCHANGED <<list, address, back, declared, coreDoing, threadVars>>
  BY <1>0 DEF GiveBack, NextCore, coreVars, callVars, transferVars
<1>4. /\ Answering(c) /\ Taken(c) /\ wanted[c] \in Commands
      /\ pc[c] \in {"remember", "release", "wait"} /\ UnderWay(c)
      /\ served[c] = returned[c] + 1 /\ pb[c] = served[c] /\ calls[c] = returned[c] + 1
  <2>1. Answering(c)
    BY <1>0, <1>3 DEF Answering
  <2>2. Taken(c) /\ wanted[c] \in Commands /\ pc[c] \in {"remember", "release", "wait"}
    BY <1>2, <2>1 DEF MailboxInv, BusyOf, CallOf
  <2> QED BY <1>2, <1>3, <2>1, <2>2 DEF MailboxInv, BusyOf, CallOf, Taken, UnderWay
<1>5. (pb[c] + 1) % (BusyMax + 1) = returned[c] + 2 /\ returned[c] + 2 \in 0..BusyMax
  BY <1>2, <1>4, BusyAssumption, CallsAssumption
<1>6. pb'[c] = returned[c] + 2 /\ core_busy'[c] = returned[c] + 2
  BY <1>1, <1>3, <1>5 DEF CallsTypeOK, RestTypeOK
<1>7. ~Answering(c)' /\ Taken(c)' /\ UnderWay(c)' /\ (Up(c)' <=> Up(c))
  BY <1>3, <1>4 DEF Answering, Taken, UnderWay, Up
<1>8. MailboxInv(c)'
  <2>1. CallOf(c)'
    BY <1>2, <1>3, <1>4, <1>7, SameNumbers DEF MailboxInv, CallOf
  <2>2. BusyOf(c)'
    BY <1>2, <1>3, <1>4, <1>6, <1>7 DEF MailboxInv, BusyOf
  <2>3. CommandOf(c)'
    BY <1>2, <1>3, <1>4, <1>7 DEF MailboxInv, CommandOf
  <2>4. DataOf(c)'
    BY <1>2, <1>3, <1>4, <1>7 DEF MailboxInv, DataOf
  <2> QED BY <2>1, <2>2, <2>3, <2>4 DEF MailboxInv
<1>9. \A d \in CoreIds \ {c} : SameCore(d) /\ pb'[d] = pb[d]
  BY <1>1, <1>3 DEF SameCore, CallsTypeOK, RestTypeOK
<1>10. ASSUME NEW d \in CoreIds
       PROVE  MailboxInv(d)'
  <2>1. CASE d = c
    BY <1>8, <2>1
  <2>2. CASE d # c
    <3>1. MailboxInv(d) /\ SameCore(d) /\ pb'[d] = pb[d] /\ ~Answering(d) /\ ~Answering(d)'
      BY <1>0, <1>3, <1>9, <2>2 DEF CallsInv, Answering
    <3> QED BY <1>3, <3>1, OtherCore
  <2> QED BY <2>1, <2>2
<1>11. Onward(c) /\ Undisturbed(c)
  BY <1>3, <1>4, <1>7, Values DEF Onward, Undisturbed
<1>12. ASSUME NEW j \in DOMAIN list, list[j].core = c, list[j].thread \in Threads
       PROVE  CorePast(j)' <=> CorePast(j)
  <2>1. j # coreDoing[c]
    BY <1>1, <1>4, <1>12, ItemFacts, NotForThreads DEF RestTypeOK
  <2> QED BY <1>3, <1>12, <2>1 DEF CorePast
<1> HIDE DEF MailboxInv, CallsTypeOK, RestTypeOK
<1> QED BY <1>3, <1>9, <1>10, <1>11, <1>12, MailboxFrame

-------------------------------------------------------------------------------
(* A thread turns to its next call, looks at a mailbox, or leaves one: what *)
(* the mailboxes say does not change.                                      *)
SameThread(u) ==
  /\ threadPc'[u] = threadPc[u] /\ threadDoing'[u] = threadDoing[u]
  /\ got'[u] = got[u] /\ seen'[u] = seen[u]

LEMMA ThreadFrame ==
  ASSUME CallsInv, RunsInv', NEW t \in Threads, UNCHANGED <<vars, list, transferVars>>,
         \A u \in Threads \ {t} : SameThread(u), ThreadInv(t)',
         \A j \in DOMAIN list : list[j].thread = t => (ThreadPast(j)' <=> ThreadPast(j))
  PROVE  CallsInv'
<1>1. /\ UNCHANGED <<core_run, core_busy, core_command, data>>
      /\ UNCHANGED <<pc, wanted, before, calls, returned, result>>
      /\ UNCHANGED <<hostPc, scan, active, totalActive, pb, served>>
      /\ UNCHANGED <<list, address, back, declared, coreDoing>>
  BY DEF vars, shared, coreVars, hostVars, transferVars
<1>2. ASSUME NEW d \in CoreIds
      PROVE  MailboxInv(d)'
  <2>1. MailboxInv(d) /\ SameCore(d) /\ (Answering(d)' <=> Answering(d))
    BY <1>1 DEF CallsInv, SameCore, Answering
  <2> QED BY <1>1, <2>1, OtherCore
<1>3. ASSUME NEW u \in Threads
      PROVE  ThreadInv(u)'
  <2>1. CASE u # t
    <3>1. NumberOf(threadDoing[u])' = NumberOf(threadDoing[u]) /\ SameThread(u) /\ ThreadInv(u)
      BY <1>1, <2>1 DEF NumberOf, SameThread, CallsInv
    <3> QED BY <1>1, <3>1 DEF ThreadInv, SameThread, Acts, UnderWay, Up, Taken, OnePartner
  <2> QED BY <2>1
<1>4. ASSUME NEW j \in DOMAIN list'
      PROVE  PairInv(j)'
  <2>1. PairInv(j) /\ (CorePast(j)' <=> CorePast(j))
    BY <1>1, <1>4 DEF CallsInv, CorePast, Unanswered, UnderWay, Taken
  <2>2. ASSUME list[j].thread \in Threads
        PROVE  ThreadPast(j)' <=> ThreadPast(j)
    <3>1. CASE list[j].thread = t
      BY <1>1, <1>4, <3>1
    <3>2. CASE list[j].thread # t
      BY <1>1, <2>2, <3>2 DEF ThreadPast, SameThread
    <3> QED BY <3>1, <3>2
  <2> QED BY <1>1, <2>1, <2>2 DEF PairInv
<1> QED BY <1>2, <1>3, <1>4 DEF CallsInv

LEMMA ThreadCallInd ==
  ASSUME CallsInv, RunsInv', NEW t \in Threads, ThreadCall(t)
  PROVE  CallsInv'
<1>1. CallsTypeOK /\ RestTypeOK /\ ThreadInv(t)
  BY DEF CallsInv, RunsInv, TypeInv
<1>2. PICK i \in DOMAIN list : /\ Earliest(i, ThreadItems(t, threadDoing[t]))
                               /\ threadDoing' = [threadDoing EXCEPT ![t] = i]
  BY DEF ThreadCall
<1>3. /\ threadPc[t] = "idle" /\ hostPc # "start" /\ threadPc' = [threadPc EXCEPT ![t] = "poll"]
      /\ UNCHANGED <<vars, list, transferVars, got, seen>> /\ hostPc' = hostPc
  BY DEF ThreadCall, ThreadGoto, looks, vars, hostVars
<1>4. /\ i \in Nat /\ i # 0 /\ i \in 0..Len(list) /\ threadDoing[t] \in Nat
      /\ Len(list) \in Nat /\ DOMAIN list = 1..Len(list)
  BY <1>1, ItemFacts DEF RestTypeOK, CallsTypeOK
<1>5. /\ i > threadDoing[t] /\ list[i].thread = t
      /\ \A j \in DOMAIN list : j > threadDoing[t] /\ list[j].thread = t => i <= j
  BY <1>2, <1>4 DEF Earliest, ThreadItems
<1>6. /\ threadDoing'[t] = i /\ threadPc'[t] = "poll"
      /\ \A u \in Threads \ {t} : SameThread(u)
  BY <1>1, <1>2, <1>3 DEF CallsTypeOK, SameThread
<1>7. ThreadInv(t)'
  BY <1>3, <1>6 DEF ThreadInv, Acts
<1>8. ASSUME NEW j \in DOMAIN list, list[j].thread = t
      PROVE  ThreadPast(j)' <=> ThreadPast(j)
  BY <1>3, <1>4, <1>5, <1>6, <1>8 DEF ThreadPast
<1> QED BY <1>3, <1>6, <1>7, <1>8, ThreadFrame

(* A core that is in a transfer with the thread, not yet answered, is in   *)
(* the transfer the thread is in: neither has it behind itself, and each   *)
(* comes to the transfers they share in the same order.                    *)
LEMMA SameTransfer ==
  ASSUME CallsInv, NEW t \in Threads, threadPc[t] \in {"poll", "check"},
         NEW c \in CoreIds, c = list[threadDoing[t]].core,
         Unanswered(c), list[coreDoing[c]].thread = t
  PROVE  coreDoing[c] = threadDoing[t]
<1>1. /\ CallsTypeOK /\ RestTypeOK /\ TypeInv /\ CallOf(c) /\ UnderWay(c)
  BY DEF CallsInv, RunsInv, TypeInv, MailboxInv, Unanswered
<1>2. threadDoing[t] \in DOMAIN list /\ threadDoing[t] \in Nat /\ list[threadDoing[t]].thread = t
  BY <1>1, ThreadItem
<1>3. /\ coreDoing[c] # 0 /\ coreDoing[c] \in 0..Len(list) /\ list[coreDoing[c]].core = c
      /\ list \in Seq(Items)
  BY <1>1 DEF CallOf, CallsTypeOK, RestTypeOK
<1>4. coreDoing[c] \in DOMAIN list /\ coreDoing[c] \in Nat
  BY <1>3
<1>5. PairInv(coreDoing[c]) /\ PairInv(threadDoing[t])
  BY <1>2, <1>4 DEF CallsInv
<1>6. ~CorePast(coreDoing[c])
  BY <1>3, <1>4 DEF CorePast
<1>7. ~(coreDoing[c] < threadDoing[t])
  BY <1>5, <1>6 DEF PairInv, ThreadPast
<1>8. ~ThreadPast(threadDoing[t])
  BY <1>2 DEF ThreadPast
<1>9. ~(threadDoing[t] < coreDoing[c])
  BY <1>2, <1>5, <1>8 DEF PairInv, CorePast
<1> QED BY <1>2, <1>4, <1>7, <1>9

(* The command it sees is up, and the core may be at any place from there  *)
(* to its wait.                                                            *)
LEMMA SeeCommandInd ==
  ASSUME CallsInv, RunsInv', NEW t \in Threads, SeeCommand(t)
  PROVE  CallsInv'
<1>1. /\ CallsTypeOK /\ RestTypeOK /\ TypeInv /\ ThreadInv(t) /\ threadPc[t] = "poll"
      /\ threadPc[t] # "idle"
  BY DEF CallsInv, RunsInv, TypeInv, SeeCommand
<1>2. PICK c \in CoreIds : c = list[threadDoing[t]].core
  BY <1>1, ThreadItem
<1>3. /\ list[threadDoing[t]].thread = t /\ list[threadDoing[t]].call \in HostCommands
      /\ threadDoing[t] \in DOMAIN list /\ hostPc # "start"
  BY <1>1, ThreadItem DEF ThreadInv
<1>4. /\ core_command[c] = list[threadDoing[t]].call
      /\ threadPc' = [threadPc EXCEPT ![t] = "check"]
      /\ seen' = [seen EXCEPT ![t] = calls[c]]
      /\ UNCHANGED <<vars, list, transferVars, threadDoing, got>>
      /\ UNCHANGED <<data, pc, wanted, calls, served, returned, hostPc, back, coreDoing>>
  BY <1>2 DEF SeeCommand, ThreadGoto, vars, shared, hostVars, coreVars, transferVars
<1>5. /\ Up(c) /\ ~Taken(c) /\ UnderWay(c) /\ Unanswered(c)
      /\ wanted[c] = list[threadDoing[t]].call
  <2>1. CommandOf(c) /\ CallOf(c)
    BY DEF CallsInv, MailboxInv
  <2>2. /\ pc[c] \in {"remember", "release", "wait"} /\ ~Taken(c)
        /\ wanted[c] = list[threadDoing[t]].call
    BY <1>3, <1>4, <2>1, Values DEF CommandOf
  <2>3. pc[c] # "remember"
    BY <1>3, <2>1, <2>2, Values DEF CallOf
  <2> QED BY <2>2, <2>3 DEF Up, UnderWay, Unanswered
<1>6. list[coreDoing[c]].thread = t => coreDoing[c] = threadDoing[t]
  BY <1>1, <1>2, <1>5, SameTransfer
<1>7. OnePartner(list) => list[coreDoing[c]].thread = t
  <2>1. /\ coreDoing[c] \in 0..Len(list) /\ coreDoing[c] # 0 /\ list \in Seq(Items)
        /\ list[coreDoing[c]].core = c /\ list[coreDoing[c]].call = wanted[c]
    BY <1>1, <1>5 DEF CallsTypeOK, RestTypeOK, CallsInv, MailboxInv, CallOf
  <2>2. coreDoing[c] \in DOMAIN list
    BY <2>1
  <2> QED BY <1>2, <1>3, <1>5, <2>1, <2>2 DEF OnePartner
<1>8. /\ threadPc'[t] = "check" /\ seen'[t] = calls[c] /\ calls[c] \in Nat
      /\ \A u \in Threads \ {t} : SameThread(u)
  BY <1>1, <1>4, CallsAssumption DEF CallsTypeOK, RestTypeOK, SameThread
<1>9. (UnderWay(c)' <=> UnderWay(c)) /\ (Up(c)' <=> Up(c)) /\ (Taken(c)' <=> Taken(c))
      /\ (OnePartner(list)' <=> OnePartner(list))
  BY <1>4 DEF UnderWay, Up, Taken, OnePartner
<1>10. ThreadInv(t)'
  BY <1>2, <1>3, <1>4, <1>5, <1>6, <1>7, <1>8, <1>9 DEF ThreadInv, Acts
<1>11. \A j \in DOMAIN list : list[j].thread = t => (ThreadPast(j)' <=> ThreadPast(j))
  BY <1>1, <1>4, <1>8 DEF ThreadPast
<1> QED BY <1>4, <1>8, <1>10, <1>11, ThreadFrame

(* What the address says to a thread that saw a command, unless the core   *)
(* has gone on since and the look was overtaken: the core is in the        *)
(* transfer the thread is in.                                              *)
LEMMA LookedAt ==
  ASSUME CallsInv, NEW t \in Threads, threadPc[t] = "check",
         NEW c \in CoreIds, c = list[threadDoing[t]].core, Names(c, t), calls[c] = seen[t]
  PROVE  Up(c) /\ ~Taken(c) /\ coreDoing[c] = threadDoing[t]
<1>1. /\ CallsTypeOK /\ RestTypeOK /\ TypeInv /\ ThreadInv(t) /\ CallOf(c) /\ DataOf(c)
      /\ RunInv(c) /\ threadPc[t] # "idle"
  BY DEF CallsInv, RunsInv, TypeInv, MailboxInv
<1>2. /\ threadDoing[t] \in DOMAIN list /\ list[threadDoing[t]].thread = t
      /\ threadDoing[t] \in Nat /\ hostPc # "start" /\ c \in Intent
  BY <1>1, ThreadItem DEF ThreadInv
<1>3. /\ UnderWay(c) => Up(c)
      /\ wanted[c] \in HostCommands
      /\ list[coreDoing[c]].thread = t => coreDoing[c] = threadDoing[t]
  BY <1>1 DEF ThreadInv
<1>4. address[c] = calls[c]
  <2>1. pc[c] \notin {"boot", "fill", "command", "remember", "address"}
    BY <1>1, <1>2, <1>3 DEF RunInv, UnderWay, Up
  <2> QED BY <1>1, <1>3, <2>1 DEF DataOf
<1>5. /\ coreDoing[c] # 0 /\ coreDoing[c] \in 0..Len(list) /\ list \in Seq(Items)
      /\ list[coreDoing[c]].core = c /\ NumberOf(coreDoing[c]) = calls[c]
  BY <1>1, <1>3, Values DEF CallOf, CallsTypeOK, RestTypeOK
<1>6. coreDoing[c] \in DOMAIN list
  BY <1>5
<1>7. coreDoing[c] = threadDoing[t]
  <2>1. PICK i \in DOMAIN list : list[i].core = c /\ list[i].thread = t /\ NumberOf(i) = address[c]
    BY DEF Names
  <2>2. i = coreDoing[c]
    BY <1>4, <1>5, <1>6, <2>1, BackToItem
  <2> QED BY <1>3, <2>1, <2>2
<1>8. Unanswered(c)
  <2>1. ~ThreadPast(threadDoing[t]) /\ PairInv(threadDoing[t])
    BY <1>2 DEF ThreadPast, CallsInv
  <2> QED BY <1>2, <1>7, <2>1 DEF PairInv, CorePast
<1> QED BY <1>3, <1>7, <1>8 DEF Unanswered

LEMMA CheckInd ==
  ASSUME CallsInv, RunsInv', NEW t \in Threads, Check(t), ~overtaken'
  PROVE  CallsInv'
<1>1. /\ CallsTypeOK /\ RestTypeOK /\ TypeInv /\ ThreadInv(t) /\ threadPc[t] = "check"
      /\ threadPc[t] # "idle"
  BY DEF CallsInv, RunsInv, TypeInv, Check
<1>2. PICK c \in CoreIds : c = list[threadDoing[t]].core
  BY <1>1, ThreadItem
<1>3. hostPc # "start"
  BY <1>1 DEF ThreadInv
<1>4. /\ threadPc' = [threadPc EXCEPT ![t] = IF Names(c, t) THEN "serve" ELSE "poll"]
      /\ Names(c, t) => calls[c] = seen[t]
      /\ seen' = [seen EXCEPT ![t] = 0]
      /\ UNCHANGED <<vars, list, transferVars, threadDoing, got>>
      /\ UNCHANGED <<pc, served, returned, hostPc, coreDoing>>
  BY <1>2 DEF Check, ThreadGoto, vars, hostVars, coreVars, transferVars
<1>5. /\ threadPc'[t] = IF Names(c, t) THEN "serve" ELSE "poll"
      /\ \A u \in Threads \ {t} : SameThread(u)
  BY <1>1, <1>4 DEF CallsTypeOK, SameThread
<1>6. Names(c, t) => Up(c) /\ ~Taken(c) /\ coreDoing[c] = threadDoing[t]
  BY <1>1, <1>2, <1>4, LookedAt
<1>7. ThreadInv(t)'
  <2>1. (Up(c)' <=> Up(c)) /\ (Taken(c)' <=> Taken(c))
    BY <1>4 DEF Up, Taken
  <2> QED BY <1>2, <1>3, <1>4, <1>5, <1>6, <2>1 DEF ThreadInv, Acts
<1>8. \A j \in DOMAIN list : list[j].thread = t => (ThreadPast(j)' <=> ThreadPast(j))
  BY <1>1, <1>4, <1>5 DEF ThreadPast
<1> QED BY <1>4, <1>5, <1>7, <1>8, ThreadFrame

(* A sendrecv takes its message after it has answered.                     *)
LEMMA LateTakeInd ==
  ASSUME CallsInv, RunsInv', NEW t \in Threads, LateTake(t)
  PROVE  CallsInv'
<1>1. /\ CallsTypeOK /\ RestTypeOK /\ TypeInv /\ ThreadInv(t) /\ threadPc[t] = "take"
  BY DEF CallsInv, RunsInv, TypeInv, LateTake
<1>2. list[threadDoing[t]].call = "sendrecv" /\ hostPc # "start"
  BY <1>1 DEF ThreadInv
<1>3. /\ threadPc' = [threadPc EXCEPT ![t] = "idle"]
      /\ got' = [got EXCEPT ![t] = data[list[threadDoing[t]].core].call]
      /\ UNCHANGED <<vars, list, transferVars, threadDoing, seen>> /\ hostPc' = hostPc
  BY DEF LateTake, ThreadGoto, looks, vars, hostVars
<1>4. threadPc'[t] = "idle" /\ \A u \in Threads \ {t} : SameThread(u)
  BY <1>1, <1>3 DEF CallsTypeOK, SameThread
<1>5. ThreadInv(t)'
  BY <1>2, <1>3, <1>4 DEF ThreadInv, Acts
<1>6. \A j \in DOMAIN list : list[j].thread = t => (ThreadPast(j)' <=> ThreadPast(j))
  BY <1>1, <1>3, <1>4 DEF ThreadPast
<1> QED BY <1>3, <1>4, <1>5, <1>6, ThreadFrame

-------------------------------------------------------------------------------
(* A thread that serves a transfer: the call is up, no other thread nor    *)
(* the monitor serves it too.                                              *)
LEMMA Serving ==
  ASSUME CallsInv, NEW t \in Threads, threadPc[t] \in {"serve", "answer"},
         NEW c \in CoreIds, c = list[threadDoing[t]].core
  PROVE  /\ threadDoing[t] \in DOMAIN list /\ threadDoing[t] \in Nat /\ threadDoing[t] # 0
         /\ list[threadDoing[t]].thread = t /\ hostPc # "start"
         /\ Up(c) /\ ~Taken(c) /\ coreDoing[c] = threadDoing[t]
         /\ wanted[c] = list[threadDoing[t]].call /\ wanted[c] \in HostCommands
         /\ NumberOf(threadDoing[t]) = calls[c] /\ calls[c] = returned[c] + 1
         /\ calls[c] \in 0..MaxCalls /\ calls[c] \in Nat /\ returned[c] \in Nat
         /\ served[c] = returned[c] /\ pb[c] = returned[c] + 1 /\ MailboxInv(c)
         /\ UnderWay(c) /\ ~Answering(c)
         /\ \A u \in Threads \ {t} : ~(Acts(u) /\ list[threadDoing[u]].core = c)
<1>1. /\ ThreadInv(t) /\ MailboxInv(c) /\ CallsTypeOK /\ RestTypeOK /\ TypeInv
      /\ threadPc[t] # "idle" /\ Acts(t)
  BY DEF CallsInv, RunsInv, TypeInv, Acts
<1>2. /\ threadDoing[t] \in DOMAIN list /\ list[threadDoing[t]].thread = t
      /\ threadDoing[t] \in Nat /\ threadDoing[t] # 0 /\ hostPc # "start"
  BY <1>1, ThreadItem DEF ThreadInv
<1>3. /\ Up(c) /\ ~Taken(c) /\ coreDoing[c] = threadDoing[t]
      /\ wanted[c] = list[threadDoing[t]].call /\ wanted[c] \in HostCommands
  BY <1>1, ActsOn
<1>4. UnderWay(c) /\ ~Answering(c) /\ NumberOf(threadDoing[t]) = calls[c]
  BY <1>1, <1>2, <1>3, Values DEF MailboxInv, BusyOf, CallOf, UnderWay, Up
<1>5. /\ calls[c] = returned[c] + 1 /\ served[c] = returned[c] /\ pb[c] = returned[c] + 1
      /\ calls[c] \in 0..MaxCalls /\ returned[c] \in Nat
  BY <1>1, <1>2, <1>3, <1>4 DEF MailboxInv, CallOf, BusyOf, RestTypeOK, Taken
<1>6. calls[c] \in Nat
  BY <1>5
<1>7. ASSUME NEW u \in Threads \ {t}, Acts(u), list[threadDoing[u]].core = c
      PROVE  FALSE
  <2>1. c = list[threadDoing[u]].core
    BY <1>7
  <2>2. list[coreDoing[c]].thread = u
    BY <1>7, <2>1, ActsOn, Zenon
  <2> QED BY <1>2, <1>3, <2>2
<1> QED BY <1>1, <1>2, <1>3, <1>4, <1>5, <1>6, <1>7

LEMMA ServingFrame ==
  ASSUME CallsInv, RunsInv', NEW t \in Threads, threadPc[t] \in {"serve", "answer"},
         NEW c \in CoreIds, c = list[threadDoing[t]].core,
         MailboxInv(c)', ThreadInv(t)',
         UNCHANGED <<list, hostPc, scan, active, coreDoing, threadDoing, pc, wanted, calls>>,
         \A d \in CoreIds \ {c} : SameCore(d) /\ pb'[d] = pb[d],
         \A u \in Threads \ {t} : SameThread(u),
         threadPc'[t] \in {"answer", "take", "idle"},
         Unanswered(c)' <=> threadPc'[t] = "answer"
  PROVE  CallsInv'
<1>1. ASSUME NEW d \in CoreIds
      PROVE  MailboxInv(d)'
  <2>1. CASE d # c
    <3>1. MailboxInv(d) /\ (Answering(d)' <=> Answering(d))
      BY DEF CallsInv, Answering
    <3> QED BY <2>1, <3>1, OtherCore
  <2> QED BY <2>1
<1>2. ASSUME NEW u \in Threads
      PROVE  ThreadInv(u)'
  <2>1. CASE u # t
    <3>1. /\ ThreadInv(u) /\ SameThread(u)
          /\ NumberOf(threadDoing[u])' = NumberOf(threadDoing[u])
          /\ OnePartner(list)' <=> OnePartner(list)
      BY <2>1 DEF CallsInv, NumberOf, OnePartner
    <3>2. CASE threadPc[u] \notin {"check", "serve", "answer"}
      BY <3>1, <3>2 DEF ThreadInv, SameThread, Acts
    <3>3. CASE threadPc[u] \in {"check", "serve", "answer"}
      <4>1. PICK d \in CoreIds : d = list[threadDoing[u]].core
        <5>1. TypeInv /\ threadPc[u] # "idle"
          BY <3>3 DEF CallsInv, RunsInv
        <5> QED BY <5>1, ThreadItem
      <4>2. CASE d # c
        <5>1. SameCore(d)
          BY <4>2
        <5>2. (UnderWay(d)' <=> UnderWay(d)) /\ (Up(d)' <=> Up(d)) /\ (Taken(d)' <=> Taken(d))
          BY <5>1 DEF SameCore, UnderWay, Up, Taken
        <5> QED BY <3>1, <3>3, <4>1, <5>1, <5>2 DEF ThreadInv, SameThread, SameCore, Acts
      <4>3. CASE d = c
        <5>1. ~Acts(u)
          <6>1. u \in Threads \ {t} /\ list[threadDoing[u]].core = c
            BY <2>1, <4>1, <4>3
          <6>2. \A v \in Threads \ {t} : ~(Acts(v) /\ list[threadDoing[v]].core = c)
            BY Serving, Zenon
          <6> QED BY <6>1, <6>2, Zenon
        <5>2. (UnderWay(c)' <=> UnderWay(c)) /\ (Up(c)' <=> Up(c))
          BY DEF UnderWay, Up
        <5>3. threadPc[u] = "check" /\ ~OnePartner(list)
          BY <3>3, <5>1 DEF Acts
        <5> QED BY <3>1, <4>1, <4>3, <5>2, <5>3 DEF ThreadInv, SameThread, Acts
      <4> QED BY <4>2, <4>3
    <3> QED BY <3>2, <3>3
  <2> QED BY <2>1
<1>3. ASSUME NEW j \in DOMAIN list, list[j].thread \in Threads
      PROVE  CorePast(j)' <=> ThreadPast(j)'
  <2>1. /\ CorePast(j) <=> ThreadPast(j)
        /\ list[j].core \in CoreIds /\ j \in Nat /\ threadDoing[t] \in Nat
        /\ coreDoing[c] = threadDoing[t] /\ list[threadDoing[t]].thread = t
    <3>1. PairInv(j) /\ list \in Seq(Items)
      BY <1>3 DEF CallsInv, RunsInv, TypeInv, RestTypeOK
    <3>2. list[j].core \in CoreIds /\ j \in Nat
      BY <1>3, <3>1, ItemFacts
    <3>3. /\ threadDoing[t] \in Nat /\ coreDoing[c] = threadDoing[t]
          /\ list[threadDoing[t]].thread = t
      BY Serving
    <3> QED BY <1>3, <3>1, <3>2, <3>3 DEF PairInv
  <2>2. CASE j = threadDoing[t]
    BY <2>1, <2>2 DEF CorePast, ThreadPast
  <2>3. CASE j # threadDoing[t]
    <3>1. CorePast(j)' <=> CorePast(j)
      <4>1. CASE list[j].core = c
        BY <2>1, <2>3, <4>1 DEF CorePast
      <4>2. CASE list[j].core # c
        BY <2>1, <4>2 DEF CorePast, SameCore, Unanswered, UnderWay, Taken
      <4> QED BY <4>1, <4>2
    <3>2. ThreadPast(j)' <=> ThreadPast(j)
      <4>1. CASE list[j].thread = t
        BY <2>3, <4>1 DEF ThreadPast
      <4>2. CASE list[j].thread # t
        BY <1>3, <4>2 DEF ThreadPast, SameThread
      <4> QED BY <4>1, <4>2
    <3> QED BY <2>1, <3>1, <3>2
  <2> QED BY <2>2, <2>3
<1>4. ASSUME NEW j \in DOMAIN list'
      PROVE  PairInv(j)'
  BY <1>3, <1>4 DEF PairInv
<1> QED BY <1>1, <1>2, <1>4 DEF CallsInv

(* The message is put, or taken, while the call is up.                     *)
LEMMA ThreadServeInd ==
  ASSUME CallsInv, RunsInv', NEW t \in Threads, ThreadServe(t)
  PROVE  CallsInv'
<1>1. /\ CallsTypeOK /\ RestTypeOK /\ TypeInv /\ threadPc[t] # "idle"
      /\ threadPc[t] = "serve" /\ threadPc[t] \in {"serve", "answer"}
  BY DEF CallsInv, RunsInv, TypeInv, ThreadServe
<1>2. PICK c \in CoreIds : c = list[threadDoing[t]].core
  BY <1>1, ThreadItem
<1> DEFINE call == list[threadDoing[t]].call
           message == Answer(NumberOf(threadDoing[t]))
<1>3. /\ threadDoing[t] # 0 /\ hostPc # "start"
      /\ Up(c) /\ ~Taken(c) /\ coreDoing[c] = threadDoing[t]
      /\ wanted[c] = call /\ NumberOf(threadDoing[t]) = calls[c]
      /\ UnderWay(c) /\ ~Answering(c) /\ MailboxInv(c)
  BY <1>1, <1>2, Serving
<1>4. /\ threadPc' = [threadPc EXCEPT ![t] = "answer"]
      /\ got' = IF call = "send" THEN [got EXCEPT ![t] = data[c].call] ELSE got
      /\ data' = IF call = "recv" THEN [data EXCEPT ![c] = message] ELSE data
      /\ back' = IF call = "sendrecv" THEN [back EXCEPT ![c] = message] ELSE back
      /\ UNCHANGED <<core_busy, core_command, pc, wanted, before, calls, returned, result>>
      /\ UNCHANGED <<hostPc, scan, active, totalActive, pb, served, seen>>
      /\ UNCHANGED <<list, address, coreDoing, threadDoing>>
  BY <1>2 DEF ThreadServe, ThreadGoto, coreVars, hostVars, looks
<1>5. /\ call = "recv" => data'[c] = message
      /\ call # "recv" => data'[c] = data[c]
      /\ call = "sendrecv" => back'[c] = message
      /\ call = "send" => got'[t] = data[c].call
      /\ threadPc'[t] = "answer"
  BY <1>1, <1>4 DEF CallsTypeOK
<1>6. /\ UnderWay(c)' /\ ~Answering(c)' /\ ~Taken(c)' /\ Up(c)'
      /\ NumberOf(threadDoing[t])' = calls[c]
  <2>1. NumberOf(threadDoing[t])' = NumberOf(threadDoing[t])
    BY <1>4 DEF NumberOf
  <2> QED BY <1>3, <1>4, <2>1 DEF UnderWay, Answering, Taken, Up
<1>7. MailboxInv(c)'
  <2>1. CallOf(c)'
    BY <1>3, <1>4, <1>6, SameNumbers DEF MailboxInv, CallOf
  <2>2. BusyOf(c)'
    BY <1>3, <1>4, <1>6 DEF MailboxInv, BusyOf
  <2>3. CommandOf(c)'
    BY <1>3, <1>4, <1>6 DEF MailboxInv, CommandOf
  <2>4. DataOf(c)'
    BY <1>3, <1>4, <1>5, <1>6 DEF MailboxInv, DataOf
  <2> QED BY <2>1, <2>2, <2>3, <2>4 DEF MailboxInv
<1>8. \A d \in CoreIds \ {c} : SameCore(d) /\ pb'[d] = pb[d]
  BY <1>1, <1>4 DEF SameCore, CallsTypeOK
<1>9. \A u \in Threads \ {t} : SameThread(u)
  BY <1>1, <1>4 DEF SameThread, CallsTypeOK
<1>10. ThreadInv(t)'
  <2>1. call = "send" => got'[t] = calls[c]
    BY <1>3, <1>5 DEF MailboxInv, DataOf, Up, HostCommands
  <2>2. list' = list /\ threadDoing'[t] = threadDoing[t] /\ calls'[c] = calls[c]
    BY <1>4
  <2>3. message = Answer(calls[c])
    BY <1>3
  <2> QED BY <1>2, <1>3, <1>4, <1>5, <1>6, <2>1, <2>2, <2>3 DEF ThreadInv, Acts
<1>11. Unanswered(c)'
  BY <1>6 DEF Unanswered
<1> HIDE DEF CallsTypeOK, RestTypeOK, MailboxInv, message
<1> QED BY <1>1, <1>2, <1>4, <1>5, <1>7, <1>8, <1>9, <1>10, <1>11, ServingFrame

(* The thread gives core_busy back with the next value of the counter that *)
(* it shares with the monitor, and its transfer is behind both.            *)
LEMMA ThreadAnswerInd ==
  ASSUME CallsInv, RunsInv', NEW t \in Threads, ThreadAnswer(t), MaxCalls < BusyMax
  PROVE  CallsInv'
<1>1. /\ CallsTypeOK /\ RestTypeOK /\ TypeInv /\ ThreadInv(t) /\ threadPc[t] # "idle"
      /\ threadPc[t] = "answer" /\ threadPc[t] \in {"serve", "answer"}
  BY DEF CallsInv, RunsInv, TypeInv, ThreadAnswer
<1>2. PICK c \in CoreIds : c = list[threadDoing[t]].core
  BY <1>1, ThreadItem
<1> DEFINE call == list[threadDoing[t]].call
<1>3. /\ threadDoing[t] # 0 /\ hostPc # "start"
      /\ Up(c) /\ ~Taken(c) /\ coreDoing[c] = threadDoing[t]
      /\ wanted[c] = call /\ NumberOf(threadDoing[t]) = calls[c]
      /\ calls[c] \in 0..MaxCalls /\ calls[c] = returned[c] + 1 /\ returned[c] \in Nat
      /\ served[c] = returned[c] /\ pb[c] = returned[c] + 1
      /\ UnderWay(c) /\ ~Answering(c) /\ MailboxInv(c)
  BY <1>1, <1>2, Serving
<1>4. /\ core_command' = [core_command EXCEPT ![c] = None]
      /\ pb' = [pb EXCEPT ![c] = (pb[c] + 1) % (BusyMax + 1)]
      /\ core_busy' = [core_busy EXCEPT ![c] = pb'[c]]
      /\ served' = [served EXCEPT ![c] = served[c] + 1]
      /\ threadPc' = [threadPc EXCEPT ![t] = IF call = "sendrecv" THEN "take" ELSE "idle"]
      /\ UNCHANGED <<core_run, data, pc, wanted, before, calls, returned, result>>
      /\ UNCHANGED <<hostPc, scan, active, totalActive>>
      /\ UNCHANGED <<list, address, back, declared, coreDoing, threadDoing, got, seen>>
  BY <1>2 DEF ThreadAnswer, ThreadGoto, coreVars, transferVars, looks
<1>5. (pb[c] + 1) % (BusyMax + 1) = returned[c] + 2
  BY <1>3, BusyAssumption, CallsAssumption
<1>6. /\ pb'[c] = returned[c] + 2 /\ core_busy'[c] = returned[c] + 2
      /\ core_command'[c] = None /\ served'[c] = returned[c] + 1
      /\ threadPc'[t] = IF call = "sendrecv" THEN "take" ELSE "idle"
  BY <1>1, <1>3, <1>4, <1>5 DEF CallsTypeOK, RestTypeOK
<1>7. /\ call = "recv" => data[c] = Answer(calls[c])
      /\ call = "sendrecv" => back[c] = Answer(calls[c])
      /\ call = "send" => got[t] = NumberOf(threadDoing[t])
  BY <1>1, <1>2, <1>3 DEF ThreadInv
<1>8. UnderWay(c)' /\ ~Answering(c)' /\ Taken(c)' /\ (Up(c)' <=> Up(c))
  BY <1>3, <1>4, <1>6 DEF UnderWay, Answering, Taken, Up
<1>9. MailboxInv(c)'
  <2>1. CallOf(c)'
    BY <1>3, <1>4, <1>6, <1>8, SameNumbers DEF MailboxInv, CallOf, Up
  <2>2. BusyOf(c)'
    BY <1>3, <1>4, <1>6, <1>8 DEF MailboxInv, BusyOf, Up
  <2>3. CommandOf(c)'
    BY <1>6, <1>8 DEF CommandOf
  <2>4. DataOf(c)'
    BY <1>3, <1>4, <1>7, <1>8 DEF MailboxInv, DataOf
  <2> QED BY <2>1, <2>2, <2>3, <2>4 DEF MailboxInv
<1>10. \A d \in CoreIds \ {c} : SameCore(d) /\ pb'[d] = pb[d]
  BY <1>1, <1>4 DEF SameCore, CallsTypeOK, RestTypeOK
<1>11. \A u \in Threads \ {t} : SameThread(u)
  BY <1>1, <1>4 DEF SameThread, CallsTypeOK
<1>12. ThreadInv(t)'
  <2>1. NumberOf(threadDoing[t])' = NumberOf(threadDoing[t])
    BY <1>4 DEF NumberOf
  <2> QED BY <1>3, <1>4, <1>6, <1>7, <2>1 DEF ThreadInv, Acts
<1>13. ~Unanswered(c)'
  BY <1>8 DEF Unanswered
<1> HIDE DEF CallsTypeOK, RestTypeOK, MailboxInv
<1> QED BY <1>1, <1>2, <1>4, <1>6, <1>9, <1>10, <1>11, <1>12, <1>13, ServingFrame

-------------------------------------------------------------------------------
(* All steps together.                                                     *)
LEMMA CallsInitInd ==
  ASSUME CallsInit
  PROVE  CallsInv
<1>1. list \in Seq(Items)
  BY ProgramsAssumption DEF CallsInit
<1>2. ASSUME NEW c \in CoreIds
      PROVE  MailboxInv(c)
  <2>1. /\ pc[c] = "boot" /\ calls[c] = 0 /\ returned[c] = 0 /\ served[c] = 0
        /\ core_busy[c] = 0 /\ core_command[c] = None /\ coreDoing[c] = 0
        /\ hostPc = "start" /\ wanted[c] = None
    BY DEF CallsInit, Init
  <2> QED BY <2>1 DEF MailboxInv, CallOf, BusyOf, CommandOf, DataOf, UnderWay, Up,
                      Taken, Answering
<1>3. ASSUME NEW t \in Threads
      PROVE  ThreadInv(t)
  BY DEF CallsInit, Init, ThreadInv, Acts
<1>4. ASSUME NEW j \in DOMAIN list
      PROVE  PairInv(j)
  <2>1. j \in Nat /\ j # 0 /\ list[j].core \in CoreIds
    BY <1>1, ItemFacts
  <2> QED BY <2>1 DEF CallsInit, PairInv, CorePast, ThreadPast
<1> QED BY <1>2, <1>3, <1>4, RunsInit DEF CallsInv

LEMMA CallsStepInd ==
  ASSUME CallsInv, [CallsNext]_allVars, BootBeforeWatch, MaxCalls < BusyMax, ~overtaken'
  PROVE  CallsInv'
<1>0. RunsInv'
  BY RunsStep DEF CallsInv
<1>1. CASE HostStep /\ UNCHANGED callVars
  BY <1>0, <1>1, MonitorMovesInd, ServeInd, GiveBackInd DEF HostStep
<1>2. ASSUME NEW c \in CoreIds, CallsCoreStep(c)
      PROVE  CallsInv'
  <2>1. CASE NextCall(c) \/ Address(c) \/ Payload(c) \/ HostRemember(c) \/ HostCommand(c)
    BY <1>0, <2>1, NextCallInd, AddressInd, PayloadInd, HostRememberInd, HostCommandInd
  <2>2. CASE MonitorFill(c) \/ TransferReturn(c) \/ EndProgram(c)
    BY <1>0, <2>2, MonitorFillInd, TransferReturnInd, EndProgramInd
  <2>3. CASE (Boot(c) \/ Command(c) \/ Remember(c) \/ Release(c) \/ Ended(c))
               /\ UNCHANGED callVars
    BY <1>0, <2>3, BootInd, CommandInd, RememberInd, ReleaseInd, EndedInd
  <2> QED BY <1>2, <2>1, <2>2, <2>3 DEF CallsCoreStep
<1>3. ASSUME NEW t \in Threads, ThreadStep(t)
      PROVE  CallsInv'
  BY <1>0, <1>3, ThreadCallInd, SeeCommandInd, CheckInd, ThreadServeInd, ThreadAnswerInd,
     LateTakeInd DEF ThreadStep
<1>4. CASE UNCHANGED allVars
  <2>1. /\ UNCHANGED <<core_run, core_busy, core_command, data>>
        /\ UNCHANGED <<pc, wanted, before, calls, returned, result>>
        /\ UNCHANGED <<hostPc, scan, active, totalActive, pb, served>>
        /\ UNCHANGED <<list, address, back, declared, coreDoing, threadPc, threadDoing, got, seen>>
    BY <1>4 DEF allVars, vars, shared, coreVars, hostVars, callVars, transferVars, threadVars,
       looks
  <2>2. ASSUME NEW c \in CoreIds
        PROVE  MailboxInv(c)'
    <3>1. MailboxInv(c) /\ SameCore(c) /\ (Answering(c)' <=> Answering(c))
      BY <2>1 DEF CallsInv, SameCore, Answering
    <3> QED BY <2>1, <3>1, OtherCore
  <2>3. ASSUME NEW t \in Threads
        PROVE  ThreadInv(t)'
    <3>1. ThreadInv(t) /\ NumberOf(threadDoing[t])' = NumberOf(threadDoing[t])
      BY <2>1 DEF CallsInv, NumberOf
    <3>2. OnePartner(list)' <=> OnePartner(list)
      BY <2>1 DEF OnePartner
    <3> QED BY <2>1, <3>1, <3>2 DEF ThreadInv, Acts, Up, UnderWay, Taken
  <2>4. ASSUME NEW j \in DOMAIN list'
        PROVE  PairInv(j)'
    BY <2>1, <2>4 DEF CallsInv, PairInv, CorePast, ThreadPast, Unanswered, UnderWay, Taken
  <2> QED BY <1>0, <2>2, <2>3, <2>4 DEF CallsInv
<1> QED BY <1>1, <1>2, <1>3, <1>4 DEF CallsNext, AllFinished

(* A look stays undecided until the thread checks, and when the core has   *)
(* one partner for each kind of call the call that was seen waits for it.  *)
LEMMA OnlyACheckOvertakes ==
  ASSUME [CallsNext]_allVars, \A t \in Threads : ~Check(t)
  PROVE  overtaken' = overtaken
BY DEF CallsNext, HostStep, CallsCoreStep, ThreadStep, AllFinished, allVars, callVars,
   NextCall, Address, Payload, HostRemember, HostCommand, MonitorFill, TransferReturn,
   EndProgram, ThreadCall, SeeCommand, ThreadServe, ThreadAnswer, LateTake,
   threadVars, looks

LEMMA OnePartnerKeeps ==
  ASSUME CallsInv, [CallsNext]_allVars, OnePartner(list)
  PROVE  overtaken' = overtaken
<1>1. CASE \E t \in Threads : Check(t)
  <2>1. PICK t \in Threads : Check(t)
    BY <1>1
  <2>2. seen[t] = calls[list[threadDoing[t]].core]
    BY <2>1 DEF CallsInv, ThreadInv, Check
  <2>3. overtaken \in BOOLEAN
    BY DEF CallsInv, RunsInv, TypeInv, CallsTypeOK
  <2> QED BY <2>1, <2>2, <2>3 DEF Check
<1> QED BY <1>1, OnlyACheckOvertakes

(* The runs in which a look is overtaken are the exception; what they keep *)
(* are the types and the counts of the monitor, and that they need a core  *)
(* with two partners for a kind of call.                                   *)
SafeInv ==
  /\ RunsInv
  /\ overtaken => ~OnePartner(list)
  /\ ~overtaken => CallsInv

LEMMA SafeStep ==
  ASSUME SafeInv, [CallsNext]_allVars, BootBeforeWatch, MaxCalls < BusyMax
  PROVE  SafeInv'
<1>1. RunsInv' /\ list' = list /\ overtaken \in BOOLEAN
  BY RunsStep, ListStays DEF SafeInv, RunsInv, TypeInv, CallsTypeOK
<1>2. OnePartner(list)' <=> OnePartner(list)
  BY <1>1 DEF OnePartner
<1>3. overtaken => overtaken'
  BY OnlyACheckOvertakes DEF Check
<1>4. ~overtaken' => CallsInv'
  BY <1>3, CallsStepInd DEF SafeInv
<1>5. overtaken' => ~OnePartner(list)
  <2>1. CASE overtaken
    BY <2>1 DEF SafeInv
  <2>2. CASE ~overtaken
    BY <2>2, OnePartnerKeeps DEF SafeInv
  <2> QED BY <2>1, <2>2
<1> QED BY <1>1, <1>2, <1>4, <1>5 DEF SafeInv

(* Unless a thread took the address of a later call for that of the call   *)
(* whose command it saw (host-functions.c:756-764), the mailboxes, the     *)
(* threads and the pairs of a core and a thread stay as described, in      *)
(* every interleaving.                                                     *)
THEOREM Invariance ==
  ASSUME BootBeforeWatch, MaxCalls < BusyMax
  PROVE  CallsSpec => []SafeInv
<1>1. CallsInit => SafeInv
  BY CallsInitInd, RunsInit DEF SafeInv, CallsInit
<1>2. SafeInv /\ [CallsNext]_allVars => SafeInv'
  BY SafeStep
<1> QED BY <1>1, <1>2, PTL DEF CallsSpec

(* No look is overtaken when every core has one partner for each kind of   *)
(* call, however the calls interleave: nothing is locked between the look  *)
(* at the command and the look at the address (host-functions.c:756-764),  *)
(* but then only the partner can let the core go on.                       *)
THEOREM OnePartnerSuffices ==
  ASSUME BootBeforeWatch, MaxCalls < BusyMax
  PROVE  CallsSpec => []OnePartnerIsSafe
<1>1. SafeInv => OnePartnerIsSafe
  BY DEF SafeInv, OnePartnerIsSafe
<1> QED BY <1>1, Invariance, PTL

(* A thread that received from a core has the message of the matching call *)
(* (host-functions.c, recvDataFromDeviceCore), unless a look was overtaken.*)
THEOREM ThreadGetsIts ==
  ASSUME BootBeforeWatch, MaxCalls < BusyMax
  PROVE  CallsSpec => []ThreadGetsItsMessage
<1>1. SafeInv => ThreadGetsItsMessage
  BY DEF SafeInv, CallsInv, ThreadInv, ThreadGetsItsMessage
<1> QED BY <1>1, Invariance, PTL

(* A core that received from a thread has the message of the matching call *)
(* (host-functions.c, sendDataToDeviceCore, sendRecvDataWithDeviceCore),   *)
(* unless a look was overtaken.                                            *)
THEOREM CoreGetsIts ==
  ASSUME BootBeforeWatch, MaxCalls < BusyMax
  PROVE  CallsSpec => []CoreGetsItsMessage
<1>1. ASSUME CallsInv, NEW c \in Intent, pc[c] = "running", coreDoing[c] # 0,
             list[coreDoing[c]].call \in {"recv", "sendrecv"}
      PROVE  result[c] = Answer(calls[c])
  <2>1. c \in CoreIds /\ CallOf(c) /\ DataOf(c) /\ ~UnderWay(c)
    BY <1>1, IntentAssumption DEF CallsInv, MailboxInv, UnderWay
  <2> QED BY <1>1, <2>1 DEF CallOf, DataOf
<1>2. SafeInv => CoreGetsItsMessage
  BY <1>1 DEF SafeInv, CoreGetsItsMessage
<1> QED BY <1>2, Invariance, PTL

(* Every call is answered once, and the counter of the host stays in step  *)
(* with core_busy, whoever of the host increments it (++pb), also when the *)
(* answer comes before the core has cleared core_busy; unless a look was   *)
(* overtaken.                                                              *)
THEOREM EachAnsweredOnce ==
  ASSUME BootBeforeWatch, MaxCalls < BusyMax
  PROVE  CallsSpec => []AnsweredOnce
<1>1. ASSUME CallsInv, NEW c \in Intent
      PROVE  /\ returned[c] <= served[c] /\ served[c] <= calls[c]
             /\ hostPc # "start" /\ pc[c] = "running" => pb[c] = core_busy[c]
  <2>1. c \in CoreIds /\ CallOf(c) /\ BusyOf(c) /\ returned[c] \in Nat /\ served[c] \in Nat
    BY <1>1, IntentAssumption DEF CallsInv, MailboxInv, RunsInv, TypeInv, RestTypeOK
  <2>2. Taken(c) => UnderWay(c)
    BY <2>1 DEF CallOf, UnderWay
  <2>3. pc[c] = "running" => ~Answering(c) /\ ~Taken(c)
    BY <2>1 DEF BusyOf, CallOf
  <2> QED BY <2>1, <2>2, <2>3 DEF CallOf, BusyOf, Taken
<1>2. SafeInv => AnsweredOnce
  BY <1>1 DEF SafeInv, AnsweredOnce
<1> QED BY <1>2, Invariance, PTL

(* One party at a time serves a mailbox: while a thread moves a message or *)
(* answers, its core is in this very transfer and has stored its command,  *)
(* though it may not have cleared core_busy yet; no other thread serves    *)
(* the core, and the monitor does not.                                     *)
OneServesAMailbox ==
  ~overtaken => \A t \in Threads : threadPc[t] \in {"serve", "answer"} =>
    LET c == list[threadDoing[t]].core
    IN  /\ pc[c] \in {"release", "wait"} /\ coreDoing[c] = threadDoing[t]
        /\ ~Answering(c)
        /\ \A u \in Threads \ {t} :
             ~(threadPc[u] \in {"serve", "answer"} /\ list[threadDoing[u]].core = c)

THEOREM NobodyServesTwice ==
  ASSUME BootBeforeWatch, MaxCalls < BusyMax
  PROVE  CallsSpec => []OneServesAMailbox
<1>1. ASSUME CallsInv, NEW t \in Threads, threadPc[t] \in {"serve", "answer"}
      PROVE  LET c == list[threadDoing[t]].core
             IN  /\ pc[c] \in {"release", "wait"} /\ coreDoing[c] = threadDoing[t]
                 /\ ~Answering(c)
                 /\ \A u \in Threads \ {t} :
                      ~(threadPc[u] \in {"serve", "answer"} /\ list[threadDoing[u]].core = c)
  <2>1. PICK c \in CoreIds : c = list[threadDoing[t]].core
    <3>1. TypeInv /\ threadPc[t] # "idle"
      BY <1>1 DEF CallsInv, RunsInv
    <3> QED BY <3>1, ThreadItem
  <2>2. Up(c) /\ coreDoing[c] = threadDoing[t] /\ ~Answering(c)
    BY <1>1, <2>1, Serving
  <2>3. ASSUME NEW u \in Threads \ {t}, Acts(u), list[threadDoing[u]].core = c
        PROVE  FALSE
    <3>1. c = list[threadDoing[u]].core /\ Acts(t)
      BY <1>1, <2>3 DEF Acts
    <3>2. list[coreDoing[c]].thread = u
      BY <1>1, <2>3, <3>1, ActsOn, Zenon
    <3>3. list[coreDoing[c]].thread = t
      BY <1>1, <2>1, <3>1, ActsOn, Zenon
    <3> QED BY <3>2, <3>3
  <2> QED BY <2>1, <2>2, <2>3 DEF Acts, Up
<1>2. SafeInv => OneServesAMailbox
  BY <1>1 DEF SafeInv, OneServesAMailbox
<1> QED BY <1>2, Invariance, PTL

-------------------------------------------------------------------------------
(* Nobody waits in a circle.  The bound on the calls of a core does not    *)
(* cut a list off.                                                         *)
ShortEnough == Len(list) <= MaxCalls
LongEnough == \A calling \in Programs : Len(calling) <= MaxCalls

(* Core c waits in a transfer that is not answered.                        *)
Waits(c) == pc[c] = "wait" /\ ~Taken(c) /\ wanted[c] \in HostCommands

(* A call has at most the number of its place in the list.                 *)
LEMMA NumberBound ==
  ASSUME NEW i \in Nat
  PROVE  NumberOf(i) \in Nat /\ NumberOf(i) <= i
<1>1. IsFiniteSet(1..i) /\ Cardinality(1..i) = i /\ UpTo(i) \subseteq 1..i
  BY FS_Interval DEF UpTo
<1>2. Cardinality(UpTo(i)) <= Cardinality(1..i)
  BY <1>1, FS_Subset
<1> QED BY <1>1, <1>2, UpToFinite DEF NumberOf, UpTo

(* A core that cannot go on, nor the monitor for it, is at its end, in     *)
(* such a transfer, or waits for an answer that is lost.                   *)
LEMMA CoreWaits ==
  ASSUME CallsInv, ShortEnough, hostPc # "start", ~MonitorGoesOn,
         NEW c \in Intent, ~CoreGoesOn(c)
  PROVE  pc[c] = "ended" \/ Waits(c) \/ AnswerLost(c)
<1>1. /\ CallsTypeOK /\ RestTypeOK /\ CountOfRuns /\ c \in CoreIds
      /\ RunInv(c) /\ CallOf(c) /\ BusyOf(c) /\ CommandOf(c)
      /\ Len(list) \in Nat /\ Len(list) <= MaxCalls
  BY IntentAssumption DEF CallsInv, RunsInv, TypeInv, MailboxInv, RestTypeOK, ShortEnough
<1>2. pc[c] \in {"running", "wait", "ended"}
  BY <1>1 DEF CoreGoesOn, RunInv
<1>3. pc[c] # "running"
  <2>1. SUFFICES ASSUME pc[c] = "running"
                 PROVE  FALSE
    OBVIOUS
  <2>2. coreDoing[c] \in 0..Len(list) /\ CoreItems(c, coreDoing[c]) # {}
    BY <1>1, <2>1 DEF CoreGoesOn, CallsTypeOK
  <2>3. coreDoing[c] \in Nat /\ coreDoing[c] < Len(list)
    BY <1>1, <2>2 DEF CoreItems
  <2>4. calls[c] <= coreDoing[c]
    BY <1>1, <2>3, NumberBound DEF CallOf
  <2>5. calls[c] \in Nat /\ calls[c] < MaxCalls
    BY <1>1, <2>3, <2>4, CallsAssumption DEF RestTypeOK
  <2> QED BY <2>1, <2>5 DEF CoreGoesOn
<1>4. ASSUME pc[c] = "wait"
      PROVE  Waits(c) \/ AnswerLost(c)
  <2>1. core_busy[c] = 0
    BY <1>1, <1>4 DEF BusyOf, CoreGoesOn, SpinEnds, RestTypeOK, Up
  <2>2. CASE Taken(c)
    BY <1>1, <1>4, <2>1, <2>2 DEF CommandOf, AnswerLost, MonitorGoesOn
  <2>3. CASE ~Taken(c)
    <3>1. core_command[c] = wanted[c]
      BY <1>1, <1>4, <2>3 DEF CommandOf
    <3>2. wanted[c] \in Commands \cup HostCommands
      <4>1. coreDoing[c] # 0 /\ coreDoing[c] \in 0..Len(list) /\ UnderWay(c)
        BY <1>1, <1>4 DEF CallOf, UnderWay, CallsTypeOK
      <4>2. coreDoing[c] \in DOMAIN list /\ list[coreDoing[c]].call = wanted[c]
        BY <1>1, <4>1 DEF CallOf, RestTypeOK
      <4> QED BY <1>1, <4>2, ItemFacts DEF RestTypeOK
    <3>3. wanted[c] \notin Commands
      <4>1. active[c]
        BY <1>1, <1>4 DEF RunInv
      <4>2. totalActive # 0
        <5>1. Watching # {}
          BY <1>1, <4>1 DEF Watching
        <5> QED BY <1>1, <5>1, WatchingFinite, FS_EmptySet DEF CountOfRuns
      <4>3. hostPc \in {"round", "look", "check"}
        BY <1>1, <4>2 DEF CountOfRuns, RestTypeOK, MonitorGoesOn
      <4> QED BY <1>1, <2>1, <3>1, <4>1, <4>3 DEF MonitorGoesOn
    <3> QED BY <1>4, <2>3, <3>2, <3>3 DEF Waits
  <2> QED BY <2>2, <2>3
<1> QED BY <1>2, <1>3, <1>4

(* A set of numbers has a least one.                                       *)
LEMMA LessOnNat ==
  \E R : IsWellFoundedOn(R, Nat) /\ \A m, n \in Nat : m < n => <<m, n>> \in R
<1>1. \A m, n \in Nat : m < n => <<m, n>> \in OpToRel(<, Nat)
  BY DEF OpToRel
<1> QED BY <1>1, NatLessThanWellFounded, Zenon

LEMMA Least ==
  ASSUME NEW T, T \subseteq Nat, T # {}
  PROVE  \E n \in T : \A m \in T : n <= m
<1>1. PICK R : IsWellFoundedOn(R, Nat) /\ \A m, n \in Nat : m < n => <<m, n>> \in R
  BY LessOnNat
<1>2. IsWellFoundedOn(R, Nat)
  BY <1>1
<1>3. PICK n \in T : \A m \in T : ~(<<m, n>> \in R)
  BY <1>2, WFMin
<1>4. ASSUME NEW m \in T
      PROVE  n <= m
  <2>1. n \in Nat /\ m \in Nat /\ ~(<<m, n>> \in R)
    BY <1>3
  <2> QED BY <1>1, <2>1
<1> QED BY <1>4

(* A waiting core has named the thread of its transfer, which is not past  *)
(* it, and the command is up.                                              *)
LEMMA WaitingCore ==
  ASSUME CallsInv, NEW c \in Intent, Waits(c)
  PROVE  /\ coreDoing[c] \in DOMAIN list /\ list[coreDoing[c]].core = c
         /\ list[coreDoing[c]].thread \in Threads
         /\ list[coreDoing[c]].call = wanted[c] /\ core_command[c] = wanted[c]
         /\ ~ThreadPast(coreDoing[c])
         /\ Names(c, list[coreDoing[c]].thread)
<1>1. /\ CallsTypeOK /\ RestTypeOK /\ c \in CoreIds /\ UnderWay(c) /\ Unanswered(c)
      /\ CallOf(c) /\ DataOf(c) /\ CommandOf(c) /\ pc[c] = "wait" /\ ~Taken(c)
      /\ wanted[c] \in HostCommands
  BY IntentAssumption DEF CallsInv, RunsInv, TypeInv, MailboxInv, Waits, UnderWay, Unanswered
<1>2. /\ coreDoing[c] # 0 /\ list[coreDoing[c]].core = c
      /\ list[coreDoing[c]].call = wanted[c] /\ NumberOf(coreDoing[c]) = calls[c]
      /\ coreDoing[c] \in 0..Len(list)
  BY <1>1 DEF CallOf, CallsTypeOK
<1>3. coreDoing[c] \in DOMAIN list /\ list \in Seq(Items)
  BY <1>1, <1>2 DEF RestTypeOK
<1>4. list[coreDoing[c]].thread \in Threads
  BY <1>1, <1>2, <1>3, ItemFacts, Values
<1>5. ~ThreadPast(coreDoing[c])
  <2>1. ~CorePast(coreDoing[c])
    BY <1>1, <1>2 DEF CorePast
  <2>2. PairInv(coreDoing[c])
    BY <1>3 DEF CallsInv
  <2> QED BY <1>4, <2>1, <2>2 DEF PairInv
<1>6. Names(c, list[coreDoing[c]].thread)
  <2>1. address[c] = calls[c]
    BY <1>1 DEF DataOf
  <2> QED BY <1>2, <1>3, <2>1 DEF Names
<1>7. core_command[c] = wanted[c]
  BY <1>1 DEF CommandOf
<1> QED BY <1>2, <1>3, <1>4, <1>5, <1>6, <1>7

(* An item a core still has to come to is open.                            *)
LEMMA OpenItem ==
  ASSUME CallsInv, NEW j \in DOMAIN list, list[j].thread \in Threads, ~ThreadPast(j),
         \A c \in Intent : pc[c] = "ended" \/ Waits(c) \/ AnswerLost(c)
  PROVE  Open(j)
<1>1. /\ list \in Seq(Items) /\ CallsTypeOK /\ PairInv(j)
  BY DEF CallsInv, RunsInv, TypeInv, RestTypeOK
<1>2. /\ j \in Nat /\ j \in 1..Len(list) /\ Len(list) \in Nat /\ list[j].core \in CoreIds
      /\ list[j].core \in Intent /\ coreDoing[list[j].core] \in 0..Len(list)
  <2>1. /\ j \in Nat /\ j \in 1..Len(list) /\ Len(list) \in Nat
        /\ list[j].core \in CoreIds /\ list[j].core \in Intent
    BY <1>1, ItemFacts
  <2> QED BY <1>1, <2>1 DEF CallsTypeOK
<1>3. ~CorePast(j)
  BY <1>1 DEF PairInv
<1>4. CASE coreDoing[list[j].core] = j
  <2>1. pc[list[j].core] = "wait"
    <3>1. UnderWay(list[j].core)
      BY <1>3, <1>4 DEF CorePast, Unanswered
    <3>2. pc[list[j].core] # "ended"
      BY <3>1 DEF UnderWay
    <3> QED BY <1>2, <3>2 DEF Waits, AnswerLost
  <2> QED BY <1>4, <2>1 DEF Open
<1>5. CASE coreDoing[list[j].core] # j
  <2>1. coreDoing[list[j].core] < j
    BY <1>2, <1>3, <1>5 DEF CorePast
  <2>2. j \in CoreItems(list[j].core, coreDoing[list[j].core])
    BY <1>2, <2>1 DEF CoreItems
  <2> QED BY <2>2 DEF Open
<1> QED BY <1>4, <1>5

(* A thread that cannot go on is idle at its end or at an open item, from  *)
(* which its core does not wait for it.                                    *)
LEMMA ThreadWaits ==
  ASSUME CallsInv, hostPc # "start", NEW t \in Threads, ~ThreadGoesOn(t),
         \A c \in Intent : pc[c] = "ended" \/ Waits(c) \/ AnswerLost(c)
  PROVE  \/ threadPc[t] = "idle" /\ ThreadItems(t, threadDoing[t]) = {}
         \/ /\ threadDoing[t] \in DOMAIN list /\ list[threadDoing[t]].thread = t
            /\ Open(threadDoing[t])
            /\ ~(/\ Waits(list[threadDoing[t]].core)
                 /\ coreDoing[list[threadDoing[t]].core] = threadDoing[t])
<1> DEFINE j == threadDoing[t]
           c == list[j].core
<1>1. /\ CallsTypeOK /\ TypeInv
      /\ threadPc[t] \in {"idle", "poll", "check", "serve", "answer", "take"}
  BY DEF CallsInv, RunsInv, TypeInv, CallsTypeOK
<1>2. CASE threadPc[t] = "idle"
  BY <1>2 DEF ThreadGoesOn
<1>3. CASE threadPc[t] # "idle"
  <2>1. threadPc[t] \in {"poll", "check"}
    BY <1>1, <1>3 DEF ThreadGoesOn
  <2>2. j \in DOMAIN list /\ j \in Nat /\ list[j].thread = t /\ c \in Intent
    BY <1>1, <1>3, ThreadItem
  <2>3. ~ThreadPast(j)
    BY <2>1, <2>2 DEF ThreadPast
  <2>4. Open(j)
    <3> HIDE DEF j, c
    <3> QED BY <2>2, <2>3, OpenItem
  <2>5. ASSUME Waits(c), coreDoing[c] = j
        PROVE  FALSE
    <3>1. core_command[c] = list[j].call /\ Names(c, t)
      BY <2>2, <2>5, WaitingCore
    <3> QED BY <2>1, <3>1 DEF ThreadGoesOn
  <2> QED BY <2>2, <2>4, <2>5
<1> QED BY <1>2, <1>3

(* The first open item, if any, is one whose core lost its answer.         *)
LEMMA FirstOpen ==
  ASSUME CallsInv, hostPc # "start",
         \A c \in Intent : pc[c] = "ended" \/ Waits(c) \/ AnswerLost(c),
         \A t \in Threads : ~ThreadGoesOn(t),
         NEW i \in DOMAIN list, Open(i), \A j \in 1..i-1 : ~Open(j)
  PROVE  coreDoing[list[i].core] = i /\ AnswerLost(list[i].core)
<1> DEFINE c == list[i].core
<1>1. CallsTypeOK /\ list \in Seq(Items) /\ TypeInv
  BY DEF CallsInv, RunsInv, TypeInv, RestTypeOK
<1>2. /\ i \in Nat /\ i \in 1..Len(list) /\ Len(list) \in Nat /\ c \in CoreIds
      /\ c \in Intent
      /\ \/ list[i].call \in HostCommands /\ list[i].thread \in Threads
         \/ list[i].call \in Commands /\ list[i].thread = None
  BY <1>1, ItemFacts
<1>3. /\ RunInv(c) /\ CallOf(c) /\ coreDoing[c] \in 0..Len(list)
      /\ pc[c] = "ended" \/ Waits(c) \/ AnswerLost(c)
  <2> HIDE DEF c
  <2> QED BY <1>1, <1>2 DEF CallsInv, RunsInv, MailboxInv, CallsTypeOK
<1>4. pc[c] = "ended" => CoreItems(c, coreDoing[c]) = {}
  BY <1>3 DEF RunInv
<1>5. ~(coreDoing[c] < i)
  <2>1. SUFFICES ASSUME coreDoing[c] < i
                 PROVE  FALSE
    OBVIOUS
  <2>2. i \in CoreItems(c, coreDoing[c])
    BY <1>2, <1>3, <2>1 DEF CoreItems
  <2>3. pc[c] = "wait"
    BY <1>3, <1>4, <2>2 DEF Waits, AnswerLost
  <2>4. coreDoing[c] # 0 /\ list[coreDoing[c]].core = c
    <3> HIDE DEF c
    <3> QED BY <1>3, <2>3 DEF CallOf, UnderWay
  <2>5. coreDoing[c] \in 1..i-1
    BY <1>2, <1>3, <2>1, <2>4
  <2>6. Open(coreDoing[c])
    <3> HIDE DEF c
    <3> QED BY <2>3, <2>4 DEF Open
  <2> QED BY <2>5, <2>6
<1>6. CASE coreDoing[c] = i /\ pc[c] # "ended"
  <2>1. SUFFICES ASSUME Waits(c)
                 PROVE  FALSE
    BY <1>3, <1>6
  <2> DEFINE t == list[i].thread
  <2>2. t \in Threads /\ ~ThreadPast(i)
    <3> HIDE DEF c
    <3>1. /\ list[coreDoing[c]].thread \in Threads /\ ~ThreadPast(coreDoing[c])
      BY <1>2, <2>1, WaitingCore
    <3> QED BY <1>6, <3>1
  <2>3. threadDoing[t] \in 0..Len(list) /\ threadPc[t] \in ThreadLabels
    BY <1>1, <2>2 DEF CallsTypeOK, ThreadLabels
  <2>4. threadDoing[t] <= i /\ (threadDoing[t] = i => threadPc[t] \notin {"idle", "take"})
    BY <1>2, <2>2, <2>3 DEF ThreadPast
  <2>5. ~(threadPc[t] = "idle" /\ ThreadItems(t, threadDoing[t]) = {})
    BY <1>2, <2>3, <2>4 DEF ThreadItems
  <2>6. /\ threadDoing[t] \in DOMAIN list /\ Open(threadDoing[t])
        /\ ~(Waits(list[threadDoing[t]].core) /\ coreDoing[list[threadDoing[t]].core] = threadDoing[t])
    <3> HIDE DEF t
    <3> QED BY <2>2, <2>5, ThreadWaits
  <2>7. threadDoing[t] # i
    BY <1>6, <2>1, <2>6
  <2>8. threadDoing[t] \in 1..i-1
    BY <1>2, <2>3, <2>4, <2>6, <2>7
  <2> QED BY <2>6, <2>8
<1>7. CASE ~(coreDoing[c] = i /\ pc[c] # "ended")
  (* Then only a thread has the item open, and its core is past it.        *)
  <2>1. i \notin CoreItems(c, coreDoing[c])
    BY <1>2, <1>3, <1>5 DEF CoreItems
  <2>2. /\ list[i].thread # None
        /\ i \in ThreadItems(list[i].thread, threadDoing[list[i].thread])
    BY <1>7, <2>1 DEF Open
  <2>3. list[i].thread \in Threads
    BY <1>2, <2>2
  <2>4. threadDoing[list[i].thread] \in 0..Len(list)
    BY <1>1, <2>3 DEF CallsTypeOK
  <2>5. ~ThreadPast(i)
    BY <1>2, <2>2, <2>4 DEF ThreadPast, ThreadItems
  <2>6. ~CorePast(i)
    BY <2>3, <2>5 DEF CallsInv, PairInv
  <2>7. coreDoing[c] = i /\ UnderWay(c)
    BY <1>2, <1>3, <1>5, <2>6 DEF CorePast, Unanswered
  <2> QED BY <1>7, <2>7 DEF UnderWay
<1> QED BY <1>6, <1>7

(* "Sends data to some other core and blocks on this being received"       *)
(* (device-functions.c:599), and on nothing else: whatever the lists and   *)
(* the interleaving, some core, thread or the monitor can go on until all  *)
(* of them are done, or the first call that is not done waits for an       *)
(* answer the core itself has cleared (device-functions.c:616), or a look  *)
(* was overtaken.                                                          *)
THEOREM CallsGoOn ==
  ASSUME BootBeforeWatch, MaxCalls < BusyMax, LongEnough
  PROVE  CallsSpec => []SomebodyGoesOn
<1>1. ASSUME CallsInv, ShortEnough, ~MonitorGoesOn, \A c \in CoreIds : ~CoreGoesOn(c),
             \A t \in Threads : ~ThreadGoesOn(t),
             ~\E i \in DOMAIN list : /\ \A j \in 1..i-1 : ~Open(j)
                                     /\ coreDoing[list[i].core] = i
                                     /\ AnswerLost(list[i].core)
      PROVE  AllDone
  <2>1. CallsTypeOK /\ RestTypeOK /\ CountOfRuns /\ list \in Seq(Items) /\ Len(list) \in Nat
    BY <1>1 DEF CallsInv, RunsInv, TypeInv, RestTypeOK
  <2>2. hostPc # "start"
    <3>1. SUFFICES ASSUME hostPc = "start"
                   PROVE  FALSE
      OBVIOUS
    <3>2. scan = TotalCores
      BY <1>1, <2>1, <3>1, TotalAssumption DEF MonitorGoesOn, RestTypeOK
    <3>3. PICK c \in Intent : pc[c] = "boot"
      BY <1>1, <3>1 DEF MonitorGoesOn
    <3>4. c \in CoreIds /\ c < TotalCores /\ RunInv(c)
      BY <1>1, IntentAssumption, TotalAssumption DEF CoreIds, CallsInv, RunsInv
    <3>5. core_run[c] = 1
      BY <3>1, <3>2, <3>3, <3>4 DEF RunInv
    <3> QED BY <1>1, <3>3, <3>4, <3>5 DEF CoreGoesOn
  <2>3. \A c \in Intent : pc[c] = "ended" \/ Waits(c) \/ AnswerLost(c)
    BY <1>1, <2>2, CoreWaits, IntentAssumption
  <2>4. \A i \in DOMAIN list : ~Open(i)
    <3> DEFINE T == {i \in DOMAIN list : Open(i)}
    <3>1. SUFFICES ASSUME T # {}
                   PROVE  FALSE
      OBVIOUS
    <3>2. T \subseteq Nat /\ DOMAIN list = 1..Len(list)
      BY <2>1
    <3>3. PICK n \in T : \A m \in T : n <= m
      <4> HIDE DEF T
      <4> QED BY <3>1, <3>2, Least
    <3>4. \A j \in 1..n-1 : ~Open(j)
      BY <2>1, <3>2, <3>3
    <3>5. n \in DOMAIN list /\ Open(n)
      BY <3>3
    <3>6. coreDoing[list[n].core] = n /\ AnswerLost(list[n].core)
      <4> HIDE DEF T
      <4> QED BY <1>1, <2>2, <2>3, <3>4, <3>5, FirstOpen
    <3> QED BY <1>1, <3>4, <3>5, <3>6
  <2>5. \A c \in Intent : pc[c] = "ended"
    <3>1. SUFFICES ASSUME NEW c \in Intent, pc[c] # "ended"
                   PROVE  FALSE
      OBVIOUS
    <3>2. pc[c] = "wait" /\ c \in CoreIds
      BY <2>3, <3>1, IntentAssumption DEF Waits, AnswerLost
    <3>3. /\ coreDoing[c] # 0 /\ list[coreDoing[c]].core = c
          /\ coreDoing[c] \in 0..Len(list)
      BY <1>1, <2>1, <3>2 DEF CallsInv, MailboxInv, CallOf, UnderWay, CallsTypeOK
    <3>4. coreDoing[c] \in DOMAIN list
      BY <2>1, <3>3
    <3>5. Open(coreDoing[c])
      BY <3>2, <3>3 DEF Open
    <3> QED BY <2>4, <3>4, <3>5
  <2>6. hostPc = "done"
    <3>1. SUFFICES ASSUME hostPc # "done"
                   PROVE  FALSE
      OBVIOUS
    <3>2. hostPc \in {"round", "look", "check"} /\ totalActive # 0
      BY <1>1, <2>1, <2>2, <3>1 DEF MonitorGoesOn, RestTypeOK
    <3>3. Watching # {}
      BY <2>1, <3>2, FS_EmptySet DEF CountOfRuns
    <3>4. PICK c \in CoreIds : active[c]
      BY <3>3 DEF Watching
    <3>5. c \in Intent /\ RunInv(c) /\ BusyOf(c)
      BY <1>1, <3>4 DEF CallsInv, RunsInv, MailboxInv, RunInv
    <3>6. core_busy[c] = 0 /\ core_run[c] = 0
      BY <2>5, <3>5 DEF BusyOf, RunInv
    <3> QED BY <1>1, <3>2, <3>4, <3>6 DEF MonitorGoesOn
  <2>7. \A t \in Threads : ThreadDone(t)
    <3>1. SUFFICES ASSUME NEW t \in Threads
                   PROVE  ThreadDone(t)
      OBVIOUS
    <3>2. threadPc[t] = "idle" /\ ThreadItems(t, threadDoing[t]) = {}
      BY <1>1, <2>2, <2>3, <2>4, ThreadWaits
    <3> QED BY <3>2 DEF ThreadDone
  <2> QED BY <2>5, <2>6, <2>7 DEF AllDone, AllEnded
<1>2. SafeInv /\ ShortEnough => SomebodyGoesOn
  BY <1>1 DEF SafeInv, SomebodyGoesOn
<1>3. CallsInit => ShortEnough
  BY DEF CallsInit, LongEnough, ShortEnough
<1>4. ShortEnough /\ [CallsNext]_allVars => ShortEnough'
  BY ListStays DEF ShortEnough
<1> QED BY <1>2, <1>3, <1>4, Invariance, PTL DEF CallsSpec
===============================================================================
