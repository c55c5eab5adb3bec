------------------------------ MODULE Library -------------------------------
(* What programs on host threads call: the collectives bcast and reduce      *)
(* (src/host/host-functions.c), and the task farm (src/modules/taskfarm.py), *)
(* over the messages of HostMessages and the synchronisation that GlobalSync *)
(* is shown to implement.                                                    *)
(*                                                                          *)
(* Each thread has a list of calls to make. A call of the library is         *)
(* replaced by the calls that it makes, in their order; what these receive   *)
(* is in "inbox" until the call that they are for ends. Functions, numbers   *)
(* and the words of an array are integers.                                   *)
EXTENDS HostMessages, Integers, Sequences, SequencesExt, FiniteSetsExt

CONSTANTS Programs,     \* each: the calls of each thread
          FunctionOf,   \* what each function returns that is run in the farm
          MASTER,       \* the master of the farm
          Leftover      \* what the array of the farm may hold when it is new

VARIABLES program,      \* the program,
          todo,         \* [p]: the calls that p has left to make
          inbox,        \* [p]: what was received for the call p is in
          results,      \* [p]: what its calls returned
          executed,     \* [p]: the functions that p ran for the farm
          _remoteFunctionCallState,  \* [p]: as the master has it
          entered, left              \* the synchronisations of p
farm    == <<executed, _remoteFunctionCallState>>
synced  == <<entered, left>>
vars    == <<messages, program, todo, inbox, results, farm, synced>>
SyncPoint == INSTANCE SyncPoint WITH Members <- Threads

(* A call: "target" is the other thread, the root or the operator; the       *)
(* result of a call is kept if it is one of the program's.                   *)
Call(op, value, target) ==
  [op |-> op, value |-> value, target |-> target, keep |-> FALSE, args |-> <<>>]
Kept(call)  == [call EXCEPT !.keep = TRUE]
Plain(op)   == Call(op, 0, MASTER)
Others(p)   == SelectSeq(SetToSortSeq(Threads, LAMBDA a, b : a < b), LAMBDA q : q # p)
MapSeq(f(_), s) == [i \in DOMAIN s |-> f(s[i])]
Repeat(n, call) == [i \in 1..n |-> call]
Concat(f(_), s) == FoldLeft(LAMBDA all, x : all \o f(x), <<>>, s)

(* An argument or a result: the length of an array and its words, length 0   *)
(* and a word, or length -1 for none.                                        *)
Encoded(v) == <<v.length>> \o v.data
Words(n)   == CASE n = -1 -> 0 [] n = 0 -> 1 [] OTHER -> n

Init ==
  /\ MessagesInit
  /\ program \in Programs
  /\ todo = program
  /\ inbox = [p \in Threads |-> <<>>] /\ results = inbox /\ executed = inbox
  /\ _remoteFunctionCallState = [p \in Threads |-> FALSE]
  /\ SyncPoint!Init

Head1(p)    == Head(todo[p])
Next1(p, op) == todo[p] # <<>> /\ Head1(p).op = op
Becomes(p, calls) == todo' = [todo EXCEPT ![p] = calls \o Tail(@)]
Ends(p)     == Becomes(p, <<>>)
Keep(p, r)  == results' = [results EXCEPT ![p] = Append(@, r)]
Received(p, call, value) ==
  IF call.keep THEN Keep(p, <<value>>) /\ UNCHANGED inbox
  ELSE inbox' = [inbox EXCEPT ![p] = Append(@, value)] /\ UNCHANGED results

-----------------------------------------------------------------------------
(* The calls that send and receive. *)
SendData(p) ==
  /\ \E op \in {"send", "nonblocking_send"} :
       Next1(p, op) /\ SendMessage(p, Head1(p).target, Head1(p).value, op = "send")
  /\ Ends(p)
  /\ UNCHANGED <<program, inbox, results, farm, synced>>
WaitSend(p) ==
  /\ Next1(p, "wait_sent") /\ WaitSent(p, Head1(p).target)
  /\ Ends(p)
  /\ UNCHANGED <<program, inbox, results, farm, synced>>
PostData(p) ==
  /\ Next1(p, "sendrecv") /\ Post(p, Head1(p).target, Head1(p).value)
  /\ UNCHANGED <<program, todo, inbox, results, farm, synced>>
Receives(p) == \/ Next1(p, "recv") /\ pc[p] = "idle"
               \/ Next1(p, "sendrecv") /\ pc[p] = "posted"
CopyData(p) ==
  /\ Receives(p)
  /\ BeginCopy(p, Head1(p).target) \/ CopyInVain(p, Head1(p).target)
  /\ UNCHANGED <<program, todo, inbox, results, farm, synced>>
RecvData(p) ==
  /\ Receives(p)
  /\ RecvMessage(p, Head1(p).target)
  /\ Received(p, Head1(p), Message(p))
  /\ Ends(p)
  /\ UNCHANGED <<program, farm, synced>>
PutData(p) ==
  PutRest(p) /\ UNCHANGED <<program, todo, inbox, results, farm, synced>>
AnswerData(p) ==
  Answer(p) /\ UNCHANGED <<program, todo, inbox, results, farm, synced>>
EndSend(p) ==
  Sent(p) /\ Return(p) /\ UNCHANGED <<program, todo, inbox, results, farm, synced>>

(* syncCores: see GlobalSync. *)
EnterSync(p) ==
  /\ pc[p] = "idle" /\ Next1(p, "sync") /\ SyncPoint!Enter(p)
  /\ UNCHANGED <<messages, program, todo, inbox, results, farm>>
LeaveSync(p) ==
  /\ SyncPoint!Leave(p) /\ Ends(p)
  /\ UNCHANGED <<messages, program, inbox, results, farm>>

-----------------------------------------------------------------------------
(* The collectives. *)
Idle(p, op) == pc[p] = "idle" /\ Next1(p, op)

bcastData(p) ==
  /\ Idle(p, "bcast")
  /\ LET call == Head1(p)
     IN  Becomes(p, IF p = call.target
                    THEN MapSeq(LAMBDA q : Call("send", call.value, q), Others(p))
                         \o <<Kept(Call("result", call.value, p))>>
                    ELSE <<Kept(Call("recv", 0, call.target))>>)
  /\ UNCHANGED <<messages, program, inbox, results, farm, synced>>

Exchanges(p, value) == MapSeq(LAMBDA q : Call("sendrecv", value, q), Others(p))
reduceInTurns(p) ==     \* a mutant of the next definition: each begins with its neighbour
  /\ Idle(p, "reduce")
  /\ LET call == Head1(p)
         after == SelectSeq(Exchanges(p, call.value), LAMBDA c : c.target > p)
         before == SelectSeq(Exchanges(p, call.value), LAMBDA c : c.target < p)
     IN  Becomes(p, <<Plain("sync")>> \o after \o before
                    \o <<Call("combine", call.value, call.target)>>)
  /\ UNCHANGED <<messages, program, inbox, results, farm, synced>>
reduceData(p) ==
  /\ Idle(p, "reduce")
  /\ LET call == Head1(p)
     IN  Becomes(p, <<Plain("sync")>> \o Exchanges(p, call.value)
                    \o <<Call("combine", call.value, call.target)>>)
  /\ UNCHANGED <<messages, program, inbox, results, farm, synced>>

Operator(rop, a, b) == CASE rop = 0 -> a + b
                         [] rop = 1 -> IF b < a THEN b ELSE a
                         [] rop = 2 -> IF b > a THEN b ELSE a
                         [] rop = 3 -> a * b
Combine(p) ==
  /\ Idle(p, "combine")
  /\ Keep(p, <<FoldLeft(LAMBDA a, b : Operator(Head1(p).target, a, b), Head1(p).value, inbox[p])>>)
  /\ inbox' = [inbox EXCEPT ![p] = <<>>]
  /\ Ends(p)
  /\ UNCHANGED <<messages, program, farm, synced>>
Result(p) ==
  /\ Idle(p, "result")
  /\ Keep(p, <<Head1(p).value>>)
  /\ Ends(p)
  /\ UNCHANGED <<messages, program, inbox, farm, synced>>

-----------------------------------------------------------------------------
(* The task farm: the master. *)
initTaskFarm(p) ==
  /\ Idle(p, "initTaskFarm")
  /\ \E state \in [Threads -> Leftover] :
       _remoteFunctionCallState' = [state EXCEPT ![MASTER] = FALSE]
  /\ Ends(p)
  /\ UNCHANGED <<messages, program, inbox, results, executed, synced>>

SendArgument(pid, arg) == MapSeq(LAMBDA w : Call("send", w, pid), Encoded(arg))
execFunction(p) ==
  /\ Idle(p, "execFunction")
  /\ LET call == Head1(p)
         pid  == call.target
     IN  Becomes(p, <<Call("waitFunctionFinish", 0, pid), Call("mark", 0, pid),
                      Call("send", Len(call.args), pid), Call("send", call.value, pid)>>
                    \o Concat(LAMBDA arg : SendArgument(pid, arg), call.args))
  /\ UNCHANGED <<messages, program, inbox, results, farm, synced>>
Mark(p) ==
  /\ Idle(p, "mark")
  /\ _remoteFunctionCallState' = [_remoteFunctionCallState EXCEPT ![Head1(p).target] = TRUE]
  /\ Ends(p)
  /\ UNCHANGED <<messages, program, inbox, results, executed, synced>>

(* It says at once whether the function has finished; a program that is told *)
(* "false" asks again.                                                       *)
testFunctionFinish(p) ==
  /\ Idle(p, "testFunctionFinish")
  /\ LET pid == Head1(p).target
     IN  inbox' = [inbox EXCEPT ![p] = Append(@, _remoteFunctionCallState[pid] /\ HasMessage(p, pid))]
  /\ Becomes(p, <<[Head1(p) EXCEPT !.op = "tested"]>>)
  /\ UNCHANGED <<messages, program, results, farm, synced>>
Tested(p) ==
  /\ Idle(p, "tested")
  /\ IF Last(inbox[p]) THEN Ends(p)
     ELSE Becomes(p, <<[Head1(p) EXCEPT !.op = "testFunctionFinish"]>>)
  /\ inbox' = [inbox EXCEPT ![p] = <<>>]
  /\ UNCHANGED <<messages, program, results, farm, synced>>

waitFunctionFinish(p) ==
  /\ Idle(p, "waitFunctionFinish")
  /\ LET call == Head1(p)
     IN  IF _remoteFunctionCallState[call.target]
         THEN /\ Becomes(p, <<Call("recv", 0, call.target), [call EXCEPT !.op = "recvResult"]>>)
              /\ _remoteFunctionCallState' = [_remoteFunctionCallState EXCEPT ![call.target] = FALSE]
         ELSE /\ Becomes(p, <<[call EXCEPT !.op = "return"]>>)
              /\ UNCHANGED _remoteFunctionCallState
  /\ UNCHANGED <<messages, program, inbox, results, executed, synced>>
RecvResult(p) ==
  /\ Idle(p, "recvResult")
  /\ Becomes(p, Repeat(Words(Last(inbox[p])), Call("recv", 0, Head1(p).target))
                \o <<[Head1(p) EXCEPT !.op = "return"]>>)
  /\ UNCHANGED <<messages, program, inbox, results, farm, synced>>
ReturnResult(p) ==
  /\ Idle(p, "return")
  /\ IF Head1(p).keep THEN Keep(p, inbox[p]) ELSE UNCHANGED results
  /\ inbox' = [inbox EXCEPT ![p] = <<>>]
  /\ Ends(p)
  /\ UNCHANGED <<messages, program, farm, synced>>

shutdownTaskFarm(p) ==
  /\ Idle(p, "shutdownTaskFarm")
  /\ Becomes(p, Concat(LAMBDA i : <<Call("waitFunctionFinish", 0, i), Call("send", -1, i)>>, Others(p)))
  /\ UNCHANGED <<messages, program, inbox, results, farm, synced>>

(* The workers. *)
worker(p) ==
  /\ Idle(p, "worker")
  /\ Becomes(p, <<Call("recv", 0, MASTER), Plain("task")>>)
  /\ UNCHANGED <<messages, program, inbox, results, farm, synced>>
Task(p) ==
  /\ Idle(p, "task")
  /\ inbox' = [inbox EXCEPT ![p] = <<>>]
  /\ Becomes(p, IF Last(inbox[p]) < 0 THEN <<>>
                ELSE <<Call("recv", 0, MASTER)>> \o Repeat(Last(inbox[p]), Plain("recvArgument"))
                     \o <<Plain("run")>>)
  /\ UNCHANGED <<messages, program, results, farm, synced>>
recvArgument(p) ==
  /\ \/ Idle(p, "recvArgument") /\ Becomes(p, <<Call("recv", 0, MASTER), Plain("recvWords")>>)
     \/ Idle(p, "recvWords") /\ Becomes(p, Repeat(Words(Last(inbox[p])), Call("recv", 0, MASTER)))
  /\ UNCHANGED <<messages, program, inbox, results, farm, synced>>
RunFunction(p) ==
  /\ Idle(p, "run")
  /\ executed' = [executed EXCEPT ![p] = Append(@, inbox[p])]
  /\ inbox' = [inbox EXCEPT ![p] = <<>>]
  /\ Becomes(p, SendArgument(MASTER, FunctionOf[inbox[p][1]]) \o <<Plain("worker")>>)
  /\ UNCHANGED <<messages, program, results, _remoteFunctionCallState, synced>>

(* A receive that took the value of another message may have got any mix of  *)
(* their bytes: what the program makes of it is not followed.                *)
Step(p) == ~torn /\ (
  \/ SendData(p) \/ WaitSend(p) \/ PostData(p) \/ PutData(p)
  \/ CopyData(p) \/ RecvData(p) \/ AnswerData(p) \/ EndSend(p)
  \/ EnterSync(p) \/ LeaveSync(p)
  \/ bcastData(p) \/ reduceData(p) \/ Combine(p) \/ Result(p)
  \/ initTaskFarm(p) \/ execFunction(p) \/ Mark(p) \/ testFunctionFinish(p) \/ Tested(p)
  \/ waitFunctionFinish(p) \/ RecvResult(p) \/ ReturnResult(p) \/ shutdownTaskFarm(p)
  \/ worker(p) \/ Task(p) \/ recvArgument(p) \/ RunFunction(p))
AllEnded == \A p \in Threads : todo[p] = <<>> /\ pc[p] = "idle"
Next == (\E p \in Threads : Step(p)) \/ ((AllEnded \/ torn) /\ UNCHANGED vars)

(* The threads of the host are scheduled by its operating system.            *)
Spec == Init /\ [][Next]_vars /\ \A p \in Threads : WF_vars(Step(p))

-----------------------------------------------------------------------------
(* What each call of a program should return, without a message.             *)
Collective(c)   == c.op \in {"bcast", "reduce"}
Collectives(p)  == SelectSeq(program[p], Collective)
SentTo(q, p)    == SelectSeq(program[q], LAMBDA c : c.target = p
                                 /\ c.op \in {"send", "nonblocking_send", "sendrecv"})
Before(p, n, test(_)) == Len(SelectSeq(SubSeq(program[p], 1, n), test))

CollectiveResult(p, n) ==
  LET k == Before(p, n, Collective)
      call == program[p][n]
      value(q) == Collectives(q)[k].value
  IN  IF call.op = "bcast" THEN value(call.target)
      ELSE FoldLeft(LAMBDA a, q : Operator(call.target, a, value(q)), value(p), Others(p))
MessageFrom(p, n) ==
  LET q == program[p][n].target
  IN  SentTo(q, p)[Before(p, n, LAMBDA c : c.target = q /\ c.op \in {"recv", "sendrecv"})].value

(* A wait returns the result of the last function that was run there, if     *)
(* no wait since then has returned it.                                       *)
FunctionResult(n) ==
  LET pid == program[MASTER][n].target
      calls == SelectSeq(SubSeq(program[MASTER], 1, n - 1),
                         LAMBDA c : c.target = pid /\ c.op \in {"execFunction", "waitFunctionFinish"})
  IN  IF calls = <<>> \/ Last(calls).op = "waitFunctionFinish" THEN <<>>
      ELSE Encoded(FunctionOf[Last(calls).value])

ExpectedOf(p, n) ==
  CASE Collective(program[p][n]) -> <<<<CollectiveResult(p, n)>>>>
    [] program[p][n].op \in {"recv", "sendrecv"} -> <<<<MessageFrom(p, n)>>>>
    [] program[p][n].op = "waitFunctionFinish" -> <<FunctionResult(n)>>
    [] OTHER -> <<>>
Expected(p) == Concat(LAMBDA n : ExpectedOf(p, n), [n \in DOMAIN program[p] |-> n])
Tasks(p) ==
  MapSeq(LAMBDA c : <<c.value>> \o Concat(Encoded, c.args),
         SelectSeq(program[MASTER], LAMBDA c : c.op = "execFunction" /\ c.target = p))

(* Every call returns what it should: a broadcast the value of its root, a   *)
(* reduction the same value to all threads, a wait for a function the result *)
(* of that function; and each function is executed once, where and with      *)
(* the arguments it was sent with, in order; unless a receive was torn.      *)
ResultsRight ==
  ~torn =>
    \A p \in Threads : /\ IsPrefix(results[p], Expected(p))
                       /\ IsPrefix(executed[p], Tasks(p))
                       /\ AllEnded => results[p] = Expected(p) /\ executed[p] = Tasks(p)

(* A program whose calls match comes to its end on all threads: exchanges in *)
(* different orders do not wait for one another, and the farm is shut down;  *)
(* unless a receive was torn.                                                *)
EveryProgramEnds == <>(AllEnded \/ torn)
=============================================================================
