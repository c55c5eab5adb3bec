---------------------------- MODULE PostboxProgram ----------------------------
(***************************************************************************)
(* Programs whose calls match: a list of transfers, of which every core    *)
(* performs, in the order of the list, those it takes part in.  This is    *)
(* the discipline of the codes in docs/tutorial2.md to tutorial5.md; the   *)
(* program itself is the user's, Postbox is what runs it.                  *)
(***************************************************************************)
EXTENDS Postbox, Sequences

CONSTANT Programs  \* the lists of transfers to run

VARIABLES transfers,  \* the list this behaviour runs
          position    \* [p]: the transfers of the list p has started or skipped

program == <<transfers, position>>
allVars == <<vars, program>>

Kinds == {"send", "nonblocking_send", "sendrecv"}
Transfers == {t \in [kind : Kinds, from : Cores, to : Cores] : t.from # t.to}

ASSUME ProgramsAssumption == Programs \subseteq Seq(Transfers)

ProgramInit ==
  /\ Init
  /\ transfers \in Programs
  /\ position = [p \in Cores |-> 0]

Concerns(p, i) == p \in {transfers[i].from, transfers[i].to}
Remaining(p) == {i \in DOMAIN transfers : i > position[p] /\ Concerns(p, i)}

(* p makes the call its next transfer asks of it.                          *)
StartNext(p) ==
  \E i \in Remaining(p) :
    LET t == transfers[i]
        q == IF p = t.from THEN t.to ELSE t.from IN
    /\ \A j \in Remaining(p) : i <= j
    /\ CASE t.kind = "sendrecv" -> SendRecv(p, q)
         [] t.kind # "sendrecv" /\ p = t.from -> Send(p, q, t.kind)
         [] t.kind # "sendrecv" /\ p = t.to -> Recv(p, q)
    /\ position' = [position EXCEPT ![p] = i]
    /\ UNCHANGED transfers

(* It settles a non-blocking send, at any time before it needs the pair.   *)
Settle(p) ==
  /\ \E q \in Cores : WaitSent(p, q) \/ TestSent(p, q)
  /\ UNCHANGED program

ProbeNext(p) ==
  /\ \E q \in Cores : Probe(p, q)
  /\ Remaining(p) # {}
  /\ UNCHANGED program

ProgramStep(p) == Step(p) /\ UNCHANGED program

AllDone ==
  \A p \in Cores : /\ pc[p] = "idle"
                    /\ Remaining(p) = {}
                    /\ \A q \in Cores : ~unwaited[p][q]

Finished == AllDone /\ UNCHANGED allVars

ProgramNext ==
  \/ \E p \in Cores : ProgramStep(p) \/ StartNext(p) \/ Settle(p) \/ ProbeNext(p)
  \/ Finished

(* Every core is a processor of its own, which never stops fetching: a     *)
(* call under way goes on, and so does the program between two calls.      *)
ProgramSpec ==
  /\ ProgramInit /\ [][ProgramNext]_allVars
  /\ \A p \in Cores : /\ WF_allVars(ProgramStep(p))
                       /\ WF_allVars(StartNext(p) \/ Settle(p))

-------------------------------------------------------------------------------
(* The calls are blocking "until it has either fully sent or fully         *)
(* received the value" (docs/tutorial2.md:20), and no longer: a program    *)
(* whose calls match runs to its end.  A lost answer, a number that two    *)
(* cores count differently after the wrap, or an answer mistaken for a     *)
(* message would stop it.                                                  *)
MatchedProgramsFinish == <>AllDone

(* What brings p on: a step of a call, or the start of the next one.  To   *)
(* look at a slot again does not.                                          *)
Partner(p, i) == IF p = transfers[i].from THEN transfers[i].to ELSE transfers[i].from
MayStart(p, i) ==
  /\ \A j \in Remaining(p) : i <= j
  /\ Settled(p, Partner(p, i))
  /\ p = transfers[i].from \/ transfers[i].kind = "sendrecv" =>
       posted[p][Partner(p, i)] < MaxCalls

CanGoOn(p) ==
  \/ pc[p] \in {"put", "answer"}
  \/ pc[p] = "take" /\ Matches(postbox[p][peer[p]][SEQ], syncValues[p][peer[p]])
  \/ pc[p] = "await" /\ Matches(postbox[peer[p]][p][SEQ], syncValues[p][peer[p]])
  \/ pc[p] = "idle" /\ \/ \E q \in Cores : unwaited[p][q]
                       \/ \E i \in Remaining(p) : MayStart(p, i)

(* No circle of cores waits for each other's messages and answers: up to   *)
(* the end of the program there is always one whose wait is over, whoever  *)
(* sends first and however the transfers of different pairs are mixed.     *)
NobodyWaitsInACircle == AllDone \/ \E p \in Cores : CanGoOn(p)
===============================================================================
