------------------------------- MODULE Postbox --------------------------------
(***************************************************************************)
(* Point-to-point messages between two Epiphany cores (device-functions.c, *)
(* "sendData" to "sendRecvDataWithDeviceCore").                            *)
(*                                                                         *)
(* Core q keeps one six byte slot for each peer p: type, four data bytes   *)
(* and a sequence byte.  p writes its message there, q answers by writing  *)
(* the slot back with the next sequence number.  Each core keeps ONE       *)
(* sequence byte per peer (syncValues), shared by both directions: every   *)
(* call of the pair moves it on twice.                                     *)
(*                                                                         *)
(* cpy moves the slot one byte at a time in ascending order, so the        *)
(* sequence byte is the last to be written and the last to be read.  The   *)
(* model keeps that order: a copy is one step per cell, the cells being    *)
(* the type, the data and the sequence number.  A payload cell holds the   *)
(* number of the message it belongs to.                                    *)
(***************************************************************************)
EXTENDS Naturals

CONSTANTS
  Cores,       \* the cores that run the interpreter; a call that names another
               \* one raises an error and leaves the slots alone
  SyncMax,     \* the largest sequence number: 255 in the code
  InitialSeq,  \* what the sequence bytes may hold before the first message:
               \* no code clears the postboxes
  WaitsFirst,  \* TRUE: after a non-blocking send to a peer a program has
               \* nothing to do with it before wait or test says it was taken,
               \* and waits for no other send
  MaxCalls     \* bound: messages posted by a core to a peer

(* One call uses two numbers, so the parity tells a message (odd) from its *)
(* answer (even), also across the wrap from 255 to 0.                      *)
ASSUME SyncAssumption == SyncMax \in Nat /\ SyncMax % 2 = 1 /\ SyncMax >= 3
ASSUME SeqAssumption == InitialSeq \subseteq 0..SyncMax
ASSUME BoundAssumption == MaxCalls \in Nat /\ WaitsFirst \in BOOLEAN

TYPE == 0
DATA == 1
SEQ  == 2
Cells == {TYPE, DATA}

VARIABLES
  syncValues,          \* [p][q]: the sequence byte of p for its peer q
  postbox,             \* [q][p]: the slot at q that p and q share
  communication_data,  \* [p]: the buffer every call of p goes through
  pc,                  \* [p]: where in its call p is
  call,                \* [p]: the call p is in, or made last
  peer,                \* [p]: the other core of that call
  at,                  \* [p]: the cell the running copy moves next
  unwaited,            \* [p][q]: a non-blocking send to q is not yet waited for
  posted, taken, known, got,  \* the history Rendezvous speaks of
  probed               \* [q][p]: the last probe of q found a message of p

localVars == <<syncValues, communication_data, pc, call, peer, at, unwaited>>
history == <<posted, taken, known, got, probed>>
vars == <<localVars, postbox, history>>

Calls == {"send", "nonblocking_send", "recv", "sendrecv", "wait_sent"}
\* Mutant of Inc: no wrap.
IncNoWrap(s) == s + 1

Inc(s) == IF s = SyncMax THEN 0 ELSE s + 1

\* Mutant of Matches: any number that is not older will do.
MatchesNewer(seen, awaited) == seen >= awaited
\* The sequence byte of a slot is the one a call waits for.
Matches(seen, awaited) == seen = awaited

Channels == {pq \in Cores \X Cores : pq[1] # pq[2]}
Pair(f) == [p \in Cores |-> [q \in Cores |-> f]]

Init ==
  /\ syncValues = Pair(0)
  /\ \E seq \in [Channels -> InitialSeq] :
       postbox = [q \in Cores |-> [p \in Cores |-> [c \in 0..SEQ |->
                    IF c = SEQ /\ <<p, q>> \in Channels THEN seq[<<p, q>>] ELSE 0]]]
  /\ communication_data = [p \in Cores |-> [c \in 0..SEQ |-> 0]]
  /\ pc = [p \in Cores |-> "idle"]
  /\ call = [p \in Cores |-> "send"]
  /\ peer = [p \in Cores |-> p]
  /\ at = [p \in Cores |-> 0]
  /\ unwaited = Pair(FALSE)
  /\ posted = Pair(0)
  /\ taken = Pair(0)
  /\ known = Pair(0)
  /\ got = Pair([c \in Cells |-> 0])
  /\ probed = Pair(FALSE)

Goto(p, label) == /\ pc' = [pc EXCEPT ![p] = label]
                  /\ at' = [at EXCEPT ![p] = 0]

Set(f, p, q, v) == [f EXCEPT ![p][q] = v]

(* p is between two calls and turns to q.                                  *)
Ready(p, q) == pc[p] = "idle" /\ q # p

\* p may turn to q with another message.
Settled(p, q) == WaitsFirst => ~unwaited[p][q]

Enter(p, q, c) == /\ call' = [call EXCEPT ![p] = c]
                  /\ peer' = [peer EXCEPT ![p] = q]

(* The buffer is filled with the next message to q: sequence number seq.   *)
FillBuffer(p, q, seq) ==
  communication_data' = [communication_data EXCEPT ![p] =
      [c \in 0..SEQ |-> IF c = SEQ THEN seq ELSE posted[p][q] + 1]]

-------------------------------------------------------------------------------
(* send and nonblocking_send.  A string is an error, and is sent all the   *)
(* same.                                                                   *)
Send(p, q, c) ==
  /\ Ready(p, q)
  /\ Settled(p, q)
  /\ posted[p][q] < MaxCalls
  /\ c \in {"send", "nonblocking_send"}
  /\ syncValues' = Set(syncValues, p, q, Inc(syncValues[p][q]))
  /\ FillBuffer(p, q, Inc(syncValues[p][q]))
  /\ Enter(p, q, c)
  /\ Goto(p, "put")
  /\ UNCHANGED <<postbox, unwaited, history>>

\* Mutant of SendRecv: it moves on to the number of its message, as send does.
SendRecvMovesOn(p, q) ==
  /\ Ready(p, q)
  /\ Settled(p, q)
  /\ posted[p][q] < MaxCalls
  /\ syncValues' = Set(syncValues, p, q, Inc(syncValues[p][q]))
  /\ FillBuffer(p, q, Inc(syncValues[p][q]))
  /\ Enter(p, q, "sendrecv")
  /\ Goto(p, "put")
  /\ UNCHANGED <<postbox, unwaited, history>>

(* sendrecv posts its message under the next number without moving on: the *)
(* receive that follows does.                                              *)
SendRecv(p, q) ==
  /\ Ready(p, q)
  /\ Settled(p, q)
  /\ posted[p][q] < MaxCalls
  /\ FillBuffer(p, q, Inc(syncValues[p][q]))
  /\ Enter(p, q, "sendrecv")
  /\ Goto(p, "put")
  /\ UNCHANGED <<syncValues, postbox, unwaited, history>>

(* One cell of cpy(remoteMemory, communication_data, 6).                   *)
PutCell(p) ==
  /\ pc[p] = "put"
  /\ at[p] < SEQ
  /\ postbox' = [postbox EXCEPT ![peer[p]][p][at[p]] = communication_data[p][at[p]]]
  /\ at' = [at EXCEPT ![p] = @ + 1]
  /\ UNCHANGED <<syncValues, communication_data, pc, call, peer, unwaited, history>>

(* Its last cell, and what follows it in the call: a send moves on to the  *)
(* number of the answer, which the blocking one waits for; sendrecv goes   *)
(* on to its receive.                                                      *)
PutSeq(p) ==
  LET q == peer[p] IN
  /\ pc[p] = "put"
  /\ at[p] = SEQ
  /\ postbox' = [postbox EXCEPT ![q][p][SEQ] = communication_data[p][SEQ]]
  /\ posted' = Set(posted, p, q, posted[p][q] + 1)
  /\ syncValues' = Set(syncValues, p, q, Inc(syncValues[p][q]))
  /\ unwaited' = Set(unwaited, p, q, call[p] = "nonblocking_send")
  /\ Goto(p, CASE call[p] = "send" -> "await"
               [] call[p] = "nonblocking_send" -> "idle"
               [] call[p] = "sendrecv" -> "take")
  /\ UNCHANGED <<communication_data, call, peer, taken, known, got, probed>>

(* The spin of send, sendrecv and wait_sent: only the sequence byte of the *)
(* copy is looked at.                                                      *)
Await(p) ==
  LET q == peer[p] IN
  /\ pc[p] = "await"
  /\ Matches(postbox[q][p][SEQ], syncValues[p][q])
  /\ known' = Set(known, p, q, known[p][q] + 1)
  /\ unwaited' = Set(unwaited, p, q, FALSE)
  /\ Goto(p, "idle")
  /\ UNCHANGED <<syncValues, postbox, communication_data, call, peer,
                 posted, taken, got, probed>>

WaitSent(p, q) ==
  /\ Ready(p, q)
  /\ WaitsFirst => unwaited[p][q]
  /\ Enter(p, q, "wait_sent")
  /\ Goto(p, "await")
  /\ UNCHANGED <<syncValues, postbox, communication_data, unwaited, history>>

(* test_sent that returns TRUE; when it returns FALSE nothing changes.     *)
TestSent(p, q) ==
  /\ Ready(p, q)
  /\ WaitsFirst => unwaited[p][q]
  /\ Matches(postbox[q][p][SEQ], syncValues[p][q])
  /\ known' = Set(known, p, q, known[p][q] + 1)
  /\ unwaited' = Set(unwaited, p, q, FALSE)
  /\ UNCHANGED <<syncValues, postbox, communication_data, pc, call, peer, at,
                 posted, taken, got, probed>>

-------------------------------------------------------------------------------
(* recv.  The code moves syncValues on after its first copy and before its *)
(* first comparison; nobody else reads it.                                 *)
Recv(p, q) ==
  /\ Ready(p, q)
  /\ Settled(p, q)
  /\ syncValues' = Set(syncValues, p, q, Inc(syncValues[p][q]))
  /\ Enter(p, q, "recv")
  /\ Goto(p, "take")
  /\ UNCHANGED <<postbox, communication_data, unwaited, history>>

(* One cell of cpy(communication_data, postbox + source*6, 6).             *)
TakeCell(p) ==
  /\ pc[p] = "take"
  /\ at[p] < SEQ
  /\ communication_data' = [communication_data EXCEPT
                              ![p][at[p]] = postbox[p][peer[p]][at[p]]]
  /\ at' = [at EXCEPT ![p] = @ + 1]
  /\ UNCHANGED <<syncValues, postbox, pc, call, peer, unwaited, history>>

(* Its last cell shows the awaited number: the message is taken as copied, *)
(* and the answer is prepared in the same buffer.                          *)
TakeSeq(p) ==
  LET q == peer[p] IN
  /\ pc[p] = "take"
  /\ at[p] = SEQ
  /\ Matches(postbox[p][q][SEQ], syncValues[p][q])
  /\ syncValues' = Set(syncValues, p, q, Inc(syncValues[p][q]))
  /\ communication_data' = [communication_data EXCEPT ![p][SEQ] = Inc(syncValues[p][q])]
  /\ taken' = Set(taken, q, p, taken[q][p] + 1)
  /\ got' = Set(got, q, p, [c \in Cells |-> communication_data[p][c]])
  /\ probed' = Set(probed, p, q, FALSE)
  /\ Goto(p, "answer")
  /\ UNCHANGED <<postbox, call, peer, unwaited, posted, known>>

(* Its last cell shows another number: the loop copies the slot again.     *)
TakeAgain(p) ==
  /\ pc[p] = "take"
  /\ at[p] = SEQ
  /\ ~Matches(postbox[p][peer[p]][SEQ], syncValues[p][peer[p]])
  /\ Goto(p, "take")
  /\ UNCHANGED <<syncValues, postbox, communication_data, call, peer, unwaited, history>>

(* The slot is written back; sendrecv then waits for its own answer.       *)
AnswerCell(p) ==
  /\ pc[p] = "answer"
  /\ postbox' = [postbox EXCEPT ![p][peer[p]][at[p]] = communication_data[p][at[p]]]
  /\ IF at[p] < SEQ
       THEN /\ at' = [at EXCEPT ![p] = @ + 1]
            /\ UNCHANGED pc
       ELSE Goto(p, IF call[p] = "sendrecv" THEN "await" ELSE "idle")
  /\ UNCHANGED <<syncValues, communication_data, call, peer, unwaited, history>>

\* Mutant of Finds: it looks for the current number, not for the next one.
FindsCurrent(p, q) == Matches(postbox[p][q][SEQ], syncValues[p][q])

(* What a probe of p for a message of q answers: one look at the slot.     *)
Finds(p, q) == Matches(postbox[p][q][SEQ], Inc(syncValues[p][q]))

Probe(p, q) ==
  /\ Ready(p, q)
  /\ Settled(p, q)
  /\ probed' = Set(probed, p, q, Finds(p, q))
  /\ UNCHANGED <<localVars, postbox, posted, taken, known, got>>

-------------------------------------------------------------------------------
(* The calls a program may make, and the steps of a call under way.        *)
Call(p, q) ==
  \/ \E c \in {"send", "nonblocking_send"} : Send(p, q, c)
  \/ SendRecv(p, q)
  \/ Recv(p, q)
  \/ WaitSent(p, q)
  \/ TestSent(p, q)
  \/ Probe(p, q)

Step(p) ==
  \/ PutCell(p) \/ PutSeq(p) \/ Await(p)
  \/ TakeCell(p) \/ TakeSeq(p) \/ TakeAgain(p) \/ AnswerCell(p)

Next == \E p \in Cores : Step(p) \/ \E q \in Cores : Call(p, q)

Spec == Init /\ [][Next]_vars

-------------------------------------------------------------------------------
Slot == [0..SEQ -> Nat]

TypeOK ==
  /\ syncValues \in [Cores -> [Cores -> 0..SyncMax]]
  /\ postbox \in [Cores -> [Cores -> Slot]]
  /\ communication_data \in [Cores -> Slot]
  /\ pc \in [Cores -> {"idle", "put", "await", "take", "answer"}]
  /\ call \in [Cores -> Calls]
  /\ peer \in [Cores -> Cores]
  /\ at \in [Cores -> 0..SEQ]
  /\ unwaited \in [Cores -> [Cores -> BOOLEAN]]
  /\ posted \in [Cores -> [Cores -> Nat]]
  /\ taken \in [Cores -> [Cores -> Nat]]
  /\ known \in [Cores -> [Cores -> Nat]]
  /\ got \in [Cores -> [Cores -> [Cells -> Nat]]]
  /\ probed \in [Cores -> [Cores -> BOOLEAN]]

(* The slots, the sequence bytes and the copy loops keep the promise of    *)
(* Rendezvous for every pair, whatever calls the two programs make and     *)
(* however often the sequence byte wraps.                                  *)
Abstract == INSTANCE Rendezvous
RendezvousSpec == Abstract!Spec

(* A probe that answered "yes" is still right when the program acts on it: *)
(* a message of that peer is there until this core takes it, and recv will *)
(* not block on its arrival (device-functions.c:682-696; the task farm     *)
(* master relies on it).                                                   *)
ProbeIsStable ==
  \A p, q \in Cores : probed[q][p] => posted[p][q] = taken[p][q] + 1

(* A probe misses nothing: whenever a program may probe, and a message was *)
(* posted that its core has not taken, the answer is "yes"                 *)
(* (device-functions.c:690-692), although both directions of the pair      *)
(* share the number it looks for.  It is an invariant over the states in   *)
(* which a probe is possible, not over the probes: the answer "no" changes *)
(* nothing, so that no action formula would look at it.                    *)
ProbeMissesNothing ==
  \A p, q \in Cores :
    Ready(q, p) /\ Settled(q, p) /\ taken[p][q] < posted[p][q] => Finds(q, p)

(* "core 1 will receive this value from core 0" (docs/tutorial2.md:20): a  *)
(* receive returns the payload of the message it took, all of it.          *)
ReceivesWhatWasSent ==
  \A p, q \in Cores, c \in Cells : got[p][q][c] = taken[p][q]

(* "Gets some data from another core (blocking operation)"                 *)
(* (device-functions.c:720): a receive does not return before the matching *)
(* message was sent.                                                       *)
NoPhantomReceive == \A p, q \in Cores : taken[p][q] <= posted[p][q]
===============================================================================
