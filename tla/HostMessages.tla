---------------------------- MODULE HostMessages ----------------------------
(* Point-to-point messages between the threads of a host that runs without   *)
(* cores (src/host/host-functions.c): the slots and sequence bytes of        *)
(* Postbox in ordinary memory. Six bytes are copied to a slot and from it,   *)
(* the value and its number, and nothing orders the two: a copy moves one of *)
(* them after the other, in either order, while the partner may move them.   *)
EXTENDS Naturals

CONSTANTS Threads,
          SyncMax       \* the largest sequence number: 255 in the code
ASSUME SyncAssumption == SyncMax \in Nat /\ SyncMax % 2 = 1 /\ SyncMax >= 3

VARIABLES syncValues,   \* [p][q]: the sequence byte of p for q
          sharedComm,   \* [q][p]: the slot in which q gets the messages of p
          communication_data,  \* [p]: the six bytes of the call p is in
          pc,           \* [p]: where in its call p is
          partner,      \* [p]: the thread that this call is with
          rest,         \* [p]: what the copy that p is in has still to move
          torn          \* a history: a receive took the value of one message
                        \* for that of another
messages == <<syncValues, sharedComm, communication_data, pc, partner, rest, torn>>

Inc(s) == IF s = SyncMax THEN 0 ELSE s + 1
Two(s) == Inc(Inc(s))
Twice(p, q) == syncValues' = [syncValues EXCEPT ![p][q] = Two(@)]
GoTo(p, place, q) == pc' = [pc EXCEPT ![p] = place] /\ partner' = [partner EXCEPT ![p] = q]

(* The bytes of a message, and with its value the number it belongs to.      *)
Bytes(value, number) == [data |-> [value |-> value, of |-> number], seq |-> number]
Halves == {"data", "seq"}
Empty == Bytes(0, 0)
Holds(p, bytes) == communication_data' = [communication_data EXCEPT ![p] = bytes]
CopyOf(p, half) == rest' = [rest EXCEPT ![p] = half]

MessagesInit ==
  /\ syncValues = [p \in Threads |-> [q \in Threads |-> 0]]
  /\ sharedComm = [p \in Threads |-> [q \in Threads |-> Empty]]
  /\ communication_data = [p \in Threads |-> Empty]
  /\ pc = [p \in Threads |-> "idle"] /\ partner = [p \in Threads |-> p]
  /\ rest = [p \in Threads |-> "none"] /\ torn = FALSE

(* p begins to copy "bytes" into a slot, and ends it.                        *)
PutIn(q, from, p, bytes) ==
  /\ Holds(p, bytes)
  /\ \E half \in Halves : /\ sharedComm' = [sharedComm EXCEPT ![q][from][half] = bytes[half]]
                          /\ CopyOf(p, CHOOSE other \in Halves : other # half)
Puts == {"sending", "leaving", "posting", "answering", "closing"}
PutRest(p) ==
  LET q == partner[p]
      half == rest[p]
  IN  /\ pc[p] \in Puts
      /\ sharedComm' =
           IF pc[p] \in {"answering", "closing"}
           THEN [sharedComm EXCEPT ![p][q][half] = communication_data[p][half]]
           ELSE [sharedComm EXCEPT ![q][p][half] = communication_data[p][half]]
      /\ CopyOf(p, "none") /\ Holds(p, Empty)
      /\ CASE pc[p] \in {"sending", "closing"} -> GoTo(p, "sent", q)
           [] pc[p] = "posting"                -> GoTo(p, "posted", q)
           [] OTHER                            -> GoTo(p, "idle", p)
      /\ UNCHANGED <<syncValues, torn>>

SendMessage(p, q, value, blocking) ==
  /\ pc[p] = "idle"
  /\ PutIn(q, p, p, Bytes(value, Inc(syncValues[p][q]))) /\ Twice(p, q)
  /\ GoTo(p, IF blocking THEN "sending" ELSE "leaving", q)
  /\ UNCHANGED torn

(* The receiver has answered in the slot.                                    *)
Answered(p, q) == sharedComm[q][p].seq = syncValues[p][q]
Sent(p)        == pc[p] = "sent" /\ Answered(p, partner[p])
Return(p)      == /\ GoTo(p, "idle", p)
                  /\ UNCHANGED <<syncValues, sharedComm, communication_data, rest, torn>>
WaitSent(p, q) == pc[p] = "idle" /\ Answered(p, q) /\ UNCHANGED messages

(* The first half of a sendrecv leaves the sequence byte to the receive.     *)
Post(p, q, value) ==
  /\ pc[p] = "idle"
  /\ PutIn(q, p, p, Bytes(value, Inc(syncValues[p][q])))
  /\ GoTo(p, "posting", q)
  /\ UNCHANGED <<syncValues, torn>>

HasChanged(p, q) == sharedComm[p][q].seq # syncValues[p][q]     \* a mutant of the next definition
HasMessage(p, q) == sharedComm[p][q].seq = Inc(syncValues[p][q])

(* A receive copies the slot until the number is that of the message. A copy *)
(* that begins with another number has no effect.                            *)
BeginCopy(p, q) ==
  /\ pc[p] \in {"idle", "posted"} /\ rest[p] = "none"
  /\ \E half \in Halves :
       /\ half = "seq" => HasMessage(p, q)
       /\ Holds(p, [Empty EXCEPT ![half] = sharedComm[p][q][half]])
       /\ CopyOf(p, CHOOSE other \in Halves : other # half)
  /\ UNCHANGED <<syncValues, sharedComm, pc, partner, torn>>
CopyInVain(p, q) ==
  /\ pc[p] \in {"idle", "posted"} /\ rest[p] = "seq" /\ ~HasMessage(p, q)
  /\ Holds(p, Empty) /\ CopyOf(p, "none")
  /\ UNCHANGED <<syncValues, sharedComm, pc, partner, torn>>
RecvMessage(p, q) ==
  /\ pc[p] \in {"idle", "posted"} /\ rest[p] # "none"
  /\ rest[p] = "seq" => HasMessage(p, q)
  /\ LET copy == [communication_data[p] EXCEPT ![rest[p]] = sharedComm[p][q][rest[p]]]
     IN  Holds(p, copy) /\ torn' = (torn \/ copy.data.of # copy.seq)
  /\ CopyOf(p, "none")
  /\ GoTo(p, IF pc[p] = "posted" THEN "exchanging" ELSE "received", q)
  /\ UNCHANGED <<syncValues, sharedComm>>
Message(p) == communication_data'[p].data.value

Answer(p) ==
  /\ pc[p] \in {"received", "exchanging"}
  /\ LET q == partner[p]
     IN  /\ PutIn(p, q, p, Bytes(communication_data[p].data.value, Two(syncValues[p][q])))
         /\ Twice(p, q)
         /\ GoTo(p, IF pc[p] = "exchanging" THEN "closing" ELSE "answering", q)
  /\ UNCHANGED torn
=============================================================================
