---------------------------- MODULE Postbox_proofs ----------------------------
(***************************************************************************)
(* Proofs about Postbox, for any number of cores, any width of the         *)
(* sequence byte and any calls in any order, when programs wait for their  *)
(* non-blocking sends (WaitsFirst) and the slots hold answers at first     *)
(* (EvenStart): every ordered pair implements Rendezvous.                  *)
(*                                                                         *)
(* The numbers themselves do not matter, only their parity: a slot with an *)
(* odd number holds a message, one with an even number an answer, whatever *)
(* the two cores have counted up to and however old the number is.         *)
(***************************************************************************)
EXTENDS Postbox, TLAPS

EvenStart == \A s \in InitialSeq : s % 2 = 0
Odd(s)    == s % 2 = 1

-------------------------------------------------------------------------------
(* The two ends of the channel from p to q. *)
Writing(p, q)   == pc[p] = "put" /\ peer[p] = q
Reading(q, p)   == pc[q] = "take" /\ peer[q] = p
Answering(q, p) == pc[q] = "answer" /\ peer[q] = p

\* p has posted a message to q and does not know yet that it was taken.
Pending(p, q) ==
  \/ unwaited[p][q]
  \/ peer[p] = q /\ \/ pc[p] = "await"
                    \/ pc[p] \in {"take", "answer"} /\ call[p] = "sendrecv"

(* What the place of a core says about its call, its buffer and the number *)
(* it has for its peer.                                                    *)
CoreInv(p) ==
  /\ pc[p] # "idle" => peer[p] # p
  /\ pc[p] = "put" =>
       /\ call[p] \in {"send", "nonblocking_send", "sendrecv"}
       /\ ~unwaited[p][peer[p]]
       /\ Odd(communication_data[p][SEQ])
       /\ \A c \in Cells : communication_data[p][c] = posted[p][peer[p]] + 1
  /\ pc[p] \in {"take", "answer"} => call[p] \in {"recv", "sendrecv"}
  /\ pc[p] = "answer" =>
       /\ ~Odd(communication_data[p][SEQ])
       /\ \A c \in Cells : communication_data[p][c] = got[peer[p]][p][c]

ParityInv(p, q) ==
  Odd(syncValues[p][q]) <=> /\ peer[p] = q
                            /\ pc[p] = "take" \/ (pc[p] = "put" /\ call[p] # "sendrecv")

(* The payload in the slot: the cells that p has put there, then the whole *)
(* message, then what is left of it behind the cells of the answer, which  *)
(* are those of the last message taken.                                    *)
SlotCell(p, q, c) ==
  IF Writing(p, q) /\ c < at[p] THEN posted[p][q] + 1
  ELSE IF taken[p][q] < posted[p][q] \/ (Answering(q, p) /\ c >= at[q]) THEN posted[p][q]
  ELSE got[p][q][c]

ChannelInv(p, q) ==
  /\ known[p][q] <= taken[p][q] /\ taken[p][q] <= posted[p][q]
  /\ posted[p][q] = IF Pending(p, q) THEN known[p][q] + 1 ELSE known[p][q]
  /\ Answering(q, p) => taken[p][q] = known[p][q] + 1
  /\ Odd(postbox[q][p][SEQ]) <=> taken[p][q] < posted[p][q] \/ Answering(q, p)
  /\ \A c \in Cells : /\ got[p][q][c] <= taken[p][q]
                      /\ postbox[q][p][c] = SlotCell(p, q, c)
                      /\ Reading(q, p) /\ c < at[q] =>
                           communication_data[q][c] \in {got[p][q][c], taken[p][q] + 1}
  /\ probed[q][p] => posted[p][q] = taken[p][q] + 1

(* A core does not send to itself: a call that names the caller is an      *)
(* error.                                                                  *)
SelfInv(p) ==
  /\ posted[p][p] = 0 /\ taken[p][p] = 0 /\ known[p][p] = 0 /\ ~probed[p][p]
  /\ \A c \in Cells : got[p][p][c] = 0

IndInv ==
  /\ TypeOK
  /\ \A p \in Cores : CoreInv(p) /\ SelfInv(p)
  /\ \A p, q \in Cores : p # q => ParityInv(p, q) /\ ChannelInv(p, q)

-------------------------------------------------------------------------------
(* Arithmetic of the sequence byte: each step changes the parity, the wrap *)
(* included.                                                               *)
LEMMA IncParity ==
  ASSUME NEW s \in 0..SyncMax
  PROVE  Inc(s) \in 0..SyncMax /\ (Odd(Inc(s)) <=> ~Odd(s))
BY SyncAssumption DEF Inc, Odd

LEMMA InitialNumbers == \A s \in InitialSeq : s \in Nat
BY SeqAssumption, SyncAssumption

(* One entry of a table of pairs changes.                                  *)
LEMMA SetSeq ==
  ASSUME NEW p \in Cores, NEW q \in Cores, NEW v \in 0..SyncMax,
         syncValues \in [Cores -> [Cores -> 0..SyncMax]]
  PROVE  /\ Set(syncValues, p, q, v) \in [Cores -> [Cores -> 0..SyncMax]]
         /\ Set(syncValues, p, q, v)[p][q] = v
         /\ \A a, b \in Cores : <<a, b>> # <<p, q>> =>
              Set(syncValues, p, q, v)[a][b] = syncValues[a][b]
BY DEF Set

-------------------------------------------------------------------------------
(* A step of p in a call that concerns q: what it leaves alone.            *)
OnlyAt(p, q) ==
  /\ pc[p] = "idle" \/ peer[p] = q
  /\ pc'[p] = "idle" \/ peer'[p] = q
  /\ \A r \in Cores \ {p} :
       /\ pc'[r] = pc[r] /\ peer'[r] = peer[r] /\ call'[r] = call[r] /\ at'[r] = at[r]
       /\ communication_data'[r] = communication_data[r]
  /\ \A a, b \in Cores : <<a, b>> # <<p, q>> =>
       /\ syncValues'[a][b] = syncValues[a][b] /\ unwaited'[a][b] = unwaited[a][b]
       /\ posted'[a][b] = posted[a][b] /\ known'[a][b] = known[a][b]
       /\ probed'[a][b] = probed[a][b]
  /\ \A a, b \in Cores : <<a, b>> # <<q, p>> =>
       got'[a][b] = got[a][b] /\ taken'[a][b] = taken[a][b]
  /\ \A a, b \in Cores : <<a, b>> \notin {<<p, q>>, <<q, p>>} =>
       postbox'[a][b] = postbox[a][b]

(* A channel whose own part of the state stays as it is.                   *)
LEMMA ChannelFrame ==
  ASSUME NEW a \in Cores, NEW b \in Cores, ChannelInv(a, b),
         postbox'[b][a] = postbox[b][a],
         posted'[a][b] = posted[a][b], taken'[a][b] = taken[a][b],
         known'[a][b] = known[a][b], got'[a][b] = got[a][b],
         probed'[b][a] => probed[b][a],
         Pending(a, b)' <=> Pending(a, b),
         Writing(a, b)' <=> Writing(a, b),
         Answering(b, a)' <=> Answering(b, a),
         Writing(a, b) => at'[a] = at[a],
         Answering(b, a) => at'[b] = at[b],
         \A c \in Cells : (Reading(b, a) /\ c < at[b])' =>
            /\ Reading(b, a) /\ c < at[b]
            /\ communication_data'[b][c] = communication_data[b][c]
  PROVE  ChannelInv(a, b)'
<1>1. \A c \in Cells : SlotCell(a, b, c)' = SlotCell(a, b, c)
  BY DEF SlotCell
<1> QED BY <1>1 DEF ChannelInv

(* What a step of p for q does not reach keeps the invariant.              *)
LEMMA Elsewhere ==
  ASSUME IndInv, NEW p \in Cores, NEW q \in Cores, q # p, OnlyAt(p, q)
  PROVE  /\ \A r \in Cores \ {p} : CoreInv(r)'
         /\ \A a, b \in Cores : a # b /\ <<a, b>> # <<p, q>> => ParityInv(a, b)'
         /\ \A a, b \in Cores : a # b /\ <<a, b>> \notin {<<p, q>>, <<q, p>>} =>
              ChannelInv(a, b)'
<1>1. ASSUME NEW r \in Cores \ {p}
      PROVE  CoreInv(r)'
  <2>1. /\ CoreInv(r) /\ peer[r] \in Cores
        /\ pc'[r] = pc[r] /\ peer'[r] = peer[r] /\ call'[r] = call[r]
        /\ communication_data'[r] = communication_data[r]
    BY <1>1 DEF IndInv, TypeOK, OnlyAt
  <2>2. /\ unwaited'[r][peer[r]] = unwaited[r][peer[r]]
        /\ posted'[r][peer[r]] = posted[r][peer[r]]
        /\ got'[peer[r]][r] = got[peer[r]][r]
    BY <1>1, <2>1 DEF OnlyAt
  <2> QED BY <2>1, <2>2 DEF CoreInv
<1>2. ASSUME NEW a \in Cores, NEW b \in Cores, a # b, <<a, b>> # <<p, q>>
      PROVE  ParityInv(a, b)'
  <2>1. ParityInv(a, b) /\ syncValues'[a][b] = syncValues[a][b]
    BY <1>2 DEF IndInv, OnlyAt
  <2>2. CASE a = p
    BY <1>2, <2>1, <2>2 DEF ParityInv, OnlyAt
  <2>3. CASE a # p
    BY <1>2, <2>1, <2>3 DEF ParityInv, OnlyAt
  <2> QED BY <2>2, <2>3
<1>3. ASSUME NEW a \in Cores, NEW b \in Cores, a # b,
             <<a, b>> \notin {<<p, q>>, <<q, p>>}
      PROVE  ChannelInv(a, b)'
  <2>1. /\ ChannelInv(a, b) /\ postbox'[b][a] = postbox[b][a]
        /\ posted'[a][b] = posted[a][b] /\ taken'[a][b] = taken[a][b]
        /\ known'[a][b] = known[a][b] /\ got'[a][b] = got[a][b]
        /\ probed'[b][a] = probed[b][a] /\ unwaited'[a][b] = unwaited[a][b]
    BY <1>3 DEF IndInv, OnlyAt
  <2>2. /\ Writing(a, b)' <=> Writing(a, b)
        /\ Writing(a, b) => at'[a] = at[a]
        /\ Pending(a, b)' <=> Pending(a, b)
    BY <1>3, <2>1 DEF OnlyAt, Writing, Pending
  <2>3. /\ Answering(b, a)' <=> Answering(b, a)
        /\ Reading(b, a)' <=> Reading(b, a)
        /\ Answering(b, a) \/ Reading(b, a) =>
             at'[b] = at[b] /\ communication_data'[b] = communication_data[b]
    BY <1>3 DEF OnlyAt, Answering, Reading
  <2> QED BY <2>1, <2>2, <2>3, ChannelFrame
<1> QED BY <1>1, <1>2, <1>3

(* What is left to show of a step of p for q.                              *)
LEMMA Together ==
  ASSUME IndInv, NEW p \in Cores, NEW q \in Cores, q # p, OnlyAt(p, q),
         TypeOK', CoreInv(p)', ParityInv(p, q)', ChannelInv(p, q)', ChannelInv(q, p)'
  PROVE  IndInv'
<1>1. ASSUME NEW r \in Cores
      PROVE  SelfInv(r)'
  BY DEF IndInv, SelfInv, OnlyAt
<1> QED BY <1>1, Elsewhere DEF IndInv

-------------------------------------------------------------------------------
LEMMA InitInd ==
  ASSUME Init, EvenStart
  PROVE  IndInv
<1>1. TypeOK
  <2>1. PICK seq \in [Channels -> InitialSeq] :
          postbox = [q \in Cores |-> [p \in Cores |-> [c \in 0..SEQ |->
                       IF c = SEQ /\ <<p, q>> \in Channels THEN seq[<<p, q>>] ELSE 0]]]
    BY DEF Init
  <2>2. \A pq \in Channels : seq[pq] \in Nat
    BY InitialNumbers
  <2>3. postbox \in [Cores -> [Cores -> Slot]]
    BY <2>1, <2>2 DEF Slot
  <2>4. 0 \in 0..SyncMax /\ 0 \in 0..SEQ
    BY SyncAssumption DEF SEQ
  <2>5. syncValues \in [Cores -> [Cores -> 0..SyncMax]]
    BY <2>4 DEF Init, Pair
  <2>6. /\ unwaited \in [Cores -> [Cores -> BOOLEAN]]
        /\ probed \in [Cores -> [Cores -> BOOLEAN]]
        /\ posted \in [Cores -> [Cores -> Nat]]
        /\ taken \in [Cores -> [Cores -> Nat]]
        /\ known \in [Cores -> [Cores -> Nat]]
        /\ got \in [Cores -> [Cores -> [Cells -> Nat]]]
    BY DEF Init, Pair
  <2> QED BY <2>3, <2>4, <2>5, <2>6 DEF Init, TypeOK, Slot, Calls
<1>2. ASSUME NEW p \in Cores
      PROVE  CoreInv(p) /\ SelfInv(p)
  BY DEF Init, CoreInv, SelfInv, Pair
<1>3. ASSUME NEW p \in Cores, NEW q \in Cores, p # q
      PROVE  ParityInv(p, q) /\ ChannelInv(p, q)
  <2>1. /\ syncValues[p][q] = 0 /\ posted[p][q] = 0 /\ taken[p][q] = 0
        /\ known[p][q] = 0 /\ ~unwaited[p][q] /\ ~probed[q][p]
        /\ \A c \in Cells : got[p][q][c] = 0
        /\ pc[p] = "idle" /\ pc[q] = "idle"
    BY DEF Init, Pair
  <2>2. ParityInv(p, q)
    BY <2>1 DEF ParityInv, Odd
  <2>3. /\ ~Odd(postbox[q][p][SEQ])
        /\ \A c \in Cells : postbox[q][p][c] = 0
    <3>1. PICK seq \in [Channels -> InitialSeq] :
            postbox = [r \in Cores |-> [o \in Cores |-> [c \in 0..SEQ |->
                         IF c = SEQ /\ <<o, r>> \in Channels THEN seq[<<o, r>>] ELSE 0]]]
      BY DEF Init
    <3>2. postbox[q][p] = [c \in 0..SEQ |->
                         IF c = SEQ /\ <<p, q>> \in Channels THEN seq[<<p, q>>] ELSE 0]
      BY <3>1
    <3>3. <<p, q>> \in Channels
      BY <1>3 DEF Channels
    <3>4. seq[<<p, q>>] \in InitialSeq
      BY <3>3
    <3>5. ~Odd(seq[<<p, q>>])
      BY <3>4, InitialNumbers DEF EvenStart, Odd
    <3>6. postbox[q][p][SEQ] = seq[<<p, q>>]
      BY <3>2, <3>3 DEF SEQ
    <3> QED BY <3>2, <3>5, <3>6 DEF Cells, SEQ, TYPE, DATA
  <2> QED BY <2>1, <2>2, <2>3 DEF ChannelInv, SlotCell, Pending, Writing, Reading, Answering
<1> QED BY <1>1, <1>2, <1>3 DEF IndInv

(* A core between two calls, with nothing to wait for, may post or take.   *)
LEMMA Idle ==
  ASSUME IndInv, NEW p \in Cores, NEW q \in Cores, Ready(p, q)
  PROVE  /\ q # p /\ pc[p] = "idle" /\ ~Odd(syncValues[p][q])
         /\ ~Writing(p, q) /\ ~Reading(p, q) /\ ~Answering(p, q)
         /\ Pending(p, q) <=> unwaited[p][q]
         /\ CoreInv(p) /\ ChannelInv(p, q) /\ ChannelInv(q, p)
BY DEF IndInv, Ready, ParityInv, Writing, Reading, Answering, Pending

(* Both kinds of sends fill the buffer and turn to the slot.               *)
LEMMA StartSend ==
  ASSUME IndInv, WaitsFirst, NEW p \in Cores, NEW q \in Cores, Ready(p, q), Settled(p, q),
         NEW c \in {"send", "nonblocking_send", "sendrecv"},
         syncValues' = IF c = "sendrecv" THEN syncValues
                       ELSE Set(syncValues, p, q, Inc(syncValues[p][q])),
         FillBuffer(p, q, Inc(syncValues[p][q])), Enter(p, q, c), Goto(p, "put"),
         UNCHANGED <<postbox, unwaited, history>>
  PROVE  IndInv'
<1> USE Idle DEF history
<1> DEFINE s == Inc(syncValues[p][q])
<1>1. /\ q # p /\ pc[p] = "idle" /\ ~unwaited[p][q]
      /\ ~Odd(syncValues[p][q]) /\ syncValues[p][q] \in 0..SyncMax
  BY DEF Settled, IndInv, TypeOK
<1>2. s \in 0..SyncMax /\ s \in Nat /\ Odd(s)
  BY <1>1, IncParity, SyncAssumption
<1>3. /\ syncValues' \in [Cores -> [Cores -> 0..SyncMax]]
      /\ syncValues'[p][q] = IF c = "sendrecv" THEN syncValues[p][q] ELSE s
      /\ \A a, b \in Cores : <<a, b>> # <<p, q>> => syncValues'[a][b] = syncValues[a][b]
  <2>1. syncValues \in [Cores -> [Cores -> 0..SyncMax]]
    BY DEF IndInv, TypeOK
  <2> QED BY <1>2, <2>1, SetSeq
<1>4. /\ pc' = [pc EXCEPT ![p] = "put"] /\ at' = [at EXCEPT ![p] = 0]
      /\ call' = [call EXCEPT ![p] = c] /\ peer' = [peer EXCEPT ![p] = q]
      /\ communication_data' = [communication_data EXCEPT ![p] =
           [i \in 0..SEQ |-> IF i = SEQ THEN s ELSE posted[p][q] + 1]]
  BY DEF Goto, Enter, FillBuffer
<1>5. TypeOK'
  <2>1. posted[p][q] + 1 \in Nat /\ 0 \in 0..SEQ
    BY DEF IndInv, TypeOK, SEQ
  <2>2. communication_data' \in [Cores -> Slot]
    BY <1>2, <1>4, <2>1 DEF IndInv, TypeOK, Slot
  <2> QED BY <1>3, <1>4, <2>1, <2>2 DEF IndInv, TypeOK, Calls
<1>6. /\ pc'[p] = "put" /\ at'[p] = 0 /\ call'[p] = c /\ peer'[p] = q
      /\ communication_data'[p] = [i \in 0..SEQ |-> IF i = SEQ THEN s ELSE posted[p][q] + 1]
      /\ \A r \in Cores \ {p} :
           /\ pc'[r] = pc[r] /\ peer'[r] = peer[r] /\ call'[r] = call[r] /\ at'[r] = at[r]
           /\ communication_data'[r] = communication_data[r]
  BY <1>4 DEF IndInv, TypeOK
<1>7. OnlyAt(p, q)
  BY <1>1, <1>3, <1>6 DEF OnlyAt
<1>8. CoreInv(p)'
  BY <1>1, <1>2, <1>6 DEF CoreInv, Cells, TYPE, DATA, SEQ
<1>9. ParityInv(p, q)'
  BY <1>1, <1>2, <1>3, <1>6 DEF ParityInv
<1>10. ChannelInv(p, q)'
  <2>1. ~Pending(p, q)' /\ Writing(p, q)' /\ (Answering(q, p)' <=> Answering(q, p))
    BY <1>1, <1>6 DEF Pending, Writing, Answering
  <2>2. \A i \in Cells : SlotCell(p, q, i)' = SlotCell(p, q, i)
    BY <1>1, <1>6, <2>1 DEF SlotCell, Cells, TYPE, DATA, Writing
  <2>3. (Reading(q, p)' <=> Reading(q, p)) /\ at'[q] = at[q]
        /\ communication_data'[q] = communication_data[q]
    BY <1>1, <1>6 DEF Reading
  <2>4. ChannelInv(p, q) /\ ~Pending(p, q)
    BY <1>1
  <2> QED BY <2>1, <2>2, <2>3, <2>4 DEF ChannelInv
<1>11. ChannelInv(q, p)'
  <2>1. /\ Pending(q, p)' <=> Pending(q, p)
        /\ Writing(q, p)' <=> Writing(q, p)
        /\ at'[q] = at[q]
    BY <1>1, <1>6 DEF Pending, Writing
  <2>2. /\ ~Answering(p, q)' /\ ~Reading(p, q)'
    BY <1>6 DEF Answering, Reading
  <2> QED BY <1>1, <2>1, <2>2, ChannelFrame
<1> QED BY <1>1, <1>5, <1>7, <1>8, <1>9, <1>10, <1>11, Together

LEMMA SendInd ==
  ASSUME IndInv, WaitsFirst, NEW p \in Cores, NEW q \in Cores,
         SendRecv(p, q) \/ \E c \in {"send", "nonblocking_send"} : Send(p, q, c)
  PROVE  IndInv'
<1>1. CASE SendRecv(p, q)
  BY <1>1, StartSend DEF SendRecv
<1>2. ASSUME NEW c \in {"send", "nonblocking_send"}, Send(p, q, c)
      PROVE  IndInv'
  BY <1>2, StartSend DEF Send
<1> QED BY <1>1, <1>2

(* A receive moves on to the odd number of the message.                    *)
LEMMA RecvInd ==
  ASSUME IndInv, WaitsFirst, NEW p \in Cores, NEW q \in Cores, Recv(p, q)
  PROVE  IndInv'
<1> USE DEF Recv, Goto, Enter, history
<1>1. /\ q # p /\ pc[p] = "idle" /\ ~unwaited[p][q]
      /\ ~Odd(syncValues[p][q]) /\ syncValues[p][q] \in 0..SyncMax
      /\ ~Writing(p, q) /\ ~Pending(p, q) /\ ~Answering(p, q)
      /\ ChannelInv(p, q) /\ ChannelInv(q, p)
  BY Idle DEF Settled, IndInv, TypeOK
<1>2. Inc(syncValues[p][q]) \in 0..SyncMax /\ Odd(Inc(syncValues[p][q]))
  BY <1>1, IncParity
<1>3. /\ syncValues' \in [Cores -> [Cores -> 0..SyncMax]]
      /\ syncValues'[p][q] = Inc(syncValues[p][q])
      /\ \A a, b \in Cores : <<a, b>> # <<p, q>> => syncValues'[a][b] = syncValues[a][b]
  <2>1. syncValues \in [Cores -> [Cores -> 0..SyncMax]]
    BY DEF IndInv, TypeOK
  <2>2. syncValues' = Set(syncValues, p, q, Inc(syncValues[p][q]))
    OBVIOUS
  <2> QED BY <1>2, <2>1, <2>2 DEF Set
<1>4. TypeOK'
  BY <1>3 DEF IndInv, TypeOK, Calls, SEQ
<1>5. /\ pc'[p] = "take" /\ at'[p] = 0 /\ call'[p] = "recv" /\ peer'[p] = q
      /\ \A r \in Cores \ {p} :
           pc'[r] = pc[r] /\ peer'[r] = peer[r] /\ call'[r] = call[r] /\ at'[r] = at[r]
  BY DEF IndInv, TypeOK
<1>6. OnlyAt(p, q)
  BY <1>1, <1>3, <1>5 DEF OnlyAt
<1>7. CoreInv(p)'
  BY <1>1, <1>5 DEF CoreInv
<1>8. ParityInv(p, q)'
  BY <1>2, <1>3, <1>5 DEF ParityInv
<1>9. ChannelInv(p, q)'
  <2>1. ~Pending(p, q)' /\ ~Writing(p, q)' /\ at'[q] = at[q]
    BY <1>1, <1>5 DEF Pending, Writing
  <2>2. (Answering(q, p)' <=> Answering(q, p)) /\ (Reading(q, p)' <=> Reading(q, p))
    BY <1>1, <1>5 DEF Answering, Reading
  <2> QED BY <1>1, <2>1, <2>2, ChannelFrame
<1>10. ChannelInv(q, p)'
  <2>1. /\ Pending(q, p)' <=> Pending(q, p)
        /\ Writing(q, p)' <=> Writing(q, p)
        /\ at'[q] = at[q]
    BY <1>1, <1>5 DEF Pending, Writing
  <2>2. ~Answering(p, q)' /\ \A c \in Cells : ~(c < at'[p])
    BY <1>5 DEF Answering, Cells, TYPE, DATA
  <2> QED BY <1>1, <2>1, <2>2, ChannelFrame
<1> QED BY <1>1, <1>4, <1>6, <1>7, <1>8, <1>9, <1>10, Together

LEMMA WaitSentInd ==
  ASSUME IndInv, WaitsFirst, NEW p \in Cores, NEW q \in Cores, WaitSent(p, q)
  PROVE  IndInv'
<1> USE DEF WaitSent, Goto, Enter, history
<1>1. /\ q # p /\ pc[p] = "idle" /\ unwaited[p][q] /\ ~Odd(syncValues[p][q])
      /\ ~Writing(p, q) /\ Pending(p, q) /\ ~Answering(p, q) /\ ~Reading(p, q)
      /\ ChannelInv(p, q) /\ ChannelInv(q, p)
  BY Idle
<1>2. TypeOK'
  BY DEF IndInv, TypeOK, Calls, SEQ
<1>3. /\ pc'[p] = "await" /\ at'[p] = 0 /\ call'[p] = "wait_sent" /\ peer'[p] = q
      /\ \A r \in Cores \ {p} :
           pc'[r] = pc[r] /\ peer'[r] = peer[r] /\ call'[r] = call[r] /\ at'[r] = at[r]
  BY DEF IndInv, TypeOK
<1>4. OnlyAt(p, q)
  BY <1>1, <1>3 DEF OnlyAt
<1>5. CoreInv(p)' /\ ParityInv(p, q)'
  BY <1>1, <1>3 DEF CoreInv, ParityInv
<1>6. ChannelInv(p, q)'
  <2>1. Pending(p, q)' /\ ~Writing(p, q)' /\ at'[q] = at[q]
    BY <1>1, <1>3 DEF Pending, Writing
  <2>2. (Answering(q, p)' <=> Answering(q, p)) /\ (Reading(q, p)' <=> Reading(q, p))
    BY <1>1, <1>3 DEF Answering, Reading
  <2> QED BY <1>1, <2>1, <2>2, ChannelFrame
<1>7. ChannelInv(q, p)'
  <2>1. /\ Pending(q, p)' <=> Pending(q, p)
        /\ Writing(q, p)' <=> Writing(q, p)
        /\ at'[q] = at[q]
    BY <1>1, <1>3 DEF Pending, Writing
  <2>2. ~Answering(p, q)' /\ ~Reading(p, q)'
    BY <1>3 DEF Answering, Reading
  <2> QED BY <1>1, <2>1, <2>2, ChannelFrame
<1> QED BY <1>1, <1>2, <1>4, <1>5, <1>6, <1>7, Together

(* An odd number in the slot of an idle core is a message not yet taken.   *)
LEMMA ProbeInd ==
  ASSUME IndInv, NEW p \in Cores, NEW q \in Cores, Probe(p, q)
  PROVE  IndInv'
<1> USE DEF Probe, Finds, localVars
<1>1. /\ q # p /\ ~Odd(syncValues[p][q]) /\ syncValues[p][q] \in 0..SyncMax
      /\ ~Answering(p, q) /\ ~Reading(p, q)
      /\ ChannelInv(p, q) /\ ChannelInv(q, p) /\ CoreInv(p) /\ ParityInv(p, q)
  BY Idle DEF IndInv, TypeOK
<1>2. Odd(Inc(syncValues[p][q]))
  BY <1>1, IncParity
<1> DEFINE yes == Matches(postbox[p][q][SEQ], Inc(syncValues[p][q]))
<1>3. /\ probed' \in [Cores -> [Cores -> BOOLEAN]]
      /\ probed'[p][q] = yes
      /\ \A a, b \in Cores : <<a, b>> # <<p, q>> => probed'[a][b] = probed[a][b]
  <2>1. yes \in BOOLEAN /\ probed \in [Cores -> [Cores -> BOOLEAN]]
    BY DEF IndInv, TypeOK, Matches
  <2>2. probed' = Set(probed, p, q, yes)
    OBVIOUS
  <2> HIDE DEF yes
  <2> QED BY <2>1, <2>2 DEF Set
<1>4. TypeOK'
  BY <1>3 DEF IndInv, TypeOK
<1>5. OnlyAt(p, q)
  BY <1>3 DEF OnlyAt, Ready
<1>6. CoreInv(p)' /\ ParityInv(p, q)'
  BY <1>1 DEF CoreInv, ParityInv
<1>7. ChannelInv(p, q)'
  BY <1>1, <1>3 DEF ChannelInv, SlotCell, Pending, Writing, Answering, Reading
<1>8. ChannelInv(q, p)'
  <2>1. yes => posted[q][p] = taken[q][p] + 1
    <3>1. yes => Odd(postbox[p][q][SEQ])
      BY <1>2 DEF Matches
    <3>2. posted[q][p] \in Nat /\ taken[q][p] \in Nat /\ known[q][p] \in Nat
      BY DEF IndInv, TypeOK
    <3> QED BY <1>1, <3>1, <3>2 DEF ChannelInv
  <2> QED BY <1>1, <1>3, <2>1
        DEF ChannelInv, SlotCell, Pending, Writing, Answering, Reading
<1> QED BY <1>1, <1>4, <1>5, <1>6, <1>7, <1>8, Together

(* An even number in the slot of a pending send is its answer, however old *)
(* the number is.                                                          *)
LEMMA KnowInd ==
  ASSUME IndInv, NEW p \in Cores, NEW q \in Cores, q # p,
         Pending(p, q), ~Odd(syncValues[p][q]), OnlyAt(p, q),
         Matches(postbox[q][p][SEQ], syncValues[p][q]),
         known' = Set(known, p, q, known[p][q] + 1),
         unwaited' = Set(unwaited, p, q, FALSE),
         pc[p] \in {"idle", "await"}, pc' = [pc EXCEPT ![p] = "idle"],
         at' \in [Cores -> 0..SEQ],
         UNCHANGED <<syncValues, postbox, communication_data, call, peer,
                     posted, taken, got, probed>>
  PROVE  /\ taken[p][q] = known[p][q] + 1
         /\ IndInv'
<1>1. /\ known[p][q] \in Nat /\ taken[p][q] \in Nat /\ posted[p][q] \in Nat
      /\ ChannelInv(p, q) /\ ChannelInv(q, p) /\ CoreInv(p) /\ ParityInv(p, q)
  BY DEF IndInv, TypeOK
<1>2. ~(taken[p][q] < posted[p][q]) /\ ~Answering(q, p)
  BY <1>1 DEF ChannelInv, Matches
<1>3. taken[p][q] = known[p][q] + 1 /\ posted[p][q] = taken[p][q]
  BY <1>1, <1>2 DEF ChannelInv
<1>4. /\ known' \in [Cores -> [Cores -> Nat]]
      /\ known'[p][q] = taken[p][q]
  <2>1. known \in [Cores -> [Cores -> Nat]]
    BY DEF IndInv, TypeOK
  <2> QED BY <1>3, <2>1 DEF Set
<1>5. unwaited' \in [Cores -> [Cores -> BOOLEAN]] /\ ~unwaited'[p][q]
  <2>1. unwaited \in [Cores -> [Cores -> BOOLEAN]]
    BY DEF IndInv, TypeOK
  <2> QED BY <2>1 DEF Set
<1>6. TypeOK'
  BY <1>4, <1>5 DEF IndInv, TypeOK
<1>7. pc'[p] = "idle" /\ \A r \in Cores \ {p} : pc'[r] = pc[r] /\ at'[r] = at[r]
  BY DEF IndInv, TypeOK, OnlyAt
<1>8. CoreInv(p)' /\ ParityInv(p, q)'
  BY <1>7 DEF CoreInv, ParityInv
<1>9. ChannelInv(p, q)'
  <2>1. ~Pending(p, q)' /\ ~Writing(p, q)' /\ ~Writing(p, q)
    BY <1>5, <1>7 DEF Pending, Writing
  <2>2. /\ ~Answering(q, p)' /\ (Reading(q, p)' <=> Reading(q, p)) /\ at'[q] = at[q]
    BY <1>2, <1>7 DEF Answering, Reading
  <2> QED BY <1>1, <1>2, <1>3, <1>4, <2>1, <2>2 DEF ChannelInv, SlotCell
<1>10. ChannelInv(q, p)'
  <2>1. known'[q][p] = known[q][p] /\ unwaited'[q][p] = unwaited[q][p]
    BY DEF OnlyAt
  <2>2. /\ Pending(q, p)' <=> Pending(q, p)
        /\ Writing(q, p)' <=> Writing(q, p)
        /\ at'[q] = at[q]
    BY <1>7, <2>1 DEF Pending, Writing
  <2>3. ~Answering(p, q)' /\ ~Answering(p, q) /\ ~Reading(p, q)'
    BY <1>7 DEF Answering, Reading
  <2> QED BY <1>1, <2>1, <2>2, <2>3, ChannelFrame
<1> QED BY <1>3, <1>6, <1>8, <1>9, <1>10, Together

LEMMA AwaitInd ==
  ASSUME IndInv, NEW p \in Cores, Await(p)
  PROVE  /\ peer[p] \in Cores /\ peer[p] # p
         /\ taken[p][peer[p]] = known[p][peer[p]] + 1
         /\ IndInv'
<1> DEFINE q == peer[p]
<1> USE DEF Await, Goto
<1>1. q \in Cores /\ q # p /\ Pending(p, q) /\ ~Odd(syncValues[p][q])
  <2>1. q \in Cores /\ q # p
    BY DEF IndInv, TypeOK, CoreInv
  <2>2. ParityInv(p, q)
    BY <2>1 DEF IndInv
  <2> QED BY <2>1, <2>2 DEF ParityInv, Pending
<1>2. at' \in [Cores -> 0..SEQ]
  BY DEF IndInv, TypeOK, SEQ
<1>3. OnlyAt(p, q)
  <2>1. /\ pc'[p] = "idle"
        /\ \A r \in Cores \ {p} : pc'[r] = pc[r] /\ at'[r] = at[r]
    BY DEF IndInv, TypeOK
  <2>2. \A a, b \in Cores : <<a, b>> # <<p, q>> =>
          known'[a][b] = known[a][b] /\ unwaited'[a][b] = unwaited[a][b]
    BY <1>1 DEF IndInv, TypeOK, Set
  <2> QED BY <2>1, <2>2 DEF OnlyAt
<1> QED BY <1>1, <1>2, <1>3, KnowInd

LEMMA TestSentInd ==
  ASSUME IndInv, WaitsFirst, NEW p \in Cores, NEW q \in Cores, TestSent(p, q)
  PROVE  /\ q # p /\ taken[p][q] = known[p][q] + 1
         /\ IndInv'
<1> USE DEF TestSent
<1>1. /\ q # p /\ pc[p] = "idle" /\ Pending(p, q) /\ ~Odd(syncValues[p][q])
      /\ at' \in [Cores -> 0..SEQ] /\ pc' = [pc EXCEPT ![p] = "idle"]
  BY Idle DEF IndInv, TypeOK, Ready
<1>2. OnlyAt(p, q)
  <2>1. \A a, b \in Cores : <<a, b>> # <<p, q>> =>
          known'[a][b] = known[a][b] /\ unwaited'[a][b] = unwaited[a][b]
    BY DEF IndInv, TypeOK, Set
  <2> QED BY <1>1, <2>1 DEF OnlyAt
<1> QED BY <1>1, <1>2, KnowInd

-------------------------------------------------------------------------------
(* A core that writes its message has nothing under way with that peer.    *)
LEMMA PutPlace ==
  ASSUME IndInv, NEW p \in Cores, pc[p] = "put"
  PROVE  /\ peer[p] \in Cores /\ peer[p] # p
         /\ CoreInv(p) /\ ParityInv(p, peer[p])
         /\ ChannelInv(p, peer[p]) /\ ChannelInv(peer[p], p)
         /\ Writing(p, peer[p]) /\ ~Pending(p, peer[p])
         /\ ~Answering(peer[p], p) /\ ~Answering(p, peer[p]) /\ ~Reading(p, peer[p])
         /\ posted[p][peer[p]] = known[p][peer[p]]
         /\ taken[p][peer[p]] = posted[p][peer[p]]
<1>1. peer[p] \in Cores /\ peer[p] # p /\ CoreInv(p)
  BY DEF IndInv, TypeOK, CoreInv
<1>2. /\ ChannelInv(p, peer[p]) /\ ChannelInv(peer[p], p) /\ ParityInv(p, peer[p])
      /\ posted[p][peer[p]] \in Nat /\ taken[p][peer[p]] \in Nat /\ known[p][peer[p]] \in Nat
  BY <1>1 DEF IndInv, TypeOK
<1>3. /\ Writing(p, peer[p]) /\ ~Pending(p, peer[p])
      /\ ~Answering(p, peer[p]) /\ ~Reading(p, peer[p])
  BY <1>1 DEF CoreInv, Writing, Pending, Answering, Reading
<1> QED BY <1>1, <1>2, <1>3 DEF ChannelInv

LEMMA PutCellInd ==
  ASSUME IndInv, NEW p \in Cores, PutCell(p)
  PROVE  IndInv'
<1> DEFINE q == peer[p]
<1> USE DEF PutCell, history
<1>0. /\ CoreInv(p) /\ ParityInv(p, q) /\ ChannelInv(p, q) /\ ChannelInv(q, p)
      /\ Writing(p, q) /\ ~Pending(p, q) /\ taken[p][q] = posted[p][q]
      /\ ~Answering(q, p) /\ ~Answering(p, q) /\ ~Reading(p, q)
  BY PutPlace
<1>1. /\ pc[p] = "put" /\ q \in Cores /\ q # p /\ at[p] \in Cells /\ at[p] \in 0..SEQ
      /\ communication_data[p][at[p]] = posted[p][q] + 1
      /\ communication_data[p][at[p]] \in Nat
  BY <1>0 DEF IndInv, TypeOK, CoreInv, Cells, SEQ, TYPE, DATA, Slot
<1>2. /\ postbox' \in [Cores -> [Cores -> Slot]]
      /\ \A a, b \in Cores : a # q \/ b # p => postbox'[a][b] = postbox[a][b]
      /\ \A c \in 0..SEQ : postbox'[q][p][c] =
           IF c = at[p] THEN posted[p][q] + 1 ELSE postbox[q][p][c]
  <2>1. postbox \in [Cores -> [Cores -> Slot]]
    BY DEF IndInv, TypeOK
  <2>2. postbox' = [postbox EXCEPT ![q][p][at[p]] = communication_data[p][at[p]]]
    OBVIOUS
  <2>3. PICK i \in 0..SEQ, v \in Nat : i = at[p] /\ v = communication_data[p][i]
    BY <1>1
  <2>4. postbox' = [postbox EXCEPT ![q][p][i] = v]
    BY <2>2, <2>3
  <2>5. v = posted[p][q] + 1 /\ q \in Cores
    BY <1>1, <2>3
  <2> HIDE DEF PutCell, q
  <2>6. postbox' \in [Cores -> [Cores -> Slot]]
    BY <2>1, <2>4, <2>5 DEF Slot
  <2>7. /\ \A a, b \in Cores : a # q \/ b # p => postbox'[a][b] = postbox[a][b]
        /\ \A c \in 0..SEQ : postbox'[q][p][c] = IF c = i THEN v ELSE postbox[q][p][c]
    BY <2>1, <2>4, <2>5 DEF Slot
  <2> QED BY <2>3, <2>5, <2>6, <2>7
<1>3. /\ at' \in [Cores -> 0..SEQ] /\ at'[p] = at[p] + 1
      /\ \A r \in Cores \ {p} : at'[r] = at[r]
  <2>1. at \in [Cores -> 0..SEQ] /\ at[p] < SEQ /\ at' = [at EXCEPT ![p] = @ + 1]
    BY DEF IndInv, TypeOK
  <2> QED BY ONLY <2>1 DEF SEQ
<1>4. TypeOK'
  BY <1>2, <1>3 DEF IndInv, TypeOK
<1>5. OnlyAt(p, q)
  BY <1>1, <1>2, <1>3 DEF OnlyAt
<1>6. CoreInv(p)' /\ ParityInv(p, q)'
  BY <1>0, <1>1 DEF CoreInv, ParityInv
<1>7. ChannelInv(p, q)'
  <2>1. /\ ~Pending(p, q)' /\ Writing(p, q)' /\ ~Answering(q, p)' /\ ~Answering(q, p)
        /\ Reading(q, p)' <=> Reading(q, p)
        /\ at'[q] = at[q] /\ posted[p][q] = taken[p][q]
    BY <1>0, <1>1, <1>3 DEF Pending, Writing, Answering, Reading
  <2>2. \A c \in Cells : postbox'[q][p][c] = SlotCell(p, q, c)'
    <3> TAKE c \in Cells
    <3>1. /\ postbox[q][p][c] = SlotCell(p, q, c)
          /\ Writing(p, q) /\ c \in 0..SEQ
          /\ c < at'[p] <=> c < at[p] \/ c = at[p]
      BY <1>0, <1>1, <1>3 DEF ChannelInv, Cells, TYPE, DATA, SEQ
    <3>2. posted[p][q] \in Nat /\ taken[p][q] \in Nat
      BY <1>1 DEF IndInv, TypeOK
    <3> QED BY <1>0, <1>1, <1>2, <2>1, <3>1, <3>2 DEF SlotCell
  <2>3. postbox'[q][p][SEQ] = postbox[q][p][SEQ]
    BY <1>1, <1>2 DEF SEQ
  <2> QED BY <1>0, <1>1, <2>1, <2>2, <2>3 DEF ChannelInv
<1>8. ChannelInv(q, p)'
  <2>1. /\ Pending(q, p)' <=> Pending(q, p)
        /\ Writing(q, p)' <=> Writing(q, p)
        /\ at'[q] = at[q] /\ postbox'[p][q] = postbox[p][q]
        /\ ~Answering(p, q)' /\ ~Reading(p, q)'
    BY <1>0, <1>1, <1>2, <1>3 DEF Pending, Writing, Answering, Reading
  <2> QED BY <1>0, <1>1, <2>1, ChannelFrame
<1> QED BY <1>1, <1>4, <1>5, <1>6, <1>7, <1>8, Together

(* The sequence number is written last: the message is in the slot.        *)
LEMMA PutSeqInd ==
  ASSUME IndInv, NEW p \in Cores, PutSeq(p)
  PROVE  IndInv'
<1> DEFINE q == peer[p]
           label == CASE call[p] = "send" -> "await"
                      [] call[p] = "nonblocking_send" -> "idle"
                      [] call[p] = "sendrecv" -> "take"
<1> USE DEF PutSeq
<1>1. /\ pc[p] = "put" /\ at[p] = SEQ /\ q \in Cores /\ q # p
      /\ CoreInv(p) /\ ParityInv(p, q) /\ ChannelInv(p, q) /\ ChannelInv(q, p)
      /\ Writing(p, q) /\ ~Pending(p, q)
      /\ ~Answering(q, p) /\ ~Answering(p, q) /\ ~Reading(p, q)
      /\ posted[p][q] = known[p][q] /\ taken[p][q] = posted[p][q]
      /\ posted[p][q] \in Nat
      /\ communication_data[p][SEQ] \in Nat /\ Odd(communication_data[p][SEQ])
  BY PutPlace DEF IndInv, TypeOK, CoreInv, Slot, SEQ
<1>2. /\ postbox' \in [Cores -> [Cores -> Slot]]
      /\ \A a, b \in Cores : a # q \/ b # p => postbox'[a][b] = postbox[a][b]
      /\ \A c \in 0..SEQ : postbox'[q][p][c] =
           IF c = SEQ THEN communication_data[p][SEQ] ELSE postbox[q][p][c]
  <2>1. /\ postbox \in [Cores -> [Cores -> Slot]] /\ SEQ \in 0..SEQ
        /\ postbox' = [postbox EXCEPT ![q][p][SEQ] = communication_data[p][SEQ]]
    BY DEF IndInv, TypeOK, SEQ
  <2> HIDE DEF PutSeq, q
  <2> QED BY <1>1, <2>1 DEF Slot
<1>3. /\ posted' \in [Cores -> [Cores -> Nat]]
      /\ posted'[p][q] = posted[p][q] + 1
      /\ \A a, b \in Cores : <<a, b>> # <<p, q>> => posted'[a][b] = posted[a][b]
  <2>1. posted \in [Cores -> [Cores -> Nat]] /\ posted' = Set(posted, p, q, posted[p][q] + 1)
    BY DEF IndInv, TypeOK
  <2> HIDE DEF PutSeq, q
  <2> QED BY <1>1, <2>1 DEF Set
<1>4. /\ syncValues' \in [Cores -> [Cores -> 0..SyncMax]]
      /\ Odd(syncValues'[p][q]) <=> ~Odd(syncValues[p][q])
      /\ \A a, b \in Cores : <<a, b>> # <<p, q>> => syncValues'[a][b] = syncValues[a][b]
  <2>1. /\ syncValues \in [Cores -> [Cores -> 0..SyncMax]]
        /\ syncValues' = Set(syncValues, p, q, Inc(syncValues[p][q]))
    BY DEF IndInv, TypeOK
  <2>2. /\ Inc(syncValues[p][q]) \in 0..SyncMax
        /\ Odd(Inc(syncValues[p][q])) <=> ~Odd(syncValues[p][q])
    BY <1>1, <2>1, IncParity
  <2> HIDE DEF PutSeq, q
  <2> QED BY <1>1, <2>1, <2>2 DEF Set
<1>5. /\ unwaited' \in [Cores -> [Cores -> BOOLEAN]]
      /\ unwaited'[p][q] <=> call[p] = "nonblocking_send"
      /\ \A a, b \in Cores : <<a, b>> # <<p, q>> => unwaited'[a][b] = unwaited[a][b]
  <2>1. /\ unwaited \in [Cores -> [Cores -> BOOLEAN]]
        /\ unwaited' = Set(unwaited, p, q, call[p] = "nonblocking_send")
    BY DEF IndInv, TypeOK
  <2> HIDE DEF PutSeq, q
  <2> QED BY <1>1, <2>1 DEF Set
<1>6. /\ pc' = [pc EXCEPT ![p] = label] /\ at' = [at EXCEPT ![p] = 0]
      /\ label \in {"await", "idle", "take"}
      /\ label = "take" <=> call[p] = "sendrecv"
      /\ label = "await" <=> call[p] = "send"
      /\ call[p] \in {"send", "nonblocking_send", "sendrecv"}
  <2>1. call[p] \in {"send", "nonblocking_send", "sendrecv"}
    BY <1>1 DEF CoreInv
  <2> QED BY <2>1 DEF Goto
<1> HIDE DEF label
<1>7. TypeOK'
  <2>1. /\ pc' \in [Cores -> {"idle", "put", "await", "take", "answer"}]
        /\ at' \in [Cores -> 0..SEQ]
    BY <1>6 DEF IndInv, TypeOK, SEQ
  <2>2. UNCHANGED <<communication_data, call, peer, taken, known, got, probed>> /\ TypeOK
    BY DEF IndInv
  <2> HIDE DEF PutSeq
  <2> QED BY <1>2, <1>3, <1>4, <1>5, <2>1, <2>2 DEF TypeOK
<1>8. /\ pc'[p] = label /\ at'[p] = 0
      /\ \A r \in Cores \ {p} : pc'[r] = pc[r] /\ at'[r] = at[r]
  BY <1>6 DEF IndInv, TypeOK
<1>9. OnlyAt(p, q)
  BY <1>1, <1>2, <1>3, <1>4, <1>5, <1>8 DEF OnlyAt
<1>10. CoreInv(p)' /\ ParityInv(p, q)'
  <2>1. CoreInv(p)'
    BY <1>1, <1>6, <1>8 DEF CoreInv
  <2>2. Odd(syncValues[p][q]) <=> call[p] # "sendrecv"
    <3> HIDE DEF PutSeq
    <3> QED BY <1>1 DEF ParityInv
  <2> QED BY <1>4, <1>6, <1>8, <2>1, <2>2 DEF ParityInv
<1>11. ChannelInv(p, q)'
  <2>1. /\ Pending(p, q)' /\ ~Writing(p, q)' /\ ~Answering(q, p)'
        /\ Reading(q, p)' <=> Reading(q, p)
        /\ at'[q] = at[q]
    BY <1>1, <1>5, <1>6, <1>8 DEF Pending, Writing, Answering, Reading
  <2>2. ASSUME NEW c \in Cells
        PROVE  /\ postbox'[q][p][c] = posted[p][q] + 1
               /\ SlotCell(p, q, c)' = posted[p][q] + 1
    <3>1. c \in 0..SEQ /\ c < SEQ
      BY DEF Cells, TYPE, DATA, SEQ
    <3>2. postbox[q][p][c] = posted[p][q] + 1
      BY <1>1, <3>1 DEF ChannelInv, SlotCell
    <3>3. taken'[p][q] < posted'[p][q]
      BY <1>1, <1>3
    <3>4. postbox'[q][p][c] = postbox[q][p][c]
      BY <1>2, <3>1
    <3> QED BY <1>3, <2>1, <3>2, <3>3, <3>4 DEF SlotCell
  <2>3. postbox'[q][p][SEQ] = communication_data[p][SEQ]
    BY <1>2 DEF SEQ
  <2>4. ~probed[q][p]
    BY <1>1 DEF ChannelInv
  <2> QED BY <1>1, <1>3, <2>1, <2>2, <2>3, <2>4 DEF ChannelInv
<1>12. ChannelInv(q, p)'
  <2>1. /\ Pending(q, p)' <=> Pending(q, p)
        /\ Writing(q, p)' <=> Writing(q, p)
        /\ at'[q] = at[q] /\ postbox'[p][q] = postbox[p][q]
        /\ posted'[q][p] = posted[q][p]
        /\ ~Answering(p, q)'
    BY <1>1, <1>2, <1>3, <1>5, <1>6, <1>8 DEF Pending, Writing, Answering
  <2>2. \A c \in Cells : ~(c < at'[p])
    BY <1>8 DEF Cells, TYPE, DATA
  <2> QED BY <1>1, <2>1, <2>2, ChannelFrame
<1> QED BY <1>1, <1>7, <1>9, <1>10, <1>11, <1>12, Together

-------------------------------------------------------------------------------
(* A core that copies its slot waits for an odd number.                    *)
LEMMA TakePlace ==
  ASSUME IndInv, NEW p \in Cores, pc[p] = "take"
  PROVE  /\ peer[p] \in Cores /\ peer[p] # p
         /\ CoreInv(p) /\ ParityInv(p, peer[p]) /\ Odd(syncValues[p][peer[p]])
         /\ ChannelInv(p, peer[p]) /\ ChannelInv(peer[p], p)
         /\ Reading(p, peer[p])
         /\ ~Writing(p, peer[p]) /\ ~Answering(p, peer[p])
BY DEF IndInv, TypeOK, CoreInv, ParityInv, Reading, Writing, Answering

LEMMA TakeCellInd ==
  ASSUME IndInv, NEW p \in Cores, TakeCell(p)
  PROVE  IndInv'
<1> DEFINE q == peer[p]
<1> USE DEF TakeCell, history
<1>1. /\ pc[p] = "take" /\ at[p] \in Cells /\ at[p] \in 0..SEQ /\ at[p] < SEQ
      /\ q \in Cores /\ q # p /\ CoreInv(p) /\ ParityInv(p, q)
      /\ ChannelInv(p, q) /\ ChannelInv(q, p)
      /\ Reading(p, q) /\ ~Writing(p, q) /\ ~Answering(p, q)
  BY TakePlace DEF IndInv, TypeOK, Cells, SEQ, TYPE, DATA
<1>2. /\ communication_data' \in [Cores -> Slot]
      /\ \A r \in Cores \ {p} : communication_data'[r] = communication_data[r]
      /\ \A c \in 0..SEQ : communication_data'[p][c] =
           IF c = at[p] THEN postbox[p][q][c] ELSE communication_data[p][c]
  <2>1. /\ communication_data \in [Cores -> Slot] /\ postbox[p][q] \in Slot
        /\ communication_data' =
             [communication_data EXCEPT ![p][at[p]] = postbox[p][q][at[p]]]
    BY <1>1 DEF IndInv, TypeOK
  <2> HIDE DEF TakeCell, q
  <2> QED BY <1>1, <2>1 DEF Slot
<1>3. /\ at' \in [Cores -> 0..SEQ] /\ at'[p] = at[p] + 1
      /\ \A r \in Cores \ {p} : at'[r] = at[r]
  <2>1. at \in [Cores -> 0..SEQ] /\ at[p] < SEQ /\ at' = [at EXCEPT ![p] = @ + 1]
    BY DEF IndInv, TypeOK
  <2> QED BY ONLY <2>1 DEF SEQ
<1>4. TypeOK'
  BY <1>2, <1>3 DEF IndInv, TypeOK
<1>5. OnlyAt(p, q)
  BY <1>1, <1>2, <1>3 DEF OnlyAt
<1>6. CoreInv(p)' /\ ParityInv(p, q)'
  BY <1>1 DEF CoreInv, ParityInv
<1>7. ChannelInv(p, q)'
  <2>1. /\ Pending(p, q)' <=> Pending(p, q)
        /\ ~Writing(p, q)' /\ (Answering(q, p)' <=> Answering(q, p))
        /\ Reading(q, p)' <=> Reading(q, p)
        /\ at'[q] = at[q] /\ communication_data'[q] = communication_data[q]
    <3>1. UNCHANGED <<pc, peer, call, unwaited>>
      OBVIOUS
    <3> HIDE DEF TakeCell
    <3>2. Pending(p, q)' <=> Pending(p, q)
      BY <3>1 DEF Pending
    <3>3. ~Writing(p, q)' /\ (Answering(q, p)' <=> Answering(q, p))
      BY <1>1, <3>1 DEF Writing, Answering
    <3>4. Reading(q, p)' <=> Reading(q, p)
      BY <3>1 DEF Reading
    <3> QED BY <1>1, <1>2, <1>3, <3>2, <3>3, <3>4
  <2> QED BY <1>1, <2>1, ChannelFrame
<1>8. ChannelInv(q, p)'
  <2>1. /\ Pending(q, p)' <=> Pending(q, p)
        /\ Writing(q, p)' <=> Writing(q, p)
        /\ at'[q] = at[q] /\ ~Answering(p, q)' /\ Reading(p, q)'
    BY <1>1, <1>3 DEF Pending, Writing, Answering, Reading
  <2>2. /\ posted[q][p] \in Nat /\ taken[q][p] \in Nat /\ known[q][p] \in Nat
        /\ posted[q][p] <= known[q][p] + 1
    <3>1. posted[q][p] \in Nat /\ taken[q][p] \in Nat /\ known[q][p] \in Nat
      BY <1>1 DEF IndInv, TypeOK
    <3> HIDE DEF TakeCell
    <3> QED BY <1>1, <3>1 DEF ChannelInv
  <2>3. ASSUME NEW c \in Cells
        PROVE  /\ SlotCell(q, p, c)' = SlotCell(q, p, c)
               /\ c < at'[p] =>
                    communication_data'[p][c] \in {got[q][p][c], taken[q][p] + 1}
    <3>1. SlotCell(q, p, c)' = SlotCell(q, p, c)
      BY <1>1, <2>1 DEF SlotCell
    <3>2. postbox[p][q][c] \in {got[q][p][c], taken[q][p] + 1}
      <4>1. /\ known[q][p] <= taken[q][p] /\ taken[q][p] <= posted[q][p]
            /\ postbox[p][q][c] = SlotCell(q, p, c)
        BY <1>1 DEF ChannelInv
      <4>2. Writing(q, p) => posted[q][p] = known[q][p]
        BY <1>1, PutPlace DEF Writing
      <4> QED BY <1>1, <2>2, <4>1, <4>2 DEF SlotCell
    <3>3. c \in 0..SEQ /\ (c < at'[p] <=> c < at[p] \/ c = at[p])
      BY <1>1, <1>3 DEF Cells, TYPE, DATA, SEQ
    <3> QED BY <1>1, <1>2, <3>1, <3>2, <3>3 DEF ChannelInv
  <2> QED BY <1>1, <2>1, <2>3 DEF ChannelInv
<1> QED BY <1>1, <1>4, <1>5, <1>6, <1>7, <1>8, Together

LEMMA TakeAgainInd ==
  ASSUME IndInv, NEW p \in Cores, TakeAgain(p)
  PROVE  IndInv'
<1> DEFINE q == peer[p]
<1> USE DEF TakeAgain, Goto, history
<1>1. /\ pc[p] = "take" /\ q \in Cores /\ q # p /\ CoreInv(p) /\ ParityInv(p, q)
      /\ ChannelInv(p, q) /\ ChannelInv(q, p)
      /\ Reading(p, q) /\ ~Writing(p, q) /\ ~Answering(p, q)
  BY TakePlace
<1>2. TypeOK'
  BY DEF IndInv, TypeOK, SEQ
<1>3. pc' = pc /\ at'[p] = 0 /\ \A r \in Cores \ {p} : at'[r] = at[r]
  BY <1>1 DEF IndInv, TypeOK
<1>4. OnlyAt(p, q)
  BY <1>1, <1>3 DEF OnlyAt
<1>5. CoreInv(p)' /\ ParityInv(p, q)'
  BY <1>1, <1>3 DEF CoreInv, ParityInv
<1>6. ChannelInv(p, q)'
  <2>1. /\ Pending(p, q)' <=> Pending(p, q)
        /\ ~Writing(p, q)' /\ (Answering(q, p)' <=> Answering(q, p))
        /\ Reading(q, p)' <=> Reading(q, p)
        /\ at'[q] = at[q]
    BY <1>1, <1>3 DEF Pending, Writing, Answering, Reading
  <2> QED BY <1>1, <2>1, ChannelFrame
<1>7. ChannelInv(q, p)'
  <2>1. /\ Pending(q, p)' <=> Pending(q, p)
        /\ Writing(q, p)' <=> Writing(q, p)
        /\ at'[q] = at[q] /\ ~Answering(p, q)' /\ \A c \in Cells : ~(c < at'[p])
    BY <1>1, <1>3 DEF Pending, Writing, Answering, Cells, TYPE, DATA
  <2> QED BY <1>1, <2>1, ChannelFrame
<1> QED BY <1>1, <1>2, <1>4, <1>5, <1>6, <1>7, Together

(* The awaited number and the one in the slot are both odd: there is a     *)
(* message that was not taken, and the cells copied are its own or those   *)
(* of the message before.                                                  *)
LEMMA TakeSeqInd ==
  ASSUME IndInv, NEW p \in Cores, TakeSeq(p)
  PROVE  /\ peer[p] \in Cores /\ peer[p] # p
         /\ taken[peer[p]][p] < posted[peer[p]][p]
         /\ \A c \in Cells : /\ communication_data[p][c] \in Nat
                             /\ communication_data[p][c] <= taken[peer[p]][p] + 1
                             /\ communication_data[p][c] \in
                                  {got[peer[p]][p][c], taken[peer[p]][p] + 1}
         /\ IndInv'
<1>0. PICK q \in Cores : q = peer[p]
  BY TakePlace DEF TakeSeq
<1> DEFINE s == Inc(syncValues[p][q])
           payload == [c \in Cells |-> communication_data[p][c]]
<1> USE DEF TakeSeq
<1>1. /\ pc[p] = "take" /\ at[p] = SEQ /\ q \in Cores /\ q # p
      /\ CoreInv(p) /\ ParityInv(p, q) /\ Odd(syncValues[p][q])
      /\ ChannelInv(p, q) /\ ChannelInv(q, p)
      /\ Reading(p, q) /\ ~Writing(p, q) /\ ~Answering(p, q)
  BY <1>0, TakePlace
<1>2. /\ posted[q][p] \in Nat /\ taken[q][p] \in Nat /\ known[q][p] \in Nat
      /\ syncValues[p][q] \in 0..SyncMax
  BY <1>1 DEF IndInv, TypeOK
<1>3. /\ taken[q][p] < posted[q][p] /\ posted[q][p] = taken[q][p] + 1
      /\ taken[q][p] = known[q][p] /\ Pending(q, p)
  <2>1. Odd(postbox[p][q][SEQ])
    BY <1>0, <1>1 DEF Matches
  <2> QED BY <1>1, <1>2, <2>1 DEF ChannelInv
<1>4. ~Writing(q, p)
  BY <1>1, <1>3, PutPlace DEF Writing
<1>5. \A c \in Cells : /\ communication_data[p][c] \in Nat
                       /\ got[q][p][c] \in Nat
                       /\ communication_data[p][c] <= taken[q][p] + 1
                       /\ communication_data[p][c] \in {got[q][p][c], taken[q][p] + 1}
  <2> TAKE c \in Cells
  <2>1. c \in 0..SEQ /\ c < SEQ
    BY DEF Cells, TYPE, DATA, SEQ
  <2>2. communication_data[p] \in Slot /\ got[q][p] \in [Cells -> Nat]
    BY <1>1 DEF IndInv, TypeOK
  <2>3. got[q][p][c] \in Nat /\ communication_data[p][c] \in Nat
    BY <2>1, <2>2 DEF Slot
  <2>4. /\ communication_data[p][c] \in {got[q][p][c], taken[q][p] + 1}
        /\ got[q][p][c] <= taken[q][p]
    BY <1>1, <2>1 DEF ChannelInv
  <2> QED BY <1>2, <2>3, <2>4
<1>6. s \in 0..SyncMax /\ s \in Nat /\ ~Odd(s)
  BY <1>1, <1>2, IncParity, SyncAssumption
<1>7. /\ syncValues' \in [Cores -> [Cores -> 0..SyncMax]]
      /\ syncValues'[p][q] = s
      /\ \A a, b \in Cores : <<a, b>> # <<p, q>> => syncValues'[a][b] = syncValues[a][b]
  <2>1. /\ syncValues \in [Cores -> [Cores -> 0..SyncMax]]
        /\ syncValues' = Set(syncValues, p, q, s)
    BY <1>0 DEF IndInv, TypeOK
  <2> HIDE DEF TakeSeq, s
  <2> QED BY <1>1, <1>6, <2>1 DEF Set
<1>8. /\ taken' \in [Cores -> [Cores -> Nat]]
      /\ taken'[q][p] = taken[q][p] + 1
      /\ \A a, b \in Cores : <<a, b>> # <<q, p>> => taken'[a][b] = taken[a][b]
  <2>1. taken \in [Cores -> [Cores -> Nat]] /\ taken' = Set(taken, q, p, taken[q][p] + 1)
    BY <1>0 DEF IndInv, TypeOK
  <2> HIDE DEF TakeSeq
  <2> QED BY <1>1, <2>1 DEF Set
<1>9. /\ got' \in [Cores -> [Cores -> [Cells -> Nat]]]
      /\ \A c \in Cells : got'[q][p][c] = communication_data[p][c]
      /\ \A a, b \in Cores : <<a, b>> # <<q, p>> => got'[a][b] = got[a][b]
  <2>1. got \in [Cores -> [Cores -> [Cells -> Nat]]] /\ got' = Set(got, q, p, payload)
    BY <1>0 DEF IndInv, TypeOK
  <2>2. /\ payload \in [Cells -> Nat]
        /\ \A c \in Cells : payload[c] = communication_data[p][c]
    BY <1>5
  <2> HIDE DEF TakeSeq, payload
  <2> QED BY <1>1, <2>1, <2>2 DEF Set
<1>10. /\ probed' \in [Cores -> [Cores -> BOOLEAN]]
       /\ ~probed'[p][q]
       /\ \A a, b \in Cores : <<a, b>> # <<p, q>> => probed'[a][b] = probed[a][b]
  <2>1. probed \in [Cores -> [Cores -> BOOLEAN]] /\ probed' = Set(probed, p, q, FALSE)
    BY <1>0 DEF IndInv, TypeOK
  <2> HIDE DEF TakeSeq
  <2> QED BY <1>1, <2>1 DEF Set
<1>11. /\ communication_data' \in [Cores -> Slot]
       /\ \A r \in Cores \ {p} : communication_data'[r] = communication_data[r]
       /\ \A c \in 0..SEQ : communication_data'[p][c] =
            IF c = SEQ THEN s ELSE communication_data[p][c]
  <2>1. /\ communication_data \in [Cores -> Slot] /\ SEQ \in 0..SEQ
        /\ communication_data' = [communication_data EXCEPT ![p][SEQ] = s]
    BY <1>0 DEF IndInv, TypeOK, SEQ
  <2> HIDE DEF TakeSeq, s
  <2> QED BY <1>6, <2>1 DEF Slot
<1>12. /\ pc' = [pc EXCEPT ![p] = "answer"] /\ at' = [at EXCEPT ![p] = 0]
       /\ pc'[p] = "answer" /\ at'[p] = 0
       /\ \A r \in Cores \ {p} : pc'[r] = pc[r] /\ at'[r] = at[r]
  BY DEF IndInv, TypeOK, Goto
<1>13. /\ postbox' = postbox /\ call' = call /\ peer' = peer
      /\ unwaited' = unwaited /\ posted' = posted /\ known' = known
  BY <1>0
<1>14. Odd(postbox[p][q][SEQ])
  BY <1>0, <1>1 DEF Matches
<1> HIDE DEF TakeSeq, s, payload
<1>15. TypeOK'
  BY <1>7, <1>8, <1>9, <1>10, <1>11, <1>12, <1>13 DEF IndInv, TypeOK, SEQ
<1>16. OnlyAt(p, q)
  BY <1>1, <1>0, <1>7, <1>8, <1>9, <1>10, <1>11, <1>12, <1>13 DEF OnlyAt
<1>17. CoreInv(p)'
  <2>1. communication_data'[p][SEQ] = s
    BY <1>11 DEF SEQ
  <2>2. \A c \in Cells : communication_data'[p][c] = got'[q][p][c]
    BY <1>9, <1>11 DEF Cells, TYPE, DATA, SEQ
  <2> QED BY <1>1, <1>6, <1>12, <1>0, <1>13, <2>1, <2>2 DEF CoreInv
<1>18. ParityInv(p, q)'
  BY <1>6, <1>7, <1>12, <1>0, <1>13 DEF ParityInv
<1>19. ChannelInv(p, q)'
  <2>1. /\ Pending(p, q)' <=> Pending(p, q)
        /\ ~Writing(p, q)' /\ (Answering(q, p)' <=> Answering(q, p))
        /\ Reading(q, p)' <=> Reading(q, p)
        /\ at'[q] = at[q] /\ communication_data'[q] = communication_data[q]
        /\ probed'[q][p] = probed[q][p]
        /\ taken'[p][q] = taken[p][q] /\ got'[p][q] = got[p][q]
    BY <1>1, <1>8, <1>9, <1>10, <1>11, <1>12, <1>0, <1>13 DEF Pending, Writing, Answering, Reading
  <2> QED BY <1>1, <1>13, <2>1, ChannelFrame
<1>20. ChannelInv(q, p)'
  <2>1. /\ Pending(q, p)' /\ ~Writing(q, p)' /\ Answering(p, q)' /\ ~Reading(p, q)'
    BY <1>1, <1>3, <1>4, <1>12, <1>0, <1>13 DEF Pending, Writing, Answering, Reading
  <2>2. ASSUME NEW c \in Cells
        PROVE  /\ postbox[p][q][c] = posted[q][p]
               /\ SlotCell(q, p, c)' = posted[q][p]
    <3>1. postbox[p][q][c] = posted[q][p]
      BY <1>1, <1>3, <1>4 DEF ChannelInv, SlotCell
    <3>2. c >= at'[p]
      BY <1>12 DEF Cells, TYPE, DATA
    <3> QED BY <1>13, <2>1, <3>1, <3>2 DEF SlotCell
  <2>3. \A c \in Cells : got'[q][p][c] <= taken'[q][p]
    BY <1>5, <1>8, <1>9
  <2> QED BY <1>2, <1>3, <1>8, <1>10, <1>13, <1>14, <2>1, <2>2, <2>3 DEF ChannelInv
<1> QED BY <1>0, <1>1, <1>3, <1>5, <1>15, <1>16, <1>17, <1>18, <1>19, <1>20, Together

(* The answer is the message just taken, written back over itself; its     *)
(* sequence number goes last.                                              *)
LEMMA AnswerCellInd ==
  ASSUME IndInv, NEW p \in Cores, AnswerCell(p)
  PROVE  IndInv'
<1>1. PICK q \in Cores : q = peer[p]
  BY DEF IndInv, TypeOK
<1>2. /\ pc[p] = "answer" /\ q # p /\ at[p] \in 0..SEQ
      /\ CoreInv(p) /\ ParityInv(p, q) /\ ChannelInv(p, q) /\ ChannelInv(q, p)
      /\ ~Reading(p, q) /\ ~Writing(p, q) /\ Answering(p, q)
  BY <1>1 DEF AnswerCell, IndInv, TypeOK, CoreInv, Reading, Writing, Answering
<1>3. /\ posted[q][p] \in Nat /\ taken[q][p] \in Nat /\ known[q][p] \in Nat
      /\ communication_data[p] \in Slot
  BY DEF IndInv, TypeOK
<1>4. /\ posted[q][p] = taken[q][p] /\ taken[q][p] = known[q][p] + 1 /\ Pending(q, p)
      /\ ~Odd(communication_data[p][SEQ])
      /\ \A c \in Cells : communication_data[p][c] = got[q][p][c]
  BY <1>1, <1>2, <1>3 DEF ChannelInv, CoreInv
<1>5. ~Writing(q, p)
  BY <1>2, <1>4, PutPlace DEF Writing
<1>6. /\ postbox' \in [Cores -> [Cores -> Slot]]
      /\ \A a, b \in Cores : a # p \/ b # q => postbox'[a][b] = postbox[a][b]
      /\ \A c \in 0..SEQ : postbox'[p][q][c] =
           IF c = at[p] THEN communication_data[p][c] ELSE postbox[p][q][c]
  <2>1. /\ postbox \in [Cores -> [Cores -> Slot]]
        /\ postbox' = [postbox EXCEPT ![p][q][at[p]] = communication_data[p][at[p]]]
    BY <1>1 DEF AnswerCell, IndInv, TypeOK
  <2> QED BY <1>2, <1>3, <2>1 DEF Slot
<1>7. UNCHANGED <<syncValues, communication_data, call, peer, unwaited,
                  posted, taken, known, got, probed>>
  BY DEF AnswerCell, history
<1>8. /\ at[p] < SEQ => pc' = pc /\ at' = [at EXCEPT ![p] = at[p] + 1]
      /\ at[p] = SEQ => /\ pc' = [pc EXCEPT ![p] =
                             IF call[p] = "sendrecv" THEN "await" ELSE "idle"]
                        /\ at' = [at EXCEPT ![p] = 0]
  BY <1>2 DEF AnswerCell, Goto, SEQ
<1>9. /\ pc' \in [Cores -> {"idle", "put", "await", "take", "answer"}]
      /\ at' \in [Cores -> 0..SEQ]
      /\ \A r \in Cores \ {p} : pc'[r] = pc[r] /\ at'[r] = at[r]
      /\ at[p] < SEQ => pc'[p] = "answer" /\ at'[p] = at[p] + 1
      /\ at[p] = SEQ => pc'[p] = IF call[p] = "sendrecv" THEN "await" ELSE "idle"
  <2>1. at \in [Cores -> 0..SEQ] /\ pc \in [Cores -> {"idle", "put", "await", "take", "answer"}]
    BY DEF IndInv, TypeOK
  <2>2. CASE at[p] < SEQ
    BY <1>2, <1>8, <2>1, <2>2 DEF SEQ
  <2>3. CASE at[p] = SEQ
    BY <1>2, <1>8, <2>1, <2>3 DEF SEQ
  <2> QED BY <1>2, <2>2, <2>3 DEF SEQ
<1>10. TypeOK'
  BY <1>6, <1>7, <1>9 DEF IndInv, TypeOK
<1>11. OnlyAt(p, q)
  BY <1>1, <1>6, <1>7, <1>9 DEF OnlyAt
<1>12. at[p] < SEQ \/ at[p] = SEQ
  BY <1>2 DEF SEQ
<1>13. CoreInv(p)' /\ ParityInv(p, q)'
  <2>1. pc'[p] \in {"idle", "await", "answer"}
    BY <1>9, <1>12
  <2>2. CoreInv(p)'
    BY <1>1, <1>2, <1>4, <1>7, <2>1 DEF CoreInv
  <2>3. ~Odd(syncValues[p][q])
    BY <1>2 DEF ParityInv
  <2> QED BY <1>7, <2>1, <2>2, <2>3 DEF ParityInv
<1>14. ChannelInv(p, q)'
  <2>1. /\ Pending(p, q)' <=> Pending(p, q)
    BY <1>1, <1>2, <1>7, <1>9, <1>12 DEF Pending, CoreInv
  <2>2. /\ ~Writing(p, q)'
        /\ (Answering(q, p)' <=> Answering(q, p))
        /\ (Reading(q, p)' <=> Reading(q, p))
        /\ at'[q] = at[q] /\ postbox'[q][p] = postbox[q][p]
    BY <1>1, <1>2, <1>6, <1>7, <1>9, <1>12 DEF Writing, Answering, Reading
  <2> QED BY <1>2, <1>7, <2>1, <2>2, ChannelFrame
<1>15. ChannelInv(q, p)'
  <2>1. /\ Pending(q, p)' /\ ~Writing(q, p)' /\ ~Reading(p, q)'
    BY <1>2, <1>4, <1>5, <1>7, <1>9, <1>12 DEF Pending, Writing, Reading
  <2>2. Answering(p, q)' <=> at[p] < SEQ
    BY <1>1, <1>7, <1>9, <1>12 DEF Answering, SEQ
  <2>3. Odd(postbox'[p][q][SEQ]) <=> at[p] < SEQ
    <3>1. Odd(postbox[p][q][SEQ])
      BY <1>2 DEF ChannelInv
    <3> QED BY <1>4, <1>6, <1>12, <3>1 DEF SEQ
  <2>4. ASSUME NEW c \in Cells
        PROVE  postbox'[p][q][c] = SlotCell(q, p, c)'
    <3>1. c \in 0..SEQ /\ c < SEQ
      BY DEF Cells, TYPE, DATA, SEQ
    <3>2. postbox[p][q][c] = IF c >= at[p] THEN posted[q][p] ELSE got[q][p][c]
      BY <1>2, <1>3, <1>4, <1>5 DEF ChannelInv, SlotCell
    <3>3. postbox'[p][q][c] =
            IF at[p] < SEQ /\ c >= at[p] + 1 THEN posted[q][p] ELSE got[q][p][c]
      BY <1>2, <1>4, <1>6, <1>12, <3>1, <3>2 DEF SEQ
    <3>4. SlotCell(q, p, c)' =
            IF Answering(p, q)' /\ c >= at'[p] THEN posted[q][p] ELSE got[q][p][c]
      BY <1>3, <1>4, <1>7, <2>1 DEF SlotCell
    <3> QED BY <1>9, <2>2, <3>3, <3>4
  <2> QED BY <1>2, <1>3, <1>4, <1>7, <2>1, <2>2, <2>3, <2>4 DEF ChannelInv
<1> QED BY <1>2, <1>10, <1>11, <1>13, <1>14, <1>15, Together

-------------------------------------------------------------------------------
LEMMA StepInd ==
  ASSUME IndInv, WaitsFirst, [Next]_vars
  PROVE  IndInv'
<1>1. CASE UNCHANGED vars
  BY <1>1 DEF vars, localVars, history, IndInv, TypeOK, CoreInv, SelfInv, ParityInv,
    ChannelInv, SlotCell, Pending, Writing, Reading, Answering
<1>2. ASSUME NEW p \in Cores, Step(p)
      PROVE  IndInv'
  BY <1>2, PutCellInd, PutSeqInd, AwaitInd, TakeCellInd, TakeSeqInd, TakeAgainInd,
    AnswerCellInd DEF Step
<1>3. ASSUME NEW p \in Cores, NEW q \in Cores, Call(p, q)
      PROVE  IndInv'
  BY <1>3, SendInd, RecvInd, WaitSentInd, TestSentInd, ProbeInd DEF Call
<1> QED BY <1>1, <1>2, <1>3 DEF Next

(* The invariant of Postbox, for all constants the code allows.            *)
THEOREM Invariance ==
  ASSUME WaitsFirst, EvenStart
  PROVE  Spec => []IndInv
<1>1. Init => IndInv
  BY InitInd
<1>2. IndInv /\ [Next]_vars => IndInv'
  BY StepInd
<1> QED BY <1>1, <1>2, PTL DEF Spec

(* The variables stay in their types; the sequence byte never leaves its   *)
(* range.                                                                  *)
THEOREM TypeCorrect ==
  ASSUME WaitsFirst, EvenStart
  PROVE  Spec => []TypeOK
<1>1. IndInv => TypeOK
  BY DEF IndInv
<1> QED BY <1>1, Invariance, PTL

(* A probe that said yes is right until its core takes the message,        *)
(* whatever the two cores do in the meantime.                              *)
THEOREM ProbesStayRight ==
  ASSUME WaitsFirst, EvenStart
  PROVE  Spec => []ProbeIsStable
<1>1. IndInv => ProbeIsStable
  <2> SUFFICES ASSUME IndInv, NEW p \in Cores, NEW q \in Cores, probed[q][p]
               PROVE  posted[p][q] = taken[p][q] + 1
    BY DEF ProbeIsStable
  <2> QED BY DEF IndInv, ChannelInv, SelfInv
<1> QED BY <1>1, Invariance, PTL

-------------------------------------------------------------------------------
(* The steps of the calls that Rendezvous sees.                            *)
LEMMA PostStep ==
  ASSUME IndInv, NEW p \in Cores, PutSeq(p)
  PROVE  Abstract!Next
<1>1. peer[p] \in Cores /\ posted[p][peer[p]] = known[p][peer[p]]
  BY PutPlace DEF PutSeq
<1>2. Abstract!Post(p, peer[p])
  BY <1>1 DEF PutSeq, Set, Abstract!Post, IndInv, TypeOK
<1> QED BY <1>1, <1>2 DEF Abstract!Next

LEMMA TakeStep ==
  ASSUME IndInv, NEW p \in Cores, TakeSeq(p)
  PROVE  Abstract!Next
<1>1. PICK q \in Cores : q = peer[p]
  BY TakeSeqInd
<1> DEFINE payload == [c \in Cells |-> communication_data[p][c]]
<1>2. /\ taken[q][p] < posted[q][p] /\ taken[q][p] \in Nat /\ posted[q][p] \in Nat
      /\ \A c \in Cells : /\ communication_data[p][c] \in Nat
                          /\ communication_data[p][c] <= taken[q][p] + 1
                          /\ communication_data[p][c] \in {got[q][p][c], taken[q][p] + 1}
  BY <1>1, TakeSeqInd DEF IndInv, TypeOK
<1>3. /\ taken' = [taken EXCEPT ![q][p] = @ + 1]
      /\ got' = [got EXCEPT ![q][p] = payload]
      /\ UNCHANGED <<posted, known>>
  BY <1>1 DEF TakeSeq, Set
<1>4. taken'[q][p] = taken[q][p] + 1
  BY <1>3 DEF IndInv, TypeOK
<1>5. payload \in [Cells -> 0..posted[q][p]]
  BY <1>2
<1>6. \A c \in Cells : payload[c] \in {taken'[q][p], got[q][p][c]}
  BY <1>2, <1>4
<1>7. Abstract!Take(q, p)
  BY <1>2, <1>3, <1>5, <1>6 DEF Abstract!Take
<1> QED BY <1>7 DEF Abstract!Next

LEMMA KnowStep ==
  ASSUME IndInv, NEW p \in Cores, NEW q \in Cores, taken[p][q] = known[p][q] + 1,
         known' = Set(known, p, q, known[p][q] + 1), UNCHANGED <<posted, taken, got>>
  PROVE  Abstract!Next
<1>1. known[p][q] < taken[p][q]
  BY DEF IndInv, TypeOK
<1>2. Abstract!Know(p, q)
  BY <1>1 DEF Set, Abstract!Know
<1> QED BY <1>2 DEF Abstract!Next

LEMMA StepRefines ==
  ASSUME IndInv, WaitsFirst, [Next]_vars
  PROVE  Abstract!Next \/ UNCHANGED Abstract!rvars
<1> DEFINE Goal == Abstract!Next \/ UNCHANGED Abstract!rvars
<1>1. CASE UNCHANGED vars
  BY <1>1 DEF vars, history, Abstract!rvars
<1>2. ASSUME NEW p \in Cores, Step(p)
      PROVE  Goal
  <2>1. CASE PutSeq(p)
    BY <2>1, PostStep
  <2>2. CASE TakeSeq(p)
    BY <2>2, TakeStep
  <2>3. CASE Await(p)
    BY <2>3, AwaitInd, KnowStep DEF Await
  <2>4. CASE PutCell(p) \/ TakeCell(p) \/ TakeAgain(p) \/ AnswerCell(p)
    BY <2>4 DEF PutCell, TakeCell, TakeAgain, AnswerCell, history, Abstract!rvars
  <2> QED BY <1>2, <2>1, <2>2, <2>3, <2>4 DEF Step
<1>3. ASSUME NEW p \in Cores, NEW q \in Cores, Call(p, q)
      PROVE  Goal
  <2>1. CASE TestSent(p, q)
    BY <2>1, TestSentInd, KnowStep DEF TestSent
  <2>2. CASE SendRecv(p, q) \/ Recv(p, q) \/ WaitSent(p, q) \/ Probe(p, q)
    BY <2>2 DEF SendRecv, Recv, WaitSent, Probe, history, Abstract!rvars
  <2>3. ASSUME NEW c \in {"send", "nonblocking_send"}, Send(p, q, c)
        PROVE  Goal
    BY <2>3 DEF Send, history, Abstract!rvars
  <2> QED BY <1>3, <2>1, <2>2, <2>3 DEF Call
<1> QED BY <1>1, <1>2, <1>3 DEF Next

(* The slots, the sequence bytes and the copy loops implement Rendezvous:  *)
(* for every pair of cores a message is posted, taken and known in turn,   *)
(* and each cell received is the one posted or that of the take before.    *)
THEOREM ImplementsRendezvous ==
  ASSUME WaitsFirst, EvenStart
  PROVE  Spec => RendezvousSpec
<1>1. Init => Abstract!Init
  BY DEF Init, Pair, Abstract!Init
<1>2. IndInv /\ [Next]_vars => [Abstract!Next]_Abstract!rvars
  BY StepRefines
<1> QED BY <1>1, <1>2, Invariance, PTL DEF Spec, RendezvousSpec, Abstract!Spec

(* Never two messages of a pair under way, and no payload from the future. *)
THEOREM OneMessageAtATime ==
  ASSUME WaitsFirst, EvenStart
  PROVE  Spec => [](Abstract!OneAtATime /\ Abstract!NothingFromTheFuture)
<1>1. IndInv => Abstract!OneAtATime /\ Abstract!NothingFromTheFuture
  <2> SUFFICES ASSUME IndInv, NEW p \in Cores, NEW q \in Cores
               PROVE  /\ known[p][q] <= taken[p][q] /\ taken[p][q] <= posted[p][q]
                      /\ posted[p][q] <= known[p][q] + 1
                      /\ \A c \in Cells : got[p][q][c] <= taken[p][q]
    BY DEF Abstract!OneAtATime, Abstract!NothingFromTheFuture
  <2>1. known[p][q] \in Nat /\ posted[p][q] \in Nat
    BY DEF IndInv, TypeOK
  <2>2. CASE p = q
    BY <2>2 DEF IndInv, SelfInv
  <2>3. CASE p # q
    BY <2>1, <2>3 DEF IndInv, ChannelInv
  <2> QED BY <2>2, <2>3
<1> QED BY <1>1, Invariance, PTL

(* A receive does not return before its message was sent.                  *)
THEOREM NoReceiveBeforeItsSend ==
  ASSUME WaitsFirst, EvenStart
  PROVE  Spec => []NoPhantomReceive
<1>1. Abstract!OneAtATime => NoPhantomReceive
  BY DEF Abstract!OneAtATime, NoPhantomReceive
<1> QED BY <1>1, OneMessageAtATime, PTL
===============================================================================
