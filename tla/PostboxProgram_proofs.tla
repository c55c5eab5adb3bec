------------------------ MODULE PostboxProgram_proofs -------------------------
(***************************************************************************)
(* Proofs about PostboxProgram, for any number of cores, any width of the  *)
(* sequence byte and any lists of transfers: when the calls of the cores   *)
(* match, a message carries the number that its receiver looks for next,   *)
(* and a receive takes the message of the transfer it belongs to.          *)
(*                                                                         *)
(* The invariant of Postbox says that an odd number is a message, but not  *)
(* which one: that needs the programs.  Two cores go through the transfers *)
(* they share in the same order, each moves on by two numbers in every one *)
(* of them, and neither is ahead of the other by more than one transfer,   *)
(* the one whose message waits.                                            *)
(***************************************************************************)
EXTENDS PostboxProgram, Postbox_proofs, WellFoundedInduction

-------------------------------------------------------------------------------
Between(p, q, j) ==
  \/ transfers[j].from = p /\ transfers[j].to = q
  \/ transfers[j].from = q /\ transfers[j].to = p
Sends(p, j) == transfers[j].kind = "sendrecv" \/ transfers[j].from = p

\* p has moved on to the number behind transfer j; has put its message of j.
Past(p, j) ==
  j < IF pc[p] \in {"put", "take"} THEN position[p] ELSE position[p] + 1
Sent(p, j) ==
  Sends(p, j) /\ j < IF pc[p] = "put" THEN position[p] ELSE position[p] + 1

\* A message of p waits at q; the number p will look for, or send under, next.
Waiting(p, q) == posted[p][q] = taken[p][q] + 1
Awaited(p, q) == IF Odd(syncValues[p][q]) THEN syncValues[p][q] ELSE Inc(syncValues[p][q])

(* A call that has not moved on is the one of the transfer p is at.        *)
PlaceInv(p) ==
  LET i == position[p] IN
  /\ pc[p] \in {"put", "take"} =>
       /\ i \in DOMAIN transfers /\ Between(p, peer[p], i)
       /\ call[p] = "sendrecv" <=> transfers[i].kind = "sendrecv"
  /\ pc[p] = "put" => Sends(p, i) /\ communication_data[p][SEQ] = Awaited(p, peer[p])
  /\ pc[p] = "take" => Sends(peer[p], i)

(* The message that waits at q is that of the first transfer q has not     *)
(* moved over, and the last one that p has sent.                           *)
FirstFor(p, q, j) ==
  /\ Between(p, q, j) /\ Sent(p, j) /\ ~Past(q, j)
  /\ \A k \in DOMAIN transfers : Between(p, q, k) =>
       /\ k < j => Past(q, k)
       /\ k > j => ~Sent(p, k)

(* The two cores are behind the same transfers of those they share.        *)
Level(p, q) ==
  \A j \in DOMAIN transfers : Between(p, q, j) => (Past(p, j) <=> Past(q, j))

PairInv(p, q) ==
  /\ Waiting(p, q) => /\ \E j \in DOMAIN transfers : FirstFor(p, q, j)
                      /\ postbox[q][p][SEQ] = Awaited(q, p)
  /\ \A j \in DOMAIN transfers : Between(p, q, j) =>
       /\ Sent(p, j) /\ ~Past(q, j) => Waiting(p, q)
       /\ Sends(p, j) /\ Past(q, j) => Sent(p, j)
       /\ Past(p, j) /\ ~Past(q, j) => Awaited(p, q) = Inc(Inc(Awaited(q, p)))
  /\ Level(p, q) => Awaited(p, q) = Awaited(q, p)

ProgramTypeOK ==
  /\ transfers \in Seq(Transfers)
  /\ position \in [Cores -> 0..Len(transfers)]

ProgramInv ==
  /\ IndInv
  /\ ProgramTypeOK
  /\ \A p \in Cores : PlaceInv(p)
  /\ \A p, q \in Cores : p # q => PairInv(p, q)

-------------------------------------------------------------------------------
(* The transfers of the list.                                              *)
LEMMA TransferFacts ==
  ASSUME ProgramTypeOK, NEW j \in DOMAIN transfers
  PROVE  /\ j \in Nat /\ j # 0 /\ transfers[j] \in Transfers
         /\ transfers[j].from \in Cores /\ transfers[j].to \in Cores
         /\ transfers[j].from # transfers[j].to /\ transfers[j].kind \in Kinds
BY DEF ProgramTypeOK, Transfers

LEMMA BetweenFacts ==
  ASSUME ProgramTypeOK, NEW p \in Cores, NEW q \in Cores, p # q,
         NEW j \in DOMAIN transfers, Between(p, q, j)
  PROVE  /\ Between(q, p, j) /\ Concerns(p, j) /\ Concerns(q, j)
         /\ Sends(p, j) \/ Sends(q, j)
         /\ Sends(p, j) /\ Sends(q, j) <=> transfers[j].kind = "sendrecv"
BY DEF Between, Sends, Concerns

(* What a step leaves alone of a pair keeps the invariant of the pair.     *)
LEMMA PairFrame ==
  ASSUME NEW a \in Cores, NEW b \in Cores, PairInv(a, b), transfers' = transfers,
         \A j \in DOMAIN transfers : Between(a, b, j) =>
           /\ Sent(a, j)' <=> Sent(a, j)
           /\ Past(a, j)' <=> Past(a, j)
           /\ Past(b, j)' <=> Past(b, j),
         Waiting(a, b)' <=> Waiting(a, b),
         Awaited(a, b)' = Awaited(a, b), Awaited(b, a)' = Awaited(b, a),
         Waiting(a, b) => postbox'[b][a][SEQ] = postbox[b][a][SEQ]
  PROVE  PairInv(a, b)'
<1>1. ASSUME NEW j \in DOMAIN transfers
      PROVE  (Between(a, b, j)' <=> Between(a, b, j)) /\ (Sends(a, j)' <=> Sends(a, j))
  BY DEF Between, Sends
<1>2. ASSUME NEW j \in DOMAIN transfers, FirstFor(a, b, j)
      PROVE  FirstFor(a, b, j)'
  BY <1>1, <1>2 DEF FirstFor
<1>3. Waiting(a, b)' => /\ \E j \in DOMAIN transfers' : FirstFor(a, b, j)'
                        /\ postbox'[b][a][SEQ] = Awaited(b, a)'
  BY <1>2 DEF PairInv
<1>4. ASSUME NEW j \in DOMAIN transfers, Between(a, b, j)
      PROVE  /\ Sent(a, j)' /\ ~Past(b, j)' => Waiting(a, b)'
             /\ Sends(a, j)' /\ Past(b, j)' => Sent(a, j)'
             /\ Past(a, j)' /\ ~Past(b, j)' => Awaited(a, b)' = Inc(Inc(Awaited(b, a)'))
  BY <1>1, <1>4 DEF PairInv
<1>5. Level(a, b)' => Level(a, b)
  BY <1>1 DEF Level
<1>6. Level(a, b)' => Awaited(a, b)' = Awaited(b, a)'
  BY <1>5 DEF PairInv
<1> QED BY <1>1, <1>3, <1>4, <1>6 DEF PairInv, Inc

-------------------------------------------------------------------------------
(* A step of p in a call with q, as far as the transfers are concerned.    *)
LocalStep(p, q) ==
  /\ transfers' = transfers /\ position' \in [Cores -> 0..Len(transfers)]
  /\ \A r \in Cores \ {p} :
       /\ position'[r] = position[r]
       /\ pc'[r] = pc[r] /\ peer'[r] = peer[r] /\ call'[r] = call[r]
       /\ communication_data'[r] = communication_data[r]
  /\ \A a, b \in Cores : <<a, b>> # <<p, q>> =>
       syncValues'[a][b] = syncValues[a][b] /\ posted'[a][b] = posted[a][b]
  /\ \A a, b \in Cores : <<a, b>> # <<q, p>> => taken'[a][b] = taken[a][b]
  /\ \A a, b \in Cores : <<a, b>> \notin {<<p, q>>, <<q, p>>} =>
       postbox'[a][b] = postbox[a][b]
  /\ \A j \in DOMAIN transfers : Concerns(p, j) /\ ~Between(p, q, j) =>
       (Past(p, j)' <=> Past(p, j)) /\ (Sent(p, j)' <=> Sent(p, j))

(* The other core of the pair stands still.                                *)
LEMMA Still ==
  ASSUME NEW p \in Cores, NEW q \in Cores, LocalStep(p, q),
         NEW r \in Cores, r # p, NEW j
  PROVE  (Past(r, j)' <=> Past(r, j)) /\ (Sent(r, j)' <=> Sent(r, j))
BY DEF LocalStep, Past, Sent, Sends

LEMMA ProgramElsewhere ==
  ASSUME ProgramInv, NEW p \in Cores, NEW q \in Cores, p # q, LocalStep(p, q)
  PROVE  /\ \A r \in Cores \ {p} : PlaceInv(r)'
         /\ \A a, b \in Cores : a # b /\ <<a, b>> \notin {<<p, q>>, <<q, p>>} =>
              PairInv(a, b)'
<1>1. ASSUME NEW r \in Cores \ {p}
      PROVE  PlaceInv(r)'
  <2>1. PlaceInv(r) /\ peer[r] \in Cores
    BY DEF ProgramInv, IndInv, TypeOK
  <2>2. /\ transfers' = transfers /\ position'[r] = position[r]
        /\ pc'[r] = pc[r] /\ peer'[r] = peer[r] /\ call'[r] = call[r]
        /\ communication_data'[r] = communication_data[r]
        /\ syncValues'[r][peer[r]] = syncValues[r][peer[r]]
    BY <2>1 DEF LocalStep
  <2> QED BY <2>1, <2>2 DEF PlaceInv, Between, Sends, Awaited
<1>2. ASSUME NEW a \in Cores, NEW b \in Cores, a # b, <<a, b>> \notin {<<p, q>>, <<q, p>>}
      PROVE  PairInv(a, b)'
  <2>1. /\ PairInv(a, b) /\ transfers' = transfers
        /\ Waiting(a, b)' <=> Waiting(a, b)
        /\ postbox'[b][a] = postbox[b][a]
        /\ Awaited(a, b)' = Awaited(a, b) /\ Awaited(b, a)' = Awaited(b, a)
    BY <1>2 DEF ProgramInv, LocalStep, Waiting, Awaited
  <2>2. ASSUME NEW j \in DOMAIN transfers, Between(a, b, j), NEW r \in {a, b}
        PROVE  (Past(r, j)' <=> Past(r, j)) /\ (Sent(r, j)' <=> Sent(r, j))
    <3>1. CASE r = p
      <4>1. Concerns(p, j) /\ ~Between(p, q, j)
        BY <1>2, <2>2, <3>1 DEF Between, Concerns
      <4> QED BY <3>1, <4>1 DEF LocalStep
    <3>2. CASE r # p
      BY <3>2, Still
    <3> QED BY <3>1, <3>2
  <2> QED BY <2>1, <2>2, PairFrame
<1> QED BY <1>1, <1>2

LEMMA ProgramTogether ==
  ASSUME ProgramInv, IndInv', NEW p \in Cores, NEW q \in Cores, p # q, LocalStep(p, q),
         PlaceInv(p)', PairInv(p, q)', PairInv(q, p)'
  PROVE  ProgramInv'
<1>1. ProgramTypeOK'
  BY DEF ProgramInv, ProgramTypeOK, LocalStep
<1> QED BY <1>1, ProgramElsewhere DEF ProgramInv

(* A step of a call that does not move on and neither posts nor takes.     *)
LEMMA Quiet ==
  ASSUME ProgramInv, IndInv', NEW p \in Cores, NEW q \in Cores, p # q, LocalStep(p, q),
         PlaceInv(p)',
         \A j \in DOMAIN transfers : Between(p, q, j) =>
           (Past(p, j)' <=> Past(p, j)) /\ (Sent(p, j)' <=> Sent(p, j)),
         Awaited(p, q)' = Awaited(p, q),
         posted'[p][q] = posted[p][q], taken'[q][p] = taken[q][p],
         postbox'[q][p][SEQ] = postbox[q][p][SEQ],
         Waiting(q, p) => postbox'[p][q][SEQ] = postbox[p][q][SEQ]
  PROVE  ProgramInv'
<1>1. /\ Awaited(q, p)' = Awaited(q, p) /\ transfers' = transfers
      /\ Waiting(p, q)' <=> Waiting(p, q)
      /\ Waiting(q, p)' <=> Waiting(q, p)
  BY DEF LocalStep, Awaited, Waiting
<1>2. PairInv(p, q) /\ PairInv(q, p)
  BY DEF ProgramInv
<1>3. ASSUME NEW j \in DOMAIN transfers, Between(q, p, j)
      PROVE  Between(p, q, j)
  BY <1>3 DEF Between
<1>4. PairInv(p, q)'
  BY <1>1, <1>2, Still, PairFrame
<1>5. PairInv(q, p)'
  BY <1>1, <1>2, <1>3, Still, PairFrame
<1> QED BY <1>4, <1>5, ProgramTogether

(* The place of p among the transfers does not change.                     *)
LEMMA SamePlace ==
  ASSUME NEW p \in Cores, transfers' = transfers, position'[p] = position[p],
         pc'[p] = pc[p] \/ (pc[p] \notin {"put", "take"} /\ pc'[p] \notin {"put", "take"}),
         NEW j
  PROVE  (Past(p, j)' <=> Past(p, j)) /\ (Sent(p, j)' <=> Sent(p, j))
BY DEF Past, Sent, Sends

(* One cell of the slot changes, another or none.                          *)
LEMMA OneCell ==
  ASSUME NEW a \in Cores, NEW b \in Cores, NEW i \in 0..SEQ, NEW v,
         postbox \in [Cores -> [Cores -> Slot]],
         postbox' = [postbox EXCEPT ![a][b][i] = v]
  PROVE  /\ \A c, d \in Cores : c # a \/ d # b => postbox'[c][d] = postbox[c][d]
         /\ i # SEQ => postbox'[a][b][SEQ] = postbox[a][b][SEQ]
         /\ i = SEQ => postbox'[a][b][SEQ] = v
BY DEF Slot, SEQ

-------------------------------------------------------------------------------
LEMMA PutCellQuiet ==
  ASSUME ProgramInv, IndInv', NEW p \in Cores, PutCell(p), UNCHANGED program
  PROVE  ProgramInv'
<1>1. /\ IndInv /\ TypeOK /\ ProgramTypeOK /\ PlaceInv(p)
      /\ pc[p] = "put" /\ at[p] \in 0..SEQ /\ at[p] # SEQ
  BY DEF ProgramInv, IndInv, TypeOK, PutCell, SEQ
<1>2. PICK q \in Cores : q = peer[p] /\ q # p
  BY <1>1, PutPlace
<1>3. /\ UNCHANGED <<syncValues, communication_data, pc, call, peer, posted, taken>>
      /\ UNCHANGED <<transfers, position>>
      /\ postbox' = [postbox EXCEPT ![q][p][at[p]] = communication_data[p][at[p]]]
  BY <1>2 DEF PutCell, history, program
<1>4. /\ \A a, b \in Cores : a # q \/ b # p => postbox'[a][b] = postbox[a][b]
      /\ postbox'[q][p][SEQ] = postbox[q][p][SEQ]
  <2>1. postbox \in [Cores -> [Cores -> Slot]]
    BY <1>1 DEF TypeOK
  <2> QED BY <1>1, <1>3, <2>1, OneCell
<1>5. \A j : (Past(p, j)' <=> Past(p, j)) /\ (Sent(p, j)' <=> Sent(p, j))
  BY <1>3, SamePlace
<1>6. LocalStep(p, q)
  BY <1>1, <1>3, <1>4, <1>5 DEF LocalStep, ProgramTypeOK
<1>7. PlaceInv(p)'
  BY <1>1, <1>3 DEF PlaceInv, Between, Sends, Awaited
<1>8. Awaited(p, q)' = Awaited(p, q)
  BY <1>3 DEF Awaited
<1> QED BY <1>2, <1>3, <1>4, <1>5, <1>6, <1>7, <1>8, Quiet

(* The copy from the slot changes the buffer alone.                        *)
LEMMA TakeQuiet ==
  ASSUME ProgramInv, IndInv', NEW p \in Cores, TakeCell(p) \/ TakeAgain(p),
         UNCHANGED program
  PROVE  ProgramInv'
<1>1. /\ IndInv /\ TypeOK /\ ProgramTypeOK /\ PlaceInv(p) /\ pc[p] = "take"
  BY DEF ProgramInv, IndInv, TakeCell, TakeAgain
<1>2. PICK q \in Cores : q = peer[p] /\ q # p
  BY <1>1, TakePlace
<1>3. /\ UNCHANGED <<syncValues, postbox, call, peer, posted, taken>>
      /\ UNCHANGED <<transfers, position>>
      /\ pc' = [pc EXCEPT ![p] = "take"] \/ pc' = pc
      /\ \A r \in Cores \ {p} : communication_data'[r] = communication_data[r]
  <2>1. CASE TakeCell(p)
    BY <1>1, <2>1 DEF TakeCell, history, program, TypeOK
  <2>2. CASE TakeAgain(p)
    BY <2>2 DEF TakeAgain, Goto, history, program
  <2> QED BY <2>1, <2>2
<1>4. pc' = pc
  BY <1>1, <1>3 DEF TypeOK
<1>5. \A j : (Past(p, j)' <=> Past(p, j)) /\ (Sent(p, j)' <=> Sent(p, j))
  BY <1>3, <1>4, SamePlace
<1>6. LocalStep(p, q)
  BY <1>1, <1>3, <1>4, <1>5 DEF LocalStep, ProgramTypeOK
<1>7. PlaceInv(p)'
  BY <1>1, <1>3, <1>4 DEF PlaceInv, Between, Sends
<1>8. Awaited(p, q)' = Awaited(p, q)
  BY <1>3 DEF Awaited
<1> QED BY <1>2, <1>3, <1>5, <1>6, <1>7, <1>8, Quiet

(* An answer is known, or looked for, between two transfers.               *)
LEMMA KnowQuiet ==
  ASSUME ProgramInv, IndInv', NEW p \in Cores, NEW q \in Cores, q # p,
         pc[p] \in {"idle", "await"}, UNCHANGED program,
         UNCHANGED <<syncValues, postbox, communication_data, posted, taken>>,
         pc'[p] \in {"idle", "await"},
         \A r \in Cores \ {p} : pc'[r] = pc[r] /\ peer'[r] = peer[r] /\ call'[r] = call[r]
  PROVE  ProgramInv'
<1>1. ProgramTypeOK /\ UNCHANGED <<transfers, position>>
  BY DEF ProgramInv, program
<1>2. \A j : (Past(p, j)' <=> Past(p, j)) /\ (Sent(p, j)' <=> Sent(p, j))
  BY <1>1, SamePlace
<1>3. LocalStep(p, q)
  BY <1>1, <1>2 DEF LocalStep, ProgramTypeOK
<1>4. PlaceInv(p)'
  BY DEF PlaceInv
<1>5. Awaited(p, q)' = Awaited(p, q)
  BY DEF Awaited
<1> QED BY <1>2, <1>3, <1>4, <1>5, Quiet

(* While p answers, no message waits for it.                               *)
LEMMA AnswerQuiet ==
  ASSUME ProgramInv, IndInv', NEW p \in Cores, AnswerCell(p), UNCHANGED program
  PROVE  ProgramInv'
<1>1. /\ IndInv /\ TypeOK /\ ProgramTypeOK /\ pc[p] = "answer" /\ at[p] \in 0..SEQ
      /\ CoreInv(p)
  BY DEF ProgramInv, IndInv, TypeOK, AnswerCell
<1>2. PICK q \in Cores : q = peer[p] /\ q # p
  BY <1>1 DEF TypeOK, CoreInv
<1>3. /\ UNCHANGED <<syncValues, communication_data, call, peer, posted, taken>>
      /\ UNCHANGED <<transfers, position>>
      /\ postbox' = [postbox EXCEPT ![p][q][at[p]] = communication_data[p][at[p]]]
  BY <1>2 DEF AnswerCell, history, program
<1>4. /\ pc'[p] \in {"answer", "await", "idle"}
      /\ \A r \in Cores \ {p} : pc'[r] = pc[r]
  <2>1. pc' = pc \/ \E label \in {"await", "idle"} : pc' = [pc EXCEPT ![p] = label]
    BY DEF AnswerCell, Goto
  <2> QED BY <1>1, <2>1 DEF TypeOK
<1>5. \A a, b \in Cores : a # p \/ b # q => postbox'[a][b] = postbox[a][b]
  <2>1. postbox \in [Cores -> [Cores -> Slot]]
    BY <1>1 DEF TypeOK
  <2> QED BY <1>1, <1>3, <2>1, OneCell
<1>6. ~Waiting(q, p)
  <2>1. ChannelInv(q, p) /\ known[q][p] \in Nat /\ taken[q][p] \in Nat /\ posted[q][p] \in Nat
    BY <1>1, <1>2 DEF IndInv, TypeOK
  <2>2. Answering(p, q)
    BY <1>1, <1>2 DEF Answering
  <2> QED BY <2>1, <2>2 DEF ChannelInv, Waiting
<1>7. \A j : (Past(p, j)' <=> Past(p, j)) /\ (Sent(p, j)' <=> Sent(p, j))
  BY <1>1, <1>3, <1>4, SamePlace
<1>8. LocalStep(p, q)
  BY <1>1, <1>3, <1>4, <1>5, <1>7 DEF LocalStep, ProgramTypeOK
<1>9. PlaceInv(p)'
  BY <1>4 DEF PlaceInv
<1>10. Awaited(p, q)' = Awaited(p, q)
  BY <1>3 DEF Awaited
<1> QED BY <1>2, <1>3, <1>5, <1>6, <1>7, <1>8, <1>9, <1>10, Quiet

LEMMA AwaitQuiet ==
  ASSUME ProgramInv, IndInv', NEW p \in Cores, UNCHANGED program,
         Await(p) \/ \E q \in Cores : WaitSent(p, q) \/ TestSent(p, q) \/ Probe(p, q)
  PROVE  ProgramInv'
<1>1. IndInv /\ TypeOK
  BY DEF ProgramInv, IndInv
<1>2. CASE Await(p)
  <2>1. PICK q \in Cores : q # p
    BY <1>2, AwaitInd, <1>1
  <2>2. pc[p] = "await" /\ pc' = [pc EXCEPT ![p] = "idle"]
    BY <1>2 DEF Await, Goto
  <2>3. UNCHANGED <<syncValues, postbox, communication_data, call, peer, posted, taken>>
    BY <1>2 DEF Await
  <2>4. pc'[p] = "idle" /\ \A r \in Cores \ {p} : pc'[r] = pc[r]
    BY <1>1, <2>2 DEF TypeOK
  <2> QED BY <2>1, <2>2, <2>3, <2>4, KnowQuiet
<1>3. ASSUME NEW q \in Cores, WaitSent(p, q)
      PROVE  ProgramInv'
  <2>1. /\ q # p /\ pc[p] = "idle" /\ pc' = [pc EXCEPT ![p] = "await"]
        /\ call' = [call EXCEPT ![p] = "wait_sent"] /\ peer' = [peer EXCEPT ![p] = q]
        /\ UNCHANGED <<syncValues, postbox, communication_data, posted, taken>>
    BY <1>3 DEF WaitSent, Ready, Goto, Enter, history
  <2>2. /\ pc'[p] = "await"
        /\ \A r \in Cores \ {p} : pc'[r] = pc[r] /\ peer'[r] = peer[r] /\ call'[r] = call[r]
    BY <1>1, <2>1 DEF TypeOK
  <2> QED BY <2>1, <2>2, KnowQuiet
<1>4. ASSUME NEW q \in Cores, TestSent(p, q) \/ Probe(p, q)
      PROVE  ProgramInv'
  <2>1. /\ q # p /\ pc[p] = "idle"
        /\ UNCHANGED <<syncValues, postbox, communication_data, pc, call, peer, posted, taken>>
    BY <1>4 DEF TestSent, Probe, Ready, localVars
  <2> QED BY <2>1, KnowQuiet
<1> QED BY <1>2, <1>3, <1>4

-------------------------------------------------------------------------------
(* p turns to its next transfer.  Those in between do not concern it.      *)
LEMMA NextPlace ==
  ASSUME ProgramTypeOK, ProgramTypeOK', NEW p \in Cores, transfers' = transfers,
         pc[p] = "idle", pc'[p] \in {"put", "take"},
         NEW i \in Remaining(p), \A j \in Remaining(p) : i <= j, position'[p] = i,
         pc'[p] = "take" => ~Sends(p, i),
         NEW j \in DOMAIN transfers, Concerns(p, j)
  PROVE  (Past(p, j)' <=> Past(p, j)) /\ (Sent(p, j)' <=> Sent(p, j))
<1>1. /\ i \in DOMAIN transfers /\ i > position[p] /\ position[p] \in Nat
      /\ i \in Nat /\ j \in Nat
  BY DEF Remaining, ProgramTypeOK
<1>2. j > position[p] => j >= i
  BY <1>1 DEF Remaining
<1>3. Past(p, j) <=> j < i
  BY <1>1, <1>2 DEF Past
<1>4. Past(p, j)' <=> j < i
  BY <1>1 DEF Past
<1>5. Sends(p, j)' <=> Sends(p, j)
  BY DEF Sends
<1>6. Sent(p, j) <=> Sends(p, j) /\ j < i
  BY <1>1, <1>2 DEF Sent
<1>7. Sent(p, j)' <=> Sends(p, j) /\ j < i
  BY <1>1, <1>5 DEF Sent
<1> QED BY <1>3, <1>4, <1>6, <1>7

LEMMA StartQuiet ==
  ASSUME ProgramInv, IndInv', NEW p \in Cores, StartNext(p)
  PROVE  ProgramInv'
<1>1. IndInv /\ TypeOK /\ ProgramTypeOK
  BY DEF ProgramInv, IndInv
<1>2. PICK i \in Remaining(p) :
        LET t == transfers[i]
            q == IF p = t.from THEN t.to ELSE t.from IN
        /\ \A j \in Remaining(p) : i <= j
        /\ CASE t.kind = "sendrecv" -> SendRecv(p, q)
             [] t.kind # "sendrecv" /\ p = t.from -> Send(p, q, t.kind)
             [] t.kind # "sendrecv" /\ p = t.to -> Recv(p, q)
        /\ position' = [position EXCEPT ![p] = i]
        /\ UNCHANGED transfers
  BY DEF StartNext
<1>3. i \in DOMAIN transfers /\ i \in 0..Len(transfers) /\ Concerns(p, i)
  BY <1>1 DEF Remaining, ProgramTypeOK
<1>4. PICK q \in Cores : /\ q = IF p = transfers[i].from THEN transfers[i].to
                                ELSE transfers[i].from
                         /\ q # p /\ Between(p, q, i)
  BY <1>1, <1>3, TransferFacts DEF Concerns, Between
<1>5. /\ transfers' = transfers /\ position' = [position EXCEPT ![p] = i]
      /\ \A j \in Remaining(p) : i <= j
  BY <1>2
<1>6. /\ position'[p] = i /\ \A r \in Cores \ {p} : position'[r] = position[r]
      /\ ProgramTypeOK'
  BY <1>1, <1>3, <1>5 DEF ProgramTypeOK
<1>7. \/ transfers[i].kind = "sendrecv" /\ SendRecv(p, q)
      \/ /\ transfers[i].kind \in {"send", "nonblocking_send"} /\ p = transfers[i].from
         /\ Send(p, q, transfers[i].kind)
      \/ transfers[i].kind # "sendrecv" /\ p = transfers[i].to /\ q = transfers[i].from
         /\ Recv(p, q)
  BY <1>1, <1>2, <1>3, <1>4, TransferFacts DEF Concerns, Kinds
<1>8. Ready(p, q) /\ pc[p] = "idle" /\ ~Odd(syncValues[p][q])
  BY <1>1, <1>4, <1>7, Idle DEF SendRecv, Send, Recv, Ready
<1>9. syncValues[p][q] \in 0..SyncMax /\ Odd(Inc(syncValues[p][q]))
  BY <1>1, <1>8, IncParity DEF TypeOK
<1>10. /\ UNCHANGED <<postbox, posted, taken>>
       /\ peer' = [peer EXCEPT ![p] = q]
       /\ \E c \in Calls : call' = [call EXCEPT ![p] = c]
                          /\ (c = "sendrecv" <=> transfers[i].kind = "sendrecv")
       /\ \/ /\ pc' = [pc EXCEPT ![p] = "put"] /\ Sends(p, i)
             /\ FillBuffer(p, q, Inc(syncValues[p][q]))
          \/ /\ pc' = [pc EXCEPT ![p] = "take"] /\ ~Sends(p, i) /\ Sends(q, i)
             /\ UNCHANGED communication_data
       /\ \/ UNCHANGED syncValues
          \/ syncValues' = Set(syncValues, p, q, Inc(syncValues[p][q]))
  <2>1. CASE transfers[i].kind = "sendrecv" /\ SendRecv(p, q)
    BY <2>1 DEF SendRecv, Goto, Enter, history, Sends, Calls
  <2>2. CASE /\ transfers[i].kind \in {"send", "nonblocking_send"} /\ p = transfers[i].from
             /\ Send(p, q, transfers[i].kind)
    BY <2>2 DEF Send, Goto, Enter, history, Sends, Calls
  <2>3. CASE transfers[i].kind # "sendrecv" /\ p = transfers[i].to /\ q = transfers[i].from
             /\ Recv(p, q)
    BY <1>4, <2>3 DEF Recv, Goto, Enter, history, Sends, Calls
  <2> QED BY <1>7, <2>1, <2>2, <2>3
<1>11. /\ \A r \in Cores \ {p} : /\ pc'[r] = pc[r] /\ peer'[r] = peer[r] /\ call'[r] = call[r]
                                 /\ communication_data'[r] = communication_data[r]
       /\ peer'[p] = q /\ pc'[p] \in {"put", "take"}
       /\ pc'[p] = "put" => /\ Sends(p, i)
                            /\ communication_data'[p][SEQ] = Inc(syncValues[p][q])
       /\ pc'[p] = "take" => ~Sends(p, i) /\ Sends(q, i)
       /\ call'[p] = "sendrecv" <=> transfers[i].kind = "sendrecv"
  <2>1. /\ pc \in [Cores -> {"idle", "put", "await", "take", "answer"}]
        /\ peer \in [Cores -> Cores] /\ call \in [Cores -> Calls]
        /\ communication_data \in [Cores -> Slot]
    BY <1>1 DEF TypeOK
  <2>2. ASSUME FillBuffer(p, q, Inc(syncValues[p][q]))
        PROVE  /\ communication_data'[p][SEQ] = Inc(syncValues[p][q])
               /\ \A r \in Cores \ {p} : communication_data'[r] = communication_data[r]
    BY <2>1, <2>2 DEF FillBuffer, SEQ
  <2> QED BY <1>10, <2>1, <2>2
<1>12. /\ \A a, b \in Cores : <<a, b>> # <<p, q>> => syncValues'[a][b] = syncValues[a][b]
       /\ Awaited(p, q) = Inc(syncValues[p][q]) /\ Awaited(p, q)' = Inc(syncValues[p][q])
  <2>1. \/ UNCHANGED syncValues
        \/ /\ syncValues'[p][q] = Inc(syncValues[p][q])
           /\ \A a, b \in Cores : <<a, b>> # <<p, q>> => syncValues'[a][b] = syncValues[a][b]
    <3>1. Inc(syncValues[p][q]) \in 0..SyncMax
      BY <1>9, IncParity
    <3>2. syncValues \in [Cores -> [Cores -> 0..SyncMax]]
      BY <1>1 DEF TypeOK
    <3>3. CASE syncValues' = Set(syncValues, p, q, Inc(syncValues[p][q]))
      BY <3>1, <3>2, <3>3 DEF Set
    <3> QED BY <1>10, <3>3
  <2> QED BY <1>8, <1>9, <2>1 DEF Awaited
<1>13. ASSUME NEW j \in DOMAIN transfers, Concerns(p, j)
       PROVE  (Past(p, j)' <=> Past(p, j)) /\ (Sent(p, j)' <=> Sent(p, j))
  BY <1>1, <1>5, <1>6, <1>8, <1>11, <1>13, NextPlace
<1>14. LocalStep(p, q)
  BY <1>5, <1>6, <1>10, <1>11, <1>12, <1>13 DEF LocalStep, ProgramTypeOK
<1>15. PlaceInv(p)'
  <2>1. Between(p, q, i)' /\ (Sends(p, i)' <=> Sends(p, i)) /\ (Sends(q, i)' <=> Sends(q, i))
    BY <1>4, <1>5 DEF Between, Sends
  <2> QED BY <1>3, <1>5, <1>6, <1>11, <1>12, <2>1 DEF PlaceInv
<1>16. \A j \in DOMAIN transfers : Between(p, q, j) => Concerns(p, j)
  BY DEF Between, Concerns
<1> QED BY <1>4, <1>10, <1>12, <1>13, <1>14, <1>15, <1>16, Quiet

-------------------------------------------------------------------------------
(* Who has sent his message of a transfer and not moved on is in the       *)
(* receive of a sendrecv.                                                  *)
LEMMA HalfWay ==
  ASSUME ProgramInv, NEW p \in Cores, NEW q \in Cores, p # q,
         NEW j \in DOMAIN transfers, Between(p, q, j), Sent(q, j), ~Past(q, j)
  PROVE  /\ pc[q] = "take" /\ position[q] = j /\ peer[q] = p
         /\ Sends(p, j)
<1>1. ProgramTypeOK /\ PlaceInv(q) /\ TypeOK
  BY DEF ProgramInv, IndInv
<1>2. j \in Nat /\ position[q] \in Nat
  BY <1>1, TransferFacts DEF ProgramTypeOK
<1>3. pc[q] = "take" /\ position[q] = j
  BY <1>2 DEF Sent, Past
<1>4. Between(q, peer[q], j) /\ Sends(peer[q], j)
  BY <1>1, <1>3 DEF PlaceInv
<1>5. peer[q] = p
  BY <1>1, <1>4, TransferFacts DEF Between
<1> QED BY <1>3, <1>4, <1>5

(* A core about to put its message is level with the one it is for.        *)
LEMMA PutPosition ==
  ASSUME ProgramInv, NEW p \in Cores, pc[p] = "put", NEW q \in Cores, q = peer[p]
  PROVE  /\ q # p /\ position[p] \in DOMAIN transfers /\ position[p] \in Nat
         /\ Between(p, q, position[p]) /\ Sends(p, position[p])
         /\ ~Waiting(p, q)
         /\ \A j \in DOMAIN transfers : Between(p, q, j) =>
              (Past(p, j) <=> j < position[p]) /\ (Past(q, j) <=> j < position[p])
         /\ Awaited(p, q) = Awaited(q, p)
         /\ communication_data[p][SEQ] = Awaited(p, q)
<1>1. /\ IndInv /\ TypeOK /\ ProgramTypeOK /\ PlaceInv(p)
      /\ q # p /\ PairInv(p, q) /\ PairInv(q, p)
  BY PutPlace DEF ProgramInv, IndInv
<1>2. PICK i \in DOMAIN transfers : i = position[p]
  BY <1>1 DEF PlaceInv
<1>3. /\ i \in Nat /\ Between(p, q, i) /\ Sends(p, i)
      /\ communication_data[p][SEQ] = Awaited(p, q)
  BY <1>1, <1>2, TransferFacts DEF PlaceInv
<1>4. ~Waiting(p, q)
  <2>1. taken[p][q] = posted[p][q] /\ posted[p][q] \in Nat
    BY <1>1, PutPlace DEF TypeOK
  <2> QED BY <2>1 DEF Waiting
<1>5. ASSUME NEW j \in DOMAIN transfers, Between(p, q, j), j < i
      PROVE  Past(q, j)
  <2>1. j \in Nat /\ Between(q, p, j) /\ (Sends(p, j) \/ Sends(q, j))
    BY <1>1, <1>5, TransferFacts, BetweenFacts
  <2>2. CASE Sends(p, j)
    <3>1. Sent(p, j)
      BY <1>2, <1>3, <1>5, <2>1, <2>2 DEF Sent
    <3> QED BY <1>1, <1>4, <1>5, <3>1 DEF PairInv
  <2>3. CASE ~Sends(p, j)
    <3>1. Past(p, j)
      BY <1>2, <1>5 DEF Past
    <3>2. Sent(q, j)
      BY <1>1, <2>1, <2>3, <3>1 DEF PairInv
    <3> QED BY <1>1, <1>5, <2>3, <3>2, HalfWay
  <2> QED BY <2>2, <2>3
<1>6. ~Past(q, i)
  <2>1. ~Sent(p, i)
    BY <1>2, <1>3 DEF Sent
  <2> QED BY <1>1, <1>3, <2>1 DEF PairInv
<1>7. ASSUME NEW j \in DOMAIN transfers, Between(p, q, j)
      PROVE  (Past(p, j) <=> j < i) /\ (Past(q, j) <=> j < i)
  <2>1. j \in Nat /\ position[q] \in Nat
    BY <1>1, TransferFacts DEF ProgramTypeOK
  <2>2. Past(p, j) <=> j < i
    BY <1>2 DEF Past
  <2>3. j >= i => ~Past(q, j)
    BY <1>3, <1>6, <2>1 DEF Past
  <2> QED BY <1>3, <1>5, <1>7, <2>1, <2>2, <2>3
<1>8. Level(p, q)
  BY <1>7 DEF Level
<1>9. Awaited(p, q) = Awaited(q, p)
  BY <1>1, <1>8 DEF PairInv
<1> QED BY <1>1, <1>2, <1>3, <1>4, <1>7, <1>9

(* What PutSeq changes.                                                    *)
LEMMA PutChanges ==
  ASSUME ProgramInv, NEW p \in Cores, PutSeq(p), NEW q \in Cores, q = peer[p],
         NEW i \in DOMAIN transfers, i = position[p], UNCHANGED program
  PROVE  /\ transfers' = transfers /\ position' = position
         /\ call[p] = "sendrecv" <=> transfers[i].kind = "sendrecv"
         /\ pc'[p] = IF call[p] = "sendrecv" THEN "take" ELSE pc'[p]
         /\ call[p] # "sendrecv" => pc'[p] \in {"await", "idle"}
         /\ \A r \in Cores \ {p} : pc'[r] = pc[r]
         /\ UNCHANGED <<call, peer, communication_data, taken>>
         /\ posted'[p][q] = posted[p][q] + 1
         /\ postbox'[q][p][SEQ] = communication_data[p][SEQ]
         /\ \A a, b \in Cores : a # q \/ b # p => postbox'[a][b] = postbox[a][b]
         /\ \A a, b \in Cores : <<a, b>> # <<p, q>> =>
              syncValues'[a][b] = syncValues[a][b] /\ posted'[a][b] = posted[a][b]
         /\ Awaited(p, q)' = IF call[p] = "sendrecv" THEN Awaited(p, q)
                             ELSE Inc(Inc(Awaited(p, q)))
         /\ \A j \in DOMAIN transfers :
              /\ Sent(p, j)' <=> Sends(p, j) /\ j <= i
              /\ Past(p, j)' <=> j < i \/ (j = i /\ call[p] # "sendrecv")
<1>1. /\ IndInv /\ TypeOK /\ ProgramTypeOK /\ PlaceInv(p) /\ pc[p] = "put"
      /\ q # p /\ ParityInv(p, q) /\ CoreInv(p) /\ i \in Nat
  BY PutPlace, TransferFacts DEF ProgramInv, IndInv, PutSeq
<1>2. /\ call[p] \in {"send", "nonblocking_send", "sendrecv"}
      /\ call[p] = "sendrecv" <=> transfers[i].kind = "sendrecv"
  BY <1>1 DEF CoreInv, PlaceInv
<1>3. /\ UNCHANGED <<call, peer, communication_data, taken, transfers, position>>
      /\ posted' = Set(posted, p, q, posted[p][q] + 1)
      /\ syncValues' = Set(syncValues, p, q, Inc(syncValues[p][q]))
      /\ postbox' = [postbox EXCEPT ![q][p][SEQ] = communication_data[p][SEQ]]
  BY DEF PutSeq, program
<1>4. \E label \in {"await", "idle", "take"} :
        pc' = [pc EXCEPT ![p] = label] /\ (label = "take" <=> call[p] = "sendrecv")
  BY <1>2 DEF PutSeq, Goto
<1>5. /\ pc'[p] \in {"await", "idle", "take"}
      /\ pc'[p] = "take" <=> call[p] = "sendrecv"
      /\ \A r \in Cores \ {p} : pc'[r] = pc[r]
  BY <1>1, <1>4 DEF TypeOK
<1>6. /\ posted'[p][q] = posted[p][q] + 1
      /\ \A a, b \in Cores : <<a, b>> # <<p, q>> => posted'[a][b] = posted[a][b]
  BY <1>1, <1>3 DEF TypeOK, Set
<1>7. /\ syncValues'[p][q] = Inc(syncValues[p][q])
      /\ \A a, b \in Cores : <<a, b>> # <<p, q>> => syncValues'[a][b] = syncValues[a][b]
  BY <1>1, <1>3 DEF TypeOK, Set
<1>8. /\ \A a, b \in Cores : a # q \/ b # p => postbox'[a][b] = postbox[a][b]
      /\ postbox'[q][p][SEQ] = communication_data[p][SEQ]
  <2>1. postbox \in [Cores -> [Cores -> Slot]] /\ SEQ \in 0..SEQ
    BY <1>1 DEF TypeOK, SEQ
  <2> QED BY <1>1, <1>3, <2>1 DEF Slot
<1>9. Awaited(p, q)' = IF call[p] = "sendrecv" THEN Awaited(p, q)
                       ELSE Inc(Inc(Awaited(p, q)))
  <2>1. syncValues[p][q] \in 0..SyncMax
    BY <1>1 DEF TypeOK
  <2>2. Odd(Inc(syncValues[p][q])) <=> ~Odd(syncValues[p][q])
    BY <2>1, IncParity
  <2>3. Odd(syncValues[p][q]) <=> call[p] # "sendrecv"
    BY <1>1 DEF ParityInv
  <2> QED BY <1>7, <2>2, <2>3 DEF Awaited
<1>10. ASSUME NEW j \in DOMAIN transfers
       PROVE  /\ Sent(p, j)' <=> Sends(p, j) /\ j <= i
              /\ Past(p, j)' <=> j < i \/ (j = i /\ call[p] # "sendrecv")
  <2>1. j \in Nat /\ (Sends(p, j)' <=> Sends(p, j))
    BY <1>1, <1>3, TransferFacts DEF Sends
  <2> QED BY <1>1, <1>3, <1>5, <2>1 DEF Sent, Past
<1> QED BY <1>2, <1>3, <1>5, <1>6, <1>7, <1>8, <1>9, <1>10

(* The message is in the slot: it is the one of transfer i, which the      *)
(* other core comes to next, and its number is the one that core will look *)
(* for.                                                                    *)
LEMMA PutSeqProgram ==
  ASSUME ProgramInv, IndInv', NEW p \in Cores, PutSeq(p), UNCHANGED program
  PROVE  ProgramInv'
<1>1. /\ IndInv /\ TypeOK /\ ProgramTypeOK /\ pc[p] = "put"
  BY DEF ProgramInv, IndInv, PutSeq
<1>2. PICK q \in Cores : q = peer[p]
  BY <1>1 DEF TypeOK
<1>3. /\ q # p /\ position[p] \in DOMAIN transfers /\ position[p] \in Nat
      /\ Between(p, q, position[p]) /\ Sends(p, position[p])
      /\ ~Waiting(p, q)
      /\ \A j \in DOMAIN transfers : Between(p, q, j) =>
           (Past(p, j) <=> j < position[p]) /\ (Past(q, j) <=> j < position[p])
      /\ Awaited(p, q) = Awaited(q, p)
      /\ communication_data[p][SEQ] = Awaited(p, q)
  BY <1>1, <1>2, PutPosition
<1>4. PICK i \in DOMAIN transfers : i = position[p]
  BY <1>3
<1>5. /\ transfers' = transfers /\ position' = position
      /\ call[p] = "sendrecv" <=> transfers[i].kind = "sendrecv"
      /\ call[p] = "sendrecv" => pc'[p] = "take"
      /\ call[p] # "sendrecv" => pc'[p] \in {"await", "idle"}
      /\ \A r \in Cores \ {p} : pc'[r] = pc[r]
      /\ UNCHANGED <<call, peer, communication_data, taken>>
      /\ posted'[p][q] = posted[p][q] + 1
      /\ postbox'[q][p][SEQ] = communication_data[p][SEQ]
      /\ \A a, b \in Cores : a # q \/ b # p => postbox'[a][b] = postbox[a][b]
      /\ \A a, b \in Cores : <<a, b>> # <<p, q>> =>
           syncValues'[a][b] = syncValues[a][b] /\ posted'[a][b] = posted[a][b]
      /\ Awaited(p, q)' = IF call[p] = "sendrecv" THEN Awaited(p, q)
                          ELSE Inc(Inc(Awaited(p, q)))
      /\ \A j \in DOMAIN transfers :
           /\ Sent(p, j)' <=> Sends(p, j) /\ j <= i
           /\ Past(p, j)' <=> j < i \/ (j = i /\ call[p] # "sendrecv")
  BY <1>2, <1>4, PutChanges
<1>6. PairInv(p, q) /\ PairInv(q, p)
  BY <1>3 DEF ProgramInv
<1>7. ASSUME NEW j \in DOMAIN transfers
      PROVE  /\ j \in Nat /\ (Sends(p, j)' <=> Sends(p, j)) /\ (Sends(q, j)' <=> Sends(q, j))
             /\ (Between(p, q, j)' <=> Between(p, q, j))
             /\ (Between(q, p, j)' <=> Between(p, q, j))
             /\ (Between(q, p, j) <=> Between(p, q, j))
             /\ Sent(p, j) <=> Sends(p, j) /\ j < i
  BY <1>1, <1>4, <1>5, TransferFacts DEF Sends, Between, Sent
<1>8. LocalStep(p, q)
  <2>1. ASSUME NEW j \in DOMAIN transfers, ~Between(p, q, j)
        PROVE  (Past(p, j)' <=> Past(p, j)) /\ (Sent(p, j)' <=> Sent(p, j))
    <3>1. j # i /\ j \in Nat /\ i \in Nat
      BY <1>3, <1>4, <1>7, <2>1
    <3>2. Past(p, j) <=> j < i
      BY <1>1, <1>4 DEF Past
    <3> QED BY <1>5, <1>7, <3>1, <3>2
  <2> QED BY <1>1, <1>5, <2>1 DEF LocalStep, ProgramTypeOK
<1>9. /\ \A j : (Past(q, j)' <=> Past(q, j)) /\ (Sent(q, j)' <=> Sent(q, j))
      /\ Awaited(q, p)' = Awaited(q, p)
  BY <1>3, <1>5, <1>8, Still DEF Awaited
<1>10. PlaceInv(p)'
  <2>1. CASE call[p] # "sendrecv"
    BY <1>5, <2>1 DEF PlaceInv
  <2>2. CASE call[p] = "sendrecv"
    <3>1. Sends(q, i)'
      BY <1>5, <2>2 DEF Sends
    <3> QED BY <1>2, <1>3, <1>4, <1>5, <1>7, <2>2, <3>1 DEF PlaceInv
  <2> QED BY <2>1, <2>2
<1>11. PairInv(p, q)'
  <2>1. Waiting(p, q)'
    <3>1. posted[p][q] = taken[p][q]
      BY <1>1, <1>2, PutPlace
    <3> QED BY <1>5, <3>1 DEF Waiting
  <2>2. FirstFor(p, q, i)'
    BY <1>3, <1>4, <1>5, <1>7, <1>9 DEF FirstFor
  <2>3. postbox'[q][p][SEQ] = Awaited(q, p)'
    BY <1>3, <1>5, <1>9
  <2>4. ASSUME NEW j \in DOMAIN transfers, Between(p, q, j)
        PROVE  /\ Sends(p, j)' /\ Past(q, j)' => Sent(p, j)'
               /\ Past(p, j)' /\ ~Past(q, j)' => Awaited(p, q)' = Inc(Inc(Awaited(q, p)'))
    BY <1>3, <1>4, <1>5, <1>7, <1>9, <2>4
  <2>5. Level(p, q)' => Awaited(p, q)' = Awaited(q, p)'
    <3>1. CASE call[p] = "sendrecv"
      BY <1>3, <1>5, <1>9, <3>1
    <3>2. CASE call[p] # "sendrecv"
      <4>1. Past(p, i)' /\ ~Past(q, i)' /\ Between(p, q, i)'
        BY <1>3, <1>4, <1>5, <1>7, <1>9, <3>2
      <4> QED BY <1>5, <4>1 DEF Level
    <3> QED BY <3>1, <3>2
  <2> QED BY <1>5, <1>7, <2>1, <2>2, <2>3, <2>4, <2>5 DEF PairInv, Inc
<1>12. PairInv(q, p)'
  <2>1. /\ Waiting(q, p)' <=> Waiting(q, p)
        /\ postbox'[p][q] = postbox[p][q]
    BY <1>3, <1>5 DEF Waiting
  <2>2. CASE call[p] = "sendrecv"
    <3>1. \A j \in DOMAIN transfers : Between(q, p, j) => (Past(p, j)' <=> Past(p, j))
      BY <1>3, <1>4, <1>5, <1>7, <2>2
    <3> QED BY <1>5, <1>6, <1>9, <2>1, <2>2, <3>1, PairFrame
  <2>3. CASE call[p] # "sendrecv"
    <3>1. ~Sends(q, i)
      BY <1>1, <1>3, <1>4, <1>5, <2>3, BetweenFacts
    <3>2. ~Waiting(q, p)
      <4>1. SUFFICES ASSUME NEW j \in DOMAIN transfers, FirstFor(q, p, j)
                     PROVE  FALSE
        BY <1>6 DEF PairInv
      <4>2. Between(p, q, j) /\ Sent(q, j) /\ Sends(q, j) /\ ~(j < i)
        BY <1>3, <1>4, <1>7, <4>1 DEF FirstFor, Sent
      <4>3. ~Past(q, j)
        BY <1>3, <1>4, <4>2
      <4>4. position[q] = j /\ pc[q] = "take"
        BY <1>3, <4>2, <4>3, HalfWay
      <4>5. position[q] <= i
        <5>1. ~Past(q, i)
          BY <1>3, <1>4
        <5>2. position[q] \in Nat /\ i \in Nat
          BY <1>7, <4>4
        <5> QED BY <4>4, <5>1, <5>2 DEF Past
      <4> QED BY <1>7, <3>1, <4>2, <4>4, <4>5
    <3>3. ASSUME NEW j \in DOMAIN transfers, Between(q, p, j)
          PROVE  /\ Sent(q, j)' /\ ~Past(p, j)' => Waiting(q, p)'
                 /\ Sends(q, j)' /\ Past(p, j)' => Sent(q, j)'
                 /\ ~(Past(q, j)' /\ ~Past(p, j)')
      BY <1>3, <1>4, <1>5, <1>6, <1>7, <1>9, <2>1, <2>3, <3>1, <3>3 DEF PairInv
    <3>4. ~Level(q, p)'
      <4>1. Past(p, i)' /\ ~Past(q, i)' /\ Between(q, p, i)'
        BY <1>3, <1>4, <1>5, <1>7, <1>9, <2>3
      <4> QED BY <1>5, <4>1 DEF Level
    <3> QED BY <1>5, <1>7, <2>1, <3>2, <3>3, <3>4 DEF PairInv
  <2> QED BY <2>2, <2>3
<1> QED BY <1>3, <1>8, <1>10, <1>11, <1>12, ProgramTogether

-------------------------------------------------------------------------------
(* What TakeSeq changes.                                                   *)
LEMMA TakeChanges ==
  ASSUME ProgramInv, NEW p \in Cores, TakeSeq(p), NEW q \in Cores, q = peer[p],
         NEW i \in DOMAIN transfers, i = position[p], UNCHANGED program
  PROVE  /\ transfers' = transfers /\ position' = position
         /\ pc'[p] = "answer" /\ \A r \in Cores \ {p} : pc'[r] = pc[r]
         /\ UNCHANGED <<call, peer, postbox, posted>>
         /\ \A r \in Cores \ {p} : communication_data'[r] = communication_data[r]
         /\ taken'[q][p] = taken[q][p] + 1
         /\ \A a, b \in Cores : <<a, b>> # <<q, p>> => taken'[a][b] = taken[a][b]
         /\ \A a, b \in Cores : <<a, b>> # <<p, q>> => syncValues'[a][b] = syncValues[a][b]
         /\ Awaited(p, q)' = Inc(Inc(Awaited(p, q)))
         /\ \A j \in DOMAIN transfers :
              /\ Sent(p, j)' <=> Sent(p, j)
              /\ Sent(p, j) <=> Sends(p, j) /\ j <= i
              /\ Past(p, j) <=> j < i
              /\ Past(p, j)' <=> j <= i
<1>1. /\ IndInv /\ TypeOK /\ ProgramTypeOK /\ pc[p] = "take"
      /\ q # p /\ Odd(syncValues[p][q]) /\ i \in Nat
  BY TakePlace, TransferFacts DEF ProgramInv, IndInv, TakeSeq
<1>2. /\ UNCHANGED <<call, peer, postbox, posted, transfers, position>>
      /\ pc' = [pc EXCEPT ![p] = "answer"]
      /\ communication_data' = [communication_data EXCEPT ![p][SEQ] = Inc(syncValues[p][q])]
      /\ taken' = Set(taken, q, p, taken[q][p] + 1)
      /\ syncValues' = Set(syncValues, p, q, Inc(syncValues[p][q]))
  BY DEF TakeSeq, Goto, program
<1>3. /\ pc'[p] = "answer" /\ \A r \in Cores \ {p} : pc'[r] = pc[r]
      /\ \A r \in Cores \ {p} : communication_data'[r] = communication_data[r]
  BY <1>1, <1>2 DEF TypeOK
<1>4. /\ taken'[q][p] = taken[q][p] + 1
      /\ \A a, b \in Cores : <<a, b>> # <<q, p>> => taken'[a][b] = taken[a][b]
  BY <1>1, <1>2 DEF TypeOK, Set
<1>5. /\ syncValues'[p][q] = Inc(syncValues[p][q])
      /\ \A a, b \in Cores : <<a, b>> # <<p, q>> => syncValues'[a][b] = syncValues[a][b]
  BY <1>1, <1>2 DEF TypeOK, Set
<1>6. Awaited(p, q)' = Inc(Inc(Awaited(p, q)))
  <2>1. syncValues[p][q] \in 0..SyncMax
    BY <1>1 DEF TypeOK
  <2>2. ~Odd(Inc(syncValues[p][q]))
    BY <1>1, <2>1, IncParity
  <2> QED BY <1>1, <1>5, <2>2 DEF Awaited
<1>7. ASSUME NEW j \in DOMAIN transfers
      PROVE  /\ Sent(p, j)' <=> Sent(p, j)
             /\ Sent(p, j) <=> Sends(p, j) /\ j <= i
             /\ Past(p, j) <=> j < i
             /\ Past(p, j)' <=> j <= i
  <2>1. j \in Nat /\ (Sends(p, j)' <=> Sends(p, j))
    BY <1>1, <1>2, TransferFacts DEF Sends
  <2> QED BY <1>1, <1>2, <1>3, <2>1 DEF Sent, Past
<1> QED BY <1>2, <1>3, <1>4, <1>5, <1>6, <1>7

(* The message that p finds is that of the transfer it is in.              *)
LEMMA TakePosition ==
  ASSUME ProgramInv, NEW p \in Cores, pc[p] = "take", NEW q \in Cores, q = peer[p],
         Matches(postbox[p][q][SEQ], syncValues[p][q])
  PROVE  /\ q # p /\ position[p] \in DOMAIN transfers /\ position[p] \in Nat
         /\ Waiting(q, p) /\ FirstFor(q, p, position[p])
<1>1. /\ IndInv /\ TypeOK /\ ProgramTypeOK /\ PlaceInv(p)
      /\ q # p /\ PairInv(q, p) /\ ChannelInv(q, p) /\ Odd(syncValues[p][q])
      /\ ~Answering(p, q)
  BY TakePlace DEF ProgramInv, IndInv
<1>2. PICK i \in DOMAIN transfers : i = position[p]
  BY <1>1 DEF PlaceInv
<1>3. i \in Nat /\ Between(p, q, i)
  BY <1>1, <1>2, TransferFacts DEF PlaceInv
<1>4. Waiting(q, p)
  <2>1. posted[q][p] \in Nat /\ taken[q][p] \in Nat /\ known[q][p] \in Nat
    BY <1>1 DEF TypeOK
  <2>2. Odd(postbox[p][q][SEQ])
    BY <1>1 DEF Matches
  <2> QED BY <1>1, <2>1, <2>2 DEF ChannelInv, Waiting
<1>5. PICK j \in DOMAIN transfers : FirstFor(q, p, j)
  BY <1>1, <1>4 DEF PairInv
<1>6. j \in Nat /\ ~Past(p, i) /\ Between(q, p, i)
  BY <1>1, <1>2, <1>3, TransferFacts DEF Past, Between
<1>7. ~(j < i)
  BY <1>2, <1>5 DEF FirstFor, Past
<1>8. ~(i < j)
  BY <1>5, <1>6 DEF FirstFor
<1>9. i = j
  BY <1>3, <1>6, <1>7, <1>8
<1> QED BY <1>1, <1>2, <1>3, <1>4, <1>5, <1>9

(* The message is taken; p is behind transfer i now.                       *)
LEMMA TakeSeqProgram ==
  ASSUME ProgramInv, IndInv', NEW p \in Cores, TakeSeq(p), UNCHANGED program
  PROVE  ProgramInv'
<1>1. /\ IndInv /\ TypeOK /\ ProgramTypeOK /\ pc[p] = "take"
  BY DEF ProgramInv, IndInv, TakeSeq
<1>2. PICK q \in Cores : q = peer[p]
  BY <1>1 DEF TypeOK
<1>3. /\ q # p /\ position[p] \in DOMAIN transfers /\ position[p] \in Nat
      /\ Waiting(q, p) /\ FirstFor(q, p, position[p])
  BY <1>1, <1>2, TakePosition DEF TakeSeq
<1>4. PICK i \in DOMAIN transfers : i = position[p]
  BY <1>3
<1>5. /\ transfers' = transfers /\ position' = position
      /\ pc'[p] = "answer" /\ \A r \in Cores \ {p} : pc'[r] = pc[r]
      /\ UNCHANGED <<call, peer, postbox, posted>>
      /\ \A r \in Cores \ {p} : communication_data'[r] = communication_data[r]
      /\ taken'[q][p] = taken[q][p] + 1
      /\ \A a, b \in Cores : <<a, b>> # <<q, p>> => taken'[a][b] = taken[a][b]
      /\ \A a, b \in Cores : <<a, b>> # <<p, q>> => syncValues'[a][b] = syncValues[a][b]
      /\ Awaited(p, q)' = Inc(Inc(Awaited(p, q)))
      /\ \A j \in DOMAIN transfers :
           /\ Sent(p, j)' <=> Sent(p, j)
           /\ Sent(p, j) <=> Sends(p, j) /\ j <= i
           /\ Past(p, j) <=> j < i
           /\ Past(p, j)' <=> j <= i
  BY <1>2, <1>4, TakeChanges
<1>6. PairInv(p, q) /\ PairInv(q, p)
  BY <1>3 DEF ProgramInv
<1>7. ASSUME NEW j \in DOMAIN transfers
      PROVE  /\ j \in Nat /\ (Sends(p, j)' <=> Sends(p, j)) /\ (Sends(q, j)' <=> Sends(q, j))
             /\ (Between(p, q, j)' <=> Between(p, q, j))
             /\ (Between(q, p, j)' <=> Between(p, q, j))
             /\ (Between(q, p, j) <=> Between(p, q, j))
  BY <1>1, <1>5, TransferFacts DEF Sends, Between
<1>8. /\ i \in Nat /\ Between(p, q, i) /\ Sent(q, i) /\ Sends(q, i)
      /\ \A j \in DOMAIN transfers : Between(p, q, j) /\ j > i => ~Sent(q, j)
  BY <1>3, <1>4, <1>7 DEF FirstFor, Sent
<1>9. LocalStep(p, q)
  <2>1. ASSUME NEW j \in DOMAIN transfers, ~Between(p, q, j)
        PROVE  (Past(p, j)' <=> Past(p, j)) /\ (Sent(p, j)' <=> Sent(p, j))
    BY <1>5, <1>7, <1>8, <2>1
  <2> QED BY <1>1, <1>5, <2>1 DEF LocalStep, ProgramTypeOK
<1>10. /\ \A j : (Past(q, j)' <=> Past(q, j)) /\ (Sent(q, j)' <=> Sent(q, j))
       /\ Awaited(q, p)' = Awaited(q, p)
  BY <1>3, <1>5, <1>9, Still DEF Awaited
<1>11. PlaceInv(p)'
  BY <1>5 DEF PlaceInv
<1>12. ~Waiting(q, p)' /\ (Waiting(p, q)' <=> Waiting(p, q))
  <2>1. posted[q][p] \in Nat /\ taken[q][p] \in Nat
    BY <1>1, <1>2 DEF TypeOK
  <2> QED BY <1>3, <1>5, <2>1 DEF Waiting
(* q is not behind a transfer that p has not come to.                      *)
<1>13. \A j \in DOMAIN transfers : Between(p, q, j) /\ j > i => ~Past(q, j)
  <2> SUFFICES ASSUME NEW j \in DOMAIN transfers, Between(p, q, j), j > i, Past(q, j)
               PROVE  FALSE
    OBVIOUS
  <2>1. ~Sends(q, j)
    <3>1. ~Sent(q, j) /\ position[q] \in Nat /\ j \in Nat
      BY <1>1, <1>7, <1>8 DEF ProgramTypeOK
    <3> QED BY <3>1 DEF Past, Sent
  <2>2. Sends(p, j)
    BY <1>1, <1>3, <2>1, BetweenFacts
  <2>3. Sent(p, j)
    BY <1>6, <2>2 DEF PairInv
  <2> QED BY <1>5, <1>7, <1>8, <2>3
(* q has sent what it sends up to i, and nothing later.                    *)
<1>14. ASSUME NEW j \in DOMAIN transfers, Between(p, q, j)
       PROVE  Sent(q, j) <=> Sends(q, j) /\ j <= i
  <2>1. CASE j < i
    BY <1>5, <1>6, <1>7, <1>14, <2>1 DEF PairInv, Sent
  <2>2. CASE j >= i
    <3>1. j = i \/ j > i
      BY <1>7, <1>8, <2>2
    <3> QED BY <1>7, <1>8, <1>14, <3>1
  <2> QED BY <1>7, <1>8, <2>1, <2>2
(* Both are behind i, or p alone is.                                       *)
<1>15. CASE Past(q, i)
  <2>1. \A j \in DOMAIN transfers : Between(p, q, j) => (Past(q, j) <=> j <= i)
    <3>1. \A j \in DOMAIN transfers : j <= i => Past(q, j)
      <4>1. position[q] \in Nat
        BY <1>1 DEF ProgramTypeOK
      <4> QED BY <1>7, <1>8, <1>15, <4>1 DEF Past
    <3> QED BY <1>7, <1>8, <1>13, <3>1
  <2>2. Awaited(q, p) = Inc(Inc(Awaited(p, q)))
    <3>1. ~Past(p, i) /\ Between(q, p, i)
      BY <1>5, <1>7, <1>8
    <3> QED BY <1>6, <1>15, <3>1 DEF PairInv
  <2>3. Awaited(p, q)' = Awaited(q, p)'
    BY <1>5, <1>10, <2>2
  <2>4. PairInv(q, p)'
    <3>1. ASSUME NEW j \in DOMAIN transfers, Between(q, p, j)
          PROVE  /\ ~(Sent(q, j)' /\ ~Past(p, j)')
                 /\ Sends(q, j)' /\ Past(p, j)' => Sent(q, j)'
                 /\ ~(Past(q, j)' /\ ~Past(p, j)')
      <4>1. /\ j \in Nat /\ Between(p, q, j) /\ (Past(p, j)' <=> j <= i)
            /\ (Past(q, j)' <=> j <= i) /\ (Sent(q, j)' <=> Sent(q, j))
            /\ (Sends(q, j)' <=> Sends(q, j))
        BY <1>5, <1>7, <1>10, <2>1, <3>1
      <4> QED BY <1>8, <1>14, <4>1
    <3> QED BY <1>5, <1>7, <1>12, <2>3, <3>1 DEF PairInv
  <2>5. PairInv(p, q)'
    <3>1. ~Waiting(p, q)
      <4>1. SUFFICES ASSUME NEW j \in DOMAIN transfers, FirstFor(p, q, j)
                     PROVE  FALSE
        BY <1>6 DEF PairInv
      <4> QED BY <1>5, <2>1, <4>1 DEF FirstFor
    <3>2. ASSUME NEW j \in DOMAIN transfers, Between(p, q, j)
          PROVE  /\ Sent(p, j)' /\ ~Past(q, j)' => Waiting(p, q)'
                 /\ Sends(p, j)' /\ Past(q, j)' => Sent(p, j)'
                 /\ ~(Past(p, j)' /\ ~Past(q, j)')
      BY <1>5, <1>6, <1>7, <1>10, <1>12, <2>1, <3>2 DEF PairInv
    <3> QED BY <1>5, <1>7, <1>12, <2>3, <3>1, <3>2 DEF PairInv
  <2> QED BY <1>3, <1>9, <1>11, <2>4, <2>5, ProgramTogether
<1>16. CASE ~Past(q, i)
  <2>1. /\ Sends(p, i) /\ pc[q] = "take" /\ position[q] = i
    BY <1>3, <1>8, <1>16, HalfWay
  <2>2. \A j \in DOMAIN transfers : Past(q, j) <=> j < i
    BY <2>1 DEF Past
  <2>3. Awaited(p, q) = Awaited(q, p)
    <3>1. Level(p, q)
      BY <1>5, <2>2 DEF Level
    <3> QED BY <1>6, <3>1 DEF PairInv
  <2>4. ~Level(p, q)' /\ ~Level(q, p)'
    <3>1. Past(p, i)' /\ ~Past(q, i)' /\ Between(p, q, i)' /\ Between(q, p, i)'
      BY <1>5, <1>7, <1>8, <1>10, <1>16
    <3> QED BY <1>5, <3>1 DEF Level
  <2>5. PairInv(q, p)'
    <3>1. ASSUME NEW j \in DOMAIN transfers, Between(q, p, j)
          PROVE  /\ ~(Sent(q, j)' /\ ~Past(p, j)')
                 /\ Sends(q, j)' /\ Past(p, j)' => Sent(q, j)'
                 /\ ~(Past(q, j)' /\ ~Past(p, j)')
      <4>1. /\ j \in Nat /\ Between(p, q, j) /\ (Past(p, j)' <=> j <= i)
            /\ (Past(q, j)' <=> j < i) /\ (Sent(q, j)' <=> Sent(q, j))
            /\ (Sends(q, j)' <=> Sends(q, j))
        BY <1>5, <1>7, <1>10, <2>2, <3>1
      <4> QED BY <1>8, <1>14, <4>1
    <3> QED BY <1>5, <1>7, <1>12, <2>4, <3>1 DEF PairInv
  <2>6. PairInv(p, q)'
    <3>1. Waiting(p, q)
      <4>1. Sent(p, i)
        BY <1>5, <1>8, <2>1
      <4> QED BY <1>6, <1>8, <1>16, <4>1 DEF PairInv
    <3>2. PICK j \in DOMAIN transfers : FirstFor(p, q, j)
      BY <1>6, <3>1 DEF PairInv
    <3>3. FirstFor(p, q, j)'
      BY <1>5, <1>7, <1>10, <3>2 DEF FirstFor
    <3>4. postbox'[q][p][SEQ] = Awaited(q, p)'
      BY <1>5, <1>6, <1>10, <3>1 DEF PairInv
    <3>5. ASSUME NEW k \in DOMAIN transfers, Between(p, q, k)
          PROVE  /\ Sends(p, k)' /\ Past(q, k)' => Sent(p, k)'
                 /\ Awaited(p, q)' = Inc(Inc(Awaited(q, p)'))
      BY <1>5, <1>6, <1>7, <1>10, <2>3, <3>5 DEF PairInv
    <3> QED BY <1>5, <1>7, <1>12, <2>4, <3>1, <3>3, <3>4, <3>5 DEF PairInv, Inc
  <2> QED BY <1>3, <1>9, <1>11, <2>5, <2>6, ProgramTogether
<1> QED BY <1>15, <1>16

-------------------------------------------------------------------------------
(* Before the first call nothing is sent, and both count from 0.           *)
LEMMA ProgramInitInd ==
  ASSUME ProgramInit, EvenStart
  PROVE  ProgramInv
<1>1. /\ IndInv /\ transfers \in Seq(Transfers)
      /\ position = [p \in Cores |-> 0]
  BY InitInd, ProgramsAssumption DEF ProgramInit
<1>2. ProgramTypeOK
  BY <1>1 DEF ProgramTypeOK
<1>3. ASSUME NEW p \in Cores
      PROVE  /\ PlaceInv(p)
             /\ \A j \in DOMAIN transfers : ~Past(p, j) /\ ~Sent(p, j)
  <2>1. pc[p] = "idle" /\ position[p] = 0
    BY <1>1 DEF ProgramInit, Init
  <2>2. ASSUME NEW j \in DOMAIN transfers
        PROVE  ~Past(p, j) /\ ~Sent(p, j)
    BY <1>2, <2>1, TransferFacts DEF Past, Sent
  <2> QED BY <2>1, <2>2 DEF PlaceInv
<1>4. ASSUME NEW p \in Cores, NEW q \in Cores, p # q
      PROVE  PairInv(p, q)
  <2>1. /\ posted[p][q] = 0 /\ taken[p][q] = 0
        /\ syncValues[p][q] = 0 /\ syncValues[q][p] = 0
    BY DEF ProgramInit, Init, Pair
  <2> QED BY <1>3, <2>1 DEF PairInv, Waiting, Awaited
<1> QED BY <1>1, <1>2, <1>3, <1>4 DEF ProgramInv

(* A program makes no step that Postbox does not allow.                    *)
LEMMA StartCalls ==
  ASSUME ProgramTypeOK, NEW p \in Cores, StartNext(p)
  PROVE  \E q \in Cores : Call(p, q)
<1>1. PICK i \in Remaining(p) :
        LET t == transfers[i]
            q == IF p = t.from THEN t.to ELSE t.from IN
        CASE t.kind = "sendrecv" -> SendRecv(p, q)
          [] t.kind # "sendrecv" /\ p = t.from -> Send(p, q, t.kind)
          [] t.kind # "sendrecv" /\ p = t.to -> Recv(p, q)
  BY DEF StartNext
<1>2. i \in DOMAIN transfers /\ Concerns(p, i)
  BY DEF Remaining
<1>3. PICK q \in Cores : q = IF p = transfers[i].from THEN transfers[i].to
                             ELSE transfers[i].from
  BY <1>2, TransferFacts
<1>4. CASE transfers[i].kind = "sendrecv"
  BY <1>1, <1>3, <1>4 DEF Call
<1>5. CASE transfers[i].kind # "sendrecv" /\ p = transfers[i].from
  <2>1. Send(p, q, transfers[i].kind)
    <3>1. p # transfers[i].to
      BY <1>2, <1>5, TransferFacts
    <3> QED BY <1>1, <1>3, <1>5, <3>1
  <2>2. transfers[i].kind \in {"send", "nonblocking_send"}
    BY <1>2, <1>5, TransferFacts DEF Kinds
  <2> QED BY <2>1, <2>2 DEF Call
<1>6. CASE transfers[i].kind # "sendrecv" /\ p # transfers[i].from
  <2>1. p = transfers[i].to
    BY <1>2, <1>6 DEF Concerns
  <2> QED BY <1>1, <1>3, <1>6, <2>1 DEF Call
<1> QED BY <1>4, <1>5, <1>6

LEMMA ProgramSteps ==
  ASSUME ProgramTypeOK, [ProgramNext]_allVars
  PROVE  [Next]_vars
<1>1. ASSUME NEW p \in Cores, ProgramStep(p) \/ StartNext(p) \/ Settle(p) \/ ProbeNext(p)
      PROVE  Next
  <2>1. CASE ProgramStep(p)
    BY <2>1 DEF ProgramStep, Next
  <2>2. CASE StartNext(p)
    BY <2>2, StartCalls DEF Next
  <2>3. CASE Settle(p) \/ ProbeNext(p)
    BY <2>3 DEF Settle, ProbeNext, Call, Next
  <2> QED BY <1>1, <2>1, <2>2, <2>3
<1>2. CASE UNCHANGED allVars
  BY <1>2 DEF allVars
<1> QED BY <1>1, <1>2 DEF ProgramNext, Finished

LEMMA ProgramStepInd ==
  ASSUME ProgramInv, WaitsFirst, [ProgramNext]_allVars
  PROVE  ProgramInv'
<1>1. ProgramTypeOK /\ IndInv
  BY DEF ProgramInv
<1>2. IndInv'
  BY <1>1, ProgramSteps, StepInd
<1>3. ASSUME NEW p \in Cores, Step(p), UNCHANGED program
      PROVE  ProgramInv'
  BY <1>2, <1>3, PutCellQuiet, TakeQuiet, AnswerQuiet, AwaitQuiet, PutSeqProgram,
    TakeSeqProgram DEF Step
<1>4. ASSUME NEW p \in Cores, ProgramStep(p) \/ StartNext(p) \/ Settle(p) \/ ProbeNext(p)
      PROVE  ProgramInv'
  <2>1. CASE ProgramStep(p)
    BY <1>3, <2>1 DEF ProgramStep
  <2>2. CASE StartNext(p)
    BY <1>2, <2>2, StartQuiet
  <2>3. CASE Settle(p) \/ ProbeNext(p)
    BY <1>2, <2>3, AwaitQuiet DEF Settle, ProbeNext
  <2> QED BY <1>4, <2>1, <2>2, <2>3
<1>5. CASE UNCHANGED allVars
  <2>1. UNCHANGED <<pc, call, peer, communication_data, syncValues, posted, taken, postbox,
                    transfers, position>>
    BY <1>5 DEF allVars, vars, localVars, history, program
  <2>2. ASSUME NEW p \in Cores
        PROVE  PlaceInv(p)'
    BY <2>1 DEF ProgramInv, PlaceInv, Between, Sends, Awaited
  <2>3. ASSUME NEW p \in Cores, NEW q \in Cores, p # q
        PROVE  PairInv(p, q)'
    <3>1. PairInv(p, q)
      BY <2>3 DEF ProgramInv
    <3>2. /\ \A j : /\ Past(p, j)' <=> Past(p, j)
                    /\ Sent(p, j)' <=> Sent(p, j)
                    /\ Past(q, j)' <=> Past(q, j)
          /\ Waiting(p, q)' <=> Waiting(p, q)
          /\ Awaited(p, q)' = Awaited(p, q) /\ Awaited(q, p)' = Awaited(q, p)
      BY <2>1 DEF Past, Sent, Sends, Waiting, Awaited
    <3> QED BY <2>1, <3>1, <3>2, PairFrame
  <2> QED BY <1>1, <1>2, <2>1, <2>2, <2>3 DEF ProgramInv, ProgramTypeOK
<1> QED BY <1>4, <1>5 DEF ProgramNext, Finished

(* The invariant of matched programs, for all lists of transfers.          *)
THEOREM ProgramInvariance ==
  ASSUME WaitsFirst, EvenStart
  PROVE  ProgramSpec => []ProgramInv
<1>1. ProgramInit => ProgramInv
  BY ProgramInitInd
<1>2. ProgramInv /\ [ProgramNext]_allVars => ProgramInv'
  BY ProgramStepInd
<1> QED BY <1>1, <1>2, PTL DEF ProgramSpec

(* A probe misses no message: one that was posted and not yet taken        *)
(* carries the number that a probe looks for, after however many transfers *)
(* and wraps of the sequence byte (device-functions.c:690-692).            *)
THEOREM ProbesMissNothing ==
  ASSUME WaitsFirst, EvenStart
  PROVE  ProgramSpec => []ProbeMissesNothing
<1>1. ASSUME ProgramInv, NEW p \in Cores, NEW q \in Cores, Ready(q, p), Settled(q, p),
             ~Finds(q, p)
      PROVE  ~(taken[p][q] < posted[p][q])
  <2>1. /\ IndInv /\ TypeOK /\ q # p /\ ~Odd(syncValues[q][p]) /\ ChannelInv(p, q)
        /\ PairInv(p, q)
    BY <1>1, Idle DEF ProgramInv, IndInv
  <2>2. postbox[q][p][SEQ] # Inc(syncValues[q][p])
    BY <1>1 DEF Finds, Matches
  <2>3. ~Waiting(p, q)
    BY <2>1, <2>2 DEF PairInv, Awaited
  <2>4. posted[p][q] \in Nat /\ taken[p][q] \in Nat /\ known[p][q] \in Nat
    BY <2>1 DEF TypeOK
  <2> QED BY <2>1, <2>3, <2>4 DEF ChannelInv, Waiting
<1>2. ProgramInv => ProbeMissesNothing
  BY <1>1 DEF ProbeMissesNothing
<1> QED BY <1>2, ProgramInvariance, PTL

(* A receive takes the message of the transfer its program is at: the one  *)
(* its peer sent in that transfer, all earlier ones of the two being       *)
(* behind the receiver and no later one sent yet.                          *)
TakesTheMatchingMessage ==
  [][\A p \in Cores : TakeSeq(p) => FirstFor(peer[p], p, position[p])]_allVars

THEOREM ReceivesMatch ==
  ASSUME WaitsFirst, EvenStart
  PROVE  ProgramSpec => TakesTheMatchingMessage
<1>1. ASSUME ProgramInv, NEW p \in Cores, TakeSeq(p)
      PROVE  FirstFor(peer[p], p, position[p])
  <2>1. peer[p] \in Cores
    BY <1>1 DEF ProgramInv, IndInv, TypeOK
  <2> QED BY <1>1, <2>1, TakePosition DEF TakeSeq
<1>2. ProgramInv =>
        [\A p \in Cores : TakeSeq(p) => FirstFor(peer[p], p, position[p])]_allVars
  BY <1>1
<1> QED BY <1>2, ProgramInvariance, PTL DEF TakesTheMatchingMessage

(* Matched programs are programs of Postbox, and their messages pass as    *)
(* Rendezvous says.                                                        *)
THEOREM ProgramsRendezvous ==
  ASSUME WaitsFirst, EvenStart
  PROVE  ProgramSpec => RendezvousSpec
<1>1. ProgramInit => Abstract!Init
  BY DEF ProgramInit, Init, Pair, Abstract!Init
<1>2. ProgramInv /\ [ProgramNext]_allVars => [Abstract!Next]_Abstract!rvars
  BY ProgramSteps, StepRefines DEF ProgramInv
<1> QED BY <1>1, <1>2, ProgramInvariance, PTL DEF ProgramSpec, RendezvousSpec, Abstract!Spec

-------------------------------------------------------------------------------
(* What a core waits for comes.  An answer carries the number its receiver *)
(* expects, a receive finds the pair settled, and a program is not longer  *)
(* than the bound on the messages.                                         *)
Expect(p, q) ==
  IF pc[p] = "take" /\ peer[p] = q THEN Inc(syncValues[p][q]) ELSE syncValues[p][q]

AnswerInv(p, q) ==
  Pending(p, q) /\ taken[p][q] = posted[p][q] =>
    Expect(p, q) = IF Answering(q, p) THEN communication_data[q][SEQ]
                   ELSE postbox[q][p][SEQ]

SettledInv(p) == pc[p] = "take" => ~unwaited[p][peer[p]]

PostedInv(p) ==
  \A q \in Cores : /\ posted[p][q] <= position[p]
                   /\ Writing(p, q) => posted[p][q] < position[p]

GoInv ==
  /\ ProgramInv
  /\ \A p \in Cores : SettledInv(p) /\ PostedInv(p)
  /\ \A p, q \in Cores : p # q => AnswerInv(p, q)
  /\ Len(transfers) <= MaxCalls

(* A program posts no more messages than the bound on them.                *)
LongEnough == \A list \in Programs : Len(list) <= MaxCalls

(* A step of p in a call with q, as far as answers are concerned.          *)
Touches(p, q) ==
  /\ pc[p] = "idle" \/ peer[p] = q
  /\ pc'[p] = "idle" \/ peer'[p] = q
  /\ \A r \in Cores \ {p} :
       /\ pc'[r] = pc[r] /\ peer'[r] = peer[r] /\ call'[r] = call[r]
       /\ communication_data'[r] = communication_data[r]
       /\ position'[r] = position[r]
  /\ \A a, b \in Cores : <<a, b>> # <<p, q>> =>
       /\ syncValues'[a][b] = syncValues[a][b] /\ unwaited'[a][b] = unwaited[a][b]
       /\ posted'[a][b] = posted[a][b]
  /\ \A a, b \in Cores : <<a, b>> # <<q, p>> => taken'[a][b] = taken[a][b]
  /\ \A a, b \in Cores : <<a, b>> \notin {<<p, q>>, <<q, p>>} =>
       postbox'[a][b] = postbox[a][b]

LEMMA AnswerFrame ==
  ASSUME NEW a \in Cores, NEW b \in Cores, AnswerInv(a, b),
         Pending(a, b)' => Pending(a, b),
         posted'[a][b] = posted[a][b], taken'[a][b] = taken[a][b],
         Answering(b, a)' <=> Answering(b, a),
         Answering(b, a) => communication_data'[b] = communication_data[b],
         ~Answering(b, a) => postbox'[b][a][SEQ] = postbox[b][a][SEQ],
         Expect(a, b)' = Expect(a, b)
  PROVE  AnswerInv(a, b)'
BY DEF AnswerInv

LEMMA GoTogether ==
  ASSUME GoInv, ProgramInv', NEW p \in Cores, NEW q \in Cores, p # q, Touches(p, q),
         transfers' = transfers, SettledInv(p)', PostedInv(p)',
         AnswerInv(p, q)', AnswerInv(q, p)'
  PROVE  GoInv'
<1>1. ASSUME NEW r \in Cores \ {p}
      PROVE  SettledInv(r)' /\ PostedInv(r)'
  <2>1. SettledInv(r) /\ PostedInv(r) /\ peer[r] \in Cores
    BY DEF GoInv, ProgramInv, IndInv, TypeOK
  <2>2. /\ pc'[r] = pc[r] /\ peer'[r] = peer[r] /\ position'[r] = position[r]
        /\ \A b \in Cores : unwaited'[r][b] = unwaited[r][b] /\ posted'[r][b] = posted[r][b]
    BY DEF Touches
  <2> QED BY <2>1, <2>2 DEF SettledInv, PostedInv, Writing
<1>2. ASSUME NEW a \in Cores, NEW b \in Cores, a # b, <<a, b>> \notin {<<p, q>>, <<q, p>>}
      PROVE  AnswerInv(a, b)'
  <2>1. /\ AnswerInv(a, b) /\ postbox'[b][a] = postbox[b][a]
        /\ posted'[a][b] = posted[a][b] /\ taken'[a][b] = taken[a][b]
        /\ unwaited'[a][b] = unwaited[a][b] /\ syncValues'[a][b] = syncValues[a][b]
    BY <1>2 DEF GoInv, Touches
  <2>2. /\ Pending(a, b)' => Pending(a, b)
        /\ Expect(a, b)' = Expect(a, b)
    BY <1>2, <2>1 DEF Touches, Pending, Expect, Inc
  <2>3. /\ Answering(b, a)' <=> Answering(b, a)
        /\ Answering(b, a) => communication_data'[b] = communication_data[b]
    BY <1>2 DEF Touches, Answering
  <2> QED BY <2>1, <2>2, <2>3, AnswerFrame
<1> QED BY <1>1, <1>2 DEF GoInv

(* Outside an answer a core writes to no slot of its own.                  *)
LEMMA GoQuiet ==
  ASSUME GoInv, ProgramInv', NEW p \in Cores, NEW q \in Cores, p # q, Touches(p, q),
         transfers' = transfers, SettledInv(p)', PostedInv(p)', AnswerInv(p, q)',
         pc[p] # "answer", pc'[p] # "answer",
         taken'[q][p] = taken[q][p], postbox'[p][q] = postbox[p][q]
  PROVE  GoInv'
<1>1. /\ AnswerInv(q, p) /\ posted'[q][p] = posted[q][p]
      /\ unwaited'[q][p] = unwaited[q][p] /\ syncValues'[q][p] = syncValues[q][p]
      /\ pc'[q] = pc[q] /\ peer'[q] = peer[q] /\ call'[q] = call[q]
  BY DEF GoInv, Touches
<1>2. (Pending(q, p)' => Pending(q, p)) /\ Expect(q, p)' = Expect(q, p)
  BY <1>1 DEF Pending, Expect, Inc
<1>3. ~Answering(p, q) /\ ~Answering(p, q)'
  BY DEF Answering
<1>4. AnswerInv(q, p)'
  BY <1>1, <1>2, <1>3, AnswerFrame
<1> QED BY <1>4, GoTogether

(* The bound on the messages moves with the place in the list.             *)
LEMMA PostedFrame ==
  ASSUME NEW p \in Cores, PostedInv(p), TypeOK, ProgramTypeOK,
         position'[p] \in Nat,
         \A b \in Cores : posted'[p][b] = posted[p][b],
         \/ position'[p] > position[p]
         \/ position'[p] = position[p] /\ \A b \in Cores : Writing(p, b)' => Writing(p, b)
  PROVE  PostedInv(p)'
<1>1. position[p] \in Nat /\ \A b \in Cores : posted[p][b] \in Nat
  BY DEF TypeOK, ProgramTypeOK
<1> QED BY <1>1 DEF PostedInv

(* The call a core starts.                                                 *)
LEMMA StartCase ==
  ASSUME ProgramTypeOK, NEW p \in Cores, StartNext(p)
  PROVE  \E i \in Remaining(p), q \in Cores :
           /\ q # p /\ transfers' = transfers /\ position' = [position EXCEPT ![p] = i]
           /\ SendRecv(p, q) \/ Send(p, q, transfers[i].kind) \/ Recv(p, q)
<1>1. PICK i \in Remaining(p) :
        LET t == transfers[i]
            q == IF p = t.from THEN t.to ELSE t.from IN
        /\ CASE t.kind = "sendrecv" -> SendRecv(p, q)
             [] t.kind # "sendrecv" /\ p = t.from -> Send(p, q, t.kind)
             [] t.kind # "sendrecv" /\ p = t.to -> Recv(p, q)
        /\ position' = [position EXCEPT ![p] = i]
        /\ UNCHANGED transfers
  BY DEF StartNext
<1>2. i \in DOMAIN transfers /\ Concerns(p, i)
  BY DEF Remaining
<1>3. PICK q \in Cores : /\ q = IF p = transfers[i].from THEN transfers[i].to
                                ELSE transfers[i].from
                         /\ q # p
  BY <1>2, TransferFacts DEF Concerns
<1>4. SendRecv(p, q) \/ Send(p, q, transfers[i].kind) \/ Recv(p, q)
  BY <1>1, <1>2, <1>3 DEF Concerns
<1> QED BY <1>1, <1>3, <1>4

LEMMA GoStart ==
  ASSUME GoInv, ProgramInv', WaitsFirst, NEW p \in Cores, StartNext(p)
  PROVE  GoInv'
<1>1. IndInv /\ TypeOK /\ ProgramTypeOK /\ PostedInv(p)
  BY DEF GoInv, ProgramInv, IndInv
<1>2. PICK i \in Remaining(p), q \in Cores :
        /\ q # p /\ transfers' = transfers /\ position' = [position EXCEPT ![p] = i]
        /\ SendRecv(p, q) \/ Send(p, q, transfers[i].kind) \/ Recv(p, q)
  BY <1>1, StartCase
<1>3. /\ position'[p] = i /\ i \in Nat /\ i > position[p]
      /\ \A r \in Cores \ {p} : position'[r] = position[r]
  BY <1>1, <1>2 DEF ProgramTypeOK, Remaining
<1>4. /\ pc[p] = "idle" /\ ~unwaited[p][q]
      /\ UNCHANGED <<postbox, unwaited, posted, taken>>
      /\ peer' = [peer EXCEPT ![p] = q]
      /\ \E c : call' = [call EXCEPT ![p] = c]
             /\ \/ pc' = [pc EXCEPT ![p] = "put"]
                \/ pc' = [pc EXCEPT ![p] = "take"] /\ c = "recv"
      /\ UNCHANGED communication_data \/ FillBuffer(p, q, Inc(syncValues[p][q]))
      /\ UNCHANGED syncValues \/ syncValues' = Set(syncValues, p, q, Inc(syncValues[p][q]))
  <2>1. CASE SendRecv(p, q)
    BY <2>1 DEF SendRecv, Ready, Settled, Goto, Enter, history
  <2>2. CASE Send(p, q, transfers[i].kind)
    BY <2>2 DEF Send, Ready, Settled, Goto, Enter, history
  <2>3. CASE Recv(p, q)
    BY <2>3 DEF Recv, Ready, Settled, Goto, Enter, history
  <2> QED BY <1>2, <2>1, <2>2, <2>3
<1>5. /\ peer'[p] = q /\ pc'[p] \in {"put", "take"} /\ (pc'[p] = "take" => call'[p] = "recv")
      /\ \A r \in Cores \ {p} : pc'[r] = pc[r] /\ peer'[r] = peer[r] /\ call'[r] = call[r]
  BY <1>1, <1>4 DEF TypeOK
<1>6. \A r \in Cores \ {p} : communication_data'[r] = communication_data[r]
  <2>1. communication_data \in [Cores -> Slot]
    BY <1>1 DEF TypeOK
  <2>2. CASE FillBuffer(p, q, Inc(syncValues[p][q]))
    BY <2>1, <2>2 DEF FillBuffer
  <2> QED BY <1>4, <2>2
<1>7. \A a, b \in Cores : <<a, b>> # <<p, q>> => syncValues'[a][b] = syncValues[a][b]
  BY <1>1, <1>4 DEF TypeOK, Set
<1>8. Touches(p, q)
  BY <1>3, <1>4, <1>5, <1>6, <1>7 DEF Touches
<1>9. SettledInv(p)'
  BY <1>4, <1>5 DEF SettledInv
<1>10. PostedInv(p)'
  BY <1>1, <1>3, <1>4, PostedFrame
<1>11. AnswerInv(p, q)'
  BY <1>4, <1>5 DEF AnswerInv, Pending
<1> QED BY <1>2, <1>4, <1>5, <1>8, <1>9, <1>10, <1>11, GoQuiet

(* A core waits for an answer, has it, or looks for a message.             *)
LEMMA GoAwait ==
  ASSUME GoInv, ProgramInv', WaitsFirst, NEW p \in Cores, UNCHANGED program,
         Await(p) \/ \E q \in Cores : WaitSent(p, q) \/ TestSent(p, q) \/ Probe(p, q)
  PROVE  GoInv'
<1>1. /\ IndInv /\ TypeOK /\ ProgramTypeOK /\ PostedInv(p)
      /\ UNCHANGED <<transfers, position>>
  BY DEF GoInv, ProgramInv, IndInv, program
<1>2. \E q \in Cores :
        /\ q # p
        /\ pc[p] = "idle" \/ peer[p] = q
        /\ pc[p] \in {"idle", "await"} /\ pc'[p] \in {"idle", "await"}
        /\ UNCHANGED <<syncValues, postbox, communication_data, posted, taken>>
        /\ \A r \in Cores \ {p} : pc'[r] = pc[r] /\ peer'[r] = peer[r] /\ call'[r] = call[r]
        /\ pc'[p] = "await" => peer'[p] = q
        /\ \/ pc'[p] = "idle" /\ unwaited' = Set(unwaited, p, q, FALSE)
           \/ UNCHANGED unwaited /\ (pc'[p] = "idle" \/ unwaited[p][q])
  <2>1. CASE Await(p)
    <3>1. peer[p] \in Cores /\ peer[p] # p
      BY <1>1, <2>1 DEF Await, IndInv, TypeOK, CoreInv
    <3>2. pc[p] = "await" /\ pc' = [pc EXCEPT ![p] = "idle"]
      BY <2>1 DEF Await, Goto
    <3>3. /\ UNCHANGED <<syncValues, postbox, communication_data, call, peer, posted, taken>>
          /\ unwaited' = Set(unwaited, p, peer[p], FALSE)
      BY <2>1 DEF Await
    <3>4. pc'[p] = "idle" /\ \A r \in Cores \ {p} : pc'[r] = pc[r]
      BY <1>1, <3>2 DEF TypeOK
    <3> QED BY <3>1, <3>2, <3>3, <3>4
  <2>2. ASSUME NEW q \in Cores, WaitSent(p, q)
        PROVE  /\ q # p /\ pc[p] = "idle" /\ pc'[p] = "await" /\ peer'[p] = q
               /\ UNCHANGED <<syncValues, postbox, communication_data, posted, taken, unwaited>>
               /\ unwaited[p][q]
               /\ \A r \in Cores \ {p} :
                    pc'[r] = pc[r] /\ peer'[r] = peer[r] /\ call'[r] = call[r]
    <3>1. /\ q # p /\ pc[p] = "idle" /\ pc' = [pc EXCEPT ![p] = "await"] /\ unwaited[p][q]
          /\ call' = [call EXCEPT ![p] = "wait_sent"] /\ peer' = [peer EXCEPT ![p] = q]
          /\ UNCHANGED <<syncValues, postbox, communication_data, posted, taken, unwaited>>
      BY <2>2 DEF WaitSent, Ready, Goto, Enter, history
    <3> QED BY <1>1, <3>1 DEF TypeOK
  <2>3. ASSUME NEW q \in Cores, TestSent(p, q) \/ Probe(p, q)
        PROVE  /\ q # p /\ pc[p] = "idle"
               /\ UNCHANGED <<syncValues, postbox, communication_data, pc, call, peer,
                              posted, taken>>
               /\ unwaited' = Set(unwaited, p, q, FALSE) \/ UNCHANGED unwaited
    BY <2>3 DEF TestSent, Probe, Ready, localVars
  <2>4. ASSUME NEW q \in Cores, TestSent(p, q) \/ Probe(p, q)
        PROVE  pc'[p] = "idle"
    BY <2>3, <2>4
  <2> QED BY <2>1, <2>2, <2>3, <2>4
<1>3. PICK q \in Cores :
        /\ q # p
        /\ pc[p] = "idle" \/ peer[p] = q
        /\ pc[p] \in {"idle", "await"} /\ pc'[p] \in {"idle", "await"}
        /\ UNCHANGED <<syncValues, postbox, communication_data, posted, taken>>
        /\ \A r \in Cores \ {p} : pc'[r] = pc[r] /\ peer'[r] = peer[r] /\ call'[r] = call[r]
        /\ pc'[p] = "await" => peer'[p] = q
        /\ \/ pc'[p] = "idle" /\ unwaited' = Set(unwaited, p, q, FALSE)
           \/ UNCHANGED unwaited /\ (pc'[p] = "idle" \/ unwaited[p][q])
  BY <1>2
<1>4. /\ \A a, b \in Cores : <<a, b>> # <<p, q>> => unwaited'[a][b] = unwaited[a][b]
      /\ \/ pc'[p] = "idle" /\ ~unwaited'[p][q]
         \/ unwaited'[p][q] = unwaited[p][q] /\ (pc'[p] = "idle" \/ unwaited[p][q])
  BY <1>1, <1>3 DEF TypeOK, Set
<1>5. Touches(p, q)
  BY <1>1, <1>3, <1>4 DEF Touches
<1>6. SettledInv(p)'
  BY <1>3 DEF SettledInv
<1>7. PostedInv(p)'
  <2>1. \A b \in Cores : ~Writing(p, b)'
    BY <1>3 DEF Writing
  <2>2. position'[p] = position[p] /\ position'[p] \in Nat
    BY <1>1 DEF ProgramTypeOK
  <2> QED BY <1>1, <1>3, <2>1, <2>2, PostedFrame
<1>8. AnswerInv(p, q)'
  <2>1. CASE pc'[p] = "idle" /\ ~unwaited'[p][q]
    BY <2>1 DEF AnswerInv, Pending
  <2>2. CASE unwaited'[p][q] = unwaited[p][q] /\ (pc'[p] = "idle" \/ unwaited[p][q])
    <3>1. AnswerInv(p, q) /\ (Pending(p, q)' => Pending(p, q))
      BY <1>3, <2>2 DEF GoInv, Pending
    <3>2. Expect(p, q)' = Expect(p, q)
      BY <1>3 DEF Expect
    <3>3. Answering(q, p)' <=> Answering(q, p)
      BY <1>3 DEF Answering
    <3> QED BY <1>3, <3>1, <3>2, <3>3, AnswerFrame
  <2> QED BY <1>4, <2>1, <2>2
<1>9. /\ pc[p] # "answer" /\ pc'[p] # "answer" /\ transfers' = transfers
      /\ taken'[q][p] = taken[q][p] /\ postbox'[p][q] = postbox[p][q] /\ p # q
  BY <1>1, <1>3
<1> QED BY <1>5, <1>6, <1>7, <1>8, <1>9, GoQuiet

(* A message goes into the slot cell by cell; no answer is awaited there.  *)
LEMMA GoPut ==
  ASSUME GoInv, ProgramInv', NEW p \in Cores, PutCell(p) \/ PutSeq(p), UNCHANGED program
  PROVE  GoInv'
<1>1. /\ ProgramInv /\ IndInv /\ TypeOK /\ ProgramTypeOK /\ PostedInv(p) /\ pc[p] = "put"
      /\ UNCHANGED <<transfers, position>>
  BY DEF GoInv, ProgramInv, IndInv, program, PutCell, PutSeq
<1>2. PICK q \in Cores : q = peer[p] /\ q # p /\ ~unwaited[p][q] /\ taken[p][q] = posted[p][q]
  BY <1>1, PutPlace DEF CoreInv
<1>3. /\ UNCHANGED <<communication_data, call, peer, taken>>
      /\ \E i \in 0..SEQ :
           postbox' = [postbox EXCEPT ![q][p][i] = communication_data[p][i]]
      /\ UNCHANGED syncValues \/ syncValues' = Set(syncValues, p, q, Inc(syncValues[p][q]))
      /\ \/ UNCHANGED <<pc, posted, unwaited>>
         \/ /\ posted' = Set(posted, p, q, posted[p][q] + 1)
            /\ unwaited' = Set(unwaited, p, q, call[p] = "nonblocking_send")
            /\ \E label \in {"await", "idle", "take"} :
                 /\ pc' = [pc EXCEPT ![p] = label]
                 /\ label = "take" => call[p] # "nonblocking_send"
  <2>1. CASE PutCell(p)
    <3>1. at[p] \in 0..SEQ
      BY <1>1 DEF TypeOK
    <3> QED BY <1>2, <2>1, <3>1 DEF PutCell, history
  <2>2. CASE PutSeq(p)
    <3>1. /\ SEQ \in 0..SEQ /\ call[p] \in {"send", "nonblocking_send", "sendrecv"}
      BY <1>1, PutPlace DEF CoreInv, SEQ
    <3>2. \E label \in {"await", "idle", "take"} :
            /\ pc' = [pc EXCEPT ![p] = label]
            /\ label = "take" => call[p] # "nonblocking_send"
      BY <2>2, <3>1 DEF PutSeq, Goto
    <3> QED BY <1>2, <2>2, <3>1, <3>2 DEF PutSeq
  <2> QED BY <2>1, <2>2
<1>4. \A a, b \in Cores : a # q \/ b # p => postbox'[a][b] = postbox[a][b]
  <2>1. postbox \in [Cores -> [Cores -> Slot]]
    BY <1>1 DEF TypeOK
  <2> QED BY <1>3, <2>1, OneCell
<1>5. \A a, b \in Cores : <<a, b>> # <<p, q>> => syncValues'[a][b] = syncValues[a][b]
  BY <1>1, <1>3 DEF TypeOK, Set
<1>6. /\ \A r \in Cores \ {p} : pc'[r] = pc[r]
      /\ \A a, b \in Cores : <<a, b>> # <<p, q>> =>
           unwaited'[a][b] = unwaited[a][b] /\ posted'[a][b] = posted[a][b]
      /\ \/ pc'[p] = "put" /\ posted'[p][q] = posted[p][q] /\ ~unwaited'[p][q]
         \/ /\ posted'[p][q] = posted[p][q] + 1
            /\ pc'[p] \in {"await", "idle", "take"} /\ (pc'[p] = "take" => ~unwaited'[p][q])
  <2>1. CASE UNCHANGED <<pc, posted, unwaited>>
    BY <1>1, <1>2, <2>1
  <2>2. ASSUME NEW label \in {"await", "idle", "take"},
               pc' = [pc EXCEPT ![p] = label], label = "take" => call[p] # "nonblocking_send",
               posted' = Set(posted, p, q, posted[p][q] + 1),
               unwaited' = Set(unwaited, p, q, call[p] = "nonblocking_send")
        PROVE  /\ \A r \in Cores \ {p} : pc'[r] = pc[r]
               /\ \A a, b \in Cores : <<a, b>> # <<p, q>> =>
                    unwaited'[a][b] = unwaited[a][b] /\ posted'[a][b] = posted[a][b]
               /\ posted'[p][q] = posted[p][q] + 1
               /\ pc'[p] \in {"await", "idle", "take"} /\ (pc'[p] = "take" => ~unwaited'[p][q])
    <3>1. pc'[p] = label /\ \A r \in Cores \ {p} : pc'[r] = pc[r]
      BY <1>1, <2>2 DEF TypeOK
    <3>2. /\ posted'[p][q] = posted[p][q] + 1
          /\ \A a, b \in Cores : <<a, b>> # <<p, q>> => posted'[a][b] = posted[a][b]
      BY <1>1, <2>2 DEF TypeOK, Set
    <3>3. /\ unwaited'[p][q] = (call[p] = "nonblocking_send")
          /\ \A a, b \in Cores : <<a, b>> # <<p, q>> => unwaited'[a][b] = unwaited[a][b]
      BY <1>1, <2>2 DEF TypeOK, Set
    <3> QED BY <2>2, <3>1, <3>2, <3>3
  <2> QED BY <1>3, <2>1, <2>2
<1>7. Touches(p, q)
  BY <1>1, <1>2, <1>3, <1>4, <1>5, <1>6 DEF Touches
<1>8. SettledInv(p)'
  BY <1>2, <1>3, <1>6 DEF SettledInv
<1>9. PostedInv(p)'
  <2>1. /\ position[p] \in Nat /\ position' = position
        /\ \A b \in Cores : posted[p][b] \in Nat /\ posted[p][b] <= position[p]
        /\ posted[p][q] < position[p]
    BY <1>1, <1>2 DEF TypeOK, ProgramTypeOK, PostedInv, Writing
  <2>2. ASSUME NEW b \in Cores
        PROVE  /\ posted'[p][b] <= position[p]
               /\ pc'[p] = "put" /\ peer'[p] = b => posted'[p][b] < position[p]
    <3>1. CASE b = q
      BY <1>6, <2>1, <3>1
    <3>2. CASE b # q
      BY <1>2, <1>3, <1>6, <2>1, <3>2
    <3> QED BY <3>1, <3>2
  <2> QED BY <2>1, <2>2 DEF PostedInv, Writing
<1>10. AnswerInv(p, q)'
  <2>1. CASE pc'[p] = "put" /\ ~unwaited'[p][q]
    BY <2>1 DEF AnswerInv, Pending
  <2>2. CASE posted'[p][q] = posted[p][q] + 1
    <3>1. posted[p][q] \in Nat /\ taken'[p][q] = posted[p][q]
      BY <1>1, <1>2, <1>3 DEF TypeOK
    <3> QED BY <2>2, <3>1 DEF AnswerInv
  <2> QED BY <1>6, <2>1, <2>2
<1>11. /\ pc'[p] # "answer" /\ taken'[q][p] = taken[q][p] /\ postbox'[p][q] = postbox[p][q]
  BY <1>2, <1>3, <1>4, <1>6
<1> QED BY <1>1, <1>2, <1>7, <1>8, <1>9, <1>10, <1>11, GoQuiet

(* The copies of a receive leave all of this alone.                        *)
LEMMA GoTake ==
  ASSUME GoInv, ProgramInv', NEW p \in Cores, TakeCell(p) \/ TakeAgain(p),
         UNCHANGED program
  PROVE  GoInv'
<1>1. /\ ProgramInv /\ IndInv /\ TypeOK /\ ProgramTypeOK /\ PostedInv(p) /\ SettledInv(p)
      /\ pc[p] = "take" /\ UNCHANGED <<transfers, position>>
  BY DEF GoInv, ProgramInv, IndInv, program, TakeCell, TakeAgain
<1>2. PICK q \in Cores : q = peer[p] /\ q # p
  BY <1>1, TakePlace
<1>3. /\ UNCHANGED <<syncValues, postbox, call, peer, unwaited, posted, taken>>
      /\ pc' = [pc EXCEPT ![p] = "take"] \/ pc' = pc
      /\ \A r \in Cores \ {p} : communication_data'[r] = communication_data[r]
  <2>1. CASE TakeCell(p)
    BY <1>1, <2>1 DEF TakeCell, history, TypeOK
  <2>2. CASE TakeAgain(p)
    BY <2>2 DEF TakeAgain, Goto, history
  <2> QED BY <2>1, <2>2
<1>4. pc' = pc
  BY <1>1, <1>3 DEF TypeOK
<1>5. Touches(p, q)
  BY <1>1, <1>2, <1>3, <1>4 DEF Touches
<1>6. SettledInv(p)' /\ PostedInv(p)'
  BY <1>1, <1>3, <1>4 DEF SettledInv, PostedInv, Writing
<1>7. AnswerInv(p, q)'
  <2>1. /\ AnswerInv(p, q) /\ (Pending(p, q)' => Pending(p, q))
        /\ Expect(p, q)' = Expect(p, q) /\ (Answering(q, p)' <=> Answering(q, p))
    BY <1>2, <1>3, <1>4 DEF GoInv, Pending, Expect, Answering, Inc
  <2> QED BY <1>2, <1>3, <2>1, AnswerFrame
<1> QED BY <1>1, <1>2, <1>3, <1>4, <1>5, <1>6, <1>7, GoQuiet

(* The number of the answer: the sender of the message that p takes is     *)
(* behind this transfer and expects the number after it, or it is in the   *)
(* same sendrecv as p and moves on to it when it takes p's own message.    *)
LEMMA AnswerNumber ==
  ASSUME GoInv, NEW p \in Cores, pc[p] = "take", NEW q \in Cores, q = peer[p],
         Matches(postbox[p][q][SEQ], syncValues[p][q]), Pending(q, p)
  PROVE  Expect(q, p) = Inc(syncValues[p][q])
<1>1. /\ ProgramInv /\ IndInv /\ TypeOK /\ ProgramTypeOK
      /\ q # p /\ Odd(syncValues[p][q]) /\ ParityInv(q, p) /\ CoreInv(q)
      /\ PlaceInv(q) /\ SettledInv(q) /\ PairInv(p, q) /\ PairInv(q, p)
  BY TakePlace DEF GoInv, ProgramInv, IndInv
<1>2. PICK i \in DOMAIN transfers : i = position[p] /\ i \in Nat /\ FirstFor(q, p, i)
  BY <1>1, TakePosition
<1>3. /\ Between(p, q, i) /\ Between(q, p, i) /\ Sent(q, i) /\ Sends(q, i) /\ ~Past(p, i)
      /\ \A k \in DOMAIN transfers : Between(q, p, k) /\ k > i => ~Sent(q, k)
  BY <1>2 DEF FirstFor, Between, Sent
<1>4. /\ syncValues[p][q] \in 0..SyncMax /\ syncValues[q][p] \in 0..SyncMax
      /\ Inc(syncValues[p][q]) \in 0..SyncMax
      /\ Awaited(p, q) = syncValues[p][q] /\ position[q] \in Nat
  <2>1. syncValues[p][q] \in 0..SyncMax /\ syncValues[q][p] \in 0..SyncMax
    BY <1>1 DEF TypeOK
  <2>2. Awaited(p, q) = syncValues[p][q] /\ position[q] \in Nat
    BY <1>1 DEF ProgramTypeOK, Awaited
  <2> QED BY <2>1, <2>2, IncParity
<1>5. CASE Past(q, i)
  <2>1. ~(pc[q] = "take" /\ peer[q] = p)
    <3> SUFFICES ASSUME pc[q] = "take", peer[q] = p
                 PROVE  FALSE
      OBVIOUS
    <3>1. call[q] = "sendrecv"
      BY <1>1 DEF Pending, SettledInv
    <3>2. /\ position[q] \in DOMAIN transfers /\ Between(q, p, position[q])
          /\ Sends(q, position[q])
      BY <1>1, <3>1 DEF PlaceInv, Sends
    <3>3. position[q] > i
      BY <1>2, <1>4, <1>5 DEF Past
    <3>4. Sent(q, position[q])
      BY <1>4, <3>2 DEF Sent
    <3> QED BY <1>3, <3>2, <3>3, <3>4
  <2>2. ~Odd(syncValues[q][p])
    <3>1. ~(pc[q] = "put" /\ peer[q] = p)
      BY <1>1 DEF Pending, CoreInv
    <3> QED BY <1>1, <2>1, <3>1 DEF ParityInv
  <2>3. Inc(syncValues[q][p]) = Inc(Inc(syncValues[p][q]))
    BY <1>1, <1>3, <1>4, <1>5, <2>2 DEF PairInv, Awaited
  <2>4. syncValues[q][p] = Inc(syncValues[p][q])
    BY <1>4, <2>3, SyncAssumption DEF Inc
  <2> QED BY <2>1, <2>4 DEF Expect
<1>6. CASE ~Past(q, i)
  <2>1. pc[q] = "take" /\ position[q] = i /\ peer[q] = p
    BY <1>1, <1>3, <1>6, HalfWay
  <2>2. \A j \in DOMAIN transfers : (Past(p, j) <=> j < i) /\ (Past(q, j) <=> j < i)
    BY <1>2, <2>1 DEF Past
  <2>3. Awaited(p, q) = Awaited(q, p)
    <3>1. Level(p, q)
      BY <2>2 DEF Level
    <3> QED BY <1>1, <3>1 DEF PairInv
  <2>4. syncValues[q][p] = syncValues[p][q]
    BY <1>1, <1>4, <2>1, <2>3 DEF ParityInv, Awaited
  <2> QED BY <2>1, <2>4 DEF Expect
<1> QED BY <1>5, <1>6

LEMMA GoTakeSeq ==
  ASSUME GoInv, ProgramInv', NEW p \in Cores, TakeSeq(p), UNCHANGED program
  PROVE  GoInv'
<1>1. /\ ProgramInv /\ IndInv /\ TypeOK /\ ProgramTypeOK /\ PostedInv(p)
      /\ pc[p] = "take" /\ UNCHANGED <<transfers, position>>
  BY DEF GoInv, ProgramInv, IndInv, program, TakeSeq
<1>2. PICK q \in Cores : q = peer[p] /\ q # p
  BY <1>1, TakePlace
<1>3. /\ UNCHANGED <<postbox, call, peer, unwaited, posted>>
      /\ pc' = [pc EXCEPT ![p] = "answer"]
      /\ communication_data' = [communication_data EXCEPT ![p][SEQ] = Inc(syncValues[p][q])]
      /\ taken' = Set(taken, q, p, taken[q][p] + 1)
      /\ syncValues' = Set(syncValues, p, q, Inc(syncValues[p][q]))
      /\ Matches(postbox[p][q][SEQ], syncValues[p][q])
  BY <1>2 DEF TakeSeq, Goto
<1>4. /\ pc'[p] = "answer" /\ \A r \in Cores \ {p} : pc'[r] = pc[r]
      /\ \A r \in Cores \ {p} : communication_data'[r] = communication_data[r]
  BY <1>1, <1>3 DEF TypeOK
<1>5. communication_data'[p][SEQ] = Inc(syncValues[p][q])
  <2>1. communication_data \in [Cores -> Slot] /\ SEQ \in 0..SEQ
    BY <1>1 DEF TypeOK, SEQ
  <2> QED BY <1>3, <2>1 DEF Slot
<1>6. \A a, b \in Cores : <<a, b>> # <<q, p>> => taken'[a][b] = taken[a][b]
  BY <1>1, <1>3 DEF TypeOK, Set
<1>7. /\ syncValues'[p][q] = Inc(syncValues[p][q])
      /\ \A a, b \in Cores : <<a, b>> # <<p, q>> => syncValues'[a][b] = syncValues[a][b]
  BY <1>1, <1>3 DEF TypeOK, Set
<1>8. Touches(p, q)
  BY <1>1, <1>2, <1>3, <1>4, <1>6, <1>7 DEF Touches
<1>9. SettledInv(p)' /\ PostedInv(p)'
  BY <1>1, <1>3, <1>4 DEF SettledInv, PostedInv, Writing
<1>10. AnswerInv(p, q)'
  <2>1. /\ AnswerInv(p, q) /\ (Pending(p, q)' => Pending(p, q))
        /\ Expect(p, q)' = Expect(p, q) /\ (Answering(q, p)' <=> Answering(q, p))
    BY <1>1, <1>2, <1>3, <1>4, <1>7 DEF GoInv, Pending, Expect, Answering
  <2>2. taken'[p][q] = taken[p][q]
    BY <1>2, <1>6
  <2> QED BY <1>2, <1>3, <1>4, <2>1, <2>2, AnswerFrame
<1>11. AnswerInv(q, p)'
  <2> SUFFICES ASSUME Pending(q, p)'
               PROVE  Expect(q, p)' = communication_data'[p][SEQ]
    <3>1. Answering(p, q)'
      BY <1>2, <1>3, <1>4 DEF Answering
    <3> QED BY <3>1 DEF AnswerInv
  <2>1. Pending(q, p) /\ Expect(q, p)' = Expect(q, p)
    BY <1>2, <1>3, <1>4, <1>7 DEF Pending, Expect, Inc
  <2> QED BY <1>1, <1>2, <1>3, <1>5, <2>1, AnswerNumber
<1> QED BY <1>1, <1>2, <1>8, <1>9, <1>10, <1>11, GoTogether

(* The answer goes into the slot, its number last.                         *)
LEMMA GoAnswer ==
  ASSUME GoInv, ProgramInv', NEW p \in Cores, AnswerCell(p), UNCHANGED program
  PROVE  GoInv'
<1>1. /\ ProgramInv /\ IndInv /\ TypeOK /\ ProgramTypeOK /\ PostedInv(p) /\ CoreInv(p)
      /\ pc[p] = "answer" /\ UNCHANGED <<transfers, position>> /\ at[p] \in 0..SEQ
  BY DEF GoInv, ProgramInv, IndInv, program, AnswerCell, TypeOK
<1>2. PICK q \in Cores : q = peer[p] /\ q # p
  BY <1>1 DEF CoreInv, TypeOK
<1>3. /\ UNCHANGED <<syncValues, communication_data, call, peer, unwaited, posted, taken>>
      /\ postbox' = [postbox EXCEPT ![p][q][at[p]] = communication_data[p][at[p]]]
      /\ \/ at[p] # SEQ /\ pc' = pc
         \/ /\ at[p] = SEQ
            /\ pc' = [pc EXCEPT ![p] = IF call[p] = "sendrecv" THEN "await" ELSE "idle"]
  BY <1>1, <1>2 DEF AnswerCell, Goto, history, SEQ
<1>4. /\ \A r \in Cores \ {p} : pc'[r] = pc[r]
      /\ pc'[p] = IF at[p] # SEQ THEN "answer"
                  ELSE IF call[p] = "sendrecv" THEN "await" ELSE "idle"
  BY <1>1, <1>3 DEF TypeOK
<1>5. /\ \A a, b \in Cores : a # p \/ b # q => postbox'[a][b] = postbox[a][b]
      /\ at[p] = SEQ => postbox'[p][q][SEQ] = communication_data[p][SEQ]
  <2>1. postbox \in [Cores -> [Cores -> Slot]]
    BY <1>1 DEF TypeOK
  <2>2. \A a, b \in Cores : a # p \/ b # q => postbox'[a][b] = postbox[a][b]
    BY <1>1, <1>3, <2>1, OneCell
  <2>3. CASE at[p] = SEQ
    BY <1>3, <2>1, <2>3 DEF Slot, SEQ
  <2> QED BY <2>2, <2>3
<1>6. Touches(p, q)
  BY <1>1, <1>2, <1>3, <1>4, <1>5 DEF Touches
<1>7. SettledInv(p)' /\ PostedInv(p)'
  BY <1>1, <1>3, <1>4 DEF SettledInv, PostedInv, Writing
<1>8. AnswerInv(p, q)'
  <2>1. /\ AnswerInv(p, q) /\ (Pending(p, q)' => Pending(p, q))
        /\ Expect(p, q)' = Expect(p, q) /\ (Answering(q, p)' <=> Answering(q, p))
    BY <1>1, <1>2, <1>3, <1>4 DEF GoInv, Pending, Expect, Answering
  <2> QED BY <1>2, <1>3, <1>5, <2>1, AnswerFrame
<1>9. AnswerInv(q, p)'
  <2>1. /\ AnswerInv(q, p) /\ (Pending(q, p)' => Pending(q, p))
        /\ Expect(q, p)' = Expect(q, p) /\ Answering(p, q)
    BY <1>1, <1>2, <1>3, <1>4 DEF GoInv, Pending, Expect, Answering, Inc
  <2>2. CASE at[p] # SEQ
    <3>1. Answering(p, q)'
      BY <1>2, <1>3, <1>4, <2>2 DEF Answering
    <3> QED BY <1>3, <2>1, <3>1, AnswerFrame
  <2>3. CASE at[p] = SEQ
    <3>1. ~Answering(p, q)'
      BY <1>4, <2>3 DEF Answering
    <3> QED BY <1>3, <1>5, <2>1, <2>3, <3>1 DEF AnswerInv
  <2> QED BY <2>2, <2>3
<1> QED BY <1>1, <1>2, <1>6, <1>7, <1>8, <1>9, GoTogether

LEMMA GoInit ==
  ASSUME ProgramInit, EvenStart, LongEnough
  PROVE  GoInv
<1>1. ProgramInv /\ Len(transfers) <= MaxCalls
  BY ProgramInitInd DEF ProgramInit, LongEnough
<1>2. ASSUME NEW p \in Cores, NEW q \in Cores
      PROVE  /\ SettledInv(p) /\ AnswerInv(p, q)
             /\ posted[p][q] = 0 /\ position[p] = 0 /\ ~Writing(p, q)
  BY DEF ProgramInit, Init, Pair, SettledInv, AnswerInv, Pending, Writing
<1> QED BY <1>1, <1>2 DEF GoInv, PostedInv

LEMMA GoStep ==
  ASSUME GoInv, WaitsFirst, [ProgramNext]_allVars
  PROVE  GoInv'
<1>1. ProgramInv'
  BY ProgramStepInd DEF GoInv
<1>2. ASSUME NEW p \in Cores, Step(p), UNCHANGED program
      PROVE  GoInv'
  BY <1>1, <1>2, GoPut, GoTake, GoTakeSeq, GoAnswer, GoAwait DEF Step
<1>3. ASSUME NEW p \in Cores, ProgramStep(p) \/ StartNext(p) \/ Settle(p) \/ ProbeNext(p)
      PROVE  GoInv'
  <2>1. CASE ProgramStep(p)
    BY <1>2, <2>1 DEF ProgramStep
  <2>2. CASE StartNext(p)
    BY <1>1, <2>2, GoStart
  <2>3. CASE Settle(p) \/ ProbeNext(p)
    BY <1>1, <2>3, GoAwait DEF Settle, ProbeNext
  <2> QED BY <1>3, <2>1, <2>2, <2>3
<1>4. CASE UNCHANGED allVars
  <2>1. UNCHANGED <<pc, call, peer, communication_data, syncValues, posted, taken, postbox,
                    unwaited, transfers, position>>
    BY <1>4 DEF allVars, vars, localVars, history, program
  <2>2. ASSUME NEW p \in Cores
        PROVE  SettledInv(p)' /\ PostedInv(p)'
    BY <2>1 DEF GoInv, SettledInv, PostedInv, Writing
  <2>3. ASSUME NEW p \in Cores, NEW q \in Cores, p # q
        PROVE  AnswerInv(p, q)'
    BY <2>1, <2>3 DEF GoInv, AnswerInv, Pending, Expect, Answering, Inc
  <2> QED BY <1>1, <2>1, <2>2, <2>3 DEF GoInv
<1> QED BY <1>3, <1>4 DEF ProgramNext, Finished

-------------------------------------------------------------------------------
(* The least of a set of numbers.                                          *)
LEMMA LessOnNat ==
  \E R : IsWellFoundedOn(R, Nat) /\ \A m, n \in Nat : m < n => <<m, n>> \in R
<1>1. \A m, n \in Nat : m < n => <<m, n>> \in OpToRel(<, Nat)
  BY DEF OpToRel
<1> QED BY <1>1, NatLessThanWellFounded, Zenon

LEMMA Least ==
  ASSUME NEW T, T \subseteq Nat, T # {}
  PROVE  \E n \in T : \A m \in T : n <= m
<1>1. PICK R : IsWellFoundedOn(R, Nat) /\ \A m, n \in Nat : m < n => <<m, n>> \in R
  BY LessOnNat
<1>2. IsWellFoundedOn(R, Nat)
  BY <1>1
<1>3. PICK n \in T : \A m \in T : ~(<<m, n>> \in R)
  BY <1>2, WFMin
<1>4. ASSUME NEW m \in T
      PROVE  n <= m
  <2>1. n \in Nat /\ m \in Nat /\ ~(<<m, n>> \in R)
    BY <1>3
  <2> QED BY <1>1, <2>1
<1> QED BY <1>4

(* A core between two calls that has something left to do can go on.       *)
LEMMA IdleGoesOn ==
  ASSUME GoInv, WaitsFirst, NEW p \in Cores, pc[p] = "idle", ~CanGoOn(p)
  PROVE  Remaining(p) = {} /\ \A q \in Cores : ~unwaited[p][q]
<1>1. /\ ProgramTypeOK /\ TypeOK /\ PostedInv(p) /\ Len(transfers) <= MaxCalls
      /\ \A q \in Cores : ~unwaited[p][q]
  BY DEF GoInv, ProgramInv, IndInv, CanGoOn
<1> SUFFICES ASSUME Remaining(p) # {}
             PROVE  FALSE
  BY <1>1
<1>2. Remaining(p) \subseteq Nat
  BY <1>1, TransferFacts DEF Remaining
<1>3. PICK i \in Remaining(p) : \A j \in Remaining(p) : i <= j
  BY <1>2, Least
<1>4. Partner(p, i) \in Cores
  BY <1>1, TransferFacts DEF Remaining, Partner
<1>5. posted[p][Partner(p, i)] < MaxCalls
  <2>1. posted[p][Partner(p, i)] \in Nat /\ posted[p][Partner(p, i)] <= position[p]
    BY <1>1, <1>4 DEF TypeOK, PostedInv
  <2>2. /\ i \in Nat /\ i > position[p] /\ i <= Len(transfers) /\ position[p] \in Nat
        /\ Len(transfers) \in Nat /\ MaxCalls \in Nat
    BY <1>1, BoundAssumption DEF Remaining, ProgramTypeOK
  <2> QED BY <1>1, <2>1, <2>2
<1>6. MayStart(p, i)
  BY <1>1, <1>3, <1>4, <1>5 DEF MayStart, Settled
<1> QED BY <1>6 DEF CanGoOn

(* A core that waits for another that cannot go on either waits for one    *)
(* that is at an earlier transfer.                                         *)
LEMMA WaitsForEarlier ==
  ASSUME GoInv, WaitsFirst, NEW p \in Cores, pc[p] \in {"take", "await"},
         \A r \in Cores : ~CanGoOn(r)
  PROVE  \E q \in Cores : pc[q] \in {"take", "await"} /\ position[q] < position[p]
<1>1. /\ ProgramInv /\ IndInv /\ TypeOK /\ ProgramTypeOK /\ PlaceInv(p) /\ CoreInv(p)
  BY DEF GoInv, ProgramInv, IndInv
<1>2. PICK q \in Cores : q = peer[p] /\ q # p
  BY <1>1 DEF CoreInv, TypeOK
<1>3. /\ PairInv(p, q) /\ PairInv(q, p) /\ AnswerInv(p, q) /\ ChannelInv(p, q)
      /\ PlaceInv(q) /\ ParityInv(p, q) /\ ParityInv(q, p)
      /\ position[p] \in Nat /\ position[q] \in Nat
  BY <1>1, <1>2 DEF GoInv, ProgramInv, IndInv, ProgramTypeOK
<1>4. pc[q] \in {"idle", "take", "await"}
  BY <1>1 DEF CanGoOn, TypeOK
<1>5. pc[q] = "idle" => Remaining(q) = {}
  BY IdleGoesOn
<1>6. CASE pc[p] = "take"
  <2>1. PICK i \in DOMAIN transfers : /\ i = position[p] /\ i \in Nat
                                      /\ Between(p, q, i) /\ Sends(q, i)
    BY <1>1, <1>2, <1>3, <1>6 DEF PlaceInv
  <2>2. ~Past(p, i) /\ Between(q, p, i) /\ Concerns(q, i)
    BY <1>1, <1>2, <1>6, <2>1, BetweenFacts DEF Past
  <2>3. ~Waiting(q, p)
    <3>1. Awaited(p, q) = syncValues[p][q]
      BY <1>2, <1>3, <1>6 DEF ParityInv, Awaited
    <3>2. postbox[p][q][SEQ] # syncValues[p][q]
      BY <1>2, <1>6 DEF CanGoOn, Matches
    <3> QED BY <1>3, <3>1, <3>2 DEF PairInv
  <2>4. ~Sent(q, i)
    BY <1>3, <2>2, <2>3 DEF PairInv
  <2>5. position[q] < i
    BY <1>3, <1>4, <2>1, <2>4 DEF Sent
  <2>6. pc[q] # "idle"
    BY <1>5, <2>1, <2>2, <2>5 DEF Remaining
  <2> QED BY <1>4, <2>1, <2>5, <2>6
<1>7. CASE pc[p] = "await"
  <2>1. Waiting(p, q)
    <3>1. Pending(p, q)
      BY <1>2, <1>7 DEF Pending
    <3>2. taken[p][q] # posted[p][q]
      <4>1. ~Answering(q, p)
        BY <1>4 DEF Answering
      <4>2. postbox[q][p][SEQ] # syncValues[p][q]
        BY <1>2, <1>7 DEF CanGoOn, Matches
      <4> QED BY <1>3, <1>7, <3>1, <4>1, <4>2 DEF AnswerInv, Expect
    <3>3. posted[p][q] \in Nat /\ taken[p][q] \in Nat /\ known[p][q] \in Nat
      BY <1>1 DEF TypeOK
    <3> QED BY <1>3, <3>1, <3>2, <3>3 DEF ChannelInv, Waiting
  <2>2. PICK j \in DOMAIN transfers : FirstFor(p, q, j) /\ j \in Nat
    BY <1>1, <1>3, <2>1, TransferFacts DEF PairInv
  <2>3. /\ Between(p, q, j) /\ Concerns(q, j) /\ Sent(p, j) /\ ~Past(q, j)
    BY <1>1, <1>2, <2>2, BetweenFacts DEF FirstFor
  <2>4. j <= position[p]
    BY <1>3, <1>7, <2>2, <2>3 DEF Sent
  <2>5. pc[q] # "take" => position[q] < j
    BY <1>3, <1>4, <2>2, <2>3 DEF Past
  <2>6. pc[q] = "take" => position[q] < j
    <3> SUFFICES ASSUME pc[q] = "take", position[q] = j
                 PROVE  FALSE
      BY <1>3, <2>2, <2>3 DEF Past
    <3>1. peer[q] = p
      BY <1>1, <1>2, <1>3, <2>3, TransferFacts DEF PlaceInv, Between
    <3>2. Awaited(q, p) = syncValues[q][p]
      BY <1>2, <1>3, <3>1 DEF ParityInv, Awaited
    <3>3. postbox[q][p][SEQ] = syncValues[q][p]
      BY <1>3, <2>1, <3>2 DEF PairInv
    <3> QED BY <3>1, <3>3 DEF CanGoOn, Matches
  <2>7. pc[q] # "idle"
    BY <1>5, <2>2, <2>3, <2>5 DEF Remaining
  <2> QED BY <1>3, <1>4, <2>2, <2>4, <2>5, <2>6, <2>7
<1> QED BY <1>6, <1>7

(* As long as matched programs are not at their end, some core can go on:  *)
(* of the cores that wait, the one at the earliest transfer would wait for *)
(* a core that is at an earlier one.                                       *)
THEOREM SomebodyGoesOn ==
  ASSUME WaitsFirst, EvenStart, LongEnough
  PROVE  ProgramSpec => []NobodyWaitsInACircle
<1>1. ASSUME GoInv
      PROVE  NobodyWaitsInACircle
  <2> SUFFICES ASSUME \A r \in Cores : ~CanGoOn(r)
               PROVE  AllDone
    BY DEF NobodyWaitsInACircle
  <2> DEFINE T == {position[r] : r \in {r \in Cores : pc[r] \in {"take", "await"}}}
  <2>1. T = {}
    <3> SUFFICES ASSUME T # {}
                 PROVE  FALSE
      OBVIOUS
    <3>1. T \subseteq Nat
      BY <1>1 DEF GoInv, ProgramInv, ProgramTypeOK
    <3>2. PICK n \in T : \A m \in T : n <= m
      BY <3>1, Least
    <3>3. PICK p \in Cores : pc[p] \in {"take", "await"} /\ n = position[p]
      BY <3>2
    <3>4. PICK q \in Cores : pc[q] \in {"take", "await"} /\ position[q] < position[p]
      BY <1>1, <3>3, WaitsForEarlier
    <3>5. position[q] \in T /\ position[q] \in Nat /\ position[p] \in Nat
      BY <3>1, <3>3, <3>4
    <3> QED BY <3>2, <3>3, <3>4, <3>5
  <2>2. ASSUME NEW p \in Cores
        PROVE  pc[p] = "idle"
    <3>1. pc[p] \in {"idle", "put", "await", "take", "answer"}
      BY <1>1 DEF GoInv, ProgramInv, IndInv, TypeOK
    <3>2. pc[p] \notin {"put", "answer"}
      BY DEF CanGoOn
    <3>3. pc[p] \notin {"take", "await"}
      BY <2>1
    <3> QED BY <3>1, <3>2, <3>3
  <2> QED BY <1>1, <2>2, IdleGoesOn DEF AllDone
<1>2. ProgramInit => GoInv
  BY GoInit
<1>3. GoInv /\ [ProgramNext]_allVars => GoInv'
  BY GoStep
<1> QED BY <1>1, <1>2, <1>3, PTL DEF ProgramSpec
===============================================================================
