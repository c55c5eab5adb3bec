-------------------------- MODULE DeviceHeap_proofs --------------------------
(***************************************************************************)
(* Proofs about DeviceHeap, for heaps of any length, headers of any size,  *)
(* any sizes and variables: a program that takes none of the risks keeps   *)
(* IndInv.                                                                 *)
(*                                                                         *)
(* First the operators on one heap: what is split or merged is still a row *)
(* of chunks (MapOK).  From there on a heap is a set of blocks, chunks in  *)
(* use (Block), and each heap call adds a block (Added), takes one away    *)
(* (Without) or loses only what is not pointed to (Kept).  Sound ties the  *)
(* blocks to the symbol table in the course of a statement, whose          *)
(* temporary chunks nothing points to; each statement starts Sound with    *)
(* no temporaries, and ends with IndInv.                                   *)
(***************************************************************************)
EXTENDS DeviceHeap, TLAPS, WellFoundedInduction

Below == {ss \in Nat \X Nat : ss[1] < ss[2]}

(* A set of offsets has a least element.                                   *)
LEMMA LowestIs ==
  ASSUME NEW S, S \subseteq Nat, S # {}
  PROVE  Lowest(S) \in S /\ \A b \in S : Lowest(S) <= b
<1>0. OpToRel(<, Nat) = Below
  BY DEF OpToRel, Below
<1>1. \E a \in S : \A b \in S : <<b, a>> \notin Below
  BY <1>0, NatLessThanWellFounded, WFMin, Zenon
<1>2. \E a \in S : \A b \in S : a <= b
  <2>1. PICK a \in S : \A b \in S : <<b, a>> \notin Below
    BY <1>1
  <2>2. ASSUME NEW b \in S
        PROVE  a <= b
    <3>1. <<b, a>> \in Nat \X Nat /\ <<b, a>>[1] = b /\ <<b, a>>[2] = a
      BY Zenon
    <3>2. ~(b < a)
      BY <2>1, <3>1, Zenon DEF Below
    <3> QED BY <3>2
  <2> QED BY <2>2
<1> QED BY <1>2 DEF Lowest

LEMMA Params ==
  ASSUME NEW h \in Heaps
  PROVE  /\ Header[h] \in Nat /\ Header[h] >= 1
         /\ End[h] \in Nat /\ End[h] >= Header[h] /\ End[h] <= LengthMax
         /\ LengthMax \in Nat
         /\ Header["core"] = CoreHeader /\ End["core"] = CoreEnd
         /\ Header["shared"] = SharedHeader /\ End["shared"] = SharedEnd
         /\ h = "core" \/ h = "shared"
BY HeapAssumption DEF Heaps, Header, End

MapOK(m, h) == WellFormed(m, h) /\ Covers(m, h)

(* The headers of a heap as numbers.                                       *)
LEMMA Numbers ==
  ASSUME NEW h \in Heaps, NEW m, MapOK(m, h)
  PROVE  /\ DOMAIN m \subseteq Nat
         /\ \A a \in DOMAIN m : /\ a \in Nat /\ a + Header[h] <= End[h]
                                /\ m[a].len \in Nat /\ m[a].len <= LengthMax
                                /\ m[a].used \in BOOLEAN
                                /\ After(m, h, a) \in Nat
                                /\ After(m, h, a) = a + Header[h] + m[a].len
                                /\ After(m, h, a) > a
                                /\ After(m, h, a) <= End[h]
<1> USE Params DEF MapOK, WellFormed
<1>1. ASSUME NEW a \in DOMAIN m
      PROVE  /\ a \in Nat /\ a + Header[h] <= End[h]
             /\ m[a].len \in Nat /\ m[a].len <= LengthMax /\ m[a].used \in BOOLEAN
  OBVIOUS
<1>2. ASSUME NEW a \in DOMAIN m
      PROVE  /\ After(m, h, a) \in Nat
             /\ After(m, h, a) = a + Header[h] + m[a].len
             /\ After(m, h, a) > a
  BY <1>1 DEF After
<1>3. ASSUME NEW a \in DOMAIN m
      PROVE  After(m, h, a) <= End[h]
  BY <1>1, <1>2 DEF Covers
<1> QED BY <1>1, <1>2, <1>3

IsChunk(c) == /\ c = Chunk(c.len, c.used) /\ c.len \in Nat /\ c.used \in BOOLEAN

LEMMA ChunkFields ==
  ASSUME NEW len \in Nat, NEW used \in BOOLEAN
  PROVE  /\ Chunk(len, used).len = len /\ Chunk(len, used).used = used
         /\ IsChunk(Chunk(len, used))
BY DEF Chunk, IsChunk

\* The chunk at a, cut at b into first and second, with a header for second.
IsCut(m, h, a, first, b, second) ==
  /\ a \in DOMAIN m /\ IsChunk(first) /\ IsChunk(second)
  /\ first.len + second.len + Header[h] = m[a].len
  /\ b = a + Header[h] + first.len

\* What a cut leaves as it was.
CutKeeps(m, h, a, first, b, second, n) ==
  /\ b \in Nat /\ b <= End[h] - Header[h] /\ b \notin DOMAIN m
  /\ DOMAIN n = DOMAIN m \cup {b}
  /\ n[a] = first /\ n[b] = second
  /\ \A p \in DOMAIN m \ {a} : n[p] = m[p]
  /\ \A p \in DOMAIN m : p < b \/ p >= b + Header[h]
  /\ After(n, h, a) = b /\ After(n, h, b) = After(m, h, a)
  /\ \A p \in DOMAIN m \ {a} : After(n, h, p) = After(m, h, p)

(* A chunk split in two.                                                   *)
LEMMA Split ==
  ASSUME NEW h \in Heaps, NEW m, MapOK(m, h), NEW a, NEW b, NEW first, NEW second,
         IsCut(m, h, a, first, b, second),
         NEW n, n = Parted(m, a, first, b, second)
  PROVE  CutKeeps(m, h, a, first, b, second, n) /\ MapOK(n, h)
<1> USE DEF IsCut
<1> USE Params, Numbers
<1>1. /\ b \in Nat /\ b > a /\ b + Header[h] + second.len = After(m, h, a)
      /\ After(m, h, a) > b
  BY DEF IsChunk
<1>2. \A p \in DOMAIN m : p < b \/ p >= b + Header[h]
  BY <1>1 DEF MapOK, Covers, IsChunk
<1>3. b \notin DOMAIN m /\ b <= End[h] - Header[h]
  BY <1>1, <1>2 DEF IsChunk
<1>4. /\ DOMAIN n = DOMAIN m \cup {b}
      /\ n[a] = first /\ n[b] = second
      /\ \A p \in DOMAIN m \ {a} : n[p] = m[p]
  BY <1>3 DEF Parted
<1>6. /\ After(n, h, a) = b /\ After(n, h, b) = After(m, h, a)
      /\ \A p \in DOMAIN m \ {a} : After(n, h, p) = After(m, h, p)
  BY <1>1, <1>4 DEF After
<1>7. WellFormed(n, h)
  <2> SUFFICES ASSUME NEW p \in DOMAIN n
               PROVE  /\ p \in 0 .. End[h] - Header[h] /\ n[p].len \in 0 .. LengthMax
                      /\ n[p] = Chunk(n[p].len, n[p].used) /\ n[p].used \in BOOLEAN
    BY DEF WellFormed
  <2>1. CASE p = a \/ p = b
    BY <2>1, <1>1, <1>3, <1>4 DEF IsChunk
  <2>2. CASE p \in DOMAIN m \ {a}
    BY <2>2, <1>4 DEF MapOK, WellFormed
  <2> QED BY <2>1, <2>2, <1>4
<1>8. Covers(n, h)
  <2>1. 0 \in DOMAIN n
    BY <1>4 DEF MapOK, Covers
  <2>2. \A p \in DOMAIN n : After(n, h, p) \in DOMAIN n \cup {End[h]}
    BY <1>4, <1>6 DEF MapOK, Covers
  <2>3. ASSUME NEW p \in DOMAIN n, NEW q \in DOMAIN n, p < q
        PROVE  After(n, h, p) <= q
    <3>1. CASE p = a
      BY <3>1, <2>3, <1>1, <1>4, <1>6 DEF MapOK, Covers
    <3>2. CASE p = b
      BY <3>2, <2>3, <1>1, <1>4, <1>6 DEF MapOK, Covers
    <3>3. CASE p \in DOMAIN m \ {a} /\ q = b
      <4>1. p < a
        BY <3>3, <2>3, <1>1, <1>2 DEF MapOK, Covers
      <4>2. After(m, h, p) <= a /\ After(m, h, p) \in Nat /\ a \in Nat
        BY <4>1, <3>3 DEF MapOK, Covers
      <4>3. After(n, h, p) = After(m, h, p)
        BY <3>3, <1>6
      <4> QED BY <4>2, <4>3, <3>3, <1>1
    <3>4. CASE p \in DOMAIN m \ {a} /\ q \in DOMAIN m
      BY <3>4, <2>3, <1>6 DEF MapOK, Covers
    <3> QED BY <3>1, <3>2, <3>3, <3>4, <1>4
  <2> QED BY <2>1, <2>2, <2>3 DEF Covers
<1> QED BY <1>1, <1>2, <1>3, <1>4, <1>6, <1>7, <1>8 DEF MapOK, CutKeeps

(* Chunks that are free instead of used.                                   *)
LEMMA Release ==
  ASSUME NEW h \in Heaps, NEW m, MapOK(m, h),
         NEW n, DOMAIN n = DOMAIN m,
         \A a \in DOMAIN m : n[a] = Chunk(m[a].len, n[a].used) /\ n[a].used \in BOOLEAN
  PROVE  MapOK(n, h) /\ \A a \in DOMAIN m : After(n, h, a) = After(m, h, a)
<1>1. \A a \in DOMAIN m : n[a].len = m[a].len
  BY DEF Chunk
<1>2. \A a \in DOMAIN m : After(n, h, a) = After(m, h, a)
  BY <1>1 DEF After
<1> QED BY <1>1, <1>2 DEF MapOK, WellFormed, Covers

(* consolidateHeapChunks keeps the rows, merges all and loses nothing.     *)
LEMMA MergedKeeps ==
  ASSUME NEW m, MapOK(m, "core")
  PROVE  /\ MapOK(Merged(m), "core")
         /\ NoFreePair(Merged(m), "core")
         /\ DOMAIN Merged(m) \subseteq DOMAIN m
         /\ \A a \in DOMAIN m : m[a].used => a \in DOMAIN Merged(m) /\ Merged(m)[a] = m[a]
         /\ \A a \in DOMAIN Merged(m) : Merged(m)[a].used => m[a].used
<1> DEFINE h == "core"
           Stays == {a \in DOMAIN m : \/ a = 0
                                     \/ m[a].used
                                     \/ \E p \in DOMAIN m : m[p].used /\ After(m, "core", p) = a}
           Above(a) == {b \in Stays \cup {CoreEnd} : b > a}
           NextStay(a) == Lowest(Above(a))
           n == Merged(m)
<1>h. h \in Heaps
  BY DEF Heaps
<1> HIDE DEF h
<1>p. /\ Header[h] = CoreHeader /\ End[h] = CoreEnd /\ CoreHeader \in Nat /\ CoreHeader >= 1
      /\ CoreEnd \in Nat /\ CoreEnd <= LengthMax /\ LengthMax \in Nat
  BY <1>h, Params DEF h
<1>m. MapOK(m, h)
  BY DEF h
<1>1. /\ DOMAIN n = Stays
      /\ \A a \in Stays : n[a] = IF m[a].used THEN m[a]
                                 ELSE Chunk(NextStay(a) - a - CoreHeader, FALSE)
  BY DEF Merged
<1>2. /\ Stays \subseteq DOMAIN m /\ 0 \in Stays
      /\ \A a \in DOMAIN m : m[a].used => a \in Stays
      /\ \A a \in DOMAIN m : m[a].used /\ After(m, h, a) \in DOMAIN m => After(m, h, a) \in Stays
      /\ \A a \in Stays : a = 0 \/ m[a].used
                          \/ \E p \in DOMAIN m : m[p].used /\ After(m, h, p) = a
  BY <1>m DEF MapOK, Covers, h
<1>n. /\ DOMAIN m \subseteq Nat
      /\ \A a \in DOMAIN m : /\ a \in Nat /\ a + CoreHeader <= CoreEnd
                             /\ m[a].len \in Nat /\ m[a].len <= LengthMax
                             /\ m[a].used \in BOOLEAN
                             /\ After(m, h, a) \in Nat
                             /\ After(m, h, a) = a + CoreHeader + m[a].len
                             /\ After(m, h, a) > a
                             /\ After(m, h, a) <= CoreEnd
  BY <1>h, <1>p, <1>m, Numbers
<1> HIDE DEF n, Stays
<1>3. ASSUME NEW a \in Stays
      PROVE  /\ NextStay(a) \in Stays \cup {CoreEnd} /\ NextStay(a) \in Nat
             /\ NextStay(a) > a /\ NextStay(a) >= a + CoreHeader /\ NextStay(a) <= CoreEnd
             /\ \A b \in Stays : b > a => NextStay(a) <= b
  <2>1. a \in Nat /\ Stays \subseteq Nat /\ CoreEnd > a
    BY <1>2, <1>n, <1>p
  <2>2. Above(a) \subseteq Nat /\ CoreEnd \in Above(a)
    BY <2>1, <1>p
  <2>3. NextStay(a) \in Above(a) /\ \A b \in Above(a) : NextStay(a) <= b
    <3> HIDE DEF Above
    <3> QED BY <2>2, LowestIs
  <2>4. \A b \in Stays : b > a => NextStay(a) <= b
    BY <2>3
  <2>5. NextStay(a) <= CoreEnd
    BY <2>2, <2>3
  <2>6. NextStay(a) \in Stays \cup {CoreEnd} /\ NextStay(a) > a /\ NextStay(a) \in Nat
    BY <2>2, <2>3
  <2> HIDE DEF NextStay
  <2>7. NextStay(a) >= a + CoreHeader
    <3>1. CASE NextStay(a) = CoreEnd
      BY <3>1, <1>2, <1>n
    <3>2. CASE NextStay(a) \in Stays
      <4>1. After(m, h, a) <= NextStay(a)
        BY <3>2, <2>6, <1>2, <1>m DEF MapOK, Covers
      <4> QED BY <4>1, <2>6, <1>2, <1>n, <1>p
    <3> QED BY <3>1, <3>2, <2>6
  <2> QED BY <2>4, <2>5, <2>6, <2>7
<1> HIDE DEF NextStay
<1>4. \A a \in Stays : m[a].used => n[a] = m[a] /\ After(n, h, a) = After(m, h, a)
  BY <1>1 DEF After
<1>5. ASSUME NEW a \in Stays, ~m[a].used
      PROVE  /\ n[a] = Chunk(NextStay(a) - a - CoreHeader, FALSE)
             /\ n[a].len = NextStay(a) - a - CoreHeader /\ n[a].used = FALSE
             /\ After(n, h, a) = NextStay(a)
  <2>1. n[a] = Chunk(NextStay(a) - a - CoreHeader, FALSE)
    BY <1>1, <1>5
  <2>2. n[a].len = NextStay(a) - a - CoreHeader /\ n[a].used = FALSE
    BY <2>1 DEF Chunk
  <2>3. a \in Nat /\ NextStay(a) \in Nat
    BY <1>2, <1>n, <1>3
  <2>4. After(n, h, a) = a + CoreHeader + n[a].len
    BY <1>p DEF After
  <2>5. ASSUME NEW x \in Nat, x = NextStay(a)
        PROVE  After(n, h, a) = x
    BY <2>2, <2>3, <2>4, <2>5, <1>p
  <2> QED BY <2>1, <2>2, <2>3, <2>5
<1>6. WellFormed(n, h)
  <2> SUFFICES ASSUME NEW a \in Stays
               PROVE  /\ a \in 0 .. CoreEnd - CoreHeader /\ n[a].len \in 0 .. LengthMax
                      /\ n[a] = Chunk(n[a].len, n[a].used) /\ n[a].used \in BOOLEAN
    BY <1>1, <1>p DEF WellFormed
  <2>1. CASE m[a].used
    BY <2>1, <1>4, <1>2, <1>n, <1>p, <1>m DEF MapOK, WellFormed
  <2>2. CASE ~m[a].used
    <3>1. /\ n[a] = Chunk(NextStay(a) - a - CoreHeader, FALSE)
          /\ n[a].len = NextStay(a) - a - CoreHeader /\ n[a].used = FALSE
      BY <2>2, <1>5
    <3>2. NextStay(a) \in Nat /\ NextStay(a) >= a + CoreHeader /\ NextStay(a) <= CoreEnd
      BY <1>3
    <3>3. a \in Nat /\ a + CoreHeader <= CoreEnd
      BY <1>2, <1>n
    <3>4. ASSUME NEW x \in Nat, x = NextStay(a)
          PROVE  n[a].len \in 0 .. LengthMax
      <4>1. x >= a + CoreHeader /\ x <= CoreEnd
        BY <3>2, <3>4
      <4>2. x - a - CoreHeader \in 0 .. LengthMax
        BY <4>1, <3>3, <1>p
      <4> QED BY <4>2, <3>1, <3>4
    <3>5. a \in 0 .. CoreEnd - CoreHeader
      BY <3>3, <1>p
    <3>6. n[a] = Chunk(n[a].len, n[a].used)
      BY <3>1, Zenon
    <3> QED BY <3>1, <3>2, <3>4, <3>5, <3>6
  <2> QED BY <2>1, <2>2
<1>7. Covers(n, h)
  <2>1. ASSUME NEW a \in Stays
        PROVE  After(n, h, a) \in Stays \cup {End[h]}
    <3>1. CASE m[a].used
      BY <3>1, <1>4, <1>2, <1>m DEF MapOK, Covers
    <3>2. CASE ~m[a].used
      BY <3>2, <1>5, <1>3, <1>p
    <3> QED BY <3>1, <3>2
  <2>2. ASSUME NEW a \in Stays, NEW b \in Stays, a < b
        PROVE  After(n, h, a) <= b
    <3>1. CASE m[a].used
      BY <3>1, <2>2, <1>4, <1>2, <1>m DEF MapOK, Covers
    <3>2. CASE ~m[a].used
      <4>1. a \in Nat /\ b \in Nat
        BY <1>2, <1>n
      <4>2. NextStay(a) <= b
        BY <2>2, <4>1, <1>3
      <4> QED BY <3>2, <4>2, <1>5
    <3> QED BY <3>1, <3>2
  <2> QED BY <2>1, <2>2, <1>1, <1>2 DEF Covers
<1>8. NoFreePair(n, h)
  <2> SUFFICES ASSUME NEW a \in Stays, ~n[a].used, After(n, h, a) \in Stays
               PROVE  n[After(n, h, a)].used
    BY <1>1 DEF NoFreePair
  <2>1. ~m[a].used /\ After(n, h, a) = NextStay(a) /\ NextStay(a) \in Stays
    BY <1>4, <1>5
  <2>2. ~(\E p \in DOMAIN m : m[p].used /\ After(m, h, p) = NextStay(a))
    <3> SUFFICES ASSUME NEW p \in DOMAIN m, m[p].used, After(m, h, p) = NextStay(a)
                 PROVE  FALSE
      OBVIOUS
    <3>1. p \in Stays /\ p < NextStay(a) /\ p # a
      BY <2>1, <1>2, <1>n
    <3>2. ~(p > a)
      BY <3>1, <1>3, <1>2, <1>n
    <3>3. p < a
      BY <3>1, <3>2, <1>2, <1>n
    <3>4. After(m, h, p) <= a
      BY <3>3, <1>2, <1>m DEF MapOK, Covers
    <3> QED BY <3>4, <1>3, <1>2, <1>n
  <2>3. NextStay(a) # 0
    BY <1>3, <1>2, <1>n
  <2>4. m[NextStay(a)].used
    BY <2>1, <2>2, <2>3, <1>2
  <2> QED BY <2>1, <2>4, <1>4
<1> QED BY <1>1, <1>2, <1>4, <1>5, <1>6, <1>7, <1>8 DEF MapOK, h, n

-----------------------------------------------------------------------------
(* Both heaps.                                                             *)

HeapsOK(c) ==
  /\ DOMAIN c = Heaps
  /\ \A h \in Heaps : MapOK(c[h], h)
  /\ NoFreePair(c["core"], "core")

\* The chunk at a is in use and has len bytes.
Block(c, h, a, len) == a \in DOMAIN c[h] /\ c[h][a] = Chunk(len, TRUE)

(* A chunk of a sound heap is in use or free.                              *)
LEMMA UsedIsBlock ==
  ASSUME NEW h \in Heaps, NEW c, HeapsOK(c), NEW a \in DOMAIN c[h]
  PROVE  /\ c[h][a].used => Block(c, h, a, c[h][a].len)
         /\ \A len : Block(c, h, a, len) => c[h][a].used /\ c[h][a].len = len
<1>1. c[h][a] = Chunk(c[h][a].len, c[h][a].used) /\ c[h][a].used \in BOOLEAN
  BY DEF HeapsOK, MapOK, WellFormed
<1>2. ASSUME NEW len, Block(c, h, a, len)
      PROVE  c[h][a].used /\ c[h][a].len = len
  BY <1>2 DEF Block, Chunk
<1> QED BY <1>1, <1>2 DEF Block

\* d has one block more than c, where there was none.
Added(c, d, h, b, size) ==
  /\ h \in Heaps /\ b \in 0 .. End[h]
  /\ HeapsOK(d)
  /\ \A len : ~Block(c, h, b, len)
  /\ \A k \in Heaps : \A a, len :
       Block(d, k, a, len) <=> Block(c, k, a, len) \/ (k = h /\ a = b /\ len = size)

\* No free chunk has room for size bytes and a header.
NoRoom(c, h, size) ==
  \A a \in DOMAIN c[h] : c[h][a].used \/ c[h][a].len < size + Header[h]

(* The core's allocation adds one block where there was none.              *)
LEMMA AllocateOK ==
  ASSUME NEW c, HeapsOK(c), NEW h \in Heaps, NEW size \in Sizes,
         NEW g, g = Allocate(c, h, size)
  PROVE  \/ g.at = NoPlace /\ g.chunks = c /\ NoRoom(c, h, size)
         \/ \E b : g.at = <<h, b>> /\ Added(c, g.chunks, h, b, size)
<1> DEFINE m == c[h]
           fit == {p \in DOMAIN m : ~m[p].used /\ m[p].len >= size + Header[h]}
           a == Lowest(fit)
           b == a + m[a].len - size
           len1 == m[a].len - size - Header[h]
           n == Parted(m, a, Chunk(len1, FALSE), b, Chunk(size, TRUE))
<1>s. size \in Nat /\ size >= 1
  BY HeapAssumption
<1>m. MapOK(m, h) /\ DOMAIN c = Heaps
  BY DEF HeapsOK
<1>1. CASE fit = {}
  <2>1. g.at = NoPlace /\ g.chunks = c
    BY <1>1 DEF Allocate
  <2>2. NoRoom(c, h, size)
    BY <1>1, <1>s, <1>m, Numbers, Params DEF NoRoom
  <2> QED BY <2>1, <2>2
<1>2. CASE fit # {}
  <2>1. a \in DOMAIN m /\ ~m[a].used /\ m[a].len >= size + Header[h]
    <3>1. fit \subseteq Nat
      BY <1>m, Numbers
    <3>2. a \in fit
      <4> HIDE DEF fit
      <4> QED BY <1>2, <3>1, LowestIs
    <3> QED BY <3>2
  <2>2. g.at = <<h, b>> /\ g.chunks = [c EXCEPT ![h] = n]
    BY <1>2 DEF Allocate
  <2> HIDE DEF fit, a
  <2>3. /\ a \in Nat /\ m[a].len \in Nat /\ Header[h] \in Nat
        /\ len1 \in Nat /\ len1 + size + Header[h] = m[a].len
        /\ b = a + Header[h] + len1
    BY <2>1, <1>m, <1>s, Numbers, Params
  <2> HIDE DEF b
  <2> HIDE DEF len1
  <2>4. n = Parted(m, a, Chunk(len1, FALSE), b, Chunk(size, TRUE))
    OBVIOUS
  <2> HIDE DEF n, m
  <2>5. /\ b \in Nat /\ b <= End[h] - Header[h] /\ b \notin DOMAIN m
        /\ DOMAIN n = DOMAIN m \cup {b}
        /\ n[a] = Chunk(len1, FALSE) /\ n[b] = Chunk(size, TRUE)
        /\ \A p \in DOMAIN m \ {a} : n[p] = m[p]
        /\ After(n, h, a) = b /\ After(n, h, b) = After(m, h, a)
        /\ \A p \in DOMAIN m \ {a} : After(n, h, p) = After(m, h, p)
        /\ MapOK(n, h)
    <3> DEFINE first == Chunk(len1, FALSE)
               second == Chunk(size, TRUE)
    <3>1. /\ IsChunk(first) /\ first.len = len1
          /\ IsChunk(second) /\ second.len = size
      BY <1>s, <2>3, ChunkFields
    <3>2. n = Parted(m, a, first, b, second)
      BY <2>4
    <3> HIDE DEF first, second
    <3>3. IsCut(m, h, a, first, b, second)
      BY <3>1, <2>1, <2>3 DEF IsCut
    <3>5. CutKeeps(m, h, a, first, b, second, n) /\ MapOK(n, h)
      BY <3>2, <3>3, <1>m, Split
    <3>4. /\ b \in Nat /\ b <= End[h] - Header[h] /\ b \notin DOMAIN m
          /\ DOMAIN n = DOMAIN m \cup {b}
          /\ n[a] = first /\ n[b] = second
          /\ \A p \in DOMAIN m \ {a} : n[p] = m[p]
          /\ After(n, h, a) = b /\ After(n, h, b) = After(m, h, a)
          /\ \A p \in DOMAIN m \ {a} : After(n, h, p) = After(m, h, p)
          /\ MapOK(n, h)
      BY <3>5 DEF CutKeeps
    <3> QED BY <3>4 DEF first, second
  <2>6. g.chunks[h] = n /\ DOMAIN g.chunks = Heaps
        /\ \A k \in Heaps \ {h} : g.chunks[k] = c[k]
    BY <2>2, <1>m
  <2>7. n[a].used = FALSE /\ n[b].used = TRUE
    BY <2>5 DEF Chunk
  <2>8. NoFreePair(m, h) => NoFreePair(n, h)
    <3> SUFFICES ASSUME NoFreePair(m, h),
                        NEW p \in DOMAIN n, ~n[p].used, After(n, h, p) \in DOMAIN n
                 PROVE  n[After(n, h, p)].used
      BY DEF NoFreePair
    <3>1. CASE p = a
      BY <3>1, <2>5, <2>7
    <3>2. CASE p \in DOMAIN m \ {a}
      <4>1. After(m, h, p) \in DOMAIN m
        <5>1. After(m, h, p) \in DOMAIN m \cup {b} /\ After(m, h, p) \in DOMAIN m \cup {End[h]}
          BY <3>2, <2>5, <1>m DEF MapOK, Covers
        <5>2. b # End[h]
          BY <2>5, Params
        <5> QED BY <5>1, <5>2
      <4>2. m[After(m, h, p)].used
        BY <4>1, <3>2, <2>5 DEF NoFreePair
      <4>3. After(m, h, p) # a
        BY <4>2, <2>1 DEF m
      <4> QED BY <3>2, <4>1, <4>2, <4>3, <2>5
    <3> QED BY <3>1, <3>2, <2>5, <2>7
  <2>9. HeapsOK(g.chunks)
    BY <2>5, <2>6, <2>8 DEF HeapsOK, Heaps, m
  <2>10. ASSUME NEW k \in Heaps, NEW p, NEW len
         PROVE  Block(g.chunks, k, p, len)
                  <=> Block(c, k, p, len) \/ (k = h /\ p = b /\ len = size)
    <3>1. CASE k # h
      BY <3>1, <2>6 DEF Block
    <3>2. CASE k = h /\ p = b
      BY <3>2, <2>5, <2>6 DEF Block, Chunk, m
    <3>3. CASE k = h /\ p = a
      <4>1. ~Block(c, k, p, len)
        BY <3>3, <2>1 DEF Block, Chunk, m
      <4>2. ~Block(g.chunks, k, p, len) /\ p # b
        BY <3>3, <2>1, <2>5, <2>6, <2>7 DEF Block, Chunk, m
      <4> QED BY <4>1, <4>2
    <3>4. CASE k = h /\ p # b /\ p # a
      BY <3>4, <2>5, <2>6 DEF Block, m
    <3> QED BY <3>1, <3>2, <3>3, <3>4
  <2>11. b \in 0 .. End[h]
    BY <2>5, Params
  <2>12. \A len : ~Block(c, h, b, len)
    BY <2>5 DEF Block, m
  <2>13. Added(c, g.chunks, h, b, size)
    BY <2>9, <2>10, <2>11, <2>12 DEF Added
  <2> QED BY <2>2, <2>13
<1> QED BY <1>1, <1>2

(* So does the host's, when there is room for another header.              *)
LEMMA HostAllocateOK ==
  ASSUME NEW c, HeapsOK(c), NEW size \in Sizes,
         NEW g, g = HostAllocate(c, size), g.at # NoPlace, ~g.exact
  PROVE  \E b : g.at = <<"shared", b>> /\ Added(c, g.chunks, "shared", b, size)
<1> DEFINE h == "shared"
           m == c["shared"]
           fit == {p \in DOMAIN m : ~m[p].used /\ m[p].len >= size}
           a == Lowest(fit)
           b == a + size + SharedHeader
           left == m[a].len - size - SharedHeader
           rest == Chunk(IF left < 0 THEN left + LengthMax + 1 ELSE left, FALSE)
           whole == {p \in DOMAIN m : p <= b \/ p >= b + SharedHeader}
           w == [p \in whole |-> m[p]]
           first == Chunk(size, TRUE)
           n == Parted(w, a, first, b, rest)
<1>s. size \in Nat /\ size >= 1 /\ h \in Heaps /\ Header[h] = SharedHeader
  BY HeapAssumption, Params DEF Heaps
<1>m. MapOK(m, h) /\ DOMAIN c = Heaps
  BY <1>s DEF HeapsOK
<1>f. fit # {}
  BY DEF HostAllocate
<1>1. a \in DOMAIN m /\ ~m[a].used /\ m[a].len >= size
  <2>1. fit \subseteq Nat
    BY <1>m, <1>s, Numbers
  <2>2. a \in fit
    <3> HIDE DEF fit
    <3> QED BY <1>f, <2>1, LowestIs
  <2> QED BY <2>2
<1>2. /\ g.at = <<h, a>> /\ g.chunks = [c EXCEPT !["shared"] = n]
      /\ g.exact = (left < 0)
  BY <1>f DEF HostAllocate
<1> HIDE DEF fit, a
<1>e. ~(left < 0)
  BY <1>2
<1>3. /\ a \in Nat /\ m[a].len \in Nat /\ SharedHeader \in Nat /\ SharedHeader >= 1
      /\ left \in Nat /\ size + left + Header[h] = m[a].len
      /\ b = a + Header[h] + size
      /\ a + Header[h] <= End[h] /\ End[h] \in Nat
      /\ After(m, h, a) = a + Header[h] + m[a].len
  BY <1>e, <1>1, <1>m, <1>s, Numbers, Params
<1> HIDE DEF left
<1>4. rest = Chunk(left, FALSE)
  BY <1>e
<1> HIDE DEF b, rest
<1>5. /\ IsChunk(first) /\ first.len = size /\ first.used = TRUE
      /\ IsChunk(rest) /\ rest.len = left /\ rest.used = FALSE
  BY <1>s, <1>3, <1>4, ChunkFields
<1> HIDE DEF first
<1>6. whole = DOMAIN m
  <2> SUFFICES ASSUME NEW p \in DOMAIN m
               PROVE  p <= b \/ p >= b + SharedHeader
    OBVIOUS
  <2>1. p \in Nat
    BY <1>m, <1>s, Numbers
  <2>2. CASE p <= a
    BY <2>1, <2>2, <1>3, <1>s
  <2>3. CASE p > a
    <3>1. After(m, h, a) <= p
      BY <2>1, <2>3, <1>1, <1>3, <1>m DEF MapOK, Covers
    <3> QED BY <2>1, <3>1, <1>3, <1>s
  <2> QED BY <2>1, <2>2, <2>3, <1>3
<1> HIDE DEF whole
<1>w. DOMAIN w = DOMAIN m /\ \A p \in DOMAIN m : w[p] = m[p]
  BY <1>6
<1> HIDE DEF w, n, m
<1>c. /\ \A p \in DOMAIN m : After(w, h, p) = After(m, h, p)
      /\ MapOK(w, h)
  <2>1. \A p \in DOMAIN m : After(w, h, p) = After(m, h, p)
    BY <1>w DEF After
  <2> QED BY <2>1, <1>w, <1>m DEF MapOK, WellFormed, Covers
<1>7. IsCut(w, h, a, first, b, rest)
  BY <1>1, <1>3, <1>5, <1>w DEF IsCut
<1>8. CutKeeps(w, h, a, first, b, rest, n) /\ MapOK(n, h)
  <2>1. n = Parted(w, a, first, b, rest)
    BY DEF n
  <2> QED BY <2>1, <1>7, <1>c, <1>s, Split
<1>d. /\ DOMAIN n = DOMAIN m \cup {b} /\ b \notin DOMAIN m
      /\ n[a] = first /\ n[b] = rest
      /\ \A p \in DOMAIN m \ {a} : n[p] = m[p]
  BY <1>8, <1>w DEF CutKeeps
<1>9. g.chunks[h] = n /\ DOMAIN g.chunks = Heaps /\ g.chunks["core"] = c["core"]
  BY <1>2, <1>m, <1>s DEF Heaps, m
<1>10. HeapsOK(g.chunks)
  BY <1>8, <1>9 DEF HeapsOK, Heaps
<1>11. ASSUME NEW k \in Heaps, NEW p, NEW len
       PROVE  Block(g.chunks, k, p, len)
                <=> Block(c, k, p, len) \/ (k = h /\ p = a /\ len = size)
  <2>1. CASE k # h
    BY <2>1, <1>9 DEF Block, Heaps
  <2>2. CASE k = h /\ p = a
    <3>1. ~Block(c, k, p, len)
      BY <2>2, <1>1 DEF Block, Chunk, m
    <3>2. Block(g.chunks, k, p, len) <=> Chunk(size, TRUE) = Chunk(len, TRUE)
      BY <2>2, <1>1, <1>9, <1>d DEF Block, first
    <3>3. Chunk(size, TRUE) = Chunk(len, TRUE) <=> len = size
      BY DEF Chunk
    <3> QED BY <3>1, <3>2, <3>3, <2>2
  <2>3. CASE k = h /\ p = b
    <3>1. ~Block(c, k, p, len) /\ p # a
      BY <2>3, <1>1, <1>d DEF Block, m
    <3>2. ~Block(g.chunks, k, p, len)
      BY <2>3, <1>5, <1>9, <1>d DEF Block, Chunk
    <3> QED BY <3>1, <3>2
  <2>4. CASE k = h /\ p # b /\ p # a
    BY <2>4, <1>9, <1>d DEF Block, m
  <2> QED BY <2>1, <2>2, <2>3, <2>4
<1>12. \A len : ~Block(c, h, a, len)
  BY <1>1 DEF Block, Chunk, m
<1>13. a \in 0 .. End[h]
  BY <1>3, <1>s
<1>14. Added(c, g.chunks, h, a, size)
  BY <1>s, <1>10, <1>11, <1>12, <1>13 DEF Added
<1> QED BY <1>2, <1>14

\* d has blocks of c only, and all that the symbol table points to.
Kept(c, d) ==
  /\ HeapsOK(d)
  /\ \A k \in Heaps : \A a, len : Block(d, k, a, len) => Block(c, k, a, len)
  /\ \A k \in Heaps : \A a, len :
       Block(c, k, a, len) /\ <<k, a>> \in Roots => Block(d, k, a, len)

\* All that is in use in heap h of c is pointed to.
AllRoots(c, h) == \A a, len : Block(c, h, a, len) => <<h, a>> \in Roots

\* d is c with the blocks of n for those of heap h.
Relaid(c, h, n, d) ==
  /\ HeapsOK(d)
  /\ \A a, len : Block(d, h, a, len) <=> a \in DOMAIN n /\ n[a] = Chunk(len, TRUE)
  /\ \A k \in Heaps \ {h} : \A a, len : Block(d, k, a, len) <=> Block(c, k, a, len)

(* A heap put in the place of another; the core's heap is merged.          *)
LEMMA Consolidate ==
  ASSUME NEW c, HeapsOK(c), NEW h \in Heaps, NEW n, MapOK(n, h),
         NEW k \in Heaps, k = "core" \/ k = h,
         NEW d, d = Consolidated([c EXCEPT ![h] = n], k)
  PROVE  Relaid(c, h, n, d)
<1> DEFINE e == [c EXCEPT ![h] = n]
<1>1. /\ DOMAIN e = Heaps /\ e[h] = n /\ \A j \in Heaps \ {h} : e[j] = c[j]
      /\ \A j \in Heaps : MapOK(e[j], j)
  BY DEF HeapsOK
<1>d. d = Consolidated(e, k)
  OBVIOUS
<1> HIDE DEF e
<1>2. CASE k = "core"
  <2>1. d = [e EXCEPT !["core"] = Merged(e["core"])]
    BY <1>2, <1>d DEF Consolidated
  <2>2. /\ DOMAIN d = Heaps /\ d["core"] = Merged(e["core"]) /\ d["shared"] = e["shared"]
    BY <2>1, <1>1 DEF Heaps
  <2>3. MapOK(e["core"], "core") /\ MapOK(e["shared"], "shared")
    BY <1>1 DEF Heaps
  <2>4. /\ MapOK(d["core"], "core") /\ NoFreePair(d["core"], "core")
        /\ DOMAIN d["core"] \subseteq DOMAIN e["core"]
        /\ \A a \in DOMAIN e["core"] :
             e["core"][a].used => a \in DOMAIN d["core"] /\ d["core"][a] = e["core"][a]
        /\ \A a \in DOMAIN d["core"] : d["core"][a].used => e["core"][a].used
    BY <2>2, <2>3, MergedKeeps
  <2>5. HeapsOK(d)
    BY <2>2, <2>3, <2>4 DEF HeapsOK, Heaps
  <2>6. ASSUME NEW a, NEW len
        PROVE  Block(d, "core", a, len) <=> Block(e, "core", a, len)
    <3>1. Chunk(len, TRUE).used
      BY DEF Chunk
    <3>2. ASSUME Block(d, "core", a, len)
          PROVE  Block(e, "core", a, len)
      <4>1. a \in DOMAIN d["core"] /\ d["core"][a].used /\ d["core"][a] = Chunk(len, TRUE)
        BY <3>1, <3>2, Zenon DEF Block
      <4>2. a \in DOMAIN e["core"] /\ e["core"][a].used
        BY <4>1, <2>4, Zenon
      <4>3. d["core"][a] = e["core"][a]
        BY <4>2, <2>4, Zenon
      <4> QED BY <4>1, <4>2, <4>3, Zenon DEF Block
    <3>3. ASSUME Block(e, "core", a, len)
          PROVE  Block(d, "core", a, len)
      <4>1. a \in DOMAIN e["core"] /\ e["core"][a].used /\ e["core"][a] = Chunk(len, TRUE)
        BY <3>1, <3>3, Zenon DEF Block
      <4>2. a \in DOMAIN d["core"] /\ d["core"][a] = e["core"][a]
        BY <4>1, <2>4, Zenon
      <4> QED BY <4>1, <4>2, Zenon DEF Block
    <3> QED BY <3>2, <3>3
  <2>7. \A j \in Heaps : \A a, len : Block(d, j, a, len) <=> Block(e, j, a, len)
    BY <2>2, <2>6 DEF Block, Heaps
  <2>8. \A j \in Heaps \ {h} : \A a, len : Block(e, j, a, len) <=> Block(c, j, a, len)
    BY <1>1 DEF Block
  <2>9. \A a, len : Block(e, h, a, len) <=> a \in DOMAIN n /\ n[a] = Chunk(len, TRUE)
    BY <1>1 DEF Block
  <2> QED BY <2>5, <2>7, <2>8, <2>9 DEF Relaid
<1>3. CASE h = "shared" /\ k = h
  <2>1. d = e
    BY <1>3, <1>d DEF Consolidated
  <2>2. HeapsOK(d)
    BY <1>1, <1>3, <2>1 DEF HeapsOK, Heaps
  <2> QED BY <1>1, <2>1, <2>2 DEF Block, Relaid
<1> QED BY <1>2, <1>3 DEF Heaps

(* A collection keeps what the symbol table points to, and nothing else.   *)
LEMMA CollectedOK ==
  ASSUME NEW c, HeapsOK(c), NEW h \in Heaps, NEW d, d = Collected(c, h)
  PROVE  Kept(c, d) /\ AllRoots(d, h)
<1> DEFINE swept == [a \in DOMAIN c[h] |-> Chunk(c[h][a].len, c[h][a].used /\ <<h, a>> \in Roots)]
<1>1. \A a \in DOMAIN c[h] : /\ c[h][a].len \in Nat /\ c[h][a].used \in BOOLEAN
                             /\ c[h][a] = Chunk(c[h][a].len, c[h][a].used)
  BY Numbers DEF HeapsOK, MapOK, WellFormed
<1>2. ASSUME NEW a \in DOMAIN c[h]
      PROVE  /\ swept[a].len = c[h][a].len
             /\ swept[a].used = (c[h][a].used /\ <<h, a>> \in Roots)
             /\ swept[a].used \in BOOLEAN
             /\ swept[a] = Chunk(c[h][a].len, swept[a].used)
  BY <1>1 DEF Chunk
<1>s. DOMAIN swept = DOMAIN c[h]
  OBVIOUS
<1>3. MapOK(swept, h)
  <2> HIDE DEF swept
  <2> QED BY <1>2, <1>s, Release DEF HeapsOK
<1>4. \A a, len : a \in DOMAIN swept /\ swept[a] = Chunk(len, TRUE)
                  <=> Block(c, h, a, len) /\ <<h, a>> \in Roots
  <2> SUFFICES ASSUME NEW a \in DOMAIN c[h], NEW len
               PROVE  swept[a] = Chunk(len, TRUE)
                        <=> c[h][a] = Chunk(len, TRUE) /\ <<h, a>> \in Roots
    BY <1>s DEF Block
  <2> HIDE DEF swept
  <2>2. swept[a] = Chunk(len, TRUE) <=> c[h][a].len = len /\ swept[a].used = TRUE
    <3>1. ASSUME NEW x, x = c[h][a].len, NEW v, v = swept[a].used
          PROVE  swept[a] = Chunk(len, TRUE) <=> x = len /\ v = TRUE
      <4>1. swept[a] = Chunk(x, v)
        BY <1>2, <3>1, Zenon
      <4>2. Chunk(x, v) = Chunk(len, TRUE) <=> x = len /\ v = TRUE
        BY DEF Chunk
      <4> QED BY <4>1, <4>2, Zenon
    <3> QED BY <3>1
  <2>3. c[h][a] = Chunk(len, TRUE) <=> c[h][a].len = len /\ c[h][a].used = TRUE
    <3>1. ASSUME NEW x, x = c[h][a].len, NEW v, v = c[h][a].used
          PROVE  c[h][a] = Chunk(len, TRUE) <=> x = len /\ v = TRUE
      <4>1. c[h][a] = Chunk(x, v)
        BY <1>1, <3>1, Zenon
      <4>2. Chunk(x, v) = Chunk(len, TRUE) <=> x = len /\ v = TRUE
        BY DEF Chunk
      <4> QED BY <4>1, <4>2, Zenon
    <3> QED BY <3>1
  <2> QED BY <2>2, <2>3, <1>1, <1>2
<1>5. CASE swept = c[h]
  <2>1. d = c
    BY <1>5 DEF Collected
  <2>2. \A a, len : Block(c, h, a, len) => <<h, a>> \in Roots
    BY <1>4, <1>5 DEF Block
  <2> QED BY <2>1, <2>2 DEF Kept, AllRoots
<1>6. CASE swept # c[h]
  <2>1. d = Consolidated([c EXCEPT ![h] = swept], h)
    BY <1>6 DEF Collected
  <2> HIDE DEF swept
  <2>2. Relaid(c, h, swept, d)
    BY <2>1, <1>3, Consolidate
  <2>3. \A a, len : Block(d, h, a, len) <=> Block(c, h, a, len) /\ <<h, a>> \in Roots
    BY <2>2, <1>4 DEF Relaid
  <2>4. Kept(c, d)
    BY <2>2, <2>3 DEF Kept, Relaid
  <2> QED BY <2>3, <2>4 DEF AllRoots
<1> QED BY <1>5, <1>6

\* d has the blocks of c without the one at a of heap h.
Without(c, h, a, d) ==
  /\ HeapsOK(d)
  /\ \A k \in Heaps : \A p, len :
       Block(d, k, p, len) <=> Block(c, k, p, len) /\ ~(k = h /\ p = a)

(* freeMemoryInHeap takes one block away.                                  *)
LEMMA FreedOK ==
  ASSUME NEW c, HeapsOK(c), NEW h \in Heaps, NEW a \in DOMAIN c[h],
         NEW d, d = Freed(c, <<h, a>>)
  PROVE  Without(c, h, a, d)
<1> DEFINE n == [c[h] EXCEPT ![a] = Chunk(@.len, FALSE)]
<1>0. <<h, a>> # NoPlace
  BY DEF NoPlace, Heaps
<1>1. d = Consolidated([c EXCEPT ![h] = n], "core")
  BY <1>0 DEF Freed
<1>2. \A p \in DOMAIN c[h] : /\ c[h][p].len \in Nat /\ c[h][p].used \in BOOLEAN
                             /\ c[h][p] = Chunk(c[h][p].len, c[h][p].used)
  BY Numbers DEF HeapsOK, MapOK, WellFormed
<1>3. /\ DOMAIN n = DOMAIN c[h]
      /\ n[a] = Chunk(c[h][a].len, FALSE)
      /\ \A p \in DOMAIN c[h] \ {a} : n[p] = c[h][p]
  OBVIOUS
<1> HIDE DEF n
<1>4. n[a].len = c[h][a].len /\ n[a].used = FALSE
  BY <1>3 DEF Chunk
<1>5. \A p \in DOMAIN c[h] : n[p] = Chunk(c[h][p].len, n[p].used) /\ n[p].used \in BOOLEAN
  <2> SUFFICES ASSUME NEW p \in DOMAIN c[h]
               PROVE  n[p] = Chunk(c[h][p].len, n[p].used) /\ n[p].used \in BOOLEAN
    OBVIOUS
  <2>1. CASE p = a
    BY <2>1, <1>3, <1>4
  <2>2. CASE p # a
    BY <2>2, <1>2, <1>3
  <2> QED BY <2>1, <2>2
<1>6. MapOK(n, h)
  BY <1>3, <1>5, Release DEF HeapsOK
<1>7. Relaid(c, h, n, d)
  BY <1>1, <1>6, Consolidate DEF Heaps
<1>8. \A len : n[a] # Chunk(len, TRUE)
  BY <1>4 DEF Chunk
<1>9. ASSUME NEW p, NEW len
      PROVE  Block(d, h, p, len) <=> Block(c, h, p, len) /\ p # a
  <2>1. Block(d, h, p, len) <=> p \in DOMAIN n /\ n[p] = Chunk(len, TRUE)
    BY <1>7 DEF Relaid
  <2>2. CASE p = a
    BY <2>1, <2>2, <1>8
  <2>3. CASE p # a
    BY <2>1, <2>3, <1>3 DEF Block
  <2> QED BY <2>2, <2>3
<1> QED BY <1>7, <1>9 DEF Relaid, Without

\* getHeapMemory finds nothing: all that is left in use is pointed to, if it collects.
TryFails(c, h, size, collect, g) ==
  /\ g.at = NoPlace /\ Kept(c, g.chunks) /\ NoRoom(g.chunks, h, size)
  /\ collect => AllRoots(g.chunks, h)

\* It returns a block that was not in use in e, what a collection left of c.
TryGets(c, h, size, collect, g) ==
  \E e, b : /\ g.at = <<h, b>> /\ Kept(c, e) /\ Added(e, g.chunks, h, b, size)
            /\ ~collect => e = c

LEMMA TryHeapOK ==
  ASSUME NEW c, HeapsOK(c), NEW h \in Heaps, NEW size \in Sizes, NEW collect \in BOOLEAN,
         NEW g, g = TryHeap(c, h, size, collect)
  PROVE  TryFails(c, h, size, collect, g) \/ TryGets(c, h, size, collect, g)
<1>1. Kept(c, c)
  BY DEF Kept
<1>2. ASSUME NEW b
      PROVE  <<h, b>> # NoPlace
  BY DEF NoPlace, Heaps
<1> DEFINE first == Allocate(c, h, size)
           e == Collected(c, h)
           second == Allocate(e, h, size)
<1>a. \/ first.at = NoPlace /\ first.chunks = c /\ NoRoom(c, h, size)
      \/ \E b : first.at = <<h, b>> /\ Added(c, first.chunks, h, b, size)
  BY AllocateOK
<1>b. g = IF first.at # NoPlace \/ ~collect THEN first ELSE second
  BY DEF TryHeap
<1>c. Kept(c, e) /\ AllRoots(e, h)
  BY CollectedOK
<1>d. HeapsOK(e)
  BY <1>c DEF Kept
<1> HIDE DEF first, e
<1>e. \/ second.at = NoPlace /\ second.chunks = e /\ NoRoom(e, h, size)
      \/ \E b : second.at = <<h, b>> /\ Added(e, second.chunks, h, b, size)
  BY <1>d, AllocateOK
<1> HIDE DEF second
<1>3. CASE first.at # NoPlace
  BY <1>1, <1>3, <1>a, <1>b DEF TryGets
<1>4. CASE first.at = NoPlace /\ ~collect
  <2>1. first.chunks = c /\ NoRoom(c, h, size)
    BY <1>2, <1>4, <1>a
  <2> QED BY <2>1, <1>1, <1>4, <1>b DEF TryFails
<1>5. CASE first.at = NoPlace /\ collect
  BY <1>5, <1>b, <1>c, <1>e DEF TryFails, TryGets
<1> QED BY <1>3, <1>4, <1>5

(* Nothing is lost in a row of steps that lose nothing.                    *)
LEMMA KeptTrans ==
  ASSUME NEW c, NEW d, NEW e, Kept(c, d), Kept(d, e)
  PROVE  Kept(c, e)
BY Zenon DEF Kept

\* As TryFails and TryGets, of getHeapMemory with its two heaps.
GetFails(c, size, collect, g) ==
  /\ g.at = NoPlace /\ Kept(c, g.chunks) /\ NoRoom(g.chunks, "shared", size)
  /\ collect => AllRoots(g.chunks, "shared")

GetGets(c, shared, size, g) ==
  \E e, h, b : /\ g.at = <<h, b>> /\ Kept(c, e) /\ Added(e, g.chunks, h, b, size)
               /\ shared => h = "shared"

LEMMA GetHeapOK ==
  ASSUME NEW c, HeapsOK(c), NEW shared \in BOOLEAN, NEW size \in Sizes,
         NEW collect \in BOOLEAN, NEW g, g = GetHeap(c, shared, size, collect)
  PROVE  GetFails(c, size, collect, g) \/ GetGets(c, shared, size, g)
<1> DEFINE core == TryHeap(c, "core", size, collect)
           ext == TryHeap(c, "shared", size, collect)
           second == TryHeap(core.chunks, "shared", size, collect)
<1>1. "core" \in Heaps /\ "shared" \in Heaps
  BY DEF Heaps
<1>2. TryFails(c, "core", size, collect, core) \/ TryGets(c, "core", size, collect, core)
  BY <1>1, TryHeapOK
<1>3. TryFails(c, "shared", size, collect, ext) \/ TryGets(c, "shared", size, collect, ext)
  BY <1>1, TryHeapOK
<1>4. g = IF shared THEN ext ELSE IF core.at # NoPlace THEN core ELSE second
  BY DEF GetHeap
<1> HIDE DEF core, ext
<1>5. CASE shared
  BY <1>3, <1>4, <1>5 DEF TryFails, TryGets, GetFails, GetGets
<1>6. CASE ~shared /\ core.at # NoPlace
  BY <1>2, <1>4, <1>6 DEF TryFails, TryGets, GetGets
<1>7. CASE ~shared /\ core.at = NoPlace
  <2>1. TryFails(c, "core", size, collect, core)
    BY <1>2, <1>7 DEF TryGets, NoPlace
  <2>2. Kept(c, core.chunks) /\ HeapsOK(core.chunks)
    BY <2>1 DEF TryFails, Kept
  <2>3. \/ TryFails(core.chunks, "shared", size, collect, second)
        \/ TryGets(core.chunks, "shared", size, collect, second)
    BY <1>1, <2>2, TryHeapOK
  <2> HIDE DEF second
  <2>4. g = second
    BY <1>4, <1>7
  <2>5. CASE TryFails(core.chunks, "shared", size, collect, second)
    <3>1. Kept(core.chunks, second.chunks)
      BY <2>5 DEF TryFails
    <3>2. Kept(c, second.chunks)
      BY <2>2, <3>1, KeptTrans
    <3> QED BY <2>4, <2>5, <3>2 DEF TryFails, GetFails
  <2>6. CASE TryGets(core.chunks, "shared", size, collect, second)
    <3>1. PICK e, b : /\ second.at = <<"shared", b>> /\ Kept(core.chunks, e)
                      /\ Added(e, second.chunks, "shared", b, size)
      BY <2>6 DEF TryGets
    <3>2. Kept(c, e)
      BY <2>2, <3>1, KeptTrans
    <3> QED BY <2>4, <3>1, <3>2 DEF GetGets
  <2> QED BY <2>3, <2>5, <2>6
<1> QED BY <1>5, <1>6, <1>7

-----------------------------------------------------------------------------
(* The heaps and the symbol table.                                         *)

\* What the program may use is in use in c.
InUse(c) == \A x \in Usable : \A h, a : vars[x].at = <<h, a>> => Block(c, h, a, vars[x].size)

\* In the course of a statement: c is sound, and in use are also the chunks at
\* temps, which no variable the program may use points to.
Sound(c, temps) ==
  /\ HeapsOK(c) /\ InUse(c)
  /\ \A p \in temps : \E h \in Heaps : \E a, len : p = <<h, a>> /\ Block(c, h, a, len)
  /\ \A x \in Usable : vars[x].at \notin temps
  /\ ~SomeVar => \A h \in Heaps : \A a, len : Block(c, h, a, len) => <<h, a>> \in temps

\* What the symbol table is when a statement starts.
TableOK == TypeOK /\ VarInv

(* What a variable the program may use points to is a root.                *)
LEMMA UsableAt ==
  ASSUME TableOK, NEW x \in Usable
  PROVE  /\ x \in Vars /\ vars[x].at \in Roots /\ vars[x].at # NoPlace /\ SomeVar
         /\ \E h \in Heaps : \E a : /\ vars[x].at = <<h, a>> /\ vars[x].at[1] = h
                                    /\ vars[x].at[2] = a
<1>1. x \in Vars /\ vars[x].at # NoPlace /\ vars[x].at \in Places
  BY DEF Usable, Pointers, TableOK, TypeOK
<1>2. vars[x].type \in {"array", "string"}
  BY <1>1 DEF TableOK, VarInv
<1>3. vars[x].at \in Roots /\ SomeVar
  BY <1>1, <1>2 DEF Roots, SomeVar
<1>4. \E h \in Heaps : \E a : vars[x].at = <<h, a>>
  BY <1>1 DEF Places, Heaps
<1> QED BY <1>1, <1>3, <1>4

LEMMA SoundStart ==
  ASSUME IndInv, error = 0
  PROVE  TableOK /\ Sound(chunks, {})
<1>1. TableOK
  BY DEF IndInv, TableOK
<1>2. HeapsOK(chunks)
  BY DEF IndInv, TypeOK, Tiled, CoreMerged, HeapsOK, MapOK
<1>3. ASSUME NEW x \in Usable, NEW h, NEW a, vars[x].at = <<h, a>>
      PROVE  Block(chunks, h, a, vars[x].size)
  <2>1. vars[x].at[1] = h /\ vars[x].at[2] = a
    BY <1>3
  <2> QED BY <2>1, <1>3 DEF IndInv, HeldInUse, Block
<1>4. ASSUME ~SomeVar, NEW h \in Heaps, NEW a, NEW len, Block(chunks, h, a, len)
      PROVE  FALSE
  <2>1. a \in DOMAIN chunks[h] /\ chunks[h][a].used
    BY <1>2, <1>4, UsedIsBlock DEF Block
  <2> QED BY <2>1, <1>4 DEF IndInv, VarInv
<1> QED BY <1>1, <1>2, <1>3, <1>4 DEF Sound, InUse

LEMMA SoundKept ==
  ASSUME TableOK, NEW c, Sound(c, {}), NEW d, Kept(c, d)
  PROVE  Sound(d, {})
<1>1. ASSUME NEW x \in Usable, NEW h, NEW a, vars[x].at = <<h, a>>
      PROVE  Block(d, h, a, vars[x].size)
  <2>1. <<h, a>> \in Roots /\ h \in Heaps
    BY <1>1, UsableAt
  <2>2. Block(c, h, a, vars[x].size)
    BY <1>1 DEF Sound, InUse
  <2> QED BY <2>1, <2>2 DEF Kept
<1> QED BY <1>1 DEF Sound, Kept, InUse

LEMMA SoundAdded ==
  ASSUME TableOK, NEW c, NEW temps, Sound(c, temps),
         NEW d, NEW h, NEW b, NEW size, Added(c, d, h, b, size)
  PROVE  /\ Sound(d, temps \cup {<<h, b>>}) /\ Block(d, h, b, size)
         /\ <<h, b>> \notin temps /\ h \in Heaps /\ b \in 0 .. End[h]
         /\ \A k \in Heaps : \A a, len : Block(c, k, a, len) => Block(d, k, a, len)
<1>1. /\ Block(d, h, b, size) /\ h \in Heaps /\ b \in 0 .. End[h]
      /\ \A k \in Heaps : \A a, len : Block(c, k, a, len) => Block(d, k, a, len)
  BY DEF Added
<1>2. <<h, b>> \notin temps
  BY DEF Added, Sound
<1>3. ASSUME NEW x \in Usable
      PROVE  /\ \A k, a : vars[x].at = <<k, a>> => Block(d, k, a, vars[x].size)
             /\ vars[x].at \notin temps \cup {<<h, b>>}
  <2>1. PICK k, a : k \in Heaps /\ vars[x].at = <<k, a>>
    BY UsableAt
  <2>2. Block(c, k, a, vars[x].size)
    BY <2>1 DEF Sound, InUse
  <2>3. Block(d, k, a, vars[x].size) /\ <<k, a>> # <<h, b>>
    BY <1>1, <2>1, <2>2 DEF Added
  <2> QED BY <2>1, <2>3 DEF Sound
<1>4. ASSUME NEW p \in temps \cup {<<h, b>>}
      PROVE  \E k \in Heaps : \E a, len : p = <<k, a>> /\ Block(d, k, a, len)
  BY <1>1 DEF Sound
<1>5. ASSUME ~SomeVar, NEW k \in Heaps, NEW a, NEW len, Block(d, k, a, len)
      PROVE  <<k, a>> \in temps \cup {<<h, b>>}
  BY <1>5 DEF Sound, Added
<1>6. HeapsOK(d)
  BY DEF Added
<1> QED BY <1>1, <1>2, <1>3, <1>4, <1>5, <1>6 DEF Sound, InUse

\* d is sound with one more temporary chunk, at.
Gets(c, temps, d, at, size, shared) ==
  \E h \in Heaps : \E b \in 0 .. End[h] :
    /\ at = <<h, b>> /\ at \notin temps /\ (shared => h = "shared")
    /\ Sound(d, temps \cup {at}) /\ Block(d, h, b, size)
    /\ \A k \in Heaps : \A a, len : Block(c, k, a, len) => Block(d, k, a, len)

(* A collection is not needed when there is no variable to refer to what   *)
(* is in use.                                                              *)
LEMMA SoundGet ==
  ASSUME TableOK, NEW c, Sound(c, {}), NEW shared \in BOOLEAN, NEW size \in Sizes,
         NEW collect \in BOOLEAN, ~collect => ~SomeVar,
         NEW g, g = GetHeap(c, shared, size, collect)
  PROVE  \/ g.at = NoPlace /\ Sound(g.chunks, {}) /\ Full(g.chunks["shared"], size)
         \/ \E e : Gets(e, {}, g.chunks, g.at, size, shared)
<1>1. GetFails(c, size, collect, g) \/ GetGets(c, shared, size, g)
  BY GetHeapOK DEF Sound
<1>2. CASE GetFails(c, size, collect, g)
  <2> DEFINE m == g.chunks["shared"]
  <2>1. /\ g.at = NoPlace /\ NoRoom(g.chunks, "shared", size)
        /\ collect => AllRoots(g.chunks, "shared")
    BY <1>2 DEF GetFails
  <2>2. Sound(g.chunks, {})
    BY <1>2, SoundKept DEF GetFails
  <2>3. AllRoots(g.chunks, "shared")
    BY <2>1, <2>2 DEF Sound, AllRoots, Heaps
  <2>4. ASSUME NEW a \in DOMAIN m
        PROVE  IF m[a].used THEN <<"shared", a>> \in Roots ELSE m[a].len < size + SharedHeader
    <3>1. CASE m[a].used
      <4>1. Block(g.chunks, "shared", a, m[a].len)
        BY <3>1, <2>2, UsedIsBlock DEF Sound, Heaps
      <4> QED BY <3>1, <4>1, <2>3 DEF AllRoots
    <3>2. CASE ~m[a].used
      BY <3>2, <2>1 DEF NoRoom, Header, Heaps
    <3> QED BY <3>1, <3>2
  <2> QED BY <2>1, <2>2, <2>4 DEF Full
<1>3. CASE GetGets(c, shared, size, g)
  <2>1. PICK e, h, b : /\ g.at = <<h, b>> /\ Kept(c, e) /\ Added(e, g.chunks, h, b, size)
                       /\ shared => h = "shared"
    BY <1>3 DEF GetGets
  <2>2. Sound(e, {})
    BY <2>1, SoundKept
  <2>3. /\ Sound(g.chunks, {} \cup {<<h, b>>}) /\ Block(g.chunks, h, b, size)
        /\ <<h, b>> \notin {} /\ h \in Heaps /\ b \in 0 .. End[h]
        /\ \A k \in Heaps : \A a, len : Block(e, k, a, len) => Block(g.chunks, k, a, len)
    BY <2>1, <2>2, SoundAdded
  <2> QED BY <2>1, <2>3 DEF Gets
<1> QED BY <1>1, <1>2, <1>3

LEMMA SoundAllocate ==
  ASSUME TableOK, NEW c, NEW temps, Sound(c, temps), NEW size \in Sizes,
         NEW g, g = Allocate(c, "shared", size), g.at # NoPlace
  PROVE  Gets(c, temps, g.chunks, g.at, size, TRUE)
<1>1. PICK b : g.at = <<"shared", b>> /\ Added(c, g.chunks, "shared", b, size)
  BY AllocateOK DEF Sound, Heaps
<1>2. /\ Sound(g.chunks, temps \cup {<<"shared", b>>}) /\ Block(g.chunks, "shared", b, size)
      /\ <<"shared", b>> \notin temps /\ "shared" \in Heaps /\ b \in 0 .. End["shared"]
      /\ \A k \in Heaps : \A a, len : Block(c, k, a, len) => Block(g.chunks, k, a, len)
  BY <1>1, SoundAdded
<1> QED BY <1>1, <1>2 DEF Gets

LEMMA SoundHost ==
  ASSUME TableOK, NEW c, NEW temps, Sound(c, temps), NEW size \in Sizes,
         NEW g, g = HostAllocate(c, size), g.at # NoPlace, ~g.exact
  PROVE  Gets(c, temps, g.chunks, g.at, size, TRUE)
<1>1. PICK b : g.at = <<"shared", b>> /\ Added(c, g.chunks, "shared", b, size)
  BY HostAllocateOK DEF Sound
<1>2. /\ Sound(g.chunks, temps \cup {<<"shared", b>>}) /\ Block(g.chunks, "shared", b, size)
      /\ <<"shared", b>> \notin temps /\ "shared" \in Heaps /\ b \in 0 .. End["shared"]
      /\ \A k \in Heaps : \A a, len : Block(c, k, a, len) => Block(g.chunks, k, a, len)
  BY <1>1, SoundAdded
<1> QED BY <1>1, <1>2 DEF Gets

\* d is sound without the temporary chunk at, and keeps the blocks of c elsewhere.
GivesBack(c, temps, d, at) ==
  /\ Sound(d, temps \ {at})
  /\ \A k \in Heaps : \A a, len : Block(c, k, a, len) /\ <<k, a>> # at => Block(d, k, a, len)

LEMMA SoundFreed ==
  ASSUME TableOK, NEW c, NEW temps, Sound(c, temps), NEW at \in temps \cup {NoPlace},
         NoPlace \notin temps, NEW d, d = Freed(c, at)
  PROVE  GivesBack(c, temps, d, at)
<1>1. CASE at = NoPlace
  <2>1. d = c
    BY <1>1 DEF Freed
  <2>2. temps \ {at} = temps
    BY <1>1
  <2> QED BY <2>1, <2>2 DEF GivesBack
<1>2. CASE at \in temps
  <2>1. PICK h, b : h \in Heaps /\ at = <<h, b>> /\ b \in DOMAIN c[h]
    BY <1>2 DEF Sound, Block
  <2>2. Without(c, h, b, d)
    BY <2>1, FreedOK DEF Sound
  <2>3. \A k \in Heaps : \A a, len :
          Block(d, k, a, len) <=> Block(c, k, a, len) /\ <<k, a>> # at
    BY <2>1, <2>2 DEF Without
  <2>4. ASSUME NEW x \in Usable, NEW k, NEW a, vars[x].at = <<k, a>>
        PROVE  Block(d, k, a, vars[x].size)
    <3>1. k \in Heaps
      BY <2>4, UsableAt
    <3>2. Block(c, k, a, vars[x].size) /\ <<k, a>> # at
      BY <1>2, <2>4 DEF Sound, InUse
    <3> QED BY <2>3, <3>1, <3>2
  <2>5. ASSUME NEW p \in temps \ {at}
        PROVE  \E k \in Heaps : \E a, len : p = <<k, a>> /\ Block(d, k, a, len)
    BY <2>3 DEF Sound
  <2>6. ASSUME ~SomeVar, NEW k \in Heaps, NEW a, NEW len, Block(d, k, a, len)
        PROVE  <<k, a>> \in temps \ {at}
    BY <2>3, <2>6 DEF Sound
  <2>7. HeapsOK(d) /\ \A x \in Usable : vars[x].at \notin temps \ {at}
    BY <2>2 DEF Without, Sound
  <2> QED BY <2>3, <2>4, <2>5, <2>6, <2>7 DEF Sound, InUse, GivesBack
<1> QED BY <1>1, <1>2

-----------------------------------------------------------------------------
(* How statements end.                                                     *)

LEMMA HeapsNext ==
  ASSUME NEW d, HeapsOK(d), chunks' = d
  PROVE  /\ DOMAIN chunks' = Heaps /\ (\A h \in Heaps : WellFormed(chunks'[h], h))
         /\ Tiled' /\ CoreMerged'
BY DEF HeapsOK, MapOK, Tiled, CoreMerged

(* With an error.                                                          *)
LEMMA StopOK ==
  ASSUME TableOK, NEW d, NEW temps, Sound(d, temps), NEW why \in Sizes \cup {Crash}, Stop(d, why),
         why = Crash \/ Full(d["shared"], why)
  PROVE  IndInv'
<1>1. chunks' = d /\ error' = why /\ vars' = vars /\ freed' = freed
  BY DEF Stop
<1>2. /\ DOMAIN chunks' = Heaps /\ (\A h \in Heaps : WellFormed(chunks'[h], h))
      /\ Tiled' /\ CoreMerged'
  BY <1>1, HeapsNext DEF Sound
<1>3. TypeOK'
  BY <1>1, <1>2 DEF TableOK, TypeOK
<1>4. why # 0
  BY HeapAssumption DEF Crash
<1>5. VarInv'
  BY <1>1, <1>4 DEF TableOK, VarInv
<1>6. HeldInUse'
  <2> SUFFICES ASSUME NEW x \in Usable
               PROVE  /\ vars[x].at[2] \in DOMAIN d[vars[x].at[1]]
                      /\ d[vars[x].at[1]][vars[x].at[2]] = Chunk(vars[x].size, TRUE)
    BY <1>1 DEF HeldInUse, Usable, Pointers
  <2>1. PICK h, a : h \in Heaps /\ vars[x].at = <<h, a>> /\ vars[x].at[1] = h /\ vars[x].at[2] = a
    BY UsableAt
  <2>2. Block(d, h, a, vars[x].size)
    BY <2>1 DEF Sound, InUse
  <2> QED BY <2>1, <2>2 DEF Block
<1>7. ErrorMeansFull'
  <2>1. ErrorMeansFull' <=> (why > 0 => Full(d["shared"], why))
    BY <1>1 DEF ErrorMeansFull, Full, Roots
  <2>2. ~(Crash > 0)
    BY DEF Crash
  <2> QED BY <2>1, <2>2
<1> QED BY <1>2, <1>3, <1>5, <1>6, <1>7 DEF IndInv

(* With the same symbol table.                                             *)
LEMMA SameTableOK ==
  ASSUME TableOK, NEW d, Sound(d, {}), error = 0,
         chunks' = d, UNCHANGED <<vars, freed, error>>
  PROVE  IndInv'
<1>1. vars' = vars /\ freed' = freed /\ error' = 0 /\ chunks' = d
  OBVIOUS
<1>2. /\ DOMAIN chunks' = Heaps /\ (\A h \in Heaps : WellFormed(chunks'[h], h))
      /\ Tiled' /\ CoreMerged'
  BY <1>1, HeapsNext DEF Sound
<1>3. TypeOK'
  BY <1>1, <1>2 DEF TableOK, TypeOK
<1>5. VarInv'
  <2>1. ASSUME ~SomeVar, NEW h \in Heaps, NEW a \in DOMAIN d[h]
        PROVE  ~d[h][a].used
    BY <2>1, UsedIsBlock DEF Sound
  <2> QED BY <1>1, <2>1 DEF TableOK, VarInv, SomeVar
<1>6. HeldInUse'
  <2> SUFFICES ASSUME NEW x \in Usable
               PROVE  /\ vars[x].at[2] \in DOMAIN d[vars[x].at[1]]
                      /\ d[vars[x].at[1]][vars[x].at[2]] = Chunk(vars[x].size, TRUE)
    BY <1>1 DEF HeldInUse, Usable, Pointers
  <2>1. PICK h, a : h \in Heaps /\ vars[x].at = <<h, a>> /\ vars[x].at[1] = h /\ vars[x].at[2] = a
    BY UsableAt
  <2>2. Block(d, h, a, vars[x].size)
    BY <2>1 DEF Sound, InUse
  <2> QED BY <2>1, <2>2 DEF Block
<1>7. ErrorMeansFull'
  BY <1>1 DEF ErrorMeansFull
<1> QED BY <1>2, <1>3, <1>5, <1>6, <1>7 DEF IndInv

\* What the program may use, but for x, is in use in c.
OthersInUse(c, x) ==
  \A y \in Usable \ {x} : \A k, a : vars[y].at = <<k, a>> => Block(c, k, a, vars[y].size)

\* A variable can refer to size bytes at the place.
Refers(c, type, at, size) ==
  \/ type = "unallocated" /\ at = NoPlace /\ size = 0
  \/ /\ type \in {"array", "string"} /\ size \in Sizes \cup {0}
     /\ \E h \in Heaps : \E b \in 0 .. End[h] : at = <<h, b>> /\ Block(c, h, b, size)

LEMMA VarFields ==
  \A type, at, size : /\ Var(type, at, size).type = type /\ Var(type, at, size).at = at
                      /\ Var(type, at, size).size = size
                      /\ Var(type, at, size) = [type |-> type, at |-> at, size |-> size]
BY DEF Var

(* With a value for a variable.                                            *)
LEMMA AssignOK ==
  ASSUME TableOK, NEW d, HeapsOK(d), NEW x \in Vars, OthersInUse(d, x),
         NEW type, NEW at, NEW size, Refers(d, type, at, size),
         chunks' = d, Assign(x, Var(type, at, size)), error = 0, error' = error
  PROVE  IndInv'
<1>1. /\ vars' = [vars EXCEPT ![x] = [type |-> type, at |-> at, size |-> size]]
      /\ freed' = freed \ {x}
  BY VarFields DEF Assign
<1>t. vars \in [Vars -> [type : {"absent", "unallocated", "number", "array", "string"},
                         at : Places, size : Sizes \cup {0}]]
  BY DEF TableOK, TypeOK
<1>2. /\ DOMAIN chunks' = Heaps /\ (\A h \in Heaps : WellFormed(chunks'[h], h))
      /\ Tiled' /\ CoreMerged'
  BY HeapsNext
<1>3. at \in Places /\ size \in Sizes \cup {0} /\ type \in {"unallocated", "array", "string"}
  BY Params DEF Refers, Places, Heaps
<1>4. /\ vars'[x].type = type /\ vars'[x].at = at /\ vars'[x].size = size
      /\ \A y \in Vars \ {x} : vars'[y] = vars[y]
  BY <1>1, <1>t
<1>5. TypeOK'
  <2>1. vars' \in [Vars -> [type : {"absent", "unallocated", "number", "array", "string"},
                            at : Places, size : Sizes \cup {0}]]
    BY <1>1, <1>3, <1>t
  <2>2. freed' \subseteq Vars /\ error' \in Sizes \cup {0, Crash}
    BY <1>1 DEF TableOK, TypeOK
  <2> QED BY <1>2, <2>1, <2>2 DEF TypeOK
<1>6. VarInv'
  <2>1. at # NoPlace <=> type \in {"array", "string"}
    BY DEF Refers, NoPlace, Heaps
  <2>2. \A y \in Vars : vars'[y].at # NoPlace <=> vars'[y].type \in {"array", "string"}
    BY <1>4, <2>1 DEF TableOK, VarInv
  <2>3. \E y \in Vars : vars'[y].type # "absent"
    BY <1>3, <1>4
  <2> QED BY <2>2, <2>3 DEF VarInv, SomeVar
<1>7. HeldInUse'
  <2> SUFFICES ASSUME NEW y \in Vars, vars'[y].at # NoPlace, y \notin freed'
               PROVE  /\ vars'[y].at[2] \in DOMAIN d[vars'[y].at[1]]
                      /\ d[vars'[y].at[1]][vars'[y].at[2]] = Chunk(vars'[y].size, TRUE)
    BY DEF HeldInUse, Usable, Pointers
  <2>1. CASE y = x
    <3>1. at # NoPlace
      BY <1>4, <2>1
    <3>2. PICK h, b : h \in Heaps /\ at = <<h, b>> /\ Block(d, h, b, size)
      BY <3>1 DEF Refers
    <3>3. at[1] = h /\ at[2] = b
      BY <3>2
    <3> QED BY <1>4, <2>1, <3>2, <3>3 DEF Block
  <2>2. CASE y # x
    <3>1. y \in Usable \ {x} /\ vars'[y] = vars[y]
      BY <1>1, <1>4, <2>2 DEF Usable, Pointers
    <3>2. PICK h, a : h \in Heaps /\ vars[y].at = <<h, a>> /\ vars[y].at[1] = h /\ vars[y].at[2] = a
      BY <3>1, UsableAt
    <3>3. Block(d, h, a, vars[y].size)
      BY <3>1, <3>2 DEF OthersInUse
    <3> QED BY <3>1, <3>2, <3>3 DEF Block
  <2> QED BY <2>1, <2>2
<1>8. ErrorMeansFull'
  BY DEF ErrorMeansFull
<1> QED BY <1>2, <1>5, <1>6, <1>7, <1>8 DEF IndInv

-----------------------------------------------------------------------------
(* The statements.                                                         *)

LEMMA LetArrayOK ==
  ASSUME IndInv, error = 0, NEW x \in Vars, NEW shared \in BOOLEAN, NEW size \in Sizes,
         LetArray(x, shared, size)
  PROVE  IndInv'
<1> DEFINE got == GetHeap(chunks, shared, size, TRUE)
<1>1. TableOK /\ Sound(chunks, {})
  BY SoundStart
<1>2. \/ got.at = NoPlace /\ Sound(got.chunks, {}) /\ Full(got.chunks["shared"], size)
      \/ \E e : Gets(e, {}, got.chunks, got.at, size, shared)
  BY <1>1, SoundGet
<1>3. \/ /\ got.at # NoPlace /\ chunks' = got.chunks /\ Assign(x, Var("array", got.at, size))
         /\ error' = error
      \/ got.at = NoPlace /\ Stop(got.chunks, size)
  BY DEF LetArray
<1> HIDE DEF got
<1>4. CASE got.at = NoPlace
  <2>1. Sound(got.chunks, {}) /\ Full(got.chunks["shared"], size)
    BY <1>2, <1>4 DEF Gets, NoPlace, Heaps
  <2> QED BY <1>1, <1>3, <1>4, <2>1, StopOK
<1>5. CASE got.at # NoPlace
  <2>1. PICK e : Gets(e, {}, got.chunks, got.at, size, shared)
    BY <1>2, <1>5
  <2>2. HeapsOK(got.chunks) /\ OthersInUse(got.chunks, x)
    BY <2>1 DEF Gets, Sound, InUse, OthersInUse
  <2>3. Refers(got.chunks, "array", got.at, size)
    BY <2>1 DEF Gets, Refers
  <2> QED BY <1>1, <1>3, <1>5, <2>2, <2>3, AssignOK
<1> QED BY <1>4, <1>5

LEMMA LetVarOK ==
  ASSUME IndInv, error = 0, NEW x \in Vars, NEW y \in Vars, LetVar(x, y)
  PROVE  IndInv'
<1>1. TableOK /\ Sound(chunks, {})
  BY SoundStart
<1>2. y \in Usable /\ vars[y].type \in {"array", "string"}
  BY DEF LetVar
<1>3. vars[y] = Var(vars[y].type, vars[y].at, vars[y].size)
      /\ vars[y].size \in Sizes \cup {0} /\ vars[y].at \in Places
  BY DEF IndInv, TypeOK, Var
<1>4. PICK h, a : h \in Heaps /\ vars[y].at = <<h, a>>
  BY <1>1, <1>2, UsableAt
<1>5. Block(chunks, h, a, vars[y].size)
  BY <1>1, <1>2, <1>4 DEF Sound, InUse
<1>6. h \in Heaps /\ a \in 0 .. End[h]
  BY <1>3, <1>4, Params DEF Places, NoPlace, Heaps
<1>7. Refers(chunks, vars[y].type, vars[y].at, vars[y].size)
  BY <1>2, <1>3, <1>4, <1>5, <1>6 DEF Refers
<1>8. HeapsOK(chunks) /\ OthersInUse(chunks, x)
  BY <1>1 DEF Sound, InUse, OthersInUse
<1>9. Assign(x, Var(vars[y].type, vars[y].at, vars[y].size)) /\ chunks' = chunks /\ error' = error
  BY <1>3 DEF LetVar
<1> QED BY <1>1, <1>7, <1>8, <1>9, AssignOK

LEMMA LetNumberOK ==
  ASSUME IndInv, error = 0, Risks = {}, NEW x \in Vars, LetNumber(x)
  PROVE  IndInv'
<1>1. TableOK /\ Sound(chunks, {})
  BY SoundStart
<1>2. /\ vars' = [vars EXCEPT ![x].type = "number"]
      /\ chunks' = chunks /\ freed' = freed /\ error' = error
  BY DEF LetNumber
<1>t. vars \in [Vars -> [type : {"absent", "unallocated", "number", "array", "string"},
                         at : Places, size : Sizes \cup {0}]]
  BY DEF IndInv, TypeOK
<1>3. vars[x].at = NoPlace /\ vars[x].type \notin {"array", "string"}
  <2>1. ASSUME x \in Pointers
        PROVE  FALSE
    <3>1. vars[x].type = "number"
      BY <2>1 DEF LetNumber
    <3> QED BY <2>1, <3>1 DEF Pointers, IndInv, VarInv
  <2> QED BY <2>1 DEF Pointers, IndInv, VarInv
<1>4. /\ vars'[x].type = "number" /\ vars'[x].at = vars[x].at /\ vars'[x].size = vars[x].size
      /\ \A y \in Vars \ {x} : vars'[y] = vars[y]
      /\ vars' \in [Vars -> [type : {"absent", "unallocated", "number", "array", "string"},
                             at : Places, size : Sizes \cup {0}]]
  BY <1>2, <1>t
<1>5. TypeOK'
  BY <1>2, <1>4 DEF IndInv, TypeOK
<1>6. VarInv'
  <2>1. \A y \in Vars : vars'[y].at # NoPlace <=> vars'[y].type \in {"array", "string"}
    BY <1>3, <1>4 DEF IndInv, VarInv
  <2>2. \E y \in Vars : vars'[y].type # "absent"
    BY <1>4
  <2> QED BY <2>1, <2>2 DEF VarInv, SomeVar
<1>7. HeldInUse'
  <2>1. ASSUME NEW y \in Vars, vars'[y].at # NoPlace, y \notin freed'
        PROVE  y \in Usable /\ vars'[y] = vars[y]
    BY <2>1, <1>2, <1>3, <1>4 DEF Usable, Pointers
  <2> QED BY <1>2, <2>1 DEF IndInv, HeldInUse, Usable, Pointers
<1>8. Tiled' /\ CoreMerged' /\ ErrorMeansFull'
  BY <1>2 DEF IndInv, Tiled, CoreMerged, ErrorMeansFull
<1> QED BY <1>5, <1>6, <1>7, <1>8 DEF IndInv

LEMMA LeaveOK ==
  ASSUME IndInv, error = 0, NEW x \in Vars, Leave(x)
  PROVE  IndInv'
<1>1. TableOK /\ Sound(chunks, {})
  BY SoundStart
<1>2. HeapsOK(chunks) /\ OthersInUse(chunks, x)
  BY <1>1 DEF Sound, InUse, OthersInUse
<1>3. Refers(chunks, "unallocated", NoPlace, 0)
  BY DEF Refers
<1>4. Assign(x, Var("unallocated", NoPlace, 0)) /\ chunks' = chunks /\ error' = error
  BY DEF Leave
<1> QED BY <1>1, <1>2, <1>3, <1>4, AssignOK

\* What no variable but x and those in same refers to goes away.
LEMMA FreedPointer ==
  ASSUME TableOK, NEW c, NEW temps, Sound(c, temps), NEW x \in Usable,
         NEW d, d = Freed(c, vars[x].at)
  PROVE  /\ HeapsOK(d)
         /\ \A k \in Heaps : \A a, len :
              Block(d, k, a, len) <=> Block(c, k, a, len) /\ <<k, a>> # vars[x].at
<1>1. PICK h, a : h \in Heaps /\ vars[x].at = <<h, a>>
  BY UsableAt
<1>2. Block(c, h, a, vars[x].size)
  BY <1>1 DEF Sound, InUse
<1>3. a \in DOMAIN c[h]
  BY <1>2 DEF Block
<1>4. Without(c, h, a, d)
  BY <1>1, <1>3, FreedOK DEF Sound
<1>5. \A k \in Heaps : \A p, len :
        Block(d, k, p, len) <=> Block(c, k, p, len) /\ ~(k = h /\ p = a)
  BY <1>4 DEF Without
<1>6. \A k, p : <<k, p>> # vars[x].at <=> ~(k = h /\ p = a)
  BY <1>1
<1> QED BY <1>4, <1>5, <1>6 DEF Without

LEMMA FreeOK ==
  ASSUME IndInv, error = 0, NEW x \in Vars, Free(x)
  PROVE  IndInv'
<1> DEFINE d == Freed(chunks, vars[x].at)
<1>1. TableOK /\ Sound(chunks, {})
  BY SoundStart
<1>2. /\ x \in Usable /\ chunks' = d /\ vars' = vars /\ error' = error
      /\ freed' = freed \cup {y \in Vars : vars[y].at = vars[x].at}
  BY DEF Free
<1>3. /\ HeapsOK(d)
      /\ \A k \in Heaps : \A a, len :
           Block(d, k, a, len) <=> Block(chunks, k, a, len) /\ <<k, a>> # vars[x].at
  BY <1>1, <1>2, FreedPointer
<1>4. SomeVar
  BY <1>1, <1>2, UsableAt
<1> HIDE DEF d
<1>5. /\ DOMAIN chunks' = Heaps /\ (\A h \in Heaps : WellFormed(chunks'[h], h))
      /\ Tiled' /\ CoreMerged'
  BY <1>2, <1>3, HeapsNext
<1>6. TypeOK'
  BY <1>2, <1>5 DEF IndInv, TypeOK
<1>7. VarInv'
  BY <1>2, <1>4 DEF IndInv, VarInv, SomeVar
<1>8. HeldInUse'
  <2> SUFFICES ASSUME NEW y \in Vars, vars[y].at # NoPlace, y \notin freed'
               PROVE  /\ vars[y].at[2] \in DOMAIN d[vars[y].at[1]]
                      /\ d[vars[y].at[1]][vars[y].at[2]] = Chunk(vars[y].size, TRUE)
    BY <1>2 DEF HeldInUse, Usable, Pointers
  <2>1. y \in Usable /\ vars[y].at # vars[x].at
    BY <1>2 DEF Usable, Pointers
  <2>2. PICK h, a : h \in Heaps /\ vars[y].at = <<h, a>> /\ vars[y].at[1] = h /\ vars[y].at[2] = a
    BY <1>1, <2>1, UsableAt
  <2>3. Block(chunks, h, a, vars[y].size)
    BY <1>1, <2>1, <2>2 DEF Sound, InUse
  <2>4. Block(d, h, a, vars[y].size)
    BY <1>3, <2>1, <2>2, <2>3
  <2> QED BY <2>2, <2>4 DEF Block
<1>9. ErrorMeansFull'
  BY <1>2 DEF ErrorMeansFull
<1> QED BY <1>5, <1>6, <1>7, <1>8, <1>9 DEF IndInv

LEMMA ExtendOK ==
  ASSUME IndInv, error = 0, Risks = {}, NEW x \in Vars, NEW size \in Sizes, Extend(x, size)
  PROVE  IndInv'
<1> DEFINE got == GetHeap(chunks, FALSE, size, TRUE)
           d == Freed(got.chunks, vars[x].at)
<1>1. TableOK /\ Sound(chunks, {})
  BY SoundStart
<1>2. \/ got.at = NoPlace /\ Sound(got.chunks, {}) /\ Full(got.chunks["shared"], size)
      \/ \E e : Gets(e, {}, got.chunks, got.at, size, FALSE)
  BY <1>1, SoundGet
<1>3. /\ x \in Usable /\ \A y \in Usable \ {x} : vars[y].at # vars[x].at
      /\ \/ /\ got.at # NoPlace /\ chunks' = d /\ Assign(x, Var("array", got.at, size))
            /\ error' = error
         \/ got.at = NoPlace /\ Stop(got.chunks, size)
  BY DEF Extend
<1> HIDE DEF got
<1>4. CASE got.at = NoPlace
  <2>1. Sound(got.chunks, {}) /\ Full(got.chunks["shared"], size)
    BY <1>2, <1>4 DEF Gets, NoPlace, Heaps
  <2> QED BY <1>1, <1>3, <1>4, <2>1, StopOK
<1>5. CASE got.at # NoPlace
  <2>1. PICK e : Gets(e, {}, got.chunks, got.at, size, FALSE)
    BY <1>2, <1>5
  <2>2. PICK h, b : /\ h \in Heaps /\ b \in 0 .. End[h] /\ got.at = <<h, b>>
                    /\ Sound(got.chunks, {got.at}) /\ Block(got.chunks, h, b, size)
    BY <2>1 DEF Gets
  <2>3. /\ HeapsOK(d)
        /\ \A k \in Heaps : \A a, len :
             Block(d, k, a, len) <=> Block(got.chunks, k, a, len) /\ <<k, a>> # vars[x].at
    BY <1>1, <1>3, <2>2, FreedPointer
  <2> HIDE DEF d
  <2>4. OthersInUse(d, x)
    <3> SUFFICES ASSUME NEW y \in Usable \ {x}, NEW k, NEW a, vars[y].at = <<k, a>>
                 PROVE  Block(d, k, a, vars[y].size)
      BY DEF OthersInUse
    <3>1. k \in Heaps
      BY <1>1, UsableAt
    <3>2. Block(got.chunks, k, a, vars[y].size)
      BY <2>2 DEF Sound, InUse
    <3> QED BY <1>3, <2>3, <3>1, <3>2
  <2>5. <<h, b>> # vars[x].at
    BY <1>3, <2>2 DEF Sound
  <2>6. Block(d, h, b, size)
    BY <2>2, <2>3, <2>5
  <2>7. Refers(d, "array", got.at, size)
    BY <2>2, <2>6 DEF Refers
  <2> QED BY <1>1, <1>3, <1>5, <2>3, <2>4, <2>7, AssignOK
<1> QED BY <1>4, <1>5

LEMMA CollectOK ==
  ASSUME IndInv, error = 0, Collect
  PROVE  IndInv'
<1> DEFINE c == Collected(chunks, "core")
           d == Collected(c, "shared")
<1>1. TableOK /\ Sound(chunks, {})
  BY SoundStart
<1>2. chunks' = d /\ UNCHANGED <<vars, freed, error>>
  BY DEF Collect
<1>3. Sound(c, {})
  BY <1>1, CollectedOK, SoundKept DEF Sound, Heaps
<1> HIDE DEF c
<1>4. Sound(d, {})
  BY <1>1, <1>3, CollectedOK, SoundKept DEF Sound, Heaps
<1> HIDE DEF d
<1> QED BY <1>1, <1>2, <1>4, SameTableOK

\* Where the copy is, if it is anywhere.
Temp(copy) == {copy.at} \ {NoPlace}

LEMMA CopyOK ==
  ASSUME TableOK, NEW c, Sound(c, {}), NEW size \in Sizes \cup {0},
         NEW collect \in BOOLEAN, ~collect => ~SomeVar,
         NEW copy, copy = Copy(c, size, collect)
  PROVE  \/ /\ NoCopy(size, copy) /\ size \in Sizes
            /\ Sound(copy.chunks, {}) /\ Full(copy.chunks["shared"], size)
         \/ ~NoCopy(size, copy) /\ Sound(copy.chunks, Temp(copy))
<1>0. 0 \notin Sizes
  BY HeapAssumption
<1>1. CASE size = 0
  <2>1. copy.chunks = c /\ copy.at = NoPlace
    BY <1>1 DEF Copy
  <2>2. Temp(copy) = {} /\ ~NoCopy(size, copy)
    BY <1>1, <2>1 DEF Temp, NoCopy
  <2> QED BY <2>1, <2>2
<1>2. CASE size \in Sizes
  <2>1. copy = GetHeap(c, TRUE, size, collect)
    BY <1>0, <1>2 DEF Copy
  <2>2. \/ /\ copy.at = NoPlace /\ Sound(copy.chunks, {})
           /\ Full(copy.chunks["shared"], size)
        \/ \E e : Gets(e, {}, copy.chunks, copy.at, size, TRUE)
    BY <1>2, <2>1, SoundGet
  <2>3. CASE copy.at = NoPlace
    <3>1. Sound(copy.chunks, {}) /\ Full(copy.chunks["shared"], size)
      BY <2>2, <2>3 DEF Gets, NoPlace, Heaps
    <3> QED BY <1>0, <1>2, <2>3, <3>1 DEF NoCopy
  <2>4. CASE copy.at # NoPlace
    <3>1. Sound(copy.chunks, {} \cup {copy.at})
      BY <2>2, <2>4 DEF Gets
    <3>2. Temp(copy) = {} \cup {copy.at} /\ ~NoCopy(size, copy)
      BY <2>4 DEF Temp, NoCopy
    <3> QED BY <3>1, <3>2
  <2> QED BY <2>3, <2>4
<1> QED BY <1>1, <1>2

LEMMA DisplayOK ==
  ASSUME IndInv, error = 0, NEW size \in Sizes, Display(size)
  PROVE  IndInv'
<1> DEFINE copy == Copy(chunks, size, SomeVar)
           d == Freed(copy.chunks, copy.at)
<1>1. TableOK /\ Sound(chunks, {})
  BY SoundStart
<1>2. SomeVar \in BOOLEAN
  BY DEF SomeVar
<1>3. \/ /\ NoCopy(size, copy) /\ Sound(copy.chunks, {})
         /\ Full(copy.chunks["shared"], size)
      \/ ~NoCopy(size, copy) /\ Sound(copy.chunks, Temp(copy))
  BY <1>1, <1>2, CopyOK
<1>4. IF NoCopy(size, copy) THEN Stop(copy.chunks, size)
      ELSE chunks' = d /\ UNCHANGED <<vars, freed, error>>
  BY DEF Display
<1> HIDE DEF copy
<1>5. CASE NoCopy(size, copy)
  BY <1>1, <1>3, <1>4, <1>5, StopOK
<1>6. CASE ~NoCopy(size, copy)
  <2>1. Sound(copy.chunks, Temp(copy))
    BY <1>3, <1>6
  <2>2. copy.at \in Temp(copy) \cup {NoPlace} /\ NoPlace \notin Temp(copy)
    BY DEF Temp
  <2>3. GivesBack(copy.chunks, Temp(copy), d, copy.at)
    BY <1>1, <2>1, <2>2, SoundFreed
  <2> HIDE DEF d
  <2>4. Temp(copy) \ {copy.at} = {}
    BY DEF Temp
  <2>5. Sound(d, {})
    BY <2>3, <2>4 DEF GivesBack
  <2> QED BY <1>1, <1>4, <1>6, <2>5, SameTableOK
<1> QED BY <1>5, <1>6

\* The answer of the host stays in use when other temporaries are given back.
Answered(c, temps, at, size) ==
  /\ at \in temps /\ Sound(c, temps)
  /\ \E h \in Heaps : \E b \in 0 .. End[h] : at = <<h, b>> /\ Block(c, h, b, size)

LEMMA AnsweredFreed ==
  ASSUME TableOK, NEW c, NEW temps, NEW at, NEW size, Answered(c, temps, at, size),
         NEW tmp \in temps \cup {NoPlace}, tmp # at, NoPlace \notin temps,
         NEW d, d = Freed(c, tmp)
  PROVE  Answered(d, temps \ {tmp}, at, size)
<1>1. GivesBack(c, temps, d, tmp)
  BY SoundFreed DEF Answered
<1> QED BY <1>1 DEF Answered, GivesBack

LEMMA AnsweredAssign ==
  ASSUME TableOK, NEW d, NEW temps, NEW at, NEW size \in Sizes, Answered(d, temps, at, size),
         NEW x \in Vars, chunks' = d, Assign(x, Var("string", at, size)),
         error = 0, error' = error
  PROVE  IndInv'
<1>1. HeapsOK(d) /\ OthersInUse(d, x)
  BY DEF Answered, Sound, InUse, OthersInUse
<1>2. Refers(d, "string", at, size)
  BY DEF Answered, Refers
<1> QED BY <1>1, <1>2, AssignOK

LEMMA AnsweredHost ==
  ASSUME TableOK, NEW c, NEW temps, Sound(c, temps), NEW size \in Sizes,
         NEW got, got = HostAllocate(c, size), got.at # NoPlace, ~got.exact
  PROVE  Answered(got.chunks, temps \cup {got.at}, got.at, size) /\ got.at \notin temps
<1>1. Gets(c, temps, got.chunks, got.at, size, TRUE)
  BY SoundHost
<1> QED BY <1>1 DEF Gets, Answered

LEMMA InputOK ==
  ASSUME IndInv, error = 0, Risks = {}, NEW x \in Vars, NEW size \in Sizes \cup {0},
         NEW answer \in Sizes, Input(x, size, answer)
  PROVE  IndInv'
<1> DEFINE copy == Copy(chunks, size, TRUE)
           got == HostAllocate(copy.chunks, answer)
           d == Freed(got.chunks, copy.at)
<1>1. TableOK /\ Sound(chunks, {})
  BY SoundStart
<1>3. \/ /\ NoCopy(size, copy) /\ size \in Sizes
         /\ Sound(copy.chunks, {}) /\ Full(copy.chunks["shared"], size)
      \/ ~NoCopy(size, copy) /\ Sound(copy.chunks, Temp(copy))
  BY <1>1, CopyOK
<1>4. IF NoCopy(size, copy) THEN Stop(copy.chunks, size)
      ELSE IF got.at = NoPlace THEN Stop(copy.chunks, Crash)
      ELSE /\ ~got.exact /\ chunks' = d /\ Assign(x, Var("string", got.at, answer))
           /\ error' = error
  BY DEF Input
<1> HIDE DEF copy
<1>5. CASE NoCopy(size, copy)
  BY <1>1, <1>3, <1>4, <1>5, StopOK
<1>6. CASE ~NoCopy(size, copy) /\ got.at # NoPlace
  <2>1. Answered(got.chunks, Temp(copy) \cup {got.at}, got.at, answer)
        /\ got.at \notin Temp(copy)
    BY <1>1, <1>3, <1>4, <1>6, AnsweredHost
  <2> HIDE DEF got
  <2>2. /\ copy.at \in (Temp(copy) \cup {got.at}) \cup {NoPlace} /\ copy.at # got.at
        /\ NoPlace \notin Temp(copy) \cup {got.at}
    BY <1>6, <2>1 DEF Temp
  <2>3. Answered(d, (Temp(copy) \cup {got.at}) \ {copy.at}, got.at, answer)
    BY <1>1, <2>1, <2>2, AnsweredFreed
  <2> HIDE DEF d
  <2> QED BY <1>1, <1>4, <1>6, <2>3, AnsweredAssign
<1>7. CASE ~NoCopy(size, copy) /\ got.at = NoPlace
  BY <1>1, <1>3, <1>4, <1>7, StopOK
<1> QED BY <1>5, <1>6, <1>7

\* The first operand of a concatenation is in memory, if it is a string.
Copied(size, copy) ==
  /\ ~NoCopy(size, copy) /\ Sound(copy.chunks, Temp(copy))
  /\ size = 0 => copy.at = NoPlace

\* The copy of the second makes it collect (collects in Concat).
Collects(copy1, size1, size2) ==
  /\ size1 # 0 /\ size2 # 0
  /\ Allocate(copy1.chunks, "shared", size2).at = NoPlace

(* Both operands of a concatenation are in memory: no collection comes     *)
(* between (Risks).                                                        *)
LEMMA CopiesOK ==
  ASSUME TableOK, NEW size1 \in Sizes \cup {0}, NEW size2 \in Sizes \cup {0},
         NEW copy1, Copied(size1, copy1), ~Collects(copy1, size1, size2),
         NEW copy2, copy2 = Copy(copy1.chunks, size2, TRUE)
  PROVE  \/ /\ NoCopy(size2, copy2) /\ size2 \in Sizes
            /\ Sound(copy2.chunks, {}) /\ Full(copy2.chunks["shared"], size2)
         \/ /\ ~NoCopy(size2, copy2) /\ copy2.at \notin Temp(copy1)
            /\ Sound(copy2.chunks, Temp(copy1) \cup Temp(copy2))
<1> USE DEF Copied, Collects
<1>1. CASE size1 = 0
  <2>1. Temp(copy1) = {}
    BY <1>1 DEF Temp
  <2>2. \/ /\ NoCopy(size2, copy2) /\ size2 \in Sizes
           /\ Sound(copy2.chunks, {}) /\ Full(copy2.chunks["shared"], size2)
        \/ ~NoCopy(size2, copy2) /\ Sound(copy2.chunks, Temp(copy2))
    BY <2>1, CopyOK
  <2>3. Temp(copy1) \cup Temp(copy2) = Temp(copy2)
    BY <2>1
  <2> QED BY <2>1, <2>2, <2>3
<1>2. CASE size1 # 0 /\ size2 = 0
  <2>1. copy2.chunks = copy1.chunks /\ copy2.at = NoPlace
    BY <1>2 DEF Copy
  <2>2. Temp(copy1) \cup Temp(copy2) = Temp(copy1) /\ NoPlace \notin Temp(copy1)
    BY <2>1 DEF Temp
  <2> QED BY <1>2, <2>1, <2>2 DEF NoCopy
<1>3. CASE size1 # 0 /\ size2 # 0
  <2> DEFINE first == Allocate(copy1.chunks, "shared", size2)
  <2>1. first.at # NoPlace /\ size2 \in Sizes
    BY <1>3
  <2>2. copy2 = first
    BY <1>3, <2>1 DEF Copy, GetHeap, TryHeap
  <2>3. Gets(copy1.chunks, Temp(copy1), first.chunks, first.at, size2, TRUE)
    BY <2>1, SoundAllocate
  <2> HIDE DEF first
  <2>4. Temp(copy2) = {copy2.at}
    BY <2>1, <2>2 DEF Temp
  <2>5. copy2.at \notin Temp(copy1) /\ Sound(copy2.chunks, Temp(copy1) \cup {copy2.at})
    BY <2>2, <2>3 DEF Gets
  <2> QED BY <2>1, <2>2, <2>4, <2>5 DEF NoCopy
<1> QED BY <1>1, <1>2, <1>3

LEMMA ConcatOK ==
  ASSUME IndInv, error = 0, Risks = {}, NEW x \in Vars, NEW size1 \in Sizes \cup {0},
         NEW size2 \in Sizes \cup {0}, NEW answer \in Sizes, Concat(x, size1, size2, answer)
  PROVE  IndInv'
<1> DEFINE copy1 == Copy(chunks, size1, TRUE)
           copy2 == Copy(copy1.chunks, size2, TRUE)
           got == HostAllocate(copy2.chunks, answer)
           c == Freed(got.chunks, copy1.at)
           d == Freed(c, copy2.at)
           collects == /\ size1 # 0 /\ size2 # 0
                       /\ Allocate(copy1.chunks, "shared", size2).at = NoPlace
<1>1. TableOK /\ Sound(chunks, {})
  BY SoundStart
<1>2. \/ /\ NoCopy(size1, copy1) /\ size1 \in Sizes
         /\ Sound(copy1.chunks, {}) /\ Full(copy1.chunks["shared"], size1)
      \/ ~NoCopy(size1, copy1) /\ Sound(copy1.chunks, Temp(copy1))
  BY <1>1, CopyOK
<1>3. /\ size1 = 0 => copy1.at = NoPlace
      /\ size2 = 0 => copy2.at = NoPlace
  BY DEF Copy
<1>4. IF NoCopy(size1, copy1) THEN Stop(copy1.chunks, size1)
      ELSE /\ ~collects
           /\ IF NoCopy(size2, copy2) THEN Stop(copy2.chunks, size2)
              ELSE IF got.at = NoPlace THEN Stop(copy2.chunks, Crash)
              ELSE /\ ~got.exact
                   /\ \E tmpStr1 \in Held(got.chunks, size1, copy1) :
                        \E tmpStr2 \in Held(got.chunks, size2, copy2) :
                          chunks' = Freed(Freed(got.chunks, tmpStr1), tmpStr2)
                   /\ Assign(x, Var("string", got.at, answer))
                   /\ error' = error
  BY DEF Concat
<1>5. /\ Held(got.chunks, size1, copy1) = {copy1.at}
      /\ Held(got.chunks, size2, copy2) = {copy2.at}
  BY <1>3 DEF Held
<1> HIDE DEF copy1
<1>6. CASE NoCopy(size1, copy1)
  BY <1>1, <1>2, <1>4, <1>6, StopOK
<1>7. CASE ~NoCopy(size1, copy1)
  <2>a. copy2 = Copy(copy1.chunks, size2, TRUE)
    OBVIOUS
  <2>b. Copied(size1, copy1) /\ ~Collects(copy1, size1, size2)
    BY <1>2, <1>3, <1>4, <1>7 DEF Copied, Collects
  <2> HIDE DEF copy2
  <2>1. \/ /\ NoCopy(size2, copy2) /\ size2 \in Sizes
           /\ Sound(copy2.chunks, {}) /\ Full(copy2.chunks["shared"], size2)
        \/ /\ ~NoCopy(size2, copy2) /\ copy2.at \notin Temp(copy1)
           /\ Sound(copy2.chunks, Temp(copy1) \cup Temp(copy2))
    BY <1>1, <2>a, <2>b, CopiesOK
  <2>2. CASE NoCopy(size2, copy2)
    BY <1>1, <1>4, <1>7, <2>1, <2>2, StopOK
  <2>3. CASE ~NoCopy(size2, copy2) /\ got.at = NoPlace
    BY <1>1, <1>4, <1>7, <2>1, <2>3, StopOK
  <2>4. CASE ~NoCopy(size2, copy2) /\ got.at # NoPlace
    <3> DEFINE temps == Temp(copy1) \cup Temp(copy2)
    <3>1. Answered(got.chunks, temps \cup {got.at}, got.at, answer) /\ got.at \notin temps
      BY <1>1, <1>4, <1>7, <2>1, <2>4, AnsweredHost
    <3>2. chunks' = d /\ Assign(x, Var("string", got.at, answer)) /\ error' = error
      BY <1>4, <1>5, <1>7, <2>4
    <3> HIDE DEF got
    <3>3. /\ copy1.at \in (temps \cup {got.at}) \cup {NoPlace} /\ copy1.at # got.at
          /\ NoPlace \notin temps \cup {got.at}
      BY <2>4, <3>1 DEF Temp
    <3>4. Answered(c, (temps \cup {got.at}) \ {copy1.at}, got.at, answer)
      BY <1>1, <3>1, <3>3, AnsweredFreed
    <3>5. /\ copy2.at \in ((temps \cup {got.at}) \ {copy1.at}) \cup {NoPlace}
          /\ copy2.at # got.at
          /\ NoPlace \notin (temps \cup {got.at}) \ {copy1.at}
      BY <2>1, <2>4, <3>1 DEF Temp
    <3> HIDE DEF c, temps
    <3>6. Answered(d, ((temps \cup {got.at}) \ {copy1.at}) \ {copy2.at}, got.at, answer)
      BY <1>1, <3>4, <3>5, AnsweredFreed
    <3> HIDE DEF d
    <3> QED BY <1>1, <3>2, <3>6, AnsweredAssign
  <2> QED BY <2>2, <2>3, <2>4
<1> QED BY <1>6, <1>7

-----------------------------------------------------------------------------
(* The theorems.                                                           *)

LEMMA InitOK ==
  ASSUME Init
  PROVE  IndInv
<1> DEFINE m(h) == [a \in {0} |-> Chunk(End[h] - Header[h], FALSE)]
<1>1. /\ chunks = [h \in Heaps |-> m(h)]
      /\ vars = [x \in Vars |-> Var("absent", NoPlace, 0)] /\ freed = {} /\ error = 0
  BY DEF Init
<1>2. ASSUME NEW h \in Heaps
      PROVE  /\ DOMAIN chunks[h] = {0}
             /\ chunks[h][0] = Chunk(End[h] - Header[h], FALSE)
             /\ chunks[h][0].len = End[h] - Header[h] /\ chunks[h][0].used = FALSE
             /\ End[h] - Header[h] \in Nat
  BY <1>1, Params DEF Chunk
<1>3. ASSUME NEW h \in Heaps
      PROVE  WellFormed(chunks[h], h) /\ Covers(chunks[h], h)
  <2> DEFINE len == End[h] - Header[h]
  <2>a. /\ DOMAIN chunks[h] = {0} /\ chunks[h][0] = Chunk(len, FALSE)
        /\ chunks[h][0].len = len /\ chunks[h][0].used = FALSE
    BY <1>2
  <2>b. /\ Header[h] \in Nat /\ End[h] \in Nat /\ LengthMax \in Nat
        /\ Header[h] <= End[h] /\ End[h] <= LengthMax
    BY Params
  <2>1. After(chunks[h], h, 0) = End[h]
    <3>1. After(chunks[h], h, 0) = 0 + Header[h] + chunks[h][0].len
      BY DEF After
    <3>2. 0 + Header[h] + (End[h] - Header[h]) = End[h]
      BY <2>b
    <3> QED BY <2>a, <3>1, <3>2
  <2>2. WellFormed(chunks[h], h)
    <3>1. 0 \in 0 .. End[h] - Header[h] /\ len \in 0 .. LengthMax
      BY <2>b
    <3> HIDE DEF len
    <3> QED BY <2>a, <3>1 DEF WellFormed
  <2>3. Covers(chunks[h], h)
    BY <2>a, <2>1 DEF Covers
  <2> QED BY <2>2, <2>3
<1>4. \A x \in Vars : vars[x].type = "absent" /\ vars[x].at = NoPlace /\ vars[x].size = 0
  BY <1>1 DEF Var
<1>5. TypeOK
  <2>1. vars \in [Vars -> [type : {"absent", "unallocated", "number", "array", "string"},
                           at : Places, size : Sizes \cup {0}]]
    BY <1>1 DEF Var, Places
  <2> QED BY <1>1, <1>3, <2>1 DEF TypeOK
<1>6. Tiled
  BY <1>3 DEF Tiled
<1>7. CoreMerged
  <2>1. After(chunks["core"], "core", 0) # 0
    BY <1>2, Params DEF After, Heaps
  <2> QED BY <1>2, <2>1 DEF CoreMerged, NoFreePair, Heaps
<1>8. VarInv
  BY <1>2, <1>4 DEF VarInv
<1>9. HeldInUse
  BY <1>4 DEF HeldInUse, Usable, Pointers
<1>10. ErrorMeansFull
  BY <1>1 DEF ErrorMeansFull
<1> QED BY <1>5, <1>6, <1>7, <1>8, <1>9, <1>10 DEF IndInv

LEMMA NextOK ==
  ASSUME IndInv, Risks = {}, [Next]_vars_all
  PROVE  IndInv'
<1>1. CASE UNCHANGED vars_all
  <2>1. chunks' = chunks /\ vars' = vars /\ freed' = freed /\ error' = error
    BY <1>1 DEF vars_all
  <2> QED BY <2>1 DEF IndInv, TypeOK, Tiled, CoreMerged, VarInv, HeldInUse, ErrorMeansFull,
                      SomeVar, Usable, Pointers, Full, Roots
<1>2. CASE error = 0 /\ Statement
  <2>1. ASSUME NEW x \in Vars, NEW shared \in BOOLEAN, NEW size \in Sizes,
               LetArray(x, shared, size)
        PROVE  IndInv'
    BY <1>2, <2>1, LetArrayOK
  <2>2. ASSUME NEW x \in Vars, NEW y \in Vars, LetVar(x, y)
        PROVE  IndInv'
    BY <1>2, <2>2, LetVarOK
  <2>3. ASSUME NEW x \in Vars, LetNumber(x) \/ Free(x) \/ Leave(x)
        PROVE  IndInv'
    BY <1>2, <2>3, LetNumberOK, FreeOK, LeaveOK
  <2>4. ASSUME NEW x \in Vars, NEW size \in Sizes, Extend(x, size)
        PROVE  IndInv'
    BY <1>2, <2>4, ExtendOK
  <2>5. ASSUME NEW size \in Sizes, Display(size)
        PROVE  IndInv'
    BY <1>2, <2>5, DisplayOK
  <2>6. ASSUME NEW x \in Vars, NEW size \in Sizes \cup {0}, NEW answer \in Sizes,
               Input(x, size, answer)
        PROVE  IndInv'
    BY <1>2, <2>6, InputOK
  <2>7. ASSUME NEW x \in Vars, NEW size1 \in Sizes \cup {0}, NEW size2 \in Sizes \cup {0},
               NEW answer \in Sizes, Concat(x, size1, size2, answer)
        PROVE  IndInv'
    BY <1>2, <2>7, ConcatOK
  <2>8. ASSUME Collect
        PROVE  IndInv'
    BY <1>2, <2>8, CollectOK
  <2> QED BY <1>2, <2>1, <2>2, <2>3, <2>4, <2>5, <2>6, <2>7, <2>8 DEF Statement
<1> QED BY <1>1, <1>2 DEF Next

(* A program that takes none of the risks keeps the invariant.             *)
THEOREM Invariance ==
  ASSUME Risks = {}
  PROVE  Spec => []IndInv
<1>1. Init => IndInv
  BY InitOK
<1>2. IndInv /\ [Next]_vars_all => IndInv'
  BY NextOK
<1> QED BY <1>1, <1>2, PTL DEF Spec

(* The headers stay in their heaps, and the pointers of the symbol table.  *)
THEOREM TypeCorrect ==
  ASSUME Risks = {}
  PROVE  Spec => []TypeOK
<1>1. IndInv => TypeOK
  BY DEF IndInv
<1> QED BY <1>1, Invariance, PTL

(* The loops over a heap meet its headers and nothing else, whatever has    *)
(* been split, freed, collected and merged.                                *)
THEOREM HeapsTiled ==
  ASSUME Risks = {}
  PROVE  Spec => []Tiled
<1>1. IndInv => Tiled
  BY DEF IndInv
<1> QED BY <1>1, Invariance, PTL

(* What a variable refers to stays in use, with its size.                  *)
THEOREM NothingTaken ==
  ASSUME Risks = {}
  PROVE  Spec => []HeldInUse
<1>1. IndInv => HeldInUse
  BY DEF IndInv
<1> QED BY <1>1, Invariance, PTL

(* The heap of the core is merged after every statement.                   *)
THEOREM CoreStaysMerged ==
  ASSUME Risks = {}
  PROVE  Spec => []CoreMerged
<1>1. IndInv => CoreMerged
  BY DEF IndInv
<1> QED BY <1>1, Invariance, PTL

(* Memory that cannot be had is not there: all of the shared heap that is  *)
(* large enough is referred to.                                            *)
THEOREM FullWhenError ==
  ASSUME Risks = {}
  PROVE  Spec => []ErrorMeansFull
<1>1. IndInv => ErrorMeansFull
  BY DEF IndInv
<1> QED BY <1>1, Invariance, PTL

=============================================================================
