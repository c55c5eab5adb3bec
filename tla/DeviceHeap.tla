----------------------------- MODULE DeviceHeap -----------------------------
(***************************************************************************)
(* The heaps of one physical core (device/device-functions.c): one in the  *)
(* memory of the core, one in external memory.  A heap is a row of chunks, *)
(* each a header (length, in use) and its bytes.  Memory is allocated      *)
(* first fit, by the core at the end of a free chunk and by the host, in   *)
(* the shared heap while the core waits, at its start.  A collection frees *)
(* what no variable of the symbol table points to.                         *)
(*                                                                         *)
(* An action is a statement of the program with every heap call it makes.  *)
(* Lengths are chosen freely from Sizes.  (With -datashared every request  *)
(* is for shared memory; that mode is not modelled.)                       *)
(***************************************************************************)
EXTENDS Integers

CONSTANTS
  Vars,          \* the variables of the program
  Sizes,         \* the sizes it asks for
  CoreHeader,    \* sizeof(unsigned short) + sizeof(unsigned char)
  SharedHeader,  \* sizeof(unsigned int) + sizeof(unsigned char)
  CoreEnd,       \* LOCAL_CORE_MEMORY_MAP_TOP, counted from heap_start
  SharedEnd,     \* SHARED_HEAP_DATA_AREA_PER_CORE
  LengthMax,     \* the largest unsigned int, the length in a shared header
  Risks          \* what the program may do, or its memory hold, see below

ASSUME HeapAssumption ==
  /\ Sizes \subseteq Nat \ {0}
  /\ CoreHeader \in Nat \ {0} /\ SharedHeader \in Nat \ {0}
  /\ CoreEnd \in Nat /\ CoreEnd >= CoreHeader
  /\ SharedEnd \in Nat /\ SharedEnd >= SharedHeader
  /\ LengthMax \in Nat /\ LengthMax >= CoreEnd /\ LengthMax >= SharedEnd

(* The risks a program can take:                                           *)
(*   "exact"  the host meets a free chunk too small for the header of what *)
(*            it leaves over                                               *)
(*   "midgc"  a collection while the first operand of a concatenation is   *)
(*            copied and the second is not                                 *)
(*   "stale"  tmpStr1, tmpStr2 without a value hold an address of the heap *)
(*   "alias"  an array is extended that another variable refers to         *)
(*   "retype" a number is stored in a variable that held an array or string*)
AllRisks == {"exact", "midgc", "stale", "alias", "retype"}

VARIABLES
  chunks,   \* of each heap, the headers by their offset in the heap
  vars,     \* the symbol table: of each variable, its type and its pointer
  freed,    \* variables whose memory the program has given back itself
  error     \* the size that could not be had, Crash, or 0

vars_all == <<chunks, vars, freed, error>>

Heaps == {"core", "shared"}
Header == [h \in Heaps |-> IF h = "core" THEN CoreHeader ELSE SharedHeader]
End == [h \in Heaps |-> IF h = "core" THEN CoreEnd ELSE SharedEnd]

Chunk(len, used) == [len |-> len, used |-> used]
NoPlace == <<"none", 0>>
Crash == -1

Lowest(S) == CHOOSE a \in S : \A b \in S : a <= b
After(m, h, a) == a + Header[h] + m[a].len

\* The chunk at a becomes two, the second at b.
Parted(m, a, first, b, second) ==
  [p \in DOMAIN m \cup {b} |-> CASE p = b -> second [] p = a -> first [] OTHER -> m[p]]

-----------------------------------------------------------------------------
(* The heap.                                                               *)

\* Mutant of Merged: the header of a chunk taken in is not counted.
MergedNoHeaders(m) ==
  LET Stays == {a \in DOMAIN m : \/ a = 0
                                 \/ m[a].used
                                 \/ \E p \in DOMAIN m : m[p].used /\ After(m, "core", p) = a}
      Next(a) == Lowest({b \in Stays \cup {CoreEnd} : b > a})
  IN [a \in Stays |-> IF m[a].used \/ Next(a) = After(m, "core", a) THEN m[a]
                      ELSE Chunk(Next(a) - a - 2 * CoreHeader, FALSE)]

\* consolidateHeapChunks(0): a free chunk takes in the free chunks after it.
\* What stays is the first chunk, the used ones, and the free ones that follow
\* a used one; a free one then reaches to the next that stays.
Merged(m) ==
  LET Stays == {a \in DOMAIN m : \/ a = 0
                                 \/ m[a].used
                                 \/ \E p \in DOMAIN m : m[p].used /\ After(m, "core", p) = a}
      Next(a) == Lowest({b \in Stays \cup {CoreEnd} : b > a})
  IN [a \in Stays |-> IF m[a].used THEN m[a]
                                   ELSE Chunk(Next(a) - a - CoreHeader, FALSE)]

\* In the shared heap the test for the end of the core's memory
\* (heapPtr + chunkLength + ... >= LOCAL_CORE_MEMORY_MAP_TOP) is unsigned and is
\* true of every address in external memory: nothing is ever merged.
Consolidated(c, h) == IF h = "core" THEN [c EXCEPT !["core"] = Merged(@)] ELSE c

\* allocateChunkInHeapMemory: the end of the first free chunk with room for the
\* bytes and a header.
Allocate(c, h, size) ==
  LET m == c[h]
      fit == {a \in DOMAIN m : ~m[a].used /\ m[a].len >= size + Header[h]}
      a == Lowest(fit)
      splitChunk == a + m[a].len - size
      left == m[a].len - size - Header[h]
      split == Parted(m, a, Chunk(left, FALSE), splitChunk, Chunk(size, TRUE))
  IN IF fit = {} THEN [chunks |-> c, at |-> NoPlace]
                 ELSE [chunks |-> [c EXCEPT ![h] = split], at |-> <<h, splitChunk>>]

\* allocateChunkInSharedHeapMemory, on the host: the start of the first free chunk
\* with room for the bytes.  The header of what is left is written in any case.
HostAllocate(c, size) ==
  LET m == c["shared"]
      fit == {a \in DOMAIN m : ~m[a].used /\ m[a].len >= size}
      a == Lowest(fit)
      splitChunk == a + size + SharedHeader
      left == m[a].len - size - SharedHeader
      rest == Chunk(IF left < 0 THEN left + LengthMax + 1 ELSE left, FALSE)
      whole == {p \in DOMAIN m : p <= splitChunk \/ p >= splitChunk + SharedHeader}
      split == Parted([p \in whole |-> m[p]], a, Chunk(size, TRUE), splitChunk, rest)
  IN IF fit = {} THEN [chunks |-> c, at |-> NoPlace, exact |-> FALSE]
                 ELSE [chunks |-> [c EXCEPT !["shared"] = split], at |-> <<"shared", a>>,
                       exact |-> left < 0]

\* Mutant of Roots: strings are not looked for.
RootsArrays == {vars[x].at : x \in {y \in Vars : vars[y].type = "array"}}

\* isMemoryAddressFound: what arrays and strings of the symbol table point to.
Roots == {vars[x].at : x \in {y \in Vars : vars[y].type \in {"array", "string"}}}

\* performGC: free what is not found; if anything was, consolidate.
Collected(c, h) ==
  LET swept == [a \in DOMAIN c[h] |-> Chunk(c[h][a].len, c[h][a].used /\ <<h, a>> \in Roots)]
  IN IF swept = c[h] THEN c ELSE Consolidated([c EXCEPT ![h] = swept], h)

\* Mutant of Freed: nothing is consolidated.
FreedOnly(c, at) == IF at = NoPlace THEN c ELSE [c EXCEPT ![at[1]][at[2]] = Chunk(@.len, FALSE)]

\* freeMemoryInHeap: (int) address is negative in external memory, so that it is the
\* core's heap that is consolidated, whatever was freed.
Freed(c, at) ==
  LET h == at[1] IN
  IF at = NoPlace THEN c
  ELSE Consolidated([c EXCEPT ![h][at[2]] = Chunk(@.len, FALSE)], "core")

\* Mutant of TryHeap: no second try after the collection.
TryHeapOnce(c, h, size, collect) ==
  LET first == Allocate(c, h, size)
  IN IF first.at # NoPlace \/ ~collect THEN first
     ELSE [chunks |-> Collected(c, h), at |-> NoPlace]

\* getHeapMemory: try, collect and try again; the core's heap first unless shared
\* memory is asked for.  Nothing is collected before the first variable exists
\* (a statement that assigns creates its variable before).
TryHeap(c, h, size, collect) ==
  LET first == Allocate(c, h, size)
  IN IF first.at # NoPlace \/ ~collect THEN first
     ELSE Allocate(Collected(c, h), h, size)

GetHeap(c, shared, size, collect) ==
  LET core == TryHeap(c, "core", size, collect)
  IN IF shared THEN TryHeap(c, "shared", size, collect)
     ELSE IF core.at # NoPlace THEN core
     ELSE TryHeap(core.chunks, "shared", size, collect)

SomeVar == \E x \in Vars : vars[x].type # "absent"

-----------------------------------------------------------------------------
(* The program.                                                            *)

Var(type, at, size) == [type |-> type, at |-> at, size |-> size]
Pointers == {x \in Vars : vars[x].at # NoPlace}
Usable == Pointers \ freed

\* initialiseSymbolTable, runIntepreter
Init ==
  /\ chunks = [h \in Heaps |-> [a \in {0} |-> Chunk(End[h] - Header[h], FALSE)]]
  /\ vars = [x \in Vars |-> Var("absent", NoPlace, 0)]
  /\ freed = {}
  /\ error = 0

Assign(x, value) == vars' = [vars EXCEPT ![x] = value] /\ freed' = freed \ {x}

\* raiseError stops the interpreter; nothing that follows is modelled.
Stop(c, why) == chunks' = c /\ error' = why /\ UNCHANGED <<vars, freed>>

\* An array literal, or a native call that makes an array, and the assignment.
LetArray(x, shared, size) ==
  LET got == GetHeap(chunks, shared, size, TRUE)
  IN \/ /\ got.at # NoPlace
        /\ chunks' = got.chunks
        /\ Assign(x, Var("array", got.at, size))
        /\ UNCHANGED error
     \/ got.at = NoPlace /\ Stop(got.chunks, size)

\* let x = y with an array or string.
LetVar(x, y) ==
  /\ y \in Usable
  /\ vars[y].type \in {"array", "string"}
  /\ Assign(x, vars[y])
  /\ UNCHANGED <<chunks, error>>

\* let x = a number.  A variable that holds an address keeps it, and the number is
\* stored there.
LetNumber(x) ==
  /\ x \in Pointers => x \in Usable /\ ("retype" \in Risks \/ vars[x].type = "number")
  /\ vars' = [vars EXCEPT ![x].type = "number"]
  /\ UNCHANGED <<chunks, freed, error>>

\* x[i] = v past the end: a larger array, the old one is freed.
Extend(x, size) ==
  LET got == GetHeap(chunks, FALSE, size, TRUE)
  IN /\ x \in Usable
     /\ vars[x].type = "array"
     /\ size > vars[x].size
     /\ "alias" \in Risks \/ \A y \in Usable \ {x} : vars[y].at # vars[x].at
     /\ \/ /\ got.at # NoPlace
           /\ chunks' = Freed(got.chunks, vars[x].at)
           /\ Assign(x, Var("array", got.at, size))
           /\ UNCHANGED error
        \/ got.at = NoPlace /\ Stop(got.chunks, size)

\* copyStringToSharedMemoryAndSetLocation; size 0: the value is not a string.
Copy(c, size, collect) == IF size = 0 THEN [chunks |-> c, at |-> NoPlace]
                                     ELSE GetHeap(c, TRUE, size, collect)
NoCopy(size, copy) == size # 0 /\ copy.at = NoPlace

\* displayToUser: copy the string, the host prints it, free the copy.
Display(size) ==
  LET copy == Copy(chunks, size, SomeVar)
  IN IF NoCopy(size, copy) THEN Stop(copy.chunks, size)
     ELSE chunks' = Freed(copy.chunks, copy.at) /\ UNCHANGED <<vars, freed, error>>

\* getInputFromUserWithString or, without text, getInputFromUser, and the assignment;
\* inputCoreMessage stores the answer, a string of the given size, without a test of
\* what allocateChunkInSharedHeapMemory returns.
Input(x, size, answer) ==
  LET copy == Copy(chunks, size, TRUE)
      got == HostAllocate(copy.chunks, answer)
  IN IF NoCopy(size, copy) THEN Stop(copy.chunks, size)
     ELSE IF got.at = NoPlace THEN Stop(copy.chunks, Crash)
     ELSE /\ got.exact => "exact" \in Risks
          /\ chunks' = Freed(got.chunks, copy.at)
          /\ Assign(x, Var("string", got.at, answer))
          /\ UNCHANGED error

\* What tmpStr1 and tmpStr2 hold after a copy: without one, what the stack held.
Held(c, size, copy) ==
  IF size # 0 THEN {copy.at}
  ELSE {NoPlace} \cup IF "stale" \in Risks
                     THEN UNION {{h} \X DOMAIN c[h] : h \in Heaps} ELSE {}

\* performStringConcatenation with stringConcatenate on the host, and the assignment.
\* One operand at least is a string.
Concat(x, size1, size2, answer) ==
  LET copy1 == Copy(chunks, size1, TRUE)
      copy2 == Copy(copy1.chunks, size2, TRUE)
      got == HostAllocate(copy2.chunks, answer)
      collects == size1 # 0 /\ size2 # 0 /\ Allocate(copy1.chunks, "shared", size2).at = NoPlace
  IN /\ size1 # 0 \/ size2 # 0
     /\ IF NoCopy(size1, copy1) THEN Stop(copy1.chunks, size1)
        ELSE /\ collects => "midgc" \in Risks
             /\ IF NoCopy(size2, copy2) THEN Stop(copy2.chunks, size2)
                ELSE IF got.at = NoPlace THEN Stop(copy2.chunks, Crash)
                ELSE /\ got.exact => "exact" \in Risks
                     /\ \E tmpStr1 \in Held(got.chunks, size1, copy1) :
                          \E tmpStr2 \in Held(got.chunks, size2, copy2) :
                            chunks' = Freed(Freed(got.chunks, tmpStr1), tmpStr2)
                     /\ Assign(x, Var("string", got.at, answer))
                     /\ UNCHANGED error

\* gc(): garbageCollect
Collect ==
  /\ SomeVar
  /\ chunks' = Collected(Collected(chunks, "core"), "shared")
  /\ UNCHANGED <<vars, freed, error>>

\* free(x): the program may not use the memory any more, by whatever name.
Free(x) ==
  /\ x \in Usable
  /\ vars[x].type \in {"array", "string"}
  /\ chunks' = Freed(chunks, vars[x].at)
  /\ freed' = freed \cup {y \in Vars : vars[y].at = vars[x].at}
  /\ UNCHANGED <<vars, error>>

\* clearVariablesToLevel: the function x belongs to returns.
Leave(x) ==
  /\ vars[x].type \notin {"absent", "unallocated"}
  /\ Assign(x, Var("unallocated", NoPlace, 0))
  /\ UNCHANGED <<chunks, error>>

Statement ==
  \/ \E x \in Vars, shared \in BOOLEAN, size \in Sizes : LetArray(x, shared, size)
  \/ \E x, y \in Vars : LetVar(x, y)
  \/ \E x \in Vars : LetNumber(x) \/ Free(x) \/ Leave(x)
  \/ \E x \in Vars, size \in Sizes : Extend(x, size)
  \/ \E size \in Sizes : Display(size)
  \/ \E x \in Vars, size \in Sizes \cup {0}, answer \in Sizes : Input(x, size, answer)
  \/ \E x \in Vars, size1, size2 \in Sizes \cup {0}, answer \in Sizes :
       Concat(x, size1, size2, answer)
  \/ Collect

Next == \/ error = 0 /\ Statement
        \/ error # 0 /\ UNCHANGED vars_all  \* the interpreter has stopped

Spec == Init /\ [][Next]_vars_all

-----------------------------------------------------------------------------
(* Properties.                                                             *)

Places == {NoPlace} \cup ({"core"} \X (0 .. CoreEnd)) \cup ({"shared"} \X (0 .. SharedEnd))

WellFormed(m, h) ==
  \A a \in DOMAIN m :
    /\ a \in 0 .. End[h] - Header[h]
    /\ m[a].len \in 0 .. LengthMax
    /\ m[a] = Chunk(m[a].len, m[a].used)
    /\ m[a].used \in BOOLEAN

\* Headers lie in their heap and hold lengths, pointers are offsets in a heap.
TypeOK ==
  /\ DOMAIN chunks = Heaps
  /\ \A h \in Heaps : WellFormed(chunks[h], h)
  /\ vars \in [Vars -> [type : {"absent", "unallocated", "number", "array", "string"},
                        at : Places, size : Sizes \cup {0}]]
  /\ freed \subseteq Vars
  /\ error \in Sizes \cup {0, Crash}

Covers(m, h) ==
  /\ 0 \in DOMAIN m
  /\ \A a \in DOMAIN m : After(m, h, a) \in DOMAIN m \cup {End[h]}
  /\ \A a, b \in DOMAIN m : a < b => After(m, h, a) <= b

\* The loops over a heap start at its first byte and go from header to header by the
\* lengths: they meet every header, nothing but headers, and the end.
Tiled == \A h \in Heaps : Covers(chunks[h], h)

\* Memory a variable refers to, and that the program has not freed, is a chunk in use
\* of the size that was asked for: no collection, no freeing of something else and no
\* split or merge takes it away.
HeldInUse ==
  \A x \in Usable :
    LET h == vars[x].at[1]
        a == vars[x].at[2]
    IN a \in DOMAIN chunks[h] /\ chunks[h][a] = Chunk(vars[x].size, TRUE)

NoFreePair(m, h) ==
  \A a \in DOMAIN m : ~m[a].used /\ After(m, h, a) \in DOMAIN m => m[After(m, h, a)].used

\* The core's heap has no two free chunks side by side, whoever freed them.
CoreMerged == NoFreePair(chunks["core"], "core")

Full(m, size) ==
  \A a \in DOMAIN m : IF m[a].used THEN <<"shared", a>> \in Roots
                                    ELSE m[a].len < size + SharedHeader

\* The interpreter stops for want of memory only when no free chunk of the shared heap
\* is large enough and everything in use there is still referred to.
ErrorMeansFull == error > 0 => Full(chunks["shared"], error)

-----------------------------------------------------------------------------
(* The parts of the inductive invariant that the proofs add.               *)

\* A variable has a pointer exactly when it is an array or a string (no number has
\* been stored in one), and nothing is in use before the first variable exists.
VarInv ==
  /\ \A x \in Vars : vars[x].at # NoPlace <=> vars[x].type \in {"array", "string"}
  /\ error = 0 /\ ~SomeVar => \A h \in Heaps : \A a \in DOMAIN chunks[h] : ~chunks[h][a].used

IndInv == TypeOK /\ Tiled /\ CoreMerged /\ VarInv /\ HeldInUse /\ ErrorMeansFull

=============================================================================
