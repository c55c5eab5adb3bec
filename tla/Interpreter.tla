---------------------------- MODULE Interpreter ----------------------------
(* The interpreter of the byte code (src/interpreter/interpreter.c, as it is *)
(* built for the Epiphany cores) and the part of callNativeFunction          *)
(* (src/device/device-functions.c) that needs no other core.                 *)
(*                                                                          *)
(* A machine is a record of the interpreter's global variables and of the    *)
(* memory it works on:                                                       *)
(*   code       the byte code; the address of a byte is its position          *)
(*   tab, lvl   the symbol table up to currentSymbolEntries, and fnLevel     *)
(*   mem, sp    the words of stack and heap, and the end of the stack in use *)
(*   top        where the next heap block is put (DeviceHeap has the heap)   *)
(*   out        what was printed                                             *)
(*   stop, lost stopInterpreter; the interpreter reads bytes that are no     *)
(*              token, or computes with a value the code leaves undefined    *)
(*   fuel       how many more commands the model lets it execute             *)
(* Pointers are addresses: into the code below StackStart, into the stack    *)
(* from there and into the heap from HeapStart. A stack variable is a word;  *)
(* an array is a word for the header byte (the number of dimensions, and 16  *)
(* if it may be extended), one for each dimension, and the elements.         *)
(* A real is modelled by its value when that is a whole number.              *)
EXTENDS ByteCode, TLC

CONSTANTS StackStart, HeapStart, Fuel, LocalCore, ActiveCores,
          IntLimit          \* an int is in -IntLimit..IntLimit - 1; 2^31 in the code
ASSUME InterpreterAssumption ==
  /\ {StackStart, HeapStart, Fuel, LocalCore, ActiveCores} \subseteq Nat
  /\ 0 < StackStart /\ StackStart < HeapStart /\ HeapStart < IntLimit

Wrapped(n) == ((n + IntLimit) % (2 * IntLimit)) - IntLimit

Value(type, dtype, data) == [type |-> type, dtype |-> dtype, data |-> data]
Scalar(type, data) == Value(type, "SCALAR", data)
Empty == Scalar("NONE", 0)
Truth(b) == Scalar("BOOLEAN", IF b THEN 1 ELSE 0)

(* runIntepreter *)
Machine(code) ==
  [code |-> code, tab |-> <<>>, lvl |-> 0, mem |-> <<>>, sp |-> StackStart,
   top |-> HeapStart, out |-> <<>>, stop |-> FALSE, lost |-> FALSE, fuel |-> Fuel]

Lost(m) == [m EXCEPT !.lost = TRUE]
raiseError(m) == [m EXCEPT !.stop = TRUE]
ErrorIf(m, p) == IF p THEN raiseError(m) ELSE m

-----------------------------------------------------------------------------
(* Memory. *)
At(m, a) == IF a \in 0..Len(m.code) - 1 THEN m.code[a + 1] ELSE Cell("outside", 0)
Operand(m, a) == At(m, a).v         \* getUChar, getUShort, getInt
Load(m, a) == CASE a < StackStart -> Operand(m, a)
                [] a \in DOMAIN m.mem -> m.mem[a]
                [] OTHER -> 0
Store(m, a, w) == IF a < StackStart THEN [m EXCEPT !.code = Write(@, a, Word(w))]
                  ELSE [m EXCEPT !.mem = (a :> w) @@ @]
StoreAll(m, a, ws) ==
  FoldLeft(LAMBDA n, k : Store(n, a + k - 1, ws[k]), m, [k \in DOMAIN ws |-> k])

getStackMemory(m, n) == [m EXCEPT !.sp = @ + n]     \* the address is the old sp
getHeapMemory(m, n)  == [m EXCEPT !.top = @ + n]    \* the address is the old top
Dims(m, a) == Load(m, a) % 16

(* A string is read up to the first byte that is 0. *)
slength(m, a) ==
  CHOOSE n \in 0..Len(m.code) :
    /\ Operand(m, a + n) % 256 = 0
    /\ \A k \in 0..n - 1 : Operand(m, a + k) % 256 # 0

-----------------------------------------------------------------------------
(* The symbol table. Operators that may add an entry give back the machine   *)
(* and the position of the entry.                                            *)
Entry(id, lvl) ==
  [id |-> id, state |-> "ALLOCATED", level |-> lvl, alias |-> 0,
   type |-> "INT", dtype |-> "SCALAR", data |-> 0]

getSymbolTableEntryId(m) ==
  LET free == SelectInSeq(m.tab, LAMBDA e : e.state = "UNALLOCATED")
  IN  IF free # 0 THEN free ELSE Len(m.tab) + 1

Visible(m, id, lvl) ==
  SelectInSeq(m.tab, LAMBDA e : e.id = id /\ e.state # "UNALLOCATED" /\ e.level \in {0, lvl})

Symbol(x, P(_, _)) == P(x.m, x.s)       \* goes on with what getVariableSymbol gives back

RECURSIVE getVariableSymbol(_, _, _, _)
getVariableSymbol(m, id, lvl, followAlias) ==
  LET found == Visible(m, id, lvl)
      new   == getSymbolTableEntryId(m)
  IN  CASE found = 0 ->
             [m |-> [m EXCEPT !.tab = Append(SubSeq(@, 1, new - 1), Entry(id, lvl))
                                        \o SubSeq(@, new + 1, Len(@))],
              s |-> new]
        [] found # 0 /\ followAlias /\ m.tab[found].state = "ALIAS" ->
             getVariableSymbol(m, m.tab[found].alias, (lvl - 1) % 256, TRUE)
        [] OTHER -> [m |-> m, s |-> found]

(* Where element index of a variable is; the variable itself is at index -1. *)
Place(m, e, index) ==
  IF e.dtype = "ARRAY" THEN e.data + 1 + Dims(m, e.data) + index ELSE e.data + index + 1

setVariableValue(m, s, v, index) ==
  LET n == [m EXCEPT !.tab[s].type = v.type]
  IN  CASE v.type = "STRING" -> [n EXCEPT !.tab[s].data = v.data]
        [] v.type # "STRING" /\ m.tab[s].data = 0 ->
             Store([getStackMemory(n, index) EXCEPT !.tab[s].data = m.sp], m.sp + index + 1, v.data)
        [] OTHER -> Store(n, Place(m, m.tab[s], index), v.data)

getVariableValue(m, s, index) ==
  LET e == m.tab[s]
  IN  Scalar(e.type, IF e.type = "STRING" THEN e.data ELSE Load(m, Place(m, e, index)))

(* The entries of a level go; the stack is cut back to the lowest word that  *)
(* one of them points to (clearFreedStackFrames).                            *)
clearVariablesAbove(m, lvl) ==        \* a mutant of the next definition
  LET gone  == {s \in DOMAIN m.tab : m.tab[s].level >= lvl /\ m.tab[s].state # "UNALLOCATED"}
      words == {m.tab[s].data : s \in {t \in gone : /\ m.tab[t].dtype = "SCALAR"
                                                    /\ m.tab[t].type # "STRING"}} \ {0}
  IN  [m EXCEPT !.tab = FoldSet(LAMBDA s, tab : [tab EXCEPT ![s].state = "UNALLOCATED"], @, gone),
                !.sp  = IF words = {} THEN @ ELSE Max(words)]
clearVariablesToLevel(m, lvl) ==
  LET gone  == {s \in DOMAIN m.tab : m.tab[s].level >= lvl /\ m.tab[s].state # "UNALLOCATED"}
      words == {m.tab[s].data : s \in {t \in gone : /\ m.tab[t].dtype = "SCALAR"
                                                    /\ m.tab[t].type # "STRING"}} \ {0}
  IN  [m EXCEPT !.tab = FoldSet(LAMBDA s, tab : [tab EXCEPT ![s].state = "UNALLOCATED"], @, gone),
                !.sp  = IF words = {} THEN @ ELSE Min(words)]

-----------------------------------------------------------------------------
(* Arithmetic and comparison of two values. *)
Quotient(a, b) == IF (a < 0) = (b < 0) THEN (IF a < 0 THEN -a ELSE a) \div (IF b < 0 THEN -b ELSE b)
                  ELSE -((IF a < 0 THEN -a ELSE a) \div (IF b < 0 THEN -b ELSE b))
Power(a, n) == FoldLeft(LAMBDA p, k : Wrapped(p * a), IF n = 0 THEN 1 ELSE a, [k \in 1..n - 1 |-> k])
(* getFloat of what is no number: the bits of a small integer, almost 0. *)
Float(v) == IF v.type \in {"INT", "REAL"} THEN v.data ELSE 0
(* Whether the code gives the result a value, and a real one is whole. *)
Defined(type, op, x, y) ==
  CASE op = "DIV" -> Float(y) # 0 /\ (type = "REAL" => Float(x) = Float(y) * Quotient(Float(x), Float(y)))
    [] op = "MOD" -> type = "INT" /\ Float(y) # 0
    [] op = "POW" -> y.type = "INT"
    [] OTHER -> TRUE
Arithmetic(op, a, b) ==
  Wrapped(CASE op = "ADD" -> a + b
          [] op = "SUB" -> a - b
          [] op = "MUL" -> a * b
          [] op = "DIV" -> Quotient(a, b)
          [] op = "MOD" -> a - b * Quotient(a, b)
          [] op = "POW" -> Power(a, b))
Compare(op, a, b) ==
  CASE op = "EQ" -> a = b [] op = "NEQ" -> a # b
    [] op = "GT" -> a > b [] op = "GEQ" -> a >= b
    [] op = "LT" -> a < b [] op = "LEQ" -> a <= b
    [] OTHER -> FALSE
Arithmetics == {"ADD", "SUB", "MUL", "DIV", "MOD", "POW"}
Comparisons == {"EQ", "NEQ", "GT", "GEQ", "LT", "LEQ", "IS"}
Numbers == {"INT", "REAL"}

(* The comparison of determine_logical_expression and whether it is an error. *)
Holds(m, op, x, y) ==
  CASE op = "IS" -> /\ x.type = y.type
                    /\ x.type = "NONE" \/ x.data = y.data
    [] op # "IS" /\ {x.type, y.type} \subseteq Numbers -> Compare(op, x.data, y.data)
    [] op # "IS" /\ x.type = "STRING" /\ y.type = "STRING" ->
         op \in {"EQ", "NEQ"} /\ Compare(op, Operand(m, x.data), Operand(m, y.data))
    [] op # "IS" /\ x.type = "NONE" /\ y.type = "NONE" -> op = "EQ"
    [] OTHER -> FALSE
OnlyEquality(op, x, y) ==
  x.type = y.type /\ x.type \in {"STRING", "NONE"} /\ op \notin {"EQ", "NEQ", "IS"}

-----------------------------------------------------------------------------
(* Native functions: the value of one, and the machine after it. *)
Natives(f, n) ==            \* does f take n arguments
  CASE f \in {"rtl_ishost", "rtl_isdevice", "rtl_numcores", "rtl_coreid"} -> n = 0
    [] f \in {"rtl_print", "rtl_numdims"} -> n = 1
    [] f = "rtl_dsize" -> n = 2
    [] f = "rtl_math" -> n \in {1, 2}
    [] OTHER -> f = "rtl_allocatearray"

displayToUser(m, v) ==
  [m EXCEPT !.out = Append(@, <<v.type, IF v.type = "STRING" THEN Operand(m, v.data) ELSE v.data>>)]

(* callNativeFunction; an error is reported and the function carried out.    *)
(* Of the operations of the host's mathematics only floor, 0, is here.       *)
callNativeFunction(start, f, vs) ==
  LET m == ErrorIf(start, ~Natives(f, Len(vs)))
      isArray == vs # <<>> /\ vs[1].dtype = "ARRAY"
      sizes == [k \in DOMAIN vs |-> vs[k].data]
  IN  CASE vs = <<>> /\ f \in {"rtl_print", "rtl_numdims", "rtl_dsize"} -> [m |-> Lost(m), s |-> Empty]
        [] f = "rtl_ishost"   -> [m |-> m, s |-> Truth(FALSE)]
        [] f = "rtl_isdevice" -> [m |-> m, s |-> Truth(TRUE)]
        [] f = "rtl_numcores" -> [m |-> m, s |-> Scalar("INT", ActiveCores)]
        [] f = "rtl_coreid"   -> [m |-> m, s |-> Scalar("INT", LocalCore)]
        [] f = "rtl_print" /\ vs # <<>> -> [m |-> displayToUser(m, vs[1]), s |-> Empty]
        [] f = "rtl_numdims" /\ vs # <<>> ->
             [m |-> m, s |-> Scalar("INT", IF isArray THEN Dims(m, vs[1].data) ELSE 0)]
        [] f = "rtl_dsize" /\ Len(vs) = 2 ->
             [m |-> m, s |-> Scalar("INT", IF isArray /\ vs[2].data < Dims(m, vs[1].data)
                                           THEN Load(m, vs[1].data + 1 + vs[2].data) ELSE 0)]
        [] f = "rtl_allocatearray" ->
             [m |-> StoreAll(getHeapMemory(m, 1 + Len(vs) + FoldLeft(LAMBDA a, b : a * b, 1, sizes)),
                             m.top, <<Len(vs) % 16>> \o sizes),
              s |-> Value("INT", "ARRAY", m.top)]
        [] f = "rtl_math" /\ Len(vs) = 2 /\ vs[1].data = 0 -> [m |-> m, s |-> Scalar("INT", Float(vs[2]))]
        [] OTHER -> [m |-> Lost(m), s |-> Empty]

-----------------------------------------------------------------------------
(* The commands and expressions. Each operator takes the machine and the     *)
(* address where it reads, and gives back the machine, the address where it  *)
(* stopped and what it found.                                                *)
RECURSIVE getExpressionValue(_, _), determine_logical_expression(_, _),
          Command(_, _), processAssembledCode(_, _)

Read(m, i, v) == [m |-> m, i |-> i, v |-> v]
Then(r, P(_, _, _)) == P(r.m, r.i, r.v)     \* goes on after r

(* n expressions one behind the other, v the sequence of their values *)
Values(m, i, n) ==
  FoldLeft(LAMBDA r, k : Then(getExpressionValue(r.m, r.i),
                              LAMBDA m1, i1, v : Read(m1, i1, Append(r.v, v))),
           Read(m, i, <<>>), [k \in 1..n |-> k])

Result(op, type, m, i, x, y) ==
  CASE type = "STRING" -> Read(Lost(ErrorIf(m, op # "ADD")), i, Empty)
    [] type # "STRING" /\ ~Defined(type, op, x, y) -> Read(Lost(m), i, Empty)
    [] OTHER -> Read(m, i, Scalar(type, Arithmetic(op, Float(x), Float(y))))
computeExpressionResult(op, m, i) ==
  Then(Values(m, i, 2),
       LAMBDA n, j, v :
         Result(op, CASE v[1].type = "INT" /\ v[2].type = "INT" -> "INT"
                      [] "STRING" \in {v[1].type, v[2].type} -> "STRING"
                      [] OTHER -> "REAL",
                n, j, v[1], v[2]))

(* An array literal; its items are evaluated once for each repetition. *)
Items(start, i, a, n, times) ==
  FoldLeft(LAMBDA r, j :
             Then(Values(r.m, i, n),
                  LAMBDA m, k, v : Read(StoreAll(m, a + 2 + (j - 1) * n, [d \in 1..n |-> v[d].data]), k,
                                        IF n = 0 THEN r.v ELSE Value(v[n].type, "ARRAY", a))),
           Read(StoreAll(getHeapMemory(start, n * times + 2), a, <<17, n * times>>), i,
                Value("INT", "ARRAY", a)),
           [j \in 1..times |-> j])
ArrayLiteral(start, at) ==
  Then(Values(start, at + 5, Operand(start, at + 4)),
       LAMBDA m, i, v : Items(m, i, m.top, Operand(start, at), IF v = <<>> THEN 1 ELSE v[1].data))

(* The loop over the dimensions adds up the indexes: its weights are all 1,  *)
(* since the loop that would multiply them never runs. An index past the     *)
(* size enlarges an array that may be extended: it is copied to a new block. *)
Index(r, a, k) ==
  Then(getExpressionValue(r.m, r.i),
       LAMBDA m, i, v :
         [m |-> IF v.data >= Load(m, a + k)
                THEN Store(ErrorIf(m, Load(m, a) < 16), a + k, v.data + 1)
                ELSE ErrorIf(m, v.data < 0),
          i |-> i, v |-> r.v + v.data, total |-> r.total * Load(m, a + k),
          extend |-> r.extend \/ v.data >= Load(m, a + k)])
Extended(m, s, a, n, total) ==
  [StoreAll(getHeapMemory(m, 1 + n + FoldLeft(LAMBDA p, k : p * Load(m, a + k), 1, [k \in 1..n |-> k])),
            m.top, [k \in 1..1 + n + total |-> Load(m, a + k - 1)])
     EXCEPT !.tab[s].data = m.top]
AfterIndexes(r, P(_, _, _, _, _)) == P(r.m, r.i, r.v, r.total, r.extend)
getArrayAccessorIndex(start, s, at) ==
  LET n == Operand(start, at)
      a == start.tab[s].data
  IN  AfterIndexes(FoldLeft(LAMBDA r, k : Index(r, a, k),
                            [m |-> ErrorIf(start, n > Dims(start, a)), i |-> at + 1, v |-> 0,
                             total |-> 1, extend |-> FALSE],
                            [k \in 1..n |-> k]),
                   LAMBDA m, i, v, total, extend :
                     Read(IF extend THEN Extended(m, s, a, n, total) ELSE m, i, v))

Itself(m, i) ==
  Symbol(getVariableSymbol(m, Operand(m, i), m.lvl, TRUE),
         LAMBDA n, s : Read(n, i + 2, getVariableValue(n, s, -1)))
Identifier(m, i) ==
  Symbol(getVariableSymbol(m, Operand(m, i), m.lvl, TRUE),
         LAMBDA n, s : Read(n, i + 2, IF n.tab[s].dtype = "SCALAR" THEN getVariableValue(n, s, -1)
                                      ELSE Value(n.tab[s].type, "ARRAY", n.tab[s].data)))
ArrayAccess(m, i) ==
  Symbol(getVariableSymbol(m, Operand(m, i), m.lvl, TRUE),
         LAMBDA n, s : Then(getArrayAccessorIndex(n, s, i + 2),
                            LAMBDA n1, i1, v : Read(n1, i1, getVariableValue(n1, s, v))))

determine_logical_expression(m, i) ==
  LET token == At(m, i).k
  IN  CASE token \in {"AND", "OR"} ->
             Then(determine_logical_expression(m, i + 1),
                  LAMBDA n, j, p : Then(determine_logical_expression(n, j),
                                        LAMBDA n1, j1, q : Read(n1, j1, IF token = "AND" THEN p /\ q
                                                                        ELSE p \/ q)))
        [] token = "NOT" ->
             Then(getExpressionValue(m, i + 1), LAMBDA n, j, v : Read(n, j, ~(v.data > 0)))
        [] token \in Comparisons ->
             Then(Values(m, i + 1, 2),
                  LAMBDA n, j, v : Read(ErrorIf(n, OnlyEquality(token, v[1], v[2])), j,
                                        Holds(n, token, v[1], v[2])))
        [] token \in {"IDENTIFIER", "ARRAYACCESS"} ->
             Then(IF token = "IDENTIFIER" THEN Itself(m, i + 1) ELSE ArrayAccess(m, i + 1),
                  LAMBDA n, j, v : Read(n, j, v.type = "BOOLEAN" /\ v.data > 0))
        [] OTHER ->
             Then(getExpressionValue(m, i),
                  LAMBDA n, j, v : Read(n, j, v.type \in {"BOOLEAN", "INT"} /\ v.data > 0))

handleNative(m, i) ==
  Then(Values(m, i + 3, Operand(m, i + 1)),
       LAMBDA n, j, v : Symbol(callNativeFunction(n, At(m, i).k, v), LAMBDA n1, x : Read(n1, j, x)))

(* The variable is looked for before the value is computed; an argument that *)
(* has become an alias is not given its default value.                       *)
SetVariable(start, i, s, v, noAlias, own) ==
  LET m == [start EXCEPT !.tab[s].type = v.type, !.tab[s].dtype = v.dtype]
  IN  CASE noAlias /\ start.tab[own].state = "ALIAS" -> Read(start, i, Empty)
        [] ~(noAlias /\ start.tab[own].state = "ALIAS") /\ (v.dtype = "ARRAY" \/ v.type = "STRING") ->
             Read([m EXCEPT !.tab[s].data = v.data], i, Empty)
        [] OTHER ->
             Read(IF start.tab[s].data = 0
                  THEN Store([getStackMemory(m, 1) EXCEPT !.tab[s].data = start.sp], start.sp, v.data)
                  ELSE setVariableValue(m, s, v, -1),
                  i, Empty)
handleLet(start, at, restrictNoAlias) ==
  Symbol(getVariableSymbol(start, Operand(start, at), start.lvl, TRUE),
         LAMBDA m, s :
           Then(getExpressionValue(m, at + 2),
                LAMBDA n, i, v :
                  Symbol(getVariableSymbol(n, Operand(start, at), n.lvl, FALSE),
                         LAMBDA n1, own : SetVariable(n1, i, s, v, restrictNoAlias, own))))

handleArraySet(start, at) ==
  Symbol(getVariableSymbol(start, Operand(start, at), start.lvl, TRUE),
         LAMBDA m, s :
           Then(getArrayAccessorIndex(m, s, at + 2),
                LAMBDA n, i, index :
                  Then(getExpressionValue(n, i),
                       LAMBDA n1, i1, v : Read(setVariableValue(n1, s, v, index), i1, Empty))))

handleIf(m, i) ==
  Then(determine_logical_expression(m, i),
       LAMBDA n, j, v : Read(n, j + 2 + IF v THEN 0 ELSE Operand(n, j), Empty))

handleGoto(m, i) == Read(m, Operand(m, i), Empty)

Elements(m, a) ==
  FoldLeft(LAMBDA p, k : p * Load(m, a + k), 1, [k \in 1..Dims(m, a) |-> k])
NextElement(m, i, e, index, variant) ==
  IF index < Elements(m, e.data)
  THEN Read(setVariableValue(m, variant,
                             Scalar(e.type, Load(m, e.data + 1 + Dims(m, e.data) + index)), -1),
            i + 2, Empty)
  ELSE Read(m, i + 2 + Operand(m, i) + 3, Empty)
handleFor(start, at) ==
  Symbol(getVariableSymbol(start, Operand(start, at), start.lvl, TRUE),
         LAMBDA m, counter :
           Symbol(getVariableSymbol(m, Operand(m, at + 2), m.lvl, TRUE),
                  LAMBDA n, variant :
                    Then(getExpressionValue(n, at + 4),
                         LAMBDA n1, i, e :
                           NextElement(n1, i, e, getVariableValue(n1, counter, -1).data, variant))))

(* The arguments that caller and function both have become aliases, at the   *)
(* function's level, of the caller's variables; v is where the function      *)
(* begins behind its arguments.                                              *)
PassArgument(start, at, fn, k) ==
  Symbol(getVariableSymbol(start, Operand(start, at + 2 + 2 * k), start.lvl, FALSE),
         LAMBDA m, source :
           Symbol(getVariableSymbol(m, Operand(m, fn + 2 * k), (m.lvl + 1) % 256, FALSE),
                  LAMBDA n, target : [n EXCEPT !.tab[target].state = "ALIAS",
                                               !.tab[target].alias = n.tab[source].id]))
PassArguments(m, i, fn, given, taken) ==
  Read(FoldLeft(LAMBDA n, k : PassArgument(n, i, fn, k), m, [k \in 1..Min({given, taken}) |-> k]),
       i + 4 + 2 * given, fn + 2 + 2 * taken)
handleFnCall(m, i, byVar) ==
  IF byVar
  THEN Symbol(getVariableSymbol(m, Operand(m, i), m.lvl, TRUE),
              LAMBDA n, s : PassArguments(ErrorIf(n, n.tab[s].type # "FN_ADDR"), i, Load(n, n.tab[s].data),
                                    Operand(n, i + 2), Operand(n, Load(n, n.tab[s].data))))
  ELSE PassArguments(m, i, Operand(m, i), Operand(m, i + 2), Operand(m, Operand(m, i)))

Call(m, i, byVar) ==
  Then(handleFnCall(m, i, byVar),
       LAMBDA n, j, fn :
         Then(processAssembledCode([n EXCEPT !.lvl = (@ + 1) % 256], fn),
              LAMBDA n1, k, v :
                Read([clearVariablesToLevel(n1, n1.lvl) EXCEPT !.lvl = (@ - 1) % 256], j, v)))

getExpressionValue(m, i) ==
  LET token == At(m, i).k
      Constant(type) == Read(m, i + 5, Scalar(type, Operand(m, i + 1)))
  IN  CASE token = "INTEGER" -> Constant("INT")
        [] token = "REAL"    -> Constant("REAL")
        [] token = "BOOLEAN" -> Constant("BOOLEAN")
        [] token = "STRING"  -> Read(m, i + slength(m, i + 1) + 2, Scalar("STRING", i + 1))
        [] token = "NONE"    -> Read(m, i + 1, Empty)
        [] token = "FN_ADDR" -> Read(m, i + 3, Scalar("FN_ADDR", Operand(m, i + 1)))
        [] token = "LET"     -> Then(handleLet(m, i + 1, FALSE), LAMBDA n, j, v : getExpressionValue(n, j))
        [] token = "ARRAY"   -> ArrayLiteral(m, i + 1)
        [] token \in {"FNCALL", "FNCALL_BY_VAR"} -> Call(m, i + 1, token = "FNCALL_BY_VAR")
        [] token = "NATIVE"      -> handleNative(m, i + 1)
        [] token = "IDENTIFIER"  -> Identifier(m, i + 1)
        [] token = "ARRAYACCESS" -> ArrayAccess(m, i + 1)
        [] token \in Arithmetics -> computeExpressionResult(token, m, i + 1)
        [] token \in Comparisons ->
             Then(determine_logical_expression(m, i), LAMBDA n, j, v : Read(n, j, Truth(v)))
        [] OTHER -> Read(Lost(m), i + 1, Empty)

(* One round of the loop of processAssembledCode; done when it returns. *)
NextCommand(r) == [m |-> r.m, i |-> r.i, v |-> Empty, done |-> r.m.stop \/ r.m.lost]
Returned(r)    == [m |-> r.m, i |-> r.i, v |-> r.v, done |-> TRUE]
Handle(token, m, i) ==
  CASE token \in {"LET", "LETNOALIAS"} -> handleLet(m, i, token = "LETNOALIAS")
    [] token = "ARRAYSET"         -> handleArraySet(m, i)
    [] token \in {"IF", "IFELSE"} -> handleIf(m, i)
    [] token = "FOR"              -> handleFor(m, i)
    [] token = "GOTO"             -> handleGoto(m, i)
    [] token \in {"FNCALL", "FNCALL_BY_VAR"} -> Call(m, i, token = "FNCALL_BY_VAR")
    [] token = "NATIVE"           -> handleNative(m, i)
Execute1(token, m, i) ==
  CASE token \in {"STOP", "RETURN"} -> Returned(Read(m, i, Empty))
    [] token = "RETURN_EXP"        -> Returned(getExpressionValue(m, i))
    [] token \in {"LET", "LETNOALIAS", "ARRAYSET", "IF", "IFELSE", "FOR", "GOTO", "FNCALL",
                  "FNCALL_BY_VAR", "NATIVE"} -> NextCommand(Handle(token, m, i))
    [] OTHER -> Returned(Read(Lost(m), i, Empty))
Command(m, i) == Execute1(At(m, i).k, [m EXCEPT !.fuel = @ - 1], i + 1)

Continue(c) == IF c.done THEN Read(c.m, c.i, c.v) ELSE processAssembledCode(c.m, c.i)
processAssembledCode(m, i) ==
  IF m.lost \/ m.fuel <= 0 \/ i >= Len(m.code) THEN Read(m, i, Empty)
  ELSE Continue(Command(m, i))
=============================================================================
