------------------------------ MODULE Meaning ------------------------------
(* What a program prints, defined on the program itself: the language as its *)
(* documentation and its users have it, without byte code, symbol table or   *)
(* stack. It is what the assembler and the interpreter are checked against.  *)
(*                                                                          *)
(* A variable is a cell of a store and a scope gives names to cells; a block *)
(* has a scope of its own, a function sees the scopes it was defined in. An  *)
(* argument that is a plain variable is passed by reference, any other in a  *)
(* new variable. The world w of a program is                                 *)
(*   store, arrays  the values of the cells, and the arrays they refer to    *)
(*   scopes, fns    the scopes, the innermost first, and the functions       *)
(*   out            what was printed                                         *)
(*   ended          "no", "return" or "exit", and value what is returned     *)
EXTENDS Interpreter

RECURSIVE Evaluate(_, _), Execute(_, _), Apply(_, _, _)

World == [store |-> <<>>, arrays |-> <<>>, scopes |-> <<<<>>>>, fns |-> <<>>, out |-> <<>>,
          ended |-> "no", value |-> <<"NONE", 0>>]

ScopeWith(w, x) == SelectInSeq(w.scopes, LAMBDA s : x \in DOMAIN s)
CellOf(w, x) == w.scopes[ScopeWith(w, x)][x]
Name(w, x, cell) == [w EXCEPT !.scopes[1] = (x :> cell) @@ @]
Declare(w, x, v) == [Name(w, x, Len(w.store) + 1) EXCEPT !.store = Append(@, v)]
Assign(w, x, v) == IF ScopeWith(w, x) = 0 THEN Declare(w, x, v)
                   ELSE [w EXCEPT !.store[CellOf(w, x)] = v]
Inside(w) == [w EXCEPT !.scopes = <<<<>>>> \o @]
Outside(w) == [w EXCEPT !.scopes = Tail(@)]

Is(w, v) == [w |-> w, v |-> v]
With(r, P(_, _)) == P(r.w, r.v)         \* goes on with the world and the value of r
EvaluateAll(w, es) ==
  FoldLeft(LAMBDA r, e : With(Evaluate(r.w, e), LAMBDA x, v : Is(x, Append(r.v, v))), Is(w, <<>>), es)

(* Numbers are integers or whole reals; a real makes the result real. *)
Sum(op, x, y) ==
  <<IF "REAL" \in {x[1], y[1]} THEN "REAL" ELSE "INT", Arithmetic(op, x[2], y[2])>>
Same(x, y) == x[1] = y[1] /\ x[2] = y[2]
Bool(b) == <<"BOOLEAN", IF b THEN 1 ELSE 0>>
IsTrue(v) == v[1] \in {"BOOLEAN", "INT"} /\ v[2] > 0

Operation(op, x, y) ==
  CASE op \in Arithmetics -> Sum(op, x, y)
    [] op = "AND" -> Bool(IsTrue(x) /\ IsTrue(y))
    [] op = "OR"  -> Bool(IsTrue(x) \/ IsTrue(y))
    [] op = "IS"  -> Bool(Same(x, y))
    [] OTHER      -> Bool(Compare(op, x[2], y[2]))

Native(w, f, vs) ==
  CASE f = "rtl_print"    -> Is([w EXCEPT !.out = Append(@, vs[1])], <<"NONE", 0>>)
    [] f = "rtl_coreid"   -> Is(w, <<"INT", LocalCore>>)
    [] f = "rtl_numcores" -> Is(w, <<"INT", ActiveCores>>)
    [] f = "rtl_dsize"    -> Is(w, <<"INT", Len(w.arrays[vs[1][2]])>>)
    [] f = "rtl_isdevice" -> Is(w, Bool(TRUE))
    [] f = "rtl_allocatearray" ->
         Is([w EXCEPT !.arrays = Append(@, [k \in 1..vs[1][2] |-> <<"INT", 0>>])],
            <<"ARRAY", Len(w.arrays) + 1>>)

Parts(e) == CASE e[1] = "native" -> e[3]
              [] e[1] = "bin"    -> <<e[3], e[4]>>
              [] e[1] = "floordiv" -> <<e[2], e[3]>>
              [] e[1] = "not"    -> <<e[2]>>
              [] e[1] = "at"     -> e[3]
              [] e[1] = "array"  -> e[2] \o e[3]
              [] OTHER -> <<>>
NewArray(w, vs) == Is([w EXCEPT !.arrays = Append(@, vs)], <<"ARRAY", Len(w.arrays) + 1>>)
ValueOf(w, e, vs) ==        \* from the values of its parts
  CASE e[1] = "id" -> Is(w, IF ScopeWith(w, e[2]) # 0 THEN w.store[CellOf(w, e[2])]
                            ELSE <<"FUNCTION", e[2]>>)
    [] e[1] = "native"   -> Native(w, e[2], vs)
    [] e[1] = "bin"      -> Is(w, Operation(e[2], vs[1], vs[2]))
    [] e[1] = "floordiv" -> Is(w, Sum("DIV", vs[1], vs[2]))
    [] e[1] = "not"      -> Is(w, Bool(~IsTrue(vs[1])))
    [] e[1] = "at"       -> Is(w, w.arrays[w.store[CellOf(w, e[2])][2]][vs[1][2] + 1])
    [] e[1] = "array"    ->
         NewArray(w, [k \in 1..Len(e[2]) * (IF e[3] = <<>> THEN 1 ELSE Last(vs)[2]) |->
                        vs[((k - 1) % Len(e[2])) + 1]])
    [] e[1] = "none"     -> Is(w, <<"NONE", 0>>)
    [] e[1] = "str"      -> Is(w, <<"STRING", e[2]>>)
    [] OTHER -> Is(w, <<IF e[1] = "INTEGER" THEN "INT" ELSE e[1], e[2]>>)
Evaluate(w, e) ==
  IF e[1] = "call" THEN Apply(w, e[2], e[3])
  ELSE With(EvaluateAll(w, Parts(e)), LAMBDA n, vs : ValueOf(n, e, vs))

(* A call of f with the values vs of es, from the world w after those. *)
FunctionOf(w, x) == w.fns[IF ScopeWith(w, x) = 0 THEN x ELSE w.store[CellOf(w, x)][2]]
Bind(n, param, k, w, es, vs) ==
  CASE k > Len(es) -> With(Evaluate(n, param[2]), LAMBDA d, v : Declare(d, param[1], v))
    [] k <= Len(es) /\ es[k][1] = "id" /\ ScopeWith(w, es[k][2]) # 0 ->
         Name(n, param[1], CellOf(w, es[k][2]))
    [] OTHER -> Declare(n, param[1], vs[k])
Enter(f, w, es, vs) ==
  Inside(FoldLeft(LAMBDA n, k : Bind(n, f.params[k], k, w, es, vs),
                  Inside([w EXCEPT !.scopes = f.scopes]), [k \in DOMAIN f.params |-> k]))
Back(done, scopes) ==
  Is([done EXCEPT !.scopes = scopes, !.value = <<"NONE", 0>>,
                  !.ended = IF @ = "exit" THEN @ ELSE "no"],
     done.value)
Apply(w, x, es) ==
  With(EvaluateAll(w, es), LAMBDA n, vs :
    Back(Execute(Enter(FunctionOf(w, x), n, es, vs), FunctionOf(w, x).body), w.scopes))

(* A block of statements in a scope of its own. *)
BlockOf(w, lines) == Outside(Execute(Inside(w), lines))

(* A loop: at most Fuel rounds of it. *)
RECURSIVE While(_, _, _)
While(w, s, rounds) ==
  IF w.ended # "no" THEN w
  ELSE With(Evaluate(w, s[2]), LAMBDA n, v :
    IF n.ended # "no" \/ ~IsTrue(v) \/ rounds = 0 THEN n
    ELSE While(BlockOf(n, s[3]), s, rounds - 1))

(* The elements are read one after the other: the array may change. *)
For(w, s) ==
  With(Evaluate(Inside(w), s[3]), LAMBDA e, v :
    Outside(FoldLeft(LAMBDA n, k : IF n.ended # "no" THEN n
                                   ELSE BlockOf(Assign(n, s[2], n.arrays[v[2]][k]), s[4]),
                     e, [k \in DOMAIN e.arrays[v[2]] |-> k])))

(* An array that is written past its end is as long as it needs to be. *)
Put(w, a, k, v) ==
  [w EXCEPT !.arrays[a] = [j \in 1..IF k > Len(@) THEN k ELSE Len(@) |->
     CASE j = k -> v [] j # k /\ j \in DOMAIN @ -> @[j] [] OTHER -> <<"INT", 0>>]]
Choose(w, v, s) ==
  CASE IsTrue(v) -> BlockOf(w, s[3])
    [] ~IsTrue(v) /\ s[1] = "if" -> w
    [] ~IsTrue(v) /\ s[1] = "elif" -> Execute(w, <<s[4]>>)
    [] OTHER -> BlockOf(w, s[4])
ExecuteOne(w, s) ==
  CASE s[1] = "let" -> With(Evaluate(w, s[3]), LAMBDA n, v : Assign(n, s[2], v))
    [] s[1] = "letop" ->
         With(Evaluate(w, <<"bin", s[3], <<"id", s[2]>>, s[4]>>), LAMBDA n, v : Assign(n, s[2], v))
    [] s[1] = "set" ->
         With(EvaluateAll(w, Append(s[3], s[4])),
              LAMBDA n, vs : Put(n, n.store[CellOf(n, s[2])][2], vs[1][2] + 1, Last(vs)))
    [] s[1] \in {"call", "native"} -> Evaluate(w, s).w
    [] s[1] = "exit" -> [w EXCEPT !.ended = "exit"]
    [] s[1] = "return" ->
         With(EvaluateAll(w, s[2]), LAMBDA n, vs :
           [n EXCEPT !.ended = "return", !.value = IF vs = <<>> THEN @ ELSE vs[1]])
    [] s[1] = "while" -> While(w, s, Fuel)
    [] s[1] = "for" -> For(w, s)
    [] s[1] = "def" ->
         [w EXCEPT !.fns = (s[2] :> [params |-> s[3], body |-> s[4], scopes |-> w.scopes]) @@ @]
    [] s[1] \in {"if", "ifelse", "elif"} ->
         With(Evaluate(w, s[2]), LAMBDA n, v : Choose(n, v, s))

Execute(w, lines) ==
  FoldLeft(LAMBDA n, s : IF n.ended = "no" THEN ExecuteOne(n, s) ELSE n, w, lines)

Prints(program) == Execute(World, program).out
=============================================================================
