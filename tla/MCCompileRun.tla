--------------------------- MODULE MCCompileRun ---------------------------
(* The programs that are compiled and run: every combination of the parts    *)
(* below. They stay in the part of the language in which the documentation   *)
(* says what a program does.                                                 *)
EXTENDS CompileRun

N(n) == <<"INTEGER", n>>
X(x) == <<"id", x>>
B(op, a, b) == <<"bin", op, a, b>>
Show(e) == <<"native", "rtl_print", <<e>>>>
Set(x, e) == <<"let", x, e>>
Add(x, n) == <<"letop", x, "ADD", N(n)>>
If(c, s) == <<"if", c, s>>
List(ns) == <<"array", ns, <<>>>>
F(f, es) == <<"call", f, es>>
Return(e) == <<"return", <<e>>>>
Default(f, x) == <<x>>

(* Control flow: a loop that counts to three around each statement, and the  *)
(* statements nested in each other.                                          *)
Conditions ==
  {B("EQ", X("i"), N(1)),
   B("OR", B("LT", X("i"), N(1)), B("GEQ", X("i"), N(2))),
   <<"not", B("NEQ", X("i"), N(2))>>}
Simple == {Show(X("i")), Add("n", 2)}
Compound(inner, x) ==
  {<<"if", c, <<s>>>> : c \in Conditions, s \in inner}
  \union {<<"ifelse", c, <<s>>, <<Show(N(7)), Add("n", 1)>>>> : c \in Conditions, s \in inner}
  \union {<<"elif", B("EQ", X("i"), N(0)), <<Show(N(5))>>, <<"ifelse", c, <<s>>, <<Show(X("n"))>>>>>> :
            c \in Conditions, s \in inner}
  \union {<<"for", x, List(<<N(4), N(6)>>), <<s, Show(B("ADD", X(x), X("i")))>>>> : s \in inner}
  \union {<<"while", B("LT", X("n"), B("MUL", X("i"), N(2))), <<s, Add("n", 1)>>>> : s \in inner}
Counting(s) ==
  <<Set("i", N(0)), Set("n", N(0)),
    <<"while", B("LT", X("i"), N(3)), <<s, Add("i", 1)>>>>, Show(X("n"))>>
Nested(depth) ==
  LET nest[d \in 0..depth] ==
        IF d = 0 THEN {Show(X("i"))}
        ELSE Simple \union Compound(nest[d - 1], CASE d = 1 -> "x" [] d = 2 -> "y" [] OTHER -> "z")
  IN  nest[depth]
ControlPrograms == {Counting(s) : s \in Nested(2)}
DeepPrograms    == {Counting(s) : s \in Nested(3)}

(* Functions, each with some that are not used, in either order: recursion,  *)
(* default values, arguments by reference, local variables, functions that   *)
(* call others, early returns from loops, functions as values.               *)
Fact == <<"def", "fact", <<<<"n">>>>,
          <<If(B("LEQ", X("n"), N(1)), <<Return(N(1))>>),
            Return(B("MUL", X("n"), F("fact", <<B("SUB", X("n"), N(1))>>)))>>>>
Fib == <<"def", "fib", <<<<"n">>>>,
         <<If(B("LT", X("n"), N(2)), <<Return(X("n"))>>),
           Return(B("ADD", F("fib", <<B("SUB", X("n"), N(1))>>),
                           F("fib", <<B("SUB", X("n"), N(2))>>)))>>>>
Plus == <<"def", "plus", <<<<"a">>, <<"b", N(10)>>>>,
          <<Set("c", B("ADD", X("a"), X("b"))), Return(X("c"))>>>>
Bump == <<"def", "bump", <<<<"a">>>>, <<Add("a", 1), Set("g", B("ADD", X("g"), X("a")))>>>>
Twice == <<"def", "twice", <<<<"h">>, <<"v">>>>, <<Return(F("h", <<B("ADD", X("v"), F("plus", <<X("v")>>))>>))>>>>
Find == <<"def", "find", <<<<"w">>>>,
          <<Set("k", N(0)),
            <<"while", B("LT", X("k"), N(9)),
              <<<<"for", "y", List(<<X("k"), X("w")>>),
                  <<If(B("GT", B("ADD", X("y"), X("k")), N(3)), <<Return(X("k"))>>)>>>>,
                Add("k", 1)>>>>,
            Return(N(0))>>>>
Outer == <<"def", "outer", <<<<"a">>, <<"b">>>>,
           <<F("bump", <<X("a")>>), F("bump", <<X("b")>>), Return(B("SUB", X("b"), X("a")))>>>>
Pair == <<"def", "pair", <<<<"v">>>>, <<Return(List(<<X("v"), B("MUL", X("v"), N(3))>>))>>>>
Functions == {Fact, Fib, Plus, Bump, Find, Pair}
Uses(f) ==
  CASE f = Fact -> <<Show(F("fact", <<N(4)>>))>>
    [] f = Fib  -> <<Show(F("fib", <<X("x")>>))>>
    [] f = Plus -> <<Show(F("plus", <<N(2)>>)), Show(F("plus", <<X("g"), N(3)>>))>>
    [] f = Bump -> <<F("bump", <<X("x")>>), F("bump", <<B("ADD", X("x"), N(1))>>), Show(X("x"))>>
    [] f = Find -> <<Show(F("find", <<X("x")>>))>>
    [] f = Pair -> <<Set("a", F("pair", <<N(1)>>)),
                     <<"for", "e", F("pair", <<X("x")>>), <<Show(X("e"))>>>>,
                     <<"while", B("LT", X("x"), N(4)), <<Set("a", F("pair", <<X("g")>>)), Add("x", 1)>>>>,
                     Show(<<"at", "a", <<N(1)>>>>)>>
FunctionPrograms ==
  {<<Set("g", N(4)), Set("x", N(2)), e, f>> \o Uses(e) \o Uses(f) \o <<Show(X("g"))>> :
      e \in Functions, f \in Functions}
  \union {<<Set("g", N(3)), e, Plus, Bump, Outer, Twice, Set("x", N(1)), Set("y", N(5)),
            Set("p", X("plus"))>> \o s \o <<Show(X("g"))>> :
            e \in {Fact, Find},
            s \in {<<Show(F("outer", <<X("x"), X("y")>>)), Show(X("x"))>>,
                   <<Show(F("p", <<X("y")>>))>>,
                   <<Show(F("twice", <<X("p"), X("x")>>))>>,
                   <<<<"for", "z", List(<<N(1), X("y")>>), <<Show(F("outer", <<X("z"), X("x")>>))>>>>>>}}

(* Arrays: literals, repetition, elements, growth, arrays in functions;      *)
(* strings, reals and none.                                                  *)
ArrayPrograms ==
  {<<Set("a", e), Set("k", N(1)),
     <<"def", "second", <<<<"v">>>>, <<Return(<<"at", "v", <<N(1)>>>>)>>>>,
     <<"def", "mark", <<<<"v">>, <<"j", N(0)>>>>, <<<<"set", "v", <<X("j")>>, N(9)>>>>>>>>
     \o s \o <<<<"for", "x", X("a"), <<Show(X("x"))>>>>, Show(X("k"))>> :
     e \in {List(<<N(3), N(5), N(8)>>), <<"array", <<N(1), X("k0")>>, <<N(2)>>>>},
     s \in {<<F("mark", <<X("a")>>), F("mark", <<X("a"), X("k")>>)>>,
            <<Set("k", F("second", <<X("a")>>))>>,
            <<<<"set", "a", <<N(4)>>, N(6)>>, <<"set", "a", <<N(3)>>, N(7)>>>>,
            <<Set("b", X("a")), <<"set", "b", <<X("k")>>, B("MUL", <<"at", "a", <<N(0)>>>>, N(5))>>>>}}
OtherPrograms ==
  {<<Set("t", <<"str", 5>>), Set("u", <<"none">>), Set("r", <<"REAL", 6>>),
     <<"ifelse", c, <<Show(X("t"))>>, <<Show(B(op, X("r"), N(2)))>>>>,
     Set("u", <<"floordiv", N(7), N(2)>>), Show(X("u")),
     If(<<"native", "rtl_isdevice", <<>>>>, <<Show(<<"native", "rtl_coreid", <<>>>>), <<"exit">>>>),
     Show(N(0))>> :
     c \in {B("EQ", X("t"), <<"str", 5>>), B("NEQ", X("t"), <<"str", 5>>), B("IS", X("u"), <<"none">>),
            B("GT", X("r"), N(7)), <<"BOOLEAN", 1>>},
     op \in {"ADD", "DIV", "POW"}}

(* A function that is not defined, called from where it matters or not. *)
Undefined == {<<<<"def", "user", <<>>, <<F("nobody", <<>>)>>>>, F("user", <<>>)>>,
              <<Fact, Show(X("nothing"))>>}
Unneeded  == <<<<"def", "user", <<>>, <<F("nobody", <<>>)>>>>, Plus, Show(F("plus", <<N(1)>>))>>

(* All the control flow once more, in a function. *)
InFunction(p) == <<<<"def", "body", <<<<"q">>>>, p \o <<Set("q", X("n"))>>>>, Set("z", N(1)),
                   F("body", <<X("z")>>), Show(X("z")), F("body", <<N(0)>>)>>

Sound == DeepPrograms \union {InFunction(p) : p \in ControlPrograms}
         \union FunctionPrograms
         \union {<<Set("k0", N(2))>> \o p : p \in ArrayPrograms} \union OtherPrograms
         \union Undefined \union {Unneeded}

(* A variable that holds a string and then a number, twice. *)
Retyping == {<<Set("i", N(0)),
               <<"while", B("LT", X("i"), N(2)),
                 <<Set("t", <<"str", 5>>), Show(X("t")), Set("t", X("i")), Show(X("t")), Add("i", 1)>>>>>>}

(* A call of a function in an argument of itself, and two functions that     *)
(* call each other.                                                          *)
NestedCalls == {<<Plus, Show(F("plus", <<N(1), F("plus", <<N(2), N(3)>>)>>))>>}
Turn(f, g, v) == <<"def", f, <<<<"n">>>>,
                   <<If(B("EQ", X("n"), N(0)), <<Return(N(v))>>),
                     Set("k", B("SUB", X("n"), N(1))), Return(F(g, <<X("k")>>))>>>>
Mutual == {<<Turn("even", "odd", 1), Turn("odd", "even", 0), Show(F("even", <<N(4)>>))>>}

(* The negation of a call. *)
None == {}
Negation == {<<Plus, <<"if", <<"not", F("plus", <<N(1), N(2)>>)>>, <<Show(N(0))>>>>, Show(N(1))>>}
=============================================================================
