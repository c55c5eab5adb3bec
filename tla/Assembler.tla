------------------------------ MODULE Assembler ------------------------------
(* The assembler (src/host/byteassembler.c) and the grammar that drives it   *)
(* (src/host/epython.y): what each statement and expression of a program     *)
(* becomes in byte code, which variable gets which id, and which functions   *)
(* call which.                                                               *)
(*                                                                          *)
(* A program is a sequence of statements; a statement or expression is a     *)
(* tuple whose first component names its form. The global variables of the   *)
(* assembler are the fields of a record st that every operator takes and     *)
(* gives back with the piece it assembled:                                   *)
(*   var, line    current_var_id and currentForLine                          *)
(*   scope        the scope stack, the innermost first, name -> id           *)
(*   first, rec   currentSymbolTableId and isFnRecursive                     *)
(*   fn, in       currentFunctionName and whether there is a currentCall     *)
(*   calls, main  the calls of the current function and of the main code     *)
(*   functions    the list of functions, the newest first                    *)
EXTENDS ByteCode, TLC

CONSTANT VarDepth       \* RECURSION_VAR_DEPTH
ASSUME VarDepthAssumption == VarDepth \in Nat \ {0}

(* The state in which doParse calls the parser, in the outermost scope. *)
Fresh == [var |-> 1, line |-> -1, scope |-> <<<<>>>>, first |-> 0,
          rec |-> FALSE, fn |-> "", in |-> FALSE, calls |-> <<>>,
          main |-> <<>>, functions |-> <<>>]

(* Variables: looked up from the innermost scope outwards, added to it. *)
ScopeOf(st, x) == SelectInSeq(st.scope, LAMBDA s : x \in DOMAIN s)
doesVariableExist(st, x) == ScopeOf(st, x) # 0
Id(st, x) == st.scope[ScopeOf(st, x)][x]
addVariable(st, x) ==
  [st EXCEPT !.scope = <<(x :> st.var) @@ Head(@)>> \o Tail(@), !.var = (@ + 1) % 65536]
addVariableIfNeeded(st, x) == IF doesVariableExist(st, x) THEN st ELSE addVariable(st, x)
enterScope(st) == [st EXCEPT !.scope = <<<<>>>> \o @]
leaveScope(st) == [st EXCEPT !.scope = Tail(@)]

(* A call is noted with the current function, or with the main code. *)
NoteCall(st, f) ==
  IF st.in THEN [st EXCEPT !.calls = Append(@, f)] ELSE [st EXCEPT !.main = Append(@, f)]

-----------------------------------------------------------------------------
(* Expressions, from the pieces of their operands. *)
Done(c, st) == [c |-> c, st |-> st]
After(r, P(_, _)) == P(r.c, r.st)       \* goes on with the piece and the state of r

createExpression(token, c1, c2) == Assemble(<<Piece(Token(token)), c1, c2>>)
createUnaryExpression(token, c) == [data |-> Token(token) \o c.data, defns |-> c.defns]
createConstant(token, v) == Piece(Token(token) \o Word(v))
createStringExpression(v) == Piece(Token("STRING") \o <<Cell("char", v)>> \o Byte(0))
createArrayExpression(cs, repetition) ==
  Assemble(<<Piece(Token("ARRAY") \o Word(Len(cs)) \o Byte(Len(repetition)))>>
           \o repetition \o cs)

createIdentifierExpression(st, x) ==
  IF doesVariableExist(st, x)
  THEN Done(Piece(Token("IDENTIFIER") \o Half(Id(st, x))), st)
  ELSE Done(Define(Piece(Token("FN_ADDR") \o Unset(2)),
                   LineDefn(FunctionSlot, 0, x, 1)),
            NoteCall(st, x))

createIdentifierArrayAccess(st, x, cs) ==
  After(Done(cs, addVariableIfNeeded(st, x)), LAMBDA c, now :
    Done(Assemble(<<Piece(Token("ARRAYACCESS") \o Half(Id(now, x)) \o Byte(Len(c)))>> \o c), now))

appendNativeCall(f, cs) == Assemble(<<Piece(Token("NATIVE") \o Token(f) \o Half(Len(cs)))>> \o cs)
createFloorDiv(c1, c2) ==
  appendNativeCall("rtl_math", <<createConstant("INTEGER", 0), createExpression("DIV", c1, c2)>>)

Let(token, id, c) == Assemble(<<Piece(Token(token) \o Half(id)), c>>)

(* A call: each argument that is not a plain variable is put into a variable *)
(* of its own, named for the function and the position, before the call; the *)
(* call names the function's slot, or the variable that holds a function.    *)
Temporary(f, i) == f \o "#" \o ToString(i)
IsIdentifier(c) == Head(c.data).k = "IDENTIFIER"
appendCallFunction(start, f, cs) ==
  LET computed == SelectSeq([i \in DOMAIN cs |-> i], LAMBDA i : ~IsIdentifier(cs[i]))
      st == [FoldLeft(LAMBDA s, i : addVariableIfNeeded(s, Temporary(f, i)), start, computed)
               EXCEPT !.rec = @ \/ start.fn = f]
      lets == [j \in DOMAIN computed |->
                 Let("LET", Id(st, Temporary(f, computed[j])), cs[computed[j]])]
      arguments == Piece(FlattenSeq([i \in DOMAIN cs |->
                     IF IsIdentifier(cs[i]) THEN <<cs[i].data[2], More>>
                     ELSE Half(Id(st, Temporary(f, i)))]))
      function ==
        IF doesVariableExist(st, f)
        THEN Piece(Token("FNCALL_BY_VAR") \o Half(Id(st, f)))
        ELSE Define(Piece(Token("FNCALL") \o Unset(2)), LineDefn(CallSlot, 0, f, 1))
  IN  Done(Assemble(lets \o <<function, Piece(Half(Len(cs))), arguments>>), NoteCall(st, f))

-----------------------------------------------------------------------------
(* Statements, from the pieces of their expressions and blocks. *)
appendLet(start, x, c) ==
  LET st == addVariableIfNeeded(start, x) IN Done(Let("LET", Id(st, x), c), st)

appendLetWithOperator(start, x, op, c) ==
  LET x0 == createIdentifierExpression(start, x)
  IN  appendLet(x0.st, x, IF op = "FLOORDIV" THEN createFloorDiv(x0.c, c)
                          ELSE createExpression(op, x0.c, c))

appendArraySet(start, x, cs, c) ==
  LET st == addVariableIfNeeded(start, x)
  IN  Done(Assemble(<<Piece(Token("ARRAYSET") \o Half(Id(st, x)) \o Byte(Len(cs)))>>
                    \o cs \o <<c>>), st)

Goto == Piece(Token("GOTO") \o Unset(2))
LabelAt(m, st, at) == Define(m, LineDefn(Label, st.line, "", at))
SlotAt(m, st, at)  == Define(m, LineDefn(GotoSlot, st.line, "", at))
NextLine(st) == [st EXCEPT !.line = @ - 1]

(* The counter and the variable are set to 0; the loop goes back to where    *)
(* the variable is.                                                          *)
appendFor(start, x, c, block) ==
  LET st == addVariableIfNeeded(addVariableIfNeeded(start, "epy_i_ctr"), x)
      counter == Id(st, "epy_i_ctr")
      initial == Let("LET", counter, createConstant("INTEGER", 0))
      variant == Let("LET", Id(st, x), createConstant("INTEGER", 0))
      increment == Let("LET", counter,
                       createExpression("ADD", Piece(Token("IDENTIFIER") \o Half(counter)),
                                        createConstant("INTEGER", 1)))
      body == concatenateMemory(block, increment)
      m == Assemble(<<initial, variant,
                      Piece(Token("FOR") \o Half(counter) \o Half(Id(st, x))), c,
                      Piece(Half(Len(body.data))), body, Goto>>)
  IN  Done(SlotAt(LabelAt(m, st, Len(initial.data)), st, Len(m.data) - 2), NextLine(st))

(* One byte more than is written is set aside for a while. *)
appendWhileSkipsGoto(st, c, block) ==      \* a mutant of the next definition
  LET m == Assemble(<<Piece(Token("IF")), c, Piece(Half(Len(block.data) + 3)), block,
                      Goto, Piece(Unset(1))>>)
  IN  Done(SlotAt(LabelAt(m, st, 0), st, Len(m.data) - 3), NextLine(st))
appendWhile(st, c, block) ==
  LET m == Assemble(<<Piece(Token("IF")), c, Piece(Half(Len(block.data) + 4)), block,
                      Goto, Piece(Unset(1))>>)
  IN  Done(SlotAt(LabelAt(m, st, 0), st, Len(m.data) - 3), NextLine(st))

appendIf(st, c, block) ==
  Done(Assemble(<<Piece(Token("IF")), c, Piece(Half(Len(block.data))), block>>), st)

appendIfElse(st, c, then, else) ==
  LET before == Assemble(<<Piece(Token("IFELSE")), c, Piece(Half(Len(then.data) + 3)), then, Goto>>)
      m == concatenateMemory(before, else)
  IN  Done(LabelAt(SlotAt(m, st, Len(before.data) - 2), st, Len(m.data)), NextLine(st))

(* A function: the number and the ids of its arguments, the default values,  *)
(* the block and a return; it goes to the head of the list of functions.     *)
enterFunction(st, f) ==
  [st EXCEPT !.first = st.var, !.rec = FALSE, !.fn = f, !.in = TRUE, !.calls = <<>>]

appendNewFunction(st, f, params, defaults, block) ==
  LET ids == [i \in DOMAIN params |-> Id(st, params[i][1])]
      lets == [i \in DOMAIN params |->
                 IF Len(params[i]) = 1 THEN Nothing ELSE Let("LETNOALIAS", ids[i], defaults[i])]
      m == Assemble(<<Piece(FlattenSeq(<<Half(Len(params))>> \o [i \in DOMAIN params |-> Half(ids[i])]))>>
                    \o lets \o <<block, Piece(Token("RETURN"))>>)
  IN  [st EXCEPT !.fn = "", !.in = FALSE, !.functions =
         <<[name |-> f, entries |-> st.var - st.first, rec |-> st.rec, calls |-> st.calls,
            contents |-> Define(m, LineDefn(FunctionAt, 0, f, 0))]>> \o @]

-----------------------------------------------------------------------------
(* The grammar: a bottom-up parser runs the actions of the parts before      *)
(* those of the whole, from left to right.                                   *)
RECURSIVE Expression(_, _), Expressions(_, _), Statement(_, _), Lines(_, _)

(* An assembled sequence of expressions has the sequence of their pieces. *)
WithNext(r, next) == Done(Append(r.c, next.c), next.st)
Expressions(st, es) ==
  FoldLeft(LAMBDA r, e : WithNext(r, Expression(r.st, e)), Done(<<>>, st), es)

Operands(e) ==
  CASE e[1] \in {"call", "native", "at"} -> e[3]
    [] e[1] = "bin" -> <<e[3], e[4]>>
    [] e[1] = "floordiv" -> <<e[2], e[3]>>
    [] e[1] = "not" -> <<e[2]>>
    [] e[1] = "array" -> e[2] \o e[3]
    [] OTHER -> <<>>
Literal(e) ==
  CASE e[1] = "str"  -> createStringExpression(e[2])
    [] e[1] = "none" -> Piece(Token("NONE"))
    [] OTHER         -> createConstant(e[1], e[2])
Create(e, c, st) ==
  CASE e[1] = "id"     -> createIdentifierExpression(st, e[2])
    [] e[1] = "at"     -> createIdentifierArrayAccess(st, e[2], c)
    [] e[1] = "call"   -> appendCallFunction(st, e[2], c)
    [] e[1] = "native" -> Done(appendNativeCall(e[2], c), st)
    [] e[1] = "bin"    -> Done(createExpression(e[2], c[1], c[2]), st)
    [] e[1] = "not"    -> Done(createUnaryExpression("NOT", c[1]), st)
    [] e[1] = "floordiv" -> Done(createFloorDiv(c[1], c[2]), st)
    [] e[1] = "array"  -> Done(createArrayExpression(SubSeq(c, 1, Len(e[2])),
                                                     SubSeq(c, Len(e[2]) + 1, Len(c))), st)
    [] OTHER           -> Done(Literal(e), st)
Expression(st, e) ==
  After(Expressions(st, Operands(e)), LAMBDA c, now : Create(e, c, now))

(* codeblock: a block has a scope of its own. *)
Block(start, lines) ==
  After(Lines(enterScope(start), lines), LAMBDA b, st : Done(b, leaveScope(st)))
Condition(st, s, P(_, _, _)) ==         \* goes on after the condition and the first block of s
  After(Expression(st, s[2]), LAMBDA e, now :
    After(Block(now, s[3]), LAMBDA b, then : P(e, b, then)))

(* fndeclarationargs: the scope of the arguments is entered with the first. *)
DefaultOf(st, p) == IF Len(p) = 1 THEN Done(Nothing, st) ELSE Expression(st, p[2])
Arguments(st, params) ==
  FoldLeft(LAMBDA r, p :
             After(DefaultOf(r.st, p), LAMBDA c, now :
               Done(Append(r.c, c),
                    addVariable(IF r.c = <<>> THEN enterScope(now) ELSE now, p[1]))),
           Done(<<>>, IF params = <<>> THEN enterScope(st) ELSE st), params)

Statement(st, s) ==
  CASE s[1] = "let" -> After(Expression(st, s[3]), LAMBDA e, now : appendLet(now, s[2], e))
    [] s[1] = "letop" ->
         After(Expression(st, s[4]), LAMBDA e, now : appendLetWithOperator(now, s[2], s[3], e))
    [] s[1] = "set" ->
         After(Expressions(st, Append(s[3], s[4])),
               LAMBDA es, now : appendArraySet(now, s[2], Front(es), Last(es)))
    [] s[1] \in {"call", "native"} -> Expression(st, s)
    [] s[1] = "exit" -> Done(Piece(Token("STOP")), st)
    [] s[1] = "return" ->
         After(Expressions(st, s[2]), LAMBDA es, now :
           Done(IF es = <<>> THEN Piece(Token("RETURN"))
                ELSE Assemble(<<Piece(Token("RETURN_EXP")), es[1]>>), now))
    [] s[1] = "if"    -> Condition(st, s, LAMBDA e, b, now : appendIf(now, e, b))
    [] s[1] = "while" -> Condition(st, s, LAMBDA e, b, now : appendWhile(now, e, b))
    [] s[1] \in {"ifelse", "elif"} ->
         Condition(st, s, LAMBDA e, b, now :
           After(IF s[1] = "elif" THEN Statement(now, s[4]) ELSE Block(now, s[4]),
                 LAMBDA f, then : appendIfElse(then, e, b, f)))
    [] s[1] = "for" ->
         After(Expression(addVariableIfNeeded(enterScope(st), s[2]), s[3]), LAMBDA e, now :
           After(Block(now, s[4]), LAMBDA b, then :
             After(appendFor(then, s[2], e, b), LAMBDA f, last : Done(f, leaveScope(last)))))
    [] s[1] = "def" ->
         After(Arguments(enterFunction(st, s[2]), s[3]), LAMBDA as, now :
           After(Block(now, s[4]), LAMBDA b, then :
             Done(Nothing, leaveScope(appendNewFunction(then, s[2], s[3], as, b)))))

Lines(st, lines) ==
  FoldLeft(LAMBDA r, s : After(Statement(r.st, s), LAMBDA c, now : Done(concatenateMemory(r.c, c), now)),
           Done(Nothing, st), lines)

-----------------------------------------------------------------------------
(* The size of the symbol table: every variable but those of functions that  *)
(* are not used, and VarDepth times those of recursive functions.            *)
Entries(st, fs) == FoldSet(LAMBDA f, n : n + st.functions[f].entries, 0, fs)
Used(st)        == UsedFunctions(st.functions, st.main)
NotUsed(st)     == DOMAIN st.functions \ Used(st)
getNumberEntriesOneDepth(st) ==       \* a mutant of the next definition
  (st.var - Entries(st, NotUsed(st))) % 65536
getNumberEntriesInSymbolTable(st) ==
  (st.var - Entries(st, NotUsed(st))
    + Entries(st, {f \in Used(st) : st.functions[f].rec}) * (VarDepth - 1)) % 65536
=============================================================================
