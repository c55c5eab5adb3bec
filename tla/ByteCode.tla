------------------------------ MODULE ByteCode ------------------------------
(* The memory containers of the assembler (src/host/memorymanager.c): pieces *)
(* of byte code with the definitions of the places in them that are known    *)
(* only when the whole program has been put together, their concatenation,  *)
(* and the resolution of those places.                                       *)
(*                                                                          *)
(* A piece is byte code at the granularity of the bytes: a cell is a byte    *)
(* that holds a token, or the first byte of an operand of one, two or four   *)
(* bytes ("more" is each byte after the first), or a byte nobody wrote.      *)
(* Addresses count from 0, as in the code: the cell at address a is          *)
(* data[a + 1].                                                             *)
EXTENDS Integers, Sequences, SequencesExt

Cell(k, v)  == [k |-> k, v |-> v]
More        == Cell("more", 0)
Unset(n)    == [i \in 1..n |-> Cell("unset", 0)]
Token(name) == <<Cell(name, 0)>>
Byte(v)     == <<Cell("byte", v % 256)>>
Half(v)     == <<Cell("half", v % 65536), More>>
Word(v)     == <<Cell("word", v), More, More, More>>

(* The kinds of line definitions, struct lineDefinition.type. *)
Label        == 0       \* where a GOTO of the same line number leads
GotoSlot     == 1       \* the operand of a GOTO
FunctionAt   == 2       \* where a function starts
CallSlot     == 3       \* the operand of a call
FunctionSlot == 4       \* the operand of a function used as a value

LineDefn(type, line, name, at) ==
  [type |-> type, line |-> line, name |-> name, at |-> at]

(* struct memorycontainer; an empty piece stands for the NULL pointer. *)
Piece(cells) == [data |-> cells, defns |-> <<>>]
Nothing      == Piece(<<>>)
Define(m, d) == [m EXCEPT !.defns = <<d>> \o @]

(* concatenateMemory: the second piece's definitions move up by the length   *)
(* of the first and are pushed on its list one after the other.              *)
Moved(defns, n) == [i \in DOMAIN defns |-> [defns[i] EXCEPT !.at = @ + n]]
concatenateMemoryUnmoved(m1, m2) ==       \* a mutant of the next definition
  CASE m1.data = <<>> -> m2
    [] m2.data = <<>> -> m1
    [] OTHER -> [data |-> m1.data \o m2.data, defns |-> Reverse(m2.defns) \o m1.defns]
concatenateMemory(m1, m2) ==
  CASE m1.data = <<>> -> m2
    [] m2.data = <<>> -> m1
    [] OTHER -> [data  |-> m1.data \o m2.data,
                 defns |-> Reverse(Moved(m2.defns, Len(m1.data))) \o m1.defns]

(* Tokens, variables and memory appended one behind the other *)
(* (appendStatement, appendVariable, appendMemory).           *)
Assemble(pieces) == FoldLeft(concatenateMemory, Nothing, pieces)

(* The first definition of the list that a slot may be resolved to. *)
findLocation(defns, d) ==
  SelectInSeq(defns, LAMBDA t : IF d.type = GotoSlot
                                THEN t.type = Label /\ t.line = d.line
                                ELSE t.type = FunctionAt /\ t.name = d.name)

IsSlot(d) == d.type \in {GotoSlot, CallSlot, FunctionSlot}

Write(data, at, cells) ==
  [i \in DOMAIN data |->
     IF i \in at + 1..at + Len(cells) THEN cells[i - at] ELSE data[i]]

(* The loop of compileMemory over the list: each slot gets the 16 bit        *)
(* address of its label or function; a slot that leads nowhere ends the      *)
(* program with an error.                                                    *)
Resolvable(m) ==
  \A i \in DOMAIN m.defns : IsSlot(m.defns[i]) => findLocation(m.defns, m.defns[i]) # 0
Resolved(m) ==
  FoldLeft(LAMBDA data, d :
             IF IsSlot(d)
             THEN Write(data, d.at, Half(m.defns[findLocation(m.defns, d)].at))
             ELSE data,
           m.data, m.defns)

(* findFunctionDefinition: the function of that name that was defined last   *)
(* (the list has the newest first), 0 if there is none.                      *)
findFunctionDefinition(functions, name) ==
  SelectInSeq(functions, LAMBDA f : f.name = name)

(* determineUsedFunctions and processUsedFunction: the functions that are    *)
(* called from the main code, or from a function that is.                    *)
Callees(functions, names) ==
  {findFunctionDefinition(functions, names[i]) : i \in DOMAIN names} \ {0}
UsedFunctions(functions, main) ==
  LET more[n \in 0..Len(functions)] ==
        IF n = 0 THEN Callees(functions, main)
        ELSE more[n - 1] \union
             UNION {Callees(functions, functions[f].calls) : f \in more[n - 1]}
  IN  more[Len(functions)]

(* compileMemory: the main code, a STOP and the functions that are used,     *)
(* before the slots are resolved. A program without main code is a STOP.     *)
Joined(memory, functions, main) ==
  IF memory = Nothing THEN Piece(Token("STOP"))
  ELSE Assemble(<<memory, Piece(Token("STOP"))>> \o
                [i \in DOMAIN functions |->
                   IF i \in UsedFunctions(functions, main)
                   THEN functions[i].contents ELSE Nothing])
=============================================================================
