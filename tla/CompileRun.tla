---------------------------- MODULE CompileRun ----------------------------
(* A program from its source to its last output: the parser hands one        *)
(* statement after the other to the assembler (doParse in src/host/main.c),  *)
(* the byte code is put together and its places are filled in                *)
(* (compileMemory), and a core executes it (runIntepreter). A step of the    *)
(* execution is one command of the main code, with the calls it makes.       *)
EXTENDS Assembler, Meaning

CONSTANTS Programs,
          Unresolved    \* the ones whose code calls a function that is not defined
ASSUME ProgramsAssumption == Programs # {} /\ Unresolved \subseteq Programs

VARIABLES program,      \* the program, and
          rest,         \* the statements of it that are not parsed yet
          assembled,    \* the main code so far and the assembler's variables
          code, entries,    \* the byte code and its number of symbol table entries
          phase,        \* "parse", "refused", "ready", "running" or "ended"
          machine, pc   \* the interpreter and the address of its next command
vars == <<program, rest, assembled, code, entries, phase, machine, pc>>

Init == /\ program \in Programs
        /\ rest = program
        /\ assembled = Done(Nothing, Fresh)
        /\ code = <<>> /\ entries = 0
        /\ phase = "parse"
        /\ machine = Machine(<<>>) /\ pc = 0

(* lines: the statement's piece goes behind those before it. *)
Parse == /\ phase = "parse" /\ rest # <<>>
         /\ \E s \in {Statement(assembled.st, Head(rest))} :
              assembled' = Done(concatenateMemory(assembled.c, s.c), s.st)
         /\ rest' = Tail(rest)
         /\ UNCHANGED <<program, code, entries, phase, machine, pc>>

compileMemory ==
  /\ phase = "parse" /\ rest = <<>>
  /\ LET m == Joined(assembled.c, assembled.st.functions, assembled.st.main)
     IN  IF Resolvable(m)
         THEN /\ code' = Resolved(m)
              /\ entries' = getNumberEntriesInSymbolTable(assembled.st)
              /\ phase' = "ready"
         ELSE phase' = "refused" /\ UNCHANGED <<code, entries>>
  /\ UNCHANGED <<program, rest, assembled, machine, pc>>

runIntepreter == /\ phase = "ready"
                 /\ machine' = Machine(code) /\ pc' = 0
                 /\ phase' = "running"
                 /\ UNCHANGED <<program, rest, assembled, code, entries>>

(* One round of processAssembledCode in the main code. *)
Step == /\ phase = "running" /\ machine.fuel > 0
        /\ \E c \in {Command(machine, pc)} :
             /\ machine' = c.m /\ pc' = c.i
             /\ phase' = IF c.done \/ c.i >= Len(code) THEN "ended" ELSE phase
        /\ UNCHANGED <<program, rest, assembled, code, entries>>

Over == phase \in {"refused", "ended"} /\ UNCHANGED vars

Next == Parse \/ compileMemory \/ runIntepreter \/ Step \/ Over
Spec == Init /\ [][Next]_vars

-----------------------------------------------------------------------------
(* Only the programs that call what is not defined are refused. In all the   *)
(* others each operand that was left open while its place was not known is   *)
(* an address of the byte code in the end; the only bytes nobody wrote are   *)
(* those behind the jump of a while.                                         *)
PlacesFilled ==
  /\ phase = "refused" => program \in Unresolved
  /\ phase \in {"ready", "running", "ended"} => program \notin Unresolved
  /\ \A a \in DOMAIN code :
       /\ code[a].k \in {"GOTO", "FNCALL", "FN_ADDR"} =>
            code[a + 1].k = "half" /\ code[a + 1].v \in 0..Len(code)
       /\ code[a].k = "unset" => a > 3 /\ code[a - 3].k = "GOTO"

(* What has been printed is what the program means, when it ends, and no     *)
(* error was raised and no byte misread on the way.                          *)
PrintsWhatItMeans ==
  phase = "ended" => /\ ~machine.lost /\ ~machine.stop
                     /\ machine.out = Prints(program)

(* The symbol table never needs more entries than were counted for it, and   *)
(* between two commands of the main code none is left from a call.           *)
SymbolsFit ==
  /\ Len(machine.tab) <= entries
  /\ \A s \in DOMAIN machine.tab : machine.tab[s].level = 0 \/ machine.tab[s].state = "UNALLOCATED"

(* Between two commands of the main code the stack holds one word for each   *)
(* live scalar variable, no two share one, and nothing is left over from a   *)
(* call.                                                                     *)
Holders == {s \in DOMAIN machine.tab : /\ machine.tab[s].state # "UNALLOCATED"
                                       /\ machine.tab[s].dtype = "SCALAR"
                                       /\ machine.tab[s].type # "STRING"
                                       /\ machine.tab[s].data # 0}
StackExact ==
  /\ \A s, t \in Holders : machine.tab[s].data = machine.tab[t].data => s = t
  /\ {machine.tab[s].data : s \in Holders} = StackStart..machine.sp - 1

(* Executing a program does not change its byte code. *)
CodeKept == phase \in {"running", "ended"} => machine.code = code
=============================================================================
