---------------------------- MODULE LayoutRules -----------------------------
(* What the layout of a program means, to compare the tokens of Layout with. *)
EXTENDS Layout

(* The layout of a program by the rules of Python: a line that begins further *)
(* in than the one before opens a block, one that begins further out closes  *)
(* all blocks that begin further in; empty lines and comments do not count;  *)
(* a file is put where it is imported first and ends all its blocks.         *)
Width(l) == FoldLeft(LAMBDA n, c : n + IF c = "tab" THEN TAB_WIDTH ELSE 1, 0, l.indent)
Edge == [width |-> 0, word |-> <<>>]       \* a line without words

RECURSIVE LogicalLines(_, _)
LogicalLines(f, seen) ==
  FoldLeft(LAMBDA r, n :
             LET l == LinesOf(f)[n]
                 LineOf == [width |-> Width(l), word |-> <<"word", f, n, IF program.piped THEN "" ELSE f>>]
             IN  CASE l.kind = "code" -> [r EXCEPT !.lines = Append(@, LineOf)]
                   [] l.kind = "import" /\ l.file \notin r.seen ->
                        LET inner == LogicalLines(l.file, r.seen \union {l.file})
                        IN  [lines |-> r.lines \o <<Edge>> \o inner.lines \o <<Edge>>, seen |-> inner.seen]
                   [] OTHER -> r,
           [lines |-> <<>>, seen |-> seen], [n \in DOMAIN LinesOf(f) |-> n])

Blocks(r, l) ==
  LET stays == SelectSeq(r.stack, LAMBDA w : w <= l.width)
      opens == l.width > 0 /\ (stays = <<>> \/ Last(stays) < l.width)
  IN  [stack |-> IF opens THEN Append(stays, l.width) ELSE stays,
       tokens |-> r.tokens \o [i \in 1..Len(r.stack) - Len(stays) |-> OUTDENT]
                  \o (IF opens THEN <<INDENT>> ELSE <<>>)
                  \o (IF l.word = <<>> THEN <<>> ELSE <<l.word, NEWLINE>>)]
Expected ==
  FoldLeft(Blocks, [stack |-> <<>>, tokens |-> <<>>],
           Append(LogicalLines("main", {}).lines, Edge)).tokens

(* The grammar takes a NEWLINE for an empty line at the beginning, behind    *)
(* another NEWLINE, and behind an OUTDENT, but not before the INDENT of a    *)
(* block, nor before what could be the else of the block that ended: a word  *)
(* of the same file.                                                         *)
FileAt(ts, i) == Last(SelectSeq(SubSeq(ts, 1, i), LAMBDA t : t[1] = "word"))[2]
CouldBeElse(ts, i) == ts[i][1] = "word" /\ ts[i][2] = FileAt(ts, i - 1)
IsEmptyLine(ts, i) ==
  /\ ts[i] = NEWLINE
  /\ i = 1 \/ ts[i - 1] \in {NEWLINE, OUTDENT}
  /\ i < Len(ts) => ts[i + 1] # INDENT
  /\ (i \in 2..Len(ts) - 1 /\ ts[i - 1] = OUTDENT) => ~CouldBeElse(ts, i + 1)
Squeezed(ts) ==
  FoldLeft(LAMBDA out, i : IF IsEmptyLine(ts, i) THEN out ELSE Append(out, ts[i]), <<>>,
           [i \in DOMAIN ts |-> i])

(* The parser gets the blocks that the program is laid out in, with every    *)
(* line in its block and from the file it is in, each imported file once;    *)
(* only a program with an import of no file is refused.                      *)
TokensAreLayout ==
  /\ mode = "done" => Squeezed(tokens) = Expected
  /\ mode = "refused" => \E f \in DOMAIN program.files : \E i \in DOMAIN LinesOf(f) :
       /\ LinesOf(f)[i].kind = "import"
       /\ LinesOf(f)[i].file \notin DOMAIN program.files
=============================================================================
