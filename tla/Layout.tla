------------------------------- MODULE Layout -------------------------------
(* From the files of a program to the tokens that its layout is made of:     *)
(* the files are read and put together (getSourceFileContents in             *)
(* src/host/main.c), and the scanner (src/host/epython.l, as generated in    *)
(* src/host/lexer.c) turns the indentation into INDENT and OUTDENT. Each     *)
(* rule of the scanner that has to do with layout is an action; the tokens   *)
(* of a line are one word.                                                   *)
(*                                                                          *)
(* A file is a sequence of lines. A line has the characters it is indented   *)
(* with ("sp" and "tab"), what kind of line it is, and what stands behind    *)
(* the words of a line of code: nothing, a "#" comment or one in /* and its  *)
(* end. An import line names a file. The characters of the text are symbols: *)
(* a kind and, for a word and the marks where files begin, what it is.       *)
EXTENDS Integers, Sequences, FiniteSets, SequencesExt

CONSTANTS Programs,     \* each: the files by name, and whether they are piped in
          TAB_WIDTH
ASSUME TabAssumption == TAB_WIDTH \in Nat \ {0}

VARIABLES program,      \* the program,
          reading,      \* the files being read, the innermost first, with the next line
          included,     \* the files that were imported
          contents,     \* the text that is not scanned yet
          mode,         \* the state of the scanner, or "reading", "refused", "done"
          line_indent, fake_outdent_symbol, indent_stack,
          parsing_filename, filenameStack,
          tokens        \* the tokens found
reader  == <<reading, included>>
files   == <<parsing_filename, filenameStack>>
scanner == <<line_indent, fake_outdent_symbol, indent_stack, files, tokens>>
vars    == <<program, reader, contents, mode, scanner>>

Symbol(kind)  == <<kind>>
NewLine       == Symbol("nl")
Spaces(n)     == [i \in 1..n |-> Symbol("sp")]
Characters(l) == [i \in DOMAIN l.indent |-> Symbol(l.indent[i])]
OpenMark(f)   == <<"open", f>>
CloseMark     == Symbol("close")
Word(f, n)    == <<"word", f, n>>
INDENT        == Symbol("INDENT")
OUTDENT       == Symbol("OUTDENT")
NEWLINE       == Symbol("NEWLINE")

Behind(l) == CASE l.behind = "#"  -> <<Symbol("#"), Symbol("text")>>
               [] l.behind = "/*" -> <<Symbol("/*"), Symbol("text"), NewLine, Symbol("*/")>>
               [] OTHER -> <<>>
TextOf(f, n, l) ==
  CASE l.kind = "code" -> Characters(l) \o <<Word(f, n)>> \o Behind(l) \o <<NewLine>>
    [] l.kind = "comment" -> Characters(l) \o <<Symbol("#"), Symbol("text"), NewLine>>
    [] l.kind = "blank" -> Characters(l) \o <<NewLine>>

(* What the command line pipes in has no marks and is not looked at. *)
Piped == FoldLeft(LAMBDA text, n : text \o TextOf("main", n, program.files["main"][n]), <<>>,
                  [n \in DOMAIN program.files["main"] |-> n])
Init ==
  /\ program \in Programs
  /\ included = {}
  /\ reading = IF program.piped THEN <<>> ELSE <<[file |-> "main", line |-> 1]>>
  /\ contents = IF program.piped THEN Piped ELSE <<OpenMark("main")>>
  /\ mode = IF program.piped THEN "INITIAL" ELSE "reading"
  /\ line_indent = 0 /\ fake_outdent_symbol = FALSE /\ indent_stack = <<>>
  /\ parsing_filename = "" /\ filenameStack = <<>>
  /\ tokens = <<>>

-----------------------------------------------------------------------------
(* Reading the files. *)
LinesOf(f)  == program.files[f]
HereIs(kinds) == /\ mode = "reading" /\ Head(reading).line \in DOMAIN LinesOf(Head(reading).file)
                 /\ LinesOf(Head(reading).file)[Head(reading).line].kind \in kinds
TheLine     == LinesOf(Head(reading).file)[Head(reading).line]
Behead(r)   == [r EXCEPT ![1].line = @ + 1]

CopyLine ==
  /\ HereIs({"code", "blank"})
  /\ contents' = contents \o TextOf(Head(reading).file, Head(reading).line, TheLine)
  /\ reading' = Behead(reading)
  /\ UNCHANGED <<program, included, mode, scanner>>

(* A line with nothing but a comment is an empty line. *)
DropComment ==
  /\ HereIs({"comment"})
  /\ contents' = Append(contents, NewLine)
  /\ reading' = Behead(reading)
  /\ UNCHANGED <<program, included, mode, scanner>>

(* The contents of an imported file, once; nothing is left of the line. *)
hasSourceFileAlreadyBeenIncluded(f) == f \in included
getIncludeFileWithPath(f)           == f \in DOMAIN program.files
ImportFileAgain ==      \* a mutant of the next definition, kept from reading without end
  /\ HereIs({"import"})
  /\ IF getIncludeFileWithPath(TheLine.file)
     THEN /\ included' = included \union {TheLine.file}
          /\ reading' = IF Len(reading) > 3 THEN Behead(reading)
                        ELSE <<[file |-> TheLine.file, line |-> 1]>> \o Behead(reading)
          /\ contents' = Append(contents, OpenMark(TheLine.file))
          /\ UNCHANGED mode
     ELSE mode' = "refused" /\ UNCHANGED <<reader, contents>>
  /\ UNCHANGED <<program, scanner>>
ImportFile ==
  /\ HereIs({"import"})
  /\ CASE ~getIncludeFileWithPath(TheLine.file) -> mode' = "refused" /\ UNCHANGED <<reader, contents>>
       [] hasSourceFileAlreadyBeenIncluded(TheLine.file) ->
            reading' = Behead(reading) /\ UNCHANGED <<included, contents, mode>>
       [] OTHER ->
            /\ included' = included \union {TheLine.file}
            /\ reading' = <<[file |-> TheLine.file, line |-> 1]>> \o Behead(reading)
            /\ contents' = Append(contents, OpenMark(TheLine.file))
            /\ UNCHANGED mode
  /\ UNCHANGED <<program, scanner>>

EndFile ==
  /\ mode = "reading" /\ Head(reading).line \notin DOMAIN LinesOf(Head(reading).file)
  /\ contents' = contents \o <<NewLine, CloseMark>>
  /\ reading' = Tail(reading)
  /\ mode' = IF Len(reading) = 1 THEN "INITIAL" ELSE mode
  /\ UNCHANGED <<program, included, scanner>>

-----------------------------------------------------------------------------
(* The scanner. *)
Sees(m, kinds) == mode = m /\ contents # <<>> /\ Head(contents)[1] \in kinds
Return(token)  == tokens' = Append(tokens, token)
peek(s)        == IF s = <<>> THEN -1 ELSE Last(s)
ScannerKeeps   == UNCHANGED <<program, reader>>

Open == /\ Sees("INITIAL", {"open"})
        /\ filenameStack' = IF parsing_filename = "" THEN filenameStack
                            ELSE Append(filenameStack, parsing_filename)
        /\ parsing_filename' = Head(contents)[2]
        /\ contents' = Tail(contents)
        /\ UNCHANGED <<mode, line_indent, fake_outdent_symbol, indent_stack, tokens>> /\ ScannerKeeps

Close == /\ Sees("INITIAL", {"close"})
         /\ parsing_filename' = IF filenameStack = <<>> THEN parsing_filename ELSE Last(filenameStack)
         /\ filenameStack' = IF filenameStack = <<>> THEN <<>> ELSE Front(filenameStack)
         /\ contents' = Tail(contents)
         /\ UNCHANGED <<mode, line_indent, fake_outdent_symbol, indent_stack, tokens>> /\ ScannerKeeps

(* What changes the mode only. *)
To(m) == /\ mode' = m /\ contents' = Tail(contents)
         /\ UNCHANGED scanner /\ ScannerKeeps
Comment       == Sees("INITIAL", {"/*"}) /\ To("COMMENTS")
InComment     == Sees("COMMENTS", {"text", "nl"}) /\ To("COMMENTS")
EndComment    == Sees("COMMENTS", {"*/"}) /\ To("INITIAL")
LineComment   == Sees("INITIAL", {"#"}) /\ To("SINGLELINECOMMENT")
InLineComment == Sees("SINGLELINECOMMENT", {"text"}) /\ To("SINGLELINECOMMENT")
Blank         == Sees("INITIAL", {"sp", "tab"}) /\ To("INITIAL")

EndLineComment == /\ Sees("SINGLELINECOMMENT", {"nl"})
                  /\ mode' = "INITIAL"
                  /\ Return(NEWLINE)
                  /\ contents' = Tail(contents)
                  /\ UNCHANGED <<line_indent, fake_outdent_symbol, indent_stack, files>> /\ ScannerKeeps

Words == /\ Sees("INITIAL", {"word"})
         /\ Return(<<"word", Head(contents)[2], Head(contents)[3], parsing_filename>>)
         /\ contents' = Tail(contents)
         /\ UNCHANGED <<mode, line_indent, fake_outdent_symbol, indent_stack, files>> /\ ScannerKeeps

EndLine == /\ Sees("INITIAL", {"nl"})
           /\ mode' = "INDENT_MODE" /\ line_indent' = 0
           /\ Return(NEWLINE)
           /\ contents' = Tail(contents)
           /\ UNCHANGED <<fake_outdent_symbol, indent_stack, files>> /\ ScannerKeeps

IndentBy(n) == /\ line_indent' = n /\ contents' = Tail(contents)
               /\ UNCHANGED <<mode, fake_outdent_symbol, indent_stack, files, tokens>> /\ ScannerKeeps
IndentSpace == Sees("INDENT_MODE", {"sp"})  /\ IndentBy(line_indent + 1)
IndentTab   == Sees("INDENT_MODE", {"tab"}) /\ IndentBy(line_indent + TAB_WIDTH)
EmptyLine   == Sees("INDENT_MODE", {"nl"})  /\ IndentBy(0)

(* The first character of a line. It is put back, unless it is the dot that  *)
(* the last outdent left. When a line ends more than one block, the scanner  *)
(* puts a line of the next indentation, with such a dot, before it.          *)
FirstCharacter == {"open", "close", "word", "/*", "#", "."}
PutBack == IF fake_outdent_symbol THEN Tail(contents) ELSE contents
Indent == /\ Sees("INDENT_MODE", FirstCharacter)
          /\ line_indent > 0 /\ line_indent > peek(indent_stack)
          /\ indent_stack' = Append(indent_stack, line_indent)
          /\ Return(INDENT)
          /\ mode' = "INITIAL" /\ contents' = PutBack /\ fake_outdent_symbol' = FALSE
          /\ UNCHANGED <<line_indent, files>> /\ ScannerKeeps
StaysIn(rest) == /\ line_indent >= peek(indent_stack)
                 /\ ~(line_indent > 0 /\ line_indent > peek(indent_stack))
                 /\ mode' = "INITIAL" /\ contents' = rest /\ fake_outdent_symbol' = FALSE
                 /\ UNCHANGED <<line_indent, indent_stack, files, tokens>> /\ ScannerKeeps
Stay == Sees("INDENT_MODE", FirstCharacter) /\ StaysIn(PutBack)
OutdentAtOnce ==        \* a mutant of the next definition
  /\ Sees("INDENT_MODE", FirstCharacter)
  /\ line_indent < peek(indent_stack)
  /\ indent_stack' = SelectSeq(indent_stack, LAMBDA indent : indent <= line_indent)
  /\ Return(OUTDENT)
  /\ contents' = PutBack /\ mode' = "INITIAL" /\ fake_outdent_symbol' = FALSE
  /\ UNCHANGED <<line_indent, files>> /\ ScannerKeeps
Outdent ==
  /\ Sees("INDENT_MODE", FirstCharacter)
  /\ line_indent < peek(indent_stack)
  /\ indent_stack' = Front(indent_stack)
  /\ Return(OUTDENT)
  /\ IF peek(indent_stack') # -1 /\ line_indent # peek(indent_stack')
     THEN /\ contents' = <<NewLine>> \o Spaces(peek(indent_stack')) \o <<Symbol("."), NewLine>>
                         \o Spaces(line_indent) \o PutBack
          /\ fake_outdent_symbol' = TRUE /\ UNCHANGED mode
     ELSE contents' = PutBack /\ mode' = "INITIAL" /\ fake_outdent_symbol' = FALSE
  /\ UNCHANGED <<line_indent, files>> /\ ScannerKeeps

(* The end of the text where a line could begin. *)
OutdentAtEnd ==
  /\ mode = "INDENT_MODE" /\ contents = <<>> /\ peek(indent_stack) > 0
  /\ indent_stack' = Front(indent_stack)
  /\ Return(OUTDENT)
  /\ IF line_indent < peek(indent_stack')
     THEN contents' = Spaces(peek(indent_stack')) \o <<NewLine>> /\ UNCHANGED mode
     ELSE mode' = "INITIAL" /\ UNCHANGED contents
  /\ UNCHANGED <<line_indent, fake_outdent_symbol, files>> /\ ScannerKeeps

yyterminate ==
  /\ contents = <<>>
  /\ \/ mode \in {"INITIAL", "COMMENTS", "SINGLELINECOMMENT"}
     \/ mode = "INDENT_MODE" /\ peek(indent_stack) <= 0
  /\ mode' = "done"
  /\ UNCHANGED <<contents, scanner>> /\ ScannerKeeps

Over == mode \in {"refused", "done"} /\ UNCHANGED vars

Next == \/ CopyLine \/ DropComment \/ ImportFile \/ EndFile
        \/ Open \/ Close \/ Comment \/ InComment \/ EndComment
        \/ LineComment \/ InLineComment \/ EndLineComment \/ Blank \/ Words \/ EndLine
        \/ IndentSpace \/ IndentTab \/ EmptyLine \/ Indent \/ Stay \/ Outdent
        \/ OutdentAtEnd \/ yyterminate \/ Over
Spec == Init /\ [][Next]_vars

-----------------------------------------------------------------------------
(* Whatever is scanned, the blocks are in one another: each is further in    *)
(* than the one around it, and as many are open as were opened and not       *)
(* closed. The parser, which takes the scanner's word for it, could          *)
(* otherwise leave a scope twice or never.                                   *)
Count(token) == Cardinality({i \in DOMAIN tokens : tokens[i] = token})
BlocksNest ==
  /\ \A i \in 1..Len(indent_stack) - 1 : indent_stack[i] < indent_stack[i + 1]
  /\ Len(indent_stack) = Count(INDENT) - Count(OUTDENT)
=============================================================================
