--------------------------- MODULE Layout_proofs ---------------------------
(* Proofs about Layout: whatever the programs are, whatever stands in their  *)
(* lines and however wide a tabulator is, the scanner's blocks nest. Only    *)
(* Indent, Outdent and OutdentAtEnd change the blocks, and each returns the  *)
(* token for it; the other actions return other tokens or none.              *)
EXTENDS Layout, TLAPS, FiniteSetTheorems

(* The indentations on the stack are positive, and what is returned is a     *)
(* sequence: what the arithmetic of the rules needs.                         *)
IsSequence(s) == \E S : s \in Seq(S)
LayoutInv == /\ line_indent \in Nat
             /\ indent_stack \in Seq(Nat)
             /\ IsSequence(tokens)
             /\ BlocksNest

(* One more token of a kind, or none.                                        *)
Places(s, t) == {i \in DOMAIN s : s[i] = t}
LEMMA AppendPlaces ==
  ASSUME NEW s, IsSequence(s), NEW e, NEW t
  PROVE  /\ IsSequence(Append(s, e))
         /\ Cardinality(Places(s, t)) \in Nat
         /\ Cardinality(Places(Append(s, e), t)) =
              Cardinality(Places(s, t)) + IF e = t THEN 1 ELSE 0
<1>1. PICK S : s \in Seq(S)
  BY DEF IsSequence
<1>2. Append(s, e) \in Seq(S \union {e})
  BY <1>1
<1>3. /\ DOMAIN s = 1..Len(s) /\ Len(s) \in Nat
      /\ DOMAIN Append(s, e) = 1..Len(s) + 1
      /\ Append(s, e)[Len(s) + 1] = e
      /\ \A i \in 1..Len(s) : Append(s, e)[i] = s[i]
  BY <1>1
<1>4. IsFiniteSet(Places(s, t)) /\ Cardinality(Places(s, t)) \in Nat
  <2>1. IsFiniteSet(1..Len(s))
    BY <1>3, FS_Interval
  <2>2. Places(s, t) \subseteq 1..Len(s)
    BY <1>3 DEF Places
  <2> QED BY <2>1, <2>2, FS_Subset, FS_CardinalityType
<1>5. CASE e = t
  <2>1. Places(Append(s, e), t) = Places(s, t) \union {Len(s) + 1}
    BY <1>3, <1>5 DEF Places
  <2>2. Len(s) + 1 \notin Places(s, t)
    BY <1>3 DEF Places
  <2> QED BY <1>2, <1>4, <1>5, <2>1, <2>2, FS_AddElement DEF IsSequence
<1>6. CASE e # t
  <2>1. Places(Append(s, e), t) = Places(s, t)
    BY <1>3, <1>6 DEF Places
  <2> QED BY <1>2, <1>4, <1>6, <2>1 DEF IsSequence
<1> QED BY <1>5, <1>6

LEMMA Tokens == /\ INDENT # OUTDENT /\ NEWLINE # INDENT /\ NEWLINE # OUTDENT
                /\ \A a, b, c : <<"word", a, b, c>> # INDENT /\ <<"word", a, b, c>> # OUTDENT
BY DEF INDENT, OUTDENT, NEWLINE, Symbol

(* What a token does to the numbers of opened and closed blocks.             *)
LEMMA ReturnCounts ==
  ASSUME IsSequence(tokens), NEW e, Return(e)
  PROVE  /\ IsSequence(tokens')
         /\ Count(INDENT) \in Nat /\ Count(OUTDENT) \in Nat
         /\ Count(INDENT)' = Count(INDENT) + IF e = INDENT THEN 1 ELSE 0
         /\ Count(OUTDENT)' = Count(OUTDENT) + IF e = OUTDENT THEN 1 ELSE 0
<1>1. tokens' = Append(tokens, e)
  BY DEF Return
<1>2. \A t : Count(t) = Cardinality(Places(tokens, t)) /\ Count(t)' = Cardinality(Places(tokens', t))
  BY DEF Count, Places
<1> QED BY <1>1, <1>2, AppendPlaces

(* What leaves the stack alone and returns something else or nothing.        *)
LEMMA Aside ==
  ASSUME LayoutInv, line_indent' \in Nat, UNCHANGED indent_stack,
         UNCHANGED tokens \/ \E e : e \notin {INDENT, OUTDENT} /\ Return(e)
  PROVE  LayoutInv'
<1>1. CASE UNCHANGED tokens
  BY <1>1 DEF LayoutInv, BlocksNest, Count
<1>2. ASSUME NEW e, e \notin {INDENT, OUTDENT}, Return(e)
      PROVE  LayoutInv'
  <2>1. /\ IsSequence(tokens')
        /\ Count(INDENT)' = Count(INDENT) /\ Count(OUTDENT)' = Count(OUTDENT)
    BY <1>2, ReturnCounts DEF LayoutInv
  <2> QED BY <2>1 DEF LayoutInv, BlocksNest
<1> QED BY <1>1, <1>2

LEMMA Opens ==
  ASSUME LayoutInv, UNCHANGED line_indent, Return(INDENT),
         line_indent > 0, line_indent > peek(indent_stack),
         indent_stack' = Append(indent_stack, line_indent)
  PROVE  LayoutInv'
<1>1. /\ IsSequence(tokens') /\ Count(INDENT) \in Nat /\ Count(OUTDENT) \in Nat
      /\ Count(INDENT)' = Count(INDENT) + 1 /\ Count(OUTDENT)' = Count(OUTDENT)
  BY ReturnCounts, Tokens DEF LayoutInv
<1>2. indent_stack' \in Seq(Nat) /\ Len(indent_stack') = Len(indent_stack) + 1
  BY DEF LayoutInv
<1>3. \A i \in 1..Len(indent_stack') - 1 : indent_stack'[i] < indent_stack'[i + 1]
  <2> TAKE i \in 1..Len(indent_stack') - 1
  <2>1. CASE i < Len(indent_stack)
    BY <1>2, <2>1 DEF LayoutInv, BlocksNest
  <2>2. CASE i = Len(indent_stack)
    <3>1. indent_stack # <<>> /\ peek(indent_stack) = indent_stack[i]
      BY <2>2 DEF peek, Last, LayoutInv
    <3> QED BY <1>2, <2>2, <3>1 DEF LayoutInv
  <2> QED BY <1>2, <2>1, <2>2 DEF LayoutInv
<1> QED BY <1>1, <1>2, <1>3 DEF LayoutInv, BlocksNest

LEMMA Closes ==
  ASSUME LayoutInv, UNCHANGED line_indent, Return(OUTDENT),
         peek(indent_stack) >= 0, indent_stack' = Front(indent_stack)
  PROVE  LayoutInv'
<1>1. /\ IsSequence(tokens') /\ Count(INDENT) \in Nat /\ Count(OUTDENT) \in Nat
      /\ Count(INDENT)' = Count(INDENT) /\ Count(OUTDENT)' = Count(OUTDENT) + 1
  BY ReturnCounts, Tokens DEF LayoutInv
<1>2. indent_stack # <<>>
  BY DEF peek
<1>3. /\ indent_stack' \in Seq(Nat) /\ Len(indent_stack') = Len(indent_stack) - 1
      /\ \A i \in 1..Len(indent_stack') : indent_stack'[i] = indent_stack[i]
  <2>1. indent_stack' = SubSeq(indent_stack, 1, Len(indent_stack) - 1)
    BY DEF Front
  <2>2. indent_stack \in Seq(Nat) /\ Len(indent_stack) \in Nat
    BY DEF LayoutInv
  <2>3. Len(indent_stack) > 0
    BY <1>2, <2>2
  <2> DEFINE n == Len(indent_stack) - 1
  <2>4. \A i \in 1..n : indent_stack[i] \in Nat
    BY <2>2, <2>3
  <2>5. indent_stack' = [i \in 1..n |-> indent_stack[i]] /\ n \in Nat
    BY <2>1, <2>2, <2>3
  <2>6. Len(indent_stack') = n
    BY <2>5
  <2> QED BY <2>4, <2>5, <2>6
<1>4. \A i \in 1..Len(indent_stack') - 1 : indent_stack'[i] < indent_stack'[i + 1]
  BY <1>3 DEF LayoutInv, BlocksNest
<1> QED BY <1>1, <1>3, <1>4 DEF LayoutInv, BlocksNest

LEMMA StartNests == Init => LayoutInv
<1> SUFFICES ASSUME Init PROVE LayoutInv
  OBVIOUS
<1>1. line_indent \in Nat /\ indent_stack = <<>> /\ tokens = <<>>
  BY DEF Init
<1>2. IsSequence(tokens)
  <2>1. tokens \in Seq({})
    BY <1>1
  <2> QED BY <2>1 DEF IsSequence
<1>3. \A t : Count(t) = 0
  BY <1>1, FS_EmptySet DEF Count
<1> QED BY <1>1, <1>2, <1>3 DEF LayoutInv, BlocksNest

LEMMA StepNests == LayoutInv /\ [Next]_vars => LayoutInv'
<1> SUFFICES ASSUME LayoutInv, [Next]_vars PROVE LayoutInv'
  OBVIOUS
<1>1. CASE CopyLine \/ DropComment \/ ImportFile \/ EndFile
  BY <1>1, Aside DEF CopyLine, DropComment, ImportFile, EndFile, scanner, LayoutInv
<1>2. CASE Open \/ Close
  BY <1>2, Aside DEF Open, Close, LayoutInv
<1>3. CASE Comment \/ InComment \/ EndComment \/ LineComment \/ InLineComment \/ Blank
  <2>1. UNCHANGED scanner
    BY <1>3 DEF Comment, InComment, EndComment, LineComment, InLineComment, Blank, To
  <2> QED BY <2>1, Aside DEF scanner, LayoutInv
<1>4. CASE EndLineComment \/ EndLine
  <2>1. Return(NEWLINE) /\ UNCHANGED indent_stack /\ line_indent' \in Nat
    BY <1>4 DEF EndLineComment, EndLine, LayoutInv
  <2> QED BY <2>1, Aside, Tokens
<1>5. CASE Words
  <2>1. /\ Return(<<"word", Head(contents)[2], Head(contents)[3], parsing_filename>>)
        /\ UNCHANGED indent_stack /\ line_indent' \in Nat
    BY <1>5 DEF Words, LayoutInv
  <2> QED BY <2>1, Aside, Tokens
<1>6. CASE IndentSpace \/ IndentTab \/ EmptyLine
  <2>1. line_indent' \in Nat /\ UNCHANGED <<indent_stack, tokens>>
    BY <1>6, TabAssumption DEF IndentSpace, IndentTab, EmptyLine, IndentBy, LayoutInv
  <2> QED BY <2>1, Aside
<1>7. CASE Indent
  BY <1>7, Opens DEF Indent
<1>8. CASE Stay
  BY <1>8, Aside DEF Stay, StaysIn, LayoutInv
<1>9. CASE Outdent
  <2>1. peek(indent_stack) >= 0
    BY <1>9 DEF Outdent, LayoutInv, peek, Last
  <2> QED BY <1>9, <2>1, Closes DEF Outdent
<1>10. CASE OutdentAtEnd
  <2>1. peek(indent_stack) >= 0
    BY <1>10 DEF OutdentAtEnd, LayoutInv, peek, Last
  <2> QED BY <1>10, <2>1, Closes DEF OutdentAtEnd
<1>11. CASE yyterminate
  BY <1>11, Aside DEF yyterminate, scanner, LayoutInv
<1>12. CASE UNCHANGED vars
  BY <1>12, Aside DEF vars, scanner, LayoutInv
<1> QED
  BY <1>1, <1>2, <1>3, <1>4, <1>5, <1>6, <1>7, <1>8, <1>9, <1>10, <1>11, <1>12 DEF Next, Over

(* For any programs and any width of a tabulator the blocks nest, at every   *)
(* step of the scanner.                                                      *)
THEOREM BlocksAlwaysNest == Spec => []BlocksNest
<1>1. LayoutInv => BlocksNest
  BY DEF LayoutInv
<1> QED BY StartNests, StepNests, <1>1, PTL DEF Spec
=============================================================================
