------------------------------ MODULE MCLayout ------------------------------
(* The programs whose layout is checked.                                     *)
EXTENDS LayoutRules, TLC

CONSTANTS Lines,        \* how many lines of code the main file has
          Depths        \* how deep each may be

Line(kind, n) == [indent |-> [i \in 1..n |-> "sp"], kind |-> kind, behind |-> "", file |-> ""]
Tabs(l)       == [l EXCEPT !.indent = [i \in 1..Len(@) \div TAB_WIDTH |-> "tab"]]
Import(f)     == [Line("import", 0) EXCEPT !.file = f]
Code(n, b)    == [Line("code", n) EXCEPT !.behind = b]

(* All the ways to lay out a number of lines in blocks. *)
Depth == {d \in [1..Lines -> Depths] :
            d[1] = 0 /\ \A i \in 1..Lines - 1 : d[i + 1] <= d[i] + 1}
Columns(style, d) == CASE style = "wide" -> 4 * d [] style = "narrow" -> d + (IF d = 2 THEN 1 ELSE 0)
Body(style, d, b) == [i \in 1..Lines |-> Code(Columns(style, d[i]), b[i])]

(* A line of another kind before each line of the main file, or behind it.   *)
Extra == {Line("blank", 0), Line("blank", 3), Line("comment", 0), Line("comment", 8)}
Insert(body, i, l) == SubSeq(body, 1, i - 1) \o <<l>> \o SubSeq(body, i, Len(body))
TopLevel(body, i) == i > Len(body) \/ body[i].indent = <<>>

Module == <<Code(0, ""), Line("comment", 0), Code(4, ""), Code(8, "/*"), Import("deep"), Import("util")>>
Deep   == <<Import("util"), Line("blank", 0), Code(0, ""), Code(2, "")>>
Of(main) == [files |-> ("main" :> main) @@ ("util" :> Module) @@ ("deep" :> Deep), piped |-> FALSE]

Plain  == {Body(style, d, [i \in 1..Lines |-> ""]) : style \in {"wide", "narrow"}, d \in Depth}
Block  == {Body("wide", d, [i \in 1..Lines |-> IF i = k THEN "/*" ELSE ""]) : d \in Depth, k \in 1..Lines}
Hashed == {Body("wide", d, [i \in 1..Lines |-> IF i = k THEN "#" ELSE ""]) : d \in Depth, k \in 1..Lines}
(* A line comment is between two lines of the same block. *)
Harmless == {body \in Hashed : \A i \in 1..Lines - 1 :
               body[i].behind = "#" => body[i + 1].indent = body[i].indent}
           \ {body \in Hashed : body[Lines].behind = "#" /\ body[Lines].indent # <<>>}
Places == 1..Lines + 1
WithExtra   == {Insert(body, i, l) : body \in Plain, i \in Places, l \in Extra}
ImportsAt(body, i) ==
  IF ~TopLevel(body, i) THEN {}
  ELSE {Insert(Insert(body, i, Import("util")), 1, Import("deep")),
        Insert(Insert(body, i, Import("util")), i, Import("missing")),
        Insert(Insert(body, i, Import("util")), i + 1, Line("blank", 0)),
        Insert(body, i, Import("deep"))}
WithImports == UNION {ImportsAt(body, i) : body \in Plain, i \in Places}
Tabbed == {[i \in 1..Lines |-> Tabs(Body("wide", d, [k \in 1..Lines |-> ""])[i])] : d \in Depth}

Good == {Of(main) : main \in Plain \union Block \union Harmless \union WithExtra \union WithImports
                              \union Tabbed}
        \union {[Of(main) EXCEPT !.piped = TRUE] : main \in Plain \union Block \union Tabbed}

(* A line comment behind any line. *)
Commented == {Of(main) : main \in Hashed}
=============================================================================
