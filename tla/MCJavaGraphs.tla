---------------------------- MODULE MCJavaGraphs -----------------------------
(* Instances of JavaGraphs for TLC: a parameter p, a field f, a local x of *)
(* the method and one, y, of a block, and the variables i of a for and e of *)
(* a catch.                                                                *)
EXTENDS JavaGraphs

Name(v) == [form |-> "name", name |-> v]
This(v) == [form |-> "this", name |-> v]
Other == [form |-> "other", name |-> "literal"]
Plain(kind, target, reads) ==
    [kind |-> kind, target |-> target, reads |-> reads, parts |-> <<>>,
     finally |-> <<>>, default |-> FALSE]
Nest(kind, reads, parts) == [Plain(kind, Other, reads) EXCEPT !.parts = parts]

DeclareX == Plain("declaration", Name("x"), <<Name("p")>>)
SetX == Plain("assignment", Name("x"), <<Name("x"), Name("p")>>)
SetP == Plain("assignment", Name("p"), <<This("f")>>)
SetF == Plain("assignment", This("f"), <<Name("p")>>)
CallX == Plain("call", Other, <<Other, Name("x")>>)
CallF == Plain("call", Other, <<Name("f"), Name("p")>>)
ReturnP == Plain("return", Other, <<Name("p")>>)
Break == Plain("break", Other, <<>>)
DeclareY == Plain("declaration", Name("y"), <<Name("p"), Other>>)
SetPY == Plain("assignment", Name("p"), <<Name("y"), Name("p")>>)
SetI == Plain("assignment", Name("i"), <<Name("i"), Other>>)
CallI == Plain("call", Other, <<Other, Name("i"), Name("p")>>)
CallE == Plain("call", Other, <<Name("e"), Name("p")>>)

Simples == {DeclareX, SetX, SetP, SetF, CallX, CallF, ReturnP}
Bodies == {<<>>, <<SetP>>, <<CallF>>, <<SetX>>, <<ReturnP>>, <<SetF, CallF>>,
           <<SetP, ReturnP>>, <<DeclareY, SetPY>>}
Cases == {<<SetP, Break>>, <<SetX, Break>>, <<ReturnP>>}

Over(bodies) ==
    LET Ifs == {Nest("if", <<Name("p")>>, <<b>>) : b \in bodies}
        Elses == {Nest("if", <<Name("p")>>, <<b, c>>) : b, c \in bodies}
        LoopSet == {Nest(k, <<Name("p"), Other>>, <<b>>) :
                      k \in {"while", "for", "foreach"}, b \in bodies}
        BlockSet == {Nest("block", <<>>, <<b>>) : b \in bodies}
    IN  Ifs \cup Elses \cup LoopSet \cup BlockSet

Tries(bodies, finals) ==
    {[Nest("try", <<>>, parts) EXCEPT !.finally = f] :
        parts \in {<<b>> : b \in bodies} \cup {<<b, c>> : b, c \in bodies},
        f \in finals}

Switches(cases) ==
    {[Nest("switch", <<Name("p")>>, parts) EXCEPT !.default = d] :
        parts \in {<<b>> : b \in cases} \cup {<<b, c>> : b, c \in cases},
        d \in BOOLEAN}

\* Heads that declare a variable; a condition of one operand is not looked into.
Headed ==
    {[Nest(k, reads, <<b>>) EXCEPT !.target = Name("i")] :
        k \in {"for", "foreach"}, b \in {<<CallI>>, <<SetI, CallI>>, <<SetP, SetI>>},
        reads \in {<<Name("p")>>, <<Name("p"), Other>>}}
    \cup {[Nest("for", <<Name("i"), Name("p")>>, <<b>>) EXCEPT !.target = Name("i")] :
            b \in {<<CallI>>, <<SetI, CallI>>}}
    \cup {[Nest("try", <<>>, <<b, <<CallE>>>>) EXCEPT !.target = Name("e")] :
            b \in {<<SetP>>, <<CallF>>, <<ReturnP>>}}

Compound == Over(Bodies) \cup Tries(Bodies \ {<<>>}, {<<>>, <<CallF>>}) \cup Switches(Cases)

\* Statements with another one in their blocks.
Inner ==
    {Nest("if", <<Name("x")>>, <<<<SetX, ReturnP>>>>),
     Nest("if", <<Name("x")>>, <<<<SetP>>, <<>>>>),
     Nest("if", <<Name("p")>>, <<<<SetP, ReturnP>>, <<ReturnP>>>>),
     Nest("for", <<Name("p")>>, <<<<SetP, CallF>>>>),
     Nest("while", <<Name("x")>>, <<<<SetX>>>>),
     Nest("try", <<>>, <<<<SetX>>, <<SetP>>>>),
     [Nest("switch", <<Name("p")>>, <<<<SetX, Break>>, <<ReturnP>>>>) EXCEPT !.default = TRUE]}
Nested ==
    Over({<<i>> : i \in Inner} \cup {<<i, CallX>> : i \in {j \in Inner : Completes(<<j>>)}})
    \cup Tries({<<i>> : i \in Inner}, {<<>>, <<CallX>>})

MCStatements == Simples \cup Compound \cup Nested \cup Headed
=============================================================================
