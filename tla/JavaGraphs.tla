----------------------------- MODULE JavaGraphs ------------------------------
(***************************************************************************)
(* The worker's graphs of one Java method: the control-flow graph that     *)
(* JavaCFGBuilderService draws and the data-flow graph that                *)
(* JavaDFGBuilderService draws, both in one walk over the syntax tree.     *)
(*                                                                         *)
(* A statement is a record: its kind, the operand it writes (`target`; for *)
(* a loop or a try the variable that its head or its catches declare), the *)
(* operands of its expression (`reads`: a comparison has two, a call its   *)
(* receiver and its arguments), its blocks (`parts`: then and else, body,  *)
(* try and catches, cases), its `finally` block, and whether it is a       *)
(* switch with a default case.  A graph's node is the statement's place in *)
(* the tree: <<2, 1, 3>> is statement 3 of block 1 of statement 2 and      *)
(* <<2, 1, 0>> is the header of that block (a catch, a case).              *)
(*                                                                         *)
(* The drawn graphs are compared with Java's own order of execution, Flow, *)
(* written in the other direction: from what follows a statement.          *)
(* Recursive operators: for the model checker only.                        *)
(***************************************************************************)
EXTENDS Naturals, FiniteSets, Sequences, SequencesExt, TLC

CONSTANTS
    Statements,     \* the statements a method is made of
    Params,         \* the names of its parameters
    Fields,         \* the names of its class's fields
    MaxStatements   \* bound on the length of a method's outer block

\* A name is one variable (a shadowed field is resolved to the field).
ASSUME NamesAssumption == Params \cap Fields = {} /\ MaxStatements \in Nat

VARIABLES
    method,   \* the statements of the method walked so far
    control,  \* the CFG: `edges` with their labels, and the open `ends`
    data,     \* the DFG: `nodes`, `edges`, `last_def`, `last_def_by_name`
    done      \* the graphs are returned

vars == <<method, control, data, done>>

ENTRY == <<0>>
EXIT == <<0, 0>>
FinallyPart == 0
Loops == {"while", "for", "foreach"}

(***************************************************************************)
(* The control-flow graph.  A drawing is [edges, ends]: `ends` are the     *)
(* nodes to link to whatever comes next.                                   *)
(***************************************************************************)

\* A second edge between two nodes replaces the label of the first.
Link(edges, from, to, label) ==
    [e \in {<<u, to>> : u \in ToSet(from)} |-> label] @@ edges

\* An edge to the first of the ends of a branch.
LinkFirst(edges, from, ends, label) ==
    IF ends = <<>> THEN edges ELSE Link(edges, <<from>>, ends[1], label)

Simple(at, d) == [edges |-> Link(d.edges, d.ends, at, ""), ends |-> <<at>>]

\* Mutant: what follows a return is linked to it.
ReturnOpen(at, d) ==
    [edges |-> Link(Simple(at, d).edges, <<at>>, EXIT, ""), ends |-> <<at>>]

Return(at, d) ==
    [edges |-> Link(Simple(at, d).edges, <<at>>, EXIT, ""), ends |-> <<>>]

\* A block is entered from one node, whatever the ends before it.
Enter(d) == [d EXCEPT !.ends = IF @ = <<>> THEN <<EXIT>> ELSE <<@[1]>>]

RECURSIVE Block(_, _, _)

Branch(s, k, at, d, label) ==
    LET b == Block(s.parts[k], Append(at, k), [d EXCEPT !.ends = <<at>>])
    IN  [b EXCEPT !.edges = LinkFirst(@, at, b.ends, label)]

\* Mutant: an if without else is left by its branch only.
IfTaken(s, at, d) ==
    LET then == Branch(s, 1, at, Simple(at, d), "true")
        else == Branch(s, 2, at, then, "false")
    IN  IF Len(s.parts) = 1 THEN then ELSE [else EXCEPT !.ends = then.ends \o @]

\* Without an else, the condition itself is an end.
If(s, at, d) ==
    LET then == Branch(s, 1, at, Simple(at, d), "true")
        else == Branch(s, 2, at, then, "false")
    IN  IF Len(s.parts) = 1
        THEN [then EXCEPT !.ends = Append(@, at)]
        ELSE [else EXCEPT !.ends = then.ends \o @]

Loop(s, at, d) ==
    LET body == Branch(s, 1, at, Simple(at, d), "true")
    IN  [edges |-> Link(body.edges, body.ends, at, "loop"), ends |-> <<at>>]

\* Each of the ends before the try is linked to each catch.
Catch(s, k, at, entries, d) ==
    LET header == at \o <<k, 0>>
        caught == Block(s.parts[k], Append(at, k),
                        [edges |-> Link(d.edges, entries, header, "exception"),
                         ends |-> <<header>>])
    IN  [caught EXCEPT !.ends = d.ends \o @]

Try(s, at, d) ==
    LET body == Block(s.parts[1], Append(at, 1), Enter(d))
        caught == FoldLeft(LAMBDA c, k : Catch(s, k, at, d.ends, c), body,
                           [i \in 1..Len(s.parts) - 1 |-> i + 1])
    IN  IF s.finally = <<>> THEN caught
        ELSE Block(s.finally, Append(at, FinallyPart),
                   Simple(at \o <<FinallyPart, 0>>, caught))

Case(s, k, at, d) ==
    LET header == at \o <<k, 0>>
        case == Block(s.parts[k], Append(at, k),
                      [edges |-> Link(d.edges, <<at>>, header, "case"),
                       ends |-> <<header>>])
    IN  [case EXCEPT !.ends = d.ends \o @]

Switch(s, at, d) ==
    LET cases == FoldLeftDomain(LAMBDA c, k : Case(s, k, at, c),
                                [Simple(at, d) EXCEPT !.ends = <<>>], s.parts)
    IN  [cases EXCEPT !.ends = IF @ = <<>> THEN <<at>> ELSE @]

Statement(s, at, d) ==
    CASE s.kind = "if" -> If(s, at, d)
      [] s.kind \in Loops -> Loop(s, at, d)
      [] s.kind = "try" -> Try(s, at, d)
      [] s.kind = "switch" -> Switch(s, at, d)
      [] s.kind = "return" -> Return(at, d)
      [] s.kind = "block" -> Block(s.parts[1], Append(at, 1), Enter(d))
      [] OTHER -> Simple(at, d)

Block(stmts, path, d) ==
    FoldLeftDomain(LAMBDA c, i : Statement(stmts[i], Append(path, i), c), d, stmts)

(***************************************************************************)
(* The data-flow graph.  A node is one definition or use of a variable.    *)
(***************************************************************************)

\* A literal, a receiver ("other") is no use; `this.name` is one of a field.
Extract(operands) ==
    LET used == SelectSeq(operands, LAMBDA o : o.form # "other")
    IN  [i \in DOMAIN used |-> used[i].name]

\* The key of a name in a method's body.
VarKey(name) == IF name \in Fields THEN <<"field", name>> ELSE <<"local", name>>

AddNode(g, name, key, operation, at) ==
    LET id == Len(g.nodes) + 1
        node == [name |-> name, operation |-> operation, at |-> at]
    IN  IF operation = "use" THEN [g EXCEPT !.nodes = Append(@, node)]
        ELSE [g EXCEPT !.nodes = Append(@, node),
                       !.last_def = key :> id @@ @,
                       !.last_def_by_name = name :> id @@ @]

AddEdges(g, froms, to, type) ==
    [g EXCEPT !.edges = @ \cup {[from |-> u, to |-> to, type |-> type] : u \in froms}]

\* The definition a use is linked to: by key, else by name.
LastDef(g, name) ==
    IF VarKey(name) \in DOMAIN g.last_def THEN {g.last_def[VarKey(name)]}
    ELSE IF name \in DOMAIN g.last_def_by_name THEN {g.last_def_by_name[name]}
    ELSE {}

Use(g, name, at) ==
    LET used == AddNode(g, name, VarKey(name), "use", at)
    IN  AddEdges(used, LastDef(used, name), Len(used.nodes), "def-use")

Uses(g, operands, at) ==
    FoldLeft(LAMBDA u, name : Use(u, name, at), g, Extract(operands))

\* The definition comes first, then the uses of its initializer.
Declare(g, s, at) ==
    LET key == <<"local", s.target.name>>
        declared == AddNode(g, s.target.name, key, "def", at)
        id == Len(declared.nodes)
        used == Uses(declared, s.reads, at)
    IN  AddEdges(used, id + 1 .. Len(used.nodes), id, "init")

Write(g, target, at) ==
    FoldLeft(LAMBDA w, name : AddNode(w, name, VarKey(name), "write", at),
             g, Extract(<<target>>))

\* Mutant: the target is written before the value is read.
AssignEarly(g, s, at) == Uses(Write(g, s.target, at), s.reads, at)
Assign(g, s, at) ==
    LET used == Uses(g, s.reads, at)
        written == Write(used, s.target, at)
    IN  IF Len(written.nodes) = Len(used.nodes) THEN written
        ELSE AddEdges(written, Len(g.nodes) + 1 .. Len(used.nodes),
                      Len(written.nodes), "flow")

\* Blocks in the order of the text; a switch is not looked into.
RECURSIVE AnalyzeBlock(_, _, _)

AnalyzeParts(g, s, at) ==
    AnalyzeBlock(FoldLeftDomain(
        LAMBDA p, k : AnalyzeBlock(p, s.parts[k], Append(at, k)), g, s.parts),
        s.finally, Append(at, FinallyPart))

\* _analyze_expression passes over a bare name, which is all the operands there are.
Condition(s) == IF Len(s.reads) = 1 THEN <<>> ELSE s.reads

\* No node is added for the variable that a for or a catch declares, for the
\* update of a for, or for the head of a for-each.
Analyze(g, s, at) ==
    CASE s.kind = "declaration" -> Declare(g, s, at)
      [] s.kind = "assignment" -> Assign(g, s, at)
      [] s.kind \in {"call", "return"} -> Uses(g, s.reads, at)
      [] s.kind \in {"if", "while"} -> AnalyzeParts(Uses(g, s.reads, at), s, at)
      [] s.kind = "for" -> AnalyzeParts(Uses(g, Condition(s), at), s, at)
      [] s.kind \in {"foreach", "block", "try"} -> AnalyzeParts(g, s, at)
      [] OTHER -> g

AnalyzeBlock(g, stmts, path) ==
    FoldLeftDomain(LAMBDA p, i : Analyze(p, stmts[i], Append(path, i)), g, stmts)

\* Parameters are definitions under keys of their own.
Parameters ==
    FoldLeft(LAMBDA g, name : AddNode(g, name, <<"param", name>>, "def", ENTRY),
             [nodes |-> <<>>, edges |-> {}, last_def |-> <<>>, last_def_by_name |-> <<>>],
             SetToSeq(Params))

(***************************************************************************)
(* Java's rules: the names in scope, and the statements that can be        *)
(* reached.                                                                *)
(***************************************************************************)
RECURSIVE Inside(_)
\* Statement s and the statements in its blocks.
Inside(s) ==
    {s} \cup UNION {Inside(t) : t \in UNION {ToSet(b) : b \in ToSet(s.parts) \cup {s.finally}}}

\* The variable that a statement declares, for what follows it or, if it is
\* a for or a try, for its blocks.
Introduced(s) ==
    IF s.kind \in {"declaration", "for", "foreach", "try"} /\ s.target.form # "other"
    THEN {s.target.name} ELSE {}

Declared(stmts) ==
    UNION {Introduced(s) : s \in {t \in ToSet(stmts) : t.kind = "declaration"}}

RECURSIVE Free(_)
\* The names in s that something around it declares.
Free(s) ==
    LET Operands == {o \in ToSet(s.reads) \cup {s.target} : o.form # "other"}
        FreeIn(b) == UNION {Free(b[i]) \ Declared(SubSeq(b, 1, i - 1)) : i \in DOMAIN b}
        Bound(k) == IF s.kind = "try" /\ k = 1 THEN {} ELSE Introduced(s)
    IN  ({o.name : o \in Operands} \ Introduced(s))
        \cup UNION {FreeIn(s.parts[k]) \ Bound(k) : k \in DOMAIN s.parts}
        \cup FreeIn(s.finally)

\* No variable is hidden, and none is named outside of its scope.
InScope(s) ==
    LET known == Params \cup Fields \cup Declared(method)
    IN  /\ Free(s) \subseteq known
        /\ \A t \in Inside(s) : Introduced(t) \cap known = {}

RECURSIVE Completes(_)
\* Execution can go on after the block.
Completes(stmts) ==
    \A s \in ToSet(stmts) :
        CASE s.kind = "return" -> FALSE
          [] s.kind = "if" -> Len(s.parts) = 1 \/ \E b \in ToSet(s.parts) : Completes(b)
          [] s.kind = "block" -> Completes(s.parts[1])
          [] s.kind = "try" -> Completes(s.finally) /\ \E b \in ToSet(s.parts) : Completes(b)
          [] s.kind = "switch" -> ~s.default \/ \E b \in ToSet(s.parts) : Completes(b)
          [] OTHER -> TRUE

(***************************************************************************)
(* The walk.                                                               *)
(***************************************************************************)
Init ==
    /\ method = <<>>
    /\ control = [edges |-> <<>>, ends |-> <<ENTRY>>]
    /\ data = Parameters
    /\ done = FALSE

\* The two builders handle the next statement of the method's block.
NextStatement(s) ==
    /\ ~done /\ Len(method) < MaxStatements
    /\ Completes(method) /\ InScope(s)
    /\ method' = Append(method, s)
    /\ control' = Statement(s, <<Len(method')>>, control)
    /\ data' = Analyze(data, s, <<Len(method')>>)
    /\ UNCHANGED done

\* The block is over: its open ends are linked to the exit.
Finish ==
    /\ ~done
    /\ done' = TRUE
    /\ control' = [control EXCEPT
                    !.edges = Link(@, SelectSeq(control.ends, LAMBDA n : n # EXIT), EXIT, "")]
    /\ UNCHANGED <<method, data>>

Next == Finish \/ \E s \in Statements : NextStatement(s)
Spec == Init /\ [][Next]_vars

(***************************************************************************)
(* Java's order of execution, by the builders' convention that an          *)
(* exception leaves a try block before its first statement.                *)
(***************************************************************************)
RECURSIVE Heads(_, _, _, _)
\* The nodes execution may enter first in a block from statement i on, when
\* K are those after the block.
Heads(stmts, i, path, K) ==
    IF i > Len(stmts) THEN K
    ELSE LET s == stmts[i]
             at == Append(path, i)
             next == Heads(stmts, i + 1, path, K)
             after == IF s.finally = <<>> THEN next ELSE {at \o <<FinallyPart, 0>>}
         IN  CASE s.kind = "block" -> Heads(s.parts[1], 1, Append(at, 1), next)
               [] s.kind = "try" -> Heads(s.parts[1], 1, Append(at, 1), after)
                                    \cup {at \o <<k, 0>> : k \in 2..Len(s.parts)}
               [] OTHER -> {at}

Returns(b) == \E s \in ToSet(b) : \E t \in Inside(s) : t.kind = "return"

RECURSIVE FlowIn(_, _, _, _)
\* The steps of execution inside a block; a return goes to exit.
FlowIn(stmts, path, K, exit) ==
    LET Part(b, p, header, after, out) ==
            {header} \X Heads(b, 1, p, after) \cup FlowIn(b, p, after, out)
        Of(i) ==
            LET s == stmts[i]
                at == Append(path, i)
                next == Heads(stmts, i + 1, path, K)
                fin == at \o <<FinallyPart, 0>>
                final == s.finally # <<>>
                after == IF final THEN {fin} ELSE next
                out == IF final THEN fin ELSE exit
                resumed ==
                    (IF \E b \in ToSet(s.parts) : Completes(b) THEN next ELSE {})
                    \cup (IF \E b \in ToSet(s.parts) : Returns(b) THEN {exit} ELSE {})
                Parts(header(_), first, to) ==
                    UNION {Part(s.parts[k], Append(at, k), header(k), to, out) :
                           k \in first..Len(s.parts)}
                Self(k) == at
                Header(k) == at \o <<k, 0>>
            IN  CASE s.kind = "return" -> {<<at, exit>>}
                  [] s.kind = "if" ->
                        Parts(Self, 1, next)
                        \cup (IF Len(s.parts) = 1 THEN {at} \X next ELSE {})
                  [] s.kind \in Loops -> Parts(Self, 1, {at}) \cup {at} \X next
                  [] s.kind = "block" -> FlowIn(s.parts[1], Append(at, 1), next, out)
                  [] s.kind = "try" ->
                        FlowIn(s.parts[1], Append(at, 1), after, out)
                        \cup Parts(Header, 2, after)
                        \cup (IF final THEN Part(s.finally, Append(at, FinallyPart), fin,
                                                 resumed, exit)
                              ELSE {})
                  [] s.kind = "switch" ->
                        {<<at, Header(k)>> : k \in DOMAIN s.parts}
                        \cup Parts(Header, 1, next)
                        \cup (IF s.default THEN {} ELSE {at} \X next)
                  [] OTHER -> {at} \X next
    IN  UNION {Of(i) : i \in DOMAIN stmts}

Flow == {ENTRY} \X Heads(method, 1, <<>>, {EXIT}) \cup FlowIn(method, <<>>, {EXIT}, EXIT)

(***************************************************************************)
(* The methods the builders draw as Java runs them.  Outside:              *)
(***************************************************************************)
Everywhere == UNION {Inside(s) : s \in ToSet(method)}
Blocks == {method} \cup UNION {ToSet(s.parts) \cup {s.finally} : s \in Everywhere}

\* _process_block has one entry: the other ends of an if, a switch or a try
\* before a block or a try are not linked to it.
EnteredOnce ==
    \A b \in Blocks : \A i \in 1..Len(b) - 1 :
        b[i].kind \in {"if", "switch", "try", "block"} => b[i + 1].kind \notin {"try", "block"}
\* A return goes to the exit past the finally block.
NoReturnUnderFinally ==
    \A s \in Everywhere : s.finally # <<>> => \A b \in ToSet(s.parts) : ~Returns(b)
\* No edge goes around a switch without a default case, and one does around
\* a switch whose cases all return.
SwitchFallsOut ==
    \A s \in Everywhere : s.kind = "switch" => s.default /\ \E b \in ToSet(s.parts) : Completes(b)

Regular == NoReturnUnderFinally /\ SwitchFallsOut

(***************************************************************************)
(* Properties of the returned graphs.                                      *)
(***************************************************************************)

\* No path of execution is missing: each step of Java from one statement to
\* the next is an edge of the CFG (_process_* and the links to the exit),
\* whatever the nesting, the early returns and the empty branches.
FlowIsDrawn == done /\ Regular /\ EnteredOnce => Flow \subseteq DOMAIN control.edges

\* No impossible path is drawn: each edge is a step of Java, but for the
\* "true" and "false" edges, which go to the last node of their branch.
DrawnIsFlow ==
    done /\ Regular =>
        \A e \in DOMAIN control.edges :
            control.edges[e] \notin {"true", "false"} => e \in Flow

Defines(at, name) ==
    \E i \in DOMAIN data.nodes :
        data.nodes[i].operation # "use" /\ data.nodes[i].name = name /\ data.nodes[i].at = at

RECURSIVE ReachedFrom(_, _, _, _)
\* The nodes reached from the frontier without passing a definition of name.
ReachedFrom(flow, name, seen, frontier) ==
    LET next == {e[2] : e \in {f \in flow : f[1] \in frontier}} \ seen
    IN  IF next = {} THEN seen
        ELSE ReachedFrom(flow, name, seen \cup next, {n \in next : ~Defines(n, name)})

RECURSIVE Descend(_, _)
\* The block a statement's path ends in.
Descend(stmts, path) ==
    IF Len(path) = 1 THEN stmts
    ELSE LET s == stmts[path[1]] IN
         Descend(IF path[2] = FinallyPart THEN s.finally ELSE s.parts[path[2]],
                 Tail(Tail(path)))

\* Node d is in a block that u is not in, and u is in another block of the
\* same statement or the block never completes.
Alternative(d, u) ==
    \E n \in {i \in 1..Len(d) - 1 : i % 2 = 0} :
        /\ ~IsPrefix(SubSeq(d, 1, n), u)
        /\ \/ ~Completes(Descend(method, SubSeq(d, 1, n + 1)))
           \/ IsPrefix(SubSeq(d, 1, n - 1), u) /\ u[n] # FinallyPart

\* A switch is not looked into: its assignments are no definitions.
AssignedInSwitch(name) ==
    \E s \in Everywhere : s.kind = "switch" /\ \E t \in Inside(s) : t.target.name = name

\* The variables of fors and catches, whose declaration is no definition.
HeadVariables ==
    UNION {Introduced(s) : s \in {t \in Everywhere : t.kind # "declaration"}}

\* A use of a parameter or of a local that a statement of its own declares is
\* linked to one definition, and a def-use edge goes from a definition to a use
\* that it reaches on some path, with no other definition in between
\* (_connect_def_to_use, last_def).  The walk keeps the last definition in the
\* text, so an edge may also come from a definition in an alternative to the
\* use, or past one in a switch.
DefUseReaches ==
    done =>
    LET Links(i) == {e \in data.edges : e.type = "def-use" /\ e.to = i}
        flow == Flow
    IN  \A i \in {j \in DOMAIN data.nodes : /\ data.nodes[j].operation = "use"
                                            /\ data.nodes[j].name \notin HeadVariables} :
            LET use == data.nodes[i] IN
            /\ use.name \notin Fields => Cardinality(Links(i)) = 1
            /\ \A e \in Links(i) :
                LET def == data.nodes[e.from] IN
                \/ use.at \in ReachedFrom(flow, def.name, {}, {def.at})
                \/ Alternative(def.at, use.at)
                \/ AssignedInSwitch(def.name)
=============================================================================
