------------------------------ MODULE GoNames -------------------------------
(***************************************************************************)
(* GoNames: what the names in a function stand for by Go's specification   *)
(* (https://golang.org/ref/spec#Declarations_and_scope), and the ways in   *)
(* which tre departs from it.                                              *)
(*                                                                         *)
(* A program is a sequence of declarations and uses of names, among them   *)
(* those that set a variable.  Each is in a block, a path of the blocks    *)
(* around it: those of functions, of ifs and their branches, of loops and  *)
(* their bodies, of switches and clauses.  The order is that of            *)
(* compilation where no block is around both: a default clause is before   *)
(* the others, what is done after each iteration behind the body.          *)
(***************************************************************************)
EXTENDS Integers, Sequences, FiniteSetsExt, SequencesExt

Event(kind, node, name, path) == <<[kind |-> kind, node |-> node, name |-> name, path |-> path]>>
Declares(node, names, path) ==
  FlattenSeq([k \in DOMAIN names |-> Event("declares", node, names[k], path)])

\* The events in a statement or an expression of a node.
RECURSIVE EventsIn(_, _, _)

\* The events of a sequence of statements are those of one node.
EventsOf(block, path) == EventsIn(<<"nil">>, <<"Block", block>>, path)

Uses(node, vals, path) == FlattenSeq([k \in DOMAIN vals |-> EventsIn(node, vals[k], path)])

\* A node v with a block has one of its own, in which there may be parts.
BlockOf(v, path)   == Append(path, <<v[1], v>>)
PartOf(v, path, k) == Append(BlockOf(v, path), <<"part", k>>)

ConditionEvents(v, path) ==
  Uses(v[2], <<v[2]>>, BlockOf(v, path))
    \o EventsOf(v[3], PartOf(v, path, 1)) \o EventsOf(v[4], PartOf(v, path, 2))

ForEvents(v, path) ==
  IF v[3] = <<"nil">>
  THEN EventsOf(<<v[2]>>, BlockOf(v, path)) \o EventsOf(v[5], PartOf(v, path, 1))
  ELSE EventsOf(<<v[2]>>, BlockOf(v, path)) \o Uses(v[3], <<v[3]>>, BlockOf(v, path))
         \o EventsOf(v[5], PartOf(v, path, 1)) \o EventsOf(<<v[4]>>, BlockOf(v, path))

SwitchEvents(v, path) ==
  Uses(v, <<v[2]>>, BlockOf(v, path)) \o EventsOf(v[4], PartOf(v, path, 0))
    \o FlattenSeq([k \in DOMAIN v[3] |-> EventsOf(v[3][k][3], PartOf(v, path, k))])

FuncEvents(v, path) ==
  Declares(v, [k \in DOMAIN v[4] |-> v[4][k][2]], BlockOf(v, path))
    \o EventsOf(v[6], BlockOf(v, path))

EventsIn(node, v, path) ==
  CASE v[1] = "Block"  -> FlattenSeq([k \in DOMAIN v[2] |-> EventsIn(v[2][k], v[2][k], path)])
    [] v[1] = "Alloc"  -> Uses(v, v[3], path) \o Declares(v, v[2], path)
    [] v[1] = "Assign" ->
         FlattenSeq([k \in DOMAIN v[2] |-> Event("sets", v, v[2][k][3], path)])
           \o Uses(v, v[3], path)
    [] v[1] = "Condition"  -> ConditionEvents(v, path)
    [] v[1] = "For"        -> ForEvents(v, path)
    [] v[1] = "Switch"     -> SwitchEvents(v, path)
    [] v[1] = "DefineFunc" -> FuncEvents(v, path)
    [] v[1] = "Name"       -> Event("uses", node, v[3], path)
    [] v[1] = "Operator"   -> Uses(node, <<v[3], v[4]>>, path)
    [] v[1] = "Range"      -> Uses(node, <<v[2]>>, path)
    [] v[1] = "InitializeSlice" -> Uses(node, v[3], path)
    [] OTHER -> <<>>

\* of a file: constants and variables of the package are in no block
Events(file) == EventsOf(file, <<>>)

-----------------------------------------------------------------------------
UsesIn(events) == {u \in DOMAIN events : events[u].kind \in {"uses", "sets"}}

DeclaredBefore(events, u) ==
  {d \in 1..u - 1 : events[d].kind = "declares" /\ events[d].name = events[u].name}

\* A use stands for the last declaration before it in one of the blocks around it, the
\* innermost first; a block has one declaration of a name.
Visible(events, u)  == {d \in DeclaredBefore(events, u) : IsPrefix(events[d].path, events[u].path)}
DeclarationOf(events, u) == Max(Visible(events, u))

IsConst(node) == node[1] = "Alloc" /\ node[5]

\* Go compiles it: names stand for something, nothing sets a constant, and no block declares
\* a name twice.
Compiles(events) ==
  /\ \A u \in UsesIn(events) :
       /\ Visible(events, u) # {}
       /\ events[u].kind = "sets" => ~IsConst(events[DeclarationOf(events, u)].node)
  /\ \A d, e \in DOMAIN events :
       (/\ d < e /\ events[d].kind = "declares" /\ events[e].kind = "declares"
        /\ events[d].name = events[e].name) => events[d].path # events[e].path

GoBindings(events) ==
  {<<events[u].node, events[u].name, events[DeclarationOf(events, u)].node>> : u \in UsesIn(events)}

\* The blocks that end a declaration in tre: functions, and ifs with both their branches.
Ends(kind) == kind \in {"Condition", "DefineFunc"}
ScopeOf(path) == SubSeq(path, 1, Max({0} \cup {k \in DOMAIN path : Ends(path[k][1])}))

\* A declaration that Go has forgotten, or does not know yet, hides the right one: it is in
\* a loop, a switch or the other branch of an if, and was compiled in between.
Hidden(events, u) ==
  \E d \in DeclaredBefore(events, u) :
    d > DeclarationOf(events, u) /\ IsPrefix(ScopeOf(events[d].path), events[u].path)

Functions(path) == SelectSeq(path, LAMBDA block : block[1] = "DefineFunc")

\* A function literal uses a variable of the function around it.
Captured(events, u) ==
  LET d == events[DeclarationOf(events, u)] IN
  /\ Functions(d.path) # <<>> /\ ~IsConst(d.node)
  /\ Functions(d.path) # Functions(events[u].path)

\* A parameter, or a result of the function, is declared with the function.
SetsParameter(events, u) ==
  events[u].kind = "sets" /\ events[DeclarationOf(events, u)].node[1] = "DefineFunc"

NamesPlain(events) ==
  \A u \in UsesIn(events) :
    ~Hidden(events, u) /\ ~Captured(events, u) /\ ~SetsParameter(events, u)
=============================================================================
