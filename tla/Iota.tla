-------------------------------- MODULE Iota --------------------------------
(***************************************************************************)
(* Iota: the pass const_iota, and parser.Walk, which takes it through the  *)
(* tree.  A visitor is `Outside' (iotaVisitor), or the count of an         *)
(* iotaAllocGroupVisitor; it is one object for all that is below a group,  *)
(* so the count after one child is the count before the next.              *)
(***************************************************************************)
EXTENDS Integers, Sequences, SequencesExt, TLC

Outside == -1

\* What Walk visits below a node, in order: positions in the tuple, and whether a node, a
\* list of nodes or a list of named nodes stands there.  Nothing is visited below the
\* other kinds, TypeCast and StructLoadElement among them.
WalkOrder ==
  ("Call"             :> << <<3, "list">>, <<2, "node">> >>) @@
  ("Operator"         :> << <<3, "node">>, <<4, "node">> >>) @@
  ("Condition"        :> << <<2, "node">>, <<3, "list">>, <<4, "list">> >>) @@
  ("DefineFunc"       :> << <<6, "list">> >>) @@
  ("Return"           :> << <<2, "list">> >>) @@
  ("Alloc"            :> << <<3, "list">> >>) @@
  ("AllocGroup"       :> << <<2, "list">> >>) @@
  ("LoadArrayElement" :> << <<2, "node">>, <<3, "node">> >>) @@
  ("SliceArray"       :> << <<3, "node">>, <<4, "node">>, <<2, "node">> >>) @@
  ("For"              :> << <<2, "node">>, <<3, "node">>, <<4, "node">>, <<5, "list">> >>) @@
  ("Switch"           :> << <<2, "node">>, <<3, "list">>, <<4, "list">> >>) @@
  ("SwitchCase"       :> << <<2, "list">>, <<3, "list">> >>) @@
  ("Assign"           :> << <<2, "list">>, <<3, "list">> >>) @@
  ("InitializeSlice"  :> << <<3, "list">> >>) @@
  ("InitializeArray"  :> << <<4, "list">> >>) @@
  ("InitializeStruct" :> << <<3, "fields">> >>) @@
  [kind \in {"GetReference", "Dereference", "Negate", "Sub", "DeVariadicSlice",
             "TypeCastInterface", "Decrement", "Increment", "Group", "Range"}
     |-> << <<2, "node">> >>]

NumberNode(n) == <<"Constant", "NUMBER", ToString(n)>>

\* A wrong variant: an entry is counted only if it has no expression.
VisitInGroupCounting(count, node) ==
  CASE node[1] = "Alloc" /\ node[3] = <<>> ->
         [node |-> [node EXCEPT ![3] = <<NumberNode(count)>>], count |-> count + 1, deeper |-> FALSE]
    [] node[1] = "Name" /\ node[3] = "iota" ->
         [node |-> NumberNode(count - 1), count |-> count, deeper |-> TRUE]
    [] OTHER -> [node |-> node, count |-> count, deeper |-> TRUE]

\* iotaAllocGroupVisitor.Visit: the node, the count, and whether Walk goes on below it
VisitInGroup(count, node) ==
  CASE node[1] = "Alloc" /\ node[3] = <<>> ->
         [node |-> [node EXCEPT ![3] = <<NumberNode(count)>>], count |-> count + 1, deeper |-> FALSE]
    [] node[1] = "Alloc" /\ node[3] # <<>> ->
         [node |-> node, count |-> count + 1, deeper |-> TRUE]
    [] node[1] = "Name" /\ node[3] = "iota" ->
         [node |-> NumberNode(count - 1), count |-> count, deeper |-> TRUE]
    [] OTHER -> [node |-> node, count |-> count, deeper |-> TRUE]

\* Visit of either visitor.  Outside of groups, a group gets a visitor of its own.
Visit(visitor, node) ==
  IF visitor # Outside THEN VisitInGroup(visitor, node)
  ELSE [node |-> node, count |-> IF node[1] = "AllocGroup" THEN 0 ELSE Outside, deeper |-> TRUE]

RECURSIVE Walk(_, _), WalkList(_, _, _)

\* the node that takes the place of `node', and the visitor's count after it
Walk(visitor, node) ==
  LET visit == Visit(visitor, node)
      below == IF visit.deeper /\ visit.node[1] \in DOMAIN WalkOrder
               THEN WalkOrder[visit.node[1]] ELSE <<>>
      step(acc, part) ==
        LET at == part[1] old == acc.node[at] IN
        CASE part[2] = "node" ->
               LET w == Walk(acc.count, old) IN [node |-> [acc.node EXCEPT ![at] = w.node],
                                                 count |-> w.count]
          [] part[2] = "list" ->
               LET w == WalkList(acc.count, old, <<>>) IN [node |-> [acc.node EXCEPT ![at] = w.node],
                                                           count |-> w.count]
          [] part[2] = "fields" ->
               LET w == WalkList(acc.count, [k \in DOMAIN old |-> old[k][2]], <<>>)
               IN  [node |-> [acc.node EXCEPT ![at] = [k \in DOMAIN old |-> <<old[k][1], w.node[k]>>]],
                    count |-> w.count]
      all == FoldLeft(step, [node |-> visit.node, count |-> visit.count], below)
  IN  [node |-> all.node, count |-> IF visitor = Outside THEN Outside ELSE all.count]

WalkList(visitor, nodes, done) ==
  IF nodes = <<>> THEN [node |-> done, count |-> visitor]
  ELSE LET w == Walk(visitor, Head(nodes)) IN WalkList(w.count, Tail(nodes), Append(done, w.node))

\* const_iota.Iota, on the instructions of a file
IotaPass(instructions) == WalkList(Outside, instructions, <<>>).node
=============================================================================
