------------------------------ MODULE TraceTree ------------------------------
(***************************************************************************)
(* What the tracing module promises about the spans of one client request, *)
(* whatever nginx does with it: the tracer sees a tree of request nodes,   *)
(* each with at most one location node open at a time, which is closed     *)
(* before or with its request node. A node that is closed, or lost with a  *)
(* context that was deleted, stays so.                                     *)
(*                                                                         *)
(* Nothing of contexts, pointers, ctx slots or cleanup lists is visible    *)
(* here; TracingContext implements this specification with them.           *)
(***************************************************************************)
EXTENDS Integers, Sequences

CONSTANT Requests

VARIABLE nodes      \* [kind, request, parent, state], in the order they start

Node(kind, r, parent, state) ==
    [kind |-> kind, request |-> r, parent |-> parent, state |-> state]

Open(kind, r) ==
    {i \in DOMAIN nodes : /\ nodes[i].kind = kind
                          /\ nodes[i].request = r
                          /\ nodes[i].state = "open"}

NothingOpen == \A i \in DOMAIN nodes : nodes[i].state # "open"

\* nodes with the open ones of S in another state.
Mark(S, state) ==
    [i \in DOMAIN nodes |-> IF i \in S /\ nodes[i].state = "open"
                            THEN [nodes[i] EXCEPT !.state = state]
                            ELSE nodes[i]]

\* A request node and, where locations are traced, the first location node.
Started(r, parent, state) ==
    LET n == Len(nodes) + 1
        request == Node("request", r, parent, state)
    IN  {<<request>>, <<request, Node("location", r, n, state)>>}

\* The root of the tree under way: the newest node without a parent, if it is
\* not lost. It is the node of whichever request was the first to be traced.
Roots == {i \in DOMAIN nodes : nodes[i].parent = 0}
Root(p) == /\ p \in Roots
           /\ \A q \in Roots : q <= p
           /\ nodes[p].state # "lost"

\* Where a request node may hang: below the root of the tree under way, or as
\* the root of a new tree when nothing of an earlier one is open.
Parent(p) ==
    \/ p = 0 /\ NothingOpen
    \/ Root(p)

-----------------------------------------------------------------------------
Init == nodes = <<>>

\* A request enters its first traced block.
Begin(r) ==
    /\ Open("request", r) = {}
    /\ \E p \in 0 .. Len(nodes) :
         /\ Parent(p)
         /\ \E new \in Started(r, p, "open") : nodes' = nodes \o new

\* It enters the next one: the location node it has open, if any, is closed
\* and another one may be opened.
Enter(r) ==
    \E root \in Open("request", r) :
      LET left == Mark(Open("location", r), "closed")
      IN  nodes' \in {left, Append(left, Node("location", r, root, "open"))}

\* It ends: everything it has open is closed.
End(r) ==
    /\ Open("request", r) # {}
    /\ nodes' = Mark(Open("location", r) \cup Open("request", r), "closed")

\* A request that could not start a node takes the tree down: the location
\* node it was leaving is closed and everything else open is lost.
BreakDown(r) ==
    LET left == Open("location", r)
        lost(i) == nodes[i].state = "open" /\ i \notin left
        fallen == [i \in DOMAIN nodes |->
                     IF lost(i) THEN [nodes[i] EXCEPT !.state = "lost"]
                                ELSE Mark(left, "closed")[i]]
    IN  \/ nodes' = fallen
        \/ \E p \in DOMAIN nodes :
             /\ Root(p)
             /\ nodes' = Append(fallen, Node("request", r, p, "lost"))

\* A first node that could not be kept is lost at once.
FalseStart(r) ==
    /\ NothingOpen
    /\ \E new \in Started(r, 0, "lost") : nodes' = nodes \o new

\* The end of the client request: what is still open is lost.
Teardown == nodes' = Mark(DOMAIN nodes, "lost")

Next ==
    \/ \E r \in Requests : Begin(r) \/ Enter(r) \/ End(r) \/ BreakDown(r) \/ FalseStart(r)
    \/ Teardown

Spec == Init /\ [][Next]_nodes
=============================================================================
