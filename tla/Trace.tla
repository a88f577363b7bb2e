------------------------------- MODULE Trace -------------------------------
(***************************************************************************)
(* trace.py: the bounded breadth-first walk of build_graph.  It starts at  *)
(* one address, follows flows of value outward or backward, and reports    *)
(* the caps it ran into: hubs, fan-out, timeouts, the number of nodes.     *)
(*                                                                         *)
(* A flow is a pair of addresses; its value only orders the rows of a      *)
(* query, so rows come in any order.  An address has few outputs, many     *)
(* (more than --max-utxos) or those of a hub.                              *)
(***************************************************************************)
EXTENDS Subsequences, Integers, FiniteSetsExt, Functions

CONSTANTS Addr, Origin,
          FlowSets,    \* what the tables may hold
          Sizes,       \* how many outputs the addresses may have
          Owners,      \* the clusters _origin_cluster may find
          Limits       \* the --depth, --fanout and --max-nodes tried

ASSUME TraceAssumption ==
  /\ Origin \in Addr /\ IsFiniteSet(Addr)
  /\ FlowSets \subseteq SUBSET (Addr \X Addr)
  /\ Sizes \subseteq [Addr -> {"few", "many", "hub"}]
  /\ Owners \subseteq {C \in SUBSET Addr : Origin \in C}
  /\ Limits \subseteq [depth : Nat \ {0}, fanout : Nat \ {0}, max_nodes : Nat \ {0}]

VARIABLES
  walk,     \* "off", the pass under way ("out", "in"), or "done"
  args,     \* the limits and --direction
  flow, size, owner,   \* the tables, and the cluster of the origin
  level,    \* nodes: the address to its signed level
  mark,     \* nodes: <<address, cap it ran into>>
  edges,    \* edges: flows reported, in order
  q, seen   \* the queue of <<address, depth>> and the addresses taken from it

tables == <<flow, size, owner>>
graph == <<level, mark, edges>>
traceVars == <<walk, args, tables, graph, q, seen>>

Nodes == DOMAIN level
First(dir) == IF dir = "in" THEN "in" ELSE "out"
Sign == IF walk = "in" THEN -1 ELSE 1

TraceInit ==
  /\ walk = "off" /\ flow = {} /\ owner = {} /\ mark = {} /\ seen = {}
  /\ args = <<>> /\ size = <<>> /\ level = <<>> /\ edges = <<>> /\ q = <<>>

\* The command starts: the origin is the only node and is to be expanded.
TraceStart ==
  /\ walk = "off"
  /\ flow' \in FlowSets /\ size' \in Sizes /\ owner' \in Owners
  /\ \E l \in Limits, dir \in {"out", "in", "both"} :
       /\ args' = [limits |-> l, direction |-> dir]
       /\ walk' = First(dir)
  /\ level' = [a \in {Origin} |-> 0]
  /\ q' = <<<<Origin, 0>>>>
  /\ UNCHANGED <<mark, edges, seen>>

-----------------------------------------------------------------------------
\* Addresses with a flow from a, or to a: the counterparties of its rows.
Peers(a, fl) == {b \in Addr : IF walk = "out" THEN <<a, b>> \in fl ELSE <<b, a>> \in fl}

\* The rows of a query on a: `fanout` counterparties of the outputs looked at,
\* which are all outputs only if there are no more than --max-utxos.
Visible(a) == IF size[a] = "few" THEN {Peers(a, flow)} ELSE SUBSET Peers(a, flow)
QueryRows(a) ==
  UNION {LET k == Min({args.limits.fanout, Cardinality(V)})
         IN  {r \in [1..k -> V] : IsInjective(r)} : V \in Visible(a)}

\* MUTANT: the test of the fan-out is one off.
FullBeyond(rows) == Len(rows) > args.limits.fanout
Full(rows) == Len(rows) >= args.limits.fanout

\* MUTANT: an address queued twice is expanded twice.
PassedOnlyDeep(a, d) == d >= args.limits.depth
Passed(a, d) == a \in seen \/ d >= args.limits.depth

\* The node cap is reached by the first i rows; the walk stops there.
Capped(N) == Cardinality(N) >= args.limits.max_nodes
Found(rows, i) == Nodes \cup {rows[j] : j \in 1..i}

Taken(rows) ==
  Min({Len(rows)} \cup {i \in 1..Len(rows) : Capped(Found(rows, i))})

\* The counterparties to expand later; members of the cluster are not.
Further(rows, d) ==
  Elements([i \in 1..Len(rows) |-> <<rows[i], d + 1>>],
           {i \in 1..Len(rows) : d + 1 < args.limits.depth /\ rows[i] \notin owner})

\* MUTANT: depth first.
QueueStacked(rest, more) == more \o rest
Queue(rest, more) == rest \o more

Edge(a, b) == IF walk = "out" THEN [from |-> a, to |-> b, dir |-> walk]
                              ELSE [from |-> b, to |-> a, dir |-> walk]

-----------------------------------------------------------------------------
Pop == walk \in {"out", "in"} /\ q # <<>>

TraceSkip ==
  /\ Pop /\ Passed(q[1][1], q[1][2])
  /\ q' = Tail(q)
  /\ UNCHANGED <<walk, args, tables, graph, seen>>

\* A hub is not expanded, nor an address whose query runs into the timeout.
TraceLeave ==
  /\ Pop /\ ~Passed(q[1][1], q[1][2])
  /\ \E a \in {q[1][1]} :
       /\ \/ size[a] = "hub" /\ a # Origin /\ mark' = mark \cup {<<a, "is_hub">>}
          \/ mark' = mark \cup {<<a, "timed_out">>}
       /\ seen' = seen \cup {a}
  /\ q' = Tail(q)
  /\ UNCHANGED <<walk, args, tables, level, edges>>

TraceExpand ==
  /\ Pop /\ ~Passed(q[1][1], q[1][2])
  /\ \E a \in {q[1][1]}, d \in {q[1][2]} : \E rows \in QueryRows(a) :
       LET n == Taken(rows)
           N == Found(rows, n)
       IN  /\ size[a] = "hub" => a = Origin
           /\ seen' = seen \cup {a}
           /\ mark' = IF Full(rows) THEN mark \cup {<<a, "truncated">>} ELSE mark
           /\ level' = [b \in N |-> IF b \in Nodes THEN level[b] ELSE Sign * (d + 1)]
           /\ edges' = edges \o [i \in 1..n |-> Edge(a, rows[i])]
           /\ q' = IF rows # <<>> /\ Capped(N) THEN <<>>
                   ELSE Queue(Tail(q), Further(rows, d))
  /\ UNCHANGED <<walk, args, tables>>

\* A pass ends; with --direction both the second one starts afresh.
TraceEndPass ==
  /\ walk \in {"out", "in"} /\ q = <<>>
  /\ IF walk = "out" /\ args.direction = "both"
     THEN walk' = "in" /\ q' = <<<<Origin, 0>>>> /\ seen' = {}
     ELSE walk' = "done" /\ UNCHANGED <<q, seen>>
  /\ UNCHANGED <<args, tables, graph>>

TraceNext == TraceStart \/ TraceSkip \/ TraceLeave \/ TraceExpand \/ TraceEndPass

TraceSpec == TraceInit /\ [][TraceNext]_traceVars

-----------------------------------------------------------------------------
Passes == IF args.direction = "both" THEN {"out", "in"} ELSE {args.direction}

\* The addresses within k steps of the origin, each a pair of R.
Ball(R, depth) ==
  LET B[k \in 0..depth] ==
        IF k = 0 THEN {Origin}
        ELSE B[k - 1] \cup {b \in Addr : \E a \in B[k - 1] : <<a, b>> \in R}
  IN  B

\* The flows fl as steps of a walk in direction dir, and those in the graph.
Steps(dir, fl) ==
  {p \in Addr \X Addr : (IF dir = "out" THEN p ELSE <<p[2], p[1]>>) \in fl}
Reported(dir) ==
  Steps(dir, {<<e.from, e.to>> : e \in {e \in Range(edges) : e.dir = dir}})

\* A node's level is its distance from the origin over the flows the graph
\* shows, in the direction of its side: the report calls it hops (trace.py:295).
LevelsShortest ==
  walk # "off" =>
    \A a \in Nodes \ {Origin} :
      LET dir == IF level[a] > 0 THEN "out" ELSE "in"
          near == Ball(Reported(dir), args.limits.depth)
          hops == IF level[a] > 0 THEN level[a] ELSE -level[a]
      IN  a \in near[hops] /\ a \notin near[hops - 1]

\* No flow is reported twice in one direction: values are added up over the
\* edges, so a second expansion of an address would double them (trace.py:249).
FlowsOnce == IsInjective(edges)

\* Everything within the depth that can be reached without passing through
\* the cluster of the origin is in the graph.
Complete ==
  \A dir \in Passes :
    LET open == {p \in Steps(dir, flow) : p[1] = Origin \/ p[1] \notin owner}
        near == Ball(open, args.limits.depth)
    IN  \A p \in open : p[1] \in near[args.limits.depth - 1] => p \in Reported(dir)

Silent == walk = "done" /\ mark = {} /\ ~Capped(Nodes)

\* "All caps are reported so nothing is silently dropped" (trace.py:14): a graph
\* with no cap on it is complete, as long as no address in it has more outputs
\* than --max-utxos.
CutsAreReported ==
  Silent /\ (\A a \in Nodes : size[a] = "few") => Complete

\* The same without the exception, as the docstring has it.
NothingSilentlyDropped == Silent => Complete
=============================================================================
