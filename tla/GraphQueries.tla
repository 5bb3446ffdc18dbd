---------------------------- MODULE GraphQueries ----------------------------
(***************************************************************************)
(* What the engine answers from the stored graph without changing it: the  *)
(* scoped queries of src/src/topology_query.cpp, the bounded traversal of  *)
(* src/src/traversal.cpp and the comparison of snapshots of                *)
(* src/src/diff.cpp.                                                       *)
(*                                                                         *)
(* An answer the code sorts before it returns is a set here.  The order in *)
(* which traverse meets the edges of a node is kept: it decides which      *)
(* nodes a truncated traversal returns.  Filters on layer, metadata and    *)
(* supported_by, which the graph does not carry, are left out.             *)
(***************************************************************************)
EXTENDS GraphIndex

-----------------------------------------------------------------------------
\* Scopes and filters.

\* SnapshotScope: everything, or one domain.
WholeTopology == [whole_topology |-> TRUE]
DomainScope(d) == [whole_topology |-> FALSE, domain |-> d]

\* node_in_scope, edge_in_scope.
NodeInScope(node, scope) == scope.whole_topology \/ node.domain = scope.domain
EdgeInScope(edge, scope) == scope.whole_topology \/ scope.domain \in DomainsOf(edge)

\* sorted_nodes, sorted_edges.
NodesInScope(N, scope) ==
  LET scoped == {n \in DOMAIN N : NodeInScope(N[n], scope)} IN [n \in scoped |-> N[n]]

EdgesInScope(E, scope) ==
  LET scoped == {e \in DOMAIN E : EdgeInScope(E[e], scope)} IN [e \in scoped |-> E[e]]

\* An EdgeFilter names, field by field, the values it lets pass; a field the
\* caller does not set lets all of them pass.
AnyEdge ==
  [relations |-> Relations, domains |-> Domains, lifecycles |-> Lifecycles,
   publishers |-> Publishers, include_non_current |-> TRUE]

MatchesFilter(edge, filter) ==
  /\ edge.relation \in filter.relations
  /\ DomainsOf(edge) \cap filter.domains # {}
  /\ edge.lifecycle \in filter.lifecycles
  /\ edge.provenance.publisher \in filter.publishers
  /\ filter.include_non_current \/ edge.lifecycle = "CURRENT"

Matching(G, bucket, filter) == {e \in bucket : MatchesFilter(G.edges[e], filter)}

-----------------------------------------------------------------------------
\* Queries by index.

EdgesForNode(G, n, filter) == Matching(G, Bucket(G.index.incident, n), filter)

Neighbors(G, n, filter) ==
  (UNION {{G.edges[e].from, G.edges[e].to} : e \in EdgesForNode(G, n, filter)}) \ {n}

EdgesByRelation(G, r, filter) == Matching(G, Bucket(G.index.byRelation, r), filter)

EdgesFromOwnDomain(G, d, filter) ==
  {e \in Matching(G, G.index.domainEdges[d], filter) : G.edges[e].domain = d}

\* edges_in_domain; without a domain of its own the filter asks for d.
EdgesInDomain(G, d, filter) == Matching(G, G.index.domainEdges[d], filter)

\* edges_from_publisher scans the edges instead.
EdgesFromPublisher(G, p, filter) ==
  {e \in DOMAIN G.edges : G.edges[e].provenance.publisher = p /\ MatchesFilter(G.edges[e], filter)}

DomainMembers(G, d) == G.index.domainNodes[d]

\* node_for_entity, as the set of its at most one answer.
NodeForEntity(G, x) ==
  IF x \in DOMAIN G.index.byEntity THEN {G.index.byEntity[x]} \cap DOMAIN G.nodes ELSE {}

\* entity_members: the other ends of the anchor's edges of one relation,
\* whatever their lifecycle.
EntityMembers(G, x, r) ==
  UNION {Neighbors(G, n, [AnyEdge EXCEPT !.relations = {r}]) : n \in NodeForEntity(G, x)}

-----------------------------------------------------------------------------
\* Traversal.

TraversalKinds ==
  {"NEIGHBORS", "ANCESTORS", "DESCENDANTS", "CONNECTED_COMPONENT",
   "PHYSICAL_ATTACHMENT_CHAIN", "LOGICAL_DEPENDENCY_CHAIN"}

\* The members of "MEMBER_OF" and its like point up, "CONTAINS" points down.
Upward == {"MEMBER_OF", "HOSTED_BY", "FABRIC_MEMBERSHIP"}

RelationsOf(kind) ==
  CASE kind \in {"NEIGHBORS", "CONNECTED_COMPONENT"} -> Relations
    [] kind \in {"ANCESTORS", "DESCENDANTS"} -> {"CONTAINS"} \cup Upward
    [] kind = "PHYSICAL_ATTACHMENT_CHAIN" ->
         {"ATTACHED_TO", "PRESENTS_ENDPOINT", "CONNECTED_TO", "UPLINK_TO", "DOWNLINK_TO",
          "HOSTED_BY"}
    [] kind = "LOGICAL_DEPENDENCY_CHAIN" -> {"BACKED_BY", "TUNNELED_OVER"}

\* next_node: the nodes an edge leads to from `current`, none or one.
NextNode(kind, edge, current) ==
  LET ends == {edge.from, edge.to} \ {current}
      forward == IF edge.from = current THEN ends ELSE {}
      backward == IF edge.to = current THEN ends ELSE {}
  IN  CASE kind = "ANCESTORS" -> IF edge.relation \in Upward THEN forward ELSE backward
        [] kind = "DESCENDANTS" -> IF edge.relation \in Upward THEN backward ELSE forward
        [] kind = "LOGICAL_DEPENDENCY_CHAIN" -> forward
        [] OTHER -> forward \cup backward

\* The edges a traversal of this request may take.
IsTraversable(edge, request) ==
  /\ IsLive(edge)
  /\ edge.lifecycle = "CURRENT" \/ request.include_non_current
  /\ edge.relation \in request.relations \cap RelationsOf(request.kind)

InOrder(edgeIds) ==
  CHOOSE order \in [1..Cardinality(edgeIds) -> edgeIds] :
    \A i, j \in 1..Cardinality(edgeIds) : i < j => order[i] < order[j]

\* One edge of the node at the head of the queue.  A node met for the first
\* time is marked visited before the limit on steps is looked at.
MeetEdge(loop, i, search) ==
  LET e == loop.order[i]
      edge == loop.graph.edges[e]
      depth == loop.frame.depth + 1
      found == IF IsTraversable(edge, loop.request)
               THEN NextNode(loop.request.kind, edge, loop.frame.node) \ search.visited ELSE {}
  IN  IF search.truncated \/ found = {} THEN search
      ELSE LET next == CHOOSE n \in found : TRUE
               seen == [search EXCEPT !.visited = @ \cup {next}]
           IN  IF Cardinality(search.steps) >= loop.request.max_visited
               THEN [seen EXCEPT !.truncated = TRUE]
               ELSE [seen EXCEPT
                       !.steps = @ \cup {[node |-> next, depth |-> depth, via |-> e]},
                       !.queue = Append(@, [node |-> next, depth |-> depth])]

Meetings == INSTANCE Iteration WITH Step <- MeetEdge

\* Its edges, in order.
MeetEdges(G, request, frame, search) ==
  LET incident == Bucket(G.index.incident, frame.node)
  IN  Meetings!After([graph |-> G, request |-> request, frame |-> frame,
                      order |-> InOrder(incident)],
                     search, Cardinality(incident))

ExpandToo(G, request, search) ==
  LET frame == Head(search.queue)
      rest == [search EXCEPT !.queue = Tail(@)]
  IN  IF frame.depth > request.max_depth THEN rest
      ELSE MeetEdges(G, request, frame, rest)

\* The head of the queue leaves it; below the depth limit its edges are met.
Expand(G, request, search) ==
  LET frame == Head(search.queue)
      rest == [search EXCEPT !.queue = Tail(@)]
  IN  IF frame.depth >= request.max_depth THEN rest
      ELSE MeetEdges(G, request, frame, rest)

Round(call, k, search) ==
  IF search.queue = <<>> \/ search.truncated THEN search
  ELSE Expand(call.graph, call.request, search)

Rounds == INSTANCE Iteration WITH Step <- Round

\* traverse, from a node of the graph.  Every node enters the queue at most
\* once, so it empties within as many rounds as there are nodes.
Traverse(G, request) ==
  Rounds!After([graph |-> G, request |-> request],
               [queue |-> <<[node |-> request.origin, depth |-> 0]>>,
                visited |-> {request.origin}, steps |-> {}, truncated |-> FALSE],
               Cardinality(DOMAIN G.nodes))

\* The reference: what one more edge that the request may take leads to, the
\* nodes within k such edges of the origin, and those at each distance.
Onward(G, request, S) ==
  UNION {UNION {NextNode(request.kind, G.edges[e], n) :
                  e \in {f \in DOMAIN G.edges : IsTraversable(G.edges[f], request)}} : n \in S}

Spread(call, k, S) == S \cup Onward(call.graph, call.request, S)

Spreads == INSTANCE Iteration WITH Step <- Spread

Within(G, request, k) ==
  Spreads!After([graph |-> G, request |-> request], {request.origin}, k)

Levels(G, request) ==
  [k \in 0..request.max_depth |->
     IF k = 0 THEN {request.origin}
     ELSE Within(G, request, k) \ Within(G, request, k - 1)]

\* Each node within max_depth is found once, at its distance and by an edge
\* from a node one step nearer.  Cut short at max_visited, traverse returns the
\* nearest nodes, and says so only if it left one out.
IsBreadthFirst(G, request) ==
  LET answer == Traverse(G, request)
      level == Levels(G, request)
      reached == {step.node : step \in answer.steps}
      wanted == UNION {level[k] : k \in 1..request.max_depth}
  IN  /\ Cardinality(reached) = Cardinality(answer.steps)
      /\ \A step \in answer.steps :
           /\ step.depth \in 1..request.max_depth
           /\ step.node \in level[step.depth]
           /\ IsTraversable(G.edges[step.via], request)
           /\ \E nearer \in level[step.depth - 1] :
                step.node \in NextNode(request.kind, G.edges[step.via], nearer)
      /\ ~answer.truncated => reached = wanted
      /\ answer.truncated =>
           /\ Cardinality(reached) = request.max_visited
           /\ \A step \in answer.steps : \A k \in 1..(step.depth - 1) :
                level[k] \subseteq reached
           /\ wanted \ reached # {}

-----------------------------------------------------------------------------
\* Diffs.

Entry(kind, key) == [kind |-> kind, key |-> key]

EntriesIf(condition, kind, key) == IF condition THEN {Entry(kind, key)} ELSE {}

NodeEntries(n, a, b) ==
  EntriesIf(a.entity_generation # b.entity_generation, "NODE_GENERATION_CHANGED", n)
  \cup EntriesIf(a.domain # b.domain, "SCOPE_CHANGED", n)
  \cup EntriesIf(a.lifecycle # b.lifecycle, "CURRENTNESS_CHANGED", n)

EdgeEntries(e, a, b) ==
  LET relabelled == a.lifecycle # b.lifecycle
      superseded == relabelled /\ b.lifecycle = "SUPERSEDED"
      content(edge) == <<edge.revision, edge.evidence_generation, edge.attachment>>
  IN  EntriesIf(superseded, "EDGE_SUPERSEDED", e)
      \cup EntriesIf(~superseded /\ <<a.from, a.to>> # <<b.from, b.to>>, "ATTACHMENT_MOVED", e)
      \cup EntriesIf(a.domain # b.domain, "SCOPE_CHANGED", e)
      \cup EntriesIf(~superseded /\ relabelled, "CURRENTNESS_CHANGED", e)
      \cup EntriesIf(~superseded /\ content(a) # content(b), "RELATIONSHIP_CHANGED", e)

\* Elements only the later snapshot has.
AddedEntries(before, after) ==
  {Entry("NODE_ADDED", n) : n \in DOMAIN after.nodes \ DOMAIN before.nodes}
  \cup {Entry("EDGE_ADDED", e) : e \in DOMAIN after.edges \ DOMAIN before.edges}

DiffOfShared(before, after) ==
  (UNION {NodeEntries(n, before.nodes[n], after.nodes[n]) :
            n \in DOMAIN before.nodes \cap DOMAIN after.nodes})
  \cup (UNION {EdgeEntries(e, before.edges[e], after.edges[e]) :
                 e \in DOMAIN before.edges \cap DOMAIN after.edges})

DiffForgettingRemovals(before, after) ==
  DiffOfShared(before, after) \cup AddedEntries(before, after)

\* diff: removed, changed and added elements.
Diff(before, after) ==
  {Entry("NODE_REMOVED", n) : n \in DOMAIN before.nodes \ DOMAIN after.nodes}
  \cup {Entry("EDGE_REMOVED", e) : e \in DOMAIN before.edges \ DOMAIN after.edges}
  \cup DiffOfShared(before, after)
  \cup AddedEntries(before, after)

=============================================================================
