----------------------------- MODULE GraphIndex -----------------------------
(***************************************************************************)
(* The stored graph of src/src/graph_state.cpp: the two maps, the          *)
(* secondary indexes kept beside them edit by edit, and the undo log a     *)
(* mutation keeps (StateTxn).                                              *)
(*                                                                         *)
(* A graph G is a record of the maps `nodes` and `edges`, `generation` and *)
(* the `index`.  The index holds two maps that name one element            *)
(* (node_by_entity, edge_by_key), seven maps of buckets, and the members   *)
(* of each domain.  Every domain is declared, so its entry is never        *)
(* erased.  edge_by_relationship is left out because relationship ids are  *)
(* derived from keys, edge_by_layer because the layer is the relation's.   *)
(*                                                                         *)
(* Records carry here, as `revision`, the generation of their own that     *)
(* GraphState leaves out: every update of an element advances it.          *)
(***************************************************************************)
EXTENDS GraphState, FiniteSets, SequencesExt

\* Edge ids are numbers so that they have the order the code sorts them by.
ASSUME EdgeIdsAreOrdered == EdgeIds \subseteq Nat

StoredNodes ==
  [entity_id : Entities, entity_generation : Nat, tier : Tiers,
   domain : Domains, lifecycle : Lifecycles, revision : Nat \ {0}]

StoredEdges ==
  [relation : Relations, from : NodeIds, to : NodeIds,
   domain : Domains, secondary_domain : Domains,
   from_entity_generation : Nat, to_entity_generation : Nat,
   evidence_generation : Nat, lifecycle : Lifecycles,
   attachment : Attachments \cup {NoAttachment},
   superseded_by : EdgeIds \cup {NoEdge}, provenance : Provenances,
   revision : Nat \ {0}]

KeyOf(edge) == <<edge.relation, edge.from, edge.to, edge.domain>>

\* The domains an edge belongs to: its own, and across domains the other one.
DomainsOf(edge) == {edge.domain, edge.secondary_domain}

Revised(element) == [element EXCEPT !.revision = @ + 1]

-----------------------------------------------------------------------------
\* Buckets; one that empties is erased, so that no stale key stays behind.

Bucket(buckets, k) == IF k \in DOMAIN buckets THEN buckets[k] ELSE {}

IndexInto(buckets, k, e) == Put(buckets, k, Bucket(buckets, k) \cup {e})

UnindexFrom(buckets, k, e) ==
  IF Bucket(buckets, k) \subseteq {e} THEN Without(buckets, {k})
  ELSE Put(buckets, k, buckets[k] \ {e})

\* A slot is given up only if it still names the element that leaves.
FreeSlot(slots, k, id) ==
  IF k \in DOMAIN slots /\ slots[k] = id THEN Without(slots, {k}) ELSE slots

EmptyIndex ==
  [byEntity |-> EmptyMap, byKey |-> EmptyMap,
   incident |-> EmptyMap, outgoing |-> EmptyMap, incoming |-> EmptyMap,
   byRelation |-> EmptyMap, byLifecycle |-> EmptyMap,
   byPublisher |-> EmptyMap, byAttachment |-> EmptyMap,
   domainNodes |-> [d \in Domains |-> {}], domainEdges |-> [d \in Domains |-> {}]]

IndexNode(X, n, node) ==
  [X EXCEPT !.byEntity = Put(@, node.entity_id, n),
            !.domainNodes[node.domain] = @ \cup {n}]

UnindexNode(X, n, node) ==
  [X EXCEPT !.byEntity = FreeSlot(@, node.entity_id, n),
            !.domainNodes[node.domain] = @ \ {n}]

IndexEdge(X, e, edge) ==
  [X EXCEPT !.byKey = Put(@, KeyOf(edge), e),
            !.incident = IndexInto(IndexInto(@, edge.from, e), edge.to, e),
            !.outgoing = IndexInto(@, edge.from, e),
            !.incoming = IndexInto(@, edge.to, e),
            !.domainEdges = [d \in Domains |->
                               @[d] \cup IF d \in DomainsOf(edge) THEN {e} ELSE {}],
            !.byRelation = IndexInto(@, edge.relation, e),
            !.byLifecycle = IndexInto(@, edge.lifecycle, e),
            !.byPublisher = IndexInto(@, edge.provenance.publisher, e),
            !.byAttachment = IF edge.attachment = NoAttachment THEN @
                             ELSE IndexInto(@, edge.attachment, e)]

UnindexEdge(X, e, edge) ==
  [X EXCEPT !.byKey = FreeSlot(@, KeyOf(edge), e),
            !.incident = UnindexFrom(UnindexFrom(@, edge.from, e), edge.to, e),
            !.outgoing = UnindexFrom(@, edge.from, e),
            !.incoming = UnindexFrom(@, edge.to, e),
            !.domainEdges = [d \in Domains |->
                               @[d] \ IF d \in DomainsOf(edge) THEN {e} ELSE {}],
            !.byRelation = UnindexFrom(@, edge.relation, e),
            !.byLifecycle = UnindexFrom(@, edge.lifecycle, e),
            !.byPublisher = UnindexFrom(@, edge.provenance.publisher, e),
            !.byAttachment = IF edge.attachment = NoAttachment THEN @
                             ELSE UnindexFrom(@, edge.attachment, e)]

-----------------------------------------------------------------------------
\* The edits.  One that does not apply returns false and changes nothing.

InsertNode(G, n, node) ==
  IF n \in DOMAIN G.nodes THEN G
  ELSE [G EXCEPT !.index = IndexNode(@, n, node), !.nodes = Put(@, n, node)]

EraseNode(G, n) ==
  IF n \notin DOMAIN G.nodes THEN G
  ELSE [G EXCEPT !.nodes = Without(@, {n}), !.index = UnindexNode(@, n, G.nodes[n])]

UpdateNode(G, n, node) ==
  IF n \notin DOMAIN G.nodes THEN G
  ELSE [G EXCEPT !.index = IndexNode(UnindexNode(@, n, G.nodes[n]), n, node),
                 !.nodes[n] = node]

InsertEdge(G, e, edge) ==
  IF e \in DOMAIN G.edges THEN G
  ELSE [G EXCEPT !.index = IndexEdge(@, e, edge), !.edges = Put(@, e, edge)]

EraseEdge(G, e) ==
  IF e \notin DOMAIN G.edges THEN G
  ELSE [G EXCEPT !.edges = Without(@, {e}), !.index = UnindexEdge(@, e, G.edges[e])]

\* The new record is filed before the old one is taken out of the index.
UpdateEdgeLate(G, e, edge) ==
  IF e \notin DOMAIN G.edges THEN G
  ELSE [G EXCEPT !.index = UnindexEdge(IndexEdge(@, e, edge), e, G.edges[e]),
                 !.edges[e] = edge]

\* update_edge and mutate_edge: the old record leaves the index first.
UpdateEdge(G, e, edge) ==
  IF e \notin DOMAIN G.edges THEN G
  ELSE [G EXCEPT !.index = IndexEdge(UnindexEdge(@, e, G.edges[e]), e, edge),
                 !.edges[e] = edge]

\* rebuild_indexes: the index of two maps, from nothing.  A loop goes through
\* a map in the order the map has.
Loop(map) == [map |-> map, order |-> SetToSeq(DOMAIN map)]

FileNode(loop, i, X) == IndexNode(X, loop.order[i], loop.map[loop.order[i]])
FileEdge(loop, i, X) == IndexEdge(X, loop.order[i], loop.map[loop.order[i]])

Nodes == INSTANCE Iteration WITH Step <- FileNode
Edges == INSTANCE Iteration WITH Step <- FileEdge

RebuildIndexes(N, E) ==
  Edges!After(Loop(E), Nodes!After(Loop(N), EmptyIndex, Cardinality(DOMAIN N)),
              Cardinality(DOMAIN E))

-----------------------------------------------------------------------------
\* Edits as data, and the undo log.

Change(kind, id, value) == [kind |-> kind, id |-> id, value |-> value]

Edit(G, change) ==
  CASE change.kind = "InsertNode" -> InsertNode(G, change.id, change.value)
    [] change.kind = "EraseNode" -> EraseNode(G, change.id)
    [] change.kind = "UpdateNode" -> UpdateNode(G, change.id, change.value)
    [] change.kind = "InsertEdge" -> InsertEdge(G, change.id, change.value)
    [] change.kind = "EraseEdge" -> EraseEdge(G, change.id)
    [] change.kind = "UpdateEdge" -> UpdateEdge(G, change.id, change.value)
    [] change.kind = "SetGeneration" -> [G EXCEPT !.generation = change.value]

\* StateTxn's note_*: what undoes a change made to G, taken before it is made.
UndoOf(G, change) ==
  CASE change.kind = "InsertNode" -> Change("EraseNode", change.id, NoEdge)
    [] change.kind = "EraseNode" -> Change("InsertNode", change.id, G.nodes[change.id])
    [] change.kind = "UpdateNode" -> Change("UpdateNode", change.id, G.nodes[change.id])
    [] change.kind = "InsertEdge" -> Change("EraseEdge", change.id, NoEdge)
    [] change.kind = "EraseEdge" -> Change("InsertEdge", change.id, G.edges[change.id])
    [] change.kind = "UpdateEdge" -> Change("UpdateEdge", change.id, G.edges[change.id])
    [] change.kind = "SetGeneration" -> Change("SetGeneration", NoEdge, G.generation)

=============================================================================
