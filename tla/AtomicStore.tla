----------------------------- MODULE AtomicStore -----------------------------
(***************************************************************************)
(* What the topology store promises its callers: mutations, fences, epoch  *)
(* changes and snapshots that each happen at once, on a graph without      *)
(* indexes, locks, undo logs or copies under way.  ConcurrentStore is      *)
(* shown to implement it.                                                  *)
(*                                                                         *)
(* A mutation is stated by its effect on the two maps: which elements      *)
(* change and what they become.  It commits with the next generation, or   *)
(* leaves no trace.  Authority and the registry are TopologyEngine's part: *)
(* requests here are ones they let pass, and a refused request is no step. *)
(***************************************************************************)
EXTENDS GraphQueries

CONSTANTS
  NodeRequests,    \* AddNodeRequest values, with the registry's generation
  LinkRequests,    \* AddRelationshipRequest values, with their publisher
  Scopes,          \* SnapshotScope values asked for
  SnapshotHistory, \* options.snapshot_history
  WriteMayFail,    \* may a write of the durable image fail?
  StartGraphs,     \* graphs the store may hold when the callers arrive
  MaxGeneration,   \* bound on the topology generations explored
  MaxEpoch,        \* bound on the coordinator epochs explored
  MaxSnapshots     \* bound on the snapshot ordinals explored

VARIABLES
  nodes, edges, generation,    \* the graph as callers may see it
  coordinator_epoch,
  snapshots, snapshot_counter  \* recorded snapshots, oldest first; their number

graph == <<nodes, edges, generation>>

AtomicInit ==
  /\ \E G \in StartGraphs :
       nodes = G.nodes /\ edges = G.edges /\ generation = G.generation
  /\ coordinator_epoch = 1
  /\ snapshots = <<>>
  /\ snapshot_counter = 0

-----------------------------------------------------------------------------
\* Elements as requests make them.

NewNode(req) ==
  [entity_id |-> req.entity_id, entity_generation |-> req.entity_generation,
   tier |-> req.tier, domain |-> req.domain, lifecycle |-> "CURRENT", revision |-> 1]

RefreshedNode(node, req) ==
  Revised([node EXCEPT !.entity_generation = req.entity_generation,
                       !.tier = req.tier, !.lifecycle = "CURRENT"])

\* The registry's generations only grow.
MayRefresh(node, req) ==
  /\ node.entity_id = req.entity_id
  /\ req.entity_generation >= node.entity_generation
  /\ <<node.entity_generation, node.tier, node.lifecycle>> #
       <<req.entity_generation, req.tier, "CURRENT">>

NewEdge(N, req, epoch) ==
  [relation |-> req.relation, from |-> req.from, to |-> req.to, domain |-> req.domain,
   secondary_domain |-> SecondaryDomain(N[req.from].domain, N[req.to].domain, req.domain),
   from_entity_generation |-> N[req.from].entity_generation,
   to_entity_generation |-> N[req.to].entity_generation,
   evidence_generation |-> req.evidence_generation, lifecycle |-> "CURRENT",
   attachment |-> req.attachment, superseded_by |-> NoEdge,
   provenance |-> [publisher |-> req.publisher, worker_boot |-> req.worker_boot,
                   coordinator_epoch |-> epoch],
   revision |-> 1]

ReassertedEdge(N, edge, req) ==
  Revised([edge EXCEPT !.evidence_generation = req.evidence_generation,
                       !.attachment = req.attachment, !.lifecycle = "CURRENT",
                       !.from_entity_generation = N[req.from].entity_generation,
                       !.to_entity_generation = N[req.to].entity_generation])

\* A live edge asserted again with something new to say.
MayReassert(N, edge, req) ==
  /\ IsLive(edge)
  /\ ~/\ edge.evidence_generation = req.evidence_generation
      /\ edge.lifecycle = "CURRENT"
      /\ edge.attachment = req.attachment
      /\ EndpointsMatch(N, edge)

RetiredEdge(edge) == Revised([edge EXCEPT !.lifecycle = "RETIRED"])

DemotedEdge(edge) == Revised([edge EXCEPT !.lifecycle = "REVALIDATION_REQUIRED"])

\* An edge that awaits revalidation under generation g of its endpoint n.
AwaitsAt(edge, n, g) ==
  /\ edge.lifecycle = "REVALIDATION_REQUIRED"
  /\ g = IF edge.from = n THEN edge.from_entity_generation ELSE edge.to_entity_generation

ReboundEdge(edge, n, g) ==
  DemotedEdge([edge EXCEPT !.from_entity_generation = IF edge.from = n THEN g ELSE @,
                           !.to_entity_generation = IF edge.to = n THEN g ELSE @])

\* The checks of add_relationship that do not depend on the edge's identity.
Linkable(N, req) ==
  /\ {req.from, req.to} \subseteq DOMAIN N
  /\ ResolvesDomain(N[req.from].domain, N[req.to].domain, req.relation, req.domain)

-----------------------------------------------------------------------------
\* The operations.

Commit(N, E) ==
  /\ generation < MaxGeneration
  /\ nodes' = N
  /\ edges' = E
  /\ generation' = generation + 1

AddNode(req) ==
  /\ \/ /\ req.id \notin DOMAIN nodes
        /\ NodesOfEntity(nodes, req.entity_id) = {}
        /\ Commit(Put(nodes, req.id, NewNode(req)), edges)
     \/ /\ req.id \in DOMAIN nodes
        /\ MayRefresh(nodes[req.id], req)
        /\ LET rebound == {e \in Incident(edges, req.id) :
                             /\ IsLive(edges[e])
                             /\ ~AwaitsAt(edges[e], req.id, req.entity_generation)
                             /\ nodes[req.id].entity_generation # req.entity_generation}
           IN  Commit(Put(nodes, req.id, RefreshedNode(nodes[req.id], req)),
                      [e \in DOMAIN edges |->
                         IF e \in rebound THEN ReboundEdge(edges[e], req.id, req.entity_generation)
                         ELSE edges[e]])
  /\ UNCHANGED <<coordinator_epoch, snapshots, snapshot_counter>>

RemoveNode(n) ==
  /\ n \in DOMAIN nodes
  /\ Commit(Without(nodes, {n}), Without(edges, Incident(edges, n)))
  /\ UNCHANGED <<coordinator_epoch, snapshots, snapshot_counter>>

AddRelationship(req) ==
  /\ Linkable(nodes, req)
  /\ \/ /\ req.id \notin DOMAIN edges
        /\ \A e \in DOMAIN edges : ~SameKey(edges[e], req)
        /\ ValidCandidate(nodes, edges, req, TRUE)
        /\ Commit(nodes, Put(edges, req.id, NewEdge(nodes, req, coordinator_epoch)))
     \/ /\ req.id \in DOMAIN edges
        /\ SameKey(edges[req.id], req)
        /\ MayReassert(nodes, edges[req.id], req)
        /\ ValidCandidate(nodes, edges, req, FALSE)
        /\ Commit(nodes, Put(edges, req.id, ReassertedEdge(nodes, edges[req.id], req)))
  /\ UNCHANGED <<coordinator_epoch, snapshots, snapshot_counter>>

RetireRelationship(e) ==
  /\ e \in DOMAIN edges
  /\ IsNotRetired(edges[e])
  /\ Commit(nodes, Put(edges, e, RetiredEdge(edges[e])))
  /\ UNCHANGED <<coordinator_epoch, snapshots, snapshot_counter>>

\* All current edges of the set D are demoted together, if there are any.
DemoteAll(D) ==
  /\ D # {}
  /\ Commit(nodes, [e \in DOMAIN edges |-> IF e \in D THEN DemotedEdge(edges[e]) ELSE edges[e]])

CurrentIn(D) == {e \in D : edges[e].lifecycle = "CURRENT"}

FencePublisher(p) ==
  /\ DemoteAll(CurrentIn({e \in DOMAIN edges : edges[e].provenance.publisher = p}))
  /\ UNCHANGED <<coordinator_epoch, snapshots, snapshot_counter>>

\* The epoch advances even if the demoted edges cannot be written; they are
\* then current again.
AdvanceCoordinatorEpoch ==
  /\ coordinator_epoch < MaxEpoch
  /\ coordinator_epoch' = coordinator_epoch + 1
  /\ \/ DemoteAll(CurrentIn(DOMAIN edges))
     \/ CurrentIn(DOMAIN edges) = {} /\ UNCHANGED graph
     \/ WriteMayFail /\ UNCHANGED graph
  /\ UNCHANGED <<snapshots, snapshot_counter>>

\* What a snapshot holds.
SnapshotOf(N, E, g, epoch, scope, ordinal) ==
  [snapshot_generation |-> ordinal, topology_generation |-> g, coordinator_epoch |-> epoch,
   scope |-> scope, nodes |-> NodesInScope(N, scope), edges |-> EdgesInScope(E, scope)]

\* History is a queue: the oldest snapshots leave it.
Remembered(history, snapshot) ==
  LET grown == Append(history, snapshot)
      excess == IF Len(grown) > SnapshotHistory THEN Len(grown) - SnapshotHistory ELSE 0
  IN  SubSeq(grown, excess + 1, Len(grown))

\* A snapshot is of the graph at the moment it is recorded.
TakeSnapshot(scope) ==
  /\ snapshot_counter < MaxSnapshots
  /\ snapshot_counter' = snapshot_counter + 1
  /\ snapshots' = Remembered(snapshots,
                             SnapshotOf(nodes, edges, generation, coordinator_epoch, scope,
                                        snapshot_counter'))
  /\ UNCHANGED <<graph, coordinator_epoch>>

AtomicNext ==
  \/ \E req \in NodeRequests : AddNode(req)
  \/ \E n \in NodeIds : RemoveNode(n)
  \/ \E req \in LinkRequests : AddRelationship(req)
  \/ \E e \in EdgeIds : RetireRelationship(e)
  \/ \E p \in Publishers : FencePublisher(p)
  \/ AdvanceCoordinatorEpoch
  \/ \E scope \in Scopes : TakeSnapshot(scope)

AtomicSpec ==
  AtomicInit /\ [][AtomicNext]_<<graph, coordinator_epoch, snapshots, snapshot_counter>>

=============================================================================
