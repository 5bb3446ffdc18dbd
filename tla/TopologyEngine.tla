--------------------------- MODULE TopologyEngine ---------------------------
(***************************************************************************)
(* The authoritative engine: src/src/topology_engine.cpp,                  *)
(* src/src/topology_mutations.cpp and the recovery half of                 *)
(* src/src/persistence.cpp.                                                *)
(*                                                                         *)
(* Every mutation holds authority_mutex and state_mutex from its first     *)
(* check to its last write, so each is one action.  A request that the     *)
(* code rejects or answers Idempotent changes nothing (only statistics)    *)
(* and is no step.  An expected_generation that does not match is such a   *)
(* rejection, so requests without one have every effect a request can      *)
(* have.                                                                   *)
(*                                                                         *)
(* The durable image is rewritten by each committed mutation (a temporary  *)
(* file, then rename: write_file_atomic), so it is old or new, never in    *)
(* between; a write may also fail, and the mutation's undo log is applied. *)
(***************************************************************************)
EXTENDS EntityDirectory

CONSTANTS
  NodeRequests,       \* AddNodeRequest values callers may send
  LinkRequests,       \* AddRelationshipRequest values callers may send
  GrantChoices,       \* grant tables a publisher may be registered with
  EvidenceLifecycles, \* lifecycles asked for by update_relationship_evidence
  Evidence,           \* evidence generations carried by evidence updates
  Replacements,       \* <<node, generation>> asked of replace_endpoint_generation
  Successors,         \* <<node, entity>> asked of it with rebind_identity
  WriteMayFail,       \* may a write of the durable image fail?
  MaxGeneration,      \* bound on the topology generations explored
  MaxEpoch            \* bound on the coordinator epochs explored

VARIABLES
  nodes, edges,       \* GraphState::nodes, GraphState::edges
  generation,         \* GraphState::generation
  publishers,         \* Impl::publishers: publisher id -> registration
  fenced_boots,       \* Impl::fenced_boots
  coordinator_epoch,  \* Impl::coordinator_epoch
  image               \* the file at persistence_path

graph == <<nodes, edges, generation>>
authority == <<publishers, fenced_boots, coordinator_epoch>>
vars == <<nodes, edges, generation, publishers, fenced_boots, coordinator_epoch, image, registry>>

\* GrantMode: None < Read < IncrementalWrite < AuthoritativeWrite.
GrantModes == 0..3
IncrementalWrite == 2
AuthoritativeWrite == 3

Grants == [Domains -> GrantModes]

Registrations ==
  [worker_boot : Boots, coordinator_epoch : Nat, grants : Grants, fenced : BOOLEAN]

\* What a caller presents: AuthorityContext.
Contexts ==
  [publisher : Publishers, worker_boot : Boots, coordinator_epoch : 1..MaxEpoch]

ASSUME EngineConstants ==
  /\ NodeRequests \subseteq
       [node_id : NodeIds, entity_id : Entities, node_class : NodeClasses,
        domain : Domains, tier : Tiers]
  /\ LinkRequests \subseteq
       [id : EdgeIds, relation : Relations, from : NodeIds, to : NodeIds,
        domain : Domains, attachment : Attachments \cup {NoAttachment},
        exclusive : BOOLEAN, evidence_generation : Nat]
  /\ GrantChoices \subseteq Grants
  /\ EvidenceLifecycles \subseteq Lifecycles \ Terminal
  /\ Evidence \subseteq Nat
  /\ Replacements \subseteq NodeIds \X Nat
  /\ Successors \subseteq NodeIds \X Entities
  /\ WriteMayFail \in BOOLEAN
  /\ MaxGeneration \in Nat
  /\ MaxEpoch \in Nat \ {0}

-----------------------------------------------------------------------------
\* The durable image: encode_state_payload, written by persist_locked.

ImageOf(N, E, g, fenced, epoch) ==
  [saved |-> TRUE, nodes |-> N, edges |-> E, generation |-> g,
   fenced_boots |-> fenced, coordinator_epoch |-> epoch]

\* No file at persistence_path yet.
AbsentImage == [ImageOf(EmptyMap, EmptyMap, 0, {}, 0) EXCEPT !.saved = FALSE]

GraphTypeOK ==
  /\ IsNodeMap(nodes)
  /\ IsEdgeMap(edges)
  /\ generation \in Nat

AuthorityTypeOK ==
  /\ DOMAIN publishers \subseteq Publishers
  /\ publishers \in [DOMAIN publishers -> Registrations]
  /\ fenced_boots \subseteq Boots
  /\ coordinator_epoch \in Nat \ {0}

ImageTypeOK ==
  /\ image.saved \in BOOLEAN
  /\ IsNodeMap(image.nodes)
  /\ IsEdgeMap(image.edges)
  /\ image.generation \in Nat
  /\ image.fenced_boots \subseteq Boots
  /\ image.coordinator_epoch \in Nat

\* The graph, the registrations and the image hold what their C++ types hold:
\* in particular a loaded or undone graph never names an id outside its maps.
TypeOK ==
  /\ DirectoryTypeOK
  /\ GraphTypeOK
  /\ AuthorityTypeOK
  /\ ImageTypeOK

InitialEpochUnset == 0

\* TopologyEngine::Impl::Impl with options.initial_coordinator_epoch = 1.
InitialEpoch == 1

FreshEngine ==
  /\ nodes' = EmptyMap
  /\ edges' = EmptyMap
  /\ generation' = 0
  /\ publishers' = EmptyMap
  /\ fenced_boots' = {}
  /\ coordinator_epoch' = InitialEpoch

Init ==
  /\ DirectoryInit
  /\ nodes = EmptyMap
  /\ edges = EmptyMap
  /\ generation = 0
  /\ publishers = EmptyMap
  /\ fenced_boots = {}
  /\ coordinator_epoch = InitialEpoch
  /\ image = AbsentImage

FinalizeWithoutUndo(N, E, undone) ==
  /\ generation < MaxGeneration
  /\ nodes' = N
  /\ edges' = E
  /\ \/ /\ generation' = generation + 1
        /\ image' = ImageOf(N, E, generation + 1, fenced_boots, coordinator_epoch)
     \/ /\ WriteMayFail
        /\ UNCHANGED <<generation, image>>

\* finalize_mutation (and its copies in add_node and remove_node): the
\* generation advances and the image is written.  If the write fails the undo
\* log puts the graph back; undone is the node map it restores.
FinalizeMutation(N, E, undone) ==
  \/ /\ generation < MaxGeneration
     /\ nodes' = N
     /\ edges' = E
     /\ generation' = generation + 1
     /\ image' = ImageOf(N, E, generation + 1, fenced_boots, coordinator_epoch)
  \/ /\ WriteMayFail
     /\ nodes' = undone
     /\ UNCHANGED <<edges, generation, image>>

-----------------------------------------------------------------------------
\* Authority.

HasRegistration(ctx, domain, required) ==
  /\ ctx.coordinator_epoch = coordinator_epoch
  /\ ctx.publisher \in DOMAIN publishers
  /\ LET state == publishers[ctx.publisher]
     IN  /\ state.worker_boot = ctx.worker_boot
         /\ state.coordinator_epoch = coordinator_epoch
         /\ ~state.fenced
         /\ state.grants[domain] >= required

\* check_authority_locked, after the checks for empty identifiers.
HasAuthority(ctx, domain, required) ==
  /\ ctx.coordinator_epoch = coordinator_epoch
  /\ ctx.worker_boot \notin fenced_boots
  /\ ctx.publisher \in DOMAIN publishers
  /\ LET state == publishers[ctx.publisher]
     IN  /\ state.worker_boot = ctx.worker_boot
         /\ state.coordinator_epoch = coordinator_epoch
         /\ ~state.fenced
         /\ state.grants[domain] >= required

\* register_publisher.  A new incarnation of a publisher fences the boot it
\* replaces; the image is not written.
RegisterPublisher(ctx, grants) ==
  LET state == [worker_boot |-> ctx.worker_boot, grants |-> grants,
                coordinator_epoch |-> ctx.coordinator_epoch, fenced |-> FALSE]
      replaced == {b \in Boots \ {ctx.worker_boot} :
                     /\ ctx.publisher \in DOMAIN publishers
                     /\ publishers[ctx.publisher].worker_boot = b}
  IN  /\ ctx.worker_boot \notin fenced_boots
      /\ ctx.coordinator_epoch = coordinator_epoch
      /\ ctx.publisher \in DOMAIN publishers => publishers[ctx.publisher] # state
      /\ publishers' = Put(publishers, ctx.publisher, state)
      /\ fenced_boots' = fenced_boots \cup replaced
      /\ UNCHANGED <<graph, coordinator_epoch, image, registry>>

DemoteInMemory(D, fenced, epoch) ==
  /\ UNCHANGED <<nodes, registry, image>>
  /\ \/ /\ D = {}
        /\ UNCHANGED <<edges, generation>>
     \/ /\ D # {}
        /\ generation < MaxGeneration
        /\ edges' = Demote(edges, D)
        /\ generation' = generation + 1

\* The tail shared by fence_publisher, fence_boot and
\* advance_coordinator_epoch: the edges in D lose currentness.  Only if there
\* are any does the generation advance and the image get written; if that write
\* fails the edges become current again, and what the caller already did to the
\* authority state stays.
DemoteAndPersist(D, fenced, epoch) ==
  /\ UNCHANGED <<nodes, registry>>
  /\ \/ /\ D = {}
        /\ UNCHANGED <<edges, generation, image>>
     \/ /\ D # {}
        /\ generation < MaxGeneration
        /\ edges' = Demote(edges, D)
        /\ generation' = generation + 1
        /\ image' = ImageOf(nodes, edges', generation + 1, fenced, epoch)
     \/ /\ D # {}
        /\ WriteMayFail
        /\ UNCHANGED <<edges, generation, image>>

CurrentEdges(E) == {e \in DOMAIN E : E[e].lifecycle = "CURRENT"}

\* fence_publisher: the boot is fenced whatever the registration says; the
\* registration and the publisher's edges only if it is the registered boot.
FencePublisher(p, b) ==
  LET matches == p \in DOMAIN publishers /\ publishers[p].worker_boot = b
      asserted == {e \in CurrentEdges(edges) : edges[e].provenance.publisher = p}
  IN  /\ fenced_boots' = fenced_boots \cup {b}
      /\ publishers' = IF matches THEN [publishers EXCEPT ![p].fenced = TRUE] ELSE publishers
      /\ DemoteAndPersist(IF matches THEN asserted ELSE {}, fenced_boots', coordinator_epoch)
      /\ UNCHANGED coordinator_epoch

\* fence_boot: every registration of the boot and every edge it asserted.
FenceBoot(b) ==
  /\ fenced_boots' = fenced_boots \cup {b}
  /\ publishers' = [p \in DOMAIN publishers |->
                      IF publishers[p].worker_boot = b
                      THEN [publishers[p] EXCEPT !.fenced = TRUE] ELSE publishers[p]]
  /\ DemoteAndPersist({e \in CurrentEdges(edges) : edges[e].provenance.worker_boot = b},
                      fenced_boots', coordinator_epoch)
  /\ UNCHANGED coordinator_epoch

\* advance_coordinator_epoch: registrations end, published edges are demoted.
AdvanceCoordinatorEpoch ==
  /\ coordinator_epoch < MaxEpoch
  /\ coordinator_epoch' = coordinator_epoch + 1
  /\ publishers' = EmptyMap
  /\ DemoteAndPersist(CurrentEdges(edges), fenced_boots, coordinator_epoch')
  /\ UNCHANGED fenced_boots

-----------------------------------------------------------------------------
\* Nodes.

IsLiveEntity(x) ==
  /\ x \in DOMAIN registry
  /\ ~registry[x].retired
  /\ ~registry[x].superseded

\* add_node: a new node for an entity no node is bound to, or a refresh of the
\* node from the registry, which leaves its class as it was.  A refresh that
\* meets a new entity generation rebinds and demotes the node's edges.
AddNode(ctx, req) ==
  LET n == req.node_id
      record == registry[req.entity_id]
      node == [entity_id |-> req.entity_id, entity_generation |-> record.generation,
               node_class |-> req.node_class, tier |-> req.tier, domain |-> req.domain,
               lifecycle |-> "CURRENT"]
      refreshed == [nodes[n] EXCEPT !.entity_generation = record.generation,
                                    !.tier = req.tier, !.lifecycle = "CURRENT"]
      rebound == IF nodes[n].entity_generation = record.generation THEN edges
                 ELSE RebindIncident(edges, n, record.generation)
  IN  /\ HasAuthority(ctx, req.domain, IncrementalWrite)
      /\ IsLiveEntity(req.entity_id)
      /\ \/ /\ n \notin DOMAIN nodes
            /\ NodesOfEntity(nodes, req.entity_id) = {}
            /\ FinalizeMutation(Put(nodes, n, node), edges, nodes)
         \/ /\ n \in DOMAIN nodes
            /\ nodes[n].entity_id = req.entity_id
            /\ nodes[n] # refreshed
            /\ FinalizeMutation(Put(nodes, n, refreshed), rebound, nodes)
      /\ UNCHANGED <<authority, registry>>

RemoveNodeKeepingHistory(ctx, n, cascade) ==
  LET live == {e \in Incident(edges, n) : IsLive(edges[e])}
  IN  /\ n \in DOMAIN nodes
      /\ HasAuthority(ctx, nodes[n].domain, AuthoritativeWrite)
      /\ cascade \/ live = {}
      /\ FinalizeMutation(Without(nodes, {n}), Without(edges, live), nodes)
      /\ UNCHANGED <<authority, registry>>

\* remove_node: with cascade_relationships every incident edge goes too,
\* terminal ones included; without it an incident edge is a rejection.
RemoveNode(ctx, n, cascade) ==
  /\ n \in DOMAIN nodes
  /\ HasAuthority(ctx, nodes[n].domain, AuthoritativeWrite)
  /\ cascade \/ Incident(edges, n) = {}
  /\ FinalizeMutation(Without(nodes, {n}), Without(edges, Incident(edges, n)), nodes)
  /\ UNCHANGED <<authority, registry>>

\* The node carries a new identity binding; its live edges are rebound and
\* demoted.  The undo log notes the node after the new binding was put in it
\* (note_node_updated(updated)), so a failed write leaves the new binding.
ReplaceBinding(n, updated) ==
  LET rebound == RebindIncident(edges, n, updated.entity_generation)
      renewed == Put(nodes, n, updated)
  IN  FinalizeMutation(renewed, rebound, renewed)

\* replace_endpoint_generation without rebind_identity.  A generation that is
\* not newer is answered Idempotent; zero is not compared.
ReplaceEntityGeneration(ctx, n, g) ==
  /\ n \in DOMAIN nodes
  /\ HasAuthority(ctx, nodes[n].domain, IncrementalWrite)
  /\ g = 0 \/ g > nodes[n].entity_generation
  /\ ReplaceBinding(n, [nodes[n] EXCEPT !.entity_generation = g])
  /\ UNCHANGED <<authority, registry>>

RebindToAnyIdentity(ctx, n, successor) ==
  /\ n \in DOMAIN nodes
  /\ HasAuthority(ctx, nodes[n].domain, IncrementalWrite)
  /\ IsLiveEntity(successor)
  /\ ReplaceBinding(n, [nodes[n] EXCEPT !.entity_id = successor,
                                        !.entity_generation = registry[successor].generation])
  /\ UNCHANGED <<authority, registry>>

\* replace_endpoint_generation with rebind_identity: to a live entity that no
\* other node is bound to.
RebindIdentity(ctx, n, successor) ==
  /\ n \in DOMAIN nodes
  /\ HasAuthority(ctx, nodes[n].domain, IncrementalWrite)
  /\ IsLiveEntity(successor)
  /\ NodesOfEntity(nodes, successor) \subseteq {n}
  /\ ReplaceBinding(n, [nodes[n] EXCEPT !.entity_id = successor,
                                        !.entity_generation = registry[successor].generation])
  /\ UNCHANGED <<authority, registry>>

-----------------------------------------------------------------------------
\* Relationships.

\* Nothing that add_relationship compares is different.
IsUnchanged(edge, req) ==
  /\ edge.evidence_generation = req.evidence_generation
  /\ edge.lifecycle = "CURRENT"
  /\ edge.attachment = req.attachment
  /\ EndpointsMatch(nodes, edge)

\* The edge of a new relationship.
NewEdge(ctx, req) ==
  [relation |-> req.relation, from |-> req.from, to |-> req.to, domain |-> req.domain,
   secondary_domain |->
     SecondaryDomain(nodes[req.from].domain, nodes[req.to].domain, req.domain),
   from_entity_generation |-> nodes[req.from].entity_generation,
   to_entity_generation |-> nodes[req.to].entity_generation,
   evidence_generation |-> req.evidence_generation, lifecycle |-> "CURRENT",
   attachment |-> req.attachment, superseded_by |-> NoEdge, provenance |-> ctx]

\* An existing relationship asserted again: current under the generations of
\* today.  It keeps the provenance of whoever asserted it first.
ReassertedEdge(edge, req) ==
  [edge EXCEPT !.evidence_generation = req.evidence_generation,
               !.attachment = req.attachment,
               !.lifecycle = "CURRENT",
               !.from_entity_generation = nodes[req.from].entity_generation,
               !.to_entity_generation = nodes[req.to].entity_generation]

\* add_relationship (and attach_endpoint, which calls it).
AddRelationship(ctx, req) ==
  LET byKey == {e \in DOMAIN edges : SameKey(edges[e], req)}
      isNew == byKey = {}
  IN  /\ {req.from, req.to} \subseteq DOMAIN nodes
      /\ ResolvesDomain(nodes[req.from].domain, nodes[req.to].domain, req.relation, req.domain)
      /\ \A d \in {nodes[req.from].domain, nodes[req.to].domain} :
           HasAuthority(ctx, d, IncrementalWrite)
      /\ byKey \subseteq {req.id}
      /\ req.id \in DOMAIN edges => SameKey(edges[req.id], req)
      /\ ~isNew => IsLive(edges[req.id]) /\ ~IsUnchanged(edges[req.id], req)
      /\ ValidCandidate(nodes, edges, req, isNew)
      /\ FinalizeMutation(nodes,
                          Put(edges, req.id, IF isNew THEN NewEdge(ctx, req)
                                             ELSE ReassertedEdge(edges[req.id], req)),
                          nodes)
      /\ UNCHANGED <<authority, registry>>

\* The registry still stands behind the generation the node carries.
IsUpToDate(n) == IsCurrentRecord(registry, nodes[n].entity_id, nodes[n].entity_generation)

EvidenceBinds(edge) ==
  /\ {edge.from, edge.to} \subseteq DOMAIN nodes
  /\ IsUpToDate(edge.from)
  /\ IsUpToDate(edge.to)
  /\ EndpointsMatch(nodes, edge)

\* apply_evidence_change: update_relationship_evidence, and
\* revalidate_relationship when the lifecycle is CURRENT.
ChangeEvidence(ctx, e, evidence, lifecycle) ==
  LET changed == [edges[e] EXCEPT
                    !.evidence_generation = evidence,
                    !.lifecycle = lifecycle,
                    !.provenance = IF lifecycle = "CURRENT" THEN ctx ELSE @]
  IN  /\ e \in DOMAIN edges
      /\ HasAuthority(ctx, edges[e].domain, IncrementalWrite)
      /\ IsLive(edges[e])
      /\ lifecycle = "CURRENT" => EvidenceBinds(edges[e])
      /\ ~(edges[e].evidence_generation = evidence /\ edges[e].lifecycle = lifecycle)
      /\ FinalizeMutation(nodes, Put(edges, e, changed), nodes)
      /\ UNCHANGED <<authority, registry>>

SupersedeByAny(ctx, e, replacement) ==
  /\ e \in DOMAIN edges
  /\ HasAuthority(ctx, edges[e].domain, IncrementalWrite)
  /\ ~(edges[e].lifecycle = "SUPERSEDED" /\ edges[e].superseded_by = replacement)
  /\ edges[e].lifecycle # "RETIRED"
  /\ replacement = NoEdge \/ replacement \in DOMAIN edges \ {e}
  /\ FinalizeMutation(nodes,
                      Put(edges, e, [edges[e] EXCEPT !.lifecycle = "SUPERSEDED",
                                                     !.superseded_by = replacement]),
                      nodes)
  /\ UNCHANGED <<authority, registry>>

\* supersede_relationship: a replacement, if one is named, is another current
\* edge.  A superseded edge may be pointed at a different replacement.
SupersedeRelationship(ctx, e, replacement) ==
  /\ e \in DOMAIN edges
  /\ HasAuthority(ctx, edges[e].domain, IncrementalWrite)
  /\ ~(edges[e].lifecycle = "SUPERSEDED" /\ edges[e].superseded_by = replacement)
  /\ edges[e].lifecycle # "RETIRED"
  /\ replacement = NoEdge \/ replacement \in CurrentEdges(edges) \ {e}
  /\ FinalizeMutation(nodes,
                      Put(edges, e, [edges[e] EXCEPT !.lifecycle = "SUPERSEDED",
                                                     !.superseded_by = replacement]),
                      nodes)
  /\ UNCHANGED <<authority, registry>>

\* retire_relationship: superseded edges may be retired too.
RetireRelationship(ctx, e) ==
  /\ e \in DOMAIN edges
  /\ HasAuthority(ctx, edges[e].domain, IncrementalWrite)
  /\ edges[e].lifecycle # "RETIRED"
  /\ FinalizeMutation(nodes, Put(edges, e, [edges[e] EXCEPT !.lifecycle = "RETIRED"]), nodes)
  /\ UNCHANGED <<authority, registry>>

-----------------------------------------------------------------------------
\* Persistence and recovery.

\* TopologyEngine::save
Save ==
  /\ image' = ImageOf(nodes, edges, generation, fenced_boots, coordinator_epoch)
  /\ UNCHANGED <<graph, authority, registry>>

ImageIsSound ==
  /\ image.saved
  /\ ValidGraph(image.nodes, image.edges, registry)

RestartInStoredEpoch ==
  /\ ImageIsSound
  /\ nodes' = image.nodes
  /\ edges' = Demote(image.edges, {e \in DOMAIN image.edges : IsLive(image.edges[e])})
  /\ generation' = image.generation
  /\ publishers' = EmptyMap
  /\ fenced_boots' = image.fenced_boots
  /\ coordinator_epoch' = image.coordinator_epoch
  /\ UNCHANGED <<image, registry>>

\* The process ends at any point and TopologyEngine::open finds a sound image.
\* load_from: structure survives, registrations do not, live edges and nodes
\* the registry has moved past need revalidation, and the epoch advances.
RestartRecovered ==
  /\ ImageIsSound
  /\ image.coordinator_epoch < MaxEpoch
  /\ nodes' = [n \in DOMAIN image.nodes |->
                 IF IsCurrentRecord(registry, image.nodes[n].entity_id,
                                    image.nodes[n].entity_generation)
                 THEN image.nodes[n]
                 ELSE [image.nodes[n] EXCEPT !.lifecycle = "REVALIDATION_REQUIRED"]]
  /\ edges' = Demote(image.edges, {e \in DOMAIN image.edges : IsLive(image.edges[e])})
  /\ generation' = image.generation
  /\ publishers' = EmptyMap
  /\ fenced_boots' = image.fenced_boots
  /\ coordinator_epoch' = image.coordinator_epoch + 1
  /\ UNCHANGED <<image, registry>>

\* The same with no image, or one that validate_graph refuses: the report says
\* so, and ftcoordinator serves the empty engine that open returns.
RestartFresh ==
  /\ ~ImageIsSound
  /\ FreshEngine
  /\ UNCHANGED <<image, registry>>

Restart == RestartRecovered \/ RestartFresh

-----------------------------------------------------------------------------

MutateNodes(ctx) ==
  \/ \E req \in NodeRequests : AddNode(ctx, req)
  \/ \E n \in NodeIds, cascade \in BOOLEAN : RemoveNode(ctx, n, cascade)
  \/ \E r \in Replacements : ReplaceEntityGeneration(ctx, r[1], r[2])
  \/ \E s \in Successors : RebindIdentity(ctx, s[1], s[2])

MutateEdges(ctx) ==
  \/ \E req \in LinkRequests : AddRelationship(ctx, req)
  \/ \E e \in EdgeIds, evidence \in Evidence, l \in EvidenceLifecycles :
       ChangeEvidence(ctx, e, evidence, l)
  \/ \E e \in EdgeIds, replacement \in EdgeIds \cup {NoEdge} :
       SupersedeRelationship(ctx, e, replacement)
  \/ \E e \in EdgeIds : RetireRelationship(ctx, e)

Administer ==
  \/ \E ctx \in Contexts, grants \in GrantChoices : RegisterPublisher(ctx, grants)
  \/ \E p \in Publishers, b \in Boots : FencePublisher(p, b)
  \/ \E b \in Boots : FenceBoot(b)
  \/ AdvanceCoordinatorEpoch

RegistryMoves == DirectoryNext /\ UNCHANGED <<graph, authority, image>>

Next ==
  \/ \E ctx \in Contexts : MutateNodes(ctx) \/ MutateEdges(ctx)
  \/ Administer
  \/ Save
  \/ Restart
  \/ RegistryMoves

Spec == Init /\ [][Next]_vars

-----------------------------------------------------------------------------
\* Safety.

\* No edge outlives a node it names: erase_edge and erase_node keep the graph
\* closed whatever order nodes and edges are added and removed in, and so does
\* recovery.
NoDanglingEdge ==
  \A e \in DOMAIN edges : {edges[e].from, edges[e].to} \subseteq DOMAIN nodes

\* A registry entity is bound to at most one node, across add_node and
\* replace_endpoint_generation (node_by_entity never has to choose).
OneNodePerEntity ==
  \A n, m \in DOMAIN nodes : nodes[n].entity_id = nodes[m].entity_id => n = m

Key(edge) == <<edge.relation, edge.from, edge.to, edge.domain>>

\* "Two distinct edge identifiers may never describe the same semantic
\* relationship" (add_relationship), retired and superseded edges included.
OneEdgePerKey ==
  \A e, o \in DOMAIN edges : Key(edges[e]) = Key(edges[o]) => e = o

\* A current edge is bound to the entity generations its two nodes carry now,
\* although nodes are refreshed, rebound and recovered underneath their edges.
CurrentEdgesBoundToNodes ==
  \A e \in CurrentEdges(edges) :
    {edges[e].from, edges[e].to} \subseteq DOMAIN nodes /\ EndpointsMatch(nodes, edges[e])

\* The containment and dependency relations never hold a cycle of live edges,
\* in memory or in the durable image: would_create_cycle sees demoted edges
\* too, so revalidating them cannot close one.
AcyclicRelationsStayAcyclic ==
  \A r \in AcyclicRelations : IsAcyclic(edges, r) /\ IsAcyclic(image.edges, r)

\* Following superseded_by always ends, although superseded edges may be
\* pointed elsewhere and edge ids may be removed and used again.
SupersessionEnds ==
  \A S \in SUBSET DOMAIN edges :
    S # {} => \E e \in S : edges[e].superseded_by \notin S

\* Two records of one relationship that differ at most by a demotion.
IsDemotionOf(low, high) ==
  low = high \/ low = [high EXCEPT !.lifecycle = "REVALIDATION_REQUIRED"]

\* A topology generation names one graph: if memory and the durable image carry
\* the same generation they hold the same nodes and edges, up to what recovery
\* demotes.  Snapshots and expected_generation checks rest on it.
GenerationNamesGraph ==
  image.saved /\ image.generation = generation =>
    /\ DOMAIN nodes = DOMAIN image.nodes
    /\ DOMAIN edges = DOMAIN image.edges
    /\ \A n \in DOMAIN nodes : IsDemotionOf(nodes[n], image.nodes[n])
    /\ \A e \in DOMAIN edges : IsDemotionOf(edges[e], image.edges[e])

-----------------------------------------------------------------------------
\* Action properties.

Binding(node) == <<node.entity_id, node.entity_generation>>

\* When the identity or generation a node stands for changes, no edge of the
\* node is current afterwards: "old relationships never silently inherit",
\* even if the new identity carries the old generation number.
ReboundEdgesAwaitRevalidation ==
  [][\A n \in DOMAIN nodes \cap DOMAIN nodes' :
       Binding(nodes'[n]) # Binding(nodes[n])
         => Incident(edges', n) \cap CurrentEdges(edges') = {}]_vars

\* A retired edge stays retired and a superseded one never becomes live, for as
\* long as the edge exists: through reassertion, evidence, rebinding, fencing,
\* and recovery from an image written before or after.
TerminalIsForever ==
  [][\A e \in DOMAIN edges \cap DOMAIN edges' :
       /\ edges[e].lifecycle = "RETIRED" => edges'[e].lifecycle = "RETIRED"
       /\ edges[e].lifecycle = "SUPERSEDED" => edges'[e].lifecycle \in Terminal]_vars

\* What a registered publisher writes with.
IdentityOf(p) ==
  [publisher |-> p, worker_boot |-> publishers[p].worker_boot,
   coordinator_epoch |-> publishers[p].coordinator_epoch]

MayWrite(p, domain) ==
  /\ ~publishers[p].fenced
  /\ publishers[p].worker_boot \notin fenced_boots
  /\ publishers[p].coordinator_epoch = coordinator_epoch
  /\ publishers[p].grants[domain] >= IncrementalWrite

\* Edge e of F is new, has another provenance than in E, or is current and not
\* as it was.
IsAsserted(e, E, F) ==
  e \in DOMAIN E => \/ F[e].provenance # E[e].provenance
                    \/ F[e].lifecycle = "CURRENT" /\ F[e] # E[e]

\* A publisher answers for it, with a live registration from a boot that is not
\* fenced, and with the grant of the edge's domain; of both domains, if the edge
\* is new.  A new provenance is that of this publisher, boot and epoch.
IsAnsweredFor(e, E, F) ==
  \E p \in DOMAIN publishers :
    /\ MayWrite(p, F[e].domain)
    /\ e \notin DOMAIN E => MayWrite(p, F[e].secondary_domain)
    /\ (e \in DOMAIN E => F[e].provenance # E[e].provenance) =>
         F[e].provenance = IdentityOf(p)

\* An edge is added, takes another provenance, or is made or kept current by a
\* change only on behalf of a publisher that may write it at that moment:
\* fencing one publisher of a boot stops the others of that boot too.
AssertionsHaveAuthority ==
  [][\A e \in DOMAIN edges' :
       IsAsserted(e, edges, edges') => Restart \/ IsAnsweredFor(e, edges, edges')]_vars

\* Memory and disk are in step: a step other than a restart that changes the
\* graph leaves an image of exactly the graph and authority state it produced,
\* whichever writes fail before or during it.
MutationsAreDurable ==
  [][graph' # graph =>
       \/ Restart
       \/ image' = ImageOf(nodes', edges', generation', fenced_boots', coordinator_epoch')]_vars

\* A restart never loses a committed node or edge nor goes back to an earlier
\* topology generation.
StructureSurvivesRestart ==
  [][Restart => /\ DOMAIN nodes = DOMAIN nodes'
                /\ DOMAIN edges = DOMAIN edges'
                /\ generation = generation']_vars

\* Everything recovered was asserted under an epoch that is over: no record of
\* the earlier incarnation can pass for one of the new one.
RecoveredEvidenceIsFromEarlierEpochs ==
  [][Restart => \A e \in DOMAIN edges' :
       edges'[e].provenance.coordinator_epoch < coordinator_epoch']_vars

-----------------------------------------------------------------------------
\* What the repository's documentation says of the engine, and it does not do.

\* README, section 10, of recovery: "permanently fenced worker boots stay
\* fenced".
FencedBootsStayFenced == [][RestartRecovered => fenced_boots \subseteq fenced_boots']_vars

\* README, section 6: "Fencing also demotes the relationships that incarnation
\* asserted to REVALIDATION_REQUIRED: durable structure survives, live
\* currentness does not."
FencedBootsHoldNothingCurrent ==
  \A e \in CurrentEdges(edges) : edges[e].provenance.worker_boot \notin fenced_boots

\* tests/core/test_core.cpp, attachment_slot_is_exclusive, and the issue
\* attachment.duplicate_exclusive of validate_graph: of the edges attached under
\* an exclusive attachment id at most one is current.
AttachmentIsExclusive ==
  \A e, o \in DOMAIN edges : e # o => ~SharedAttachment(edges, e, o)

=============================================================================
