----------------------------- MODULE GraphState -----------------------------
(***************************************************************************)
(* The topology graph and the pure computations the engine makes on it:    *)
(* src/src/graph_state.cpp, src/src/validation.cpp and the candidate       *)
(* checks of src/src/reconciliation.cpp.                                   *)
(*                                                                         *)
(* A graph is two partial maps, as in struct GraphState: `nodes` from node *)
(* ids to node records and `edges` from edge ids to edge records.  The     *)
(* secondary indexes are functions of the two maps and are not kept.       *)
(*                                                                         *)
(* Data left out because nothing here tells it apart: metadata, the        *)
(* per-node and per-edge generations, supported_by (requests carry none)   *)
(* and relationship ids, which are derived from the edge key when a        *)
(* request carries none and so are unique iff keys are.  The node classes  *)
(* are those that fit the entities and relations of the instance, so every *)
(* request passes the class, layer and pairing tables.                     *)
(* Requests for an undirected relation name their endpoints in the stored  *)
(* order (normalize_undirected_endpoints).                                 *)
(***************************************************************************)
EXTENDS Naturals

CONSTANTS
  NodeIds, EdgeIds,     \* TopologyNodeId and TopologyEdgeId values
  Entities,             \* canonical entity ids of the registry
  Domains,              \* TopologyDomainId values, all defined at start-up
  CrossDomainRules,     \* <<from_domain, to_domain, relation>> the engine permits
  Relations,            \* relation classes in use
  AcyclicRelations,     \* those whose cycle_rule is Acyclic
  AttachedTo,           \* the relation class ATTACHED_TO
  Attachments,          \* AttachmentId values
  Tiers,                \* node tiers
  NodeClasses,          \* node classes
  Publishers, Boots,    \* PublisherId and WorkerBootId values
  NoAttachment, NoEdge  \* std::nullopt of an attachment, of superseded_by

ASSUME NamesAreDistinct ==
  /\ NoEdge \notin EdgeIds
  /\ NoAttachment \notin Attachments

Lifecycles ==
  {"UNKNOWN", "CURRENT", "REVALIDATION_REQUIRED", "SUPERSEDED", "RETIRED", "CONFLICTED"}

\* The two states no operation leads out of.
Terminal == {"SUPERSEDED", "RETIRED"}

Provenances ==
  [publisher : Publishers, worker_boot : Boots, coordinator_epoch : Nat]

NodeRecords ==
  [entity_id : Entities, entity_generation : Nat, node_class : NodeClasses,
   tier : Tiers, domain : Domains, lifecycle : Lifecycles]

\* secondary_domain differs from domain exactly on cross-domain edges.
EdgeRecords ==
  [relation : Relations, from : NodeIds, to : NodeIds,
   domain : Domains, secondary_domain : Domains,
   from_entity_generation : Nat, to_entity_generation : Nat,
   evidence_generation : Nat, lifecycle : Lifecycles,
   attachment : Attachments \cup {NoAttachment},
   superseded_by : EdgeIds \cup {NoEdge}, provenance : Provenances]

IsNodeMap(N) == DOMAIN N \subseteq NodeIds /\ N \in [DOMAIN N -> NodeRecords]

IsEdgeMap(E) == DOMAIN E \subseteq EdgeIds /\ E \in [DOMAIN E -> EdgeRecords]

-----------------------------------------------------------------------------
\* Partial maps.

Put(f, k, v) == [x \in DOMAIN f \cup {k} |-> IF x = k THEN v ELSE f[x]]

Without(f, K) == [x \in DOMAIN f \ K |-> f[x]]

EmptyMap == [x \in {} |-> 0]

-----------------------------------------------------------------------------
\* Reading the graph.

IsNotRetired(edge) == edge.lifecycle # "RETIRED"

IsLive(edge) == edge.lifecycle \notin Terminal

Incident(E, n) == {e \in DOMAIN E : E[e].from = n \/ E[e].to = n}

SameKeyAndEvidence(a, b) ==
  /\ <<a.relation, a.from, a.to, a.domain>> = <<b.relation, b.from, b.to, b.domain>>
  /\ a.evidence_generation = b.evidence_generation

\* make_edge_key: two edges that describe one semantic relationship.
SameKey(a, b) ==
  /\ a.relation = b.relation
  /\ a.from = b.from
  /\ a.to = b.to
  /\ a.domain = b.domain

NodesOfEntity(N, x) == {n \in DOMAIN N : N[n].entity_id = x}

\* A live edge of relation r leads from a to b.
Leads(E, r, e, a, b) ==
  /\ E[e].relation = r
  /\ IsLive(E[e])
  /\ E[e].from = a
  /\ E[e].to = b

\* C is closed under the live edges of relation r.
IsClosed(E, r, C) ==
  \A e \in DOMAIN E : \A a \in C, b \in NodeIds : Leads(E, r, e, a, b) => b \in C

\* What the depth-first search from a visits: the least closed set holding a.
Reaches(E, r, a, b) ==
  \A C \in SUBSET NodeIds : a \in C /\ IsClosed(E, r, C) => b \in C

WouldCreateCurrentCycle(E, r, from, to) ==
  LET current == {e \in DOMAIN E : E[e].lifecycle = "CURRENT"}
  IN  /\ r \in AcyclicRelations
      /\ from = to \/ Reaches([e \in current |-> E[e]], r, to, from)

WouldCreateCycle(E, r, from, to) ==
  /\ r \in AcyclicRelations
  /\ from = to \/ Reaches(E, r, to, from)

\* Relation r has no directed cycle: every set of nodes has one with no way on
\* inside the set.
IsAcyclic(E, r) ==
  \A S \in SUBSET NodeIds :
    S # {} => \E a \in S : \A e \in DOMAIN E, b \in S : ~Leads(E, r, e, a, b)

-----------------------------------------------------------------------------
\* Checks on a relationship before it is asserted.

\* resolve_relationship_domain: the scope the request asked for, or the common
\* scope of the endpoints; across scopes only under a configured rule.
ResolvesDomain(fromDomain, toDomain, relation, requested) ==
  \/ fromDomain = toDomain /\ requested = fromDomain
  \/ /\ fromDomain # toDomain
     /\ requested \in {fromDomain, toDomain}
     /\ <<fromDomain, toDomain, relation>> \in CrossDomainRules

SecondaryDomain(fromDomain, toDomain, requested) ==
  IF requested = fromDomain THEN toDomain ELSE fromDomain

\* The two exclusivity rules: another current edge holds the attachment id
\* between other endpoints, or the endpoint has another current attachment.
AttachmentConflict(E, id, from, to, attachment) ==
  \E o \in DOMAIN E \ {id} :
    /\ E[o].lifecycle = "CURRENT"
    /\ \/ /\ E[o].attachment = attachment
          /\ ~(E[o].from = from /\ E[o].to = to)
       \/ /\ E[o].relation = AttachedTo
          /\ E[o].attachment # NoAttachment
          /\ E[o].from = from

\* validate_relationship_candidate, for a request c that passes the class,
\* layer and pairing tables.
ValidCandidate(N, E, c, isNew) ==
  /\ {c.from, c.to} \subseteq DOMAIN N
  /\ N[c.from].lifecycle \notin Terminal
  /\ N[c.to].lifecycle \notin Terminal
  /\ c.from # c.to
  /\ c.exclusive /\ c.attachment # NoAttachment
       => ~AttachmentConflict(E, c.id, c.from, c.to, c.attachment)
  /\ isNew => ~WouldCreateCycle(E, c.relation, c.from, c.to)

\* endpoints_match: the edge is bound to the generations its nodes carry.
EndpointsMatch(N, edge) ==
  /\ edge.from_entity_generation = N[edge.from].entity_generation
  /\ edge.to_entity_generation = N[edge.to].entity_generation

-----------------------------------------------------------------------------
\* Changes that touch many edges at once.

RebindOutgoing(E, n, g) ==
  [e \in DOMAIN E |->
     IF E[e].from = n /\ IsLive(E[e])
     THEN [E[e] EXCEPT !.from_entity_generation = g, !.lifecycle = "REVALIDATION_REQUIRED"]
     ELSE E[e]]

RebindWithoutDemotion(E, n, g) ==
  [e \in DOMAIN E |->
     IF e \in Incident(E, n) /\ IsLive(E[e])
     THEN [E[e] EXCEPT
             !.from_entity_generation = IF E[e].from = n THEN g ELSE @,
             !.to_entity_generation = IF E[e].to = n THEN g ELSE @]
     ELSE E[e]]

\* fence_edges_for_node_change, and the same loop in
\* replace_endpoint_generation: live edges at a node whose entity generation
\* changed carry the new generation and lose currentness.
RebindIncident(E, n, g) ==
  [e \in DOMAIN E |->
     IF e \in Incident(E, n) /\ IsLive(E[e])
     THEN [E[e] EXCEPT
             !.from_entity_generation = IF E[e].from = n THEN g ELSE @,
             !.to_entity_generation = IF E[e].to = n THEN g ELSE @,
             !.lifecycle = "REVALIDATION_REQUIRED"]
     ELSE E[e]]

\* Demote the edges of the set D.
Demote(E, D) ==
  [e \in DOMAIN E |->
     IF e \in D THEN [E[e] EXCEPT !.lifecycle = "REVALIDATION_REQUIRED"] ELSE E[e]]

-----------------------------------------------------------------------------
\* validate_graph over the whole topology, against the registry R.

IsCurrentRecord(R, x, g) ==
  /\ x \in DOMAIN R
  /\ ~R[x].retired
  /\ ~R[x].superseded
  /\ R[x].generation = g

ValidNode(node, R) ==
  /\ node.entity_id \in DOMAIN R
  /\ ~R[node.entity_id].retired
  /\ ~R[node.entity_id].superseded
  /\ node.lifecycle = "CURRENT"
       => R[node.entity_id].generation = node.entity_generation

ValidScope(N, edge) ==
  \/ edge.domain = N[edge.from].domain /\ edge.domain = N[edge.to].domain
  \/ /\ edge.domain # edge.secondary_domain
     /\ N[edge.from].domain \in {edge.domain, edge.secondary_domain}
     /\ N[edge.to].domain \in {edge.domain, edge.secondary_domain}

ValidEdge(N, E, e) ==
  /\ {E[e].from, E[e].to} \subseteq DOMAIN N
  /\ E[e].from # E[e].to
  /\ \A o \in DOMAIN E \ {e} : ~SameKey(E[o], E[e])
  /\ ValidScope(N, E[e])
  /\ E[e].superseded_by # e
  /\ E[e].lifecycle = "CURRENT" =>
       /\ EndpointsMatch(N, E[e])
       /\ N[E[e].from].lifecycle = "CURRENT"
       /\ N[E[e].to].lifecycle = "CURRENT"

\* Two current ATTACHED_TO edges share an attachment id.
SharedAttachment(E, e, o) ==
  /\ E[e].attachment = E[o].attachment
  /\ E[e].attachment # NoAttachment
  /\ \A x \in {e, o} : E[x].relation = AttachedTo /\ E[x].lifecycle = "CURRENT"

ValidGraph(N, E, R) ==
  /\ \A n \in DOMAIN N : ValidNode(N[n], R)
  /\ \A e \in DOMAIN E : ValidEdge(N, E, e)
  /\ \A e, o \in DOMAIN E : e # o => ~SharedAttachment(E, e, o)
  /\ \A r \in AcyclicRelations : IsAcyclic(E, r)

=============================================================================
