------------------------ MODULE TopologyEngineProofs ------------------------
(***************************************************************************)
(* Proofs about TopologyEngine for every value of its constants.           *)
(***************************************************************************)
EXTENDS TopologyEngine, TLAPS

-----------------------------------------------------------------------------
\* The operations on partial maps keep them maps of nodes, maps of edges.

LEMMA PutNodeType ==
  ASSUME NEW N, IsNodeMap(N), NEW n \in NodeIds, NEW r \in NodeRecords
  PROVE  IsNodeMap(Put(N, n, r))
BY DEF IsNodeMap, Put

LEMMA PutEdgeType ==
  ASSUME NEW E, IsEdgeMap(E), NEW e \in EdgeIds, NEW r \in EdgeRecords
  PROVE  IsEdgeMap(Put(E, e, r))
BY DEF IsEdgeMap, Put

LEMMA WithoutNodeType ==
  ASSUME NEW N, IsNodeMap(N), NEW K
  PROVE  IsNodeMap(Without(N, K))
BY DEF IsNodeMap, Without

LEMMA WithoutEdgeType ==
  ASSUME NEW E, IsEdgeMap(E), NEW K
  PROVE  IsEdgeMap(Without(E, K))
BY DEF IsEdgeMap, Without

LEMMA EmptyMapType == IsNodeMap(EmptyMap) /\ IsEdgeMap(EmptyMap)
BY DEF IsNodeMap, IsEdgeMap, EmptyMap

LEMMA DemotedRecordType ==
  ASSUME NEW r \in EdgeRecords
  PROVE  [r EXCEPT !.lifecycle = "REVALIDATION_REQUIRED"] \in EdgeRecords
BY DEF EdgeRecords, Lifecycles

LEMMA DemoteType ==
  ASSUME NEW E, IsEdgeMap(E), NEW D
  PROVE  IsEdgeMap(Demote(E, D))
BY DemotedRecordType DEF IsEdgeMap, Demote

LEMMA RebindType ==
  ASSUME NEW E, IsEdgeMap(E), NEW n, NEW g \in Nat
  PROVE  IsEdgeMap(RebindIncident(E, n, g))
<1>1. ASSUME NEW r \in EdgeRecords
      PROVE  [r EXCEPT
                !.from_entity_generation = IF r.from = n THEN g ELSE @,
                !.to_entity_generation = IF r.to = n THEN g ELSE @,
                !.lifecycle = "REVALIDATION_REQUIRED"] \in EdgeRecords
  BY <1>1 DEF EdgeRecords, Lifecycles
<1> QED
  BY <1>1 DEF IsEdgeMap, RebindIncident

-----------------------------------------------------------------------------
(***************************************************************************)
(* What holds of the graph in memory and of the graph in the image alike.  *)
(***************************************************************************)

ClosedEdges(N, E) == \A e \in DOMAIN E : {E[e].from, E[e].to} \subseteq DOMAIN N

UniqueEntities(N) == \A n, m \in DOMAIN N : N[n].entity_id = N[m].entity_id => n = m

UniqueKeys(E) == \A e, o \in DOMAIN E : Key(E[e]) = Key(E[o]) => e = o

AcyclicEdges(E) == \A r \in AcyclicRelations : IsAcyclic(E, r)

\* Only superseded edges point on, so a current edge is the end of its chain.
LiveEdgesPointNowhere(E) == \A e \in DOMAIN E : IsLive(E[e]) => E[e].superseded_by = NoEdge

ChainsEnd(E) ==
  \A S \in SUBSET DOMAIN E : S # {} => \E e \in S : E[e].superseded_by \notin S

SoundNodes(N) == IsNodeMap(N) /\ UniqueEntities(N)

SoundEdges(E) ==
  /\ IsEdgeMap(E)
  /\ UniqueKeys(E)
  /\ AcyclicEdges(E)
  /\ LiveEdgesPointNowhere(E)
  /\ ChainsEnd(E)

SoundGraph(N, E) == SoundNodes(N) /\ SoundEdges(E) /\ ClosedEdges(N, E)

\* F has the relationships of E and no more live ones.
HasFewerLive(F, E) ==
  /\ DOMAIN F = DOMAIN E
  /\ \A e \in DOMAIN E : Key(F[e]) = Key(E[e]) /\ (IsLive(F[e]) => IsLive(E[e]))

\* Losing live edges, by demotion, rebinding or the end of a relationship,
\* closes no cycle and breaks neither closure nor uniqueness.
LEMMA FewerLiveEdges ==
  ASSUME NEW N, NEW E, NEW F, HasFewerLive(F, E),
         UniqueKeys(E), AcyclicEdges(E), ClosedEdges(N, E)
  PROVE  UniqueKeys(F) /\ AcyclicEdges(F) /\ ClosedEdges(N, F)
<1>1. ASSUME NEW e \in DOMAIN E
      PROVE  /\ F[e].relation = E[e].relation
             /\ F[e].from = E[e].from
             /\ F[e].to = E[e].to
  BY <1>1 DEF HasFewerLive, Key
<1>2. UniqueKeys(F)
  BY DEF UniqueKeys, HasFewerLive
<1>3. ClosedEdges(N, F)
  BY <1>1 DEF ClosedEdges, HasFewerLive
<1>4. ASSUME NEW r, NEW e \in DOMAIN E, NEW a, NEW b, Leads(F, r, e, a, b)
      PROVE  Leads(E, r, e, a, b)
  BY <1>1, <1>4 DEF Leads, HasFewerLive
<1>5. AcyclicEdges(F)
  BY <1>4 DEF AcyclicEdges, IsAcyclic, HasFewerLive
<1> QED
  BY <1>2, <1>3, <1>5

\* The same for changes that leave superseded_by alone.
LEMMA FewerLiveEdgesSound ==
  ASSUME NEW N, NEW E, NEW F, HasFewerLive(F, E), IsEdgeMap(F), SoundGraph(N, E),
         \A e \in DOMAIN E : F[e].superseded_by = E[e].superseded_by
  PROVE  SoundGraph(N, F)
<1>1. UniqueKeys(F) /\ AcyclicEdges(F) /\ ClosedEdges(N, F)
  BY FewerLiveEdges DEF SoundGraph, SoundEdges
<1>2. LiveEdgesPointNowhere(F)
  BY DEF SoundGraph, SoundEdges, LiveEdgesPointNowhere, HasFewerLive
<1>3. ChainsEnd(F)
  BY DEF SoundGraph, SoundEdges, ChainsEnd, HasFewerLive
<1> QED
  BY <1>1, <1>2, <1>3 DEF SoundGraph, SoundEdges

\* would_create_cycle is enough: an edge to a node from which its origin cannot
\* be reached closes no cycle.  A set of nodes that meets the closed set around
\* the new edge's target has its way out there, any other has the one it had.
LEMMA NewEdgeClosesNoCycle ==
  ASSUME NEW E, NEW e, NEW new, NEW r, e \notin DOMAIN E, IsAcyclic(E, r),
         new.relation = r => ~Reaches(E, r, new.to, new.from)
  PROVE  IsAcyclic(Put(E, e, new), r)
<1> DEFINE F == Put(E, e, new)
<1> SUFFICES ASSUME NEW S \in SUBSET NodeIds, S # {}
             PROVE  \E a \in S : \A x \in DOMAIN F, b \in S : ~Leads(F, r, x, a, b)
  BY DEF IsAcyclic
<1>1. DOMAIN F = DOMAIN E \cup {e} /\ F[e] = new /\ \A x \in DOMAIN E : F[x] = E[x]
  BY DEF Put
<1> HIDE DEF F
<1>2. ASSUME NEW x \in DOMAIN E, NEW a, NEW b, Leads(F, r, x, a, b)
      PROVE  Leads(E, r, x, a, b)
  BY <1>1, <1>2 DEF Leads
<1>3. ASSUME NEW a, NEW b, Leads(F, r, e, a, b)
      PROVE  new.relation = r /\ a = new.from /\ b = new.to
  BY <1>1, <1>3 DEF Leads
<1>4. CASE new.relation # r
  BY <1>1, <1>2, <1>3, <1>4 DEF IsAcyclic
<1>5. CASE new.relation = r
  <2>1. PICK C \in SUBSET NodeIds : new.to \in C /\ IsClosed(E, r, C) /\ new.from \notin C
    BY <1>5 DEF Reaches
  <2>2. CASE S \cap C # {}
    <3>1. PICK a \in S \cap C : \A x \in DOMAIN E, b \in S \cap C : ~Leads(E, r, x, a, b)
      BY <2>2 DEF IsAcyclic
    <3>2. ASSUME NEW x \in DOMAIN E, NEW b \in S, Leads(E, r, x, a, b)
          PROVE  b \in C
      BY <2>1, <3>2 DEF IsClosed
    <3> QED
      BY <1>1, <1>2, <1>3, <2>1, <3>1, <3>2
  <2>3. CASE S \cap C = {}
    <3>1. PICK a \in S : \A x \in DOMAIN E, b \in S : ~Leads(E, r, x, a, b)
      BY DEF IsAcyclic
    <3> QED
      BY <1>1, <1>2, <1>3, <2>1, <2>3, <3>1
  <2> QED
    BY <2>2, <2>3
<1> QED
  BY <1>4, <1>5

-----------------------------------------------------------------------------
\* Each way the engine changes a graph keeps it sound.

LEMMA EmptyGraphSound == SoundGraph(EmptyMap, EmptyMap)
BY EmptyMapType
   DEF SoundGraph, SoundNodes, SoundEdges, ClosedEdges, UniqueEntities, UniqueKeys,
       AcyclicEdges, IsAcyclic, LiveEdgesPointNowhere, ChainsEnd, EmptyMap

LEMMA DemoteSound ==
  ASSUME NEW N, NEW E, SoundGraph(N, E), NEW D, \A e \in D \cap DOMAIN E : IsLive(E[e])
  PROVE  SoundGraph(N, Demote(E, D))
<1>1. IsEdgeMap(Demote(E, D))
  BY DemoteType DEF SoundGraph, SoundEdges
<1>2. HasFewerLive(Demote(E, D), E)
  BY DEF HasFewerLive, Demote, Key, IsLive, SoundGraph, SoundEdges, IsEdgeMap, EdgeRecords
<1>3. \A e \in DOMAIN E : Demote(E, D)[e].superseded_by = E[e].superseded_by
  BY DEF Demote, SoundGraph, SoundEdges, IsEdgeMap, EdgeRecords
<1> QED
  BY <1>1, <1>2, <1>3, FewerLiveEdgesSound

LEMMA RebindSound ==
  ASSUME NEW N, NEW E, SoundGraph(N, E), NEW n, NEW g \in Nat
  PROVE  SoundGraph(N, RebindIncident(E, n, g))
<1> DEFINE F == RebindIncident(E, n, g)
<1>1. IsEdgeMap(F)
  BY RebindType DEF SoundGraph, SoundEdges
<1>2. HasFewerLive(F, E)
  BY DEF HasFewerLive, RebindIncident, Key, SoundGraph, SoundEdges, IsEdgeMap, EdgeRecords
<1>3. \A e \in DOMAIN E : F[e].superseded_by = E[e].superseded_by
  BY DEF RebindIncident, SoundGraph, SoundEdges, IsEdgeMap, EdgeRecords
<1> QED
  BY <1>1, <1>2, <1>3, FewerLiveEdgesSound

\* A relationship recorded anew under its key, not more alive than before.
LEMMA UpdateEdgeSound ==
  ASSUME NEW N, NEW E, SoundGraph(N, E), NEW e \in DOMAIN E, NEW new \in EdgeRecords,
         Key(new) = Key(E[e]), IsLive(new) => IsLive(E[e]),
         new.superseded_by = E[e].superseded_by
  PROVE  SoundGraph(N, Put(E, e, new))
<1>1. IsEdgeMap(Put(E, e, new))
  BY PutEdgeType DEF SoundGraph, SoundEdges, IsEdgeMap
<1>2. HasFewerLive(Put(E, e, new), E)
  BY DEF HasFewerLive, Put
<1>3. \A x \in DOMAIN E : Put(E, e, new)[x].superseded_by = E[x].superseded_by
  BY DEF Put
<1> QED
  BY <1>1, <1>2, <1>3, FewerLiveEdgesSound

\* Pointing an edge at nothing or at a current edge: a current edge points
\* nowhere, so whatever chain reaches it ends there.
LEMMA SupersedeSound ==
  ASSUME NEW N, NEW E, SoundGraph(N, E), NEW e \in DOMAIN E,
         NEW replacement, replacement = NoEdge \/ replacement \in CurrentEdges(E) \ {e}
  PROVE  SoundGraph(N, Put(E, e, [E[e] EXCEPT !.lifecycle = "SUPERSEDED",
                                              !.superseded_by = replacement]))
<1> DEFINE new == [E[e] EXCEPT !.lifecycle = "SUPERSEDED", !.superseded_by = replacement]
           F == Put(E, e, new)
<1>1. E[e] \in EdgeRecords /\ DOMAIN E \subseteq EdgeIds
  BY DEF SoundGraph, SoundEdges, IsEdgeMap
<1>2. replacement \in EdgeIds \cup {NoEdge}
  BY <1>1 DEF CurrentEdges
<1>3. /\ new \in EdgeRecords
      /\ Key(new) = Key(E[e])
      /\ ~IsLive(new)
      /\ new.superseded_by = replacement
  BY <1>1, <1>2 DEF EdgeRecords, Lifecycles, Key, IsLive, Terminal
<1> HIDE DEF new
<1>4. /\ DOMAIN F = DOMAIN E
      /\ F[e] = new
      /\ \A x \in DOMAIN E \ {e} : F[x] = E[x]
  BY DEF Put
<1>5. IsEdgeMap(F)
  BY <1>1, <1>3, PutEdgeType DEF SoundGraph, SoundEdges
<1> HIDE DEF F
<1>6. HasFewerLive(F, E)
  BY <1>3, <1>4 DEF HasFewerLive
<1>7. UniqueKeys(F) /\ AcyclicEdges(F) /\ ClosedEdges(N, F)
  BY <1>6, FewerLiveEdges DEF SoundGraph, SoundEdges
<1>8. LiveEdgesPointNowhere(F)
  BY <1>3, <1>4 DEF LiveEdgesPointNowhere, SoundGraph, SoundEdges
<1>9. ChainsEnd(F)
  <2> SUFFICES ASSUME NEW S \in SUBSET DOMAIN E, S # {}
               PROVE  \E x \in S : F[x].superseded_by \notin S
    BY <1>4 DEF ChainsEnd
  <2>1. NoEdge \notin S
    BY <1>1, NamesAreDistinct
  <2>2. CASE replacement \in S
    <3>1. replacement \in DOMAIN E \ {e} /\ E[replacement].superseded_by = NoEdge
      BY <2>1, <2>2 DEF CurrentEdges, SoundGraph, SoundEdges, LiveEdgesPointNowhere, IsLive, Terminal
    <3> QED
      BY <1>4, <2>1, <2>2, <3>1
  <2>3. CASE replacement \notin S /\ e \in S
    BY <1>3, <1>4, <2>3
  <2>4. CASE e \notin S
    BY <1>4, <2>4 DEF SoundGraph, SoundEdges, ChainsEnd
  <2> QED
    BY <2>2, <2>3, <2>4
<1> QED
  BY <1>5, <1>7, <1>8, <1>9 DEF SoundGraph, SoundEdges, F, new

\* A new relationship: a free id and key, both ends present, no cycle.
LEMMA NewEdgeSound ==
  ASSUME NEW N, NEW E, SoundGraph(N, E), NEW e \in EdgeIds, e \notin DOMAIN E,
         NEW new \in EdgeRecords, new.superseded_by = NoEdge,
         {new.from, new.to} \subseteq DOMAIN N,
         \A o \in DOMAIN E : Key(E[o]) # Key(new),
         ~WouldCreateCycle(E, new.relation, new.from, new.to)
  PROVE  SoundGraph(N, Put(E, e, new))
<1> DEFINE F == Put(E, e, new)
<1>1. DOMAIN F = DOMAIN E \cup {e} /\ F[e] = new /\ \A x \in DOMAIN E : F[x] = E[x]
  BY DEF Put
<1>2. IsEdgeMap(F)
  BY PutEdgeType DEF SoundGraph, SoundEdges
<1>3. AcyclicEdges(F)
  BY NewEdgeClosesNoCycle DEF AcyclicEdges, WouldCreateCycle, SoundGraph, SoundEdges
<1> HIDE DEF F
<1>4. UniqueKeys(F)
  BY <1>1 DEF UniqueKeys, SoundGraph, SoundEdges
<1>5. ClosedEdges(N, F)
  BY <1>1 DEF ClosedEdges, SoundGraph
<1>6. LiveEdgesPointNowhere(F)
  BY <1>1 DEF LiveEdgesPointNowhere, SoundGraph, SoundEdges
<1>7. ChainsEnd(F)
  <2> SUFFICES ASSUME NEW S \in SUBSET (DOMAIN E \cup {e}), S # {}
               PROVE  \E x \in S : F[x].superseded_by \notin S
    BY <1>1 DEF ChainsEnd
  <2>1. NoEdge \notin S
    BY NamesAreDistinct DEF SoundGraph, SoundEdges, IsEdgeMap
  <2>2. CASE e \in S
    BY <1>1, <2>1, <2>2
  <2>3. CASE e \notin S
    <3>1. S \in SUBSET DOMAIN E
      BY <2>3
    <3> QED
      BY <1>1, <3>1 DEF SoundGraph, SoundEdges, ChainsEnd
  <2> QED
    BY <2>2, <2>3
<1> QED
  BY <1>2, <1>3, <1>4, <1>5, <1>6, <1>7 DEF SoundGraph, SoundEdges, F

\* remove_node takes every incident edge with it.
LEMMA RemoveNodeSound ==
  ASSUME NEW N, NEW E, SoundGraph(N, E), NEW n
  PROVE  SoundGraph(Without(N, {n}), Without(E, Incident(E, n)))
<1> DEFINE F == Without(E, Incident(E, n))
           M == Without(N, {n})
<1>1. /\ DOMAIN F \subseteq DOMAIN E
      /\ \A x \in DOMAIN F : F[x] = E[x] /\ E[x].from # n /\ E[x].to # n
  BY DEF Without, Incident
<1>2. DOMAIN M = DOMAIN N \ {n} /\ \A x \in DOMAIN M : M[x] = N[x]
  BY DEF Without
<1>3. IsEdgeMap(F) /\ IsNodeMap(M)
  BY WithoutEdgeType, WithoutNodeType DEF SoundGraph, SoundEdges, SoundNodes
<1> HIDE DEF F, M
<1>4. UniqueEntities(M)
  BY <1>2 DEF UniqueEntities, SoundGraph, SoundNodes
<1>5. ClosedEdges(M, F)
  BY <1>1, <1>2 DEF ClosedEdges, SoundGraph
<1>6. UniqueKeys(F) /\ LiveEdgesPointNowhere(F)
  BY <1>1 DEF UniqueKeys, LiveEdgesPointNowhere, SoundGraph, SoundEdges
<1>7. ChainsEnd(F)
  BY <1>1 DEF ChainsEnd, SoundGraph, SoundEdges
<1>8. ASSUME NEW r, NEW x \in DOMAIN F, NEW a, NEW b, Leads(F, r, x, a, b)
      PROVE  x \in DOMAIN E /\ Leads(E, r, x, a, b)
  BY <1>1, <1>8 DEF Leads
<1>9. AcyclicEdges(F)
  BY <1>8 DEF AcyclicEdges, IsAcyclic, SoundGraph, SoundEdges
<1> QED
  BY <1>3, <1>4, <1>5, <1>6, <1>7, <1>9 DEF SoundGraph, SoundEdges, SoundNodes, F, M

\* A node added, refreshed or bound to another identity: its entity is bound to
\* no other node.
LEMMA PutNodeSound ==
  ASSUME NEW N, NEW E, SoundGraph(N, E), NEW n \in NodeIds, NEW node \in NodeRecords,
         NodesOfEntity(N, node.entity_id) \subseteq {n}
  PROVE  SoundGraph(Put(N, n, node), E)
<1> DEFINE M == Put(N, n, node)
<1>1. DOMAIN M = DOMAIN N \cup {n} /\ M[n] = node /\ \A x \in DOMAIN N \ {n} : M[x] = N[x]
  BY DEF Put
<1>2. IsNodeMap(M)
  BY PutNodeType DEF SoundGraph, SoundNodes
<1> HIDE DEF M
<1>3. UniqueEntities(M)
  BY <1>1 DEF UniqueEntities, NodesOfEntity, SoundGraph, SoundNodes
<1>4. ClosedEdges(M, E)
  BY <1>1 DEF ClosedEdges, SoundGraph
<1> QED
  BY <1>2, <1>3, <1>4 DEF SoundGraph, SoundNodes, M

-----------------------------------------------------------------------------
(***************************************************************************)
(* The inductive invariant.  The invariants of the graph are not inductive *)
(* alone: a restart replaces the graph by the image's, so the image must   *)
(* be sound as well.                                                       *)
(***************************************************************************)

IInv ==
  /\ TypeOK
  /\ SoundGraph(nodes, edges)
  /\ SoundGraph(image.nodes, image.edges)

LEMMA InitSound == Init => IInv
<1> SUFFICES ASSUME Init PROVE IInv
  OBVIOUS
<1>1. /\ image.nodes = EmptyMap
      /\ image.edges = EmptyMap
      /\ image.saved \in BOOLEAN
      /\ image.generation = 0
      /\ image.fenced_boots = {}
      /\ image.coordinator_epoch = 0
  BY DEF Init, AbsentImage, ImageOf
<1>2. DirectoryTypeOK
  BY DirectoryConstants DEF Init, DirectoryInit, DirectoryTypeOK, FreshRecord, EntityRecords
<1>3. DOMAIN publishers \subseteq Publishers /\ publishers \in [DOMAIN publishers -> Registrations]
  BY DEF Init, EmptyMap
<1>4. GraphTypeOK /\ AuthorityTypeOK /\ ImageTypeOK
  BY <1>1, <1>3, EmptyMapType DEF GraphTypeOK, AuthorityTypeOK, ImageTypeOK, Init, InitialEpoch
<1> QED
  BY <1>1, <1>2, <1>4, EmptyGraphSound DEF IInv, TypeOK, Init

LEMMA ImageOfType ==
  ASSUME NEW N, NEW E, NEW g \in Nat, NEW fenced \in SUBSET Boots, NEW epoch \in Nat,
         IsNodeMap(N), IsEdgeMap(E), image' = ImageOf(N, E, g, fenced, epoch)
  PROVE  ImageTypeOK' /\ image'.nodes = N /\ image'.edges = E
<1>1. /\ image'.saved = TRUE
      /\ image'.nodes = N
      /\ image'.edges = E
      /\ image'.generation = g
      /\ image'.fenced_boots = fenced
      /\ image'.coordinator_epoch = epoch
  BY DEF ImageOf
<1> QED
  BY <1>1 DEF ImageTypeOK

\* A mutation that produces a sound graph, and would leave a sound graph if its
\* write failed, keeps the invariant.
LEMMA FinalizeSound ==
  ASSUME IInv, NEW N, NEW E, NEW undone, SoundGraph(N, E), SoundGraph(undone, edges),
         FinalizeMutation(N, E, undone), UNCHANGED <<authority, registry>>
  PROVE  IInv'
<1>1. DirectoryTypeOK' /\ AuthorityTypeOK'
  BY DEF IInv, TypeOK, DirectoryTypeOK, AuthorityTypeOK, authority
<1>2. CASE /\ nodes' = N
           /\ edges' = E
           /\ generation' = generation + 1
           /\ image' = ImageOf(N, E, generation + 1, fenced_boots, coordinator_epoch)
  <2>1. /\ SoundGraph(nodes', edges')
        /\ generation + 1 \in Nat
        /\ AuthorityTypeOK
    BY <1>2 DEF IInv, TypeOK, GraphTypeOK
  <2>2. ImageTypeOK' /\ image'.nodes = nodes' /\ image'.edges = edges'
    BY <1>2, <2>1, ImageOfType DEF SoundGraph, SoundNodes, SoundEdges, AuthorityTypeOK
  <2>3. GraphTypeOK'
    BY <1>2, <2>1 DEF GraphTypeOK, SoundGraph, SoundNodes, SoundEdges
  <2> QED
    BY <1>1, <2>1, <2>2, <2>3 DEF IInv, TypeOK
<1>3. CASE nodes' = undone /\ UNCHANGED <<edges, generation, image>>
  <2>1. GraphTypeOK' /\ ImageTypeOK'
    BY <1>3
       DEF IInv, TypeOK, GraphTypeOK, ImageTypeOK, SoundGraph, SoundNodes, SoundEdges
  <2> QED
    BY <1>1, <1>3, <2>1 DEF IInv, TypeOK
<1> QED
  BY <1>2, <1>3 DEF FinalizeMutation

\* What the steps of the graph rely on.
LEMMA ContextsAreProvenances == Contexts \subseteq Provenances
BY EngineConstants DEF Contexts, Provenances

LEMMA RegistryRecords ==
  ASSUME TypeOK, NEW x \in DOMAIN registry
  PROVE  x \in Entities /\ registry[x].generation \in Nat
BY DEF TypeOK, DirectoryTypeOK, EntityRecords

LEMMA AddNodeSound ==
  ASSUME IInv, NEW ctx, NEW req \in NodeRequests, AddNode(ctx, req)
  PROVE  IInv'
<1> DEFINE n == req.node_id
           record == registry[req.entity_id]
           node == [entity_id |-> req.entity_id, entity_generation |-> record.generation,
                    node_class |-> req.node_class, tier |-> req.tier, domain |-> req.domain,
                    lifecycle |-> "CURRENT"]
           refreshed == [nodes[n] EXCEPT !.entity_generation = record.generation,
                                         !.tier = req.tier, !.lifecycle = "CURRENT"]
           rebound == IF nodes[n].entity_generation = record.generation THEN edges
                      ELSE RebindIncident(edges, n, record.generation)
<1>1. /\ n \in NodeIds
      /\ req.entity_id \in Entities
      /\ req.domain \in Domains
      /\ req.tier \in Tiers /\ req.node_class \in NodeClasses
      /\ record.generation \in Nat
  BY EngineConstants, RegistryRecords DEF AddNode, IsLiveEntity, IInv
<1>2. SoundGraph(nodes, edges) /\ UNCHANGED <<authority, registry>>
  BY DEF IInv, AddNode
<1>3. CASE /\ n \notin DOMAIN nodes
           /\ NodesOfEntity(nodes, req.entity_id) = {}
           /\ FinalizeMutation(Put(nodes, n, node), edges, nodes)
  <2>1. node \in NodeRecords /\ node.entity_id = req.entity_id
    BY <1>1 DEF NodeRecords, Lifecycles
  <2>2. SoundGraph(Put(nodes, n, node), edges)
    BY <1>1, <1>2, <1>3, <2>1, PutNodeSound
  <2> QED
    BY <1>2, <1>3, <2>2, FinalizeSound
<1>4. CASE /\ n \in DOMAIN nodes
           /\ nodes[n].entity_id = req.entity_id
           /\ FinalizeMutation(Put(nodes, n, refreshed), rebound, nodes)
  <2>1. nodes[n] \in NodeRecords
    BY <1>2, <1>4 DEF SoundGraph, SoundNodes, IsNodeMap
  <2>2. refreshed \in NodeRecords /\ refreshed.entity_id = nodes[n].entity_id
    BY <1>1, <2>1 DEF NodeRecords, Lifecycles
  <2>3. NodesOfEntity(nodes, refreshed.entity_id) \subseteq {n}
    BY <1>2, <1>4, <2>2 DEF NodesOfEntity, SoundGraph, SoundNodes, UniqueEntities
  <2>4. SoundGraph(nodes, rebound)
    BY <1>1, <1>2, RebindSound
  <2> HIDE DEF rebound, refreshed
  <2>5. SoundGraph(Put(nodes, n, refreshed), rebound)
    BY <1>1, <2>2, <2>3, <2>4, PutNodeSound
  <2> QED
    BY <1>2, <1>4, <2>5, FinalizeSound
<1> QED
  BY <1>3, <1>4 DEF AddNode

LEMMA RemoveNodeStep ==
  ASSUME IInv, NEW ctx, NEW n, NEW cascade, RemoveNode(ctx, n, cascade)
  PROVE  IInv'
<1>1. SoundGraph(Without(nodes, {n}), Without(edges, Incident(edges, n)))
  BY RemoveNodeSound DEF IInv
<1> QED
  BY <1>1, FinalizeSound DEF RemoveNode, IInv

LEMMA ReplaceBindingSound ==
  ASSUME IInv, NEW n \in NodeIds, NEW updated \in NodeRecords, ReplaceBinding(n, updated),
         NodesOfEntity(nodes, updated.entity_id) \subseteq {n},
         UNCHANGED <<authority, registry>>
  PROVE  IInv'
<1>1. SoundGraph(nodes, RebindIncident(edges, n, updated.entity_generation))
  BY RebindSound DEF IInv, NodeRecords
<1>2. /\ SoundGraph(Put(nodes, n, updated), RebindIncident(edges, n, updated.entity_generation))
      /\ SoundGraph(Put(nodes, n, updated), edges)
  BY <1>1, PutNodeSound DEF IInv
<1> QED
  BY <1>2, FinalizeSound DEF ReplaceBinding

LEMMA ReplaceEntityGenerationSound ==
  ASSUME IInv, NEW ctx, NEW n, NEW g \in Nat, ReplaceEntityGeneration(ctx, n, g)
  PROVE  IInv'
<1> DEFINE updated == [nodes[n] EXCEPT !.entity_generation = g]
<1>1. n \in DOMAIN nodes /\ n \in NodeIds /\ nodes[n] \in NodeRecords
  BY DEF ReplaceEntityGeneration, IInv, SoundGraph, SoundNodes, IsNodeMap
<1>2. updated \in NodeRecords /\ updated.entity_id = nodes[n].entity_id
  BY <1>1 DEF NodeRecords
<1>3. ReplaceBinding(n, updated) /\ UNCHANGED <<authority, registry>>
  BY DEF ReplaceEntityGeneration
<1> HIDE DEF updated
<1>4. NodesOfEntity(nodes, updated.entity_id) \subseteq {n}
  BY <1>1, <1>2 DEF NodesOfEntity, IInv, SoundGraph, SoundNodes, UniqueEntities
<1> QED
  BY <1>1, <1>2, <1>3, <1>4, ReplaceBindingSound

LEMMA RebindIdentitySound ==
  ASSUME IInv, NEW ctx, NEW n, NEW successor, RebindIdentity(ctx, n, successor)
  PROVE  IInv'
<1> DEFINE updated == [nodes[n] EXCEPT !.entity_id = successor,
                                       !.entity_generation = registry[successor].generation]
<1>1. n \in NodeIds /\ nodes[n] \in NodeRecords
  BY DEF RebindIdentity, IInv, SoundGraph, SoundNodes, IsNodeMap
<1>2. successor \in Entities /\ registry[successor].generation \in Nat
  BY RegistryRecords DEF RebindIdentity, IsLiveEntity, IInv
<1>3. updated \in NodeRecords /\ updated.entity_id = successor
  BY <1>1, <1>2 DEF NodeRecords
<1>4. /\ ReplaceBinding(n, updated)
      /\ NodesOfEntity(nodes, successor) \subseteq {n}
      /\ UNCHANGED <<authority, registry>>
  BY DEF RebindIdentity
<1> HIDE DEF updated
<1> QED
  BY <1>1, <1>3, <1>4, ReplaceBindingSound

LEMMA AddRelationshipSound ==
  ASSUME IInv, NEW ctx \in Contexts, NEW req \in LinkRequests, AddRelationship(ctx, req)
  PROVE  IInv'
<1> DEFINE byKey == {e \in DOMAIN edges : SameKey(edges[e], req)}
           new == NewEdge(ctx, req)
           again == ReassertedEdge(edges[req.id], req)
<1>1. SoundGraph(nodes, edges) /\ IsNodeMap(nodes) /\ IsEdgeMap(edges)
  BY DEF IInv, SoundGraph, SoundNodes, SoundEdges
<1>2. /\ req.id \in EdgeIds
      /\ req.relation \in Relations
      /\ req.from \in NodeIds
      /\ req.to \in NodeIds
      /\ req.domain \in Domains
      /\ req.attachment \in Attachments \cup {NoAttachment}
      /\ req.evidence_generation \in Nat
  BY EngineConstants
<1>3. nodes[req.from] \in NodeRecords /\ nodes[req.to] \in NodeRecords
  BY <1>1 DEF AddRelationship, IsNodeMap
<1>4. CASE byKey = {}
  <2>1. new \in EdgeRecords
    <3>1. SecondaryDomain(nodes[req.from].domain, nodes[req.to].domain, req.domain) \in Domains
      BY <1>3 DEF SecondaryDomain, NodeRecords
    <3>2. ctx \in Provenances
      BY ContextsAreProvenances
    <3> QED
      BY <1>2, <1>3, <3>1, <3>2 DEF NewEdge, EdgeRecords, NodeRecords, Lifecycles
  <2>2. /\ new.superseded_by = NoEdge
        /\ new.relation = req.relation
        /\ new.from = req.from
        /\ new.to = req.to
        /\ new.domain = req.domain
    BY DEF NewEdge
  <2>3. /\ req.id \notin DOMAIN edges
        /\ {req.from, req.to} \subseteq DOMAIN nodes
        /\ ~WouldCreateCycle(edges, req.relation, req.from, req.to)
        /\ FinalizeMutation(nodes, Put(edges, req.id, new), nodes)
        /\ UNCHANGED <<authority, registry>>
    BY <1>4 DEF AddRelationship, ValidCandidate
  <2> HIDE DEF new
  <2>4. ASSUME NEW o \in DOMAIN edges
        PROVE  Key(edges[o]) # Key(new)
    BY <1>4, <2>2, <2>4 DEF Key, SameKey
  <2>5. SoundGraph(nodes, Put(edges, req.id, new))
    BY <1>1, <1>2, <2>1, <2>2, <2>3, <2>4, NewEdgeSound
  <2> QED
    BY <1>1, <2>3, <2>5, FinalizeSound
<1>5. CASE byKey # {}
  <2>1. /\ req.id \in DOMAIN edges
        /\ IsLive(edges[req.id])
        /\ FinalizeMutation(nodes, Put(edges, req.id, again), nodes)
        /\ UNCHANGED <<authority, registry>>
    BY <1>5 DEF AddRelationship
  <2>2. edges[req.id] \in EdgeRecords
    BY <1>1, <2>1 DEF IsEdgeMap
  <2>3. /\ again \in EdgeRecords
        /\ Key(again) = Key(edges[req.id])
        /\ again.superseded_by = edges[req.id].superseded_by
    BY <1>2, <1>3, <2>2 DEF ReassertedEdge, EdgeRecords, NodeRecords, Lifecycles, Key
  <2> HIDE DEF again
  <2>4. SoundGraph(nodes, Put(edges, req.id, again))
    BY <1>1, <2>1, <2>3, UpdateEdgeSound
  <2> QED
    BY <1>1, <2>1, <2>4, FinalizeSound
<1> QED
  BY <1>4, <1>5

LEMMA ChangeEvidenceSound ==
  ASSUME IInv, NEW ctx \in Contexts, NEW e, NEW evidence \in Evidence,
         NEW lifecycle \in EvidenceLifecycles, ChangeEvidence(ctx, e, evidence, lifecycle)
  PROVE  IInv'
<1> DEFINE changed == [edges[e] EXCEPT
                         !.evidence_generation = evidence,
                         !.lifecycle = lifecycle,
                         !.provenance = IF lifecycle = "CURRENT" THEN ctx ELSE @]
<1>1. /\ SoundGraph(nodes, edges)
      /\ e \in DOMAIN edges
      /\ IsLive(edges[e])
      /\ FinalizeMutation(nodes, Put(edges, e, changed), nodes)
      /\ UNCHANGED <<authority, registry>>
  BY DEF IInv, ChangeEvidence
<1>2. edges[e] \in EdgeRecords
  BY <1>1 DEF SoundGraph, SoundEdges, IsEdgeMap
<1>3. /\ changed \in EdgeRecords
      /\ Key(changed) = Key(edges[e])
      /\ changed.superseded_by = edges[e].superseded_by
  BY <1>2, EngineConstants, ContextsAreProvenances DEF EdgeRecords, Key
<1> HIDE DEF changed
<1>4. SoundGraph(nodes, Put(edges, e, changed))
  BY <1>1, <1>3, UpdateEdgeSound
<1> QED
  BY <1>1, <1>4, FinalizeSound

LEMMA SupersedeRelationshipSound ==
  ASSUME IInv, NEW ctx, NEW e, NEW replacement, SupersedeRelationship(ctx, e, replacement)
  PROVE  IInv'
<1>1. SoundGraph(nodes, Put(edges, e, [edges[e] EXCEPT !.lifecycle = "SUPERSEDED",
                                                       !.superseded_by = replacement]))
  BY SupersedeSound DEF SupersedeRelationship, IInv
<1> QED
  BY <1>1, FinalizeSound DEF SupersedeRelationship, IInv

LEMMA RetireRelationshipSound ==
  ASSUME IInv, NEW ctx, NEW e, RetireRelationship(ctx, e)
  PROVE  IInv'
<1> DEFINE retired == [edges[e] EXCEPT !.lifecycle = "RETIRED"]
<1>1. /\ SoundGraph(nodes, edges)
      /\ e \in DOMAIN edges
      /\ FinalizeMutation(nodes, Put(edges, e, retired), nodes)
      /\ UNCHANGED <<authority, registry>>
  BY DEF IInv, RetireRelationship
<1>2. edges[e] \in EdgeRecords
  BY <1>1 DEF SoundGraph, SoundEdges, IsEdgeMap
<1>3. /\ retired \in EdgeRecords
      /\ Key(retired) = Key(edges[e])
      /\ ~IsLive(retired)
      /\ retired.superseded_by = edges[e].superseded_by
  BY <1>2 DEF EdgeRecords, Lifecycles, Key, IsLive, Terminal
<1> HIDE DEF retired
<1>4. SoundGraph(nodes, Put(edges, e, retired))
  BY <1>1, <1>3, UpdateEdgeSound
<1> QED
  BY <1>1, <1>4, FinalizeSound

-----------------------------------------------------------------------------
\* Authority, persistence and the registry.

LEMMA DemoteAndPersistSound ==
  ASSUME IInv, NEW D, D \subseteq CurrentEdges(edges), AuthorityTypeOK',
         DemoteAndPersist(D, fenced_boots', coordinator_epoch')
  PROVE  IInv'
<1>1. DirectoryTypeOK'
  BY DEF DemoteAndPersist, IInv, TypeOK, DirectoryTypeOK
<1>2. CASE UNCHANGED <<edges, generation, image>>
  BY <1>1, <1>2 DEF DemoteAndPersist, IInv, TypeOK, GraphTypeOK, ImageTypeOK
<1>3. CASE /\ edges' = Demote(edges, D)
           /\ generation' = generation + 1
           /\ image' = ImageOf(nodes, edges', generation + 1, fenced_boots', coordinator_epoch')
  <2>1. nodes' = nodes
    BY DEF DemoteAndPersist
  <2>2. SoundGraph(nodes', edges')
    BY <1>3, <2>1, DemoteSound DEF CurrentEdges, IsLive, Terminal, IInv
  <2>3. generation + 1 \in Nat
    BY DEF IInv, TypeOK, GraphTypeOK
  <2>4. GraphTypeOK'
    BY <1>3, <2>2, <2>3 DEF GraphTypeOK, SoundGraph, SoundNodes, SoundEdges
  <2>5. ImageTypeOK' /\ image'.nodes = nodes' /\ image'.edges = edges'
    BY <1>3, <2>1, <2>3, <2>4, ImageOfType DEF GraphTypeOK, AuthorityTypeOK
  <2> QED
    BY <1>1, <2>2, <2>4, <2>5 DEF IInv, TypeOK
<1> QED
  BY <1>2, <1>3 DEF DemoteAndPersist

LEMMA AdministerSound == IInv /\ Administer => IInv'
<1> SUFFICES ASSUME IInv PROVE Administer => IInv'
  OBVIOUS
<1>0. AuthorityTypeOK
  BY DEF IInv, TypeOK
<1>1. ASSUME NEW ctx \in Contexts, NEW grants \in GrantChoices, RegisterPublisher(ctx, grants)
      PROVE  IInv'
  <2> DEFINE state == [worker_boot |-> ctx.worker_boot, grants |-> grants,
                       coordinator_epoch |-> ctx.coordinator_epoch, fenced |-> FALSE]
  <2>1. ctx.publisher \in Publishers /\ state \in Registrations
    BY EngineConstants DEF Contexts, Registrations
  <2>2. /\ publishers' = Put(publishers, ctx.publisher, state)
        /\ fenced_boots' \subseteq fenced_boots \cup Boots
        /\ UNCHANGED <<graph, coordinator_epoch, image, registry>>
    BY <1>1 DEF RegisterPublisher
  <2> HIDE DEF state
  <2>3. AuthorityTypeOK'
    BY <1>0, <2>1, <2>2 DEF AuthorityTypeOK, Put
  <2> QED
    BY <2>2, <2>3
       DEF graph, IInv, TypeOK, DirectoryTypeOK, GraphTypeOK, ImageTypeOK
<1>2. ASSUME NEW p \in Publishers, NEW b \in Boots, FencePublisher(p, b)
      PROVE  IInv'
  <2>1. ASSUME NEW r \in Registrations
        PROVE  [r EXCEPT !.fenced = TRUE] \in Registrations
    BY <2>1 DEF Registrations
  <2>2. publishers' = publishers \/ (p \in DOMAIN publishers /\ publishers' = [publishers EXCEPT ![p].fenced = TRUE])
    BY <1>2 DEF FencePublisher
  <2>3. AuthorityTypeOK'
    BY <1>0, <1>2, <2>1, <2>2 DEF AuthorityTypeOK, FencePublisher
  <2>4. PICK D \in SUBSET CurrentEdges(edges) :
          DemoteAndPersist(D, fenced_boots', coordinator_epoch')
    BY <1>2 DEF FencePublisher
  <2> QED
    BY <2>3, <2>4, DemoteAndPersistSound
<1>3. ASSUME NEW b \in Boots, FenceBoot(b)
      PROVE  IInv'
  <2>1. ASSUME NEW r \in Registrations
        PROVE  [r EXCEPT !.fenced = TRUE] \in Registrations
    BY <2>1 DEF Registrations
  <2>2. AuthorityTypeOK'
    BY <1>0, <1>3, <2>1 DEF AuthorityTypeOK, FenceBoot
  <2>3. PICK D \in SUBSET CurrentEdges(edges) :
          DemoteAndPersist(D, fenced_boots', coordinator_epoch')
    BY <1>3 DEF FenceBoot
  <2> QED
    BY <2>2, <2>3, DemoteAndPersistSound
<1>4. ASSUME AdvanceCoordinatorEpoch
      PROVE  IInv'
  <2>1. AuthorityTypeOK'
    BY <1>0, <1>4 DEF AuthorityTypeOK, AdvanceCoordinatorEpoch, EmptyMap
  <2>2. DemoteAndPersist(CurrentEdges(edges), fenced_boots', coordinator_epoch')
    BY <1>4 DEF AdvanceCoordinatorEpoch
  <2> QED
    BY <2>1, <2>2, DemoteAndPersistSound
<1> QED
  BY <1>1, <1>2, <1>3, <1>4 DEF Administer

LEMMA SaveSound == IInv /\ Save => IInv'
<1> SUFFICES ASSUME IInv, Save PROVE IInv'
  OBVIOUS
<1>1. ImageTypeOK' /\ image'.nodes = nodes /\ image'.edges = edges
  BY ImageOfType DEF Save, IInv, TypeOK, GraphTypeOK, AuthorityTypeOK
<1>2. UNCHANGED <<nodes, edges, generation, publishers, fenced_boots, coordinator_epoch, registry>>
  BY DEF Save, graph, authority
<1> QED
  BY <1>1, <1>2 DEF IInv, TypeOK, DirectoryTypeOK, GraphTypeOK, AuthorityTypeOK

LEMMA RestartSound == IInv /\ Restart => IInv'
<1> SUFFICES ASSUME IInv PROVE Restart => IInv'
  OBVIOUS
<1>1. ASSUME RestartRecovered
      PROVE  IInv'
  <2> DEFINE M == [n \in DOMAIN image.nodes |->
                     IF IsCurrentRecord(registry, image.nodes[n].entity_id,
                                        image.nodes[n].entity_generation)
                     THEN image.nodes[n]
                     ELSE [image.nodes[n] EXCEPT !.lifecycle = "REVALIDATION_REQUIRED"]]
             live == {e \in DOMAIN image.edges : IsLive(image.edges[e])}
  <2>1. SoundGraph(image.nodes, image.edges) /\ ImageTypeOK
    BY DEF IInv, TypeOK
  <2>2. ASSUME NEW r \in NodeRecords
        PROVE  /\ [r EXCEPT !.lifecycle = "REVALIDATION_REQUIRED"] \in NodeRecords
               /\ [r EXCEPT !.lifecycle = "REVALIDATION_REQUIRED"].entity_id = r.entity_id
    BY <2>2 DEF NodeRecords, Lifecycles
  <2>3. /\ IsNodeMap(M)
        /\ DOMAIN M = DOMAIN image.nodes
        /\ \A n \in DOMAIN M : M[n].entity_id = image.nodes[n].entity_id
    BY <2>1, <2>2 DEF SoundGraph, SoundNodes, IsNodeMap
  <2>4. /\ nodes' = M
        /\ edges' = Demote(image.edges, live)
        /\ generation' = image.generation
        /\ publishers' = EmptyMap
        /\ fenced_boots' = image.fenced_boots
        /\ coordinator_epoch' = image.coordinator_epoch + 1
        /\ UNCHANGED <<image, registry>>
    BY <1>1 DEF RestartRecovered
  <2> HIDE DEF M
  <2>5. SoundGraph(M, image.edges)
    BY <2>1, <2>3 DEF SoundGraph, SoundNodes, UniqueEntities, ClosedEdges
  <2>6. SoundGraph(nodes', edges')
    BY <2>4, <2>5, DemoteSound
  <2>7. GraphTypeOK'
    BY <2>1, <2>4, <2>6 DEF GraphTypeOK, ImageTypeOK, SoundGraph, SoundNodes, SoundEdges
  <2>8. AuthorityTypeOK'
    BY <2>1, <2>4 DEF AuthorityTypeOK, ImageTypeOK, EmptyMap
  <2> QED
    BY <2>4, <2>6, <2>7, <2>8 DEF IInv, TypeOK, DirectoryTypeOK, ImageTypeOK
<1>2. ASSUME RestartFresh
      PROVE  IInv'
  <2>1. /\ nodes' = EmptyMap
        /\ edges' = EmptyMap
        /\ generation' = 0
        /\ UNCHANGED <<image, registry>>
    BY <1>2 DEF RestartFresh, FreshEngine
  <2>2. AuthorityTypeOK'
    BY <1>2 DEF RestartFresh, FreshEngine, AuthorityTypeOK, EmptyMap, InitialEpoch
  <2>3. SoundGraph(nodes', edges') /\ GraphTypeOK'
    BY <2>1, EmptyGraphSound, EmptyMapType DEF GraphTypeOK
  <2> QED
    BY <2>1, <2>2, <2>3 DEF IInv, TypeOK, DirectoryTypeOK, ImageTypeOK
<1> QED
  BY <1>1, <1>2 DEF Restart

LEMMA RegistryMovesSound == IInv /\ RegistryMoves => IInv'
<1> SUFFICES ASSUME IInv, RegistryMoves PROVE IInv'
  OBVIOUS
<1>1. DirectoryTypeOK
  BY DEF IInv, TypeOK
<1>2. FreshRecord \in EntityRecords
  BY DEF FreshRecord, EntityRecords
<1>3. ASSUME NEW x \in Entities, DirectoryAdd(x)
      PROVE  DirectoryTypeOK'
  BY <1>1, <1>2, <1>3 DEF DirectoryAdd, DirectoryTypeOK, Put
<1>4. ASSUME NEW x \in Entities, DirectoryRetire(x)
      PROVE  DirectoryTypeOK'
  BY <1>1, <1>4 DEF DirectoryRetire, DirectoryTypeOK, EntityRecords
<1>5. ASSUME NEW x \in Entities, NEW successor \in Entities, DirectorySupersede(x, successor)
      PROVE  DirectoryTypeOK'
  <2> DEFINE marked == [registry EXCEPT ![x].superseded = TRUE]
  <2>1. DOMAIN marked = DOMAIN registry /\ marked \in [DOMAIN registry -> EntityRecords]
    BY <1>1, <1>5 DEF DirectorySupersede, DirectoryTypeOK, EntityRecords
  <2>2. registry' = Put(marked, successor, FreshRecord)
    BY <1>5 DEF DirectorySupersede
  <2> HIDE DEF marked
  <2> QED
    BY <1>1, <1>2, <2>1, <2>2 DEF DirectoryTypeOK, Put
<1>6. ASSUME NEW x \in Entities, NEW g \in 1..MaxEntityGeneration, DirectoryBump(x, g)
      PROVE  DirectoryTypeOK'
  <2>1. g \in Nat
    BY DirectoryConstants
  <2> QED
    BY <1>1, <1>6, <2>1 DEF DirectoryBump, DirectoryTypeOK, EntityRecords
<1>7. DirectoryTypeOK'
  BY <1>3, <1>4, <1>5, <1>6 DEF RegistryMoves, DirectoryNext
<1> QED
  BY <1>7
     DEF RegistryMoves, graph, authority, IInv, TypeOK, GraphTypeOK, AuthorityTypeOK, ImageTypeOK

LEMMA NextSound == IInv /\ [Next]_vars => IInv'
<1> SUFFICES ASSUME IInv, [Next]_vars PROVE IInv'
  OBVIOUS
<1>1. ASSUME NEW ctx \in Contexts, MutateNodes(ctx)
      PROVE  IInv'
  <2>1. ASSUME NEW r \in Replacements, ReplaceEntityGeneration(ctx, r[1], r[2])
        PROVE  IInv'
    <3>1. r[2] \in Nat
      BY EngineConstants
    <3> QED
      BY <2>1, <3>1, ReplaceEntityGenerationSound
  <2>2. ASSUME NEW r \in Successors, RebindIdentity(ctx, r[1], r[2])
        PROVE  IInv'
    BY <2>2, RebindIdentitySound
  <2> QED
    BY <1>1, <2>1, <2>2, AddNodeSound, RemoveNodeStep DEF MutateNodes
<1>2. ASSUME NEW ctx \in Contexts, MutateEdges(ctx)
      PROVE  IInv'
  BY <1>2, AddRelationshipSound, ChangeEvidenceSound, SupersedeRelationshipSound,
     RetireRelationshipSound DEF MutateEdges
<1>3. CASE UNCHANGED vars
  BY <1>3 DEF vars, IInv, TypeOK, DirectoryTypeOK, GraphTypeOK, AuthorityTypeOK, ImageTypeOK
<1> QED
  BY <1>1, <1>2, <1>3, AdministerSound, SaveSound, RestartSound, RegistryMovesSound DEF Next

\* The inductive invariant holds in every reachable state.
THEOREM EngineIsSound == Spec => []IInv
BY InitSound, NextSound, PTL DEF Spec

\* The graph, the registrations and the image keep their types.
THEOREM EngineIsTyped == Spec => []TypeOK
<1>1. IInv => TypeOK
  BY DEF IInv
<1> QED
  BY <1>1, EngineIsSound, PTL

\* However nodes and edges are added, removed, undone and recovered, no edge
\* names a node that is not there.
THEOREM EdgesNeverDangle == Spec => []NoDanglingEdge
<1>1. IInv => NoDanglingEdge
  BY DEF IInv, SoundGraph, ClosedEdges, NoDanglingEdge
<1> QED
  BY <1>1, EngineIsSound, PTL

\* An entity is bound to one node, even after an undone rebinding.
THEOREM EntitiesAreBoundOnce == Spec => []OneNodePerEntity
<1>1. IInv => OneNodePerEntity
  BY DEF IInv, SoundGraph, SoundNodes, UniqueEntities, OneNodePerEntity
<1> QED
  BY <1>1, EngineIsSound, PTL

\* A relationship has one edge.
THEOREM RelationshipsHaveOneEdge == Spec => []OneEdgePerKey
<1>1. IInv => OneEdgePerKey
  BY DEF IInv, SoundGraph, SoundEdges, UniqueKeys, OneEdgePerKey
<1> QED
  BY <1>1, EngineIsSound, PTL

\* The acyclic relations have no cycle of live edges, in memory or on disk.
THEOREM NoCycleEver == Spec => []AcyclicRelationsStayAcyclic
<1>1. IInv => AcyclicRelationsStayAcyclic
  BY DEF IInv, SoundGraph, SoundEdges, AcyclicEdges, AcyclicRelationsStayAcyclic
<1> QED
  BY <1>1, EngineIsSound, PTL

\* Following superseded_by ends.
THEOREM SupersessionAlwaysEnds == Spec => []SupersessionEnds
<1>1. IInv => SupersessionEnds
  BY DEF IInv, SoundGraph, SoundEdges, ChainsEnd, SupersessionEnds
<1> QED
  BY <1>1, EngineIsSound, PTL

-----------------------------------------------------------------------------
(***************************************************************************)
(* Retired and superseded edges stay so.  Recovery replaces the edges by   *)
(* those of the image, so the image has to know of every terminal edge:    *)
(* fencing and epoch changes that write nothing must not have ended one.   *)
(***************************************************************************)

TerminalIsDurable ==
  \A e \in DOMAIN edges \cap DOMAIN image.edges :
    ~IsLive(edges[e]) => image.edges[e].lifecycle = edges[e].lifecycle

\* The edges F keep every end that the edges E have come to.
KeepsTerminal(E, F) ==
  \A e \in DOMAIN E \cap DOMAIN F :
    /\ E[e].lifecycle = "RETIRED" => F[e].lifecycle = "RETIRED"
    /\ ~IsLive(E[e]) => F[e].lifecycle \in Terminal

LEMMA PutKeepsTerminal ==
  ASSUME NEW E, NEW e, NEW new,
         e \in DOMAIN E =>
           /\ E[e].lifecycle = "RETIRED" => new.lifecycle = "RETIRED"
           /\ ~IsLive(E[e]) => new.lifecycle \in Terminal
  PROVE  KeepsTerminal(E, Put(E, e, new))
BY DEF KeepsTerminal, Put, IsLive

LEMMA WithoutKeepsTerminal ==
  ASSUME NEW E, NEW K
  PROVE  KeepsTerminal(E, Without(E, K))
BY DEF KeepsTerminal, Without, IsLive

LEMMA DemoteKeepsTerminal ==
  ASSUME NEW E, NEW D, \A e \in D \cap DOMAIN E : IsLive(E[e])
  PROVE  KeepsTerminal(E, Demote(E, D))
BY DEF KeepsTerminal, Demote, IsLive, Terminal

LEMMA RebindKeepsTerminal ==
  ASSUME NEW E, NEW n, NEW g
  PROVE  KeepsTerminal(E, RebindIncident(E, n, g))
BY DEF KeepsTerminal, RebindIncident, IsLive, Terminal

LEMMA SameEdgesKeepTerminal ==
  ASSUME NEW E
  PROVE  KeepsTerminal(E, E)
BY DEF KeepsTerminal, IsLive

LEMMA WrittenIsDurable ==
  ASSUME NEW N, NEW g, NEW fenced, NEW epoch, image' = ImageOf(N, edges', g, fenced, epoch)
  PROVE  TerminalIsDurable'
<1>1. image'.edges = edges'
  BY DEF ImageOf
<1> QED
  BY <1>1 DEF TerminalIsDurable

LEMMA FinalizeKeepsTerminal ==
  ASSUME TerminalIsDurable, NEW N, NEW E, NEW undone, KeepsTerminal(edges, E),
         FinalizeMutation(N, E, undone)
  PROVE  TerminalIsDurable' /\ KeepsTerminal(edges, edges')
<1>1. CASE edges' = E /\ image' = ImageOf(N, E, generation + 1, fenced_boots, coordinator_epoch)
  BY <1>1, WrittenIsDurable
<1>2. CASE UNCHANGED <<edges, generation, image>>
  BY <1>2, SameEdgesKeepTerminal DEF TerminalIsDurable
<1> QED
  BY <1>1, <1>2 DEF FinalizeMutation

LEMMA DemoteAndPersistKeepsTerminal ==
  ASSUME TerminalIsDurable, NEW D, D \subseteq CurrentEdges(edges), NEW fenced, NEW epoch,
         DemoteAndPersist(D, fenced, epoch)
  PROVE  TerminalIsDurable' /\ KeepsTerminal(edges, edges')
<1>1. CASE /\ edges' = Demote(edges, D)
           /\ image' = ImageOf(nodes, edges', generation + 1, fenced, epoch)
  <2>1. KeepsTerminal(edges, edges')
    BY <1>1, DemoteKeepsTerminal DEF CurrentEdges, IsLive, Terminal
  <2> QED
    BY <1>1, <2>1, WrittenIsDurable
<1>2. CASE UNCHANGED <<edges, generation, image>>
  BY <1>2, SameEdgesKeepTerminal DEF TerminalIsDurable
<1> QED
  BY <1>1, <1>2 DEF DemoteAndPersist

LEMMA NodeStepsKeepTerminal ==
  ASSUME TerminalIsDurable, NEW ctx \in Contexts, MutateNodes(ctx)
  PROVE  TerminalIsDurable' /\ KeepsTerminal(edges, edges')
<1> DEFINE Goal == TerminalIsDurable' /\ KeepsTerminal(edges, edges')
<1>1. ASSUME NEW req \in NodeRequests, AddNode(ctx, req)
      PROVE  Goal
  <2>1. PICK N, E : /\ FinalizeMutation(N, E, nodes)
                    /\ E = edges \/ \E g : E = RebindIncident(edges, req.node_id, g)
    BY <1>1 DEF AddNode
  <2>2. KeepsTerminal(edges, E)
    BY <2>1, RebindKeepsTerminal, SameEdgesKeepTerminal
  <2> QED
    BY <2>1, <2>2, FinalizeKeepsTerminal
<1>2. ASSUME NEW n, NEW cascade, RemoveNode(ctx, n, cascade)
      PROVE  Goal
  BY <1>2, WithoutKeepsTerminal, FinalizeKeepsTerminal DEF RemoveNode
<1>3. ASSUME NEW n, NEW updated, ReplaceBinding(n, updated)
      PROVE  Goal
  BY <1>3, RebindKeepsTerminal, FinalizeKeepsTerminal DEF ReplaceBinding
<1> QED
  BY <1>1, <1>2, <1>3 DEF MutateNodes, ReplaceEntityGeneration, RebindIdentity

LEMMA EdgeStepsKeepTerminal ==
  ASSUME IInv, TerminalIsDurable, NEW ctx \in Contexts, MutateEdges(ctx)
  PROVE  TerminalIsDurable' /\ KeepsTerminal(edges, edges')
<1> DEFINE Goal == TerminalIsDurable' /\ KeepsTerminal(edges, edges')
<1>1. ASSUME NEW e \in DOMAIN edges
      PROVE  edges[e] \in EdgeRecords
  BY <1>1 DEF IInv, SoundGraph, SoundEdges, IsEdgeMap
<1>2. ASSUME NEW req \in LinkRequests, AddRelationship(ctx, req)
      PROVE  Goal
  <2>1. PICK new : FinalizeMutation(nodes, Put(edges, req.id, new), nodes)
    BY <1>2 DEF AddRelationship
  <2>2. req.id \in DOMAIN edges => IsLive(edges[req.id])
    BY <1>2 DEF AddRelationship
  <2>3. KeepsTerminal(edges, Put(edges, req.id, new))
    BY <2>2, PutKeepsTerminal DEF IsLive, Terminal
  <2> QED
    BY <2>1, <2>3, FinalizeKeepsTerminal
<1>3. ASSUME NEW e, NEW evidence, NEW lifecycle, ChangeEvidence(ctx, e, evidence, lifecycle)
      PROVE  Goal
  <2>1. PICK new : FinalizeMutation(nodes, Put(edges, e, new), nodes) /\ IsLive(edges[e])
    BY <1>3 DEF ChangeEvidence
  <2>2. KeepsTerminal(edges, Put(edges, e, new))
    BY <2>1, PutKeepsTerminal DEF IsLive, Terminal
  <2> QED
    BY <2>1, <2>2, FinalizeKeepsTerminal
<1>4. ASSUME NEW e, NEW replacement, SupersedeRelationship(ctx, e, replacement)
      PROVE  Goal
  <2> DEFINE new == [edges[e] EXCEPT !.lifecycle = "SUPERSEDED", !.superseded_by = replacement]
  <2>1. /\ FinalizeMutation(nodes, Put(edges, e, new), nodes)
        /\ e \in DOMAIN edges
        /\ edges[e].lifecycle # "RETIRED"
    BY <1>4 DEF SupersedeRelationship
  <2>2. new.lifecycle = "SUPERSEDED"
    BY <1>1, <2>1 DEF EdgeRecords
  <2> HIDE DEF new
  <2>3. KeepsTerminal(edges, Put(edges, e, new))
    BY <2>1, <2>2, PutKeepsTerminal DEF Terminal
  <2> QED
    BY <2>1, <2>3, FinalizeKeepsTerminal
<1>5. ASSUME NEW e, RetireRelationship(ctx, e)
      PROVE  Goal
  <2> DEFINE new == [edges[e] EXCEPT !.lifecycle = "RETIRED"]
  <2>1. FinalizeMutation(nodes, Put(edges, e, new), nodes) /\ e \in DOMAIN edges
    BY <1>5 DEF RetireRelationship
  <2>2. new.lifecycle = "RETIRED"
    BY <1>1, <2>1 DEF EdgeRecords
  <2> HIDE DEF new
  <2>3. KeepsTerminal(edges, Put(edges, e, new))
    BY <2>2, PutKeepsTerminal DEF Terminal
  <2> QED
    BY <2>1, <2>3, FinalizeKeepsTerminal
<1> QED
  BY <1>2, <1>3, <1>4, <1>5 DEF MutateEdges

LEMMA NextKeepsTerminal ==
  ASSUME IInv, TerminalIsDurable, [Next]_vars
  PROVE  TerminalIsDurable' /\ KeepsTerminal(edges, edges')
<1> DEFINE Goal == TerminalIsDurable' /\ KeepsTerminal(edges, edges')
<1>1. ASSUME Administer
      PROVE  Goal
  <2>1. ASSUME NEW ctx, NEW grants, RegisterPublisher(ctx, grants)
        PROVE  Goal
    BY <2>1, SameEdgesKeepTerminal DEF RegisterPublisher, graph, TerminalIsDurable
  <2>2. ASSUME NEW D \in SUBSET CurrentEdges(edges), NEW fenced, NEW epoch,
               DemoteAndPersist(D, fenced, epoch)
        PROVE  Goal
    BY <2>2, DemoteAndPersistKeepsTerminal
  <2>3. ASSUME NEW p, NEW b, FencePublisher(p, b)
        PROVE  Goal
    <3>1. PICK D \in SUBSET CurrentEdges(edges) :
            DemoteAndPersist(D, fenced_boots', coordinator_epoch)
      BY <2>3 DEF FencePublisher
    <3> QED
      BY <2>2, <3>1
  <2>4. ASSUME NEW b, FenceBoot(b)
        PROVE  Goal
    <3>1. PICK D \in SUBSET CurrentEdges(edges) :
            DemoteAndPersist(D, fenced_boots', coordinator_epoch)
      BY <2>4 DEF FenceBoot
    <3> QED
      BY <2>2, <3>1
  <2>5. ASSUME AdvanceCoordinatorEpoch
        PROVE  Goal
    BY <2>2, <2>5 DEF AdvanceCoordinatorEpoch
  <2> QED
    BY <1>1, <2>1, <2>3, <2>4, <2>5 DEF Administer
<1>2. ASSUME Save
      PROVE  Goal
  <2>1. edges' = edges /\ image' = ImageOf(nodes, edges', generation, fenced_boots, coordinator_epoch)
    BY <1>2 DEF Save, graph
  <2> QED
    BY <2>1, WrittenIsDurable, SameEdgesKeepTerminal
<1>3. ASSUME RestartRecovered
      PROVE  Goal
  <2> DEFINE live == {e \in DOMAIN image.edges : IsLive(image.edges[e])}
  <2>1. edges' = Demote(image.edges, live) /\ image' = image
    BY <1>3 DEF RestartRecovered
  <2>2. DOMAIN edges' = DOMAIN image.edges
    BY <2>1 DEF Demote
  <2>3. ASSUME NEW e \in DOMAIN image.edges, ~IsLive(image.edges[e])
        PROVE  edges'[e] = image.edges[e]
    BY <2>1, <2>3 DEF Demote
  <2>4. ASSUME NEW e \in DOMAIN image.edges, IsLive(image.edges[e])
        PROVE  IsLive(edges'[e])
    <3>1. image.edges[e] \in EdgeRecords
      BY DEF IInv, SoundGraph, SoundEdges, IsEdgeMap
    <3> QED
      BY <2>1, <2>4, <3>1 DEF Demote, IsLive, Terminal, EdgeRecords
  <2>5. TerminalIsDurable'
    BY <2>1, <2>2, <2>3, <2>4 DEF TerminalIsDurable
  <2>6. KeepsTerminal(edges, edges')
    BY <2>2, <2>3 DEF TerminalIsDurable, KeepsTerminal, IsLive, Terminal
  <2> QED
    BY <2>5, <2>6
<1>4. ASSUME RestartFresh
      PROVE  Goal
  BY <1>4 DEF RestartFresh, FreshEngine, EmptyMap, TerminalIsDurable, KeepsTerminal
<1>5. CASE UNCHANGED <<edges, image>>
  BY <1>5, SameEdgesKeepTerminal DEF TerminalIsDurable
<1> QED
  BY <1>1, <1>2, <1>3, <1>4, <1>5, NodeStepsKeepTerminal, EdgeStepsKeepTerminal
     DEF Next, Restart, RegistryMoves, graph, vars

\* Once retired or superseded, an edge never lives again while it exists, not
\* even after a crash between any two steps.
THEOREM TerminalEdgesStayTerminal == Spec => TerminalIsForever
<1>1. Init => TerminalIsDurable
  BY DEF Init, EmptyMap, TerminalIsDurable
<1>2. IInv /\ TerminalIsDurable /\ [Next]_vars => TerminalIsDurable'
  BY NextKeepsTerminal
<1>3. IInv /\ TerminalIsDurable /\ [Next]_vars
        => [\A e \in DOMAIN edges \cap DOMAIN edges' :
              /\ edges[e].lifecycle = "RETIRED" => edges'[e].lifecycle = "RETIRED"
              /\ edges[e].lifecycle = "SUPERSEDED" => edges'[e].lifecycle \in Terminal]_vars
  BY NextKeepsTerminal DEF KeepsTerminal, IsLive, Terminal
<1> QED
  BY <1>1, <1>2, <1>3, EngineIsSound, PTL DEF Spec, TerminalIsForever

=============================================================================
