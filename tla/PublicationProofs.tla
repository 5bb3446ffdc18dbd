-------------------------- MODULE PublicationProofs --------------------------
(***************************************************************************)
(* Proofs about Publication: what publish makes of any publication, entry  *)
(* by entry, and what the properties of the module follow from.            *)
(***************************************************************************)
EXTENDS Publication, EngineActionProofs, FiniteSetTheorems

-----------------------------------------------------------------------------
(***************************************************************************)
(* Observed nodes.                                                         *)
(***************************************************************************)

Observed(pub) == {o.node_id : o \in PresentNodes(pub)}

\* The entry that decides about an observed node.
EntryOf(pub, n) == CHOOSE o \in PresentNodes(pub) : o.node_id = n

LEMMA EntryOfNode ==
  ASSUME NEW pub, NEW n \in Observed(pub)
  PROVE  EntryOf(pub, n) \in PresentNodes(pub) /\ EntryOf(pub, n).node_id = n
BY DEF Observed, EntryOf

\* What reconciling the nodes keeps, and what it adds.
GrownNodes(pub, N, M) ==
  /\ DOMAIN N \subseteq DOMAIN M
  /\ \A n \in DOMAIN N :
       /\ M[n].entity_id = N[n].entity_id
       /\ M[n].domain = N[n].domain
       /\ M[n].lifecycle \in {N[n].lifecycle, "CURRENT"}
  /\ \A n \in DOMAIN M \ DOMAIN N : n \in {o.node_id : o \in pub.nodes}

LEMMA ReconciledNodesSound ==
  ASSUME IInv, NEW pub \in Publications, NodesAcceptable(pub)
  PROVE  /\ SoundNodes(ReconciledNodes(nodes, pub))
         /\ GrownNodes(pub, nodes, ReconciledNodes(nodes, pub))
<1> DEFINE M == ReconciledNodes(nodes, pub)
<1>1. /\ DOMAIN M = DOMAIN nodes \cup Observed(pub)
      /\ \A n \in DOMAIN M :
           M[n] = IF n \in Observed(pub) THEN ObservedNode(nodes, EntryOf(pub, n)) ELSE nodes[n]
  BY DEF ReconciledNodes, Observed, EntryOf
<1>2. IsNodeMap(nodes) /\ UniqueEntities(nodes)
  BY DEF IInv, SoundGraph, SoundNodes
<1>3. ASSUME NEW n \in Observed(pub)
      PROVE  /\ n \in NodeIds
             /\ M[n] \in NodeRecords
             /\ M[n].entity_id = EntryOf(pub, n).entity_id
             /\ n \in DOMAIN nodes =>
                  /\ M[n].entity_id = nodes[n].entity_id
                  /\ M[n].domain = nodes[n].domain
                  /\ M[n].lifecycle = "CURRENT"
             /\ n \notin DOMAIN nodes => NodesOfEntity(nodes, EntryOf(pub, n).entity_id) = {}
  <2> DEFINE o == EntryOf(pub, n)
  <2>1. o \in PresentNodes(pub) /\ o.node_id = n
    BY EntryOfNode
  <2>2. o \in ObservedNodes
    BY <2>1, PublicationConstants DEF PresentNodes
  <2>3. /\ IsLiveEntity(o.entity_id)
        /\ \/ n \in DOMAIN nodes /\ nodes[n].entity_id = o.entity_id
           \/ n \notin DOMAIN nodes /\ NodesOfEntity(nodes, o.entity_id) = {}
    BY <2>1 DEF NodesAcceptable
  <2>4. registry[o.entity_id].generation \in Nat
    BY <2>3, RegistryRecords DEF IInv, IsLiveEntity
  <2>5. M[n] = ObservedNode(nodes, o)
    BY <1>1
  <2> HIDE DEF M, o
  <2>6. CASE n \in DOMAIN nodes
    <3>1. nodes[n] \in NodeRecords
      BY <1>2, <2>6 DEF IsNodeMap
    <3>2. M[n] = [nodes[n] EXCEPT !.entity_generation = registry[o.entity_id].generation,
                                  !.tier = o.tier, !.lifecycle = "CURRENT"]
      BY <2>1, <2>5, <2>6 DEF ObservedNode
    <3> QED
      BY <2>1, <2>2, <2>3, <2>4, <2>6, <3>1, <3>2 DEF NodeRecords, ObservedNodes, Lifecycles, o
  <2>7. CASE n \notin DOMAIN nodes
    <3>1. M[n] = [entity_id |-> o.entity_id,
                  entity_generation |-> registry[o.entity_id].generation,
                  node_class |-> o.node_class, tier |-> o.tier,
                  domain |-> o.domain, lifecycle |-> "CURRENT"]
      BY <2>1, <2>5, <2>7 DEF ObservedNode
    <3> QED
      BY <2>1, <2>2, <2>3, <2>4, <2>7, <3>1 DEF NodeRecords, ObservedNodes, Lifecycles, o
  <2> QED
    BY <2>6, <2>7
<1>4. M = [n \in DOMAIN M |-> M[n]]
  BY DEF ReconciledNodes
<1> HIDE DEF M
<1>5. IsNodeMap(M)
  BY <1>1, <1>2, <1>3, <1>4 DEF IsNodeMap
<1>6. UniqueEntities(M)
  <2> SUFFICES ASSUME NEW n \in DOMAIN M, NEW m \in DOMAIN M, M[n].entity_id = M[m].entity_id
               PROVE  n = m
    BY DEF UniqueEntities
  <2>1. CASE n \in Observed(pub) /\ m \in Observed(pub)
    <3>1. EntryOf(pub, n) = EntryOf(pub, m)
      BY <1>3, <2>1, EntryOfNode DEF NodesAcceptable
    <3> QED
      BY <2>1, <3>1, EntryOfNode
  <2>2. ASSUME NEW k \in Observed(pub), NEW j \in DOMAIN nodes \ Observed(pub),
               M[k].entity_id = M[j].entity_id
        PROVE  k = j
    <3>1. M[j] = nodes[j]
      BY <1>1
    <3> QED
      BY <1>2, <1>3, <2>2, <3>1 DEF UniqueEntities, NodesOfEntity
  <2>3. CASE n \notin Observed(pub) /\ m \notin Observed(pub)
    BY <1>1, <1>2, <2>3 DEF UniqueEntities
  <2> QED
    BY <1>1, <2>1, <2>2, <2>3
<1>7. GrownNodes(pub, nodes, M)
  BY <1>1, <1>3 DEF GrownNodes, Observed, PresentNodes
<1> QED
  BY <1>5, <1>6, <1>7 DEF SoundNodes, M

\* Reconciling a publication's nodes once more has nothing to do.
NodesSettled(pub, M) ==
  \A o \in PresentNodes(pub) :
    /\ o.node_id \in DOMAIN M
    /\ M[o.node_id].entity_generation = registry[o.entity_id].generation
    /\ M[o.node_id].tier = o.tier
    /\ M[o.node_id].lifecycle = "CURRENT"

LEMMA ReconciledNodesSettled ==
  ASSUME IInv, NEW pub \in Publications, NodesAcceptable(pub)
  PROVE  NodesSettled(pub, ReconciledNodes(nodes, pub))
<1> DEFINE M == ReconciledNodes(nodes, pub)
<1> SUFFICES ASSUME NEW o \in PresentNodes(pub)
             PROVE  /\ o.node_id \in DOMAIN M
                    /\ M[o.node_id].entity_generation = registry[o.entity_id].generation
                    /\ M[o.node_id].tier = o.tier
                    /\ M[o.node_id].lifecycle = "CURRENT"
  BY DEF NodesSettled
<1> DEFINE n == o.node_id
<1>1. n \in Observed(pub)
  BY DEF Observed
<1>2. EntryOf(pub, n) = o
  BY <1>1, EntryOfNode DEF NodesAcceptable, PresentNodes
<1>3. n \in DOMAIN M /\ M[n] = ObservedNode(nodes, o)
  BY <1>1, <1>2 DEF ReconciledNodes, Observed, EntryOf
<1>4. n \in DOMAIN nodes => nodes[n] \in NodeRecords
  BY DEF IInv, SoundGraph, SoundNodes, IsNodeMap
<1> HIDE DEF M
<1> QED
  BY <1>3, <1>4 DEF ObservedNode, NodeRecords

LEMMA RebindAllSound ==
  ASSUME NEW N, NEW E, SoundGraph(N, E), NEW M, SoundNodes(M), DOMAIN N \subseteq DOMAIN M
  PROVE  /\ SoundGraph(M, RebindAll(N, M, E))
         /\ HasFewerLive(RebindAll(N, M, E), E)
<1> DEFINE moved == {n \in DOMAIN N : M[n].entity_generation # N[n].entity_generation}
           F == RebindAll(N, M, E)
           followed(r) ==
             [r EXCEPT
                !.from_entity_generation =
                  IF r.from \in moved THEN M[r.from].entity_generation ELSE @,
                !.to_entity_generation =
                  IF r.to \in moved THEN M[r.to].entity_generation ELSE @,
                !.lifecycle = "REVALIDATION_REQUIRED"]
<1>1. \A n \in moved : M[n].entity_generation \in Nat
  BY DEF SoundNodes, IsNodeMap, NodeRecords
<1>2. IsEdgeMap(E)
  BY DEF SoundGraph, SoundEdges
<1>3. /\ DOMAIN F = DOMAIN E
      /\ F = [e \in DOMAIN E |-> F[e]]
      /\ \A e \in DOMAIN E :
           F[e] = IF IsLive(E[e]) /\ {E[e].from, E[e].to} \cap moved # {}
                  THEN followed(E[e]) ELSE E[e]
  BY DEF RebindAll
<1> HIDE DEF moved, F
<1>4. ASSUME NEW r \in EdgeRecords
      PROVE  /\ followed(r) \in EdgeRecords
             /\ Key(followed(r)) = Key(r)
             /\ followed(r).superseded_by = r.superseded_by
  BY <1>1 DEF EdgeRecords, Lifecycles, Key
<1> HIDE DEF followed
<1>5. IsEdgeMap(F)
  BY <1>2, <1>3, <1>4 DEF IsEdgeMap
<1>6. HasFewerLive(F, E) /\ \A e \in DOMAIN E : F[e].superseded_by = E[e].superseded_by
  BY <1>2, <1>3, <1>4 DEF HasFewerLive, IsEdgeMap
<1>7. SoundGraph(M, E)
  BY DEF SoundGraph, ClosedEdges
<1> QED
  BY <1>5, <1>6, <1>7, FewerLiveEdgesSound DEF F

-----------------------------------------------------------------------------
(***************************************************************************)
(* Candidate states.                                                       *)
(***************************************************************************)

EdgeMaps == UNION {[D -> EdgeRecords] : D \in SUBSET EdgeIds}

\* Candidates with the reconciled nodes M.
Candidates(M) == [valid : BOOLEAN, changed : BOOLEAN, nodes : {M}, edges : EdgeMaps]

LEMMA EdgeMapsAre ==
  ASSUME NEW E
  PROVE  E \in EdgeMaps <=> IsEdgeMap(E)
BY DEF EdgeMaps, IsEdgeMap

LEMMA WithoutEdgesSound ==
  ASSUME NEW N, NEW E, SoundGraph(N, E), NEW D
  PROVE  SoundGraph(N, Without(E, D))
<1> DEFINE F == Without(E, D)
<1>1. DOMAIN F = DOMAIN E \ D /\ \A x \in DOMAIN F : F[x] = E[x]
  BY DEF Without
<1>2. IsEdgeMap(F)
  BY WithoutEdgeType DEF SoundGraph, SoundEdges
<1> HIDE DEF F
<1>3. ClosedEdges(N, F) /\ UniqueKeys(F) /\ LiveEdgesPointNowhere(F) /\ ChainsEnd(F)
  BY <1>1
     DEF ClosedEdges, UniqueKeys, LiveEdgesPointNowhere, ChainsEnd, SoundGraph, SoundEdges
<1>4. ASSUME NEW r, NEW x \in DOMAIN F, NEW a, NEW b, Leads(F, r, x, a, b)
      PROVE  x \in DOMAIN E /\ Leads(E, r, x, a, b)
  BY <1>1, <1>4 DEF Leads
<1>5. AcyclicEdges(F)
  BY <1>4 DEF AcyclicEdges, IsAcyclic, SoundGraph, SoundEdges
<1> QED
  BY <1>2, <1>3, <1>5 DEF SoundGraph, SoundEdges, F

\* The edges a candidate has once the edges D were dropped from it.
Kept(pub, E, D) ==
  IF IsSnapshot(pub) THEN Without(E, D)
  ELSE [e \in DOMAIN E |-> IF e \in D THEN [E[e] EXCEPT !.lifecycle = "RETIRED"] ELSE E[e]]

LEMMA DropKeeps ==
  ASSUME NEW M, NEW c \in Candidates(M), NEW pub, NEW D
  PROVE  /\ Drop(pub, c, D) = [valid |-> c.valid, changed |-> c.changed \/ D # {},
                               nodes |-> M, edges |-> Kept(pub, c.edges, D)]
<1>1. Drop(pub, c, D) = [c EXCEPT !.changed = @ \/ D # {}, !.edges = Kept(pub, @, D)]
  BY DEF Drop, Kept
<1> QED
  BY <1>1 DEF Candidates

LEMMA DropFields ==
  ASSUME NEW M, NEW c \in Candidates(M), NEW pub, NEW D, NEW d, d = Drop(pub, c, D)
  PROVE  /\ d.valid = c.valid
         /\ d.changed <=> c.changed \/ D # {}
         /\ d.changed \in BOOLEAN
         /\ d.edges = Kept(pub, c.edges, D)
         /\ d = [valid |-> d.valid, changed |-> d.changed, nodes |-> M, edges |-> d.edges]
<1>1. c.changed \in BOOLEAN /\ c.valid \in BOOLEAN
  BY DEF Candidates
<1> DEFINE G == Kept(pub, c.edges, D)
           q == c.changed \/ D # {}
<1>2. d = [valid |-> c.valid, changed |-> q, nodes |-> M, edges |-> G]
  BY DropKeeps
<1>3. q \in BOOLEAN
  OBVIOUS
<1>4. q <=> c.changed \/ D # {}
  OBVIOUS
<1> HIDE DEF q, G
<1>5. d.valid = c.valid /\ d.changed = q /\ d.edges = G /\ d.nodes = M
  BY <1>2
<1>6. d = [valid |-> d.valid, changed |-> d.changed, nodes |-> M, edges |-> d.edges]
  BY <1>2
<1> QED
  BY <1>1, <1>3, <1>4, <1>5, <1>6 DEF G

LEMMA KeptSound ==
  ASSUME NEW N, NEW E, SoundGraph(N, E), NEW pub, NEW D
  PROVE  SoundGraph(N, Kept(pub, E, D))
<1>1. CASE IsSnapshot(pub)
  BY <1>1, WithoutEdgesSound DEF Kept
<1>2. CASE ~IsSnapshot(pub)
  <2> DEFINE F == Kept(pub, E, D)
  <2>1. IsEdgeMap(E)
    BY DEF SoundGraph, SoundEdges
  <2>2. F = [e \in DOMAIN E |-> IF e \in D THEN [E[e] EXCEPT !.lifecycle = "RETIRED"] ELSE E[e]]
    BY <1>2 DEF Kept
  <2>3. ASSUME NEW r \in EdgeRecords
        PROVE  /\ [r EXCEPT !.lifecycle = "RETIRED"] \in EdgeRecords
               /\ Key([r EXCEPT !.lifecycle = "RETIRED"]) = Key(r)
               /\ [r EXCEPT !.lifecycle = "RETIRED"].superseded_by = r.superseded_by
               /\ ~IsLive([r EXCEPT !.lifecycle = "RETIRED"])
    BY <2>3 DEF EdgeRecords, Lifecycles, Key, IsLive, Terminal
  <2> HIDE DEF F
  <2>4. IsEdgeMap(F) /\ HasFewerLive(F, E)
    BY <2>1, <2>2, <2>3 DEF IsEdgeMap, HasFewerLive
  <2>5. \A e \in DOMAIN E : F[e].superseded_by = E[e].superseded_by
    BY <2>1, <2>2, <2>3 DEF IsEdgeMap
  <2> QED
    BY <2>4, <2>5, FewerLiveEdgesSound DEF F
<1> QED
  BY <1>1, <1>2

-----------------------------------------------------------------------------
(***************************************************************************)
(* One observed edge.  An entry that does not refuse the publication is    *)
(* skipped, drops the live edge with its key, confirms the edge with its   *)
(* key, or adds one.                                                       *)
(***************************************************************************)

Skips(pub, c, o, d) ==
  /\ o.present
  /\ EdgeAcceptable(pub, c, o)
  /\ o.id \in DOMAIN c.edges
  /\ IsSkipped(c.edges[o.id], o)
  /\ d.edges = c.edges /\ d.changed = c.changed

Drops(pub, c, o, d) ==
  /\ ~o.present
  /\ pub.mode # "PartialObservation"
  /\ d.edges = Kept(pub, c.edges, LiveWithKey(c.edges, o))
  /\ d.changed = (c.changed \/ LiveWithKey(c.edges, o) # {})

Confirms(ctx, pub, c, o, d) ==
  /\ o.present
  /\ EdgeAcceptable(pub, c, o)
  /\ o.id \in DOMAIN c.edges
  /\ ~IsSkipped(c.edges[o.id], o)
  /\ d.edges = Put(c.edges, o.id, ConfirmedEdge(ctx, c.edges[o.id], o))
  /\ d.changed

Adds(ctx, pub, c, o, d) ==
  /\ o.present
  /\ EdgeAcceptable(pub, c, o)
  /\ o.id \notin DOMAIN c.edges
  /\ d.edges = Put(c.edges, o.id, AddedEdge(ctx, c.nodes, o))
  /\ d.changed

LEMMA EntryTurns ==
  ASSUME NEW ctx, NEW pub, NEW M, NEW c \in Candidates(M), NEW o,
         NEW d, d = ObservedEdge(ctx, pub, c, o)
  PROVE  /\ d = [valid |-> d.valid, changed |-> d.changed, nodes |-> M, edges |-> d.edges]
         /\ d.valid \in BOOLEAN
         /\ d.changed \in BOOLEAN
         /\ ~d.valid => d.edges = c.edges
         /\ d.valid =>
              /\ c.valid
              /\ \/ Skips(pub, c, o, d)
                 \/ Drops(pub, c, o, d)
                 \/ Confirms(ctx, pub, c, o, d)
                 \/ Adds(ctx, pub, c, o, d)
<1>1. /\ c = [valid |-> c.valid, changed |-> c.changed, nodes |-> M, edges |-> c.edges]
      /\ c.nodes = M /\ c.valid \in BOOLEAN /\ c.changed \in BOOLEAN
  BY DEF Candidates
<1>2. CASE ~c.valid
  <2>1. d = c
    BY <1>2 DEF ObservedEdge
  <2> QED
    BY <1>1, <1>2, <2>1
<1>3. CASE c.valid /\ ~o.present /\ pub.mode = "PartialObservation"
  <2>1. d = [c EXCEPT !.valid = FALSE]
    BY <1>3 DEF ObservedEdge, AbsentEdge
  <2> QED
    BY <1>1, <2>1
<1>4. CASE c.valid /\ ~o.present /\ pub.mode # "PartialObservation"
  <2>1. d = Drop(pub, c, LiveWithKey(c.edges, o))
    BY <1>4 DEF ObservedEdge, AbsentEdge
  <2>2. d = [valid |-> c.valid, changed |-> c.changed \/ LiveWithKey(c.edges, o) # {},
             nodes |-> M, edges |-> Kept(pub, c.edges, LiveWithKey(c.edges, o))]
    BY <2>1, DropKeeps
  <2>3. Drops(pub, c, o, d)
    BY <1>4, <2>2 DEF Drops
  <2> QED
    BY <1>1, <1>4, <2>2, <2>3
<1>5. CASE c.valid /\ o.present /\ ~EdgeAcceptable(pub, c, o)
  <2>1. d = [c EXCEPT !.valid = FALSE]
    BY <1>5 DEF ObservedEdge, PresentEdge
  <2> QED
    BY <1>1, <2>1
<1>6. CASE /\ c.valid /\ o.present /\ EdgeAcceptable(pub, c, o)
           /\ o.id \in DOMAIN c.edges /\ IsSkipped(c.edges[o.id], o)
  <2>1. d = c
    BY <1>6 DEF ObservedEdge, PresentEdge
  <2> QED
    BY <1>1, <1>6, <2>1 DEF Skips
<1>7. CASE /\ c.valid /\ o.present /\ EdgeAcceptable(pub, c, o)
           /\ o.id \in DOMAIN c.edges /\ ~IsSkipped(c.edges[o.id], o)
  <2>1. d = [c EXCEPT !.changed = TRUE,
                      !.edges = Put(@, o.id, ConfirmedEdge(ctx, c.edges[o.id], o))]
    BY <1>7 DEF ObservedEdge, PresentEdge
  <2>2. d = [valid |-> c.valid, changed |-> TRUE, nodes |-> M,
             edges |-> Put(c.edges, o.id, ConfirmedEdge(ctx, c.edges[o.id], o))]
    BY <1>1, <2>1
  <2> QED
    BY <1>1, <1>7, <2>2 DEF Confirms
<1>8. CASE /\ c.valid /\ o.present /\ EdgeAcceptable(pub, c, o)
           /\ o.id \notin DOMAIN c.edges
  <2>1. d = [c EXCEPT !.changed = TRUE, !.edges = Put(@, o.id, AddedEdge(ctx, c.nodes, o))]
    BY <1>8 DEF ObservedEdge, PresentEdge
  <2>2. d = [valid |-> c.valid, changed |-> TRUE, nodes |-> M,
             edges |-> Put(c.edges, o.id, AddedEdge(ctx, c.nodes, o))]
    BY <1>1, <2>1
  <2> QED
    BY <1>1, <1>8, <2>2 DEF Adds
<1> QED
  BY <1>2, <1>3, <1>4, <1>5, <1>6, <1>7, <1>8

LEMMA SameKeyIsKey ==
  ASSUME NEW a, NEW b
  PROVE  SameKey(a, b) <=> HasKey(a, b)
BY DEF SameKey, HasKey, Key

LEMMA ConfirmedEdgeFacts ==
  ASSUME NEW ctx \in Contexts, NEW r \in EdgeRecords, NEW o \in ObservedEdges
  PROVE  /\ ConfirmedEdge(ctx, r, o) \in EdgeRecords
         /\ Key(ConfirmedEdge(ctx, r, o)) = Key(r)
         /\ ConfirmedEdge(ctx, r, o).superseded_by = r.superseded_by
         /\ ConfirmedEdge(ctx, r, o).lifecycle = "CURRENT"
         /\ ConfirmedEdge(ctx, r, o).provenance = ctx
         /\ ConfirmedEdge(ctx, r, o).attachment = o.attachment
         /\ ConfirmedEdge(ctx, r, o).evidence_generation = o.evidence_generation
BY ContextsAreProvenances DEF ConfirmedEdge, EdgeRecords, ObservedEdges, Lifecycles, Key

LEMMA AddedEdgeFacts ==
  ASSUME NEW ctx \in Contexts, NEW M, IsNodeMap(M), NEW o \in ObservedEdges,
         {o.from, o.to} \subseteq DOMAIN M
  PROVE  /\ AddedEdge(ctx, M, o) \in EdgeRecords
         /\ HasKey(AddedEdge(ctx, M, o), o)
         /\ AddedEdge(ctx, M, o).superseded_by = NoEdge
         /\ AddedEdge(ctx, M, o).lifecycle = "CURRENT"
         /\ AddedEdge(ctx, M, o).provenance = ctx
         /\ AddedEdge(ctx, M, o).attachment = o.attachment
         /\ AddedEdge(ctx, M, o).evidence_generation = o.evidence_generation
<1>1. M[o.from].entity_generation \in Nat /\ M[o.to].entity_generation \in Nat
  BY DEF IsNodeMap, NodeRecords
<1> QED
  BY <1>1, ContextsAreProvenances
     DEF AddedEdge, EdgeRecords, ObservedEdges, Lifecycles, HasKey, Key

EndsPresent(M, o) == {o.from, o.to} \subseteq DOMAIN M

\* What is left of an accepted entry's turn, as a fact about the edge at its id.
LEMMA AcceptedEntry ==
  ASSUME NEW pub, NEW M, NEW c \in Candidates(M), SoundGraph(M, c.edges), NEW o,
         EdgeAcceptable(pub, c, o)
  PROVE  /\ \A e \in DOMAIN c.edges : SameKey(c.edges[e], o) <=> e = o.id
         /\ o.id \in DOMAIN c.edges =>
              /\ c.edges[o.id] \in EdgeRecords
              /\ IsLive(c.edges[o.id])
              /\ IsSnapshot(pub) => c.edges[o.id].evidence_generation <= o.evidence_generation
         /\ EndsPresent(M, o)
         /\ o.id \notin DOMAIN c.edges => ~WouldCreateCycle(c.edges, o.relation, o.from, o.to)
<1>1. c.nodes = M
  BY DEF Candidates
<1>2. \A e \in DOMAIN c.edges : SameKey(c.edges[e], o) => e = o.id
  BY DEF EdgeAcceptable
<1>3. o.id \in DOMAIN c.edges => SameKey(c.edges[o.id], o) /\ IsLive(c.edges[o.id])
  BY DEF EdgeAcceptable
<1>4. o.id \notin DOMAIN c.edges => ~WouldCreateCycle(c.edges, o.relation, o.from, o.to)
  BY <1>1, <1>2 DEF EdgeAcceptable, ValidCandidate
<1> QED
  BY <1>1, <1>2, <1>3, <1>4
     DEF EdgeAcceptable, ValidCandidate, SoundGraph, SoundEdges, IsEdgeMap, EndsPresent

LEMMA EntrySound ==
  ASSUME NEW ctx \in Contexts, NEW pub, NEW M, NEW c \in Candidates(M), NEW o \in ObservedEdges,
         SoundGraph(M, c.edges), NEW d, d = ObservedEdge(ctx, pub, c, o), d.valid
  PROVE  SoundGraph(M, d.edges)
<1>1. c.nodes = M
  BY DEF Candidates
<1>2. CASE Skips(pub, c, o, d)
  BY <1>2 DEF Skips
<1>3. CASE Drops(pub, c, o, d)
  BY <1>3, KeptSound DEF Drops
<1>4. CASE Confirms(ctx, pub, c, o, d)
  <2> DEFINE new == ConfirmedEdge(ctx, c.edges[o.id], o)
  <2>1. /\ o.id \in DOMAIN c.edges
        /\ d.edges = Put(c.edges, o.id, new)
        /\ c.edges[o.id] \in EdgeRecords /\ IsLive(c.edges[o.id])
    BY <1>4, AcceptedEntry DEF Confirms
  <2> HIDE DEF new
  <2>2. /\ new \in EdgeRecords
        /\ Key(new) = Key(c.edges[o.id])
        /\ new.superseded_by = c.edges[o.id].superseded_by
    BY <2>1, ConfirmedEdgeFacts DEF new
  <2> QED
    BY <2>1, <2>2, UpdateEdgeSound
<1>5. CASE Adds(ctx, pub, c, o, d)
  <2> DEFINE new == AddedEdge(ctx, M, o)
  <2>1. /\ o.id \notin DOMAIN c.edges
        /\ o.id \in EdgeIds
        /\ d.edges = Put(c.edges, o.id, new)
        /\ {o.from, o.to} \subseteq DOMAIN M
        /\ ~WouldCreateCycle(c.edges, o.relation, o.from, o.to)
        /\ \A e \in DOMAIN c.edges : ~SameKey(c.edges[e], o)
    <3>1. EdgeAcceptable(pub, c, o) /\ o.id \notin DOMAIN c.edges
      BY <1>5 DEF Adds
    <3>2. d.edges = Put(c.edges, o.id, new) /\ o.id \in EdgeIds
      BY <1>1, <1>5 DEF Adds, ObservedEdges
    <3> HIDE DEF new
    <3>3. EndsPresent(M, o)
      BY <3>1, AcceptedEntry
    <3>4. ~WouldCreateCycle(c.edges, o.relation, o.from, o.to)
      BY <3>1, AcceptedEntry
    <3>5. \A e \in DOMAIN c.edges : ~SameKey(c.edges[e], o)
      BY <3>1, AcceptedEntry
    <3> QED
      BY <3>1, <3>2, <3>3, <3>4, <3>5 DEF EndsPresent
  <2> HIDE DEF new
  <2>2. /\ new \in EdgeRecords
        /\ HasKey(new, o)
        /\ new.superseded_by = NoEdge
    BY <2>1, AddedEdgeFacts DEF new, SoundGraph, SoundNodes
  <2>3. new.relation = o.relation /\ new.from = o.from /\ new.to = o.to
    BY <2>2 DEF HasKey, Key
  <2>4. \A e \in DOMAIN c.edges : Key(c.edges[e]) # Key(new)
    BY <2>1, <2>2, SameKeyIsKey DEF HasKey
  <2> QED
    BY <2>1, <2>2, <2>3, <2>4, NewEdgeSound
<1> QED
  BY <1>2, <1>3, <1>4, <1>5, EntryTurns

-----------------------------------------------------------------------------
(***************************************************************************)
(* What one entry does to the edge with its key, and to no other.          *)
(***************************************************************************)

\* E and G agree about every edge that has not the key of o.
AgreeElsewhere(o, E, G) ==
  /\ \A e \in DOMAIN E : ~SameKey(E[e], o) => e \in DOMAIN G /\ G[e] = E[e]
  /\ \A e \in DOMAIN G : ~SameKey(G[e], o) => e \in DOMAIN E /\ G[e] = E[e]

\* The evidence for a relationship is not older in G than in E.
NotOlder(E, G) ==
  \A e \in DOMAIN E, f \in DOMAIN G :
    Key(E[e]) = Key(G[f]) => G[f].evidence_generation >= E[e].evidence_generation

\* Whatever is current in G was so in E from the same source, or is asserted by
\* ctx.
AssertedHere(ctx, E, G) ==
  \A e \in CurrentEdges(G) :
    \/ G[e].provenance = ctx
    \/ e \in CurrentEdges(E) /\ G[e].provenance = E[e].provenance

\* The entry o is heeded: present, the relationship is live and the entry has
\* nothing to add to it, its evidence being that of a snapshot if it is in one;
\* absent, it is not live.
Heeded(pub, o, E) ==
  /\ o.present => \E e \in DOMAIN E : SameKey(E[e], o) /\ IsLive(E[e])
  /\ \A e \in DOMAIN E :
       SameKey(E[e], o) /\ IsLive(E[e]) =>
         /\ o.present
         /\ IsSkipped(E[e], o)
         /\ IsSnapshot(pub) =>
              E[e].lifecycle = "CURRENT" /\ E[e].evidence_generation = o.evidence_generation

EntryEffect(ctx, pub, c, o, d) ==
  /\ AgreeElsewhere(o, c.edges, d.edges)
  /\ NotOlder(c.edges, d.edges)
  /\ AssertedHere(ctx, c.edges, d.edges)
  /\ Heeded(pub, o, d.edges)
  /\ ~IsSnapshot(pub) => DOMAIN c.edges \subseteq DOMAIN d.edges
  /\ c.changed => d.changed
  /\ d.changed \/ d.edges = c.edges

LEMMA SkipEffect ==
  ASSUME NEW ctx, NEW pub, NEW M, NEW c \in Candidates(M), SoundGraph(M, c.edges),
         NEW o \in ObservedEdges, NEW d, Skips(pub, c, o, d)
  PROVE  EntryEffect(ctx, pub, c, o, d)
<1>1. /\ d.edges = c.edges
      /\ d.changed = c.changed
      /\ o.present
      /\ o.id \in DOMAIN c.edges
      /\ IsSkipped(c.edges[o.id], o)
  BY DEF Skips
<1>2. /\ \A e \in DOMAIN c.edges : SameKey(c.edges[e], o) <=> e = o.id
      /\ c.edges[o.id] \in EdgeRecords
      /\ IsLive(c.edges[o.id])
      /\ IsSnapshot(pub) => c.edges[o.id].evidence_generation <= o.evidence_generation
  BY AcceptedEntry DEF Skips
<1>3. UniqueKeys(c.edges) /\ \A e \in DOMAIN c.edges : c.edges[e].evidence_generation \in Nat
  BY DEF SoundGraph, SoundEdges, IsEdgeMap, EdgeRecords
<1>4. AgreeElsewhere(o, c.edges, d.edges) /\ AssertedHere(ctx, c.edges, d.edges)
  BY <1>1 DEF AgreeElsewhere, AssertedHere
<1>5. NotOlder(c.edges, d.edges)
  BY <1>1, <1>3 DEF NotOlder, UniqueKeys
<1>6. o.evidence_generation \in Nat
  BY DEF ObservedEdges
<1>7. Heeded(pub, o, d.edges)
  BY <1>1, <1>2, <1>3, <1>6 DEF Heeded, IsSkipped
<1> QED
  BY <1>1, <1>4, <1>5, <1>7 DEF EntryEffect

\* The same of a drop.
LEMMA KeptEffect ==
  ASSUME NEW ctx, NEW pub, NEW E, IsEdgeMap(E), UniqueKeys(E), NEW o, ~o.present,
         NEW D, \A e \in DOMAIN E : e \in D <=> IsLive(E[e]) /\ SameKey(E[e], o),
         NEW G, G = Kept(pub, E, D)
  PROVE  /\ AgreeElsewhere(o, E, G)
         /\ NotOlder(E, G)
         /\ AssertedHere(ctx, E, G)
         /\ Heeded(pub, o, G)
         /\ ~IsSnapshot(pub) => DOMAIN E \subseteq DOMAIN G
         /\ D = {} => G = E
<1>1. /\ DOMAIN G = IF IsSnapshot(pub) THEN DOMAIN E \ D ELSE DOMAIN E
      /\ \A e \in DOMAIN G :
           /\ e \notin D => G[e] = E[e]
           /\ e \in D => G[e].lifecycle = "RETIRED"
           /\ Key(G[e]) = Key(E[e])
           /\ G[e].evidence_generation = E[e].evidence_generation
      /\ D = {} => G = E
  BY DEF Kept, Without, IsEdgeMap, EdgeRecords, Key
<1>2. \A e \in DOMAIN E : E[e].evidence_generation \in Nat
  BY DEF IsEdgeMap, EdgeRecords
<1>3. DOMAIN G \subseteq DOMAIN E /\ \A e \in DOMAIN G : SameKey(G[e], o) <=> SameKey(E[e], o)
  BY <1>1, SameKeyIsKey DEF HasKey
<1>4. AgreeElsewhere(o, E, G)
  BY <1>1, <1>3 DEF AgreeElsewhere
<1>5. NotOlder(E, G)
  BY <1>1, <1>2, <1>3 DEF NotOlder, UniqueKeys
<1>6. AssertedHere(ctx, E, G)
  BY <1>1, <1>3 DEF AssertedHere, CurrentEdges
<1>7. Heeded(pub, o, G)
  BY <1>1, <1>3 DEF Heeded, IsLive, Terminal
<1> QED
  BY <1>1, <1>4, <1>5, <1>6, <1>7

LEMMA DropEffect ==
  ASSUME NEW ctx, NEW pub, NEW M, NEW c \in Candidates(M), SoundGraph(M, c.edges),
         NEW o \in ObservedEdges, NEW d, Drops(pub, c, o, d)
  PROVE  EntryEffect(ctx, pub, c, o, d)
<1> DEFINE D == LiveWithKey(c.edges, o)
<1>1. d.edges = Kept(pub, c.edges, D) /\ d.changed = (c.changed \/ D # {}) /\ ~o.present
  BY DEF Drops
<1>2. IsEdgeMap(c.edges) /\ UniqueKeys(c.edges)
  BY DEF SoundGraph, SoundEdges
<1>3. \A e \in DOMAIN c.edges : e \in D <=> IsLive(c.edges[e]) /\ SameKey(c.edges[e], o)
  BY DEF LiveWithKey
<1> HIDE DEF D
<1>4. /\ AgreeElsewhere(o, c.edges, d.edges)
      /\ NotOlder(c.edges, d.edges)
      /\ AssertedHere(ctx, c.edges, d.edges)
      /\ Heeded(pub, o, d.edges)
      /\ ~IsSnapshot(pub) => DOMAIN c.edges \subseteq DOMAIN d.edges
      /\ D = {} => d.edges = c.edges
  BY <1>1, <1>2, <1>3, KeptEffect
<1> QED
  BY <1>1, <1>4 DEF EntryEffect

LEMMA PutEffect ==
  ASSUME NEW ctx, NEW pub, NEW M, NEW c \in Candidates(M), SoundGraph(M, c.edges),
         NEW o \in ObservedEdges, EdgeAcceptable(pub, c, o), o.present,
         NEW new, HasKey(new, o), new.lifecycle = "CURRENT", new.provenance = ctx,
         new.evidence_generation = o.evidence_generation, new.attachment = o.attachment,
         o.id \in DOMAIN c.edges => ~IsSkipped(c.edges[o.id], o),
         NEW d, d.edges = Put(c.edges, o.id, new), d.changed
  PROVE  EntryEffect(ctx, pub, c, o, d)
<1> DEFINE E == c.edges
           G == Put(E, o.id, new)
<1>1. DOMAIN G = DOMAIN E \cup {o.id} /\ G[o.id] = new /\ \A e \in DOMAIN E \ {o.id} : G[e] = E[e]
  BY DEF Put
<1>2. \A e \in DOMAIN E : SameKey(E[e], o) <=> e = o.id
  BY AcceptedEntry
<1>3. /\ UniqueKeys(E)
      /\ \A e \in DOMAIN E : E[e].evidence_generation \in Nat
      /\ o.evidence_generation \in Nat
  BY DEF SoundGraph, SoundEdges, IsEdgeMap, EdgeRecords, ObservedEdges
<1>4. o.id \in DOMAIN E => ~(E[o.id].evidence_generation > o.evidence_generation)
  BY DEF IsSkipped
<1> HIDE DEF E, G
<1>5. SameKey(new, o)
  BY SameKeyIsKey
<1>6. AgreeElsewhere(o, E, G)
  BY <1>1, <1>2, <1>5 DEF AgreeElsewhere
<1>7. NotOlder(E, G)
  <2> SUFFICES ASSUME NEW e \in DOMAIN E, NEW f \in DOMAIN G, Key(E[e]) = Key(G[f])
               PROVE  G[f].evidence_generation >= E[e].evidence_generation
    BY DEF NotOlder
  <2>1. CASE f = o.id
    <3>1. e = o.id
      BY <1>1, <1>2, <2>1, SameKeyIsKey DEF HasKey
    <3> QED
      BY <1>1, <1>3, <1>4, <2>1, <3>1
  <2>2. CASE f # o.id
    BY <1>1, <1>3, <2>2 DEF UniqueKeys
  <2> QED
    BY <2>1, <2>2
<1>8. AssertedHere(ctx, E, G)
  BY <1>1 DEF AssertedHere, CurrentEdges
<1>9. Heeded(pub, o, G)
  <2>1. \A e \in DOMAIN G : SameKey(G[e], o) => e = o.id
    BY <1>1, <1>2
  <2>2. IsLive(new) /\ IsSkipped(new, o)
    BY DEF IsLive, Terminal, IsSkipped
  <2> QED
    BY <1>1, <1>5, <2>1, <2>2 DEF Heeded
<1> QED
  BY <1>1, <1>6, <1>7, <1>8, <1>9 DEF EntryEffect, E, G

LEMMA EntryHasEffect ==
  ASSUME NEW ctx \in Contexts, NEW pub, NEW M, NEW c \in Candidates(M), NEW o \in ObservedEdges,
         SoundGraph(M, c.edges), NEW d, d = ObservedEdge(ctx, pub, c, o), d.valid
  PROVE  EntryEffect(ctx, pub, c, o, d)
<1>1. CASE Confirms(ctx, pub, c, o, d)
  <2> DEFINE new == ConfirmedEdge(ctx, c.edges[o.id], o)
  <2>1. /\ o.id \in DOMAIN c.edges
        /\ c.edges[o.id] \in EdgeRecords
        /\ SameKey(c.edges[o.id], o)
    BY <1>1, AcceptedEntry DEF Confirms
  <2>2. /\ HasKey(new, o)
        /\ new.lifecycle = "CURRENT"
        /\ new.provenance = ctx
        /\ new.evidence_generation = o.evidence_generation
        /\ new.attachment = o.attachment
    BY <2>1, ConfirmedEdgeFacts, SameKeyIsKey DEF HasKey
  <2> HIDE DEF new
  <2>3. /\ d.edges = Put(c.edges, o.id, new) /\ d.changed
        /\ EdgeAcceptable(pub, c, o) /\ o.present /\ ~IsSkipped(c.edges[o.id], o)
    BY <1>1 DEF Confirms, new
  <2> QED
    BY <2>2, <2>3, PutEffect
<1>2. CASE Adds(ctx, pub, c, o, d)
  <2> DEFINE new == AddedEdge(ctx, M, o)
  <2>1. {o.from, o.to} \subseteq DOMAIN M
    <3>1. EdgeAcceptable(pub, c, o)
      BY <1>2 DEF Adds
    <3>2. EndsPresent(M, o)
      BY <3>1, AcceptedEntry
    <3> QED
      BY <3>2 DEF EndsPresent
  <2>2. /\ HasKey(new, o)
        /\ new.lifecycle = "CURRENT"
        /\ new.provenance = ctx
        /\ new.evidence_generation = o.evidence_generation
        /\ new.attachment = o.attachment
    BY <2>1, AddedEdgeFacts DEF SoundGraph, SoundNodes
  <2> HIDE DEF new
  <2>3. /\ d.edges = Put(c.edges, o.id, new) /\ d.changed
        /\ EdgeAcceptable(pub, c, o) /\ o.present /\ o.id \notin DOMAIN c.edges
    BY <1>2 DEF Adds, new, Candidates
  <2> QED
    BY <2>2, <2>3, PutEffect
<1> QED
  BY <1>1, <1>2, EntryTurns, SkipEffect, DropEffect

-----------------------------------------------------------------------------
(***************************************************************************)
(* The loop over the observed edges.  Reached(ctx, pub, F, i, E) is what   *)
(* entries 1..i have made of the edges F, by induction on i.               *)
(***************************************************************************)

\* What no entry up to i names is as it was.
Untouched(pub, F, i, E) ==
  \A e \in DOMAIN F :
    (\A j \in 1..i : ~SameKey(F[e], pub.edges[j])) => e \in DOMAIN E /\ E[e] = F[e]

Reached(ctx, pub, F, i, E) ==
  /\ Untouched(pub, F, i, E)
  /\ NotOlder(F, E)
  /\ AssertedHere(ctx, F, E)
  /\ \A j \in 1..i : Heeded(pub, pub.edges[j], E)
  /\ ~IsSnapshot(pub) => DOMAIN F \subseteq DOMAIN E

LEMMA ReachedAtStart ==
  ASSUME NEW ctx, NEW pub, NEW F, IsEdgeMap(F), UniqueKeys(F)
  PROVE  Reached(ctx, pub, F, 0, F)
<1>1. \A e \in DOMAIN F : F[e].evidence_generation \in Nat
  BY DEF IsEdgeMap, EdgeRecords
<1>2. NotOlder(F, F)
  BY <1>1 DEF NotOlder, UniqueKeys
<1> QED
  BY <1>2 DEF Reached, Untouched, AssertedHere

\* The entries name different relationships.
DistinctKeys(pub) ==
  \A i, j \in DOMAIN pub.edges : i # j => ~SameKey(pub.edges[i], pub.edges[j])

LEMMA SameKeyMeets ==
  ASSUME NEW a, NEW b, NEW c, SameKey(a, b), SameKey(a, c)
  PROVE  SameKey(b, c)
BY DEF SameKey

LEMMA ReachedNext ==
  ASSUME NEW ctx, NEW pub, DistinctKeys(pub),
         NEW F, IsEdgeMap(F), NEW E, IsEdgeMap(E), NEW G, IsEdgeMap(G),
         NEW i \in Nat \ {0}, 1..i \subseteq DOMAIN pub.edges,
         Reached(ctx, pub, F, i - 1, E),
         NEW o, o = pub.edges[i],
         AgreeElsewhere(o, E, G), NotOlder(E, G), AssertedHere(ctx, E, G), Heeded(pub, o, G),
         ~IsSnapshot(pub) => DOMAIN E \subseteq DOMAIN G
  PROVE  Reached(ctx, pub, F, i, G)
<1>1. /\ i - 1 \in Nat
      /\ \A j \in 1..i : j = i \/ j \in 1..(i - 1)
      /\ \A j \in 1..(i - 1) : j \in 1..i /\ j # i
      /\ i \in 1..i
  OBVIOUS
<1>2. \A j \in 1..(i - 1) : ~SameKey(pub.edges[j], o)
  BY <1>1 DEF DistinctKeys
<1>3. Untouched(pub, F, i, G)
  <2> SUFFICES ASSUME NEW e \in DOMAIN F, \A j \in 1..i : ~SameKey(F[e], pub.edges[j])
               PROVE  e \in DOMAIN G /\ G[e] = F[e]
    BY DEF Untouched
  <2>1. e \in DOMAIN E /\ E[e] = F[e]
    BY <1>1 DEF Reached, Untouched
  <2>2. ~SameKey(E[e], o)
    BY <1>1, <2>1
  <2> QED
    BY <2>1, <2>2 DEF AgreeElsewhere
<1>4. NotOlder(F, G)
  <2> SUFFICES ASSUME NEW e \in DOMAIN F, NEW f \in DOMAIN G, Key(F[e]) = Key(G[f])
               PROVE  G[f].evidence_generation >= F[e].evidence_generation
    BY DEF NotOlder
  <2>1. /\ F[e].evidence_generation \in Nat
        /\ G[f].evidence_generation \in Nat
        /\ \A h \in DOMAIN E : E[h].evidence_generation \in Nat
    BY DEF IsEdgeMap, EdgeRecords
  <2>2. CASE \E h \in DOMAIN E : Key(E[h]) = Key(F[e])
    <3>1. PICK h \in DOMAIN E : Key(E[h]) = Key(F[e])
      BY <2>2
    <3>2. E[h].evidence_generation >= F[e].evidence_generation
      BY <3>1 DEF Reached, NotOlder
    <3>3. G[f].evidence_generation >= E[h].evidence_generation
      BY <3>1 DEF NotOlder
    <3> QED
      BY <2>1, <3>2, <3>3
  <2>3. CASE \A h \in DOMAIN E : Key(E[h]) # Key(F[e])
    <3>1. SameKey(G[f], o)
      BY <2>3 DEF AgreeElsewhere
    <3>2. SameKey(F[e], o)
      BY <3>1 DEF SameKey, Key
    <3>3. \A j \in 1..(i - 1) : ~SameKey(F[e], pub.edges[j])
      BY <1>2, <3>2, SameKeyMeets
    <3>4. e \in DOMAIN E /\ E[e] = F[e]
      BY <3>3 DEF Reached, Untouched
    <3> QED
      BY <2>3, <3>4
  <2> QED
    BY <2>2, <2>3
<1>5. AssertedHere(ctx, F, G)
  BY DEF AssertedHere, Reached
<1>6. ASSUME NEW j \in 1..(i - 1)
      PROVE  Heeded(pub, pub.edges[j], G)
  <2>1. Heeded(pub, pub.edges[j], E)
    BY DEF Reached
  <2>2. \A a : SameKey(a, pub.edges[j]) => ~SameKey(a, o)
    BY <1>2, SameKeyMeets
  <2> QED
    BY <2>1, <2>2 DEF Heeded, AgreeElsewhere
<1>7. ~IsSnapshot(pub) => DOMAIN F \subseteq DOMAIN G
  BY DEF Reached
<1> QED
  BY <1>1, <1>3, <1>4, <1>5, <1>6, <1>7 DEF Reached

\* Every entry of a publication names one relationship of its domain.
LEMMA EntriesNameKeys ==
  ASSUME NEW pub \in Publications, EdgeEntriesAcceptable(pub)
  PROVE  /\ DistinctKeys(pub)
         /\ Len(pub.edges) \in Nat
         /\ DOMAIN pub.edges = 1..Len(pub.edges)
         /\ \A i \in DOMAIN pub.edges :
              pub.edges[i] \in ObservedEdges /\ pub.edges[i].domain = pub.domain
<1>1. pub.edges \in Seq(ObservedEdges)
  BY PublicationConstants
<1> QED
  BY <1>1 DEF DistinctKeys, EdgeEntriesAcceptable

LEMMA EdgesReconciledReach ==
  ASSUME NEW ctx \in Contexts, NEW pub \in Publications, EdgeEntriesAcceptable(pub),
         NEW M, NEW b \in Candidates(M), SoundGraph(M, b.edges), b.valid,
         NEW c, c = EdgesReconciled(ctx, pub, b)
  PROVE  /\ c \in Candidates(M)
         /\ c.valid =>
              /\ SoundGraph(M, c.edges)
              /\ Reached(ctx, pub, b.edges, Len(pub.edges), c.edges)
              /\ b.changed => c.changed
              /\ c.changed \/ c.edges = b.edges
<1> DEFINE n == Len(pub.edges)
           F == b.edges
           Stage(i, a) ==
             a.valid => /\ SoundGraph(M, a.edges)
                        /\ Reached(ctx, pub, F, i, a.edges)
                        /\ b.changed => a.changed
                        /\ a.changed \/ a.edges = F
           S == [i \in 0..n |-> {a \in Candidates(M) : Stage(i, a)}]
           p == [ctx |-> ctx, pub |-> pub]
<1>1. DistinctKeys(pub) /\ n \in Nat /\ DOMAIN pub.edges = 1..n
  BY EntriesNameKeys
<1>2. IsEdgeMap(F) /\ UniqueKeys(F)
  BY DEF SoundGraph, SoundEdges
<1>3. b \in S[0]
  <2>1. Reached(ctx, pub, F, 0, F)
    BY <1>2, ReachedAtStart
  <2>2. Stage(0, b)
    BY <2>1
  <2> QED
    BY <1>1, <2>2
<1>4. ASSUME NEW i \in 1..n, NEW a \in S[i - 1]
      PROVE  ReconcileEntry(p, i, a) \in S[i]
  <2> DEFINE o == pub.edges[i]
             d == ReconcileEntry(p, i, a)
  <2>1. d = ObservedEdge(ctx, pub, a, o)
    BY DEF ReconcileEntry
  <2>2. /\ i \in Nat \ {0} /\ i - 1 \in 0..n /\ i \in 0..n
        /\ 1..i \subseteq DOMAIN pub.edges
    BY <1>1
  <2>3. a \in Candidates(M) /\ Stage(i - 1, a)
    BY <2>2
  <2>4. o \in ObservedEdges
    BY <1>1, EntriesNameKeys
  <2> HIDE DEF d, F, S, p
  <2>5. a.edges \in EdgeMaps /\ a.changed \in BOOLEAN
    BY <2>3 DEF Candidates
  <2>6. /\ d = [valid |-> d.valid, changed |-> d.changed, nodes |-> M, edges |-> d.edges]
        /\ d.valid \in BOOLEAN
        /\ d.changed \in BOOLEAN
        /\ ~d.valid => d.edges = a.edges
        /\ d.valid => a.valid
    BY <2>1, <2>3, EntryTurns
  <2>7. CASE ~d.valid
    <3>1. d \in Candidates(M)
      BY <2>5, <2>6, <2>7 DEF Candidates
    <3> QED
      BY <2>2, <2>7, <3>1 DEF S, d
  <2>8. CASE d.valid
    <3>1. /\ a.valid /\ SoundGraph(M, a.edges)
          /\ Reached(ctx, pub, F, i - 1, a.edges)
          /\ b.changed => a.changed
          /\ a.changed \/ a.edges = F
      BY <2>3, <2>6, <2>8
    <3>2. SoundGraph(M, d.edges)
      BY <2>1, <2>3, <2>4, <2>8, <3>1, EntrySound
    <3>3. EntryEffect(ctx, pub, a, o, d)
      BY <2>1, <2>3, <2>4, <2>8, <3>1, EntryHasEffect
    <3>4. IsEdgeMap(a.edges) /\ IsEdgeMap(d.edges)
      BY <3>1, <3>2 DEF SoundGraph, SoundEdges
    <3>5. d \in Candidates(M)
      <4>1. d.edges \in EdgeMaps
        BY <3>4, EdgeMapsAre
      <4> QED
        BY <2>6, <4>1 DEF Candidates
    <3>6. /\ AgreeElsewhere(o, a.edges, d.edges)
          /\ NotOlder(a.edges, d.edges)
          /\ AssertedHere(ctx, a.edges, d.edges)
          /\ Heeded(pub, o, d.edges)
          /\ ~IsSnapshot(pub) => DOMAIN a.edges \subseteq DOMAIN d.edges
          /\ a.changed => d.changed
          /\ d.changed \/ d.edges = a.edges
      BY <3>3 DEF EntryEffect
    <3>7. Reached(ctx, pub, F, i, d.edges)
      BY <1>1, <1>2, <2>2, <3>1, <3>4, <3>6, ReachedNext
    <3>8. Stage(i, d)
      BY <3>1, <3>2, <3>6, <3>7
    <3> QED
      BY <2>2, <3>5, <3>8 DEF S, d
  <2> QED
    BY <2>6, <2>7, <2>8 DEF d
<1>5. c = Entries!After(p, b, n)
  BY DEF EdgesReconciled
<1> HIDE DEF S, p
<1>6. Entries!After(p, b, n) \in S[n]
  BY <1>1, <1>3, <1>4, Entries!AfterInduction
<1> HIDE DEF F
<1>7. c \in Candidates(M) /\ Stage(n, c)
  BY <1>1, <1>5, <1>6 DEF S
<1> QED
  BY <1>7 DEF F

-----------------------------------------------------------------------------
(***************************************************************************)
(* The candidate state that publish commits.                               *)
(***************************************************************************)

LEMMA RebindFacts ==
  ASSUME NEW N, NEW M, NEW E, IsEdgeMap(E), NEW F, F = RebindAll(N, M, E)
  PROVE  /\ DOMAIN F = DOMAIN E
         /\ \A e \in DOMAIN E :
              /\ Key(F[e]) = Key(E[e])
              /\ F[e].evidence_generation = E[e].evidence_generation
              /\ F[e].provenance = E[e].provenance
              /\ IsLive(F[e]) <=> IsLive(E[e])
              /\ F[e].lifecycle = "CURRENT" => E[e].lifecycle = "CURRENT"
              /\ \/ F[e] = E[e]
                 \/ /\ F[e].lifecycle = "REVALIDATION_REQUIRED"
                    /\ \E n \in {E[e].from, E[e].to} :
                         n \in DOMAIN N /\ M[n].entity_generation # N[n].entity_generation
         /\ M = N => F = E
<1> DEFINE moved == {n \in DOMAIN N : M[n].entity_generation # N[n].entity_generation}
           followed(r) ==
             [r EXCEPT
                !.from_entity_generation =
                  IF r.from \in moved THEN M[r.from].entity_generation ELSE @,
                !.to_entity_generation =
                  IF r.to \in moved THEN M[r.to].entity_generation ELSE @,
                !.lifecycle = "REVALIDATION_REQUIRED"]
           changed(r) == IsLive(r) /\ {r.from, r.to} \cap moved # {}
<1>1. F = [e \in DOMAIN E |-> IF changed(E[e]) THEN followed(E[e]) ELSE E[e]]
  BY DEF RebindAll
<1>2. ASSUME NEW r \in EdgeRecords
      PROVE  /\ Key(followed(r)) = Key(r)
             /\ followed(r).evidence_generation = r.evidence_generation
             /\ followed(r).provenance = r.provenance
             /\ followed(r).lifecycle = "REVALIDATION_REQUIRED"
  BY DEF EdgeRecords, Key
<1> HIDE DEF followed
<1>3. ASSUME NEW r, r.lifecycle = "REVALIDATION_REQUIRED"
      PROVE  IsLive(r) /\ r.lifecycle # "CURRENT"
  BY <1>3 DEF IsLive, Terminal
<1>4. ASSUME M = N PROVE moved = {}
  BY <1>4
<1>5. ASSUME NEW r, changed(r)
      PROVE  IsLive(r) /\ \E n \in {r.from, r.to} :
               n \in DOMAIN N /\ M[n].entity_generation # N[n].entity_generation
  BY <1>5
<1>6. ASSUME moved = {}, NEW r PROVE ~changed(r)
  BY <1>6
<1> HIDE DEF moved, changed
<1>7. DOMAIN F = DOMAIN E
  BY <1>1
<1>8. ASSUME NEW e \in DOMAIN E
      PROVE  /\ Key(F[e]) = Key(E[e])
             /\ F[e].evidence_generation = E[e].evidence_generation
             /\ F[e].provenance = E[e].provenance
             /\ IsLive(F[e]) <=> IsLive(E[e])
             /\ F[e].lifecycle = "CURRENT" => E[e].lifecycle = "CURRENT"
             /\ \/ F[e] = E[e]
                \/ /\ F[e].lifecycle = "REVALIDATION_REQUIRED"
                   /\ \E n \in {E[e].from, E[e].to} :
                        n \in DOMAIN N /\ M[n].entity_generation # N[n].entity_generation
  <2>1. E[e] \in EdgeRecords
    BY DEF IsEdgeMap
  <2>2. CASE changed(E[e])
    <3>1. F[e] = followed(E[e])
      BY <1>1, <2>2
    <3> QED
      BY <1>2, <1>3, <1>5, <2>1, <2>2, <3>1
  <2>3. CASE ~changed(E[e])
    BY <1>1, <2>3
  <2> QED
    BY <2>2, <2>3
<1>9. M = N => F = E
  BY <1>1, <1>4, <1>6 DEF IsEdgeMap
<1> QED
  BY <1>7, <1>8, <1>9

\* What publish has made of the edges E in the graph G, apart from the loop.
ObservedPresent(pub, edge) ==
  \E i \in DOMAIN pub.edges :
    /\ pub.edges[i].present
    /\ HasKey(edge, pub.edges[i])
    /\ edge.lifecycle = "CURRENT"
    /\ edge.evidence_generation = pub.edges[i].evidence_generation

\* Nothing the publication says of relationships has anything to add to G.
EdgesSettled(pub, G) ==
  /\ \A i \in DOMAIN pub.edges : \A e \in DOMAIN G :
       SameKey(G[e], pub.edges[i]) /\ IsLive(G[e]) =>
         pub.edges[i].present /\ IsSkipped(G[e], pub.edges[i])
  /\ \A i \in DOMAIN pub.edges :
       \/ ~pub.edges[i].present
       \/ \E e \in DOMAIN G : SameKey(G[e], pub.edges[i])
       \/ IsSnapshot(pub) /\ \E k \in pub.declared_absent : SameKey(pub.edges[i], k)
  /\ \A e \in DOMAIN G : \A k \in pub.declared_absent :
       IsLive(G[e]) /\ k.domain = pub.domain => ~SameKey(G[e], k)

Applied(ctx, pub, F, G) ==
  /\ EdgesSettled(pub, G)
  /\ \A e \in DOMAIN F :
       F[e].domain # pub.domain => e \in DOMAIN G /\ G[e] = F[e]
  /\ NotOlder(F, G)
  /\ AssertedHere(ctx, F, G)
  /\ ~IsSnapshot(pub) =>
       /\ DOMAIN F \subseteq DOMAIN G
       /\ \A e \in DOMAIN F :
            IsLive(F[e]) /\ ~IsLive(G[e]) =>
              IsObserved(pub, F[e]) \/ IsDeclaredAbsent(pub, F[e])
  /\ IsSnapshot(pub) =>
       /\ \A e \in DOMAIN G :
            IsLive(G[e]) /\ Mentions(pub, G[e]) => ObservedPresent(pub, G[e])
       /\ \A i \in DOMAIN pub.edges :
            pub.edges[i].present /\ ~IsDeclaredAbsent(pub, pub.edges[i]) =>
              \E e \in DOMAIN G : HasKey(G[e], pub.edges[i]) /\ IsLive(G[e])

LEMMA SameKeyTurns ==
  ASSUME NEW a, NEW b
  PROVE  SameKey(a, b) <=> SameKey(b, a)
BY DEF SameKey

\* What declared_absent_relationships does to the edges the loop has left.
LEMMA AbsencesApply ==
  ASSUME NEW ctx, NEW pub, NEW F, IsEdgeMap(F), NEW E, IsEdgeMap(E), UniqueKeys(E),
         NEW n, DOMAIN pub.edges = 1..n,
         \A i \in DOMAIN pub.edges : pub.edges[i].domain = pub.domain,
         Reached(ctx, pub, F, n, E),
         NEW D, D = UNION {LiveWithKey(E, key) :
                             key \in {k \in pub.declared_absent : k.domain = pub.domain}},
         NEW G, G = Kept(pub, E, D)
  PROVE  Applied(ctx, pub, F, G)
<1>1. /\ DOMAIN G = IF IsSnapshot(pub) THEN DOMAIN E \ D ELSE DOMAIN E
      /\ \A e \in DOMAIN G :
           /\ e \notin D => G[e] = E[e]
           /\ e \in D => G[e].lifecycle = "RETIRED"
           /\ Key(G[e]) = Key(E[e])
           /\ G[e].evidence_generation = E[e].evidence_generation
  BY DEF Kept, Without, IsEdgeMap, EdgeRecords, Key
<1>2. \A e \in D : /\ E[e].domain = pub.domain
                   /\ \E k \in pub.declared_absent : SameKey(E[e], k)
  BY DEF LiveWithKey, SameKey
<1>3. DOMAIN G \subseteq DOMAIN E
  BY <1>1
<1>4. ASSUME NEW e \in DOMAIN F, F[e].domain # pub.domain
      PROVE  e \in DOMAIN G /\ G[e] = F[e]
  <2>1. \A j \in 1..n : ~SameKey(F[e], pub.edges[j])
    BY <1>4 DEF SameKey
  <2>2. e \in DOMAIN E /\ E[e] = F[e]
    BY <2>1 DEF Reached, Untouched
  <2>3. e \notin D
    BY <1>2, <1>4, <2>2
  <2> QED
    BY <1>1, <2>2, <2>3
<1>5. NotOlder(F, G)
  <2>1. NotOlder(F, E)
    BY DEF Reached
  <2> QED
    BY <1>1, <1>3, <2>1 DEF NotOlder
<1>6. AssertedHere(ctx, F, G)
  <2>1. AssertedHere(ctx, F, E)
    BY DEF Reached
  <2>2. \A e \in CurrentEdges(G) : e \in CurrentEdges(E) /\ G[e] = E[e]
    BY <1>1, <1>3 DEF CurrentEdges
  <2> QED
    BY <2>1, <2>2 DEF AssertedHere
<1>7. ASSUME ~IsSnapshot(pub)
      PROVE  /\ DOMAIN F \subseteq DOMAIN G
             /\ \A e \in DOMAIN F :
                  IsLive(F[e]) /\ ~IsLive(G[e]) =>
                    IsObserved(pub, F[e]) \/ IsDeclaredAbsent(pub, F[e])
  <2>1. DOMAIN F \subseteq DOMAIN G
    BY <1>1, <1>7 DEF Reached
  <2>2. ASSUME NEW e \in DOMAIN F, IsLive(F[e]), ~IsLive(G[e]), ~IsObserved(pub, F[e])
        PROVE  IsDeclaredAbsent(pub, F[e])
    <3>1. \A j \in 1..n : ~SameKey(F[e], pub.edges[j])
      BY <2>2, SameKeyIsKey DEF IsObserved
    <3>2. e \in DOMAIN E /\ E[e] = F[e]
      BY <3>1 DEF Reached, Untouched
    <3>3. e \in D
      BY <1>1, <2>1, <2>2, <3>2
    <3> QED
      BY <1>2, <3>2, <3>3, SameKeyIsKey DEF IsDeclaredAbsent
  <2> QED
    BY <2>1, <2>2
<1>8. ASSUME IsSnapshot(pub), NEW e \in DOMAIN G, IsLive(G[e]), Mentions(pub, G[e])
      PROVE  ObservedPresent(pub, G[e])
  <2>1. e \in DOMAIN E /\ e \notin D /\ G[e] = E[e]
    BY <1>1, <1>8
  <2>2. PICK i \in DOMAIN pub.edges : SameKey(pub.edges[i], E[e])
    BY <1>8, <2>1 DEF Mentions
  <2>3. Heeded(pub, pub.edges[i], E) /\ SameKey(E[e], pub.edges[i])
    BY <2>2, SameKeyTurns DEF Reached
  <2> QED
    BY <1>8, <2>1, <2>3, SameKeyIsKey DEF Heeded, ObservedPresent
<1>9. ASSUME IsSnapshot(pub), NEW i \in DOMAIN pub.edges, pub.edges[i].present,
             ~IsDeclaredAbsent(pub, pub.edges[i])
      PROVE  \E e \in DOMAIN G : HasKey(G[e], pub.edges[i]) /\ IsLive(G[e])
  <2>1. Heeded(pub, pub.edges[i], E)
    BY DEF Reached
  <2>2. PICK e \in DOMAIN E : SameKey(E[e], pub.edges[i]) /\ IsLive(E[e])
    BY <1>9, <2>1 DEF Heeded
  <2>3. e \notin D
    <3> SUFFICES ASSUME e \in D PROVE FALSE
      OBVIOUS
    <3>1. PICK k \in pub.declared_absent : SameKey(E[e], k)
      BY <1>2
    <3>2. SameKey(pub.edges[i], k)
      BY <2>2, <3>1, SameKeyMeets
    <3> QED
      BY <1>9, <3>2, SameKeyIsKey DEF IsDeclaredAbsent
  <2>4. e \in DOMAIN G /\ G[e] = E[e]
    BY <1>1, <2>3
  <2> QED
    BY <2>2, <2>4, SameKeyIsKey
<1>10. ASSUME NEW i \in DOMAIN pub.edges, NEW e \in DOMAIN G,
              SameKey(G[e], pub.edges[i]), IsLive(G[e])
       PROVE  pub.edges[i].present /\ IsSkipped(G[e], pub.edges[i])
  <2>1. e \in DOMAIN E /\ G[e] = E[e]
    BY <1>1, <1>3, <1>10 DEF IsLive, Terminal
  <2>2. Heeded(pub, pub.edges[i], E)
    BY DEF Reached
  <2> QED
    BY <1>10, <2>1, <2>2 DEF Heeded
<1>11. ASSUME NEW i \in DOMAIN pub.edges, pub.edges[i].present,
              ~(IsSnapshot(pub) /\ \E k \in pub.declared_absent : SameKey(pub.edges[i], k))
       PROVE  \E e \in DOMAIN G : SameKey(G[e], pub.edges[i])
  <2>1. CASE IsSnapshot(pub)
    BY <1>9, <1>11, <2>1, SameKeyIsKey DEF IsDeclaredAbsent
  <2>2. CASE ~IsSnapshot(pub)
    <3>1. Heeded(pub, pub.edges[i], E)
      BY DEF Reached
    <3>2. PICK e \in DOMAIN E : SameKey(E[e], pub.edges[i])
      BY <1>11, <3>1 DEF Heeded
    <3>3. e \in DOMAIN G /\ SameKey(G[e], pub.edges[i])
      BY <1>1, <2>2, <3>2, SameKeyIsKey DEF HasKey
    <3> QED
      BY <3>3
  <2> QED
    BY <2>1, <2>2
<1>12. ASSUME NEW e \in DOMAIN G, NEW k \in pub.declared_absent, IsLive(G[e]),
              k.domain = pub.domain
       PROVE  ~SameKey(G[e], k)
  <2>1. e \in DOMAIN E /\ e \notin D /\ G[e] = E[e]
    BY <1>1, <1>3, <1>12 DEF IsLive, Terminal
  <2>2. SameKey(E[e], k) => e \in D
    BY <1>12, <2>1 DEF LiveWithKey
  <2> QED
    BY <2>1, <2>2
<1>13. EdgesSettled(pub, G)
  BY <1>10, <1>11, <1>12 DEF EdgesSettled
<1> QED
  BY <1>4, <1>5, <1>6, <1>7, <1>8, <1>9, <1>13 DEF Applied

\* The candidate before a snapshot's removals: M are its nodes, F the edges as
\* they followed the nodes.
LEMMA AppliedFacts ==
  ASSUME IInv, NEW ctx \in Contexts, NEW pub \in Publications,
         NodesAcceptable(pub), EdgeEntriesAcceptable(pub),
         NEW M, M = ReconciledNodes(nodes, pub),
         NEW F, F = RebindAll(nodes, M, edges),
         NEW b, b = NodesReconciled(nodes, edges, pub),
         NEW c, c = AbsencesApplied(pub, EdgesReconciled(ctx, pub, b))
  PROVE  /\ c.valid \in BOOLEAN /\ c.changed \in BOOLEAN
         /\ c = [valid |-> c.valid, changed |-> c.changed, nodes |-> M, edges |-> c.edges]
         /\ c.valid => /\ SoundGraph(M, c.edges)
                       /\ Applied(ctx, pub, F, c.edges)
                       /\ ~c.changed => M = nodes /\ c.edges = edges
<1> DEFINE a == EdgesReconciled(ctx, pub, b)
           D == UNION {LiveWithKey(a.edges, key) :
                         key \in {k \in pub.declared_absent : k.domain = pub.domain}}
<1> DEFINE q == M # nodes \/ ObservesOtherClass(nodes, pub)
<1>1. b = [valid |-> TRUE, changed |-> q, nodes |-> M, edges |-> F]
  BY DEF NodesReconciled
<1>13. q \in BOOLEAN /\ (M # nodes => q)
  OBVIOUS
<1> HIDE DEF q
<1>2. /\ SoundNodes(M)
      /\ DOMAIN nodes \subseteq DOMAIN M
      /\ SoundGraph(nodes, edges)
  BY ReconciledNodesSound DEF GrownNodes, IInv
<1>3. SoundGraph(M, F)
  BY <1>2, RebindAllSound
<1>4. IsEdgeMap(F) /\ UniqueKeys(F)
  BY <1>3 DEF SoundGraph, SoundEdges
<1>5. F \in EdgeMaps
  BY <1>4, EdgeMapsAre
<1>6. b \in Candidates(M) /\ b.valid /\ b.edges = F /\ (M # nodes => b.changed)
  BY <1>1, <1>5, <1>13 DEF Candidates
<1>7. c = Drop(pub, a, D)
  BY DEF AbsencesApplied
<1> HIDE DEF D
<1>8. /\ a \in Candidates(M)
      /\ a.valid =>
           /\ SoundGraph(M, a.edges)
           /\ Reached(ctx, pub, F, Len(pub.edges), a.edges)
           /\ b.changed => a.changed
           /\ a.changed \/ a.edges = F
  BY <1>3, <1>6, EdgesReconciledReach
<1>9. D = UNION {LiveWithKey(a.edges, key) :
                   key \in {k \in pub.declared_absent : k.domain = pub.domain}}
  BY DEF D
<1> HIDE DEF a
<1>10. /\ c.valid = a.valid
       /\ c.changed <=> a.changed \/ D # {}
       /\ c.changed \in BOOLEAN
       /\ c.edges = Kept(pub, a.edges, D)
       /\ c = [valid |-> c.valid, changed |-> c.changed, nodes |-> M, edges |-> c.edges]
  <2>1. a \in Candidates(M)
    BY <1>8
  <2>2. \A d : d = Drop(pub, a, D) =>
         /\ d.valid = a.valid
         /\ d.changed <=> a.changed \/ D # {}
         /\ d.changed \in BOOLEAN
         /\ d.edges = Kept(pub, a.edges, D)
         /\ d = [valid |-> d.valid, changed |-> d.changed, nodes |-> M, edges |-> d.edges]
    BY <2>1, DropFields, SMT
  <2> QED
    BY <1>7, <2>2
<1>11. c.valid \in BOOLEAN
  BY <1>8, <1>10 DEF Candidates
<1>12. ASSUME c.valid
       PROVE  /\ SoundGraph(M, c.edges)
              /\ Applied(ctx, pub, F, c.edges)
              /\ ~c.changed => M = nodes /\ c.edges = edges
  <2>1. /\ SoundGraph(M, a.edges)
        /\ Reached(ctx, pub, F, Len(pub.edges), a.edges)
        /\ b.changed => a.changed
        /\ a.changed \/ a.edges = F
    BY <1>8, <1>10, <1>12
  <2>2. SoundGraph(M, c.edges)
    BY <1>10, <2>1, KeptSound
  <2>3. IsEdgeMap(a.edges) /\ UniqueKeys(a.edges)
    BY <2>1 DEF SoundGraph, SoundEdges
  <2>4. /\ DOMAIN pub.edges = 1..Len(pub.edges)
        /\ \A i \in DOMAIN pub.edges : pub.edges[i].domain = pub.domain
    BY EntriesNameKeys
  <2>5. c.edges = Kept(pub, a.edges, D)
    BY <1>10
  <2>6. Applied(ctx, pub, F, c.edges)
    BY <1>4, <1>9, <2>1, <2>3, <2>4, <2>5, AbsencesApply
  <2>7. ASSUME ~c.changed PROVE M = nodes /\ c.edges = edges
    <3>1. ~a.changed /\ D = {}
      BY <1>10, <2>7
    <3>2. M = nodes /\ a.edges = F
      BY <1>6, <2>1, <3>1
    <3>3. c.edges = a.edges
      BY <2>3, <2>5, <3>1 DEF Kept, Without, IsEdgeMap
    <3>4. F = edges
      BY <1>2, <3>2, RebindFacts DEF SoundGraph, SoundEdges
    <3> QED
      BY <3>2, <3>3, <3>4
  <2> QED
    BY <2>2, <2>6, <2>7
<1> QED
  BY <1>10, <1>11, <1>12

\* What a snapshot's removals make of the nodes M.
TrimmedNodes(pub, M, G, P) ==
  /\ DOMAIN P \subseteq DOMAIN M
  /\ \A n \in DOMAIN M :
       \/ n \in DOMAIN P /\ P[n] = M[n] /\ n \notin UnmentionedNodes(pub, M)
       \/ n \in UnmentionedNodes(pub, M) /\ n \notin DOMAIN P
       \/ /\ n \in UnmentionedNodes(pub, M)
          /\ Incident(G, n) # {}
          /\ n \in DOMAIN P
          /\ P[n].domain = M[n].domain
          /\ P[n].entity_generation = M[n].entity_generation
          /\ P[n].lifecycle = "RETIRED"

\* A snapshot erases nodes only once no edge is left at them.
LEMMA RemovalsSound ==
  ASSUME NEW pub, NEW M, NEW E, SoundGraph(M, E), NEW k, k.nodes = M, k.edges = E,
         k = [valid |-> k.valid, changed |-> k.changed, nodes |-> M, edges |-> E],
         k.changed \in BOOLEAN,
         NEW c, c = Removals(pub, k)
  PROVE  /\ c.valid = k.valid
         /\ c.changed \in BOOLEAN
         /\ SoundGraph(c.nodes, c.edges)
         /\ c.edges = Without(E, UnmentionedEdges(pub, E))
         /\ TrimmedNodes(pub, M, c.edges, c.nodes)
         /\ ~c.changed => ~k.changed /\ c.nodes = M /\ c.edges = E
<1> DEFINE G == Without(E, UnmentionedEdges(pub, E))
           gone == UnmentionedNodes(pub, M)
           kept == {n \in gone : Incident(G, n) # {}}
           P == [n \in DOMAIN M \ (gone \ kept) |->
                   IF n \in kept THEN [M[n] EXCEPT !.lifecycle = "RETIRED"] ELSE M[n]]
<1>1. c = [valid |-> k.valid, changed |-> k.changed \/ DOMAIN G # DOMAIN E \/ gone # {},
           nodes |-> P, edges |-> G]
  BY DEF Removals
<1>2. SoundGraph(M, G)
  BY WithoutEdgesSound
<1>3. IsNodeMap(M) /\ UniqueEntities(M) /\ IsEdgeMap(E)
  BY DEF SoundGraph, SoundNodes, SoundEdges
<1>4. /\ kept \subseteq gone /\ gone \subseteq DOMAIN M
      /\ \A n \in gone : M[n].domain = pub.domain
      /\ \A n \in DOMAIN M : Incident(G, n) # {} => n \notin gone \ kept
      /\ \A n \in kept : Incident(G, n) # {}
  BY DEF UnmentionedNodes
<1>5. DOMAIN G \subseteq DOMAIN E /\ (DOMAIN G = DOMAIN E => G = E)
  BY <1>3 DEF Without, IsEdgeMap
<1>6. ASSUME NEW r \in NodeRecords
      PROVE  /\ [r EXCEPT !.lifecycle = "RETIRED"] \in NodeRecords
             /\ [r EXCEPT !.lifecycle = "RETIRED"].lifecycle = "RETIRED"
             /\ [r EXCEPT !.lifecycle = "RETIRED"].entity_id = r.entity_id
             /\ [r EXCEPT !.lifecycle = "RETIRED"].domain = r.domain
             /\ [r EXCEPT !.lifecycle = "RETIRED"].entity_generation = r.entity_generation
  BY <1>6 DEF NodeRecords, Lifecycles
<1> HIDE DEF G, gone, kept
<1>7. /\ DOMAIN P = DOMAIN M \ (gone \ kept)
      /\ P = [n \in DOMAIN P |-> P[n]]
      /\ \A n \in DOMAIN P : /\ n \in kept => P[n] = [M[n] EXCEPT !.lifecycle = "RETIRED"]
                             /\ n \notin kept => P[n] = M[n]
  OBVIOUS
<1> HIDE DEF P
<1>8. ASSUME NEW n \in DOMAIN P
      PROVE  /\ P[n] \in NodeRecords
             /\ P[n].entity_id = M[n].entity_id
             /\ P[n].domain = M[n].domain
             /\ P[n].entity_generation = M[n].entity_generation
             /\ n \in kept => P[n].lifecycle = "RETIRED"
  <2>1. M[n] \in NodeRecords
    BY <1>3, <1>7 DEF IsNodeMap
  <2>2. CASE n \in kept
    <3>1. P[n] = [M[n] EXCEPT !.lifecycle = "RETIRED"]
      BY <1>7, <2>2
    <3> QED
      BY <1>6, <2>1, <3>1
  <2>3. CASE n \notin kept
    BY <1>7, <2>1, <2>3
  <2> QED
    BY <2>2, <2>3
<1>9. IsNodeMap(P)
  BY <1>3, <1>7, <1>8 DEF IsNodeMap
<1>10. UniqueEntities(P)
  BY <1>3, <1>7, <1>8 DEF UniqueEntities
<1>11. ClosedEdges(P, G)
  <2>1. \A e \in DOMAIN G : {G[e].from, G[e].to} \subseteq DOMAIN M
    BY <1>2 DEF SoundGraph, ClosedEdges
  <2>2. \A e \in DOMAIN G : e \in Incident(G, G[e].from) /\ e \in Incident(G, G[e].to)
    BY DEF Incident
  <2> QED
    BY <1>4, <1>7, <2>1, <2>2 DEF ClosedEdges
<1>12. SoundGraph(P, G)
  BY <1>2, <1>9, <1>10, <1>11 DEF SoundGraph, SoundNodes
<1>17. c.changed = (k.changed \/ DOMAIN G # DOMAIN E \/ gone # {})
  BY <1>1
<1>13. c.changed \in BOOLEAN /\ (~c.changed => ~k.changed /\ DOMAIN G = DOMAIN E /\ gone = {})
  BY <1>17
<1>14. gone = {} => P = M
  BY <1>3, <1>4, <1>7 DEF IsNodeMap
<1>15. ASSUME NEW n \in DOMAIN M
       PROVE  \/ n \in DOMAIN P /\ P[n] = M[n] /\ n \notin gone
              \/ n \in gone /\ n \notin DOMAIN P
              \/ /\ n \in gone
                 /\ Incident(G, n) # {}
                 /\ n \in DOMAIN P
                 /\ P[n].domain = M[n].domain
                 /\ P[n].entity_generation = M[n].entity_generation
                 /\ P[n].lifecycle = "RETIRED"
  BY <1>4, <1>7, <1>8
<1>16. TrimmedNodes(pub, M, G, P)
  BY <1>7, <1>15 DEF TrimmedNodes, gone
<1> QED
  BY <1>1, <1>5, <1>12, <1>13, <1>14, <1>16 DEF G

\* The edges F followed the nodes M; what holds between F and G holds between
\* the graph's edges and G.
EdgesSupersede(ctx, pub, M, G) ==
  /\ NotOlder(edges, G)
  /\ AssertedHere(ctx, edges, G)
  /\ \A e \in DOMAIN edges :
       edges[e].domain # pub.domain =>
         /\ e \in DOMAIN G
         /\ \/ G[e] = edges[e]
            \/ /\ G[e].lifecycle = "REVALIDATION_REQUIRED"
               /\ G[e].domain = edges[e].domain
               /\ \E n \in {G[e].from, G[e].to} :
                    /\ n \in {edges[e].from, edges[e].to}
                    /\ n \in DOMAIN nodes
                    /\ M[n].entity_generation # nodes[n].entity_generation
  /\ ~IsSnapshot(pub) =>
       /\ DOMAIN edges \subseteq DOMAIN G
       /\ \A e \in DOMAIN edges :
            IsLive(edges[e]) /\ ~IsLive(G[e]) =>
              IsObserved(pub, edges[e]) \/ IsDeclaredAbsent(pub, edges[e])
  /\ IsSnapshot(pub) =>
       /\ \A e \in DOMAIN G :
            IsLive(G[e]) /\ Mentions(pub, G[e]) => ObservedPresent(pub, G[e])
       /\ \A i \in DOMAIN pub.edges :
            pub.edges[i].present /\ ~IsDeclaredAbsent(pub, pub.edges[i]) =>
              \E e \in DOMAIN G : HasKey(G[e], pub.edges[i]) /\ IsLive(G[e])

LEMMA AppliedSupersedes ==
  ASSUME IInv, NEW ctx, NEW pub, NEW M, NEW F, F = RebindAll(nodes, M, edges),
         NEW G, Applied(ctx, pub, F, G)
  PROVE  EdgesSupersede(ctx, pub, M, G)
<1>1. IsEdgeMap(edges)
  BY DEF IInv, SoundGraph, SoundEdges
<1>2. /\ DOMAIN F = DOMAIN edges
      /\ \A e \in DOMAIN edges :
           /\ Key(F[e]) = Key(edges[e])
           /\ F[e].evidence_generation = edges[e].evidence_generation
           /\ F[e].provenance = edges[e].provenance
           /\ IsLive(F[e]) <=> IsLive(edges[e])
           /\ F[e].lifecycle = "CURRENT" => edges[e].lifecycle = "CURRENT"
           /\ \/ F[e] = edges[e]
              \/ /\ F[e].lifecycle = "REVALIDATION_REQUIRED"
                 /\ \E n \in {edges[e].from, edges[e].to} :
                      n \in DOMAIN nodes /\ M[n].entity_generation # nodes[n].entity_generation
  BY <1>1, RebindFacts
<1>3. NotOlder(edges, G)
  BY <1>2 DEF NotOlder, Applied
<1>4. AssertedHere(ctx, edges, G)
  BY <1>2 DEF AssertedHere, Applied, CurrentEdges
<1>5. ASSUME NEW e \in DOMAIN edges, edges[e].domain # pub.domain
      PROVE  /\ e \in DOMAIN G
             /\ \/ G[e] = edges[e]
                \/ /\ G[e].lifecycle = "REVALIDATION_REQUIRED"
                   /\ G[e].domain = edges[e].domain
                   /\ \E n \in {G[e].from, G[e].to} :
                        /\ n \in {edges[e].from, edges[e].to}
                        /\ n \in DOMAIN nodes
                        /\ M[n].entity_generation # nodes[n].entity_generation
  <2>1. /\ F[e].domain = edges[e].domain
        /\ F[e].from = edges[e].from
        /\ F[e].to = edges[e].to
    BY <1>2 DEF Key
  <2>2. e \in DOMAIN G /\ G[e] = F[e]
    BY <1>2, <1>5, <2>1 DEF Applied
  <2> QED
    BY <1>2, <2>1, <2>2
<1>6. \A e \in DOMAIN edges : /\ IsObserved(pub, F[e]) => IsObserved(pub, edges[e])
                              /\ IsDeclaredAbsent(pub, F[e]) => IsDeclaredAbsent(pub, edges[e])
  BY <1>2 DEF IsObserved, IsDeclaredAbsent, HasKey
<1>7. ASSUME ~IsSnapshot(pub)
      PROVE  /\ DOMAIN edges \subseteq DOMAIN G
             /\ \A e \in DOMAIN edges :
                  IsLive(edges[e]) /\ ~IsLive(G[e]) =>
                    IsObserved(pub, edges[e]) \/ IsDeclaredAbsent(pub, edges[e])
  BY <1>2, <1>6, <1>7 DEF Applied
<1>8. IsSnapshot(pub) =>
        /\ \A e \in DOMAIN G :
             IsLive(G[e]) /\ Mentions(pub, G[e]) => ObservedPresent(pub, G[e])
        /\ \A i \in DOMAIN pub.edges :
             pub.edges[i].present /\ ~IsDeclaredAbsent(pub, pub.edges[i]) =>
               \E e \in DOMAIN G : HasKey(G[e], pub.edges[i]) /\ IsLive(G[e])
  BY DEF Applied
<1> QED
  BY <1>3, <1>4, <1>5, <1>7, <1>8 DEF EdgesSupersede

\* What a candidate with nodes P and edges G makes of the graph there is.
Supersedes(ctx, pub, P, G) ==
  /\ NotOlder(edges, G)
  /\ AssertedHere(ctx, edges, G)
  /\ \A n \in DOMAIN nodes :
       nodes[n].domain # pub.domain \/ ~IsSnapshot(pub) =>
         /\ n \in DOMAIN P
         /\ P[n].domain = nodes[n].domain
         /\ P[n].lifecycle \in {nodes[n].lifecycle, "CURRENT"}
  /\ \A e \in DOMAIN edges :
       edges[e].domain # pub.domain =>
         /\ e \in DOMAIN G
         /\ \/ G[e] = edges[e]
            \/ /\ G[e].lifecycle = "REVALIDATION_REQUIRED"
               /\ \E n \in {edges[e].from, edges[e].to} :
                    P[n].entity_generation # nodes[n].entity_generation
  /\ ~IsSnapshot(pub) =>
       /\ DOMAIN edges \subseteq DOMAIN G
       /\ \A e \in DOMAIN edges :
            IsLive(edges[e]) /\ ~IsLive(G[e]) =>
              IsObserved(pub, edges[e]) \/ IsDeclaredAbsent(pub, edges[e])
  /\ IsSnapshot(pub) =>
       /\ \A e \in DOMAIN G :
            G[e].domain = pub.domain /\ IsLive(G[e]) => ObservedPresent(pub, G[e])
       /\ \A i \in DOMAIN pub.edges :
            pub.edges[i].present /\ ~IsDeclaredAbsent(pub, pub.edges[i]) =>
              \E e \in DOMAIN G : HasKey(G[e], pub.edges[i]) /\ IsLive(G[e])
       /\ \A n \in DOMAIN P :
            P[n].domain = pub.domain /\ P[n].lifecycle # "RETIRED" =>
              \E o \in pub.nodes : o.node_id = n

\* Without removals the nodes are the reconciled ones.
LEMMA GrownSupersedes ==
  ASSUME NEW ctx, NEW pub, ~IsSnapshot(pub), NEW M, GrownNodes(pub, nodes, M),
         NEW G, EdgesSupersede(ctx, pub, M, G)
  PROVE  Supersedes(ctx, pub, M, G)
<1>1. \A n \in DOMAIN nodes :
        /\ n \in DOMAIN M
        /\ M[n].domain = nodes[n].domain
        /\ M[n].lifecycle \in {nodes[n].lifecycle, "CURRENT"}
  BY DEF GrownNodes
<1> QED
  BY <1>1 DEF Supersedes, EdgesSupersede

\* Removals take nothing outside the domain, and nothing the snapshot mentions.
LEMMA RemovalsSupersede ==
  ASSUME NEW ctx, NEW pub, IsSnapshot(pub), NEW M, GrownNodes(pub, nodes, M),
         NEW E, EdgesSupersede(ctx, pub, M, E),
         NEW G, G = Without(E, UnmentionedEdges(pub, E)),
         NEW P, ClosedEdges(P, G), TrimmedNodes(pub, M, G, P)
  PROVE  Supersedes(ctx, pub, P, G)
<1>9. /\ DOMAIN P \subseteq DOMAIN M
      /\ \A n \in DOMAIN M :
           \/ n \in DOMAIN P /\ P[n] = M[n] /\ n \notin UnmentionedNodes(pub, M)
           \/ M[n].domain = pub.domain /\ n \notin DOMAIN P
           \/ /\ M[n].domain = pub.domain
              /\ n \in DOMAIN P
              /\ P[n].domain = M[n].domain
              /\ P[n].entity_generation = M[n].entity_generation
              /\ P[n].lifecycle = "RETIRED"
  BY DEF TrimmedNodes, UnmentionedNodes
<1>1. /\ DOMAIN G \subseteq DOMAIN E
      /\ \A e \in DOMAIN G : G[e] = E[e]
      /\ \A e \in DOMAIN E : e \in DOMAIN G <=> e \notin UnmentionedEdges(pub, E)
  BY DEF Without
<1>2. \A e \in DOMAIN E :
        e \in UnmentionedEdges(pub, E) <=>
          E[e].domain = pub.domain /\ IsLive(E[e]) /\ ~Mentions(pub, E[e])
  BY DEF UnmentionedEdges
<1>3. NotOlder(edges, G) /\ AssertedHere(ctx, edges, G)
  BY <1>1 DEF EdgesSupersede, NotOlder, AssertedHere, CurrentEdges
<1>4. ASSUME NEW n \in DOMAIN nodes, nodes[n].domain # pub.domain
      PROVE  /\ n \in DOMAIN P
             /\ P[n].domain = nodes[n].domain
             /\ P[n].lifecycle \in {nodes[n].lifecycle, "CURRENT"}
  <2>1. /\ n \in DOMAIN M
        /\ M[n].domain = nodes[n].domain
        /\ M[n].lifecycle \in {nodes[n].lifecycle, "CURRENT"}
    BY DEF GrownNodes
  <2> QED
    BY <1>4, <1>9, <2>1
<1>5. ASSUME NEW e \in DOMAIN edges, edges[e].domain # pub.domain
      PROVE  /\ e \in DOMAIN G
             /\ \/ G[e] = edges[e]
                \/ /\ G[e].lifecycle = "REVALIDATION_REQUIRED"
                   /\ \E n \in {edges[e].from, edges[e].to} :
                        P[n].entity_generation # nodes[n].entity_generation
  <2>1. e \in DOMAIN E
    BY <1>5 DEF EdgesSupersede
  <2>2. CASE E[e] = edges[e]
    BY <1>1, <1>2, <1>5, <2>1, <2>2
  <2>3. CASE E[e] # edges[e]
    <3>1. PICK n \in {E[e].from, E[e].to} :
            /\ n \in {edges[e].from, edges[e].to}
            /\ n \in DOMAIN nodes
            /\ M[n].entity_generation # nodes[n].entity_generation
      BY <1>5, <2>3 DEF EdgesSupersede
    <3>2. E[e].lifecycle = "REVALIDATION_REQUIRED"
      BY <1>5, <2>3 DEF EdgesSupersede
    <3>3. e \in DOMAIN G
      BY <1>1, <1>2, <1>5, <2>1 DEF EdgesSupersede
    <3>4. n \in DOMAIN P
      BY <1>1, <3>1, <3>3 DEF ClosedEdges
    <3>5. P[n].entity_generation = M[n].entity_generation
      BY <1>9, <3>4
    <3> QED
      BY <1>1, <3>1, <3>2, <3>3, <3>5
  <2> QED
    BY <2>2, <2>3
<1>6. ASSUME NEW e \in DOMAIN G, G[e].domain = pub.domain, IsLive(G[e])
      PROVE  ObservedPresent(pub, G[e])
  <2>1. e \in DOMAIN E /\ G[e] = E[e] /\ Mentions(pub, E[e])
    BY <1>1, <1>2, <1>6
  <2> QED
    BY <1>6, <2>1 DEF EdgesSupersede
<1>7. ASSUME NEW i \in DOMAIN pub.edges, pub.edges[i].present,
             ~IsDeclaredAbsent(pub, pub.edges[i])
      PROVE  \E e \in DOMAIN G : HasKey(G[e], pub.edges[i]) /\ IsLive(G[e])
  <2>1. PICK e \in DOMAIN E : HasKey(E[e], pub.edges[i]) /\ IsLive(E[e])
    BY <1>7 DEF EdgesSupersede
  <2>2. Mentions(pub, E[e])
    BY <2>1, SameKeyIsKey, SameKeyTurns DEF Mentions
  <2>3. e \in DOMAIN G
    BY <1>1, <1>2, <2>2
  <2> QED
    BY <1>1, <2>1, <2>3
<1>8. ASSUME NEW n \in DOMAIN P, P[n].domain = pub.domain, P[n].lifecycle # "RETIRED"
      PROVE  \E o \in pub.nodes : o.node_id = n
  <2>1. n \in DOMAIN M /\ P[n] = M[n] /\ n \notin UnmentionedNodes(pub, M)
    BY <1>8, <1>9
  <2> QED
    BY <1>8, <2>1 DEF UnmentionedNodes
<1> QED
  BY <1>3, <1>4, <1>5, <1>6, <1>7, <1>8 DEF Supersedes

\* Publishing the same once more has nothing to do.
Settled(pub, P, G) ==
  /\ NodesSettled(pub, P)
  /\ EdgesSettled(pub, G)
  /\ IsSnapshot(pub) =>
       /\ \A e \in DOMAIN G : G[e].domain = pub.domain /\ IsLive(G[e]) => Mentions(pub, G[e])
       /\ \A n \in UnmentionedNodes(pub, P) :
            P[n].lifecycle = "RETIRED" /\ Incident(G, n) # {}

LEMMA RemovalsSettle ==
  ASSUME NEW pub, IsSnapshot(pub), NEW M, NodesSettled(pub, M),
         NEW E, EdgesSettled(pub, E), NEW G, G = Without(E, UnmentionedEdges(pub, E)),
         NEW P, TrimmedNodes(pub, M, G, P)
  PROVE  Settled(pub, P, G)
<1>1. /\ DOMAIN G \subseteq DOMAIN E
      /\ \A e \in DOMAIN G : G[e] = E[e]
      /\ \A e \in DOMAIN E : e \in DOMAIN G <=> e \notin UnmentionedEdges(pub, E)
  BY DEF Without
<1>2. \A e \in DOMAIN E :
        e \in UnmentionedEdges(pub, E) <=>
          E[e].domain = pub.domain /\ IsLive(E[e]) /\ ~Mentions(pub, E[e])
  BY DEF UnmentionedEdges
<1>3. ASSUME NEW o \in PresentNodes(pub)
      PROVE  o.node_id \in DOMAIN P /\ P[o.node_id] = M[o.node_id]
  <2>1. o.node_id \in DOMAIN M /\ o.node_id \notin UnmentionedNodes(pub, M)
    BY DEF NodesSettled, UnmentionedNodes, PresentNodes
  <2> QED
    BY <2>1 DEF TrimmedNodes
<1>4. NodesSettled(pub, P)
  BY <1>3 DEF NodesSettled
<1>5. ASSUME NEW i \in DOMAIN pub.edges, NEW e \in DOMAIN E, SameKey(E[e], pub.edges[i])
      PROVE  e \in DOMAIN G
  <2>1. Mentions(pub, E[e])
    BY <1>5, SameKeyTurns DEF Mentions
  <2> QED
    BY <1>1, <1>2, <2>1
<1>6. EdgesSettled(pub, G)
  BY <1>1, <1>5 DEF EdgesSettled
<1>7. ASSUME NEW n \in UnmentionedNodes(pub, P)
      PROVE  P[n].lifecycle = "RETIRED" /\ Incident(G, n) # {}
  <2>1. n \in DOMAIN P /\ n \in DOMAIN M
    BY DEF UnmentionedNodes, TrimmedNodes
  <2>2. ~(P[n] = M[n] /\ n \notin UnmentionedNodes(pub, M))
    BY <2>1 DEF UnmentionedNodes
  <2> QED
    BY <2>1, <2>2 DEF TrimmedNodes
<1> QED
  BY <1>1, <1>2, <1>4, <1>6, <1>7 DEF Settled

LEMMA CandidateFacts ==
  ASSUME IInv, NEW ctx \in Contexts, NEW pub \in Publications,
         NEW c, c = Candidate(nodes, edges, ctx, pub), Accepts(ctx, pub, c)
  PROVE  /\ c.changed \in BOOLEAN
         /\ SoundGraph(c.nodes, c.edges)
         /\ Supersedes(ctx, pub, c.nodes, c.edges)
         /\ Settled(pub, c.nodes, c.edges)
         /\ ~c.changed => c.nodes = nodes /\ c.edges = edges
<1> DEFINE M == ReconciledNodes(nodes, pub)
           F == RebindAll(nodes, M, edges)
           b == NodesReconciled(nodes, edges, pub)
           a == AbsencesApplied(pub, EdgesReconciled(ctx, pub, b))
<1>1. NodesAcceptable(pub) /\ EdgeEntriesAcceptable(pub) /\ c.valid
  BY DEF Accepts
<1>2. GrownNodes(pub, nodes, M)
  BY <1>1, ReconciledNodesSound
<1>3. c = IF IsSnapshot(pub) THEN Removals(pub, a) ELSE a
  BY DEF Candidate
<1>4. /\ F = RebindAll(nodes, M, edges)
      /\ M = ReconciledNodes(nodes, pub)
      /\ b = NodesReconciled(nodes, edges, pub)
      /\ a = AbsencesApplied(pub, EdgesReconciled(ctx, pub, b))
  OBVIOUS
<1> HIDE DEF M, F, a, b
<1>5. /\ a.valid \in BOOLEAN /\ a.changed \in BOOLEAN
      /\ a = [valid |-> a.valid, changed |-> a.changed, nodes |-> M, edges |-> a.edges]
      /\ a.valid => /\ SoundGraph(M, a.edges)
                    /\ Applied(ctx, pub, F, a.edges)
                    /\ ~a.changed => M = nodes /\ a.edges = edges
  BY <1>1, <1>4, AppliedFacts
<1>6. a.nodes = M
  BY <1>5
<1>10. NodesSettled(pub, M)
  BY <1>1, <1>4, ReconciledNodesSettled
<1>11. a.valid => EdgesSettled(pub, a.edges)
  BY <1>5 DEF Applied
<1>7. a.valid => EdgesSupersede(ctx, pub, M, a.edges)
  BY <1>4, <1>5, AppliedSupersedes
<1>8. CASE ~IsSnapshot(pub)
  <2>1. c = a
    BY <1>3, <1>8
  <2>2. Supersedes(ctx, pub, M, a.edges)
    BY <1>1, <1>2, <1>7, <1>8, <2>1, GrownSupersedes
  <2>3. Settled(pub, M, a.edges)
    BY <1>1, <1>8, <1>10, <1>11, <2>1 DEF Settled
  <2> QED
    BY <1>1, <1>5, <1>6, <2>1, <2>2, <2>3
<1>9. CASE IsSnapshot(pub)
  <2>1. c = Removals(pub, a)
    BY <1>3, <1>9
  <2>2. a.valid
    BY <1>1, <1>5, <2>1 DEF Removals
  <2> DEFINE E == a.edges
  <2>3. /\ a = [valid |-> a.valid, changed |-> a.changed, nodes |-> M, edges |-> E]
        /\ a.edges = E
        /\ SoundGraph(M, E)
        /\ EdgesSupersede(ctx, pub, M, E)
        /\ EdgesSettled(pub, E)
    BY <1>5, <1>7, <1>11, <2>2
  <2> HIDE DEF E
  <2>4. /\ c.changed \in BOOLEAN
        /\ SoundGraph(c.nodes, c.edges)
        /\ c.edges = Without(E, UnmentionedEdges(pub, E))
        /\ TrimmedNodes(pub, M, c.edges, c.nodes)
        /\ ~c.changed => ~a.changed /\ c.nodes = M /\ c.edges = E
    BY <1>5, <1>6, <2>1, <2>3, RemovalsSound
  <2>5. ClosedEdges(c.nodes, c.edges)
    BY <2>4 DEF SoundGraph
  <2>6. Supersedes(ctx, pub, c.nodes, c.edges)
    BY <1>2, <1>9, <2>3, <2>4, <2>5, RemovalsSupersede
  <2>7. ~c.changed => c.nodes = nodes /\ c.edges = edges
    BY <1>5, <2>2, <2>3, <2>4
  <2>8. Settled(pub, c.nodes, c.edges)
    BY <1>9, <1>10, <2>3, <2>4, RemovalsSettle
  <2> QED
    BY <2>4, <2>6, <2>7, <2>8
<1> QED
  BY <1>8, <1>9

-----------------------------------------------------------------------------
(***************************************************************************)
(* The steps of the specification.                                         *)
(***************************************************************************)

\* The graph is sound after a publication: the candidate was, and it is
\* committed as every other mutation.
LEMMA PublishSound ==
  ASSUME IInv, NEW ctx \in Contexts, NEW pub \in Publications, Publish(ctx, pub)
  PROVE  IInv'
<1> DEFINE c == Candidate(nodes, edges, ctx, pub)
<1>1. Accepts(ctx, pub, c) /\ UNCHANGED <<authority, registry>>
  BY DEF Publish
<1>2. CASE UNCHANGED <<graph, image>>
  <2>1. UNCHANGED vars
    BY <1>1, <1>2 DEF vars, graph, authority
  <2> QED
    BY <2>1, NextSound
<1>3. CASE CommitPublication(pub, c.nodes, c.edges)
  <2>1. SoundGraph(c.nodes, c.edges)
    BY <1>1, CandidateFacts
  <2> HIDE DEF c
  <2>2. FinalizeMutation(c.nodes, c.edges, nodes)
    BY <1>3 DEF CommitPublication, FinalizeMutation, graph
  <2>3. SoundGraph(nodes, edges)
    BY DEF IInv
  <2> QED
    BY <1>1, <2>1, <2>2, <2>3, FinalizeSound
<1> QED
  BY <1>2, <1>3 DEF Publish

LEMMA EngineStep ==
  ASSUME [PublicationNext]_publicationVars
  PROVE  \/ [Next]_vars /\ (UNCHANGED attempts \/ attempts' = <<>>)
         \/ \E ctx \in Contexts, pub \in Publications : Publish(ctx, pub)
BY DEF PublicationNext, publicationVars, Next, Mutate

LEMMA PublicationStepSound == IInv /\ [PublicationNext]_publicationVars => IInv'
BY EngineStep, NextSound, PublishSound

\* The engine's inductive invariant holds with publications too.
LEMMA PublishedGraphsAreSound == PublicationSpec => []IInv
BY InitSound, PublicationStepSound, PTL DEF PublicationSpec, PublicationInit

\* publish builds a whole candidate graph and swaps it in: whatever it
\* refreshes, adds, retires and removes, no edge dangles, no entity has two
\* nodes, no relationship two edges, no acyclic relation a cycle, and
\* superseded_by ends somewhere.
THEOREM PublishedGraphsKeepStructure ==
  PublicationSpec => [](/\ NoDanglingEdge /\ OneNodePerEntity /\ OneEdgePerKey
                        /\ AcyclicRelationsStayAcyclic /\ SupersessionEnds)
<1>1. IInv => NoDanglingEdge
  BY DEF IInv, SoundGraph, ClosedEdges, NoDanglingEdge
<1>2. IInv => OneNodePerEntity
  BY DEF IInv, SoundGraph, SoundNodes, UniqueEntities, OneNodePerEntity
<1>3. IInv => OneEdgePerKey
  BY DEF IInv, SoundGraph, SoundEdges, UniqueKeys, OneEdgePerKey
<1>4. IInv => AcyclicRelationsStayAcyclic
  BY DEF IInv, SoundGraph, SoundEdges, AcyclicEdges, AcyclicRelationsStayAcyclic
<1>5. IInv => SupersessionEnds
  BY DEF IInv, SoundGraph, SoundEdges, ChainsEnd, SupersessionEnds
<1> QED
  BY <1>1, <1>2, <1>3, <1>4, <1>5, PublishedGraphsAreSound, PTL

-----------------------------------------------------------------------------
(***************************************************************************)
(* The ledger.                                                             *)
(***************************************************************************)

\* No attempt is in the ledger twice.
LedgerOK ==
  /\ attempts \in Seq(PublicationIds)
  /\ Len(attempts) <= AttemptCapacity
  /\ \A i, j \in 1..Len(attempts) : attempts[i] = attempts[j] => i = j

LEMMA RecordKeepsLedger ==
  ASSUME LedgerOK, NEW id \in PublicationIds, id \notin Range(attempts), RecordAttempt(id)
  PROVE  LedgerOK'
<1>1. AttemptCapacity \in Nat \ {0}
  BY PublicationConstants
<1>2. attempts \in Seq(PublicationIds) /\ Len(attempts) \in Nat
  BY DEF LedgerOK
<1>3. \A i \in 1..Len(attempts) : attempts[i] # id
  BY <1>2 DEF Range
<1>4. CASE Len(attempts) < AttemptCapacity
  <2>1. attempts' = Append(attempts, id)
    BY <1>4 DEF RecordAttempt
  <2> QED
    BY <1>1, <1>2, <1>3, <1>4, <2>1 DEF LedgerOK
<1>5. CASE ~(Len(attempts) < AttemptCapacity)
  <2> DEFINE rest == Tail(attempts)
  <2>1. attempts' = Append(rest, id)
    BY <1>5 DEF RecordAttempt
  <2>2. attempts # <<>>
    BY <1>1, <1>2, <1>5
  <2>3. /\ rest \in Seq(PublicationIds)
        /\ Len(rest) = Len(attempts) - 1
        /\ \A i \in 1..Len(rest) : rest[i] = attempts[i + 1]
    BY <1>2, <2>2
  <2> HIDE DEF rest
  <2>4. \A i, j \in 1..Len(rest) : rest[i] = rest[j] => i = j
    BY <1>2, <2>3 DEF LedgerOK
  <2>5. \A i \in 1..Len(rest) : rest[i] # id
    BY <1>2, <1>3, <2>3
  <2> QED
    BY <1>1, <1>2, <2>1, <2>3, <2>4, <2>5 DEF LedgerOK
<1> QED
  BY <1>4, <1>5

LEMMA PublishKeepsLedger ==
  ASSUME LedgerOK, NEW ctx \in Contexts, NEW pub \in Publications, Publish(ctx, pub)
  PROVE  LedgerOK'
<1>1. pub.id \notin Range(attempts) /\ pub.id \in PublicationIds
  BY DEF Publish, Accepts, PublicationIds
<1>2. RecordAttempt(pub.id) \/ UNCHANGED attempts
  BY DEF Publish, CommitPublication
<1> QED
  BY <1>1, <1>2, RecordKeepsLedger DEF LedgerOK

LEMMA StepsKeepLedger == LedgerOK /\ [PublicationNext]_publicationVars => LedgerOK'
<1> SUFFICES ASSUME LedgerOK, [PublicationNext]_publicationVars PROVE LedgerOK'
  OBVIOUS
<1>1. CASE attempts' = <<>>
  BY <1>1, PublicationConstants DEF LedgerOK
<1>2. CASE UNCHANGED attempts
  BY <1>2 DEF LedgerOK
<1> QED
  BY <1>1, <1>2, EngineStep, PublishKeepsLedger

LEMMA LedgerInvariant == PublicationSpec => []LedgerOK
<1>1. Init /\ attempts = <<>> => LedgerOK
  BY PublicationConstants DEF LedgerOK
<1> QED
  BY <1>1, StepsKeepLedger, PTL DEF PublicationSpec, PublicationInit

\* The ledger remembers at most its capacity of publications, each once, through
\* every failed write and restart.
THEOREM LedgerIsTyped == PublicationSpec => []PublicationTypeOK
<1>1. LedgerOK => PublicationTypeOK
  <2> SUFFICES ASSUME LedgerOK PROVE PublicationTypeOK
    OBVIOUS
  <2> DEFINE n == Len(attempts)
  <2>1. n \in Nat /\ attempts \in [1..n -> Range(attempts)] /\ DOMAIN attempts = 1..n
    BY DEF LedgerOK, Range
  <2>2. attempts \in Bijection(1..n, Range(attempts))
    BY <2>1 DEF LedgerOK, Bijection, Injection, Surjection, IsInjective, Range
  <2>3. ExistsBijection(1..n, Range(attempts))
    BY <2>2 DEF ExistsBijection
  <2>4. Cardinality(Range(attempts)) = n
    BY <2>1, <2>3, FS_CountingElements
  <2> QED
    BY <2>4 DEF LedgerOK, PublicationTypeOK
<1> QED
  BY <1>1, LedgerInvariant, PTL

-----------------------------------------------------------------------------
(***************************************************************************)
(* What a publication that was answered with success has done.             *)
(***************************************************************************)

LEMMA RecordedLast ==
  ASSUME LedgerOK, NEW id \in PublicationIds, RecordAttempt(id)
  PROVE  attempts' # <<>> /\ Last(attempts') = id
<1>1. attempts \in Seq(PublicationIds) /\ Len(attempts) \in Nat /\ AttemptCapacity \in Nat \ {0}
  BY PublicationConstants DEF LedgerOK
<1>2. PICK s \in Seq(PublicationIds) : attempts' = Append(s, id)
  <2>1. ~(Len(attempts) < AttemptCapacity) => Tail(attempts) \in Seq(PublicationIds)
    BY <1>1
  <2> QED
    BY <1>1, <2>1 DEF RecordAttempt
<1> QED
  BY <1>2 DEF Last

\* It is the publication the step published, with authority over its domain.
LEMMA Answered ==
  ASSUME IInv, LedgerOK, [PublicationNext]_publicationVars,
         NEW pub \in Publications, Answers(pub)
  PROVE  \E ctx \in Contexts :
           /\ HasAuthority(ctx, pub.domain, RequiredGrant(pub))
           /\ Supersedes(ctx, pub, nodes', edges')
           /\ Settled(pub, nodes', edges')
           /\ EdgeEntriesAcceptable(pub)
<1>1. attempts' # attempts /\ attempts' # <<>> /\ Last(attempts') = pub.id
  BY DEF Answers
<1>2. PICK ctx \in Contexts, q \in Publications : Publish(ctx, q)
  BY <1>1, EngineStep
<1> DEFINE c == Candidate(nodes, edges, ctx, q)
<1>3. Accepts(ctx, q, c)
  BY <1>2 DEF Publish
<1>4. /\ c.changed \in BOOLEAN
      /\ Supersedes(ctx, q, c.nodes, c.edges)
      /\ Settled(q, c.nodes, c.edges)
      /\ ~c.changed => c.nodes = nodes /\ c.edges = edges
  BY <1>3, CandidateFacts
<1>5. /\ RecordAttempt(q.id)
      /\ \/ ~c.changed /\ UNCHANGED graph
         \/ nodes' = c.nodes /\ edges' = c.edges
  BY <1>1, <1>2 DEF Publish, CommitPublication
<1> HIDE DEF c
<1>6. nodes' = c.nodes /\ edges' = c.edges
  BY <1>4, <1>5 DEF graph
<1>7. q.id \in PublicationIds
  BY DEF PublicationIds
<1>8. q = pub
  BY <1>1, <1>5, <1>7, RecordedLast, PublicationConstants
<1> QED
  BY <1>3, <1>4, <1>6, <1>8 DEF Accepts

\* A publication erases nothing without the authoritative grant of its domain,
\* held by a live registration: required_grant and check_authority_locked.
THEOREM ErasureIsGranted == PublicationSpec => ErasureNeedsAuthoritativeGrant
<1>1. ASSUME IInv, LedgerOK, [PublicationNext]_publicationVars,
             NEW pub \in Publications, Answers(pub)
      PROVE  /\ DOMAIN edges \subseteq DOMAIN edges'
             /\ DOMAIN nodes \subseteq DOMAIN nodes'
             \/ \E p \in DOMAIN publishers :
                  /\ ~publishers[p].fenced
                  /\ publishers[p].worker_boot \notin fenced_boots
                  /\ publishers[p].grants[pub.domain] = AuthoritativeWrite
  <2>1. PICK ctx \in Contexts : /\ HasAuthority(ctx, pub.domain, RequiredGrant(pub))
                                /\ Supersedes(ctx, pub, nodes', edges')
    BY <1>1, Answered
  <2>2. CASE ~IsSnapshot(pub)
    BY <2>1, <2>2 DEF Supersedes
  <2>3. CASE IsSnapshot(pub)
    <3> DEFINE p == ctx.publisher
    <3>1. /\ p \in DOMAIN publishers
          /\ ~publishers[p].fenced
          /\ publishers[p].worker_boot \notin fenced_boots
          /\ publishers[p].grants[pub.domain] >= AuthoritativeWrite
      BY <2>1, <2>3 DEF HasAuthority, RequiredGrant
    <3>2. publishers[p].grants[pub.domain] \in GrantModes
      BY <1>1, <3>1, PublicationConstants
         DEF IInv, TypeOK, AuthorityTypeOK, Registrations, Grants
    <3>3. publishers[p].grants[pub.domain] = AuthoritativeWrite
      BY <3>1, <3>2 DEF GrantModes, AuthoritativeWrite
    <3> QED
      BY <3>1, <3>3
  <2> QED
    BY <2>2, <2>3
<1>2. IInv /\ LedgerOK /\ [PublicationNext]_publicationVars =>
        [\A pub \in Publications : Answers(pub) =>
           /\ DOMAIN edges \subseteq DOMAIN edges'
           /\ DOMAIN nodes \subseteq DOMAIN nodes'
           \/ \E p \in DOMAIN publishers :
                /\ ~publishers[p].fenced
                /\ publishers[p].worker_boot \notin fenced_boots
                /\ publishers[p].grants[pub.domain] = AuthoritativeWrite]_publicationVars
  BY <1>1
<1> QED
  BY <1>2, PublishedGraphsAreSound, LedgerInvariant, PTL
     DEF PublicationSpec, ErasureNeedsAuthoritativeGrant

\* Publications that arrive out of order, more than once, in any mode and under
\* any edge ids never take a relationship back to older evidence.
THEOREM EvidenceOnlyAdvances == PublicationSpec => EvidenceNeverGoesBack
<1>1. IInv /\ LedgerOK /\ [PublicationNext]_publicationVars =>
        [\A pub \in Publications : Answers(pub) =>
           \A e \in DOMAIN edges, f \in DOMAIN edges' :
             Key(edges[e]) = Key(edges'[f]) =>
               edges'[f].evidence_generation >= edges[e].evidence_generation]_publicationVars
  BY Answered DEF Supersedes, NotOlder
<1> QED
  BY <1>1, PublishedGraphsAreSound, LedgerInvariant, PTL
     DEF PublicationSpec, EvidenceNeverGoesBack

\* An incremental publication or a partial observation takes nothing away that
\* it does not name.
THEOREM SilenceTakesNothing == PublicationSpec => SilenceIsNotAbsence
<1>1. IInv /\ LedgerOK /\ [PublicationNext]_publicationVars =>
        [\A pub \in Publications : ~IsSnapshot(pub) /\ Answers(pub) =>
           /\ DOMAIN nodes \subseteq DOMAIN nodes'
           /\ DOMAIN edges \subseteq DOMAIN edges'
           /\ \A n \in DOMAIN nodes : nodes'[n].lifecycle \in {nodes[n].lifecycle, "CURRENT"}
           /\ \A e \in DOMAIN edges :
                IsLive(edges[e]) /\ ~IsLive(edges'[e]) =>
                  IsObserved(pub, edges[e]) \/ IsDeclaredAbsent(pub, edges[e])]_publicationVars
  BY Answered DEF Supersedes
<1> QED
  BY <1>1, PublishedGraphsAreSound, LedgerInvariant, PTL
     DEF PublicationSpec, SilenceIsNotAbsence

\* What belongs to another scope stays, but for the demotion of the edges at a
\* node whose entity moved on.
THEOREM ForeignScopesAreKept == PublicationSpec => ForeignScopeKept
<1>1. IInv /\ LedgerOK /\ [PublicationNext]_publicationVars =>
        [\A pub \in Publications : Answers(pub) =>
           /\ \A n \in DOMAIN nodes :
                nodes[n].domain # pub.domain =>
                  /\ n \in DOMAIN nodes'
                  /\ nodes'[n].domain = nodes[n].domain
                  /\ nodes'[n].lifecycle \in {nodes[n].lifecycle, "CURRENT"}
           /\ \A e \in DOMAIN edges :
                edges[e].domain # pub.domain =>
                  /\ e \in DOMAIN edges'
                  /\ \/ edges'[e] = edges[e]
                     \/ /\ edges'[e].lifecycle = "REVALIDATION_REQUIRED"
                        /\ \E n \in {edges[e].from, edges[e].to} :
                             nodes'[n].entity_generation # nodes[n].entity_generation
                  ]_publicationVars
  BY Answered DEF Supersedes
<1> QED
  BY <1>1, PublishedGraphsAreSound, LedgerInvariant, PTL
     DEF PublicationSpec, ForeignScopeKept

\* A snapshot answered with success is the state of its scope.
THEOREM SnapshotsReplaceTheirScope == PublicationSpec => SnapshotReplacesScope
<1>1. IInv /\ LedgerOK /\ [PublicationNext]_publicationVars =>
        [\A pub \in Publications : IsSnapshot(pub) /\ Answers(pub) =>
           /\ \A e \in DOMAIN edges' :
                edges'[e].domain = pub.domain /\ IsLive(edges'[e]) =>
                  \E i \in DOMAIN pub.edges :
                    /\ pub.edges[i].present
                    /\ HasKey(edges'[e], pub.edges[i])
                    /\ edges'[e].lifecycle = "CURRENT"
                    /\ edges'[e].evidence_generation = pub.edges[i].evidence_generation
           /\ \A i \in DOMAIN pub.edges :
                pub.edges[i].present /\ ~IsDeclaredAbsent(pub, pub.edges[i]) =>
                  \E e \in DOMAIN edges' : HasKey(edges'[e], pub.edges[i]) /\ IsLive(edges'[e])
           /\ \A n \in DOMAIN nodes' :
                nodes'[n].domain = pub.domain /\ nodes'[n].lifecycle # "RETIRED" =>
                  \E o \in pub.nodes : o.node_id = n]_publicationVars
  BY Answered DEF Supersedes, ObservedPresent
<1> QED
  BY <1>1, PublishedGraphsAreSound, LedgerInvariant, PTL
     DEF PublicationSpec, SnapshotReplacesScope

\* A publication reaches the durable image whole or leaves the graph alone,
\* although it replaces the graph before it is written.
THEOREM PublicationsReachTheImage ==
  ASSUME RebindingsAreDurable
  PROVE  PublicationSpec => PublicationsAreDurable
<1>1. ASSUME NEW ctx, NEW pub, Publish(ctx, pub)
      PROVE  Written \/ UNCHANGED graph
  BY <1>1 DEF Publish, CommitPublication, Written, authority
<1>2. ASSUME PublicationNext
      PROVE  Written \/ UNCHANGED graph \/ (attempts' = <<>> /\ Restart)
  <2>1. CASE (Mutate \/ Administer \/ Save \/ RegistryMoves) /\ UNCHANGED attempts
    <3>1. CASE Save \/ RegistryMoves
      BY <3>1 DEF Save, RegistryMoves, Written, graph, authority
    <3> QED
      BY <2>1, <3>1, NodeStepsWrite, EdgeStepsWrite, AdministrationWrites DEF Mutate, graph
  <2> QED
    BY <1>1, <1>2, <2>1 DEF PublicationNext
<1>3. [PublicationNext]_publicationVars =>
        [graph' # graph =>
           \/ attempts' = <<>> /\ Restart
           \/ image' = ImageOf(nodes', edges', generation', fenced_boots', coordinator_epoch')
           ]_publicationVars
  BY <1>2 DEF Written
<1> QED
  BY <1>3, PTL DEF PublicationSpec, PublicationsAreDurable

-----------------------------------------------------------------------------
(***************************************************************************)
(* Redelivery.  A publication applied once more to the graph it left finds *)
(* every node and relationship settled.  The one thing its edge entries may *)
(* do in between: a snapshot adds the edges it observes present and        *)
(* declares absent, and erases them again.                                 *)
(***************************************************************************)

IsRepeat(pub, E, G) ==
  /\ \A e \in DOMAIN E : e \in DOMAIN G /\ G[e] = E[e]
  /\ \A e \in DOMAIN G \ DOMAIN E :
       /\ IsSnapshot(pub) /\ ErasesItsOwnEdge(pub)
       /\ IsLive(G[e])
       /\ \E k \in pub.declared_absent : k.domain = pub.domain /\ SameKey(G[e], k)

LEMMA SettledNodesStay ==
  ASSUME NEW pub, NEW N, IsNodeMap(N), NodesSettled(pub, N)
  PROVE  ReconciledNodes(N, pub) = N
<1> DEFINE M == ReconciledNodes(N, pub)
<1>1. Observed(pub) \subseteq DOMAIN N
  BY DEF Observed, NodesSettled
<1>2. M = [n \in DOMAIN N |-> IF n \in Observed(pub) THEN ObservedNode(N, EntryOf(pub, n))
                              ELSE N[n]]
  BY <1>1 DEF ReconciledNodes, Observed, EntryOf
<1>5. ASSUME NEW r \in NodeRecords, NEW g, r.entity_generation = g, NEW t, r.tier = t,
             r.lifecycle = "CURRENT"
      PROVE  [r EXCEPT !.entity_generation = g, !.tier = t, !.lifecycle = "CURRENT"] = r
  BY <1>5 DEF NodeRecords
<1>3. ASSUME NEW n \in Observed(pub)
      PROVE  ObservedNode(N, EntryOf(pub, n)) = N[n]
  <2> DEFINE o == EntryOf(pub, n)
  <2>1. o \in PresentNodes(pub) /\ o.node_id = n
    BY EntryOfNode
  <2>2. /\ N[n].entity_generation = registry[o.entity_id].generation
        /\ N[n].tier = o.tier
        /\ N[n].lifecycle = "CURRENT"
    BY <2>1 DEF NodesSettled
  <2>3. N[n] \in NodeRecords /\ n \in DOMAIN N
    BY <1>1 DEF IsNodeMap
  <2> HIDE DEF o
  <2>4. ObservedNode(N, o) =
          [N[n] EXCEPT !.entity_generation = registry[o.entity_id].generation,
                       !.tier = o.tier, !.lifecycle = "CURRENT"]
    BY <2>1, <2>3 DEF ObservedNode
  <2>5. ObservedNode(N, o) = N[n]
    BY <1>5, <2>2, <2>3, <2>4
  <2> QED
    BY <2>5 DEF o
<1> HIDE DEF M
<1>4. M = [n \in DOMAIN N |-> N[n]]
  BY <1>2, <1>3
<1> QED
  BY <1>4 DEF IsNodeMap, M

LEMMA EntryRepeats ==
  ASSUME NEW ctx \in Contexts, NEW pub, NEW M, NEW c \in Candidates(M),
         SoundGraph(M, c.edges), NEW i \in DOMAIN pub.edges, NEW o \in ObservedEdges,
         o = pub.edges[i], o.domain = pub.domain,
         NEW d, d = ObservedEdge(ctx, pub, c, o), d.valid,
         NEW E, EdgesSettled(pub, E), IsRepeat(pub, E, c.edges)
  PROVE  /\ IsRepeat(pub, E, d.edges)
         /\ d.changed => c.changed \/ ErasesItsOwnEdge(pub)
<1> DEFINE G == c.edges
<1>1. /\ \A e \in DOMAIN E : e \in DOMAIN G /\ G[e] = E[e]
      /\ \A e \in DOMAIN G \ DOMAIN E :
           /\ IsSnapshot(pub) /\ ErasesItsOwnEdge(pub)
           /\ IsLive(G[e])
           /\ \E k \in pub.declared_absent : k.domain = pub.domain /\ SameKey(G[e], k)
  BY DEF IsRepeat
<1>2. \A e \in DOMAIN E : SameKey(E[e], o) /\ IsLive(E[e]) => o.present /\ IsSkipped(E[e], o)
  BY DEF EdgesSettled
<1>3. CASE Skips(pub, c, o, d)
  BY <1>3 DEF Skips
<1>4. CASE Drops(pub, c, o, d)
  <2> DEFINE D == LiveWithKey(G, o)
             H == Kept(pub, G, D)
  <2>1. d.edges = H /\ ~o.present /\ d.changed = (c.changed \/ D # {})
    BY <1>4 DEF Drops
  <2>2. D \subseteq DOMAIN G /\ D \cap DOMAIN E = {}
    BY <1>1, <1>2, <2>1 DEF LiveWithKey
  <2>3. IsEdgeMap(G)
    BY DEF SoundGraph, SoundEdges
  <2> HIDE DEF D, G
  <2>6. D # {} => ErasesItsOwnEdge(pub)
    BY <1>1, <2>2
  <2>7. d.changed => c.changed \/ ErasesItsOwnEdge(pub)
    BY <2>1, <2>6
  <2>4. CASE IsSnapshot(pub)
    <3>1. DOMAIN H = DOMAIN G \ D /\ \A e \in DOMAIN H : H[e] = G[e]
      BY <2>4 DEF Kept, Without
    <3> HIDE DEF H
    <3> QED
      BY <1>1, <2>1, <2>2, <2>7, <3>1 DEF IsRepeat
  <2>5. CASE ~IsSnapshot(pub)
    <3>1. D = {}
      BY <1>1, <2>2, <2>5
    <3>2. H = G
      BY <2>3, <2>5, <3>1 DEF Kept, IsEdgeMap
    <3> QED
      BY <1>1, <2>1, <2>7, <3>2 DEF IsRepeat
  <2> QED
    BY <2>4, <2>5
<1>5. ASSUME NEW new, d.edges = Put(G, o.id, new), HasKey(new, o), IsLive(new),
             o.id \notin DOMAIN E,
             IsSnapshot(pub), ErasesItsOwnEdge(pub), \E k \in pub.declared_absent : SameKey(o, k)
      PROVE  IsRepeat(pub, E, d.edges)
  <2> DEFINE H == Put(G, o.id, new)
  <2>1. DOMAIN H = DOMAIN G \cup {o.id} /\ H[o.id] = new /\ \A e \in DOMAIN G \ {o.id} : H[e] = G[e]
    BY DEF Put
  <2> HIDE DEF H, G
  <2>2. PICK k \in pub.declared_absent : SameKey(o, k)
    BY <1>5
  <2>3. k.domain = pub.domain /\ SameKey(new, k)
    BY <1>5, <2>2 DEF SameKey, HasKey, Key
  <2>4. d.edges = H
    BY <1>5 DEF H
  <2> QED
    BY <1>1, <1>5, <2>1, <2>3, <2>4 DEF IsRepeat
<1>6. CASE Confirms(ctx, pub, c, o, d)
  <2> DEFINE new == ConfirmedEdge(ctx, G[o.id], o)
  <2>8. EdgeAcceptable(pub, c, o) /\ o.id \in DOMAIN G
    BY <1>6 DEF Confirms
  <2>1. /\ o.id \in DOMAIN G
        /\ G[o.id] \in EdgeRecords
        /\ IsLive(G[o.id])
        /\ SameKey(G[o.id], o)
    BY <2>8 DEF EdgeAcceptable, SoundGraph, SoundEdges, IsEdgeMap
  <2>2. d.edges = Put(G, o.id, new) /\ ~IsSkipped(G[o.id], o)
    BY <1>6 DEF Confirms
  <2> HIDE DEF G
  <2>3. o.id \notin DOMAIN E
    BY <1>1, <1>2, <2>1, <2>2
  <2>4. HasKey(new, o) /\ IsLive(new)
    BY <2>1, ConfirmedEdgeFacts, SameKeyIsKey DEF HasKey, IsLive, Terminal
  <2>5. PICK k \in pub.declared_absent : SameKey(G[o.id], k)
    BY <1>1, <2>1, <2>3
  <2>6. SameKey(o, k)
    BY <2>1, <2>5, SameKeyMeets
  <2>7. IsSnapshot(pub) /\ ErasesItsOwnEdge(pub)
    BY <1>1, <2>1, <2>3
  <2> HIDE DEF new
  <2> QED
    BY <1>5, <2>2, <2>3, <2>4, <2>6, <2>7
<1>7. CASE Adds(ctx, pub, c, o, d)
  <2> DEFINE new == AddedEdge(ctx, M, o)
  <2>1. o.id \notin DOMAIN G /\ d.edges = Put(G, o.id, new) /\ o.present
    BY <1>7 DEF Adds, Candidates
  <2>2. EdgeAcceptable(pub, c, o)
    BY <1>7 DEF Adds
  <2>3. EndsPresent(M, o) /\ \A e \in DOMAIN G : ~SameKey(G[e], o)
    BY <2>1, <2>2, AcceptedEntry
  <2>4. {o.from, o.to} \subseteq DOMAIN M /\ IsNodeMap(M)
    BY <2>3 DEF EndsPresent, SoundGraph, SoundNodes
  <2>5. HasKey(new, o) /\ IsLive(new)
    BY <2>4, AddedEdgeFacts DEF IsLive, Terminal
  <2> HIDE DEF G, new
  <2>6. \A e \in DOMAIN E : ~SameKey(E[e], o)
    BY <1>1, <2>3
  <2>7. IsSnapshot(pub) /\ \E k \in pub.declared_absent : SameKey(o, k)
    BY <2>1, <2>6 DEF EdgesSettled
  <2>8. o.id \notin DOMAIN E
    BY <1>1, <2>1
  <2>9. ErasesItsOwnEdge(pub)
    BY <2>1, <2>7, SameKeyIsKey DEF ErasesItsOwnEdge, IsDeclaredAbsent
  <2> QED
    BY <1>5, <2>1, <2>5, <2>7, <2>8, <2>9
<1> QED
  BY <1>3, <1>4, <1>6, <1>7, EntryTurns

LEMMA EntriesRepeat ==
  ASSUME NEW ctx \in Contexts, NEW pub \in Publications, EdgeEntriesAcceptable(pub),
         NEW M, NEW b \in Candidates(M), SoundGraph(M, b.edges), EdgesSettled(pub, b.edges),
         NEW c, c = EdgesReconciled(ctx, pub, b)
  PROVE  /\ c \in Candidates(M)
         /\ c.valid => /\ IsRepeat(pub, b.edges, c.edges)
                       /\ IsEdgeMap(c.edges)
                       /\ c.changed => b.changed \/ ErasesItsOwnEdge(pub)
<1> DEFINE n == Len(pub.edges)
           E == b.edges
           Stage(a) == a.valid => /\ SoundGraph(M, a.edges)
                                  /\ IsRepeat(pub, E, a.edges)
                                  /\ a.changed => b.changed \/ ErasesItsOwnEdge(pub)
           S == [i \in 0..n |-> {a \in Candidates(M) : Stage(a)}]
           p == [ctx |-> ctx, pub |-> pub]
<1>1. n \in Nat /\ DOMAIN pub.edges = 1..n
  BY EntriesNameKeys
<1>2. b \in S[0]
  BY <1>1 DEF IsRepeat
<1>3. ASSUME NEW i \in 1..n, NEW a \in S[i - 1]
      PROVE  ReconcileEntry(p, i, a) \in S[i]
  <2> DEFINE o == pub.edges[i]
             d == ReconcileEntry(p, i, a)
  <2>1. d = ObservedEdge(ctx, pub, a, o)
    BY DEF ReconcileEntry
  <2>2. i - 1 \in 0..n /\ i \in 0..n /\ i \in DOMAIN pub.edges
    BY <1>1
  <2>3. a \in Candidates(M) /\ Stage(a)
    BY <2>2
  <2>4. o \in ObservedEdges /\ o.domain = pub.domain
    BY <2>2, EntriesNameKeys
  <2>9. o = pub.edges[i]
    OBVIOUS
  <2> HIDE DEF d, E, S, p, o
  <2>5. a.edges \in EdgeMaps
    BY <2>3 DEF Candidates
  <2>6. /\ d = [valid |-> d.valid, changed |-> d.changed, nodes |-> M, edges |-> d.edges]
        /\ d.valid \in BOOLEAN
        /\ d.changed \in BOOLEAN
        /\ ~d.valid => d.edges = a.edges
        /\ d.valid => a.valid
    BY <2>1, <2>3, EntryTurns
  <2>7. CASE ~d.valid
    <3>1. d \in Candidates(M)
      BY <2>5, <2>6, <2>7 DEF Candidates
    <3> QED
      BY <2>2, <2>7, <3>1 DEF S, d
  <2>8. CASE d.valid
    <3>1. /\ SoundGraph(M, a.edges)
          /\ IsRepeat(pub, E, a.edges)
          /\ a.changed => b.changed \/ ErasesItsOwnEdge(pub)
      BY <2>3, <2>6, <2>8
    <3>2. SoundGraph(M, d.edges)
      BY <2>1, <2>3, <2>4, <2>8, <3>1, EntrySound
    <3>3. EdgesSettled(pub, E)
      BY DEF E
    <3>4. IsRepeat(pub, E, d.edges) /\ (d.changed => a.changed \/ ErasesItsOwnEdge(pub))
      BY <2>1, <2>2, <2>3, <2>4, <2>8, <2>9, <3>1, <3>3, EntryRepeats
    <3>5. d \in Candidates(M)
      <4>1. d.edges \in EdgeMaps
        BY <3>2, EdgeMapsAre DEF SoundGraph, SoundEdges
      <4> QED
        BY <2>6, <4>1 DEF Candidates
    <3>6. Stage(d)
      BY <3>1, <3>2, <3>4
    <3> QED
      BY <2>2, <3>5, <3>6 DEF S, d
  <2> QED
    BY <2>6, <2>7, <2>8 DEF d
<1>4. c = Entries!After(p, b, n)
  BY DEF EdgesReconciled
<1> HIDE DEF S, p
<1>5. Entries!After(p, b, n) \in S[n]
  BY <1>1, <1>2, <1>3, Entries!AfterInduction
<1> HIDE DEF E
<1>6. c \in Candidates(M) /\ Stage(c)
  BY <1>1, <1>4, <1>5 DEF S
<1> QED
  BY <1>6 DEF E, SoundGraph, SoundEdges

\* What the loop may have added is erased by the declared absences.
LEMMA AbsencesRepeat ==
  ASSUME NEW pub, NEW E, IsEdgeMap(E), EdgesSettled(pub, E),
         NEW G, IsEdgeMap(G), IsRepeat(pub, E, G),
         NEW D, D = UNION {LiveWithKey(G, key) :
                             key \in {k \in pub.declared_absent : k.domain = pub.domain}}
  PROVE  Kept(pub, G, D) = E /\ (D # {} => ErasesItsOwnEdge(pub))
<1>1. /\ \A e \in DOMAIN E : e \in DOMAIN G /\ G[e] = E[e]
      /\ \A e \in DOMAIN G \ DOMAIN E :
           /\ IsSnapshot(pub) /\ ErasesItsOwnEdge(pub)
           /\ IsLive(G[e])
           /\ \E k \in pub.declared_absent : k.domain = pub.domain /\ SameKey(G[e], k)
  BY DEF IsRepeat
<1>2. D \subseteq DOMAIN G /\ D \cap DOMAIN E = {}
  BY <1>1 DEF LiveWithKey, EdgesSettled
<1>3. \A e \in DOMAIN G \ DOMAIN E : e \in D
  BY <1>1 DEF LiveWithKey
<1>4. DOMAIN G \ D = DOMAIN E
  BY <1>1, <1>2, <1>3
<1>7. D # {} => ErasesItsOwnEdge(pub)
  BY <1>1, <1>2
<1>5. CASE IsSnapshot(pub)
  BY <1>1, <1>4, <1>5, <1>7 DEF Kept, Without, IsEdgeMap
<1>6. CASE ~IsSnapshot(pub)
  <2>1. D = {} /\ DOMAIN G = DOMAIN E
    BY <1>1, <1>2, <1>4, <1>6
  <2> QED
    BY <1>1, <1>6, <1>7, <2>1 DEF Kept, IsEdgeMap
<1> QED
  BY <1>5, <1>6

LEMMA SettledStays ==
  ASSUME NEW ctx \in Contexts, NEW pub \in Publications, EdgeEntriesAcceptable(pub),
         NEW N, NEW E, SoundGraph(N, E), Settled(pub, N, E),
         NEW c, c = Candidate(N, E, ctx, pub), c.valid
  PROVE  /\ c.nodes = N
         /\ c.edges = E
         /\ c.changed => \/ ObservesOtherClass(N, pub)
                         \/ RetiresAgain(N, pub)
                         \/ ErasesItsOwnEdge(pub)
<1> DEFINE b == NodesReconciled(N, E, pub)
           g == EdgesReconciled(ctx, pub, b)
           D == UNION {LiveWithKey(g.edges, key) :
                         key \in {k \in pub.declared_absent : k.domain = pub.domain}}
           a == AbsencesApplied(pub, g)
<1>1. IsNodeMap(N) /\ IsEdgeMap(E) /\ NodesSettled(pub, N) /\ EdgesSettled(pub, E)
  BY DEF SoundGraph, SoundNodes, SoundEdges, Settled
<1>2. ReconciledNodes(N, pub) = N /\ RebindAll(N, N, E) = E
  BY <1>1, SettledNodesStay, RebindFacts
<1> DEFINE other == N # N \/ ObservesOtherClass(N, pub)
<1>3. b = [valid |-> TRUE, changed |-> other, nodes |-> N, edges |-> E]
  BY <1>2 DEF NodesReconciled
<1>14. other \in BOOLEAN /\ (other => ObservesOtherClass(N, pub))
  OBVIOUS
<1> HIDE DEF other
<1>4. b \in Candidates(N) /\ b.edges = E /\ (b.changed => ObservesOtherClass(N, pub))
  BY <1>1, <1>3, <1>14, EdgeMapsAre DEF Candidates
<1>5. a = Drop(pub, g, D)
  BY DEF AbsencesApplied
<1>6. c = IF IsSnapshot(pub) THEN Removals(pub, a) ELSE a
  BY DEF Candidate
<1>7. /\ g = EdgesReconciled(ctx, pub, b)
      /\ D = UNION {LiveWithKey(g.edges, key) :
                      key \in {k \in pub.declared_absent : k.domain = pub.domain}}
  OBVIOUS
<1> HIDE DEF a, b, g, D
<1>8. /\ g \in Candidates(N)
      /\ g.valid => /\ IsRepeat(pub, E, g.edges)
                    /\ IsEdgeMap(g.edges)
                    /\ g.changed => ObservesOtherClass(N, pub) \/ ErasesItsOwnEdge(pub)
  BY <1>1, <1>4, <1>7, EntriesRepeat
<1>9. /\ a.valid = g.valid
      /\ a.changed <=> g.changed \/ D # {}
      /\ a.changed \in BOOLEAN
      /\ a.edges = Kept(pub, g.edges, D)
      /\ a = [valid |-> a.valid, changed |-> a.changed, nodes |-> N, edges |-> a.edges]
  <2>1. g \in Candidates(N)
    BY <1>8
  <2>2. \A d : d = Drop(pub, g, D) =>
         /\ d.valid = g.valid
         /\ d.changed <=> g.changed \/ D # {}
         /\ d.changed \in BOOLEAN
         /\ d.edges = Kept(pub, g.edges, D)
         /\ d = [valid |-> d.valid, changed |-> d.changed, nodes |-> N, edges |-> d.edges]
    BY <2>1, DropFields, SMT
  <2> QED
    BY <1>5, <2>2
<1>10. a.nodes = N
  BY <1>9
<1>11. g.valid => a.edges = E /\ (D # {} => ErasesItsOwnEdge(pub))
  BY <1>1, <1>7, <1>8, <1>9, AbsencesRepeat
<1>15. g.valid /\ a.changed => ObservesOtherClass(N, pub) \/ ErasesItsOwnEdge(pub)
  BY <1>8, <1>9, <1>11
<1>12. CASE ~IsSnapshot(pub)
  BY <1>6, <1>9, <1>10, <1>11, <1>12, <1>15
<1>13. CASE IsSnapshot(pub)
  <2>1. c = Removals(pub, a)
    BY <1>6, <1>13
  <2>2. a.valid /\ g.valid
    BY <1>9, <2>1 DEF Removals
  <2>3. a.edges = E
    BY <1>11, <2>2
  <2>4. UnmentionedEdges(pub, E) = {}
    BY <1>13 DEF Settled, UnmentionedEdges
  <2>5. Without(E, UnmentionedEdges(pub, E)) = E
    BY <1>1, <2>4 DEF Without, IsEdgeMap
  <2> DEFINE gone == UnmentionedNodes(pub, N)
             kept == {n \in gone : Incident(E, n) # {}}
  <2>6. /\ c.edges = E
        /\ c.changed => a.changed \/ gone # {}
        /\ c.nodes = [n \in DOMAIN N \ (gone \ kept) |->
                        IF n \in kept THEN [N[n] EXCEPT !.lifecycle = "RETIRED"] ELSE N[n]]
    BY <1>9, <1>10, <2>1, <2>3, <2>5 DEF Removals
  <2>7. kept = gone /\ gone \subseteq DOMAIN N /\ \A n \in kept : N[n].lifecycle = "RETIRED"
    BY <1>13 DEF Settled, UnmentionedNodes
  <2>11. gone # {} => RetiresAgain(N, pub)
    BY <1>13 DEF RetiresAgain
  <2> HIDE DEF gone, kept
  <2>8. ASSUME NEW r \in NodeRecords, r.lifecycle = "RETIRED"
        PROVE  [r EXCEPT !.lifecycle = "RETIRED"] = r
    BY <2>8 DEF NodeRecords
  <2>9. \A n \in kept : [N[n] EXCEPT !.lifecycle = "RETIRED"] = N[n]
    BY <1>1, <2>7, <2>8 DEF IsNodeMap
  <2>10. c.nodes = [n \in DOMAIN N |-> N[n]]
    BY <2>6, <2>7, <2>9
  <2> QED
    BY <1>1, <1>15, <2>2, <2>6, <2>10, <2>11 DEF IsNodeMap
<1> QED
  BY <1>12, <1>13

\* A publication delivered again to the graph it left is refused, or reproduces
\* its nodes and edges; it takes a new topology generation for a class the node
\* was not added with, a node retired again, an edge added and erased again, and
\* for nothing else.
THEOREM RedeliveriesChangeNothing == PublicationSpec => RedeliveryIsHarmless
<1>1. ASSUME IInv, LedgerOK, [PublicationNext]_publicationVars,
             NEW pub \in Publications, Answers(pub), NEW ctx \in Contexts,
             Candidate(nodes', edges', ctx, pub).valid
      PROVE  LET again == Candidate(nodes', edges', ctx, pub)
             IN  /\ again.nodes = nodes'
                 /\ again.edges = edges'
                 /\ again.changed =>
                      \/ ObservesOtherClass(nodes', pub)
                      \/ RetiresAgain(nodes', pub)
                      \/ ErasesItsOwnEdge(pub)
  <2>1. SoundGraph(nodes', edges')
    BY <1>1, PublicationStepSound DEF IInv
  <2>2. Settled(pub, nodes', edges') /\ EdgeEntriesAcceptable(pub)
    BY <1>1, Answered
  <2> QED
    BY <1>1, <2>1, <2>2, SettledStays
<1>2. IInv /\ LedgerOK /\ [PublicationNext]_publicationVars =>
        [\A pub \in Publications : Answers(pub) =>
           \A ctx \in Contexts :
             LET again == Candidate(nodes', edges', ctx, pub)
             IN  again.valid =>
                   /\ again.nodes = nodes'
                   /\ again.edges = edges'
                   /\ again.changed =>
                        \/ ObservesOtherClass(nodes', pub)
                        \/ RetiresAgain(nodes', pub)
                        \/ ErasesItsOwnEdge(pub)]_publicationVars
  BY <1>1
<1> QED
  BY <1>2, PublishedGraphsAreSound, LedgerInvariant, PTL
     DEF PublicationSpec, RedeliveryIsHarmless

=============================================================================
