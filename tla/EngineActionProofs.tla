------------------------- MODULE EngineActionProofs -------------------------
(***************************************************************************)
(* Proofs about the steps of TopologyEngine: who may assert a              *)
(* relationship, what reaches the durable image, what recovery brings      *)
(* back, and which bindings current relationships have.                    *)
(***************************************************************************)
EXTENDS TopologyEngineProofs

(***************************************************************************)
(* A write of replace_endpoint_generation that fails leaves the new        *)
(* binding in memory (ReplaceBinding).  The theorems that need it say so   *)
(* with this hypothesis: writes succeed, or that operation is not called.  *)
(* The runs that check their properties satisfy it in both ways.           *)
(***************************************************************************)
RebindingsAreDurable == ~WriteMayFail \/ (Replacements = {} /\ Successors = {})

-----------------------------------------------------------------------------
(***************************************************************************)
(* What reaches the image.                                                 *)
(***************************************************************************)

Written == image' = ImageOf(nodes', edges', generation', fenced_boots', coordinator_epoch')

\* finalize_mutation writes what it leaves in memory, or changes nothing but
\* what the undo log restores.
LEMMA FinalizeWrites ==
  ASSUME NEW N, NEW E, NEW undone, FinalizeMutation(N, E, undone), UNCHANGED authority
  PROVE  /\ Written \/ UNCHANGED image
         /\ undone = nodes => Written \/ UNCHANGED graph
BY DEF FinalizeMutation, Written, authority, graph

\* The same of the nodes: only a rebinding is not undone.
LEMMA NodeStepsWrite ==
  ASSUME NEW ctx, MutateNodes(ctx)
  PROVE  /\ Written \/ UNCHANGED image
         /\ RebindingsAreDurable => Written \/ UNCHANGED graph
<1> DEFINE Goal == /\ Written \/ UNCHANGED image
                   /\ RebindingsAreDurable => Written \/ UNCHANGED graph
<1>1. ASSUME NEW req, AddNode(ctx, req)
      PROVE  Goal
  <2>1. PICK N, E : FinalizeMutation(N, E, nodes) /\ UNCHANGED authority
    BY <1>1 DEF AddNode
  <2> QED
    BY <2>1, FinalizeWrites
<1>2. ASSUME NEW n, NEW cascade, RemoveNode(ctx, n, cascade)
      PROVE  Goal
  BY <1>2, FinalizeWrites DEF RemoveNode
<1>3. ASSUME NEW n, NEW updated, ReplaceBinding(n, updated), UNCHANGED authority,
             Replacements # {} \/ Successors # {}
      PROVE  Goal
  <2>1. PICK N, E : FinalizeMutation(N, E, N)
    BY <1>3 DEF ReplaceBinding
  <2>2. ~WriteMayFail => Written
    BY <1>3, <2>1 DEF FinalizeMutation, Written, authority
  <2> QED
    BY <1>3, <2>1, <2>2, FinalizeWrites DEF RebindingsAreDurable
<1>4. ASSUME NEW r \in Replacements, ReplaceEntityGeneration(ctx, r[1], r[2])
      PROVE  Goal
  BY <1>3, <1>4 DEF ReplaceEntityGeneration
<1>5. ASSUME NEW s \in Successors, RebindIdentity(ctx, s[1], s[2])
      PROVE  Goal
  BY <1>3, <1>5 DEF RebindIdentity
<1> QED
  BY <1>1, <1>2, <1>4, <1>5 DEF MutateNodes

LEMMA EdgeStepsWrite ==
  ASSUME NEW ctx, MutateEdges(ctx)
  PROVE  Written \/ UNCHANGED <<graph, image>>
<1>1. PICK E : FinalizeMutation(nodes, E, nodes) /\ UNCHANGED authority
  BY DEF MutateEdges, AddRelationship, ChangeEvidence, SupersedeRelationship, RetireRelationship
<1> QED
  BY <1>1 DEF FinalizeMutation, Written, authority, graph

LEMMA AdministrationWrites ==
  ASSUME Administer
  PROVE  Written \/ UNCHANGED <<graph, image>>
<1>1. ASSUME NEW D, DemoteAndPersist(D, fenced_boots', coordinator_epoch')
      PROVE  Written \/ UNCHANGED <<graph, image>>
  BY <1>1 DEF DemoteAndPersist, Written, graph
<1> QED
  BY <1>1 DEF Administer, RegisterPublisher, FencePublisher, FenceBoot, AdvanceCoordinatorEpoch

LEMMA StepsWrite ==
  ASSUME [Next]_vars
  PROVE  /\ Written \/ UNCHANGED image
         /\ RebindingsAreDurable => Written \/ UNCHANGED graph \/ Restart
<1>1. CASE Save
  BY <1>1 DEF Save, Written, graph, authority
<1>2. CASE Restart
  BY <1>2 DEF Restart, RestartRecovered, RestartFresh
<1>3. CASE RegistryMoves \/ UNCHANGED vars
  BY <1>3 DEF RegistryMoves, vars, graph
<1> QED
  BY <1>1, <1>2, <1>3, NodeStepsWrite, EdgeStepsWrite, AdministrationWrites DEF Next, graph

\* Memory and disk stay in step: whatever write fails, a mutation leaves the
\* image of what it made, or the graph it found.
THEOREM MutationsReachTheImage ==
  ASSUME RebindingsAreDurable
  PROVE  Spec => MutationsAreDurable
<1>1. [Next]_vars =>
        [graph' # graph =>
           \/ Restart
           \/ image' = ImageOf(nodes', edges', generation', fenced_boots', coordinator_epoch')]_vars
  BY StepsWrite DEF Written
<1> QED
  BY <1>1, PTL DEF Spec, MutationsAreDurable

-----------------------------------------------------------------------------
(***************************************************************************)
(* Who asserts a relationship.                                             *)
(***************************************************************************)

\* A publisher answers for whatever is asserted in F that was not in E.
OnlyAuthorised(E, F) ==
  \A e \in DOMAIN F : IsAsserted(e, E, F) => IsAnsweredFor(e, E, F)

\* F has edges of E, with the provenances they had; what changed is not current.
AssertsNothing(E, F) ==
  \A e \in DOMAIN F :
    /\ e \in DOMAIN E
    /\ F[e].provenance = E[e].provenance
    /\ F[e] = E[e] \/ F[e].lifecycle # "CURRENT"

LEMMA DemoteAssertsNothing ==
  ASSUME NEW E, IsEdgeMap(E), NEW D
  PROVE  AssertsNothing(E, Demote(E, D))
BY DEF AssertsNothing, Demote, IsEdgeMap, EdgeRecords

LEMMA RebindAssertsNothing ==
  ASSUME NEW E, IsEdgeMap(E), NEW n, NEW g
  PROVE  AssertsNothing(E, RebindIncident(E, n, g))
BY DEF AssertsNothing, RebindIncident, IsEdgeMap, EdgeRecords

LEMMA WithoutAssertsNothing ==
  ASSUME NEW E, NEW K
  PROVE  AssertsNothing(E, Without(E, K))
BY DEF AssertsNothing, Without

\* A caller with the write grant, as check_authority_locked finds it.
LEMMA AuthorityIsEnough ==
  ASSUME NEW ctx \in Contexts, NEW domain, HasAuthority(ctx, domain, IncrementalWrite)
  PROVE  /\ ctx.publisher \in DOMAIN publishers
         /\ MayWrite(ctx.publisher, domain)
         /\ IdentityOf(ctx.publisher) = ctx
BY DEF HasAuthority, MayWrite, IdentityOf, Contexts

\* An edge put into the map by a caller who has that grant.
LEMMA PutIsAuthorised ==
  ASSUME NEW E, NEW e, NEW edge, NEW ctx \in Contexts,
         HasAuthority(ctx, edge.domain, IncrementalWrite),
         e \notin DOMAIN E => HasAuthority(ctx, edge.secondary_domain, IncrementalWrite),
         edge.provenance = ctx \/ (e \in DOMAIN E /\ edge.provenance = E[e].provenance)
  PROVE  OnlyAuthorised(E, Put(E, e, edge))
<1> DEFINE F == Put(E, e, edge)
<1>1. F[e] = edge /\ \A f \in DOMAIN F \ {e} : f \in DOMAIN E /\ F[f] = E[f]
  BY DEF Put
<1> HIDE DEF F
<1>2. IsAnsweredFor(e, E, F)
  <2>1. /\ ctx.publisher \in DOMAIN publishers
        /\ MayWrite(ctx.publisher, edge.domain)
        /\ IdentityOf(ctx.publisher) = ctx
        /\ e \notin DOMAIN E => MayWrite(ctx.publisher, edge.secondary_domain)
    BY AuthorityIsEnough
  <2> QED
    BY <1>1, <2>1 DEF IsAnsweredFor
<1>3. OnlyAuthorised(E, F)
  BY <1>1, <1>2 DEF OnlyAuthorised, IsAsserted
<1> QED
  BY <1>3 DEF F

\* An edge of the map that is ended.
LEMMA EndingAssertsNothing ==
  ASSUME NEW E, NEW e \in DOMAIN E, NEW edge,
         edge.provenance = E[e].provenance, edge.lifecycle # "CURRENT"
  PROVE  AssertsNothing(E, Put(E, e, edge))
BY DEF AssertsNothing, Put

LEMMA FinalizeOnlyAuthorised ==
  ASSUME NEW N, NEW E, NEW undone, FinalizeMutation(N, E, undone), OnlyAuthorised(edges, E)
  PROVE  OnlyAuthorised(edges, edges')
BY DEF FinalizeMutation, OnlyAuthorised, IsAsserted, IsAnsweredFor

LEMMA NothingAssertedIsAuthorised ==
  ASSUME NEW E, NEW F, AssertsNothing(E, F)
  PROVE  OnlyAuthorised(E, F)
BY DEF AssertsNothing, OnlyAuthorised, IsAsserted

LEMMA NodeStepsOnlyAuthorised ==
  ASSUME IInv, NEW ctx, MutateNodes(ctx)
  PROVE  OnlyAuthorised(edges, edges')
<1>1. IsEdgeMap(edges)
  BY DEF IInv, SoundGraph, SoundEdges
<1>2. ASSUME NEW N, NEW E, NEW undone, FinalizeMutation(N, E, undone),
             AssertsNothing(edges, E)
      PROVE  OnlyAuthorised(edges, edges')
  BY <1>2, FinalizeOnlyAuthorised, NothingAssertedIsAuthorised
<1>3. AssertsNothing(edges, edges)
  BY DEF AssertsNothing
<1>4. ASSUME NEW req, AddNode(ctx, req)
      PROVE  OnlyAuthorised(edges, edges')
  <2>1. PICK N, E : /\ FinalizeMutation(N, E, nodes)
                    /\ E = edges \/ \E g : E = RebindIncident(edges, req.node_id, g)
    BY <1>4 DEF AddNode
  <2> QED
    BY <1>1, <1>2, <1>3, <2>1, RebindAssertsNothing
<1>5. ASSUME NEW n, NEW cascade, RemoveNode(ctx, n, cascade)
      PROVE  OnlyAuthorised(edges, edges')
  BY <1>2, <1>5, WithoutAssertsNothing DEF RemoveNode
<1>6. ASSUME NEW n, NEW updated, ReplaceBinding(n, updated)
      PROVE  OnlyAuthorised(edges, edges')
  BY <1>1, <1>2, <1>6, RebindAssertsNothing DEF ReplaceBinding
<1> QED
  BY <1>4, <1>5, <1>6 DEF MutateNodes, ReplaceEntityGeneration, RebindIdentity

LEMMA EdgeStepsOnlyAuthorised ==
  ASSUME IInv, NEW ctx \in Contexts, MutateEdges(ctx)
  PROVE  OnlyAuthorised(edges, edges')
<1>1. \A e \in DOMAIN edges : edges[e] \in EdgeRecords
  BY DEF IInv, SoundGraph, SoundEdges, IsEdgeMap
<1>2. ASSUME NEW req \in LinkRequests, AddRelationship(ctx, req)
      PROVE  OnlyAuthorised(edges, edges')
  <2> DEFINE new == NewEdge(ctx, req)
             again == ReassertedEdge(edges[req.id], req)
  <2>1. PICK edge : /\ FinalizeMutation(nodes, Put(edges, req.id, edge), nodes)
                    /\ edge = new \/ (req.id \in DOMAIN edges /\ edge = again)
    BY <1>2 DEF AddRelationship
  <2>2. /\ new.provenance = ctx
        /\ new.domain = req.domain
        /\ new.secondary_domain \in {nodes[req.from].domain, nodes[req.to].domain}
    BY DEF NewEdge, SecondaryDomain
  <2>3. /\ HasAuthority(ctx, req.domain, IncrementalWrite)
        /\ HasAuthority(ctx, new.secondary_domain, IncrementalWrite)
    BY <1>2, <2>2 DEF AddRelationship, ResolvesDomain
  <2>4. req.id \in DOMAIN edges => /\ again.provenance = edges[req.id].provenance
                                   /\ again.domain = req.domain
    BY <1>1, <1>2 DEF ReassertedEdge, EdgeRecords, AddRelationship, SameKey
  <2> HIDE DEF new, again
  <2>5. /\ HasAuthority(ctx, edge.domain, IncrementalWrite)
        /\ req.id \notin DOMAIN edges =>
             HasAuthority(ctx, edge.secondary_domain, IncrementalWrite)
        /\ \/ edge.provenance = ctx
           \/ req.id \in DOMAIN edges /\ edge.provenance = edges[req.id].provenance
    BY <2>1, <2>2, <2>3, <2>4
  <2> QED
    BY <2>1, <2>5, PutIsAuthorised, FinalizeOnlyAuthorised
<1>3. ASSUME NEW e, NEW evidence, NEW lifecycle, ChangeEvidence(ctx, e, evidence, lifecycle)
      PROVE  OnlyAuthorised(edges, edges')
  <2> DEFINE changed == [edges[e] EXCEPT
                           !.evidence_generation = evidence,
                           !.lifecycle = lifecycle,
                           !.provenance = IF lifecycle = "CURRENT" THEN ctx ELSE @]
  <2>1. /\ FinalizeMutation(nodes, Put(edges, e, changed), nodes)
        /\ e \in DOMAIN edges
        /\ HasAuthority(ctx, edges[e].domain, IncrementalWrite)
    BY <1>3 DEF ChangeEvidence
  <2>2. /\ changed.domain = edges[e].domain
        /\ changed.provenance \in {ctx, edges[e].provenance}
    BY <1>1, <2>1 DEF EdgeRecords
  <2> HIDE DEF changed
  <2> QED
    BY <2>1, <2>2, PutIsAuthorised, FinalizeOnlyAuthorised
<1>4. ASSUME NEW e, NEW replacement, SupersedeRelationship(ctx, e, replacement)
      PROVE  OnlyAuthorised(edges, edges')
  <2> DEFINE ended == [edges[e] EXCEPT !.lifecycle = "SUPERSEDED", !.superseded_by = replacement]
  <2>1. FinalizeMutation(nodes, Put(edges, e, ended), nodes) /\ e \in DOMAIN edges
    BY <1>4 DEF SupersedeRelationship
  <2>2. ended.provenance = edges[e].provenance /\ ended.lifecycle # "CURRENT"
    BY <1>1, <2>1 DEF EdgeRecords
  <2> HIDE DEF ended
  <2> QED
    BY <2>1, <2>2, EndingAssertsNothing, NothingAssertedIsAuthorised, FinalizeOnlyAuthorised
<1>5. ASSUME NEW e, RetireRelationship(ctx, e)
      PROVE  OnlyAuthorised(edges, edges')
  <2> DEFINE ended == [edges[e] EXCEPT !.lifecycle = "RETIRED"]
  <2>1. FinalizeMutation(nodes, Put(edges, e, ended), nodes) /\ e \in DOMAIN edges
    BY <1>5 DEF RetireRelationship
  <2>2. ended.provenance = edges[e].provenance /\ ended.lifecycle # "CURRENT"
    BY <1>1, <2>1 DEF EdgeRecords
  <2> HIDE DEF ended
  <2> QED
    BY <2>1, <2>2, EndingAssertsNothing, NothingAssertedIsAuthorised, FinalizeOnlyAuthorised
<1> QED
  BY <1>2, <1>3, <1>4, <1>5 DEF MutateEdges

LEMMA AdministrationAssertsNothing ==
  ASSUME IInv, Administer
  PROVE  AssertsNothing(edges, edges')
<1>1. AssertsNothing(edges, edges)
  BY DEF AssertsNothing
<1>2. ASSUME NEW D, NEW fenced, NEW epoch, DemoteAndPersist(D, fenced, epoch)
      PROVE  AssertsNothing(edges, edges')
  BY <1>1, <1>2, DemoteAssertsNothing DEF DemoteAndPersist, IInv, SoundGraph, SoundEdges
<1> QED
  BY <1>1, <1>2
     DEF Administer, RegisterPublisher, graph, FencePublisher, FenceBoot, AdvanceCoordinatorEpoch

LEMMA StepsOnlyAuthorised ==
  ASSUME IInv, [Next]_vars
  PROVE  OnlyAuthorised(edges, edges') \/ Restart
<1>1. CASE Administer
  BY <1>1, AdministrationAssertsNothing, NothingAssertedIsAuthorised
<1>2. CASE UNCHANGED edges
  BY <1>2 DEF OnlyAuthorised, IsAsserted
<1> QED
  BY <1>1, <1>2, NodeStepsOnlyAuthorised, EdgeStepsOnlyAuthorised
     DEF Next, Save, RegistryMoves, graph, vars

\* A relationship is added, made current or given a provenance by nobody but a
\* publisher with a live registration that holds the write grant of its domain
\* (of both, for a new one), from a boot that is not fenced.
THEOREM AssertionsAreAuthorised == Spec => AssertionsHaveAuthority
<1>1. IInv /\ [Next]_vars =>
        [\A e \in DOMAIN edges' :
           IsAsserted(e, edges, edges') => Restart \/ IsAnsweredFor(e, edges, edges')]_vars
  BY StepsOnlyAuthorised DEF OnlyAuthorised
<1> QED
  BY <1>1, EngineIsSound, PTL DEF Spec, AssertionsHaveAuthority

-----------------------------------------------------------------------------
(***************************************************************************)
(* Epochs.  Nothing in memory was asserted under an epoch yet to come, and *)
(* nothing in the image under one later than the image's own: a recovered  *)
(* engine starts one epoch after that.                                     *)
(***************************************************************************)

AssertedBy(E, epoch) == \A e \in DOMAIN E : E[e].provenance.coordinator_epoch <= epoch

EpochsInOrder ==
  /\ AssertedBy(edges, coordinator_epoch)
  /\ AssertedBy(image.edges, image.coordinator_epoch)

LEMMA DemotedAreAssertedBy ==
  ASSUME NEW E, IsEdgeMap(E), NEW D, NEW epoch, AssertedBy(E, epoch)
  PROVE  AssertedBy(Demote(E, D), epoch)
BY DemoteAssertsNothing DEF AssertsNothing, AssertedBy

LEMMA WrittenEpochsInOrder ==
  ASSUME AssertedBy(edges', coordinator_epoch'), Written
  PROVE  EpochsInOrder'
BY DEF EpochsInOrder, Written, ImageOf

\* Whatever changes the relationships in memory keeps them within the epoch.
LEMMA MemoryEpochsInOrder ==
  ASSUME IInv, EpochsInOrder, OnlyAuthorised(edges, edges'),
         coordinator_epoch' \in {coordinator_epoch, coordinator_epoch + 1}
  PROVE  AssertedBy(edges', coordinator_epoch')
<1>1. coordinator_epoch \in Nat
  BY DEF IInv, TypeOK, AuthorityTypeOK
<1>2. ASSUME NEW e \in DOMAIN edges'
      PROVE  edges'[e].provenance.coordinator_epoch <= coordinator_epoch'
  <2>1. CASE edges'[e].provenance.coordinator_epoch = coordinator_epoch
    BY <1>1, <2>1
  <2>2. CASE e \in DOMAIN edges /\ edges'[e].provenance = edges[e].provenance
    <3>1. edges[e].provenance.coordinator_epoch \in Nat
      BY <2>2 DEF IInv, SoundGraph, SoundEdges, IsEdgeMap, EdgeRecords, Provenances
    <3>2. edges[e].provenance.coordinator_epoch <= coordinator_epoch
      BY <2>2 DEF EpochsInOrder, AssertedBy
    <3> QED
      BY <1>1, <2>2, <3>1, <3>2
  <2>3. CASE IsAnsweredFor(e, edges, edges')
    <3>1. PICK p \in DOMAIN publishers :
            /\ publishers[p].coordinator_epoch = coordinator_epoch
            /\ (e \in DOMAIN edges => edges'[e].provenance # edges[e].provenance) =>
                 edges'[e].provenance = IdentityOf(p)
      BY <2>3 DEF IsAnsweredFor, MayWrite
    <3> QED
      BY <2>1, <2>2, <3>1 DEF IdentityOf
  <2> QED
    BY <2>2, <2>3 DEF OnlyAuthorised, IsAsserted
<1> QED
  BY <1>2 DEF AssertedBy

LEMMA RestartEpochs ==
  ASSUME IInv, EpochsInOrder, Restart
  PROVE  /\ EpochsInOrder'
         /\ \A e \in DOMAIN edges' : edges'[e].provenance.coordinator_epoch < coordinator_epoch'
<1>1. ASSUME RestartRecovered
      PROVE  /\ image' = image
             /\ coordinator_epoch' = image.coordinator_epoch + 1
             /\ AssertedBy(edges', image.coordinator_epoch)
             /\ IsEdgeMap(edges')
  BY <1>1, DemotedAreAssertedBy, DemoteType
     DEF RestartRecovered, EpochsInOrder, IInv, SoundGraph, SoundEdges
<1>2. ASSUME RestartFresh
      PROVE  image' = image /\ DOMAIN edges' = {}
  BY <1>2 DEF RestartFresh, FreshEngine, EmptyMap
<1>3. CASE RestartRecovered
  <2>1. image.coordinator_epoch \in Nat
    BY DEF IInv, TypeOK, ImageTypeOK
  <2>2. ASSUME NEW e \in DOMAIN edges'
        PROVE  /\ edges'[e].provenance.coordinator_epoch < coordinator_epoch'
               /\ edges'[e].provenance.coordinator_epoch <= coordinator_epoch'
    <3>1. edges'[e].provenance.coordinator_epoch \in Nat
      BY <1>1, <1>3 DEF IsEdgeMap, EdgeRecords, Provenances
    <3>2. edges'[e].provenance.coordinator_epoch <= image.coordinator_epoch
      BY <1>1, <1>3 DEF AssertedBy
    <3> QED
      BY <1>1, <1>3, <2>1, <3>1, <3>2
  <2> QED
    BY <1>1, <1>3, <2>2 DEF EpochsInOrder, AssertedBy
<1> QED
  BY <1>2, <1>3 DEF Restart, EpochsInOrder, AssertedBy

LEMMA EpochsStayInOrder == IInv /\ EpochsInOrder /\ [Next]_vars => EpochsInOrder'
<1> SUFFICES ASSUME IInv, EpochsInOrder, [Next]_vars, ~Restart PROVE EpochsInOrder'
  BY RestartEpochs
<1>1. coordinator_epoch' \in {coordinator_epoch, coordinator_epoch + 1}
  BY DEF Next, MutateNodes, AddNode, RemoveNode, ReplaceEntityGeneration, RebindIdentity,
         MutateEdges, AddRelationship, ChangeEvidence, SupersedeRelationship, RetireRelationship,
         Administer, RegisterPublisher, FencePublisher, FenceBoot, AdvanceCoordinatorEpoch,
         Save, RegistryMoves, authority, vars
<1>2. AssertedBy(edges', coordinator_epoch')
  BY <1>1, MemoryEpochsInOrder, StepsOnlyAuthorised
<1> QED
  BY <1>2, WrittenEpochsInOrder, StepsWrite DEF EpochsInOrder

\* Whatever a restart brings back was asserted under an epoch that is over.
THEOREM RecoveryStartsANewEpoch == Spec => RecoveredEvidenceIsFromEarlierEpochs
<1>1. Init => EpochsInOrder
  BY DEF Init, EmptyMap, AbsentImage, ImageOf, EpochsInOrder, AssertedBy
<1>2. IInv /\ EpochsInOrder =>
        [Restart => \A e \in DOMAIN edges' :
           edges'[e].provenance.coordinator_epoch < coordinator_epoch']_vars
  BY RestartEpochs
<1> QED
  BY <1>1, <1>2, EpochsStayInOrder, EngineIsSound, PTL
     DEF Spec, RecoveredEvidenceIsFromEarlierEpochs

-----------------------------------------------------------------------------
(***************************************************************************)
(* Bindings of current relationships.                                      *)
(***************************************************************************)

\* CurrentEdgesBoundToNodes, of any graph.
CurrentAreBound(N, E) ==
  \A e \in CurrentEdges(E) : {E[e].from, E[e].to} \subseteq DOMAIN N /\ EndpointsMatch(N, E[e])

\* ReboundEdgesAwaitRevalidation, of any two graphs.
ReboundAwait(N, M, F) ==
  \A n \in DOMAIN N \cap DOMAIN M :
    Binding(M[n]) # Binding(N[n]) => Incident(F, n) \cap CurrentEdges(F) = {}

\* A node with a new entity generation, its live edges rebound to it.
LEMMA RebindingBinds ==
  ASSUME NEW N, NEW E, IsEdgeMap(E), CurrentAreBound(N, E), NEW n, NEW node, NEW g
  PROVE  /\ CurrentAreBound(Put(N, n, node), RebindIncident(E, n, g))
         /\ ReboundAwait(N, Put(N, n, node), RebindIncident(E, n, g))
<1> DEFINE F == RebindIncident(E, n, g)
           M == Put(N, n, node)
<1>1. ASSUME NEW e \in CurrentEdges(F)
      PROVE  e \in CurrentEdges(E) /\ F[e] = E[e] /\ e \notin Incident(E, n)
  BY <1>1 DEF CurrentEdges, RebindIncident, IsEdgeMap, EdgeRecords, IsLive, Terminal
<1>2. DOMAIN M = DOMAIN N \cup {n} /\ \A m \in DOMAIN N \ {n} : M[m] = N[m]
  BY DEF Put
<1> HIDE DEF F, M
<1>3. CurrentAreBound(M, F)
  BY <1>1, <1>2 DEF CurrentAreBound, EndpointsMatch, CurrentEdges, Incident
<1>4. ReboundAwait(N, M, F)
  BY <1>1, <1>2 DEF ReboundAwait, Incident, CurrentEdges
<1> QED
  BY <1>3, <1>4 DEF F, M

\* A node refreshed under the entity generation it had.
LEMMA RefreshKeepsBindings ==
  ASSUME NEW N, NEW E, CurrentAreBound(N, E), NEW n \in DOMAIN N, NEW node,
         Binding(node) = Binding(N[n])
  PROVE  CurrentAreBound(Put(N, n, node), E) /\ ReboundAwait(N, Put(N, n, node), E)
BY DEF CurrentAreBound, ReboundAwait, EndpointsMatch, Put, Binding

\* A node that no edge names yet.
LEMMA NewNodeKeepsBindings ==
  ASSUME NEW N, NEW E, CurrentAreBound(N, E), NEW n, n \notin DOMAIN N, NEW node
  PROVE  CurrentAreBound(Put(N, n, node), E) /\ ReboundAwait(N, Put(N, n, node), E)
BY DEF CurrentAreBound, ReboundAwait, EndpointsMatch, Put

LEMMA SameNodesAwaitNothing ==
  ASSUME NEW N, NEW F
  PROVE  ReboundAwait(N, N, F)
BY DEF ReboundAwait

LEMMA RemovalKeepsBindings ==
  ASSUME NEW N, NEW E, CurrentAreBound(N, E), NEW n
  PROVE  /\ CurrentAreBound(Without(N, {n}), Without(E, Incident(E, n)))
         /\ ReboundAwait(N, Without(N, {n}), Without(E, Incident(E, n)))
BY DEF CurrentAreBound, ReboundAwait, EndpointsMatch, Without, Incident, CurrentEdges

LEMMA DemotionKeepsBindings ==
  ASSUME NEW N, NEW E, IsEdgeMap(E), CurrentAreBound(N, E), NEW D
  PROVE  CurrentAreBound(N, Demote(E, D))
BY DEF CurrentAreBound, Demote, CurrentEdges, IsEdgeMap, EdgeRecords

\* An edge that is not current, or is bound to its two nodes.
LEMMA PutKeepsBindings ==
  ASSUME NEW N, NEW E, CurrentAreBound(N, E), NEW e, NEW edge,
         edge.lifecycle = "CURRENT" =>
           {edge.from, edge.to} \subseteq DOMAIN N /\ EndpointsMatch(N, edge)
  PROVE  CurrentAreBound(N, Put(E, e, edge))
BY DEF CurrentAreBound, Put, CurrentEdges

BindingGoal ==
  CurrentAreBound(nodes', edges') /\ ReboundAwait(nodes, nodes', edges')

\* A mutation whose result is well bound, and which is undone if it fails.
LEMMA FinalizeKeepsBindings ==
  ASSUME CurrentAreBound(nodes, edges), NEW N, NEW E, NEW undone,
         CurrentAreBound(N, E), ReboundAwait(nodes, N, E), undone = nodes \/ ~WriteMayFail,
         FinalizeMutation(N, E, undone)
  PROVE  BindingGoal
BY SameNodesAwaitNothing DEF FinalizeMutation, BindingGoal

LEMMA NodeStepsKeepBindings ==
  ASSUME IInv, RebindingsAreDurable, CurrentAreBound(nodes, edges), NEW ctx, MutateNodes(ctx)
  PROVE  BindingGoal
<1>1. IsEdgeMap(edges) /\ IsNodeMap(nodes)
  BY DEF IInv, SoundGraph, SoundEdges, SoundNodes
<1>2. ASSUME NEW req, AddNode(ctx, req)
      PROVE  BindingGoal
  <2> DEFINE n == req.node_id
             record == registry[req.entity_id]
             refreshed == [nodes[n] EXCEPT !.entity_generation = record.generation,
                                           !.tier = req.tier, !.lifecycle = "CURRENT"]
             rebound == RebindIncident(edges, n, record.generation)
  <2>1. CASE n \notin DOMAIN nodes
    <3>1. PICK node : FinalizeMutation(Put(nodes, n, node), edges, nodes)
      BY <1>2, <2>1 DEF AddNode
    <3> QED
      BY <2>1, <3>1, NewNodeKeepsBindings, FinalizeKeepsBindings
  <2>2. CASE n \in DOMAIN nodes /\ nodes[n].entity_generation = record.generation
    <3>1. FinalizeMutation(Put(nodes, n, refreshed), edges, nodes)
      BY <1>2, <2>2 DEF AddNode
    <3>2. nodes[n] \in NodeRecords
      BY <1>1, <2>2 DEF IsNodeMap
    <3>3. Binding(refreshed) = Binding(nodes[n])
      BY <2>2, <3>2 DEF Binding, NodeRecords
    <3> HIDE DEF refreshed
    <3> QED
      BY <2>2, <3>1, <3>3, RefreshKeepsBindings, FinalizeKeepsBindings
  <2>3. CASE n \in DOMAIN nodes /\ nodes[n].entity_generation # record.generation
    <3>1. FinalizeMutation(Put(nodes, n, refreshed), rebound, nodes)
      BY <1>2, <2>3 DEF AddNode
    <3> HIDE DEF refreshed
    <3> QED
      BY <1>1, <3>1, RebindingBinds, FinalizeKeepsBindings
  <2> QED
    BY <2>1, <2>2, <2>3
<1>3. ASSUME NEW n, NEW cascade, RemoveNode(ctx, n, cascade)
      PROVE  BindingGoal
  BY <1>3, RemovalKeepsBindings, FinalizeKeepsBindings DEF RemoveNode
<1>4. ASSUME NEW n, NEW updated, ReplaceBinding(n, updated), ~WriteMayFail
      PROVE  BindingGoal
  BY <1>1, <1>4, RebindingBinds, FinalizeKeepsBindings DEF ReplaceBinding
<1> QED
  BY <1>2, <1>3, <1>4
     DEF MutateNodes, ReplaceEntityGeneration, RebindIdentity, RebindingsAreDurable

\* A mutation of one edge that is bound, or not current.
LEMMA FinalizeEdgeKeepsBindings ==
  ASSUME CurrentAreBound(nodes, edges), NEW e, NEW edge,
         edge.lifecycle = "CURRENT" =>
           {edge.from, edge.to} \subseteq DOMAIN nodes /\ EndpointsMatch(nodes, edge),
         FinalizeMutation(nodes, Put(edges, e, edge), nodes)
  PROVE  BindingGoal
BY PutKeepsBindings, SameNodesAwaitNothing, FinalizeKeepsBindings

LEMMA EdgeStepsKeepBindings ==
  ASSUME IInv, CurrentAreBound(nodes, edges), NEW ctx \in Contexts, MutateEdges(ctx)
  PROVE  BindingGoal
<1>1. \A e \in DOMAIN edges : edges[e] \in EdgeRecords
  BY DEF IInv, SoundGraph, SoundEdges, IsEdgeMap
<1>2. ASSUME NEW req \in LinkRequests, AddRelationship(ctx, req)
      PROVE  BindingGoal
  <2> DEFINE new == NewEdge(ctx, req)
             again == ReassertedEdge(edges[req.id], req)
  <2>1. PICK edge : /\ FinalizeMutation(nodes, Put(edges, req.id, edge), nodes)
                    /\ edge = new \/ (req.id \in DOMAIN edges /\ edge = again)
    BY <1>2 DEF AddRelationship
  <2>2. /\ {req.from, req.to} \subseteq DOMAIN nodes
        /\ req.id \in DOMAIN edges => SameKey(edges[req.id], req)
    BY <1>2 DEF AddRelationship
  <2>3. {new.from, new.to} \subseteq DOMAIN nodes /\ EndpointsMatch(nodes, new)
    BY <2>2 DEF NewEdge, EndpointsMatch
  <2>4. req.id \in DOMAIN edges =>
          {again.from, again.to} \subseteq DOMAIN nodes /\ EndpointsMatch(nodes, again)
    BY <1>1, <2>2 DEF ReassertedEdge, EdgeRecords, EndpointsMatch, SameKey
  <2> HIDE DEF new, again
  <2> QED
    BY <2>1, <2>3, <2>4, FinalizeEdgeKeepsBindings
<1>3. ASSUME NEW e, NEW evidence, NEW lifecycle, ChangeEvidence(ctx, e, evidence, lifecycle)
      PROVE  BindingGoal
  <2> DEFINE changed == [edges[e] EXCEPT
                           !.evidence_generation = evidence,
                           !.lifecycle = lifecycle,
                           !.provenance = IF lifecycle = "CURRENT" THEN ctx ELSE @]
  <2>1. /\ FinalizeMutation(nodes, Put(edges, e, changed), nodes)
        /\ e \in DOMAIN edges
        /\ lifecycle = "CURRENT" => EvidenceBinds(edges[e])
    BY <1>3 DEF ChangeEvidence
  <2>2. /\ changed.lifecycle = lifecycle
        /\ changed.from = edges[e].from /\ changed.to = edges[e].to
        /\ changed.from_entity_generation = edges[e].from_entity_generation
        /\ changed.to_entity_generation = edges[e].to_entity_generation
    BY <1>1, <2>1 DEF EdgeRecords
  <2> HIDE DEF changed
  <2>3. changed.lifecycle = "CURRENT" =>
          {changed.from, changed.to} \subseteq DOMAIN nodes /\ EndpointsMatch(nodes, changed)
    BY <2>1, <2>2 DEF EvidenceBinds, EndpointsMatch
  <2> QED
    BY <2>1, <2>3, FinalizeEdgeKeepsBindings
<1>4. ASSUME NEW e, NEW replacement, SupersedeRelationship(ctx, e, replacement)
      PROVE  BindingGoal
  <2> DEFINE ended == [edges[e] EXCEPT !.lifecycle = "SUPERSEDED", !.superseded_by = replacement]
  <2>1. FinalizeMutation(nodes, Put(edges, e, ended), nodes) /\ e \in DOMAIN edges
    BY <1>4 DEF SupersedeRelationship
  <2>2. ended.lifecycle = "SUPERSEDED"
    BY <1>1, <2>1 DEF EdgeRecords
  <2> HIDE DEF ended
  <2> QED
    BY <2>1, <2>2, FinalizeEdgeKeepsBindings
<1>5. ASSUME NEW e, RetireRelationship(ctx, e)
      PROVE  BindingGoal
  <2> DEFINE ended == [edges[e] EXCEPT !.lifecycle = "RETIRED"]
  <2>1. FinalizeMutation(nodes, Put(edges, e, ended), nodes) /\ e \in DOMAIN edges
    BY <1>5 DEF RetireRelationship
  <2>2. ended.lifecycle = "RETIRED"
    BY <1>1, <2>1 DEF EdgeRecords
  <2> HIDE DEF ended
  <2> QED
    BY <2>1, <2>2, FinalizeEdgeKeepsBindings
<1> QED
  BY <1>2, <1>3, <1>4, <1>5 DEF MutateEdges

LEMMA AdministrationKeepsBindings ==
  ASSUME IInv, CurrentAreBound(nodes, edges), Administer
  PROVE  BindingGoal
<1>1. IsEdgeMap(edges)
  BY DEF IInv, SoundGraph, SoundEdges
<1>2. ASSUME NEW D, NEW fenced, NEW epoch, DemoteAndPersist(D, fenced, epoch)
      PROVE  BindingGoal
  BY <1>1, <1>2, DemotionKeepsBindings, SameNodesAwaitNothing DEF DemoteAndPersist, BindingGoal
<1>3. CASE UNCHANGED graph
  BY <1>3, SameNodesAwaitNothing DEF graph, BindingGoal
<1> QED
  BY <1>2, <1>3
     DEF Administer, RegisterPublisher, FencePublisher, FenceBoot, AdvanceCoordinatorEpoch

\* Recovery leaves no relationship current.
LEMMA RestartKeepsBindings ==
  ASSUME IInv, Restart
  PROVE  BindingGoal
<1>1. CurrentEdges(edges') = {}
  <2>1. CASE RestartRecovered
    <3>1. \A e \in DOMAIN image.edges : image.edges[e] \in EdgeRecords
      BY DEF IInv, SoundGraph, SoundEdges, IsEdgeMap
    <3> QED
      BY <2>1, <3>1 DEF RestartRecovered, CurrentEdges, Demote, IsLive, Terminal, EdgeRecords
  <2>2. CASE RestartFresh
    BY <2>2 DEF RestartFresh, FreshEngine, EmptyMap, CurrentEdges
  <2> QED
    BY <2>1, <2>2 DEF Restart
<1> QED
  BY <1>1 DEF BindingGoal, CurrentAreBound, ReboundAwait

LEMMA BindingsStayBound ==
  ASSUME IInv, RebindingsAreDurable, CurrentAreBound(nodes, edges), [Next]_vars
  PROVE  BindingGoal
<1>1. CASE UNCHANGED graph
  BY <1>1, SameNodesAwaitNothing DEF graph, BindingGoal
<1> QED
  BY <1>1, NodeStepsKeepBindings, EdgeStepsKeepBindings, AdministrationKeepsBindings,
     RestartKeepsBindings DEF Next, Save, RegistryMoves, graph, vars

LEMMA BindingInvariant ==
  /\ Init => CurrentAreBound(nodes, edges)
  /\ IInv /\ RebindingsAreDurable /\ CurrentAreBound(nodes, edges) /\ [Next]_vars
       => CurrentAreBound(nodes, edges)'
BY BindingsStayBound DEF Init, EmptyMap, CurrentAreBound, CurrentEdges, BindingGoal

\* A current relationship carries the entity generations of its two nodes,
\* through refreshes, rebindings, removals, recovery and writes that fail and
\* are undone.
THEOREM CurrentEdgesStayBound ==
  ASSUME RebindingsAreDurable
  PROVE  Spec => []CurrentEdgesBoundToNodes
<1>1. CurrentAreBound(nodes, edges) => CurrentEdgesBoundToNodes
  BY DEF CurrentAreBound, CurrentEdgesBoundToNodes
<1> QED
  BY <1>1, BindingInvariant, EngineIsSound, PTL DEF Spec

\* replace_endpoint_generation, or a refresh by add_node, that gives a node a
\* new identity or generation leaves no relationship of the node current.
THEOREM ReboundEdgesLoseCurrentness ==
  ASSUME RebindingsAreDurable
  PROVE  Spec => ReboundEdgesAwaitRevalidation
<1>1. IInv /\ CurrentAreBound(nodes, edges) /\ [Next]_vars =>
        [\A n \in DOMAIN nodes \cap DOMAIN nodes' :
           Binding(nodes'[n]) # Binding(nodes[n])
             => Incident(edges', n) \cap CurrentEdges(edges') = {}]_vars
  BY BindingsStayBound DEF BindingGoal, ReboundAwait
<1> QED
  BY <1>1, BindingInvariant, EngineIsSound, PTL DEF Spec, ReboundEdgesAwaitRevalidation

-----------------------------------------------------------------------------
(***************************************************************************)
(* Generations.  A graph that changes gets a new generation and is written *)
(* under it, so generation 0 is the empty graph wherever it is found: a    *)
(* restart that finds no sound image begins with it again.                 *)
(***************************************************************************)

SameGraph(N, E, M, F) ==
  /\ DOMAIN N = DOMAIN M
  /\ DOMAIN E = DOMAIN F
  /\ \A n \in DOMAIN N : IsDemotionOf(N[n], M[n])
  /\ \A e \in DOMAIN E : IsDemotionOf(E[e], F[e])

EmptyAtZero(N, E, g) == g = 0 => DOMAIN N = {} /\ DOMAIN E = {}

GenerationsNameGraphs ==
  /\ EmptyAtZero(nodes, edges, generation)
  /\ image.saved => EmptyAtZero(image.nodes, image.edges, image.generation)
  /\ image.saved /\ image.generation = generation =>
       SameGraph(nodes, edges, image.nodes, image.edges)

LEMMA FinalizeAdvances ==
  ASSUME IInv, NEW N, NEW E, NEW undone, FinalizeMutation(N, E, undone),
         undone = nodes \/ ~WriteMayFail
  PROVE  generation' = generation + 1 \/ UNCHANGED graph
BY DEF FinalizeMutation, graph

\* A step that changes the graph gives it the next generation.
LEMMA StepsAdvance ==
  ASSUME IInv, RebindingsAreDurable, [Next]_vars, ~Restart
  PROVE  generation' = generation + 1 \/ UNCHANGED graph
<1> DEFINE Goal == generation' = generation + 1 \/ UNCHANGED graph
<1>1. ASSUME NEW ctx, MutateNodes(ctx)
      PROVE  Goal
  <2>1. ASSUME NEW req, AddNode(ctx, req)
        PROVE  Goal
    <3>1. PICK N, E : FinalizeMutation(N, E, nodes)
      BY <2>1 DEF AddNode
    <3> QED
      BY <3>1, FinalizeAdvances
  <2>2. ASSUME NEW n, NEW cascade, RemoveNode(ctx, n, cascade)
        PROVE  Goal
    BY <2>2, FinalizeAdvances DEF RemoveNode
  <2>3. ASSUME NEW n, NEW updated, ReplaceBinding(n, updated), ~WriteMayFail
        PROVE  Goal
    BY <2>3, FinalizeAdvances DEF ReplaceBinding
  <2> QED
    BY <1>1, <2>1, <2>2, <2>3
       DEF MutateNodes, ReplaceEntityGeneration, RebindIdentity, RebindingsAreDurable
<1>2. ASSUME NEW ctx, MutateEdges(ctx)
      PROVE  Goal
  <2>1. PICK E : FinalizeMutation(nodes, E, nodes)
    BY <1>2
       DEF MutateEdges, AddRelationship, ChangeEvidence, SupersedeRelationship, RetireRelationship
  <2> QED
    BY <2>1, FinalizeAdvances
<1>3. ASSUME NEW D, NEW fenced, NEW epoch, DemoteAndPersist(D, fenced, epoch)
      PROVE  Goal
  BY <1>3 DEF DemoteAndPersist, graph
<1>4. ASSUME Administer
      PROVE  Goal
  BY <1>3, <1>4
     DEF Administer, RegisterPublisher, FencePublisher, FenceBoot, AdvanceCoordinatorEpoch, graph
<1> QED
  BY <1>1, <1>2, <1>4 DEF Next, Save, RegistryMoves, graph, vars

LEMMA DemotionIsSameGraph ==
  ASSUME NEW N, NEW E, NEW D
  PROVE  SameGraph(N, E, N, E) /\ SameGraph(N, Demote(E, D), N, E)
BY DEF SameGraph, IsDemotionOf, Demote

LEMMA RestartNamesGraph ==
  ASSUME GenerationsNameGraphs, Restart
  PROVE  GenerationsNameGraphs'
<1>1. CASE RestartRecovered
  <2>1. /\ DOMAIN nodes' = DOMAIN image.nodes
        /\ \A n \in DOMAIN nodes' : IsDemotionOf(nodes'[n], image.nodes[n])
    BY <1>1 DEF RestartRecovered, IsDemotionOf
  <2>2. /\ DOMAIN edges' = DOMAIN image.edges
        /\ \A e \in DOMAIN edges' : IsDemotionOf(edges'[e], image.edges[e])
    BY <1>1 DEF RestartRecovered, Demote, IsDemotionOf
  <2>3. generation' = image.generation /\ image' = image /\ image.saved
    BY <1>1 DEF RestartRecovered, ImageIsSound
  <2> QED
    BY <2>1, <2>2, <2>3 DEF GenerationsNameGraphs, EmptyAtZero, SameGraph
<1>2. CASE RestartFresh
  <2>1. DOMAIN nodes' = {} /\ DOMAIN edges' = {} /\ generation' = 0 /\ image' = image
    BY <1>2 DEF RestartFresh, FreshEngine, EmptyMap
  <2> QED
    BY <2>1 DEF GenerationsNameGraphs, EmptyAtZero, SameGraph
<1> QED
  BY <1>1, <1>2 DEF Restart

LEMMA StepsNameGraphs ==
  ASSUME IInv, RebindingsAreDurable, GenerationsNameGraphs, [Next]_vars
  PROVE  GenerationsNameGraphs'
<1> SUFFICES ASSUME ~Restart PROVE GenerationsNameGraphs'
  BY RestartNamesGraph
<1>1. generation \in Nat
  BY DEF IInv, TypeOK, GraphTypeOK
<1>2. EmptyAtZero(nodes, edges, generation)'
  BY <1>1, StepsAdvance DEF GenerationsNameGraphs, EmptyAtZero, graph
<1>3. CASE Written
  <2>1. image'.nodes = nodes' /\ image'.edges = edges' /\ image'.generation = generation'
    BY <1>3 DEF Written, ImageOf
  <2> QED
    BY <1>2, <2>1, DemotionIsSameGraph DEF GenerationsNameGraphs, EmptyAtZero
<1>4. CASE UNCHANGED graph /\ UNCHANGED image
  BY <1>4 DEF GenerationsNameGraphs, EmptyAtZero, SameGraph, IsDemotionOf, graph
<1> QED
  BY <1>3, <1>4, StepsWrite

\* Two graphs found under one topology generation, one in memory and one in the
\* image, are the same graph up to what recovery demotes.
THEOREM GenerationsNameOneGraph ==
  ASSUME RebindingsAreDurable
  PROVE  Spec => []GenerationNamesGraph
<1>1. Init => GenerationsNameGraphs
  BY DEF Init, AbsentImage, ImageOf, EmptyMap, GenerationsNameGraphs, EmptyAtZero
<1>2. IInv /\ RebindingsAreDurable /\ GenerationsNameGraphs /\ [Next]_vars
        => GenerationsNameGraphs'
  BY StepsNameGraphs
<1>3. GenerationsNameGraphs => GenerationNamesGraph
  BY DEF GenerationsNameGraphs, GenerationNamesGraph, SameGraph
<1> QED
  BY <1>1, <1>2, <1>3, EngineIsSound, PTL DEF Spec

-----------------------------------------------------------------------------
(***************************************************************************)
(* What recovery accepts.  validate_graph refuses an image for a node the  *)
(* registry has moved past and for an exclusive attachment held twice; all *)
(* else it asks holds of every image that was ever written.                *)
(***************************************************************************)

\* The nodes are current, and every edge joins two of them in the scopes that
\* add_relationship resolved for it.
Placed(N, E) ==
  /\ ClosedEdges(N, E)
  /\ \A n \in DOMAIN N : N[n].lifecycle = "CURRENT"
  /\ \A e \in DOMAIN E : E[e].from # E[e].to /\ ValidScope(N, E[e])

\* Two records of an edge between the same ends in the same scopes.
SamePlace(old, new) ==
  /\ new.from = old.from
  /\ new.to = old.to
  /\ new.domain = old.domain
  /\ new.secondary_domain = old.secondary_domain

\* A node added, or written again in its domain.
LEMMA PutNodePlaced ==
  ASSUME NEW N, NEW E, Placed(N, E), NEW n, NEW node, node.lifecycle = "CURRENT",
         n \in DOMAIN N => node.domain = N[n].domain
  PROVE  Placed(Put(N, n, node), E)
<1> DEFINE M == Put(N, n, node)
<1>1. /\ DOMAIN M = DOMAIN N \cup {n}
      /\ \A m \in DOMAIN N : M[m].domain = N[m].domain
      /\ \A m \in DOMAIN M : M[m].lifecycle = "CURRENT"
  BY DEF Put, Placed
<1> HIDE DEF M
<1>2. Placed(M, E)
  BY <1>1 DEF Placed, ClosedEdges, ValidScope
<1> QED
  BY <1>2 DEF M

\* Edges that stay where they were, or go.
LEMMA SamePlacesPlaced ==
  ASSUME NEW N, NEW E, NEW F, Placed(N, E),
         \A e \in DOMAIN F : e \in DOMAIN E /\ SamePlace(E[e], F[e])
  PROVE  Placed(N, F)
BY DEF Placed, SamePlace, ClosedEdges, ValidScope

LEMMA RebindPlaced ==
  ASSUME NEW N, NEW E, IsEdgeMap(E), Placed(N, E), NEW n, NEW g
  PROVE  Placed(N, RebindIncident(E, n, g))
<1> DEFINE F == RebindIncident(E, n, g)
<1>1. \A e \in DOMAIN F : e \in DOMAIN E /\ SamePlace(E[e], F[e])
  BY DEF RebindIncident, SamePlace, IsEdgeMap, EdgeRecords
<1> HIDE DEF F
<1>2. Placed(N, F)
  BY <1>1, SamePlacesPlaced
<1> QED
  BY <1>2 DEF F

LEMMA DemotePlaced ==
  ASSUME NEW N, NEW E, IsEdgeMap(E), Placed(N, E), NEW D
  PROVE  Placed(N, Demote(E, D))
<1> DEFINE F == Demote(E, D)
<1>1. \A e \in DOMAIN F : e \in DOMAIN E /\ SamePlace(E[e], F[e])
  BY DEF Demote, SamePlace, IsEdgeMap, EdgeRecords
<1> HIDE DEF F
<1>2. Placed(N, F)
  BY <1>1, SamePlacesPlaced
<1> QED
  BY <1>2 DEF F

\* remove_node takes the edges of the node along.
LEMMA RemovalPlaced ==
  ASSUME NEW N, NEW E, Placed(N, E), NEW n
  PROVE  Placed(Without(N, {n}), Without(E, Incident(E, n)))
<1> DEFINE M == Without(N, {n})
           F == Without(E, Incident(E, n))
<1>1. DOMAIN M = DOMAIN N \ {n} /\ \A m \in DOMAIN M : M[m] = N[m]
  BY DEF Without
<1>2. \A e \in DOMAIN F :
        e \in DOMAIN E /\ F[e] = E[e] /\ E[e].from # n /\ E[e].to # n
  BY DEF Without, Incident
<1> HIDE DEF M, F
<1>3. Placed(M, F)
  BY <1>1, <1>2 DEF Placed, ClosedEdges, ValidScope
<1> QED
  BY <1>3 DEF M, F

LEMMA PutEdgePlaced ==
  ASSUME NEW N, NEW E, Placed(N, E), NEW e, NEW edge,
         \/ e \in DOMAIN E /\ SamePlace(E[e], edge)
         \/ /\ {edge.from, edge.to} \subseteq DOMAIN N
            /\ edge.from # edge.to
            /\ ValidScope(N, edge)
  PROVE  Placed(N, Put(E, e, edge))
<1> DEFINE F == Put(E, e, edge)
<1>1. DOMAIN F = DOMAIN E \cup {e} /\ F[e] = edge /\ \A o \in DOMAIN E \ {e} : F[o] = E[o]
  BY DEF Put
<1> HIDE DEF F
<1>2. /\ {edge.from, edge.to} \subseteq DOMAIN N
      /\ edge.from # edge.to
      /\ ValidScope(N, edge)
  BY DEF Placed, ClosedEdges, SamePlace, ValidScope
<1>3. Placed(N, F)
  BY <1>1, <1>2 DEF Placed, ClosedEdges
<1> QED
  BY <1>3 DEF F

\* resolve_relationship_domain places a new edge in the scopes of its ends.
LEMMA NewEdgePlaced ==
  ASSUME NEW ctx, NEW req,
         ResolvesDomain(nodes[req.from].domain, nodes[req.to].domain, req.relation, req.domain)
  PROVE  ValidScope(nodes, NewEdge(ctx, req))
BY DEF ResolvesDomain, SecondaryDomain, ValidScope, NewEdge

LEMMA FinalizePlaced ==
  ASSUME Placed(nodes, edges), NEW N, NEW E, NEW undone, Placed(N, E),
         Placed(undone, edges), FinalizeMutation(N, E, undone)
  PROVE  Placed(nodes', edges')
BY DEF FinalizeMutation

LEMMA NodeStepsPlaced ==
  ASSUME IInv, Placed(nodes, edges), NEW ctx, MutateNodes(ctx)
  PROVE  Placed(nodes', edges')
<1> DEFINE Goal == Placed(nodes', edges')
<1>1. /\ IsEdgeMap(edges)
      /\ \A n \in DOMAIN nodes : nodes[n] \in NodeRecords /\ nodes[n].lifecycle = "CURRENT"
  BY DEF IInv, SoundGraph, SoundEdges, SoundNodes, IsNodeMap, Placed
<1>2. ASSUME NEW req, AddNode(ctx, req)
      PROVE  Goal
  <2> DEFINE n == req.node_id
             record == registry[req.entity_id]
             node == [entity_id |-> req.entity_id, entity_generation |-> record.generation,
                      node_class |-> req.node_class, tier |-> req.tier, domain |-> req.domain,
                      lifecycle |-> "CURRENT"]
             refreshed == [nodes[n] EXCEPT !.entity_generation = record.generation,
                                           !.tier = req.tier, !.lifecycle = "CURRENT"]
             rebound == RebindIncident(edges, n, record.generation)
  <2>1. node.lifecycle = "CURRENT"
    OBVIOUS
  <2>2. ASSUME n \in DOMAIN nodes
        PROVE  refreshed.lifecycle = "CURRENT" /\ refreshed.domain = nodes[n].domain
    BY <1>1, <2>2 DEF NodeRecords
  <2>3. Placed(nodes, rebound)
    BY <1>1, RebindPlaced
  <2>4. \/ n \notin DOMAIN nodes /\ FinalizeMutation(Put(nodes, n, node), edges, nodes)
        \/ /\ n \in DOMAIN nodes
           /\ \/ FinalizeMutation(Put(nodes, n, refreshed), edges, nodes)
              \/ FinalizeMutation(Put(nodes, n, refreshed), rebound, nodes)
    BY <1>2 DEF AddNode
  <2> HIDE DEF n, node, refreshed, rebound
  <2> QED
    BY <2>1, <2>2, <2>3, <2>4, PutNodePlaced, FinalizePlaced
<1>3. ASSUME NEW n, NEW cascade, RemoveNode(ctx, n, cascade)
      PROVE  Goal
  BY <1>3, RemovalPlaced, FinalizePlaced DEF RemoveNode
<1>4. ASSUME NEW n \in DOMAIN nodes, NEW updated, ReplaceBinding(n, updated),
             updated.lifecycle = "CURRENT", updated.domain = nodes[n].domain
      PROVE  Goal
  <2> DEFINE rebound == RebindIncident(edges, n, updated.entity_generation)
             renewed == Put(nodes, n, updated)
  <2>1. FinalizeMutation(renewed, rebound, renewed)
    BY <1>4 DEF ReplaceBinding
  <2>2. Placed(renewed, edges)
    BY <1>4, PutNodePlaced
  <2>3. Placed(renewed, rebound)
    BY <1>1, <2>2, RebindPlaced
  <2> HIDE DEF rebound, renewed
  <2> QED
    BY <2>1, <2>2, <2>3, FinalizePlaced
<1>5. ASSUME NEW n, NEW g, ReplaceEntityGeneration(ctx, n, g)
      PROVE  Goal
  <2> DEFINE updated == [nodes[n] EXCEPT !.entity_generation = g]
  <2>1. n \in DOMAIN nodes /\ ReplaceBinding(n, updated)
    BY <1>5 DEF ReplaceEntityGeneration
  <2>2. updated.lifecycle = "CURRENT" /\ updated.domain = nodes[n].domain
    BY <1>1, <2>1 DEF NodeRecords
  <2> HIDE DEF updated
  <2> QED
    BY <1>4, <2>1, <2>2
<1>6. ASSUME NEW n, NEW successor, RebindIdentity(ctx, n, successor)
      PROVE  Goal
  <2> DEFINE updated == [nodes[n] EXCEPT !.entity_id = successor,
                                         !.entity_generation = registry[successor].generation]
  <2>1. n \in DOMAIN nodes /\ ReplaceBinding(n, updated)
    BY <1>6 DEF RebindIdentity
  <2>2. updated.lifecycle = "CURRENT" /\ updated.domain = nodes[n].domain
    BY <1>1, <2>1 DEF NodeRecords
  <2> HIDE DEF updated
  <2> QED
    BY <1>4, <2>1, <2>2
<1> QED
  BY <1>2, <1>3, <1>5, <1>6 DEF MutateNodes

LEMMA EdgeStepsPlaced ==
  ASSUME IInv, Placed(nodes, edges), NEW ctx, MutateEdges(ctx)
  PROVE  Placed(nodes', edges')
<1> DEFINE Goal == Placed(nodes', edges')
<1>1. \A e \in DOMAIN edges : edges[e] \in EdgeRecords
  BY DEF IInv, SoundGraph, SoundEdges, IsEdgeMap
<1>2. ASSUME NEW e, NEW edge, FinalizeMutation(nodes, Put(edges, e, edge), nodes),
             \/ e \in DOMAIN edges /\ SamePlace(edges[e], edge)
             \/ /\ {edge.from, edge.to} \subseteq DOMAIN nodes
                /\ edge.from # edge.to
                /\ ValidScope(nodes, edge)
      PROVE  Goal
  BY <1>2, PutEdgePlaced, FinalizePlaced
<1>3. ASSUME NEW req, AddRelationship(ctx, req)
      PROVE  Goal
  <2> DEFINE new == NewEdge(ctx, req)
             again == ReassertedEdge(edges[req.id], req)
  <2>1. PICK edge : /\ FinalizeMutation(nodes, Put(edges, req.id, edge), nodes)
                    /\ edge = new \/ (req.id \in DOMAIN edges /\ edge = again)
    BY <1>3 DEF AddRelationship
  <2>2. /\ {req.from, req.to} \subseteq DOMAIN nodes
        /\ req.from # req.to
        /\ ValidScope(nodes, new)
    BY <1>3, NewEdgePlaced DEF AddRelationship, ValidCandidate
  <2>3. new.from = req.from /\ new.to = req.to
    BY DEF NewEdge
  <2>4. req.id \in DOMAIN edges => SamePlace(edges[req.id], again)
    BY <1>1 DEF ReassertedEdge, EdgeRecords, SamePlace
  <2> HIDE DEF new, again
  <2> QED
    BY <1>2, <2>1, <2>2, <2>3, <2>4
<1>4. ASSUME NEW e, NEW evidence, NEW lifecycle, ChangeEvidence(ctx, e, evidence, lifecycle)
      PROVE  Goal
  <2> DEFINE changed == [edges[e] EXCEPT
                           !.evidence_generation = evidence,
                           !.lifecycle = lifecycle,
                           !.provenance = IF lifecycle = "CURRENT" THEN ctx ELSE @]
  <2>1. FinalizeMutation(nodes, Put(edges, e, changed), nodes) /\ e \in DOMAIN edges
    BY <1>4 DEF ChangeEvidence
  <2>2. SamePlace(edges[e], changed)
    BY <1>1, <2>1 DEF EdgeRecords, SamePlace
  <2> HIDE DEF changed
  <2> QED
    BY <1>2, <2>1, <2>2
<1>5. ASSUME NEW e, NEW replacement, SupersedeRelationship(ctx, e, replacement)
      PROVE  Goal
  <2> DEFINE ended == [edges[e] EXCEPT !.lifecycle = "SUPERSEDED", !.superseded_by = replacement]
  <2>1. FinalizeMutation(nodes, Put(edges, e, ended), nodes) /\ e \in DOMAIN edges
    BY <1>5 DEF SupersedeRelationship
  <2>2. SamePlace(edges[e], ended)
    BY <1>1, <2>1 DEF EdgeRecords, SamePlace
  <2> HIDE DEF ended
  <2> QED
    BY <1>2, <2>1, <2>2
<1>6. ASSUME NEW e, RetireRelationship(ctx, e)
      PROVE  Goal
  <2> DEFINE ended == [edges[e] EXCEPT !.lifecycle = "RETIRED"]
  <2>1. FinalizeMutation(nodes, Put(edges, e, ended), nodes) /\ e \in DOMAIN edges
    BY <1>6 DEF RetireRelationship
  <2>2. SamePlace(edges[e], ended)
    BY <1>1, <2>1 DEF EdgeRecords, SamePlace
  <2> HIDE DEF ended
  <2> QED
    BY <1>2, <2>1, <2>2
<1> QED
  BY <1>3, <1>4, <1>5, <1>6 DEF MutateEdges

LEMMA AdministrationPlaced ==
  ASSUME IInv, Placed(nodes, edges), Administer
  PROVE  Placed(nodes', edges')
<1>1. ASSUME NEW D, NEW fenced, NEW epoch, DemoteAndPersist(D, fenced, epoch)
      PROVE  Placed(nodes', edges')
  BY <1>1, DemotePlaced DEF DemoteAndPersist, IInv, SoundGraph, SoundEdges
<1> QED
  BY <1>1
     DEF Administer, RegisterPublisher, FencePublisher, FenceBoot, AdvanceCoordinatorEpoch, graph

\* A sound image has no current node that the registry has moved past, so that
\* recovery finds none to demote.
LEMMA RecoveryDemotesNoNode ==
  ASSUME Placed(image.nodes, image.edges), IsNodeMap(image.nodes), RestartRecovered
  PROVE  nodes' = image.nodes
<1>1. ASSUME NEW n \in DOMAIN image.nodes
      PROVE  IsCurrentRecord(registry, image.nodes[n].entity_id,
                             image.nodes[n].entity_generation)
  BY <1>1 DEF Placed, RestartRecovered, ImageIsSound, ValidGraph, ValidNode, IsCurrentRecord
<1>2. nodes' = [n \in DOMAIN image.nodes |-> image.nodes[n]]
  BY <1>1 DEF RestartRecovered
<1> QED
  BY <1>2 DEF IsNodeMap

LEMMA RestartPlaced ==
  ASSUME IInv, Placed(image.nodes, image.edges), Restart
  PROVE  Placed(nodes', edges')
<1>1. CASE RestartRecovered
  <2>1. PICK D : edges' = Demote(image.edges, D)
    BY <1>1 DEF RestartRecovered
  <2>2. IsNodeMap(image.nodes) /\ IsEdgeMap(image.edges)
    BY DEF IInv, SoundGraph, SoundNodes, SoundEdges
  <2> QED
    BY <1>1, <2>1, <2>2, RecoveryDemotesNoNode, DemotePlaced
<1>2. CASE RestartFresh
  BY <1>2 DEF RestartFresh, FreshEngine, EmptyMap, Placed, ClosedEdges
<1> QED
  BY <1>1, <1>2 DEF Restart

PlacedInv == Placed(nodes, edges) /\ Placed(image.nodes, image.edges)

LEMMA StepsPlaced == IInv /\ PlacedInv /\ [Next]_vars => PlacedInv'
<1> SUFFICES ASSUME IInv, PlacedInv, [Next]_vars PROVE PlacedInv'
  OBVIOUS
<1>1. ASSUME UNCHANGED <<nodes, edges>>
      PROVE  Placed(nodes', edges')
  BY <1>1 DEF PlacedInv
<1>2. Placed(nodes', edges')
  BY <1>1, NodeStepsPlaced, EdgeStepsPlaced, AdministrationPlaced, RestartPlaced
     DEF Next, Save, RegistryMoves, graph, vars, PlacedInv
<1>3. Placed(image'.nodes, image'.edges)
  BY <1>2, StepsWrite DEF Written, ImageOf, PlacedInv
<1> QED
  BY <1>2, <1>3 DEF PlacedInv

LEMMA StartsPlaced == Init => PlacedInv
BY DEF Init, AbsentImage, ImageOf, EmptyMap, PlacedInv, Placed, ClosedEdges

\* Mutations and recovery leave no node but a current one, in memory or in the
\* image, and every edge joins two different nodes in scopes that its relation
\* may have there.  Recovery demotes no node: load_from refuses the images in
\* which it would have one to demote.
THEOREM NodesStayCurrent ==
  Spec => /\ [](Placed(nodes, edges) /\ Placed(image.nodes, image.edges))
          /\ [][RestartRecovered => nodes' = image.nodes]_vars
<1>1. PlacedInv <=> Placed(nodes, edges) /\ Placed(image.nodes, image.edges)
  BY DEF PlacedInv
<1>2. IInv /\ PlacedInv => [RestartRecovered => nodes' = image.nodes]_vars
  BY RecoveryDemotesNoNode DEF PlacedInv, IInv, SoundGraph, SoundNodes
<1> QED
  BY <1>1, <1>2, StartsPlaced, StepsPlaced, EngineIsSound, PTL DEF Spec

-----------------------------------------------------------------------------
(***************************************************************************)
(* What a restart keeps.  The image stays in step with memory, so recovery *)
(* from a sound one brings the graph back; and an image is sound as long   *)
(* as the registry stands behind its nodes and no exclusive attachment is  *)
(* held twice.  Both conditions are needed: the engine lets the registry   *)
(* move on, and revalidation lets an attachment be held twice.  The        *)
(* operations are those of TopologyEngine: a publication can also retire a *)
(* node, and revalidation then makes an edge current at it.                *)
(***************************************************************************)

RegistryStandsBehind == \A n \in DOMAIN nodes : IsUpToDate(n)

Exclusive(E) == \A e, o \in DOMAIN E : e # o => ~SharedAttachment(E, e, o)

\* The image is of this generation, and without one nothing happened yet.
ImageInStep ==
  /\ ~image.saved => DOMAIN nodes = {} /\ DOMAIN edges = {} /\ generation = 0
  /\ image.saved => generation = image.generation

\* What the image owes to the mutations that wrote it.
Recoverable ==
  /\ PlacedInv
  /\ ImageInStep
  /\ GenerationsNameGraphs
  /\ CurrentAreBound(nodes, edges)
  /\ CurrentAreBound(image.nodes, image.edges)
  /\ Exclusive(image.edges)

\* validate_graph finds nothing against it.
LEMMA ImagesAreValid ==
  ASSUME IInv, Recoverable, RegistryStandsBehind, image.saved
  PROVE  ValidGraph(image.nodes, image.edges, registry)
<1> DEFINE N == image.nodes
           E == image.edges
<1>1. /\ IsNodeMap(N)
      /\ ClosedEdges(N, E)
      /\ UniqueKeys(E)
      /\ ChainsEnd(E)
      /\ AcyclicEdges(E)
      /\ Placed(N, E)
      /\ CurrentAreBound(N, E)
      /\ Exclusive(E)
  BY DEF IInv, SoundGraph, SoundNodes, SoundEdges, Recoverable, PlacedInv
<1>2. DOMAIN N = DOMAIN nodes /\ \A n \in DOMAIN N : IsDemotionOf(nodes[n], N[n])
  BY DEF Recoverable, ImageInStep, GenerationsNameGraphs, SameGraph
<1>3. ASSUME NEW n \in DOMAIN N
      PROVE  ValidNode(N[n], registry)
  <2>1. N[n] \in NodeRecords
    BY <1>1 DEF IsNodeMap
  <2>2. /\ nodes[n].entity_id = N[n].entity_id
        /\ nodes[n].entity_generation = N[n].entity_generation
    BY <1>2, <2>1 DEF IsDemotionOf, NodeRecords
  <2> QED
    BY <1>2, <2>2 DEF RegistryStandsBehind, IsUpToDate, IsCurrentRecord, ValidNode
<1> HIDE DEF N, E
<1>4. ASSUME NEW e \in DOMAIN E
      PROVE  ValidEdge(N, E, e)
  <2>1. \A o \in DOMAIN E \ {e} : ~SameKey(E[o], E[e])
    BY <1>1 DEF UniqueKeys, Key, SameKey
  <2>2. E[e].superseded_by # e
    <3>1. {e} \in SUBSET DOMAIN E /\ {e} # {}
      OBVIOUS
    <3>2. \E o \in {e} : E[o].superseded_by \notin {e}
      BY <1>1, <3>1 DEF ChainsEnd
    <3> QED
      BY <3>2
  <2>3. E[e].lifecycle = "CURRENT" => EndpointsMatch(N, E[e])
    BY <1>1 DEF CurrentAreBound, CurrentEdges
  <2> QED
    BY <1>1, <2>1, <2>2, <2>3 DEF ValidEdge, Placed, ClosedEdges
<1>5. ValidGraph(N, E, registry)
  BY <1>1, <1>3, <1>4 DEF ValidGraph, Exclusive, AcyclicEdges
<1> QED
  BY <1>5 DEF N, E

\* So a restart finds the graph again, or there was none.
LEMMA RestartKeepsStructure ==
  ASSUME IInv, Recoverable, RegistryStandsBehind, Restart
  PROVE  /\ DOMAIN nodes = DOMAIN nodes'
         /\ DOMAIN edges = DOMAIN edges'
         /\ generation = generation'
         /\ UNCHANGED image
         /\ ~image.saved => DOMAIN nodes' = {} /\ DOMAIN edges' = {} /\ generation' = 0
<1>1. CASE RestartRecovered
  <2>1. /\ DOMAIN nodes' = DOMAIN image.nodes
        /\ DOMAIN edges' = DOMAIN image.edges
        /\ generation' = image.generation
        /\ image.saved
        /\ UNCHANGED image
    BY <1>1 DEF RestartRecovered, ImageIsSound, Demote
  <2>2. SameGraph(nodes, edges, image.nodes, image.edges) /\ generation = image.generation
    BY <2>1 DEF Recoverable, ImageInStep, GenerationsNameGraphs
  <2> QED
    BY <2>1, <2>2 DEF SameGraph
<1>2. CASE RestartFresh
  <2>1. ~image.saved
    BY <1>2, ImagesAreValid DEF RestartFresh, ImageIsSound
  <2>2. DOMAIN nodes' = {} /\ DOMAIN edges' = {} /\ generation' = 0 /\ UNCHANGED image
    BY <1>2 DEF RestartFresh, FreshEngine, EmptyMap
  <2> QED
    BY <2>1, <2>2 DEF Recoverable, ImageInStep
<1> QED
  BY <1>1, <1>2 DEF Restart

LEMMA StepsStayRecoverable ==
  ASSUME RebindingsAreDurable
  PROVE  IInv /\ Recoverable /\ RegistryStandsBehind /\ AttachmentIsExclusive'
           /\ [Next]_vars => Recoverable'
<1> SUFFICES ASSUME IInv, Recoverable, RegistryStandsBehind, AttachmentIsExclusive',
                    [Next]_vars
             PROVE  Recoverable'
  OBVIOUS
<1>1. PlacedInv' /\ GenerationsNameGraphs'
  BY StepsPlaced, StepsNameGraphs DEF Recoverable
<1>2. CurrentAreBound(nodes', edges')
  BY BindingsStayBound DEF Recoverable, BindingGoal
<1>3. CASE Written
  <2>1. /\ image'.saved
        /\ image'.nodes = nodes'
        /\ image'.edges = edges'
        /\ image'.generation = generation'
    BY <1>3 DEF Written, ImageOf
  <2>2. Exclusive(edges')
    BY DEF AttachmentIsExclusive, Exclusive
  <2> QED
    BY <1>1, <1>2, <2>1, <2>2 DEF Recoverable, ImageInStep
<1>4. CASE UNCHANGED image /\ UNCHANGED graph
  BY <1>1, <1>2, <1>4 DEF Recoverable, ImageInStep, graph
<1>5. CASE Restart
  BY <1>1, <1>2, <1>5, RestartKeepsStructure DEF Recoverable, ImageInStep
<1> QED
  BY <1>3, <1>4, <1>5, StepsWrite

LEMMA StartsRecoverable == Init => Recoverable
<1> SUFFICES ASSUME Init PROVE Recoverable
  OBVIOUS
<1>1. DOMAIN nodes = {} /\ DOMAIN edges = {} /\ generation = 0
  BY DEF Init, EmptyMap
<1>2. ~image.saved /\ DOMAIN image.edges = {}
  BY DEF Init, AbsentImage, ImageOf, EmptyMap
<1> QED
  BY <1>1, <1>2, StartsPlaced
     DEF Recoverable, ImageInStep, GenerationsNameGraphs, EmptyAtZero, CurrentAreBound,
         CurrentEdges, Exclusive

\* However mutations, failed writes, fences, saves and restarts follow one
\* another, a restart loses no node, no edge and no generation while the
\* registry stands behind every node and no exclusive attachment is held twice.
THEOREM StructureSurvives ==
  ASSUME RebindingsAreDurable
  PROVE  Spec /\ []RegistryStandsBehind /\ []AttachmentIsExclusive => StructureSurvivesRestart
<1>1. IInv /\ Recoverable /\ RegistryStandsBehind =>
        [Restart => /\ DOMAIN nodes = DOMAIN nodes'
                    /\ DOMAIN edges = DOMAIN edges'
                    /\ generation = generation']_vars
  BY RestartKeepsStructure
<1> QED
  BY <1>1, StartsRecoverable, StepsStayRecoverable, EngineIsSound, PTL
     DEF Spec, StructureSurvivesRestart

(***************************************************************************)
(* Where the second condition comes from.  The exclusivity check of        *)
(* validate_relationship_candidate is enough wherever it is made, and it   *)
(* is made of every edge that becomes current but a revalidated one, if    *)
(* the request asks for it.                                                *)
(***************************************************************************)

AttachmentsAskExclusivity ==
  \A req \in LinkRequests :
    req.relation = AttachedTo /\ req.attachment # NoAttachment => req.exclusive

NothingIsRevalidated == "CURRENT" \notin EvidenceLifecycles

ExclusivityIsKept ==
  Attachments = {} \/ (AttachmentsAskExclusivity /\ NothingIsRevalidated)

\* The attachment an edge holds now, and what an edge has to hold it by.
Holds(edge) ==
  edge.relation = AttachedTo /\ edge.lifecycle = "CURRENT" /\ edge.attachment # NoAttachment

\* Edges that hold what they held, or nothing.
LEMMA FewerHoldersExclusive ==
  ASSUME NEW E, NEW F, Exclusive(E),
         \A e \in DOMAIN F :
           Holds(F[e]) => e \in DOMAIN E /\ Holds(E[e]) /\ F[e].attachment = E[e].attachment
  PROVE  Exclusive(F)
BY DEF Exclusive, SharedAttachment, Holds

LEMMA DemoteExclusive ==
  ASSUME NEW E, IsEdgeMap(E), Exclusive(E), NEW D
  PROVE  Exclusive(Demote(E, D))
<1> DEFINE F == Demote(E, D)
<1>1. \A e \in DOMAIN F :
        Holds(F[e]) => e \in DOMAIN E /\ Holds(E[e]) /\ F[e].attachment = E[e].attachment
  BY DEF Demote, Holds, IsEdgeMap, EdgeRecords
<1> HIDE DEF F
<1>2. Exclusive(F)
  BY <1>1, FewerHoldersExclusive
<1> QED
  BY <1>2 DEF F

LEMMA RebindExclusive ==
  ASSUME NEW E, IsEdgeMap(E), Exclusive(E), NEW n, NEW g
  PROVE  Exclusive(RebindIncident(E, n, g))
<1> DEFINE F == RebindIncident(E, n, g)
<1>1. \A e \in DOMAIN F :
        Holds(F[e]) => e \in DOMAIN E /\ Holds(E[e]) /\ F[e].attachment = E[e].attachment
  BY DEF RebindIncident, Holds, IsEdgeMap, EdgeRecords
<1> HIDE DEF F
<1>2. Exclusive(F)
  BY <1>1, FewerHoldersExclusive
<1> QED
  BY <1>2 DEF F

LEMMA WithoutExclusive ==
  ASSUME NEW E, Exclusive(E), NEW K
  PROVE  Exclusive(Without(E, K))
BY FewerHoldersExclusive DEF Without

\* An edge that holds nothing, or that the exclusivity check let pass.
LEMMA PutExclusive ==
  ASSUME NEW E, Exclusive(E), NEW e, NEW edge,
         Holds(edge) => ~AttachmentConflict(E, e, edge.from, edge.to, edge.attachment)
  PROVE  Exclusive(Put(E, e, edge))
<1> DEFINE F == Put(E, e, edge)
<1>1. DOMAIN F = DOMAIN E \cup {e} /\ F[e] = edge /\ \A o \in DOMAIN E \ {e} : F[o] = E[o]
  BY DEF Put
<1> HIDE DEF F
<1>2. ASSUME NEW o \in DOMAIN E \ {e}, Holds(edge), Holds(E[o]), E[o].attachment = edge.attachment
      PROVE  FALSE
  BY <1>2 DEF AttachmentConflict, Holds
<1>3. Exclusive(F)
  BY <1>1, <1>2 DEF Exclusive, SharedAttachment, Holds
<1> QED
  BY <1>3 DEF F

LEMMA FinalizeExclusive ==
  ASSUME Exclusive(edges), NEW N, NEW E, NEW undone, Exclusive(E),
         FinalizeMutation(N, E, undone)
  PROVE  Exclusive(edges')
BY DEF FinalizeMutation

LEMMA NodeStepsExclusive ==
  ASSUME IInv, Exclusive(edges), NEW ctx, MutateNodes(ctx)
  PROVE  Exclusive(edges')
<1>1. IsEdgeMap(edges)
  BY DEF IInv, SoundGraph, SoundEdges
<1>2. ASSUME NEW req, AddNode(ctx, req)
      PROVE  Exclusive(edges')
  <2>1. PICK N, E : /\ FinalizeMutation(N, E, nodes)
                    /\ E = edges \/ \E g : E = RebindIncident(edges, req.node_id, g)
    BY <1>2 DEF AddNode
  <2> QED
    BY <1>1, <2>1, RebindExclusive, FinalizeExclusive
<1>3. ASSUME NEW n, NEW cascade, RemoveNode(ctx, n, cascade)
      PROVE  Exclusive(edges')
  BY <1>3, WithoutExclusive, FinalizeExclusive DEF RemoveNode
<1>4. ASSUME NEW n, NEW updated, ReplaceBinding(n, updated)
      PROVE  Exclusive(edges')
  BY <1>1, <1>4, RebindExclusive, FinalizeExclusive DEF ReplaceBinding
<1> QED
  BY <1>2, <1>3, <1>4 DEF MutateNodes, ReplaceEntityGeneration, RebindIdentity

LEMMA EdgeStepsExclusive ==
  ASSUME AttachmentsAskExclusivity, NothingIsRevalidated, IInv, Exclusive(edges),
         NEW ctx, MutateEdges(ctx)
  PROVE  Exclusive(edges')
<1>1. \A e \in DOMAIN edges : edges[e] \in EdgeRecords
  BY DEF IInv, SoundGraph, SoundEdges, IsEdgeMap
<1>2. ASSUME NEW e, NEW edge, FinalizeMutation(nodes, Put(edges, e, edge), nodes),
             Holds(edge) => ~AttachmentConflict(edges, e, edge.from, edge.to, edge.attachment)
      PROVE  Exclusive(edges')
  BY <1>2, PutExclusive, FinalizeExclusive
<1>3. ASSUME NEW req \in LinkRequests, AddRelationship(ctx, req)
      PROVE  Exclusive(edges')
  <2> DEFINE new == NewEdge(ctx, req)
             again == ReassertedEdge(edges[req.id], req)
  <2>1. PICK edge : /\ FinalizeMutation(nodes, Put(edges, req.id, edge), nodes)
                    /\ edge = new \/ (req.id \in DOMAIN edges /\ edge = again)
    BY <1>3 DEF AddRelationship
  <2>2. /\ req.id \in DOMAIN edges => SameKey(edges[req.id], req)
        /\ req.exclusive /\ req.attachment # NoAttachment =>
             ~AttachmentConflict(edges, req.id, req.from, req.to, req.attachment)
    BY <1>3 DEF AddRelationship, ValidCandidate
  <2>3. /\ new.relation = req.relation
        /\ new.from = req.from /\ new.to = req.to
        /\ new.attachment = req.attachment
    BY DEF NewEdge
  <2>4. req.id \in DOMAIN edges =>
          /\ again.relation = req.relation
          /\ again.from = req.from /\ again.to = req.to
          /\ again.attachment = req.attachment
    BY <1>1, <2>2 DEF ReassertedEdge, EdgeRecords, SameKey
  <2> HIDE DEF new, again
  <2> QED
    BY <1>2, <2>1, <2>2, <2>3, <2>4 DEF Holds, AttachmentsAskExclusivity
<1>4. ASSUME NEW e, NEW evidence, NEW lifecycle \in EvidenceLifecycles,
             ChangeEvidence(ctx, e, evidence, lifecycle)
      PROVE  Exclusive(edges')
  <2> DEFINE changed == [edges[e] EXCEPT
                           !.evidence_generation = evidence,
                           !.lifecycle = lifecycle,
                           !.provenance = IF lifecycle = "CURRENT" THEN ctx ELSE @]
  <2>1. FinalizeMutation(nodes, Put(edges, e, changed), nodes) /\ e \in DOMAIN edges
    BY <1>4 DEF ChangeEvidence
  <2>2. changed.lifecycle # "CURRENT"
    BY <1>1, <2>1 DEF EdgeRecords, NothingIsRevalidated
  <2> HIDE DEF changed
  <2> QED
    BY <1>2, <2>1, <2>2 DEF Holds
<1>5. ASSUME NEW e, NEW replacement, SupersedeRelationship(ctx, e, replacement)
      PROVE  Exclusive(edges')
  <2> DEFINE ended == [edges[e] EXCEPT !.lifecycle = "SUPERSEDED", !.superseded_by = replacement]
  <2>1. FinalizeMutation(nodes, Put(edges, e, ended), nodes) /\ e \in DOMAIN edges
    BY <1>5 DEF SupersedeRelationship
  <2>2. ended.lifecycle # "CURRENT"
    BY <1>1, <2>1 DEF EdgeRecords
  <2> HIDE DEF ended
  <2> QED
    BY <1>2, <2>1, <2>2 DEF Holds
<1>6. ASSUME NEW e, RetireRelationship(ctx, e)
      PROVE  Exclusive(edges')
  <2> DEFINE ended == [edges[e] EXCEPT !.lifecycle = "RETIRED"]
  <2>1. FinalizeMutation(nodes, Put(edges, e, ended), nodes) /\ e \in DOMAIN edges
    BY <1>6 DEF RetireRelationship
  <2>2. ended.lifecycle # "CURRENT"
    BY <1>1, <2>1 DEF EdgeRecords
  <2> HIDE DEF ended
  <2> QED
    BY <1>2, <2>1, <2>2 DEF Holds
<1> QED
  BY <1>3, <1>4, <1>5, <1>6 DEF MutateEdges

LEMMA RestartExclusive ==
  ASSUME IInv, Restart
  PROVE  Exclusive(edges')
<1>1. CASE RestartRecovered
  <2>1. \A e \in DOMAIN image.edges : image.edges[e] \in EdgeRecords
    BY DEF IInv, SoundGraph, SoundEdges, IsEdgeMap
  <2>2. \A e \in DOMAIN edges' : edges'[e].lifecycle # "CURRENT"
    BY <1>1, <2>1 DEF RestartRecovered, Demote, IsLive, Terminal, EdgeRecords
  <2> QED
    BY <2>2 DEF Exclusive, SharedAttachment
<1>2. CASE RestartFresh
  BY <1>2 DEF RestartFresh, FreshEngine, EmptyMap, Exclusive
<1> QED
  BY <1>1, <1>2 DEF Restart

LEMMA StepsExclusive ==
  ASSUME AttachmentsAskExclusivity, NothingIsRevalidated
  PROVE  IInv /\ Exclusive(edges) /\ [Next]_vars => Exclusive(edges)'
<1> SUFFICES ASSUME IInv, Exclusive(edges), [Next]_vars PROVE Exclusive(edges')
  OBVIOUS
<1>1. ASSUME NEW D, NEW fenced, NEW epoch, DemoteAndPersist(D, fenced, epoch)
      PROVE  Exclusive(edges')
  BY <1>1, DemoteExclusive DEF DemoteAndPersist, IInv, SoundGraph, SoundEdges
<1>2. ASSUME Administer
      PROVE  Exclusive(edges')
  BY <1>1, <1>2
     DEF Administer, RegisterPublisher, FencePublisher, FenceBoot, AdvanceCoordinatorEpoch, graph
<1> QED
  BY <1>2, NodeStepsExclusive, EdgeStepsExclusive, RestartExclusive
     DEF Next, Save, RegistryMoves, graph, vars

\* Nothing but a revalidation, or a request that does not ask for exclusivity,
\* makes two edges current under one exclusive attachment id.
THEOREM AttachmentsStayExclusive ==
  ASSUME ExclusivityIsKept
  PROVE  Spec => []AttachmentIsExclusive
<1>1. CASE Attachments = {}
  <2>1. IInv => AttachmentIsExclusive
    BY <1>1
       DEF IInv, SoundGraph, SoundEdges, IsEdgeMap, EdgeRecords, AttachmentIsExclusive,
           SharedAttachment
  <2> QED
    BY <2>1, EngineIsSound, PTL
<1>2. CASE AttachmentsAskExclusivity /\ NothingIsRevalidated
  <2>1. Init => Exclusive(edges)
    BY DEF Init, EmptyMap, Exclusive
  <2>2. IInv /\ Exclusive(edges) /\ [Next]_vars => Exclusive(edges)'
    BY <1>2, StepsExclusive
  <2>3. Exclusive(edges) => AttachmentIsExclusive
    BY DEF Exclusive, AttachmentIsExclusive
  <2> QED
    BY <2>1, <2>2, <2>3, EngineIsSound, PTL DEF Spec
<1> QED
  BY <1>1, <1>2 DEF ExclusivityIsKept

(***************************************************************************)
(* And the first one.  Where no record of the registry changes and no      *)
(* caller names a generation of its own, what add_node and a rebinding     *)
(* copy from the registry stays what it says.                              *)
(***************************************************************************)

RegistryRests == MovingEntities = {} /\ Replacements = {}

UpToDate(N) ==
  \A n \in DOMAIN N : IsCurrentRecord(registry, N[n].entity_id, N[n].entity_generation)

LEMMA PutUpToDate ==
  ASSUME NEW N, UpToDate(N), NEW n, NEW node,
         IsCurrentRecord(registry, node.entity_id, node.entity_generation)
  PROVE  UpToDate(Put(N, n, node))
BY DEF UpToDate, Put

LEMMA FinalizeUpToDate ==
  ASSUME NEW N, NEW E, NEW undone, UpToDate(N), UpToDate(undone),
         FinalizeMutation(N, E, undone)
  PROVE  UpToDate(nodes')
BY DEF FinalizeMutation

LEMMA NodeStepsUpToDate ==
  ASSUME RegistryRests, IInv, UpToDate(nodes), NEW ctx, MutateNodes(ctx)
  PROVE  UpToDate(nodes')
<1>1. \A n \in DOMAIN nodes : nodes[n] \in NodeRecords
  BY DEF IInv, SoundGraph, SoundNodes, IsNodeMap
<1>2. ASSUME NEW x, IsLiveEntity(x)
      PROVE  IsCurrentRecord(registry, x, registry[x].generation)
  BY <1>2 DEF IsLiveEntity, IsCurrentRecord
<1>3. ASSUME NEW req, AddNode(ctx, req)
      PROVE  UpToDate(nodes')
  <2> DEFINE n == req.node_id
             record == registry[req.entity_id]
             node == [entity_id |-> req.entity_id, entity_generation |-> record.generation,
                      node_class |-> req.node_class, tier |-> req.tier, domain |-> req.domain,
                      lifecycle |-> "CURRENT"]
             refreshed == [nodes[n] EXCEPT !.entity_generation = record.generation,
                                           !.tier = req.tier, !.lifecycle = "CURRENT"]
  <2>1. PICK E, put : /\ FinalizeMutation(Put(nodes, n, put), E, nodes)
                      /\ \/ put = node
                         \/ /\ n \in DOMAIN nodes
                            /\ nodes[n].entity_id = req.entity_id
                            /\ put = refreshed
    BY <1>3 DEF AddNode
  <2>2. IsCurrentRecord(registry, req.entity_id, record.generation)
    BY <1>2, <1>3 DEF AddNode
  <2>3. node.entity_id = req.entity_id /\ node.entity_generation = record.generation
    OBVIOUS
  <2>4. ASSUME n \in DOMAIN nodes, nodes[n].entity_id = req.entity_id
        PROVE  /\ refreshed.entity_id = req.entity_id
               /\ refreshed.entity_generation = record.generation
    <3>1. nodes[n] \in NodeRecords
      BY <1>1, <2>4
    <3> HIDE DEF record
    <3> QED
      BY <2>4, <3>1 DEF NodeRecords
  <2> HIDE DEF n, record, node, refreshed
  <2> QED
    BY <2>1, <2>2, <2>3, <2>4, PutUpToDate, FinalizeUpToDate
<1>4. ASSUME NEW n, NEW cascade, RemoveNode(ctx, n, cascade)
      PROVE  UpToDate(nodes')
  <2>1. UpToDate(Without(nodes, {n}))
    BY DEF UpToDate, Without
  <2> QED
    BY <1>4, <2>1, FinalizeUpToDate DEF RemoveNode
<1>5. ASSUME NEW n, NEW successor, RebindIdentity(ctx, n, successor)
      PROVE  UpToDate(nodes')
  <2> DEFINE updated == [nodes[n] EXCEPT !.entity_id = successor,
                                         !.entity_generation = registry[successor].generation]
             rebound == RebindIncident(edges, n, updated.entity_generation)
             renewed == Put(nodes, n, updated)
  <2>1. /\ n \in DOMAIN nodes
        /\ IsLiveEntity(successor)
        /\ FinalizeMutation(renewed, rebound, renewed)
    BY <1>5 DEF RebindIdentity, ReplaceBinding
  <2>2. /\ updated.entity_id = successor
        /\ updated.entity_generation = registry[successor].generation
    BY <1>1, <2>1 DEF NodeRecords
  <2> HIDE DEF updated, rebound
  <2>3. UpToDate(renewed)
    BY <1>2, <2>1, <2>2, PutUpToDate
  <2> HIDE DEF renewed
  <2> QED
    BY <2>1, <2>3, FinalizeUpToDate
<1> QED
  BY <1>3, <1>4, <1>5 DEF MutateNodes, RegistryRests

LEMMA RegistryStaysPut ==
  ASSUME RegistryRests, [Next]_vars
  PROVE  UNCHANGED registry
<1>1. ~DirectoryNext
  BY DEF RegistryRests, DirectoryNext, DirectoryAdd, DirectoryRetire, DirectorySupersede,
         DirectoryBump
<1> QED
  BY <1>1
     DEF Next, MutateNodes, AddNode, RemoveNode, ReplaceEntityGeneration, RebindIdentity,
         MutateEdges, AddRelationship, ChangeEvidence, SupersedeRelationship, RetireRelationship,
         Administer, RegisterPublisher, FencePublisher, FenceBoot, AdvanceCoordinatorEpoch,
         DemoteAndPersist, Save, Restart, RestartRecovered, RestartFresh, RegistryMoves, vars

LEMMA StepsUpToDate ==
  ASSUME RegistryRests
  PROVE  IInv /\ PlacedInv /\ UpToDate(nodes) /\ [Next]_vars => UpToDate(nodes)'
<1> SUFFICES ASSUME IInv, PlacedInv, UpToDate(nodes), [Next]_vars PROVE UpToDate(nodes)'
  OBVIOUS
<1>1. UNCHANGED registry
  BY RegistryStaysPut
<1>2. ASSUME RestartRecovered
      PROVE  UpToDate(nodes')
  <2>1. nodes' = image.nodes
    BY <1>2, RecoveryDemotesNoNode DEF PlacedInv, IInv, SoundGraph, SoundNodes
  <2>2. ASSUME NEW n \in DOMAIN image.nodes
        PROVE  IsCurrentRecord(registry, image.nodes[n].entity_id,
                               image.nodes[n].entity_generation)
    BY <1>2, <2>2
       DEF PlacedInv, Placed, RestartRecovered, ImageIsSound, ValidGraph, ValidNode,
           IsCurrentRecord
  <2> QED
    BY <2>1, <2>2 DEF UpToDate
<1>3. ASSUME RestartFresh
      PROVE  UpToDate(nodes')
  BY <1>3 DEF RestartFresh, FreshEngine, EmptyMap, UpToDate
<1>4. ASSUME UNCHANGED nodes
      PROVE  UpToDate(nodes')
  BY <1>4 DEF UpToDate
<1>5. ASSUME NEW ctx, MutateEdges(ctx)
      PROVE  UNCHANGED nodes
  BY <1>5 DEF MutateEdges, AddRelationship, ChangeEvidence, SupersedeRelationship,
              RetireRelationship, FinalizeMutation
<1>6. ASSUME Administer \/ Save \/ RegistryMoves \/ UNCHANGED vars
      PROVE  UNCHANGED nodes
  BY <1>6 DEF Administer, RegisterPublisher, FencePublisher, FenceBoot, AdvanceCoordinatorEpoch,
              DemoteAndPersist, Save, RegistryMoves, graph, vars
<1>7. UpToDate(nodes')
  BY <1>2, <1>3, <1>4, <1>5, <1>6, NodeStepsUpToDate DEF Next, Restart
<1> QED
  BY <1>1, <1>7 DEF UpToDate

\* Then every restart keeps the structure: all that can make a coordinator lose
\* it is a registry that moved on while it was down, an attachment held twice,
\* or a rebinding whose write failed.
THEOREM RestartsKeepStructure ==
  ASSUME RebindingsAreDurable, RegistryRests, ExclusivityIsKept
  PROVE  Spec => StructureSurvivesRestart
<1>1. Init => UpToDate(nodes)
  BY DEF Init, EmptyMap, UpToDate
<1>2. IInv /\ PlacedInv /\ UpToDate(nodes) /\ [Next]_vars => UpToDate(nodes)'
  BY StepsUpToDate
<1>3. UpToDate(nodes) => RegistryStandsBehind
  BY DEF UpToDate, RegistryStandsBehind, IsUpToDate
<1> QED
  BY <1>1, <1>2, <1>3, StartsPlaced, StepsPlaced, EngineIsSound, AttachmentsStayExclusive,
     StructureSurvives, PTL DEF Spec

=============================================================================
