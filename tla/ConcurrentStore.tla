--------------------------- MODULE ConcurrentStore ---------------------------
(***************************************************************************)
(* The topology store under concurrent callers: mutations that edit graph  *)
(* and indexes one element at a time under the exclusive state_mutex and   *)
(* undo themselves when the durable image cannot be written; readers that  *)
(* copy a snapshot under the shared lock and come back to record it; and a *)
(* detach that looks its edge up under one lock and retires it under       *)
(* another.                                                                *)
(*                                                                         *)
(* A shared_mutex is held exclusively exactly while a transaction is open  *)
(* and shared exactly while a reader is copying, so no lock is a variable  *)
(* of its own.  A section that touches state once is one step.  Mutations  *)
(* also hold authority_mutex throughout, which changes nothing here.       *)
(*                                                                         *)
(* replace_endpoint_generation is TopologyEngine's: its undo log does not  *)
(* restore the node, which would break this module's contract.             *)
(***************************************************************************)
EXTENDS GraphQueries

CONSTANTS
  NodeRequests, LinkRequests, Scopes, SnapshotHistory, WriteMayFail, StartGraphs,
  MaxGeneration, MaxEpoch, MaxSnapshots, \* as in AtomicStore
  Readers,           \* threads that take snapshots
  ScopeOf,           \* the scope each of them asks for
  MaxAttempts,       \* tries before a snapshot is built under the exclusive lock
  RemovedNodes,      \* nodes asked of remove_node
  RetiredEdges,      \* edges asked of retire_relationship
  DetachRequests     \* <<attachment, endpoint>> asked of detach_endpoint

ASSUME StoreConstants ==
  /\ NodeRequests \subseteq
       [id : NodeIds, entity_id : Entities, entity_generation : Nat,
        domain : Domains, tier : Tiers]
  /\ LinkRequests \subseteq
       [id : EdgeIds, relation : Relations, from : NodeIds, to : NodeIds,
        domain : Domains, attachment : Attachments \cup {NoAttachment},
        exclusive : BOOLEAN, evidence_generation : Nat,
        publisher : Publishers, worker_boot : Boots]
  /\ Scopes \subseteq {WholeTopology} \cup {DomainScope(d) : d \in Domains}
  /\ WriteMayFail \in BOOLEAN
  /\ {SnapshotHistory, MaxGeneration, MaxSnapshots} \subseteq Nat
  /\ MaxEpoch \in Nat \ {0}

ASSUME CallerConstants ==
  /\ MaxAttempts \in Nat \ {0}
  /\ ScopeOf \in [Readers -> Scopes]
  /\ RemovedNodes \subseteq NodeIds
  /\ RetiredEdges \subseteq EdgeIds
  /\ DetachRequests \subseteq Attachments \X NodeIds

\* What every durable image holds: typed records, one node for an entity and one
\* edge for a relationship, edges between nodes that are there.
ASSUME LoadedGraphs ==
  \A G \in StartGraphs :
    /\ IsFiniteSet(DOMAIN G.nodes) /\ DOMAIN G.nodes \subseteq NodeIds
    /\ IsFiniteSet(DOMAIN G.edges) /\ DOMAIN G.edges \subseteq EdgeIds
    /\ G.nodes \in [DOMAIN G.nodes -> StoredNodes]
    /\ G.edges \in [DOMAIN G.edges -> StoredEdges]
    /\ G.generation \in 0..MaxGeneration
    /\ \A n, m \in DOMAIN G.nodes : G.nodes[n].entity_id = G.nodes[m].entity_id => n = m
    /\ \A e, f \in DOMAIN G.edges : SameKey(G.edges[e], G.edges[f]) => e = f
    /\ \A e \in DOMAIN G.edges :
         {G.edges[e].from, G.edges[e].to} \subseteq DOMAIN G.nodes

VARIABLES
  store,             \* Impl::graph, with its indexes
  coordinator_epoch, \* Impl::coordinator_epoch
  txn,               \* the StateTxn of the mutation that holds the lock
  snapshots,         \* Impl::snapshots
  snapshot_counter,  \* GraphState::snapshot_counter
  readers,           \* each reader's snapshot() call
  detach             \* the detach_endpoint call

vars == <<store, coordinator_epoch, txn, snapshots, snapshot_counter, readers, detach>>

\* The graph callers see while a transaction is open is the one it began with.
Visible ==
  [nodes |-> store.nodes, edges |-> store.edges, generation |-> store.generation,
   coordinator_epoch |-> coordinator_epoch]

Seen == IF txn.stage = "none" THEN Visible ELSE txn.before

\* The contract: AtomicStore over what callers can see.
Atomic == INSTANCE AtomicStore WITH
  nodes <- Seen.nodes, edges <- Seen.edges, generation <- Seen.generation,
  coordinator_epoch <- Seen.coordinator_epoch

NoTxn == [stage |-> "none"]

Idle == [pc |-> "idle"]

Init ==
  /\ \E G \in StartGraphs :
       store = [nodes |-> G.nodes, edges |-> G.edges, generation |-> G.generation,
                index |-> RebuildIndexes(G.nodes, G.edges)]
  /\ coordinator_epoch = 1
  /\ txn = NoTxn
  /\ snapshots = <<>>
  /\ snapshot_counter = 0
  /\ readers = [r \in Readers |-> Idle]
  /\ detach = Idle

-----------------------------------------------------------------------------
\* Locks.

SharedLockFree == txn.stage = "none"

ExclusiveLockFree == SharedLockFree /\ \A r \in Readers : readers[r].pc # "copying"

-----------------------------------------------------------------------------
\* The edits a mutation is going to make, found through the indexes: one for
\* each edge of a map from edges to what they become.

Edits(kind, values) ==
  LET order == InOrder(DOMAIN values)
  IN  [i \in 1..Len(order) |-> Change(kind, order[i], values[order[i]])]

Erased(ids) == [e \in ids |-> NoEdge]

\* A removal that walks the outgoing edges only.
RemoveOutgoingPlan(n) ==
  IF n \notin DOMAIN store.nodes THEN <<>>
  ELSE Edits("EraseEdge", Erased(Bucket(store.index.outgoing, n)))
       \o <<Change("EraseNode", n, NoEdge)>>

\* add_node: the node is inserted, or refreshed and, if its entity generation
\* changed, its live edges fenced (fence_edges_for_node_change).
AddNodePlan(req) ==
  LET n == req.id
      node == store.nodes[n]
      bound(edge) == IF edge.from = n THEN edge.from_entity_generation
                     ELSE edge.to_entity_generation
      affected == {e \in Bucket(store.index.incident, n) :
                     /\ node.entity_generation # req.entity_generation
                     /\ IsLive(store.edges[e])
                     /\ \/ bound(store.edges[e]) # req.entity_generation
                        \/ store.edges[e].lifecycle # "REVALIDATION_REQUIRED"}
  IN  IF n \in DOMAIN store.nodes
      THEN IF Atomic!MayRefresh(node, req)
           THEN <<Change("UpdateNode", n, Atomic!RefreshedNode(node, req))>>
                \o Edits("UpdateEdge",
                         [e \in affected |->
                            Atomic!ReboundEdge(store.edges[e], n, req.entity_generation)])
           ELSE <<>>
      ELSE IF req.entity_id \in DOMAIN store.index.byEntity THEN <<>>
           ELSE <<Change("InsertNode", n, Atomic!NewNode(req))>>

\* remove_node with cascade_relationships: incident edges first.
RemoveNodePlan(n) ==
  IF n \notin DOMAIN store.nodes THEN <<>>
  ELSE Edits("EraseEdge", Erased(Bucket(store.index.incident, n)))
       \o <<Change("EraseNode", n, NoEdge)>>

\* add_relationship: the edge that holds the key, if any, must be the one
\* asked for; it is asserted again, or the edge is new.
AddRelationshipPlan(req) ==
  LET key == KeyOf(req)
      isNew == key \notin DOMAIN store.index.byKey
      N == store.nodes
  IN  IF /\ Atomic!Linkable(N, req)
         /\ ~isNew => store.index.byKey[key] = req.id
         /\ req.id \in DOMAIN store.edges => KeyOf(store.edges[req.id]) = key
         /\ ~isNew => Atomic!MayReassert(N, store.edges[req.id], req)
         /\ ValidCandidate(N, store.edges, req, isNew)
      THEN IF isNew
           THEN <<Change("InsertEdge", req.id, Atomic!NewEdge(N, req, coordinator_epoch))>>
           ELSE <<Change("UpdateEdge", req.id,
                         Atomic!ReassertedEdge(N, store.edges[req.id], req))>>
      ELSE <<>>

RetireAnywayPlan(e, expected) ==
  IF e \in DOMAIN store.edges /\ IsNotRetired(store.edges[e])
  THEN <<Change("UpdateEdge", e, Atomic!RetiredEdge(store.edges[e]))>>
  ELSE <<>>

\* retire_relationship; an expected generation of zero expects nothing.
RetirePlan(e, expected) ==
  IF /\ e \in DOMAIN store.edges
     /\ expected # 0 => expected = store.generation
     /\ IsNotRetired(store.edges[e])
  THEN <<Change("UpdateEdge", e, Atomic!RetiredEdge(store.edges[e]))>>
  ELSE <<>>

\* The loop of fence_publisher and advance_coordinator_epoch over the edges D.
DemotePlan(D) ==
  LET current == {e \in D : store.edges[e].lifecycle = "CURRENT"}
  IN  Edits("UpdateEdge", [e \in current |-> Atomic!DemotedEdge(store.edges[e])])

-----------------------------------------------------------------------------
\* A mutation: the exclusive lock, the edits, the generation, the write.

\* A request that leaves nothing to edit is rejected or idempotent: no step.
\* MaxGeneration bounds the model; the code's own limit is out of reach.
Begin(plan) ==
  /\ ExclusiveLockFree
  /\ store.generation < MaxGeneration
  /\ plan # <<>>
  /\ txn' = [stage |-> "editing", plan |-> plan, log |-> <<>>, before |-> Visible]

AddNode(req) ==
  /\ Begin(AddNodePlan(req))
  /\ UNCHANGED <<store, coordinator_epoch, snapshots, snapshot_counter, readers, detach>>

RemoveNode(n) ==
  /\ Begin(RemoveNodePlan(n))
  /\ UNCHANGED <<store, coordinator_epoch, snapshots, snapshot_counter, readers, detach>>

AddRelationship(req) ==
  /\ Begin(AddRelationshipPlan(req))
  /\ UNCHANGED <<store, coordinator_epoch, snapshots, snapshot_counter, readers, detach>>

RetireRelationship(e) ==
  /\ Begin(RetirePlan(e, 0))
  /\ UNCHANGED <<store, coordinator_epoch, snapshots, snapshot_counter, readers, detach>>

FencePublisher(p) ==
  /\ Begin(DemotePlan(Bucket(store.index.byPublisher, p)))
  /\ UNCHANGED <<store, coordinator_epoch, snapshots, snapshot_counter, readers, detach>>

\* The epoch advances before the edges are looked at and is never undone.
AdvanceCoordinatorEpoch ==
  /\ coordinator_epoch < MaxEpoch
  /\ coordinator_epoch' = coordinator_epoch + 1
  /\ \/ Begin(DemotePlan(DOMAIN store.edges))
     \/ ExclusiveLockFree /\ DemotePlan(DOMAIN store.edges) = <<>> /\ UNCHANGED txn
  /\ UNCHANGED <<store, snapshots, snapshot_counter, readers, detach>>

Advance == Change("SetGeneration", NoEdge, store.generation + 1)

\* One edit, noted in the log before it is made.
MakeEdit ==
  /\ txn.stage = "editing"
  /\ txn.plan # <<>>
  /\ txn' = [txn EXCEPT !.plan = Tail(@), !.log = Append(@, UndoOf(store, Head(txn.plan)))]
  /\ store' = Edit(store, Head(txn.plan))
  /\ UNCHANGED <<coordinator_epoch, snapshots, snapshot_counter, readers, detach>>

CommitInPlace ==
  /\ txn.stage = "editing"
  /\ txn.plan = <<>>
  /\ txn' = NoTxn
  /\ UNCHANGED <<store, coordinator_epoch, snapshots, snapshot_counter, readers, detach>>

\* finalize_mutation: the next generation is written with the graph, the
\* transaction commits and the lock is released.
CommitMutation ==
  /\ txn.stage = "editing"
  /\ txn.plan = <<>>
  /\ store' = Edit(store, Advance)
  /\ txn' = NoTxn
  /\ UNCHANGED <<coordinator_epoch, snapshots, snapshot_counter, readers, detach>>

\* persist_locked fails after the generation was noted and advanced.
FailWrite ==
  /\ txn.stage = "editing"
  /\ txn.plan = <<>>
  /\ WriteMayFail
  /\ store' = Edit(store, Advance)
  /\ txn' = [txn EXCEPT !.stage = "undoing", !.log = Append(@, UndoOf(store, Advance))]
  /\ UNCHANGED <<coordinator_epoch, snapshots, snapshot_counter, readers, detach>>

\* StateTxn::rollback, newest entry first; after the last the lock is released.
UndoEdit ==
  /\ txn.stage = "undoing"
  /\ store' = Edit(store, Last(txn.log))
  /\ txn' = IF Len(txn.log) = 1 THEN NoTxn ELSE [txn EXCEPT !.log = Front(@)]
  /\ UNCHANGED <<coordinator_epoch, snapshots, snapshot_counter, readers, detach>>

-----------------------------------------------------------------------------
\* snapshot()

\* Under the shared lock: generation, epoch and nodes, then the edges.
CopyNodes(r, attempt) ==
  /\ SharedLockFree
  /\ readers' = [readers EXCEPT ![r] =
       [pc |-> "copying", attempt |-> attempt,
        topology_generation |-> store.generation, coordinator_epoch |-> coordinator_epoch,
        nodes |-> NodesInScope(store.nodes, ScopeOf[r])]]

StartSnapshot(r) ==
  /\ readers[r].pc = "idle"
  /\ snapshot_counter < MaxSnapshots
  /\ CopyNodes(r, 1)
  /\ UNCHANGED <<store, coordinator_epoch, txn, snapshots, snapshot_counter, detach>>

CopyEdges(r) ==
  /\ readers[r].pc = "copying"
  /\ readers' = [readers EXCEPT ![r] =
       [pc |-> "copied", attempt |-> @.attempt,
        topology_generation |-> @.topology_generation,
        coordinator_epoch |-> @.coordinator_epoch, nodes |-> @.nodes,
        edges |-> EdgesInScope(store.edges, ScopeOf[r])]]
  /\ UNCHANGED <<store, coordinator_epoch, txn, snapshots, snapshot_counter, detach>>

SameGeneration(copy) == copy.topology_generation = store.generation

\* Nothing has changed since the copy was made.
IsStillCurrent(copy) ==
  /\ copy.topology_generation = store.generation
  /\ copy.coordinator_epoch = coordinator_epoch

RecordUntrimmed(r, snapshot) ==
  /\ snapshot_counter < MaxSnapshots
  /\ snapshot_counter' = snapshot_counter + 1
  /\ snapshots' = Append(snapshots, snapshot)
  /\ readers' = [readers EXCEPT ![r] = Idle]
  /\ UNCHANGED <<store, coordinator_epoch, txn, detach>>

\* The ordinal is allocated and the snapshot joins the history.
Record(r, snapshot) ==
  /\ snapshot_counter < MaxSnapshots
  /\ snapshot_counter' = snapshot_counter + 1
  /\ snapshots' = Atomic!Remembered(snapshots, snapshot)
  /\ readers' = [readers EXCEPT ![r] = Idle]
  /\ UNCHANGED <<store, coordinator_epoch, txn, detach>>

RecordSnapshot(r) ==
  LET copy == readers[r]
  IN  /\ copy.pc = "copied"
      /\ ExclusiveLockFree
      /\ IsStillCurrent(copy)
      /\ Record(r, [snapshot_generation |-> snapshot_counter + 1,
                    topology_generation |-> copy.topology_generation,
                    coordinator_epoch |-> copy.coordinator_epoch, scope |-> ScopeOf[r],
                    nodes |-> copy.nodes, edges |-> copy.edges])

\* A mutation landed in between: the copy is thrown away.
DiscardCopy(r) ==
  /\ readers[r].pc = "copied"
  /\ ExclusiveLockFree
  /\ ~IsStillCurrent(readers[r])
  /\ readers' = [readers EXCEPT ![r] = [pc |-> "retrying", attempt |-> @.attempt + 1]]
  /\ UNCHANGED <<store, coordinator_epoch, txn, snapshots, snapshot_counter, detach>>

RetrySnapshot(r) ==
  /\ readers[r].pc = "retrying"
  /\ readers[r].attempt <= MaxAttempts
  /\ CopyNodes(r, readers[r].attempt)
  /\ UNCHANGED <<store, coordinator_epoch, txn, snapshots, snapshot_counter, detach>>

\* After too many tries: everything under the exclusive lock.
SnapshotSerialised(r) ==
  /\ readers[r].pc = "retrying"
  /\ readers[r].attempt > MaxAttempts
  /\ ExclusiveLockFree
  /\ Record(r, Atomic!SnapshotOf(store.nodes, store.edges, store.generation, coordinator_epoch,
                                 ScopeOf[r], snapshot_counter + 1))

\* check_snapshot.  The digest covers neither provenance nor evidence.
DigestOf(N, E) ==
  <<N, [e \in DOMAIN E |-> [E[e] EXCEPT !.provenance = NoEdge, !.evidence_generation = 0]]>>

CheckSnapshot(s) ==
  IF s.coordinator_epoch # coordinator_epoch THEN "DIFFERENT_COORDINATOR_EPOCH"
  ELSE IF DigestOf(s.nodes, s.edges) #
          DigestOf(NodesInScope(store.nodes, s.scope), EdgesInScope(store.edges, s.scope))
       THEN "DIGEST_MISMATCH"
  ELSE IF s.topology_generation < store.generation THEN "OLDER_GENERATION"
  ELSE IF s.topology_generation > store.generation THEN "NEWER_GENERATION"
  ELSE "CURRENT"

-----------------------------------------------------------------------------
\* detach_endpoint

HoldsAttachment(edge, attachment, endpoint) ==
  /\ edge.attachment = attachment
  /\ edge.from = endpoint
  /\ edge.lifecycle = "CURRENT"

\* Under the shared lock: a current edge of the attachment at the endpoint.
\* The caller expects the generation it sees now, or nothing.
FindAttachment(attachment, endpoint, expected) ==
  /\ detach.pc = "idle"
  /\ SharedLockFree
  /\ expected \in {0, store.generation}
  /\ \E e \in Bucket(store.index.byAttachment, attachment) :
       /\ HoldsAttachment(store.edges[e], attachment, endpoint)
       /\ detach' = [pc |-> "found", edge |-> e, attachment |-> attachment,
                     endpoint |-> endpoint, expected |-> expected]
  /\ UNCHANGED <<store, coordinator_epoch, txn, snapshots, snapshot_counter, readers>>

\* retire_relationship by the id that was found.
RetireFound ==
  /\ detach.pc = "found"
  /\ LET plan == RetirePlan(detach.edge, detach.expected)
     IN  \/ Begin(plan)
         \/ ExclusiveLockFree /\ plan = <<>> /\ UNCHANGED txn
  /\ detach' = Idle
  /\ UNCHANGED <<store, coordinator_epoch, snapshots, snapshot_counter, readers>>

-----------------------------------------------------------------------------

Mutation ==
  \/ \E req \in NodeRequests : AddNode(req)
  \/ \E n \in RemovedNodes : RemoveNode(n)
  \/ \E req \in LinkRequests : AddRelationship(req)
  \/ \E e \in RetiredEdges : RetireRelationship(e)
  \/ \E p \in Publishers : FencePublisher(p)
  \/ AdvanceCoordinatorEpoch

Transaction ==
  \/ MakeEdit
  \/ CommitMutation
  \/ FailWrite
  \/ UndoEdit

Snapshot(r) ==
  \/ StartSnapshot(r)
  \/ CopyEdges(r)
  \/ RecordSnapshot(r)
  \/ DiscardCopy(r)
  \/ RetrySnapshot(r)
  \/ SnapshotSerialised(r)

Detach ==
  \/ \E call \in DetachRequests, expected \in 0..MaxGeneration :
       FindAttachment(call[1], call[2], expected)
  \/ RetireFound

Next ==
  \/ Mutation
  \/ Transaction
  \/ \E r \in Readers : Snapshot(r)
  \/ Detach

Spec == Init /\ [][Next]_vars

-----------------------------------------------------------------------------
\* Properties.

\* The graph is well typed at every edit, and the history never outgrows
\* options.snapshot_history nor repeats or skips an ordinal.
StoreTypeOK ==
  /\ DOMAIN store.nodes \subseteq NodeIds
  /\ \A n \in DOMAIN store.nodes : store.nodes[n] \in StoredNodes
  /\ DOMAIN store.edges \subseteq EdgeIds
  /\ \A e \in DOMAIN store.edges : store.edges[e] \in StoredEdges
  /\ store.generation \in 0..MaxGeneration
  /\ coordinator_epoch \in 1..MaxEpoch
  /\ Len(snapshots) <= SnapshotHistory
  /\ \A i \in DOMAIN snapshots :
       snapshots[i].snapshot_generation = snapshot_counter - Len(snapshots) + i

\* The indexes kept edit by edit are those rebuild_indexes would make, in the
\* middle of a mutation and of a rollback too: verify_indexes never fails.
IndexesMatch == store.index = RebuildIndexes(store.nodes, store.edges)

\* A snapshot recorded later carries no older generation and no older epoch,
\* whatever the order in which snapshot() calls copied, were overtaken and came
\* back.
SnapshotsFollowGenerations ==
  [][snapshots # <<>> /\ snapshots' # snapshots =>
       /\ Last(snapshots).topology_generation <= Last(snapshots').topology_generation
       /\ Last(snapshots).coordinator_epoch <= Last(snapshots').coordinator_epoch]_vars

\* The three tests of check_snapshot agree: a snapshot that carries the epoch
\* and the generation of the graph is CURRENT by its digest too, and holds
\* what is in scope now, the evidence and provenance that the digest leaves out
\* included.  None is ahead of the graph, even after a rollback.
GenerationNamesSnapshot ==
  SharedLockFree =>
    \A i \in DOMAIN snapshots :
      LET s == snapshots[i]
      IN  /\ CheckSnapshot(s) # "NEWER_GENERATION"
          /\ /\ s.coordinator_epoch = coordinator_epoch
             /\ s.topology_generation = store.generation
             => /\ CheckSnapshot(s) = "CURRENT"
                /\ s.nodes = NodesInScope(store.nodes, s.scope)
                /\ s.edges = EdgesInScope(store.edges, s.scope)

\* detach_endpoint finds its edge under one lock and retires it under
\* another.  With the generation the caller saw, the edge it retires is still
\* a current edge of that attachment at that endpoint.
DetachSparesWhatChanged ==
  [][detach.pc = "found" /\ detach' # detach /\ txn' # txn /\ detach.expected # 0 =>
       HoldsAttachment(store.edges[detach.edge], detach.attachment, detach.endpoint)]_vars

\* Every operation takes effect at once or not at all, and every recorded
\* snapshot is of the graph at the moment it is recorded: the store, with its
\* locks, indexes, undo log and retries, implements AtomicStore.
ImplementsAtomicStore == Atomic!AtomicSpec

\* No call of any kind is under way and none has been recorded: every graph
\* the mutations can build is met in such a state.
AtRest ==
  /\ SharedLockFree
  /\ snapshot_counter = 0
  /\ detach = Idle
  /\ \A r \in Readers : readers[r] = Idle

Filters ==
  {AnyEdge, [AnyEdge EXCEPT !.include_non_current = FALSE]}
  \cup {[AnyEdge EXCEPT !.domains = {d}] : d \in Domains}
  \cup {[AnyEdge EXCEPT !.publishers = {p}] : p \in Publishers}

\* The edges of E that pass the filter f.
Passing(E, f) == {e \in DOMAIN E : MatchesFilter(E[e], f)}

\* The nodes at the other ends of the edges of n that pass the filter f.
NextTo(E, f, n) ==
  LET passing == Passing(E, f)
  IN  {m \in NodeIds \ {n} : \E e \in passing : {m, n} = {E[e].from, E[e].to}}

\* The nodes an edge of relation r joins to a node of the entity x.
MembersOf(N, E, x, r) ==
  LET anchors == NodesOfEntity(N, x)
  IN  {m \in NodeIds : \E n \in anchors, e \in DOMAIN E :
         m # n /\ E[e].relation = r /\ {m, n} = {E[e].from, E[e].to}}

\* The queries that read an index answer what a scan of the graph would:
\* edges_for_node, neighbors, edges_by_relation, edges_in_domain (an edge
\* between domains answers in both), edges_from_publisher, domain_members,
\* node_for_entity and entity_members.
QueriesAnswerFromTheGraph ==
  AtRest =>
    LET N == store.nodes
        E == store.edges
    IN  /\ \A f \in Filters :
             LET passing == Passing(E, f) IN
             /\ \A n \in NodeIds :
                  /\ EdgesForNode(store, n, f) = {e \in passing : n \in {E[e].from, E[e].to}}
                  /\ Neighbors(store, n, f) = NextTo(E, f, n)
             /\ \A r \in Relations :
                  EdgesByRelation(store, r, f) = {e \in passing : E[e].relation = r}
             /\ \A d \in Domains :
                  EdgesInDomain(store, d, f) = {e \in passing : d \in DomainsOf(E[e])}
             /\ \A p \in Publishers :
                  EdgesFromPublisher(store, p, f) =
                    Matching(store, Bucket(store.index.byPublisher, p), f)
        /\ \A d \in Domains : DomainMembers(store, d) = {n \in DOMAIN N : N[n].domain = d}
        /\ \A x \in Entities :
             /\ NodeForEntity(store, x) = NodesOfEntity(N, x)
             /\ \A r \in Relations : EntityMembers(store, x, r) = MembersOf(N, E, x, r)

TraversalRequests ==
  [kind : TraversalKinds, origin : DOMAIN store.nodes, relations : {Relations},
   max_depth : 1..Cardinality(DOMAIN store.nodes),
   max_visited : 1..Cardinality(DOMAIN store.nodes), include_non_current : BOOLEAN]

\* traverse finds each node within max_depth once, at its distance and by an
\* edge from a node one step nearer.  Cut short at max_visited it returns the
\* nearest nodes, and says so only if it left one out.
TraversalIsBreadthFirst ==
  AtRest => \A request \in TraversalRequests : IsBreadthFirst(store, request)

\* What diff tells of a node: not its tier, nor a generation of its own.
TellingNode(node) == [node EXCEPT !.tier = NoEdge, !.revision = 0]

\* What it tells of an edge: not its provenance, nor the generations a terminal
\* edge was once bound to, nor the successor of one that has been retired since.
TellingEdge(edge) ==
  [edge EXCEPT !.provenance = NoEdge,
               !.superseded_by = IF IsNotRetired(edge) THEN @ ELSE NoEdge,
               !.from_entity_generation = IF IsLive(edge) THEN @ ELSE 0,
               !.to_entity_generation = IF IsLive(edge) THEN @ ELSE 0]

TellsTheSame(before, after) ==
  /\ [n \in DOMAIN before.nodes |-> TellingNode(before.nodes[n])] =
       [n \in DOMAIN after.nodes |-> TellingNode(after.nodes[n])]
  /\ [e \in DOMAIN before.edges |-> TellingEdge(before.edges[e])] =
       [e \in DOMAIN after.edges |-> TellingEdge(after.edges[e])]

\* What a durable image says of its edges if add_relationship and the fences
\* left them, and no replace_endpoint_generation has moved a node since: the second domain is the other end's, and a live edge is bound to
\* the generations its nodes carry and has no successor.
LoadedAsLeft ==
  \A G \in StartGraphs : \A e \in DOMAIN G.edges :
    LET N == G.nodes
        edge == G.edges[e]
    IN  /\ edge.secondary_domain =
             SecondaryDomain(N[edge.from].domain, N[edge.to].domain, edge.domain)
        /\ IsLive(edge) => EndpointsMatch(N, edge) /\ edge.superseded_by = NoEdge

\* The entities a node id is used for, and the relations an edge id is.
EntitiesNamed(n) ==
  {req.entity_id : req \in {q \in NodeRequests : q.id = n}}
  \cup {G.nodes[n].entity_id : G \in {H \in StartGraphs : n \in DOMAIN H.nodes}}

RelationsNamed(e) ==
  {req.relation : req \in {q \in LinkRequests : q.id = e}}
  \cup {G.edges[e].relation : G \in {H \in StartGraphs : e \in DOMAIN H.edges}}

\* An id that comes back after a removal names what it named before: a request
\* carries none and derive_node_id and derive_edge_id digest the entity and the
\* key, or its caller keeps to one id for one thing.  The two conditions are
\* those under which EmptyDiffMeansSameGraph is claimed.
IdsNameOneThing ==
  /\ \A n \in NodeIds : \A x, y \in EntitiesNamed(n) : x = y
  /\ \A e \in EdgeIds : \A r, q \in RelationsNamed(e) : r = q

\* diff_against_current of a snapshot of the whole topology is empty exactly
\* if the two tell the same of every node and edge: the fields diff does not
\* compare, an entity, a relation, a second domain, a binding or a successor,
\* never differ alone.
EmptyDiffMeansSameGraph ==
  SharedLockFree =>
    \A i \in DOMAIN snapshots :
      snapshots[i].scope = WholeTopology =>
        (Diff(snapshots[i], store) = {} <=> TellsTheSame(snapshots[i], store))

=============================================================================
