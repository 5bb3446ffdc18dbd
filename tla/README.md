# Fabric-Topology in TLA+

Fabric-Topology keeps the authoritative graph of a compute fabric: which hosts,
devices, switches and ports exist, and how they contain, depend on and attach to
each other. Publishers in other processes assert relationships; an engine checks
their authority, commits each mutation under a new topology generation, writes a
durable image and, after a crash, recovers what it may still believe. This
directory models the engine, the coordinator process around it and the store inside
it in TLA+, and checks them with TLC on small instances. For instances of any size it
proves with TLAPS the safety properties of the engine, of publications and of the
coordinator, that the coordinator implements the engine, and that the store implements
one whose operations happen at once.

Paths below are relative to the repository root.

## 1. Inventory

| Component | State | Operations | Hard part |
| --- | --- | --- | --- |
| Graph store (`src/graph_state.cpp`) | node and edge maps, secondary indexes, topology generation, undo log (`StateTxn`) | insert, update, erase, `would_create_cycle`, `rollback` | an index or undo entry that disagrees with the maps |
| Structural validation (`src/validation.cpp`) | none | `validate_graph` | run on recovery and on every publication; what it refuses is lost |
| Candidate checks (`src/reconciliation.cpp`) | none | `resolve_relationship_domain`, `validate_relationship_candidate` | run on assertion only, not on revalidation |
| Entity registry (`src/registry.cpp`) | canonical entity records: generation, retired, superseded | `add`, `bump_generation`, `retire`, `supersede` | moves on independently of the engine |
| Authority (`src/topology_engine.cpp`) | `publishers`, `fenced_boots`, `coordinator_epoch` | `register_publisher`, `fence_publisher`, `fence_boot`, `advance_coordinator_epoch` | changed outside the undo log, only sometimes written |
| Node mutations (`src/topology_engine.cpp`, `src/topology_mutations.cpp`) | the graph | `add_node`, `remove_node`, `replace_endpoint_generation` | edges bound to generations of nodes that change underneath them |
| Relationship mutations (`src/topology_mutations.cpp`) | the graph | `add_relationship`, `attach_endpoint`, `update_relationship_evidence`, `revalidate_relationship`, `supersede_relationship`, `retire_relationship`, `move_attachment`, `detach_endpoint` | long sequences of legal calls |
| Persistence (`src/persistence.cpp`) | the image at `persistence_path` | `save`, `persist_locked`, `load_from` | failed writes, crashes at any point, a registry that moved while the process was down |
| Reconciliation (`src/reconciliation.cpp`) | attempt ledger | `publish` in three modes | replays, stale evidence, implicit removal, all or nothing |
| Snapshots (`src/snapshot.cpp`) | snapshot history and counter | `snapshot`, `check_snapshot` | optimistic copy under a shared lock, re-check under an exclusive one |
| Queries, traversal, diffs (`src/topology_query.cpp`, `src/traversal.cpp`, `src/diff.cpp`) | none of their own | lookups, bounded search, comparison | indexes instead of scans, limits met half way, a field no comparison covers |
| Coordinator (`src/runtime/coordinator.cpp`) | sessions, listener, stop flag | handshake, publish, query, shutdown, fencing at session end | threads, disconnects, shutdown and joins |
| Publisher client, transport (`src/runtime/`) | a connection | connect, publish, heartbeat, close | time-outs, lost answers |
| Protocol, codec, digests, discovery, synthetic data, tools | none of their own | encode, compute, print | |

Who calls whom: tools and the coordinator call the engine; the engine reads the
registry and owns graph, authority and image; `publish` and `load_from` call
`validate_graph`; every mutation ends in `finalize_mutation` (or a copy of it),
which advances the generation, writes the image, and rolls back if that fails.

Locks: `authority_mutex`, then `state_mutex`, then `persistence_mutex`. A mutation
holds the first two from its first check to its last write. Queries take
`state_mutex` shared. `register_publisher` takes `authority_mutex` alone, `save`
`state_mutex` alone.

What makes each part correct:

- graph: no dangling edge, one node per entity, one edge per relationship, no
  cycle in an acyclic relation, no loop of `superseded_by`;
- currentness: a CURRENT edge is bound to what its nodes are now; nothing terminal
  comes back; at most one current edge per exclusive attachment;
- authority: only an unfenced boot registered under the live epoch with the grant
  asserts anything; fencing takes currentness away and lasts;
- durability: memory and image agree after every mutation, failed ones too; a
  restart loses no structure and makes everything asserted before it historical;
- publications: all or nothing, within their scope, never back to older evidence, the
  same when delivered twice; only a snapshot with the grant for it erases;
- the store: to its callers every operation happens at once; indexes, queries,
  snapshots and diffs say what the maps say;
- the coordinator: authority and currentness end with the session they belong to, a
  new incarnation is not hit by the end of an old one, a stop comes to its end.

The file `PROJECT.json` lists the hazards behind these at their lines.

## 2. Modules

| Module | Models |
| --- | --- |
| `GraphState` | Records, partial maps, `would_create_cycle`, candidate checks, rebinding and demotion, `validate_graph`. Constant operators only. |
| `EntityDirectory` | The registry: variable `registry` and one action per operation of `InMemoryEntityDirectory`. |
| `TopologyEngine` | The engine: graph, authority and image, one action per public mutation, save, restart, and the registry's steps interleaved. States their properties. |
| `TopologyEngineProofs` | The engine's inductive invariant and what follows of its structure. |
| `EngineActionProofs` | The engine's steps: authority, durability, epochs, bindings. |
| `AttachmentMoves` | `move_attachment` beside the engine's other operations. Apart, because it breaks what is proved of them. |
| `Publication` | `publish` and the attempt ledger, interleaved with every other operation of the engine. Extends `TopologyEngine`. |
| `Iteration` | A loop over a list, instantiated with its body by the modules that have one; its recursion equation and its induction rule, proved. |
| `PublicationProofs` | What reconciling one entry, a publication, and the same publication again does. |
| `Coordinator` | The process: owner, accept thread, session threads, connections and clients around the engine. Extends `Publication`. |
| `CoordinatorProofs` | That it implements `PublicationSpec`; sessions, authority and currentness. |
| `GraphIndex` | The secondary indexes, their upkeep edit by edit, `rebuild_indexes`, and the undo log's entries. Constant operators on a record `[nodes, edges, generation, index]`. |
| `GraphIndexProofs` | What an edit, its undoing and `rebuild_indexes` do to the indexes. |
| `GraphQueries` | Scopes, indexed lookups, the traversal, whose loops are instances of `Iteration`, and the diff, as operators on that record. |
| `AtomicStore` | The abstract specification: mutations, fences, epochs and snapshots that each happen at once. |
| `ConcurrentStore` | The store with its locks, edits, rollback, optimistic snapshots and two-lock `detach_endpoint`; shown to implement `AtomicStore`. |
| `StorePlanProofs` | What each mutation's plan of edits makes of the graph, and that the contract permits it. |
| `StoreProofs` | The store's invariant, its readers, its queries, and the refinement. |
| `MCTopologyEngine`, `MCAttachmentMoves`, `MCPublication`, `MCCoordinator`, `MCConcurrentStore` | Requests and start states of the TLC instances. |

Two compositions share `GraphState`. `TopologyEngine` to `Coordinator` take a mutation
as one step, which the locks justify, and add what surrounds it: authority, registry,
publications, processes. `GraphIndex` to `ConcurrentStore` open the step up: that it may
be taken as one is what `ImplementsAtomicStore` shows.

### The engine: state

`nodes`, `edges`, `generation` are the members of `GraphState` of the same name;
`publishers`, `fenced_boots`, `coordinator_epoch` those of `TopologyEngine::Impl`;
`image` is what the file at `persistence_path` decodes to; `registry` is
`InMemoryEntityDirectory::records_`. A partial map is a function on the ids present.

### The engine: actions

Every public mutation is one action, because it holds both locks throughout. A
request that is rejected, or answered `Idempotent`, changes only statistics and is
no step, so the guards of an action are exactly the code's early returns. Requests
carry no `expected_generation`: a mismatch is one more rejection, and a request that
carries a matching one does what a request without it does.

`FinalizeMutation(N, E, undone)` is the tail of every mutation: either the new graph
is installed, the generation advanced and the image written, or the write fails and
the undo log restores `undone`. For every mutation but one `undone` is the node map
from before. `ReplaceBinding` passes the new one, because
`replace_endpoint_generation` notes the node for undo after changing it.

`DemoteAndPersist` is the tail of the two fencing calls and of the epoch advance: the
authority state has been changed by then and is not part of the undo log, and
nothing is written if no edge was current.

`Restart` stands for the end of the process at any point followed by
`TopologyEngine::open`. `RestartRecovered` is `load_from` on an image that
`validate_graph` accepts; `RestartFresh` is the empty engine that `open` returns,
and `ftcoordinator` serves, when there is no image or it is refused.

### Publications

`Candidate` is the candidate state of `publish`, built as the code builds it: observed
nodes and the rebinding of edges at refreshed ones, observed relationships in the order
of their keys, each seeing what the ones before did, declared absences, and, for a
snapshot, the removal of what it does not mention. `Accepts` has every check from the
authority to `validate_graph`; `CommitPublication` is the replacement of the graph, the
write, and the way back if it fails. A publication that is rejected changes nothing the
model has. `attempts` is `AttemptLedger`: bounded, in memory only, empty after a restart.

### The coordinator

Every connection has a client, two queues of frames and a session thread, each a state of
its own: `session` is the place in `run_session`, `accepting` the place in `accept_loop`,
`owner` the place in `main` and `stop()`. One action is one iteration of the loop it is
in, so what one thread does lies between any two of another; calls of the engine are
atomic, as its locks make them. `fence_boot` and `fence_publisher` at the end of a
session are two. A frame is its type; a publication's frame is its id.

A client may miss an answer and go on, stop reading, or never speak. It may crash with any
suffix of its frames lost (`Crash`): its system then closes the connection, and the session
learns of it. A machine or a network may also fail without a trace (`Vanish`, for the
connections in `Remote`): no keep-alive is set, so the coordinator learns of it only if
something it sent stays undelivered, and not necessarily then (`NoticeLoss`). `accept` and
`select` may fail, which ends the accept loop (`AcceptFails`).

A connection holds `SendBuffer` frames that its client has not read. `FrameTransport::send`
has no time-out and does not look at the stop flag, so a session with more to send waits
(`HasRoom`). What a session has still to send is a state of it (`Sending`), and sending a
step of its own; the answer of a query may be long, and is then a `Part`, as much as a
connection holds, and an `Answer`.

### The store

`txn` is the open `StateTxn` (its edits still to make, its log) and stands for the
exclusive lock, a reader with `pc = "copying"` for the shared one. A mutation plans its
edits through the indexes, as the code finds its edges, makes them one by one, each
moving every index, and commits or undoes its log from the end. `snapshot` copies nodes
and edges in two steps under the shared lock and checks generation and epoch again
under the exclusive one, `MaxAttempts` times, before it falls back to building under
that lock. `revision` is an element's own generation.

The refinement mapping forgets indexes, log and copies, and shows callers the graph that
the open transaction began with (`Seen`). A committed mutation is then one step of
`AtomicStore`, a failed one a stutter, and every recorded snapshot is the graph of that
moment. `replace_endpoint_generation` is not among the operations: its undo log does not
restore the node (section 4), so with it the store does not implement the contract.

### Data left out

Metadata, the tables of node and relation classes, layers, per-record
generations, `supported_by`, relationship ids, evidence types and sources,
configured limits and statistics. No property tells them apart. A node has the class it
was added with, which publications compare (`NodeClasses`). The
generation and the epoch are bounded by `MaxGeneration` and `MaxEpoch`, entity
generations by `MaxEntityGeneration`; reaching a bound only disables actions, as
exhausting the 64-bit counter (`generation.exhausted`) would.

Durable facts that the model takes from the code: the image is old or new
(`write_file_atomic` renames a temporary file), and a failed write leaves the old
one. A failing `rename` after which the new file is nevertheless visible is not
considered.

## 3. What TLC checks

| Run | Instance | Checks |
| --- | --- | --- |
| `engine_structure` | 2 nodes, 2 edge ids for one relationship, 3 entities of which one moves, rebinding onto a successor and onto another node's entity, replacement generations 0 and 2 at either end; 6 generations | types, no dangling edge, one node per entity, one edge per key, current edges bound to their nodes, rebound edges await revalidation |
| `engine_authority` | 2 publishers, 2 boots, 2 domains with a rule between them, 2 grant tables, failing writes, 3 epochs, 5 generations | assertions have authority, mutations are durable, structure survives restart, recovered evidence is from earlier epochs, a generation names one graph |
| `engine_hierarchy` | a containment triangle over 3 nodes, every demotion, revalidation, supersession, retirement; 10 generations | acyclicity in memory and on disk, supersession ends, terminal states are for ever |
| `publication` | two scopes and an edge between them, 7 publications: two snapshots and one that declares absent what it observes, newer and older evidence, a node by the name of another class (`NodeClasses` has two), absences in the three ways there are, another scope's; two grant tables, one boot, a moving entity, failing writes, restarts, a ledger of 2 | snapshots replace their scope, silence is not absence, foreign scopes are kept, evidence never goes back, redelivery is harmless, erasure needs the grant, publications are durable, the ledger's type |
| `coordinator` | 3 connections and room for 2 sessions: two incarnations of a publisher; an idle worker and an observer that queries, publishes or asks for the shutdown; a worker alone; a survivor of another epoch; or three silent peers. One client is on another machine (`Remote`), a connection holds one frame (`SendBuffer`), accept may fail, and the owner may stop at any time | types and the session limit, current edges and authority have a session, fencing spares a new incarnation, an orderly stop leaves nothing current; liveness: the boot of a peer whose loss is noticed is fenced, silent peers are dropped, a stop drains and returns but for sessions blocked in send |
| `store` | a loaded rack of 3 nodes and 2 edges across two domains, a third edge, every kind of mutation, failing writes, two commits, 2 readers with different scopes and 2 attempts each, history of 1, a detach with and without an expected generation | types and history, indexes, snapshots, queries, traversal and diffs against reference definitions, and the refinement |

The bounds are the smallest in which the cases meet: one relationship needs two
nodes and three generations; a rebinding, a removal and a recovery after it need
three more; a cycle needs three edges, demoted and revalidated; a stale context
needs a second boot and a second epoch. `engine_structure` keeps
writes from failing because a failed `replace_endpoint_generation` breaks
`CurrentEdgesBoundToNodes` (next section); the registry is still in
`engine_authority` because a moved registry makes recovery refuse the image (next
section, too). Nothing else is restricted for a property's sake.

Each property has a mutant in `PROJECT.json`: the definition changed as a plausible
bug would change it (a dropped guard, a missing undo, a demotion forgotten), under
which TLC finds the property violated.

Bounds of the newer runs. `publication`: a relationship published, superseded by newer
evidence, and met by an older publication takes three generations; the fourth is for the
restart, rebinding or removal in between; with a ledger of 2 the third publication
makes it forget the first. `coordinator`: the limit is met with two sessions and a third
connection; an old and a new incarnation are enough for every order of fencing and
registration, and one request per client (`MaxRequests`) puts a publication before,
between and after them. With room for one
frame on a connection the long answer of a query blocks unless its client reads, and so
does a shorter one behind it; more room only puts the same wait later. `store`: two commits put a mutation before, inside and after each
snapshot and between the two halves of a detach; two attempts, of the code's eight,
meet the retry and the fall-back; the queries, the traversal (every kind, origin,
depth and limit) and the diff are evaluated in every graph these mutations build.
Generations and epochs are 64 bits wide in the code; their exhaustion is not explored.

`coordinator` and `store` are checked without deadlock checking: the process exits, and
the callers of a library owe it no further call.

Fairness. The engine is a passive library without thread, timer or queue: nothing in it
must happen. `ConcurrentStore` has no liveness either, for `std::shared_mutex` promises
no order among waiters. The coordinator's threads do run:
`WF_accepting(IsUp /\ AcceptThread)` is the accept loop, whose `select` has a time-out;
`WF_<<session, inbox>>(IsUp /\ some SessionTurn)` the session threads, whose transports
poll with one when they receive; `WF_owner(IsUp /\ FinishStop)` the owner once it is in
`stop()`. That the operating system schedules runnable threads is all this assumes. Sending
has no time-out: a session that is blocked in it has no step to take, and no fairness makes
it take one. Weak fairness of all sessions together is enough because each can only take
finitely many turns. Clients may stop at any point, reading included, the network owes no
notice of a loss, and nobody has to call `stop()`.

The three liveness properties about ends are stated so far as the code gives them.
`PeerLossFencesBoot` begins when the coordinator's socket tells that the peer is gone.
`StopDrains` and `StopReturns` except, by name, sessions that a peer keeps in `send`
(`IsBlocked`): all others (served, silent, vanished, in the middle of their end) come to
theirs, and with them the owner.

## 4. Where the code and its documentation disagree

Each has a run in which TLC finds the shortest behaviour.

- `engine_structure_rollback`: after a failed write in `replace_endpoint_generation`
  memory keeps the new identity binding, under the old generation, while the image
  has the old one (`src/topology_mutations.cpp:1197`; README.md:333 "the two can
  never disagree").
- `engine_authority_refence`: fences that demote no edge are not written, and
  `register_publisher` writes none, so a crash forgets them
  (`src/topology_engine.cpp:365`; README.md:330 "permanently fenced worker boots stay
  fenced").
- `engine_authority_current`: a replaced boot is fenced and its edges stay CURRENT
  (`src/topology_engine.cpp:365`; README.md:227 "Fencing also demotes the
  relationships that incarnation asserted").
- `engine_recovery_refused`: `load_from` validates against the registry before it
  demotes, so one node whose registry generation moved on costs the whole topology
  (`src/persistence.cpp:751`; README.md:328 "structure survives").
- `attachment_move`: a move that names the moved edge's own id as the new one is
  rejected by `insert_edge`, and the rollback erases the edge
  (`src/topology_mutations.cpp:1032`; `mutations.hpp:113` "either the whole move commits
  or nothing changes").
- `engine_attachment_revalidated`: revalidation makes no attachment check, so two
  current edges share an exclusive slot (`src/topology_mutations.cpp:535`;
  `tests/core/test_core.cpp:275`). The image written then is refused by the next
  `load_from`.

Met while reading, and without a run yet:

- A peer that stops reading keeps its session in `send` for as long as it likes: the loop
  retries on would-block, has no time-out and does not look at the stop flag
  (`src/runtime/frame_transport.cpp:292`). `stop()` joins that session
  (`src/runtime/coordinator.cpp:672`) and does not return; `coordinator.hpp:56` has "Stop
  accepting, signal every session, join every thread". `frame_transport.hpp:38` promises an
  end to blocking only for receiving. With the exception taken out of `StopReturns` or
  `StopDrains` TLC finds the behaviour.
- A peer that is lost without closing its connection (power, network) is not noticed while
  nothing is sent to it: the serving loop goes on at every idle poll
  (`src/runtime/coordinator.cpp:418`), there is no keep-alive and no idle limit. Its boot is
  not fenced and its relationships stay CURRENT; README.md:353 speaks of process death, which
  closes the connection. `CurrentEdgesHaveSession` holds: the session exists, idle.
- An error of `select` or `accept` ends the accept loop for good
  (`src/runtime/coordinator.cpp:265`); the coordinator goes on with the sessions it has, and
  nothing else notices.
- A publication delivered again can take a new generation (README.md:204 "an idempotent replay
  never advances it"): once the ledger has forgotten the attempt, if it names another class of
  the same entity class than the node was added with, which is compared and never stored
  (`src/reconciliation.cpp:575`); if it is a snapshot that retires a node which edges of
  another scope keep; or if it is a snapshot that declares absent a relationship it observes.
  `RedeliveryIsHarmless` has these three and excludes every other. It speaks of the graph as
  the publication left it: after a restart a redelivery makes demoted edges current again,
  which is what revalidation is for.
- `advance_coordinator_epoch` writes nothing if no edge is current, so a restart can
  hand out an epoch that was in use before (`src/persistence.cpp:775` "The coordinator
  epoch advances on every fresh start").
- `remove_node` with a cascade erases terminal edges, after which the relationship can
  be asserted anew (README.md:244 "stays inspectable forever and can never be
  revived"). `TerminalIsForever` therefore speaks of an edge for as long as it exists.
- `apply_evidence_change` asks for authority in the edge's domain only, while
  `add_relationship` asks for it in the domains of both endpoints. `AssertionsHaveAuthority`
  says so: both domains for a new edge, the edge's own for a change of one.
- `replace_endpoint_generation` does not compare a generation of zero, and a repeated
  identity rebinding advances the generation again.
- `move_attachment` to the current target under a new id gives two edges one key
  (`src/topology_mutations.cpp:951`); it does not look at the target's domain, and refuses
  to move any edge that names an attachment under a new id, since the edge being moved is
  still the endpoint's current exclusive attachment.
- A snapshot that names a node as absent keeps it: the entry counts as a mention
  (`src/reconciliation.cpp:475`).
- A publication can refresh a node that belongs to another domain.
- `validate_graph` runs over the whole topology after a publication, so one entity that
  was retired in another scope refuses every publication that changes anything.
- After a `ShutdownRequest` `running_` stays true, so `ftcoordinator` waits on, and
  `stop()` returns without joining (`src/runtime/coordinator.cpp:638`). `StopReturns`
  therefore speaks of a stop the owner began, and `StopDrains` of the threads alone.
- A session accepted after `stop()` copied `sessions_` is not joined, which is the
  condition in `OrderlyStopLeavesNothingCurrent`.
- Finished sessions are never taken out of `sessions_`, so they hold their slot for ever
  (`src/runtime/coordinator.cpp:278`; the comment at line 304 has "must not hold a slot
  forever" for a silent peer). `SilentPeersAreDropped` speaks of the session only.
- The Welcome echoes the requested grants, not the delegated ones (line 396).
- An answer that arrives after its deadline is taken for the answer to the next
  request (`src/runtime/publisher_client.cpp:78`).
- `detach_endpoint` without an expected generation may retire an edge that no longer holds
  the attachment; `DetachSparesWhatChanged` is about calls with one.
- If the demotions of `fence_boot` and `fence_publisher` at the end of a session cannot be
  written, they are rolled back and the session ends all the same
  (`src/runtime/coordinator.cpp:622`): the edges stay current without a session. The coordinator's run has no failing writes.
- `diff` does not compare a node's tier or its own generation, an edge's relation, a terminal edge's bound
  generations, or provenance; `diff_against_current` records a snapshot.
- Nodes that the registry has moved past never become `REVALIDATION_REQUIRED` on recovery,
  as README.md:328 has it: the image is refused (`NodesStayCurrent`, and
  `engine_recovery_refused`).
- A snapshot publication retires a node (`src/reconciliation.cpp:1028`) that still has a
  non-current edge of another scope. `revalidate_relationship` asks for the registry and the
  generations of the ends, not for their lifecycle (`src/topology_mutations.cpp:479`), and
  makes that edge current. `validate_graph` reports `edge.endpoint_not_current` from then
  on (`src/validation.cpp:183`): later publications are refused, and so is the image. TLC
  finds it in nine states when such a snapshot is added to `publication`'s instance.
- `save` encodes `fenced_boots` under `state_mutex`, `register_publisher` changes it
  under `authority_mutex` (`src/persistence.cpp:674`).

## 5. What TLAPS proves

All theorems hold for every value of the constants: any number of nodes, edges,
publishers, connections and readers, any requests, writes that fail or not unless a
hypothesis says otherwise.

| Module | Theorem | States |
| --- | --- | --- |
| `TopologyEngineProofs` | `EngineIsSound` | the inductive invariant `IInv` |
| | `EngineIsTyped`, `EdgesNeverDangle`, `EntitiesAreBoundOnce`, `RelationshipsHaveOneEdge`, `NoCycleEver`, `SupersessionAlwaysEnds`, `TerminalEdgesStayTerminal` | the invariants of `engine_structure` and `engine_hierarchy` |
| `EngineActionProofs` | `AssertionsAreAuthorised` | `AssertionsHaveAuthority`: an edge is added, given a provenance, or changed and current only if a publisher may write it at that moment |
| | `RecoveryStartsANewEpoch` | `RecoveredEvidenceIsFromEarlierEpochs` |
| | `MutationsReachTheImage`, `CurrentEdgesStayBound`, `ReboundEdgesLoseCurrentness`, `GenerationsNameOneGraph` | `MutationsAreDurable`, `CurrentEdgesBoundToNodes`, `ReboundEdgesAwaitRevalidation`, `GenerationNamesGraph`; under `RebindingsAreDurable` |
| | `NodesStayCurrent` | without publications, nodes in memory and in the image are current, edges there join two nodes in scopes of their relation, and a recovery takes over the image's nodes as they are |
| | `StructureSurvives` | `StructureSurvivesRestart` as long as `RegistryStandsBehind` and `AttachmentIsExclusive` hold; under `RebindingsAreDurable` |
| | `AttachmentsStayExclusive` | `AttachmentIsExclusive`, under `ExclusivityIsKept` |
| | `RestartsKeepStructure` | `StructureSurvivesRestart`, under `RebindingsAreDurable`, `RegistryRests` and `ExclusivityIsKept` |
| `Iteration` | `AfterZero`, `AfterStep`, `AfterInduction` | what a loop does for no entry and for one more, and induction over it |
| `PublicationProofs` | `PublishedGraphsKeepStructure` | the structural invariants with publications interleaved |
| | `LedgerIsTyped`, `ErasureIsGranted`, `EvidenceOnlyAdvances`, `SilenceTakesNothing`, `ForeignScopesAreKept`, `SnapshotsReplaceTheirScope`, `RedeliveriesChangeNothing` | the properties of `publication` |
| | `PublicationsReachTheImage` | `PublicationsAreDurable`, under `RebindingsAreDurable` |
| `CoordinatorProofs` | `CoordinatorRunsTheEngine` | `CoordinatorSpec => PublicationSpec` |
| | `CoordinatorKeepsPromises` | the promises of publications, of the coordinator |
| | `CoordinatorIsTyped`, `AuthorityIsBacked` | `CoordinatorTypeOK`, `AuthorityHasSession` |
| | `FencingSparesNewcomers` | `FencingSparesNewIncarnation`, under `BootsAreOfOnePublisher` |
| | `CurrentEdgesAreBacked`, `OrderlyStopIsClean` | `CurrentEdgesHaveSession`, `OrderlyStopLeavesNothingCurrent`; if no write fails |
| `GraphIndexProofs` | `EditIs`, `UndoRestores`, `RebuildIndexesIs` | every edit, its undo entry and the rebuilding agree on the indexes |
| | `TraverseIsBreadthFirst` | `traverse` is the bounded breadth-first search, on every graph whose indexes are right |
| `StoreProofs` | `StoreIsTyped`, `IndexesNeverDrift`, `SnapshotsAreWhatTheySay`, `HistoryNeverGoesBack`, `DetachTakesWhatItFound`, `IndexedAnswersAreScans`, `TraversalsAreBreadthFirst` | `StoreTypeOK`, `IndexesMatch`, `GenerationNamesSnapshot`, `SnapshotsFollowGenerations`, `DetachSparesWhatChanged`, `QueriesAnswerFromTheGraph`, `TraversalIsBreadthFirst` |
| | `EmptyDiffsTellTheSame` | `EmptyDiffMeansSameGraph`, under `LoadedAsLeft` and `IdsNameOneThing` |
| | `StoreIsAtomic` | `ImplementsAtomicStore`, the refinement |

### Assumptions

On constants: `NamesAreDistinct`, `DirectoryConstants`, `EngineConstants`,
`PublicationConstants`, `CoordinatorConstants`, `StoreConstants` and `CallerConstants` say
that requests have the types of the C++ request structs and that "none" is not an id;
`EdgeIdsAreOrdered`, that edge ids are numbers, since loops go through them in order.
`DelegationIsOffered` puts the coordinator's delegated grants among those the engine may
be asked to register. `LoadedGraphs` says what a graph handed to the store at the
start is: the maps are finite and typed, an entity has one node, a relationship one edge, and
endpoints exist: what `IInv` says of the image. TLC evaluates all of them in the runs.

Hypotheses of single theorems, each with states that satisfy it and a reason to be there:

- `RebindingsAreDurable`, that no write fails or `replace_endpoint_generation` is not
  called. `engine_structure_rollback` shows what such a failure leaves in memory. The
  passing runs meet both sides of the hypothesis.
- `BootsAreOfOnePublisher`: `fence_boot` fences every registration of a boot, so if two
  publishers shared one, the end of either session would hit the other.
- `RegistryRests`, `ExclusivityIsKept`: no record of the registry changes and no caller
  gives a node a generation of its own; every attachment request asks for exclusivity and
  nothing is revalidated, or there are no attachments. Without the first a restart meets
  `engine_recovery_refused`, without the second `engine_attachment_revalidated`.
  `engine_authority` satisfies both, with failing writes, fences and crashes.
- `LoadedAsLeft`, `IdsNameOneThing`: the image a store starts with holds no live edge whose
  node was replaced since, and an id that comes back after a removal comes back for the
  same entity or relation. `derive_node_id` and `derive_edge_id`, used when a request
  carries no id, digest just those; a caller who chooses ids may do otherwise, and then
  `diff` shows nothing, for it compares neither entity nor relation. TLC evaluates both
  for the instance (`MCConcurrentStore`).
- "No write fails" in `CurrentEdgesAreBacked` and `OrderlyStopIsClean`: the demotion that
  the end of a session makes is rolled back if it cannot be written, and the edge is
  current with nobody behind it.

### Arguments

*Structure.* No invariant is inductive by itself, because a restart replaces
the graph by the image: each must hold of the image, too. The invariant is

    IInv == TypeOK /\ SoundGraph(nodes, edges) /\ SoundGraph(image.nodes, image.edges)

where `SoundGraph` has, beside the properties, that live edges point to no
replacement. That is what makes supersession well founded: a replacement is current,
hence has no successor, when it is linked to. For every operation one lemma
shows that it takes sound graphs to sound graphs, and two (`FinalizeSound`,
`DemoteAndPersistSound`) that the tail of a mutation keeps `IInv` whether or not
the write succeeds. The failed `ReplaceBinding` is covered: the graph
it leaves is still sound, only not durable.

Acyclicity is stated without paths: every non-empty set of nodes has a member with
no live edge into the set. `NewEdgeClosesNoCycle` is the step that matters: the guard
gives a set `C` that is closed under live edges, holds the new edge's target and not its
origin. A set of nodes that meets `C` has its member without a way on inside `C`, where the
new edge does not start; any other set does not hold the target and keeps the member it had.
All other operations only remove live edges (`FewerLiveEdges`).

For `TerminalIsForever` a second invariant, `TerminalIsDurable`, relates the image to
memory: an edge that both know and that is terminal in memory has the same lifecycle in
the image.

*Steps of the engine.* `StepsWrite` says of every step that the image is what memory
is, or nothing moved; durability follows. `RecoveryStartsANewEpoch` needs
`EpochsInOrder` (no edge, in memory or on disk, is of a later epoch than its graph),
`CurrentEdgesStayBound` needs `CurrentAreBound`, and `GenerationsNameOneGraph` that the
graph of generation zero is empty wherever it is found, since a restart that finds no
sound image begins with it again.

*What a restart keeps.* `load_from` keeps the structure if `validate_graph` accepts the
image. `ImagesAreValid` goes through what that function asks, one issue after another:
most of it follows from `IInv`, `CurrentAreBound` and `Placed` (nodes are current, edges
have two ends and the domains of those ends). Two things do not, and are the conditions
of `StructureSurvives`: that the registry stands behind every node, and that
no exclusive attachment is held twice. Two of the violation runs show that the engine
guarantees neither. `ImageInStep` says that there is an image of this generation or
nothing to lose, and `Recoverable` with it is kept by every step. `RestartsKeepStructure`
then discharges both conditions from the constants. In passing `NodesStayCurrent` shows
that the part of `load_from` that makes stale nodes `REVALIDATION_REQUIRED`
(`src/persistence.cpp`) is not reached by an engine without publications: an
image with such a node has been refused before.

*Publications.* `publish` builds its candidate in loops, so each phase has a lemma about
one entry and `AfterInduction` carries it through the loop. `EntryHasEffect` gives the
four effects an entry can have (skip, keep, drop, put), `EdgesReconciledReach` what all
of them together make. Soundness then follows for any candidate without
help from `validate_graph`: what that function refuses it refuses for other reasons than
structure. `RedeliveriesChangeNothing` rests on `SettledStays`: the graph that a
publication left is a fixed point of every phase, entry by entry (`EntriesRepeat`). That the
second delivery counts no change needs each phase's `changed`, too: it is the class, the node
retired again, or the edge put and dropped again that the theorem names, or it is nothing.

*The coordinator.* `CallsAreSteps` shows that each thread's step is one step of the
engine or none, hence the refinement; `IInv` and all action properties come with it.
What is new is about sessions: `BackedOrFenced` follows a session from registration to
its end, and says that it backs its client's authority until it fences the boot. `AuthorityIsBacked` and `CurrentEdgesAreBacked` are inductive with it.

*Indexes.* An index is one function of the maps, `IndexOf`. `EditIs` shows that
`index_*` and `unindex_*` take `IndexOf` of the graph before an edit to `IndexOf` of the
graph after; `UndoRestores` composes an edit with its undo entry; `RebuildIndexesIs`
goes through the two loops. The queries are then compared with scans index by index.

*Traversal.* The queue of `traverse` is taken in rounds, one per distance, which
is what a first-in-first-out queue with distances does. The invariant of a round is that the
steps found are those of the levels before and of the part of the frontier already
expanded (`StepsFit`, `Reached`); it is carried through the two loops by `AfterInduction`,
for the edges of one node and for the nodes of one level. The reference, `Levels`, knows no
queue, no visited set and no index.

*Diffs.* `diff` compares a few fields of each record. `TellingInv` says why they stand for
the others: the entity of a node and the relation of an edge are those of its id, the
second domain is that of the other end, a live edge is bound to the generations of
its nodes, and a superseded one keeps its successor until it is retired. Every snapshot of the
whole topology and the graph itself satisfy it with respect to the same start. Set aside by
`TellsTheSame`, since two graphs may differ there with an empty diff, are a node's tier,
provenance, the bound generations of a terminal edge, and the successor of an edge that
was retired after it was superseded.

*The store.* The invariant of `StoreProofs` is

    StoreInv == GraphInv /\ ReaderInv /\ SnapshotInv /\ DetachInv

`GraphInv` says that the store rests on a sound graph, or that a transaction is open
whose log, undone from its end, leads back to the graph it began with (`Logged`), and,
while it still edits, whose remaining plan leads on to a graph the contract permits
(`Makes`, `Permits`). `StorePlanProofs` shows of each plan that it does: `Makes` over the
edges in the order their ids have. From there a committed mutation is a step of
`AtomicStore` and an undone one a stutter, because `Seen` is the graph at the log's
far end. `ReaderInv` ties a copy in progress to the graph that was there when it began and
to the lock that keeps it there; `SnapshotInv` the recorded snapshots to generations.
`DetachInv` is why the expected generation protects a detach: generations only grow.

### Only model-checked

- The liveness of the coordinator (`PeerLossFencesBoot`, `SilentPeersAreDropped`,
  `StopDrains`, `StopReturns`): it rests on fairness, and so on `ENABLED`, which this
  prover does not reason about. All other properties of the passing runs are stated by a
  theorem.
- What the violation runs show.

The theorems say nothing of `move_attachment` (`AttachmentMoves`), which breaks what they
state. The store's theorems are about the mutations `ConcurrentStore` has;
`replace_endpoint_generation` is not among them, as said in section 2. The induction
theorems of the standard library take an operator as an argument, which the provers cannot
instantiate; `Iteration` gets its induction from the least number of a set instead, and
modules instantiate it with the body of their loop.

## 6. Not modelled, and what is left

Left out of the components that are modelled: the indexes by relationship id and by
layer; class, layer and pairing tables of `src/types.cpp`, which every request
here passes; the contents of queries and answers on the wire; tokens; a write of the
image that reports failure and yet took effect.

Not modelled: byte encodings and checksums, reassembly of frames, sockets, host
discovery, synthetic data, rendering, hashing, domain set-up and the remaining tools. They
keep no state of the topology, or are input and output only. Two data races, of `save`
with `register_publisher` and of `session_descriptions` with the session threads, are
listed among the hazards without a property: what they may yield is up to the standard
library.

To prove next: `StructureSurvivesRestart` with publications interleaved, which has one
condition more (section 4, the snapshot that retires a node), and the same properties with
`move_attachment` under a new id. To model next: an index by relationship id and by
layer, and `replace_endpoint_generation` in the store, which would turn the refinement
into one up to failed rebindings.
