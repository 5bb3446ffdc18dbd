----------------------------- MODULE StoreProofs -----------------------------
(***************************************************************************)
(* Theorems about ConcurrentStore: its indexes always fit the graph, what  *)
(* its readers take is of one moment, and it implements AtomicStore.       *)
(***************************************************************************)
EXTENDS StorePlanProofs

-----------------------------------------------------------------------------
\* The invariant of the graph and of the transaction that is open on it.

Start(before) == Indexed(before.nodes, before.edges, before.generation)

\* Nothing is under way and the graph is sound; or the log leads back to the
\* graph the transaction began with, and what is left of the plan leads on to a
\* mutation the contract permits.
IsOpen ==
  /\ txn = [stage |-> txn.stage, plan |-> txn.plan, log |-> txn.log, before |-> txn.before]
  /\ txn.stage \in {"editing", "undoing"}
  /\ txn.before = [nodes |-> txn.before.nodes, edges |-> txn.before.edges,
                   generation |-> txn.before.generation,
                   coordinator_epoch |-> txn.before.coordinator_epoch]
  /\ Good(Start(txn.before))
  /\ Sound(txn.before.nodes, txn.before.edges)
  /\ txn.before.generation < MaxGeneration
  /\ txn.before.coordinator_epoch \in 1..MaxEpoch
  /\ Logged(Start(txn.before), txn.log, store)
  /\ \/ coordinator_epoch = txn.before.coordinator_epoch
     \/ /\ txn.before.coordinator_epoch < MaxEpoch
        /\ coordinator_epoch = txn.before.coordinator_epoch + 1

IsEditing ==
  /\ IsOpen
  /\ txn.stage = "editing"
  /\ store.generation = txn.before.generation
  /\ \E N2, E2 :
       /\ Makes(store.nodes, store.edges, txn.plan, N2, E2)
       /\ Permits(txn.before.nodes, txn.before.edges, txn.before.coordinator_epoch,
                  coordinator_epoch, N2, E2)
       /\ Sound(N2, E2)

IsUndoing ==
  /\ IsOpen
  /\ txn.stage = "undoing"
  /\ txn.log # <<>>
  /\ WriteMayFail

IsAtRest == txn = NoTxn /\ Sound(store.nodes, store.edges)

GraphInv ==
  /\ Good(store)
  /\ coordinator_epoch \in 1..MaxEpoch
  /\ IsAtRest \/ IsEditing \/ IsUndoing

\* What callers may see change from S to T.
SeenMoves(S, T) ==
  \/ T = S
  \/ /\ S.generation < MaxGeneration
     /\ T.generation = S.generation + 1
     /\ Permits(S.nodes, S.edges, S.coordinator_epoch, T.coordinator_epoch, T.nodes, T.edges)
  \/ /\ S.coordinator_epoch < MaxEpoch
     /\ T.coordinator_epoch = S.coordinator_epoch + 1
     /\ T.nodes = S.nodes /\ T.edges = S.edges /\ T.generation = S.generation
     /\ WriteMayFail \/ CurrentOf(S.edges, DOMAIN S.edges) = {}

\* Which part of the invariant a stage goes with, and what callers see meanwhile.
LEMMA StageIs ==
  ASSUME GraphInv
  PROVE  /\ txn.stage \in {"none", "editing", "undoing"}
         /\ txn.stage = "none" => IsAtRest /\ Seen = Visible
         /\ txn.stage = "editing" => IsEditing /\ Seen = txn.before
         /\ txn.stage = "undoing" => IsUndoing /\ Seen = txn.before
<1>1. IsAtRest => txn.stage = "none"
  BY DEF IsAtRest, NoTxn
<1>2. IsEditing => txn.stage = "editing"
  BY DEF IsEditing
<1>3. IsUndoing => txn.stage = "undoing"
  BY DEF IsUndoing
<1> QED
  BY <1>1, <1>2, <1>3 DEF GraphInv, Seen

\* A loaded graph is sound and its rebuilt indexes fit.
LEMMA StartsWithGraphInv == Init => GraphInv
<1> SUFFICES ASSUME Init PROVE GraphInv
  OBVIOUS
<1>1. PICK G \in StartGraphs :
        store = [nodes |-> G.nodes, edges |-> G.edges, generation |-> G.generation,
                 index |-> RebuildIndexes(G.nodes, G.edges)]
  BY DEF Init
<1>2. PICK N, E, g : N = G.nodes /\ E = G.edges /\ g = G.generation
  OBVIOUS
<1>3. /\ IsFiniteSet(DOMAIN N) /\ DOMAIN N \subseteq NodeIds
      /\ IsFiniteSet(DOMAIN E) /\ DOMAIN E \subseteq EdgeIds
      /\ N \in [DOMAIN N -> StoredNodes] /\ E \in [DOMAIN E -> StoredEdges]
      /\ g \in 0..MaxGeneration
      /\ \A n, m \in DOMAIN N : N[n].entity_id = N[m].entity_id => n = m
      /\ \A e, f \in DOMAIN E : SameKey(E[e], E[f]) => e = f
  BY <1>2, LoadedGraphs
<1>4. \A e \in DOMAIN E : {E[e].from, E[e].to} \subseteq DOMAIN N
  BY <1>2, LoadedGraphs
<1>5. Keyed(N, E)
  BY <1>3, KeysAre DEF Keyed, IsMap, OneNodeEach, OneEdgeEach
<1>6. RebuildIndexes(N, E) = IndexOf(N, E)
  BY <1>3, <1>5, RebuildIndexesIs
<1>7. store = Indexed(N, E, g) /\ store.nodes = N /\ store.edges = E /\ store.generation = g
  BY <1>1, <1>2, <1>6 DEF Indexed
<1>8. TypedMaps(N, E)
  BY <1>3 DEF TypedMaps
<1>9. Good(store)
  BY <1>3, <1>5, <1>7, <1>8 DEF Good
<1>10. Sound(N, E)
  BY <1>4 DEF Sound
<1>11. coordinator_epoch \in 1..MaxEpoch /\ txn = NoTxn
  BY StoreConstants DEF Init
<1> QED
  BY <1>7, <1>9, <1>10, <1>11 DEF GraphInv, IsAtRest

\* A mutation takes the lock with its plan made.
LEMMA BeginKeepsGraphInv ==
  ASSUME GraphInv, NEW p, Begin(p), UNCHANGED store, NEW next, next = coordinator_epoch',
         Fulfils(store, coordinator_epoch, p, next),
         \/ next = coordinator_epoch
         \/ coordinator_epoch < MaxEpoch /\ next = coordinator_epoch + 1
  PROVE  GraphInv' /\ Seen' = Seen
<1>1. IsAtRest /\ Seen = Visible
  BY StageIs DEF Begin, ExclusiveLockFree, SharedLockFree
<1>2. txn' = [stage |-> "editing", plan |-> p, log |-> <<>>, before |-> Visible]
      /\ store.generation < MaxGeneration
  BY DEF Begin
<1>3. txn'.stage = "editing" /\ txn'.plan = p /\ txn'.log = <<>> /\ txn'.before = Visible
      /\ txn' = [stage |-> txn'.stage, plan |-> txn'.plan, log |-> txn'.log, before |-> txn'.before]
  BY <1>2
<1>4. PICK B : B = Visible
  OBVIOUS
<1>5. B.nodes = store.nodes /\ B.edges = store.edges /\ B.generation = store.generation
      /\ B.coordinator_epoch = coordinator_epoch
      /\ B = [nodes |-> B.nodes, edges |-> B.edges, generation |-> B.generation,
              coordinator_epoch |-> B.coordinator_epoch]
  BY <1>4 DEF Visible
<1>6. Good(store) /\ store = Start(B) /\ coordinator_epoch \in 1..MaxEpoch
  BY <1>5 DEF GraphInv, Good, Start
<1>7. next \in 1..MaxEpoch
  BY <1>6, StoreConstants
<1>8. Logged(Start(B), <<>>, store)
  BY <1>6, LogBegins
<1>9. IsOpen'
  BY <1>1, <1>2, <1>3, <1>4, <1>5, <1>6, <1>8 DEF IsOpen, IsAtRest
<1>10. IsEditing'
  BY <1>3, <1>4, <1>5, <1>9 DEF IsEditing, Fulfils
<1>11. Seen' = Seen
  BY <1>1, <1>3 DEF Seen
<1> QED
  BY <1>6, <1>7, <1>10, <1>11 DEF GraphInv

-----------------------------------------------------------------------------
\* The steps of a transaction.

\* An edit is noted and made: the log leads one step further back, the plan has one less.
LEMMA EditKeepsGraphInv ==
  ASSUME GraphInv, MakeEdit
  PROVE  GraphInv' /\ Seen' = Seen
<1>1. IsEditing /\ Seen = txn.before
  BY StageIs DEF MakeEdit
<1>2. PICK B, p, log, G : B = txn.before /\ p = txn.plan /\ log = txn.log /\ G = store
  OBVIOUS
<1>3. PICK change, H : change = Head(p) /\ H = Edit(G, change)
  OBVIOUS
<1>4. PICK rest, longer : rest = Tail(p) /\ longer = Append(log, UndoOf(G, change))
  OBVIOUS
<1>5. p # <<>> /\ store' = H /\ coordinator_epoch' = coordinator_epoch
      /\ txn' = [txn EXCEPT !.plan = rest, !.log = longer]
  BY <1>2, <1>3, <1>4, <1>1 DEF MakeEdit, IsEditing, IsOpen
<1>6. PICK N2, E2 :
        /\ Makes(G.nodes, G.edges, p, N2, E2)
        /\ Permits(B.nodes, B.edges, B.coordinator_epoch, coordinator_epoch, N2, E2)
        /\ Sound(N2, E2)
  BY <1>1, <1>2 DEF IsEditing
<1>7. Good(G) /\ IsOpen /\ Logged(Start(B), log, G)
  BY <1>1, <1>2 DEF GraphInv, IsEditing, IsOpen
<1>8. GoodChange(G, change) /\ change.kind # "SetGeneration"
  BY <1>3, <1>5, <1>6, FirstEdit DEF GoodChange
<1>9. /\ Good(H) /\ H.nodes = NodesAfter(G.nodes, change) /\ H.edges = EdgesAfter(G.edges, change)
      /\ H.generation = G.generation
  BY <1>3, <1>7, <1>8, GoodEdit DEF GenerationAfter
<1>10. Makes(H.nodes, H.edges, rest, N2, E2)
  BY <1>3, <1>4, <1>5, <1>6, <1>9, OneEditLess
<1>11. Logged(Start(B), longer, H)
  BY <1>3, <1>4, <1>7, <1>8, LogGrows
<1>12. /\ txn'.stage = txn.stage /\ txn'.plan = rest /\ txn'.log = longer /\ txn'.before = B
       /\ txn' = [stage |-> txn'.stage, plan |-> txn'.plan, log |-> txn'.log,
                  before |-> txn'.before]
  <2>1. PICK T, stage, oldPlan, oldLog, before :
          /\ T = txn /\ T = [stage |-> stage, plan |-> oldPlan, log |-> oldLog, before |-> before]
          /\ stage = T.stage /\ before = T.before
    BY <1>7 DEF IsOpen
  <2>2. PICK U : U = [T EXCEPT !.plan = rest]
    OBVIOUS
  <2>3. U = [stage |-> stage, plan |-> rest, log |-> oldLog, before |-> before]
    BY <2>1, <2>2
  <2>4. txn' = [U EXCEPT !.log = longer]
    BY <1>5, <2>1, <2>2
  <2>5. txn' = [stage |-> stage, plan |-> rest, log |-> longer, before |-> before]
    BY <2>3, <2>4
  <2> QED
    BY <1>2, <2>1, <2>5
<1>13. IsOpen'
  BY <1>2, <1>5, <1>7, <1>11, <1>12 DEF IsOpen
<1>14. IsEditing'
  BY <1>1, <1>2, <1>5, <1>6, <1>9, <1>10, <1>12, <1>13 DEF IsEditing
<1>15. Seen' = Seen
  BY <1>1, <1>2, <1>12 DEF Seen, IsEditing
<1> QED
  BY <1>5, <1>9, <1>14, <1>15 DEF GraphInv

\* The generation finalize_mutation advances to.
LEMMA AdvanceIs ==
  ASSUME IsEditing, Good(store)
  PROVE  /\ GoodChange(store, Advance)
         /\ Good(Edit(store, Advance))
         /\ Edit(store, Advance).nodes = store.nodes
         /\ Edit(store, Advance).edges = store.edges
         /\ Edit(store, Advance).generation = store.generation + 1
<1>1. PICK G, change : G = store /\ change = Advance
  OBVIOUS
<1>2. G.generation \in 0..MaxGeneration /\ G.generation < MaxGeneration /\ MaxGeneration \in Nat
  BY <1>1, StoreConstants DEF Good, IsEditing, IsOpen
<1>3. G.generation + 1 \in 0..MaxGeneration
  BY <1>2
<1>4. change.kind = "SetGeneration" /\ change.value = G.generation + 1 /\ change \in Changes
  BY <1>1, <1>3 DEF Advance, Change, Changes, Kinds
<1>5. GoodChange(G, change)
  BY <1>3, <1>4 DEF GoodChange, Applies, WellTyped, Kinds
<1>6. /\ Good(Edit(G, change))
      /\ Edit(G, change).nodes = NodesAfter(G.nodes, change)
      /\ Edit(G, change).edges = EdgesAfter(G.edges, change)
      /\ Edit(G, change).generation = GenerationAfter(G.generation, change)
  BY <1>1, <1>5, GoodEdit
<1> QED
  BY <1>1, <1>4, <1>5, <1>6 DEF NodesAfter, EdgesAfter, GenerationAfter

\* An editing transaction whose plan is done has made what the contract permits.
LEMMA PlanDone ==
  ASSUME IsEditing, Good(store), txn.plan = <<>>
  PROVE  /\ Permits(txn.before.nodes, txn.before.edges, txn.before.coordinator_epoch,
                    coordinator_epoch, store.nodes, store.edges)
         /\ Sound(store.nodes, store.edges)
<1>1. PICK N2, E2 :
        /\ Makes(store.nodes, store.edges, <<>>, N2, E2)
        /\ Permits(txn.before.nodes, txn.before.edges, txn.before.coordinator_epoch,
                   coordinator_epoch, N2, E2)
        /\ Sound(N2, E2)
  BY DEF IsEditing
<1>2. N2 = store.nodes /\ E2 = store.edges
  BY <1>1, NothingLeft DEF Good, Keyed
<1> QED
  BY <1>1, <1>2

\* finalize_mutation: callers see the whole mutation, with the next generation.
LEMMA CommitKeepsGraphInv ==
  ASSUME GraphInv, CommitMutation
  PROVE  GraphInv' /\ SeenMoves(Seen, Seen')
<1>1. IsEditing /\ Seen = txn.before /\ Good(store) /\ txn.plan = <<>>
  BY StageIs DEF CommitMutation, GraphInv
<1>2. PICK H : H = Edit(store, Advance)
  OBVIOUS
<1>3. store' = H /\ txn' = NoTxn /\ coordinator_epoch' = coordinator_epoch
  BY <1>2 DEF CommitMutation
<1>4. /\ Good(H) /\ H.nodes = store.nodes /\ H.edges = store.edges
      /\ H.generation = store.generation + 1
  BY <1>1, <1>2, AdvanceIs
<1>5. /\ Permits(Seen.nodes, Seen.edges, Seen.coordinator_epoch,
                 coordinator_epoch, store.nodes, store.edges)
      /\ Sound(store.nodes, store.edges)
  BY <1>1, PlanDone
<1>6. GraphInv'
  BY <1>3, <1>4, <1>5 DEF GraphInv, IsAtRest
<1>7. PICK S, T : S = Seen /\ T = Seen'
  OBVIOUS
<1>8. /\ T.nodes = store.nodes /\ T.edges = store.edges
      /\ T.generation = store.generation + 1 /\ T.coordinator_epoch = coordinator_epoch
  BY <1>3, <1>4, <1>7 DEF Seen, Visible, NoTxn
<1>9. S.generation < MaxGeneration /\ S.generation = store.generation
  BY <1>1, <1>7 DEF IsEditing, IsOpen
<1>10. SeenMoves(S, T)
  BY <1>5, <1>7, <1>8, <1>9 DEF SeenMoves
<1> QED
  BY <1>6, <1>7, <1>10

\* persist_locked fails: the advanced generation is in the log like any edit.
LEMMA FailureKeepsGraphInv ==
  ASSUME GraphInv, FailWrite
  PROVE  GraphInv' /\ Seen' = Seen
<1>1. IsEditing /\ Seen = txn.before /\ Good(store) /\ IsOpen
  BY StageIs DEF FailWrite, GraphInv, IsEditing
<1>2. PICK B, log, G : B = txn.before /\ log = txn.log /\ G = store
  OBVIOUS
<1>3. PICK change, H : change = Advance /\ H = Edit(G, change)
  OBVIOUS
<1>4. PICK longer : longer = Append(log, UndoOf(G, change))
  OBVIOUS
<1>5. store' = H /\ coordinator_epoch' = coordinator_epoch /\ WriteMayFail
      /\ txn' = [txn EXCEPT !.stage = "undoing", !.log = longer]
  BY <1>1, <1>2, <1>3, <1>4 DEF FailWrite, IsOpen
<1>6. Good(H) /\ GoodChange(G, change)
  BY <1>1, <1>2, <1>3, AdvanceIs
<1>7. Logged(Start(B), log, G)
  BY <1>1, <1>2 DEF IsOpen
<1>8. Logged(Start(B), longer, H)
  BY <1>1, <1>2, <1>3, <1>4, <1>6, <1>7, LogGrows
<1>9. longer # <<>>
  <2>1. log \in Seq(Changes) /\ UndoOf(G, change) \in Changes
    BY <1>1, <1>2, <1>6, <1>7, GoodUndo DEF Logged
  <2> QED
    BY <1>4, <2>1, AppendProperties
<1>10. /\ txn'.stage = "undoing" /\ txn'.log = longer /\ txn'.before = B
       /\ txn' = [stage |-> txn'.stage, plan |-> txn'.plan, log |-> txn'.log,
                  before |-> txn'.before]
  BY <1>1, <1>2, <1>5 DEF IsOpen
<1>11. IsOpen'
  BY <1>1, <1>2, <1>5, <1>8, <1>10 DEF IsOpen
<1>12. IsUndoing'
  BY <1>5, <1>9, <1>10, <1>11 DEF IsUndoing
<1>13. Seen' = Seen
  BY <1>1, <1>2, <1>10 DEF Seen
<1> QED
  BY <1>5, <1>6, <1>12, <1>13 DEF GraphInv

\* StateTxn::rollback: the last undo leaves the graph the transaction began with.
LEMMA UndoKeepsGraphInv ==
  ASSUME GraphInv, UndoEdit
  PROVE  GraphInv' /\ SeenMoves(Seen, Seen')
<1>1. IsUndoing /\ Seen = txn.before /\ IsOpen
  BY StageIs DEF UndoEdit, IsUndoing
<1>2. PICK B, log, G : B = txn.before /\ log = txn.log /\ G = store
  OBVIOUS
<1>3. PICK H : H = Edit(G, Last(log))
  OBVIOUS
<1>4. store' = H /\ coordinator_epoch' = coordinator_epoch
      /\ txn' = IF Len(log) = 1 THEN NoTxn ELSE [txn EXCEPT !.log = Front(@)]
  BY <1>2, <1>3 DEF UndoEdit
<1>5. /\ Good(H) /\ Logged(Start(B), Front(log), H)
      /\ Len(log) = 1 => H = Start(B)
      /\ Len(log) # 1 => Front(log) # <<>>
  <2>1. Logged(Start(B), log, G) /\ log # <<>>
    BY <1>1, <1>2 DEF IsOpen, IsUndoing
  <2> QED
    BY <1>3, <2>1, LogShrinks
<1>6. PICK S, T : S = Seen /\ T = Seen'
  OBVIOUS
<1>7. CASE Len(log) = 1
  <2>1. txn' = NoTxn /\ store' = Start(B)
    BY <1>4, <1>5, <1>7
  <2>2. H.nodes = B.nodes /\ H.edges = B.edges /\ H.generation = B.generation
    BY <1>5, <1>7 DEF Start, Indexed
  <2>3. Sound(H.nodes, H.edges)
    BY <1>1, <1>2, <2>2 DEF IsOpen
  <2>4. GraphInv'
    BY <1>4, <1>5, <2>1, <2>3 DEF GraphInv, IsAtRest
  <2>5. T = [nodes |-> H.nodes, edges |-> H.edges, generation |-> H.generation,
             coordinator_epoch |-> coordinator_epoch]
    BY <1>4, <1>6, <2>1 DEF Seen, Visible, NoTxn
  <2>6. T.nodes = B.nodes /\ T.edges = B.edges /\ T.generation = B.generation
        /\ T.coordinator_epoch = coordinator_epoch
    BY <2>2, <2>5
  <2>7. \/ coordinator_epoch = B.coordinator_epoch
        \/ /\ B.coordinator_epoch < MaxEpoch
           /\ coordinator_epoch = B.coordinator_epoch + 1
    BY <1>1, <1>2 DEF IsOpen
  <2>8. CASE coordinator_epoch = B.coordinator_epoch
    <3>1. S = [nodes |-> B.nodes, edges |-> B.edges, generation |-> B.generation,
               coordinator_epoch |-> B.coordinator_epoch]
      BY <1>1, <1>2, <1>6 DEF IsOpen
    <3>2. T = S
      BY <2>2, <2>5, <2>8, <3>1
    <3> QED
      BY <1>6, <2>4, <3>2 DEF SeenMoves
  <2>9. CASE coordinator_epoch # B.coordinator_epoch
    <3>1. S = B /\ WriteMayFail
      BY <1>1, <1>2, <1>6 DEF IsUndoing
    <3>2. SeenMoves(S, T)
      BY <2>6, <2>7, <2>9, <3>1 DEF SeenMoves
    <3> QED
      BY <1>6, <2>4, <3>2
  <2> QED
    BY <2>8, <2>9
<1>8. CASE Len(log) # 1
  <2>1. txn' = [txn EXCEPT !.log = Front(log)]
    BY <1>2, <1>4, <1>8
  <2>2. /\ txn'.stage = "undoing" /\ txn'.log = Front(log) /\ txn'.before = B
        /\ txn' = [stage |-> txn'.stage, plan |-> txn'.plan, log |-> txn'.log,
                   before |-> txn'.before]
    BY <1>1, <1>2, <2>1 DEF IsOpen, IsUndoing
  <2>3. IsOpen'
    BY <1>1, <1>2, <1>4, <1>5, <2>2 DEF IsOpen
  <2>4. IsUndoing'
    BY <1>1, <1>5, <1>8, <2>2, <2>3 DEF IsUndoing
  <2>5. GraphInv'
    BY <1>4, <1>5, <2>4 DEF GraphInv, IsOpen
  <2>6. T = S
    BY <1>1, <1>2, <1>6, <2>2 DEF Seen
  <2> QED
    BY <1>6, <2>5, <2>6 DEF SeenMoves
<1> QED
  BY <1>7, <1>8

-----------------------------------------------------------------------------
\* The mutations, each by what its plan makes.

\* A mutation that leaves the epoch alone.
LEMMA MutationBegins ==
  ASSUME GraphInv, NEW p, Begin(p), UNCHANGED <<store, coordinator_epoch>>,
         Fulfils(store, coordinator_epoch, p, coordinator_epoch)
  PROVE  GraphInv' /\ SeenMoves(Seen, Seen')
<1>1. PICK next : next = coordinator_epoch'
  OBVIOUS
<1>2. next = coordinator_epoch /\ Fulfils(store, coordinator_epoch, p, next)
  BY <1>1
<1>3. UNCHANGED store
  OBVIOUS
<1>4. GraphInv' /\ Seen' = Seen
  BY <1>1, <1>2, <1>3, BeginKeepsGraphInv
<1> QED
  BY <1>4 DEF SeenMoves

\* No mutation begins in the middle of another.
LEMMA RestIsSound ==
  ASSUME GraphInv, ExclusiveLockFree
  PROVE  /\ IsAtRest /\ Seen = Visible
         /\ Good(store) /\ Sound(store.nodes, store.edges)
         /\ coordinator_epoch \in Nat
BY StageIs, StoreConstants DEF ExclusiveLockFree, SharedLockFree, IsAtRest, GraphInv

\* add_node
LEMMA AddNodeKeepsGraphInv ==
  ASSUME GraphInv, NEW req \in NodeRequests, AddNode(req)
  PROVE  GraphInv' /\ SeenMoves(Seen, Seen')
<1>1. PICK p : p = AddNodePlan(req)
  OBVIOUS
<1>2. Begin(p) /\ p # <<>> /\ ExclusiveLockFree /\ UNCHANGED <<store, coordinator_epoch>>
  BY <1>1 DEF AddNode, Begin
<1>3. Good(store) /\ Sound(store.nodes, store.edges)
  BY <1>2, RestIsSound
<1>4. Fulfils(store, coordinator_epoch, p, coordinator_epoch)
  <2>1. CASE req.id \in DOMAIN store.nodes
    BY <1>1, <1>2, <1>3, <2>1, RefreshFulfils
  <2>2. CASE req.id \notin DOMAIN store.nodes
    BY <1>1, <1>2, <1>3, <2>2, InsertionFulfils
  <2> QED
    BY <2>1, <2>2
<1> QED
  BY <1>2, <1>4, MutationBegins

\* remove_node
LEMMA RemoveNodeKeepsGraphInv ==
  ASSUME GraphInv, NEW n, RemoveNode(n)
  PROVE  GraphInv' /\ SeenMoves(Seen, Seen')
<1>1. PICK p : p = RemoveNodePlan(n)
  OBVIOUS
<1>2. Begin(p) /\ p # <<>> /\ ExclusiveLockFree /\ UNCHANGED <<store, coordinator_epoch>>
  BY <1>1 DEF RemoveNode, Begin
<1>3. Fulfils(store, coordinator_epoch, p, coordinator_epoch)
  BY <1>1, <1>2, RestIsSound, RemovalFulfils
<1> QED
  BY <1>2, <1>3, MutationBegins

\* add_relationship
LEMMA AddRelationshipKeepsGraphInv ==
  ASSUME GraphInv, NEW req \in LinkRequests, AddRelationship(req)
  PROVE  GraphInv' /\ SeenMoves(Seen, Seen')
<1>1. PICK p : p = AddRelationshipPlan(req)
  OBVIOUS
<1>2. Begin(p) /\ p # <<>> /\ ExclusiveLockFree /\ UNCHANGED <<store, coordinator_epoch>>
  BY <1>1 DEF AddRelationship, Begin
<1>3. Fulfils(store, coordinator_epoch, p, coordinator_epoch)
  BY <1>1, <1>2, RestIsSound, LinkFulfils
<1> QED
  BY <1>2, <1>3, MutationBegins

\* retire_relationship, called directly or by detach_endpoint.
LEMMA RetireKeepsGraphInv ==
  ASSUME GraphInv, NEW e, NEW expected, NEW p, p = RetirePlan(e, expected), Begin(p),
         UNCHANGED <<store, coordinator_epoch>>
  PROVE  GraphInv' /\ SeenMoves(Seen, Seen')
<1>1. p # <<>> /\ ExclusiveLockFree
  BY DEF Begin
<1>2. Fulfils(store, coordinator_epoch, p, coordinator_epoch)
  BY <1>1, RestIsSound, RetirementFulfils
<1> QED
  BY <1>2, MutationBegins

\* fence_publisher
LEMMA FenceKeepsGraphInv ==
  ASSUME GraphInv, NEW q \in Publishers, FencePublisher(q)
  PROVE  GraphInv' /\ SeenMoves(Seen, Seen')
<1>1. PICK p : p = DemotePlan(Bucket(store.index.byPublisher, q))
  OBVIOUS
<1>2. Begin(p) /\ p # <<>> /\ ExclusiveLockFree /\ UNCHANGED <<store, coordinator_epoch>>
  BY <1>1 DEF FencePublisher, Begin
<1>3. Fulfils(store, coordinator_epoch, p, coordinator_epoch)
  BY <1>1, <1>2, RestIsSound, FenceFulfils
<1> QED
  BY <1>2, <1>3, MutationBegins

\* An epoch with nothing to demote is seen at once.
LEMMA EpochKeepsGraphInv ==
  ASSUME GraphInv, AdvanceCoordinatorEpoch
  PROVE  GraphInv' /\ SeenMoves(Seen, Seen')
<1>1. PICK p, next : p = DemotePlan(DOMAIN store.edges) /\ next = coordinator_epoch'
  OBVIOUS
<1>2. coordinator_epoch < MaxEpoch /\ next = coordinator_epoch + 1 /\ UNCHANGED store
  BY <1>1 DEF AdvanceCoordinatorEpoch
<1>3. CASE Begin(p)
  <2>1. p # <<>> /\ ExclusiveLockFree
    BY <1>3 DEF Begin
  <2>2. Fulfils(store, coordinator_epoch, p, coordinator_epoch + 1)
    BY <1>1, <1>2, <2>1, RestIsSound, EpochFulfils
  <2>3. GraphInv' /\ Seen' = Seen
    BY <1>1, <1>2, <1>3, <2>2, BeginKeepsGraphInv
  <2> QED
    BY <2>3 DEF SeenMoves
<1>4. CASE ExclusiveLockFree /\ p = <<>> /\ UNCHANGED txn
  <2>1. /\ IsAtRest /\ Seen = Visible /\ Good(store) /\ Sound(store.nodes, store.edges)
        /\ coordinator_epoch \in 1..MaxEpoch
    BY <1>4, RestIsSound DEF GraphInv
  <2>2. CurrentOf(store.edges, DOMAIN store.edges) = {}
    <3>1. PICK G, D : G = store /\ D = DOMAIN G.edges
      OBVIOUS
    <3>2. p = Edits("UpdateEdge", DemotedEdges(G.edges, CurrentOf(G.edges, D)))
      BY <1>1, <3>1 DEF DemotePlan, DemotedEdges, CurrentOf
    <3>3. PICK E2 : E2 = Overlaid(G.edges, DemotedEdges(G.edges, CurrentOf(G.edges, D)))
      OBVIOUS
    <3>4. p = <<>> <=> CurrentOf(G.edges, D) = {}
      BY <2>1, <3>1, <3>2, <3>3, DemotionsMake
    <3> QED
      BY <1>4, <3>1, <3>4
  <2>3. next \in 1..MaxEpoch
    BY <1>2, <2>1, StoreConstants
  <2>4. GraphInv'
    BY <1>1, <1>2, <1>4, <2>1, <2>3 DEF GraphInv, IsAtRest
  <2>5. PICK S, T : S = Seen /\ T = Seen'
    OBVIOUS
  <2>6. /\ S.nodes = store.nodes /\ S.edges = store.edges /\ S.generation = store.generation
        /\ S.coordinator_epoch = coordinator_epoch
    BY <2>1, <2>5 DEF Visible
  <2>7. /\ T.nodes = store.nodes /\ T.edges = store.edges /\ T.generation = store.generation
        /\ T.coordinator_epoch = next
    BY <1>1, <1>2, <1>4, <2>1, <2>5 DEF Seen, Visible, IsAtRest, NoTxn
  <2>8. SeenMoves(S, T)
    BY <1>2, <2>2, <2>6, <2>7 DEF SeenMoves
  <2> QED
    BY <2>4, <2>5, <2>8
<1> QED
  BY <1>1, <1>3, <1>4 DEF AdvanceCoordinatorEpoch

\* Steps of readers and lookups leave the graph alone.
LEMMA FrameKeepsGraphInv ==
  ASSUME GraphInv, UNCHANGED <<store, coordinator_epoch, txn>>
  PROVE  GraphInv' /\ Seen' = Seen
BY DEF GraphInv, Seen, Visible, IsAtRest, IsEditing, IsUndoing, IsOpen

\* Every step keeps the graph sound and lets callers see one mutation at most.
LEMMA StepKeepsGraphInv ==
  ASSUME GraphInv, [Next]_vars
  PROVE  GraphInv' /\ SeenMoves(Seen, Seen')
<1>1. CASE UNCHANGED <<store, coordinator_epoch, txn>>
  BY <1>1, FrameKeepsGraphInv DEF SeenMoves
<1>2. CASE Mutation
  <2>1. CASE \E e \in RetiredEdges : RetireRelationship(e)
    <3>1. PICK e : RetireRelationship(e)
      BY <2>1
    <3>2. PICK p : p = RetirePlan(e, 0)
      OBVIOUS
    <3>3. Begin(p) /\ UNCHANGED <<store, coordinator_epoch>>
      BY <3>1, <3>2 DEF RetireRelationship, Begin
    <3> QED
      BY <3>2, <3>3, RetireKeepsGraphInv
  <2> QED
    BY <1>2, <2>1, AddNodeKeepsGraphInv, RemoveNodeKeepsGraphInv,
       AddRelationshipKeepsGraphInv, FenceKeepsGraphInv, EpochKeepsGraphInv DEF Mutation
<1>3. CASE Transaction
  BY <1>3, EditKeepsGraphInv, CommitKeepsGraphInv, FailureKeepsGraphInv, UndoKeepsGraphInv
  DEF Transaction, SeenMoves
<1>4. CASE \E r \in Readers : Snapshot(r)
  <2>1. UNCHANGED <<store, coordinator_epoch, txn>>
    BY <1>4 DEF Snapshot, StartSnapshot, CopyEdges, RecordSnapshot, DiscardCopy,
       RetrySnapshot, SnapshotSerialised, Record
  <2> QED
    BY <1>1, <2>1
<1>5. CASE Detach
  <2>1. CASE RetireFound
    <3>1. PICK e, expected, p : e = detach.edge /\ expected = detach.expected
                                /\ p = RetirePlan(e, expected)
      OBVIOUS
    <3>2. UNCHANGED <<store, coordinator_epoch>> /\ (Begin(p) \/ UNCHANGED txn)
      BY <2>1, <3>1 DEF RetireFound, Begin
    <3>3. CASE Begin(p)
      BY <3>1, <3>2, <3>3, RetireKeepsGraphInv
    <3> QED
      BY <1>1, <3>2, <3>3
  <2>2. CASE \E call \in DetachRequests, expected \in 0..MaxGeneration :
               FindAttachment(call[1], call[2], expected)
    BY <1>1, <2>2 DEF FindAttachment
  <2> QED
    BY <1>5, <2>1, <2>2 DEF Detach
<1> QED
  BY <1>1, <1>2, <1>3, <1>4, <1>5 DEF Next, vars

-----------------------------------------------------------------------------
\* The invariant of the calls that come back: what each of them holds is of the
\* moment its generation names.

\* A copy c of a scope was made of the graph S or of an earlier one.
TakenOf(c, scope, S) ==
  /\ c.topology_generation \in Nat /\ c.topology_generation <= S.generation
  /\ c.coordinator_epoch \in Nat /\ c.coordinator_epoch <= S.coordinator_epoch
  /\ c.topology_generation = S.generation =>
       /\ c.nodes = NodesInScope(S.nodes, scope)
       /\ c.edges = EdgesInScope(S.edges, scope)

\* Nobody changes the graph under a reader that is copying.
ReaderInv ==
  /\ DOMAIN readers = Readers
  /\ \A r \in Readers :
       /\ readers[r].pc = "copying" =>
            /\ txn.stage = "none"
            /\ readers[r].topology_generation = store.generation
            /\ readers[r].coordinator_epoch = coordinator_epoch
            /\ readers[r].nodes = NodesInScope(store.nodes, ScopeOf[r])
       /\ readers[r].pc = "copied" => TakenOf(readers[r], ScopeOf[r], Seen)

SnapshotInv ==
  /\ \E W : snapshots \in Seq(W)
  /\ snapshot_counter \in Nat
  /\ Len(snapshots) <= SnapshotHistory
  /\ \A i \in 1..Len(snapshots) :
       /\ snapshots[i].snapshot_generation = snapshot_counter - Len(snapshots) + i
       /\ TakenOf(snapshots[i], snapshots[i].scope, Seen)

\* The edge a detach call found under generation g still holds the attachment
\* as long as the graph S is of that generation.
StillHeld(found, S) ==
  found.expected # 0 =>
    /\ found.expected \in Nat /\ found.expected <= S.generation
    /\ found.expected = S.generation =>
         /\ found.edge \in DOMAIN S.edges
         /\ HoldsAttachment(S.edges[found.edge], found.attachment, found.endpoint)

DetachInv == detach.pc = "found" => StillHeld(detach, Seen)

StoreInv == GraphInv /\ ReaderInv /\ SnapshotInv /\ DetachInv

-----------------------------------------------------------------------------
\* What callers see never goes back.

\* The generation and the epoch callers see are within their bounds.
LEMMA SeenIsTyped ==
  ASSUME GraphInv
  PROVE  Seen.generation \in 0..MaxGeneration /\ Seen.coordinator_epoch \in 1..MaxEpoch
<1>1. CASE txn.stage = "none"
  BY <1>1, StageIs DEF GraphInv, Good, Visible
<1>2. CASE txn.stage # "none"
  <2>1. IsOpen /\ Seen = txn.before
    BY <1>2, StageIs DEF GraphInv, IsEditing, IsUndoing
  <2>2. Start(txn.before).generation = txn.before.generation
    BY DEF Start, Indexed
  <2> QED
    BY <2>1, <2>2 DEF IsOpen, Good
<1> QED
  BY <1>1, <1>2

\* A generation is never seen twice with different graphs.
LEMMA SeenGrows ==
  ASSUME NEW S, NEW T, SeenMoves(S, T),
         S.generation \in 0..MaxGeneration, S.coordinator_epoch \in 1..MaxEpoch
  PROVE  /\ S.generation <= T.generation /\ T.generation \in Nat
         /\ S.coordinator_epoch <= T.coordinator_epoch /\ T.coordinator_epoch \in Nat
         /\ T.generation = S.generation => T.nodes = S.nodes /\ T.edges = S.edges
<1>1. S.generation \in Nat /\ S.coordinator_epoch \in Nat
  BY StoreConstants
<1>2. CASE T = S
  BY <1>1, <1>2
<1>3. CASE /\ T.generation = S.generation + 1
           /\ Permits(S.nodes, S.edges, S.coordinator_epoch, T.coordinator_epoch,
                      T.nodes, T.edges)
  <2>1. T.coordinator_epoch \in {S.coordinator_epoch, S.coordinator_epoch + 1}
    BY <1>3 DEF Permits
  <2> QED
    BY <1>1, <1>3, <2>1
<1>4. CASE /\ T.coordinator_epoch = S.coordinator_epoch + 1
           /\ T.nodes = S.nodes /\ T.edges = S.edges /\ T.generation = S.generation
  BY <1>1, <1>4
<1> QED
  BY <1>2, <1>3, <1>4 DEF SeenMoves

\* A copy that was of its moment stays so.
LEMMA TakenStays ==
  ASSUME NEW S, NEW T, SeenMoves(S, T),
         S.generation \in 0..MaxGeneration, S.coordinator_epoch \in 1..MaxEpoch,
         NEW c, NEW scope, TakenOf(c, scope, S)
  PROVE  TakenOf(c, scope, T)
<1>1. /\ S.generation <= T.generation /\ T.generation \in Nat
      /\ S.coordinator_epoch <= T.coordinator_epoch /\ T.coordinator_epoch \in Nat
      /\ T.generation = S.generation => T.nodes = S.nodes /\ T.edges = S.edges
  BY SeenGrows
<1>2. S.generation \in Nat /\ S.coordinator_epoch \in Nat
  BY StoreConstants
<1>3. /\ c.topology_generation \in Nat /\ c.topology_generation <= S.generation
      /\ c.coordinator_epoch \in Nat /\ c.coordinator_epoch <= S.coordinator_epoch
  BY DEF TakenOf
<1>4. c.topology_generation = T.generation => T.generation = S.generation
  BY <1>1, <1>2, <1>3
<1> QED
  BY <1>1, <1>2, <1>3, <1>4 DEF TakenOf

\* And so does an edge that was found.
LEMMA HeldStays ==
  ASSUME NEW S, NEW T, SeenMoves(S, T),
         S.generation \in 0..MaxGeneration, S.coordinator_epoch \in 1..MaxEpoch,
         NEW found, StillHeld(found, S)
  PROVE  StillHeld(found, T)
<1>1. /\ S.generation <= T.generation /\ T.generation \in Nat
      /\ T.generation = S.generation => T.nodes = S.nodes /\ T.edges = S.edges
  BY SeenGrows
<1>2. S.generation \in Nat
  BY StoreConstants
<1>3. SUFFICES ASSUME found.expected # 0 PROVE StillHeld(found, T)
  BY DEF StillHeld
<1>4. found.expected \in Nat /\ found.expected <= S.generation
  BY <1>3 DEF StillHeld
<1>5. found.expected = T.generation => T.generation = S.generation
  BY <1>1, <1>2, <1>4
<1> QED
  BY <1>1, <1>2, <1>3, <1>4, <1>5 DEF StillHeld

\* The graph changes only while no reader is copying, and none starts to.
LEMMA GraphStepsSpareReaders ==
  ASSUME StoreInv, [Next]_vars, UNCHANGED readers,
         ~UNCHANGED <<store, coordinator_epoch, txn>>
  PROVE  /\ \A r \in Readers : readers[r].pc # "copying"
         /\ UNCHANGED <<snapshots, snapshot_counter>>
         /\ detach' = detach \/ detach' = Idle
<1>1. ExclusiveLockFree => \A r \in Readers : readers[r].pc # "copying"
  BY DEF ExclusiveLockFree
<1>2. txn.stage # "none" => \A r \in Readers : readers[r].pc # "copying"
  BY DEF StoreInv, ReaderInv
<1>3. CASE Mutation
  BY <1>1, <1>3 DEF Mutation, AddNode, RemoveNode, AddRelationship, RetireRelationship,
     FencePublisher, AdvanceCoordinatorEpoch, Begin
<1>4. CASE Transaction
  BY <1>2, <1>4 DEF Transaction, MakeEdit, CommitMutation, FailWrite, UndoEdit
<1>5. ~\E r \in Readers : Snapshot(r)
  BY DEF Snapshot, StartSnapshot, CopyEdges, RecordSnapshot, DiscardCopy,
     RetrySnapshot, SnapshotSerialised, Record
<1>6. CASE Detach
  BY <1>1, <1>6 DEF Detach, FindAttachment, RetireFound, Begin
<1> QED
  BY <1>3, <1>4, <1>5, <1>6 DEF Next, vars

-----------------------------------------------------------------------------
\* The steps of the calls.

\* A step of the graph, or none.
LEMMA GraphStepKeepsStoreInv ==
  ASSUME StoreInv, [Next]_vars, UNCHANGED <<readers, snapshots, snapshot_counter>>,
         detach' = detach \/ detach' = Idle
  PROVE  StoreInv'
<1>1. GraphInv' /\ SeenMoves(Seen, Seen')
  BY StepKeepsGraphInv DEF StoreInv
<1>2. PICK S, T : S = Seen /\ T = Seen'
  OBVIOUS
<1>3. /\ SeenMoves(S, T)
      /\ S.generation \in 0..MaxGeneration /\ S.coordinator_epoch \in 1..MaxEpoch
  BY <1>1, <1>2, SeenIsTyped DEF StoreInv
<1>4. ReaderInv'
  <2>1. ASSUME NEW r \in Readers
        PROVE  /\ readers[r].pc = "copying" => UNCHANGED <<store, coordinator_epoch, txn>>
               /\ readers[r].pc = "copied" => TakenOf(readers[r], ScopeOf[r], T)
    <3>1. readers[r].pc = "copying" => UNCHANGED <<store, coordinator_epoch, txn>>
      BY GraphStepsSpareReaders
    <3>2. ASSUME readers[r].pc = "copied" PROVE TakenOf(readers[r], ScopeOf[r], T)
      <4>1. PICK c, scope : c = readers[r] /\ scope = ScopeOf[r]
        OBVIOUS
      <4>2. TakenOf(c, scope, S)
        BY <1>2, <3>2, <4>1 DEF StoreInv, ReaderInv
      <4>3. TakenOf(c, scope, T)
        BY <1>3, <4>2, TakenStays
      <4> QED
        BY <4>1, <4>3
    <3> QED
      BY <3>1, <3>2
  <2> QED
    BY <1>2, <2>1 DEF StoreInv, ReaderInv
<1>5. SnapshotInv'
  <2>1. ASSUME NEW i \in 1..Len(snapshots)
        PROVE  TakenOf(snapshots[i], snapshots[i].scope, T)
    <3>1. PICK c, scope : c = snapshots[i] /\ scope = c.scope
      OBVIOUS
    <3>2. TakenOf(c, scope, S)
      BY <1>2, <3>1 DEF StoreInv, SnapshotInv
    <3>3. TakenOf(c, scope, T)
      BY <1>3, <3>2, TakenStays
    <3> QED
      BY <3>1, <3>3
  <2> QED
    BY <1>2, <2>1 DEF StoreInv, SnapshotInv
<1>6. DetachInv'
  <2>1. CASE detach' = Idle
    BY <2>1 DEF DetachInv, Idle
  <2>2. ASSUME detach' = detach, detach.pc = "found" PROVE StillHeld(detach, T)
    <3>1. PICK found : found = detach
      OBVIOUS
    <3>2. StillHeld(found, S)
      BY <1>2, <2>2, <3>1 DEF StoreInv, DetachInv
    <3>3. StillHeld(found, T)
      BY <1>3, <3>2, HeldStays
    <3> QED
      BY <3>1, <3>3
  <2> QED
    BY <1>2, <2>1, <2>2 DEF DetachInv
<1> QED
  BY <1>1, <1>4, <1>5, <1>6 DEF StoreInv

\* A step of one reader: its own record changes, and nothing else of the
\* invariant does.
LEMMA ReaderStepKeepsStoreInv ==
  ASSUME StoreInv, [Next]_vars, NEW r \in Readers, NEW mine,
         readers' = [readers EXCEPT ![r] = mine],
         UNCHANGED <<store, coordinator_epoch, txn, detach>>,
         mine.pc = "copying" =>
            /\ txn.stage = "none"
            /\ mine.topology_generation = store.generation
            /\ mine.coordinator_epoch = coordinator_epoch
            /\ mine.nodes = NodesInScope(store.nodes, ScopeOf[r]),
         mine.pc = "copied" => TakenOf(mine, ScopeOf[r], Seen),
         SnapshotInv'
  PROVE  StoreInv'
<1>1. GraphInv' /\ Seen' = Seen
  BY FrameKeepsGraphInv DEF StoreInv
<1>2. /\ DOMAIN readers' = Readers
      /\ \A q \in Readers : readers'[q] = IF q = r THEN mine ELSE readers[q]
  BY DEF StoreInv, ReaderInv
<1>3. ReaderInv'
  BY <1>1, <1>2 DEF StoreInv, ReaderInv
<1>4. DetachInv'
  BY <1>1 DEF StoreInv, DetachInv
<1> QED
  BY <1>1, <1>3, <1>4 DEF StoreInv

\* h2 is the end of h followed by s.
EndsWith(h2, h, s) ==
  \A i \in 1..Len(h2) :
    \/ i = Len(h2) /\ h2[i] = s
    \/ /\ i < Len(h2)
       /\ i + (Len(h) + 1 - Len(h2)) \in 1..Len(h)
       /\ h2[i] = h[i + (Len(h) + 1 - Len(h2))]

\* The history after a snapshot joins it.
LEMMA RememberedIs ==
  ASSUME NEW W, NEW h \in Seq(W), NEW s \in W, SnapshotHistory \in Nat,
         Len(h) <= SnapshotHistory, NEW h2, h2 = Atomic!Remembered(h, s)
  PROVE  /\ h2 \in Seq(W)
         /\ Len(h2) <= SnapshotHistory
         /\ SnapshotHistory # 0 => Len(h2) # 0
         /\ EndsWith(h2, h, s)
<1>1. PICK grown : grown = Append(h, s)
  OBVIOUS
<1>2. /\ grown \in Seq(W) /\ Len(grown) = Len(h) + 1 /\ Len(h) \in Nat
      /\ \A i \in 1..Len(h) : grown[i] = h[i]
      /\ grown[Len(h) + 1] = s
  BY <1>1, AppendProperties, LenProperties
<1>3. PICK excess : excess = IF Len(grown) > SnapshotHistory THEN Len(grown) - SnapshotHistory
                             ELSE 0
  OBVIOUS
<1>4. /\ excess \in {0, 1}
      /\ excess = 1 <=> Len(h) = SnapshotHistory
  BY <1>2, <1>3
<1>5. h2 = SubSeq(grown, excess + 1, Len(grown))
  BY <1>1, <1>3 DEF Atomic!Remembered
<1>6. /\ h2 \in Seq(W) /\ Len(h2) = Len(h) + 1 - excess
      /\ \A i \in 1..Len(h2) : h2[i] = grown[i + excess]
  BY <1>2, <1>4, <1>5, SubSeqProperties
<1>7. \A i \in 1..Len(h2) :
        /\ i + excess \in 1..(Len(h) + 1)
        /\ i = Len(h2) <=> i + excess = Len(h) + 1
  BY <1>2, <1>4, <1>6
<1>9. excess = Len(h) + 1 - Len(h2)
  BY <1>2, <1>4, <1>6
<1>10. Len(h2) <= SnapshotHistory
  BY <1>2, <1>4, <1>6
<1>11. ASSUME NEW i \in 1..Len(h2)
       PROVE  \/ i = Len(h2) /\ h2[i] = s
              \/ i < Len(h2) /\ i + excess \in 1..Len(h) /\ h2[i] = h[i + excess]
  BY <1>2, <1>4, <1>6, <1>7
<1>12. SnapshotHistory # 0 => Len(h2) # 0
  BY <1>2, <1>4, <1>6
<1> QED
  BY <1>6, <1>9, <1>10, <1>11, <1>12 DEF EndsWith

\* A snapshot of the graph joins the history under the next ordinal.
LEMMA RecordKeepsSnapshotInv ==
  ASSUME StoreInv, NEW r \in Readers, NEW s, Record(r, s),
         s.snapshot_generation = snapshot_counter + 1, TakenOf(s, s.scope, Seen)
  PROVE  SnapshotInv'
<1>1. PICK W0 : snapshots \in Seq(W0)
  BY DEF StoreInv, SnapshotInv
<1>2. PICK W, h, h2, n, S : /\ W = W0 \cup {s} /\ h = snapshots /\ h2 = Atomic!Remembered(h, s)
                            /\ n = snapshot_counter /\ S = Seen
  OBVIOUS
<1>3. /\ snapshots' = h2 /\ snapshot_counter' = n + 1
      /\ UNCHANGED <<store, coordinator_epoch, txn>>
  BY <1>2 DEF Record
<1>4. Seen' = S
  BY <1>2, <1>3, FrameKeepsGraphInv DEF StoreInv
<1>5. h \in Seq(W) /\ s \in W /\ Len(h) \in Nat
  <2>1. W0 \subseteq W
    BY <1>2
  <2> QED
    BY <1>1, <1>2, <2>1, SeqMonotonic, LenProperties
<1>6. SnapshotHistory \in Nat /\ Len(h) <= SnapshotHistory /\ n \in Nat
  BY <1>2, StoreConstants DEF StoreInv, SnapshotInv
<1>7. /\ h2 \in Seq(W)
      /\ Len(h2) <= SnapshotHistory
      /\ EndsWith(h2, h, s)
  BY <1>2, <1>5, <1>6, RememberedIs
<1>8. Len(h2) \in Nat
  BY <1>7, LenProperties
<1>9. \A j \in 1..Len(h) : /\ h[j].snapshot_generation = n - Len(h) + j
                           /\ TakenOf(h[j], h[j].scope, S)
  BY <1>2 DEF StoreInv, SnapshotInv
<1>10. ASSUME NEW i \in 1..Len(h2)
       PROVE  /\ h2[i].snapshot_generation = n + 1 - Len(h2) + i
              /\ TakenOf(h2[i], h2[i].scope, S)
  <2>1. CASE i = Len(h2) /\ h2[i] = s
    BY <1>2, <1>6, <1>8, <2>1
  <2>2. ASSUME NEW j, j = i + (Len(h) + 1 - Len(h2)), j \in 1..Len(h), h2[i] = h[j]
        PROVE  /\ h2[i].snapshot_generation = n + 1 - Len(h2) + i
               /\ TakenOf(h2[i], h2[i].scope, S)
    <3>1. h[j].snapshot_generation = n - Len(h) + j /\ TakenOf(h[j], h[j].scope, S)
      BY <1>9, <2>2
    <3>2. n - Len(h) + j = n + 1 - Len(h2) + i
      BY <1>5, <1>6, <1>8, <2>2
    <3> QED
      BY <2>2, <3>1, <3>2
  <2> QED
    BY <1>7, <2>1, <2>2 DEF EndsWith
<1> QED
  BY <1>3, <1>4, <1>6, <1>7, <1>10 DEF SnapshotInv

\* No transaction is open: the graph is the one callers see.
LEMMA SharedIsSound ==
  ASSUME GraphInv, SharedLockFree
  PROVE  /\ Seen = Visible /\ Good(store)
         /\ Seen.nodes = store.nodes /\ Seen.edges = store.edges
         /\ Seen.generation = store.generation
         /\ Seen.coordinator_epoch = coordinator_epoch
         /\ store.generation \in Nat /\ coordinator_epoch \in Nat
BY StageIs, StoreConstants DEF SharedLockFree, GraphInv, Good, Visible

\* snapshot() copies the nodes under the shared lock.
LEMMA CopyingKeepsStoreInv ==
  ASSUME StoreInv, [Next]_vars, NEW r \in Readers, NEW attempt, CopyNodes(r, attempt),
         UNCHANGED <<store, coordinator_epoch, txn, snapshots, snapshot_counter, detach>>
  PROVE  StoreInv'
<1>1. PICK mine :
        mine = [pc |-> "copying", attempt |-> attempt,
                topology_generation |-> store.generation, coordinator_epoch |-> coordinator_epoch,
                nodes |-> NodesInScope(store.nodes, ScopeOf[r])]
  OBVIOUS
<1>2. readers' = [readers EXCEPT ![r] = mine] /\ txn.stage = "none"
  BY <1>1 DEF CopyNodes, SharedLockFree
<1>3. SnapshotInv'
  BY FrameKeepsGraphInv DEF StoreInv, SnapshotInv
<1> QED
  BY <1>1, <1>2, <1>3, ReaderStepKeepsStoreInv

\* The edges are copied under the same lock, so they are of the same moment.
LEMMA CopiedKeepsStoreInv ==
  ASSUME StoreInv, [Next]_vars, NEW r \in Readers, CopyEdges(r)
  PROVE  StoreInv'
<1>1. PICK c, mine :
        /\ c = readers[r]
        /\ mine = [pc |-> "copied", attempt |-> c.attempt,
                   topology_generation |-> c.topology_generation,
                   coordinator_epoch |-> c.coordinator_epoch, nodes |-> c.nodes,
                   edges |-> EdgesInScope(store.edges, ScopeOf[r])]
  OBVIOUS
<1>2. /\ r \in DOMAIN readers
      /\ readers' = [readers EXCEPT ![r] = mine]
  BY <1>1 DEF CopyEdges, StoreInv, ReaderInv
<1>3. /\ SharedLockFree
      /\ c.topology_generation = store.generation /\ c.coordinator_epoch = coordinator_epoch
      /\ c.nodes = NodesInScope(store.nodes, ScopeOf[r])
  BY <1>1 DEF CopyEdges, StoreInv, ReaderInv, SharedLockFree
<1>4. TakenOf(mine, ScopeOf[r], Seen)
  BY <1>1, <1>3, SharedIsSound DEF StoreInv, TakenOf
<1>5. UNCHANGED <<store, coordinator_epoch, txn, snapshots, snapshot_counter, detach>>
  BY DEF CopyEdges
<1>6. SnapshotInv'
  BY <1>5, FrameKeepsGraphInv DEF StoreInv, SnapshotInv
<1> QED
  BY <1>1, <1>2, <1>4, <1>5, <1>6, ReaderStepKeepsStoreInv

\* An overtaken copy is thrown away.
LEMMA DiscardKeepsStoreInv ==
  ASSUME StoreInv, [Next]_vars, NEW r \in Readers, DiscardCopy(r)
  PROVE  StoreInv'
<1>1. PICK c, mine : c = readers[r] /\ mine = [pc |-> "retrying", attempt |-> c.attempt + 1]
  OBVIOUS
<1>2. r \in DOMAIN readers /\ readers' = [readers EXCEPT ![r] = mine]
  BY <1>1 DEF DiscardCopy, StoreInv, ReaderInv
<1>3. UNCHANGED <<store, coordinator_epoch, txn, snapshots, snapshot_counter, detach>>
  BY DEF DiscardCopy
<1>4. SnapshotInv'
  BY <1>3, FrameKeepsGraphInv DEF StoreInv, SnapshotInv
<1> QED
  BY <1>1, <1>2, <1>3, <1>4, ReaderStepKeepsStoreInv

\* Recording a snapshot ends the call.
LEMMA RecordKeepsStoreInv ==
  ASSUME StoreInv, [Next]_vars, NEW r \in Readers, NEW s, Record(r, s),
         s.snapshot_generation = snapshot_counter + 1, TakenOf(s, s.scope, Seen)
  PROVE  StoreInv'
<1>1. SnapshotInv'
  BY RecordKeepsSnapshotInv
<1>2. readers' = [readers EXCEPT ![r] = Idle] /\ UNCHANGED <<store, coordinator_epoch, txn, detach>>
  BY DEF Record
<1>3. PICK mine : mine = Idle
  OBVIOUS
<1>4. mine.pc = "idle" /\ readers' = [readers EXCEPT ![r] = mine]
  BY <1>2, <1>3 DEF Idle
<1> QED
  BY <1>1, <1>2, <1>4, ReaderStepKeepsStoreInv

\* The two snapshots that may be recorded, and that each is of the graph now.
LEMMA CopyIsOfNow ==
  ASSUME StoreInv, NEW r \in Readers, RecordSnapshot(r)
  PROVE  \E s : /\ Record(r, s)
                /\ s = Atomic!SnapshotOf(Seen.nodes, Seen.edges, Seen.generation,
                                         Seen.coordinator_epoch, ScopeOf[r],
                                         snapshot_counter + 1)
<1>1. PICK c, S, scope : c = readers[r] /\ S = Seen /\ scope = ScopeOf[r]
  OBVIOUS
<1>2. PICK s : s = [snapshot_generation |-> snapshot_counter + 1,
                    topology_generation |-> c.topology_generation,
                    coordinator_epoch |-> c.coordinator_epoch, scope |-> scope,
                    nodes |-> c.nodes, edges |-> c.edges]
  OBVIOUS
<1>3. /\ Record(r, s) /\ SharedLockFree /\ c.pc = "copied"
      /\ c.topology_generation = store.generation /\ c.coordinator_epoch = coordinator_epoch
  BY <1>1, <1>2 DEF RecordSnapshot, ExclusiveLockFree, IsStillCurrent
<1>4. S.generation = store.generation /\ S.coordinator_epoch = coordinator_epoch
  BY <1>1, <1>3, SharedIsSound DEF StoreInv
<1>5. TakenOf(c, scope, S)
  BY <1>1, <1>3 DEF StoreInv, ReaderInv
<1>6. c.nodes = NodesInScope(S.nodes, scope) /\ c.edges = EdgesInScope(S.edges, scope)
  BY <1>3, <1>4, <1>5 DEF TakenOf
<1>7. c.nodes = Atomic!NodesInScope(S.nodes, scope) /\ c.edges = Atomic!EdgesInScope(S.edges, scope)
  BY <1>6, SameScopes
<1>8. s = Atomic!SnapshotOf(S.nodes, S.edges, S.generation, S.coordinator_epoch, scope,
                            snapshot_counter + 1)
  BY <1>2, <1>3, <1>4, <1>7 DEF Atomic!SnapshotOf
<1> QED
  BY <1>1, <1>3, <1>8

\* The snapshot built under the exclusive lock.
LEMMA SerialisedIsOfNow ==
  ASSUME StoreInv, NEW r \in Readers, SnapshotSerialised(r)
  PROVE  \E s : /\ Record(r, s)
                /\ s = Atomic!SnapshotOf(Seen.nodes, Seen.edges, Seen.generation,
                                         Seen.coordinator_epoch, ScopeOf[r],
                                         snapshot_counter + 1)
<1>1. PICK s : s = Atomic!SnapshotOf(store.nodes, store.edges, store.generation,
                                     coordinator_epoch, ScopeOf[r], snapshot_counter + 1)
  OBVIOUS
<1>2. Record(r, s) /\ SharedLockFree
  BY <1>1 DEF SnapshotSerialised, ExclusiveLockFree
<1>3. /\ Seen.nodes = store.nodes /\ Seen.edges = store.edges
      /\ Seen.generation = store.generation
      /\ Seen.coordinator_epoch = coordinator_epoch
  BY <1>2, SharedIsSound DEF StoreInv
<1> QED
  BY <1>1, <1>2, <1>3

\* A snapshot of the graph is of its moment.
LEMMA NowIsTaken ==
  ASSUME NEW S, S.generation \in Nat, S.coordinator_epoch \in Nat, NEW scope, NEW n, NEW s,
         s = Atomic!SnapshotOf(S.nodes, S.edges, S.generation, S.coordinator_epoch, scope, n)
  PROVE  s.snapshot_generation = n /\ s.scope = scope /\ TakenOf(s, s.scope, S)
<1>1. /\ s.snapshot_generation = n /\ s.scope = scope
      /\ s.topology_generation = S.generation /\ s.coordinator_epoch = S.coordinator_epoch
      /\ s.nodes = Atomic!NodesInScope(S.nodes, scope)
      /\ s.edges = Atomic!EdgesInScope(S.edges, scope)
  BY DEF Atomic!SnapshotOf
<1>2. s.nodes = NodesInScope(S.nodes, scope) /\ s.edges = EdgesInScope(S.edges, scope)
  BY <1>1, SameScopes
<1> QED
  BY <1>1, <1>2 DEF TakenOf

\* Either way the history takes a snapshot of the graph now.
LEMMA RecordingKeepsStoreInv ==
  ASSUME StoreInv, [Next]_vars, NEW r \in Readers, RecordSnapshot(r) \/ SnapshotSerialised(r)
  PROVE  StoreInv'
<1>1. PICK s : /\ Record(r, s)
               /\ s = Atomic!SnapshotOf(Seen.nodes, Seen.edges, Seen.generation,
                                        Seen.coordinator_epoch, ScopeOf[r],
                                        snapshot_counter + 1)
  BY CopyIsOfNow, SerialisedIsOfNow
<1>2. PICK S, scope, n : S = Seen /\ scope = ScopeOf[r] /\ n = snapshot_counter + 1
  OBVIOUS
<1>3. S.generation \in Nat /\ S.coordinator_epoch \in Nat
  BY <1>2, SeenIsTyped, StoreConstants DEF StoreInv
<1>4. s.snapshot_generation = n /\ TakenOf(s, s.scope, S)
  BY <1>1, <1>2, <1>3, NowIsTaken
<1> QED
  BY <1>1, <1>2, <1>4, RecordKeepsStoreInv

\* The edge detach_endpoint finds by the attachment index holds the attachment.
LEMMA FindKeepsStoreInv ==
  ASSUME StoreInv, NEW attachment \in Attachments, NEW endpoint, NEW expected,
         FindAttachment(attachment, endpoint, expected)
  PROVE  StoreInv'
<1>1. UNCHANGED <<store, coordinator_epoch, txn, snapshots, snapshot_counter, readers>>
  BY DEF FindAttachment
<1>2. GraphInv' /\ Seen' = Seen
  BY <1>1, FrameKeepsGraphInv DEF StoreInv
<1>3. ReaderInv' /\ SnapshotInv'
  BY <1>1, <1>2 DEF StoreInv, ReaderInv, SnapshotInv
<1>4. DetachInv'
  <2>1. PICK e \in Bucket(store.index.byAttachment, attachment) :
          /\ HoldsAttachment(store.edges[e], attachment, endpoint)
          /\ detach' = [pc |-> "found", edge |-> e, attachment |-> attachment,
                        endpoint |-> endpoint, expected |-> expected]
    BY DEF FindAttachment
  <2>2. PICK found, S : /\ S = Seen
                        /\ found = [pc |-> "found", edge |-> e, attachment |-> attachment,
                                    endpoint |-> endpoint, expected |-> expected]
    OBVIOUS
  <2>3. /\ SharedLockFree /\ expected \in {0, store.generation}
    BY DEF FindAttachment
  <2>4. /\ S.edges = store.edges /\ S.generation = store.generation
        /\ Good(store) /\ store.generation \in Nat
    BY <2>2, <2>3, SharedIsSound DEF StoreInv
  <2>5. e \in DOMAIN store.edges
    <3>1. PICK G : G = store
      OBVIOUS
    <3>2. Bucket(G.index.byAttachment, attachment) = OfAttachment(G.edges, attachment)
      BY <2>4, <3>1, IndexSays
    <3> QED
      BY <2>1, <3>1, <3>2 DEF OfAttachment
  <2>6. StillHeld(found, S)
    BY <2>1, <2>2, <2>3, <2>4, <2>5 DEF StillHeld
  <2> QED
    BY <1>2, <2>1, <2>2, <2>6 DEF DetachInv
<1> QED
  BY <1>2, <1>3, <1>4 DEF StoreInv

\* No call is under way at the start.
LEMMA StartsWithStoreInv == Init => StoreInv
<1> SUFFICES ASSUME Init PROVE StoreInv
  OBVIOUS
<1>1. GraphInv
  BY StartsWithGraphInv
<1>2. ReaderInv
  BY DEF Init, ReaderInv, Idle
<1>3. SnapshotInv
  <2>1. snapshots = <<>> /\ snapshot_counter = 0
    BY DEF Init
  <2>2. snapshots \in Seq({}) /\ Len(snapshots) = 0
    BY <2>1, EmptySeq
  <2> QED
    BY <2>1, <2>2, StoreConstants DEF SnapshotInv
<1>4. DetachInv
  BY DEF Init, DetachInv, Idle
<1> QED
  BY <1>1, <1>2, <1>3, <1>4 DEF StoreInv

\* The invariant is inductive.
LEMMA StepKeepsStoreInv == StoreInv /\ [Next]_vars => StoreInv'
<1> SUFFICES ASSUME StoreInv, [Next]_vars PROVE StoreInv'
  OBVIOUS
<1>1. CASE Mutation \/ Transaction \/ UNCHANGED vars
  <2>1. UNCHANGED <<readers, snapshots, snapshot_counter, detach>>
    BY <1>1 DEF Mutation, AddNode, RemoveNode, AddRelationship, RetireRelationship,
       FencePublisher, AdvanceCoordinatorEpoch, Transaction, MakeEdit, CommitMutation,
       FailWrite, UndoEdit, vars
  <2> QED
    BY <2>1, GraphStepKeepsStoreInv
<1>2. ASSUME NEW r \in Readers, Snapshot(r) PROVE StoreInv'
  <2>1. CASE StartSnapshot(r)
    <3>1. CopyNodes(r, 1)
          /\ UNCHANGED <<store, coordinator_epoch, txn, snapshots, snapshot_counter, detach>>
      BY <2>1 DEF StartSnapshot
    <3> QED
      BY <3>1, CopyingKeepsStoreInv
  <2>2. CASE RetrySnapshot(r)
    <3>1. CopyNodes(r, readers[r].attempt)
          /\ UNCHANGED <<store, coordinator_epoch, txn, snapshots, snapshot_counter, detach>>
      BY <2>2 DEF RetrySnapshot
    <3>2. PICK attempt : attempt = readers[r].attempt
      OBVIOUS
    <3>3. CopyNodes(r, attempt)
      BY <3>1, <3>2
    <3> QED
      BY <3>1, <3>3, CopyingKeepsStoreInv
  <2> QED
    BY <1>2, <2>1, <2>2, CopiedKeepsStoreInv, DiscardKeepsStoreInv, RecordingKeepsStoreInv
    DEF Snapshot
<1>3. CASE Detach
  <2>1. CASE RetireFound
    <3>1. UNCHANGED <<readers, snapshots, snapshot_counter>> /\ detach' = Idle
      BY <2>1 DEF RetireFound
    <3> QED
      BY <3>1, GraphStepKeepsStoreInv
  <2>2. ASSUME NEW call \in DetachRequests, NEW expected \in 0..MaxGeneration,
               FindAttachment(call[1], call[2], expected)
        PROVE  StoreInv'
    <3>1. PICK attachment, endpoint : attachment = call[1] /\ endpoint = call[2]
      OBVIOUS
    <3>2. attachment \in Attachments /\ FindAttachment(attachment, endpoint, expected)
      BY <2>2, <3>1, CallerConstants
    <3> QED
      BY <3>2, FindKeepsStoreInv
  <2> QED
    BY <1>3, <2>1, <2>2 DEF Detach
<1> QED
  BY <1>1, <1>2, <1>3 DEF Next

-----------------------------------------------------------------------------
\* The theorems about the store itself.

\* So it always holds.
LEMMA StoreKeepsItsInv == Spec => []StoreInv
<1>1. Init => StoreInv
  BY StartsWithStoreInv
<1>2. StoreInv /\ [Next]_vars => StoreInv'
  BY StepKeepsStoreInv
<1> QED
  BY <1>1, <1>2, PTL DEF Spec

\* Through every edit, rollback, retry and eviction of the history the graph
\* stays well typed, and the history neither outgrows options.snapshot_history
\* nor repeats or skips an ordinal (finalize_mutation, StateTxn, snapshot()).
THEOREM StoreIsTyped == Spec => []StoreTypeOK
<1>1. StoreInv => StoreTypeOK
  <2> SUFFICES ASSUME StoreInv PROVE StoreTypeOK
    OBVIOUS
  <2>1. Good(store) /\ coordinator_epoch \in 1..MaxEpoch
    BY DEF StoreInv, GraphInv
  <2>2. /\ DOMAIN store.nodes \subseteq NodeIds
        /\ \A n \in DOMAIN store.nodes : store.nodes[n] \in StoredNodes
        /\ DOMAIN store.edges \subseteq EdgeIds
        /\ \A e \in DOMAIN store.edges : store.edges[e] \in StoredEdges
        /\ store.generation \in 0..MaxGeneration
    BY <2>1 DEF Good, TypedMaps
  <2>3. /\ Len(snapshots) <= SnapshotHistory
        /\ \A i \in DOMAIN snapshots :
             snapshots[i].snapshot_generation = snapshot_counter - Len(snapshots) + i
    <3>1. DOMAIN snapshots = 1..Len(snapshots)
      BY LenProperties DEF StoreInv, SnapshotInv
    <3> QED
      BY <3>1 DEF StoreInv, SnapshotInv
  <2> QED
    BY <2>1, <2>2, <2>3 DEF StoreTypeOK
<1> QED
  BY <1>1, StoreKeepsItsInv, PTL

\* insert_node ... mutate_edge keep the indexes by hand, edit by edit, and a
\* rollback undoes each of them: at every moment the indexes are those that
\* rebuild_indexes would make, whatever the sizes of the graph and of the log.
THEOREM IndexesNeverDrift == Spec => []IndexesMatch
<1>1. StoreInv => IndexesMatch
  <2> SUFFICES ASSUME StoreInv PROVE IndexesMatch
    OBVIOUS
  <2>1. PICK N, E, X : N = store.nodes /\ E = store.edges /\ X = store.index
    OBVIOUS
  <2>2. Good(store)
    BY DEF StoreInv, GraphInv
  <2>3. Keyed(N, E) /\ IsFiniteSet(DOMAIN N) /\ IsFiniteSet(DOMAIN E) /\ X = IndexOf(N, E)
    BY <2>1, <2>2 DEF Good, TypedMaps, Indexed
  <2>4. RebuildIndexes(N, E) = X
    BY <2>3, RebuildIndexesIs
  <2> QED
    BY <2>1, <2>4 DEF IndexesMatch
<1> QED
  BY <1>1, StoreKeepsItsInv, PTL

\* check_snapshot never calls a recorded snapshot newer than the graph, not even
\* after a rolled-back generation was noted; and a snapshot that carries the
\* epoch and the generation of the graph holds just what is in scope now.
THEOREM SnapshotsAreWhatTheySay == Spec => []GenerationNamesSnapshot
<1>1. StoreInv => GenerationNamesSnapshot
  <2> SUFFICES ASSUME StoreInv, SharedLockFree, NEW i \in DOMAIN snapshots
               PROVE  LET s == snapshots[i]
                      IN  /\ CheckSnapshot(s) # "NEWER_GENERATION"
                          /\ /\ s.coordinator_epoch = coordinator_epoch
                             /\ s.topology_generation = store.generation
                             => /\ CheckSnapshot(s) = "CURRENT"
                                /\ s.nodes = NodesInScope(store.nodes, s.scope)
                                /\ s.edges = EdgesInScope(store.edges, s.scope)
    BY DEF GenerationNamesSnapshot
  <2>1. PICK s : s = snapshots[i]
    OBVIOUS
  <2>2. TakenOf(s, s.scope, Seen)
    <3>1. DOMAIN snapshots = 1..Len(snapshots)
      BY LenProperties DEF StoreInv, SnapshotInv
    <3> QED
      BY <2>1, <3>1 DEF StoreInv, SnapshotInv
  <2>3. /\ Seen.nodes = store.nodes /\ Seen.edges = store.edges
        /\ Seen.generation = store.generation
        /\ store.generation \in Nat
    BY SharedIsSound DEF StoreInv
  <2>4. /\ s.topology_generation \in Nat /\ s.topology_generation <= store.generation
        /\ s.topology_generation = store.generation =>
             /\ s.nodes = NodesInScope(store.nodes, s.scope)
             /\ s.edges = EdgesInScope(store.edges, s.scope)
    BY <2>2, <2>3 DEF TakenOf
  <2>5. CheckSnapshot(s) # "NEWER_GENERATION"
    BY <2>3, <2>4 DEF CheckSnapshot
  <2>6. ASSUME s.coordinator_epoch = coordinator_epoch, s.topology_generation = store.generation
        PROVE  /\ CheckSnapshot(s) = "CURRENT"
               /\ s.nodes = NodesInScope(store.nodes, s.scope)
               /\ s.edges = EdgesInScope(store.edges, s.scope)
    BY <2>3, <2>4, <2>6 DEF CheckSnapshot
  <2> QED
    BY <2>1, <2>5, <2>6
<1> QED
  BY <1>1, StoreKeepsItsInv, PTL

\* What the recorded history looks like after a step: nothing was added, or one
\* snapshot of the graph as callers see it, last.
LEMMA HistoryGrows ==
  ASSUME StoreInv, [Next]_vars, snapshots' # snapshots
  PROVE  \E r \in Readers : \E s :
           /\ Record(r, s)
           /\ s = Atomic!SnapshotOf(Seen.nodes, Seen.edges, Seen.generation,
                                    Seen.coordinator_epoch, ScopeOf[r], snapshot_counter + 1)
<1>1. PICK r \in Readers : Snapshot(r)
  BY DEF Next, vars, Mutation, AddNode, RemoveNode, AddRelationship, RetireRelationship,
     FencePublisher, AdvanceCoordinatorEpoch, Transaction, MakeEdit, CommitMutation,
     FailWrite, UndoEdit, Detach, FindAttachment, RetireFound
<1>2. RecordSnapshot(r) \/ SnapshotSerialised(r)
  BY <1>1 DEF Snapshot, StartSnapshot, CopyEdges, DiscardCopy, RetrySnapshot
<1> QED
  BY <1>2, CopyIsOfNow, SerialisedIsOfNow

\* However snapshot() calls copied under the shared lock, were overtaken by
\* mutations and came back, a snapshot recorded later is not of an older
\* generation or epoch.
THEOREM HistoryNeverGoesBack == Spec => SnapshotsFollowGenerations
<1>1. ASSUME StoreInv, [Next]_vars, snapshots # <<>>, snapshots' # snapshots
      PROVE  /\ Last(snapshots).topology_generation <= Last(snapshots').topology_generation
             /\ Last(snapshots).coordinator_epoch <= Last(snapshots').coordinator_epoch
  <2>1. PICK r, s :
          /\ Record(r, s)
          /\ s = Atomic!SnapshotOf(Seen.nodes, Seen.edges, Seen.generation,
                                   Seen.coordinator_epoch, ScopeOf[r], snapshot_counter + 1)
    BY <1>1, HistoryGrows
  <2>2. PICK W0 : snapshots \in Seq(W0)
    BY <1>1 DEF StoreInv, SnapshotInv
  <2>3. PICK W, h, h2, S : /\ W = W0 \cup {s} /\ h = snapshots /\ h2 = Atomic!Remembered(h, s)
                           /\ S = Seen
    OBVIOUS
  <2>4. snapshots' = h2
    BY <2>1, <2>3 DEF Record
  <2>5. h \in Seq(W) /\ s \in W /\ Len(h) \in Nat /\ Len(h) # 0
    <3>1. W0 \subseteq W
      BY <2>3
    <3> QED
      BY <1>1, <2>2, <2>3, <3>1, SeqMonotonic, LenProperties, EmptySeq
  <2>6. SnapshotHistory \in Nat /\ SnapshotHistory # 0 /\ Len(h) <= SnapshotHistory
    BY <1>1, <2>3, <2>5, StoreConstants DEF StoreInv, SnapshotInv
  <2>7. h2[Len(h2)] = s
    <3>1. h2 = Atomic!Remembered(h, s)
      BY <2>3
    <3>2. h2 \in Seq(W) /\ EndsWith(h2, h, s) /\ Len(h2) # 0
      BY <2>5, <2>6, <3>1, RememberedIs
    <3>3. Len(h2) \in Nat /\ Len(h2) \in 1..Len(h2)
      BY <3>2, LenProperties
    <3> QED
      BY <3>2, <3>3 DEF EndsWith
  <2>8. s.topology_generation = S.generation /\ s.coordinator_epoch = S.coordinator_epoch
    BY <2>1, <2>3 DEF Atomic!SnapshotOf
  <2>9. TakenOf(h[Len(h)], h[Len(h)].scope, S)
    BY <1>1, <2>3, <2>5 DEF StoreInv, SnapshotInv
  <2> QED
    BY <2>3, <2>4, <2>7, <2>8, <2>9 DEF TakenOf, Last
<1>2. StoreInv /\ [Next]_vars =>
        [snapshots # <<>> /\ snapshots' # snapshots =>
           /\ Last(snapshots).topology_generation <= Last(snapshots').topology_generation
           /\ Last(snapshots).coordinator_epoch <= Last(snapshots').coordinator_epoch]_vars
  BY <1>1
<1> QED
  BY <1>2, StoreKeepsItsInv, PTL DEF Spec, SnapshotsFollowGenerations

\* detach_endpoint looks its edge up under the shared lock and retires it under
\* the exclusive one; the generation it was asked to expect is what makes the
\* edge it retires the one it found, whatever was retired, replaced or rolled
\* back in between.
THEOREM DetachTakesWhatItFound == Spec => DetachSparesWhatChanged
<1>1. ASSUME StoreInv, [Next]_vars, detach.pc = "found", detach' # detach, txn' # txn,
             detach.expected # 0
      PROVE  HoldsAttachment(store.edges[detach.edge], detach.attachment, detach.endpoint)
  <2>1. RetireFound
    BY <1>1 DEF Next, vars, Mutation, AddNode, RemoveNode, AddRelationship,
       RetireRelationship, FencePublisher, AdvanceCoordinatorEpoch, Transaction, MakeEdit,
       CommitMutation, FailWrite, UndoEdit, Detach, FindAttachment, Snapshot, StartSnapshot,
       CopyEdges, RecordSnapshot, DiscardCopy, RetrySnapshot, SnapshotSerialised, Record
  <2>2. PICK e, expected, p : e = detach.edge /\ expected = detach.expected
                              /\ p = RetirePlan(e, expected)
    OBVIOUS
  <2>3. Begin(p) /\ p # <<>> /\ ExclusiveLockFree
    BY <1>1, <2>1, <2>2 DEF RetireFound, Begin
  <2>4. Good(store) /\ Sound(store.nodes, store.edges) /\ SharedLockFree
    BY <1>1, <2>3, RestIsSound DEF StoreInv, ExclusiveLockFree
  <2>5. expected = store.generation
    BY <1>1, <2>2, <2>3, <2>4, RetirementFulfils
  <2>6. Seen.edges = store.edges /\ Seen.generation = store.generation
    BY <1>1, <2>4, SharedIsSound DEF StoreInv
  <2> QED
    BY <1>1, <2>2, <2>5, <2>6 DEF StoreInv, DetachInv, StillHeld
<1>2. StoreInv /\ [Next]_vars =>
        [detach.pc = "found" /\ detach' # detach /\ txn' # txn /\ detach.expected # 0 =>
           HoldsAttachment(store.edges[detach.edge], detach.attachment, detach.endpoint)]_vars
  BY <1>1
<1> QED
  BY <1>2, StoreKeepsItsInv, PTL DEF Spec, DetachSparesWhatChanged

-----------------------------------------------------------------------------
\* The queries that read an index, of a graph whose indexes fit.

\* edges_for_node, edges_by_relation, edges_in_domain and edges_from_publisher.
LEMMA EdgeQueriesScan ==
  ASSUME NEW G, Good(G), NEW f, NEW E, E = G.edges
  PROVE  /\ \A n : EdgesForNode(G, n, f) = {e \in Passing(E, f) : n \in {E[e].from, E[e].to}}
         /\ \A r : EdgesByRelation(G, r, f) = {e \in Passing(E, f) : E[e].relation = r}
         /\ \A d \in Domains :
              EdgesInDomain(G, d, f) = {e \in Passing(E, f) : d \in DomainsOf(E[e])}
         /\ \A p : EdgesFromPublisher(G, p, f) =
                     Matching(G, Bucket(G.index.byPublisher, p), f)
<1>1. /\ \A n : Bucket(G.index.incident, n) = Incident(E, n)
      /\ \A p : Bucket(G.index.byPublisher, p) = OfPublisher(E, p)
      /\ \A r : Bucket(G.index.byRelation, r) = OfRelation(E, r)
      /\ G.index.domainEdges = EdgesByDomain(E)
  BY IndexSays
<1>2. ASSUME NEW n
      PROVE  EdgesForNode(G, n, f) = {e \in Passing(E, f) : n \in {E[e].from, E[e].to}}
  BY <1>1 DEF EdgesForNode, Matching, Incident, Passing
<1>3. ASSUME NEW r
      PROVE  EdgesByRelation(G, r, f) = {e \in Passing(E, f) : E[e].relation = r}
  BY <1>1 DEF EdgesByRelation, Matching, OfRelation, Passing
<1>4. ASSUME NEW d \in Domains
      PROVE  EdgesInDomain(G, d, f) = {e \in Passing(E, f) : d \in DomainsOf(E[e])}
  BY <1>1 DEF EdgesInDomain, Matching, EdgesByDomain, Passing
<1>5. ASSUME NEW p
      PROVE  EdgesFromPublisher(G, p, f) = Matching(G, Bucket(G.index.byPublisher, p), f)
  BY <1>1 DEF EdgesFromPublisher, Matching, OfPublisher
<1> QED
  BY <1>2, <1>3, <1>4, <1>5

\* neighbors
LEMMA NeighborsScan ==
  ASSUME NEW G, Good(G), NEW f, NEW n, NEW E, E = G.edges
  PROVE  Neighbors(G, n, f) = NextTo(E, f, n)
<1>1. PICK M : M = EdgesForNode(G, n, f)
  OBVIOUS
<1>2. \A e : e \in M <=> e \in Passing(E, f) /\ n \in {E[e].from, E[e].to}
  BY <1>1, EdgeQueriesScan
<1>3. \A e \in Passing(E, f) : E[e].from \in NodeIds /\ E[e].to \in NodeIds
  BY DEF Good, TypedMaps, StoredEdges, Passing
<1>4. ASSUME NEW m
      PROVE  m \in Neighbors(G, n, f) <=> m # n /\ \E e \in M : m \in {E[e].from, E[e].to}
  <2>1. PICK W : W = {{E[e].from, E[e].to} : e \in M}
    OBVIOUS
  <2>2. PICK U : U = UNION W
    OBVIOUS
  <2>3. Neighbors(G, n, f) = U \ {n} /\ (m \in U <=> \E ends \in W : m \in ends)
    BY <1>1, <2>1, <2>2 DEF Neighbors
  <2>4. (\E ends \in W : m \in ends) <=> \E e \in M : m \in {E[e].from, E[e].to}
    BY <2>1
  <2> QED
    BY <2>3, <2>4
<1>5. ASSUME NEW m, NEW e, m # n
      PROVE  n \in {E[e].from, E[e].to} /\ m \in {E[e].from, E[e].to}
             <=> {m, n} = {E[e].from, E[e].to}
  <2>1. PICK a, b : a = E[e].from /\ b = E[e].to
    OBVIOUS
  <2>2. n \in {a, b} /\ m \in {a, b} <=> (n = a /\ m = b) \/ (n = b /\ m = a)
    BY <1>5
  <2>3. {m, n} = {a, b} <=> (n = a /\ m = b) \/ (n = b /\ m = a)
    BY <1>5
  <2> QED
    BY <2>1, <2>2, <2>3
<1>6. ASSUME NEW m
      PROVE  m \in Neighbors(G, n, f) <=>
               /\ m \in NodeIds \ {n}
               /\ \E e \in Passing(E, f) : {m, n} = {E[e].from, E[e].to}
  BY <1>2, <1>3, <1>4, <1>5
<1>7. PICK A : A = Neighbors(G, n, f)
  OBVIOUS
<1>8. A = {m \in NodeIds \ {n} : \E e \in Passing(E, f) : {m, n} = {E[e].from, E[e].to}}
  BY <1>6, <1>7
<1> QED
  BY <1>7, <1>8 DEF NextTo

\* domain_members and node_for_entity.
LEMMA NodeQueriesScan ==
  ASSUME NEW G, Good(G)
  PROVE  /\ \A d \in Domains : DomainMembers(G, d) = {n \in DOMAIN G.nodes : G.nodes[n].domain = d}
         /\ \A x : NodeForEntity(G, x) = NodesOfEntity(G.nodes, x)
<1>1. PICK N : N = G.nodes
  OBVIOUS
<1>2. /\ \A x : x \in DOMAIN G.index.byEntity <=> NodesOfEntity(N, x) # {}
      /\ \A n \in DOMAIN N : G.index.byEntity[N[n].entity_id] = n
      /\ G.index.domainNodes = NodesByDomain(N)
  BY <1>1, IndexSays
<1>3. ASSUME NEW d \in Domains
      PROVE  DomainMembers(G, d) = {n \in DOMAIN N : N[n].domain = d}
  BY <1>2 DEF DomainMembers, NodesByDomain
<1>4. ASSUME NEW x PROVE NodeForEntity(G, x) = NodesOfEntity(N, x)
  <2>1. CASE NodesOfEntity(N, x) = {}
    BY <1>2, <2>1 DEF NodeForEntity
  <2>2. CASE NodesOfEntity(N, x) # {}
    <3>1. \A n \in NodesOfEntity(N, x) : n \in DOMAIN N /\ G.index.byEntity[x] = n
      BY <1>2 DEF NodesOfEntity
    <3>2. NodeForEntity(G, x) = {G.index.byEntity[x]} \cap DOMAIN N
      BY <1>1, <1>2, <2>2 DEF NodeForEntity
    <3> QED
      BY <2>2, <3>1, <3>2
  <2> QED
    BY <2>1, <2>2
<1> QED
  BY <1>1, <1>3, <1>4

\* entity_members
LEMMA MembersScan ==
  ASSUME NEW G, Good(G), NEW x, NEW r
  PROVE  EntityMembers(G, x, r) = MembersOf(G.nodes, G.edges, x, r)
<1>1. PICK E, f : E = G.edges /\ f = [AnyEdge EXCEPT !.relations = {r}]
  OBVIOUS
<1>2. \A e \in DOMAIN E : MatchesFilter(E[e], f) <=> E[e].relation = r
  <2>1. \A e \in DOMAIN E : /\ E[e].domain \in Domains /\ E[e].lifecycle \in Lifecycles
                            /\ E[e].provenance.publisher \in Publishers
    BY <1>1 DEF Good, TypedMaps, StoredEdges, Provenances
  <2>2. /\ f.relations = {r} /\ f.domains = Domains /\ f.lifecycles = Lifecycles
        /\ f.publishers = Publishers /\ f.include_non_current
    BY <1>1 DEF AnyEdge
  <2> QED
    BY <2>1, <2>2 DEF MatchesFilter, DomainsOf
<1>3. \A n : Neighbors(G, n, f) = NextTo(E, f, n)
  BY <1>1, NeighborsScan
<1>4. ASSUME NEW n, NEW m
      PROVE  m \in Neighbors(G, n, f) <=>
               /\ m \in NodeIds /\ m # n
               /\ \E e \in DOMAIN E : {m, n} = {E[e].from, E[e].to} /\ E[e].relation = r
  BY <1>2, <1>3 DEF NextTo, Passing
<1>5. NodeForEntity(G, x) = NodesOfEntity(G.nodes, x)
  BY NodeQueriesScan
<1>6. EntityMembers(G, x, r) = UNION {Neighbors(G, n, f) : n \in NodesOfEntity(G.nodes, x)}
  BY <1>1, <1>5 DEF EntityMembers
<1>7. ASSUME NEW m
      PROVE  m \in EntityMembers(G, x, r) <=>
               /\ m \in NodeIds
               /\ \E n \in NodesOfEntity(G.nodes, x), e \in DOMAIN E :
                    m # n /\ E[e].relation = r /\ {m, n} = {E[e].from, E[e].to}
  BY <1>4, <1>6
<1>8. PICK A : A = EntityMembers(G, x, r)
  OBVIOUS
<1>9. A = MembersOf(G.nodes, E, x, r)
  BY <1>7, <1>8 DEF MembersOf
<1> QED
  BY <1>1, <1>8, <1>9

\* A query answered from an index (edges_for_node, neighbors, edges_by_relation,
\* edges_in_domain, domain_members, node_for_entity, entity_members) says what a
\* scan of the graph would, and edges_from_publisher, which scans, what the
\* index would: on every graph the mutations, failures and rollbacks can build.
THEOREM IndexedAnswersAreScans == Spec => []QueriesAnswerFromTheGraph
<1>1. StoreInv => QueriesAnswerFromTheGraph
  <2> SUFFICES ASSUME StoreInv PROVE QueriesAnswerFromTheGraph
    OBVIOUS
  <2>1. Good(store)
    BY DEF StoreInv, GraphInv
  <2>2. PICK N, E : N = store.nodes /\ E = store.edges
    OBVIOUS
  <2>3. ASSUME NEW f, NEW n
        PROVE  /\ EdgesForNode(store, n, f) = {e \in Passing(E, f) : n \in {E[e].from, E[e].to}}
               /\ Neighbors(store, n, f) = NextTo(E, f, n)
    <3>1. PICK G : G = store
      OBVIOUS
    <3>2. EdgesForNode(G, n, f) = {e \in Passing(E, f) : n \in {E[e].from, E[e].to}}
      BY <2>1, <2>2, <3>1, EdgeQueriesScan
    <3>3. Neighbors(G, n, f) = NextTo(E, f, n)
      BY <2>1, <2>2, <3>1, NeighborsScan
    <3> QED
      BY <3>1, <3>2, <3>3
  <2>4. ASSUME NEW f
        PROVE  /\ \A r \in Relations :
                    EdgesByRelation(store, r, f) = {e \in Passing(E, f) : E[e].relation = r}
               /\ \A d \in Domains :
                    EdgesInDomain(store, d, f) = {e \in Passing(E, f) : d \in DomainsOf(E[e])}
               /\ \A p \in Publishers : EdgesFromPublisher(store, p, f) =
                    Matching(store, Bucket(store.index.byPublisher, p), f)
    BY <2>1, <2>2, EdgeQueriesScan
  <2>5. /\ \A d \in Domains : DomainMembers(store, d) = {n \in DOMAIN N : N[n].domain = d}
        /\ \A x : NodeForEntity(store, x) = NodesOfEntity(N, x)
    BY <2>1, <2>2, NodeQueriesScan
  <2>6. ASSUME NEW x, NEW r PROVE EntityMembers(store, x, r) = MembersOf(N, E, x, r)
    BY <2>1, <2>2, MembersScan
  <2> QED
    BY <2>2, <2>3, <2>4, <2>5, <2>6 DEF QueriesAnswerFromTheGraph
<1> QED
  BY <1>1, StoreKeepsItsInv, PTL

\* traverse, asked of any graph the mutations, failures and rollbacks can build
\* and that no call is changing, from any of its nodes and within any limits, is
\* the breadth-first search of that graph.
THEOREM TraversalsAreBreadthFirst == Spec => []TraversalIsBreadthFirst
<1>1. StoreInv => TraversalIsBreadthFirst
  <2> SUFFICES ASSUME StoreInv, AtRest, NEW request \in TraversalRequests
               PROVE  IsBreadthFirst(store, request)
    BY DEF TraversalIsBreadthFirst
  <2>1. Good(store) /\ Sound(store.nodes, store.edges)
    <3>1. IsAtRest
      BY StageIs DEF StoreInv, AtRest, SharedLockFree
    <3> QED
      BY <3>1 DEF StoreInv, GraphInv, IsAtRest
  <2>2. PICK G : G = store
    OBVIOUS
  <2>3. TypedMaps(G.nodes, G.edges) /\ G.index = IndexOf(G.nodes, G.edges)
    BY <2>1, <2>2 DEF Good, Indexed
  <2>4. Cardinality(DOMAIN G.nodes) \in Nat
    BY <2>3, FS_CardinalityType DEF TypedMaps
  <2>5. /\ request.origin \in DOMAIN G.nodes
        /\ {request.max_depth, request.max_visited} \subseteq 1..Cardinality(DOMAIN G.nodes)
    BY <2>2 DEF TraversalRequests
  <2>6. {request.max_depth, request.max_visited} \subseteq Nat \ {0}
    BY <2>4, <2>5
  <2>7. \A e \in DOMAIN G.edges : {G.edges[e].from, G.edges[e].to} \subseteq DOMAIN G.nodes
    BY <2>1, <2>2 DEF Sound
  <2>8. Walkable(G, request)
    BY <2>3, <2>5, <2>6, <2>7 DEF Walkable, TypedMaps
  <2> QED
    BY <2>2, <2>8, TraverseIsBreadthFirst
<1> QED
  BY <1>1, StoreKeepsItsInv, PTL

-----------------------------------------------------------------------------
\* What an empty diff says.

\* What an edge of id e says beside the fields diff compares.  Its relation is
\* the one its id is used for, its second domain that of its other end; live,
\* it is bound to its nodes and has no successor; superseded, it has the
\* successor it was loaded with, and no mutation supersedes.
EdgeTells(G0, N, e, edge) ==
  /\ edge.relation \in RelationsNamed(e)
  /\ edge.secondary_domain =
       SecondaryDomain(N[edge.from].domain, N[edge.to].domain, edge.domain)
  /\ IsLive(edge) => EndpointsMatch(N, edge) /\ edge.superseded_by = NoEdge
  /\ edge.lifecycle = "SUPERSEDED" =>
       e \in DOMAIN G0.edges /\ edge.superseded_by = G0.edges[e].superseded_by

\* The same of every edge, and of every node that it is of the entity its id is
\* used for, in a graph that grew from the start graph G0.
Tells(G0, N, E) ==
  /\ TypedMaps(N, E)
  /\ Sound(N, E)
  /\ \A n \in DOMAIN N : N[n].entity_id \in EntitiesNamed(n)
  /\ \A e \in DOMAIN E : EdgeTells(G0, N, e, E[e])

\* So does the graph callers see, and every snapshot of all of it.
TellingInv ==
  \E G0 \in StartGraphs :
    /\ Tells(G0, Seen.nodes, Seen.edges)
    /\ \A i \in 1..Len(snapshots) :
         snapshots[i].scope = WholeTopology => Tells(G0, snapshots[i].nodes, snapshots[i].edges)

\* Records of which diff sees no difference and which say what their ids do
\* are the same in the eyes of diff.
LEMMA NodesTellTheSame ==
  ASSUME IdsNameOneThing, NEW n \in NodeIds, NEW a \in StoredNodes, NEW b \in StoredNodes,
         a.entity_id \in EntitiesNamed(n), b.entity_id \in EntitiesNamed(n)
  PROVE  NodeEntries(n, a, b) = {} <=> TellingNode(a) = TellingNode(b)
<1>1. NodeEntries(n, a, b) = {} <=>
        /\ a.entity_generation = b.entity_generation
        /\ a.domain = b.domain
        /\ a.lifecycle = b.lifecycle
  BY DEF NodeEntries, EntriesIf
<1>2. a.entity_id = b.entity_id
  BY DEF IdsNameOneThing
<1>3. PICK c, d : c = TellingNode(a) /\ d = TellingNode(b)
  OBVIOUS
<1>4. /\ c = [entity_id |-> a.entity_id, entity_generation |-> a.entity_generation,
              tier |-> NoEdge, domain |-> a.domain, lifecycle |-> a.lifecycle, revision |-> 0]
      /\ d = [entity_id |-> b.entity_id, entity_generation |-> b.entity_generation,
              tier |-> NoEdge, domain |-> b.domain, lifecycle |-> b.lifecycle, revision |-> 0]
  BY <1>3 DEF TellingNode, StoredNodes
<1>5. c = d <=> /\ a.entity_generation = b.entity_generation
                /\ a.domain = b.domain
                /\ a.lifecycle = b.lifecycle
  BY <1>2, <1>4
<1> QED
  BY <1>1, <1>3, <1>5

\* The same of edges, whose ends have the domains and generations of their nodes.
LEMMA EdgesTellTheSame ==
  ASSUME IdsNameOneThing, NEW e \in EdgeIds, NEW a \in StoredEdges, NEW b \in StoredEdges,
         NEW G0, NEW N1, NEW N2, EdgeTells(G0, N1, e, a), EdgeTells(G0, N2, e, b),
         \A n \in {a.from, a.to} : /\ N1[n].domain = N2[n].domain
                                   /\ N1[n].entity_generation = N2[n].entity_generation
  PROVE  EdgeEntries(e, a, b) = {} <=> TellingEdge(a) = TellingEdge(b)
<1>1. EdgeEntries(e, a, b) = {} <=>
        /\ a.from = b.from /\ a.to = b.to /\ a.domain = b.domain
        /\ a.lifecycle = b.lifecycle /\ a.revision = b.revision
        /\ a.evidence_generation = b.evidence_generation /\ a.attachment = b.attachment
  BY DEF EdgeEntries, EntriesIf
<1>2. PICK c, d : c = TellingEdge(a) /\ d = TellingEdge(b)
  OBVIOUS
<1> DEFINE Successor(x) == IF IsNotRetired(x) THEN x.superseded_by ELSE NoEdge
           From(x) == IF IsLive(x) THEN x.from_entity_generation ELSE 0
           To(x) == IF IsLive(x) THEN x.to_entity_generation ELSE 0
           Telling(x) ==
             [relation |-> x.relation, from |-> x.from, to |-> x.to, domain |-> x.domain,
              secondary_domain |-> x.secondary_domain,
              from_entity_generation |-> From(x), to_entity_generation |-> To(x),
              evidence_generation |-> x.evidence_generation, lifecycle |-> x.lifecycle,
              attachment |-> x.attachment, superseded_by |-> Successor(x),
              provenance |-> NoEdge, revision |-> x.revision]
<1>3. ASSUME NEW x \in StoredEdges PROVE TellingEdge(x) = Telling(x)
  <2>1. PICK successor, from, to : successor = Successor(x) /\ from = From(x) /\ to = To(x)
    OBVIOUS
  <2>2. TellingEdge(x) = [x EXCEPT !.provenance = NoEdge, !.superseded_by = successor,
                                   !.from_entity_generation = from,
                                   !.to_entity_generation = to]
    BY <2>1 DEF TellingEdge
  <2>3. Telling(x) =
          [relation |-> x.relation, from |-> x.from, to |-> x.to, domain |-> x.domain,
           secondary_domain |-> x.secondary_domain,
           from_entity_generation |-> from, to_entity_generation |-> to,
           evidence_generation |-> x.evidence_generation, lifecycle |-> x.lifecycle,
           attachment |-> x.attachment, superseded_by |-> successor,
           provenance |-> NoEdge, revision |-> x.revision]
    BY <2>1
  <2> HIDE DEF Telling, Successor, From, To
  <2> QED
    BY <2>2, <2>3 DEF StoredEdges
<1>4. c = Telling(a) /\ d = Telling(b)
  BY <1>2, <1>3
<1>5. ASSUME EdgeEntries(e, a, b) = {} PROVE Telling(a) = Telling(b)
  <2>1. /\ a.from = b.from /\ a.to = b.to /\ a.domain = b.domain
        /\ a.lifecycle = b.lifecycle /\ a.revision = b.revision
        /\ a.evidence_generation = b.evidence_generation /\ a.attachment = b.attachment
    BY <1>1, <1>5
  <2>2. a.relation = b.relation
    BY DEF EdgeTells, IdsNameOneThing
  <2>3. a.secondary_domain = b.secondary_domain
    BY <2>1 DEF EdgeTells
  <2>4. IsLive(a) <=> IsLive(b)
    BY <2>1 DEF IsLive
  <2>5. From(a) = From(b) /\ To(a) = To(b)
    BY <2>1, <2>4 DEF EdgeTells, EndpointsMatch
  <2>6. Successor(a) = Successor(b)
    <3>1. CASE IsLive(a)
      <4>1. a.superseded_by = NoEdge /\ b.superseded_by = NoEdge
        BY <2>4, <3>1 DEF EdgeTells
      <4> QED
        BY <2>1, <4>1 DEF IsNotRetired
    <3>2. CASE a.lifecycle = "SUPERSEDED"
      <4>1. a.superseded_by = b.superseded_by
        BY <2>1, <3>2 DEF EdgeTells
      <4> QED
        BY <2>1, <4>1 DEF IsNotRetired
    <3>3. CASE a.lifecycle = "RETIRED"
      BY <2>1, <3>3 DEF IsNotRetired
    <3> QED
      BY <3>1, <3>2, <3>3 DEF IsLive, Terminal
  <2> HIDE DEF Successor, From, To
  <2> QED
    BY <2>1, <2>2, <2>3, <2>5, <2>6
<1>6. ASSUME Telling(a) = Telling(b) PROVE EdgeEntries(e, a, b) = {}
  <2> HIDE DEF Successor, From, To
  <2>1. /\ a.from = b.from /\ a.to = b.to /\ a.domain = b.domain
        /\ a.lifecycle = b.lifecycle /\ a.revision = b.revision
        /\ a.evidence_generation = b.evidence_generation /\ a.attachment = b.attachment
    BY <1>6
  <2> QED
    BY <1>1, <2>1
<1> QED
  BY <1>2, <1>4, <1>5, <1>6

\* Two graphs that grew from the same start differ in the eyes of diff, or tell
\* the same of every node and edge.
LEMMA NoEntriesIffTheSame ==
  ASSUME IdsNameOneThing,
         NEW G0, NEW G, NEW H, Tells(G0, G.nodes, G.edges), Tells(G0, H.nodes, H.edges)
  PROVE  Diff(G, H) = {} <=> TellsTheSame(G, H)
<1>1. PICK N1, N2, E1, E2 : N1 = G.nodes /\ N2 = H.nodes /\ E1 = G.edges /\ E2 = H.edges
  OBVIOUS
<1>2. Tells(G0, N1, E1) /\ Tells(G0, N2, E2)
  BY <1>1
<1>3. Diff(G, H) = {} <=>
        /\ DOMAIN N1 = DOMAIN N2 /\ DOMAIN E1 = DOMAIN E2
        /\ \A n \in DOMAIN N1 : NodeEntries(n, N1[n], N2[n]) = {}
        /\ \A e \in DOMAIN E1 : EdgeEntries(e, E1[e], E2[e]) = {}
  <2>1. Diff(G, H) = {} <=>
          /\ DOMAIN N1 = DOMAIN N2 /\ DOMAIN E1 = DOMAIN E2
          /\ DiffOfShared(G, H) = {}
    BY <1>1 DEF Diff, AddedEntries
  <2>2. DiffOfShared(G, H) = {} <=>
          /\ \A n \in DOMAIN N1 \cap DOMAIN N2 : NodeEntries(n, N1[n], N2[n]) = {}
          /\ \A e \in DOMAIN E1 \cap DOMAIN E2 : EdgeEntries(e, E1[e], E2[e]) = {}
    <3>1. ASSUME NEW X, NEW Y, DiffOfShared(G, H) = (UNION X) \cup (UNION Y)
          PROVE  DiffOfShared(G, H) = {} <=> (\A x \in X : x = {}) /\ \A y \in Y : y = {}
      BY <3>1
    <3>2. DiffOfShared(G, H) =
            (UNION {NodeEntries(n, G.nodes[n], H.nodes[n]) :
                      n \in DOMAIN G.nodes \cap DOMAIN H.nodes})
            \cup (UNION {EdgeEntries(e, G.edges[e], H.edges[e]) :
                           e \in DOMAIN G.edges \cap DOMAIN H.edges})
      BY DEF DiffOfShared
    <3>3. DiffOfShared(G, H) = {} <=>
            /\ \A x \in {NodeEntries(n, G.nodes[n], H.nodes[n]) :
                           n \in DOMAIN G.nodes \cap DOMAIN H.nodes} : x = {}
            /\ \A y \in {EdgeEntries(e, G.edges[e], H.edges[e]) :
                           e \in DOMAIN G.edges \cap DOMAIN H.edges} : y = {}
      BY ONLY <3>1, <3>2
    <3>4. DiffOfShared(G, H) = {} <=>
            /\ \A n \in DOMAIN G.nodes \cap DOMAIN H.nodes :
                 NodeEntries(n, G.nodes[n], H.nodes[n]) = {}
            /\ \A e \in DOMAIN G.edges \cap DOMAIN H.edges :
                 EdgeEntries(e, G.edges[e], H.edges[e]) = {}
      BY ONLY <3>3
    <3> QED
      BY <1>1, <3>4
  <2> QED
    BY <2>1, <2>2
<1>4. TellsTheSame(G, H) <=>
        /\ DOMAIN N1 = DOMAIN N2 /\ DOMAIN E1 = DOMAIN E2
        /\ \A n \in DOMAIN N1 : TellingNode(N1[n]) = TellingNode(N2[n])
        /\ \A e \in DOMAIN E1 : TellingEdge(E1[e]) = TellingEdge(E2[e])
  BY <1>1 DEF TellsTheSame
<1>5. SUFFICES ASSUME DOMAIN N1 = DOMAIN N2, DOMAIN E1 = DOMAIN E2
               PROVE  /\ \A n \in DOMAIN N1 :
                           NodeEntries(n, N1[n], N2[n]) = {}
                             <=> TellingNode(N1[n]) = TellingNode(N2[n])
                      /\ (\A n \in DOMAIN N1 : NodeEntries(n, N1[n], N2[n]) = {}) =>
                         \A e \in DOMAIN E1 :
                           EdgeEntries(e, E1[e], E2[e]) = {}
                             <=> TellingEdge(E1[e]) = TellingEdge(E2[e])
  BY <1>3, <1>4
<1>6. \A n \in DOMAIN N1 :
        NodeEntries(n, N1[n], N2[n]) = {} <=> TellingNode(N1[n]) = TellingNode(N2[n])
  <2>1. TAKE n \in DOMAIN N1
  <2>2. PICK a, b : a = N1[n] /\ b = N2[n]
    OBVIOUS
  <2>3. /\ n \in NodeIds /\ a \in StoredNodes /\ b \in StoredNodes
        /\ a.entity_id \in EntitiesNamed(n) /\ b.entity_id \in EntitiesNamed(n)
    BY <1>2, <1>5, <2>2 DEF Tells, TypedMaps
  <2> QED
    BY <2>2, <2>3, NodesTellTheSame
<1>7. ASSUME \A n \in DOMAIN N1 : NodeEntries(n, N1[n], N2[n]) = {}, NEW e \in DOMAIN E1
      PROVE  EdgeEntries(e, E1[e], E2[e]) = {} <=> TellingEdge(E1[e]) = TellingEdge(E2[e])
  <2>1. PICK a, b : a = E1[e] /\ b = E2[e]
    OBVIOUS
  <2>2. /\ e \in EdgeIds /\ a \in StoredEdges /\ b \in StoredEdges
        /\ EdgeTells(G0, N1, e, a) /\ EdgeTells(G0, N2, e, b)
        /\ {a.from, a.to} \subseteq DOMAIN N1
    BY <1>2, <1>5, <2>1 DEF Tells, TypedMaps, Sound
  <2>3. \A n \in {a.from, a.to} : /\ N1[n].domain = N2[n].domain
                                  /\ N1[n].entity_generation = N2[n].entity_generation
    BY <1>7, <2>2 DEF NodeEntries, EntriesIf
  <2> QED
    BY <2>1, <2>2, <2>3, EdgesTellTheSame
<1> QED
  BY <1>6, <1>7

\* An edge that keeps its relationship tells what it told, if it is terminal, or
\* live and bound to its nodes.
LEMMA RelationshipTells ==
  ASSUME NEW G0, NEW N, NEW N2, NEW e, NEW edge, NEW new, EdgeTells(G0, N, e, edge),
         SameRelationship(new, edge),
         \A n \in {edge.from, edge.to} : N2[n].domain = N[n].domain,
         new.lifecycle = "SUPERSEDED" => edge.lifecycle = "SUPERSEDED",
         IsLive(new) => /\ IsLive(edge)
                        /\ Binding(new) = <<N2[edge.from].entity_generation,
                                            N2[edge.to].entity_generation>>
  PROVE  EdgeTells(G0, N2, e, new)
<1>1. /\ new.relation = edge.relation /\ new.domain = edge.domain
      /\ new.from = edge.from /\ new.to = edge.to
      /\ new.secondary_domain = edge.secondary_domain
      /\ new.superseded_by = edge.superseded_by
  BY DEF SameRelationship
<1>2. IsLive(new) => EndpointsMatch(N2, new)
  BY <1>1 DEF EndpointsMatch, Binding
<1> QED
  BY <1>1, <1>2 DEF EdgeTells

\* The graph after a mutation of one map tells the same.
LEMMA AddTells ==
  ASSUME NEW G0, NEW N, NEW E, Tells(G0, N, E), NEW N2, NEW E2, TypedMaps(N2, E2), Sound(N2, E2),
         NEW req \in NodeRequests, Adds(N, E, req, N2, E2)
  PROVE  Tells(G0, N2, E2)
<1>1. PICK n, g : n = req.id /\ g = req.entity_generation
  OBVIOUS
<1>2. n \in NodeIds /\ g \in Nat
  BY <1>1, NewNodeIs
<1>3. /\ \A m \in DOMAIN N : N[m] \in StoredNodes /\ N[m].entity_id \in EntitiesNamed(m)
      /\ \A e \in DOMAIN E : /\ E[e] \in StoredEdges /\ EdgeTells(G0, N, e, E[e])
                             /\ {E[e].from, E[e].to} \subseteq DOMAIN N
  BY DEF Tells, TypedMaps, Sound
<1>4. CASE n \notin DOMAIN N /\ N2 = Put(N, n, Atomic!NewNode(req)) /\ E2 = E
  <2>1. PICK new : new = Atomic!NewNode(req)
    OBVIOUS
  <2>2. new.entity_id \in EntitiesNamed(n)
    BY <1>1, <2>1, NewNodeIs DEF EntitiesNamed
  <2>3. /\ \A m \in DOMAIN N2 : N2[m].entity_id \in EntitiesNamed(m)
        /\ \A m \in DOMAIN N : N2[m] = N[m]
    BY <1>3, <1>4, <2>1, <2>2 DEF Put
  <2>4. ASSUME NEW e \in DOMAIN E2 PROVE EdgeTells(G0, N2, e, E2[e])
    BY <1>3, <1>4, <2>3, <2>4 DEF EdgeTells, EndpointsMatch
  <2> QED
    BY <2>3, <2>4 DEF Tells
<1>5. CASE /\ n \in DOMAIN N /\ Atomic!MayRefresh(N[n], req)
           /\ N2 = Put(N, n, Atomic!RefreshedNode(N[n], req))
           /\ E2 = Overlaid(E, ReboundEdges(N, E, req))
  <2>1. PICK new : new = Atomic!RefreshedNode(N[n], req)
    OBVIOUS
  <2>2. /\ new.entity_id = N[n].entity_id /\ new.domain = N[n].domain
        /\ new.entity_generation = g
    BY <1>1, <1>3, <1>5, <2>1, RefreshedNodeIs
  <2>3. /\ DOMAIN N2 = DOMAIN N
        /\ \A m \in DOMAIN N :
             /\ N2[m].entity_id = N[m].entity_id /\ N2[m].domain = N[m].domain
             /\ N2[m].entity_generation = IF m = n THEN g ELSE N[m].entity_generation
    BY <1>5, <2>1, <2>2 DEF Put
  <2>4. ASSUME NEW e \in DOMAIN E2 PROVE EdgeTells(G0, N2, e, E2[e])
    <3>1. e \in DOMAIN E
      BY <1>5 DEF Overlaid
    <3>2. PICK edge, next : edge = E[e] /\ next = E2[e]
      OBVIOUS
    <3>3. /\ edge \in StoredEdges /\ EdgeTells(G0, N, e, edge)
          /\ {edge.from, edge.to} \subseteq DOMAIN N
      BY <1>3, <3>1, <3>2
    <3>4. \A m \in {edge.from, edge.to} : N2[m].domain = N[m].domain
      BY <2>3, <3>3
    <3>5. CASE e \in Rebound(N, E, req)
      <4>1. next = Atomic!ReboundEdge(edge, n, g)
        BY <1>1, <1>5, <3>1, <3>2, <3>5 DEF Overlaid, ReboundEdges
      <4>2. /\ SameRelationship(next, edge) /\ next.lifecycle = "REVALIDATION_REQUIRED"
            /\ Binding(next) =
                 <<IF edge.from = n THEN g ELSE edge.from_entity_generation,
                   IF edge.to = n THEN g ELSE edge.to_entity_generation>>
        BY <1>2, <3>3, <4>1, ReboundEdgeIs
      <4>3. IsLive(edge)
        BY <3>2, <3>5 DEF Rebound
      <4>4. EndpointsMatch(N, edge)
        BY <3>3, <4>3 DEF EdgeTells
      <4>5. Binding(next) = <<N2[edge.from].entity_generation, N2[edge.to].entity_generation>>
        BY <2>3, <3>3, <4>2, <4>4 DEF EndpointsMatch
      <4> QED
        BY <3>2, <3>3, <3>4, <4>2, <4>3, <4>5, RelationshipTells
    <3>6. CASE e \notin Rebound(N, E, req)
      <4>1. next = edge
        BY <1>5, <3>1, <3>2, <3>6 DEF Overlaid, ReboundEdges
      <4>2. ASSUME IsLive(edge)
            PROVE  Binding(edge) = <<N2[edge.from].entity_generation,
                                     N2[edge.to].entity_generation>>
        <5>1. EndpointsMatch(N, edge)
          BY <3>3, <4>2 DEF EdgeTells
        <5>2. CASE n \notin {edge.from, edge.to} \/ N[n].entity_generation = g
          BY <2>3, <3>3, <5>1, <5>2 DEF EndpointsMatch, Binding
        <5>3. CASE n \in {edge.from, edge.to} /\ N[n].entity_generation # g
          <6>1. e \in Incident(E, n)
            BY <3>1, <3>2, <5>3 DEF Incident
          <6>2. Atomic!AwaitsAt(edge, n, g)
            BY <1>1, <3>2, <3>6, <4>2, <5>3, <6>1 DEF Rebound
          <6>3. g = N[n].entity_generation
            BY <5>1, <5>3, <6>2 DEF Atomic!AwaitsAt, EndpointsMatch
          <6> QED
            BY <5>3, <6>3
        <5> QED
          BY <5>2, <5>3
      <4>3. SameRelationship(edge, edge)
        BY <3>3 DEF SameRelationship
      <4> QED
        BY <3>2, <3>3, <3>4, <4>1, <4>2, <4>3, RelationshipTells
    <3> QED
      BY <3>5, <3>6
  <2>5. \A m \in DOMAIN N2 : N2[m].entity_id \in EntitiesNamed(m)
    BY <1>3, <2>3
  <2> QED
    BY <2>4, <2>5 DEF Tells
<1> QED
  BY <1>1, <1>4, <1>5 DEF Adds

\* remove_node
LEMMA RemovalTells ==
  ASSUME NEW G0, NEW N, NEW E, Tells(G0, N, E), NEW N2, NEW E2, TypedMaps(N2, E2), Sound(N2, E2),
         NEW n, Removes(N, E, n, N2, E2)
  PROVE  Tells(G0, N2, E2)
<1>1. /\ DOMAIN N2 \subseteq DOMAIN N /\ \A m \in DOMAIN N2 : N2[m] = N[m]
      /\ DOMAIN E2 \subseteq DOMAIN E /\ \A e \in DOMAIN E2 : E2[e] = E[e]
  BY DEF Removes, Without
<1>2. \A m \in DOMAIN N2 : N2[m].entity_id \in EntitiesNamed(m)
  BY <1>1 DEF Tells
<1>3. ASSUME NEW e \in DOMAIN E2 PROVE EdgeTells(G0, N2, e, E2[e])
  <2>1. EdgeTells(G0, N, e, E2[e])
    BY <1>1 DEF Tells
  <2>2. E2[e].from \in DOMAIN N2 /\ E2[e].to \in DOMAIN N2
    BY DEF Sound
  <2> QED
    BY <1>1, <2>1, <2>2 DEF EdgeTells, EndpointsMatch
<1> QED
  BY <1>2, <1>3 DEF Tells

\* A mutation that changes one edge or adds it.
LEMMA OneEdgeTells ==
  ASSUME NEW G0, NEW N, NEW E, Tells(G0, N, E), NEW E2, TypedMaps(N, E2), Sound(N, E2),
         NEW e, NEW new, E2 = Put(E, e, new), EdgeTells(G0, N, e, new)
  PROVE  Tells(G0, N, E2)
<1>1. ASSUME NEW f \in DOMAIN E2 PROVE EdgeTells(G0, N, f, E2[f])
  BY DEF Put, Tells
<1> QED
  BY <1>1 DEF Tells

\* add_relationship
LEMMA LinkTells ==
  ASSUME NEW G0, NEW N, NEW E, Tells(G0, N, E), NEW N2, NEW E2, TypedMaps(N2, E2), Sound(N2, E2),
         NEW req \in LinkRequests, NEW epoch \in Nat, Links(N, E, req, epoch, N2, E2)
  PROVE  Tells(G0, N2, E2)
<1>1. PICK e : e = req.id
  OBVIOUS
<1>2. {req.from, req.to} \subseteq DOMAIN N /\ \A n \in DOMAIN N : N[n] \in StoredNodes
  BY DEF Links, Atomic!Linkable, Tells, TypedMaps
<1>3. CASE E2 = Put(E, e, Atomic!NewEdge(N, req, epoch))
  <2>1. PICK new : new = Atomic!NewEdge(N, req, epoch)
    OBVIOUS
  <2>2. /\ new.from = req.from /\ new.to = req.to
        /\ new.relation = req.relation /\ new.domain = req.domain
        /\ new.secondary_domain =
             SecondaryDomain(N[req.from].domain, N[req.to].domain, req.domain)
        /\ new.superseded_by = NoEdge /\ new.lifecycle = "CURRENT"
        /\ Binding(new) = <<N[req.from].entity_generation, N[req.to].entity_generation>>
    BY <1>2, <2>1, NewEdgeIs
  <2>3. new.relation \in RelationsNamed(e)
    BY <1>1, <2>2 DEF RelationsNamed
  <2>4. EdgeTells(G0, N, e, new)
    BY <2>2, <2>3 DEF EdgeTells, EndpointsMatch, Binding
  <2> QED
    BY <1>3, <2>1, <2>4, OneEdgeTells DEF Links
<1>4. CASE /\ e \in DOMAIN E /\ SameKey(E[e], req) /\ Atomic!MayReassert(N, E[e], req)
           /\ E2 = Put(E, e, Atomic!ReassertedEdge(N, E[e], req))
  <2>1. PICK edge, new : edge = E[e] /\ new = Atomic!ReassertedEdge(N, edge, req)
    OBVIOUS
  <2>2. edge \in StoredEdges /\ EdgeTells(G0, N, e, edge)
    BY <1>4, <2>1 DEF Tells, TypedMaps
  <2>3. /\ SameRelationship(new, edge) /\ new.lifecycle = "CURRENT"
        /\ Binding(new) = <<N[req.from].entity_generation, N[req.to].entity_generation>>
    BY <1>2, <2>1, <2>2, ReassertedEdgeIs
  <2>4. edge.from = req.from /\ edge.to = req.to /\ IsLive(edge)
    BY <1>4, <2>1, SameTests DEF SameKey, Atomic!MayReassert
  <2>5. EdgeTells(G0, N, e, new)
    BY <2>2, <2>3, <2>4, RelationshipTells
  <2> QED
    BY <1>4, <2>1, <2>5, OneEdgeTells DEF Links
<1> QED
  BY <1>1, <1>3, <1>4 DEF Links

\* retire_relationship
LEMMA RetirementTells ==
  ASSUME NEW G0, NEW N, NEW E, Tells(G0, N, E), NEW N2, NEW E2, TypedMaps(N2, E2), Sound(N2, E2),
         NEW e, Retires(N, E, e, N2, E2)
  PROVE  Tells(G0, N2, E2)
<1>1. PICK edge, new : edge = E[e] /\ new = Atomic!RetiredEdge(edge)
  OBVIOUS
<1>2. edge \in StoredEdges /\ EdgeTells(G0, N, e, edge)
  BY <1>1 DEF Retires, Tells, TypedMaps
<1>3. SameRelationship(new, edge) /\ new.lifecycle = "RETIRED" /\ ~IsLive(new)
  BY <1>1, <1>2, RetiredEdgeIs
<1>4. EdgeTells(G0, N, e, new)
  BY <1>2, <1>3, RelationshipTells
<1> QED
  BY <1>1, <1>4, OneEdgeTells DEF Retires

\* fence_publisher and advance_coordinator_epoch
LEMMA DemotionTells ==
  ASSUME NEW G0, NEW N, NEW E, Tells(G0, N, E), NEW N2, NEW E2, TypedMaps(N2, E2), Sound(N2, E2),
         NEW D, \A e \in D : E[e].lifecycle = "CURRENT", Demotes(N, E, D, N2, E2)
  PROVE  Tells(G0, N2, E2)
<1>1. N2 = N /\ DOMAIN E2 = DOMAIN E
      /\ \A e \in DOMAIN E : E2[e] = IF e \in D THEN Atomic!DemotedEdge(E[e]) ELSE E[e]
  BY DEF Demotes, Overlaid, DemotedEdges
<1>2. ASSUME NEW e \in DOMAIN E2 PROVE EdgeTells(G0, N2, e, E2[e])
  <2>1. PICK edge, new : edge = E[e] /\ new = E2[e]
    OBVIOUS
  <2>2. edge \in StoredEdges /\ EdgeTells(G0, N, e, edge)
    BY <1>1, <2>1 DEF Tells, TypedMaps
  <2>3. CASE e \in D
    <3>1. new = Atomic!DemotedEdge(edge)
      BY <1>1, <2>1, <2>3
    <3>2. /\ SameRelationship(new, edge)
          /\ new.lifecycle = "REVALIDATION_REQUIRED" /\ Binding(new) = Binding(edge)
      BY <2>2, <3>1, DemotedEdgeIs
    <3>3. IsLive(edge)
      BY <2>1, <2>3 DEF IsLive, Terminal
    <3>4. Binding(edge) = <<N[edge.from].entity_generation, N[edge.to].entity_generation>>
      BY <2>2, <3>3 DEF EdgeTells, EndpointsMatch, Binding
    <3> QED
      BY <1>1, <2>1, <2>2, <3>2, <3>3, <3>4, RelationshipTells
  <2>4. CASE e \notin D
    BY <1>1, <2>1, <2>2, <2>4
  <2> QED
    BY <2>3, <2>4
<1>3. \A m \in DOMAIN N2 : N2[m].entity_id \in EntitiesNamed(m)
  BY <1>1 DEF Tells
<1> QED
  BY <1>2, <1>3 DEF Tells

\* What callers see is typed and sound at every moment.
LEMMA SeenIsSound ==
  ASSUME GraphInv
  PROVE  TypedMaps(Seen.nodes, Seen.edges) /\ Sound(Seen.nodes, Seen.edges)
<1>1. CASE txn.stage = "none"
  <2>1. Sound(store.nodes, store.edges) /\ Good(store)
    BY <1>1, StageIs DEF GraphInv, IsAtRest
  <2>2. Seen.nodes = store.nodes /\ Seen.edges = store.edges
    BY <1>1 DEF Seen, Visible
  <2> QED
    BY <2>1, <2>2 DEF Good
<1>2. CASE txn.stage # "none"
  <2>1. IsOpen /\ Seen = txn.before
    BY <1>2, StageIs DEF GraphInv, IsEditing, IsUndoing
  <2>2. /\ Start(txn.before).nodes = txn.before.nodes
        /\ Start(txn.before).edges = txn.before.edges
    BY DEF Start, Indexed
  <2> QED
    BY <2>1, <2>2 DEF IsOpen, Good
<1> QED
  BY <1>1, <1>2

\* Every mutation the contract permits leaves a graph that tells the same.
LEMMA MovesTell ==
  ASSUME NEW G0, NEW S, NEW T, SeenMoves(S, T), Tells(G0, S.nodes, S.edges),
         S.coordinator_epoch \in Nat,
         TypedMaps(T.nodes, T.edges), Sound(T.nodes, T.edges)
  PROVE  Tells(G0, T.nodes, T.edges)
<1>1. PICK N, E, N2, E2 : N = S.nodes /\ E = S.edges /\ N2 = T.nodes /\ E2 = T.edges
  OBVIOUS
<1>2. Tells(G0, N, E) /\ TypedMaps(N2, E2) /\ Sound(N2, E2)
  BY <1>1
<1>3. CASE N2 = N /\ E2 = E
  BY <1>1, <1>2, <1>3
<1>4. CASE Permits(N, E, S.coordinator_epoch, T.coordinator_epoch, N2, E2)
  <2>1. ASSUME NEW D, Demotes(N, E, CurrentOf(E, D), N2, E2)
        PROVE  Tells(G0, N2, E2)
    <3>1. PICK C : C = CurrentOf(E, D)
      OBVIOUS
    <3>2. Demotes(N, E, C, N2, E2) /\ \A e \in C : E[e].lifecycle = "CURRENT"
      BY <2>1, <3>1 DEF CurrentOf
    <3> QED
      BY <1>2, <3>2, DemotionTells
  <2> QED
    BY <1>1, <1>2, <1>4, <2>1, AddTells, RemovalTells, LinkTells, RetirementTells DEF Permits
<1> QED
  BY <1>1, <1>3, <1>4 DEF SeenMoves

\* A snapshot of the whole topology tells what the graph does.
LEMMA WholeTells ==
  ASSUME NEW G0, NEW N, NEW E, Tells(G0, N, E),
         NEW M, NEW F, M = NodesInScope(N, WholeTopology), F = EdgesInScope(E, WholeTopology)
  PROVE  Tells(G0, M, F)
<1>1. /\ DOMAIN M = DOMAIN N /\ \A n \in DOMAIN N : M[n] = N[n]
      /\ DOMAIN F = DOMAIN E /\ \A e \in DOMAIN E : F[e] = E[e]
  BY DEF NodesInScope, NodeInScope, EdgesInScope, EdgeInScope, WholeTopology
<1>2. TypedMaps(M, F) /\ Sound(M, F)
  BY <1>1 DEF Tells, TypedMaps, Sound
<1>3. ASSUME NEW e \in DOMAIN F PROVE EdgeTells(G0, M, e, F[e])
  <2>1. EdgeTells(G0, N, e, F[e])
    BY <1>1 DEF Tells
  <2>2. M[F[e].from] = N[F[e].from] /\ M[F[e].to] = N[F[e].to]
    BY <1>1, <1>2 DEF Sound
  <2> QED
    BY <2>1, <2>2 DEF EdgeTells, EndpointsMatch
<1>4. \A n \in DOMAIN M : M[n].entity_id \in EntitiesNamed(n)
  BY <1>1 DEF Tells
<1> QED
  BY <1>2, <1>3, <1>4 DEF Tells

\* What a durable image says.
LEMMA StartTells ==
  ASSUME LoadedAsLeft, NEW G0 \in StartGraphs
  PROVE  Tells(G0, G0.nodes, G0.edges)
<1>1. PICK N, E : N = G0.nodes /\ E = G0.edges
  OBVIOUS
<1>2. TypedMaps(N, E) /\ Sound(N, E)
  BY <1>1, LoadedGraphs DEF TypedMaps, Sound
<1>3. \A n \in DOMAIN N : N[n].entity_id \in EntitiesNamed(n)
  BY <1>1 DEF EntitiesNamed
<1>4. ASSUME NEW e \in DOMAIN E PROVE EdgeTells(G0, N, e, E[e])
  <2>1. E[e].relation \in RelationsNamed(e)
    BY <1>1 DEF RelationsNamed
  <2>2. /\ E[e].secondary_domain =
             SecondaryDomain(N[E[e].from].domain, N[E[e].to].domain, E[e].domain)
        /\ IsLive(E[e]) => EndpointsMatch(N, E[e]) /\ E[e].superseded_by = NoEdge
    BY <1>1 DEF LoadedAsLeft
  <2> QED
    BY <1>1, <2>1, <2>2 DEF EdgeTells
<1> QED
  BY <1>1, <1>2, <1>3, <1>4 DEF Tells

\* A step records a snapshot of what callers see, or none.
LEMMA StepRecords ==
  ASSUME StoreInv, [Next]_vars
  PROVE  \/ snapshots' = snapshots
         \/ /\ UNCHANGED <<store, coordinator_epoch, txn>>
            /\ \E s : /\ snapshots' = Atomic!Remembered(snapshots, s)
                      /\ s.nodes = NodesInScope(Seen.nodes, s.scope)
                      /\ s.edges = EdgesInScope(Seen.edges, s.scope)
<1>1. SUFFICES ASSUME snapshots' # snapshots
               PROVE  /\ UNCHANGED <<store, coordinator_epoch, txn>>
                      /\ \E s : /\ snapshots' = Atomic!Remembered(snapshots, s)
                                /\ s.nodes = NodesInScope(Seen.nodes, s.scope)
                                /\ s.edges = EdgesInScope(Seen.edges, s.scope)
  OBVIOUS
<1>2. PICK r \in Readers : Snapshot(r)
  BY <1>1 DEF Next, vars, Mutation, AddNode, RemoveNode, AddRelationship,
     RetireRelationship, FencePublisher, AdvanceCoordinatorEpoch, Transaction, MakeEdit,
     CommitMutation, FailWrite, UndoEdit, Detach, FindAttachment, RetireFound
<1>3. RecordSnapshot(r) \/ SnapshotSerialised(r)
  BY <1>1, <1>2 DEF Snapshot, StartSnapshot, CopyEdges, DiscardCopy, RetrySnapshot
<1>4. PICK s : /\ Record(r, s)
               /\ s = Atomic!SnapshotOf(Seen.nodes, Seen.edges, Seen.generation,
                                        Seen.coordinator_epoch, ScopeOf[r],
                                        snapshot_counter + 1)
  BY <1>3, CopyIsOfNow, SerialisedIsOfNow
<1>5. /\ s.nodes = NodesInScope(Seen.nodes, s.scope)
      /\ s.edges = EdgesInScope(Seen.edges, s.scope)
  BY <1>4, SameScopes DEF Atomic!SnapshotOf
<1> QED
  BY <1>4, <1>5 DEF Record

\* The store starts with a graph that tells what it says itself.
LEMMA StartsTelling ==
  ASSUME LoadedAsLeft
  PROVE  Init => TellingInv
<1> SUFFICES ASSUME Init PROVE TellingInv
  OBVIOUS
<1>1. PICK G0 \in StartGraphs :
        store = [nodes |-> G0.nodes, edges |-> G0.edges, generation |-> G0.generation,
                 index |-> RebuildIndexes(G0.nodes, G0.edges)]
  BY DEF Init
<1>2. Seen = Visible /\ snapshots = <<>>
  BY DEF Init, Seen, NoTxn
<1>3. Seen.nodes = G0.nodes /\ Seen.edges = G0.edges
  BY <1>1, <1>2 DEF Visible
<1>4. Tells(G0, Seen.nodes, Seen.edges)
  BY <1>3, StartTells
<1> QED
  BY <1>2, <1>4 DEF TellingInv

\* Every step leaves a graph, and a history, that tell the same.
LEMMA StepTells ==
  ASSUME StoreInv, StoreInv', TellingInv, [Next]_vars
  PROVE  TellingInv'
<1>1. PICK G0 \in StartGraphs :
        /\ Tells(G0, Seen.nodes, Seen.edges)
        /\ \A i \in 1..Len(snapshots) :
             snapshots[i].scope = WholeTopology =>
               Tells(G0, snapshots[i].nodes, snapshots[i].edges)
  BY DEF TellingInv
<1>2. PICK S, T, h, h2 : S = Seen /\ T = Seen' /\ h = snapshots /\ h2 = snapshots'
  OBVIOUS
<1>3. Tells(G0, T.nodes, T.edges)
  <2>1. SeenMoves(S, T)
    BY <1>2, StepKeepsGraphInv DEF StoreInv
  <2>2. S.coordinator_epoch \in Nat
    BY <1>2, SeenIsTyped, StoreConstants DEF StoreInv
  <2>3. TypedMaps(T.nodes, T.edges) /\ Sound(T.nodes, T.edges)
    <3>1. TypedMaps(Seen.nodes, Seen.edges)' /\ Sound(Seen.nodes, Seen.edges)'
      BY SeenIsSound, PTL DEF StoreInv
    <3> QED
      BY <1>2, <3>1
  <2> QED
    BY <1>1, <1>2, <2>1, <2>2, <2>3, MovesTell
<1>4. ASSUME NEW i \in 1..Len(h2), h2[i].scope = WholeTopology
      PROVE  Tells(G0, h2[i].nodes, h2[i].edges)
  <2>1. CASE h2 = h
    BY <1>1, <1>2, <1>4, <2>1
  <2>2. ASSUME NEW s, h2 = Atomic!Remembered(h, s),
               s.nodes = NodesInScope(S.nodes, s.scope), s.edges = EdgesInScope(S.edges, s.scope)
        PROVE  Tells(G0, h2[i].nodes, h2[i].edges)
    <3>1. PICK W0 : h \in Seq(W0)
      BY <1>2 DEF StoreInv, SnapshotInv
    <3>2. PICK W : W = W0 \cup {s}
      OBVIOUS
    <3>3. W0 \subseteq W /\ s \in W
      BY <3>2
    <3>4. h \in Seq(W) /\ SnapshotHistory \in Nat /\ Len(h) <= SnapshotHistory
      BY <1>2, <3>1, <3>3, SeqMonotonic, StoreConstants DEF StoreInv, SnapshotInv
    <3>5. EndsWith(h2, h, s)
      BY <2>2, <3>3, <3>4, RememberedIs
    <3>6. CASE h2[i] = s
      BY <1>1, <1>2, <1>4, <2>2, <3>6, WholeTells
    <3>7. ASSUME NEW j \in 1..Len(h), h2[i] = h[j]
          PROVE  Tells(G0, h2[i].nodes, h2[i].edges)
      BY <1>1, <1>2, <1>4, <3>7
    <3> QED
      BY <3>5, <3>6, <3>7 DEF EndsWith
  <2> QED
    BY <1>2, <2>1, <2>2, StepRecords
<1> QED
  BY <1>2, <1>3, <1>4 DEF TellingInv

\* diff compares neither entities, relations, second domains, bindings nor
\* successors; yet a snapshot of the whole topology differs from the graph in one
\* of them only if diff_against_current has an entry for the element: whatever
\* was removed, brought back, fenced or retired in between, and at every failed
\* write that was undone.  The hypotheses are needed, for diff looks at none of
\* these fields: an id that comes back for another entity or relation shows in none
\* of those it compares.
THEOREM EmptyDiffsTellTheSame ==
  ASSUME LoadedAsLeft, IdsNameOneThing
  PROVE  Spec => []EmptyDiffMeansSameGraph
<1>1. Init => TellingInv
  BY StartsTelling
<1>2. StoreInv /\ StoreInv' /\ TellingInv /\ [Next]_vars => TellingInv'
  BY StepTells
<1>3. StoreInv /\ TellingInv => EmptyDiffMeansSameGraph
  <2> SUFFICES ASSUME StoreInv, TellingInv, SharedLockFree, NEW i \in DOMAIN snapshots,
                      snapshots[i].scope = WholeTopology
               PROVE  Diff(snapshots[i], store) = {} <=> TellsTheSame(snapshots[i], store)
    BY DEF EmptyDiffMeansSameGraph
  <2>1. i \in 1..Len(snapshots)
    BY LenProperties DEF StoreInv, SnapshotInv
  <2>2. PICK s, G : s = snapshots[i] /\ G = store
    OBVIOUS
  <2>3. Seen.nodes = G.nodes /\ Seen.edges = G.edges
    BY <2>2, SharedIsSound DEF StoreInv
  <2>4. PICK G0 : Tells(G0, G.nodes, G.edges) /\ Tells(G0, s.nodes, s.edges)
    BY <2>1, <2>2, <2>3 DEF TellingInv
  <2> QED
    BY <2>2, <2>4, NoEntriesIffTheSame
<1> QED
  BY <1>1, <1>2, <1>3, StoreKeepsItsInv, PTL DEF Spec

-----------------------------------------------------------------------------
\* The refinement: what callers may see change is what AtomicStore permits.

\* The store starts as the contract does.
LEMMA StartIsAtomic == Init => Atomic!AtomicInit
<1> SUFFICES ASSUME Init PROVE Atomic!AtomicInit
  OBVIOUS
<1>1. PICK G \in StartGraphs :
        store = [nodes |-> G.nodes, edges |-> G.edges, generation |-> G.generation,
                 index |-> RebuildIndexes(G.nodes, G.edges)]
  BY DEF Init
<1>2. store.nodes = G.nodes /\ store.edges = G.edges /\ store.generation = G.generation
  BY <1>1
<1>3. Seen = Visible
  BY DEF Init, Seen, NoTxn
<1>4. /\ Seen.nodes = G.nodes /\ Seen.edges = G.edges /\ Seen.generation = G.generation
      /\ Seen.coordinator_epoch = coordinator_epoch
  BY <1>2, <1>3 DEF Visible
<1>5. coordinator_epoch = 1 /\ snapshots = <<>> /\ snapshot_counter = 0
  BY DEF Init
<1> QED
  BY <1>4, <1>5 DEF Atomic!AtomicInit

\* A commit as the contract states it, of what callers see.
LEMMA CommitIsAtomic ==
  ASSUME NEW S, NEW T, S = Seen, T = Seen', S.generation < MaxGeneration,
         T.generation = S.generation + 1, NEW N2, NEW E2, T.nodes = N2, T.edges = E2
  PROVE  Atomic!Commit(N2, E2)
BY DEF Atomic!Commit

\* add_node
LEMMA AddIsAtomic ==
  ASSUME NEW S, NEW T, S = Seen, T = Seen', UNCHANGED <<snapshots, snapshot_counter>>,
         S.generation < MaxGeneration, T.generation = S.generation + 1,
         T.coordinator_epoch = S.coordinator_epoch,
         NEW req, Adds(S.nodes, S.edges, req, T.nodes, T.edges)
  PROVE  Atomic!AddNode(req)
<1>1. PICK N, E, N2, E2 : N = S.nodes /\ E = S.edges /\ N2 = T.nodes /\ E2 = T.edges
  OBVIOUS
<1>2. Atomic!Commit(N2, E2)
  BY <1>1, CommitIsAtomic
<1>3. CASE /\ req.id \notin DOMAIN N
           /\ NodesOfEntity(N, req.entity_id) = {}
           /\ N2 = Put(N, req.id, Atomic!NewNode(req))
           /\ E2 = E
  <2>1. Atomic!NodesOfEntity(N, req.entity_id) = {}
        /\ N2 = Atomic!Put(N, req.id, Atomic!NewNode(req))
    BY <1>3, SameMaps
  <2> QED
    BY <1>1, <1>2, <1>3, <2>1 DEF Atomic!AddNode
<1>4. CASE /\ req.id \in DOMAIN N
           /\ Atomic!MayRefresh(N[req.id], req)
           /\ N2 = Put(N, req.id, Atomic!RefreshedNode(N[req.id], req))
           /\ E2 = Overlaid(E, ReboundEdges(N, E, req))
  <2>1. N2 = Atomic!Put(N, req.id, Atomic!RefreshedNode(N[req.id], req))
    BY <1>4, SameMaps
  <2>2. PICK D : D = {e \in Atomic!Incident(E, req.id) :
                        /\ Atomic!IsLive(E[e])
                        /\ ~Atomic!AwaitsAt(E[e], req.id, req.entity_generation)
                        /\ N[req.id].entity_generation # req.entity_generation}
    OBVIOUS
  <2>3. D = Rebound(N, E, req)
    BY <2>2, SameMaps, SameTests DEF Rebound
  <2>4. E2 = [e \in DOMAIN E |->
                IF e \in D THEN Atomic!ReboundEdge(E[e], req.id, req.entity_generation)
                ELSE E[e]]
    BY <1>4, <2>3 DEF Overlaid, ReboundEdges
  <2> QED
    BY <1>1, <1>2, <1>4, <2>1, <2>2, <2>4 DEF Atomic!AddNode
<1> QED
  BY <1>1, <1>3, <1>4 DEF Adds

\* remove_node
LEMMA RemovalIsAtomic ==
  ASSUME NEW S, NEW T, S = Seen, T = Seen', UNCHANGED <<snapshots, snapshot_counter>>,
         S.generation < MaxGeneration, T.generation = S.generation + 1,
         T.coordinator_epoch = S.coordinator_epoch,
         NEW n, Removes(S.nodes, S.edges, n, T.nodes, T.edges)
  PROVE  Atomic!RemoveNode(n)
<1>1. PICK N, E, N2, E2 : N = S.nodes /\ E = S.edges /\ N2 = T.nodes /\ E2 = T.edges
  OBVIOUS
<1>2. Atomic!Commit(N2, E2)
  BY <1>1, CommitIsAtomic
<1>3. /\ n \in DOMAIN N
      /\ N2 = Atomic!Without(N, {n}) /\ E2 = Atomic!Without(E, Atomic!Incident(E, n))
  BY <1>1, SameMaps DEF Removes
<1> QED
  BY <1>1, <1>2, <1>3 DEF Atomic!RemoveNode

\* add_relationship
LEMMA LinkIsAtomic ==
  ASSUME NEW S, NEW T, S = Seen, T = Seen', UNCHANGED <<snapshots, snapshot_counter>>,
         S.generation < MaxGeneration, T.generation = S.generation + 1,
         T.coordinator_epoch = S.coordinator_epoch,
         NEW req, Links(S.nodes, S.edges, req, S.coordinator_epoch, T.nodes, T.edges)
  PROVE  Atomic!AddRelationship(req)
<1>1. PICK N, E, N2, E2, epoch : /\ N = S.nodes /\ E = S.edges /\ N2 = T.nodes /\ E2 = T.edges
                                 /\ epoch = S.coordinator_epoch
  OBVIOUS
<1>2. Atomic!Commit(N2, E2) /\ N2 = N /\ Atomic!Linkable(N, req)
  BY <1>1, CommitIsAtomic DEF Links
<1>3. CASE /\ req.id \notin DOMAIN E
           /\ \A e \in DOMAIN E : ~SameKey(E[e], req)
           /\ ValidCandidate(N, E, req, TRUE)
           /\ E2 = Put(E, req.id, Atomic!NewEdge(N, req, epoch))
  <2>1. /\ \A e \in DOMAIN E : ~Atomic!SameKey(E[e], req)
        /\ Atomic!ValidCandidate(N, E, req, TRUE)
        /\ E2 = Atomic!Put(E, req.id, Atomic!NewEdge(N, req, epoch))
    BY <1>3, SameMaps, SameTests, SameCandidates
  <2> QED
    BY <1>1, <1>2, <1>3, <2>1 DEF Atomic!AddRelationship
<1>4. CASE /\ req.id \in DOMAIN E
           /\ SameKey(E[req.id], req)
           /\ Atomic!MayReassert(N, E[req.id], req)
           /\ ValidCandidate(N, E, req, FALSE)
           /\ E2 = Put(E, req.id, Atomic!ReassertedEdge(N, E[req.id], req))
  <2>1. /\ Atomic!SameKey(E[req.id], req)
        /\ Atomic!ValidCandidate(N, E, req, FALSE)
        /\ E2 = Atomic!Put(E, req.id, Atomic!ReassertedEdge(N, E[req.id], req))
    BY <1>4, SameMaps, SameTests, SameCandidates
  <2> QED
    BY <1>1, <1>2, <1>4, <2>1 DEF Atomic!AddRelationship
<1> QED
  BY <1>1, <1>3, <1>4 DEF Links

\* retire_relationship
LEMMA RetirementIsAtomic ==
  ASSUME NEW S, NEW T, S = Seen, T = Seen', UNCHANGED <<snapshots, snapshot_counter>>,
         S.generation < MaxGeneration, T.generation = S.generation + 1,
         T.coordinator_epoch = S.coordinator_epoch,
         NEW e, Retires(S.nodes, S.edges, e, T.nodes, T.edges)
  PROVE  Atomic!RetireRelationship(e)
<1>1. PICK N, E, N2, E2 : N = S.nodes /\ E = S.edges /\ N2 = T.nodes /\ E2 = T.edges
  OBVIOUS
<1>2. Atomic!Commit(N2, E2)
  BY <1>1, CommitIsAtomic
<1>3. /\ e \in DOMAIN E /\ Atomic!IsNotRetired(E[e]) /\ N2 = N
      /\ E2 = Atomic!Put(E, e, Atomic!RetiredEdge(E[e]))
  BY <1>1, SameMaps, SameTests DEF Retires
<1> QED
  BY <1>1, <1>2, <1>3 DEF Atomic!RetireRelationship

\* The demotion of all current edges of a set.
LEMMA DemotionIsAtomic ==
  ASSUME NEW S, NEW T, S = Seen, T = Seen', S.generation < MaxGeneration,
         T.generation = S.generation + 1,
         NEW D, Demotes(S.nodes, S.edges, D, T.nodes, T.edges)
  PROVE  Atomic!DemoteAll(D)
<1>1. PICK N, E, N2, E2 : N = S.nodes /\ E = S.edges /\ N2 = T.nodes /\ E2 = T.edges
  OBVIOUS
<1>2. Atomic!Commit(N2, E2)
  BY <1>1, CommitIsAtomic
<1>3. /\ D # {} /\ N2 = N
      /\ E2 = [e \in DOMAIN E |-> IF e \in D THEN Atomic!DemotedEdge(E[e]) ELSE E[e]]
  BY <1>1 DEF Demotes, Overlaid, DemotedEdges
<1> QED
  BY <1>1, <1>2, <1>3 DEF Atomic!DemoteAll

\* fence_publisher
LEMMA FenceIsAtomic ==
  ASSUME NEW S, NEW T, S = Seen, T = Seen', UNCHANGED <<snapshots, snapshot_counter>>,
         S.generation < MaxGeneration, T.generation = S.generation + 1,
         T.coordinator_epoch = S.coordinator_epoch, NEW p,
         Demotes(S.nodes, S.edges, CurrentOf(S.edges, OfPublisher(S.edges, p)), T.nodes, T.edges)
  PROVE  Atomic!FencePublisher(p)
<1>1. PICK D : D = CurrentOf(S.edges, OfPublisher(S.edges, p))
  OBVIOUS
<1>2. Atomic!DemoteAll(D)
  BY <1>1, DemotionIsAtomic
<1>3. D = Atomic!CurrentIn({e \in DOMAIN Seen.edges : Seen.edges[e].provenance.publisher = p})
  BY <1>1 DEF CurrentOf, OfPublisher, Atomic!CurrentIn
<1> QED
  BY <1>2, <1>3 DEF Atomic!FencePublisher

\* advance_coordinator_epoch, its demotions committed, needless or rolled back.
LEMMA EpochIsAtomic ==
  ASSUME NEW S, NEW T, S = Seen, T = Seen', UNCHANGED <<snapshots, snapshot_counter>>,
         S.coordinator_epoch < MaxEpoch, T.coordinator_epoch = S.coordinator_epoch + 1,
         \/ /\ S.generation < MaxGeneration /\ T.generation = S.generation + 1
            /\ Demotes(S.nodes, S.edges, CurrentOf(S.edges, DOMAIN S.edges), T.nodes, T.edges)
         \/ /\ T.nodes = S.nodes /\ T.edges = S.edges /\ T.generation = S.generation
            /\ WriteMayFail \/ CurrentOf(S.edges, DOMAIN S.edges) = {}
  PROVE  Atomic!AdvanceCoordinatorEpoch
<1>1. PICK D : D = CurrentOf(S.edges, DOMAIN S.edges)
  OBVIOUS
<1>2. D = Atomic!CurrentIn(DOMAIN Seen.edges)
  BY <1>1 DEF CurrentOf, Atomic!CurrentIn
<1>3. CASE /\ S.generation < MaxGeneration /\ T.generation = S.generation + 1
           /\ Demotes(S.nodes, S.edges, D, T.nodes, T.edges)
  <2>1. Atomic!DemoteAll(D)
    BY <1>3, DemotionIsAtomic
  <2> QED
    BY <1>2, <2>1 DEF Atomic!AdvanceCoordinatorEpoch
<1>4. CASE /\ T.nodes = S.nodes /\ T.edges = S.edges /\ T.generation = S.generation
           /\ WriteMayFail \/ D = {}
  BY <1>2, <1>4 DEF Atomic!AdvanceCoordinatorEpoch, Atomic!graph
<1> QED
  BY <1>1, <1>3, <1>4

\* A step that records no snapshot is a mutation of the contract or no step.
LEMMA MoveIsAtomic ==
  ASSUME SeenMoves(Seen, Seen'), UNCHANGED <<snapshots, snapshot_counter>>
  PROVE  \/ Atomic!AtomicNext
         \/ Seen' = Seen
<1>1. PICK S, T : S = Seen /\ T = Seen'
  OBVIOUS
<1>2. SeenMoves(S, T)
  BY <1>1
<1>3. CASE /\ S.generation < MaxGeneration /\ T.generation = S.generation + 1
           /\ T.coordinator_epoch = S.coordinator_epoch
           /\ Permits(S.nodes, S.edges, S.coordinator_epoch, T.coordinator_epoch,
                      T.nodes, T.edges)
  <2>1. ASSUME NEW req \in NodeRequests, Adds(S.nodes, S.edges, req, T.nodes, T.edges)
        PROVE  Atomic!AtomicNext
    BY <1>1, <1>3, <2>1, AddIsAtomic DEF Atomic!AtomicNext
  <2>2. ASSUME NEW n \in NodeIds, Removes(S.nodes, S.edges, n, T.nodes, T.edges)
        PROVE  Atomic!AtomicNext
    BY <1>1, <1>3, <2>2, RemovalIsAtomic DEF Atomic!AtomicNext
  <2>3. ASSUME NEW req \in LinkRequests,
               Links(S.nodes, S.edges, req, S.coordinator_epoch, T.nodes, T.edges)
        PROVE  Atomic!AtomicNext
    BY <1>1, <1>3, <2>3, LinkIsAtomic DEF Atomic!AtomicNext
  <2>4. ASSUME NEW e \in EdgeIds, Retires(S.nodes, S.edges, e, T.nodes, T.edges)
        PROVE  Atomic!AtomicNext
    BY <1>1, <1>3, <2>4, RetirementIsAtomic DEF Atomic!AtomicNext
  <2>5. ASSUME NEW p \in Publishers,
               Demotes(S.nodes, S.edges, CurrentOf(S.edges, OfPublisher(S.edges, p)),
                       T.nodes, T.edges)
        PROVE  Atomic!AtomicNext
    BY <1>1, <1>3, <2>5, FenceIsAtomic DEF Atomic!AtomicNext
  <2>6. ASSUME S.coordinator_epoch < MaxEpoch,
               T.coordinator_epoch = S.coordinator_epoch + 1,
               Demotes(S.nodes, S.edges, CurrentOf(S.edges, DOMAIN S.edges), T.nodes, T.edges)
        PROVE  Atomic!AtomicNext
    BY <1>1, <1>3, <2>6, EpochIsAtomic DEF Atomic!AtomicNext
  <2> QED
    BY <1>3, <2>1, <2>2, <2>3, <2>4, <2>5, <2>6 DEF Permits
<1>4. CASE /\ S.generation < MaxGeneration /\ T.generation = S.generation + 1
           /\ T.coordinator_epoch # S.coordinator_epoch
           /\ Permits(S.nodes, S.edges, S.coordinator_epoch, T.coordinator_epoch,
                      T.nodes, T.edges)
  <2>1. /\ S.coordinator_epoch < MaxEpoch /\ T.coordinator_epoch = S.coordinator_epoch + 1
        /\ Demotes(S.nodes, S.edges, CurrentOf(S.edges, DOMAIN S.edges), T.nodes, T.edges)
    BY <1>4 DEF Permits
  <2> QED
    BY <1>1, <1>4, <2>1, EpochIsAtomic DEF Atomic!AtomicNext
<1>5. CASE /\ S.coordinator_epoch < MaxEpoch
           /\ T.coordinator_epoch = S.coordinator_epoch + 1
           /\ T.nodes = S.nodes /\ T.edges = S.edges /\ T.generation = S.generation
           /\ WriteMayFail \/ CurrentOf(S.edges, DOMAIN S.edges) = {}
  BY <1>1, <1>5, EpochIsAtomic DEF Atomic!AtomicNext
<1> QED
  BY <1>1, <1>2, <1>3, <1>4, <1>5 DEF SeenMoves

\* A recorded snapshot is taken at once.
LEMMA RecordIsAtomic ==
  ASSUME StoreInv, NEW r \in Readers, NEW s, Record(r, s),
         s = Atomic!SnapshotOf(Seen.nodes, Seen.edges, Seen.generation,
                               Seen.coordinator_epoch, ScopeOf[r], snapshot_counter + 1)
  PROVE  Atomic!AtomicNext
<1>1. /\ snapshot_counter < MaxSnapshots /\ snapshot_counter' = snapshot_counter + 1
      /\ snapshots' = Atomic!Remembered(snapshots, s)
      /\ UNCHANGED <<store, coordinator_epoch, txn>>
  BY DEF Record
<1>2. Seen' = Seen
  BY <1>1, FrameKeepsGraphInv DEF StoreInv
<1>3. PICK scope \in Scopes : scope = ScopeOf[r]
  BY CallerConstants
<1>4. Atomic!TakeSnapshot(scope)
  BY <1>1, <1>2, <1>3 DEF Atomic!TakeSnapshot, Atomic!graph
<1> QED
  BY <1>4 DEF Atomic!AtomicNext

\* The store with its locks, edit-by-edit indexes, undo log, failed writes and
\* retried snapshots implements a store whose mutations and snapshots happen at
\* once: a mutation takes effect as a whole when finalize_mutation commits it,
\* a failed one leaves at most a coordinator epoch behind, and a recorded
\* snapshot is of the graph at the moment it is recorded.
THEOREM StoreIsAtomic == Spec => ImplementsAtomicStore
<1>1. Init => Atomic!AtomicInit
  BY StartIsAtomic
<1>2. ASSUME StoreInv, [Next]_vars
      PROVE  [Atomic!AtomicNext]_<<Atomic!graph, Seen.coordinator_epoch, snapshots,
                                   snapshot_counter>>
  <2>1. SeenMoves(Seen, Seen')
    BY <1>2, StepKeepsGraphInv DEF StoreInv
  <2>2. CASE UNCHANGED <<snapshots, snapshot_counter>>
    <3>1. Atomic!AtomicNext \/ Seen' = Seen
      BY <2>1, <2>2, MoveIsAtomic
    <3> QED
      BY <2>2, <3>1 DEF Atomic!graph
  <2>3. CASE ~UNCHANGED <<snapshots, snapshot_counter>>
    <3>1. PICK r \in Readers : Snapshot(r)
      BY <1>2, <2>3 DEF Next, vars, Mutation, AddNode, RemoveNode, AddRelationship,
         RetireRelationship, FencePublisher, AdvanceCoordinatorEpoch, Transaction, MakeEdit,
         CommitMutation, FailWrite, UndoEdit, Detach, FindAttachment, RetireFound
    <3>2. RecordSnapshot(r) \/ SnapshotSerialised(r)
      BY <2>3, <3>1 DEF Snapshot, StartSnapshot, CopyEdges, DiscardCopy, RetrySnapshot
    <3>3. PICK s : /\ Record(r, s)
                   /\ s = Atomic!SnapshotOf(Seen.nodes, Seen.edges, Seen.generation,
                                            Seen.coordinator_epoch, ScopeOf[r],
                                            snapshot_counter + 1)
      BY <1>2, <3>2, CopyIsOfNow, SerialisedIsOfNow
    <3>4. Atomic!AtomicNext
      BY <1>2, <3>3, RecordIsAtomic
    <3> QED
      BY <3>4
  <2> QED
    BY <2>2, <2>3
<1>3. StoreInv /\ [Next]_vars =>
        [Atomic!AtomicNext]_<<Atomic!graph, Seen.coordinator_epoch, snapshots,
                              snapshot_counter>>
  BY <1>2
<1> QED
  BY <1>1, <1>3, StoreKeepsItsInv, PTL DEF Spec, ImplementsAtomicStore, Atomic!AtomicSpec

=============================================================================
