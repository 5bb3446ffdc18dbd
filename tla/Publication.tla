----------------------------- MODULE Publication -----------------------------
(***************************************************************************)
(* TopologyEngine::publish of src/src/reconciliation.cpp: reconciling what *)
(* a publisher observed with the authoritative graph.                      *)
(*                                                                         *)
(* A publication is applied to a copy of the graph, entry by entry; any    *)
(* refused entry refuses the whole publication.  The copy replaces the     *)
(* graph once validate_graph accepts it, and goes back if the durable      *)
(* image cannot be written.  The whole of it happens under both engine     *)
(* locks and is one action.  A rejected or replayed publication changes    *)
(* nothing and is no step.                                                 *)
(*                                                                         *)
(* Data left out, beside what GraphState leaves out: the limits on sizes   *)
(* and counts, and relationship ids other than those derived from the key, *)
(* so declared_absent_relationships names keys.                            *)
(***************************************************************************)
EXTENDS TopologyEngine, FiniteSets, Sequences, SequencesExt

CONSTANTS
  Publications,      \* publications that may be delivered, any number of times
  AttemptCapacity    \* AttemptLedger::kCapacity

VARIABLE attempts    \* Impl::attempts, the keys in order of arrival

publicationVars == <<vars, attempts>>

PublicationModes == {"Incremental", "AuthoritativeSnapshot", "PartialObservation"}

ObservedNodes ==
  [node_id : NodeIds, entity_id : Entities, node_class : NodeClasses, tier : Tiers,
   domain : Domains, present : BOOLEAN]

ObservedEdges ==
  [id : EdgeIds, relation : Relations, from : NodeIds, to : NodeIds, domain : Domains,
   attachment : Attachments \cup {NoAttachment}, exclusive : BOOLEAN,
   evidence_generation : Nat, present : BOOLEAN]

EdgeKeys == [relation : Relations, from : NodeIds, to : NodeIds, domain : Domains]

\* nodes is a set: reconciling one node does not depend on the others.  edges
\* is in the order of the rendered keys, the order publish takes them in.
ASSUME PublicationConstants ==
  /\ \A pub \in Publications :
       /\ pub.domain \in Domains
       /\ pub.mode \in PublicationModes
       /\ pub.nodes \subseteq ObservedNodes
       /\ pub.edges \in Seq(ObservedEdges)
       /\ pub.declared_absent \subseteq EdgeKeys
  /\ \A pub, other \in Publications : pub.id = other.id => pub = other
  /\ AttemptCapacity \in Nat \ {0}

PublicationIds == {pub.id : pub \in Publications}

IsSnapshot(pub) == pub.mode = "AuthoritativeSnapshot"

AlwaysIncremental(pub) == IncrementalWrite

\* A snapshot may remove what it does not mention and needs the stronger grant.
RequiredGrant(pub) == IF IsSnapshot(pub) THEN AuthoritativeWrite ELSE IncrementalWrite

-----------------------------------------------------------------------------
\* Observed nodes.

PresentNodes(pub) == {o \in pub.nodes : o.present}

\* Only a partial observation may not say that a node is absent; the other
\* modes take such an entry as a mention of the node.
NodesAcceptable(pub) ==
  /\ \A o \in pub.nodes :
       /\ o.domain = pub.domain
       /\ o.present \/ pub.mode # "PartialObservation"
       /\ \A q \in pub.nodes \ {o} : o.node_id # q.node_id
  /\ \A o \in PresentNodes(pub) :
       /\ \A q \in PresentNodes(pub) \ {o} : o.entity_id # q.entity_id
       /\ IsLiveEntity(o.entity_id)
       /\ \/ o.node_id \in DOMAIN nodes /\ nodes[o.node_id].entity_id = o.entity_id
          \/ o.node_id \notin DOMAIN nodes /\ NodesOfEntity(nodes, o.entity_id) = {}

\* A known node is refreshed from the registry, whatever domain it is in; the
\* class it was added with stays.
ObservedNode(N, o) ==
  LET current == registry[o.entity_id].generation
  IN  IF o.node_id \in DOMAIN N
      THEN [N[o.node_id] EXCEPT !.entity_generation = current,
                                !.tier = o.tier, !.lifecycle = "CURRENT"]
      ELSE [entity_id |-> o.entity_id, entity_generation |-> current,
            node_class |-> o.node_class, tier |-> o.tier, domain |-> o.domain,
            lifecycle |-> "CURRENT"]

ReconciledNodes(N, pub) ==
  LET observed == {o.node_id : o \in PresentNodes(pub)}
  IN  [n \in DOMAIN N \cup observed |->
         IF n \in observed
         THEN ObservedNode(N, CHOOSE o \in PresentNodes(pub) : o.node_id = n)
         ELSE N[n]]

\* An entry of another class than the stored one does not count as unchanged,
\* however often it is delivered.
ObservesOtherClass(N, pub) ==
  \E o \in PresentNodes(pub) :
    o.node_id \in DOMAIN N /\ N[o.node_id].node_class # o.node_class

\* Live edges follow the nodes whose entity generation is another in M than in
\* N, and lose currentness.
RebindAll(N, M, E) ==
  LET moved == {n \in DOMAIN N : M[n].entity_generation # N[n].entity_generation}
  IN  [e \in DOMAIN E |->
         IF IsLive(E[e]) /\ {E[e].from, E[e].to} \cap moved # {}
         THEN [E[e] EXCEPT
                 !.from_entity_generation =
                   IF E[e].from \in moved THEN M[E[e].from].entity_generation ELSE @,
                 !.to_entity_generation =
                   IF E[e].to \in moved THEN M[E[e].to].entity_generation ELSE @,
                 !.lifecycle = "REVALIDATION_REQUIRED"]
         ELSE E[e]]

\* GraphState candidate = impl_->graph, once its nodes are reconciled.  valid
\* is cleared by an entry that refuses the publication, changed is set by an
\* entry that adds to the diff.
NodesReconciled(N, E, pub) ==
  LET M == ReconciledNodes(N, pub)
  IN  [valid |-> TRUE, changed |-> M # N \/ ObservesOtherClass(N, pub),
       nodes |-> M, edges |-> RebindAll(N, M, E)]

-----------------------------------------------------------------------------
\* Observed edges, each reconciled with the candidate c the ones before left.

\* The live edges D are gone: erased by a snapshot, retired by the others.
Drop(pub, c, D) ==
  [c EXCEPT
     !.changed = @ \/ D # {},
     !.edges = IF IsSnapshot(pub) THEN Without(@, D)
               ELSE [e \in DOMAIN @ |-> IF e \in D THEN [@[e] EXCEPT !.lifecycle = "RETIRED"]
                                        ELSE @[e]]]

LiveWithKey(E, key) == {e \in DOMAIN E : IsLive(E[e]) /\ SameKey(E[e], key)}

AbsentEdge(pub, c, o) ==
  IF pub.mode = "PartialObservation" THEN [c EXCEPT !.valid = FALSE]
  ELSE Drop(pub, c, LiveWithKey(c.edges, o))

AddedEdge(ctx, N, o) ==
  [relation |-> o.relation, from |-> o.from, to |-> o.to, domain |-> o.domain,
   secondary_domain |-> o.domain,
   from_entity_generation |-> N[o.from].entity_generation,
   to_entity_generation |-> N[o.to].entity_generation,
   evidence_generation |-> o.evidence_generation, lifecycle |-> "CURRENT",
   attachment |-> o.attachment, superseded_by |-> NoEdge, provenance |-> ctx]

\* An observation confirms a known edge and takes over its provenance.
ConfirmedEdge(ctx, edge, o) ==
  [edge EXCEPT !.evidence_generation = o.evidence_generation, !.attachment = o.attachment,
               !.lifecycle = "CURRENT", !.provenance = ctx]

\* The entry agrees with the identifiers in use and passes the checks made on
\* every new relationship; a retired or superseded one cannot come back, and a
\* snapshot may not be older than what is stored.
EdgeAcceptable(pub, c, o) ==
  LET E == c.edges
      byKey == {e \in DOMAIN E : SameKey(E[e], o)}
  IN  /\ byKey \subseteq {o.id}
      /\ o.id \in DOMAIN E =>
           /\ SameKey(E[o.id], o)
           /\ IsLive(E[o.id])
           /\ IsSnapshot(pub) => E[o.id].evidence_generation <= o.evidence_generation
      /\ ValidCandidate(c.nodes, E, o, byKey = {})

SkipUnchanged(edge, o) ==
  /\ edge.evidence_generation = o.evidence_generation
  /\ edge.lifecycle = "CURRENT"
  /\ edge.attachment = o.attachment

\* Older evidence than the stored one, or nothing new.
IsSkipped(edge, o) ==
  \/ edge.evidence_generation > o.evidence_generation
  \/ /\ edge.evidence_generation = o.evidence_generation
     /\ edge.lifecycle = "CURRENT"
     /\ edge.attachment = o.attachment

PresentEdge(ctx, pub, c, o) ==
  LET known == o.id \in DOMAIN c.edges
      edge == IF known THEN ConfirmedEdge(ctx, c.edges[o.id], o) ELSE AddedEdge(ctx, c.nodes, o)
  IN  IF ~EdgeAcceptable(pub, c, o) THEN [c EXCEPT !.valid = FALSE]
      ELSE IF known /\ IsSkipped(c.edges[o.id], o) THEN c
      ELSE [c EXCEPT !.changed = TRUE, !.edges = Put(@, o.id, edge)]

ObservedEdge(ctx, pub, c, o) ==
  IF ~c.valid THEN c
  ELSE IF o.present THEN PresentEdge(ctx, pub, c, o) ELSE AbsentEdge(pub, c, o)

\* One turn of the loop over the observed edges of p.pub.
ReconcileEntry(p, i, c) == ObservedEdge(p.ctx, p.pub, c, p.pub.edges[i])

Entries == INSTANCE Iteration WITH Step <- ReconcileEntry

EdgesReconciled(ctx, pub, c) ==
  Entries!After([ctx |-> ctx, pub |-> pub], c, Len(pub.edges))

EdgeEntriesAcceptable(pub) ==
  \A i \in DOMAIN pub.edges :
    /\ pub.edges[i].domain = pub.domain
    /\ \A j \in DOMAIN pub.edges \ {i} : ~SameKey(pub.edges[i], pub.edges[j])

\* declared_absent_relationships, honoured in every mode, within the scope.
AbsencesApplied(pub, c) ==
  Drop(pub, c, UNION {LiveWithKey(c.edges, key) :
                        key \in {k \in pub.declared_absent : k.domain = pub.domain}})

-----------------------------------------------------------------------------
\* What a snapshot does not mention.

Mentions(pub, edge) == \E i \in DOMAIN pub.edges : SameKey(pub.edges[i], edge)

UnmentionedAnywhere(pub, E) ==
  {e \in DOMAIN E : IsLive(E[e]) /\ ~Mentions(pub, E[e])}

UnmentionedEdges(pub, E) ==
  {e \in DOMAIN E : E[e].domain = pub.domain /\ IsLive(E[e]) /\ ~Mentions(pub, E[e])}

UnmentionedNodes(pub, N) ==
  {n \in DOMAIN N : N[n].domain = pub.domain /\ n \notin {o.node_id : o \in pub.nodes}}

\* Edges of the scope that are not mentioned are erased, and then its nodes; a
\* node that still has edges is retired instead, again if it already was.
Removals(pub, c) ==
  LET E == Without(c.edges, UnmentionedEdges(pub, c.edges))
      gone == UnmentionedNodes(pub, c.nodes)
      kept == {n \in gone : Incident(E, n) # {}}
  IN  [c EXCEPT
         !.changed = @ \/ DOMAIN E # DOMAIN c.edges \/ gone # {},
         !.edges = E,
         !.nodes = [n \in DOMAIN @ \ (gone \ kept) |->
                      IF n \in kept THEN [@[n] EXCEPT !.lifecycle = "RETIRED"] ELSE @[n]]]

RemovalsInEveryMode(N, E, ctx, pub) ==
  Removals(pub, AbsencesApplied(pub, EdgesReconciled(ctx, pub, NodesReconciled(N, E, pub))))

\* The rebinding of refreshed nodes done after the edges were reconciled.
RebindingLast(N, E, ctx, pub) ==
  LET M == ReconciledNodes(N, pub)
      c == EdgesReconciled(ctx, pub, [NodesReconciled(N, E, pub) EXCEPT !.edges = E])
      applied == AbsencesApplied(pub, [c EXCEPT !.edges = RebindAll(N, M, @)])
  IN  IF IsSnapshot(pub) THEN Removals(pub, applied) ELSE applied

\* The candidate state publish builds from nodes N and edges E.
Candidate(N, E, ctx, pub) ==
  LET applied == AbsencesApplied(pub, EdgesReconciled(ctx, pub, NodesReconciled(N, E, pub)))
  IN  IF IsSnapshot(pub) THEN Removals(pub, applied) ELSE applied

-----------------------------------------------------------------------------
\* The ledger and the commit.

RecordUnbounded(id) == attempts' = Append(attempts, id)

\* AttemptLedger::record: the oldest attempt is forgotten at capacity.
RecordAttempt(id) ==
  attempts' = IF Len(attempts) < AttemptCapacity THEN Append(attempts, id)
              ELSE Append(Tail(attempts), id)

CommitKeepingCandidate(pub, N, E) ==
  /\ generation < MaxGeneration
  /\ nodes' = N
  /\ edges' = E
  /\ generation' = generation + 1
  /\ \/ /\ image' = ImageOf(N, E, generation + 1, fenced_boots, coordinator_epoch)
        /\ RecordAttempt(pub.id)
     \/ WriteMayFail /\ UNCHANGED <<image, attempts>>

RecordBeforeWrite(pub, N, E) ==
  /\ RecordAttempt(pub.id)
  /\ \/ /\ generation < MaxGeneration
        /\ nodes' = N
        /\ edges' = E
        /\ generation' = generation + 1
        /\ image' = ImageOf(N, E, generation + 1, fenced_boots, coordinator_epoch)
     \/ WriteMayFail /\ UNCHANGED <<graph, image>>

\* The candidate becomes the graph and is written; if the write fails the
\* previous graph is moved back and the attempt is not recorded.
CommitPublication(pub, N, E) ==
  \/ /\ generation < MaxGeneration
     /\ nodes' = N
     /\ edges' = E
     /\ generation' = generation + 1
     /\ image' = ImageOf(N, E, generation + 1, fenced_boots, coordinator_epoch)
     /\ RecordAttempt(pub.id)
  \/ WriteMayFail /\ UNCHANGED <<graph, image, attempts>>

\* Every check between the request and the commit, on the candidate state c.
Accepts(ctx, pub, c) ==
  /\ HasAuthority(ctx, pub.domain, RequiredGrant(pub))
  /\ pub.id \notin Range(attempts)
  /\ NodesAcceptable(pub)
  /\ EdgeEntriesAcceptable(pub)
  /\ c.valid
  /\ c.changed => ValidGraph(c.nodes, c.edges, registry)

\* publish, of a publication that is not rejected.
Publish(ctx, pub) ==
  LET c == Candidate(nodes, edges, ctx, pub)
  IN  /\ Accepts(ctx, pub, c)
      /\ \/ /\ ~c.changed
            /\ RecordAttempt(pub.id)
            /\ UNCHANGED <<graph, image>>
         \/ /\ c.changed
            /\ CommitPublication(pub, c.nodes, c.edges)
      /\ UNCHANGED <<authority, registry>>

-----------------------------------------------------------------------------

PublicationInit == Init /\ attempts = <<>>

\* The engine's other operations, which the ledger knows nothing of.
Mutate == \E ctx \in Contexts : MutateNodes(ctx) \/ MutateEdges(ctx)

PublicationNext ==
  \/ (Mutate \/ Administer \/ Save \/ RegistryMoves) /\ UNCHANGED attempts
  \/ Restart /\ attempts' = <<>>
  \/ \E ctx \in Contexts, pub \in Publications : Publish(ctx, pub)

PublicationSpec == PublicationInit /\ [][PublicationNext]_publicationVars

-----------------------------------------------------------------------------
\* Correctness.

\* The ledger holds publications it was given, once each, within its capacity.
PublicationTypeOK ==
  /\ attempts \in Seq(PublicationIds)
  /\ Len(attempts) <= AttemptCapacity
  /\ Cardinality(Range(attempts)) = Len(attempts)

\* The step that answers publication pub with success, and remembers it.
Answers(pub) ==
  attempts' # attempts /\ attempts' # <<>> /\ Last(attempts') = pub.id

HasKey(edge, key) == Key(edge) = <<key.relation, key.from, key.to, key.domain>>

IsObserved(pub, edge) == \E i \in DOMAIN pub.edges : HasKey(edge, pub.edges[i])

IsDeclaredAbsent(pub, edge) == \E k \in pub.declared_absent : HasKey(edge, k)

\* A snapshot that was answered with success is the state of its scope: the live
\* edges of the domain are the observed ones, current under the evidence that
\* was published, and every node of the domain that is not retired is one the
\* snapshot mentions.  A failed write must not leave the attempt in the ledger,
\* or the retry would be answered without having been applied.
SnapshotReplacesScope ==
  [][\A pub \in Publications : IsSnapshot(pub) /\ Answers(pub) =>
       /\ \A e \in DOMAIN edges' :
            edges'[e].domain = pub.domain /\ IsLive(edges'[e]) =>
              \E i \in DOMAIN pub.edges :
                /\ pub.edges[i].present
                /\ HasKey(edges'[e], pub.edges[i])
                /\ edges'[e].lifecycle = "CURRENT"
                /\ edges'[e].evidence_generation = pub.edges[i].evidence_generation
       /\ \A i \in DOMAIN pub.edges :
            pub.edges[i].present /\ ~IsDeclaredAbsent(pub, pub.edges[i]) =>
              \E e \in DOMAIN edges' : HasKey(edges'[e], pub.edges[i]) /\ IsLive(edges'[e])
       /\ \A n \in DOMAIN nodes' :
            nodes'[n].domain = pub.domain /\ nodes'[n].lifecycle # "RETIRED" =>
              \E o \in pub.nodes : o.node_id = n]_publicationVars

\* What an incremental publication or a partial observation does not name stays:
\* no node or edge is erased, and no edge ends that was neither observed absent
\* nor declared absent.
SilenceIsNotAbsence ==
  [][\A pub \in Publications : ~IsSnapshot(pub) /\ Answers(pub) =>
       /\ DOMAIN nodes \subseteq DOMAIN nodes'
       /\ DOMAIN edges \subseteq DOMAIN edges'
       /\ \A n \in DOMAIN nodes : nodes'[n].lifecycle \in {nodes[n].lifecycle, "CURRENT"}
       /\ \A e \in DOMAIN edges :
            IsLive(edges[e]) /\ ~IsLive(edges'[e]) =>
              IsObserved(pub, edges[e]) \/ IsDeclaredAbsent(pub, edges[e])]_publicationVars

\* A publication leaves the relationships of other scopes alone, and no node of
\* another scope disappears: at most an edge at a node whose registry generation
\* moved on awaits revalidation.
ForeignScopeKept ==
  [][\A pub \in Publications : Answers(pub) =>
       /\ \A n \in DOMAIN nodes :
            nodes[n].domain # pub.domain =>
              /\ n \in DOMAIN nodes'
              /\ nodes'[n].domain = nodes[n].domain
              /\ nodes'[n].lifecycle \in {nodes[n].lifecycle, "CURRENT"}
       /\ \A e \in DOMAIN edges :
            edges[e].domain # pub.domain =>
              /\ e \in DOMAIN edges'
              /\ \/ edges'[e] = edges[e]
                 \/ /\ edges'[e].lifecycle = "REVALIDATION_REQUIRED"
                    /\ \E n \in {edges[e].from, edges[e].to} :
                         nodes'[n].entity_generation # nodes[n].entity_generation
              ]_publicationVars

\* Publications that arrive out of order never take a relationship back to older
\* evidence, whatever mode they are sent in, however often, and under whatever
\* edge ids they ask for.
EvidenceNeverGoesBack ==
  [][\A pub \in Publications : Answers(pub) =>
       \A e \in DOMAIN edges, f \in DOMAIN edges' :
         Key(edges[e]) = Key(edges'[f]) =>
           edges'[f].evidence_generation >= edges[e].evidence_generation]_publicationVars

\* A snapshot that leaves out a node which edges of another scope keep.
RetiresAgain(N, pub) == IsSnapshot(pub) /\ UnmentionedNodes(pub, N) # {}

\* A snapshot that observes a relationship present and declares it absent.
ErasesItsOwnEdge(pub) ==
  /\ IsSnapshot(pub)
  /\ \E i \in DOMAIN pub.edges : pub.edges[i].present /\ IsDeclaredAbsent(pub, pub.edges[i])

\* A publication that was just answered, and reaches publish once more because
\* the ledger holds the attempt no longer, finds nothing left to do while the
\* graph is what it made of it.  It is refused, or reproduces the nodes and the
\* edges; and it commits no topology generation either ("an idempotent replay
\* never advances it"), but for the three contents that are a change each time
\* they are delivered: a class the node was not added with, a node that is
\* retired again, an edge that is added and erased again.
RedeliveryIsHarmless ==
  [][\A pub \in Publications : Answers(pub) =>
       \A ctx \in Contexts :
         LET again == Candidate(nodes', edges', ctx, pub)
         IN  again.valid =>
               /\ again.nodes = nodes'
               /\ again.edges = edges'
               /\ again.changed =>
                    \/ ObservesOtherClass(nodes', pub)
                    \/ RetiresAgain(nodes', pub)
                    \/ ErasesItsOwnEdge(pub)]_publicationVars

\* A publication erases a node or an edge only if a live registration holds the
\* authoritative grant over its domain.
ErasureNeedsAuthoritativeGrant ==
  [][\A pub \in Publications : Answers(pub) =>
       /\ DOMAIN edges \subseteq DOMAIN edges'
       /\ DOMAIN nodes \subseteq DOMAIN nodes'
       \/ \E p \in DOMAIN publishers :
            /\ ~publishers[p].fenced
            /\ publishers[p].worker_boot \notin fenced_boots
            /\ publishers[p].grants[pub.domain] = AuthoritativeWrite]_publicationVars

\* Memory and disk are in step although publish replaces the whole graph before
\* it writes: a step that changes the graph leaves an image of exactly the new
\* graph, unless it is a restart.
PublicationsAreDurable ==
  [][graph' # graph =>
       \/ attempts' = <<>> /\ Restart
       \/ image' = ImageOf(nodes', edges', generation', fenced_boots', coordinator_epoch')]_publicationVars

=============================================================================
