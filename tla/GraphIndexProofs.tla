-------------------------- MODULE GraphIndexProofs --------------------------
(***************************************************************************)
(* The secondary indexes, proved right: what the code keeps edit by edit   *)
(* is a function of the two maps (IndexOf), every edit takes that function *)
(* from the old maps to the new ones, and rebuild_indexes computes it in   *)
(* whatever order it meets the elements.  And what traverse finds through  *)
(* the index of incident edges is what a breadth-first search finds.       *)
(***************************************************************************)
EXTENDS GraphQueries, FiniteSetTheorems, SequenceTheorems, TLAPS

\* Buckets: keys gives the set of keys an element is filed under.
BucketsOf(keys) ==
  [k \in UNION {keys[e] : e \in DOMAIN keys} |-> {e \in DOMAIN keys : k \in keys[e]}]

\* Slots: key gives the one key an element is named by.
SlotsOf(key) ==
  [k \in {key[e] : e \in DOMAIN key} |-> CHOOSE e \in DOMAIN key : key[e] = k]

\* The sets of keys that occur.
Under(k) == {k}
UnderBoth(k, l) == {k, l}
UnderNone == {}
UnderIfAny(a) == {a} \ {NoAttachment}

\* A map without one of its elements.
Drop(f, e) == Without(f, {e})

\* What an element is filed under in each index.
EntityOf(N) == [n \in DOMAIN N |-> N[n].entity_id]
KeysOf(E) == [e \in DOMAIN E |-> KeyOf(E[e])]
EndsOf(E) == [e \in DOMAIN E |-> UnderBoth(E[e].from, E[e].to)]
FromOf(E) == [e \in DOMAIN E |-> Under(E[e].from)]
ToOf(E) == [e \in DOMAIN E |-> Under(E[e].to)]
RelationOf(E) == [e \in DOMAIN E |-> Under(E[e].relation)]
LifecycleOf(E) == [e \in DOMAIN E |-> Under(E[e].lifecycle)]
PublisherOf(E) == [e \in DOMAIN E |-> Under(E[e].provenance.publisher)]
AttachmentOf(E) == [e \in DOMAIN E |-> UnderIfAny(E[e].attachment)]
NodesByDomain(N) == [d \in Domains |-> {n \in DOMAIN N : N[n].domain = d}]
EdgesByDomain(E) == [d \in Domains |-> {e \in DOMAIN E : d \in DomainsOf(E[e])}]

\* The index of a graph.
IndexRecord(entity, key, ends, from, to, relation, lifecycle, publisher, attachment, dn, de) ==
  [byEntity |-> entity, byKey |-> key, incident |-> ends, outgoing |-> from, incoming |-> to,
   byRelation |-> relation, byLifecycle |-> lifecycle, byPublisher |-> publisher,
   byAttachment |-> attachment, domainNodes |-> dn, domainEdges |-> de]

IndexOf(N, E) ==
  IndexRecord(SlotsOf(EntityOf(N)), SlotsOf(KeysOf(E)),
              BucketsOf(EndsOf(E)), BucketsOf(FromOf(E)), BucketsOf(ToOf(E)),
              BucketsOf(RelationOf(E)), BucketsOf(LifecycleOf(E)), BucketsOf(PublisherOf(E)),
              BucketsOf(AttachmentOf(E)), NodesByDomain(N), EdgesByDomain(E))

\* The members of each domain with and without an element.
NodeJoins(members, d, n) == [members EXCEPT ![d] = @ \cup {n}]
NodeLeaves(members, d, n) == [members EXCEPT ![d] = @ \ {n}]
EdgeJoins(members, D, e) ==
  [d \in Domains |-> members[d] \cup IF d \in D THEN {e} ELSE {}]
EdgeLeaves(members, D, e) ==
  [d \in Domains |-> members[d] \ IF d \in D THEN {e} ELSE {}]

\* The attachment an edge may have.
FileIfAny(b, a, e) == IF a = NoAttachment THEN b ELSE IndexInto(b, a, e)
UnfileIfAny(b, a, e) == IF a = NoAttachment THEN b ELSE UnindexFrom(b, a, e)

\* No entity has two nodes, no relationship two edges.
OneNodeEach(N) == \A n, m \in DOMAIN N : N[n].entity_id = N[m].entity_id => n = m
OneEdgeEach(E) == \A e, f \in DOMAIN E : KeyOf(E[e]) = KeyOf(E[f]) => e = f

-----------------------------------------------------------------------------
\* Buckets and slots, one element at a time.

\* A bucket holds the elements filed under its key.
LEMMA BucketIs ==
  ASSUME NEW keys, NEW k
  PROVE  Bucket(BucketsOf(keys), k) = {e \in DOMAIN keys : k \in keys[e]}
BY DEF BucketsOf, Bucket

\* A bucket map without empty buckets is known by what its buckets hold.
LEMMA BucketsAre ==
  ASSUME NEW keys, NEW b, b = [k \in DOMAIN b |-> b[k]],
         \A k : k \in DOMAIN b <=> \E e \in DOMAIN keys : k \in keys[e],
         \A k \in DOMAIN b : b[k] = {e \in DOMAIN keys : k \in keys[e]}
  PROVE  b = BucketsOf(keys)
<1>1. DOMAIN b = UNION {keys[e] : e \in DOMAIN keys}
  OBVIOUS
<1> QED
  BY <1>1 DEF BucketsOf

\* One more key for an element.
LEMMA FileKey ==
  ASSUME NEW keys, NEW e, NEW k, NEW more,
         \A f : f \in DOMAIN more <=> f \in DOMAIN keys \/ f = e,
         \A f \in DOMAIN keys \ {e} : more[f] = keys[f],
         \A l : l \in more[e] <=> l = k \/ (e \in DOMAIN keys /\ l \in keys[e])
  PROVE  IndexInto(BucketsOf(keys), k, e) = BucketsOf(more)
<1> DEFINE b == BucketsOf(keys)
           K == DOMAIN b \cup {k}
           B(l) == IF l = k THEN Bucket(b, k) \cup {e} ELSE b[l]
<1>1. DOMAIN b = {l \in UNION {keys[f] : f \in DOMAIN keys} : TRUE}
  BY DEF BucketsOf
<1>2. \A l : l \in K <=> \E f \in DOMAIN more : l \in more[f]
  BY <1>1
<1>3. ASSUME NEW l \in K PROVE B(l) = {f \in DOMAIN more : l \in more[f]}
  <2>1. CASE l = k
    BY <2>1, BucketIs
  <2>2. CASE l # k
    <3>1. b[l] = {f \in DOMAIN keys : l \in keys[f]}
      BY <2>2, <1>3 DEF BucketsOf
    <3> QED
      BY <2>2, <3>1
  <2> QED
    BY <2>1, <2>2
<1>4. IndexInto(b, k, e) = [l \in K |-> B(l)]
  BY DEF IndexInto, Put
<1> HIDE DEF K, B, b
<1> DEFINE c == [l \in K |-> B(l)]
<1>5. DOMAIN c = K /\ \A l \in K : c[l] = B(l)
  OBVIOUS
<1>6. c = [l \in DOMAIN c |-> c[l]]
  OBVIOUS
<1> HIDE DEF c
<1>7. c = BucketsOf(more)
  BY <1>2, <1>3, <1>5, <1>6, BucketsAre
<1> QED
  BY <1>4, <1>7 DEF b, c

\* One key less.  A bucket that only held the element goes.
LEMMA UnfileKey ==
  ASSUME NEW keys, NEW e, NEW k, NEW less,
         DOMAIN less = DOMAIN keys,
         \A f \in DOMAIN keys \ {e} : less[f] = keys[f],
         e \in DOMAIN keys => less[e] = keys[e] \ {k}
  PROVE  UnindexFrom(BucketsOf(keys), k, e) = BucketsOf(less)
<1> DEFINE b == BucketsOf(keys)
           held == {f \in DOMAIN keys : k \in keys[f]}
           K == IF held \subseteq {e} THEN DOMAIN b \ {k} ELSE DOMAIN b \cup {k}
           B(l) == IF l = k THEN b[k] \ {e} ELSE b[l]
<1>1. \A l : l \in DOMAIN b <=> \E f \in DOMAIN keys : l \in keys[f]
  BY DEF BucketsOf
<1>2. \A l \in DOMAIN b : b[l] = {f \in DOMAIN keys : l \in keys[f]}
  BY DEF BucketsOf
<1>3. Bucket(b, k) = held
  BY BucketIs
<1>4. UnindexFrom(b, k, e) = [l \in K |-> B(l)]
  BY <1>3 DEF UnindexFrom, Without, Put
<1> HIDE DEF b
<1>5. \A l : l \in K <=> \E f \in DOMAIN less : l \in less[f]
  <2>1. CASE held \subseteq {e}
    BY <1>1, <2>1
  <2>2. CASE ~(held \subseteq {e})
    BY <1>1, <2>2
  <2> QED
    BY <2>1, <2>2
<1>6. ASSUME NEW l \in K PROVE B(l) = {f \in DOMAIN less : l \in less[f]}
  <2>1. l \in DOMAIN b
    BY <1>1
  <2> QED
    BY <1>2, <2>1
<1> HIDE DEF K, B
<1> DEFINE c == [l \in K |-> B(l)]
<1>7. DOMAIN c = K /\ \A l \in K : c[l] = B(l)
  OBVIOUS
<1>8. c = [l \in DOMAIN c |-> c[l]]
  OBVIOUS
<1> HIDE DEF c
<1>9. c = BucketsOf(less)
  BY <1>5, <1>6, <1>7, <1>8, BucketsAre
<1> QED
  BY <1>4, <1>9 DEF b, c

\* An element without a key is in no bucket.
LEMMA FileNone ==
  ASSUME NEW keys, NEW e, e \notin DOMAIN keys
  PROVE  BucketsOf(Put(keys, e, UnderNone)) = BucketsOf(keys)
BY DEF BucketsOf, Put, UnderNone

\* An element without a key is not missed.
LEMMA UnfileNone ==
  ASSUME NEW keys, NEW e \in DOMAIN keys, keys[e] = UnderNone
  PROVE  BucketsOf(Drop(keys, e)) = BucketsOf(keys)
BY DEF BucketsOf, Drop, Without, UnderNone

\* What index_edge does to a bucket map, and unindex_edge.
LEMMA FileOne ==
  ASSUME NEW keys, NEW e, e \notin DOMAIN keys, NEW k
  PROVE  IndexInto(BucketsOf(keys), k, e) = BucketsOf(Put(keys, e, Under(k)))
<1>0. PICK more : more = Put(keys, e, Under(k))
  OBVIOUS
<1>1. /\ \A f : f \in DOMAIN more <=> f \in DOMAIN keys \/ f = e
      /\ \A f \in DOMAIN keys \ {e} : more[f] = keys[f]
      /\ \A l : l \in more[e] <=> l = k \/ (e \in DOMAIN keys /\ l \in keys[e])
  BY <1>0 DEF Put, Under, UnderBoth
<1>2. IndexInto(BucketsOf(keys), k, e) = BucketsOf(more)
  BY <1>1, FileKey
<1> QED
  BY <1>0, <1>2

\* The incident edges are filed under both ends.
LEMMA FileTwo ==
  ASSUME NEW keys, NEW e, e \notin DOMAIN keys, NEW k, NEW l
  PROVE  IndexInto(IndexInto(BucketsOf(keys), k, e), l, e) =
           BucketsOf(Put(keys, e, UnderBoth(k, l)))
<1>1. IndexInto(BucketsOf(keys), k, e) = BucketsOf(Put(keys, e, Under(k)))
  BY FileOne
<1>0. PICK some, more : some = Put(keys, e, Under(k)) /\ more = Put(keys, e, UnderBoth(k, l))
  OBVIOUS
<1>2. /\ \A f : f \in DOMAIN more <=> f \in DOMAIN some \/ f = e
      /\ \A f \in DOMAIN some \ {e} : more[f] = some[f]
      /\ e \in DOMAIN some
      /\ \A m : m \in more[e] <=> m = l \/ (e \in DOMAIN some /\ m \in some[e])
  BY <1>0 DEF Put, Under, UnderBoth
<1>3. IndexInto(BucketsOf(some), l, e) = BucketsOf(more)
  BY <1>2, FileKey
<1> QED
  BY <1>0, <1>1, <1>3

\* And taken out from under both, which may be one.
LEMMA UnfileTwo ==
  ASSUME NEW keys, NEW e \in DOMAIN keys, NEW k, NEW l, keys[e] = UnderBoth(k, l)
  PROVE  UnindexFrom(UnindexFrom(BucketsOf(keys), k, e), l, e)
           = BucketsOf(Drop(keys, e))
<1> DEFINE one == [f \in DOMAIN keys |-> IF f = e THEN keys[f] \ {k} ELSE keys[f]]
           none == [f \in DOMAIN keys |-> IF f = e THEN {} ELSE keys[f]]
<1>1. UnindexFrom(BucketsOf(keys), k, e) = BucketsOf(one)
  BY UnfileKey
<1>2. UnindexFrom(BucketsOf(one), l, e) = BucketsOf(none)
  BY UnfileKey DEF UnderBoth
<1>3. BucketsOf(none) = BucketsOf(Drop(none, e))
  BY UnfileNone DEF UnderNone
<1>4. Drop(none, e) = Drop(keys, e)
  BY DEF Drop, Without
<1> QED
  BY <1>1, <1>2, <1>3, <1>4

\* An element filed under one key is taken out from under it.
LEMMA UnfileOne ==
  ASSUME NEW keys, NEW e \in DOMAIN keys, NEW k, keys[e] = Under(k)
  PROVE  UnindexFrom(BucketsOf(keys), k, e) = BucketsOf(Drop(keys, e))
<1> DEFINE none == [f \in DOMAIN keys |-> IF f = e THEN {} ELSE keys[f]]
<1>1. UnindexFrom(BucketsOf(keys), k, e) = BucketsOf(none)
  BY UnfileKey DEF Under
<1>2. BucketsOf(none) = BucketsOf(Drop(none, e))
  BY UnfileNone DEF UnderNone
<1>3. Drop(none, e) = Drop(keys, e)
  BY DEF Drop, Without
<1> QED
  BY <1>1, <1>2, <1>3

\* A slot map names one element more, under a key of its own.
LEMMA NameOne ==
  ASSUME NEW key, NEW e, e \notin DOMAIN key, NEW k, \A f \in DOMAIN key : key[f] # k
  PROVE  Put(SlotsOf(key), k, e) = SlotsOf(Put(key, e, k))
<1> DEFINE p == Put(key, e, k)
<1>1. DOMAIN p = DOMAIN key \cup {e} /\ p[e] = k /\ \A f \in DOMAIN key : p[f] = key[f]
  BY DEF Put
<1> HIDE DEF p
<1>2. {p[f] : f \in DOMAIN p} = {key[f] : f \in DOMAIN key} \cup {k}
  BY <1>1
<1>3. ASSUME NEW l \in {key[f] : f \in DOMAIN key}
      PROVE  (CHOOSE f \in DOMAIN p : p[f] = l) = (CHOOSE f \in DOMAIN key : key[f] = l)
  <2>1. \A f : (f \in DOMAIN p /\ p[f] = l) <=> (f \in DOMAIN key /\ key[f] = l)
    BY <1>1
  <2> QED
    BY <2>1
<1>4. (CHOOSE f \in DOMAIN p : p[f] = k) = e
  BY <1>1
<1>5. \A l \in {key[f] : f \in DOMAIN key} : l # k
  OBVIOUS
<1> QED
  BY <1>2, <1>3, <1>4, <1>5 DEF SlotsOf, Put, p

\* A slot names its element, so it is given up when the element leaves.
LEMMA UnnameOne ==
  ASSUME NEW key, NEW e \in DOMAIN key, \A f \in DOMAIN key : key[f] = key[e] => f = e
  PROVE  FreeSlot(SlotsOf(key), key[e], e) = SlotsOf(Drop(key, e))
<1> DEFINE w == Drop(key, e)
           s == SlotsOf(key)
<1>1. DOMAIN w = DOMAIN key \ {e} /\ \A f \in DOMAIN w : w[f] = key[f]
  BY DEF Drop, Without
<1>2. key[e] \in DOMAIN s /\ s[key[e]] = e
  BY DEF SlotsOf
<1>3. FreeSlot(s, key[e], e) = [k \in DOMAIN s \ {key[e]} |-> s[k]]
  BY <1>2 DEF FreeSlot, Without
<1> HIDE DEF w
<1>4. {w[f] : f \in DOMAIN w} = {key[f] : f \in DOMAIN key} \ {key[e]}
  BY <1>1
<1>5. ASSUME NEW l \in {w[f] : f \in DOMAIN w}
      PROVE  (CHOOSE f \in DOMAIN w : w[f] = l) = (CHOOSE f \in DOMAIN key : key[f] = l)
  <2>1. \A f : (f \in DOMAIN w /\ w[f] = l) <=> (f \in DOMAIN key /\ key[f] = l)
    BY <1>1
  <2> QED
    BY <2>1
<1> QED
  BY <1>3, <1>4, <1>5 DEF SlotsOf, w

-----------------------------------------------------------------------------
\* What each index is filed by, one element more or less.

\* node_by_entity, with a node more and a node less.
LEMMA EntitiesGrow ==
  ASSUME NEW N, NEW n, n \notin DOMAIN N, NEW node
  PROVE  EntityOf(Put(N, n, node)) = Put(EntityOf(N), n, node.entity_id)
BY DEF EntityOf, Put

\* The entities left when a node goes.
LEMMA EntitiesShrink ==
  ASSUME NEW N, NEW n \in DOMAIN N
  PROVE  EntityOf(Drop(N, n)) = Drop(EntityOf(N), n)
BY DEF EntityOf, Drop, Without

\* Domain members, with a node more.
LEMMA NodeDomainsGrow ==
  ASSUME NEW N, NEW n, n \notin DOMAIN N, NEW node
  PROVE  NodeJoins(NodesByDomain(N), node.domain, n) = NodesByDomain(Put(N, n, node))
BY DEF NodesByDomain, NodeJoins, Put

\* Domain members, with a node less.
LEMMA NodeDomainsShrink ==
  ASSUME NEW N, NEW n \in DOMAIN N
  PROVE  NodeLeaves(NodesByDomain(N), N[n].domain, n) = NodesByDomain(Drop(N, n))
BY DEF NodesByDomain, NodeLeaves, Drop, Without

\* What the edge indexes are filed by, with an edge more.
LEMMA EdgeColumnsGrow ==
  ASSUME NEW E, NEW e, e \notin DOMAIN E, NEW edge
  PROVE  /\ KeysOf(Put(E, e, edge)) = Put(KeysOf(E), e, KeyOf(edge))
         /\ EndsOf(Put(E, e, edge)) = Put(EndsOf(E), e, UnderBoth(edge.from, edge.to))
         /\ FromOf(Put(E, e, edge)) = Put(FromOf(E), e, Under(edge.from))
         /\ ToOf(Put(E, e, edge)) = Put(ToOf(E), e, Under(edge.to))
         /\ RelationOf(Put(E, e, edge)) = Put(RelationOf(E), e, Under(edge.relation))
         /\ LifecycleOf(Put(E, e, edge)) = Put(LifecycleOf(E), e, Under(edge.lifecycle))
         /\ PublisherOf(Put(E, e, edge)) = Put(PublisherOf(E), e, Under(edge.provenance.publisher))
         /\ AttachmentOf(Put(E, e, edge)) =
              Put(AttachmentOf(E), e, UnderIfAny(edge.attachment))
<1>1. KeysOf(Put(E, e, edge)) = Put(KeysOf(E), e, KeyOf(edge))
  BY DEF KeysOf, Put
<1>2. EndsOf(Put(E, e, edge)) = Put(EndsOf(E), e, UnderBoth(edge.from, edge.to))
  BY DEF EndsOf, Put
<1>3. FromOf(Put(E, e, edge)) = Put(FromOf(E), e, Under(edge.from))
  BY DEF FromOf, Put
<1>4. ToOf(Put(E, e, edge)) = Put(ToOf(E), e, Under(edge.to))
  BY DEF ToOf, Put
<1>5. RelationOf(Put(E, e, edge)) = Put(RelationOf(E), e, Under(edge.relation))
  BY DEF RelationOf, Put
<1>6. LifecycleOf(Put(E, e, edge)) = Put(LifecycleOf(E), e, Under(edge.lifecycle))
  BY DEF LifecycleOf, Put
<1>7. PublisherOf(Put(E, e, edge)) = Put(PublisherOf(E), e, Under(edge.provenance.publisher))
  BY DEF PublisherOf, Put
<1>8. AttachmentOf(Put(E, e, edge)) = Put(AttachmentOf(E), e, UnderIfAny(edge.attachment))
  BY DEF AttachmentOf, Put
<1> QED
  BY <1>1, <1>2, <1>3, <1>4, <1>5, <1>6, <1>7, <1>8

\* Domain edges, with an edge more.
LEMMA EdgeDomainsGrow ==
  ASSUME NEW E, NEW e, e \notin DOMAIN E, NEW edge
  PROVE  EdgeJoins(EdgesByDomain(E), DomainsOf(edge), e) = EdgesByDomain(Put(E, e, edge))
<1>1. ASSUME NEW d \in Domains
      PROVE  {f \in DOMAIN Put(E, e, edge) : d \in DomainsOf(Put(E, e, edge)[f])}
               = {f \in DOMAIN E : d \in DomainsOf(E[f])}
                 \cup IF d \in DomainsOf(edge) THEN {e} ELSE {}
  BY DEF Put
<1> QED
  BY <1>1 DEF EdgesByDomain, EdgeJoins

\* What the edge indexes are filed by, with an edge less.
LEMMA EdgeColumnsShrink ==
  ASSUME NEW E, NEW e \in DOMAIN E
  PROVE  /\ KeysOf(Drop(E, e)) = Drop(KeysOf(E), e)
         /\ EndsOf(Drop(E, e)) = Drop(EndsOf(E), e)
         /\ FromOf(Drop(E, e)) = Drop(FromOf(E), e)
         /\ ToOf(Drop(E, e)) = Drop(ToOf(E), e)
         /\ RelationOf(Drop(E, e)) = Drop(RelationOf(E), e)
         /\ LifecycleOf(Drop(E, e)) = Drop(LifecycleOf(E), e)
         /\ PublisherOf(Drop(E, e)) = Drop(PublisherOf(E), e)
         /\ AttachmentOf(Drop(E, e)) = Drop(AttachmentOf(E), e)
<1>1. /\ KeysOf(Drop(E, e)) = Drop(KeysOf(E), e)
      /\ EndsOf(Drop(E, e)) = Drop(EndsOf(E), e)
      /\ FromOf(Drop(E, e)) = Drop(FromOf(E), e)
      /\ ToOf(Drop(E, e)) = Drop(ToOf(E), e)
  BY DEF KeysOf, EndsOf, FromOf, ToOf, Drop, Without
<1>2. /\ RelationOf(Drop(E, e)) = Drop(RelationOf(E), e)
      /\ LifecycleOf(Drop(E, e)) = Drop(LifecycleOf(E), e)
      /\ PublisherOf(Drop(E, e)) = Drop(PublisherOf(E), e)
      /\ AttachmentOf(Drop(E, e)) = Drop(AttachmentOf(E), e)
  BY DEF RelationOf, LifecycleOf, PublisherOf, AttachmentOf, Drop, Without
<1> QED
  BY <1>1, <1>2

\* Domain edges, with an edge less.
LEMMA EdgeDomainsShrink ==
  ASSUME NEW E, NEW e \in DOMAIN E
  PROVE  EdgeLeaves(EdgesByDomain(E), DomainsOf(E[e]), e) = EdgesByDomain(Drop(E, e))
<1>1. ASSUME NEW d \in Domains
      PROVE  {f \in DOMAIN Drop(E, e) : d \in DomainsOf(Drop(E, e)[f])}
               = {f \in DOMAIN E : d \in DomainsOf(E[f])}
                 \ IF d \in DomainsOf(E[e]) THEN {e} ELSE {}
  BY DEF Drop, Without
<1> QED
  BY <1>1 DEF EdgesByDomain, EdgeLeaves

-----------------------------------------------------------------------------
\* The four index operations of the code, on the index of a graph.

Fields == {"byEntity", "byKey", "incident", "outgoing", "incoming", "byRelation",
           "byLifecycle", "byPublisher", "byAttachment", "domainNodes", "domainEdges"}

\* An index is a record of its eleven fields.
LEMMA RecordFields ==
  ASSUME NEW a, NEW b, NEW c, NEW d, NEW f, NEW g, NEW h, NEW i, NEW j, NEW k, NEW l
  PROVE  LET X == IndexRecord(a, b, c, d, f, g, h, i, j, k, l)
         IN  /\ X = [x \in Fields |-> X[x]]
             /\ DOMAIN X = Fields
             /\ X.byEntity = a /\ X.byKey = b /\ X.incident = c /\ X.outgoing = d
             /\ X.incoming = f /\ X.byRelation = g /\ X.byLifecycle = h /\ X.byPublisher = i
             /\ X.byAttachment = j /\ X.domainNodes = k /\ X.domainEdges = l
BY DEF IndexRecord, Fields

\* And is known by them.
LEMMA RecordIs ==
  ASSUME NEW a, NEW b, NEW c, NEW d, NEW f, NEW g, NEW h, NEW i, NEW j, NEW k, NEW l,
         NEW X, X = [x \in Fields |-> X[x]],
         X.byEntity = a, X.byKey = b, X.incident = c, X.outgoing = d,
         X.incoming = f, X.byRelation = g, X.byLifecycle = h, X.byPublisher = i,
         X.byAttachment = j, X.domainNodes = k, X.domainEdges = l
  PROVE  X = IndexRecord(a, b, c, d, f, g, h, i, j, k, l)
<1> DEFINE R == IndexRecord(a, b, c, d, f, g, h, i, j, k, l)
<1>1. R = [x \in Fields |-> R[x]]
  BY RecordFields
<1>2. \A x \in Fields : X[x] = R[x]
  BY RecordFields DEF Fields
<1> HIDE DEF R
<1>3. X = R
  BY <1>1, <1>2
<1> QED
  BY <1>3 DEF R

\* Which fields the operations write.
LEMMA NodeWrites ==
  ASSUME NEW X, X = [x \in Fields |-> X[x]], NEW id, NEW x
  PROVE  /\ LET Y == IndexNode(X, id, x)
            IN  /\ Y = [y \in Fields |-> Y[y]]
                /\ Y.byEntity = Put(X.byEntity, x.entity_id, id)
                /\ Y.domainNodes = NodeJoins(X.domainNodes, x.domain, id)
                /\ \A y \in Fields \ {"byEntity", "domainNodes"} : Y[y] = X[y]
         /\ LET Y == UnindexNode(X, id, x)
            IN  /\ Y = [y \in Fields |-> Y[y]]
                /\ Y.byEntity = FreeSlot(X.byEntity, x.entity_id, id)
                /\ Y.domainNodes = NodeLeaves(X.domainNodes, x.domain, id)
                /\ \A y \in Fields \ {"byEntity", "domainNodes"} : Y[y] = X[y]
BY DEF IndexNode, NodeJoins, UnindexNode, NodeLeaves, Fields

\* index_edge leaves the node indexes alone.
LEMMA IndexEdgeWrites ==
  ASSUME NEW X, X = [x \in Fields |-> X[x]], NEW id, NEW x
  PROVE  LET Y == IndexEdge(X, id, x)
         IN  /\ Y = [y \in Fields |-> Y[y]]
             /\ Y.byKey = Put(X.byKey, KeyOf(x), id)
             /\ Y.incident = IndexInto(IndexInto(X.incident, x.from, id), x.to, id)
             /\ Y.outgoing = IndexInto(X.outgoing, x.from, id)
             /\ Y.incoming = IndexInto(X.incoming, x.to, id)
             /\ Y.byRelation = IndexInto(X.byRelation, x.relation, id)
             /\ Y.byLifecycle = IndexInto(X.byLifecycle, x.lifecycle, id)
             /\ Y.byPublisher = IndexInto(X.byPublisher, x.provenance.publisher, id)
             /\ Y.byAttachment = FileIfAny(X.byAttachment, x.attachment, id)
             /\ Y.domainEdges = EdgeJoins(X.domainEdges, DomainsOf(x), id)
             /\ Y.byEntity = X.byEntity /\ Y.domainNodes = X.domainNodes
BY DEF IndexEdge, EdgeJoins, FileIfAny, Fields

\* unindex_edge leaves the node indexes alone.
LEMMA UnindexEdgeWrites ==
  ASSUME NEW X, X = [x \in Fields |-> X[x]], NEW id, NEW x
  PROVE  LET Y == UnindexEdge(X, id, x)
         IN  /\ Y = [y \in Fields |-> Y[y]]
             /\ Y.byKey = FreeSlot(X.byKey, KeyOf(x), id)
             /\ Y.incident = UnindexFrom(UnindexFrom(X.incident, x.from, id), x.to, id)
             /\ Y.outgoing = UnindexFrom(X.outgoing, x.from, id)
             /\ Y.incoming = UnindexFrom(X.incoming, x.to, id)
             /\ Y.byRelation = UnindexFrom(X.byRelation, x.relation, id)
             /\ Y.byLifecycle = UnindexFrom(X.byLifecycle, x.lifecycle, id)
             /\ Y.byPublisher = UnindexFrom(X.byPublisher, x.provenance.publisher, id)
             /\ Y.byAttachment = UnfileIfAny(X.byAttachment, x.attachment, id)
             /\ Y.domainEdges = EdgeLeaves(X.domainEdges, DomainsOf(x), id)
             /\ Y.byEntity = X.byEntity /\ Y.domainNodes = X.domainNodes
BY DEF UnindexEdge, EdgeLeaves, UnfileIfAny, Fields

\* index_node and unindex_node, field by field.
LEMMA NodeOperationsAre ==
  ASSUME NEW a, NEW b, NEW c, NEW d, NEW f, NEW g, NEW h, NEW i, NEW j, NEW k, NEW l,
         NEW id, NEW x
  PROVE  LET X == IndexRecord(a, b, c, d, f, g, h, i, j, k, l)
         IN  /\ IndexNode(X, id, x) =
                  IndexRecord(Put(a, x.entity_id, id), b, c, d, f, g, h, i, j,
                              NodeJoins(k, x.domain, id), l)
             /\ UnindexNode(X, id, x) =
                  IndexRecord(FreeSlot(a, x.entity_id, id), b, c, d, f, g, h, i, j,
                              NodeLeaves(k, x.domain, id), l)
<1>1. PICK X : X = IndexRecord(a, b, c, d, f, g, h, i, j, k, l)
  OBVIOUS
<1>2. /\ X = [x_1 \in Fields |-> X[x_1]]
      /\ X.byEntity = a /\ X.byKey = b /\ X.incident = c /\ X.outgoing = d
      /\ X.incoming = f /\ X.byRelation = g /\ X.byLifecycle = h /\ X.byPublisher = i
      /\ X.byAttachment = j /\ X.domainNodes = k /\ X.domainEdges = l
  BY <1>1, RecordFields
<1>3. PICK Y : Y = IndexNode(X, id, x)
  OBVIOUS
<1>4. /\ Y = [y \in Fields |-> Y[y]]
      /\ Y.byEntity = Put(a, x.entity_id, id) /\ Y.domainNodes = NodeJoins(k, x.domain, id)
      /\ Y.byKey = b /\ Y.incident = c /\ Y.outgoing = d /\ Y.incoming = f
      /\ Y.byRelation = g /\ Y.byLifecycle = h /\ Y.byPublisher = i
      /\ Y.byAttachment = j /\ Y.domainEdges = l
  BY <1>2, <1>3, NodeWrites DEF Fields
<1>5. Y = IndexRecord(Put(a, x.entity_id, id), b, c, d, f, g, h, i, j,
                      NodeJoins(k, x.domain, id), l)
  BY <1>4, RecordIs
<1>6. PICK Z : Z = UnindexNode(X, id, x)
  OBVIOUS
<1>7. /\ Z = [y \in Fields |-> Z[y]]
      /\ Z.byEntity = FreeSlot(a, x.entity_id, id) /\ Z.domainNodes = NodeLeaves(k, x.domain, id)
      /\ Z.byKey = b /\ Z.incident = c /\ Z.outgoing = d /\ Z.incoming = f
      /\ Z.byRelation = g /\ Z.byLifecycle = h /\ Z.byPublisher = i
      /\ Z.byAttachment = j /\ Z.domainEdges = l
  BY <1>2, <1>6, NodeWrites DEF Fields
<1>8. Z = IndexRecord(FreeSlot(a, x.entity_id, id), b, c, d, f, g, h, i, j,
                      NodeLeaves(k, x.domain, id), l)
  BY <1>7, RecordIs
<1> QED
  BY <1>1, <1>3, <1>5, <1>6, <1>8

\* index_edge, field by field.
LEMMA IndexEdgeOperationIs ==
  ASSUME NEW a, NEW b, NEW c, NEW d, NEW f, NEW g, NEW h, NEW i, NEW j, NEW k, NEW l,
         NEW id, NEW x
  PROVE  IndexEdge(IndexRecord(a, b, c, d, f, g, h, i, j, k, l), id, x) =
           IndexRecord(a, Put(b, KeyOf(x), id),
                       IndexInto(IndexInto(c, x.from, id), x.to, id),
                       IndexInto(d, x.from, id), IndexInto(f, x.to, id),
                       IndexInto(g, x.relation, id), IndexInto(h, x.lifecycle, id),
                       IndexInto(i, x.provenance.publisher, id),
                       FileIfAny(j, x.attachment, id), k, EdgeJoins(l, DomainsOf(x), id))
<1>1. PICK X : X = IndexRecord(a, b, c, d, f, g, h, i, j, k, l)
  OBVIOUS
<1>2. /\ X = [x_1 \in Fields |-> X[x_1]]
      /\ X.byEntity = a /\ X.byKey = b /\ X.incident = c /\ X.outgoing = d
      /\ X.incoming = f /\ X.byRelation = g /\ X.byLifecycle = h /\ X.byPublisher = i
      /\ X.byAttachment = j /\ X.domainNodes = k /\ X.domainEdges = l
  BY <1>1, RecordFields
<1>3. PICK Y : Y = IndexEdge(X, id, x)
  OBVIOUS
<1>4. Y = IndexRecord(a, Put(b, KeyOf(x), id),
                      IndexInto(IndexInto(c, x.from, id), x.to, id),
                      IndexInto(d, x.from, id), IndexInto(f, x.to, id),
                      IndexInto(g, x.relation, id), IndexInto(h, x.lifecycle, id),
                      IndexInto(i, x.provenance.publisher, id),
                      FileIfAny(j, x.attachment, id), k, EdgeJoins(l, DomainsOf(x), id))
  BY <1>2, <1>3, IndexEdgeWrites, RecordIs
<1> QED
  BY <1>1, <1>3, <1>4

\* unindex_edge, field by field.
LEMMA UnindexEdgeOperationIs ==
  ASSUME NEW a, NEW b, NEW c, NEW d, NEW f, NEW g, NEW h, NEW i, NEW j, NEW k, NEW l,
         NEW id, NEW x
  PROVE  UnindexEdge(IndexRecord(a, b, c, d, f, g, h, i, j, k, l), id, x) =
           IndexRecord(a, FreeSlot(b, KeyOf(x), id),
                       UnindexFrom(UnindexFrom(c, x.from, id), x.to, id),
                       UnindexFrom(d, x.from, id), UnindexFrom(f, x.to, id),
                       UnindexFrom(g, x.relation, id), UnindexFrom(h, x.lifecycle, id),
                       UnindexFrom(i, x.provenance.publisher, id),
                       UnfileIfAny(j, x.attachment, id), k, EdgeLeaves(l, DomainsOf(x), id))
<1>1. PICK X : X = IndexRecord(a, b, c, d, f, g, h, i, j, k, l)
  OBVIOUS
<1>2. /\ X = [x_1 \in Fields |-> X[x_1]]
      /\ X.byEntity = a /\ X.byKey = b /\ X.incident = c /\ X.outgoing = d
      /\ X.incoming = f /\ X.byRelation = g /\ X.byLifecycle = h /\ X.byPublisher = i
      /\ X.byAttachment = j /\ X.domainNodes = k /\ X.domainEdges = l
  BY <1>1, RecordFields
<1>3. PICK Y : Y = UnindexEdge(X, id, x)
  OBVIOUS
<1>4. Y = IndexRecord(a, FreeSlot(b, KeyOf(x), id),
                      UnindexFrom(UnindexFrom(c, x.from, id), x.to, id),
                      UnindexFrom(d, x.from, id), UnindexFrom(f, x.to, id),
                      UnindexFrom(g, x.relation, id), UnindexFrom(h, x.lifecycle, id),
                      UnindexFrom(i, x.provenance.publisher, id),
                      UnfileIfAny(j, x.attachment, id), k, EdgeLeaves(l, DomainsOf(x), id))
  BY <1>2, <1>3, UnindexEdgeWrites, RecordIs
<1> QED
  BY <1>1, <1>3, <1>4

\* index_node
LEMMA IndexNodeIs ==
  ASSUME NEW N, NEW E, NEW n, n \notin DOMAIN N, NEW node,
         \A m \in DOMAIN N : N[m].entity_id # node.entity_id
  PROVE  IndexNode(IndexOf(N, E), n, node) = IndexOf(Put(N, n, node), E)
<1>1. Put(SlotsOf(EntityOf(N)), node.entity_id, n) = SlotsOf(EntityOf(Put(N, n, node)))
  <2>1. n \notin DOMAIN EntityOf(N)
        /\ \A m \in DOMAIN EntityOf(N) : EntityOf(N)[m] # node.entity_id
    BY DEF EntityOf
  <2> QED
    BY <2>1, NameOne, EntitiesGrow
<1>2. NodeJoins(NodesByDomain(N), node.domain, n) = NodesByDomain(Put(N, n, node))
  BY NodeDomainsGrow
<1> QED
  BY <1>1, <1>2, NodeOperationsAre DEF IndexOf

\* unindex_node
LEMMA UnindexNodeIs ==
  ASSUME NEW N, NEW E, NEW n \in DOMAIN N, OneNodeEach(N)
  PROVE  UnindexNode(IndexOf(N, E), n, N[n]) = IndexOf(Drop(N, n), E)
<1>1. FreeSlot(SlotsOf(EntityOf(N)), N[n].entity_id, n) = SlotsOf(EntityOf(Drop(N, n)))
  <2>1. /\ n \in DOMAIN EntityOf(N) /\ EntityOf(N)[n] = N[n].entity_id
        /\ \A m \in DOMAIN EntityOf(N) : EntityOf(N)[m] = EntityOf(N)[n] => m = n
    BY DEF EntityOf, OneNodeEach
  <2> QED
    BY <2>1, UnnameOne, EntitiesShrink
<1>2. NodeLeaves(NodesByDomain(N), N[n].domain, n) = NodesByDomain(Drop(N, n))
  BY NodeDomainsShrink
<1> QED
  BY <1>1, <1>2, NodeOperationsAre DEF IndexOf

\* index_edge
LEMMA IndexEdgeIs ==
  ASSUME NEW N, NEW E, NEW e, e \notin DOMAIN E, NEW edge,
         \A f \in DOMAIN E : KeyOf(E[f]) # KeyOf(edge)
  PROVE  IndexEdge(IndexOf(N, E), e, edge) = IndexOf(N, Put(E, e, edge))
<1>0. /\ e \notin DOMAIN KeysOf(E) /\ e \notin DOMAIN EndsOf(E) /\ e \notin DOMAIN FromOf(E)
      /\ e \notin DOMAIN ToOf(E) /\ e \notin DOMAIN RelationOf(E)
      /\ e \notin DOMAIN LifecycleOf(E) /\ e \notin DOMAIN PublisherOf(E)
      /\ e \notin DOMAIN AttachmentOf(E)
      /\ \A f \in DOMAIN KeysOf(E) : KeysOf(E)[f] # KeyOf(edge)
  BY DEF KeysOf, EndsOf, FromOf, ToOf, RelationOf, LifecycleOf, PublisherOf, AttachmentOf
<1>1. Put(SlotsOf(KeysOf(E)), KeyOf(edge), e) = SlotsOf(KeysOf(Put(E, e, edge)))
  BY <1>0, NameOne, EdgeColumnsGrow
<1>2. IndexInto(IndexInto(BucketsOf(EndsOf(E)), edge.from, e), edge.to, e)
        = BucketsOf(EndsOf(Put(E, e, edge)))
  BY <1>0, FileTwo, EdgeColumnsGrow
<1>3. IndexInto(BucketsOf(FromOf(E)), edge.from, e) = BucketsOf(FromOf(Put(E, e, edge)))
  BY <1>0, FileOne, EdgeColumnsGrow
<1>4. IndexInto(BucketsOf(ToOf(E)), edge.to, e) = BucketsOf(ToOf(Put(E, e, edge)))
  BY <1>0, FileOne, EdgeColumnsGrow
<1>5. IndexInto(BucketsOf(RelationOf(E)), edge.relation, e)
        = BucketsOf(RelationOf(Put(E, e, edge)))
  BY <1>0, FileOne, EdgeColumnsGrow
<1>6. IndexInto(BucketsOf(LifecycleOf(E)), edge.lifecycle, e)
        = BucketsOf(LifecycleOf(Put(E, e, edge)))
  BY <1>0, FileOne, EdgeColumnsGrow
<1>7. IndexInto(BucketsOf(PublisherOf(E)), edge.provenance.publisher, e)
        = BucketsOf(PublisherOf(Put(E, e, edge)))
  BY <1>0, FileOne, EdgeColumnsGrow
<1>8. FileIfAny(BucketsOf(AttachmentOf(E)), edge.attachment, e)
        = BucketsOf(AttachmentOf(Put(E, e, edge)))
  <2>1. CASE edge.attachment = NoAttachment
    <3>1. UnderIfAny(edge.attachment) = UnderNone
      BY <2>1 DEF UnderIfAny, UnderNone
    <3>2. BucketsOf(Put(AttachmentOf(E), e, UnderNone)) = BucketsOf(AttachmentOf(E))
      BY <1>0, FileNone
    <3> QED
      BY <2>1, <3>1, <3>2, EdgeColumnsGrow DEF FileIfAny
  <2>2. CASE edge.attachment # NoAttachment
    <3>1. UnderIfAny(edge.attachment) = Under(edge.attachment)
      BY <2>2 DEF UnderIfAny, Under
    <3> QED
      BY <1>0, <2>2, <3>1, FileOne, EdgeColumnsGrow DEF FileIfAny
  <2> QED
    BY <2>1, <2>2
<1>9. EdgeJoins(EdgesByDomain(E), DomainsOf(edge), e) = EdgesByDomain(Put(E, e, edge))
  BY EdgeDomainsGrow
<1> QED
  BY <1>1, <1>2, <1>3, <1>4, <1>5, <1>6, <1>7, <1>8, <1>9,
     IndexEdgeOperationIs
  DEF IndexOf

\* unindex_edge
LEMMA UnindexEdgeIs ==
  ASSUME NEW N, NEW E, NEW e \in DOMAIN E, OneEdgeEach(E)
  PROVE  UnindexEdge(IndexOf(N, E), e, E[e]) = IndexOf(N, Drop(E, e))
<1> DEFINE edge == E[e]
<1>0. /\ e \in DOMAIN KeysOf(E) /\ KeysOf(E)[e] = KeyOf(edge)
      /\ \A f \in DOMAIN KeysOf(E) : KeysOf(E)[f] = KeysOf(E)[e] => f = e
      /\ e \in DOMAIN EndsOf(E) /\ EndsOf(E)[e] = UnderBoth(edge.from, edge.to)
      /\ e \in DOMAIN FromOf(E) /\ FromOf(E)[e] = Under(edge.from)
      /\ e \in DOMAIN ToOf(E) /\ ToOf(E)[e] = Under(edge.to)
      /\ e \in DOMAIN RelationOf(E) /\ RelationOf(E)[e] = Under(edge.relation)
      /\ e \in DOMAIN LifecycleOf(E) /\ LifecycleOf(E)[e] = Under(edge.lifecycle)
      /\ e \in DOMAIN PublisherOf(E) /\ PublisherOf(E)[e] = Under(edge.provenance.publisher)
      /\ e \in DOMAIN AttachmentOf(E)
      /\ AttachmentOf(E)[e] = UnderIfAny(edge.attachment)
  BY DEF KeysOf, EndsOf, FromOf, ToOf, RelationOf, LifecycleOf, PublisherOf, AttachmentOf,
         OneEdgeEach
<1> HIDE DEF edge
<1>1. FreeSlot(SlotsOf(KeysOf(E)), KeyOf(edge), e) = SlotsOf(KeysOf(Drop(E, e)))
  BY <1>0, UnnameOne, EdgeColumnsShrink
<1>2. UnindexFrom(UnindexFrom(BucketsOf(EndsOf(E)), edge.from, e), edge.to, e)
        = BucketsOf(EndsOf(Drop(E, e)))
  BY <1>0, UnfileTwo, EdgeColumnsShrink
<1>3. UnindexFrom(BucketsOf(FromOf(E)), edge.from, e) = BucketsOf(FromOf(Drop(E, e)))
  BY <1>0, UnfileOne, EdgeColumnsShrink
<1>4. UnindexFrom(BucketsOf(ToOf(E)), edge.to, e) = BucketsOf(ToOf(Drop(E, e)))
  BY <1>0, UnfileOne, EdgeColumnsShrink
<1>5. UnindexFrom(BucketsOf(RelationOf(E)), edge.relation, e)
        = BucketsOf(RelationOf(Drop(E, e)))
  BY <1>0, UnfileOne, EdgeColumnsShrink
<1>6. UnindexFrom(BucketsOf(LifecycleOf(E)), edge.lifecycle, e)
        = BucketsOf(LifecycleOf(Drop(E, e)))
  BY <1>0, UnfileOne, EdgeColumnsShrink
<1>7. UnindexFrom(BucketsOf(PublisherOf(E)), edge.provenance.publisher, e)
        = BucketsOf(PublisherOf(Drop(E, e)))
  BY <1>0, UnfileOne, EdgeColumnsShrink
<1>8. UnfileIfAny(BucketsOf(AttachmentOf(E)), edge.attachment, e)
        = BucketsOf(AttachmentOf(Drop(E, e)))
  <2>1. CASE edge.attachment = NoAttachment
    <3>1. UnderIfAny(edge.attachment) = UnderNone
      BY <2>1 DEF UnderIfAny, UnderNone
    <3> QED
      BY <1>0, <2>1, <3>1, UnfileNone, EdgeColumnsShrink DEF UnfileIfAny
  <2>2. CASE edge.attachment # NoAttachment
    <3>1. UnderIfAny(edge.attachment) = Under(edge.attachment)
      BY <2>2 DEF UnderIfAny, Under
    <3> QED
      BY <1>0, <2>2, <3>1, UnfileOne, EdgeColumnsShrink DEF UnfileIfAny
  <2> QED
    BY <2>1, <2>2
<1>9. EdgeLeaves(EdgesByDomain(E), DomainsOf(edge), e) = EdgesByDomain(Drop(E, e))
  BY EdgeDomainsShrink DEF edge
<1>10. UnindexEdge(IndexOf(N, E), e, edge) = IndexOf(N, Drop(E, e))
  BY <1>1, <1>2, <1>3, <1>4, <1>5, <1>6, <1>7, <1>8, <1>9,
     UnindexEdgeOperationIs
  DEF IndexOf
<1> QED
  BY <1>10 DEF edge

-----------------------------------------------------------------------------
(***************************************************************************)
(* Edits.  A graph whose index is that of its maps is an Indexed one; an   *)
(* edit that applies makes an Indexed graph of it again.                   *)
(***************************************************************************)

Indexed(N, E, g) == [nodes |-> N, edges |-> E, generation |-> g, index |-> IndexOf(N, E)]

IsMap(f) == f = [x \in DOMAIN f |-> f[x]]

\* What is true of the maps whenever an edit is made.
Keyed(N, E) == IsMap(N) /\ IsMap(E) /\ OneNodeEach(N) /\ OneEdgeEach(E)

\* Each edit, made on a graph whose index fits, leaves the index that fits.
LEMMA InsertNodeIs ==
  ASSUME NEW N, NEW E, NEW g, NEW n, n \notin DOMAIN N, NEW node,
         \A m \in DOMAIN N : N[m].entity_id # node.entity_id
  PROVE  InsertNode(Indexed(N, E, g), n, node) = Indexed(Put(N, n, node), E, g)
<1>1. IndexNode(IndexOf(N, E), n, node) = IndexOf(Put(N, n, node), E)
  BY IndexNodeIs
<1> QED
  BY <1>1 DEF InsertNode, Indexed

\* erase_node
LEMMA EraseNodeIs ==
  ASSUME NEW N, NEW E, NEW g, NEW n \in DOMAIN N, OneNodeEach(N)
  PROVE  EraseNode(Indexed(N, E, g), n) = Indexed(Drop(N, n), E, g)
<1>1. UnindexNode(IndexOf(N, E), n, N[n]) = IndexOf(Drop(N, n), E)
  BY UnindexNodeIs
<1> QED
  BY <1>1 DEF EraseNode, Indexed, Drop

\* Leaving the index and entering it again.
LEMMA UpdateIsReplacement ==
  ASSUME NEW f, IsMap(f), NEW k \in DOMAIN f, NEW v
  PROVE  /\ Put(Drop(f, k), k, v) = Put(f, k, v)
         /\ [f EXCEPT ![k] = v] = Put(f, k, v)
         /\ k \notin DOMAIN Drop(f, k)
         /\ \A x \in DOMAIN Drop(f, k) : x \in DOMAIN f /\ x # k /\ Drop(f, k)[x] = f[x]
BY DEF Put, Drop, Without, IsMap

\* update_node
LEMMA UpdateNodeIs ==
  ASSUME NEW N, NEW E, NEW g, NEW n \in DOMAIN N, OneNodeEach(N), IsMap(N),
         NEW node, node.entity_id = N[n].entity_id
  PROVE  UpdateNode(Indexed(N, E, g), n, node) = Indexed(Put(N, n, node), E, g)
<1>1. UnindexNode(IndexOf(N, E), n, N[n]) = IndexOf(Drop(N, n), E)
  BY UnindexNodeIs
<1>2. /\ n \notin DOMAIN Drop(N, n)
      /\ \A m \in DOMAIN Drop(N, n) : Drop(N, n)[m].entity_id # node.entity_id
  BY UpdateIsReplacement DEF OneNodeEach
<1>3. IndexNode(IndexOf(Drop(N, n), E), n, node) = IndexOf(Put(Drop(N, n), n, node), E)
  BY <1>2, IndexNodeIs
<1>4. Put(Drop(N, n), n, node) = Put(N, n, node) /\ [N EXCEPT ![n] = node] = Put(N, n, node)
  BY UpdateIsReplacement
<1>5. IndexNode(UnindexNode(IndexOf(N, E), n, N[n]), n, node) = IndexOf(Put(N, n, node), E)
  BY <1>1, <1>3, <1>4
<1> QED
  BY <1>4, <1>5 DEF UpdateNode, Indexed

\* insert_edge
LEMMA InsertEdgeIs ==
  ASSUME NEW N, NEW E, NEW g, NEW e, e \notin DOMAIN E, NEW edge,
         \A f \in DOMAIN E : KeyOf(E[f]) # KeyOf(edge)
  PROVE  InsertEdge(Indexed(N, E, g), e, edge) = Indexed(N, Put(E, e, edge), g)
<1>1. IndexEdge(IndexOf(N, E), e, edge) = IndexOf(N, Put(E, e, edge))
  BY IndexEdgeIs
<1> QED
  BY <1>1 DEF InsertEdge, Indexed

\* erase_edge
LEMMA EraseEdgeIs ==
  ASSUME NEW N, NEW E, NEW g, NEW e \in DOMAIN E, OneEdgeEach(E)
  PROVE  EraseEdge(Indexed(N, E, g), e) = Indexed(N, Drop(E, e), g)
<1>1. UnindexEdge(IndexOf(N, E), e, E[e]) = IndexOf(N, Drop(E, e))
  BY UnindexEdgeIs
<1> QED
  BY <1>1 DEF EraseEdge, Indexed, Drop

\* update_edge and mutate_edge
LEMMA UpdateEdgeIs ==
  ASSUME NEW N, NEW E, NEW g, NEW e \in DOMAIN E, OneEdgeEach(E), IsMap(E),
         NEW edge, KeyOf(edge) = KeyOf(E[e])
  PROVE  UpdateEdge(Indexed(N, E, g), e, edge) = Indexed(N, Put(E, e, edge), g)
<1>1. UnindexEdge(IndexOf(N, E), e, E[e]) = IndexOf(N, Drop(E, e))
  BY UnindexEdgeIs
<1>2. e \notin DOMAIN Drop(E, e) /\ \A f \in DOMAIN Drop(E, e) : KeyOf(Drop(E, e)[f]) # KeyOf(edge)
  BY UpdateIsReplacement DEF OneEdgeEach
<1>3. IndexEdge(IndexOf(N, Drop(E, e)), e, edge) = IndexOf(N, Put(Drop(E, e), e, edge))
  BY <1>2, IndexEdgeIs
<1>4. Put(Drop(E, e), e, edge) = Put(E, e, edge) /\ [E EXCEPT ![e] = edge] = Put(E, e, edge)
  BY UpdateIsReplacement
<1>5. IndexEdge(UnindexEdge(IndexOf(N, E), e, E[e]), e, edge) = IndexOf(N, Put(E, e, edge))
  BY <1>1, <1>3, <1>4
<1> QED
  BY <1>4, <1>5 DEF UpdateEdge, Indexed

-----------------------------------------------------------------------------
\* Changes: which apply, and what they make of the maps.

Kinds == {"InsertNode", "EraseNode", "UpdateNode", "InsertEdge", "EraseEdge", "UpdateEdge",
          "SetGeneration"}

Applies(N, E, change) ==
  /\ change.kind \in Kinds
  /\ change.kind = "InsertNode" =>
       /\ change.id \notin DOMAIN N
       /\ \A m \in DOMAIN N : N[m].entity_id # change.value.entity_id
  /\ change.kind = "EraseNode" => change.id \in DOMAIN N
  /\ change.kind = "UpdateNode" =>
       change.id \in DOMAIN N /\ change.value.entity_id = N[change.id].entity_id
  /\ change.kind = "InsertEdge" =>
       /\ change.id \notin DOMAIN E
       /\ \A f \in DOMAIN E : KeyOf(E[f]) # KeyOf(change.value)
  /\ change.kind = "EraseEdge" => change.id \in DOMAIN E
  /\ change.kind = "UpdateEdge" =>
       change.id \in DOMAIN E /\ KeyOf(change.value) = KeyOf(E[change.id])

NodesAfter(N, change) ==
  IF change.kind \in {"InsertNode", "UpdateNode"} THEN Put(N, change.id, change.value)
  ELSE IF change.kind = "EraseNode" THEN Drop(N, change.id) ELSE N

EdgesAfter(E, change) ==
  IF change.kind \in {"InsertEdge", "UpdateEdge"} THEN Put(E, change.id, change.value)
  ELSE IF change.kind = "EraseEdge" THEN Drop(E, change.id) ELSE E

GenerationAfter(g, change) == IF change.kind = "SetGeneration" THEN change.value ELSE g

\* insert_node, erase_node, update_node, insert_edge, erase_edge, update_edge and
\* mutate_edge, each with its index_* and unindex_* calls, take the index of the
\* graph before to the index of the graph after: no key is missed or left behind.
THEOREM EditIs ==
  ASSUME NEW N, NEW E, NEW g, NEW change, Keyed(N, E), Applies(N, E, change)
  PROVE  Edit(Indexed(N, E, g), change) =
           Indexed(NodesAfter(N, change), EdgesAfter(E, change), GenerationAfter(g, change))
<1>1. CASE change.kind = "InsertNode"
  BY <1>1, InsertNodeIs DEF Edit, Applies, NodesAfter, EdgesAfter, GenerationAfter
<1>2. CASE change.kind = "EraseNode"
  BY <1>2, EraseNodeIs DEF Edit, Applies, NodesAfter, EdgesAfter, GenerationAfter, Keyed
<1>3. CASE change.kind = "UpdateNode"
  BY <1>3, UpdateNodeIs DEF Edit, Applies, NodesAfter, EdgesAfter, GenerationAfter, Keyed
<1>4. CASE change.kind = "InsertEdge"
  BY <1>4, InsertEdgeIs DEF Edit, Applies, NodesAfter, EdgesAfter, GenerationAfter
<1>5. CASE change.kind = "EraseEdge"
  BY <1>5, EraseEdgeIs DEF Edit, Applies, NodesAfter, EdgesAfter, GenerationAfter, Keyed
<1>6. CASE change.kind = "UpdateEdge"
  BY <1>6, UpdateEdgeIs DEF Edit, Applies, NodesAfter, EdgesAfter, GenerationAfter, Keyed
<1>7. CASE change.kind = "SetGeneration"
  BY <1>7 DEF Edit, NodesAfter, EdgesAfter, GenerationAfter, Indexed
<1> QED
  BY <1>1, <1>2, <1>3, <1>4, <1>5, <1>6, <1>7 DEF Applies, Kinds

\* One node stays for an entity, one edge for a relationship.
LEMMA EditKeepsKeys ==
  ASSUME NEW N, NEW E, NEW change, Keyed(N, E), Applies(N, E, change)
  PROVE  Keyed(NodesAfter(N, change), EdgesAfter(E, change))
<1>1. IsMap(NodesAfter(N, change)) /\ IsMap(EdgesAfter(E, change))
  BY DEF Keyed, NodesAfter, EdgesAfter, IsMap, Put, Drop, Without
<1>2. OneNodeEach(NodesAfter(N, change))
  BY DEF Keyed, Applies, NodesAfter, OneNodeEach, Put, Drop, Without
<1>3. OneEdgeEach(EdgesAfter(E, change))
  BY DEF Keyed, Applies, EdgesAfter, OneEdgeEach, Put, Drop, Without
<1> QED
  BY <1>1, <1>2, <1>3 DEF Keyed

\* StateTxn's entry for a change, noted before it is made, undoes it: the maps,
\* the generation and every index are what they were.
THEOREM UndoRestores ==
  ASSUME NEW N, NEW E, NEW g, NEW change, Keyed(N, E), Applies(N, E, change)
  PROVE  LET undo == UndoOf(Indexed(N, E, g), change)
             after == Edit(Indexed(N, E, g), change)
         IN  Edit(after, undo) = Indexed(N, E, g)
<1> DEFINE undo == UndoOf(Indexed(N, E, g), change)
           M == NodesAfter(N, change)
           F == EdgesAfter(E, change)
           h == GenerationAfter(g, change)
<1>1. Edit(Indexed(N, E, g), change) = Indexed(M, F, h) /\ Keyed(M, F)
  BY EditIs, EditKeepsKeys
<1>2. Applies(M, F, undo)
  BY DEF UndoOf, Applies, Kinds, Change, NodesAfter, EdgesAfter, Indexed, Keyed, OneNodeEach,
         OneEdgeEach, Put, Drop, Without
<1>3. NodesAfter(M, undo) = N
  BY DEF UndoOf, Applies, Kinds, Change, NodesAfter, Indexed, Keyed, IsMap, Put, Drop, Without
<1>4. EdgesAfter(F, undo) = E
  BY DEF UndoOf, Applies, Kinds, Change, EdgesAfter, Indexed, Keyed, IsMap, Put, Drop, Without
<1>5. GenerationAfter(h, undo) = g
  BY DEF UndoOf, Applies, Kinds, Change, GenerationAfter, Indexed
<1> HIDE DEF undo, M, F, h
<1>6. Edit(Indexed(M, F, h), undo) = Indexed(N, E, g)
  BY <1>1, <1>2, <1>3, <1>4, <1>5, EditIs
<1> QED
  BY <1>1, <1>6 DEF undo

-----------------------------------------------------------------------------
(***************************************************************************)
(* rebuild_indexes.  Whatever order the maps are gone through in, it makes *)
(* the index of the graph.                                                 *)
(***************************************************************************)

\* A loop through a map meets every element once.
LEMMA LoopMeetsAll ==
  ASSUME NEW S, IsFiniteSet(S), NEW q, q = SetToSeq(S)
  PROVE  /\ Cardinality(S) \in Nat
         /\ q \in [1..Cardinality(S) -> S]
         /\ \A i, j \in 1..Cardinality(S) : q[i] = q[j] => i = j
         /\ \A x \in S : \E i \in 1..Cardinality(S) : q[i] = x
<1> DEFINE n == Cardinality(S)
<1>1. n \in Nat /\ ExistsBijection(1..n, S)
  BY FS_CardinalityType
<1>2. \E f \in [1..n -> S] : IsInjective(f)
  BY <1>1 DEF ExistsBijection, Bijection, Injection
<1>3. q \in [1..n -> S] /\ IsInjective(q)
  BY <1>2 DEF SetToSeq
<1>4. q \in Injection(1..n, S)
  BY <1>3 DEF Injection
<1>5. Cardinality(1..n) = n /\ IsFiniteSet(1..n)
  BY <1>1, FS_Interval
<1> HIDE DEF n
<1>6. q \in Surjection(1..n, S)
  BY <1>4, <1>5, FS_Injection DEF n
<1> QED
  BY <1>1, <1>3, <1>6 DEF Surjection, IsInjective, n

\* A map as far as the loop has gone.
Part(loop, i) == [x \in {loop.order[j] : j \in 1..i} |-> loop.map[x]]

\* Each turn of a loop adds the element it looks at.
LEMMA PartGrows ==
  ASSUME NEW map, IsMap(map), IsFiniteSet(DOMAIN map)
  PROVE  LET loop == Loop(map)
             n == Cardinality(DOMAIN map)
         IN  /\ n \in Nat
             /\ Part(loop, 0) = EmptyMap
             /\ Part(loop, n) = map
             /\ \A i \in 1..n :
                  /\ loop.order[i] \in DOMAIN map
                  /\ loop.map = map
                  /\ loop.order[i] \notin DOMAIN Part(loop, i - 1)
                  /\ \A x \in DOMAIN Part(loop, i - 1) :
                       x \in DOMAIN map /\ Part(loop, i - 1)[x] = map[x]
                  /\ Part(loop, i) = Put(Part(loop, i - 1), loop.order[i], map[loop.order[i]])
<1> DEFINE n == Cardinality(DOMAIN map)
<1>1. PICK q : q = SetToSeq(DOMAIN map)
  OBVIOUS
<1>2. /\ n \in Nat
      /\ q \in [1..n -> DOMAIN map]
      /\ \A i, j \in 1..n : q[i] = q[j] => i = j
      /\ \A x \in DOMAIN map : \E i \in 1..n : q[i] = x
  BY <1>1, LoopMeetsAll
<1> HIDE DEF n
<1>3. PICK loop : loop = Loop(map)
  OBVIOUS
<1>4. loop.order = q /\ loop.map = map
  BY <1>1, <1>3 DEF Loop
<1>5. Part(loop, 0) = EmptyMap
  BY DEF Part, EmptyMap
<1>6. Part(loop, n) = map
  <2>1. \A x : x \in {q[j] : j \in 1..n} <=> x \in DOMAIN map
    <3>1. \A j \in 1..n : q[j] \in DOMAIN map
      BY <1>2
    <3> QED
      BY <1>2, <3>1
  <2>2. {q[j] : j \in 1..n} = DOMAIN map
    BY <2>1
  <2> QED
    BY <1>4, <2>2 DEF Part, IsMap
<1>7. ASSUME NEW i \in 1..n
      PROVE  /\ q[i] \in DOMAIN map
             /\ q[i] \notin DOMAIN Part(loop, i - 1)
             /\ \A x \in DOMAIN Part(loop, i - 1) :
                  x \in DOMAIN map /\ Part(loop, i - 1)[x] = map[x]
             /\ Part(loop, i) = Put(Part(loop, i - 1), q[i], map[q[i]])
  <2>1. q[i] \in DOMAIN map
    BY <1>2
  <2>2. \A j \in 1..(i - 1) : j \in 1..n /\ q[j] \in DOMAIN map /\ q[j] # q[i]
    BY <1>2
  <2>3. \A j : j \in 1..i <=> j \in 1..(i - 1) \/ j = i
    BY <1>2
  <2>4. {q[j] : j \in 1..i} = {q[j] : j \in 1..(i - 1)} \cup {q[i]}
    BY <2>3
  <2>5. DOMAIN Part(loop, i - 1) = {q[j] : j \in 1..(i - 1)}
        /\ \A x \in DOMAIN Part(loop, i - 1) : Part(loop, i - 1)[x] = map[x]
    BY <1>4 DEF Part
  <2>6. Part(loop, i) = [x \in {q[j] : j \in 1..(i - 1)} \cup {q[i]} |-> map[x]]
    BY <1>4, <2>4 DEF Part
  <2>7. Part(loop, i) = Put(Part(loop, i - 1), q[i], map[q[i]])
    BY <2>5, <2>6 DEF Put
  <2> QED
    BY <2>1, <2>2, <2>5, <2>7
<1> QED
  BY <1>2, <1>3, <1>4, <1>5, <1>6, <1>7 DEF n

\* The index that rebuild_indexes begins with is that of the empty graph.
LEMMA EmptyIndexIs == EmptyIndex = IndexOf(EmptyMap, EmptyMap)
<1>1. /\ SlotsOf(EntityOf(EmptyMap)) = EmptyMap
      /\ SlotsOf(KeysOf(EmptyMap)) = EmptyMap
  BY DEF SlotsOf, EntityOf, KeysOf, EmptyMap
<1>2. \A keys : DOMAIN keys = {} => BucketsOf(keys) = EmptyMap
  BY DEF BucketsOf, EmptyMap
<1>3. /\ DOMAIN EndsOf(EmptyMap) = {} /\ DOMAIN FromOf(EmptyMap) = {}
      /\ DOMAIN ToOf(EmptyMap) = {} /\ DOMAIN RelationOf(EmptyMap) = {}
      /\ DOMAIN LifecycleOf(EmptyMap) = {} /\ DOMAIN PublisherOf(EmptyMap) = {}
      /\ DOMAIN AttachmentOf(EmptyMap) = {}
  BY DEF EndsOf, FromOf, ToOf, RelationOf, LifecycleOf, PublisherOf, AttachmentOf, EmptyMap
<1>4. /\ NodesByDomain(EmptyMap) = [d \in Domains |-> {}]
      /\ EdgesByDomain(EmptyMap) = [d \in Domains |-> {}]
  BY DEF NodesByDomain, EdgesByDomain, EmptyMap
<1>5. PICK X : X = EmptyIndex
  OBVIOUS
<1>6. /\ X = [x \in Fields |-> X[x]]
      /\ X.byEntity = EmptyMap /\ X.byKey = EmptyMap /\ X.incident = EmptyMap
      /\ X.outgoing = EmptyMap /\ X.incoming = EmptyMap /\ X.byRelation = EmptyMap
      /\ X.byLifecycle = EmptyMap /\ X.byPublisher = EmptyMap /\ X.byAttachment = EmptyMap
      /\ X.domainNodes = [d \in Domains |-> {}] /\ X.domainEdges = [d \in Domains |-> {}]
  BY <1>5 DEF EmptyIndex, Fields
<1>7. X = IndexRecord(EmptyMap, EmptyMap, EmptyMap, EmptyMap, EmptyMap, EmptyMap, EmptyMap,
                      EmptyMap, EmptyMap, NodesByDomain(EmptyMap), EdgesByDomain(EmptyMap))
  <2>1. PICK t : t = [d \in Domains |-> {}]
    OBVIOUS
  <2>2. X = IndexRecord(EmptyMap, EmptyMap, EmptyMap, EmptyMap, EmptyMap, EmptyMap, EmptyMap,
                        EmptyMap, EmptyMap, t, t)
    BY <1>6, <2>1, RecordIs
  <2> QED
    BY <1>4, <2>1, <2>2
<1> QED
  BY <1>1, <1>2, <1>3, <1>5, <1>7 DEF IndexOf

\* rebuild_indexes, whatever order its two loops take the maps in, makes the
\* index that the edits keep.
THEOREM RebuildIndexesIs ==
  ASSUME NEW N, NEW E, Keyed(N, E), IsFiniteSet(DOMAIN N), IsFiniteSet(DOMAIN E)
  PROVE  RebuildIndexes(N, E) = IndexOf(N, E)
<1> DEFINE n == Cardinality(DOMAIN N)
           m == Cardinality(DOMAIN E)
           S == [i \in 0..n |-> {IndexOf(Part(Loop(N), i), EmptyMap)}]
           T == [i \in 0..m |-> {IndexOf(N, Part(Loop(E), i))}]
<1>1. n \in Nat /\ m \in Nat
  BY FS_CardinalityType
<1>2. EmptyIndex \in S[0]
  BY <1>1, EmptyIndexIs, PartGrows DEF Keyed
<1>3. \A i \in 1..n : \A X \in S[i - 1] : FileNode(Loop(N), i, X) \in S[i]
  <2> SUFFICES ASSUME NEW i \in 1..n
               PROVE  FileNode(Loop(N), i, IndexOf(Part(Loop(N), i - 1), EmptyMap)) =
                        IndexOf(Part(Loop(N), i), EmptyMap)
    BY <1>1
  <2>1. PICK P, q : P = Part(Loop(N), i - 1) /\ q = Loop(N).order[i]
    OBVIOUS
  <2>2. /\ q \in DOMAIN N /\ Loop(N).map = N /\ q \notin DOMAIN P
        /\ \A x \in DOMAIN P : x \in DOMAIN N /\ P[x] = N[x]
        /\ Part(Loop(N), i) = Put(P, q, N[q])
    BY <2>1, PartGrows DEF Keyed
  <2>3. \A x \in DOMAIN P : P[x].entity_id # N[q].entity_id
    BY <2>2 DEF Keyed, OneNodeEach
  <2>4. IndexNode(IndexOf(P, EmptyMap), q, N[q]) = IndexOf(Put(P, q, N[q]), EmptyMap)
    BY <2>2, <2>3, IndexNodeIs
  <2> QED
    BY <2>1, <2>2, <2>4 DEF FileNode
<1>4. IndexOf(N, EmptyMap) \in T[0]
  BY <1>1, PartGrows DEF Keyed
<1>5. \A i \in 1..m : \A X \in T[i - 1] : FileEdge(Loop(E), i, X) \in T[i]
  <2> SUFFICES ASSUME NEW i \in 1..m
               PROVE  FileEdge(Loop(E), i, IndexOf(N, Part(Loop(E), i - 1))) =
                        IndexOf(N, Part(Loop(E), i))
    BY <1>1
  <2>1. PICK P, q : P = Part(Loop(E), i - 1) /\ q = Loop(E).order[i]
    OBVIOUS
  <2>2. /\ q \in DOMAIN E /\ Loop(E).map = E /\ q \notin DOMAIN P
        /\ \A x \in DOMAIN P : x \in DOMAIN E /\ P[x] = E[x]
        /\ Part(Loop(E), i) = Put(P, q, E[q])
    BY <2>1, PartGrows DEF Keyed
  <2>3. \A x \in DOMAIN P : KeyOf(P[x]) # KeyOf(E[q])
    BY <2>2 DEF Keyed, OneEdgeEach
  <2>4. IndexEdge(IndexOf(N, P), q, E[q]) = IndexOf(N, Put(P, q, E[q]))
    BY <2>2, <2>3, IndexEdgeIs
  <2> QED
    BY <2>1, <2>2, <2>4 DEF FileEdge
<1> HIDE DEF S, T
<1>6. Nodes!After(Loop(N), EmptyIndex, n) \in S[n]
  BY <1>1, <1>2, <1>3, Nodes!AfterInduction
<1>7. Nodes!After(Loop(N), EmptyIndex, n) = IndexOf(N, EmptyMap)
  BY <1>1, <1>6, PartGrows DEF S, Keyed
<1>8. Edges!After(Loop(E), IndexOf(N, EmptyMap), m) \in T[m]
  BY <1>1, <1>4, <1>5, Edges!AfterInduction
<1>9. Edges!After(Loop(E), IndexOf(N, EmptyMap), m) = IndexOf(N, E)
  BY <1>1, <1>8, PartGrows DEF T, Keyed
<1> QED
  BY <1>7, <1>9 DEF RebuildIndexes

-----------------------------------------------------------------------------
\* The order the code goes through a bucket in.

Increasing(order, n) == \A i, j \in 1..n : i < j => order[i] < order[j]

\* Every finite set of edge ids has an increasing order.
LEMMA OrderExists ==
  ASSUME NEW S \in SUBSET Nat, IsFiniteSet(S)
  PROVE  \E order \in [1..Cardinality(S) -> S] : Increasing(order, Cardinality(S))
<1> DEFINE Ordered(T) == \E order \in [1..Cardinality(T) -> T] : Increasing(order, Cardinality(T))
           Bad == {n \in Nat : \E T \in SUBSET Nat :
                                 IsFiniteSet(T) /\ Cardinality(T) = n /\ ~Ordered(T)}
<1> SUFFICES ASSUME Bad # {} PROVE FALSE
  <2>1. Cardinality(S) \in Nat
    BY FS_CardinalityType
  <2> QED
    BY <2>1
<1>1. PICK m \in Bad : \A k \in Bad : m <= k
  BY Nodes!LeastNumber
<1>2. PICK T \in SUBSET Nat : IsFiniteSet(T) /\ Cardinality(T) = m /\ ~Ordered(T)
  BY <1>1
<1>3. T # {}
  <2>1. SUFFICES ASSUME T = {} PROVE Ordered(T)
    BY <1>2
  <2>2. m = 0
    BY <1>2, <2>1, FS_EmptySet
  <2> DEFINE none == [i \in 1..0 |-> 0]
  <2>3. none \in [1..Cardinality(T) -> T] /\ Increasing(none, Cardinality(T))
    BY <1>2, <2>2 DEF Increasing
  <2> QED
    BY <2>3
<1>4. PICK x \in T : \A y \in T : x <= y
  BY <1>3, Nodes!LeastNumber
<1> DEFINE R == T \ {x}
<1>5. IsFiniteSet(R) /\ Cardinality(R) = m - 1 /\ m - 1 \in Nat
  <2>1. IsFiniteSet(R) /\ Cardinality(R) = m - 1
    BY <1>2, FS_RemoveElement
  <2> QED
    BY <2>1, FS_CardinalityType
<1>6. PICK rest \in [1..(m - 1) -> R] : Increasing(rest, m - 1)
  <2>1. m - 1 \notin Bad
    BY <1>1, <1>5
  <2>2. Ordered(R)
    BY <2>1, <1>5
  <2> QED
    BY <2>2, <1>5
<1> DEFINE order == [i \in 1..m |-> IF i = 1 THEN x ELSE rest[i - 1]]
<1>7. order \in [1..m -> T]
  BY <1>5, <1>6
<1>8. Increasing(order, m)
  <2> SUFFICES ASSUME NEW i \in 1..m, NEW j \in 1..m, i < j PROVE order[i] < order[j]
    BY DEF Increasing
  <2>1. j - 1 \in 1..(m - 1) /\ order[j] = rest[j - 1]
    BY <1>5
  <2>4. rest[j - 1] \in R
    BY <1>6, <2>1
  <2>2. CASE i = 1
    <3>1. order[i] = x
      BY <2>2
    <3> HIDE DEF order
    <3>2. PICK y : y = rest[j - 1]
      OBVIOUS
    <3>3. y \in T /\ y # x
      BY <2>4, <3>2
    <3>4. x \in Nat /\ y \in Nat /\ x <= y
      BY <1>2, <1>4, <3>3
    <3>5. x < y
      BY <3>3, <3>4
    <3> QED
      BY <2>1, <3>1, <3>2, <3>5
  <2>3. CASE i # 1
    <3>1. i - 1 \in 1..(m - 1) /\ order[i] = rest[i - 1] /\ i - 1 < j - 1
      BY <1>5, <2>3
    <3> QED
      BY <1>6, <2>1, <3>1 DEF Increasing
  <2> QED
    BY <2>2, <2>3
<1> QED
  BY <1>2, <1>7, <1>8

\* Going through a bucket in order meets each of its edges once.
LEMMA InOrderIs ==
  ASSUME NEW S \in SUBSET Nat, IsFiniteSet(S)
  PROVE  LET order == InOrder(S)
             n == Cardinality(S)
         IN  /\ n \in Nat
             /\ order \in [1..n -> S]
             /\ Len(order) = n
             /\ \A i, j \in 1..n : order[i] = order[j] => i = j
             /\ \A e \in S : \E i \in 1..n : order[i] = e
<1>1. PICK n : n = Cardinality(S)
  OBVIOUS
<1>2. n \in Nat
  BY <1>1, FS_CardinalityType
<1>3. PICK order : order = InOrder(S)
  OBVIOUS
<1>4. order \in [1..n -> S] /\ Increasing(order, n)
  BY <1>1, <1>3, OrderExists DEF InOrder, Increasing
<1>5. \A i, j \in 1..n : order[i] = order[j] => i = j
  <2> SUFFICES ASSUME NEW i \in 1..n, NEW j \in 1..n, i # j PROVE order[i] # order[j]
    OBVIOUS
  <2>1. order[i] \in Nat /\ order[j] \in Nat
    BY <1>4
  <2>2. i < j \/ j < i
    BY <1>2
  <2> QED
    BY <1>4, <2>1, <2>2 DEF Increasing
<1>6. order \in Injection(1..n, S)
  BY <1>4, <1>5 DEF Injection, IsInjective
<1>7. Cardinality(1..n) = n /\ IsFiniteSet(1..n)
  BY <1>2, FS_Interval
<1>8. order \in Surjection(1..n, S)
  BY <1>1, <1>6, <1>7, FS_Injection
<1>9. Len(order) = n
  <2>1. order \in Seq(S)
    BY <1>2, <1>4, SeqDef
  <2> QED
    BY <1>2, <1>4, <2>1, LenProperties
<1> QED
  BY <1>1, <1>2, <1>3, <1>4, <1>5, <1>8, <1>9 DEF Surjection

-----------------------------------------------------------------------------
(***************************************************************************)
(* Traversal.  The nodes within k edges of the origin are the reference;   *)
(* a round of the search moves its front at most one edge on, and after as *)
(* many rounds as there are nodes the queue is empty.                      *)
(***************************************************************************)

\* A traversal is asked of a graph whose index fits, from one of its nodes.
Walkable(G, request) ==
  /\ IsFiniteSet(DOMAIN G.nodes)
  /\ IsFiniteSet(DOMAIN G.edges)
  /\ DOMAIN G.edges \subseteq EdgeIds
  /\ \A e \in DOMAIN G.edges : {G.edges[e].from, G.edges[e].to} \subseteq DOMAIN G.nodes
  /\ G.index = IndexOf(G.nodes, G.edges)
  /\ request.origin \in DOMAIN G.nodes
  /\ {request.max_depth, request.max_visited} \subseteq Nat \ {0}

\* Where the request may go over the edge e from the node n.
Over(G, request, e, n) ==
  IF IsTraversable(G.edges[e], request) THEN NextNode(request.kind, G.edges[e], n) ELSE {}

\* The nodes at distance k.
At(G, request, k) ==
  {n \in Within(G, request, k) : \A j \in 0..(k - 1) : n \notin Within(G, request, j)}

\* An edge leads from a node to at most one other, and is incident to both.
LEMMA OverIs ==
  ASSUME NEW G, NEW request, Walkable(G, request), NEW e \in DOMAIN G.edges, NEW n,
         NEW m \in Over(G, request, e, n)
  PROVE  /\ m \in DOMAIN G.nodes
         /\ e \in Bucket(G.index.incident, n)
         /\ \A x \in Over(G, request, e, n) : x = m
<1>1. /\ m \in {G.edges[e].from, G.edges[e].to} \ {n}
      /\ n \in {G.edges[e].from, G.edges[e].to}
      /\ \A x \in Over(G, request, e, n) : x \in {G.edges[e].from, G.edges[e].to} \ {n}
  BY DEF Over, NextNode
<1>2. \A x \in Over(G, request, e, n) : x = m
  BY <1>1
<1>3. m \in DOMAIN G.nodes
  BY <1>1 DEF Walkable
<1>4. G.index.incident = BucketsOf(EndsOf(G.edges))
  BY DEF Walkable, IndexOf, IndexRecord
<1>5. Bucket(G.index.incident, n) =
        {f \in DOMAIN EndsOf(G.edges) : n \in EndsOf(G.edges)[f]}
  BY <1>4, BucketIs
<1>6. e \in Bucket(G.index.incident, n)
  BY <1>1, <1>5 DEF EndsOf, UnderBoth
<1> QED
  BY <1>2, <1>3, <1>6

\* The incident edges are edges of the graph, and finitely many.
LEMMA IncidentIs ==
  ASSUME NEW G, NEW request, Walkable(G, request), NEW n
  PROVE  /\ Bucket(G.index.incident, n) \in SUBSET DOMAIN G.edges
         /\ Bucket(G.index.incident, n) \in SUBSET Nat
         /\ IsFiniteSet(Bucket(G.index.incident, n))
<1>1. G.index.incident = BucketsOf(EndsOf(G.edges))
  BY DEF Walkable, IndexOf, IndexRecord
<1>2. Bucket(G.index.incident, n) =
        {f \in DOMAIN EndsOf(G.edges) : n \in EndsOf(G.edges)[f]}
  BY <1>1, BucketIs
<1>3. Bucket(G.index.incident, n) \in SUBSET DOMAIN G.edges
  BY <1>2 DEF EndsOf
<1>4. IsFiniteSet(DOMAIN G.edges) /\ DOMAIN G.edges \subseteq Nat
  BY EdgeIdsAreOrdered DEF Walkable
<1> QED
  BY <1>3, <1>4, FS_Subset

\* Onward, element by element.
LEMMA OnwardIs ==
  ASSUME NEW G, NEW request, NEW S, NEW m
  PROVE  m \in Onward(G, request, S) <=>
           \E n \in S, e \in DOMAIN G.edges : m \in Over(G, request, e, n)
BY DEF Onward, Over

\* The nodes within no edge and within one edge more.
LEMMA WithinIs ==
  ASSUME NEW G, NEW request
  PROVE  /\ Within(G, request, 0) = {request.origin}
         /\ \A k \in Nat : Within(G, request, k + 1) =
              Within(G, request, k) \cup Onward(G, request, Within(G, request, k))
<1>1. PICK call : call = [graph |-> G, request |-> request]
  OBVIOUS
<1>2. \A k : Within(G, request, k) = Spreads!After(call, {request.origin}, k)
  BY <1>1 DEF Within
<1>3. Within(G, request, 0) = {request.origin}
  BY <1>2, Spreads!AfterZero
<1>4. ASSUME NEW k \in Nat
      PROVE  Within(G, request, k + 1) =
               Within(G, request, k) \cup Onward(G, request, Within(G, request, k))
  <2>1. k + 1 \in Nat \ {0} /\ (k + 1) - 1 = k
    OBVIOUS
  <2>2. PICK l : l = k + 1
    OBVIOUS
  <2>3. Spreads!After(call, {request.origin}, l) =
          Spread(call, l, Spreads!After(call, {request.origin}, l - 1))
    BY <2>1, <2>2, Spreads!AfterStep
  <2> QED
    BY <1>1, <1>2, <2>1, <2>2, <2>3 DEF Spread
<1> QED
  BY <1>3, <1>4

\* Everything within reach stays inside a set that no edge leads out of.
LEMMA WithinClosed ==
  ASSUME NEW G, NEW request, NEW T, request.origin \in T,
         Onward(G, request, T) \subseteq T, NEW k \in Nat
  PROVE  Within(G, request, k) \subseteq T
<1>1. PICK call : call = [graph |-> G, request |-> request]
  OBVIOUS
<1>2. Within(G, request, k) = Spreads!After(call, {request.origin}, k)
  BY <1>1 DEF Within
<1> DEFINE inside == [i \in Nat |-> SUBSET T]
<1>3. {request.origin} \in inside[0]
  OBVIOUS
<1>4. ASSUME NEW i \in 1..k, NEW value \in inside[i - 1]
      PROVE  Spread(call, i, value) \in inside[i]
  <2>1. i \in Nat /\ i - 1 \in Nat
    OBVIOUS
  <2>2. value \in SUBSET T /\ inside[i] = SUBSET T
    BY <2>1
  <2>3. Onward(G, request, value) \subseteq Onward(G, request, T)
    BY <2>2, OnwardIs
  <2>4. Spread(call, i, value) = value \cup Onward(G, request, value)
    BY <1>1 DEF Spread
  <2> QED
    BY <2>2, <2>3, <2>4
<1> HIDE DEF inside
<1>5. Spreads!After(call, {request.origin}, k) \in inside[k]
  BY <1>3, <1>4, Spreads!AfterInduction
<1> QED
  BY <1>2, <1>5 DEF inside

\* What is within reach, reached further with more edges.
LEMMA WithinGrows ==
  ASSUME NEW G, NEW request, NEW j \in Nat, NEW k \in Nat, j <= k
  PROVE  Within(G, request, j) \subseteq Within(G, request, k)
<1> DEFINE Bad == {l \in Nat : j <= l /\ ~(Within(G, request, j) \subseteq Within(G, request, l))}
<1> SUFFICES ASSUME Bad # {} PROVE FALSE
  OBVIOUS
<1>1. PICK l \in Bad : \A i \in Bad : l <= i
  BY Nodes!LeastNumber
<1>2. l # j
  BY <1>1
<1>3. l - 1 \in Nat /\ j <= l - 1 /\ l - 1 \notin Bad /\ (l - 1) + 1 = l
  BY <1>1, <1>2
<1>4. PICK i \in Nat : i = l - 1
  BY <1>3
<1>5. Within(G, request, i + 1) =
              Within(G, request, i) \cup Onward(G, request, Within(G, request, i))
  BY WithinIs
<1> QED
  BY <1>1, <1>3, <1>4, <1>5

\* Only nodes of the graph are within reach.
LEMMA WithinNodes ==
  ASSUME NEW G, NEW request, Walkable(G, request), NEW k \in Nat
  PROVE  Within(G, request, k) \subseteq DOMAIN G.nodes
<1>1. Onward(G, request, DOMAIN G.nodes) \subseteq DOMAIN G.nodes
  BY OnwardIs, OverIs
<1> QED
  BY <1>1, WithinClosed DEF Walkable

\* The levels of the reference are the nodes at each distance.
LEMMA LevelsAre ==
  ASSUME NEW G, NEW request, Walkable(G, request), NEW k \in 0..request.max_depth
  PROVE  Levels(G, request)[k] = At(G, request, k)
<1>1. request.max_depth \in Nat /\ k \in Nat
  BY DEF Walkable
<1>2. Levels(G, request)[k] =
        IF k = 0 THEN {request.origin} ELSE Within(G, request, k) \ Within(G, request, k - 1)
  BY <1>1 DEF Levels
<1>3. CASE k = 0
  BY <1>2, <1>3, WithinIs DEF At
<1>4. CASE k # 0
  <2>1. k - 1 \in Nat /\ k - 1 \in 0..(k - 1)
    BY <1>1, <1>4
  <2>2. \A j \in 0..(k - 1) : j \in Nat /\ j <= k - 1
    BY <2>1
  <2>3. \A j \in 0..(k - 1) : Within(G, request, j) \subseteq Within(G, request, k - 1)
    BY <2>1, <2>2, WithinGrows
  <2> QED
    BY <1>2, <1>4, <2>1, <2>3 DEF At
<1> QED
  BY <1>3, <1>4

-----------------------------------------------------------------------------
\* The invariant of a search.

Frames(G) == [node : DOMAIN G.nodes, depth : Nat]
Steps(G) == [node : DOMAIN G.nodes, depth : Nat, via : DOMAIN G.edges]

Searches(G) ==
  [queue : Seq(Frames(G)), visited : SUBSET DOMAIN G.nodes, steps : SUBSET Steps(G),
   truncated : BOOLEAN]

Reached(steps) == {step.node : step \in steps}

\* The nodes in the queue, and those that have left it.
Waiting(q) == {q[i].node : i \in 1..Len(q)}
Popped(s) == s.visited \ Waiting(s.queue)

\* Every step is to a new node, at its distance, from a node one step nearer.
StepsFit(G, request, steps) ==
  /\ IsFiniteSet(steps)
  /\ Cardinality(steps) <= request.max_visited
  /\ \A a, b \in steps : a.node = b.node => a = b
  /\ \A a \in steps :
       /\ a.depth \in 1..request.max_depth
       /\ a.node \in At(G, request, a.depth)
       /\ \E m \in At(G, request, a.depth - 1) : a.node \in Over(G, request, a.via, m)

\* The queue holds nodes at distance d and then nodes one step further.
QueueFits(G, request, d, q) ==
  /\ \A i \in 1..Len(q) :
       /\ q[i].depth \in {d, d + 1}
       /\ q[i].depth <= request.max_depth
       /\ q[i].node \in At(G, request, q[i].depth)
  /\ \A i, j \in 1..Len(q) : i < j => q[i].depth <= q[j].depth /\ q[i].node # q[j].node

\* Everything within d has been visited, and nothing beyond d + 1.
FrontAt(G, request, d, s) ==
  /\ d \in 0..request.max_depth
  /\ QueueFits(G, request, d, s.queue)
  /\ Waiting(s.queue) \subseteq s.visited
  /\ Within(G, request, d) \subseteq s.visited
  /\ s.visited \subseteq Within(G, request, d + 1)
  /\ s.visited = {request.origin} \cup Reached(s.steps)

\* The nodes of S are no further than d, and what they lead to was visited.
Done(G, request, d, S, visited) ==
  \A n \in S : n \in Within(G, request, d) /\ Onward(G, request, {n}) \subseteq visited

\* A search that was cut short returns the nearest nodes and left one out.
Cut(G, request, s) ==
  /\ Cardinality(s.steps) = request.max_visited
  /\ \E d \in Nat :
       /\ Within(G, request, d) \subseteq {request.origin} \cup Reached(s.steps)
       /\ \A a \in s.steps : a.depth <= d + 1
  /\ Within(G, request, request.max_depth) \ ({request.origin} \cup Reached(s.steps)) # {}

\* After the first i edges of the node that left the queue last, P having left
\* it altogether.
Meeting(G, request, frame, order, P, i) ==
  {s \in Searches(G) :
     /\ StepsFit(G, request, s.steps)
     /\ s.truncated => Cut(G, request, s)
     /\ ~s.truncated =>
          /\ FrontAt(G, request, frame.depth, s)
          /\ Popped(s) = P
          /\ Done(G, request, frame.depth, P \ {frame.node}, s.visited)
          /\ \A j \in 1..i : Over(G, request, order[j], frame.node) \subseteq s.visited}

\* After k rounds.
Searching(G, request, k) ==
  {s \in Searches(G) :
     /\ StepsFit(G, request, s.steps)
     /\ s.truncated => Cut(G, request, s)
     /\ ~s.truncated =>
          /\ \E d : /\ FrontAt(G, request, d, s)
                    /\ d < request.max_depth => Done(G, request, d, Popped(s), s.visited)
          /\ s.queue # <<>> => Cardinality(Popped(s)) = k}

\* A node one step further joins the queue.
LEMMA AppendFits ==
  ASSUME NEW G, NEW request, NEW d \in Nat, NEW q \in Seq(Frames(G)), NEW f \in Frames(G),
         QueueFits(G, request, d, q), f.depth = d + 1, f.depth <= request.max_depth,
         f.node \in At(G, request, d + 1), f.node \notin Waiting(q)
  PROVE  /\ QueueFits(G, request, d, Append(q, f))
         /\ Waiting(Append(q, f)) = Waiting(q) \cup {f.node}
         /\ Append(q, f) \in Seq(Frames(G))
<1> DEFINE p == Append(q, f)
           n == Len(q)
<1>1. /\ n \in Nat /\ Len(p) = n + 1 /\ p[n + 1] = f /\ p \in Seq(Frames(G))
      /\ \A i \in 1..n : p[i] = q[i]
  BY AppendProperties
<1>2. \A i \in 1..(n + 1) : i \in 1..n \/ i = n + 1
  BY <1>1
<1> HIDE DEF p
<1>3. \A i \in 1..n : q[i].node \in Waiting(q)
  BY DEF Waiting
<1>4. Waiting(p) = Waiting(q) \cup {f.node}
  <2>1. ASSUME NEW x \in Waiting(p) PROVE x \in Waiting(q) \cup {f.node}
    <3>1. PICK i \in 1..(n + 1) : x = p[i].node
      BY <1>1, <2>1 DEF Waiting
    <3> QED
      BY <1>1, <1>2, <1>3, <3>1
  <2>2. f.node \in Waiting(p)
    BY <1>1 DEF Waiting
  <2>3. ASSUME NEW x \in Waiting(q) PROVE x \in Waiting(p)
    <3>1. PICK i \in 1..n : x = q[i].node
      BY <2>3 DEF Waiting
    <3>2. i \in 1..(n + 1) /\ x = p[i].node
      BY <1>1, <3>1
    <3> QED
      BY <1>1, <3>2 DEF Waiting
  <2> QED
    BY <2>1, <2>2, <2>3
<1>5. ASSUME NEW i \in 1..(n + 1)
      PROVE  /\ p[i].depth \in {d, d + 1}
             /\ p[i].depth <= request.max_depth
             /\ p[i].node \in At(G, request, p[i].depth)
  <2>1. CASE i \in 1..n
    BY <1>1, <2>1 DEF QueueFits
  <2>2. CASE i = n + 1
    BY <1>1, <2>2
  <2> QED
    BY <1>2, <2>1, <2>2
<1>6. ASSUME NEW i \in 1..(n + 1), NEW j \in 1..(n + 1), i < j
      PROVE  p[i].depth <= p[j].depth /\ p[i].node # p[j].node
  <2>1. i \in 1..n /\ p[i] = q[i]
    BY <1>1, <1>6
  <2>2. CASE j \in 1..n
    BY <1>1, <1>6, <2>1, <2>2 DEF QueueFits
  <2>3. CASE j = n + 1
    <3>1. q[i].depth \in {d, d + 1} /\ p[j] = f
      BY <1>1, <2>1, <2>3 DEF QueueFits
    <3>2. q[i].depth <= d + 1
      BY <3>1
    <3> QED
      BY <1>3, <2>1, <3>1, <3>2
  <2> QED
    BY <1>2, <2>2, <2>3
<1>7. QueueFits(G, request, d, p)
  BY <1>1, <1>5, <1>6 DEF QueueFits
<1> QED
  BY <1>1, <1>4, <1>7 DEF p

\* The head leaves the queue.
LEMMA TailFits ==
  ASSUME NEW G, NEW request, NEW d, NEW q \in Seq(Frames(G)), q # <<>>,
         QueueFits(G, request, d, q)
  PROVE  /\ QueueFits(G, request, d, Tail(q))
         /\ Waiting(Tail(q)) = Waiting(q) \ {Head(q).node}
         /\ Tail(q) \in Seq(Frames(G))
         /\ Head(q) = q[1] /\ 1 \in 1..Len(q) /\ Head(q) \in Frames(G)
<1> DEFINE p == Tail(q)
           n == Len(q)
<1>1. /\ n \in Nat \ {0} /\ Len(p) = n - 1 /\ p \in Seq(Frames(G)) /\ Head(q) = q[1]
      /\ Head(q) \in Frames(G)
      /\ \A i \in 1..(n - 1) : p[i] = q[i + 1]
  BY HeadTailProperties, EmptySeq, LenProperties
<1> HIDE DEF p
<1>2. 1 \in 1..n /\ \A i \in 1..(n - 1) : i + 1 \in 1..n /\ 1 < i + 1
  BY <1>1
<1>3. ASSUME NEW x
      PROVE  x \in Waiting(p) <=> x \in Waiting(q) /\ x # q[1].node
  <2>1. ASSUME x \in Waiting(p) PROVE x \in Waiting(q) /\ x # q[1].node
    <3>1. PICK i \in 1..(n - 1) : x = q[i + 1].node
      BY <1>1, <2>1 DEF Waiting
    <3>2. q[1].node # q[i + 1].node
      BY <1>2 DEF QueueFits
    <3> QED
      BY <1>2, <3>1, <3>2 DEF Waiting
  <2>2. ASSUME x \in Waiting(q), x # q[1].node PROVE x \in Waiting(p)
    <3>1. PICK i \in 1..n : x = q[i].node
      BY <2>2 DEF Waiting
    <3>2. i # 1
      BY <2>2, <3>1
    <3>3. i - 1 \in 1..(n - 1) /\ p[i - 1] = q[i]
      <4>1. i - 1 \in 1..(n - 1) /\ (i - 1) + 1 = i
        BY <1>1, <3>2
      <4> QED
        BY <1>1, <4>1
    <3> QED
      BY <1>1, <3>1, <3>3 DEF Waiting
  <2> QED
    BY <2>1, <2>2
<1>4. QueueFits(G, request, d, p)
  <2>1. ASSUME NEW i \in 1..(n - 1)
        PROVE  /\ p[i].depth \in {d, d + 1}
               /\ p[i].depth <= request.max_depth
               /\ p[i].node \in At(G, request, p[i].depth)
    BY <1>1, <1>2 DEF QueueFits
  <2>2. ASSUME NEW i \in 1..(n - 1), NEW j \in 1..(n - 1), i < j
        PROVE  p[i].depth <= p[j].depth /\ p[i].node # p[j].node
    <3>1. i + 1 \in 1..n /\ j + 1 \in 1..n /\ i + 1 < j + 1 /\ p[i] = q[i + 1] /\ p[j] = q[j + 1]
      BY <1>1, <1>2, <2>2
    <3> QED
      BY <3>1 DEF QueueFits
  <2> QED
    BY <1>1, <2>1, <2>2 DEF QueueFits
<1> QED
  BY <1>1, <1>2, <1>3, <1>4 DEF p

\* A node beyond everything within d, one edge from there, is at distance d + 1.
LEMMA NextIsAt ==
  ASSUME NEW G, NEW request, NEW d \in Nat, NEW f \in Within(G, request, d),
         NEW e \in DOMAIN G.edges, NEW m \in Over(G, request, e, f),
         m \notin Within(G, request, d)
  PROVE  m \in At(G, request, d + 1)
<1>1. m \in Onward(G, request, Within(G, request, d))
  BY OnwardIs
<1>2. m \in Within(G, request, d + 1)
  <2>1. Within(G, request, d + 1) =
          Within(G, request, d) \cup Onward(G, request, Within(G, request, d))
    BY WithinIs
  <2> QED
    BY <1>1, <2>1
<1>3. ASSUME NEW j \in 0..((d + 1) - 1) PROVE m \notin Within(G, request, j)
  <2>1. j \in Nat /\ j <= d
    OBVIOUS
  <2> QED
    BY <2>1, WithinGrows
<1> QED
  BY <1>2, <1>3 DEF At

\* No node at a distance above d + 1 is within d + 1.
LEMMA NoFurther ==
  ASSUME NEW G, NEW request, NEW d \in Nat, NEW k \in Nat, NEW n \in At(G, request, k),
         n \in Within(G, request, d)
  PROVE  k <= d
<1> SUFFICES ASSUME d < k PROVE FALSE
  OBVIOUS
<1>1. d \in 0..(k - 1)
  OBVIOUS
<1> QED
  BY <1>1 DEF At

\* A search that meets one new node too many was rightly cut short.
LEMMA CutRightly ==
  ASSUME NEW G, NEW request, Walkable(G, request), NEW s \in Searches(G), NEW d \in Nat,
         d < request.max_depth, StepsFit(G, request, s.steps), FrontAt(G, request, d, s),
         Cardinality(s.steps) >= request.max_visited,
         NEW next \in At(G, request, d + 1), next \notin s.visited,
         NEW t, t.steps = s.steps
  PROVE  Cut(G, request, t)
<1>1. request.max_depth \in Nat /\ request.max_visited \in Nat
  BY DEF Walkable
<1>2. Cardinality(s.steps) = request.max_visited
  <2>1. Cardinality(s.steps) \in Nat /\ Cardinality(s.steps) <= request.max_visited
    BY FS_CardinalityType DEF StepsFit
  <2> QED
    BY <1>1, <2>1
<1>3. s.visited = {request.origin} \cup Reached(s.steps)
  BY DEF FrontAt
<1>4. ASSUME NEW a \in s.steps PROVE a.depth <= d + 1
  <2>1. a.depth \in Nat /\ a.node \in At(G, request, a.depth)
    BY <1>1 DEF StepsFit
  <2>2. a.node \in Within(G, request, d + 1)
    BY <1>3 DEF FrontAt, Reached
  <2>3. d + 1 \in Nat
    OBVIOUS
  <2> QED
    BY <2>1, <2>2, <2>3, NoFurther
<1>5. Within(G, request, d) \subseteq {request.origin} \cup Reached(s.steps)
  BY <1>3 DEF FrontAt
<1>6. next \in Within(G, request, request.max_depth)
  <2>1. d + 1 \in Nat /\ d + 1 <= request.max_depth
    BY <1>1
  <2>2. next \in Within(G, request, d + 1)
    BY DEF At
  <2> QED
    BY <1>1, <2>1, <2>2, WithinGrows
<1> QED
  BY <1>2, <1>3, <1>4, <1>5, <1>6 DEF Cut

\* The step over the edge e from the node f at distance d to a new node.
IsNewStep(G, request, s, d, f, e, step) ==
  /\ s \in Searches(G) /\ StepsFit(G, request, s.steps)
  /\ Reached(s.steps) \subseteq s.visited
  /\ Cardinality(s.steps) < request.max_visited
  /\ d \in Nat /\ d < request.max_depth
  /\ f \in At(G, request, d) /\ e \in DOMAIN G.edges
  /\ step = [node |-> step.node, depth |-> d + 1, via |-> e]
  /\ step.node \in Over(G, request, e, f) /\ step.node \in At(G, request, d + 1)
  /\ step.node \notin s.visited

\* A new step is to a node none before it was to.
LEMMA StepFits ==
  ASSUME NEW G, NEW request, Walkable(G, request), NEW s, NEW d, NEW f, NEW e, NEW step,
         IsNewStep(G, request, s, d, f, e, step), NEW S, S = s.steps \cup {step}
  PROVE  /\ StepsFit(G, request, S)
         /\ S \in SUBSET Steps(G)
         /\ Reached(S) = Reached(s.steps) \cup {step.node}
<1> USE DEF IsNewStep
<1> DEFINE next == step.node
<1>1. request.max_depth \in Nat /\ request.max_visited \in Nat
  BY DEF Walkable
<1>2. step.node = next /\ step.depth = d + 1 /\ step.via = e
  BY DEF IsNewStep
<1>3. \A a \in s.steps : a.node # next
  BY DEF Reached
<1>4. step \notin s.steps
  BY <1>2, <1>3
<1>5. /\ IsFiniteSet(s.steps \cup {step})
      /\ Cardinality(s.steps \cup {step}) <= request.max_visited
  <2>1. IsFiniteSet(s.steps) /\ Cardinality(s.steps) \in Nat
    BY FS_CardinalityType DEF StepsFit
  <2>2. /\ IsFiniteSet(s.steps \cup {step})
        /\ Cardinality(s.steps \cup {step}) = Cardinality(s.steps) + 1
    BY <1>4, <2>1, FS_AddElement
  <2> QED
    BY <1>1, <2>1, <2>2
<1>6. \A a, b \in s.steps \cup {step} : a.node = b.node => a = b
  BY <1>2, <1>3 DEF StepsFit
<1>7. ASSUME NEW a \in s.steps \cup {step}
      PROVE  /\ a.depth \in 1..request.max_depth
             /\ a.node \in At(G, request, a.depth)
             /\ \E m \in At(G, request, a.depth - 1) : a.node \in Over(G, request, a.via, m)
  <2>1. CASE a \in s.steps
    BY <2>1 DEF StepsFit
  <2>2. CASE a = step
    <3>1. d + 1 \in 1..request.max_depth /\ (d + 1) - 1 = d
      BY <1>1
    <3> QED
      BY <1>2, <2>2, <3>1
  <2> QED
    BY <2>1, <2>2
<1>8. next \in DOMAIN G.nodes
  BY OverIs
<1>9. step \in Steps(G) /\ s.steps \in SUBSET Steps(G)
  BY <1>8 DEF Steps, Searches
<1>10. Reached(s.steps \cup {step}) = Reached(s.steps) \cup {next}
  BY <1>2 DEF Reached
<1> QED
  BY <1>5, <1>6, <1>7, <1>9, <1>10 DEF StepsFit

\* One edge of the node at the head.
LEMMA MeetEdgeKeeps ==
  ASSUME NEW G, NEW request, Walkable(G, request), NEW frame \in Frames(G),
         frame.depth < request.max_depth, frame.node \in At(G, request, frame.depth),
         NEW n \in Nat, NEW order \in [1..n -> DOMAIN G.edges], NEW i \in 1..n, NEW P,
         NEW loop, loop = [graph |-> G, request |-> request, frame |-> frame, order |-> order],
         NEW s \in Meeting(G, request, frame, order, P, i - 1)
  PROVE  MeetEdge(loop, i, s) \in Meeting(G, request, frame, order, P, i)
<1>1. loop.graph = G /\ loop.request = request /\ loop.frame = frame /\ loop.order = order
  OBVIOUS
<1> DEFINE d == frame.depth
           e == order[i]
           found == Over(G, request, e, frame.node) \ s.visited
           next == CHOOSE m \in found : TRUE
           step == [node |-> next, depth |-> d + 1, via |-> e]
           entry == [node |-> next, depth |-> d + 1]
           cut == [s EXCEPT !.visited = @ \cup {next}, !.truncated = TRUE]
           longer == [s EXCEPT !.visited = @ \cup {next}, !.steps = @ \cup {step},
                               !.queue = Append(@, entry)]
<1>2. MeetEdge(loop, i, s) =
        IF s.truncated \/ found = {} THEN s
        ELSE IF Cardinality(s.steps) >= request.max_visited THEN cut ELSE longer
  <2>1. found = IF IsTraversable(loop.graph.edges[loop.order[i]], loop.request)
                THEN NextNode(loop.request.kind, loop.graph.edges[loop.order[i]], loop.frame.node)
                     \ s.visited
                ELSE {}
    BY <1>1 DEF Over
  <2> QED
    BY <1>1, <2>1 DEF MeetEdge
<1>3. /\ s \in Searches(G)
      /\ StepsFit(G, request, s.steps)
      /\ s.truncated => Cut(G, request, s)
      /\ ~s.truncated =>
           /\ FrontAt(G, request, d, s)
           /\ Popped(s) = P
           /\ Done(G, request, d, P \ {frame.node}, s.visited)
           /\ \A j \in 1..(i - 1) : Over(G, request, order[j], frame.node) \subseteq s.visited
  BY DEF Meeting
<1>4. d \in Nat /\ e \in DOMAIN G.edges
  BY DEF Frames
<1> HIDE DEF d, e, found, next, step, entry, cut, longer
<1>5. CASE s.truncated
  BY <1>2, <1>3, <1>5 DEF Meeting
<1>6. ASSUME ~s.truncated, found = {}
      PROVE  MeetEdge(loop, i, s) \in Meeting(G, request, frame, order, P, i)
  <2>1. \A j \in 1..i : j \in 1..(i - 1) \/ j = i
    OBVIOUS
  <2>2. Over(G, request, order[i], frame.node) \subseteq s.visited
    BY <1>6 DEF found, e
  <2>3. \A j \in 1..i : Over(G, request, order[j], frame.node) \subseteq s.visited
    BY <1>3, <1>6, <2>1, <2>2
  <2> QED
    BY <1>2, <1>3, <1>6, <2>3 DEF Meeting, d
<1>7. ASSUME ~s.truncated, found # {}
      PROVE  MeetEdge(loop, i, s) \in Meeting(G, request, frame, order, P, i)
  <2>1. next \in Over(G, request, e, frame.node) /\ next \notin s.visited
    BY <1>7 DEF found, next
  <2>2. /\ FrontAt(G, request, d, s) /\ Popped(s) = P
        /\ Done(G, request, d, P \ {frame.node}, s.visited)
        /\ \A j \in 1..(i - 1) : Over(G, request, order[j], frame.node) \subseteq s.visited
    BY <1>3, <1>7
  <2>3. frame.node \in At(G, request, d) /\ d < request.max_depth
    BY DEF d
  <2>4. next \in At(G, request, d + 1)
    <3>1. frame.node \in Within(G, request, d)
      BY <2>3 DEF At
    <3>2. next \notin Within(G, request, d)
      BY <2>1, <2>2 DEF FrontAt
    <3> QED
      BY <1>4, <2>1, <3>1, <3>2, NextIsAt
  <2>5. next \in DOMAIN G.nodes
    BY <1>4, <2>1, OverIs
  <2>6. s = [queue |-> s.queue, visited |-> s.visited, steps |-> s.steps,
             truncated |-> s.truncated]
        /\ s.queue \in Seq(Frames(G)) /\ s.visited \in SUBSET DOMAIN G.nodes
        /\ s.steps \in SUBSET Steps(G)
    BY <1>3 DEF Searches
  <2>7. CASE Cardinality(s.steps) >= request.max_visited
    <3>1. MeetEdge(loop, i, s) = cut
      BY <1>2, <1>7, <2>7
    <3>2. cut.steps = s.steps /\ cut.truncated = TRUE /\ cut \in Searches(G)
      BY <2>5, <2>6 DEF cut, Searches
    <3>3. Cut(G, request, cut)
      BY <1>3, <1>4, <2>1, <2>2, <2>3, <2>4, <2>7, <3>2, CutRightly
    <3> QED
      BY <1>3, <3>1, <3>2, <3>3 DEF Meeting
  <2>8. CASE ~(Cardinality(s.steps) >= request.max_visited)
    <3>1. MeetEdge(loop, i, s) = longer
      BY <1>2, <1>7, <2>8
    <3>2. Cardinality(s.steps) < request.max_visited
      <4>1. Cardinality(s.steps) \in Nat /\ request.max_visited \in Nat
        BY <1>3, FS_CardinalityType DEF StepsFit, Walkable
      <4> QED
        BY <2>8, <4>1
    <3>3. Reached(s.steps) \subseteq s.visited
      BY <2>2 DEF FrontAt
    <3>4. /\ StepsFit(G, request, s.steps \cup {step})
          /\ s.steps \cup {step} \in SUBSET Steps(G)
          /\ Reached(s.steps \cup {step}) = Reached(s.steps) \cup {next}
      <4>1. step = [node |-> next, depth |-> d + 1, via |-> e]
        BY DEF step
      <4>2. step.node = next
        BY <4>1
      <4>3. IsNewStep(G, request, s, d, frame.node, e, step)
        BY <1>3, <1>4, <2>1, <2>3, <2>4, <3>2, <3>3, <4>1, <4>2 DEF IsNewStep
      <4>4. PICK S : S = s.steps \cup {step}
        OBVIOUS
      <4>5. StepsFit(G, request, S) /\ S \in SUBSET Steps(G)
            /\ Reached(S) = Reached(s.steps) \cup {step.node}
        BY <4>3, <4>4, StepFits
      <4> QED
        BY <4>2, <4>4, <4>5
    <3>5. entry \in Frames(G) /\ entry.depth = d + 1 /\ entry.node = next
      BY <1>4, <2>5 DEF entry, Frames
    <3>6. d + 1 <= request.max_depth /\ d \in 0..request.max_depth
      <4>1. request.max_depth \in Nat
        BY DEF Walkable
      <4> QED
        BY <1>4, <2>3, <4>1
    <3>7. /\ QueueFits(G, request, d, Append(s.queue, entry))
          /\ Waiting(Append(s.queue, entry)) = Waiting(s.queue) \cup {next}
          /\ Append(s.queue, entry) \in Seq(Frames(G))
      <4>1. next \notin Waiting(s.queue) /\ QueueFits(G, request, d, s.queue)
        BY <2>1, <2>2 DEF FrontAt
      <4> QED
        BY <1>4, <2>4, <2>6, <3>5, <3>6, <4>1, AppendFits
    <3>8. /\ longer.queue = Append(s.queue, entry) /\ longer.visited = s.visited \cup {next}
          /\ longer.steps = s.steps \cup {step} /\ longer.truncated = s.truncated
          /\ longer = [queue |-> longer.queue, visited |-> longer.visited,
                       steps |-> longer.steps, truncated |-> longer.truncated]
      <4>1. PICK q, V, S :
              q = Append(s.queue, entry) /\ V = s.visited \cup {next} /\ S = s.steps \cup {step}
        OBVIOUS
      <4>2. longer = [s EXCEPT !.visited = V, !.steps = S, !.queue = q]
        BY <4>1 DEF longer
      <4> QED
        BY <2>6, <4>1, <4>2
    <3>9. longer \in Searches(G)
      <4>1. s.truncated \in BOOLEAN
        BY <1>3 DEF Searches
      <4> QED
        BY <2>5, <2>6, <3>4, <3>7, <3>8, <4>1 DEF Searches
    <3>10. FrontAt(G, request, d, longer)
      <4>1. next \in Within(G, request, d + 1)
        BY <2>4 DEF At
      <4> QED
        BY <2>2, <3>4, <3>6, <3>7, <3>8, <4>1 DEF FrontAt
    <3>11. Popped(longer) = P
      BY <2>1, <2>2, <3>7, <3>8 DEF Popped
    <3>12. Done(G, request, d, P \ {frame.node}, longer.visited)
      BY <2>2, <3>8 DEF Done
    <3>13. \A j \in 1..i : Over(G, request, order[j], frame.node) \subseteq longer.visited
      <4>1. \A j \in 1..i : j \in 1..(i - 1) \/ j = i
        OBVIOUS
      <4>2. Over(G, request, order[i], frame.node) \subseteq longer.visited
        <5>1. \A x \in Over(G, request, e, frame.node) : x = next
          BY <1>4, <2>1, OverIs
        <5> QED
          BY <3>8, <5>1 DEF e
      <4> QED
        BY <2>2, <3>8, <4>1, <4>2
    <3> QED
      BY <1>7, <3>1, <3>4, <3>8, <3>9, <3>10, <3>11, <3>12, <3>13 DEF Meeting, d
  <2> QED
    BY <2>7, <2>8
<1> QED
  BY <1>5, <1>6, <1>7

\* All the edges of the node at the head.
LEMMA MeetEdgesKeep ==
  ASSUME NEW G, NEW request, Walkable(G, request), NEW frame \in Frames(G),
         frame.depth < request.max_depth, frame.node \in At(G, request, frame.depth), NEW P,
         NEW order, order = InOrder(Bucket(G.index.incident, frame.node)),
         NEW s \in Meeting(G, request, frame, order, P, 0),
         NEW t, t = MeetEdges(G, request, frame, s)
  PROVE  /\ t \in Searches(G)
         /\ StepsFit(G, request, t.steps)
         /\ t.truncated => Cut(G, request, t)
         /\ ~t.truncated => /\ FrontAt(G, request, frame.depth, t)
                            /\ Popped(t) = P
                            /\ Done(G, request, frame.depth, P, t.visited)
<1>1. PICK bucket, n, loop :
        /\ bucket = Bucket(G.index.incident, frame.node)
        /\ n = Cardinality(bucket)
        /\ loop = [graph |-> G, request |-> request, frame |-> frame, order |-> order]
  OBVIOUS
<1>2. bucket \in SUBSET DOMAIN G.edges /\ bucket \in SUBSET Nat /\ IsFiniteSet(bucket)
  BY <1>1, IncidentIs
<1>3. n \in Nat /\ order \in [1..n -> bucket] /\ \A e \in bucket : \E i \in 1..n : order[i] = e
  BY <1>1, <1>2, InOrderIs
<1>4. order \in [1..n -> DOMAIN G.edges]
  BY <1>2, <1>3
<1>5. t = Meetings!After(loop, s, n)
  BY <1>1 DEF MeetEdges
<1> DEFINE after == [i \in Nat |-> Meeting(G, request, frame, order, P, i)]
<1>6. s \in after[0]
  OBVIOUS
<1>7. ASSUME NEW i \in 1..n, NEW value \in after[i - 1]
      PROVE  MeetEdge(loop, i, value) \in after[i]
  <2>1. i \in Nat /\ i - 1 \in Nat
    BY <1>3
  <2>2. value \in Meeting(G, request, frame, order, P, i - 1)
    BY <2>1
  <2>3. MeetEdge(loop, i, value) \in Meeting(G, request, frame, order, P, i)
    BY <1>1, <1>3, <1>4, <2>2, MeetEdgeKeeps
  <2> QED
    BY <2>1, <2>3
<1>8. t \in Meeting(G, request, frame, order, P, n)
  <2> HIDE DEF after
  <2>1. t \in after[n]
    BY <1>3, <1>5, <1>6, <1>7, Meetings!AfterInduction
  <2> QED
    BY <1>3, <2>1 DEF after
<1>9. ASSUME ~t.truncated PROVE Done(G, request, frame.depth, P, t.visited)
  <2>1. /\ Done(G, request, frame.depth, P \ {frame.node}, t.visited)
        /\ \A j \in 1..n : Over(G, request, order[j], frame.node) \subseteq t.visited
    BY <1>8, <1>9 DEF Meeting
  <2>2. frame.node \in Within(G, request, frame.depth)
    BY DEF At
  <2>3. ASSUME NEW m \in Onward(G, request, {frame.node}) PROVE m \in t.visited
    <3>1. PICK e \in DOMAIN G.edges : m \in Over(G, request, e, frame.node)
      BY OnwardIs
    <3>2. e \in bucket
      BY <1>1, <3>1, OverIs
    <3> QED
      BY <1>3, <2>1, <3>1, <3>2
  <2> QED
    BY <2>1, <2>2, <2>3 DEF Done
<1> QED
  BY <1>8, <1>9 DEF Meeting

\* The head of the queue is as near as anything in it, and everything nearer
\* is behind.
LEMMA HeadIsNearest ==
  ASSUME NEW G, NEW request, Walkable(G, request), NEW k, NEW s \in Searching(G, request, k),
         ~s.truncated, s.queue # <<>>, NEW d, d = Head(s.queue).depth
  PROVE  /\ FrontAt(G, request, d, s)
         /\ d < request.max_depth => Done(G, request, d, Popped(s), s.visited)
<1>1. request.max_depth \in Nat
  BY DEF Walkable
<1>2. s.queue \in Seq(Frames(G))
  BY DEF Searching, Searches
<1>3. PICK c : /\ FrontAt(G, request, c, s)
               /\ c < request.max_depth => Done(G, request, c, Popped(s), s.visited)
  BY DEF Searching
<1>4. c \in Nat /\ c <= request.max_depth
  BY <1>1, <1>3 DEF FrontAt
<1>5. PICK q : q = s.queue
  OBVIOUS
<1>6. d = q[1].depth /\ 1 \in 1..Len(q) /\ QueueFits(G, request, c, q)
  BY <1>2, <1>3, <1>5, TailFits DEF FrontAt
<1>7. d \in {c, c + 1} /\ d <= request.max_depth
  BY <1>6 DEF QueueFits
<1>8. CASE d = c
  BY <1>3, <1>8
<1>9. CASE d = c + 1
  <2>1. c < request.max_depth /\ d \in Nat /\ d \in 0..request.max_depth /\ c <= d
    BY <1>1, <1>4, <1>7, <1>9
  <2>2. ASSUME NEW i \in 1..Len(q) PROVE q[i].depth = d
    <3>1. Len(q) \in Nat
      BY <1>2, <1>5, LenProperties
    <3>2. i = 1 \/ 1 < i
      BY <3>1
    <3>3. d <= q[i].depth
      BY <1>6, <1>7, <2>1, <3>2 DEF QueueFits
    <3>4. q[i].depth \in {c, c + 1}
      BY <1>6 DEF QueueFits
    <3> QED
      BY <1>4, <1>9, <3>3, <3>4
  <2>3. QueueFits(G, request, d, q)
    BY <1>6, <2>2 DEF QueueFits
  <2>4. Within(G, request, c) \subseteq Within(G, request, d)
    BY <1>4, <2>1, WithinGrows
  <2>5. Done(G, request, c, Popped(s), s.visited)
    BY <1>3, <2>1
  <2>6. Within(G, request, d) \subseteq s.visited
    <3>1. Within(G, request, d) =
            Within(G, request, c) \cup Onward(G, request, Within(G, request, c))
      <4>1. Within(G, request, c + 1) =
              Within(G, request, c) \cup Onward(G, request, Within(G, request, c))
        BY <1>4, WithinIs
      <4> QED
        BY <1>9, <4>1
    <3>2. Within(G, request, c) \subseteq s.visited
      BY <1>3 DEF FrontAt
    <3>3. ASSUME NEW m \in Within(G, request, c) PROVE m \in Popped(s)
      <4>1. ASSUME m \in Waiting(q) PROVE FALSE
        <5>1. PICK i \in 1..Len(q) : m = q[i].node
          BY <4>1 DEF Waiting
        <5>2. m \in At(G, request, d)
          BY <2>2, <2>3, <5>1 DEF QueueFits
        <5>3. d <= c
          BY <1>4, <2>1, <5>2, NoFurther
        <5> QED
          BY <1>4, <1>9, <5>3
      <4> QED
        BY <1>5, <3>2, <4>1 DEF Popped
    <3>4. ASSUME NEW x \in Onward(G, request, Within(G, request, c)) PROVE x \in s.visited
      <4>1. PICK m \in Within(G, request, c), e \in DOMAIN G.edges : x \in Over(G, request, e, m)
        BY OnwardIs
      <4>2. x \in Onward(G, request, {m})
        BY <4>1, OnwardIs
      <4> QED
        BY <2>5, <3>3, <4>2 DEF Done
    <3> QED
      BY <3>1, <3>2, <3>4
  <2>7. s.visited \subseteq Within(G, request, d + 1)
    <3>1. s.visited \subseteq Within(G, request, d)
      BY <1>3, <1>9 DEF FrontAt
    <3>2. d + 1 \in Nat /\ d <= d + 1
      BY <2>1
    <3>3. Within(G, request, d) \subseteq Within(G, request, d + 1)
      BY <2>1, <3>2, WithinGrows
    <3> QED
      BY <3>1, <3>3
  <2>8. FrontAt(G, request, d, s)
    BY <1>3, <1>5, <2>1, <2>3, <2>6, <2>7 DEF FrontAt
  <2>9. Done(G, request, d, Popped(s), s.visited)
    BY <2>4, <2>5 DEF Done
  <2> QED
    BY <2>8, <2>9
<1> QED
  BY <1>7, <1>8, <1>9

\* One round.
LEMMA RoundKeeps ==
  ASSUME NEW G, NEW request, Walkable(G, request), NEW k \in Nat,
         NEW s \in Searching(G, request, k),
         NEW call, call = [graph |-> G, request |-> request], NEW j
  PROVE  Round(call, j, s) \in Searching(G, request, k + 1)
<1>1. call.graph = G /\ call.request = request
  OBVIOUS
<1>2. CASE s.queue = <<>> \/ s.truncated
  BY <1>2 DEF Round, Searching
<1>3. CASE s.queue # <<>> /\ ~s.truncated
  <2>1. PICK frame, rest, t :
          /\ frame = Head(s.queue)
          /\ rest = [s EXCEPT !.queue = Tail(@)]
          /\ t = IF frame.depth >= request.max_depth THEN rest
                 ELSE MeetEdges(G, request, frame, rest)
    OBVIOUS
  <2>2. Round(call, j, s) = t
    BY <1>1, <1>3, <2>1 DEF Round, Expand
  <2>3. s \in Searches(G) /\ StepsFit(G, request, s.steps) /\ Cardinality(Popped(s)) = k
    BY <1>3 DEF Searching
  <2>4. /\ FrontAt(G, request, frame.depth, s)
        /\ frame.depth < request.max_depth => Done(G, request, frame.depth, Popped(s), s.visited)
    BY <1>3, <2>1, HeadIsNearest
  <2>5. /\ s.queue \in Seq(Frames(G)) /\ s.visited \in SUBSET DOMAIN G.nodes
        /\ s = [queue |-> s.queue, visited |-> s.visited, steps |-> s.steps,
                truncated |-> s.truncated]
    BY <2>3 DEF Searches
  <2>6. /\ QueueFits(G, request, frame.depth, Tail(s.queue))
        /\ Waiting(Tail(s.queue)) = Waiting(s.queue) \ {frame.node}
        /\ Tail(s.queue) \in Seq(Frames(G))
        /\ frame = s.queue[1] /\ 1 \in 1..Len(s.queue) /\ frame \in Frames(G)
    <3>1. QueueFits(G, request, frame.depth, s.queue)
      BY <2>4 DEF FrontAt
    <3> QED
      BY <1>3, <2>1, <2>5, <3>1, TailFits
  <2>7. frame.node \in Waiting(s.queue) /\ frame.node \in At(G, request, frame.depth)
    <3>1. frame.node \in Waiting(s.queue)
      BY <2>6 DEF Waiting
    <3>2. QueueFits(G, request, frame.depth, s.queue)
      BY <2>4 DEF FrontAt
    <3> QED
      BY <2>6, <3>1, <3>2 DEF QueueFits
  <2>8. rest.queue = Tail(s.queue) /\ rest.visited = s.visited /\ rest.steps = s.steps
        /\ rest.truncated = s.truncated /\ rest \in Searches(G)
    <3>1. PICK q : q = Tail(s.queue)
      OBVIOUS
    <3>2. rest = [queue |-> q, visited |-> s.visited, steps |-> s.steps,
                  truncated |-> s.truncated]
      BY <2>1, <2>5, <3>1
    <3> QED
      BY <2>3, <2>6, <3>1, <3>2 DEF Searches
  <2>9. FrontAt(G, request, frame.depth, rest)
    BY <2>4, <2>6, <2>8 DEF FrontAt
  <2>10. Popped(rest) = Popped(s) \cup {frame.node} /\ frame.node \notin Popped(s)
    <3>1. Waiting(s.queue) \subseteq s.visited
      BY <2>4 DEF FrontAt
    <3> QED
      BY <2>6, <2>7, <2>8, <3>1 DEF Popped
  <2>11. Cardinality(Popped(rest)) = k + 1
    <3>1. IsFiniteSet(Popped(s))
      <4>1. Popped(s) \subseteq DOMAIN G.nodes /\ IsFiniteSet(DOMAIN G.nodes)
        BY <2>5 DEF Popped, Walkable
      <4> QED
        BY <4>1, FS_Subset
    <3> QED
      BY <2>3, <2>10, <3>1, FS_AddElement
  <2>12. frame.depth \in Nat /\ request.max_depth \in Nat
    BY <2>6 DEF Frames, Walkable
  <2>13. CASE frame.depth >= request.max_depth
    <3>1. t = rest /\ ~(frame.depth < request.max_depth)
      BY <2>1, <2>12, <2>13
    <3> QED
      BY <1>3, <2>2, <2>3, <2>8, <2>9, <2>11, <3>1 DEF Searching
  <2>14. CASE frame.depth < request.max_depth
    <3>1. t = MeetEdges(G, request, frame, rest)
      BY <2>1, <2>12, <2>14
    <3>2. PICK order, P :
            /\ order = InOrder(Bucket(G.index.incident, frame.node))
            /\ P = Popped(rest)
      OBVIOUS
    <3>3. Done(G, request, frame.depth, P \ {frame.node}, rest.visited)
      BY <2>4, <2>8, <2>10, <2>14, <3>2 DEF Done
    <3>4. rest \in Meeting(G, request, frame, order, P, 0)
      BY <1>3, <2>3, <2>8, <2>9, <3>2, <3>3 DEF Meeting
    <3>5. /\ t \in Searches(G)
          /\ StepsFit(G, request, t.steps)
          /\ t.truncated => Cut(G, request, t)
          /\ ~t.truncated => /\ FrontAt(G, request, frame.depth, t)
                             /\ Popped(t) = P
                             /\ Done(G, request, frame.depth, P, t.visited)
      <4>1. frame \in Frames(G) /\ frame.node \in At(G, request, frame.depth)
        BY <2>6, <2>7
      <4>2. order = InOrder(Bucket(G.index.incident, frame.node))
        BY <3>2
      <4> QED
        BY <2>14, <3>1, <3>4, <4>1, <4>2, MeetEdgesKeep
    <3> QED
      BY <2>2, <2>11, <3>2, <3>5 DEF Searching
  <2> QED
    BY <2>12, <2>13, <2>14
<1> QED
  BY <1>2, <1>3

\* The search starts at the origin.
LEMMA SearchStarts ==
  ASSUME NEW G, NEW request, Walkable(G, request), NEW s,
         s = [queue |-> <<[node |-> request.origin, depth |-> 0]>>,
              visited |-> {request.origin}, steps |-> {}, truncated |-> FALSE]
  PROVE  s \in Searching(G, request, 0)
<1>1. request.max_depth \in Nat /\ request.max_visited \in Nat /\ request.origin \in DOMAIN G.nodes
  BY DEF Walkable
<1>2. PICK f, q : f = [node |-> request.origin, depth |-> 0] /\ q = <<f>>
  OBVIOUS
<1>3. f \in Frames(G) /\ f.node = request.origin /\ f.depth = 0
  BY <1>1, <1>2 DEF Frames
<1>4. q \in Seq(Frames(G)) /\ Len(q) = 1 /\ q[1] = f
  BY <1>2, <1>3
<1>5. s.queue = q /\ s.visited = {request.origin} /\ s.steps = {} /\ s.truncated = FALSE
  BY <1>2
<1>6. s \in Searches(G)
  BY <1>1, <1>2, <1>4 DEF Searches
<1>7. StepsFit(G, request, {})
  BY <1>1, FS_EmptySet DEF StepsFit
<1>8. Within(G, request, 0) = {request.origin}
  BY WithinIs
<1>9. request.origin \in At(G, request, 0)
  BY <1>8 DEF At
<1>10. \A i \in 1..1 : i = 1
  OBVIOUS
<1>11. QueueFits(G, request, 0, q)
  BY <1>1, <1>3, <1>4, <1>9, <1>10 DEF QueueFits
<1>12. Waiting(q) = {request.origin}
  BY <1>3, <1>4, <1>10 DEF Waiting
<1>13. {request.origin} \subseteq Within(G, request, 0 + 1)
  <2>1. Within(G, request, 0) \subseteq Within(G, request, 1)
    BY WithinGrows
  <2> QED
    BY <1>8, <2>1
<1>14. FrontAt(G, request, 0, s)
  BY <1>1, <1>5, <1>8, <1>11, <1>12, <1>13 DEF FrontAt, Reached
<1>15. Popped(s) = {}
  BY <1>5, <1>12 DEF Popped
<1>16. Cardinality(Popped(s)) = 0
  BY <1>15, FS_EmptySet
<1>17. Done(G, request, 0, Popped(s), s.visited)
  BY <1>15 DEF Done
<1> QED
  BY <1>5, <1>6, <1>7, <1>14, <1>16, <1>17 DEF Searching

\* After as many rounds as there are nodes the search is over.
LEMMA TraverseEnds ==
  ASSUME NEW G, NEW request, Walkable(G, request), NEW t, t = Traverse(G, request)
  PROVE  /\ t \in Searching(G, request, Cardinality(DOMAIN G.nodes))
         /\ t.queue = <<>> \/ t.truncated
<1>1. PICK call, start, n :
        /\ call = [graph |-> G, request |-> request]
        /\ start = [queue |-> <<[node |-> request.origin, depth |-> 0]>>,
                    visited |-> {request.origin}, steps |-> {}, truncated |-> FALSE]
        /\ n = Cardinality(DOMAIN G.nodes)
  OBVIOUS
<1>2. t = Rounds!After(call, start, n)
  BY <1>1 DEF Traverse
<1>3. n \in Nat /\ IsFiniteSet(DOMAIN G.nodes)
  BY <1>1, FS_CardinalityType DEF Walkable
<1> DEFINE after == [i \in Nat |-> Searching(G, request, i)]
<1>4. start \in after[0]
  BY <1>1, SearchStarts
<1>5. ASSUME NEW i \in 1..n, NEW value \in after[i - 1]
      PROVE  Round(call, i, value) \in after[i]
  <2>1. i \in Nat /\ i - 1 \in Nat /\ (i - 1) + 1 = i
    BY <1>3
  <2>2. value \in Searching(G, request, i - 1)
    BY <2>1
  <2>3. PICK k \in Nat : k = i - 1
    BY <2>1
  <2>4. Round(call, i, value) \in Searching(G, request, k + 1)
    BY <1>1, <2>2, <2>3, RoundKeeps
  <2> QED
    BY <2>1, <2>3, <2>4
<1>6. t \in Searching(G, request, n)
  <2> HIDE DEF after
  <2>1. t \in after[n]
    BY <1>2, <1>3, <1>4, <1>5, Rounds!AfterInduction
  <2> QED
    BY <1>3, <2>1 DEF after
<1>7. ASSUME t.queue # <<>>, ~t.truncated PROVE FALSE
  <2>1. Cardinality(Popped(t)) = n /\ t \in Searches(G)
    BY <1>6, <1>7 DEF Searching
  <2>2. PICK d : FrontAt(G, request, d, t)
    BY <1>6, <1>7 DEF Searching
  <2>3. t.queue \in Seq(Frames(G)) /\ t.visited \subseteq DOMAIN G.nodes
    BY <2>1 DEF Searches
  <2>4. 1 \in 1..Len(t.queue)
    BY <1>7, <2>2, <2>3, TailFits DEF FrontAt
  <2>5. t.queue[1].node \in Waiting(t.queue) /\ Waiting(t.queue) \subseteq t.visited
    BY <2>2, <2>4 DEF Waiting, FrontAt
  <2>6. Popped(t) \subseteq DOMAIN G.nodes /\ Popped(t) # DOMAIN G.nodes
    BY <2>3, <2>5 DEF Popped
  <2> QED
    BY <1>1, <1>3, <2>1, <2>6, FS_Subset
<1> QED
  BY <1>1, <1>6, <1>7

\* The steps are as many as the nodes they are to.
LEMMA ReachedCounts ==
  ASSUME NEW G, NEW request, NEW steps, StepsFit(G, request, steps)
  PROVE  Cardinality(Reached(steps)) = Cardinality(steps)
<1> DEFINE f == [a \in steps |-> a.node]
<1>1. IsFiniteSet(steps) /\ \A a, b \in steps : a.node = b.node => a = b
  BY DEF StepsFit
<1>2. f \in Injection(steps, Reached(steps))
  BY <1>1 DEF Reached, Injection, IsInjective
<1>3. f \in Surjection(steps, Reached(steps))
  BY DEF Reached, Surjection
<1>4. f \in Bijection(steps, Reached(steps))
  BY <1>2, <1>3 DEF Bijection
<1>5. ExistsBijection(steps, Reached(steps))
  BY <1>4 DEF ExistsBijection
<1> QED
  BY <1>1, <1>5, FS_Bijection, FS_SameCardinalityBij

\* The nodes within max_depth but the origin are those of the levels.
LEMMA WantedIs ==
  ASSUME NEW G, NEW request, Walkable(G, request)
  PROVE  UNION {At(G, request, k) : k \in 1..request.max_depth} =
           Within(G, request, request.max_depth) \ {request.origin}
<1>1. request.max_depth \in Nat
  BY DEF Walkable
<1>2. Within(G, request, 0) = {request.origin}
  BY WithinIs
<1>3. ASSUME NEW k \in 1..request.max_depth, NEW n \in At(G, request, k)
      PROVE  n \in Within(G, request, request.max_depth) \ {request.origin}
  <2>1. k \in Nat /\ k <= request.max_depth /\ 0 \in 0..(k - 1)
    BY <1>1
  <2>2. Within(G, request, k) \subseteq Within(G, request, request.max_depth)
    BY <1>1, <2>1, WithinGrows
  <2> QED
    BY <1>2, <2>1, <2>2 DEF At
<1>4. ASSUME NEW n \in Within(G, request, request.max_depth) \ {request.origin}
      PROVE  \E k \in 1..request.max_depth : n \in At(G, request, k)
  <2> DEFINE near == {k \in Nat : n \in Within(G, request, k)}
  <2>1. request.max_depth \in near
    BY <1>1
  <2>2. PICK k \in near : \A j \in near : k <= j
    BY <2>1, Nodes!LeastNumber
  <2>3. k # 0 /\ k <= request.max_depth /\ k \in Nat
    BY <1>2, <2>1, <2>2
  <2>4. \A j \in 0..(k - 1) : j \notin near /\ j \in Nat
    <3>1. \A j \in 0..(k - 1) : j \in Nat /\ ~(k <= j)
      BY <2>3
    <3> QED
      BY <2>2, <3>1
  <2>5. n \in At(G, request, k)
    BY <2>2, <2>4 DEF At
  <2> QED
    BY <1>1, <2>3, <2>5
<1> QED
  BY <1>3, <1>4

\* A search that ran to its end visited everything within max_depth.
LEMMA EndedSearchVisits ==
  ASSUME NEW G, NEW request, Walkable(G, request), NEW k, NEW t \in Searching(G, request, k),
         ~t.truncated, t.queue = <<>>
  PROVE  Reached(t.steps) = Within(G, request, request.max_depth) \ {request.origin}
<1>1. request.max_depth \in Nat
  BY DEF Walkable
<1>2. PICK d : /\ FrontAt(G, request, d, t)
               /\ d < request.max_depth => Done(G, request, d, Popped(t), t.visited)
  BY DEF Searching
<1>3. t.visited = {request.origin} \cup Reached(t.steps) /\ StepsFit(G, request, t.steps)
  BY <1>2 DEF FrontAt, Searching
<1>4. Reached(t.steps) \subseteq Within(G, request, request.max_depth) \ {request.origin}
  <2>1. ASSUME NEW a \in t.steps
        PROVE  a.node \in UNION {At(G, request, j) : j \in 1..request.max_depth}
    BY <1>3 DEF StepsFit
  <2>2. ASSUME NEW a \in t.steps
        PROVE  a.node \in Within(G, request, request.max_depth) \ {request.origin}
    BY <2>1, WantedIs
  <2> QED
    BY <2>2 DEF Reached
<1>5. Within(G, request, request.max_depth) \subseteq t.visited
  <2>1. CASE d = request.max_depth
    BY <1>2, <2>1 DEF FrontAt
  <2>2. CASE d # request.max_depth
    <3>1. d < request.max_depth
      BY <1>1, <1>2, <2>2 DEF FrontAt
    <3>2. Popped(t) = t.visited
      BY DEF Popped, Waiting
    <3>3. Done(G, request, d, t.visited, t.visited)
      BY <1>2, <3>1, <3>2
    <3>4. ASSUME NEW m \in Onward(G, request, t.visited) PROVE m \in t.visited
      <4>1. PICK n \in t.visited, e \in DOMAIN G.edges : m \in Over(G, request, e, n)
        BY OnwardIs
      <4>2. m \in Onward(G, request, {n})
        BY <4>1, OnwardIs
      <4> QED
        BY <3>3, <4>2 DEF Done
    <3>5. request.origin \in t.visited
      BY <1>3
    <3> QED
      BY <1>1, <3>4, <3>5, WithinClosed
  <2> QED
    BY <2>1, <2>2
<1> QED
  BY <1>3, <1>4, <1>5

\* traverse is the bounded breadth-first search, on every graph and for every
\* limit: the queue, the visited set and the order of the edges (traversal.cpp)
\* find each node within max_depth once, at its distance, and the nearest ones
\* if the answer is cut short.
THEOREM TraverseIsBreadthFirst ==
  ASSUME NEW G, NEW request, Walkable(G, request)
  PROVE  IsBreadthFirst(G, request)
<1>1. PICK t, reached, wanted, max :
        /\ t = Traverse(G, request)
        /\ reached = Reached(t.steps)
        /\ wanted = Within(G, request, max) \ {request.origin}
        /\ max = request.max_depth
  OBVIOUS
<1>2. max \in Nat /\ request.max_visited \in Nat
  BY <1>1 DEF Walkable
<1>3. PICK k : t \in Searching(G, request, k) /\ (t.queue = <<>> \/ t.truncated)
  BY <1>1, TraverseEnds
<1>4. StepsFit(G, request, t.steps) /\ (t.truncated => Cut(G, request, t))
  BY <1>3 DEF Searching
<1>5. Cardinality(reached) = Cardinality(t.steps)
  BY <1>1, <1>4, ReachedCounts
<1>6. \A j \in 0..max : Levels(G, request)[j] = At(G, request, j)
  BY <1>1, LevelsAre
<1>7. UNION {Levels(G, request)[j] : j \in 1..max} = wanted
  <2>1. \A j \in 1..max : j \in 0..max
    BY <1>2
  <2>2. UNION {Levels(G, request)[j] : j \in 1..max} = UNION {At(G, request, j) : j \in 1..max}
    BY <1>6, <2>1
  <2> QED
    BY <1>1, <2>2, WantedIs
<1>8. ASSUME NEW step \in t.steps
      PROVE  /\ step.depth \in 1..max
             /\ step.node \in Levels(G, request)[step.depth]
             /\ IsTraversable(G.edges[step.via], request)
             /\ \E nearer \in Levels(G, request)[step.depth - 1] :
                  step.node \in NextNode(request.kind, G.edges[step.via], nearer)
  <2>1. /\ step.depth \in 1..max
        /\ step.node \in At(G, request, step.depth)
        /\ \E m \in At(G, request, step.depth - 1) : step.node \in Over(G, request, step.via, m)
    BY <1>1, <1>4 DEF StepsFit
  <2>2. step.depth \in 0..max /\ step.depth - 1 \in 0..max
    BY <1>2, <2>1
  <2>3. PICK m \in At(G, request, step.depth - 1) : step.node \in Over(G, request, step.via, m)
    BY <2>1
  <2>4. /\ IsTraversable(G.edges[step.via], request)
        /\ step.node \in NextNode(request.kind, G.edges[step.via], m)
    BY <2>3 DEF Over
  <2>5. Levels(G, request)[step.depth] = At(G, request, step.depth)
        /\ Levels(G, request)[step.depth - 1] = At(G, request, step.depth - 1)
    BY <1>6, <2>2
  <2> QED
    BY <2>1, <2>3, <2>4, <2>5
<1>9. ~t.truncated => reached = wanted
  BY <1>1, <1>3, EndedSearchVisits
<1>10. ASSUME t.truncated
       PROVE  /\ Cardinality(reached) = request.max_visited
              /\ \A step \in t.steps : \A j \in 1..(step.depth - 1) :
                   Levels(G, request)[j] \subseteq reached
              /\ wanted \ reached # {}
  <2>1. Cut(G, request, t)
    BY <1>4, <1>10
  <2>2. PICK d \in Nat :
          /\ Within(G, request, d) \subseteq {request.origin} \cup reached
          /\ \A a \in t.steps : a.depth <= d + 1
    BY <1>1, <2>1 DEF Cut
  <2>3. ASSUME NEW step \in t.steps, NEW j \in 1..(step.depth - 1)
        PROVE  Levels(G, request)[j] \subseteq reached
    <3>1. step.depth \in 1..max /\ step.depth <= d + 1
      BY <1>1, <1>4, <2>2 DEF StepsFit
    <3>2. j \in Nat /\ j <= d /\ j \in 0..max /\ 0 \in 0..(j - 1)
      BY <1>2, <3>1
    <3>3. Within(G, request, j) \subseteq Within(G, request, d)
      BY <3>2, WithinGrows
    <3>4. request.origin \notin At(G, request, j)
      BY <3>2, WithinIs DEF At
    <3>5. At(G, request, j) \subseteq reached
      BY <2>2, <3>3, <3>4 DEF At
    <3> QED
      BY <1>6, <3>2, <3>5
  <2>4. wanted \ reached # {}
    BY <1>1, <2>1 DEF Cut
  <2>5. Cardinality(reached) = request.max_visited
    BY <1>5, <2>1 DEF Cut
  <2> QED
    BY <2>3, <2>4, <2>5
<1> QED
  BY <1>1, <1>5, <1>7, <1>8, <1>9, <1>10 DEF IsBreadthFirst, Reached

=============================================================================
