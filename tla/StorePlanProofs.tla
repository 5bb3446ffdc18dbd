--------------------------- MODULE StorePlanProofs ---------------------------
(***************************************************************************)
(* What the edits of a mutation do, for every value of the constants of    *)
(* ConcurrentStore: in which order they come, that each of them applies    *)
(* when its turn comes, that the undo log takes them back one by one, and  *)
(* that followed to the end they are the mutation the contract permits.    *)
(***************************************************************************)
EXTENDS ConcurrentStore, GraphIndexProofs, SequenceTheorems

-----------------------------------------------------------------------------
(***************************************************************************)
(* Plans.  The edits of a plan concern different elements, so that each of *)
(* them still applies when its turn comes, and what they make together is  *)
(* told element by element.                                                *)
(***************************************************************************)

NodeKinds == {"InsertNode", "EraseNode", "UpdateNode"}
EdgeKinds == {"InsertEdge", "EraseEdge", "UpdateEdge"}

Changes ==
  [kind : Kinds, id : NodeIds \cup EdgeIds \cup {NoEdge},
   value : StoredNodes \cup StoredEdges \cup Nat \cup {NoEdge}]

WellTyped(change) ==
  /\ change.kind \in {"InsertNode", "UpdateNode"} =>
       change.id \in NodeIds /\ change.value \in StoredNodes
  /\ change.kind \in {"InsertEdge", "UpdateEdge"} =>
       change.id \in EdgeIds /\ change.value \in StoredEdges
  /\ change.kind = "SetGeneration" => change.value \in 0..MaxGeneration

\* What Edits returns.
AreEdits(p, kind, values) ==
  /\ p \in Seq(Changes)
  /\ \A i \in 1..Len(p) :
       /\ p[i].kind = kind
       /\ p[i].id \in DOMAIN values
       /\ p[i].value = values[p[i].id]
  /\ \A i, j \in 1..Len(p) : p[i].id = p[j].id => i = j
  /\ \A e \in DOMAIN values : \E i \in 1..Len(p) : p[i].id = e

\* The edits of a map: one for each of its keys.
LEMMA EditsAre ==
  ASSUME NEW kind \in Kinds, NEW values, IsFiniteSet(DOMAIN values),
         \A e \in DOMAIN values : e \in EdgeIds /\ values[e] \in StoredEdges \cup {NoEdge}
  PROVE  AreEdits(Edits(kind, values), kind, values)
<1>1. PICK order, n : order = InOrder(DOMAIN values) /\ n = Cardinality(DOMAIN values)
  OBVIOUS
<1>2. /\ n \in Nat
      /\ order \in [1..n -> DOMAIN values]
      /\ Len(order) = n
      /\ \A i, j \in 1..n : order[i] = order[j] => i = j
      /\ \A e \in DOMAIN values : \E i \in 1..n : order[i] = e
  <2>1. DOMAIN values \in SUBSET Nat
    BY EdgeIdsAreOrdered
  <2> QED
    BY <1>1, <2>1, InOrderIs
<1>3. PICK p : p = [i \in 1..n |-> Change(kind, order[i], values[order[i]])]
  OBVIOUS
<1>4. p = Edits(kind, values)
  BY <1>1, <1>2, <1>3 DEF Edits
<1>5. ASSUME NEW i \in 1..n
      PROVE  /\ p[i] \in Changes /\ p[i].kind = kind /\ p[i].id = order[i]
             /\ order[i] \in DOMAIN values /\ p[i].value = values[order[i]]
  <2>1. order[i] \in DOMAIN values
    BY <1>2
  <2> QED
    BY <1>3, <2>1 DEF Change, Changes
<1>6. p \in Seq(Changes) /\ Len(p) = n
  <2>1. p \in [1..n -> Changes]
    BY <1>3, <1>5
  <2>2. p \in Seq(Changes)
    BY <1>2, <2>1, SeqDef
  <2> QED
    BY <1>2, <2>1, <2>2, LenProperties
<1>7. AreEdits(p, kind, values)
  BY <1>2, <1>5, <1>6 DEF AreEdits
<1> QED
  BY <1>4, <1>7

\* The plan p makes the maps N2 and E2 of the maps N and E.
Makes(N, E, p, N2, E2) ==
  /\ p \in Seq(Changes)
  /\ IsMap(N2) /\ IsMap(E2)
  /\ \A i \in 1..Len(p) :
       /\ p[i].kind \in NodeKinds \cup EdgeKinds
       /\ Applies(N, E, p[i])
       /\ WellTyped(p[i])
       /\ p[i].kind \in {"InsertNode", "InsertEdge"} => Len(p) = 1
  /\ \A i, j \in 1..Len(p) :
       i # j /\ (p[i].kind \in NodeKinds <=> p[j].kind \in NodeKinds) => p[i].id # p[j].id
  /\ \A i \in 1..Len(p) :
       /\ p[i].kind \in {"InsertNode", "UpdateNode"} =>
            p[i].id \in DOMAIN N2 /\ N2[p[i].id] = p[i].value
       /\ p[i].kind = "EraseNode" => p[i].id \notin DOMAIN N2
       /\ p[i].kind \in {"InsertEdge", "UpdateEdge"} =>
            p[i].id \in DOMAIN E2 /\ E2[p[i].id] = p[i].value
       /\ p[i].kind = "EraseEdge" => p[i].id \notin DOMAIN E2
  /\ \A x : (\A i \in 1..Len(p) : p[i].kind \in NodeKinds => p[i].id # x) =>
              /\ x \in DOMAIN N <=> x \in DOMAIN N2
              /\ x \in DOMAIN N2 => N2[x] = N[x]
  /\ \A x : (\A i \in 1..Len(p) : p[i].kind \in EdgeKinds => p[i].id # x) =>
              /\ x \in DOMAIN E <=> x \in DOMAIN E2
              /\ x \in DOMAIN E2 => E2[x] = E[x]

\* A plan that is done has made the maps it was to make.
LEMMA NothingLeft ==
  ASSUME NEW N, NEW E, NEW N2, NEW E2, IsMap(N), IsMap(E), Makes(N, E, <<>>, N2, E2)
  PROVE  N2 = N /\ E2 = E
<1>1. \A x : (x \in DOMAIN N <=> x \in DOMAIN N2) /\ (x \in DOMAIN N2 => N2[x] = N[x])
  BY DEF Makes
<1>2. \A x : (x \in DOMAIN E <=> x \in DOMAIN E2) /\ (x \in DOMAIN E2 => E2[x] = E[x])
  BY DEF Makes
<1>3. IsMap(N2) /\ IsMap(E2)
  BY DEF Makes
<1>4. DOMAIN N = DOMAIN N2 /\ DOMAIN E = DOMAIN E2
  BY <1>1, <1>2
<1> QED
  BY <1>1, <1>2, <1>3, <1>4 DEF IsMap

\* The first edit of a plan.
LEMMA FirstEdit ==
  ASSUME NEW N, NEW E, NEW p, NEW N2, NEW E2, Makes(N, E, p, N2, E2), p # <<>>
  PROVE  /\ Head(p) \in Changes
         /\ Head(p) = p[1]
         /\ Applies(N, E, Head(p)) /\ WellTyped(Head(p))
         /\ Head(p).kind # "SetGeneration"
         /\ Head(p).kind \in NodeKinds \cup EdgeKinds
<1>1. p \in Seq(Changes)
  BY DEF Makes
<1>2. Head(p) = p[1] /\ Head(p) \in Changes /\ 1 \in 1..Len(p)
  BY <1>1, HeadTailProperties, EmptySeq, LenProperties
<1> QED
  BY <1>2 DEF Makes, NodeKinds, EdgeKinds

\* Those that are left make the rest.
LEMMA OneEditLess ==
  ASSUME NEW N, NEW E, NEW p, NEW N2, NEW E2, Makes(N, E, p, N2, E2), p # <<>>
  PROVE  Makes(NodesAfter(N, Head(p)), EdgesAfter(E, Head(p)), Tail(p), N2, E2)
<1>1. PICK h, t : h = Head(p) /\ t = Tail(p)
  OBVIOUS
<1>2. PICK M, F : M = NodesAfter(N, h) /\ F = EdgesAfter(E, h)
  OBVIOUS
<1>3. p \in Seq(Changes)
  BY DEF Makes
<1>4. /\ t \in Seq(Changes) /\ Len(t) \in Nat /\ Len(p) = Len(t) + 1
      /\ h = p[1] /\ 1 \in 1..Len(p)
      /\ \A i \in 1..Len(t) : i + 1 \in 1..Len(p) /\ i + 1 # 1 /\ t[i] = p[i + 1]
  <2>1. t \in Seq(Changes) /\ Len(t) = Len(p) - 1 /\ \A i \in 1..Len(t) : t[i] = p[i + 1]
    BY <1>1, <1>3, HeadTailProperties
  <2>2. Len(t) \in Nat /\ Len(p) \in Nat
    BY <2>1, <1>3, LenProperties
  <2> QED
    BY <1>1, <1>3, <2>1, <2>2, HeadTailProperties
<1>5. h.kind \in NodeKinds \cup EdgeKinds /\ Applies(N, E, h)
  BY <1>4 DEF Makes
<1>6. ASSUME NEW i \in 1..Len(t)
      PROVE  /\ t[i].kind \in NodeKinds \cup EdgeKinds
             /\ Applies(N, E, t[i]) /\ WellTyped(t[i])
             /\ t[i].kind \notin {"InsertNode", "InsertEdge"}
             /\ h.kind \notin {"InsertNode", "InsertEdge"}
             /\ (h.kind \in NodeKinds <=> t[i].kind \in NodeKinds) => h.id # t[i].id
  <2>1. Len(p) # 1
    BY <1>4
  <2> QED
    BY <1>4, <2>1 DEF Makes
<1>7. ASSUME NEW i \in 1..Len(t) PROVE Applies(M, F, t[i])
  <2>1. /\ t[i].kind \in NodeKinds =>
             t[i].id \in DOMAIN M /\ M[t[i].id] = N[t[i].id]
        /\ t[i].kind \in EdgeKinds =>
             t[i].id \in DOMAIN F /\ F[t[i].id] = E[t[i].id]
    BY <1>2, <1>5, <1>6 DEF NodeKinds, EdgeKinds, NodesAfter, EdgesAfter, Put, Drop, Without,
       Applies
  <2> QED
    BY <1>6, <2>1 DEF Applies, NodeKinds, EdgeKinds
<1>8. ASSUME NEW x, \A i \in 1..Len(t) : t[i].kind \in NodeKinds => t[i].id # x
      PROVE  /\ x \in DOMAIN M <=> x \in DOMAIN N2
             /\ x \in DOMAIN N2 => N2[x] = M[x]
  <2>1. CASE h.kind \in NodeKinds /\ h.id = x
    <3>1. /\ h.kind \in {"InsertNode", "UpdateNode"} => x \in DOMAIN N2 /\ N2[x] = h.value
          /\ h.kind = "EraseNode" => x \notin DOMAIN N2
      BY <1>4, <2>1 DEF Makes
    <3> QED
      BY <1>2, <2>1, <3>1 DEF NodeKinds, NodesAfter, Put, Drop, Without
  <2>2. CASE ~(h.kind \in NodeKinds /\ h.id = x)
    <3>1. \A j \in 1..Len(p) : j = 1 \/ \E i \in 1..Len(t) : t[i] = p[j]
      <4> SUFFICES ASSUME NEW j \in 1..Len(p), j # 1 PROVE \E i \in 1..Len(t) : t[i] = p[j]
        OBVIOUS
      <4>1. j - 1 \in 1..Len(t) /\ t[j - 1] = p[(j - 1) + 1] /\ (j - 1) + 1 = j
        BY <1>4
      <4> QED
        BY <4>1
    <3>2. \A j \in 1..Len(p) : p[j].kind \in NodeKinds => p[j].id # x
      BY <1>4, <1>8, <2>2, <3>1
    <3>3. (x \in DOMAIN N <=> x \in DOMAIN N2) /\ (x \in DOMAIN N2 => N2[x] = N[x])
      BY <3>2 DEF Makes
    <3> QED
      BY <1>2, <2>2, <3>3 DEF NodeKinds, NodesAfter, Put, Drop, Without
  <2> QED
    BY <2>1, <2>2
<1>9. ASSUME NEW x, \A i \in 1..Len(t) : t[i].kind \in EdgeKinds => t[i].id # x
      PROVE  /\ x \in DOMAIN F <=> x \in DOMAIN E2
             /\ x \in DOMAIN E2 => E2[x] = F[x]
  <2>1. CASE h.kind \in EdgeKinds /\ h.id = x
    <3>1. /\ h.kind \in {"InsertEdge", "UpdateEdge"} => x \in DOMAIN E2 /\ E2[x] = h.value
          /\ h.kind = "EraseEdge" => x \notin DOMAIN E2
      BY <1>4, <2>1 DEF Makes
    <3> QED
      BY <1>2, <2>1, <3>1 DEF EdgeKinds, EdgesAfter, Put, Drop, Without
  <2>2. CASE ~(h.kind \in EdgeKinds /\ h.id = x)
    <3>1. \A j \in 1..Len(p) : j = 1 \/ \E i \in 1..Len(t) : t[i] = p[j]
      <4> SUFFICES ASSUME NEW j \in 1..Len(p), j # 1 PROVE \E i \in 1..Len(t) : t[i] = p[j]
        OBVIOUS
      <4>1. j - 1 \in 1..Len(t) /\ t[j - 1] = p[(j - 1) + 1] /\ (j - 1) + 1 = j
        BY <1>4
      <4> QED
        BY <4>1
    <3>2. \A j \in 1..Len(p) : p[j].kind \in EdgeKinds => p[j].id # x
      BY <1>4, <1>9, <2>2, <3>1
    <3>3. (x \in DOMAIN E <=> x \in DOMAIN E2) /\ (x \in DOMAIN E2 => E2[x] = E[x])
      BY <3>2 DEF Makes
    <3> QED
      BY <1>2, <2>2, <3>3 DEF EdgeKinds, EdgesAfter, Put, Drop, Without
  <2> QED
    BY <2>1, <2>2
<1>10. \A i, j \in 1..Len(t) :
         i # j /\ (t[i].kind \in NodeKinds <=> t[j].kind \in NodeKinds) => t[i].id # t[j].id
  <2> SUFFICES ASSUME NEW i \in 1..Len(t), NEW j \in 1..Len(t), i # j,
                      t[i].kind \in NodeKinds <=> t[j].kind \in NodeKinds
               PROVE  t[i].id # t[j].id
    OBVIOUS
  <2>1. i + 1 \in 1..Len(p) /\ j + 1 \in 1..Len(p) /\ i + 1 # j + 1
        /\ t[i] = p[i + 1] /\ t[j] = p[j + 1]
    BY <1>4
  <2> QED
    BY <2>1 DEF Makes
<1>11. \A i \in 1..Len(t) :
         /\ t[i].kind \in {"InsertNode", "UpdateNode"} =>
              t[i].id \in DOMAIN N2 /\ N2[t[i].id] = t[i].value
         /\ t[i].kind = "EraseNode" => t[i].id \notin DOMAIN N2
         /\ t[i].kind \in {"InsertEdge", "UpdateEdge"} =>
              t[i].id \in DOMAIN E2 /\ E2[t[i].id] = t[i].value
         /\ t[i].kind = "EraseEdge" => t[i].id \notin DOMAIN E2
  BY <1>4 DEF Makes
<1>12. IsMap(N2) /\ IsMap(E2)
  BY DEF Makes
<1>13. Makes(M, F, t, N2, E2)
  BY <1>4, <1>6, <1>7, <1>8, <1>9, <1>10, <1>11, <1>12 DEF Makes
<1> QED
  BY <1>1, <1>2, <1>13

-----------------------------------------------------------------------------
\* Graphs whose indexes are those of their maps.

TypedMaps(N, E) ==
  /\ IsFiniteSet(DOMAIN N) /\ IsFiniteSet(DOMAIN E)
  /\ DOMAIN N \subseteq NodeIds /\ DOMAIN E \subseteq EdgeIds
  /\ \A n \in DOMAIN N : N[n] \in StoredNodes
  /\ \A e \in DOMAIN E : E[e] \in StoredEdges

\* verify_indexes holds of G.
Good(G) ==
  /\ G = Indexed(G.nodes, G.edges, G.generation)
  /\ Keyed(G.nodes, G.edges)
  /\ TypedMaps(G.nodes, G.edges)
  /\ G.generation \in 0..MaxGeneration

GoodChange(G, change) ==
  /\ change \in Changes
  /\ Applies(G.nodes, G.edges, change)
  /\ WellTyped(change)

\* A change that applies leaves a graph whose indexes fit.
LEMMA GoodEdit ==
  ASSUME NEW G, Good(G), NEW change, GoodChange(G, change)
  PROVE  /\ Good(Edit(G, change))
         /\ Edit(G, change).nodes = NodesAfter(G.nodes, change)
         /\ Edit(G, change).edges = EdgesAfter(G.edges, change)
         /\ Edit(G, change).generation = GenerationAfter(G.generation, change)
<1>1. PICK N, E, g : N = G.nodes /\ E = G.edges /\ g = G.generation
  OBVIOUS
<1>2. PICK M, F, h : M = NodesAfter(N, change) /\ F = EdgesAfter(E, change)
                     /\ h = GenerationAfter(g, change)
  OBVIOUS
<1>3. Keyed(N, E) /\ Applies(N, E, change) /\ TypedMaps(N, E) /\ WellTyped(change)
      /\ g \in 0..MaxGeneration /\ G = Indexed(N, E, g)
  BY <1>1 DEF Good, GoodChange
<1>4. Edit(G, change) = Indexed(M, F, h)
  BY <1>2, <1>3, EditIs
<1>5. Keyed(M, F)
  BY <1>2, <1>3, EditKeepsKeys
<1>6. TypedMaps(M, F)
  <2>1. IsFiniteSet(DOMAIN M)
    <3>1. IsFiniteSet(DOMAIN N \cup {change.id}) /\ IsFiniteSet(DOMAIN N \ {change.id})
      BY <1>3, FS_AddElement, FS_RemoveElement DEF TypedMaps
    <3>2. DOMAIN M \in {DOMAIN N, DOMAIN N \cup {change.id}, DOMAIN N \ {change.id}}
      BY <1>2 DEF NodesAfter, Put, Drop, Without
    <3> QED
      BY <1>3, <3>1, <3>2 DEF TypedMaps
  <2>2. IsFiniteSet(DOMAIN F)
    <3>1. IsFiniteSet(DOMAIN E \cup {change.id}) /\ IsFiniteSet(DOMAIN E \ {change.id})
      BY <1>3, FS_AddElement, FS_RemoveElement DEF TypedMaps
    <3>2. DOMAIN F \in {DOMAIN E, DOMAIN E \cup {change.id}, DOMAIN E \ {change.id}}
      BY <1>2 DEF EdgesAfter, Put, Drop, Without
    <3> QED
      BY <1>3, <3>1, <3>2 DEF TypedMaps
  <2>3. DOMAIN M \subseteq NodeIds /\ \A n \in DOMAIN M : M[n] \in StoredNodes
    BY <1>2, <1>3 DEF TypedMaps, WellTyped, NodesAfter, Put, Drop, Without
  <2>4. DOMAIN F \subseteq EdgeIds /\ \A e \in DOMAIN F : F[e] \in StoredEdges
    BY <1>2, <1>3 DEF TypedMaps, WellTyped, EdgesAfter, Put, Drop, Without
  <2> QED
    BY <2>1, <2>2, <2>3, <2>4 DEF TypedMaps
<1>7. h \in 0..MaxGeneration
  BY <1>2, <1>3 DEF GenerationAfter, WellTyped
<1>8. PICK H : H = Edit(G, change)
  OBVIOUS
<1>9. H.nodes = M /\ H.edges = F /\ H.generation = h /\ H = Indexed(M, F, h)
  BY <1>4, <1>8 DEF Indexed
<1>10. Good(H)
  BY <1>5, <1>6, <1>7, <1>9 DEF Good
<1> QED
  BY <1>1, <1>2, <1>8, <1>9, <1>10

\* The entry noted for an edit takes it back.
LEMMA GoodUndo ==
  ASSUME NEW G, Good(G), NEW change, GoodChange(G, change)
  PROVE  /\ UndoOf(G, change) \in Changes
         /\ Edit(Edit(G, change), UndoOf(G, change)) = G
<1>1. Edit(Edit(G, change), UndoOf(G, change)) = G
  <2>1. PICK N, E, g : N = G.nodes /\ E = G.edges /\ g = G.generation
    OBVIOUS
  <2>2. Keyed(N, E) /\ Applies(N, E, change) /\ G = Indexed(N, E, g)
    BY <2>1 DEF Good, GoodChange
  <2> QED
    BY <2>2, UndoRestores
<1>2. change.kind \in NodeKinds => change.id \in NodeIds
  BY DEF NodeKinds, GoodChange, Good, TypedMaps, WellTyped, Applies
<1>3. change.kind \in {"EraseNode", "UpdateNode"} => G.nodes[change.id] \in StoredNodes
  BY DEF GoodChange, Good, TypedMaps, Applies
<1>4. change.kind \in EdgeKinds => change.id \in EdgeIds
  BY DEF EdgeKinds, GoodChange, Good, TypedMaps, WellTyped, Applies
<1>5. change.kind \in {"EraseEdge", "UpdateEdge"} => G.edges[change.id] \in StoredEdges
  BY DEF GoodChange, Good, TypedMaps, Applies
<1>6. G.generation \in Nat
  BY DEF Good
<1>7. \A kind \in Kinds, id \in NodeIds \cup EdgeIds \cup {NoEdge},
         value \in StoredNodes \cup StoredEdges \cup Nat \cup {NoEdge} :
        Change(kind, id, value) \in Changes
  BY DEF Change, Changes
<1>8. change.kind \in Kinds
  BY DEF GoodChange, Applies
<1>9. UndoOf(G, change) \in Changes
  BY <1>2, <1>3, <1>4, <1>5, <1>6, <1>7, <1>8 DEF UndoOf, Kinds, NodeKinds, EdgeKinds
<1> QED
  BY <1>1, <1>9

-----------------------------------------------------------------------------
(***************************************************************************)
(* The undo log.  It was kept along a chain of edits that leads from the   *)
(* graph the transaction began with to the graph it has made.              *)
(***************************************************************************)

Logged(start, log, G) ==
  /\ log \in Seq(Changes)
  /\ \E chain, done :
       /\ chain[0] = start
       /\ chain[Len(log)] = G
       /\ \A i \in 1..Len(log) :
            /\ Good(chain[i - 1])
            /\ GoodChange(chain[i - 1], done[i])
            /\ chain[i] = Edit(chain[i - 1], done[i])
            /\ log[i] = UndoOf(chain[i - 1], done[i])

\* The empty log leads from a graph to itself.
LEMMA LogBegins ==
  ASSUME NEW start
  PROVE  Logged(start, <<>>, start)
<1> DEFINE chain == [i \in {0} |-> start]
<1>1. chain[0] = start /\ Len(<<>>) = 0 /\ <<>> \in Seq(Changes)
  BY EmptySeq
<1>2. \A i : i \notin 1..0
  OBVIOUS
<1> HIDE DEF chain
<1>3. PICK log : log = <<>>
  OBVIOUS
<1>4. Logged(start, log, start)
  BY <1>1, <1>2, <1>3 DEF Logged
<1> QED
  BY <1>3, <1>4

\* note_*, then the edit.
LEMMA LogGrows ==
  ASSUME NEW start, NEW log, NEW G, Logged(start, log, G), Good(G),
         NEW change, GoodChange(G, change)
  PROVE  Logged(start, Append(log, UndoOf(G, change)), Edit(G, change))
<1>1. PICK chain, done :
        /\ chain[0] = start
        /\ chain[Len(log)] = G
        /\ \A i \in 1..Len(log) :
             /\ Good(chain[i - 1])
             /\ GoodChange(chain[i - 1], done[i])
             /\ chain[i] = Edit(chain[i - 1], done[i])
             /\ log[i] = UndoOf(chain[i - 1], done[i])
  BY DEF Logged
<1>2. PICK undo, H : undo = UndoOf(G, change) /\ H = Edit(G, change)
  OBVIOUS
<1>3. PICK n, longer : n = Len(log) /\ longer = Append(log, undo)
  OBVIOUS
<1>4. log \in Seq(Changes) /\ undo \in Changes
  BY <1>2, GoodUndo DEF Logged
<1>5. /\ n \in Nat /\ longer \in Seq(Changes) /\ Len(longer) = n + 1
      /\ \A i \in 1..n : longer[i] = log[i]
      /\ longer[n + 1] = undo
  BY <1>3, <1>4, AppendProperties, LenProperties
<1> DEFINE chain2 == [i \in 0..(n + 1) |-> IF i = n + 1 THEN H ELSE chain[i]]
           done2 == [i \in 1..(n + 1) |-> IF i = n + 1 THEN change ELSE done[i]]
<1>6. chain2[0] = start /\ chain2[n + 1] = H
  BY <1>1, <1>5
<1>7. ASSUME NEW i \in 1..(n + 1)
      PROVE  /\ Good(chain2[i - 1])
             /\ GoodChange(chain2[i - 1], done2[i])
             /\ chain2[i] = Edit(chain2[i - 1], done2[i])
             /\ longer[i] = UndoOf(chain2[i - 1], done2[i])
  <2>1. CASE i = n + 1
    <3>1. chain2[i - 1] = G /\ chain2[i] = H /\ done2[i] = change /\ longer[i] = undo
      BY <1>1, <1>3, <1>5, <2>1
    <3> HIDE DEF chain2, done2
    <3> QED
      BY <1>2, <3>1
  <2>2. CASE i # n + 1
    <3>1. i \in 1..n
      BY <1>5, <2>2
    <3>2. chain2[i - 1] = chain[i - 1] /\ chain2[i] = chain[i] /\ done2[i] = done[i]
          /\ longer[i] = log[i]
      BY <1>5, <3>1
    <3> HIDE DEF chain2, done2
    <3> QED
      BY <1>1, <1>3, <3>1, <3>2
  <2> QED
    BY <2>1, <2>2
<1> HIDE DEF chain2, done2
<1>8. Logged(start, longer, H)
  BY <1>5, <1>6, <1>7 DEF Logged
<1> QED
  BY <1>2, <1>3, <1>8

\* rollback takes the newest entry; after the last one the graph is the one the
\* transaction began with.
LEMMA LogShrinks ==
  ASSUME NEW start, NEW log, NEW G, Logged(start, log, G), log # <<>>
  PROVE  /\ Len(log) \in Nat \ {0}
         /\ Good(Edit(G, Last(log)))
         /\ Logged(start, Front(log), Edit(G, Last(log)))
         /\ Len(log) = 1 => Edit(G, Last(log)) = start
         /\ Len(log) # 1 => Front(log) # <<>>
<1>1. PICK chain, done :
        /\ chain[0] = start
        /\ chain[Len(log)] = G
        /\ \A i \in 1..Len(log) :
             /\ Good(chain[i - 1])
             /\ GoodChange(chain[i - 1], done[i])
             /\ chain[i] = Edit(chain[i - 1], done[i])
             /\ log[i] = UndoOf(chain[i - 1], done[i])
  BY DEF Logged
<1>2. PICK n : n = Len(log)
  OBVIOUS
<1>3. log \in Seq(Changes) /\ n \in Nat /\ n # 0
  BY <1>2, LenProperties, EmptySeq DEF Logged
<1>4. PICK front : front = Front(log)
  OBVIOUS
<1>5. \A i \in 1..(n - 1) : log[i] \in Changes
  BY <1>2, <1>3, LenProperties
<1>6. /\ front \in Seq(Changes) /\ Len(front) = n - 1
      /\ \A i \in 1..(n - 1) : front[i] = log[i]
  <2>1. front = SubSeq(log, 1, n - 1) /\ 1 \in Int /\ n - 1 \in Int
    BY <1>2, <1>3, <1>4 DEF Front
  <2>2. /\ front \in Seq(Changes)
        /\ Len(front) = IF 1 <= n - 1 THEN (n - 1) - 1 + 1 ELSE 0
        /\ \A i \in 1..((n - 1) - 1 + 1) : front[i] = log[1 + i - 1]
    BY <1>5, <2>1, SubSeqProperties
  <2>3. Len(front) = n - 1
    BY <1>3, <2>2
  <2>4. ASSUME NEW i \in 1..(n - 1) PROVE front[i] = log[i]
    <3>1. i \in 1..((n - 1) - 1 + 1) /\ 1 + i - 1 = i
      BY <1>3
    <3> QED
      BY <2>2, <3>1
  <2> QED
    BY <2>2, <2>3, <2>4
<1>7. Edit(G, Last(log)) = chain[n - 1] /\ Good(chain[n - 1])
  <2>1. n \in 1..n /\ Last(log) = log[n]
    BY <1>2, <1>3 DEF Last
  <2>2. /\ Good(chain[n - 1]) /\ GoodChange(chain[n - 1], done[n])
        /\ G = Edit(chain[n - 1], done[n])
        /\ log[n] = UndoOf(chain[n - 1], done[n])
    BY <1>1, <1>2, <2>1
  <2> QED
    BY <2>1, <2>2, GoodUndo
<1>8. Logged(start, front, chain[n - 1])
  <2>1. \A i \in 1..(n - 1) :
            /\ Good(chain[i - 1])
            /\ GoodChange(chain[i - 1], done[i])
            /\ chain[i] = Edit(chain[i - 1], done[i])
            /\ front[i] = UndoOf(chain[i - 1], done[i])
    BY <1>1, <1>2, <1>3, <1>6
  <2> QED
    BY <1>1, <1>6, <2>1 DEF Logged
<1>9. n # 1 => front # <<>>
  BY <1>3, <1>6, EmptySeq
<1> QED
  BY <1>1, <1>2, <1>3, <1>4, <1>7, <1>8, <1>9

-----------------------------------------------------------------------------
\* What the plans of the operations make.

\* The edges of E with the values of some of them replaced.
Overlaid(E, values) == [e \in DOMAIN E |-> IF e \in DOMAIN values THEN values[e] ELSE E[e]]

\* One change.
LEMMA MakesOne ==
  ASSUME NEW N, NEW E, IsMap(N), IsMap(E), NEW change \in Changes,
         change.kind \in NodeKinds \cup EdgeKinds, Applies(N, E, change), WellTyped(change)
  PROVE  Makes(N, E, <<change>>, NodesAfter(N, change), EdgesAfter(E, change))
<1>1. PICK p : p = <<change>>
  OBVIOUS
<1>2. p \in Seq(Changes) /\ Len(p) = 1 /\ p[1] = change
  BY <1>1
<1>3. PICK M, F : M = NodesAfter(N, change) /\ F = EdgesAfter(E, change)
  OBVIOUS
<1>4. IsMap(M) /\ IsMap(F)
  BY <1>3 DEF NodesAfter, EdgesAfter, IsMap, Put, Drop, Without
<1>5. /\ change.kind \in {"InsertNode", "UpdateNode"} =>
           change.id \in DOMAIN M /\ M[change.id] = change.value
      /\ change.kind = "EraseNode" => change.id \notin DOMAIN M
      /\ change.kind \in {"InsertEdge", "UpdateEdge"} =>
           change.id \in DOMAIN F /\ F[change.id] = change.value
      /\ change.kind = "EraseEdge" => change.id \notin DOMAIN F
  BY <1>3 DEF NodesAfter, EdgesAfter, Put, Drop, Without
<1>6. \A x : (change.kind \in NodeKinds => change.id # x) =>
              (x \in DOMAIN N <=> x \in DOMAIN M) /\ (x \in DOMAIN M => M[x] = N[x])
  BY <1>3 DEF NodeKinds, NodesAfter, Put, Drop, Without
<1>7. \A x : (change.kind \in EdgeKinds => change.id # x) =>
              (x \in DOMAIN E <=> x \in DOMAIN F) /\ (x \in DOMAIN F => F[x] = E[x])
  BY <1>3 DEF EdgeKinds, EdgesAfter, Put, Drop, Without
<1>8. \A i \in 1..Len(p) : i = 1
  BY <1>2
<1>9. 1 \in 1..Len(p)
  BY <1>2
<1>10. Makes(N, E, p, M, F)
  BY <1>2, <1>4, <1>5, <1>6, <1>7, <1>8, <1>9 DEF Makes
<1> QED
  BY <1>1, <1>3, <1>10

\* Updates of edges.
LEMMA MakesOverlay ==
  ASSUME NEW N, NEW E, IsMap(N), IsMap(E), NEW p, NEW values, AreEdits(p, "UpdateEdge", values),
         \A e \in DOMAIN values : /\ e \in DOMAIN E /\ e \in EdgeIds
                                  /\ values[e] \in StoredEdges /\ KeyOf(values[e]) = KeyOf(E[e])
  PROVE  Makes(N, E, p, N, Overlaid(E, values))
<1>1. PICK F : F = Overlaid(E, values)
  OBVIOUS
<1>2. /\ IsMap(F) /\ DOMAIN F = DOMAIN E
      /\ \A e \in DOMAIN values : F[e] = values[e]
      /\ \A e \in DOMAIN E : e \notin DOMAIN values => F[e] = E[e]
  BY <1>1 DEF Overlaid, IsMap
<1>3. \A i \in 1..Len(p) : p[i].kind = "UpdateEdge" /\ p[i].id \in DOMAIN values
                           /\ p[i].value = values[p[i].id]
  BY DEF AreEdits
<1>4. \A i \in 1..Len(p) : Applies(N, E, p[i]) /\ WellTyped(p[i])
  BY <1>3 DEF Applies, WellTyped, Kinds
<1>5. \A x : (\A i \in 1..Len(p) : p[i].kind \in EdgeKinds => p[i].id # x) => x \notin DOMAIN values
  BY <1>3 DEF AreEdits, EdgeKinds
<1>6. \A i \in 1..Len(p) :
        /\ p[i].kind \notin NodeKinds /\ p[i].kind \in EdgeKinds /\ p[i].kind = "UpdateEdge"
        /\ p[i].id \in DOMAIN F /\ F[p[i].id] = p[i].value
  BY <1>2, <1>3 DEF NodeKinds, EdgeKinds
<1>7. \A x : x \notin DOMAIN values =>
              (x \in DOMAIN E <=> x \in DOMAIN F) /\ (x \in DOMAIN F => F[x] = E[x])
  BY <1>1 DEF Overlaid
<1>8. p \in Seq(Changes) /\ \A i, j \in 1..Len(p) : i # j => p[i].id # p[j].id
  BY DEF AreEdits
<1>9. Makes(N, E, p, N, F)
  BY <1>2, <1>4, <1>5, <1>6, <1>7, <1>8 DEF Makes
<1> QED
  BY <1>1, <1>9

\* Edits of edges, with one of a node before or after them.
AreEditsWith(p, change, kind, values) ==
  /\ p \in Seq(Changes)
  /\ \A i \in 1..Len(p) :
       \/ p[i] = change
       \/ p[i].kind = kind /\ p[i].id \in DOMAIN values /\ p[i].value = values[p[i].id]
  /\ \A i, j \in 1..Len(p) : i # j =>
       ~(p[i] = change /\ p[j] = change) /\ (p[i] # change /\ p[j] # change => p[i].id # p[j].id)
  /\ \E i \in 1..Len(p) : p[i] = change
  /\ \A e \in DOMAIN values : \E i \in 1..Len(p) : p[i].kind = kind /\ p[i].id = e

\* The edit of a node before those of edges (AddNodePlan).
LEMMA NodeFirst ==
  ASSUME NEW q, NEW kind \in EdgeKinds, NEW values, AreEdits(q, kind, values),
         NEW change \in Changes, change.kind \in NodeKinds
  PROVE  AreEditsWith(<<change>> \o q, change, kind, values)
<1>1. PICK p, n : p = <<change>> \o q /\ n = Len(q)
  OBVIOUS
<1>2. q \in Seq(Changes) /\ n \in Nat /\ <<change>> \in Seq(Changes)
      /\ Len(<<change>>) = 1 /\ <<change>>[1] = change
  BY <1>1, LenProperties DEF AreEdits
<1>3. /\ p \in Seq(Changes) /\ Len(p) = 1 + n
      /\ \A i \in 1..(1 + n) : p[i] = IF i <= 1 THEN <<change>>[i] ELSE q[i - 1]
  BY <1>1, <1>2, ConcatProperties
<1>4. p[1] = change /\ 1 \in 1..Len(p)
  BY <1>2, <1>3
<1>5. ASSUME NEW i \in 1..Len(p), i # 1
      PROVE  i - 1 \in 1..n /\ p[i] = q[i - 1]
  BY <1>2, <1>3, <1>5
<1>6. ASSUME NEW j \in 1..n PROVE j + 1 \in 1..Len(p) /\ j + 1 # 1 /\ p[j + 1] = q[j]
  BY <1>2, <1>3
<1>7. \A j \in 1..n : q[j].kind = kind /\ q[j] # change /\ q[j].id \in DOMAIN values
                      /\ q[j].value = values[q[j].id]
  BY <1>1 DEF AreEdits, NodeKinds, EdgeKinds
<1>8. \A i, j \in 1..Len(p) : i # j =>
       ~(p[i] = change /\ p[j] = change) /\ (p[i] # change /\ p[j] # change => p[i].id # p[j].id)
  <2> SUFFICES ASSUME NEW i \in 1..Len(p), NEW j \in 1..Len(p), i # j
               PROVE  /\ ~(p[i] = change /\ p[j] = change)
                      /\ p[i] # change /\ p[j] # change => p[i].id # p[j].id
    OBVIOUS
  <2>1. CASE i = 1 \/ j = 1
    BY <1>4, <1>5, <1>7, <2>1
  <2>2. CASE i # 1 /\ j # 1
    <3>1. i - 1 \in 1..n /\ p[i] = q[i - 1] /\ j - 1 \in 1..n /\ p[j] = q[j - 1] /\ i - 1 # j - 1
      BY <1>5, <2>2
    <3> QED
      BY <1>1, <1>7, <3>1 DEF AreEdits
  <2> QED
    BY <2>1, <2>2
<1>9. \A e \in DOMAIN values : \E i \in 1..Len(p) : p[i].kind = kind /\ p[i].id = e
  <2> SUFFICES ASSUME NEW e \in DOMAIN values
               PROVE  \E i \in 1..Len(p) : p[i].kind = kind /\ p[i].id = e
    OBVIOUS
  <2>1. PICK j \in 1..n : q[j].id = e
    BY <1>1 DEF AreEdits
  <2> QED
    BY <1>6, <1>7, <2>1
<1>10. AreEditsWith(p, change, kind, values)
  BY <1>3, <1>4, <1>5, <1>7, <1>8, <1>9 DEF AreEditsWith
<1> QED
  BY <1>1, <1>10

\* The edit of a node after those of edges (RemoveNodePlan).
LEMMA NodeLast ==
  ASSUME NEW q, NEW kind \in EdgeKinds, NEW values, AreEdits(q, kind, values),
         NEW change \in Changes, change.kind \in NodeKinds
  PROVE  AreEditsWith(q \o <<change>>, change, kind, values)
<1>1. PICK p, n : p = q \o <<change>> /\ n = Len(q)
  OBVIOUS
<1>2. q \in Seq(Changes) /\ n \in Nat /\ <<change>> \in Seq(Changes)
      /\ Len(<<change>>) = 1 /\ <<change>>[1] = change
  BY <1>1, LenProperties DEF AreEdits
<1>3. /\ p \in Seq(Changes) /\ Len(p) = n + 1
      /\ \A i \in 1..(n + 1) : p[i] = IF i <= n THEN q[i] ELSE <<change>>[i - n]
  BY <1>1, <1>2, ConcatProperties
<1>4. p[n + 1] = change /\ n + 1 \in 1..Len(p)
  <2>1. n + 1 \in 1..(n + 1) /\ ~(n + 1 <= n) /\ (n + 1) - n = 1
    BY <1>2
  <2> QED
    BY <1>2, <1>3, <2>1
<1>5. ASSUME NEW i \in 1..Len(p), i # n + 1
      PROVE  i \in 1..n /\ p[i] = q[i]
  BY <1>2, <1>3, <1>5
<1>6. ASSUME NEW j \in 1..n PROVE j \in 1..Len(p) /\ j # n + 1 /\ p[j] = q[j]
  BY <1>2, <1>3
<1>7. \A j \in 1..n : q[j].kind = kind /\ q[j] # change /\ q[j].id \in DOMAIN values
                      /\ q[j].value = values[q[j].id]
  BY <1>1 DEF AreEdits, NodeKinds, EdgeKinds
<1>8. \A i, j \in 1..Len(p) : i # j =>
       ~(p[i] = change /\ p[j] = change) /\ (p[i] # change /\ p[j] # change => p[i].id # p[j].id)
  <2> SUFFICES ASSUME NEW i \in 1..Len(p), NEW j \in 1..Len(p), i # j
               PROVE  /\ ~(p[i] = change /\ p[j] = change)
                      /\ p[i] # change /\ p[j] # change => p[i].id # p[j].id
    OBVIOUS
  <2>1. CASE i = n + 1 \/ j = n + 1
    BY <1>4, <1>5, <1>7, <2>1
  <2>2. CASE i # n + 1 /\ j # n + 1
    <3>1. i \in 1..n /\ p[i] = q[i] /\ j \in 1..n /\ p[j] = q[j]
      BY <1>5, <2>2
    <3> QED
      BY <1>1, <1>7, <3>1 DEF AreEdits
  <2> QED
    BY <2>1, <2>2
<1>9. \A e \in DOMAIN values : \E i \in 1..Len(p) : p[i].kind = kind /\ p[i].id = e
  <2> SUFFICES ASSUME NEW e \in DOMAIN values
               PROVE  \E i \in 1..Len(p) : p[i].kind = kind /\ p[i].id = e
    OBVIOUS
  <2>1. PICK j \in 1..n : q[j].id = e
    BY <1>1 DEF AreEdits
  <2> QED
    BY <1>6, <1>7, <2>1
<1>10. AreEditsWith(p, change, kind, values)
  BY <1>3, <1>4, <1>5, <1>7, <1>8, <1>9 DEF AreEditsWith
<1> QED
  BY <1>1, <1>10

\* A node that is refreshed, and edges at it.
LEMMA MakesRefresh ==
  ASSUME NEW N, NEW E, IsMap(N), IsMap(E), NEW change, NEW p, NEW values,
         change.kind = "UpdateNode", Applies(N, E, change), WellTyped(change),
         AreEditsWith(p, change, "UpdateEdge", values),
         \A e \in DOMAIN values : /\ e \in DOMAIN E /\ e \in EdgeIds
                                  /\ values[e] \in StoredEdges /\ KeyOf(values[e]) = KeyOf(E[e])
  PROVE  Makes(N, E, p, Put(N, change.id, change.value), Overlaid(E, values))
<1>1. PICK M, F : M = Put(N, change.id, change.value) /\ F = Overlaid(E, values)
  OBVIOUS
<1>2. /\ IsMap(F) /\ DOMAIN F = DOMAIN E
      /\ \A e \in DOMAIN values : F[e] = values[e]
      /\ \A e \in DOMAIN E : e \notin DOMAIN values => F[e] = E[e]
  BY <1>1 DEF Overlaid, IsMap
<1>3. IsMap(M) /\ change.id \in DOMAIN M /\ M[change.id] = change.value
      /\ \A x : x # change.id =>
           (x \in DOMAIN N <=> x \in DOMAIN M) /\ (x \in DOMAIN M => M[x] = N[x])
  BY <1>1 DEF Put, IsMap
<1>4. \A i \in 1..Len(p) :
        \/ p[i] = change
        \/ /\ p[i] # change /\ p[i].kind = "UpdateEdge" /\ p[i].id \in DOMAIN values
           /\ p[i].value = values[p[i].id]
  BY DEF AreEditsWith
<1>5. \A i \in 1..Len(p) : Applies(N, E, p[i]) /\ WellTyped(p[i])
  BY <1>4 DEF Applies, WellTyped, Kinds
<1>6. \A x : (\A i \in 1..Len(p) : p[i].kind \in NodeKinds => p[i].id # x) => x # change.id
  BY DEF AreEditsWith, NodeKinds
<1>7. \A x : (\A i \in 1..Len(p) : p[i].kind \in EdgeKinds => p[i].id # x) => x \notin DOMAIN values
  BY DEF AreEditsWith, EdgeKinds
<1>8. \A i, j \in 1..Len(p) :
       i # j /\ (p[i].kind \in NodeKinds <=> p[j].kind \in NodeKinds) => p[i].id # p[j].id
  BY <1>4 DEF AreEditsWith, NodeKinds
<1>9. \A i \in 1..Len(p) :
        /\ p[i].kind \in NodeKinds \cup EdgeKinds
        /\ p[i].kind \notin {"InsertNode", "EraseNode", "InsertEdge", "EraseEdge"}
        /\ p[i].kind = "UpdateNode" => p[i].id \in DOMAIN M /\ M[p[i].id] = p[i].value
        /\ p[i].kind = "UpdateEdge" => p[i].id \in DOMAIN F /\ F[p[i].id] = p[i].value
  BY <1>2, <1>3, <1>4 DEF NodeKinds, EdgeKinds
<1>10. \A x : x \notin DOMAIN values =>
              (x \in DOMAIN E <=> x \in DOMAIN F) /\ (x \in DOMAIN F => F[x] = E[x])
  BY <1>1 DEF Overlaid
<1>11. p \in Seq(Changes)
  BY DEF AreEditsWith
<1>12. Makes(N, E, p, M, F)
  BY <1>2, <1>3, <1>5, <1>6, <1>7, <1>8, <1>9, <1>10, <1>11 DEF Makes
<1> QED
  BY <1>1, <1>12

\* A node that is erased, and edges with it.
LEMMA MakesRemoval ==
  ASSUME NEW N, NEW E, IsMap(N), IsMap(E), NEW change, NEW p, NEW values,
         change.kind = "EraseNode", Applies(N, E, change),
         AreEditsWith(p, change, "EraseEdge", values), DOMAIN values \subseteq DOMAIN E
  PROVE  Makes(N, E, p, Without(N, {change.id}), Without(E, DOMAIN values))
<1>1. PICK M, F : M = Without(N, {change.id}) /\ F = Without(E, DOMAIN values)
  OBVIOUS
<1>2. IsMap(F) /\ DOMAIN F = DOMAIN E \ DOMAIN values /\ \A e \in DOMAIN F : F[e] = E[e]
  BY <1>1 DEF Without, IsMap
<1>3. IsMap(M) /\ change.id \notin DOMAIN M
      /\ \A x : x # change.id =>
           (x \in DOMAIN N <=> x \in DOMAIN M) /\ (x \in DOMAIN M => M[x] = N[x])
  BY <1>1 DEF Without, IsMap
<1>4. \A i \in 1..Len(p) :
        p[i] = change \/ (p[i] # change /\ p[i].kind = "EraseEdge" /\ p[i].id \in DOMAIN values)
  BY DEF AreEditsWith
<1>5. \A i \in 1..Len(p) : Applies(N, E, p[i]) /\ WellTyped(p[i])
  BY <1>4 DEF Applies, WellTyped, Kinds
<1>6. \A x : (\A i \in 1..Len(p) : p[i].kind \in NodeKinds => p[i].id # x) => x # change.id
  BY DEF AreEditsWith, NodeKinds
<1>7. \A x : (\A i \in 1..Len(p) : p[i].kind \in EdgeKinds => p[i].id # x) => x \notin DOMAIN values
  BY DEF AreEditsWith, EdgeKinds
<1>8. \A i, j \in 1..Len(p) :
       i # j /\ (p[i].kind \in NodeKinds <=> p[j].kind \in NodeKinds) => p[i].id # p[j].id
  BY <1>4 DEF AreEditsWith, NodeKinds
<1>9. \A i \in 1..Len(p) :
        /\ p[i].kind \in NodeKinds \cup EdgeKinds
        /\ p[i].kind \notin {"InsertNode", "UpdateNode", "InsertEdge", "UpdateEdge"}
        /\ p[i].kind = "EraseNode" => p[i].id \notin DOMAIN M
        /\ p[i].kind = "EraseEdge" => p[i].id \notin DOMAIN F
  BY <1>2, <1>3, <1>4 DEF NodeKinds, EdgeKinds
<1>10. \A x : x \notin DOMAIN values =>
              (x \in DOMAIN E <=> x \in DOMAIN F) /\ (x \in DOMAIN F => F[x] = E[x])
  BY <1>2
<1>11. p \in Seq(Changes)
  BY DEF AreEditsWith
<1>12. Makes(N, E, p, M, F)
  BY <1>2, <1>3, <1>5, <1>6, <1>7, <1>8, <1>9, <1>10, <1>11 DEF Makes
<1> QED
  BY <1>1, <1>12

-----------------------------------------------------------------------------
\* What an index says of a graph it fits.

OfPublisher(E, p) == {e \in DOMAIN E : E[e].provenance.publisher = p}
OfRelation(E, r) == {e \in DOMAIN E : E[e].relation = r}
OfAttachment(E, a) == {e \in DOMAIN E : E[e].attachment = a}

\* A lookup by index finds what a scan would.
LEMMA IndexSays ==
  ASSUME NEW G, Good(G)
  PROVE  LET N == G.nodes
             E == G.edges
         IN  /\ \A n : Bucket(G.index.incident, n) = Incident(E, n)
             /\ \A p : Bucket(G.index.byPublisher, p) = OfPublisher(E, p)
             /\ \A r : Bucket(G.index.byRelation, r) = OfRelation(E, r)
             /\ \A a \in Attachments : Bucket(G.index.byAttachment, a) = OfAttachment(E, a)
             /\ \A x : x \in DOMAIN G.index.byEntity <=> NodesOfEntity(N, x) # {}
             /\ \A n \in DOMAIN N : G.index.byEntity[N[n].entity_id] = n
             /\ \A k : k \in DOMAIN G.index.byKey <=> \E e \in DOMAIN E : KeyOf(E[e]) = k
             /\ \A e \in DOMAIN E : G.index.byKey[KeyOf(E[e])] = e
             /\ G.index.domainNodes = NodesByDomain(N)
             /\ G.index.domainEdges = EdgesByDomain(E)
<1>1. PICK N, E : N = G.nodes /\ E = G.edges
  OBVIOUS
<1>2. PICK X : X = IndexOf(N, E)
  OBVIOUS
<1>3. G.index = X /\ Keyed(N, E)
  BY <1>1, <1>2 DEF Good, Indexed
<1>4. /\ X.incident = BucketsOf(EndsOf(E)) /\ X.byPublisher = BucketsOf(PublisherOf(E))
      /\ X.byRelation = BucketsOf(RelationOf(E)) /\ X.byAttachment = BucketsOf(AttachmentOf(E))
      /\ X.byEntity = SlotsOf(EntityOf(N)) /\ X.byKey = SlotsOf(KeysOf(E))
      /\ X.domainNodes = NodesByDomain(N) /\ X.domainEdges = EdgesByDomain(E)
  BY <1>2 DEF IndexOf, IndexRecord
<1>5. \A n : Bucket(X.incident, n) = Incident(E, n)
  BY <1>4, BucketIs DEF EndsOf, UnderBoth, Incident
<1>6. \A p : Bucket(X.byPublisher, p) = OfPublisher(E, p)
  BY <1>4, BucketIs DEF PublisherOf, Under, OfPublisher
<1>7. \A r : Bucket(X.byRelation, r) = OfRelation(E, r)
  BY <1>4, BucketIs DEF RelationOf, Under, OfRelation
<1>8. \A a \in Attachments : Bucket(X.byAttachment, a) = OfAttachment(E, a)
  BY <1>4, BucketIs, NamesAreDistinct DEF AttachmentOf, UnderIfAny, OfAttachment
<1>9. /\ \A x : x \in DOMAIN X.byEntity <=> NodesOfEntity(N, x) # {}
      /\ \A n \in DOMAIN N : X.byEntity[N[n].entity_id] = n
  BY <1>3, <1>4 DEF SlotsOf, EntityOf, NodesOfEntity, Keyed, OneNodeEach
<1>10. /\ \A k : k \in DOMAIN X.byKey <=> \E e \in DOMAIN E : KeyOf(E[e]) = k
       /\ \A e \in DOMAIN E : X.byKey[KeyOf(E[e])] = e
  BY <1>3, <1>4 DEF SlotsOf, KeysOf, Keyed, OneEdgeEach
<1> QED
  BY <1>1, <1>3, <1>4, <1>5, <1>6, <1>7, <1>8, <1>9, <1>10

-----------------------------------------------------------------------------
(***************************************************************************)
(* The operators of the contract, which is stated over the same graphs.    *)
(***************************************************************************)

\* The maps the contract makes.
LEMMA SameMaps ==
  /\ \A f, k, v : Atomic!Put(f, k, v) = Put(f, k, v)
  /\ \A f, K : Atomic!Without(f, K) = Without(f, K)
  /\ \A N, x : Atomic!NodesOfEntity(N, x) = NodesOfEntity(N, x)
  /\ \A E, n : Atomic!Incident(E, n) = Incident(E, n)
BY DEF Atomic!Put, Put, Atomic!Without, Without, Atomic!NodesOfEntity, NodesOfEntity,
       Atomic!Incident, Incident

\* Its tests of an edge.
LEMMA SameTests ==
  /\ \A edge : Atomic!IsLive(edge) <=> IsLive(edge)
  /\ \A edge : Atomic!IsNotRetired(edge) <=> IsNotRetired(edge)
  /\ \A a, b : Atomic!SameKey(a, b) <=> SameKey(a, b)
BY DEF Atomic!IsLive, IsLive, Atomic!Terminal, Terminal, Atomic!IsNotRetired, IsNotRetired,
       Atomic!SameKey, SameKey

\* Its scopes.
LEMMA SameScopes ==
  /\ \A N, scope : Atomic!NodesInScope(N, scope) = NodesInScope(N, scope)
  /\ \A E, scope : Atomic!EdgesInScope(E, scope) = EdgesInScope(E, scope)
BY DEF Atomic!NodesInScope, NodesInScope, Atomic!NodeInScope, NodeInScope,
       Atomic!EdgesInScope, EdgesInScope, Atomic!EdgeInScope, EdgeInScope,
       Atomic!DomainsOf, DomainsOf

\* Its checks of a candidate.
LEMMA SameCandidates ==
  ASSUME NEW N, NEW E, NEW c, NEW isNew
  PROVE  Atomic!ValidCandidate(N, E, c, isNew) <=> ValidCandidate(N, E, c, isNew)
BY DEF Atomic!ValidCandidate, ValidCandidate, Atomic!Terminal, Terminal,
       Atomic!AttachmentConflict, AttachmentConflict, Atomic!WouldCreateCycle, WouldCreateCycle,
       Atomic!Reaches, Reaches, Atomic!IsClosed, IsClosed, Atomic!Leads, Leads,
       Atomic!IsLive, IsLive

\* One key is one relationship.
LEMMA KeysAre ==
  ASSUME NEW a, NEW b
  PROVE  KeyOf(a) = KeyOf(b) <=> SameKey(a, b)
BY DEF KeyOf, SameKey

\* The records the requests make are typed, and keep their identity.
LEMMA NewNodeIs ==
  ASSUME NEW req \in NodeRequests
  PROVE  /\ req.id \in NodeIds
         /\ Atomic!NewNode(req) \in StoredNodes
         /\ Atomic!NewNode(req).entity_id = req.entity_id
         /\ Atomic!NewNode(req).entity_generation = req.entity_generation
         /\ req.entity_generation \in Nat
BY StoreConstants DEF Atomic!NewNode, StoredNodes, Lifecycles

\* The generation of its own that every update advances.
LEMMA RevisedNodeIs ==
  ASSUME NEW node \in StoredNodes
  PROVE  LET new == Atomic!Revised(node)
         IN  /\ new \in StoredNodes
             /\ new.entity_id = node.entity_id /\ new.domain = node.domain
             /\ new.entity_generation = node.entity_generation
<1>1. node.revision + 1 \in Nat \ {0}
  BY DEF StoredNodes
<1> QED
  BY <1>1 DEF Atomic!Revised, StoredNodes

\* A refreshed node is the same entity's, of the generation asked for.
LEMMA RefreshedNodeIs ==
  ASSUME NEW req \in NodeRequests, NEW node \in StoredNodes, Atomic!MayRefresh(node, req)
  PROVE  LET new == Atomic!RefreshedNode(node, req)
         IN  /\ new \in StoredNodes
             /\ new.entity_id = node.entity_id /\ new.domain = node.domain
             /\ new.entity_generation = req.entity_generation
             /\ req.entity_generation >= node.entity_generation
<1>1. req.entity_generation \in Nat /\ req.tier \in Tiers
  BY StoreConstants
<1>2. PICK new : new = [node EXCEPT !.entity_generation = req.entity_generation,
                                    !.tier = req.tier, !.lifecycle = "CURRENT"]
  OBVIOUS
<1>3. /\ new \in StoredNodes
      /\ new.entity_id = node.entity_id /\ new.domain = node.domain
      /\ new.entity_generation = req.entity_generation
  BY <1>1, <1>2 DEF StoredNodes, Lifecycles
<1>4. Atomic!RefreshedNode(node, req) = Atomic!Revised(new)
  BY <1>2 DEF Atomic!RefreshedNode
<1>5. req.entity_generation >= node.entity_generation
  BY DEF Atomic!MayRefresh
<1> QED
  BY <1>3, <1>4, <1>5, RevisedNodeIs

\* An edge of the same relationship.
SameRelationship(new, edge) ==
  /\ new \in StoredEdges
  /\ KeyOf(new) = KeyOf(edge)
  /\ new.relation = edge.relation /\ new.domain = edge.domain
  /\ new.from = edge.from /\ new.to = edge.to
  /\ new.secondary_domain = edge.secondary_domain /\ new.superseded_by = edge.superseded_by

\* The generations it is bound to.
Binding(edge) == <<edge.from_entity_generation, edge.to_entity_generation>>

\* Revised edges keep all but their revision.
LEMMA RevisedEdgeIs ==
  ASSUME NEW edge \in StoredEdges
  PROVE  LET new == Atomic!Revised(edge)
         IN  /\ SameRelationship(new, edge)
             /\ new.lifecycle = edge.lifecycle /\ Binding(new) = Binding(edge)
<1>1. edge.revision + 1 \in Nat \ {0}
  BY DEF StoredEdges
<1>2. PICK new : new = Atomic!Revised(edge)
  OBVIOUS
<1>3. new \in StoredEdges
  BY <1>1, <1>2 DEF Atomic!Revised, StoredEdges
<1>4. /\ new.relation = edge.relation /\ new.from = edge.from /\ new.to = edge.to
      /\ new.domain = edge.domain /\ new.lifecycle = edge.lifecycle
      /\ new.secondary_domain = edge.secondary_domain
      /\ new.superseded_by = edge.superseded_by
      /\ new.from_entity_generation = edge.from_entity_generation
      /\ new.to_entity_generation = edge.to_entity_generation
  BY <1>2 DEF Atomic!Revised, StoredEdges
<1> QED
  BY <1>2, <1>3, <1>4 DEF SameRelationship, KeyOf, Binding

\* A retired edge is terminal.
LEMMA RetiredEdgeIs ==
  ASSUME NEW edge \in StoredEdges
  PROVE  LET new == Atomic!RetiredEdge(edge)
         IN  SameRelationship(new, edge) /\ new.lifecycle = "RETIRED" /\ ~IsLive(new)
<1>1. PICK new : new = [edge EXCEPT !.lifecycle = "RETIRED"]
  OBVIOUS
<1>2. SameRelationship(new, edge) /\ new.lifecycle = "RETIRED"
  BY <1>1 DEF StoredEdges, Lifecycles, SameRelationship, KeyOf
<1>3. Atomic!RetiredEdge(edge) = Atomic!Revised(new) /\ new \in StoredEdges
  BY <1>1, <1>2 DEF Atomic!RetiredEdge, SameRelationship
<1> QED
  BY <1>2, <1>3, RevisedEdgeIs DEF SameRelationship, IsLive, Terminal

\* So is a demoted edge still the same relationship's.
LEMMA DemotedEdgeIs ==
  ASSUME NEW edge \in StoredEdges
  PROVE  LET new == Atomic!DemotedEdge(edge)
         IN  /\ SameRelationship(new, edge)
             /\ new.lifecycle = "REVALIDATION_REQUIRED" /\ Binding(new) = Binding(edge)
<1>1. PICK new : new = [edge EXCEPT !.lifecycle = "REVALIDATION_REQUIRED"]
  OBVIOUS
<1>2. /\ SameRelationship(new, edge)
      /\ new.lifecycle = "REVALIDATION_REQUIRED" /\ Binding(new) = Binding(edge)
  BY <1>1 DEF StoredEdges, Lifecycles, SameRelationship, KeyOf, Binding
<1>3. Atomic!DemotedEdge(edge) = Atomic!Revised(new) /\ new \in StoredEdges
  BY <1>1, <1>2 DEF Atomic!DemotedEdge, SameRelationship
<1> QED
  BY <1>2, <1>3, RevisedEdgeIs DEF SameRelationship

\* And a rebound one, which carries the generation g of its end n.
LEMMA ReboundEdgeIs ==
  ASSUME NEW edge \in StoredEdges, NEW n, NEW g \in Nat
  PROVE  LET new == Atomic!ReboundEdge(edge, n, g)
         IN  /\ SameRelationship(new, edge)
             /\ new.lifecycle = "REVALIDATION_REQUIRED"
             /\ Binding(new) =
                  <<IF edge.from = n THEN g ELSE edge.from_entity_generation,
                    IF edge.to = n THEN g ELSE edge.to_entity_generation>>
<1>1. PICK from, to : from = (IF edge.from = n THEN g ELSE edge.from_entity_generation)
                     /\ to = (IF edge.to = n THEN g ELSE edge.to_entity_generation)
  OBVIOUS
<1>2. from \in Nat /\ to \in Nat
  BY <1>1 DEF StoredEdges
<1>3. PICK new : new = [edge EXCEPT !.from_entity_generation = from, !.to_entity_generation = to]
  OBVIOUS
<1>4. SameRelationship(new, edge) /\ Binding(new) = <<from, to>>
  BY <1>2, <1>3 DEF StoredEdges, SameRelationship, KeyOf, Binding
<1>5. Atomic!ReboundEdge(edge, n, g) = Atomic!DemotedEdge(new) /\ new \in StoredEdges
  BY <1>1, <1>3, <1>4 DEF Atomic!ReboundEdge, SameRelationship
<1> QED
  BY <1>1, <1>4, <1>5, DemotedEdgeIs DEF SameRelationship

\* A reasserted edge keeps its relationship, too, and is bound to its nodes.
LEMMA ReassertedEdgeIs ==
  ASSUME NEW N, \A n \in DOMAIN N : N[n] \in StoredNodes, NEW req \in LinkRequests,
         {req.from, req.to} \subseteq DOMAIN N, NEW edge \in StoredEdges
  PROVE  LET new == Atomic!ReassertedEdge(N, edge, req)
         IN  /\ SameRelationship(new, edge)
             /\ new.lifecycle = "CURRENT"
             /\ Binding(new) = <<N[req.from].entity_generation, N[req.to].entity_generation>>
<1>1. N[req.from].entity_generation \in Nat /\ N[req.to].entity_generation \in Nat
  BY DEF StoredNodes
<1>2. req.evidence_generation \in Nat /\ req.attachment \in Attachments \cup {NoAttachment}
  BY StoreConstants
<1>3. PICK new : new = [edge EXCEPT !.evidence_generation = req.evidence_generation,
                       !.attachment = req.attachment, !.lifecycle = "CURRENT",
                       !.from_entity_generation = N[req.from].entity_generation,
                       !.to_entity_generation = N[req.to].entity_generation]
  OBVIOUS
<1>4. new \in StoredEdges
  BY <1>1, <1>2, <1>3 DEF StoredEdges, Lifecycles
<1>5. /\ new.relation = edge.relation /\ new.from = edge.from /\ new.to = edge.to
      /\ new.domain = edge.domain /\ new.secondary_domain = edge.secondary_domain
      /\ new.superseded_by = edge.superseded_by /\ new.lifecycle = "CURRENT"
      /\ new.from_entity_generation = N[req.from].entity_generation
      /\ new.to_entity_generation = N[req.to].entity_generation
  BY <1>3 DEF StoredEdges
<1>6. Atomic!ReassertedEdge(N, edge, req) = Atomic!Revised(new)
  BY <1>3 DEF Atomic!ReassertedEdge
<1> QED
  BY <1>4, <1>5, <1>6, RevisedEdgeIs DEF SameRelationship, KeyOf, Binding

\* A new edge is the relationship asked for.
LEMMA NewEdgeIs ==
  ASSUME NEW N, \A n \in DOMAIN N : N[n] \in StoredNodes, NEW req \in LinkRequests,
         {req.from, req.to} \subseteq DOMAIN N, NEW epoch \in Nat
  PROVE  LET new == Atomic!NewEdge(N, req, epoch)
         IN  /\ new \in StoredEdges
             /\ req.id \in EdgeIds
             /\ KeyOf(new) = KeyOf(req)
             /\ new.from = req.from /\ new.to = req.to
             /\ new.relation = req.relation /\ new.domain = req.domain
             /\ new.secondary_domain =
                  SecondaryDomain(N[req.from].domain, N[req.to].domain, req.domain)
             /\ new.superseded_by = NoEdge /\ new.lifecycle = "CURRENT"
             /\ Binding(new) = <<N[req.from].entity_generation, N[req.to].entity_generation>>
<1>1. /\ N[req.from].entity_generation \in Nat /\ N[req.to].entity_generation \in Nat
      /\ N[req.from].domain \in Domains /\ N[req.to].domain \in Domains
  BY DEF StoredNodes
<1>2. req \in [id : EdgeIds, relation : Relations, from : NodeIds, to : NodeIds,
        domain : Domains, attachment : Attachments \cup {NoAttachment},
        exclusive : BOOLEAN, evidence_generation : Nat,
        publisher : Publishers, worker_boot : Boots]
  BY StoreConstants
<1>3. Atomic!SecondaryDomain(N[req.from].domain, N[req.to].domain, req.domain) \in Domains
  BY <1>1 DEF Atomic!SecondaryDomain
<1>4. PICK new : new = Atomic!NewEdge(N, req, epoch)
  OBVIOUS
<1>5. /\ new \in StoredEdges
      /\ req.id \in EdgeIds
      /\ new.relation = req.relation /\ new.domain = req.domain
      /\ new.from = req.from /\ new.to = req.to
  BY <1>1, <1>2, <1>3, <1>4
  DEF Atomic!NewEdge, StoredEdges, Lifecycles, Provenances
<1>6. /\ new.secondary_domain =
           SecondaryDomain(N[req.from].domain, N[req.to].domain, req.domain)
      /\ new.superseded_by = NoEdge /\ new.lifecycle = "CURRENT"
      /\ new.from_entity_generation = N[req.from].entity_generation
      /\ new.to_entity_generation = N[req.to].entity_generation
  BY <1>4 DEF Atomic!NewEdge, Atomic!SecondaryDomain, SecondaryDomain
<1> QED
  BY <1>4, <1>5, <1>6 DEF KeyOf, Binding

-----------------------------------------------------------------------------
(***************************************************************************)
(* What the contract lets a mutation make of the maps N and E.             *)
(***************************************************************************)

Rebound(N, E, req) ==
  {e \in Incident(E, req.id) :
     /\ IsLive(E[e])
     /\ ~Atomic!AwaitsAt(E[e], req.id, req.entity_generation)
     /\ N[req.id].entity_generation # req.entity_generation}

ReboundEdges(N, E, req) ==
  [e \in Rebound(N, E, req) |-> Atomic!ReboundEdge(E[e], req.id, req.entity_generation)]

DemotedEdges(E, D) == [e \in D |-> Atomic!DemotedEdge(E[e])]

CurrentOf(E, D) == {e \in D : E[e].lifecycle = "CURRENT"}

Adds(N, E, req, N2, E2) ==
  \/ /\ req.id \notin DOMAIN N
     /\ NodesOfEntity(N, req.entity_id) = {}
     /\ N2 = Put(N, req.id, Atomic!NewNode(req))
     /\ E2 = E
  \/ /\ req.id \in DOMAIN N
     /\ Atomic!MayRefresh(N[req.id], req)
     /\ N2 = Put(N, req.id, Atomic!RefreshedNode(N[req.id], req))
     /\ E2 = Overlaid(E, ReboundEdges(N, E, req))

Removes(N, E, n, N2, E2) ==
  /\ n \in DOMAIN N
  /\ N2 = Without(N, {n})
  /\ E2 = Without(E, Incident(E, n))

Links(N, E, req, epoch, N2, E2) ==
  /\ Atomic!Linkable(N, req)
  /\ N2 = N
  /\ \/ /\ req.id \notin DOMAIN E
        /\ \A e \in DOMAIN E : ~SameKey(E[e], req)
        /\ ValidCandidate(N, E, req, TRUE)
        /\ E2 = Put(E, req.id, Atomic!NewEdge(N, req, epoch))
     \/ /\ req.id \in DOMAIN E
        /\ SameKey(E[req.id], req)
        /\ Atomic!MayReassert(N, E[req.id], req)
        /\ ValidCandidate(N, E, req, FALSE)
        /\ E2 = Put(E, req.id, Atomic!ReassertedEdge(N, E[req.id], req))

Retires(N, E, e, N2, E2) ==
  /\ e \in DOMAIN E
  /\ IsNotRetired(E[e])
  /\ N2 = N
  /\ E2 = Put(E, e, Atomic!RetiredEdge(E[e]))

Demotes(N, E, D, N2, E2) ==
  /\ D # {}
  /\ N2 = N
  /\ E2 = Overlaid(E, DemotedEdges(E, D))

\* From one coordinator epoch to the same or the next.
Permits(N, E, epoch, next, N2, E2) ==
  \/ /\ next = epoch
     /\ \/ \E req \in NodeRequests : Adds(N, E, req, N2, E2)
        \/ \E n \in NodeIds : Removes(N, E, n, N2, E2)
        \/ \E req \in LinkRequests : Links(N, E, req, epoch, N2, E2)
        \/ \E e \in EdgeIds : Retires(N, E, e, N2, E2)
        \/ \E p \in Publishers : Demotes(N, E, CurrentOf(E, OfPublisher(E, p)), N2, E2)
  \/ /\ epoch < MaxEpoch
     /\ next = epoch + 1
     /\ Demotes(N, E, CurrentOf(E, DOMAIN E), N2, E2)

\* Edges lead between nodes that are there.
Sound(N, E) ==
  \A e \in DOMAIN E : E[e].from \in DOMAIN N /\ E[e].to \in DOMAIN N

\* The plan p, followed to its end, is a mutation the contract permits.
Fulfils(G, epoch, p, next) ==
  \E N2, E2 : /\ Makes(G.nodes, G.edges, p, N2, E2)
              /\ Permits(G.nodes, G.edges, epoch, next, N2, E2)
              /\ Sound(N2, E2)

-----------------------------------------------------------------------------
\* The plans that demote edges.

\* The demotion loop demotes the current edges of a set, and keeps the graph sound.
LEMMA DemotionsMake ==
  ASSUME NEW G, Good(G), Sound(G.nodes, G.edges), NEW D \in SUBSET DOMAIN G.edges, NEW p,
         p = Edits("UpdateEdge", DemotedEdges(G.edges, CurrentOf(G.edges, D)))
  PROVE  LET E2 == Overlaid(G.edges, DemotedEdges(G.edges, CurrentOf(G.edges, D)))
         IN  /\ Makes(G.nodes, G.edges, p, G.nodes, E2)
             /\ Sound(G.nodes, E2)
             /\ p = <<>> <=> CurrentOf(G.edges, D) = {}
<1>1. PICK N, E : N = G.nodes /\ E = G.edges
  OBVIOUS
<1>2. PICK values : values = DemotedEdges(E, CurrentOf(E, D))
  OBVIOUS
<1>3. IsMap(N) /\ IsMap(E) /\ TypedMaps(N, E) /\ Sound(N, E)
  BY <1>1 DEF Good, Keyed
<1>4. DOMAIN values = CurrentOf(E, D) /\ DOMAIN values \subseteq DOMAIN E
  BY <1>1, <1>2 DEF DemotedEdges, CurrentOf
<1>5. ASSUME NEW e \in DOMAIN values
      PROVE  /\ e \in DOMAIN E /\ e \in EdgeIds
             /\ SameRelationship(values[e], E[e])
             /\ IsLive(E[e])
  <2>1. e \in DOMAIN E /\ values[e] = Atomic!DemotedEdge(E[e]) /\ E[e].lifecycle = "CURRENT"
    BY <1>1, <1>2 DEF DemotedEdges, CurrentOf
  <2>2. e \in EdgeIds /\ E[e] \in StoredEdges
    BY <1>3, <2>1 DEF TypedMaps
  <2> QED
    BY <2>1, <2>2, DemotedEdgeIs DEF IsLive, Terminal
<1>6. IsFiniteSet(DOMAIN values)
  BY <1>3, <1>4, FS_Subset DEF TypedMaps
<1>7. AreEdits(p, "UpdateEdge", values)
  BY <1>1, <1>2, <1>5, <1>6, EditsAre DEF Kinds, SameRelationship
<1>8. Makes(N, E, p, N, Overlaid(E, values))
  BY <1>3, <1>5, <1>7, MakesOverlay DEF SameRelationship
<1>9. Sound(N, Overlaid(E, values))
  BY <1>3, <1>5 DEF Sound, Overlaid, SameRelationship
<1>10. p = <<>> <=> DOMAIN values = {}
  <2>1. CASE p = <<>>
    <3>1. \A i : i \notin 1..Len(p)
      BY <2>1
    <3>2. \A e \in DOMAIN values : \E i \in 1..Len(p) : p[i].id = e
      BY <1>7 DEF AreEdits
    <3> QED
      BY <2>1, <3>1, <3>2
  <2>2. CASE p # <<>>
    <3>1. p \in Seq(Changes) /\ Len(p) \in Nat /\ Len(p) # 0
      BY <1>7, <2>2, LenProperties, EmptySeq DEF AreEdits
    <3> QED
      BY <1>7, <2>2, <3>1 DEF AreEdits
  <2> QED
    BY <2>1, <2>2
<1> QED
  BY <1>1, <1>2, <1>4, <1>8, <1>9, <1>10

\* fence_publisher
LEMMA FenceFulfils ==
  ASSUME Good(store), Sound(store.nodes, store.edges), NEW q \in Publishers,
         NEW p, p = DemotePlan(Bucket(store.index.byPublisher, q)), p # <<>>
  PROVE  Fulfils(store, coordinator_epoch, p, coordinator_epoch)
<1>1. PICK G : G = store
  OBVIOUS
<1>2. PICK D : D = OfPublisher(G.edges, q)
  OBVIOUS
<1>3. Bucket(store.index.byPublisher, q) = D /\ D \in SUBSET DOMAIN G.edges
  <2>1. Bucket(G.index.byPublisher, q) = OfPublisher(G.edges, q)
    BY <1>1, IndexSays
  <2>2. OfPublisher(G.edges, q) \subseteq DOMAIN G.edges
    BY DEF OfPublisher
  <2> QED
    BY <1>1, <1>2, <2>1, <2>2
<1>4. p = Edits("UpdateEdge", DemotedEdges(G.edges, CurrentOf(G.edges, D)))
  BY <1>1, <1>3 DEF DemotePlan, DemotedEdges, CurrentOf
<1>5. PICK E2 : E2 = Overlaid(G.edges, DemotedEdges(G.edges, CurrentOf(G.edges, D)))
  OBVIOUS
<1>6. /\ Makes(G.nodes, G.edges, p, G.nodes, E2)
      /\ Sound(G.nodes, E2)
      /\ CurrentOf(G.edges, D) # {}
  BY <1>1, <1>3, <1>4, <1>5, DemotionsMake
<1>7. Permits(G.nodes, G.edges, coordinator_epoch, coordinator_epoch, G.nodes, E2)
  BY <1>2, <1>5, <1>6 DEF Permits, Demotes
<1> QED
  BY <1>1, <1>6, <1>7 DEF Fulfils

\* advance_coordinator_epoch
LEMMA EpochFulfils ==
  ASSUME Good(store), Sound(store.nodes, store.edges), coordinator_epoch < MaxEpoch,
         NEW p, p = DemotePlan(DOMAIN store.edges), p # <<>>
  PROVE  Fulfils(store, coordinator_epoch, p, coordinator_epoch + 1)
<1>1. PICK G : G = store
  OBVIOUS
<1>2. PICK D : D = DOMAIN G.edges
  OBVIOUS
<1>3. p = Edits("UpdateEdge", DemotedEdges(G.edges, CurrentOf(G.edges, D)))
  BY <1>1, <1>2 DEF DemotePlan, DemotedEdges, CurrentOf
<1>4. PICK E2 : E2 = Overlaid(G.edges, DemotedEdges(G.edges, CurrentOf(G.edges, D)))
  OBVIOUS
<1>5. /\ Makes(G.nodes, G.edges, p, G.nodes, E2)
      /\ Sound(G.nodes, E2)
      /\ CurrentOf(G.edges, D) # {}
  BY <1>1, <1>2, <1>3, <1>4, DemotionsMake
<1>6. Permits(G.nodes, G.edges, coordinator_epoch, coordinator_epoch + 1, G.nodes, E2)
  BY <1>2, <1>4, <1>5 DEF Permits, Demotes
<1> QED
  BY <1>1, <1>5, <1>6 DEF Fulfils

\* retire_relationship: only under the generation that was expected, if any was.
LEMMA RetirementFulfils ==
  ASSUME Good(store), Sound(store.nodes, store.edges), NEW e, NEW expected,
         NEW p, p = RetirePlan(e, expected), p # <<>>
  PROVE  /\ Fulfils(store, coordinator_epoch, p, coordinator_epoch)
         /\ e \in DOMAIN store.edges
         /\ expected # 0 => expected = store.generation
<1>1. PICK G : G = store
  OBVIOUS
<1>2. PICK N, E : N = G.nodes /\ E = G.edges
  OBVIOUS
<1>3. IsMap(N) /\ IsMap(E) /\ TypedMaps(N, E) /\ Sound(N, E)
  BY <1>1, <1>2 DEF Good, Keyed
<1>4. PICK new : new = Atomic!RetiredEdge(E[e])
  OBVIOUS
<1>5. PICK change : change = Change("UpdateEdge", e, new)
  OBVIOUS
<1>6. /\ e \in DOMAIN E /\ IsNotRetired(E[e])
      /\ p = <<change>>
      /\ expected # 0 => expected = G.generation
  BY <1>1, <1>2, <1>4, <1>5 DEF RetirePlan
<1>7. E[e] \in StoredEdges /\ e \in EdgeIds
  BY <1>3, <1>6 DEF TypedMaps
<1>8. SameRelationship(new, E[e]) /\ ~IsLive(new)
  BY <1>4, <1>7, RetiredEdgeIs
<1>9. /\ change \in Changes /\ change.kind = "UpdateEdge" /\ change.id = e /\ change.value = new
      /\ Applies(N, E, change) /\ WellTyped(change)
  BY <1>5, <1>6, <1>7, <1>8 DEF Change, Changes, Kinds, Applies, WellTyped, SameRelationship
<1>10. NodesAfter(N, change) = N /\ EdgesAfter(E, change) = Put(E, e, new)
  BY <1>9 DEF NodesAfter, EdgesAfter
<1>11. Makes(N, E, p, N, Put(E, e, new))
  BY <1>3, <1>6, <1>9, <1>10, MakesOne DEF EdgeKinds
<1>12. Sound(N, Put(E, e, new))
  BY <1>3, <1>6, <1>8 DEF Sound, Put, SameRelationship
<1>13. Permits(N, E, coordinator_epoch, coordinator_epoch, N, Put(E, e, new))
  BY <1>4, <1>6, <1>7 DEF Permits, Retires
<1>14. Fulfils(G, coordinator_epoch, p, coordinator_epoch)
  BY <1>2, <1>11, <1>12, <1>13 DEF Fulfils
<1> QED
  BY <1>1, <1>2, <1>6, <1>14

-----------------------------------------------------------------------------
\* The plans of add_node, remove_node and add_relationship.

\* add_node of a node that is not there.
LEMMA InsertionFulfils ==
  ASSUME Good(store), Sound(store.nodes, store.edges), NEW req \in NodeRequests,
         req.id \notin DOMAIN store.nodes, NEW p, p = AddNodePlan(req), p # <<>>
  PROVE  Fulfils(store, coordinator_epoch, p, coordinator_epoch)
<1>1. PICK G : G = store
  OBVIOUS
<1>2. PICK N, E : N = G.nodes /\ E = G.edges
  OBVIOUS
<1>3. IsMap(N) /\ IsMap(E) /\ TypedMaps(N, E) /\ Sound(N, E)
  BY <1>1, <1>2 DEF Good, Keyed
<1>4. PICK n, new : n = req.id /\ new = Atomic!NewNode(req)
  OBVIOUS
<1>5. PICK change : change = Change("InsertNode", n, new)
  OBVIOUS
<1>6. req.entity_id \notin DOMAIN G.index.byEntity /\ p = <<change>> /\ n \notin DOMAIN N
  BY <1>1, <1>2, <1>4, <1>5 DEF AddNodePlan
<1>7. NodesOfEntity(N, req.entity_id) = {}
  BY <1>1, <1>2, <1>6, IndexSays
<1>8. n \in NodeIds /\ new \in StoredNodes /\ new.entity_id = req.entity_id
  BY <1>4, NewNodeIs
<1>9. \A m \in DOMAIN N : N[m].entity_id # new.entity_id
  BY <1>7, <1>8 DEF NodesOfEntity
<1>10. /\ change \in Changes /\ change.kind = "InsertNode" /\ change.id = n /\ change.value = new
       /\ Applies(N, E, change) /\ WellTyped(change)
  BY <1>5, <1>6, <1>8, <1>9 DEF Change, Changes, Kinds, Applies, WellTyped
<1>11. NodesAfter(N, change) = Put(N, n, new) /\ EdgesAfter(E, change) = E
  BY <1>10 DEF NodesAfter, EdgesAfter
<1>12. Makes(N, E, p, Put(N, n, new), E)
  BY <1>3, <1>6, <1>10, <1>11, MakesOne DEF NodeKinds
<1>13. Sound(Put(N, n, new), E)
  BY <1>3, <1>6 DEF Sound, Put
<1>14. Adds(N, E, req, Put(N, n, new), E)
  BY <1>4, <1>6, <1>7 DEF Adds
<1>15. Permits(N, E, coordinator_epoch, coordinator_epoch, Put(N, n, new), E)
  BY <1>14 DEF Permits
<1> QED
  BY <1>1, <1>2, <1>12, <1>13, <1>15 DEF Fulfils

\* fence_edges_for_node_change passes over the live edges that await revalidation
\* under the new generation already, and no other.
LEMMA RefreshFulfils ==
  ASSUME Good(store), Sound(store.nodes, store.edges), NEW req \in NodeRequests,
         req.id \in DOMAIN store.nodes, NEW p, p = AddNodePlan(req), p # <<>>
  PROVE  Fulfils(store, coordinator_epoch, p, coordinator_epoch)
<1>1. PICK G : G = store
  OBVIOUS
<1>2. PICK N, E : N = G.nodes /\ E = G.edges
  OBVIOUS
<1>3. IsMap(N) /\ IsMap(E) /\ TypedMaps(N, E) /\ Sound(N, E)
  BY <1>1, <1>2 DEF Good, Keyed
<1>4. PICK n, new : n = req.id /\ new = Atomic!RefreshedNode(N[n], req)
  OBVIOUS
<1>5. PICK change, values : /\ change = Change("UpdateNode", n, new)
                            /\ values = ReboundEdges(N, E, req)
  OBVIOUS
<1>6. n \in DOMAIN N /\ N[n] \in StoredNodes /\ n \in NodeIds /\ Atomic!MayRefresh(N[n], req)
  BY <1>1, <1>2, <1>3, <1>4 DEF TypedMaps, AddNodePlan
<1>7. /\ new \in StoredNodes /\ new.entity_id = N[n].entity_id
      /\ new.entity_generation = req.entity_generation
      /\ req.entity_generation >= N[n].entity_generation
      /\ req.entity_generation \in Nat /\ N[n].entity_generation \in Nat
  BY <1>4, <1>6, RefreshedNodeIs, NewNodeIs DEF StoredNodes
<1>8. Bucket(G.index.incident, n) = Incident(E, n)
  BY <1>1, <1>2, IndexSays
<1> DEFINE bound(edge) == IF edge.from = n THEN edge.from_entity_generation
                          ELSE edge.to_entity_generation
           affected == {e \in Bucket(G.index.incident, n) :
                          /\ N[n].entity_generation # req.entity_generation
                          /\ IsLive(E[e])
                          /\ \/ bound(E[e]) # req.entity_generation
                             \/ E[e].lifecycle # "REVALIDATION_REQUIRED"}
<1>9. affected = Rebound(N, E, req)
  <2>1. ASSUME NEW e \in Incident(E, n)
        PROVE  Atomic!AwaitsAt(E[e], n, req.entity_generation) <=>
                 ~(\/ bound(E[e]) # req.entity_generation
                   \/ E[e].lifecycle # "REVALIDATION_REQUIRED")
    BY DEF Atomic!AwaitsAt
  <2> HIDE DEF bound
  <2> QED
    BY <1>4, <1>8, <2>1 DEF Rebound
<1>10. p = <<change>> \o Edits("UpdateEdge", values)
  <2>1. values = [e \in affected |-> Atomic!ReboundEdge(E[e], n, req.entity_generation)]
    BY <1>4, <1>5, <1>9 DEF ReboundEdges
  <2> QED
    BY <1>1, <1>2, <1>4, <1>5, <1>6, <2>1 DEF AddNodePlan
<1> HIDE DEF bound, affected
<1>11. DOMAIN values = Rebound(N, E, req) /\ DOMAIN values \subseteq DOMAIN E
  BY <1>5 DEF ReboundEdges, Rebound, Incident
<1>12. ASSUME NEW e \in DOMAIN values
       PROVE  /\ e \in DOMAIN E /\ e \in EdgeIds /\ IsLive(E[e])
              /\ SameRelationship(values[e], E[e])
  <2>1. e \in DOMAIN E /\ IsLive(E[e])
    BY <1>11 DEF Rebound
  <2>2. values[e] = Atomic!ReboundEdge(E[e], n, req.entity_generation)
    BY <1>4, <1>5, <1>11 DEF ReboundEdges
  <2>3. e \in EdgeIds /\ E[e] \in StoredEdges
    BY <1>3, <2>1 DEF TypedMaps
  <2> QED
    BY <1>7, <2>1, <2>2, <2>3, ReboundEdgeIs
<1>13. IsFiniteSet(DOMAIN values)
  BY <1>3, <1>11, FS_Subset DEF TypedMaps
<1>14. AreEdits(Edits("UpdateEdge", values), "UpdateEdge", values)
  BY <1>12, <1>13, EditsAre DEF Kinds, SameRelationship
<1>15. /\ change \in Changes /\ change.kind = "UpdateNode" /\ change.id = n /\ change.value = new
       /\ Applies(N, E, change) /\ WellTyped(change)
  BY <1>5, <1>6, <1>7 DEF Change, Changes, Kinds, Applies, WellTyped
<1>16. AreEditsWith(p, change, "UpdateEdge", values)
  BY <1>10, <1>14, <1>15, NodeFirst DEF NodeKinds, EdgeKinds
<1>17. Makes(N, E, p, Put(N, n, new), Overlaid(E, values))
  BY <1>3, <1>12, <1>15, <1>16, MakesRefresh DEF SameRelationship
<1>18. Sound(Put(N, n, new), Overlaid(E, values))
  BY <1>3, <1>12 DEF Sound, Put, Overlaid, SameRelationship
<1>19. Adds(N, E, req, Put(N, n, new), Overlaid(E, values))
  BY <1>4, <1>5, <1>6 DEF Adds
<1>20. Permits(N, E, coordinator_epoch, coordinator_epoch, Put(N, n, new), Overlaid(E, values))
  BY <1>19 DEF Permits
<1> QED
  BY <1>1, <1>2, <1>17, <1>18, <1>20 DEF Fulfils

\* remove_node with cascade_relationships.
LEMMA RemovalFulfils ==
  ASSUME Good(store), Sound(store.nodes, store.edges), NEW n,
         NEW p, p = RemoveNodePlan(n), p # <<>>
  PROVE  Fulfils(store, coordinator_epoch, p, coordinator_epoch)
<1>1. PICK G : G = store
  OBVIOUS
<1>2. PICK N, E : N = G.nodes /\ E = G.edges
  OBVIOUS
<1>3. IsMap(N) /\ IsMap(E) /\ TypedMaps(N, E) /\ Sound(N, E)
  BY <1>1, <1>2 DEF Good, Keyed
<1>4. PICK change, values : /\ change = Change("EraseNode", n, NoEdge)
                            /\ values = Erased(Incident(E, n))
  OBVIOUS
<1>5. Bucket(G.index.incident, n) = Incident(E, n)
  BY <1>1, <1>2, IndexSays
<1>6. n \in DOMAIN N /\ p = Edits("EraseEdge", values) \o <<change>>
  BY <1>1, <1>2, <1>4, <1>5 DEF RemoveNodePlan
<1>7. DOMAIN values = Incident(E, n) /\ DOMAIN values \subseteq DOMAIN E
      /\ \A e \in DOMAIN values : values[e] = NoEdge
  BY <1>4 DEF Erased, Incident
<1>8. IsFiniteSet(DOMAIN values) /\ n \in NodeIds
  BY <1>3, <1>6, <1>7, FS_Subset DEF TypedMaps
<1>9. AreEdits(Edits("EraseEdge", values), "EraseEdge", values)
  BY <1>3, <1>7, <1>8, EditsAre DEF Kinds, TypedMaps
<1>10. /\ change \in Changes /\ change.kind = "EraseNode" /\ change.id = n
       /\ Applies(N, E, change)
  BY <1>4, <1>6, <1>8 DEF Change, Changes, Kinds, Applies
<1>11. AreEditsWith(p, change, "EraseEdge", values)
  BY <1>6, <1>9, <1>10, NodeLast DEF NodeKinds, EdgeKinds
<1>12. Makes(N, E, p, Without(N, {n}), Without(E, Incident(E, n)))
  BY <1>3, <1>7, <1>10, <1>11, MakesRemoval
<1>13. Sound(Without(N, {n}), Without(E, Incident(E, n)))
  BY <1>3 DEF Sound, Without, Incident
<1>14. Removes(N, E, n, Without(N, {n}), Without(E, Incident(E, n)))
  BY <1>6 DEF Removes
<1>15. Permits(N, E, coordinator_epoch, coordinator_epoch, Without(N, {n}),
               Without(E, Incident(E, n)))
  BY <1>8, <1>14 DEF Permits
<1> QED
  BY <1>1, <1>2, <1>12, <1>13, <1>15 DEF Fulfils

\* add_relationship, of a new relationship or of one asserted again.
LEMMA LinkFulfils ==
  ASSUME Good(store), Sound(store.nodes, store.edges), coordinator_epoch \in Nat,
         NEW req \in LinkRequests, NEW p, p = AddRelationshipPlan(req), p # <<>>
  PROVE  Fulfils(store, coordinator_epoch, p, coordinator_epoch)
<1>1. PICK G : G = store
  OBVIOUS
<1>2. PICK N, E : N = G.nodes /\ E = G.edges
  OBVIOUS
<1>3. IsMap(N) /\ IsMap(E) /\ TypedMaps(N, E) /\ Sound(N, E)
  BY <1>1, <1>2 DEF Good, Keyed
<1>4. PICK key, isNew : key = KeyOf(req) /\ isNew = (key \notin DOMAIN G.index.byKey)
  OBVIOUS
<1>5. /\ Atomic!Linkable(N, req)
      /\ ~isNew => G.index.byKey[key] = req.id
      /\ req.id \in DOMAIN E => KeyOf(E[req.id]) = key
      /\ ~isNew => Atomic!MayReassert(N, E[req.id], req)
      /\ ValidCandidate(N, E, req, isNew)
      /\ p = IF isNew
             THEN <<Change("InsertEdge", req.id, Atomic!NewEdge(N, req, coordinator_epoch))>>
             ELSE <<Change("UpdateEdge", req.id, Atomic!ReassertedEdge(N, E[req.id], req))>>
  BY <1>1, <1>2, <1>4 DEF AddRelationshipPlan
<1>6. /\ \A k : k \in DOMAIN G.index.byKey <=> \E e \in DOMAIN E : KeyOf(E[e]) = k
      /\ \A e \in DOMAIN E : G.index.byKey[KeyOf(E[e])] = e
  BY <1>1, <1>2, IndexSays
<1>7. {req.from, req.to} \subseteq DOMAIN N /\ req.id \in EdgeIds
  BY <1>5, StoreConstants DEF Atomic!Linkable
<1>8. \A m \in DOMAIN N : N[m] \in StoredNodes /\ N[m].entity_generation \in Nat
  BY <1>3 DEF TypedMaps, StoredNodes
<1>9. CASE isNew
  <2>1. PICK new : new = Atomic!NewEdge(N, req, coordinator_epoch)
    OBVIOUS
  <2>2. PICK change : change = Change("InsertEdge", req.id, new)
    OBVIOUS
  <2>3. \A e \in DOMAIN E : KeyOf(E[e]) # KeyOf(req)
    BY <1>4, <1>6, <1>9
  <2>4. req.id \notin DOMAIN E /\ p = <<change>>
    BY <1>4, <1>5, <1>9, <2>1, <2>2, <2>3
  <2>5. /\ new \in StoredEdges /\ KeyOf(new) = KeyOf(req)
        /\ new.from = req.from /\ new.to = req.to
    BY <1>7, <1>8, <2>1, NewEdgeIs
  <2>6. /\ change \in Changes /\ change.kind = "InsertEdge" /\ change.id = req.id
        /\ change.value = new /\ Applies(N, E, change) /\ WellTyped(change)
    BY <1>7, <2>2, <2>3, <2>4, <2>5 DEF Change, Changes, Kinds, Applies, WellTyped
  <2>7. NodesAfter(N, change) = N /\ EdgesAfter(E, change) = Put(E, req.id, new)
    BY <2>6 DEF NodesAfter, EdgesAfter
  <2>8. Makes(N, E, p, N, Put(E, req.id, new))
    BY <1>3, <2>4, <2>6, <2>7, MakesOne DEF EdgeKinds
  <2>9. Sound(N, Put(E, req.id, new))
    BY <1>3, <1>7, <1>8, <2>5 DEF Sound, Put
  <2>10. Links(N, E, req, coordinator_epoch, N, Put(E, req.id, new))
    BY <1>5, <1>9, <2>1, <2>3, <2>4, KeysAre DEF Links
  <2>11. Permits(N, E, coordinator_epoch, coordinator_epoch, N, Put(E, req.id, new))
    BY <2>10 DEF Permits
  <2> QED
    BY <1>1, <1>2, <2>8, <2>9, <2>11 DEF Fulfils
<1>10. CASE ~isNew
  <2>1. PICK new : new = Atomic!ReassertedEdge(N, E[req.id], req)
    OBVIOUS
  <2>2. PICK change : change = Change("UpdateEdge", req.id, new)
    OBVIOUS
  <2>3. req.id \in DOMAIN E /\ KeyOf(E[req.id]) = KeyOf(req) /\ p = <<change>>
    BY <1>4, <1>5, <1>6, <1>10, <2>1, <2>2
  <2>4. E[req.id] \in StoredEdges
    BY <1>3, <2>3 DEF TypedMaps
  <2>5. SameRelationship(new, E[req.id])
    BY <1>7, <1>8, <2>1, <2>4, ReassertedEdgeIs
  <2>6. E[req.id].from = req.from /\ E[req.id].to = req.to
    BY <2>3 DEF KeyOf
  <2>7. /\ change \in Changes /\ change.kind = "UpdateEdge" /\ change.id = req.id
        /\ change.value = new /\ Applies(N, E, change) /\ WellTyped(change)
    BY <1>7, <2>2, <2>3, <2>5 DEF Change, Changes, Kinds, Applies, WellTyped, SameRelationship
  <2>8. NodesAfter(N, change) = N /\ EdgesAfter(E, change) = Put(E, req.id, new)
    BY <2>7 DEF NodesAfter, EdgesAfter
  <2>9. Makes(N, E, p, N, Put(E, req.id, new))
    BY <1>3, <2>3, <2>7, <2>8, MakesOne DEF EdgeKinds
  <2>10. Sound(N, Put(E, req.id, new))
    BY <1>3, <1>7, <1>8, <2>5, <2>6 DEF Sound, Put, SameRelationship
  <2>11. Links(N, E, req, coordinator_epoch, N, Put(E, req.id, new))
    <3>1. isNew = FALSE
      BY <1>4, <1>10
    <3>2. ValidCandidate(N, E, req, FALSE) /\ Atomic!MayReassert(N, E[req.id], req)
          /\ Atomic!Linkable(N, req)
      BY <1>5, <3>1
    <3>3. SameKey(E[req.id], req)
      BY <2>3, KeysAre
    <3> QED
      BY <2>1, <2>3, <3>2, <3>3 DEF Links
  <2>12. Permits(N, E, coordinator_epoch, coordinator_epoch, N, Put(E, req.id, new))
    BY <2>11 DEF Permits
  <2> QED
    BY <1>1, <1>2, <2>9, <2>10, <2>12 DEF Fulfils
<1> QED
  BY <1>4, <1>9, <1>10

=============================================================================
