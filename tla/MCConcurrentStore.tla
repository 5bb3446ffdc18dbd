-------------------------- MODULE MCConcurrentStore --------------------------
(***************************************************************************)
(* A small instance of ConcurrentStore for TLC.  The callers meet a store  *)
(* that was loaded from a durable image: a rack c that contains a switch   *)
(* b, and a device a attached to b across domains.  The attachment has     *)
(* been asserted again since; the containment awaits revalidation.         *)
(***************************************************************************)
EXTENDS ConcurrentStore

Node(x, g, d) ==
  [entity_id |-> x, entity_generation |-> g, tier |-> "t", domain |-> d,
   lifecycle |-> "CURRENT", revision |-> 1]

Request(id, x, g, d) ==
  [id |-> id, entity_id |-> x, entity_generation |-> g, domain |-> d, tier |-> "t"]

\* b is refreshed under a new generation, or comes back after its removal.
MCNodeRequests == {Request("b", "xb", 2, "d2")}

Link(id, relation, from, to, d, attachment, evidence, p) ==
  [id |-> id, relation |-> relation, from |-> from, to |-> to, domain |-> d,
   attachment |-> attachment, exclusive |-> TRUE, evidence_generation |-> evidence,
   publisher |-> p, worker_boot |-> "w"]

MCLinkRequests ==
  {Link(1, "ATTACHED_TO", "a", "b", "d1", "port", 2, "p"),
   Link(1, "ATTACHED_TO", "a", "b", "d1", NoAttachment, 3, "p"),
   Link(3, "CONTAINS", "b", "a", "d1", NoAttachment, 1, "q")}

Loaded(request) ==
  [relation |-> request.relation, from |-> request.from, to |-> request.to,
   domain |-> request.domain,
   secondary_domain |-> IF request.id = 1 THEN "d2" ELSE request.domain,
   from_entity_generation |-> 1, to_entity_generation |-> 1,
   evidence_generation |-> request.evidence_generation,
   lifecycle |-> "REVALIDATION_REQUIRED", attachment |-> request.attachment,
   superseded_by |-> NoEdge,
   provenance |-> [publisher |-> request.publisher, worker_boot |-> "w",
                   coordinator_epoch |-> 1],
   revision |-> 1]

Rack ==
  [nodes |-> [n \in {"a", "b", "c"} |->
                CASE n = "a" -> Node("xa", 1, "d1")
                  [] n = "b" -> Node("xb", 1, "d2")
                  [] n = "c" -> Node("xc", 1, "d2")],
   edges |-> [e \in {1, 2} |->
                IF e = 1
                THEN [Loaded(Link(1, "ATTACHED_TO", "a", "b", "d1", "port", 1, "p"))
                        EXCEPT !.lifecycle = "CURRENT", !.revision = 2]
                ELSE Loaded(Link(2, "CONTAINS", "c", "b", "d2", NoAttachment, 1, "q"))],
   generation |-> 2]

MCStartGraphs == {Rack}

\* The instance meets the conditions on what it loads and what ids are used for.
ASSUME RackAsLeft == LoadedAsLeft /\ IdsNameOneThing

MCScopes == {WholeTopology, DomainScope("d2")}

MCScopeOf == [r \in Readers |-> IF r = "r1" THEN WholeTopology ELSE DomainScope("d2")]

MCRules == {<<"d1", "d2", "ATTACHED_TO">>, <<"d2", "d1", "CONTAINS">>}

MCDetachRequests == {<<"port", "a">>}

=============================================================================
