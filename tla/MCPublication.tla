---------------------------- MODULE MCPublication ----------------------------
(***************************************************************************)
(* A small instance of Publication for TLC: a rack scope d1 with two nodes *)
(* and an edge, a scope d2 with one node, an edge between the scopes, and  *)
(* publications that overtake, contradict and repeat each other.           *)
(***************************************************************************)
EXTENDS Publication

None == {}

Observed(n, x, d, present) ==
  [node_id |-> n, entity_id |-> x, node_class |-> "fabric endpoint", tier |-> "t", domain |-> d,
   present |-> present]

Link(evidence, present) ==
  [id |-> "ab", relation |-> "link", from |-> "a", to |-> "b", domain |-> "d1",
   attachment |-> NoAttachment, exclusive |-> FALSE,
   evidence_generation |-> evidence, present |-> present]

LinkKey == [relation |-> "link", from |-> "a", to |-> "b", domain |-> "d1"]

Pub(id, mode, d, ns, es, absent) ==
  [id |-> id, mode |-> mode, domain |-> d, nodes |-> ns, edges |-> es,
   declared_absent |-> absent]

a == Observed("a", "x1", "d1", TRUE)

\* The same node by the name of another class of the same entity class.
otherA == [a EXCEPT !.node_class = "logical endpoint"]

b == Observed("b", "x2", "d1", TRUE)

MCPublications ==
  {Pub("rack", "AuthoritativeSnapshot", "d1", {a, b}, <<Link(1, TRUE)>>, {}),
   Pub("emptied", "AuthoritativeSnapshot", "d1", {}, <<>>, {}),
   Pub("contradictory", "AuthoritativeSnapshot", "d1", {a, b}, <<Link(1, TRUE)>>, {LinkKey}),
   Pub("newer", "Incremental", "d1", {}, <<Link(2, TRUE)>>, {}),
   Pub("late", "PartialObservation", "d1", {otherA}, <<Link(1, TRUE)>>, {LinkKey}),
   Pub("unplugged", "Incremental", "d1", {Observed("b", "x2", "d1", FALSE)},
       <<Link(2, FALSE)>>, {}),
   Pub("uplink", "Incremental", "d2", {Observed("c", "x3", "d2", TRUE)}, <<>>, {})}

\* The edge between the scopes, kept by d2.
MCLinkRequests ==
  {[id |-> "ac", relation |-> "link", from |-> "a", to |-> "c", domain |-> "d2",
    attachment |-> NoAttachment, exclusive |-> FALSE, evidence_generation |-> 1]}

MCRules == {<<"d1", "d2", "link">>}

MCGrants == {[d \in Domains |-> AuthoritativeWrite], [d \in Domains |-> IncrementalWrite]}

=============================================================================
