-------------------------- MODULE MCTopologyEngine --------------------------
(***************************************************************************)
(* Small instances of TopologyEngine for TLC.  Identifiers are strings; the *)
(* request sets below are what callers may send in each instance.          *)
(***************************************************************************)
EXTENDS TopologyEngine

NodeRequest(n, x, d, t) ==
  [node_id |-> n, entity_id |-> x, node_class |-> "class", domain |-> d, tier |-> t]

LinkRequest(e, r, from, to, d, evidence) ==
  [id |-> e, relation |-> r, from |-> from, to |-> to, domain |-> d,
   attachment |-> NoAttachment, exclusive |-> FALSE, evidence_generation |-> evidence]

None == {}

-----------------------------------------------------------------------------
\* Structure: two nodes, edges both ways, a registry that moves, and two
\* requests for one relationship under different edge ids.

StructureNodeRequests == {NodeRequest("n1", "x1", "d", "t"), NodeRequest("n2", "x2", "d", "t")}

StructureLinkRequests ==
  {LinkRequest("e1", "link", "n1", "n2", "d", 1), LinkRequest("e2", "link", "n1", "n2", "d", 2)}

StructureReplacements == {<<"n1", 0>>, <<"n1", 2>>, <<"n2", 2>>}

StructureSuccessors == {<<"n1", "x3">>, <<"n2", "x1">>}

FullGrants == {[d \in Domains |-> AuthoritativeWrite]}

-----------------------------------------------------------------------------
\* Authority: a cross-domain edge, two publishers on two boots, writes that
\* fail.

AuthorityNodeRequests == {NodeRequest("n1", "x1", "d1", "t"), NodeRequest("n2", "x2", "d2", "t")}

AuthorityLinkRequests == {LinkRequest("e1", "link", "n1", "n2", "d1", 1)}

AuthorityRules == {<<"d1", "d2", "link">>}

AuthorityGrants ==
  {[d \in Domains |-> IncrementalWrite], [d \in Domains |-> IF d = "d1" THEN 2 ELSE 1]}

-----------------------------------------------------------------------------
\* Hierarchy: three nodes and the three edges of a containment triangle.

HierarchyNodeRequests ==
  {NodeRequest("n1", "x1", "d", "t"), NodeRequest("n2", "x2", "d", "t"),
   NodeRequest("n3", "x3", "d", "t")}

HierarchyLinkRequests ==
  {LinkRequest("e1", "contains", "n1", "n2", "d", 1),
   LinkRequest("e2", "contains", "n2", "n3", "d", 1),
   LinkRequest("e3", "contains", "n3", "n1", "d", 1)}

-----------------------------------------------------------------------------
\* Attachments: one endpoint, two targets, one exclusive attachment slot.

AttachmentNodeRequests ==
  {NodeRequest("nic", "x1", "d", "t"), NodeRequest("swA", "x2", "d", "t"),
   NodeRequest("swB", "x3", "d", "t")}

Attach(e, target) ==
  [LinkRequest(e, AttachedTo, "nic", target, "d", 1) EXCEPT !.attachment = "slot",
                                                            !.exclusive = TRUE]

AttachmentLinkRequests == {Attach("e1", "swA"), Attach("e2", "swB")}

=============================================================================
