-------------------------- MODULE MCAttachmentMoves --------------------------
(***************************************************************************)
(* A small instance of AttachmentMoves for TLC: one endpoint, two targets, *)
(* one attachment edge, which may be asked to move under a new edge id or  *)
(* under the id it has.                                                    *)
(***************************************************************************)
EXTENDS AttachmentMoves

None == {}

NodeRequest(n, x) ==
  [node_id |-> n, entity_id |-> x, node_class |-> "class", domain |-> "d", tier |-> "t"]

MCNodeRequests ==
  {NodeRequest("nic", "x1"), NodeRequest("swA", "x2"), NodeRequest("swB", "x3")}

MCLinkRequests ==
  {[id |-> "e1", relation |-> AttachedTo, from |-> "nic", to |-> "swA", domain |-> "d",
    attachment |-> a, exclusive |-> TRUE, evidence_generation |-> 1] :
      a \in Attachments \cup {NoAttachment}}

MCMoveRequests ==
  {[attachment_edge |-> "e1", new_target |-> "swB", new_edge_id |-> e,
    attachment |-> "slot", evidence_generation |-> 1] : e \in EdgeIds}

FullGrants == {[d \in Domains |-> AuthoritativeWrite]}

=============================================================================
