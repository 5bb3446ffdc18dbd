--------------------------- MODULE AttachmentMoves ---------------------------
(***************************************************************************)
(* move_attachment of src/src/topology_mutations.cpp, beside the other     *)
(* operations of the engine.                                               *)
(*                                                                         *)
(* It is kept apart from TopologyEngine because it does not preserve what  *)
(* is proved there: it may give two edges one key and it may drop an edge. *)
(***************************************************************************)
EXTENDS TopologyEngine

CONSTANT
  MoveRequests   \* records [attachment_edge, new_target, new_edge_id, attachment,
                 \* evidence_generation]: MoveAttachmentRequest values callers may send

\* The ATTACHED_TO edge that replaces the moved one.
MovedEdge(ctx, req) ==
  LET found == edges[req.attachment_edge]
  IN  [relation |-> AttachedTo, from |-> found.from, to |-> req.new_target,
       domain |-> found.domain, secondary_domain |-> found.domain,
       from_entity_generation |-> nodes[found.from].entity_generation,
       to_entity_generation |-> nodes[req.new_target].entity_generation,
       evidence_generation |-> req.evidence_generation, lifecycle |-> "CURRENT",
       attachment |-> req.attachment, superseded_by |-> NoEdge, provenance |-> ctx]

\* The checks of move_attachment: the edge is a current attachment, the caller
\* may write its domain, and no other edge has the key of the moved one.  The
\* domain of the new target is not looked at.
MayMove(ctx, req) ==
  LET found == edges[req.attachment_edge]
      candidate == [id |-> req.new_edge_id, relation |-> AttachedTo, from |-> found.from,
                    to |-> req.new_target, domain |-> found.domain,
                    attachment |-> req.attachment, exclusive |-> TRUE]
  IN  /\ req.attachment_edge \in DOMAIN edges
      /\ found.relation = AttachedTo
      /\ HasAuthority(ctx, found.domain, IncrementalWrite)
      /\ found.lifecycle = "CURRENT"
      /\ req.new_target \in DOMAIN nodes
      /\ {e \in DOMAIN edges : SameKey(edges[e], candidate)} \subseteq {req.attachment_edge}
      /\ ValidCandidate(nodes, edges, candidate, TRUE)

\* move_attachment.  The old edge is superseded and the new one inserted.  If
\* the new id is taken, insert_edge refuses, and the undo log erases the edge
\* that has the id before it puts the old edge back (update_edge, which finds
\* nothing to update when the two are one).
MoveAttachment(ctx, req) ==
  LET moved == [edges[req.attachment_edge] EXCEPT !.lifecycle = "SUPERSEDED",
                                                  !.superseded_by = req.new_edge_id]
  IN  /\ MayMove(ctx, req)
      /\ \/ /\ req.new_edge_id \notin DOMAIN edges
            /\ FinalizeMutation(nodes,
                                Put(Put(edges, req.attachment_edge, moved),
                                    req.new_edge_id, MovedEdge(ctx, req)),
                                nodes)
         \/ /\ req.new_edge_id \in DOMAIN edges
            /\ edges' = Without(edges, {req.new_edge_id})
            /\ UNCHANGED <<nodes, generation, image>>
      /\ UNCHANGED <<authority, registry>>

Moves == \E ctx \in Contexts, req \in MoveRequests : MoveAttachment(ctx, req)

MovingSpec == Init /\ [][Next \/ Moves]_vars

\* mutations.hpp, of MoveAttachmentRequest: "either the whole move commits or
\* nothing changes".  A move that changes the edges supersedes one edge, puts a
\* current one in its place and advances the generation.
MoveIsAllOrNothing ==
  [][Moves /\ edges' # edges =>
       /\ generation' = generation + 1
       /\ \E e \in CurrentEdges(edges), o \in CurrentEdges(edges') :
            edges'[e].lifecycle = "SUPERSEDED" /\ edges'[e].superseded_by = o]_vars

=============================================================================
