---------------------------- MODULE MCCoordinator ----------------------------
(***************************************************************************)
(* A small instance of Coordinator for TLC: two incarnations of one        *)
(* publisher, one and an observer, a survivor of another epoch, or peers   *)
(* that never speak, and room for two sessions.  One client is on another  *)
(* machine.  A connection holds one frame, so that the answer of a query   *)
(* blocks unless it is read.                                               *)
(***************************************************************************)
EXTENDS Coordinator

None == {}

Observed(n, x) ==
  [node_id |-> n, entity_id |-> x, node_class |-> "class", tier |-> "t", domain |-> "d",
   present |-> TRUE]

\* As ftpublisher does, every incarnation publishes under ids of its own.
Pub(id) ==
  [id |-> id, mode |-> "AuthoritativeSnapshot", domain |-> "d",
   nodes |-> {Observed("a", "x1"), Observed("b", "x2")},
   edges |-> <<[id |-> "ab", relation |-> "link", from |-> "a", to |-> "b", domain |-> "d",
                attachment |-> NoAttachment, exclusive |-> FALSE,
                evidence_generation |-> 1, present |-> TRUE]>>,
   declared_absent |-> {}]

MCPublications == {Pub("u1"), Pub("u2")}

Worker(boot, request) ==
  [publisher |-> "p", worker_boot |-> boot, claimed_epoch |-> 0, observer |-> FALSE,
   sends |-> {"Hello", request}]

\* A worker that comes from another incarnation of the coordinator.
Survivor(boot, request) == [Worker(boot, request) EXCEPT !.claimed_epoch = 2]

Observer ==
  [publisher |-> "p", worker_boot |-> "b2", claimed_epoch |-> 1, observer |-> TRUE,
   sends |-> {"Hello", "Query", "ShutdownRequest", "u2"}]

Mute ==
  [publisher |-> "p", worker_boot |-> "b2", claimed_epoch |-> 0, observer |-> FALSE,
   sends |-> {}]

\* A new incarnation while the old session lasts; an observer that may ask for the
\* shutdown or leave a long answer unread beside an idle worker; a worker alone; a
\* survivor of another epoch; peers that never speak and take up the sessions.
MCProfiles ==
  {"c1" :> Worker("b1", "u1") @@ "c2" :> Worker("b2", "u2"),
   "c1" :> Observer @@ "c2" :> Worker("b1", "Hello"),
   "c1" :> Worker("b1", "Heartbeat"),
   "c1" :> Survivor("b1", "u1"),
   "c1" :> Mute @@ "c2" :> Mute @@ "c3" :> Mute}

MCGrants == [d \in Domains |-> AuthoritativeWrite]

MCGrantChoices == {MCGrants}

=============================================================================
