----------------------------- MODULE Coordinator -----------------------------
(***************************************************************************)
(* The coordinator process and its publishers:                             *)
(* src/src/runtime/coordinator.cpp, publisher_client.cpp,                  *)
(* frame_transport.cpp and the main loop of tools/ftcoordinator, around    *)
(* the engine of module Publication.                                       *)
(*                                                                         *)
(* Threads: the owner (main), the accept thread, one session thread per    *)
(* connection, and the remote clients.  A session runs concurrently with   *)
(* all others between its calls of the engine, each of which is atomic     *)
(* under the engine's locks.  A connection carries frames in order; it may *)
(* be lost at any time, with any part of what was sent, and the loss may   *)
(* never come to light.  A connection holds SendBuffer frames that its     *)
(* client has not read: a session that has more to send waits, for ever if *)
(* nobody reads, as send has no time-out and does not look at stop_.       *)
(*                                                                         *)
(* Not modelled: tokens, the contents of queries and answers, statistics,  *)
(* the bytes of a frame.  A frame that does not decode ends the session as *)
(* an unexpected one does ("Unexpected").                                  *)
(***************************************************************************)
EXTENDS Publication

CONSTANTS
  Connections,     \* one PublisherClient each
  Remote,          \* those whose client is on another machine
  Profiles,        \* the clients there may be: some connections -> their profile
  RequestedGrants, \* the grants every client asks for
  GrantPolicy,     \* options_.grant_policy, as one mode per domain
  MaxSessions,     \* options_.max_sessions
  SendBuffer,      \* frames a connection holds before send blocks
  MaxRequests      \* bound on the frames a client sends after its Hello

VARIABLES
  client,          \* connection -> where its client is
  profile,         \* connection -> its Hello and the frames it may send
  requests,        \* connection -> requests the client may still send
  inbox,           \* connection -> frames on the way to the coordinator
  outbox,          \* connection -> frames on the way to the client
  hungUp,          \* connections whose socket tells that the client is gone
  session,         \* connection -> where its session thread is
  registered,      \* connection -> Session::registered
  signalled,       \* sessions whose transport was asked to stop
  accepting,       \* where the accept thread is
  stopFlag,        \* stop_
  owner            \* where the main thread is

links == <<inbox, outbox, hungUp>>
clients == <<client, profile, requests>>
threads == <<session, registered, signalled, accepting, stopFlag, owner>>
coordinatorVars == <<publicationVars, clients, links, threads>>

ClientStates == {"new", "mute", "greeting", "ready", "waiting", "closed", "lost"}

\* What a session has left to send before it reads the next frame or ends.
Sending == {"replying", "answering", "refusing", "stopping"}

SessionStates ==
  {"none", "dropped", "handshake", "rejecting", "welcome", "serving", "fence_boot",
   "fence_publisher", "finished"} \cup Sending

OwnerStates == {"main", "signal", "join_listener", "join_sessions", "save", "exited"}

\* A Publish frame is written as the id of its publication.
Frames == {"Hello", "Heartbeat", "Query", "ShutdownRequest", "Goodbye", "Unexpected"}
            \cup PublicationIds

\* A long answer is a Part, as much of it as a connection holds, and an Answer.
Replies == {"Welcome", "Rejected", "Part", "Answer", "ErrorReport", "Goodbye"}

ASSUME CoordinatorConstants ==
  /\ Remote \subseteq Connections
  /\ \A f \in Profiles :
       /\ DOMAIN f \subseteq Connections
       /\ f \in [DOMAIN f -> [publisher : Publishers, worker_boot : Boots,
                              claimed_epoch : Nat, observer : BOOLEAN,
                              sends : SUBSET Frames]]
  /\ RequestedGrants \in Grants
  /\ GrantPolicy \in Grants
  /\ MaxSessions \in Nat
  /\ SendBuffer \in Nat \ {0}
  /\ MaxRequests \in Nat

\* What the coordinator binds to the session, whatever the client claims.
Identity(c) ==
  [publisher |-> profile[c].publisher, worker_boot |-> profile[c].worker_boot,
   coordinator_epoch |-> coordinator_epoch]

\* sessions_ keeps the sessions that are finished, so they count as well.
Sessions == {c \in Connections : session[c] \notin {"none", "dropped"}}

\* Threads and frames are what they can be, and there are never more sessions
\* than max_sessions, each being a thread of the process.
CoordinatorTypeOK ==
  /\ Cardinality(Sessions) <= MaxSessions
  /\ client \in [Connections -> ClientStates]
  /\ profile \in Profiles
  /\ requests \in [Connections -> 0..MaxRequests]
  /\ inbox \in [Connections -> Seq(Frames)]
  /\ outbox \in [Connections -> Seq(Replies)]
  /\ hungUp \subseteq Connections
  /\ session \in [Connections -> SessionStates]
  /\ registered \in [Connections -> BOOLEAN]
  /\ signalled \subseteq Connections
  /\ accepting \in {"check", "select", "exited"}
  /\ stopFlag \in BOOLEAN
  /\ owner \in OwnerStates

\* TopologyCoordinator::start: the domains are defined and the accept thread runs.
CoordinatorInit ==
  /\ PublicationInit
  /\ client = [c \in Connections |-> "new"]
  /\ profile \in Profiles
  /\ requests = [c \in Connections |-> MaxRequests]
  /\ inbox = [c \in Connections |-> <<>>]
  /\ outbox = [c \in Connections |-> <<>>]
  /\ hungUp = {}
  /\ session = [c \in Connections |-> "none"]
  /\ registered = [c \in Connections |-> FALSE]
  /\ signalled = {}
  /\ accepting = "check"
  /\ stopFlag = FALSE
  /\ owner = "main"

IsUp == owner # "exited"

-----------------------------------------------------------------------------
\* PublisherClient.  Nothing obliges a client to go on.

\* FrameTransport::send
Deliver(c, frame) == inbox' = [inbox EXCEPT ![c] = Append(@, frame)]

\* The client's end is closed; what was on the way to it is lost.
HangUp(c) ==
  /\ client' = [client EXCEPT ![c] = "closed"]
  /\ requests' = [requests EXCEPT ![c] = 0]
  /\ outbox' = [outbox EXCEPT ![c] = <<>>]
  /\ hungUp' = hungUp \cup {c}

\* connect_and_register: the connection waits to be accepted, with the Hello on
\* it.  A peer may also connect and never speak.
Connect(c) ==
  /\ client[c] = "new"
  /\ \/ /\ "Hello" \in profile[c].sends
        /\ client' = [client EXCEPT ![c] = "greeting"]
        /\ Deliver(c, "Hello")
     \/ /\ "Hello" \notin profile[c].sends
        /\ client' = [client EXCEPT ![c] = "mute"]
        /\ UNCHANGED inbox
  /\ UNCHANGED <<publicationVars, profile, requests, outbox, hungUp, threads>>

\* publish, heartbeat, query wait for an answer; request_shutdown does not.
SendRequest(c, frame) ==
  /\ client[c] = "ready"
  /\ requests[c] > 0
  /\ requests' = [requests EXCEPT ![c] = @ - 1]
  /\ Deliver(c, frame)
  /\ client' = [client EXCEPT ![c] = IF frame = "ShutdownRequest" THEN @ ELSE "waiting"]
  /\ UNCHANGED <<publicationVars, profile, outbox, hungUp, threads>>

\* await: the next frame is taken for the answer, also if it answers an earlier
\* request whose deadline has passed.  A client that is not waiting reads nothing.
ReceiveAnswer(c) ==
  /\ client[c] \in {"greeting", "waiting"}
  /\ outbox[c] # <<>>
  /\ client[c] = "greeting" => Head(outbox[c]) = "Welcome"
  /\ client' = [client EXCEPT ![c] = IF Head(outbox[c]) = "Part" THEN @ ELSE "ready"]
  /\ outbox' = [outbox EXCEPT ![c] = Tail(@)]
  /\ UNCHANGED <<publicationVars, profile, requests, inbox, hungUp, threads>>

\* await: the response deadline passes.
MissAnswer(c) ==
  /\ client[c] = "waiting"
  /\ client' = [client EXCEPT ![c] = "ready"]
  /\ UNCHANGED <<publicationVars, profile, requests, links, threads>>

\* PublisherClient::close, by the caller or once its Hello came to nothing.
Close(c) ==
  /\ client[c] \in {"mute", "greeting", "ready"}
  /\ Deliver(c, "Goodbye")
  /\ HangUp(c)
  /\ UNCHANGED <<publicationVars, profile, threads>>

ArrivesInPart(c) == \E k \in 0..Len(inbox[c]) : inbox' = [inbox EXCEPT ![c] = SubSeq(@, 1, k)]

\* The client's process dies and its system closes the connection: what was on
\* the way arrives in part.
Crash(c) ==
  /\ client[c] \notin {"new", "closed", "lost"}
  /\ ArrivesInPart(c)
  /\ HangUp(c)
  /\ UNCHANGED <<publicationVars, profile, threads>>

\* The client's machine or the network fails: nothing closes the connection, and
\* nobody reads what is sent on it.
Vanish(c) ==
  /\ c \in Remote
  /\ client[c] \notin {"new", "closed", "lost"}
  /\ ArrivesInPart(c)
  /\ client' = [client EXCEPT ![c] = "lost"]
  /\ requests' = [requests EXCEPT ![c] = 0]
  /\ UNCHANGED <<publicationVars, profile, outbox, hungUp, threads>>

\* The system gives up on what it could not deliver.  No keep-alive is set: where
\* nothing was sent, nobody learns that the peer is gone.
NoticeLoss(c) ==
  /\ client[c] = "lost"
  /\ outbox[c] # <<>>
  /\ HangUp(c)
  /\ UNCHANGED <<publicationVars, profile, inbox, threads>>

ClientStep(c) ==
  \/ Connect(c)
  \/ \E frame \in profile[c].sends \ {"Hello"} : SendRequest(c, frame)
  \/ ReceiveAnswer(c)
  \/ MissAnswer(c)
  \/ Close(c)
  \/ Crash(c)
  \/ Vanish(c)
  \/ NoticeLoss(c)

-----------------------------------------------------------------------------
\* accept_loop.

\* FrameTransport::send, of the coordinator's side, blocks while the connection is
\* full: it has no time-out, and neither the stop flag nor request_stop ends it.
HasRoom(c) == c \in hungUp \/ Len(outbox[c]) < SendBuffer

Send(c, frame) ==
  /\ HasRoom(c)
  /\ outbox' = IF c \in hungUp THEN outbox ELSE [outbox EXCEPT ![c] = Append(@, frame)]

IgnoreStopFlag ==
  /\ accepting = "check"
  /\ accepting' = "select"
  /\ UNCHANGED <<publicationVars, clients, links, session, registered, signalled, stopFlag, owner>>

\* while (!stop_.load())
CheckStopFlag ==
  /\ accepting = "check"
  /\ accepting' = IF stopFlag THEN "exited" ELSE "select"
  /\ UNCHANGED <<publicationVars, clients, links, session, registered, signalled, stopFlag, owner>>

Waiting(c) == client[c] # "new" /\ session[c] = "none"

\* accept_client times out.  A connection that waits makes the listener ready.
AcceptNobody ==
  /\ accepting = "select"
  /\ \A c \in Connections : ~Waiting(c)
  /\ accepting' = "check"
  /\ UNCHANGED <<publicationVars, clients, links, session, registered, signalled, stopFlag, owner>>

AcceptBeyondLimit(c) ==
  /\ accepting = "select"
  /\ Waiting(c)
  /\ accepting' = "check"
  /\ \/ /\ Cardinality(Sessions) <= MaxSessions
        /\ session' = [session EXCEPT ![c] = "handshake"]
        /\ UNCHANGED outbox
     \/ /\ Cardinality(Sessions) > MaxSessions
        /\ session' = [session EXCEPT ![c] = "dropped"]
        /\ Send(c, "ErrorReport")
  /\ UNCHANGED <<publicationVars, clients, inbox, hungUp, registered, signalled, stopFlag, owner>>

\* A connection is accepted: its session thread starts, or the session limit is
\* reached and it is dropped with an error report.
Accept(c) ==
  /\ accepting = "select"
  /\ Waiting(c)
  /\ accepting' = "check"
  /\ \/ /\ Cardinality(Sessions) < MaxSessions
        /\ session' = [session EXCEPT ![c] = "handshake"]
        /\ UNCHANGED outbox
     \/ /\ Cardinality(Sessions) >= MaxSessions
        /\ session' = [session EXCEPT ![c] = "dropped"]
        /\ Send(c, "ErrorReport")
  /\ UNCHANGED <<publicationVars, clients, inbox, hungUp, registered, signalled, stopFlag, owner>>

\* select or accept fails: the thread ends for good, and nothing else notices.
AcceptFails ==
  /\ accepting = "select"
  /\ accepting' = "exited"
  /\ UNCHANGED <<publicationVars, clients, links, session, registered, signalled, stopFlag, owner>>

AcceptThread ==
  \/ CheckStopFlag
  \/ AcceptNobody
  \/ AcceptFails
  \/ \E c \in Connections : Accept(c)

-----------------------------------------------------------------------------
\* run_session: the handshake.

\* How FrameTransport::receive comes back without a frame.  A transport that was
\* asked to stop may still hand out frames it has in its buffer.
IsIdle(c) == inbox[c] = <<>> /\ c \notin hungUp \cup signalled
IsGone(c) == c \in signalled \/ (inbox[c] = <<>> /\ c \in hungUp)

Consume(c) == inbox' = [inbox EXCEPT ![c] = Tail(@)]

\* The session leaves its loops, with nothing read any more; the boot of a
\* registered worker is fenced, and the transport closed.
EndSession(c) ==
  /\ session' = [session EXCEPT ![c] = IF registered[c] THEN "fence_boot" ELSE "finished"]
  /\ inbox' = [inbox EXCEPT ![c] = <<>>]

\* delegated_mode: at most what the policy allows.
DelegatedGrants ==
  [d \in Domains |-> IF RequestedGrants[d] < GrantPolicy[d] THEN RequestedGrants[d]
                     ELSE GrantPolicy[d]]

\* They are grants a publisher may be registered with.
ASSUME DelegationIsOffered == DelegatedGrants \in GrantChoices

\* engine_->register_publisher, which refuses a fenced boot and answers a
\* registration it already has Idempotent.
IsRegistered(c) ==
  LET id == Identity(c)
  IN  /\ id.publisher \in DOMAIN publishers
      /\ publishers[id.publisher] =
           [worker_boot |-> id.worker_boot, grants |-> DelegatedGrants,
            coordinator_epoch |-> id.coordinator_epoch, fenced |-> FALSE]

MayRegister(c) == profile[c].worker_boot \notin fenced_boots

\* A peer that names another epoch survives from another coordinator incarnation.
EpochOk(c) == profile[c].claimed_epoch \in {0, coordinator_epoch}

Register(c) ==
  \/ /\ MayRegister(c) /\ ~IsRegistered(c)
     /\ RegisterPublisher(Identity(c), DelegatedGrants)
  \/ /\ ~MayRegister(c) \/ IsRegistered(c)
     /\ UNCHANGED vars

HandleHello(c) ==
  /\ session[c] = "handshake"
  /\ inbox[c] # <<>> /\ Head(inbox[c]) = "Hello"
  /\ Consume(c)
  /\ \/ /\ ~EpochOk(c)
        /\ session' = [session EXCEPT ![c] = "rejecting"]
        /\ UNCHANGED <<vars, registered>>
     \/ /\ EpochOk(c) /\ profile[c].observer
        /\ session' = [session EXCEPT ![c] = "welcome"]
        /\ UNCHANGED <<vars, registered>>
     \/ /\ EpochOk(c) /\ ~profile[c].observer
        /\ Register(c)
        /\ registered' = [registered EXCEPT ![c] = MayRegister(c)]
        /\ session' = [session EXCEPT ![c] = IF MayRegister(c) THEN "welcome" ELSE "rejecting"]
  /\ UNCHANGED <<attempts, clients, outbox, hungUp, signalled, accepting, stopFlag, owner>>

RefuseFirstFrame(c) ==
  /\ session[c] = "handshake"
  /\ inbox[c] # <<>> /\ Head(inbox[c]) # "Hello"
  /\ Send(c, "ErrorReport")
  /\ EndSession(c)
  /\ UNCHANGED <<publicationVars, clients, hungUp, registered, signalled, accepting,
                 stopFlag, owner>>

\* The session ends although no frame was received.
LeaveLoop(c) ==
  /\ EndSession(c)
  /\ UNCHANGED <<publicationVars, clients, outbox, hungUp, registered, signalled, accepting,
                 stopFlag, owner>>

EndHandshakeOnStopOnly(c) ==
  /\ session[c] = "handshake"
  /\ IsGone(c) \/ (IsIdle(c) /\ stopFlag)
  /\ LeaveLoop(c)

\* The peer is gone, or silent while the coordinator stops or until the
\* handshake deadline, which may pass at any time and is reported.
EndHandshake(c) ==
  /\ session[c] = "handshake"
  /\ \/ /\ IsGone(c) \/ (IsIdle(c) /\ stopFlag)
        /\ LeaveLoop(c)
     \/ /\ IsIdle(c) /\ ~stopFlag
        /\ Send(c, "ErrorReport")
        /\ EndSession(c)
        /\ UNCHANGED <<publicationVars, clients, hungUp, registered, signalled, accepting,
                       stopFlag, owner>>

ForgetRegistration(c) ==
  /\ \/ /\ session[c] = "welcome"
        /\ Send(c, "Welcome")
        /\ session' = [session EXCEPT ![c] = "serving"]
        /\ UNCHANGED inbox
     \/ /\ session[c] = "rejecting"
        /\ Send(c, "Rejected")
        /\ EndSession(c)
     \/ /\ session[c] = "welcome"
        /\ c \in hungUp
        /\ session' = [session EXCEPT ![c] = "finished"]
        /\ UNCHANGED <<inbox, outbox>>
  /\ UNCHANGED <<publicationVars, clients, hungUp, registered, signalled, accepting,
                 stopFlag, owner>>

\* The Welcome; sending it may fail once the peer is gone.
SendWelcome(c) ==
  /\ \/ /\ session[c] = "welcome"
        /\ Send(c, "Welcome")
        /\ session' = [session EXCEPT ![c] = "serving"]
        /\ UNCHANGED inbox
     \/ /\ session[c] = "rejecting"
        /\ Send(c, "Rejected")
        /\ EndSession(c)
     \/ /\ session[c] = "welcome"
        /\ c \in hungUp
        /\ EndSession(c)
        /\ UNCHANGED outbox
  /\ UNCHANGED <<publicationVars, clients, hungUp, registered, signalled, accepting,
                 stopFlag, owner>>

-----------------------------------------------------------------------------
\* run_session: the serving loop.

\* The next frame of a served connection is one of kinds.
Serves(c, kinds) ==
  /\ session[c] = "serving"
  /\ inbox[c] # <<>>
  /\ Head(inbox[c]) \in kinds

\* It is taken, and what is to be sent for it remains.
TakeRequest(c, kinds, step) ==
  /\ Serves(c, kinds)
  /\ Consume(c)
  /\ session' = [session EXCEPT ![c] = step]
  /\ UNCHANGED <<clients, outbox, hungUp, registered, signalled, accepting, stopFlag, owner>>

\* An answer, its last part or one before; the session ends if it cannot be sent.
Answer(c) ==
  /\ \/ /\ session[c] = "replying"
        /\ Send(c, "Part")
        /\ session' = [session EXCEPT ![c] = "answering"]
        /\ UNCHANGED inbox
     \/ /\ session[c] = "answering"
        /\ Send(c, "Answer")
        /\ session' = [session EXCEPT ![c] = "serving"]
        /\ UNCHANGED inbox
     \/ /\ session[c] \in {"replying", "answering"}
        /\ c \in hungUp
        /\ EndSession(c)
        /\ UNCHANGED outbox
  /\ UNCHANGED <<publicationVars, clients, hungUp, registered, signalled, accepting,
                 stopFlag, owner>>

\* The answer of a query may be more than a connection holds.
ServeQuery(c) ==
  /\ \/ TakeRequest(c, {"Heartbeat"}, "answering")
     \/ TakeRequest(c, {"Query"}, "replying")
  /\ UNCHANGED publicationVars

\* The session's part of a publication.
TakesPublication(c) == ~profile[c].observer /\ TakeRequest(c, PublicationIds, "answering")

\* engine_->publish, rejections included.
ServePublish(c) ==
  /\ TakesPublication(c)
  /\ LET pub == CHOOSE pub \in Publications : pub.id = Head(inbox[c])
         ctx == Identity(c)
     IN  \/ Publish(ctx, pub)
         \/ /\ ~Accepts(ctx, pub, Candidate(nodes, edges, ctx, pub))
            /\ UNCHANGED publicationVars

\* An observer that publishes, or a frame that has no place here.
ServeViolation(c) ==
  /\ TakeRequest(c, {"Hello", "Unexpected"} \cup (IF profile[c].observer THEN PublicationIds ELSE {}),
                 "refusing")
  /\ UNCHANGED publicationVars

ReportViolation(c) ==
  /\ session[c] = "refusing"
  /\ Send(c, "ErrorReport")
  /\ EndSession(c)
  /\ UNCHANGED <<publicationVars, clients, hungUp, registered, signalled, accepting,
                 stopFlag, owner>>

ServeShutdown(c) ==
  /\ TakeRequest(c, {"ShutdownRequest"}, "stopping")
  /\ UNCHANGED publicationVars

\* The stop flag is raised once the Goodbye is sent; joining is left to the owner.
RaiseStopFlag(c) ==
  /\ session[c] = "stopping"
  /\ Send(c, "Goodbye")
  /\ stopFlag' = TRUE
  /\ EndSession(c)
  /\ UNCHANGED <<publicationVars, clients, hungUp, registered, signalled, accepting, owner>>

ServeGoodbye(c) ==
  /\ Serves(c, {"Goodbye"})
  /\ LeaveLoop(c)

IgnorePeerLoss(c) ==
  /\ session[c] = "serving"
  /\ c \in signalled \/ (IsIdle(c) /\ stopFlag)
  /\ LeaveLoop(c)

IgnoreStopWhileServing(c) ==
  /\ session[c] = "serving"
  /\ IsGone(c)
  /\ LeaveLoop(c)

\* The peer is gone, or has nothing to say while the coordinator stops.
EndServing(c) ==
  /\ session[c] = "serving"
  /\ IsGone(c) \/ (IsIdle(c) /\ stopFlag)
  /\ LeaveLoop(c)

-----------------------------------------------------------------------------
\* run_session: the end.

SkipFenceBoot(c) ==
  /\ session[c] = "fence_boot"
  /\ session' = [session EXCEPT ![c] = "fence_publisher"]
  /\ UNCHANGED <<publicationVars, clients, links, registered, signalled, accepting,
                 stopFlag, owner>>

\* engine_->fence_boot
SessionFencesBoot(c) ==
  /\ session[c] = "fence_boot"
  /\ FenceBoot(profile[c].worker_boot)
  /\ session' = [session EXCEPT ![c] = "fence_publisher"]
  /\ UNCHANGED <<attempts, clients, links, registered, signalled, accepting, stopFlag, owner>>

FenceWhoeverIsRegistered(c) ==
  /\ session[c] = "fence_publisher"
  /\ FencePublisher(profile[c].publisher, publishers[profile[c].publisher].worker_boot)
  /\ session' = [session EXCEPT ![c] = "finished"]
  /\ UNCHANGED <<attempts, clients, links, registered, signalled, accepting, stopFlag, owner>>

\* engine_->fence_publisher, which another session's registration may precede.
SessionFencesPublisher(c) ==
  /\ session[c] = "fence_publisher"
  /\ FencePublisher(profile[c].publisher, profile[c].worker_boot)
  /\ session' = [session EXCEPT ![c] = "finished"]
  /\ UNCHANGED <<attempts, clients, links, registered, signalled, accepting, stopFlag, owner>>

OtherSessionSteps(c) ==
  \/ HandleHello(c)
  \/ RefuseFirstFrame(c)
  \/ EndHandshake(c)
  \/ SendWelcome(c)
  \/ ServeQuery(c)
  \/ Answer(c)
  \/ ServeViolation(c)
  \/ ReportViolation(c)
  \/ ServeShutdown(c)
  \/ RaiseStopFlag(c)
  \/ ServeGoodbye(c)
  \/ EndServing(c)
  \/ SessionFencesBoot(c)
  \/ SessionFencesPublisher(c)

SessionThread(c) == ServePublish(c) \/ OtherSessionSteps(c)

-----------------------------------------------------------------------------
\* The owner: the end of main, and stop().

\* main leaves its loop (--exit-after-seconds) and calls stop().  A stop flag
\* that a session raised before makes stop() return at once.
CallStop ==
  /\ owner = "main"
  /\ stopFlag' = TRUE
  /\ owner' = IF stopFlag THEN "save" ELSE "signal"
  /\ UNCHANGED <<publicationVars, clients, links, session, registered, signalled, accepting>>

\* The sessions known now are signalled, and only those will be joined.
SignalSessions ==
  /\ owner = "signal"
  /\ signalled' = Sessions
  /\ owner' = "join_listener"
  /\ UNCHANGED <<publicationVars, clients, links, session, registered, accepting, stopFlag>>

JoinListener ==
  /\ owner = "join_listener"
  /\ accepting = "exited"
  /\ owner' = "join_sessions"
  /\ UNCHANGED <<publicationVars, clients, links, session, registered, signalled, accepting,
                 stopFlag>>

JoinNobody ==
  /\ owner = "join_sessions"
  /\ owner' = "save"
  /\ UNCHANGED <<publicationVars, clients, links, session, registered, signalled, accepting,
                 stopFlag>>

JoinSessions ==
  /\ owner = "join_sessions"
  /\ \A c \in signalled : session[c] = "finished"
  /\ owner' = "save"
  /\ UNCHANGED <<publicationVars, clients, links, session, registered, signalled, accepting,
                 stopFlag>>

\* The final save; then main returns and the process is gone.
SaveAndExit ==
  /\ owner = "save"
  /\ Save
  /\ owner' = "exited"
  /\ UNCHANGED <<attempts, clients, links, session, registered, signalled, accepting, stopFlag>>

FinishStop == SignalSessions \/ JoinListener \/ JoinSessions \/ SaveAndExit

\* Nothing comes from or goes to a client any more whose session is past its loops.
HasPeer(c) == session[c] \notin {"dropped", "fence_boot", "fence_publisher", "finished"}

\* Once the process is gone the clients have nobody to talk to.
CoordinatorNext ==
  \/ \E c \in DOMAIN profile : IsUp /\ HasPeer(c) /\ ClientStep(c)
  \/ \E c \in DOMAIN profile : IsUp /\ SessionThread(c)
  \/ IsUp /\ AcceptThread
  \/ IsUp /\ CallStop
  \/ IsUp /\ FinishStop

\* A step of a session thread, whatever publish answers: every one of them
\* consumes a frame or moves the session on.
SessionTurn(c) == TakesPublication(c) \/ OtherSessionSteps(c)

\* The threads of the process run; clients, the network and the operator owe
\* nothing.  A session blocked in send has no step to take.  That some session
\* thread runs is enough, as none can run for ever.
CoordinatorSpec ==
  /\ CoordinatorInit
  /\ [][CoordinatorNext]_coordinatorVars
  /\ WF_accepting(IsUp /\ AcceptThread)
  /\ WF_<<session, inbox>>(IsUp /\ \E c \in DOMAIN profile : SessionTurn(c))
  /\ WF_owner(IsUp /\ FinishStop)

-----------------------------------------------------------------------------
\* Correctness.

\* The session of connection c may still act under its registration.
IsBacked(c, p, b) ==
  /\ registered[c]
  /\ profile[c].publisher = p
  /\ profile[c].worker_boot = b
  /\ session[c] \in {"welcome", "serving", "fence_boot"} \cup Sending

\* Whichever way sessions end and whoever registers meanwhile, a relationship
\* is current only while a session of the incarnation that asserted it lives:
\* "durable structure survives, live currentness does not".
CurrentEdgesHaveSession ==
  \A e \in CurrentEdges(edges) :
    \E c \in Connections :
      IsBacked(c, edges[e].provenance.publisher, edges[e].provenance.worker_boot)

\* A registration that can still write belongs to a session that has not ended:
\* also when the peer is lost before its Welcome could be sent.
AuthorityHasSession ==
  \A p \in DOMAIN publishers :
    publishers[p].fenced
    \/ publishers[p].worker_boot \in fenced_boots
    \/ \E c \in Connections : IsBacked(c, p, publishers[p].worker_boot)

\* The end of an old session never fences the registration of a newer
\* incarnation of the same publisher: fence_boot and fence_publisher are two
\* calls, and the new incarnation may register before, between or after them.
FencingSparesNewIncarnation ==
  \A p \in DOMAIN publishers :
    publishers[p].fenced =>
      \E c \in DOMAIN profile :
        /\ profile[c].publisher = p
        /\ profile[c].worker_boot = publishers[p].worker_boot
        /\ session[c] \in {"fence_publisher", "finished"}

\* After a stop that joined the sessions it found, and missed none, the image
\* left behind claims nothing current: every session fenced its boot before the
\* last save.
OrderlyStopLeavesNothingCurrent ==
  owner = "exited" /\ signalled # {} /\ Sessions \subseteq signalled =>
    CurrentEdges(image.edges) = {}

HoldsNothing(c) ==
  /\ profile[c].worker_boot \in fenced_boots
  /\ \A e \in CurrentEdges(edges) :
       edges[e].provenance.worker_boot # profile[c].worker_boot

\* When the coordinator's socket learns that the peer of a registered session is
\* gone, its boot is fenced and nothing it asserted stays current.  Of a peer that
\* vanished without a trace nothing is said: its session is idle for ever.
PeerLossFencesBoot ==
  (\E c \in Connections : registered[c] /\ c \in hungUp) ~>
     \/ owner = "exited"
     \/ \A c \in Connections : registered[c] /\ c \in hungUp => HoldsNothing(c)

\* "A peer that connects and never speaks" does not keep its session.
SilentPeersAreDropped ==
  (\E c \in Connections : session[c] = "handshake") ~>
     \/ owner = "exited"
     \/ \A c \in Connections : session[c] # "handshake"

\* The session of c is in send, and the connection is full.
IsBlocked(c) == session[c] \in Sending /\ ~HasRoom(c)

\* Once the stop flag is raised, by the owner or by a ShutdownRequest, no new
\* connection keeps the accept thread and every session comes to its end, but for
\* those that a peer keeps in send which neither reads nor is known to be gone.
StopDrains ==
  stopFlag ~>
    \/ owner = "exited"
    \/ /\ accepting = "exited"
       /\ \A c \in Sessions : session[c] = "finished" \/ IsBlocked(c)

\* stop() returns unless a peer keeps a session in send: neither the accept thread
\* nor a session that is served, silent, vanished or in the middle of its end can
\* keep the owner waiting.
StopReturns ==
  owner # "main" ~> owner = "exited" \/ \E c \in signalled : IsBlocked(c)

=============================================================================
