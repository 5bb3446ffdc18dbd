-------------------------- MODULE CoordinatorProofs --------------------------
(***************************************************************************)
(* Proofs about Coordinator: its process runs the engine of module         *)
(* Publication, so what is proved of the engine holds of the coordinator,  *)
(* and its session threads, in whatever order they run, keep authority     *)
(* and currentness with the sessions.                                      *)
(***************************************************************************)
EXTENDS Coordinator, PublicationProofs

-----------------------------------------------------------------------------
(***************************************************************************)
(* Types.                                                                  *)
(***************************************************************************)

\* The sessions can be counted, and no restart or administrator moves the epoch
\* of the process.
ThreadsOK ==
  /\ CoordinatorTypeOK
  /\ IsFiniteSet(Sessions)
  /\ coordinator_epoch = InitialEpoch

LEMMA InitThreads == CoordinatorInit => ThreadsOK
<1> SUFFICES ASSUME CoordinatorInit PROVE ThreadsOK
  OBVIOUS
<1>1. Sessions = {} /\ MaxSessions \in Nat
  BY CoordinatorConstants DEF CoordinatorInit, Sessions
<1>2. IsFiniteSet(Sessions) /\ Cardinality(Sessions) <= MaxSessions
  BY <1>1, FS_EmptySet
<1>3. MaxRequests \in Nat
  BY CoordinatorConstants
<1>4. inbox \in [Connections -> Seq(Frames)] /\ outbox \in [Connections -> Seq(Replies)]
  <2>1. <<>> \in Seq(Frames) /\ <<>> \in Seq(Replies)
    OBVIOUS
  <2> QED
    BY <2>1 DEF CoordinatorInit
<1>5. /\ client \in [Connections -> ClientStates]
      /\ session \in [Connections -> SessionStates]
      /\ registered \in [Connections -> BOOLEAN]
  BY DEF CoordinatorInit, ClientStates, SessionStates
<1>6. requests \in [Connections -> 0..MaxRequests]
  BY <1>3 DEF CoordinatorInit
<1>7. /\ profile \in Profiles
      /\ hungUp \subseteq Connections /\ signalled \subseteq Connections
      /\ accepting \in {"check", "select", "exited"}
      /\ stopFlag \in BOOLEAN
      /\ owner \in OwnerStates
      /\ coordinator_epoch = InitialEpoch
  BY DEF CoordinatorInit, PublicationInit, Init, OwnerStates
<1> QED
  BY <1>2, <1>4, <1>5, <1>6, <1>7 DEF ThreadsOK, CoordinatorTypeOK

\* A connection with a client has a profile of the right type.
LEMMA ProfilesAreTyped ==
  ASSUME profile \in Profiles
  PROVE  /\ DOMAIN profile \subseteq Connections
         /\ \A c \in DOMAIN profile :
              /\ profile[c].publisher \in Publishers
              /\ profile[c].worker_boot \in Boots
              /\ profile[c].observer \in BOOLEAN
              /\ profile[c].sends \subseteq Frames
BY CoordinatorConstants

\* The session of a connection goes from one place to another.
LEMMA SessionMoves ==
  ASSUME ThreadsOK, NEW c \in Connections, session[c] \notin {"none", "dropped"},
         NEW s \in SessionStates \ {"none", "dropped"}, session' = [session EXCEPT ![c] = s]
  PROVE  /\ session' \in [Connections -> SessionStates]
         /\ Sessions' = Sessions
<1>1. session \in [Connections -> SessionStates]
  BY DEF ThreadsOK, CoordinatorTypeOK
<1>2. session' \in [Connections -> SessionStates]
  BY <1>1
<1>3. \A d \in Connections :
        session'[d] \notin {"none", "dropped"} <=> session[d] \notin {"none", "dropped"}
  BY <1>1
<1> QED
  BY <1>2, <1>3 DEF Sessions

\* What the threads of the process may do to its variables, types aside.
ThreadsTyped ==
  /\ session' \in [Connections -> SessionStates]
  /\ registered' \in [Connections -> BOOLEAN]
  /\ Cardinality(Sessions') <= MaxSessions
  /\ IsFiniteSet(Sessions')

LEMMA ThreadsStayTyped ==
  ASSUME ThreadsOK, UNCHANGED <<session, registered>>
  PROVE  ThreadsTyped
BY DEF ThreadsOK, CoordinatorTypeOK, ThreadsTyped, Sessions

LEMMA MovesAreTyped ==
  ASSUME ThreadsOK, NEW c \in Connections, session[c] \notin {"none", "dropped"},
         NEW s \in SessionStates \ {"none", "dropped"}, session' = [session EXCEPT ![c] = s],
         \/ UNCHANGED registered
         \/ \E b \in BOOLEAN : registered' = [registered EXCEPT ![c] = b]
  PROVE  ThreadsTyped
<1>1. Sessions' = Sessions /\ session' \in [Connections -> SessionStates]
  BY SessionMoves
<1> QED
  BY <1>1 DEF ThreadsOK, CoordinatorTypeOK, ThreadsTyped

\* What a step may do to the connections and to their clients.
LinksTyped ==
  /\ inbox' \in [Connections -> Seq(Frames)]
  /\ outbox' \in [Connections -> Seq(Replies)]
  /\ hungUp' \subseteq Connections

ClientsTyped ==
  /\ client' \in [Connections -> ClientStates]
  /\ profile' \in Profiles
  /\ requests' \in [Connections -> 0..MaxRequests]

ProcessTyped ==
  /\ signalled' \subseteq Connections
  /\ accepting' \in {"check", "select", "exited"}
  /\ stopFlag' \in BOOLEAN
  /\ owner' \in OwnerStates
  /\ coordinator_epoch' = InitialEpoch

LEMMA Typed ==
  ASSUME ThreadsTyped, LinksTyped, ClientsTyped, ProcessTyped
  PROVE  ThreadsOK'
BY DEF ThreadsTyped, LinksTyped, ClientsTyped, ProcessTyped, ThreadsOK, CoordinatorTypeOK

LEMMA LinkTypes ==
  ASSUME ThreadsOK
  PROVE  /\ inbox \in [Connections -> Seq(Frames)]
         /\ outbox \in [Connections -> Seq(Replies)]
         /\ hungUp \subseteq Connections
BY DEF ThreadsOK, CoordinatorTypeOK

LEMMA LinksStayTyped ==
  ASSUME ThreadsOK
  PROVE  /\ UNCHANGED inbox => inbox' \in [Connections -> Seq(Frames)]
         /\ UNCHANGED outbox => outbox' \in [Connections -> Seq(Replies)]
         /\ UNCHANGED hungUp => hungUp' \subseteq Connections
BY LinkTypes

LEMMA ClientsStayTyped ==
  ASSUME ThreadsOK, UNCHANGED clients
  PROVE  ClientsTyped
BY DEF ThreadsOK, CoordinatorTypeOK, clients, ClientsTyped

LEMMA DeliverTyped ==
  ASSUME ThreadsOK, NEW c \in Connections, NEW frame \in Frames, Deliver(c, frame)
  PROVE  inbox' \in [Connections -> Seq(Frames)]
<1>1. inbox \in [Connections -> Seq(Frames)]
  BY LinkTypes
<1>2. Append(inbox[c], frame) \in Seq(Frames)
  BY <1>1
<1> QED
  BY <1>1, <1>2 DEF Deliver

LEMMA SendTyped ==
  ASSUME ThreadsOK, NEW c \in Connections, NEW frame \in Replies, Send(c, frame)
  PROVE  outbox' \in [Connections -> Seq(Replies)]
<1>1. outbox \in [Connections -> Seq(Replies)]
  BY LinkTypes
<1>2. Append(outbox[c], frame) \in Seq(Replies)
  BY <1>1
<1> QED
  BY <1>1, <1>2 DEF Send

LEMMA ConsumeTyped ==
  ASSUME ThreadsOK, NEW c \in Connections, inbox[c] # <<>>, Consume(c)
  PROVE  inbox' \in [Connections -> Seq(Frames)] /\ Head(inbox[c]) \in Frames
<1>1. inbox \in [Connections -> Seq(Frames)]
  BY LinkTypes
<1>2. inbox[c] \in Seq(Frames)
  BY <1>1
<1>3. Tail(inbox[c]) \in Seq(Frames) /\ Head(inbox[c]) \in Frames
  BY <1>2
<1> QED
  BY <1>1, <1>3 DEF Consume

LEMMA EndSessionTyped ==
  ASSUME ThreadsOK, NEW c \in Connections, session[c] \notin {"none", "dropped"},
         EndSession(c), UNCHANGED registered
  PROVE  ThreadsTyped /\ inbox' \in [Connections -> Seq(Frames)]
<1>1. PICK s \in {"fence_boot", "finished"} : session' = [session EXCEPT ![c] = s]
  BY DEF EndSession
<1>2. ThreadsTyped
  BY <1>1, MovesAreTyped DEF SessionStates
<1>3. inbox \in [Connections -> Seq(Frames)] /\ <<>> \in Seq(Frames)
  BY LinkTypes
<1> QED
  BY <1>2, <1>3 DEF EndSession

LEMMA HangUpTyped ==
  ASSUME ThreadsOK, NEW c \in Connections, HangUp(c), UNCHANGED profile
  PROVE  /\ ClientsTyped
         /\ outbox' \in [Connections -> Seq(Replies)]
         /\ hungUp' \subseteq Connections
<1>1. outbox \in [Connections -> Seq(Replies)] /\ <<>> \in Seq(Replies) /\ hungUp \subseteq Connections
  BY LinkTypes
<1>2. MaxRequests \in Nat
  BY CoordinatorConstants
<1>3. ClientsTyped
  BY <1>2 DEF HangUp, ClientsTyped, ThreadsOK, CoordinatorTypeOK, ClientStates
<1> QED
  BY <1>1, <1>3 DEF HangUp

-----------------------------------------------------------------------------
\* Every step of a client keeps the types.
LEMMA ClientStepTyped ==
  ASSUME ThreadsOK, NEW c \in DOMAIN profile, ClientStep(c)
  PROVE  ThreadsOK'
<1>1. profile \in Profiles
  BY DEF ThreadsOK, CoordinatorTypeOK
<1>2. c \in Connections /\ profile[c].sends \subseteq Frames
  BY <1>1, ProfilesAreTyped
<1>3. UNCHANGED <<publicationVars, profile, threads>>
  BY DEF ClientStep, Connect, SendRequest, ReceiveAnswer, MissAnswer, Close, Crash, Vanish,
         NoticeLoss
<1>4. ThreadsTyped /\ ProcessTyped
  <2>1. ProcessTyped
    BY <1>3 DEF ProcessTyped, threads, publicationVars, vars, ThreadsOK, CoordinatorTypeOK
  <2> QED
    BY <1>3, <2>1, ThreadsStayTyped DEF threads
<1>5. /\ client \in [Connections -> ClientStates]
      /\ requests \in [Connections -> 0..MaxRequests]
      /\ MaxRequests \in Nat
  BY CoordinatorConstants DEF ThreadsOK, CoordinatorTypeOK
<1>6. CASE Connect(c)
  <2>1. inbox' \in [Connections -> Seq(Frames)]
    BY <1>2, <1>6, DeliverTyped, LinksStayTyped DEF Connect, Frames
  <2>2. LinksTyped
    BY <1>6, <2>1, LinksStayTyped DEF Connect, LinksTyped
  <2>3. ClientsTyped
    BY <1>1, <1>5, <1>6 DEF Connect, ClientsTyped, ClientStates
  <2> QED
    BY <1>4, <2>2, <2>3, Typed
<1>7. ASSUME NEW frame \in profile[c].sends, SendRequest(c, frame)
      PROVE  ThreadsOK'
  <2>1. inbox' \in [Connections -> Seq(Frames)]
    BY <1>2, <1>7, DeliverTyped DEF SendRequest
  <2>2. LinksTyped
    BY <1>7, <2>1, LinksStayTyped DEF SendRequest, LinksTyped
  <2>3. ClientsTyped
    BY <1>1, <1>2, <1>5, <1>7 DEF SendRequest, ClientsTyped, ClientStates
  <2> QED
    BY <1>4, <2>2, <2>3, Typed
<1>8. CASE ReceiveAnswer(c)
  <2>1. outbox \in [Connections -> Seq(Replies)] /\ outbox[c] # <<>>
    BY <1>8, LinkTypes DEF ReceiveAnswer
  <2>2. outbox[c] \in Seq(Replies)
    BY <1>2, <2>1
  <2>3. Tail(outbox[c]) \in Seq(Replies)
    BY <2>1, <2>2
  <2>4. LinksTyped
    BY <1>8, <2>1, <2>3, LinksStayTyped DEF ReceiveAnswer, LinksTyped
  <2>5. ClientsTyped
    BY <1>1, <1>5, <1>8 DEF ReceiveAnswer, ClientsTyped, ClientStates
  <2> QED
    BY <1>4, <2>4, <2>5, Typed
<1>9. CASE MissAnswer(c)
  <2>1. LinksTyped
    BY <1>9, LinksStayTyped DEF MissAnswer, LinksTyped, links
  <2>2. ClientsTyped
    BY <1>1, <1>5, <1>9 DEF MissAnswer, ClientsTyped, ClientStates
  <2> QED
    BY <1>4, <2>1, <2>2, Typed
<1>10. CASE Close(c)
  <2>1. inbox' \in [Connections -> Seq(Frames)]
    BY <1>2, <1>10, DeliverTyped DEF Close, Frames
  <2> QED
    BY <1>2, <1>3, <1>4, <1>10, <2>1, HangUpTyped, Typed DEF Close, LinksTyped
<1>11. ASSUME ArrivesInPart(c)
       PROVE  inbox' \in [Connections -> Seq(Frames)]
  <2>1. PICK k \in 0..Len(inbox[c]) : inbox' = [inbox EXCEPT ![c] = SubSeq(@, 1, k)]
    BY <1>11 DEF ArrivesInPart
  <2>2. inbox \in [Connections -> Seq(Frames)]
    BY LinkTypes
  <2>3. inbox[c] \in Seq(Frames)
    BY <1>2, <2>2
  <2>4. SubSeq(inbox[c], 1, k) \in Seq(Frames)
    BY <2>1, <2>3
  <2> QED
    BY <2>1, <2>2, <2>4
<1>12. CASE Crash(c)
  BY <1>2, <1>3, <1>4, <1>11, <1>12, HangUpTyped, Typed DEF Crash, LinksTyped
<1>13. CASE Vanish(c)
  <2>1. LinksTyped
    BY <1>11, <1>13, LinksStayTyped DEF Vanish, LinksTyped
  <2>2. ClientsTyped
    <3>1. client' \in [Connections -> ClientStates]
      BY <1>5, <1>13 DEF Vanish, ClientStates
    <3>2. requests' \in [Connections -> 0..MaxRequests]
      <4>1. requests' = [requests EXCEPT ![c] = 0] /\ 0 \in 0..MaxRequests
        BY <1>5, <1>13 DEF Vanish
      <4> QED
        BY <1>5, <4>1
    <3> QED
      BY <1>1, <1>13, <3>1, <3>2 DEF Vanish, ClientsTyped
  <2> QED
    BY <1>4, <2>1, <2>2, Typed
<1>14. CASE NoticeLoss(c)
  BY <1>2, <1>3, <1>4, <1>14, HangUpTyped, LinksStayTyped, Typed DEF NoticeLoss, LinksTyped
<1> QED
  BY <1>6, <1>7, <1>8, <1>9, <1>10, <1>12, <1>13, <1>14 DEF ClientStep

\* The accept thread never lets the sessions exceed max_sessions.
LEMMA AcceptThreadTyped ==
  ASSUME ThreadsOK, AcceptThread
  PROVE  ThreadsOK'
<1>1. ClientsTyped
  BY ClientsStayTyped DEF AcceptThread, CheckStopFlag, AcceptNobody, AcceptFails, Accept
<1>2. ProcessTyped
  BY DEF AcceptThread, CheckStopFlag, AcceptNobody, AcceptFails, Accept, ProcessTyped, publicationVars, vars,
         ThreadsOK, CoordinatorTypeOK
<1>3. CASE CheckStopFlag \/ AcceptNobody \/ AcceptFails
  <2>1. LinksTyped
    BY <1>3, LinksStayTyped DEF CheckStopFlag, AcceptNobody, AcceptFails, links, LinksTyped
  <2>2. ThreadsTyped
    BY <1>3, ThreadsStayTyped DEF CheckStopFlag, AcceptNobody, AcceptFails
  <2> QED
    BY <1>1, <1>2, <2>1, <2>2, Typed
<1>4. ASSUME NEW c \in Connections, Accept(c)
      PROVE  ThreadsOK'
  <2>1. outbox' \in [Connections -> Seq(Replies)]
    BY <1>4, SendTyped, LinksStayTyped DEF Accept, Replies
  <2>2. LinksTyped
    BY <1>4, <2>1, LinksStayTyped DEF Accept, LinksTyped
  <2>3. /\ session \in [Connections -> SessionStates]
        /\ registered \in [Connections -> BOOLEAN]
        /\ IsFiniteSet(Sessions)
        /\ Cardinality(Sessions) <= MaxSessions
        /\ session[c] = "none"
        /\ UNCHANGED registered
        /\ MaxSessions \in Nat
    BY <1>4, CoordinatorConstants DEF ThreadsOK, CoordinatorTypeOK, Accept, Waiting
  <2>4. c \notin Sessions /\ Cardinality(Sessions) \in Nat
    BY <2>3, FS_CardinalityType DEF Sessions
  <2>5. CASE Cardinality(Sessions) < MaxSessions /\ session' = [session EXCEPT ![c] = "handshake"]
    <3>1. session' \in [Connections -> SessionStates]
      BY <2>3, <2>5 DEF SessionStates
    <3>2. Sessions' = Sessions \cup {c}
      BY <2>3, <2>5 DEF Sessions
    <3>3. IsFiniteSet(Sessions') /\ Cardinality(Sessions') = Cardinality(Sessions) + 1
      BY <2>3, <2>4, <3>2, FS_AddElement
    <3>4. Cardinality(Sessions') <= MaxSessions
      BY <2>3, <2>4, <2>5, <3>3
    <3> QED
      BY <1>1, <1>2, <2>2, <2>3, <3>1, <3>3, <3>4, Typed DEF ThreadsTyped
  <2>6. CASE session' = [session EXCEPT ![c] = "dropped"]
    <3>1. session' \in [Connections -> SessionStates]
      BY <2>3, <2>6 DEF SessionStates
    <3>2. Sessions' = Sessions
      BY <2>3, <2>6 DEF Sessions
    <3> QED
      BY <1>1, <1>2, <2>2, <2>3, <3>1, <3>2, Typed DEF ThreadsTyped
  <2> QED
    BY <1>4, <2>5, <2>6 DEF Accept
<1> QED
  BY <1>3, <1>4 DEF AcceptThread

\* Operations of the engine that sessions and the owner call.
LEMMA EngineKeepsEpoch ==
  /\ \A c : Register(c) => UNCHANGED coordinator_epoch
  /\ \A ctx, pub : Publish(ctx, pub) => UNCHANGED coordinator_epoch
  /\ \A b : FenceBoot(b) => UNCHANGED coordinator_epoch
  /\ \A p, b : FencePublisher(p, b) => UNCHANGED coordinator_epoch
  /\ Save => UNCHANGED coordinator_epoch
  /\ UNCHANGED publicationVars => UNCHANGED coordinator_epoch
BY DEF Register, RegisterPublisher, Publish, FenceBoot, FencePublisher, Save, authority,
       publicationVars, vars

\* The session takes the next frame, and has something to send for it.
LEMMA TakesRequest ==
  ASSUME NEW c, ServeQuery(c) \/ ServePublish(c) \/ ServeViolation(c) \/ ServeShutdown(c)
  PROVE  /\ session[c] = "serving" /\ inbox[c] # <<>> /\ Consume(c)
         /\ \E step \in Sending : session' = [session EXCEPT ![c] = step]
         /\ UNCHANGED <<clients, outbox, hungUp, registered, signalled, accepting, stopFlag, owner>>
BY DEF ServeQuery, ServePublish, TakesPublication, ServeViolation, ServeShutdown, TakeRequest,
       Serves, Sending

\* The session sends an answer, or a part of it, and stays, or ends.
LEMMA SendsAnswer ==
  ASSUME NEW c, Answer(c)
  PROVE  /\ session[c] \in {"replying", "answering"}
         /\ \/ /\ \E step \in {"answering", "serving"} : session' = [session EXCEPT ![c] = step]
               /\ UNCHANGED inbox
               /\ Send(c, "Part") \/ Send(c, "Answer")
            \/ EndSession(c) /\ UNCHANGED outbox
         /\ UNCHANGED <<publicationVars, clients, hungUp, registered, signalled, accepting,
                        stopFlag, owner>>
BY DEF Answer

\* The session leaves its loops.
LeavesLoops(c) ==
  \/ RefuseFirstFrame(c) \/ EndHandshake(c) \/ EndServing(c)
  \/ ReportViolation(c) \/ RaiseStopFlag(c) \/ ServeGoodbye(c)

LEMMA LeavesLoopsFor ==
  ASSUME NEW c, LeavesLoops(c)
  PROVE  /\ session[c] \in {"handshake", "serving", "refusing", "stopping"}
         /\ EndSession(c)
         /\ UNCHANGED outbox \/ Send(c, "ErrorReport") \/ Send(c, "Goodbye")
         /\ UNCHANGED <<publicationVars, clients, hungUp, registered, signalled, accepting, owner>>
         /\ stopFlag' = stopFlag \/ stopFlag' = TRUE
BY DEF LeavesLoops, RefuseFirstFrame, EndHandshake, EndServing, ReportViolation, RaiseStopFlag,
       ServeGoodbye, Serves, LeaveLoop

LEMMA SessionStepsAre ==
  ASSUME NEW c, SessionThread(c)
  PROVE  \/ HandleHello(c) \/ SendWelcome(c) \/ ServePublish(c) \/ Answer(c) \/ LeavesLoops(c)
         \/ ServeQuery(c) \/ ServeViolation(c) \/ ServeShutdown(c)
         \/ SessionFencesBoot(c) \/ SessionFencesPublisher(c)
BY DEF SessionThread, OtherSessionSteps, LeavesLoops

\* Everything else a step of a session leaves alone.
SessionFrame ==
  /\ UNCHANGED <<clients, hungUp, signalled, accepting, owner, coordinator_epoch>>
  /\ stopFlag' \in BOOLEAN

LEMMA SessionFrameTyped ==
  ASSUME ThreadsOK, SessionFrame
  PROVE  ClientsTyped /\ ProcessTyped /\ hungUp' \subseteq Connections
<1>1. ClientsTyped
  BY ClientsStayTyped DEF SessionFrame
<1> QED
  BY <1>1 DEF SessionFrame, ProcessTyped, ThreadsOK, CoordinatorTypeOK

LEMMA SessionStepsFrame ==
  ASSUME ThreadsOK, NEW c \in DOMAIN profile, SessionThread(c)
  PROVE  SessionFrame
<1>1. stopFlag \in BOOLEAN
  BY DEF ThreadsOK, CoordinatorTypeOK
<1>2. CASE HandleHello(c)
  <2>1. UNCHANGED coordinator_epoch
    BY <1>2, EngineKeepsEpoch DEF HandleHello, vars
  <2> QED
    BY <1>1, <1>2, <2>1 DEF HandleHello, SessionFrame
<1>3. CASE SendWelcome(c)
  BY <1>1, <1>3, EngineKeepsEpoch DEF SendWelcome, SessionFrame
<1>4. CASE LeavesLoops(c) \/ Answer(c)
  BY <1>1, <1>4, LeavesLoopsFor, SendsAnswer, EngineKeepsEpoch DEF SessionFrame
<1>5. CASE ServeQuery(c) \/ ServePublish(c) \/ ServeViolation(c) \/ ServeShutdown(c)
  <2>1. UNCHANGED coordinator_epoch
    BY <1>5, EngineKeepsEpoch DEF ServeQuery, ServePublish, ServeViolation, ServeShutdown
  <2> QED
    BY <1>1, <1>5, <2>1, TakesRequest DEF SessionFrame
<1>6. CASE SessionFencesBoot(c) \/ SessionFencesPublisher(c)
  <2>1. UNCHANGED coordinator_epoch
    BY <1>6, EngineKeepsEpoch DEF SessionFencesBoot, SessionFencesPublisher
  <2> QED
    BY <1>1, <1>6, <2>1 DEF SessionFencesBoot, SessionFencesPublisher, links, SessionFrame
<1> QED
  BY <1>2, <1>3, <1>4, <1>5, <1>6, SessionStepsAre

\* Every step of a session keeps the types.
LEMMA SessionThreadTyped ==
  ASSUME ThreadsOK, NEW c \in DOMAIN profile, SessionThread(c)
  PROVE  ThreadsOK'
<1>1. c \in Connections
  BY ProfilesAreTyped DEF ThreadsOK, CoordinatorTypeOK
<1>2. ClientsTyped /\ ProcessTyped /\ hungUp' \subseteq Connections
  BY SessionStepsFrame, SessionFrameTyped
<1> SUFFICES /\ ThreadsTyped
             /\ inbox' \in [Connections -> Seq(Frames)]
             /\ outbox' \in [Connections -> Seq(Replies)]
  BY <1>2, Typed DEF LinksTyped
<1>3. CASE HandleHello(c)
  <2>1. PICK s \in {"welcome", "rejecting"} : session' = [session EXCEPT ![c] = s]
    BY <1>3 DEF HandleHello
  <2>2. /\ inbox' \in [Connections -> Seq(Frames)]
        /\ outbox' \in [Connections -> Seq(Replies)]
    BY <1>1, <1>3, ConsumeTyped, LinksStayTyped DEF HandleHello
  <2>3. MayRegister(c) \in BOOLEAN
    BY DEF MayRegister
  <2>4. \/ UNCHANGED registered
        \/ \E b \in BOOLEAN : registered' = [registered EXCEPT ![c] = b]
    BY <1>3, <2>3 DEF HandleHello
  <2>5. session[c] = "handshake"
    BY <1>3 DEF HandleHello
  <2> QED
    BY <1>1, <2>1, <2>2, <2>4, <2>5, MovesAreTyped DEF SessionStates
<1>4. CASE LeavesLoops(c)
  <2>1. outbox' \in [Connections -> Seq(Replies)]
    BY <1>1, <1>4, LeavesLoopsFor, SendTyped, LinksStayTyped DEF Replies
  <2> QED
    BY <1>1, <1>4, <2>1, LeavesLoopsFor, EndSessionTyped
<1>5. CASE SendWelcome(c)
  <2>1. outbox' \in [Connections -> Seq(Replies)]
    BY <1>1, <1>5, SendTyped, LinksStayTyped DEF SendWelcome, Replies
  <2>2. \/ session' = [session EXCEPT ![c] = "serving"] /\ UNCHANGED inbox
        \/ EndSession(c)
    BY <1>5 DEF SendWelcome
  <2>3. session[c] \in {"welcome", "rejecting"} /\ UNCHANGED registered
    BY <1>5 DEF SendWelcome
  <2> QED
    BY <1>1, <2>1, <2>2, <2>3, EndSessionTyped, MovesAreTyped, LinksStayTyped DEF SessionStates
<1>6. CASE Answer(c)
  <2>1. session[c] \in {"replying", "answering"} /\ UNCHANGED registered
    BY <1>6, SendsAnswer
  <2>2. CASE EndSession(c) /\ UNCHANGED outbox
    BY <1>1, <2>1, <2>2, EndSessionTyped, LinksStayTyped
  <2>3. ASSUME NEW step \in {"answering", "serving"}, session' = [session EXCEPT ![c] = step],
               UNCHANGED inbox, Send(c, "Part") \/ Send(c, "Answer")
        PROVE  /\ ThreadsTyped
               /\ inbox' \in [Connections -> Seq(Frames)]
               /\ outbox' \in [Connections -> Seq(Replies)]
    <3>1. outbox' \in [Connections -> Seq(Replies)]
      BY <1>1, <2>3, SendTyped DEF Replies
    <3> QED
      BY <1>1, <2>1, <2>3, <3>1, MovesAreTyped, LinksStayTyped DEF SessionStates, Sending
  <2> QED
    BY <1>6, <2>2, <2>3, SendsAnswer
<1>7. CASE ServeQuery(c) \/ ServePublish(c) \/ ServeViolation(c) \/ ServeShutdown(c)
  <2>1. PICK step \in Sending : session' = [session EXCEPT ![c] = step]
    BY <1>7, TakesRequest
  <2>2. /\ inbox' \in [Connections -> Seq(Frames)]
        /\ outbox' \in [Connections -> Seq(Replies)]
    BY <1>1, <1>7, TakesRequest, ConsumeTyped, LinksStayTyped
  <2> QED
    BY <1>1, <1>7, <2>1, <2>2, TakesRequest, MovesAreTyped DEF SessionStates, Sending
<1>9. CASE SessionFencesBoot(c) \/ SessionFencesPublisher(c)
  <2>1. PICK s \in {"fence_publisher", "finished"} : session' = [session EXCEPT ![c] = s]
    BY <1>9 DEF SessionFencesBoot, SessionFencesPublisher
  <2>2. session[c] \in {"fence_boot", "fence_publisher"} /\ UNCHANGED <<registered, links>>
    BY <1>9 DEF SessionFencesBoot, SessionFencesPublisher
  <2> QED
    BY <1>1, <2>1, <2>2, MovesAreTyped, LinksStayTyped DEF SessionStates, links
<1> QED
  BY <1>3, <1>4, <1>5, <1>6, <1>7, <1>9, SessionStepsAre

OwnerStep == CallStop \/ FinishStop

\* Every step of the owner keeps the types.
LEMMA OwnerTyped ==
  ASSUME ThreadsOK, OwnerStep
  PROVE  ThreadsOK'
<1>1. UNCHANGED <<clients, links, session, registered, accepting>>
  BY DEF OwnerStep, CallStop, FinishStop, SignalSessions, JoinListener, JoinSessions, SaveAndExit
<1>2. UNCHANGED coordinator_epoch
  BY EngineKeepsEpoch DEF OwnerStep, CallStop, FinishStop, SignalSessions, JoinListener,
                          JoinSessions, SaveAndExit
<1>3. Sessions \subseteq Connections
  BY DEF Sessions
<1>4. ProcessTyped
  BY <1>1, <1>2, <1>3
     DEF OwnerStep, CallStop, FinishStop, SignalSessions, JoinListener, JoinSessions, SaveAndExit,
         ProcessTyped, OwnerStates, ThreadsOK, CoordinatorTypeOK
<1>5. ClientsTyped /\ ThreadsTyped
  BY <1>1, ClientsStayTyped, ThreadsStayTyped
<1>6. LinksTyped
  BY <1>1, LinksStayTyped DEF links, LinksTyped
<1> QED
  BY <1>4, <1>5, <1>6, Typed

LEMMA StepsAreOf ==
  ASSUME CoordinatorNext
  PROVE  /\ IsUp
         /\ \/ \E c \in DOMAIN profile : ClientStep(c)
            \/ \E c \in DOMAIN profile : SessionThread(c)
            \/ AcceptThread
            \/ OwnerStep
BY DEF CoordinatorNext, OwnerStep

LEMMA StepsKeepThreads == ThreadsOK /\ [CoordinatorNext]_coordinatorVars => ThreadsOK'
<1>1. ASSUME ThreadsOK, UNCHANGED coordinatorVars
      PROVE  ThreadsOK'
  <2>1. ThreadsTyped
    BY <1>1, ThreadsStayTyped DEF coordinatorVars, threads
  <2>2. ClientsTyped /\ LinksTyped
    BY <1>1, ClientsStayTyped, LinksStayTyped DEF coordinatorVars, links, LinksTyped
  <2>3. ProcessTyped
    BY <1>1 DEF coordinatorVars, publicationVars, vars, threads, ProcessTyped, ThreadsOK,
                CoordinatorTypeOK
  <2> QED
    BY <2>1, <2>2, <2>3, Typed
<1> QED
  BY <1>1, StepsAreOf, ClientStepTyped, SessionThreadTyped, AcceptThreadTyped, OwnerTyped

LEMMA ThreadInvariant == CoordinatorSpec => []ThreadsOK
BY InitThreads, StepsKeepThreads, PTL DEF CoordinatorSpec

\* Threads and frames are what they can be, whatever clients send and however
\* their connections fail, and accept_loop never runs more than max_sessions
\* sessions.
THEOREM CoordinatorIsTyped == CoordinatorSpec => []CoordinatorTypeOK
<1>1. ThreadsOK => CoordinatorTypeOK
  BY DEF ThreadsOK
<1> QED
  BY <1>1, ThreadInvariant, PTL

-----------------------------------------------------------------------------
(***************************************************************************)
(* The process runs the engine.                                            *)
(***************************************************************************)

LEMMA IdentitiesAreContexts ==
  ASSUME ThreadsOK, NEW c \in DOMAIN profile
  PROVE  /\ Identity(c) \in Contexts
         /\ Identity(c).publisher = profile[c].publisher
         /\ Identity(c).worker_boot = profile[c].worker_boot
         /\ c \in Connections
<1>1. profile[c].publisher \in Publishers /\ profile[c].worker_boot \in Boots /\ c \in Connections
  BY ProfilesAreTyped DEF ThreadsOK, CoordinatorTypeOK
<1>2. coordinator_epoch \in 1..MaxEpoch
  BY EngineConstants DEF ThreadsOK, InitialEpoch
<1> QED
  BY <1>1, <1>2 DEF Identity, Contexts

\* What a session publishes is the publication that was sent.
LEMMA FramesNamePublications ==
  ASSUME NEW id \in PublicationIds, NEW pub, pub = (CHOOSE q \in Publications : q.id = id)
  PROVE  pub \in Publications
BY DEF PublicationIds

\* The steps in which the coordinator calls the engine.
Registers(c) == HandleHello(c) /\ Register(c) /\ UNCHANGED attempts

Publishes(c) ==
  /\ ServePublish(c)
  /\ \E pub \in Publications : Publish(Identity(c), pub)

LEMMA EngineCalls ==
  ASSUME ThreadsOK, CoordinatorNext
  PROVE  \/ UNCHANGED publicationVars
         \/ \E c \in DOMAIN profile : Registers(c)
         \/ \E c \in DOMAIN profile : Publishes(c)
         \/ \E c \in DOMAIN profile : SessionFencesBoot(c)
         \/ \E c \in DOMAIN profile : SessionFencesPublisher(c)
         \/ SaveAndExit
<1>1. ASSUME NEW c \in DOMAIN profile, ClientStep(c)
      PROVE  UNCHANGED publicationVars
  BY <1>1 DEF ClientStep, Connect, SendRequest, ReceiveAnswer, MissAnswer, Close, Crash, Vanish,
              NoticeLoss
<1>2. ASSUME AcceptThread
      PROVE  UNCHANGED publicationVars
  BY <1>2 DEF AcceptThread, CheckStopFlag, AcceptNobody, AcceptFails, Accept
<1>3. ASSUME OwnerStep
      PROVE  UNCHANGED publicationVars \/ SaveAndExit
  BY <1>3 DEF OwnerStep, CallStop, FinishStop, SignalSessions, JoinListener, JoinSessions
<1>4. ASSUME NEW c \in DOMAIN profile, SessionThread(c)
      PROVE  \/ UNCHANGED publicationVars
             \/ Registers(c) \/ Publishes(c) \/ SessionFencesBoot(c) \/ SessionFencesPublisher(c)
  <2>1. CASE HandleHello(c)
    BY <2>1 DEF HandleHello, Registers, publicationVars
  <2>2. CASE ServePublish(c)
    <3> DEFINE pub == CHOOSE q \in Publications : q.id = Head(inbox[c])
    <3>1. Head(inbox[c]) \in PublicationIds
      BY <2>2 DEF ServePublish, TakesPublication, TakeRequest, Serves
    <3>2. pub \in Publications
      BY <3>1, FramesNamePublications
    <3>3. Publish(Identity(c), pub) \/ UNCHANGED publicationVars
      BY <2>2 DEF ServePublish
    <3> QED
      BY <2>2, <3>2, <3>3 DEF Publishes
  <2>3. CASE LeavesLoops(c) \/ Answer(c) \/ SendWelcome(c)
    BY <2>3, LeavesLoopsFor, SendsAnswer DEF SendWelcome
  <2>4. CASE ServeQuery(c) \/ ServeViolation(c) \/ ServeShutdown(c)
    BY <2>4 DEF ServeQuery, ServeViolation, ServeShutdown
  <2> QED
    BY <1>4, <2>1, <2>2, <2>3, <2>4, SessionStepsAre
<1> QED
  BY <1>1, <1>2, <1>3, <1>4, StepsAreOf

\* Each of them is a step of the engine, or none.
LEMMA CallsAreSteps ==
  ThreadsOK /\ [CoordinatorNext]_coordinatorVars => [PublicationNext]_publicationVars
<1> SUFFICES ASSUME ThreadsOK, CoordinatorNext PROVE [PublicationNext]_publicationVars
  BY DEF coordinatorVars
<1>1. ASSUME NEW c \in DOMAIN profile, Registers(c)
      PROVE  [PublicationNext]_publicationVars
  <2>1. UNCHANGED attempts
    BY <1>1 DEF Registers
  <2>2. CASE UNCHANGED vars
    BY <2>1, <2>2 DEF publicationVars
  <2>3. CASE RegisterPublisher(Identity(c), DelegatedGrants)
    <3>1. Administer
      BY <2>3, IdentitiesAreContexts, DelegationIsOffered DEF Administer
    <3> QED
      BY <2>1, <3>1 DEF PublicationNext
  <2> QED
    BY <1>1, <2>2, <2>3 DEF Registers, Register
<1>2. ASSUME NEW c \in DOMAIN profile, Publishes(c)
      PROVE  [PublicationNext]_publicationVars
  BY <1>2, IdentitiesAreContexts DEF Publishes, PublicationNext
<1>3. ASSUME NEW c \in DOMAIN profile, SessionFencesBoot(c) \/ SessionFencesPublisher(c)
      PROVE  [PublicationNext]_publicationVars
  <2>1. UNCHANGED attempts
    BY <1>3 DEF SessionFencesBoot, SessionFencesPublisher
  <2>2. profile[c].publisher \in Publishers /\ profile[c].worker_boot \in Boots
    BY ProfilesAreTyped DEF ThreadsOK, CoordinatorTypeOK
  <2>3. Administer
    BY <1>3, <2>2 DEF SessionFencesBoot, SessionFencesPublisher, Administer
  <2> QED
    BY <2>1, <2>3 DEF PublicationNext
<1>4. ASSUME SaveAndExit
      PROVE  [PublicationNext]_publicationVars
  BY <1>4 DEF SaveAndExit, PublicationNext
<1> QED
  BY <1>1, <1>2, <1>3, <1>4, EngineCalls

\* The coordinator implements the engine: whatever its threads and its clients
\* do, the engine sees registrations, publications, fencings and saves under the
\* contexts and grants it was configured for, one at a time.
THEOREM CoordinatorRunsTheEngine == CoordinatorSpec => PublicationSpec
<1>1. CoordinatorInit => PublicationInit
  BY DEF CoordinatorInit
<1> QED
  BY <1>1, ThreadInvariant, CallsAreSteps, PTL DEF CoordinatorSpec, PublicationSpec

\* So publications keep their promises behind run_session, whichever clients
\* send them, repeat them and disappear.
THEOREM CoordinatorKeepsPromises ==
  CoordinatorSpec =>
    /\ SnapshotReplacesScope
    /\ SilenceIsNotAbsence
    /\ ForeignScopeKept
    /\ EvidenceNeverGoesBack
    /\ RedeliveryIsHarmless
    /\ ErasureNeedsAuthoritativeGrant
BY CoordinatorRunsTheEngine, SnapshotsReplaceTheirScope, SilenceTakesNothing,
   ForeignScopesAreKept, EvidenceOnlyAdvances, RedeliveriesChangeNothing, ErasureIsGranted

LEMMA CoordinatorGraphsAreSound == CoordinatorSpec => []IInv
BY CoordinatorRunsTheEngine, PublishedGraphsAreSound

-----------------------------------------------------------------------------
(***************************************************************************)
(* What sessions do to the registrations and edges they answer for.        *)
(***************************************************************************)

Backing == {"welcome", "serving", "fence_boot"} \cup Sending

\* A session that may act under its registration keeps it until it has fenced
\* its boot, and a session that ended stays ended.
Progress ==
  /\ profile' = profile
  /\ \A c \in Connections :
       /\ session[c] = "finished" => session'[c] = "finished"
       /\ session[c] = "fence_publisher" => session'[c] \in {"fence_publisher", "finished"}
       /\ registered[c] /\ session[c] \in Backing =>
            /\ registered'[c]
            /\ session'[c] \in Backing \/ SessionFencesBoot(c)

\* One session moves, and its registration is as before.
LEMMA OneSessionMoves ==
  ASSUME ThreadsOK, UNCHANGED <<profile, registered>>, NEW c \in Connections,
         NEW s, session' = [session EXCEPT ![c] = s],
         session[c] \notin {"finished", "fence_publisher"},
         registered[c] /\ session[c] \in Backing => s \in Backing \/ SessionFencesBoot(c)
  PROVE  Progress
BY DEF ThreadsOK, CoordinatorTypeOK, Progress

LEMMA EndsMakeProgress ==
  ASSUME ThreadsOK, UNCHANGED <<profile, registered>>, NEW c \in Connections, EndSession(c),
         session[c] \notin {"finished", "fence_publisher"}
  PROVE  Progress
<1> DEFINE s == IF registered[c] THEN "fence_boot" ELSE "finished"
<1>1. session' = [session EXCEPT ![c] = s] /\ (registered[c] => s \in Backing)
  BY DEF EndSession, Backing
<1> HIDE DEF s
<1> QED
  BY <1>1, OneSessionMoves

LEMMA SessionsProgress ==
  ASSUME ThreadsOK, NEW c \in DOMAIN profile, SessionThread(c)
  PROVE  Progress
<1>1. c \in Connections
  BY IdentitiesAreContexts
<1>2. UNCHANGED profile
  BY SessionStepsFrame DEF SessionFrame, clients
<1>3. CASE HandleHello(c)
  <2>1. session[c] = "handshake" /\ \E s : session' = [session EXCEPT ![c] = s]
    BY <1>3 DEF HandleHello
  <2>2. \A d \in Connections \ {c} : registered'[d] = registered[d]
    BY <1>3 DEF HandleHello, ThreadsOK, CoordinatorTypeOK
  <2> QED
    BY <1>1, <1>2, <2>1, <2>2 DEF Progress, Backing, Sending, ThreadsOK, CoordinatorTypeOK
<1>4. CASE LeavesLoops(c)
  BY <1>1, <1>2, <1>4, LeavesLoopsFor, EndsMakeProgress
<1>5. CASE SendWelcome(c)
  <2>1. UNCHANGED registered /\ session[c] \in {"welcome", "rejecting"}
    BY <1>5 DEF SendWelcome
  <2>2. CASE EndSession(c)
    BY <1>1, <1>2, <2>1, <2>2, EndsMakeProgress
  <2>3. CASE session' = [session EXCEPT ![c] = "serving"]
    BY <1>1, <1>2, <2>1, <2>3, OneSessionMoves DEF Backing, Sending
  <2> QED
    BY <1>5, <2>2, <2>3 DEF SendWelcome
<1>6. CASE \/ ServeQuery(c) \/ ServePublish(c) \/ ServeViolation(c) \/ ServeShutdown(c)
           \/ Answer(c)
  <2>1. UNCHANGED registered /\ session[c] \in {"serving", "replying", "answering"}
    BY <1>6, TakesRequest, SendsAnswer
  <2>2. CASE EndSession(c)
    BY <1>1, <1>2, <2>1, <2>2, EndsMakeProgress
  <2>3. ASSUME NEW step \in {"serving"} \cup Sending, session' = [session EXCEPT ![c] = step]
        PROVE  Progress
    BY <1>1, <1>2, <2>1, <2>3, OneSessionMoves DEF Backing, Sending
  <2>4. EndSession(c) \/ \E step \in {"serving"} \cup Sending : session' = [session EXCEPT ![c] = step]
    BY <1>6, TakesRequest, SendsAnswer DEF Sending
  <2> QED
    BY <2>2, <2>3, <2>4
<1>7. CASE SessionFencesBoot(c)
  <2>1. /\ UNCHANGED registered /\ session[c] = "fence_boot"
        /\ session' = [session EXCEPT ![c] = "fence_publisher"]
    BY <1>7 DEF SessionFencesBoot
  <2> QED
    BY <1>1, <1>2, <1>7, <2>1, OneSessionMoves
<1>8. CASE SessionFencesPublisher(c)
  <2>1. /\ UNCHANGED registered /\ session[c] = "fence_publisher"
        /\ session' = [session EXCEPT ![c] = "finished"]
    BY <1>8 DEF SessionFencesPublisher
  <2> QED
    BY <1>1, <1>2, <2>1 DEF Progress, Backing, Sending, ThreadsOK, CoordinatorTypeOK
<1> QED
  BY <1>3, <1>4, <1>5, <1>6, <1>7, <1>8, SessionStepsAre

LEMMA ThreadsProgress ==
  ASSUME ThreadsOK, CoordinatorNext
  PROVE  Progress
<1>1. ASSUME NEW c \in DOMAIN profile, ClientStep(c)
      PROVE  Progress
  <2>1. UNCHANGED <<profile, session, registered>>
    BY <1>1 DEF ClientStep, Connect, SendRequest, ReceiveAnswer, MissAnswer, Close, Crash, Vanish,
                     NoticeLoss, threads
  <2> QED
    BY <2>1 DEF Progress
<1>2. ASSUME OwnerStep
      PROVE  Progress
  <2>1. UNCHANGED <<profile, session, registered>>
    BY <1>2 DEF OwnerStep, CallStop, FinishStop, SignalSessions, JoinListener, JoinSessions,
                SaveAndExit, clients
  <2> QED
    BY <2>1 DEF Progress
<1>3. ASSUME AcceptThread
      PROVE  Progress
  <2>1. UNCHANGED <<profile, registered>>
    BY <1>3 DEF AcceptThread, CheckStopFlag, AcceptNobody, AcceptFails, Accept, clients
  <2>2. CASE UNCHANGED session
    BY <2>1, <2>2 DEF Progress
  <2>3. CASE \E c \in Connections : Accept(c)
    <3>1. PICK c \in Connections : Accept(c)
      BY <2>3
    <3>2. session[c] = "none" /\ \E s : session' = [session EXCEPT ![c] = s]
      BY <3>1 DEF Accept, Waiting
    <3> QED
      BY <2>1, <3>2, OneSessionMoves DEF Backing, Sending
  <2> QED
    BY <1>3, <2>2, <2>3 DEF AcceptThread, CheckStopFlag, AcceptNobody, AcceptFails
<1> QED
  BY <1>1, <1>2, <1>3, StepsAreOf, SessionsProgress

\* IsBacked after the step.
StaysBacked(c, p, b) ==
  /\ registered'[c]
  /\ profile'[c].publisher = p
  /\ profile'[c].worker_boot = b
  /\ session'[c] \in {"welcome", "serving", "fence_boot"} \cup Sending

\* Whoever is backed stays backed, until its boot is fenced.
LEMMA BackedOrFenced ==
  ASSUME Progress, NEW c \in Connections, NEW p, NEW b, IsBacked(c, p, b)
  PROVE  StaysBacked(c, p, b) \/ (SessionFencesBoot(c) /\ b = profile[c].worker_boot)
<1>1. registered[c] /\ session[c] \in Backing /\ profile[c].publisher = p /\ profile[c].worker_boot = b
  BY DEF IsBacked, Backing
<1>2. registered'[c] /\ profile' = profile /\ (session'[c] \in Backing \/ SessionFencesBoot(c))
  BY <1>1 DEF Progress
<1> QED
  BY <1>1, <1>2 DEF StaysBacked, Backing

LEMMA FencedAfterBacked ==
  ASSUME Progress, NEW c \in Connections, NEW p, NEW b, IsBacked(c, p, b)
  PROVE  StaysBacked(c, p, b) \/ b \in fenced_boots'
<1>1. SessionFencesBoot(c) => fenced_boots' = fenced_boots \cup {profile[c].worker_boot}
  BY DEF SessionFencesBoot, FenceBoot
<1>2. StaysBacked(c, p, b) \/ (SessionFencesBoot(c) /\ b = profile[c].worker_boot)
  BY BackedOrFenced
<1> QED
  BY <1>1, <1>2

\* No registration begins: what was fenced stays so.
AuthorityErodes ==
  /\ DOMAIN publishers' = DOMAIN publishers
  /\ \A p \in DOMAIN publishers :
       /\ publishers'[p].worker_boot = publishers[p].worker_boot
       /\ publishers[p].fenced => publishers'[p].fenced
  /\ fenced_boots \subseteq fenced_boots'

\* The registration of c's client begins.
Begins(c) ==
  LET p == profile[c].publisher
  IN  /\ DOMAIN publishers' = DOMAIN publishers \cup {p}
      /\ publishers'[p].worker_boot = profile[c].worker_boot
      /\ publishers'[p].fenced = FALSE
      /\ \A q \in DOMAIN publishers \ {p} : publishers'[q] = publishers[q]
      /\ fenced_boots \subseteq fenced_boots'
      /\ StaysBacked(c, p, profile[c].worker_boot)
      /\ UNCHANGED edges

LEMMA FencedRecord ==
  ASSUME NEW r \in Registrations
  PROVE  /\ [r EXCEPT !.fenced = TRUE].worker_boot = r.worker_boot
         /\ [r EXCEPT !.fenced = TRUE].fenced = TRUE
BY DEF Registrations

LEMMA FencingErodes ==
  ASSUME AuthorityTypeOK
  PROVE  /\ \A b : FenceBoot(b) => AuthorityErodes
         /\ \A p, b : FencePublisher(p, b) => AuthorityErodes
<1>1. \A p \in DOMAIN publishers : publishers[p] \in Registrations
  BY DEF AuthorityTypeOK
<1>2. ASSUME NEW b, FenceBoot(b)
      PROVE  AuthorityErodes
  <2>1. /\ publishers' = [p \in DOMAIN publishers |->
                            IF publishers[p].worker_boot = b
                            THEN [publishers[p] EXCEPT !.fenced = TRUE] ELSE publishers[p]]
        /\ fenced_boots \subseteq fenced_boots'
    BY <1>2 DEF FenceBoot
  <2> QED
    BY <1>1, <2>1, FencedRecord DEF AuthorityErodes
<1>3. ASSUME NEW p, NEW b, FencePublisher(p, b)
      PROVE  AuthorityErodes
  <2>1. /\ \/ publishers' = publishers
           \/ p \in DOMAIN publishers /\ publishers' = [publishers EXCEPT ![p].fenced = TRUE]
        /\ fenced_boots \subseteq fenced_boots'
    BY <1>3 DEF FencePublisher
  <2>2. CASE p \in DOMAIN publishers /\ publishers' = [publishers EXCEPT ![p].fenced = TRUE]
    <3>1. \A q \in DOMAIN publishers :
            publishers'[q] = IF q = p THEN [publishers[q] EXCEPT !.fenced = TRUE] ELSE publishers[q]
      BY <2>2
    <3> QED
      BY <1>1, <2>1, <2>2, <3>1, FencedRecord DEF AuthorityErodes
  <2> QED
    BY <2>1, <2>2 DEF AuthorityErodes
<1> QED
  BY <1>2, <1>3

LEMMA RegistrationBegins ==
  ASSUME ThreadsOK, NEW c \in DOMAIN profile, Registers(c)
  PROVE  Begins(c) \/ UNCHANGED vars
<1> SUFFICES ASSUME ~UNCHANGED vars
             PROVE  Begins(c)
  OBVIOUS
<1> DEFINE p == profile[c].publisher
           state == [worker_boot |-> Identity(c).worker_boot, grants |-> DelegatedGrants,
                     coordinator_epoch |-> Identity(c).coordinator_epoch, fenced |-> FALSE]
<1>1. MayRegister(c) /\ RegisterPublisher(Identity(c), DelegatedGrants)
  BY DEF Registers, Register
<1>2. Identity(c).publisher = p /\ Identity(c).worker_boot = profile[c].worker_boot /\ c \in Connections
  BY IdentitiesAreContexts
<1>3. /\ publishers' = Put(publishers, p, state)
      /\ fenced_boots \subseteq fenced_boots'
      /\ UNCHANGED edges
  BY <1>1, <1>2 DEF RegisterPublisher, graph
<1>4. state.worker_boot = profile[c].worker_boot /\ state.fenced = FALSE
  BY <1>2
<1>5. StaysBacked(c, p, profile[c].worker_boot)
  <2>1. UNCHANGED profile
    BY DEF Registers, HandleHello, clients
  <2>2. ~profile[c].observer
    BY DEF Registers, HandleHello, vars
  <2>3. registered'[c] = TRUE /\ session'[c] = "welcome"
    BY <1>1, <1>2, <2>2 DEF Registers, HandleHello, ThreadsOK, CoordinatorTypeOK
  <2> QED
    BY <2>1, <2>3 DEF StaysBacked
<1> HIDE DEF state
<1>6. /\ DOMAIN publishers' = DOMAIN publishers \cup {p}
      /\ publishers'[p] = state
      /\ \A q \in DOMAIN publishers \ {p} : publishers'[q] = publishers[q]
  BY <1>3 DEF Put
<1> QED
  BY <1>3, <1>4, <1>5, <1>6 DEF Begins

\* A step of the coordinator either registers a publisher, or leaves no more
\* authority than there was.
LEMMA AuthorityMoves ==
  ASSUME ThreadsOK, AuthorityTypeOK, CoordinatorNext
  PROVE  AuthorityErodes \/ \E c \in DOMAIN profile : Begins(c)
<1>1. UNCHANGED authority => AuthorityErodes
  BY DEF authority, AuthorityErodes
<1>2. UNCHANGED vars \/ UNCHANGED publicationVars => UNCHANGED authority
  BY DEF authority, vars, publicationVars
<1>3. ASSUME NEW c \in DOMAIN profile, Publishes(c)
      PROVE  UNCHANGED authority
  BY <1>3 DEF Publishes, Publish
<1>4. SaveAndExit => UNCHANGED authority
  BY DEF SaveAndExit, Save
<1>5. ASSUME NEW c \in DOMAIN profile, SessionFencesBoot(c) \/ SessionFencesPublisher(c)
      PROVE  AuthorityErodes
  BY <1>5, FencingErodes DEF SessionFencesBoot, SessionFencesPublisher
<1> QED
  BY <1>1, <1>2, <1>3, <1>4, <1>5, EngineCalls, RegistrationBegins

LEMMA AuthorityStaysBacked ==
  ASSUME ThreadsOK, AuthorityTypeOK, AuthorityHasSession, [CoordinatorNext]_coordinatorVars
  PROVE  AuthorityHasSession'
<1>1. CASE UNCHANGED coordinatorVars
  BY <1>1 DEF coordinatorVars, publicationVars, vars, clients, threads, AuthorityHasSession, IsBacked
<1>2. CASE CoordinatorNext
  <2>1. Progress
    BY <1>2, ThreadsProgress
  <2>2. ASSUME NEW p \in DOMAIN publishers, fenced_boots \subseteq fenced_boots',
               publishers'[p].worker_boot = publishers[p].worker_boot,
               publishers[p].fenced => publishers'[p].fenced
        PROVE  \/ publishers'[p].fenced
               \/ publishers'[p].worker_boot \in fenced_boots'
               \/ \E c \in Connections : StaysBacked(c, p, publishers'[p].worker_boot)
    <3>1. CASE publishers[p].fenced \/ publishers[p].worker_boot \in fenced_boots
      BY <2>2, <3>1
    <3>2. ASSUME NEW c \in Connections, IsBacked(c, p, publishers[p].worker_boot)
          PROVE  \/ publishers'[p].worker_boot \in fenced_boots'
                 \/ StaysBacked(c, p, publishers'[p].worker_boot)
      <4> DEFINE b == publishers[p].worker_boot
      <4>1. StaysBacked(c, p, b) \/ b \in fenced_boots'
        BY <2>1, <3>2, FencedAfterBacked
      <4> QED
        BY <2>2, <4>1
    <3> QED
      BY <3>1, <3>2 DEF AuthorityHasSession
  <2>3. CASE AuthorityErodes
    BY <2>2, <2>3 DEF AuthorityErodes, AuthorityHasSession, StaysBacked, IsBacked
  <2>4. ASSUME NEW c \in DOMAIN profile, Begins(c)
        PROVE  AuthorityHasSession'
    <3>1. c \in Connections
      BY IdentitiesAreContexts
    <3>2. StaysBacked(c, profile[c].publisher, publishers'[profile[c].publisher].worker_boot)
      BY <2>4 DEF Begins
    <3>3. ASSUME NEW q \in DOMAIN publishers', q # profile[c].publisher
          PROVE  q \in DOMAIN publishers /\ publishers'[q] = publishers[q]
      <4>1. /\ DOMAIN publishers' = DOMAIN publishers \cup {profile[c].publisher}
            /\ \A r \in DOMAIN publishers \ {profile[c].publisher} : publishers'[r] = publishers[r]
        BY <2>4 DEF Begins
      <4> QED
        BY <3>3, <4>1
    <3>4. fenced_boots \subseteq fenced_boots'
      BY <2>4 DEF Begins
    <3> QED
      BY <2>2, <3>1, <3>2, <3>3, <3>4 DEF AuthorityHasSession, StaysBacked, IsBacked
  <2> QED
    BY <1>2, <2>3, <2>4, AuthorityMoves
<1> QED
  BY <1>1, <1>2

LEMMA InitHasNoAuthority ==
  ASSUME CoordinatorInit
  PROVE  publishers = EmptyMap /\ edges = EmptyMap /\ DOMAIN EmptyMap = {}
BY DEF CoordinatorInit, PublicationInit, Init, EmptyMap

\* A registration that can still write belongs to a session that has not ended,
\* whenever its peer is lost: run_session fences the boot on every way out.
THEOREM AuthorityIsBacked == CoordinatorSpec => []AuthorityHasSession
<1>1. CoordinatorInit => AuthorityHasSession
  BY InitHasNoAuthority DEF AuthorityHasSession
<1>2. IInv => AuthorityTypeOK
  BY DEF IInv, TypeOK
<1>3. ThreadsOK /\ IInv /\ AuthorityHasSession /\ [CoordinatorNext]_coordinatorVars
        => AuthorityHasSession'
  BY <1>2, AuthorityStaysBacked
<1> QED
  BY <1>1, <1>3, ThreadInvariant, CoordinatorGraphsAreSound, PTL DEF CoordinatorSpec

-----------------------------------------------------------------------------
(***************************************************************************)
(* Fencing by the end of an old session.  A worker boot is the incarnation *)
(* of one publisher; fence_boot fences every registration of the boot.     *)
(***************************************************************************)

BootsAreOfOnePublisher ==
  \A f \in Profiles : \A c, d \in DOMAIN f :
    f[c].worker_boot = f[d].worker_boot => f[c].publisher = f[d].publisher

\* Who is registered is a client.
RegisteredAreClients ==
  \A p \in DOMAIN publishers :
    \E c \in DOMAIN profile :
      profile[c].publisher = p /\ profile[c].worker_boot = publishers[p].worker_boot

\* The registrations that were not fenced before the step are fenced by the end
\* of a session of theirs.
FencedByTheirOwn ==
  \A p \in DOMAIN publishers' :
    publishers'[p].fenced =>
      \/ /\ p \in DOMAIN publishers
         /\ publishers[p].fenced
         /\ publishers'[p].worker_boot = publishers[p].worker_boot
      \/ \E c \in DOMAIN profile :
           /\ profile[c].worker_boot = publishers'[p].worker_boot
           /\ session'[c] \in {"fence_publisher", "finished"}
           /\ \/ profile[c].publisher = p
              \/ p \in DOMAIN publishers /\ publishers'[p].worker_boot = publishers[p].worker_boot

LEMMA EndsFenceTheirOwn ==
  ASSUME ThreadsOK, AuthorityTypeOK, CoordinatorNext
  PROVE  FencedByTheirOwn
<1>1. UNCHANGED publishers => FencedByTheirOwn
  BY DEF FencedByTheirOwn
<1>2. UNCHANGED vars \/ UNCHANGED publicationVars \/ SaveAndExit => UNCHANGED publishers
  BY DEF vars, publicationVars, SaveAndExit, Save, authority
<1>3. ASSUME NEW c \in DOMAIN profile, Publishes(c)
      PROVE  UNCHANGED publishers
  BY <1>3 DEF Publishes, Publish, authority
<1>4. ASSUME NEW c \in DOMAIN profile, Begins(c)
      PROVE  FencedByTheirOwn
  <2> DEFINE p == profile[c].publisher
  <2>1. /\ DOMAIN publishers' = DOMAIN publishers \cup {p}
        /\ publishers'[p].fenced = FALSE
        /\ \A q \in DOMAIN publishers \ {p} : publishers'[q] = publishers[q]
    BY <1>4 DEF Begins
  <2>2. ASSUME NEW q \in DOMAIN publishers', publishers'[q].fenced
        PROVE  q \in DOMAIN publishers /\ publishers'[q] = publishers[q]
    BY <2>1, <2>2
  <2> QED
    BY <2>2 DEF FencedByTheirOwn
<1>5. \A p \in DOMAIN publishers : publishers[p] \in Registrations
  BY DEF AuthorityTypeOK
<1>6. ASSUME NEW c \in DOMAIN profile, SessionFencesBoot(c)
      PROVE  FencedByTheirOwn
  <2> DEFINE b == profile[c].worker_boot
  <2>1. publishers' = [p \in DOMAIN publishers |->
                         IF publishers[p].worker_boot = b
                         THEN [publishers[p] EXCEPT !.fenced = TRUE] ELSE publishers[p]]
    BY <1>6 DEF SessionFencesBoot, FenceBoot
  <2>2. session'[c] = "fence_publisher"
    BY <1>6, IdentitiesAreContexts DEF SessionFencesBoot, ThreadsOK, CoordinatorTypeOK
  <2>3. \A p \in DOMAIN publishers :
          publishers[p].worker_boot = b => publishers'[p].worker_boot = b
    BY <1>5, <2>1, FencedRecord
  <2>4. \A p \in DOMAIN publishers :
          publishers[p].worker_boot # b => publishers'[p] = publishers[p]
    BY <2>1
  <2>5. DOMAIN publishers' = DOMAIN publishers
    BY <2>1
  <2> QED
    BY <2>2, <2>3, <2>4, <2>5 DEF FencedByTheirOwn
<1>7. ASSUME NEW c \in DOMAIN profile, SessionFencesPublisher(c)
      PROVE  FencedByTheirOwn
  <2> DEFINE b == profile[c].worker_boot
             p == profile[c].publisher
  <2>1. CASE p \in DOMAIN publishers /\ publishers[p].worker_boot = b
    <3>1. publishers' = [publishers EXCEPT ![p].fenced = TRUE]
      BY <1>7, <2>1 DEF SessionFencesPublisher, FencePublisher
    <3>2. session'[c] = "finished"
      BY <1>7, IdentitiesAreContexts DEF SessionFencesPublisher, ThreadsOK, CoordinatorTypeOK
    <3>3. publishers'[p].worker_boot = b
      BY <1>5, <2>1, <3>1, FencedRecord
    <3>4. DOMAIN publishers' = DOMAIN publishers /\ \A q \in DOMAIN publishers \ {p} : publishers'[q] = publishers[q]
      BY <3>1
    <3> QED
      BY <3>2, <3>3, <3>4 DEF FencedByTheirOwn
  <2>2. CASE ~(p \in DOMAIN publishers /\ publishers[p].worker_boot = b)
    BY <1>1, <1>7, <2>2 DEF SessionFencesPublisher, FencePublisher
  <2> QED
    BY <2>1, <2>2
<1> QED
  BY <1>1, <1>2, <1>3, <1>4, <1>6, <1>7, EngineCalls, RegistrationBegins

LEMMA ClientsStayRegistered ==
  ASSUME ThreadsOK, AuthorityTypeOK, RegisteredAreClients, CoordinatorNext
  PROVE  RegisteredAreClients'
<1>1. UNCHANGED profile
  BY ThreadsProgress DEF Progress
<1>2. CASE AuthorityErodes
  BY <1>1, <1>2 DEF AuthorityErodes, RegisteredAreClients
<1>3. ASSUME NEW c \in DOMAIN profile, Begins(c)
      PROVE  RegisteredAreClients'
  <2> DEFINE p == profile[c].publisher
  <2>1. /\ DOMAIN publishers' = DOMAIN publishers \cup {p}
        /\ publishers'[p].worker_boot = profile[c].worker_boot
        /\ \A q \in DOMAIN publishers \ {p} : publishers'[q] = publishers[q]
    BY <1>3 DEF Begins
  <2> QED
    BY <1>1, <2>1 DEF RegisteredAreClients
<1> QED
  BY <1>2, <1>3, AuthorityMoves

LEMMA FencingStaysSparing ==
  ASSUME ThreadsOK, AuthorityTypeOK, RegisteredAreClients, BootsAreOfOnePublisher,
         FencingSparesNewIncarnation, CoordinatorNext
  PROVE  FencingSparesNewIncarnation'
<1>1. Progress /\ profile' = profile
  BY ThreadsProgress DEF Progress
<1>2. profile \in Profiles /\ DOMAIN profile \subseteq Connections
  BY ProfilesAreTyped DEF ThreadsOK, CoordinatorTypeOK
<1>3. SUFFICES ASSUME NEW p \in DOMAIN publishers', publishers'[p].fenced
               PROVE  \E c \in DOMAIN profile :
                        /\ profile[c].publisher = p
                        /\ profile[c].worker_boot = publishers'[p].worker_boot
                        /\ session'[c] \in {"fence_publisher", "finished"}
  BY <1>1 DEF FencingSparesNewIncarnation
<1>4. CASE p \in DOMAIN publishers /\ publishers[p].fenced
           /\ publishers'[p].worker_boot = publishers[p].worker_boot
  <2>1. PICK c \in DOMAIN profile :
          /\ profile[c].publisher = p
          /\ profile[c].worker_boot = publishers[p].worker_boot
          /\ session[c] \in {"fence_publisher", "finished"}
    BY <1>4 DEF FencingSparesNewIncarnation
  <2>2. session'[c] \in {"fence_publisher", "finished"}
    BY <1>1, <1>2, <2>1 DEF Progress
  <2> QED
    BY <1>4, <2>1, <2>2
<1>5. ASSUME NEW c \in DOMAIN profile,
             profile[c].worker_boot = publishers'[p].worker_boot,
             session'[c] \in {"fence_publisher", "finished"},
             p \in DOMAIN publishers, publishers'[p].worker_boot = publishers[p].worker_boot
      PROVE  profile[c].publisher = p
  <2>1. PICK d \in DOMAIN profile :
          profile[d].publisher = p /\ profile[d].worker_boot = publishers[p].worker_boot
    BY <1>5 DEF RegisteredAreClients
  <2> QED
    BY <1>2, <1>5, <2>1 DEF BootsAreOfOnePublisher
<1>6. FencedByTheirOwn
  BY EndsFenceTheirOwn
<1> QED
  BY <1>3, <1>4, <1>5, <1>6 DEF FencedByTheirOwn

\* The end of an old session never fences the registration of a newer
\* incarnation, although run_session calls fence_boot and fence_publisher one
\* after the other and others register in between.
THEOREM FencingSparesNewcomers ==
  ASSUME BootsAreOfOnePublisher
  PROVE  CoordinatorSpec => []FencingSparesNewIncarnation
<1>1. CoordinatorInit => FencingSparesNewIncarnation /\ RegisteredAreClients
  BY InitHasNoAuthority DEF FencingSparesNewIncarnation, RegisteredAreClients
<1>2. IInv => AuthorityTypeOK
  BY DEF IInv, TypeOK
<1>3. /\ ThreadsOK /\ IInv /\ FencingSparesNewIncarnation /\ RegisteredAreClients
      /\ [CoordinatorNext]_coordinatorVars
      => FencingSparesNewIncarnation' /\ RegisteredAreClients'
  <2>1. CASE UNCHANGED coordinatorVars
    BY <2>1 DEF coordinatorVars, publicationVars, vars, clients, threads,
                FencingSparesNewIncarnation, RegisteredAreClients
  <2> QED
    BY <1>2, <2>1, FencingStaysSparing, ClientsStayRegistered
<1> QED
  BY <1>1, <1>3, ThreadInvariant, CoordinatorGraphsAreSound, PTL DEF CoordinatorSpec

-----------------------------------------------------------------------------
(***************************************************************************)
(* Currentness.                                                            *)
(***************************************************************************)

\* What is current in G was so in E, from the same source.
NothingNewlyCurrent(E, G) ==
  \A e \in CurrentEdges(G) : e \in CurrentEdges(E) /\ G[e].provenance = E[e].provenance

LEMMA DemoteNothingNew ==
  ASSUME NEW E, IsEdgeMap(E), NEW D \in SUBSET CurrentEdges(E)
  PROVE  /\ NothingNewlyCurrent(E, Demote(E, D))
         /\ CurrentEdges(Demote(E, D)) \cap D = {}
<1>1. /\ DOMAIN Demote(E, D) = DOMAIN E
      /\ \A e \in DOMAIN E \ D : Demote(E, D)[e] = E[e]
      /\ \A e \in D : Demote(E, D)[e].lifecycle = "REVALIDATION_REQUIRED"
  BY DEF Demote, CurrentEdges, IsEdgeMap, EdgeRecords
<1> QED
  BY <1>1 DEF NothingNewlyCurrent, CurrentEdges

LEMMA FencedNothingNew ==
  ASSUME IInv, NEW D \in SUBSET CurrentEdges(edges), NEW fenced, NEW epoch,
         DemoteAndPersist(D, fenced, epoch)
  PROVE  /\ NothingNewlyCurrent(edges, edges')
         /\ ~WriteMayFail => CurrentEdges(edges') \cap D = {}
<1>1. IsEdgeMap(edges)
  BY DEF IInv, SoundGraph, SoundEdges
<1>2. NothingNewlyCurrent(edges, edges)
  BY DEF NothingNewlyCurrent
<1> QED
  BY <1>1, <1>2, DemoteNothingNew DEF DemoteAndPersist

\* Once the boot is fenced nothing it asserted is current.
LEMMA FencedBootHoldsNothing ==
  ASSUME IInv, ~WriteMayFail, NEW b, FenceBoot(b), NEW e \in CurrentEdges(edges')
  PROVE  e \in CurrentEdges(edges) /\ edges'[e].provenance = edges[e].provenance
         /\ edges[e].provenance.worker_boot # b
<1> DEFINE D == {x \in CurrentEdges(edges) : edges[x].provenance.worker_boot = b}
<1>1. DemoteAndPersist(D, fenced_boots', coordinator_epoch)
  BY DEF FenceBoot
<1>2. /\ NothingNewlyCurrent(edges, edges')
      /\ CurrentEdges(edges') \cap D = {}
  <2>1. D \in SUBSET CurrentEdges(edges)
    OBVIOUS
  <2> HIDE DEF D
  <2> QED
    BY <1>1, <2>1, FencedNothingNew
<1> QED
  BY <1>2 DEF NothingNewlyCurrent

LEMMA FencedPublisherNothingNew ==
  ASSUME IInv, NEW p, NEW b, FencePublisher(p, b)
  PROVE  NothingNewlyCurrent(edges, edges')
<1>1. PICK D \in SUBSET CurrentEdges(edges) :
        DemoteAndPersist(D, fenced_boots', coordinator_epoch)
  BY DEF FencePublisher
<1> QED
  BY <1>1, FencedNothingNew

\* A publication makes current what it asserts itself, with the authority of a
\* session that lives.
LEMMA PublishedAssertsHere ==
  ASSUME IInv, NEW ctx \in Contexts, NEW pub \in Publications, Publish(ctx, pub)
  PROVE  /\ AssertedHere(ctx, edges, edges')
         /\ HasAuthority(ctx, pub.domain, RequiredGrant(pub))
         /\ UNCHANGED authority
<1> DEFINE c == Candidate(nodes, edges, ctx, pub)
<1>1. Accepts(ctx, pub, c) /\ UNCHANGED authority
  BY DEF Publish
<1>2. Supersedes(ctx, pub, c.nodes, c.edges)
  BY <1>1, CandidateFacts
<1>3. edges' = edges \/ edges' = c.edges
  BY DEF Publish, CommitPublication, graph
<1> HIDE DEF c
<1>4. AssertedHere(ctx, edges, edges)
  BY DEF AssertedHere
<1> QED
  BY <1>1, <1>2, <1>3, <1>4 DEF Supersedes, Accepts

LEMMA AuthorityIsOfSession ==
  ASSUME ThreadsOK, AuthorityHasSession, Progress, NEW c \in DOMAIN profile,
         NEW domain, NEW grant, HasAuthority(Identity(c), domain, grant), UNCHANGED authority
  PROVE  \E d \in Connections :
           StaysBacked(d, Identity(c).publisher, Identity(c).worker_boot)
<1> DEFINE p == Identity(c).publisher
           b == Identity(c).worker_boot
<1>1. /\ p \in DOMAIN publishers
      /\ publishers[p].worker_boot = b
      /\ ~publishers[p].fenced
      /\ b \notin fenced_boots
      /\ fenced_boots' = fenced_boots
  BY DEF HasAuthority, authority
<1>2. PICK d \in Connections : IsBacked(d, p, b)
  BY <1>1 DEF AuthorityHasSession
<1> HIDE DEF p, b
<1>3. StaysBacked(d, p, b)
  <2>1. \A x, y : x = p /\ y = b => StaysBacked(d, x, y) \/ y \in fenced_boots'
    BY <1>2, FencedAfterBacked
  <2> QED
    BY <1>1, <2>1
<1> QED
  BY <1>3 DEF p, b

\* What is current after a step was so before, or its publication belongs to a
\* session that lives.
LEMMA CurrentOrPublished ==
  ASSUME ThreadsOK, IInv, AuthorityHasSession, CoordinatorNext, NEW e \in CurrentEdges(edges')
  PROVE  \/ e \in CurrentEdges(edges) /\ edges'[e].provenance = edges[e].provenance
         \/ \E d \in Connections :
              StaysBacked(d, edges'[e].provenance.publisher, edges'[e].provenance.worker_boot)
<1>1. Progress
  BY ThreadsProgress
<1>2. CASE UNCHANGED edges
  BY <1>2
<1>3. UNCHANGED vars \/ UNCHANGED publicationVars \/ SaveAndExit => UNCHANGED edges
  BY DEF vars, publicationVars, SaveAndExit, Save, graph
<1>4. ASSUME NEW c \in DOMAIN profile, Publishes(c)
      PROVE  \/ e \in CurrentEdges(edges) /\ edges'[e].provenance = edges[e].provenance
             \/ \E d \in Connections :
                  StaysBacked(d, edges'[e].provenance.publisher, edges'[e].provenance.worker_boot)
  <2> DEFINE ctx == Identity(c)
  <2>1. PICK pub \in Publications : Publish(ctx, pub)
    BY <1>4 DEF Publishes
  <2>2. ctx \in Contexts
    BY IdentitiesAreContexts
  <2>3. /\ AssertedHere(ctx, edges, edges')
        /\ HasAuthority(ctx, pub.domain, RequiredGrant(pub))
        /\ UNCHANGED authority
    BY <2>1, <2>2, PublishedAssertsHere
  <2>4. \E d \in Connections : StaysBacked(d, ctx.publisher, ctx.worker_boot)
    BY <1>1, <2>3, AuthorityIsOfSession
  <2> HIDE DEF ctx
  <2> QED
    BY <2>3, <2>4 DEF AssertedHere
<1>5. ASSUME NEW c \in DOMAIN profile, SessionFencesBoot(c) \/ SessionFencesPublisher(c)
      PROVE  NothingNewlyCurrent(edges, edges')
  <2>1. CASE SessionFencesPublisher(c)
    BY <2>1, FencedPublisherNothingNew DEF SessionFencesPublisher
  <2>2. CASE SessionFencesBoot(c)
    <3>1. PICK D \in SUBSET CurrentEdges(edges) :
            DemoteAndPersist(D, fenced_boots', coordinator_epoch)
      BY <2>2 DEF SessionFencesBoot, FenceBoot
    <3> QED
      BY <3>1, FencedNothingNew
  <2> QED
    BY <1>5, <2>1, <2>2
<1>6. \A c \in DOMAIN profile : Begins(c) => UNCHANGED edges
  BY DEF Begins
<1> QED
  BY <1>2, <1>3, <1>4, <1>5, <1>6, EngineCalls, RegistrationBegins DEF NothingNewlyCurrent

LEMMA CurrentEdgesStayBacked ==
  ASSUME ThreadsOK, IInv, AuthorityHasSession, ~WriteMayFail, CurrentEdgesHaveSession,
         CoordinatorNext
  PROVE  CurrentEdgesHaveSession'
<1>1. Progress
  BY ThreadsProgress
<1>2. SUFFICES ASSUME NEW e \in CurrentEdges(edges')
               PROVE  \E d \in Connections :
                        StaysBacked(d, edges'[e].provenance.publisher,
                                    edges'[e].provenance.worker_boot)
  BY DEF CurrentEdgesHaveSession, StaysBacked, IsBacked
<1>3. CASE e \in CurrentEdges(edges) /\ edges'[e].provenance = edges[e].provenance
  <2> DEFINE p == edges[e].provenance.publisher
             b == edges[e].provenance.worker_boot
  <2>1. PICK d \in Connections : IsBacked(d, p, b)
    BY <1>3 DEF CurrentEdgesHaveSession
  <2>2. ASSUME SessionFencesBoot(d), b = profile[d].worker_boot
        PROVE  FALSE
    <3>1. FenceBoot(profile[d].worker_boot)
      BY <2>2 DEF SessionFencesBoot
    <3>2. \A x : FenceBoot(x) => edges[e].provenance.worker_boot # x
      BY FencedBootHoldsNothing
    <3> QED
      BY <2>2, <3>1, <3>2
  <2> HIDE DEF p, b
  <2>3. \A x, y : x = p /\ y = b =>
          StaysBacked(d, x, y) \/ (SessionFencesBoot(d) /\ y = profile[d].worker_boot)
    BY <1>1, <2>1, BackedOrFenced
  <2>4. StaysBacked(d, p, b)
    BY <2>2, <2>3
  <2> QED
    BY <1>3, <2>4 DEF p, b
<1> QED
  BY <1>3, CurrentOrPublished

\* A relationship is current only while a session of the incarnation that
\* asserted it lives, whichever way sessions end: fence_boot demotes what the
\* boot asserted, in memory and on disk, before the session is finished.
THEOREM CurrentEdgesAreBacked ==
  ASSUME ~WriteMayFail
  PROVE  CoordinatorSpec => []CurrentEdgesHaveSession
<1>1. CoordinatorInit => CurrentEdgesHaveSession
  BY InitHasNoAuthority DEF CurrentEdgesHaveSession, CurrentEdges
<1>2. ThreadsOK /\ IInv /\ AuthorityHasSession /\ CurrentEdgesHaveSession
      /\ [CoordinatorNext]_coordinatorVars => CurrentEdgesHaveSession'
  <2>1. CASE UNCHANGED coordinatorVars
    BY <2>1 DEF coordinatorVars, publicationVars, vars, clients, threads,
                CurrentEdgesHaveSession, IsBacked, CurrentEdges
  <2> QED
    BY <2>1, CurrentEdgesStayBacked
<1> QED
  BY <1>1, <1>2, ThreadInvariant, CoordinatorGraphsAreSound, AuthorityIsBacked, PTL
     DEF CoordinatorSpec

-----------------------------------------------------------------------------
(***************************************************************************)
(* The orderly stop.                                                       *)
(***************************************************************************)

\* Sessions are joined once they were signalled, and the last save is of the
\* graph that stays in memory.
StopOK ==
  /\ owner \in {"main", "signal"} => signalled = {}
  /\ owner \in {"save", "exited"} => \A c \in signalled : session[c] = "finished"
  /\ owner = "exited" => image.edges = edges

LEMMA StopStaysOK ==
  ASSUME ThreadsOK, StopOK, CoordinatorNext
  PROVE  StopOK'
<1>1. Progress /\ owner # "exited" /\ signalled \subseteq Connections
  BY ThreadsProgress, StepsAreOf DEF ThreadsOK, CoordinatorTypeOK, IsUp
<1>2. CASE UNCHANGED <<owner, signalled>>
  <2>1. owner' # "exited" /\ owner' = owner /\ signalled' = signalled
    BY <1>1, <1>2
  <2>2. \A c \in signalled : session[c] = "finished" => session'[c] = "finished"
    BY <1>1 DEF Progress
  <2> QED
    BY <2>1, <2>2 DEF StopOK
<1>3. ASSUME NEW c \in DOMAIN profile, ClientStep(c)
      PROVE  UNCHANGED <<owner, signalled>>
  BY <1>3 DEF ClientStep, Connect, SendRequest, ReceiveAnswer, MissAnswer, Close, Crash, Vanish,
                     NoticeLoss, threads
<1>4. ASSUME NEW c \in DOMAIN profile, SessionThread(c)
      PROVE  UNCHANGED <<owner, signalled>>
  BY <1>4, SessionStepsFrame DEF SessionFrame
<1>5. AcceptThread => UNCHANGED <<owner, signalled>>
  BY DEF AcceptThread, CheckStopFlag, AcceptNobody, AcceptFails, Accept
<1>6. CASE CallStop \/ SignalSessions \/ JoinListener \/ JoinSessions
  BY <1>6 DEF CallStop, SignalSessions, JoinListener, JoinSessions, StopOK
<1>7. CASE SaveAndExit
  <2>1. owner = "save" /\ owner' = "exited" /\ UNCHANGED <<signalled, session>>
    BY <1>7 DEF SaveAndExit
  <2>2. image'.edges = edges'
    BY <1>7 DEF SaveAndExit, Save, graph, ImageOf
  <2> QED
    BY <2>1, <2>2 DEF StopOK
<1> QED
  BY <1>2, <1>3, <1>4, <1>5, <1>6, <1>7, StepsAreOf DEF OwnerStep, FinishStop

\* stop() leaves an image that claims nothing current, unless a session was
\* accepted after the sessions were signalled: every session it joined has
\* fenced its boot before the last save.
THEOREM OrderlyStopIsClean ==
  ASSUME ~WriteMayFail
  PROVE  CoordinatorSpec => []OrderlyStopLeavesNothingCurrent
<1>1. CoordinatorInit => StopOK
  BY DEF CoordinatorInit, StopOK
<1>2. ThreadsOK /\ StopOK /\ [CoordinatorNext]_coordinatorVars => StopOK'
  <2>1. CASE UNCHANGED coordinatorVars
    BY <2>1 DEF coordinatorVars, publicationVars, vars, threads, StopOK
  <2> QED
    BY <2>1, StopStaysOK
<1>3. StopOK /\ CurrentEdgesHaveSession => OrderlyStopLeavesNothingCurrent
  <2> SUFFICES ASSUME StopOK, CurrentEdgesHaveSession, owner = "exited",
                      Sessions \subseteq signalled, NEW e \in CurrentEdges(image.edges)
               PROVE  FALSE
    BY DEF OrderlyStopLeavesNothingCurrent
  <2>1. e \in CurrentEdges(edges)
    BY DEF StopOK
  <2>2. PICK c \in Connections : session[c] \in {"welcome", "serving", "fence_boot"} \cup Sending
    BY <2>1 DEF CurrentEdgesHaveSession, IsBacked
  <2>3. c \in signalled
    BY <2>2 DEF Sessions, Sending
  <2> QED
    BY <2>2, <2>3 DEF StopOK, Sending
<1> QED
  BY <1>1, <1>2, <1>3, ThreadInvariant, CurrentEdgesAreBacked, PTL DEF CoordinatorSpec

=============================================================================
