SPECIFICATION Spec
CONSTANTS
  NodeIds = {"a", "b", "c"}
  EdgeIds = {1, 2, 3}
  Entities = {"xa", "xb", "xc"}
  Domains = {"d1", "d2"}
  CrossDomainRules <- MCRules
  Relations = {"ATTACHED_TO", "CONTAINS"}
  AcyclicRelations = {"CONTAINS"}
  AttachedTo = "ATTACHED_TO"
  Attachments = {"port"}
  Tiers = {"t"}
  NodeClasses = {"class"}
  Publishers = {"p", "q"}
  Boots = {"w"}
  NoAttachment = "none"
  NoEdge = 0
  NodeRequests <- MCNodeRequests
  LinkRequests <- MCLinkRequests
  Scopes <- MCScopes
  SnapshotHistory = 1
  WriteMayFail = TRUE
  StartGraphs <- MCStartGraphs
  MaxGeneration = 4
  MaxEpoch = 2
  MaxSnapshots = 2
  Readers = {"r1", "r2"}
  ScopeOf <- MCScopeOf
  MaxAttempts = 2
  RemovedNodes = {"b"}
  RetiredEdges = {1}
  DetachRequests <- MCDetachRequests
INVARIANTS
  StoreTypeOK
  IndexesMatch
  GenerationNamesSnapshot
  QueriesAnswerFromTheGraph
  TraversalIsBreadthFirst
  EmptyDiffMeansSameGraph
PROPERTIES
  SnapshotsFollowGenerations
  DetachSparesWhatChanged
  ImplementsAtomicStore
CHECK_DEADLOCK FALSE
