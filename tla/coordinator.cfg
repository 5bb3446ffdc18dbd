SPECIFICATION CoordinatorSpec
CONSTANTS
  NodeIds = {"a", "b"}
  EdgeIds = {"ab"}
  Entities = {"x1", "x2"}
  Domains = {"d"}
  CrossDomainRules <- None
  Relations = {"link"}
  AcyclicRelations <- None
  AttachedTo = "attached_to"
  Attachments <- None
  Tiers = {"t"}
  NodeClasses = {"class"}
  Publishers = {"p"}
  Boots = {"b1", "b2"}
  NoAttachment = "none"
  NoEdge = "none"
  SeedEntities = {"x1", "x2"}
  MovingEntities <- None
  MaxEntityGeneration = 1
  NodeRequests <- None
  LinkRequests <- None
  GrantChoices <- MCGrantChoices
  EvidenceLifecycles <- None
  Evidence <- None
  Replacements <- None
  Successors <- None
  WriteMayFail = FALSE
  MaxGeneration = 12
  MaxEpoch = 1
  Publications <- MCPublications
  AttemptCapacity = 2
  Connections = {"c1", "c2", "c3"}
  Remote = {"c1"}
  Profiles <- MCProfiles
  RequestedGrants <- MCGrants
  GrantPolicy <- MCGrants
  MaxSessions = 2
  SendBuffer = 1
  MaxRequests = 1
CHECK_DEADLOCK FALSE
INVARIANTS
  CoordinatorTypeOK
  CurrentEdgesHaveSession
  AuthorityHasSession
  FencingSparesNewIncarnation
  OrderlyStopLeavesNothingCurrent
PROPERTIES
  PeerLossFencesBoot
  SilentPeersAreDropped
  StopDrains
  StopReturns
