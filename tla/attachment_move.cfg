SPECIFICATION MovingSpec
CONSTANTS
  NodeIds = {"nic", "swA", "swB"}
  EdgeIds = {"e1", "e2"}
  Entities = {"x1", "x2", "x3"}
  Domains = {"d"}
  CrossDomainRules <- None
  Relations = {"attached_to"}
  AcyclicRelations <- None
  AttachedTo = "attached_to"
  Attachments = {"slot"}
  Tiers = {"t"}
  NodeClasses = {"class"}
  Publishers = {"p"}
  Boots = {"b"}
  NoAttachment = "none"
  NoEdge = "none"
  SeedEntities = {"x1", "x2", "x3"}
  MovingEntities <- None
  MaxEntityGeneration = 1
  NodeRequests <- MCNodeRequests
  LinkRequests <- MCLinkRequests
  GrantChoices <- FullGrants
  EvidenceLifecycles <- None
  Evidence <- None
  Replacements <- None
  Successors <- None
  WriteMayFail = FALSE
  MaxGeneration = 5
  MaxEpoch = 1
  MoveRequests <- MCMoveRequests
PROPERTIES
  MoveIsAllOrNothing
