SPECIFICATION Spec
CONSTANTS
  NodeIds = {"n1", "n2"}
  EdgeIds = {"e1"}
  Entities = {"x1", "x2"}
  Domains = {"d1", "d2"}
  CrossDomainRules <- AuthorityRules
  Relations = {"link"}
  AcyclicRelations <- None
  AttachedTo = "attached_to"
  Attachments <- None
  Tiers = {"t"}
  NodeClasses = {"class"}
  Publishers = {"p1", "p2"}
  Boots = {"b1", "b2"}
  NoAttachment = "none"
  NoEdge = "none"
  SeedEntities = {"x1", "x2"}
  MovingEntities <- None
  MaxEntityGeneration = 1
  NodeRequests <- AuthorityNodeRequests
  LinkRequests <- AuthorityLinkRequests
  GrantChoices <- AuthorityGrants
  EvidenceLifecycles = {"CURRENT"}
  Evidence = {1, 2}
  Replacements <- None
  Successors <- None
  WriteMayFail = FALSE
  MaxGeneration = 5
  MaxEpoch = 2
PROPERTIES
  FencedBootsStayFenced
