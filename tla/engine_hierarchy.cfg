SPECIFICATION Spec
CONSTANTS
  NodeIds = {"n1", "n2", "n3"}
  EdgeIds = {"e1", "e2", "e3"}
  Entities = {"x1", "x2", "x3"}
  Domains = {"d"}
  CrossDomainRules <- None
  Relations = {"contains"}
  AcyclicRelations = {"contains"}
  AttachedTo = "attached_to"
  Attachments <- None
  Tiers = {"t"}
  NodeClasses = {"class"}
  Publishers = {"p"}
  Boots = {"b"}
  NoAttachment = "none"
  NoEdge = "none"
  SeedEntities = {"x1", "x2", "x3"}
  MovingEntities <- None
  MaxEntityGeneration = 1
  NodeRequests <- HierarchyNodeRequests
  LinkRequests <- HierarchyLinkRequests
  GrantChoices <- FullGrants
  EvidenceLifecycles = {"CURRENT", "REVALIDATION_REQUIRED"}
  Evidence = {1}
  Replacements <- None
  Successors <- None
  WriteMayFail = FALSE
  MaxGeneration = 10
  MaxEpoch = 2
INVARIANTS
  AcyclicRelationsStayAcyclic
  SupersessionEnds
PROPERTIES
  TerminalIsForever
