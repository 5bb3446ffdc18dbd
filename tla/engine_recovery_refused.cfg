SPECIFICATION Spec
CONSTANTS
  NodeIds = {"n1", "n2"}
  EdgeIds = {"e1", "e2"}
  Entities = {"x1", "x2", "x3"}
  Domains = {"d"}
  CrossDomainRules <- None
  Relations = {"link"}
  AcyclicRelations <- None
  AttachedTo = "attached_to"
  Attachments <- None
  Tiers = {"t"}
  NodeClasses = {"class"}
  Publishers = {"p"}
  Boots = {"b"}
  NoAttachment = "none"
  NoEdge = "none"
  SeedEntities = {"x1", "x2"}
  MovingEntities = {"x1"}
  MaxEntityGeneration = 2
  NodeRequests <- StructureNodeRequests
  LinkRequests <- StructureLinkRequests
  GrantChoices <- FullGrants
  EvidenceLifecycles = {"CURRENT", "REVALIDATION_REQUIRED"}
  Evidence = {1}
  Replacements <- None
  Successors <- None
  WriteMayFail = FALSE
  MaxGeneration = 5
  MaxEpoch = 2
PROPERTIES
  StructureSurvivesRestart
