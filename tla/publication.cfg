SPECIFICATION PublicationSpec
CONSTANTS
  NodeIds = {"a", "b", "c"}
  EdgeIds = {"ab", "ac"}
  Entities = {"x1", "x2", "x3"}
  Domains = {"d1", "d2"}
  CrossDomainRules <- MCRules
  Relations = {"link"}
  AcyclicRelations <- None
  AttachedTo = "attached_to"
  Attachments <- None
  Tiers = {"t"}
  NodeClasses = {"fabric endpoint", "logical endpoint"}
  Publishers = {"p"}
  Boots = {"b"}
  NoAttachment = "none"
  NoEdge = "none"
  SeedEntities = {"x1", "x2", "x3"}
  MovingEntities = {"x1"}
  MaxEntityGeneration = 2
  NodeRequests <- None
  LinkRequests <- MCLinkRequests
  GrantChoices <- MCGrants
  EvidenceLifecycles <- None
  Evidence <- None
  Replacements <- None
  Successors <- None
  WriteMayFail = TRUE
  MaxGeneration = 4
  MaxEpoch = 2
  Publications <- MCPublications
  AttemptCapacity = 2
INVARIANTS
  PublicationTypeOK
PROPERTIES
  SnapshotReplacesScope
  SilenceIsNotAbsence
  ForeignScopeKept
  EvidenceNeverGoesBack
  RedeliveryIsHarmless
  ErasureNeedsAuthoritativeGrant
  PublicationsAreDurable
