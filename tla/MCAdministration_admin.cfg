CONSTANTS
  Sms = Sms
  Email = Email
  x1 = x1
  x2 = x2
  x3 = x3
  h1 = h1
  h2 = h2
  name1 = name1
  name2 = name2
  None = None
  Ids <- MCIds
  Seed <- MCSeed
  Types <- MCTypes
  SMS <- Sms
  Names <- MCNames
  Replicas <- MCReplicas
  Callers <- MCCallers
  Home <- MCHome
  MaxRequests = 2
  MaxFaults = 1
SPECIFICATION Spec
INVARIANTS ProviderAgrees TypesAgree NoDuplicates NoOrphans OwnChangesApply
SYMMETRY MCSymmetry
PROPERTIES DeletedForGood
CHECK_DEADLOCK FALSE
