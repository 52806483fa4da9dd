CONSTANTS
  ann = ann
  bot = bot
  d0 = d0
  d1 = d1
  dBad = dBad
  b1 = b1
  b2 = b2
  none = none
  Principals <- MCPrincipals
  Humans <- MCHumans
  GrantIds <- MCGrantIds
  GrantOf <- MCGrantOf
  Policies <- MCPolicies
  ProposalIds = {1}
  ApprovalIds = {1}
  Docs <- MCDocs
  InitialDoc = d0
  Bodies <- MCBodies
  CandidateOf <- MCCandidateOf
  Unplannable = none
  ValidDocs <- MCValidDocs
  RejectedDocs = {}
  Writes <- MCWrites
  Reads <- MCWrites
  Scopes <- MCScopes
  HostInstalls <- MCHostInstalls
  InitialPrincipals <- InitialHuman
  InitialGrants <- InitialHumanGrant
  MaxInstant = 2
  MaxRevision = 1
  MaxSelection = 2
SPECIFICATION Spec
INVARIANTS
  PublicationsAreApproved
PROPERTIES
  NeverSpentAcrossPolicyTransition
  SpentUnderOriginalAuthority
