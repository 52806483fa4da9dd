CONSTANTS
  ann = ann
  bot = bot
  d0 = d0
  d1 = d1
  dBad = dBad
  b1 = b1
  b2 = b2
  none = none
  Principals <- MCPrincipals
  Humans <- MCHumans
  GrantIds <- TwoGrantIds
  GrantOf <- TwoGrantOf
  Policies <- MCOnePolicy
  ProposalIds = {1, 2}
  ApprovalIds = {1, 2}
  Docs <- MCDocs
  InitialDoc = d0
  Bodies <- MCBodies
  CandidateOf <- MCCandidateOf
  Unplannable = none
  ValidDocs <- MCValidDocs
  RejectedDocs = {}
  Writes <- MCWrites
  Reads <- MCWrites
  Scopes <- MCScopes
  HostInstalls <- DivergentInstalls
  InitialPrincipals <- MCPrincipals
  InitialGrants <- TwoGrantIds
  MaxInstant = 1
  MaxRevision = 2
  MaxSelection = 0
CONSTRAINT OneWithdrawal
SPECIFICATION Spec
INVARIANTS
  ConsumedIffPublished
  ReceiptsTellWhatHappened
  NoLostUpdate
PROPERTIES
  OutcomesAreFinal
  ImplementsSemanticPublication
