CONSTANTS
  q1 = q1
  q2 = q2
  q3 = q3
  l1 = l1
  l2 = l2
  k1 = k1
  k2 = k2
  k3 = k3
  Requests <- ThreeRequests
  Leads <- TwoLeads
  Keys <- ThreeKeys
  LeadOf <- Announces
  NoKey = NoKey
  NoLead = NoLead
  SdkNamesNotFound = FALSE
  MaxFaults = 2
SPECIFICATION FairSpec
CHECK_DEADLOCK FALSE
INVARIANTS TypeOK WorkflowHasRow EventHasLead FirstLayerSuffices LossIsReported
PROPERTIES EventuallyAnswered IngestsAsPromised
