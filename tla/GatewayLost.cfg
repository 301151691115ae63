CONSTANTS
  q1 = q1
  q2 = q2
  q3 = q3
  l1 = l1
  l2 = l2
  k1 = k1
  k2 = k2
  k3 = k3
  Requests <- TwoRequests
  Leads <- TwoLeads
  Keys <- ThreeKeys
  LeadOf <- Announces
  NoKey = NoKey
  NoLead = NoLead
  SdkNamesNotFound = FALSE
  MaxFaults = 1
SPECIFICATION Spec
CHECK_DEADLOCK FALSE
INVARIANTS DuplicateIsQualified
