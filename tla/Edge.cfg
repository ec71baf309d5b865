SPECIFICATION FairSpec
CONSTANTS
  Me = Me
  Other = Other
  Hand = Hand
  Absent = Absent
  n1 = n1
  n2 = n2
  h1 = h1
  r1 = r1
  l1 = l1
  DnsNames <- MCNames
  Apex = n1
  Targets = {"ip", "hostname", "cdn"}
  Hostnames = {h1}
  RuleNames = {r1}
  ListNames = {l1}
  CdnConfigs <- MCCdn
  RuleLimit <- MCRuleLimit
  ListLimit <- MCListLimit
  MaxIds = 10
  EdgeConfigs <- MCConfigs
  MaxFaults = 2
  MaxEdits = 2
INVARIANTS
  TypeOK
PROPERTIES
  ForeignSurvives
  RemovedLeavesNothing
  NoDanglingRecord
  OnlyRecordedTouched
  EventuallyServed
CHECK_DEADLOCK FALSE
