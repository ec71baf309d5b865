SPECIFICATION Spec
CONSTANTS
  NMasters = 3
  NWorkers = 1
  Replaceable <- MCAnyReplaceable
  MaxFaults = 0
  MaxLosses = 1
PROPERTIES
  SurvivorStaysMasterOne
