SPECIFICATION SideSpec
CONSTANTS
  NMasters = 3
  NWorkers = 2
  Replaceable <- MCReplaceable
  MaxFaults = 2
  MaxLosses = 2
  MaxVersion = 2
  Machines <- MCMachines
  Pods = {q1, q2}
  MaxBreaks = 2
  Width = 30
  Missing = Missing
  Matching <- MCMatching
INVARIANTS
  EvictedBeforeDestroyed
  NoAgentAhead
  OneControlPlane
  OnlyMasterOneRefuses
PROPERTIES
  SuccessIsOneCluster
  NodesConverge
