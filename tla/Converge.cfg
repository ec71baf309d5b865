SPECIFICATION FairSpec
CONSTANTS
  Nothing = Nothing
  Torn = Torn
  b1 = b1
  b2 = b2
  v1 = v1
  VolNames = {v1}
  MaxVolIds = 7
  BucketNames = {b1, b2}
  BucketSpecs <- MCSpecs
  MaxBucketIds = 9
  ConvergeConfigs <- MCConfigs
  MaxEdits = 2
  MaxFaults = 2
INVARIANTS
  TypeOK
PROPERTIES
  DataSurvives
  SuccessIsRecorded
  EventuallyServed
CHECK_DEADLOCK FALSE
