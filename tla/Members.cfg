SPECIFICATION ShcFairSpec
CONSTANTS
  MaxReplicas = 2
  MinReplicas = 1
  Images = {i1, i2}
  Claims = {}
  Verdicts = {"ready", "wait", "error"}
  KeepsGoing = TRUE
  NoRevision = NoRevision
  MaxEdits = 2
  MaxSecrets = 1
  MaxFaults = 1
  PatientUser = FALSE
  DropsErrors = FALSE
  MaxEvents = 2
INVARIANTS
  MembersTypeOK
PROPERTIES
  SearchesDrained
  MembersBackBeforeNext
  
  ImplementsPods
CHECK_DEADLOCK FALSE
