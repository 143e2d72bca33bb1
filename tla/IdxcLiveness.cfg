SPECIFICATION RotationFairSpec
CONSTANTS
  MaxReplicas = 2
  MinReplicas = 1
  Images = {i1}
  Claims = {}
  Verdicts = {"ready", "wait"}
  KeepsGoing = TRUE
  NoRevision = NoRevision
  MaxEdits = 1
  MaxSecrets = 2
  MaxFaults = 0
  PatientUser = FALSE
  DropsErrors = FALSE
  MaxKeys = 2
PROPERTIES
  RotationCompletes
  ImplementsPods
CHECK_DEADLOCK FALSE
