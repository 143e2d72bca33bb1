SPECIFICATION RotationFairSpec
CONSTANTS
  MaxReplicas = 2
  MinReplicas = 1
  Images = {i1}
  Claims = {}
  Verdicts = {"ready", "wait"}
  KeepsGoing = TRUE
  NoRevision = NoRevision
  MaxEdits = 2
  MaxSecrets = 2
  MaxFaults = 0
  PatientUser = FALSE
  DropsErrors = FALSE
  MaxKeys = 2
PROPERTIES
  NoticedChangesFinish
CHECK_DEADLOCK FALSE
