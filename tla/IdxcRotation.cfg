SPECIFICATION RotationSpec
CONSTANTS
  MaxReplicas = 2
  MinReplicas = 1
  Images = {i1}
  Claims = {}
  Verdicts = {"ready", "wait"}
  KeepsGoing = TRUE
  NoRevision = NoRevision
  MaxEdits = 2
  MaxSecrets = 2
  MaxFaults = 1
  PatientUser = FALSE
  DropsErrors = FALSE
  MaxKeys = 2
INVARIANTS
  RotationTypeOK
  SecretsRewritten
PROPERTIES
  RestartsInMaintenance
SYMMETRY Symmetry
CHECK_DEADLOCK FALSE
