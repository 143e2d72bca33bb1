SPECIFICATION Spec
CONSTANTS
  MaxReplicas = 2
  MinReplicas = 1
  Images = {i1}
  Claims = {etc, var}
  Verdicts = {"ready", "wait", "error"}
  KeepsGoing = TRUE
  NoRevision = NoRevision
  MaxEdits = 3
  MaxSecrets = 3
  MaxFaults = 1
  PatientUser = FALSE
  DropsErrors = TRUE
INVARIANTS
  TypeOK
  RolledOut
PROPERTIES
  ClaimsOfWantedPodsKept
SYMMETRY Symmetry
CHECK_DEADLOCK FALSE
