SPECIFICATION Spec
CONSTANTS
  MaxReplicas = 3
  MinReplicas = 1
  Images = {i1, i2}
  Claims = {etc, var}
  Verdicts = {"ready", "wait"}
  KeepsGoing = TRUE
  NoRevision = NoRevision
  MaxEdits = 4
  MaxSecrets = 5
  MaxFaults = 0
  PatientUser = TRUE
  DropsErrors = FALSE
INVARIANTS
  OnePodAtATime
  OneDepartureAtATime
  CleanScaleUp
  MountedSecretsKept
PROPERTIES
  SecretNeverOlder
SYMMETRY Symmetry
CHECK_DEADLOCK FALSE
