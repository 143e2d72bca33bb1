SPECIFICATION IdxFairSpec
CONSTANTS
  MaxReplicas = 2
  MinReplicas = 1
  Images = {i1}
  Claims = {}
  Verdicts = {"ready", "wait", "error"}
  KeepsGoing = TRUE
  NoRevision = NoRevision
  MaxEdits = 2
  MaxSecrets = 2
  MaxFaults = 0
  PatientUser = FALSE
  DropsErrors = FALSE
  MaxOutages = 1
INVARIANTS
  PeersTypeOK
PROPERTIES
  PeersBackBeforeNext
  PeersServe
  ImplementsPods
CHECK_DEADLOCK FALSE
