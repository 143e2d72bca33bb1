SPECIFICATION TemplatesFairSpec
CONSTANTS
  Images = {i1, i2}
  Tolerations = {1, 2}
  VolumeKinds = {"secret", "configMap"}
  Licenses = {lm}
  ServiceTypes = {"ClusterIP", "NodePort"}
  WritesEmpty = FALSE
  MaxTexts = 2
  MaxEdits = 2
  MaxFaults = 2
INVARIANTS
  TemplatesTypeOK
PROPERTIES
  RolloutsHaveACause
  ComesToRest
  
CHECK_DEADLOCK FALSE
