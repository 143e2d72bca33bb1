SPECIFICATION NamespaceFairSpec
CONSTANTS
  SearchHeadClusters = {web, ops}
  ClusterMasters = {cm}
  Multisite = {cm}
  Namespaces = {{web, ops}, {web, cm}}
  Sizes = {1, 2}
  MaxEvents = 2
  MaxFaults = 1
INVARIANTS
  NamespaceTypeOK
  
PROPERTIES
  OthersKept
  ConsoleKnowsAll
  DeletionCompletes
CHECK_DEADLOCK FALSE
