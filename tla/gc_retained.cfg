SPECIFICATION Spec
CONSTANTS
  shared = shared
  Replicas = {r1}
  Volumes = {v1}
  ClaimNames = {shared}
  NameOf <- SharedName
  ReclaimPolicy <- RetainPolicy
  Bindable = {v1}
  ClusterIPs = {ip1, ip2}
  WaitForFirstConsumer = TRUE
  UseClusterIP = TRUE
  LeaderElection = TRUE
  GCEnabled = TRUE
  StaleInformer = FALSE
  MaxFaults = 1
PROPERTY RetainedPVKeepsBackend
CHECK_DEADLOCK FALSE
