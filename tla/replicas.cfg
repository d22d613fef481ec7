SPECIFICATION Spec
CONSTANTS
  shared = shared
  Replicas = {r1, r2}
  Volumes = {v1}
  ClaimNames = {shared}
  NameOf <- SharedName
  ReclaimPolicy <- DeletePolicy
  Bindable = {v1}
  ClusterIPs = {ip1, ip2}
  WaitForFirstConsumer = TRUE
  UseClusterIP = TRUE
  LeaderElection = FALSE
  GCEnabled = TRUE
  StaleInformer = FALSE
  MaxFaults = 1
INVARIANT BoundVolumeServed
PROPERTY LiveClaimKeepsBackend
PROPERTY ImplementsVolumeService
SYMMETRY Symmetry
CHECK_DEADLOCK FALSE
