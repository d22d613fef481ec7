SPECIFICATION FairSpec
CONSTANTS
  shared = shared
  Replicas = {r1}
  Volumes = {v1, v2}
  ClaimNames = {shared}
  NameOf <- SharedName
  ReclaimPolicy <- DeletePolicy
  Bindable = {v1}
  ClusterIPs = {ip1, ip2}
  WaitForFirstConsumer = TRUE
  UseClusterIP = TRUE
  LeaderElection = TRUE
  GCEnabled = TRUE
  StaleInformer = FALSE
  MaxFaults = 1
INVARIANT TypeOK
INVARIANT BoundVolumeServed
INVARIANT LeftoversListed
INVARIANT GCNotDuringProvision
PROPERTY ClaimEventuallyBound
PROPERTY VolumeEventuallyReclaimed
CHECK_DEADLOCK FALSE
