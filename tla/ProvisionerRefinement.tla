----------------------- MODULE ProvisionerRefinement -----------------------
(***************************************************************************)
(* The provisioner implements VolumeService: the storage is in place when  *)
(* the backend PVC is bound, the server when its Deployment exists, the    *)
(* endpoint when there is a Service and, once the PV exists, the address   *)
(* in the PV is that of the Service.                                       *)
(***************************************************************************)
EXTENDS NFSProvisioner

ready == [v \in Volumes |->
  {part \in {"storage", "server", "endpoint"} :
    \/ part = "storage" /\ bpvc[v] = "bound"
    \/ part = "server" /\ dep[v]
    \/ /\ part = "endpoint" /\ svc[v] # "absent"
       /\ pv[v] # "absent" => Reaches(pv[v], v)}]

published == [v \in Volumes |-> pv[v] # "absent"]

Service == INSTANCE VolumeService
  WITH Volumes <- Volumes, claim <- claim, ready <- ready,
       published <- published

\* Every step of the provisioner, its environment and its garbage collector is
\* a step of VolumeService or changes nothing of what it shows: a claim that
\* has a PV is served without interruption until it is deleted.
ImplementsVolumeService == Service!Spec
=============================================================================
