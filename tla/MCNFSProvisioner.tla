------------------------- MODULE MCNFSProvisioner -------------------------
(* Constants of the TLC instances of NFSProvisioner. *)
EXTENDS ProvisionerRefinement, TLC

CONSTANT shared   \* the one claim name

\* Two claims created one after the other under one name.
SharedName == [v \in Volumes |-> shared]

DeletePolicy == [v \in Volumes |-> "Delete"]
RetainPolicy == [v \in Volumes |-> "Retain"]

\* The replicas run the same program, and it only copies addresses.
Symmetry == Permutations(Replicas) \cup Permutations(ClusterIPs)
===========================================================================
