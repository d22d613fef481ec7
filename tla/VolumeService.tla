--------------------------- MODULE VolumeService ---------------------------
(***************************************************************************)
(* What the provisioner promises for each claim, without replicas, API     *)
(* calls, retries or a garbage collector: the parts of the NFS server are  *)
(* assembled while the claim waits, the volume is published only when all  *)
(* of them are there, and from then on nothing about it changes until the  *)
(* claim is released.                                                      *)
(***************************************************************************)

CONSTANT Volumes

VARIABLES
  claim,      \* has the volume been requested, and released again?
  ready,      \* parts of the NFS server in place
  published   \* does the PV exist?

Parts == {"storage", "server", "endpoint"}

Init ==
  /\ claim = [v \in Volumes |-> "none"]
  /\ ready = [v \in Volumes |-> {}]
  /\ published = [v \in Volumes |-> FALSE]

Request(v) ==
  /\ claim[v] = "none"
  /\ claim' = [claim EXCEPT ![v] = "live"]
  /\ UNCHANGED <<ready, published>>

\* Parts are added, none is taken away, and only before publication.
Assemble(v) ==
  /\ claim[v] = "live" /\ ~published[v]
  /\ \E new \in SUBSET Parts : ready' = [ready EXCEPT ![v] = @ \cup new]
  /\ UNCHANGED <<claim, published>>

Publish(v) ==
  /\ claim[v] = "live" /\ ready[v] = Parts
  /\ published' = [published EXCEPT ![v] = TRUE]
  /\ UNCHANGED <<claim, ready>>

Release(v) ==
  /\ claim[v] = "live"
  /\ claim' = [claim EXCEPT ![v] = "gone"]
  /\ UNCHANGED <<ready, published>>

\* After the release the volume may be taken apart; a request still in progress
\* may add to it, and publish it, before that.
Reclaim(v) ==
  /\ claim[v] = "gone"
  /\ \E rest \in SUBSET Parts : ready' = [ready EXCEPT ![v] = rest]
  /\ \E exists \in BOOLEAN : published' = [published EXCEPT ![v] = exists]
  /\ UNCHANGED claim

Next == \E v \in Volumes :
  Request(v) \/ Assemble(v) \/ Publish(v) \/ Release(v) \/ Reclaim(v)

Spec == Init /\ [][Next]_<<claim, ready, published>>
=============================================================================
