------------------------ MODULE NFSProvisioner_proof ------------------------
(* Proofs about NFSProvisioner, for every value of its constants. *)
EXTENDS NFSProvisioner, TLAPS

LEMMA EnvironmentTyped ==
  ASSUME TypeOK, NEW v \in Volumes, EnvironmentStep(v)
  PROVE  TypeOK'
<1> USE ConstantAssumption DEF TypeOK
<1>1. CASE UserCreateClaim(v)
  BY <1>1 DEF UserCreateClaim
<1>2. CASE UserDeleteClaim(v)
  BY <1>2 DEF UserDeleteClaim
<1>3. CASE UserDeletePV(v)
  BY <1>3 DEF UserDeletePV
<1>4. CASE BindBackendPVC(v)
  BY <1>4 DEF BindBackendPVC
<1> QED BY <1>1, <1>2, <1>3, <1>4 DEF EnvironmentStep

LEMMA ProcessTyped ==
  ASSUME TypeOK, NEW r \in Replicas, ProcessStep(r)
  PROVE  TypeOK'
<1> USE ConstantAssumption DEF TypeOK
<1>1. CASE Crash(r)
  BY <1>1 DEF Crash, Fault, cluster, ProvPC, RmPC, GcPC, GcIdle
<1>2. CASE Restart(r)
  BY <1>2 DEF Restart
<1>3. CASE AcquireLease(r)
  BY <1>3 DEF AcquireLease
<1> QED BY <1>1, <1>2, <1>3 DEF ProcessStep

\* What the steps of Provision leave typed: the position, the tracker, the
\* fault count.
LEMMA CreateCallTyped ==
  ASSUME TypeOK, NEW r \in Replicas, NEW v \in Volumes, NEW pc \in ProvPC,
         Created(r, v, pc) \/ CreateRefused(r, v)
  PROVE  /\ prov' \in [Replicas -> [Volumes -> ProvPC]]
         /\ tracker' \in [Replicas -> SUBSET Volumes]
         /\ faults' \in 0 .. MaxFaults
<1> USE ConstantAssumption DEF TypeOK, TrackerDelete
<1>1. CASE Answered /\ ProvGoto(r, v, pc)
  BY <1>1 DEF Answered, ProvGoto
<1>2. CASE AnswerLost /\ ProvReturnsError(r, v)
  BY <1>2 DEF AnswerLost, Fault, ProvReturnsError, ProvPC
<1>3. CASE CreateRefused(r, v)
  BY <1>3 DEF CreateRefused, Answered, ProvReturnsError, ProvPC
<1> QED BY <1>1, <1>2, <1>3 DEF Created

LEMMA ProvisionTyped ==
  ASSUME TypeOK, NEW r \in Replicas, NEW v \in Volumes, ProvisionStep(r, v)
  PROVE  TypeOK'
<1> USE ConstantAssumption
<1>0. /\ createNFSServer.start \in ProvPC
      /\ createNFSServer.bpvc \in ProvPC
      /\ createNFSServer.dep \in ProvPC
      /\ createNFSServer.wait \in ProvPC
      /\ createNFSServer.svc \in ProvPC
  BY DEF createNFSServer, ProvPC
<1>1. CASE Provision(r, v)
  BY <1>1 DEF Provision, TypeOK, ProvPC, TrackerAdd
<1>2. CASE ValidateRequest(r, v)
  BY <1>0, <1>2 DEF ValidateRequest, TypeOK, ProvGoto
<1>3. CASE GetBackendPVC(r, v)
  BY <1>0, <1>3 DEF GetBackendPVC, TypeOK, ProvGoto, ProvPC
<1>4. CASE CreateBackendPVC(r, v)
  <2>1. bpvc' \in [Volumes -> {"absent", "pending", "bound"}]
    BY <1>4 DEF CreateBackendPVC, TypeOK
  <2>2. Created(r, v, createNFSServer.bpvc) \/ CreateRefused(r, v)
    BY <1>4 DEF CreateBackendPVC
  <2> QED BY <1>0, <1>4, <2>1, <2>2, CreateCallTyped DEF CreateBackendPVC, TypeOK
<1>5. CASE GetDeployment(r, v)
  BY <1>0, <1>5 DEF GetDeployment, TypeOK, ProvGoto, ProvPC
<1>6. CASE CreateDeployment(r, v)
  <2>1. dep' \in [Volumes -> BOOLEAN]
    BY <1>6 DEF CreateDeployment, TypeOK
  <2>2. Created(r, v, createNFSServer.dep) \/ CreateRefused(r, v)
    BY <1>6 DEF CreateDeployment
  <2> QED BY <1>0, <1>6, <2>1, <2>2, CreateCallTyped DEF CreateDeployment, TypeOK
<1>7. CASE PvcBound(r, v)
  BY <1>0, <1>7 DEF PvcBound, TypeOK, ProvGoto
<1>8. CASE PvcWaitFails(r, v)
  BY <1>8 DEF PvcWaitFails, TypeOK, ProvReturnsError, ProvPC, TrackerDelete
<1>9. CASE GetService(r, v)
  BY <1>0, <1>9 DEF GetService, TypeOK, ProvGoto, ProvPC
<1>10. CASE CreateService(r, v)
  <2>1. svc' \in [Volumes -> ClusterIPs \cup {"absent"}]
    BY <1>10 DEF CreateService, FreeIPs, TypeOK
  <2>2. Created(r, v, createNFSServer.svc) \/ CreateRefused(r, v)
    BY <1>10 DEF CreateService
  <2> QED BY <1>0, <1>10, <2>1, <2>2, CreateCallTyped DEF CreateService, TypeOK
<1>11. CASE GetNFSServerAddress(r, v)
  <2>1. (IF UseClusterIP THEN svc[v] ELSE "dns") \in Address \cup {"absent"}
    BY DEF TypeOK, Address
  <2>2. CASE UseClusterIP /\ svc[v] = "absent"
    <3>1. ProvReturnsError(r, v) /\ UNCHANGED addr
      BY <1>11, <2>2 DEF GetNFSServerAddress
    <3> QED BY <1>11, <3>1 DEF GetNFSServerAddress, TypeOK, ProvReturnsError,
                               TrackerDelete, ProvPC
  <2>3. CASE ~(UseClusterIP /\ svc[v] = "absent")
    <3>1. /\ addr' = [addr EXCEPT ![r][v] = IF UseClusterIP THEN svc[v]
                                                            ELSE "dns"]
          /\ prov' = [prov EXCEPT ![r][v] = "store"]
          /\ TrackerDelete(r, v)
      BY <1>11, <2>3 DEF GetNFSServerAddress
    <3>2. addr' \in [Replicas -> [Volumes -> Address \cup {"absent"}]]
      BY <2>1, <3>1 DEF TypeOK
    <3> QED BY <1>11, <3>1, <3>2 DEF GetNFSServerAddress, TypeOK, TrackerDelete,
                                     ProvPC
  <2> QED BY <2>2, <2>3
<1>12. CASE StorePV(r, v)
  BY <1>12 DEF StorePV, TypeOK, ProvGoto, ProvPC
<1> QED BY <1>1, <1>2, <1>3, <1>4, <1>5, <1>6, <1>7, <1>8, <1>9, <1>10, <1>11,
           <1>12 DEF ProvisionStep

\* The same for deleteNFSServer and the collector's list.
LEMMA GCSkipTyped ==
  ASSUME TypeOK, NEW r \in Replicas, NEW v \in Volumes, GCSkip(r, v)
  PROVE  gc' \in [Replicas -> [pc : GcPC, todo : SUBSET Volumes,
                               item : Volumes \cup {"none"}]]
<1>1. GCAfter(gc[r].todo \ {v}) \in [pc : GcPC, todo : SUBSET Volumes,
                                     item : Volumes \cup {"none"}]
  BY DEF GCAfter, GcIdle, GcPC, TypeOK
<1> QED BY <1>1 DEF GCSkip, TypeOK

RmTyped ==
  /\ rm' \in [Replicas -> [Callers -> [Volumes -> RmPC]]]
  /\ tracker' \in [Replicas -> SUBSET Volumes]
  /\ gc' \in [Replicas -> [pc : GcPC, todo : SUBSET Volumes,
                           item : Volumes \cup {"none"}]]

LEMMA RmGotoTyped ==
  ASSUME TypeOK, NEW r \in Replicas, NEW c \in Callers, NEW v \in Volumes,
         NEW pc \in RmPC, RmGoto(r, c, v, pc)
  PROVE  RmTyped
BY DEF RmTyped, RmGoto, TypeOK

LEMMA RmReturnsTyped ==
  ASSUME TypeOK, NEW r \in Replicas, NEW c \in Callers, NEW v \in Volumes,
         NEW pc \in RmPC, RmReturns(r, c, v, pc)
  PROVE  RmTyped
<1>1. rm' \in [Replicas -> [Callers -> [Volumes -> RmPC]]]
  BY DEF RmReturns, TypeOK
<1>2. CASE TrackerDelete(r, v) /\ UNCHANGED gc
  BY <1>1, <1>2 DEF RmTyped, TrackerDelete, TypeOK
<1>3. CASE GCSkip(r, v) /\ UNCHANGED tracker
  BY <1>1, <1>3, GCSkipTyped DEF RmTyped, TypeOK
<1> QED BY <1>2, <1>3 DEF RmReturns

LEMMA RmCallTyped ==
  ASSUME TypeOK, NEW r \in Replicas, NEW c \in Callers, NEW v \in Volumes,
         NEW next \in RmPC, NEW del \in RmPC, NEW exists \in BOOLEAN,
         Looked(r, c, v, exists, del, next) \/ Deleted(r, c, v, next)
  PROVE  RmTyped /\ faults' \in 0 .. MaxFaults
<1>1. Answered \/ Fault
  BY DEF Looked, Deleted, AnswerLost
<1>2. faults' \in 0 .. MaxFaults
  BY <1>1, ConstantAssumption DEF Answered, Fault, TypeOK
<1>3. \/ \E pc \in RmPC : RmGoto(r, c, v, pc)
      \/ RmReturns(r, c, v, "idle")
  BY DEF Looked, Deleted
<1>4. "idle" \in RmPC
  BY DEF RmPC
<1> QED BY <1>2, <1>3, <1>4, RmGotoTyped, RmReturnsTyped

LEMMA DeleteNFSServerTyped ==
  ASSUME TypeOK, NEW r \in Replicas, NEW c \in Callers, NEW v \in Volumes,
         DeleteNFSServerStep(r, c, v)
  PROVE  TypeOK'
<1>0. /\ deleteNFSServer.svc \in RmPC /\ deleteNFSServer.dep \in RmPC
      /\ deleteNFSServer.bpvc \in RmPC
      /\ {"svcDelete", "depDelete", "bpvcDelete", "idle", "pvDelete"} \subseteq RmPC
  BY DEF deleteNFSServer, RmPC
<1>1. CASE LookupService(r, c, v)
  <2>1. RmTyped /\ faults' \in 0 .. MaxFaults
    BY <1>0, <1>1, RmCallTyped DEF LookupService
  <2> QED BY <1>1, <2>1 DEF LookupService, RmTyped, TypeOK
<1>2. CASE DeleteService(r, c, v)
  <2>1. RmTyped /\ faults' \in 0 .. MaxFaults
    BY <1>0, <1>2, RmCallTyped DEF DeleteService
  <2> QED BY <1>2, <2>1 DEF DeleteService, RmTyped, TypeOK
<1>3. CASE LookupDeployment(r, c, v)
  <2>0. dep[v] \in BOOLEAN
    BY DEF TypeOK
  <2>1. RmTyped /\ faults' \in 0 .. MaxFaults
    BY <1>0, <1>3, <2>0, RmCallTyped DEF LookupDeployment
  <2> QED BY <1>3, <2>1 DEF LookupDeployment, RmTyped, TypeOK
<1>4. CASE DeleteDeployment(r, c, v)
  <2>1. RmTyped /\ faults' \in 0 .. MaxFaults
    BY <1>0, <1>4, RmCallTyped DEF DeleteDeployment
  <2> QED BY <1>4, <2>1 DEF DeleteDeployment, RmTyped, TypeOK
<1>5. CASE LookupBackendPVC(r, c, v)
  <2>1. RmTyped /\ faults' \in 0 .. MaxFaults
    BY <1>0, <1>5, RmCallTyped DEF LookupBackendPVC
  <2> QED BY <1>5, <2>1 DEF LookupBackendPVC, RmTyped, TypeOK
<1>6. CASE DeleteBackendPVC(r, c, v)
  <2>1. RmTyped /\ faults' \in 0 .. MaxFaults
    BY <1>0, <1>6, RmCallTyped DEF DeleteBackendPVC
  <2> QED BY <1>6, <2>1 DEF DeleteBackendPVC, RmTyped, TypeOK
<1>7. CASE DeleteNFSServerSucceeds(r, c, v)
  <2>1. RmTyped
    BY <1>0, <1>7, RmReturnsTyped DEF DeleteNFSServerSucceeds
  <2> QED BY <1>7, <2>1 DEF DeleteNFSServerSucceeds, RmTyped, TypeOK
<1> QED BY <1>1, <1>2, <1>3, <1>4, <1>5, <1>6, <1>7 DEF DeleteNFSServerStep

LEMMA DeleteTyped ==
  ASSUME TypeOK, NEW r \in Replicas, NEW v \in Volumes, DeleteStep(r, v)
  PROVE  TypeOK'
<1>0. /\ deleteNFSServer.start \in RmPC /\ "idle" \in RmPC
      /\ "delete" \in Callers
  BY DEF deleteNFSServer, RmPC, Callers
<1>1. CASE Delete(r, v)
  BY <1>0, <1>1 DEF Delete, TypeOK, TrackerAdd
<1>2. CASE DeleteNFSServerStep(r, "delete", v)
  BY <1>0, <1>2, DeleteNFSServerTyped
<1>3. CASE RemovePV(r, v)
  <2>1. RmTyped
    BY <1>0, <1>3, RmGotoTyped DEF RemovePV
  <2>2. faults' \in 0 .. MaxFaults
    BY <1>3, ConstantAssumption DEF RemovePV, Answered, Fault, TypeOK
  <2>3. pv' \in [Volumes -> Address \cup {"absent"}]
    BY <1>3 DEF RemovePV, TypeOK
  <2> QED BY <1>3, <2>1, <2>2, <2>3 DEF RemovePV, RmTyped, TypeOK
<1> QED BY <1>1, <1>2, <1>3 DEF DeleteStep

LEMMA GCTyped ==
  ASSUME TypeOK, NEW r \in Replicas, NEW v \in Volumes, GCStep(r, v)
  PROVE  TypeOK'
<1> DEFINE GcType == [Replicas -> [pc : GcPC, todo : SUBSET Volumes,
                                   item : Volumes \cup {"none"}]]
<1>0. {"tracker", "pv", "clean"} \subseteq GcPC /\ "gc" \in Callers
      /\ deleteNFSServer.start \in RmPC
  BY DEF GcPC, Callers, deleteNFSServer, RmPC
<1>1. CASE GCCheckClaim(r, v)
  <2>1. CASE GCSkip(r, v)
    BY <1>1, <2>1, GCSkipTyped DEF GCCheckClaim, TypeOK
  <2>2. CASE gc' = [gc EXCEPT ![r] = [@ EXCEPT !.pc = "tracker", !.item = v]]
    <3>1. gc' \in GcType
      BY <1>0, <2>2 DEF TypeOK
    <3> QED BY <1>1, <3>1 DEF GCCheckClaim, TypeOK
  <2> QED BY <1>1, <2>1, <2>2 DEF GCCheckClaim
<1>2. CASE GCCheckTracker(r, v)
  <2>1. CASE GCSkip(r, v)
    BY <1>2, <2>1, GCSkipTyped DEF GCCheckTracker, TypeOK
  <2>2. CASE gc' = [gc EXCEPT ![r].pc = "pv"]
    <3>1. gc' \in GcType
      BY <1>0, <2>2 DEF TypeOK
    <3> QED BY <1>2, <3>1 DEF GCCheckTracker, TypeOK
  <2> QED BY <1>2, <2>1, <2>2 DEF GCCheckTracker
<1>3. CASE GCCheckPV(r, v)
  <2>1. CASE GCSkip(r, v) /\ UNCHANGED rm
    BY <1>3, <2>1, GCSkipTyped DEF GCCheckPV, TypeOK
  <2>2. CASE /\ gc' = [gc EXCEPT ![r].pc = "clean"]
             /\ rm' = [rm EXCEPT ![r]["gc"][v] = deleteNFSServer.start]
    <3>1. gc' \in GcType
      BY <1>0, <2>2 DEF TypeOK
    <3>2. rm' \in [Replicas -> [Callers -> [Volumes -> RmPC]]]
      BY <1>0, <2>2 DEF TypeOK
    <3> QED BY <1>3, <3>1, <3>2 DEF GCCheckPV, TypeOK
  <2> QED BY <1>3, <2>1, <2>2 DEF GCCheckPV
<1>4. CASE DeleteNFSServerStep(r, "gc", v)
  BY <1>0, <1>4, DeleteNFSServerTyped
<1> QED BY <1>1, <1>2, <1>3, <1>4 DEF GCStep

LEMMA GCListTyped ==
  ASSUME TypeOK, NEW r \in Replicas, GCList(r)
  PROVE  TypeOK'
<1>1. GCAfter({v \in Volumes : bpvc[v] # "absent"})
        \in [pc : GcPC, todo : SUBSET Volumes, item : Volumes \cup {"none"}]
  BY DEF GCAfter, GcIdle, GcPC
<1>2. gc' \in [Replicas -> [pc : GcPC, todo : SUBSET Volumes,
                            item : Volumes \cup {"none"}]]
  BY <1>1 DEF GCList, TypeOK
<1> QED BY <1>2 DEF GCList, TypeOK

LEMMA FaultTyped ==
  ASSUME TypeOK, NEW r \in Replicas, NEW v \in Volumes, FaultStep(r, v)
  PROVE  TypeOK'
<1>1. Fault
  BY DEF FaultStep, ProvisionFails, GCCheckFails, DeleteNFSServerFails
<1>2. faults' \in 0 .. MaxFaults
  BY <1>1, ConstantAssumption DEF Fault, TypeOK
<1>3. CASE ProvisionFails(r, v)
  BY <1>2, <1>3 DEF ProvisionFails, ProvReturnsError, TrackerDelete, ProvPC,
                    TypeOK
<1>4. CASE GCCheckFails(r, v)
  BY <1>2, <1>4, GCSkipTyped DEF GCCheckFails, TypeOK
<1>5. ASSUME NEW c \in Callers, DeleteNFSServerFails(r, c, v)
      PROVE  TypeOK'
  <2>1. "idle" \in RmPC
    BY DEF RmPC
  <2>2. RmTyped
    BY <1>5, <2>1, RmReturnsTyped DEF DeleteNFSServerFails
  <2> QED BY <1>2, <1>5, <2>2 DEF DeleteNFSServerFails, RmTyped, TypeOK
<1> QED BY <1>3, <1>4, <1>5 DEF FaultStep

LEMMA InitTyped == Init => TypeOK
BY ConstantAssumption
   DEF Init, TypeOK, Address, ProvPC, RmPC, GcPC, GcIdle, Callers

LEMMA NextTyped == TypeOK /\ [Next]_vars => TypeOK'
<1> SUFFICES ASSUME TypeOK, [Next]_vars PROVE TypeOK'
  OBVIOUS
<1>1. CASE UNCHANGED vars
  BY <1>1 DEF vars, TypeOK
<1>2. CASE Next
  BY <1>2, EnvironmentTyped, ProcessTyped, GCListTyped, ProvisionTyped,
     DeleteTyped, GCTyped, FaultTyped DEF Next
<1> QED BY <1>1, <1>2

\* Every variable keeps its type: in particular a PV never holds anything but a
\* ClusterIP or the Service's DNS name (getNFSServerAddress, StorePV).
THEOREM TypeCorrect == Spec => []TypeOK
BY InitTyped, NextTyped, PTL DEF Spec

-----------------------------------------------------------------------------
(* The inductive invariant *)

Untouched(w) ==
  /\ bpvc'[w] = bpvc[w] /\ dep'[w] = dep[w] /\ svc'[w] = svc[w]
  /\ pv'[w] = pv[w]

\* Objects are added, and none is removed or replaced.
Grows(v) ==
  /\ bpvc[v] # "absent" => bpvc'[v] = bpvc[v]
  /\ dep[v] => dep'[v]
  /\ svc[v] # "absent" => svc'[v] = svc[v]

\* A step that touches nothing but released volumes hurts no live claim.
LEMMA ReleasedTouched ==
  ASSUME Inv, claim' = claim, prov' = prov, addr' = addr,
         \A w \in Volumes : claim[w] # "gone" => Untouched(w)
  PROVE  /\ LiveClaimStands' /\ BoundVolumeServed'
         /\ \A v \in Volumes : claim'[v] = "none" =>
              /\ Backend(v)' = NoBackend /\ pv'[v] = "absent"
              /\ \A r \in Replicas : prov'[r][v] = "idle"
<1> USE DEF Untouched
<1>1. LiveClaimStands'
  BY DEF Inv, LiveClaimStands, StepsStand, Reaches
<1>2. BoundVolumeServed'
  BY DEF Inv, BoundVolumeServed, Reaches
<1>3. ASSUME NEW v \in Volumes, claim'[v] = "none"
      PROVE  /\ Backend(v)' = NoBackend /\ pv'[v] = "absent"
             /\ \A r \in Replicas : prov'[r][v] = "idle"
  BY <1>3 DEF Inv, NothingBeforeClaim, Backend, NoBackend
<1> QED BY <1>1, <1>2, <1>3

\* A step of Provision(v) at r that adds to v, keeps what it has passed, and
\* changes the PV only to one that is served.
LEMMA ProvisionKeeps ==
  ASSUME Inv, NEW r \in Replicas, NEW v \in Volumes,
         claim[v] # "none", claim' = claim, rm' = rm, gc' = gc,
         \A w \in Volumes \ {v} : Untouched(w),
         Grows(v),
         \A q \in Replicas, w \in Volumes : q # r \/ w # v =>
           prov'[q][w] = prov[q][w] /\ addr'[q][w] = addr[q][w],
         claim[v] = "live" => StepsStand(r, v)',
         claim[v] = "live" /\ pv'[v] # pv[v] =>
           bpvc'[v] = "bound" /\ dep'[v] /\ Reaches(pv[v], v)'
  PROVE  /\ DeletesReleasedOnly' /\ NothingBeforeClaim'
         /\ LiveClaimStands' /\ BoundVolumeServed'
<1>1. DeletesReleasedOnly'
  BY DEF Inv, DeletesReleasedOnly
<1>2. NothingBeforeClaim'
  <2>1. ASSUME NEW w \in Volumes, claim'[w] = "none"
        PROVE  /\ Backend(w)' = NoBackend /\ pv'[w] = "absent"
               /\ \A q \in Replicas : prov'[q][w] = "idle"
    <3>1. w # v /\ claim[w] = "none"
      BY <2>1
    <3>2. /\ Backend(w) = NoBackend /\ pv[w] = "absent"
          /\ \A q \in Replicas : prov[q][w] = "idle"
      BY <3>1 DEF Inv, NothingBeforeClaim
    <3>3. Untouched(w) /\ \A q \in Replicas : prov'[q][w] = prov[q][w]
      BY <3>1
    <3> QED BY <3>2, <3>3 DEF Backend, Untouched
  <2>2. \A q \in Replicas : \A w \in gc'[q].todo : claim'[w] # "none"
    BY DEF Inv, NothingBeforeClaim
  <2> QED BY <2>1, <2>2 DEF NothingBeforeClaim
<1>3. ASSUME NEW q \in Replicas, NEW w \in Volumes, claim'[w] = "live"
      PROVE  StepsStand(q, w)'
  <2>0. StepsStand(q, w)
    BY <1>3 DEF Inv, LiveClaimStands
  <2>1. CASE w # v
    BY <2>0, <2>1 DEF StepsStand, Reaches, Untouched
  <2>2. CASE w = v /\ q # r
    BY <2>0, <2>2 DEF StepsStand, Reaches, Grows
  <2>3. CASE w = v /\ q = r
    BY <1>3, <2>3
  <2> QED BY <2>1, <2>2, <2>3
<1>4. ASSUME NEW w \in Volumes, claim'[w] = "live", pv'[w] # "absent"
      PROVE  bpvc'[w] = "bound" /\ dep'[w] /\ Reaches(pv[w], w)'
  <2>1. CASE w # v
    BY <1>4, <2>1 DEF Inv, BoundVolumeServed, Reaches, Untouched
  <2>2. CASE w = v /\ pv'[v] = pv[v]
    BY <1>4, <2>2 DEF Inv, BoundVolumeServed, Reaches, Grows
  <2>3. CASE w = v /\ pv'[v] # pv[v]
    BY <1>4, <2>3
  <2> QED BY <2>1, <2>2, <2>3
<1> QED BY <1>1, <1>2, <1>3, <1>4 DEF LiveClaimStands, BoundVolumeServed

LEMMA EnvironmentInv ==
  ASSUME Inv, NEW v \in Volumes, EnvironmentStep(v)
  PROVE  Inv'
<1>0. TypeOK /\ TypeOK'
  BY EnvironmentTyped DEF Inv
<1>1. CASE UserCreateClaim(v)
  <2>1. /\ \A w \in Volumes : claim[w] = "gone" => claim'[w] = "gone"
        /\ \A w \in Volumes : claim'[w] = "none" => claim[w] = "none"
        /\ \A w \in Volumes : claim'[w] = "live" => claim[w] = "live" \/ w = v
    BY <1>0, <1>1 DEF UserCreateClaim, TypeOK
  <2>2. /\ \A r \in Replicas : prov[r][v] = "idle"
        /\ pv[v] = "absent"
    BY <1>1 DEF UserCreateClaim, Inv, NothingBeforeClaim
  <2>3. DeletesReleasedOnly'
    BY <1>1, <2>1 DEF UserCreateClaim, Inv, DeletesReleasedOnly
  <2>4. NothingBeforeClaim'
    BY <1>0, <1>1, <2>1 DEF UserCreateClaim, Inv, NothingBeforeClaim, Backend, TypeOK
  <2>5. LiveClaimStands'
    BY <1>1, <2>1, <2>2 DEF UserCreateClaim, Inv, LiveClaimStands, StepsStand,
                            Reaches
  <2>6. BoundVolumeServed'
    BY <1>1, <2>1, <2>2 DEF UserCreateClaim, Inv, BoundVolumeServed, Reaches
  <2> QED BY <1>0, <2>3, <2>4, <2>5, <2>6 DEF Inv
<1>2. CASE UserDeleteClaim(v)
  <2>1. /\ \A w \in Volumes : claim[w] = "gone" => claim'[w] = "gone"
        /\ \A w \in Volumes : claim'[w] = "none" => claim[w] = "none"
        /\ \A w \in Volumes : claim'[w] = "live" => claim[w] = "live"
    BY <1>0, <1>2 DEF UserDeleteClaim, TypeOK
  <2>3. DeletesReleasedOnly'
    BY <1>2, <2>1 DEF UserDeleteClaim, Inv, DeletesReleasedOnly
  <2>4. NothingBeforeClaim'
    BY <1>0, <1>2, <2>1 DEF UserDeleteClaim, Inv, NothingBeforeClaim, Backend, TypeOK
  <2>5. LiveClaimStands'
    BY <1>2, <2>1 DEF UserDeleteClaim, Inv, LiveClaimStands, StepsStand, Reaches
  <2>6. BoundVolumeServed'
    BY <1>2, <2>1 DEF UserDeleteClaim, Inv, BoundVolumeServed, Reaches
  <2> QED BY <1>0, <2>3, <2>4, <2>5, <2>6 DEF Inv
<1>3. CASE UserDeletePV(v)
  <2>1. \A w \in Volumes : claim[w] # "gone" => Untouched(w)
    BY <1>0, <1>3 DEF UserDeletePV, Untouched, TypeOK
  <2>2. DeletesReleasedOnly' /\ gc' = gc /\ claim' = claim
    BY <1>3 DEF UserDeletePV, Inv, DeletesReleasedOnly
  <2>3. prov' = prov /\ addr' = addr
    BY <1>3 DEF UserDeletePV
  <2> QED BY <1>0, <2>1, <2>2, <2>3, ReleasedTouched DEF Inv, NothingBeforeClaim
<1>4. CASE BindBackendPVC(v)
  <2>1. \A w \in Volumes : \/ bpvc'[w] = bpvc[w]
                           \/ bpvc[w] = "pending" /\ bpvc'[w] = "bound"
    BY <1>0, <1>4 DEF BindBackendPVC, TypeOK
  <2>3. DeletesReleasedOnly'
    BY <1>4 DEF BindBackendPVC, Inv, DeletesReleasedOnly
  <2>4. NothingBeforeClaim'
    <3>1. \A w \in Volumes : claim[w] = "none" => bpvc[w] = "absent"
      BY DEF Inv, NothingBeforeClaim, Backend, NoBackend
    <3>2. \A w \in Volumes : claim[w] = "none" => bpvc'[w] = bpvc[w]
      BY <2>1, <3>1
    <3> QED BY <1>4, <3>2 DEF BindBackendPVC, Inv, NothingBeforeClaim, Backend
  <2>5. LiveClaimStands'
    BY <1>4, <2>1 DEF BindBackendPVC, Inv, LiveClaimStands, StepsStand, Reaches
  <2>6. BoundVolumeServed'
    BY <1>4, <2>1 DEF BindBackendPVC, Inv, BoundVolumeServed, Reaches
  <2> QED BY <1>0, <2>3, <2>4, <2>5, <2>6 DEF Inv
<1> QED BY <1>1, <1>2, <1>3, <1>4 DEF EnvironmentStep

LEMMA ProcessInv ==
  ASSUME Inv, NEW r \in Replicas, ProcessStep(r)
  PROVE  Inv'
<1>0. TypeOK /\ TypeOK'
  BY ProcessTyped DEF Inv
<1>1. UNCHANGED cluster
  BY DEF ProcessStep, Crash, Restart, AcquireLease, cluster
<1>2. \A q \in Replicas :
        \/ prov'[q] = prov[q] /\ addr'[q] = addr[q] /\ rm'[q] = rm[q]
           /\ gc'[q] = gc[q]
        \/ /\ \A w \in Volumes : prov'[q][w] = "idle"
           /\ \A c \in Callers, w \in Volumes : rm'[q][c][w] = "idle"
           /\ gc'[q] = GcIdle
  BY <1>0 DEF ProcessStep, Crash, Restart, AcquireLease, TypeOK
<1>3. DeletesReleasedOnly'
  BY <1>1, <1>2 DEF Inv, DeletesReleasedOnly, cluster, GcIdle
<1>4. NothingBeforeClaim'
  BY <1>1, <1>2 DEF Inv, NothingBeforeClaim, Backend, cluster, GcIdle
<1>5. LiveClaimStands'
  BY <1>1, <1>2 DEF Inv, LiveClaimStands, StepsStand, Reaches, cluster
<1>6. BoundVolumeServed'
  BY <1>1 DEF Inv, BoundVolumeServed, Reaches, cluster
<1> QED BY <1>0, <1>3, <1>4, <1>5, <1>6 DEF Inv

LEMMA ProvisionInv ==
  ASSUME Inv, NEW r \in Replicas, NEW v \in Volumes,
         ProvisionStep(r, v) \/ ProvisionFails(r, v)
  PROVE  Inv'
<1>0. TypeOK /\ TypeOK'
  BY ProvisionTyped, FaultTyped DEF Inv, FaultStep
<1>1. claim[v] # "none"
  BY DEF Inv, NothingBeforeClaim, ProvisionStep, ProvisionFails, Provision,
         ValidateRequest, GetBackendPVC, CreateBackendPVC, GetDeployment,
         CreateDeployment, PvcBound, PvcWaitFails, GetService, CreateService,
         GetNFSServerAddress, StorePV
<1>2. claim' = claim /\ rm' = rm /\ gc' = gc
  BY DEF ProvisionStep, ProvisionFails, Provision,
         ValidateRequest, GetBackendPVC, CreateBackendPVC, GetDeployment,
         CreateDeployment, PvcBound, PvcWaitFails, GetService, CreateService,
         GetNFSServerAddress, StorePV
<1>3. claim[v] = "live" => StepsStand(r, v)
  BY DEF Inv, LiveClaimStands
<1>4. ASSUME /\ \A w \in Volumes \ {v} : Untouched(w)
             /\ Grows(v)
             /\ \A q \in Replicas, w \in Volumes : q # r \/ w # v =>
                  prov'[q][w] = prov[q][w] /\ addr'[q][w] = addr[q][w]
             /\ claim[v] = "live" => StepsStand(r, v)'
             /\ claim[v] = "live" /\ pv'[v] # pv[v] =>
                  bpvc'[v] = "bound" /\ dep'[v] /\ Reaches(pv[v], v)'
      PROVE  Inv'
  BY <1>0, <1>1, <1>2, <1>4, ProvisionKeeps DEF Inv
<1>5. ASSUME UNCHANGED <<pv, bpvc, dep, svc, addr>>,
             prov' = [prov EXCEPT ![r][v] = "idle"]
      PROVE  Inv'
  <2>1. StepsStand(r, v)'
    BY <1>0, <1>5 DEF StepsStand, TypeOK
  <2> QED BY <1>0, <1>4, <1>5, <2>1 DEF Untouched, Grows, TypeOK
<1>6. ASSUME NEW pc \in ProvPC, UNCHANGED <<pv, bpvc, dep, svc, addr>>,
             prov' = [prov EXCEPT ![r][v] = pc],
             claim[v] = "live" => StepsStand(r, v)'
      PROVE  Inv'
  BY <1>0, <1>4, <1>6 DEF Untouched, Grows, TypeOK
<1>7. CASE Provision(r, v)
  <2>1. "config" \in ProvPC /\ StepsStand(r, v)'
    BY <1>0, <1>7 DEF Provision, StepsStand, TypeOK, ProvPC
  <2> QED BY <1>6, <1>7, <2>1 DEF Provision
<1>8. CASE ValidateRequest(r, v)
  <2>1. /\ "bpvcGet" \in ProvPC /\ prov' = [prov EXCEPT ![r][v] = "bpvcGet"]
        /\ UNCHANGED <<pv, bpvc, dep, svc, addr>>
    BY <1>8 DEF ValidateRequest, ProvGoto, createNFSServer, ProvPC
  <2>2. StepsStand(r, v)'
    BY <1>0, <2>1 DEF StepsStand, TypeOK
  <2> QED BY <1>6, <2>1, <2>2
<1>9. CASE GetBackendPVC(r, v)
  <2>1. PICK pc \in ProvPC :
          /\ prov' = [prov EXCEPT ![r][v] = pc]
          /\ pc \in {"bpvcCreate", "depGet"}
          /\ pc = "depGet" => bpvc[v] # "absent"
    BY <1>9 DEF GetBackendPVC, ProvGoto, createNFSServer, ProvPC
  <2>2. UNCHANGED <<pv, bpvc, dep, svc, addr>>
    BY <1>9 DEF GetBackendPVC
  <2>3. StepsStand(r, v)'
    BY <1>0, <2>1, <2>2 DEF StepsStand, TypeOK
  <2> QED BY <1>6, <2>1, <2>2, <2>3
<1>10. CASE GetDeployment(r, v)
  <2>1. PICK pc \in ProvPC :
          /\ prov' = [prov EXCEPT ![r][v] = pc]
          /\ pc \in {"depCreate", "wait"}
          /\ pc = "wait" => dep[v]
    BY <1>10 DEF GetDeployment, ProvGoto, createNFSServer, ProvPC
  <2>2. UNCHANGED <<pv, bpvc, dep, svc, addr>> /\ prov[r][v] = "depGet"
    BY <1>10 DEF GetDeployment
  <2>3. claim[v] = "live" => StepsStand(r, v)'
    BY <1>0, <1>3, <2>1, <2>2 DEF StepsStand, TypeOK
  <2> QED BY <1>6, <2>1, <2>2, <2>3
<1>11. CASE PvcBound(r, v)
  <2>1. /\ "svcGet" \in ProvPC /\ prov' = [prov EXCEPT ![r][v] = "svcGet"]
        /\ UNCHANGED <<pv, bpvc, dep, svc, addr>>
        /\ prov[r][v] = "wait" /\ bpvc[v] = "bound"
    BY <1>11 DEF PvcBound, ProvGoto, createNFSServer, ProvPC
  <2>2. claim[v] = "live" => StepsStand(r, v)'
    BY <1>0, <1>3, <2>1 DEF StepsStand, TypeOK
  <2> QED BY <1>6, <2>1, <2>2
<1>12. CASE GetService(r, v)
  <2>1. PICK pc \in ProvPC :
          /\ prov' = [prov EXCEPT ![r][v] = pc]
          /\ pc \in {"svcCreate", "addr"}
          /\ pc = "addr" => svc[v] # "absent"
    BY <1>12 DEF GetService, ProvGoto, createNFSServer, ProvPC
  <2>2. UNCHANGED <<pv, bpvc, dep, svc, addr>> /\ prov[r][v] = "svcGet"
    BY <1>12 DEF GetService
  <2>3. claim[v] = "live" => StepsStand(r, v)'
    BY <1>0, <1>3, <2>1, <2>2 DEF StepsStand, TypeOK
  <2> QED BY <1>6, <2>1, <2>2, <2>3
<1>13. CASE PvcWaitFails(r, v) \/ ProvisionFails(r, v)
  BY <1>5, <1>13 DEF PvcWaitFails, ProvisionFails, ProvReturnsError
<1>14. CASE CreateBackendPVC(r, v)
  <2>1. CASE bpvc[v] = "absent" /\ Answered /\ ProvGoto(r, v, "depGet")
    <3>1. /\ prov' = [prov EXCEPT ![r][v] = "depGet"]
          /\ bpvc' = [bpvc EXCEPT ![v] = "pending"]
          /\ UNCHANGED <<pv, dep, svc, addr>>
      BY <1>14, <2>1 DEF CreateBackendPVC, ProvGoto
    <3>2. StepsStand(r, v)'
      BY <1>0, <3>1 DEF StepsStand, TypeOK
    <3> QED BY <1>0, <1>4, <2>1, <3>1, <3>2 DEF Untouched, Grows, TypeOK
  <2>2. CASE bpvc[v] = "absent" /\ ProvReturnsError(r, v)
    <3>1. /\ prov' = [prov EXCEPT ![r][v] = "idle"]
          /\ bpvc' = [bpvc EXCEPT ![v] = "pending"]
          /\ UNCHANGED <<pv, dep, svc, addr>>
      BY <1>14, <2>2 DEF CreateBackendPVC, ProvReturnsError
    <3>2. StepsStand(r, v)'
      BY <1>0, <3>1 DEF StepsStand, TypeOK
    <3> QED BY <1>0, <1>4, <2>2, <3>1, <3>2 DEF Untouched, Grows, TypeOK
  <2>3. CASE bpvc[v] # "absent"
    BY <1>5, <1>14, <2>3 DEF CreateBackendPVC, CreateRefused, ProvReturnsError
  <2> QED BY <1>14, <2>1, <2>2, <2>3 DEF CreateBackendPVC, Created, createNFSServer
<1>15. CASE CreateDeployment(r, v)
  <2>0. prov[r][v] = "depCreate"
    BY <1>15 DEF CreateDeployment
  <2>1. CASE ~dep[v] /\ Answered /\ ProvGoto(r, v, "wait")
    <3>1. /\ prov' = [prov EXCEPT ![r][v] = "wait"]
          /\ dep' = [dep EXCEPT ![v] = TRUE]
          /\ UNCHANGED <<pv, bpvc, svc, addr>>
      BY <1>15, <2>1 DEF CreateDeployment, ProvGoto
    <3>2. claim[v] = "live" => StepsStand(r, v)'
      BY <1>0, <1>3, <2>0, <3>1 DEF StepsStand, TypeOK
    <3> QED BY <1>0, <1>4, <2>1, <3>1, <3>2 DEF Untouched, Grows, TypeOK
  <2>2. CASE ~dep[v] /\ ProvReturnsError(r, v)
    <3>1. /\ prov' = [prov EXCEPT ![r][v] = "idle"]
          /\ dep' = [dep EXCEPT ![v] = TRUE]
          /\ UNCHANGED <<pv, bpvc, svc, addr>>
      BY <1>15, <2>2 DEF CreateDeployment, ProvReturnsError
    <3>2. StepsStand(r, v)'
      BY <1>0, <3>1 DEF StepsStand, TypeOK
    <3> QED BY <1>0, <1>4, <2>2, <3>1, <3>2 DEF Untouched, Grows, TypeOK
  <2>3. CASE dep[v]
    BY <1>5, <1>15, <2>3 DEF CreateDeployment, CreateRefused, ProvReturnsError
  <2> QED BY <1>15, <2>1, <2>2, <2>3 DEF CreateDeployment, Created, createNFSServer
<1>16. CASE CreateService(r, v)
  <2>0. prov[r][v] = "svcCreate" /\ UNCHANGED <<pv, bpvc, dep, addr>>
    BY <1>16 DEF CreateService
  <2>1. ASSUME NEW ip \in FreeIPs, svc[v] = "absent",
               svc' = [svc EXCEPT ![v] = ip], ProvGoto(r, v, "addr")
        PROVE  Inv'
    <3>1. prov' = [prov EXCEPT ![r][v] = "addr"] /\ ip # "absent"
      BY <2>1, ConstantAssumption DEF ProvGoto, FreeIPs
    <3>2. claim[v] = "live" => StepsStand(r, v)'
      BY <1>0, <1>3, <2>0, <2>1, <3>1 DEF StepsStand, TypeOK
    <3> QED BY <1>0, <1>4, <2>0, <2>1, <3>1, <3>2 DEF Untouched, Grows, TypeOK
  <2>2. ASSUME NEW ip \in FreeIPs, svc[v] = "absent",
               svc' = [svc EXCEPT ![v] = ip], ProvReturnsError(r, v)
        PROVE  Inv'
    <3>1. prov' = [prov EXCEPT ![r][v] = "idle"]
      BY <2>2 DEF ProvReturnsError
    <3>2. StepsStand(r, v)'
      BY <1>0, <3>1 DEF StepsStand, TypeOK
    <3> QED BY <1>0, <1>4, <2>0, <2>2, <3>1, <3>2 DEF Untouched, Grows, TypeOK
  <2>3. CASE UNCHANGED svc /\ CreateRefused(r, v)
    BY <1>5, <2>0, <2>3 DEF CreateRefused, ProvReturnsError
  <2> QED BY <1>16, <2>1, <2>2, <2>3 DEF CreateService, Created, createNFSServer
<1>17. CASE GetNFSServerAddress(r, v)
  <2>0. prov[r][v] = "addr" /\ UNCHANGED <<pv, bpvc, dep, svc>>
    BY <1>17 DEF GetNFSServerAddress
  <2>1. CASE UseClusterIP /\ svc[v] = "absent"
    BY <1>5, <1>17, <2>0, <2>1 DEF GetNFSServerAddress, ProvReturnsError
  <2>2. CASE ~(UseClusterIP /\ svc[v] = "absent")
    <3> DEFINE a == IF UseClusterIP THEN svc[v] ELSE "dns"
    <3>1. /\ addr' = [addr EXCEPT ![r][v] = a]
          /\ prov' = [prov EXCEPT ![r][v] = "store"]
      BY <1>17, <2>2 DEF GetNFSServerAddress
    <3>2. addr'[r][v] = a /\ prov'[r][v] = "store"
      BY <1>0, <3>1 DEF TypeOK
    <3>3. \A q \in Replicas, w \in Volumes : q # r \/ w # v =>
            prov'[q][w] = prov[q][w] /\ addr'[q][w] = addr[q][w]
      BY <1>0, <3>1 DEF TypeOK
    <3> HIDE DEF a
    <3>4. a \in {"dns", svc[v]}
      BY DEF a
    <3>5. claim[v] = "live" => StepsStand(r, v)'
      BY <1>0, <1>3, <2>0, <3>2, <3>4 DEF StepsStand, TypeOK, Reaches
    <3> QED BY <1>4, <2>0, <3>3, <3>5 DEF Untouched, Grows
  <2> QED BY <2>1, <2>2
<1>18. CASE StorePV(r, v)
  <2>0. /\ prov[r][v] = "store" /\ UNCHANGED <<bpvc, dep, svc>>
        /\ prov' = [prov EXCEPT ![r][v] = "idle"]
        /\ addr' = [addr EXCEPT ![r][v] = "absent"]
    BY <1>18 DEF StorePV, ProvGoto
  <2>1. /\ \A w \in Volumes \ {v} : pv'[w] = pv[w]
        /\ pv'[v] = pv[v] \/ pv'[v] = addr[r][v]
    BY <1>0, <1>18 DEF StorePV, TypeOK
  <2>2. StepsStand(r, v)'
    BY <1>0, <2>0 DEF StepsStand, TypeOK
  <2>3. claim[v] = "live" /\ pv'[v] # pv[v] =>
          bpvc'[v] = "bound" /\ dep'[v] /\ Reaches(pv[v], v)'
    BY <1>3, <2>0, <2>1 DEF StepsStand, Reaches
  <2>4. \A q \in Replicas, w \in Volumes : q # r \/ w # v =>
          prov'[q][w] = prov[q][w] /\ addr'[q][w] = addr[q][w]
    BY <1>0, <2>0 DEF TypeOK
  <2> QED BY <1>4, <2>0, <2>1, <2>2, <2>3, <2>4 DEF Untouched, Grows
<1> QED BY <1>7, <1>8, <1>9, <1>10, <1>11, <1>12, <1>13, <1>14, <1>15, <1>16,
           <1>17, <1>18 DEF ProvisionStep

\* The collector drops an item: it is at none, and its list has only shrunk.
LEMMA GCSkipShrinks ==
  ASSUME TypeOK, NEW r \in Replicas, NEW v \in Volumes, GCSkip(r, v)
  PROVE  \A q \in Replicas :
           \/ gc'[q] = gc[q]
           \/ gc'[q].pc \in {"idle", "scan"} /\ gc'[q].todo \subseteq gc[q].todo
<1>1. /\ GCAfter(gc[r].todo \ {v}).pc \in {"idle", "scan"}
      /\ GCAfter(gc[r].todo \ {v}).todo \subseteq gc[r].todo
  BY DEF GCAfter, GcIdle
<1> HIDE DEF GCAfter
<1>2. gc'[r] = GCAfter(gc[r].todo \ {v})
  BY DEF GCSkip, TypeOK
<1>3. \A q \in Replicas \ {r} : gc'[q] = gc[q]
  BY DEF GCSkip, TypeOK
<1> QED BY <1>1, <1>2, <1>3

\* A step of deleteNFSServer(v): v is released, and nothing else is touched.
LEMMA DeleteNFSServerInv ==
  ASSUME Inv, NEW r \in Replicas, NEW c \in Callers, NEW v \in Volumes,
         DeleteNFSServerStep(r, c, v) \/ DeleteNFSServerFails(r, c, v)
  PROVE  Inv'
<1> USE DEF DeleteNFSServerStep, LookupService, DeleteService, LookupDeployment,
            DeleteDeployment, LookupBackendPVC, DeleteBackendPVC,
            DeleteNFSServerSucceeds, DeleteNFSServerFails
<1>0. TypeOK /\ TypeOK'
  BY DeleteNFSServerTyped, FaultTyped DEF Inv, FaultStep
<1>1. rm[r][c][v] # "idle"
  OBVIOUS
<1>2. claim[v] = "gone"
  BY <1>1 DEF Inv, DeletesReleasedOnly
<1>3. claim' = claim /\ pv' = pv /\ prov' = prov /\ addr' = addr
  OBVIOUS
<1>4. \A w \in Volumes \ {v} : bpvc'[w] = bpvc[w] /\ dep'[w] = dep[w]
                               /\ svc'[w] = svc[w]
  BY <1>0 DEF TypeOK
<1>5. \/ \E pc : RmGoto(r, c, v, pc)
      \/ \E pc : RmReturns(r, c, v, pc)
  BY DEF Looked, Deleted
<1> HIDE DEF DeleteNFSServerStep, LookupService, DeleteService, LookupDeployment,
             DeleteDeployment, LookupBackendPVC, DeleteBackendPVC,
             DeleteNFSServerSucceeds, DeleteNFSServerFails
<1>6. \A q \in Replicas, d \in Callers, w \in Volumes :
        rm'[q][d][w] # "idle" => rm[q][d][w] # "idle"
  <2>1. PICK pc : rm' = [rm EXCEPT ![r][c][v] = pc]
    BY <1>5 DEF RmGoto, RmReturns
  <2> QED BY <1>0, <1>1, <2>1 DEF TypeOK
<1>7. gc' = gc \/ GCSkip(r, v)
  BY <1>5 DEF RmGoto, RmReturns
<1>8. \A q \in Replicas :
        \/ gc'[q] = gc[q]
        \/ gc'[q].pc \in {"idle", "scan"} /\ gc'[q].todo \subseteq gc[q].todo
  BY <1>0, <1>7, GCSkipShrinks
<1>9. DeletesReleasedOnly'
  BY <1>3, <1>6, <1>8 DEF Inv, DeletesReleasedOnly
<1>10. \A w \in Volumes : claim[w] # "gone" => Untouched(w)
  BY <1>2, <1>3, <1>4 DEF Untouched
<1>11. \A q \in Replicas : \A w \in gc'[q].todo : claim'[w] # "none"
  BY <1>3, <1>8 DEF Inv, NothingBeforeClaim
<1> QED BY <1>0, <1>3, <1>9, <1>10, <1>11, ReleasedTouched
        DEF Inv, NothingBeforeClaim

LEMMA DeleteInv ==
  ASSUME Inv, NEW r \in Replicas, NEW v \in Volumes, DeleteStep(r, v)
  PROVE  Inv'
<1>0. TypeOK /\ TypeOK' /\ "delete" \in Callers
  BY DeleteTyped DEF Inv, Callers
<1>1. CASE Delete(r, v)
  <2>1. UNCHANGED <<claim, pv, bpvc, dep, svc, prov, addr, gc>>
    BY <1>1 DEF Delete
  <2>2. \A q \in Replicas, d \in Callers, w \in Volumes :
          rm'[q][d][w] # "idle" => rm[q][d][w] # "idle" \/ w = v
    BY <1>0, <1>1 DEF Delete, TypeOK
  <2>3. DeletesReleasedOnly'
    BY <1>1, <2>1, <2>2 DEF Inv, DeletesReleasedOnly, Delete
  <2>4. \A w \in Volumes : Untouched(w)
    BY <2>1 DEF Untouched
  <2> QED BY <1>0, <2>1, <2>3, <2>4, ReleasedTouched DEF Inv, NothingBeforeClaim
<1>2. CASE DeleteNFSServerStep(r, "delete", v)
  BY <1>0, <1>2, DeleteNFSServerInv
<1>3. CASE RemovePV(r, v)
  <2>1. UNCHANGED <<claim, bpvc, dep, svc, prov, addr, gc>>
    BY <1>3 DEF RemovePV, RmGoto
  <2>2. claim[v] = "gone"
    BY <1>0, <1>3 DEF RemovePV, Inv, DeletesReleasedOnly
  <2>3. \A w \in Volumes : claim[w] # "gone" => Untouched(w)
    BY <1>0, <1>3, <2>1, <2>2 DEF RemovePV, Untouched, TypeOK
  <2>4. \A q \in Replicas, d \in Callers, w \in Volumes :
          rm'[q][d][w] # "idle" => rm[q][d][w] # "idle"
    BY <1>0, <1>3 DEF RemovePV, RmGoto, TypeOK
  <2>5. DeletesReleasedOnly'
    BY <2>1, <2>4 DEF Inv, DeletesReleasedOnly
  <2> QED BY <1>0, <2>1, <2>3, <2>5, ReleasedTouched DEF Inv, NothingBeforeClaim
<1> QED BY <1>1, <1>2, <1>3 DEF DeleteStep

LEMMA GCInv ==
  ASSUME Inv, NEW r \in Replicas, NEW v \in Volumes,
         GCStep(r, v) \/ GCCheckFails(r, v)
  PROVE  Inv'
<1>0. TypeOK /\ TypeOK' /\ "gc" \in Callers
  BY GCTyped, FaultTyped DEF Inv, FaultStep, Callers
<1>1. CASE DeleteNFSServerStep(r, "gc", v)
  BY <1>0, <1>1, DeleteNFSServerInv
<1>2. ASSUME UNCHANGED <<claim, pv, bpvc, dep, svc, prov, addr>>,
             DeletesReleasedOnly',
             \A q \in Replicas : gc'[q].todo \subseteq gc[q].todo
      PROVE  Inv'
  <2>1. \A w \in Volumes : Untouched(w)
    BY <1>2 DEF Untouched
  <2>2. \A q \in Replicas : \A w \in gc'[q].todo : claim'[w] # "none"
    BY <1>2 DEF Inv, NothingBeforeClaim
  <2> QED BY <1>0, <1>2, <2>1, <2>2, ReleasedTouched DEF Inv, NothingBeforeClaim
<1>3. ASSUME UNCHANGED <<claim, pv, bpvc, dep, svc, prov, addr, rm>>, GCSkip(r, v)
      PROVE  Inv'
  <2>1. \A q \in Replicas :
          \/ gc'[q] = gc[q]
          \/ gc'[q].pc \in {"idle", "scan"} /\ gc'[q].todo \subseteq gc[q].todo
    BY <1>0, <1>3, GCSkipShrinks
  <2>2. DeletesReleasedOnly'
    BY <1>3, <2>1 DEF Inv, DeletesReleasedOnly
  <2> QED BY <1>2, <1>3, <2>1, <2>2
<1>4. CASE GCCheckClaim(r, v)
  <2>1. CASE nfsPvcExists(v)
    BY <1>3, <1>4, <2>1 DEF GCCheckClaim
  <2>2. CASE ~nfsPvcExists(v)
    <3>1. /\ UNCHANGED <<claim, pv, bpvc, dep, svc, prov, addr, rm>>
          /\ gc' = [gc EXCEPT ![r] = [@ EXCEPT !.pc = "tracker", !.item = v]]
          /\ v \in gc[r].todo
      BY <1>4, <2>2 DEF GCCheckClaim
    <3>2. claim[v] = "gone"
      BY <1>0, <2>2, <3>1 DEF nfsPvcExists, Inv, NothingBeforeClaim, TypeOK
    <3>3. /\ gc'[r].todo = gc[r].todo /\ gc'[r].item = v
          /\ \A q \in Replicas \ {r} : gc'[q] = gc[q]
      BY <1>0, <3>1 DEF TypeOK
    <3>4. DeletesReleasedOnly'
      BY <3>1, <3>2, <3>3 DEF Inv, DeletesReleasedOnly
    <3> QED BY <1>2, <3>1, <3>3, <3>4
  <2> QED BY <2>1, <2>2
<1>5. CASE GCCheckTracker(r, v)
  <2>1. CASE v \in tracker[r]
    BY <1>3, <1>5, <2>1 DEF GCCheckTracker
  <2>2. CASE v \notin tracker[r]
    <3>1. /\ UNCHANGED <<claim, pv, bpvc, dep, svc, prov, addr, rm>>
          /\ gc' = [gc EXCEPT ![r].pc = "pv"]
          /\ gc[r].pc = "tracker"
      BY <1>5, <2>2 DEF GCCheckTracker
    <3>3. /\ gc'[r].todo = gc[r].todo /\ gc'[r].item = gc[r].item
          /\ \A q \in Replicas \ {r} : gc'[q] = gc[q]
      BY <1>0, <3>1 DEF TypeOK
    <3>4. DeletesReleasedOnly'
      BY <3>1, <3>3 DEF Inv, DeletesReleasedOnly
    <3> QED BY <1>2, <3>1, <3>3, <3>4
  <2> QED BY <2>1, <2>2
<1>6. CASE GCCheckPV(r, v)
  <2>1. CASE pv[v] # "absent"
    BY <1>3, <1>6, <2>1 DEF GCCheckPV
  <2>2. CASE pv[v] = "absent"
    <3>1. /\ UNCHANGED <<claim, pv, bpvc, dep, svc, prov, addr>>
          /\ gc' = [gc EXCEPT ![r].pc = "clean"]
          /\ rm' = [rm EXCEPT ![r]["gc"][v] = deleteNFSServer.start]
          /\ gc[r].pc = "pv" /\ gc[r].item = v
      BY <1>6, <2>2 DEF GCCheckPV
    <3>2. claim[v] = "gone"
      BY <3>1 DEF Inv, DeletesReleasedOnly
    <3>3. /\ gc'[r].todo = gc[r].todo /\ gc'[r].item = v
          /\ \A q \in Replicas \ {r} : gc'[q] = gc[q]
      BY <1>0, <3>1 DEF TypeOK
    <3>4. \A q \in Replicas, d \in Callers, w \in Volumes :
            rm'[q][d][w] # "idle" => rm[q][d][w] # "idle" \/ w = v
      BY <1>0, <3>1 DEF TypeOK
    <3>5. DeletesReleasedOnly'
      BY <3>1, <3>2, <3>3, <3>4 DEF Inv, DeletesReleasedOnly
    <3> QED BY <1>2, <3>1, <3>3, <3>5
  <2> QED BY <2>1, <2>2
<1>7. CASE GCCheckFails(r, v)
  BY <1>3, <1>7 DEF GCCheckFails
<1> QED BY <1>1, <1>4, <1>5, <1>6, <1>7 DEF GCStep

LEMMA GCListInv ==
  ASSUME Inv, NEW r \in Replicas, GCList(r)
  PROVE  Inv'
<1>0. TypeOK /\ TypeOK'
  BY GCListTyped DEF Inv
<1> DEFINE L == {v \in Volumes : bpvc[v] # "absent"}
<1>1. /\ GCAfter(L).pc \in {"idle", "scan"} /\ GCAfter(L).todo = L
  BY DEF GCAfter, GcIdle
<1>2. \A v \in L : claim[v] # "none"
  BY DEF Inv, NothingBeforeClaim, Backend, NoBackend
<1>3. UNCHANGED <<claim, pv, bpvc, dep, svc, prov, addr, rm>>
  BY DEF GCList
<1>4. /\ gc'[r].pc \in {"idle", "scan"} /\ gc'[r].todo = L
      /\ \A q \in Replicas \ {r} : gc'[q] = gc[q]
  BY <1>0, <1>1 DEF GCList, TypeOK
<1> HIDE DEF L
<1>5. DeletesReleasedOnly'
  BY <1>3, <1>4 DEF Inv, DeletesReleasedOnly
<1>6. \A q \in Replicas : \A w \in gc'[q].todo : claim'[w] # "none"
  BY <1>2, <1>3, <1>4 DEF Inv, NothingBeforeClaim
<1>7. \A w \in Volumes : Untouched(w)
  BY <1>3 DEF Untouched
<1> QED BY <1>0, <1>3, <1>5, <1>6, <1>7, ReleasedTouched
        DEF Inv, NothingBeforeClaim

LEMMA InitInv == Init => Inv
<1> SUFFICES ASSUME Init PROVE Inv
  OBVIOUS
<1>1. TypeOK
  BY InitTyped
<1>2. DeletesReleasedOnly /\ NothingBeforeClaim
  BY DEF Init, DeletesReleasedOnly, NothingBeforeClaim, Backend, NoBackend, GcIdle
<1>3. LiveClaimStands /\ BoundVolumeServed
  BY DEF Init, LiveClaimStands, BoundVolumeServed
<1> QED BY <1>1, <1>2, <1>3 DEF Inv

LEMMA NextInv == Inv /\ [Next]_vars => Inv'
<1> SUFFICES ASSUME Inv, [Next]_vars PROVE Inv'
  OBVIOUS
<1>1. CASE UNCHANGED vars
  BY <1>1 DEF vars, Inv, TypeOK, DeletesReleasedOnly, NothingBeforeClaim, Backend,
              LiveClaimStands, StepsStand, BoundVolumeServed, Reaches
<1>2. ASSUME NEW v \in Volumes, EnvironmentStep(v) PROVE Inv'
  BY <1>2, EnvironmentInv
<1>3. ASSUME NEW r \in Replicas, ProcessStep(r) \/ GCList(r) PROVE Inv'
  BY <1>3, ProcessInv, GCListInv
<1>4. ASSUME NEW r \in Replicas, NEW v \in Volumes,
             ProvisionStep(r, v) \/ DeleteStep(r, v) \/ GCStep(r, v)
      PROVE  Inv'
  BY <1>4, ProvisionInv, DeleteInv, GCInv
<1>5. ASSUME NEW r \in Replicas, NEW v \in Volumes, FaultStep(r, v)
      PROVE  Inv'
  BY <1>5, ProvisionInv, GCInv, DeleteNFSServerInv DEF FaultStep
<1> QED BY <1>1, <1>2, <1>3, <1>4, <1>5 DEF Next

LEMMA Invariance == Spec => []Inv
BY InitInv, NextInv, PTL DEF Spec

\* A live claim that has a PV is served at the address in its PV, for every set
\* of replicas, volumes and faults, with leader election or without it, however
\* stale the controller's caches are.
THEOREM BoundVolumesServed == Spec => []BoundVolumeServed
BY Invariance, PTL DEF Inv

-----------------------------------------------------------------------------
(* What a step may do to the objects of a volume *)

\* The claim is created or deleted.
ClaimChanges(v) ==
  /\ UserCreateClaim(v) \/ UserDeleteClaim(v)
  /\ UNCHANGED <<pv, bpvc, dep, svc>>

\* A backend object of v is created, or its backend PVC bound.
BackendGrows(v) ==
  /\ claim[v] # "none"
  /\ UNCHANGED <<claim, pv>>
  /\ \A w \in Volumes \ {v} : Untouched(w)
  /\ bpvc[v] # "absent" => bpvc'[v] # "absent"
  /\ bpvc[v] = "bound" => bpvc'[v] = "bound"
  /\ dep[v] => dep'[v]
  /\ svc[v] # "absent" => svc'[v] = svc[v]

\* Something of a released volume changes.
ReleasedChanges(v) ==
  /\ claim[v] = "gone"
  /\ UNCHANGED claim
  /\ \A w \in Volumes \ {v} : Untouched(w)

\* Every step is one of these, the creation of a PV object, or leaves the
\* objects in the cluster alone.
LEMMA StepShape ==
  ASSUME Inv, Next
  PROVE  \/ UNCHANGED cluster
         \/ \E v \in Volumes :
              ClaimChanges(v) \/ BackendGrows(v) \/ ReleasedChanges(v)
         \/ \E r \in Replicas, v \in Volumes : StorePV(r, v)
<1>0. TypeOK
  BY DEF Inv
<1>1. ASSUME NEW v \in Volumes, EnvironmentStep(v)
      PROVE  ClaimChanges(v) \/ BackendGrows(v) \/ ReleasedChanges(v)
  <2>1. CASE UserCreateClaim(v) \/ UserDeleteClaim(v)
    BY <2>1 DEF ClaimChanges, UserCreateClaim, UserDeleteClaim
  <2>2. CASE UserDeletePV(v)
    BY <1>0, <2>2 DEF UserDeletePV, ReleasedChanges, Untouched, TypeOK
  <2>3. CASE BindBackendPVC(v)
    <3>1. claim[v] # "none"
      BY <2>3 DEF BindBackendPVC, Inv, NothingBeforeClaim, Backend, NoBackend
    <3> QED BY <1>0, <2>3, <3>1 DEF BindBackendPVC, BackendGrows, Untouched, TypeOK
  <2> QED BY <1>1, <2>1, <2>2, <2>3 DEF EnvironmentStep
<1>2. ASSUME NEW r \in Replicas, ProcessStep(r) \/ GCList(r)
      PROVE  UNCHANGED cluster
  BY <1>2 DEF ProcessStep, Crash, Restart, AcquireLease, GCList, cluster
<1>3. ASSUME NEW r \in Replicas, NEW v \in Volumes, ProvisionStep(r, v)
      PROVE  UNCHANGED cluster \/ BackendGrows(v) \/ StorePV(r, v)
  <2>1. CASE Provision(r, v) \/ ValidateRequest(r, v) \/ GetBackendPVC(r, v)
             \/ GetDeployment(r, v) \/ PvcBound(r, v) \/ PvcWaitFails(r, v)
             \/ GetService(r, v) \/ GetNFSServerAddress(r, v)
    BY <2>1 DEF cluster, Provision, ValidateRequest, GetBackendPVC, GetDeployment,
                PvcBound, PvcWaitFails, GetService, GetNFSServerAddress
  <2>2. CASE CreateBackendPVC(r, v) \/ CreateDeployment(r, v) \/ CreateService(r, v)
    <3>1. claim[v] # "none"
      BY <2>2 DEF CreateBackendPVC, CreateDeployment, CreateService, Inv,
                  NothingBeforeClaim
    <3>2. CASE CreateBackendPVC(r, v)
      BY <1>0, <3>1, <3>2 DEF CreateBackendPVC, BackendGrows, Untouched, TypeOK
    <3>3. CASE CreateDeployment(r, v)
      BY <1>0, <3>1, <3>3 DEF CreateDeployment, BackendGrows, Untouched, TypeOK
    <3>4. CASE CreateService(r, v)
      BY <1>0, <3>1, <3>4 DEF CreateService, BackendGrows, Untouched, TypeOK
    <3> QED BY <2>2, <3>2, <3>3, <3>4
  <2> QED BY <1>3, <2>1, <2>2 DEF ProvisionStep
<1>4. ASSUME NEW r \in Replicas, NEW c \in Callers, NEW v \in Volumes,
             DeleteNFSServerStep(r, c, v) \/ DeleteNFSServerFails(r, c, v)
      PROVE  ReleasedChanges(v)
  <2> USE <1>4 DEF DeleteNFSServerStep, LookupService, DeleteService,
            LookupDeployment, DeleteDeployment, LookupBackendPVC,
            DeleteBackendPVC, DeleteNFSServerSucceeds, DeleteNFSServerFails
  <2>1. rm[r][c][v] # "idle" /\ claim' = claim /\ pv' = pv
    OBVIOUS
  <2>2. \A w \in Volumes \ {v} : bpvc'[w] = bpvc[w] /\ dep'[w] = dep[w]
                                 /\ svc'[w] = svc[w]
    BY <1>0 DEF TypeOK
  <2>3. claim[v] = "gone"
    BY <2>1 DEF Inv, DeletesReleasedOnly
  <2> QED BY <2>1, <2>2, <2>3 DEF ReleasedChanges, Untouched
<1>5. ASSUME NEW r \in Replicas, NEW v \in Volumes, DeleteStep(r, v)
      PROVE  UNCHANGED cluster \/ ReleasedChanges(v)
  <2>0. "delete" \in Callers
    BY DEF Callers
  <2>1. CASE Delete(r, v)
    BY <2>1 DEF Delete, cluster
  <2>2. CASE RemovePV(r, v)
    <3>1. claim[v] = "gone"
      BY <2>0, <2>2 DEF RemovePV, Inv, DeletesReleasedOnly
    <3> QED BY <1>0, <2>2, <3>1 DEF RemovePV, ReleasedChanges, Untouched, TypeOK
  <2> QED BY <1>4, <1>5, <2>0, <2>1, <2>2 DEF DeleteStep
<1>6. ASSUME NEW r \in Replicas, NEW v \in Volumes, GCStep(r, v)
      PROVE  UNCHANGED cluster \/ ReleasedChanges(v)
  <2>0. "gc" \in Callers
    BY DEF Callers
  <2>1. CASE GCCheckClaim(r, v) \/ GCCheckTracker(r, v) \/ GCCheckPV(r, v)
    BY <2>1 DEF GCCheckClaim, GCCheckTracker, GCCheckPV, cluster
  <2> QED BY <1>4, <1>6, <2>0, <2>1 DEF GCStep
<1>7. ASSUME NEW r \in Replicas, NEW v \in Volumes, FaultStep(r, v)
      PROVE  UNCHANGED cluster \/ ReleasedChanges(v)
  <2>1. CASE ProvisionFails(r, v) \/ GCCheckFails(r, v)
    BY <2>1 DEF ProvisionFails, GCCheckFails, cluster
  <2> QED BY <1>4, <1>7, <2>1 DEF FaultStep
<1> QED BY <1>1, <1>2, <1>3, <1>5, <1>6, <1>7 DEF Next

\* No step of any actor removes or replaces a backend object of a live claim.
THEOREM LiveClaimsKeepBackend == Spec => LiveClaimKeepsBackend
<1>1. Inv /\ [Next]_vars =>
        [\A v \in Volumes : claim[v] = "live" => KeepsBackend(v)]_vars
  <2> SUFFICES ASSUME Inv, Next, NEW v \in Volumes, claim[v] = "live"
               PROVE  KeepsBackend(v)
    OBVIOUS
  <2>1. CASE UNCHANGED cluster
    BY <2>1 DEF cluster, KeepsBackend
  <2>2. ASSUME NEW w \in Volumes,
               ClaimChanges(w) \/ BackendGrows(w) \/ ReleasedChanges(w)
        PROVE  KeepsBackend(v)
    BY <2>2 DEF ClaimChanges, BackendGrows, ReleasedChanges, Untouched,
                KeepsBackend
  <2>3. ASSUME NEW r \in Replicas, NEW w \in Volumes, StorePV(r, w)
        PROVE  KeepsBackend(v)
    BY <2>3 DEF StorePV, KeepsBackend
  <2> QED BY <2>1, <2>2, <2>3, StepShape
<1> QED BY <1>1, Invariance, PTL DEF Spec, LiveClaimKeepsBackend

=============================================================================
