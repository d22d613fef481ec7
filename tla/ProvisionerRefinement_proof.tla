-------------------- MODULE ProvisionerRefinement_proof --------------------
(* The provisioner implements VolumeService, for every value of the constants. *)
EXTENDS ProvisionerRefinement, NFSProvisioner_proof

AllParts == {"storage", "server", "endpoint"}

LEMMA ReadyType == \A v \in Volumes : ready[v] \in SUBSET AllParts
BY DEF ready, AllParts

\* The parts of an untouched volume are the same.
LEMMA ReadyUntouched ==
  ASSUME NEW w \in Volumes, Untouched(w)
  PROVE  ready'[w] = ready[w] /\ published'[w] = published[w]
BY DEF Untouched, ready, published, Reaches

\* A volume with all its objects, at the address in its PV if there is one, has
\* all its parts.
LEMMA ReadyComplete ==
  ASSUME NEW v \in Volumes, bpvc[v] = "bound", dep[v], svc[v] # "absent",
         pv[v] # "absent" => Reaches(pv[v], v)
  PROVE  ready[v] = AllParts
BY DEF ready, AllParts

\* Only v differs: the abstract functions change at v.
LEMMA OnlyAt ==
  ASSUME NEW v \in Volumes, \A w \in Volumes \ {v} : Untouched(w)
  PROVE  /\ ready' = [ready EXCEPT ![v] = ready'[v]]
         /\ published' = [published EXCEPT ![v] = published'[v]]
<1>1. \A w \in Volumes \ {v} : ready'[w] = ready[w] /\ published'[w] = published[w]
  BY ReadyUntouched
<1>2. /\ ready = [w \in Volumes |-> ready[w]]
      /\ ready' = [w \in Volumes |-> ready'[w]]
      /\ published = [w \in Volumes |-> published[w]]
      /\ published' = [w \in Volumes |-> published'[w]]
  BY DEF ready, published
<1> HIDE DEF ready, published
<1> QED BY <1>1, <1>2

ServiceStep == Service!Next \/ UNCHANGED <<claim, ready, published>>

\* A step that adds to the backend of v assembles it while the claim waits, is
\* invisible once the volume is published, and free after the release.
LEMMA GrowthRefines ==
  ASSUME Inv, NEW v \in Volumes, BackendGrows(v)
  PROVE  ServiceStep
<1>0. TypeOK
  BY DEF Inv
<1>1. /\ ready' = [ready EXCEPT ![v] = ready'[v]]
      /\ claim' = claim /\ pv' = pv /\ published' = published
  BY OnlyAt DEF BackendGrows, published
<1>2. ready'[v] \in SUBSET AllParts
  BY DEF ready, AllParts
<1>3. CASE claim[v] = "live" /\ pv[v] = "absent"
  <2>1. ready[v] \subseteq ready'[v]
    BY <1>3 DEF BackendGrows, ready
  <2>2. ready'[v] = ready[v] \cup ready'[v]
    BY <2>1
  <2>3. ready' = [ready EXCEPT ![v] = @ \cup ready'[v]]
    BY <1>1, <2>2
  <2>4. ~published[v]
    BY <1>3 DEF published
  <2>5. Service!Assemble(v)
    BY <1>1, <1>2, <1>3, <2>3, <2>4 DEF Service!Assemble, Service!Parts, AllParts
  <2> QED BY <2>5 DEF ServiceStep, Service!Next
<1>4. CASE claim[v] = "live" /\ pv[v] # "absent"
  <2>1. /\ bpvc[v] = "bound" /\ dep[v] /\ svc[v] # "absent"
        /\ Reaches(pv[v], v)
    BY <1>4 DEF Inv, BoundVolumeServed, Reaches
  <2>2. bpvc'[v] = bpvc[v] /\ dep'[v] /\ svc'[v] = svc[v] /\ pv'[v] = pv[v]
    BY <2>1 DEF BackendGrows
  <2>3. ready'[v] = ready[v]
    BY <2>1, <2>2 DEF ready, Reaches
  <2>4. ready' = ready
    BY <1>1, <2>3 DEF ready
  <2> QED BY <1>1, <2>4 DEF ServiceStep
<1>5. CASE claim[v] = "gone"
  <2>1. published' = [published EXCEPT ![v] = published[v]]
        /\ published[v] \in BOOLEAN
    BY <1>1 DEF published
  <2>2. Service!Reclaim(v)
    BY <1>1, <1>2, <1>5, <2>1 DEF Service!Reclaim, Service!Parts, AllParts
  <2> QED BY <2>2 DEF ServiceStep, Service!Next
<1> QED BY <1>0, <1>3, <1>4, <1>5 DEF BackendGrows, TypeOK

LEMMA ReleasedRefines ==
  ASSUME NEW v \in Volumes, ReleasedChanges(v)
  PROVE  ServiceStep
<1>1. /\ ready' = [ready EXCEPT ![v] = ready'[v]]
      /\ published' = [published EXCEPT ![v] = published'[v]]
  BY OnlyAt DEF ReleasedChanges
<1>2. ready'[v] \in SUBSET AllParts /\ published'[v] \in BOOLEAN
  BY DEF ready, published, AllParts
<1>3. Service!Reclaim(v)
  BY <1>1, <1>2 DEF ReleasedChanges, Service!Reclaim, Service!Parts, AllParts
<1> QED BY <1>3 DEF ServiceStep, Service!Next

\* The creation of the PV object publishes a complete volume.
LEMMA StoreRefines ==
  ASSUME Inv, NEW r \in Replicas, NEW v \in Volumes, StorePV(r, v)
  PROVE  ServiceStep
<1>0. TypeOK
  BY DEF Inv
<1>1. /\ \A w \in Volumes \ {v} : Untouched(w)
      /\ claim' = claim /\ bpvc' = bpvc /\ dep' = dep /\ svc' = svc
  BY <1>0 DEF StorePV, Untouched, TypeOK
<1>2. /\ ready' = [ready EXCEPT ![v] = ready'[v]]
      /\ published' = [published EXCEPT ![v] = published'[v]]
  BY <1>1, OnlyAt
<1>3. claim[v] # "none"
  BY DEF StorePV, Inv, NothingBeforeClaim
<1>4. CASE claim[v] = "gone"
  BY <1>1, <1>4, ReleasedRefines DEF ReleasedChanges
<1>5. CASE pv[v] # "absent"
  <2>1. pv' = pv
    BY <1>5 DEF StorePV
  <2> QED BY <1>1, <2>1 DEF ServiceStep, ready, published, Reaches
<1>6. CASE claim[v] = "live" /\ pv[v] = "absent"
  <2>1. /\ bpvc[v] = "bound" /\ dep[v] /\ svc[v] # "absent"
        /\ Reaches(addr[r][v], v)
    BY <1>6 DEF StorePV, Inv, LiveClaimStands, StepsStand
  <2>2. pv'[v] = addr[r][v] /\ addr[r][v] # "absent"
    BY <1>0, <1>6, <2>1, ConstantAssumption DEF StorePV, TypeOK, Reaches
  <2>3. ready[v] = AllParts
    BY <1>6, <2>1, ReadyComplete
  <2>4. ready'[v] = AllParts
    BY <1>1, <2>1, <2>2 DEF ready, AllParts, Reaches
  <2>5. ready' = ready
    BY <1>2, <2>3, <2>4 DEF ready
  <2>6. published'[v] = TRUE
    BY <2>2 DEF published
  <2>7. Service!Publish(v)
    BY <1>1, <1>2, <1>6, <2>3, <2>5, <2>6 DEF Service!Publish, Service!Parts,
                                                AllParts
  <2> QED BY <2>7 DEF ServiceStep, Service!Next
<1> QED BY <1>0, <1>3, <1>4, <1>5, <1>6 DEF TypeOK

LEMMA ClaimRefines ==
  ASSUME Inv, NEW v \in Volumes, ClaimChanges(v)
  PROVE  ServiceStep
<1>1. ready' = ready /\ published' = published
  BY DEF ClaimChanges, ready, published, Reaches
<1>2. Service!Request(v) \/ Service!Release(v)
  BY <1>1 DEF ClaimChanges, UserCreateClaim, UserDeleteClaim, Service!Request,
              Service!Release
<1> QED BY <1>2 DEF ServiceStep, Service!Next

\* The provisioner implements VolumeService: whatever the replicas, the retries,
\* the crashes and the garbage collectors do, a claim sees its volume assembled,
\* published when complete, and left alone until it is released.
THEOREM Refinement == Spec => ImplementsVolumeService
<1>1. Init => Service!Init
  <2> SUFFICES ASSUME Init PROVE Service!Init
    OBVIOUS
  <2>1. \A v \in Volumes : ready[v] = {}
    BY DEF Init, ready
  <2>2. ready = [v \in Volumes |-> {}]
    BY <2>1 DEF ready
  <2>3. published = [v \in Volumes |-> FALSE]
    BY DEF Init, published
  <2> QED BY <2>2, <2>3 DEF Init, Service!Init
<1>2. Inv /\ [Next]_vars => [Service!Next]_<<claim, ready, published>>
  <2> SUFFICES ASSUME Inv, [Next]_vars
               PROVE  ServiceStep
    BY DEF ServiceStep
  <2>1. CASE UNCHANGED cluster
    BY <2>1 DEF cluster, ServiceStep, ready, published, Reaches
  <2>2. CASE UNCHANGED vars
    BY <2>1, <2>2 DEF vars, cluster
  <2>3. CASE Next
    BY <2>1, <2>3, StepShape, ClaimRefines, GrowthRefines, ReleasedRefines,
       StoreRefines
  <2> QED BY <2>2, <2>3
<1> QED BY <1>1, <1>2, Invariance, PTL DEF Spec, ImplementsVolumeService,
           Service!Spec

=============================================================================
