------------------------- MODULE SoleReplica_proof -------------------------
(***************************************************************************)
(* The garbage collector beside the handlers of its own process: with one  *)
(* replica and up-to-date caches it leaves running Provisions alone, and   *)
(* everything that is left over has a backend PVC for it to list.  Both    *)
(* assumptions are needed: the runs gc_replicas (two replicas) and the     *)
(* discussion in the README (lagging caches) show why.                     *)
(***************************************************************************)
EXTENDS NFSProvisioner_proof

Sole == ~StaleInformer /\ \A r, q \in Replicas : r = q

-----------------------------------------------------------------------------
(* Steps of the environment and of the process *)

LEMMA SoleEnvironment ==
  ASSUME Inv, SoleInv, NEW v \in Volumes, EnvironmentStep(v)
  PROVE  SoleInv'
<1> USE DEF Inv, TypeOK, SoleInv, ProvisionTracked, NothingBuilt, PVCFirstAndLast,
            LeftoversListed
<1>1. CASE UserCreateClaim(v) BY <1>1 DEF UserCreateClaim
<1>2. CASE UserDeleteClaim(v) BY <1>2 DEF UserDeleteClaim
<1>3. CASE UserDeletePV(v) BY <1>3 DEF UserDeletePV
<1>4. CASE BindBackendPVC(v) BY <1>4 DEF BindBackendPVC
<1> QED BY <1>1, <1>2, <1>3, <1>4 DEF EnvironmentStep

LEMMA SoleProcess ==
  ASSUME Inv, SoleInv, NEW r \in Replicas, ProcessStep(r)
  PROVE  SoleInv'
<1> USE DEF Inv, TypeOK, SoleInv, ProvisionTracked, NothingBuilt, PVCFirstAndLast,
            LeftoversListed
<1>1. CASE Crash(r) BY <1>1 DEF Crash, cluster, GcIdle, Building
<1>2. CASE Restart(r) BY <1>2 DEF Restart
<1>3. CASE AcquireLease(r) BY <1>3 DEF AcquireLease
<1> QED BY <1>1, <1>2, <1>3 DEF ProcessStep

-----------------------------------------------------------------------------
(* Provision *)

\* A Provision in progress is the only activity on its volume.
LEMMA BuildingAlone ==
  ASSUME Inv, SoleInv, Sole, NEW r \in Replicas, NEW v \in Volumes,
         prov[r][v] \in Building
  PROVE  /\ \A q \in Replicas, c \in Callers : rm[q][c][v] = "idle"
         /\ \A q \in Replicas : ~(gc[q].pc = "pv" /\ gc[q].item = v)
BY DEF SoleInv, NothingBuilt, Sole

\* One replica: its position in the Provision of v is all that changes.
LEMMA ProvisionMoves ==
  ASSUME TypeOK, Sole, NEW r \in Replicas, NEW v \in Volumes, NEW pc \in ProvPC,
         prov' = [prov EXCEPT ![r][v] = pc]
  PROVE  \A q \in Replicas, w \in Volumes :
           prov'[q][w] = IF w = v THEN pc ELSE prov[q][w]
<1>1. prov'[r] = [prov[r] EXCEPT ![v] = pc] /\ prov[r] \in [Volumes -> ProvPC]
  BY DEF TypeOK
<1>2. \A w \in Volumes : prov'[r][w] = IF w = v THEN pc ELSE prov[r][w]
  BY <1>1
<1>3. \A q \in Replicas : prov'[q] = prov'[r] /\ prov[q] = prov[r]
  BY DEF Sole
<1> QED BY <1>2, <1>3, Zenon

\* Provision moves on within createNFSServer, with nothing deleted.
LEMMA SoleAdvances ==
  ASSUME Inv, SoleInv, Sole, NEW r \in Replicas, NEW v \in Volumes,
         NEW pc \in ProvPC \ {"idle"},
         prov[r][v] \in Building,
         prov' = [prov EXCEPT ![r][v] = pc],
         \/ tracker' = tracker
         \/ pc = "store" /\ TrackerDelete(r, v),
         UNCHANGED <<pv, rm, gc>>,
         \A w \in Volumes \ {v} :
           bpvc'[w] = bpvc[w] /\ dep'[w] = dep[w] /\ svc'[w] = svc[w],
         bpvc[v] # "absent" => bpvc'[v] # "absent",
         pc \notin {"config", "bpvcGet", "bpvcCreate"} => bpvc'[v] # "absent",
         dep'[v] \/ svc'[v] # "absent" => bpvc'[v] # "absent"
  PROVE  SoleInv'
<1>0. TypeOK
  BY DEF Inv
<1>1. \A q \in Replicas, w \in Volumes :
        prov'[q][w] = IF w = v THEN pc ELSE prov[q][w]
  BY <1>0, ProvisionMoves
<1>2. \A q \in Replicas, w \in Volumes \ {v} : w \in tracker'[q] <=> w \in tracker[q]
  <2>1. CASE tracker' = tracker
    BY <2>1
  <2>2. CASE TrackerDelete(r, v)
    BY <1>0, <2>2 DEF TypeOK, TrackerDelete
  <2> QED BY <2>1, <2>2
<1>3. pc # "store" => v \in tracker'[r]
  BY DEF SoleInv, ProvisionTracked
<1>4. ProvisionTracked'
  BY <1>1, <1>2, <1>3 DEF SoleInv, ProvisionTracked, Sole, Building
<1>5. NothingBuilt'
  BY <1>1, BuildingAlone DEF SoleInv, NothingBuilt, Callers
<1>6. PVCFirstAndLast'
  BY <1>1, BuildingAlone DEF SoleInv, PVCFirstAndLast, Sole, Building
<1>7. LeftoversListed'
  BY DEF SoleInv, LeftoversListed
<1> QED BY <1>4, <1>5, <1>6, <1>7 DEF SoleInv

\* Provision returns an error, with nothing deleted.
LEMMA SoleReturns ==
  ASSUME Inv, SoleInv, Sole, NEW r \in Replicas, NEW v \in Volumes,
         prov[r][v] \in Building,
         ProvReturnsError(r, v),
         UNCHANGED <<pv, rm, gc>>,
         \A w \in Volumes \ {v} :
           bpvc'[w] = bpvc[w] /\ dep'[w] = dep[w] /\ svc'[w] = svc[w],
         dep'[v] \/ svc'[v] # "absent" => bpvc'[v] # "absent"
  PROVE  SoleInv'
<1>0. TypeOK
  BY DEF Inv
<1>1. \A q \in Replicas, w \in Volumes :
        prov'[q][w] = IF w = v THEN "idle" ELSE prov[q][w]
  BY <1>0 DEF TypeOK, Sole, ProvReturnsError
<1>2. \A q \in Replicas, w \in Volumes \ {v} : w \in tracker'[q] <=> w \in tracker[q]
  BY <1>0 DEF TypeOK, TrackerDelete, ProvReturnsError
<1>4. ProvisionTracked'
  BY <1>1, <1>2 DEF SoleInv, ProvisionTracked, Building
<1>5. NothingBuilt'
  BY <1>1, BuildingAlone DEF SoleInv, NothingBuilt, Callers, Building
<1>6. PVCFirstAndLast'
  BY <1>1, BuildingAlone DEF SoleInv, PVCFirstAndLast, Building
<1>7. LeftoversListed'
  BY DEF SoleInv, LeftoversListed
<1> QED BY <1>4, <1>5, <1>6, <1>7 DEF SoleInv

\* The controller starts a Provision: the claim is live, so nothing is deleted.
LEMMA SoleProvision ==
  ASSUME Inv, SoleInv, Sole, NEW r \in Replicas, NEW v \in Volumes,
         Provision(r, v)
  PROVE  SoleInv'
<1>0. TypeOK
  BY DEF Inv
<1>1. claim[v] = "live" /\ pv[v] = "absent"
  BY DEF Provision, Sole
<1>2. /\ \A q \in Replicas, c \in Callers : rm[q][c][v] = "idle"
      /\ \A q \in Replicas : ~(gc[q].pc = "pv" /\ gc[q].item = v)
  BY <1>1 DEF Inv, DeletesReleasedOnly
<1>3. \A q \in Replicas, w \in Volumes :
        prov'[q][w] = IF w = v THEN "config" ELSE prov[q][w]
  BY <1>0 DEF TypeOK, Sole, Provision
<1>4. /\ v \in tracker'[r]
      /\ \A q \in Replicas, w \in Volumes : w \in tracker[q] => w \in tracker'[q]
  BY <1>0 DEF TypeOK, TrackerAdd, Provision
<1>5. UNCHANGED <<pv, bpvc, dep, svc, rm, gc>>
  BY DEF Provision
<1>6. ProvisionTracked'
  BY <1>1, <1>3, <1>4, <1>5 DEF SoleInv, ProvisionTracked, Sole
<1>7. NothingBuilt'
  BY <1>2, <1>3, <1>5 DEF SoleInv, NothingBuilt, Callers
<1>8. PVCFirstAndLast'
  BY <1>2, <1>3, <1>5 DEF SoleInv, PVCFirstAndLast
<1>9. LeftoversListed'
  BY <1>5 DEF SoleInv, LeftoversListed
<1> QED BY <1>6, <1>7, <1>8, <1>9 DEF SoleInv

\* The controller stores the PV: Provision has returned.
LEMMA SoleStorePV ==
  ASSUME Inv, SoleInv, Sole, NEW r \in Replicas, NEW v \in Volumes,
         StorePV(r, v)
  PROVE  SoleInv'
<1>0. TypeOK
  BY DEF Inv
<1>1. \A q \in Replicas, w \in Volumes :
        prov'[q][w] = IF w = v THEN "idle" ELSE prov[q][w]
  BY <1>0 DEF TypeOK, Sole, StorePV, ProvGoto
<1>2. \A w \in Volumes \ {v} : pv'[w] = pv[w]
  BY <1>0 DEF TypeOK, StorePV
<1>3. UNCHANGED <<bpvc, dep, svc, rm, gc, tracker>>
  BY DEF StorePV, ProvGoto
<1>4. ProvisionTracked'
  BY <1>1, <1>2, <1>3 DEF SoleInv, ProvisionTracked, Building
<1>5. NothingBuilt'
  BY <1>1, <1>3 DEF SoleInv, NothingBuilt, Building
<1>6. PVCFirstAndLast'
  BY <1>1, <1>3 DEF SoleInv, PVCFirstAndLast, Building
<1>7. LeftoversListed'
  BY <1>3 DEF SoleInv, LeftoversListed
<1> QED BY <1>4, <1>5, <1>6, <1>7 DEF SoleInv

LEMMA SoleProvisionStep ==
  ASSUME Inv, SoleInv, Sole, NEW r \in Replicas, NEW v \in Volumes,
         ProvisionStep(r, v) \/ ProvisionFails(r, v)
  PROVE  SoleInv'
<1>0. TypeOK
  BY DEF Inv
<1>1. dep[v] \/ svc[v] # "absent" => bpvc[v] # "absent"
  BY DEF SoleInv, LeftoversListed
<1>2. prov[r][v] \in Building \ {"config", "bpvcGet", "bpvcCreate"} =>
        bpvc[v] # "absent"
  BY DEF SoleInv, PVCFirstAndLast
<1>3. CASE ValidateRequest(r, v)
  BY <1>1, <1>3, SoleAdvances
     DEF ValidateRequest, ProvGoto, Building, ProvPC, createNFSServer
<1>4. CASE GetBackendPVC(r, v)
  BY <1>1, <1>4, SoleAdvances
     DEF GetBackendPVC, ProvGoto, Building, ProvPC, createNFSServer
<1>5. CASE GetDeployment(r, v)
  BY <1>1, <1>2, <1>5, SoleAdvances
     DEF GetDeployment, ProvGoto, Building, ProvPC, createNFSServer
<1>6. CASE PvcBound(r, v)
  BY <1>1, <1>2, <1>6, SoleAdvances
     DEF PvcBound, ProvGoto, Building, ProvPC, createNFSServer
<1>7. CASE GetService(r, v)
  BY <1>1, <1>2, <1>7, SoleAdvances
     DEF GetService, ProvGoto, Building, ProvPC, createNFSServer
<1>8. CASE PvcWaitFails(r, v)
  BY <1>1, <1>8, SoleReturns DEF PvcWaitFails, Building, ProvPC
<1>9. CASE ProvisionFails(r, v)
  <2>1. prov[r][v] \in Building
    BY <1>0, <1>9 DEF ProvisionFails, Building, TypeOK
  <2> QED BY <1>1, <1>9, <2>1, SoleReturns DEF ProvisionFails
<1>10. CASE CreateBackendPVC(r, v)
  <2>1. prov[r][v] \in Building
    BY <1>10 DEF CreateBackendPVC, Building, ProvPC
  <2>2. /\ \A w \in Volumes \ {v} : bpvc'[w] = bpvc[w]
        /\ bpvc'[v] # "absent"
        /\ UNCHANGED <<pv, dep, svc, rm, gc>>
    BY <1>0, <1>10 DEF CreateBackendPVC, TypeOK
  <2>3. CASE ProvReturnsError(r, v)
    BY <2>1, <2>2, <2>3, SoleReturns
  <2>4. CASE ProvGoto(r, v, createNFSServer.bpvc)
    BY <2>1, <2>2, <2>4, SoleAdvances DEF ProvGoto, ProvPC, createNFSServer
  <2> QED BY <1>10, <2>3, <2>4 DEF CreateBackendPVC, Created, CreateRefused
<1>11. CASE CreateDeployment(r, v)
  <2>1. prov[r][v] \in Building /\ bpvc[v] # "absent"
    BY <1>2, <1>11 DEF CreateDeployment, Building, ProvPC
  <2>2. /\ \A w \in Volumes \ {v} : dep'[w] = dep[w]
        /\ UNCHANGED <<pv, bpvc, svc, rm, gc>>
    BY <1>0, <1>11 DEF CreateDeployment, TypeOK
  <2>3. CASE ProvReturnsError(r, v)
    BY <2>1, <2>2, <2>3, SoleReturns
  <2>4. CASE ProvGoto(r, v, createNFSServer.dep)
    BY <2>1, <2>2, <2>4, SoleAdvances DEF ProvGoto, ProvPC, createNFSServer
  <2> QED BY <1>11, <2>3, <2>4 DEF CreateDeployment, Created, CreateRefused
<1>12. CASE CreateService(r, v)
  <2>1. prov[r][v] \in Building /\ bpvc[v] # "absent"
    BY <1>2, <1>12 DEF CreateService, Building, ProvPC
  <2>2. /\ \A w \in Volumes \ {v} : svc'[w] = svc[w]
        /\ UNCHANGED <<pv, bpvc, dep, rm, gc>>
    BY <1>0, <1>12 DEF CreateService, TypeOK
  <2>3. CASE ProvReturnsError(r, v)
    BY <2>1, <2>2, <2>3, SoleReturns
  <2>4. CASE ProvGoto(r, v, createNFSServer.svc)
    BY <2>1, <2>2, <2>4, SoleAdvances DEF ProvGoto, ProvPC, createNFSServer
  <2> QED BY <1>12, <2>3, <2>4 DEF CreateService, Created, CreateRefused
<1>13. CASE GetNFSServerAddress(r, v)
  <2>1. prov[r][v] \in Building /\ bpvc[v] # "absent"
    BY <1>2, <1>13 DEF GetNFSServerAddress, Building, ProvPC
  <2>2. UNCHANGED <<pv, bpvc, dep, svc, rm, gc>>
    BY <1>13 DEF GetNFSServerAddress
  <2>3. CASE ProvReturnsError(r, v)
    BY <2>1, <2>2, <2>3, SoleReturns
  <2>4. CASE prov' = [prov EXCEPT ![r][v] = "store"] /\ TrackerDelete(r, v)
    BY <2>1, <2>2, <2>4, SoleAdvances DEF ProvPC
  <2> QED BY <1>13, <2>3, <2>4 DEF GetNFSServerAddress
<1> QED BY <1>3, <1>4, <1>5, <1>6, <1>7, <1>8, <1>9, <1>10, <1>11, <1>12, <1>13,
           SoleProvision, SoleStorePV DEF ProvisionStep

-----------------------------------------------------------------------------
(* deleteNFSServer and Delete *)

\* deleteNFSServer(v) moves to pc: what lies before pc is gone, and a tracker
\* entry that it removes belongs to no Provision.
LEMMA SoleRemoves ==
  ASSUME Inv, SoleInv, Sole, NEW r \in Replicas, NEW c \in Callers,
         NEW v \in Volumes, NEW pc,
         rm[r][c][v] # "idle",
         rm' = [rm EXCEPT ![r][c][v] = pc],
         tracker' = tracker \/ TrackerDelete(r, v),
         gc' = gc \/ GCSkip(r, v),
         prov' = prov, pv' = pv,
         \A w \in Volumes \ {v} :
           bpvc'[w] = bpvc[w] /\ dep'[w] = dep[w] /\ svc'[w] = svc[w],
         svc[v] = "absent" => svc'[v] = "absent",
         dep'[v] => dep[v],
         pc \notin {"idle", "svcGet", "svcDelete"} => svc'[v] = "absent",
         pc \in {"bpvcGet", "bpvcDelete", "done", "pvDelete"} => ~dep'[v],
         dep'[v] \/ svc'[v] # "absent" => bpvc'[v] # "absent"
  PROVE  SoleInv'
<1>0. TypeOK
  BY DEF Inv
<1>1. \A q \in Replicas, d \in Callers, w \in Volumes :
        rm'[q][d][w] = IF q = r /\ d = c /\ w = v THEN pc ELSE rm[q][d][w]
  BY <1>0 DEF TypeOK
<1>2. \A q \in Replicas : prov[q][v] \notin Building
  BY DEF SoleInv, NothingBuilt, Sole
<1>3. \A q \in Replicas, w \in Volumes \ {v} : w \in tracker[q] => w \in tracker'[q]
  <2>1. CASE tracker' = tracker
    BY <2>1
  <2>2. CASE TrackerDelete(r, v)
    BY <1>0, <2>2 DEF TypeOK, TrackerDelete
  <2> QED BY <2>1, <2>2
<1>4. \A q \in Replicas : gc'[q] = gc[q] \/ gc'[q].pc # "pv"
  BY <1>0, GCSkipShrinks
<1>5. ProvisionTracked'
  BY <1>2, <1>3 DEF SoleInv, ProvisionTracked
<1>6. NothingBuilt'
  BY <1>1, <1>4 DEF SoleInv, NothingBuilt
<1>7. PVCFirstAndLast'
  BY <1>1, <1>2 DEF SoleInv, PVCFirstAndLast
<1>8. LeftoversListed'
  BY DEF SoleInv, LeftoversListed
<1> QED BY <1>5, <1>6, <1>7, <1>8 DEF SoleInv

LEMMA SoleDeleteNFSServer ==
  ASSUME Inv, SoleInv, Sole, NEW r \in Replicas, NEW c \in Callers,
         NEW v \in Volumes,
         DeleteNFSServerStep(r, c, v) \/ DeleteNFSServerFails(r, c, v)
  PROVE  SoleInv'
<1>0. TypeOK
  BY DEF Inv
<1>1. /\ rm[r][c][v] \notin {"idle", "svcGet", "svcDelete"} => svc[v] = "absent"
      /\ rm[r][c][v] \in {"bpvcGet", "bpvcDelete", "done", "pvDelete"} => ~dep[v]
      /\ dep[v] \/ svc[v] # "absent" => bpvc[v] # "absent"
  BY DEF SoleInv, PVCFirstAndLast, LeftoversListed
<1>2. \A pc : RmGoto(r, c, v, pc) \/ RmReturns(r, c, v, pc) =>
        /\ rm' = [rm EXCEPT ![r][c][v] = pc]
        /\ tracker' = tracker \/ TrackerDelete(r, v)
        /\ gc' = gc \/ GCSkip(r, v)
  BY DEF RmGoto, RmReturns
<1>3. CASE LookupService(r, c, v)
  <2>1. PICK pc : /\ RmGoto(r, c, v, pc)
                  /\ pc = "svcDelete" \/ (pc = "depGet" /\ svc[v] = "absent")
    BY <1>3 DEF LookupService, Looked, deleteNFSServer
  <2>2. UNCHANGED <<prov, pv, bpvc, dep, svc>> /\ rm[r][c][v] = "svcGet"
    BY <1>3 DEF LookupService
  <2> QED BY <1>1, <1>2, <2>1, <2>2, SoleRemoves
<1>4. CASE DeleteService(r, c, v)
  <2>1. PICK pc : /\ RmGoto(r, c, v, pc) \/ RmReturns(r, c, v, pc)
                  /\ pc \in {"depGet", "idle"}
    BY <1>4 DEF DeleteService, Deleted, deleteNFSServer
  <2>2. /\ UNCHANGED <<prov, pv, bpvc, dep>> /\ rm[r][c][v] = "svcDelete"
        /\ svc'[v] = "absent" /\ \A w \in Volumes \ {v} : svc'[w] = svc[w]
    BY <1>0, <1>4 DEF DeleteService, TypeOK
  <2> QED BY <1>1, <1>2, <2>1, <2>2, SoleRemoves
<1>5. CASE LookupDeployment(r, c, v)
  <2>1. PICK pc : /\ RmGoto(r, c, v, pc)
                  /\ pc = "depDelete" \/ (pc = "bpvcGet" /\ ~dep[v])
    BY <1>5 DEF LookupDeployment, Looked, deleteNFSServer
  <2>2. UNCHANGED <<prov, pv, bpvc, dep, svc>> /\ rm[r][c][v] = "depGet"
    BY <1>5 DEF LookupDeployment
  <2> QED BY <1>1, <1>2, <2>1, <2>2, SoleRemoves
<1>6. CASE DeleteDeployment(r, c, v)
  <2>1. PICK pc : /\ RmGoto(r, c, v, pc) \/ RmReturns(r, c, v, pc)
                  /\ pc \in {"bpvcGet", "idle"}
    BY <1>6 DEF DeleteDeployment, Deleted, deleteNFSServer
  <2>2. /\ UNCHANGED <<prov, pv, bpvc, svc>> /\ rm[r][c][v] = "depDelete"
        /\ ~dep'[v] /\ \A w \in Volumes \ {v} : dep'[w] = dep[w]
    BY <1>0, <1>6 DEF DeleteDeployment, TypeOK
  <2> QED BY <1>1, <1>2, <2>1, <2>2, SoleRemoves
<1>7. CASE LookupBackendPVC(r, c, v)
  <2>1. PICK pc : RmGoto(r, c, v, pc) /\ pc \in {"bpvcDelete", "done"}
    BY <1>7 DEF LookupBackendPVC, Looked, deleteNFSServer
  <2>2. UNCHANGED <<prov, pv, bpvc, dep, svc>> /\ rm[r][c][v] = "bpvcGet"
    BY <1>7 DEF LookupBackendPVC
  <2> QED BY <1>1, <1>2, <2>1, <2>2, SoleRemoves
<1>8. CASE DeleteBackendPVC(r, c, v)
  <2>1. PICK pc : /\ RmGoto(r, c, v, pc) \/ RmReturns(r, c, v, pc)
                  /\ pc \in {"done", "idle"}
    BY <1>8 DEF DeleteBackendPVC, Deleted, deleteNFSServer
  <2>2. /\ UNCHANGED <<prov, pv, dep, svc>> /\ rm[r][c][v] = "bpvcDelete"
        /\ \A w \in Volumes \ {v} : bpvc'[w] = bpvc[w]
    BY <1>0, <1>8 DEF DeleteBackendPVC, TypeOK
  <2> QED BY <1>1, <1>2, <2>1, <2>2, SoleRemoves
<1>9. CASE DeleteNFSServerSucceeds(r, c, v)
  <2>1. PICK pc : RmReturns(r, c, v, pc) /\ pc \in {"pvDelete", "idle"}
    BY <1>9 DEF DeleteNFSServerSucceeds
  <2>2. UNCHANGED <<prov, pv, bpvc, dep, svc>> /\ rm[r][c][v] = "done"
    BY <1>9 DEF DeleteNFSServerSucceeds
  <2> QED BY <1>1, <1>2, <2>1, <2>2, SoleRemoves
<1>10. CASE DeleteNFSServerFails(r, c, v)
  <2>1. RmReturns(r, c, v, "idle")
    BY <1>10 DEF DeleteNFSServerFails
  <2>2. UNCHANGED <<prov, pv, bpvc, dep, svc>> /\ rm[r][c][v] # "idle"
    BY <1>10 DEF DeleteNFSServerFails
  <2> QED BY <1>1, <1>2, <2>1, <2>2, SoleRemoves
<1> QED BY <1>3, <1>4, <1>5, <1>6, <1>7, <1>8, <1>9, <1>10 DEF DeleteNFSServerStep

\* Delete begins on a PV, which no Provision in progress has.
LEMMA SoleDelete ==
  ASSUME Inv, SoleInv, Sole, NEW r \in Replicas, NEW v \in Volumes, Delete(r, v)
  PROVE  SoleInv'
<1>0. TypeOK /\ "delete" \in Callers
  BY DEF Inv, Callers
<1>1. \A q \in Replicas : prov[q][v] = "idle"
  BY DEF Delete, SoleInv, ProvisionTracked
<1>2. \A q \in Replicas, d \in Callers, w \in Volumes :
        rm'[q][d][w] = IF q = r /\ d = "delete" /\ w = v THEN "svcGet"
                                                         ELSE rm[q][d][w]
  BY <1>0 DEF TypeOK, Delete, deleteNFSServer
<1>3. \A q \in Replicas, w \in Volumes : w \in tracker[q] => w \in tracker'[q]
  BY <1>0 DEF TypeOK, TrackerAdd, Delete
<1>4. UNCHANGED <<pv, bpvc, dep, svc, prov, gc>>
  BY DEF Delete
<1>5. ProvisionTracked'
  BY <1>3, <1>4 DEF SoleInv, ProvisionTracked
<1>6. NothingBuilt'
  BY <1>0, <1>1, <1>2, <1>4 DEF SoleInv, NothingBuilt, Building
<1>7. PVCFirstAndLast'
  BY <1>2, <1>4 DEF SoleInv, PVCFirstAndLast
<1>8. LeftoversListed'
  BY <1>4 DEF SoleInv, LeftoversListed
<1> QED BY <1>5, <1>6, <1>7, <1>8 DEF SoleInv

LEMMA SoleRemovePV ==
  ASSUME Inv, SoleInv, Sole, NEW r \in Replicas, NEW v \in Volumes, RemovePV(r, v)
  PROVE  SoleInv'
<1>0. TypeOK /\ "delete" \in Callers
  BY DEF Inv, Callers
<1>1. \A q \in Replicas, d \in Callers, w \in Volumes :
        rm'[q][d][w] = "idle" \/ rm'[q][d][w] = rm[q][d][w]
  BY <1>0 DEF TypeOK, RemovePV, RmGoto
<1>2. \A w \in Volumes : pv[w] = "absent" => pv'[w] = "absent"
  BY <1>0 DEF TypeOK, RemovePV
<1>3. UNCHANGED <<bpvc, dep, svc, prov, gc, tracker>>
  BY DEF RemovePV, RmGoto
<1>4. ProvisionTracked'
  BY <1>2, <1>3 DEF SoleInv, ProvisionTracked
<1>5. NothingBuilt'
  BY <1>0, <1>1, <1>3 DEF SoleInv, NothingBuilt
<1>6. PVCFirstAndLast'
  BY <1>1, <1>3 DEF SoleInv, PVCFirstAndLast
<1>7. LeftoversListed'
  BY <1>3 DEF SoleInv, LeftoversListed
<1> QED BY <1>4, <1>5, <1>6, <1>7 DEF SoleInv

-----------------------------------------------------------------------------
(* The garbage collector *)

\* The collector moves without deciding on a volume that is being built.
LEMMA SoleCollects ==
  ASSUME Inv, SoleInv,
         UNCHANGED <<pv, bpvc, dep, svc, prov, rm, tracker>>,
         \A q \in Replicas : gc'[q].pc = "pv" =>
           \/ gc'[q] = gc[q]
           \/ gc'[q].item \notin tracker[q]
  PROVE  SoleInv'
<1>1. NothingBuilt'
  BY DEF SoleInv, NothingBuilt, ProvisionTracked
<1> QED BY <1>1 DEF SoleInv, ProvisionTracked, PVCFirstAndLast, LeftoversListed

LEMMA SoleGC ==
  ASSUME Inv, SoleInv, Sole, NEW r \in Replicas, NEW v \in Volumes,
         GCStep(r, v) \/ GCCheckFails(r, v)
  PROVE  SoleInv'
<1>0. TypeOK /\ "gc" \in Callers
  BY DEF Inv, Callers
<1>1. GCSkip(r, v) => \A q \in Replicas : gc'[q] = gc[q] \/ gc'[q].pc # "pv"
  BY <1>0, GCSkipShrinks
<1>2. CASE GCCheckClaim(r, v)
  <2>1. CASE GCSkip(r, v)
    BY <1>1, <1>2, <2>1, SoleCollects DEF GCCheckClaim
  <2>2. CASE gc' = [gc EXCEPT ![r] = [@ EXCEPT !.pc = "tracker", !.item = v]]
    <3>1. \A q \in Replicas : gc'[q] = gc[q] \/ gc'[q].pc # "pv"
      BY <1>0, <2>2 DEF TypeOK
    <3> QED BY <1>2, <3>1, SoleCollects DEF GCCheckClaim
  <2> QED BY <1>2, <2>1, <2>2 DEF GCCheckClaim
<1>3. CASE GCCheckTracker(r, v)
  <2>1. CASE GCSkip(r, v)
    BY <1>1, <1>3, <2>1, SoleCollects DEF GCCheckTracker
  <2>2. CASE v \notin tracker[r] /\ gc' = [gc EXCEPT ![r].pc = "pv"]
    <3>1. \A q \in Replicas : gc'[q] = gc[q] \/ gc'[q].item \notin tracker[q]
      BY <1>0, <1>3, <2>2 DEF TypeOK, GCCheckTracker
    <3> QED BY <1>3, <3>1, SoleCollects DEF GCCheckTracker
  <2> QED BY <1>3, <2>1, <2>2 DEF GCCheckTracker
<1>4. CASE GCCheckPV(r, v)
  <2>1. CASE GCSkip(r, v) /\ UNCHANGED rm
    BY <1>1, <1>4, <2>1, SoleCollects DEF GCCheckPV
  <2>2. CASE /\ gc' = [gc EXCEPT ![r].pc = "clean"]
             /\ rm' = [rm EXCEPT ![r]["gc"][v] = deleteNFSServer.start]
    <3>1. \A q \in Replicas : gc'[q] = gc[q] \/ gc'[q].pc # "pv"
      BY <1>0, <2>2 DEF TypeOK
    <3>2. \A q \in Replicas, d \in Callers, w \in Volumes :
            rm'[q][d][w] = IF q = r /\ d = "gc" /\ w = v THEN "svcGet"
                                                         ELSE rm[q][d][w]
      BY <1>0, <2>2 DEF TypeOK, deleteNFSServer
    <3>3. prov[r][v] \notin Building
      BY <1>4 DEF GCCheckPV, SoleInv, NothingBuilt
    <3>4. UNCHANGED <<pv, bpvc, dep, svc, prov, tracker>>
      BY <1>4 DEF GCCheckPV
    <3>5. NothingBuilt'
      BY <3>1, <3>2, <3>3, <3>4 DEF SoleInv, NothingBuilt, Callers
    <3>6. PVCFirstAndLast'
      BY <3>2, <3>4 DEF SoleInv, PVCFirstAndLast
    <3>7. ProvisionTracked' /\ LeftoversListed'
      BY <3>4 DEF SoleInv, ProvisionTracked, LeftoversListed
    <3> QED BY <3>5, <3>6, <3>7 DEF SoleInv
  <2> QED BY <1>4, <2>1, <2>2 DEF GCCheckPV
<1>5. CASE GCCheckFails(r, v)
  BY <1>1, <1>5, SoleCollects DEF GCCheckFails
<1> QED BY <1>0, <1>2, <1>3, <1>4, <1>5, SoleDeleteNFSServer DEF GCStep

LEMMA SoleGCList ==
  ASSUME Inv, SoleInv, NEW r \in Replicas, GCList(r)
  PROVE  SoleInv'
<1>1. GCAfter({v \in Volumes : bpvc[v] # "absent"}).pc # "pv"
  BY DEF GCAfter, GcIdle
<1> HIDE DEF GCAfter
<1>2. \A q \in Replicas : gc'[q] = gc[q] \/ gc'[q].pc # "pv"
  BY <1>1 DEF GCList, Inv, TypeOK
<1> QED BY <1>2, SoleCollects DEF GCList

-----------------------------------------------------------------------------
(* The theorems *)

LEMMA SoleInit == Init => SoleInv
BY DEF Init, SoleInv, ProvisionTracked, NothingBuilt, PVCFirstAndLast,
       LeftoversListed, GcIdle, Building

LEMMA SoleNext ==
  ASSUME Sole
  PROVE  Inv /\ SoleInv /\ [Next]_vars => SoleInv'
<1> SUFFICES ASSUME Inv, SoleInv, [Next]_vars PROVE SoleInv'
  OBVIOUS
<1>1. CASE UNCHANGED vars
  BY <1>1 DEF vars, SoleInv, ProvisionTracked, NothingBuilt, PVCFirstAndLast,
              LeftoversListed
<1>2. ASSUME NEW v \in Volumes, EnvironmentStep(v) PROVE SoleInv'
  BY <1>2, SoleEnvironment
<1>3. ASSUME NEW r \in Replicas, ProcessStep(r) \/ GCList(r) PROVE SoleInv'
  BY <1>3, SoleProcess, SoleGCList
<1>4. ASSUME NEW r \in Replicas, NEW v \in Volumes,
             ProvisionStep(r, v) \/ DeleteStep(r, v) \/ GCStep(r, v)
      PROVE  SoleInv'
  <2>1. "delete" \in Callers
    BY DEF Callers
  <2> QED BY <1>4, <2>1, SoleProvisionStep, SoleDelete, SoleDeleteNFSServer,
             SoleRemovePV, SoleGC DEF DeleteStep
<1>5. ASSUME NEW r \in Replicas, NEW v \in Volumes, FaultStep(r, v)
      PROVE  SoleInv'
  BY <1>5, SoleProvisionStep, SoleGC, SoleDeleteNFSServer DEF FaultStep
<1> QED BY <1>1, <1>2, <1>3, <1>4, <1>5 DEF Next

LEMMA SoleInvariance ==
  ASSUME Sole
  PROVE  Spec => []SoleInv
BY Invariance, SoleInit, SoleNext, PTL DEF Spec

\* With one replica and up-to-date caches, whatever is left of an NFS server has
\* a backend PVC, which is what cleanUpStalePvc lists: wherever a crash or a
\* failed call cuts createNFSServer or deleteNFSServer short.
THEOREM SoleLeftoversListed ==
  ASSUME Sole
  PROVE  Spec => []LeftoversListed
BY SoleInvariance, PTL DEF SoleInv

\* With one replica and up-to-date caches, the garbage collector takes no NFS
\* server apart that a Provision is building: the check of the tracker is not
\* outdated by the time deleteNFSServer runs.
THEOREM SoleGCNotDuringProvision ==
  ASSUME Sole
  PROVE  Spec => []GCNotDuringProvision
<1>1. TypeOK /\ SoleInv => GCNotDuringProvision
  BY DEF SoleInv, NothingBuilt, GCNotDuringProvision, Building, Sole, Callers, TypeOK
<1> QED BY <1>1, TypeCorrect, SoleInvariance, PTL
=============================================================================
