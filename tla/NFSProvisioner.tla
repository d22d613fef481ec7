--------------------------- MODULE NFSProvisioner ---------------------------
(***************************************************************************)
(* The dynamic NFS provisioner: the Provision and Delete handlers, the     *)
(* NFS server objects they create and remove through the API server, and   *)
(* the garbage collector that runs beside them in every replica.           *)
(*                                                                         *)
(* A volume v stands for one claim UID.  The name of its PV ("pvc-<UID>")  *)
(* and of its backend PVC, Deployment and Service ("nfs-pvc-<UID>") are    *)
(* functions of the UID, so they are all indexed by v.  Each API call is a *)
(* step of its own: any other actor may run between two of them.           *)
(***************************************************************************)
EXTENDS Naturals

CONSTANTS
  Replicas,             \* processes of the provisioner's Deployment
  Volumes,              \* claim UIDs
  ClaimNames,           \* namespace/name pairs of the claims
  NameOf,               \* NameOf[v]: the name under which claim v is created
  ReclaimPolicy,        \* reclaim policy of v's storage class, hence of its PV
  Bindable,             \* volumes whose backend storage class can supply a PV
  ClusterIPs,           \* addresses the API server gives to Services
  WaitForFirstConsumer, \* backend storage class binds only once a pod exists
  UseClusterIP,         \* p.useClusterIP: the PV holds the IP, not the DNS name
  LeaderElection,       \* only the leader's controller calls the handlers
  GCEnabled,            \* the garbage collector is started
  StaleInformer,        \* the controller's caches may lag behind the API server
  MaxFaults             \* bound on crashes and failed API calls

ASSUME ConstantAssumption ==
  /\ NameOf \in [Volumes -> ClaimNames]
  /\ ReclaimPolicy \in [Volumes -> {"Delete", "Retain"}]
  /\ Bindable \subseteq Volumes
  /\ "absent" \notin ClusterIPs /\ "dns" \notin ClusterIPs
  /\ "none" \notin Replicas /\ "none" \notin Volumes
  /\ {WaitForFirstConsumer, UseClusterIP, LeaderElection,
      GCEnabled, StaleInformer} \subseteq BOOLEAN
  /\ MaxFaults \in Nat

VARIABLES
  \* the API server
  claim,    \* the NFS PVCs: never created, live, or deleted for good
  pv,       \* the NFS PVs: absent, or the server address they hold
  bpvc,     \* the backend PVCs: absent, pending or bound
  dep,      \* does the NFS server Deployment exist?
  svc,      \* the NFS Services: absent, or their ClusterIP
  \* the replicas
  up,       \* is the process running?
  leader,   \* holder of the leader election lease
  tracker,  \* pvTracker: PVs whose Provision or Delete is in progress
  prov,     \* where replica r's Provision of v stands
  addr,     \* the address Provision returned for the PV not yet stored
  rm,       \* where deleteNFSServer(v) stands, called by Delete or by the GC
  gc,       \* the garbage collector: its position, its list, its item
  \* history
  faults    \* crashes and failed API calls so far

cluster == <<claim, pv, bpvc, dep, svc>>
vars == <<claim, pv, bpvc, dep, svc, up, leader, tracker, prov, addr, rm, gc,
          faults>>

-----------------------------------------------------------------------------
(* Types *)

Address == ClusterIPs \cup {"dns"}
Callers == {"delete", "gc"}       \* who called deleteNFSServer

ProvPC == {"idle", "config", "bpvcGet", "bpvcCreate", "depGet", "depCreate",
           "wait", "svcGet", "svcCreate", "addr", "store"}
RmPC   == {"idle", "svcGet", "svcDelete", "depGet", "depDelete",
           "bpvcGet", "bpvcDelete", "done", "pvDelete"}
GcPC   == {"idle", "scan", "tracker", "pv", "clean"}

GcIdle == [pc |-> "idle", todo |-> {}, item |-> "none"]

TypeOK ==
  /\ claim \in [Volumes -> {"none", "live", "gone"}]
  /\ pv \in [Volumes -> Address \cup {"absent"}]
  /\ bpvc \in [Volumes -> {"absent", "pending", "bound"}]
  /\ dep \in [Volumes -> BOOLEAN]
  /\ svc \in [Volumes -> ClusterIPs \cup {"absent"}]
  /\ up \in [Replicas -> BOOLEAN]
  /\ leader \in Replicas \cup {"none"}
  /\ tracker \in [Replicas -> SUBSET Volumes]
  /\ prov \in [Replicas -> [Volumes -> ProvPC]]
  /\ addr \in [Replicas -> [Volumes -> Address \cup {"absent"}]]
  /\ rm \in [Replicas -> [Callers -> [Volumes -> RmPC]]]
  /\ gc \in [Replicas -> [pc : GcPC, todo : SUBSET Volumes,
                          item : Volumes \cup {"none"}]]
  /\ faults \in 0 .. MaxFaults

Init ==
  /\ claim = [v \in Volumes |-> "none"]
  /\ pv = [v \in Volumes |-> "absent"]
  /\ bpvc = [v \in Volumes |-> "absent"]
  /\ dep = [v \in Volumes |-> FALSE]
  /\ svc = [v \in Volumes |-> "absent"]
  /\ up = [r \in Replicas |-> TRUE]
  /\ leader = "none"
  /\ tracker = [r \in Replicas |-> {}]
  /\ prov = [r \in Replicas |-> [v \in Volumes |-> "idle"]]
  /\ addr = [r \in Replicas |-> [v \in Volumes |-> "absent"]]
  /\ rm = [r \in Replicas |-> [c \in Callers |-> [v \in Volumes |-> "idle"]]]
  /\ gc = [r \in Replicas |-> GcIdle]
  /\ faults = 0

-----------------------------------------------------------------------------
(* Steps shared by the actions *)

\* The controller of r calls handlers: Controller.Run, behind leader election.
CanWork(r) == up[r] /\ (LeaderElection => leader = r)

Fault == faults < MaxFaults /\ faults' = faults + 1

\* An API call that succeeds, or takes effect while its answer is lost.
Answered == faults' = faults
AnswerLost == Fault

\* ProvisioningTracker.Add and Delete: a set, not a counter.
TrackerAdd(r, v) == tracker' = [tracker EXCEPT ![r] = @ \cup {v}]
TrackerDelete(r, v) == tracker' = [tracker EXCEPT ![r] = @ \ {v}]

\* Provision(v) moves on, or returns an error; the deferred pvTracker.Delete
\* runs on every return.
ProvGoto(r, v, pc) ==
  prov' = [prov EXCEPT ![r][v] = pc] /\ UNCHANGED tracker
ProvReturnsError(r, v) ==
  prov' = [prov EXCEPT ![r][v] = "idle"] /\ TrackerDelete(r, v)

\* Mutants: the wait for the backend PVC comes before the Deployment that makes
\* it bind; the backend PVC is the first object deleted.
createNFSServerWaitFirst ==
  [start |-> "bpvcGet", bpvc |-> "wait", wait |-> "depGet", dep |-> "svcGet",
   svc |-> "addr"]
deleteNFSServerPVCFirst ==
  [start |-> "bpvcGet", bpvc |-> "depGet", dep |-> "svcGet", svc |-> "done"]

\* The order in which createNFSServer runs its steps, and deleteNFSServer its.
createNFSServer ==
  [start |-> "bpvcGet", bpvc |-> "depGet", dep |-> "wait", wait |-> "svcGet",
   svc |-> "addr"]
deleteNFSServer ==
  [start |-> "svcGet", svc |-> "depGet", dep |-> "bpvcGet", bpvc |-> "done"]

\* The GC leaves its item and turns to the next one of its list; the next
\* list is made at the next tick.
GCAfter(todo) ==
  IF todo = {} THEN GcIdle ELSE [pc |-> "scan", todo |-> todo, item |-> "none"]
GCSkip(r, v) == gc' = [gc EXCEPT ![r] = GCAfter(@.todo \ {v})]

-----------------------------------------------------------------------------
(* The users and Kubernetes *)

\* A user creates claim v; its name is free.
UserCreateClaim(v) ==
  /\ claim[v] = "none"
  /\ \A w \in Volumes : NameOf[w] = NameOf[v] => claim[w] # "live"
  /\ claim' = [claim EXCEPT ![v] = "live"]
  /\ UNCHANGED <<pv, bpvc, dep, svc, up, leader, tracker, prov, addr, rm, gc,
                 faults>>

\* A user deletes claim v: its PV, when there is one, becomes Released.
UserDeleteClaim(v) ==
  /\ claim[v] = "live"
  /\ claim' = [claim EXCEPT ![v] = "gone"]
  /\ UNCHANGED <<pv, bpvc, dep, svc, up, leader, tracker, prov, addr, rm, gc,
                 faults>>

\* A user deletes a released PV object.
UserDeletePV(v) ==
  /\ claim[v] = "gone" /\ pv[v] # "absent"
  /\ pv' = [pv EXCEPT ![v] = "absent"]
  /\ UNCHANGED <<claim, bpvc, dep, svc, up, leader, tracker, prov, addr, rm,
                 gc, faults>>

\* The backend storage class's own provisioner binds the backend PVC.
BindBackendPVC(v) ==
  /\ bpvc[v] = "pending" /\ v \in Bindable
  /\ WaitForFirstConsumer => dep[v]
  /\ bpvc' = [bpvc EXCEPT ![v] = "bound"]
  /\ UNCHANGED <<claim, pv, dep, svc, up, leader, tracker, prov, addr, rm, gc,
                 faults>>

-----------------------------------------------------------------------------
(* The provisioner's processes *)

\* A signal, a failed lease renewal or a node failure ends the process: its
\* tracker, its requests and its garbage collector go with it.
Crash(r) ==
  /\ up[r] /\ Fault
  /\ up' = [up EXCEPT ![r] = FALSE]
  /\ leader' = IF leader = r THEN "none" ELSE leader
  /\ tracker' = [tracker EXCEPT ![r] = {}]
  /\ prov' = [prov EXCEPT ![r] = [v \in Volumes |-> "idle"]]
  /\ addr' = [addr EXCEPT ![r] = [v \in Volumes |-> "absent"]]
  /\ rm' = [rm EXCEPT ![r] = [c \in Callers |-> [v \in Volumes |-> "idle"]]]
  /\ gc' = [gc EXCEPT ![r] = GcIdle]
  /\ UNCHANGED cluster

\* NewProvisioner: an empty tracker, and the collector ready to list.
Restart(r) ==
  /\ ~up[r]
  /\ up' = [up EXCEPT ![r] = TRUE]
  /\ UNCHANGED <<claim, pv, bpvc, dep, svc, leader, tracker, prov, addr, rm,
                 gc, faults>>

\* Controller.Run of r obtains the lease.
AcquireLease(r) ==
  /\ LeaderElection /\ up[r] /\ leader = "none"
  /\ leader' = r
  /\ UNCHANGED <<claim, pv, bpvc, dep, svc, up, tracker, prov, addr, rm, gc,
                 faults>>

-----------------------------------------------------------------------------
(* Provision *)

\* The controller asks for a PV for a claim that, as far as its cache shows,
\* exists and has none.
Provision(r, v) ==
  /\ CanWork(r) /\ prov[r][v] = "idle"
  /\ claim[v] = "live" \/ (StaleInformer /\ claim[v] = "gone")
  /\ pv[v] = "absent" \/ StaleInformer
  /\ prov' = [prov EXCEPT ![r][v] = "config"]
  /\ TrackerAdd(r, v)
  /\ UNCHANGED <<claim, pv, bpvc, dep, svc, up, leader, addr, rm, gc, faults>>

\* The volume config, the node affinity rules and the options are valid.
ValidateRequest(r, v) ==
  /\ prov[r][v] = "config"
  /\ ProvGoto(r, v, createNFSServer.start)
  /\ UNCHANGED <<claim, pv, bpvc, dep, svc, up, leader, addr, rm, gc, faults>>

\* Validation fails, or an API call of Provision fails without an effect.
ProvisionFails(r, v) ==
  /\ prov[r][v] \notin {"idle", "store"}
  /\ Fault
  /\ ProvReturnsError(r, v)
  /\ UNCHANGED <<claim, pv, bpvc, dep, svc, up, leader, addr, rm, gc>>

\* How a Create call that took effect ends.
Created(r, v, next) ==
  \/ Answered /\ ProvGoto(r, v, next)
  \/ AnswerLost /\ ProvReturnsError(r, v)

\* AlreadyExists is an error like any other.
CreateRefused(r, v) == Answered /\ ProvReturnsError(r, v)

\* Mutant: a backend PVC that exists means the server was set up before.
GetBackendPVCTrusting(r, v) ==
  /\ prov[r][v] = "bpvcGet"
  /\ ProvGoto(r, v, IF bpvc[v] = "absent" THEN "bpvcCreate"
                                          ELSE createNFSServer.wait)
  /\ UNCHANGED <<claim, pv, bpvc, dep, svc, up, leader, addr, rm, gc, faults>>

\* createBackendPVC: the Get, then the Create.
GetBackendPVC(r, v) ==
  /\ prov[r][v] = "bpvcGet"
  /\ ProvGoto(r, v, IF bpvc[v] = "absent" THEN "bpvcCreate"
                                          ELSE createNFSServer.bpvc)
  /\ UNCHANGED <<claim, pv, bpvc, dep, svc, up, leader, addr, rm, gc, faults>>

CreateBackendPVC(r, v) ==
  /\ prov[r][v] = "bpvcCreate"
  /\ \/ /\ bpvc[v] = "absent"
        /\ bpvc' = [bpvc EXCEPT ![v] = "pending"]
        /\ Created(r, v, createNFSServer.bpvc)
     \/ bpvc[v] # "absent" /\ UNCHANGED bpvc /\ CreateRefused(r, v)
  /\ UNCHANGED <<claim, pv, dep, svc, up, leader, addr, rm, gc>>

\* createDeployment
GetDeployment(r, v) ==
  /\ prov[r][v] = "depGet"
  /\ ProvGoto(r, v, IF dep[v] THEN createNFSServer.dep ELSE "depCreate")
  /\ UNCHANGED <<claim, pv, bpvc, dep, svc, up, leader, addr, rm, gc, faults>>

CreateDeployment(r, v) ==
  /\ prov[r][v] = "depCreate"
  /\ \/ /\ ~dep[v]
        /\ dep' = [dep EXCEPT ![v] = TRUE]
        /\ Created(r, v, createNFSServer.dep)
     \/ dep[v] /\ UNCHANGED dep /\ CreateRefused(r, v)
  /\ UNCHANGED <<claim, pv, bpvc, svc, up, leader, addr, rm, gc>>

\* Mutant: the loop ends without looking at the phase.
PvcFound(r, v) ==
  /\ prov[r][v] = "wait" /\ bpvc[v] # "absent"
  /\ ProvGoto(r, v, createNFSServer.wait)
  /\ UNCHANGED <<claim, pv, bpvc, dep, svc, up, leader, addr, rm, gc, faults>>

\* waitForPvcBound: a tick that finds the backend PVC bound; a tick that finds
\* none, or the timer.  A tick that finds it pending changes nothing.
PvcBound(r, v) ==
  /\ prov[r][v] = "wait" /\ bpvc[v] = "bound"
  /\ ProvGoto(r, v, createNFSServer.wait)
  /\ UNCHANGED <<claim, pv, bpvc, dep, svc, up, leader, addr, rm, gc, faults>>

PvcWaitFails(r, v) ==
  /\ prov[r][v] = "wait"
  /\ ProvReturnsError(r, v)
  /\ UNCHANGED <<claim, pv, bpvc, dep, svc, up, leader, addr, rm, gc, faults>>

\* createService: the API server picks a ClusterIP that no other Service has.
FreeIPs == {ip \in ClusterIPs : \A w \in Volumes : svc[w] # ip}

GetService(r, v) ==
  /\ prov[r][v] = "svcGet"
  /\ ProvGoto(r, v, IF svc[v] = "absent" THEN "svcCreate"
                                         ELSE createNFSServer.svc)
  /\ UNCHANGED <<claim, pv, bpvc, dep, svc, up, leader, addr, rm, gc, faults>>

\* Mutant: a Service that exists is replaced.
ReplaceService(r, v) ==
  /\ prov[r][v] = "svcCreate"
  /\ \E ip \in FreeIPs :
       /\ svc' = [svc EXCEPT ![v] = ip]
       /\ Created(r, v, createNFSServer.svc)
  /\ UNCHANGED <<claim, pv, bpvc, dep, up, leader, addr, rm, gc>>

CreateService(r, v) ==
  /\ prov[r][v] = "svcCreate"
  /\ \/ \E ip \in FreeIPs :
          /\ svc[v] = "absent"
          /\ svc' = [svc EXCEPT ![v] = ip]
          /\ Created(r, v, createNFSServer.svc)
     \/ /\ svc[v] # "absent" \/ FreeIPs = {}
        /\ UNCHANGED svc /\ CreateRefused(r, v)
  /\ UNCHANGED <<claim, pv, bpvc, dep, up, leader, addr, rm, gc>>

\* Mutant: the ClusterIP is read from the object sent, not from the one stored.
GetNFSServerAddressOfRequest(r, v) ==
  /\ prov[r][v] = "addr"
  /\ addr' = [addr EXCEPT ![r][v] = IF UseClusterIP THEN "" ELSE "dns"]
  /\ prov' = [prov EXCEPT ![r][v] = "store"]
  /\ TrackerDelete(r, v)
  /\ UNCHANGED <<claim, pv, bpvc, dep, svc, up, leader, rm, gc, faults>>

\* getNFSServerAddress, after which Provision returns the PV to the controller
\* and takes v off the tracker.
GetNFSServerAddress(r, v) ==
  /\ prov[r][v] = "addr"
  /\ \/ /\ UseClusterIP => svc[v] # "absent"
        /\ addr' = [addr EXCEPT ![r][v] = IF UseClusterIP THEN svc[v] ELSE "dns"]
        /\ prov' = [prov EXCEPT ![r][v] = "store"]
        /\ TrackerDelete(r, v)
     \/ /\ UseClusterIP /\ svc[v] = "absent"
        /\ UNCHANGED addr
        /\ ProvReturnsError(r, v)
  /\ UNCHANGED <<claim, pv, bpvc, dep, svc, up, leader, rm, gc, faults>>

\* The controller creates the PV object; one that exists already is kept.
StorePV(r, v) ==
  /\ prov[r][v] = "store"
  /\ pv' = IF pv[v] = "absent" THEN [pv EXCEPT ![v] = addr[r][v]] ELSE pv
  /\ addr' = [addr EXCEPT ![r][v] = "absent"]
  /\ ProvGoto(r, v, "idle")
  /\ UNCHANGED <<claim, bpvc, dep, svc, up, leader, rm, gc, faults>>

-----------------------------------------------------------------------------
(* deleteNFSServer, called by Delete (c = "delete") and by the garbage        *)
(* collector (c = "gc")                                                       *)

RmGoto(r, c, v, pc) ==
  rm' = [rm EXCEPT ![r][c][v] = pc] /\ UNCHANGED <<tracker, gc>>

\* deleteNFSServer returns: Delete takes v off the tracker, the collector goes
\* on with its list, whether it returned an error (which it logs) or not.
RmReturns(r, c, v, pc) ==
  /\ rm' = [rm EXCEPT ![r][c][v] = pc]
  /\ \/ c = "delete" /\ TrackerDelete(r, v) /\ UNCHANGED gc
     \/ c = "gc" /\ GCSkip(r, v) /\ UNCHANGED tracker

\* Get of an object: NotFound passes over the Delete call; an answer does not,
\* and neither does any other error.
Looked(r, c, v, exists, del, next) ==
  \/ Answered /\ RmGoto(r, c, v, IF exists THEN del ELSE next)
  \/ Fault /\ RmGoto(r, c, v, del)

\* How a Delete call that took effect (NotFound counts) ends.
Deleted(r, c, v, next) ==
  \/ Answered /\ RmGoto(r, c, v, next)
  \/ AnswerLost /\ RmReturns(r, c, v, "idle")

LookupService(r, c, v) ==
  /\ rm[r][c][v] = "svcGet"
  /\ Looked(r, c, v, svc[v] # "absent", "svcDelete", deleteNFSServer.svc)
  /\ UNCHANGED <<claim, pv, bpvc, dep, svc, up, leader, prov, addr>>

DeleteService(r, c, v) ==
  /\ rm[r][c][v] = "svcDelete"
  /\ svc' = [svc EXCEPT ![v] = "absent"]
  /\ Deleted(r, c, v, deleteNFSServer.svc)
  /\ UNCHANGED <<claim, pv, bpvc, dep, up, leader, prov, addr>>

LookupDeployment(r, c, v) ==
  /\ rm[r][c][v] = "depGet"
  /\ Looked(r, c, v, dep[v], "depDelete", deleteNFSServer.dep)
  /\ UNCHANGED <<claim, pv, bpvc, dep, svc, up, leader, prov, addr>>

DeleteDeployment(r, c, v) ==
  /\ rm[r][c][v] = "depDelete"
  /\ dep' = [dep EXCEPT ![v] = FALSE]
  /\ Deleted(r, c, v, deleteNFSServer.dep)
  /\ UNCHANGED <<claim, pv, bpvc, svc, up, leader, prov, addr>>

LookupBackendPVC(r, c, v) ==
  /\ rm[r][c][v] = "bpvcGet"
  /\ Looked(r, c, v, bpvc[v] # "absent", "bpvcDelete", deleteNFSServer.bpvc)
  /\ UNCHANGED <<claim, pv, bpvc, dep, svc, up, leader, prov, addr>>

DeleteBackendPVC(r, c, v) ==
  /\ rm[r][c][v] = "bpvcDelete"
  /\ bpvc' = [bpvc EXCEPT ![v] = "absent"]
  /\ Deleted(r, c, v, deleteNFSServer.bpvc)
  /\ UNCHANGED <<claim, pv, dep, svc, up, leader, prov, addr>>

\* A Delete call that fails without an effect.
DeleteNFSServerFails(r, c, v) ==
  /\ rm[r][c][v] \in {"svcDelete", "depDelete", "bpvcDelete"}
  /\ Fault
  /\ RmReturns(r, c, v, "idle")
  /\ UNCHANGED <<claim, pv, bpvc, dep, svc, up, leader, prov, addr>>

\* deleteNFSServer succeeds: the controller goes on to remove the PV object.
DeleteNFSServerSucceeds(r, c, v) ==
  /\ rm[r][c][v] = "done"
  /\ RmReturns(r, c, v, IF c = "delete" THEN "pvDelete" ELSE "idle")
  /\ UNCHANGED <<claim, pv, bpvc, dep, svc, up, leader, prov, addr, faults>>

-----------------------------------------------------------------------------
(* Delete *)

\* The controller asks to delete a PV that is released.  The handler cleans up
\* only when the reclaim policy is not Retain; it does nothing otherwise.
Delete(r, v) ==
  /\ CanWork(r) /\ rm[r]["delete"][v] = "idle"
  /\ claim[v] = "gone" /\ pv[v] # "absent"
  /\ ReclaimPolicy[v] # "Retain"
  /\ rm' = [rm EXCEPT ![r]["delete"][v] = deleteNFSServer.start]
  /\ TrackerAdd(r, v)
  /\ UNCHANGED <<claim, pv, bpvc, dep, svc, up, leader, prov, addr, gc, faults>>

\* After Delete returned nil the controller deletes the PV object.
RemovePV(r, v) ==
  /\ rm[r]["delete"][v] = "pvDelete"
  /\ \/ pv' = [pv EXCEPT ![v] = "absent"] /\ Answered
     \/ UNCHANGED pv /\ Fault
  /\ RmGoto(r, "delete", v, "idle")
  /\ UNCHANGED <<claim, bpvc, dep, svc, up, leader, prov, addr>>

-----------------------------------------------------------------------------
(* The garbage collector: cleanUpStalePvc *)

\* Mutants: the UID is not compared; a claim that is still pending counts as
\* absent.
nfsPvcNameExists(v) ==
  \E w \in Volumes : NameOf[w] = NameOf[v] /\ claim[w] = "live"
nfsPvcIsBound(v) == claim[v] = "live" /\ pv[v] # "absent"

\* nfsPvcExists: the claim is looked up by the name on the backend PVC's label
\* and must have the UID on its label.
nfsPvcExists(v) ==
  \E w \in Volumes : NameOf[w] = NameOf[v] /\ claim[w] = "live" /\ w = v

\* A tick of RunGarbageCollector: list the backend PVCs.  An empty list and a
\* List that fails end the run at once.
GCList(r) ==
  /\ GCEnabled /\ up[r] /\ gc[r].pc = "idle"
  /\ \E v \in Volumes : bpvc[v] # "absent"
  /\ gc' = [gc EXCEPT ![r] = GCAfter({v \in Volumes : bpvc[v] # "absent"})]
  /\ UNCHANGED <<claim, pv, bpvc, dep, svc, up, leader, tracker, prov, addr, rm,
                 faults>>

GCCheckClaim(r, v) ==
  /\ gc[r].pc = "scan" /\ v \in gc[r].todo
  /\ \/ nfsPvcExists(v) /\ GCSkip(r, v)
     \/ /\ ~nfsPvcExists(v)
        /\ gc' = [gc EXCEPT ![r] = [@ EXCEPT !.pc = "tracker", !.item = v]]
  /\ UNCHANGED <<claim, pv, bpvc, dep, svc, up, leader, tracker, prov, addr, rm,
                 faults>>

\* Mutant: the tracker is not asked.
GCIgnoreTracker(r, v) ==
  /\ gc[r].pc = "tracker" /\ gc[r].item = v
  /\ gc' = [gc EXCEPT ![r].pc = "pv"]
  /\ UNCHANGED <<claim, pv, bpvc, dep, svc, up, leader, tracker, prov, addr, rm,
                 faults>>

\* pvTracker.Inprogress
GCCheckTracker(r, v) ==
  /\ gc[r].pc = "tracker" /\ gc[r].item = v
  /\ \/ v \in tracker[r] /\ GCSkip(r, v)
     \/ v \notin tracker[r] /\ gc' = [gc EXCEPT ![r].pc = "pv"]
  /\ UNCHANGED <<claim, pv, bpvc, dep, svc, up, leader, tracker, prov, addr, rm,
                 faults>>

\* pvExists, and deleteBackendStaleResources when there is none.
GCCheckPV(r, v) ==
  /\ gc[r].pc = "pv" /\ gc[r].item = v
  /\ \/ pv[v] # "absent" /\ GCSkip(r, v) /\ UNCHANGED rm
     \/ /\ pv[v] = "absent"
        /\ gc' = [gc EXCEPT ![r].pc = "clean"]
        /\ rm' = [rm EXCEPT ![r]["gc"][v] = deleteNFSServer.start]
  /\ UNCHANGED <<claim, pv, bpvc, dep, svc, up, leader, tracker, prov, addr,
                 faults>>

\* The Get of the claim or of the PV fails: next time.
GCCheckFails(r, v) ==
  /\ \/ gc[r].pc = "scan" /\ v \in gc[r].todo
     \/ gc[r].pc = "pv" /\ gc[r].item = v
  /\ Fault
  /\ GCSkip(r, v)
  /\ UNCHANGED <<claim, pv, bpvc, dep, svc, up, leader, tracker, prov, addr, rm>>

-----------------------------------------------------------------------------
(* The specification *)

EnvironmentStep(v) ==
  UserCreateClaim(v) \/ UserDeleteClaim(v) \/ UserDeletePV(v) \/ BindBackendPVC(v)

ProcessStep(r) == Crash(r) \/ Restart(r) \/ AcquireLease(r)

ProvisionStep(r, v) ==
  \/ Provision(r, v) \/ ValidateRequest(r, v)
  \/ GetBackendPVC(r, v) \/ CreateBackendPVC(r, v)
  \/ GetDeployment(r, v) \/ CreateDeployment(r, v)
  \/ PvcBound(r, v) \/ PvcWaitFails(r, v)
  \/ GetService(r, v) \/ CreateService(r, v)
  \/ GetNFSServerAddress(r, v) \/ StorePV(r, v)

DeleteNFSServerStep(r, c, v) ==
  \/ LookupService(r, c, v) \/ DeleteService(r, c, v)
  \/ LookupDeployment(r, c, v) \/ DeleteDeployment(r, c, v)
  \/ LookupBackendPVC(r, c, v) \/ DeleteBackendPVC(r, c, v)
  \/ DeleteNFSServerSucceeds(r, c, v)

DeleteStep(r, v) ==
  Delete(r, v) \/ DeleteNFSServerStep(r, "delete", v) \/ RemovePV(r, v)

GCStep(r, v) ==
  \/ GCCheckClaim(r, v) \/ GCCheckTracker(r, v) \/ GCCheckPV(r, v)
  \/ DeleteNFSServerStep(r, "gc", v)

FaultStep(r, v) ==
  \/ ProvisionFails(r, v) \/ GCCheckFails(r, v)
  \/ \E c \in Callers : DeleteNFSServerFails(r, c, v)

Next ==
  \/ \E v \in Volumes : EnvironmentStep(v)
  \/ \E r \in Replicas : ProcessStep(r) \/ GCList(r)
  \/ \E r \in Replicas, v \in Volumes :
       \/ ProvisionStep(r, v) \/ DeleteStep(r, v) \/ GCStep(r, v)
       \/ FaultStep(r, v)

Spec == Init /\ [][Next]_vars

\* What the scheduling guarantees.  Kubernetes restarts a provisioner that
\* exits, a lease that is free is taken, and a running process goes on with its
\* handlers and with its collector; the backend's provisioner binds what it can.
\* A wait that is repeated while the backend PVC is bound finds it bound: the
\* first tick comes a second after the start, the timer 60 seconds after it.
Fairness ==
  /\ \A v \in Volumes : WF_vars(BindBackendPVC(v))
  /\ \A r \in Replicas :
       WF_vars(Restart(r)) /\ WF_vars(AcquireLease(r)) /\ WF_vars(GCList(r))
  /\ \A r \in Replicas, v \in Volumes :
       /\ WF_vars(ProvisionStep(r, v)) /\ SF_vars(PvcBound(r, v))
       /\ WF_vars(DeleteStep(r, v)) /\ WF_vars(GCStep(r, v))

FairSpec == Spec /\ Fairness

-----------------------------------------------------------------------------
(* Properties *)

\* Address a leads to the Service of v: the ClusterIP is the one it has now,
\* the DNS name follows it.
Reaches(a, v) == svc[v] # "absent" /\ a \in {"dns", svc[v]}

Backend(v) == <<bpvc[v], dep[v], svc[v]>>
NoBackend == <<"absent", FALSE, "absent">>

\* A claim that has a PV is served: the backend PVC is bound, the NFS server's
\* Deployment exists, and the address written into the PV is that of the
\* Service.  However requests, retries, crashes, replicas and the garbage
\* collector interleave (createNFSServer, getNFSServerAddress, cleanUpStalePvc).
BoundVolumeServed ==
  \A v \in Volumes : claim[v] = "live" /\ pv[v] # "absent" =>
    bpvc[v] = "bound" /\ dep[v] /\ Reaches(pv[v], v)

\* No step of any actor removes, or replaces, a backend object of a live claim:
\* neither Delete nor the garbage collector's check-then-act.
KeepsBackend(v) ==
  /\ bpvc[v] # "absent" => bpvc'[v] # "absent"
  /\ bpvc[v] = "bound" => bpvc'[v] = "bound"
  /\ dep[v] => dep'[v]
  /\ svc[v] # "absent" => svc'[v] = svc[v]
LiveClaimKeepsBackend ==
  [][\A v \in Volumes : claim[v] = "live" => KeepsBackend(v)]_vars

\* Whatever is left of an NFS server can be found: the garbage collector lists
\* backend PVCs only, so a Deployment or a Service must never be without one,
\* wherever a create or a delete sequence is cut short.
LeftoversListed ==
  \A v \in Volumes : dep[v] \/ svc[v] # "absent" => bpvc[v] # "absent"

\* The garbage collector does not take apart an NFS server that a Provision is
\* building (Inprogress; "provisioner is re-attempting provisioning, NFS
\* resources should not be destroyed").
GCNotDuringProvision ==
  \A r, q \in Replicas, v \in Volumes :
    rm[r]["gc"][v] # "idle" => prov[q][v] \in {"idle", "store"}

\* The NFS server of a Retain volume is not taken apart while its PV exists
\* ("when NFS PVC doesn't exist and NFS PV exists, NFS resources should not be
\* destroyed").
RetainedPVKeepsBackend ==
  [][\A v \in Volumes : ReclaimPolicy[v] = "Retain" /\ pv[v] # "absent" =>
       KeepsBackend(v)]_vars

\* The inductive invariant behind BoundVolumeServed and LiveClaimKeepsBackend.
\* Deletions concern released claims only; they stay released.
DeletesReleasedOnly ==
  /\ \A r \in Replicas, c \in Callers, v \in Volumes :
       rm[r][c][v] # "idle" => claim[v] = "gone"
  /\ \A r \in Replicas :
       gc[r].pc \in {"tracker", "pv", "clean"} =>
         gc[r].item \in Volumes /\ claim[gc[r].item] = "gone"
\* Nothing precedes the claim, so what the collector lists had a claim.
NothingBeforeClaim ==
  /\ \A v \in Volumes : claim[v] = "none" =>
       /\ Backend(v) = NoBackend /\ pv[v] = "absent"
       /\ \A r \in Replicas : prov[r][v] = "idle"
  /\ \A r \in Replicas : \A v \in gc[r].todo : claim[v] # "none"
\* What a Provision has passed while its claim is live is still there.
StepsStand(r, v) ==
  /\ prov[r][v] \in {"depGet", "depCreate", "wait"} => bpvc[v] # "absent"
  /\ prov[r][v] \in {"svcGet", "svcCreate", "addr", "store"} => bpvc[v] = "bound"
  /\ prov[r][v] \in {"wait", "svcGet", "svcCreate", "addr", "store"} => dep[v]
  /\ prov[r][v] \in {"addr", "store"} => svc[v] # "absent"
  /\ prov[r][v] = "store" => Reaches(addr[r][v], v)
LiveClaimStands ==
  \A r \in Replicas, v \in Volumes : claim[v] = "live" => StepsStand(r, v)
Inv ==
  /\ TypeOK /\ DeletesReleasedOnly /\ NothingBeforeClaim
  /\ LiveClaimStands /\ BoundVolumeServed

\* The inductive invariant behind LeftoversListed and GCNotDuringProvision, where
\* one replica runs and its caches are up to date.  A Provision is on the tracker
\* until it returns, and until then the claim has no PV.
Building == ProvPC \ {"idle", "store"}
ProvisionTracked ==
  \A r \in Replicas, v \in Volumes :
    /\ prov[r][v] \in Building => v \in tracker[r]
    /\ prov[r][v] # "idle" => pv[v] = "absent"
\* Once the collector has seen v off the tracker, or Delete has begun, nothing
\* is built for v any more.
NothingBuilt ==
  \A r \in Replicas, v \in Volumes :
    /\ \A c \in Callers : rm[r][c][v] # "idle" => prov[r][v] \notin Building
    /\ rm[r]["delete"][v] # "idle" => prov[r][v] = "idle"
    /\ gc[r].pc = "pv" /\ gc[r].item = v => prov[r][v] \notin Building
\* The backend PVC is the first object built and the last one deleted.
PVCFirstAndLast ==
  \A r \in Replicas, v \in Volumes :
    /\ prov[r][v] \in Building \ {"config", "bpvcGet", "bpvcCreate"} =>
         bpvc[v] # "absent"
    /\ \A c \in Callers :
         /\ rm[r][c][v] \notin {"idle", "svcGet", "svcDelete"} => svc[v] = "absent"
         /\ rm[r][c][v] \in {"bpvcGet", "bpvcDelete", "done", "pvDelete"} => ~dep[v]
SoleInv ==
  ProvisionTracked /\ NothingBuilt /\ PVCFirstAndLast /\ LeftoversListed

\* A claim whose backend can be bound gets its PV, unless it is deleted: neither
\* the wait for the backend PVC, nor retries, crashes or a garbage collection in
\* progress block it for ever, as long as the controller repeats failed calls.
ClaimEventuallyBound ==
  \A v \in Bindable :
    claim[v] = "live" ~> (pv[v] # "absent" \/ claim[v] # "live")

\* Once its claim is deleted, everything a volume with policy Delete had goes
\* away for good: through Delete, or through the garbage collector where
\* provisioning was cut short.
VolumeEventuallyReclaimed ==
  \A v \in Volumes : ReclaimPolicy[v] = "Delete" =>
    (claim[v] = "gone" ~> [](pv[v] = "absent" /\ Backend(v) = NoBackend))

=============================================================================
