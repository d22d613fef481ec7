---------------------------- MODULE VolumeHooks ----------------------------
(***************************************************************************)
(* The hooks of the provisioner: annotations and finalizers that an admin  *)
(* configures to be added to, or removed from, the objects of a volume     *)
(* when it is created and when it is deleted.                              *)
(*                                                                         *)
(* One volume, one replica.  The races between the Get, Create and Delete  *)
(* calls on an object are the subject of NFSProvisioner; here the steps    *)
(* that matter are the hook's own Get and Patch, and what finalizers do to *)
(* a Delete call.                                                          *)
(*                                                                         *)
(* An entry is a finalizer, or an annotation key with the value the hook   *)
(* gives it: a key with another value counts as absent, so adding an entry *)
(* also stands for updating it.                                            *)
(***************************************************************************)
EXTENDS Naturals

CONSTANTS
  Entries,      \* finalizers and annotations
  Finalizers,   \* the entries that hold up the removal of a deleted object
  Foreign,      \* entries that belong to other controllers
  Protected,    \* objects on which other controllers set their entries
  HookFiles,    \* what may be mounted at HookConfigFilePath
  GCEnabled,    \* the garbage collector is started
  StaleInformer, \* the controller's caches may lag behind the API server
  MaxFaults     \* bound on crashes and failed calls

Resources == {"backendPVC", "backendPV", "service", "nfsPV", "deployment"}
Events == {"CreateVolume", "DeleteVolume"}

HookVersion == "1.0.0"

\* The action types the code knows; any other key of the file is skipped.
ActionForEventMap ==
  [addOrUpdateEntriesOnCreateVolumeEvent |->
     [evType |-> "CreateVolume", actOp |-> "addOrUpdateEntries"],
   removeEntriesOnCreateVolumeEvent |->
     [evType |-> "CreateVolume", actOp |-> "removeEntries"],
   addOrUpdateEntriesOnDeleteVolumeEvent |->
     [evType |-> "DeleteVolume", actOp |-> "addOrUpdateEntries"],
   removeEntriesOnDeleteVolumeEvent |->
     [evType |-> "DeleteVolume", actOp |-> "removeEntries"]]

\* A file: hooks[a] holds the resources for which action a is configured.
ASSUME HookAssumption ==
  /\ Finalizers \subseteq Entries /\ Foreign \subseteq Entries
  /\ Protected \subseteq Resources
  /\ \A f \in HookFiles :
       /\ f.exists \in BOOLEAN
       /\ \A a \in DOMAIN f.hooks :
            /\ DOMAIN f.hooks[a] \subseteq Resources
            /\ \A o \in DOMAIN f.hooks[a] :
                 f.hooks[a][o] \subseteq Entries \ Foreign
  /\ {GCEnabled, StaleInformer} \subseteq BOOLEAN
  /\ MaxFaults \in Nat

VARIABLES
  file,     \* the mounted hook file, the same for the life of the volume
  claim,    \* the NFS PVC: none, live or gone
  obj,      \* the objects of the volume: absent, live or terminating
  meta,     \* their entries
  up,       \* is the process running?
  hook,     \* p.hook: the configured actions, none of them for a nil hook
  prov,     \* where Provision stands
  rm,       \* where deleteNFSServer stands, for Delete and for the GC
  patch,    \* the patch a hook has computed and not yet sent
  faults

vars == <<file, claim, obj, meta, up, hook, prov, rm, patch, faults>>

-----------------------------------------------------------------------------
(* Types *)

Activities == {"provision", "delete"}     \* the activities that run hooks
Callers == {"delete", "gc"}

NoHook == [a \in {} |-> [o \in {} |-> {}]]
NoPatch == [add |-> {}, remove |-> {}]

ProvPC == {"idle", "bpvc", "dep", "wait", "hook", "patch", "svc", "store"}
RmIdle == [on |-> "none", step |-> "idle"]
RmAt == [on : Resources, step : {"look", "get", "patch", "delete"}]

TypeOK ==
  /\ file \in HookFiles
  /\ claim \in {"none", "live", "gone"}
  /\ obj \in [Resources -> {"absent", "live", "terminating"}]
  /\ meta \in [Resources -> SUBSET Entries]
  /\ up \in BOOLEAN
  /\ hook \in {NoHook, file.hooks}
  /\ prov \in ProvPC
  /\ rm \in [Callers -> RmAt \cup {RmIdle}]
  /\ patch \in [Activities -> [add : SUBSET Entries, remove : SUBSET Entries]]
  /\ faults \in 0 .. MaxFaults

Init ==
  /\ file \in HookFiles
  /\ claim = "none"
  /\ obj = [o \in Resources |-> "absent"]
  /\ meta = [o \in Resources |-> {}]
  /\ up = FALSE
  /\ hook = NoHook
  /\ prov = "idle"
  /\ rm = [c \in Callers |-> RmIdle]
  /\ patch = [a \in Activities |-> NoPatch]
  /\ faults = 0

-----------------------------------------------------------------------------
(* The hook *)

\* The actions of h for event ev that are configured for resource o.
ActionsFor(h, o, ev) ==
  {a \in DOMAIN h \cap DOMAIN ActionForEventMap :
     ActionForEventMap[a].evType = ev /\ o \in DOMAIN h[a]}

\* updateAvailableActions, the inventory ParseHooks builds for ActionExists.
availableActions(h) ==
  [ev \in Events |-> {o \in Resources : ActionsFor(h, o, ev) # {}}]

ActionExists(o, ev) == o \in availableActions(hook)[ev]

\* The entries that actions with operation op configure for o.
Configured(h, o, ev, op) ==
  UNION {h[a][o] : a \in {b \in ActionsFor(h, o, ev) :
                             ActionForEventMap[b].actOp = op}}

\* AddFinalizers and AddAnnotations leave alone what is there; RemoveFinalizers
\* and RemoveAnnotations skip what is not.
AddEntries(m, es) == m \cup es
RemoveEntries(m, es) == m \ es

hookActionAdd(o, ev, m) ==
  AddEntries(m, Configured(hook, o, ev, "addOrUpdateEntries"))

hookActionRemove(o, ev, m) ==
  RemoveEntries(m, Configured(hook, o, ev, "removeEntries"))

\* Hook.Action on an object with entries m.  It ranges over a Go map, so the
\* add and the remove action of an event may come in either order.
Action(o, ev, m) ==
  {hookActionRemove(o, ev, hookActionAdd(o, ev, m)),
   hookActionAdd(o, ev, hookActionRemove(o, ev, m))}

\* The patch as a whole-list replacement would be.
GetPatchDataReplace(old, new) == [add |-> new, remove |-> Entries \ new]

\* GetPatchData: a strategic merge patch, what is new and what is gone.
GetPatchData(old, new) == [add |-> new \ old, remove |-> old \ new]

\* The API server removes a deleted object with its last finalizer.
Settle(state, m) ==
  IF state = "terminating" /\ m \cap Finalizers = {} THEN "absent" ELSE state

SetObject(o, state, m) ==
  /\ obj' = [obj EXCEPT ![o] = Settle(state, m)]
  /\ meta' = [meta EXCEPT ![o] = IF Settle(state, m) = "absent" THEN {} ELSE m]

\* The call creates o, with the entries the create hook gives it, or finds it.
Ensure(o) ==
  \/ obj[o] # "absent" /\ UNCHANGED <<obj, meta>>
  \/ /\ obj[o] = "absent"
     /\ \E m \in IF ActionExists(o, "CreateVolume")
                   THEN Action(o, "CreateVolume", {}) ELSE {{}} :
          SetObject(o, "live", m)

\* A Delete call: an absent object is no error.
DeleteObject(o) ==
  IF obj[o] = "absent" THEN UNCHANGED <<obj, meta>>
                       ELSE SetObject(o, "terminating", meta[o])

\* Hook.ExecuteHookOn...: Get the object, run the actions on a copy.
HookGet(a, o, ev) ==
  /\ obj[o] # "absent"
  /\ \E m \in Action(o, ev, meta[o]) :
       patch' = [patch EXCEPT ![a] = GetPatchData(meta[o], m)]

\* The API server refuses a new finalizer on an object that is being deleted.
PatchRefused(a, o) ==
  \/ obj[o] = "absent"
  \/ /\ obj[o] = "terminating"
     /\ (patch[a].add \ meta[o]) \cap Finalizers # {}

HookPatch(a, o) ==
  /\ ~ PatchRefused(a, o)
  /\ SetObject(o, obj[o], (meta[o] \cup patch[a].add) \ patch[a].remove)
  /\ patch' = [patch EXCEPT ![a] = NoPatch]

Fault == faults < MaxFaults /\ faults' = faults + 1

-----------------------------------------------------------------------------
(* The process *)

\* A file of another version counts as no file.
ParseHooksIgnoringErrors(f, h) ==
  h = IF f.exists /\ f.version = HookVersion THEN f.hooks ELSE NoHook

\* initializeHook and ParseHooks: no file is a nil hook, a file of another
\* version stops NewProvisioner and with it the process.
ParseHooks(f, h) ==
  IF f.exists THEN f.version = HookVersion /\ h = f.hooks ELSE h = NoHook

Start ==
  /\ ~ up
  /\ \E h \in {NoHook, file.hooks} : ParseHooks(file, h) /\ hook' = h
  /\ up' = TRUE
  /\ UNCHANGED <<file, claim, obj, meta, prov, rm, patch, faults>>

Crash ==
  /\ up /\ Fault
  /\ up' = FALSE
  /\ hook' = NoHook
  /\ prov' = "idle"
  /\ rm' = [c \in Callers |-> RmIdle]
  /\ patch' = [a \in Activities |-> NoPatch]
  /\ UNCHANGED <<file, claim, obj, meta>>

-----------------------------------------------------------------------------
(* Provision *)

Provision ==
  /\ up /\ prov = "idle"
  /\ claim = "live" \/ (StaleInformer /\ claim = "gone")
  /\ obj["nfsPV"] = "absent"
  /\ prov' = "bpvc"
  /\ UNCHANGED <<file, claim, obj, meta, up, hook, rm, patch, faults>>

\* Provision returns an error, and will be called again.
ProvisionAborts ==
  /\ prov' = "idle"
  /\ patch' = [patch EXCEPT !["provision"] = NoPatch]
  /\ UNCHANGED <<file, claim, obj, meta, up, hook, rm>>

\* A call fails, or the wait for the backend PVC times out.
ProvisionCallFails ==
  /\ prov \notin {"idle", "store"} /\ Fault
  /\ ProvisionAborts

\* The backend PVC or its PV is not there, or the patch is refused.
ProvisionHookFails ==
  /\ \/ prov \in {"wait", "hook"} /\ obj["backendPVC"] = "absent"
     \/ prov = "hook" /\ obj["backendPV"] = "absent"
     \/ prov = "patch" /\ PatchRefused("provision", "backendPV")
  /\ faults' = faults
  /\ ProvisionAborts

CreateBackendPVC ==
  /\ prov = "bpvc" /\ Ensure("backendPVC")
  /\ prov' = "dep"
  /\ UNCHANGED <<file, claim, up, hook, rm, patch, faults>>

CreateDeployment ==
  /\ prov = "dep" /\ Ensure("deployment")
  /\ prov' = "wait"
  /\ UNCHANGED <<file, claim, up, hook, rm, patch, faults>>

WaitForPvcBound ==
  /\ prov = "wait"
  /\ obj["backendPVC"] # "absent" /\ obj["backendPV"] # "absent"
  /\ prov' = IF ActionExists("backendPV", "CreateVolume") THEN "hook" ELSE "svc"
  /\ UNCHANGED <<file, claim, obj, meta, up, hook, rm, patch, faults>>

\* ExecuteHookOnBackendPV: the backend PVC leads to the PV.
GetBackendPV ==
  /\ prov = "hook" /\ obj["backendPVC"] # "absent"
  /\ HookGet("provision", "backendPV", "CreateVolume")
  /\ prov' = "patch"
  /\ UNCHANGED <<file, claim, obj, meta, up, hook, rm, faults>>

PatchBackendPV ==
  /\ prov = "patch" /\ HookPatch("provision", "backendPV")
  /\ prov' = "svc"
  /\ UNCHANGED <<file, claim, up, hook, rm, faults>>

CreateService ==
  /\ prov = "svc" /\ Ensure("service")
  /\ prov' = "store"
  /\ UNCHANGED <<file, claim, up, hook, rm, patch, faults>>

\* The hook on the PV object Provision returns, and the controller's Create.
StorePV ==
  /\ prov = "store" /\ Ensure("nfsPV")
  /\ prov' = "idle"
  /\ UNCHANGED <<file, claim, up, hook, rm, patch, faults>>

-----------------------------------------------------------------------------
(* Delete and the garbage collector *)

\* deleteBackendStaleResources builds a Provisioner without a hook.
Hooked(c, o) == c = "delete" /\ ActionExists(o, "DeleteVolume")

At(o, step) == [on |-> o, step |-> step]

\* The sequence without its end.
AfterRemovalEndless(c, o) ==
  IF o = "service" THEN At("deployment", "look")
  ELSE IF o = "deployment" THEN At("backendPVC", "look")
  ELSE At("none", "look")

\* What follows the removal of o in deleteNFSServer, and then in Delete.
AfterRemoval(c, o) ==
  IF o = "service" THEN At("deployment", "look")
  ELSE IF o = "deployment" THEN At("backendPVC", "look")
  ELSE IF o # "backendPVC" \/ c = "gc" THEN RmIdle
  ELSE IF Hooked(c, "nfsPV") THEN At("nfsPV", "get") ELSE At("nfsPV", "delete")

\* deleteBackendPVC without its call of the hook on the backend PV.
BeginOwnHookOnly(c, o) ==
  IF Hooked(c, o) THEN At(o, "get") ELSE At(o, "delete")

\* The first thing done to an object that is there.
Begin(c, o) ==
  IF o = "backendPVC" /\ Hooked(c, "backendPV") THEN At("backendPV", "get")
  ELSE IF Hooked(c, o) THEN At(o, "get") ELSE At(o, "delete")

AfterHook(c, o) ==
  IF o # "backendPV" THEN At(o, "delete")
  ELSE IF Hooked(c, "backendPVC") THEN At("backendPVC", "get")
  ELSE At("backendPVC", "delete")

Delete ==
  /\ up /\ rm["delete"] = RmIdle
  /\ claim = "gone" /\ obj["nfsPV"] = "live"
  /\ rm' = [rm EXCEPT !["delete"] = At("service", "look")]
  /\ UNCHANGED <<file, claim, obj, meta, up, hook, prov, patch, faults>>

\* pvTracker: Provision, or Delete up to its return.
InProgress ==
  \/ prov \notin {"idle", "store"}
  \/ rm["delete"] # RmIdle /\ rm["delete"] # At("nfsPV", "delete")

\* cleanUpStalePvc finds a backend PVC without claim and without PV.
CleanUpStalePvc ==
  /\ up /\ GCEnabled /\ rm["gc"] = RmIdle
  /\ obj["backendPVC"] # "absent" /\ claim # "live"
  /\ ~ InProgress /\ obj["nfsPV"] = "absent"
  /\ rm' = [rm EXCEPT !["gc"] = At("service", "look")]
  /\ UNCHANGED <<file, claim, obj, meta, up, hook, prov, patch, faults>>

\* The Get before a deletion: only NotFound skips the object.
Lookup(c) ==
  /\ rm[c].step = "look"
  /\ LET o == rm[c].on IN
       \/ /\ obj[o] = "absent" /\ faults' = faults
          /\ rm' = [rm EXCEPT ![c] = AfterRemoval(c, o)]
       \/ /\ obj[o] # "absent" /\ faults' = faults
          /\ rm' = [rm EXCEPT ![c] = Begin(c, o)]
       \/ /\ Fault
          /\ rm' = [rm EXCEPT ![c] = Begin(c, o)]
  /\ UNCHANGED <<file, claim, obj, meta, up, hook, prov, patch>>

GetForHook ==
  /\ rm["delete"].step = "get"
  /\ LET o == rm["delete"].on IN
       /\ o = "backendPV" => obj["backendPVC"] # "absent"
       /\ HookGet("delete", o, "DeleteVolume")
       /\ rm' = [rm EXCEPT !["delete"] = At(o, "patch")]
  /\ UNCHANGED <<file, claim, obj, meta, up, hook, prov, faults>>

PatchForHook ==
  /\ rm["delete"].step = "patch"
  /\ LET o == rm["delete"].on IN
       /\ HookPatch("delete", o)
       /\ rm' = [rm EXCEPT !["delete"] = AfterHook("delete", o)]
  /\ UNCHANGED <<file, claim, up, hook, prov, faults>>

\* The Delete call; that of the NFS PV is the controller's, after Delete.
DeleteCall(c) ==
  /\ rm[c].step = "delete"
  /\ DeleteObject(rm[c].on)
  /\ rm' = [rm EXCEPT ![c] = AfterRemoval(c, rm[c].on)]
  /\ UNCHANGED <<file, claim, up, hook, prov, patch, faults>>

\* deleteNFSServer returns an error: Delete is called again, the GC goes on.
RemovalAborts(c) ==
  /\ rm' = [rm EXCEPT ![c] = RmIdle]
  /\ patch' = IF c = "delete" THEN [patch EXCEPT ![c] = NoPatch] ELSE patch
  /\ UNCHANGED <<file, claim, obj, meta, up, hook, prov>>

RemovalCallFails(c) ==
  /\ rm[c].step \in {"get", "patch", "delete"} /\ Fault
  /\ RemovalAborts(c)

\* A hook's object is gone, or the patch is refused.
RemovalHookFails ==
  LET at == rm["delete"] IN
  /\ \/ at.step = "get" /\ obj[at.on] = "absent"
     \/ at = At("backendPV", "get") /\ obj["backendPVC"] = "absent"
     \/ at.step = "patch" /\ PatchRefused("delete", at.on)
  /\ faults' = faults
  /\ RemovalAborts("delete")

-----------------------------------------------------------------------------
(* The cluster around the provisioner *)

UserCreateClaim ==
  /\ claim = "none" /\ claim' = "live"
  /\ UNCHANGED <<file, obj, meta, up, hook, prov, rm, patch, faults>>

UserDeleteClaim ==
  /\ claim = "live" /\ claim' = "gone"
  /\ UNCHANGED <<file, obj, meta, up, hook, prov, rm, patch, faults>>

\* The backend storage provisions and binds a PV for the backend PVC.
BindBackendPVC ==
  /\ obj["backendPVC"] = "live" /\ obj["backendPV"] = "absent"
  /\ SetObject("backendPV", "live", {})
  /\ UNCHANGED <<file, claim, up, hook, prov, rm, patch, faults>>

\* Without its backend PVC the backend PV is released and deleted.
ReclaimBackendPV ==
  /\ obj["backendPVC"] = "absent" /\ obj["backendPV"] = "live"
  /\ SetObject("backendPV", "terminating", meta["backendPV"])
  /\ UNCHANGED <<file, claim, up, hook, prov, rm, patch, faults>>

\* Other controllers set their entries on live objects, and take them back.
ForeignAdd(o, e) ==
  /\ obj[o] = "live" /\ e \notin meta[o]
  /\ SetObject(o, obj[o], meta[o] \cup {e})
  /\ UNCHANGED <<file, claim, up, hook, prov, rm, patch, faults>>

ForeignRelease(o, e) ==
  /\ e \in meta[o]
  /\ SetObject(o, obj[o], meta[o] \ {e})
  /\ UNCHANGED <<file, claim, up, hook, prov, rm, patch, faults>>

-----------------------------------------------------------------------------

ProvisionerStep ==
  \/ Start \/ Crash
  \/ Provision \/ CreateBackendPVC \/ CreateDeployment \/ WaitForPvcBound
  \/ GetBackendPV \/ PatchBackendPV \/ CreateService \/ StorePV
  \/ ProvisionCallFails \/ ProvisionHookFails
  \/ Delete \/ CleanUpStalePvc \/ GetForHook \/ PatchForHook
  \/ RemovalHookFails
  \/ \E c \in Callers : Lookup(c) \/ DeleteCall(c) \/ RemovalCallFails(c)

ClusterStep ==
  \/ UserCreateClaim \/ UserDeleteClaim \/ BindBackendPVC \/ ReclaimBackendPV
  \/ \E o \in Protected, e \in Foreign :
       ForeignAdd(o, e) \/ ForeignRelease(o, e)

Next == ProvisionerStep \/ ClusterStep

Spec == Init /\ [][Next]_vars

\* The controller retries Provision and Delete until they succeed, the GC runs
\* every five minutes, the process is restarted by its Deployment, and other
\* controllers let go of an object that is being deleted.
Fairness ==
  /\ WF_vars(Start)
  /\ WF_vars(Provision)
  /\ WF_vars(CreateBackendPVC) /\ WF_vars(CreateDeployment)
  /\ WF_vars(WaitForPvcBound)
  /\ WF_vars(GetBackendPV) /\ WF_vars(PatchBackendPV)
  /\ WF_vars(CreateService) /\ WF_vars(StorePV)
  /\ WF_vars(ProvisionHookFails)
  /\ WF_vars(Delete) /\ WF_vars(CleanUpStalePvc)
  /\ WF_vars(GetForHook) /\ WF_vars(PatchForHook)
  /\ WF_vars(RemovalHookFails)
  /\ \A c \in Callers : WF_vars(Lookup(c)) /\ WF_vars(DeleteCall(c))
  /\ WF_vars(BindBackendPVC) /\ WF_vars(ReclaimBackendPV)
  /\ \A o \in Protected, e \in Foreign :
       WF_vars(obj[o] = "terminating" /\ ForeignRelease(o, e))

FairSpec == Spec /\ Fairness

-----------------------------------------------------------------------------
(* Properties *)

\* What the file asks for on o, whatever the order of its actions.
CreateEntries(o) ==
  Configured(file.hooks, o, "CreateVolume", "addOrUpdateEntries")
    \ Configured(file.hooks, o, "CreateVolume", "removeEntries")

\* A volume is published only with all five objects in place, none of them being
\* deleted, and with the configured entries on each: however often Provision
\* failed, was cut short by a crash or found objects of an earlier attempt, and
\* whatever is wrong with the file (createBackendPVC, Action,
\* ExecuteHookOnBackendPV, initializeHook).  The file may add and remove one entry
\* in the same event; then either may come last.
PublishedHooked ==
  claim = "live" /\ obj["nfsPV"] # "absent" =>
    \A o \in Resources :
      /\ obj[o] = "live"
      /\ file.exists => CreateEntries(o) \subseteq meta[o]

\* Hooks read an object and patch it later.  What other controllers set or
\* removed in between survives: no step of the provisioner adds or removes an
\* entry that is not its own (GetPatchData, ExecuteHookOn...).
ForeignEntriesKept ==
  [][ProvisionerStep => \A o \in Resources :
       obj[o] # "absent" /\ obj'[o] # "absent" =>
         meta'[o] \cap Foreign = meta[o] \cap Foreign]_vars

\* The inductive invariant behind these two.  A running process has parsed the
\* file; without it there is no activity.
HookParsed ==
  IF up THEN ParseHooks(file, hook)
        ELSE prov = "idle" /\ \A c \in Callers : rm[c] = RmIdle
\* Nothing precedes the claim, and nothing is deleted while it lives.
NothingBeforeClaim ==
  claim = "none" => prov = "idle" /\ \A o \in Resources : obj[o] = "absent"
DeletesReleasedOnly == \A c \in Callers : rm[c] # RmIdle => claim = "gone"
\* A patch that is under way touches no entry of another controller.
PatchOwn ==
  \A a \in Activities :
    patch[a].add \cap Foreign = {} /\ patch[a].remove \cap Foreign = {}
\* While the claim lives: what Provision has passed is there, each object has
\* had its entries since its creation, the backend PV as soon as it is patched.
Passed(o) ==
  \/ obj["nfsPV"] # "absent"
  \/ prov \in [backendPVC |-> ProvPC \ {"idle", "bpvc"},
              deployment |-> ProvPC \ {"idle", "bpvc", "dep"},
              backendPV  |-> {"hook", "patch", "svc", "store"},
              service    |-> {"store"},
              nfsPV      |-> {}][o]
LiveObjects ==
  /\ \A o \in Resources :
       /\ obj[o] # "terminating"
       /\ Passed(o) => obj[o] = "live"
       /\ file.exists /\ o # "backendPV" /\ obj[o] = "live" =>
            CreateEntries(o) \subseteq meta[o]
  /\ obj["backendPV"] = "live" => obj["backendPVC"] = "live"
  /\ file.exists /\ (obj["nfsPV"] # "absent" \/ prov \in {"svc", "store"}) =>
       CreateEntries("backendPV") \subseteq meta["backendPV"]
  /\ file.exists /\ prov = "patch" =>
       CreateEntries("backendPV") \subseteq
         (meta["backendPV"] \cup patch["provision"].add)
           \ patch["provision"].remove
Inv ==
  /\ TypeOK /\ HookParsed /\ NothingBeforeClaim /\ DeletesReleasedOnly
  /\ PatchOwn
  /\ claim = "live" => LiveObjects

\* The file takes back on deletion every finalizer that it adds.
TakesBack(f) ==
  \A o \in Resources :
    LET added(ev) ==
          Finalizers \cap Configured(f.hooks, o, ev, "addOrUpdateEntries")
    IN  /\ added("DeleteVolume") = {}
        /\ added("CreateVolume") \subseteq
             Configured(f.hooks, o, "DeleteVolume", "removeEntries")

AllGone == \A o \in Resources : obj[o] = "absent"

\* Deleting a volume succeeds in the end with hooks too: if the file takes its
\* finalizers back, every object of a published volume goes away after its claim
\* has gone, through failed calls, crashes and other controllers' finalizers
\* (Delete, deleteNFSServer, ExecuteHookOn...).
DeletedVolumeGoes ==
  TakesBack(file) /\ claim = "gone" /\ obj["nfsPV"] # "absent" ~> AllGone

\* The garbage collector cleans up: "when NFS PVC and NFS PV doesn't exist, NFS
\* resources should be destroyed" (cleanUpStalePvc).
StaleResourcesDestroyed ==
  TakesBack(file) /\ claim = "gone" /\ prov = "idle" /\ obj["nfsPV"] = "absent"
    ~> AllGone
=============================================================================
