# A TLA+ verification of the dynamic NFS provisioner

The provisioner turns a ReadWriteMany claim (an *NFS PVC*) into a volume served
by an NFS server of its own. For each claim it creates, through the Kubernetes
API, a *backend PVC* (ReadWriteOnce, the disk), an NFS server *Deployment* that
mounts it, and a *Service*; it then hands an *NFS PV* with the Service's address
to the controller library, which stores it and binds it to the claim. When the
claim goes, `Delete` takes the three backend objects apart again. A garbage
collector removes what an interrupted `Provision` has left behind.

This directory holds TLA+ modules for these parts, TLC configurations that
check them on small instances, and TLAPS proofs for every value of the
constants. `PROJECT.json` lists components, runs, mutants, hazards, findings and
theorems, and maps each definition to source lines.

    tlc -workers 2 -config single.cfg MCNFSProvisioner
    tlapm NFSProvisioner_proof.tla

## 1. Inventory

### Components

| Component | State it keeps | Operations | Modelled in |
|---|---|---|---|
| Provision and Delete handlers (`provisioner.go`, `provisioner_kernel_nfs_server.go`) | none between calls | `Provision`, `Delete` | NFSProvisioner |
| NFS server objects (`helper_kernel_nfs_server.go`) | objects in the API server; names noted in `KernelNFSServerOptions` | create and delete of backend PVC, Deployment, Service; `waitForPvcBound`; `getNFSServerAddress` | NFSProvisioner (calls), ServerObjects (content), VolumeHooks (hooks on them) |
| Garbage collector (`garbage_collector.go`) | the list of one round | list, three checks, removal, every 5 minutes, in every replica | NFSProvisioner, VolumeHooks |
| Provisioning tracker (`pvc_tracker.go`) | a set of PV names per process, under a mutex | `Add`, `Delete`, `Inprogress` | NFSProvisioner |
| Process and leader election (`controller.go`, `signal_handler.go`, `app/start.go`) | lease, process life | start, crash, lease taken over | NFSProvisioner |
| Hooks (`pkg/hook`, `pkg/helper`) | parsed hook file | annotations and finalizers added or removed on five kinds of object | VolumeHooks |
| NFS server container (`nfsd.sh`) | files on the volume, kernel NFS threads, daemons | exports, chown, chmod, start-up loop, monitor, stop | NFSServer |
| Volume configuration (`config.go`, `env.go`) | none | merge of annotations, getters | ServerObjects (partly) |
| Object builders (`pkg/kubernetes/api`) | object under construction, errors | setters, nested builders, `Build` | ServerObjects (partly) |
| Node affinity (`node_affinity.go`) | rules parsed at start, the informer's cache of the nodes | parser, validation at every `Provision`, rules in the Deployment | AffinityParser, NodeAffinity |
| Deployment status (`rollout_status.go`) | none | predicates on a Deployment's status, not called by the provisioner | no |
| API clients, list helpers, metrics, events | none, counters | wrappers | no |

### Interactions

The controller library (sig-storage-lib-external-provisioner, not part of this
repository) watches claims and PVs, calls `Provision` and `Delete` from work
queues in the replica that holds the lease, retries what fails, and creates and
removes the PV objects. All other communication is through API objects: the
handlers of all replicas, the collectors of all replicas, the backend
provisioner, the Deployment controller and the users write the same objects, and
there is no lock between them. Inside one process the handlers and the collector
share the tracker. The Deployment's environment variables are the only channel
to the server container.

### What is hard here

* Each handler is a sequence of API calls, each of which can fail, take effect
  with its answer lost, or be followed by a crash; anybody may act in between.
* Objects are created with Get-then-Create, without ownership references.
* The collector checks the claim, the tracker and the PV one after the other and
  acts on the answers later; trackers are per process, collectors run everywhere.
* The PV is stored by the controller *after* `Provision` has returned and dropped
  its tracker entry.
* Backend PVCs may bind only after a pod uses them (WaitForFirstConsumer), late,
  or never.
* Hooks put finalizers on objects, which turn deletions into two steps, and work
  with Get and Patch beside other controllers.
* The container script may be killed in the middle of a recursive chown or chmod,
  and judges by the root directory alone whether to repeat it.
* Annotations are edited while attempts are under way and retried.
* Node affinity rules are checked against a cache that may be empty or outdated,
  and carried out later by the scheduler; Deployments outlive the setting they
  were made under.

### What makes it correct

A claim with a PV is served, by a disk, a server and an address that stay until
the claim is deleted; nobody takes apart what a live claim or a running
`Provision` uses; whatever is left behind can be found and is removed in the end;
a bindable claim gets its PV in the end. A published volume carries the entries of
the hook file, and hooks disturb no other controller. A directory is exported only
with the ownership that was asked for. A PV leads to its own server, which runs
with the settings its annotations asked for, on a node that meets the rules. The hazards in `PROJECT.json` name
the lines where each could go wrong.

## 2. Modules

### NFSProvisioner: handlers, collector, replicas

A volume `v` stands for a claim UID; the names of the PV and of the backend
objects are functions of it. `claim`, `pv`, `bpvc`, `dep`, `svc` are the API
server's objects; per replica there are `up`, `tracker`, `prov` (where `Provision`
of each volume stands), `addr` (the address of a PV not stored yet), `rm` (where
`deleteNFSServer` stands, for `Delete` and for the collector) and `gc`.

One action is one API call, with what the code does up to the next one:
`GetBackendPVC`/`CreateBackendPVC`, `GetDeployment`/`CreateDeployment`,
`PvcBound`/`PvcWaitFails` (`waitForPvcBound`), `GetService`/`CreateService`,
`GetNFSServerAddress`, then `StorePV` (the controller), and the six
`Lookup...`/`Delete...` calls. `createNFSServer` and `deleteNFSServer` are the
orders of these calls. A call may succeed, fail, or take effect while its answer
is lost; each failure spends one of `MaxFaults`. A Create that finds the object
is refused. `Crash` loses everything a process has in memory, also its tracker;
`Restart` and `AcquireLease` follow. `GCList`, `GCCheckClaim`, `GCCheckTracker`,
`GCCheckPV` are the steps of `cleanUpStalePvc`.

Constants choose the environment: `LeaderElection`, `GCEnabled`, `UseClusterIP`,
`WaitForFirstConsumer`, and `StaleInformer` (the controller's caches lag, so that
it may call `Provision` for a claim that is gone or already has a PV).

### VolumeService and ProvisionerRefinement: the promise

VolumeService says what a user sees of a claim: parts are assembled, the volume
is published when all are there, and nothing about it changes until the claim is
released. ProvisionerRefinement maps the provisioner's state to it (storage: the
backend PVC is bound; server: the Deployment exists; endpoint: there is a Service
and the PV's address, once there is a PV, is that of the Service).

### VolumeHooks: annotations and finalizers

One volume and one replica, five objects with their entries, the hook file, the
Provision and Delete sequences with every hook's Get and Patch as separate steps,
finalizers holding up deletions, other controllers (pvc-protection and the like)
adding and releasing theirs. An entry is a finalizer, or an annotation key with
the value the hook gives it. The collector runs with no hooks, as in the code.

### NFSServer: the container script

`config` is the environment, `tree[a]` the nodes of the shared directory that have
the requested owner, group or mode. chown -R visits children before their parent,
so the root comes last; the script's chmod sets the root first. The root may refuse
its mode too (`TestChmodFails`), which ends the script. Each visited node is a step, and the container may be killed before any step. The tree and the
kernel's NFS threads outlive the container.

### ServerObjects: what the objects contain

`GetVolumeConfig` merges the annotations, the getters read it, `OptionsValid` is
the early returns of `Provision`, `KernelNFSServerOptions` the options. A builder
is the fields set so far and an error flag; each package's setters are a table
(field, what a missing argument does, how an earlier value is treated), and
`b ++ c` is the builder after one more call. `BackendPVC`, `Deployment` (with pod template,
container and volume), `Service` and `NFSPV` are the chains of the code. A table is
a run of setters of the package, those beside the ones called included. One provisioner runs; the
claim is read when `Provision` is called and the StorageClass one step later;
attempts are cut at any step and repeated, annotations are edited at any time.
Get and Create are one step here; their races are NFSProvisioner's subject.

### AffinityParser and NodeAffinity: where the servers run

AffinityParser has no state. A setting is what an administrator means: a sequence of
rules, each a label key with a list of values or without, and a spelling (plain,
padded with spaces, with an empty list). `Text` spells it as a sequence of tokens
(words and the characters `,` `:` `[` `]` and space), and `getNodeAffinityRules` down
to `getNodeSelectorRequirement` parse it as the code does, with `Split` and the trims
of Go's strings package; `MeantBy` is the reference. The loops of the code, and that
of `strings.Split` over a text, are recursive functions from the front of a list to
the whole (`KeyRequirements`, `PieceRequirements`, `Cut`). In NodeAffinity, `Start` parses the variable and
starts the informer with an empty cache; `Inform` brings one node up to date.
`Provision` passes when the cache has a node that matches; a refused call changes
nothing and is repeated, so it is no step. `CreateDeployment` keeps a Deployment
that exists and otherwise gives it the rules in force. `Place` is the scheduler.
`Stop` ends the process, which comes back with the same or another setting.

## 3. Runs

| Run | Instance | Shows |
|---|---|---|
| `single` | 1 replica, 2 claims one after the other under one name, one of which never binds, 1 fault, fair | `BoundVolumeServed`, `LeftoversListed`, `GCNotDuringProvision`; `ClaimEventuallyBound`, `VolumeEventuallyReclaimed` |
| `replicas` | 2 replicas without leader election, both collectors, 1 fault, ClusterIPs | races of two Provisions, Deletes and collectors never hurt a live claim: `BoundVolumeServed`, `LiveClaimKeepsBackend`, and `ImplementsVolumeService` |
| `gc_replicas` | 2 replicas, leader election | violation of `GCNotDuringProvision` (finding 1) |
| `gc_retained` | 1 replica, policy Retain | violation of `RetainedPVKeepsBackend` (finding 2) |
| `hooks` | 5 hook files, lagging caches, collector, 2 faults | `PublishedHooked`, `ForeignEntriesKept` |
| `hooks_live` | 2 hook files, collector off, 2 faults, fair | `DeletedVolumeGoes` |
| `hooks_gc` | the tutorial's hook file, collector on, fair | violation of `StaleResourcesDestroyed` (finding 3) |
| `server` | every setting, 2 files, 2 faults, 2 refused changes, fair | `OwnersBeforeExport`, `RejectedNeverExported`, `EventuallyExported` |
| `server_mode` | 1 fault | violation of `PermissionsBeforeExport` (finding 4) |
| `server_start` | 1 fault | violation of `StartedUp` (finding 5) |
| `objects` | 2 claims, 7 class and 4 claim annotations, with and without an image, 1 edit | `PVReachesOwnServer`, `SettingsAsRead`, `OneGroupMechanism`, `DeploymentsComplete` |
| `affinity` | 23 settings, 2 nodes, 2 labelings, 1 change of the nodes, 1 restart or failed call, fair | `RulesAsMeant`, `PlacedByRules`, `EventuallyPlaced` |

Every property of a passing run has a mutant of the code that breaks it, listed
in `PROJECT.json`; mutated definitions stand beside the originals, marked
`Mutant`. Runs do not check for deadlock: when all claims are gone and cleaned up,
all faults spent and all edits made, there may be nothing left to do.

### Bounds

* *Volumes.* Objects of different volumes share only the tracker, the collector's
  list and the claim's name. Two claims under one name, one after the other, cover
  the collector's comparison of UIDs and a list with two items.
* *Replicas.* Two are enough for a leader and a bystander, and for every race
  between two Provisions, or a Provision and another replica's collector.
* *Faults.* `MaxFaults` bounds crashes and failed calls; one fault may fall at any
  step, two also within a recovery from the first. Ordinary retries, the timeout
  of `waitForPvcBound` and refused Creates are not faults and are not bounded.
* *ClusterIPs.* Two: a replaced Service can have another address.
* *Files.* Two files and the root: one visited, one not, and the directory.
* *Annotations.* The configurations contain every key that is modelled, its
  absence, a value that is refused, FSGID beside GID and beside mode in different
  annotations, and the same name in both.
* *Leaders.* `replicas` runs without leader election, where both replicas act all
  the time: that contains what replicas with an election do, a leader that crashes
  half-way and its successor included.
* *Settings.* All lists of up to two of four forms of a rule (bare key, empty list,
  padded single value, two values), and two longer ones that mix them: every pair
  of forms meets at a comma, which is where the parser cuts.
* *Nodes.* One that meets the rules and one that does not; a change makes, moves or
  takes away the one that does, a restart or a failed call comes in between.
* Lagging caches of the controller and DNS addresses are in the theorems and, for
  the caches, in `hooks`; with two replicas they are beyond the runs' size.
* The theorems of section 4 have none of these bounds.

### Fairness

Weak fairness of each step of a handler says that a process that runs goes on, and
that the controller library repeats a Provision or Delete that failed. The second is
an assumption: the library is not part of this repository, and it may stop repeating
an item after a number of failures, until the provisioner is restarted. So
`ClaimEventuallyBound`, `VolumeEventuallyReclaimed`, `DeletedVolumeGoes` and
`EventuallyPlaced` hold as long as the library retries. The collector starts a round
every five minutes. `PvcBound` is strongly fair: the
attempts recur, the PVC stays bound once it is, and the wait polls every second
of its timeout, so that some attempt sees it. `Restart`: the provisioner is a
Deployment. `AcquireLease`: an expired lease is taken. `BindBackendPVC`: a bindable
backend PVC binds in the end. In VolumeHooks, other controllers release objects
that are being deleted. In NFSServer, the script runs on and the kubelet restarts
its container. In NodeAffinity, the provisioner is restarted, the informer delivers
every change of a node, a Provision goes on and is repeated, and the scheduler
places a pod that fits somewhere; the wait for the backend PVC may fail for ever.
Faults are finitely many; nothing is assumed about when they
happen.

### Findings

1. **Collectors of replicas that do not lead** (`gc_replicas`). Each replica starts
   a collector with its own tracker. If a claim is deleted while the leader
   provisions it, another replica's collector takes the server apart under it.
2. **Between return and storage** (`gc_retained`). The tracker entry is dropped when
   `Provision` returns and the PV is created later; a collector that looks in
   between deletes the backend of a PV that then exists. With Retain, its data.
3. **Collector without hooks** (`hooks_gc`). Finalizers of the create hook stay on
   what the collector deletes, which then stays in Terminating.
4. **chmod of the root first** (`server_mode`). A container killed before the
   recursive chmod ends never repeats it.
5. **rpc.nfsd unchecked** (`server_start`). The start-up loop looks at rpc.mountd
   only.

Findings 1 and 2 need a claim that is deleted while it is provisioned. For claims
that stay, `LiveClaimKeepsBackend` is proved.

## 4. Proofs

Eight modules hold theorems that TLAPS checks, each for every value of the constants
of its component.

### NFSProvisioner_proof, ProvisionerRefinement_proof

For all replicas, volumes, policies, addresses and fault bounds, with and without
leader election, collector, lagging caches. They assume `ConstantAssumption`
only: typing of the constants and that the markers `absent`, `dns` and `none` are
not values.

* `TypeCorrect`: `Spec => []TypeOK`.
* `BoundVolumesServed`: `Spec => []BoundVolumeServed`. The property is not inductive:
  `StorePV` writes an address that was read some steps before, so one must know
  that everything a Provision has passed is still there. `Inv` therefore adds
  - `LiveClaimStands`: behind each position of a Provision of a live claim, the
    objects it has made or found exist, the PVC is bound after the wait, and the
    address it holds is the Service's;
  - `DeletesReleasedOnly`: every `deleteNFSServer` under way, and every item the
    collector has passed the claim check with, belongs to a claim that is gone for
    good, since UIDs do not come back;
  - `NothingBeforeClaim`: no object, Provision or listed item precedes its claim, so
    the collector's "no such claim" means *gone* and not *not yet*.

  Removals then touch gone claims only, and what creates only adds.
* `LiveClaimsKeepBackend`: `Spec => LiveClaimKeepsBackend`, from `Inv` and one lemma on
  the shape of a step (`StepShape`): a step changes the objects of one volume, and
  either adds to them or finds the claim gone.
* `Refinement`: `Spec => ImplementsVolumeService`. Steps of a Provision assemble,
  `StorePV` publishes, which needs `Inv` for all parts to be in place; steps on a
  released claim are `Reclaim`; all others leave the mapped state alone.

### SoleReplica_proof

`LeftoversListed` and `GCNotDuringProvision` are false in general: finding 1 breaks
the second with two replicas, and lagging caches break the first. They are proved
under `Sole`: one replica, caches that do not lag, any volumes and any number of
faults. `SoleInv`, on top of `Inv`, has three parts: a Provision is on the tracker
until it returns and its claim has no PV until then (`ProvisionTracked`); once the
collector has seen a volume off the tracker, or its Delete has begun, nothing is
built for it any more (`NothingBuilt`); and the backend PVC is there from the first
object on and until the others are gone (`PVCFirstAndLast`). The second part is
what makes the collector's outdated check of the tracker harmless: it relies on
the claim being gone for good, hence on no new Provision starting.

### VolumeHooks_proof

`HooksTypeCorrect`, `PublishedVolumesHooked`, `HooksKeepForeignEntries`, for every hook
file that satisfies `HookAssumption` (files name known resources and own entries)
and every fault bound. `Inv` adds that a running process has parsed the file
(`HookParsed`), that deletions belong to released claims, that a patch under way
holds no entry of another controller (`PatchOwn`), and that while the claim lives
none of the objects is being deleted and each has had its entries since its creation,
the backend PV since it was patched (`LiveObjects`).

### NFSServer_proof

`ServerTypeCorrect`, `OwnersSetBeforeExport`, `RejectedSettingsNeverExported`, for any
tree and any number of kills and refusals. `Inv` adds that a root with the requested
owner vouches for every node but those that have refused (`RootVouches`), which
survives a kill because chown -R changes the root last; that nodes skipped by a
walk have refused (`SkippedRefused`); and what the script has checked by each step,
or by an earlier export (`BlocksPassed`).

### AffinityParser_proof, NodeAffinity_proof

`SettingsReadAsMeant`: `getNodeAffinityRules(Text(s)) = MeantBy(s)` for every sequence
`s` of rules, of any length and with any words, lists of values and mix of spellings.
It assumes only that words are none of the five characters (`WordsAssumption`).

It is an induction over data. The library's induction theorems quantify over an
operator and cannot be used, so induction is over *sets* of lists (`SeqInduct`), from
the fact that every set of numbers has a smallest element (`WFMin` on the natural
numbers). That the recursive functions exist is proved too, by building them one
list at a time (`SeqRecursion`). On this rest
- the strings package: `Split` undoes `Joined` when the parts do not hold the separator
  (`SplitJoined`), goes on within a part (`SplitMore`) and cuts at a complete separator
  (`SplitAt`, `SplitEnd`); `Trim...Is` says what is left of a text;
- one rule: `BareRule` and `ListedRule`, the second with its closing bracket and
  without, as the cut at `],` takes the bracket of every piece but the last;
- one piece: keys only (`PieceBare`), one listed rule (`PieceOne`), keys and then one
  listed rule (`PieceMore`). In the last the match is the listed rule (`LastMatch`): the
  commas inside its list have no `:[` behind them;
- the setting: `Parts(s, s0, b, front)` is the invariant of the induction. The pieces
  `front` are read as the rules `s0`, and what follows is either keys `b`, or keys
  `b` and a listed rule. A rule after keys joins their piece (`NextAfterKeys`); a rule
  after a listed one makes `],` complete and opens a piece (`NextAfterGroup`).

NodeAffinity_proof takes it from there, for any nodes, labels, volumes, settings and
restarts (`SettingsAssumption`: settings are sequences of rules, bounds are numbers):
`AffinityTypeCorrect`, `RulesReadAsMeant` and `ServersPlacedByRules`, for `TypeOK`,
`RulesAsMeant` and `PlacedByRules`. `PlacementInv` says that each Deployment carries the
rules of the setting it was made under, and only a running process makes one.

### ServerObjects_proof

`ServerObjectsTypeCorrect`, `PVsReachTheirServers`, `ServersRunWithSettingsRead`,
`GroupsSetInOneWay`, `DeploymentsAreComplete`: every property of the run `objects`, for
all volumes, annotation values, names, images and numbers of edits, from
`ServerObjectsAssumption` (the bound is a number, configurations say whether they parse,
and the empty string is neither a volume nor a numeral). `Inv` says
- of an attempt, that it holds the options of the annotations it has read, valid and
  with the names of the objects it has passed filled in (`OptionsAsRead`), and that
  what it has passed exists (`StepsDone`), also after the annotations were edited;
- of each object that exists, that it is what the builders make of the annotations
  that were read when it was created (`DeploymentsAsBuilt`, `ServicesAsBuilt`), which
  an attempt that finds it there does not change, and that a PV has the address of
  its volume's Service (`PVsAsBuilt`).

The objects are long chains of calls. What a chain makes of its arguments is not
unfolded at once but carried along it by four kinds of lemmas: a call sets its field,
keeps the others, omits what it is not given, and refuses a missing argument; so a
chain whose arguments are valid ends without an error and with each field set by the
one call that names it.

### Only model-checked

All liveness: fairness and ENABLED are outside the prover's reach. Every safety
property of a passing run is stated by a theorem.

## 5. What is left out, and assumptions

* The controller library is modelled from how the code uses it: handlers are
  retried until they succeed (a limit on the failures of one item is not modelled,
  see Fairness), `Delete` is called for a released PV with policy
  Delete, there is one call at a time per claim and per PV and replica. Its giving
  up on storing a PV, with the clean-up `Delete` this entails, is not modelled.
* Losing the lease ends the process, so a replica that lost it does not go on. The
  `replicas` run, without leader election, covers overlapping replicas all the same.
* NFSProvisioner has no hooks and no Terminating state; VolumeHooks has one replica.
* With lagging caches a Provision may run for a deleted claim and create a
  Deployment after the collector has deleted the backend PVC; nothing lists it
  then. `LeftoversListed` is checked and proved without lagging caches.
* Annotation values, the `$current-time` template, resource lists and capacities are
  abstract. Names within one annotation are distinct and trimmed. There is one
  StorageClass, so that finding its name (beta annotation) is left out. In
  ServerObjects the PV's server address is the Service's DNS name, a pair of name and
  namespace; ClusterIPs are NFSProvisioner's subject.
* Clients' changes of files are left out. A node that has refused a chown is named
  as an exception by `OwnersBeforeExport`: the start after the failed one looks at
  the root only, as the tutorial says.
* NodeAffinity has one replica and no deletion of volumes. Spaces between the values
  of a list, or between `]` and `,`, are not among the settings (see below).

Not modelled:

* The Deployment's rollout status and the predicates of the object packages: pure,
  and nothing in the provisioner calls them, which does not wait for a Deployment.
* API clients and list helpers (`kubernetes.go`, `client.go`, the list builders): one
  client-go call each, used by the integration tests; no state, no control.
* Metrics and analytics events: written and never read. Logging, flag parsing,
  kubeconfig. `performPreupgradeTasks` does nothing.
* Builder methods that the provisioner does not call and that nest or check
  (`BuildFrom`, `AddCheck`, secrets and config maps as volumes), and the pod template's
  node selectors, tolerations and priority class.

Noted while reading, without a run: `OPENEBS_IO_EXPORTS_SC` (`env.go`) is read by
`getDefaultExportsSC`, which nothing calls; the lease time "should be in range from
10 to 3600 seconds" (`helper_kernel_nfs_server.go`), any integer passes, and 0 does
when parsing fails; predicates added to the Deployment builder are never
evaluated; the values of `zone:[a, b]`, the form of two comments in
`node_affinity.go`, keep the space, are no label values, and make every Provision
fail; a negative backend PVC timeout fires at once.

## 6. Status

The plan is carried out: the core with its abstract specification, refinement and
proofs; hooks; server script; configuration and builders; node affinity with its
parser; and a proof of every safety property the passing runs check.

Worth adding when the code changes: deletion and recreation of volumes in
NodeAffinity, if rules become part of a claim; the controller's clean-up of a PV it
cannot store, if the provisioner starts to configure it (the library's defaults are
used, and it is not part of this repository).
