--------------------------- MODULE ServerObjects ---------------------------
(***************************************************************************)
(* What the provisioner writes into the objects of an NFS server: the      *)
(* configuration merged from the StorageClass, the claim and the           *)
(* provisioner's defaults, the options read from it, and the objects put   *)
(* together by the builders, over repeated attempts between which users    *)
(* edit the annotations.                                                   *)
(*                                                                         *)
(* A configuration is the parsed cas.openebs.io/config annotation: a       *)
(* function from the names it lists to entries [value, data].  A volume v  *)
(* stands for its claim and for the names derived from its UID.            *)
(***************************************************************************)
EXTENDS Integers, Sequences

CONSTANTS
  Volumes,        \* claims
  ClassConfigs,   \* annotations the StorageClass may carry
  ClaimConfigs,   \* annotations a claim may carry
  Numerals,       \* strconv.Atoi and ParseInt: the numbers some strings stand for
  Images,         \* values of the server image variable and its default
  MatchExpressions, \* node affinity rules of the provisioner
  PullSecret,     \* name of the image pull secret, or ""
  ServerNamespace, \* namespace of the NFS server objects, not empty
  MaxEdits        \* bound on edits of annotations

ASSUME ServerObjectsAssumption ==
  /\ "" \notin Volumes /\ MaxEdits \in Nat
  /\ "" \notin DOMAIN Numerals
  /\ \A c \in ClassConfigs \cup ClaimConfigs : c.ok \in BOOLEAN

VARIABLES
  class,    \* the StorageClass's annotation
  claim,    \* the claims' annotations
  image,    \* the server image of this installation
  attempt,  \* the Provision call in progress for v: its step and its options
  bpvc,     \* backend PVCs, by volume
  dep,      \* NFS server Deployments
  svc,      \* NFS Services
  pv,       \* NFS PVs handed to the controller
  read,     \* history: the annotations read by the attempt that made dep[v]
  edits     \* history: edits of annotations so far

vars == <<class, claim, image, attempt, bpvc, dep, svc, pv, read, edits>>

Absent == <<>>
Exists(o) == DOMAIN o # {}

\* The entries of f, and those of g under other names.
Over(f, g) == [k \in DOMAIN f \cup DOMAIN g |-> IF k \in DOMAIN f THEN f[k] ELSE g[k]]

\* f with the entry x under k.
Extend(f, k, x) == [i \in DOMAIN f \cup {k} |-> IF i = k THEN x ELSE f[i]]

-----------------------------------------------------------------------------
(* The volume configuration *)

IsNumber(s) == s \in DOMAIN Numerals

\* The provisioner's own configuration.
defaultConfig == [NFSServerType |-> [value |-> "kernel", data |-> <<>>]]

\* Entries are taken as a whole from the configuration of higher priority.
MergeConfig(high, low) == Over(high, low)

\* Mutant: the claim's annotation wins.
GetVolumeConfigClaimFirst(sc, pvc) ==
  MergeConfig(pvc.config, MergeConfig(sc.config, defaultConfig))

\* The claim's annotation over the defaults, the StorageClass's over both.
GetVolumeConfig(sc, pvc) ==
  MergeConfig(sc.config, MergeConfig(pvc.config, defaultConfig))

\* An absent key, value or data key reads as "".
getValue(c, key) == IF key \in DOMAIN c THEN c[key].value ELSE ""
getData(c, key, dataKey) ==
  IF key \in DOMAIN c /\ dataKey \in DOMAIN c[key].data
  THEN c[key].data[dataKey] ELSE ""

GetNFSServerType(c) ==
  IF getValue(c, "NFSServerType") = "" THEN "kernel"
                                       ELSE getValue(c, "NFSServerType")

\* LeaseTime and GraceTime: unset and 0 mean 90; what is no number is logged and
\* leaves 0.
Seconds(c, key) ==
  LET s == getValue(c, key)
  IN  IF s = "" THEN 90
      ELSE IF ~IsNumber(s) THEN 0
      ELSE IF Numerals[s] = 0 THEN 90 ELSE Numerals[s]

\* GetFSGroupID fails on what is no number; "" stands for nil.
FSGroupIDValid(c) == getValue(c, "FSGID") = "" \/ IsNumber(getValue(c, "FSGID"))
GetFSGroupID(c) == IF FSGroupIDValid(c) THEN getValue(c, "FSGID") ELSE ""

\* A data key of FilePermissions is refused beside FSGID, and is "" there.
Permission(c, dataKey) ==
  LET s == getData(c, "FilePermissions", dataKey)
  IN  IF GetFSGroupID(c) = "" THEN [ok |-> TRUE, val |-> s]
                              ELSE [ok |-> s = "", val |-> ""]
GetFsGID(c) == Permission(c, "GID")

\* Mutant: the mode is not compared with FSGID.
GetFsModeAlone(c) ==
  [ok |-> TRUE, val |-> getData(c, "FilePermissions", "mode")]

GetFsMode(c) == Permission(c, "mode")

\* Resource lists are YAML; "junk" does not unmarshal.
ResourcesValid(c) ==
  \A key \in {"NFSServerResourceRequests", "NFSServerResourceLimits"} :
    getValue(c, key) # "junk"

\* The early returns of Provision and ProvisionKernalNFSServer.
OptionsValid(c) ==
  /\ GetNFSServerType(c) = "kernel" /\ FSGroupIDValid(c) /\ ResourcesValid(c)
  /\ GetFsGID(c).ok /\ GetFsMode(c).ok

\* KernelNFSServerOptions.  The three names are filled in by the create steps.
KernelNFSServerOptions(c) ==
  [backendStorageClass |-> getValue(c, "BackendStorageClass"),
   custom |-> getValue(c, "CustomServerConfig"),
   lease |-> Seconds(c, "LeaseTime"), grace |-> Seconds(c, "GraceTime"),
   fsGroup |-> GetFSGroupID(c),
   UID |-> getData(c, "FilePermissions", "UID"),
   GID |-> GetFsGID(c).val, mode |-> GetFsMode(c).val,
   backendPvcName |-> "", deploymentName |-> "", serviceName |-> ""]

NameBackendPVC(o, v) == [o EXCEPT !.backendPvcName = v]
NameDeployment(o, v) == [o EXCEPT !.deploymentName = v]
NameService(o, v) == [o EXCEPT !.serviceName = v]

-----------------------------------------------------------------------------
(* The builders *)

\* The fields set so far, and whether a setter has refused its argument.
NewBuilder == [obj |-> <<>>, errs |-> FALSE]

\* An argument: given, or missing (nil, "" or empty).
Arg(x) == [given |-> TRUE, val |-> x]
Str(s) == [given |-> s # "", val |-> s]
Missing == [given |-> FALSE, val |-> <<>>]

\* A setter: its field, what it does without an argument ("error" records an
\* error, "skip" does nothing, "set" sets the field all the same), and how it
\* treats what an earlier call has set.
Setter(field, missing, how) == [field |-> field, missing |-> missing, how |-> how]
Call(setter, arg) == [setter |-> setter, arg |-> arg]

Value(c, b) ==
  IF c.setter.field \notin DOMAIN b.obj \/ c.setter.how = "replace" THEN c.arg.val
  ELSE IF c.setter.how = "merge" THEN Over(c.arg.val, b.obj[c.setter.field])
  ELSE b.obj[c.setter.field] \o c.arg.val

Sets(c) == c.arg.given \/ c.setter.missing = "set"
Fails(c) == ~Sets(c) /\ c.setter.missing = "error"
With(b, c) ==
  [obj  |-> IF Sets(c) THEN Extend(b.obj, c.setter.field, Value(c, b)) ELSE b.obj,
   errs |-> b.errs \/ Fails(c)]

\* Calls are chained.
b ++ c == With(b, c)

\* Mutant: a nested builder's errors are dropped with the part it was to build.
BuildIgnoringErrors(b) == [given |-> TRUE, val |-> b.obj]

\* Build: the object, or nothing when a setter has refused its argument.  As the
\* argument of an outer setter, nothing is a missing argument.
Build(b) == [given |-> ~b.errs, val |-> b.obj]

\* A list of builders as the argument of an outer setter: all of them build.
BuildAll(bs) == [given |-> \A i \in DOMAIN bs : Build(bs[i]).given,
                 val |-> [i \in DOMAIN bs |-> Build(bs[i]).val]]

containerSetters ==
  [WithName |-> Setter("name", "error", "replace"),
   WithImage |-> Setter("image", "error", "replace"),
   WithCommandNew |-> Setter("command", "error", "replace"),
   WithArgumentsNew |-> Setter("args", "error", "replace"),
   WithVolumeMountsNew |-> Setter("volumeMounts", "error", "replace"),
   WithVolumeDevices |-> Setter("volumeDevices", "error", "replace")]
containerMoreSetters ==
  [WithImagePullPolicy |-> Setter("imagePullPolicy", "error", "replace"),
   WithPrivilegedSecurityContext |-> Setter("privileged", "error", "replace"),
   WithResources |-> Setter("resources", "error", "replace"),
   WithResourcesByValue |-> Setter("resources", "set", "replace"),
   WithPortsNew |-> Setter("ports", "error", "replace"),
   WithEnvsNew |-> Setter("env", "error", "replace"),
   WithEnvs |-> Setter("env", "error", "append"),
   WithLivenessProbe |-> Setter("livenessProbe", "error", "replace"),
   WithLifeCycle |-> Setter("lifecycle", "error", "replace")]

volumeNameSetters ==
  [WithName |-> Setter("name", "error", "replace"),
   WithHostDirectory |-> Setter("source", "error", "replace")]
volumeSourceSetters ==
  [WithHostPathAndType |-> Setter("source", "error", "replace"),
   WithPVCSource |-> Setter("source", "error", "replace")]

podMetaSetters ==
  [WithName |-> Setter("name", "error", "replace"),
   WithNamespace |-> Setter("namespace", "error", "replace"),
   WithAnnotations |-> Setter("annotations", "error", "merge"),
   WithAnnotationsNew |-> Setter("annotations", "error", "replace"),
   WithLabels |-> Setter("labels", "error", "merge"),
   WithLabelsNew |-> Setter("labels", "error", "replace"),
   WithSecurityContext |-> Setter("securityContext", "skip", "replace")]
\* affinity stands for its required node selector terms.
podAccountSetters ==
  [WithServiceAccountName |-> Setter("serviceAccountName", "error", "replace"),
   WithImagePullSecret |-> Setter("imagePullSecrets", "skip", "append"),
   WithAffinity |-> Setter("affinity", "error", "replace"),
   WithNodeAffinityMatchExpressions |-> Setter("affinity", "skip", "append")]
podPartSetters ==
  [WithContainerBuilders |-> Setter("containers", "error", "append"),
   WithVolumeBuilders |-> Setter("volumes", "error", "append"),
   WithContainerBuildersNew |-> Setter("containers", "error", "replace"),
   WithVolumeBuildersNew |-> Setter("volumes", "error", "replace")]

deploymentMetaSetters ==
  [WithName |-> Setter("name", "error", "replace"),
   WithNamespace |-> Setter("namespace", "error", "replace"),
   WithAnnotations |-> Setter("annotations", "error", "merge"),
   WithAnnotationsNew |-> Setter("annotations", "error", "replace")]
deploymentLabelSetters ==
  [WithOwnerReferenceNew |-> Setter("ownerReferences", "error", "replace"),
   WithLabels |-> Setter("labels", "error", "merge"),
   WithLabelsNew |-> Setter("labels", "error", "replace"),
   WithSelectorMatchLabels |-> Setter("selector", "error", "merge"),
   WithSelectorMatchLabelsNew |-> Setter("selector", "error", "replace")]
deploymentSpecSetters ==
  [WithReplicas |-> Setter("replicas", "error", "replace"),
   WithStrategyType |-> Setter("strategy", "error", "replace"),
   WithPodTemplateSpecBuilder |-> Setter("template", "error", "replace")]

serviceMetaSetters ==
  [WithName |-> Setter("name", "error", "replace"),
   WithGenerateName |-> Setter("generateName", "error", "replace"),
   WithNamespace |-> Setter("namespace", "error", "replace"),
   WithAnnotations |-> Setter("annotations", "error", "merge"),
   WithAnnotationsNew |-> Setter("annotations", "error", "replace"),
   WithOwnerReferenceNew |-> Setter("ownerReferences", "error", "replace")]
serviceSpecSetters ==
  [WithLabels |-> Setter("labels", "error", "merge"),
   WithLabelsNew |-> Setter("labels", "error", "replace"),
   WithSelectors |-> Setter("selector", "error", "merge"),
   WithSelectorsNew |-> Setter("selector", "error", "replace"),
   WithPorts |-> Setter("ports", "error", "replace"),
   WithType |-> Setter("type", "error", "replace")]

\* WithNamespace of a PVC turns "" into "default"; WithStorageClass leaves the
\* class to the cluster's default.
pvcSetters ==
  [WithName |-> Setter("name", "error", "replace"),
   WithGenerateName |-> Setter("generateName", "error", "replace"),
   WithNamespace |-> Setter("namespace", "set", "replace"),
   WithAnnotations |-> Setter("annotations", "error", "replace"),
   WithLabels |-> Setter("labels", "error", "merge"),
   WithLabelsNew |-> Setter("labels", "error", "replace"),
   WithStorageClass |-> Setter("storageClass", "skip", "replace"),
   WithAccessModes |-> Setter("accessModes", "error", "replace"),
   WithCapacity |-> Setter("capacity", "error", "replace"),
   WithVolumeMode |-> Setter("volumeMode", "set", "replace"),
   WithVolumeName |-> Setter("volumeName", "set", "replace")]

pvSetters ==
  [WithName |-> Setter("name", "error", "replace"),
   WithAnnotations |-> Setter("annotations", "error", "replace"),
   WithLabels |-> Setter("labels", "error", "replace"),
   WithReclaimPolicy |-> Setter("reclaimPolicy", "set", "replace"),
   WithVolumeMode |-> Setter("volumeMode", "set", "replace"),
   WithAccessModes |-> Setter("accessModes", "error", "replace"),
   WithCapacity |-> Setter("capacity", "error", "replace"),
   WithCapacityQty |-> Setter("capacity", "set", "replace"),
   WithLocalHostPathFormat |-> Setter("source", "error", "replace"),
   WithPersistentVolumeSource |-> Setter("source", "error", "replace"),
   WithNodeAffinity |-> Setter("nodeAffinity", "error", "replace"),
   WithNFS |-> Setter("source", "error", "replace"),
   WithMountOptions |-> Setter("mountOptions", "skip", "replace")]

-----------------------------------------------------------------------------
(* The objects of an NFS server *)

\* Labels that carry the claim's identity, and the one that names the server;
\* claims of one name in different namespaces differ in the last two.
ClaimLabels(v) ==
  [nfsPvcName |-> "data", nfsPvcUID |-> v, nfsPvcNs |-> v]
ServerLabel(name) == [nfsServer |-> name]
getLabels(v) == [persistentVolume |-> v, casType |-> "nfs-kernel"]

BackendPVC(v, o) ==
  NewBuilder
  ++ Call(pvcSetters.WithNamespace, Arg(ServerNamespace))
  ++ Call(pvcSetters.WithName, Arg(v))
  ++ Call(pvcSetters.WithLabels, Arg(Over(getLabels(v), ClaimLabels(v))))
  ++ Call(pvcSetters.WithCapacity, Arg("capacity"))
  ++ Call(pvcSetters.WithAccessModes, Arg("RWO"))
  ++ Call(pvcSetters.WithStorageClass, Str(o.backendStorageClass))

EnvVars(o) ==
  [CUSTOM_EXPORTS_CONFIG |-> o.custom, NFS_LEASE_TIME |-> o.lease,
   NFS_GRACE_TIME |-> o.grace, FILEPERMISSIONS_UID |-> o.UID,
   FILEPERMISSIONS_GID |-> o.GID, FILEPERMISSIONS_MODE |-> o.mode]

Container(o, img) ==
  NewBuilder
  ++ Call(containerSetters.WithName, Arg("nfs-server"))
  ++ Call(containerSetters.WithImage, Str(img))
  ++ Call(containerMoreSetters.WithImagePullPolicy, Arg("IfNotPresent"))
  ++ Call(containerMoreSetters.WithEnvsNew, Arg(EnvVars(o)))
  ++ Call(containerMoreSetters.WithPortsNew, Arg("nfs, rpcbind"))
  ++ Call(containerMoreSetters.WithPrivilegedSecurityContext, Arg(TRUE))
  ++ Call(containerSetters.WithVolumeMountsNew, Arg("exports-dir"))
  ++ Call(containerMoreSetters.WithResources, Arg("requests, limits"))

ExportsVolume(o) ==
  NewBuilder
  ++ Call(volumeNameSetters.WithName, Arg("exports-dir"))
  ++ Call(volumeSourceSetters.WithPVCSource, Str(o.backendPvcName))

\* nfsDeployLabelSelector
ServerLabels(v) == Over(ServerLabel(v), ClaimLabels(v))

PodTemplate(v, o, img) ==
  NewBuilder
  ++ Call(podMetaSetters.WithLabelsNew, Arg(ServerLabels(v)))
  ++ Call(podMetaSetters.WithSecurityContext, Arg(o.fsGroup))
  ++ Call(podAccountSetters.WithNodeAffinityMatchExpressions,
          [given |-> MatchExpressions # <<>>, val |-> <<MatchExpressions>>])
  ++ Call(podAccountSetters.WithImagePullSecret,
          [given |-> PullSecret # "", val |-> <<PullSecret>>])
  ++ Call(podPartSetters.WithContainerBuildersNew, BuildAll(<<Container(o, img)>>))
  ++ Call(podPartSetters.WithVolumeBuilders, BuildAll(<<ExportsVolume(o)>>))

Deployment(v, o, img) ==
  NewBuilder
  ++ Call(deploymentMetaSetters.WithName, Arg(v))
  ++ Call(deploymentMetaSetters.WithNamespace, Arg(ServerNamespace))
  ++ Call(deploymentLabelSetters.WithLabelsNew, Arg(ServerLabels(v)))
  ++ Call(deploymentLabelSetters.WithSelectorMatchLabelsNew, Arg(ServerLabels(v)))
  ++ Call(deploymentSpecSetters.WithStrategyType, Arg("Recreate"))
  ++ Call(deploymentSpecSetters.WithPodTemplateSpecBuilder, Build(PodTemplate(v, o, img)))

Service(v, o) ==
  NewBuilder
  ++ Call(serviceMetaSetters.WithNamespace, Arg(ServerNamespace))
  ++ Call(serviceMetaSetters.WithName, Arg(v))
  ++ Call(serviceSpecSetters.WithPorts, Arg("nfs, rpcbind"))
  ++ Call(serviceSpecSetters.WithSelectorsNew, Arg(ServerLabel(o.deploymentName)))

\* <service>.<namespace>.svc.cluster.local
getNFSServerAddress(o) == [service |-> o.serviceName, namespace |-> ServerNamespace]

PVLabels == [casType |-> "nfs-kernel"]
NFSPV(v, o) ==
  NewBuilder
  ++ Call(pvSetters.WithName, Arg(v))
  ++ Call(pvSetters.WithLabels, Arg(PVLabels))
  ++ Call(pvSetters.WithReclaimPolicy, Arg("Delete"))
  ++ Call(pvSetters.WithAccessModes, Arg("RWX"))
  ++ Call(pvSetters.WithCapacityQty, Arg("capacity"))
  ++ Call(pvSetters.WithMountOptions, Missing)
  ++ Call(pvSetters.WithNFS, Arg(getNFSServerAddress(o)))

-----------------------------------------------------------------------------
(* The specification *)

Idle == [pc |-> "idle"]
At(v, pc) == attempt[v].pc = pc
Proceed(v, pc, o) ==
  attempt' = [attempt EXCEPT ![v] = [pc |-> pc, opts |-> o, read |-> @.read]]
ReturnError(v) == attempt' = [attempt EXCEPT ![v] = Idle]

Init ==
  /\ class \in ClassConfigs /\ claim \in [Volumes -> ClaimConfigs]
  /\ image \in Images
  /\ attempt = [v \in Volumes |-> Idle]
  /\ bpvc = [v \in Volumes |-> Absent] /\ dep = [v \in Volumes |-> Absent]
  /\ svc = [v \in Volumes |-> Absent] /\ pv = [v \in Volumes |-> Absent]
  /\ read = [v \in Volumes |-> Absent]
  /\ edits = 0

\* Users change the annotations at any time.
EditClass(c) ==
  /\ edits < MaxEdits /\ edits' = edits + 1
  /\ class' = c
  /\ UNCHANGED <<claim, image, attempt, bpvc, dep, svc, pv, read>>
EditClaim(v, c) ==
  /\ edits < MaxEdits /\ edits' = edits + 1
  /\ claim' = [claim EXCEPT ![v] = c]
  /\ UNCHANGED <<class, image, attempt, bpvc, dep, svc, pv, read>>

\* The controller hands Provision the claim as it is now.
Provision(v) ==
  /\ At(v, "idle") /\ ~Exists(pv[v])
  /\ attempt' = [attempt EXCEPT ![v] = [pc |-> "config", claim |-> claim[v]]]
  /\ UNCHANGED <<class, claim, image, bpvc, dep, svc, pv, read, edits>>

\* The StorageClass is read, both annotations are turned into options; a request
\* that is not valid changes nothing.
ReadConfig(v) ==
  LET cl == attempt[v].claim
      c  == GetVolumeConfig(class, cl)
      valid == cl.ok /\ class.ok /\ OptionsValid(c)
  IN  /\ At(v, "config")
      /\ attempt' = [attempt EXCEPT ![v] =
           IF ~valid THEN Idle
           ELSE [pc |-> "bpvc", opts |-> KernelNFSServerOptions(c),
                 read |-> [class |-> class.config, claim |-> cl.config]]]
      /\ UNCHANGED <<class, claim, image, bpvc, dep, svc, pv, read, edits>>

\* The attempt ends early: a failed call, the timeout, a crash.
Abort(v) ==
  /\ ~At(v, "idle")
  /\ ReturnError(v)
  /\ UNCHANGED <<class, claim, image, bpvc, dep, svc, pv, read, edits>>

\* One create step: what exists is kept and its name noted, what does not is
\* built, or the error of the builder returned.
Create(v, objects, built, next, o) ==
  \/ /\ Exists(objects[v])
     /\ objects' = objects /\ Proceed(v, next, o)
  \/ /\ ~Exists(objects[v]) /\ built.given
     /\ objects' = [objects EXCEPT ![v] = built.val] /\ Proceed(v, next, o)
  \/ /\ ~Exists(objects[v]) /\ ~built.given
     /\ objects' = objects /\ ReturnError(v)

CreateBackendPVC(v) ==
  LET o == attempt[v].opts
  IN  /\ At(v, "bpvc")
      /\ Create(v, bpvc, Build(BackendPVC(v, o)), "dep",
                NameBackendPVC(o, v))
      /\ UNCHANGED <<class, claim, image, dep, svc, pv, read, edits>>

\* History: which annotations a new Deployment was made from.
NoteRead(v) ==
  read' = IF Exists(dep[v]) \/ ~Exists(dep'[v]) THEN read
          ELSE [read EXCEPT ![v] = attempt[v].read]

\* Mutant: the name is noted only by the attempt that creates the Deployment.
CreateDeploymentUnnamed(v) ==
  LET o == attempt[v].opts
  IN  /\ At(v, "dep")
      /\ Create(v, dep, Build(Deployment(v, o, image)), "svc",
                IF Exists(dep[v]) THEN o ELSE NameDeployment(o, v))
      /\ NoteRead(v)
      /\ UNCHANGED <<class, claim, image, bpvc, svc, pv, edits>>

CreateDeployment(v) ==
  LET o == attempt[v].opts
  IN  /\ At(v, "dep")
      /\ Create(v, dep, Build(Deployment(v, o, image)), "svc", NameDeployment(o, v))
      /\ NoteRead(v)
      /\ UNCHANGED <<class, claim, image, bpvc, svc, pv, edits>>

\* Mutant: the attempt goes on to no step there is.
CreateServiceLast(v) ==
  LET o == attempt[v].opts
  IN  /\ At(v, "svc")
      /\ Create(v, svc, Build(Service(v, o)), "done", NameService(o, v))
      /\ UNCHANGED <<class, claim, image, bpvc, dep, pv, read, edits>>

\* Mutant: the name is noted only by the attempt that creates the Service.
CreateServiceUnnamed(v) ==
  LET o == attempt[v].opts
  IN  /\ At(v, "svc")
      /\ Create(v, svc, Build(Service(v, o)), "pv",
                IF Exists(svc[v]) THEN o ELSE NameService(o, v))
      /\ UNCHANGED <<class, claim, image, bpvc, dep, pv, read, edits>>

CreateService(v) ==
  LET o == attempt[v].opts
  IN  /\ At(v, "svc")
      /\ Create(v, svc, Build(Service(v, o)), "pv", NameService(o, v))
      /\ UNCHANGED <<class, claim, image, bpvc, dep, pv, read, edits>>

\* Provision returns the PV, which points at the Service.
ReturnPV(v) ==
  LET built == Build(NFSPV(v, attempt[v].opts))
  IN  /\ At(v, "pv") /\ built.given
      /\ pv' = [pv EXCEPT ![v] = built.val]
      /\ attempt' = [attempt EXCEPT ![v] = Idle]
      /\ UNCHANGED <<class, claim, image, bpvc, dep, svc, read, edits>>

Next ==
  \/ \E c \in ClassConfigs : EditClass(c)
  \/ \E v \in Volumes :
       \/ \E c \in ClaimConfigs : EditClaim(v, c)
       \/ Provision(v) \/ ReadConfig(v) \/ Abort(v)
       \/ CreateBackendPVC(v) \/ CreateDeployment(v) \/ CreateService(v)
       \/ ReturnPV(v)

Spec == Init /\ [][Next]_vars

-----------------------------------------------------------------------------
(* Properties *)

TypeOK ==
  /\ class \in ClassConfigs /\ claim \in [Volumes -> ClaimConfigs]
  /\ image \in Images /\ edits \in 0 .. MaxEdits
  /\ \A v \in Volumes :
       /\ attempt[v].pc \in {"idle", "config", "bpvc", "dep", "svc", "pv"}
       /\ \A o \in {bpvc[v], dep[v], svc[v], pv[v]} : Exists(o) => o.name = v

Selects(selector, labels) ==
  \A k \in DOMAIN selector : k \in DOMAIN labels /\ labels[k] = selector[k]

\* A PV leads to its own NFS server and to no other: its address is that of its
\* Service, which selects the pods of its Deployment alone, and these mount its
\* own backend PVC, also when the objects come from different attempts
\* (getNFSServerAddress, createService, createDeployment).
PVReachesOwnServer ==
  \A v \in Volumes : Exists(pv[v]) =>
    /\ Exists(bpvc[v]) /\ Exists(dep[v]) /\ Exists(svc[v])
    /\ pv[v].source = [service |-> svc[v].name, namespace |-> svc[v].namespace]
    /\ dep[v].template.volumes[1].source = bpvc[v].name
    /\ \A w \in Volumes : Exists(dep[w]) =>
         (Selects(svc[v].selector, dep[w].template.labels) <=> w = v)

Env(v) == dep[v].template.containers[1].env

\* What the annotations r ask for: "SC config will have precedence over PVC
\* config, if both have the same keys".
AskedEntry(r, key) ==
  IF key \in DOMAIN r.class THEN r.class[key]
  ELSE IF key \in DOMAIN r.claim THEN r.claim[key]
  ELSE [value |-> "", data |-> <<>>]
Asked(r, key) == AskedEntry(r, key).value
AskedPermission(r, k) ==
  LET data == AskedEntry(r, "FilePermissions").data
  IN  IF k \in DOMAIN data THEN data[k] ELSE ""

\* t seconds are what the annotations r ask for under key.
TimeAsked(t, r, key) ==
  LET s == Asked(r, key)
  IN  /\ (t = 0) <=> (s # "" /\ ~IsNumber(s))
      /\ t # 0 => t = IF s = "" THEN 90
                      ELSE IF Numerals[s] = 0 THEN 90 ELSE Numerals[s]

\* A server runs with the settings that the annotations asked for when its
\* attempt read them: later edits and later attempts do not mix in, and nothing
\* of a claim's entry survives beside the StorageClass's entry of that name
\* (GetVolumeConfig, getData, createDeployment).  A time is the one asked for; 0
\* and nothing mean 90, and 0 is what becomes of a value that is no number.
SettingsAsRead ==
  \A v \in Volumes : Exists(dep[v]) =>
    /\ Env(v).FILEPERMISSIONS_UID = AskedPermission(read[v], "UID")
    /\ Env(v).FILEPERMISSIONS_GID = AskedPermission(read[v], "GID")
    /\ Env(v).FILEPERMISSIONS_MODE = AskedPermission(read[v], "mode")
    /\ Env(v).CUSTOM_EXPORTS_CONFIG = Asked(read[v], "CustomServerConfig")
    /\ TimeAsked(Env(v).NFS_LEASE_TIME, read[v], "LeaseTime")
    /\ TimeAsked(Env(v).NFS_GRACE_TIME, read[v], "GraceTime")

\* The group of a share is set in one way: no server has both an fsGroup and a
\* GID or mode of FilePermissions, whichever annotation each came from (FSGID
\* "cannot be used along with FilePermission data keys 'GID' and/or 'mode'").
OneGroupMechanism ==
  \A v \in Volumes : Exists(dep[v]) /\ dep[v].template.securityContext # "" =>
    Env(v).FILEPERMISSIONS_GID = "" /\ Env(v).FILEPERMISSIONS_MODE = ""

\* An argument refused anywhere in the nested builders stops the Deployment: none
\* is created without an image, an exported volume or a claim behind it.
DeploymentsComplete ==
  \A v \in Volumes : Exists(dep[v]) =>
    /\ "image" \in DOMAIN dep[v].template.containers[1]
    /\ dep[v].template.volumes[1].source \in Volumes
    /\ dep[v].selector = dep[v].template.labels

-----------------------------------------------------------------------------
(* The inductive invariant *)

\* The configuration that the annotations r make, and the options read from it,
\* as they are after each create step.
ConfigRead(r) == MergeConfig(r.class, MergeConfig(r.claim, defaultConfig))
OptionsRead(r) == KernelNFSServerOptions(ConfigRead(r))
ClaimNamed(v, r) == NameBackendPVC(OptionsRead(r), v)
DeploymentNamed(v, r) == NameDeployment(ClaimNamed(v, r), v)
ServiceNamed(v, r) == NameService(DeploymentNamed(v, r), v)

\* An attempt works with the options of the annotations it read, which were valid.
OptionsAsRead ==
  \A v \in Volumes :
    LET a == attempt[v]
    IN  /\ a.pc \in {"bpvc", "dep", "svc", "pv"} => OptionsValid(ConfigRead(a.read))
        /\ a.pc = "bpvc" => a.opts = OptionsRead(a.read)
        /\ a.pc = "dep" => a.opts = ClaimNamed(v, a.read)
        /\ a.pc = "svc" => a.opts = DeploymentNamed(v, a.read)
        /\ a.pc = "pv" => a.opts = ServiceNamed(v, a.read)

\* What an attempt or a PV has left behind exists.
StepsDone ==
  \A v \in Volumes :
    /\ At(v, "dep") \/ At(v, "svc") \/ At(v, "pv") \/ Exists(pv[v]) => Exists(bpvc[v])
    /\ At(v, "svc") \/ At(v, "pv") \/ Exists(pv[v]) => Exists(dep[v])
    /\ At(v, "pv") \/ Exists(pv[v]) => Exists(svc[v])

\* A Deployment and a Service are what the builders make of the annotations that
\* the attempt behind the Deployment read, and of the names of the steps before.
DeploymentsAsBuilt ==
  \A v \in Volumes : Exists(dep[v]) =>
    /\ OptionsValid(ConfigRead(read[v]))
    /\ Build(Deployment(v, ClaimNamed(v, read[v]), image)) =
         [given |-> TRUE, val |-> dep[v]]
ServicesAsBuilt ==
  \A v \in Volumes : Exists(svc[v]) =>
    svc[v].selector = ServerLabel(v) /\ svc[v].namespace = ServerNamespace

\* A PV has the address of the Service of its volume.
PVsAsBuilt ==
  \A v \in Volumes : Exists(pv[v]) =>
    pv[v].source = [service |-> v, namespace |-> ServerNamespace]

\* Every volume has its entry.
Domains ==
  /\ DOMAIN attempt = Volumes /\ DOMAIN bpvc = Volumes /\ DOMAIN dep = Volumes
  /\ DOMAIN svc = Volumes /\ DOMAIN pv = Volumes /\ DOMAIN read = Volumes

Inv ==
  /\ TypeOK /\ Domains /\ OptionsAsRead /\ StepsDone
  /\ DeploymentsAsBuilt /\ ServicesAsBuilt /\ PVsAsBuilt
=============================================================================
