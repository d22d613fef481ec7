------------------------ MODULE ServerObjects_proof ------------------------
(***************************************************************************)
(* For every set of claims, every annotation of the StorageClass and of    *)
(* the claims, every image, every table of numerals and any number of      *)
(* edits: the objects of an NFS server fit together, and a server runs     *)
(* with the settings its annotations asked for.                            *)
(***************************************************************************)
EXTENDS ServerObjects, TLAPS

-----------------------------------------------------------------------------
(* Chains of builder calls: what a call sets, keeps, leaves out, refuses *)

Has(f, k, x) == k \in DOMAIN f /\ f[k] = x

LEMMA ExtendHas == 
  ASSUME NEW f, NEW k, NEW x
  PROVE /\ Has(Extend(f, k, x), k, x)
        /\ \A j, y : j # k /\ Has(f, j, y) => Has(Extend(f, k, x), j, y)
BY DEF Has, Extend

LEMMA ExtendOmits ==
  ASSUME NEW f, NEW k, NEW x, NEW j, j # k, j \notin DOMAIN f
  PROVE  j \notin DOMAIN Extend(f, k, x)
BY DEF Extend

LEMMA WithObj ==
  ASSUME NEW b, NEW c
  PROVE  /\ Sets(c) => (b ++ c).obj = Extend(b.obj, c.setter.field, Value(c, b))
         /\ ~Sets(c) => (b ++ c).obj = b.obj
BY DEF ++, With

LEMMA WithErrs ==
  ASSUME NEW b, NEW c
  PROVE  (b ++ c).errs <=> (b.errs \/ Fails(c))
BY DEF ++, With

LEMMA CallKeeps ==
  ASSUME NEW b, NEW s, NEW a, NEW k, NEW x, Has(b.obj, k, x), s.field # k
  PROVE  Has((b ++ Call(s, a)).obj, k, x)
<1>1. Call(s, a).setter = s BY DEF Call
<1>2. CASE Sets(Call(s, a)) BY <1>1, <1>2, WithObj, ExtendHas
<1>3. CASE ~Sets(Call(s, a)) BY <1>3, WithObj
<1> QED BY <1>2, <1>3

LEMMA CallSets ==
  ASSUME NEW b, NEW s, NEW a, a.given \/ s.missing = "set",
         s.how = "replace" \/ s.field \notin DOMAIN b.obj
  PROVE  Has((b ++ Call(s, a)).obj, s.field, a.val)
<1>1. Call(s, a).setter = s /\ Call(s, a).arg = a BY DEF Call
<1>2. Sets(Call(s, a)) BY <1>1 DEF Sets
<1>3. Value(Call(s, a), b) = a.val BY <1>1 DEF Value
<1> QED BY <1>1, <1>2, <1>3, WithObj, ExtendHas

LEMMA CallOmits ==
  ASSUME NEW b, NEW s, NEW a, NEW k, k \notin DOMAIN b.obj, s.field # k
  PROVE  k \notin DOMAIN (b ++ Call(s, a)).obj
<1>1. Call(s, a).setter = s BY DEF Call
<1>2. CASE Sets(Call(s, a))
  <2>1. (b ++ Call(s, a)).obj = Extend(b.obj, s.field, Value(Call(s, a), b))
    BY <1>1, <1>2, WithObj
  <2> QED BY <2>1, ExtendOmits
<1>3. CASE ~Sets(Call(s, a)) BY <1>3, WithObj
<1> QED BY <1>2, <1>3

LEMMA CallErrs ==
  ASSUME NEW b, NEW s, NEW a
  PROVE  (b ++ Call(s, a)).errs <=>
           (b.errs \/ (~a.given /\ s.missing = "error"))
<1>1. Call(s, a).setter = s /\ Call(s, a).arg = a BY DEF Call
<1> QED BY <1>1, WithErrs DEF Fails, Sets

LEMMA CallRefused ==
  ASSUME NEW b, NEW s, NEW a, ~(b ++ Call(s, a)).errs
  PROVE  ~b.errs /\ (s.missing = "error" => a.given)
BY CallErrs

-----------------------------------------------------------------------------
(* The objects the chains build *)

LEMMA ArgGiven ==
  ASSUME NEW x
  PROVE  Arg(x).given /\ Arg(x).val = x
BY DEF Arg

LEMMA StrGiven ==
  ASSUME NEW x
  PROVE  Str(x).given = (x # "") /\ Str(x).val = x
BY DEF Str

LEMMA BuildGiven ==
  ASSUME NEW b
  PROVE  Build(b).given = (~b.errs) /\ Build(b).val = b.obj
BY DEF Build

LEMMA BackendPVCName ==
  ASSUME NEW v, NEW o
  PROVE  Has(BackendPVC(v, o).obj, "name", v)
<1> DEFINE b1 == NewBuilder ++ Call(pvcSetters.WithNamespace, Arg(ServerNamespace))
           b2 == b1 ++ Call(pvcSetters.WithName, Arg(v))
           b3 == b2 ++ Call(pvcSetters.WithLabels, Arg(Over(getLabels(v), ClaimLabels(v))))
           b4 == b3 ++ Call(pvcSetters.WithCapacity, Arg("capacity"))
           b5 == b4 ++ Call(pvcSetters.WithAccessModes, Arg("RWO"))
<1>1. /\ pvcSetters.WithName.field = "name" /\ pvcSetters.WithName.how = "replace"
      /\ pvcSetters.WithLabels.field # "name"
      /\ pvcSetters.WithCapacity.field # "name"
      /\ pvcSetters.WithAccessModes.field # "name"
      /\ pvcSetters.WithStorageClass.field # "name"
  BY DEF pvcSetters, Setter
<1>2. Has(b2.obj, "name", v) BY <1>1, ArgGiven, CallSets
<1>3. Has(b3.obj, "name", v) BY <1>1, <1>2, CallKeeps
<1>4. Has(b4.obj, "name", v) BY <1>1, <1>3, CallKeeps
<1>5. Has(b5.obj, "name", v) BY <1>1, <1>4, CallKeeps
<1> QED BY <1>1, <1>5, CallKeeps DEF BackendPVC

LEMMA ServiceParts ==
  ASSUME NEW v, NEW o
  PROVE  /\ Has(Service(v, o).obj, "name", v)
         /\ Has(Service(v, o).obj, "namespace", ServerNamespace)
         /\ Has(Service(v, o).obj, "selector", ServerLabel(o.deploymentName))
<1> DEFINE b1 == NewBuilder ++ Call(serviceMetaSetters.WithNamespace, Arg(ServerNamespace))
           b2 == b1 ++ Call(serviceMetaSetters.WithName, Arg(v))
           b3 == b2 ++ Call(serviceSpecSetters.WithPorts, Arg("nfs, rpcbind"))
<1>1. /\ serviceMetaSetters.WithName.field = "name"
      /\ serviceMetaSetters.WithName.how = "replace"
      /\ serviceMetaSetters.WithNamespace.field = "namespace"
      /\ serviceMetaSetters.WithNamespace.how = "replace"
      /\ serviceSpecSetters.WithPorts.field \notin {"name", "namespace"}
      /\ serviceSpecSetters.WithSelectorsNew.field = "selector"
      /\ serviceSpecSetters.WithSelectorsNew.how = "replace"
  BY DEF serviceMetaSetters, serviceSpecSetters, Setter
<1>2. Has(b2.obj, "name", v) BY <1>1, ArgGiven, CallSets
<1>3. Has(b3.obj, "name", v) BY <1>1, <1>2, CallKeeps
<1>4. Has(Service(v, o).obj, "name", v) BY <1>1, <1>3, CallKeeps DEF Service
<1>6. Has(Service(v, o).obj, "namespace", ServerNamespace)
  <2>1. Has(b1.obj, "namespace", ServerNamespace) BY <1>1, ArgGiven, CallSets
  <2>2. Has(b2.obj, "namespace", ServerNamespace) BY <1>1, <2>1, CallKeeps
  <2>3. Has(b3.obj, "namespace", ServerNamespace) BY <1>1, <2>2, CallKeeps
  <2> QED BY <1>1, <2>3, CallKeeps DEF Service
<1> DEFINE l == ServerLabel(o.deploymentName)
<1>5. Has((b3 ++ Call(serviceSpecSetters.WithSelectorsNew, Arg(l))).obj, "selector", l)
  <2> HIDE DEF b3, l
  <2> QED BY <1>1, ArgGiven, CallSets
<1> QED BY <1>4, <1>5, <1>6 DEF Service

LEMMA NFSPVParts ==
  ASSUME NEW v, NEW o
  PROVE  /\ Has(NFSPV(v, o).obj, "name", v)
         /\ Has(NFSPV(v, o).obj, "source", getNFSServerAddress(o))
<1> DEFINE b1 == NewBuilder ++ Call(pvSetters.WithName, Arg(v))
           b2 == b1 ++ Call(pvSetters.WithLabels, Arg(PVLabels))
           b3 == b2 ++ Call(pvSetters.WithReclaimPolicy, Arg("Delete"))
           b4 == b3 ++ Call(pvSetters.WithAccessModes, Arg("RWX"))
           b5 == b4 ++ Call(pvSetters.WithCapacityQty, Arg("capacity"))
           b6 == b5 ++ Call(pvSetters.WithMountOptions, Missing)
<1>1. /\ pvSetters.WithName.field = "name" /\ pvSetters.WithName.how = "replace"
      /\ pvSetters.WithLabels.field # "name"
      /\ pvSetters.WithReclaimPolicy.field # "name"
      /\ pvSetters.WithAccessModes.field # "name"
      /\ pvSetters.WithCapacityQty.field # "name"
      /\ pvSetters.WithMountOptions.field # "name"
      /\ pvSetters.WithNFS.field = "source" /\ pvSetters.WithNFS.how = "replace"
  BY DEF pvSetters, Setter
<1>2. Has(b1.obj, "name", v) BY <1>1, ArgGiven, CallSets
<1>3. Has(b2.obj, "name", v) BY <1>1, <1>2, CallKeeps
<1>4. Has(b3.obj, "name", v) BY <1>1, <1>3, CallKeeps
<1>5. Has(b4.obj, "name", v) BY <1>1, <1>4, CallKeeps
<1>6. Has(b5.obj, "name", v) BY <1>1, <1>5, CallKeeps
<1>7. Has(b6.obj, "name", v) BY <1>1, <1>6, CallKeeps
<1>8. Has(NFSPV(v, o).obj, "name", v) BY <1>1, <1>7, CallKeeps DEF NFSPV
<1> DEFINE s == getNFSServerAddress(o)
<1>9. Has((b6 ++ Call(pvSetters.WithNFS, Arg(s))).obj, "source", s)
  <2> HIDE DEF b6, s
  <2> QED BY <1>1, ArgGiven, CallSets
<1> QED BY <1>8, <1>9 DEF NFSPV

LEMMA ContainerParts ==
  ASSUME NEW o, NEW img, ~Container(o, img).errs
  PROVE  /\ Has(Container(o, img).obj, "image", img)
         /\ Has(Container(o, img).obj, "env", EnvVars(o))
<1> DEFINE b1 == NewBuilder ++ Call(containerSetters.WithName, Arg("nfs-server"))
           b2 == b1 ++ Call(containerSetters.WithImage, Str(img))
           b3 == b2 ++ Call(containerMoreSetters.WithImagePullPolicy, Arg("IfNotPresent"))
           b4 == b3 ++ Call(containerMoreSetters.WithEnvsNew, Arg(EnvVars(o)))
           b5 == b4 ++ Call(containerMoreSetters.WithPortsNew, Arg("nfs, rpcbind"))
           b6 == b5 ++ Call(containerMoreSetters.WithPrivilegedSecurityContext, Arg(TRUE))
           b7 == b6 ++ Call(containerSetters.WithVolumeMountsNew, Arg("exports-dir"))
           b8 == b7 ++ Call(containerMoreSetters.WithResources, Arg("requests, limits"))
<1>0. Container(o, img) = b8 BY DEF Container
<1>1. /\ containerSetters.WithImage = Setter("image", "error", "replace")
      /\ containerMoreSetters.WithEnvsNew = Setter("env", "error", "replace")
      /\ containerMoreSetters.WithImagePullPolicy.field # "image"
      /\ containerMoreSetters.WithPortsNew.field \notin {"image", "env"}
      /\ containerMoreSetters.WithPrivilegedSecurityContext.field \notin {"image", "env"}
      /\ containerSetters.WithVolumeMountsNew.field \notin {"image", "env"}
      /\ containerMoreSetters.WithResources.field \notin {"image", "env"}
  BY DEF containerSetters, containerMoreSetters, Setter
<1>2. Setter("image", "error", "replace").field = "image"
      /\ Setter("image", "error", "replace").missing = "error"
      /\ Setter("image", "error", "replace").how = "replace"
      /\ Setter("env", "error", "replace").field = "env"
      /\ Setter("env", "error", "replace").how = "replace"
  BY DEF Setter
<1>3. ~b2.errs
  <2>1. ~b7.errs BY <1>0, CallRefused
  <2>2. ~b6.errs BY <2>1, CallRefused
  <2>3. ~b5.errs BY <2>2, CallRefused
  <2>4. ~b4.errs BY <2>3, CallRefused
  <2>5. ~b3.errs BY <2>4, CallRefused
  <2> QED BY <2>5, CallRefused
<1>4. Has(b8.obj, "image", img)
  <2>1. Str(img).given BY <1>1, <1>2, <1>3, CallRefused
  <2>2. Has(b2.obj, "image", Str(img).val) BY <1>1, <1>2, <2>1, CallSets
  <2>3. Has(b3.obj, "image", img) BY <1>1, <2>2, StrGiven, CallKeeps
  <2>4. Has(b4.obj, "image", img) BY <1>1, <1>2, <2>3, CallKeeps
  <2>5. Has(b5.obj, "image", img) BY <1>1, <2>4, CallKeeps
  <2>6. Has(b6.obj, "image", img) BY <1>1, <2>5, CallKeeps
  <2>7. Has(b7.obj, "image", img) BY <1>1, <2>6, CallKeeps
  <2> QED BY <1>1, <2>7, CallKeeps
<1>5. Has(b8.obj, "env", EnvVars(o))
  <2>1. Has(b4.obj, "env", EnvVars(o)) BY <1>1, <1>2, ArgGiven, CallSets
  <2>2. Has(b5.obj, "env", EnvVars(o)) BY <1>1, <2>1, CallKeeps
  <2>3. Has(b6.obj, "env", EnvVars(o)) BY <1>1, <2>2, CallKeeps
  <2>4. Has(b7.obj, "env", EnvVars(o)) BY <1>1, <2>3, CallKeeps
  <2> QED BY <1>1, <2>4, CallKeeps
<1> QED BY <1>0, <1>4, <1>5

LEMMA ExportsVolumeParts ==
  ASSUME NEW o, ~ExportsVolume(o).errs
  PROVE  /\ o.backendPvcName # ""
         /\ Has(ExportsVolume(o).obj, "source", o.backendPvcName)
<1> DEFINE b1 == NewBuilder ++ Call(volumeNameSetters.WithName, Arg("exports-dir"))
           b2 == b1 ++ Call(volumeSourceSetters.WithPVCSource, Str(o.backendPvcName))
<1>1. /\ volumeSourceSetters.WithPVCSource.field = "source"
      /\ volumeSourceSetters.WithPVCSource.missing = "error"
      /\ volumeSourceSetters.WithPVCSource.how = "replace"
  BY DEF volumeSourceSetters, Setter
<1>2. ExportsVolume(o) = b2 BY DEF ExportsVolume
<1>3. Str(o.backendPvcName).given BY <1>1, <1>2, CallRefused
<1>4. Has(b2.obj, "source", Str(o.backendPvcName).val) BY <1>1, <1>3, CallSets
<1>5. o.backendPvcName # "" BY <1>3 DEF Str
<1> QED BY <1>2, <1>4, <1>5, StrGiven

LEMMA BuildOne ==
  ASSUME NEW b
  PROVE  /\ BuildAll(<<b>>).given => ~b.errs
         /\ BuildAll(<<b>>).val[1] = b.obj
<1> DEFINE bs == <<b>>
<1>1. DOMAIN bs = {1} /\ bs[1] = b OBVIOUS
<1> HIDE DEF bs
<1>2. BuildAll(bs).given => Build(b).given BY <1>1 DEF BuildAll
<1>3. BuildAll(bs).val = [i \in DOMAIN bs |-> Build(bs[i]).val] BY DEF BuildAll
<1>4. BuildAll(bs).val[1] = Build(b).val BY <1>1, <1>3
<1> QED BY <1>2, <1>4, BuildGiven DEF bs

LEMMA PodTemplateParts ==
  ASSUME NEW v, NEW o, NEW img, ~PodTemplate(v, o, img).errs
  PROVE  /\ ~Container(o, img).errs /\ ~ExportsVolume(o).errs
         /\ Has(PodTemplate(v, o, img).obj, "labels", ServerLabels(v))
         /\ Has(PodTemplate(v, o, img).obj, "securityContext", o.fsGroup)
         /\ Has(PodTemplate(v, o, img).obj, "containers", BuildAll(<<Container(o, img)>>).val)
         /\ Has(PodTemplate(v, o, img).obj, "volumes", BuildAll(<<ExportsVolume(o)>>).val)
<1> DEFINE cs == BuildAll(<<Container(o, img)>>)
           vs == BuildAll(<<ExportsVolume(o)>>)
           rules == [given |-> MatchExpressions # <<>>, val |-> <<MatchExpressions>>]
           secret == [given |-> PullSecret # "", val |-> <<PullSecret>>]
           b1 == NewBuilder ++ Call(podMetaSetters.WithLabelsNew, Arg(ServerLabels(v)))
           b2 == b1 ++ Call(podMetaSetters.WithSecurityContext, Arg(o.fsGroup))
           b3 == b2 ++ Call(podAccountSetters.WithNodeAffinityMatchExpressions, rules)
           b4 == b3 ++ Call(podAccountSetters.WithImagePullSecret, secret)
           b5 == b4 ++ Call(podPartSetters.WithContainerBuildersNew, cs)
           b6 == b5 ++ Call(podPartSetters.WithVolumeBuilders, vs)
<1>0. PodTemplate(v, o, img) = b6 BY DEF PodTemplate
<1> HIDE DEF cs, vs, rules, secret
<1>1. /\ podMetaSetters.WithLabelsNew.field = "labels"
      /\ podMetaSetters.WithLabelsNew.how = "replace"
      /\ podMetaSetters.WithSecurityContext.field = "securityContext"
      /\ podMetaSetters.WithSecurityContext.how = "replace"
  BY DEF podMetaSetters, Setter
<1>2. /\ podAccountSetters.WithNodeAffinityMatchExpressions.field
           \notin {"labels", "securityContext", "containers", "volumes"}
      /\ podAccountSetters.WithImagePullSecret.field
           \notin {"labels", "securityContext", "containers", "volumes"}
  BY DEF podAccountSetters, Setter
<1>3. /\ podPartSetters.WithContainerBuildersNew.field = "containers"
      /\ podPartSetters.WithContainerBuildersNew.missing = "error"
      /\ podPartSetters.WithContainerBuildersNew.how = "replace"
      /\ podPartSetters.WithVolumeBuilders.field = "volumes"
      /\ podPartSetters.WithVolumeBuilders.missing = "error"
  BY DEF podPartSetters, Setter
<1>4. vs.given /\ ~b5.errs BY <1>0, <1>3, CallRefused
<1>5. cs.given BY <1>3, <1>4, CallRefused
<1>6. ~Container(o, img).errs /\ ~ExportsVolume(o).errs
  BY <1>4, <1>5, BuildOne DEF cs, vs
<1>7. Has(b6.obj, "labels", ServerLabels(v))
  <2>1. Has(b1.obj, "labels", ServerLabels(v)) BY <1>1, ArgGiven, CallSets
  <2>2. Has(b2.obj, "labels", ServerLabels(v)) BY <1>1, <2>1, CallKeeps
  <2>3. Has(b3.obj, "labels", ServerLabels(v)) BY <1>2, <2>2, CallKeeps
  <2>4. Has(b4.obj, "labels", ServerLabels(v)) BY <1>2, <2>3, CallKeeps
  <2>5. Has(b5.obj, "labels", ServerLabels(v)) BY <1>3, <2>4, CallKeeps
  <2> QED BY <1>3, <2>5, CallKeeps
<1>8. Has(b6.obj, "securityContext", o.fsGroup)
  <2>1. Has(b2.obj, "securityContext", o.fsGroup) BY <1>1, ArgGiven, CallSets
  <2>2. Has(b3.obj, "securityContext", o.fsGroup) BY <1>2, <2>1, CallKeeps
  <2>3. Has(b4.obj, "securityContext", o.fsGroup) BY <1>2, <2>2, CallKeeps
  <2>4. Has(b5.obj, "securityContext", o.fsGroup) BY <1>3, <2>3, CallKeeps
  <2> QED BY <1>3, <2>4, CallKeeps
<1>9. Has(b6.obj, "containers", cs.val)
  <2>1. Has(b5.obj, "containers", cs.val) BY <1>3, <1>5, CallSets
  <2> QED BY <1>3, <2>1, CallKeeps
\* Volumes are appended, to none.
<1>10. Has(b6.obj, "volumes", vs.val)
  <2>1. "volumes" \notin DOMAIN NewBuilder.obj BY DEF NewBuilder
  <2>2. "volumes" \notin DOMAIN b1.obj BY <1>1, <2>1, CallOmits
  <2>3. "volumes" \notin DOMAIN b2.obj BY <1>1, <2>2, CallOmits
  <2>4. "volumes" \notin DOMAIN b3.obj BY <1>2, <2>3, CallOmits
  <2>5. "volumes" \notin DOMAIN b4.obj BY <1>2, <2>4, CallOmits
  <2>6. "volumes" \notin DOMAIN b5.obj BY <1>3, <2>5, CallOmits
  <2> QED BY <1>3, <1>4, <2>6, CallSets
<1> QED BY <1>0, <1>6, <1>7, <1>8, <1>9, <1>10 DEF cs, vs

LEMMA DeploymentParts ==
  ASSUME NEW v, NEW o, NEW img, ~Deployment(v, o, img).errs
  PROVE  /\ ~PodTemplate(v, o, img).errs
         /\ Has(Deployment(v, o, img).obj, "selector", ServerLabels(v))
         /\ Has(Deployment(v, o, img).obj, "template", PodTemplate(v, o, img).obj)
<1> DEFINE t == Build(PodTemplate(v, o, img))
           b1 == NewBuilder ++ Call(deploymentMetaSetters.WithName, Arg(v))
           b2 == b1 ++ Call(deploymentMetaSetters.WithNamespace, Arg(ServerNamespace))
           b3 == b2 ++ Call(deploymentLabelSetters.WithLabelsNew, Arg(ServerLabels(v)))
           b4 == b3 ++ Call(deploymentLabelSetters.WithSelectorMatchLabelsNew,
                            Arg(ServerLabels(v)))
           b5 == b4 ++ Call(deploymentSpecSetters.WithStrategyType, Arg("Recreate"))
           b6 == b5 ++ Call(deploymentSpecSetters.WithPodTemplateSpecBuilder, t)
<1>0. Deployment(v, o, img) = b6 BY DEF Deployment
<1> HIDE DEF t
<1>1. /\ deploymentLabelSetters.WithSelectorMatchLabelsNew.field = "selector"
      /\ deploymentLabelSetters.WithSelectorMatchLabelsNew.how = "replace"
      /\ deploymentSpecSetters.WithStrategyType.field # "selector"
      /\ deploymentSpecSetters.WithPodTemplateSpecBuilder.field = "template"
      /\ deploymentSpecSetters.WithPodTemplateSpecBuilder.missing = "error"
      /\ deploymentSpecSetters.WithPodTemplateSpecBuilder.how = "replace"
  BY DEF deploymentLabelSetters, deploymentSpecSetters, Setter
<1>2. t.given BY <1>0, <1>1, CallRefused
<1>3. Has(b6.obj, "selector", ServerLabels(v))
  <2>1. Has(b4.obj, "selector", ServerLabels(v)) BY <1>1, ArgGiven, CallSets
  <2>2. Has(b5.obj, "selector", ServerLabels(v)) BY <1>1, <2>1, CallKeeps
  <2> QED BY <1>1, <2>2, CallKeeps
<1>4. Has(b6.obj, "template", t.val) BY <1>1, <1>2, CallSets
<1>5. ~PodTemplate(v, o, img).errs /\ t.val = PodTemplate(v, o, img).obj
  BY <1>2, BuildGiven DEF t
<1> QED BY <1>0, <1>3, <1>4, <1>5

LEMMA DeploymentName ==
  ASSUME NEW v, NEW o, NEW img
  PROVE  Has(Deployment(v, o, img).obj, "name", v)
<1> DEFINE b1 == NewBuilder ++ Call(deploymentMetaSetters.WithName, Arg(v))
           b2 == b1 ++ Call(deploymentMetaSetters.WithNamespace, Arg(ServerNamespace))
           b3 == b2 ++ Call(deploymentLabelSetters.WithLabelsNew, Arg(ServerLabels(v)))
           b4 == b3 ++ Call(deploymentLabelSetters.WithSelectorMatchLabelsNew,
                            Arg(ServerLabels(v)))
           b5 == b4 ++ Call(deploymentSpecSetters.WithStrategyType, Arg("Recreate"))
<1>1. /\ deploymentMetaSetters.WithName.field = "name"
      /\ deploymentMetaSetters.WithName.how = "replace"
      /\ deploymentMetaSetters.WithNamespace.field # "name"
      /\ deploymentLabelSetters.WithLabelsNew.field # "name"
      /\ deploymentLabelSetters.WithSelectorMatchLabelsNew.field # "name"
      /\ deploymentSpecSetters.WithStrategyType.field # "name"
      /\ deploymentSpecSetters.WithPodTemplateSpecBuilder.field # "name"
  BY DEF deploymentMetaSetters, deploymentLabelSetters, deploymentSpecSetters, Setter
<1>2. Has(b1.obj, "name", v) BY <1>1, ArgGiven, CallSets
<1>3. Has(b2.obj, "name", v) BY <1>1, <1>2, CallKeeps
<1>4. Has(b3.obj, "name", v) BY <1>1, <1>3, CallKeeps
<1>5. Has(b4.obj, "name", v) BY <1>1, <1>4, CallKeeps
<1>6. Has(b5.obj, "name", v) BY <1>1, <1>5, CallKeeps
<1> QED BY <1>1, <1>6, CallKeeps DEF Deployment

\* What a Deployment that is built at all consists of.
LEMMA DeploymentBuilt ==
  ASSUME NEW v, NEW o, NEW img, NEW d,
         Build(Deployment(v, o, img)) = [given |-> TRUE, val |-> d]
  PROVE  /\ d.selector = ServerLabels(v) /\ d.template.labels = ServerLabels(v)
         /\ d.template.securityContext = o.fsGroup
         /\ d.template.volumes[1].source = o.backendPvcName
         /\ "image" \in DOMAIN d.template.containers[1]
         /\ d.template.containers[1].env = EnvVars(o)
<1>1. ~Deployment(v, o, img).errs /\ d = Deployment(v, o, img).obj
  <2>1. Build(Deployment(v, o, img)).given /\ Build(Deployment(v, o, img)).val = d
    OBVIOUS
  <2> QED BY <2>1, BuildGiven
<1>2. /\ ~PodTemplate(v, o, img).errs
      /\ d.selector = ServerLabels(v) /\ d.template = PodTemplate(v, o, img).obj
  BY <1>1, DeploymentParts DEF Has
<1>3. /\ ~Container(o, img).errs /\ ~ExportsVolume(o).errs
      /\ d.template.labels = ServerLabels(v)
      /\ d.template.securityContext = o.fsGroup
      /\ d.template.containers = BuildAll(<<Container(o, img)>>).val
      /\ d.template.volumes = BuildAll(<<ExportsVolume(o)>>).val
  BY <1>2, PodTemplateParts DEF Has
<1>4. /\ d.template.containers[1] = Container(o, img).obj
      /\ d.template.volumes[1] = ExportsVolume(o).obj
  BY <1>3, BuildOne
<1>5. /\ "image" \in DOMAIN d.template.containers[1]
      /\ d.template.containers[1].env = EnvVars(o)
  BY <1>3, <1>4, ContainerParts DEF Has
<1>6. d.template.volumes[1].source = o.backendPvcName
  BY <1>3, <1>4, ExportsVolumeParts DEF Has
<1> QED BY <1>2, <1>3, <1>5, <1>6

LEMMA OptionFields ==
  ASSUME NEW v, NEW r
  PROVE  LET k == KernelNFSServerOptions(ConfigRead(r))
             o == ClaimNamed(v, r)
         IN  /\ o.backendPvcName = v /\ o.fsGroup = k.fsGroup
             /\ EnvVars(o) = EnvVars(k)
             /\ DeploymentNamed(v, r).deploymentName = v
BY DEF ClaimNamed, DeploymentNamed, NameBackendPVC, NameDeployment, OptionsRead,
       KernelNFSServerOptions, EnvVars

LEMMA ServiceField ==
  ASSUME NEW v, NEW r
  PROVE  ServiceNamed(v, r).serviceName = v
BY DEF ServiceNamed, DeploymentNamed, ClaimNamed, NameBackendPVC, NameDeployment,
       NameService, OptionsRead, KernelNFSServerOptions

-----------------------------------------------------------------------------
(* The invariant holds at first *)

LEMMA NothingYet == ~Exists(Absent)
BY DEF Exists, Absent

LEMMA ServerObjectsInit == Init => Inv
<1> SUFFICES ASSUME Init PROVE Inv
  OBVIOUS
<1>1. /\ \A v \in Volumes : attempt[v] = Idle
      /\ \A v \in Volumes : ~Exists(bpvc[v]) /\ ~Exists(dep[v]) /\ ~Exists(svc[v])
                              /\ ~Exists(pv[v])
  BY NothingYet DEF Init
<1>2. Idle.pc = "idle" BY DEF Idle
<1>3. TypeOK
  <2>1. edits \in 0 .. MaxEdits
    <3>1. edits = 0 BY DEF Init
    <3>2. MaxEdits \in Nat BY ServerObjectsAssumption
    <3> QED BY <3>1, <3>2
  <2> QED BY <1>1, <1>2, <2>1 DEF Init, TypeOK
<1>4. Domains BY DEF Init, Domains
<1>5. OptionsAsRead
  <2>1. \A v \in Volumes : attempt[v].pc = "idle" BY <1>1, <1>2
  <2> QED BY <2>1 DEF OptionsAsRead
<1>6. StepsDone BY <1>1, <1>2 DEF StepsDone, At
<1>7. DeploymentsAsBuilt BY <1>1 DEF DeploymentsAsBuilt
<1>8. ServicesAsBuilt BY <1>1 DEF ServicesAsBuilt
<1>9. PVsAsBuilt BY <1>1 DEF PVsAsBuilt
<1> QED BY <1>3, <1>4, <1>5, <1>6, <1>7, <1>8, <1>9 DEF Inv

-----------------------------------------------------------------------------
(* The steps that create nothing *)

\* A step that changes no object and moves only the attempt of v, to a state that
\* is legal there.
LEMMA AttemptMoves ==
  ASSUME Inv, NEW v \in Volumes, NEW a,
         attempt' = [attempt EXCEPT ![v] = a],
         UNCHANGED <<class, claim, image, bpvc, dep, svc, pv, read, edits>>,
         a.pc \in {"idle", "config"} \/
           (a.pc = "bpvc" /\ OptionsValid(ConfigRead(a.read)) /\ a.opts = OptionsRead(a.read))
  PROVE  Inv'
<1>1. /\ DOMAIN attempt' = Volumes /\ attempt'[v] = a
      /\ \A w \in Volumes \ {v} : attempt'[w] = attempt[w]
  BY DEF Inv, Domains
<1>2. TypeOK' BY <1>1 DEF Inv, TypeOK
<1>3. Domains' BY <1>1 DEF Inv, Domains
<1>4. OptionsAsRead'
  <2> SUFFICES ASSUME NEW w \in Volumes
               PROVE  LET x == attempt'[w]
                      IN  /\ x.pc \in {"bpvc", "dep", "svc", "pv"}
                               => OptionsValid(ConfigRead(x.read))
                          /\ x.pc = "bpvc" => x.opts = OptionsRead(x.read)
                          /\ x.pc = "dep" => x.opts = ClaimNamed(w, x.read)
                          /\ x.pc = "svc" => x.opts = DeploymentNamed(w, x.read)
                          /\ x.pc = "pv" => x.opts = ServiceNamed(w, x.read)
    BY DEF OptionsAsRead
  <2>1. CASE w = v BY <1>1, <2>1
  <2>2. CASE w # v BY <1>1, <2>2 DEF Inv, OptionsAsRead
  <2> QED BY <2>1, <2>2
<1>5. StepsDone' BY <1>1 DEF Inv, StepsDone, At
<1>6. DeploymentsAsBuilt' BY DEF Inv, DeploymentsAsBuilt
<1>7. ServicesAsBuilt' BY DEF Inv, ServicesAsBuilt
<1>8. PVsAsBuilt' BY DEF Inv, PVsAsBuilt
<1> QED BY <1>2, <1>3, <1>4, <1>5, <1>6, <1>7, <1>8 DEF Inv

LEMMA EditStep ==
  ASSUME Inv, UNCHANGED <<image, attempt, bpvc, dep, svc, pv, read>>,
         class' \in ClassConfigs, claim' \in [Volumes -> ClaimConfigs],
         edits' \in 0 .. MaxEdits
  PROVE  Inv'
<1>1. TypeOK' BY DEF Inv, TypeOK
<1>2. Domains' BY DEF Inv, Domains
<1>3. OptionsAsRead' BY DEF Inv, OptionsAsRead
<1>4. StepsDone' BY DEF Inv, StepsDone, At
<1>5. DeploymentsAsBuilt' BY DEF Inv, DeploymentsAsBuilt
<1>6. ServicesAsBuilt' BY DEF Inv, ServicesAsBuilt
<1>7. PVsAsBuilt' BY DEF Inv, PVsAsBuilt
<1> QED BY <1>1, <1>2, <1>3, <1>4, <1>5, <1>6, <1>7 DEF Inv

LEMMA EditClassStep ==
  ASSUME Inv, NEW c \in ClassConfigs, EditClass(c)
  PROVE  Inv'
<1>1. edits' \in 0 .. MaxEdits
  <2>1. edits \in 0 .. MaxEdits BY DEF Inv, TypeOK
  <2>2. edits < MaxEdits /\ edits' = edits + 1 BY DEF EditClass
  <2>3. MaxEdits \in Nat BY ServerObjectsAssumption
  <2> QED BY <2>1, <2>2, <2>3
<1> QED BY <1>1, EditStep DEF Inv, TypeOK, EditClass

LEMMA EditClaimStep ==
  ASSUME Inv, NEW v \in Volumes, NEW c \in ClaimConfigs, EditClaim(v, c)
  PROVE  Inv'
<1>1. edits' \in 0 .. MaxEdits
  <2>1. edits \in 0 .. MaxEdits BY DEF Inv, TypeOK
  <2>2. edits < MaxEdits /\ edits' = edits + 1 BY DEF EditClaim
  <2>3. MaxEdits \in Nat BY ServerObjectsAssumption
  <2> QED BY <2>1, <2>2, <2>3
<1>2. claim' \in [Volumes -> ClaimConfigs]
  BY DEF Inv, TypeOK, EditClaim
<1> QED BY <1>1, <1>2, EditStep DEF Inv, TypeOK, EditClaim

LEMMA ProvisionStep ==
  ASSUME Inv, NEW v \in Volumes, Provision(v)
  PROVE  Inv'
<1> DEFINE a == [pc |-> "config", claim |-> claim[v]]
<1>1. a.pc = "config" OBVIOUS
<1>2. attempt' = [attempt EXCEPT ![v] = a] BY DEF Provision
<1> HIDE DEF a
<1> QED BY <1>1, <1>2, AttemptMoves DEF Provision

LEMMA AbortStep ==
  ASSUME Inv, NEW v \in Volumes, Abort(v)
  PROVE  Inv'
<1>1. Idle.pc = "idle" BY DEF Idle
<1> QED BY <1>1, AttemptMoves DEF Abort, ReturnError

LEMMA ReadConfigStep ==
  ASSUME Inv, NEW v \in Volumes, ReadConfig(v)
  PROVE  Inv'
<1> DEFINE cl == attempt[v].claim
           c == GetVolumeConfig(class, cl)
           r == [class |-> class.config, claim |-> cl.config]
           a == [pc |-> "bpvc", opts |-> KernelNFSServerOptions(c), read |-> r]
<1>1. c = ConfigRead(r) BY DEF GetVolumeConfig, ConfigRead
<1>2. a.pc = "bpvc" /\ a.read = r /\ a.opts = OptionsRead(r)
  BY <1>1 DEF OptionsRead
<1>3. CASE cl.ok /\ class.ok /\ OptionsValid(c)
  <2>1. attempt' = [attempt EXCEPT ![v] = a] BY <1>3 DEF ReadConfig
  <2>2. OptionsValid(ConfigRead(r)) BY <1>1, <1>3
  <2> HIDE DEF cl, c, r, a
  <2> QED BY <1>2, <2>1, <2>2, AttemptMoves DEF ReadConfig
<1>4. CASE ~(cl.ok /\ class.ok /\ OptionsValid(c))
  <2>1. attempt' = [attempt EXCEPT ![v] = Idle] BY <1>4 DEF ReadConfig
  <2>2. Idle.pc = "idle" BY DEF Idle
  <2> QED BY <2>1, <2>2, AttemptMoves DEF ReadConfig
<1> QED BY <1>3, <1>4

-----------------------------------------------------------------------------
(* The steps that create an object *)

LEMMA CreateBackendPVCCases ==
  ASSUME Inv, NEW v \in Volumes, CreateBackendPVC(v)
  PROVE  \/ attempt' = [attempt EXCEPT ![v] = Idle] /\ bpvc' = bpvc
         \/ /\ DOMAIN attempt' = Volumes
            /\ attempt'[v].pc = "dep" /\ attempt'[v].read = attempt[v].read
            /\ attempt'[v].opts = ClaimNamed(v, attempt[v].read)
            /\ \A w \in Volumes \ {v} : attempt'[w] = attempt[w]
            /\ \/ Exists(bpvc[v]) /\ bpvc' = bpvc
               \/ /\ ~Exists(bpvc[v])
                  /\ Build(BackendPVC(v, attempt[v].opts)).given
                  /\ bpvc' = [bpvc EXCEPT ![v] = Build(BackendPVC(v, attempt[v].opts)).val]
<1> DEFINE o == attempt[v].opts
           a == [pc |-> "dep", opts |-> NameBackendPVC(o, v), read |-> attempt[v].read]
<1>1. DOMAIN attempt = Volumes BY DEF Inv, Domains
<1>2. o = OptionsRead(attempt[v].read)
  BY DEF Inv, OptionsAsRead, CreateBackendPVC, At
<1>3. CASE attempt' = [attempt EXCEPT ![v] = a]
  <2>1. /\ DOMAIN attempt' = Volumes /\ attempt'[v] = a
        /\ \A w \in Volumes \ {v} : attempt'[w] = attempt[w]
    BY <1>1, <1>3
  <2>2. /\ a.pc = "dep" /\ a.read = attempt[v].read
        /\ a.opts = ClaimNamed(v, attempt[v].read)
    BY <1>2 DEF ClaimNamed
  <2>3. attempt'[v].pc # Idle.pc BY <2>1, <2>2 DEF Idle
  <2>4. ~ReturnError(v) BY <1>1, <2>3 DEF ReturnError
  <2> HIDE DEF a
  <2> QED BY <1>2, <2>1, <2>2, <2>4 DEF CreateBackendPVC, Create
<1>4. CASE ReturnError(v)
  <2>1. attempt'[v] = Idle BY <1>1, <1>4 DEF ReturnError
  <2>2. ~Proceed(v, "dep", NameBackendPVC(o, v)) BY <1>1, <2>1 DEF Proceed, Idle
  <2> QED BY <1>4, <2>2 DEF CreateBackendPVC, Create, ReturnError
<1> QED BY <1>3, <1>4 DEF CreateBackendPVC, Create, Proceed

LEMMA CreateDeploymentCases ==
  ASSUME Inv, NEW v \in Volumes, CreateDeployment(v)
  PROVE  \/ attempt' = [attempt EXCEPT ![v] = Idle] /\ dep' = dep
         \/ /\ DOMAIN attempt' = Volumes
            /\ attempt'[v].pc = "svc" /\ attempt'[v].read = attempt[v].read
            /\ attempt'[v].opts = DeploymentNamed(v, attempt[v].read)
            /\ \A w \in Volumes \ {v} : attempt'[w] = attempt[w]
            /\ \/ Exists(dep[v]) /\ dep' = dep
               \/ /\ ~Exists(dep[v])
                  /\ Build(Deployment(v, attempt[v].opts, image)).given
                  /\ dep' = [dep EXCEPT ![v] = Build(Deployment(v, attempt[v].opts, image)).val]
<1> DEFINE o == attempt[v].opts
           a == [pc |-> "svc", opts |-> NameDeployment(o, v), read |-> attempt[v].read]
<1>1. DOMAIN attempt = Volumes BY DEF Inv, Domains
<1>2. o = ClaimNamed(v, attempt[v].read)
  BY DEF Inv, OptionsAsRead, CreateDeployment, At
<1>3. CASE attempt' = [attempt EXCEPT ![v] = a]
  <2>1. /\ DOMAIN attempt' = Volumes /\ attempt'[v] = a
        /\ \A w \in Volumes \ {v} : attempt'[w] = attempt[w]
    BY <1>1, <1>3
  <2>2. /\ a.pc = "svc" /\ a.read = attempt[v].read
        /\ a.opts = DeploymentNamed(v, attempt[v].read)
    BY <1>2 DEF DeploymentNamed
  <2>3. attempt'[v].pc # Idle.pc BY <2>1, <2>2 DEF Idle
  <2>4. ~ReturnError(v) BY <1>1, <2>3 DEF ReturnError
  <2> HIDE DEF a
  <2> QED BY <1>2, <2>1, <2>2, <2>4 DEF CreateDeployment, Create
<1>4. CASE ReturnError(v)
  <2>1. attempt'[v] = Idle BY <1>1, <1>4 DEF ReturnError
  <2>2. ~Proceed(v, "svc", NameDeployment(o, v)) BY <1>1, <2>1 DEF Proceed, Idle
  <2> QED BY <1>4, <2>2 DEF CreateDeployment, Create, ReturnError
<1> QED BY <1>3, <1>4 DEF CreateDeployment, Create, Proceed

LEMMA CreateServiceCases ==
  ASSUME Inv, NEW v \in Volumes, CreateService(v)
  PROVE  \/ attempt' = [attempt EXCEPT ![v] = Idle] /\ svc' = svc
         \/ /\ DOMAIN attempt' = Volumes
            /\ attempt'[v].pc = "pv" /\ attempt'[v].read = attempt[v].read
            /\ attempt'[v].opts = ServiceNamed(v, attempt[v].read)
            /\ \A w \in Volumes \ {v} : attempt'[w] = attempt[w]
            /\ \/ Exists(svc[v]) /\ svc' = svc
               \/ /\ ~Exists(svc[v])
                  /\ Build(Service(v, attempt[v].opts)).given
                  /\ svc' = [svc EXCEPT ![v] = Build(Service(v, attempt[v].opts)).val]
<1> DEFINE o == attempt[v].opts
           a == [pc |-> "pv", opts |-> NameService(o, v), read |-> attempt[v].read]
<1>1. DOMAIN attempt = Volumes BY DEF Inv, Domains
<1>2. o = DeploymentNamed(v, attempt[v].read)
  BY DEF Inv, OptionsAsRead, CreateService, At
<1>3. CASE attempt' = [attempt EXCEPT ![v] = a]
  <2>1. /\ DOMAIN attempt' = Volumes /\ attempt'[v] = a
        /\ \A w \in Volumes \ {v} : attempt'[w] = attempt[w]
    BY <1>1, <1>3
  <2>2. /\ a.pc = "pv" /\ a.read = attempt[v].read
        /\ a.opts = ServiceNamed(v, attempt[v].read)
    BY <1>2 DEF ServiceNamed
  <2>3. attempt'[v].pc # Idle.pc BY <2>1, <2>2 DEF Idle
  <2>4. ~ReturnError(v) BY <1>1, <2>3 DEF ReturnError
  <2> HIDE DEF a
  <2> QED BY <1>2, <2>1, <2>2, <2>4 DEF CreateService, Create
<1>4. CASE ReturnError(v)
  <2>1. attempt'[v] = Idle BY <1>1, <1>4 DEF ReturnError
  <2>2. ~Proceed(v, "pv", NameService(o, v)) BY <1>1, <2>1 DEF Proceed, Idle
  <2> QED BY <1>4, <2>2 DEF CreateService, Create, ReturnError
<1> QED BY <1>3, <1>4 DEF CreateService, Create, Proceed


LEMMA CreateBackendPVCStep ==
  ASSUME Inv, NEW v \in Volumes, CreateBackendPVC(v)
  PROVE  Inv'
<1>0. UNCHANGED <<class, claim, image, dep, svc, pv, read, edits>>
  BY DEF CreateBackendPVC
<1>1. CASE attempt' = [attempt EXCEPT ![v] = Idle] /\ bpvc' = bpvc
  <2>1. Idle.pc = "idle" BY DEF Idle
  <2> QED BY <1>0, <1>1, <2>1, AttemptMoves
<1>2. CASE /\ DOMAIN attempt' = Volumes
           /\ attempt'[v].pc = "dep" /\ attempt'[v].read = attempt[v].read
           /\ attempt'[v].opts = ClaimNamed(v, attempt[v].read)
           /\ \A w \in Volumes \ {v} : attempt'[w] = attempt[w]
           /\ \/ Exists(bpvc[v]) /\ bpvc' = bpvc
              \/ /\ ~Exists(bpvc[v])
                 /\ Build(BackendPVC(v, attempt[v].opts)).given
                 /\ bpvc' = [bpvc EXCEPT ![v] = Build(BackendPVC(v, attempt[v].opts)).val]
  <2>0. OptionsValid(ConfigRead(attempt[v].read)) /\ attempt[v].opts = OptionsRead(attempt[v].read)
    BY DEF Inv, OptionsAsRead, CreateBackendPVC, At
  <2>1. /\ DOMAIN bpvc' = Volumes /\ Exists(bpvc'[v]) /\ bpvc'[v].name = v
        /\ \A w \in Volumes \ {v} : bpvc'[w] = bpvc[w]
    <3>1. CASE Exists(bpvc[v]) /\ bpvc' = bpvc BY <3>1 DEF Inv, Domains, TypeOK
    <3>2. CASE bpvc' = [bpvc EXCEPT ![v] = Build(BackendPVC(v, attempt[v].opts)).val]
      <4>1. Exists(Build(BackendPVC(v, attempt[v].opts)).val)
            /\ Build(BackendPVC(v, attempt[v].opts)).val.name = v
        BY BuildGiven, BackendPVCName DEF Has, Exists
      <4> QED BY <3>2, <4>1 DEF Inv, Domains
    <3> QED BY <1>2, <3>1, <3>2
  <2>2. TypeOK'
    <3> SUFFICES ASSUME NEW w \in Volumes
                 PROVE  /\ attempt'[w].pc \in {"idle", "config", "bpvc", "dep", "svc", "pv"}
                        /\ \A x \in {bpvc'[w], dep'[w], svc'[w], pv'[w]} :
                             Exists(x) => x.name = w
      BY <1>0 DEF Inv, TypeOK
    <3>1. CASE w = v BY <1>0, <1>2, <2>1, <3>1 DEF Inv, TypeOK
    <3>2. CASE w # v BY <1>0, <1>2, <2>1, <3>2 DEF Inv, TypeOK
    <3> QED BY <3>1, <3>2
  <2>3. Domains' BY <1>0, <1>2, <2>1 DEF Inv, Domains
  <2>4. OptionsAsRead'
    <3> SUFFICES ASSUME NEW w \in Volumes
                 PROVE  LET x == attempt'[w]
                        IN  /\ x.pc \in {"bpvc", "dep", "svc", "pv"}
                                 => OptionsValid(ConfigRead(x.read))
                            /\ x.pc = "bpvc" => x.opts = OptionsRead(x.read)
                            /\ x.pc = "dep" => x.opts = ClaimNamed(w, x.read)
                            /\ x.pc = "svc" => x.opts = DeploymentNamed(w, x.read)
                            /\ x.pc = "pv" => x.opts = ServiceNamed(w, x.read)
      BY DEF OptionsAsRead
    <3>1. CASE w = v BY <1>2, <2>0, <3>1
    <3>2. CASE w # v BY <1>2, <3>2 DEF Inv, OptionsAsRead
    <3> QED BY <3>1, <3>2
  <2>5. StepsDone' BY <1>0, <1>2, <2>1 DEF Inv, StepsDone, At, CreateBackendPVC
  <2>6. DeploymentsAsBuilt' BY <1>0 DEF Inv, DeploymentsAsBuilt
  <2>7. ServicesAsBuilt' BY <1>0 DEF Inv, ServicesAsBuilt
  <2>9. PVsAsBuilt' BY <1>0 DEF Inv, PVsAsBuilt
  <2> QED BY <2>2, <2>3, <2>4, <2>5, <2>6, <2>7, <2>9 DEF Inv
<1> QED BY <1>1, <1>2, CreateBackendPVCCases

LEMMA CreateDeploymentStep ==
  ASSUME Inv, NEW v \in Volumes, CreateDeployment(v)
  PROVE  Inv'
<1>0. UNCHANGED <<class, claim, image, bpvc, svc, pv, edits>>
  BY DEF CreateDeployment
<1>1. CASE attempt' = [attempt EXCEPT ![v] = Idle] /\ dep' = dep
  <2>1. Idle.pc = "idle" BY DEF Idle
  <2>2. read' = read BY <1>1 DEF CreateDeployment, NoteRead
  <2> QED BY <1>0, <1>1, <2>1, <2>2, AttemptMoves
<1>2. CASE /\ DOMAIN attempt' = Volumes
           /\ attempt'[v].pc = "svc" /\ attempt'[v].read = attempt[v].read
           /\ attempt'[v].opts = DeploymentNamed(v, attempt[v].read)
           /\ \A w \in Volumes \ {v} : attempt'[w] = attempt[w]
           /\ \/ Exists(dep[v]) /\ dep' = dep
              \/ /\ ~Exists(dep[v])
                 /\ Build(Deployment(v, attempt[v].opts, image)).given
                 /\ dep' = [dep EXCEPT ![v] = Build(Deployment(v, attempt[v].opts, image)).val]
  <2>0. OptionsValid(ConfigRead(attempt[v].read)) /\ attempt[v].opts = ClaimNamed(v, attempt[v].read)
    BY DEF Inv, OptionsAsRead, CreateDeployment, At
  <2>1. /\ DOMAIN dep' = Volumes /\ Exists(dep'[v]) /\ dep'[v].name = v
        /\ \A w \in Volumes \ {v} : dep'[w] = dep[w]
    <3>1. CASE Exists(dep[v]) /\ dep' = dep BY <3>1 DEF Inv, Domains, TypeOK
    <3>2. CASE dep' = [dep EXCEPT ![v] = Build(Deployment(v, attempt[v].opts, image)).val]
      <4>1. Exists(Build(Deployment(v, attempt[v].opts, image)).val)
            /\ Build(Deployment(v, attempt[v].opts, image)).val.name = v
        BY BuildGiven, DeploymentName DEF Has, Exists
      <4> QED BY <3>2, <4>1 DEF Inv, Domains
    <3> QED BY <1>2, <3>1, <3>2
  <2>8. /\ DOMAIN read' = Volumes /\ \A w \in Volumes \ {v} : read'[w] = read[w]
        /\ read'[v] = IF Exists(dep[v]) THEN read[v] ELSE attempt[v].read
    BY <2>1 DEF Inv, Domains, CreateDeployment, NoteRead
  <2>2. TypeOK'
    <3> SUFFICES ASSUME NEW w \in Volumes
                 PROVE  /\ attempt'[w].pc \in {"idle", "config", "bpvc", "dep", "svc", "pv"}
                        /\ \A x \in {bpvc'[w], dep'[w], svc'[w], pv'[w]} :
                             Exists(x) => x.name = w
      BY <1>0 DEF Inv, TypeOK
    <3>1. CASE w = v BY <1>0, <1>2, <2>1, <3>1 DEF Inv, TypeOK
    <3>2. CASE w # v BY <1>0, <1>2, <2>1, <3>2 DEF Inv, TypeOK
    <3> QED BY <3>1, <3>2
  <2>3. Domains' BY <1>0, <1>2, <2>1, <2>8 DEF Inv, Domains
  <2>4. OptionsAsRead'
    <3> SUFFICES ASSUME NEW w \in Volumes
                 PROVE  LET x == attempt'[w]
                        IN  /\ x.pc \in {"bpvc", "dep", "svc", "pv"}
                                 => OptionsValid(ConfigRead(x.read))
                            /\ x.pc = "bpvc" => x.opts = OptionsRead(x.read)
                            /\ x.pc = "dep" => x.opts = ClaimNamed(w, x.read)
                            /\ x.pc = "svc" => x.opts = DeploymentNamed(w, x.read)
                            /\ x.pc = "pv" => x.opts = ServiceNamed(w, x.read)
      BY DEF OptionsAsRead
    <3>1. CASE w = v BY <1>2, <2>0, <3>1
    <3>2. CASE w # v BY <1>2, <3>2 DEF Inv, OptionsAsRead
    <3> QED BY <3>1, <3>2
  <2>5. StepsDone' BY <1>0, <1>2, <2>1 DEF Inv, StepsDone, At, CreateDeployment
  <2>6. DeploymentsAsBuilt' 
    <3> SUFFICES ASSUME NEW w \in Volumes, Exists(dep'[w])
                 PROVE  /\ OptionsValid(ConfigRead(read'[w]))
                        /\ Build(Deployment(w, ClaimNamed(w, read'[w]), image)) =
                             [given |-> TRUE, val |-> dep'[w]]
      BY <1>0 DEF DeploymentsAsBuilt
    <3>1. CASE w # v BY <2>1, <2>8, <3>1 DEF Inv, DeploymentsAsBuilt
    <3>2. CASE w = v /\ Exists(dep[v])
      BY <1>2, <2>8, <3>2 DEF Inv, DeploymentsAsBuilt
    <3>3. CASE w = v /\ ~Exists(dep[v])
      <4>1. Build(Deployment(v, attempt[v].opts, image)).given /\ dep'[v] = Build(Deployment(v, attempt[v].opts, image)).val
        BY <1>2, <3>3 DEF Inv, Domains
      <4>2. Build(Deployment(v, attempt[v].opts, image)) = [given |-> TRUE, val |-> dep'[v]]
        BY <4>1 DEF Build
      <4> QED BY <2>0, <2>8, <3>3, <4>2
    <3> QED BY <3>1, <3>2, <3>3
  <2>7. ServicesAsBuilt' BY <1>0 DEF Inv, ServicesAsBuilt
  <2>9. PVsAsBuilt' BY <1>0 DEF Inv, PVsAsBuilt
  <2> QED BY <2>2, <2>3, <2>4, <2>5, <2>6, <2>7, <2>9 DEF Inv
<1> QED BY <1>1, <1>2, CreateDeploymentCases

LEMMA CreateServiceStep ==
  ASSUME Inv, NEW v \in Volumes, CreateService(v)
  PROVE  Inv'
<1>0. UNCHANGED <<class, claim, image, bpvc, dep, pv, read, edits>>
  BY DEF CreateService
<1>1. CASE attempt' = [attempt EXCEPT ![v] = Idle] /\ svc' = svc
  <2>1. Idle.pc = "idle" BY DEF Idle
  <2> QED BY <1>0, <1>1, <2>1, AttemptMoves
<1>2. CASE /\ DOMAIN attempt' = Volumes
           /\ attempt'[v].pc = "pv" /\ attempt'[v].read = attempt[v].read
           /\ attempt'[v].opts = ServiceNamed(v, attempt[v].read)
           /\ \A w \in Volumes \ {v} : attempt'[w] = attempt[w]
           /\ \/ Exists(svc[v]) /\ svc' = svc
              \/ /\ ~Exists(svc[v])
                 /\ Build(Service(v, attempt[v].opts)).given
                 /\ svc' = [svc EXCEPT ![v] = Build(Service(v, attempt[v].opts)).val]
  <2>0. OptionsValid(ConfigRead(attempt[v].read)) /\ attempt[v].opts = DeploymentNamed(v, attempt[v].read)
    BY DEF Inv, OptionsAsRead, CreateService, At
  <2>1. /\ DOMAIN svc' = Volumes /\ Exists(svc'[v]) /\ svc'[v].name = v
        /\ \A w \in Volumes \ {v} : svc'[w] = svc[w]
    <3>1. CASE Exists(svc[v]) /\ svc' = svc BY <3>1 DEF Inv, Domains, TypeOK
    <3>2. CASE svc' = [svc EXCEPT ![v] = Build(Service(v, attempt[v].opts)).val]
      <4>1. Exists(Build(Service(v, attempt[v].opts)).val)
            /\ Build(Service(v, attempt[v].opts)).val.name = v
        BY BuildGiven, ServiceParts DEF Has, Exists
      <4> QED BY <3>2, <4>1 DEF Inv, Domains
    <3> QED BY <1>2, <3>1, <3>2
  <2>2. TypeOK'
    <3> SUFFICES ASSUME NEW w \in Volumes
                 PROVE  /\ attempt'[w].pc \in {"idle", "config", "bpvc", "dep", "svc", "pv"}
                        /\ \A x \in {bpvc'[w], dep'[w], svc'[w], pv'[w]} :
                             Exists(x) => x.name = w
      BY <1>0 DEF Inv, TypeOK
    <3>1. CASE w = v BY <1>0, <1>2, <2>1, <3>1 DEF Inv, TypeOK
    <3>2. CASE w # v BY <1>0, <1>2, <2>1, <3>2 DEF Inv, TypeOK
    <3> QED BY <3>1, <3>2
  <2>3. Domains' BY <1>0, <1>2, <2>1 DEF Inv, Domains
  <2>4. OptionsAsRead'
    <3> SUFFICES ASSUME NEW w \in Volumes
                 PROVE  LET x == attempt'[w]
                        IN  /\ x.pc \in {"bpvc", "dep", "svc", "pv"}
                                 => OptionsValid(ConfigRead(x.read))
                            /\ x.pc = "bpvc" => x.opts = OptionsRead(x.read)
                            /\ x.pc = "dep" => x.opts = ClaimNamed(w, x.read)
                            /\ x.pc = "svc" => x.opts = DeploymentNamed(w, x.read)
                            /\ x.pc = "pv" => x.opts = ServiceNamed(w, x.read)
      BY DEF OptionsAsRead
    <3>1. CASE w = v BY <1>2, <2>0, <3>1
    <3>2. CASE w # v BY <1>2, <3>2 DEF Inv, OptionsAsRead
    <3> QED BY <3>1, <3>2
  <2>5. StepsDone' BY <1>0, <1>2, <2>1 DEF Inv, StepsDone, At, CreateService
  <2>6. DeploymentsAsBuilt' BY <1>0 DEF Inv, DeploymentsAsBuilt
  <2>7. ServicesAsBuilt' 
    <3> SUFFICES ASSUME NEW w \in Volumes, Exists(svc'[w])
                 PROVE  svc'[w].selector = ServerLabel(w) /\ svc'[w].namespace = ServerNamespace
      BY DEF ServicesAsBuilt
    <3>1. CASE w # v \/ Exists(svc[v]) BY <1>2, <2>1, <3>1 DEF Inv, ServicesAsBuilt
    <3>2. CASE w = v /\ ~Exists(svc[v])
      <4>1. svc'[v] = Build(Service(v, attempt[v].opts)).val BY <1>2, <3>2 DEF Inv, Domains
      <4>2. /\ Build(Service(v, attempt[v].opts)).val.selector = ServerLabel(attempt[v].opts.deploymentName)
            /\ Build(Service(v, attempt[v].opts)).val.namespace = ServerNamespace
        BY BuildGiven, ServiceParts DEF Has
      <4>3. attempt[v].opts.deploymentName = v BY <2>0, OptionFields
      <4> QED BY <3>2, <4>1, <4>2, <4>3
    <3> QED BY <3>1, <3>2
  <2>9. PVsAsBuilt' BY <1>0 DEF Inv, PVsAsBuilt
  <2> QED BY <2>2, <2>3, <2>4, <2>5, <2>6, <2>7, <2>9 DEF Inv
<1> QED BY <1>1, <1>2, CreateServiceCases

LEMMA ReturnPVStep ==
  ASSUME Inv, NEW v \in Volumes, ReturnPV(v)
  PROVE  Inv'
<1> DEFINE x == Build(NFSPV(v, attempt[v].opts)).val
<1>0. UNCHANGED <<class, claim, image, bpvc, dep, svc, read, edits>> BY DEF ReturnPV
<1>1. /\ DOMAIN attempt' = Volumes /\ attempt'[v].pc = "idle"
      /\ \A w \in Volumes \ {v} : attempt'[w] = attempt[w]
  BY DEF ReturnPV, Inv, Domains, Idle
<1>2. /\ DOMAIN pv' = Volumes /\ pv'[v] = x
      /\ \A w \in Volumes \ {v} : pv'[w] = pv[w]
  BY DEF ReturnPV, Inv, Domains
<1>3. x.name = v /\ x.source = getNFSServerAddress(attempt[v].opts)
  BY BuildGiven, NFSPVParts DEF Has
<1>11. getNFSServerAddress(attempt[v].opts) = [service |-> v, namespace |-> ServerNamespace]
  <2>1. attempt[v].opts = ServiceNamed(v, attempt[v].read)
    BY DEF ReturnPV, At, Inv, OptionsAsRead
  <2>2. attempt[v].opts.serviceName = v BY <2>1, ServiceField
  <2> QED BY <2>2 DEF getNFSServerAddress
<1>4. Exists(bpvc[v]) /\ Exists(dep[v]) /\ Exists(svc[v])
  BY DEF ReturnPV, Inv, StepsDone
<1> HIDE DEF x
<1>5. TypeOK'
  <2> SUFFICES ASSUME NEW w \in Volumes
               PROVE  /\ attempt'[w].pc \in {"idle", "config", "bpvc", "dep", "svc", "pv"}
                      /\ \A y \in {bpvc'[w], dep'[w], svc'[w], pv'[w]} :
                           Exists(y) => y.name = w
    BY <1>0 DEF Inv, TypeOK
  <2>1. CASE w = v BY <1>0, <1>1, <1>2, <1>3, <2>1 DEF Inv, TypeOK
  <2>2. CASE w # v BY <1>0, <1>1, <1>2, <2>2 DEF Inv, TypeOK
  <2> QED BY <2>1, <2>2
<1>6. Domains' BY <1>0, <1>1, <1>2 DEF Inv, Domains
<1>7. OptionsAsRead'
  <2>1. \A w \in Volumes : attempt'[w].pc = "idle" \/ attempt'[w] = attempt[w]
    BY <1>1
  <2> QED BY <2>1 DEF Inv, OptionsAsRead
<1>8. StepsDone' BY <1>0, <1>1, <1>2, <1>4 DEF Inv, StepsDone, At
<1>9. DeploymentsAsBuilt' BY <1>0 DEF Inv, DeploymentsAsBuilt
<1>10. ServicesAsBuilt' BY <1>0 DEF Inv, ServicesAsBuilt
<1>12. PVsAsBuilt'
  <2> SUFFICES ASSUME NEW w \in Volumes, Exists(pv'[w])
               PROVE  pv'[w].source = [service |-> w, namespace |-> ServerNamespace]
    BY DEF PVsAsBuilt
  <2>1. CASE w = v BY <1>2, <1>3, <1>11, <2>1
  <2>2. CASE w # v BY <1>2, <2>2 DEF Inv, PVsAsBuilt
  <2> QED BY <2>1, <2>2
<1> QED BY <1>5, <1>6, <1>7, <1>8, <1>9, <1>10, <1>12 DEF Inv

LEMMA ServerObjectsInv == Spec => []Inv
<1>1. ASSUME Inv, Next PROVE Inv'
  BY <1>1, EditClassStep, EditClaimStep, ProvisionStep, ReadConfigStep, AbortStep,
     CreateBackendPVCStep, CreateDeploymentStep, CreateServiceStep, ReturnPVStep
  DEF Next
<1>2. ASSUME Inv, UNCHANGED vars PROVE Inv'
  BY <1>2, EditStep DEF vars, Inv, TypeOK
<1> QED BY <1>1, <1>2, ServerObjectsInit, PTL DEF Spec

-----------------------------------------------------------------------------
(* The settings *)

LEMMA MergedEntry ==
  ASSUME NEW r, NEW key, key # "NFSServerType"
  PROVE  /\ key \in DOMAIN ConfigRead(r) <=>
              (key \in DOMAIN r.class \/ key \in DOMAIN r.claim)
         /\ key \in DOMAIN ConfigRead(r) => ConfigRead(r)[key] = AskedEntry(r, key)
<1> DEFINE low == Over(r.claim, defaultConfig)
<1>1. DOMAIN defaultConfig = {"NFSServerType"} BY DEF defaultConfig
<1>2. /\ DOMAIN low = DOMAIN r.claim \cup DOMAIN defaultConfig
      /\ \A k \in DOMAIN r.claim : low[k] = r.claim[k]
  BY DEF Over
<1> HIDE DEF low
<1>3. /\ DOMAIN Over(r.class, low) = DOMAIN r.class \cup DOMAIN low
      /\ \A k \in DOMAIN r.class : Over(r.class, low)[k] = r.class[k]
      /\ \A k \in DOMAIN low : k \notin DOMAIN r.class => Over(r.class, low)[k] = low[k]
  BY DEF Over
<1>4. ConfigRead(r) = Over(r.class, low) BY DEF ConfigRead, MergeConfig, low
<1> QED BY <1>1, <1>2, <1>3, <1>4 DEF AskedEntry

LEMMA MergedValue ==
  ASSUME NEW r, NEW key, key # "NFSServerType"
  PROVE  getValue(ConfigRead(r), key) = Asked(r, key)
<1>1. CASE key \in DOMAIN ConfigRead(r)
  BY <1>1, MergedEntry DEF getValue, Asked
<1>2. CASE key \notin DOMAIN ConfigRead(r)
  <2>1. key \notin DOMAIN r.class /\ key \notin DOMAIN r.claim BY <1>2, MergedEntry
  <2> QED BY <1>2, <2>1 DEF getValue, Asked, AskedEntry
<1> QED BY <1>1, <1>2

LEMMA MergedPermission ==
  ASSUME NEW r, NEW k
  PROVE  getData(ConfigRead(r), "FilePermissions", k) = AskedPermission(r, k)
<1> DEFINE f == "FilePermissions"
<1>1. CASE f \in DOMAIN ConfigRead(r)
  BY <1>1, MergedEntry DEF getData, AskedPermission
<1>2. CASE f \notin DOMAIN ConfigRead(r)
  <2>1. f \notin DOMAIN r.class /\ f \notin DOMAIN r.claim BY <1>2, MergedEntry
  <2>2. AskedEntry(r, f).data = <<>> BY <2>1 DEF AskedEntry
  <2>3. k \notin DOMAIN <<>> OBVIOUS
  <2> QED BY <1>2, <2>2, <2>3 DEF getData, AskedPermission
<1> QED BY <1>1, <1>2

LEMMA TimeRead ==
  ASSUME NEW r, NEW key, key # "NFSServerType"
  PROVE  TimeAsked(Seconds(ConfigRead(r), key), r, key)
<1>1. getValue(ConfigRead(r), key) = Asked(r, key) BY MergedValue
<1>2. "" \notin DOMAIN Numerals BY ServerObjectsAssumption
<1> DEFINE t == Seconds(ConfigRead(r), key)
           s == Asked(r, key)
<1>3. CASE s = ""
  <2>1. t = 90 BY <1>1, <1>3, Zenon DEF Seconds
  <2> HIDE DEF t, s
  <2>2. t # 0 BY <2>1
  <2>3. t = IF s = "" THEN 90 ELSE IF Numerals[s] = 0 THEN 90 ELSE Numerals[s]
    BY <1>3, <2>1, Zenon
  <2>4. (t = 0) <=> (s # "" /\ ~IsNumber(s)) BY <1>3, <2>2
  <2> QED BY <2>3, <2>4, Zenon DEF TimeAsked, s, t
<1>4. CASE s # "" /\ ~IsNumber(s)
  BY <1>1, <1>4 DEF TimeAsked, Seconds
<1>5. CASE s # "" /\ IsNumber(s)
  <2>1. t = IF Numerals[s] = 0 THEN 90 ELSE Numerals[s] BY <1>1, <1>5 DEF Seconds
  <2>2. t # 0
    <3>1. CASE Numerals[s] = 0 BY <2>1, <3>1
    <3>2. CASE Numerals[s] # 0 BY <2>1, <3>2
    <3> QED BY <3>1, <3>2
  <2> HIDE DEF t, s
  <2>3. t = IF s = "" THEN 90 ELSE IF Numerals[s] = 0 THEN 90 ELSE Numerals[s]
    BY <1>5, <2>1, Zenon
  <2>4. (t = 0) <=> (s # "" /\ ~IsNumber(s)) BY <1>5, <2>2
  <2> QED BY <2>3, <2>4, Zenon DEF TimeAsked, s, t
<1> QED BY <1>3, <1>4, <1>5

\* Valid options carry a permission as it was asked for, and none beside an FSGID.
LEMMA PermissionRead ==
  ASSUME NEW c, NEW k, Permission(c, k).ok
  PROVE  /\ Permission(c, k).val = getData(c, "FilePermissions", k)
         /\ GetFSGroupID(c) # "" => Permission(c, k).val = ""
<1>1. CASE GetFSGroupID(c) = "" BY <1>1 DEF Permission
<1>2. CASE GetFSGroupID(c) # "" BY <1>2 DEF Permission
<1> QED BY <1>1, <1>2

LEMMA EnvFields ==
  ASSUME NEW o
  PROVE  /\ EnvVars(o).CUSTOM_EXPORTS_CONFIG = o.custom
         /\ EnvVars(o).NFS_LEASE_TIME = o.lease /\ EnvVars(o).NFS_GRACE_TIME = o.grace
         /\ EnvVars(o).FILEPERMISSIONS_UID = o.UID
         /\ EnvVars(o).FILEPERMISSIONS_GID = o.GID
         /\ EnvVars(o).FILEPERMISSIONS_MODE = o.mode
BY DEF EnvVars

\* A Deployment that exists, from the annotations behind it.
LEMMA DeploymentThere ==
  ASSUME Inv, NEW v \in Volumes, Exists(dep[v])
  PROVE  LET c == ConfigRead(read[v])
         IN  /\ dep[v].selector = ServerLabels(v)
             /\ dep[v].template.labels = ServerLabels(v)
             /\ dep[v].template.volumes[1].source = v
             /\ "image" \in DOMAIN dep[v].template.containers[1]
             /\ Env(v) = EnvVars(KernelNFSServerOptions(c))
             /\ dep[v].template.securityContext = GetFSGroupID(c)
             /\ Permission(c, "GID").ok /\ Permission(c, "mode").ok
<1> DEFINE r == read[v]
           c == ConfigRead(r)
           o == ClaimNamed(v, r)
<1>1. OptionsValid(c) /\ Build(Deployment(v, o, image)) = [given |-> TRUE, val |-> dep[v]]
  BY DEF Inv, DeploymentsAsBuilt
<1>2. Permission(c, "GID").ok /\ Permission(c, "mode").ok
  BY <1>1 DEF OptionsValid, GetFsGID, GetFsMode
<1>3. /\ dep[v].selector = ServerLabels(v) /\ dep[v].template.labels = ServerLabels(v)
      /\ dep[v].template.volumes[1].source = o.backendPvcName
      /\ "image" \in DOMAIN dep[v].template.containers[1]
      /\ Env(v) = EnvVars(o) /\ dep[v].template.securityContext = o.fsGroup
  BY <1>1, DeploymentBuilt DEF Env
<1>4. KernelNFSServerOptions(c).fsGroup = GetFSGroupID(c)
  BY DEF KernelNFSServerOptions
<1> QED BY <1>2, <1>3, <1>4, OptionFields

-----------------------------------------------------------------------------
(* The theorems *)

\* The annotations, the steps of the attempts and the names of the objects keep
\* their types.
THEOREM ServerObjectsTypeCorrect == Spec => []TypeOK
<1>1. Inv => TypeOK BY DEF Inv
<1> QED BY <1>1, ServerObjectsInv, PTL

\* Whatever the annotations and however often attempts stop half way and are
\* repeated after edits: a PV that Provision returned has the address of its own
\* Service, and leads to its own server and disk and to no other
\* (getNFSServerAddress, createService, createDeployment, createBackendPVC).
THEOREM PVsReachTheirServers == Spec => []PVReachesOwnServer
<1>1. ASSUME Inv PROVE PVReachesOwnServer
  <2> SUFFICES ASSUME NEW v \in Volumes, Exists(pv[v])
               PROVE  /\ Exists(bpvc[v]) /\ Exists(dep[v]) /\ Exists(svc[v])
                      /\ pv[v].source = [service |-> svc[v].name, namespace |-> svc[v].namespace]
                      /\ dep[v].template.volumes[1].source = bpvc[v].name
                      /\ \A w \in Volumes : Exists(dep[w]) =>
                           (Selects(svc[v].selector, dep[w].template.labels) <=> w = v)
    BY DEF PVReachesOwnServer
  <2>1. Exists(bpvc[v]) /\ Exists(dep[v]) /\ Exists(svc[v])
    BY <1>1 DEF Inv, StepsDone
  <2>2. dep[v].template.volumes[1].source = v
    BY <1>1, <2>1, DeploymentThere
  <2>3. bpvc[v].name = v /\ svc[v].name = v
    BY <1>1, <2>1 DEF Inv, TypeOK
  <2>5. pv[v].source = [service |-> svc[v].name, namespace |-> svc[v].namespace]
    <3>1. svc[v].namespace = ServerNamespace BY <1>1, <2>1 DEF Inv, ServicesAsBuilt
    <3> QED BY <1>1, <2>3, <3>1 DEF Inv, PVsAsBuilt
  <2>4. ASSUME NEW w \in Volumes, Exists(dep[w])
        PROVE  Selects(svc[v].selector, dep[w].template.labels) <=> w = v
    <3>1. svc[v].selector = ServerLabel(v) BY <1>1, <2>1 DEF Inv, ServicesAsBuilt
    <3>2. dep[w].template.labels = ServerLabels(w)
      BY <1>1, <2>4, DeploymentThere
    <3>3. DOMAIN ServerLabel(v) = {"nfsServer"} /\ ServerLabel(v)["nfsServer"] = v
      BY DEF ServerLabel
    <3>4. Has(ServerLabels(w), "nfsServer", w)
      BY DEF Has, ServerLabels, ServerLabel, ClaimLabels, Over
    <3> QED BY <3>1, <3>2, <3>3, <3>4 DEF Selects, Has
  <2> QED BY <2>1, <2>2, <2>3, <2>4, <2>5
<1> QED BY <1>1, ServerObjectsInv, PTL

\* A server runs with the settings its annotations asked for when its attempt read
\* them, the StorageClass's entries over the claim's, whatever entries there are
\* and whatever is edited later (GetVolumeConfig, getData, createDeployment).
THEOREM ServersRunWithSettingsRead == Spec => []SettingsAsRead
<1>1. ASSUME Inv, NEW v \in Volumes, Exists(dep[v])
      PROVE  /\ Env(v).FILEPERMISSIONS_UID = AskedPermission(read[v], "UID")
             /\ Env(v).FILEPERMISSIONS_GID = AskedPermission(read[v], "GID")
             /\ Env(v).FILEPERMISSIONS_MODE = AskedPermission(read[v], "mode")
             /\ Env(v).CUSTOM_EXPORTS_CONFIG = Asked(read[v], "CustomServerConfig")
             /\ TimeAsked(Env(v).NFS_LEASE_TIME, read[v], "LeaseTime")
             /\ TimeAsked(Env(v).NFS_GRACE_TIME, read[v], "GraceTime")
  <2> DEFINE c == ConfigRead(read[v])
             k == KernelNFSServerOptions(c)
  <2>1. Env(v) = EnvVars(k) /\ Permission(c, "GID").ok /\ Permission(c, "mode").ok
    BY <1>1, DeploymentThere
  <2>2. /\ k.custom = getValue(c, "CustomServerConfig")
        /\ k.lease = Seconds(c, "LeaseTime") /\ k.grace = Seconds(c, "GraceTime")
        /\ k.UID = getData(c, "FilePermissions", "UID")
        /\ k.GID = Permission(c, "GID").val /\ k.mode = Permission(c, "mode").val
    BY DEF KernelNFSServerOptions, GetFsGID, GetFsMode
  <2> HIDE DEF k
  <2>3. /\ Env(v).CUSTOM_EXPORTS_CONFIG = k.custom
        /\ Env(v).NFS_LEASE_TIME = k.lease /\ Env(v).NFS_GRACE_TIME = k.grace
        /\ Env(v).FILEPERMISSIONS_UID = k.UID /\ Env(v).FILEPERMISSIONS_GID = k.GID
        /\ Env(v).FILEPERMISSIONS_MODE = k.mode
    BY <2>1, EnvFields
  <2>4. k.GID = AskedPermission(read[v], "GID") /\ k.mode = AskedPermission(read[v], "mode")
    <3>1. /\ Permission(c, "GID").val = getData(c, "FilePermissions", "GID")
          /\ Permission(c, "mode").val = getData(c, "FilePermissions", "mode")
      BY <2>1, PermissionRead
    <3> QED BY <2>2, <3>1, MergedPermission
  <2>5. k.UID = AskedPermission(read[v], "UID")
    BY <2>2, MergedPermission
  <2>6. k.custom = Asked(read[v], "CustomServerConfig")
    BY <2>2, MergedValue
  <2>7. TimeAsked(k.lease, read[v], "LeaseTime") /\ TimeAsked(k.grace, read[v], "GraceTime")
    BY <2>2, TimeRead
  <2> QED BY <2>3, <2>4, <2>5, <2>6, <2>7
<1>2. Inv => SettingsAsRead BY <1>1 DEF SettingsAsRead
<1> QED BY <1>2, ServerObjectsInv, PTL

\* No server gets its group in two ways, whichever annotation FSGID, GID and mode
\* come from (GetFSGroupID, GetFsGID, GetFsMode).
THEOREM GroupsSetInOneWay == Spec => []OneGroupMechanism
<1>1. ASSUME Inv, NEW v \in Volumes, Exists(dep[v]),
             dep[v].template.securityContext # ""
      PROVE  Env(v).FILEPERMISSIONS_GID = "" /\ Env(v).FILEPERMISSIONS_MODE = ""
  <2> DEFINE c == ConfigRead(read[v])
             k == KernelNFSServerOptions(c)
  <2>1. /\ Env(v) = EnvVars(k) /\ GetFSGroupID(c) # ""
        /\ Permission(c, "GID").ok /\ Permission(c, "mode").ok
    BY <1>1, DeploymentThere
  <2>2. k.GID = Permission(c, "GID").val /\ k.mode = Permission(c, "mode").val
    BY DEF KernelNFSServerOptions, GetFsGID, GetFsMode
  <2> HIDE DEF k
  <2>3. Env(v).FILEPERMISSIONS_GID = k.GID /\ Env(v).FILEPERMISSIONS_MODE = k.mode
    BY <2>1, EnvFields
  <2> QED BY <2>1, <2>2, <2>3, PermissionRead
<1>2. Inv => OneGroupMechanism BY <1>1 DEF OneGroupMechanism
<1> QED BY <1>2, ServerObjectsInv, PTL

\* An argument refused anywhere in the nested builders stops the Deployment: each
\* that exists has an image, a volume that exports a claim, and a selector that
\* matches its own pods (Build, WithContainerBuildersNew, WithVolumeBuilders).
THEOREM DeploymentsAreComplete == Spec => []DeploymentsComplete
<1>1. ASSUME Inv, NEW v \in Volumes, Exists(dep[v])
      PROVE  /\ "image" \in DOMAIN dep[v].template.containers[1]
             /\ dep[v].template.volumes[1].source \in Volumes
             /\ dep[v].selector = dep[v].template.labels
  BY <1>1, DeploymentThere
<1>2. Inv => DeploymentsComplete BY <1>1 DEF DeploymentsComplete
<1> QED BY <1>2, ServerObjectsInv, PTL
=============================================================================
