--------------------------- MODULE MCVolumeHooks ---------------------------
(* Instances of VolumeHooks for TLC. *)
EXTENDS VolumeHooks, TLC

AnEntry == {"finalizer", "annotation", "protection"}
AFinalizer == {"finalizer", "protection"}
TheForeign == {"protection"}
ClaimAndPV == {"backendPVC", "backendPV"}

OnAll(es) == [o \in Resources |-> es]
File(v, h) == [exists |-> TRUE, version |-> v, hooks |-> h]

\* The file of docs/tutorial/nfs-hook.md.
TutorialHooks ==
  "addOrUpdateEntriesOnCreateVolumeEvent" :> OnAll({"finalizer", "annotation"})
    @@ "removeEntriesOnDeleteVolumeEvent" :> OnAll({"finalizer"})

\* Actions of all four types, and a key that the code does not know.
MixedHooks ==
  "addOrUpdateEntriesOnCreateVolumeEvent" :>
      [o \in {"backendPV", "deployment"} |-> {"finalizer", "annotation"}]
    @@ "removeEntriesOnCreateVolumeEvent" :>
      [o \in {"backendPV", "service"} |-> {"annotation"}]
    @@ "addOrUpdateEntriesOnDeleteVolumeEvent" :> OnAll({"annotation"})
    @@ "removeEntriesOnDeleteVolumeEvent" :>
      [o \in {"backendPV", "deployment"} |-> {"finalizer"}]
    @@ "addEntriesOnResize" :> OnAll({"finalizer"})

\* Finalizers are added on deletion, when the objects may be going already.
LateHooks ==
  "addOrUpdateEntriesOnDeleteVolumeEvent" :> OnAll({"finalizer"})

NoFile == [exists |-> FALSE, version |-> "", hooks |-> NoHook]

AllFiles ==
  {NoFile, File("1.0.0", TutorialHooks), File("1.0.0", MixedHooks),
   File("1.0.0", LateHooks), File("2.0.0", TutorialHooks)}

TutorialFile == {File("1.0.0", TutorialHooks)}

LiveFiles == {File("1.0.0", TutorialHooks), File("1.0.0", MixedHooks)}
=============================================================================
