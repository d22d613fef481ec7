------------------------- MODULE VolumeHooks_proof -------------------------
(***************************************************************************)
(* For every set of entries, every hook file and every bound on faults:    *)
(* published volumes carry the configured entries, and hooks leave alone   *)
(* what other controllers wrote.                                           *)
(***************************************************************************)
EXTENDS VolumeHooks, TLAPS

-----------------------------------------------------------------------------
(* What the hook's operators compute *)

\* A file configures no entry of another controller.
LEMMA ConfiguredOwn ==
  ASSUME file \in HookFiles, NEW h \in {NoHook, file.hooks}, NEW o \in Resources,
         NEW ev, NEW op
  PROVE  Configured(h, o, ev, op) \subseteq Entries \ Foreign
<1> SUFFICES ASSUME NEW a \in ActionsFor(h, o, ev)
             PROVE  h[a][o] \subseteq Entries \ Foreign
  BY DEF Configured
<1>1. a \in DOMAIN h /\ o \in DOMAIN h[a]
  BY DEF ActionsFor
<1>2. h # NoHook
  BY <1>1 DEF NoHook
<1>3. h = file.hooks
  BY <1>2
<1> QED BY <1>1, <1>3, HookAssumption

\* Action changes entries of its own only.
LEMMA ActionOwn ==
  ASSUME TypeOK, NEW o \in Resources, NEW ev, NEW m \in SUBSET Entries,
         NEW n \in Action(o, ev, m)
  PROVE  /\ n \subseteq Entries
         /\ (n \ m) \cap Foreign = {} /\ (m \ n) \cap Foreign = {}
<1> DEFINE A == Configured(hook, o, ev, "addOrUpdateEntries")
           R == Configured(hook, o, ev, "removeEntries")
<1>1. A \subseteq Entries \ Foreign /\ R \subseteq Entries \ Foreign
  BY ConfiguredOwn DEF TypeOK
<1>2. n \in {(m \cup A) \ R, (m \ R) \cup A}
  BY DEF Action, hookActionAdd, hookActionRemove, AddEntries, RemoveEntries
<1> HIDE DEF A, R
<1> QED BY <1>1, <1>2

\* Action on a creation gives an object the entries the file asks for.
LEMMA ActionCreates ==
  ASSUME HookParsed, up, file.exists, NEW o \in Resources, NEW m,
         NEW n \in Action(o, "CreateVolume", m)
  PROVE  CreateEntries(o) \subseteq n
<1> DEFINE A == Configured(hook, o, "CreateVolume", "addOrUpdateEntries")
           R == Configured(hook, o, "CreateVolume", "removeEntries")
<1>1. CreateEntries(o) = A \ R
  BY DEF HookParsed, ParseHooks, CreateEntries
<1>2. n \in {(m \cup A) \ R, (m \ R) \cup A}
  BY DEF Action, hookActionAdd, hookActionRemove, AddEntries, RemoveEntries
<1> HIDE DEF A, R
<1> QED BY <1>1, <1>2

\* Where there is no action, the file asks for nothing.
LEMMA NoActionNoEntries ==
  ASSUME HookParsed, up, file.exists, NEW o \in Resources,
         ~ ActionExists(o, "CreateVolume")
  PROVE  CreateEntries(o) = {}
<1>1. ActionsFor(file.hooks, o, "CreateVolume") = {}
  BY DEF HookParsed, ParseHooks, ActionExists, availableActions, Events
<1> QED BY <1>1 DEF CreateEntries, Configured

-----------------------------------------------------------------------------
(* Types *)

ObjectsTyped ==
  /\ obj \in [Resources -> {"absent", "live", "terminating"}]
  /\ meta \in [Resources -> SUBSET Entries]

LEMMA SetObjectTyped ==
  ASSUME TypeOK, NEW o \in Resources, NEW state \in {"absent", "live", "terminating"},
         NEW m \in SUBSET Entries, SetObject(o, state, m)
  PROVE  ObjectsTyped'
BY DEF TypeOK, SetObject, Settle, ObjectsTyped

LEMMA EnsureTyped ==
  ASSUME TypeOK, NEW o \in Resources, Ensure(o) PROVE ObjectsTyped'
<1>1. CASE UNCHANGED <<obj, meta>>
  BY <1>1 DEF TypeOK, ObjectsTyped
<1>2. CASE ~ UNCHANGED <<obj, meta>>
  <2>1. PICK m \in IF ActionExists(o, "CreateVolume")
                   THEN Action(o, "CreateVolume", {}) ELSE {{}} :
          SetObject(o, "live", m)
    BY <1>2 DEF Ensure
  <2>2. m \in SUBSET Entries
    BY <2>1, ActionOwn
  <2> QED BY <2>1, <2>2, SetObjectTyped
<1> QED BY <1>1, <1>2

LEMMA DeleteObjectTyped ==
  ASSUME TypeOK, NEW o \in Resources, DeleteObject(o) PROVE ObjectsTyped'
<1>1. CASE UNCHANGED <<obj, meta>>
  BY <1>1 DEF TypeOK, ObjectsTyped
<1>2. CASE SetObject(o, "terminating", meta[o])
  <2>1. meta[o] \in SUBSET Entries
    BY DEF TypeOK
  <2> QED BY <1>2, <2>1, SetObjectTyped
<1> QED BY <1>1, <1>2 DEF DeleteObject

LEMMA HookGetTyped ==
  ASSUME TypeOK, NEW a \in Activities, NEW o \in Resources, NEW ev, HookGet(a, o, ev)
  PROVE  patch' \in [Activities -> [add : SUBSET Entries, remove : SUBSET Entries]]
<1>1. meta[o] \in SUBSET Entries
  BY DEF TypeOK
<1>2. PICK m \in Action(o, ev, meta[o]) :
        patch' = [patch EXCEPT ![a] = GetPatchData(meta[o], m)]
  BY DEF HookGet
<1>3. m \subseteq Entries
  BY <1>1, ActionOwn
<1>4. GetPatchData(meta[o], m) \in [add : SUBSET Entries, remove : SUBSET Entries]
  BY <1>1, <1>3 DEF GetPatchData
<1> QED BY <1>2, <1>4 DEF TypeOK

LEMMA HookPatchTyped ==
  ASSUME TypeOK, NEW a \in Activities, NEW o \in Resources, HookPatch(a, o)
  PROVE  /\ ObjectsTyped'
         /\ patch' \in [Activities -> [add : SUBSET Entries, remove : SUBSET Entries]]
<1>1. (meta[o] \cup patch[a].add) \ patch[a].remove \in SUBSET Entries
  BY DEF TypeOK
<1>2. obj[o] \in {"absent", "live", "terminating"}
  BY DEF TypeOK
<1>3. ObjectsTyped'
  BY <1>1, <1>2, SetObjectTyped DEF HookPatch
<1> QED BY <1>3 DEF TypeOK, HookPatch, NoPatch

LEMMA RemovalTyped ==
  ASSUME NEW c \in Callers, NEW o \in Resources
  PROVE  /\ AfterRemoval(c, o) \in RmAt \cup {RmIdle}
         /\ Begin(c, o) \in RmAt /\ AfterHook(c, o) \in RmAt
BY DEF AfterRemoval, Begin, AfterHook, At, RmAt, Resources

LEMMA FaultCounted ==
  ASSUME TypeOK, Fault \/ faults' = faults
  PROVE  faults' \in 0 .. MaxFaults
BY HookAssumption DEF TypeOK, Fault

\* The Next relation, one case per action.
LEMMA Actions ==
  ASSUME [Next]_vars
  PROVE  \/ UNCHANGED vars \/ Start \/ Crash
         \/ Provision \/ CreateBackendPVC \/ CreateDeployment \/ WaitForPvcBound
         \/ GetBackendPV \/ PatchBackendPV \/ CreateService \/ StorePV
         \/ ProvisionCallFails \/ ProvisionHookFails
         \/ Delete \/ CleanUpStalePvc \/ GetForHook \/ PatchForHook
         \/ RemovalHookFails
         \/ (\E c \in Callers : Lookup(c)) \/ (\E c \in Callers : DeleteCall(c))
         \/ (\E c \in Callers : RemovalCallFails(c))
         \/ UserCreateClaim \/ UserDeleteClaim \/ BindBackendPVC \/ ReclaimBackendPV
         \/ (\E o \in Protected, e \in Foreign : ForeignAdd(o, e))
         \/ (\E o \in Protected, e \in Foreign : ForeignRelease(o, e))
BY DEF Next, ProvisionerStep, ClusterStep

\* A removal stands at an object, and only Delete's runs hooks.
LEMMA RemovalAt ==
  ASSUME TypeOK, NEW c \in Callers, rm[c].step \in {"look", "get", "patch", "delete"}
  PROVE  rm[c].on \in Resources
BY DEF TypeOK, RmAt, RmIdle

LEMMA HooksType ==
  ASSUME TypeOK, [Next]_vars PROVE TypeOK'
<1> DEFINE Patches ==
      [Activities -> [add : SUBSET Entries, remove : SUBSET Entries]]
<1> USE DEF TypeOK, ObjectsTyped
<1>0. {"provision", "delete"} = Activities /\ {"delete", "gc"} = Callers
  BY DEF Activities, Callers
<1>1. CASE UNCHANGED vars BY <1>1 DEF vars
<1>2. CASE Start BY <1>2 DEF Start
<1>3. CASE Crash
  <2>1. patch' \in Patches
    BY <1>3 DEF Crash, NoPatch
  <2> QED BY <1>3, <2>1, FaultCounted DEF Crash, ProvPC
<1>4. CASE Provision BY <1>4 DEF Provision, ProvPC
<1>5. CASE CreateBackendPVC
  BY <1>5, EnsureTyped DEF CreateBackendPVC, ProvPC, Resources
<1>6. CASE CreateDeployment
  BY <1>6, EnsureTyped DEF CreateDeployment, ProvPC, Resources
<1>7. CASE WaitForPvcBound BY <1>7 DEF WaitForPvcBound, ProvPC
<1>8. CASE GetBackendPV
  BY <1>0, <1>8, HookGetTyped DEF GetBackendPV, ProvPC, Resources
<1>9. CASE PatchBackendPV
  BY <1>0, <1>9, HookPatchTyped DEF PatchBackendPV, ProvPC, Resources
<1>10. CASE CreateService
  BY <1>10, EnsureTyped DEF CreateService, ProvPC, Resources
<1>11. CASE StorePV
  BY <1>11, EnsureTyped DEF StorePV, ProvPC, Resources
<1>12. ASSUME ProvisionAborts, faults' \in 0 .. MaxFaults PROVE TypeOK'
  <2>1. patch' \in Patches
    BY <1>12 DEF ProvisionAborts, NoPatch
  <2> QED BY <1>12, <2>1 DEF ProvisionAborts, ProvPC
<1>13. CASE ProvisionCallFails
  BY <1>12, <1>13, FaultCounted DEF ProvisionCallFails
<1>14. CASE ProvisionHookFails
  BY <1>12, <1>14, FaultCounted DEF ProvisionHookFails
<1>15. CASE Delete
  <2>1. At("service", "look") \in RmAt
    BY DEF At, RmAt, Resources
  <2> QED BY <1>0, <1>15, <2>1 DEF Delete
<1>16. CASE CleanUpStalePvc
  <2>1. At("service", "look") \in RmAt
    BY DEF At, RmAt, Resources
  <2> QED BY <1>0, <1>16, <2>1 DEF CleanUpStalePvc
<1>17. CASE GetForHook
  <2> DEFINE o == rm["delete"].on
  <2>1. o \in Resources
    BY <1>0, <1>17, RemovalAt DEF GetForHook
  <2>2. patch' \in Patches
    BY <1>0, <1>17, <2>1, HookGetTyped DEF GetForHook
  <2>3. At(o, "patch") \in RmAt
    BY <2>1 DEF At, RmAt
  <2> QED BY <1>0, <1>17, <2>2, <2>3 DEF GetForHook
<1>18. CASE PatchForHook
  <2> DEFINE o == rm["delete"].on
  <2>1. o \in Resources
    BY <1>0, <1>18, RemovalAt DEF PatchForHook
  <2>2. ObjectsTyped' /\ patch' \in Patches
    BY <1>0, <1>18, <2>1, HookPatchTyped DEF PatchForHook
  <2>3. AfterHook("delete", o) \in RmAt
    BY <1>0, <2>1, RemovalTyped
  <2> QED BY <1>0, <1>18, <2>2, <2>3 DEF PatchForHook
<1>19. ASSUME NEW c \in Callers, RemovalAborts(c), faults' \in 0 .. MaxFaults
       PROVE  TypeOK'
  <2>1. patch' \in Patches
    BY <1>0, <1>19 DEF RemovalAborts, NoPatch
  <2> QED BY <1>19, <2>1 DEF RemovalAborts
<1>20. CASE RemovalHookFails
  BY <1>0, <1>19, <1>20, FaultCounted DEF RemovalHookFails
<1>21. ASSUME NEW c \in Callers, Lookup(c) PROVE TypeOK'
  <2> DEFINE o == rm[c].on
  <2>1. o \in Resources
    BY <1>21, RemovalAt DEF Lookup
  <2>2. AfterRemoval(c, o) \in RmAt \cup {RmIdle} /\ Begin(c, o) \in RmAt
    BY <2>1, RemovalTyped
  <2>3. rm' \in [Callers -> RmAt \cup {RmIdle}]
    BY <1>21, <2>2 DEF Lookup
  <2>4. faults' \in 0 .. MaxFaults
    BY <1>21, FaultCounted DEF Lookup
  <2> QED BY <1>21, <2>3, <2>4 DEF Lookup
<1>22. ASSUME NEW c \in Callers, DeleteCall(c) PROVE TypeOK'
  <2>1. rm[c].on \in Resources
    BY <1>22, RemovalAt DEF DeleteCall
  <2>2. ObjectsTyped'
    BY <1>22, <2>1, DeleteObjectTyped DEF DeleteCall
  <2>3. AfterRemoval(c, rm[c].on) \in RmAt \cup {RmIdle}
    BY <2>1, RemovalTyped
  <2> QED BY <1>22, <2>2, <2>3 DEF DeleteCall
<1>23. ASSUME NEW c \in Callers, RemovalCallFails(c) PROVE TypeOK'
  BY <1>19, <1>23, FaultCounted DEF RemovalCallFails
<1>24. CASE UserCreateClaim BY <1>24 DEF UserCreateClaim
<1>25. CASE UserDeleteClaim BY <1>25 DEF UserDeleteClaim
<1>26. CASE BindBackendPVC
  BY <1>26, SetObjectTyped DEF BindBackendPVC, Resources
<1>27. CASE ReclaimBackendPV
  BY <1>27, SetObjectTyped DEF ReclaimBackendPV, Resources
<1>28. ASSUME NEW o \in Protected, NEW e \in Foreign, ForeignAdd(o, e) PROVE TypeOK'
  BY <1>28, SetObjectTyped, HookAssumption DEF ForeignAdd
<1>29. ASSUME NEW o \in Protected, NEW e \in Foreign, ForeignRelease(o, e)
       PROVE  TypeOK'
  BY <1>29, SetObjectTyped, HookAssumption DEF ForeignRelease
<1> QED
  BY <1>1, <1>2, <1>3, <1>4, <1>5, <1>6, <1>7, <1>8, <1>9, <1>10, <1>11, <1>13,
     <1>14, <1>15, <1>16, <1>17, <1>18, <1>20, <1>21, <1>22, <1>23, <1>24, <1>25,
     <1>26, <1>27, <1>28, <1>29, Actions

-----------------------------------------------------------------------------
(* The invariant *)

\* A new patch holds what Action changes, so no entry of another controller.
LEMMA HookGetOwn ==
  ASSUME TypeOK, PatchOwn, NEW a \in Activities, NEW o \in Resources, NEW ev,
         HookGet(a, o, ev)
  PROVE  PatchOwn'
<1>1. meta[o] \in SUBSET Entries
  BY DEF TypeOK
<1>2. PICK m \in Action(o, ev, meta[o]) :
        patch' = [patch EXCEPT ![a] = GetPatchData(meta[o], m)]
  BY DEF HookGet
<1>3. (m \ meta[o]) \cap Foreign = {} /\ (meta[o] \ m) \cap Foreign = {}
  BY <1>1, ActionOwn
<1> QED BY <1>2, <1>3 DEF PatchOwn, GetPatchData, TypeOK

\* The process, the order of claim and objects, and deletions.
LEMMA HooksProcess ==
  ASSUME Inv, [Next]_vars PROVE HookParsed' /\ NothingBeforeClaim' /\ DeletesReleasedOnly'
<1> USE DEF Inv, TypeOK, HookParsed, NothingBeforeClaim, DeletesReleasedOnly, ParseHooks
<1>1. CASE UNCHANGED vars
  BY <1>1 DEF vars
<1>2. CASE Start
  BY <1>2 DEF Start
<1>3. CASE Crash
  BY <1>3 DEF Crash
<1>4. CASE Provision
  BY <1>4 DEF Provision
<1>5. CASE CreateBackendPVC
  BY <1>5 DEF CreateBackendPVC, Resources
<1>6. CASE CreateDeployment
  BY <1>6 DEF CreateDeployment
<1>7. CASE WaitForPvcBound
  BY <1>7 DEF WaitForPvcBound
<1>8. CASE GetBackendPV
  BY <1>8 DEF GetBackendPV
<1>9. CASE PatchBackendPV
  BY <1>9 DEF PatchBackendPV
<1>10. CASE CreateService
  BY <1>10 DEF CreateService
<1>11. CASE StorePV
  BY <1>11 DEF StorePV
<1>12. CASE ProvisionCallFails
  BY <1>12 DEF ProvisionCallFails, ProvisionAborts
<1>13. CASE ProvisionHookFails
  BY <1>13 DEF ProvisionHookFails, ProvisionAborts
<1>14. CASE Delete
  BY <1>14 DEF Delete, Callers
<1>15. CASE CleanUpStalePvc
  BY <1>15 DEF CleanUpStalePvc, Callers, Resources
<1>16. CASE GetForHook
  BY <1>16 DEF GetForHook, Callers, At, RmIdle
<1>17. CASE PatchForHook
  BY <1>17 DEF PatchForHook, Callers, At, RmIdle, HookPatch, SetObject, Settle
<1>18. CASE RemovalHookFails
  BY <1>18 DEF RemovalHookFails, RemovalAborts, Callers
<1>19. ASSUME NEW c \in Callers, Lookup(c) PROVE HookParsed' /\ NothingBeforeClaim' /\ DeletesReleasedOnly'
  BY <1>19 DEF Lookup, RmIdle
<1>20. ASSUME NEW c \in Callers, DeleteCall(c) PROVE HookParsed' /\ NothingBeforeClaim' /\ DeletesReleasedOnly'
  BY <1>20 DEF DeleteCall, RmIdle, DeleteObject
<1>21. ASSUME NEW c \in Callers, RemovalCallFails(c) PROVE HookParsed' /\ NothingBeforeClaim' /\ DeletesReleasedOnly'
  BY <1>21 DEF RemovalCallFails, RemovalAborts
<1>22. CASE UserCreateClaim
  BY <1>22 DEF UserCreateClaim
<1>23. CASE UserDeleteClaim
  BY <1>23 DEF UserDeleteClaim
<1>24. CASE BindBackendPVC
  BY <1>24 DEF BindBackendPVC, SetObject, Settle, Resources
<1>25. CASE ReclaimBackendPV
  BY <1>25 DEF ReclaimBackendPV, SetObject, Settle, Resources
<1>26. ASSUME NEW o \in Protected, NEW e \in Foreign, ForeignAdd(o, e)
      PROVE  HookParsed' /\ NothingBeforeClaim' /\ DeletesReleasedOnly'
  BY <1>26, HookAssumption DEF ForeignAdd, SetObject, Settle
<1>27. ASSUME NEW o \in Protected, NEW e \in Foreign, ForeignRelease(o, e)
      PROVE  HookParsed' /\ NothingBeforeClaim' /\ DeletesReleasedOnly'
  BY <1>27, HookAssumption DEF ForeignRelease, SetObject, Settle
<1> QED
  BY <1>1, <1>2, <1>3, <1>4, <1>5, <1>6, <1>7, <1>8, <1>9, <1>10, <1>11,
     <1>12, <1>13, <1>14, <1>15, <1>16, <1>17, <1>18, <1>19, <1>20, <1>21,
     <1>22, <1>23, <1>24, <1>25, <1>26, <1>27, Actions

\* Patches.
LEMMA HooksPatchOwn ==
  ASSUME Inv, [Next]_vars PROVE PatchOwn'
<1> USE DEF Inv, TypeOK, PatchOwn
<1>1. CASE UNCHANGED vars
  BY <1>1 DEF vars
<1>2. CASE Start
  BY <1>2 DEF Start
<1>3. CASE Crash
  BY <1>3 DEF Crash, NoPatch
<1>4. CASE Provision
  BY <1>4 DEF Provision
<1>5. CASE CreateBackendPVC
  BY <1>5 DEF CreateBackendPVC
<1>6. CASE CreateDeployment
  BY <1>6 DEF CreateDeployment
<1>7. CASE WaitForPvcBound
  BY <1>7 DEF WaitForPvcBound
<1>8. CASE GetBackendPV
  BY <1>8, HookGetOwn DEF GetBackendPV, Activities, Resources
<1>9. CASE PatchBackendPV
  BY <1>9 DEF PatchBackendPV, HookPatch, NoPatch
<1>10. CASE CreateService
  BY <1>10 DEF CreateService
<1>11. CASE StorePV
  BY <1>11 DEF StorePV
<1>12. CASE ProvisionCallFails
  BY <1>12 DEF ProvisionCallFails, ProvisionAborts, NoPatch
<1>13. CASE ProvisionHookFails
  BY <1>13 DEF ProvisionHookFails, ProvisionAborts, NoPatch
<1>14. CASE Delete
  BY <1>14 DEF Delete
<1>15. CASE CleanUpStalePvc
  BY <1>15 DEF CleanUpStalePvc
<1>16. CASE GetForHook
  BY <1>16, HookGetOwn, RemovalAt DEF GetForHook, Activities, Callers
<1>17. CASE PatchForHook
  BY <1>17 DEF PatchForHook, HookPatch, NoPatch
<1>18. CASE RemovalHookFails
  BY <1>18 DEF RemovalHookFails, RemovalAborts, NoPatch
<1>19. ASSUME NEW c \in Callers, Lookup(c) PROVE PatchOwn'
  BY <1>19 DEF Lookup
<1>20. ASSUME NEW c \in Callers, DeleteCall(c) PROVE PatchOwn'
  BY <1>20 DEF DeleteCall
<1>21. ASSUME NEW c \in Callers, RemovalCallFails(c) PROVE PatchOwn'
  BY <1>21 DEF RemovalCallFails, RemovalAborts, NoPatch
<1>22. CASE UserCreateClaim
  BY <1>22 DEF UserCreateClaim
<1>23. CASE UserDeleteClaim
  BY <1>23 DEF UserDeleteClaim
<1>24. CASE BindBackendPVC
  BY <1>24 DEF BindBackendPVC
<1>25. CASE ReclaimBackendPV
  BY <1>25 DEF ReclaimBackendPV
<1>26. ASSUME NEW o \in Protected, NEW e \in Foreign, ForeignAdd(o, e)
      PROVE  PatchOwn'
  BY <1>26 DEF ForeignAdd
<1>27. ASSUME NEW o \in Protected, NEW e \in Foreign, ForeignRelease(o, e)
      PROVE  PatchOwn'
  BY <1>27 DEF ForeignRelease
<1> QED
  BY <1>1, <1>2, <1>3, <1>4, <1>5, <1>6, <1>7, <1>8, <1>9, <1>10, <1>11,
     <1>12, <1>13, <1>14, <1>15, <1>16, <1>17, <1>18, <1>19, <1>20, <1>21,
     <1>22, <1>23, <1>24, <1>25, <1>26, <1>27, Actions

\* A step that leaves objects, entries and the patch alone, and Provision where it
\* was or idle.
LEMMA LiveObjectsKept ==
  ASSUME LiveObjects, UNCHANGED <<file, obj, meta, patch>>,
         prov' = prov \/ prov' \in {"idle", "bpvc"}
  PROVE  LiveObjects'
BY DEF LiveObjects, Passed, CreateEntries, ProvPC, Resources

\* An object that Ensure passes is live and has its entries; the others are as
\* they were.
LEMMA EnsureLive ==
  ASSUME Inv, claim = "live", prov # "idle", NEW o \in Resources, Ensure(o)
  PROVE  /\ obj'[o] = "live"
         /\ file.exists /\ o # "backendPV" => CreateEntries(o) \subseteq meta'[o]
         /\ \A w \in Resources \ {o} : obj'[w] = obj[w] /\ meta'[w] = meta[w]
         /\ obj'["backendPV"] = obj["backendPV"] \/ o = "backendPV"
<1>0. up /\ HookParsed /\ TypeOK /\ LiveObjects
  BY DEF Inv, HookParsed
<1>1. CASE UNCHANGED <<obj, meta>> /\ obj[o] # "absent"
  BY <1>0, <1>1 DEF TypeOK, LiveObjects, Resources
<1>2. CASE obj[o] = "absent"
  <2>1. PICK m \in IF ActionExists(o, "CreateVolume")
                   THEN Action(o, "CreateVolume", {}) ELSE {{}} :
          SetObject(o, "live", m)
    BY <1>2 DEF Ensure
  <2>2. file.exists => CreateEntries(o) \subseteq m
    BY <1>0, <2>1, ActionCreates, NoActionNoEntries
  <2> QED BY <1>0, <2>1, <2>2 DEF SetObject, Settle, TypeOK, Resources
<1> QED BY <1>1, <1>2 DEF Ensure

LEMMA HooksLive ==
  ASSUME Inv, [Next]_vars, claim' = "live" PROVE LiveObjects'
<1>0. /\ TypeOK /\ (claim = "live" => LiveObjects)
      /\ \A c \in Callers : claim = "live" => rm[c] = RmIdle
      /\ prov # "idle" => up /\ HookParsed
  BY DEF Inv, DeletesReleasedOnly, HookParsed
<1>1. CASE UserCreateClaim
  BY <1>1 DEF Inv, NothingBeforeClaim, UserCreateClaim, LiveObjects, Passed, Resources
<1>2. CASE claim # "live" /\ ~ UserCreateClaim
  <2>1. claim' = claim \/ UserDeleteClaim
    BY <1>2, Actions DEF vars, Start, Crash, Provision, CreateBackendPVC,
       CreateDeployment, WaitForPvcBound, GetBackendPV, PatchBackendPV,
       CreateService, StorePV, ProvisionCallFails, ProvisionHookFails,
       ProvisionAborts, Delete, CleanUpStalePvc, GetForHook, PatchForHook,
       RemovalHookFails, RemovalAborts, Lookup, DeleteCall, RemovalCallFails,
       BindBackendPVC, ReclaimBackendPV, ForeignAdd, ForeignRelease
  <2> QED BY <1>2, <2>1 DEF UserDeleteClaim
<1>3. CASE claim = "live"
  <2>0. LiveObjects /\ \A c \in Callers : rm[c] = RmIdle
    BY <1>0, <1>3
  <2>1. CASE UNCHANGED vars
    BY <2>0, <2>1, LiveObjectsKept DEF vars
  <2>2. CASE Start
    BY <2>0, <2>2, LiveObjectsKept DEF Start
  <2>3. CASE Crash
    BY <2>0, <2>3 DEF Crash, LiveObjects, Passed, CreateEntries, Resources
  <2>4. CASE Provision
    BY <2>0, <2>4, LiveObjectsKept DEF Provision
  <2>5. CASE CreateBackendPVC
    BY <1>0, <1>3, <2>0, <2>5, EnsureLive
       DEF CreateBackendPVC, LiveObjects, Passed, CreateEntries, Resources, ProvPC
  <2>6. CASE CreateDeployment
    BY <1>0, <1>3, <2>0, <2>6, EnsureLive
       DEF CreateDeployment, LiveObjects, Passed, CreateEntries, Resources, ProvPC
  <2>7. CASE WaitForPvcBound
    BY <1>0, <2>0, <2>7, NoActionNoEntries
       DEF WaitForPvcBound, LiveObjects, Passed, CreateEntries, Resources, ProvPC,
           TypeOK
  <2>8. CASE GetBackendPV
    BY <1>0, <2>0, <2>8, ActionCreates
       DEF GetBackendPV, HookGet, GetPatchData, LiveObjects, Passed, CreateEntries,
           Resources, ProvPC, Activities, TypeOK
  <2>9. CASE PatchBackendPV
    BY <1>0, <2>0, <2>9
       DEF PatchBackendPV, HookPatch, SetObject, Settle, LiveObjects, Passed,
           CreateEntries, Resources, ProvPC, TypeOK
  <2>10. CASE CreateService
    BY <1>0, <1>3, <2>0, <2>10, EnsureLive
       DEF CreateService, LiveObjects, Passed, CreateEntries, Resources, ProvPC
  <2>11. CASE StorePV
    BY <1>0, <1>3, <2>0, <2>11, EnsureLive
       DEF StorePV, LiveObjects, Passed, CreateEntries, Resources, ProvPC
  <2>12. CASE ProvisionCallFails \/ ProvisionHookFails
    BY <2>0, <2>12
       DEF ProvisionCallFails, ProvisionHookFails, ProvisionAborts, LiveObjects,
           Passed, CreateEntries, Resources
  <2>13. CASE Delete \/ CleanUpStalePvc \/ UserDeleteClaim
    BY <1>3, <2>13 DEF Delete, CleanUpStalePvc, UserDeleteClaim
  <2>14. CASE GetForHook \/ PatchForHook
    BY <2>0, <2>14 DEF GetForHook, PatchForHook, Callers, RmIdle
  <2>15. CASE RemovalHookFails
    BY <2>0, <2>15 DEF RemovalHookFails, At, Callers, RmIdle
  <2>16. ASSUME NEW c \in Callers, Lookup(c) \/ DeleteCall(c) \/ RemovalCallFails(c)
         PROVE  FALSE
    BY <2>0, <2>16 DEF Lookup, DeleteCall, RemovalCallFails, RmIdle
  <2>17. CASE BindBackendPVC
    BY <1>0, <2>0, <2>17
       DEF BindBackendPVC, SetObject, Settle, LiveObjects, Passed, CreateEntries,
           Resources, ProvPC, TypeOK
  <2>18. CASE ReclaimBackendPV
    BY <2>0, <2>18 DEF ReclaimBackendPV, LiveObjects
  <2>19. ASSUME NEW o \in Protected, NEW e \in Foreign,
                ForeignAdd(o, e) \/ ForeignRelease(o, e)
         PROVE  LiveObjects'
    <3>1. o \in Resources /\ \A w \in Resources : e \notin CreateEntries(w)
      BY <1>0, ConfiguredOwn, HookAssumption DEF CreateEntries, TypeOK
    <3>2. UNCHANGED <<file, obj, prov, patch>>
      BY <1>0, <2>0, <2>19, <3>1
         DEF ForeignAdd, ForeignRelease, SetObject, Settle, LiveObjects, TypeOK
    <3>3. \A w \in Resources : obj[w] = "live" => meta[w] \ {e} \subseteq meta'[w]
      BY <1>0, <2>19, <3>1
         DEF ForeignAdd, ForeignRelease, SetObject, Settle, TypeOK
    <3>4. \A w \in Resources : CreateEntries(w)' = CreateEntries(w)
      BY <3>2 DEF CreateEntries
    <3>5. \A w \in Resources : Passed(w)' = Passed(w)
      BY <3>2 DEF Passed
    <3>6. {"backendPV", "nfsPV"} \subseteq Resources
      BY DEF Resources
    <3>7. (obj["nfsPV"] # "absent" \/ prov \in {"svc", "store", "patch"}) =>
            obj["backendPV"] = "live"
      BY <2>0, <3>6 DEF LiveObjects, Passed
    <3> HIDE DEF CreateEntries
    <3> QED BY <2>0, <3>1, <3>2, <3>3, <3>4, <3>5, <3>6, <3>7 DEF LiveObjects
  <2> QED
    BY <1>3, <2>1, <2>2, <2>3, <2>4, <2>5, <2>6, <2>7, <2>8, <2>9, <2>10, <2>11,
       <2>12, <2>13, <2>14, <2>15, <2>16, <2>17, <2>18, <2>19, Actions
       DEF UserCreateClaim
<1> QED BY <1>1, <1>2, <1>3

LEMMA HooksInit == Init => Inv
<1> SUFFICES ASSUME Init PROVE Inv
  OBVIOUS
<1>1. TypeOK
  <2>1. patch \in [Activities -> [add : SUBSET Entries, remove : SUBSET Entries]]
    BY DEF Init, NoPatch
  <2>2. faults \in 0 .. MaxFaults
    BY HookAssumption DEF Init
  <2> QED BY <2>1, <2>2 DEF Init, TypeOK, ProvPC
<1>2. HookParsed /\ NothingBeforeClaim /\ DeletesReleasedOnly
  BY DEF Init, HookParsed, NothingBeforeClaim, DeletesReleasedOnly
<1>3. PatchOwn
  BY DEF Init, PatchOwn, NoPatch
<1> QED BY <1>1, <1>2, <1>3 DEF Init, Inv

LEMMA HooksInv == Spec => []Inv
<1>1. ASSUME Inv, [Next]_vars PROVE Inv'
  <2>1. TypeOK'
    BY <1>1, HooksType DEF Inv
  <2>2. HookParsed' /\ NothingBeforeClaim' /\ DeletesReleasedOnly' /\ PatchOwn'
    BY <1>1, HooksProcess, HooksPatchOwn
  <2>3. claim' = "live" => LiveObjects'
    BY <1>1, HooksLive
  <2> QED BY <2>1, <2>2, <2>3 DEF Inv
<1> QED BY <1>1, HooksInit, PTL DEF Spec

\* The variables of the hooks, of their patches and of the objects keep their
\* types: entries stay entries of the file or of other controllers.
THEOREM HooksTypeCorrect == Spec => []TypeOK
<1>1. Inv => TypeOK BY DEF Inv
<1> QED BY <1>1, HooksInv, PTL

\* For every hook file, with lagging caches, crashes and a garbage collector: a
\* volume of a live claim is published only with all its objects, none of them being
\* deleted, and the configured entries on each (createBackendPVC, Action,
\* ExecuteHookOnBackendPV, initializeHook).
THEOREM PublishedVolumesHooked == Spec => []PublishedHooked
<1>1. Inv => PublishedHooked
  <2> SUFFICES ASSUME Inv, claim = "live", obj["nfsPV"] # "absent",
                      NEW o \in Resources
               PROVE  /\ obj[o] = "live"
                      /\ file.exists => CreateEntries(o) \subseteq meta[o]
    BY DEF PublishedHooked
  <2>1. obj["nfsPV"] = "live"
    BY DEF Inv, TypeOK, LiveObjects, Resources
  <2> QED BY <2>1 DEF Inv, LiveObjects, Passed, Resources
<1> QED BY <1>1, HooksInv, PTL

\* A patch computed from an old copy of an object, sent at any later time, leaves
\* the entries of other controllers as they are (GetPatchData, ExecuteHookOn...).
LEMMA HookPatchKeeps ==
  ASSUME Inv, NEW a \in Activities, NEW w \in Resources, HookPatch(a, w),
         NEW o \in Resources, obj'[o] # "absent"
  PROVE  meta'[o] \cap Foreign = meta[o] \cap Foreign
<1>1. CASE o # w
  BY <1>1 DEF Inv, TypeOK, HookPatch, SetObject
<1>2. CASE o = w
  <2>1. meta'[o] = (meta[o] \cup patch[a].add) \ patch[a].remove
    BY <1>2 DEF Inv, TypeOK, HookPatch, SetObject
  <2> QED BY <2>1 DEF Inv, PatchOwn
<1> QED BY <1>1, <1>2

LEMMA EnsureKeeps ==
  ASSUME Inv, NEW w \in Resources, Ensure(w),
         NEW o \in Resources, obj[o] # "absent"
  PROVE  meta'[o] = meta[o]
BY DEF Inv, TypeOK, Ensure, SetObject

LEMMA DeleteObjectKeeps ==
  ASSUME Inv, NEW w \in Resources, DeleteObject(w),
         NEW o \in Resources, obj'[o] # "absent"
  PROVE  meta'[o] = meta[o]
BY DEF Inv, TypeOK, DeleteObject, SetObject

\* No step of the provisioner touches an entry of another controller.
THEOREM HooksKeepForeignEntries == Spec => ForeignEntriesKept
<1> DEFINE Keeps == \A o \in Resources :
             obj[o] # "absent" /\ obj'[o] # "absent" =>
               meta'[o] \cap Foreign = meta[o] \cap Foreign
<1>1. ASSUME Inv, ProvisionerStep PROVE Keeps
  <2>0. TypeOK
    BY <1>1 DEF Inv
  <2>1. CASE UNCHANGED meta
    BY <2>1
  <2>2. CASE \E o \in Resources : Ensure(o)
    BY <1>1, <2>2, EnsureKeeps
  <2>3. CASE PatchBackendPV
    <3>1. "provision" \in Activities /\ "backendPV" \in Resources
      BY DEF Activities, Resources
    <3> QED BY <1>1, <2>3, <3>1, HookPatchKeeps DEF PatchBackendPV
  <2>4. CASE PatchForHook
    <3>1. "delete" \in Activities /\ "delete" \in Callers
      BY DEF Activities, Callers
    <3>2. rm["delete"].on \in Resources
      BY <2>0, <2>4, <3>1, RemovalAt DEF PatchForHook
    <3> QED BY <1>1, <2>4, <3>1, <3>2, HookPatchKeeps DEF PatchForHook
  <2>5. ASSUME NEW c \in Callers, DeleteCall(c) PROVE Keeps
    <3>1. rm[c].on \in Resources
      BY <2>0, <2>5, RemovalAt DEF DeleteCall
    <3> QED BY <1>1, <2>5, <3>1, DeleteObjectKeeps DEF DeleteCall
  <2>6. \/ UNCHANGED meta \/ PatchBackendPV \/ PatchForHook
        \/ \E o \in Resources : Ensure(o)
        \/ \E c \in Callers : DeleteCall(c)
    BY <1>1 DEF ProvisionerStep, Start, Crash, Provision, CreateBackendPVC,
       CreateDeployment, WaitForPvcBound, GetBackendPV, CreateService, StorePV,
       ProvisionCallFails, ProvisionHookFails, ProvisionAborts, Delete,
       CleanUpStalePvc, GetForHook, RemovalHookFails, RemovalAborts, Lookup,
       RemovalCallFails, Resources
  <2> HIDE DEF Keeps
  <2> QED BY <2>1, <2>2, <2>3, <2>4, <2>5, <2>6
<1>2. Inv => [ProvisionerStep => Keeps]_vars
  BY <1>1
<1> QED BY <1>2, HooksInv, PTL DEF ForeignEntriesKept, Spec
=============================================================================
