-------------------------- MODULE NFSServer_proof --------------------------
(***************************************************************************)
(* For every directory, every bound on faults and refusals: an export has  *)
(* its owners, and a pod whose settings are rejected never exports.        *)
(***************************************************************************)
EXTENDS NFSServer, TLAPS

LEMMA ServerInit == Init => Inv
<1> SUFFICES ASSUME Init PROVE Inv
  OBVIOUS
<1>1. TypeOK
  <2>1. tree \in [Attributes -> SUBSET Nodes]
    BY DEF Init
  <2>2. refused \in [Attributes -> SUBSET Nodes]
    BY DEF Init
  <2>3. faults \in 0 .. MaxFaults /\ errors \in 0 .. MaxErrors
    BY ServerAssumption DEF Init
  <2> QED BY <2>1, <2>2, <2>3 DEF Init, TypeOK, ScriptPC
<1>2. SkippedRefused
  BY DEF Init, SkippedRefused
<1>3. RootVouches
  BY DEF Init, RootVouches, Owners, Attributes
<1>4. BlocksPassed
  BY DEF Init, BlocksPassed, Past, Walk, Attributes, Owners
<1> QED BY <1>1, <1>2, <1>3, <1>4 DEF Inv

LEMMA Blocks ==
  \A a \in Attributes : After(a) \in ScriptPC /\ Walk(a) \in ScriptPC
BY DEF Attributes, Owners, After, Walk, ScriptPC

LEMMA FaultCounted ==
  ASSUME TypeOK, Fault \/ faults' = faults
  PROVE  faults' \in 0 .. MaxFaults
BY ServerAssumption DEF TypeOK, Fault

\* No step has the type of a variable change: the counters stay below their
\* bounds, the walks stay inside the directory, the script knows where it is.
LEMMA ServerType == TypeOK /\ [Next]_vars => TypeOK'
<1> SUFFICES ASSUME TypeOK, [Next]_vars PROVE TypeOK'
  OBVIOUS
<1> USE DEF TypeOK, ScriptPC, Go, Exit, Undisturbed
<1>1. CASE StartContainer BY <1>1 DEF StartContainer
<1>2. CASE WriteExports BY <1>2 DEF WriteExports
<1>3. ASSUME NEW a \in Owners, CheckOwner(a) PROVE TypeOK'
  <2>1. pc' \in ScriptPC
    BY <1>3, Blocks DEF CheckOwner, Attributes
  <2> QED BY <1>3, <2>1 DEF CheckOwner
<1>4. CASE TestChmod
  <2>1. tree' \in [Attributes -> SUBSET Nodes]
    BY <1>4 DEF TestChmod, Attributes, Nodes
  <2> QED BY <1>4, <2>1 DEF TestChmod
<1>5. ASSUME NEW a \in Attributes, WalkDone(a) PROVE TypeOK'
  <2>1. pc' \in ScriptPC
    BY <1>5, Blocks DEF WalkDone
  <2> QED BY <1>5, <2>1 DEF WalkDone
<1>6. ASSUME NEW a \in Attributes, NEW n \in Nodes, Change(a, n) PROVE TypeOK'
  <2>1. tree' \in [Attributes -> SUBSET Nodes]
    BY <1>6 DEF Change
  <2> QED BY <1>6, <2>1 DEF Change
<1>7. ASSUME NEW a \in Attributes, NEW n \in Nodes, ChangeFails(a, n)
      PROVE  TypeOK'
  <2>1. refused' \in [Attributes -> SUBSET Nodes]
    BY <1>7 DEF ChangeFails
  <2>2. errors' \in 0 .. MaxErrors
    BY <1>7, ServerAssumption DEF ChangeFails
  <2> QED BY <1>7, <2>1, <2>2 DEF ChangeFails
<1>8. CASE StartNfsd BY <1>8, FaultCounted DEF StartNfsd
<1>9. CASE Exportfs BY <1>9 DEF Exportfs
<1>10. CASE StartMountd BY <1>10, FaultCounted DEF StartMountd
<1>11. CASE CheckMountd BY <1>11 DEF CheckMountd
<1>12. CASE Monitor BY <1>12 DEF Monitor
<1>13. CASE MountdDies BY <1>13, FaultCounted DEF MountdDies
<1>14. CASE Stop BY <1>14, FaultCounted DEF Stop
<1>15. CASE Kill BY <1>15, FaultCounted DEF Kill
<1>16. CASE UNCHANGED vars BY <1>16 DEF vars
<1>17. CASE TestChmodFails
  <2>1. refused' \in [Attributes -> SUBSET Nodes]
    BY <1>17 DEF TestChmodFails, Nodes
  <2>2. errors' \in 0 .. MaxErrors
    BY <1>17, ServerAssumption DEF TestChmodFails
  <2> QED BY <1>17, <2>1, <2>2 DEF TestChmodFails
<1> QED
  BY <1>1, <1>2, <1>3, <1>4, <1>5, <1>6, <1>7, <1>8, <1>9, <1>10, <1>11, <1>12,
     <1>13, <1>14, <1>15, <1>16, <1>17 DEF Next, ScriptStep

\* The root is the last node a chown -R changes, and what it passed over refused.
LEMMA ServerRoot ==
  ASSUME Inv, [Next]_vars PROVE SkippedRefused' /\ RootVouches'
<1> USE DEF Inv, TypeOK, SkippedRefused, RootVouches, Go, Exit, Undisturbed,
            Attributes, Owners, Walk, After
<1>1. CASE StartContainer BY <1>1 DEF StartContainer
<1>2. CASE WriteExports BY <1>2 DEF WriteExports
<1>3. ASSUME NEW a \in Owners, CheckOwner(a) PROVE SkippedRefused' /\ RootVouches'
  BY <1>3 DEF CheckOwner
<1>4. CASE TestChmod BY <1>4 DEF TestChmod
<1>5. ASSUME NEW a \in Attributes, WalkDone(a)
      PROVE  SkippedRefused' /\ RootVouches'
  BY <1>5 DEF WalkDone
<1>6. ASSUME NEW a \in Attributes, NEW n \in Nodes, Change(a, n)
      PROVE  SkippedRefused' /\ RootVouches'
  <2>1. SkippedRefused'
    BY <1>6 DEF Change
  <2>2. ASSUME NEW b \in Owners, "root" \in tree'[b]
        PROVE  Nodes \ tree'[b] \subseteq refused'[b]
    <3>1. CASE b # a \/ n # "root"
      BY <1>6, <2>2, <3>1 DEF Change
    <3>2. CASE b = a /\ n = "root"
      BY <1>6, <2>2, <3>2 DEF Change, Visit, Nodes
    <3> QED BY <3>1, <3>2
  <2> QED BY <2>1, <2>2
<1>7. ASSUME NEW a \in Attributes, NEW n \in Nodes, ChangeFails(a, n)
      PROVE  SkippedRefused' /\ RootVouches'
  BY <1>7 DEF ChangeFails, Visit
<1>8. CASE StartNfsd BY <1>8 DEF StartNfsd
<1>9. CASE Exportfs BY <1>9 DEF Exportfs
<1>10. CASE StartMountd BY <1>10 DEF StartMountd
<1>11. CASE CheckMountd BY <1>11 DEF CheckMountd
<1>12. CASE Monitor BY <1>12 DEF Monitor
<1>13. CASE MountdDies BY <1>13 DEF MountdDies
<1>14. CASE Stop BY <1>14 DEF Stop
<1>15. CASE Kill BY <1>15 DEF Kill
<1>16. CASE UNCHANGED vars BY <1>16 DEF vars
<1>17. CASE TestChmodFails BY <1>17 DEF TestChmodFails
<1> QED
  BY <1>1, <1>2, <1>3, <1>4, <1>5, <1>6, <1>7, <1>8, <1>9, <1>10, <1>11, <1>12,
     <1>13, <1>14, <1>15, <1>16, <1>17 DEF Next, ScriptStep

\* A block of the script is left forwards only with its setting accepted and, for
\* an owner, with the root changed.
LEMMA ServerBlocks ==
  ASSUME Inv, [Next]_vars PROVE BlocksPassed'
<1> USE DEF Inv, TypeOK, BlocksPassed, BlockPassed, Past, Go, Exit, Undisturbed,
            Attributes, Owners, Walk, After, ExportsValid, Settings
<1>1. CASE StartContainer BY <1>1 DEF StartContainer
<1>2. CASE WriteExports BY <1>2 DEF WriteExports
<1>3. ASSUME NEW a \in Owners, CheckOwner(a) PROVE BlocksPassed'
  BY <1>3 DEF CheckOwner
<1>4. CASE TestChmod BY <1>4 DEF TestChmod
<1>5. ASSUME NEW a \in Attributes, WalkDone(a) PROVE BlocksPassed'
  BY <1>5 DEF WalkDone, Nodes
<1>6. ASSUME NEW a \in Attributes, NEW n \in Nodes, Change(a, n)
      PROVE  BlocksPassed'
  BY <1>6 DEF Change
<1>7. ASSUME NEW a \in Attributes, NEW n \in Nodes, ChangeFails(a, n)
      PROVE  BlocksPassed'
  BY <1>7 DEF ChangeFails
<1>8. CASE StartNfsd BY <1>8 DEF StartNfsd
<1>9. CASE Exportfs BY <1>9 DEF Exportfs
<1>10. CASE StartMountd BY <1>10 DEF StartMountd
<1>11. CASE CheckMountd BY <1>11 DEF CheckMountd
<1>12. CASE Monitor BY <1>12 DEF Monitor
<1>13. CASE MountdDies BY <1>13 DEF MountdDies
<1>14. CASE Stop BY <1>14 DEF Stop
<1>15. CASE Kill BY <1>15 DEF Kill
<1>16. CASE UNCHANGED vars BY <1>16 DEF vars
<1>17. CASE TestChmodFails BY <1>17 DEF TestChmodFails
<1> QED
  BY <1>1, <1>2, <1>3, <1>4, <1>5, <1>6, <1>7, <1>8, <1>9, <1>10, <1>11, <1>12,
     <1>13, <1>14, <1>15, <1>16, <1>17 DEF Next, ScriptStep

LEMMA ServerInv == Spec => []Inv
<1>1. Inv /\ [Next]_vars => Inv'
  BY ServerType, ServerRoot, ServerBlocks DEF Inv
<1> QED BY <1>1, ServerInit, PTL DEF Spec

\* The variables of the script and of the kernel keep their types.
THEOREM ServerTypeCorrect == Spec => []TypeOK
<1>1. Inv => TypeOK BY DEF Inv
<1> QED BY <1>1, ServerInv, PTL

\* Whatever the directory holds, however often the container is killed and
\* whichever nodes refuse: what is exported has the requested owner and group,
\* but for the nodes that refused (the chown blocks of nfsd.sh).
THEOREM OwnersSetBeforeExport == Spec => []OwnersBeforeExport
<1>1. Inv => OwnersBeforeExport
  BY DEF Inv, OwnersBeforeExport, RootVouches, BlocksPassed, BlockPassed, Requested,
         Attributes
<1> QED BY <1>1, ServerInv, PTL

\* No life of the container exports the directory of a pod whose settings the
\* script rejects.
THEOREM RejectedSettingsNeverExported == Spec => []RejectedNeverExported
<1>1. Inv => RejectedNeverExported
  BY DEF Inv, RejectedNeverExported, BlocksPassed, BlockPassed
<1> QED BY <1>1, ServerInv, PTL
=============================================================================
