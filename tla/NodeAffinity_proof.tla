------------------------- MODULE NodeAffinity_proof -------------------------
(***************************************************************************)
(* Placement, for every set of nodes, labels, settings and volumes: the    *)
(* parser reads every setting as it is meant (AffinityParser_proof), and   *)
(* Deployments carry what it read to the scheduler.                        *)
(***************************************************************************)
EXTENDS NodeAffinity, AffinityParser_proof

\* What a start reads is what the setting means.
LEMMA ParserCorrect == \A p \in ParsedRules : p.rules = MeantBy(p.setting)
<1> SUFFICES ASSUME NEW s \in Settings PROVE getNodeAffinityRules(Text(s)) = MeantBy(s)
  BY DEF ParsedRules
<1>1. s \in Seq(Rules) BY SettingsAssumption
<1> QED BY <1>1, SettingsReadAsMeant

\* A Deployment carries the rules of the setting it was created under.
DeploymentsAsMade ==
  /\ DOMAIN dep = DOMAIN made
  /\ \A v \in DOMAIN dep : dep[v] = WithNodeAffinityMatchExpressions(MeantBy(made[v]))

\* Only a running process creates Deployments.
ProvisionsWhileUp ==
  /\ prov \in [Volumes -> {"idle", "create", "wait", "done"}]
  /\ \A v \in Volumes : prov[v] = "create" => up

PlacementInv == RulesAsMeant /\ DeploymentsAsMade /\ ProvisionsWhileUp

\* The scheduler accepts a node only if it meets every rule of the setting.
LEMMA ScheduledAsMeant ==
  ASSUME NEW labels, NEW s, Schedulable(labels, WithNodeAffinityMatchExpressions(MeantBy(s)))
  PROVE  MeetsAsMeant(labels, s)
<1>1. DOMAIN MeantBy(s) = DOMAIN s
  BY DEF MeantBy
<1>2. CASE MeantBy(s) = <<>>
  BY <1>1, <1>2 DEF MeetsAsMeant
<1>3. CASE MeantBy(s) # <<>>
  <2>1. Matches(labels, MeantBy(s))
    BY <1>3 DEF Schedulable, WithNodeAffinityMatchExpressions
  <2>2. ASSUME NEW i \in DOMAIN s
        PROVE  /\ <<s[i].key>> \in DOMAIN labels
               /\ s[i].values # <<>> =>
                    \E j \in DOMAIN s[i].values :
                      labels[<<s[i].key>>] = <<s[i].values[j]>>
    <3>1. MeantBy(s)[i] = Requirement(s[i])
      BY <2>2 DEF MeantBy
    <3>2. /\ Requirement(s[i]).key = <<s[i].key>>
          /\ s[i].values # <<>> => Requirement(s[i]).operator = "In"
          /\ Requirement(s[i]).values =
               [j \in DOMAIN s[i].values |-> <<s[i].values[j]>>]
      BY DEF Requirement, Units
    <3>3. /\ Requirement(s[i]).key \in DOMAIN labels
          /\ Requirement(s[i]).operator = "In" =>
               labels[Requirement(s[i]).key] \in Range(Requirement(s[i]).values)
      BY <1>1, <2>1, <2>2, <3>1 DEF Matches
    <3> QED BY <3>2, <3>3 DEF Range
  <2> QED BY <2>2 DEF MeetsAsMeant
<1> QED BY <1>2, <1>3

LEMMA PlacementInit == Init => PlacementInv
BY DEF Init, PlacementInv, RulesAsMeant, DeploymentsAsMade, ProvisionsWhileUp,
       Nothing

LEMMA PlacementNext ==
  PlacementInv /\ [Next]_vars => PlacementInv'
<1> SUFFICES ASSUME PlacementInv, [Next]_vars PROVE PlacementInv'
  OBVIOUS
<1> USE DEF PlacementInv, RulesAsMeant, DeploymentsAsMade, ProvisionsWhileUp
<1>1. CASE UNCHANGED vars
  BY <1>1 DEF vars
<1>2. CASE Start
  BY <1>2, ParserCorrect DEF Start
<1>3. ASSUME NEW s \in Settings, Stop(s) PROVE PlacementInv'
  BY <1>3 DEF Stop
<1>4. ASSUME NEW n \in Nodes, NEW labels \in Labelings, LabelNode(n, labels)
      PROVE  PlacementInv'
  BY <1>4 DEF LabelNode
<1>5. ASSUME NEW n \in Nodes, RemoveNode(n) \/ Inform(n) PROVE PlacementInv'
  BY <1>5 DEF RemoveNode, Inform
<1>6. ASSUME NEW v \in Volumes, CreateDeployment(v) PROVE PlacementInv'
  <2>1. CASE UNCHANGED <<dep, made>>
    BY <1>6, <2>1 DEF CreateDeployment
  <2>2. CASE v \notin DOMAIN dep
    <3>1. /\ dep' = Extend(dep, v, WithNodeAffinityMatchExpressions(rules))
          /\ made' = Extend(made, v, setting)
          /\ UNCHANGED <<rules, setting, up>>
      BY <1>6, <2>2 DEF CreateDeployment
    <3>2. rules = MeantBy(setting)
      BY <1>6 DEF CreateDeployment
    <3>3. /\ DOMAIN dep' = {v} \cup DOMAIN dep
          /\ dep'[v] = WithNodeAffinityMatchExpressions(rules)
          /\ \A w \in DOMAIN dep : w # v => dep'[w] = dep[w]
      BY <3>1 DEF Extend
    <3>4. /\ DOMAIN made' = {v} \cup DOMAIN made
          /\ made'[v] = setting
          /\ \A w \in DOMAIN made : w # v => made'[w] = made[w]
      BY <3>1 DEF Extend
    <3>5. DeploymentsAsMade'
      BY <3>2, <3>3, <3>4
    <3>6. ProvisionsWhileUp'
      BY <1>6, <3>1 DEF CreateDeployment
    <3> QED BY <3>1, <3>5, <3>6
  <2> QED BY <1>6, <2>1, <2>2 DEF CreateDeployment
<1>7. ASSUME NEW v \in Volumes,
             Provision(v) \/ ProvisionReturns(v) \/ ProvisionFails(v)
      PROVE  PlacementInv'
  BY <1>7 DEF Provision, ProvisionReturns, ProvisionFails
<1>8. ASSUME NEW v \in Volumes, NEW n \in Nodes, Place(v, n) PROVE PlacementInv'
  BY <1>8 DEF Place
<1> QED BY <1>1, <1>2, <1>3, <1>4, <1>5, <1>6, <1>7, <1>8 DEF Next, ProvisionStep

LEMMA PlacementInvariance == Spec => []PlacementInv
BY PlacementInit, PlacementNext, PTL DEF Spec

\* A running provisioner has the rules its setting spells out, one that is down has
\* none: no start, restart or redeployment mixes settings.
THEOREM RulesReadAsMeant == Spec => []RulesAsMeant
<1>1. PlacementInv => RulesAsMeant BY DEF PlacementInv
<1> QED BY <1>1, PlacementInvariance, PTL

-----------------------------------------------------------------------------
(* Types *)

LEMMA RulesAreSelectors ==
  ASSUME NEW s \in Settings
  PROVE  /\ SelectorValid(MeantBy(s))
         /\ \A i \in DOMAIN MeantBy(s) : \A j \in DOMAIN MeantBy(s)[i].values :
              MeantBy(s)[i].values[j] # <<>>
<1> SUFFICES ASSUME NEW i \in DOMAIN s
             PROVE  /\ IsWord(MeantBy(s)[i].key)
                    /\ \A j \in DOMAIN MeantBy(s)[i].values :
                         /\ IsWord(MeantBy(s)[i].values[j])
                         /\ MeantBy(s)[i].values[j] # <<>>
  BY DEF SelectorValid, MeantBy
<1>1. MeantBy(s)[i] = Requirement(s[i]) BY DEF MeantBy
<1>2. /\ Requirement(s[i]).key = <<s[i].key>>
      /\ Requirement(s[i]).values = [j \in DOMAIN s[i].values |-> <<s[i].values[j]>>]
  BY DEF Requirement, Units
<1>3. ASSUME NEW w, w \notin Marks PROVE IsWord(<<w>>) /\ <<w>> # <<>>
  BY <1>3 DEF IsWord
<1>4. s[i].key \notin Marks /\ \A j \in DOMAIN s[i].values : s[i].values[j] \notin Marks
  <2>1. s \in Seq(Rules) /\ i \in 1 .. Len(s) BY SettingsAssumption
  <2>2. s[i] \in Rules BY <2>1
  <2>3. s[i].key \in Words /\ s[i].values \in Seq(Words) BY <2>2, RuleFields
  <2>4. \A j \in DOMAIN s[i].values : s[i].values[j] \in Words BY <2>3
  <2> QED BY <2>3, <2>4, WordsAssumption
<1> QED BY <1>1, <1>2, <1>3, <1>4

LEMMA ExtendPartial ==
  ASSUME NEW S, NEW T, NEW f \in PartialFunctions(S, T), NEW x \in S, NEW y \in T
  PROVE  /\ Extend(f, x, y) \in PartialFunctions(S, T)
         /\ DOMAIN Extend(f, x, y) = DOMAIN f \cup {x}
<1>1. PICK D \in SUBSET S : f \in [D -> T] BY DEF PartialFunctions
<1>2. Extend(f, x, y) \in [D \cup {x} -> T] BY <1>1 DEF Extend
<1>3. D \cup {x} \in SUBSET S BY <1>1
<1>4. DOMAIN Extend(f, x, y) = DOMAIN f \cup {x} BY DEF Extend
<1> QED BY <1>2, <1>3, <1>4 DEF PartialFunctions

LEMMA RestrictPartial ==
  ASSUME NEW S, NEW T, NEW f \in PartialFunctions(S, T), NEW E \in SUBSET DOMAIN f
  PROVE  Restrict(f, E) \in PartialFunctions(S, T) /\ DOMAIN Restrict(f, E) = E
<1>1. PICK D \in SUBSET S : f \in [D -> T] BY DEF PartialFunctions
<1>2. Restrict(f, E) \in [E -> T] BY <1>1 DEF Restrict
<1>3. E \in SUBSET S BY <1>1
<1> QED BY <1>2, <1>3 DEF PartialFunctions

LEMMA NothingPartial ==
  ASSUME NEW S, NEW T
  PROVE  Nothing \in PartialFunctions(S, T) /\ DOMAIN Nothing = {}
<1>1. Nothing \in [{} -> T] BY DEF Nothing
<1> QED BY <1>1 DEF PartialFunctions

LEMMA TypeInit == Init => TypeOK
<1> SUFFICES ASSUME Init PROVE TypeOK
  OBVIOUS
<1>1. SelectorValid(rules) /\ DOMAIN rules = {} BY DEF Init, SelectorValid
<1>2. nodes \in PartialFunctions(Nodes, Labelings) BY DEF Init, PartialFunctions
<1>3. /\ cache \in PartialFunctions(Nodes, Labelings)
      /\ pod \in PartialFunctions(Volumes, Nodes)
      /\ made \in PartialFunctions(Volumes, Settings)
      /\ DOMAIN pod = {} /\ DOMAIN dep = DOMAIN made
  BY NothingPartial DEF Init
<1>4. changes \in 0 .. MaxChanges /\ restarts \in 0 .. MaxRestarts
  <2>1. changes = 0 /\ restarts = 0 BY DEF Init
  <2>2. MaxChanges \in Nat /\ MaxRestarts \in Nat BY SettingsAssumption
  <2> QED BY <2>1, <2>2
<1>5. /\ setting \in Settings /\ up \in BOOLEAN
      /\ prov \in [Volumes -> {"idle", "create", "wait", "done"}]
  BY DEF Init
<1> QED BY <1>1, <1>2, <1>3, <1>4, <1>5 DEF TypeOK

LEMMA CountUp ==
  ASSUME NEW n, NEW max \in Nat, n \in 0 .. max, n < max
  PROVE  n + 1 \in 0 .. max
OBVIOUS

LEMMA TypeNext == TypeOK /\ [Next]_vars => TypeOK'
<1> SUFFICES ASSUME TypeOK, [Next]_vars PROVE TypeOK'
  OBVIOUS
<1>0. MaxChanges \in Nat /\ MaxRestarts \in Nat BY SettingsAssumption
<1>1. CASE UNCHANGED vars
  BY <1>1 DEF vars, TypeOK
<1>2. CASE Start
  <2>1. rules' = MeantBy(setting)
    BY <1>2, ParserCorrect DEF Start
  <2>2. SelectorValid(rules')
        /\ \A i \in DOMAIN rules' : \A j \in DOMAIN rules'[i].values :
             rules'[i].values[j] # <<>>
    BY <2>1, RulesAreSelectors DEF TypeOK
  <2> QED BY <1>2, <2>2 DEF Start, TypeOK
<1>3. ASSUME NEW s \in Settings, Stop(s) PROVE TypeOK'
  <2>1. SelectorValid(rules') /\ DOMAIN rules' = {} BY <1>3 DEF Stop, SelectorValid
  <2>2. cache' \in PartialFunctions(Nodes, Labelings) BY <1>3, NothingPartial DEF Stop
  <2>3. prov' \in [Volumes -> {"idle", "create", "wait", "done"}]
    BY <1>3 DEF Stop, TypeOK
  <2>4. restarts' \in 0 .. MaxRestarts BY <1>0, <1>3, CountUp DEF Stop, TypeOK
  <2>5. setting' \in Settings /\ up' \in BOOLEAN /\ UNCHANGED <<nodes, dep, pod, made, changes>>
    BY <1>3 DEF Stop
  <2> QED BY <2>1, <2>2, <2>3, <2>4, <2>5 DEF TypeOK
<1>4. ASSUME NEW n \in Nodes, NEW labels \in Labelings, LabelNode(n, labels)
      PROVE  TypeOK'
  <2>1. nodes' \in PartialFunctions(Nodes, Labelings)
    BY <1>4, ExtendPartial DEF LabelNode, TypeOK
  <2>2. changes' \in 0 .. MaxChanges BY <1>0, <1>4, CountUp DEF LabelNode, TypeOK
  <2>3. UNCHANGED <<setting, up, rules, cache, prov, dep, pod, made, restarts>>
    BY <1>4 DEF LabelNode
  <2> QED BY <2>1, <2>2, <2>3 DEF TypeOK
<1>5. ASSUME NEW n \in Nodes, RemoveNode(n) PROVE TypeOK'
  <2>1. nodes' \in PartialFunctions(Nodes, Labelings)
    BY <1>5, RestrictPartial DEF RemoveNode, TypeOK
  <2>2. pod' \in PartialFunctions(Volumes, Nodes) /\ DOMAIN pod' \subseteq DOMAIN pod
    <3> DEFINE left == {v \in DOMAIN pod : pod[v] # n}
    <3>1. left \in SUBSET DOMAIN pod OBVIOUS
    <3>2. pod' = Restrict(pod, left) BY <1>5 DEF RemoveNode
    <3> HIDE DEF left
    <3> QED BY <3>1, <3>2, RestrictPartial DEF TypeOK
  <2>3. changes' \in 0 .. MaxChanges BY <1>0, <1>5, CountUp DEF RemoveNode, TypeOK
  <2>4. UNCHANGED <<setting, up, rules, cache, prov, dep, made, restarts>>
    BY <1>5 DEF RemoveNode
  <2> QED BY <2>1, <2>2, <2>3, <2>4 DEF TypeOK
<1>6. ASSUME NEW n \in Nodes, Inform(n) PROVE TypeOK'
  <2>1. cache' \in PartialFunctions(Nodes, Labelings)
    <3>1. CASE n \in DOMAIN nodes /\ cache' = Extend(cache, n, nodes[n])
      <4>1. nodes[n] \in Labelings BY <3>1 DEF TypeOK, PartialFunctions
      <4> QED BY <3>1, <4>1, ExtendPartial DEF TypeOK
    <3>2. CASE cache' = Restrict(cache, DOMAIN cache \ {n})
      BY <3>2, RestrictPartial DEF TypeOK
    <3> QED BY <1>6, <3>1, <3>2 DEF Inform
  <2>2. UNCHANGED <<setting, up, rules, nodes, prov, dep, pod, made, changes, restarts>>
    BY <1>6 DEF Inform
  <2> QED BY <2>1, <2>2 DEF TypeOK
<1>7. ASSUME NEW v \in Volumes, CreateDeployment(v) PROVE TypeOK'
  <2>1. prov' \in [Volumes -> {"idle", "create", "wait", "done"}]
    BY <1>7 DEF CreateDeployment, TypeOK
  <2>2. UNCHANGED <<setting, up, rules, cache, nodes, pod, changes, restarts>>
    BY <1>7 DEF CreateDeployment
  <2>3. /\ made' \in PartialFunctions(Volumes, Settings)
        /\ DOMAIN dep' = DOMAIN made' /\ DOMAIN dep \subseteq DOMAIN dep'
    <3>1. CASE UNCHANGED <<dep, made>> BY <3>1 DEF TypeOK
    <3>2. CASE /\ dep' = Extend(dep, v, WithNodeAffinityMatchExpressions(rules))
               /\ made' = Extend(made, v, setting)
      <4>1. DOMAIN dep' = DOMAIN dep \cup {v} BY <3>2 DEF Extend
      <4>2. /\ made' \in PartialFunctions(Volumes, Settings)
            /\ DOMAIN made' = DOMAIN made \cup {v}
        <5>1. made \in PartialFunctions(Volumes, Settings) /\ setting \in Settings
          BY DEF TypeOK
        <5>2. made' = Extend(made, v, setting) BY <3>2
        <5>3. Extend(made, v, setting) \in PartialFunctions(Volumes, Settings)
          BY <5>1, ExtendPartial
        <5>4. DOMAIN Extend(made, v, setting) = DOMAIN made \cup {v}
          BY DEF Extend
        <5> QED BY <5>2, <5>3, <5>4
      <4> QED BY <4>1, <4>2 DEF TypeOK
    <3> QED BY <1>7, <3>1, <3>2 DEF CreateDeployment
  <2> QED BY <2>1, <2>2, <2>3 DEF TypeOK
<1>8. ASSUME NEW v \in Volumes, Provision(v) \/ ProvisionReturns(v) PROVE TypeOK'
  BY <1>8 DEF Provision, ProvisionReturns, TypeOK
<1>9. ASSUME NEW v \in Volumes, ProvisionFails(v) PROVE TypeOK'
  <2>1. restarts' \in 0 .. MaxRestarts BY <1>0, <1>9, CountUp DEF ProvisionFails, TypeOK
  <2> QED BY <1>9, <2>1 DEF ProvisionFails, TypeOK
<1>10. ASSUME NEW v \in Volumes, NEW n \in Nodes, Place(v, n) PROVE TypeOK'
  <2>1. /\ pod' \in PartialFunctions(Volumes, Nodes)
        /\ DOMAIN pod' = DOMAIN pod \cup {v} /\ v \in DOMAIN dep
    <3>1. pod \in PartialFunctions(Volumes, Nodes) BY DEF TypeOK
    <3>2. pod' = Extend(pod, v, n) /\ v \in DOMAIN dep BY <1>10 DEF Place
    <3>3. Extend(pod, v, n) \in PartialFunctions(Volumes, Nodes) BY <3>1, ExtendPartial
    <3>4. DOMAIN Extend(pod, v, n) = DOMAIN pod \cup {v} BY DEF Extend
    <3> QED BY <3>2, <3>3, <3>4
  <2>2. UNCHANGED <<setting, up, rules, cache, nodes, prov, dep, made, changes, restarts>>
    BY <1>10 DEF Place
  <2> QED BY <2>1, <2>2 DEF TypeOK
<1> QED BY <1>1, <1>2, <1>3, <1>4, <1>5, <1>6, <1>7, <1>8, <1>9, <1>10
        DEF Next, ProvisionStep

\* Nodes, cache, Deployments and pods stay what they are, and the rules of the
\* provisioner always make a valid selector.
THEOREM AffinityTypeCorrect == Spec => []TypeOK
BY TypeInit, TypeNext, PTL DEF Spec

\* No NFS server is placed on a node that does not meet, at that moment, every
\* rule written when its Deployment was created: whatever the cache showed, and
\* whatever became of the setting since.
THEOREM ServersPlacedByRules == Spec => PlacedByRules
<1>1. PlacementInv /\ [Next]_vars =>
        [\A v \in DOMAIN pod' \ DOMAIN pod :
           MeetsAsMeant(nodes[pod'[v]], made[v])]_vars
  <2> SUFFICES ASSUME PlacementInv, Next, NEW w \in DOMAIN pod' \ DOMAIN pod
               PROVE  MeetsAsMeant(nodes[pod'[w]], made[w])
    OBVIOUS
  <2>1. ASSUME NEW v \in Volumes, NEW n \in Nodes, Place(v, n)
        PROVE  MeetsAsMeant(nodes[pod'[w]], made[w])
    <3>1. pod' = Extend(pod, v, n) /\ Schedulable(nodes[n], dep[v]) /\ v \in DOMAIN dep
      BY <2>1 DEF Place
    <3>2. DOMAIN pod' = {v} \cup DOMAIN pod /\ pod'[v] = n
      BY <3>1 DEF Extend
    <3>3. w = v
      BY <3>2
    <3>4. dep[v] = WithNodeAffinityMatchExpressions(MeantBy(made[v]))
      BY <3>1 DEF PlacementInv, DeploymentsAsMade
    <3> QED BY <3>1, <3>2, <3>3, <3>4, ScheduledAsMeant
  <2>2. ASSUME NEW n \in Nodes, RemoveNode(n) PROVE FALSE
    BY <2>2 DEF RemoveNode, Restrict
  <2>3. ASSUME UNCHANGED pod PROVE FALSE
    BY <2>3
  <2> QED BY <2>1, <2>2, <2>3
          DEF Next, ProvisionStep, Start, Stop, LabelNode, Inform, Provision,
              CreateDeployment, ProvisionReturns, ProvisionFails
<1> QED BY <1>1, PlacementInvariance, PTL DEF Spec, PlacedByRules
=============================================================================
