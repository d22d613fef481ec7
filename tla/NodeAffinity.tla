---------------------------- MODULE NodeAffinity ----------------------------
(***************************************************************************)
(* Where NFS servers run: the node affinity rules, which the provisioner   *)
(* parses from OPENEBS_IO_NFS_SERVER_NODE_AFFINITY when it starts, their   *)
(* validation against a cache of the nodes at every Provision, and the     *)
(* Deployments that carry them to the scheduler.  Nodes, Deployments and   *)
(* pods that exist are the domains of nodes, dep and pod.                  *)
(***************************************************************************)
EXTENDS AffinityParser, Functions

CONSTANTS
  Volumes,      \* claims, by UID
  Nodes,        \* nodes of the cluster
  Labelings,    \* labels a node may have: functions from keys to values
  Settings,     \* what administrators write into the variable: lists of rules
  MaxChanges,   \* bound on nodes joining, leaving or getting other labels
  MaxRestarts   \* bound on crashes, redeployments and failed calls

ASSUME SettingsAssumption ==
  Settings \subseteq Seq(Rules) /\ MaxChanges \in Nat /\ MaxRestarts \in Nat

VARIABLES
  setting,  \* the variable in the provisioner's Deployment
  up,       \* is the provisioner running?
  rules,    \* p.nodeAffinity.MatchExpressions
  cache,    \* the labels of the nodes k8sNodeLister knows
  nodes,    \* the labels of the nodes there are
  prov,     \* where Provision stands
  dep,      \* the node selector terms of the NFS server Deployments
  pod,      \* the node each NFS server runs on
  made,     \* history: the setting in force when dep[v] was created
  changes,  \* history: changes of the nodes so far
  restarts  \* history: crashes, redeployments and failed calls so far

vars == <<setting, up, rules, cache, nodes, prov, dep, pod, made, changes,
          restarts>>

Nothing == <<>>       \* the empty function

\* f with y at x
Extend(f, x, y) == [z \in DOMAIN f \cup {x} |-> IF z = x THEN y ELSE f[z]]

-----------------------------------------------------------------------------
(* Settings *)

\* The nodes that meet setting s as its author means it.
MeetsAsMeant(labels, s) ==
  \A i \in DOMAIN s :
    /\ <<s[i].key>> \in DOMAIN labels
    /\ s[i].values # <<>> =>
         \E j \in DOMAIN s[i].values : labels[<<s[i].key>>] = <<s[i].values[j]>>

\* A table, so that TLC parses each setting once.
ParsedRules ==
  {[setting |-> s, rules |-> getNodeAffinityRules(Text(s))] : s \in Settings}

-----------------------------------------------------------------------------
(* Selectors *)

\* NodeSelectorRequirementsAsSelector: label keys are words, values may be "".
IsWord(text) == Len(text) = 1 /\ text[1] \notin Marks
SelectorValid(reqs) ==
  \A i \in DOMAIN reqs :
    /\ IsWord(reqs[i].key)
    /\ \A j \in DOMAIN reqs[i].values :
         reqs[i].values[j] = <<>> \/ IsWord(reqs[i].values[j])

\* The requirements of one term are ANDed.
Matches(labels, reqs) ==
  \A i \in DOMAIN reqs :
    /\ reqs[i].key \in DOMAIN labels
    /\ reqs[i].operator = "In" => labels[reqs[i].key] \in Range(reqs[i].values)

\* Mutant: a term for each requirement; terms are ORed.
WithMatchExpressionsEach(reqs) == [i \in DOMAIN reqs |-> <<reqs[i]>>]

WithNodeAffinityMatchExpressions(reqs) ==
  IF reqs = <<>> THEN <<>> ELSE <<reqs>>

\* The scheduler's reading of the terms: none, or one that matches.
Schedulable(labels, terms) ==
  terms = <<>> \/ \E i \in DOMAIN terms : Matches(labels, terms[i])

\* What the cache tells about the rules.
validateNodeAffinityRules ==
  \/ rules = <<>>
  \/ SelectorValid(rules) /\ \E n \in DOMAIN cache : Matches(cache[n], rules)

-----------------------------------------------------------------------------
(* The specification *)

Init ==
  /\ setting \in Settings
  /\ up = FALSE /\ rules = <<>> /\ cache = Nothing
  /\ \E there \in SUBSET Nodes : nodes \in [there -> Labelings]
  /\ prov = [v \in Volumes |-> "idle"]
  /\ dep = Nothing /\ pod = Nothing /\ made = Nothing
  /\ changes = 0 /\ restarts = 0

\* NewProvisioner: the rules are parsed, the node informer is started; nobody
\* waits for its first list.
Start ==
  /\ ~up
  /\ up' = TRUE
  /\ \E p \in ParsedRules : p.setting = setting /\ rules' = p.rules
  /\ UNCHANGED <<setting, cache, nodes, prov, dep, pod, made, changes, restarts>>

\* The process ends, or is replaced by one with another setting.
Stop(s) ==
  /\ up /\ restarts < MaxRestarts /\ restarts' = restarts + 1
  /\ setting' = s
  /\ up' = FALSE /\ rules' = <<>> /\ cache' = Nothing
  /\ prov' = [v \in Volumes |-> IF prov[v] = "done" THEN "done" ELSE "idle"]
  /\ UNCHANGED <<nodes, dep, pod, made, changes>>

\* A node joins or gets other labels; pods stay where they are.
LabelNode(n, labels) ==
  /\ changes < MaxChanges /\ changes' = changes + 1
  /\ nodes' = Extend(nodes, n, labels) /\ nodes' # nodes
  /\ UNCHANGED <<setting, up, rules, cache, prov, dep, pod, made, restarts>>

\* A node leaves, and the pods on it.
RemoveNode(n) ==
  /\ changes < MaxChanges /\ changes' = changes + 1
  /\ n \in DOMAIN nodes
  /\ nodes' = Restrict(nodes, DOMAIN nodes \ {n})
  /\ pod' = Restrict(pod, {v \in DOMAIN pod : pod[v] # n})
  /\ UNCHANGED <<setting, up, rules, cache, prov, dep, made, restarts>>

\* Mutant: a node is looked at once.
InformNew(n) ==
  /\ up
  /\ n \in DOMAIN nodes \ DOMAIN cache
  /\ cache' = Extend(cache, n, nodes[n])
  /\ UNCHANGED <<setting, up, rules, nodes, prov, dep, pod, made, changes,
                 restarts>>

\* k8sNodeInformer: what happened to n reaches the cache.
Inform(n) ==
  /\ up
  /\ \/ /\ n \in DOMAIN nodes
        /\ cache' = Extend(cache, n, nodes[n])
     \/ /\ n \in DOMAIN cache \ DOMAIN nodes
        /\ cache' = Restrict(cache, DOMAIN cache \ {n})
  /\ cache' # cache
  /\ UNCHANGED <<setting, up, rules, nodes, prov, dep, pod, made, changes,
                 restarts>>

\* Provision passes the validation.  When it does not, it returns an error with
\* nothing changed, and is called again.
Provision(v) ==
  /\ up /\ prov[v] = "idle" /\ validateNodeAffinityRules
  /\ prov' = [prov EXCEPT ![v] = "create"]
  /\ UNCHANGED <<setting, up, rules, cache, nodes, dep, pod, made, changes,
                 restarts>>

\* createDeployment: one that exists is kept as it is.
CreateDeployment(v) ==
  /\ prov[v] = "create"
  /\ prov' = [prov EXCEPT ![v] = "wait"]
  /\ \/ v \in DOMAIN dep /\ UNCHANGED <<dep, made>>
     \/ /\ v \notin DOMAIN dep
        /\ dep' = Extend(dep, v, WithNodeAffinityMatchExpressions(rules))
        /\ made' = Extend(made, v, setting)
  /\ UNCHANGED <<setting, up, rules, cache, nodes, pod, changes, restarts>>

\* A call before createDeployment fails.
ProvisionFails(v) ==
  /\ prov[v] = "create"
  /\ restarts < MaxRestarts /\ restarts' = restarts + 1
  /\ prov' = [prov EXCEPT ![v] = "idle"]
  /\ UNCHANGED <<setting, up, rules, cache, nodes, dep, pod, made, changes>>

\* The backend PVC is bound and Provision succeeds, or it fails: the wait for the
\* PVC may time out as often as it likes.
ProvisionReturns(v) ==
  /\ prov[v] = "wait"
  /\ \E pc \in {"idle", "done"} : prov' = [prov EXCEPT ![v] = pc]
  /\ UNCHANGED <<setting, up, rules, cache, nodes, dep, pod, made, changes,
                 restarts>>

\* The scheduler finds a node for the pod of v's Deployment.
Place(v, n) ==
  /\ v \in DOMAIN dep \ DOMAIN pod
  /\ n \in DOMAIN nodes /\ Schedulable(nodes[n], dep[v])
  /\ pod' = Extend(pod, v, n)
  /\ UNCHANGED <<setting, up, rules, cache, nodes, prov, dep, made, changes,
                 restarts>>

ProvisionStep(v) == Provision(v) \/ CreateDeployment(v) \/ ProvisionReturns(v)

Next ==
  \/ Start
  \/ \E s \in Settings : Stop(s)
  \/ \E n \in Nodes :
       \/ RemoveNode(n) \/ Inform(n)
       \/ \E labels \in Labelings : LabelNode(n, labels)
  \/ \E v \in Volumes :
       \/ ProvisionStep(v) \/ ProvisionFails(v)
       \/ \E n \in Nodes : Place(v, n)

\* Kubernetes restarts the provisioner, the informer delivers what it watches,
\* the controller repeats a Provision that failed and lets it go on, and the
\* scheduler places a pod that can be placed.
Fairness ==
  /\ WF_vars(Start)
  /\ \A n \in Nodes : WF_vars(Inform(n))
  /\ \A v \in Volumes :
       WF_vars(ProvisionStep(v)) /\ WF_vars(\E n \in Nodes : Place(v, n))

Spec == Init /\ [][Next]_vars /\ Fairness

-----------------------------------------------------------------------------
(* Properties *)

PartialFunctions(S, T) == UNION {[D -> T] : D \in SUBSET S}

TypeOK ==
  /\ setting \in Settings /\ up \in BOOLEAN
  /\ SelectorValid(rules)
  /\ \A i \in DOMAIN rules : \A j \in DOMAIN rules[i].values :
       rules[i].values[j] # <<>>
  /\ nodes \in PartialFunctions(Nodes, Labelings)
  /\ cache \in PartialFunctions(Nodes, Labelings)
  /\ prov \in [Volumes -> {"idle", "create", "wait", "done"}]
  /\ pod \in PartialFunctions(Volumes, Nodes)
  /\ made \in PartialFunctions(Volumes, Settings)
  /\ DOMAIN pod \subseteq DOMAIN dep /\ DOMAIN dep = DOMAIN made
  /\ changes \in 0 .. MaxChanges /\ restarts \in 0 .. MaxRestarts

\* The rules of a running provisioner are the ones its setting spells out, in
\* whatever order keys with values, keys with empty lists and bare keys come
\* (getNodeAffinityRules).
RulesAsMeant == up => rules = MeantBy(setting)

\* An NFS server is placed on a node that meets, at that moment, every rule that
\* was written when its Deployment was created: the cache may lag, the setting
\* may have been changed since, and the Deployment may be older than this process
\* ("All the comma separated specification will be ANDed").
PlacedByRules ==
  [][\A v \in DOMAIN pod' \ DOMAIN pod :
       MeetsAsMeant(nodes[pod'[v]], made[v])]_vars

\* A volume gets its NFS server once some node meets the rules for good: an empty
\* or outdated cache, a refused Provision, a restart or a changed setting only
\* delay it, as long as the controller repeats refused calls.  A Deployment that
\* exists asks for the rules it was created with.
Wanted(v) == IF v \in DOMAIN made THEN made[v] ELSE setting
EventuallyPlaced ==
  \A v \in Volumes :
    <>[](\E n \in DOMAIN nodes : MeetsAsMeant(nodes[n], Wanted(v)))
      => <>[](v \in DOMAIN pod)
=============================================================================
