----------------------------- MODULE NFSServer -----------------------------
(***************************************************************************)
(* The container of the NFS server Deployment, nfsd.sh: it prepares the    *)
(* exports and the ownership and mode of the shared directory, starts the  *)
(* kernel NFS server and watches rpc.mountd.  The container is restarted   *)
(* in its pod when the script exits; the shared directory is on the        *)
(* backend PV and outlives it, the kernel's NFS threads and exports live   *)
(* as long as the pod.                                                     *)
(***************************************************************************)
EXTENDS Naturals

CONSTANTS
  Files,      \* what the shared directory holds when the volume is attached
  MaxFaults,  \* bound on killed containers, dying and failing daemons
  MaxErrors   \* bound on nodes that refuse a chown or chmod

ASSUME ServerAssumption ==
  MaxFaults \in Nat /\ MaxErrors \in Nat /\ "root" \notin Files

Nodes == Files \cup {"root"}

\* FILEPERMISSIONS_UID, FILEPERMISSIONS_GID and FILEPERMISSIONS_MODE.
Owners == {"uid", "gid"}
Attributes == Owners \cup {"mode"}

VARIABLES
  config,   \* the environment of the pod template
  tree,     \* tree[a]: the nodes that have the requested attribute a
  skipped,  \* the nodes on which the running chown -R or chmod -R failed
  pc,       \* where the script stands
  nfsd,     \* are the kernel's NFS threads running?
  exported, \* is the directory exported?
  mountd,   \* is rpc.mountd running?
  faults,   \* history: faults and refused changes so far
  errors,
  refused   \* history: refused[a]: the nodes that ever refused attribute a

vars == <<config, tree, skipped, pc, nfsd, exported, mountd, faults, errors,
          refused>>

Settings == {"unset", "valid", "invalid"}

ScriptPC == {"down", "exports", "uid", "gid", "mode", "uidWalk", "gidWalk",
             "modeWalk", "nfsd", "exportfs", "mountd", "check", "monitor"}

TypeOK ==
  /\ config \in [dir : BOOLEAN, custom : Settings,
                 want : [Attributes -> Settings]]
  /\ tree \in [Attributes -> SUBSET Nodes]
  /\ skipped \subseteq Nodes
  /\ pc \in ScriptPC
  /\ nfsd \in BOOLEAN /\ exported \in BOOLEAN /\ mountd \in BOOLEAN
  /\ faults \in 0 .. MaxFaults /\ errors \in 0 .. MaxErrors
  /\ refused \in [Attributes -> SUBSET Nodes]

\* A volume that comes with its root as requested is as requested throughout:
\* the script looks at the root only, by design.
Init ==
  /\ config \in [dir : BOOLEAN, custom : Settings,
                 want : [Attributes -> Settings]]
  /\ tree \in [Attributes -> {{}, Nodes}]
  /\ skipped = {}
  /\ pc = "down"
  /\ nfsd = FALSE /\ exported = FALSE /\ mountd = FALSE
  /\ faults = 0 /\ errors = 0
  /\ refused = [a \in Attributes |-> {}]

-----------------------------------------------------------------------------

Fault == faults < MaxFaults /\ faults' = faults + 1

Go(next) == pc' = next /\ UNCHANGED mountd

\* The container ends, and rpc.mountd with it.
Exit == pc' = "down" /\ mountd' = FALSE

\* A step of the script outside chown -R and chmod -R.
Undisturbed == UNCHANGED <<config, skipped, errors, refused>>

AfterUnknown(a) == IF a = "uid" THEN "gid" ELSE "rpcbind"

\* The block that follows the one for attribute a.
After(a) == [uid |-> "gid", gid |-> "mode", mode |-> "nfsd"][a]
Walk(a) == [uid |-> "uidWalk", gid |-> "gidWalk", mode |-> "modeWalk"][a]

\* kubelet starts the container, in the same pod or in a new one.
StartContainer ==
  /\ pc = "down" /\ Go("exports")
  /\ Undisturbed /\ UNCHANGED <<tree, nfsd, exported, faults>>

\* /etc/exports is made from the template of the image, or is what
\* CUSTOM_EXPORTS_CONFIG says; without SHARED_DIRECTORY the script ends.
WriteExports ==
  /\ pc = "exports"
  /\ IF config.dir THEN Go("uid") ELSE Exit
  /\ Undisturbed /\ UNCHANGED <<tree, nfsd, exported, faults>>

\* The owner block in the manner of the mode block: the root is changed first.
CheckOwnerChangingRoot(a) ==
  /\ pc = a
  /\ \/ config.want[a] = "unset" /\ Go(After(a)) /\ tree' = tree
     \/ config.want[a] = "invalid" /\ Exit /\ tree' = tree
     \/ /\ config.want[a] = "valid"
        /\ tree' = [tree EXCEPT ![a] = @ \cup {"root"}]
        /\ Go(IF "root" \in tree[a] THEN After(a) ELSE Walk(a))
  /\ Undisturbed /\ UNCHANGED <<nfsd, exported, faults>>

\* The owner block: validate the number, compare the root, walk on mismatch.
CheckOwner(a) ==
  /\ pc = a
  /\ \/ config.want[a] = "unset" /\ Go(After(a))
     \/ config.want[a] = "invalid" /\ Exit
     \/ config.want[a] = "valid" /\ "root" \in tree[a] /\ Go(After(a))
     \/ config.want[a] = "valid" /\ "root" \notin tree[a] /\ Go(Walk(a))
  /\ Undisturbed /\ UNCHANGED <<tree, nfsd, exported, faults>>

\* chown -R of coreutils visits a directory after what is in it, chmod -R before
\* (the root has its mode by then).
Visit(a, n) ==
  /\ pc = Walk(a) /\ n \notin tree[a] \cup skipped
  /\ a \in Owners /\ n = "root" => Files \subseteq tree[a] \cup skipped

Change(a, n) ==
  /\ Visit(a, n)
  /\ tree' = [tree EXCEPT ![a] = @ \cup {n}]
  /\ UNCHANGED <<config, skipped, pc, nfsd, exported, mountd, faults, errors,
                 refused>>

\* A node refuses: the walk goes on, and fails at its end.
ChangeFails(a, n) ==
  /\ Visit(a, n) /\ errors < MaxErrors
  /\ errors' = errors + 1
  /\ skipped' = skipped \cup {n}
  /\ refused' = [refused EXCEPT ![a] = @ \cup {n}]
  /\ UNCHANGED <<config, tree, pc, nfsd, exported, mountd, faults>>

\* CHOWN_UID_ERROR, CHOWN_GID_ERROR, CHMOD_ERROR: the script ends.
WalkDone(a) ==
  /\ pc = Walk(a) /\ tree[a] \cup skipped = Nodes
  /\ IF skipped = {} THEN Go(After(a)) ELSE Exit
  /\ skipped' = {}
  /\ UNCHANGED <<config, tree, nfsd, exported, faults, errors, refused>>

\* The mode block without its test of an invalid mode.
TestChmodUnchecked ==
  /\ pc = "mode"
  /\ \/ config.want["mode"] # "valid" /\ Go("nfsd") /\ tree' = tree
     \/ /\ config.want["mode"] = "valid"
        /\ tree' = [tree EXCEPT !["mode"] = @ \cup {"root"}]
        /\ Go(IF "root" \in tree["mode"] THEN "nfsd" ELSE "modeWalk")
  /\ Undisturbed /\ UNCHANGED <<nfsd, exported, faults>>

\* The mode block: chmod -c of the root tests the mode and sets it; its output
\* tells whether the root changed.
TestChmod ==
  /\ pc = "mode"
  /\ \/ config.want["mode"] = "unset" /\ Go("nfsd") /\ tree' = tree
     \/ config.want["mode"] = "invalid" /\ Exit /\ tree' = tree
     \/ /\ config.want["mode"] = "valid"
        /\ tree' = [tree EXCEPT !["mode"] = @ \cup {"root"}]
        /\ Go(IF "root" \in tree["mode"] THEN "nfsd" ELSE "modeWalk")
  /\ Undisturbed /\ UNCHANGED <<nfsd, exported, faults>>

\* The root refuses a valid mode, which the script takes for an invalid one.
TestChmodFails ==
  /\ pc = "mode" /\ config.want["mode"] = "valid" /\ errors < MaxErrors
  /\ errors' = errors + 1
  /\ refused' = [refused EXCEPT !["mode"] = @ \cup {"root"}]
  /\ Exit
  /\ UNCHANGED <<config, tree, skipped, nfsd, exported, faults>>

-----------------------------------------------------------------------------
(* The start-up loop and the monitor *)

\* rpcbind and rpc.nfsd: their exit status is not looked at.
StartNfsd ==
  /\ pc = "nfsd" /\ Go("exportfs")
  /\ \/ nfsd' = TRUE /\ faults' = faults
     \/ nfsd' = nfsd /\ Fault
  /\ Undisturbed /\ UNCHANGED <<tree, exported>>

ExportsValid == config.custom # "invalid"

Exportfs ==
  /\ pc = "exportfs"
  /\ \/ ExportsValid /\ exported' = TRUE /\ Go("mountd")
     \/ ~ ExportsValid /\ exported' = exported /\ Exit
  /\ Undisturbed /\ UNCHANGED <<tree, nfsd, faults>>

StartMountd ==
  /\ pc = "mountd" /\ pc' = "check"
  /\ \/ mountd' = TRUE /\ faults' = faults
     \/ mountd' = mountd /\ Fault
  /\ Undisturbed /\ UNCHANGED <<tree, nfsd, exported>>

\* pidof rpc.mountd: start again until it runs.
CheckMountd ==
  /\ pc = "check"
  /\ Go(IF mountd THEN "monitor" ELSE "nfsd")
  /\ Undisturbed /\ UNCHANGED <<tree, nfsd, exported, faults>>

MountdDies ==
  /\ mountd /\ mountd' = FALSE /\ Fault
  /\ Undisturbed /\ UNCHANGED <<tree, pc, nfsd, exported>>

\* The second loop, looking at the kernel threads instead.
MonitorNfsd ==
  /\ pc = "monitor" /\ ~ nfsd
  /\ Exit
  /\ Undisturbed /\ UNCHANGED <<tree, nfsd, exported, faults>>

\* The second loop ends the container when rpc.mountd is gone.
Monitor ==
  /\ pc = "monitor" /\ ~ mountd
  /\ Exit
  /\ Undisturbed /\ UNCHANGED <<tree, nfsd, exported, faults>>

\* SIGTERM when the pod is deleted: stop, and the Deployment makes a new pod.
\* bash runs the trap between two commands, so not during chown or chmod -R.
Stop ==
  /\ pc # "down" /\ (\A a \in Attributes : pc # Walk(a)) /\ Fault
  /\ Exit
  /\ nfsd' = FALSE /\ exported' = FALSE
  /\ Undisturbed /\ UNCHANGED tree

\* The container is killed; the pod stays, or goes and takes its kernel state.
Kill ==
  /\ pc # "down" /\ Fault
  /\ Exit /\ skipped' = {}
  /\ \/ UNCHANGED <<nfsd, exported>>
     \/ nfsd' = FALSE /\ exported' = FALSE
  /\ UNCHANGED <<config, tree, errors, refused>>

-----------------------------------------------------------------------------

ScriptStep ==
  \/ StartContainer \/ WriteExports
  \/ \E a \in Owners : CheckOwner(a)
  \/ TestChmod
  \/ \E a \in Attributes : WalkDone(a) \/ \E n \in Nodes : Change(a, n)
  \/ StartNfsd \/ Exportfs \/ StartMountd \/ CheckMountd \/ Monitor

Next ==
  \/ ScriptStep
  \/ TestChmodFails
  \/ \E a \in Attributes, n \in Nodes : ChangeFails(a, n)
  \/ MountdDies \/ Stop \/ Kill

Spec == Init /\ [][Next]_vars

\* The script runs on, and kubelet restarts the container when it has ended.
FairSpec == Spec /\ WF_vars(ScriptStep)

-----------------------------------------------------------------------------
(* Properties *)

Requested == {a \in Attributes : config.want[a] = "valid"}

\* While the directory is exported, all of it has the requested owner and group,
\* but for nodes that themselves refused the chown: a chown -R that was killed
\* half-way, or that failed at some node, is made up for by the next start,
\* because the root is changed last (the "OnRootMismatch-like check").
OwnersBeforeExport ==
  exported => \A a \in Requested \cap Owners : Nodes \ tree[a] \subseteq refused[a]

\* "The file permission changes are handled before the NFS server initializes",
\* the mode included (the chmod block of nfsd.sh).
PermissionsBeforeExport == exported => \A a \in Requested : tree[a] = Nodes

\* A pod with a setting that its script rejects never exports the directory, in
\* no life of the container.
RejectedNeverExported ==
  exported =>
    /\ config.dir /\ ExportsValid
    /\ \A a \in Attributes : config.want[a] # "invalid"

\* The inductive invariant behind these two.  Steps that come after the block for
\* attribute a.
Past(a) ==
  {"nfsd", "exportfs", "mountd", "check", "monitor"} \cup
  [uid |-> {"gid", "gidWalk", "mode", "modeWalk"},
   gid |-> {"mode", "modeWalk"}, mode |-> {}][a]

\* A walk has skipped only nodes that refused; outside a walk none is skipped.
SkippedRefused ==
  /\ \A a \in Attributes : pc = Walk(a) => skipped \subseteq refused[a]
  /\ (\A a \in Attributes : pc # Walk(a)) => skipped = {}

\* A root with its owner vouches for everything below it.
RootVouches ==
  \A a \in Owners : "root" \in tree[a] => Nodes \ tree[a] \subseteq refused[a]

\* What is behind the script, and behind an export of any earlier life.
BlockPassed(a) ==
  /\ config.want[a] # "invalid"
  /\ a \in Owners /\ config.want[a] = "valid" => "root" \in tree[a]
BlocksPassed ==
  /\ pc \notin {"down", "exports"} => config.dir
  /\ pc \in {"mountd", "check", "monitor"} => ExportsValid
  /\ \A a \in Attributes :
       /\ pc = Walk(a) => config.want[a] = "valid"
       /\ exported \/ pc \in Past(a) => BlockPassed(a)
  /\ exported => config.dir /\ ExportsValid

Inv == TypeOK /\ SkippedRefused /\ RootVouches /\ BlocksPassed

\* Past the start-up loop ("This loop runs till until we've started up
\* successfully") the NFS server is running.
StartedUp == pc = "monitor" => nfsd

Accepted ==
  /\ config.dir /\ ExportsValid
  /\ \A a \in Attributes : config.want[a] # "invalid"

\* With settings the script accepts, the directory is exported and rpc.mountd
\* runs in the end and for good, once nothing is killed any more: failed walks,
\* failed starts and a dying rpc.mountd are all retried.
EventuallyExported == Accepted => <>[](exported /\ mountd)
=============================================================================
