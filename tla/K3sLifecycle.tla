---------------------------- MODULE K3sLifecycle ----------------------------
(***************************************************************************)
(* The life of a k3s cluster on OpenStack: the operator runs `apply' (or   *)
(* `scale', the same flow) and `delete', the CLI plans, asks and reconciles*)
(* the servers of the cloud, and the process may die between any two API   *)
(* calls.  Sources: cli/src/commands.ts, cli/src/k3s/plan.ts,              *)
(* cli/src/k3s/reconcile.ts and openstack/client cloud-provider.ts.        *)
(*                                                                         *)
(* Left to other modules: what installing k3s does (K3sBootstrap), the     *)
(* calls behind the network, the security group and the load balancer      *)
(* (OpenStackInfra).                                                       *)
(***************************************************************************)
EXTENDS Naturals, Plan

CONSTANTS
  Masters,          \* names of master servers, kumulo-<c>-master-masters-<i>
  Workers,          \* names of worker servers, kumulo-<c>-worker-<pool>-<i>
  LooksLikeWorker,  \* the names that contain the text "-worker-"
  AlsoMatches,      \* <<a, b>>: Nova's name filter for a also returns b
  Hashes,           \* config hashes of server specs
  Configs,          \* the configs the operator may write
  DnsRows,          \* does the config have DNS records (rows that always Create)
  MaxCopies,        \* bound: servers of one name that exist at a time
  MaxFaults,        \* bound: crashes, API errors, failed boots, failed hosts
  MaxEdits          \* bound: config edits and delete commands

Names == Masters \union Workers
Slots == 1..MaxCopies
Ids   == Names \X Slots      \* server ids; i[1] is the server's name

ASSUME NamesAssumption ==
  /\ Masters \intersect Workers = {}
  /\ Workers \subseteq LooksLikeWorker
  /\ LooksLikeWorker \subseteq Names
  /\ AlsoMatches \subseteq Names \X Names

ASSUME ConfigsAssumption ==
  /\ Absent \notin Hashes
  /\ NoHash \notin Hashes
  /\ Configs # {}
  /\ Configs \subseteq [Names -> Hashes \union {Absent}]
  /\ \A c \in Configs : \E m \in Masters : c[m] # Absent

ASSUME BoundsAssumption ==
  /\ MaxCopies \in Nat \ {0}
  /\ MaxFaults \in Nat
  /\ MaxEdits \in Nat
  /\ DnsRows \in BOOLEAN

VARIABLES
  config,    \* the config file: hash of every desired server's spec
  infra,     \* {"net", "lb"}: cluster network and load balancer that exist
  status,    \* the status Nova reports of each server
  built,     \* the config hash in each server's metadata
  deleting,  \* servers whose DELETE was accepted; Nova still lists them
  joined,    \* servers on which k3s is installed
  nodes,     \* names of the Node objects of the Kubernetes API
  pc,        \* where the CLI process is
  plan,      \* the plan the operator was shown
  replace,   \* the names the operator confirmed for replacement
  fiber,     \* where ensureServer, then the installation, is for each name
  target,    \* the server each fiber works on
  reap,      \* servers this phase has listed for deletion
  drained,   \* orphaned workers whose Node has been drained and removed
  faults, edits

cloud  == <<infra, status, built, deleting>>
k8s    == <<joined, nodes>>
run    == <<pc, plan, replace, fiber, target, reap, drained>>
budget == <<faults, edits>>
vars   == <<config, infra, status, built, deleting, joined, nodes,
            pc, plan, replace, fiber, target, reap, drained, faults, edits>>

Phases == {"idle", "confirm", "infra", "lb", "refuse", "drift", "masters",
           "workers", "install", "orphans", "drain", "tail",
           "delconfirm", "teardown", "servers", "cleanup"}
Steps  == {"todo", "adopt", "reap", "create", "boot", "done", "installed"}

Desired == {n \in Names : config[n] # Absent}
Live    == {i \in Ids : status[i] # "gone"}
Healthy == {i \in Live : status[i] # "ERROR"}
Named(n) == {i \in Live : i[1] = n}

\* What _listServersByTag tells the planner, one server for each name.
Inventories ==
  {have \in [Names -> Hashes \union {Absent}] :
     \A n \in Names : IF Named(n) = {} THEN have[n] = Absent
                      ELSE \E i \in Named(n) : have[n] = built[i]}

Init ==
  /\ config \in Configs
  /\ infra = {}
  /\ status = [i \in Ids |-> "gone"]
  /\ built = [i \in Ids |-> Absent]
  /\ deleting = {}
  /\ joined = {}
  /\ nodes = {}
  /\ pc = "idle"
  /\ plan = [n \in Names |-> "None"]
  /\ replace = {}
  /\ fiber = [n \in Names |-> "todo"]
  /\ target = [n \in Names |-> <<n, 1>>]
  /\ reap = {}
  /\ drained = {}
  /\ faults = 0
  /\ edits = 0

-----------------------------------------------------------------------------
(* The process: how it ends, fails and is killed.                          *)

Goto(phase) == pc' = phase

\* The process is over; its memory with it.
Exit ==
  /\ pc' = "idle"
  /\ plan' = [n \in Names |-> "None"]
  /\ replace' = {}
  /\ fiber' = [n \in Names |-> "todo"]
  /\ target' = [n \in Names |-> <<n, 1>>]
  /\ reap' = {}
  /\ drained' = {}

\* ensureServer's onError: the servers this run is booting are deleted when it
\* fails or is interrupted, and awaited gone before the process exits.
Booting == {target[n] : n \in {m \in Names : fiber[m] = "boot"}}

TearDownHalfBuilt ==
  /\ deleting' = deleting \union (Booting \intersect Live)
  /\ reap' = Booting
  /\ pc' = "cleanup"
  /\ plan' = [n \in Names |-> "None"]
  /\ replace' = {}
  /\ fiber' = [n \in Names |-> "todo"]
  /\ target' = [n \in Names |-> <<n, 1>>]
  /\ drained' = {}

CleanupDone ==
  /\ pc = "cleanup"
  /\ reap \intersect Live = {}
  /\ Exit
  /\ UNCHANGED <<config, cloud, k8s, budget>>

\* Any API call may fail; Effect interrupts the other fibers.
Fail ==
  /\ pc \notin {"idle", "cleanup"}
  /\ faults < MaxFaults
  /\ faults' = faults + 1
  /\ TearDownHalfBuilt
  /\ UNCHANGED <<config, infra, status, built, joined, nodes, edits>>

\* The process is killed, or gives up awaiting a deletion: nothing is cleaned up.
Crash ==
  /\ pc # "idle"
  /\ faults < MaxFaults
  /\ faults' = faults + 1
  /\ Exit
  /\ UNCHANGED <<config, cloud, k8s, edits>>

EditConfig ==
  /\ pc = "idle"
  /\ edits < MaxEdits
  /\ edits' = edits + 1
  /\ config' \in Configs \ {config}
  /\ UNCHANGED <<cloud, k8s, run, faults>>

-----------------------------------------------------------------------------
(* commands.ts _applyFlow: plan, decide, confirm.  A NothingToDo or a      *)
(* dry-run decision ends the command with no effect.                       *)

ApplyPlan(yes) ==
  /\ pc = "idle"
  /\ \E have \in Inventories :
       LET decision == DecidePlanAction(ComputePlan(config, have),
                         DnsRows \/ infra # {"net", "lb"}, yes, FALSE)
       IN /\ plan' = ComputePlan(config, have)
          /\ \/ decision = "Proceed" /\ Goto("infra")
                                     /\ replace' = NamesToReplace(plan')
             \/ decision = "NeedsConfirm" /\ Goto("confirm")
                                          /\ UNCHANGED replace
  /\ UNCHANGED <<config, cloud, k8s, fiber, target, reap, drained, budget>>

\* Mutant of Confirm: the interactive path forgets the confirmed names.
ConfirmForgetsReplace ==
  /\ pc = "confirm"
  /\ Goto("infra")
  /\ UNCHANGED <<config, cloud, k8s, plan, replace, fiber, target, reap, drained, budget>>

Confirm ==
  /\ pc = "confirm"
  /\ Goto("infra")
  /\ replace' = NamesToReplace(plan)
  /\ UNCHANGED <<config, cloud, k8s, plan, fiber, target, reap, drained, budget>>

Decline ==
  /\ pc \in {"confirm", "delconfirm"}
  /\ Exit
  /\ UNCHANGED <<config, cloud, k8s, budget>>

-----------------------------------------------------------------------------
(* reconcile.ts _provisionInfra                                            *)

EnsureNetwork ==
  /\ pc = "infra"
  /\ infra' = infra \union {"net"}
  /\ Goto("lb")
  /\ UNCHANGED <<config, status, built, deleting, k8s, plan, replace, fiber,
                 target, reap, drained, budget>>

EnsureLoadBalancer ==
  /\ pc = "lb"
  /\ infra' = infra \union {"lb"}
  /\ Goto("refuse")
  /\ UNCHANGED <<config, status, built, deleting, k8s, plan, replace, fiber,
                 target, reap, drained, budget>>

RefuseMasterReplace ==
  /\ pc = "refuse"
  /\ replace \intersect Masters \intersect Desired # {}
  /\ Exit
  /\ UNCHANGED <<config, cloud, k8s, budget>>

\* Mutants of ListDrifted: the list is not filtered by the confirmed names; the
\* refusal of a control-plane replace is lost.
ListDriftedUnfiltered ==
  /\ pc = "refuse"
  /\ replace \intersect Masters \intersect Desired = {}
  /\ reap' = Live
  /\ Goto("drift")
  /\ UNCHANGED <<config, cloud, k8s, plan, replace, fiber, target, drained, budget>>

ListDriftedUnrefused ==
  /\ pc = "refuse"
  /\ reap' = {i \in Live : i[1] \in replace}
  /\ Goto("drift")
  /\ UNCHANGED <<config, cloud, k8s, plan, replace, fiber, target, drained, budget>>

\* _deleteDrifted lists the inventory again and keeps the confirmed names.
ListDrifted ==
  /\ pc = "refuse"
  /\ replace \intersect Masters \intersect Desired = {}
  /\ reap' = {i \in Live : i[1] \in replace}
  /\ Goto("drift")
  /\ UNCHANGED <<config, cloud, k8s, plan, replace, fiber, target, drained, budget>>

DeleteDrifted(i) ==
  /\ pc = "drift"
  /\ i \in (reap \intersect Live) \ deleting
  /\ deleting' = deleting \union {i}
  /\ UNCHANGED <<config, infra, status, built, k8s, run, budget>>

DriftGone ==
  /\ pc = "drift"
  /\ reap \intersect Live = {}
  /\ reap' = {}
  /\ Goto("masters")
  /\ UNCHANGED <<config, cloud, k8s, plan, replace, fiber, target, drained, budget>>

-----------------------------------------------------------------------------
(* cloud-provider.ts ensureServer, one fiber per desired server of the     *)
(* phase.                                                                  *)

Running(n) ==
  /\ n \in Desired
  /\ \/ pc = "masters" /\ n \in Masters
     \/ pc = "workers" /\ n \in Workers

Step(n, s) == fiber' = [fiber EXCEPT ![n] = s]

\* _findServerByName: the first server of what the name filter returns.
Found(n) == {i \in Live : i[1] = n \/ <<n, i[1]>> \in AlsoMatches}

\* Mutant of FindNothing: create without looking.
CreateBlindly(n) ==
  /\ Running(n)
  /\ fiber[n] = "todo"
  /\ Step(n, "create")
  /\ UNCHANGED <<config, cloud, k8s, pc, plan, replace, target, reap, drained, budget>>

FindNothing(n) ==
  /\ Running(n)
  /\ fiber[n] = "todo"
  /\ Found(n) = {}
  /\ Step(n, "create")
  /\ UNCHANGED <<config, cloud, k8s, pc, plan, replace, target, reap, drained, budget>>

\* Mutant of FindExisting: adopts a server whatever its status.
AdoptAnything(n) ==
  /\ Running(n)
  /\ fiber[n] = "todo"
  /\ \E i \in Found(n) : target' = [target EXCEPT ![n] = i]
  /\ Step(n, "adopt")
  /\ UNCHANGED <<config, cloud, k8s, pc, plan, replace, reap, drained, budget>>

FindExisting(n) ==
  /\ Running(n)
  /\ fiber[n] = "todo"
  /\ \E i \in Found(n) :
       /\ status[i] # "ERROR"
       /\ target' = [target EXCEPT ![n] = i]
  /\ Step(n, "adopt")
  /\ UNCHANGED <<config, cloud, k8s, pc, plan, replace, reap, drained, budget>>

\* _adoptExisting reaps a server that booted to ERROR, and waits it gone.
FindBroken(n) ==
  /\ Running(n)
  /\ fiber[n] = "todo"
  /\ \E i \in Found(n) :
       /\ status[i] = "ERROR"
       /\ target' = [target EXCEPT ![n] = i]
       /\ deleting' = deleting \union {i}
  /\ Step(n, "reap")
  /\ UNCHANGED <<config, infra, status, built, k8s, pc, plan, replace, reap,
                 drained, budget>>

BrokenGone(n) ==
  /\ Running(n)
  /\ fiber[n] = "reap"
  /\ status[target[n]] = "gone"
  /\ Step(n, "create")
  /\ UNCHANGED <<config, cloud, k8s, pc, plan, replace, target, reap, drained, budget>>

\* Ids are not used again while the fiber of another name still awaits one.
FreeSlots(n) ==
  {s \in Slots : /\ status[<<n, s>>] = "gone"
                 /\ \A m \in Names \ {n} : target[m] # <<n, s>>}

CreateServer(n) ==
  /\ Running(n)
  /\ fiber[n] = "create"
  /\ \E s \in FreeSlots(n) :
       /\ \A t \in FreeSlots(n) : s <= t
       /\ status' = [status EXCEPT ![<<n, s>>] = "BUILD"]
       /\ built' = [built EXCEPT ![<<n, s>>] = config[n]]
       /\ target' = [target EXCEPT ![n] = <<n, s>>]
  /\ Step(n, "boot")
  /\ UNCHANGED <<config, infra, deleting, k8s, pc, plan, replace, reap, drained, budget>>

ServerActive(n) ==
  /\ Running(n)
  /\ fiber[n] \in {"adopt", "boot"}
  /\ status[target[n]] = "ACTIVE"
  /\ Step(n, "done")
  /\ UNCHANGED <<config, cloud, k8s, pc, plan, replace, target, reap, drained, budget>>

\* _waitActive fails on ERROR, and on a server that is no longer there.
ServerFails(n) ==
  /\ Running(n)
  /\ fiber[n] \in {"adopt", "boot"}
  /\ status[target[n]] \in {"ERROR", "gone"}
  /\ TearDownHalfBuilt
  /\ UNCHANGED <<config, infra, status, built, k8s, budget>>

MastersReady ==
  /\ pc = "masters"
  /\ \A n \in Desired \intersect Masters : fiber[n] = "done"
  /\ Goto("workers")
  /\ UNCHANGED <<config, cloud, k8s, plan, replace, fiber, target, reap, drained, budget>>

WorkersReady ==
  /\ pc = "workers"
  /\ \A n \in Desired \intersect Workers : fiber[n] = "done"
  /\ Goto("install")
  /\ UNCHANGED <<config, cloud, k8s, plan, replace, fiber, target, reap, drained, budget>>

-----------------------------------------------------------------------------
(* reconcile.ts _bootstrap, _installAddons, _drainOrphanedWorkers          *)

\* k3s is installed over SSH, on the workers once every master has it.
Install(n) ==
  /\ pc = "install"
  /\ n \in Desired
  /\ fiber[n] = "done"
  /\ n \in Workers => \A m \in Desired \intersect Masters : fiber[m] = "installed"
  /\ status[target[n]] = "ACTIVE"
  /\ joined' = joined \union {target[n]}
  /\ nodes' = nodes \union {target[n][1]}
  /\ Step(n, "installed")
  /\ UNCHANGED <<config, cloud, pc, plan, replace, target, reap, drained, budget>>

InstallFails(n) ==
  /\ pc = "install"
  /\ n \in Desired
  /\ fiber[n] = "done"
  /\ status[target[n]] # "ACTIVE"
  /\ Exit
  /\ UNCHANGED <<config, cloud, k8s, budget>>

InstallAddons ==
  /\ pc = "install"
  /\ \A n \in Desired : fiber[n] = "installed"
  /\ Goto("orphans")
  /\ UNCHANGED <<config, cloud, k8s, plan, replace, fiber, target, reap, drained, budget>>

ListOrphans ==
  /\ pc = "orphans"
  /\ reap' = {i \in Live : /\ i[1] \in LooksLikeWorker
                           /\ i[1] \notin Desired \intersect Workers}
  /\ Goto("drain")
  /\ UNCHANGED <<config, cloud, k8s, plan, replace, fiber, target, drained, budget>>

\* drainAndRemove: cordon, evict, delete the Node object; one at a time.
Drain(i) ==
  /\ pc = "drain"
  /\ i \in reap \ drained
  /\ drained \intersect Live = {}
  /\ nodes' = nodes \ {i[1]}
  /\ drained' = drained \union {i}
  /\ UNCHANGED <<config, cloud, joined, pc, plan, replace, fiber, target, reap, budget>>

\* Mutant of DeleteOrphan: the server goes before its Node is drained.
DeleteUndrained(i) ==
  /\ pc = "drain"
  /\ i \in (reap \intersect Live) \ deleting
  /\ deleting' = deleting \union {i}
  /\ UNCHANGED <<config, infra, status, built, k8s, run, budget>>

DeleteOrphan(i) ==
  /\ pc = "drain"
  /\ i \in (drained \intersect Live) \ deleting
  /\ deleting' = deleting \union {i}
  /\ UNCHANGED <<config, infra, status, built, k8s, run, budget>>

OrphansGone ==
  /\ pc = "drain"
  /\ reap \subseteq drained
  /\ drained \intersect Live = {}
  /\ Goto("tail")
  /\ UNCHANGED <<config, cloud, k8s, plan, replace, fiber, target, reap, drained, budget>>

\* DNS, CDN, volumes and the kubeconfig; the command reports success.
Finish ==
  /\ pc = "tail"
  /\ Exit
  /\ UNCHANGED <<config, cloud, k8s, budget>>

-----------------------------------------------------------------------------
(* commands.ts del and cloud-provider.ts deleteByTag                       *)

DeletePlan(yes) ==
  /\ pc = "idle"
  /\ Live # {} \/ infra # {}
  /\ edits < MaxEdits
  /\ edits' = edits + 1
  /\ \/ yes /\ Goto("teardown")
     \/ ~yes /\ Goto("delconfirm")
  /\ UNCHANGED <<config, cloud, k8s, plan, replace, fiber, target, reap, drained, faults>>

ConfirmDelete ==
  /\ pc = "delconfirm"
  /\ Goto("teardown")
  /\ UNCHANGED <<config, cloud, k8s, plan, replace, fiber, target, reap, drained, budget>>

DeleteLoadBalancer ==
  /\ pc = "teardown"
  /\ infra' = infra \ {"lb"}
  /\ reap' = Live
  /\ Goto("servers")
  /\ UNCHANGED <<config, status, built, deleting, k8s, plan, replace, fiber,
                 target, drained, budget>>

\* _deleteServers issues every DELETE and waits for none of them.
DeleteServer(i) ==
  /\ pc = "servers"
  /\ i \in reap
  /\ deleting' = deleting \union ({i} \intersect Live)
  /\ reap' = reap \ {i}
  /\ UNCHANGED <<config, infra, status, built, k8s, pc, plan, replace, fiber,
                 target, drained, budget>>

DeleteNetwork ==
  /\ pc = "servers"
  /\ reap = {}
  /\ infra' = {}
  /\ Exit
  /\ UNCHANGED <<config, status, built, deleting, k8s, budget>>

\* A port of a server that is still there: the delete fails, to be re-run.
NetworkInUse ==
  /\ pc = "servers"
  /\ reap = {}
  /\ Live # {}
  /\ Exit
  /\ UNCHANGED <<config, cloud, k8s, budget>>

-----------------------------------------------------------------------------
(* Nova                                                                    *)

Boot(i) ==
  /\ status[i] = "BUILD"
  /\ i \notin deleting
  /\ status' = [status EXCEPT ![i] = "ACTIVE"]
  /\ UNCHANGED <<config, infra, built, deleting, k8s, run, budget>>

\* A boot, or later the host of a server, fails.
Break(i) ==
  /\ i \in Healthy \ deleting
  /\ faults < MaxFaults
  /\ faults' = faults + 1
  /\ status' = [status EXCEPT ![i] = "ERROR"]
  /\ UNCHANGED <<config, infra, built, deleting, k8s, run, edits>>

\* A deleted server goes; the Node objects go with the last etcd member.
Vanish(i) ==
  /\ i \in deleting
  /\ status' = [status EXCEPT ![i] = "gone"]
  /\ built' = [built EXCEPT ![i] = Absent]
  /\ deleting' = deleting \ {i}
  /\ joined' = joined \ {i}
  /\ nodes' = IF \E j \in joined' : j[1] \in Masters THEN nodes ELSE {}
  /\ UNCHANGED <<config, infra, run, budget>>

-----------------------------------------------------------------------------
Fiber(n) ==
  \/ FindNothing(n) \/ FindExisting(n) \/ FindBroken(n) \/ BrokenGone(n)
  \/ CreateServer(n) \/ ServerActive(n) \/ ServerFails(n)
  \/ Install(n) \/ InstallFails(n)

Progress ==
  \/ Confirm \/ EnsureNetwork \/ EnsureLoadBalancer
  \/ RefuseMasterReplace \/ ListDrifted \/ DriftGone
  \/ MastersReady \/ WorkersReady \/ InstallAddons
  \/ ListOrphans \/ OrphansGone \/ Finish \/ CleanupDone
  \/ ConfirmDelete \/ DeleteLoadBalancer \/ DeleteNetwork \/ NetworkInUse
  \/ \E n \in Names : Fiber(n)
  \/ \E i \in Ids : \/ DeleteDrifted(i) \/ Drain(i) \/ DeleteOrphan(i)
                    \/ DeleteServer(i)

Settle == \E i \in Ids : Boot(i) \/ Vanish(i)

Next ==
  \/ Progress
  \/ Settle
  \/ \E yes \in BOOLEAN : ApplyPlan(yes) \/ DeletePlan(yes)
  \/ Decline \/ EditConfig \/ Fail \/ Crash
  \/ \E i \in Ids : Break(i)

Spec == Init /\ [][Next]_vars

\* The process keeps running, the cloud completes what it accepted, and the
\* operator keeps re-running `apply --yes' as long as it has something to do.
FairSpec ==
  /\ Spec
  /\ WF_vars(Progress)
  /\ WF_vars(Settle)
  /\ SF_vars(ApplyPlan(TRUE))

-----------------------------------------------------------------------------
(* Properties                                                              *)

TypeOK ==
  /\ config \in Configs
  /\ infra \subseteq {"net", "lb"}
  /\ status \in [Ids -> {"gone", "BUILD", "ACTIVE", "ERROR"}]
  /\ built \in [Ids -> Hashes \union {Absent}]
  /\ deleting \subseteq Ids
  /\ joined \subseteq Ids
  /\ nodes \subseteq Names
  /\ pc \in Phases
  /\ plan \in [Names -> Actions]
  /\ replace \subseteq Names
  /\ fiber \in [Names -> Steps]
  /\ target \in [Names -> Ids]
  /\ reap \subseteq Ids
  /\ drained \subseteq Ids
  /\ faults \in 0..MaxFaults
  /\ edits \in 0..MaxEdits

\* The names whose filter finds no other server. Nova takes the name as a
\* pattern: worker -1 of a pool of ten is not exact, for its filter also returns
\* -10, and ensureServer then adopts or reaps the first answer.
Exact == {n \in Names : \A b \in Names : <<n, b>> \in AlsoMatches => b = n}

\* The masters that _drainOrphanedWorkers takes for workers nobody wants: all
\* of them when the cluster's own name brings "-worker-" into theirs.
Mistaken == Masters \intersect LooksLikeWorker

\* An interrupted or re-run apply never duplicates a server (the comment on
\* applyServers, core/src/reconcile/apply.ts): one server per exact name,
\* counting the ones that are broken or still being deleted, whatever the
\* fibers of the other names do to it.
OneServerPerName ==
  \A i, j \in Live : i[1] = j[1] /\ i[1] \in Exact => i = j

\* Servers whose deletion this step requests, other than the broken ones that
\* ensureServer reaps and the half-built ones it takes back.
Destroyed == ((deleting' \ deleting) \intersect Healthy) \ Booting

\* No command destroys a healthy server that the operator was not shown as a
\* row to replace or to delete, and confirmed: the inventory is listed again
\* after the confirmation, and what it says then must not widen the damage.
\* The mistaken masters are destroyed unasked.
OnlyConfirmedDestroyed ==
  [][\A i \in Destroyed :
       \/ pc = "servers"
       \/ plan[i[1]] = "ReplaceNeedsConfirm" /\ i[1] \in replace
       \/ plan[i[1]] = "Delete"
       \/ i[1] \in Mistaken]_vars

\* An apply never destroys a healthy master, whatever was confirmed: replacing
\* every master at once would wipe the etcd quorum (reconcile.ts:92). It does
\* destroy the masters it mistakes for workers.
MastersSurviveApply ==
  [][pc # "servers" => \A i \in Destroyed : i[1] \notin Masters \ Mistaken]_vars

\* A worker the config no longer wants loses its server only after its Node was
\* drained and removed (drain.ts:15), across crashes and re-runs.
DrainedBeforeDestroyed ==
  [][\A i \in Destroyed :
       pc # "servers" /\ i[1] \in Workers \ Desired => i[1] \notin nodes]_vars

\* What an apply that reports success leaves behind: every desired exact name
\* is a server of that name; every server of such a name that is not going away
\* carries the hash of the current config and runs k3s; no worker is left that
\* the config does not name. A name that is not exact may have been served by
\* another's server, with success.
SuccessLeavesNoDrift ==
  [][Finish =>
       /\ \A n \in Desired \intersect Exact : target[n][1] = n
       /\ \A i \in Live \ deleting :
            i[1] \in Desired \intersect Exact
              => built[i] = config[i[1]] /\ i \in joined
       /\ \A i \in Live : i[1] \in Workers => i[1] \in Desired]_vars

Converged ==
  /\ \A n \in Desired : \E i \in Named(n) : /\ status[i] = "ACTIVE"
                                            /\ built[i] = config[n]
                                            /\ i \in joined \ deleting
  /\ \A i \in Live : i[1] \in Workers => i[1] \in Desired

\* Masters that drifted are refused for ever: the config must be reverted.
MasterDrifted ==
  \E i \in Live : i[1] \in Desired \intersect Masters /\ built[i] # config[i[1]]

\* Re-running converges, whatever was interrupted or broke on the way.
EventuallyConverges == <>[](Converged \/ MasterDrifted)

\* README.md:129, "Re-running converges -- safe to interrupt": when a re-run of
\* apply would say that there is nothing to do, the cluster is converged.
NothingToDoIsConverged ==
  pc = "idle" =>
    \A have \in Inventories :
      DecidePlanAction(ComputePlan(config, have),
        DnsRows \/ infra # {"net", "lb"}, TRUE, FALSE) = "NothingToDo"
      => Converged
=============================================================================
