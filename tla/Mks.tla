--------------------------------- MODULE Mks ---------------------------------
(***************************************************************************)
(* A managed OVH cluster (MKS) with its private network, gateway, ingress  *)
(* load balancer and node pools.  OVH fixes the network of a cluster when  *)
(* it creates it, upgrades one minor version at a time to a version the    *)
(* request cannot name, and keys node pools by name, so a changed pool is  *)
(* deleted before its successor is created.  Sources: cli/src/mks          *)
(* {plan,reconcile}.ts, ovh/distro-mks/src/distro/*.ts and the network and *)
(* load balancer part of openstack/client cloud-provider.ts.               *)
(***************************************************************************)
EXTENDS Naturals, Plan

CONSTANTS
  Pools,
  Hashes,      \* hashes of the immutable part of a pool: flavor and billing
  Configs,     \* what the operator may ask
  DnsRows,     \* does the config ask for DNS records? (their rows never are NoOp)
  MaxVersion,  \* bound: the newest Kubernetes minor version OVH has
  MaxFaults,   \* bound: failures, things made by hand, balancers of Services
  MaxEdits     \* bound: edits of the config, deletions, upgrade commands

ControlPlane == "control plane"  \* the name of the row of the cluster itself
Versions == 1..MaxVersion
CountsOf == {c.count[p] : c \in Configs, p \in Pools} \union {0}

\* distro-mks config.ts isIngressPlaceable: an ingress needs the private network.
ASSUME MksAssumption ==
  /\ Absent \notin Hashes
  /\ NoHash \notin Hashes
  /\ Absent \notin Pools
  /\ ControlPlane \notin Pools
  /\ DnsRows \in BOOLEAN
  /\ MaxVersion \in Nat /\ MaxFaults \in Nat /\ MaxEdits \in Nat
  /\ Configs # {}
  /\ \A c \in Configs : /\ c.hash \in [Pools -> Hashes \union {Absent}]
                        /\ c.count \in [Pools -> Nat]
                        /\ c.version \in Versions
                        /\ c.private \in BOOLEAN
                        /\ c.ingress \in BOOLEAN
                        /\ c.ingress => c.private

VARIABLES
  config,   \* the config file
  network,  \* what there is of "net" and its two subnets
  gateway,  \* "none", "attached" to the nodes subnet, or "detached"
  lb,       \* the ingress load balancer: "none", "up" or "deleting"
  fip,      \* its floating IP: "none", "attached", or "loose"
  ports,    \* a Service's own load balancer has ports on the network
  kube,     \* the state of the cluster
  kubeNet,  \* was the cluster created on the private network?
  version,  \* the minor version it runs
  made,     \* the flavor of each pool, as its hash
  stamp,    \* the hash annotated on each pool
  count,    \* its number of nodes
  leaving,  \* the pools being deleted
  pc,       \* where the CLI process is
  replace,  \* the pools whose replacement the operator confirmed
  toDelete, toReplace, toCreate, toUpdate,  \* the diff, as far as not done
  target,   \* the pool being replaced
  faults, edits

infra   == <<network, gateway, lb, fip, ports>>
cluster == <<kube, kubeNet, version>>
pools   == <<made, stamp, count, leaving>>
cloud   == <<network, gateway, lb, fip, ports, kube, kubeNet, version,
             made, stamp, count, leaving>>
diff    == <<toDelete, toReplace, toCreate, toUpdate, target>>
run     == <<pc, replace, toDelete, toReplace, toCreate, toUpdate, target>>
budget  == <<faults, edits>>
vars    == <<config, network, gateway, lb, fip, ports, kube, kubeNet, version,
             made, stamp, count, leaving, pc, replace, toDelete, toReplace,
             toCreate, toUpdate, target, faults, edits>>

Desired == {p \in Pools : config.hash[p] # Absent}
Listed  == {p \in Pools : made[p] # Absent}

Init ==
  /\ config \in Configs
  /\ network = {} /\ gateway = "none" /\ lb = "none" /\ fip = "none"
  /\ ports = FALSE
  /\ kube = "none" /\ kubeNet = FALSE /\ version = 1
  /\ made = [p \in Pools |-> Absent] /\ stamp = [p \in Pools |-> Absent]
  /\ count = [p \in Pools |-> 0]
  /\ leaving = {}
  /\ pc = "idle"
  /\ replace = {}
  /\ toDelete = {} /\ toReplace = {} /\ toCreate = {} /\ toUpdate = {}
  /\ target = Absent
  /\ faults = 0 /\ edits = 0

\* The process ends, well or badly.
Exit ==
  /\ pc' = "idle"
  /\ replace' = {}
  /\ toDelete' = {} /\ toReplace' = {} /\ toCreate' = {} /\ toUpdate' = {}
  /\ target' = Absent

\* The process goes on at `step'.
GoTo(step) ==
  /\ pc' = step
  /\ UNCHANGED <<replace, toDelete, toReplace, toCreate, toUpdate, target>>

-----------------------------------------------------------------------------
(* plan.ts                                                                 *)

\* cluster-drift.ts clusterDrift; regions and subnet ids do not change here.
ClusterDrift ==
  CASE kubeNet # config.private                                -> "Blocked"
    [] kubeNet = config.private /\ config.version = version     -> "None"
    [] kubeNet = config.private /\ config.version = version + 1 -> "Upgrade"
    [] OTHER                                                    -> "Blocked"

\* plan.ts _clusterAction
ClusterAction ==
  CASE kube = "none"                                -> "Create"
    [] kube # "none" /\ ClusterDrift = "None"       -> "NoOp"
    [] kube # "none" /\ ClusterDrift = "Upgrade"    -> "Update"
    [] OTHER                                        -> "ReplaceNeedsConfirm"

\* plan.ts _poolAction: rows for the pools of the config only, by the hash.
PoolAction(p) ==
  IF p \in Desired THEN ActionFor(config.hash[p], stamp[p]) ELSE "None"

PoolPlan == [p \in Pools |-> PoolAction(p)]

\* The rows outside the pools: _networkActions, _clusterAction, _ingressActions.
OtherWork ==
  \/ config.private /\ ~(kube # "none" /\ kubeNet)
  \/ ClusterAction # "NoOp"
  \/ config.ingress /\ kube = "none"
  \/ DnsRows

\* commands.ts _applyFlow, then _poolsToReplace: whatever was confirmed, the
\* control plane is not replaced.
ApplyPlan(yes) ==
  /\ pc = "idle"
  /\ LET decision == DecidePlanAction(PoolPlan, OtherWork, yes, FALSE)
     IN \/ decision = "Proceed" /\ pc' = "start"
        \/ decision = "NeedsConfirm" /\ pc' = "confirm"
  /\ replace' = NamesToReplace(PoolPlan)
                  \union (IF ClusterAction = "ReplaceNeedsConfirm" THEN {ControlPlane} ELSE {})
  /\ UNCHANGED <<config, cloud, diff, budget>>

Confirm ==
  /\ pc = "confirm"
  /\ GoTo("start")
  /\ UNCHANGED <<config, cloud, budget>>

Decline ==
  /\ pc \in {"confirm", "confirmDelete"}
  /\ Exit
  /\ UNCHANGED <<config, cloud, budget>>

RefuseControlPlane ==
  /\ pc = "start"
  /\ ControlPlane \in replace
  /\ Exit
  /\ UNCHANGED <<config, cloud, budget>>

Start ==
  /\ pc = "start"
  /\ ControlPlane \notin replace
  /\ GoTo(IF config.private THEN "drift" ELSE "find")
  /\ UNCHANGED <<config, cloud, budget>>

-----------------------------------------------------------------------------
(* reconcile.ts _ensureMksNetwork                                          *)

\* _refuseClusterDrift, before the first write.
RefuseDrift ==
  /\ pc = "drift"
  /\ kube # "none" /\ ~kubeNet
  /\ Exit
  /\ UNCHANGED <<config, cloud, budget>>

NoDrift ==
  /\ pc = "drift"
  /\ kube = "none" \/ kubeNet
  /\ GoTo("net")
  /\ UNCHANGED <<config, cloud, budget>>

\* Mutant of HasSubnetIds: one subnet is enough.
HasANodesSubnet == "nodes" \in network

\* reconcile.ts _networkIds
HasSubnetIds == {"nodes", "balancers"} \subseteq network

\* cloud-provider.ts ensureNetwork: only a network without any subnet gets them.
EnsureNetworkId ==
  /\ pc = "net"
  /\ network \intersect {"nodes", "balancers"} = {}
  /\ network' = network \union {"net"}
  /\ GoTo("nodes")
  /\ UNCHANGED <<config, gateway, lb, fip, ports, cluster, pools, budget>>

CreateNodesSubnet ==
  /\ pc = "nodes"
  /\ network' = network \union {"nodes"}
  /\ GoTo("balancers")
  /\ UNCHANGED <<config, gateway, lb, fip, ports, cluster, pools, budget>>

CreateBalancersSubnet ==
  /\ pc = "balancers"
  /\ network' = network \union {"balancers"}
  /\ GoTo("gateway")
  /\ UNCHANGED <<config, gateway, lb, fip, ports, cluster, pools, budget>>

AdoptNetwork ==
  /\ pc = "net"
  /\ network \intersect {"nodes", "balancers"} # {}
  /\ HasSubnetIds
  /\ GoTo("gateway")
  /\ UNCHANGED <<config, cloud, budget>>

NoSubnetIds ==
  /\ pc = "net"
  /\ network \intersect {"nodes", "balancers"} # {}
  /\ ~HasSubnetIds
  /\ Exit
  /\ UNCHANGED <<config, cloud, budget>>

\* _ensureMksGateway: a gateway of that name will do, attached or not.
EnsureGateway ==
  /\ pc = "gateway"
  /\ gateway' = IF gateway = "none" THEN "attached" ELSE gateway
  /\ GoTo("find")
  /\ UNCHANGED <<config, network, lb, fip, ports, cluster, pools, budget>>

-----------------------------------------------------------------------------
(* ensure-cluster.ts ensureCluster                                         *)

CreateCluster ==
  /\ pc = "find"
  /\ kube = "none"
  /\ kube' = "INSTALLING"
  /\ kubeNet' = config.private
  /\ version' = config.version
  /\ GoTo("ready")
  /\ UNCHANGED <<config, infra, pools, budget>>

\* _convergeCluster, from what was read; whatever the cluster is doing.
FindCluster ==
  /\ pc = "find"
  /\ kube # "none"
  /\ \/ ClusterDrift = "None" /\ GoTo("ready")
     \/ ClusterDrift = "Upgrade" /\ GoTo("upgrade")
     \/ ClusterDrift = "Blocked" /\ Exit
  /\ UNCHANGED <<config, cloud, budget>>

\* upgrade.ts, strategy NEXT_MINOR: the next minor of what runs by now.  OVH
\* takes it for a cluster that is READY and has a newer minor.
RequestUpgrade ==
  /\ pc \in {"upgrade", "upgradeOnly"}
  /\ \/ /\ kube = "READY" /\ version < MaxVersion
        /\ kube' = "UPDATING"
        /\ IF pc = "upgrade" THEN GoTo("ready") ELSE Exit
     \/ /\ kube # "READY" \/ version = MaxVersion
        /\ kube' = kube
        /\ Exit
  /\ UNCHANGED <<config, infra, kubeNet, version, pools, budget>>

ClusterReady ==
  /\ pc = "ready"
  /\ kube = "READY"
  /\ GoTo("list")
  /\ UNCHANGED <<config, cloud, budget>>

\* The cluster that is awaited is deleted: the poll gets a 404.
ClusterLost ==
  /\ pc = "ready"
  /\ kube = "none"
  /\ Exit
  /\ UNCHANGED <<config, cloud, budget>>

-----------------------------------------------------------------------------
(* nodepool-diff.ts diffNodePools and ensure-nodepools.ts                  *)

ImmutableDiff(p) == made[p] # config.hash[p]
MutableDiff(p)   == count[p] # config.count[p]

\* Mutants of ListPools: a changed pool is replaced whether confirmed or not;
\* counts are left as they are.
ListPoolsUnconfirmed ==
  /\ pc = "list"
  /\ toDelete' = Listed \ Desired
  /\ toReplace' = {p \in Desired \intersect Listed : ImmutableDiff(p)}
  /\ toCreate' = Desired \ Listed
  /\ toUpdate' = {p \in Desired \intersect Listed : ~ImmutableDiff(p) /\ MutableDiff(p)}
  /\ pc' = "pools"
  /\ UNCHANGED <<config, cloud, replace, target, budget>>

ListPoolsUncounted ==
  /\ pc = "list"
  /\ toDelete' = Listed \ Desired
  /\ toReplace' = {p \in Desired \intersect Listed : ImmutableDiff(p) /\ p \in replace}
  /\ toCreate' = Desired \ Listed
  /\ toUpdate' = {}
  /\ pc' = "pools"
  /\ UNCHANGED <<config, cloud, replace, target, budget>>

\* Pools that are being deleted are listed too.
ListPools ==
  /\ pc = "list"
  /\ toDelete' = Listed \ Desired
  /\ toReplace' = {p \in Desired \intersect Listed : ImmutableDiff(p) /\ p \in replace}
  /\ toCreate' = Desired \ Listed
  /\ toUpdate' = {p \in Desired \intersect Listed : ~ImmutableDiff(p) /\ MutableDiff(p)}
  /\ pc' = "pools"
  /\ UNCHANGED <<config, cloud, replace, target, budget>>

DeletePool(p) ==
  /\ pc = "pools"
  /\ p \in toDelete \intersect Listed
  /\ toDelete' = toDelete \ {p}
  /\ leaving' = leaving \union {p}
  /\ UNCHANGED <<config, infra, cluster, made, stamp, count, pc, replace,
                 toReplace, toCreate, toUpdate, target, budget>>

DeleteForReplace(p) ==
  /\ pc = "pools"
  /\ toDelete = {}
  /\ p \in toReplace \intersect Listed
  /\ leaving' = leaving \union {p}
  /\ target' = p
  /\ pc' = "gone"
  /\ UNCHANGED <<config, infra, cluster, made, stamp, count, replace,
                 toDelete, toReplace, toCreate, toUpdate, budget>>

\* The pool a request makes: the annotation is the hash of its spec.
Make(p) ==
  /\ made' = [made EXCEPT ![p] = config.hash[p]]
  /\ stamp' = [stamp EXCEPT ![p] = config.hash[p]]
  /\ count' = [count EXCEPT ![p] = config.count[p]]
  /\ leaving' = leaving

\* _awaitGone, then _create.
Remake ==
  /\ pc = "gone"
  /\ target \notin Listed
  /\ Make(target)
  /\ toReplace' = toReplace \ {target}
  /\ target' = Absent
  /\ pc' = "pools"
  /\ UNCHANGED <<config, infra, cluster, replace, toDelete, toCreate, toUpdate, budget>>

CreatePool(p) ==
  /\ pc = "pools"
  /\ toDelete = {} /\ toReplace = {}
  /\ p \in toCreate \ Listed
  /\ Make(p)
  /\ toCreate' = toCreate \ {p}
  /\ UNCHANGED <<config, infra, cluster, pc, replace, toDelete, toReplace,
                 toUpdate, target, budget>>

UpdatePool(p) ==
  /\ pc = "pools"
  /\ toDelete = {} /\ toReplace = {} /\ toCreate = {}
  /\ p \in (toUpdate \intersect Listed) \ leaving
  /\ count' = [count EXCEPT ![p] = config.count[p]]
  /\ toUpdate' = toUpdate \ {p}
  /\ UNCHANGED <<config, infra, cluster, made, stamp, leaving, pc, replace,
                 toDelete, toReplace, toCreate, target, budget>>

\* OVH refuses: the name is taken again, the pool is gone, or going.
PoolRefused(p) ==
  /\ \/ pc = "gone" /\ p = target /\ p \in Listed \ leaving
     \/ pc = "pools" /\ p \in toDelete \ Listed
     \/ pc = "pools" /\ toDelete = {} /\ p \in toReplace \ Listed
     \/ /\ pc = "pools" /\ toDelete = {} /\ toReplace = {}
        /\ p \in toCreate \intersect Listed
     \/ /\ pc = "pools" /\ toDelete = {} /\ toReplace = {} /\ toCreate = {}
        /\ p \in toUpdate /\ p \notin Listed \ leaving
  /\ Exit
  /\ UNCHANGED <<config, cloud, budget>>

PoolsDone ==
  /\ pc = "pools"
  /\ toDelete = {} /\ toReplace = {} /\ toCreate = {} /\ toUpdate = {}
  /\ GoTo(IF config.ingress THEN "ingress" ELSE "records")
  /\ UNCHANGED <<config, cloud, budget>>

-----------------------------------------------------------------------------
(* reconcile.ts _ensureMksIngress, cloud-provider.ts ensureLoadBalancer    *)

EnsureIngress ==
  /\ pc = "ingress"
  /\ lb' = IF lb = "none" THEN "up" ELSE lb
  /\ GoTo("fip")
  /\ UNCHANGED <<config, network, gateway, fip, ports, cluster, pools, budget>>

\* Mutant of EnsureFloatingIp: an address that exists is left where it is.
EnsureFloatingIpAsIs ==
  /\ pc = "fip"
  /\ lb # "none"
  /\ fip' = IF fip = "none" THEN "attached" ELSE fip
  /\ GoTo("records")
  /\ UNCHANGED <<config, network, gateway, lb, ports, cluster, pools, budget>>

\* ensureFloatingIp, _associate: an address that exists is pointed at the port.
EnsureFloatingIp ==
  /\ pc = "fip"
  /\ lb # "none"
  /\ fip' = "attached"
  /\ GoTo("records")
  /\ UNCHANGED <<config, network, gateway, lb, ports, cluster, pools, budget>>

\* The port went with the load balancer that was found.
NoVipPort ==
  /\ pc = "fip"
  /\ lb = "none"
  /\ Exit
  /\ UNCHANGED <<config, cloud, budget>>

\* CDN and DNS records; then the command reports success.
Finish ==
  /\ pc = "records"
  /\ Exit
  /\ UNCHANGED <<config, cloud, budget>>

-----------------------------------------------------------------------------
(* reconcile.ts deleteMksWithCdn, cloud-provider.ts deleteByTag            *)

\* mks-entry.ts _deletePlanActions: the rows of the network always are there.
DeletePlan(yes) ==
  /\ pc = "idle"
  /\ edits < MaxEdits
  /\ edits' = edits + 1
  /\ kube # "none" \/ config.private
  /\ GoTo(IF yes THEN "deleteKube" ELSE "confirmDelete")
  /\ UNCHANGED <<config, cloud, faults>>

ConfirmDelete ==
  /\ pc = "confirmDelete"
  /\ GoTo("deleteKube")
  /\ UNCHANGED <<config, cloud, budget>>

DeleteCluster ==
  /\ pc = "deleteKube"
  /\ kube' = IF kube = "none" THEN "none" ELSE "DELETING"
  /\ GoTo("kubeGone")
  /\ UNCHANGED <<config, infra, kubeNet, version, pools, budget>>

\* Mutant of WaitClusterGone: the request is taken for the deed.
WaitClusterNot ==
  /\ pc = "kubeGone"
  /\ GoTo(IF config.private THEN "deleteLb" ELSE "deleted")
  /\ UNCHANGED <<config, cloud, budget>>

WaitClusterGone ==
  /\ pc = "kubeGone"
  /\ kube = "none"
  /\ GoTo(IF config.private THEN "deleteLb" ELSE "deleted")
  /\ UNCHANGED <<config, cloud, budget>>

DeleteLoadBalancer ==
  /\ pc = "deleteLb"
  /\ lb' = IF lb = "none" THEN "none" ELSE "deleting"
  /\ GoTo("lbGone")
  /\ UNCHANGED <<config, network, gateway, fip, ports, cluster, pools, budget>>

WaitLbGone ==
  /\ pc = "lbGone"
  /\ lb = "none"
  /\ GoTo("releaseFip")
  /\ UNCHANGED <<config, cloud, budget>>

ReleaseFloatingIp ==
  /\ pc = "releaseFip"
  /\ fip' = "none"
  /\ GoTo("detach")
  /\ UNCHANGED <<config, network, gateway, lb, ports, cluster, pools, budget>>

\* deleteGateway: only of a network that is still there.
DetachGateway ==
  /\ pc = "detach"
  /\ gateway' = IF gateway # "none" /\ "net" \in network THEN "detached" ELSE gateway
  /\ GoTo("router")
  /\ UNCHANGED <<config, network, lb, fip, ports, cluster, pools, budget>>

DeleteRouter ==
  /\ pc = "router"
  /\ gateway' = IF "net" \in network THEN "none" ELSE gateway
  /\ GoTo("deleteNet")
  /\ UNCHANGED <<config, network, lb, fip, ports, cluster, pools, budget>>

\* Neutron answers 409 while something has a port on the network.
InUse == ports \/ lb # "none" \/ (kube # "none" /\ kubeNet)

\* Mutant of DeleteNetwork: the conflict is ignored, as elsewhere.
DeleteNetworkIgnoring ==
  /\ pc = "deleteNet"
  /\ network' = IF InUse THEN network ELSE {}
  /\ GoTo("deleted")
  /\ UNCHANGED <<config, gateway, lb, fip, ports, cluster, pools, budget>>

DeleteNetwork ==
  /\ pc = "deleteNet"
  /\ ~InUse \/ network = {}
  /\ network' = {}
  /\ GoTo("deleted")
  /\ UNCHANGED <<config, gateway, lb, fip, ports, cluster, pools, budget>>

NetworkInUse ==
  /\ pc = "deleteNet"
  /\ InUse /\ network # {}
  /\ Exit
  /\ UNCHANGED <<config, cloud, budget>>

DeleteDone ==
  /\ pc = "deleted"
  /\ Exit
  /\ UNCHANGED <<config, cloud, budget>>

-----------------------------------------------------------------------------
(* The operator's other turns, and what the clouds do by themselves        *)

EditConfig ==
  /\ pc = "idle"
  /\ edits < MaxEdits
  /\ edits' = edits + 1
  /\ config' \in Configs \ {config}
  /\ UNCHANGED <<cloud, run, faults>>

\* mks-entry.ts _upgradeMksEntry: the command `upgrade --strategy next-minor',
\* whatever the config says.  (latest-patch leaves the minor version alone.)
UpgradeCommand ==
  /\ pc = "idle"
  /\ edits < MaxEdits
  /\ edits' = edits + 1
  /\ kube # "none"
  /\ GoTo("upgradeOnly")
  /\ UNCHANGED <<config, cloud, faults>>

\* A request fails, a poll times out, or the process is killed.
Fail ==
  /\ pc # "idle"
  /\ faults < MaxFaults
  /\ faults' = faults + 1
  /\ Exit
  /\ UNCHANGED <<config, cloud, edits>>

Installed ==
  /\ kube = "INSTALLING"
  /\ kube' = "READY"
  /\ UNCHANGED <<config, infra, kubeNet, version, pools, run, budget>>

Updated ==
  /\ kube = "UPDATING"
  /\ kube' = "READY"
  /\ version' = version + 1
  /\ UNCHANGED <<config, infra, kubeNet, pools, run, budget>>

\* The nodes of a cluster go with it.
ClusterVanishes ==
  /\ kube = "DELETING"
  /\ kube' = "none"
  /\ kubeNet' = FALSE
  /\ made' = [p \in Pools |-> Absent] /\ stamp' = [p \in Pools |-> Absent]
  /\ count' = [p \in Pools |-> 0]
  /\ leaving' = {}
  /\ UNCHANGED <<config, infra, version, run, budget>>

PoolVanishes(p) ==
  /\ p \in leaving
  /\ made' = [made EXCEPT ![p] = Absent]
  /\ stamp' = [stamp EXCEPT ![p] = Absent]
  /\ count' = [count EXCEPT ![p] = 0]
  /\ leaving' = leaving \ {p}
  /\ UNCHANGED <<config, infra, cluster, run, budget>>

LbVanishes ==
  /\ lb = "deleting"
  /\ lb' = "none"
  /\ fip' = IF fip = "attached" THEN "loose" ELSE fip
  /\ UNCHANGED <<config, network, gateway, ports, cluster, pools, run, budget>>

\* Somebody makes a pool in the OVH manager: it has no annotation.
MadeByHand(p, h) ==
  /\ kube = "READY"
  /\ p \notin Listed
  /\ faults < MaxFaults
  /\ faults' = faults + 1
  /\ made' = [made EXCEPT ![p] = h]
  /\ stamp' = [stamp EXCEPT ![p] = NoHash]
  /\ count' \in {[count EXCEPT ![p] = n] : n \in CountsOf}
  /\ UNCHANGED <<config, infra, cluster, leaving, run, edits>>

\* Or a cluster of that name, on the public network, while a plan is on the screen.
ClusterMadeByHand ==
  /\ pc = "confirm"
  /\ kube = "none"
  /\ faults < MaxFaults
  /\ faults' = faults + 1
  /\ kube' = "INSTALLING"
  /\ kubeNet' = FALSE
  /\ version' \in Versions
  /\ UNCHANGED <<config, infra, pools, run, edits>>

\* A Service of the cluster gets a load balancer, which outlives the cluster.
ServiceBalancer ==
  /\ kube = "READY" /\ kubeNet /\ ~ports
  /\ faults < MaxFaults
  /\ faults' = faults + 1
  /\ ports' = TRUE
  /\ UNCHANGED <<config, network, gateway, lb, fip, cluster, pools, run, edits>>

ServiceBalancerGone ==
  /\ ports
  /\ ports' = FALSE
  /\ UNCHANGED <<config, network, gateway, lb, fip, cluster, pools, run, budget>>

-----------------------------------------------------------------------------
Progress ==
  \/ Confirm \/ RefuseControlPlane \/ Start
  \/ RefuseDrift \/ NoDrift \/ EnsureNetworkId \/ CreateNodesSubnet
  \/ CreateBalancersSubnet \/ AdoptNetwork \/ NoSubnetIds \/ EnsureGateway
  \/ CreateCluster \/ FindCluster \/ RequestUpgrade \/ ClusterReady \/ ClusterLost
  \/ ListPools \/ Remake \/ PoolsDone
  \/ \E p \in Pools : \/ DeletePool(p) \/ DeleteForReplace(p) \/ CreatePool(p)
                      \/ UpdatePool(p) \/ PoolRefused(p)
  \/ EnsureIngress \/ EnsureFloatingIp \/ NoVipPort \/ Finish
  \/ ConfirmDelete \/ DeleteCluster \/ WaitClusterGone \/ DeleteLoadBalancer
  \/ WaitLbGone \/ ReleaseFloatingIp \/ DetachGateway \/ DeleteRouter
  \/ DeleteNetwork \/ NetworkInUse \/ DeleteDone

Settle ==
  \/ Installed \/ Updated \/ ClusterVanishes \/ LbVanishes
  \/ \E p \in Pools : PoolVanishes(p)

Next ==
  \/ Progress
  \/ Settle
  \/ \E yes \in BOOLEAN : ApplyPlan(yes) \/ DeletePlan(yes)
  \/ Decline \/ EditConfig \/ UpgradeCommand \/ Fail
  \/ \E p \in Pools, h \in Hashes : MadeByHand(p, h)
  \/ ClusterMadeByHand \/ ServiceBalancer \/ ServiceBalancerGone

Spec == Init /\ [][Next]_vars

\* The process keeps running, OVH completes what it accepted, and the operator
\* keeps re-running `apply --yes'.
FairSpec ==
  /\ Spec
  /\ WF_vars(Progress)
  /\ WF_vars(Settle)
  /\ SF_vars(ApplyPlan(TRUE))

-----------------------------------------------------------------------------
(* Properties                                                              *)

Phases ==
  {"idle", "confirm", "start", "drift", "net", "nodes", "balancers", "gateway",
   "find", "upgrade", "upgradeOnly", "ready", "list", "pools", "gone",
   "ingress", "fip", "records", "confirmDelete", "deleteKube", "kubeGone",
   "deleteLb", "lbGone", "releaseFip", "detach", "router", "deleteNet", "deleted"}

\* The state space of the apply, upgrade and delete commands and of the clouds.
TypeOK ==
  /\ config \in Configs
  /\ network \subseteq {"net", "nodes", "balancers"}
  /\ gateway \in {"none", "attached", "detached"}
  /\ lb \in {"none", "up", "deleting"}
  /\ fip \in {"none", "attached", "loose"}
  /\ ports \in BOOLEAN
  /\ kube \in {"none", "INSTALLING", "READY", "UPDATING", "DELETING"}
  /\ kubeNet \in BOOLEAN
  /\ version \in Versions
  /\ made \in [Pools -> Hashes \union {Absent}]
  /\ stamp \in [Pools -> Hashes \union {Absent, NoHash}]
  /\ count \in [Pools -> CountsOf]
  /\ leaving \subseteq Listed
  /\ pc \in Phases
  /\ replace \subseteq Pools \union {ControlPlane}
  /\ toDelete \subseteq Pools /\ toReplace \subseteq Pools
  /\ toCreate \subseteq Pools /\ toUpdate \subseteq Pools
  /\ target \in Pools \union {Absent}
  /\ faults \in 0..MaxFaults
  /\ edits \in 0..MaxEdits

\* A pool of the config is deleted only when its own row said "replace" and was
\* confirmed (nodepool-diff.ts:40), although the diff compares the flavors that
\* OVH reports and the rows compare annotations, which hand-made pools lack.
OnlyConfirmedReplaced ==
  [][\A p \in (leaving' \ leaving) \intersect Desired : p \in replace]_vars

\* A cluster on the private network has both its subnets, which MKS could never
\* correct later (reconcile.ts:127), whatever was interrupted before or deleted.
ClusterIsWhole ==
  kube # "none" /\ kubeNet => network = {"net", "nodes", "balancers"}

\* Teardown takes nothing away from under what still stands on it: gateway and
\* network go after the cluster and the load balancer are gone, not merely
\* requested to go (reconcile.ts:354, cloud-provider.ts:780).
NothingUndercut ==
  [][(gateway = "attached" /\ gateway' # "attached") \/ ~(network \subseteq network')
        => kube = "none" /\ lb = "none"]_vars

\* What an apply that reports success leaves: the cluster on the network it was
\* asked for, its gateway, an ingress with its address, and every pool of the
\* config as asked, save pools still going and flavors nobody confirmed.
SuccessIsDesired ==
  [][Finish =>
       /\ kube = "READY" /\ kubeNet = config.private /\ version >= config.version
       /\ config.private => gateway # "none"
       /\ config.ingress /\ lb = "up" => fip = "attached"
       /\ Listed \subseteq Desired \union leaving \union {p \in Pools : stamp[p] = NoHash}
       /\ \A p \in Desired \intersect Listed :
            \/ p \in leaving
            \/ stamp[p] = NoHash
            \/ made[p] = config.hash[p] /\ count[p] = config.count[p]]_vars

\* A delete that reports success left nothing that is billed, whatever else was
\* on the network when it began (cloud-provider.ts:838).
DeletedLeavesNothing ==
  [][DeleteDone =>
       /\ kube = "none"
       /\ config.private => network = {} /\ lb = "none" /\ fip = "none" /\ gateway = "none"]_vars

Converged ==
  /\ kube = "READY" /\ kubeNet = config.private /\ version = config.version
  /\ config.private => gateway = "attached"
  /\ config.ingress => lb = "up" /\ fip = "attached"
  /\ Listed = Desired
  /\ leaving = {}
  /\ \A p \in Desired : made[p] = config.hash[p] /\ count[p] = config.count[p]

\* What no re-run repairs: a drift that is refused, an upgrade that went too far
\* included; a network left with one subnet; a gateway left detached; a pool
\* made by hand with another flavor.
Stuck ==
  \/ kube # "none" /\ ClusterDrift = "Blocked"
  \/ config.private /\ network \intersect {"nodes", "balancers"} \in {{"nodes"}, {"balancers"}}
  \/ config.private /\ gateway = "detached"
  \/ \E p \in Desired : stamp[p] = NoHash /\ made[p] # config.hash[p]

\* README.md:129: re-running apply converges, unless the cluster is stuck in one
\* of the ways above.
EventuallyConverges == <>[](Converged \/ Stuck)

\* README.md:118: the way to grow or shrink a pool is to edit its count and run
\* scale; so there is something to do when a pool of the right flavor has
\* another count.
ScaleHasWork ==
  pc = "idle" /\ kube = "READY" =>
    \A p \in Desired \intersect Listed :
      count[p] # config.count[p] =>
        DecidePlanAction(PoolPlan, OtherWork, TRUE, FALSE) # "NothingToDo"
=============================================================================
