-------------------------------- MODULE Uks --------------------------------
(***************************************************************************)
(* The whole of a managed UpCloud cluster: apply, delete and upgrade around *)
(* the node groups of UksPools.  One process goes through the phases of    *)
(* applyUpcloudUksEffect, or of deleteUpcloudUksWithCdn; it may be cut     *)
(* short in each.  Sources: cli/src/upcloud/{reconcile,plan,storage,        *)
(* volumes}.ts and upcloud/{distro-uks,storage,volumes}.                    *)
(***************************************************************************)
EXTENDS UksPools

CONSTANTS
  Plans,       \* control plane plans, fixed when a cluster is created
  MaxVersion,  \* bound: the newest minor version of UKS
  MaxMishaps   \* bound: failures outside the pools, things done by hand

\* Beside its pools, a config has the plan and version of the control plane,
\* a volume and a bucket, each "none", "keep" (retain) or "drop", and DNS
\* records or a CDN.
ASSUME UksAssumption ==
  /\ MaxVersion \in Nat /\ MaxMishaps \in Nat
  /\ \A c \in Configs : /\ c.plan \in Plans /\ c.version \in 1..MaxVersion
                        /\ c.volume \in {"none", "keep", "drop"}
                        /\ c.bucket \in {"none", "keep", "drop"}
                        /\ c.edge \subseteq {"dns", "cdn"}

VARIABLES
  phase,           \* where the process is; "rest" when none runs
  router, network, \* "none", "legacy" (without our label) or "ours"
  cluster,         \* [state, plan, version, target: the version of an upgrade]
  records,         \* which of DNS records and CDN are there
  volume,          \* [there, bound: the cluster has its PV]
  store,           \* the object storage: [service, buckets, key]
  secrets,         \* the credentials file exists
  mishaps

flow == <<phase, router, network, cluster, records, volume, store, secrets, mishaps>>
uksVars == <<vars, flow>>

NoCluster == [state |-> "none", plan |-> Absent, version |-> 0, target |-> 0]
NoVolume  == [there |-> FALSE, bound |-> FALSE]
NoStore   == [service |-> "none", buckets |-> {}, key |-> "none"]

\* A first apply, or one that finds what a version without labels left.
UksInit ==
  /\ Init
  /\ phase = "rest"
  /\ router \in {"none", "legacy"} /\ network = router
  /\ cluster = NoCluster /\ records = {} /\ volume = NoVolume
  /\ store = NoStore /\ secrets = FALSE
  /\ mishaps = 0

Go(to) == phase' = to
Preparing(ph) == phase = ph /\ pc = "list"  \* ahead of the pools
Mishap == mishaps < MaxMishaps /\ mishaps' = mishaps + 1

-----------------------------------------------------------------------------
(* The plan.  The router's row is the network's.                           *)

ClusterDrifted == cluster.plan # config.plan \/ cluster.version > config.version

ClusterRow ==
  CASE cluster.state = "none"                             -> "Create"
    [] cluster.state # "none" /\ ClusterDrifted           -> "ReplaceNeedsConfirm"
    [] OTHER -> IF cluster.version < config.version THEN "Update" ELSE "NoOp"

OtherWork ==
  \/ network = "none"
  \/ ClusterRow # "NoOp"
  \/ config.volume # "none" /\ ~volume.there
  \/ config.bucket # "none" /\ "ours" \notin store.buckets
  \/ "cdn" \in config.edge \ records

\* A replace of the control plane is refused before anything is written.
UksApply(yes) ==
  /\ phase = "rest"
  /\ ClusterRow # "ReplaceNeedsConfirm"
  /\ ApplyPlanOf(OtherWork, yes)
  /\ Go("router")
  /\ UNCHANGED <<router, network, cluster, records, volume, store, secrets, mishaps>>

UksDecline ==
  /\ Decline
  /\ Go("rest")
  /\ UNCHANGED <<router, network, cluster, records, volume, store, secrets, mishaps>>

-----------------------------------------------------------------------------
(* Apply                                                                   *)

\* A legacy router or network is adopted.
EnsureRouter ==
  /\ Preparing("router")
  /\ router' = "ours"
  /\ Go("network")
  /\ UNCHANGED <<vars, network, cluster, records, volume, store, secrets, mishaps>>

EnsureNetwork ==
  /\ Preparing("network")
  /\ network' = "ours"
  /\ Go("cluster")
  /\ UNCHANGED <<vars, router, cluster, records, volume, store, secrets, mishaps>>

EnsureCluster ==
  /\ Preparing("cluster")
  /\ IF cluster.state = "none"
     THEN cluster' = [state |-> "pending", plan |-> config.plan,
                      version |-> config.version, target |-> 0]
     ELSE ~ClusterDrifted /\ UNCHANGED cluster
  /\ Go("await")
  /\ UNCHANGED <<vars, router, network, records, volume, store, secrets, mishaps>>

AwaitCluster ==
  /\ Preparing("await")
  /\ cluster.state = "running"
  /\ Go("pools")
  /\ UNCHANGED <<vars, router, network, cluster, records, volume, store, secrets, mishaps>>

ClusterRefused ==
  /\ \/ phase = "cluster" /\ cluster.state # "none" /\ ClusterDrifted
     \/ phase = "await" /\ cluster.state \in {"failed", "none"}
  /\ Refused
  /\ Go("rest")
  /\ UNCHANGED <<router, network, cluster, records, volume, store, secrets, mishaps>>

PoolsStep ==
  /\ phase = "pools"
  /\ \/ ListGroups \/ NextLoop
     \/ \E g \in Groups : CreateGroup(g) \/ UpdateGroup(g) \/ DeleteGroup(g) \/ Awaited(g)
     \/ \E r \in Groups \X Groups : CreateReplacement(r) \/ DeleteReplaced(r)
  /\ UNCHANGED flow

PoolsDone ==
  /\ phase = "pools"
  /\ Finish
  /\ Go("edge")
  /\ UNCHANGED <<router, network, cluster, records, volume, store, secrets, mishaps>>

PoolsFail ==
  /\ phase = "pools"
  /\ \E g \in Groups : AwaitFails(g)
  /\ Go("rest")
  /\ UNCHANGED <<router, network, cluster, records, volume, store, secrets, mishaps>>

EnsureRecords ==
  /\ phase = "edge"
  /\ records' = records \union config.edge
  /\ Go("volume")
  /\ UNCHANGED <<vars, router, network, cluster, volume, store, secrets, mishaps>>

\* convergeUpcloudVolumes: the volume, then its PV and PVC
EnsureVolume ==
  /\ phase = "volume"
  /\ volume' = IF config.volume = "none" THEN volume ELSE [volume EXCEPT !.there = TRUE]
  /\ Go("bind")
  /\ UNCHANGED <<vars, router, network, cluster, records, store, secrets, mishaps>>

BindVolume ==
  /\ phase = "bind"
  /\ volume' = IF config.volume = "none" THEN volume ELSE [volume EXCEPT !.bound = TRUE]
  /\ Go(IF config.bucket = "none" THEN "rest" ELSE "service")
  /\ UNCHANGED <<vars, router, network, cluster, records, store, secrets, mishaps>>

\* A service on its way to deletion fails apply.
EnsureService ==
  /\ phase = "service"
  /\ store.service # "deleting"
  /\ store' = IF store.service = "none" THEN [store EXCEPT !.service = "starting"] ELSE store
  /\ Go("started")
  /\ UNCHANGED <<vars, router, network, cluster, records, volume, secrets, mishaps>>

EnsureBucket ==
  /\ phase = "started"
  /\ store.service = "running"
  /\ store' = [store EXCEPT !.buckets = @ \union {"ours"}]
  /\ Go("account")
  /\ UNCHANGED <<vars, router, network, cluster, records, volume, secrets, mishaps>>

\* ensureUserAccess, then a key, unless there is a file to read one from
IssueKey ==
  /\ phase = "account"
  /\ store' = IF secrets THEN store ELSE [store EXCEPT !.key = "unfiled"]
  /\ Go("seal")
  /\ UNCHANGED <<vars, router, network, cluster, records, volume, secrets, mishaps>>

SealKey ==
  /\ phase = "seal"
  /\ secrets' = TRUE
  /\ store' = [store EXCEPT !.key = IF @ = "unfiled" THEN "filed" ELSE @]
  /\ Go("rest")
  /\ UNCHANGED <<vars, router, network, cluster, records, volume, mishaps>>

-----------------------------------------------------------------------------
(* Delete                                                                  *)

\* upcloudDeletePlanActions: the node groups go with the cluster.
DeleteWork ==
  \/ cluster.state # "none"
  \/ network # "none"
  \/ config.volume = "drop" /\ volume.there
  \/ config.bucket = "drop" /\ "ours" \in store.buckets
  \/ "cdn" \in config.edge \intersect records

StartDelete ==
  /\ phase = "rest" /\ DeleteWork
  /\ Go(IF "cdn" \in config.edge THEN "no edge" ELSE "no bucket")
  /\ UNCHANGED <<vars, router, network, cluster, records, volume, store, secrets, mishaps>>

RemoveEdge ==
  /\ phase = "no edge"
  /\ records' = records \ config.edge
  /\ Go("no bucket")
  /\ UNCHANGED <<vars, router, network, cluster, volume, store, secrets, mishaps>>

\* reconcileUpcloudObjectStorageOnDelete.
RemoveBucket ==
  /\ phase = "no bucket"
  /\ IF config.bucket = "drop" /\ "ours" \in store.buckets
     THEN store' = [store EXCEPT !.buckets = @ \ {"ours"}]
     ELSE UNCHANGED store
  /\ Go(IF config.bucket = "none" THEN "no volume" ELSE "no user")
  /\ UNCHANGED <<vars, router, network, cluster, records, volume, secrets, mishaps>>

\* Of a service with a retained bucket nothing else goes.
RemoveUser ==
  /\ phase = "no user"
  /\ "alien" \notin store.buckets
  /\ IF store.service # "none" /\ config.bucket = "drop"
     THEN /\ store' = [store EXCEPT !.key = "none"]
          /\ Go("no service")
     ELSE Go("no volume") /\ UNCHANGED store
  /\ UNCHANGED <<vars, router, network, cluster, records, volume, secrets, mishaps>>

\* Mutants of RemoveService: forced; not waited for.
RemoveServiceForced ==
  /\ phase = "no service"
  /\ store' = [store EXCEPT !.service = "deleting"]
  /\ Go("gone")
  /\ UNCHANGED <<vars, router, network, cluster, records, volume, secrets, mishaps>>

RemoveServiceHasty ==
  /\ phase = "no service"
  /\ store.buckets = {}
  /\ store' = [store EXCEPT !.service = "deleting"]
  /\ Go("no volume")
  /\ UNCHANGED <<vars, router, network, cluster, records, volume, secrets, mishaps>>

\* Not by force: UpCloud refuses while a bucket is left.
RemoveService ==
  /\ phase = "no service"
  /\ store.buckets = {}
  /\ store' = [store EXCEPT !.service = "deleting"]
  /\ Go("gone")
  /\ UNCHANGED <<vars, router, network, cluster, records, volume, secrets, mishaps>>

ServiceGone ==
  /\ phase = "gone"
  /\ store.service = "none"
  /\ Go("no volume")
  /\ UNCHANGED <<vars, router, network, cluster, records, volume, store, secrets, mishaps>>

\* The cluster whose pods may hold the volume comes next.
RemoveVolume ==
  /\ phase = "no volume"
  /\ IF config.volume = "drop" /\ volume.there
     THEN volume' = NoVolume
     ELSE UNCHANGED volume
  /\ Go("no cluster")
  /\ UNCHANGED <<vars, router, network, cluster, records, store, secrets, mishaps>>

RemoveCluster ==
  /\ phase = "no cluster"
  /\ IF cluster.state = "none" THEN UNCHANGED cluster
     ELSE cluster' = [cluster EXCEPT !.state = "terminating", !.target = 0]
  /\ Go("no network")
  /\ UNCHANGED <<vars, router, network, records, volume, store, secrets, mishaps>>

\* deleteCluster has seen the cluster leave the list.
RemoveNetwork ==
  /\ phase = "no network"
  /\ cluster.state = "none"
  /\ network' = "none"
  /\ Go("no router")
  /\ UNCHANGED <<vars, router, cluster, records, volume, store, secrets, mishaps>>

RemoveRouter ==
  /\ phase = "no router"
  /\ router' = "none"
  /\ Go(IF "cdn" \in config.edge THEN "rest" ELSE "no dns")
  /\ UNCHANGED <<vars, network, cluster, records, volume, store, secrets, mishaps>>

RemoveDns ==
  /\ phase = "no dns"
  /\ records' = records \ config.edge
  /\ Go("rest")
  /\ UNCHANGED <<vars, router, network, cluster, volume, store, secrets, mishaps>>

-----------------------------------------------------------------------------
\* upgradeCluster asks for the next minor version; the config is not looked at.
UpgradeCluster ==
  /\ phase = "rest" /\ pc = "idle"
  /\ cluster.state = "running" /\ cluster.target = 0 /\ cluster.version < MaxVersion
  /\ cluster' = [cluster EXCEPT !.state = "upgrading", !.target = cluster.version + 1]
  /\ Go("upgrade")
  /\ UNCHANGED <<vars, router, network, records, volume, store, secrets, mishaps>>

AwaitUpgrade ==
  /\ phase = "upgrade"
  /\ cluster.state = "running"
  /\ Go("rest")
  /\ UNCHANGED <<vars, router, network, cluster, records, volume, store, secrets, mishaps>>

\* What ends a run outside the pools: a bucket may have objects in it, a volume
\* may be attached (409), and neither is forced.
StepFails ==
  /\ \/ phase = "service" /\ store.service = "deleting"
     \/ phase = "started" /\ store.service \in {"none", "deleting"}
     \/ phase = "no bucket" /\ config.bucket = "drop" /\ "ours" \in store.buckets
     \/ phase = "no user" /\ "alien" \in store.buckets
     \/ phase = "no service" /\ store.buckets # {}
     \/ phase = "no volume" /\ config.volume = "drop" /\ volume.bound
     \/ phase = "upgrade" /\ cluster.state \in {"none", "terminating"}
  /\ Go("rest")
  /\ UNCHANGED <<vars, router, network, cluster, records, volume, store, secrets, mishaps>>

\* An API error, a timeout, a signal, while the process has a plan and after.
CutEarly ==
  /\ Interrupted
  /\ Go("rest")
  /\ UNCHANGED <<router, network, cluster, records, volume, store, secrets, mishaps>>

CutLate ==
  /\ pc = "idle" /\ phase # "rest" /\ Mishap
  /\ Go("rest")
  /\ UNCHANGED <<vars, router, network, cluster, records, volume, store, secrets>>

UksEditConfig == phase = "rest" /\ EditConfig /\ UNCHANGED flow
UksConfirm == Confirm /\ UNCHANGED flow

-----------------------------------------------------------------------------
(* UpCloud, and what uses the cluster                                      *)

ClusterSettles ==
  /\ \/ cluster.state = "pending"
        /\ cluster' = [cluster EXCEPT !.state = "running"]
     \/ cluster.target # 0
        /\ cluster' = [cluster EXCEPT !.state = "running", !.version = cluster.target, !.target = 0]
  /\ UNCHANGED <<vars, phase, router, network, records, volume, store, secrets, mishaps>>

ClusterVanishes ==
  /\ cluster.state = "terminating"
  /\ cluster' = NoCluster
  /\ volume' = [volume EXCEPT !.bound = FALSE]
  /\ ClusterGone
  /\ UNCHANGED <<phase, router, network, records, store, secrets, mishaps>>

ClusterBreaks ==
  /\ cluster.state = "pending" /\ Mishap
  /\ cluster' = [cluster EXCEPT !.state = "failed"]
  /\ UNCHANGED <<vars, phase, router, network, records, volume, store, secrets>>

StoreSettles ==
  /\ \/ store.service = "starting" /\ store' = [store EXCEPT !.service = "running"]
     \/ store.service = "deleting" /\ store' = NoStore
  /\ UNCHANGED <<vars, phase, router, network, cluster, records, volume, secrets, mishaps>>

\* Somebody makes a bucket that the config does not name.
HandMakesBucket ==
  /\ store.service = "running" /\ "alien" \notin store.buckets /\ Mishap
  /\ store' = [store EXCEPT !.buckets = @ \union {"alien"}]
  /\ UNCHANGED <<vars, phase, router, network, cluster, records, volume, secrets>>

GroupsChange ==
  /\ \E g \in Groups : Break(g) \/ RemovedByHand(g)
  /\ UNCHANGED flow

-----------------------------------------------------------------------------
ApplyStep ==
  \/ UksConfirm \/ EnsureRouter \/ EnsureNetwork \/ EnsureCluster \/ AwaitCluster \/ ClusterRefused
  \/ PoolsStep \/ PoolsDone \/ PoolsFail
  \/ EnsureRecords \/ EnsureVolume \/ BindVolume
  \/ EnsureService \/ EnsureBucket \/ IssueKey \/ SealKey

DeleteStep ==
  \/ RemoveEdge \/ RemoveBucket \/ RemoveUser \/ RemoveService \/ ServiceGone
  \/ RemoveVolume \/ RemoveCluster \/ RemoveNetwork \/ RemoveRouter \/ RemoveDns

UksProgress == ApplyStep \/ DeleteStep \/ AwaitUpgrade \/ StepFails

UksSettle == (Settle /\ UNCHANGED flow) \/ ClusterSettles \/ ClusterVanishes \/ StoreSettles

UksNext ==
  \/ UksProgress
  \/ UksSettle
  \/ \E yes \in BOOLEAN : UksApply(yes)
  \/ UksDecline \/ StartDelete \/ UpgradeCluster
  \/ CutEarly \/ CutLate \/ UksEditConfig
  \/ ClusterBreaks \/ HandMakesBucket \/ GroupsChange

UksSpec == UksInit /\ [][UksNext]_uksVars

\* The process runs on, UpCloud completes what it accepted, and the operator
\* keeps re-running `apply --yes' as long as it has something to do.
FairSpec ==
  /\ UksSpec
  /\ WF_uksVars(UksProgress)
  /\ WF_uksVars(UksSettle)
  /\ SF_uksVars(UksApply(TRUE))
-----------------------------------------------------------------------------
\* What the config asks for is there: what the plan has rows for, and the rest,
\* which only an apply with work to do looks at.
RowsServed ==
  /\ cluster.state = "running" /\ ~ClusterDrifted
  /\ network # "none"
  /\ \A p \in Desired : Wanted(p) \in Listed
  /\ "cdn" \in config.edge => "cdn" \in records
  /\ config.volume # "none" => volume.there
  /\ config.bucket # "none" => "ours" \in store.buckets

RowlessServed ==
  /\ router # "none"
  /\ "dns" \in config.edge => "dns" \in records
  /\ config.volume # "none" => volume.bound
  /\ config.bucket # "none" => secrets /\ store.key = "filed"

Served == RowsServed /\ RowlessServed

\* Dead ends of re-running apply: the control plane drifted or failed; the
\* credentials file outlived its key; every row says NoOp, and what has no row
\* is missing.
Refuses  == cluster.state # "none" /\ ClusterDrifted
Failed   == cluster.state = "failed"
StaleKey == secrets /\ store.key # "filed"
Unseen   ==
  /\ phase = "rest" /\ ~RowlessServed /\ ~OtherWork
  /\ \A first \in Inventories : ~HasWork([p \in Pools |-> PoolAction(p, first[p])])
Stuck    == Refuses \/ Failed \/ StaleKey \/ Unseen

\* Re-running apply leads to all the config asks for (README.md:129,
\* "Re-running converges"), however its runs and deletions are cut short, unless
\* it gets into one of the dead ends or deletion is asked for again and again.
EventuallyServed == <>[]Served \/ []<>Stuck \/ []<>(phase = "no bucket")

DeleteDone == RemoveDns \/ (RemoveRouter /\ phase' = "rest")

\* When delete reports success nothing is left of what the config describes,
\* but what it retains: every deletion was seen to complete, over interrupted
\* runs too (reconcile.ts:201, the order of deletion).
DeletedLeavesNothing ==
  [][DeleteDone =>
       /\ cluster' = NoCluster /\ network' = "none" /\ router' = "none"
       /\ \A g \in Groups : state'[g] = "none"
       /\ config.volume = "drop" => ~volume'.there
       /\ config.bucket = "drop" => store' = NoStore
       /\ records' \intersect config.edge = {}]_uksVars

\* No run takes away a volume or a bucket that is retained, nor ever
\* a bucket the config does not name (storage.ts:135, "never forces").
DataSurvives ==
  [][/\ volume.there /\ ~volume'.there => config.volume = "drop"
     /\ \A b \in store.buckets \ store'.buckets :
          b = "ours" /\ config.bucket = "drop"]_uksVars
=============================================================================
