# Kumulo in TLA+

Kumulo is a command-line program that brings up Kubernetes clusters: self-managed
k3s on virtual machines (OpenStack, Hetzner) and managed clusters (OVH MKS,
UpCloud UKS), with their networks, load balancers, volumes, buckets, CDN and DNS
records. It keeps no state file for what it creates: every command discovers by
name, tag or label what earlier commands left, plans against the config, asks,
and reconciles. Hence the question this project asks everywhere: *a command may
stop between any two API calls, the cloud finishes what it accepted at its own
pace, and the operator runs the command again. What must never happen on the
way, and does it get there?*

The modules are translated from the code under `src/packages`; paths below are
relative to that directory. `PROJECT.json` maps every definition to its lines.

## 1. The system

| Component | State it keeps | Operations | What makes it correct |
|---|---|---|---|
| Planner (`core/src/plan`, `core/src/present/decide.ts`) | none | compare desired and found hashes; decide between dry run, nothing to do, confirm and apply; names to replace | drift shows up as a row to confirm; "nothing to do" only when nothing is |
| Config (`core/src/config`, the `config.ts` of the distros, `cli/src/env-summary.ts`) | none | decode, relate fields, check against the provider's profile and the environment | what is accepted can be carried out |
| k3s flow (`cli/src/commands.ts`, `cli/src/k3s`) | the confirmed plan, in memory only | apply, scale, delete, status, kubeconfig | nothing destroyed that was not confirmed; masters never; workers drained first; a re-run converges |
| Draining (`core/src/k8s`, `distro-k3s/src/distro/drain.ts`) | cordons, in the cluster | cordon, list pods, evict, delete Node, delete server | no pod it was shown is on a machine that is destroyed |
| k3s bootstrap (`distro-k3s/src/bootstrap`) | none; node-token files on the masters | resolve the token, install master 1, masters, workers | one control plane, whatever is interrupted or unreadable |
| k3s upgrade (`distro-k3s/src/upgrade`, `cli/src/distro/k3s-entry.ts`) | two Plans in the cluster | install the controller, write the Plans | no agent ahead of a server; an interrupted upgrade is finished |
| OpenStack provider (`openstack/client/src/provider`) | none; resources of the project | ensure network, firewall, balancer, groups, servers; delete by name and tag | no duplicates, half-made resources completed, delete leaves nothing |
| Hetzner provider (`hetzner/client/src`) | none; the same, and a volume | the same interface | the same; a volume only grows |
| UKS pools (`upcloud/distro-uks/src/distro`) | none; node groups and their labels | plan, create, replace, scale, delete | a pool is never without nodes; overlaps only when confirmed |
| UKS cluster (`cli/src/upcloud`, `upcloud/*`) | none; cluster, network, router, volume, object storage, records | ensure, drift, delete with waits, upgrade | drift is refused before anything is written; delete leaves nothing but what is retained |
| MKS (`ovh/distro-mks`, `cli/src/mks`) | none; cluster, pools, private network | ensure, drift, pools deleted before they are recreated, upgrade, delete | immutable fields refused early; a pool replace interrupted is finished |
| Volumes, outputs file (`openstack/volumes`, `cli/src/commands/volumes.ts`) | the outputs file next to the config | ensure, record, adopt, delete unless retained | what exists is recorded, once |
| Buckets, credentials (`*/storage`, `cli/src/storage`, `secrets-sops`) | outputs file, encrypted credentials file | diff against the outputs, ensure, replace, issue keys once | retained data kept; a one-time secret not lost |
| CDN (`bunny/cdn`, `bunny/client`, `cli/src/cdn.ts`) | `<cluster>.cdn.yaml`; pull zone, Shield | ensure, certificates, Shield rules, delete | only what is recorded is touched |
| DNS (`*/dns`, `core/src/dns`, `cli/src/dns.ts`) | TXT ownership records | ensure a record with its owner, delete own records | foreign records untouched |
| Transports and authentication | token cache, permits | retry by method and status, re-authenticate, walk pages | nothing created twice by a retry; a list is whole |
| Releases, secrets files, doctor, presentation | none | one-shot reads and writes | |

How they interact. `commands.ts` computes the plan, prints it, decides, asks, and
calls the distribution's `apply` with the set of names confirmed for
replacement. The k3s `apply` calls the provider (network, balancer, deletion of
drifted servers, servers in concurrent fibers: all masters at once, then up to
ten workers), then the bootstrap over SSH, the addons over the Kubernetes API,
then drains and deletes the workers that are no longer desired. DNS, CDN,
volumes and buckets follow. Everything that lasts lies with the providers; a
process hands nothing to the next one but that.

What is hard in it: the plan is made from one listing and carried out on later
ones; fibers list and then create, without a lock; DELETE is asynchronous and a
deleted resource is still listed, and still in use, for a while; an interruption
between request and answer leaves something that is neither there nor not; a
second run meets any mixture of those; and what is known of the world is read in
pages, over requests whose answers may be lost. `PROJECT.json` lists these hazards
at their lines, with the properties that watch each, and says why where none does.

## 2. Modules

| Module | Models | Checked by | Proved in |
|---|---|---|---|
| `Plan` | the planner, as operators | through the flow modules | |
| `Config` | accepted configs, their provider checks, required variables, credentials | samples, as assumptions of `MCNodes` | `Nodes_proofs` |
| `K3sLifecycle` | apply, scale and delete of a k3s cluster, server by server | `K3sLifecycle.cfg`, `K3sInterrupted.cfg` | `K3sLifecycle_proofs` |
| `K3sBootstrap` | the installation of k3s, host by host | `K3sMasterOneLost.cfg`; as part of `K3sUpgrade` | `Nodes_proofs` |
| `K3sUpgrade`, extends `K3sBootstrap` | the version of every host, under apply and upgrade | `Nodes.cfg` | `Nodes_proofs` |
| `Drain` | machines taken out of a k3s cluster, pod by pod | `Nodes.cfg` | `Nodes_proofs` |
| `OpenStackInfra` | the OpenStack resources of a cluster | `OpenStackGroups.cfg`; as part of `Hetzner` | `Clouds_proofs` |
| `Hetzner`, extends `OpenStackInfra` | the same on either cloud, with a volume | `Clouds.cfg` | `Clouds_proofs` |
| `UksPools` | node groups of a UKS cluster | `UksFailedGeneration.cfg`; as part of `Uks` | `Uks_proofs` |
| `PoolContract` | what the operator may rely on about them (abstract) | refined by `UksPools`: `Uks.cfg` | `Uks_proofs` |
| `Uks`, extends `UksPools` | the whole of a UKS cluster | `Uks.cfg` | `Uks_proofs` |
| `Mks` | an MKS cluster with its network, gateway, ingress and pools | `Wire.cfg`, `MksScale.cfg` | `Mks_proofs` |
| `Transport` | one request, from the call to the answer | `Wire.cfg` | `Wire_proofs` |
| `Listing` | one list, page by page | `Wire.cfg` | `Wire_proofs` |
| `Dns`, `Cdn` | records with ownership tags; pull zone and Shield | as parts of `Edge` | `Edge_proofs` |
| `Edge`, extends `Dns`, `Cdn` | records and pull zone under apply and delete | `Edge.cfg` | `Edge_proofs` |
| `Volumes`, `Buckets` | Cinder volumes and outputs; buckets and credentials | as parts of `Converge` | `Converge_proofs` |
| `Converge`, extends `Volumes`, `Buckets` | both beside the cluster, concurrently | `Converge.cfg` | `Converge_proofs` |

Composition is by extension: the outer module takes over the variables and the
actions of the inner one and adds the steps around it (`Uks`, `Hetzner`,
`K3sUpgrade`), or interleaves the parts as `commands.ts` does (`Converge`, `Edge`).
`MCWire` and `MCNodes` hold two or three systems that share no state, and the initial
state chooses between them (`level`, `side`): that is a way to check them in one run,
not a composition.

Each `MC*` module holds the small sets a configuration gives to the constants.
An operator whose comment begins with "Mutant of" is that definition with a
plausible bug, kept beside it; no specification uses one.

### K3sLifecycle

The cloud is `status` (what Nova says of each server), `built` (the config hash
in its metadata), `deleting` (DELETE accepted, still listed) and `infra`. The
cluster is `joined` (servers on which k3s is installed) and `nodes` (Node objects). A
server id is a name and a slot, since Nova accepts several servers of one name.
The process is `pc`, the confirmed `plan` and `replace`, and a fiber per name:
`todo` lists servers (`_findServerByName`), `adopt` waits for the one found,
`reap` deletes one in ERROR and starts over, `create` posts, `boot` waits, and
`done` and `installed` are past it. `Fail` is an API error: the fibers are
interrupted and `ensureServer`'s `onError` takes back the servers this run is
booting (`cleanup`), which may itself be cut short. `Crash` kills the process
anywhere. `ApplyPlan` shows the plan and follows `_applyFlow`; `Confirm` and
`Decline` are the prompt.

Two things the code does with text are constants, so that what depends on them
is said: `LooksLikeWorker` is the set of names that contain "-worker-"
(`reconcile.ts` recognises workers so), and `AlsoMatches` the pairs of names that
Nova's pattern filter confuses (worker -1 of a pool of ten also finds -10). The properties
are stated for any values of the two, and except two sets of names: those that are not `Exact`,
for which the filter finds another server too and `ensureServer` takes the first answer, and the
`Mistaken` masters, which are taken for orphaned workers, drained and deleted. The run takes
`AlsoMatches = {}` and `LooksLikeWorker` to be the workers, so it reaches neither.
`DnsRows` says whether the config has DNS records,
whose rows always plan a Create and so keep the plan from being empty.

### K3sBootstrap

`Install` of the previous module in detail. `member` is the cluster whose data a
host's disk holds, `up` the hosts where k3s runs, `refused` those where it
would not start with the token it was given, `mtime` the age of the token files.
A run resolves the token (each read may fail: `ResolveToken(failed)`), installs
the first of the master list, waits until it is ready, installs the other masters
concurrently, then the workers. `Recreate` is a server that was lost and made
again with an empty disk, `Stop` a host that stopped. What k3s does with its
flags is external and stated at the top of the module.

### K3sUpgrade

Adds to `K3sBootstrap` what version runs where: the install script puts the version of
the config on a host, `RaiseVersion` is the operator raising it, and the upgrade
command probes for the controller, applies its manifests, waits for it and writes
the servers' Plan and then the agents'. The controller is external (`Upgrade`): one server
at a time, agents only when every server has the version of the servers' Plan
(`Prepared`, the `prepare` container of the workers' Plan), and never an older
binary over a newer one. A node's upgrade job is one step. Only raises are
modelled: k3s does not support going back, and nothing in the code asks for it.

### Drain

The two steps that `K3sLifecycle` takes for a drain, request by request: `Cordon`,
`ListPods` (one listing), `Evict` or `EvictRefused` per listed pod, `DeleteNode`,
`DeleteServer`; `DrainInterrupted` between any two. Kubernetes is external: it
schedules (`Schedule`), starts (`Runs`) and replaces (`Replaced`) the pods of one deployment,
whose disruption budget wants `needed` of them healthy and refuses an eviction below it, and the
run fails on that. `TakeBack` is the config naming a machine again. k3s registers a
Node anew only between runs; machines are taken in the order they are listed.

`ListPods` may leave out any of the pods on the Node (`missed`). The client keeps only the items that
carry their own `apiVersion` and `kind`, and takes a body it cannot read for an empty
list (`core/src/k8s/client.ts:78-84`; `core/test/k8s/client.test.ts`, "list drops malformed
items"). The items of a PodList usually carry neither, in which case a drain evicts nothing and
the server goes with every pod on it. So `EvictedBeforeDestroyed` speaks of the pods that
were in the last listing. Nothing in `node-ops.ts` tells the pods of a DaemonSet, or mirror
pods, from others: what is listed is evicted.

Three things the code does, and the module therefore too, that a reader should
know: evicted pods are not waited for (the server may go while one is still
terminating, hence "leaving" in the property); a worker that the config takes back
after an interrupted drain stays cordoned, since only a drain touches cordons; and the
server-side apply of a cordon makes a Node that is gone, which a later `DeleteNode`
of the same run removes.

### UksPools

A node group is a pool and the hash of its spec, which is how
`uksPoolName` names it. `ListGroups` is the second
listing (`ensureNodePools`), after the confirmation, and the diff taken from it; the loops create,
replace, update and delete follow in the code's order, each waiting for what it
started. `Break`, `Boot`, `Gone` are UpCloud, `RemovedByHand` the operator
in the console.

`PoolContract` is the abstract specification: `live` groups, the `wanted` spec per
pool, what was `approved`, and whether apply is `busy`. The mapping in `UksPools`
takes the groups that UpCloud has not lost as `live` and the confirmed replaces as
`approved`. `KeepsContract` is checked by TLC and proved.

### Uks

The rest of a UKS cluster around the pools. `phase` goes through
`applyUpcloudUksEffect` (refusals, router, network, cluster, pools, volume, object
storage, records, CDN) or through `deleteUpcloudUksWithCdn`, which waits for what it
deletes, and `upgrade`. `CutEarly` and `CutLate` stop a run before or after the step it is
at took effect; `ClusterBreaks`, `HandMakesBucket` are mishaps. One bucket and one volume
stand for all; user, policy and access key are made in one step, and so are a GET and the
DELETE that depends on it. A volume's tier, the patch of IP filter and labels, a service
stopped by hand and its private network are left out. The service of the object storage outlives
a config whose buckets all went, as in the code (`phase = "no bucket"`).

### OpenStackInfra

Network, subnets, security group and rules, load balancer, server groups and
servers are each found or not found by name. Apply goes through them in order
and then starts one fiber per master, then per worker; delete takes the balancer,
the servers, the groups, the security group and the network. Server groups are
called by the server whose fiber made them, so that two of one name are told
apart. `ReadCommand` is `kubeconfig` or `status`, which call
`ensureLoadBalancer` too.

### Hetzner

`provider` says, from the initial state on, in which cloud the cluster lies; on
OpenStack the steps are those of `OpenStackInfra`. On Hetzner network and firewall are
one request each, the balancer is there at once, names are unique in a project (the
second POST of a placement group that two masters race for is refused, and the run
fails; the re-run finds the first), a failed run cleans nothing up, and teardown waits for
the action of each server in turn. Volumes are rounded up to the smallest size, only
grow, and are made last and deleted first. `Attach` and `Detach` are the cluster's
pods. A request that the client repeats after a lost answer (it repeats DELETE too, and
is then told 404, on which some deletions fail) is a request that took effect in a run
that fails. Attaching servers to the network and firewall is part of making them.

### Mks

Three commands on one set of resources. `apply` goes through the steps of
`applyMksEffect`, one value of `pc` each: the refusal of a control-plane replace,
the refusal of drift before the first write, the network and its two subnets, the
gateway, the cluster (made, upgraded by one minor, or refused), the pools in the
order of `_applyDiff`, the ingress balancer and its floating IP, and the records.
`delete` waits for the cluster, then the balancer, then releases the address,
detaches and deletes the gateway, and deletes the network, which Neutron refuses
while something has a port on it. `upgrade` asks for the next minor.

A pool has what OVH reports of it (`made`, its flavor as a hash) and what its maker
annotated (`stamp`), since the diff compares the one and the plan the other; a
pool made by hand has no annotation. `leaving` holds the pools whose DELETE was
accepted. Under the fault bound the environment makes things by hand: a pool, a
cluster on the public network while a plan is on the screen, a load balancer for a
Service of the cluster.

### Transport

One request by one of several fibers of one of the seven clients (`client`, fixed
at the start): `Call`, `Acquire` a permit, get a token (`Issue`, `Store`: two steps, since
the cache is written after the answer), `Attempt`, and then what the service does:
`Answered`, `ServiceAnswers`, `Unanswered`, `TimeOut`. `Repeats` is the retry
policy by client, method and status, `Renew` the second try with a new token after a
401, `Says` how each client turns a status into an error. Tokens `Expire` in the
process's eyes, `Die` at Keystone and are `Revoke`d. `ran` counts how often the request
was carried out. Waiting times are left out, but for one: tokens are given up 60
seconds before they end and a request takes at most 30, so a token does not die of age
in a request that holds it (the guard of `Die`). What a request does after
its time is up is chosen when it times out.

### Listing

One list over pages, while others add and take items anywhere in its order. Each of the
code's walks is a record: by marker or by count, until the end or until found, and what it
does past its last page. GoDaddy's opaque link is taken as a count, the weakest of what it
may be. The link of hcloud is trusted not to lead back, as the code trusts it.

### Dns, Cdn and Edge

`Dns` has the records of a zone, each with a value and, beside it, the TXT tag of its
owner. The four providers read the names first (`dnsSnap`) and then change them request by request, each in
its own order (`PairRequests`; a pending request carries the step it belongs to, and those of
one step go in any order); other clusters claim names and people
edit by hand in between. Hetzner keeps one set per name and type: its PUT and its DELETE are of
the whole set (`SameSet`, `Deletions`). `Cdn` has the pull zone, its hostnames and certificates, the
Shield zone with its rules and lists, and the file that records their ids. `Edge` runs
them as `applyCdn` and `removeCdn` do. The contents of lists, rule actions, bot
detection and the change of the file's format are left out, and so is the guard
`ReplaceNeedsConfirm`. Besides the limits of the plan (`Gated`), a policy is refused when it asks for
what the provider cannot express (`PolicyFails`, `challenge`).
`resetSecurity` (`bunny/cdn/src/provider/shield.ts:408`) is called by nothing.

### Volumes, Buckets and Converge

`Volumes` finds volumes by name and tag whatever their status. Two `Fibers` ensure the same
ones: the step beside the cluster (`convergeManagedVolumes`), which takes up to four names at
a time and writes the outputs file after all of them, and the cluster's own step, which only k3s
has, takes the names in order and records nothing (`cli/src/k3s/reconcile.ts:198-211`). Each
lists (`Look`) and then creates what it did not find (`Create`). On delete the step after the
cluster takes the first volume of every managed name that is not retained; k3s has before that, and
before the cluster, deleted every tagged volume the config does not retain (`ClusterPurges`).
`VolumesAdopt` is the command `volumes adopt`, whose
binding the next apply overwrites, and `HandMakesVolume` someone making a volume of our name
without our tag.

`Buckets` diffs the config against the outputs file, deletes, ensures,
writes the file, then makes sure of the credentials: for OVH a user, the removal of old
keys, a new key, whose secret is shown once, and the sealed file, each its own step; for bunny the
passwords of the zones. A deletion looks first (`LookInside`) and then deletes (`DeleteEmpty`);
OVH refuses what was written to in between, bunny does not.

`Converge` interleaves the two with the cluster and puts
the ingress into the file at the end; the first failure interrupts the others. k3s without
storage runs only its own step (`Alone`, `cli/src/commands.ts:233`). A file that is being written
when its run ends may be left cut short (`OutputsCut`, `BucketsCut`, `Torn`): the outputs
cannot be read then and every command fails on them, while a credentials file is taken to be there
(`cli/src/storage/reconcile.ts:191`).

### Config

A decoded document is a record, the schemas are predicates on it, and the string
patterns are a constant (`Matching`). `Width` is 32 in the code; TLC, whose integers have 31 bits,
takes 30. What the schema lets through and a reader may not expect: names of pools, volumes,
buckets and DNS records need not differ; the two subnets of MKS may
overlap; autoscaling may have its minimum above its maximum; a k3s config may name provider
`upcloud`, whose every request then fails; UKS zones outside the table have no utility
network to avoid; delete and upgrade do not run the profile's checks; and the
OpenStack variables (also those of `cinder` beside MKS) and `HCLOUD_TOKEN` are not among the
variables asked for beforehand. `auth.method` is related to the provider, but
`loadCredentials` does not look at it.

## 3. Runs

| Run | Instance | What it shows |
|---|---|---|
| `k3s` | one master, two workers, two hashes, five configs (scale 0, 1, 2; worker drift; master drift); two servers of one name at most; 2 faults, 1 edit or delete; name filter and worker test exact; 237 000 states | `OneServerPerName`, `OnlyConfirmedDestroyed`, `MastersSurviveApply`, `DrainedBeforeDestroyed`, `SuccessLeavesNoDrift`; `EventuallyConverges` under fairness |
| `k3s_interrupted` | the same without DNS rows, 1 fault | **violated**: finding 1 |
| `bootstrap` | hosts: three masters, two workers, two versions, 2 faults, 2 losses (never the first master's disk). Drain: three machines, two pods, any budget, 2 interruptions or pods deleted by others; 573 000 states | `OneControlPlane`, `OnlyMasterOneRefuses`, `SuccessIsOneCluster`, `NoAgentAhead`, `EvictedBeforeDestroyed`; `NodesConverge` |
| `k3s_master_one_lost` | three masters, one worker, 1 loss, of any host | **violated**: finding 2 |
| `uks_pools` | two pools, two hashes, two plans, two versions, three configs (scale, change, add and drop a pool; volume and bucket none, retained or not; CDN), 2 faults of the pools, 1 elsewhere, 1 edit; 465 000 states | `KeepsContract`, `SuccessIsDesired`, `DeletedLeavesNothing`, `DataSurvives`; `EventuallyServed` |
| `uks_failed_generation` | one pool changed, 1 fault | **violated**: finding 3 |
| `openstack_infra` | either cloud; two masters, one worker, one subnet, two rules, volumes of size 1 (dropped) and 3 (retained) where 2 is the smallest, 2 changes of mind between apply and delete, 2 faults; 432 000 states | `CloudTypeOK`, `ProvisionedIsComplete`, `DeletedLeavesNothing`, `DeleteIsExact`; `EventuallyAsAsked` |
| `openstack_groups` | OpenStack alone, no faults | **violated**: finding 4 |
| `mks` | flow: two pools, two hashes, three versions, three configs (change a pool and the version, drop a pool, drop the network), 2 faults or things made by hand, 2 edits, deletes or upgrades. Request: two fibers, POST and DELETE, one or two permits, one retry, one revocation, each client. List: five items, pages of two, two pages at most for the walk that stops; 218 000 states | `ClusterIsWhole`, `OnlyConfirmedReplaced`, `NothingUndercut`, `SuccessIsDesired`, `DeletedLeavesNothing`; `AnswerIsTrue`; `ListingIsWhole`; `LevelLiveness` |
| `mks_scale` | one pool whose count is edited, no DNS rows, no faults | **violated**: finding 5 |
| `edge` | the four DNS providers, two names one of which is the apex, one hostname, one rule, one list; 2 faults, edits by hand or claims of another cluster, 2 edits; ids up to 10; 653 000 states | `TypeOK`, `ForeignSurvives`, `RemovedLeavesNothing`, `NoDanglingRecord`, `OnlyRecordedTouched`; `EventuallyServed` |
| `converge` | MKS with OVH, bunny and no storage, k3s with bunny and none; one volume, two buckets, fourteen configs; 2 faults or things others do, 2 edits; ids of volumes up to 7, of buckets up to 9; 523 000 states | `TypeOK`, `DataSurvives`, `SuccessIsRecorded`; `EventuallyServed` |

Why these bounds. Every protocol here is per server, per pool or per host, and
they meet only in the phases that wait for all of one kind; one master and two
workers have a worker kept beside one removed, a drifted one beside one that is
not. Two masters are needed where masters race (server groups), three where a
majority of tokens differs from a minority. Two faults are one failure and one
failure of the repair. Ids that only tell things apart (volumes, buckets, rules)
are reused when nothing has them any more; how many are enough is an assumption on the
constants (`BucketsAssumption`, `CdnAssumption`), and that under it
one is always free is proved (`FreshBucketIsFree`, `FreshIsFree`). Volumes have no such number, as the two
fibers of k3s may make more at every run; there `MaxVolIds` bounds how many there are at a time
(the guard of `CreateVolume`), and the run never waits for one: with nine it has the same states
as with seven. One retry
suffices in `Transport`, since the policy does not look at how many are left but for
the last; two pages and a rest, in `Listing`, make a first page, a full one and a short one.
Two servers of one name is one more than the property allows. Fault, loss,
edit and turn counters appear in guards only: they limit how much goes wrong,
never what a step does. The theorems hold for all values of them.

Deadlock is checked in every run but `mks_scale`, `edge` and `converge`, where, with nothing
to do and no edit left, the system really stops (a bunny config without records, for
one, plans no rows).

### Findings

1. *Nothing to do is not always converged.* The plan compares servers (and DNS,
   bucket and CDN rows) only. An apply that dies after its servers carry the new
   hash leaves k3s not installed; in a cluster with no DNS records, the next
   apply says there is nothing to do (`cli/src/commands.ts:213`). `README.md`, line 129,
   promises "Re-running converges — safe to interrupt."
2. *The survivor does not stay master 1.* `resolveToken` names the oldest bearer
   first master, `installMasters` initialises the first of the list
   (`distro-k3s/src/bootstrap/orchestrate.ts:14`). When that one has lost its
   disk, a second control plane comes up next to the first.
3. *A failed generation counts.* After a UKS replace that failed, the re-run takes
   the failed group for the live one and deletes the old, running group
   (`upcloud/distro-uks/src/distro/nodegroup-diff.ts:61`), against the comment
   "new generation must reach running before the old is deleted".
4. *Masters in different server groups.* Concurrent fibers list no group and create
   one each (`openstack/client/src/provider/cloud-provider.ts:421-442`), so the
   anti-affinity of decision D8 does not hold between them, and delete removes
   only the first group of the name.
5. *Scaling is nothing to do.* The row of an MKS pool compares the hash of what
   cannot be changed (`cli/src/mks/plan.ts:76`). An edit of `worker_pools[].count`
   alone leaves every row NoOp, and `scale` returns before it compares counts, in a
   config without DNS records or anything else to do. `README.md`, lines 118 and
   130, give `scale` as the way to carry out that edit.

## 4. Fairness

Safety is checked and proved without fairness. For liveness:

- weak fairness of the process's steps (`Progress`, `UksProgress`, `CloudProgress`,
  `ApplyProgress`, `UpgradeSteps`, `DrainSteps`, each provider's fibers): a running
  process goes on. Effect fibers are scheduled fairly, polling loops have intervals; a
  crash remains possible while the fault bound lasts;
- weak fairness of what others do with a request they accepted (`Boot`, `Vanish`, `Settle`,
  `UksSettle`, `CloudSettle`, `Cinder`, `ControllerSteps`, `PodSteps`): it is finished. The
  code's polls assume as much; a poll that times out is a fault. `Detach` says that a deleted
  pod lets go of its volume;
- strong fairness of starting the command again (`ApplyPlan(TRUE)`, `Apply`,
  `UksApply(TRUE)`, `StartApply`, `StartDelete`, `StartTeardown`, `ReRunApply`, `ReRunUpgrade`):
  the operator re-runs with `--yes` what has not
  converged. Strong, since a plan may be empty at moments, while a server that
  will be gone is still listed. Draining needs weak fairness of `StartDrain` only, as
  the orphan stays;
- in `Transport`, strong fairness of a permit coming to whoever waits for it (Effect's
  semaphore is a queue), weak fairness of the fiber, of Keystone and of its
  timeout. That a service answers is not assumed: the clients without a
  timeout are left out of `EveryCallAnswered`. In `Listing`, weak fairness of reading a page.

No fairness is assumed of faults, edits, prompts answered, commands that read,
other clusters or people.

What the liveness properties except. Each is a state that re-running does not
leave, found by the model, and named where the property is defined.

| Property | Excepted |
|---|---|
| `EventuallyConverges` (`K3sLifecycle`) | a master that drifted: the code refuses to replace it, on purpose |
| `EventuallyConverges` (`Mks`) | a drift that is refused, among them an upgrade that went one minor too far, since the request names no version and one sent on a stale read comes on top of another; a network left with one of its two subnets; a gateway that an interrupted delete detached and the next apply takes for whole; a pool made by hand with another flavor under a name of the config |
| `EventuallyAsAsked` | a server on Hetzner that stands still and is waited for (`Stranded`); a volume that a pod still uses when delete begins (`Held`); a config that asks for less than the volume has (`Shrunk`); an OpenStack balancer in ERROR, which no command repairs |
| `EventuallyServed` (`Uks`) | a control plane that drifted (`Refuses`) or failed; a credentials file that outlived its key (`StaleKey`); rows that all say NoOp while what has no row is missing (`Unseen`); deletion asked for again and again |
| `EventuallyServed` (`Edge`) | a name taken by others or an apex GoDaddy cannot have (`NameBlocked`); a pull zone whose id was never recorded, or recorded and gone (`ZoneStranded`); Shield rules under a configured name that the file does not know (`ShieldStranded`); a policy the plan does not allow; a change no row shows |
| `EventuallyServed` (`Converge`) | a bucket to delete that is gone or not empty; a zone name that is taken; a zone gone by hand; an OVH bucket whose encryption nobody compares; work no row shows (`Unplanned`: among it k3s volumes, which the plan has no rows for, and an OVH bucket gone whose name is found in another region); a file cut short (`Unreadable`) |
| `EventuallyDrained` | a budget that lets no pod go |

## 5. Proofs

Every theorem is checked by TLAPS to the last leaf; each holds for all values of
the constants that the named assumptions of its module allow (`ConfigsAssumption`,
`PoolsAssumption`, ...), plus what the theorem itself assumes.

| Theorem | States | Also assumes |
|---|---|---|
| `TypeCorrect` | `TypeOK` of `K3sLifecycle` | |
| `NeverDuplicated`, `SuccessMeansNoDrift` | `OneServerPerName`, `SuccessLeavesNoDrift` (of `Exact` names) | |
| `ConfirmedBeforeDestroyed`, `MastersSurvive`, `DrainedFirst` | `OnlyConfirmedDestroyed`, `MastersSurviveApply`, `DrainedBeforeDestroyed` (the first two but for `Mistaken` masters) | |
| `NoSplitBrain`, `QuorumKept`, `SuccessMeansOneCluster` | `OneControlPlane`, `OnlyMasterOneRefuses`, `SuccessIsOneCluster`, of `K3sBootstrap` | `MasterOneKept` |
| `UpgradesSplitNothing` | the same three, of `K3sUpgrade` | `MasterOneKept` |
| `AgentsNeverAhead` | `NoAgentAhead` of `K3sUpgrade` | |
| `DrainsBeforeDestroying` | `EvictedBeforeDestroyed` (but for pods a listing left out) | |
| `PoolsKeepContract` | `KeepsContract`: `UksPools` implements `PoolContract` | |
| `PoolsTyped`, `PoolsNeverEmptied`, `OverlapsAreConfirmed`, `SuccessIsWhatWasAsked` | `TypeOK`, `PoolNeverEmptied`, `OverlapIsConfirmed`, `SuccessIsDesired` of `UksPools` | |
| `UksImplementsPools` | the whole UKS flow implements `UksPools` | |
| `UksKeepsContract`, `UksSuccessIsDesired` | hence `KeepsContract`, `SuccessIsDesired` of `Uks` | |
| `UksDeletionIsComplete`, `UksKeepsData` | `DeletedLeavesNothing`, `DataSurvives` of `Uks` | |
| `InfraTyped`, `DeletionIsComplete` | `TypeOK`, `DeletedLeavesNothing` of `OpenStackInfra` | |
| `ProvisioningIsComplete` | `ProvisionedIsComplete` of `OpenStackInfra` | `OneSubnet` |
| `CloudTypes`, `CloudDeletionIsComplete`, `CloudDeletionIsExact` | `CloudTypeOK`, `DeletedLeavesNothing`, `DeleteIsExact` on either cloud | |
| `CloudProvisioningIsComplete` | `ProvisionedIsComplete` on either cloud | `OneSubnet` |
| `HetznerProvisioningIsComplete` | the same on Hetzner, when the servers are up and before the volume is made | |
| `MksTypes`, `MksClusterIsWhole`, `MksOnlyConfirmedReplaced`, `MksNothingUndercut`, `MksSuccessIsDesired`, `MksDeletedLeavesNothing` | `TypeOK`, `ClusterIsWhole`, `OnlyConfirmedReplaced`, `NothingUndercut`, `SuccessIsDesired`, `DeletedLeavesNothing` of `Mks` | |
| `EdgeInvariant`, `EdgeTypes`, `OthersRecordsSurvive`, `RemovalIsComplete`, `NothingDangles`, `UnrecordedUntouched` | `EdgeInv`, `TypeOK`, `ForeignSurvives`, `RemovedLeavesNothing`, `NoDanglingRecord`, `OnlyRecordedTouched` of `Edge` | |
| `ConvergeInvariant`, `ConvergeTypes`, `NoDataLost`, `SuccessRecorded` | `ConvergeInv`, `TypeOK`, `DataSurvives`, `SuccessIsRecorded` of `Converge` | |
| `WireTypes`, `PostsAreAnsweredTruly` | `WireTypeOK`, `AnswerIsTrue` of `Transport` | |
| `ListsAreWhole` | `ListingIsWhole` of `Listing` | |
| `OverlapMeansShared`, `UksNetworkIsFree`, `IngressOriginHasItsSubnet`, `UksAsksForAllItReads`, `CredentialsOfOneSource` | what an accepted config may be relied on for | `Missing` is no network, in the third |

The outer modules repeat no proof of the inner ones. `UksImplementsPools` is a step simulation:
the cluster and network steps change none of the pools' variables, so they stutter, and the
pools' steps are taken only from the phases in which the flow has a plan in hand;
what holds of `UksPools` then holds of `Uks`. `UpgradesSplitNothing` shows that the
commands of `K3sUpgrade` keep the invariant of `K3sBootstrap`, and `CloudInv` is the invariant
of `OpenStackInfra` on the one cloud and that of `Hetzner` on the other.

The extra assumptions are where the code depends on luck. `MasterOneKept` is about the
behaviour: no step is the loss of master 1's server. It excludes finding 2, and is needed, as the code
also recreates a master 1 in ERROR; any other host may be lost. `OneSubnet` is what k3s
asks for, and with two subnets (MKS) `ensureNetwork` does not complete a
half-made network. What server names look like is not assumed: the names that confuse the
matching are excepted in the properties, since what is promised of the others
holds whatever happens to those.

The arguments.

- *One server per name.* `OneServerPerName` alone is not inductive: a fiber in
  `create` is about to post. `FibersKnow` adds that such a fiber's name has no
  live server, which holds for `Exact` names because only that fiber posts under that name and
  nothing else in a run revives one. The fiber of another name may adopt or reap the
  server of an exact one, which takes away but never adds.
- *Destruction in a run* rests on `RunInv`. `LiveStamped`: every live server has a
  hash, so the plan has a row for it. `PlanFits`: the plan still fits the config,
  as nobody else edits it while the process runs; an undesired live server is a row
  Delete, and `replace` holds only rows to replace. `ListsFit`: what a
  phase has listed for deletion is inside what was confirmed, and what was drained
  has no Node left.
- *What success leaves* rests on `DriftInv`, on top of the two before. `DriftPlanned`
  follows a drifted server from its row to the list of those to delete, and says that none
  is left when the fibers start. `FibersServe`: a fiber that has found or made its
  server holds the only one of its name, and having installed k3s means having done so on that
  one, which is why `OneServerPerName` is needed: with a second server of the name, the
  other one could be the one that drifted. `OrphansListed` says that no worker outside the
  config escapes the last listing.
- *Drain* rests on `DrainInv`: the Node at hand is cordoned, so nothing is
  scheduled there any more (`Closed`), and a pod on it that is not leaving is still in the
  list, or was left out of it (`NoneMissed`). The cordon has to come before the listing for the second
  to hold at all.
- *Bootstrap* rests on `BootInv`: whoever is in a cluster is in the first master's
  (`AllWithMasterOne`), only members hold token files, and the token in hand either is
  fresh, which only the first master can be given, or opens the one cluster. That
  all readable tokens are equal is what makes the majority vote harmless
  (`OneTokenWins`).
- *Versions* rest on `VersionInv`. `NoAgentAhead` speaks of a worker and the masters
  of its cluster and is not inductive, since a host joins later than it gets its version;
  `AgentsBehind` says it of all members. It holds because the installation takes every
  master to the version of the config before the first worker (`RunVersions`), and the
  agents' Plan never passes the servers' (`VersionTypes`), however often either is cut
  short between the two Plans.
- *Pools* rest on `PoolInv` and `AccountedFor`: the diff is computed once and
  carried out over many steps during which groups fail, so the invariant relates
  what is left of it to the groups that exist. `DeletesStale` says that what will be deleted
  of a desired pool is not the wanted generation and that this one exists or is yet
  to be created first. `InTheDiff` says that whatever a pool still lacks or has too
  much is in the remaining diff, which is empty at `Finish`. The step simulation of
  `PoolContract` uses the same invariants: a creation maps to `Add`, a
  deletion to `Drop`, confirmations and edits to `Ask`, waits to stutters.
- *UKS around the pools* rests on `UksInv`: there are node groups only while there is
  a cluster (`GroupsHaveCluster`), buckets and keys only in a service that stands
  (`StoreInService`), the process has a plan exactly in the phases that use one
  (`PlanInHand`), and each phase of delete knows what the ones before it took away
  (`TakenAway`), the records included, as no run puts anything back meanwhile.
- *Infrastructure* rests on `InfraInv`, one clause per phase: what apply has made
  before it, what delete has removed before it, and that no fiber runs in delete.
  On Hetzner (`HetznerInv`) more is needed for less: at most one placement group per
  role exists although two fibers race for it (`OneGroupEach`, by the unique names), a
  server on which a fiber is done is past its creation (`DoneIsMade`), and teardown's
  loops leave nobody out (`OutOfLoops`, `RemovedForGood`).
- *MKS* rests on two invariants. `MksInv` is about order: `MadeInOrder` (the
  network is there before what needs it), `TornDownInOrder` (what delete has passed
  is gone and stays gone), `DiffIsConfirmed` (what is left of the diff to replace
  was confirmed, what is left to delete is not of the config) and `RoomToUpdate` (an
  update never passes the newest version). `AsAsked` is about content, for success:
  `ClusterAsAsked`, `StampTells` (an annotated pool is what its annotation
  says, so rows and diff agree on every pool kumulo made), `PlanHolds` (a drifted
  pool was confirmed, or is leaving) and `DiffCovers` (what a pool still lacks is in
  the remaining diff).
- *Edge* rests on `EdgeInv`. Its first half follows the pull zone: where the process
  is, the zone it works on is the one it knows, and what the records are to point at is
  there (`CdnFlow`). Its second half relates three things that drift apart while requests are
  under way: the records, the zone as the process last read it (`dnsSnap`) and the
  requests still to be made. `Snapshot`: what has appeared since the reading is ours, or
  its name is contested. `Asked`: whatever a request takes away or changes was found
  under our tag, and the tag of a name goes before its record; `Tagged` is what that buys,
  that a record of ours is recognised as such, so that a delete can find it. `Exclusive`
  and `Authors` say who may have written what. The four providers differ in how they
  order requests, and the lemmas about one name (`EnsureNameKeepsDns`,
  `RequestKeepsDns`) go through all of them.
- *Volumes and buckets* rest on `ConvergeInv`. What is doomed was found under our
  tag, and still is that volume (`VolUnique`, `VolFlow`), though ids come back into use; the only fiber of
  MKS still does not find what it is about to create, so it makes no second volume of a name
  (of k3s this does not hold, and is not claimed); the
  names left to a phase are what the diff of config and outputs file says (`BucketFlow`);
  and what a phase has passed is in memory, then on file, up to the report of success. That a
  credentials file means a key in force is an equality of two pieces of state that
  three steps pull apart: the clauses about `secrets` say where they may differ.
- *A request.* `Unrun`: a POST that is still to be sent has not been carried out.
  `OwnTokens`: a token that one fiber is about to store is nobody else's. `LostOnce`:
  with one revocation, a live request that already renewed its token does not hold
  a lost one. Only a revocation loses a token in use; whoever finds it lost
  has emptied the cache of it before asking for another; so the second try cannot meet
  the same loss. That a fresh token is always to be had is a count
  (`FreshToken`).
- *A list.* `Ahead`: what was there from the first page on is either read or lies
  after the place where the walk goes on. By marker that is immediate; by count it needs
  that nothing was taken, and that what was added can only move things back (`Rank`).

Every safety property that a passing run checks is stated by one of these theorems. Only
model-checked are:

- liveness (`EventuallyConverges`, `NodesConverge`, `EventuallyServed`, `EventuallyAsAsked`,
  `LevelLiveness`): fairness and `ENABLED` are beyond the prover;
- the five disagreements of section 3, which are counterexamples;
- the samples of `Config` in `MCNodes`.

The theorems about the parts of `MCWire` and `MCNodes` are about the specification of each
part, since the choice between them is an artefact of the run.

## 6. Abstractions and what is left out

- A request is one step except in `Transport`, and an interruption falls between
  steps. An interrupted POST has or has not been executed. An install script
  interrupted over SSH has or has not run. A list is one step except in `Listing`;
  `ListsAreWhole` and the exceptions it names say what that assumes.
- `Transport` and `Listing` are checked beside the flows, not composed with them: the
  product is out of reach. A flow step that fails may have taken effect, which is what
  `AnswerIsTrue` allows of an error.
- Config hashes are values. That they differ when specs do is the code's own assumption.
- Nova, Octavia, Neutron, Keystone, Hetzner, UpCloud, OVH, bunny, the DNS services,
  Kubernetes, the upgrade controller and k3s are modelled from how the code uses them;
  such definitions are marked external.
- Two commands run at the same time by two operators are not modelled; nothing in
  the code guards against it. Other clusters' DNS records are.
- Node groups without a hash label are not kumulo's and are left out of `UksPools`.
  Image and flavor lookup and the load balancer's listeners are left out everywhere.
- In `Mks`: one region, and subnets whose ids do not change; the vRack check is a
  failure that may happen; the inventory is read in one step; a pool is a flavor
  and a count, without autoscaling bounds and without an installing state; CDN and
  DNS records are one step (they are in `Edge`); volumes and the outputs file, which
  `_convergeAll` handles beside it, are none (they are in `Converge`).
- In `Converge`: the volumes are those of Cinder (with `hcloud` the step beside the
  cluster does nothing, and the volume is in `Hetzner`); DELETE of a volume in use is a fault; a
  write of `volumes adopt` is not cut short; zones
  are not made anew by hand; secrets go to SOPS. Changing the outputs format from yaml to
  json and back leaves both files, of which the stale one may be read
  (`ovh/storage/src/outputs.ts:64`); the format is fixed here.

Disagreements that are exceptions. Besides the findings, these are places where the code does less than
a document, a comment or a reader would have it. Each is in the model, and excepted by name where the
property or the dead end is defined, so no run reports it:

- a drain may evict nothing (`missed`; see Drain), where `.docs/workflows/kumulo-cli-build/requirements.md:37`
  (FR-2.7) has scale-down drain the node first;
- `.docs/design/kumulo-design.md:216` says the DNS modules "only ever touch records the
  module created". Removal takes every record at a name that carries the cluster's tag, a person's too, and with
  Hetzner the PUT of the tag replaces a person's TXT set (`ForeignSurvives`). Another cluster may take a
  name between the reading and the writing (`contested`);
- two servers of a name that is not `Exact` can be made, against `core/src/reconcile/apply.ts:6`, and
  a master whose name contains "-worker-" is drained and deleted by apply (`Mistaken`);
- k3s's two fibers can make one volume twice, the very thing the comment in
  `openstack/volumes/src/provider.ts` on `ensureVolume` warns of; its delete takes tagged volumes
  the config no longer names, which the plan does not show, while
  `cli/src/commands/volumes.ts:127` says of the step beside it "never discovers/deletes on its own"; and without storage it records no
  volume in the outputs (`Alone`; FR-8.2, requirements.md:72);
- a bunny zone written to between the look and the DELETE goes with its contents (`DataSurvives`);
- an OVH bucket gone is not planned for when its name is found in another region the file
  lists (`BucketRows`), and an outputs or credentials file cut short is never written again (`Unreadable`).

Not modelled, and why:

- the doctor's checks (`cli/src/doctor*`): they only read, and no command reaches them;
- rendering, spinners, prompts' wording, exit codes and error texts: no state;
- the k3s release channel and its cache: read for display and defaults;
- kubeconfig rewriting, addon manifests, cloud-init and the install script's text: pure
  formatting, whose effects are in the external parts;
- SOPS and SSH subprocesses: a step that succeeds or fails;
- lint rules (`oxlint`), generated API clients, schema and type declarations without
  behaviour. These, with tests' fixtures and index files, are most of the lines that no
  definition maps to.

## 7. Plan

Done: the modules of section 2 with their runs; the composition of the parts of
`commands.ts`; the proofs of every safety property of a passing run; the refinements of
`PoolContract` by `UksPools` and of `UksPools` by `Uks`. What would come next, in this order:

1. An abstract specification of one owned resource (found, made, kept, replaced only
   when confirmed), implemented by servers, groups, pools and records.
2. `K3sBootstrap` and `Drain` as implementations of the steps `Install` and
   `drainAndRemove` of `K3sLifecycle`.

## 8. Running it

`tlc -config K3sLifecycle.cfg MCK3sLifecycle` checks a run (the `PROJECT.json` runs
give the pairs), `tlapm K3sLifecycle_proofs.tla` the proofs of a module. The longest
run takes about three minutes with two workers, the longest proof module about as long.
