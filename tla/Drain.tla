-------------------------------- MODULE Drain --------------------------------
(***************************************************************************)
(* How kumulo takes a worker that the config no longer names out of a k3s  *)
(* cluster: its Node is cordoned, its pods are evicted, the Node is        *)
(* deleted, and then the server.  K3sLifecycle takes this as two steps.    *)
(* Sources: cli/src/k3s/reconcile.ts, distro-k3s/src/distro/drain.ts,      *)
(* core/src/k8s/node-ops.ts and client.ts.                                 *)
(*                                                                         *)
(* Kubernetes is external: it schedules pods on Nodes that are not         *)
(* cordoned, refuses an eviction that a disruption budget does not allow,  *)
(* lets an evicted pod finish, collects the pods of a Node that is gone,   *)
(* and replaces every pod that went.                                       *)
(***************************************************************************)
EXTENDS Integers, FiniteSets

CONSTANTS
  Machines,    \* worker servers, in the order the provider lists them
  Pods,        \* the replicas of one deployment
  MaxBreaks    \* bound: interruptions of the drain, and pods deleted by others

ASSUME DrainAssumption ==
  Machines \subseteq Nat \ {0} /\ IsFiniteSet(Machines) /\ IsFiniteSet(Pods) /\ MaxBreaks \in Nat

NoMachine == 0

VARIABLES
  orphaned,    \* machines the config does not name
  servers,     \* machines whose server stands
  registered,  \* machines with a Node
  cordoned,    \* Nodes that take no new pod
  on,          \* the machine a pod is bound to
  phase,       \* "unbound", "starting", "running" or "leaving"
  needed,      \* minAvailable of the disruption budget
  dpc,         \* where the drain is
  at,          \* the machine it is about
  listed,      \* pods it has still to evict
  missed,      \* what its last listing left out of the pods on their machine
  breaks

kubeVars  == <<registered, cordoned, on, phase>>
drainVars == <<orphaned, servers, kubeVars, needed, dpc, at, listed, missed, breaks>>

DrainInit ==
  /\ orphaned \in SUBSET Machines /\ orphaned # Machines
  /\ servers = Machines /\ registered = Machines /\ cordoned = {}
  /\ on = [p \in Pods |-> NoMachine] /\ phase = [p \in Pods |-> "unbound"]
  /\ needed \in 0..Cardinality(Pods)
  /\ dpc = "idle" /\ at = NoMachine /\ listed = {} /\ missed = {} /\ breaks = 0

-----------------------------------------------------------------------------
(* The drain                                                               *)

Healthy == {p \in Pods : phase[p] = "running"}

DrainGoes(place) == dpc' = place /\ UNCHANGED <<orphaned, needed>>

\* The run ends, with or without an error.
DrainEnds == DrainGoes("idle") /\ at' = NoMachine /\ listed' = {}

\* _drainOrphanedWorkers: the servers are listed anew by every run and taken
\* one after the other.
StartDrain ==
  /\ dpc = "idle"
  /\ \E m \in orphaned \intersect servers :
       /\ \A n \in orphaned \intersect servers : m <= n
       /\ at' = m
  /\ DrainGoes("cordon")
  /\ UNCHANGED <<servers, kubeVars, listed, missed, breaks>>

\* Mutant of Cordon: the Node is left open.
CordonNot ==
  /\ dpc = "cordon"
  /\ DrainGoes("list")
  /\ UNCHANGED <<servers, kubeVars, at, listed, missed, breaks>>

\* cordonNode, a server-side apply: a Node that is gone is created by it.
Cordon ==
  /\ dpc = "cordon"
  /\ registered' = registered \union {at}
  /\ cordoned' = cordoned \union {at}
  /\ DrainGoes("list")
  /\ UNCHANGED <<servers, on, phase, at, listed, missed, breaks>>

\* _podsOnNode: the pods bound to the Node, whatever their phase or owner.
PodsOn(m) == {p \in Pods : on[p] = m}

\* The client keeps of the answer the items that carry their own apiVersion and
\* kind and takes a body it cannot read for an empty list; _podRefs then keeps
\* those with a name and a namespace.  What remains may be any part of the pods
\* (nothing, when the items of a PodList come without apiVersion and kind).
ListPods ==
  /\ dpc = "list"
  /\ \E seen \in SUBSET PodsOn(at) :
       listed' = seen /\ missed' = (missed \union PodsOn(at)) \ seen
  /\ DrainGoes("evict")
  /\ UNCHANGED <<servers, kubeVars, at, breaks>>

\* The eviction API; a pod that is leaving already is answered the same.
Evict(p) ==
  /\ dpc = "evict"
  /\ p \in listed /\ on[p] = at
  /\ phase[p] = "running" => Cardinality(Healthy) > needed
  /\ phase' = [phase EXCEPT ![p] = "leaving"]
  /\ listed' = listed \ {p}
  /\ DrainGoes("evict")
  /\ UNCHANGED <<servers, registered, cordoned, on, at, missed, breaks>>

\* 429, the budget; 404, the pod has gone since it was listed.
IsRefused(p) ==
  \/ on[p] # at
  \/ phase[p] = "running" /\ Cardinality(Healthy) <= needed
  \/ phase[p] = "starting" /\ Cardinality(Healthy) < needed

\* Mutant of EvictRefused: the drain goes on to the next pod.
EvictRefusedGoesOn(p) ==
  /\ dpc = "evict"
  /\ p \in listed /\ IsRefused(p)
  /\ listed' = listed \ {p}
  /\ DrainGoes("evict")
  /\ UNCHANGED <<servers, kubeVars, at, missed, breaks>>

\* Either fails the drain, and with it the run; the Node stays cordoned.
EvictRefused(p) ==
  /\ dpc = "evict"
  /\ p \in listed /\ IsRefused(p)
  /\ DrainEnds
  /\ UNCHANGED <<servers, kubeVars, missed, breaks>>

\* Every eviction has been accepted; nobody waits for the pods to finish.
Evicted ==
  /\ dpc = "evict"
  /\ listed = {}
  /\ DrainGoes("node")
  /\ UNCHANGED <<servers, kubeVars, at, listed, missed, breaks>>

\* Mutant of DeleteNode: the Node is left to the cloud's controller.
DeleteNodeNot ==
  /\ dpc = "node"
  /\ DrainGoes("server")
  /\ UNCHANGED <<servers, kubeVars, at, listed, missed, breaks>>

\* deleteNode; 404 is as good.
DeleteNode ==
  /\ dpc = "node"
  /\ registered' = registered \ {at}
  /\ cordoned' = cordoned \ {at}
  /\ DrainGoes("server")
  /\ UNCHANGED <<servers, on, phase, at, listed, missed, breaks>>

\* cloudProvider.deleteServer
DeleteServer ==
  /\ dpc = "server"
  /\ servers' = servers \ {at}
  /\ DrainEnds
  /\ UNCHANGED <<kubeVars, missed, breaks>>

\* A request fails or the process is killed.
DrainInterrupted ==
  /\ dpc # "idle"
  /\ breaks < MaxBreaks /\ breaks' = breaks + 1
  /\ DrainEnds
  /\ UNCHANGED <<servers, kubeVars, missed>>

\* The config names the worker again.
TakeBack(m) ==
  /\ dpc = "idle"
  /\ m \in orphaned \intersect servers
  /\ orphaned' = orphaned \ {m}
  /\ UNCHANGED <<servers, kubeVars, needed, dpc, at, listed, missed, breaks>>

-----------------------------------------------------------------------------
(* Kubernetes                                                              *)

KubeStep == UNCHANGED <<orphaned, servers, needed, dpc, at, listed>>

Schedule(p) ==
  /\ phase[p] = "unbound"
  /\ \E m \in (registered \intersect servers) \ cordoned : on' = [on EXCEPT ![p] = m]
  /\ phase' = [phase EXCEPT ![p] = "starting"]
  /\ KubeStep /\ UNCHANGED <<registered, cordoned, missed, breaks>>

Runs(p) ==
  /\ phase[p] = "starting" /\ on[p] \in servers
  /\ phase' = [phase EXCEPT ![p] = "running"]
  /\ KubeStep /\ UNCHANGED <<registered, cordoned, on, missed, breaks>>

\* An evicted pod has finished, or its Node is gone; another takes its place.
Replaced(p) ==
  /\ phase[p] # "unbound"
  /\ \/ on[p] \notin registered
     \/ phase[p] = "leaving" /\ on[p] \in servers
  /\ on' = [on EXCEPT ![p] = NoMachine]
  /\ phase' = [phase EXCEPT ![p] = "unbound"]
  /\ missed' = missed \ {p}
  /\ KubeStep /\ UNCHANGED <<registered, cordoned, breaks>>

\* Others delete a pod.
OthersDelete(p) ==
  /\ phase[p] = "running"
  /\ breaks < MaxBreaks /\ breaks' = breaks + 1
  /\ phase' = [phase EXCEPT ![p] = "leaving"]
  /\ KubeStep /\ UNCHANGED <<registered, cordoned, on, missed>>

\* k3s on a server that an interrupted run left without its Node starts again.
Registers(m) ==
  /\ dpc = "idle"
  /\ m \in servers \ registered
  /\ registered' = registered \union {m}
  /\ KubeStep /\ UNCHANGED <<cordoned, on, phase, missed, breaks>>

-----------------------------------------------------------------------------
DrainSteps ==
  \/ Cordon \/ ListPods \/ Evicted \/ DeleteNode \/ DeleteServer
  \/ \E p \in Pods : Evict(p) \/ EvictRefused(p)

PodSteps(p) == Schedule(p) \/ Runs(p) \/ Replaced(p)

\* Nothing is left to drain.
Drained == orphaned \intersect servers = {} /\ UNCHANGED drainVars

DrainNext ==
  \/ StartDrain \/ DrainSteps \/ DrainInterrupted
  \/ \E m \in Machines : TakeBack(m) \/ Registers(m)
  \/ Drained
  \/ \E p \in Pods : PodSteps(p) \/ OthersDelete(p)

DrainSpec == DrainInit /\ [][DrainNext]_drainVars

-----------------------------------------------------------------------------
\* What the drain was shown it evicts before the server is deleted, and what it
\* was shown is all that can be there: over refused evictions, interruptions,
\* pods scheduled meanwhile and machines taken back, a pod on a machine whose
\* server is gone was evicted, or the last listing of that machine left it out
\* (client.ts, list).  Nothing is promised of a pod that was left out.
EvictedBeforeDestroyed ==
  \A p \in Pods : phase[p] # "unbound" /\ on[p] \notin servers => phase[p] = "leaving" \/ p \in missed

\* Re-running apply gets every machine that the config does not name out of
\* the cluster, its Node too, unless the budget lets no pod go at all.  It says
\* nothing of whether the pods that were on it were evicted.
EventuallyDrained ==
  <>[](needed < Cardinality(Pods) => orphaned \intersect (servers \union registered) = {})
=============================================================================
