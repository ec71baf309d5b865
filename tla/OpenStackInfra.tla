--------------------------- MODULE OpenStackInfra ---------------------------
(***************************************************************************)
(* What a k3s cluster owns in OpenStack, as `apply' makes it and `delete'   *)
(* takes it down: network, security group, load balancer, server groups    *)
(* and servers.  There is no state file: every operation first looks for   *)
(* the resource by its name, and any run may stop between two requests.    *)
(* Sources: openstack/client/src/provider/cloud-provider.ts and            *)
(* cli/src/k3s/reconcile.ts.                                               *)
(***************************************************************************)
EXTENDS Naturals

CONSTANTS
  Masters, Workers,  \* the names of the servers the config asks for
  Cidrs,             \* the subnets of the network; k3s asks for one
  Rules,             \* the rules of the security group
  MaxTurns,          \* bound: how often the operator turns between apply and delete
  MaxFaults          \* bound: interruptions, servers and balancers that fail

Servers == Masters \union Workers

ASSUME InfraAssumption ==
  /\ Masters # {} /\ Cidrs # {} /\ Rules # {}
  /\ Masters \intersect Workers = {}
  /\ "none" \notin Servers
  /\ MaxTurns \in Nat /\ MaxFaults \in Nat

VARIABLES
  network,         \* whether the network exists
  subnets,         \* its subnets
  secGroup, rules, \* whether the security group exists, and its rules
  lb,              \* the provisioning status of the load balancer
  groups,          \* server groups, each called by the server it was made for
  server, member,  \* the status of each server, and the server group it is in
  pc,              \* where the CLI process is
  fiber, group,    \* of each ensureServer: where it is, the server group it uses
  todo,            \* what the current loop of deleteByTag has left
  wants,           \* what the operator wants: "cluster" or "nothing"
  turns, faults

net   == <<network, subnets, secGroup, rules>>
nova  == <<groups, server, member>>
run   == <<pc, fiber, group, todo>>
bound == <<wants, turns, faults>>
vars  == <<network, subnets, secGroup, rules, lb, groups, server, member, pc,
           fiber, group, todo, wants, turns, faults>>

Peers(n) == IF n \in Masters THEN Masters ELSE Workers
GroupsFor(n) == groups \intersect Peers(n)

Init ==
  /\ network = FALSE /\ subnets = {}
  /\ secGroup = FALSE /\ rules = {}
  /\ lb = "none"
  /\ groups = {}
  /\ server = [n \in Servers |-> "none"]
  /\ member = [n \in Servers |-> "none"]
  /\ pc = "idle"
  /\ fiber = [n \in Servers |-> "off"]
  /\ group = [n \in Servers |-> "none"]
  /\ todo = {}
  /\ wants = "cluster"
  /\ turns = 0
  /\ faults = 0

Goto(step) == pc' = step /\ UNCHANGED <<fiber, group, todo>>

\* The process ends, well or badly.
Exit ==
  /\ pc' = "idle"
  /\ fiber' = [n \in Servers |-> "off"]
  /\ group' = [n \in Servers |-> "none"]
  /\ todo' = {}

-----------------------------------------------------------------------------
(* apply: reconcile.ts _provisionInfra                                     *)

StartApply ==
  /\ pc = "idle"
  /\ wants = "cluster"
  /\ Goto("network")
  /\ UNCHANGED <<net, lb, nova, bound>>

\* Mutant of EnsureNetwork: a network that exists counts as complete.
EnsureNetworkTrusting ==
  /\ pc = "network"
  /\ network' = TRUE
  /\ Goto(IF network THEN "secgroup" ELSE "subnets")
  /\ UNCHANGED <<subnets, secGroup, rules, lb, nova, bound>>

\* A network without subnets is completed; any other is taken as it is.
EnsureNetwork ==
  /\ pc = "network"
  /\ network' = TRUE
  /\ Goto(IF subnets = {} THEN "subnets" ELSE "secgroup")
  /\ UNCHANGED <<subnets, secGroup, rules, lb, nova, bound>>

CreateSubnet(c) ==
  /\ pc = "subnets"
  /\ c \notin subnets
  /\ subnets' = subnets \union {c}
  /\ Goto(IF subnets' = Cidrs THEN "secgroup" ELSE "subnets")
  /\ UNCHANGED <<network, secGroup, rules, lb, nova, bound>>

EnsureSecurityGroup ==
  /\ pc = "secgroup"
  /\ secGroup' = TRUE
  /\ Goto("rules")
  /\ UNCHANGED <<network, subnets, rules, lb, nova, bound>>

\* Every run posts every rule; a rule that exists is a conflict, and ignored.
ApplyRule(r) ==
  /\ pc = "rules"
  /\ r \notin rules
  /\ rules' = rules \union {r}
  /\ UNCHANGED <<network, subnets, secGroup, lb, nova, run, bound>>

RulesApplied ==
  /\ pc = "rules"
  /\ rules = Rules
  /\ Goto("lb")
  /\ UNCHANGED <<net, lb, nova, bound>>

\* Whatever its status, a balancer that exists is taken as it is.
LoadBalancerExists == lb' = IF lb = "none" THEN "pending" ELSE lb

Start(names) == fiber' = [n \in Servers |-> IF n \in names THEN "find" ELSE "off"]

EnsureLoadBalancer ==
  /\ pc = "lb"
  /\ LoadBalancerExists
  /\ pc' = "masters"
  /\ Start(Masters)
  /\ UNCHANGED <<net, nova, group, todo, bound>>

MastersUp ==
  /\ pc = "masters"
  /\ \A n \in Masters : fiber[n] = "done"
  /\ pc' = "workers"
  /\ Start(Workers)
  /\ UNCHANGED <<net, lb, nova, group, todo, bound>>

\* _provisionInfra returns.
Provision ==
  /\ pc = "workers"
  /\ \A n \in Workers : fiber[n] = "done"
  /\ Exit
  /\ UNCHANGED <<net, lb, nova, bound>>

-----------------------------------------------------------------------------
(* ensureServer: one fiber for each server, all masters at once, then the  *)
(* workers.                                                                *)

Step(n, from, to) ==
  /\ pc \in {"masters", "workers"}
  /\ fiber[n] = from
  /\ fiber' = [fiber EXCEPT ![n] = to]
  /\ UNCHANGED <<net, lb, pc, todo, bound>>

FindNone(n) ==
  /\ server[n] = "none"
  /\ Step(n, "find", "group")
  /\ UNCHANGED <<nova, group>>

\* _adoptExisting: Nova reports a server that goes away as ACTIVE still.
FindActive(n) ==
  /\ server[n] \in {"active", "deleting"}
  /\ Step(n, "find", "done")
  /\ UNCHANGED <<nova, group>>

FindUnready(n) ==
  /\ server[n] \in {"build", "deleting"}
  /\ Step(n, "find", "adopt")
  /\ UNCHANGED <<nova, group>>

\* Mutant of FindBroken: it waits for the broken server.
FindBrokenAdopts(n) ==
  /\ server[n] = "error"
  /\ Step(n, "find", "adopt")
  /\ UNCHANGED <<nova, group>>

FindBroken(n) ==
  /\ server[n] = "error"
  /\ Step(n, "find", "reap")
  /\ server' = [server EXCEPT ![n] = "deleting"]
  /\ UNCHANGED <<groups, member, group>>

Reaped(n) ==
  /\ server[n] = "none"
  /\ Step(n, "reap", "group")
  /\ UNCHANGED <<nova, group>>

\* _waitActive has seen the server ACTIVE.
Up(n) ==
  /\ server[n] = "active"
  /\ \/ Step(n, "adopt", "done")
     \/ Step(n, "boot", "done")
  /\ UNCHANGED <<nova, group>>

\* ensureServerGroups: the list, ...
FindGroup(n) ==
  /\ \E g \in GroupsFor(n) : group' = [group EXCEPT ![n] = g]
  /\ Step(n, "group", "post")
  /\ UNCHANGED nova

FindNoGroup(n) ==
  /\ GroupsFor(n) = {}
  /\ Step(n, "group", "makegroup")
  /\ UNCHANGED <<nova, group>>

\* ... then the POST.
CreateGroup(n) ==
  /\ Step(n, "makegroup", "post")
  /\ groups' = groups \union {n}
  /\ group' = [group EXCEPT ![n] = n]
  /\ UNCHANGED <<server, member>>

CreateServer(n) ==
  /\ Step(n, "post", "boot")
  /\ server' = [server EXCEPT ![n] = "build"]
  /\ member' = [member EXCEPT ![n] = group[n]]
  /\ UNCHANGED <<groups, group>>

\* Effect.onError: the servers this run is still waiting for are deleted.
Unwind ==
  /\ pc \in {"masters", "workers"}
  /\ pc' = "unwind"
  /\ fiber' = [n \in Servers |-> IF fiber[n] = "boot" THEN "boot" ELSE "off"]
  /\ server' = [n \in Servers |-> IF fiber[n] = "boot" /\ server[n] # "none"
                                  THEN "deleting" ELSE server[n]]
  /\ UNCHANGED <<net, lb, groups, member, group, todo>>

\* A boot ends in ERROR, or an adopted server breaks or vanishes: apply fails.
EnsureServerFails(n) ==
  /\ \/ fiber[n] = "boot" /\ server[n] = "error"
     \/ fiber[n] = "adopt" /\ server[n] \in {"error", "none"}
  /\ Unwind
  /\ UNCHANGED bound

Unwound ==
  /\ pc = "unwind"
  /\ \A n \in Servers : fiber[n] = "boot" => server[n] = "none"
  /\ Exit
  /\ UNCHANGED <<net, lb, nova, bound>>

-----------------------------------------------------------------------------
(* delete: cloud-provider.ts deleteByTag                                   *)

StartDelete ==
  /\ pc = "idle"
  /\ wants = "nothing"
  /\ Goto("delete-lb")
  /\ UNCHANGED <<net, lb, nova, bound>>

\* Octavia refuses to delete a balancer that it is still making or unmaking.
DeleteLoadBalancer ==
  /\ pc = "delete-lb"
  /\ \/ lb = "none" /\ Goto("delete-servers") /\ UNCHANGED lb
     \/ lb \in {"active", "error"} /\ lb' = "deleting" /\ Goto("wait-lb")
     \/ lb \in {"pending", "deleting"} /\ Exit /\ UNCHANGED lb
  /\ UNCHANGED <<net, nova, bound>>

LoadBalancerGone ==
  /\ pc = "wait-lb"
  /\ lb = "none"
  /\ Goto("delete-servers")
  /\ UNCHANGED <<net, lb, nova, bound>>

\* _deleteServers: the servers with the cluster's tag, without waiting.
ListServers ==
  /\ pc = "delete-servers"
  /\ todo' = {n \in Servers : server[n] # "none"}
  /\ pc' = "deleting-servers"
  /\ UNCHANGED <<net, lb, nova, fiber, group, bound>>

DeleteServer(n) ==
  /\ pc = "deleting-servers"
  /\ n \in todo
  /\ todo' = todo \ {n}
  /\ server' = [server EXCEPT ![n] = IF @ = "none" THEN "none" ELSE "deleting"]
  /\ UNCHANGED <<net, lb, groups, member, pc, fiber, group, bound>>

\* _deleteServerGroups lists the groups.
ListGroups ==
  /\ pc = "deleting-servers"
  /\ todo = {}
  /\ pc' = "deleting-groups"
  /\ todo' = {Masters, Workers}
  /\ UNCHANGED <<net, lb, nova, fiber, group, bound>>

\* Of the groups with the name of a role, the first is deleted.
DeleteGroup(peers) ==
  /\ pc = "deleting-groups"
  /\ peers \in todo
  /\ todo' = todo \ {peers}
  /\ IF groups \intersect peers = {} THEN UNCHANGED groups
     ELSE \E g \in groups \intersect peers : groups' = groups \ {g}
  /\ UNCHANGED <<net, lb, server, member, pc, fiber, group, bound>>

DeleteSecurityGroup ==
  /\ pc = "deleting-groups"
  /\ todo = {}
  /\ secGroup' = FALSE
  /\ rules' = {}
  /\ Goto("delete-network")
  /\ UNCHANGED <<network, subnets, lb, nova, bound>>

\* What may have a port on the network: the balancer, and the servers if Nova,
\* which chooses their network ("auto"), chose this one.
HasPorts == lb # "none" \/ \E n \in Servers : server[n] # "none"

\* Mutant of DeleteNetwork: the conflict is ignored, like the others.
DeleteNetworkIgnoring ==
  /\ pc = "delete-network"
  /\ IF network /\ HasPorts THEN UNCHANGED <<network, subnets>>
     ELSE network' = FALSE /\ subnets' = {}
  /\ Exit
  /\ UNCHANGED <<secGroup, rules, lb, nova, bound>>

\* deleteByTag returns.
DeleteNetwork ==
  /\ pc = "delete-network"
  /\ ~(network /\ lb # "none")
  /\ network' = FALSE
  /\ subnets' = {}
  /\ Exit
  /\ UNCHANGED <<secGroup, rules, lb, nova, bound>>

NetworkInUse ==
  /\ pc = "delete-network"
  /\ network /\ HasPorts
  /\ Exit
  /\ UNCHANGED <<net, lb, nova, bound>>

-----------------------------------------------------------------------------
(* status and kubeconfig: k3sStatusEffect and kubeconfigK3sEffect make sure *)
(* that the balancer exists, once some master does.                        *)
ReadCommand ==
  /\ pc = "idle"
  /\ \E m \in Masters : server[m] # "none"
  /\ LoadBalancerExists
  /\ UNCHANGED <<net, nova, run, bound>>

(* The operator, and what may stop a run: an API error, a timeout, a signal. *)
Turn ==
  /\ pc = "idle"
  /\ turns < MaxTurns
  /\ turns' = turns + 1
  /\ wants' = IF wants = "cluster" THEN "nothing" ELSE "cluster"
  /\ UNCHANGED <<net, lb, nova, run, faults>>

Fault ==
  /\ faults < MaxFaults
  /\ faults' = faults + 1
  /\ UNCHANGED <<wants, turns>>

Interrupted ==
  /\ Fault
  /\ Unwind

Killed ==
  /\ pc # "idle"
  /\ Fault
  /\ Exit
  /\ UNCHANGED <<net, lb, nova>>

(* OpenStack *)
ServerBecomes(n, from, to) ==
  /\ server[n] = from
  /\ server' = [server EXCEPT ![n] = to]
  /\ UNCHANGED <<net, lb, groups, member, run>>

BalancerBecomes(from, to) ==
  /\ lb = from
  /\ lb' = to
  /\ UNCHANGED <<net, nova, run>>

Boot(n) == ServerBecomes(n, "build", "active") /\ UNCHANGED bound
Vanish(n) == ServerBecomes(n, "deleting", "none") /\ UNCHANGED bound
Break(n) == ServerBecomes(n, "build", "error") /\ Fault

BalancerUp == BalancerBecomes("pending", "active") /\ UNCHANGED bound
BalancerVanishes == BalancerBecomes("deleting", "none") /\ UNCHANGED bound
BalancerBreaks == BalancerBecomes("pending", "error") /\ Fault

-----------------------------------------------------------------------------
Progress ==
  \/ EnsureNetwork \/ EnsureSecurityGroup \/ RulesApplied \/ EnsureLoadBalancer
  \/ MastersUp \/ Provision \/ Unwound
  \/ \E c \in Cidrs : CreateSubnet(c)
  \/ \E r \in Rules : ApplyRule(r)
  \/ DeleteLoadBalancer \/ LoadBalancerGone \/ ListServers \/ ListGroups
  \/ DeleteSecurityGroup \/ DeleteNetwork \/ NetworkInUse
  \/ \E n \in Servers : DeleteServer(n)
  \/ \E peers \in {Masters, Workers} : DeleteGroup(peers)

Ensure(n) ==
  \/ FindNone(n) \/ FindActive(n) \/ FindUnready(n) \/ FindBroken(n)
  \/ Reaped(n) \/ Up(n) \/ FindGroup(n) \/ FindNoGroup(n) \/ CreateGroup(n)
  \/ CreateServer(n) \/ EnsureServerFails(n)

Settle ==
  \/ BalancerUp \/ BalancerVanishes
  \/ \E n \in Servers : Boot(n) \/ Vanish(n)

Next ==
  \/ StartApply \/ StartDelete \/ Progress \/ Settle
  \/ \E n \in Servers : Ensure(n) \/ Break(n)
  \/ BalancerBreaks \/ ReadCommand \/ Turn \/ Interrupted \/ Killed

Spec == Init /\ [][Next]_vars

-----------------------------------------------------------------------------
TypeOK ==
  /\ network \in BOOLEAN /\ subnets \subseteq Cidrs
  /\ secGroup \in BOOLEAN /\ rules \subseteq Rules
  /\ lb \in {"none", "pending", "active", "error", "deleting"}
  /\ groups \subseteq Servers
  /\ server \in [Servers -> {"none", "build", "active", "error", "deleting"}]
  /\ member \in [Servers -> Servers \union {"none"}]
  /\ pc \in {"idle", "network", "subnets", "secgroup", "rules", "lb", "masters",
             "workers", "unwind", "delete-lb", "wait-lb", "delete-servers",
             "deleting-servers", "deleting-groups", "delete-network"}
  /\ fiber \in [Servers -> {"off", "find", "adopt", "reap", "group", "makegroup",
                            "post", "boot", "done"}]
  /\ group \in [Servers -> Servers \union {"none"}]
  /\ todo \subseteq Servers \union {Masters, Workers}
  /\ wants \in {"cluster", "nothing"}
  /\ turns \in 0..MaxTurns
  /\ faults \in 0..MaxFaults

NetworkComplete == network /\ subnets = Cidrs /\ secGroup /\ rules = Rules

\* A run of apply that provisions the servers leaves a complete network and
\* complete firewall rules, whatever earlier runs left half done
\* (cloud-provider.ts ensureNetwork, ensureSecurityGroups).
ProvisionedIsComplete ==
  [][Provision => NetworkComplete /\ \A n \in Servers : server[n] # "build"]_vars

\* When delete reports success, nothing is left of the network, the firewall
\* and the balancer, and no server but those that are going away
\* (cloud-provider.ts:837, "swallowing this leaves a half-torn network behind
\* and reports success").  Server groups may be left: see MastersShareAGroup.
DeletedLeavesNothing ==
  [][DeleteNetwork => /\ ~network' /\ subnets' = {} /\ ~secGroup' /\ rules' = {}
                      /\ lb' = "none"
                      /\ \A n \in Servers : server'[n] \in {"none", "deleting"}]_vars

\* What the operator wants is there; a balancer that failed is not repaired.
AsWanted ==
  IF wants = "cluster"
  THEN /\ NetworkComplete
       /\ lb \in {"active", "error"}
       /\ \A n \in Servers : server[n] = "active"
  ELSE /\ ~network /\ ~secGroup /\ lb = "none"
       /\ \A n \in Servers : server[n] = "none"

\* requirements.md:16 (D8), "v1 includes Nova server groups
\* (`soft-anti-affinity`) per masters-set": the masters are in one group.
MastersShareAGroup ==
  \A m, n \in Masters :
    server[m] # "none" /\ server[n] # "none" => member[m] = member[n]
=============================================================================
