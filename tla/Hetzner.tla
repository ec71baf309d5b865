------------------------------ MODULE Hetzner ------------------------------
(***************************************************************************)
(* A k3s cluster on either cloud: OpenStackInfra, or the same resources in  *)
(* Hetzner Cloud, where the network and the firewall come with one request  *)
(* each, a balancer is there at once, names are unique in a project, a      *)
(* failed run cleans nothing up, and a deletion is waited for server by     *)
(* server.  With it goes the volume of the config, made last and deleted    *)
(* first.  Sources: hetzner/client/src/provider, hetzner/client/src/volume  *)
(* and cli/src/k3s/reconcile.ts.                                            *)
(***************************************************************************)
EXTENDS OpenStackInfra

CONSTANTS
  Asks,       \* the configs: the size asked for, whether delete spares the volume
  MinSize     \* the least size of a volume: smaller ones are rounded up

ASSUME HetznerAssumption ==
  /\ Asks \subseteq [size : Nat \ {0}, retain : BOOLEAN] /\ Asks # {}
  /\ MinSize \in Nat \ {0}

VARIABLES
  provider,         \* the cloud: never changes
  volume, attached, \* the size of the volume, 0 for none; whether a pod uses it
  asked             \* the config

storage == <<volume, attached, asked>>
cloudVars == <<network, subnets, secGroup, rules, lb, groups, server, member, pc, fiber,
               group, todo, wants, turns, faults, provider, volume, attached, asked>>

Rounded == IF asked.size < MinSize THEN MinSize ELSE asked.size

CloudInit ==
  /\ Init
  /\ provider \in {"openstack", "hetzner"}
  /\ volume = 0
  /\ attached = FALSE
  /\ asked \in Asks
  /\ provider = "openstack" => asked = CHOOSE a \in Asks : TRUE

-----------------------------------------------------------------------------
(* apply                                                                   *)

\* A network that exists is taken as it is; one POST makes it with its subnet.
PostNetwork ==
  /\ pc = "network"
  /\ network' = TRUE
  /\ subnets' = IF network THEN subnets ELSE Cidrs
  /\ Goto("secgroup")
  /\ UNCHANGED <<secGroup, rules, lb, nova, bound, storage>>

\* Mutant of EnsureFirewall: it comes without rules, and set_rules is skipped.
EnsureFirewallBare ==
  /\ pc = "secgroup"
  /\ secGroup' = TRUE
  /\ Goto("lb")
  /\ UNCHANGED <<network, subnets, rules, lb, nova, bound, storage>>

\* _ensureFirewallId: a new firewall comes with its rules.
EnsureFirewall ==
  /\ pc = "secgroup"
  /\ secGroup' = TRUE
  /\ rules' = IF secGroup THEN rules ELSE Rules
  /\ Goto("rules")
  /\ UNCHANGED <<network, subnets, lb, nova, bound, storage>>

\* ensureSecurityGroups: the rules of the firewall are set all at once.
SetFirewallRules ==
  /\ pc = "rules"
  /\ rules' = Rules
  /\ Goto("lb")
  /\ UNCHANGED <<network, subnets, secGroup, lb, nova, bound, storage>>

PostLoadBalancer ==
  /\ pc = "lb"
  /\ lb' = "active"
  /\ pc' = "masters"
  /\ Start(Masters)
  /\ UNCHANGED <<net, nova, group, todo, bound, storage>>

\* A server that exists, whatever its status, is waited for.
FindServer(n) ==
  /\ server[n] # "none"
  /\ Step(n, "find", "adopt")
  /\ UNCHANGED <<nova, group, bound, storage>>

\* _waitServerRunning: only a running server ends the wait.
Runs(n) ==
  /\ server[n] = "active"
  /\ Step(n, "adopt", "done")
  /\ UNCHANGED <<nova, group, bound, storage>>

\* ensurePlacementGroup, the POST: names are unique in a project, ...
PostGroup(n) ==
  /\ GroupsFor(n) = {}
  /\ Step(n, "makegroup", "post")
  /\ groups' = {n} \union groups
  /\ group' = [group EXCEPT ![n] = n]
  /\ UNCHANGED <<server, member, bound, storage>>

\* ... so the POST of the fiber that comes second is a conflict: apply fails.
GroupTaken(n) ==
  /\ fiber[n] = "makegroup"
  /\ GroupsFor(n) # {}
  /\ Exit
  /\ UNCHANGED <<net, lb, nova, bound, storage>>

PostServer(n) ==
  /\ CreateServer(n)
  /\ UNCHANGED <<bound, storage>>

\* waitForAction: the server is made, though it may still be starting.
ActionDone(n) ==
  /\ server[n] \in {"starting", "active"}
  /\ Step(n, "boot", "done")
  /\ UNCHANGED <<nova, group, bound, storage>>

\* The action failed, or the wait for a server that stands still or is gone
\* ends: apply fails, and nothing is cleaned up.
ServerFails(n) ==
  /\ \/ fiber[n] = "boot" /\ server[n] \in {"off", "none"}
     \/ fiber[n] = "adopt" /\ server[n] \in {"off", "none"}
  /\ Exit
  /\ UNCHANGED <<net, lb, nova, bound, storage>>

\* _provisionInfra returns; bootstrap, addons and records are other modules'.
ServersUp ==
  /\ pc = "workers"
  /\ \A n \in Workers : fiber[n] = "done"
  /\ Goto("volume")
  /\ UNCHANGED <<net, lb, nova, bound, storage>>

\* Mutant of EnsureVolume: the minimum is forgotten.
EnsureVolumeUnrounded ==
  /\ pc = "volume"
  /\ volume' = IF volume < asked.size THEN asked.size ELSE volume
  /\ Exit
  /\ UNCHANGED <<net, lb, nova, bound, attached, asked>>

\* ensureVolume: made or enlarged; one that would have to shrink fails apply.
EnsureVolume ==
  /\ pc = "volume"
  /\ volume' = IF volume < Rounded THEN Rounded ELSE volume
  /\ Exit
  /\ UNCHANGED <<net, lb, nova, bound, attached, asked>>

-----------------------------------------------------------------------------
(* delete: reconcile.ts deleteK3sWithCdn, then deleteByTag                 *)

StartTeardown ==
  /\ pc = "idle"
  /\ wants = "nothing"
  /\ Goto("delete-volume")
  /\ UNCHANGED <<net, lb, nova, bound, storage>>

\* A volume in use is not deleted, and delete ends there.
DeleteVolume ==
  /\ pc = "delete-volume"
  /\ IF asked.retain THEN Goto("delete-lb") /\ UNCHANGED volume
     ELSE IF attached THEN Exit /\ UNCHANGED volume
     ELSE volume' = 0 /\ Goto("delete-lb")
  /\ UNCHANGED <<net, lb, nova, bound, attached, asked>>

RemoveLoadBalancer ==
  /\ pc = "delete-lb"
  /\ lb' = "none"
  /\ Goto("delete-servers")
  /\ UNCHANGED <<net, nova, bound, storage>>

\* _deleteServersByTag: the servers with the cluster's label, one by one.
ListLabeled == ListServers /\ UNCHANGED storage

Reaping == \E n \in Servers : fiber[n] = "reap"

\* Mutant of RemoveServer: the next request does not wait for the action.
RemoveServerBlindly(n) ==
  /\ pc = "deleting-servers"
  /\ n \in todo
  /\ todo' = todo \ {n}
  /\ server' = [server EXCEPT ![n] = IF @ = "none" THEN "none" ELSE "deleting"]
  /\ UNCHANGED <<net, lb, groups, member, pc, fiber, group, bound, storage>>

\* deleteServer: a server that is gone is no error.
RemoveServer(n) ==
  /\ pc = "deleting-servers"
  /\ n \in todo /\ ~Reaping
  /\ IF server[n] = "none"
     THEN todo' = todo \ {n} /\ UNCHANGED <<server, fiber>>
     ELSE /\ server' = [server EXCEPT ![n] = "deleting"]
          /\ fiber' = [fiber EXCEPT ![n] = "reap"]
          /\ UNCHANGED todo
  /\ UNCHANGED <<net, lb, groups, member, pc, group, bound, storage>>

\* A server that is being made is locked: its DELETE is refused.
RemovalRefused(n) ==
  /\ pc = "deleting-servers"
  /\ n \in todo /\ ~Reaping
  /\ server[n] = "build"
  /\ Exit
  /\ UNCHANGED <<net, lb, nova, bound, storage>>

ServerRemoved(n) ==
  /\ fiber[n] = "reap" /\ server[n] = "none"
  /\ fiber' = [fiber EXCEPT ![n] = "off"]
  /\ todo' = todo \ {n}
  /\ UNCHANGED <<net, lb, nova, pc, group, bound, storage>>

-----------------------------------------------------------------------------
\* status and kubeconfig.
ReadCluster ==
  /\ pc = "idle"
  /\ \E m \in Masters : server[m] # "none"
  /\ lb' = "active"
  /\ UNCHANGED <<net, nova, run, bound, storage>>

EditAsk ==
  /\ pc = "idle"
  /\ turns < MaxTurns
  /\ turns' = turns + 1
  /\ asked' \in Asks \ {asked}
  /\ UNCHANGED <<net, lb, nova, run, wants, faults, volume, attached>>

(* Hetzner Cloud, and the pods of the cluster *)
ServerStarts(n) == ServerBecomes(n, "build", "starting") /\ UNCHANGED <<bound, storage>>
ServerRuns(n)   == ServerBecomes(n, "starting", "active") /\ UNCHANGED <<bound, storage>>
ServerGone(n)   == Vanish(n) /\ UNCHANGED storage

\* A creation that fails leaves a server that stands still, or none; a running
\* server is powered off.
ServerStops(n) ==
  /\ \/ ServerBecomes(n, "build", "off")
     \/ ServerBecomes(n, "build", "none")
     \/ ServerBecomes(n, "active", "off")
  /\ Fault
  /\ UNCHANGED storage

\* A pod claims the volume, and keeps it while there are servers to run it.
Attach ==
  /\ pc = "idle"
  /\ volume # 0 /\ ~attached
  /\ \E n \in Servers : server[n] = "active"
  /\ attached' = TRUE
  /\ UNCHANGED <<net, lb, nova, run, bound, volume, asked>>

\* With the servers, the attachment goes.
Detach ==
  /\ attached
  /\ \A n \in Servers : server[n] = "none"
  /\ attached' = FALSE
  /\ UNCHANGED <<net, lb, nova, run, bound, volume, asked>>

-----------------------------------------------------------------------------
HetznerEnsure(n) ==
  \/ FindServer(n) \/ Runs(n) \/ PostGroup(n) \/ GroupTaken(n) \/ PostServer(n)
  \/ ActionDone(n) \/ ServerFails(n)
  \/ (FindNone(n) \/ FindGroup(n) \/ FindNoGroup(n)) /\ UNCHANGED <<bound, storage>>

HetznerRun ==
  \/ PostNetwork \/ EnsureFirewall \/ SetFirewallRules \/ PostLoadBalancer
  \/ ServersUp \/ EnsureVolume \/ DeleteVolume \/ RemoveLoadBalancer \/ ListLabeled
  \/ \E n \in Servers : RemoveServer(n) \/ RemovalRefused(n) \/ ServerRemoved(n)
  \/ /\ \/ MastersUp \/ DeleteSecurityGroup \/ DeleteNetwork
        \/ ListGroups
        \/ \E peers \in {Masters, Workers} : DeleteGroup(peers)
     /\ UNCHANGED storage

HetznerSettle(n) == ServerStarts(n) \/ ServerRuns(n) \/ ServerGone(n)

HetznerStep ==
  \/ HetznerRun \/ StartTeardown \/ ReadCluster \/ EditAsk \/ Attach \/ Detach
  \/ \E n \in Servers : HetznerEnsure(n) \/ HetznerSettle(n) \/ ServerStops(n)
  \/ (StartApply \/ Turn \/ Killed) /\ UNCHANGED storage

On(cloud, Step_) == provider = cloud /\ Step_ /\ UNCHANGED provider

CloudNext ==
  \/ On("openstack", Next /\ UNCHANGED storage)
  \/ On("hetzner", HetznerStep)

CloudSpec == CloudInit /\ [][CloudNext]_cloudVars

CloudProgress ==
  \/ On("openstack", Progress /\ UNCHANGED storage)
  \/ On("hetzner", HetznerRun)

CloudEnsure(n) ==
  \/ On("openstack", Ensure(n) /\ UNCHANGED <<bound, storage>>)
  \/ On("hetzner", HetznerEnsure(n))

CloudSettle(n) ==
  \/ On("openstack", (Boot(n) \/ Vanish(n)) /\ UNCHANGED storage)
  \/ On("hetzner", HetznerSettle(n))

BalancerSettles == On("openstack", (BalancerUp \/ BalancerVanishes) /\ UNCHANGED storage)

\* The process runs on, the cloud completes what it accepted, and
\* the operator re-runs the command for what is wanted.
CloudFairSpec ==
  /\ CloudSpec
  /\ WF_cloudVars(CloudProgress)
  /\ \A n \in Servers : WF_cloudVars(CloudEnsure(n)) /\ WF_cloudVars(CloudSettle(n))
  /\ WF_cloudVars(BalancerSettles)
  /\ WF_cloudVars(On("hetzner", Detach))
  /\ SF_cloudVars(StartApply /\ UNCHANGED <<provider, storage>>)
  /\ SF_cloudVars(On("openstack", StartDelete /\ UNCHANGED storage))
  /\ SF_cloudVars(On("hetzner", StartTeardown))

-----------------------------------------------------------------------------
CloudTypeOK ==
  /\ network \in BOOLEAN /\ subnets \subseteq Cidrs
  /\ secGroup \in BOOLEAN /\ rules \subseteq Rules
  /\ groups \subseteq Servers
  /\ provider \in {"openstack", "hetzner"}
  /\ IF provider = "openstack" THEN TypeOK /\ volume = 0
     ELSE /\ lb \in {"none", "active"}
          /\ server \in [Servers -> {"none", "build", "starting", "active", "off", "deleting"}]
          /\ \A peers \in {Masters, Workers} :
               \A g, h \in groups \intersect peers : g = h
          /\ volume # 0 => volume >= MinSize /\ volume \in {MinSize} \union {a.size : a \in Asks}
          /\ attached => volume # 0

\* Hetzner: when delete reports success, no server and no placement group is
\* left, not even on its way out (cloud-provider.ts:278, the action is waited
\* for), nor a volume that is not retained; and no run ever shrinks a volume, or
\* deletes one that is retained (volume/provider.ts:50, "enlarge-only").
DeleteIsExact ==
  [][/\ provider = "hetzner" /\ DeleteNetwork =>
          /\ groups' = {} /\ \A n \in Servers : server'[n] = "none"
          /\ volume' = 0 \/ asked.retain
     /\ volume' < volume => wants = "nothing" /\ ~asked.retain]_cloudVars

\* Dead ends of a re-run on Hetzner: apply waits for a server that stands still;
\* delete begins with a volume that a pod of the cluster still uses; the config
\* asks for less than the volume has.
Stranded == provider = "hetzner" /\ wants = "cluster" /\ \E n \in Servers : server[n] = "off"
Held     == wants = "nothing" /\ attached
Shrunk   == volume > Rounded

\* Re-running apply, or delete, leads to what is wanted on either cloud, volume
\* included, from whatever earlier runs of both left (README.md:129,
\* "Re-running converges"), unless it gets into one of the dead ends.
EventuallyAsAsked ==
  <>[](\/ Stranded \/ Held
       \/ /\ AsWanted
          /\ provider = "hetzner" =>
               IF wants = "cluster" THEN Shrunk \/ volume = Rounded
               ELSE asked.retain \/ volume = 0)
=============================================================================
