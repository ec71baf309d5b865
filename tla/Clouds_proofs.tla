---------------------------- MODULE Clouds_proofs ----------------------------
(***************************************************************************)
(* What holds of a k3s cluster on either cloud, for any number of servers   *)
(* and rules, any volumes asked for, and any turns and faults.  InfraInv    *)
(* and HetznerInv say what each phase of apply and of delete may take for   *)
(* granted on its cloud, although no phase re-reads what an earlier one did.*)
(***************************************************************************)
EXTENDS Hetzner, TLAPS

-----------------------------------------------------------------------------
(* OpenStack *)

Ready == {"active", "deleting", "none"}
Leaving == {"deleting", "none"}

\* With one subnet to make, a network is either bare or complete.
OneSubnet == \A c, d \in Cidrs : c = d

\* What apply has made before each of its phases.
MadeInOrder ==
  /\ pc = "subnets" => network
  /\ pc \in {"secgroup", "rules", "lb", "masters", "workers"} =>
       network /\ (OneSubnet => subnets = Cidrs)
  /\ pc \in {"rules", "lb", "masters", "workers"} => secGroup
  /\ pc \in {"lb", "masters", "workers"} => rules = Rules

\* A server whose fiber is done no longer boots; the masters come first.
DoneIsUp ==
  /\ \A n \in Servers : fiber[n] = "done" => server[n] \in Ready
  /\ pc = "workers" => \A n \in Masters : server[n] \in Ready /\ fiber[n] = "off"

\* What delete has removed before each of its phases.
RemovedInOrder ==
  /\ pc \in {"delete-servers", "deleting-servers", "deleting-groups", "delete-network"}
       => lb = "none"
  /\ pc = "deleting-servers" => \A n \in Servers \ todo : server[n] \in Leaving
  /\ pc \in {"deleting-groups", "delete-network"} => \A n \in Servers : server[n] \in Leaving
  /\ pc = "delete-network" => ~secGroup /\ rules = {}

\* No fiber makes a server while delete runs.
FibersOff == pc \notin {"masters", "workers", "unwind"} => \A n \in Servers : fiber[n] = "off"

InfraInv == MadeInOrder /\ DoneIsUp /\ RemovedInOrder /\ FibersOff

-----------------------------------------------------------------------------
LEMMA InitInfra == Init => TypeOK /\ InfraInv
<1> SUFFICES ASSUME Init PROVE TypeOK /\ InfraInv
  OBVIOUS
<1>0. turns \in 0..MaxTurns /\ faults \in 0..MaxFaults
  BY InfraAssumption DEF Init
<1>1. TypeOK
  BY <1>0 DEF Init, TypeOK
<1>2. InfraInv
  BY DEF Init, InfraInv, MadeInOrder, DoneIsUp, RemovedInOrder, FibersOff
<1> QED
  BY <1>1, <1>2

\* The steps of ensureServer.
LEMMA EnsureInfra ==
  ASSUME TypeOK, InfraInv, NEW n \in Servers, Ensure(n)
  PROVE  TypeOK' /\ InfraInv'
<1> USE InfraAssumption
<1>1. CASE FindNone(n)
  BY <1>1 DEF FindNone, Step, Servers, net, bound, nova, TypeOK, InfraInv,
     MadeInOrder, DoneIsUp, RemovedInOrder, FibersOff
<1>2. CASE FindActive(n)
  BY <1>2 DEF FindActive, Step, Servers, net, bound, Ready, nova, TypeOK,
     InfraInv, MadeInOrder, DoneIsUp, RemovedInOrder, FibersOff
<1>3. CASE FindUnready(n)
  BY <1>3 DEF FindUnready, Step, Servers, net, bound, nova, TypeOK, InfraInv,
     MadeInOrder, DoneIsUp, RemovedInOrder, FibersOff
<1>4. CASE FindBroken(n)
  BY <1>4 DEF FindBroken, Step, Servers, net, bound, Ready, TypeOK, InfraInv,
     MadeInOrder, DoneIsUp, RemovedInOrder, FibersOff
<1>5. CASE Reaped(n)
  BY <1>5 DEF Reaped, Step, Servers, net, bound, nova, TypeOK, InfraInv,
     MadeInOrder, DoneIsUp, RemovedInOrder, FibersOff
<1>6. CASE Up(n)
  BY <1>6 DEF Up, Step, Servers, net, bound, Ready, nova, TypeOK, InfraInv,
     MadeInOrder, DoneIsUp, RemovedInOrder, FibersOff
<1>7. CASE FindGroup(n)
  BY <1>7 DEF FindGroup, Step, GroupsFor, Peers, Servers, net, bound, nova,
     TypeOK, InfraInv, MadeInOrder, DoneIsUp, RemovedInOrder, FibersOff
<1>8. CASE FindNoGroup(n)
  BY <1>8 DEF FindNoGroup, Step, GroupsFor, Servers, net, bound, nova,
     TypeOK, InfraInv, MadeInOrder, DoneIsUp, RemovedInOrder, FibersOff
<1>9. CASE CreateGroup(n)
  BY <1>9 DEF CreateGroup, Step, Servers, net, bound, TypeOK, InfraInv,
     MadeInOrder, DoneIsUp, RemovedInOrder, FibersOff
<1>10. CASE CreateServer(n)
  BY <1>10 DEF CreateServer, Step, Servers, net, bound, TypeOK, InfraInv,
     MadeInOrder, DoneIsUp, RemovedInOrder, FibersOff
<1>11. CASE EnsureServerFails(n)
  BY <1>11 DEF EnsureServerFails, net, bound, Unwind, Ready, TypeOK,
     InfraInv, MadeInOrder, DoneIsUp, RemovedInOrder, FibersOff
<1> QED
  BY <1>1, <1>2, <1>3, <1>4, <1>5, <1>6, <1>7, <1>8, <1>9, <1>10, <1>11 DEF
     Ensure

LEMMA NextInfra == TypeOK /\ InfraInv /\ [Next]_vars => TypeOK' /\ InfraInv'
<1> SUFFICES ASSUME TypeOK, InfraInv, [Next]_vars PROVE TypeOK' /\ InfraInv'
  OBVIOUS
<1> USE InfraAssumption
<1>1. CASE StartApply
  BY <1>1 DEF StartApply, Goto, net, nova, bound, TypeOK, InfraInv,
     MadeInOrder, DoneIsUp, RemovedInOrder, FibersOff
<1>2. CASE EnsureNetwork
  BY <1>2 DEF EnsureNetwork, OneSubnet, Goto, nova, bound, TypeOK, InfraInv,
     MadeInOrder, DoneIsUp, RemovedInOrder, FibersOff
<1>3. CASE EnsureSecurityGroup
  BY <1>3 DEF EnsureSecurityGroup, Goto, nova, bound, TypeOK, InfraInv,
     MadeInOrder, DoneIsUp, RemovedInOrder, FibersOff
<1>4. CASE RulesApplied
  BY <1>4 DEF RulesApplied, Goto, net, nova, bound, TypeOK, InfraInv,
     MadeInOrder, DoneIsUp, RemovedInOrder, FibersOff
<1>5. CASE EnsureLoadBalancer
  BY <1>5 DEF EnsureLoadBalancer, LoadBalancerExists, Start, net, nova,
     bound, TypeOK, InfraInv, MadeInOrder, DoneIsUp, RemovedInOrder,
     FibersOff
<1>6. CASE MastersUp
  BY <1>6 DEF MastersUp, Servers, Start, net, nova, bound, TypeOK, InfraInv,
     MadeInOrder, DoneIsUp, RemovedInOrder, FibersOff
<1>7. CASE Provision
  BY <1>7 DEF Provision, Exit, net, nova, bound, TypeOK, InfraInv,
     MadeInOrder, DoneIsUp, RemovedInOrder, FibersOff
<1>8. CASE Unwound
  BY <1>8 DEF Unwound, Exit, net, nova, bound, TypeOK, InfraInv, MadeInOrder,
     DoneIsUp, RemovedInOrder, FibersOff
<1>9. CASE StartDelete
  BY <1>9 DEF StartDelete, Goto, net, nova, bound, TypeOK, InfraInv,
     MadeInOrder, DoneIsUp, RemovedInOrder, FibersOff
<1>10. CASE DeleteLoadBalancer
  BY <1>10 DEF DeleteLoadBalancer, Goto, Exit, net, nova, bound, TypeOK,
     InfraInv, MadeInOrder, DoneIsUp, RemovedInOrder, FibersOff
<1>11. CASE LoadBalancerGone
  BY <1>11 DEF LoadBalancerGone, Goto, net, nova, bound, TypeOK, InfraInv,
     MadeInOrder, DoneIsUp, RemovedInOrder, FibersOff
<1>12. CASE ListServers
  BY <1>12 DEF ListServers, Leaving, net, nova, bound, TypeOK, InfraInv,
     MadeInOrder, DoneIsUp, RemovedInOrder, FibersOff
<1>13. CASE ListGroups
  BY <1>13 DEF ListGroups, net, nova, bound, TypeOK, InfraInv, MadeInOrder,
     DoneIsUp, RemovedInOrder, FibersOff
<1>14. CASE DeleteSecurityGroup
  BY <1>14 DEF DeleteSecurityGroup, Goto, nova, bound, TypeOK, InfraInv,
     MadeInOrder, DoneIsUp, RemovedInOrder, FibersOff
<1>15. CASE DeleteNetwork
  BY <1>15 DEF DeleteNetwork, Exit, nova, bound, TypeOK, InfraInv,
     MadeInOrder, DoneIsUp, RemovedInOrder, FibersOff
<1>16. CASE NetworkInUse
  BY <1>16 DEF NetworkInUse, Exit, net, nova, bound, TypeOK, InfraInv,
     MadeInOrder, DoneIsUp, RemovedInOrder, FibersOff
<1>17. CASE ReadCommand
  BY <1>17 DEF ReadCommand, LoadBalancerExists, net, nova, run, bound,
     TypeOK, InfraInv, MadeInOrder, DoneIsUp, RemovedInOrder, FibersOff
<1>18. CASE Turn
  BY <1>18 DEF Turn, net, nova, run, TypeOK, InfraInv, MadeInOrder, DoneIsUp,
     RemovedInOrder, FibersOff
<1>19. CASE Interrupted
  BY <1>19 DEF Interrupted, Fault, Unwind, net, TypeOK, InfraInv,
     MadeInOrder, DoneIsUp, RemovedInOrder, FibersOff
<1>20. CASE Killed
  BY <1>20 DEF Killed, Fault, Exit, net, nova, TypeOK, InfraInv, MadeInOrder,
     DoneIsUp, RemovedInOrder, FibersOff
<1>21. CASE BalancerUp
  BY <1>21 DEF BalancerUp, BalancerBecomes, net, nova, run, bound, TypeOK,
     InfraInv, MadeInOrder, DoneIsUp, RemovedInOrder, FibersOff
<1>22. CASE BalancerVanishes
  BY <1>22 DEF BalancerVanishes, BalancerBecomes, net, nova, run, bound,
     TypeOK, InfraInv, MadeInOrder, DoneIsUp, RemovedInOrder, FibersOff
<1>23. CASE BalancerBreaks
  BY <1>23 DEF BalancerBreaks, BalancerBecomes, Fault, net, nova, run,
     TypeOK, InfraInv, MadeInOrder, DoneIsUp, RemovedInOrder, FibersOff
<1>24. ASSUME NEW c \in Cidrs, CreateSubnet(c) PROVE TypeOK' /\ InfraInv'
  BY <1>24 DEF CreateSubnet, Goto, nova, bound, TypeOK, InfraInv,
     MadeInOrder, DoneIsUp, RemovedInOrder, FibersOff
<1>25. ASSUME NEW r \in Rules, ApplyRule(r) PROVE TypeOK' /\ InfraInv'
  BY <1>25 DEF ApplyRule, nova, run, bound, TypeOK, InfraInv, MadeInOrder,
     DoneIsUp, RemovedInOrder, FibersOff
<1>26. ASSUME NEW n \in Servers, DeleteServer(n) PROVE TypeOK' /\ InfraInv'
  BY <1>26 DEF DeleteServer, Leaving, net, bound, TypeOK, InfraInv,
     MadeInOrder, DoneIsUp, RemovedInOrder, FibersOff
<1>27. ASSUME NEW peers \in {Masters, Workers}, DeleteGroup(peers) PROVE TypeOK' /\ InfraInv'
  BY <1>27 DEF DeleteGroup, net, bound, TypeOK, InfraInv, MadeInOrder,
     DoneIsUp, RemovedInOrder, FibersOff
<1>28. ASSUME NEW n \in Servers, Boot(n) PROVE TypeOK' /\ InfraInv'
  BY <1>28 DEF Boot, ServerBecomes, Ready, Leaving, net, run, bound, TypeOK,
     InfraInv, MadeInOrder, DoneIsUp, RemovedInOrder, FibersOff
<1>29. ASSUME NEW n \in Servers, Vanish(n) PROVE TypeOK' /\ InfraInv'
  BY <1>29 DEF Vanish, ServerBecomes, Ready, Leaving, net, run, bound,
     TypeOK, InfraInv, MadeInOrder, DoneIsUp, RemovedInOrder, FibersOff
<1>30. ASSUME NEW n \in Servers, Break(n) PROVE TypeOK' /\ InfraInv'
  BY <1>30 DEF Break, ServerBecomes, Fault, Ready, Leaving, net, run, TypeOK,
     InfraInv, MadeInOrder, DoneIsUp, RemovedInOrder, FibersOff
<1>31. ASSUME NEW n \in Servers, Ensure(n) PROVE TypeOK' /\ InfraInv'
  BY <1>31, EnsureInfra
<1>32. CASE UNCHANGED vars
  BY <1>32 DEF vars, TypeOK, InfraInv, MadeInOrder, DoneIsUp, RemovedInOrder,
     FibersOff
<1> QED
  BY <1>1, <1>2, <1>3, <1>4, <1>5, <1>6, <1>7, <1>8, <1>9, <1>10, <1>11,
     <1>12, <1>13, <1>14, <1>15, <1>16, <1>17, <1>18, <1>19, <1>20, <1>21,
     <1>22, <1>23, <1>24, <1>25, <1>26, <1>27, <1>28, <1>29, <1>30, <1>31,
     <1>32 DEF Next, Progress, Settle

LEMMA InfraAlways == Spec => [](TypeOK /\ InfraInv)
BY InitInfra, NextInfra, PTL DEF Spec

\* The variables stay in their types (cloud-provider.ts, reconcile.ts).
THEOREM InfraTyped == Spec => []TypeOK
BY InfraAlways, PTL

\* When delete reports success, what costs money is gone or going, whatever
\* runs of apply, delete and status went before and however they ended
\* (cloud-provider.ts deleteByTag).
THEOREM DeletionIsComplete == Spec => DeletedLeavesNothing
<1>1. ASSUME TypeOK, InfraInv, DeleteNetwork
      PROVE  /\ ~network' /\ subnets' = {} /\ ~secGroup' /\ rules' = {}
             /\ lb' = "none"
             /\ \A n \in Servers : server'[n] \in {"none", "deleting"}
  BY <1>1 DEF DeleteNetwork, InfraInv, RemovedInOrder, Leaving, nova
<1>2. TypeOK /\ InfraInv /\ [Next]_vars =>
        [DeleteNetwork => /\ ~network' /\ subnets' = {} /\ ~secGroup' /\ rules' = {}
                          /\ lb' = "none"
                          /\ \A n \in Servers : server'[n] \in {"none", "deleting"}]_vars
  BY <1>1
<1> QED
  BY <1>2, InfraAlways, PTL DEF Spec, DeletedLeavesNothing

\* Provisioning completes what an interrupted run left half made.  The
\* assumption holds of a k3s cluster, whose network has one subnet; with two,
\* a run stopped between them leaves a network that no later run completes.
THEOREM ProvisioningIsComplete ==
  ASSUME OneSubnet
  PROVE  Spec => ProvisionedIsComplete
<1>1. ASSUME TypeOK, InfraInv, Provision
      PROVE  NetworkComplete /\ \A n \in Servers : server[n] # "build"
  BY <1>1 DEF Provision, NetworkComplete, InfraInv, MadeInOrder, DoneIsUp, Ready, Servers
<1>2. TypeOK /\ InfraInv /\ [Next]_vars =>
        [Provision => NetworkComplete /\ \A n \in Servers : server[n] # "build"]_vars
  BY <1>1
<1> QED
  BY <1>2, InfraAlways, PTL DEF Spec, ProvisionedIsComplete

-----------------------------------------------------------------------------
(* Hetzner Cloud *)

Deleting == {"delete-lb", "delete-servers", "deleting-servers", "deleting-groups",
             "delete-network"}

HetznerTypes ==
  /\ network \in BOOLEAN /\ subnets \subseteq Cidrs
  /\ secGroup \in BOOLEAN /\ rules \subseteq Rules
  /\ lb \in {"none", "active"}
  /\ groups \subseteq Servers
  /\ server \in [Servers -> {"none", "build", "starting", "active", "off", "deleting"}]
  /\ pc \in {"idle", "network", "secgroup", "rules", "lb", "masters", "workers", "volume",
             "delete-volume"} \union Deleting
  /\ fiber \in [Servers -> {"off", "find", "adopt", "reap", "group", "makegroup",
                            "post", "boot", "done"}]
  /\ group \in [Servers -> Servers \union {"none"}]
  /\ wants \in {"cluster", "nothing"}
  /\ turns \in 0..MaxTurns /\ faults \in 0..MaxFaults
  /\ asked \in Asks
  /\ attached \in BOOLEAN
  /\ volume \in {0, MinSize} \union {a.size : a \in Asks}

\* A placement group has the name of its role, and names are unique.
OneGroupEach ==
  \A peers \in {Masters, Workers} : \A g, h \in groups \intersect peers : g = h

VolumeFits ==
  /\ volume # 0 => volume >= MinSize
  /\ attached => volume # 0

\* What apply has made before each of its phases.
MadeAtOnce ==
  /\ network => subnets = Cidrs
  /\ pc \in {"secgroup", "rules", "lb", "masters", "workers", "volume"} => network
  /\ pc \in {"rules", "lb", "masters", "workers", "volume"} => secGroup
  /\ pc \in {"lb", "masters", "workers", "volume"} => rules = Rules

\* A server whose fiber is done has been made; the masters come first.
DoneIsMade ==
  /\ \A n \in Servers : fiber[n] = "done" => server[n] # "build"
  /\ pc = "workers" => \A n \in Masters : fiber[n] = "off" /\ server[n] # "build"

\* No fiber runs outside the loops; that of delete waits for a listed server.
OutOfLoops ==
  /\ pc \notin {"masters", "workers", "volume", "deleting-servers"} =>
       \A n \in Servers : fiber[n] = "off"
  /\ pc = "deleting-servers" =>
       \A n \in Servers : fiber[n] = "off" \/ (fiber[n] = "reap" /\ n \in todo)

\* What delete has removed before each of its phases.
RemovedForGood ==
  /\ pc \in {"delete-volume"} \union Deleting => wants = "nothing"
  /\ pc \in Deleting => volume = 0 \/ asked.retain
  /\ pc \in Deleting \ {"delete-lb"} => lb = "none"
  /\ pc = "deleting-servers" => \A n \in Servers \ todo : server[n] = "none"
  /\ pc \in {"deleting-groups", "delete-network"} => \A n \in Servers : server[n] = "none"
  /\ pc = "deleting-groups" =>
       \A peers \in {Masters, Workers} \ todo : groups \intersect peers = {}
  /\ pc = "delete-network" => groups = {} /\ ~secGroup /\ rules = {}

HetznerInv ==
  HetznerTypes /\ OneGroupEach /\ VolumeFits /\ MadeAtOnce /\ DoneIsMade /\ OutOfLoops
    /\ RemovedForGood

LEMMA RunHetzner ==
  ASSUME HetznerInv, HetznerRun
  PROVE  HetznerInv'
<1> USE InfraAssumption, HetznerAssumption
<1>1. CASE PostNetwork
  BY <1>1 DEF PostNetwork, Goto, net, nova, run, bound, storage, HetznerInv,
     HetznerTypes, OneGroupEach, VolumeFits, MadeAtOnce, DoneIsMade,
     OutOfLoops, RemovedForGood, Deleting
<1>2. CASE EnsureFirewall
  BY <1>2 DEF EnsureFirewall, Goto, net, nova, run, bound, storage,
     HetznerInv, HetznerTypes, OneGroupEach, VolumeFits, MadeAtOnce,
     DoneIsMade, OutOfLoops, RemovedForGood, Deleting
<1>3. CASE SetFirewallRules
  BY <1>3 DEF SetFirewallRules, Goto, net, nova, run, bound, storage,
     HetznerInv, HetznerTypes, OneGroupEach, VolumeFits, MadeAtOnce,
     DoneIsMade, OutOfLoops, RemovedForGood, Deleting
<1>4. CASE PostLoadBalancer
  BY <1>4 DEF PostLoadBalancer, Start, Servers, net, nova, run, bound,
     storage, HetznerInv, HetznerTypes, OneGroupEach, VolumeFits, MadeAtOnce,
     DoneIsMade, OutOfLoops, RemovedForGood, Deleting
<1>5. CASE ServersUp
  BY <1>5 DEF ServersUp, Goto, net, nova, run, bound, storage, HetznerInv,
     HetznerTypes, OneGroupEach, VolumeFits, MadeAtOnce, DoneIsMade,
     OutOfLoops, RemovedForGood, Deleting
<1>6. CASE EnsureVolume
  BY <1>6 DEF EnsureVolume, Exit, Rounded, net, nova, run, bound, storage,
     HetznerInv, HetznerTypes, OneGroupEach, VolumeFits, MadeAtOnce,
     DoneIsMade, OutOfLoops, RemovedForGood, Deleting
<1>7. CASE DeleteVolume
  BY <1>7 DEF DeleteVolume, Goto, Exit, net, nova, run, bound, storage,
     HetznerInv, HetznerTypes, OneGroupEach, VolumeFits, MadeAtOnce,
     DoneIsMade, OutOfLoops, RemovedForGood, Deleting
<1>8. CASE RemoveLoadBalancer
  BY <1>8 DEF RemoveLoadBalancer, Goto, net, nova, run, bound, storage,
     HetznerInv, HetznerTypes, OneGroupEach, VolumeFits, MadeAtOnce,
     DoneIsMade, OutOfLoops, RemovedForGood, Deleting
<1>9. CASE ListLabeled
  BY <1>9 DEF ListLabeled, ListServers, net, nova, run, bound, storage,
     HetznerInv, HetznerTypes, OneGroupEach, VolumeFits, MadeAtOnce,
     DoneIsMade, OutOfLoops, RemovedForGood, Deleting
<1>10. CASE MastersUp /\ UNCHANGED storage
  BY <1>10 DEF MastersUp, Start, Servers, net, nova, run, bound, storage,
     HetznerInv, HetznerTypes, OneGroupEach, VolumeFits, MadeAtOnce,
     DoneIsMade, OutOfLoops, RemovedForGood, Deleting
<1>11. CASE DeleteSecurityGroup /\ UNCHANGED storage
  <2>8. groups = {}
    BY <1>11 DEF DeleteSecurityGroup, HetznerInv, HetznerTypes, RemovedForGood, Deleting, Servers
  <2>1. HetznerTypes'
    BY <1>11 DEF DeleteSecurityGroup, Goto, net, nova, run, bound, storage,
       HetznerInv, HetznerTypes, Deleting
  <2>2. OneGroupEach'
    BY <1>11 DEF DeleteSecurityGroup, Goto, net, nova, run, bound, storage,
       HetznerInv, OneGroupEach, HetznerTypes
  <2>3. VolumeFits'
    BY <1>11 DEF DeleteSecurityGroup, Goto, net, nova, run, bound, storage,
       HetznerInv, VolumeFits, HetznerTypes
  <2>4. MadeAtOnce'
    BY <1>11 DEF DeleteSecurityGroup, Goto, net, nova, run, bound, storage,
       HetznerInv, MadeAtOnce, HetznerTypes
  <2>5. DoneIsMade'
    BY <1>11 DEF DeleteSecurityGroup, Goto, net, nova, run, bound, storage,
       HetznerInv, DoneIsMade, HetznerTypes
  <2>6. OutOfLoops'
    BY <1>11 DEF DeleteSecurityGroup, Goto, net, nova, run, bound, storage,
       HetznerInv, OutOfLoops, HetznerTypes
  <2>7. RemovedForGood'
    BY <1>11, <2>8 DEF DeleteSecurityGroup, Goto, net, nova, run, bound, storage,
       HetznerInv, RemovedForGood, Deleting, HetznerTypes
  <2> QED
    BY <2>1, <2>2, <2>3, <2>4, <2>5, <2>6, <2>7 DEF HetznerInv
<1>12. CASE DeleteNetwork /\ UNCHANGED storage
  BY <1>12 DEF DeleteNetwork, Exit, net, nova, run, bound, storage,
     HetznerInv, HetznerTypes, OneGroupEach, VolumeFits, MadeAtOnce,
     DoneIsMade, OutOfLoops, RemovedForGood, Deleting
<1>13. CASE ListGroups /\ UNCHANGED storage
  BY <1>13 DEF ListGroups, net, nova, run, bound, storage, HetznerInv,
     HetznerTypes, OneGroupEach, VolumeFits, MadeAtOnce, DoneIsMade,
     OutOfLoops, RemovedForGood, Deleting
<1>14. ASSUME NEW peers \in {Masters, Workers}, DeleteGroup(peers) /\ UNCHANGED storage PROVE HetznerInv'
  BY <1>14 DEF DeleteGroup, net, nova, run, bound, storage, HetznerInv,
     HetznerTypes, OneGroupEach, VolumeFits, MadeAtOnce, DoneIsMade,
     OutOfLoops, RemovedForGood, Deleting
<1>15. ASSUME NEW n \in Servers, RemoveServer(n) PROVE HetznerInv'
  BY <1>15 DEF RemoveServer, Reaping, net, nova, run, bound, storage,
     HetznerInv, HetznerTypes, OneGroupEach, VolumeFits, MadeAtOnce,
     DoneIsMade, OutOfLoops, RemovedForGood, Deleting
<1>16. ASSUME NEW n \in Servers, RemovalRefused(n) PROVE HetznerInv'
  BY <1>16 DEF RemovalRefused, Exit, net, nova, run, bound, storage,
     HetznerInv, HetznerTypes, OneGroupEach, VolumeFits, MadeAtOnce,
     DoneIsMade, OutOfLoops, RemovedForGood, Deleting
<1>17. ASSUME NEW n \in Servers, ServerRemoved(n) PROVE HetznerInv'
  BY <1>17 DEF ServerRemoved, net, nova, run, bound, storage, HetznerInv,
     HetznerTypes, OneGroupEach, VolumeFits, MadeAtOnce, DoneIsMade,
     OutOfLoops, RemovedForGood, Deleting
<1> QED
  BY <1>1, <1>2, <1>3, <1>4, <1>5, <1>6, <1>7, <1>8, <1>9, <1>10, <1>11,
     <1>12, <1>13, <1>14, <1>15, <1>16, <1>17 DEF HetznerRun

\* The steps of ensureServer.
LEMMA EnsureHetzner ==
  ASSUME HetznerInv, NEW n \in Servers, HetznerEnsure(n)
  PROVE  HetznerInv'
<1> USE InfraAssumption, HetznerAssumption
<1>1. CASE FindServer(n)
  BY <1>1 DEF FindServer, Step, net, nova, run, bound, storage, HetznerInv,
     HetznerTypes, OneGroupEach, VolumeFits, MadeAtOnce, DoneIsMade,
     OutOfLoops, RemovedForGood, Deleting
<1>2. CASE Runs(n)
  BY <1>2 DEF Runs, Step, net, nova, run, bound, storage, HetznerInv,
     HetznerTypes, OneGroupEach, VolumeFits, MadeAtOnce, DoneIsMade,
     OutOfLoops, RemovedForGood, Deleting
<1>3. CASE PostGroup(n)
  BY <1>3 DEF PostGroup, GroupsFor, Peers, Step, Servers, net, nova, run,
     bound, storage, HetznerInv, HetznerTypes, OneGroupEach, VolumeFits,
     MadeAtOnce, DoneIsMade, OutOfLoops, RemovedForGood, Deleting
<1>4. CASE GroupTaken(n)
  BY <1>4 DEF GroupTaken, Exit, net, nova, run, bound, storage, HetznerInv,
     HetznerTypes, OneGroupEach, VolumeFits, MadeAtOnce, DoneIsMade,
     OutOfLoops, RemovedForGood, Deleting
<1>5. CASE PostServer(n)
  BY <1>5 DEF PostServer, CreateServer, Step, Servers, net, nova, run, bound,
     storage, HetznerInv, HetznerTypes, OneGroupEach, VolumeFits, MadeAtOnce,
     DoneIsMade, OutOfLoops, RemovedForGood, Deleting
<1>6. CASE ActionDone(n)
  BY <1>6 DEF ActionDone, Step, Servers, net, nova, run, bound, storage,
     HetznerInv, HetznerTypes, OneGroupEach, VolumeFits, MadeAtOnce,
     DoneIsMade, OutOfLoops, RemovedForGood, Deleting
<1>7. CASE ServerFails(n)
  BY <1>7 DEF ServerFails, Exit, net, nova, run, bound, storage, HetznerInv,
     HetznerTypes, OneGroupEach, VolumeFits, MadeAtOnce, DoneIsMade,
     OutOfLoops, RemovedForGood, Deleting
<1>8. CASE FindNone(n) /\ UNCHANGED <<bound, storage>>
  BY <1>8 DEF FindNone, Step, net, nova, run, bound, storage, HetznerInv,
     HetznerTypes, OneGroupEach, VolumeFits, MadeAtOnce, DoneIsMade,
     OutOfLoops, RemovedForGood, Deleting
<1>9. CASE FindGroup(n) /\ UNCHANGED <<bound, storage>>
  BY <1>9 DEF FindGroup, GroupsFor, Peers, Step, Servers, net, nova, run,
     bound, storage, HetznerInv, HetznerTypes, OneGroupEach, VolumeFits,
     MadeAtOnce, DoneIsMade, OutOfLoops, RemovedForGood, Deleting
<1>10. CASE FindNoGroup(n) /\ UNCHANGED <<bound, storage>>
  BY <1>10 DEF FindNoGroup, Step, net, nova, run, bound, storage, HetznerInv,
     HetznerTypes, OneGroupEach, VolumeFits, MadeAtOnce, DoneIsMade,
     OutOfLoops, RemovedForGood, Deleting
<1> QED
  BY <1>1, <1>2, <1>3, <1>4, <1>5, <1>6, <1>7, <1>8, <1>9, <1>10 DEF
     HetznerEnsure

LEMMA StepHetzner == HetznerInv /\ HetznerStep => HetznerInv'
<1> SUFFICES ASSUME HetznerInv, HetznerStep PROVE HetznerInv'
  OBVIOUS
<1> USE InfraAssumption, HetznerAssumption
<1>1. CASE StartTeardown
  BY <1>1 DEF StartTeardown, Goto, net, nova, run, bound, storage, HetznerInv,
     HetznerTypes, OneGroupEach, VolumeFits, MadeAtOnce, DoneIsMade,
     OutOfLoops, RemovedForGood, Deleting
<1>2. CASE ReadCluster
  BY <1>2 DEF ReadCluster, net, nova, run, bound, storage, HetznerInv,
     HetznerTypes, OneGroupEach, VolumeFits, MadeAtOnce, DoneIsMade,
     OutOfLoops, RemovedForGood, Deleting
<1>3. CASE EditAsk
  BY <1>3 DEF EditAsk, net, nova, run, bound, storage, HetznerInv,
     HetznerTypes, OneGroupEach, VolumeFits, MadeAtOnce, DoneIsMade,
     OutOfLoops, RemovedForGood, Deleting
<1>4. CASE Attach
  BY <1>4 DEF Attach, net, nova, run, bound, storage, HetznerInv,
     HetznerTypes, OneGroupEach, VolumeFits, MadeAtOnce, DoneIsMade,
     OutOfLoops, RemovedForGood, Deleting
<1>5. CASE Detach
  <2>1. HetznerTypes'
    BY <1>5 DEF Detach, net, nova, run, bound, storage,
       HetznerInv, HetznerTypes, Deleting
  <2>2. OneGroupEach'
    BY <1>5 DEF Detach, net, nova, run, bound, storage,
       HetznerInv, OneGroupEach, HetznerTypes
  <2>3. VolumeFits'
    BY <1>5 DEF Detach, net, nova, run, bound, storage,
       HetznerInv, VolumeFits, HetznerTypes
  <2>4. MadeAtOnce'
    BY <1>5 DEF Detach, net, nova, run, bound, storage,
       HetznerInv, MadeAtOnce, HetznerTypes
  <2>5. DoneIsMade'
    BY <1>5 DEF Detach, net, nova, run, bound, storage,
       HetznerInv, DoneIsMade, HetznerTypes
  <2>6. OutOfLoops'
    BY <1>5 DEF Detach, net, nova, run, bound, storage,
       HetznerInv, OutOfLoops, HetznerTypes
  <2>7. RemovedForGood'
    BY <1>5 DEF Detach, net, nova, run, bound, storage,
       HetznerInv, RemovedForGood, Deleting, HetznerTypes
  <2> QED
    BY <2>1, <2>2, <2>3, <2>4, <2>5, <2>6, <2>7 DEF HetznerInv
<1>6. CASE StartApply /\ UNCHANGED storage
  BY <1>6 DEF StartApply, Goto, net, nova, run, bound, storage, HetznerInv,
     HetznerTypes, OneGroupEach, VolumeFits, MadeAtOnce, DoneIsMade,
     OutOfLoops, RemovedForGood, Deleting
<1>7. CASE Turn /\ UNCHANGED storage
  BY <1>7 DEF Turn, net, nova, run, bound, storage, HetznerInv, HetznerTypes,
     OneGroupEach, VolumeFits, MadeAtOnce, DoneIsMade, OutOfLoops,
     RemovedForGood, Deleting
<1>8. CASE Killed /\ UNCHANGED storage
  BY <1>8 DEF Killed, Fault, Exit, net, nova, run, bound, storage, HetznerInv,
     HetznerTypes, OneGroupEach, VolumeFits, MadeAtOnce, DoneIsMade,
     OutOfLoops, RemovedForGood, Deleting
<1>9. ASSUME NEW n \in Servers, ServerStarts(n) PROVE HetznerInv'
  BY <1>9 DEF ServerStarts, ServerBecomes, net, nova, run, bound, storage,
     HetznerInv, HetznerTypes, OneGroupEach, VolumeFits, MadeAtOnce,
     DoneIsMade, OutOfLoops, RemovedForGood, Deleting
<1>10. ASSUME NEW n \in Servers, ServerRuns(n) PROVE HetznerInv'
  BY <1>10 DEF ServerRuns, ServerBecomes, net, nova, run, bound, storage,
     HetznerInv, HetznerTypes, OneGroupEach, VolumeFits, MadeAtOnce,
     DoneIsMade, OutOfLoops, RemovedForGood, Deleting
<1>11. ASSUME NEW n \in Servers, ServerGone(n) PROVE HetznerInv'
  BY <1>11 DEF ServerGone, Vanish, ServerBecomes, net, nova, run, bound,
     storage, HetznerInv, HetznerTypes, OneGroupEach, VolumeFits, MadeAtOnce,
     DoneIsMade, OutOfLoops, RemovedForGood, Deleting
<1>12. ASSUME NEW n \in Servers, ServerStops(n) PROVE HetznerInv'
  <2>1. HetznerTypes'
    BY <1>12 DEF ServerStops, ServerBecomes, Fault, net, nova, run, bound, storage,
       HetznerInv, HetznerTypes, Deleting
  <2>2. OneGroupEach'
    BY <1>12 DEF ServerStops, ServerBecomes, Fault, net, nova, run, bound, storage,
       HetznerInv, OneGroupEach, HetznerTypes
  <2>3. VolumeFits'
    BY <1>12 DEF ServerStops, ServerBecomes, Fault, net, nova, run, bound, storage,
       HetznerInv, VolumeFits, HetznerTypes
  <2>4. MadeAtOnce'
    BY <1>12 DEF ServerStops, ServerBecomes, Fault, net, nova, run, bound, storage,
       HetznerInv, MadeAtOnce, HetznerTypes
  <2>5. DoneIsMade'
    BY <1>12 DEF ServerStops, ServerBecomes, Fault, net, nova, run, bound, storage,
       HetznerInv, DoneIsMade, HetznerTypes, Servers
  <2>6. OutOfLoops'
    BY <1>12 DEF ServerStops, ServerBecomes, Fault, net, nova, run, bound, storage,
       HetznerInv, OutOfLoops, HetznerTypes
  <2>7. RemovedForGood'
    BY <1>12 DEF ServerStops, ServerBecomes, Fault, net, nova, run, bound, storage,
       HetznerInv, RemovedForGood, Deleting, HetznerTypes
  <2> QED
    BY <2>1, <2>2, <2>3, <2>4, <2>5, <2>6, <2>7 DEF HetznerInv
<1> QED
  BY <1>1, <1>2, <1>3, <1>4, <1>5, <1>6, <1>7, <1>8, <1>9, <1>10, <1>11,
     <1>12, RunHetzner, EnsureHetzner DEF HetznerStep, HetznerSettle

-----------------------------------------------------------------------------
(* Either cloud *)

CloudInv ==
  /\ provider \in {"openstack", "hetzner"}
  /\ provider = "openstack" => TypeOK /\ InfraInv /\ volume = 0
  /\ provider = "hetzner" => HetznerInv

LEMMA InitCloud == CloudInit => CloudInv
<1> SUFFICES ASSUME CloudInit PROVE CloudInv
  OBVIOUS
<1>1. TypeOK /\ InfraInv
  BY InitInfra DEF CloudInit
<1>2. HetznerInv
  BY <1>1, InfraAssumption, HetznerAssumption DEF CloudInit, Init, TypeOK, HetznerInv,
     HetznerTypes, OneGroupEach, VolumeFits, MadeAtOnce, DoneIsMade, OutOfLoops,
     RemovedForGood, Deleting
<1> QED
  BY <1>1, <1>2 DEF CloudInit, CloudInv

LEMMA StutterHetzner == HetznerInv /\ UNCHANGED cloudVars => HetznerInv'
BY DEF cloudVars, HetznerInv, HetznerTypes, OneGroupEach, VolumeFits, MadeAtOnce,
   DoneIsMade, OutOfLoops, RemovedForGood, Deleting

LEMMA NextCloud == CloudInv /\ [CloudNext]_cloudVars => CloudInv'
<1> SUFFICES ASSUME CloudInv, [CloudNext]_cloudVars PROVE CloudInv'
  OBVIOUS
<1>1. CASE On("openstack", Next /\ UNCHANGED storage)
  BY <1>1, NextInfra DEF On, storage, CloudInv
<1>2. CASE On("hetzner", HetznerStep)
  BY <1>2, StepHetzner DEF On, CloudInv
<1>3. CASE UNCHANGED cloudVars
  <2>1. UNCHANGED vars
    BY <1>3 DEF cloudVars, vars
  <2>2. TypeOK /\ InfraInv => TypeOK' /\ InfraInv'
    BY <2>1, NextInfra
  <2> QED
    BY <1>3, <2>2, StutterHetzner DEF cloudVars, CloudInv
<1> QED
  BY <1>1, <1>2, <1>3 DEF CloudNext

LEMMA CloudAlways == CloudSpec => []CloudInv
BY InitCloud, NextCloud, PTL DEF CloudSpec

\* The variables stay in their types on either cloud; on Hetzner there is never
\* a second placement group for a role, and a volume has a size that some config
\* asked for, no less than the minimum (hetzner/client provider, volume).
THEOREM CloudTypes == CloudSpec => []CloudTypeOK
<1>1. CloudInv => CloudTypeOK
  BY DEF CloudInv, CloudTypeOK, TypeOK, HetznerInv, HetznerTypes, OneGroupEach, VolumeFits
<1> QED
  BY <1>1, CloudAlways, PTL

\* When delete reports success, what costs money is gone, or going, on either
\* cloud (deleteByTag of both providers).
THEOREM CloudDeletionIsComplete == CloudSpec => DeletedLeavesNothing
<1>1. ASSUME CloudInv, DeleteNetwork
      PROVE  /\ ~network' /\ subnets' = {} /\ ~secGroup' /\ rules' = {}
             /\ lb' = "none"
             /\ \A n \in Servers : server'[n] \in {"none", "deleting"}
  <2>1. CASE provider = "openstack"
    BY <1>1, <2>1 DEF CloudInv, DeleteNetwork, InfraInv, RemovedInOrder, Leaving, nova
  <2>2. CASE provider = "hetzner"
    BY <1>1, <2>2 DEF CloudInv, DeleteNetwork, HetznerInv, RemovedForGood, Deleting, nova
  <2> QED
    BY <1>1, <2>1, <2>2 DEF CloudInv
<1>2. CloudInv /\ [CloudNext]_cloudVars =>
        [DeleteNetwork => /\ ~network' /\ subnets' = {} /\ ~secGroup' /\ rules' = {}
                          /\ lb' = "none"
                          /\ \A n \in Servers : server'[n] \in {"none", "deleting"}]_vars
  BY <1>1
<1> QED
  BY <1>2, CloudAlways, PTL DEF CloudSpec, DeletedLeavesNothing

LEMMA SizesAreNumbers ==
  ASSUME CloudInv
  PROVE  volume \in Nat /\ (provider = "hetzner" => Rounded \in Nat)
<1>1. \A a \in Asks : a.size \in Nat
  BY HetznerAssumption
<1>2. CASE provider = "openstack"
  BY <1>2 DEF CloudInv
<1>3. CASE provider = "hetzner"
  BY <1>1, <1>3, HetznerAssumption DEF CloudInv, HetznerInv, HetznerTypes, Rounded
<1> QED
  BY <1>2, <1>3 DEF CloudInv

\* No step but those of ensureVolume and of the deletion writes the volume.
LEMMA VolumeWritten ==
  ASSUME CloudInv, CloudNext, volume' < volume
  PROVE  (provider = "hetzner" /\ DeleteVolume) \/ EnsureVolume
<1>1. volume' # volume
  BY HetznerAssumption DEF CloudInv, HetznerInv, HetznerTypes
<1> QED
  BY <1>1 DEF CloudNext, On, HetznerStep, HetznerRun, HetznerEnsure, HetznerSettle, storage,
     PostNetwork, EnsureFirewall, SetFirewallRules, PostLoadBalancer, ServersUp,
     RemoveLoadBalancer, ListLabeled, RemoveServer, RemovalRefused, ServerRemoved,
     StartTeardown, ReadCluster, EditAsk, Attach, Detach, FindServer, Runs, PostGroup,
     GroupTaken, PostServer, ActionDone, ServerFails, ServerStarts, ServerRuns, ServerGone,
     ServerStops

\* On Hetzner, a delete that reports success leaves no server and no placement
\* group, not even on its way out; and no volume ever shrinks, nor is deleted
\* by anything but a delete that was not asked to keep it, whatever failed or
\* was interrupted before (cloud-provider.ts deleteByTag, volume/provider.ts).
THEOREM CloudDeletionIsExact == CloudSpec => DeleteIsExact
<1>1. ASSUME CloudInv, provider = "hetzner", DeleteNetwork, CloudNext
      PROVE  /\ groups' = {} /\ \A n \in Servers : server'[n] = "none"
             /\ volume' = 0 \/ asked.retain
  <2>1. pc = "delete-network" /\ UNCHANGED nova
    BY <1>1 DEF DeleteNetwork
  <2>2. volume' = volume
    BY <1>1, <2>1 DEF CloudNext, On, HetznerStep, HetznerRun, HetznerEnsure, HetznerSettle,
       storage, PostNetwork, EnsureFirewall, SetFirewallRules, PostLoadBalancer, ServersUp,
       EnsureVolume, DeleteVolume, RemoveLoadBalancer, ListLabeled, RemoveServer,
       RemovalRefused, ServerRemoved, StartTeardown, ReadCluster, EditAsk, Attach, Detach,
       FindServer, Runs, PostGroup, GroupTaken, PostServer, ActionDone, ServerFails,
       ServerStarts, ServerRuns, ServerGone, ServerStops
  <2> QED
    BY <1>1, <2>1, <2>2 DEF CloudInv, HetznerInv, RemovedForGood, Deleting, nova
<1>2. ASSUME CloudInv, CloudNext, volume' < volume
      PROVE  wants = "nothing" /\ ~asked.retain
  <2>1. ~EnsureVolume
    <3> SUFFICES ASSUME EnsureVolume PROVE FALSE
      OBVIOUS
    <3>0. provider = "hetzner"
      BY <1>2 DEF CloudNext, On, CloudInv, storage
    <3>1. volume' = volume \/ (volume < Rounded /\ volume' = Rounded)
      BY DEF EnsureVolume
    <3>2. volume \in Nat /\ Rounded \in Nat
      BY <1>2, <3>0, SizesAreNumbers
    <3> QED
      BY <1>2, <3>1, <3>2
  <2>2. provider = "hetzner" /\ DeleteVolume
    BY <1>2, <2>1, VolumeWritten
  <2>3. volume' # volume
    BY <1>2, HetznerAssumption DEF CloudInv, HetznerInv, HetznerTypes
  <2> QED
    BY <1>2, <2>2, <2>3 DEF DeleteVolume, CloudInv, HetznerInv, RemovedForGood, Deleting
<1>3. CloudInv /\ [CloudNext]_cloudVars =>
        [/\ provider = "hetzner" /\ DeleteNetwork =>
               /\ groups' = {} /\ \A n \in Servers : server'[n] = "none"
               /\ volume' = 0 \/ asked.retain
         /\ volume' < volume => wants = "nothing" /\ ~asked.retain]_cloudVars
  BY <1>1, <1>2
<1> QED
  BY <1>3, CloudAlways, PTL DEF CloudSpec, DeleteIsExact

\* Provisioning completes what interrupted runs left half made, on either cloud:
\* on OpenStack for one subnet to a network, as k3s asks for; on Hetzner, where
\* a network comes with its subnets, for any.
THEOREM CloudProvisioningIsComplete ==
  ASSUME OneSubnet
  PROVE  CloudSpec => ProvisionedIsComplete
<1>1. ASSUME CloudInv, Provision, CloudNext
      PROVE  NetworkComplete /\ \A n \in Servers : server[n] # "build"
  <2>1. CASE provider = "openstack"
    BY <1>1, <2>1 DEF CloudInv, Provision, NetworkComplete, InfraInv, MadeInOrder, DoneIsUp,
       Ready, Servers
  <2>2. CASE provider = "hetzner"
    BY <1>1, <2>2 DEF CloudInv, Provision, NetworkComplete, HetznerInv, MadeAtOnce,
       DoneIsMade, Servers
  <2> QED
    BY <1>1, <2>1, <2>2 DEF CloudInv
<1>2. CloudInv /\ [CloudNext]_cloudVars =>
        [Provision => NetworkComplete /\ \A n \in Servers : server[n] # "build"]_vars
  <2>1. UNCHANGED cloudVars => UNCHANGED vars
    BY DEF cloudVars, vars
  <2> QED
    BY <1>1, <2>1
<1> QED
  BY <1>2, CloudAlways, PTL DEF CloudSpec, ProvisionedIsComplete

\* The same of Hetzner's own last step of provisioning (_provisionInfra).
THEOREM HetznerProvisioningIsComplete ==
  CloudSpec => [][provider = "hetzner" /\ ServersUp =>
                    NetworkComplete /\ \A n \in Servers : server[n] # "build"]_cloudVars
<1>1. ASSUME CloudInv, provider = "hetzner", ServersUp
      PROVE  NetworkComplete /\ \A n \in Servers : server[n] # "build"
  BY <1>1 DEF CloudInv, ServersUp, NetworkComplete, HetznerInv, MadeAtOnce, DoneIsMade, Servers
<1>2. CloudInv /\ [CloudNext]_cloudVars =>
        [provider = "hetzner" /\ ServersUp =>
           NetworkComplete /\ \A n \in Servers : server[n] # "build"]_cloudVars
  BY <1>1
<1> QED
  BY <1>2, CloudAlways, PTL DEF CloudSpec
=============================================================================
