------------------------------ MODULE Mks_proofs ------------------------------
(***************************************************************************)
(* What holds of Mks for any pools, versions and configurations, and any   *)
(* number of faults and turns.  MksInv says what each phase of the process *)
(* takes for granted from the phases before it, while the clouds move on.  *)
(***************************************************************************)
EXTENDS Mks, TLAPS

Whole == {"net", "nodes", "balancers"}
Teardown == {"deleteLb", "lbGone", "releaseFip", "detach", "router", "deleteNet"}

\* The network is made before what stands on it, and by the runs that ask for it.
MadeInOrder ==
  /\ network # {} => "net" \in network
  /\ gateway # "none" => "net" \in network
  /\ pc \in {"drift", "net", "nodes", "balancers", "gateway"} => config.private
  /\ pc \in {"nodes", "balancers"} => "net" \in network
  /\ pc = "balancers" => "nodes" \in network
  /\ pc = "gateway" => network = Whole
  /\ pc = "find" /\ config.private => network = Whole
  /\ ClusterIsWhole

\* And it is torn down after what stands on it.
TornDownInOrder ==
  /\ pc \in Teardown \union {"deleted"} => kube = "none"
  /\ pc \in {"releaseFip", "detach", "router", "deleteNet"} => lb = "none"
  /\ pc \in {"detach", "router", "deleteNet"} => fip = "none"
  /\ pc = "deleteNet" => gateway = "none"
  /\ pc = "deleted" /\ config.private =>
       network = {} /\ lb = "none" /\ fip = "none" /\ gateway = "none"

\* The diff is that of this run's config, and within what was confirmed.
DiffIsConfirmed ==
  /\ pc \notin {"pools", "gone"} =>
       toDelete = {} /\ toReplace = {} /\ toCreate = {} /\ toUpdate = {}
  /\ toDelete \intersect Desired = {}
  /\ toReplace \subseteq replace
  /\ pc = "gone" => target \in Pools

\* OVH upgrades only to a version that it has.
RoomToUpdate == kube = "UPDATING" => version < MaxVersion

MksInv == MadeInOrder /\ TornDownInOrder /\ DiffIsConfirmed /\ RoomToUpdate

-----------------------------------------------------------------------------
LEMMA InitMks == Init => TypeOK /\ MksInv
<1> SUFFICES ASSUME Init PROVE TypeOK /\ MksInv
  OBVIOUS
<1>1. faults \in 0..MaxFaults /\ edits \in 0..MaxEdits
  BY MksAssumption DEF Init
<1>0. PICK c \in Configs : TRUE
  BY MksAssumption
<1>5. 1 \in Versions
  BY <1>0, MksAssumption DEF Versions
<1>6. FALSE \in BOOLEAN /\ 0 \in CountsOf
  BY DEF CountsOf
<1>2. TypeOK
  BY <1>1, <1>5, <1>6 DEF Init, TypeOK, Phases, Listed
<1>3. MksInv
  BY DEF Init, MksInv, MadeInOrder, TornDownInOrder, DiffIsConfirmed, RoomToUpdate,
     ClusterIsWhole, Teardown
<1> QED
  BY <1>2, <1>3

\* The requests about one pool.
LEMMA PoolMks ==
  ASSUME TypeOK, MksInv, NEW p \in Pools,
         DeletePool(p) \/ DeleteForReplace(p) \/ CreatePool(p) \/ UpdatePool(p) \/ PoolRefused(p)
  PROVE  TypeOK' /\ MksInv'
<1> USE MksAssumption
<1>1. CASE DeletePool(p)
  BY <1>1 DEF DeletePool, infra, cluster, pools, budget, Listed, Whole,
     Teardown, Phases, Desired, Versions, TypeOK, MksInv, MadeInOrder,
     TornDownInOrder, DiffIsConfirmed, RoomToUpdate, ClusterIsWhole
<1>2. CASE DeleteForReplace(p)
  BY <1>2 DEF DeleteForReplace, infra, cluster, pools, budget, Listed, Whole,
     Teardown, Phases, Desired, Versions, TypeOK, MksInv, MadeInOrder,
     TornDownInOrder, DiffIsConfirmed, RoomToUpdate, ClusterIsWhole
<1>3. CASE CreatePool(p)
  <2>1. config.hash[p] \in Hashes \union {Absent} /\ config.count[p] \in CountsOf
    BY <1>3 DEF CountsOf, TypeOK, CreatePool
  <2>2. TypeOK'
    BY <1>3, <2>1 DEF CreatePool, infra, cluster, pools, budget, Make, Listed,
       Whole, Teardown, Phases, Desired, Versions, TypeOK, MksInv,
       DiffIsConfirmed
  <2>3. MksInv'
    BY <1>3, <2>1 DEF CreatePool, infra, cluster, pools, budget, Make, Listed,
       Whole, Teardown, Phases, Desired, Versions, TypeOK, MksInv,
       MadeInOrder, TornDownInOrder, DiffIsConfirmed, RoomToUpdate,
       ClusterIsWhole
  <2> QED
    BY <2>2, <2>3
<1>4. CASE UpdatePool(p)
  <2>1. config.count[p] \in CountsOf
    BY <1>4 DEF CountsOf, TypeOK, UpdatePool
  <2>2. TypeOK'
    BY <1>4, <2>1 DEF UpdatePool, infra, cluster, pools, budget, Listed,
       Whole, Teardown, Phases, Desired, Versions, TypeOK, MksInv,
       DiffIsConfirmed
  <2>3. MksInv'
    BY <1>4, <2>1 DEF UpdatePool, infra, cluster, pools, budget, Listed,
       Whole, Teardown, Phases, Desired, Versions, TypeOK, MksInv,
       MadeInOrder, TornDownInOrder, DiffIsConfirmed, RoomToUpdate,
       ClusterIsWhole
  <2> QED
    BY <2>2, <2>3
<1>5. CASE PoolRefused(p)
  BY <1>5 DEF PoolRefused, Exit, pools, cloud, budget, Listed, Whole,
     Teardown, Phases, Desired, Versions, TypeOK, MksInv, MadeInOrder,
     TornDownInOrder, DiffIsConfirmed, RoomToUpdate, ClusterIsWhole
<1> QED
  BY <1>1, <1>2, <1>3, <1>4, <1>5

\* The steps of the process but those.
LEMMA ProgressMks ==
  ASSUME TypeOK, MksInv, Progress
  PROVE  TypeOK' /\ MksInv'
<1> USE MksAssumption
<1>1. CASE Confirm
  BY <1>1 DEF Confirm, GoTo, cloud, budget, Whole, Teardown, Phases, Desired,
     Listed, Versions, TypeOK, MksInv, MadeInOrder, TornDownInOrder,
     DiffIsConfirmed, RoomToUpdate, ClusterIsWhole
<1>2. CASE RefuseControlPlane
  BY <1>2 DEF RefuseControlPlane, Exit, cloud, budget, Whole, Teardown,
     Phases, Desired, Listed, Versions, TypeOK, MksInv, MadeInOrder,
     TornDownInOrder, DiffIsConfirmed, RoomToUpdate, ClusterIsWhole
<1>3. CASE Start
  BY <1>3 DEF Start, GoTo, cloud, budget, Whole, Teardown, Phases, Desired,
     Listed, Versions, TypeOK, MksInv, MadeInOrder, TornDownInOrder,
     DiffIsConfirmed, RoomToUpdate, ClusterIsWhole
<1>4. CASE RefuseDrift
  BY <1>4 DEF RefuseDrift, Exit, cloud, budget, Whole, Teardown, Phases,
     Desired, Listed, Versions, TypeOK, MksInv, MadeInOrder, TornDownInOrder,
     DiffIsConfirmed, RoomToUpdate, ClusterIsWhole
<1>5. CASE NoDrift
  BY <1>5 DEF NoDrift, GoTo, cloud, budget, Whole, Teardown, Phases, Desired,
     Listed, Versions, TypeOK, MksInv, MadeInOrder, TornDownInOrder,
     DiffIsConfirmed, RoomToUpdate, ClusterIsWhole
<1>6. CASE EnsureNetworkId
  BY <1>6 DEF EnsureNetworkId, GoTo, cluster, pools, budget, Whole, Teardown,
     Phases, Desired, Listed, Versions, TypeOK, MksInv, MadeInOrder,
     TornDownInOrder, DiffIsConfirmed, RoomToUpdate, ClusterIsWhole
<1>7. CASE CreateNodesSubnet
  BY <1>7 DEF CreateNodesSubnet, GoTo, cluster, pools, budget, Whole,
     Teardown, Phases, Desired, Listed, Versions, TypeOK, MksInv, MadeInOrder,
     TornDownInOrder, DiffIsConfirmed, RoomToUpdate, ClusterIsWhole
<1>8. CASE CreateBalancersSubnet
  <2>1. network' = Whole
    BY <1>8 DEF CreateBalancersSubnet, Whole, TypeOK, MksInv, MadeInOrder
  <2>2. TypeOK'
    BY <1>8, <2>1 DEF CreateBalancersSubnet, GoTo, cluster, pools, budget,
       Whole, Teardown, Phases, Desired, Listed, Versions, TypeOK, MksInv,
       DiffIsConfirmed
  <2>3. MksInv'
    BY <1>8, <2>1 DEF CreateBalancersSubnet, GoTo, cluster, pools, budget,
       Whole, Teardown, Phases, Desired, Listed, Versions, TypeOK, MksInv,
       MadeInOrder, TornDownInOrder, DiffIsConfirmed, RoomToUpdate,
       ClusterIsWhole
  <2> QED
    BY <2>2, <2>3
<1>9. CASE AdoptNetwork
  <2>1. network = Whole
    BY <1>9 DEF AdoptNetwork, HasSubnetIds, Whole, TypeOK, MksInv, MadeInOrder
  <2>2. TypeOK'
    BY <1>9, <2>1 DEF AdoptNetwork, GoTo, cloud, budget, HasSubnetIds, Whole,
       Teardown, Phases, Desired, Listed, Versions, TypeOK, MksInv,
       DiffIsConfirmed
  <2>3. MksInv'
    BY <1>9, <2>1 DEF AdoptNetwork, GoTo, cloud, budget, HasSubnetIds, Whole,
       Teardown, Phases, Desired, Listed, Versions, TypeOK, MksInv,
       MadeInOrder, TornDownInOrder, DiffIsConfirmed, RoomToUpdate,
       ClusterIsWhole
  <2> QED
    BY <2>2, <2>3
<1>10. CASE NoSubnetIds
  BY <1>10 DEF NoSubnetIds, Exit, cloud, budget, HasSubnetIds, Whole,
     Teardown, Phases, Desired, Listed, Versions, TypeOK, MksInv, MadeInOrder,
     TornDownInOrder, DiffIsConfirmed, RoomToUpdate, ClusterIsWhole
<1>11. CASE EnsureGateway
  BY <1>11 DEF EnsureGateway, GoTo, cluster, pools, budget, Whole, Teardown,
     Phases, Desired, Listed, Versions, TypeOK, MksInv, MadeInOrder,
     TornDownInOrder, DiffIsConfirmed, RoomToUpdate, ClusterIsWhole
<1>12. CASE CreateCluster
  BY <1>12 DEF CreateCluster, GoTo, infra, pools, budget, Whole, Teardown,
     Phases, Desired, Listed, Versions, TypeOK, MksInv, MadeInOrder,
     TornDownInOrder, DiffIsConfirmed, RoomToUpdate, ClusterIsWhole
<1>13. CASE FindCluster
  BY <1>13 DEF FindCluster, Exit, GoTo, cloud, budget, ClusterDrift, Whole,
     Teardown, Phases, Desired, Listed, Versions, TypeOK, MksInv, MadeInOrder,
     TornDownInOrder, DiffIsConfirmed, RoomToUpdate, ClusterIsWhole
<1>14. CASE RequestUpgrade
  BY <1>14 DEF RequestUpgrade, Exit, GoTo, infra, pools, budget, Whole,
     Teardown, Phases, Desired, Listed, Versions, TypeOK, MksInv, MadeInOrder,
     TornDownInOrder, DiffIsConfirmed, RoomToUpdate, ClusterIsWhole
<1>15. CASE ClusterReady
  BY <1>15 DEF ClusterReady, GoTo, cloud, budget, Whole, Teardown, Phases,
     Desired, Listed, Versions, TypeOK, MksInv, MadeInOrder, TornDownInOrder,
     DiffIsConfirmed, RoomToUpdate, ClusterIsWhole
<1>16. CASE ClusterLost
  BY <1>16 DEF ClusterLost, Exit, cloud, budget, Whole, Teardown, Phases,
     Desired, Listed, Versions, TypeOK, MksInv, MadeInOrder, TornDownInOrder,
     DiffIsConfirmed, RoomToUpdate, ClusterIsWhole
<1>17. CASE ListPools
  BY <1>17 DEF ListPools, pools, cloud, budget, Listed, ImmutableDiff,
     MutableDiff, Whole, Teardown, Phases, Desired, Versions, TypeOK, MksInv,
     MadeInOrder, TornDownInOrder, DiffIsConfirmed, RoomToUpdate,
     ClusterIsWhole
<1>18. CASE Remake
  <2>1. /\ config.hash[target] \in Hashes \union {Absent}
        /\ config.count[target] \in CountsOf
    BY <1>18 DEF CountsOf, TypeOK, MksInv, DiffIsConfirmed, Remake
  <2>2. TypeOK'
    BY <1>18, <2>1 DEF Remake, infra, cluster, pools, budget, Make, Listed,
       Whole, Teardown, Phases, Desired, Versions, TypeOK, MksInv,
       DiffIsConfirmed
  <2>3. MksInv'
    BY <1>18, <2>1 DEF Remake, infra, cluster, pools, budget, Make, Listed,
       Whole, Teardown, Phases, Desired, Versions, TypeOK, MksInv,
       MadeInOrder, TornDownInOrder, DiffIsConfirmed, RoomToUpdate,
       ClusterIsWhole
  <2> QED
    BY <2>2, <2>3
<1>19. CASE PoolsDone
  BY <1>19 DEF PoolsDone, GoTo, pools, cloud, budget, Whole, Teardown, Phases,
     Desired, Listed, Versions, TypeOK, MksInv, MadeInOrder, TornDownInOrder,
     DiffIsConfirmed, RoomToUpdate, ClusterIsWhole
<1>20. CASE EnsureIngress
  BY <1>20 DEF EnsureIngress, GoTo, cluster, pools, budget, Whole, Teardown,
     Phases, Desired, Listed, Versions, TypeOK, MksInv, MadeInOrder,
     TornDownInOrder, DiffIsConfirmed, RoomToUpdate, ClusterIsWhole
<1>21. CASE EnsureFloatingIp
  BY <1>21 DEF EnsureFloatingIp, GoTo, cluster, pools, budget, Whole,
     Teardown, Phases, Desired, Listed, Versions, TypeOK, MksInv, MadeInOrder,
     TornDownInOrder, DiffIsConfirmed, RoomToUpdate, ClusterIsWhole
<1>22. CASE NoVipPort
  BY <1>22 DEF NoVipPort, Exit, cloud, budget, Whole, Teardown, Phases,
     Desired, Listed, Versions, TypeOK, MksInv, MadeInOrder, TornDownInOrder,
     DiffIsConfirmed, RoomToUpdate, ClusterIsWhole
<1>23. CASE Finish
  BY <1>23 DEF Finish, Exit, cloud, budget, Whole, Teardown, Phases, Desired,
     Listed, Versions, TypeOK, MksInv, MadeInOrder, TornDownInOrder,
     DiffIsConfirmed, RoomToUpdate, ClusterIsWhole
<1>24. CASE ConfirmDelete
  BY <1>24 DEF ConfirmDelete, GoTo, cloud, budget, Whole, Teardown, Phases,
     Desired, Listed, Versions, TypeOK, MksInv, MadeInOrder, TornDownInOrder,
     DiffIsConfirmed, RoomToUpdate, ClusterIsWhole
<1>25. CASE DeleteCluster
  BY <1>25 DEF DeleteCluster, GoTo, infra, pools, budget, Whole, Teardown,
     Phases, Desired, Listed, Versions, TypeOK, MksInv, MadeInOrder,
     TornDownInOrder, DiffIsConfirmed, RoomToUpdate, ClusterIsWhole
<1>26. CASE WaitClusterGone
  BY <1>26 DEF WaitClusterGone, GoTo, cloud, budget, Whole, Teardown, Phases,
     Desired, Listed, Versions, TypeOK, MksInv, MadeInOrder, TornDownInOrder,
     DiffIsConfirmed, RoomToUpdate, ClusterIsWhole
<1>27. CASE DeleteLoadBalancer
  BY <1>27 DEF DeleteLoadBalancer, GoTo, cluster, pools, budget, Whole,
     Teardown, Phases, Desired, Listed, Versions, TypeOK, MksInv, MadeInOrder,
     TornDownInOrder, DiffIsConfirmed, RoomToUpdate, ClusterIsWhole
<1>28. CASE WaitLbGone
  BY <1>28 DEF WaitLbGone, GoTo, cloud, budget, Whole, Teardown, Phases,
     Desired, Listed, Versions, TypeOK, MksInv, MadeInOrder, TornDownInOrder,
     DiffIsConfirmed, RoomToUpdate, ClusterIsWhole
<1>29. CASE ReleaseFloatingIp
  BY <1>29 DEF ReleaseFloatingIp, GoTo, cluster, pools, budget, Whole,
     Teardown, Phases, Desired, Listed, Versions, TypeOK, MksInv, MadeInOrder,
     TornDownInOrder, DiffIsConfirmed, RoomToUpdate, ClusterIsWhole
<1>30. CASE DetachGateway
  BY <1>30 DEF DetachGateway, GoTo, cluster, pools, budget, Whole, Teardown,
     Phases, Desired, Listed, Versions, TypeOK, MksInv, MadeInOrder,
     TornDownInOrder, DiffIsConfirmed, RoomToUpdate, ClusterIsWhole
<1>31. CASE DeleteRouter
  BY <1>31 DEF DeleteRouter, GoTo, cluster, pools, budget, Whole, Teardown,
     Phases, Desired, Listed, Versions, TypeOK, MksInv, MadeInOrder,
     TornDownInOrder, DiffIsConfirmed, RoomToUpdate, ClusterIsWhole
<1>32. CASE DeleteNetwork
  BY <1>32 DEF DeleteNetwork, GoTo, cluster, pools, budget, InUse, Whole,
     Teardown, Phases, Desired, Listed, Versions, TypeOK, MksInv, MadeInOrder,
     TornDownInOrder, DiffIsConfirmed, RoomToUpdate, ClusterIsWhole
<1>33. CASE NetworkInUse
  BY <1>33 DEF NetworkInUse, Exit, cloud, budget, InUse, Whole, Teardown,
     Phases, Desired, Listed, Versions, TypeOK, MksInv, MadeInOrder,
     TornDownInOrder, DiffIsConfirmed, RoomToUpdate, ClusterIsWhole
<1>34. CASE DeleteDone
  BY <1>34 DEF DeleteDone, Exit, cloud, budget, Whole, Teardown, Phases,
     Desired, Listed, Versions, TypeOK, MksInv, MadeInOrder, TornDownInOrder,
     DiffIsConfirmed, RoomToUpdate, ClusterIsWhole
<1>35. ASSUME NEW p \in Pools, DeletePool(p) \/ DeleteForReplace(p) \/ CreatePool(p)
                               \/ UpdatePool(p) \/ PoolRefused(p)
      PROVE  TypeOK' /\ MksInv'
  BY <1>35, PoolMks
<1> QED
  BY <1>1, <1>2, <1>3, <1>4, <1>5, <1>6, <1>7, <1>8, <1>9, <1>10, <1>11,
     <1>12, <1>13, <1>14, <1>15, <1>16, <1>17, <1>18, <1>19, <1>20, <1>21,
     <1>22, <1>23, <1>24, <1>25, <1>26, <1>27, <1>28, <1>29, <1>30, <1>31,
     <1>32, <1>33, <1>34, <1>35 DEF Progress

LEMMA NextMks == TypeOK /\ MksInv /\ [Next]_vars => TypeOK' /\ MksInv'
<1> SUFFICES ASSUME TypeOK, MksInv, [Next]_vars PROVE TypeOK' /\ MksInv'
  OBVIOUS
<1> USE MksAssumption
<1>1. CASE Progress
  BY <1>1, ProgressMks
<1>2. CASE Installed
  BY <1>2 DEF Installed, infra, pools, run, budget, Whole, Teardown, Phases,
     Desired, Listed, Versions, TypeOK, MksInv, MadeInOrder, TornDownInOrder,
     DiffIsConfirmed, RoomToUpdate, ClusterIsWhole
<1>3. CASE Updated
  BY <1>3 DEF Updated, infra, pools, run, budget, Whole, Teardown, Phases,
     Desired, Listed, Versions, TypeOK, MksInv, MadeInOrder, TornDownInOrder,
     DiffIsConfirmed, RoomToUpdate, ClusterIsWhole
<1>4. CASE ClusterVanishes
  <2>1. kubeNet' \in BOOLEAN
    BY <1>4, Zenon DEF ClusterVanishes
  <2>4. /\ made' \in [Pools -> Hashes \union {Absent}]
        /\ stamp' \in [Pools -> Hashes \union {Absent, NoHash}]
        /\ count' \in [Pools -> CountsOf]
    BY <1>4 DEF ClusterVanishes, CountsOf
  <2>2. TypeOK'
    BY <1>4, <2>1, <2>4 DEF ClusterVanishes, infra, run, budget, Whole,
       Teardown, Phases, Desired, Listed, Versions, TypeOK, MksInv,
       DiffIsConfirmed
  <2>3. MksInv'
    BY <1>4, <2>1, <2>4 DEF ClusterVanishes, infra, run, budget, Whole,
       Teardown, Phases, Desired, Listed, Versions, TypeOK, MksInv,
       MadeInOrder, TornDownInOrder, DiffIsConfirmed, RoomToUpdate,
       ClusterIsWhole
  <2> QED
    BY <2>2, <2>3
<1>5. CASE LbVanishes
  BY <1>5 DEF LbVanishes, cluster, pools, run, budget, Whole, Teardown,
     Phases, Desired, Listed, Versions, TypeOK, MksInv, MadeInOrder,
     TornDownInOrder, DiffIsConfirmed, RoomToUpdate, ClusterIsWhole
<1>6. ASSUME NEW p \in Pools, PoolVanishes(p) PROVE TypeOK' /\ MksInv'
  <2>1. /\ made' \in [Pools -> Hashes \union {Absent}]
        /\ stamp' \in [Pools -> Hashes \union {Absent, NoHash}]
        /\ count' \in [Pools -> CountsOf]
    BY <1>6 DEF PoolVanishes, TypeOK, CountsOf
  <2>2. TypeOK'
    BY <1>6, <2>1 DEF PoolVanishes, infra, cluster, run, budget, Whole,
       Teardown, Phases, Desired, Listed, Versions, TypeOK, MksInv,
       DiffIsConfirmed
  <2>3. MksInv'
    BY <1>6, <2>1 DEF PoolVanishes, infra, cluster, run, budget, Whole,
       Teardown, Phases, Desired, Listed, Versions, TypeOK, MksInv,
       MadeInOrder, TornDownInOrder, DiffIsConfirmed, RoomToUpdate,
       ClusterIsWhole
  <2> QED
    BY <2>2, <2>3
<1>7. ASSUME NEW yes \in BOOLEAN, ApplyPlan(yes) PROVE TypeOK' /\ MksInv'
  <2>1. NamesToReplace(PoolPlan) \subseteq Pools
    BY <1>7 DEF NamesToReplace, PoolPlan, ApplyPlan
  <2>4. /\ replace' \subseteq Pools \union {ControlPlane}
        /\ pc' \in {"start", "confirm"}
    BY <1>7, <2>1 DEF ApplyPlan
  <2>2. TypeOK'
    BY <1>7, <2>1, <2>4 DEF ApplyPlan, cloud, diff, budget, Whole, Teardown,
       Phases, Desired, Listed, Versions, TypeOK, MksInv, DiffIsConfirmed
  <2>3. MksInv'
    BY <1>7, <2>1, <2>4 DEF ApplyPlan, cloud, diff, budget, Whole, Teardown,
       Phases, Desired, Listed, Versions, TypeOK, MksInv, MadeInOrder,
       TornDownInOrder, DiffIsConfirmed, RoomToUpdate, ClusterIsWhole
  <2> QED
    BY <2>2, <2>3
<1>8. ASSUME NEW yes \in BOOLEAN, DeletePlan(yes) PROVE TypeOK' /\ MksInv'
  BY <1>8 DEF DeletePlan, GoTo, cloud, Whole, Teardown, Phases, Desired,
     Listed, Versions, TypeOK, MksInv, MadeInOrder, TornDownInOrder,
     DiffIsConfirmed, RoomToUpdate, ClusterIsWhole
<1>9. ASSUME NEW p \in Pools, NEW h \in Hashes, MadeByHand(p, h) PROVE TypeOK' /\ MksInv'
  BY <1>9 DEF MadeByHand, infra, cluster, run, Listed, Whole, Teardown,
     Phases, Desired, Versions, TypeOK, MksInv, MadeInOrder, TornDownInOrder,
     DiffIsConfirmed, RoomToUpdate, ClusterIsWhole
<1>10. CASE Decline
  BY <1>10 DEF Decline, Exit, cloud, budget, Whole, Teardown, Phases, Desired,
     Listed, Versions, TypeOK, MksInv, MadeInOrder, TornDownInOrder,
     DiffIsConfirmed, RoomToUpdate, ClusterIsWhole
<1>11. CASE EditConfig
  BY <1>11 DEF EditConfig, cloud, run, Whole, Teardown, Phases, Desired,
     Listed, Versions, TypeOK, MksInv, MadeInOrder, TornDownInOrder,
     DiffIsConfirmed, RoomToUpdate, ClusterIsWhole
<1>12. CASE UpgradeCommand
  BY <1>12 DEF UpgradeCommand, GoTo, cloud, Whole, Teardown, Phases, Desired,
     Listed, Versions, TypeOK, MksInv, MadeInOrder, TornDownInOrder,
     DiffIsConfirmed, RoomToUpdate, ClusterIsWhole
<1>13. CASE Fail
  BY <1>13 DEF Fail, Exit, cloud, Whole, Teardown, Phases, Desired, Listed,
     Versions, TypeOK, MksInv, MadeInOrder, TornDownInOrder, DiffIsConfirmed,
     RoomToUpdate, ClusterIsWhole
<1>14. CASE ClusterMadeByHand
  <2>1. kubeNet' \in BOOLEAN
    BY <1>14, Zenon DEF ClusterMadeByHand
  <2>2. TypeOK'
    BY <1>14, <2>1 DEF ClusterMadeByHand, infra, pools, run, Whole, Teardown,
       Phases, Desired, Listed, Versions, TypeOK, MksInv, DiffIsConfirmed
  <2>3. MksInv'
    BY <1>14, <2>1 DEF ClusterMadeByHand, infra, pools, run, Whole, Teardown,
       Phases, Desired, Listed, Versions, TypeOK, MksInv, MadeInOrder,
       TornDownInOrder, DiffIsConfirmed, RoomToUpdate, ClusterIsWhole
  <2> QED
    BY <2>2, <2>3
<1>15. CASE ServiceBalancer
  BY <1>15 DEF ServiceBalancer, cluster, pools, run, Whole, Teardown, Phases,
     Desired, Listed, Versions, TypeOK, MksInv, MadeInOrder, TornDownInOrder,
     DiffIsConfirmed, RoomToUpdate, ClusterIsWhole
<1>16. CASE ServiceBalancerGone
  <2>1. ports' \in BOOLEAN
    BY <1>16, Zenon DEF ServiceBalancerGone
  <2>2. TypeOK'
    BY <1>16, <2>1 DEF ServiceBalancerGone, cluster, pools, run, budget,
       Whole, Teardown, Phases, Desired, Listed, Versions, TypeOK, MksInv,
       DiffIsConfirmed
  <2>3. MksInv'
    BY <1>16, <2>1 DEF ServiceBalancerGone, cluster, pools, run, budget,
       Whole, Teardown, Phases, Desired, Listed, Versions, TypeOK, MksInv,
       MadeInOrder, TornDownInOrder, DiffIsConfirmed, RoomToUpdate,
       ClusterIsWhole
  <2> QED
    BY <2>2, <2>3
<1>17. CASE UNCHANGED vars
  BY <1>17 DEF vars, Whole, Teardown, Phases, Desired, Listed, Versions,
     TypeOK, MksInv, MadeInOrder, TornDownInOrder, DiffIsConfirmed,
     RoomToUpdate, ClusterIsWhole
<1> QED
  BY <1>1, <1>2, <1>3, <1>4, <1>5, <1>6, <1>7, <1>8, <1>9, <1>10, <1>11,
     <1>12, <1>13, <1>14, <1>15, <1>16, <1>17 DEF Next, Settle

-----------------------------------------------------------------------------
LEMMA MksInvariant == Spec => [](TypeOK /\ MksInv)
<1>1. Init => TypeOK /\ MksInv
  BY InitMks
<1>2. (TypeOK /\ MksInv) /\ [Next]_vars => (TypeOK /\ MksInv)'
  BY NextMks
<1> QED
  BY <1>1, <1>2, PTL DEF Spec

\* Every variable of the model keeps its type.
THEOREM MksTypes == Spec => []TypeOK
BY MksInvariant, PTL

\* A cluster on the private network always has the network and both subnets.
THEOREM MksClusterIsWhole == Spec => []ClusterIsWhole
<1>1. TypeOK /\ MksInv => ClusterIsWhole
  BY DEF MksInv, MadeInOrder
<1> QED
  BY <1>1, MksInvariant, PTL

\* No pool of the config is deleted unless its replacement was confirmed.
THEOREM MksOnlyConfirmedReplaced == Spec => OnlyConfirmedReplaced
<1>1. ASSUME TypeOK, MksInv, [Next]_vars
      PROVE  [\A p \in (leaving' \ leaving) \intersect Desired : p \in replace]_vars
  <2> SUFFICES ASSUME Next, NEW p \in (leaving' \ leaving) \intersect Desired
               PROVE  p \in replace
    BY <1>1
  <2>1. ASSUME NEW q \in Pools, DeletePool(q) PROVE p \in replace
    BY <1>1, <2>1 DEF DeletePool, MksInv, DiffIsConfirmed
  <2>2. ASSUME NEW q \in Pools, DeleteForReplace(q) PROVE p \in replace
    BY <1>1, <2>2 DEF DeleteForReplace, MksInv, DiffIsConfirmed
  <2>3. ASSUME ~ \E q \in Pools : DeletePool(q) \/ DeleteForReplace(q) PROVE FALSE
    BY <1>1, <2>3 DEF Next, Progress, Settle, Confirm, RefuseControlPlane,
       Start, RefuseDrift, NoDrift, EnsureNetworkId, CreateNodesSubnet,
       CreateBalancersSubnet, AdoptNetwork, NoSubnetIds, EnsureGateway,
       CreateCluster, FindCluster, RequestUpgrade, ClusterReady, ClusterLost,
       ListPools, Remake, PoolsDone, EnsureIngress, EnsureFloatingIp,
       NoVipPort, Finish, ConfirmDelete, DeleteCluster, WaitClusterGone,
       DeleteLoadBalancer, WaitLbGone, ReleaseFloatingIp, DetachGateway,
       DeleteRouter, DeleteNetwork, NetworkInUse, DeleteDone, CreatePool,
       UpdatePool, PoolRefused, Installed, Updated, ClusterVanishes,
       LbVanishes, PoolVanishes, ApplyPlan, DeletePlan, MadeByHand, Decline,
       EditConfig, UpgradeCommand, Fail, ClusterMadeByHand, ServiceBalancer,
       ServiceBalancerGone, Exit, GoTo, infra, cluster, pools, cloud, diff,
       run, budget, Make
  <2> QED
    BY <2>1, <2>2, <2>3
<1> QED
  BY <1>1, MksInvariant, PTL DEF Spec, OnlyConfirmedReplaced

\* The gateway and the network go only after the cluster and the balancer.
THEOREM MksNothingUndercut == Spec => NothingUndercut
<1>1. ASSUME TypeOK, MksInv, [Next]_vars
      PROVE  [(gateway = "attached" /\ gateway' # "attached") \/ ~(network \subseteq network')
                => kube = "none" /\ lb = "none"]_vars
  <2> SUFFICES ASSUME Next,
                      (gateway = "attached" /\ gateway' # "attached") \/ ~(network \subseteq network')
               PROVE  kube = "none" /\ lb = "none"
    BY <1>1
  <2>1. CASE DetachGateway
    BY <1>1, <2>1 DEF DetachGateway, MksInv, TornDownInOrder, Teardown
  <2>2. CASE DeleteRouter
    BY <1>1, <2>2 DEF DeleteRouter, MksInv, TornDownInOrder, Teardown
  <2>3. CASE DeleteNetwork
    BY <1>1, <2>3 DEF DeleteNetwork, MksInv, TornDownInOrder, Teardown
  <2>4. ASSUME ~DetachGateway, ~DeleteRouter, ~DeleteNetwork PROVE FALSE
    BY <1>1, <2>4 DEF Next, Progress, Settle, Confirm, RefuseControlPlane,
       Start, RefuseDrift, NoDrift, EnsureNetworkId, CreateNodesSubnet,
       CreateBalancersSubnet, AdoptNetwork, NoSubnetIds, EnsureGateway,
       CreateCluster, FindCluster, RequestUpgrade, ClusterReady, ClusterLost,
       ListPools, Remake, PoolsDone, EnsureIngress, EnsureFloatingIp,
       NoVipPort, Finish, ConfirmDelete, DeleteCluster, WaitClusterGone,
       DeleteLoadBalancer, WaitLbGone, ReleaseFloatingIp, NetworkInUse,
       DeleteDone, DeletePool, DeleteForReplace, CreatePool, UpdatePool,
       PoolRefused, Installed, Updated, ClusterVanishes, LbVanishes,
       PoolVanishes, ApplyPlan, DeletePlan, MadeByHand, Decline, EditConfig,
       UpgradeCommand, Fail, ClusterMadeByHand, ServiceBalancer,
       ServiceBalancerGone, Exit, GoTo, infra, cluster, pools, cloud, diff,
       run, budget, Make
  <2> QED
    BY <2>1, <2>2, <2>3, <2>4
<1> QED
  BY <1>1, MksInvariant, PTL DEF Spec, NothingUndercut

\* A delete that reports success has left nothing behind.
THEOREM MksDeletedLeavesNothing == Spec => DeletedLeavesNothing
<1>1. ASSUME TypeOK, MksInv
      PROVE  DeleteDone => /\ kube = "none"
                           /\ config.private => network = {} /\ lb = "none" /\ fip = "none"
                                                /\ gateway = "none"
  BY <1>1 DEF DeleteDone, MksInv, TornDownInOrder
<1> QED
  BY <1>1, MksInvariant, PTL DEF Spec, DeletedLeavesNothing

-----------------------------------------------------------------------------
(* The same for what an apply may count on when it reports success.         *)

\* The phases after which the cluster is up, and those of an apply.
Up == {"list", "pools", "gone", "ingress", "fip", "records"}
Applying == {"confirm", "start", "drift", "net", "nodes", "balancers", "gateway",
             "find", "upgrade", "ready"} \union Up

ClusterAsAsked ==
  /\ pc = "upgrade" /\ kube # "none" =>
       kubeNet = config.private /\ version + 1 >= config.version
  /\ pc = "ready" /\ kube # "none" =>
       /\ kubeNet = config.private
       /\ version >= config.version \/ (kube = "UPDATING" /\ version + 1 >= config.version)
  /\ pc \in Up => kube = "READY" /\ kubeNet = config.private /\ version >= config.version
  /\ pc \in {"find", "upgrade", "ready"} \union Up /\ config.private => gateway # "none"
  /\ pc = "records" /\ config.ingress /\ lb = "up" => fip = "attached"

\* A pool is stamped with what it is made of, or not at all.
StampTells == \A p \in Pools : /\ stamp[p] \in {NoHash, made[p]}
                               /\ stamp[p] = Absent <=> made[p] = Absent

\* Since the plan: a stamped pool of another spec is confirmed, or going.
PlanHolds ==
  pc \in Applying => \A p \in Desired \intersect Listed :
    stamp[p] \in {NoHash, config.hash[p]} \/ p \in leaving \/ p \in replace

\* Since the diff: what is not as asked is still to be done.
DiffCovers ==
  pc \in Up \ {"list"} =>
    /\ \A p \in Listed : p \in Desired \union leaving \union toDelete \/ stamp[p] = NoHash
    /\ \A p \in Desired \intersect Listed :
         \/ p \in leaving \union toReplace
         \/ stamp[p] = NoHash
         \/ made[p] = config.hash[p] /\ (count[p] = config.count[p] \/ p \in toUpdate)

AsAsked == ClusterAsAsked /\ StampTells /\ PlanHolds /\ DiffCovers

LEMMA InitAsked == Init => AsAsked
BY DEF Init, AsAsked, ClusterAsAsked, StampTells, PlanHolds, DiffCovers, Up, Applying

\* The requests about one pool.
LEMMA PoolAsked ==
  ASSUME TypeOK, MksInv, AsAsked, NEW p \in Pools,
         DeletePool(p) \/ DeleteForReplace(p) \/ CreatePool(p) \/ UpdatePool(p) \/ PoolRefused(p)
  PROVE  AsAsked'
<1> USE MksAssumption
<1>1. CASE DeletePool(p)
  BY <1>1 DEF DeletePool, infra, cluster, pools, budget, Listed, Desired, Up,
     Applying, TypeOK, MksInv, DiffIsConfirmed, AsAsked, ClusterAsAsked,
     StampTells, PlanHolds, DiffCovers
<1>2. CASE DeleteForReplace(p)
  BY <1>2 DEF DeleteForReplace, infra, cluster, pools, budget, Listed,
     Desired, Up, Applying, TypeOK, MksInv, DiffIsConfirmed, AsAsked,
     ClusterAsAsked, StampTells, PlanHolds, DiffCovers
<1>3. CASE CreatePool(p)
  BY <1>3 DEF CreatePool, infra, cluster, pools, budget, Make, Listed,
     Desired, Up, Applying, TypeOK, MksInv, DiffIsConfirmed, AsAsked,
     ClusterAsAsked, StampTells, PlanHolds, DiffCovers
<1>4. CASE UpdatePool(p)
  BY <1>4 DEF UpdatePool, infra, cluster, pools, budget, Listed, Desired, Up,
     Applying, TypeOK, MksInv, DiffIsConfirmed, AsAsked, ClusterAsAsked,
     StampTells, PlanHolds, DiffCovers
<1>5. CASE PoolRefused(p)
  BY <1>5 DEF PoolRefused, Exit, pools, cloud, budget, Listed, Desired, Up,
     Applying, TypeOK, MksInv, DiffIsConfirmed, AsAsked, ClusterAsAsked,
     StampTells, PlanHolds, DiffCovers
<1> QED
  BY <1>1, <1>2, <1>3, <1>4, <1>5

\* The steps of the process but those.
LEMMA ProgressAsked ==
  ASSUME TypeOK, MksInv, AsAsked, Progress
  PROVE  AsAsked'
<1> USE MksAssumption
<1>1. CASE Confirm
  BY <1>1 DEF Confirm, GoTo, cloud, budget, Desired, Listed, Up, Applying,
     TypeOK, MksInv, DiffIsConfirmed, AsAsked, ClusterAsAsked, StampTells,
     PlanHolds, DiffCovers
<1>2. CASE RefuseControlPlane
  BY <1>2 DEF RefuseControlPlane, Exit, cloud, budget, Desired, Listed, Up,
     Applying, TypeOK, MksInv, DiffIsConfirmed, AsAsked, ClusterAsAsked,
     StampTells, PlanHolds, DiffCovers
<1>3. CASE Start
  BY <1>3 DEF Start, GoTo, cloud, budget, Desired, Listed, Up, Applying,
     TypeOK, MksInv, DiffIsConfirmed, AsAsked, ClusterAsAsked, StampTells,
     PlanHolds, DiffCovers
<1>4. CASE RefuseDrift
  BY <1>4 DEF RefuseDrift, Exit, cloud, budget, Desired, Listed, Up, Applying,
     TypeOK, MksInv, DiffIsConfirmed, AsAsked, ClusterAsAsked, StampTells,
     PlanHolds, DiffCovers
<1>5. CASE NoDrift
  BY <1>5 DEF NoDrift, GoTo, cloud, budget, Desired, Listed, Up, Applying,
     TypeOK, MksInv, DiffIsConfirmed, AsAsked, ClusterAsAsked, StampTells,
     PlanHolds, DiffCovers
<1>6. CASE EnsureNetworkId
  BY <1>6 DEF EnsureNetworkId, GoTo, cluster, pools, budget, Desired, Listed,
     Up, Applying, TypeOK, MksInv, DiffIsConfirmed, AsAsked, ClusterAsAsked,
     StampTells, PlanHolds, DiffCovers
<1>7. CASE CreateNodesSubnet
  BY <1>7 DEF CreateNodesSubnet, GoTo, cluster, pools, budget, Desired,
     Listed, Up, Applying, TypeOK, MksInv, DiffIsConfirmed, AsAsked,
     ClusterAsAsked, StampTells, PlanHolds, DiffCovers
<1>8. CASE CreateBalancersSubnet
  BY <1>8 DEF CreateBalancersSubnet, GoTo, cluster, pools, budget, Desired,
     Listed, Up, Applying, TypeOK, MksInv, DiffIsConfirmed, AsAsked,
     ClusterAsAsked, StampTells, PlanHolds, DiffCovers
<1>9. CASE AdoptNetwork
  BY <1>9 DEF AdoptNetwork, GoTo, cloud, budget, HasSubnetIds, Desired,
     Listed, Up, Applying, TypeOK, MksInv, DiffIsConfirmed, AsAsked,
     ClusterAsAsked, StampTells, PlanHolds, DiffCovers
<1>10. CASE NoSubnetIds
  BY <1>10 DEF NoSubnetIds, Exit, cloud, budget, HasSubnetIds, Desired,
     Listed, Up, Applying, TypeOK, MksInv, DiffIsConfirmed, AsAsked,
     ClusterAsAsked, StampTells, PlanHolds, DiffCovers
<1>11. CASE EnsureGateway
  BY <1>11 DEF EnsureGateway, GoTo, cluster, pools, budget, Desired, Listed,
     Up, Applying, TypeOK, MksInv, DiffIsConfirmed, AsAsked, ClusterAsAsked,
     StampTells, PlanHolds, DiffCovers
<1>12. CASE CreateCluster
  <2>1. ClusterAsAsked'
    BY <1>12 DEF CreateCluster, GoTo, infra, pools, budget, Desired, Listed,
       Versions, AsAsked, ClusterAsAsked, Up, Applying, TypeOK, MksInv,
       DiffIsConfirmed
  <2>2. StampTells'
    BY <1>12 DEF CreateCluster, GoTo, infra, pools, budget, Desired, Listed,
       Versions, AsAsked, StampTells, Up, Applying, TypeOK, MksInv,
       DiffIsConfirmed
  <2>3. PlanHolds'
    BY <1>12 DEF CreateCluster, GoTo, infra, pools, budget, Desired, Listed,
       Versions, AsAsked, PlanHolds, Up, Applying, TypeOK, MksInv,
       DiffIsConfirmed, StampTells
  <2>4. DiffCovers'
    BY <1>12 DEF CreateCluster, GoTo, infra, pools, budget, Desired, Listed,
       Versions, AsAsked, DiffCovers, Up, Applying, TypeOK, MksInv,
       DiffIsConfirmed, ClusterAsAsked, StampTells, PlanHolds
  <2> QED
    BY <2>1, <2>2, <2>3, <2>4 DEF AsAsked
<1>13. CASE FindCluster
  <2>1. ClusterAsAsked'
    BY <1>13 DEF FindCluster, Exit, GoTo, cloud, budget, ClusterDrift,
       Desired, Listed, Versions, AsAsked, ClusterAsAsked, Up, Applying,
       TypeOK, MksInv, DiffIsConfirmed
  <2>2. StampTells'
    BY <1>13 DEF FindCluster, Exit, GoTo, cloud, budget, ClusterDrift,
       Desired, Listed, Versions, AsAsked, StampTells, Up, Applying, TypeOK,
       MksInv, DiffIsConfirmed
  <2>3. PlanHolds'
    BY <1>13 DEF FindCluster, Exit, GoTo, cloud, budget, ClusterDrift,
       Desired, Listed, Versions, AsAsked, PlanHolds, Up, Applying, TypeOK,
       MksInv, DiffIsConfirmed, StampTells
  <2>4. DiffCovers'
    BY <1>13 DEF FindCluster, Exit, GoTo, cloud, budget, ClusterDrift,
       Desired, Listed, Versions, AsAsked, DiffCovers, Up, Applying, TypeOK,
       MksInv, DiffIsConfirmed, ClusterAsAsked, StampTells, PlanHolds
  <2> QED
    BY <2>1, <2>2, <2>3, <2>4 DEF AsAsked
<1>14. CASE RequestUpgrade
  BY <1>14 DEF RequestUpgrade, Exit, GoTo, infra, pools, budget, Desired,
     Listed, Up, Applying, TypeOK, MksInv, DiffIsConfirmed, AsAsked,
     ClusterAsAsked, StampTells, PlanHolds, DiffCovers
<1>15. CASE ClusterReady
  BY <1>15 DEF ClusterReady, GoTo, cloud, budget, Desired, Listed, Up,
     Applying, TypeOK, MksInv, DiffIsConfirmed, AsAsked, ClusterAsAsked,
     StampTells, PlanHolds, DiffCovers
<1>16. CASE ClusterLost
  BY <1>16 DEF ClusterLost, Exit, cloud, budget, Desired, Listed, Up,
     Applying, TypeOK, MksInv, DiffIsConfirmed, AsAsked, ClusterAsAsked,
     StampTells, PlanHolds, DiffCovers
<1>17. CASE ListPools
  BY <1>17 DEF ListPools, pools, cloud, budget, Listed, ImmutableDiff,
     MutableDiff, Desired, Up, Applying, TypeOK, MksInv, DiffIsConfirmed,
     AsAsked, ClusterAsAsked, StampTells, PlanHolds, DiffCovers
<1>18. CASE Remake
  BY <1>18 DEF Remake, infra, cluster, pools, budget, Make, Listed, Desired,
     Up, Applying, TypeOK, MksInv, DiffIsConfirmed, AsAsked, ClusterAsAsked,
     StampTells, PlanHolds, DiffCovers
<1>19. CASE PoolsDone
  BY <1>19 DEF PoolsDone, GoTo, pools, cloud, budget, Desired, Listed, Up,
     Applying, TypeOK, MksInv, DiffIsConfirmed, AsAsked, ClusterAsAsked,
     StampTells, PlanHolds, DiffCovers
<1>20. CASE EnsureIngress
  BY <1>20 DEF EnsureIngress, GoTo, cluster, pools, budget, Desired, Listed,
     Up, Applying, TypeOK, MksInv, DiffIsConfirmed, AsAsked, ClusterAsAsked,
     StampTells, PlanHolds, DiffCovers
<1>21. CASE EnsureFloatingIp
  BY <1>21 DEF EnsureFloatingIp, GoTo, cluster, pools, budget, Desired,
     Listed, Up, Applying, TypeOK, MksInv, DiffIsConfirmed, AsAsked,
     ClusterAsAsked, StampTells, PlanHolds, DiffCovers
<1>22. CASE NoVipPort
  BY <1>22 DEF NoVipPort, Exit, cloud, budget, Desired, Listed, Up, Applying,
     TypeOK, MksInv, DiffIsConfirmed, AsAsked, ClusterAsAsked, StampTells,
     PlanHolds, DiffCovers
<1>23. CASE Finish
  BY <1>23 DEF Finish, Exit, cloud, budget, Desired, Listed, Up, Applying,
     TypeOK, MksInv, DiffIsConfirmed, AsAsked, ClusterAsAsked, StampTells,
     PlanHolds, DiffCovers
<1>24. CASE ConfirmDelete
  BY <1>24 DEF ConfirmDelete, GoTo, cloud, budget, Desired, Listed, Up,
     Applying, TypeOK, MksInv, DiffIsConfirmed, AsAsked, ClusterAsAsked,
     StampTells, PlanHolds, DiffCovers
<1>25. CASE DeleteCluster
  BY <1>25 DEF DeleteCluster, GoTo, infra, pools, budget, Desired, Listed, Up,
     Applying, TypeOK, MksInv, DiffIsConfirmed, AsAsked, ClusterAsAsked,
     StampTells, PlanHolds, DiffCovers
<1>26. CASE WaitClusterGone
  BY <1>26 DEF WaitClusterGone, GoTo, cloud, budget, Desired, Listed, Up,
     Applying, TypeOK, MksInv, DiffIsConfirmed, AsAsked, ClusterAsAsked,
     StampTells, PlanHolds, DiffCovers
<1>27. CASE DeleteLoadBalancer
  BY <1>27 DEF DeleteLoadBalancer, GoTo, cluster, pools, budget, Desired,
     Listed, Up, Applying, TypeOK, MksInv, DiffIsConfirmed, AsAsked,
     ClusterAsAsked, StampTells, PlanHolds, DiffCovers
<1>28. CASE WaitLbGone
  BY <1>28 DEF WaitLbGone, GoTo, cloud, budget, Desired, Listed, Up, Applying,
     TypeOK, MksInv, DiffIsConfirmed, AsAsked, ClusterAsAsked, StampTells,
     PlanHolds, DiffCovers
<1>29. CASE ReleaseFloatingIp
  BY <1>29 DEF ReleaseFloatingIp, GoTo, cluster, pools, budget, Desired,
     Listed, Up, Applying, TypeOK, MksInv, DiffIsConfirmed, AsAsked,
     ClusterAsAsked, StampTells, PlanHolds, DiffCovers
<1>30. CASE DetachGateway
  BY <1>30 DEF DetachGateway, GoTo, cluster, pools, budget, Desired, Listed,
     Up, Applying, TypeOK, MksInv, DiffIsConfirmed, AsAsked, ClusterAsAsked,
     StampTells, PlanHolds, DiffCovers
<1>31. CASE DeleteRouter
  BY <1>31 DEF DeleteRouter, GoTo, cluster, pools, budget, Desired, Listed,
     Up, Applying, TypeOK, MksInv, DiffIsConfirmed, AsAsked, ClusterAsAsked,
     StampTells, PlanHolds, DiffCovers
<1>32. CASE DeleteNetwork
  BY <1>32 DEF DeleteNetwork, GoTo, cluster, pools, budget, InUse, Desired,
     Listed, Up, Applying, TypeOK, MksInv, DiffIsConfirmed, AsAsked,
     ClusterAsAsked, StampTells, PlanHolds, DiffCovers
<1>33. CASE NetworkInUse
  BY <1>33 DEF NetworkInUse, Exit, cloud, budget, InUse, Desired, Listed, Up,
     Applying, TypeOK, MksInv, DiffIsConfirmed, AsAsked, ClusterAsAsked,
     StampTells, PlanHolds, DiffCovers
<1>34. CASE DeleteDone
  BY <1>34 DEF DeleteDone, Exit, cloud, budget, Desired, Listed, Up, Applying,
     TypeOK, MksInv, DiffIsConfirmed, AsAsked, ClusterAsAsked, StampTells,
     PlanHolds, DiffCovers
<1>35. ASSUME NEW p \in Pools, DeletePool(p) \/ DeleteForReplace(p) \/ CreatePool(p)
                               \/ UpdatePool(p) \/ PoolRefused(p)
      PROVE  AsAsked'
  BY <1>35, PoolAsked
<1> QED
  BY <1>1, <1>2, <1>3, <1>4, <1>5, <1>6, <1>7, <1>8, <1>9, <1>10, <1>11,
     <1>12, <1>13, <1>14, <1>15, <1>16, <1>17, <1>18, <1>19, <1>20, <1>21,
     <1>22, <1>23, <1>24, <1>25, <1>26, <1>27, <1>28, <1>29, <1>30, <1>31,
     <1>32, <1>33, <1>34, <1>35 DEF Progress

LEMMA NextAsked == TypeOK /\ MksInv /\ AsAsked /\ [Next]_vars => AsAsked'
<1> SUFFICES ASSUME TypeOK, MksInv, AsAsked, [Next]_vars PROVE AsAsked'
  OBVIOUS
<1> USE MksAssumption
<1>1. CASE Progress
  BY <1>1, ProgressAsked
<1>2. CASE Installed
  BY <1>2 DEF Installed, infra, pools, run, budget, Desired, Listed, Up,
     Applying, TypeOK, MksInv, DiffIsConfirmed, AsAsked, ClusterAsAsked,
     StampTells, PlanHolds, DiffCovers
<1>3. CASE Updated
  <2>1. ClusterAsAsked'
    BY <1>3 DEF Updated, infra, pools, run, budget, Desired, Listed, Versions,
       AsAsked, ClusterAsAsked, Up, Applying, TypeOK, MksInv, DiffIsConfirmed
  <2>2. StampTells'
    BY <1>3 DEF Updated, infra, pools, run, budget, Desired, Listed, Versions,
       AsAsked, StampTells, Up, Applying, TypeOK, MksInv, DiffIsConfirmed
  <2>3. PlanHolds'
    BY <1>3 DEF Updated, infra, pools, run, budget, Desired, Listed, Versions,
       AsAsked, PlanHolds, Up, Applying, TypeOK, MksInv, DiffIsConfirmed,
       StampTells
  <2>4. DiffCovers'
    BY <1>3 DEF Updated, infra, pools, run, budget, Desired, Listed, Versions,
       AsAsked, DiffCovers, Up, Applying, TypeOK, MksInv, DiffIsConfirmed,
       ClusterAsAsked, StampTells, PlanHolds
  <2> QED
    BY <2>1, <2>2, <2>3, <2>4 DEF AsAsked
<1>4. CASE ClusterVanishes
  BY <1>4 DEF ClusterVanishes, infra, run, budget, Desired, Listed, Up,
     Applying, TypeOK, MksInv, DiffIsConfirmed, AsAsked, ClusterAsAsked,
     StampTells, PlanHolds, DiffCovers
<1>5. CASE LbVanishes
  BY <1>5 DEF LbVanishes, cluster, pools, run, budget, Desired, Listed, Up,
     Applying, TypeOK, MksInv, DiffIsConfirmed, AsAsked, ClusterAsAsked,
     StampTells, PlanHolds, DiffCovers
<1>6. ASSUME NEW p \in Pools, PoolVanishes(p) PROVE AsAsked'
  BY <1>6 DEF PoolVanishes, infra, cluster, run, budget, Desired, Listed, Up,
     Applying, TypeOK, MksInv, DiffIsConfirmed, AsAsked, ClusterAsAsked,
     StampTells, PlanHolds, DiffCovers
<1>7. ASSUME NEW yes \in BOOLEAN, ApplyPlan(yes) PROVE AsAsked'
  BY <1>7 DEF ApplyPlan, cloud, diff, budget, PoolPlan, Desired, Listed,
     NamesToReplace, PoolAction, ActionFor, Up, Applying, TypeOK, MksInv,
     DiffIsConfirmed, AsAsked, ClusterAsAsked, StampTells, PlanHolds,
     DiffCovers
<1>8. ASSUME NEW yes \in BOOLEAN, DeletePlan(yes) PROVE AsAsked'
  BY <1>8 DEF DeletePlan, GoTo, cloud, Desired, Listed, Up, Applying, TypeOK,
     MksInv, DiffIsConfirmed, AsAsked, ClusterAsAsked, StampTells, PlanHolds,
     DiffCovers
<1>9. ASSUME NEW p \in Pools, NEW h \in Hashes, MadeByHand(p, h) PROVE AsAsked'
  <2>1. ClusterAsAsked'
    BY <1>9 DEF MadeByHand, infra, cluster, run, Listed, Desired, Versions,
       AsAsked, ClusterAsAsked, Up, Applying, TypeOK, MksInv, DiffIsConfirmed
  <2>2. StampTells'
    BY <1>9 DEF MadeByHand, infra, cluster, run, Listed, Desired, Versions,
       AsAsked, StampTells, Up, Applying, TypeOK, MksInv, DiffIsConfirmed,
       Absent, NoHash
  <2>3. PlanHolds'
    BY <1>9 DEF MadeByHand, infra, cluster, run, Listed, Desired, Versions,
       AsAsked, PlanHolds, Up, Applying, TypeOK, MksInv, DiffIsConfirmed,
       StampTells
  <2>4. DiffCovers'
    BY <1>9 DEF MadeByHand, infra, cluster, run, Listed, Desired, Versions,
       AsAsked, DiffCovers, Up, Applying, TypeOK, MksInv, DiffIsConfirmed,
       ClusterAsAsked, StampTells, PlanHolds
  <2> QED
    BY <2>1, <2>2, <2>3, <2>4 DEF AsAsked
<1>10. CASE Decline
  BY <1>10 DEF Decline, Exit, cloud, budget, Desired, Listed, Up, Applying,
     TypeOK, MksInv, DiffIsConfirmed, AsAsked, ClusterAsAsked, StampTells,
     PlanHolds, DiffCovers
<1>11. CASE EditConfig
  BY <1>11 DEF EditConfig, cloud, run, Desired, Listed, Up, Applying, TypeOK,
     MksInv, DiffIsConfirmed, AsAsked, ClusterAsAsked, StampTells, PlanHolds,
     DiffCovers
<1>12. CASE UpgradeCommand
  BY <1>12 DEF UpgradeCommand, GoTo, cloud, Desired, Listed, Up, Applying,
     TypeOK, MksInv, DiffIsConfirmed, AsAsked, ClusterAsAsked, StampTells,
     PlanHolds, DiffCovers
<1>13. CASE Fail
  BY <1>13 DEF Fail, Exit, cloud, Desired, Listed, Up, Applying, TypeOK,
     MksInv, DiffIsConfirmed, AsAsked, ClusterAsAsked, StampTells, PlanHolds,
     DiffCovers
<1>14. CASE ClusterMadeByHand
  BY <1>14 DEF ClusterMadeByHand, infra, pools, run, Desired, Listed, Up,
     Applying, TypeOK, MksInv, DiffIsConfirmed, AsAsked, ClusterAsAsked,
     StampTells, PlanHolds, DiffCovers
<1>15. CASE ServiceBalancer
  BY <1>15 DEF ServiceBalancer, cluster, pools, run, Desired, Listed, Up,
     Applying, TypeOK, MksInv, DiffIsConfirmed, AsAsked, ClusterAsAsked,
     StampTells, PlanHolds, DiffCovers
<1>16. CASE ServiceBalancerGone
  BY <1>16 DEF ServiceBalancerGone, cluster, pools, run, budget, Desired,
     Listed, Up, Applying, TypeOK, MksInv, DiffIsConfirmed, AsAsked,
     ClusterAsAsked, StampTells, PlanHolds, DiffCovers
<1>17. CASE UNCHANGED vars
  BY <1>17 DEF vars, Desired, Listed, Up, Applying, AsAsked, ClusterAsAsked,
     StampTells, PlanHolds, DiffCovers
<1> QED
  BY <1>1, <1>2, <1>3, <1>4, <1>5, <1>6, <1>7, <1>8, <1>9, <1>10, <1>11,
     <1>12, <1>13, <1>14, <1>15, <1>16, <1>17 DEF Next, Settle

\* An apply that reports success leaves the cluster and its pools as asked.
THEOREM MksSuccessIsDesired == Spec => SuccessIsDesired
<1>1. Init => TypeOK /\ MksInv /\ AsAsked
  BY InitMks, InitAsked
<1>2. (TypeOK /\ MksInv /\ AsAsked) /\ [Next]_vars => (TypeOK /\ MksInv /\ AsAsked)'
  BY NextMks, NextAsked
<1>3. ASSUME TypeOK, MksInv, AsAsked
      PROVE  Finish =>
               /\ kube = "READY" /\ kubeNet = config.private /\ version >= config.version
               /\ config.private => gateway # "none"
               /\ config.ingress /\ lb = "up" => fip = "attached"
               /\ Listed \subseteq Desired \union leaving \union {p \in Pools : stamp[p] = NoHash}
               /\ \A p \in Desired \intersect Listed :
                    \/ p \in leaving
                    \/ stamp[p] = NoHash
                    \/ made[p] = config.hash[p] /\ count[p] = config.count[p]
  BY <1>3 DEF Finish, MksInv, DiffIsConfirmed, AsAsked, ClusterAsAsked, DiffCovers, Up,
     Listed, Desired
<1> QED
  BY <1>1, <1>2, <1>3, PTL DEF Spec, SuccessIsDesired
=============================================================================
