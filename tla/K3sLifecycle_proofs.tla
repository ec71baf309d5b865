------------------------ MODULE K3sLifecycle_proofs -------------------------
(***************************************************************************)
(* What holds of K3sLifecycle for any number of servers, copies, faults    *)
(* and edits.  Type correctness comes first; the safety of a run rests on  *)
(* RunInv, which relates the plan the operator confirmed to the lists that *)
(* the run later makes of what it deletes.                                 *)
(***************************************************************************)
EXTENDS K3sLifecycle, TLAPS

LEMMA ActionForType ==
  ASSUME NEW want, NEW have
  PROVE  ActionFor(want, have) \in Actions
BY DEF ActionFor, Actions

LEMMA ComputePlanType ==
  ASSUME NEW desired \in [Names -> Hashes \union {Absent}],
         NEW have \in [Names -> Hashes \union {Absent}]
  PROVE  /\ ComputePlan(desired, have) \in [Names -> Actions]
         /\ \A n \in Names :
              ComputePlan(desired, have)[n] = ActionFor(desired[n], have[n])
<1>1. DOMAIN desired = Names
  OBVIOUS
<1>2. \A n \in Names : ActionFor(desired[n], have[n]) \in Actions
  BY ActionForType
<1> QED
  BY <1>1, <1>2 DEF ComputePlan

\* Only a desired name is ever replaced, and only an undesired one deleted.
LEMMA ReplaceIsDesired ==
  ASSUME NEW desired \in [Names -> Hashes \union {Absent}],
         NEW have \in [Names -> Hashes \union {Absent}],
         NEW n \in Names
  PROVE  /\ ComputePlan(desired, have)[n] = "ReplaceNeedsConfirm"
            => desired[n] # Absent
         /\ desired[n] = Absent /\ have[n] # Absent
            => ComputePlan(desired, have)[n] = "Delete"
<1>1. ComputePlan(desired, have)[n] = ActionFor(desired[n], have[n])
  BY ComputePlanType
<1> QED
  BY <1>1 DEF ActionFor

LEMMA NamesToReplaceType ==
  ASSUME NEW p \in [Names -> Actions]
  PROVE  NamesToReplace(p) = {n \in Names : p[n] = "ReplaceNeedsConfirm"}
BY DEF NamesToReplace

LEMMA FirstSlot == \A n \in Names : <<n, 1>> \in Ids
<1>1. 1 \in Slots
  BY BoundsAssumption DEF Slots
<1> QED
  BY <1>1 DEF Ids

-----------------------------------------------------------------------------
(* Type correctness                                                        *)

LEMMA InitTypeOK == Init => TypeOK
<1> SUFFICES ASSUME Init PROVE TypeOK
  OBVIOUS
<1>1. target \in [Names -> Ids]
  BY FirstSlot DEF Init
<1> QED
  BY <1>1, BoundsAssumption DEF Init, TypeOK, Phases, Steps, Actions

LEMMA ExitType ==
  ASSUME Exit
  PROVE  /\ pc' \in Phases
         /\ plan' \in [Names -> Actions]
         /\ replace' \subseteq Names
         /\ fiber' \in [Names -> Steps]
         /\ target' \in [Names -> Ids]
         /\ reap' \subseteq Ids
         /\ drained' \subseteq Ids
BY FirstSlot DEF Exit, Phases, Actions, Steps

LEMMA TearDownType ==
  ASSUME TypeOK, TearDownHalfBuilt
  PROVE  /\ deleting' \subseteq Ids
         /\ pc' \in Phases
         /\ plan' \in [Names -> Actions]
         /\ replace' \subseteq Names
         /\ fiber' \in [Names -> Steps]
         /\ target' \in [Names -> Ids]
         /\ reap' \subseteq Ids
         /\ drained' \subseteq Ids
<1>1. Booting \subseteq Ids
  BY DEF Booting, TypeOK
<1> QED
  BY <1>1, FirstSlot DEF TearDownHalfBuilt, TypeOK, Phases, Actions, Steps

LEMMA PlanType ==
  ASSUME TypeOK, NEW yes \in BOOLEAN, ApplyPlan(yes)
  PROVE  plan' \in [Names -> Actions] /\ replace' \subseteq Names
<1>1. PICK have \in Inventories :
        /\ plan' = ComputePlan(config, have)
        /\ replace' = NamesToReplace(plan') \/ replace' = replace
  BY DEF ApplyPlan
<1>2. have \in [Names -> Hashes \union {Absent}]
  BY DEF Inventories
<1>3. config \in [Names -> Hashes \union {Absent}]
  BY ConfigsAssumption DEF TypeOK
<1>4. plan' \in [Names -> Actions]
  BY <1>1, <1>2, <1>3, ComputePlanType
<1> QED
  BY <1>1, <1>4, NamesToReplaceType DEF TypeOK

LEMMA NextTypeOK == TypeOK /\ [Next]_vars => TypeOK'
<1> SUFFICES ASSUME TypeOK, [Next]_vars PROVE TypeOK'
  OBVIOUS
<1> USE BoundsAssumption
<1>1. ASSUME NEW yes \in BOOLEAN, ApplyPlan(yes) PROVE TypeOK'
  BY <1>1, PlanType DEF ApplyPlan, TypeOK, Phases, cloud, k8s, budget, Goto
<1>2. ASSUME NEW yes \in BOOLEAN, DeletePlan(yes) PROVE TypeOK'
  BY <1>2 DEF DeletePlan, TypeOK, Phases, cloud, k8s, Goto
<1>3. CASE Fail
  BY <1>3, TearDownType DEF Fail, TypeOK, Phases, Steps, cloud, k8s, run, budget, Goto, Live
<1>4. CASE Crash
  BY <1>4, ExitType DEF Crash, TypeOK, Phases, Steps, cloud, k8s, run, budget, Goto, Live
<1>5. CASE EditConfig
  BY <1>5 DEF EditConfig, TypeOK, Phases, Steps, cloud, k8s, run, budget, Goto, Live
<1>6. CASE Confirm
  BY <1>6, NamesToReplaceType DEF Confirm, TypeOK, Phases, Steps, cloud, k8s, run, budget, Goto, Live
<1>7. CASE Decline
  BY <1>7, ExitType DEF Decline, TypeOK, Phases, Steps, cloud, k8s, run, budget, Goto, Live
<1>8. CASE EnsureNetwork
  BY <1>8 DEF EnsureNetwork, TypeOK, Phases, Steps, cloud, k8s, run, budget, Goto, Live
<1>9. CASE EnsureLoadBalancer
  BY <1>9 DEF EnsureLoadBalancer, TypeOK, Phases, Steps, cloud, k8s, run, budget, Goto, Live
<1>10. CASE RefuseMasterReplace
  BY <1>10, ExitType DEF RefuseMasterReplace, TypeOK, Phases, Steps, cloud, k8s, run, budget, Goto, Live
<1>11. CASE ListDrifted
  BY <1>11 DEF ListDrifted, TypeOK, Phases, Steps, cloud, k8s, run, budget, Goto, Live
<1>12. CASE DriftGone
  BY <1>12 DEF DriftGone, TypeOK, Phases, Steps, cloud, k8s, run, budget, Goto, Live
<1>13. CASE MastersReady
  BY <1>13 DEF MastersReady, TypeOK, Phases, Steps, cloud, k8s, run, budget, Goto, Live
<1>14. CASE WorkersReady
  BY <1>14 DEF WorkersReady, TypeOK, Phases, Steps, cloud, k8s, run, budget, Goto, Live
<1>15. CASE InstallAddons
  BY <1>15 DEF InstallAddons, TypeOK, Phases, Steps, cloud, k8s, run, budget, Goto, Live
<1>16. CASE ListOrphans
  BY <1>16 DEF ListOrphans, TypeOK, Phases, Steps, cloud, k8s, run, budget, Goto, Live
<1>17. CASE OrphansGone
  BY <1>17 DEF OrphansGone, TypeOK, Phases, Steps, cloud, k8s, run, budget, Goto, Live
<1>18. CASE Finish
  BY <1>18, ExitType DEF Finish, TypeOK, Phases, Steps, cloud, k8s, run, budget, Goto, Live
<1>19. CASE CleanupDone
  BY <1>19, ExitType DEF CleanupDone, TypeOK, Phases, Steps, cloud, k8s, run, budget, Goto, Live
<1>20. CASE ConfirmDelete
  BY <1>20 DEF ConfirmDelete, TypeOK, Phases, Steps, cloud, k8s, run, budget, Goto, Live
<1>21. CASE DeleteLoadBalancer
  BY <1>21 DEF DeleteLoadBalancer, TypeOK, Phases, Steps, cloud, k8s, run, budget, Goto, Live
<1>22. CASE DeleteNetwork
  BY <1>22, ExitType DEF DeleteNetwork, TypeOK, Phases, Steps, cloud, k8s, run, budget, Goto, Live
<1>23. CASE NetworkInUse
  BY <1>23, ExitType DEF NetworkInUse, TypeOK, Phases, Steps, cloud, k8s, run, budget, Goto, Live
<1>24. ASSUME NEW n \in Names, FindNothing(n) PROVE TypeOK'
  BY <1>24 DEF FindNothing, TypeOK, Phases, Steps, cloud, k8s, run, budget, Goto, Live, Step, Found, Ids
<1>25. ASSUME NEW n \in Names, FindExisting(n) PROVE TypeOK'
  BY <1>25 DEF FindExisting, TypeOK, Phases, Steps, cloud, k8s, run, budget, Goto, Live, Step, Found, Ids
<1>26. ASSUME NEW n \in Names, FindBroken(n) PROVE TypeOK'
  BY <1>26 DEF FindBroken, TypeOK, Phases, Steps, cloud, k8s, run, budget, Goto, Live, Step, Found, Ids
<1>27. ASSUME NEW n \in Names, BrokenGone(n) PROVE TypeOK'
  BY <1>27 DEF BrokenGone, TypeOK, Phases, Steps, cloud, k8s, run, budget, Goto, Live, Step, Found, Ids
<1>28. ASSUME NEW n \in Names, CreateServer(n) PROVE TypeOK'
  <2>1. PICK s \in Slots :
          /\ status' = [status EXCEPT ![<<n, s>>] = "BUILD"]
          /\ built' = [built EXCEPT ![<<n, s>>] = config[n]]
          /\ target' = [target EXCEPT ![n] = <<n, s>>]
    BY <1>28 DEF CreateServer, FreeSlots
  <2>2. <<n, s>> \in Ids
    BY DEF Ids
  <2>3. config[n] \in Hashes \union {Absent}
    BY ConfigsAssumption DEF TypeOK
  <2>4. /\ status' \in [Ids -> {"gone", "BUILD", "ACTIVE", "ERROR"}]
        /\ built' \in [Ids -> Hashes \union {Absent}]
        /\ target' \in [Names -> Ids]
    BY <2>1, <2>2, <2>3 DEF TypeOK
  <2> QED
    BY <1>28, <2>4 DEF CreateServer, TypeOK, Steps, k8s, budget, Step
<1>29. ASSUME NEW n \in Names, ServerActive(n) PROVE TypeOK'
  BY <1>29 DEF ServerActive, TypeOK, Phases, Steps, cloud, k8s, run, budget, Goto, Live, Step, Found, Ids
<1>30. ASSUME NEW n \in Names, ServerFails(n) PROVE TypeOK'
  BY <1>30, TearDownType DEF ServerFails, TypeOK, Phases, Steps, cloud, k8s, run, budget, Goto, Live
<1>31. ASSUME NEW n \in Names, Install(n) PROVE TypeOK'
  BY <1>31 DEF Install, TypeOK, Phases, Steps, cloud, k8s, run, budget, Goto, Live, Step, Ids
<1>32. ASSUME NEW n \in Names, InstallFails(n) PROVE TypeOK'
  BY <1>32, ExitType DEF InstallFails, TypeOK, Phases, Steps, cloud, k8s, run, budget, Goto, Live
<1>33. ASSUME NEW i \in Ids, DeleteDrifted(i) PROVE TypeOK'
  BY <1>33 DEF DeleteDrifted, TypeOK, Phases, Steps, cloud, k8s, run, budget, Goto, Live
<1>34. ASSUME NEW i \in Ids, Drain(i) PROVE TypeOK'
  BY <1>34 DEF Drain, TypeOK, Phases, Steps, cloud, k8s, run, budget, Goto, Live, Ids
<1>35. ASSUME NEW i \in Ids, DeleteOrphan(i) PROVE TypeOK'
  BY <1>35 DEF DeleteOrphan, TypeOK, Phases, Steps, cloud, k8s, run, budget, Goto, Live
<1>36. ASSUME NEW i \in Ids, DeleteServer(i) PROVE TypeOK'
  BY <1>36 DEF DeleteServer, TypeOK, Phases, Steps, cloud, k8s, run, budget, Goto, Live
<1>37. ASSUME NEW i \in Ids, Boot(i) PROVE TypeOK'
  BY <1>37 DEF Boot, TypeOK, Phases, Steps, cloud, k8s, run, budget, Goto, Live
<1>38. ASSUME NEW i \in Ids, Break(i) PROVE TypeOK'
  BY <1>38 DEF Break, TypeOK, Phases, Steps, cloud, k8s, run, budget, Goto, Live, Healthy
<1>39. ASSUME NEW i \in Ids, Vanish(i) PROVE TypeOK'
  BY <1>39 DEF Vanish, TypeOK, Phases, Steps, cloud, k8s, run, budget, Goto, Live
<1>40. CASE UNCHANGED vars
  BY <1>40 DEF TypeOK, vars
<1> QED
  BY <1>1, <1>2, <1>3, <1>4, <1>5, <1>6, <1>7, <1>8, <1>9, <1>10, <1>11, <1>12, <1>13, <1>14, <1>15, <1>16, <1>17, <1>18, <1>19, <1>20, <1>21, <1>22, <1>23, <1>24, <1>25, <1>26, <1>27, <1>28, <1>29, <1>30, <1>31, <1>32, <1>33, <1>34, <1>35, <1>36, <1>37, <1>38, <1>39, <1>40
     DEF Next, Progress, Settle, Fiber

\* Every variable keeps its type, for any number of servers, faults and edits.
THEOREM TypeCorrect == Spec => []TypeOK
<1>1. Init => TypeOK
  BY InitTypeOK
<1>2. TypeOK /\ [Next]_vars => TypeOK'
  BY NextTypeOK
<1> QED
  BY <1>1, <1>2, PTL DEF Spec

-----------------------------------------------------------------------------
(* One server per exact name.  The fiber of a name whose filter also        *)
(* returns another server may reap that one as broken and then create a     *)
(* server that already exists, but always one of its own name.              *)

\* A fiber that is about to create has no live server of its name; one that
\* awaits a broken server's end awaits the only server of its name.
FibersKnow ==
  \A n \in Exact : /\ fiber[n] = "create" => Named(n) = {}
                   /\ fiber[n] = "reap" => Named(n) \subseteq {target[n]}

LEMMA ExactFinds ==
  ASSUME NEW n \in Exact
  PROVE  n \in Names /\ Found(n) = Named(n)
<1>1. \A i \in Live : i[1] \in Names
  BY DEF Live, Ids
<1> QED
  BY <1>1 DEF Exact, Found, Named

OneInv == OneServerPerName /\ FibersKnow

\* A step that leaves the servers' status alone and moves no fiber, or resets
\* them all, keeps the invariant.
LEMMA OneFrame ==
  ASSUME OneInv, UNCHANGED status,
         \/ UNCHANGED <<fiber, target>>
         \/ fiber' = [n \in Names |-> "todo"]
  PROVE  OneInv'
BY DEF OneInv, OneServerPerName, FibersKnow, Exact, Named, Live

LEMMA InitOneInv == Init => OneInv
BY DEF Init, OneInv, OneServerPerName, FibersKnow, Exact, Live

LEMMA NextOneInv ==
  ASSUME TypeOK, OneInv, [Next]_vars
  PROVE  OneInv'
<1> USE DEF OneInv
<1>1. ASSUME NEW n \in Names, FindNothing(n) PROVE OneInv'
  <2>1. n \in Exact => Named(n) = {}
    BY <1>1, ExactFinds DEF FindNothing
  <2>2. /\ UNCHANGED <<status, target>>
        /\ fiber' = [fiber EXCEPT ![n] = "create"]
    BY <1>1 DEF FindNothing, Step, cloud
  <2> QED
    BY <2>1, <2>2 DEF OneServerPerName, FibersKnow, Exact, Named, Live, TypeOK
<1>2. ASSUME NEW n \in Names, FindExisting(n) PROVE OneInv'
  <2>1. /\ UNCHANGED status
        /\ fiber' = [fiber EXCEPT ![n] = "adopt"]
        /\ \E i \in Ids : target' = [target EXCEPT ![n] = i]
    BY <1>2 DEF FindExisting, Step, cloud, Found, Live
  <2> QED
    BY <2>1 DEF OneServerPerName, FibersKnow, Exact, Named, Live, TypeOK
<1>3. ASSUME NEW n \in Names, FindBroken(n) PROVE OneInv'
  <2>1. PICK i \in Found(n) : target' = [target EXCEPT ![n] = i]
    BY <1>3 DEF FindBroken
  <2>2. n \in Exact => Named(n) \subseteq {i}
    BY <2>1, ExactFinds DEF OneServerPerName, Named
  <2>3. /\ UNCHANGED status
        /\ fiber' = [fiber EXCEPT ![n] = "reap"]
    BY <1>3 DEF FindBroken, Step
  <2> QED
    BY <2>1, <2>2, <2>3 DEF OneServerPerName, FibersKnow, Exact, Named, Live, TypeOK
<1>4. ASSUME NEW n \in Names, BrokenGone(n) PROVE OneInv'
  <2>1. n \in Exact => Named(n) = {}
    BY <1>4 DEF BrokenGone, FibersKnow, Named, Live
  <2>2. /\ UNCHANGED <<status, target>>
        /\ fiber' = [fiber EXCEPT ![n] = "create"]
    BY <1>4 DEF BrokenGone, Step, cloud
  <2> QED
    BY <2>1, <2>2 DEF OneServerPerName, FibersKnow, Exact, Named, Live, TypeOK
<1>5. ASSUME NEW n \in Names, CreateServer(n) PROVE OneInv'
  <2>1. PICK s \in Slots :
          /\ status' = [status EXCEPT ![<<n, s>>] = "BUILD"]
          /\ target' = [target EXCEPT ![n] = <<n, s>>]
    BY <1>5 DEF CreateServer, FreeSlots
  <2>2. /\ <<n, s>> \in Ids
        /\ n \in Exact => Named(n) = {}
        /\ fiber' = [fiber EXCEPT ![n] = "boot"]
    BY <1>5 DEF CreateServer, FibersKnow, Step, Ids
  <2>3. \A m \in Names : m # n => Named(m)' = Named(m)
    BY <2>1, <2>2 DEF Named, Live, TypeOK
  <2>4. Live' = Live \union {<<n, s>>}
    BY <2>1, <2>2 DEF Live, TypeOK
  <2>5. OneServerPerName'
    BY <2>2, <2>4 DEF OneServerPerName, Named
  <2>6. FibersKnow'
    BY <2>1, <2>2, <2>3 DEF FibersKnow, Exact, TypeOK
  <2> QED
    BY <2>5, <2>6
<1>6. ASSUME NEW n \in Names, ServerActive(n) PROVE OneInv'
  <2>1. /\ UNCHANGED <<status, target>>
        /\ fiber' = [fiber EXCEPT ![n] = "done"]
    BY <1>6 DEF ServerActive, Step, cloud
  <2> QED
    BY <2>1 DEF OneServerPerName, FibersKnow, Exact, Named, Live, TypeOK
<1>7. ASSUME NEW n \in Names, Install(n) PROVE OneInv'
  <2>1. /\ UNCHANGED <<status, target>>
        /\ fiber' = [fiber EXCEPT ![n] = "installed"]
    BY <1>7 DEF Install, Step, cloud
  <2> QED
    BY <2>1 DEF OneServerPerName, FibersKnow, Exact, Named, Live, TypeOK
\* Nova changes the status of a live server, or makes it go.
<1>8. ASSUME NEW i \in Ids, Boot(i) \/ Break(i) \/ Vanish(i) PROVE OneInv'
  <2>1. UNCHANGED <<fiber, target>> /\ Live' \subseteq Live
    BY <1>8 DEF Boot, Break, Vanish, Healthy, Live, run, TypeOK
  <2> QED
    BY <2>1 DEF OneServerPerName, FibersKnow, Exact, Named
<1>9. ASSUME NEW n \in Names, ServerFails(n) \/ InstallFails(n) PROVE OneInv'
  BY <1>9, OneFrame DEF ServerFails, InstallFails, TearDownHalfBuilt, Exit, cloud
<1>10. ASSUME NEW i \in Ids,
              DeleteDrifted(i) \/ Drain(i) \/ DeleteOrphan(i) \/ DeleteServer(i)
       PROVE  OneInv'
  BY <1>10, OneFrame DEF DeleteDrifted, Drain, DeleteOrphan, DeleteServer, cloud, run
<1>11. ASSUME NEW yes \in BOOLEAN, ApplyPlan(yes) \/ DeletePlan(yes)
       PROVE  OneInv'
  BY <1>11, OneFrame DEF ApplyPlan, DeletePlan, cloud
<1>12. CASE Fail \/ Crash \/ Decline \/ RefuseMasterReplace \/ Finish \/ CleanupDone
            \/ DeleteNetwork \/ NetworkInUse
  BY <1>12, OneFrame DEF Fail, Crash, Decline, RefuseMasterReplace, Finish,
       CleanupDone, DeleteNetwork, NetworkInUse, TearDownHalfBuilt, Exit, cloud
<1>13. CASE EditConfig \/ Confirm \/ ConfirmDelete \/ EnsureNetwork
            \/ EnsureLoadBalancer \/ ListDrifted \/ DriftGone \/ MastersReady
  BY <1>13, OneFrame DEF EditConfig, Confirm, ConfirmDelete, EnsureNetwork,
       EnsureLoadBalancer, ListDrifted, DriftGone, MastersReady, cloud, run
<1>14. CASE WorkersReady \/ InstallAddons \/ ListOrphans \/ OrphansGone
            \/ DeleteLoadBalancer \/ UNCHANGED vars
  BY <1>14, OneFrame DEF WorkersReady, InstallAddons, ListOrphans, OrphansGone,
       DeleteLoadBalancer, cloud, vars
<1> QED
  BY <1>1, <1>2, <1>3, <1>4, <1>5, <1>6, <1>7, <1>8, <1>9, <1>10, <1>11, <1>12,
     <1>13, <1>14 DEF Next, Progress, Settle, Fiber

\* No interruption, crash, broken server or re-run ever makes a second server
\* of an exact name (applyServers, core/src/reconcile/apply.ts:6;
\* ensureServer), for any number of servers, faults and edits, and whatever
\* other names' filters return.
THEOREM NeverDuplicated == Spec => []OneServerPerName
<1>1. Init => TypeOK /\ OneInv
  BY InitTypeOK, InitOneInv
<1>2. TypeOK /\ OneInv /\ [Next]_vars => (TypeOK /\ OneInv)'
  BY NextTypeOK, NextOneInv
<1>3. OneInv => OneServerPerName
  BY DEF OneInv
<1> QED
  BY <1>1, <1>2, <1>3, PTL DEF Spec

-----------------------------------------------------------------------------
(* What a run deletes.                                                     *)

ApplyPhases == {"confirm", "infra", "lb", "refuse", "drift", "masters",
                "workers", "install", "orphans", "drain", "tail"}

\* The plan in memory is the plan of the config in force, it has a Delete row
\* for every live server nobody desires, and its replacements are the only
\* names confirmed.
PlanFits ==
  /\ pc = "idle" => plan = [n \in Names |-> "None"]
  /\ \A n \in Names : plan[n] = "ReplaceNeedsConfirm" => n \in Desired
  /\ \A n \in replace : plan[n] = "ReplaceNeedsConfirm"
  /\ pc \in ApplyPhases =>
       \A i \in Live : i[1] \notin Desired => plan[i[1]] = "Delete"

\* What is listed for deletion was confirmed, is no master, is no worker that
\* the config wants; what is drained has no Node.
ListsFit ==
  /\ pc = "drift" => \A i \in reap : i[1] \in replace \ Masters
  /\ pc = "drain" => /\ drained \subseteq reap
                     /\ \A i \in reap : i[1] \in LooksLikeWorker \ (Desired \intersect Workers)
                     /\ \A i \in drained : i[1] \notin nodes
  /\ pc \notin {"drain", "tail"} => drained = {}

\* A live server has a config hash: the planner tells it from no server.
LiveStamped == \A i \in Live : built[i] # Absent

RunInv == LiveStamped /\ PlanFits /\ ListsFit

LEMMA InitRunInv == Init => RunInv
BY DEF Init, RunInv, LiveStamped, PlanFits, ListsFit, ApplyPhases, Live

\* The process forgets everything when it ends or starts to clean up.
LEMMA RunEnds ==
  ASSUME RunInv, UNCHANGED <<status, built>>, Exit \/ TearDownHalfBuilt
  PROVE  RunInv'
BY DEF Exit, TearDownHalfBuilt, RunInv, LiveStamped, Live, PlanFits, ListsFit, ApplyPhases

LEMMA RunStutter ==
  ASSUME RunInv,
         UNCHANGED <<config, pc, plan, replace, reap, drained, nodes, status, built>>
  PROVE  RunInv'
BY DEF RunInv, LiveStamped, PlanFits, ListsFit, Live, Desired

\* A step that keeps the config, the plan and the confirmed names, and brings
\* up no server that the config does not want, keeps PlanFits.
LEMMA PlanFrame ==
  ASSUME TypeOK, PlanFits,
         UNCHANGED <<config, plan, replace>>,
         \A i \in Live' : i \in Live \/ i[1] \in Desired,
         pc' = "idle" => pc = "idle",
         pc' \in ApplyPhases => pc \in ApplyPhases
  PROVE  PlanFits'
<1>1. Desired' = Desired
  BY DEF Desired
<1> QED
  BY <1>1 DEF PlanFits

\* A step that keeps the phase and the lists, and adds no Node while a phase
\* drains, keeps ListsFit.
LEMMA ListsFrame ==
  ASSUME TypeOK, ListsFit,
         UNCHANGED <<config, replace, pc, drained>>,
         reap' \subseteq reap,
         pc = "drain" => reap' = reap /\ nodes' \subseteq nodes
  PROVE  ListsFit'
<1>1. Desired' = Desired
  BY DEF Desired
<1> QED
  BY <1>1 DEF ListsFit

\* Moving to a phase that has no list keeps ListsFit, with nothing drained.
LEMMA MovesOn ==
  ASSUME TypeOK, ListsFit,
         pc' \notin {"drift", "drain", "tail"},
         pc \notin {"drain", "tail"},
         UNCHANGED drained
  PROVE  ListsFit'
BY DEF ListsFit

LEMMA NextRunInv ==
  ASSUME TypeOK, RunInv, [Next]_vars
  PROVE  RunInv'
<1> USE DEF RunInv
<1>1. ASSUME NEW yes \in BOOLEAN, ApplyPlan(yes) PROVE RunInv'
  <2>1. PICK have \in Inventories :
          /\ plan' = ComputePlan(config, have)
          /\ \/ pc' = "infra" /\ replace' = NamesToReplace(plan')
             \/ pc' = "confirm" /\ UNCHANGED replace
    BY <1>1 DEF ApplyPlan, Goto
  <2>2. /\ have \in [Names -> Hashes \union {Absent}]
        /\ config \in [Names -> Hashes \union {Absent}]
    BY ConfigsAssumption DEF Inventories, TypeOK
  <2>3. /\ UNCHANGED <<config, status, drained>>
        /\ pc = "idle"
    BY <1>1 DEF ApplyPlan, cloud
  <2>4. \A n \in Names : plan'[n] = "ReplaceNeedsConfirm" => n \in Desired
    BY <2>1, <2>2, ReplaceIsDesired DEF Desired
  <2>5. ASSUME NEW i \in Live, i[1] \notin Desired PROVE plan'[i[1]] = "Delete"
    <3>1. i[1] \in Names /\ config[i[1]] = Absent
      BY <2>5 DEF Live, Ids, Desired
    <3>2. i \in Named(i[1])
      BY DEF Named
    <3>3. PICK j \in Named(i[1]) : have[i[1]] = built[j]
      BY <3>1, <3>2 DEF Inventories
    <3>4. have[i[1]] # Absent
      BY <3>3 DEF LiveStamped, Named
    <3> QED
      BY <3>1, <3>4, <2>1, <2>2, ReplaceIsDesired
  <2>6. \A n \in replace' : plan'[n] = "ReplaceNeedsConfirm"
    <3>1. plan' \in [Names -> Actions]
      BY <2>1, <2>2, ComputePlanType
    <3>2. replace = {}
      BY <2>3 DEF PlanFits, TypeOK
    <3> QED
      BY <2>1, <3>1, <3>2, NamesToReplaceType
  <2>7. PlanFits'
    BY <2>1, <2>3, <2>4, <2>5, <2>6 DEF PlanFits, Desired, Live, ApplyPhases
  <2>8. ListsFit'
    BY <2>1, <2>3 DEF ListsFit
  <2>9. LiveStamped'
    BY <1>1 DEF ApplyPlan, cloud, LiveStamped, Live
  <2> QED
    BY <2>7, <2>8, <2>9
<1>2. ASSUME NEW n \in Names, CreateServer(n) PROVE RunInv'
  <2>1. PICK s \in Slots :
          /\ status' = [status EXCEPT ![<<n, s>>] = "BUILD"]
          /\ built' = [built EXCEPT ![<<n, s>>] = config[n]]
    BY <1>2 DEF CreateServer, FreeSlots
  <2>2. /\ UNCHANGED <<config, pc, plan, replace, reap, drained, nodes>>
        /\ <<n, s>> \in Ids
        /\ n \in Desired
        /\ config[n] # Absent
        /\ pc \in {"masters", "workers"}
    BY <1>2 DEF CreateServer, k8s, Running, Ids, Desired
  <2>3. Live' = Live \union {<<n, s>>}
    BY <2>1, <2>2 DEF Live, TypeOK
  <2>4. LiveStamped'
    BY <2>1, <2>2, <2>3 DEF LiveStamped, Live, TypeOK
  <2>5. PlanFits'
    BY <2>2, <2>3, PlanFrame
  <2> QED
    BY <2>2, <2>4, <2>5, ListsFrame
<1>3. ASSUME NEW n \in Names,
             \/ FindNothing(n) \/ FindExisting(n) \/ FindBroken(n)
             \/ BrokenGone(n) \/ ServerActive(n)
      PROVE  RunInv'
  <2>1. UNCHANGED <<config, pc, plan, replace, reap, drained, nodes, status, built>>
    BY <1>3 DEF FindNothing, FindExisting, FindBroken, BrokenGone, ServerActive,
         cloud, k8s
  <2> QED
    BY <2>1, RunStutter
<1>4. ASSUME NEW n \in Names, Install(n) PROVE RunInv'
  <2>1. /\ UNCHANGED <<config, pc, plan, replace, reap, drained, status, built>>
        /\ pc = "install"
    BY <1>4 DEF Install, cloud
  <2>2. LiveStamped' /\ PlanFits'
    BY <2>1, PlanFrame DEF LiveStamped, Live
  <2> QED
    BY <2>1, <2>2, ListsFrame
<1>5. ASSUME NEW i \in Ids, Boot(i) \/ Break(i) \/ Vanish(i) PROVE RunInv'
  <2>1. /\ UNCHANGED <<config, pc, plan, replace, reap, drained>>
        /\ Live' \subseteq Live
        /\ \A j \in Live' : built'[j] = built[j]
        /\ nodes' \subseteq nodes
    BY <1>5 DEF Boot, Break, Vanish, Healthy, Live, run, k8s, TypeOK
  <2>2. LiveStamped' /\ PlanFits'
    BY <2>1, PlanFrame DEF LiveStamped
  <2> QED
    BY <2>1, <2>2, ListsFrame
<1>6. ASSUME NEW i \in Ids, Drain(i) PROVE RunInv'
  <2>1. /\ UNCHANGED <<config, pc, plan, replace, reap, status, built>>
        /\ pc = "drain"
        /\ i \in reap
        /\ nodes' = nodes \ {i[1]}
        /\ drained' = drained \union {i}
    BY <1>6 DEF Drain, cloud
  <2>2. LiveStamped' /\ PlanFits'
    BY <2>1, PlanFrame DEF LiveStamped, Live
  <2> QED
    BY <2>1, <2>2 DEF ListsFit, Desired
<1>7. ASSUME NEW i \in Ids, DeleteDrifted(i) \/ DeleteOrphan(i) PROVE RunInv'
  <2>1. UNCHANGED <<config, pc, plan, replace, reap, drained, nodes, status, built>>
    BY <1>7 DEF DeleteDrifted, DeleteOrphan, run, k8s
  <2> QED
    BY <2>1, RunStutter
<1>8. ASSUME NEW i \in Ids, DeleteServer(i) PROVE RunInv'
  <2>1. /\ UNCHANGED <<config, pc, plan, replace, drained, nodes, status, built>>
        /\ pc = "servers"
        /\ reap' \subseteq reap
    BY <1>8 DEF DeleteServer, k8s
  <2>2. LiveStamped' /\ PlanFits'
    BY <2>1, PlanFrame DEF LiveStamped, Live
  <2> QED
    BY <2>1, <2>2, ListsFrame
<1>9. ASSUME NEW yes \in BOOLEAN, DeletePlan(yes) PROVE RunInv'
  <2>1. /\ UNCHANGED <<config, plan, replace, drained, status, built>>
        /\ pc = "idle"
        /\ pc' \in {"teardown", "delconfirm"}
    BY <1>9 DEF DeletePlan, Goto, cloud
  <2>2. LiveStamped' /\ PlanFits'
    BY <2>1, PlanFrame DEF LiveStamped, Live, ApplyPhases
  <2> QED
    BY <2>1, <2>2, MovesOn
<1>10. CASE EditConfig
  <2>1. /\ UNCHANGED <<pc, plan, replace, reap, drained, nodes, status, built>>
        /\ pc = "idle"
    BY <1>10 DEF EditConfig, cloud, run, k8s
  <2>2. LiveStamped' /\ PlanFits'
    BY <2>1 DEF LiveStamped, PlanFits, Live, ApplyPhases
  <2> QED
    BY <2>1, <2>2 DEF ListsFit
<1>11. CASE Confirm
  <2>1. /\ UNCHANGED <<config, plan, drained, status, built>>
        /\ pc = "confirm" /\ pc' = "infra"
        /\ replace' = {n \in Names : plan[n] = "ReplaceNeedsConfirm"}
    BY <1>11, NamesToReplaceType DEF Confirm, Goto, cloud, TypeOK
  <2>2. LiveStamped' /\ PlanFits'
    BY <2>1 DEF LiveStamped, PlanFits, Live, ApplyPhases, Desired
  <2> QED
    BY <2>1, <2>2, MovesOn
<1>12. CASE \/ EnsureNetwork \/ EnsureLoadBalancer \/ DriftGone \/ MastersReady
            \/ WorkersReady \/ InstallAddons
  <2>1. /\ UNCHANGED <<config, plan, replace, drained, status, built>>
        /\ pc \in ApplyPhases \ {"drain", "tail"}
        /\ pc' \in {"lb", "refuse", "masters", "workers", "install", "orphans"}
    BY <1>12 DEF EnsureNetwork, EnsureLoadBalancer, DriftGone, MastersReady,
         WorkersReady, InstallAddons, Goto, cloud, ApplyPhases
  <2>2. LiveStamped' /\ PlanFits'
    BY <2>1, PlanFrame DEF LiveStamped, Live
  <2> QED
    BY <2>1, <2>2, MovesOn
<1>13. CASE ListDrifted
  <2>1. /\ UNCHANGED <<config, plan, replace, drained, status, built>>
        /\ pc = "refuse" /\ pc' = "drift"
        /\ replace \intersect Masters \intersect Desired = {}
        /\ reap' = {i \in Live : i[1] \in replace}
    BY <1>13 DEF ListDrifted, Goto, cloud
  <2>2. LiveStamped' /\ PlanFits'
    BY <2>1, PlanFrame DEF LiveStamped, Live, ApplyPhases
  <2>3. \A n \in replace : n \in Desired
    BY DEF PlanFits, TypeOK
  <2>4. \A i \in reap' : i[1] \in replace' \ Masters
    BY <2>1, <2>3
  <2>5. ListsFit'
    BY <2>1, <2>4 DEF ListsFit
  <2> QED
    BY <2>2, <2>5
<1>14. CASE ListOrphans
  <2>1. /\ UNCHANGED <<config, plan, replace, drained, status, built>>
        /\ pc = "orphans" /\ pc' = "drain"
        /\ reap' = {i \in Live : /\ i[1] \in LooksLikeWorker
                                 /\ i[1] \notin Desired \intersect Workers}
    BY <1>14 DEF ListOrphans, Goto, cloud
  <2>2. LiveStamped' /\ PlanFits'
    BY <2>1, PlanFrame DEF LiveStamped, Live, ApplyPhases
  <2> QED
    BY <2>1, <2>2 DEF ListsFit, Desired
<1>15. CASE OrphansGone
  <2>1. /\ UNCHANGED <<config, plan, replace, drained, status, built>>
        /\ pc = "drain" /\ pc' = "tail"
    BY <1>15 DEF OrphansGone, Goto, cloud
  <2>2. LiveStamped' /\ PlanFits'
    BY <2>1, PlanFrame DEF LiveStamped, Live, ApplyPhases
  <2> QED
    BY <2>1, <2>2 DEF ListsFit
<1>16. CASE ConfirmDelete \/ DeleteLoadBalancer
  <2>1. /\ UNCHANGED <<config, plan, replace, drained, status, built>>
        /\ pc \in {"delconfirm", "teardown"}
        /\ pc' \in {"teardown", "servers"}
    BY <1>16 DEF ConfirmDelete, DeleteLoadBalancer, Goto, cloud
  <2>2. LiveStamped' /\ PlanFits'
    BY <2>1, PlanFrame DEF LiveStamped, Live, ApplyPhases
  <2> QED
    BY <2>1, <2>2, MovesOn
<1>17. CASE \/ Fail \/ Crash \/ Decline \/ RefuseMasterReplace \/ Finish
            \/ CleanupDone \/ DeleteNetwork \/ NetworkInUse
  <2>1. UNCHANGED <<status, built>> /\ (Exit \/ TearDownHalfBuilt)
    BY <1>17 DEF Fail, Crash, Decline, RefuseMasterReplace, Finish, CleanupDone,
         DeleteNetwork, NetworkInUse, cloud
  <2> QED
    BY <2>1, RunEnds
<1>18. ASSUME NEW n \in Names, ServerFails(n) \/ InstallFails(n) PROVE RunInv'
  <2>1. UNCHANGED <<status, built>> /\ (Exit \/ TearDownHalfBuilt)
    BY <1>18 DEF ServerFails, InstallFails, cloud
  <2> QED
    BY <2>1, RunEnds
<1>19. CASE UNCHANGED vars
  <2>1. UNCHANGED <<config, pc, plan, replace, reap, drained, nodes, status, built>>
    BY <1>19 DEF vars
  <2> QED
    BY <2>1, RunStutter
<1> QED
  BY <1>1, <1>2, <1>3, <1>4, <1>5, <1>6, <1>7, <1>8, <1>9, <1>10, <1>11, <1>12,
     <1>13, <1>14, <1>15, <1>16, <1>17, <1>18, <1>19 DEF Next, Progress, Settle, Fiber

-----------------------------------------------------------------------------
(* Who destroys a healthy server.                                          *)

\* Outside `delete' only two loops do: the replacement of confirmed servers,
\* and the removal of drained workers.
LEMMA DestroyedByTwoLoops ==
  ASSUME TypeOK, [Next]_vars, pc # "servers", NEW i \in Destroyed
  PROVE  /\ i \in Live
         /\ \/ pc = "drift" /\ i \in reap
            \/ pc = "drain" /\ i \in drained
<1>0. /\ i \in Live /\ status[i] # "ERROR"
      /\ i \in deleting' /\ i \notin deleting /\ i \notin Booting
  BY DEF Destroyed, Healthy
<1>1. ASSUME NEW j \in Ids, DeleteDrifted(j) \/ DeleteOrphan(j)
      PROVE  (pc = "drift" /\ i \in reap) \/ (pc = "drain" /\ i \in drained)
  BY <1>0, <1>1 DEF DeleteDrifted, DeleteOrphan
<1>2. ASSUME NEW n \in Names, FindBroken(n) PROVE FALSE
  BY <1>0, <1>2 DEF FindBroken
<1>3. CASE TearDownHalfBuilt
  BY <1>0, <1>3 DEF TearDownHalfBuilt
<1>4. CASE UNCHANGED deleting
  BY <1>0, <1>4
<1>5. ASSUME NEW j \in Ids, Vanish(j) \/ DeleteServer(j) PROVE FALSE
  BY <1>0, <1>5 DEF Vanish, DeleteServer
<1>6. ASSUME NEW j \in Ids, Boot(j) \/ Break(j) \/ Drain(j)
      PROVE  UNCHANGED deleting
  BY <1>6 DEF Boot, Break, Drain, cloud
<1>7. ASSUME NEW n \in Names,
             \/ FindNothing(n) \/ FindExisting(n) \/ BrokenGone(n)
             \/ CreateServer(n) \/ ServerActive(n) \/ Install(n) \/ InstallFails(n)
      PROVE  UNCHANGED deleting
  BY <1>7 DEF FindNothing, FindExisting, BrokenGone, CreateServer, ServerActive,
       Install, InstallFails, cloud
<1>8. ASSUME NEW yes \in BOOLEAN, ApplyPlan(yes) \/ DeletePlan(yes)
      PROVE  UNCHANGED deleting
  BY <1>8 DEF ApplyPlan, DeletePlan, cloud
<1>9. CASE Fail \/ \E n \in Names : ServerFails(n)
  BY <1>3, <1>9 DEF Fail, ServerFails
<1>10. CASE \/ Crash \/ Decline \/ RefuseMasterReplace \/ Finish \/ CleanupDone
            \/ DeleteNetwork \/ NetworkInUse \/ EditConfig \/ Confirm
            \/ ConfirmDelete \/ EnsureNetwork \/ EnsureLoadBalancer
  BY <1>4, <1>10 DEF Crash, Decline, RefuseMasterReplace, Finish, CleanupDone,
       DeleteNetwork, NetworkInUse, EditConfig, Confirm, ConfirmDelete,
       EnsureNetwork, EnsureLoadBalancer, cloud
<1>11. CASE \/ ListDrifted \/ DriftGone \/ MastersReady \/ WorkersReady
            \/ InstallAddons \/ ListOrphans \/ OrphansGone \/ DeleteLoadBalancer
            \/ UNCHANGED vars
  BY <1>4, <1>11 DEF ListDrifted, DriftGone, MastersReady, WorkersReady,
       InstallAddons, ListOrphans, OrphansGone, DeleteLoadBalancer, cloud, vars
<1> QED
  BY <1>0, <1>1, <1>2, <1>4, <1>5, <1>6, <1>7, <1>8, <1>9, <1>10, <1>11
     DEF Next, Progress, Settle, Fiber

\* What such a loop destroys is confirmed and no master, or is mistaken, and has
\* no Node if it is a worker that the config no longer wants.
LEMMA DestroyedIsSafe ==
  ASSUME TypeOK, RunInv, [Next]_vars,
         pc # "servers", NEW i \in Destroyed
  PROVE  /\ \/ plan[i[1]] = "ReplaceNeedsConfirm" /\ i[1] \in replace
            \/ plan[i[1]] = "Delete"
            \/ i[1] \in Mistaken
         /\ i[1] \notin Masters \ Mistaken
         /\ i[1] \in Workers \ Desired => i[1] \notin nodes
<1>1. /\ i \in Live
      /\ \/ pc = "drift" /\ i \in reap
         \/ pc = "drain" /\ i \in drained
  BY DestroyedByTwoLoops
<1>2. CASE pc = "drift" /\ i \in reap
  <2>1. i[1] \in replace \ Masters
    BY <1>2 DEF RunInv, ListsFit
  <2>2. plan[i[1]] = "ReplaceNeedsConfirm" /\ i[1] \in Desired
    BY <2>1 DEF RunInv, PlanFits, TypeOK
  <2> QED
    BY <2>1, <2>2
<1>3. CASE pc = "drain" /\ i \in drained
  <2>1. /\ i \in reap
        /\ i[1] \in LooksLikeWorker \ (Desired \intersect Workers)
        /\ i[1] \notin nodes
    BY <1>3 DEF RunInv, ListsFit
  <2>2. CASE i[1] \in Masters
    <3>1. i[1] \in Mistaken
      BY <2>1, <2>2 DEF Mistaken
    <3> QED
      BY <2>1, <3>1
  <2>3. CASE i[1] \in Workers \ Masters
    <3>1. plan[i[1]] = "Delete"
      BY <1>1, <1>3, <2>1, <2>3 DEF RunInv, PlanFits, ApplyPhases
    <3> QED
      BY <2>1, <2>3, <3>1
  <2> QED
    BY <1>1, <2>2, <2>3 DEF Live, Ids, Names
<1> QED
  BY <1>1, <1>2, <1>3

\* No command destroys a healthy server that the operator was not shown as a
\* row to replace or delete, and confirmed (cli/src/k3s/reconcile.ts
\* _deleteDrifted and _drainOrphanedWorkers list the cloud again), for any
\* cluster, but for the masters whose names contain "-worker-".
THEOREM ConfirmedBeforeDestroyed == Spec => OnlyConfirmedDestroyed
<1>1. Init => TypeOK /\ RunInv
  BY InitTypeOK, InitRunInv
<1>2. TypeOK /\ RunInv /\ [Next]_vars => (TypeOK /\ RunInv)'
  BY NextTypeOK, NextRunInv
<1>3. TypeOK /\ RunInv /\ [Next]_vars
        => [\A i \in Destroyed :
              \/ pc = "servers"
              \/ plan[i[1]] = "ReplaceNeedsConfirm" /\ i[1] \in replace
              \/ plan[i[1]] = "Delete"
              \/ i[1] \in Mistaken]_vars
  BY DestroyedIsSafe
<1> QED
  BY <1>1, <1>2, <1>3, PTL DEF Spec, OnlyConfirmedDestroyed

\* An apply never destroys a healthy master (reconcile.ts _refuseMasterReplace
\* and orphanedWorkers) whose name does not contain "-worker-", for any cluster,
\* plan and interleaving.
THEOREM MastersSurvive == Spec => MastersSurviveApply
<1>1. Init => TypeOK /\ RunInv
  BY InitTypeOK, InitRunInv
<1>2. TypeOK /\ RunInv /\ [Next]_vars => (TypeOK /\ RunInv)'
  BY NextTypeOK, NextRunInv
<1>3. TypeOK /\ RunInv /\ [Next]_vars
        => [pc # "servers" => \A i \in Destroyed : i[1] \notin Masters \ Mistaken]_vars
  BY DestroyedIsSafe
<1> QED
  BY <1>1, <1>2, <1>3, PTL DEF Spec, MastersSurviveApply

\* A worker nobody desires any more loses its server only once its Node is
\* gone (distro-k3s/src/distro/drain.ts:15), across crashes and re-runs.
THEOREM DrainedFirst == Spec => DrainedBeforeDestroyed
<1>1. Init => TypeOK /\ RunInv
  BY InitTypeOK, InitRunInv
<1>2. TypeOK /\ RunInv /\ [Next]_vars => (TypeOK /\ RunInv)'
  BY NextTypeOK, NextRunInv
<1>3. TypeOK /\ RunInv /\ [Next]_vars
        => [\A i \in Destroyed :
              pc # "servers" /\ i[1] \in Workers \ Desired => i[1] \notin nodes]_vars
  BY DestroyedIsSafe
<1> QED
  BY <1>1, <1>2, <1>3, PTL DEF Spec, DrainedBeforeDestroyed

-----------------------------------------------------------------------------
(* What success leaves.                                                    *)

\* Until the drifted servers are gone, what differs from the config is a row of
\* the plan to replace, confirmed and listed; from then on nothing differs.
DriftPlanned ==
  /\ pc \in {"confirm", "infra", "lb", "refuse", "drift"} =>
       \A i \in Live : i[1] \in Desired \intersect Exact =>
         built[i] = config[i[1]] \/ plan[i[1]] = "ReplaceNeedsConfirm"
  /\ pc \in {"infra", "lb", "refuse", "drift"} =>
       \A n \in Names : plan[n] = "ReplaceNeedsConfirm" => n \in replace
  /\ pc = "drift" => \A i \in Live : i[1] \in replace => i \in reap
  /\ pc \in {"masters", "workers", "install", "orphans", "drain", "tail"} =>
       \A i \in Live : i[1] \in Desired \intersect Exact => built[i] = config[i[1]]

\* A fiber of an exact name that has found or made its server knows the only one of its name;
\* one that has installed k3s did so on that server, if it is still there.
FibersServe ==
  /\ \A n \in Exact : fiber[n] \in {"adopt", "boot", "done", "installed"} =>
       target[n][1] = n /\ Named(n) \subseteq {target[n]}
  /\ \A n \in Exact : fiber[n] = "installed" /\ target[n] \in Live => target[n] \in joined
  /\ pc \in {"orphans", "drain", "tail"} => \A n \in Desired : fiber[n] = "installed"

\* No orphan escapes the list.
OrphansListed ==
  /\ pc = "drain" => \A i \in Live : i[1] \in Workers \ Desired => i \in reap
  /\ pc = "tail" => \A i \in Live : i[1] \in Workers => i[1] \in Desired

DriftInv == DriftPlanned /\ FibersServe /\ OrphansListed

\* Servers only go, none that runs k3s forgets it, and the run stands still.
LEMMA DriftFrame ==
  ASSUME DriftInv,
         UNCHANGED <<config, pc, plan, replace, fiber, target>>,
         pc # "servers" => UNCHANGED reap,
         Live' \subseteq Live,
         \A i \in Live' : built'[i] = built[i] /\ (i \in joined => i \in joined')
  PROVE  DriftInv'
<1>1. Desired' = Desired
  BY DEF Desired
<1>2. \A n : Named(n)' \subseteq Named(n)
  BY DEF Named
<1>3. DriftPlanned'
  BY <1>1 DEF DriftInv, DriftPlanned
<1>4. FibersServe'
  BY <1>1, <1>2 DEF DriftInv, FibersServe
<1>5. OrphansListed'
  BY <1>1 DEF DriftInv, OrphansListed
<1> QED
  BY <1>3, <1>4, <1>5 DEF DriftInv

LEMMA DriftEnds ==
  ASSUME Exit \/ TearDownHalfBuilt
  PROVE  DriftInv'
BY DEF Exit, TearDownHalfBuilt, DriftInv, DriftPlanned, FibersServe, OrphansListed, Exact

\* A phase that ends without a step of a fiber or of the cloud.
LEMMA DriftMoves ==
  ASSUME FibersServe, UNCHANGED <<config, status, joined, fiber, target>>,
         pc' \in {"orphans", "drain", "tail"} => \A n \in Desired : fiber[n] = "installed"
  PROVE  FibersServe'
BY DEF FibersServe, Named, Live, Desired

LEMMA InitDrift == Init => DriftInv
BY DEF Init, DriftInv, DriftPlanned, FibersServe, OrphansListed, Exact

\* What the planner calls no drift has the hash of the config.
LEMMA PlanShowsDrift ==
  ASSUME TypeOK, LiveStamped, OneServerPerName, NEW have \in Inventories,
         NEW i \in Live, i[1] \in Desired \intersect Exact
  PROVE  \/ built[i] = config[i[1]]
         \/ ComputePlan(config, have)[i[1]] = "ReplaceNeedsConfirm"
<1>1. i[1] \in Names /\ config[i[1]] # Absent
  BY DEF Desired
<1>2. /\ have \in [Names -> Hashes \union {Absent}]
      /\ config \in [Names -> Hashes \union {Absent}]
  BY ConfigsAssumption DEF Inventories, TypeOK
<1>3. i \in Named(i[1])
  BY DEF Named
<1>4. PICK j \in Named(i[1]) : have[i[1]] = built[j]
  BY <1>1, <1>3 DEF Inventories
<1>5. j = i
  BY <1>4 DEF OneServerPerName, Named
<1>6. have[i[1]] \in Hashes
  BY <1>4, <1>5 DEF LiveStamped, TypeOK, Live
<1>7. have[i[1]] # Absent /\ have[i[1]] # NoHash
  BY <1>6, ConfigsAssumption
<1>8. ComputePlan(config, have)[i[1]] = ActionFor(config[i[1]], have[i[1]])
  BY <1>1, <1>2, ComputePlanType
<1> QED
  BY <1>1, <1>4, <1>5, <1>7, <1>8 DEF ActionFor

LEMMA NextDrift ==
  ASSUME TypeOK, OneInv, RunInv, DriftInv, [Next]_vars
  PROVE  DriftInv'
<1> USE DEF DriftInv
<1>1. ASSUME NEW yes \in BOOLEAN, ApplyPlan(yes) PROVE DriftInv'
  <2>1. PICK have \in Inventories :
          /\ plan' = ComputePlan(config, have)
          /\ \/ pc' = "infra" /\ replace' = NamesToReplace(plan')
             \/ pc' = "confirm" /\ UNCHANGED replace
    BY <1>1 DEF ApplyPlan, Goto
  <2>2. UNCHANGED <<config, status, built, joined, fiber, target>>
    BY <1>1 DEF ApplyPlan, cloud, k8s
  <2>3. \A i \in Live : i[1] \in Desired \intersect Exact =>
          built[i] = config[i[1]] \/ plan'[i[1]] = "ReplaceNeedsConfirm"
    BY <2>1, PlanShowsDrift DEF OneInv, RunInv
  <2>4. pc' = "infra" => \A n \in Names : plan'[n] = "ReplaceNeedsConfirm" => n \in replace'
    <3>1. plan' \in [Names -> Actions]
      BY <1>1, PlanType
    <3> QED
      BY <2>1, <3>1, NamesToReplaceType
  <2>5. DriftPlanned'
    BY <2>1, <2>2, <2>3, <2>4 DEF DriftPlanned, Live, Desired
  <2> QED
    BY <2>1, <2>2, <2>5, DriftMoves DEF OrphansListed
<1>2. ASSUME NEW n \in Names, CreateServer(n) PROVE DriftInv'
  <2>1. PICK s \in Slots :
          /\ status' = [status EXCEPT ![<<n, s>>] = "BUILD"]
          /\ built' = [built EXCEPT ![<<n, s>>] = config[n]]
          /\ target' = [target EXCEPT ![n] = <<n, s>>]
    BY <1>2 DEF CreateServer, FreeSlots
  <2>2. /\ UNCHANGED <<config, pc, plan, replace, reap, joined>>
        /\ fiber' = [fiber EXCEPT ![n] = "boot"]
        /\ <<n, s>> \in Ids
        /\ n \in Exact => Named(n) = {}
        /\ pc \in {"masters", "workers"}
    BY <1>2 DEF CreateServer, k8s, Running, Ids, Step, OneInv, FibersKnow
  <2>3. Live' = Live \union {<<n, s>>}
    BY <2>1, <2>2 DEF Live, TypeOK
  <2>4. /\ n \in Exact => Named(n)' = {<<n, s>>}
        /\ \A m \in Names : m # n => Named(m)' = Named(m)
    BY <2>2, <2>3 DEF Named
  <2>5. DriftPlanned'
    <3>1. \A i \in Live' : i = <<n, s>> \/ (i \in Live /\ built'[i] = built[i])
      BY <2>1, <2>2, <2>3 DEF TypeOK, Live
    <3>2. built'[<<n, s>>] = config[n]
      BY <2>1, <2>2 DEF TypeOK
    <3> QED
      BY <2>2, <3>1, <3>2 DEF DriftPlanned, Desired
  <2>6. FibersServe'
    <3>1. \A m \in Names : m # n => fiber'[m] = fiber[m] /\ target'[m] = target[m]
      BY <2>1, <2>2 DEF TypeOK
    <3>2. fiber'[n] = "boot" /\ target'[n] = <<n, s>>
      BY <2>1, <2>2 DEF TypeOK
    <3>3. ASSUME NEW m \in Exact, m # n, fiber[m] = "installed" PROVE target[m] # <<n, s>>
      BY <3>3 DEF FibersServe
    <3> QED
      BY <2>2, <2>3, <2>4, <3>1, <3>2, <3>3 DEF FibersServe, Exact
  <2>7. OrphansListed'
    BY <2>2 DEF OrphansListed
  <2> QED
    BY <2>5, <2>6, <2>7
<1>3. ASSUME NEW n \in Names, FindExisting(n) PROVE DriftInv'
  <2>1. PICK i \in Found(n) : target' = [target EXCEPT ![n] = i]
    BY <1>3 DEF FindExisting
  <2>2. n \in Exact => Named(n) \subseteq {i} /\ i[1] = n
    BY <2>1, ExactFinds DEF OneInv, OneServerPerName, Named
  <2>3. /\ UNCHANGED <<config, pc, plan, replace, reap, joined, status, built>>
        /\ fiber' = [fiber EXCEPT ![n] = "adopt"]
        /\ pc \in {"masters", "workers"}
    BY <1>3 DEF FindExisting, Step, Running, cloud, k8s
  <2>4. DriftPlanned' /\ OrphansListed'
    BY <2>3 DEF DriftPlanned, OrphansListed, Live, Desired
  <2>5. FibersServe'
    BY <2>1, <2>2, <2>3 DEF FibersServe, Named, Live, TypeOK
  <2> QED
    BY <2>4, <2>5
<1>4. ASSUME NEW n \in Names, FindNothing(n) \/ BrokenGone(n) \/ FindBroken(n)
      PROVE  DriftInv'
  <2>1. /\ UNCHANGED <<config, pc, plan, replace, reap, joined, status, built>>
        /\ pc \in {"masters", "workers"}
        /\ fiber' \in {[fiber EXCEPT ![n] = "create"], [fiber EXCEPT ![n] = "reap"]}
        /\ \A m \in Names : m # n => target'[m] = target[m]
    BY <1>4 DEF FindNothing, BrokenGone, FindBroken, Step, Running, cloud, k8s, TypeOK
  <2>2. DriftPlanned' /\ OrphansListed'
    BY <2>1 DEF DriftPlanned, OrphansListed, Live, Desired
  <2>3. /\ \A m \in Names : m # n => fiber'[m] = fiber[m]
        /\ fiber'[n] \in {"create", "reap"}
    BY <2>1 DEF TypeOK
  <2>4. FibersServe'
    BY <2>1, <2>3 DEF FibersServe, Named, Live, Exact
  <2> QED
    BY <2>2, <2>4
<1>5. ASSUME NEW n \in Names, ServerActive(n) PROVE DriftInv'
  <2>1. /\ UNCHANGED <<config, pc, plan, replace, reap, joined, status, built, target>>
        /\ pc \in {"masters", "workers"}
        /\ fiber[n] \in {"adopt", "boot"}
        /\ fiber' = [fiber EXCEPT ![n] = "done"]
    BY <1>5 DEF ServerActive, Step, Running, cloud, k8s
  <2>2. DriftPlanned' /\ OrphansListed'
    BY <2>1 DEF DriftPlanned, OrphansListed, Live, Desired
  <2>3. FibersServe'
    BY <2>1 DEF FibersServe, Named, Live, TypeOK
  <2> QED
    BY <2>2, <2>3
<1>6. ASSUME NEW n \in Names, Install(n) PROVE DriftInv'
  <2>1. /\ UNCHANGED <<config, pc, plan, replace, reap, status, built, target>>
        /\ pc = "install"
        /\ fiber[n] = "done"
        /\ fiber' = [fiber EXCEPT ![n] = "installed"]
        /\ joined' = joined \union {target[n]}
    BY <1>6 DEF Install, Step, cloud
  <2>2. DriftPlanned' /\ OrphansListed'
    BY <2>1 DEF DriftPlanned, OrphansListed, Live, Desired
  <2>3. FibersServe'
    BY <2>1 DEF FibersServe, Named, Live, TypeOK
  <2> QED
    BY <2>2, <2>3
<1>7. ASSUME NEW i \in Ids, Boot(i) \/ Break(i) \/ Vanish(i) PROVE DriftInv'
  <2>1. /\ UNCHANGED <<config, pc, plan, replace, fiber, target, reap>>
        /\ Live' \subseteq Live
        /\ \A j \in Live' : built'[j] = built[j] /\ (j \in joined => j \in joined')
    BY <1>7 DEF Boot, Break, Vanish, Healthy, Live, run, k8s, TypeOK
  <2> QED
    BY <2>1, DriftFrame
<1>8. ASSUME NEW i \in Ids,
             DeleteDrifted(i) \/ Drain(i) \/ DeleteOrphan(i) \/ DeleteServer(i)
      PROVE  DriftInv'
  <2>1. /\ UNCHANGED <<config, pc, plan, replace, fiber, target, status, built, joined>>
        /\ pc # "servers" => UNCHANGED reap
    BY <1>8 DEF DeleteDrifted, Drain, DeleteOrphan, DeleteServer, run, k8s, cloud
  <2> QED
    BY <2>1, DriftFrame DEF Live
<1>9. ASSUME NEW yes \in BOOLEAN, DeletePlan(yes) PROVE DriftInv'
  <2>1. /\ UNCHANGED <<config, status, joined, fiber, target>>
        /\ pc' \in {"teardown", "delconfirm"}
    BY <1>9 DEF DeletePlan, Goto, cloud, k8s
  <2> QED
    BY <2>1, DriftMoves DEF DriftPlanned, OrphansListed
<1>10. CASE EditConfig
  BY <1>10 DEF EditConfig, cloud, k8s, run, DriftPlanned, FibersServe, OrphansListed, Named, Live
<1>11. CASE Confirm
  <2>1. /\ UNCHANGED <<config, plan, status, built, joined, fiber, target>>
        /\ pc = "confirm" /\ pc' = "infra"
        /\ replace' = {n \in Names : plan[n] = "ReplaceNeedsConfirm"}
    BY <1>11, NamesToReplaceType DEF Confirm, Goto, cloud, k8s, TypeOK
  <2> QED
    BY <2>1, DriftMoves DEF DriftPlanned, OrphansListed, Live, Desired
<1>12. CASE EnsureNetwork \/ EnsureLoadBalancer
  <2>1. /\ UNCHANGED <<config, plan, replace, status, built, joined, fiber, target>>
        /\ pc \in {"infra", "lb"} /\ pc' \in {"lb", "refuse"}
    BY <1>12 DEF EnsureNetwork, EnsureLoadBalancer, Goto, k8s
  <2> QED
    BY <2>1, DriftMoves DEF DriftPlanned, OrphansListed, Live, Desired
<1>13. CASE ListDrifted
  <2>1. /\ UNCHANGED <<config, plan, replace, status, built, joined, fiber, target>>
        /\ pc = "refuse" /\ pc' = "drift"
        /\ reap' = {i \in Live : i[1] \in replace}
    BY <1>13 DEF ListDrifted, Goto, cloud, k8s
  <2> QED
    BY <2>1, DriftMoves DEF DriftPlanned, OrphansListed, Live, Desired
<1>14. CASE DriftGone
  <2>1. /\ UNCHANGED <<config, plan, replace, status, built, joined, fiber, target>>
        /\ pc = "drift" /\ pc' = "masters"
        /\ reap \intersect Live = {}
    BY <1>14 DEF DriftGone, Goto, cloud, k8s
  <2>2. \A i \in Live : i[1] \in Desired \intersect Exact => built[i] = config[i[1]]
    BY <2>1 DEF DriftPlanned, Live, Ids, Desired
  <2> QED
    BY <2>1, <2>2, DriftMoves DEF DriftPlanned, OrphansListed, Live, Desired
<1>15. CASE MastersReady \/ WorkersReady \/ InstallAddons
  <2>1. /\ UNCHANGED <<config, plan, replace, status, built, joined, fiber, target>>
        /\ pc \in {"masters", "workers", "install"}
        /\ pc' \in {"workers", "install"}
           \/ (pc' = "orphans" /\ \A n \in Desired : fiber[n] = "installed")
    BY <1>15 DEF MastersReady, WorkersReady, InstallAddons, Goto, cloud, k8s
  <2> QED
    BY <2>1, DriftMoves DEF DriftPlanned, OrphansListed, Live, Desired
<1>16. CASE ListOrphans
  <2>1. /\ UNCHANGED <<config, plan, replace, status, built, joined, fiber, target>>
        /\ pc = "orphans" /\ pc' = "drain"
        /\ reap' = {i \in Live : /\ i[1] \in LooksLikeWorker
                                 /\ i[1] \notin Desired \intersect Workers}
    BY <1>16 DEF ListOrphans, Goto, cloud, k8s
  <2>2. OrphansListed'
    BY <2>1, NamesAssumption DEF OrphansListed, Live, Desired
  <2>3. FibersServe'
    BY <2>1, DriftMoves DEF FibersServe
  <2> QED
    BY <2>1, <2>2, <2>3 DEF DriftPlanned, Live, Desired
<1>17. CASE OrphansGone
  <2>1. /\ UNCHANGED <<config, plan, replace, status, built, joined, fiber, target>>
        /\ pc = "drain" /\ pc' = "tail"
        /\ reap \subseteq drained /\ drained \intersect Live = {}
    BY <1>17 DEF OrphansGone, Goto, cloud, k8s
  <2>2. OrphansListed'
    BY <2>1 DEF OrphansListed, Live, Desired
  <2>3. FibersServe'
    BY <2>1, DriftMoves DEF FibersServe
  <2> QED
    BY <2>1, <2>2, <2>3 DEF DriftPlanned, Live, Desired
<1>18. CASE ConfirmDelete \/ DeleteLoadBalancer
  <2>1. /\ UNCHANGED <<config, status, joined, fiber, target>>
        /\ pc' \in {"teardown", "servers"}
    BY <1>18 DEF ConfirmDelete, DeleteLoadBalancer, Goto, cloud, k8s
  <2> QED
    BY <2>1, DriftMoves DEF DriftPlanned, OrphansListed
<1>19. CASE \/ Fail \/ Crash \/ Decline \/ RefuseMasterReplace \/ Finish
            \/ CleanupDone \/ DeleteNetwork \/ NetworkInUse
            \/ \E n \in Names : ServerFails(n) \/ InstallFails(n)
  <2>1. Exit \/ TearDownHalfBuilt
    BY <1>19 DEF Fail, Crash, Decline, RefuseMasterReplace, Finish, CleanupDone,
         DeleteNetwork, NetworkInUse, ServerFails, InstallFails
  <2> QED
    BY <2>1, DriftEnds
<1>20. CASE UNCHANGED vars
  BY <1>20, DriftFrame DEF vars, Live
<1> QED
  BY <1>1, <1>2, <1>3, <1>4, <1>5, <1>6, <1>7, <1>8, <1>9, <1>10, <1>11, <1>12, <1>13,
     <1>14, <1>15, <1>16, <1>17, <1>18, <1>19, <1>20 DEF Next, Progress, Settle, Fiber

\* An apply that reports success leaves every server of an exact name of the
\* config at the hash of the config and with k3s, and no orphaned worker,
\* whatever broke, was interrupted or was edited between runs before
\* (cli/src/k3s/reconcile.ts), for any number of servers and whatever the other
\* names' filters return.
THEOREM SuccessMeansNoDrift == Spec => SuccessLeavesNoDrift
<1>1. Init => TypeOK /\ OneInv /\ RunInv /\ DriftInv
  BY InitTypeOK, InitOneInv, InitRunInv, InitDrift
<1>2. TypeOK /\ OneInv /\ RunInv /\ DriftInv /\ [Next]_vars
        => (TypeOK /\ OneInv /\ RunInv /\ DriftInv)'
  BY NextTypeOK, NextOneInv, NextRunInv, NextDrift
<1>3. ASSUME DriftInv, Finish
      PROVE  /\ \A n \in Desired \intersect Exact : target[n][1] = n
             /\ \A i \in Live \ deleting :
                  i[1] \in Desired \intersect Exact
                    => built[i] = config[i[1]] /\ i \in joined
             /\ \A i \in Live : i[1] \in Workers => i[1] \in Desired
  <2>1. pc = "tail" /\ Desired \subseteq Names
    BY <1>3 DEF Finish, Desired
  <2>2. ASSUME NEW i \in Live, i[1] \in Desired \intersect Exact PROVE i \in joined
    BY <1>3, <2>1, <2>2 DEF DriftInv, FibersServe, Named
  <2> QED
    BY <1>3, <2>1, <2>2 DEF DriftInv, DriftPlanned, FibersServe, OrphansListed
<1>4. DriftInv /\ [Next]_vars
        => [Finish =>
              /\ \A n \in Desired \intersect Exact : target[n][1] = n
              /\ \A i \in Live \ deleting :
                   i[1] \in Desired \intersect Exact
                    => built[i] = config[i[1]] /\ i \in joined
              /\ \A i \in Live : i[1] \in Workers => i[1] \in Desired]_vars
  BY <1>3
<1> QED
  BY <1>1, <1>2, <1>4, PTL DEF Spec, SuccessLeavesNoDrift
=============================================================================
