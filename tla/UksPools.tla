------------------------------ MODULE UksPools ------------------------------
(***************************************************************************)
(* The worker pools of a managed UpCloud (UKS) cluster.  A node group      *)
(* cannot be changed in place: a changed pool gets a group of its own, a   *)
(* new generation, named after the pool and the hash of its spec; the old  *)
(* one is deleted after it.  Sources: upcloud/distro-uks                   *)
(* {nodegroup-diff,ensure-nodepools,status}.ts and cli/src/upcloud/plan.ts. *)
(***************************************************************************)
EXTENDS Naturals, Plan

CONSTANTS
  Pools,
  Hashes,     \* hashes of pool specs
  Rank,       \* the order of the group names that the hashes give
  Configs,    \* what the operator may ask: a hash and a count for each pool
  MaxFaults,  \* bound: failed groups, groups removed by hand, interruptions
  MaxEdits    \* bound: edits of the config

Groups == Pools \X Hashes  \* node groups; g[1] is the pool, g[2] the spec

CountsOf == {c.count[p] : c \in Configs, p \in Pools} \union {0}

ASSUME PoolsAssumption ==
  /\ Rank \in [Hashes -> Nat]
  /\ \A h, k \in Hashes : Rank[h] = Rank[k] => h = k
  /\ Absent \notin Hashes
  /\ NoHash \notin Hashes
  /\ MaxFaults \in Nat
  /\ MaxEdits \in Nat
  /\ Configs # {}
  /\ \A c \in Configs : /\ c.hash \in [Pools -> Hashes \union {Absent}]
                        /\ c.count \in [Pools -> Nat]

VARIABLES
  config,     \* the config file
  state,      \* the state UpCloud reports of each group
  count,      \* the number of nodes of each group
  pc,         \* where the CLI process is
  replace,    \* the pools whose replacement the operator confirmed
  toCreate, toReplace, toUpdate, toDelete,  \* the diff, as far as not done
  awaited,    \* the groups the process polls
  faults, edits

diff == <<toCreate, toReplace, toUpdate, toDelete>>
run  == <<pc, replace, toCreate, toReplace, toUpdate, toDelete, awaited>>
vars == <<config, state, count, pc, replace, toCreate, toReplace, toUpdate,
          toDelete, awaited, faults, edits>>

Desired == {p \in Pools : config.hash[p] # Absent}
Wanted(p) == <<p, config.hash[p]>>

\* listNodeGroups: groups that are terminating are not listed.
Listed == {g \in Groups : state[g] \in {"pending", "running", "failed"}}
Generations(p) == {g \in Listed : g[1] = p}

\* Where _applyDiff is at work.
Loops == {"create", "replace", "update", "delete"}

Init ==
  /\ config \in Configs
  /\ state = [g \in Groups |-> "none"]
  /\ count = [g \in Groups |-> 0]
  /\ pc = "idle"
  /\ replace = {}
  /\ toCreate = {} /\ toReplace = {} /\ toUpdate = {} /\ toDelete = {}
  /\ awaited = {}
  /\ faults = 0
  /\ edits = 0

\* The process ends, well or badly.
Exit ==
  /\ pc' = "idle"
  /\ replace' = {}
  /\ toCreate' = {} /\ toReplace' = {} /\ toUpdate' = {} /\ toDelete' = {}
  /\ awaited' = {}

-----------------------------------------------------------------------------
(* plan.ts _poolAction: the row of a desired pool looks at one group of the *)
(* pool, the first that UpCloud lists.                                      *)

Inventories ==
  {first \in [Pools -> Groups \union {Absent}] :
     \A p \in Pools : IF Generations(p) = {} THEN first[p] = Absent
                      ELSE first[p] \in Generations(p)}

\* Mutant of PoolAction: only the count is compared.
PoolActionBlind(p, first) ==
  CASE p \notin Desired                                    -> "None"
    [] p \in Desired /\ first = Absent                     -> "Create"
    [] OTHER -> IF count[first] = config.count[p] THEN "NoOp" ELSE "Update"

PoolAction(p, first) ==
  CASE p \notin Desired                                    -> "None"
    [] p \in Desired /\ first = Absent                     -> "Create"
    [] p \in Desired /\ first # Absent /\ first # Wanted(p) -> "ReplaceNeedsConfirm"
    [] OTHER -> IF count[first] = config.count[p] THEN "NoOp" ELSE "Update"

\* commands.ts _applyFlow; `other': a row that is not a pool's is not a NoOp.
ApplyPlanOf(other, yes) ==
  /\ pc = "idle"
  /\ \E first \in Inventories :
       LET plan == [p \in Pools |-> PoolAction(p, first[p])]
           decision == DecidePlanAction(plan, other, yes, FALSE)
       IN /\ \/ decision = "Proceed" /\ pc' = "list"
             \/ decision = "NeedsConfirm" /\ pc' = "confirm"
          /\ replace' = NamesToReplace(plan)
  /\ UNCHANGED <<config, state, count, diff, awaited, faults, edits>>

ApplyPlan(yes) == \E other \in BOOLEAN : ApplyPlanOf(other, yes)

Confirm ==
  /\ pc = "confirm"
  /\ pc' = "list"
  /\ UNCHANGED <<config, state, count, replace, diff, awaited, faults, edits>>

Decline ==
  /\ pc = "confirm"
  /\ Exit
  /\ UNCHANGED <<config, state, count, faults, edits>>

\* What comes before the pools fails: the network, the cluster.
Refused ==
  /\ pc = "list"
  /\ Exit
  /\ UNCHANGED <<config, state, count, faults, edits>>

-----------------------------------------------------------------------------
(* nodegroup-diff.ts diffNodePools                                         *)

\* _liveGeneration: of a drifted pool, the first by name.
LiveGeneration(p) ==
  CHOOSE g \in Generations(p) : \A h \in Generations(p) : Rank[g[2]] <= Rank[h[2]]

Drifted(p) == Generations(p) # {} /\ Wanted(p) \notin Generations(p)

Stale(p) ==
  IF Wanted(p) \in Generations(p) THEN Generations(p) \ {Wanted(p)}
  ELSE IF Drifted(p) /\ p \in replace THEN Generations(p) \ {LiveGeneration(p)}
  ELSE {}

Undesired == {g \in Listed : g[1] \notin Desired}

\* Mutants of ListGroups: a drifted pool is replaced whether confirmed or not;
\* the stale generations are forgotten.
ListGroupsUnconfirmed ==
  /\ pc = "list"
  /\ toCreate' = {Wanted(p) : p \in {q \in Desired : Generations(q) = {}}}
  /\ toReplace' = {<<Wanted(p), LiveGeneration(p)>> : p \in {q \in Desired : Drifted(q)}}
  /\ toUpdate' = {g \in Listed : g[1] \in Desired /\ g = Wanted(g[1])
                                 /\ count[g] # config.count[g[1]]}
  /\ toDelete' = Undesired \union UNION {Stale(p) : p \in Desired}
  /\ pc' = "create"
  /\ UNCHANGED <<config, state, count, replace, awaited, faults, edits>>

ListGroupsForgetful ==
  /\ pc = "list"
  /\ toCreate' = {Wanted(p) : p \in {q \in Desired : Generations(q) = {}}}
  /\ toReplace' = {<<Wanted(p), LiveGeneration(p)>> :
                     p \in {q \in Desired \intersect replace : Drifted(q)}}
  /\ toUpdate' = {g \in Listed : g[1] \in Desired /\ g = Wanted(g[1])
                                 /\ count[g] # config.count[g[1]]}
  /\ toDelete' = Undesired
  /\ pc' = "create"
  /\ UNCHANGED <<config, state, count, replace, awaited, faults, edits>>

\* ensureNodePools lists the groups again and computes the whole diff.
ListGroups ==
  /\ pc = "list"
  /\ toCreate' = {Wanted(p) : p \in {q \in Desired : Generations(q) = {}}}
  /\ toReplace' = {<<Wanted(p), LiveGeneration(p)>> :
                     p \in {q \in Desired \intersect replace : Drifted(q)}}
  /\ toUpdate' = {g \in Listed : g[1] \in Desired /\ g = Wanted(g[1])
                                 /\ count[g] # config.count[g[1]]}
  /\ toDelete' = Undesired \union UNION {Stale(p) : p \in Desired}
  /\ pc' = "create"
  /\ UNCHANGED <<config, state, count, replace, awaited, faults, edits>>

-----------------------------------------------------------------------------
(* ensure-nodepools.ts _applyDiff: four loops, one item at a time.         *)

\* The POST of a group; its name is taken while its namesake terminates.
Post(g) ==
  /\ state[g] = "none"
  /\ state' = [state EXCEPT ![g] = "pending"]
  /\ count' = [count EXCEPT ![g] = config.count[g[1]]]
  /\ awaited' = {g}

\* The DELETE of a group
Delete(g) ==
  /\ g \in Listed
  /\ state' = [state EXCEPT ![g] = "terminating"]
  /\ awaited' = {g}
  /\ UNCHANGED count

CreateGroup(g) ==
  /\ pc = "create"
  /\ awaited = {}
  /\ g \in toCreate
  /\ Post(g)
  /\ toCreate' = toCreate \ {g}
  /\ UNCHANGED <<config, pc, replace, toReplace, toUpdate, toDelete, faults, edits>>

\* Mutant of CreateReplacement: the old generation goes first.
DeleteThenCreate(r) ==
  /\ pc = "replace"
  /\ awaited = {}
  /\ r \in toReplace
  /\ IF r[2] \in Listed THEN Delete(r[2]) ELSE Post(r[1])
  /\ UNCHANGED <<config, pc, replace, diff, faults, edits>>

\* _replace, first half: r[1] is the new generation of r[2].
CreateReplacement(r) ==
  /\ pc = "replace"
  /\ awaited = {}
  /\ r \in toReplace
  /\ r[1] \notin Listed
  /\ Post(r[1])
  /\ UNCHANGED <<config, pc, replace, diff, faults, edits>>

\* _replace, second half: the new generation was seen running.
DeleteReplaced(r) ==
  /\ pc = "replace"
  /\ r \in toReplace
  /\ awaited = {r[1]}
  /\ state[r[1]] = "running"
  /\ Delete(r[2])
  /\ toReplace' = toReplace \ {r}
  /\ UNCHANGED <<config, pc, replace, toCreate, toUpdate, toDelete, faults, edits>>

UpdateGroup(g) ==
  /\ pc = "update"
  /\ awaited = {}
  /\ g \in toUpdate
  /\ count' = [count EXCEPT ![g] = config.count[g[1]]]
  /\ toUpdate' = toUpdate \ {g}
  /\ awaited' = {g}
  /\ UNCHANGED <<config, state, pc, replace, toCreate, toReplace, toDelete, faults, edits>>

DeleteGroup(g) ==
  /\ pc = "delete"
  /\ awaited = {}
  /\ g \in toDelete
  /\ Delete(g)
  /\ toDelete' = toDelete \ {g}
  /\ UNCHANGED <<config, pc, replace, toCreate, toReplace, toUpdate, faults, edits>>

\* pollUntil running (creation, update), pollUntilGone (deletion).
Awaited(g) ==
  /\ awaited = {g}
  /\ \/ pc \in {"create", "update"} /\ state[g] = "running"
     \/ pc \in {"replace", "delete"} /\ state[g] = "none"
  /\ awaited' = {}
  /\ UNCHANGED <<config, state, count, pc, replace, diff, faults, edits>>

\* The poll sees "failed", or the POST is refused: apply fails.
AwaitFails(g) ==
  /\ pc \in {"create", "replace", "update"}
  /\ \/ awaited = {g} /\ state[g] = "failed"
     \/ awaited = {} /\ state[g] = "terminating"
        /\ g \in toCreate \union {r[1] : r \in toReplace}
  /\ Exit
  /\ UNCHANGED <<config, state, count, faults, edits>>

NextLoop ==
  /\ awaited = {}
  /\ \/ pc = "create" /\ toCreate = {} /\ pc' = "replace"
     \/ pc = "replace" /\ toReplace = {} /\ pc' = "update"
     \/ pc = "update" /\ toUpdate = {} /\ pc' = "delete"
  /\ UNCHANGED <<config, state, count, replace, diff, awaited, faults, edits>>

\* ensureNodePools returns; apply reports success for the pools.
Finish ==
  /\ pc = "delete"
  /\ awaited = {}
  /\ toDelete = {}
  /\ Exit
  /\ UNCHANGED <<config, state, count, faults, edits>>

\* An API error, a timeout, a signal.
Interrupted ==
  /\ pc # "idle"
  /\ faults < MaxFaults
  /\ faults' = faults + 1
  /\ Exit
  /\ UNCHANGED <<config, state, count, edits>>

EditConfig ==
  /\ pc = "idle"
  /\ edits < MaxEdits
  /\ edits' = edits + 1
  /\ config' \in Configs \ {config}
  /\ UNCHANGED <<state, count, run, faults>>

-----------------------------------------------------------------------------
(* UpCloud                                                                 *)

Boot(g) ==
  /\ state[g] = "pending"
  /\ state' = [state EXCEPT ![g] = "running"]
  /\ UNCHANGED <<config, count, run, faults, edits>>

Gone(g) ==
  /\ state[g] = "terminating"
  /\ state' = [state EXCEPT ![g] = "none"]
  /\ count' = [count EXCEPT ![g] = 0]
  /\ UNCHANGED <<config, run, faults, edits>>

Break(g) ==
  /\ state[g] \in {"pending", "running"}
  /\ faults < MaxFaults
  /\ faults' = faults + 1
  /\ state' = [state EXCEPT ![g] = "failed"]
  /\ UNCHANGED <<config, count, run, edits>>

\* Somebody deletes a group by hand, but not while ensureNodePools runs.
RemovedByHand(g) ==
  /\ pc \in {"idle", "confirm"}
  /\ g \in Listed
  /\ faults < MaxFaults
  /\ faults' = faults + 1
  /\ state' = [state EXCEPT ![g] = "terminating"]
  /\ UNCHANGED <<config, count, run, edits>>

\* The cluster is gone, and every group with it.
ClusterGone ==
  /\ pc \notin Loops
  /\ state' = [g \in Groups |-> "none"]
  /\ count' = [g \in Groups |-> 0]
  /\ UNCHANGED <<config, run, faults, edits>>

-----------------------------------------------------------------------------
Progress ==
  \/ Confirm \/ ListGroups \/ NextLoop \/ Finish
  \/ \E g \in Groups : \/ CreateGroup(g) \/ UpdateGroup(g) \/ DeleteGroup(g)
                       \/ Awaited(g) \/ AwaitFails(g)
  \/ \E r \in Groups \X Groups : CreateReplacement(r) \/ DeleteReplaced(r)

Settle == \E g \in Groups : Boot(g) \/ Gone(g)

Next ==
  \/ Progress
  \/ Settle
  \/ \E yes \in BOOLEAN : ApplyPlan(yes)
  \/ Decline \/ Refused \/ Interrupted \/ EditConfig \/ ClusterGone
  \/ \E g \in Groups : Break(g) \/ RemovedByHand(g)

Spec == Init /\ [][Next]_vars

-----------------------------------------------------------------------------
TypeOK ==
  /\ config \in Configs
  /\ state \in [Groups -> {"none", "pending", "running", "failed", "terminating"}]
  /\ count \in [Groups -> CountsOf]
  /\ pc \in {"idle", "confirm", "list", "create", "replace", "update", "delete"}
  /\ replace \subseteq Pools
  /\ toCreate \subseteq Groups
  /\ toReplace \subseteq Groups \X Groups
  /\ toUpdate \subseteq Groups
  /\ toDelete \subseteq Groups
  /\ awaited \subseteq Groups
  /\ faults \in 0..MaxFaults
  /\ edits \in 0..MaxEdits

\* The groups that the process asks UpCloud to delete in this step.
Deleted == {g \in Listed : state'[g] = "terminating" /\ pc \notin {"idle", "confirm"}}

\* Whatever fails or is interrupted, apply never takes a desired pool's last
\* node group away (two generations overlap, ensure-nodepools.ts:110).
PoolNeverEmptied ==
  [][\A g \in Deleted : g[1] \in Desired => \E h \in Generations(g[1]) : h \notin Deleted]_vars

\* A second generation of a pool is started only if the operator confirmed the
\* replacement (nodegroup-diff.ts:35): the groups are listed again after the
\* confirmation, and may have changed.
OverlapIsConfirmed ==
  [][\A g \in Groups :
       /\ state[g] = "none" /\ state'[g] = "pending"
       /\ Generations(g[1]) # {}
       => g[1] \in replace]_vars

\* After success no group is left of a pool nobody desires, and a desired pool
\* has the one generation and the size the config asks for, unless it drifted
\* after the operator was asked.
SuccessIsDesired ==
  [][Finish =>
       /\ Undesired = {}
       /\ \A p \in Desired :
            \/ Generations(p) = {Wanted(p)} /\ count[Wanted(p)] = config.count[p]
            \/ p \notin replace /\ Wanted(p) \notin Generations(p)]_vars

\* The node groups, as their operator sees them, keep the contract of
\* PoolContract: the listing taken after the confirmation, the diff worked off
\* in four loops and the runs cut short never show in what is added or dropped.
Contract == INSTANCE PoolContract
              WITH wanted <- config.hash, live <- Listed, approved <- replace,
                   busy <- pc \in Loops

KeepsContract == Contract!Spec

\* ensure-nodepools.ts:110, "new generation must reach running before the old
\* is deleted".
NewRunsBeforeOldGoes ==
  [][\A g \in Deleted : g[1] \in Desired => state[Wanted(g[1])] = "running"]_vars
=============================================================================
