---------------------------- MODULE PoolContract ----------------------------
(***************************************************************************)
(* What the operator of a UKS cluster may rely on about the node groups,   *)
(* whatever steps apply takes and wherever it is cut short: groups change  *)
(* only while apply is at work, except that they may be lost; a group is   *)
(* added only if the config asks for it, and beside another generation of  *)
(* its pool only if the replacement was approved; a desired pool's group   *)
(* goes only if it is not the wanted one and the wanted one is there.      *)
(***************************************************************************)
CONSTANTS Pools, Hashes, Absent

VARIABLES
  wanted,    \* the spec the config asks for in each pool, or Absent
  live,      \* the node groups there are
  approved,  \* the pools whose replacement the operator was asked about
  busy       \* apply is at work on the groups

contractVars == <<wanted, live, approved, busy>>

NodeGroups == Pools \X Hashes
Want(p) == <<p, wanted[p]>>

Init ==
  /\ wanted \in [Pools -> Hashes \union {Absent}]
  /\ live = {}
  /\ approved = {}
  /\ busy = FALSE

\* The operator edits the config, is asked, agrees or not.
Ask ==
  /\ ~busy
  /\ wanted' \in [Pools -> Hashes \union {Absent}]
  /\ approved' \subseteq Pools
  /\ UNCHANGED <<live, busy>>

Lose ==
  /\ ~busy
  /\ live' \subseteq live
  /\ UNCHANGED <<wanted, approved, busy>>

Begin ==
  /\ ~busy
  /\ busy' = TRUE
  /\ UNCHANGED <<wanted, live, approved>>

Add(g) ==
  /\ busy
  /\ g = Want(g[1])
  /\ g \notin live
  /\ g[1] \in approved \/ ~\E h \in live : h[1] = g[1]
  /\ live' = live \union {g}
  /\ UNCHANGED <<wanted, approved, busy>>

Drop(g) ==
  /\ busy
  /\ g \in live
  /\ wanted[g[1]] # Absent => g # Want(g[1]) /\ Want(g[1]) \in live
  /\ live' = live \ {g}
  /\ UNCHANGED <<wanted, approved, busy>>

\* Done, failed or interrupted: what was approved does not outlast the run.
End ==
  /\ busy
  /\ busy' = FALSE
  /\ approved' = {}
  /\ UNCHANGED <<wanted, live>>

Next == Ask \/ Lose \/ Begin \/ End \/ \E g \in NodeGroups : Add(g) \/ Drop(g)

Spec == Init /\ [][Next]_contractVars
=============================================================================
