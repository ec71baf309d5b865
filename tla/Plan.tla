-------------------------------- MODULE Plan --------------------------------
(***************************************************************************)
(* The planner every distro shares: packages/core/src/plan/diff.ts and     *)
(* packages/core/src/present/decide.ts.  A desired resource is known by    *)
(* the hash of its spec, a live one by the hash stamped on it when it was  *)
(* created.  Both sides are functions over one set of names, Absent where  *)
(* the name is not desired, or has no resource.                            *)
(***************************************************************************)

Absent == "absent"      \* no such resource
NoHash == "unstamped"   \* a live resource whose configHash is undefined

Actions == {"None", "Create", "NoOp", "ReplaceNeedsConfirm", "Delete"}

\* diff.ts _actionFor, with the Delete rows that computePlan appends for the
\* live resources nobody desires.
ActionFor(want, have) ==
  CASE want = Absent /\ have = Absent     -> "None"
    [] want = Absent /\ have # Absent     -> "Delete"
    [] want # Absent /\ have = Absent     -> "Create"
    [] want # Absent /\ have = NoHash     -> "NoOp"
    [] want # Absent /\ have = want       -> "NoOp"
    [] OTHER                              -> "ReplaceNeedsConfirm"

\* diff.ts computePlan: one row per desired name and per live name.
ComputePlan(desired, actual) ==
  [n \in DOMAIN desired |-> ActionFor(desired[n], actual[n])]

\* diff.ts namesToReplace
NamesToReplace(plan) ==
  {n \in DOMAIN plan : plan[n] = "ReplaceNeedsConfirm"}

\* Is any row something other than NoOp?
HasWork(plan) == \E n \in DOMAIN plan : plan[n] \notin {"None", "NoOp"}

\* decide.ts decidePlanAction.  otherWork: a row outside `plan' is not a NoOp.
DecidePlanAction(plan, otherWork, yes, dryRun) ==
  CASE dryRun                                          -> "DryRun"
    [] ~dryRun /\ ~HasWork(plan) /\ ~otherWork         -> "NothingToDo"
    [] ~dryRun /\ (HasWork(plan) \/ otherWork) /\ yes  -> "Proceed"
    [] OTHER                                           -> "NeedsConfirm"
=============================================================================
