----------------------------- MODULE K3sUpgrade -----------------------------
(***************************************************************************)
(* The k3s version of every host: what the bootstrap installs, and what    *)
(* `kumulo upgrade' leaves to the system-upgrade-controller by writing two *)
(* Plans, one for the servers and one for the agents.                      *)
(* Sources: cli/src/distro/k3s-entry.ts, distro-k3s/src/upgrade/plan.ts,   *)
(* distro-k3s/src/addons/system-upgrade-controller.ts, core/src/k8s.       *)
(*                                                                         *)
(* The controller is external.  It runs the servers' Plan one node after   *)
(* the other; a job of the agents' Plan first waits, in `prepare', until   *)
(* every server has the version of the Plan it names; and it replaces no   *)
(* binary by an older one.  The k3s install script puts the binary of the  *)
(* version it is given in place and then starts it.                        *)
(***************************************************************************)
EXTENDS K3sBootstrap

CONSTANT MaxVersion  \* bound: version edits of the config

ASSUME VersionsAssumption == MaxVersion \in Nat \ {0}

NoVersion == 0

VARIABLES
  wanted,      \* version in the config
  version,     \* version of the k3s binary on each host
  controller,  \* the Deployment: "absent", "starting" or "available"
  plan,        \* version each Plan asks for, by node role
  upc,         \* where the upgrade command is
  installed    \* alreadyInstalled: a Deployment was found by this run

upgradeVars == <<wanted, version, controller, plan, upc, installed>>
nodeVars    == <<vars, upgradeVars>>

NodesInit ==
  /\ Init
  /\ wanted = 1
  /\ version = [h \in Hosts |-> NoVersion]
  /\ controller = "absent"
  /\ plan = [role \in {"server", "agent"} |-> NoVersion]
  /\ upc = "idle"
  /\ installed = FALSE

Whole == \A h \in Hosts : h \in up /\ member[h] # None /\ member[h] = member[1]

-----------------------------------------------------------------------------
(* The bootstrap, and the operator's config                                *)

\* Hosts whose install script has run in this step, k3s starting or not.
Installed == (done' \ done) \union {h \in refused' : Refused(h)}

\* A step of the bootstrap or of a host: the script installs the version the
\* config wants, a new server has none.
BootstrapStep ==
  /\ upc = "idle"
  /\ Next
  /\ version' = [h \in Hosts |->
       IF h \in Installed THEN wanted
       ELSE IF member'[h] = None /\ member[h] # None THEN NoVersion ELSE version[h]]
  /\ UNCHANGED <<wanted, controller, plan, upc, installed>>

\* The operator raises the version between two commands.
RaiseVersion ==
  /\ pc = "idle"
  /\ upc = "idle"
  /\ wanted < MaxVersion
  /\ wanted' = wanted + 1
  /\ UNCHANGED <<vars, version, controller, plan, upc, installed>>

-----------------------------------------------------------------------------
(* kumulo upgrade                                                          *)

UpgradeGoes(place) == upc' = place /\ UNCHANGED <<vars, wanted, version>>

\* _k8sClientForUpgrade: the kubeconfig is fetched from masters[0].
StartUpgrade ==
  /\ pc = "idle"
  /\ upc = "idle"
  /\ 1 \in up
  /\ UpgradeGoes("probe")
  /\ UNCHANGED <<controller, plan, installed>>

\* _ensureSucReady: a Deployment that exists is not waited for.
ProbeController ==
  /\ upc = "probe"
  /\ installed' = (controller # "absent")
  /\ UpgradeGoes("controller")
  /\ UNCHANGED <<controller, plan>>

ApplyController ==
  /\ upc = "controller"
  /\ controller' = IF controller = "absent" THEN "starting" ELSE controller
  /\ UpgradeGoes(IF installed THEN "server" ELSE "await")
  /\ UNCHANGED <<plan, installed>>

\* waitForDeploymentAvailable
AwaitController ==
  /\ upc = "await"
  /\ controller = "available"
  /\ UpgradeGoes("server")
  /\ UNCHANGED <<controller, plan, installed>>

\* Mutant of AfterPlan: the agents' Plan is not written again.
AfterPlanServersOnly(role) == "idle"

\* applyK3sUpgradeWith, renderUpgradePlan: the servers' Plan, then the agents'.
AfterPlan(role) == IF role = "server" THEN "agent" ELSE "idle"

\* A server-side apply of the Plan, created or patched; the API knows Plans
\* once the controller has run and registered them.
ApplyPlan(role) ==
  /\ upc = role
  /\ controller = "available"
  /\ plan' = [plan EXCEPT ![role] = wanted]
  /\ installed' = FALSE
  /\ UpgradeGoes(AfterPlan(role))
  /\ UNCHANGED controller

\* A Plan that the API does not know yet is answered 404, the run fails.
PlanUnknown(role) ==
  /\ upc = role
  /\ controller # "available"
  /\ installed' = FALSE
  /\ UpgradeGoes("idle")
  /\ UNCHANGED <<controller, plan>>

\* The API cannot be reached, the wait is over, or the process is killed.
UpgradeInterrupted ==
  /\ upc # "idle"
  /\ faults < MaxFaults
  /\ faults' = faults + 1
  /\ upc' = "idle"
  /\ installed' = FALSE
  /\ UNCHANGED <<disks, run, losses, wanted, version, controller, plan>>

-----------------------------------------------------------------------------
(* The system-upgrade-controller                                           *)

ControllerStarts ==
  /\ controller = "starting"
  /\ controller' = "available"
  /\ UNCHANGED <<vars, wanted, version, plan, upc, installed>>

Role(h) == IF h \in Masters THEN "server" ELSE "agent"

\* Mutant of Prepared: renderWorkersPlan without `prepare'.
PreparedAnyway(h) == TRUE

\* `prepare k3s-server' of the agents' Plan.
Prepared(h) ==
  h \in Workers =>
    \A m \in Masters : member[m] # None => version[m] = plan["server"]

Upgrade(h) ==
  /\ controller = "available"
  /\ h \in up
  /\ version[h] < plan[Role(h)]
  /\ Prepared(h)
  /\ version' = [version EXCEPT ![h] = plan[Role(h)]]
  /\ UNCHANGED <<vars, wanted, controller, plan, upc, installed>>

-----------------------------------------------------------------------------
UpgradeSteps ==
  \/ ProbeController \/ ApplyController \/ AwaitController
  \/ \E role \in {"server", "agent"} : ApplyPlan(role) \/ PlanUnknown(role)

ControllerSteps == ControllerStarts \/ \E h \in Hosts : Upgrade(h)

NodesNext ==
  \/ BootstrapStep \/ RaiseVersion \/ StartUpgrade \/ UpgradeSteps
  \/ UpgradeInterrupted \/ ControllerSteps

\* A command runs to its end, the controller works, and the operator runs
\* apply while the cluster is not whole and upgrade while it is not upgraded.
ApplyProgress ==
  /\ BootstrapStep
  /\ Progress
  /\ pc # "idle"

ReRunApply   == BootstrapStep /\ Start /\ ~Whole
ReRunUpgrade == StartUpgrade /\ Whole

NodesSpec == NodesInit /\ [][NodesNext]_nodeVars

-----------------------------------------------------------------------------
\* k3s-entry.ts:95, "masters first": over installs, upgrades, lost masters and
\* interruptions, no agent runs a newer k3s than a server of its cluster.
NoAgentAhead ==
  \A w \in Workers, m \in Masters :
    member[w] # None /\ member[m] = member[w] => version[w] <= version[m]

\* Re-running apply and upgrade gets every host into one cluster and to the
\* version of the config.
EventuallyUpgraded == <>[](Whole /\ \A h \in Hosts : version[h] = wanted)
=============================================================================
