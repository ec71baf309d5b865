---------------------------- MODULE Nodes_proofs ----------------------------
(***************************************************************************)
(* What holds for any number of hosts, machines and pods: of the bootstrap *)
(* (K3sBootstrap), of the versions (K3sUpgrade), of taking a machine out   *)
(* of the cluster (Drain), and of the config they start from (Config).     *)
(*                                                                         *)
(* Four theorems are about the behaviours in which master 1's server is    *)
(* never lost (MasterOneKept): the others may lose it, the code creates it *)
(* again when they do, and SurvivorStaysMasterOne fails of them.           *)
(***************************************************************************)
EXTENDS K3sUpgrade, Drain, Config, WellFoundedInduction, TLAPS

-----------------------------------------------------------------------------
(* The bootstrap                                                           *)

\* Whoever is in a cluster is in master 1's.
AllWithMasterOne == \A h \in Hosts : member[h] # None => member[h] = member[1]

\* A token file is on the disk of a member.
FilesOfMembers == \A m \in Masters : mtime[m] # 0 => member[m] # None

\* The token of the run is new, or opens master 1's cluster; once master 1 is
\* installed it does.
TokenFits ==
  /\ pc = "first" => token = Random \/ (token = member[1] /\ member[1] # None)
  /\ pc \in {"ready", "rest", "workers"} => token = member[1] /\ member[1] # None

\* The hosts this run has installed are up, and every master is one of them
\* when the workers' turn comes.
DoneFits ==
  /\ \A h \in done : h \in up /\ member[h] = member[1] /\ member[h] # None
  /\ pc \in {"idle", "resolve", "first"} => done = {}
  /\ pc = "workers" => Masters \subseteq done

\* Master 1's server is not lost and created again, by whatever caller of
\* ensureServer; the code does not see to it.
MasterOneKept == [][~ Recreate(1)]_vars

BootInv ==
  /\ AllWithMasterOne
  /\ FilesOfMembers
  /\ TokenFits
  /\ DoneFits
  /\ refused \subseteq {1}

-----------------------------------------------------------------------------
LEMMA HostsAre ==
  /\ 1 \in Masters /\ 1 \in Hosts
  /\ Masters \subseteq Hosts /\ Workers \subseteq Hosts
  /\ Hosts = Masters \union Workers
  /\ None \notin Masters
  /\ Random \in Nat
BY CountsAssumption DEF Masters, Workers, Hosts, None, Random

\* When all who hold a token hold the same, that is the most frequent one.
LEMMA OneTokenWins ==
  ASSUME NEW read, NEW c, read # {}, \A m \in read : member[m] = c
  PROVE  MostFrequent(read) = c
<1>1. {member[m] : m \in read} = {c}
  OBVIOUS
<1> QED
  BY <1>1 DEF MostFrequent

\* Some bearer has the oldest file.
LEMMA OldestIsMaster ==
  ASSUME NEW bearers \in SUBSET Masters, mtime \in [Hosts -> Nat]
  PROVE  OldestBearer(bearers) \in Masters
<1>1. CASE bearers = {}
  BY <1>1, HostsAre DEF OldestBearer
<1>2. CASE bearers # {}
  <2> DEFINE Times == {mtime[b] : b \in bearers}
  <2>1. Times \in SUBSET Nat /\ Times # {}
    BY <1>2, HostsAre
  <2> DEFINE Before == {p \in Nat \X Nat : p[1] < p[2]}
  <2>2. IsWellFoundedOn(Before, Nat)
    BY NatLessThanWellFounded DEF OpToRel
  <2>3. PICK t \in Times : \A u \in Times : <<u, t>> \notin Before
    <3> HIDE DEF Before, Times
    <3> QED
      BY <2>1, <2>2, WFMin
  <2>4. ASSUME NEW u \in Times PROVE t <= u
    <3> HIDE DEF Times
    <3>1. t \in Nat /\ u \in Nat
      BY <2>1, <2>4
    <3>2. <<u, t>> \notin Before
      BY <2>3, <2>4
    <3> QED
      BY <3>1, <3>2
  <2>5. \E b \in bearers : \A c \in bearers : mtime[b] <= mtime[c]
    BY <2>4
  <2>6. OldestBearer(bearers) \in bearers
    BY <1>2, <2>5 DEF OldestBearer
  <2> QED
    BY <2>6
<1> QED
  BY <1>1, <1>2

-----------------------------------------------------------------------------
LEMMA InitBoot == Init => TypeOK /\ BootInv
<1> SUFFICES ASSUME Init PROVE TypeOK /\ BootInv
  OBVIOUS
<1> USE HostsAre, CountsAssumption
<1>1. TypeOK
  BY DEF Init, TypeOK, None
<1>2. BootInv
  BY DEF Init, BootInv, AllWithMasterOne, FilesOfMembers, TokenFits, DoneFits
<1> QED
  BY <1>1, <1>2

\* What resolveToken finds: the token of master 1's cluster, if it finds any.
LEMMA ResolvedToken ==
  ASSUME TypeOK, BootInv, NEW failed \in SUBSET Masters, ResolveToken(failed)
  PROVE  /\ first' \in Masters
         /\ \/ token' = Random
            \/ token' = member[1] /\ member[1] # None
<1> DEFINE read == {m \in Masters \ failed : mtime[m] # 0}
<1>1. CASE read = {}
  BY <1>1, HostsAre DEF ResolveToken
<1>2. CASE read # {}
  <2>1. \A m \in read : member[m] = member[1] /\ member[1] # None
    BY HostsAre DEF BootInv, AllWithMasterOne, FilesOfMembers
  <2>2. MostFrequent(read) = member[1]
    BY <1>2, <2>1, OneTokenWins
  <2>3. /\ token' = MostFrequent(read)
        /\ \E unstat \in {{}, failed, Masters} :
             first' = OldestBearer({m \in read : member[m] = token'} \ unstat)
    BY <1>2 DEF ResolveToken
  <2>4. PICK bearers \in SUBSET Masters : first' = OldestBearer(bearers)
    BY <2>3
  <2>5. first' \in Masters
    BY <2>4, OldestIsMaster DEF TypeOK
  <2> QED
    BY <1>2, <2>1, <2>2, <2>3, <2>5
<1> QED
  BY <1>1, <1>2

\* Forming a cluster is left to master 1, when no host is in one.
LEMMA FirstForms ==
  ASSUME TypeOK, BootInv, InstallFirst
  PROVE  /\ \A h \in Hosts : member'[h] # None => member'[h] = member'[1]
         /\ member'[1] # None /\ token' = member'[1] /\ token' \in Nat
         /\ member' \in [Hosts -> Nat]
         /\ mtime' \in [Hosts -> Nat] /\ clock' \in Nat
         /\ \A m \in Masters : mtime'[m] # 0 => member'[m] # None
         /\ up' \subseteq Hosts /\ 1 \in up'
         /\ refused' \subseteq refused
<1> USE HostsAre
<1>1. CASE Restarts(1)
  BY <1>1 DEF Restarts, TypeOK, BootInv, AllWithMasterOne, FilesOfMembers
<1>2. CASE FormsCluster(1)
  <2>1. \A h \in Hosts : member[h] = None
    BY <1>2 DEF FormsCluster, BootInv, AllWithMasterOne
  <2>2. pc = "first" /\ token = Random
    BY <1>2 DEF FormsCluster, InstallFirst, BootInv, TokenFits
  <2>3. /\ clock' = clock + 1 /\ clock' # None
        /\ member' = [member EXCEPT ![1] = clock']
        /\ mtime' = [mtime EXCEPT ![1] = clock']
        /\ token' = clock'
        /\ up' = up \union {1}
        /\ UNCHANGED refused
    BY <1>2, <2>2 DEF FormsCluster, TypeOK, None
  <2> QED
    BY <2>1, <2>3 DEF TypeOK, BootInv, FilesOfMembers
<1> QED
  BY <1>1, <1>2 DEF InstallFirst

\* The others restart in master 1's cluster or join it.
LEMMA OthersJoin ==
  ASSUME TypeOK, BootInv, pc \in {"rest", "workers"}, NEW h \in Hosts,
         Restarts(h) \/ Joins(h), h # 1
  PROVE  /\ token' = token
         /\ member' = [member EXCEPT ![h] = member[1]]
         /\ mtime' \in [Hosts -> Nat] /\ clock' \in Nat
         /\ \A m \in Masters : mtime'[m] # 0 => member'[m] # None
         /\ up' = up \union {h}
         /\ refused' \subseteq refused
<1> USE HostsAre
<1>1. token = member[1] /\ member[1] # None
  BY DEF BootInv, TokenFits
<1>2. CASE Restarts(h)
  BY <1>1, <1>2 DEF Restarts, TypeOK, BootInv, FilesOfMembers
<1>3. CASE Joins(h)
  BY <1>1, <1>3 DEF Joins, TypeOK, BootInv, FilesOfMembers
<1> QED
  BY <1>2, <1>3

LEMMA NextBoot ==
  ASSUME TypeOK, BootInv, [Next]_vars, [~ Recreate(1)]_vars
  PROVE  TypeOK' /\ BootInv'
<1> USE HostsAre
<1> DEFINE Goal == TypeOK' /\ BootInv'
<1>1. ASSUME NEW failed \in SUBSET Masters, ResolveToken(failed) PROVE Goal
  <2>1. /\ first' \in Masters
        /\ token' = Random \/ (token' = member[1] /\ member[1] # None)
    BY <1>1, ResolvedToken
  <2>2. /\ pc = "resolve" /\ pc' = "first"
        /\ faults' \in 0..MaxFaults
        /\ UNCHANGED <<member, up, refused, mtime, clock, done, losses>>
    BY <1>1, CountsAssumption DEF ResolveToken, TypeOK, disks
  <2>3. TypeOK'
    BY <2>1, <2>2 DEF TypeOK
  <2>4. BootInv'
    BY <2>1, <2>2 DEF BootInv, AllWithMasterOne, FilesOfMembers, TokenFits, DoneFits
  <2> QED
    BY <2>3, <2>4
<1>2. CASE InstallFirst
  <2>1. /\ pc' = "ready" /\ done' = {1}
        /\ UNCHANGED <<first, faults, losses>>
    BY <1>2 DEF InstallFirst
  <2>2. TypeOK'
    BY <1>2, <2>1, FirstForms DEF TypeOK
  <2>3. BootInv'
    BY <1>2, <2>1, FirstForms
       DEF BootInv, AllWithMasterOne, FilesOfMembers, TokenFits, DoneFits
  <2> QED
    BY <2>2, <2>3
<1>3. ASSUME NEW h \in Hosts, InstallMaster(h) \/ InstallWorker(h) PROVE Goal
  <2>1. /\ pc \in {"rest", "workers"}
        /\ Restarts(h) \/ Joins(h)
        /\ done' = done \union {h}
        /\ UNCHANGED <<pc, first, faults, losses>>
    BY <1>3 DEF InstallMaster, InstallWorker
  <2>2. token = member[1] /\ member[1] # None
    BY <2>1 DEF BootInv, TokenFits
  <2>3. /\ token' = token
        /\ member' = [member EXCEPT ![h] = member[1]]
        /\ mtime' \in [Hosts -> Nat] /\ clock' \in Nat
        /\ \A m \in Masters : mtime'[m] # 0 => member'[m] # None
        /\ up' = up \union {h}
        /\ refused' \subseteq refused
    <3>1. CASE h # 1
      BY <2>1, <3>1, OthersJoin
    <3>2. CASE h = 1
      BY <2>1, <2>2, <3>2 DEF Restarts, Joins, TypeOK, BootInv, FilesOfMembers
    <3> QED
      BY <3>1, <3>2
  <2>4. TypeOK'
    BY <2>1, <2>3 DEF TypeOK
  <2>5. BootInv'
    BY <2>1, <2>2, <2>3
       DEF TypeOK, BootInv, AllWithMasterOne, FilesOfMembers, TokenFits, DoneFits
  <2> QED
    BY <2>4, <2>5
<1>4. ASSUME NEW h \in Hosts, Refused(h) PROVE Goal
  <2>1. h = 1
    BY <1>4 DEF Refused, Turn, BootInv, AllWithMasterOne, TokenFits
  <2> QED
    BY <1>4, <2>1 DEF Refused, Exit, TypeOK, None, BootInv, AllWithMasterOne,
       FilesOfMembers, TokenFits, DoneFits
<1>5. ASSUME NEW h \in Hosts, Recreate(h) PROVE Goal
  <2> h # 1
    BY <1>5 DEF Recreate, vars, TypeOK
  <2>1. /\ pc = "idle"
        /\ member' = [member EXCEPT ![h] = None]
        /\ mtime' = [mtime EXCEPT ![h] = 0]
        /\ up' = up \ {h} /\ refused' = refused \ {h}
        /\ losses' \in 0..MaxLosses
        /\ UNCHANGED <<clock, pc, token, first, done, faults>>
    BY <1>5, CountsAssumption DEF Recreate, TypeOK, run
  <2>2. TypeOK'
    BY <2>1 DEF TypeOK, None
  <2>3. BootInv'
    BY <2>1 DEF TypeOK, BootInv, AllWithMasterOne, FilesOfMembers, TokenFits, DoneFits
  <2> QED
    BY <2>2, <2>3
<1>6. ASSUME NEW h \in Hosts, Stop(h) PROVE Goal
  <2>1. /\ pc = "idle" /\ up' = up \ {h}
        /\ losses' \in 0..MaxLosses
        /\ UNCHANGED <<member, refused, mtime, clock, pc, token, first, done, faults>>
    BY <1>6, CountsAssumption DEF Stop, TypeOK, run
  <2> QED
    BY <2>1 DEF TypeOK, BootInv, AllWithMasterOne, FilesOfMembers, TokenFits, DoneFits
<1>7. CASE Interrupted \/ Finish \/ \E h \in Hosts : JoinFails(h)
  <2>1. Exit /\ UNCHANGED <<member, up, refused, mtime, clock, losses>>
        /\ faults' \in 0..MaxFaults
    BY <1>7, CountsAssumption DEF Interrupted, Finish, JoinFails, disks, TypeOK
  <2> QED
    BY <2>1 DEF Exit, None, TypeOK, BootInv, AllWithMasterOne, FilesOfMembers,
       TokenFits, DoneFits
<1>8. CASE Start \/ ControlPlaneReady \/ MastersInstalled
  BY <1>8 DEF Start, ControlPlaneReady, MastersInstalled, disks, TypeOK, BootInv,
     AllWithMasterOne, FilesOfMembers, TokenFits, DoneFits
<1>9. CASE UNCHANGED vars
  BY <1>9 DEF vars, TypeOK, BootInv, AllWithMasterOne, FilesOfMembers, TokenFits,
     DoneFits
<1> QED
  BY <1>1, <1>2, <1>3, <1>4, <1>5, <1>6, <1>7, <1>8, <1>9 DEF Next, Progress

LEMMA BootAlways ==
  Spec /\ MasterOneKept => [](TypeOK /\ BootInv)
<1>1. TypeOK /\ BootInv /\ [Next]_vars /\ [~ Recreate(1)]_vars => (TypeOK /\ BootInv)'
  BY NextBoot
<1> QED
  BY <1>1, InitBoot, PTL DEF Spec, MasterOneKept

\* However often the bootstrap is interrupted and re-run, it makes no second
\* control plane (token.ts resolveToken, orchestrate.ts installMasters), for
\* any number of hosts, as long as master 1's server is not lost.
THEOREM NoSplitBrain ==
  Spec /\ MasterOneKept => []OneControlPlane
<1>1. BootInv => OneControlPlane
  BY DEF BootInv, AllWithMasterOne, OneControlPlane
<1> QED
  BY <1>1, BootAlways, PTL

\* Unreadable tokens (token.ts _readToken turns an SSH failure into "no token")
\* never cost more than master 1, for any number of masters and failures, as
\* long as master 1's server is not lost.
THEOREM QuorumKept ==
  Spec /\ MasterOneKept => []OnlyMasterOneRefuses
<1>1. BootInv => OnlyMasterOneRefuses
  BY DEF BootInv, OnlyMasterOneRefuses
<1> QED
  BY <1>1, BootAlways, PTL

\* A run that reports success has every host up in the cluster of masters[0],
\* the one whose kubeconfig the addons and the operator get (reconcile.ts:166),
\* as long as master 1's server is not lost.
THEOREM SuccessMeansOneCluster ==
  Spec /\ MasterOneKept => SuccessIsOneCluster
<1>1. TypeOK /\ BootInv /\ [Next]_vars
        => [Finish => \A h \in Hosts : h \in up /\ member[h] = member[1]]_vars
  BY HostsAre DEF Finish, BootInv, DoneFits
<1> QED
  BY <1>1, BootAlways, PTL DEF Spec, SuccessIsOneCluster

-----------------------------------------------------------------------------
(* The versions of the hosts                                               *)

\* Versions and Plans are what the config has wanted at some time, and the
\* agents' Plan follows the servers'.
VersionTypes ==
  /\ wanted \in Nat \ {0}
  /\ version \in [Hosts -> Nat] /\ \A h \in Hosts : version[h] <= wanted
  /\ plan \in [{"server", "agent"} -> Nat]
  /\ plan["server"] <= wanted /\ plan["agent"] <= plan["server"]
  /\ upc = "agent" => plan["server"] = wanted

\* What this run has installed has the version of the config, and the workers'
\* turn comes when every master is installed.
RunVersions ==
  /\ member = [h \in Hosts |-> member[h]]
  /\ done \subseteq Hosts /\ refused \subseteq Hosts
  /\ pc \in {"idle", "resolve", "first"} => done = {}
  /\ pc = "workers" => Masters \subseteq done
  /\ \A h \in done : version[h] = wanted

\* Stronger than NoAgentAhead: whichever clusters they are in.
AgentsBehind ==
  \A w \in Workers, m \in Masters :
    member[w] # None /\ member[m] # None => version[w] <= version[m]

VersionInv == VersionTypes /\ RunVersions /\ AgentsBehind

LEMMA MastersAreNoWorkers == Masters \intersect Workers = {}
  BY CountsAssumption DEF Masters, Workers

LEMMA VersionsStart == NodesInit => VersionInv
  BY HostsAre DEF NodesInit, Init, VersionInv, VersionTypes, RunVersions, AgentsBehind,
                  NoVersion, None

\* A step of the bootstrap installs hosts, or resets what the run knows.  Only
\* who is installed gets into a cluster, workers only when the masters are done,
\* and no host leaves its cluster during a run.
LEMMA BootstrapRuns ==
  ASSUME VersionInv, Next
  PROVE  /\ member' = [h \in Hosts |-> member'[h]]
         /\ done' \subseteq Hosts /\ refused' \subseteq Hosts
         /\ pc' \in {"idle", "resolve", "first"} => done' = {}
         /\ pc' = "workers" => Masters \subseteq done'
         /\ Installed \subseteq Hosts
         /\ \A h \in Hosts : member'[h] # None => member[h] # None \/ h \in Installed
         /\ \A h \in Hosts : member'[h] = None => member[h] = None \/ done' = {}
         /\ \A w \in Workers \intersect Installed : Masters \subseteq done
<1> USE HostsAre, MastersAreNoWorkers DEF VersionInv, RunVersions, Installed
<1>w. \A w \in Workers : Refused(w) => Masters \subseteq done
  BY DEF Refused, Turn
<1>1. CASE Start \/ ControlPlaneReady \/ MastersInstalled \/ Interrupted \/ Finish
           \/ \E h \in Hosts : JoinFails(h) \/ Stop(h)
  BY <1>w, <1>1 DEF Start, ControlPlaneReady, MastersInstalled, Interrupted, Finish, JoinFails,
                    Stop, Exit, disks, run
<1>2. ASSUME NEW failed \in SUBSET Masters, ResolveToken(failed)
      PROVE  UNCHANGED <<member, refused, done>> /\ pc = "resolve" /\ pc' = "first"
  BY <1>2 DEF ResolveToken, disks
<1>3. CASE InstallFirst
  <2>1. done' = {1} /\ pc' = "ready" /\ done \subseteq Hosts
    BY <1>3 DEF InstallFirst
  <2>2. refused' \subseteq refused
    BY <1>3 DEF InstallFirst, Restarts, FormsCluster
  <2>3. \/ member' = member
        \/ member[1] = None /\ member' = [member EXCEPT ![1] = clock']
    BY <1>3 DEF InstallFirst, Restarts, FormsCluster
  <2>4. 1 \notin Workers /\ done = {} /\ member = [h \in Hosts |-> member[h]]
    BY <1>3 DEF InstallFirst
  <2>5. Installed \subseteq {1} \union {g \in Hosts : Refused(g)} /\ 1 \in Installed
    BY <2>1, <2>2, <2>4
  <2>6. \A w \in Workers \intersect Installed : Masters \subseteq done
    BY <1>w, <2>4, <2>5
  <2>7. /\ member' = [h \in Hosts |-> member'[h]]
        /\ \A h \in Hosts : member'[h] # None => member[h] # None \/ h \in {1}
        /\ \A h \in Hosts : member'[h] = None => member[h] = None
    BY <2>3, <2>4
  <2> QED
    BY <2>1, <2>2, <2>4, <2>5, <2>6, <2>7
<1>4. ASSUME NEW h \in Hosts, InstallMaster(h) \/ InstallWorker(h)
      PROVE  /\ done' = done \union {h} /\ pc' = pc /\ pc \in {"rest", "workers"}
             /\ h \in Workers => pc = "workers"
             /\ refused' \subseteq refused
             /\ member' = member \/ (member[h] = None /\ member' = [member EXCEPT ![h] = token])
             /\ h \notin done
  BY <1>4 DEF InstallMaster, InstallWorker, Restarts, Joins
<1>5. ASSUME NEW h \in Hosts, Refused(h)
      PROVE  /\ member' = member /\ done' = {} /\ pc' = "idle"
             /\ refused' = refused \union {h}
  BY <1>5 DEF Refused, Exit
<1>6. ASSUME NEW h \in Hosts, Recreate(h)
      PROVE  /\ member' = [member EXCEPT ![h] = None] /\ refused' \subseteq refused
             /\ pc = "idle" /\ UNCHANGED <<pc, done>>
  BY <1>6 DEF Recreate, run
<1> QED
  <2>2. CASE \E failed \in SUBSET Masters : ResolveToken(failed)
    BY <1>w, <1>2, <2>2
  <2>4. CASE \E h \in Hosts : InstallMaster(h) \/ InstallWorker(h)
    <3>1. PICK h \in Hosts : InstallMaster(h) \/ InstallWorker(h)
      BY <2>4
    <3>2. /\ done' = done \union {h} /\ pc' = pc /\ pc \in {"rest", "workers"}
          /\ h \in Workers => pc = "workers"
          /\ refused' \subseteq refused /\ h \notin done
          /\ member' = member \/ (member[h] = None /\ member' = [member EXCEPT ![h] = token])
      BY <1>4, <3>1
    <3>3. Installed \subseteq {h} \union {g \in Hosts : Refused(g)} /\ h \in Installed
      BY <3>2
    <3>4. \A w \in Workers \intersect Installed : Masters \subseteq done
      BY <1>w, <3>2, <3>3
    <3> QED
      BY <3>2, <3>3, <3>4
  <2>5. CASE \E h \in Hosts : Refused(h)
    BY <1>w, <1>5, <2>5
  <2>6. CASE \E h \in Hosts : Recreate(h)
    BY <1>w, <1>6, <2>6
  <2> QED
    BY <1>1, <1>3, <2>2, <2>4, <2>5, <2>6 DEF Next, Progress

LEMMA BootstrapKeepsVersions ==
  ASSUME VersionInv, BootstrapStep
  PROVE  VersionInv'
<1> USE HostsAre
<1>1. /\ upc = "idle" /\ UNCHANGED <<wanted, controller, plan, upc, installed>>
      /\ version' = [h \in Hosts |->
           IF h \in Installed THEN wanted
           ELSE IF member'[h] = None /\ member[h] # None THEN NoVersion ELSE version[h]]
  BY DEF BootstrapStep
<1>2. Next
  BY DEF BootstrapStep
<1>3. VersionTypes'
  BY <1>1 DEF VersionInv, VersionTypes, NoVersion
<1>4. \A h \in done' : version'[h] = wanted
  <2> SUFFICES ASSUME NEW h \in done' PROVE version'[h] = wanted
    OBVIOUS
  <2>1. h \in Hosts /\ (member'[h] = None => member[h] = None)
    BY <1>2, BootstrapRuns
  <2>2. CASE h \in Installed
    BY <1>1, <2>1, <2>2
  <2>3. CASE h \notin Installed
    <3>1. h \in done
      BY <2>3 DEF Installed
    <3> QED
      BY <1>1, <2>1, <2>3, <3>1 DEF VersionInv, RunVersions
  <2> QED
    BY <2>2, <2>3
<1>5. RunVersions'
  BY <1>1, <1>2, <1>4, BootstrapRuns DEF RunVersions
<1>6. AgentsBehind'
  <2> SUFFICES ASSUME NEW w \in Workers, NEW m \in Masters, member'[w] # None, member'[m] # None
               PROVE  version'[w] <= version'[m]
    BY DEF AgentsBehind
  <2>1. \A h \in {w, m} : version'[h] = IF h \in Installed THEN wanted ELSE version[h]
    BY <1>1
  <2>2. version[w] \in Nat /\ version[m] \in Nat /\ version[w] <= wanted /\ wanted \in Nat
    BY DEF VersionInv, VersionTypes
  <2>3. CASE w \in Installed
    <3>1. version[m] = wanted
      BY <1>2, <2>3, BootstrapRuns DEF VersionInv, RunVersions
    <3> QED
      BY <2>1, <2>2, <3>1
  <2>4. CASE w \notin Installed /\ m \notin Installed
    <3>1. member[w] # None /\ member[m] # None
      BY <1>2, <2>4, BootstrapRuns
    <3> QED
      BY <2>1, <2>4, <3>1 DEF VersionInv, AgentsBehind
  <2>5. CASE w \notin Installed /\ m \in Installed
    BY <2>1, <2>2, <2>5
  <2> QED
    BY <2>3, <2>4, <2>5
<1> QED
  BY <1>3, <1>5, <1>6 DEF VersionInv

\* The controller upgrades an agent once the servers of its Plan are upgraded.
LEMMA UpgradeKeepsVersions ==
  ASSUME VersionInv, NEW h \in Hosts, Upgrade(h)
  PROVE  VersionInv'
<1> USE HostsAre, MastersAreNoWorkers
<1>1. /\ version' = [version EXCEPT ![h] = plan[Role(h)]]
      /\ version[h] < plan[Role(h)]
      /\ UNCHANGED <<member, refused, pc, done, wanted, plan, upc>>
  BY DEF Upgrade, vars
<1>2. plan[Role(h)] \in Nat /\ plan[Role(h)] <= wanted /\ plan["agent"] <= plan["server"]
      /\ plan["agent"] \in Nat /\ plan["server"] \in Nat
  BY DEF VersionInv, VersionTypes, Role
<1>3. VersionTypes'
  BY <1>1, <1>2 DEF VersionInv, VersionTypes
<1>4. RunVersions'
  <2>1. h \notin done
    BY <1>1, <1>2 DEF VersionInv, VersionTypes, RunVersions
  <2> QED
    BY <1>1, <2>1 DEF VersionInv, VersionTypes, RunVersions
<1>5. AgentsBehind'
  <2> SUFFICES ASSUME NEW w \in Workers, NEW m \in Masters, member[w] # None, member[m] # None
               PROVE  version'[w] <= version'[m]
    BY <1>1 DEF AgentsBehind
  <2>1. version[w] <= version[m] /\ version[w] \in Nat /\ version[m] \in Nat /\ w # m
    BY DEF VersionInv, VersionTypes, AgentsBehind
  <2>2. CASE h = w
    <3>1. version[m] = plan["server"] /\ Role(h) = "agent"
      BY <2>2 DEF Upgrade, Prepared, Role
    <3> QED
      BY <1>1, <1>2, <2>1, <2>2, <3>1 DEF VersionInv, VersionTypes
  <2>3. CASE h = m
    BY <1>1, <1>2, <2>1, <2>3 DEF VersionInv, VersionTypes
  <2>4. CASE h \notin {w, m}
    BY <1>1, <2>1, <2>4 DEF VersionInv, VersionTypes
  <2> QED
    BY <2>2, <2>3, <2>4
<1> QED
  BY <1>3, <1>4, <1>5 DEF VersionInv

\* The upgrade command writes the servers' Plan before the agents'.
LEMMA CommandsKeepVersions ==
  ASSUME VersionInv,
         \/ RaiseVersion \/ StartUpgrade \/ UpgradeSteps \/ UpgradeInterrupted
         \/ ControllerStarts \/ UNCHANGED nodeVars
  PROVE  VersionInv'
<1> USE DEF VersionInv, VersionTypes, RunVersions, AgentsBehind, UpgradeGoes, vars
<1>1. CASE RaiseVersion
  BY <1>1, HostsAre DEF RaiseVersion
<1>2. CASE StartUpgrade \/ ProbeController \/ ApplyController \/ AwaitController \/ ControllerStarts
  BY <1>2 DEF StartUpgrade, ProbeController, ApplyController, AwaitController, ControllerStarts
<1>3. ASSUME NEW role \in {"server", "agent"}, ApplyPlan(role) \/ PlanUnknown(role)
      PROVE  VersionInv'
  BY <1>3 DEF ApplyPlan, PlanUnknown, AfterPlan
<1>4. CASE UpgradeInterrupted
  BY <1>4 DEF UpgradeInterrupted, disks, run
<1>5. CASE UNCHANGED nodeVars
  BY <1>5 DEF nodeVars, upgradeVars
<1> QED
  BY <1>1, <1>2, <1>3, <1>4, <1>5 DEF UpgradeSteps

\* Over installs, upgrades cut short, lost servers and new versions, no agent
\* runs a newer k3s than a server of its cluster (k3s-entry.ts:95, "masters
\* first"), for any number of hosts, and also when master 1's server is lost.
THEOREM AgentsNeverAhead == NodesSpec => []NoAgentAhead
<1>1. VersionInv /\ [NodesNext]_nodeVars => VersionInv'
  BY BootstrapKeepsVersions, UpgradeKeepsVersions, CommandsKeepVersions
     DEF NodesNext, ControllerSteps
<1>2. VersionInv => NoAgentAhead
  BY HostsAre DEF VersionInv, AgentsBehind, NoAgentAhead
<1> QED
  BY VersionsStart, <1>1, <1>2, PTL DEF NodesSpec

\* An upgrade touches no host's place in the cluster.
LEMMA CommandsKeepHosts ==
  ASSUME TypeOK, UpgradeInterrupted \/ UNCHANGED vars
  PROVE  (TypeOK /\ BootInv)' <=> (TypeOK /\ BootInv)
<1>1. UNCHANGED <<member, up, refused, mtime, clock, pc, token, first, done, losses>>
  BY DEF UpgradeInterrupted, disks, run, vars
<1>2. faults' \in 0..MaxFaults
  BY CountsAssumption DEF UpgradeInterrupted, vars, TypeOK
<1>3. TypeOK'
  BY <1>1, <1>2 DEF TypeOK
<1>4. BootInv' <=> BootInv
  BY <1>1 DEF BootInv, AllWithMasterOne, FilesOfMembers, TokenFits, DoneFits
<1> QED
  BY <1>3, <1>4

LEMMA NodesStayBooted ==
  NodesSpec /\ MasterOneKept => [](TypeOK /\ BootInv)
<1>1. NodesInit => TypeOK /\ BootInv
  BY InitBoot DEF NodesInit
<1>2. ASSUME TypeOK, BootInv, NodesNext, [~ Recreate(1)]_vars PROVE (TypeOK /\ BootInv)'
  <2>1. CASE Next
    BY <1>2, <2>1, NextBoot
  <2>2. CASE UpgradeInterrupted \/ UNCHANGED vars
    BY <1>2, <2>2, CommandsKeepHosts
  <2> QED
    BY <1>2, <2>1, <2>2 DEF NodesNext, BootstrapStep, RaiseVersion, StartUpgrade, UpgradeSteps,
       ControllerSteps, UpgradeGoes, ProbeController, ApplyController, AwaitController,
       ApplyPlan, PlanUnknown, ControllerStarts, Upgrade
<1>3. TypeOK /\ BootInv /\ [NodesNext]_nodeVars /\ [~ Recreate(1)]_vars => (TypeOK /\ BootInv)'
  <2>1. UNCHANGED nodeVars => UNCHANGED vars
    BY DEF nodeVars, vars
  <2> QED
    BY <1>2, <2>1, CommandsKeepHosts
<1> QED
  BY <1>1, <1>3, PTL DEF NodesSpec, MasterOneKept

\* What the bootstrap guarantees still holds of hosts that are upgraded, at
\* whatever point upgrades and bootstraps are cut short and follow each other
\* (k3s-entry.ts, orchestrate.ts), as long as master 1's server is not lost.
THEOREM UpgradesSplitNothing ==
  NodesSpec /\ MasterOneKept => []OneControlPlane /\ []OnlyMasterOneRefuses /\ SuccessIsOneCluster
<1>1. BootInv => OneControlPlane /\ OnlyMasterOneRefuses
  BY DEF BootInv, AllWithMasterOne, OneControlPlane, OnlyMasterOneRefuses
<1>2. BootInv /\ [NodesNext]_nodeVars
        => [Finish => \A h \in Hosts : h \in up /\ member[h] = member[1]]_vars
  BY HostsAre DEF Finish, BootInv, DoneFits
<1> QED
  BY <1>1, <1>2, NodesStayBooted, PTL DEF NodesSpec, SuccessIsOneCluster

-----------------------------------------------------------------------------
(* Taking a machine out of the cluster                                     *)

Phases == {"unbound", "starting", "running", "leaving"}

\* The types of the variables of Drain.
DrainTypes ==
  /\ servers \subseteq Machines /\ registered \subseteq Machines
  /\ orphaned \subseteq Machines
  /\ on \in [Pods -> Machines \union {NoMachine}]
  /\ phase \in [Pods -> Phases]
  /\ dpc \in {"idle", "cordon", "list", "evict", "node", "server"}
  /\ at \in Machines \union {NoMachine}
  /\ dpc # "idle" => at \in servers

\* A pod is bound to nothing if it is unbound, and to a machine otherwise.
Bound == \A p \in Pods : phase[p] = "unbound" <=> on[p] = NoMachine

\* From the cordon to the end of the drain the Node takes no pod: it is
\* cordoned, or gone.
Closed ==
  /\ dpc \in {"list", "evict", "node"} => at \in cordoned
  /\ dpc = "server" => at \notin registered

\* What has not been evicted from the Node is still to be, or was not listed.
NoneMissed ==
  \A p \in Pods : on[p] = at =>
    /\ dpc = "evict" => p \in listed \/ phase[p] = "leaving" \/ p \in missed
    /\ dpc \in {"node", "server"} => phase[p] = "leaving" \/ p \in missed

\* The strengthening of EvictedBeforeDestroyed that is inductive.
DrainInv == DrainTypes /\ Bound /\ Closed /\ NoneMissed /\ EvictedBeforeDestroyed

\* No machine is called like the absence of one.
LEMMA NoMachineIsNone == NoMachine \notin Machines
  BY DrainAssumption DEF NoMachine

LEMMA DrainStarts == DrainInit => DrainInv
  BY NoMachineIsNone DEF DrainInit, DrainInv, DrainTypes, Phases, Bound, Closed, NoneMissed,
                         EvictedBeforeDestroyed

\* The steps of kumulo's run keep it.
LEMMA RunKeepsDrainInv ==
  ASSUME DrainInv, StartDrain \/ DrainSteps \/ DrainInterrupted
  PROVE  DrainInv'
<1> USE NoMachineIsNone
    DEF DrainInv, DrainTypes, Bound, Closed, NoneMissed, EvictedBeforeDestroyed, Phases,
        DrainGoes, DrainEnds, kubeVars
<1>1. CASE StartDrain
  BY <1>1 DEF StartDrain
<1>2. CASE Cordon
  BY <1>2 DEF Cordon
<1>3. CASE ListPods
  <2>1. PICK seen \in SUBSET PodsOn(at) : listed' = seen /\ missed' = (missed \union PodsOn(at)) \ seen
    BY <1>3 DEF ListPods
  <2>2. UNCHANGED <<orphaned, servers, registered, cordoned, on, phase, at>>
        /\ dpc = "list" /\ dpc' = "evict"
    BY <1>3 DEF ListPods
  <2>3. NoneMissed'
    BY <2>1, <2>2 DEF PodsOn
  <2>4. EvictedBeforeDestroyed'
    BY <2>1, <2>2 DEF PodsOn
  <2> QED
    BY <2>2, <2>3, <2>4
<1>4. CASE Evicted
  BY <1>4 DEF Evicted
<1>5. CASE DeleteNode
  BY <1>5 DEF DeleteNode
<1>6. CASE DeleteServer
  BY <1>6 DEF DeleteServer
<1>7. CASE \E p \in Pods : Evict(p)
  <2>1. PICK p \in Pods : Evict(p)
    BY <1>7
  <2>2. phase' = [phase EXCEPT ![p] = "leaving"] /\ on[p] = at /\ at \in Machines
    BY <2>1 DEF Evict
  <2> QED
    BY <2>1, <2>2 DEF Evict
<1>8. CASE \E p \in Pods : EvictRefused(p)
  BY <1>8 DEF EvictRefused
<1>9. CASE DrainInterrupted
  BY <1>9 DEF DrainInterrupted
<1> QED
  BY <1>1, <1>2, <1>3, <1>4, <1>5, <1>6, <1>7, <1>8, <1>9 DEF DrainSteps

\* So do the steps of Kubernetes and of the operator.
LEMMA OthersKeepDrainInv ==
  ASSUME DrainInv,
         \/ \E m \in Machines : TakeBack(m) \/ Registers(m)
         \/ \E p \in Pods : PodSteps(p) \/ OthersDelete(p)
         \/ Drained \/ UNCHANGED drainVars
  PROVE  DrainInv'
<1> USE NoMachineIsNone
    DEF DrainInv, DrainTypes, Bound, Closed, NoneMissed, EvictedBeforeDestroyed, Phases,
        KubeStep, kubeVars
<1>1. CASE \E m \in Machines : TakeBack(m)
  BY <1>1 DEF TakeBack
<1>2. CASE \E m \in Machines : Registers(m)
  BY <1>2 DEF Registers
<1>3. ASSUME NEW p \in Pods, Schedule(p)
      PROVE  DrainInv'
  <2>1. PICK m \in (registered \intersect servers) \ cordoned : on' = [on EXCEPT ![p] = m]
    BY <1>3 DEF Schedule
  <2>2. dpc \in {"list", "evict", "node", "server"} => m # at
    BY <2>1
  <2>3. DrainTypes' /\ Bound' /\ Closed' /\ EvictedBeforeDestroyed'
    BY <1>3, <2>1 DEF Schedule
  <2>4. NoneMissed'
    BY <1>3, <2>1, <2>2 DEF Schedule
  <2> QED
    BY <2>3, <2>4
<1>4. ASSUME NEW p \in Pods, Runs(p)
      PROVE  DrainInv'
  BY <1>4 DEF Runs
<1>5. ASSUME NEW p \in Pods, Replaced(p)
      PROVE  DrainInv'
  BY <1>5 DEF Replaced
<1>6. ASSUME NEW p \in Pods, OthersDelete(p)
      PROVE  DrainInv'
  BY <1>6 DEF OthersDelete
<1>7. CASE Drained \/ UNCHANGED drainVars
  BY <1>7 DEF Drained, drainVars
<1> QED
  BY <1>1, <1>2, <1>3, <1>4, <1>5, <1>6, <1>7 DEF PodSteps

\* Of the pods on a machine the drain evicts all but those that its listing
\* left out before it deletes the server (node-ops.ts, drain.ts), whatever
\* Kubernetes does in between.
THEOREM DrainsBeforeDestroying == DrainSpec => []EvictedBeforeDestroyed
<1>1. DrainInv /\ [DrainNext]_drainVars => DrainInv'
  BY RunKeepsDrainInv, OthersKeepDrainInv DEF DrainNext
<1>2. DrainInv => EvictedBeforeDestroyed
  BY DEF DrainInv
<1> QED
  BY DrainStarts, <1>1, <1>2, PTL DEF DrainSpec

-----------------------------------------------------------------------------
(* The config                                                              *)

\* The addresses of a network, and that two networks have none in common.
Addresses(cidr) == CidrRange(cidr)[1] .. CidrRange(cidr)[2]
Apart(cidr, other) == Addresses(cidr) \cap Addresses(other) = {}

-----------------------------------------------------------------------------
\* A range (cidrRange, _rangeOf) is a non-empty interval of numbers.
LEMMA RangeIsInterval ==
  ASSUME NEW cidr \in [address : Nat, bits : 0..Width]
  PROVE  /\ CidrRange(cidr)[1] \in Int
         /\ CidrRange(cidr)[2] \in Int
         /\ CidrRange(cidr)[1] <= CidrRange(cidr)[2]
<1> DEFINE size == 2^(Width - cidr.bits)
           start == (cidr.address \div size) * size
<1>1. cidr.address \in Nat /\ Width - cidr.bits \in 0..Width
  BY WidthAssumption
<1>2. size \in Nat \ {0}
  BY <1>1, WidthAssumption
<1>3. start \in Int
  <2> HIDE DEF size
  <2>1. cidr.address \div size \in Int
    BY <1>1, <1>2
  <2> QED
    BY <2>1, <1>2
<1>4. CidrRange(cidr) = <<start, start + size - 1>>
  BY DEF CidrRange
<1> HIDE DEF start, size
<1> QED
  BY <1>2, <1>3, <1>4

\* The test of the ends (_overlaps in distro-uks/src/config.ts) is right: it
\* says that two networks overlap exactly when some address is in both.
THEOREM OverlapMeansShared ==
  ASSUME NEW cidr \in [address : Nat, bits : 0..Width],
         NEW other \in [address : Nat, bits : 0..Width]
  PROVE  Overlaps(cidr, other) <=> ~ Apart(cidr, other)
<1> DEFINE a == CidrRange(cidr)[1]
           b == CidrRange(cidr)[2]
           p == CidrRange(other)[1]
           q == CidrRange(other)[2]
<1>1. a \in Int /\ b \in Int /\ a <= b
  BY RangeIsInterval
<1>2. p \in Int /\ q \in Int /\ p <= q
  BY RangeIsInterval
<1>3. Overlaps(cidr, other) <=> a <= q /\ b >= p
  BY DEF Overlaps
<1>4. Apart(cidr, other) <=> (a .. b) \cap (p .. q) = {}
  BY DEF Apart, Addresses
<1> HIDE DEF a, b, p, q
<1>5. ASSUME a <= q, b >= p  PROVE (a .. b) \cap (p .. q) # {}
  <2>1. CASE a <= p
    <3>1. p \in (a .. b) /\ p \in (p .. q)
      BY <1>1, <1>2, <1>5, <2>1
    <3> QED
      BY <3>1
  <2>2. CASE p < a
    <3>1. a \in (a .. b) /\ a \in (p .. q)
      BY <1>1, <1>2, <1>5, <2>2
    <3> QED
      BY <3>1
  <2> QED
    BY <1>1, <1>2, <2>1, <2>2
<1>6. ASSUME NEW x \in (a .. b), x \in (p .. q)  PROVE a <= q /\ b >= p
  BY <1>1, <1>2, <1>6
<1> QED
  BY <1>3, <1>4, <1>5, <1>6

\* A network of the tables is a network.
LEMMA NetIsNetwork ==
  ASSUME NEW a \in Nat, NEW b \in Nat, NEW c \in Nat, NEW bits \in 0..24
  PROVE  Net(a, b, c, bits) \in [address : Nat, bits : 0..Width]
<1>1. Width \in 24..32 /\ Width - 8 \in 0..Width /\ Width - 16 \in 0..Width /\ Width - 24 \in 0..Width
  BY WidthAssumption
<1> DEFINE x == 2^(Width - 8)
           y == 2^(Width - 16)
           z == 2^(Width - 24)
<1>2. x \in Nat /\ y \in Nat /\ z \in Nat
  BY <1>1, WidthAssumption
<1>3. a * x + b * y + c * z \in Nat
  <2> HIDE DEF x, y, z
  <2>1. a * x \in Nat /\ b * y \in Nat /\ c * z \in Nat
    BY <1>2
  <2> QED
    BY <2>1
<1>4. bits \in 0..Width
  BY <1>1
<1> QED
  BY <1>3, <1>4 DEF Net

-----------------------------------------------------------------------------
\* The network of an accepted UKS config holds no address that UpCloud cannot
\* route or that the cluster needs for itself, nor one of the utility network
\* of its zone: a worker's address is never that of a pod, a service or the
\* control plane.
THEOREM UksNetworkIsFree ==
  ASSUME NEW c, ClusterConfig(c), c.distro = "upcloud-uks"
  PROVE  \A range \in UpcloudExcluded \cup UksReserved \cup UtilityOf(c.zone) : Apart(c.network.cidr, range)
<1>1. UpcloudUksClusterConfig(c)
  BY DEF ClusterConfig, K3sClusterConfig, MksClusterConfig
<1>2. c.network.cidr \in Cidrs /\ IsUpcloudCidr(c.network.cidr) /\ IsOutsideZoneUtilityRange(c)
  BY <1>1 DEF UpcloudUksClusterConfig, UpcloudNetworks
<1>3. c.network.cidr \in [address : Nat, bits : 0..Width]
  <2>1. 2^Width \in Nat
    BY WidthAssumption
  <2> QED
    BY <1>2, <2>1 DEF Cidrs
<1>4. \A range \in UpcloudExcluded \cup UksReserved \cup UtilityOf(c.zone) :
        range \in [address : Nat, bits : 0..Width]
  <2> DEFINE Networks == [address : Nat, bits : 0..Width]
  <2> HIDE DEF Networks
  <2>0. ASSUME NEW a \in Nat, NEW b \in Nat, NEW d \in Nat, NEW bits \in 0..24
        PROVE  Net(a, b, d, bits) \in Networks
    BY NetIsNetwork DEF Networks
  <2>1. ASSUME NEW range \in UpcloudExcluded  PROVE range \in Networks
    <3>1. Net(100, 64, 0, 10) \in Networks /\ Net(127, 0, 0, 8) \in Networks
      BY <2>0
    <3>2. Net(224, 0, 0, 4) \in Networks /\ Net(169, 254, 0, 16) \in Networks
      BY <2>0
    <3> QED
      BY <2>1, <3>1, <3>2 DEF UpcloudExcluded
  <2>2. ASSUME NEW range \in UksReserved  PROVE range \in Networks
    <3>1. Net(172, 31, 240, 24) \in Networks /\ Net(10, 128, 0, 12) \in Networks
      BY <2>0
    <3>2. Net(192, 168, 0, 16) \in Networks /\ Net(10, 33, 128, 22) \in Networks
      BY <2>0
    <3> QED
      BY <2>2, <3>1, <3>2 DEF UksReserved
  <2>3. ASSUME NEW range \in UtilityOf(c.zone)  PROVE range \in Networks
    <3>1. PICK i \in DOMAIN UksZones : range = Net(10, i, 0, 16)
      BY <2>3 DEF UtilityOf
    <3>2. i \in Nat
      BY <3>1 DEF UksZones
    <3> QED
      BY <3>1, <3>2, <2>0
  <2> QED
    BY <2>1, <2>2, <2>3 DEF Networks
<1>5. ASSUME NEW range \in UpcloudExcluded \cup UksReserved \cup UtilityOf(c.zone)
      PROVE  ~ Overlaps(c.network.cidr, range)
  BY <1>2, <1>5 DEF IsUpcloudCidr, IsOutsideZoneUtilityRange
<1> QED
  BY <1>3, <1>4, <1>5, OverlapMeansShared

\* A CDN whose origin is the ingress is accepted only where there is something
\* to point it at: an MKS cluster with an ingress, on a network whose subnet
\* for load balancers, where the address comes from, lies within it.
THEOREM IngressOriginHasItsSubnet ==
  ASSUME NEW c, ClusterConfig(c), OriginIsIngress(c), Missing \notin MksNetworks
  PROVE  /\ c.distro = "ovh-mks" /\ c.ingress # Missing
         /\ Addresses(c.network.load_balancers_subnet) \subseteq Addresses(c.network.cidr)
<1>1. MksClusterConfig(c)
  BY DEF ClusterConfig, K3sClusterConfig, UpcloudUksClusterConfig, IsCdnOriginUrlRequired
<1>2. c.distro = "ovh-mks" /\ c.ingress # Missing /\ c.network # Missing
  BY <1>1 DEF MksClusterConfig, IsCdnIngressOriginPlaceable, IsIngressPlaceable
<1>3. c.network \in MksNetworks
  BY <1>1, <1>2 DEF MksClusterConfig, Opt
<1> DEFINE lb == c.network.load_balancers_subnet
           whole == c.network.cidr
<1>4. /\ lb \in Cidrs /\ whole \in Cidrs
      /\ CidrRange(lb)[1] >= CidrRange(whole)[1] /\ CidrRange(lb)[2] <= CidrRange(whole)[2]
  BY <1>3 DEF MksNetworks, IsSubnetsWithinCidr
<1>5. Cidrs \subseteq [address : Nat, bits : 0..Width]
  <2>1. 2^Width \in Nat
    BY WidthAssumption
  <2> QED
    BY <2>1 DEF Cidrs
<1>6. /\ CidrRange(lb)[1] \in Int /\ CidrRange(lb)[2] \in Int
      /\ CidrRange(whole)[1] \in Int /\ CidrRange(whole)[2] \in Int
  BY <1>4, <1>5, RangeIsInterval
<1>7. Addresses(lb) \subseteq Addresses(whole)
  <2> HIDE DEF lb, whole
  <2> QED
    BY <1>4, <1>6 DEF Addresses
<1> QED
  BY <1>2, <1>7

\* What apply asks for before its first request is, for a UKS config, all that
\* it reads later: no module of it finds its credentials missing half way.
\* (For MKS the same does not hold of the OpenStack variables of cinder, nor
\* for k3s of the provider's own.)
THEOREM UksAsksForAllItReads ==
  ASSUME NEW c, NEW present, c.distro = "upcloud-uks", Applicable(c, present)
  PROVE  ReadVars(c) \subseteq present
<1>1. UpcloudUksClusterConfig(c)
  BY DEF Applicable, ClusterConfig, K3sClusterConfig, MksClusterConfig
<1>2. c.provider = "upcloud" /\ c.volumes \in UpcloudVolumes
  BY <1>1 DEF UpcloudUksClusterConfig
<1>3. c.volumes.module \in {"none", "upcloud"}
  BY <1>2 DEF UpcloudVolumes, VolumesOf, Nowhere
<1>4. DistroVars[c.distro] = {"UPCLOUD_API_TOKEN"}
  BY DEF DistroVars
<1>5. VolumesVars[c.volumes.module] \subseteq DistroVars[c.distro]
  BY <1>3, <1>4 DEF VolumesVars
<1>6. RequiredVars(c) \subseteq present
  BY DEF Applicable, MissingCredentials
<1>7. ReadVars(c) = UNION {DistroVars[c.distro], DnsVars[c.dns.module], VolumesVars[c.volumes.module],
                           ObjectStorageVars[c.object_storage.module], CdnVars(c)}
  BY <1>2 DEF ReadVars
<1>8. RequiredVars(c) = UNION {DistroVars[c.distro], DnsVars[c.dns.module],
                               ObjectStorageVars[c.object_storage.module], CdnVars(c)}
  BY DEF RequiredVars
<1> QED
  BY <1>5, <1>6, <1>7, <1>8

\* OpenStack credentials come whole and from one place: a run never logs on
\* with an empty secret or without a region, and once OS_AUTH_URL is set, what
\* the environment lacks is never filled in from a clouds.yaml that happens to
\* lie there (loadCredentials).
THEOREM CredentialsOfOneSource ==
  ASSUME NEW env, NEW files, NEW others
  PROVE  /\ LET found == LoadCredentials(env, files)
            IN  found # Missing => "" \notin {found.authUrl, found.region, found.user, found.secret}
         /\ "OS_AUTH_URL" \in DOMAIN env => LoadCredentials(env, files) = LoadCredentials(env, others)
<1> DEFINE Sound(found) == found # Missing => "" \notin {found.authUrl, found.region, found.user, found.secret}
<1>1. ASSUME NEW raw, NEW region, region # ""  PROVE Sound(FromRaw(raw, region))
  BY <1>1 DEF FromRaw
<1>2. Sound(CredentialsFromEnv(env))
  <2>1. CASE Or(env, "OS_REGION_NAME", "") = ""
    BY <2>1 DEF CredentialsFromEnv
  <2>2. CASE Or(env, "OS_REGION_NAME", "") # ""
    <3>1. env["OS_REGION_NAME"] # ""
      BY <2>2 DEF Or
    <3> HIDE DEF Sound
    <3> QED
      BY <1>1, <2>2, <3>1 DEF CredentialsFromEnv
  <2> QED
    BY <2>1, <2>2
<1>3. ASSUME NEW clouds, NEW name  PROVE Sound(CredentialsFromCloudsYaml(clouds, name))
  <2>1. CASE name \notin DOMAIN clouds \/ Or(clouds[name], "region_name", "") = ""
    BY <2>1 DEF CredentialsFromCloudsYaml
  <2>2. CASE ~ (name \notin DOMAIN clouds \/ Or(clouds[name], "region_name", "") = "")
    <3>1. clouds[name]["region_name"] # ""
      BY <2>2 DEF Or
    <3> HIDE DEF Sound
    <3> QED
      BY <1>1, <2>2, <3>1 DEF CredentialsFromCloudsYaml
  <2> QED
    BY <2>1, <2>2
<1>4. Sound(Missing)
  OBVIOUS
<1>5. Sound(LoadCredentials(env, files))
  <2> HIDE DEF Sound
  <2> QED
    BY <1>2, <1>3, <1>4 DEF LoadCredentials
<1>6. ASSUME "OS_AUTH_URL" \in DOMAIN env  PROVE LoadCredentials(env, files) = LoadCredentials(env, others)
  BY <1>6 DEF LoadCredentials
<1> QED
  BY <1>5, <1>6
=============================================================================
