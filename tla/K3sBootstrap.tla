---------------------------- MODULE K3sBootstrap ----------------------------
(***************************************************************************)
(* How k3s is installed on servers that exist: the step K3sLifecycle calls *)
(* Install, in detail.  The token is read back from the masters or made    *)
(* up, master 1 is installed alone, then the other masters, then the       *)
(* workers; the run may fail or be killed anywhere and is run again.       *)
(* Sources: distro-k3s/src/bootstrap/{token,install,orchestrate}.ts.       *)
(*                                                                         *)
(* What k3s does with its flags is external: `--cluster-init' on an empty  *)
(* disk makes a cluster, `--server' on an empty disk joins that server's   *)
(* cluster, a disk that has a cluster's data keeps it and refuses to start *)
(* with another cluster's token.  A node-token file names its cluster (it  *)
(* embeds the hash of the cluster's CA), so a token is the cluster's       *)
(* number, and Random until a cluster is made from it.                     *)
(***************************************************************************)
EXTENDS Naturals, FiniteSets

CONSTANTS
  NMasters,     \* masters are 1..NMasters, in the order of the server specs
  NWorkers,     \* workers are the next NWorkers numbers
  Replaceable,  \* hosts whose server may be lost and created again
  MaxFaults,    \* bound: SSH failures and crashes
  MaxLosses     \* bound: servers lost and created again, hosts stopped

ASSUME CountsAssumption ==
  /\ NMasters \in Nat \ {0}
  /\ NWorkers \in Nat
  /\ MaxFaults \in Nat
  /\ MaxLosses \in Nat

Masters == 1..NMasters
Workers == (NMasters + 1)..(NMasters + NWorkers)
Hosts   == 1..(NMasters + NWorkers)

ASSUME ReplaceableAssumption == Replaceable \subseteq Hosts

None   == 0     \* no cluster data on this disk; no token resolved
Random == NMasters + MaxLosses + 1

VARIABLES
  member,  \* the cluster whose data each host's disk holds
  up,      \* hosts on which k3s runs
  refused, \* hosts whose k3s would not start with the token it was given
  mtime,   \* when each host's node-token file was written; 0: no file
  clock,   \* the last number given to a cluster or to a file
  pc,      \* where runBootstrap is
  token,   \* the token this run installs with
  first,   \* resolveToken's firstMaster, whose address the others join
  done,    \* hosts this run has installed
  faults, losses

disks == <<member, up, refused, mtime, clock>>
run   == <<pc, token, first, done>>
vars  == <<member, up, refused, mtime, clock, pc, token, first, done,
           faults, losses>>

Init ==
  /\ member = [h \in Hosts |-> None]
  /\ up = {}
  /\ refused = {}
  /\ mtime = [h \in Hosts |-> 0]
  /\ clock = 0
  /\ pc = "idle"
  /\ token = None
  /\ first = 1
  /\ done = {}
  /\ faults = 0
  /\ losses = 0

\* runBootstrap returns or fails; what it knew is forgotten.
Exit ==
  /\ pc' = "idle"
  /\ token' = None
  /\ first' = 1
  /\ done' = {}

-----------------------------------------------------------------------------
(* token.ts                                                                *)

\* _mostFrequent: of equally frequent tokens, the one that was read first.
MostFrequent(read) ==
  LET Bearers(c) == {m \in read : member[m] = c}
      Least(S) == CHOOSE m \in S : \A n \in S : m <= n
      tokens == {member[m] : m \in read}
  IN CHOOSE c \in tokens :
       \A d \in tokens \ {c} :
         \/ Cardinality(Bearers(c)) > Cardinality(Bearers(d))
         \/ /\ Cardinality(Bearers(c)) = Cardinality(Bearers(d))
            /\ Least(Bearers(c)) < Least(Bearers(d))

\* _oldestBearer, among the bearers whose file could be stat'ed
OldestBearer(bearers) ==
  IF bearers = {} THEN 1
  ELSE CHOOSE b \in bearers : \A c \in bearers : mtime[b] <= mtime[c]

Start ==
  /\ pc = "idle"
  /\ pc' = "resolve"
  /\ UNCHANGED <<disks, token, first, done, faults, losses>>

\* Mutant of ResolveToken: every run makes up a token.
ResolveTokenAnew(failed) ==
  /\ pc = "resolve"
  /\ failed # {} => faults < MaxFaults
  /\ faults' = IF failed = {} THEN faults ELSE faults + 1
  /\ token' = Random
  /\ first' = 1
  /\ pc' = "first"
  /\ UNCHANGED <<disks, done, losses>>

\* resolveToken.  A token or an mtime that cannot be read over SSH counts as
\* one that does not exist: `failed' are the masters SSH fails on.
ResolveToken(failed) ==
  LET read == {m \in Masters \ failed : mtime[m] # 0}
  IN /\ pc = "resolve"
     /\ failed # {} => faults < MaxFaults
     /\ faults' = IF failed = {} THEN faults ELSE faults + 1
     /\ IF read = {} THEN token' = Random /\ first' = 1
        ELSE /\ token' = MostFrequent(read)
             /\ \E unstat \in {{}, failed, Masters} :
                  first' = OldestBearer({m \in read : member[m] = token'} \ unstat)
     /\ pc' = "first"
     /\ UNCHANGED <<disks, done, losses>>

-----------------------------------------------------------------------------
(* install.ts _installMaster and _installWorker, orchestrate.ts            *)

\* k3s starts on a disk that holds the data of the cluster this token opens.
Restarts(h) ==
  /\ member[h] # None
  /\ member[h] = token
  /\ up' = up \union {h}
  /\ refused' = refused \ {h}
  /\ UNCHANGED <<member, mtime, clock, token>>

\* `--cluster-init' on an empty disk.
FormsCluster(h) ==
  /\ member[h] = None
  /\ clock' = clock + 1
  /\ member' = [member EXCEPT ![h] = clock']
  /\ mtime' = [mtime EXCEPT ![h] = clock']
  /\ up' = up \union {h}
  /\ token' = IF token = Random THEN clock' ELSE token
  /\ UNCHANGED refused

\* `--server' on an empty disk; only a server writes a node-token file.
Joins(h) ==
  /\ member[h] = None
  /\ first \in up
  /\ member[first] = token
  /\ member' = [member EXCEPT ![h] = token]
  /\ up' = up \union {h}
  /\ IF h \in Masters
     THEN /\ clock' = clock + 1
          /\ mtime' = [mtime EXCEPT ![h] = clock']
     ELSE UNCHANGED <<clock, mtime>>
  /\ UNCHANGED <<refused, token>>

\* masters[0] is installed alone, with `--cluster-init', whoever `first' is.
InstallFirst ==
  /\ pc = "first"
  /\ Restarts(1) \/ FormsCluster(1)
  /\ done' = {1}
  /\ pc' = "ready"
  /\ UNCHANGED <<first, faults, losses>>

\* controlPlaneReady(masters[0])
ControlPlaneReady ==
  /\ pc = "ready"
  /\ 1 \in up
  /\ pc' = "rest"
  /\ UNCHANGED <<disks, token, first, done, faults, losses>>

\* Mutant of InstallMaster: every master gets `--cluster-init'.
InstallMasterInit(h) ==
  /\ pc = "rest"
  /\ h \in Masters \ done
  /\ Restarts(h) \/ FormsCluster(h)
  /\ done' = done \union {h}
  /\ UNCHANGED <<pc, first, faults, losses>>

InstallMaster(h) ==
  /\ pc = "rest"
  /\ h \in Masters \ done
  /\ Restarts(h) \/ Joins(h)
  /\ done' = done \union {h}
  /\ UNCHANGED <<pc, first, faults, losses>>

MastersInstalled ==
  /\ pc = "rest"
  /\ Masters \subseteq done
  /\ pc' = "workers"
  /\ UNCHANGED <<disks, token, first, done, faults, losses>>

InstallWorker(h) ==
  /\ pc = "workers"
  /\ h \in Workers \ done
  /\ Restarts(h) \/ Joins(h)
  /\ done' = done \union {h}
  /\ UNCHANGED <<pc, first, faults, losses>>

\* The host whose turn it is.
Turn(h) ==
  \/ pc = "first" /\ h = 1
  \/ pc = "rest" /\ h \in Masters \ done
  \/ pc = "workers" /\ h \in Workers \ done

\* Mutant of Refused: a master that refuses to start is passed over.
RefusedGoesOn(h) ==
  /\ Turn(h)
  /\ member[h] # None
  /\ member[h] # token
  /\ up' = up \ {h}
  /\ refused' = refused \union {h}
  /\ done' = done \union {h}
  /\ pc' = IF pc = "first" THEN "rest" ELSE pc
  /\ UNCHANGED <<member, mtime, clock, token, first, faults, losses>>

\* k3s does not start with the token of another cluster: the script fails.
Refused(h) ==
  /\ Turn(h)
  /\ member[h] # None
  /\ member[h] # token
  /\ up' = up \ {h}
  /\ refused' = refused \union {h}
  /\ Exit
  /\ UNCHANGED <<member, mtime, clock, faults, losses>>

\* Nothing to join at first's address.
JoinFails(h) ==
  /\ Turn(h)
  /\ h # 1
  /\ member[h] = None
  /\ first \notin up \/ member[first] # token
  /\ Exit
  /\ UNCHANGED <<disks, faults, losses>>

\* runBootstrap returns; the caller takes the kubeconfig from masters[0].
Finish ==
  /\ pc = "workers"
  /\ Workers \subseteq done
  /\ Exit
  /\ UNCHANGED <<disks, faults, losses>>

\* A gate times out, SSH fails, or the process is killed.
Interrupted ==
  /\ pc # "idle"
  /\ faults < MaxFaults
  /\ faults' = faults + 1
  /\ Exit
  /\ UNCHANGED <<disks, losses>>

\* Between two runs a server is lost and ensureServer creates it again, its
\* disk empty.  A majority of the masters keep theirs.
Recreate(h) ==
  /\ pc = "idle"
  /\ h \in Replaceable
  /\ member[h] # None
  /\ losses < MaxLosses
  /\ 2 * Cardinality({m \in Masters \ {h} : mtime[m] # 0}) > NMasters \/ h \in Workers
  /\ losses' = losses + 1
  /\ member' = [member EXCEPT ![h] = None]
  /\ mtime' = [mtime EXCEPT ![h] = 0]
  /\ up' = up \ {h}
  /\ refused' = refused \ {h}
  /\ UNCHANGED <<clock, run, faults>>

\* Between two runs k3s stops on a host, a reboot say.
Stop(h) ==
  /\ pc = "idle"
  /\ h \in up
  /\ losses < MaxLosses
  /\ losses' = losses + 1
  /\ up' = up \ {h}
  /\ UNCHANGED <<member, refused, mtime, clock, run, faults>>

-----------------------------------------------------------------------------
Progress ==
  \/ Start \/ ResolveToken({}) \/ InstallFirst \/ ControlPlaneReady
  \/ MastersInstalled \/ Finish
  \/ \E h \in Hosts : \/ InstallMaster(h) \/ InstallWorker(h)
                      \/ Refused(h) \/ JoinFails(h)

Next ==
  \/ Progress
  \/ \E failed \in SUBSET Masters \ {{}} : ResolveToken(failed)
  \/ Interrupted
  \/ \E h \in Hosts : Recreate(h) \/ Stop(h)

Spec == Init /\ [][Next]_vars

\* The process runs on, and the operator re-runs apply when it has ended.
FairSpec == Spec /\ WF_vars(Progress)

-----------------------------------------------------------------------------
TypeOK ==
  /\ member \in [Hosts -> Nat]
  /\ up \subseteq Hosts
  /\ refused \subseteq Hosts
  /\ mtime \in [Hosts -> Nat]
  /\ clock \in Nat
  /\ pc \in {"idle", "resolve", "first", "ready", "rest", "workers"}
  /\ token \in Nat
  /\ first \in Masters
  /\ done \subseteq Hosts
  /\ faults \in 0..MaxFaults
  /\ losses \in 0..MaxLosses

\* However often the bootstrap is interrupted and run again, on whatever
\* tokens it could read, all hosts are in one cluster: no second control plane.
OneControlPlane ==
  \A g, h \in Hosts : member[g] # None /\ member[h] # None => member[g] = member[h]

\* Every token read may fail, and resolveToken then makes one up that no
\* running master accepts.  Because master 1 is installed alone and its failure
\* ends the run, that costs master 1 and never the etcd quorum.
OnlyMasterOneRefuses == refused \subseteq {1}

\* A run that reports success leaves every host up in the cluster of
\* masters[0], whose kubeconfig the addons and the user are given.
SuccessIsOneCluster ==
  [][Finish => \A h \in Hosts : h \in up /\ member[h] = member[1]]_vars

\* Re-running the bootstrap converges.
EventuallyBootstrapped ==
  <>[](\A h \in Hosts : h \in up /\ member[h] # None /\ member[h] = member[1])

\* token.ts:59, "the survivor of the earliest bootstrap stays "master 1" on
\* reruns": the host that is told to initialise the cluster is a master of the
\* cluster whose token was resolved, when there is one.
SurvivorStaysMasterOne ==
  [][InstallFirst /\ token # Random => member[1] = token]_vars
=============================================================================
