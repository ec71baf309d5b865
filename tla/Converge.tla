------------------------------ MODULE Converge ------------------------------
(***************************************************************************)
(* What `apply' and `delete' do beside the cluster: the cluster, its       *)
(* volumes and its buckets at the same time, then the ingress in the       *)
(* outputs file; on delete the volumes after the cluster.  k3s deals with  *)
(* the volumes in its own step as well, and does without the rest where    *)
(* there is no storage.  The first failure interrupts the others.          *)
(* Composes Volumes and Buckets.                                           *)
(* Sources: cli/src/commands.ts, cli/src/k3s/reconcile.ts.                 *)
(***************************************************************************)
EXTENDS Volumes, Buckets

CONSTANTS
  ConvergeConfigs,  \* [distro, ingress, storage, vols, buckets]
  MaxEdits,         \* bound: edits of the config, deletions, adoptions
  MaxFaults         \* bound: failures, crashes, what others do

ASSUME ConvergeAssumption ==
  /\ MaxEdits \in Nat /\ MaxFaults \in Nat
  /\ \A c \in ConvergeConfigs :
       /\ c.distro \in {"mks", "k3s"} /\ c.ingress \in BOOLEAN
       /\ c.storage \in {"ovh", "bunny", "none"}
       /\ c.vols \in [VolNames -> {"none", "keep", "drop"}]
       /\ c.buckets \in [BucketNames -> BucketSpecs \union {Nothing}]
       /\ c.storage = "none" => c.buckets = NoBuckets
       /\ c.distro = "k3s" => ~c.ingress  \* only mks reports one

VARIABLES
  distro, ingress,  \* the config: whose plan has volume rows; an ingress block
  cluster,          \* whether the cluster is up
  task,             \* the command: "idle", "apply", "delete"
  cpc,              \* its cluster step: "idle", "list", "delete", "run", "volumes", "done"
  faults, edits

vars == <<volVars, bvars, distro, ingress, cluster, task, cpc, faults, edits>>
others == <<distro, ingress, faults, edits>>

HasConfig(c) == /\ distro = c.distro /\ ingress = c.ingress /\ volWanted = c.vols
                /\ bprovider = c.storage /\ bwanted = c.buckets

Init ==
  /\ \E c \in ConvergeConfigs : HasConfig(c)
  /\ VolInit /\ BucketsInit
  /\ cluster = FALSE /\ task = "idle" /\ cpc = "idle" /\ faults = 0 /\ edits = 0

Stop == task' = "idle" /\ cpc' = "idle" /\ VolStop /\ BucketsStop

-----------------------------------------------------------------------------
(* _applyFlow and _convergeAll                                             *)

\* The k3s plan has no rows for volumes.
HasWork ==
  \/ ~cluster
  \/ distro = "mks" /\ \E n \in Managed : Ours(n) = {}
  \/ BucketRows # {}

\* Without storage k3s runs its own apply, and nothing beside it.
Alone == distro = "k3s" /\ bprovider = "none"

\* The plan reads the buckets' file.
Apply ==
  /\ task = "idle" /\ HasWork /\ ~btorn
  /\ task' = "apply" /\ cpc' = "run"
  /\ IF Alone THEN vpc' = "done" /\ UNCHANGED <<vmem, vleft, vabsent, vdoomed>> ELSE VolEnsure
  /\ BucketsStart
  /\ UNCHANGED <<volRemote, volFile, bconfig, bcloud, bdisk, cluster, others>>

\* The servers, or the managed cluster; k3s then ensures its volumes.
ClusterStep ==
  /\ cpc = "run"
  /\ cluster' = (task = "apply")
  /\ IF task = "apply" /\ distro = "k3s" THEN cpc' = "volumes" /\ ClusterEnsures
                                         ELSE cpc' = "done" /\ UNCHANGED vleft
  /\ UNCHANGED <<volRemote, volFile, vpc, vmem, vabsent, vdoomed, bvars, task, others>>

ClusterEnsured ==
  /\ cpc = "volumes" /\ Ensured("cluster")
  /\ cpc' = "done"
  /\ UNCHANGED <<volVars, bvars, cluster, task, others>>

Settled == cpc = "done" /\ vpc = "done" /\ bpc = "done"

Applied ==
  /\ task = "apply" /\ Settled
  /\ RecordIngress(ingress)
  /\ Stop
  /\ UNCHANGED <<volRemote, bconfig, bcloud, bdisk, cluster, others>>

-----------------------------------------------------------------------------
(* _deletePlan and del                                                     *)

DeleteRows ==
  \/ cluster
  \/ \E n \in Managed : volWanted[n] = "drop" /\ Ours(n) # {}
  \/ bprovider # "none" /\ Purgeable # {}

\* k3s begins with the volumes, unless the config has no module for them.
Delete ==
  /\ task = "idle" /\ DeleteRows /\ ~btorn
  /\ edits < MaxEdits /\ edits' = edits + 1
  /\ task' = "delete"
  /\ \/ cpc' = "list" /\ distro = "k3s"
     \/ cpc' = "run" /\ (distro = "k3s" => Managed = {})
  /\ BucketsPurge
  /\ UNCHANGED <<volVars, bconfig, bcloud, bdisk, cluster, distro, ingress, faults>>

ClusterLists ==
  /\ cpc = "list"
  /\ cpc' = "delete" /\ ClusterPurges
  /\ UNCHANGED <<volRemote, volFile, vpc, vmem, vleft, vabsent, bvars, cluster, task, others>>

ClusterPurged ==
  /\ cpc = "delete" /\ vdoomed = {}
  /\ cpc' = "run"
  /\ UNCHANGED <<volVars, bvars, cluster, task, others>>

VolumesAfterCluster ==
  /\ task = "delete" /\ cpc = "done" /\ vpc = "idle"
  /\ VolPurge
  /\ UNCHANGED <<volRemote, volFile, bvars, cluster, task, cpc, others>>

Deleted ==
  /\ task = "delete" /\ Settled
  /\ Stop
  /\ UNCHANGED <<volRemote, volFile, bconfig, bcloud, bdisk, cluster, others>>

-----------------------------------------------------------------------------
\* What is being written when a run ends may be cut short.
RecordingIngress == task = "apply" /\ Settled /\ ingress
Cut ==
  /\ \/ UNCHANGED volFile
     \/ (Writing \/ RecordingIngress) /\ OutputsCut
  /\ BucketsCut

Failing == BucketsFailing \/ vpc = "failed" \/ (RecordingIngress /\ vtorn)

\* A step of one that cannot succeed stops all of them.
Failed ==
  /\ task # "idle" /\ Failing
  /\ Stop /\ Cut
  /\ UNCHANGED <<volRemote, bconfig, bcloud, cluster, others>>

\* A failure or a crash anywhere; after a request that was executed, where its
\* answer is lost
Interrupted ==
  /\ task # "idle"
  /\ faults < MaxFaults /\ faults' = faults + 1
  /\ Stop /\ Cut
  /\ UNCHANGED <<volRemote, bconfig, bcloud, cluster, distro, ingress, edits>>

Working ==
  \/ VolStep /\ UNCHANGED <<bvars, distro, ingress, cluster, task, cpc, faults, edits>>
  \/ BucketsStep /\ UNCHANGED <<volVars, distro, ingress, cluster, task, cpc, faults, edits>>
  \/ ClusterStep \/ ClusterEnsured \/ ClusterLists \/ ClusterPurged

EditConfig ==
  /\ task = "idle"
  /\ edits < MaxEdits /\ edits' = edits + 1
  /\ \E c \in ConvergeConfigs :
       /\ c.distro = distro /\ c.storage = bprovider
       /\ volWanted' = c.vols /\ bwanted' = c.buckets /\ ingress' = c.ingress
       /\ <<volWanted, bwanted, ingress>>' # <<volWanted, bwanted, ingress>>
  /\ UNCHANGED <<volumes, volFile, volRun, bprovider, bcloud, bdisk, brun, distro, cluster,
                 task, cpc, faults>>

Adopt ==
  /\ task = "idle"
  /\ edits < MaxEdits /\ edits' = edits + 1
  /\ VolumesAdopt
  /\ UNCHANGED <<bvars, distro, ingress, cluster, task, cpc, faults>>

Others ==
  /\ faults < MaxFaults /\ faults' = faults + 1
  /\ \/ BucketsEnv /\ UNCHANGED <<volVars, bconfig, s3key, bdisk, brun>>
     \/ HandMakesVolume /\ UNCHANGED bvars
  /\ UNCHANGED <<distro, ingress, cluster, task, cpc, edits>>

Cinder == VolumeGone /\ UNCHANGED <<bvars, distro, ingress, cluster, task, cpc, faults, edits>>

Progress == Working \/ Applied \/ VolumesAfterCluster \/ Deleted \/ Failed

Next == Progress \/ Cinder \/ Apply \/ Delete \/ Interrupted \/ EditConfig \/ Adopt \/ Others

Spec == Init /\ [][Next]_vars

\* The process runs on, Cinder finishes deletions, the operator re-runs apply.
FairSpec == Spec /\ WF_vars(Progress) /\ WF_vars(Cinder) /\ SF_vars(Apply)

-----------------------------------------------------------------------------
\* Besides the types: no bucket exists twice, and no volume of the cluster does,
\* but for k3s, whose two fibers may both look before either creates.
TypeOK ==
  /\ \E c \in ConvergeConfigs : HasConfig(c)
  /\ \A v \in volumes : v.id \in VolIds /\ v.name \in VolNames
  /\ \A v, w \in volumes : v.id = w.id => v = w
  /\ distro = "mks" => \A v, w \in volumes : v.name = w.name /\ v.mine /\ w.mine => v = w
  /\ Recorded(outputs) \union Recorded(vmem) \union vdoomed \subseteq VolIds
  /\ vpc \in {"idle", "ensure", "list", "delete", "done", "failed"} /\ vtorn \in BOOLEAN
  /\ \A f \in Fibers : vleft[f] \union vabsent[f] \subseteq VolNames
  /\ \A b \in buckets : b.name \in BucketNames /\ b.id \in BucketIds
  /\ \A b, d \in buckets : b.name = d.name /\ (b.region = d.region \/ bprovider = "bunny") => b = d
  /\ bleft \union bempty \union bhalf \subseteq BucketNames /\ btorn \in BOOLEAN
  /\ s3key \in {"none", "unfiled", "filed"} /\ (secrets \in {Nothing, Torn} \/ secrets \subseteq BucketIds)
  /\ bfailed \in BOOLEAN /\ bchanged \in BOOLEAN /\ cluster \in BOOLEAN
  /\ task \in {"idle", "apply", "delete"}
  /\ cpc \in {"idle", "list", "delete", "run", "volumes", "done"}
  /\ faults \in 0..MaxFaults /\ edits \in 0..MaxEdits

Destroyed == {b \in buckets : ~\E d \in buckets' : d.name = b.name /\ d.region = b.region /\ d.id = b.id}

\* k3s deletes what the config does not retain, the steps beside the cluster
\* only what it names.
Unretained(n) == volWanted[n] = "drop" \/ (distro = "k3s" /\ volWanted[n] = "none")

\* Data survive a command.  No volume is deleted but by `delete', and then one of
\* our tag that the config does not retain; with mks one that it names as well.
\* No bucket is deleted that the run did not find empty, that has objects in it
\* (of bunny: unless they came after it looked), that the file does not know, or
\* that it says to retain, unless an OVH bucket has to be replaced because what
\* the config now asks cannot be changed.
DataSurvives ==
  [][task # "idle" /\ faults' = faults =>
       /\ \A v \in volumes : v \notin volumes' /\ ~v.leaving =>
            task = "delete" /\ v.mine /\ Unretained(v.name)
       /\ \A b \in Destroyed : /\ b.name \in bempty /\ (b.full => bprovider = "bunny")
                               /\ bfile[b.name] # Nothing
                               /\ bfile[b.name].retain => bprovider = "ovh" /\ b.name \in ToReplace]_vars

\* There is no file of k3s's own.
VolumesServed == \A n \in Managed : \E v \in Ours(n) : Alone \/ outputs.vols[n] = v.id
BucketsServed ==
  \A n \in Desired : /\ bfile[n] # Nothing
                     /\ \E b \in Found(n) : b.region = bwanted[n].region /\ b.kind = bwanted[n].kind
                                            /\ (bprovider = "ovh" => b.ver = bwanted[n].ver)
SecretsServed == /\ secrets \notin {Nothing, Torn}
                 /\ bprovider = "ovh" => s3key = "filed"

\* When apply reports success, the outputs files tell where the volumes and
\* the ingress are, but for k3s without storage, which writes none; and there is
\* a credentials file that holds the OVH key in force, although a key is shown
\* only once and an earlier run may have died with it, unless the file was cut
\* short by one: it is taken to be there.
SuccessIsRecorded ==
  [][Applied =>
       /\ ~Alone => \A n \in Managed : outputs'.vols[n] # 0
       /\ ingress => outputs'.ingress
       /\ Desired \subseteq OnFile
       /\ bprovider # "none" => SecretsServed \/ secrets = Torn]_vars

-----------------------------------------------------------------------------
\* Dead ends, which re-running apply does not leave.
\* A delete of the diff that is refused: the bucket is gone already, by a run
\* that died before it wrote the file, or has objects in it.
Undeletable == \E n \in ToReplace \union ToDelete : CannotDelete(n)
\* A zone of ours the file does not know, or one retained that is to be replaced
NameTaken == /\ bprovider = "bunny"
             /\ \E n \in ToCreate \union ToReplace :
                  \E b \in buckets : b.name = n /\ (n \in ToCreate \/ b \notin Found(n) \/ Kept(n))
ZoneGone == bprovider = "bunny" /\ \E n \in AsFiled : Found(n) = {}
\* An OVH bucket found by its name, whose encryption nobody compares
WrongKind == bprovider = "ovh" /\ \E n \in Desired : \E b \in buckets :
               b.name = n /\ b.region = bwanted[n].region /\ b.kind # bwanted[n].kind
\* The plan has no row for the credentials, the outputs file, k3s volumes, an OVH
\* bucket whose versioning is not what the file says it is, or one that is gone
\* where its name is found in another region.
Unplanned == /\ ~HasWork
             /\ \/ bprovider = "ovh" /\ \E n \in Desired : \E b \in Found(n) : b.ver # bwanted[n].ver
                \/ bprovider = "ovh" /\ \E n \in AsFiled \intersect LiveNames : Found(n) = {}
                \/ ~VolumesServed \/ ingress # outputs.ingress
                \/ bprovider # "none" /\ ~SecretsServed
\* A file cut short is not written again: it cannot be read, or is not looked into.
Unreadable == btorn \/ vtorn \/ secrets = Torn
Stuck == Undeletable \/ NameTaken \/ ZoneGone \/ WrongKind \/ Unplanned \/ Unreadable

Served ==
  /\ cluster /\ VolumesServed /\ (ingress => outputs.ingress)
  /\ BucketsServed /\ (bprovider # "none" => SecretsServed)

\* Re-running apply ends with everything there and recorded, unless it runs
\* into one of the dead ends above.
EventuallyServed == <>[]Served \/ []<>Stuck
=============================================================================
