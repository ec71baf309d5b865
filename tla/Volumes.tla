------------------------------ MODULE Volumes ------------------------------
(***************************************************************************)
(* The Cinder volumes of a cluster and the outputs file that records them, *)
(* with the ingress of the cluster.  A volume is found by its name and the *)
(* tag in its metadata, whatever its status; its DELETE is asynchronous.   *)
(* Two fibers ensure the same volumes at the same time: the step beside    *)
(* the cluster, which records them, and the cluster's own, which does not. *)
(* Sources: cli/src/commands/volumes.ts, cli/src/k3s/reconcile.ts,         *)
(* openstack/volumes/src.                                                  *)
(***************************************************************************)
EXTENDS FiniteSets, Naturals

CONSTANTS
  VolNames,
  MaxVolIds  \* bound: ids of volumes alive, on file or to be deleted at a time

ASSUME VolumesAssumption == IsFiniteSet(VolNames) /\ MaxVolIds \in Nat

VARIABLES
  volWanted,  \* the config: each name "keep" (retain), "drop", or "none"
  volumes,    \* what Cinder has: [id, name, mine (our tag), leaving]
  outputs,    \* the outputs file: [vols (0: not recorded), ingress]
  vtorn,      \* whether it was cut short and cannot be read
  vpc,        \* the step beside the cluster: "idle", "ensure", "list", "delete", "done", "failed"
  vmem,       \* the file it read and, in memory, wrote to
  vleft,      \* names each fiber has still to look up
  vabsent,    \* names each looked up, did not find, and is to create
  vdoomed     \* ids the process has still to delete

volRemote == <<volWanted, volumes>>
volFile   == <<outputs, vtorn>>
volRun    == <<vpc, vmem, vleft, vabsent, vdoomed>>
volVars   == <<volRemote, volFile, volRun>>

Fibers  == {"beside", "cluster"}
Nobody  == [f \in Fibers |-> {}]
VolIds  == 1..MaxVolIds
Managed == {n \in VolNames : volWanted[n] # "none"}
Recorded(file) == {file.vols[n] : n \in VolNames} \ {0}
NoOutputs == [vols |-> [n \in VolNames |-> 0], ingress |-> FALSE]

Ours(n) == {v \in volumes : v.name = n /\ v.mine}

\* Cinder never gives an id twice.
UsedVolIds == {v.id : v \in volumes} \union Recorded(outputs) \union Recorded(vmem) \union vdoomed
FreshVolId == CHOOSE i \in VolIds : i \notin UsedVolIds

\* POST: guarded by the bound on ids
CreateVolume(n, mine) ==
  /\ \E i \in VolIds : i \notin UsedVolIds
  /\ volumes' = volumes \union {[id |-> FreshVolId, name |-> n, mine |-> mine, leaving |-> FALSE]}

VolInit ==
  /\ volumes = {} /\ outputs = NoOutputs /\ vtorn = FALSE
  /\ vpc = "idle" /\ vmem = NoOutputs /\ vleft = Nobody /\ vabsent = Nobody /\ vdoomed = {}

VolStop ==
  vpc' = "idle" /\ vmem' = NoOutputs /\ vleft' = Nobody /\ vabsent' = Nobody /\ vdoomed' = {}

-----------------------------------------------------------------------------
(* ensureVolume, by either fiber                                           *)

\* upsertVolume makes a file of cluster and volumes only.
Upsert(file, n, id) == [vols |-> [file.vols EXCEPT ![n] = id], ingress |-> FALSE]

\* The step beside the cluster keeps what it is told; the cluster's drops it.
Noted(f, n, id) == vmem' = IF f = "beside" THEN Upsert(vmem, n, id) ELSE vmem

\* Several names at a time beside the cluster, one after the other in it
Turn(f) == f = "cluster" => vabsent[f] = {}

\* Mutant of Look: what is listed is not looked at.
LookBlindly(f, n) ==
  /\ n \in vleft[f] /\ Turn(f)
  /\ vleft' = [vleft EXCEPT ![f] = @ \ {n}]
  /\ vabsent' = [vabsent EXCEPT ![f] = @ \union {n}]
  /\ UNCHANGED <<volRemote, volFile, vpc, vmem, vdoomed>>

\* The list, and the volume it holds
Look(f, n) ==
  /\ n \in vleft[f] /\ Turn(f)
  /\ vleft' = [vleft EXCEPT ![f] = @ \ {n}]
  /\ \/ \E v \in Ours(n) : Noted(f, n, v.id) /\ UNCHANGED vabsent
     \/ Ours(n) = {} /\ vabsent' = [vabsent EXCEPT ![f] = @ \union {n}] /\ UNCHANGED vmem
  /\ UNCHANGED <<volRemote, volFile, vpc, vdoomed>>

\* The POST, of what the list did not hold then; a POST whose answer is lost is
\* this step and the end of the run.
Create(f, n) ==
  /\ n \in vabsent[f]
  /\ CreateVolume(n, TRUE) /\ Noted(f, n, FreshVolId)
  /\ vabsent' = [vabsent EXCEPT ![f] = @ \ {n}]
  /\ UNCHANGED <<volWanted, volFile, vpc, vleft, vdoomed>>

Ensured(f) == vleft[f] = {} /\ vabsent[f] = {}

-----------------------------------------------------------------------------
(* Beside the cluster: convergeManagedVolumes, reconcileVolumesOnDelete    *)

\* Without managed volumes there is nothing to read or to do.
VolEnsure ==
  /\ vpc' = IF Managed = {} THEN "done" ELSE IF vtorn THEN "failed" ELSE "ensure"
  /\ vmem' = IF Managed = {} THEN vmem ELSE outputs
  /\ vleft' = [vleft EXCEPT !["beside"] = IF vtorn THEN {} ELSE Managed]
  /\ UNCHANGED <<vabsent, vdoomed>>

VolPurge ==
  /\ vpc' = IF Managed = {} THEN "done" ELSE "list"
  /\ UNCHANGED <<vmem, vleft, vabsent, vdoomed>>

Writing == vpc = "ensure" /\ Ensured("beside")

WriteVolumes ==
  /\ Writing
  /\ outputs' = vmem /\ vtorn' = FALSE /\ vpc' = "done"
  /\ UNCHANGED <<volRemote, vmem, vleft, vabsent, vdoomed>>

\* writeFileString truncates the file, then writes it: the end of the process,
\* or of its fiber, leaves it empty.
OutputsCut == outputs' = NoOutputs /\ vtorn' = TRUE

\* Of each managed name that is not retained, the first of the list
ListVolumes ==
  /\ vpc = "list"
  /\ \E first \in [VolNames -> VolIds] :
       LET found == {n \in Managed : volWanted[n] = "drop" /\ Ours(n) # {}}
       IN /\ \A n \in found : \E v \in Ours(n) : v.id = first[n]
          /\ vdoomed' = {first[n] : n \in found}
  /\ vpc' = "delete"
  /\ UNCHANGED <<volRemote, volFile, vmem, vleft, vabsent>>

\* A volume that is gone is deleted all the same (404).
DeleteVolume(i) ==
  /\ i \in vdoomed
  /\ volumes' = {IF v.id = i THEN [v EXCEPT !.leaving = TRUE] ELSE v : v \in volumes}
  /\ vdoomed' = vdoomed \ {i}
  /\ UNCHANGED <<volWanted, volFile, vpc, vmem, vleft, vabsent>>

\* The outputs file is left as it is.
VolumesDeleted ==
  /\ vpc = "delete" /\ vdoomed = {}
  /\ vpc' = "done"
  /\ UNCHANGED <<volRemote, volFile, vmem, vleft, vabsent, vdoomed>>

RecordIngress(ingress) ==
  /\ ~(ingress /\ vtorn)
  /\ outputs' = IF ingress THEN [outputs EXCEPT !.ingress = TRUE] ELSE outputs
  /\ UNCHANGED vtorn

\* The command `volumes adopt': writes an id given by hand.
VolumesAdopt ==
  /\ vpc = "idle" /\ ~vtorn
  /\ \E n \in Managed, v \in volumes : outputs' = Upsert(outputs, n, v.id)
  /\ UNCHANGED <<volRemote, vtorn, volRun>>

-----------------------------------------------------------------------------
(* In the cluster's own step, of k3s                                       *)

ClusterEnsures == vleft' = [vleft EXCEPT !["cluster"] = Managed]

\* Every volume of the tag goes, but those the config says to retain: also one
\* the config does not name any more.
ClusterPurges ==
  vdoomed' = {v.id : v \in {w \in volumes : w.mine /\ volWanted[w.name] # "keep"}}

-----------------------------------------------------------------------------
VolStep ==
  \/ \E f \in Fibers, n \in VolNames : Look(f, n) \/ Create(f, n)
  \/ WriteVolumes \/ ListVolumes \/ VolumesDeleted
  \/ \E i \in VolIds : DeleteVolume(i)

\* A person, or another cluster of the project, makes a volume of our name; one
\* of a name at a time, as a bound.
HandMakesVolume ==
  /\ \E n \in Managed :
       /\ ~\E v \in volumes : v.name = n /\ ~v.mine
       /\ CreateVolume(n, FALSE)
  /\ UNCHANGED <<volWanted, volFile, volRun>>

\* Cinder finishes a deletion.
VolumeGone ==
  /\ \E v \in volumes : v.leaving /\ volumes' = volumes \ {v}
  /\ UNCHANGED <<volWanted, volFile, volRun>>
=============================================================================
