--------------------------- MODULE Converge_proofs ---------------------------
(***************************************************************************)
(* Proofs about the volumes and buckets beside the cluster: that data      *)
(* survive a command and that success is recorded, for any names, specs,   *)
(* configs and bounds.                                                     *)
(***************************************************************************)
EXTENDS Converge, FiniteSetTheorems, TLAPS

-----------------------------------------------------------------------------
(* The inductive invariant                                                 *)

ConfigOK == \E c \in ConvergeConfigs : HasConfig(c)

Volume == [id : VolIds, name : VolNames, mine : BOOLEAN, leaving : BOOLEAN]
OutFile == [vols : [VolNames -> VolIds \union {0}], ingress : BOOLEAN]

VolTypes ==
  /\ volumes \subseteq Volume /\ outputs \in OutFile /\ vmem \in OutFile /\ vtorn \in BOOLEAN
  /\ vpc \in {"idle", "ensure", "list", "delete", "done", "failed"}
  /\ vleft \in [Fibers -> SUBSET VolNames] /\ vabsent \in [Fibers -> SUBSET VolNames]
  /\ vdoomed \subseteq VolIds

\* A volume is told from the others by its id, and with mks ours by its name.
VolUnique ==
  /\ \A v, w \in volumes : v.id = w.id => v = w
  /\ distro = "mks" => \A v, w \in volumes : v.name = w.name /\ v.mine /\ w.mine => v = w

\* Only volumes that the config does not retain are to be deleted; what has been
\* ensured is in memory, and then on file; with mks one fiber creates, and what
\* it did not find nobody else makes meanwhile.
VolFlow ==
  /\ task # "apply" => vleft = Nobody /\ vabsent = Nobody
  /\ vpc = "ensure" => task = "apply"
  /\ vpc \in {"list", "delete"} \/ vdoomed # {} => task = "delete"
  /\ \A v \in volumes : v.id \in vdoomed => v.mine /\ Unretained(v.name)
  /\ vpc = "ensure" => \A n \in Managed \ (vleft["beside"] \union vabsent["beside"]) : vmem.vols[n] # 0
  /\ task = "apply" /\ vpc = "done" /\ ~Alone => \A n \in Managed : outputs.vols[n] # 0
  /\ distro = "mks" => /\ vleft["cluster"] = {} /\ vabsent["cluster"] = {}
                       /\ \A n \in vabsent["beside"] : Ours(n) = {}

VolInv == VolTypes /\ VolUnique /\ VolFlow

OvhPcs == {"ensure", "replace", "remove", "issue", "drop", "make", "seal"}
BunnyPcs == {"doom", "zones", "failed", "passwords"}

BucketTypes ==
  /\ buckets \subseteq Containers
  /\ bfile \in [BucketNames -> Entry \union {Nothing}]
  /\ bmem \in [BucketNames -> Entry \union {Nothing}]
  /\ s3key \in {"none", "unfiled", "filed"} /\ btorn \in BOOLEAN
  /\ secrets \notin {Nothing, Torn} =>
       /\ secrets \subseteq BucketIds
       /\ IsFiniteSet(secrets) /\ Cardinality(secrets) <= Cardinality(BucketNames)
  /\ bpc \in {"idle", "done", "purge"} \union OvhPcs \union BunnyPcs
  /\ bleft \subseteq BucketNames /\ bempty \subseteq BucketNames /\ bhalf \subseteq BucketNames
  /\ bfailed \in BOOLEAN /\ bchanged \in BOOLEAN

BucketUnique ==
  \A b, d \in buckets : b.name = d.name /\ (b.region = d.region \/ bprovider = "bunny") => b = d

\* What each phase has to do is what the diff of the file and the config says;
\* a key that is filed stays in force as long as there is a file.
BucketFlow ==
  /\ bpc \in OvhPcs => bprovider = "ovh" /\ task = "apply"
  /\ bpc \in BunnyPcs => bprovider = "bunny" /\ task = "apply"
  /\ bpc = "purge" => task = "delete" /\ bprovider # "none" /\ bleft \union bempty \subseteq Purgeable
  /\ bempty # {} => bpc \in {"replace", "remove", "purge", "doom"}
  /\ bprovider = "bunny" => \A n \in bempty : ~bfile[n].retain
  /\ bpc \in {"idle", "ensure"} => bhalf = {}
  /\ bpc \in {"ensure", "zones"} => bleft \subseteq Desired
  /\ bpc = "replace" => bleft \union bempty \union bhalf \subseteq ToReplace
  /\ bpc = "remove" => bleft \union bempty \subseteq ToDelete
  /\ bpc = "doom" => bleft \union bempty \subseteq ToReplace \union ToDelete
  /\ bpc \in {"issue", "drop", "make", "seal"} => secrets = Nothing
  /\ bpc = "zones" => \A n \in Desired \ bleft : bmem[n] # Nothing \/ bfailed
  /\ bpc \in {"issue", "drop", "make", "seal", "passwords"} \/ (bpc = "done" /\ task = "apply") =>
       Desired \subseteq OnFile
  /\ bpc = "done" /\ task = "apply" /\ bprovider # "none" => secrets # Nothing
  /\ bprovider = "ovh" /\ secrets \notin {Nothing, Torn} => s3key = "filed"

BucketInv == BucketTypes /\ BucketUnique /\ BucketFlow

TaskTypes ==
  /\ cluster \in BOOLEAN /\ task \in {"idle", "apply", "delete"}
  /\ cpc \in {"idle", "list", "delete", "run", "volumes", "done"}
  /\ cpc = "list" => task = "delete" /\ distro = "k3s"
  /\ faults \in 0..MaxFaults /\ edits \in 0..MaxEdits
  /\ task = "idle" => vpc = "idle" /\ bpc = "idle"

ConvergeInv == ConfigOK /\ TaskTypes /\ VolInv /\ BucketInv

-----------------------------------------------------------------------------
(* The constants                                                           *)

LEMMA ConfigTypes ==
  ASSUME ConfigOK
  PROVE  /\ ingress \in BOOLEAN /\ distro \in {"mks", "k3s"} /\ bprovider \in {"ovh", "bunny", "none"}
         /\ volWanted \in [VolNames -> {"none", "keep", "drop"}]
         /\ bwanted \in [BucketNames -> BucketSpecs \union {Nothing}]
         /\ bprovider = "none" => bwanted = NoBuckets
BY ConvergeAssumption DEF ConfigOK, HasConfig

LEMMA SpecTypes ==
  ASSUME ConfigOK, NEW n \in Desired
  PROVE  /\ n \in BucketNames /\ bwanted[n] \in BucketSpecs
         /\ bwanted[n].ver \in BOOLEAN /\ bwanted[n].retain \in BOOLEAN
         /\ bwanted[n].region \in {s.region : s \in BucketSpecs}
         /\ bwanted[n].kind \in {s.kind : s \in BucketSpecs}
<1>1. n \in BucketNames /\ bwanted[n] \in BucketSpecs
  BY ConfigTypes DEF Desired
<1> QED
  BY <1>1, BucketsAssumption

\* A config that is not edited stays one of the configs.
LEMMA SameConfig ==
  ASSUME ConfigOK, UNCHANGED <<distro, ingress, volWanted, bprovider, bwanted>>
  PROVE  ConfigOK'
BY DEF ConfigOK, HasConfig

-----------------------------------------------------------------------------
(* There is always an id that nobody uses.                                 *)

LEMMA AtMostSum ==
  ASSUME NEW S, NEW T, NEW j \in Nat, NEW k \in Nat,
         IsFiniteSet(S), Cardinality(S) <= j, IsFiniteSet(T), Cardinality(T) <= k
  PROVE  IsFiniteSet(S \union T) /\ Cardinality(S \union T) <= j + k
<1>1. /\ IsFiniteSet(S \union T) /\ IsFiniteSet(S \intersect T)
      /\ Cardinality(S \union T) = Cardinality(S) + Cardinality(T) - Cardinality(S \intersect T)
  BY FS_Union, FS_Intersection
<1>2. Cardinality(S) \in Nat /\ Cardinality(T) \in Nat /\ Cardinality(S \intersect T) \in Nat
  BY <1>1, FS_CardinalityType
<1> QED
  BY <1>1, <1>2

LEMMA AtMostPart ==
  ASSUME NEW S, NEW T, NEW k \in Nat, S \subseteq T, IsFiniteSet(T), Cardinality(T) <= k
  PROVE  IsFiniteSet(S) /\ Cardinality(S) <= k
<1>1. IsFiniteSet(S) /\ Cardinality(S) <= Cardinality(T)
  BY FS_Subset
<1>2. Cardinality(S) \in Nat /\ Cardinality(T) \in Nat
  BY <1>1, FS_CardinalityType
<1> QED
  BY <1>1, <1>2

\* The values of a function are no more than its arguments.
LEMMA AtMostDomain ==
  ASSUME NEW D, IsFiniteSet(D), NEW f, NEW V,
         \A v \in V : \E d \in D : v = f[d]
  PROVE  IsFiniteSet(V) /\ Cardinality(V) <= Cardinality(D)
<1> DEFINE g == [d \in D |-> f[d]]
           T == {f[d] : d \in D}
<1>1. g \in Surjection(D, T)
  BY DEF Surjection
<1>2. IsFiniteSet(T) /\ Cardinality(T) <= Cardinality(D)
  BY <1>1, FS_Surjection
<1>3. Cardinality(D) \in Nat
  BY FS_CardinalityType
<1>4. V \subseteq T
  OBVIOUS
<1> HIDE DEF T
<1> QED
  BY <1>2, <1>3, <1>4, AtMostPart

\* Of more numbers than are taken one is free.
LEMMA SomeFree ==
  ASSUME NEW k \in Nat, NEW max \in Nat, max > k,
         NEW S, IsFiniteSet(S), Cardinality(S) <= k
  PROVE  \E i \in 1..max : i \notin S
<1> SUFFICES ASSUME 1..max \subseteq S PROVE FALSE
  OBVIOUS
<1>1. Cardinality(1..max) = max
  BY FS_Interval
<1>2. Cardinality(1..max) <= k
  BY AtMostPart
<1> QED
  BY <1>1, <1>2

UsedBucketIds ==
  {b.id : b \in buckets} \union {bfile[n].id : n \in OnFile}
    \union {bmem[n].id : n \in {m \in BucketNames : bmem[m] # Nothing}}
    \union (IF secrets \in {Nothing, Torn} THEN {} ELSE secrets)

\* Bunny has an id left for what is made next; OVH needs none.
LEMMA FreshBucketIsFree ==
  ASSUME BucketTypes, BucketUnique, bprovider \in {"ovh", "bunny"}
  PROVE  /\ FreshBucketId \in BucketIds
         /\ bprovider = "bunny" => FreshBucketId \notin UsedBucketIds
<1> DEFINE B == Cardinality(BucketNames)
           zone == [n \in BucketNames |-> (CHOOSE b \in buckets : b.name = n).id]
           onFile == [n \in BucketNames |-> bfile[n].id]
           inMem == [n \in BucketNames |-> bmem[n].id]
           Z == {b.id : b \in buckets}
           F == {bfile[n].id : n \in OnFile}
           M == {bmem[n].id : n \in {m \in BucketNames : bmem[m] # Nothing}}
           S == IF secrets \in {Nothing, Torn} THEN {} ELSE secrets
<1>1. B \in Nat /\ 0 \in BucketIds
  BY BucketsAssumption, FS_CardinalityType DEF BucketIds
<1>2. CASE bprovider = "ovh"
  BY <1>1, <1>2 DEF FreshBucketId
<1>3. ASSUME bprovider # "ovh" PROVE bprovider = "bunny" => \E i \in 1..MaxBucketIds : i \notin UsedBucketIds
  <2> SUFFICES ASSUME bprovider = "bunny" PROVE \E i \in 1..MaxBucketIds : i \notin UsedBucketIds
    OBVIOUS
  <2>1. IsFiniteSet(Z) /\ Cardinality(Z) <= B
    <3>1. ASSUME NEW b \in buckets PROVE b.name \in BucketNames /\ b.id = zone[b.name]
      <4>1. b.name \in BucketNames
        BY DEF BucketTypes, Containers
      <4>2. (CHOOSE d \in buckets : d.name = b.name) = b
        BY DEF BucketUnique
      <4> QED
        BY <4>1, <4>2
    <3> HIDE DEF zone
    <3>2. \A i \in Z : \E n \in BucketNames : i = zone[n]
      BY <3>1
    <3> HIDE DEF Z
    <3> QED
      BY <3>2, AtMostDomain, BucketsAssumption
  <2>2. IsFiniteSet(F) /\ Cardinality(F) <= B
    <3>1. \A i \in F : \E n \in BucketNames : i = onFile[n]
      BY DEF OnFile
    <3> HIDE DEF F, onFile
    <3> QED
      BY <3>1, AtMostDomain, BucketsAssumption
  <2>3. IsFiniteSet(M) /\ Cardinality(M) <= B
    <3>1. \A i \in M : \E n \in BucketNames : i = inMem[n]
      OBVIOUS
    <3> HIDE DEF M, inMem
    <3> QED
      BY <3>1, AtMostDomain, BucketsAssumption
  <2>4. IsFiniteSet(S) /\ Cardinality(S) <= B
    BY <1>1, FS_EmptySet DEF BucketTypes
  <2>5. UsedBucketIds = (Z \union F) \union (M \union S)
    BY DEF UsedBucketIds
  <2>6. MaxBucketIds \in Nat /\ MaxBucketIds > 4 * B
    BY BucketsAssumption
  <2> HIDE DEF B, Z, F, M, S
  <2>7. /\ IsFiniteSet(Z \union F) /\ Cardinality(Z \union F) <= B + B
        /\ IsFiniteSet(M \union S) /\ Cardinality(M \union S) <= B + B
    BY <1>1, <2>1, <2>2, <2>3, <2>4, AtMostSum
  <2>8. B + B \in Nat /\ (B + B) + (B + B) = 4 * B /\ 4 * B \in Nat
    BY <1>1
  <2>9. IsFiniteSet(UsedBucketIds) /\ Cardinality(UsedBucketIds) <= (B + B) + (B + B)
    BY <2>5, <2>7, <2>8, AtMostSum
  <2> QED
    BY <2>6, <2>8, <2>9, SomeFree
<1> QED
  BY <1>1, <1>2, <1>3 DEF FreshBucketId, UsedBucketIds, BucketIds

-----------------------------------------------------------------------------
(* Every step keeps what is known of the volumes.                          *)

\* A new volume has an id of its own, which is not one to delete.
LEMMA NewVolume ==
  ASSUME VolInv, NEW n \in VolNames, NEW mine \in BOOLEAN, CreateVolume(n, mine),
         UNCHANGED distro, distro = "mks" /\ mine => Ours(n) = {}
  PROVE  /\ FreshVolId \in VolIds
         /\ volumes' \subseteq Volume /\ VolUnique'
         /\ \A v \in volumes' : v.id \in vdoomed => v \in volumes
         /\ \A m : m # n \/ ~mine => Ours(m)' = Ours(m)
<1>1. FreshVolId \in VolIds /\ FreshVolId \notin UsedVolIds
  BY DEF CreateVolume, FreshVolId
<1>2. (\A v \in volumes : v.id # FreshVolId) /\ FreshVolId \notin vdoomed
  BY <1>1 DEF UsedVolIds
<1> DEFINE new == [id |-> FreshVolId, name |-> n, mine |-> mine, leaving |-> FALSE]
<1>3. new \in Volume /\ new.id = FreshVolId /\ new.name = n /\ new.mine = mine
  BY <1>1 DEF Volume
<1>4. volumes' = volumes \union {new}
  BY DEF CreateVolume
<1> HIDE DEF new
<1>5. volumes' \subseteq Volume
  BY <1>3, <1>4 DEF VolInv, VolTypes
<1>6. VolUnique'
  BY <1>2, <1>3, <1>4 DEF VolInv, VolUnique, Ours
<1>7. \A m : m # n \/ ~mine => Ours(m)' = Ours(m)
  BY <1>3, <1>4 DEF Ours
<1> QED
  BY <1>1, <1>2, <1>3, <1>4, <1>5, <1>6, <1>7

LEMMA UpsertTypes ==
  ASSUME NEW file \in OutFile, NEW n \in VolNames, NEW i \in VolIds
  PROVE  /\ Upsert(file, n, i) \in OutFile
         /\ Upsert(file, n, i).vols[n] = i
         /\ \A m \in VolNames \ {n} : Upsert(file, n, i).vols[m] = file.vols[m]
BY DEF Upsert, OutFile

\* What a fiber is told of a volume is in memory, or leaves the memory as it is.
LEMMA NotedTypes ==
  ASSUME VolInv, NEW f \in Fibers, NEW n \in VolNames, NEW i \in VolIds, Noted(f, n, i)
  PROVE  /\ vmem' \in OutFile
         /\ f = "beside" => vmem'.vols[n] # 0
         /\ \A m \in VolNames : vmem.vols[m] # 0 => vmem'.vols[m] # 0
<1>1. vmem \in OutFile /\ i # 0
  BY DEF VolInv, VolTypes, VolIds
<1> QED
  BY <1>1, UpsertTypes DEF Noted

\* What the process runs for does not change while it runs.
setting == <<task, distro, bprovider, volWanted>>

LEMMA SameSetting ==
  ASSUME UNCHANGED setting
  PROVE  Managed' = Managed /\ Alone' = Alone /\ \A n : Unretained(n)' = Unretained(n)
BY DEF setting, Managed, Alone, Unretained

LEMMA LookKeepsVolumes ==
  ASSUME VolInv, NEW f \in Fibers, NEW n \in VolNames, Look(f, n), UNCHANGED setting
  PROVE  VolInv'
<1>1. /\ UNCHANGED <<volumes, outputs, vtorn, vpc, vdoomed>> /\ n \in vleft[f]
      /\ vleft' = [vleft EXCEPT ![f] = @ \ {n}]
  BY DEF Look, volRemote, volFile
<1>2. \/ \E v \in Ours(n) : Noted(f, n, v.id) /\ UNCHANGED vabsent
      \/ Ours(n) = {} /\ vabsent' = [vabsent EXCEPT ![f] = @ \union {n}] /\ UNCHANGED vmem
  BY DEF Look
<1>3. /\ vmem' \in OutFile /\ \A m \in VolNames : vmem.vols[m] # 0 => vmem'.vols[m] # 0
      /\ f = "beside" => n \in vabsent'[f] \/ vmem'.vols[n] # 0
  BY <1>2, NotedTypes DEF VolInv, VolTypes, Ours, Volume
<1>4. /\ vabsent' \in [Fibers -> SUBSET VolNames] /\ vleft' \in [Fibers -> SUBSET VolNames]
      /\ \A g \in Fibers : /\ vleft'[g] \subseteq vleft[g] /\ vabsent[g] \subseteq vabsent'[g]
                           /\ g # f => vleft'[g] = vleft[g] /\ vabsent'[g] = vabsent[g]
                           /\ vleft[g] \subseteq vleft'[g] \union {n}
                           /\ vabsent'[g] \subseteq vabsent[g] \union (IF Ours(n) = {} THEN {n} ELSE {})
  BY <1>1, <1>2 DEF VolInv, VolTypes
<1>5. VolTypes'
  BY <1>1, <1>3, <1>4 DEF VolInv, VolTypes
<1>6. VolUnique'
  BY <1>1 DEF VolInv, VolUnique, setting
<1>7. \A m : Ours(m)' = Ours(m)
  BY <1>1 DEF Ours
<1>8. task = "apply" /\ (distro = "mks" => f = "beside")
  BY <1>1 DEF VolInv, VolFlow, Nobody, Fibers
<1>9. vpc' = "ensure" => \A m \in Managed \ (vleft'["beside"] \union vabsent'["beside"]) : vmem'.vols[m] # 0
  <2> SUFFICES ASSUME vpc = "ensure", NEW m \in Managed, m \notin vleft'["beside"] \union vabsent'["beside"]
               PROVE  vmem'.vols[m] # 0
    BY <1>1
  <2>1. m \in VolNames /\ "beside" \in Fibers
    BY DEF Managed, Fibers
  <2>2. CASE m \in vleft["beside"]
    <3>1. m = n /\ f = "beside"
      BY <1>4, <2>1, <2>2
    <3> QED
      BY <1>3, <3>1
  <2>3. CASE m \notin vleft["beside"]
    <3>1. vmem.vols[m] # 0
      BY <1>4, <2>1, <2>3 DEF VolInv, VolFlow
    <3> QED
      BY <1>3, <2>1, <3>1
  <2> QED
    BY <2>2, <2>3
<1>10. distro' = "mks" => /\ vleft'["cluster"] = {} /\ vabsent'["cluster"] = {}
                         /\ \A m \in vabsent'["beside"] : Ours(m)' = {}
  <2> SUFFICES ASSUME distro = "mks"
               PROVE  /\ vleft'["cluster"] = {} /\ vabsent'["cluster"] = {}
                      /\ \A m \in vabsent'["beside"] : Ours(m) = {}
    BY <1>7 DEF setting
  <2>1. /\ vleft["cluster"] = {} /\ vabsent["cluster"] = {}
        /\ \A m \in vabsent["beside"] : Ours(m) = {}
    BY DEF VolInv, VolFlow
  <2> QED
    BY <1>4, <1>8, <2>1 DEF Fibers
<1>11. VolFlow'
  BY <1>1, <1>8, <1>9, <1>10, SameSetting DEF VolInv, VolFlow, setting
<1> QED
  BY <1>5, <1>6, <1>11 DEF VolInv

LEMMA CreateKeepsVolumes ==
  ASSUME VolInv, NEW f \in Fibers, NEW n \in VolNames, Create(f, n), UNCHANGED setting
  PROVE  VolInv'
<1>1. /\ UNCHANGED <<outputs, vtorn, vpc, vleft, vdoomed>> /\ n \in vabsent[f]
      /\ vabsent' = [vabsent EXCEPT ![f] = @ \ {n}]
      /\ CreateVolume(n, TRUE) /\ Noted(f, n, FreshVolId)
  BY DEF Create, volFile
<1>2. task = "apply" /\ (distro = "mks" => f = "beside" /\ Ours(n) = {})
  BY <1>1 DEF VolInv, VolFlow, Nobody, Fibers
<1>3. /\ FreshVolId \in VolIds /\ volumes' \subseteq Volume /\ VolUnique'
      /\ \A v \in volumes' : v.id \in vdoomed => v \in volumes
      /\ \A m : m # n => Ours(m)' = Ours(m)
  <2>1. UNCHANGED distro
    BY DEF setting
  <2> QED
    BY <1>1, <1>2, <2>1, NewVolume
<1>4. /\ vmem' \in OutFile /\ \A m \in VolNames : vmem.vols[m] # 0 => vmem'.vols[m] # 0
      /\ f = "beside" => vmem'.vols[n] # 0
  BY <1>1, <1>3, NotedTypes
<1>5. /\ vabsent' \in [Fibers -> SUBSET VolNames]
      /\ \A g \in Fibers : /\ vabsent'[g] \subseteq vabsent[g] /\ vabsent[g] \subseteq vabsent'[g] \union {n}
                           /\ g # f => vabsent'[g] = vabsent[g]
      /\ n \notin vabsent'[f]
  BY <1>1 DEF VolInv, VolTypes
<1>6. VolTypes'
  BY <1>1, <1>3, <1>4, <1>5 DEF VolInv, VolTypes
<1>7. vpc' = "ensure" => \A m \in Managed \ (vleft'["beside"] \union vabsent'["beside"]) : vmem'.vols[m] # 0
  <2> SUFFICES ASSUME vpc = "ensure", NEW m \in Managed, m \notin vleft["beside"] \union vabsent'["beside"]
               PROVE  vmem'.vols[m] # 0
    BY <1>1
  <2>1. m \in VolNames /\ "beside" \in Fibers
    BY DEF Managed, Fibers
  <2>2. CASE m \in vabsent["beside"]
    <3>1. m = n /\ f = "beside"
      BY <1>5, <2>1, <2>2
    <3> QED
      BY <1>4, <3>1
  <2>3. CASE m \notin vabsent["beside"]
    <3>1. vmem.vols[m] # 0
      BY <2>1, <2>3 DEF VolInv, VolFlow
    <3> QED
      BY <1>4, <2>1, <3>1
  <2> QED
    BY <2>2, <2>3
<1>8. distro' = "mks" => /\ vleft'["cluster"] = {} /\ vabsent'["cluster"] = {}
                        /\ \A m \in vabsent'["beside"] : Ours(m)' = {}
  <2> SUFFICES ASSUME distro = "mks"
               PROVE  /\ vleft'["cluster"] = {} /\ vabsent'["cluster"] = {}
                      /\ \A m \in vabsent'["beside"] : Ours(m)' = {}
    BY DEF setting
  <2>1. /\ vleft["cluster"] = {} /\ vabsent["cluster"] = {}
        /\ \A m \in vabsent["beside"] : Ours(m) = {}
    BY DEF VolInv, VolFlow
  <2>2. \A m \in vabsent'["beside"] : m # n
    BY <1>2, <1>5
  <2> QED
    BY <1>1, <1>2, <1>3, <1>5, <2>1, <2>2 DEF Fibers
<1>9. \A v \in volumes' : v.id \in vdoomed' => v.mine /\ Unretained(v.name)'
  BY <1>1, <1>3, SameSetting DEF VolInv, VolFlow
<1>10. VolFlow'
  BY <1>1, <1>2, <1>7, <1>8, <1>9, SameSetting DEF VolInv, VolFlow, setting
<1> QED
  BY <1>3, <1>6, <1>10 DEF VolInv

LEMMA WriteKeepsVolumes ==
  ASSUME VolInv, WriteVolumes \/ VolumesDeleted, UNCHANGED setting
  PROVE  VolInv'
<1>1. UNCHANGED <<volumes, vmem, vleft, vabsent, vdoomed>> /\ vpc' = "done"
  BY DEF WriteVolumes, VolumesDeleted, volRemote
<1>2. /\ outputs' \in OutFile /\ vtorn' \in BOOLEAN
      /\ task = "apply" => \A n \in Managed : outputs'.vols[n] # 0
  <2>1. CASE WriteVolumes
    BY <2>1 DEF WriteVolumes, Writing, Ensured, VolInv, VolTypes, VolFlow
  <2>2. CASE VolumesDeleted
    BY <2>2 DEF VolumesDeleted, volFile, VolInv, VolTypes, VolFlow
  <2> QED
    BY <2>1, <2>2
<1>3. VolTypes'
  BY <1>1, <1>2 DEF VolInv, VolTypes
<1>4. VolUnique'
  BY <1>1 DEF VolInv, VolUnique, setting
<1>5. \A n : Ours(n)' = Ours(n)
  BY <1>1 DEF Ours
<1>6. VolFlow'
  BY <1>1, <1>2, <1>5, SameSetting DEF VolInv, VolFlow, setting
<1> QED
  BY <1>3, <1>4, <1>6 DEF VolInv

\* Volumes are doomed, or one of them is deleted, by `delete'.
LEMMA DoomKeepsVolumes ==
  ASSUME VolInv, UNCHANGED setting, UNCHANGED <<outputs, vtorn, vmem, vleft, vabsent>>,
         task = "delete", vpc' = vpc \/ vpc' = "delete", vdoomed' \subseteq VolIds,
         volumes' \subseteq Volume, VolUnique',
         \A v \in volumes' : v.id \in vdoomed' => v.mine /\ Unretained(v.name)
  PROVE  VolInv'
<1>1. vleft = Nobody /\ vabsent = Nobody
  BY DEF VolInv, VolFlow
<1>2. VolTypes'
  BY DEF VolInv, VolTypes
<1>3. VolFlow'
  BY <1>1, SameSetting DEF VolInv, VolFlow, setting, Nobody, Fibers
<1> QED
  BY <1>2, <1>3 DEF VolInv

\* What is found by its name and its tag is what is to be deleted: beside the
\* cluster one volume of a name, which is one of those the config drops.
LEMMA ListKeepsVolumes ==
  ASSUME VolInv, ListVolumes, UNCHANGED setting
  PROVE  VolInv'
<1> DEFINE found == {n \in Managed : volWanted[n] = "drop" /\ Ours(n) # {}}
<1>1. PICK first \in [VolNames -> VolIds] :
        /\ \A n \in found : \E v \in Ours(n) : v.id = first[n]
        /\ vdoomed' = {first[n] : n \in found}
  BY DEF ListVolumes
<1>2. found \subseteq VolNames
  BY DEF Managed
<1>3. vdoomed' \subseteq VolIds
  BY <1>1, <1>2
<1>4. ASSUME NEW v \in volumes, v.id \in vdoomed'
      PROVE  v.mine /\ Unretained(v.name)
  <2>1. PICK n \in found : v.id = first[n]
    BY <1>1, <1>4
  <2>2. PICK w \in Ours(n) : w.id = first[n]
    BY <1>1
  <2>3. v = w
    BY <2>1, <2>2 DEF VolInv, VolUnique, Ours
  <2> QED
    BY <2>1, <2>2, <2>3 DEF Ours, Unretained
<1> HIDE DEF found
<1>5. /\ UNCHANGED <<volumes, outputs, vtorn, vmem, vleft, vabsent>> /\ vpc' = "delete"
      /\ task = "delete"
  BY DEF ListVolumes, volRemote, volFile, VolInv, VolFlow
<1>6. volumes' \subseteq Volume /\ VolUnique'
  BY <1>5 DEF VolInv, VolTypes, VolUnique, setting
<1> QED
  BY <1>3, <1>4, <1>5, <1>6, DoomKeepsVolumes

\* k3s dooms what the config does not retain.
LEMMA PurgeKeepsVolumes ==
  ASSUME ConfigOK, VolInv, task = "delete", distro = "k3s", ClusterPurges, UNCHANGED setting,
         UNCHANGED <<volumes, outputs, vtorn, vpc, vmem, vleft, vabsent>>
  PROVE  VolInv'
<1>1. volumes' \subseteq Volume /\ VolUnique'
  BY DEF VolInv, VolTypes, VolUnique, setting
<1>2. vdoomed' \subseteq VolIds
  BY DEF ClusterPurges, VolInv, VolTypes, Volume
<1>3. ASSUME NEW v \in volumes, v.id \in vdoomed'
      PROVE  v.mine /\ Unretained(v.name)
  <2>1. PICK w \in volumes : w.mine /\ volWanted[w.name] # "keep" /\ w.id = v.id
    BY <1>3 DEF ClusterPurges
  <2>2. v = w /\ v.name \in VolNames
    BY <2>1 DEF VolInv, VolUnique, VolTypes, Volume
  <2> QED
    BY <2>1, <2>2, ConfigTypes DEF Unretained
<1> QED
  BY <1>1, <1>2, <1>3, DoomKeepsVolumes

LEMMA DeleteKeepsVolumes ==
  ASSUME VolInv, NEW i \in VolIds, DeleteVolume(i), UNCHANGED setting
  PROVE  VolInv'
<1> DEFINE gone(v) == IF v.id = i THEN [v EXCEPT !.leaving = TRUE] ELSE v
<1>1. \A v \in Volume : /\ gone(v) \in Volume /\ gone(v).id = v.id
                        /\ gone(v).name = v.name /\ gone(v).mine = v.mine
  BY DEF Volume
<1>2. volumes' = {gone(v) : v \in volumes} /\ volumes \subseteq Volume
  BY DEF DeleteVolume, VolInv, VolTypes
<1> HIDE DEF gone
<1>3. \A v \in volumes' : \E w \in volumes : v = gone(w) /\ v.id = w.id /\ v.name = w.name /\ v.mine = w.mine
  BY <1>1, <1>2
<1>4. volumes' \subseteq Volume
  BY <1>1, <1>2
<1>5. VolUnique'
  BY <1>3 DEF VolInv, VolUnique, setting
<1>6. /\ UNCHANGED <<outputs, vtorn, vpc, vmem, vleft, vabsent>> /\ vdoomed' \subseteq vdoomed
      /\ task = "delete" /\ vdoomed' \subseteq VolIds
  BY DEF DeleteVolume, volFile, VolInv, VolFlow, VolTypes
<1>7. \A v \in volumes' : v.id \in vdoomed' => v.mine /\ Unretained(v.name)
  BY <1>3, <1>6 DEF VolInv, VolFlow
<1> QED
  BY <1>4, <1>5, <1>6, <1>7, DoomKeepsVolumes

LEMMA VolStepKeepsVolumes ==
  ASSUME VolInv, VolStep, UNCHANGED setting
  PROVE  VolInv'
BY LookKeepsVolumes, CreateKeepsVolumes, WriteKeepsVolumes, ListKeepsVolumes, DeleteKeepsVolumes DEF VolStep

\* Apply starts, with the step beside the cluster or without.
LEMMA EnsureStartKeepsVolumes ==
  ASSUME VolInv, vpc = "idle", task = "idle", task' = "apply",
         UNCHANGED <<volRemote, volFile, distro, bprovider>>,
         \/ Alone /\ vpc' = "done" /\ UNCHANGED <<vmem, vleft, vabsent, vdoomed>>
         \/ VolEnsure
  PROVE  VolInv'
<1>1. vleft = Nobody /\ vabsent = Nobody /\ vdoomed = {}
  BY DEF VolInv, VolFlow
<1>2. UNCHANGED <<volumes, volWanted, outputs, vtorn, vabsent, vdoomed>>
  BY DEF volRemote, volFile, VolEnsure
<1>3. Managed' = Managed /\ Alone' = Alone /\ Managed \subseteq VolNames
  BY <1>2 DEF Managed, Alone
<1>4. /\ vleft' \in [Fibers -> SUBSET VolNames] /\ vleft'["cluster"] = {} /\ vmem' \in OutFile
      /\ \/ vpc' = "done" /\ (Alone \/ Managed = {})
         \/ vpc' = "failed"
         \/ vpc' = "ensure" /\ vleft'["beside"] = Managed
  BY <1>1, <1>3 DEF VolEnsure, Nobody, Fibers, VolInv, VolTypes
<1>5. VolTypes'
  BY <1>2, <1>4 DEF VolInv, VolTypes
<1>6. VolUnique'
  BY <1>2 DEF VolInv, VolUnique
<1>7. VolFlow'
  BY <1>1, <1>2, <1>3, <1>4 DEF VolFlow, Nobody, Fibers
<1> QED
  BY <1>5, <1>6, <1>7 DEF VolInv

\* `delete' starts, and goes on to the volumes after the cluster.
LEMMA PurgeStartKeepsVolumes ==
  ASSUME VolInv, vpc = "idle", task' = "delete",
         UNCHANGED <<volRemote, volFile, vmem, vleft, vabsent, vdoomed, distro, bprovider>>,
         \/ task = "idle" /\ UNCHANGED vpc
         \/ task = "delete" /\ VolPurge
  PROVE  VolInv'
<1>1. /\ UNCHANGED <<volumes, volWanted, outputs, vtorn>> /\ vpc' \in {"idle", "done", "list"}
      /\ vleft = Nobody /\ vabsent = Nobody
  BY DEF volRemote, volFile, VolPurge, VolInv, VolFlow
<1>2. VolTypes'
  BY <1>1 DEF VolInv, VolTypes
<1>3. VolUnique'
  BY <1>1 DEF VolInv, VolUnique
<1>4. \A v \in volumes' : v.id \in vdoomed' => v.mine /\ Unretained(v.name)'
  BY <1>1 DEF VolInv, VolFlow, Unretained
<1>5. VolFlow'
  BY <1>1, <1>4 DEF VolFlow, Nobody, Fibers
<1> QED
  BY <1>2, <1>3, <1>5 DEF VolInv

\* The cluster's own step of k3s begins with its volumes.
LEMMA ClusterEnsureKeepsVolumes ==
  ASSUME VolInv, task = "apply", distro = "k3s", ClusterEnsures, UNCHANGED setting,
         UNCHANGED <<volumes, volFile, vpc, vmem, vabsent, vdoomed>>
  PROVE  VolInv'
<1>1. /\ vleft' \in [Fibers -> SUBSET VolNames] /\ vleft'["beside"] = vleft["beside"]
  BY DEF ClusterEnsures, Managed, VolInv, VolTypes, Fibers
<1>2. VolTypes'
  BY <1>1 DEF VolInv, VolTypes, volFile
<1>3. VolUnique'
  BY DEF VolInv, VolUnique, setting
<1>4. VolFlow'
  BY <1>1, SameSetting DEF VolInv, VolFlow, setting, volFile
<1> QED
  BY <1>2, <1>3, <1>4 DEF VolInv

\* A run ends, or is interrupted, and may leave the file written or cut short.
LEMMA VolStopKeepsVolumes ==
  ASSUME VolInv, VolStop, task' = "idle", UNCHANGED <<volRemote, distro>>,
         outputs' \in OutFile, vtorn' \in BOOLEAN
  PROVE  VolInv'
<1>1. UNCHANGED <<volumes, volWanted>>
  BY DEF volRemote
<1>2. VolTypes'
  BY <1>1 DEF VolInv, VolTypes, VolStop, Nobody, NoOutputs, OutFile
<1>3. VolUnique'
  BY <1>1 DEF VolInv, VolUnique
<1>4. VolFlow'
  BY DEF VolFlow, VolStop, Nobody, Fibers
<1> QED
  BY <1>2, <1>3, <1>4 DEF VolInv

\* What others do to the volumes
LEMMA OthersKeepVolumes ==
  ASSUME VolInv, HandMakesVolume \/ VolumeGone, UNCHANGED setting
  PROVE  VolInv'
<1>1. /\ volumes' \subseteq Volume /\ VolUnique'
      /\ \A v \in volumes' : v.id \in vdoomed => v \in volumes
      /\ \A m : Ours(m)' \subseteq Ours(m)
  <2>1. CASE HandMakesVolume
    <3>1. PICK n \in VolNames : CreateVolume(n, FALSE)
      BY <2>1 DEF HandMakesVolume, Managed
    <3>2. UNCHANGED distro
      BY DEF setting
    <3> QED
      BY <3>1, <3>2, NewVolume
  <2>2. CASE VolumeGone
    BY <2>2 DEF VolumeGone, VolInv, VolTypes, VolUnique, Ours, setting
  <2> QED
    BY <2>1, <2>2
<1>2. UNCHANGED <<volWanted, outputs, vtorn, vpc, vmem, vleft, vabsent, vdoomed>>
  BY DEF HandMakesVolume, VolumeGone, volRun, volFile
<1>3. VolTypes'
  BY <1>1, <1>2 DEF VolInv, VolTypes
<1>4. \A v \in volumes' : v.id \in vdoomed' => v.mine /\ Unretained(v.name)'
  BY <1>1, <1>2, SameSetting DEF VolInv, VolFlow
<1>5. distro' = "mks" => \A n \in vabsent'["beside"] : Ours(n)' = {}
  BY <1>1, <1>2 DEF VolInv, VolFlow, setting
<1>6. VolFlow'
  BY <1>2, <1>4, <1>5, SameSetting DEF VolInv, VolFlow, setting
<1> QED
  BY <1>1, <1>3, <1>6 DEF VolInv

\* Nothing runs: the config is edited, or an id is written to the file.
LEMMA EditKeepsVolumes ==
  ASSUME VolInv, vpc = "idle", task = "idle", UNCHANGED <<volumes, vtorn, volRun, task, distro>>,
         outputs' = outputs \/ VolumesAdopt
  PROVE  VolInv'
<1>1. outputs' \in OutFile
  <2>1. CASE VolumesAdopt
    <3>1. PICK n \in Managed, v \in volumes : outputs' = Upsert(outputs, n, v.id)
      BY <2>1 DEF VolumesAdopt
    <3>2. n \in VolNames /\ v.id \in VolIds
      BY DEF Managed, VolInv, VolTypes, Volume
    <3> QED
      BY <3>1, <3>2, UpsertTypes DEF VolInv, VolTypes
  <2> QED
    BY <2>1 DEF VolInv, VolTypes
<1>2. UNCHANGED <<vpc, vmem, vleft, vabsent, vdoomed>>
  BY DEF volRun
<1>3. vleft = Nobody /\ vabsent = Nobody /\ vdoomed = {}
  BY DEF VolInv, VolFlow
<1>4. VolTypes'
  BY <1>1, <1>2 DEF VolInv, VolTypes
<1>5. VolUnique'
  BY DEF VolInv, VolUnique
<1>6. VolFlow'
  BY <1>2, <1>3 DEF VolFlow, Nobody, Fibers
<1> QED
  BY <1>4, <1>5, <1>6 DEF VolInv

-----------------------------------------------------------------------------
(* Every step keeps what is known of the buckets.                          *)

LEMMA SameDiff ==
  ASSUME UNCHANGED <<bconfig, bfile>>
  PROVE  /\ Desired' = Desired /\ OnFile' = OnFile /\ Purgeable' = Purgeable
         /\ ToReplace' = ToReplace /\ ToDelete' = ToDelete
BY DEF bconfig, Desired, OnFile, Purgeable, ToReplace, ToDelete, Immutable

LEMMA DiffNames ==
  /\ Desired \subseteq BucketNames /\ OnFile \subseteq BucketNames
  /\ ToReplace \subseteq Desired \intersect OnFile /\ ToDelete \subseteq OnFile /\ Purgeable \subseteq OnFile
  /\ ToCreate \union AsFiled \union ToUpdate \subseteq Desired
BY DEF Desired, OnFile, ToReplace, Immutable, ToDelete, Purgeable, ToCreate, AsFiled, ToUpdate

\* A bucket that is deleted, or kept, leaves the others as they are.
LEMMA FewerBuckets ==
  ASSUME BucketInv, buckets' \subseteq buckets, UNCHANGED bprovider
  PROVE  buckets' \subseteq Containers /\ BucketUnique'
BY DEF BucketInv, BucketTypes, BucketUnique

LEMMA NewBucketTypes ==
  ASSUME ConfigOK, BucketInv, bprovider \in {"ovh", "bunny"}, NEW n \in Desired
  PROVE  /\ NewBucket(n, bwanted[n]) \in Containers
         /\ NewBucket(n, bwanted[n]).name = n
         /\ NewBucket(n, bwanted[n]).region = bwanted[n].region
         /\ NewBucket(n, bwanted[n]).id = FreshBucketId
BY SpecTypes, FreshBucketIsFree DEF NewBucket, Containers, BucketInv

\* OVH has one bucket of a name in a region.
LEMMA EnsureKeepsBuckets ==
  ASSUME ConfigOK, BucketInv, bprovider = "ovh", NEW n \in Desired, EnsureContainer(n),
         UNCHANGED bprovider
  PROVE  buckets' \subseteq Containers /\ BucketUnique'
<1> DEFINE there == {b \in buckets : b.name = n /\ b.region = bwanted[n].region}
           new == NewBucket(n, bwanted[n])
           set(b) == [b EXCEPT !.ver = bwanted[n].ver]
<1>1. CASE there = {}
  <2>1. buckets' = buckets \union {new}
    BY <1>1 DEF EnsureContainer
  <2>2. new \in Containers /\ new.name = n /\ new.region = bwanted[n].region
    BY NewBucketTypes
  <2>3. \A b \in buckets : b.name = n => b.region # bwanted[n].region
    BY <1>1
  <2> HIDE DEF new
  <2> QED
    BY <2>1, <2>2, <2>3 DEF BucketInv, BucketTypes, BucketUnique
<1>2. CASE there # {}
  <2>1. buckets' = (buckets \ there) \union {set(b) : b \in there}
    BY <1>2 DEF EnsureContainer
  <2>2. \A b \in buckets : set(b) \in Containers /\ set(b).name = b.name /\ set(b).region = b.region
    BY SpecTypes DEF BucketInv, BucketTypes, Containers
  <2> HIDE DEF set
  <2>3. \A b \in buckets' : \/ b \in buckets \ there
                            \/ \E d \in there : b = set(d) /\ b.name = d.name /\ b.region = d.region
    BY <2>1, <2>2
  <2>4. BucketUnique'
    BY <2>3 DEF BucketInv, BucketUnique
  <2> QED
    BY <2>1, <2>2, <2>4 DEF BucketInv, BucketTypes
<1> QED
  BY <1>1, <1>2

\* A step that leaves the files, the key and the config alone keeps the flow if
\* it goes where the flow lets it.
LEMMA StartKeepsBuckets ==
  ASSUME ConfigOK, BucketInv, bpc = "idle", UNCHANGED <<bconfig, bcloud, bdisk>>,
         \/ BucketsStart /\ task' = "apply"
         \/ BucketsPurge /\ task' = "delete"
  PROVE  BucketInv'
<1>1. BucketUnique'
  BY DEF BucketInv, BucketUnique, bconfig, bcloud
<1>2. Desired' = Desired /\ OnFile' = OnFile /\ Purgeable' = Purgeable
      /\ ToReplace' = ToReplace /\ ToDelete' = ToDelete
  BY SameDiff DEF bdisk
<1>3. bprovider = "none" => Desired = {}
  BY ConfigTypes DEF Desired, NoBuckets
<1>4. bprovider \in {"ovh", "bunny", "none"}
  BY ConfigTypes
<1>5. BucketTypes'
  BY DiffNames DEF BucketInv, BucketTypes, BucketsStart, BucketsPurge, Goto, bcloud, bdisk, OvhPcs, BunnyPcs
<1>6. BucketFlow'
  <2>1. /\ bprovider' = bprovider /\ secrets' = secrets /\ s3key' = s3key
        /\ bhalf' = bhalf /\ bempty' = bempty
    BY DEF bconfig, bcloud, bdisk, BucketsStart, BucketsPurge
  <2>2. /\ bhalf = {} /\ bempty = {}
        /\ bprovider = "ovh" /\ secrets \notin {Nothing, Torn} => s3key = "filed"
    BY DEF BucketInv, BucketFlow
  <2>3. CASE BucketsStart /\ task' = "apply"
    <3>1. \/ bprovider = "none" /\ bpc' = "done" /\ bleft' = {}
          \/ bprovider = "ovh" /\ bpc' = "ensure" /\ bleft' \subseteq Desired
          \/ bprovider = "bunny" /\ bpc' = "doom" /\ bleft' \subseteq ToReplace \union ToDelete
      BY <1>4, <2>3, DiffNames DEF BucketsStart, Goto
    <3> QED
      BY <1>2, <1>3, <2>1, <2>2, <2>3, <3>1, DiffNames DEF BucketFlow, OvhPcs, BunnyPcs
  <2>4. CASE BucketsPurge /\ task' = "delete"
    <3>1. bpc' = "done" \/ (bpc' = "purge" /\ bleft' = Purgeable /\ bprovider # "none")
      BY <2>4 DEF BucketsPurge, Goto
    <3> QED
      BY <1>2, <2>1, <2>2, <2>4, <3>1 DEF BucketFlow, OvhPcs, BunnyPcs
  <2> QED
    BY <2>3, <2>4
<1> QED
  BY <1>1, <1>5, <1>6 DEF BucketInv

\* A run ends, or is interrupted, and may leave a file cut short.
LEMMA StopKeepsBuckets ==
  ASSUME BucketInv, BucketsStop, BucketsCut, UNCHANGED <<bconfig, bcloud>>
  PROVE  BucketInv'
<1>1. BucketUnique'
  BY DEF BucketInv, BucketUnique, bconfig, bcloud
<1>2. /\ bfile' \in [BucketNames -> Entry \union {Nothing}] /\ btorn' \in BOOLEAN
      /\ secrets' = secrets \/ secrets' = Torn
  BY DEF BucketsCut, NoBuckets, bdisk, BucketInv, BucketTypes
<1>3. BucketTypes'
  BY <1>2 DEF BucketInv, BucketTypes, BucketsStop, NoBuckets, bcloud
<1>4. BucketFlow'
  BY <1>2 DEF BucketInv, BucketFlow, BucketsStop, OvhPcs, BunnyPcs, bconfig, bcloud
<1> QED
  BY <1>1, <1>3, <1>4 DEF BucketInv

\* What others do, and what is edited while nothing runs
LEMMA OthersKeepBuckets ==
  ASSUME BucketInv, BucketsEnv, UNCHANGED <<bconfig, s3key, bdisk, brun, task>>
  PROVE  BucketInv'
<1>1. buckets' \subseteq Containers /\ BucketUnique'
  <2>1. CASE HandDeletes
    <3>1. buckets' \subseteq buckets
      BY <2>1 DEF HandDeletes
    <3> QED
      BY <3>1, FewerBuckets DEF bconfig
  <2>2. CASE Written \/ Emptied
    <3>1. PICK b \in buckets, full \in BOOLEAN :
            buckets' = (buckets \ {b}) \union {[b EXCEPT !.full = full]}
      BY <2>2 DEF Written, Emptied
    <3> DEFINE new == [b EXCEPT !.full = full]
    <3>2. new \in Containers /\ new.name = b.name /\ new.region = b.region
      BY DEF BucketInv, BucketTypes, Containers
    <3>3. buckets' = (buckets \ {b}) \union {new}
      BY <3>1
    <3> HIDE DEF new
    <3> QED
      BY <3>2, <3>3 DEF BucketInv, BucketTypes, BucketUnique, bconfig
  <2> QED
    BY <2>1, <2>2 DEF BucketsEnv
<1>2. BucketTypes'
  BY <1>1 DEF BucketInv, BucketTypes, bdisk, brun
<1>3. BucketFlow'
  BY SameDiff DEF BucketInv, BucketFlow, bconfig, bdisk, brun
<1> QED
  BY <1>1, <1>2, <1>3 DEF BucketInv

LEMMA EditKeepsBuckets ==
  ASSUME BucketInv, bpc = "idle", UNCHANGED <<bprovider, bcloud, bdisk, brun>>
  PROVE  BucketInv'
<1>1. BucketTypes'
  BY DEF BucketInv, BucketTypes, bcloud, bdisk, brun
<1>2. BucketUnique'
  BY DEF BucketInv, BucketUnique, bcloud
<1>3. BucketFlow'
  BY DEF BucketInv, BucketFlow, bcloud, bdisk, brun, OvhPcs, BunnyPcs
<1> QED
  BY <1>1, <1>2, <1>3 DEF BucketInv

\* One bucket after the other, as the diff says
LEMMA BucketStepKeepsBuckets ==
  ASSUME ConfigOK, BucketInv, NEW n \in BucketNames,
         EnsureNext(n) \/ ReplaceEnsure(n) \/ LookInside(n) \/ DeleteEmpty(n),
         UNCHANGED task
  PROVE  BucketInv'
<1>1. UNCHANGED <<bconfig, s3key, bdisk, bpc, bmem, bchanged>>
  BY DEF EnsureNext, ReplaceEnsure, LookInside, DeleteEmpty, Goto, bcloud
<1>2. bpc \in {"ensure", "replace", "remove", "purge", "doom"}
  BY DEF EnsureNext, ReplaceEnsure, LookInside, DeleteEmpty, BucketInv, BucketFlow
<1>3. /\ bleft' \union bempty' \subseteq bleft \union bempty /\ bleft' \subseteq bleft
      /\ bempty' # {} => bpc \in {"replace", "remove", "purge", "doom"}
      /\ bpc = "ensure" => bhalf' = bhalf /\ bempty' = bempty
      /\ bhalf' \subseteq bhalf \union bleft \union bempty /\ bfailed' \in BOOLEAN
  <2>1. CASE EnsureNext(n) \/ ReplaceEnsure(n)
    BY <2>1 DEF EnsureNext, ReplaceEnsure, Goto, BucketInv, BucketTypes, BucketFlow
  <2>2. CASE LookInside(n)
    BY <2>2 DEF LookInside, Settle, BucketInv, BucketTypes, BucketFlow
  <2>3. CASE DeleteEmpty(n)
    BY <2>3 DEF DeleteEmpty, Settle, BucketInv, BucketTypes, BucketFlow
  <2> QED
    BY <2>1, <2>2, <2>3
<1>4. bprovider = "bunny" => \A m \in bempty' : ~bfile[m].retain
  BY DEF EnsureNext, ReplaceEnsure, LookInside, NoNeed, Kept, DeleteEmpty, BucketInv, BucketFlow
<1>5. buckets' \subseteq Containers /\ BucketUnique'
  <2>1. CASE EnsureNext(n) \/ ReplaceEnsure(n)
    <3>1. EnsureContainer(n) /\ n \in Desired /\ bprovider = "ovh"
      BY <2>1, DiffNames DEF EnsureNext, ReplaceEnsure, BucketInv, BucketFlow, OvhPcs
    <3> QED
      BY <1>1, <3>1, EnsureKeepsBuckets DEF bconfig
  <2>2. CASE LookInside(n) \/ DeleteEmpty(n)
    <3>1. buckets' \subseteq buckets
      BY <2>2 DEF LookInside, DeleteEmpty, bcloud
    <3> QED
      BY <1>1, <3>1, FewerBuckets DEF bconfig
  <2> QED
    BY <2>1, <2>2
<1>6. BucketTypes'
  BY <1>1, <1>3, <1>5 DEF BucketInv, BucketTypes, bdisk
<1>7. BucketFlow'
  <2>1. /\ bprovider' = bprovider /\ bfile' = bfile /\ secrets' = secrets /\ s3key' = s3key
        /\ Desired' = Desired /\ OnFile' = OnFile /\ Purgeable' = Purgeable
        /\ ToReplace' = ToReplace /\ ToDelete' = ToDelete
    BY <1>1, SameDiff DEF bconfig, bdisk
  <2> QED
    BY <1>1, <1>2, <1>3, <1>4, <2>1 DEF BucketInv, BucketFlow
<1> QED
  BY <1>5, <1>6, <1>7 DEF BucketInv

LEMMA EntryIsSomething ==
  Nothing \notin Entry /\ \A ids \in SUBSET BucketIds : ids \notin {Nothing, Torn}
BY BucketsAssumption

\* A zone is settled: read back, made, or not.
LEMMA EnsureZoneKeepsBuckets ==
  ASSUME ConfigOK, BucketInv, NEW n \in BucketNames, EnsureZone(n), UNCHANGED task
  PROVE  BucketInv'
<1>1. bpc = "zones" /\ bprovider = "bunny" /\ n \in Desired
  BY DEF EnsureZone, BucketInv, BucketFlow, BunnyPcs
<1>2. /\ UNCHANGED <<bconfig, s3key, bdisk, bempty, bhalf, bchanged>>
      /\ bpc' = "zones" /\ bleft' = bleft \ {n}
  BY DEF EnsureZone, Goto
<1>3. \/ \E b \in buckets : /\ n \in AsFiled /\ UNCHANGED <<buckets, bfailed>>
                            /\ bmem' = [bmem EXCEPT ![n] = ZoneRecord(b, bfile[n].retain)]
      \/ bfailed' = TRUE /\ UNCHANGED <<buckets, bmem>>
      \/ /\ \A b \in buckets : b.name # n
         /\ buckets' = buckets \union {NewBucket(n, bwanted[n])}
         /\ bmem' = [bmem EXCEPT ![n] = ZoneRecord(NewBucket(n, bwanted[n]), bwanted[n].retain)]
         /\ UNCHANGED bfailed
  BY DEF EnsureZone, Found
<1>4. \A b \in Containers, retain \in BOOLEAN : ZoneRecord(b, retain) \in Entry
  BY DEF ZoneRecord, Containers, Entry
<1>5. NewBucket(n, bwanted[n]) \in Containers /\ NewBucket(n, bwanted[n]).name = n
  BY <1>1, NewBucketTypes
<1>6. n \in AsFiled => bfile[n].retain \in BOOLEAN
  BY DEF AsFiled, OnFile, BucketInv, BucketTypes, Entry
<1>7. buckets' \subseteq Containers /\ BucketUnique'
  <2>1. CASE buckets' = buckets
    BY <1>2, <2>1 DEF BucketInv, BucketTypes, BucketUnique, bconfig
  <2>2. CASE /\ \A b \in buckets : b.name # n
             /\ buckets' = buckets \union {NewBucket(n, bwanted[n])}
    BY <1>2, <1>5, <2>2 DEF BucketInv, BucketTypes, BucketUnique, bconfig
  <2> QED
    BY <1>3, <2>1, <2>2
<1>8. \/ bfailed' = TRUE /\ bmem' = bmem
      \/ bfailed' = bfailed /\ \E r \in Entry : bmem' = [bmem EXCEPT ![n] = r]
  BY <1>3, <1>4, <1>5, <1>6, <1>1, SpecTypes DEF BucketInv, BucketTypes
<1>9. bmem' \in [BucketNames -> Entry \union {Nothing}] /\ bfailed' \in BOOLEAN
  BY <1>8 DEF BucketInv, BucketTypes
<1>10. BucketTypes'
  BY <1>1, <1>2, <1>7, <1>9 DEF BucketInv, BucketTypes, bdisk
<1>11. \A m \in Desired \ bleft' : bmem'[m] # Nothing \/ bfailed'
  BY <1>1, <1>2, <1>8, EntryIsSomething, DiffNames DEF BucketInv, BucketTypes, BucketFlow
<1>12. BucketFlow'
  <2>1. /\ bprovider' = bprovider /\ secrets' = secrets /\ s3key' = s3key
        /\ Desired' = Desired /\ OnFile' = OnFile
    BY <1>2, SameDiff DEF bconfig, bdisk
  <2> QED
    BY <1>1, <1>2, <1>11, <2>1 DEF BucketInv, BucketFlow, OvhPcs, BunnyPcs
<1> QED
  BY <1>7, <1>10, <1>12 DEF BucketInv

\* From one phase to the next
LEMMA PhaseKeepsBuckets ==
  ASSUME BucketInv, UNCHANGED task,
         StartReplace \/ StartRemove \/ StartZones \/ EnsureUser \/ DropKeys \/ IssueKey
  PROVE  BucketInv'
<1>1. UNCHANGED <<bconfig, buckets, bdisk, bempty, bhalf, bmem, bfailed, bchanged>>
  BY DEF StartReplace, StartRemove, StartZones, EnsureUser, DropKeys, IssueKey, bcloud
<1>2. BucketUnique'
  BY <1>1 DEF BucketInv, BucketUnique, bconfig
<1>3. BucketTypes'
  BY <1>1, DiffNames DEF StartReplace, StartRemove, StartZones, EnsureUser, DropKeys, IssueKey, Goto, bcloud,
                         BucketInv, BucketTypes, OvhPcs, BunnyPcs, bdisk
<1>4. /\ bprovider' = bprovider /\ secrets' = secrets
      /\ Desired' = Desired /\ OnFile' = OnFile /\ Purgeable' = Purgeable
      /\ ToReplace' = ToReplace /\ ToDelete' = ToDelete
  BY <1>1, SameDiff DEF bconfig, bdisk
<1>5. BucketFlow'
  <2>1. CASE StartReplace
    BY <1>1, <1>4, <2>1 DEF StartReplace, Goto, BucketInv, BucketFlow, OvhPcs, BunnyPcs, bcloud
  <2>2. CASE StartRemove
    BY <1>1, <1>4, <2>2 DEF StartRemove, Goto, BucketInv, BucketFlow, OvhPcs, BunnyPcs, bcloud
  <2>3. CASE StartZones
    BY <1>1, <1>4, <2>3 DEF StartZones, Goto, BucketInv, BucketFlow, OvhPcs, BunnyPcs, bcloud
  <2>4. CASE EnsureUser \/ DropKeys \/ IssueKey
    BY <1>1, <1>4, <2>4 DEF EnsureUser, DropKeys, IssueKey, Goto, BucketInv, BucketFlow, OvhPcs, BunnyPcs, bcloud
  <2> QED
    BY <2>1, <2>2, <2>3, <2>4
<1> QED
  BY <1>2, <1>3, <1>5 DEF BucketInv

\* The outputs file is written: what is desired is on it when the run is to end.
LEMMA WriteKeepsBuckets ==
  ASSUME ConfigOK, BucketInv, UNCHANGED task, WriteBuckets \/ WriteZones \/ WriteRetained
  PROVE  BucketInv'
<1>1. UNCHANGED <<bconfig, bcloud, btorn, secrets, bempty, bhalf, bmem, bfailed, bchanged>>
      /\ bleft = {} /\ bleft' = {} /\ bempty = {}
  BY DEF BucketsWriting, WriteBuckets, WriteZones, WriteRetained, Goto
<1>2. BucketUnique'
  BY <1>1 DEF BucketInv, BucketUnique, bconfig, bcloud
<1>3. bfile' \in [BucketNames -> Entry \union {Nothing}]
  <2>1. CASE WriteBuckets
    <3>1. \A n \in Desired : Record(n) \in Entry
      BY SpecTypes, BucketsAssumption DEF Record, Entry, BucketIds
    <3> QED
      BY <2>1, <3>1 DEF WriteBuckets, BucketInv, BucketTypes
  <2>2. CASE WriteZones \/ WriteRetained
    BY <2>2 DEF WriteZones, WriteRetained, BucketInv, BucketTypes
  <2> QED
    BY <2>1, <2>2
<1>4. bpc' \in {"done", "issue", "failed", "passwords"}
  BY DEF WriteBuckets, WriteZones, WriteRetained, Goto
<1>5. BucketTypes'
  BY <1>1, <1>3, <1>4 DEF BucketInv, BucketTypes, bcloud, OvhPcs, BunnyPcs
<1>6. bpc' # "failed" /\ task = "apply" => Desired' \subseteq OnFile'
  <2>1. CASE WriteBuckets
    <3>1. \A n \in Desired : Record(n) # Nothing /\ bfile'[n] = Record(n)
      BY <2>1, SpecTypes, BucketsAssumption, DiffNames DEF WriteBuckets, Record, Entry, BucketIds
    <3> QED
      BY <1>1, <3>1 DEF OnFile, Desired, bconfig
  <2>2. CASE WriteZones /\ bpc' # "failed"
    <3>1. ~bfailed /\ bleft = {} /\ bpc = "zones"
      BY <1>1, <2>2 DEF WriteZones, Goto, BucketInv, BucketTypes
    <3>2. \A n \in Desired : bmem[n] # Nothing
      BY <3>1 DEF BucketInv, BucketFlow
    <3> QED
      BY <1>1, <2>2, <3>2 DEF WriteZones, OnFile, Desired, bconfig
  <2>3. CASE WriteRetained
    BY <2>3 DEF WriteRetained, BucketInv, BucketFlow
  <2> QED
    BY <2>1, <2>2, <2>3
<1>7. BucketFlow'
  <2>1. bprovider' = bprovider /\ secrets' = secrets /\ s3key' = s3key
    BY <1>1 DEF bconfig, bcloud
  <2>2. CASE WriteBuckets
    BY <1>1, <1>6, <2>1, <2>2 DEF WriteBuckets, Goto, BucketInv, BucketFlow, OvhPcs, BunnyPcs
  <2>3. CASE WriteZones
    BY <1>1, <1>6, <2>1, <2>3 DEF WriteZones, Goto, BucketInv, BucketFlow, OvhPcs, BunnyPcs
  <2>4. CASE WriteRetained
    BY <1>1, <2>1, <2>4 DEF WriteRetained, Goto, BucketInv, BucketFlow, OvhPcs, BunnyPcs
  <2> QED
    BY <2>2, <2>3, <2>4
<1> QED
  BY <1>2, <1>5, <1>7 DEF BucketInv

\* The credentials file is written: the key it holds is the one in force.
LEMMA SealKeepsBuckets ==
  ASSUME BucketInv, UNCHANGED task, SealKey \/ SealPasswords
  PROVE  BucketInv'
<1>1. /\ UNCHANGED <<bconfig, buckets, bfile, btorn, bempty, bhalf, bmem, bfailed, bchanged>>
      /\ bpc' = "done" /\ bleft' = {} /\ secrets' = Entries
      /\ task = "apply" /\ (bprovider = "ovh" => s3key' = "filed")
      /\ s3key' \in {"none", "unfiled", "filed"}
  BY DEF SealKey, SealPasswords, Goto, Seal, BucketInv, BucketTypes, BucketFlow, OvhPcs, BunnyPcs, bcloud
<1>2. BucketUnique'
  BY <1>1 DEF BucketInv, BucketUnique, bconfig
<1>3. /\ Entries \subseteq BucketIds /\ Entries \notin {Nothing, Torn}
      /\ IsFiniteSet(Entries) /\ Cardinality(Entries) <= Cardinality(BucketNames)
  <2>1. CASE bprovider # "bunny"
    <3>1. Cardinality(BucketNames) \in Nat
      BY BucketsAssumption, FS_CardinalityType
    <3> QED
      BY <2>1, <3>1, FS_EmptySet, EntryIsSomething DEF Entries
  <2>2. CASE bprovider = "bunny"
    <3> DEFINE id == [n \in BucketNames |-> bfile[n].id]
    <3>1. \A i \in Entries : \E n \in BucketNames : i = id[n]
      BY <2>2 DEF Entries, OnFile
    <3>2. Entries \subseteq BucketIds
      BY <2>2 DEF Entries, OnFile, BucketInv, BucketTypes, Entry
    <3> HIDE DEF id
    <3>3. IsFiniteSet(Entries) /\ Cardinality(Entries) <= Cardinality(BucketNames)
      BY <3>1, AtMostDomain, BucketsAssumption
    <3> QED
      BY <3>2, <3>3, EntryIsSomething
  <2> QED
    BY <2>1, <2>2
<1>4. BucketTypes'
  BY <1>1, <1>3 DEF BucketInv, BucketTypes
<1>5. Desired' = Desired /\ OnFile' = OnFile /\ bprovider' = bprovider
  BY <1>1, SameDiff DEF bconfig
<1>6. Desired \subseteq OnFile /\ bempty = {}
  BY DEF SealKey, SealPasswords, BucketInv, BucketFlow
<1>7. BucketFlow'
  BY <1>1, <1>3, <1>5, <1>6 DEF BucketFlow, OvhPcs, BunnyPcs
<1> QED
  BY <1>2, <1>4, <1>7 DEF BucketInv

LEMMA BucketsStepKeepsBuckets ==
  ASSUME ConfigOK, BucketInv, BucketsStep, UNCHANGED task
  PROVE  BucketInv'
BY BucketStepKeepsBuckets, EnsureZoneKeepsBuckets, PhaseKeepsBuckets, WriteKeepsBuckets, SealKeepsBuckets
   DEF BucketsStep

-----------------------------------------------------------------------------
(* The invariant                                                           *)

LEMMA SameVolumes ==
  ASSUME VolInv, UNCHANGED <<volVars, task, distro, bprovider>>
  PROVE  VolInv'
<1>1. /\ UNCHANGED <<volumes, outputs, vtorn, vpc, vmem, vleft, vabsent, vdoomed>>
      /\ UNCHANGED setting
  BY DEF volVars, volRemote, volFile, volRun, setting
<1>2. \A n : Ours(n)' = Ours(n)
  BY <1>1 DEF Ours
<1>3. VolTypes'
  BY <1>1 DEF VolInv, VolTypes
<1>4. VolUnique'
  BY <1>1 DEF VolInv, VolUnique, setting
<1>5. VolFlow'
  BY <1>1, <1>2, SameSetting DEF VolInv, VolFlow, setting
<1> QED
  BY <1>3, <1>4, <1>5 DEF VolInv

LEMMA SameBuckets ==
  ASSUME BucketInv, UNCHANGED <<bvars, task>>
  PROVE  BucketInv'
<1>1. UNCHANGED <<bconfig, bfile>>
  BY DEF bvars, bdisk
<1> QED
  BY <1>1, SameDiff
     DEF BucketInv, BucketTypes, BucketUnique, BucketFlow, bvars, bconfig, bcloud, bdisk, brun

LEMMA InitEstablishes ==
  ASSUME Init
  PROVE  ConvergeInv
<1>1. ConfigOK /\ TaskTypes
  <2>1. 0 \in 0..MaxFaults /\ 0 \in 0..MaxEdits
    BY ConvergeAssumption
  <2> QED
    BY <2>1 DEF Init, ConfigOK, TaskTypes, VolInit, BucketsInit
<1>2. VolInv
  BY DEF Init, VolInit, VolInv, VolTypes, VolUnique, VolFlow, NoOutputs, OutFile, Nobody, Fibers
<1>3. BucketInv
  BY DEF Init, BucketsInit, BucketInv, BucketTypes, BucketUnique, BucketFlow, NoBuckets, OvhPcs, BunnyPcs
<1> QED
  BY <1>1, <1>2, <1>3 DEF ConvergeInv

\* The command starts.
LEMMA StartKeeps ==
  ASSUME ConvergeInv, Apply \/ Delete
  PROVE  ConvergeInv'
<1>1. /\ task = "idle" /\ vpc = "idle" /\ bpc = "idle"
      /\ UNCHANGED <<volRemote, volFile, bconfig, bcloud, bdisk, cluster, distro, ingress, faults>>
  BY DEF Apply, Delete, ConvergeInv, TaskTypes, volVars, others
<1>2. ConfigOK'
  BY <1>1, SameConfig DEF ConvergeInv, volRemote, bconfig
<1>3. TaskTypes'
  <2>1. CASE Apply
    BY <2>1 DEF Apply, ConvergeInv, TaskTypes, others
  <2>2. CASE Delete
    BY <2>2, ConvergeAssumption DEF Delete, ConvergeInv, TaskTypes
  <2> QED
    BY <2>1, <2>2
<1>4. VolInv'
  <2>1. UNCHANGED <<distro, bprovider>>
    BY <1>1 DEF bconfig
  <2>2. CASE Apply
    <3>1. /\ task' = "apply"
          /\ \/ Alone /\ vpc' = "done" /\ UNCHANGED <<vmem, vleft, vabsent, vdoomed>>
             \/ VolEnsure
      BY <2>2 DEF Apply
    <3> QED
      BY <1>1, <2>1, <3>1, EnsureStartKeepsVolumes DEF ConvergeInv
  <2>3. CASE Delete
    <3>1. task' = "delete" /\ UNCHANGED <<vpc, vmem, vleft, vabsent, vdoomed>>
      BY <2>3 DEF Delete, volVars, volRun
    <3> QED
      BY <1>1, <2>1, <3>1, PurgeStartKeepsVolumes DEF ConvergeInv
  <2> QED
    BY <2>2, <2>3
<1>5. BucketInv'
  BY <1>1, StartKeepsBuckets DEF Apply, Delete, ConvergeInv
<1> QED
  BY <1>2, <1>3, <1>4, <1>5 DEF ConvergeInv

\* It ends: done, failed, or interrupted.
LEMMA EndKeeps ==
  ASSUME ConvergeInv, Applied \/ Deleted \/ Failed \/ Interrupted
  PROVE  ConvergeInv'
<1>1. /\ Stop /\ BucketsCut
      /\ UNCHANGED <<volRemote, bconfig, bcloud, cluster, distro, ingress, edits>>
  BY DEF Applied, Deleted, Failed, Interrupted, Cut, BucketsCut, others
<1>2. ConfigOK'
  BY <1>1, SameConfig DEF ConvergeInv, volRemote, bconfig
<1>3. faults' \in 0..MaxFaults
  BY ConvergeAssumption DEF Applied, Deleted, Failed, Interrupted, others, ConvergeInv, TaskTypes
<1>4. TaskTypes'
  BY <1>1, <1>3 DEF Stop, VolStop, BucketsStop, ConvergeInv, TaskTypes
<1>5. outputs' \in OutFile /\ vtorn' \in BOOLEAN
  <2>1. outputs \in OutFile /\ vtorn \in BOOLEAN
    BY DEF ConvergeInv, VolInv, VolTypes
  <2>2. CASE Applied
    BY <2>1, <2>2 DEF Applied, RecordIngress, OutFile
  <2>3. CASE Deleted
    BY <2>1, <2>3 DEF Deleted, volFile
  <2>4. CASE Failed \/ Interrupted
    <3>1. UNCHANGED volFile \/ OutputsCut
      BY <2>4 DEF Failed, Interrupted, Cut
    <3>2. NoOutputs \in OutFile
      BY DEF NoOutputs, OutFile
    <3> QED
      BY <2>1, <3>1, <3>2 DEF OutputsCut, volFile
  <2> QED
    BY <2>2, <2>3, <2>4
<1>6. VolInv'
  BY <1>1, <1>5, VolStopKeepsVolumes DEF Stop, ConvergeInv
<1>7. BucketInv'
  BY <1>1, StopKeepsBuckets DEF Stop, ConvergeInv
<1> QED
  BY <1>2, <1>4, <1>6, <1>7 DEF ConvergeInv

\* The cluster's own step, and the volumes after it
LEMMA ClusterKeeps ==
  ASSUME ConvergeInv,
         ClusterStep \/ ClusterEnsured \/ ClusterLists \/ ClusterPurged \/ VolumesAfterCluster
  PROVE  ConvergeInv'
<1>1. /\ UNCHANGED <<volRemote, volFile, bvars, task, distro, ingress, faults, edits>>
      /\ cpc \in {"list", "delete", "run", "volumes", "done"}
      /\ cpc' \in {"delete", "run", "volumes", "done"} /\ cluster' \in BOOLEAN
  BY DEF ClusterStep, ClusterEnsured, ClusterLists, ClusterPurged, VolumesAfterCluster, volVars, others,
         ConvergeInv, TaskTypes
<1>2. UNCHANGED setting /\ UNCHANGED <<volumes, outputs, vtorn, bprovider>>
  BY <1>1 DEF setting, volRemote, volFile, bvars, bconfig
<1>3. ConfigOK'
  BY <1>1, SameConfig DEF ConvergeInv, volRemote, bvars, bconfig
<1>4. VolInv' /\ (task = "idle" => vpc' = "idle")
  <2>1. CASE ClusterStep /\ task = "apply" /\ distro = "k3s"
    BY <1>2, <2>1, ClusterEnsureKeepsVolumes DEF ClusterStep, ConvergeInv, volRemote
  <2>2. CASE ClusterLists
    BY <1>2, <2>2, PurgeKeepsVolumes DEF ClusterLists, ConvergeInv, TaskTypes
  <2>3. CASE VolumesAfterCluster
    <3>1. /\ vpc = "idle" /\ task = "delete" /\ task' = "delete" /\ VolPurge
          /\ UNCHANGED <<vmem, vleft, vabsent, vdoomed, distro>>
      BY <1>1, <2>3 DEF VolumesAfterCluster, VolPurge
    <3> QED
      BY <1>1, <1>2, <3>1, PurgeStartKeepsVolumes DEF ConvergeInv
  <2>4. CASE UNCHANGED volVars
    <3>1. UNCHANGED vpc
      BY <2>4 DEF volVars, volRun
    <3> QED
      BY <1>1, <1>2, <2>4, <3>1, SameVolumes DEF ConvergeInv, TaskTypes
  <2> QED
    BY <1>1, <2>1, <2>2, <2>3, <2>4 DEF ClusterStep, ClusterEnsured, ClusterPurged, volVars, volRun
<1>5. TaskTypes'
  BY <1>1, <1>4 DEF ConvergeInv, TaskTypes, bvars, brun
<1>6. BucketInv'
  BY <1>1, SameBuckets DEF ConvergeInv
<1> QED
  BY <1>3, <1>4, <1>5, <1>6 DEF ConvergeInv

\* The volumes beside it, and the buckets
LEMMA WorkKeeps ==
  ASSUME ConvergeInv, UNCHANGED <<distro, ingress, cluster, task, cpc, faults, edits>>,
         (VolStep /\ UNCHANGED bvars) \/ (BucketsStep /\ UNCHANGED volVars)
  PROVE  ConvergeInv'
<1>1. CASE VolStep /\ UNCHANGED bvars
  <2>1. volWanted' = volWanted /\ UNCHANGED <<bpc, bprovider, bwanted>>
    BY <1>1 DEF VolStep, Look, Create, WriteVolumes, ListVolumes, VolumesDeleted, DeleteVolume, volRemote,
                bvars, bconfig, brun
  <2>2. task # "idle"
    <3>1. task = "idle" => vleft = Nobody /\ vabsent = Nobody /\ vdoomed = {} /\ vpc = "idle"
      BY DEF ConvergeInv, TaskTypes, VolInv, VolFlow
    <3> QED
      BY <1>1, <3>1 DEF VolStep, Look, Create, WriteVolumes, Writing, ListVolumes, VolumesDeleted, DeleteVolume,
                        Nobody
  <2>3. ConfigOK' /\ TaskTypes'
    BY <2>1, <2>2, SameConfig DEF ConvergeInv, TaskTypes
  <2>4. VolInv'
    BY <1>1, <2>1, VolStepKeepsVolumes DEF ConvergeInv, setting
  <2>5. BucketInv'
    BY <1>1, SameBuckets DEF ConvergeInv
  <2> QED
    BY <2>3, <2>4, <2>5 DEF ConvergeInv
<1>2. CASE BucketsStep /\ UNCHANGED volVars
  <2>1. UNCHANGED bconfig
    BY <1>2 DEF BucketsStep, EnsureNext, ReplaceEnsure, LookInside, DeleteEmpty, EnsureZone, StartReplace,
                StartRemove, WriteBuckets, EnsureUser, DropKeys, IssueKey, SealKey, StartZones, WriteZones,
                SealPasswords, WriteRetained
  <2>2. task # "idle"
    <3>1. task = "idle" => bpc = "idle" /\ bempty = {}
      BY DEF ConvergeInv, TaskTypes, BucketInv, BucketFlow
    <3> QED
      BY <1>2, <3>1 DEF BucketsStep, EnsureNext, ReplaceEnsure, LookInside, DeleteEmpty, EnsureZone, StartReplace,
                StartRemove, WriteBuckets, EnsureUser, DropKeys, IssueKey, SealKey, StartZones, WriteZones,
                SealPasswords, WriteRetained
  <2>3. ConfigOK' /\ TaskTypes'
    BY <1>2, <2>1, <2>2, SameConfig DEF ConvergeInv, TaskTypes, volVars, volRemote, bconfig
  <2>4. VolInv'
    BY <1>2, <2>1, SameVolumes DEF ConvergeInv, bconfig
  <2>5. BucketInv'
    BY <1>2, BucketsStepKeepsBuckets DEF ConvergeInv
  <2> QED
    BY <2>3, <2>4, <2>5 DEF ConvergeInv
<1> QED
  BY <1>1, <1>2

\* What is done while nothing runs, and by others
LEMMA OutsideKeeps ==
  ASSUME ConvergeInv, EditConfig \/ Adopt \/ Others \/ Cinder
  PROVE  ConvergeInv'
<1>1. CASE EditConfig
  <2>1. ConfigOK'
    BY <1>1 DEF EditConfig, ConfigOK, HasConfig
  <2>2. TaskTypes'
    BY <1>1, ConvergeAssumption DEF EditConfig, ConvergeInv, TaskTypes, volRun, brun
  <2>3. VolInv' /\ BucketInv'
    BY <1>1, EditKeepsVolumes, EditKeepsBuckets DEF EditConfig, ConvergeInv, TaskTypes, volFile
  <2> QED
    BY <2>1, <2>2, <2>3 DEF ConvergeInv
<1>2. CASE Adopt
  <2>1. ConfigOK'
    BY <1>2, SameConfig DEF Adopt, VolumesAdopt, ConvergeInv, volRemote, bvars, bconfig
  <2>2. TaskTypes'
    BY <1>2, ConvergeAssumption DEF Adopt, VolumesAdopt, ConvergeInv, TaskTypes, volRun, bvars, brun
  <2>3. VolInv' /\ BucketInv'
    BY <1>2, EditKeepsVolumes, SameBuckets DEF Adopt, VolumesAdopt, ConvergeInv, TaskTypes, volRemote
  <2> QED
    BY <2>1, <2>2, <2>3 DEF ConvergeInv
<1>3. CASE Others
  <2>1. ConfigOK'
    BY <1>3, SameConfig DEF Others, HandMakesVolume, ConvergeInv, volVars, volRemote, bvars, bconfig
  <2>2. TaskTypes'
    <3>1. faults' \in 0..MaxFaults
      BY <1>3, ConvergeAssumption DEF Others, ConvergeInv, TaskTypes
    <3>2. UNCHANGED <<distro, cluster, task, cpc, edits, vpc, bpc>>
      BY <1>3 DEF Others, HandMakesVolume, volVars, volRun, bvars, brun
    <3> QED
      BY <3>1, <3>2 DEF ConvergeInv, TaskTypes
  <2>3. CASE BucketsEnv /\ UNCHANGED <<volVars, bconfig, s3key, bdisk, brun>>
    BY <1>3, <2>1, <2>2, <2>3, OthersKeepBuckets, SameVolumes DEF Others, ConvergeInv, bconfig
  <2>4. CASE HandMakesVolume /\ UNCHANGED bvars
    BY <1>3, <2>1, <2>2, <2>4, OthersKeepVolumes, SameBuckets
       DEF Others, HandMakesVolume, ConvergeInv, bvars, bconfig, setting
  <2> QED
    BY <1>3, <2>3, <2>4 DEF Others
<1>4. CASE Cinder
  <2>1. ConfigOK' /\ TaskTypes'
    BY <1>4, SameConfig DEF Cinder, VolumeGone, ConvergeInv, TaskTypes, volRun, bvars, bconfig, brun
  <2>2. VolInv' /\ BucketInv'
    BY <1>4, OthersKeepVolumes, SameBuckets DEF Cinder, VolumeGone, ConvergeInv, bvars, bconfig, setting
  <2> QED
    BY <2>1, <2>2 DEF ConvergeInv
<1> QED
  BY <1>1, <1>2, <1>3, <1>4

LEMMA NextKeeps ==
  ASSUME ConvergeInv, [Next]_vars
  PROVE  ConvergeInv'
<1>1. CASE UNCHANGED vars
  <2>1. ConfigOK' /\ TaskTypes'
    BY <1>1, SameConfig DEF ConvergeInv, TaskTypes, vars, volVars, volRemote, volRun, bvars, bconfig, brun
  <2> QED
    BY <1>1, <2>1, SameVolumes, SameBuckets DEF ConvergeInv, vars, bvars, bconfig
<1> QED
  BY <1>1, StartKeeps, EndKeeps, ClusterKeeps, WorkKeeps, OutsideKeeps DEF Next, Progress, Working

-----------------------------------------------------------------------------
\* ConvergeInv holds in every state a cluster's volumes and buckets can be in.
THEOREM ConvergeInvariant == Spec => []ConvergeInv
<1>1. Init => ConvergeInv
  BY InitEstablishes
<1>2. ConvergeInv /\ [Next]_vars => ConvergeInv'
  BY NextKeeps
<1> QED
  BY <1>1, <1>2, PTL DEF Spec

\* The types hold; no bucket exists twice, and with mks no volume of the cluster.
THEOREM ConvergeTypes == Spec => []TypeOK
<1>1. ConvergeInv => TypeOK
  <2> SUFFICES ASSUME ConvergeInv PROVE TypeOK
    OBVIOUS
  <2>1. \A v \in volumes : v.id \in VolIds /\ v.name \in VolNames
    BY DEF ConvergeInv, VolInv, VolTypes, Volume
  <2>2. /\ \A v, w \in volumes : v.id = w.id => v = w
        /\ distro = "mks" => \A v, w \in volumes : v.name = w.name /\ v.mine /\ w.mine => v = w
    BY DEF ConvergeInv, VolInv, VolUnique
  <2>3. Recorded(outputs) \union Recorded(vmem) \union vdoomed \subseteq VolIds
    BY DEF ConvergeInv, VolInv, VolTypes, OutFile, Recorded
  <2>4. \A b \in buckets : b.name \in BucketNames /\ b.id \in BucketIds
    BY DEF ConvergeInv, BucketInv, BucketTypes, Containers
  <2>5. \A b, d \in buckets : b.name = d.name /\ (b.region = d.region \/ bprovider = "bunny") => b = d
    BY DEF ConvergeInv, BucketInv, BucketUnique
  <2> QED
    BY <2>1, <2>2, <2>3, <2>4, <2>5
       DEF TypeOK, ConvergeInv, ConfigOK, TaskTypes, VolInv, VolTypes, BucketInv, BucketTypes
<1> QED
  BY ConvergeInvariant, <1>1, PTL

-----------------------------------------------------------------------------
(* Data survive a command.                                                 *)

\* A running command takes no volume away, and marks only those that the config
\* does not retain.
LEMMA VolumesSurvive ==
  ASSUME ConvergeInv, VolStep, NEW v \in volumes, v \notin volumes'
  PROVE  task = "delete" /\ v.mine /\ Unretained(v.name)
<1>1. PICK i \in VolIds : DeleteVolume(i)
  BY DEF VolStep, Look, Create, CreateVolume, WriteVolumes, ListVolumes, VolumesDeleted, volRemote
<1>2. v.id = i /\ i \in vdoomed
  BY <1>1 DEF DeleteVolume
<1> QED
  BY <1>2 DEF ConvergeInv, VolInv, VolFlow

\* The DELETE takes a bucket of a name that was found empty, and OVH none that
\* has objects in it.
LEMMA DeletesFound ==
  ASSUME ConvergeInv, NEW n \in BucketNames, DeleteEmpty(n), NEW b \in buckets, b \notin buckets'
  PROVE  b.name = n /\ n \in bempty /\ (b.full => bprovider = "bunny")
<1>1. b \in Found(n) /\ n \in bempty
  BY DEF DeleteEmpty
<1>2. bprovider = "ovh" => ~b.full
  BY <1>1 DEF DeleteEmpty, CannotDelete, NoNeed, Kept
<1>3. bprovider \in {"ovh", "bunny"}
  <2>1. bpc \in {"replace", "remove", "purge", "doom"}
    BY <1>1 DEF ConvergeInv, BucketInv, BucketFlow
  <2> QED
    BY <2>1, ConfigTypes DEF ConvergeInv, BucketInv, BucketFlow, OvhPcs, BunnyPcs
<1> QED
  BY <1>1, <1>2, <1>3 DEF Found

\* A bucket that exists before and after, whatever else was changed of it, is
\* not destroyed.
LEMMA StillThere ==
  ASSUME NEW b \in Destroyed
  PROVE  b \in buckets /\ b \notin buckets'
         /\ \A d \in buckets' : d.name = b.name /\ d.region = b.region => d.id # b.id
BY DEF Destroyed

LEMMA BucketsSurvive ==
  ASSUME ConvergeInv, BucketsStep, NEW b \in Destroyed
  PROVE  /\ b.name \in bempty /\ (b.full => bprovider = "bunny") /\ bfile[b.name] # Nothing
         /\ bfile[b.name].retain => bprovider = "ovh" /\ b.name \in ToReplace
<1>1. BucketTypes /\ BucketFlow
  BY DEF ConvergeInv, BucketInv
<1>2. ASSUME NEW n \in BucketNames, DeleteEmpty(n)
      PROVE  /\ b.name \in bempty /\ (b.full => bprovider = "bunny") /\ bfile[b.name] # Nothing
             /\ bfile[b.name].retain => bprovider = "ovh" /\ b.name \in ToReplace
  <2>1. b.name = n /\ n \in bempty /\ (b.full => bprovider = "bunny")
    BY <1>2, DeletesFound, StillThere
  <2>2. \/ bprovider = "ovh" /\ n \in ToReplace
        \/ n \in ToDelete \union Purgeable
        \/ bprovider = "bunny" /\ n \in ToReplace /\ ~bfile[n].retain
    <3>1. bprovider \in {"ovh", "bunny", "none"}
      BY ConfigTypes DEF ConvergeInv
    <3> QED
      BY <1>1, <2>1, <3>1 DEF BucketFlow, OvhPcs, BunnyPcs
  <2>3. n \in ToDelete \union Purgeable => bfile[n] # Nothing /\ ~bfile[n].retain
    BY DEF ToDelete, Purgeable, OnFile
  <2>4. n \in ToReplace => bfile[n] # Nothing
    BY DEF ToReplace, Immutable, OnFile
  <2> QED
    BY <2>1, <2>2, <2>3, <2>4
<1>3. ASSUME NEW n \in BucketNames, EnsureContainer(n)
      PROVE  FALSE
  <2> DEFINE there == {d \in buckets : d.name = n /\ d.region = bwanted[n].region}
             set(d) == [d EXCEPT !.ver = bwanted[n].ver]
  <2>1. buckets \subseteq buckets' \/ buckets' = (buckets \ there) \union {set(d) : d \in there}
    BY <1>3 DEF EnsureContainer
  <2>2. b \in there /\ set(b) \in buckets'
    BY <2>1, StillThere
  <2>3. set(b).name = b.name /\ set(b).region = b.region /\ set(b).id = b.id
    BY <1>1, StillThere DEF BucketTypes, Containers
  <2> HIDE DEF set
  <2> QED
    BY <2>2, <2>3, StillThere
<1>4. ASSUME NEW n \in BucketNames, EnsureNext(n) \/ ReplaceEnsure(n) PROVE FALSE
  BY <1>3, <1>4 DEF EnsureNext, ReplaceEnsure
<1>5. ASSUME NEW n \in BucketNames, EnsureZone(n) PROVE FALSE
  BY <1>5, StillThere DEF EnsureZone
<1>6. buckets' # buckets
  BY StillThere
<1> QED
  BY <1>2, <1>4, <1>5, <1>6
     DEF BucketsStep, LookInside, StartReplace, StartRemove, WriteBuckets, EnsureUser, DropKeys, IssueKey, SealKey,
         StartZones, WriteZones, SealPasswords, WriteRetained, bcloud

\* No volume is deleted but by `delete', of our tag and not retained by the config,
\* with mks one that it names; no bucket that was not found empty, that OVH has
\* objects in, that the file does not know or says to retain, unless OVH has to
\* replace it (DataSurvives).
THEOREM NoDataLost == Spec => DataSurvives
<1> DEFINE A ==
      task # "idle" /\ faults' = faults =>
        /\ \A v \in volumes : v \notin volumes' /\ ~v.leaving =>
             task = "delete" /\ v.mine /\ Unretained(v.name)
        /\ \A b \in Destroyed : /\ b.name \in bempty /\ (b.full => bprovider = "bunny")
                                /\ bfile[b.name] # Nothing
                                /\ bfile[b.name].retain => bprovider = "ovh" /\ b.name \in ToReplace
<1>1. ConvergeInv /\ [Next]_vars => A
  <2> SUFFICES ASSUME ConvergeInv, [Next]_vars, task # "idle", faults' = faults PROVE A
    OBVIOUS
  <2>1. CASE VolStep /\ UNCHANGED bvars
    <3>1. Destroyed = {}
      BY <2>1, StillThere DEF bvars, bcloud
    <3> QED
      BY <2>1, <3>1, VolumesSurvive
  <2>2. CASE BucketsStep /\ UNCHANGED volVars
    BY <2>2, BucketsSurvive DEF volVars, volRemote
  <2>3. CASE Cinder
    <3>1. Destroyed = {}
      BY <2>3, StillThere DEF Cinder, bvars, bcloud
    <3>2. \A v \in volumes : v \notin volumes' => v.leaving
      BY <2>3 DEF Cinder, VolumeGone
    <3> QED
      BY <3>1, <3>2
  <2>4. CASE Interrupted \/ Others
    <3>1. faults' = faults + 1 /\ faults \in Nat
      BY <2>4, ConvergeAssumption DEF Interrupted, Others, ConvergeInv, TaskTypes
    <3> QED
      BY <3>1
  <2>5. CASE UNCHANGED <<volumes, buckets>>
    <3>1. Destroyed = {}
      BY <2>5, StillThere
    <3> QED
      BY <2>5, <3>1
  <2>6. CASE \/ Applied \/ VolumesAfterCluster \/ Deleted \/ Failed
             \/ ClusterStep \/ ClusterEnsured \/ ClusterLists \/ ClusterPurged
    BY <2>5, <2>6
       DEF Applied, VolumesAfterCluster, Deleted, Failed, ClusterStep, ClusterEnsured, ClusterLists, ClusterPurged,
           volVars, volRemote, bvars, bcloud
  <2>7. CASE Apply \/ Delete \/ EditConfig \/ Adopt \/ UNCHANGED vars
    BY <2>5, <2>7
       DEF Apply, Delete, EditConfig, Adopt, VolumesAdopt, vars, volVars, volRemote, bvars, bcloud
  <2> QED
    BY <2>1, <2>2, <2>3, <2>4, <2>6, <2>7 DEF Next, Progress, Working
<1> QED
  BY ConvergeInvariant, <1>1, PTL DEF DataSurvives, Spec

\* When apply reports success the outputs files tell where the volumes, the
\* ingress and the buckets are, but for k3s without storage, and the credentials
\* file holds the key in force, unless it was cut short (SuccessIsRecorded).
THEOREM SuccessRecorded == Spec => SuccessIsRecorded
<1> DEFINE A ==
      Applied =>
        /\ ~Alone => \A n \in Managed : outputs'.vols[n] # 0
        /\ ingress => outputs'.ingress
        /\ Desired \subseteq OnFile
        /\ bprovider # "none" => SecretsServed \/ secrets = Torn
<1>1. ConvergeInv => A
  <2> SUFFICES ASSUME ConvergeInv, Applied PROVE A
    OBVIOUS
  <2>1. outputs \in OutFile /\ outputs'.vols = outputs.vols /\ (ingress => outputs'.ingress)
    BY DEF Applied, RecordIngress, ConvergeInv, VolInv, VolTypes, OutFile
  <2>2. ~Alone => \A n \in Managed : outputs.vols[n] # 0
    BY DEF Applied, Settled, ConvergeInv, VolInv, VolFlow
  <2>3. Desired \subseteq OnFile /\ (bprovider # "none" => SecretsServed \/ secrets = Torn)
    BY DEF Applied, Settled, ConvergeInv, BucketInv, BucketFlow, SecretsServed
  <2> QED
    BY <2>1, <2>2, <2>3
<1> QED
  BY ConvergeInvariant, <1>1, PTL DEF SuccessIsRecorded, Spec

=============================================================================
