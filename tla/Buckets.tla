------------------------------ MODULE Buckets ------------------------------
(***************************************************************************)
(* The buckets of a cluster with OVH or bunny, the outputs file by which   *)
(* they are told apart and diffed, and the file of S3 credentials.         *)
(* An OVH secret is shown once, when it is issued; a bunny zone is found   *)
(* by the id of the outputs file, and its name is taken worldwide.         *)
(* Sources: cli/src/storage, ovh/storage/src, bunny/storage/src,           *)
(* bunny/client/src/client/storage.ts, secrets-sops/src/sink.ts.           *)
(***************************************************************************)
EXTENDS FiniteSets, Naturals

CONSTANTS
  BucketNames,
  BucketSpecs,   \* [region, kind, ver, retain]; kind is encryption or tier
  MaxBucketIds,  \* bound: ids of bunny zones at a time
  Nothing,       \* no bucket of a name, no credentials file
  Torn           \* a credentials file cut short

VARIABLES
  bprovider,  \* "ovh", "bunny", or "none"
  bwanted,    \* the config: object_storage.buckets
  buckets,    \* what the provider has: [name, region, kind, ver, full, id]
  bfile,      \* the outputs file: what it says of each name
  btorn,      \* whether it was cut short and cannot be read
  s3key,      \* the key of the OVH user: "none", "unfiled", "filed"
  secrets,    \* the credentials file, Torn, or for bunny the zones it has passwords of
  bpc,        \* where the process is
  bleft,      \* names this phase has still to delete, or to ensure
  bempty,     \* names it looked into and found empty, and is to DELETE
  bhalf,      \* names a replace has deleted and has still to ensure
  bmem,       \* bunny: what is settled so far, name by name
  bfailed,    \* bunny: some deletion or creation failed
  bchanged    \* bunny: the set of zones changes

bcloud  == <<buckets, s3key>>
bconfig == <<bprovider, bwanted>>
bdisk   == <<bfile, btorn, secrets>>
brun    == <<bpc, bleft, bempty, bhalf, bmem, bfailed, bchanged>>
bvars   == <<bconfig, bcloud, bdisk, brun>>

BucketIds == 0..MaxBucketIds

\* A bucket the provider has, and what the outputs file says of one
Containers == [name : BucketNames, region : {s.region : s \in BucketSpecs},
               kind : {s.kind : s \in BucketSpecs}, ver : BOOLEAN, full : BOOLEAN, id : BucketIds]
Entry == [region : {s.region : s \in BucketSpecs}, kind : {s.kind : s \in BucketSpecs},
          ver : BOOLEAN, retain : BOOLEAN, id : BucketIds]

\* The zones, the outputs file, what a run holds of it and the passwords leave
\* one id of so many.
ASSUME BucketsAssumption ==
  /\ IsFiniteSet(BucketNames)
  /\ MaxBucketIds \in Nat /\ MaxBucketIds > 4 * Cardinality(BucketNames)
  /\ Nothing \notin BucketSpecs \union Entry /\ Torn # Nothing
  /\ \A ids \in SUBSET BucketIds : ids \notin {Nothing, Torn}
  /\ \A s \in BucketSpecs : s.ver \in BOOLEAN /\ s.retain \in BOOLEAN

NoBuckets == [n \in BucketNames |-> Nothing]
Desired   == {n \in BucketNames : bwanted[n] # Nothing}
OnFile    == {n \in BucketNames : bfile[n] # Nothing}

\* OVH gives no id that the program uses.
FreshBucketId ==
  IF bprovider = "ovh" THEN 0
  ELSE CHOOSE i \in BucketIds \ {0} :
         i \notin {b.id : b \in buckets} \union {bfile[n].id : n \in OnFile}
                  \union {bmem[n].id : n \in {m \in BucketNames : bmem[m] # Nothing}}
                  \union (IF secrets \in {Nothing, Torn} THEN {} ELSE secrets)

\* An OVH bucket is looked up in its region, a bunny zone by its id.
Found(n) ==
  {b \in buckets : b.name = n /\ IF bprovider = "ovh" THEN b.region = bfile[n].region
                                                      ELSE b.id = bfile[n].id}

BucketsInit ==
  /\ buckets = {} /\ bfile = NoBuckets /\ btorn = FALSE /\ s3key = "none" /\ secrets = Nothing
  /\ bpc = "idle" /\ bleft = {} /\ bempty = {} /\ bhalf = {} /\ bmem = NoBuckets
  /\ bfailed = FALSE /\ bchanged = FALSE

BucketsStop ==
  /\ bpc' = "idle" /\ bleft' = {} /\ bempty' = {} /\ bhalf' = {} /\ bmem' = NoBuckets
  /\ bfailed' = FALSE /\ bchanged' = FALSE

-----------------------------------------------------------------------------
(* diffBuckets, on the outputs file, and the rows of the plan.             *)

Immutable(n) == n \in Desired \intersect OnFile
                /\ \/ bwanted[n].region # bfile[n].region
                   \/ bwanted[n].kind # bfile[n].kind
ToCreate  == Desired \ OnFile
ToReplace == {n \in BucketNames : Immutable(n)}
ToUpdate  == {n \in (Desired \intersect OnFile) \ ToReplace :
                bprovider = "ovh" /\ bwanted[n].ver # bfile[n].ver}
AsFiled   == (Desired \intersect OnFile) \ (ToReplace \union ToUpdate)

\* Mutant of ToDelete: the retain flag of the file is not looked at.
ToDeleteRetained == OnFile \ Desired

ToDelete  == {n \in OnFile \ Desired : ~bfile[n].retain}

\* Mutant of BucketRows: what the file knows is not looked up.
BucketRowsFromFile == ToCreate \union ToReplace \union ToUpdate \union ToDelete

\* The names in a listing of the regions of what is as filed
LiveNames == {b.name : b \in {d \in buckets : \E n \in AsFiled : d.region = bfile[n].region}}

\* Rows other than NoOp; what the file knows is looked up in a live listing.
BucketRows == ToCreate \union ToReplace \union ToUpdate \union ToDelete \union (AsFiled \ LiveNames)

Goto(phase, left) == bpc' = phase /\ bleft' = left

BucketsStart ==
  /\ IF bprovider = "none" THEN Goto("done", {})
     ELSE IF bprovider = "ovh" THEN Goto("ensure", ToCreate \union AsFiled \union ToUpdate)
     ELSE Goto("doom", ToReplace \union ToDelete)
  /\ bchanged' = (ToCreate \union ToReplace \union ToDelete # {})
  /\ UNCHANGED <<bempty, bhalf, bmem, bfailed>>

-----------------------------------------------------------------------------
(* One bucket.  The provider looks first; what it answers then is acted on. *)

NewBucket(n, spec) ==
  [name |-> n, region |-> spec.region, kind |-> spec.kind, ver |-> spec.ver,
   full |-> FALSE, id |-> FreshBucketId]

Record(n) == [region |-> bwanted[n].region, kind |-> bwanted[n].kind, ver |-> bwanted[n].ver,
              retain |-> bwanted[n].retain, id |-> 0]

\* ensureBucket of OVH: create, or set the versioning, the one mutable field.
EnsureContainer(n) ==
  LET there == {b \in buckets : b.name = n /\ b.region = bwanted[n].region}
  IN buckets' = IF there = {} THEN buckets \union {NewBucket(n, bwanted[n])}
                ELSE (buckets \ there) \union {[b EXCEPT !.ver = bwanted[n].ver] : b \in there}

\* deleteBucket: OVH fails on what is gone, bunny does not, and keeps what is
\* recorded as retained; neither deletes what it finds objects in.
Kept(n)   == bprovider = "bunny" /\ bfile[n].retain
NoNeed(n) == Kept(n) \/ (bprovider = "bunny" /\ Found(n) = {})
CannotDelete(n) == ~NoNeed(n) /\ (Found(n) = {} \/ \E b \in Found(n) : b.full)

Settle(n) == bhalf' = IF bpc \in {"replace", "doom"} THEN bhalf \union {n} ELSE bhalf

\* It looks first; in _convergeBunny a refusal is one of the failures collected.
LookInside(n) ==
  /\ bpc \in {"replace", "remove", "purge", "doom"} /\ n \in bleft
  /\ bleft' = bleft \ {n}
  /\ \/ NoNeed(n) /\ Settle(n) /\ UNCHANGED <<bempty, bfailed>>
     \/ ~NoNeed(n) /\ ~CannotDelete(n) /\ bempty' = bempty \union {n} /\ UNCHANGED <<bhalf, bfailed>>
     \/ CannotDelete(n) /\ bpc = "doom" /\ bfailed' = TRUE /\ UNCHANGED <<bempty, bhalf>>
  /\ UNCHANGED <<bconfig, bcloud, bdisk, bpc, bmem, bchanged>>

\* OVH refuses what was written to meanwhile, or is gone; bunny deletes a zone
\* with what is in it, and one that is gone all the same (404).
DeleteEmpty(n) ==
  /\ n \in bempty
  /\ bprovider = "ovh" => ~CannotDelete(n)
  /\ buckets' = buckets \ Found(n)
  /\ bempty' = bempty \ {n} /\ Settle(n)
  /\ UNCHANGED <<bconfig, s3key, bdisk, bpc, bleft, bmem, bfailed, bchanged>>

-----------------------------------------------------------------------------
(* _convergeOvh                                                            *)

\* _applyBucketDiff: created, then checked, then updated
Before(n, m) == \/ n \in ToCreate /\ m \notin ToCreate
                \/ n \in AsFiled /\ m \in ToUpdate

EnsureNext(n) ==
  /\ bpc = "ensure" /\ n \in bleft /\ \A m \in bleft : ~Before(m, n)
  /\ EnsureContainer(n)
  /\ Goto("ensure", bleft \ {n})
  /\ UNCHANGED <<bconfig, s3key, bdisk, bempty, bhalf, bmem, bfailed, bchanged>>

StartReplace ==
  /\ bpc = "ensure" /\ bleft = {}
  /\ Goto("replace", ToReplace)
  /\ UNCHANGED <<bconfig, bcloud, bdisk, bempty, bhalf, bmem, bfailed, bchanged>>

ReplaceEnsure(n) ==
  /\ bpc = "replace" /\ n \in bhalf
  /\ EnsureContainer(n)
  /\ bhalf' = bhalf \ {n}
  /\ UNCHANGED <<bconfig, s3key, bdisk, bpc, bleft, bempty, bmem, bfailed, bchanged>>

StartRemove ==
  /\ bpc = "replace" /\ bleft = {} /\ bempty = {} /\ bhalf = {}
  /\ Goto("remove", ToDelete)
  /\ UNCHANGED <<bconfig, bcloud, bdisk, bempty, bhalf, bmem, bfailed, bchanged>>

\* All that is to be done before the outputs file, or the credentials, is done.
BucketsWriting == bpc \in {"remove", "zones", "purge"} /\ bleft = {} /\ bempty = {}
Sealing == bpc = "seal" \/ (bpc = "passwords" /\ \A n \in OnFile : Found(n) # {})

\* What is desired is recorded, and what has left the config but is retained.
WriteBuckets ==
  /\ bpc = "remove" /\ BucketsWriting
  /\ bfile' = [n \in BucketNames |->
                 IF n \in Desired THEN Record(n)
                 ELSE IF n \in OnFile /\ bfile[n].retain THEN bfile[n] ELSE Nothing]
  /\ Goto(IF secrets = Nothing THEN "issue" ELSE "done", {})
  /\ UNCHANGED <<bconfig, bcloud, btorn, secrets, bempty, bhalf, bmem, bfailed, bchanged>>

\* _ensureUser: found by its description or made, and waited for until it is
\* ready; a user that never is fails the run.
EnsureUser ==
  /\ bpc = "issue"
  /\ Goto("drop", {})
  /\ UNCHANGED <<bconfig, bcloud, bdisk, bempty, bhalf, bmem, bfailed, bchanged>>

\* _deleteOrphanedCredentials: a key the program has no secret of is of no use.
DropKeys ==
  /\ bpc = "drop"
  /\ s3key' = "none"
  /\ Goto("make", {})
  /\ UNCHANGED <<bconfig, buckets, bdisk, bempty, bhalf, bmem, bfailed, bchanged>>

\* The secret is in the answer, and nowhere else.
IssueKey ==
  /\ bpc = "make"
  /\ s3key' = "unfiled"
  /\ Goto("seal", {})
  /\ UNCHANGED <<bconfig, buckets, bdisk, bempty, bhalf, bmem, bfailed, bchanged>>

\* CredentialsSink: encrypted in memory, and only the ciphertext written.
Seal(entries) == secrets' = entries

\* credentialEntries: the passwords of the zones, or the key of the user.
Entries == IF bprovider = "bunny" THEN {bfile[n].id : n \in OnFile} ELSE {}

\* Mutant of SealKey: a file of an earlier key is kept.
SealKeyElsewhere ==
  /\ bpc = "seal"
  /\ Seal(Entries)
  /\ Goto("done", {})
  /\ UNCHANGED <<bconfig, bcloud, bfile, btorn, bempty, bhalf, bmem, bfailed, bchanged>>

SealKey ==
  /\ bpc = "seal"
  /\ Seal(Entries) /\ s3key' = "filed"
  /\ Goto("done", {})
  /\ UNCHANGED <<bconfig, buckets, bfile, btorn, bempty, bhalf, bmem, bfailed, bchanged>>

-----------------------------------------------------------------------------
(* _convergeBunny: failures are collected and thrown after the file is      *)
(* written.                                                                 *)

StartZones ==
  /\ bpc = "doom" /\ bleft = {} /\ bempty = {}
  /\ Goto("zones", Desired)
  /\ UNCHANGED <<bconfig, bcloud, bdisk, bempty, bhalf, bmem, bfailed, bchanged>>

\* ensureZone: one of the file is read back, another is created if its name
\* is free.  What was to be replaced counts as not of the file.
ZoneRecord(b, retain) ==
  [region |-> b.region, kind |-> b.kind, ver |-> FALSE, retain |-> retain, id |-> b.id]

EnsureZone(n) ==
  /\ bpc = "zones" /\ n \in bleft
  /\ Goto("zones", bleft \ {n})
  /\ IF n \in AsFiled
     THEN IF Found(n) # {}
          THEN /\ \E b \in Found(n) : bmem' = [bmem EXCEPT ![n] = ZoneRecord(b, bfile[n].retain)]
               /\ UNCHANGED <<buckets, bfailed>>
          ELSE bfailed' = TRUE /\ UNCHANGED <<buckets, bmem>>
     ELSE IF \E b \in buckets : b.name = n
          THEN bfailed' = TRUE /\ UNCHANGED <<buckets, bmem>>
          ELSE /\ buckets' = buckets \union {NewBucket(n, bwanted[n])}
               /\ bmem' = [bmem EXCEPT ![n] = ZoneRecord(NewBucket(n, bwanted[n]), bwanted[n].retain)]
               /\ UNCHANGED bfailed
  /\ UNCHANGED <<bconfig, s3key, bdisk, bempty, bhalf, bchanged>>

WriteZones ==
  /\ bpc = "zones" /\ BucketsWriting
  /\ bfile' = [n \in BucketNames |->
                 IF bmem[n] # Nothing THEN bmem[n]
                 ELSE IF n \in bhalf THEN Nothing ELSE bfile[n]]
  /\ Goto(IF bfailed THEN "failed"
          ELSE IF bchanged \/ secrets = Nothing THEN "passwords" ELSE "done", {})
  /\ UNCHANGED <<bconfig, bcloud, btorn, secrets, bempty, bhalf, bmem, bfailed, bchanged>>

\* ensureCredentials reads every zone of the file.
SealPasswords ==
  /\ bpc = "passwords" /\ Sealing
  /\ Seal(Entries)
  /\ Goto("done", {})
  /\ UNCHANGED <<bconfig, bcloud, bfile, btorn, bempty, bhalf, bmem, bfailed, bchanged>>

-----------------------------------------------------------------------------
(* reconcileBucketsOnDelete                                                *)

Purgeable == {n \in OnFile : ~bfile[n].retain}

BucketsPurge ==
  /\ IF bprovider = "none" \/ OnFile = {} THEN Goto("done", {}) ELSE Goto("purge", Purgeable)
  /\ UNCHANGED <<bempty, bhalf, bmem, bfailed, bchanged>>

WriteRetained ==
  /\ bpc = "purge" /\ BucketsWriting
  /\ bfile' = [n \in BucketNames |-> IF n \in Purgeable THEN Nothing ELSE bfile[n]]
  /\ Goto("done", {})
  /\ UNCHANGED <<bconfig, bcloud, btorn, secrets, bempty, bhalf, bmem, bfailed, bchanged>>

-----------------------------------------------------------------------------
BucketsFailing ==
  \/ bpc = "failed"
  \/ bpc \in {"replace", "remove", "purge"} /\ \E n \in bleft : CannotDelete(n)
  \/ bprovider = "ovh" /\ \E n \in bempty : CannotDelete(n)
  \/ bpc = "passwords" /\ ~Sealing

\* A run that ends while it writes leaves the file truncated: the outputs, which
\* cannot be read then, or the credentials, which are taken to be there.
BucketsCut ==
  \/ UNCHANGED bdisk
  \/ BucketsWriting /\ bfile' = NoBuckets /\ btorn' = TRUE /\ UNCHANGED secrets
  \/ Sealing /\ secrets' = Torn /\ UNCHANGED <<bfile, btorn>>

BucketsStep ==
  \/ \E n \in BucketNames : \/ EnsureNext(n) \/ ReplaceEnsure(n) \/ EnsureZone(n)
                            \/ LookInside(n) \/ DeleteEmpty(n)
  \/ StartReplace \/ StartRemove \/ WriteBuckets
  \/ EnsureUser \/ DropKeys \/ IssueKey \/ SealKey
  \/ StartZones \/ WriteZones \/ SealPasswords \/ WriteRetained

\* Someone writes to a bucket, or deletes one at the provider's console.
Written == \E b \in buckets : ~b.full /\ buckets' = (buckets \ {b}) \union {[b EXCEPT !.full = TRUE]}
Emptied == \E b \in buckets : b.full /\ buckets' = (buckets \ {b}) \union {[b EXCEPT !.full = FALSE]}
HandDeletes == \E b \in buckets : buckets' = buckets \ {b}
BucketsEnv == Written \/ Emptied \/ HandDeletes
=============================================================================
