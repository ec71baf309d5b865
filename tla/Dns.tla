--------------------------------- MODULE Dns ---------------------------------
(***************************************************************************)
(* The records of a cluster in a DNS zone it shares with others.  A name   *)
(* belongs to the cluster whose tag stands in a TXT record there.  Each of *)
(* the four providers reads the zone and then changes it, one request      *)
(* after the other, while other clusters and people do the same.  Sources: *)
(* cli/src/dns.ts, core/src/dns, {ovh,hetzner,bunny,godaddy}/dns.          *)
(***************************************************************************)
EXTENDS Naturals, FiniteSets

CONSTANTS
  Me, Other, Hand,  \* this cluster, another one, a person
  DnsNames,
  Apex,             \* the name of the zone itself
  Targets,          \* what a record of the config points at
  MaxFaults         \* bound: interruptions, and what others do

Unasked == "unasked"  \* no record asked at a name

WireKinds == {"A", "CNAME", "PullZone"}
Kinds == WireKinds \union {"TXT", "MX"}

\* val of a TXT is the cluster it names, or Hand for any other text; that of
\* another record is the target it was written for, or else who wrote it.
Records == [name : DnsNames, kind : Kinds, val : {Me, Other, Hand} \union Targets]
Mine(r) == r.val \in {Me} \union Targets

ASSUME DnsAssumption ==
  /\ Me # Other /\ Me # Hand /\ Other # Hand
  /\ Targets \subseteq {"ip", "hostname", "cdn"}
  /\ {Me, Other, Hand} \intersect {"ip", "hostname", "cdn", Unasked} = {}
  /\ MaxFaults \in Nat

VARIABLES
  dnsProvider,  \* dns.module
  dnsWanted,    \* the record the config asks at each name
  records,      \* the zone
  dnsTask,      \* what the CLI process does to the zone
  dnsSnap,      \* the zone as the process last read it
  dnsLeft,      \* the names still to be ensured
  dnsPending,   \* the requests still to be made: [step, ask], the lowest step
                \* first and those of one step in any order
  orphaned,     \* auxiliary: names with a record whose tag was taken away
  contested,    \* auxiliary: names the other cluster claimed during a run, or
                \* where somebody hid the tag
  faults

dnsRun == <<dnsTask, dnsSnap, dnsLeft, dnsPending>>
dnsConfig == <<dnsProvider, dnsWanted>>
dnsVars == <<dnsConfig, records, dnsRun, orphaned, contested, faults>>

At(zone, n) == {r \in zone : r.name = n}
Txts(zone, n) == {r \in At(zone, n) : r.kind = "TXT"}
Tags(zone, n) == {r \in Txts(zone, n) : r.val \in {Me, Other}}
Tag(n) == [name |-> n, kind |-> "TXT", val |-> Me]
SameSet(r, s) == r.name = s.name /\ r.kind = s.kind

DnsInit ==
  /\ records = {}
  /\ dnsTask = "idle" /\ dnsSnap = {} /\ dnsLeft = {} /\ dnsPending = {}
  /\ orphaned = {} /\ contested = {}
  /\ faults = 0

-----------------------------------------------------------------------------
(* What a provider is asked to do                                          *)

Create(r)    == [op |-> "create", old |-> r, new |-> r]
Put(r)       == [op |-> "put",    old |-> r, new |-> r]
Edit(r, new) == [op |-> "edit",   old |-> r, new |-> new]
Delete(r)    == [op |-> "delete", old |-> r, new |-> r]

\* recordKind, and _wireKindFor of bunny: a pull zone stands at the apex.
KindOf(n) ==
  CASE dnsWanted[n] = "ip" -> "A"
    [] dnsWanted[n] = "cdn" /\ dnsProvider = "bunny" /\ n = Apex -> "PullZone"
    [] OTHER -> "CNAME"

Wanted(n) == [name |-> n, kind |-> KindOf(n), val |-> dnsWanted[n]]

\* The records that make a name somebody's: godaddy looks at its kinds only.
Occupying(zone, n) ==
  {r \in At(zone, n) : IF dnsProvider = "godaddy" THEN r.kind \in {"A", "CNAME"}
                       ELSE r.kind # "TXT"}

\* The tags the ownership check may see: ovh takes the first of the list,
\* hetzner the first value of the TXT set, bunny and godaddy all of them.
SeenTags(zone, n) ==
  CASE dnsProvider = "ovh" -> IF Tags(zone, n) = {} THEN {{}}
                              ELSE {{t} : t \in Tags(zone, n)}
    [] dnsProvider = "hetzner" -> IF Txts(zone, n) = {} THEN {{}}
                                  ELSE {{t} \intersect Tags(zone, n) : t \in Txts(zone, n)}
    [] OTHER -> {Tags(zone, n)}

\* Mutant of Refused: a name without a tag is free, whatever stands there.
RefusedByTag(zone, n, tags) == \E t \in tags : t.val # Me

Refused(zone, n, tags) ==
  \/ \E t \in tags : t.val # Me
  \/ tags = {} /\ Occupying(zone, n) # {}

Same(zone, n) == {r \in At(zone, n) : r.kind = KindOf(n)}

\* The record of the wanted kind the provider lists first.
Firsts(zone, n) == IF Same(zone, n) = {} THEN {Wanted(n)} ELSE Same(zone, n)

StaleKinds(zone, n) ==
  {r \in Occupying(zone, n) :
     r.kind # KindOf(n) /\ (dnsProvider = "bunny" => r.kind \in WireKinds)}

\* What removes these records: hetzner deletes the set of a name and a kind by
\* one request, the others every record by one of its own.
Deletions(rs) ==
  IF dnsProvider = "hetzner"
  THEN {Delete(CHOOSE r \in rs : SameSet(r, s)) : s \in rs}
  ELSE {Delete(r) : r \in rs}

\* _deleteStaleKinds
DropStale(zone, n) == Deletions(StaleKinds(zone, n))

\* Mutant of WriteRecord: a record of the kind is taken for the one wanted.
WriteRecordIfMissing(zone, n, first) ==
  IF Same(zone, n) = {} THEN {Create(Wanted(n))} ELSE {}

\* _ensureRaw, _converge: the first of the kind becomes the one wanted; bunny
\* and godaddy delete the rest, the others do not look further.
WriteRecord(zone, n, first) ==
  LET r == Wanted(n) IN
  (CASE Same(zone, n) # {} /\ first = r -> {}
     [] dnsProvider = "hetzner"         -> {Put(r)}
     [] Same(zone, n) = {}              -> {Create(r)}
     [] OTHER                           -> {Edit(first, r)})
  \union IF dnsProvider \in {"bunny", "godaddy"}
         THEN {Delete(s) : s \in Same(zone, n) \ {first, r}} ELSE {}

WriteTag(n, tags) ==
  IF tags # {} THEN {} ELSE IF dnsProvider = "hetzner" THEN {Put(Tag(n))} ELSE {Create(Tag(n))}

Steps(i, asks) == {[step |-> i, ask |-> q] : q \in asks}
InOrder(first, second, third) == Steps(1, first) \union Steps(2, second) \union Steps(3, third)

\* Mutant of PairRequests: the record is written before its tag.
PairRequestsTagLast(zone, n, tags, first) ==
  InOrder(DropStale(zone, n), WriteRecord(zone, n, first), WriteTag(n, tags))

\* _ensurePair: the tag, the stale kinds, then the record.
PairRequests(zone, n, tags, first) ==
  InOrder(WriteTag(n, tags), DropStale(zone, n), WriteRecord(zone, n, first))

\* removeClusterRecords: the names taken for the cluster's own.  One of two
\* tags is enough, but not for godaddy; hetzner looks at the first text.
TakenForOwn(n, tags) ==
  Tag(n) \in tags /\ (dnsProvider = "godaddy" => tags = {Tag(n)})

OwnedNames(zone) ==
  {S \in SUBSET DnsNames :
     \A n \in DnsNames :
       \E tags \in IF dnsProvider = "hetzner" THEN SeenTags(zone, n) ELSE {Tags(zone, n)} :
         (n \in S) = TakenForOwn(n, tags)}

\* What it deletes there
Doomed(zone, owned) ==
  {r \in zone :
     /\ r.name \in owned
     /\ CASE dnsProvider \in {"ovh", "hetzner"} -> TRUE
          [] dnsProvider = "bunny"   -> r.kind \in WireKinds \/ r = Tag(r.name)
          [] dnsProvider = "godaddy" -> r.kind \in {"A", "CNAME"} \/ r = Tag(r.name)}

-----------------------------------------------------------------------------
(* A run                                                                   *)

DnsDesired == {n \in DnsNames : dnsWanted[n] # Unasked}

\* reconcileDns, removeDns
DnsStart(task) ==
  /\ dnsTask = "idle"
  /\ dnsTask' = task
  /\ dnsSnap' = records
  /\ dnsLeft' = IF task = "ensure" THEN DnsDesired ELSE {}
  /\ IF task = "ensure" THEN dnsPending' = {}
     ELSE \E owned \in OwnedNames(records) :
            dnsPending' = Steps(1, Deletions(Doomed(records, owned)))
  /\ UNCHANGED <<dnsConfig, records, orphaned, contested, faults>>

\* godaddy reads the zone once, the others before each name.
Reading == IF dnsProvider = "godaddy" THEN dnsSnap ELSE records

\* _rejectApexCname of godaddy, before anything is asked
ApexRefused == /\ dnsProvider = "godaddy"
               /\ Apex \in DnsDesired /\ KindOf(Apex) = "CNAME"

EnsureName(n) ==
  /\ dnsTask = "ensure" /\ dnsPending = {} /\ n \in dnsLeft /\ ~ApexRefused
  /\ \E tags \in SeenTags(Reading, n), first \in Firsts(Reading, n) :
       /\ ~Refused(Reading, n, tags)
       /\ dnsPending' = PairRequests(Reading, n, tags, first)
  /\ dnsSnap' = Reading
  /\ dnsLeft' = dnsLeft \ {n}
  /\ UNCHANGED <<dnsConfig, records, dnsTask, orphaned, contested, faults>>

\* The process leaves the zone as it is, half done or not.
DnsStop ==
  /\ dnsTask' = "idle" /\ dnsSnap' = {} /\ dnsLeft' = {} /\ dnsPending' = {}
  /\ orphaned' = {n \in IF dnsTask = "remove" THEN DnsNames ELSE orphaned :
                    Tag(n) \notin records /\ \E r \in At(records, n) : Mine(r)}
  /\ UNCHANGED <<dnsConfig, records, contested>>

\* ResourceConflict
NameRefused(n) ==
  /\ dnsTask = "ensure" /\ dnsPending = {} /\ n \in dnsLeft
  /\ ApexRefused \/ \E tags \in SeenTags(Reading, n) : Refused(Reading, n, tags)
  /\ DnsStop /\ UNCHANGED faults

\* The request takes effect on the zone as it is now.
Effect(zone, q) ==
  CASE q.op = "create" -> zone \union {q.new}
    [] q.op = "put"    -> {r \in zone : ~SameSet(r, q.new)} \union {q.new}
    [] q.op = "edit"   -> (zone \ {q.old}) \union {q.new}
    [] q.op = "delete" -> IF dnsProvider = "hetzner" THEN {r \in zone : ~SameSet(r, q.old)}
                          ELSE zone \ {q.old}

\* An edit needs the record; so does a deletion (hetzner's, any of the set),
\* except that bunny and godaddy take a 404 for done.
Possible(q) ==
  \/ q.old \in records
  \/ q.op = "delete" /\ dnsProvider = "hetzner" /\ \E r \in records : SameSet(r, q.old)
  \/ q.op \in {"create", "put"}
  \/ q.op = "delete" /\ dnsProvider \in {"bunny", "godaddy"}

\* The request the process may make now
Due(p) == p \in dnsPending /\ \A o \in dnsPending : p.step <= o.step

Request(p) ==
  /\ Due(p) /\ Possible(p.ask)
  /\ records' = Effect(records, p.ask)
  /\ dnsPending' = dnsPending \ {p}
  /\ UNCHANGED <<dnsConfig, dnsTask, dnsSnap, dnsLeft, orphaned, contested, faults>>

\* The record to edit or delete is gone.
RequestFails(p) ==
  /\ Due(p) /\ ~Possible(p.ask)
  /\ DnsStop /\ UNCHANGED faults

DnsFinish ==
  /\ dnsTask # "idle" /\ dnsLeft = {} /\ dnsPending = {}
  /\ DnsStop /\ UNCHANGED faults

DnsFailing == \/ \E n \in DnsNames : NameRefused(n)
              \/ \E p \in dnsPending : RequestFails(p)

DnsStep == \/ \E n \in DnsNames : EnsureName(n)
           \/ \E p \in dnsPending : Request(p)

-----------------------------------------------------------------------------
(* The others                                                              *)

\* The other cluster takes a name that is free and writes its own record.
OtherClaims(n) ==
  /\ faults < MaxFaults /\ faults' = faults + 1
  /\ Tags(records, n) = {} /\ {r \in At(records, n) : r.kind # "TXT"} = {}
  /\ records' = records \union {[name |-> n, kind |-> k, val |-> Other] : k \in {"TXT", "A"}}
  /\ contested' = IF dnsTask = "idle" THEN contested ELSE contested \union {n}
  /\ UNCHANGED <<dnsConfig, dnsRun, orphaned>>

\* Somebody adds a text, a mail server or the address of a machine.  A second
\* TXT hides the tag from hetzner, which looks at the first.
HandAdds(n, k) ==
  /\ faults < MaxFaults /\ faults' = faults + 1
  /\ dnsTask = "idle"
  /\ records' = records \union {[name |-> n, kind |-> k, val |-> Hand]}
  /\ contested' = IF dnsProvider = "hetzner" /\ k = "TXT" THEN contested \union {n} ELSE contested
  /\ UNCHANGED <<dnsConfig, dnsRun, orphaned>>

\* Somebody deletes a record, that of the cluster itself or of the other.
HandDeletes(r) ==
  /\ faults < MaxFaults /\ faults' = faults + 1
  /\ r \in records
  /\ records' = records \ {r}
  /\ orphaned' = IF r = Tag(r.name) THEN orphaned \union {r.name} ELSE orphaned
  /\ UNCHANGED <<dnsConfig, dnsRun, contested>>

DnsEnv == \/ \E n \in DnsNames : OtherClaims(n) \/ \E k \in {"TXT", "MX", "A"} : HandAdds(n, k)
          \/ \E r \in records : HandDeletes(r)
=============================================================================
