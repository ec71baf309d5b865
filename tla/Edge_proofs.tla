----------------------------- MODULE Edge_proofs -----------------------------
(***************************************************************************)
(* Proofs about the edge of a cluster: its records in a shared zone and    *)
(* its pull zone stay what the code takes them for, and what is not the    *)
(* cluster's is left alone, for any names, configs, rules and lists.       *)
(***************************************************************************)
EXTENDS Edge, FiniteSetTheorems, TLAPS

-----------------------------------------------------------------------------
(* The inductive invariant: the pull zone and its Shield                   *)

AfterRecords == {"describe", "rzone", "rbot", "rrules", "rlists", "deletezone", "forget", "removed"}
BeforeRecords == {"obtain", "created", "update", "hosts"}
Converging == {"certs", "zone", "bot", "rules", "lists", "record"}
CdnPcs == {"idle", "dns", "dnsrun", "rdns", "rdnsrun"} \union AfterRecords
          \union BeforeRecords \union Converging

ConfigOK ==
  \E c \in EdgeConfigs : dnsProvider = c.provider /\ dnsWanted = c.dns /\ cdnWanted = c.cdn

CdnTypes ==
  /\ pullZone \in PullZones \union {Absent} /\ shield \in Shields \union {Absent}
  /\ cdnFile \in Files /\ cdnMem \in Files
  /\ cdnPc \in CdnPcs
  /\ shield # Absent => ZoneExists
  /\ ZoneExists => pullZone.ssl \subseteq pullZone.certs /\ pullZone.certs \subseteq pullZone.hosts

\* The records are worked on, with a pull zone that they are to point at.
Pointing == cdnPc \in {"dns", "dnsrun"} /\ cdnWanted # Absent

\* Where the process is, it has a CDN to work on, the pull zone it changes is
\* the one it knows, and what it found done is still so.
CdnFlow ==
  /\ cdnPc \notin {"idle", "dns", "dnsrun", "rdns", "rdnsrun"} => cdnWanted # Absent
  /\ cdnPc = "created" => ZoneExists
  /\ \/ cdnPc \in {"update", "hosts", "rzone", "rbot", "rrules", "rlists"} \union Converging
     \/ Pointing
     => ZoneIs(cdnMem.zone)
  /\ cdnPc = "certs" \/ Pointing => pullZone.hosts = cdnWanted.hosts
  /\ cdnPc \in {"bot", "rules", "lists", "rbot", "rrules", "rlists"} => shield # Absent
  /\ cdnPc \in {"rdns", "rdnsrun", "describe"} /\ cdnWanted # Absent => cdnMem = cdnFile
  /\ cdnPc = "removed" => cdnFile.zone = Absent

CdnInv == CdnTypes /\ CdnFlow

-----------------------------------------------------------------------------
(* The inductive invariant: the records                                    *)

Asks == [op : {"create", "put", "edit", "delete"}, old : Records, new : Records]

DnsTypes ==
  /\ records \subseteq Records /\ dnsSnap \subseteq Records
  /\ dnsTask \in {"idle", "ensure", "remove"}
  /\ dnsLeft \subseteq DnsDesired
  /\ dnsPending \subseteq [step : 1..3, ask : Asks]
  /\ orphaned \subseteq DnsNames /\ contested \subseteq DnsNames

TaskPc ==
  /\ dnsTask = "ensure" <=> cdnPc = "dnsrun"
  /\ dnsTask = "remove" <=> cdnPc = "rdnsrun"
  /\ dnsTask = "idle" => dnsSnap = {} /\ dnsPending = {}
  /\ dnsTask # "ensure" => dnsLeft = {}

OwnKinds == IF dnsProvider = "godaddy" THEN {"A", "CNAME"} ELSE WireKinds
Written(r) == r = Tag(r.name) \/ (r.val \in Targets /\ r.kind \in OwnKinds)

\* Nobody but the CLI writes in the cluster's name, the other cluster writes
\* tags and addresses, and a text that may hide a tag is known to.
Authors(zone) ==
  \A r \in zone : /\ Mine(r) => Written(r)
                  /\ r.val = Other => r.kind \in {"TXT", "A"}
                  /\ dnsProvider = "hetzner" /\ r.kind = "TXT" /\ r.val = Hand => r.name \in contested

\* A name with our tag holds nothing of the other cluster.
Exclusive(zone) ==
  \A r \in zone : r.val = Other /\ Tag(r.name) \in zone => r.name \in contested

\* What appears during a run is ours, or makes the name contested; and no
\* `apply' takes a tag away.
Snapshot ==
  dnsTask # "idle" =>
    /\ \A r \in records : r.val = Other => r \in dnsSnap \/ r.name \in contested
    /\ \A r \in records : r.val = Hand => r \in dnsSnap
    /\ \A n \in DnsNames : dnsTask = "ensure" /\ Tag(n) \in dnsSnap =>
                             Tag(n) \in records \/ n \in orphaned

\* The request is still to be made that takes the record away.
Awaited(r) ==
  \E p \in dnsPending : /\ p.step = 1 /\ p.ask.op = "delete" /\ SameSet(r, p.ask.old)
                        /\ dnsProvider # "hetzner" => p.ask.old = r

\* A record of ours has its tag beside it, unless somebody took that away.
Recognised(n) == Tag(n) \in records \/ n \in orphaned \union contested
Tagged ==
  /\ dnsTask # "remove" => \A r \in records : Mine(r) => Recognised(r.name)
  /\ dnsTask = "remove" =>
       \A r \in records :
         Mine(r) /\ r.name \notin contested /\ (Tag(r.name) \in records \/ r.name \notin orphaned)
         => Awaited(r)
  /\ cdnPc \in AfterRecords => Leftover = {}

\* The name was found free of the other cluster, and what is changed or taken
\* away there was found under our tag.
Claimed(q) ==
  LET n == q.new.name IN
  /\ q.old.name = n
  /\ n \notin contested => \A r \in dnsSnap : r.name = n => r.val # Other
  /\ q.op \in {"edit", "delete"} => Tag(n) \in dnsSnap
  /\ q.op = "put" => /\ dnsProvider = "hetzner"
                     /\ n \in DnsDesired
                     /\ \/ q.new.kind = "TXT" \/ Tag(n) \in dnsSnap
                        \/ Occupying(dnsSnap, n) = {}
  /\ q.op \in {"edit", "delete"} /\ dnsProvider \in {"bunny", "godaddy"} =>
       q.old.kind \in WireKinds \/ q.old = Tag(n)
  /\ q.op # "delete" => Written(q.new) /\ (q.new.val = "cdn" => cdnWanted # Absent)

\* The tag of a name is written before its record.
TagPending(n) == \E o \in dnsPending : o.step = 1 /\ o.ask.op # "delete" /\ o.ask.new = Tag(n)
Ordered(p) ==
  LET q == p.ask
      n == q.new.name IN
  /\ dnsTask = "remove" => q.op = "delete"
  /\ dnsTask = "ensure" =>
       /\ q.op \in {"edit", "delete"} => q.old.kind # "TXT"
       /\ q.op # "delete" /\ q.new # Tag(n) => p.step = 3 /\ (Recognised(n) \/ TagPending(n))

Asked == \A p \in dnsPending : Claimed(p.ask) /\ Ordered(p)

DnsInv == /\ DnsTypes /\ TaskPc
          /\ Authors(records) /\ Authors(dnsSnap)
          /\ Exclusive(records) /\ Exclusive(dnsSnap)
          /\ Snapshot /\ Tagged /\ Asked

EdgeInv == /\ ConfigOK /\ faults \in 0..MaxFaults /\ edits \in 0..MaxEdits
           /\ CdnInv /\ DnsInv

-----------------------------------------------------------------------------
(* The constants                                                           *)

\* What the config asks of the pull zone and of the Shield is a pull zone, and
\* a policy, that bunny may hold.
LEMMA ConfigTypes ==
  ASSUME ConfigOK
  PROVE  /\ dnsProvider \in {"ovh", "hetzner", "bunny", "godaddy"}
         /\ dnsWanted \in [DnsNames -> Targets \union {Unasked}]
         /\ \A n \in DnsNames : dnsWanted[n] = "cdn" => cdnWanted # Absent
         /\ cdnWanted # Absent => /\ cdnWanted.setting \in Settings
                                  /\ cdnWanted.hosts \subseteq Hostnames
                                  /\ cdnWanted.shield # Absent => cdnWanted.shield \in Policies
<1>1. PICK c \in EdgeConfigs :
        dnsProvider = c.provider /\ dnsWanted = c.dns /\ cdnWanted = c.cdn
  BY DEF ConfigOK
<1>2. cdnWanted \in CdnConfigs
  BY <1>1, EdgeAssumption
<1>3. cdnWanted # Absent => /\ cdnWanted.setting \in Settings
                            /\ cdnWanted.shield # Absent => cdnWanted.shield \in Policies
  BY <1>2 DEF Settings, Policies
<1> QED
  BY <1>1, <1>2, <1>3, EdgeAssumption, CdnAssumption

LEMMA PolicyTypes ==
  ASSUME ConfigOK, cdnWanted # Absent
  PROVE  /\ Policy \in Policies /\ Policy.plan \in Plans
         /\ Policy.rules \in [RuleNames -> RuleConfigs]
         /\ Policy.lists \in [ListNames -> ListTypes]
<1>1. Policy \in Policies
  BY ConfigTypes DEF Policy, Policies
<1> QED
  BY <1>1, CdnAssumption DEF Plans

-----------------------------------------------------------------------------
(* There is always an id that nobody uses.                                 *)

LEMMA AtMostSum ==
  ASSUME NEW S, NEW T, NEW j \in Nat, NEW k \in Nat,
         IsFiniteSet(S), Cardinality(S) <= j, IsFiniteSet(T), Cardinality(T) <= k
  PROVE  IsFiniteSet(S \union T) /\ Cardinality(S \union T) <= j + k
<1>1. /\ IsFiniteSet(S \union T) /\ IsFiniteSet(S \intersect T)
      /\ Cardinality(S \union T) = Cardinality(S) + Cardinality(T) - Cardinality(S \intersect T)
  BY FS_Union, FS_Intersection
<1>2. Cardinality(S) \in Nat /\ Cardinality(T) \in Nat /\ Cardinality(S \intersect T) \in Nat
  BY <1>1, FS_CardinalityType
<1> QED
  BY <1>1, <1>2

\* The values of a function are no more than its arguments.
LEMMA AtMostDomain ==
  ASSUME NEW D, IsFiniteSet(D), NEW f, NEW V,
         \A v \in V : \E d \in D : v = f[d]
  PROVE  IsFiniteSet(V) /\ Cardinality(V) <= Cardinality(D)
<1> DEFINE g == [d \in D |-> f[d]]
           T == {f[d] : d \in D}
<1>1. g \in Surjection(D, T)
  BY DEF Surjection
<1>2. IsFiniteSet(T) /\ Cardinality(T) <= Cardinality(D)
  BY <1>1, FS_Surjection
<1>3. V \subseteq T
  OBVIOUS
<1>4. IsFiniteSet(V) /\ Cardinality(V) <= Cardinality(T)
  BY <1>2, <1>3, FS_Subset
<1>5. Cardinality(V) \in Nat /\ Cardinality(T) \in Nat /\ Cardinality(D) \in Nat
  BY <1>2, <1>4, FS_CardinalityType
<1> QED
  BY <1>2, <1>4, <1>5

LEMMA AtMostOne ==
  ASSUME NEW S, NEW x, S \subseteq {x}
  PROVE  IsFiniteSet(S) /\ Cardinality(S) <= 1
<1>1. IsFiniteSet({x}) /\ Cardinality({x}) = 1
  BY FS_Singleton
<1>2. IsFiniteSet(S) /\ Cardinality(S) <= Cardinality({x})
  BY <1>1, FS_Subset
<1> QED
  BY <1>1, <1>2

\* Ids of rules and of lists, and one more
LEMMA AtMostEach ==
  ASSUME NEW S, NEW x, NEW R, NEW L,
         IsFiniteSet(R), Cardinality(R) <= Cardinality(RuleNames),
         IsFiniteSet(L), Cardinality(L) <= Cardinality(ListNames),
         S \subseteq {x} \union (R \union L)
  PROVE  /\ IsFiniteSet(S)
         /\ Cardinality(S) <= 1 + Cardinality(RuleNames) + Cardinality(ListNames)
<1> DEFINE T == {x} \union (R \union L)
<1>1. Cardinality(RuleNames) \in Nat /\ Cardinality(ListNames) \in Nat
  BY CdnAssumption, FS_CardinalityType
<1>2. /\ IsFiniteSet(R \union L)
      /\ Cardinality(R \union L) <= Cardinality(RuleNames) + Cardinality(ListNames)
  BY <1>1, AtMostSum
<1>3. IsFiniteSet({x}) /\ Cardinality({x}) <= 1
  BY AtMostOne
<1>4. Cardinality(RuleNames) + Cardinality(ListNames) \in Nat
  BY <1>1
<1>5. /\ IsFiniteSet(T)
      /\ Cardinality(T) <= 1 + (Cardinality(RuleNames) + Cardinality(ListNames))
  BY <1>2, <1>3, <1>4, AtMostSum
<1> HIDE DEF T
<1>6. IsFiniteSet(S) /\ Cardinality(S) <= Cardinality(T)
  BY <1>5, FS_Subset DEF T
<1>7. Cardinality(S) \in Nat /\ Cardinality(T) \in Nat
  BY <1>5, <1>6, FS_CardinalityType
<1> QED
  BY <1>1, <1>5, <1>6, <1>7

\* bunny has an id left for what is made next.
LEMMA FreshIsFree == Fresh \in Ids /\ Fresh \notin UsedIds
<1> DEFINE K == 1 + Cardinality(RuleNames) + Cardinality(ListNames)
           Z == (IF ZoneExists THEN {pullZone.id} ELSE {}) \union ShieldIds
           F == FileIds(cdnFile)
           M == FileIds(cdnMem)
<1>1. K \in Nat /\ MaxIds \in Nat /\ MaxIds > 3 * K
  BY CdnAssumption, FS_CardinalityType
<1>2. IsFiniteSet(Z) /\ Cardinality(Z) <= K
  <2> DEFINE ruleId == [n \in RuleNames |-> shield.rules[n].id]
             listId == [n \in ListNames |-> shield.lists[n].id]
             R == {ruleId[n] : n \in RuleNames}
             L == {listId[n] : n \in ListNames}
  <2>1. IsFiniteSet(R) /\ Cardinality(R) <= Cardinality(RuleNames)
    BY AtMostDomain, CdnAssumption
  <2>2. IsFiniteSet(L) /\ Cardinality(L) <= Cardinality(ListNames)
    BY AtMostDomain, CdnAssumption
  <2>3. Z \subseteq {pullZone.id} \union (R \union L)
    BY DEF ShieldIds
  <2> HIDE DEF R, L, Z
  <2> QED
    BY <2>1, <2>2, <2>3, AtMostEach
<1>3. IsFiniteSet(F) /\ Cardinality(F) <= K
  <2> DEFINE R == {cdnFile.rules[n] : n \in RuleNames}
             L == {cdnFile.lists[n] : n \in ListNames}
  <2>1. IsFiniteSet(R) /\ Cardinality(R) <= Cardinality(RuleNames)
    BY AtMostDomain, CdnAssumption
  <2>2. IsFiniteSet(L) /\ Cardinality(L) <= Cardinality(ListNames)
    BY AtMostDomain, CdnAssumption
  <2>3. F \subseteq {cdnFile.zone} \union (R \union L)
    BY DEF FileIds
  <2> HIDE DEF R, L, F
  <2> QED
    BY <2>1, <2>2, <2>3, AtMostEach
<1>4. IsFiniteSet(M) /\ Cardinality(M) <= K
  <2> DEFINE R == {cdnMem.rules[n] : n \in RuleNames}
             L == {cdnMem.lists[n] : n \in ListNames}
  <2>1. IsFiniteSet(R) /\ Cardinality(R) <= Cardinality(RuleNames)
    BY AtMostDomain, CdnAssumption
  <2>2. IsFiniteSet(L) /\ Cardinality(L) <= Cardinality(ListNames)
    BY AtMostDomain, CdnAssumption
  <2>3. M \subseteq {cdnMem.zone} \union (R \union L)
    BY DEF FileIds
  <2> HIDE DEF R, L, M
  <2> QED
    BY <2>1, <2>2, <2>3, AtMostEach
<1>5. UsedIds = (Z \union F) \union M
  BY DEF UsedIds
<1> HIDE DEF K, Z, F, M
<1>6. IsFiniteSet(Z \union F) /\ Cardinality(Z \union F) <= K + K
  BY <1>1, <1>2, <1>3, AtMostSum
<1>7. IsFiniteSet(UsedIds) /\ Cardinality(UsedIds) <= (K + K) + K
  <2>1. K + K \in Nat
    BY <1>1
  <2> QED
    BY <1>1, <1>4, <1>5, <1>6, <2>1, AtMostSum
<1>8. IsFiniteSet(Ids) /\ Cardinality(Ids) = MaxIds
  BY <1>1, FS_Interval DEF Ids
<1>9. \E id \in Ids : id \notin UsedIds
  <2> SUFFICES ASSUME Ids \subseteq UsedIds PROVE FALSE
    OBVIOUS
  <2>1. Cardinality(Ids) <= Cardinality(UsedIds)
    BY <1>7, FS_Subset
  <2>2. Cardinality(UsedIds) \in Nat
    BY <1>7, FS_CardinalityType
  <2> QED
    BY <1>1, <1>7, <1>8, <2>1, <2>2
<1> QED
  BY <1>9 DEF Fresh

-----------------------------------------------------------------------------
(* Every step keeps what is known of the pull zone.                        *)

LEMMA ShieldPcs ==
  /\ ShieldPc("zone") <=> cdnPc \in {"zone", "rzone"}
  /\ ShieldPc("bot") <=> cdnPc \in {"bot", "rbot"}
  /\ ShieldPc("rules") <=> cdnPc \in {"rules", "rrules"}
  /\ ShieldPc("lists") <=> cdnPc \in {"lists", "rlists"}
  /\ ShieldPc("zone") /\ ShieldGoTo("bot") =>
       cdnPc' = (IF cdnPc = "zone" THEN "bot" ELSE "rbot") /\ UNCHANGED <<cdnWanted, cdnFile, cdnMem>>
  /\ ShieldPc("bot") /\ ShieldGoTo("rules") =>
       cdnPc' = (IF cdnPc = "bot" THEN "rules" ELSE "rrules") /\ UNCHANGED <<cdnWanted, cdnFile, cdnMem>>
  /\ ShieldPc("rules") /\ ShieldGoTo("lists") =>
       cdnPc' = (IF cdnPc = "rules" THEN "lists" ELSE "rlists") /\ UNCHANGED <<cdnWanted, cdnFile, cdnMem>>
BY DEF ShieldPc, ShieldGoTo, Deleting, CdnGoTo

\* The process ends, or it has not started.
LEMMA IdleKeepsCdn ==
  ASSUME CdnInv, CdnStop
  PROVE  CdnInv'
BY DEF CdnInv, CdnTypes, CdnFlow, CdnStop, NoFile, NoRules, NoLists, Files, CdnPcs, Pointing,
       Converging, AfterRecords, ZoneExists

\* What bunny tells of the pull zone
LEMMA ZoneTypes ==
  ASSUME CdnInv, ZoneExists
  PROVE  /\ pullZone.id \in Ids /\ pullZone.setting \in Settings
         /\ pullZone.hosts \subseteq Hostnames
         /\ pullZone.certs \subseteq pullZone.hosts /\ pullZone.ssl \subseteq pullZone.certs
         /\ pullZone \in PullZones
BY DEF CdnInv, CdnTypes, ZoneExists, PullZones

LEMMA NoIdIsAbsent == \A id \in Ids : id # Absent
BY CdnAssumption

\* obtainZone and the edge: settings, hostnames, certificates
LEMMA ZoneStepKeepsCdn ==
  ASSUME ConfigOK, CdnInv,
         \/ GetZone \/ CreateZone \/ Persist \/ UpdateZone \/ PersistEdge
         \/ \E h \in Hostnames : AddHostname(h) \/ RemoveHostname(h)
         \/ \E h \in Hostnames, issued \in BOOLEAN : Certificate(h, issued)
         \/ AfterCertificates
  PROVE  CdnInv'
<1> USE DEF CdnInv, CdnTypes, CdnFlow, CdnPcs, AfterRecords, BeforeRecords, Converging, Pointing,
            ZoneExists, ZoneIs
<1>1. CASE GetZone
  BY <1>1 DEF GetZone, CdnGoTo, cdnRemote
<1>2. CASE CreateZone
  <2>1. /\ Fresh \in Ids /\ cdnWanted.setting \in Settings
    BY <1>2, FreshIsFree, ConfigTypes DEF CreateZone
  <2>2. pullZone' \in PullZones /\ pullZone' # Absent
    BY <1>2, <2>1, CdnAssumption DEF CreateZone, PullZones
  <2> QED
    BY <1>2, <2>2 DEF CreateZone, CdnGoTo
<1>3. CASE Persist
  <2>1. pullZone.id \in Ids
    BY <1>3, ZoneTypes DEF Persist
  <2>2. cdnMem' \in Files /\ cdnMem'.zone = pullZone.id
    BY <1>3, <2>1 DEF Persist, Files
  <2> QED
    BY <1>3, <2>2 DEF Persist
<1>4. CASE UpdateZone
  <2>1. cdnWanted.setting \in Settings /\ ZoneExists
    BY <1>4, ConfigTypes DEF UpdateZone
  <2>2. /\ pullZone' \in PullZones /\ pullZone' # Absent
        /\ pullZone'.id = pullZone.id /\ pullZone'.hosts = pullZone.hosts
        /\ pullZone'.certs = pullZone.certs /\ pullZone'.ssl = pullZone.ssl
    BY <1>4, <2>1, ZoneTypes, CdnAssumption DEF UpdateZone, PullZones
  <2> QED
    BY <1>4, <2>2 DEF UpdateZone, CdnGoTo
<1>5. CASE PersistEdge
  BY <1>5 DEF PersistEdge
<1>6. ASSUME NEW h \in Hostnames, AddHostname(h) PROVE CdnInv'
  <2>1. ZoneExists
    BY <1>6 DEF AddHostname
  <2>2. /\ pullZone' \in PullZones /\ pullZone' # Absent
        /\ pullZone'.id = pullZone.id /\ pullZone'.hosts = pullZone.hosts \union {h}
        /\ pullZone'.certs = pullZone.certs /\ pullZone'.ssl = pullZone.ssl
    BY <1>6, <2>1, ZoneTypes, CdnAssumption DEF AddHostname, PullZones
  <2> QED
    BY <1>6, <2>2 DEF AddHostname
<1>7. ASSUME NEW h \in Hostnames, RemoveHostname(h) PROVE CdnInv'
  <2>1. ZoneExists
    BY <1>7 DEF RemoveHostname
  <2> DEFINE hosts == pullZone.hosts \ {h}
             certs == pullZone.certs \ {h}
             ssl == pullZone.ssl \ {h}
  <2>2. hosts \subseteq Hostnames /\ certs \subseteq hosts /\ ssl \subseteq certs
    BY <2>1, ZoneTypes
  <2>3. pullZone' = [pullZone EXCEPT !.hosts = hosts, !.certs = certs, !.ssl = ssl]
    BY <1>7 DEF RemoveHostname
  <2> HIDE DEF hosts, certs, ssl
  <2>4. /\ pullZone' \in PullZones /\ pullZone' # Absent /\ pullZone'.id = pullZone.id
        /\ pullZone'.hosts = hosts /\ pullZone'.certs = certs /\ pullZone'.ssl = ssl
    BY <2>1, <2>2, <2>3, ZoneTypes, CdnAssumption DEF PullZones
  <2> QED
    BY <1>7, <2>2, <2>4 DEF RemoveHostname
<1>8. ASSUME NEW h \in Hostnames, NEW issued \in BOOLEAN, Certificate(h, issued) PROVE CdnInv'
  <2> DEFINE certs == IF issued THEN pullZone.certs \union {h} ELSE pullZone.certs
             ssl == IF ~cdnWanted.ssl THEN pullZone.ssl \ {h}
                    ELSE IF h \in certs THEN pullZone.ssl \union {h} ELSE pullZone.ssl
  <2>1. ZoneExists /\ h \in pullZone.hosts
    BY <1>8 DEF Certificate
  <2>2. certs \subseteq pullZone.hosts /\ ssl \subseteq certs
    BY <2>1, ZoneTypes
  <2>3. pullZone' = [pullZone EXCEPT !.certs = certs, !.ssl = ssl]
    BY <1>8 DEF Certificate
  <2> HIDE DEF certs, ssl
  <2>4. /\ pullZone' \in PullZones /\ pullZone' # Absent
        /\ pullZone'.id = pullZone.id /\ pullZone'.hosts = pullZone.hosts
        /\ pullZone'.certs = certs /\ pullZone'.ssl = ssl
    BY <2>1, <2>2, <2>3, ZoneTypes, CdnAssumption DEF PullZones
  <2> QED
    BY <1>8, <2>2, <2>4 DEF Certificate
<1>9. CASE AfterCertificates
  BY <1>9 DEF AfterCertificates, CdnGoTo, cdnRemote
<1> QED
  BY <1>1, <1>2, <1>3, <1>4, <1>5, <1>6, <1>7, <1>8, <1>9

\* ensureSecurity changes the Shield alone: where its rules and lists stay what
\* bunny may hold, the pull zone is none the worse.
LEMMA ShieldTypes ==
  ASSUME CdnInv, shield # Absent
  PROVE  /\ shield \in Shields /\ shield.plan \in Plans
         /\ shield.rules \in [RuleNames -> Rules \union {Absent}]
         /\ shield.lists \in [ListNames -> Lists \union {Absent}]
BY DEF CdnInv, CdnTypes, Shields

LEMMA RuleStepTypes ==
  ASSUME CdnInv, shield # Absent, NEW n \in RuleNames, NEW rule \in Rules \union {Absent},
         shield' = [shield EXCEPT !.rules[n] = rule]
  PROVE  shield' \in Shields /\ shield' # Absent
<1>1. [shield.rules EXCEPT ![n] = rule] \in [RuleNames -> Rules \union {Absent}]
  BY ShieldTypes
<1>2. shield' = [shield EXCEPT !.rules = [shield.rules EXCEPT ![n] = rule]]
  BY ShieldTypes DEF Shields
<1> QED
  BY <1>1, <1>2, ShieldTypes, CdnAssumption DEF Shields

LEMMA ListStepTypes ==
  ASSUME CdnInv, shield # Absent, NEW n \in ListNames, NEW list \in Lists \union {Absent},
         shield' = [shield EXCEPT !.lists[n] = list]
  PROVE  shield' \in Shields /\ shield' # Absent
<1>1. [shield.lists EXCEPT ![n] = list] \in [ListNames -> Lists \union {Absent}]
  BY ShieldTypes
<1>2. shield' = [shield EXCEPT !.lists = [shield.lists EXCEPT ![n] = list]]
  BY ShieldTypes DEF Shields
<1> QED
  BY <1>1, <1>2, ShieldTypes, CdnAssumption DEF Shields

\* The Shield stays a Shield, and what is known of its pull zone stays so.
LEMMA ShieldStepKeepsCdn ==
  ASSUME ConfigOK, CdnInv,
         \/ CreateShieldZone \/ PatchShieldZone \/ ConvergeBot
         \/ \E n \in RuleNames : DeleteRule(n) \/ CreateRule(n) \/ UpdateRule(n)
         \/ \E n \in ListNames : DeleteList(n) \/ CreateList(n)
         \/ RulesDone \/ ListsDone
  PROVE  CdnInv'
<1> DEFINE Pcs == {"zone", "rzone", "bot", "rbot", "rules", "rrules", "lists", "rlists"}
<1>1. \/ CreateShieldZone \/ PatchShieldZone \/ ConvergeBot
      \/ \E n \in RuleNames : DeleteRule(n) \/ CreateRule(n) \/ UpdateRule(n)
      \/ RulesDone \/ ListsDone
      \/ \E n \in ListNames : DeleteList(n) \/ CreateList(n)
      => cdnPc \in Pcs
  BY ShieldPcs
     DEF CreateShieldZone, PatchShieldZone, ConvergeBot, DeleteRule, CreateRule, UpdateRule,
         DeleteList, CreateList, RulesDone, ListsDone
<1>2. cdnPc \in Pcs
  BY <1>1
<1>3. cdnWanted # Absent /\ ZoneIs(cdnMem.zone) /\ (cdnPc \notin {"zone", "rzone"} => shield # Absent)
  BY <1>2 DEF CdnInv, CdnFlow, Converging
<1>4. /\ Policy.plan \in Plans /\ Policy.rules \in [RuleNames -> RuleConfigs]
      /\ Policy.lists \in [ListNames -> ListTypes]
  BY <1>3, PolicyTypes
<1>5. Fresh \in Ids
  BY FreshIsFree
<1> HIDE DEF Pcs
<1> USE DEF CdnInv, CdnTypes, CdnFlow, CdnPcs, AfterRecords, BeforeRecords, Converging, Pointing,
            ZoneExists, ZoneIs
<1>6. CASE CreateShieldZone
  <2>1. NoRules \in [RuleNames -> Rules \union {Absent}] /\ NoLists \in [ListNames -> Lists \union {Absent}]
    BY DEF NoRules, NoLists
  <2>2. shield' \in Shields /\ shield' # Absent
    BY <1>4, <1>6, <2>1, CdnAssumption DEF CreateShieldZone, Shields
  <2> QED
    BY <1>3, <1>6, <2>2, ShieldPcs DEF CreateShieldZone
<1>7. CASE PatchShieldZone
  <2>1. shield' \in Shields /\ shield' # Absent
    BY <1>4, <1>7, ShieldTypes, CdnAssumption DEF PatchShieldZone, Shields
  <2> QED
    BY <1>3, <1>7, <2>1, ShieldPcs DEF PatchShieldZone
<1>8. CASE ConvergeBot
  <2>1. shield # Absent
    BY <1>8, ShieldPcs DEF ConvergeBot
  <2>2. shield' \in Shields /\ shield' # Absent
    BY <1>4, <1>8, <2>1, ShieldTypes, CdnAssumption DEF ConvergeBot, Shields
  <2> QED
    BY <1>3, <1>8, <2>2, ShieldPcs DEF ConvergeBot
<1>9. ASSUME NEW n \in RuleNames, DeleteRule(n) PROVE CdnInv'
  <2>1. shield # Absent
    BY <1>9, ShieldPcs DEF DeleteRule
  <2>2. shield' \in Shields /\ shield' # Absent
    BY <1>9, <2>1, RuleStepTypes DEF DeleteRule
  <2> QED
    BY <1>3, <1>9, <2>2, ShieldPcs DEF DeleteRule
<1>10. ASSUME NEW n \in RuleNames, CreateRule(n) PROVE CdnInv'
  <2>1. shield # Absent
    BY <1>10, ShieldPcs DEF CreateRule
  <2> DEFINE rule == [id |-> Fresh, cfg |-> Policy.rules[n]]
  <2>2. rule \in Rules
    BY <1>4, <1>5 DEF Rules
  <2>3. shield' = [shield EXCEPT !.rules[n] = rule]
    BY <1>10 DEF CreateRule
  <2> HIDE DEF rule
  <2>4. shield' \in Shields /\ shield' # Absent
    BY <2>1, <2>2, <2>3, RuleStepTypes
  <2>5. cdnMem' \in Files /\ cdnMem'.zone = cdnMem.zone
    BY <1>5, <1>10 DEF CreateRule, Files
  <2> QED
    BY <1>3, <1>10, <2>4, <2>5, ShieldPcs DEF CreateRule
<1>11. ASSUME NEW n \in RuleNames, UpdateRule(n) PROVE CdnInv'
  <2>1. shield # Absent
    BY <1>11, ShieldPcs DEF UpdateRule
  <2>2. shield.rules[n] \in Rules
    BY <1>11, <2>1, ShieldTypes DEF UpdateRule, RuleIsOurs
  <2> DEFINE rule == [shield.rules[n] EXCEPT !.cfg = Policy.rules[n]]
  <2>3. rule \in Rules
    BY <1>4, <2>2 DEF Rules
  <2>4. shield' = [shield EXCEPT !.rules[n] = rule]
    BY <1>11 DEF UpdateRule
  <2> HIDE DEF rule
  <2>5. shield' \in Shields /\ shield' # Absent
    BY <2>1, <2>3, <2>4, RuleStepTypes
  <2> QED
    BY <1>3, <1>11, <2>5, ShieldPcs DEF UpdateRule
<1>12. ASSUME NEW n \in ListNames, DeleteList(n) PROVE CdnInv'
  <2>1. shield # Absent
    BY <1>12, ShieldPcs DEF DeleteList
  <2>2. shield' \in Shields /\ shield' # Absent
    BY <1>12, <2>1, ListStepTypes DEF DeleteList
  <2> QED
    BY <1>3, <1>12, <2>2, ShieldPcs DEF DeleteList
<1>13. ASSUME NEW n \in ListNames, CreateList(n) PROVE CdnInv'
  <2>1. shield # Absent
    BY <1>13, ShieldPcs DEF CreateList
  <2> DEFINE list == [id |-> Fresh, type |-> Policy.lists[n]]
  <2>2. list \in Lists
    BY <1>4, <1>5 DEF Lists
  <2>3. shield' = [shield EXCEPT !.lists[n] = list]
    BY <1>13 DEF CreateList
  <2> HIDE DEF list
  <2>4. shield' \in Shields /\ shield' # Absent
    BY <2>1, <2>2, <2>3, ListStepTypes
  <2>5. cdnMem' \in Files /\ cdnMem'.zone = cdnMem.zone
    BY <1>5, <1>13 DEF CreateList, Files
  <2> QED
    BY <1>3, <1>13, <2>4, <2>5, ShieldPcs DEF CreateList
<1>14. CASE RulesDone
  BY <1>3, <1>14, ShieldPcs DEF RulesDone, cdnRemote
<1>15. CASE ListsDone
  <2>1. cdnMem' \in Files /\ cdnMem'.zone = cdnMem.zone
    BY <1>15 DEF ListsDone, Files
  <2> QED
    BY <1>3, <1>15, <2>1, ShieldPcs DEF ListsDone
<1> QED
  BY <1>6, <1>7, <1>8, <1>9, <1>10, <1>11, <1>12, <1>13, <1>14, <1>15

LEMMA NothingIsAFile == NoFile \in Files /\ NoFile.zone = Absent
BY DEF NoFile, NoRules, NoLists, Files

\* The end of apply, and removeCdn
LEMMA RemoveStepKeepsCdn ==
  ASSUME ConfigOK, CdnInv, CdnRecord \/ DescribeEdge \/ DeleteZone \/ Forget
  PROVE  CdnInv'
<1> USE NothingIsAFile
    DEF CdnInv, CdnTypes, CdnFlow, CdnPcs, AfterRecords, BeforeRecords, Converging, Pointing,
        ZoneExists, ZoneIs
<1>1. CASE CdnRecord
  BY <1>1 DEF CdnRecord
<1>2. CASE DescribeEdge
  BY <1>2 DEF DescribeEdge, CdnGoTo, cdnRemote
<1>3. CASE DeleteZone
  BY <1>3 DEF DeleteZone, CdnGoTo, cdnRemote
<1>4. CASE Forget
  BY <1>4 DEF Forget
<1> QED
  BY <1>1, <1>2, <1>3, <1>4

LEMMA CdnStepKeepsCdn ==
  ASSUME ConfigOK, CdnInv, CdnStep
  PROVE  CdnInv'
BY ZoneStepKeepsCdn, ShieldStepKeepsCdn, RemoveStepKeepsCdn DEF CdnStep

LEMMA CdnEnvKeepsCdn ==
  ASSUME ConfigOK, CdnInv, CdnEnv
  PROVE  CdnInv'
<1> USE DEF CdnInv, CdnTypes, CdnFlow, CdnPcs, AfterRecords, BeforeRecords, Converging, Pointing,
            ZoneExists, ZoneIs
<1>1. CASE HandRemovesZone
  BY <1>1 DEF HandRemovesZone, CdnEnv
<1>2. CASE HandEdits
  <2>1. /\ pullZone' \in PullZones /\ pullZone' # Absent
        /\ pullZone'.id = pullZone.id /\ pullZone'.hosts = pullZone.hosts
        /\ pullZone'.certs = pullZone.certs /\ pullZone'.ssl = pullZone.ssl
    BY <1>2, ZoneTypes, CdnAssumption DEF HandEdits, PullZones, Settings
  <2> QED
    BY <1>2, <2>1 DEF HandEdits, CdnEnv
<1>3. ASSUME NEW n \in RuleNames, HandAddsRule(n) PROVE CdnInv'
  <2> DEFINE rule == [id |-> Fresh, cfg |-> "byhand"]
  <2>1. rule \in Rules
    BY FreshIsFree DEF Rules, RuleConfigs
  <2>2. shield # Absent /\ shield' = [shield EXCEPT !.rules[n] = rule]
    BY <1>3 DEF HandAddsRule
  <2> HIDE DEF rule
  <2>3. shield' \in Shields /\ shield' # Absent
    BY <2>1, <2>2, RuleStepTypes
  <2> QED
    BY <1>3, <2>2, <2>3 DEF HandAddsRule, CdnEnv
<1> QED
  BY <1>1, <1>2, <1>3 DEF CdnEnv

\* Init allows nothing but a config of the operator's and an empty world.
LEMMA InitCdn == Init => ConfigOK /\ CdnInv
BY NothingIsAFile
   DEF Init, ConfigOK, CdnInit, CdnInv, CdnTypes, CdnFlow, CdnPcs, AfterRecords, BeforeRecords,
       Converging, Pointing, ZoneExists

LEMMA NextKeepsConfig ==
  ASSUME ConfigOK, [Next]_vars
  PROVE  ConfigOK'
<1>1. CASE EditConfig
  BY <1>1 DEF EditConfig, SetConfig, ConfigOK
<1>2. CASE ~EditConfig
  <2>1. CdnStep \/ CdnFailing => UNCHANGED cdnWanted
    BY DEF CdnStep, CdnFailing, GetZone, CreateZone, Persist, UpdateZone, PersistEdge, AddHostname,
           RemoveHostname, Certificate, AfterCertificates, CreateShieldZone, PatchShieldZone,
           ConvergeBot, DeleteRule, CreateRule, UpdateRule, DeleteList, CreateList, RulesDone,
           ListsDone, CdnRecord, DescribeEdge, DeleteZone, Forget, ObtainFails, PolicyFails, GateFails,
           RuleConflict, ListConflict, CdnStop, CdnGoTo, ShieldGoTo
  <2>2. DnsStep \/ DnsFailing \/ DnsEnv \/ DnsFinish => UNCHANGED dnsConfig
    BY DEF DnsStep, DnsFailing, DnsEnv, DnsFinish, EnsureName, Request, NameRefused, RequestFails,
           DnsStop, OtherClaims, HandAdds, HandDeletes, dnsConfig
  <2>3. UNCHANGED <<dnsConfig, cdnWanted>>
    BY <1>2, <2>1, <2>2
       DEF Next, Progress, Apply, DeleteAll, Interrupted, Others, StartDns, DnsDone, Removed, Failed,
           Working, DnsStart, DnsStop, CdnBegin, CdnGoTo, CdnStop, CdnEnv, vars, dnsVars, cdnVars
  <2> QED
    BY <2>3 DEF ConfigOK, dnsConfig
<1> QED
  BY <1>1, <1>2

LEMMA NextKeepsCdn ==
  ASSUME ConfigOK, CdnInv, [Next]_vars
  PROVE  CdnInv'
<1> USE DEF CdnInv, CdnTypes, CdnFlow, CdnPcs, AfterRecords, BeforeRecords, Converging, Pointing,
            ZoneExists, ZoneIs
<1>1. CASE StartDns
  BY <1>1 DEF StartDns, CdnGoTo, cdnRemote
<1>2. CASE DnsDone
  <2>1. CASE cdnWanted = Absent
    BY <1>2, <2>1, IdleKeepsCdn DEF DnsDone
  <2>2. CASE cdnWanted # Absent
    BY <1>2, <2>2 DEF DnsDone, CdnGoTo, cdnRemote
  <2> QED
    BY <2>1, <2>2
<1>3. CASE Removed \/ Failed \/ Interrupted
  BY <1>3, IdleKeepsCdn
     DEF Removed, Failed, Interrupted, CdnFailing, ObtainFails, PolicyFails, GateFails, RuleConflict, ListConflict
<1>4. CASE Working
  BY <1>4, CdnStepKeepsCdn DEF Working, cdnVars
<1>5. CASE Apply
  BY <1>5, NothingIsAFile DEF Apply, Idle, CdnBegin
<1>6. CASE DeleteAll
  BY <1>6, NothingIsAFile DEF DeleteAll, Idle, CdnBegin
<1>7. CASE EditConfig
  BY <1>7 DEF EditConfig, Idle, cdnRemote
<1>8. CASE Others
  BY <1>8, CdnEnvKeepsCdn DEF Others, cdnVars
<1>9. CASE UNCHANGED vars
  BY <1>9 DEF vars, cdnVars
<1> QED
  BY <1>1, <1>2, <1>3, <1>4, <1>5, <1>6, <1>7, <1>8, <1>9 DEF Next, Progress

-----------------------------------------------------------------------------
(* Records                                                                 *)

LEMMA Vals ==
  /\ Me # Other /\ Me # Hand /\ Other # Hand
  /\ Me \notin Targets /\ Other \notin Targets /\ Hand \notin Targets
  /\ Me # "cdn" /\ Other # "cdn" /\ Hand # "cdn"
BY DnsAssumption

LEMMA TagFacts ==
  ASSUME NEW n \in DnsNames
  PROVE  /\ Tag(n) \in Records /\ Mine(Tag(n)) /\ Written(Tag(n))
         /\ Tag(n).name = n /\ Tag(n).kind = "TXT" /\ Tag(n).val = Me
BY DEF Tag, Records, Mine, Written, Kinds

LEMMA OwnTag ==
  ASSUME NEW r \in Records, r.kind = "TXT", r.val = Me
  PROVE  r = Tag(r.name)
BY DEF Tag, Records

LEMMA RecordTypes ==
  ASSUME NEW r \in Records
  PROVE  /\ r.name \in DnsNames /\ r.kind \in Kinds
         /\ r.val \in {Me, Other, Hand} \union Targets
BY DEF Records

\* What the CLI writes is no text but its tag, and bears no other's name.
LEMMA WrittenFacts ==
  ASSUME NEW r \in Records, Written(r)
  PROVE  /\ Mine(r) /\ r.val # Other /\ r.val # Hand
         /\ r # Tag(r.name) => r.kind \in OwnKinds /\ r.kind # "TXT"
         /\ r.kind = "TXT" => r = Tag(r.name)
BY TagFacts, Vals, RecordTypes DEF Written, Mine, OwnKinds, WireKinds

LEMMA WantedFacts ==
  ASSUME ConfigOK, NEW n \in DnsDesired
  PROVE  /\ n \in DnsNames
         /\ Wanted(n) \in Records /\ Written(Wanted(n)) /\ Wanted(n) # Tag(n)
         /\ Wanted(n).name = n /\ Wanted(n).kind = KindOf(n)
         /\ KindOf(n) \in OwnKinds /\ KindOf(n) \in WireKinds
         /\ Wanted(n).val = "cdn" => cdnWanted # Absent
<1>1. n \in DnsNames /\ dnsWanted[n] \in Targets /\ (dnsWanted[n] = "cdn" => cdnWanted # Absent)
  BY ConfigTypes DEF DnsDesired
<1>2. KindOf(n) \in OwnKinds /\ KindOf(n) \in WireKinds
  BY DEF KindOf, OwnKinds, WireKinds
<1>3. Wanted(n) \in Records
  BY <1>1, <1>2 DEF Wanted, Records, Kinds
<1>4. Wanted(n).name = n /\ Wanted(n).kind = KindOf(n) /\ Wanted(n).val = dnsWanted[n]
  BY DEF Wanted
<1>5. Wanted(n) # Tag(n)
  BY <1>1, <1>4, Vals, TagFacts
<1> QED
  BY <1>1, <1>2, <1>3, <1>4, <1>5 DEF Written

-----------------------------------------------------------------------------
(* Steps that leave the zone alone                                         *)

\* What is known of the records holds as long as they, the run and the config
\* are what they were.
LEMMA QuietKeepsDns ==
  ASSUME DnsInv, UNCHANGED <<dnsVars, cdnWanted>>, TaskPc',
         cdnPc' \in AfterRecords => cdnPc \in AfterRecords
  PROVE  DnsInv'
<1>1. UNCHANGED <<dnsProvider, dnsWanted, records, dnsTask, dnsSnap, dnsLeft, dnsPending, orphaned, contested>>
  BY DEF dnsVars, dnsRun, dnsConfig
<1>2. (DnsTypes /\ Snapshot)'
  BY <1>1 DEF DnsInv, DnsTypes, Snapshot, DnsDesired
<1>3. (Authors(records) /\ Authors(dnsSnap) /\ Exclusive(records) /\ Exclusive(dnsSnap))'
  BY <1>1 DEF DnsInv, Authors, Exclusive, Mine, Written, OwnKinds
<1>4. Tagged'
  BY <1>1 DEF DnsInv, Tagged, Recognised, Leftover, Awaited, SameSet
<1>5. Asked'
  BY <1>1 DEF DnsInv, Asked, Claimed, Ordered, Recognised, TagPending, Written, OwnKinds, Occupying, At, DnsDesired
<1> QED
  BY <1>2, <1>3, <1>4, <1>5 DEF DnsInv

LEMMA CdnSteps ==
  ASSUME CdnInv, CdnStep
  PROVE  /\ cdnPc \notin {"idle", "dns", "dnsrun", "rdns", "rdnsrun"} /\ cdnPc' \notin {"dnsrun", "rdnsrun"}
         /\ cdnPc' \in AfterRecords => cdnPc \in AfterRecords
         /\ UNCHANGED cdnWanted
<1> USE DEF AfterRecords
<1>1. CASE \/ GetZone \/ CreateZone \/ Persist \/ UpdateZone \/ PersistEdge
           \/ \E h \in Hostnames : AddHostname(h) \/ RemoveHostname(h)
           \/ \E h \in Hostnames, issued \in BOOLEAN : Certificate(h, issued)
           \/ AfterCertificates
  BY <1>1 DEF GetZone, CreateZone, Persist, UpdateZone, PersistEdge, AddHostname, RemoveHostname,
              Certificate, AfterCertificates, CdnGoTo
<1>2. CASE CreateShieldZone \/ PatchShieldZone \/ ConvergeBot \/ RulesDone
  BY <1>2, ShieldPcs DEF CreateShieldZone, PatchShieldZone, ConvergeBot, RulesDone
<1>3. CASE \/ \E n \in RuleNames : DeleteRule(n) \/ CreateRule(n) \/ UpdateRule(n)
           \/ \E n \in ListNames : DeleteList(n) \/ CreateList(n)
  BY <1>3, ShieldPcs DEF DeleteRule, CreateRule, UpdateRule, DeleteList, CreateList
<1>4. CASE ListsDone
  BY <1>4, ShieldPcs DEF ListsDone, Deleting
<1>5. CASE CdnRecord \/ DescribeEdge \/ DeleteZone \/ Forget
  BY <1>5 DEF CdnRecord, DescribeEdge, DeleteZone, Forget, CdnGoTo
<1> QED
  BY <1>1, <1>2, <1>3, <1>4, <1>5 DEF CdnStep

LEMMA CdnStepKeepsDns ==
  ASSUME CdnInv, DnsInv, CdnStep, UNCHANGED dnsVars
  PROVE  DnsInv'
<1>1. TaskPc'
  BY CdnSteps DEF DnsInv, TaskPc, dnsVars, dnsRun, CdnInv, CdnTypes, DnsTypes
<1> QED
  BY <1>1, CdnSteps, QuietKeepsDns

\* The process starts, ends or is not there.
LEMMA PausesKeepDns ==
  ASSUME CdnInv, DnsInv, Apply \/ DeleteAll \/ Removed \/ (CdnFailing /\ UNCHANGED dnsVars)
  PROVE  DnsInv'
<1>1. /\ UNCHANGED <<dnsVars, cdnWanted>>
      /\ cdnPc \notin {"dnsrun", "rdnsrun"} /\ cdnPc' \notin {"dnsrun", "rdnsrun"} \union AfterRecords
  BY ShieldPcs
     DEF Apply, DeleteAll, Removed, CdnBegin, CdnFailing, CdnStop, ObtainFails, PolicyFails, GateFails, RuleConflict,
         ListConflict, Idle, AfterRecords
<1>2. TaskPc'
  BY <1>1 DEF DnsInv, TaskPc, dnsVars, dnsRun, DnsTypes
<1> QED
  BY <1>1, <1>2, QuietKeepsDns

\* Only the CLI's own words depend on the config, and no request waits.
LEMMA EditKeepsDns ==
  ASSUME DnsInv, EditConfig
  PROVE  DnsInv'
<1>1. /\ UNCHANGED <<dnsProvider, records, dnsTask, dnsSnap, dnsLeft, dnsPending, orphaned, contested, cdnPc>>
      /\ cdnPc = "idle"
  BY DEF EditConfig, SetConfig, Idle, dnsRun
<1>2. dnsTask = "idle" /\ dnsPending = {} /\ dnsLeft = {} /\ dnsSnap = {}
  BY <1>1 DEF DnsInv, DnsTypes, TaskPc
<1>3. (DnsTypes /\ TaskPc /\ Snapshot)'
  BY <1>1, <1>2 DEF DnsInv, DnsTypes, TaskPc, Snapshot
<1>4. (Authors(records) /\ Authors(dnsSnap) /\ Exclusive(records) /\ Exclusive(dnsSnap))'
  BY <1>1 DEF DnsInv, Authors, Exclusive, Mine, Written, OwnKinds
<1>5. Tagged'
  BY <1>1, <1>2 DEF DnsInv, Tagged, Recognised, AfterRecords
<1>6. Asked'
  BY <1>1, <1>2 DEF Asked
<1> QED
  BY <1>3, <1>4, <1>5, <1>6 DEF DnsInv

\* Wherever a run ends, a record of ours has its tag or is known to lack one;
\* and after `delete' has made all its requests nothing else is left.
LEMMA StopKeepsDns ==
  ASSUME CdnInv, DnsInv, DnsStop, UNCHANGED cdnWanted,
         cdnPc' \notin {"dnsrun", "rdnsrun"},
         cdnPc' \in AfterRecords => cdnPc = "rdnsrun" /\ dnsPending = {}
  PROVE  DnsInv'
<1>1. /\ UNCHANGED <<dnsProvider, dnsWanted, records, contested>>
      /\ dnsTask' = "idle" /\ dnsSnap' = {} /\ dnsLeft' = {} /\ dnsPending' = {}
      /\ orphaned' = {n \in IF dnsTask = "remove" THEN DnsNames ELSE orphaned :
                        Tag(n) \notin records /\ \E r \in At(records, n) : Mine(r)}
  BY DEF DnsStop, dnsConfig
<1>2. (DnsTypes /\ TaskPc /\ Snapshot /\ Asked)'
  BY <1>1 DEF DnsInv, DnsTypes, TaskPc, Snapshot, Asked, DnsDesired
<1>3. (Authors(records) /\ Authors(dnsSnap) /\ Exclusive(records) /\ Exclusive(dnsSnap))'
  BY <1>1 DEF DnsInv, Authors, Exclusive, Mine, Written, OwnKinds
<1>4. ASSUME NEW r \in records, Mine(r), Tag(r.name) \notin records, r.name \notin contested
      PROVE  r.name \in orphaned'
  <2>1. r.name \in DnsNames
    BY RecordTypes DEF DnsInv, DnsTypes
  <2>2. dnsTask # "remove" => r.name \in orphaned
    BY <1>4 DEF DnsInv, Tagged, Recognised
  <2>3. r \in At(records, r.name)
    BY DEF At
  <2> QED
    BY <1>1, <1>4, <2>1, <2>2, <2>3
<1>5. ASSUME cdnPc' \in AfterRecords, NEW r \in records, Mine(r), r.name \notin contested
      PROVE  r.name \in orphaned'
  <2>1. dnsTask = "remove" /\ dnsPending = {}
    BY <1>5 DEF DnsInv, TaskPc
  <2>2. Tag(r.name) \notin records
    BY <1>5, <2>1 DEF DnsInv, Tagged, Awaited
  <2> QED
    BY <1>4, <1>5, <2>2
<1>6. Tagged'
  BY <1>1, <1>4, <1>5 DEF Tagged, Recognised, Leftover, Mine
<1> QED
  BY <1>2, <1>3, <1>6 DEF DnsInv

LEMMA FailuresKeepDns ==
  ASSUME CdnInv, DnsInv, (DnsFailing /\ CdnStop) \/ Interrupted
  PROVE  DnsInv'
<1>1. DnsStop /\ CdnStop
  BY DEF DnsFailing, NameRefused, RequestFails, Interrupted
<1> QED
  BY <1>1, StopKeepsDns DEF CdnStop, AfterRecords

LEMMA DoneKeepsDns ==
  ASSUME CdnInv, DnsInv, DnsDone
  PROVE  DnsInv'
<1>1. DnsStop /\ dnsPending = {} /\ cdnPc \in {"dnsrun", "rdnsrun"} /\ UNCHANGED cdnWanted
  BY DEF DnsDone, DnsFinish, CdnStop, CdnGoTo
<1>2. cdnPc' \in {"idle", "certs"} \/ (cdnPc' = "describe" /\ cdnPc = "rdnsrun")
  BY DEF DnsDone, CdnStop, CdnGoTo
<1> QED
  BY <1>1, <1>2, StopKeepsDns DEF AfterRecords

-----------------------------------------------------------------------------
(* What others do                                                          *)

\* The other cluster takes a name that bears no tag, during a run or not.
LEMMA ClaimKeepsDns ==
  ASSUME CdnInv, DnsInv, NEW n \in DnsNames, OtherClaims(n), UNCHANGED cdnVars
  PROVE  DnsInv'
<1> DEFINE New == {[name |-> n, kind |-> k, val |-> Other] : k \in {"TXT", "A"}}
<1>1. /\ UNCHANGED <<dnsProvider, dnsWanted, dnsTask, dnsSnap, dnsLeft, dnsPending, orphaned>>
      /\ UNCHANGED <<cdnWanted, cdnPc>>
      /\ records' = records \union New
      /\ contested' = IF dnsTask = "idle" THEN contested ELSE contested \union {n}
      /\ Tags(records, n) = {}
  BY DEF OtherClaims, dnsConfig, dnsRun, cdnVars
<1>2. \A r \in New : r \in Records /\ r.name = n /\ r.val = Other /\ r.kind \in {"TXT", "A"}
  BY DEF Records, Kinds, WireKinds
<1>3. \A r \in New : ~Mine(r) /\ r.val # Hand /\ r.val # Me
  BY <1>2, Vals DEF Mine
<1>4. Tag(n) \notin records
  BY <1>1, TagFacts DEF Tags, Txts, At
<1>5. \A m \in DnsNames : Tag(m) \in records' => Tag(m) \in records
  BY <1>1, <1>3, TagFacts
<1> HIDE DEF New
<1>6. (DnsTypes /\ TaskPc)'
  BY <1>1, <1>2 DEF DnsInv, DnsTypes, TaskPc, DnsDesired
<1>7. (Authors(records) /\ Authors(dnsSnap))'
  BY <1>1, <1>2, <1>3, Vals DEF DnsInv, Authors, Mine, Written, OwnKinds
<1>8. (Exclusive(records) /\ Exclusive(dnsSnap))'
  <2>1. ASSUME NEW r \in records', r.val = Other, Tag(r.name) \in records' PROVE r.name \in contested'
    <3>1. r.name \in DnsNames
      BY <1>6, RecordTypes DEF DnsTypes
    <3>2. Tag(r.name) \in records /\ r.name # n
      BY <1>4, <1>5, <2>1, <3>1
    <3>3. r \in records
      BY <1>1, <1>2, <3>2
    <3> QED
      BY <1>1, <2>1, <3>2, <3>3 DEF DnsInv, Exclusive
  <2> QED
    BY <1>1, <2>1 DEF DnsInv, Exclusive
<1>9. Snapshot'
  BY <1>1, <1>2, <1>3 DEF DnsInv, Snapshot
<1>10. Tagged'
  <2>1. ASSUME NEW r \in records', Mine(r) PROVE r \in records /\ r.name \in DnsNames
    BY <1>1, <1>3, <1>6, <2>1, RecordTypes DEF DnsTypes
  <2>2. \A r \in records : Tag(r.name) \in records' => Tag(r.name) \in records
    BY <1>5, RecordTypes DEF DnsInv, DnsTypes
  <2> QED
    BY <1>1, <2>1, <2>2 DEF DnsInv, Tagged, Recognised, Leftover, Mine, Awaited, SameSet
<1>11. Asked'
  BY <1>1 DEF DnsInv, Asked, Claimed, Ordered, Recognised, TagPending, Written, OwnKinds, Occupying, At, DnsDesired
<1> QED
  BY <1>6, <1>7, <1>8, <1>9, <1>10, <1>11 DEF DnsInv

\* A person adds a record between runs.
LEMMA AddKeepsDns ==
  ASSUME CdnInv, DnsInv, NEW n \in DnsNames, NEW k \in {"TXT", "MX", "A"}, HandAdds(n, k),
         UNCHANGED cdnVars
  PROVE  DnsInv'
<1> DEFINE new == [name |-> n, kind |-> k, val |-> Hand]
<1>1. /\ UNCHANGED <<dnsProvider, dnsWanted, dnsTask, dnsSnap, dnsLeft, dnsPending, orphaned>>
      /\ UNCHANGED <<cdnWanted, cdnPc>>
      /\ records' = records \union {new} /\ dnsTask = "idle"
      /\ contested' = IF dnsProvider = "hetzner" /\ k = "TXT" THEN contested \union {n} ELSE contested
  BY DEF HandAdds, dnsConfig, dnsRun, cdnVars
<1>2. new \in Records /\ new.name = n /\ new.val = Hand /\ new.kind = k /\ ~Mine(new)
  BY Vals DEF Records, Kinds, WireKinds, Mine
<1>3. \A m \in DnsNames : Tag(m) \in records' => Tag(m) \in records
  BY <1>1, <1>2, TagFacts
<1> HIDE DEF new
<1>4. dnsSnap = {} /\ dnsPending = {} /\ dnsLeft = {}
  BY <1>1 DEF DnsInv, TaskPc
<1>5. (DnsTypes /\ TaskPc /\ Snapshot /\ Asked)'
  BY <1>1, <1>2, <1>4 DEF DnsInv, DnsTypes, TaskPc, Snapshot, Asked, DnsDesired
<1>6. (Authors(records) /\ Authors(dnsSnap))'
  BY <1>1, <1>2, <1>4, Vals DEF DnsInv, Authors, Mine, Written, OwnKinds
<1>7. (Exclusive(records) /\ Exclusive(dnsSnap))'
  <2>1. \A r \in records : r.name \in DnsNames
    BY RecordTypes DEF DnsInv, DnsTypes
  <2> QED
    BY <1>1, <1>2, <1>3, <1>4, <2>1, Vals DEF DnsInv, Exclusive
<1>8. Tagged'
  BY <1>1, <1>2 DEF DnsInv, Tagged, Recognised, Leftover, Mine, Awaited, SameSet
<1> QED
  BY <1>5, <1>6, <1>7, <1>8 DEF DnsInv

\* A person deletes a record; the name whose tag this was is orphaned.
LEMMA DeleteKeepsDns ==
  ASSUME CdnInv, DnsInv, NEW r \in records, HandDeletes(r), UNCHANGED cdnVars
  PROVE  DnsInv'
<1>1. /\ UNCHANGED <<dnsProvider, dnsWanted, dnsTask, dnsSnap, dnsLeft, dnsPending, contested>>
      /\ UNCHANGED <<cdnWanted, cdnPc>>
      /\ records' = records \ {r}
      /\ orphaned' = IF r = Tag(r.name) THEN orphaned \union {r.name} ELSE orphaned
  BY DEF HandDeletes, dnsConfig, dnsRun, cdnVars
<1>2. r.name \in DnsNames
  BY RecordTypes DEF DnsInv, DnsTypes
<1>3. \A m \in DnsNames : Tag(m) \in records => Tag(m) \in records' \/ m \in orphaned'
  BY <1>1, TagFacts
<1>4. (DnsTypes /\ TaskPc)'
  BY <1>1, <1>2 DEF DnsInv, DnsTypes, TaskPc, DnsDesired
<1>5. (Authors(records) /\ Authors(dnsSnap))'
  BY <1>1 DEF DnsInv, Authors, Mine, Written, OwnKinds
<1>6. (Exclusive(records) /\ Exclusive(dnsSnap))'
  BY <1>1 DEF DnsInv, Exclusive
<1>7. Snapshot'
  BY <1>1, <1>3 DEF DnsInv, Snapshot
<1>8. \A m \in DnsNames : Recognised(m) => Recognised(m)'
  BY <1>1, <1>3 DEF Recognised
<1>9. Tagged'
  <2>1. \A s \in records : s.name \in DnsNames
    BY RecordTypes DEF DnsInv, DnsTypes
  <2>2. ASSUME dnsTask = "remove", NEW s \in records', Mine(s), s.name \notin contested,
               Tag(s.name) \in records' \/ s.name \notin orphaned'
        PROVE  Awaited(s)'
    <3>1. Tag(s.name) \in records \/ s.name \notin orphaned
      BY <1>1, <2>2
    <3>2. Awaited(s)
      BY <1>1, <2>2, <3>1 DEF DnsInv, Tagged
    <3> QED
      BY <1>1, <3>2 DEF Awaited, SameSet
  <2>3. ASSUME dnsTask # "remove", NEW s \in records', Mine(s) PROVE Recognised(s.name)'
    BY <1>1, <1>8, <2>1, <2>3 DEF DnsInv, Tagged
  <2>4. cdnPc \in AfterRecords => Leftover' = {}
    BY <1>1 DEF DnsInv, Tagged, Leftover, Mine
  <2> QED
    BY <1>1, <2>2, <2>3, <2>4 DEF Tagged, Mine
<1>10. Asked'
  <2>1. \A p \in dnsPending : p.ask.new.name \in DnsNames
    BY RecordTypes DEF DnsInv, DnsTypes, Asks
  <2> QED
    BY <1>1, <1>8, <2>1
       DEF DnsInv, Asked, Claimed, Ordered, TagPending, Written, OwnKinds, Occupying, At, DnsDesired
<1> QED
  BY <1>4, <1>5, <1>6, <1>7, <1>9, <1>10 DEF DnsInv

-----------------------------------------------------------------------------
(* The run itself                                                          *)

\* Every record that is to go is taken away by a request for one of its set.
LEMMA DeletionsReach ==
  ASSUME NEW rs
  PROVE  /\ \A q \in Deletions(rs) : \E r \in rs : q = Delete(r)
         /\ \A r \in rs : \E s \in rs : /\ Delete(s) \in Deletions(rs) /\ SameSet(r, s)
                                        /\ dnsProvider # "hetzner" => s = r
<1> DEFINE first(r) == CHOOSE s \in rs : SameSet(s, r)
<1>1. ASSUME NEW r \in rs PROVE first(r) \in rs /\ SameSet(r, first(r))
  <2>1. \E s \in rs : SameSet(s, r)
    BY DEF SameSet
  <2>2. first(r) \in rs /\ SameSet(first(r), r)
    BY <2>1
  <2> QED
    BY <2>2 DEF SameSet
<1>2. CASE dnsProvider = "hetzner"
  <2>1. Deletions(rs) = {Delete(first(r)) : r \in rs}
    BY <1>2 DEF Deletions
  <2> HIDE DEF first
  <2> QED
    BY <1>1, <1>2, <2>1
<1>3. CASE dnsProvider # "hetzner"
  <2>1. Deletions(rs) = {Delete(r) : r \in rs}
    BY <1>3 DEF Deletions
  <2> QED
    BY <2>1 DEF SameSet
<1> QED
  BY <1>2, <1>3

\* With nothing of another's under our tag, each provider takes a name of ours
\* for ours, and finds every record we left there.
LEMMA OwnFound ==
  ASSUME ConfigOK, DnsInv, NEW owned \in OwnedNames(records),
         NEW r \in records, Mine(r), r.name \notin contested, Tag(r.name) \in records
  PROVE  r \in Doomed(records, owned)
<1> DEFINE n == r.name
<1>1. n \in DnsNames /\ \A s \in records : s \in Records
  BY RecordTypes DEF DnsInv, DnsTypes
<1>2. \A s \in records : s.name = n => s.val # Other
  BY DEF DnsInv, Exclusive
<1>3. Tag(n) \in Tags(records, n)
  BY <1>1, TagFacts DEF Tags, Txts, At
<1>4. \A t \in Tags(records, n) : t = Tag(n)
  BY <1>1, <1>2, OwnTag DEF Tags, Txts, At
<1>5. dnsProvider = "hetzner" => \A t \in Txts(records, n) : t = Tag(n)
  <2> SUFFICES ASSUME dnsProvider = "hetzner", NEW t \in Txts(records, n) PROVE t = Tag(n)
    OBVIOUS
  <2>1. t \in records /\ t.name = n /\ t.kind = "TXT"
    BY DEF Txts, At
  <2>2. t.val # Hand /\ t.val # Other
    BY <1>2, <2>1 DEF DnsInv, Authors
  <2>3. Mine(t)
    BY <1>1, <2>1, <2>2, RecordTypes DEF Mine
  <2> QED
    BY <1>1, <2>1, <2>3, WrittenFacts DEF DnsInv, Authors
<1>6. ASSUME NEW tags \in IF dnsProvider = "hetzner" THEN SeenTags(records, n) ELSE {Tags(records, n)}
      PROVE  tags = {Tag(n)}
  BY <1>3, <1>4, <1>5, <1>6 DEF SeenTags, Tags
<1>7. n \in owned
  <2>1. PICK tags \in IF dnsProvider = "hetzner" THEN SeenTags(records, n) ELSE {Tags(records, n)} :
          (n \in owned) = TakenForOwn(n, tags)
    BY <1>1 DEF OwnedNames
  <2> QED
    BY <1>6, <2>1 DEF TakenForOwn
<1>8. Written(r)
  BY DEF DnsInv, Authors
<1>9. dnsProvider \in {"ovh", "hetzner", "bunny", "godaddy"}
  BY ConfigTypes
<1> QED
  BY <1>7, <1>8, <1>9 DEF Doomed, Written, OwnKinds

LEMMA StartEnsureKeepsDns ==
  ASSUME ConfigOK, CdnInv, DnsInv, cdnPc = "dns", DnsStart("ensure"), CdnGoTo("dnsrun")
  PROVE  DnsInv'
<1>1. /\ UNCHANGED <<dnsProvider, dnsWanted, records, orphaned, contested, cdnWanted>>
      /\ dnsTask = "idle" /\ dnsTask' = "ensure" /\ cdnPc' = "dnsrun"
      /\ dnsSnap' = records /\ dnsPending' = {} /\ dnsLeft' = DnsDesired
  BY DEF DnsStart, CdnGoTo, dnsConfig
<1>2. (DnsTypes /\ TaskPc /\ Snapshot /\ Asked)'
  BY <1>1 DEF DnsInv, DnsTypes, TaskPc, Snapshot, Asked, DnsDesired
<1>3. (Authors(records) /\ Authors(dnsSnap) /\ Exclusive(records) /\ Exclusive(dnsSnap))'
  BY <1>1 DEF DnsInv, Authors, Exclusive, Mine, Written, OwnKinds
<1>4. Tagged'
  BY <1>1 DEF DnsInv, Tagged, Recognised, AfterRecords, Mine
<1> QED
  BY <1>2, <1>3, <1>4 DEF DnsInv

LEMMA StartRemoveKeepsDns ==
  ASSUME ConfigOK, CdnInv, DnsInv, cdnPc = "rdns", DnsStart("remove"), CdnGoTo("rdnsrun")
  PROVE  DnsInv'
<1>1. PICK owned \in OwnedNames(records) :
        dnsPending' = Steps(1, Deletions(Doomed(records, owned)))
  BY DEF DnsStart
<1>2. /\ UNCHANGED <<dnsProvider, dnsWanted, records, orphaned, contested, cdnWanted>>
      /\ dnsTask = "idle" /\ dnsTask' = "remove" /\ cdnPc' = "rdnsrun"
      /\ dnsSnap' = records /\ dnsLeft' = {}
  BY DEF DnsStart, CdnGoTo, dnsConfig
<1>3. ASSUME NEW p \in dnsPending'
      PROVE  \E r \in Doomed(records, owned) : p = [step |-> 1, ask |-> Delete(r)]
  BY <1>1, <1>3, DeletionsReach DEF Steps
<1>4. ASSUME NEW r \in Doomed(records, owned)
      PROVE  r \in records /\ r \in Records /\ r.name \in DnsNames /\ Tag(r.name) \in records
  <2>1. r \in records /\ r.name \in owned
    BY DEF Doomed
  <2>2. r \in Records /\ r.name \in DnsNames
    BY <2>1, RecordTypes DEF DnsInv, DnsTypes
  <2>3. PICK tags \in IF dnsProvider = "hetzner" THEN SeenTags(records, r.name) ELSE {Tags(records, r.name)} :
          (r.name \in owned) = TakenForOwn(r.name, tags)
    BY <2>2 DEF OwnedNames
  <2>4. tags \subseteq Tags(records, r.name)
    BY <2>3 DEF SeenTags
  <2> QED
    BY <2>1, <2>2, <2>3, <2>4 DEF TakenForOwn, Tags, Txts, At
<1>5. DnsTypes'
  <2>1. \A r \in Records : [step |-> 1, ask |-> Delete(r)] \in [step : 1..3, ask : Asks]
    BY DEF Delete, Asks
  <2>2. dnsPending' \subseteq [step : 1..3, ask : Asks]
    BY <1>3, <1>4, <2>1
  <2> QED
    BY <1>2, <2>2 DEF DnsInv, DnsTypes
<1>6. (TaskPc /\ Snapshot)'
  BY <1>2 DEF TaskPc, Snapshot
<1>7. (Authors(records) /\ Authors(dnsSnap) /\ Exclusive(records) /\ Exclusive(dnsSnap))'
  BY <1>2 DEF DnsInv, Authors, Exclusive, Mine, Written, OwnKinds
<1>8. Tagged'
  <2>1. ASSUME NEW r \in records, Mine(r), r.name \notin contested,
               Tag(r.name) \in records \/ r.name \notin orphaned
        PROVE  Awaited(r)'
    <3>1. Tag(r.name) \in records
      BY <1>2, <2>1 DEF DnsInv, Tagged, Recognised
    <3>2. r \in Doomed(records, owned)
      BY <2>1, <3>1, OwnFound
    <3>3. PICK s \in Doomed(records, owned) :
            /\ Delete(s) \in Deletions(Doomed(records, owned)) /\ SameSet(r, s)
            /\ dnsProvider # "hetzner" => s = r
      <4> DEFINE rs == Doomed(records, owned)
      <4>1. r \in rs
        BY <3>2
      <4> HIDE DEF rs
      <4>2. \E s \in rs : /\ Delete(s) \in Deletions(rs) /\ SameSet(r, s)
                          /\ dnsProvider # "hetzner" => s = r
        BY <4>1, DeletionsReach
      <4> QED
        BY <4>2 DEF rs
    <3>4. [step |-> 1, ask |-> Delete(s)] \in dnsPending'
      BY <1>1, <3>3 DEF Steps
    <3> QED
      BY <1>2, <3>3, <3>4 DEF Awaited, Delete, SameSet
  <2> QED
    BY <1>2, <2>1 DEF Tagged, Mine, AfterRecords
<1>9. ASSUME NEW p \in dnsPending' PROVE (Claimed(p.ask) /\ Ordered(p))'
  <2>1. PICK r \in Doomed(records, owned) : p = [step |-> 1, ask |-> Delete(r)]
    BY <1>3, <1>9
  <2>2. p.ask.op = "delete" /\ p.ask.old = r /\ p.ask.new = r
    BY <2>1 DEF Delete
  <2>3. r \in records /\ Tag(r.name) \in records
    BY <1>4
  <2>4. dnsProvider \in {"bunny", "godaddy"} => r.kind \in WireKinds \/ r = Tag(r.name)
    BY DEF Doomed, WireKinds
  <2>5. r.name \notin contested => \A s \in records : s.name = r.name => s.val # Other
    BY <2>3 DEF DnsInv, Exclusive
  <2>6. Claimed(p.ask)'
    BY <1>2, <2>2, <2>3, <2>4, <2>5 DEF Claimed, Tag
  <2> QED
    BY <1>2, <2>2, <2>6 DEF Ordered
<1> QED
  BY <1>5, <1>6, <1>7, <1>8, <1>9 DEF DnsInv, Asked

\* A name is found free, or ours; the requests decided on it are claimed and in
\* order, whatever the zone was read as.
LEMMA EnsureNameKeepsDns ==
  ASSUME ConfigOK, CdnInv, DnsInv, NEW n \in DnsNames, EnsureName(n), UNCHANGED cdnVars
  PROVE  DnsInv'
<1> DEFINE zone == Reading
<1>1. PICK tags \in SeenTags(zone, n), first \in Firsts(zone, n) :
        ~Refused(zone, n, tags) /\ dnsPending' = PairRequests(zone, n, tags, first)
  BY DEF EnsureName
<1>2. /\ UNCHANGED <<dnsProvider, dnsWanted, records, dnsTask, orphaned, contested, cdnWanted, cdnPc>>
      /\ dnsTask = "ensure" /\ dnsPending = {} /\ n \in dnsLeft
      /\ dnsSnap' = zone /\ dnsLeft' = dnsLeft \ {n}
  BY DEF EnsureName, dnsConfig, cdnVars
<1>3. /\ zone \subseteq Records /\ Authors(zone) /\ Exclusive(zone)
      /\ \A r \in records : r.val = Other => r \in zone \/ r.name \in contested
      /\ \A r \in records : r.val = Hand => r \in zone
      /\ \A m \in DnsNames : Tag(m) \in zone => Tag(m) \in records \/ m \in orphaned
  <2>1. CASE zone = records
    BY <2>1 DEF DnsInv, DnsTypes
  <2>2. CASE zone = dnsSnap
    BY <1>2, <2>2 DEF DnsInv, DnsTypes, Snapshot
  <2> QED
    BY <2>1, <2>2 DEF Reading
<1> HIDE DEF zone
<1>4. n \in DnsDesired
  BY <1>2 DEF DnsInv, DnsTypes
<1>5. dnsProvider \in {"ovh", "hetzner", "bunny", "godaddy"}
  BY ConfigTypes
<1>6. tags \subseteq Tags(zone, n)
  BY <1>1 DEF SeenTags
<1>7. tags # {} => Tag(n) \in zone
  <2> SUFFICES ASSUME NEW t \in tags PROVE Tag(n) \in zone
    OBVIOUS
  <2>1. t \in zone /\ t.name = n /\ t.kind = "TXT" /\ t.val = Me
    BY <1>1, <1>6 DEF Refused, Tags, Txts, At
  <2> QED
    BY <1>3, <2>1, OwnTag
<1>8. tags = {} => Occupying(zone, n) = {}
  BY <1>1 DEF Refused
<1>9. Same(zone, n) \subseteq Occupying(zone, n)
  <2>1. dnsProvider = "godaddy" => KindOf(n) \in {"A", "CNAME"}
    BY <1>4, WantedFacts DEF OwnKinds
  <2>2. KindOf(n) # "TXT"
    BY <1>4, WantedFacts DEF WireKinds
  <2> QED
    BY <2>1, <2>2 DEF Same, Occupying, At
<1>10. ASSUME n \notin contested, NEW r \in zone, r.name = n PROVE r.val # Other
  <2> SUFFICES ASSUME r.val = Other PROVE FALSE
    OBVIOUS
  <2>1. tags = {}
    BY <1>3, <1>7, <1>10 DEF Exclusive
  <2>2. r.kind # "A"
    BY <1>8, <1>10, <2>1 DEF Occupying, At
  <2>3. r.kind = "TXT"
    BY <1>3, <2>2 DEF Authors
  <2>4. r \in Tags(zone, n)
    BY <1>10, <2>3 DEF Tags, Txts, At
  <2>5. dnsProvider = "hetzner"
    BY <1>1, <1>5, <2>1, <2>4 DEF SeenTags
  <2>6. PICK t \in Txts(zone, n) : {} = {t} \intersect Tags(zone, n)
    BY <1>1, <2>1, <2>4, <2>5 DEF SeenTags, Tags
  <2>7. t \in zone /\ t \in Records /\ t.name = n /\ t.kind = "TXT" /\ t.val \notin {Me, Other}
    BY <1>3, <2>6 DEF Tags, Txts, At
  <2>8. t.val # Hand
    BY <1>3, <1>10, <2>5, <2>7 DEF Authors
  <2>9. Mine(t)
    BY <2>7, <2>8, RecordTypes DEF Mine
  <2>10. t = Tag(n)
    BY <1>3, <2>7, <2>9, WrittenFacts DEF Authors
  <2> QED
    BY <2>7, <2>10, TagFacts
<1>11. /\ first = Wanted(n) \/ first \in Same(zone, n)
       /\ Same(zone, n) # {} => first \in Same(zone, n)
  BY <1>1 DEF Firsts
<1>12. \A r \in Occupying(zone, n) : /\ r \in zone /\ r \in Records /\ r.name = n /\ r.kind # "TXT"
                                     /\ Tag(n) \in zone
  BY <1>3, <1>7, <1>8 DEF Occupying, At
\* Any of the requests
<1>13. ASSUME NEW p \in dnsPending'
       PROVE  /\ p.step \in 1..3 /\ p = [step |-> p.step, ask |-> p.ask]
              /\ \/ /\ p.step = 1 /\ tags = {}
                    /\ p.ask = IF dnsProvider = "hetzner" THEN Put(Tag(n)) ELSE Create(Tag(n))
                 \/ \E r \in Occupying(zone, n) :
                      /\ p.step \in {2, 3} /\ p.ask = Delete(r)
                      /\ dnsProvider \in {"bunny", "godaddy"} => r.kind \in WireKinds
                 \/ /\ p.step = 3
                    /\ \/ dnsProvider = "hetzner" /\ p.ask = Put(Wanted(n))
                       \/ p.ask = Create(Wanted(n))
                       \/ /\ first \in Occupying(zone, n) /\ p.ask = Edit(first, Wanted(n))
                          /\ first.kind \in WireKinds
  <2>1. p \in Steps(1, WriteTag(n, tags)) \/ p \in Steps(2, DropStale(zone, n))
        \/ p \in Steps(3, WriteRecord(zone, n, first))
    BY <1>1 DEF PairRequests, InOrder
  <2>2. CASE p \in Steps(1, WriteTag(n, tags))
    BY <2>2 DEF Steps, WriteTag
  <2>3. CASE p \in Steps(2, DropStale(zone, n))
    <3>1. p.step = 2 /\ p = [step |-> p.step, ask |-> p.ask] /\ p.ask \in DropStale(zone, n)
      BY <2>3 DEF Steps
    <3>2. PICK r \in StaleKinds(zone, n) : p.ask = Delete(r)
      BY <3>1, DeletionsReach DEF DropStale
    <3>3. r \in Occupying(zone, n) /\ (dnsProvider \in {"bunny", "godaddy"} => r.kind \in WireKinds)
      BY DEF StaleKinds, Occupying, WireKinds
    <3> QED
      BY <3>1, <3>2, <3>3
  <2>4. CASE p \in Steps(3, WriteRecord(zone, n, first))
    <3>1. p.step = 3 /\ p = [step |-> p.step, ask |-> p.ask] /\ p.ask \in WriteRecord(zone, n, first)
      BY <2>4 DEF Steps
    <3>2. \A s \in Same(zone, n) : s.kind \in WireKinds
      BY <1>4, WantedFacts DEF Same
    <3>3. \/ dnsProvider = "hetzner" /\ p.ask = Put(Wanted(n))
          \/ p.ask = Create(Wanted(n))
          \/ Same(zone, n) # {} /\ p.ask = Edit(first, Wanted(n))
          \/ \E s \in Same(zone, n) : p.ask = Delete(s)
      BY <3>1 DEF WriteRecord
    <3> QED
      BY <1>9, <1>11, <3>1, <3>2, <3>3
  <2> QED
    BY <2>1, <2>2, <2>3, <2>4
<1>14. DnsTypes'
  <2>1. ASSUME NEW p \in dnsPending' PROVE p \in [step : 1..3, ask : Asks]
    <3> DEFINE w == Wanted(n)
    <3>1. Tag(n) \in Records /\ w \in Records
      BY <1>4, TagFacts, WantedFacts
    <3>2. \A r \in Records : {Put(r), Create(r), Delete(r)} \subseteq Asks
      BY DEF Put, Create, Delete, Asks
    <3>3. \A r, s \in Records : Edit(r, s) \in Asks
      BY DEF Edit, Asks
    <3> HIDE DEF w
    <3>4. p.ask \in Asks
      BY <1>12, <1>13, <3>1, <3>2, <3>3 DEF w
    <3> QED
      BY <1>13, <3>4
  <2> QED
    BY <1>2, <1>3, <2>1 DEF DnsInv, DnsTypes, DnsDesired
<1>15. (TaskPc /\ Snapshot)'
  BY <1>2, <1>3 DEF DnsInv, TaskPc, Snapshot
<1>16. (Authors(records) /\ Authors(dnsSnap) /\ Exclusive(records) /\ Exclusive(dnsSnap))'
  BY <1>2, <1>3 DEF DnsInv, Authors, Exclusive, Mine, Written, OwnKinds
<1>17. Tagged'
  BY <1>2 DEF DnsInv, TaskPc, Tagged, Recognised, Mine, AfterRecords
<1>18. Tag(n) \notin zone => TagPending(n)'
  <2> SUFFICES ASSUME Tag(n) \notin zone PROVE TagPending(n)'
    OBVIOUS
  <2> DEFINE q == IF dnsProvider = "hetzner" THEN Put(Tag(n)) ELSE Create(Tag(n))
  <2>1. q \in WriteTag(n, tags)
    BY <1>7 DEF WriteTag
  <2>2. [step |-> 1, ask |-> q] \in dnsPending'
    BY <1>1, <2>1 DEF PairRequests, InOrder, Steps
  <2>3. q.op # "delete" /\ q.new = Tag(n)
    BY DEF Put, Create
  <2> HIDE DEF q
  <2> QED
    BY <2>2, <2>3 DEF TagPending, Tag
<1>19. ASSUME NEW p \in dnsPending' PROVE (Claimed(p.ask) /\ Ordered(p))'
  <2>1. CASE /\ p.step = 1 /\ tags = {}
             /\ p.ask = IF dnsProvider = "hetzner" THEN Put(Tag(n)) ELSE Create(Tag(n))
    <3>1. /\ p.ask.op \in {"create", "put"} /\ (p.ask.op = "put" => dnsProvider = "hetzner")
          /\ p.ask.old = Tag(n) /\ p.ask.new = Tag(n)
      BY <2>1 DEF Put, Create
    <3>2. Claimed(p.ask)'
      BY <1>2, <1>4, <1>10, <3>1, TagFacts, Vals DEF Claimed, Tag, Written, DnsDesired
    <3> QED
      BY <1>2, <3>1, <3>2, TagFacts DEF Ordered, Tag
  <2>2. ASSUME NEW r \in Occupying(zone, n), p.ask = Delete(r),
               dnsProvider \in {"bunny", "godaddy"} => r.kind \in WireKinds
        PROVE  (Claimed(p.ask) /\ Ordered(p))'
    <3>1. p.ask.op = "delete" /\ p.ask.old = r /\ p.ask.new = r
      BY <2>2 DEF Delete
    <3>2. Claimed(p.ask)'
      BY <1>2, <1>10, <1>12, <2>2, <3>1 DEF Claimed, Tag
    <3> QED
      BY <1>2, <1>12, <3>1, <3>2 DEF Ordered
  <2>3. CASE /\ p.step = 3
             /\ \/ dnsProvider = "hetzner" /\ p.ask = Put(Wanted(n))
                \/ p.ask = Create(Wanted(n))
                \/ /\ first \in Occupying(zone, n) /\ p.ask = Edit(first, Wanted(n))
                   /\ first.kind \in WireKinds
    <3> PICK w : w = Wanted(n)
      OBVIOUS
    <3>1. w.name = n /\ Written(w) /\ (w.val = "cdn" => cdnWanted # Absent)
      BY <1>4, WantedFacts
    <3>2. /\ p.ask.op \in {"create", "put", "edit"} /\ p.ask.new = w /\ p.ask.old.name = n
          /\ p.ask.op = "put" => dnsProvider = "hetzner"
          /\ p.ask.op = "edit" => /\ p.ask.old \in Occupying(zone, n)
                                  /\ p.ask.old.kind \in WireKinds
      BY <1>12, <2>3, <3>1 DEF Put, Create, Edit
    <3>3. /\ p.ask.op = "edit" => Tag(n) \in zone /\ p.ask.old.kind # "TXT"
          /\ Tag(n) \notin zone => Occupying(zone, n) = {}
      BY <1>12, <3>2
    <3>4. Written(w)'
      BY <1>2, <3>1 DEF Written, OwnKinds, Tag
    <3>6. (Recognised(n) \/ TagPending(n))'
      BY <1>2, <1>3, <1>18 DEF Recognised, Tag
    <3>7. Claimed(p.ask)'
      BY <1>2, <1>4, <1>10, <3>1, <3>2, <3>3, <3>4 DEF Claimed, Tag, Occupying, At, DnsDesired
    <3> QED
      BY <1>2, <2>3, <3>1, <3>2, <3>3, <3>6, <3>7 DEF Ordered
  <2> QED
    BY <1>13, <2>1, <2>2, <2>3
<1> QED
  BY <1>14, <1>15, <1>16, <1>17, <1>19 DEF DnsInv, Asked

\* What a request does to the zone: it writes what it says, and takes away only
\* at the same name what it names, or what stands in the same set.
LEMMA RequestChanges ==
  ASSUME DnsInv, NEW p \in dnsPending, Request(p)
  PROVE  LET q == p.ask IN
         /\ q \in Asks
         /\ \A r \in records' \ records : r = q.new /\ q.op # "delete"
         /\ q.op # "delete" => q.new \in records'
         /\ \A r \in records \ records' :
              /\ r \in Records /\ r.name = q.new.name
              /\ \/ q.op = "put" /\ r.kind = q.new.kind /\ r # q.new
                 \/ q.op \in {"edit", "delete"} /\ r.kind = q.old.kind
              /\ dnsProvider # "hetzner" => r = q.old
         /\ q.op = "delete" => q.old \notin records'
         /\ q.op = "delete" /\ dnsProvider = "hetzner" => \A r \in records' : ~SameSet(r, q.old)
<1> DEFINE q == p.ask
<1>1. q \in Asks /\ records \subseteq Records
  BY DEF DnsInv, DnsTypes
<1>2. q.op \in {"create", "put", "edit", "delete"} /\ q.old.name = q.new.name
      /\ (q.op = "put" => dnsProvider = "hetzner")
  BY <1>1 DEF DnsInv, Asked, Claimed, Asks
<1>3. records' = Effect(records, q)
  BY DEF Request
<1> HIDE DEF q
<1>4. CASE q.op = "create"
  BY <1>1, <1>2, <1>3, <1>4 DEF Effect, q
<1>5. CASE q.op = "put"
  BY <1>1, <1>2, <1>3, <1>5 DEF Effect, SameSet, q
<1>6. CASE q.op = "edit"
  BY <1>1, <1>2, <1>3, <1>6 DEF Effect, q
<1>7. CASE q.op = "delete"
  BY <1>1, <1>2, <1>3, <1>7 DEF Effect, SameSet, q
<1> QED
  BY <1>2, <1>4, <1>5, <1>6, <1>7

\* The CLI takes no record of another cluster but where both claimed a name.
LEMMA RequestSparesOthers ==
  ASSUME CdnInv, DnsInv, NEW p \in dnsPending, Request(p),
         NEW r \in records \ records'
  PROVE  /\ r.val = Other => r.name \in contested
         /\ r.val = Hand =>
              /\ \/ \E t \in Txts(dnsSnap, r.name) \union Txts(records, r.name) : t.val = Me
                 \/ dnsProvider = "hetzner" /\ r.kind = "TXT" /\ r.name \in DnsDesired
              /\ dnsProvider \in {"bunny", "godaddy"} => r.kind \in WireKinds
<1> DEFINE q == p.ask
           n == q.new.name
<1>1. dnsTask # "idle"
  BY DEF DnsInv, TaskPc
<1>2. /\ r \in records /\ r \in Records /\ r.name = n
      /\ \/ q.op = "put" /\ r.kind = q.new.kind
         \/ q.op \in {"edit", "delete"} /\ r.kind = q.old.kind
      /\ dnsProvider # "hetzner" => r = q.old
  BY RequestChanges
<1>3. Claimed(q)
  BY DEF DnsInv, Asked
<1> HIDE DEF q
<1>4. n \in DnsNames
  BY <1>2, RecordTypes
<1>5. r.val = Other => r.name \in contested
  BY <1>1, <1>2, <1>3 DEF DnsInv, Snapshot, Claimed
<1>6. ASSUME r.val = Hand, ~ (dnsProvider = "hetzner" /\ r.kind = "TXT" /\ n \in DnsDesired)
      PROVE  Tag(n) \in dnsSnap
  <2>1. r \in dnsSnap
    BY <1>1, <1>2, <1>6 DEF DnsInv, Snapshot
  <2>2. CASE q.op = "put"
    <3>1. r.kind # "TXT" /\ q.new.kind # "TXT" /\ dnsProvider = "hetzner"
      BY <1>2, <1>3, <1>6, <2>2 DEF Claimed
    <3>2. r \in Occupying(dnsSnap, n)
      BY <1>2, <2>1, <3>1 DEF Occupying, At
    <3> QED
      BY <1>3, <2>2, <3>1, <3>2 DEF Claimed
  <2>3. CASE q.op \in {"edit", "delete"}
    BY <1>3, <2>3 DEF Claimed
  <2> QED
    BY <1>2, <2>2, <2>3
<1>7. Tag(n) \in dnsSnap => Tag(n) \in Txts(dnsSnap, r.name) /\ Tag(n).val = Me
  BY <1>2, <1>4, TagFacts DEF Txts, At
<1>8. ASSUME r.val = Hand, dnsProvider \in {"bunny", "godaddy"} PROVE r.kind \in WireKinds
  <2>1. r = q.old /\ q.op \in {"edit", "delete"}
    BY <1>2, <1>3, <1>8 DEF Claimed
  <2>2. r # Tag(n)
    BY <1>4, <1>8, Vals, TagFacts
  <2> QED
    BY <1>3, <1>8, <2>1, <2>2 DEF Claimed
<1> QED
  BY <1>2, <1>5, <1>6, <1>7, <1>8

LEMMA RequestKeepsDns ==
  ASSUME CdnInv, DnsInv, NEW p \in dnsPending, Request(p), UNCHANGED cdnVars
  PROVE  DnsInv'
<1> DEFINE q == p.ask
           n == q.new.name
<1>1. /\ UNCHANGED <<dnsProvider, dnsWanted, dnsTask, dnsSnap, dnsLeft, orphaned, contested>>
      /\ UNCHANGED <<cdnWanted, cdnPc>>
      /\ dnsPending' = dnsPending \ {p} /\ Due(p)
  BY DEF Request, dnsConfig, cdnVars
<1>2. Claimed(q) /\ Ordered(p)
  BY DEF DnsInv, Asked
<1>3. /\ q \in Asks /\ records \subseteq Records /\ dnsTask \in {"ensure", "remove"}
      /\ q.new \in Records /\ n \in DnsNames
  BY RecordTypes DEF DnsInv, DnsTypes, TaskPc, Asks
<1>4. /\ \A r \in records' \ records : r = q.new /\ q.op # "delete"
      /\ q.op # "delete" => q.new \in records'
      /\ q.op = "delete" => q.old \notin records'
      /\ q.op = "delete" /\ dnsProvider = "hetzner" => \A r \in records' : ~SameSet(r, q.old)
  BY RequestChanges
<1>5. q.op # "delete" => Written(q.new) /\ Mine(q.new) /\ q.new.val # Other /\ q.new.val # Hand
  BY <1>2, <1>3, WrittenFacts DEF Claimed
<1>6. ASSUME dnsTask = "ensure", NEW m \in DnsNames, Tag(m) \in records PROVE Tag(m) \in records'
  <2> SUFFICES ASSUME Tag(m) \notin records' PROVE FALSE
    OBVIOUS
  <2>1. /\ Tag(m).name = n
        /\ \/ q.op = "put" /\ Tag(m).kind = q.new.kind /\ Tag(m) # q.new
           \/ q.op \in {"edit", "delete"} /\ Tag(m).kind = q.old.kind
    BY <1>6, RequestChanges
  <2>2. m = n /\ Tag(m).kind = "TXT"
    BY <2>1, TagFacts
  <2>3. q.op = "put" /\ q.new.kind = "TXT" /\ q.new # Tag(n)
    BY <1>2, <1>6, <2>1, <2>2 DEF Ordered
  <2>4. q.new = Tag(n)
    BY <1>3, <1>5, <2>3, WrittenFacts
  <2> QED
    BY <2>3, <2>4
<1>7. (DnsTypes /\ TaskPc)'
  <2>1. records' \subseteq Records
    BY <1>3, <1>4
  <2> QED
    BY <1>1, <1>3, <2>1 DEF DnsInv, DnsTypes, TaskPc, DnsDesired
<1>8. (Authors(records) /\ Authors(dnsSnap))'
  BY <1>1, <1>4, <1>5 DEF DnsInv, Authors, Mine, Written, OwnKinds, Tag
<1>9. Snapshot'
  BY <1>1, <1>4, <1>5, <1>6 DEF DnsInv, Snapshot, Tag
<1>10. (Exclusive(records) /\ Exclusive(dnsSnap))'
  <2>1. ASSUME NEW r \in records', r.val = Other, Tag(r.name) \in records' PROVE r.name \in contested
    <3>1. r \in records /\ r.name \in DnsNames
      BY <1>3, <1>4, <1>5, <2>1, RecordTypes
    <3>2. CASE Tag(r.name) \in records
      BY <2>1, <3>1, <3>2 DEF DnsInv, Exclusive
    <3>3. CASE Tag(r.name) \notin records
      <4>1. r.name = n
        BY <1>4, <2>1, <3>1, <3>3, TagFacts
      <4> QED
        BY <1>2, <1>3, <2>1, <3>1, <4>1 DEF DnsInv, Snapshot, Claimed
    <3> QED
      BY <3>2, <3>3
  <2> QED
    BY <1>1, <2>1 DEF DnsInv, Exclusive, Tag
\* A record is written with its tag there, since the tag was not left to do.
<1>11. ASSUME dnsTask = "ensure", NEW r \in records', Mine(r) PROVE Recognised(r.name)'
  <2>1. \A m \in DnsNames : Recognised(m) => Recognised(m)'
    BY <1>1, <1>6, <1>11 DEF Recognised, Tag
  <2>2. CASE r \in records
    BY <1>3, <1>11, <2>1, <2>2, RecordTypes DEF DnsInv, Tagged
  <2>3. CASE r = Tag(n) /\ r \notin records
    BY <1>3, <1>11, <2>3, TagFacts DEF Recognised
  <2>4. CASE r # Tag(n) /\ r \notin records
    <3>1. r = q.new /\ q.op # "delete"
      BY <1>4, <1>11, <2>4
    <3>2. p.step = 3 /\ (Recognised(n) \/ TagPending(n))
      BY <1>2, <1>11, <2>4, <3>1 DEF Ordered
    <3>3. ~TagPending(n)
      BY <1>1, <3>2 DEF Due, TagPending
    <3> QED
      BY <1>3, <2>1, <3>1, <3>2, <3>3
  <2> QED
    BY <2>2, <2>3, <2>4
<1>12. ASSUME dnsTask = "remove", NEW r \in records', Mine(r), r.name \notin contested,
              Tag(r.name) \in records' \/ r.name \notin orphaned
       PROVE  Awaited(r)'
  <2>1. q.op = "delete"
    BY <1>2, <1>12 DEF Ordered
  <2>2. records' \subseteq records /\ q.old \notin records'
    BY <1>4, <2>1
  <2>3. Awaited(r)
    BY <1>12, <2>2 DEF DnsInv, Tagged
  <2>4. PICK o \in dnsPending : /\ o.step = 1 /\ o.ask.op = "delete" /\ SameSet(r, o.ask.old)
                                /\ dnsProvider # "hetzner" => o.ask.old = r
    BY <2>3 DEF Awaited
  <2>5. CASE o # p
    <3>1. o \in dnsPending'
      BY <1>1, <2>5
    <3> QED
      BY <1>1, <2>4, <3>1 DEF Awaited, SameSet
  <2>6. CASE o = p /\ dnsProvider = "hetzner"
    <3>1. ~SameSet(r, p.ask.old)
      BY <1>4, <1>12, <2>1, <2>6
    <3> QED
      BY <2>4, <2>6, <3>1
  <2>7. CASE o = p /\ dnsProvider # "hetzner"
    BY <1>12, <2>2, <2>4, <2>7
  <2> QED
    BY <2>5, <2>6, <2>7
<1>13. Tagged'
  <2>1. cdnPc' \notin AfterRecords
    BY <1>1, <1>3 DEF DnsInv, TaskPc, AfterRecords
  <2> QED
    BY <1>1, <1>3, <1>11, <1>12, <2>1 DEF Tagged, Mine
<1>14. ASSUME NEW o \in dnsPending' PROVE (Claimed(o.ask) /\ Ordered(o))'
  <2> DEFINE m == o.ask.new.name
  <2>1. o \in dnsPending /\ Claimed(o.ask) /\ Ordered(o) /\ m \in DnsNames
    BY <1>1, <1>14, RecordTypes DEF DnsInv, Asked, DnsTypes, Asks
  <2>2. Claimed(o.ask)'
    BY <1>1, <2>1 DEF Claimed, Written, OwnKinds, Occupying, At, Tag, DnsDesired
  <2>3. dnsTask = "ensure" /\ (Recognised(m) \/ TagPending(m)) => (Recognised(m) \/ TagPending(m))'
    <3>1. dnsTask = "ensure" /\ Recognised(m) => Recognised(m)'
      BY <1>1, <1>6, <2>1 DEF Recognised, Tag
    <3>2. ASSUME TagPending(m) PROVE Recognised(m)' \/ TagPending(m)'
      <4>1. PICK t \in dnsPending : t.step = 1 /\ t.ask.op # "delete" /\ t.ask.new = Tag(m)
        BY <3>2 DEF TagPending
      <4>2. CASE t = p
        BY <1>4, <4>1, <4>2 DEF Recognised, Tag
      <4>3. CASE t # p
        BY <1>1, <4>1, <4>3 DEF TagPending, Tag
      <4> QED
        BY <4>2, <4>3
    <3> QED
      BY <3>1, <3>2
  <2> QED
    BY <1>1, <2>1, <2>2, <2>3 DEF Ordered, Tag
<1> QED
  BY <1>7, <1>8, <1>9, <1>10, <1>13, <1>14 DEF DnsInv, Asked

-----------------------------------------------------------------------------
(* The invariant                                                           *)

LEMMA InitEdge == Init => EdgeInv
<1> SUFFICES ASSUME Init PROVE EdgeInv
  OBVIOUS
<1>1. ConfigOK /\ CdnInv
  BY InitCdn
<1>2. /\ records = {} /\ dnsTask = "idle" /\ dnsSnap = {} /\ dnsLeft = {} /\ dnsPending = {}
      /\ orphaned = {} /\ contested = {} /\ cdnPc = "idle"
  BY DEF Init, DnsInit, CdnInit
<1>3. DnsInv
  BY <1>2 DEF DnsInv, DnsTypes, TaskPc, Authors, Exclusive, Snapshot, Tagged, Leftover, Asked, AfterRecords
<1>4. faults \in 0..MaxFaults /\ edits \in 0..MaxEdits
  BY DnsAssumption, EdgeAssumption DEF Init, DnsInit
<1> QED
  BY <1>1, <1>3, <1>4 DEF EdgeInv

LEMMA NextKeepsDns ==
  ASSUME ConfigOK, CdnInv, DnsInv, [Next]_vars
  PROVE  DnsInv'
<1>1. CASE StartDns
  BY <1>1, StartEnsureKeepsDns, StartRemoveKeepsDns DEF StartDns
<1>2. CASE DnsDone
  BY <1>2, DoneKeepsDns
<1>3. CASE Failed \/ Interrupted
  BY <1>3, FailuresKeepDns, PausesKeepDns DEF Failed
<1>4. CASE Removed \/ Apply \/ DeleteAll
  BY <1>4, PausesKeepDns
<1>5. CASE Working
  BY <1>5, EnsureNameKeepsDns, RequestKeepsDns, CdnStepKeepsDns DEF Working, DnsStep
<1>6. CASE EditConfig
  BY <1>6, EditKeepsDns
<1>7. CASE Others
  <2>1. CASE DnsEnv /\ UNCHANGED cdnVars
    BY <2>1, ClaimKeepsDns, AddKeepsDns, DeleteKeepsDns DEF DnsEnv
  <2>2. CASE CdnEnv /\ UNCHANGED <<dnsConfig, records, dnsRun, orphaned, contested>>
    <3>1. UNCHANGED <<dnsProvider, dnsWanted, records, dnsTask, dnsSnap, dnsLeft, dnsPending,
                      orphaned, contested, cdnWanted, cdnPc>>
      BY <2>2 DEF CdnEnv, dnsConfig, dnsRun
    <3>2. (DnsTypes /\ TaskPc /\ Snapshot)'
      BY <3>1 DEF DnsInv, DnsTypes, TaskPc, Snapshot, DnsDesired
    <3>3. (Authors(records) /\ Authors(dnsSnap) /\ Exclusive(records) /\ Exclusive(dnsSnap))'
      BY <3>1 DEF DnsInv, Authors, Exclusive, Mine, Written, OwnKinds
    <3>4. Tagged'
      BY <3>1 DEF DnsInv, Tagged, Recognised, Leftover, Awaited, SameSet
    <3>5. Asked'
      BY <3>1 DEF DnsInv, Asked, Claimed, Ordered, Recognised, TagPending, Written, OwnKinds, Occupying, At, DnsDesired
    <3> QED
      BY <3>2, <3>3, <3>4, <3>5 DEF DnsInv
  <2> QED
    BY <1>7, <2>1, <2>2 DEF Others
<1>8. CASE UNCHANGED vars
  <2>1. UNCHANGED <<dnsVars, cdnWanted, cdnPc>>
    BY <1>8 DEF vars, cdnVars
  <2>2. TaskPc'
    BY <2>1 DEF DnsInv, TaskPc, dnsVars, dnsRun
  <2> QED
    BY <2>1, <2>2, QuietKeepsDns
<1> QED
  BY <1>1, <1>2, <1>3, <1>4, <1>5, <1>6, <1>7, <1>8 DEF Next, Progress

LEMMA NextKeepsBounds ==
  ASSUME faults \in 0..MaxFaults, edits \in 0..MaxEdits, [Next]_vars
  PROVE  (faults \in 0..MaxFaults /\ edits \in 0..MaxEdits)'
<1> USE DnsAssumption, EdgeAssumption
<1>1. CASE StartDns \/ DnsDone \/ Removed \/ Working \/ Apply
  <2>1. UNCHANGED <<faults, edits>>
    BY <1>1 DEF StartDns, DnsStart, DnsDone, DnsFinish, Removed, Working, DnsStep, EnsureName,
                Request, Apply, dnsVars
  <2> QED
    BY <2>1
<1>2. CASE Failed
  <2>1. UNCHANGED <<faults, edits>>
    BY <1>2 DEF Failed, DnsFailing, NameRefused, RequestFails, dnsVars
  <2> QED
    BY <2>1
<1>3. CASE DeleteAll \/ EditConfig
  BY <1>3 DEF DeleteAll, EditConfig, dnsVars
<1>4. CASE Interrupted
  BY <1>4 DEF Interrupted
<1>5. CASE Others
  BY <1>5 DEF Others, DnsEnv, OtherClaims, HandAdds, HandDeletes
<1>6. CASE UNCHANGED vars
  BY <1>6 DEF vars, dnsVars
<1> QED
  BY <1>1, <1>2, <1>3, <1>4, <1>5, <1>6 DEF Next, Progress

\* The inductive invariant holds throughout.
THEOREM EdgeInvariant == Spec => []EdgeInv
<1>1. EdgeInv /\ [Next]_vars => EdgeInv'
  BY NextKeepsConfig, NextKeepsCdn, NextKeepsDns, NextKeepsBounds DEF EdgeInv
<1> QED
  BY InitEdge, <1>1, PTL DEF Spec

\* Zone, pull zone, Shield and outputs file are what they should be (TypeOK).
THEOREM EdgeTypes == Spec => []TypeOK
<1>1. EdgeInv => TypeOK
  <2> SUFFICES ASSUME EdgeInv PROVE TypeOK
    OBVIOUS
  <2>1. /\ ConfigOK /\ faults \in 0..MaxFaults /\ edits \in 0..MaxEdits
        /\ CdnInv /\ DnsTypes
    BY DEF EdgeInv, DnsInv
  <2>2. \A p \in dnsPending : p.ask.old \in Records /\ p.ask.new \in Records
    BY <2>1 DEF DnsTypes, Asks
  <2>3. ZoneExists => /\ pullZone.id \in Ids /\ pullZone.setting \in Settings
                      /\ pullZone.ssl \subseteq pullZone.certs
                      /\ pullZone.certs \subseteq pullZone.hosts
    BY <2>1, ZoneTypes
  <2>4. shield # Absent => ZoneExists /\ shield.plan \in Plans /\ ShieldIds \subseteq Ids
    <3> SUFFICES ASSUME shield # Absent
                 PROVE  ZoneExists /\ shield.plan \in Plans /\ ShieldIds \subseteq Ids
      OBVIOUS
    <3>1. \A n \in RuleNames : shield.rules[n] # Absent => shield.rules[n].id \in Ids
      BY <2>1, ShieldTypes DEF Rules
    <3>2. \A n \in ListNames : shield.lists[n] # Absent => shield.lists[n].id \in Ids
      BY <2>1, ShieldTypes DEF Lists
    <3> QED
      BY <2>1, <3>1, <3>2, ShieldTypes DEF ShieldIds, CdnInv, CdnTypes
  <2>5. \A f \in Files : FileIds(f) \subseteq Ids
    BY DEF Files, FileIds
  <2>6. FileIds(cdnFile) \union FileIds(cdnMem) \subseteq Ids
    BY <2>1, <2>5 DEF CdnInv, CdnTypes
  <2>7. dnsLeft \subseteq DnsNames
    BY <2>1 DEF DnsTypes, DnsDesired
  <2> QED
    BY <2>1, <2>2, <2>3, <2>4, <2>6, <2>7 DEF TypeOK, ConfigOK, DnsTypes
<1> QED
  BY EdgeInvariant, <1>1, PTL

\* A run that is not interrupted changes the zone by its requests alone.
LEMMA RunChangesByRequest ==
  ASSUME EdgeInv, [Next]_vars, dnsTask # "idle", faults' = faults, records' # records
  PROVE  \E p \in dnsPending : Request(p) /\ UNCHANGED cdnVars
<1>1. faults \in Nat
  BY DEF EdgeInv
<1>2. ~Idle /\ cdnPc # "idle"
  BY DEF EdgeInv, DnsInv, TaskPc, DnsTypes, Idle
<1>3. CASE StartDns \/ DnsDone \/ Removed \/ Apply \/ DeleteAll \/ EditConfig \/ Interrupted
  BY <1>3 DEF StartDns, DnsStart, DnsDone, DnsFinish, DnsStop, Removed, Apply, DeleteAll, EditConfig,
              Interrupted, dnsVars
<1>4. CASE Failed
  BY <1>4 DEF Failed, DnsFailing, NameRefused, RequestFails, DnsStop, dnsVars
<1>5. CASE Working
  BY <1>5 DEF Working, DnsStep, EnsureName, dnsVars
<1>6. CASE Others
  BY <1>1, <1>6 DEF Others, DnsEnv, OtherClaims, HandAdds, HandDeletes
<1>7. CASE UNCHANGED vars
  BY <1>7 DEF vars, dnsVars
<1> QED
  BY <1>3, <1>4, <1>5, <1>6, <1>7 DEF Next, Progress

\* A record of ours comes into the zone by a request of the run.
LEMMA AddsByRequest ==
  ASSUME EdgeInv, [Next]_vars, NEW r \in records' \ records, r.val = "cdn"
  PROVE  \E p \in dnsPending : Request(p) /\ UNCHANGED cdnVars
<1>1. CASE StartDns \/ DnsDone \/ Removed \/ Apply \/ DeleteAll \/ EditConfig \/ Interrupted
  BY <1>1 DEF StartDns, DnsStart, DnsDone, DnsFinish, DnsStop, Removed, Apply, DeleteAll, EditConfig,
              Interrupted, dnsVars
<1>2. CASE Failed
  BY <1>2 DEF Failed, DnsFailing, NameRefused, RequestFails, DnsStop, dnsVars
<1>3. CASE Working
  BY <1>3 DEF Working, DnsStep, EnsureName, dnsVars
<1>4. CASE Others
  BY <1>4, Vals DEF Others, DnsEnv, OtherClaims, HandAdds, HandDeletes
<1>5. CASE UNCHANGED vars
  BY <1>5 DEF vars, dnsVars
<1> QED
  BY <1>1, <1>2, <1>3, <1>4, <1>5 DEF Next, Progress

\* No run takes away or changes what another cluster or a person wrote, but
\* where the contract allows it (ForeignSurvives).
THEOREM OthersRecordsSurvive == Spec => ForeignSurvives
<1> DEFINE A ==
      dnsTask # "idle" /\ faults' = faults =>
        \A r \in records \ records' :
          /\ r.val = Other => r.name \in contested
          /\ r.val = Hand =>
               /\ \/ \E t \in Txts(dnsSnap, r.name) \union Txts(records, r.name) : t.val = Me
                  \/ dnsProvider = "hetzner" /\ r.kind = "TXT" /\ r.name \in DnsDesired
               /\ dnsProvider \in {"bunny", "godaddy"} => r.kind \in WireKinds
<1>1. EdgeInv /\ [Next]_vars => A
  <2> SUFFICES ASSUME EdgeInv, [Next]_vars, dnsTask # "idle", faults' = faults,
                      NEW r \in records \ records'
               PROVE  A
    OBVIOUS
  <2>1. PICK p \in dnsPending : Request(p)
    BY RunChangesByRequest
  <2> QED
    BY <2>1, RequestSparesOthers DEF EdgeInv
<1> QED
  BY EdgeInvariant, <1>1, PTL DEF ForeignSurvives, Spec

\* When `delete' reports success nothing recognisable as the cluster's is left
\* in the zone, and no pull zone the file knows (RemovedLeavesNothing).
THEOREM RemovalIsComplete == Spec => RemovedLeavesNothing
<1> DEFINE A == (DnsDone /\ cdnPc = "rdnsrun") \/ Removed =>
                  Leftover = {} /\ (Removed => ~ZoneIs(cdnFile.zone))
<1>1. EdgeInv => A
  <2>1. EdgeInv /\ DnsDone /\ cdnPc = "rdnsrun" => Leftover = {} /\ ~Removed
    BY DEF EdgeInv, DnsInv, TaskPc, Tagged, Awaited, Leftover, DnsDone, DnsFinish, Removed
  <2>2. EdgeInv /\ Removed => Leftover = {}
    BY DEF EdgeInv, DnsInv, Tagged, Removed, AfterRecords
  <2>3. EdgeInv /\ Removed => ~ZoneIs(cdnFile.zone)
    BY ZoneTypes, NoIdIsAbsent DEF EdgeInv, CdnInv, CdnFlow, Removed, ZoneIs
  <2> QED
    BY <2>1, <2>2, <2>3
<1> QED
  BY EdgeInvariant, <1>1, PTL DEF RemovedLeavesNothing

\* Outside the quiet times the pull zone changes by the CLI's requests alone,
\* each of them made of the zone it knows.
LEMMA ZoneChanges ==
  ASSUME EdgeInv, [Next]_vars, ~Idle, pullZone' # pullZone
  PROVE  /\ UNCHANGED dnsVars
         /\ \/ ~ZoneExists /\ cdnPc = "obtain" /\ ZoneExists'
            \/ ZoneIs(cdnMem.zone) /\ ZoneExists'
            \/ ZoneIs(cdnMem.zone) /\ cdnPc = "deletezone"
<1>1. CdnStep /\ UNCHANGED dnsVars
  BY DEF Next, Progress, StartDns, DnsDone, Removed, Failed, CdnFailing, ObtainFails, PolicyFails, GateFails,
         RuleConflict, ListConflict, Working, Apply, DeleteAll, CdnBegin, CdnStop, Interrupted,
         EditConfig, Others, CdnEnv, Idle, cdnRemote, cdnVars, vars
<1>2. CASE GetZone \/ AfterCertificates \/ Persist \/ PersistEdge
  BY <1>2 DEF GetZone, AfterCertificates, Persist, PersistEdge, cdnRemote
<1>3. CASE \/ CreateShieldZone \/ PatchShieldZone \/ ConvergeBot \/ RulesDone \/ ListsDone
           \/ \E n \in RuleNames : DeleteRule(n) \/ CreateRule(n) \/ UpdateRule(n)
           \/ \E n \in ListNames : DeleteList(n) \/ CreateList(n)
  BY <1>3 DEF CreateShieldZone, PatchShieldZone, ConvergeBot, RulesDone, ListsDone, DeleteRule,
              CreateRule, UpdateRule, DeleteList, CreateList, cdnRemote
<1>4. CASE CdnRecord \/ DescribeEdge \/ Forget
  BY <1>4 DEF CdnRecord, DescribeEdge, Forget, cdnRemote
<1>5. CASE DeleteZone
  BY <1>1, <1>5 DEF DeleteZone, cdnRemote
<1>6. ASSUME \/ CreateZone \/ UpdateZone
             \/ \E h \in Hostnames : AddHostname(h) \/ RemoveHostname(h)
             \/ \E h \in Hostnames, issued \in BOOLEAN : Certificate(h, issued)
      PROVE  ZoneExists' /\ (ZoneIs(cdnMem.zone) \/ (~ZoneExists /\ cdnPc = "obtain"))
  <2>1. CdnInv'
    BY <1>6, ZoneStepKeepsCdn DEF EdgeInv
  <2>2. CdnFlow /\ CdnFlow'
    BY <2>1 DEF EdgeInv, CdnInv
  <2>3. CASE CreateZone
    BY <2>2, <2>3 DEF CreateZone, CdnGoTo, CdnFlow
  <2>4. CASE UpdateZone
    BY <2>2, <2>4 DEF UpdateZone, CdnGoTo, CdnFlow, ZoneIs
  <2>5. CASE \E h \in Hostnames : AddHostname(h) \/ RemoveHostname(h)
    BY <2>2, <2>5 DEF AddHostname, RemoveHostname, CdnFlow, ZoneIs
  <2>6. CASE \E h \in Hostnames, issued \in BOOLEAN : Certificate(h, issued)
    BY <2>2, <2>6 DEF Certificate, CdnFlow, Converging, ZoneIs
  <2> QED
    BY <1>6, <2>3, <2>4, <2>5, <2>6
<1> QED
  BY <1>1, <1>2, <1>3, <1>4, <1>5, <1>6 DEF CdnStep

\* No record comes to point at a pull zone that is not there, but by a person's
\* hand or where `delete' could not know it (NoDanglingRecord).
THEOREM NothingDangles == Spec => NoDanglingRecord
<1> DEFINE A == \A r \in Dangling' \ Dangling : Idle \/ r.name \in orphaned \union contested
<1>1. EdgeInv /\ [Next]_vars => A
  <2> SUFFICES ASSUME EdgeInv, [Next]_vars, NEW r \in Dangling', r \notin Dangling, ~Idle
               PROVE  r.name \in orphaned \union contested
    OBVIOUS
  <2>1. ~ZoneExists' /\ r \in records' /\ r.val = "cdn"
    BY DEF Dangling, ZoneExists
  <2>2. CASE pullZone' # pullZone
    <3>1. records' = records /\ cdnPc = "deletezone"
      BY <2>1, <2>2, ZoneChanges DEF dnsVars
    <3>2. r \in records /\ Mine(r)
      <4>1. r \in records /\ r \in Records
        BY <2>1, <3>1 DEF EdgeInv, DnsInv, DnsTypes
      <4> QED
        BY <2>1, <4>1, RecordTypes, Vals DEF Mine
    <3> QED
      BY <3>1, <3>2 DEF EdgeInv, DnsInv, Tagged, AfterRecords, Leftover
  <2>3. CASE pullZone' = pullZone
    <3>1. ~ZoneExists /\ r \notin records
      BY <2>1, <2>3 DEF Dangling, ZoneExists
    <3>2. PICK p \in dnsPending : Request(p) /\ UNCHANGED cdnVars
      BY <2>1, <3>1, AddsByRequest
    <3>3. r = p.ask.new /\ p.ask.op # "delete"
      BY <2>1, <3>1, <3>2, RequestChanges DEF EdgeInv
    <3>4. cdnWanted # Absent /\ cdnPc = "dnsrun"
      BY <2>1, <3>3 DEF EdgeInv, DnsInv, DnsTypes, TaskPc, Asked, Claimed, Ordered
    <3> QED
      BY <3>1, <3>4 DEF EdgeInv, CdnInv, CdnFlow, Pointing, ZoneIs
  <2> QED
    BY <2>2, <2>3
<1> QED
  BY EdgeInvariant, <1>1, PTL DEF NoDanglingRecord, Spec

\* What the outputs file does not record is never changed by the CLI: neither a
\* rate limit nor a pull zone (OnlyRecordedTouched).
THEOREM UnrecordedUntouched == Spec => OnlyRecordedTouched
<1> DEFINE A ==
      ~Idle =>
        /\ ZoneExists /\ pullZone' # pullZone => cdnMem.zone = pullZone.id
        /\ shield # Absent /\ shield' # Absent =>
             \A n \in RuleNames : shield.rules[n] \notin {Absent, shield'.rules[n]} =>
                                    shield.rules[n].id = cdnMem.rules[n]
<1>1. EdgeInv /\ [Next]_vars => A
  <2> SUFFICES ASSUME EdgeInv, [Next]_vars, ~Idle PROVE A
    OBVIOUS
  <2>1. ZoneExists /\ pullZone' # pullZone => cdnMem.zone = pullZone.id
    BY ZoneChanges DEF ZoneIs
  <2>2. ASSUME shield # Absent, shield' # Absent,
               NEW n \in RuleNames, shield.rules[n] \notin {Absent, shield'.rules[n]}
        PROVE  shield.rules[n].id = cdnMem.rules[n]
    <3>1. CdnInv /\ shield' # shield
      BY <2>2 DEF EdgeInv
    <3>2. CdnStep
      BY <3>1
         DEF Next, Progress, StartDns, DnsDone, Removed, Failed, CdnFailing, ObtainFails, PolicyFails, GateFails,
             RuleConflict, ListConflict, Working, Apply, DeleteAll, CdnBegin, CdnStop, Interrupted,
             EditConfig, Others, CdnEnv, Idle, cdnRemote, cdnVars, vars
    <3>3. shield \in Shields
      BY <2>2, <3>1, ShieldTypes
    <3>4. CASE \/ GetZone \/ AfterCertificates \/ Persist \/ PersistEdge \/ CreateZone \/ UpdateZone
               \/ \E h \in Hostnames : AddHostname(h) \/ RemoveHostname(h)
               \/ \E h \in Hostnames, issued \in BOOLEAN : Certificate(h, issued)
               \/ RulesDone \/ ListsDone \/ CdnRecord \/ DescribeEdge \/ Forget
      BY <3>1, <3>4
         DEF GetZone, AfterCertificates, Persist, PersistEdge, CreateZone, UpdateZone, AddHostname,
             RemoveHostname, Certificate, RulesDone, ListsDone, CdnRecord, DescribeEdge, Forget, cdnRemote
    <3>5. CASE CreateShieldZone \/ DeleteZone
      BY <2>2, <3>1, <3>5 DEF CreateShieldZone, DeleteZone, cdnRemote
    <3>6. CASE PatchShieldZone \/ ConvergeBot
      <4>1. shield'.rules = shield.rules
        BY <3>3, <3>6 DEF PatchShieldZone, ConvergeBot, Shields
      <4> QED
        BY <2>2, <4>1
    <3>7. ASSUME NEW m \in ListNames, DeleteList(m) \/ CreateList(m) PROVE FALSE
      <4>1. shield'.rules = shield.rules
        BY <3>3, <3>7 DEF DeleteList, CreateList, Shields
      <4> QED
        BY <2>2, <4>1
    <3>8. ASSUME NEW m \in RuleNames, DeleteRule(m) \/ CreateRule(m) \/ UpdateRule(m)
          PROVE  shield.rules[n].id = cdnMem.rules[n]
      <4>1. PICK rule : shield' = [shield EXCEPT !.rules[m] = rule]
        BY <3>8 DEF DeleteRule, CreateRule, UpdateRule
      <4>2. m # n => shield'.rules[n] = shield.rules[n]
        BY <3>3, <4>1 DEF Shields
      <4>3. RuleIsOurs(m) \/ shield.rules[m] = Absent
        BY <3>8 DEF DeleteRule, CreateRule, UpdateRule, StaleRules
      <4> QED
        BY <2>2, <4>2, <4>3 DEF RuleIsOurs
    <3> QED
      BY <3>2, <3>4, <3>5, <3>6, <3>7, <3>8 DEF CdnStep
  <2> QED
    BY <2>1, <2>2
<1> QED
  BY EdgeInvariant, <1>1, PTL DEF OnlyRecordedTouched, Spec

=============================================================================
