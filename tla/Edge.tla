-------------------------------- MODULE Edge --------------------------------
(***************************************************************************)
(* The edge of a cluster: `apply' makes the pull zone, points the records  *)
(* at it, then does certificates and Shield; `delete' takes the records    *)
(* away and then the pull zone.  Composes Dns and Cdn as applyCdn and      *)
(* removeCdn do.  Sources: cli/src/cdn.ts, cli/src/commands.ts.            *)
(***************************************************************************)
EXTENDS Dns, Cdn

CONSTANTS
  EdgeConfigs,  \* [provider, dns, cdn]: the configs the operator may write
  MaxEdits      \* bound: edits of the config, and deletions

ASSUME EdgeAssumption ==
  /\ MaxEdits \in Nat
  /\ \A c \in EdgeConfigs :
       /\ c.provider \in {"ovh", "hetzner", "bunny", "godaddy"}
       /\ c.dns \in [DnsNames -> Targets \union {Unasked}]
       /\ c.cdn \in CdnConfigs
       /\ \A n \in DnsNames : c.dns[n] = "cdn" => c.cdn # Absent

VARIABLE edits

vars == <<dnsVars, cdnVars, edits>>

SetConfig(c) == dnsProvider' = c.provider /\ dnsWanted' = c.dns /\ cdnWanted' = c.cdn

Init ==
  /\ \E c \in EdgeConfigs : dnsProvider = c.provider /\ dnsWanted = c.dns /\ cdnWanted = c.cdn
  /\ DnsInit /\ CdnInit
  /\ edits = 0

Idle == cdnPc = "idle"

-----------------------------------------------------------------------------
\* dnsPlanActions: a Create row for every record, whatever the zone holds.
HasWork == DnsDesired # {} \/ CdnHasWork

Apply ==
  /\ Idle /\ HasWork
  /\ CdnBegin(IF cdnWanted = Absent THEN "dns" ELSE "obtain")
  /\ UNCHANGED <<dnsVars, edits>>

\* `delete' of a cluster that may still have anything
DeleteAll ==
  /\ Idle
  /\ edits < MaxEdits /\ edits' = edits + 1
  /\ CdnBegin("rdns")
  /\ UNCHANGED dnsVars

\* The dns argument of applyCdn and removeCdn
StartDns ==
  /\ \/ cdnPc = "dns" /\ DnsStart("ensure") /\ CdnGoTo("dnsrun")
     \/ cdnPc = "rdns" /\ DnsStart("remove") /\ CdnGoTo("rdnsrun")
  /\ UNCHANGED <<cdnRemote, edits>>

\* Mutant of DnsDone: the pull zone does not wait for the records.
DnsDoneEarly ==
  /\ cdnPc \in {"dnsrun", "rdnsrun"}
  /\ DnsStop /\ UNCHANGED faults
  /\ IF cdnWanted = Absent THEN CdnStop
     ELSE CdnGoTo(IF cdnPc = "dnsrun" THEN "certs" ELSE "describe") /\ UNCHANGED cdnRemote
  /\ UNCHANGED edits

DnsDone ==
  /\ cdnPc \in {"dnsrun", "rdnsrun"}
  /\ DnsFinish
  /\ IF cdnWanted = Absent THEN CdnStop
     ELSE CdnGoTo(IF cdnPc = "dnsrun" THEN "certs" ELSE "describe") /\ UNCHANGED cdnRemote
  /\ UNCHANGED edits

\* `delete' reports success.
Removed ==
  /\ cdnPc = "removed"
  /\ CdnStop
  /\ UNCHANGED <<dnsVars, edits>>

Failed ==
  /\ \/ DnsFailing /\ CdnStop
     \/ CdnFailing /\ UNCHANGED dnsVars
  /\ UNCHANGED edits

Working ==
  \/ DnsStep /\ UNCHANGED <<cdnVars, edits>>
  \/ CdnStep /\ UNCHANGED <<dnsVars, edits>>

Interrupted ==
  /\ ~Idle /\ faults < MaxFaults /\ faults' = faults + 1
  /\ DnsStop /\ CdnStop
  /\ UNCHANGED edits

EditConfig ==
  /\ Idle
  /\ edits < MaxEdits /\ edits' = edits + 1
  /\ \E c \in EdgeConfigs :
       /\ c.provider = dnsProvider
       /\ c.dns # dnsWanted \/ c.cdn # cdnWanted
       /\ SetConfig(c)
  /\ UNCHANGED <<records, dnsRun, orphaned, contested, faults, cdnRemote, cdnFile, cdnMem, cdnPc>>

Others ==
  /\ \/ DnsEnv /\ UNCHANGED cdnVars
     \/ /\ faults < MaxFaults /\ faults' = faults + 1
        /\ CdnEnv
        /\ UNCHANGED <<dnsConfig, records, dnsRun, orphaned, contested>>
  /\ UNCHANGED edits

Progress == StartDns \/ DnsDone \/ Removed \/ Failed \/ Working

Next == Progress \/ Apply \/ DeleteAll \/ Interrupted \/ EditConfig \/ Others

Spec == Init /\ [][Next]_vars

\* The process runs on, and the operator re-runs apply while it has work.
FairSpec == Spec /\ WF_vars(Progress) /\ SF_vars(Apply)

-----------------------------------------------------------------------------
TypeOK ==
  /\ \E c \in EdgeConfigs : dnsProvider = c.provider /\ dnsWanted = c.dns /\ cdnWanted = c.cdn
  /\ records \subseteq Records /\ dnsSnap \subseteq Records
  /\ dnsTask \in {"idle", "ensure", "remove"}
  /\ dnsLeft \subseteq DnsNames
  /\ \A p \in dnsPending : p.ask.old \in Records /\ p.ask.new \in Records
  /\ orphaned \subseteq DnsNames /\ contested \subseteq DnsNames
  /\ faults \in 0..MaxFaults /\ edits \in 0..MaxEdits
  /\ ZoneExists => /\ pullZone.id \in Ids /\ pullZone.setting \in Settings
                   /\ pullZone.ssl \subseteq pullZone.certs
                   /\ pullZone.certs \subseteq pullZone.hosts
  /\ shield # Absent => ZoneExists /\ shield.plan \in Plans /\ ShieldIds \subseteq Ids
  /\ FileIds(cdnFile) \union FileIds(cdnMem) \subseteq Ids

\* Whose records a run may take away or change.  Another cluster's only at a
\* name both claimed at once, or whose tag was hidden.  A person's only at a
\* name that carries the cluster's tag (ovh and hetzner: of any kind; bunny and
\* godaddy: of a kind they write themselves), and under hetzner also a person's
\* TXT at a name the config asks for, since the tag is put there in place of the
\* whole set.  This is what the code keeps; the design promises more ("only
\* ever touch records the module created", kumulo-design.md:216).
ForeignSurvives ==
  [][dnsTask # "idle" /\ faults' = faults =>
       \A r \in records \ records' :
         /\ r.val = Other => r.name \in contested
         /\ r.val = Hand =>
              /\ \/ \E t \in Txts(dnsSnap, r.name) \union Txts(records, r.name) : t.val = Me
                 \/ dnsProvider = "hetzner" /\ r.kind = "TXT" /\ r.name \in DnsDesired
              /\ dnsProvider \in {"bunny", "godaddy"} => r.kind \in WireKinds]_vars

Leftover == {r \in records : Mine(r) /\ r.name \notin orphaned \union contested}

\* When delete reports success, nothing of the cluster is left: no record but
\* those whose tag was lost before and those at contested names, and no pull
\* zone that the file knew.
RemovedLeavesNothing ==
  [][(DnsDone /\ cdnPc = "rdnsrun") \/ Removed =>
       Leftover = {} /\ (Removed => ~ZoneIs(cdnFile.zone))]_vars

Dangling == IF ZoneExists THEN {} ELSE {r \in records : r.val = "cdn"}

\* No record is left pointing at a pull zone that is gone, or not there yet,
\* unless a person deleted it or the record is one `delete' cannot recognise.
NoDanglingRecord ==
  [][\A r \in Dangling' \ Dangling : Idle \/ r.name \in orphaned \union contested]_vars

\* What the outputs file does not record is never changed: a rate limit or a
\* pull zone made by hand stays, whatever its name.
OnlyRecordedTouched ==
  [][~Idle =>
       /\ ZoneExists /\ pullZone' # pullZone => cdnMem.zone = pullZone.id
       /\ shield # Absent /\ shield' # Absent =>
            \A n \in RuleNames : shield.rules[n] \notin {Absent, shield'.rules[n]} =>
                                   shield.rules[n].id = cdnMem.rules[n]]_vars

-----------------------------------------------------------------------------
\* Dead ends, each of which only a person resolves.
NameBlocked == \/ ApexRefused
               \/ \E n \in DnsDesired : \E tags \in SeenTags(records, n) : Refused(records, n, tags)
ZoneStranded == cdnWanted # Absent
                /\ IF cdnFile.zone = Absent THEN ZoneExists ELSE ~ZoneIs(cdnFile.zone)
ShieldStranded ==
  /\ cdnWanted # Absent /\ shield # Absent
  /\ \/ \E n \in RulesWanted : shield.rules[n] # Absent /\ shield.rules[n].id # cdnFile.rules[n]
     \/ \E n \in ListsWanted : shield.lists[n] # Absent /\ shield.lists[n].id # cdnFile.lists[n]
PolicyRefused == cdnWanted # Absent /\ (Gated \/ ~Expressible)
\* A change of the Shield that no row of the plan shows
Unseen == DnsDesired = {} /\ ~CdnHasWork
Stuck == NameBlocked \/ ZoneStranded \/ ShieldStranded \/ PolicyRefused \/ Unseen

EdgeServed ==
  /\ \A n \in DnsDesired : {Wanted(n), Tag(n)} \subseteq records
  /\ cdnWanted # Absent =>
       /\ ZoneIs(cdnFile.zone)
       /\ pullZone.setting = cdnWanted.setting /\ pullZone.hosts = cdnWanted.hosts
       /\ cdnWanted.shield # Absent =>
            /\ shield # Absent /\ shield.plan = Policy.plan
            /\ \A n \in RuleNames : Policy.rules[n] # Absent =>
                 shield.rules[n] # Absent /\ shield.rules[n].cfg = Policy.rules[n]
            /\ \A n \in ListNames : Policy.lists[n] # Absent =>
                 shield.lists[n] # Absent /\ shield.lists[n].type = Policy.lists[n]

\* Re-running apply brings the edge to what the config asks, unless it runs
\* into one of the dead ends above.
EventuallyServed == <>[]EdgeServed \/ []<>Stuck
=============================================================================
