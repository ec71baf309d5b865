--------------------------------- MODULE Cdn ---------------------------------
(***************************************************************************)
(* The pull zone in front of a cluster, its hostnames and certificates and *)
(* its Shield: what bunny has, what <cluster>.cdn.yaml records of it, and  *)
(* the requests of `apply' and `delete' one by one.  Only what the file    *)
(* records is known to be the cluster's.  Sources: cli/src/cdn.ts,         *)
(* bunny/cdn, bunny/client.                                                *)
(***************************************************************************)
EXTENDS Naturals, FiniteSets

CONSTANTS
  Absent,
  Hostnames, RuleNames, ListNames,
  CdnConfigs,   \* the cdn blocks the operator may write
  RuleLimit,    \* the rate limits a Shield plan allows
  ListLimit,    \* the access lists, and their entries
  MaxIds        \* bound: ids in use at a time

Ids == 1..MaxIds
NoRules == [n \in RuleNames |-> Absent]
NoLists == [n \in ListNames |-> Absent]
NoFile == [zone |-> Absent, shield |-> FALSE, rules |-> NoRules, lists |-> NoLists]

\* A config: setting (origin, cache, tier, ...), hosts, ssl, and shield with
\* its plan (with the sensitivity, of which bunny has no "challenge"), the
\* configuration of each rule and the type of each list.
Reset == [plan |-> "reset", rules |-> NoRules, lists |-> NoLists]
Settings == {c.setting : c \in CdnConfigs \ {Absent}} \union {"byhand"}
Policies == {c.shield : c \in {d \in CdnConfigs \ {Absent} : d.shield # Absent}} \union {Reset}
Plans == {p.plan : p \in Policies}
RuleConfigs == {p.rules[n] : p \in Policies, n \in RuleNames} \union {Absent, "byhand"}
ListTypes == {p.lists[n] : p \in Policies, n \in ListNames} \union {Absent}

\* What bunny and the outputs file hold
Rules == [id : Ids, cfg : RuleConfigs]
Lists == [id : Ids, type : ListTypes]
Shields == [plan : Plans, bot : Plans,
            rules : [RuleNames -> Rules \union {Absent}],
            lists : [ListNames -> Lists \union {Absent}]]
PullZones == [id : Ids, setting : Settings,
              hosts : SUBSET Hostnames, certs : SUBSET Hostnames, ssl : SUBSET Hostnames]
Files == [zone : Ids \union {Absent}, shield : BOOLEAN,
          rules : [RuleNames -> Ids \union {Absent}], lists : [ListNames -> Ids \union {Absent}]]

\* The zone, Shield and outputs file each know one pull zone and one rule or
\* list of a name, so that many ids leave one that nobody uses.
ASSUME CdnAssumption ==
  /\ IsFiniteSet(RuleNames) /\ IsFiniteSet(ListNames)
  /\ MaxIds \in Nat /\ MaxIds > 3 * (1 + Cardinality(RuleNames) + Cardinality(ListNames))
  /\ Absent \notin Ids \union Rules \union Lists \union Shields \union PullZones
  /\ \A c \in CdnConfigs \ {Absent} : c.hosts \subseteq Hostnames /\ c.ssl \in BOOLEAN
  /\ \A p \in Policies : /\ p.rules \in [RuleNames -> RuleConfigs]
                         /\ p.lists \in [ListNames -> ListTypes]
  /\ RuleLimit \in [Plans -> Nat] /\ ListLimit \in [Plans -> Nat]

VARIABLES
  cdnWanted,  \* the cdn block of the config
  pullZone,   \* the pull zone that has our name
  shield,     \* its Shield zone
  cdnFile,    \* the outputs file
  cdnMem,     \* what the process holds of it
  cdnPc       \* where the process is

cdnRemote == <<pullZone, shield>>
cdnVars == <<cdnWanted, pullZone, shield, cdnFile, cdnMem, cdnPc>>

ZoneExists == pullZone # Absent
ZoneIs(id) == ZoneExists /\ pullZone.id = id
ShieldIds == IF shield = Absent THEN {}
             ELSE {shield.rules[n].id : n \in {m \in RuleNames : shield.rules[m] # Absent}}
                  \union {shield.lists[n].id : n \in {m \in ListNames : shield.lists[m] # Absent}}
FileIds(f) == ({f.zone} \union {f.rules[n] : n \in RuleNames} \union {f.lists[n] : n \in ListNames})
              \ {Absent}
UsedIds == (IF ZoneExists THEN {pullZone.id} ELSE {})
           \union ShieldIds \union FileIds(cdnFile) \union FileIds(cdnMem)

\* bunny never gives an id twice.
Fresh == CHOOSE id \in Ids : id \notin UsedIds

CdnInit ==
  /\ pullZone = Absent /\ shield = Absent
  /\ cdnFile = NoFile /\ cdnMem = NoFile
  /\ cdnPc = "idle"

CdnGoTo(pc) == cdnPc' = pc /\ UNCHANGED <<cdnWanted, cdnFile, cdnMem>>

\* The process ends; what it holds is lost.
CdnStop == /\ cdnPc' = "idle" /\ cdnMem' = NoFile
           /\ UNCHANGED <<cdnWanted, pullZone, shield, cdnFile>>

-----------------------------------------------------------------------------
(* cdnPlanActions: whether apply has a row to work on                      *)

\* _shieldRows: rules and lists by name, the plan and the WAF not at all.
ShieldHasWork ==
  LET wanted == cdnWanted.shield IN
  IF wanted = Absent THEN cdnFile.shield
  ELSE \/ ~cdnFile.shield
       \/ \E n \in RuleNames : (wanted.rules[n] = Absent) # (cdnFile.rules[n] = Absent)
       \/ \E n \in ListNames : (wanted.lists[n] = Absent) # (cdnFile.lists[n] = Absent)

CdnHasWork ==
  /\ cdnWanted # Absent
  /\ ZoneIs(cdnFile.zone) =>
       \/ pullZone.setting # cdnWanted.setting
       \/ pullZone.hosts # cdnWanted.hosts
       \/ ShieldHasWork

-----------------------------------------------------------------------------
(* applyCdn                                                                *)

\* cdnHandleFor reads the file once.
CdnBegin(pc) ==
  /\ cdnPc = "idle"
  /\ cdnMem' = IF cdnWanted = Absent THEN NoFile ELSE cdnFile
  /\ cdnPc' = pc
  /\ UNCHANGED <<cdnWanted, pullZone, shield, cdnFile>>

\* obtainZone: the zone the file records is read ...
GetZone ==
  /\ cdnPc = "obtain" /\ cdnMem.zone # Absent
  /\ ZoneIs(cdnMem.zone)
  /\ CdnGoTo("update")
  /\ UNCHANGED cdnRemote

\* ... and when it is gone, or the name is taken, apply fails.
ObtainFails ==
  /\ cdnPc = "obtain"
  /\ IF cdnMem.zone # Absent THEN ~ZoneIs(cdnMem.zone) ELSE ZoneExists
  /\ CdnStop

CreateZone ==
  /\ cdnPc = "obtain" /\ cdnMem.zone = Absent /\ ~ZoneExists
  /\ pullZone' = [id |-> Fresh, setting |-> cdnWanted.setting,
                  hosts |-> {}, certs |-> {}, ssl |-> {}]
  /\ CdnGoTo("created")
  /\ UNCHANGED shield

\* onCreated: the id is on disk before anything else is asked of bunny.
Persist ==
  /\ cdnPc = "created"
  /\ cdnMem' = [cdnMem EXCEPT !.zone = pullZone.id]
  /\ cdnFile' = cdnMem'
  /\ cdnPc' = "update"
  /\ UNCHANGED <<cdnWanted, pullZone, shield>>

UpdateZone ==
  /\ cdnPc = "update"
  /\ pullZone' = [pullZone EXCEPT !.setting = cdnWanted.setting]
  /\ CdnGoTo("hosts")
  /\ UNCHANGED shield

AddHostname(h) ==
  /\ cdnPc = "hosts" /\ h \in cdnWanted.hosts \ pullZone.hosts
  /\ pullZone' = [pullZone EXCEPT !.hosts = @ \union {h}]
  /\ UNCHANGED <<cdnWanted, shield, cdnFile, cdnMem, cdnPc>>

\* Mutant of RemoveHostname: SSL stays forced for the name.
RemoveHostnameKeepsSSL(h) ==
  /\ cdnPc = "hosts" /\ cdnWanted.hosts \subseteq pullZone.hosts
  /\ h \in pullZone.hosts \ cdnWanted.hosts
  /\ pullZone' = [pullZone EXCEPT !.hosts = @ \ {h}, !.certs = @ \ {h}]
  /\ UNCHANGED <<cdnWanted, shield, cdnFile, cdnMem, cdnPc>>

RemoveHostname(h) ==
  /\ cdnPc = "hosts" /\ cdnWanted.hosts \subseteq pullZone.hosts
  /\ h \in pullZone.hosts \ cdnWanted.hosts
  /\ pullZone' = [pullZone EXCEPT !.hosts = @ \ {h}, !.certs = @ \ {h}, !.ssl = @ \ {h}]
  /\ UNCHANGED <<cdnWanted, shield, cdnFile, cdnMem, cdnPc>>

\* The edge is as wanted and the file is written again; DNS comes next.
PersistEdge ==
  /\ cdnPc = "hosts" /\ pullZone.hosts = cdnWanted.hosts
  /\ cdnFile' = cdnMem /\ cdnPc' = "dns"
  /\ UNCHANGED <<cdnWanted, pullZone, shield, cdnMem>>

\* ensureCertificates: bunny issues one or the ten minutes pass; SSL is forced
\* only with a certificate.
Certificate(h, issued) ==
  /\ cdnPc = "certs" /\ h \in cdnWanted.hosts
  /\ LET certs == IF issued THEN pullZone.certs \union {h} ELSE pullZone.certs
     IN pullZone' = [pullZone EXCEPT !.certs = certs,
                       !.ssl = IF ~cdnWanted.ssl THEN @ \ {h}
                               ELSE IF h \in certs THEN @ \union {h} ELSE @]
  /\ UNCHANGED <<cdnWanted, shield, cdnFile, cdnMem, cdnPc>>

\* A timeout or an error of the certificates is a warning; then the Shield,
\* which is reset when the config has none and the file remembers one.
AfterCertificates ==
  /\ cdnPc = "certs"
  /\ CdnGoTo(IF cdnWanted.shield = Absent /\ ~cdnMem.shield THEN "record" ELSE "zone")
  /\ UNCHANGED cdnRemote

-----------------------------------------------------------------------------
(* ensureSecurity: with the policy of the config, or to reset it           *)

Deleting == cdnPc \in {"reset", "rzone", "rbot", "rrules", "rlists"}

\* The policy this run converges the Shield to
Policy == IF Deleting \/ cdnWanted.shield = Absent THEN Reset ELSE cdnWanted.shield

ShieldPc(pc) == cdnPc \in {pc, CASE pc = "zone" -> "rzone" [] pc = "bot" -> "rbot"
                               [] pc = "rules" -> "rrules" [] pc = "lists" -> "rlists"}
ShieldGoTo(pc) ==
  CdnGoTo(IF ~Deleting THEN pc
          ELSE CASE pc = "bot" -> "rbot" [] pc = "rules" -> "rrules"
                 [] pc = "lists" -> "rlists" [] pc = "record" -> "deletezone")

\* _policy refuses the sensitivity the schema takes; the reset has none.
Expressible == Policy.plan # "challenge"

PolicyFails == ShieldPc("zone") /\ ~Expressible /\ CdnStop

CreateShieldZone ==
  /\ ShieldPc("zone") /\ Expressible /\ shield = Absent
  /\ shield' = [plan |-> Policy.plan, bot |-> Policy.plan, rules |-> NoRules, lists |-> NoLists]
  /\ ShieldGoTo("bot")
  /\ UNCHANGED pullZone

PatchShieldZone ==
  /\ ShieldPc("zone") /\ Expressible /\ shield # Absent
  /\ shield' = [shield EXCEPT !.plan = Policy.plan]
  /\ ShieldGoTo("bot")
  /\ UNCHANGED pullZone

RulesWanted == {n \in RuleNames : Policy.rules[n] # Absent}

ListsWanted == {n \in ListNames : Policy.lists[n] # Absent}

\* _gate and _gateLists: more rules or lists than the plan allows
Gated == \/ Cardinality(RulesWanted) > RuleLimit[Policy.plan]
         \/ Cardinality(ListsWanted) > ListLimit[Policy.plan]

GateFails == ShieldPc("bot") /\ Gated /\ CdnStop

\* Both gates pass; _convergeBot, of which the reset policy says nothing
ConvergeBot ==
  /\ ShieldPc("bot") /\ ~Gated
  /\ shield' = IF Policy = Reset THEN shield ELSE [shield EXCEPT !.bot = Policy.plan]
  /\ ShieldGoTo("rules")
  /\ UNCHANGED pullZone

RuleIsOurs(n) == shield.rules[n] # Absent /\ shield.rules[n].id = cdnMem.rules[n]
ListIsOurs(n) == shield.lists[n] # Absent /\ shield.lists[n].id = cdnMem.lists[n]

\* Mutant of StaleRules: what is not wanted goes, whoever made it.
StaleRulesByName ==
  {n \in RuleNames : shield.rules[n] # Absent /\ Policy.rules[n] = Absent}

\* _deleteStaleRules, _deleteStaleLists: recorded, there and not wanted
StaleRules == {n \in RuleNames : RuleIsOurs(n) /\ Policy.rules[n] = Absent}
StaleLists == {n \in ListNames : ListIsOurs(n) /\ Policy.lists[n] = Absent}

DeleteRule(n) ==
  /\ ShieldPc("rules") /\ n \in StaleRules
  /\ shield' = [shield EXCEPT !.rules[n] = Absent]
  /\ UNCHANGED <<cdnWanted, pullZone, cdnFile, cdnMem, cdnPc>>

\* A rule of the name that the file does not record is a conflict.
RuleConflict ==
  /\ ShieldPc("rules") /\ StaleRules = {}
  /\ \E n \in RulesWanted : shield.rules[n] # Absent /\ ~RuleIsOurs(n)
  /\ CdnStop

\* The id of a new rule is known to nobody yet.
CreateRule(n) ==
  /\ ShieldPc("rules") /\ StaleRules = {} /\ n \in RulesWanted
  /\ shield.rules[n] = Absent
  /\ shield' = [shield EXCEPT !.rules[n] = [id |-> Fresh, cfg |-> Policy.rules[n]]]
  /\ cdnMem' = [cdnMem EXCEPT !.rules[n] = Fresh]
  /\ UNCHANGED <<cdnWanted, pullZone, cdnFile, cdnPc>>

UpdateRule(n) ==
  /\ ShieldPc("rules") /\ StaleRules = {} /\ n \in RulesWanted
  /\ RuleIsOurs(n) /\ shield.rules[n].cfg # Policy.rules[n]
  /\ shield' = [shield EXCEPT !.rules[n].cfg = Policy.rules[n]]
  /\ UNCHANGED <<cdnWanted, pullZone, cdnFile, cdnMem, cdnPc>>

RulesDone ==
  /\ ShieldPc("rules") /\ StaleRules = {}
  /\ \A n \in RulesWanted : RuleIsOurs(n) /\ shield.rules[n].cfg = Policy.rules[n]
  /\ ShieldGoTo("lists")
  /\ UNCHANGED cdnRemote

\* A stale list, or one whose type changed: it is deleted, to be made again.
DeleteList(n) ==
  /\ ShieldPc("lists")
  /\ \/ n \in StaleLists
     \/ /\ StaleLists = {} /\ n \in ListsWanted /\ ListIsOurs(n)
        /\ shield.lists[n].type # Policy.lists[n]
  /\ shield' = [shield EXCEPT !.lists[n] = Absent]
  /\ UNCHANGED <<cdnWanted, pullZone, cdnFile, cdnMem, cdnPc>>

ListConflict ==
  /\ ShieldPc("lists") /\ StaleLists = {}
  /\ \E n \in ListsWanted : shield.lists[n] # Absent /\ ~ListIsOurs(n)
  /\ CdnStop

CreateList(n) ==
  /\ ShieldPc("lists") /\ StaleLists = {} /\ n \in ListsWanted
  /\ shield.lists[n] = Absent
  /\ shield' = [shield EXCEPT !.lists[n] = [id |-> Fresh, type |-> Policy.lists[n]]]
  /\ cdnMem' = [cdnMem EXCEPT !.lists[n] = Fresh]
  /\ UNCHANGED <<cdnWanted, pullZone, cdnFile, cdnPc>>

\* _convergeListActions; the file learns of rules and lists only now.
ListsDone ==
  /\ ShieldPc("lists") /\ StaleLists = {}
  /\ \A n \in ListsWanted : ListIsOurs(n) /\ shield.lists[n].type = Policy.lists[n]
  /\ cdnMem' = [cdnMem EXCEPT !.shield = TRUE,
                 !.rules = [n \in RuleNames |-> IF n \in RulesWanted THEN cdnMem.rules[n] ELSE Absent],
                 !.lists = [n \in ListNames |-> IF n \in ListsWanted THEN cdnMem.lists[n] ELSE Absent]]
  /\ cdnPc' = IF Deleting THEN "deletezone" ELSE "record"
  /\ UNCHANGED <<cdnWanted, pullZone, shield, cdnFile>>

\* The last line of applyCdn
CdnRecord ==
  /\ cdnPc = "record"
  /\ cdnFile' = cdnMem
  /\ cdnPc' = "idle" /\ cdnMem' = NoFile
  /\ UNCHANGED <<cdnWanted, pullZone, shield>>

-----------------------------------------------------------------------------
(* removeCdn, after the records are gone                                   *)

DescribeEdge ==
  /\ cdnPc = "describe"
  /\ CdnGoTo(IF cdnMem.zone = Absent THEN "removed"
             ELSE IF ~ZoneIs(cdnMem.zone) THEN "forget"
             ELSE IF cdnMem.shield THEN "rzone" ELSE "deletezone")
  /\ UNCHANGED cdnRemote

\* deletePullZone; a 404 is as good.
DeleteZone ==
  /\ cdnPc = "deletezone"
  /\ IF ZoneIs(cdnMem.zone) THEN pullZone' = Absent /\ shield' = Absent
     ELSE UNCHANGED cdnRemote
  /\ CdnGoTo("forget")

Forget ==
  /\ cdnPc = "forget"
  /\ cdnFile' = NoFile /\ cdnMem' = NoFile /\ cdnPc' = "removed"
  /\ UNCHANGED <<cdnWanted, pullZone, shield>>

CdnFailing == ObtainFails \/ PolicyFails \/ GateFails \/ RuleConflict \/ ListConflict

CdnStep ==
  \/ GetZone \/ CreateZone \/ Persist \/ UpdateZone \/ PersistEdge
  \/ \E h \in Hostnames : AddHostname(h) \/ RemoveHostname(h)
  \/ \E h \in Hostnames, issued \in BOOLEAN : Certificate(h, issued)
  \/ AfterCertificates \/ CreateShieldZone \/ PatchShieldZone \/ ConvergeBot
  \/ \E n \in RuleNames : DeleteRule(n) \/ CreateRule(n) \/ UpdateRule(n)
  \/ \E n \in ListNames : DeleteList(n) \/ CreateList(n)
  \/ RulesDone \/ ListsDone \/ CdnRecord
  \/ DescribeEdge \/ DeleteZone \/ Forget

-----------------------------------------------------------------------------
(* People at the dashboard, between runs                                   *)

HandRemovesZone == ZoneExists /\ pullZone' = Absent /\ shield' = Absent

HandAddsRule(n) ==
  /\ shield # Absent /\ shield.rules[n] = Absent
  /\ shield' = [shield EXCEPT !.rules[n] = [id |-> Fresh, cfg |-> "byhand"]]
  /\ UNCHANGED pullZone

HandEdits == /\ ZoneExists
             /\ pullZone' = [pullZone EXCEPT !.setting = "byhand"]
             /\ UNCHANGED shield

CdnEnv == /\ cdnPc = "idle"
          /\ HandRemovesZone \/ HandEdits \/ \E n \in RuleNames : HandAddsRule(n)
          /\ UNCHANGED <<cdnWanted, cdnFile, cdnMem, cdnPc>>
=============================================================================
