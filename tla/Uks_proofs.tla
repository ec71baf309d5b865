------------------------------ MODULE Uks_proofs ------------------------------
(***************************************************************************)
(* What holds of UksPools, and of Uks around it, for any pools, specs,     *)
(* configs, faults and edits.  PoolInv relates what is left of the diff to *)
(* the groups that exist: the diff is computed once and carried out over   *)
(* many steps, in which groups fail and are created.  UksInv relates the   *)
(* phase of a run to what the earlier phases have left.                    *)
(***************************************************************************)
EXTENDS Uks, WellFoundedInduction, TLAPS

\* A loop that is over has nothing left; outside the loops there is no diff.
LoopsInOrder ==
  /\ pc # "create" => toCreate = {}
  /\ pc \notin {"create", "replace"} => toReplace = {}
  /\ pc \notin {"create", "replace", "update"} => toUpdate = {}
  /\ pc \notin Loops => toDelete = {}

\* What is created on the side of nothing: the pool has no group.
CreatesFirst ==
  \A g \in toCreate : g[1] \in Desired /\ g = Wanted(g[1]) /\ Generations(g[1]) = {}

\* What replaces a generation is the wanted one of the same, confirmed, pool.
ReplacesConfirmed ==
  \A r \in toReplace : /\ r[2][1] \in Desired \intersect replace
                       /\ r[1] = Wanted(r[2][1])
                       /\ r[1] # r[2]

\* What is deleted of a desired pool is not the wanted generation, which
\* exists or is yet to be created as a replacement.
DeletesStale ==
  \A g \in toDelete : g[1] \in Desired =>
    /\ g # Wanted(g[1])
    /\ Wanted(g[1]) \in Listed \union {r[1] : r \in toReplace}

PoolInv == LoopsInOrder /\ CreatesFirst /\ ReplacesConfirmed /\ DeletesStale

\* A pool that drifted after the operator was asked is left alone.
LeftAlone(p) == p \notin replace /\ Wanted(p) \notin Listed /\ Wanted(p) \notin toCreate

\* What a desired pool still lacks, and what it has too much, is in the diff.
InTheDiff(p) ==
  /\ Wanted(p) \in Listed \union toCreate \union {r[1] : r \in toReplace}
  /\ Wanted(p) \in Listed => count[Wanted(p)] = config.count[p] \/ Wanted(p) \in toUpdate
  /\ Generations(p) \ {Wanted(p)} \subseteq toDelete \union {r[2] : r \in toReplace}

AccountedFor ==
  pc \in Loops => /\ Undesired \subseteq toDelete
                  /\ \A p \in Desired : LeftAlone(p) \/ InTheDiff(p)

Inv == TypeOK /\ PoolInv /\ AccountedFor

-----------------------------------------------------------------------------
LEMMA WantedGroup ==
  ASSUME TypeOK, NEW p \in Desired
  PROVE  /\ p \in Pools
         /\ Wanted(p) \in Groups /\ Wanted(p)[1] = p
         /\ config.count[p] \in CountsOf /\ config.count[p] \in Nat
<1>1. /\ p \in Pools /\ config.hash[p] # Absent
      /\ config \in Configs
  BY DEF TypeOK, Desired
<1>2. config.hash[p] \in Hashes /\ config.count[p] \in Nat
  BY <1>1, PoolsAssumption
<1> QED
  BY <1>1, <1>2 DEF Wanted, Groups, CountsOf

\* A pool that has groups has a first one.
LEMMA LiveIsGeneration ==
  ASSUME NEW p, Generations(p) # {}
  PROVE  LiveGeneration(p) \in Generations(p)
<1> DEFINE Ranks == {Rank[g[2]] : g \in Generations(p)}
<1> DEFINE Before == {q \in Nat \X Nat : q[1] < q[2]}
<1>1. Ranks \in SUBSET Nat /\ Ranks # {}
  BY PoolsAssumption DEF Generations, Listed, Groups
<1>2. IsWellFoundedOn(Before, Nat)
  BY NatLessThanWellFounded DEF OpToRel
<1>3. PICK t \in Ranks : \A u \in Ranks : <<u, t>> \notin Before
  <2> HIDE DEF Before, Ranks
  <2> QED
    BY <1>1, <1>2, WFMin
<1>4. ASSUME NEW u \in Ranks PROVE t <= u
  <2> HIDE DEF Ranks
  <2>1. t \in Nat /\ u \in Nat
    BY <1>1, <1>4
  <2>2. <<u, t>> \notin Before
    BY <1>3, <1>4
  <2> QED
    BY <2>1, <2>2
<1>5. \E g \in Generations(p) : \A h \in Generations(p) : Rank[g[2]] <= Rank[h[2]]
  BY <1>4
<1> QED
  BY <1>5 DEF LiveGeneration

-----------------------------------------------------------------------------
LEMMA InitInv == Init => Inv
<1> SUFFICES ASSUME Init PROVE Inv
  OBVIOUS
<1>1. TypeOK
  BY PoolsAssumption DEF Init, TypeOK, CountsOf
<1>2. PoolInv
  BY DEF Init, PoolInv, LoopsInOrder, CreatesFirst, ReplacesConfirmed, DeletesStale
<1>3. AccountedFor
  BY DEF Init, AccountedFor, Loops
<1> QED
  BY <1>1, <1>2, <1>3 DEF Inv

\* Whoever stops the process leaves nothing of the diff.
LEMMA ExitInv ==
  ASSUME Inv, Exit, UNCHANGED <<config, state, count, edits>>, faults' \in 0..MaxFaults
  PROVE  Inv'
<1>1. TypeOK'
  BY DEF Inv, TypeOK, Exit
<1>2. PoolInv'
  BY DEF Exit, PoolInv, LoopsInOrder, CreatesFirst, ReplacesConfirmed, DeletesStale
<1>3. AccountedFor'
  BY DEF Exit, AccountedFor, Loops
<1> QED
  BY <1>1, <1>2, <1>3 DEF Inv

\* Outside the loops only the types matter.
LEMMA OutsideLoops ==
  ASSUME Inv, TypeOK', pc \notin Loops, pc' \notin Loops, UNCHANGED diff
  PROVE  Inv'
<1>1. diff' = <<{}, {}, {}, {}>>
  BY DEF Inv, PoolInv, LoopsInOrder, Loops, diff
<1>2. PoolInv'
  BY <1>1 DEF diff, PoolInv, LoopsInOrder, CreatesFirst, ReplacesConfirmed, DeletesStale
<1>3. AccountedFor'
  BY DEF AccountedFor
<1> QED
  BY <1>2, <1>3 DEF Inv

\* What UpCloud does by itself neither adds a group to the list nor drops one.
LEMMA SameList ==
  ASSUME Inv, TypeOK', Listed' = Listed, UNCHANGED <<config, run>>,
         \A g \in Listed : count'[g] = count[g]
  PROVE  Inv'
<1>1. /\ Desired' = Desired /\ Undesired' = Undesired
      /\ \A p : Wanted(p)' = Wanted(p) /\ Generations(p)' = Generations(p)
  BY DEF Desired, Undesired, Wanted, Generations
<1>2. PoolInv'
  BY <1>1 DEF Inv, run, PoolInv, LoopsInOrder, CreatesFirst, ReplacesConfirmed, DeletesStale
<1>3. AccountedFor'
  <2>1. /\ pc \in Loops => Undesired \subseteq toDelete
        /\ pc \in Loops => \A p \in Desired : LeftAlone(p) \/ InTheDiff(p)
    BY DEF Inv, AccountedFor
  <2>2. ASSUME NEW p, LeftAlone(p) PROVE LeftAlone(p)'
    BY <1>1, <2>2 DEF run, LeftAlone
  <2>3. ASSUME NEW p, InTheDiff(p) PROVE InTheDiff(p)'
    BY <1>1, <2>3 DEF run, InTheDiff
  <2>4. Undesired' \subseteq toDelete' <=> Undesired \subseteq toDelete
    BY <1>1 DEF run
  <2>5. pc' = pc
    BY DEF run
  <2> QED
    BY <1>1, <2>1, <2>2, <2>3, <2>4, <2>5 DEF AccountedFor
<1> QED
  BY <1>2, <1>3 DEF Inv

-----------------------------------------------------------------------------
LEMMA ListInv ==
  ASSUME Inv, ListGroups
  PROVE  Inv'
<1> USE DEF Inv
<1>0. /\ Listed' = Listed /\ Desired' = Desired /\ Undesired' = Undesired
      /\ \A p : Wanted(p)' = Wanted(p) /\ Generations(p)' = Generations(p)
      /\ Listed \subseteq Groups
  BY DEF ListGroups, Listed, Desired, Undesired, Wanted, Generations
<1>1. ASSUME NEW p \in Desired, Drifted(p)
      PROVE  /\ LiveGeneration(p) \in Groups /\ LiveGeneration(p)[1] = p
             /\ LiveGeneration(p) # Wanted(p)
  BY <1>1, LiveIsGeneration DEF Drifted, Generations, Listed
<1>2. ASSUME NEW r \in toReplace'
      PROVE  \E p \in Desired \intersect replace :
               r = <<Wanted(p), LiveGeneration(p)>> /\ Drifted(p)
  BY <1>2 DEF ListGroups
<1>3. TypeOK'
  <2>1. toReplace' \subseteq Groups \X Groups
    BY <1>1, <1>2, WantedGroup
  <2>2. toCreate' \subseteq Groups
    BY WantedGroup DEF ListGroups
  <2>3. \A p \in Desired : Stale(p) \subseteq Groups
    BY <1>0 DEF Stale, Generations
  <2>4. toUpdate' \subseteq Groups /\ toDelete' \subseteq Groups
    BY <1>0, <2>3 DEF ListGroups, Undesired
  <2> QED
    BY <2>1, <2>2, <2>4 DEF ListGroups, TypeOK
<1>4. PoolInv'
  <2>1. LoopsInOrder'
    BY DEF ListGroups, LoopsInOrder, Loops
  <2>2. CreatesFirst'
    <3> SUFFICES ASSUME NEW p \in Desired, Generations(p) = {}
                 PROVE  Wanted(p)[1] \in Desired /\ Wanted(Wanted(p)[1]) = Wanted(p)
                        /\ Generations(Wanted(p)[1]) = {}
      BY <1>0 DEF ListGroups, CreatesFirst
    <3> QED
      BY WantedGroup
  <2>3. ReplacesConfirmed'
    <3> SUFFICES ASSUME NEW r \in toReplace'
                 PROVE  /\ r[2][1] \in Desired \intersect replace
                        /\ r[1] = Wanted(r[2][1])
                        /\ r[1] # r[2]
      BY <1>0 DEF ListGroups, ReplacesConfirmed
    <3>1. PICK p \in Desired \intersect replace :
             r = <<Wanted(p), LiveGeneration(p)>> /\ Drifted(p)
      BY <1>2
    <3> QED
      BY <1>1, <3>1
  <2>4. DeletesStale'
    <3> SUFFICES ASSUME NEW g \in toDelete', g[1] \in Desired
                 PROVE  /\ g # Wanted(g[1])
                        /\ Wanted(g[1]) \in Listed \union {r[1] : r \in toReplace'}
      BY <1>0 DEF DeletesStale
    <3>1. PICK p \in Desired : g \in Stale(p)
      BY DEF ListGroups, Undesired
    <3>2. g \in Generations(p) /\ g[1] = p
      BY <3>1 DEF Stale, Generations
    <3>3. CASE Wanted(p) \in Generations(p)
      BY <3>1, <3>2, <3>3 DEF Stale, Generations
    <3>4. CASE Drifted(p) /\ p \in replace
      <4>1. <<Wanted(p), LiveGeneration(p)>> \in toReplace'
        BY <3>4 DEF ListGroups
      <4> QED
        BY <3>2, <3>4, <4>1 DEF Drifted
    <3> QED
      BY <3>1, <3>3, <3>4 DEF Stale
  <2> QED
    BY <2>1, <2>2, <2>3, <2>4 DEF PoolInv
<1>5. AccountedFor'
  <2>1. Undesired' \subseteq toDelete'
    BY <1>0 DEF ListGroups
  <2>2. ASSUME NEW p \in Desired PROVE LeftAlone(p)' \/ InTheDiff(p)'
    <3>0. p \in Pools /\ Wanted(p) \in Groups /\ Wanted(p)[1] = p
      BY WantedGroup
    <3>1. CASE Generations(p) = {}
      <4>1. Wanted(p) \in toCreate'
        BY <3>1 DEF ListGroups
      <4>2. Wanted(p) \notin Listed
        BY <3>0, <3>1 DEF Generations
      <4> QED
        BY <1>0, <3>1, <4>1, <4>2 DEF InTheDiff
    <3>2. CASE Wanted(p) \in Generations(p)
      <4>1. Generations(p) \ {Wanted(p)} \subseteq toDelete'
        BY <3>2 DEF ListGroups, Stale
      <4>2. Wanted(p) \in Listed
        BY <3>2 DEF Generations
      <4>3. count[Wanted(p)] # config.count[p] => Wanted(p) \in toUpdate'
        BY <3>0, <4>2 DEF ListGroups
      <4>4. count' = count /\ config' = config
        BY DEF ListGroups
      <4> QED
        BY <1>0, <4>1, <4>2, <4>3, <4>4 DEF InTheDiff
    <3>3. CASE Drifted(p) /\ p \in replace
      <4>1. <<Wanted(p), LiveGeneration(p)>> \in toReplace'
        BY <3>3 DEF ListGroups
      <4>2. Generations(p) \ {LiveGeneration(p)} \subseteq toDelete'
        BY <3>3 DEF ListGroups, Stale, Drifted
      <4>3. Wanted(p) \notin Listed
        BY <3>0, <3>3 DEF Drifted, Generations
      <4> QED
        BY <1>0, <4>1, <4>2, <4>3 DEF InTheDiff
    <3>4. CASE Drifted(p) /\ p \notin replace
      <4>1. Wanted(p) \notin Listed
        BY <3>0, <3>4 DEF Drifted, Generations
      <4>2. Wanted(p) \notin toCreate'
        <5> SUFFICES ASSUME NEW q \in Desired, Generations(q) = {}, Wanted(q) = Wanted(p)
                     PROVE  FALSE
          BY DEF ListGroups
        <5>1. q = p
          BY <3>0, WantedGroup
        <5> QED
          BY <3>4, <5>1 DEF Drifted
      <4>3. replace' = replace
        BY DEF ListGroups
      <4> QED
        BY <1>0, <3>4, <4>1, <4>2, <4>3 DEF LeftAlone
    <3> QED
      BY <3>1, <3>2, <3>3, <3>4 DEF Drifted
  <2> QED
    BY <1>0, <2>1, <2>2 DEF AccountedFor
<1> QED
  BY <1>3, <1>4, <1>5

-----------------------------------------------------------------------------
(* The steps of the four loops.  Each adds a group to the list, or drops    *)
(* one from it.                                                            *)

LEMMA PostLists ==
  ASSUME TypeOK, NEW g \in Groups, g[1] \in Desired, Post(g), UNCHANGED config
  PROVE  /\ g \notin Listed /\ Listed' = Listed \union {g}
         /\ Desired' = Desired /\ \A p : Wanted(p)' = Wanted(p)
         /\ \A h \in Groups \ {g} : count'[h] = count[h]
         /\ count'[g] = config.count[g[1]]
         /\ state' \in [Groups -> {"none", "pending", "running", "failed", "terminating"}]
         /\ count' \in [Groups -> CountsOf]
         /\ awaited' \subseteq Groups
<1>1. config.count[g[1]] \in CountsOf
  BY WantedGroup
<1> QED
  BY <1>1 DEF Post, TypeOK, Listed, Desired, Wanted

LEMMA DeleteUnlists ==
  ASSUME TypeOK, NEW g \in Groups, Delete(g), UNCHANGED config
  PROVE  /\ g \in Listed /\ Listed' = Listed \ {g}
         /\ Desired' = Desired /\ \A p : Wanted(p)' = Wanted(p)
         /\ count' = count
         /\ state' \in [Groups -> {"none", "pending", "running", "failed", "terminating"}]
         /\ awaited' \subseteq Groups
BY DEF Delete, TypeOK, Listed, Desired, Wanted

LEMMA CreateInv ==
  ASSUME Inv, NEW g \in Groups, CreateGroup(g)
  PROVE  Inv'
<1> USE DEF Inv
<1>0. /\ pc = "create" /\ g \in toCreate /\ g[1] \in Desired /\ g = Wanted(g[1])
      /\ Generations(g[1]) = {}
      /\ toCreate' = toCreate \ {g}
      /\ Post(g)
      /\ UNCHANGED <<config, pc, replace, toReplace, toUpdate, toDelete, faults, edits>>
  BY DEF CreateGroup, PoolInv, CreatesFirst
<1>p. /\ g \notin Listed /\ Listed' = Listed \union {g}
      /\ Desired' = Desired /\ \A p : Wanted(p)' = Wanted(p)
      /\ \A h \in Groups \ {g} : count'[h] = count[h]
      /\ count'[g] = config.count[g[1]]
  BY <1>0, PostLists
<1>1. TypeOK'
  BY <1>0, PostLists DEF TypeOK
<1>2. PoolInv'
  <2>1. LoopsInOrder'
    BY <1>0 DEF PoolInv, LoopsInOrder, Loops
  <2>2. CreatesFirst'
    <3> SUFFICES ASSUME NEW h \in toCreate, h # g
                 PROVE  h[1] \in Desired /\ h = Wanted(h[1]) /\ Generations(h[1])' = {}
      BY <1>0, <1>p DEF CreatesFirst
    <3>1. h[1] \in Desired /\ h = Wanted(h[1]) /\ Generations(h[1]) = {}
      BY DEF PoolInv, CreatesFirst
    <3>2. g[1] # h[1]
      BY <1>0, <3>1
    <3> QED
      BY <1>p, <3>1, <3>2 DEF Generations
  <2>3. ReplacesConfirmed'
    BY <1>0, <1>p DEF PoolInv, ReplacesConfirmed
  <2>4. DeletesStale'
    BY <1>0, <1>p DEF PoolInv, DeletesStale
  <2> QED
    BY <2>1, <2>2, <2>3, <2>4 DEF PoolInv
<1>3. AccountedFor'
  <2>1. Undesired' \subseteq toDelete'
    BY <1>0, <1>p DEF AccountedFor, Undesired, Loops
  <2>2. ASSUME NEW p \in Desired PROVE LeftAlone(p)' \/ InTheDiff(p)'
    <3>0. Wanted(p) \in Groups /\ Wanted(p)[1] = p
      BY WantedGroup
    <3>1. CASE LeftAlone(p)
      BY <1>0, <1>p, <3>1 DEF LeftAlone
    <3>2. CASE InTheDiff(p)
      <4>1. Wanted(p) \in (Listed \union toCreate \union {r[1] : r \in toReplace})'
        BY <1>0, <1>p, <3>2 DEF InTheDiff
      <4>2. (Wanted(p) \in Listed => count[Wanted(p)] = config.count[p] \/ Wanted(p) \in toUpdate)'
        BY <1>0, <1>p, <3>0, <3>2 DEF InTheDiff
      <4>3. Generations(p)' \ {Wanted(p)} \subseteq Generations(p) \ {Wanted(p)}
        BY <1>0, <1>p DEF Generations
      <4> QED
        BY <1>0, <1>p, <3>2, <4>1, <4>2, <4>3 DEF InTheDiff
    <3> QED
      BY <1>0, <3>1, <3>2 DEF AccountedFor, Loops
  <2> QED
    BY <1>p, <2>1, <2>2 DEF AccountedFor
<1> QED
  BY <1>1, <1>2, <1>3

LEMMA CreateReplacementInv ==
  ASSUME Inv, NEW r \in Groups \X Groups, CreateReplacement(r)
  PROVE  Inv'
<1> USE DEF Inv
<1> DEFINE g == r[1]
<1>0. /\ pc = "replace" /\ r \in toReplace /\ toCreate = {}
      /\ r[2][1] \in Desired \intersect replace /\ g = Wanted(r[2][1])
      /\ Post(g)
      /\ UNCHANGED <<config, pc, replace, diff, faults, edits>>
  BY DEF CreateReplacement, PoolInv, ReplacesConfirmed, LoopsInOrder
<1>d. UNCHANGED <<toCreate, toReplace, toUpdate, toDelete>>
  BY <1>0 DEF diff
<1>g. g \in Groups /\ g[1] = r[2][1] /\ g[1] \in Desired
  BY <1>0, WantedGroup
<1>p. /\ g \notin Listed /\ Listed' = Listed \union {g}
      /\ Desired' = Desired /\ \A p : Wanted(p)' = Wanted(p)
      /\ \A h \in Groups \ {g} : count'[h] = count[h]
      /\ count'[g] = config.count[g[1]]
  BY <1>0, <1>g, PostLists
<1>1. TypeOK'
  BY <1>0, <1>d, <1>g, PostLists DEF TypeOK
<1>2. PoolInv'
  BY <1>0, <1>d, <1>p
     DEF PoolInv, LoopsInOrder, Loops, CreatesFirst, ReplacesConfirmed, DeletesStale
<1>3. AccountedFor'
  <2>1. Undesired' \subseteq toDelete'
    BY <1>0, <1>d, <1>g, <1>p DEF AccountedFor, Undesired, Loops
  <2>2. ASSUME NEW p \in Desired PROVE LeftAlone(p)' \/ InTheDiff(p)'
    <3>0. Wanted(p) \in Groups /\ Wanted(p)[1] = p
      BY WantedGroup
    <3>1. CASE LeftAlone(p)
      <4>1. Wanted(p) # g
        BY <1>0, <1>g, <3>0, <3>1 DEF LeftAlone
      <4> QED
        BY <1>0, <1>d, <1>p, <3>1, <4>1 DEF LeftAlone
    <3>2. CASE InTheDiff(p)
      <4>1. Wanted(p) \in (Listed \union toCreate \union {s[1] : s \in toReplace})'
        BY <1>0, <1>d, <1>p, <3>2 DEF InTheDiff
      <4>2. (Wanted(p) \in Listed => count[Wanted(p)] = config.count[p] \/ Wanted(p) \in toUpdate)'
        BY <1>0, <1>d, <1>g, <1>p, <3>0, <3>2 DEF InTheDiff
      <4>3. Generations(p)' \ {Wanted(p)} \subseteq Generations(p) \ {Wanted(p)}
        BY <1>0, <1>g, <1>p DEF Generations
      <4> QED
        BY <1>d, <1>p, <3>2, <4>1, <4>2, <4>3 DEF InTheDiff
    <3> QED
      BY <1>0, <3>1, <3>2 DEF AccountedFor, Loops
  <2> QED
    BY <1>p, <2>1, <2>2 DEF AccountedFor
<1> QED
  BY <1>1, <1>2, <1>3

LEMMA DeleteReplacedInv ==
  ASSUME Inv, NEW r \in Groups \X Groups, DeleteReplaced(r)
  PROVE  Inv'
<1> USE DEF Inv
<1> DEFINE g == r[2]
<1>0. /\ pc = "replace" /\ r \in toReplace /\ toCreate = {}
      /\ g[1] \in Desired \intersect replace /\ r[1] = Wanted(g[1]) /\ r[1] # g
      /\ state[r[1]] = "running"
      /\ Delete(g)
      /\ toReplace' = toReplace \ {r}
      /\ UNCHANGED <<config, pc, replace, toCreate, toUpdate, toDelete, faults, edits>>
  BY DEF DeleteReplaced, PoolInv, ReplacesConfirmed, LoopsInOrder
<1>g. g \in Groups /\ r[1] \in Groups /\ r[1] \in Listed
  BY <1>0 DEF Listed
<1>p. /\ g \in Listed /\ Listed' = Listed \ {g}
      /\ Desired' = Desired /\ \A p : Wanted(p)' = Wanted(p)
      /\ count' = count
  BY <1>0, <1>g, DeleteUnlists
<1>1. TypeOK'
  BY <1>0, <1>g, DeleteUnlists DEF TypeOK
<1>2. PoolInv'
  <2>1. LoopsInOrder' /\ CreatesFirst' /\ ReplacesConfirmed'
    BY <1>0, <1>p DEF PoolInv, LoopsInOrder, Loops, CreatesFirst, ReplacesConfirmed
  <2>2. DeletesStale'
    <3> SUFFICES ASSUME NEW h \in toDelete, h[1] \in Desired
                 PROVE  /\ h # Wanted(h[1])
                        /\ Wanted(h[1]) \in Listed' \union {s[1] : s \in toReplace'}
      BY <1>0, <1>p DEF DeletesStale
    <3>1. /\ h # Wanted(h[1])
          /\ Wanted(h[1]) \in Listed \union {s[1] : s \in toReplace}
      BY DEF PoolInv, DeletesStale
    <3>2. Wanted(h[1]) # g
      BY <1>0, WantedGroup
    <3>3. CASE Wanted(h[1]) \in Listed
      BY <1>p, <3>1, <3>2, <3>3
    <3>4. CASE \E s \in toReplace : Wanted(h[1]) = s[1]
      BY <1>0, <1>g, <1>p, <3>1, <3>2, <3>4
    <3> QED
      BY <3>1, <3>3, <3>4
  <2> QED
    BY <2>1, <2>2 DEF PoolInv
<1>3. AccountedFor'
  <2>1. Undesired' \subseteq toDelete'
    BY <1>0, <1>p DEF AccountedFor, Undesired, Loops
  <2>2. ASSUME NEW p \in Desired PROVE LeftAlone(p)' \/ InTheDiff(p)'
    <3>0. Wanted(p) \in Groups /\ Wanted(p)[1] = p /\ Wanted(p) # g
      BY <1>0, WantedGroup
    <3>1. CASE LeftAlone(p)
      BY <1>0, <1>p, <3>1 DEF LeftAlone
    <3>2. CASE InTheDiff(p)
      <4>1. Wanted(p) \in (Listed \union toCreate \union {s[1] : s \in toReplace})'
        BY <1>0, <1>g, <1>p, <3>0, <3>2 DEF InTheDiff
      <4>2. (Wanted(p) \in Listed => count[Wanted(p)] = config.count[p] \/ Wanted(p) \in toUpdate)'
        BY <1>0, <1>p, <3>2 DEF InTheDiff
      <4>3. ASSUME NEW h \in Generations(p)', h # Wanted(p)
            PROVE  h \in toDelete' \union {s[2] : s \in toReplace'}
        <5>1. h \in Generations(p) /\ h # g
          BY <1>p, <4>3 DEF Generations
        <5>2. h \in toDelete \union {s[2] : s \in toReplace}
          BY <3>2, <4>3, <5>1 DEF InTheDiff
        <5> QED
          BY <1>0, <5>1, <5>2
      <4> QED
        BY <1>0, <1>p, <4>1, <4>2, <4>3 DEF InTheDiff
    <3> QED
      BY <1>0, <3>1, <3>2 DEF AccountedFor, Loops
  <2> QED
    BY <1>p, <2>1, <2>2 DEF AccountedFor
<1> QED
  BY <1>1, <1>2, <1>3

LEMMA DeleteInv ==
  ASSUME Inv, NEW g \in Groups, DeleteGroup(g)
  PROVE  Inv'
<1> USE DEF Inv
<1>0. /\ pc = "delete" /\ g \in toDelete
      /\ toCreate = {} /\ toReplace = {} /\ toUpdate = {}
      /\ g[1] \in Desired => g # Wanted(g[1])
      /\ Delete(g)
      /\ toDelete' = toDelete \ {g}
      /\ UNCHANGED <<config, pc, replace, toCreate, toReplace, toUpdate, faults, edits>>
  BY DEF DeleteGroup, PoolInv, DeletesStale, LoopsInOrder
<1>p. /\ g \in Listed /\ Listed' = Listed \ {g}
      /\ Desired' = Desired /\ \A p : Wanted(p)' = Wanted(p)
      /\ count' = count
  BY <1>0, DeleteUnlists
<1>w. \A p \in Desired : Wanted(p) # g
  BY <1>0, WantedGroup
<1>1. TypeOK'
  BY <1>0, DeleteUnlists DEF TypeOK
<1>2. PoolInv'
  <2>1. LoopsInOrder' /\ CreatesFirst' /\ ReplacesConfirmed'
    BY <1>0, <1>p DEF PoolInv, LoopsInOrder, Loops, CreatesFirst, ReplacesConfirmed
  <2>2. DeletesStale'
    BY <1>0, <1>p, <1>w DEF PoolInv, DeletesStale
  <2> QED
    BY <2>1, <2>2 DEF PoolInv
<1>3. AccountedFor'
  <2>1. Undesired' \subseteq toDelete'
    BY <1>0, <1>p DEF AccountedFor, Undesired, Loops
  <2>2. ASSUME NEW p \in Desired PROVE LeftAlone(p)' \/ InTheDiff(p)'
    <3>1. CASE LeftAlone(p)
      BY <1>0, <1>p, <3>1 DEF LeftAlone
    <3>2. CASE InTheDiff(p)
      <4>1. Generations(p)' = Generations(p) \ {g}
        BY <1>p DEF Generations
      <4> QED
        BY <1>0, <1>p, <1>w, <3>2, <4>1 DEF InTheDiff
    <3> QED
      BY <1>0, <3>1, <3>2 DEF AccountedFor, Loops
  <2> QED
    BY <1>p, <2>1, <2>2 DEF AccountedFor
<1> QED
  BY <1>1, <1>2, <1>3

LEMMA UpdateInv ==
  ASSUME Inv, NEW g \in Groups, UpdateGroup(g)
  PROVE  Inv'
<1> USE DEF Inv
<1>0. /\ pc = "update" /\ g \in toUpdate
      /\ count' = [count EXCEPT ![g] = config.count[g[1]]]
      /\ toUpdate' = toUpdate \ {g}
      /\ awaited' = {g}
      /\ UNCHANGED <<config, state, pc, replace, toCreate, toReplace, toDelete, faults, edits>>
  BY DEF UpdateGroup
<1>p. /\ Listed' = Listed /\ Undesired' = Undesired /\ Desired' = Desired
      /\ \A p : Wanted(p)' = Wanted(p) /\ Generations(p)' = Generations(p)
  BY <1>0 DEF Listed, Undesired, Desired, Wanted, Generations
<1>1. TypeOK'
  <2>1. config.count[g[1]] \in CountsOf
    BY DEF TypeOK, CountsOf, Groups
  <2> QED
    BY <1>0, <2>1 DEF TypeOK
<1>2. PoolInv'
  BY <1>0, <1>p
     DEF PoolInv, LoopsInOrder, Loops, CreatesFirst, ReplacesConfirmed, DeletesStale
<1>3. AccountedFor'
  <2>1. ASSUME NEW p \in Desired PROVE LeftAlone(p)' \/ InTheDiff(p)'
    <3>0. Wanted(p) \in Groups /\ Wanted(p)[1] = p
      BY WantedGroup
    <3>1. CASE LeftAlone(p)
      BY <1>0, <1>p, <3>1 DEF LeftAlone
    <3>2. CASE InTheDiff(p)
      <4>1. (Wanted(p) \in Listed => count[Wanted(p)] = config.count[p] \/ Wanted(p) \in toUpdate)'
        BY <1>0, <1>p, <3>0, <3>2 DEF InTheDiff, TypeOK
      <4> QED
        BY <1>0, <1>p, <3>2, <4>1 DEF InTheDiff
    <3> QED
      BY <1>0, <3>1, <3>2 DEF AccountedFor, Loops
  <2> QED
    BY <1>0, <1>p, <2>1 DEF AccountedFor, Loops
<1> QED
  BY <1>1, <1>2, <1>3

\* Waiting and the turn from one loop to the next leave the groups alone.
LEMMA WaitInv ==
  ASSUME Inv, UNCHANGED <<config, state, count, replace, diff, faults, edits>>,
         \/ NextLoop
         \/ \E g \in Groups : Awaited(g)
  PROVE  Inv'
<1> USE DEF Inv
<1>d. UNCHANGED <<toCreate, toReplace, toUpdate, toDelete>>
  BY DEF diff
<1>p. /\ Listed' = Listed /\ Undesired' = Undesired /\ Desired' = Desired
      /\ \A p : Wanted(p)' = Wanted(p) /\ Generations(p)' = Generations(p)
  BY DEF Listed, Undesired, Desired, Wanted, Generations
<1>1. pc \in Loops /\ pc' \in Loops /\ awaited' \subseteq Groups
  BY DEF NextLoop, Awaited, Loops, TypeOK
<1>2. TypeOK'
  BY <1>1, <1>d DEF TypeOK, Loops
<1>3. LoopsInOrder'
  BY <1>d DEF NextLoop, Awaited, PoolInv, LoopsInOrder, Loops
<1>4. CreatesFirst' /\ ReplacesConfirmed' /\ DeletesStale'
  BY <1>d, <1>p DEF PoolInv, CreatesFirst, ReplacesConfirmed, DeletesStale
<1>5. AccountedFor'
  <2>1. ASSUME NEW p \in Desired PROVE LeftAlone(p)' \/ InTheDiff(p)'
    BY <1>1, <1>d, <1>p DEF AccountedFor, LeftAlone, InTheDiff
  <2> QED
    BY <1>1, <1>d, <1>p, <2>1 DEF AccountedFor
<1> QED
  BY <1>2, <1>3, <1>4, <1>5 DEF PoolInv

-----------------------------------------------------------------------------
LEMMA NextInv == Inv /\ [Next]_vars => Inv'
<1> SUFFICES ASSUME Inv, [Next]_vars PROVE Inv'
  OBVIOUS
<1> USE DEF Inv
<1>1. ASSUME NEW yes \in BOOLEAN, ApplyPlan(yes) PROVE Inv'
  <2>1. replace' \subseteq Pools
    BY <1>1 DEF ApplyPlan, ApplyPlanOf, NamesToReplace
  <2>2. TypeOK' /\ pc \notin Loops /\ pc' \notin Loops
    BY <1>1, <2>1 DEF ApplyPlan, ApplyPlanOf, diff, TypeOK, Loops
  <2> QED
    BY <1>1, <2>2, OutsideLoops DEF ApplyPlan, ApplyPlanOf
<1>2. CASE Confirm
  <2>1. TypeOK' /\ pc \notin Loops /\ pc' \notin Loops
    BY <1>2 DEF Confirm, diff, TypeOK, Loops
  <2> QED
    BY <1>2, <2>1, OutsideLoops DEF Confirm
<1>3. CASE Decline
  BY <1>3, ExitInv DEF Decline, TypeOK
<1>4. CASE ListGroups
  BY <1>4, ListInv
<1>5. CASE NextLoop
  BY <1>5, WaitInv DEF NextLoop
<1>6. CASE Finish
  BY <1>6, ExitInv DEF Finish, TypeOK
<1>7. CASE Interrupted
  <2>1. faults' \in 0..MaxFaults
    BY <1>7, PoolsAssumption DEF Interrupted, TypeOK
  <2> QED
    BY <1>7, <2>1, ExitInv DEF Interrupted
<1>8. CASE EditConfig
  <2>1. TypeOK'
    BY <1>8, PoolsAssumption DEF EditConfig, run, TypeOK
  <2> QED
    BY <1>8, <2>1, OutsideLoops DEF EditConfig, run, diff, Loops
<1>9. ASSUME NEW g \in Groups, CreateGroup(g) PROVE Inv'
  BY <1>9, CreateInv
<1>10. ASSUME NEW g \in Groups, UpdateGroup(g) PROVE Inv'
  BY <1>10, UpdateInv
<1>11. ASSUME NEW g \in Groups, DeleteGroup(g) PROVE Inv'
  BY <1>11, DeleteInv
<1>12. ASSUME NEW g \in Groups, Awaited(g) PROVE Inv'
  BY <1>12, WaitInv DEF Awaited
<1>13. ASSUME NEW g \in Groups, AwaitFails(g) PROVE Inv'
  BY <1>13, ExitInv DEF AwaitFails, TypeOK
<1>14. ASSUME NEW r \in Groups \X Groups, CreateReplacement(r) PROVE Inv'
  BY <1>14, CreateReplacementInv
<1>15. ASSUME NEW r \in Groups \X Groups, DeleteReplaced(r) PROVE Inv'
  BY <1>15, DeleteReplacedInv
<1>16. ASSUME NEW g \in Groups, Boot(g) PROVE Inv'
  <2>1. TypeOK'
    BY <1>16 DEF Boot, run, TypeOK
  <2>2. Listed' = Listed
    BY <1>16 DEF Boot, Listed, TypeOK
  <2> QED
    BY <1>16, <2>1, <2>2, SameList DEF Boot
<1>17. ASSUME NEW g \in Groups, Gone(g) PROVE Inv'
  <2>1. TypeOK'
    BY <1>17, PoolsAssumption DEF Gone, run, TypeOK, CountsOf
  <2>2. Listed' = Listed /\ g \notin Listed
    BY <1>17 DEF Gone, Listed, TypeOK
  <2>3. \A h \in Listed : count'[h] = count[h]
    BY <1>17, <2>2 DEF Gone, Listed, TypeOK
  <2> QED
    BY <1>17, <2>1, <2>2, <2>3, SameList DEF Gone
<1>18. ASSUME NEW g \in Groups, Break(g) PROVE Inv'
  <2>1. TypeOK'
    BY <1>18, PoolsAssumption DEF Break, run, TypeOK
  <2>2. Listed' = Listed
    BY <1>18 DEF Break, Listed, TypeOK
  <2> QED
    BY <1>18, <2>1, <2>2, SameList DEF Break
<1>19. ASSUME NEW g \in Groups, RemovedByHand(g) PROVE Inv'
  <2>1. TypeOK' /\ pc \notin Loops /\ pc' \notin Loops
    BY <1>19, PoolsAssumption DEF RemovedByHand, run, TypeOK, Loops
  <2> QED
    BY <1>19, <2>1, OutsideLoops DEF RemovedByHand, run, diff
<1>20. CASE Refused
  BY <1>20, ExitInv DEF Refused, TypeOK
<1>21. CASE ClusterGone
  <2>1. TypeOK' /\ pc \notin Loops /\ pc' \notin Loops
    BY <1>21, PoolsAssumption DEF ClusterGone, run, TypeOK, CountsOf
  <2> QED
    BY <1>21, <2>1, OutsideLoops DEF ClusterGone, run, diff
<1>22. CASE UNCHANGED vars
  <2>1. TypeOK' /\ UNCHANGED <<config, run, count>> /\ Listed' = Listed
    BY <1>22 DEF vars, run, TypeOK, Listed
  <2> QED
    BY <2>1, SameList
<1> QED
  BY <1>1, <1>2, <1>3, <1>4, <1>5, <1>6, <1>7, <1>8, <1>9, <1>10, <1>11, <1>12,
     <1>13, <1>14, <1>15, <1>16, <1>17, <1>18, <1>19, <1>20, <1>21, <1>22
     DEF Next, Progress, Settle

LEMMA PoolsAlways == Spec => []Inv
BY InitInv, NextInv, PTL DEF Spec

\* The variables stay in their types: in particular no diff ever names a group
\* that is not a pool's (nodegroup-diff.ts, ensure-nodepools.ts).
THEOREM PoolsTyped == Spec => []TypeOK
<1>1. Inv => TypeOK
  BY DEF Inv
<1> QED
  BY <1>1, PoolsAlways, PTL

-----------------------------------------------------------------------------
\* The group a step deletes is an item of the loop it is in.
LEMMA DeletedByLoop ==
  ASSUME Inv, [Next]_vars, NEW g \in Deleted
  PROVE  \/ DeleteGroup(g)
         \/ \E r \in Groups \X Groups : DeleteReplaced(r) /\ r[2] = g
<1> USE DEF Inv
<1>0. /\ g \in Groups /\ g \in Listed /\ state[g] # "terminating"
      /\ state'[g] = "terminating" /\ pc \notin {"idle", "confirm"}
  BY DEF Deleted, Listed
<1>1. state' # state
  BY <1>0
<1>2. ASSUME NEW h \in Groups, Post(h) PROVE FALSE
  BY <1>0, <1>2 DEF Post, TypeOK
<1>3. ASSUME NEW h \in Groups, \/ Boot(h) \/ Gone(h) \/ Break(h) \/ RemovedByHand(h)
      PROVE  FALSE
  BY <1>0, <1>3 DEF Boot, Gone, Break, RemovedByHand, TypeOK
<1>4. ASSUME NEW h \in Groups, Delete(h) PROVE h = g
  BY <1>0, <1>4 DEF Delete, TypeOK
<1>5. ASSUME NEW h \in Groups, DeleteGroup(h) PROVE h = g
  BY <1>4, <1>5 DEF DeleteGroup
<1>6. ASSUME NEW r \in Groups \X Groups, DeleteReplaced(r) PROVE r[2] = g
  BY <1>4, <1>6 DEF DeleteReplaced
<1>7. ASSUME NEW h \in Groups, CreateGroup(h) PROVE FALSE
  BY <1>2, <1>7 DEF CreateGroup
<1>8. ASSUME NEW r \in Groups \X Groups, CreateReplacement(r) PROVE FALSE
  BY <1>2, <1>8 DEF CreateReplacement
<1>9. /\ \A yes \in BOOLEAN : ~ApplyPlan(yes)
      /\ ~Refused /\ ~ClusterGone
      /\ ~Confirm /\ ~Decline /\ ~ListGroups /\ ~NextLoop /\ ~Finish
      /\ ~Interrupted /\ ~EditConfig /\ ~UNCHANGED vars
      /\ \A h \in Groups : ~UpdateGroup(h) /\ ~Awaited(h) /\ ~AwaitFails(h)
  BY <1>0, <1>1 DEF ApplyPlan, ApplyPlanOf, Refused, ClusterGone, Confirm, Decline, ListGroups,
       NextLoop, Finish, Interrupted, EditConfig, vars, UpdateGroup, Awaited, AwaitFails
<1> QED
  BY <1>3, <1>5, <1>6, <1>7, <1>8, <1>9 DEF Next, Progress, Settle

\* Whatever fails or is interrupted, apply never deletes the last node group of
\* a desired pool (ensure-nodepools.ts, _replace and the order of _applyDiff).
THEOREM PoolsNeverEmptied == Spec => PoolNeverEmptied
<1>1. ASSUME Inv, [Next]_vars, NEW g \in Deleted, g[1] \in Desired
      PROVE  \E h \in Generations(g[1]) : h \notin Deleted
  <2> USE DEF Inv
  <2> DEFINE w == Wanted(g[1])
  <2>0. g \in Groups
    BY DEF Deleted, Listed
  <2>1. CASE DeleteGroup(g)
    <3>1. w \in Listed /\ w # g
      BY <1>1, <2>1 DEF DeleteGroup, PoolInv, DeletesStale, LoopsInOrder
    <3>2. w \in Generations(g[1])
      BY <1>1, <3>1, WantedGroup DEF Generations
    <3>3. state'[w] = state[w]
      BY <2>0, <2>1, <3>1 DEF DeleteGroup, Delete, TypeOK, Listed
    <3> QED
      BY <3>1, <3>2, <3>3 DEF Deleted, Listed
  <2>2. CASE \E r \in Groups \X Groups : DeleteReplaced(r) /\ r[2] = g
    <3>0. PICK r \in Groups \X Groups : DeleteReplaced(r) /\ r[2] = g
      BY <2>2
    <3>1. w \in Groups /\ state[w] = "running" /\ w # g
      BY <1>1, <3>0, WantedGroup DEF DeleteReplaced, PoolInv, ReplacesConfirmed
    <3>2. w \in Generations(g[1])
      BY <1>1, <3>1, WantedGroup DEF Generations, Listed
    <3>3. state'[w] = state[w]
      BY <2>0, <3>0, <3>1 DEF DeleteReplaced, Delete, TypeOK
    <3> QED
      BY <3>1, <3>2, <3>3 DEF Deleted, Listed
  <2> QED
    BY <1>1, <2>1, <2>2, DeletedByLoop
<1>2. Inv /\ [Next]_vars =>
        [\A g \in Deleted : g[1] \in Desired
           => \E h \in Generations(g[1]) : h \notin Deleted]_vars
  BY <1>1
<1> QED
  BY <1>2, PoolsAlways, PTL DEF Spec, PoolNeverEmptied

\* Two generations of a pool overlap only when the operator confirmed the
\* replacement of that pool (nodegroup-diff.ts, the NO_REPLACE default).
THEOREM OverlapsAreConfirmed == Spec => OverlapIsConfirmed
<1>1. ASSUME Inv, [Next]_vars, NEW g \in Groups,
             state[g] = "none", state'[g] = "pending", Generations(g[1]) # {}
      PROVE  g[1] \in replace
  <2> USE DEF Inv
  <2>1. state' # state
    BY <1>1
  <2>2. ASSUME NEW h \in Groups, Post(h) PROVE h = g
    BY <1>1, <2>2 DEF Post, TypeOK
  <2>3. ASSUME NEW h \in Groups, CreateGroup(h) PROVE FALSE
    BY <1>1, <2>2, <2>3 DEF CreateGroup, PoolInv, CreatesFirst
  <2>4. ASSUME NEW r \in Groups \X Groups, CreateReplacement(r) PROVE g[1] \in replace
    <3>1. r[1] = g /\ r \in toReplace
      BY <2>2, <2>4 DEF CreateReplacement
    <3>2. r[2][1] \in Desired \intersect replace /\ g = Wanted(r[2][1])
      BY <1>1, <3>1 DEF PoolInv, ReplacesConfirmed
    <3> QED
      BY <1>1, <3>2, WantedGroup
  <2>5. ASSUME NEW h \in Groups,
               \/ Delete(h) \/ Boot(h) \/ Gone(h) \/ Break(h) \/ RemovedByHand(h)
        PROVE  FALSE
    BY <1>1, <2>5 DEF Delete, Boot, Gone, Break, RemovedByHand, TypeOK, Listed
  <2>6. /\ \A h \in Groups : ~DeleteGroup(h)
        /\ \A r \in Groups \X Groups : ~DeleteReplaced(r)
    BY <2>5 DEF DeleteGroup, DeleteReplaced
  <2>7. /\ \A yes \in BOOLEAN : ~ApplyPlan(yes)
        /\ ~Refused /\ ~ClusterGone
        /\ ~Confirm /\ ~Decline /\ ~ListGroups /\ ~NextLoop /\ ~Finish
        /\ ~Interrupted /\ ~EditConfig /\ ~UNCHANGED vars
        /\ \A h \in Groups : ~UpdateGroup(h) /\ ~Awaited(h) /\ ~AwaitFails(h)
    BY <1>1, <2>1 DEF ApplyPlan, ApplyPlanOf, Refused, ClusterGone, Confirm, Decline, ListGroups,
         NextLoop, Finish, Interrupted, EditConfig, vars, UpdateGroup, Awaited, AwaitFails
  <2> QED
    BY <1>1, <2>3, <2>4, <2>5, <2>6, <2>7 DEF Next, Progress, Settle
<1>2. Inv /\ [Next]_vars =>
        [\A g \in Groups : /\ state[g] = "none" /\ state'[g] = "pending"
                           /\ Generations(g[1]) # {}
                           => g[1] \in replace]_vars
  BY <1>1
<1> QED
  BY <1>2, PoolsAlways, PTL DEF Spec, OverlapIsConfirmed

\* When apply reports success, what UpCloud runs is what the config asks for,
\* save for pools that drifted after the confirmation (_applyDiff carries out
\* the whole diff, although groups fail and boot while it does).
THEOREM SuccessIsWhatWasAsked == Spec => SuccessIsDesired
<1>1. ASSUME Inv, Finish
      PROVE  /\ Undesired = {}
             /\ \A p \in Desired :
                  \/ Generations(p) = {Wanted(p)} /\ count[Wanted(p)] = config.count[p]
                  \/ p \notin replace /\ Wanted(p) \notin Generations(p)
  <2> USE DEF Inv
  <2>1. /\ toCreate = {} /\ toReplace = {} /\ toUpdate = {} /\ toDelete = {}
        /\ pc \in Loops
    BY <1>1 DEF Finish, PoolInv, LoopsInOrder, Loops
  <2>2. Undesired = {}
    BY <1>1, <2>1 DEF AccountedFor
  <2>3. ASSUME NEW p \in Desired, InTheDiff(p)
        PROVE  Generations(p) = {Wanted(p)} /\ count[Wanted(p)] = config.count[p]
    BY <1>1, <2>1, <2>3, WantedGroup DEF InTheDiff, Generations
  <2>4. ASSUME NEW p \in Desired, LeftAlone(p)
        PROVE  p \notin replace /\ Wanted(p) \notin Generations(p)
    BY <2>4 DEF LeftAlone, Generations
  <2> QED
    BY <1>1, <2>1, <2>2, <2>3, <2>4 DEF AccountedFor
<1>2. Inv /\ [Next]_vars =>
        [Finish => /\ Undesired = {}
                   /\ \A p \in Desired :
                        \/ Generations(p) = {Wanted(p)} /\ count[Wanted(p)] = config.count[p]
                        \/ p \notin replace /\ Wanted(p) \notin Generations(p)]_vars
  BY <1>1
<1> QED
  BY <1>2, PoolsAlways, PTL DEF Spec, SuccessIsDesired

-----------------------------------------------------------------------------
(* The contract.  Every step of apply and of UpCloud is a step of           *)
(* PoolContract or leaves what it speaks of alone.                         *)

LEMMA SameContract ==
  ASSUME config' = config, Listed' = Listed, replace' = replace, pc' \in Loops <=> pc \in Loops
  PROVE  UNCHANGED Contract!contractVars
BY DEF Contract!contractVars

LEMMA ContractAsk ==
  ASSUME TypeOK', pc \notin Loops, pc' \notin Loops, Listed' = Listed
  PROVE  Contract!Ask
<1>1. config'.hash \in [Pools -> Hashes \union {Absent}]
  BY PoolsAssumption DEF TypeOK
<1>2. replace' \subseteq Pools
  BY DEF TypeOK
<1> QED
  BY <1>1, <1>2 DEF Contract!Ask

LEMMA ContractEnd ==
  ASSUME pc \in Loops, Exit, UNCHANGED <<config, state, count>>
  PROVE  Contract!End
<1>1. pc' \notin Loops /\ replace' = {} /\ Listed' = Listed
  BY DEF Exit, Loops, Listed
<1> QED
  BY <1>1 DEF Contract!End

LEMMA ContractAdd ==
  ASSUME Inv, NEW g \in Groups, CreateGroup(g) \/ \E r \in Groups \X Groups : CreateReplacement(r) /\ r[1] = g
  PROVE  Contract!Add(g)
<1> USE DEF Inv
<1>1. /\ Post(g) /\ pc \in Loops
      /\ UNCHANGED <<config, pc, replace>>
  BY DEF CreateGroup, CreateReplacement, Loops
<1>2. g[1] \in Desired /\ g = Wanted(g[1]) /\ (g[1] \in replace \/ Generations(g[1]) = {})
  <2>1. CASE CreateGroup(g)
    BY <2>1 DEF CreateGroup, PoolInv, CreatesFirst
  <2>2. CASE \E r \in Groups \X Groups : CreateReplacement(r) /\ r[1] = g
    <3>1. PICK r \in Groups \X Groups : CreateReplacement(r) /\ r[1] = g
      BY <2>2
    <3>2. r[2][1] \in Desired \intersect replace /\ g = Wanted(r[2][1])
      BY <3>1 DEF CreateReplacement, PoolInv, ReplacesConfirmed
    <3> QED
      BY <3>2, WantedGroup
  <2> QED
    BY <2>1, <2>2
<1>3. g \notin Listed /\ Listed' = Listed \union {g}
  BY <1>1, <1>2, PostLists
<1>4. g[1] \in replace \/ ~\E h \in Listed : h[1] = g[1]
  BY <1>2 DEF Generations
<1>5. g = Contract!Want(g[1])
  BY <1>2 DEF Wanted, Contract!Want
<1> QED
  BY <1>1, <1>3, <1>4, <1>5 DEF Contract!Add

LEMMA ContractDrop ==
  ASSUME Inv, NEW g \in Groups, DeleteGroup(g) \/ \E r \in Groups \X Groups : DeleteReplaced(r) /\ r[2] = g
  PROVE  Contract!Drop(g)
<1> USE DEF Inv
<1>1. /\ Delete(g) /\ pc \in Loops
      /\ UNCHANGED <<config, pc, replace>>
  BY DEF DeleteGroup, DeleteReplaced, Loops
<1>2. g \in Listed /\ Listed' = Listed \ {g}
  BY <1>1, DeleteUnlists
<1>3. g[1] \in Desired => g # Wanted(g[1]) /\ Wanted(g[1]) \in Listed
  <2>1. CASE DeleteGroup(g)
    BY <2>1 DEF DeleteGroup, PoolInv, DeletesStale, LoopsInOrder
  <2>2. CASE \E r \in Groups \X Groups : DeleteReplaced(r) /\ r[2] = g
    <3>1. PICK r \in Groups \X Groups : DeleteReplaced(r) /\ r[2] = g
      BY <2>2
    <3> QED
      BY <3>1, WantedGroup DEF DeleteReplaced, PoolInv, ReplacesConfirmed, Listed
  <2> QED
    BY <2>1, <2>2
<1>4. config.hash[g[1]] # Absent => g # Contract!Want(g[1]) /\ Contract!Want(g[1]) \in Listed
  BY <1>3 DEF Desired, Wanted, Contract!Want, Groups
<1> QED
  BY <1>1, <1>2, <1>4 DEF Contract!Drop

LEMMA ContractStep ==
  ASSUME Inv, [Next]_vars
  PROVE  [Contract!Next]_(Contract!contractVars)
<1> USE DEF Inv
<1>0. TypeOK'
  BY NextInv
<1> SUFFICES Contract!Next \/ UNCHANGED Contract!contractVars
  OBVIOUS
<1> USE DEF Contract!Next, Contract!NodeGroups
<1>1. ASSUME \/ \E yes \in BOOLEAN : ApplyPlan(yes)
             \/ Confirm \/ Decline \/ Refused \/ EditConfig
      PROVE  Contract!Ask
  <2>1. pc \notin Loops /\ pc' \notin Loops /\ state' = state
    BY <1>1 DEF ApplyPlan, ApplyPlanOf, Confirm, Decline, Refused, EditConfig, Exit, run, Loops
  <2>2. Listed' = Listed
    BY <2>1 DEF Listed
  <2> QED
    BY <1>0, <2>1, <2>2, ContractAsk
<1>2. CASE ListGroups
  <2>1. pc \notin Loops /\ pc' \in Loops /\ Listed' = Listed /\ UNCHANGED <<config, replace>>
    BY <1>2 DEF ListGroups, Loops, Listed
  <2>2. Contract!Begin
    BY <2>1 DEF Contract!Begin
  <2> QED
    BY <2>2
<1>3. ASSUME NEW g \in Groups, CreateGroup(g) \/ DeleteGroup(g) PROVE Contract!Next
  BY <1>3, ContractAdd, ContractDrop DEF Groups
<1>4. ASSUME NEW r \in Groups \X Groups, CreateReplacement(r) \/ DeleteReplaced(r)
      PROVE  Contract!Next
  <2>1. r[1] \in Groups /\ r[2] \in Groups
    OBVIOUS
  <2> QED
    BY <1>4, <2>1, ContractAdd, ContractDrop DEF Groups
<1>5. ASSUME \/ Finish
             \/ \E g \in Groups : AwaitFails(g)
             \/ Interrupted /\ pc \in Loops
      PROVE  Contract!End
  <2>1. pc \in Loops /\ Exit /\ UNCHANGED <<config, state, count>>
    BY <1>5 DEF Finish, AwaitFails, Interrupted, Loops
  <2> QED
    BY <2>1, ContractEnd
<1>6. CASE Interrupted /\ pc \notin Loops
  <2>1. pc' \notin Loops /\ Listed' = Listed
    BY <1>6 DEF Interrupted, Exit, Loops, Listed
  <2> QED
    BY <1>0, <1>6, <2>1, ContractAsk
<1>7. ASSUME NEW g \in Groups, UpdateGroup(g) \/ Awaited(g)
      PROVE  UNCHANGED Contract!contractVars
  <2>1. /\ UNCHANGED <<config, replace, state, pc>>
    BY <1>7 DEF UpdateGroup, Awaited
  <2> QED
    BY <2>1, SameContract DEF Listed
<1>8. CASE NextLoop
  <2>1. UNCHANGED <<config, replace, state>> /\ pc \in Loops /\ pc' \in Loops
    BY <1>8 DEF NextLoop, Loops
  <2> QED
    BY <2>1, SameContract DEF Listed
<1>9. ASSUME NEW g \in Groups, Boot(g) \/ Gone(g) \/ Break(g)
      PROVE  UNCHANGED Contract!contractVars
  <2>1. Listed' = Listed /\ UNCHANGED <<config, replace, pc>>
    BY <1>9 DEF Boot, Gone, Break, run, Listed, TypeOK
  <2> QED
    BY <2>1, SameContract
<1>10. ASSUME \/ ClusterGone
              \/ \E g \in Groups : RemovedByHand(g)
       PROVE  Contract!Lose
  <2>1. pc \notin Loops /\ UNCHANGED <<config, replace, pc>> /\ Listed' \subseteq Listed
    BY <1>10 DEF ClusterGone, RemovedByHand, run, Loops, Listed, TypeOK
  <2> QED
    BY <2>1 DEF Contract!Lose
<1>11. CASE UNCHANGED vars
  BY <1>11, SameContract DEF vars, Listed
<1> QED
  BY <1>1, <1>2, <1>3, <1>4, <1>5, <1>6, <1>7, <1>8, <1>9, <1>10, <1>11
     DEF Next, Progress, Settle

\* The node groups keep the contract of PoolContract for any pools and configs:
\* the four loops of _applyDiff, with groups that fail, runs that are cut short
\* and listings older than the confirmation, implement it.
THEOREM PoolsKeepContract == Spec => KeepsContract
<1>1. Init => Contract!Init
  <2> SUFFICES ASSUME Init PROVE Contract!Init
    OBVIOUS
  <2>1. config.hash \in [Pools -> Hashes \union {Absent}]
    BY PoolsAssumption DEF Init
  <2>2. Listed = {} /\ replace = {} /\ pc \notin Loops
    BY DEF Init, Listed, Loops
  <2> QED
    BY <2>1, <2>2 DEF Contract!Init
<1>2. Inv /\ [Next]_vars => [Contract!Next]_(Contract!contractVars)
  BY ContractStep
<1> QED
  BY <1>1, <1>2, PoolsAlways, PTL DEF Spec, KeepsContract, Contract!Spec

-----------------------------------------------------------------------------
(* The whole of a cluster.  Uks goes through the phases of a run around the *)
(* node groups: what it does to them is what UksPools says, and UksInv is   *)
(* what each phase has left behind.                                        *)

PoolPhases == {"router", "network", "cluster", "await", "pools"}
ApplyPhases == PoolPhases \union {"edge", "volume", "bind", "service", "started", "account", "seal"}
AfterVolume == {"no cluster", "no network", "no router", "no dns"}
AfterStore == AfterVolume \union {"no volume"}
AfterEdge == (AfterStore \ {"no dns"}) \union {"no bucket", "no user", "no service", "gone"}

ClusterRecord == [state : {"none", "pending", "running", "upgrading", "failed", "terminating"},
                  plan : Plans \union {Absent}, version : 0..MaxVersion, target : 0..MaxVersion]
VolumeRecord == [there : BOOLEAN, bound : BOOLEAN]
StoreRecord == [service : {"none", "starting", "running", "deleting"},
                buckets : SUBSET {"ours", "alien"}, key : {"none", "unfiled", "filed"}]

UksTypes ==
  /\ phase \in {"rest", "upgrade", "no edge", "no dns"} \union ApplyPhases \union AfterEdge
  /\ cluster \in ClusterRecord /\ volume \in VolumeRecord /\ store \in StoreRecord

\* The process has a plan for the node groups until it has carried it out.
PlanInHand == phase \in PoolPhases <=> pc # "idle"

\* Node groups are of a cluster; it is there while they are worked on.
GroupsHaveCluster ==
  /\ cluster.state = "none" => cluster = NoCluster /\ \A g \in Groups : state[g] = "none"
  /\ phase = "pools" => cluster.state = "running"

\* Buckets and keys are of a service that runs, and one goes when it is empty.
StoreInService ==
  /\ store.service = "none" => store = NoStore
  /\ store.service \in {"none", "deleting"} => store.buckets = {}
  /\ phase \in {"account", "seal"} => store.service = "running"

\* What each phase of delete takes away is gone in the phases that follow.
TakenAway ==
  /\ phase \in AfterEdge /\ "cdn" \in config.edge => records \intersect config.edge = {}
  /\ phase \in AfterStore /\ config.bucket = "drop" => store = NoStore
  /\ phase \in AfterVolume /\ config.volume = "drop" => ~volume.there
  /\ phase \in {"no router", "no dns"} => cluster.state = "none" /\ network = "none"
  /\ phase = "no dns" => router = "none"

UksInv == UksTypes /\ PlanInHand /\ GroupsHaveCluster /\ StoreInService /\ TakenAway

\* What a run does to the node groups, beside all else, is what UksPools says.
LEMMA UksStepIsPoolsStep == [UksNext]_uksVars => [Next]_vars
<1> SUFFICES ASSUME [UksNext]_uksVars PROVE Next \/ UNCHANGED vars
  OBVIOUS
<1>1. ASSUME NEW yes \in BOOLEAN, UksApply(yes) PROVE Next
  <2>1. OtherWork \in BOOLEAN
    BY DEF OtherWork
  <2>2. ApplyPlan(yes)
    BY <1>1, <2>1 DEF UksApply, ApplyPlan
  <2> QED
    BY <2>2 DEF Next
<1>2. CASE ApplyStep
  <2>1. CASE PoolsStep
    BY <2>1 DEF PoolsStep, Next, Progress
  <2>2. CASE PoolsDone \/ PoolsFail \/ UksConfirm \/ ClusterRefused
    BY <2>2 DEF PoolsDone, PoolsFail, UksConfirm, ClusterRefused, Next, Progress
  <2>3. CASE \/ EnsureRouter \/ EnsureNetwork \/ EnsureCluster \/ AwaitCluster
             \/ EnsureRecords \/ EnsureVolume \/ BindVolume
             \/ EnsureService \/ EnsureBucket \/ IssueKey \/ SealKey
    BY <2>3 DEF EnsureRouter, EnsureNetwork, EnsureCluster, AwaitCluster, EnsureRecords, EnsureVolume,
                BindVolume, EnsureService, EnsureBucket, IssueKey, SealKey
  <2> QED
    BY <1>2, <2>1, <2>2, <2>3 DEF ApplyStep
<1>3. CASE DeleteStep \/ AwaitUpgrade \/ StepFails
  BY <1>3 DEF DeleteStep, AwaitUpgrade, StepFails, RemoveEdge, RemoveBucket, RemoveUser, RemoveService,
              ServiceGone, RemoveVolume, RemoveCluster, RemoveNetwork, RemoveRouter, RemoveDns
<1>4. CASE UksSettle
  BY <1>4 DEF UksSettle, ClusterSettles, ClusterVanishes, StoreSettles, Next
<1>5. CASE UksDecline \/ CutEarly \/ UksEditConfig \/ GroupsChange
  BY <1>5 DEF UksDecline, CutEarly, UksEditConfig, GroupsChange, Next
<1>6. CASE StartDelete \/ UpgradeCluster \/ CutLate \/ ClusterBreaks \/ HandMakesBucket
  BY <1>6 DEF StartDelete, UpgradeCluster, CutLate, ClusterBreaks, HandMakesBucket
<1>7. CASE UNCHANGED uksVars
  BY <1>7 DEF uksVars
<1> QED
  BY <1>1, <1>2, <1>3, <1>4, <1>5, <1>6, <1>7 DEF UksNext, UksProgress

\* The node groups of a whole cluster behave as UksPools says.
THEOREM UksImplementsPools == UksSpec => Spec
<1>1. UksInit => Init
  BY DEF UksInit
<1> QED
  BY <1>1, UksStepIsPoolsStep, PTL DEF UksSpec, Spec

\* So apply, with all it does around the node groups, keeps their contract and
\* ends with those that were asked for.
THEOREM UksKeepsContract == UksSpec => KeepsContract
BY UksImplementsPools, PoolsKeepContract

THEOREM UksSuccessIsDesired == UksSpec => SuccessIsDesired
BY UksImplementsPools, SuccessIsWhatWasAsked

-----------------------------------------------------------------------------
(* Every step keeps what the phases leave.                                 *)

\* Where a step of UksPools goes
LEMMA PoolsStepPc ==
  ASSUME PoolsStep
  PROVE  /\ pc # "idle" /\ pc' # "idle" /\ UNCHANGED config
BY DEF PoolsStep, ListGroups, NextLoop, CreateGroup, UpdateGroup, DeleteGroup, Awaited,
       CreateReplacement, DeleteReplaced

\* Who changes what
LEMMA WhoChanges ==
  ASSUME [UksNext]_uksVars
  PROVE  /\ \/ cluster' = cluster \/ EnsureCluster \/ RemoveCluster \/ UpgradeCluster
            \/ ClusterSettles \/ ClusterVanishes \/ ClusterBreaks
         /\ \/ volume' = volume \/ EnsureVolume \/ BindVolume \/ RemoveVolume \/ ClusterVanishes
         /\ \/ store' = store \/ EnsureService \/ EnsureBucket \/ IssueKey \/ SealKey
            \/ RemoveBucket \/ RemoveUser \/ RemoveService \/ StoreSettles \/ HandMakesBucket
         /\ \/ records' = records \/ EnsureRecords \/ RemoveEdge \/ RemoveDns
         /\ \/ network' = network \/ EnsureNetwork \/ RemoveNetwork
         /\ \/ router' = router \/ EnsureRouter \/ RemoveRouter
         /\ \/ config' = config \/ UksEditConfig
<1>1. ASSUME NEW yes \in BOOLEAN, UksApply(yes)
      PROVE  UNCHANGED <<cluster, volume, store, records, network, router, config>>
  BY <1>1 DEF UksApply, ApplyPlanOf
<1>2. CASE PoolsStep
  BY <1>2, PoolsStepPc DEF PoolsStep, flow
<1>3. CASE PoolsDone \/ PoolsFail \/ UksConfirm \/ ClusterRefused \/ UksDecline \/ CutEarly
  BY <1>3 DEF PoolsDone, Finish, PoolsFail, AwaitFails, UksConfirm, Confirm, ClusterRefused, Refused,
              UksDecline, Decline, CutEarly, Interrupted, flow
<1>4. CASE EnsureRouter \/ EnsureNetwork \/ EnsureCluster \/ AwaitCluster \/ EnsureRecords
  BY <1>4 DEF EnsureRouter, EnsureNetwork, EnsureCluster, AwaitCluster, EnsureRecords, vars
<1>5. CASE EnsureVolume \/ BindVolume \/ EnsureService \/ EnsureBucket \/ IssueKey \/ SealKey
  BY <1>5 DEF EnsureVolume, BindVolume, EnsureService, EnsureBucket, IssueKey, SealKey, vars
<1>6. CASE RemoveEdge \/ RemoveBucket \/ RemoveUser \/ RemoveService \/ ServiceGone
  BY <1>6 DEF RemoveEdge, RemoveBucket, RemoveUser, RemoveService, ServiceGone, vars
<1>7. CASE RemoveVolume \/ RemoveCluster \/ RemoveNetwork \/ RemoveRouter \/ RemoveDns
  BY <1>7 DEF RemoveVolume, RemoveCluster, RemoveNetwork, RemoveRouter, RemoveDns, vars
<1>8. CASE AwaitUpgrade \/ StepFails \/ StartDelete \/ UpgradeCluster \/ CutLate
  BY <1>8 DEF AwaitUpgrade, StepFails, StartDelete, UpgradeCluster, CutLate, vars
<1>9. CASE UksSettle
  BY <1>9 DEF UksSettle, Settle, Boot, Gone, ClusterSettles, ClusterVanishes, ClusterGone, StoreSettles,
              flow, vars
<1>10. CASE \/ UksEditConfig \/ ClusterBreaks \/ HandMakesBucket \/ GroupsChange \/ UNCHANGED uksVars
  BY <1>10 DEF UksEditConfig, ClusterBreaks, HandMakesBucket, GroupsChange, Break, RemovedByHand,
               uksVars, flow, vars
<1> QED
  BY <1>1, <1>2, <1>3, <1>4, <1>5, <1>6, <1>7, <1>8, <1>9, <1>10
     DEF UksNext, UksProgress, ApplyStep, DeleteStep

\* The groups that are there were created by the loops, ahead of which the
\* cluster was seen running; otherwise they only go.
LEMMA WhoChangesGroups ==
  ASSUME TypeOK, [UksNext]_uksVars
  PROVE  \/ PoolsStep
         \/ ClusterVanishes
         \/ \A g \in Groups : state[g] = "none" => state'[g] = "none"
<1>1. ASSUME NEW yes \in BOOLEAN, UksApply(yes) PROVE state' = state
  BY <1>1 DEF UksApply, ApplyPlanOf
<1>2. CASE PoolsDone \/ PoolsFail \/ UksConfirm \/ ClusterRefused \/ UksDecline \/ CutEarly \/ UksEditConfig
  BY <1>2 DEF PoolsDone, Finish, PoolsFail, AwaitFails, UksConfirm, Confirm, ClusterRefused, Refused,
              UksDecline, Decline, CutEarly, Interrupted, UksEditConfig, EditConfig
<1>3. CASE \/ EnsureRouter \/ EnsureNetwork \/ EnsureCluster \/ AwaitCluster \/ EnsureRecords
           \/ EnsureVolume \/ BindVolume \/ EnsureService \/ EnsureBucket \/ IssueKey \/ SealKey
  BY <1>3 DEF EnsureRouter, EnsureNetwork, EnsureCluster, AwaitCluster, EnsureRecords, EnsureVolume,
              BindVolume, EnsureService, EnsureBucket, IssueKey, SealKey, vars
<1>4. CASE DeleteStep
  BY <1>4 DEF DeleteStep, RemoveEdge, RemoveBucket, RemoveUser, RemoveService, ServiceGone,
              RemoveVolume, RemoveCluster, RemoveNetwork, RemoveRouter, RemoveDns, vars
<1>5. CASE \/ AwaitUpgrade \/ StepFails \/ StartDelete \/ UpgradeCluster \/ CutLate
           \/ ClusterBreaks \/ HandMakesBucket \/ UNCHANGED uksVars
  BY <1>5 DEF AwaitUpgrade, StepFails, StartDelete, UpgradeCluster, CutLate, ClusterBreaks,
              HandMakesBucket, uksVars, vars
<1>6. CASE GroupsChange \/ UksSettle
  <2>1. ASSUME NEW h \in Groups, Boot(h) \/ Gone(h) \/ Break(h) \/ RemovedByHand(h)
        PROVE  \A g \in Groups : state[g] = "none" => state'[g] = "none"
    BY <2>1 DEF TypeOK, Boot, Gone, Break, RemovedByHand, Listed
  <2> QED
    BY <1>6, <2>1 DEF GroupsChange, UksSettle, Settle, ClusterSettles, StoreSettles, vars
<1> QED
  BY <1>1, <1>2, <1>3, <1>4, <1>5, <1>6 DEF UksNext, UksProgress, ApplyStep

\* What a step does to the phase, told by the phase it comes to
LEMMA PhaseChanges ==
  ASSUME UksTypes, [UksNext]_uksVars
  PROVE  \/ phase' = phase
         \/ phase' = "rest"
         \/ phase' \in {"router", "upgrade"}
         \/ StartDelete
         \/ EnsureRouter \/ EnsureNetwork \/ EnsureCluster \/ AwaitCluster \/ PoolsDone \/ EnsureRecords
         \/ EnsureVolume \/ BindVolume \/ EnsureService \/ EnsureBucket \/ IssueKey
         \/ RemoveEdge \/ RemoveBucket \/ RemoveUser \/ RemoveService \/ ServiceGone
         \/ RemoveVolume \/ RemoveCluster \/ RemoveNetwork \/ RemoveRouter
<1>1. ASSUME NEW yes \in BOOLEAN, UksApply(yes) PROVE phase' = "router"
  BY <1>1 DEF UksApply, Go
<1>2. CASE PoolsFail \/ ClusterRefused \/ UksDecline \/ SealKey \/ RemoveDns \/ AwaitUpgrade \/ StepFails
  BY <1>2 DEF PoolsFail, ClusterRefused, UksDecline, SealKey, RemoveDns, AwaitUpgrade, StepFails, Go
<1>3. CASE CutEarly \/ CutLate \/ StartDelete \/ UpgradeCluster
  BY <1>3 DEF CutEarly, CutLate, StartDelete, UpgradeCluster, Go
<1>4. CASE \/ PoolsStep \/ UksConfirm \/ UksSettle \/ UksEditConfig \/ ClusterBreaks \/ HandMakesBucket
           \/ GroupsChange \/ UNCHANGED uksVars
  BY <1>4 DEF PoolsStep, UksConfirm, UksSettle, ClusterSettles, ClusterVanishes, StoreSettles, UksEditConfig,
              ClusterBreaks, HandMakesBucket, GroupsChange, uksVars, flow
<1> QED
  BY <1>1, <1>2, <1>3, <1>4 DEF UksNext, UksProgress, ApplyStep, DeleteStep

\* What the four kinds of things there are may look like
LEMMA UksTyped ==
  ASSUME TypeOK, UksTypes, [UksNext]_uksVars
  PROVE  UksTypes'
<1>1. phase' \in {"rest", "upgrade", "no edge", "no dns"} \union ApplyPhases \union AfterEdge
  <2> USE DEF UksTypes, PoolPhases, ApplyPhases, AfterVolume, AfterStore, AfterEdge, Go
  <2>1. CASE EnsureRouter \/ EnsureNetwork \/ EnsureCluster \/ AwaitCluster \/ PoolsDone \/ EnsureRecords
    BY <2>1 DEF EnsureRouter, EnsureNetwork, EnsureCluster, AwaitCluster, PoolsDone, EnsureRecords
  <2>2. CASE EnsureVolume \/ BindVolume \/ EnsureService \/ EnsureBucket \/ IssueKey
    BY <2>2 DEF EnsureVolume, BindVolume, EnsureService, EnsureBucket, IssueKey
  <2>3. CASE RemoveEdge \/ RemoveBucket \/ RemoveUser \/ RemoveService \/ ServiceGone
    BY <2>3 DEF RemoveEdge, RemoveBucket, RemoveUser, RemoveService, ServiceGone
  <2>4. CASE StartDelete \/ RemoveVolume \/ RemoveCluster \/ RemoveNetwork \/ RemoveRouter
    BY <2>4 DEF StartDelete, RemoveVolume, RemoveCluster, RemoveNetwork, RemoveRouter
  <2> QED
    BY <2>1, <2>2, <2>3, <2>4, PhaseChanges
<1>2. cluster' \in ClusterRecord
  <2>1. config.plan \in Plans /\ config.version \in 0..MaxVersion /\ 0 \in 0..MaxVersion
    BY UksAssumption DEF TypeOK
  <2>2. cluster \in ClusterRecord
    BY DEF UksTypes
  <2>3. CASE EnsureCluster
    BY <2>1, <2>2, <2>3 DEF ClusterRecord, EnsureCluster
  <2>7. CASE RemoveCluster
    <3>1. [cluster EXCEPT !.state = "terminating", !.target = 0] \in ClusterRecord
      BY <2>1, <2>2 DEF ClusterRecord
    <3> QED
      BY <2>2, <2>7, <3>1 DEF RemoveCluster
  <2>4. CASE UpgradeCluster
    <3>1. cluster.version + 1 \in 0..MaxVersion
      BY <2>2, <2>4, UksAssumption DEF ClusterRecord, UpgradeCluster
    <3> QED
      BY <2>2, <2>4, <3>1 DEF ClusterRecord, UpgradeCluster
  <2>5. CASE ClusterSettles \/ ClusterBreaks
    BY <2>1, <2>2, <2>5 DEF ClusterRecord, ClusterSettles, ClusterBreaks
  <2>6. CASE ClusterVanishes
    BY <2>1, <2>6 DEF ClusterRecord, ClusterVanishes, NoCluster
  <2> QED
    BY <2>2, <2>3, <2>4, <2>5, <2>6, <2>7, WhoChanges
<1>3. volume' \in VolumeRecord
  <2>1. volume \in VolumeRecord
    BY DEF UksTypes
  <2>2. NoVolume \in VolumeRecord
    BY DEF VolumeRecord, NoVolume
  <2>3. [volume EXCEPT !.there = TRUE] \in VolumeRecord
    BY <2>1 DEF VolumeRecord
  <2>4. \A b \in BOOLEAN : [volume EXCEPT !.bound = b] \in VolumeRecord
    BY <2>1 DEF VolumeRecord
  <2>5. CASE EnsureVolume \/ BindVolume \/ ClusterVanishes
    BY <2>1, <2>3, <2>4, <2>5 DEF EnsureVolume, BindVolume, ClusterVanishes
  <2>6. CASE RemoveVolume
    BY <2>1, <2>2, <2>6 DEF RemoveVolume
  <2> QED
    BY <2>1, <2>5, <2>6, WhoChanges
<1>4. store' \in StoreRecord
  <2>1. store \in StoreRecord /\ NoStore \in StoreRecord
    BY DEF UksTypes, StoreRecord, NoStore
  <2>2. CASE EnsureService \/ EnsureBucket \/ IssueKey \/ SealKey
    BY <2>1, <2>2 DEF StoreRecord, EnsureService, EnsureBucket, IssueKey, SealKey
  <2>3. CASE RemoveBucket \/ RemoveUser \/ RemoveService
    BY <2>1, <2>3 DEF StoreRecord, RemoveBucket, RemoveUser, RemoveService
  <2>4. CASE StoreSettles \/ HandMakesBucket
    BY <2>1, <2>4 DEF StoreRecord, StoreSettles, HandMakesBucket
  <2> QED
    BY <2>1, <2>2, <2>3, <2>4, WhoChanges
<1> QED
  BY <1>1, <1>2, <1>3, <1>4 DEF UksTypes

LEMMA PlanKept ==
  ASSUME UksTypes, PlanInHand, [UksNext]_uksVars
  PROVE  PlanInHand'
<1> USE DEF PlanInHand, PoolPhases, Go, Preparing
<1>1. ASSUME NEW yes \in BOOLEAN, UksApply(yes) PROVE PlanInHand'
  BY <1>1 DEF UksApply, ApplyPlanOf
<1>2. CASE PoolsStep
  BY <1>2, PoolsStepPc DEF PoolsStep, flow
<1>3. CASE UksConfirm \/ EnsureRouter \/ EnsureNetwork \/ EnsureCluster \/ AwaitCluster
  BY <1>3 DEF UksConfirm, Confirm, EnsureRouter, EnsureNetwork, EnsureCluster, AwaitCluster, flow, vars
<1>4. CASE ClusterRefused \/ PoolsDone \/ PoolsFail \/ UksDecline \/ CutEarly
  BY <1>4 DEF ClusterRefused, Refused, PoolsDone, Finish, PoolsFail, AwaitFails, UksDecline, Decline,
              CutEarly, Interrupted, Exit
<1>5. CASE EnsureRecords \/ EnsureVolume \/ BindVolume \/ EnsureService \/ EnsureBucket \/ IssueKey \/ SealKey
  BY <1>5 DEF EnsureRecords, EnsureVolume, BindVolume, EnsureService, EnsureBucket, IssueKey, SealKey, vars
<1>6. CASE RemoveEdge \/ RemoveBucket \/ RemoveUser \/ RemoveService \/ ServiceGone
  BY <1>6 DEF RemoveEdge, RemoveBucket, RemoveUser, RemoveService, ServiceGone, vars
<1>7. CASE RemoveVolume \/ RemoveCluster \/ RemoveNetwork \/ RemoveRouter \/ RemoveDns
  BY <1>7 DEF RemoveVolume, RemoveCluster, RemoveNetwork, RemoveRouter, RemoveDns, vars
<1>8. CASE StepFails \/ AwaitUpgrade \/ StartDelete \/ UpgradeCluster \/ CutLate
  BY <1>8 DEF StepFails, AwaitUpgrade, StartDelete, UpgradeCluster, CutLate, vars
<1>9. CASE \/ UksSettle \/ UksEditConfig \/ ClusterBreaks \/ HandMakesBucket \/ GroupsChange
           \/ UNCHANGED uksVars
  <2>1. pc' = pc /\ phase' = phase
    BY <1>9 DEF UksSettle, Settle, Boot, Gone, ClusterSettles, ClusterVanishes, ClusterGone, StoreSettles,
                UksEditConfig, EditConfig, ClusterBreaks, HandMakesBucket, GroupsChange, Break, RemovedByHand,
                uksVars, flow, vars, run
  <2> QED
    BY <2>1
<1> QED
  BY <1>1, <1>2, <1>3, <1>4, <1>5, <1>6, <1>7, <1>8, <1>9 DEF UksNext, UksProgress, ApplyStep, DeleteStep

LEMMA GroupsKept ==
  ASSUME TypeOK, UksTypes, GroupsHaveCluster, [UksNext]_uksVars
  PROVE  GroupsHaveCluster'
<1>0. cluster \in ClusterRecord
  BY DEF UksTypes
<1>1. cluster'.state = "none" => cluster' = NoCluster /\ (cluster' = cluster \/ ClusterVanishes)
  <2>1. CASE EnsureCluster
    BY <1>0, <2>1 DEF EnsureCluster, ClusterRecord
  <2>2. CASE RemoveCluster
    BY <1>0, <2>2 DEF RemoveCluster, ClusterRecord, GroupsHaveCluster
  <2>3. CASE UpgradeCluster \/ ClusterSettles \/ ClusterBreaks
    BY <1>0, <2>3 DEF UpgradeCluster, ClusterSettles, ClusterBreaks, ClusterRecord
  <2>4. CASE ClusterVanishes
    BY <2>4 DEF ClusterVanishes
  <2> QED
    BY <2>1, <2>2, <2>3, <2>4, WhoChanges DEF GroupsHaveCluster
<1>2. cluster'.state = "none" => \A g \in Groups : state'[g] = "none"
  <2>1. CASE ClusterVanishes
    BY <2>1 DEF ClusterVanishes, ClusterGone
  <2>2. ASSUME ~ClusterVanishes, cluster'.state = "none"
        PROVE  \A g \in Groups : state'[g] = "none"
    <3>1. cluster.state = "none" /\ ~PoolsStep
      BY <1>1, <2>2 DEF GroupsHaveCluster, PoolsStep
    <3> QED
      BY <2>2, <3>1, WhoChangesGroups DEF GroupsHaveCluster
  <2> QED
    BY <2>1, <2>2
<1>3. phase' = "pools" => cluster'.state = "running"
  <2>1. phase' = "pools" => phase = "pools" \/ AwaitCluster
    BY PhaseChanges
       DEF Go, StartDelete, EnsureRouter, EnsureNetwork, EnsureCluster, PoolsDone, EnsureRecords,
           EnsureVolume, BindVolume, EnsureService, EnsureBucket, IssueKey, RemoveEdge, RemoveBucket,
           RemoveUser, RemoveService, ServiceGone, RemoveVolume, RemoveCluster, RemoveNetwork, RemoveRouter
  <2>2. CASE AwaitCluster
    BY <2>2 DEF AwaitCluster
  <2>3. CASE phase = "pools"
    BY <2>3, WhoChanges
       DEF GroupsHaveCluster, UksTypes, ClusterRecord, Preparing, EnsureCluster, RemoveCluster, UpgradeCluster,
           ClusterSettles, ClusterVanishes, ClusterBreaks
  <2> QED
    BY <2>1, <2>2, <2>3
<1> QED
  BY <1>1, <1>2, <1>3 DEF GroupsHaveCluster

LEMMA StoreKept ==
  ASSUME UksTypes, StoreInService, [UksNext]_uksVars
  PROVE  StoreInService'
<1>1. /\ store'.service = "none" => store' = NoStore
      /\ store'.service \in {"none", "deleting"} => store'.buckets = {}
  <2>1. NoStore.buckets = {}
    BY DEF NoStore
  <2>2. CASE EnsureService \/ EnsureBucket
    BY <2>2 DEF UksTypes, StoreRecord, StoreInService, EnsureService, EnsureBucket
  <2>3. CASE IssueKey \/ SealKey
    BY <2>3 DEF UksTypes, StoreRecord, StoreInService, IssueKey, SealKey
  <2>4. CASE RemoveBucket \/ RemoveUser \/ RemoveService
    BY <2>1, <2>4 DEF UksTypes, StoreRecord, StoreInService, RemoveBucket, RemoveUser, RemoveService
  <2>5. CASE StoreSettles \/ HandMakesBucket
    BY <2>1, <2>5 DEF UksTypes, StoreRecord, StoreInService, StoreSettles, HandMakesBucket
  <2> QED
    BY <2>2, <2>3, <2>4, <2>5, WhoChanges DEF StoreInService
<1>2. phase' \in {"account", "seal"} => store'.service = "running"
  <2>1. phase' \in {"account", "seal"} =>
          (phase \in {"account", "seal"} /\ ~RemoveService) \/ EnsureBucket
    BY PhaseChanges
       DEF Go, StartDelete, EnsureRouter, EnsureNetwork, EnsureCluster, AwaitCluster, PoolsDone, EnsureRecords,
           EnsureVolume, BindVolume, EnsureService, IssueKey, RemoveEdge, RemoveBucket,
           RemoveUser, RemoveService, ServiceGone, RemoveVolume, RemoveCluster, RemoveNetwork, RemoveRouter
  <2>2. CASE EnsureBucket
    BY <2>2 DEF EnsureBucket, UksTypes, StoreRecord
  <2>3. CASE phase \in {"account", "seal"} /\ ~RemoveService
    BY <2>3, WhoChanges
       DEF UksTypes, StoreRecord, StoreInService, EnsureService, EnsureBucket, IssueKey, SealKey, RemoveBucket, RemoveUser,
           StoreSettles, HandMakesBucket
  <2> QED
    BY <2>1, <2>2, <2>3
<1> QED
  BY <1>1, <1>2 DEF StoreInService

LEMMA TakenKept ==
  ASSUME UksTypes, GroupsHaveCluster, StoreInService, TakenAway, [UksNext]_uksVars
  PROVE  TakenAway'
<1>1. config' = config \/ phase' = "rest"
  BY WhoChanges DEF UksEditConfig, flow
<1> USE DEF AfterEdge, AfterStore, AfterVolume
\* Into the phases of delete there is one way.
<1>2. /\ phase' \in AfterEdge =>
           phase \in AfterEdge \/ RemoveEdge \/ (phase = "rest" /\ StartDelete /\ "cdn" \notin config.edge)
      /\ phase' \in AfterStore => phase \in AfterStore \/ RemoveBucket \/ RemoveUser \/ ServiceGone
      /\ phase' \in AfterVolume => phase \in AfterVolume \/ RemoveVolume
      /\ phase' \in {"no router", "no dns"} => phase \in {"no router", "no dns"} \/ RemoveNetwork
      /\ phase' = "no dns" => phase = "no dns" \/ RemoveRouter
  <2>1. CASE phase' = phase \/ phase' = "rest"
    BY <2>1
  <2>2. CASE StartDelete
    BY <2>2 DEF StartDelete, Go
  <2>3. CASE \/ EnsureRouter \/ EnsureNetwork \/ EnsureCluster \/ AwaitCluster \/ PoolsDone \/ EnsureRecords
             \/ EnsureVolume \/ BindVolume \/ EnsureService \/ EnsureBucket \/ IssueKey
    BY <2>3 DEF Go, EnsureRouter, EnsureNetwork, EnsureCluster, AwaitCluster, PoolsDone, EnsureRecords,
                EnsureVolume, BindVolume, EnsureService, EnsureBucket, IssueKey
  <2>4. CASE RemoveEdge \/ RemoveBucket \/ RemoveUser \/ RemoveService \/ ServiceGone
    BY <2>4 DEF Go, RemoveEdge, RemoveBucket, RemoveUser, RemoveService, ServiceGone
  <2>5. CASE RemoveVolume \/ RemoveCluster \/ RemoveNetwork \/ RemoveRouter
    BY <2>5 DEF Go, RemoveVolume, RemoveCluster, RemoveNetwork, RemoveRouter
  <2> QED
    BY <2>1, <2>2, <2>3, <2>4, <2>5, PhaseChanges
<1>3. phase' \in AfterEdge /\ "cdn" \in config'.edge => records' \intersect config'.edge = {}
  <2>1. CASE RemoveEdge
    BY <1>1, <2>1 DEF RemoveEdge, Go
  <2>2. CASE phase \in AfterEdge
    BY <1>1, <2>2, WhoChanges DEF TakenAway, EnsureRecords, RemoveEdge, RemoveDns
  <2> QED
    BY <1>1, <1>2, <2>1, <2>2
<1>4. phase' \in AfterStore /\ config'.bucket = "drop" => store' = NoStore
  <2>1. CASE RemoveBucket \/ RemoveUser \/ ServiceGone
    BY <1>1, <2>1 DEF RemoveBucket, RemoveUser, ServiceGone, Go, StoreInService
  <2>2. CASE phase \in AfterStore
    <3>1. CASE EnsureService \/ EnsureBucket \/ IssueKey \/ SealKey \/ RemoveBucket \/ RemoveUser \/ RemoveService
      BY <2>2, <3>1
         DEF EnsureService, EnsureBucket, IssueKey, SealKey, RemoveBucket, RemoveUser, RemoveService
    <3>2. CASE StoreSettles \/ HandMakesBucket
      <4>1. store.service # "none" /\ config' = config
        BY <3>2 DEF StoreSettles, HandMakesBucket, vars
      <4>2. NoStore.service = "none"
        BY DEF NoStore
      <4>3. config.bucket = "drop" => store = NoStore
        BY <2>2 DEF TakenAway
      <4> QED
        BY <4>1, <4>2, <4>3
    <3>3. CASE store' = store
      BY <1>1, <2>2, <3>3 DEF TakenAway
    <3> QED
      BY <3>1, <3>2, <3>3, WhoChanges
  <2> QED
    BY <1>2, <2>1, <2>2
<1>5. phase' \in AfterVolume /\ config'.volume = "drop" => ~volume'.there
  <2>1. CASE RemoveVolume
    <3>1. config' = config /\ volume.there \in BOOLEAN /\ NoVolume.there = FALSE
      BY <1>1, <2>1 DEF RemoveVolume, Go, NoVolume, UksTypes, VolumeRecord
    <3> QED
      BY <2>1, <3>1 DEF RemoveVolume
  <2>2. CASE phase \in AfterVolume
    BY <1>1, <2>2, WhoChanges
       DEF TakenAway, UksTypes, VolumeRecord, EnsureVolume, BindVolume, RemoveVolume, ClusterVanishes, NoVolume
  <2> QED
    BY <1>2, <2>1, <2>2
<1>6. phase' \in {"no router", "no dns"} => cluster'.state = "none" /\ network' = "none"
  <2>1. CASE RemoveNetwork
    BY <2>1 DEF RemoveNetwork
  <2>2. CASE phase \in {"no router", "no dns"}
    <3>1. cluster'.state = "none"
      <4>1. ~EnsureCluster /\ ~RemoveCluster /\ ~UpgradeCluster
        BY <2>2 DEF Preparing, EnsureCluster, RemoveCluster, UpgradeCluster
      <4>2. cluster.state = "none" /\ cluster.target = 0
        <5>1. cluster = NoCluster
          BY <2>2 DEF TakenAway, GroupsHaveCluster
        <5> QED
          BY <5>1 DEF NoCluster
      <4>3. ~ClusterSettles /\ ~ClusterVanishes /\ ~ClusterBreaks
        BY <4>2 DEF ClusterSettles, ClusterVanishes, ClusterBreaks
      <4> QED
        BY <4>1, <4>2, <4>3, WhoChanges
    <3>2. network' = "none"
      BY <2>2, WhoChanges DEF TakenAway, Preparing, EnsureNetwork, RemoveNetwork
    <3> QED
      BY <3>1, <3>2
  <2> QED
    BY <1>2, <2>1, <2>2
<1>7. phase' = "no dns" => router' = "none"
  <2>1. CASE phase = "no dns"
    BY <2>1, WhoChanges DEF TakenAway, Preparing, EnsureRouter, RemoveRouter
  <2> QED
    BY <1>2, <2>1 DEF RemoveRouter
<1> QED
  BY <1>3, <1>4, <1>5, <1>6, <1>7 DEF TakenAway

LEMMA UksAlways == UksSpec => [](Inv /\ UksInv)
<1>1. UksInit => UksInv
  <2> SUFFICES ASSUME UksInit PROVE UksInv
    OBVIOUS
  <2>1. /\ NoCluster \in ClusterRecord /\ NoCluster.state = "none"
        /\ NoVolume \in VolumeRecord
        /\ NoStore \in StoreRecord /\ NoStore.buckets = {}
    BY UksAssumption DEF ClusterRecord, VolumeRecord, StoreRecord, NoCluster, NoVolume, NoStore
  <2>2. phase = "rest" /\ pc = "idle" /\ \A g \in Groups : state[g] = "none"
    BY DEF UksInit, Init
  <2> QED
    BY <2>1, <2>2 DEF UksInit, UksInv, UksTypes, PlanInHand, PoolPhases, GroupsHaveCluster, StoreInService,
                      TakenAway, AfterEdge, AfterStore, AfterVolume
<1>2. Inv /\ UksInv /\ [UksNext]_uksVars => UksInv'
  <2> SUFFICES ASSUME Inv, UksInv, [UksNext]_uksVars PROVE UksInv'
    OBVIOUS
  <2>1. TypeOK /\ UksTypes /\ PlanInHand /\ GroupsHaveCluster /\ StoreInService /\ TakenAway
    BY DEF Inv, UksInv
  <2> QED
    BY <2>1, UksTyped, PlanKept, GroupsKept, StoreKept, TakenKept DEF UksInv
<1> QED
  BY <1>1, <1>2, UksImplementsPools, PoolsAlways, PTL DEF UksSpec

\* When delete reports success nothing is left of what the config describes but
\* what it retains, whatever runs were cut short before (DeletedLeavesNothing).
THEOREM UksDeletionIsComplete == UksSpec => DeletedLeavesNothing
<1> DEFINE A ==
      DeleteDone =>
        /\ cluster' = NoCluster /\ network' = "none" /\ router' = "none"
        /\ \A g \in Groups : state'[g] = "none"
        /\ config.volume = "drop" => ~volume'.there
        /\ config.bucket = "drop" => store' = NoStore
        /\ records' \intersect config.edge = {}
<1>1. Inv /\ UksInv => A
  <2> SUFFICES ASSUME Inv, UksInv, DeleteDone PROVE A
    OBVIOUS
  <2>1. phase \in {"no router", "no dns"} /\ router' = "none"
    BY DEF DeleteDone, RemoveDns, RemoveRouter, UksInv, TakenAway
  <2>2. UNCHANGED <<cluster, network, state, volume, store>>
    BY DEF DeleteDone, RemoveDns, RemoveRouter, vars
  <2>3. records' \intersect config.edge = {}
    <3>1. CASE RemoveDns
      BY <3>1 DEF RemoveDns
    <3>2. CASE RemoveRouter /\ phase' = "rest"
      BY <3>2 DEF RemoveRouter, Go, UksInv, TakenAway, AfterEdge, AfterStore, AfterVolume
    <3> QED
      BY <3>1, <3>2 DEF DeleteDone
  <2> QED
    BY <2>1, <2>2, <2>3 DEF UksInv, TakenAway, GroupsHaveCluster, AfterStore, AfterVolume
<1> QED
  BY UksAlways, <1>1, PTL DEF UksSpec, DeletedLeavesNothing

\* No run takes away a volume or a bucket that is retained, nor ever a bucket
\* that the config does not name (DataSurvives).
THEOREM UksKeepsData == UksSpec => DataSurvives
<1> DEFINE A ==
      /\ volume.there /\ ~volume'.there => config.volume = "drop"
      /\ \A b \in store.buckets \ store'.buckets : b = "ours" /\ config.bucket = "drop"
<1>1. Inv /\ UksInv /\ [UksNext]_uksVars => A
  <2> SUFFICES ASSUME Inv, UksInv, [UksNext]_uksVars PROVE A
    OBVIOUS
  <2>1. volume \in VolumeRecord /\ store \in StoreRecord
    BY DEF UksInv, UksTypes
  <2>2. ASSUME volume.there, ~volume'.there PROVE config.volume = "drop"
    <3>1. ~EnsureVolume /\ ~BindVolume /\ ~ClusterVanishes
      BY <2>1, <2>2 DEF VolumeRecord, EnsureVolume, BindVolume, ClusterVanishes
    <3> QED
      BY <2>2, <3>1, WhoChanges DEF RemoveVolume
  <2>3. ASSUME NEW b \in store.buckets, b \notin store'.buckets PROVE b = "ours" /\ config.bucket = "drop"
    <3>1. ~EnsureService /\ ~EnsureBucket /\ ~IssueKey /\ ~SealKey
      BY <2>1, <2>3 DEF StoreRecord, EnsureService, EnsureBucket, IssueKey, SealKey
    <3>2. ~RemoveUser /\ ~RemoveService /\ ~HandMakesBucket
      BY <2>1, <2>3 DEF StoreRecord, RemoveUser, RemoveService, HandMakesBucket
    <3>3. ~StoreSettles
      BY <2>1, <2>3 DEF StoreRecord, StoreSettles, UksInv, StoreInService
    <3>4. CASE RemoveBucket
      BY <2>1, <2>3, <3>4 DEF StoreRecord, RemoveBucket
    <3> QED
      BY <2>3, <3>1, <3>2, <3>3, <3>4, WhoChanges
  <2> QED
    BY <2>2, <2>3
<1> QED
  BY UksAlways, <1>1, PTL DEF UksSpec, DataSurvives

=============================================================================
