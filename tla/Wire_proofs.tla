----------------------------- MODULE Wire_proofs -----------------------------
(***************************************************************************)
(* For any list, page size and limit: what a list leaves out was not there *)
(* all along, but for the exceptions ListingIsWhole names.                 *)
(*                                                                         *)
(* For any number of fibers, permits, retries and revocations: a POST is   *)
(* carried out at most once, and its answer says whether it was.           *)
(***************************************************************************)
EXTENDS Transport, Listing, FiniteSetTheorems, TLAPS

-----------------------------------------------------------------------------
(* Lists                                                                   *)

\* How many items the service lists before j.
Rank(j) == Cardinality({k \in held : k < j})

\* Of what has been there all along, what is not yet read lies ahead: past the
\* marker, or past as many items as have been skipped.
Ahead ==
  /\ walk.by = "marker" => \A j \in steady : j <= at => j \in got
  /\ walk.by = "count" /\ ~taken => \A j \in steady \ got : at <= Rank(j)

\* The strengthening of ListingIsWhole that is inductive.
ListInv == ListTypeOK /\ Ahead /\ ListingIsWhole

LEMMA WalksAre ==
  ASSUME NEW w \in Walks
  PROVE  /\ w.by \in {"marker", "count"}
         /\ w.by = "marker" => w.ends = "told"
         /\ w.ends \in {"told", "short"}
<1> USE DEF Walk
<1>1. CASE w = OpenStackWalk
  BY <1>1 DEF OpenStackWalk
<1>2. CASE w = GodaddyWalk
  BY <1>2 DEF GodaddyWalk
<1>3. CASE w = HetznerWalk
  BY <1>3 DEF HetznerWalk
<1>4. CASE w = HetznerDnsWalk
  BY <1>4 DEF HetznerDnsWalk
<1>5. CASE w = BunnyStorageWalk
  BY <1>5 DEF BunnyStorageWalk
<1>6. CASE w = BunnyDnsWalk
  BY <1>6 DEF BunnyDnsWalk
<1>7. CASE w = ShieldWalk
  BY <1>7 DEF ShieldWalk
<1>8. CASE w = PullZoneWalk
  BY <1>8 DEF PullZoneWalk
<1>9. CASE w = UpcloudWalk
  BY <1>9 DEF UpcloudWalk
<1> QED BY <1>1, <1>2, <1>3, <1>4, <1>5, <1>6, <1>7, <1>8, <1>9 DEF Walks

\* An item that is in neither the first n nor the next page has n and a full
\* page of items before it.
LEMMA PastThePage ==
  ASSUME NEW S \in SUBSET Nat, IsFiniteSet(S), NEW n \in Nat, NEW m \in Nat,
         NEW skip, IsFirst(skip, S, n),
         NEW page, IsFirst(page, S \ skip, m),
         NEW j \in (S \ skip) \ page
  PROVE  /\ Cardinality(page) = m
         /\ n + m <= Cardinality({k \in S : k < j})
<1>1. skip \subseteq S /\ page \subseteq S \ skip /\ page # S \ skip /\ skip # S
  BY DEF IsFirst
<1>2. Cardinality(skip) = n /\ Cardinality(page) = m
  BY <1>1 DEF IsFirst
<1>3. skip \union page \subseteq {k \in S : k < j}
  BY <1>1 DEF IsFirst
<1>4. IsFiniteSet(skip) /\ IsFiniteSet(page) /\ IsFiniteSet({k \in S : k < j})
  <2>1. {k \in S : k < j} \in SUBSET S
    OBVIOUS
  <2> QED BY <1>1, <2>1, FS_Subset
<1>5. Cardinality(skip \union page) = n + m
  <2>1. skip \cap page = {}
    BY <1>1
  <2>2. Cardinality(skip \cap page) = 0
    BY <2>1, FS_EmptySet
  <2>3. Cardinality(skip \union page) = n + m - 0
    BY <1>2, <1>4, <2>2, FS_Union
  <2> QED BY <2>3
<1> QED BY <1>2, <1>3, <1>4, <1>5, FS_Subset

\* An item that has n before it is not among the first n.
LEMMA NotSkipped ==
  ASSUME NEW S \in SUBSET Nat, IsFiniteSet(S), NEW n \in Nat,
         NEW skip, IsFirst(skip, S, n),
         NEW j \in S, n <= Cardinality({k \in S : k < j})
  PROVE  j \notin skip
<1> SUFFICES ASSUME j \in skip PROVE FALSE
  OBVIOUS
<1> DEFINE before == {k \in S : k < j}
<1>1. before \subseteq skip
  <2> SUFFICES ASSUME NEW k \in S \ skip, k < j PROVE FALSE
    OBVIOUS
  <2>1. j < k
    BY DEF IsFirst
  <2>2. j \in Nat /\ k \in Nat
    OBVIOUS
  <2> QED BY <2>1, <2>2
<1>2. IsFiniteSet(skip)
  BY FS_Subset DEF IsFirst
<1>3. Cardinality(skip) <= n
  <2>1. Cardinality(S) \in Nat
    BY FS_CardinalityType
  <2> QED BY <2>1 DEF IsFirst
<1>4. before \in SUBSET (skip \ {j})
  BY <1>1
<1>5. IsFiniteSet(skip \ {j}) /\ Cardinality(skip \ {j}) = Cardinality(skip) - 1
  BY <1>2, FS_RemoveElement
<1>6. Cardinality(before) <= Cardinality(skip) - 1
  BY <1>4, <1>5, FS_Subset
<1>7. Cardinality(skip) \in Nat /\ Cardinality(before) \in Nat
  BY <1>2, <1>4, <1>5, FS_CardinalityType, FS_Subset
<1> HIDE DEF before
<1>8. n <= Cardinality(before)
  BY DEF before
<1> QED BY <1>3, <1>6, <1>7, <1>8

LEMMA HeldIsFinite ==
  ASSUME ListTypeOK
  PROVE  IsFiniteSet(held) /\ held \in SUBSET Nat
  BY FS_Subset, ListingAssumption DEF ListTypeOK

LEMMA RanksAreNat ==
  ASSUME ListTypeOK, NEW j
  PROVE  Rank(j) \in Nat
<1>1. {k \in held : k < j} \in SUBSET held
  OBVIOUS
<1> QED BY <1>1, HeldIsFinite, FS_Subset, FS_CardinalityType DEF Rank

LEMMA ListStarts == ListInit => ListInv
<1> SUFFICES ASSUME ListInit PROVE ListInv
  OBVIOUS
<1>1. ListTypeOK
  <2>1. at \in Nat /\ pages \in 1..MaxPages
    BY ListingAssumption DEF ListInit
  <2> QED BY <2>1 DEF ListInit, ListTypeOK
<1>2. Ahead
  <2>1. \A j \in steady : Rank(j) \in Nat /\ j \in Nat \ {0}
    BY <1>1, RanksAreNat, ListingAssumption DEF ListTypeOK
  <2> QED BY <2>1 DEF ListInit, Ahead
<1>3. ListingIsWhole
  BY DEF ListInit, ListingIsWhole
<1> QED BY <1>1, <1>2, <1>3 DEF ListInv

\* One page of a walk that skips what it has counted.
LEMMA CountKeepsAhead ==
  ASSUME ListInv, walk.by = "count", ~taken,
         NEW rest \in SUBSET held, IsRest(rest),
         NEW page \in SUBSET rest, IsFirst(page, rest, PageSize),
         NEW j \in steady \ (got \union page)
  PROVE  /\ j \in rest \ page
         /\ Cardinality(page) = PageSize
         /\ at + PageSize <= Rank(j)
<1> PICK skip \in SUBSET held : IsFirst(skip, held, at) /\ rest = held \ skip
  BY DEF IsRest
<1>1. IsFiniteSet(held) /\ held \in SUBSET Nat /\ at \in Nat /\ PageSize \in Nat /\ j \in held
  BY HeldIsFinite, ListingAssumption DEF ListInv, ListTypeOK
<1>2. at <= Cardinality({k \in held : k < j})
  BY DEF ListInv, Ahead, Rank
<1>3. j \notin skip
  BY <1>1, <1>2, NotSkipped
<1>4. j \in (held \ skip) \ page
  BY <1>1, <1>3
<1>5. /\ Cardinality(page) = PageSize
      /\ at + PageSize <= Cardinality({k \in held : k < j})
  BY <1>1, <1>4, PastThePage
<1> QED BY <1>4, <1>5 DEF Rank

\* One page of a walk that continues after a marker.
LEMMA MarkerKeepsAhead ==
  ASSUME ListInv, walk.by = "marker",
         NEW rest \in SUBSET held, IsRest(rest),
         NEW page \in SUBSET rest, IsFirst(page, rest, PageSize),
         NEW j \in steady \ (got \union page)
  PROVE  /\ j \in rest \ page
         /\ \A m \in page : m < j
<1>1. j \in held /\ ~(j <= at)
  BY DEF ListInv, ListTypeOK, Ahead
<1>2. held \subseteq Nat /\ at \in Nat
  BY HeldIsFinite DEF ListInv, ListTypeOK
<1>3. j \in rest \ page
  BY <1>1, <1>2 DEF IsRest
<1> QED BY <1>3 DEF IsFirst

LEMMA ReadPageKeepsListInv ==
  ASSUME ListInv, ReadPage
  PROVE  ListInv'
<1> PICK rest \in {r \in SUBSET held : IsRest(r)} :
      \E page \in {p \in SUBSET rest : IsFirst(p, rest, PageSize)} :
        /\ got' = got \cup page
        /\ ReadLastPage(page, rest) \/ NextPage(page, rest) \/ StopWalk(page, rest)
  BY Zenon DEF ReadPage
<1> PICK page \in {p \in SUBSET rest : IsFirst(p, rest, PageSize)} :
      /\ got' = got \cup page
      /\ ReadLastPage(page, rest) \/ NextPage(page, rest) \/ StopWalk(page, rest)
  OBVIOUS
<1>r. /\ rest \in SUBSET held /\ IsRest(rest)
      /\ page \in SUBSET rest /\ IsFirst(page, rest, PageSize)
  OBVIOUS
<1>u. listing = "walking" /\ UNCHANGED <<held, walk, looping, steady, taken>>
  BY DEF ReadPage
<1>t. /\ held \subseteq Items /\ Items \subseteq Nat /\ at \in Nat /\ PageSize \in Nat \ {0}
      /\ pages \in 1..MaxPages /\ MaxPages \in Nat \ {0} /\ walk \in Walks
  BY ListingAssumption DEF ListInv, ListTypeOK
<1>w. walk.by \in {"marker", "count"}
  BY <1>t, WalksAre
<1>1. ListTypeOK'
  <2>1. at' \in Nat /\ pages' \in 1..MaxPages /\ listing' \in {"walking", "done", "failed"}
    <3>1. CASE ReadLastPage(page, rest)
      BY <3>1, <1>t DEF ReadLastPage
    <3>2. CASE NextPage(page, rest)
      <4>1. at' \in Nat
        <5>1. page \subseteq Nat
          <6>1. page \subseteq held /\ held \subseteq Nat
            BY Zenon, <1>r, <1>t
          <6> QED BY Zenon, <6>1
        <5>3. at + PageSize \in Nat /\ 0 \in Nat
          BY <1>t
        <5>2. at' = 0 \/ at' \in page \/ at' = at + PageSize
          BY <3>2 DEF NextPage, After
        <5> QED BY Zenon, <5>1, <5>2, <5>3
      <4>2. pages' \in 1..MaxPages
        <5>1. walk.past # "goes on" => pages # MaxPages
          BY <3>2 DEF NextPage, GivesUp
        <5>2. pages' = pages \/ (pages # MaxPages /\ pages' = pages + 1)
          BY <3>2, <5>1 DEF NextPage
        <5> QED BY <5>2, <1>t
      <4> QED BY <3>2, <4>1, <4>2, <1>u DEF NextPage
    <3>3. CASE StopWalk(page, rest)
      BY <3>3, <1>t DEF StopWalk
    <3> QED BY <3>1, <3>2, <3>3
  <2> QED BY <2>1, <1>u DEF ListInv, ListTypeOK
<1>2. Ahead'
  <2>1. ASSUME walk.by = "marker", NEW j \in steady, j <= at', j \notin got' PROVE FALSE
    <3>0. j \in Nat
      BY <1>t DEF ListInv, ListTypeOK
    <3>1. j \in rest \ page /\ \A m \in page : m < j
      BY <1>r, <2>1, MarkerKeepsAhead
    <3>2. j > at
      BY <1>r, <3>1, <2>1 DEF IsRest
    <3>3. at' \in page \/ at' = 0 \/ at' = at
      BY <2>1 DEF ReadLastPage, NextPage, StopWalk, After
    <3>4. at' \in Nat
      BY <1>1 DEF ListTypeOK
    <3>5. ~(at' \in page)
      BY <3>0, <3>1, <3>4, <2>1
    <3> QED BY <3>0, <3>2, <3>3, <3>5, <2>1, <1>t
  <2>2. ASSUME walk.by = "count", ~taken, NEW j \in steady \ got' PROVE at' <= Rank(j)
    <3>1. at + PageSize <= Rank(j)
      BY <1>r, <2>2, CountKeepsAhead
    <3>2. at' = at + PageSize \/ at' = 0 \/ at' = at
      BY <2>2 DEF ReadLastPage, NextPage, StopWalk, After
    <3>3. Rank(j) \in Nat
      BY RanksAreNat DEF ListInv
    <3> QED BY <3>1, <3>2, <3>3, <1>t
  <2> QED BY <2>1, <2>2, <1>u DEF Ahead, Rank
<1>3. ListingIsWhole'
  <2> SUFFICES ASSUME listing' = "done",
                      ~(walk.until = "found" /\ Wanted \in got'),
                      ~(walk.by = "count" /\ taken),
                      ~(walk.past = "stops" /\ pages' = MaxPages),
                      NEW j \in steady \ got'
               PROVE  FALSE
    BY <1>u DEF ListingIsWhole
  <2>1. j \in rest \ page
    BY <1>r, <1>w, CountKeepsAhead, MarkerKeepsAhead
  <2>2. CASE ReadLastPage(page, rest)
    <3>1. walk.ends = "short" /\ Cardinality(page) < PageSize
      BY <2>1, <2>2 DEF ReadLastPage, LastPage
    <3>2. walk.by = "count" => Cardinality(page) = PageSize
      BY <1>r, CountKeepsAhead
    <3>3. walk.by = "marker" => walk.ends = "told"
      BY <1>t, WalksAre
    <3> QED BY <3>1, <3>2, <3>3, <1>w, <1>t
  <2>3. CASE NextPage(page, rest)
    BY <2>3, <1>u DEF NextPage
  <2>4. CASE StopWalk(page, rest)
    <3>1. walk.past = "stops" /\ pages' = pages /\ (LeadsBack \/ GivesUp)
      BY <2>4 DEF StopWalk
    <3>2. ~LeadsBack
      BY <3>1 DEF LeadsBack, GodaddyWalk, Walk
    <3> QED BY <3>1, <3>2 DEF GivesUp
  <2> QED BY <2>2, <2>3, <2>4
<1> QED BY <1>1, <1>2, <1>3 DEF ListInv

\* What others add comes before an item or after it: no item comes nearer.
LEMMA AddKeepsListInv ==
  ASSUME ListInv, listing = "walking", NEW i \in Items, OthersAdd(i)
  PROVE  ListInv'
<1>1. ListTypeOK'
  BY DEF ListInv, ListTypeOK, OthersAdd
<1>2. Ahead'
  <2>1. ASSUME NEW j \in steady, at <= Rank(j) PROVE at <= Rank(j)'
    <3>1. {k \in held : k < j} \in SUBSET {k \in held' : k < j}
      BY DEF OthersAdd
    <3>2. IsFiniteSet({k \in held' : k < j})
      <4>1. IsFiniteSet(held \union {i})
        BY HeldIsFinite, FS_AddElement DEF ListInv
      <4>2. {k \in held' : k < j} \in SUBSET (held \union {i})
        BY DEF OthersAdd
      <4> QED BY <4>1, <4>2, FS_Subset
    <3>3. Rank(j) <= Rank(j)'
      BY <3>1, <3>2, FS_Subset DEF Rank
    <3>4. Rank(j) \in Nat /\ Rank(j)' \in Nat /\ at \in Nat
      BY <3>2, RanksAreNat, FS_CardinalityType DEF ListInv, ListTypeOK, Rank
    <3> QED BY <2>1, <3>3, <3>4
  <2> QED BY <2>1 DEF ListInv, Ahead, OthersAdd
<1>3. ListingIsWhole'
  BY DEF ListingIsWhole, OthersAdd
<1> QED BY <1>1, <1>2, <1>3 DEF ListInv

LEMMA OthersKeepListInv ==
  ASSUME ListInv,
         \/ PageFails
         \/ listing = "walking" /\ \E i \in Items : OthersTake(i)
         \/ UNCHANGED listVars
  PROVE  ListInv'
<1>1. CASE PageFails
  <2>0. at' \in Nat /\ pages' \in 1..MaxPages
    BY <1>1, ListingAssumption DEF PageFails
  <2>1. ListTypeOK'
    BY <1>1, <2>0 DEF PageFails, ListInv, ListTypeOK
  <2>2. \A j \in held : Rank(j) \in Nat /\ j \in Nat \ {0}
    BY RanksAreNat, ListingAssumption DEF ListInv, ListTypeOK
  <2>3. Ahead'
    <3>1. \A j \in held : Rank(j)' = Rank(j) /\ 0 <= Rank(j) /\ ~(j <= 0)
      BY <1>1, <2>2 DEF PageFails, Rank
    <3> QED BY <1>1, <3>1 DEF PageFails, Ahead
  <2>4. ListingIsWhole'
    BY <1>1 DEF PageFails, ListingIsWhole
  <2> QED BY <2>1, <2>3, <2>4 DEF ListInv
<1>2. CASE listing = "walking" /\ \E i \in Items : OthersTake(i)
  BY <1>2 DEF OthersTake, ListInv, ListTypeOK, Ahead, ListingIsWhole
<1>3. CASE UNCHANGED listVars
  BY <1>3 DEF listVars, ListInv, ListTypeOK, Ahead, Rank, ListingIsWhole
<1> QED BY <1>1, <1>2, <1>3

\* A list leaves out nothing that has been there from its first page to its
\* last, but for the exceptions that ListingIsWhole names: for any number of
\* items, any page size and any limit (cloud-provider.ts:72 of openstack,
\* paginate.ts:3 of hetzner).
THEOREM ListsAreWhole == ListSpec => []ListingIsWhole
<1>1. ListInit => ListInv
  BY ListStarts
<1>2. ListInv /\ [ListNext]_listVars => ListInv'
  BY ReadPageKeepsListInv, AddKeepsListInv, OthersKeepListInv DEF ListNext
<1>3. ListInv => ListingIsWhole
  BY DEF ListInv
<1> QED BY <1>1, <1>2, <1>3, PTL DEF ListSpec

-----------------------------------------------------------------------------
(* Requests                                                                *)

\* A POST of a client that holds it back has not been carried out by the
\* attempts that were repeated.
Unrun ==
  client \in Careful =>
    \A f \in Fibers : calls[f].method = "POST" => calls[f].ran = 0

\* A fiber has a token once one was cached or made for it; one it has yet to
\* put into the cache is nobody else's.
OwnTokens ==
  \A f \in Fibers :
    /\ calls[f].pc \in {"idle", "waiting", "ready", "issuing"} => calls[f].token = NoToken
    /\ calls[f].pc = "sent" /\ client \in Tokened => calls[f].token \in Tokens
    /\ calls[f].pc = "storing" =>
         /\ calls[f].token \in Tokens
         /\ cache # calls[f].token
         /\ \A g \in Fibers \ {f} : calls[g].token # calls[f].token

\* A token that some fiber uses, or would take from the cache, and that the
\* service does not know any more.
Lost(t) ==
  /\ t \in Tokens \ alive
  /\ (\E f \in Fibers : calls[f].token = t) \/ (t = cache /\ t \notin expired)

\* A token no fiber will take, and none has taken that has renewed its own.
Unused(t) ==
  /\ t # cache
  /\ \A f \in Fibers :
       calls[f].pc = "storing" \/ calls[f].renewed => calls[f].token # t

\* Only a revocation loses a token; and whoever has found one lost, and has
\* emptied the cache, gets one that is not.
LostOnce ==
  client = "openstack" =>
    /\ revocations = 0 => /\ \A t \in Tokens : ~Lost(t)
                          /\ \A f \in Fibers : ~calls[f].renewed
    /\ revocations = 1 => /\ \A t, u \in Tokens : Lost(t) /\ Lost(u) => t = u
                          /\ (\E f \in Fibers : calls[f].renewed) =>
                                \A t \in Tokens : Lost(t) => Unused(t)

\* The strengthening of AnswerIsTrue that is inductive.
WireInv == WireTypeOK /\ Unrun /\ OwnTokens /\ LostOnce

LEMMA TokensAreNat ==
  /\ Cardinality(Fibers) \in Nat
  /\ Tokens \subseteq Nat \ {0}
  /\ NoToken \notin Tokens
<1>1. Cardinality(Fibers) \in Nat
  BY TransportAssumption, FS_CardinalityType
<1> QED BY <1>1 DEF Tokens, NoToken

\* There is one token more than fibers can hold and the cache besides, when
\* one of the fibers has none.
LEMMA FreshToken ==
  ASSUME WireTypeOK, NEW f \in Fibers, calls[f].token = NoToken
  PROVE  \E t \in Tokens : t \notin Held
<1> SUFFICES ASSUME Tokens \subseteq Held PROVE FALSE
  OBVIOUS
<1> DEFINE holder == [t \in Tokens |-> IF t = cache THEN f
                                       ELSE CHOOSE g \in Fibers : calls[g].token = t]
<1>1. \A t \in Tokens : t # cache =>
        /\ holder[t] \in Fibers
        /\ calls[holder[t]].token = t
  BY DEF Held
<1>2. holder \in [Tokens -> Fibers]
  BY <1>1
<1>3. IsFiniteSet(Tokens) /\ Cardinality(Fibers) < Cardinality(Tokens)
  BY TokensAreNat, FS_Interval DEF Tokens
<1>4. PICK t \in Tokens, u \in Tokens : t # u /\ holder[t] = holder[u]
  <2> HIDE DEF holder
  <2> QED BY <1>2, <1>3, FS_PigeonHole, TransportAssumption
<1>5. \A v \in Tokens : v # cache => holder[v] # f
  BY <1>1, TokensAreNat
<1>6. \A v \in Tokens : v = cache => holder[v] = f
  OBVIOUS
<1> HIDE DEF holder
<1> QED BY <1>1, <1>4, <1>5, <1>6

LEMMA WireStarts == WireInit => WireInv
<1> SUFFICES ASSUME WireInit PROVE WireInv
  OBVIOUS
<1>1. \A f \in Fibers : calls[f] = NoCall
  BY DEF WireInit
<1>2. WireTypeOK
  <2>1. permits \in 1..MaxPermits
    BY TransportAssumption DEF WireInit
  <2>2. revocations \in 0..MaxRevocations /\ 0 \in 0..MaxRetries /\ 0 \in 0..2
    BY TransportAssumption DEF WireInit
  <2>3. NoCall \in CallRecords
    BY <2>2 DEF NoCall, CallRecords
  <2> QED BY <2>1, <2>2, <2>3 DEF WireInit, WireTypeOK
<1>3. Unrun /\ OwnTokens
  BY <1>1 DEF Unrun, OwnTokens, NoCall
<1>4. LostOnce
  BY <1>1, TokensAreNat DEF LostOnce, Lost, NoCall, WireInit
<1> QED BY <1>2, <1>3, <1>4 DEF WireInv

LEMMA Renewing ==
  ASSUME WireTypeOK, NEW f \in Fibers, NEW call \in CallRecords, Goes(f, call)
  PROVE  /\ calls' \in [Fibers -> CallRecords]
         /\ calls'[f] = call
         /\ \A g \in Fibers \ {f} : calls'[g] = calls[g]
  BY DEF WireTypeOK, Goes

LEMMA FieldsOfCalls ==
  ASSUME WireTypeOK, NEW f \in Fibers
  PROVE  /\ calls[f] \in CallRecords
         /\ calls[f].pc \in {"idle", "waiting", "ready", "issuing", "storing", "sent"}
         /\ calls[f].method \in Methods \union {"none"}
         /\ calls[f].token \in Tokens \union {NoToken}
         /\ calls[f].tries \in 0..MaxRetries
         /\ calls[f].renewed \in BOOLEAN
         /\ calls[f].ran \in 0..2
  BY DEF WireTypeOK, CallRecords

\* A step that revokes and loses nothing.
LEMMA KeepsLostOnce ==
  ASSUME WireInv, client' = client, revocations' = revocations,
         \A t \in Tokens : Lost(t)' => Lost(t),
         \A f \in Fibers : calls'[f].renewed => calls[f].renewed,
         \A t \in Tokens : Lost(t)' /\ Unused(t) => Unused(t)'
  PROVE  LostOnce'
<1> SUFFICES ASSUME client = "openstack" PROVE LostOnce'
  BY DEF LostOnce
<1>1. revocations = 0 => /\ \A t \in Tokens : ~Lost(t)'
                         /\ \A f \in Fibers : ~calls'[f].renewed
  BY DEF WireInv, LostOnce
<1>2. revocations = 1 => \A t, u \in Tokens : Lost(t)' /\ Lost(u)' => t = u
  BY DEF WireInv, LostOnce
<1>3. ASSUME revocations = 1, NEW f \in Fibers, calls'[f].renewed, NEW t \in Tokens, Lost(t)'
      PROVE  Unused(t)'
  BY <1>3 DEF WireInv, LostOnce
<1> QED BY <1>1, <1>2, <1>3 DEF LostOnce

\* The fiber asks, waits for its permit, and takes the token of the cache.
LEMMA SendingKeepsWireInv ==
  ASSUME WireInv, NEW f \in Fibers,
         (\E m \in Methods : Call(f, m)) \/ Acquire(f) \/ Attempt(f)
  PROVE  WireInv'
<1> PICK call \in CallRecords :
      /\ Goes(f, call)
      /\ call.renewed => calls[f].renewed
      /\ call.pc \in {"waiting", "ready", "issuing", "sent"}
      /\ call.pc \in {"waiting", "ready", "issuing"} => call.token = NoToken
      /\ call.pc = "sent" /\ client \in Tokened => call.token = cache /\ Current
      /\ call.token = NoToken \/ (call.token = cache /\ Current)
      /\ call.ran = 0 \/ (call.ran = calls[f].ran /\ call.method = calls[f].method)
  <2>0. calls[f] \in CallRecords
    BY FieldsOfCalls DEF WireInv
  <2>1. ASSUME NEW m \in Methods, Call(f, m)
        PROVE  [NoCall EXCEPT !.pc = "waiting", !.method = m] \in CallRecords
    <3>1. 0 \in 0..MaxRetries /\ 0 \in 0..2
      BY TransportAssumption
    <3>2. NoCall \in CallRecords
      BY <3>1 DEF NoCall, CallRecords
    <3> QED BY <3>2 DEF CallRecords
  <2>2. CASE \E m \in Methods : Call(f, m)
    BY <2>1, <2>2 DEF Call, NoCall
  <2>3. CASE Acquire(f)
    <3>1. [calls[f] EXCEPT !.pc = "ready"] \in CallRecords
      BY <2>0 DEF CallRecords
    <3> QED BY <2>0, <2>3, <3>1 DEF Acquire, WireInv, OwnTokens, CallRecords
  <2>4. CASE Attempt(f)
    <3>1. /\ [calls[f] EXCEPT !.pc = "sent"] \in CallRecords
          /\ [calls[f] EXCEPT !.pc = "issuing"] \in CallRecords
          /\ [calls[f] EXCEPT !.pc = "sent", !.token = cache] \in CallRecords
      BY <2>0 DEF CallRecords, WireInv, WireTypeOK
    <3>2. calls[f].token = NoToken
      BY <2>4 DEF Attempt, WireInv, OwnTokens
    <3> QED BY <2>0, <2>4, <3>1, <3>2 DEF Attempt, CallRecords
  <2> QED BY <2>2, <2>3, <2>4
<1>u. UNCHANGED <<client, permits, cache, alive, expired, revocations>>
  BY DEF Call, Acquire, Attempt
<1>c. /\ calls' \in [Fibers -> CallRecords]
      /\ calls'[f] = call
      /\ \A g \in Fibers \ {f} : calls'[g] = calls[g]
  BY Renewing DEF WireInv
<1>1. WireTypeOK'
  BY <1>u, <1>c DEF WireInv, WireTypeOK, Tokens, CallRecords
<1>2. Unrun'
  BY <1>u, <1>c DEF WireInv, Unrun
<1>3. OwnTokens'
  BY <1>u, <1>c, TokensAreNat DEF WireInv, WireTypeOK, OwnTokens, Current
<1>4. LostOnce'
  <2>1. ASSUME NEW t \in Tokens, Lost(t)' PROVE Lost(t)
    BY <1>u, <1>c, <2>1, TokensAreNat DEF Lost, Current
  <2>2. ASSUME NEW t \in Tokens, Unused(t) PROVE Unused(t)'
    BY <1>u, <1>c, <2>2, TokensAreNat DEF Unused, Current
  <2> QED BY <1>u, <1>c, <2>1, <2>2, KeepsLostOnce
<1> QED BY <1>1, <1>2, <1>3, <1>4 DEF WireInv

\* The fiber has a token made for it.
LEMMA IssueKeepsWireInv ==
  ASSUME WireInv, NEW f \in Fibers, Issue(f)
  PROVE  WireInv'
<1> DEFINE t0 == CHOOSE u \in Tokens : u \notin Held
<1> DEFINE call == [calls[f] EXCEPT !.pc = "storing", !.token = t0]
<1>f. /\ calls[f] \in CallRecords /\ calls[f].token = NoToken
      /\ calls[f].pc = "issuing"
  BY FieldsOfCalls DEF WireInv, OwnTokens, Issue
<1>0. t0 \in Tokens /\ t0 \notin Held
  BY <1>f, FreshToken DEF WireInv
<1>a. /\ Goes(f, call)
      /\ alive' = alive \union {t0} /\ expired' = expired \ {t0}
      /\ UNCHANGED <<client, permits, cache, revocations>>
  BY DEF Issue
<1> HIDE DEF t0
<1>r. /\ call \in CallRecords
      /\ call.token = t0 /\ call.pc = "storing" /\ call.renewed = calls[f].renewed
      /\ call.ran = calls[f].ran /\ call.method = calls[f].method
  BY <1>f, <1>0 DEF CallRecords
<1> HIDE DEF call
<1>c. /\ calls' \in [Fibers -> CallRecords]
      /\ calls'[f] = call
      /\ \A g \in Fibers \ {f} : calls'[g] = calls[g]
  BY <1>a, <1>r, Renewing DEF WireInv
<1>h. t0 # cache /\ \A g \in Fibers : calls[g].token # t0
  BY <1>0 DEF Held
<1>1. WireTypeOK'
  BY <1>a, <1>c, <1>0 DEF WireInv, WireTypeOK, Tokens, CallRecords
<1>2. Unrun'
  BY <1>a, <1>c, <1>r DEF WireInv, Unrun
<1>3. OwnTokens'
  BY <1>a, <1>c, <1>r, <1>h, <1>0 DEF WireInv, OwnTokens
<1>4. LostOnce'
  <2>1. ASSUME NEW t \in Tokens, Lost(t)' PROVE Lost(t) /\ t # t0
    BY <1>a, <1>c, <1>r, <1>h, <2>1 DEF Lost
  <2>2. ASSUME NEW t \in Tokens, Unused(t), t # t0 PROVE Unused(t)'
    BY <1>a, <1>c, <1>r, <2>2 DEF Unused
  <2> QED BY <1>a, <1>c, <1>r, <2>1, <2>2, KeepsLostOnce
<1> QED BY <1>1, <1>2, <1>3, <1>4 DEF WireInv

\* The token goes into the cache, over whatever is there by now.
LEMMA StoreKeepsWireInv ==
  ASSUME WireInv, NEW f \in Fibers, Store(f)
  PROVE  WireInv'
<1> DEFINE call == [calls[f] EXCEPT !.pc = "sent"]
<1>f. /\ calls[f] \in CallRecords /\ calls[f].pc = "storing"
      /\ calls[f].token \in Tokens
      /\ \A g \in Fibers \ {f} : calls[g].token # calls[f].token
  BY FieldsOfCalls DEF WireInv, OwnTokens, Store
<1>a. /\ Goes(f, call) /\ cache' = calls[f].token /\ TokensDropped
      /\ UNCHANGED <<client, permits, revocations>>
  BY DEF Store
<1>r. /\ call \in CallRecords
      /\ call.token = calls[f].token /\ call.pc = "sent" /\ call.renewed = calls[f].renewed
      /\ call.ran = calls[f].ran /\ call.method = calls[f].method
  BY <1>f DEF CallRecords
<1> HIDE DEF call
<1>c. /\ calls' \in [Fibers -> CallRecords]
      /\ calls'[f] = call
      /\ \A g \in Fibers \ {f} : calls'[g] = calls[g]
  BY <1>a, <1>r, Renewing DEF WireInv
<1>1. WireTypeOK'
  BY <1>a, <1>c, <1>f DEF WireInv, WireTypeOK, Tokens, CallRecords, TokensDropped
<1>2. Unrun'
  BY <1>a, <1>c, <1>r DEF WireInv, Unrun
<1>3. OwnTokens'
  BY <1>a, <1>c, <1>r, <1>f DEF WireInv, OwnTokens
<1>4. LostOnce'
  <2>1. ASSUME NEW t \in Tokens, Lost(t)' PROVE Lost(t)
    BY <1>a, <1>c, <1>r, <2>1 DEF Lost, TokensDropped, Held
  <2>2. ASSUME NEW t \in Tokens, Unused(t) PROVE Unused(t)'
    BY <1>a, <1>c, <1>r, <1>f, <2>2 DEF Unused
  <2> QED BY <1>a, <1>c, <1>r, <2>1, <2>2, KeepsLostOnce
<1> QED BY <1>1, <1>2, <1>3, <1>4 DEF WireInv

\* The request ends, or is tried again with a token yet to be had.
LEMMA DroppingKeepsWireInv ==
  ASSUME WireInv, NEW f \in Fibers, NEW call \in CallRecords, Goes(f, call),
         TokensDropped, UNCHANGED <<client, permits, cache, revocations>>,
         call.pc \in {"idle", "ready"}, call.token = NoToken, ~call.renewed,
         client \in Careful /\ call.method = "POST" => call.ran = 0
  PROVE  WireInv'
<1>c. /\ calls' \in [Fibers -> CallRecords]
      /\ calls'[f] = call
      /\ \A g \in Fibers \ {f} : calls'[g] = calls[g]
  BY Renewing DEF WireInv
<1>1. WireTypeOK'
  BY <1>c DEF WireInv, WireTypeOK, Tokens, CallRecords, TokensDropped
<1>2. Unrun'
  BY <1>c DEF WireInv, Unrun
<1>3. OwnTokens'
  BY <1>c, TokensAreNat DEF WireInv, OwnTokens
<1>4. LostOnce'
  <2>1. ASSUME NEW t \in Tokens, Lost(t)' PROVE Lost(t)
    BY <1>c, <2>1, TokensAreNat DEF Lost, TokensDropped, Held
  <2>2. ASSUME NEW t \in Tokens, Unused(t) PROVE Unused(t)'
    BY <1>c, <2>2, TokensAreNat DEF Unused
  <2> QED BY <1>c, <2>1, <2>2, KeepsLostOnce
<1> QED BY <1>1, <1>2, <1>3, <1>4 DEF WireInv

\* What an answer says of how often the request has been carried out.
LEMMA AnswersAre ==
  ASSUME WireTypeOK, NEW f \in Fibers, NEW s, NEW n, <<s, n>> \in Responses(f)
  PROVE  /\ n \in 0..2 /\ calls[f].pc = "sent"
         /\ s = "401" => n = calls[f].ran /\ ~Authorised(f)
         /\ s \notin {"2xx", "408", "5xx"} => n = calls[f].ran
         /\ calls[f].method = "POST" /\ calls[f].ran = 0 =>
              n \in {0, 1} /\ (s = "2xx" => n = 1)
<1>1. calls[f].ran \in 0..2 /\ calls[f].pc = "sent"
  BY FieldsOfCalls DEF Responses
<1>2. CASE Authorised(f)
  <2> DEFINE m == calls[f].method
             ran == calls[f].ran
             once == IF m = "GET" THEN 0
                     ELSE IF m = "POST" THEN IF ran < 2 THEN ran + 1 ELSE ran ELSE 1
  <2>1. <<s, n>> \in Answers(m, ran)
    BY <1>1, <1>2 DEF Responses
  <2>2. \/ s \in Refusals \union Doubtful /\ n = ran
        \/ s \in {"2xx", "408", "5xx"} /\ n = once
    BY <2>1 DEF Answers
  <2>3. once \in 0..2 /\ (m = "POST" /\ ran = 0 => once = 1)
    BY <1>1
  <2>4. s # "401"
    BY <2>2 DEF Refusals, Doubtful
  <2>5. s = "2xx" => n = once
    BY <2>2 DEF Refusals, Doubtful
  <2> HIDE DEF once, m, ran
  <2>6. ran \in 0..2 /\ n \in 0..2
    BY <1>1, <2>2, <2>3 DEF ran
  <2>7. s \notin {"2xx", "408", "5xx"} => n = ran
    BY <2>2
  <2>8. m = "POST" /\ ran = 0 => n \in {0, 1} /\ (s = "2xx" => n = 1)
    BY <2>2, <2>3, <2>5
  <2> QED BY <1>1, <2>4, <2>6, <2>7, <2>8 DEF m, ran
<1>3. CASE ~Authorised(f)
  <2>1. s = "401" /\ n = calls[f].ran
    BY <1>1, <1>3 DEF Responses
  <2> QED BY <1>1, <1>3, <2>1
<1> QED BY <1>2, <1>3

\* A client that holds back a POST repeats it when it was told to wait.
LEMMA CarefulRepeats ==
  ASSUME WireTypeOK, client \in Careful, NEW f \in Fibers, calls[f].method = "POST",
         NEW s, Repeats(f, s)
  PROVE  s = "429"
<1>1. client \in {"openstack", "ovh", "upcloud", "godaddy", "bunny"}
  BY DEF Careful, Clients
<1>2. "POST" \notin Repeatable(client)
  BY <1>1 DEF Repeatable, OpenStackRepeatable, UpcloudRepeatable, GodaddyRepeatable,
              BunnyRepeatable
<1> QED BY <1>1, <1>2 DEF Repeats, IsRetryable

LEMMA RetryKeepsWireInv ==
  ASSUME WireInv, NEW f \in Fibers, NEW s, NEW n, Retry(f, s, n)
  PROVE  WireInv'
<1> DEFINE call == [calls[f] EXCEPT !.pc = "ready", !.token = NoToken, !.renewed = FALSE,
                      !.ran = n, !.tries = IF @ < MaxRetries THEN @ + 1 ELSE @]
<1>a. /\ <<s, n>> \in Responses(f) /\ Repeats(f, s)
      /\ Goes(f, call) /\ TokensDropped
      /\ UNCHANGED <<client, permits, cache, revocations>>
  BY DEF Retry
<1>f. /\ calls[f] \in CallRecords /\ calls[f].tries \in 0..MaxRetries
  BY FieldsOfCalls DEF WireInv
<1>n. n \in 0..2
  BY <1>a, AnswersAre DEF WireInv
<1>t. (IF calls[f].tries < MaxRetries THEN calls[f].tries + 1 ELSE calls[f].tries)
        \in 0..MaxRetries
  BY <1>f, TransportAssumption
<1>r. /\ call \in CallRecords
      /\ call.pc = "ready" /\ call.token = NoToken /\ ~call.renewed
      /\ call.ran = n /\ call.method = calls[f].method
  BY <1>f, <1>n, <1>t DEF CallRecords
<1>1. ASSUME client \in Careful, calls[f].method = "POST" PROVE n = 0
  <2>1. s = "429"
    BY <1>1, <1>a, CarefulRepeats DEF WireInv
  <2>2. n = calls[f].ran
    BY <1>a, <2>1, AnswersAre DEF WireInv
  <2> QED BY <1>1, <2>2 DEF WireInv, Unrun
<1> HIDE DEF call
<1> QED BY <1>a, <1>r, <1>1, DroppingKeepsWireInv

LEMMA EndingKeepsWireInv ==
  ASSUME WireInv, NEW f \in Fibers,
         IssueFails(f) \/ Unanswered(f) \/ \E s, n : Return(f, s, n)
  PROVE  WireInv'
<1>1. Goes(f, NoCall) /\ TokensDropped /\ UNCHANGED <<client, permits, cache, revocations>>
  BY DEF IssueFails, Unanswered, Return, Answered
<1>2. /\ NoCall \in CallRecords /\ NoCall.pc = "idle" /\ NoCall.token = NoToken
      /\ ~NoCall.renewed /\ NoCall.ran = 0
  <2>1. 0 \in 0..MaxRetries /\ 0 \in 0..2
    BY TransportAssumption
  <2> QED BY <2>1 DEF NoCall, CallRecords
<1> QED BY <1>1, <1>2, DroppingKeepsWireInv

\* The fiber has found its token lost, and empties the cache.  What was lost is
\* this token alone, so that what the others have yet to store is not lost.
LEMMA RenewKeepsWireInv ==
  ASSUME WireInv, NEW f \in Fibers, Renew(f)
  PROVE  WireInv'
<1> DEFINE call == [calls[f] EXCEPT !.pc = "ready", !.token = NoToken, !.renewed = TRUE]
<1>a. /\ <<"401", calls[f].ran>> \in Responses(f) /\ client = "openstack"
      /\ Goes(f, call) /\ cache' = NoToken /\ TokensDropped
      /\ UNCHANGED <<client, permits, revocations>>
  BY DEF Renew
<1>r. /\ call \in CallRecords
      /\ call.pc = "ready" /\ call.token = NoToken /\ call.renewed
      /\ call.ran = calls[f].ran /\ call.method = calls[f].method
  BY FieldsOfCalls DEF WireInv, CallRecords
<1> HIDE DEF call
<1>c. /\ calls' \in [Fibers -> CallRecords]
      /\ calls'[f] = call
      /\ \A g \in Fibers \ {f} : calls'[g] = calls[g]
  BY <1>a, <1>r, Renewing DEF WireInv
<1>s. calls[f].pc = "sent" /\ ~Authorised(f)
  BY <1>a, AnswersAre DEF WireInv
<1>l. calls[f].token \in Tokens /\ Lost(calls[f].token)
  <2>1. calls[f].token \in Tokens \ alive
    BY <1>a, <1>s DEF Authorised, WireInv, OwnTokens, Tokened
  <2> QED BY <2>1 DEF Lost
<1>1. WireTypeOK'
  BY <1>a, <1>c DEF WireInv, WireTypeOK, Tokens, CallRecords, TokensDropped
<1>2. Unrun'
  BY <1>a, <1>c, <1>r DEF WireInv, Unrun
<1>3. OwnTokens'
  BY <1>a, <1>c, <1>r, TokensAreNat DEF WireInv, OwnTokens
<1>4. ASSUME NEW t \in Tokens, Lost(t)' PROVE Lost(t)
  BY <1>a, <1>c, <1>r, <1>4, TokensAreNat DEF Lost, TokensDropped, Held
<1>5. revocations # 0
  BY <1>a, <1>l DEF WireInv, LostOnce
<1>6. ASSUME revocations = 1, NEW t \in Tokens, Lost(t)' PROVE Unused(t)'
  <2>1. t = calls[f].token
    BY <1>a, <1>l, <1>4, <1>6 DEF WireInv, LostOnce
  <2>2. ASSUME NEW g \in Fibers, calls'[g].pc = "storing" PROVE calls'[g].token # t
    BY <1>c, <1>r, <1>s, <2>1, <2>2 DEF WireInv, OwnTokens
  <2>3. ASSUME NEW g \in Fibers, calls'[g].renewed PROVE calls'[g].token # t
    <3>1. CASE g = f
      BY <1>c, <1>r, <3>1, TokensAreNat
    <3>2. CASE g # f
      BY <1>a, <1>c, <1>4, <1>6, <2>3, <3>2 DEF WireInv, LostOnce, Unused
    <3> QED BY <3>1, <3>2
  <2> QED BY <1>a, <2>2, <2>3, TokensAreNat DEF Unused
<1>7. LostOnce'
  <2>1. revocations = 1 => \A t, u \in Tokens : Lost(t)' /\ Lost(u)' => t = u
    BY <1>a, <1>4 DEF WireInv, LostOnce
  <2> QED BY <1>a, <1>5, <1>6, <2>1 DEF LostOnce
<1> QED BY <1>1, <1>2, <1>3, <1>7 DEF WireInv

\* A token nears its end, ends, or is revoked.
LEMMA AgeingKeepsWireInv ==
  ASSUME WireInv, NEW t0 \in Tokens, Expire(t0) \/ Die(t0) \/ Revoke(t0)
  PROVE  WireInv'
<1>u. UNCHANGED <<client, permits, calls, cache>>
  BY DEF Expire, Die, Revoke
<1>1. WireTypeOK'
  <2>1. revocations' \in 0..MaxRevocations
    BY TransportAssumption DEF Expire, Die, Revoke, WireInv, WireTypeOK
  <2> QED BY <1>u, <2>1 DEF Expire, Die, Revoke, WireInv, WireTypeOK, Tokens, CallRecords
<1>2. Unrun' /\ OwnTokens'
  BY <1>u DEF WireInv, Unrun, OwnTokens
<1>3. LostOnce'
  <2>1. CASE Expire(t0)
    <3>1. ASSUME NEW t \in Tokens, Lost(t)' PROVE Lost(t)
      BY <1>u, <2>1, <3>1 DEF Expire, Lost
    <3>2. ASSUME NEW t \in Tokens, Unused(t) PROVE Unused(t)'
      BY <1>u, <3>2 DEF Unused
    <3> QED BY <1>u, <2>1, <3>1, <3>2, KeepsLostOnce DEF Expire
  <2>2. CASE Die(t0)
    <3> SUFFICES ASSUME client = "openstack" PROVE LostOnce'
      BY <1>u DEF LostOnce
    <3>1. ASSUME NEW t \in Tokens, Lost(t)' PROVE Lost(t)
      BY <1>u, <2>2, <3>1 DEF Die, Lost
    <3>2. ASSUME NEW t \in Tokens, Unused(t) PROVE Unused(t)'
      BY <1>u, <3>2 DEF Unused
    <3> QED BY <1>u, <2>2, <3>1, <3>2, KeepsLostOnce DEF Die
  <2>3. CASE Revoke(t0)
    <3> SUFFICES ASSUME client = "openstack", revocations = 0
                 PROVE  LostOnce'
      BY <1>u, <2>3, TransportAssumption DEF Revoke, LostOnce, WireInv, WireTypeOK
    <3>1. ASSUME NEW t \in Tokens, Lost(t)' PROVE t = t0
      <4>1. ~Lost(t)
        BY DEF WireInv, LostOnce
      <4> QED BY <1>u, <2>3, <3>1, <4>1 DEF Revoke, Lost
    <3>2. \A f \in Fibers : ~calls'[f].renewed
      BY <1>u DEF WireInv, LostOnce
    <3>3. revocations' = 1
      BY <2>3 DEF Revoke
    <3> QED BY <3>1, <3>2, <3>3 DEF LostOnce
  <2> QED BY <2>1, <2>2, <2>3
<1> QED BY <1>1, <1>2, <1>3 DEF WireInv

LEMMA StepKeepsWireInv == WireInv /\ [WireNext]_wireVars => WireInv'
<1> SUFFICES ASSUME WireInv, [WireNext]_wireVars PROVE WireInv'
  OBVIOUS
<1>1. ASSUME NEW f \in Fibers, (\E m \in Methods : Call(f, m)) \/ Acquire(f) \/ Attempt(f)
      PROVE  WireInv'
  BY <1>1, SendingKeepsWireInv
<1>2. ASSUME NEW f \in Fibers, Issue(f) \/ Store(f) \/ Renew(f) PROVE WireInv'
  BY <1>2, IssueKeepsWireInv, StoreKeepsWireInv, RenewKeepsWireInv
<1>3. ASSUME NEW f \in Fibers, IssueFails(f) \/ Unanswered(f) PROVE WireInv'
  BY <1>3, EndingKeepsWireInv
<1>4. ASSUME NEW f \in Fibers, ServiceAnswers(f) PROVE WireInv'
  <2>1. PICK a \in Responses(f) : Retry(f, a[1], a[2]) \/ Return(f, a[1], a[2])
    BY <1>4 DEF ServiceAnswers
  <2> QED BY <2>1, RetryKeepsWireInv, EndingKeepsWireInv
<1>5. ASSUME NEW t \in Tokens, Expire(t) \/ Die(t) \/ Revoke(t) PROVE WireInv'
  BY <1>5, AgeingKeepsWireInv
<1>6. CASE UNCHANGED wireVars
  BY <1>6 DEF wireVars, WireInv, WireTypeOK, Tokens, CallRecords, Unrun, OwnTokens, LostOnce,
              Lost, Unused
<1> QED BY <1>1, <1>2, <1>3, <1>4, <1>5, <1>6 DEF WireNext

-----------------------------------------------------------------------------
(* What the answers mean                                                   *)

\* No error module of a client that holds back a POST names the answers that do
\* not say whether the request was carried out.
LEMMA DoubtHasNoName ==
  ASSUME NEW c \in Careful, NEW v \in Voices(c), NEW s \in {"408", "5xx"}
  PROVE  Says[v][s] = "ProviderApiError"
<1> DEFINE named == {e \in DOMAIN Errors[v] : s \in Errors[v][e]}
<1>1. v \in {"openstack", "cinder", "mks", "ovhstorage", "ovhdns", "upcloud", "godaddy",
             "bunny", "bunnydns"}
  BY DEF Careful, Clients, Voices
<1>2. \A e \in DOMAIN OpenStackErrors : s \notin OpenStackErrors[e]
  BY DEF OpenStackErrors
<1>f. /\ OpenStackErrors = [e \in DOMAIN OpenStackErrors |-> OpenStackErrors[e]]
      /\ "AuthenticationFailed" \in DOMAIN OpenStackErrors
  BY DEF OpenStackErrors
<1>3. /\ OvhDnsErrors = [e \in DOMAIN OpenStackErrors |-> OvhDnsErrors[e]]
      /\ \A e \in DOMAIN OpenStackErrors : s \notin OvhDnsErrors[e]
  BY <1>2, <1>f DEF OvhDnsErrors
<1>4. \A e \in DOMAIN UpcloudErrors : s \notin UpcloudErrors[e]
  BY DEF UpcloudErrors, OpenStackErrors
<1>5. /\ GodaddyErrors = [e \in DOMAIN OpenStackErrors |-> GodaddyErrors[e]]
      /\ \A e \in DOMAIN OpenStackErrors : s \notin GodaddyErrors[e]
  BY <1>3 DEF GodaddyErrors
<1>6. /\ BunnyErrors = [e \in DOMAIN OpenStackErrors |-> BunnyErrors[e]]
      /\ \A e \in DOMAIN OpenStackErrors : s \notin BunnyErrors[e]
  BY <1>5 DEF BunnyErrors
<1>7. /\ BunnyDnsErrors = [e \in DOMAIN OpenStackErrors |-> BunnyDnsErrors[e]]
      /\ \A e \in DOMAIN OpenStackErrors : s \notin BunnyDnsErrors[e]
  BY <1>6 DEF BunnyDnsErrors
<1>8. named = {}
  BY <1>1, <1>2, <1>3, <1>4, <1>5, <1>6, <1>7
     DEF Errors, CinderErrors, MksErrors, OvhStorageErrors
<1>9. v \in DOMAIN Errors /\ s \in Statuses
  BY <1>1 DEF Errors, Statuses, Doubtful
<1> QED BY <1>8, <1>9 DEF Says

\* Nor is success taken for a refusal.
LEMMA DoneIsNoRefusal ==
  ASSUME NEW c \in Careful, NEW v \in Voices(c)
  PROVE  Says[v]["2xx"] \notin {"ResourceConflict", "RateLimited"}
<1> DEFINE named == {e \in DOMAIN Errors[v] : "2xx" \in Errors[v][e]}
           Refused(F) == "2xx" \in F["ResourceConflict"] \/ "2xx" \in F["RateLimited"]
<1>1. v \in {"openstack", "cinder", "mks", "ovhstorage", "ovhdns", "upcloud", "godaddy",
             "bunny", "bunnydns"}
  BY DEF Careful, Clients, Voices
<1>f. /\ OpenStackErrors = [e \in DOMAIN OpenStackErrors |-> OpenStackErrors[e]]
      /\ {"ResourceConflict", "RateLimited"} \subseteq DOMAIN OpenStackErrors
      /\ ~Refused(OpenStackErrors)
  BY DEF OpenStackErrors
<1>2. ~Refused(UpcloudErrors)
  BY DEF UpcloudErrors, OpenStackErrors
<1>3. /\ OvhDnsErrors = [e \in DOMAIN OpenStackErrors |-> OvhDnsErrors[e]]
      /\ ~Refused(OvhDnsErrors)
  BY <1>f DEF OvhDnsErrors
<1>4. /\ GodaddyErrors = [e \in DOMAIN OpenStackErrors |-> GodaddyErrors[e]]
      /\ ~Refused(GodaddyErrors)
  BY <1>f, <1>3 DEF GodaddyErrors
<1>5. /\ BunnyErrors = [e \in DOMAIN OpenStackErrors |-> BunnyErrors[e]]
      /\ ~Refused(BunnyErrors)
  BY <1>f, <1>4 DEF BunnyErrors
<1>6. ~Refused(BunnyDnsErrors)
  BY <1>f, <1>5 DEF BunnyDnsErrors
<1>7. ~Refused(Errors[v])
  BY <1>1, <1>f, <1>2, <1>3, <1>4, <1>5, <1>6
     DEF Errors, CinderErrors, MksErrors, OvhStorageErrors
<1>8. v \in DOMAIN Errors /\ "2xx" \in Statuses
  BY <1>1 DEF Errors, Statuses
<1>9. Says[v]["2xx"] = "ProviderApiError" \/ Says[v]["2xx"] \in named
  BY <1>8 DEF Says
<1> QED BY <1>7, <1>9

LEMMA AnswersAreTrue ==
  ASSUME WireInv
  PROVE  AnswerIsTrue
<1> SUFFICES ASSUME NEW f \in Fibers, NEW a \in Responses(f), IsLast(f, a[1])
             PROVE  Truthful(f, a[1], a[2])
  BY DEF AnswerIsTrue
<1> DEFINE s == a[1]
           n == a[2]
<1>0. <<s, n>> \in Responses(f)
  BY DEF Responses, Answers
<1> HIDE DEF s, n
<1>1. ASSUME calls[f].method = "POST", client \in Careful
      PROVE  /\ n <= 1
             /\ s = "2xx" => n = 1
             /\ \A v \in Voices(client) :
                  /\ s # "2xx" /\ n # 0 => IsWorthRetrying(Says[v][s])
                  /\ Says[v][s] \in {"ResourceConflict", "RateLimited"} => n = 0
  <2>1. calls[f].ran = 0
    BY <1>1 DEF WireInv, Unrun
  <2>2. /\ n \in {0, 1} /\ (s = "2xx" => n = 1)
        /\ s \notin {"2xx", "408", "5xx"} => n = 0
    BY <1>0, <1>1, <2>1, AnswersAre DEF WireInv
  <2>3. ASSUME NEW v \in Voices(client)
        PROVE  /\ s # "2xx" /\ n # 0 => IsWorthRetrying(Says[v][s])
               /\ Says[v][s] \in {"ResourceConflict", "RateLimited"} => n = 0
    <3>1. CASE s \in {"408", "5xx"}
      BY <1>1, <3>1, DoubtHasNoName DEF IsWorthRetrying
    <3>2. CASE s = "2xx"
      BY <1>1, <3>2, DoneIsNoRefusal
    <3> QED BY <2>2, <3>1, <3>2
  <2> QED BY <2>2, <2>3
<1>2. ASSUME client = "openstack", revocations <= 1, s = "401" PROVE FALSE
  <2>1. calls[f].pc = "sent" /\ ~Authorised(f)
    BY <1>0, <1>2, AnswersAre DEF WireInv
  <2>2. calls[f].renewed
    BY <1>2 DEF IsLast, s
  <2>3. calls[f].token \in Tokens /\ Lost(calls[f].token)
    BY <1>2, <2>1 DEF WireInv, OwnTokens, Tokened, Authorised, Lost
  <2>4. revocations \in {0, 1}
    BY <1>2, TransportAssumption DEF WireInv, WireTypeOK
  <2> QED BY <1>2, <2>2, <2>3, <2>4 DEF WireInv, LostOnce, Unused
<1> QED BY <1>1, <1>2 DEF Truthful, s, n

\* The transports keep their types, and never hand out a token twice that is
\* still held, for any number of fibers, permits, retries and revocations.
THEOREM WireTypes == WireSpec => []WireTypeOK
<1>1. WireInv => WireTypeOK
  BY DEF WireInv
<1> QED BY <1>1, WireStarts, StepKeepsWireInv, PTL DEF WireSpec

\* The answer a provider gets to a POST says whether it was carried out, and it
\* was at most once; and one token that ends too early fails no request of the
\* OpenStack client (http-client.ts:9 and :85 of openstack, retryable.ts:3).
THEOREM PostsAreAnsweredTruly == WireSpec => []AnswerIsTrue
<1> QED BY WireStarts, StepKeepsWireInv, AnswersAreTrue, PTL DEF WireSpec
=============================================================================
