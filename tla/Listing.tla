------------------------------- MODULE Listing -------------------------------
(***************************************************************************)
(* How the clients list what is there.  Every service answers a list in    *)
(* pages, and every client has a walk of its own over them; meanwhile      *)
(* others add to the list and take from it, anywhere in its order.  What a *)
(* list leaves out is taken for absent: it is created a second time, or    *)
(* kept when the cluster is deleted.                                       *)
(*                                                                         *)
(* The items are numbers in the order the service lists them.              *)
(***************************************************************************)
EXTENDS Integers, FiniteSets

CONSTANTS Items,     \* what may be listed
          Wanted,    \* the one looked for by a walk that stops when it has it
          PageSize,  \* 50, 100 or 1000 in the code
          MaxPages   \* where the walks that count their pages give up

ASSUME ListingAssumption ==
  /\ Items \subseteq Nat \ {0} /\ IsFiniteSet(Items) /\ Wanted \in Items
  /\ PageSize \in Nat \ {0} /\ MaxPages \in Nat \ {0}

VARIABLES held,    \* what the service holds
          walk,    \* the walk of this listing
          at,      \* the last item read, or how many items to skip
          pages,   \* pages asked for by a walk that counts them
          got,     \* what has been read
          looping, \* the service's link to the next page leads back
          listing, \* "walking", "done" or "failed"
          steady,  \* history: what has been there since the first page
          taken    \* history: something has been taken from the list

listVars == <<held, walk, at, pages, got, looping, listing, steady, taken>>

-----------------------------------------------------------------------------
\* A walk continues after the last item it read (by = "marker") or skips as
\* many as it has asked for (by = "count"); it ends when the service says that
\* there is no more, or at a page that is not full; past MaxPages it stops
\* with what it has, fails, or does not count.

Walk(by, ends, past, until) == [by |-> by, ends |-> ends, past |-> past, until |-> until]

OpenStackWalk == Walk("marker", "told", "stops", "end")
GodaddyWalk == Walk("count", "told", "fails", "end")
HetznerWalk == Walk("count", "told", "goes on", "end")
HetznerDnsWalk == Walk("count", "told", "goes on", "end")
BunnyStorageWalk == Walk("count", "told", "goes on", "end")
BunnyDnsWalk == Walk("count", "told", "goes on", "end")
ShieldWalk == Walk("count", "short", "goes on", "end")
PullZoneWalk == Walk("count", "short", "goes on", "found")
UpcloudWalk == Walk("count", "short", "goes on", "end")

Walks == {OpenStackWalk, GodaddyWalk, HetznerWalk, HetznerDnsWalk, BunnyStorageWalk, BunnyDnsWalk,
          ShieldWalk, PullZoneWalk, UpcloudWalk}

-----------------------------------------------------------------------------
\* The first n of S, or all of them.
IsFirst(seg, S, n) ==
  /\ seg \subseteq S
  /\ \A i \in seg, j \in S \ seg : i < j
  /\ IF Cardinality(S) <= n THEN seg = S ELSE Cardinality(seg) = n

\* What is left of the list for the page asked for.
IsRest(rest) ==
  IF walk.by = "marker"
    THEN rest = {i \in held : i > at}
    ELSE \E skip \in SUBSET held : rest = held \ skip /\ IsFirst(skip, held, at)

\* A full page taken for the last one.
LastPageFull(page, rest) ==
  (walk.ends = "told" /\ page = rest) \/ (walk.ends = "short" /\ Cardinality(page) <= PageSize)

LastPage(page, rest) ==
  \/ walk.ends = "told" /\ page = rest
  \/ walk.ends = "short" /\ Cardinality(page) < PageSize
  \/ walk.until = "found" /\ Wanted \in page

\* A page that is asked for again.
AfterSame(page) == {at}

\* Where the next page starts.
After(page) ==
  IF looping THEN {0} ELSE IF walk.by = "marker" THEN {i \in page : \A j \in page : j <= i} ELSE {at + PageSize}

\* The link to a page that has been read is refused (godaddy-dns.ts:118).
LeadsBack == walk = GodaddyWalk /\ looping
GivesUp == walk.past # "goes on" /\ pages = MaxPages

ListInit ==
  /\ held \in SUBSET Items
  /\ walk \in Walks
  /\ looping \in BOOLEAN /\ (looping => walk = GodaddyWalk)
  /\ at = 0 /\ pages = 1 /\ got = {} /\ listing = "walking"
  /\ steady = held /\ taken = FALSE

ReadLastPage(page, rest) ==
  /\ LastPage(page, rest)
  /\ listing' = "done"
  /\ UNCHANGED <<at, pages>>

NextPage(page, rest) ==
  /\ ~ LastPage(page, rest) /\ ~ LeadsBack /\ ~ GivesUp
  /\ at' \in After(page)
  /\ pages' = IF walk.past = "goes on" THEN pages ELSE pages + 1
  /\ UNCHANGED listing

StopWalk(page, rest) ==
  /\ ~ LastPage(page, rest) /\ (LeadsBack \/ GivesUp)
  /\ listing' = IF walk.past = "stops" THEN "done" ELSE "failed"
  /\ UNCHANGED <<at, pages>>

ReadPage ==
  /\ listing = "walking"
  /\ \E rest \in {r \in SUBSET held : IsRest(r)} : \E page \in {p \in SUBSET rest : IsFirst(p, rest, PageSize)} :
       /\ got' = got \cup page
       /\ ReadLastPage(page, rest) \/ NextPage(page, rest) \/ StopWalk(page, rest)
  /\ UNCHANGED <<held, walk, looping, steady, taken>>

\* A page that is not answered fails the listing, and so does a marker that
\* the service no longer knows: what has been read is dropped.
PageFails ==
  /\ listing = "walking" /\ listing' = "failed"
  /\ got' = {} /\ at' = 0 /\ pages' = 1
  /\ steady' = held /\ taken' = FALSE
  /\ UNCHANGED <<held, walk, looping>>

OthersAdd(i) ==
  /\ i \notin held /\ held' = held \cup {i}
  /\ UNCHANGED <<walk, at, pages, got, looping, listing, steady, taken>>

OthersTake(i) ==
  /\ i \in held /\ held' = held \ {i}
  /\ steady' = steady \ {i} /\ taken' = TRUE
  /\ UNCHANGED <<walk, at, pages, got, looping, listing>>

ListNext ==
  \/ ReadPage
  \/ PageFails
  \/ listing = "walking" /\ \E i \in Items : OthersAdd(i) \/ OthersTake(i)
  \/ listing # "walking" /\ UNCHANGED listVars

ListSpec == ListInit /\ [][ListNext]_listVars /\ WF_listVars(ReadPage)

-----------------------------------------------------------------------------
ListTypeOK ==
  /\ held \subseteq Items /\ got \subseteq Items /\ steady \subseteq held
  /\ walk \in Walks /\ at \in Nat /\ pages \in 1..MaxPages
  /\ looping \in BOOLEAN /\ taken \in BOOLEAN
  /\ listing \in {"walking", "done", "failed"}

\* What was there from the first page to the last is in the list, or the one
\* looked for has been found ("the difference between "no such X" and "no such
\* X on page one"", openstack cloud-provider.ts:71; "an unpaginated list
\* silently truncates", hetzner paginate.ts:3).  A walk that counts what it has
\* read may miss an item when an earlier one is taken away, and the OpenStack
\* walk what lies past its last page.
ListingIsWhole ==
  listing = "done" =>
    \/ steady \subseteq got
    \/ walk.until = "found" /\ Wanted \in got
    \/ walk.by = "count" /\ taken
    \/ walk.past = "stops" /\ pages = MaxPages

\* A listing ends, whatever is added meanwhile, and also when the service's
\* link leads back to a page already read (godaddy-dns.ts:118).
ListingEnds == [](listing = "walking" => <>(listing # "walking"))
=============================================================================
