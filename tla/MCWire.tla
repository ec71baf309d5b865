------------------------------- MODULE MCWire -------------------------------
(***************************************************************************)
(* The MKS flow, whose requests go through the clients of OVH and of       *)
(* OpenStack; Transport, which is what one of its requests is made of; and *)
(* Listing, which is how a list is put together out of requests.  The flow *)
(* takes a request and a list as one step, so the initial state says at    *)
(* which of the three levels the run is looked at.                         *)
(***************************************************************************)
EXTENDS MCMks, Transport, Listing

CONSTANTS f1, f2

MCFibers == {f1, f2}
MCMethods == {"POST", "DELETE"}
MCItems == 1..5

VARIABLE level

levelVars == <<level, vars, wireVars, listVars>>

Flow(A) == level = "flow" /\ A

NoListing ==
  /\ held = {} /\ walk = OpenStackWalk /\ looping = FALSE /\ at = 0 /\ pages = 1 /\ got = {}
  /\ listing = "walking" /\ steady = {} /\ taken = FALSE

LevelInit ==
  /\ level \in {"flow", "request", "list"}
  /\ Init
  /\ WireInit
  /\ level = "flow" \/ config = CHOOSE c \in Configs : TRUE
  /\ level = "request" \/ client = "ovh"
  /\ IF level = "list" THEN ListInit ELSE NoListing

LevelNext ==
  \/ Flow(Next) /\ UNCHANGED <<level, wireVars, listVars>>
  \/ level = "request" /\ WireNext /\ UNCHANGED <<level, vars, listVars>>
  \/ level = "list" /\ ListNext /\ UNCHANGED <<level, vars, wireVars>>

LevelFairness ==
  /\ WF_vars(Flow(Progress))
  /\ WF_vars(Flow(Settle))
  /\ SF_vars(Flow(ApplyPlan(TRUE)))
  /\ WireFairness
  /\ WF_listVars(level = "list" /\ ReadPage)

LevelSpec == LevelInit /\ [][LevelNext]_levelVars /\ LevelFairness

-----------------------------------------------------------------------------
\* Re-running MKS apply converges (README.md:129, "Re-running converges"), a
\* request of a client that times out is answered (http-client.ts:95 of
\* openstack), and a list ends (godaddy-dns.ts:118), whichever of the three is
\* looked at.
LevelLiveness ==
  /\ level = "flow" => EventuallyConverges
  /\ level = "request" => EveryCallAnswered
  /\ level = "list" => ListingEnds
=============================================================================
