------------------------------- MODULE MCUks -------------------------------
(* Small instances of Uks for TLC.                                          *)
EXTENDS Uks

CONSTANTS p1, p2, h1, h2

MCPools == {p1, p2}

MCHashes == {h1, h2}
MCRank == [h \in MCHashes |-> IF h = h1 THEN 1 ELSE 2]

MCPlans == {"small", "large"}

Ask(a, n1, b, n2, plan, version, vol, bucket, edge) ==
  [hash |-> [p \in MCPools |-> IF p = p1 THEN a ELSE b],
   count |-> [p \in MCPools |-> IF p = p1 THEN n1 ELSE n2],
   plan |-> plan, version |-> version, volume |-> vol, bucket |-> bucket, edge |-> edge]

\* Scale p1, change its spec and back, add and drop p2; with it come a volume
\* and a bucket, retained or not, records or a CDN, a newer version, a larger
\* control plane.
MCConfigs ==
  {Ask(h1, 1, Absent, 0, "small", 1, "none", "none", {"dns"}),
   Ask(h1, 2, h1, 1, "small", 1, "drop", "drop", {"dns", "cdn"}),
   Ask(h2, 1, h1, 1, "small", 2, "keep", "keep", {"dns"})}
=============================================================================
