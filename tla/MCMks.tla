------------------------------- MODULE MCMks -------------------------------
(* Small instances of Mks for TLC.                                          *)
EXTENDS Mks

CONSTANTS p1, p2, h1, h2

MCPools == {p1, p2}
MCHashes == {h1, h2}

Ask(a, n1, b, n2, v, private) ==
  [hash    |-> [p \in MCPools |-> IF p = p1 THEN a ELSE b],
   count   |-> [p \in MCPools |-> IF p = p1 THEN n1 ELSE n2],
   version |-> v,
   private |-> private,
   ingress |-> private]

\* Change a pool and the version, add and drop a pool, drop the network.
MCConfigs ==
  {Ask(h1, 1, h1, 1, 1, TRUE), Ask(h2, 2, Absent, 0, 2, TRUE), Ask(h1, 1, Absent, 0, 1, FALSE)}

\* One pool whose count changes.
MCScaled == {Ask(h1, 1, Absent, 0, 1, TRUE), Ask(h1, 2, Absent, 0, 1, TRUE)}
=============================================================================
