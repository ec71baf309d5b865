----------------------------- MODULE MCUksPools -----------------------------
(* Small instances of UksPools for TLC.                                     *)
EXTENDS UksPools

CONSTANTS p1, p2, h1, h2

MCPools == {p1, p2}

MCHashes == {h1, h2}
MCRank == [h \in MCHashes |-> IF h = h1 THEN 1 ELSE 2]

Ask(a, n1, b, n2) ==
  [hash |-> [p \in MCPools |-> IF p = p1 THEN a ELSE b],
   count |-> [p \in MCPools |-> IF p = p1 THEN n1 ELSE n2]]

\* One pool whose spec changes.
MCOneChange == {Ask(h1, 1, Absent, 0), Ask(h2, 1, Absent, 0)}
=============================================================================
