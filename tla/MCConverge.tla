----------------------------- MODULE MCConverge -----------------------------
(* Small instances of Converge for TLC.                                      *)
EXTENDS Converge

CONSTANTS b1, b2, v1

MCSpec(region, kind, ver, retain) == [region |-> region, kind |-> kind, ver |-> ver, retain |-> retain]
SpecA == MCSpec("g1", "k1", FALSE, FALSE)
SpecV == MCSpec("g1", "k1", TRUE, FALSE)
SpecB == MCSpec("g2", "k1", FALSE, FALSE)
SpecR == MCSpec("g1", "k1", FALSE, TRUE)
SpecS == MCSpec("g1", "k2", FALSE, TRUE)
MCSpecs == {SpecA, SpecV, SpecB, SpecR, SpecS}

MCBuckets(x, y) == [n \in {b1, b2} |-> IF n = b1 THEN x ELSE y]
MCVol(v) == [n \in {v1} |-> v]
MCConfig(d, i, s, v, b) == [distro |-> d, ingress |-> i, storage |-> s, vols |-> MCVol(v), buckets |-> b]

MCConfigs ==
  {MCConfig("mks", TRUE, "ovh", "keep", MCBuckets(SpecA, Nothing)),
   MCConfig("mks", FALSE, "ovh", "none", MCBuckets(SpecV, SpecR)),
   MCConfig("mks", FALSE, "ovh", "none", MCBuckets(SpecB, SpecS)),
   MCConfig("mks", FALSE, "bunny", "none", MCBuckets(SpecA, SpecR)),
   MCConfig("mks", FALSE, "bunny", "none", MCBuckets(SpecB, SpecS)),
   MCConfig("mks", FALSE, "bunny", "none", MCBuckets(Nothing, SpecA)),
   MCConfig("k3s", FALSE, "bunny", "keep", MCBuckets(SpecA, Nothing)),
   MCConfig("k3s", FALSE, "bunny", "none", MCBuckets(Nothing, Nothing)),
   MCConfig("mks", TRUE, "none", "keep", MCBuckets(Nothing, Nothing)),
   MCConfig("mks", TRUE, "none", "drop", MCBuckets(Nothing, Nothing)),
   MCConfig("mks", FALSE, "none", "none", MCBuckets(Nothing, Nothing)),
   MCConfig("k3s", FALSE, "none", "keep", MCBuckets(Nothing, Nothing)),
   MCConfig("k3s", FALSE, "none", "drop", MCBuckets(Nothing, Nothing)),
   MCConfig("k3s", FALSE, "none", "none", MCBuckets(Nothing, Nothing))}
=============================================================================
