------------------------------- MODULE MCEdge -------------------------------
(* Small instances of Edge for TLC.                                         *)
EXTENDS Edge

CONSTANTS n1, n2, h1, r1, l1

MCNames == {n1, n2}
MCPlans == {"reset", "basic", "advanced", "challenge"}
MCRuleLimit == [p \in MCPlans |-> 1]
MCListLimit == [p \in MCPlans |-> IF p = "basic" THEN 0 ELSE 1]

Dns2(a, b) == [n \in MCNames |-> IF n = n1 THEN a ELSE b]
Shield(plan, rule, list) ==
  [plan |-> plan, rules |-> [n \in {r1} |-> rule], lists |-> [n \in {l1} |-> list]]

CdnPlain == [setting |-> "s1", hosts |-> {h1}, ssl |-> TRUE, shield |-> Absent]
CdnShield == [setting |-> "s2", hosts |-> {}, ssl |-> TRUE,
              shield |-> Shield("advanced", "a", "ip")]
CdnChanged == [setting |-> "s2", hosts |-> {h1}, ssl |-> FALSE,
               shield |-> Shield("advanced", "b", "cidr")]
CdnTooMuch == [CdnShield EXCEPT !.shield = Shield("basic", "a", "ip")]
CdnChallenge == [CdnShield EXCEPT !.shield = Shield("challenge", Absent, Absent)]
MCCdn == {Absent, CdnPlain, CdnShield, CdnChanged, CdnTooMuch, CdnChallenge}

Cfg(p, d, c) == [provider |-> p, dns |-> d, cdn |-> c]
MCConfigs ==
  \* two names and no CDN ...
  {Cfg(p, d, Absent) : p \in {"ovh", "hetzner", "godaddy"},
                       d \in {Dns2("ip", Unasked), Dns2("hostname", "ip")}}
  \* ... and a CDN with the apex of a bunny zone
  \union {Cfg("bunny", Dns2("cdn", Unasked), c) : c \in {CdnPlain, CdnShield, CdnChanged}}
  \union {Cfg("bunny", Dns2(Unasked, Unasked), c) : c \in {CdnTooMuch, CdnChallenge, CdnShield}}
  \union {Cfg("bunny", Dns2("ip", Unasked), Absent)}
=============================================================================
