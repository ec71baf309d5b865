------------------------------ MODULE MCClouds ------------------------------
(* Small instances of Hetzner, which includes OpenStackInfra, for TLC.      *)
EXTENDS Hetzner

CONSTANTS m1, m2, w1, nodes, ssh, api

MCMasters == {m1, m2}
MCWorkers == {w1}
MCCidrs == {nodes}
MCRules == {ssh, api}
Ask(size, retain) == [size |-> size, retain |-> retain]
MCAsks == {Ask(1, FALSE), Ask(3, TRUE)}
=============================================================================
