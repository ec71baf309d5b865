-------------------------- MODULE MCOpenStackInfra --------------------------
(* Small instances of OpenStackInfra for TLC.                               *)
EXTENDS OpenStackInfra

CONSTANTS m1, m2, w1, nodes, ssh, api

MCMasters == {m1, m2}
MCWorkers == {w1}
MCCidrs == {nodes}
MCRules == {ssh, api}
=============================================================================
