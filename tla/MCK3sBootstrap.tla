--------------------------- MODULE MCK3sBootstrap ---------------------------
(* Small instances of K3sBootstrap for TLC: three masters and two workers.   *)
EXTENDS K3sBootstrap

\* Every server but master 1's may be lost.
MCReplaceable == Hosts \ {1}
MCAnyReplaceable == Hosts
=============================================================================
