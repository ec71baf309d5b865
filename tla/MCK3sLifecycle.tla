--------------------------- MODULE MCK3sLifecycle ---------------------------
(* Small instances of K3sLifecycle for TLC. *)
EXTENDS K3sLifecycle

CONSTANTS m1, w1, w2, h1, h2

MCMasters == {m1}
MCWorkers == {w1, w2}
MCHashes == {h1, h2}

Cluster(workers, master, worker) ==
  [n \in {m1, w1, w2} |->
     IF n = m1 THEN master ELSE IF n \in workers THEN worker ELSE Absent]

\* Scale to 0, 1 and 2 workers; change the workers' flavor; change the image,
\* which drifts the master too.
MCConfigs ==
  {Cluster({}, h1, h1), Cluster({w1}, h1, h1), Cluster({w1, w2}, h1, h1),
   Cluster({w1, w2}, h1, h2), Cluster({w1}, h2, h2)}
=============================================================================
