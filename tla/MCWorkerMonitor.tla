---- MODULE MCWorkerMonitor ----
(* Room for three processes: a worker, its successor and one too many. *)
EXTENDS WorkerMonitor
====
