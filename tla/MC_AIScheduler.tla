--------------------------- MODULE MC_AIScheduler ---------------------------
(* Four jobs over three workers: a job can be waiting, one can be breaking   *)
(* the circuit while two others are in flight, and a worker can run two jobs. *)
EXTENDS AIScheduler
MCJobCount == 4
MCMaxConcurrency == 3
=============================================================================
