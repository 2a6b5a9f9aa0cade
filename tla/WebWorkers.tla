---------------------------- MODULE WebWorkers ----------------------------
(***************************************************************************)
(* The processes that serve the handlers of WeASe.  gunicorn runs as the   *)
(* Procfile starts it, with one synchronous worker, which takes one        *)
(* request after the other; with more, the statements of handlers          *)
(* interleave.                                                             *)
(***************************************************************************)

CONSTANT OneWorker

ASSUME OneWorkerAssumption == OneWorker \in BOOLEAN

=============================================================================
