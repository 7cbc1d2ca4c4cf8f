-------------------------- MODULE MCExecutionService --------------------------
(* The request path on the instance of MCExecutionService.cfg.             *)
EXTENDS ExecutionService, TLC

\* Connections and administrators differ in nothing but their names.
ServiceSymmetry == Permutations(Executors) \cup Permutations(Admins)
===============================================================================
