---------------------------- MODULE MCTaskWorkers ----------------------------
(* Instances of TaskWorkers for TLC: an urgent task that may be retried, an  *)
(* ordinary one that a scheduler repeats, and one nobody registered.         *)
EXTENDS TaskWorkers

CONSTANTS urgent, ordinary, unknown, once, often

MCPriority == [t \in Tasks |-> IF t = urgent THEN 0 ELSE 1]
MCMaxAttempts == [t \in Tasks |-> IF t = urgent THEN 1 ELSE 0]
MCTaskOf == [i \in Items |-> IF i = once THEN urgent ELSE ordinary]
=============================================================================
