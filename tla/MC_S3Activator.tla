-------------------------- MODULE MC_S3Activator --------------------------
EXTENDS S3Activator

(* No fault, failing restarts, SIGTERM on top, and everything at once.     *)
MCScenarios == {{}, {"restart"}, {"restart", "query", "key", "cancel"}, FaultKinds}
=============================================================================
