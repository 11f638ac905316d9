---------------------------- MODULE MC_Installer ----------------------------
EXTENDS Installer

CONSTANT c1

(* Nothing fails; the connection breaks, or an upload or a query fails;    *)
(* commands and services fail.                                             *)
MCFaultScenarios == {{}, {"link", "upload", "query"}, {"command", "slow"}}

(* The files are embedded under other names than the program asks for, as  *)
(* in the repository, or under these.                                      *)
MCBuilds == {{}, 1 .. 2}

(* Both agents and the data removed, or neither and the data kept.         *)
MCRequests ==
    {[conf |-> c1, agent |-> TRUE, otel |-> TRUE, keep |-> FALSE],
     [conf |-> c1, agent |-> FALSE, otel |-> FALSE, keep |-> TRUE]}
=============================================================================
