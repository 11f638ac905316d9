----------------------------- MODULE MC_Upgrade -----------------------------
EXTENDS Upgrade

(* The faults some property holds under, with and without a lost link.     *)
MCScenarios == {{"upload", "health", "query"}, {"link", "health", "query"}}
MCCommand   == {{"command"}}
=============================================================================
