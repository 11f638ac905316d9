-------------------------- MODULE MC_AgentDaemon --------------------------
EXTENDS AgentDaemon
=============================================================================
