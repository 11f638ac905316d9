---------------------------- MODULE MC_TLSSetup ----------------------------
EXTENDS TLSSetup
=============================================================================
