--------------------------- MODULE MC_GlacierCron ---------------------------
EXTENDS GlacierCron
=============================================================================
