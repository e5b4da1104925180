--------------------------- MODULE MCHealthCheck ---------------------------
\* An instance of HealthCheck for TLC; its constants are all in MCHealthCheck.cfg.
EXTENDS HealthCheck
============================================================================
