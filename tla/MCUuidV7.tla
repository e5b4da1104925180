------------------------------ MODULE MCUuidV7 ------------------------------
\* An instance of UuidV7 for TLC; its constants are all in MCUuidV7.cfg.
EXTENDS UuidV7
============================================================================
