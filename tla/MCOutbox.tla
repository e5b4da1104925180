------------------------------ MODULE MCOutbox ------------------------------
\* An instance of Outbox for TLC; its constants are all in MCOutbox.cfg.
EXTENDS Outbox
============================================================================
