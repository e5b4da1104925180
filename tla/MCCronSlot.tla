---------------------------- MODULE MCCronSlot ----------------------------
\* An instance of CronSlot for TLC; its constants are all in MCCronSlot.cfg.
EXTENDS CronSlot
============================================================================
