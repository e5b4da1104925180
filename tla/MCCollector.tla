---------------------------- MODULE MCCollector ----------------------------
\* An instance of Collector for TLC; its constants are all in MCCollector.cfg.
EXTENDS Collector
============================================================================
