---------------------------- MODULE MCOpenStore ----------------------------
\* An instance of OpenStore for TLC; its other constants are in MCOpenStore.cfg.
EXTENDS OpenStore

\* The wall clock is set back a tick at a time.  (Set forward, it brings every
\* age nearer to its limit and no name back.)
SetBack == {-1}
============================================================================
