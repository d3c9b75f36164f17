--------------------------- MODULE MCNightlyTick ---------------------------
(* The instance of NightlyTick for TLC: two processes.  No symmetry: the    *)
(* run checks liveness.                                                     *)
EXTENDS NightlyTick

CONSTANTS t1, t2

TwoTicks == {t1, t2}
=============================================================================
