-------------------------------- MODULE Sums --------------------------------
(***************************************************************************)
(* The sum of what a table holds for some of its rows.                      *)
(***************************************************************************)
EXTENDS FiniteSetsExt, Folds

Total(f, S) == MapThenSumSet(LAMBDA k : f[k], S)
=============================================================================
