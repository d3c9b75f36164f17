--------------------------- MODULE MCUploadQueue ---------------------------
(* Small instances of UploadQueue for TLC.                                 *)
EXTENDS UploadQueue, TLC

CONSTANTS u1, u2, w1, w2, p1

OneProject == [u \in Uploads |-> p1]

\* Model values that no definition names may be exchanged.
Symmetry == Permutations(Uploads) \cup Permutations(Workers)
=============================================================================
