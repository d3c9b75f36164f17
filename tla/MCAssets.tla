------------------------------ MODULE MCAssets ------------------------------
(* Instances of Assets for TLC. *)
EXTENDS Assets, TLC

CONSTANTS b1, b2, m1, c1, c2

\* What the users' screens ask for: decisions on requests, and cancellations.
Decisions == {<<"pending", "confirmed">>, <<"pending", "denied">>, <<"confirmed", "cancelled">>}

\* Bookings are interchangeable.
Symmetry == Permutations(Bookings)
=============================================================================
