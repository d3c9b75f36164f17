----------------------------- MODULE MCLookahead ------------------------------
EXTENDS Lookahead, TLC

CONSTANTS b1, m1, m2, m3, s1, s2

crane == 1
hoist == 2

MCTypes == {crane, hoist}
MCUploadOf == (m1 :> 1) @@ (m2 :> 1) @@ (m3 :> 2)
MCHours == (m1 :> 8) @@ (m2 :> 16) @@ (m3 :> 16)
MCFirstType == (m1 :> crane) @@ (m2 :> hoist) @@ (m3 :> crane)
MCActivities == <<2, 1>>
MCBookingHours == b1 :> 8
MCBookingSub == b1 :> 1
MCAssigned == (crane :> {1}) @@ (hoist :> {1, 2})
MCDayOf == <<1, 1, 2>>
Symmetry == Permutations({s1, s2})
=============================================================================
