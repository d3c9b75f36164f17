---------------------------- MODULE MCItemIdentity ----------------------------
EXTENDS ItemIdentity, TLC

CONSTANTS i1, i2, i3, i4, n1, n2, n3, n4, s1, s2, s3

MCOrders == {<<n1, n3>>, <<n3, n4>>, <<n4, n3>>}
MCSeed == (n1 :> i1) @@ (n2 :> i2) @@ (n3 :> None) @@ (n4 :> None)
MCLearned == {{<<i1, "global">>}, {<<i1, "global">>, <<i2, "project">>}}
Symmetry == Permutations({s1, s2, s3})
=============================================================================
