---------------------------- MODULE MCWorkProfiles ----------------------------
EXTENDS WorkProfiles, TLC

CONSTANTS p1, i1, i2, A, B, bare, slab, u1, u2, u3

Row(i, x) == [item |-> i, type |-> A, ctx |-> x, low |-> FALSE, seeded |-> FALSE]
MCPromotable == {<<i1, A>>}
MCProjectOf == [u \in Uploads |-> p1]
MCProgramme == (u1 :> <<Row(i1, bare)>>) @@ (u2 :> <<Row(i1, bare), Row(i1, slab), Row(i1, bare)>>)
               @@ (u3 :> <<Row(i2, bare)>>)
=============================================================================
