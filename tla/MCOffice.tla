------------------------------- MODULE MCOffice -------------------------------
EXTENDS Requirements, Memberships, Tokens, Readiness, TLC

CONSTANTS m1, m2, m3, s1, s2, b1, b2, ann, max, tv, p1, p2, k1, k2, k3, k4, site, other, a1, f1, tower, lift, wires, pipes

VARIABLE part   \* the tables the calls are about: none of them touches the others'

MCImported ==
    (m1 :> [type |-> "crane", role |-> "lead", active |-> TRUE, auto |-> TRUE, manual |-> FALSE])
 @@ (m2 :> [type |-> "hoist", role |-> "support", active |-> TRUE, auto |-> FALSE, manual |-> FALSE])
 @@ (m3 :> None)

MCRoles == (ann :> "admin") @@ (max :> "manager") @@ (tv :> "tv")
MCRows == [x \in {ann, max, tv, "cranes", "hoists"} |-> IF x = ann THEN 0 ELSE 1]

MCLists == {{}, {max}, {tv, "cranes"}, {ann, tv, "cranes"}, {ann, max, "hoists"}}

\* Not booked, confirmed without a company, or requested by one.
MCWork0 ==
    [{1} -> {Missing, [company |-> Missing, status |-> "confirmed"], [company |-> "cranes", status |-> "pending"]}]

\* Ann has logged in, Max has no account yet, the company has one.
MCAccounts0 ==
    (ann :> [active |-> TRUE, password |-> 0, verified |-> FALSE])
 @@ (max :> None)
 @@ ("cranes" :> [active |-> TRUE, password |-> 0, verified |-> FALSE])
MCIssued ==
    (k1 :> [type |-> "access", of |-> ann, exp |-> 1])
 @@ (k2 :> [type |-> "refresh", of |-> ann, exp |-> 2])
 @@ (k3 :> None) @@ (k4 :> None)

MCCrew == [p \in {site, other} |-> {f1}]
\* Names say nothing, one thing, or two that contradict each other.
MCTypeHints == {{}, {tower}, {tower, lift}}
MCTradeHints == {{}, {wires}, {wires, pipes}}
MCUsed == {a1, f1}

Init ==
    /\ OfficeInit /\ RequirementsInit /\ MembershipsInit /\ TokensInit /\ ReadinessInit
    /\ part \in {"requirements", "memberships", "tokens", "readiness"}

Next ==
    \/ part = "requirements" /\ RequirementsNext /\ UNCHANGED <<memberships, tokens, readiness, part>>
    \/ part = "memberships" /\ MembershipsNext /\ UNCHANGED <<requirements, tokens, readiness, part>>
    \/ part = "tokens" /\ TokensNext /\ UNCHANGED <<requirements, memberships, readiness, part>>
    \/ part = "readiness" /\ ReadinessNext /\ UNCHANGED <<requirements, memberships, tokens, part>>

Spec == Init /\ [][Next]_<<office, requirements, memberships, tokens, readiness, part>>

Symmetry == Permutations({s1, s2})
===============================================================================
