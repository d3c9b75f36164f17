------------------------------ MODULE MCPlanning ------------------------------
EXTENDS Planning, ProgrammeImport, TLC

VARIABLE part   \* what is looked at: the arithmetic or an import

Context(stage, work) == [phase |-> stage, work |-> work, area |-> "roof", spatial |-> "room"]

Contexts == {Context("structure", "slab"), Context("facade", "facade"), Context("services", "inspection")}

Profiles ==
    {None,
     [units |-> 8, hours |-> <<4, 4>>, weights |-> <<500000, 500000>>],
     [units |-> 40, hours |-> <<21, 19>>, weights |-> <<525000, 475000>>],
     [units |-> 7, hours |-> <<1, 0, 6>>, weights |-> <<>>],
     [units |-> 7, hours |-> <<0, 0, 0>>, weights |-> <<0, 0, 0>>],
     [units |-> 20, hours |-> <<7, 7, 6>>, weights |-> <<333333, 333333, 333334>>],
     [units |-> 90, hours |-> <<18, 18, 18, 18, 18>>,
      weights |-> <<200000, 200000, 200000, 200000, 200000>>]}

MCActivities ==
    [type : {"crane", "hoist", "concrete_pump", "other"},
     from : {3, 5}, to : {1, 6, 8}, days : {0, 5, 6}, context : Contexts, profile : Profiles]

MCActivitiesLong ==
    [type : {"hoist", "excavator", "compactor", "ewp", "concrete_pump"}, from : {2}, to : {9, 13}, days : {6, 7},
     context : Contexts, profile : {None, [units |-> 33, hours |-> <<11, 11, 11>>, weights |-> <<1, 1>>]}]

AllActivities == MCActivities \cup MCActivitiesLong

\* exp(-((i - 1 - n \div 2) / (n / 5))^2 / 2), in thousandths
MCBell ==
    (6 :> <<44, 249, 707, 1000, 707, 249>>) @@
    (7 :> <<101, 360, 775, 1000, 775, 360, 101>>) @@
    (8 :> <<44, 172, 458, 823, 1000, 823, 458, 172>>) @@
    (9 :> <<85, 249, 539, 857, 1000, 857, 539, 249, 85>>) @@
    (10 :> <<44, 135, 325, 607, 882, 1000, 882, 607, 325, 135>>) @@
    (11 :> <<76, 191, 395, 662, 902, 1000, 902, 662, 395, 191, 76>>) @@
    (12 :> <<44, 114, 249, 458, 707, 917, 1000, 917, 707, 458, 249, 114>>)

MCBookingSets ==
    {{}, {[id |-> 1, type |-> "crane", day |-> 6, start |-> 180, end |-> 60],
          [id |-> 2, type |-> "hoist", day |-> 4, start |-> 70, end |-> 180]},
     {[id |-> 1, type |-> "hoist", day |-> 13, start |-> 0, end |-> 0],
      [id |-> 2, type |-> "other", day |-> 2, start |-> 90, end |-> 0],
      [id |-> 3, type |-> None, day |-> 2, start |-> 90, end |-> 120]}}

Machine(id, type, status, from, to) ==
    [id |-> id, type |-> type, status |-> status, hours |-> 80,
     maintenance_start |-> from, maintenance_end |-> to]

MCPools ==
    {{Machine(1, "crane", "available", 2, 3), Machine(2, "hoist", "retired", None, None)},
     {Machine(1, "crane", "maintenance", None, 8), Machine(2, "hoist", "available", 9, None),
      Machine(3, "other", "available", None, None)}}

\* Import: small files, a sample of two rows.
Row(id, name, start, finish, parent, summary, days) ==
    [id |-> id, name |-> name, start |-> start, finish |-> finish,
     parent |-> parent, summary |-> summary, days |-> days]

MCFiles ==
    {[pdf |-> FALSE, rows |->
        <<Row(1, "level one", 0, 7, Blank, TRUE, Blank), Row(2, "pour", 0, 4, 1, FALSE, 5),
          Row(3, "jump", 7, 7, 1, FALSE, 1), Row(3, "pour", 7, Blank, 2, FALSE, Blank),
          Row(4, "lift", 5, 4, 9, FALSE, Blank), Row(5, Blank, 1, 2, 1, FALSE, 2)>>],
     [pdf |-> TRUE, rows |->
        <<Row(1, "pour", 0, 7, Blank, Blank, 6), Row(2, "tidy", 1, 8, Blank, Blank, 6),
          Row(3, "lift", 3, 9, Blank, Blank, 6)>>]}

MCKeywords == ("pour" :> <<"pump">>) @@ ("lift" :> <<"hoist", "crane">>)
MCPhrases ==
    ("pour" :> <<[type |-> "pump", score |-> 88, hours |-> Blank], [type |-> "crane", score |-> 30, hours |-> Blank]>>)

Says(type, score, hours) == [type |-> type, score |-> score, hours |-> hours]

MCReplies ==
    {<<Says("pump", 60, 8), Says("other", 90, Blank)>>,
     <<Says("crane", 50, 8), Says("crane", 90, Blank)>>}

Named(fields) == [f \in fields |-> f]
MCDetections == {Blank, Named({"id", "name", "start", "finish", "parent", "summary", "days"})}
MCKnownColumns == {Blank, [f \in {"name", "start"} |-> IF f = "start" THEN "finish" ELSE f]}
MCSites == {{"crane", "pump"}}
MCSupplied == {<<"cranes", "crane">>}
MCTrades == ("cranes" :> {"crane"}) @@ ("pumps" :> {"pump", "crane"})
MCNeedsAi == {<<"pour", "pump">>, <<"pour", "crane">>, <<"lift", "crane">>}

MCInit ==
    \/ part = "planning" /\ PlanInit
       /\ enabled = FALSE /\ suppressed = FALSE /\ free = Slots /\ at = <<>> /\ got = <<>>
       /\ phase = "done" /\ file = Blank /\ site = {} /\ cache = Blank /\ columns = Blank
       /\ activities = <<>> /\ week = 5 /\ found = <<>> /\ mappings = {} /\ assigned = {}
       /\ groups = <<>> /\ allow = TRUE /\ attempts = 0 /\ failures = 0 /\ profiles = <<>>
    \/ part = "import" /\ ImportInit
       /\ activity = None /\ cap = None /\ bookings = {} /\ pool = {}
       /\ plan = None /\ given = <<>> /\ left = 0 /\ rows = None

MCNext ==
    \/ part = "planning" /\ PlanNext /\ UNCHANGED <<ai, import, part>>
    \/ part = "import" /\ ImportNext /\ UNCHANGED <<planning, part>>

MCSpec == MCInit /\ [][MCNext]_<<planning, ai, import, part>> /\ WF_<<ai, import>>(part = "import" /\ ImportNext /\ UNCHANGED <<planning, part>>)
=============================================================================
