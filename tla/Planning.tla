------------------------------- MODULE Planning -------------------------------
(***************************************************************************)
(* The arithmetic of planning: how the hours of an activity are laid over  *)
(* its working days (services/work_profile_service.py), summed by week     *)
(* beside the hours booked, and compared with the capacity of the assets   *)
(* (services/lookahead_engine.py).                                          *)
(*                                                                         *)
(* Days are numbered from a Monday, 0.  Hours are counted in tenths, as *)
(* the caps are; what is apportioned, in units of half an hour; weights, in *)
(* millionths.                                                              *)
(* Floats are exact but for the roundings the code makes.                   *)
(***************************************************************************)
EXTENDS Integers, FiniteSets, Sequences, Sums

CONSTANTS
    Activities,   \* [type, from, to, days, context, profile]
    Caps,         \* max_hours_per_day of an asset type, in tenths
    BookingSets,  \* sets of [id, type, day, start, end], the type None if its asset's is unsettled
    Pools,        \* sets of [id, type, status, hours, maintenance_start, maintenance_end]
    Weeks,        \* the weeks the dashboard shows
    Bell,         \* Bell[n][i]: the bell curve over n days, in thousandths of its peak
    None

VARIABLES activity, cap, bookings, pool,   \* what is planned
          plan,                            \* None, or what the hours are laid by
          given, left,                     \* units of each day, units left
          rows                             \* None, or the cells of the dashboard
planning == <<activity, cap, bookings, pool, plan, given, left, rows>>

SumSeq(s) == Total(s, DOMAIN s)
Least(a, b) == IF a < b THEN a ELSE b
Most(a, b) == IF a > b THEN a ELSE b
Million == 1000000
Day == 240

-----------------------------------------------------------------------------
(* Roundings.                                                               *)

(* Tenths to the nearest unit: no multiple of a tenth is half-way. *)
Units(tenths) == (2 * tenths + 5) \div 10

(* The nearest millionth of a share, of two the even one: a thousand times  *)
(* a thousand, since a share in millionths may be normalised again.          *)
Millionths(part, total) ==
    LET rest == (1000 * part) % total
        low == 1000 * ((1000 * part) \div total) + (1000 * rest) \div total
        over == (1000 * rest) % total
    IN  IF 2 * over > total \/ (2 * over = total /\ low % 2 = 1) THEN low + 1 ELSE low

(* derive_normalized_distribution: the last day takes what rounding left. *)
Normalized(raw) ==
    LET total == SumSeq(raw)
        n == Len(raw)
        share == [i \in 1..n |-> Millionths(raw[i], total)]
        last == Most(0, Million - Total(share, 1..(n - 1)))
    IN  [i \in 1..n |-> IF total = 0 THEN 0 ELSE IF i = n THEN last ELSE share[i]]

Zero(weights) == \A i \in DOMAIN weights : weights[i] = 0

-----------------------------------------------------------------------------
(* Working days.                                                            *)
WorkDays(days) == IF days \in 1..7 THEN days ELSE 5

(* Day by day from the first to the last, the working ones. *)
WorkDates(a) ==
    LET from == Least(a.from, a.to)
        span == Most(a.from, a.to) - from + 1
        upto[i \in 0..span] ==
            IF i = 0 THEN <<>>
            ELSE IF (from + i - 1) % 7 < WorkDays(a.days) THEN Append(upto[i - 1], from + i - 1)
            ELSE upto[i - 1]
    IN  upto[span]

Week(d) == d \div 7

-----------------------------------------------------------------------------
(* The default profile: shapes in hundredths up to five days.               *)
ShortWeights ==
    [steady |-> <<<<100>>, <<50, 50>>, <<34, 33, 33>>, <<26, 25, 25, 24>>, <<21, 20, 20, 20, 19>>>>,
     steady_front |-> <<<<100>>, <<53, 47>>, <<38, 33, 29>>, <<30, 27, 23, 20>>, <<25, 22, 20, 18, 15>>>>,
     front_loaded |-> <<<<100>>, <<60, 40>>, <<45, 35, 20>>, <<35, 30, 20, 15>>, <<30, 25, 20, 15, 10>>>>,
     center_peak |-> <<<<100>>, <<45, 55>>, <<25, 50, 25>>, <<18, 32, 30, 20>>, <<12, 22, 34, 20, 12>>>>,
     event_peak |-> <<<<100>>, <<35, 65>>, <<15, 70, 15>>, <<10, 30, 45, 15>>, <<8, 17, 45, 20, 10>>>>,
     back_loaded |-> <<<<100>>, <<40, 60>>, <<20, 35, 45>>, <<15, 20, 30, 35>>, <<10, 15, 20, 25, 30>>>>]

(* From start to end in equal steps, times n - 1; in hundredths. *)
Linear(n, start, end) == [i \in 1..n |-> start * (n - i) + end * (i - 1)]

(* A bell curve over a base; in ten-thousandths. *)
Peaked(n, base, amplitude) == [i \in 1..n |-> 100 * base + (amplitude * Bell[n][i]) \div 10]

Uniform(n) ==
    LET unit == (2 * Million + n) \div (2 * n)
    IN  [i \in 1..n |-> IF i = n THEN Million - unit * (n - 1) ELSE unit]

Slope == [steady_front |-> <<115, 85>>, front_loaded |-> <<155, 45>>, back_loaded |-> <<45, 155>>]
Peak == [center_peak |-> <<75, 115>>, event_peak |-> <<25, 200>>]

Shape(family, n) ==
    IF n <= 5 THEN Normalized(ShortWeights[family][n])
    ELSE IF family = "steady" THEN Uniform(n)
    ELSE IF family \in DOMAIN Slope THEN Normalized(Linear(n, Slope[family][1], Slope[family][2]))
    ELSE Normalized(Peaked(n, Peak[family][1], Peak[family][2]))

(* Share of the day an asset works, in hundredths, before the context. *)
Prior ==
    [crane |-> <<50, "front_loaded">>, hoist |-> <<50, "steady">>,
     loading_bay |-> <<60, "steady">>, ewp |-> <<45, "center_peak">>,
     concrete_pump |-> <<25, "event_peak">>, excavator |-> <<65, "steady_front">>,
     forklift |-> <<45, "steady">>, telehandler |-> <<45, "steady_front">>,
     compactor |-> <<40, "back_loaded">>, other |-> <<35, "steady">>]

(* What the context adds, in hundredths. *)
When(type, types, holds, points) == IF type \in types /\ holds THEN points ELSE 0

Adjustment(type, c) ==
      When(type, {"crane"}, c.phase = "structure", 10)
    + When(type, {"crane"}, c.phase = "facade", 5)
    + When(type, {"crane"}, c.work \in {"slab", "column", "wall", "core", "facade"}, 5)
    + When(type, {"crane", "ewp"}, c.area = "roof", 5)
    + When(type, {"hoist"}, c.phase \in {"fitout", "services"}, 5)
    + When(type, {"hoist"}, c.phase = "structure", -5)
    + When(type, {"loading_bay"}, c.phase \in {"fitout", "services", "external", "prelims"}, 5)
    + When(type, {"ewp"}, c.phase \in {"facade", "services", "external"} \/ c.work \in {"facade", "services"}, 5)
    + When(type, {"concrete_pump"}, c.phase = "structure", 5)
    + When(type, {"concrete_pump"}, c.work \in {"slab", "column", "wall", "core"}, 5)
    + When(type, {"excavator"}, c.phase \in {"external", "prelims"} \/ c.area = "external", 5)
    + When(type, {"forklift"}, c.phase \in {"fitout", "services", "prelims"}, 5)
    + When(type, {"telehandler"}, c.phase \in {"structure", "external"}, 5)
    + When(type, {"compactor"}, c.phase = "external" \/ c.area = "external", 10)
    + When(type, {"other"}, c.phase \in {"structure", "services", "external"}, 5)

Utilisation(type, c) ==
    LET room == IF c.spatial = "room" /\ type \in {"loading_bay", "hoist"} THEN 5 ELSE 0
        base == IF c.work = "inspection" THEN Least(Prior[type][1], 15)
                ELSE Prior[type][1] + Adjustment(type, c)
    IN  Most(15, Least(base - room, 75))

Family(type, c) ==
    IF c.work = "inspection" THEN "steady"
    ELSE IF type = "crane" /\ c.phase = "facade" THEN "center_peak"
    ELSE Prior[type][2]

DefaultUnits(a, n, q) == Most(1, (Utilisation(a.type, a.context) * q * n + 250) \div 500)

Fallback(a, n) == Shape(Family(a.type, a.context), n)

-----------------------------------------------------------------------------
(* What an activity is laid by: its profile if it still fits its days.  The *)
(* weights are normalised once more where they are used.                    *)
Resolved(a, q) ==
    LET n == Len(WorkDates(a))
        p == a.profile
        own == IF Len(p.weights) = n THEN p.weights ELSE Normalized(p.hours)
        by(w, units, repaired) == [weights |-> Normalized(w), units |-> units, repaired |-> repaired]
    IN  IF p = None THEN by(Fallback(a, n), DefaultUnits(a, n, q), FALSE)
        ELSE IF Len(p.hours) # n \/ \E i \in DOMAIN p.hours : 5 * p.hours[i] > q
        THEN by(Fallback(a, n), p.units, TRUE)
        ELSE IF Zero(own) THEN by(Fallback(a, n), p.units, TRUE)
        ELSE by(own, p.units, Len(p.weights) # n)

(* Days, hours and shares are whole numbers, and no activity has so many    *)
(* hours over so many days that the roundings of its shares add up to one   *)
(* unit: some two hundred days with hours in all of them.                   *)
ProfileAssumption(p, n) ==
    /\ p.units \in Nat /\ p.hours \in Seq(Nat) /\ p.weights \in Seq(Nat)
    /\ p.units * n < 2 * Million

ActivityAssumption(a, n) ==
    /\ a.type \in DOMAIN Prior /\ a.from \in Int /\ a.to \in Int
    /\ n <= 1000
    /\ n > 5 => Bell[n] \in [1..n -> Nat]
    /\ \/ a.profile = None /\ \A q \in Caps : DefaultUnits(a, n, q) * n < 2 * Million
       \/ a.profile # None /\ ProfileAssumption(a.profile, n)

BookingAssumption(b) == b.day \in Int /\ b.start \in 0..(Day - 1) /\ b.end \in 0..(Day - 1)

ASSUME PlanningAssumption ==
    /\ Caps \subseteq Nat
    /\ \A a \in Activities : ActivityAssumption(a, Len(WorkDates(a)))
    /\ \A s \in BookingSets : IsFiniteSet(s) /\ \A b \in s : BookingAssumption(b)
    /\ \A s \in Pools : IsFiniteSet(s) /\ \A a \in s : a.hours \in Nat
    /\ Weeks \subseteq Int /\ IsFiniteSet(Weeks)

PlanInit ==
    /\ activity \in {a \in Activities : WorkDates(a) # <<>>}
    /\ cap \in Caps
    /\ bookings \in BookingSets
    /\ pool \in Pools
    /\ plan = None /\ rows = None
    /\ given = <<>> /\ left = 0

ResolveDistribution ==
    /\ plan = None
    /\ plan' = Resolved(activity, cap)
    /\ UNCHANGED <<activity, cap, bookings, pool, given, left, rows>>

-----------------------------------------------------------------------------
(* Faulty variant: the whole units of a day are not capped. *)
FloorsUncapped(p, q) == [i \in DOMAIN p.weights |-> (p.weights[i] * p.units) \div Million]

(* derive_distribution: whole units first, the rest by largest remainder,   *)
(* an earlier day before a later one.                                        *)
Floors(p, q) ==
    [i \in DOMAIN p.weights |-> Least((p.weights[i] * p.units) \div Million, Units(q))]

Allocate ==
    /\ plan # None /\ given = <<>>
    /\ given' = Floors(plan, cap)
    /\ left' = plan.units - SumSeq(given')
    /\ UNCHANGED <<activity, cap, bookings, pool, plan, rows>>

Remainder(i) == plan.weights[i] * plan.units - given[i] * Million

Open == {i \in DOMAIN given : given[i] < Units(cap)}

(* Faulty variant: of all open days the first. *)
FirstOpen == CHOOSE i \in Open : \A j \in Open : i <= j

Neediest ==
    CHOOSE i \in Open :
        \A j \in Open : \/ Remainder(i) > Remainder(j)
                        \/ Remainder(i) = Remainder(j) /\ i <= j

Give ==
    /\ given # <<>> /\ left > 0 /\ Open # {} /\ rows = None
    /\ given' = [given EXCEPT ![Neediest] = @ + 1]
    /\ left' = left - 1
    /\ UNCHANGED <<activity, cap, bookings, pool, plan, rows>>

Laid == given # <<>> /\ (left <= 0 \/ Open = {})

-----------------------------------------------------------------------------
(* Weeks: demand, hours booked, capacity.                                   *)
Demand(w, t) ==
    IF t # activity.type THEN 0
    ELSE 5 * Total(given, {i \in DOMAIN given : Week(WorkDates(activity)[i]) = w})

(* A booking is cut at midnight. *)
Segments(b) ==
    IF b.end > b.start THEN {<<b.day, b.end - b.start>>}
    ELSE {x \in {<<b.day, Day - b.start>>, <<b.day + 1, b.end>>} : x[2] > 0}

(* A booking of an asset that is not ready for planning covers nothing. *)
Covering == {b \in bookings : b.type # None}

Parts == UNION {{<<b, x>> : x \in Segments(b)} : b \in Covering}

Booked(w, t) ==
    Total([p \in Parts |-> p[2][2]], {p \in Parts : p[1].type = t /\ Week(p[2][1]) = w})

InMaintenance(a, d) ==
    /\ a.maintenance_start # None \/ a.maintenance_end # None
    /\ a.maintenance_start # None => a.maintenance_start <= d
    /\ a.maintenance_end # None => d <= a.maintenance_end

WorkingDays(w) == {d \in (7 * w)..(7 * w + 6) : d % 7 < WorkDays(activity.days)}

Counted(t) == {a \in pool : a.status # "retired" /\ a.type = t}
EligibleDays(a, w) == {d \in WorkingDays(w) : ~InMaintenance(a, d)}

Capacity(w, t) ==
    IF t = "other" THEN 0
    ELSE Total([a \in pool |-> a.hours * Cardinality(EligibleDays(a, w))], Counted(t))

Available(w, t) == Cardinality({a \in Counted(t) : EligibleDays(a, w) # {}})

Load(demand, booked) == Most(demand, booked)

StatusOf(load, capacity, t) ==
    IF t = "other" THEN "review_needed"
    ELSE IF capacity = 0 THEN IF load > 0 THEN "no_capacity" ELSE "idle"
    ELSE IF load >= capacity THEN "over_capacity"
    ELSE IF 10 * load >= 9 * capacity THEN "tight"
    ELSE IF 10 * load >= 7 * capacity THEN "balanced"
    ELSE IF load > 0 THEN "under_utilised" ELSE "idle"

(* Faulty variant: the status looks at the demand alone. *)
StatusOfDemand(demand, booked, capacity, t) == StatusOf(demand, capacity, t)

Status(demand, booked, capacity, t) == StatusOf(Load(demand, booked), capacity, t)

PlannedTypes == {activity.type} \cup {b.type : b \in Covering} \cup {a.type : a \in pool}

Cell(w, t) ==
    LET demand == Demand(w, t)
        booked == Booked(w, t)
        capacity == Capacity(w, t)
    IN  [demand |-> demand, booked |-> booked, capacity |-> capacity,
         available |-> Available(w, t),
         remaining |-> Most(capacity - booked, 0),
         uncovered |-> Most(Load(demand, booked) - capacity, 0),
         status |-> Status(demand, booked, capacity, t)]

Show ==
    /\ Laid /\ rows = None
    /\ rows' = [x \in Weeks \X PlannedTypes |-> Cell(x[1], x[2])]
    /\ UNCHANGED <<activity, cap, bookings, pool, plan, given, left>>

PlanNext == ResolveDistribution \/ Allocate \/ Give \/ Show

PlanSpec == PlanInit /\ [][PlanNext]_planning

-----------------------------------------------------------------------------
(* Whatever the profile says, its hours are laid out to the last unit, or   *)
(* to the caps of the days when they do not fit under them.                  *)
HoursPlaced ==
    Laid => SumSeq(given) = Least(plan.units, Len(given) * Units(cap))

(* A day whose share is not smaller than another's is not given fewer hours, *)
(* and no day is a unit away from its share unless the cap of some day is   *)
(* reached.                                                                  *)
SharesFollowWeights ==
    Laid =>
        /\ \A i, j \in DOMAIN given :
             plan.weights[i] > plan.weights[j] => given[i] >= given[j]
        /\ \A i, j \in DOMAIN given :
             plan.weights[i] = plan.weights[j] /\ i < j => given[i] \in {given[j], given[j] + 1}
        /\ Open = DOMAIN given =>
             \A i \in DOMAIN given : Remainder(i) < Million /\ -Remainder(i) < Million

(* The dashboard loses no hour and hides no shortage: over its weeks it     *)
(* shows the hours laid out in them, and the hours of the bookings that     *)
(* cover something and lie in them, and a cell with more demand or more bookings than capacity is   *)
(* never shown as under it.                                                 *)
Duration(b) == IF b.end = b.start THEN Day ELSE (b.end - b.start + Day) % Day

InWeeks(b) == \A x \in Segments(b) : Week(x[1]) \in Weeks

DashboardShowsAll ==
    rows # None =>
        /\ Total([x \in DOMAIN rows |-> rows[x].demand], DOMAIN rows) =
             5 * Total(given, {i \in DOMAIN given : Week(WorkDates(activity)[i]) \in Weeks})
        /\ (\A b \in Covering : InWeeks(b)) =>
             Total([x \in DOMAIN rows |-> rows[x].booked], DOMAIN rows) =
               Total([b \in Covering |-> Duration(b)], Covering)
        /\ \A x \in DOMAIN rows :
             LET c == rows[x] IN
             c.demand > c.capacity \/ c.booked > c.capacity =>
                 c.uncovered > 0 /\ c.status \in {"over_capacity", "no_capacity", "review_needed"}
=============================================================================
