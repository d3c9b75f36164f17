------------------------------ MODULE Lookahead -------------------------------
(***************************************************************************)
(* The lookahead of one project: services/lookahead_engine.py, the calls   *)
(* of api/v1/slot_booking.py, process_programme.py and the nightly job     *)
(* that refresh it, and the alerts crud/slot_booking.py marks as acted.    *)
(*                                                                         *)
(* A calculation reads the demand, the bookings and the previous snapshot  *)
(* without a lock, then writes the snapshot of its day, whose row it holds *)
(* until it ends, brings the alerts in line with it and commits.  One week *)
(* is modelled; its buckets are the asset types.                           *)
(***************************************************************************)
EXTENDS Integers, FiniteSets, Sequences, Sums

CONSTANTS
    Sessions, Bookings,
    Types,            \* the asset types, numbered in the order of their names
    Uploads,          \* the versions of the programme, 1..n
    Mappings,         \* the activity-asset mappings of all versions
    UploadOf,         \* the version a mapping belongs to
    Hours,            \* the hours of a mapping
    FirstType,        \* the asset type a mapping has at first
    Activities,       \* activity count of a version
    BookingHours,
    BookingSub,       \* the subcontractor of a booking
    Assigned,         \* the subcontractors assigned to an asset type
    MinDemand, MinGap, PerSub, PerProject,   \* the project's alert policy
    LeadDay,          \* last day on which the week is min_lead_weeks away
    DayOf,            \* the day of a time of the clock
    None,
    MaxCalls          \* bound on what is started

Clock == DOMAIN DayOf
Days == {DayOf[t] : t \in Clock}

ASSUME LookaheadAssumption ==
    /\ Uploads \subseteq Nat /\ 1 \in Uploads
    /\ IsFiniteSet(Mappings) /\ IsFiniteSet(Bookings)
    /\ UploadOf \in [Mappings -> Uploads]
    /\ Hours \in [Mappings -> Nat \ {0}]
    /\ FirstType \in [Mappings -> Types]
    /\ Activities \in [Uploads -> Nat]
    /\ BookingHours \in [Bookings -> Nat]
    /\ Types \subseteq Nat /\ IsFiniteSet(Types)
    /\ Assigned \in [Types -> SUBSET Nat] /\ \A t \in Types : IsFiniteSet(Assigned[t])
    /\ PerSub \in Nat /\ PerProject \in Nat
    /\ DayOf \in Seq(Nat) /\ DayOf # <<>>
    /\ \A t, u \in Clock : t <= u => DayOf[t] <= DayOf[u]

VARIABLES
    upload,      \* the active version of the programme
    mapped,      \* asset type of a mapping
    rows,        \* the bookings: None, or [status, type, updated_at]
    snapshots,   \* of the days that have one: the snapshot
    alerts,      \* of <<subcontractor, type>>: the statuses of its rows
    session,
    now,
    calls,
    marks,       \* history: what happened while the snapshot of a day was made
    last,        \* history: day of the snapshot written last
    lost         \* history: a refresh failed and no calculation made up for it

vars == <<upload, mapped, rows, snapshots, alerts, session, now, calls, marks, last, lost>>

Idle == [at |-> "idle"]
Busy == {s \in Sessions : session[s].at # "idle"}
Goes(s, c) == session' = [session EXCEPT ![s] = c]
Keys == UNION {{<<k, t>> : k \in Assigned[t]} : t \in Types}

-----------------------------------------------------------------------------
(* What a calculation reads.                                                *)
MappingSet(u) == {<<m, mapped[m]>> : m \in {x \in Mappings : UploadOf[x] = u}}


Demand(u) ==
    [t \in Types |-> Total(Hours, {m \in Mappings : UploadOf[m] = u /\ mapped[m] = t})]

Counts(r) == r # None /\ r.status \notin {"cancelled", "denied"}

Booked(t) == Total(BookingHours, {b \in Bookings : Counts(rows[b]) /\ rows[b].type = t})

BookedNow == [t \in Types |-> Booked(t)]

Written == DOMAIN snapshots
Latest == {snapshots[d] : d \in {d \in Written : \A e \in Written : e <= d}}

(* The share of mappings that differ, and the jump of the activity count,   *)
(* between the previous snapshot and this one.                               *)
MappingsChanged(old, new) ==
    /\ old # {}
    /\ LET changed == {p[1] : p \in (old \cup new) \ (old \cap new)}
       IN  2 * Cardinality(changed) >= Cardinality(old)

ActivitiesJumped(old, new) ==
    old > 0 /\ 10 * (IF new > old THEN new - old ELSE old - new) > 3 * old

Spiked(old, new) ==
    old > 0 /\ 2 * (IF new > old THEN new - old ELSE old - new) > 3 * old

Anomalous(c, t) ==
    \E p \in c.previous :
       \/ Spiked(p.demand[t], c.demand[t])
       \/ MappingsChanged(p.mappings, c.mappings)
       \/ ActivitiesJumped(Activities[p.upload], Activities[c.upload])

Rows(c) ==
    [t \in Types |-> [gap |-> IF c.demand[t] > c.booked[t] THEN c.demand[t] - c.booked[t] ELSE 0,
                      anomalous |-> Anomalous(c, t)]]

-----------------------------------------------------------------------------
(* The alerts a snapshot warrants, of an upload without warnings and under  *)
(* a policy that sends alerts.                                               *)

(* _severity_score, in ten-thousandths: both terms of the gap rounded once. *)
Severity(demand, gap) ==
    10000 * gap + (320000 * gap + demand) \div (2 * demand) + 2500 * demand

Candidates(snapshot) ==
    {k \in Keys :
       LET row == snapshot.rows[k[2]]
           demand == snapshot.demand[k[2]]
       IN  /\ row.gap > 0
           /\ demand >= MinDemand
           /\ row.gap >= MinGap \/ 4 * row.gap >= demand
           /\ snapshot.day <= LeadDay
           /\ ~row.anomalous}

Before(snapshot, k, l) ==
    LET score(x) == Severity(snapshot.demand[x[2]], snapshot.rows[x[2]].gap)
    IN  \/ score(k) > score(l)
        \/ score(k) = score(l) /\ k[1] < l[1]
        \/ score(k) = score(l) /\ k[1] = l[1] /\ k[2] < l[2]

Keep(kept, k) ==
    IF /\ Cardinality({x \in kept : x[1] = k[1]}) < PerSub
       /\ Cardinality(kept) < PerProject
    THEN kept \cup {k} ELSE kept

Least(snapshot, S) == CHOOSE k \in S : \A l \in S \ {k} : Before(snapshot, l, k)

(* The least severe comes last.                                             *)
Surviving(snapshot) ==
    MapThenFoldSet(LAMBDA k, kept : Keep(kept, k), {}, LAMBDA k : k,
                   LAMBDA S : Least(snapshot, S), Candidates(snapshot))

IsActive(status) == status \in {"pending", "sent"}
Active == {x \in UNION {{<<k, i>> : i \in DOMAIN alerts[k]} : k \in Keys} :
             IsActive(alerts[x[1]][x[2]])}
ActiveKeys == {x[1] : x \in Active}

-----------------------------------------------------------------------------
Init ==
    /\ upload = 1
    /\ mapped = FirstType
    /\ rows = [b \in Bookings |-> None]
    /\ snapshots = <<>>
    /\ alerts = [k \in Keys |-> <<>>]
    /\ session = [s \in Sessions |-> Idle]
    /\ now = 1
    /\ calls = 0
    /\ marks = [d \in Days |-> [overtaken |-> FALSE, alone |-> TRUE]]
    /\ last = None
    /\ lost = FALSE

Tick ==
    /\ now + 1 \in Clock
    /\ now' = now + 1
    /\ UNCHANGED <<upload, mapped, rows, snapshots, alerts, session, calls, marks, last, lost>>

-----------------------------------------------------------------------------
(* Bookings, their stamps and the alerts they answer.                       *)

(* The alerts a confirmed booking fulfils, read by the booking's call. *)
Fulfilled(b, row) ==
    IF row # None /\ row.status = "confirmed"
    THEN {x \in Active : x[1] = <<BookingSub[b], row.type>>} ELSE {}

(* A booking is created, changed, deleted: its row is stamped before the    *)
(* transaction commits.                                                      *)
StartBooking(s, b, row) ==
    /\ s \notin Busy
    /\ calls < MaxCalls
    /\ \A t \in Busy : session[t].at = "booking" => session[t].booking # b
    /\ row # rows[b] /\ (rows[b] = None => row # None)
    /\ LET new == IF row = None THEN None
                  ELSE [status |-> row.status, type |-> row.type, updated_at |-> now]
       IN  Goes(s, [at |-> "booking", booking |-> b, row |-> new, acted |-> Fulfilled(b, new)])
    /\ calls' = calls + 1
    /\ UNCHANGED <<upload, mapped, rows, snapshots, alerts, now, marks, last, lost>>

(* Faulty variant: a deletion refreshes nothing. *)
RefreshUnlessDeleted(row) == IF row = None THEN Idle ELSE [at |-> "due", refresh |-> TRUE]

(* The refresh the endpoint calls once the booking is committed. *)
Refresh(row) == [at |-> "due", refresh |-> TRUE]

(* Who has read the bookings and not written yet has missed this one. *)
Overtake(c) == IF c.at \in {"read", "computed", "written"} THEN [c EXCEPT !.overtaken = TRUE] ELSE c

CommitBooking(s) ==
    LET c == session[s] IN
    /\ c.at = "booking"
    /\ rows' = [rows EXCEPT ![c.booking] = c.row]
    /\ alerts' = [k \in Keys |-> [i \in DOMAIN alerts[k] |->
                    IF <<k, i>> \in c.acted THEN "acted" ELSE alerts[k][i]]]
    /\ session' = [t \in Sessions |-> IF t = s THEN Refresh(c.row) ELSE Overtake(session[t])]
    /\ UNCHANGED <<upload, mapped, snapshots, now, calls, marks, last, lost>>

-----------------------------------------------------------------------------
(* What else changes the demand: a new version, a corrected mapping.        *)
Activate(s) ==
    /\ s \notin Busy
    /\ calls < MaxCalls
    /\ upload + 1 \in Uploads
    /\ upload' = upload + 1
    /\ Goes(s, [at |-> "due", refresh |-> FALSE])
    /\ calls' = calls + 1
    /\ UNCHANGED <<mapped, rows, snapshots, alerts, now, marks, last, lost>>

CorrectMapping(m, t) ==
    /\ calls < MaxCalls
    /\ UploadOf[m] = upload /\ mapped[m] # t
    /\ mapped' = [mapped EXCEPT ![m] = t]
    /\ calls' = calls + 1
    /\ UNCHANGED <<upload, rows, snapshots, alerts, session, now, marks, last, lost>>

-----------------------------------------------------------------------------
(* A calculation.                                                           *)

(* The check of get_fresh_snapshot. *)
Fresh ==
    \E p \in Latest :
        /\ p.upload = upload
        /\ \A b \in Bookings : rows[b] # None => rows[b].updated_at <= p.generated_at

(* The version, its demand and the bookings, as a calculation reads them. *)
Reading(refresh, sync) ==
    [at |-> "read", refresh |-> refresh, sync |-> sync,
     upload |-> upload, demand |-> Demand(upload), mappings |-> MappingSet(upload),
     booked |-> BookedNow, overtaken |-> FALSE]

(* A page that finds the snapshot stale recalculates it and keeps nothing. *)
StartView(s) ==
    /\ s \notin Busy /\ ~Fresh
    /\ calls < MaxCalls
    /\ Goes(s, Reading(FALSE, FALSE))
    /\ calls' = calls + 1
    /\ UNCHANGED <<upload, mapped, rows, snapshots, alerts, now, marks, last, lost>>

StartNightly(s) ==
    /\ s \notin Busy
    /\ calls < MaxCalls
    /\ Goes(s, Reading(FALSE, TRUE))
    /\ calls' = calls + 1
    /\ UNCHANGED <<upload, mapped, rows, snapshots, alerts, now, marks, last, lost>>

StartRefresh(s) ==
    /\ session[s].at = "due"
    /\ Goes(s, Reading(session[s].refresh, TRUE))
    /\ UNCHANGED <<upload, mapped, rows, snapshots, alerts, now, calls, marks, last, lost>>

Compute(s) ==
    LET c == session[s]
        previous == [previous |-> Latest, upload |-> c.upload, demand |-> c.demand,
                     booked |-> c.booked, mappings |-> c.mappings]
    IN
    /\ c.at = "read"
    /\ Goes(s, [at |-> "computed", refresh |-> c.refresh, sync |-> c.sync,
                overtaken |-> c.overtaken,
                snapshot |-> [day |-> DayOf[now], generated_at |-> now, upload |-> c.upload,
                              demand |-> c.demand, mappings |-> c.mappings,
                              booked |-> c.booked, rows |-> Rows(previous)]])
    /\ UNCHANGED <<upload, mapped, rows, snapshots, alerts, now, calls, marks, last, lost>>

(* The row of the day is held until the transaction ends: an UPDATE locks   *)
(* it, and an INSERT waits on the unique index and turns into an UPDATE.    *)
Holds(s, day) == session[s].at = "written" /\ session[s].snapshot.day = day

(* Faulty variant: nothing makes two calculations of a day wait. *)
WriteAtOnce(s) ==
    LET c == session[s] IN
    /\ c.at = "computed"
    /\ Goes(s, [at |-> "written", refresh |-> c.refresh, sync |-> c.sync,
                snapshot |-> c.snapshot, overtaken |-> c.overtaken,
                active |-> Active, alone |-> TRUE])
    /\ UNCHANGED <<upload, mapped, rows, snapshots, alerts, now, calls, marks, last, lost>>

WriteSnapshot(s) ==
    LET c == session[s] IN
    /\ c.at = "computed"
    /\ \A t \in Busy : ~Holds(t, c.snapshot.day)
    /\ Goes(s, [at |-> "written", refresh |-> c.refresh, sync |-> c.sync,
                snapshot |-> c.snapshot, overtaken |-> c.overtaken,
                active |-> Active, alone |-> TRUE])
    /\ UNCHANGED <<upload, mapped, rows, snapshots, alerts, now, calls, marks, last, lost>>

Cancelled(c) == {x \in c.active : x[1] \notin Surviving(c.snapshot)}
Inserted(c) == Surviving(c.snapshot) \ {x[1] : x \in c.active}

(* Another day's calculation may have inserted the same alert meanwhile. *)
Clashes(c) == Inserted(c) \cap ActiveKeys # {}

Commit(s) ==
    LET c == session[s] IN
    /\ c.at = "written" /\ c.sync /\ ~Clashes(c)
    /\ snapshots' = [d \in Written \cup {c.snapshot.day} |->
                       IF d = c.snapshot.day THEN c.snapshot ELSE snapshots[d]]
    /\ marks' = [marks EXCEPT ![c.snapshot.day] = [overtaken |-> c.overtaken, alone |-> c.alone]]
    /\ alerts' = [k \in Keys |->
                    [i \in DOMAIN alerts[k] |->
                       IF <<k, i>> \in Cancelled(c) THEN "cancelled" ELSE alerts[k][i]]
                    \o (IF k \in Inserted(c) THEN <<"pending">> ELSE <<>>)]
    /\ session' = [t \in Sessions |->
                     IF t = s THEN Idle
                     ELSE IF session[t].at = "written" /\ session[t].snapshot.day # c.snapshot.day
                     THEN [session[t] EXCEPT !.alone = FALSE]
                     ELSE session[t]]
    /\ last' = c.snapshot.day
    /\ lost' = (lost /\ c.overtaken)
    /\ UNCHANGED <<upload, mapped, rows, now, calls>>

(* A view that closes its session, a clash, a crash: nothing is kept.  A    *)
(* calculation that dies elsewhere has done no more than one never started. *)
Abandon(s) ==
    LET c == session[s] IN
    /\ c.at \in {"due", "written"}
    /\ Goes(s, Idle)
    /\ lost' = (lost \/ c.refresh)
    /\ UNCHANGED <<upload, mapped, rows, snapshots, alerts, now, calls, marks, last>>

Next ==
    \/ Tick
    \/ \E s \in Sessions, b \in Bookings, st \in {"pending", "confirmed", "denied"}, t \in Types :
         StartBooking(s, b, [status |-> st, type |-> t])
    \/ \E s \in Sessions, b \in Bookings : StartBooking(s, b, None)
    \/ \E s \in Sessions : CommitBooking(s)
    \/ \E s \in Sessions : Activate(s)
    \/ \E m \in Mappings, t \in Types : CorrectMapping(m, t)
    \/ \E s \in Sessions : StartView(s) \/ StartNightly(s) \/ StartRefresh(s)
    \/ \E s \in Sessions : Compute(s) \/ WriteSnapshot(s)
    \/ \E s \in Sessions : Commit(s) \/ Abandon(s)

Spec == Init /\ [][Next]_vars

-----------------------------------------------------------------------------
(* A snapshot that pages take for fresh shows the hours that are booked,    *)
(* unless a refresh is on its way, the last one failed, or a booking was    *)
(* committed while the snapshot was being calculated: stamps, the check of  *)
(* get_fresh_snapshot and the refresh after each booking call together      *)
(* leave no other way to a page of wrong hours.                              *)
RefreshComes == \E s \in Busy : session[s].at # "booking" /\ session[s].refresh

FreshHoursAreBooked ==
    Fresh => \/ \A p \in Latest : p.booked = BookedNow \/ marks[p.day].overtaken
             \/ lost \/ RefreshComes

(* The active alerts are some of those the snapshot written last warrants,  *)
(* no more than the policy allows the project and each subcontractor,       *)
(* unless a calculation of another day committed while it was being         *)
(* written: what one calculation inserts and keeps never adds to what        *)
(* another has left.                                                         *)
AlertsAreWarranted ==
    last # None /\ ActiveKeys # {} /\ marks[last].alone =>
        /\ ActiveKeys \subseteq Surviving(snapshots[last])
        /\ Cardinality(Active) <= PerProject
        /\ \A k \in ActiveKeys : Cardinality({x \in Active : x[1][1] = k[1]}) <= PerSub
=============================================================================
