----------------------------- MODULE Requirements -----------------------------
(***************************************************************************)
(* The asset requirements of one programme activity, the booking groups of *)
(* these requirements and the bookings linked to them:                     *)
(* api/v1/programmes.py (mappings), services/correction_service.py and the *)
(* linking of crud/slot_booking.py.                                        *)
(*                                                                         *)
(* Whether a booking finds its slot free is SlotBooking's subject: here    *)
(* every booking may succeed.                                               *)
(***************************************************************************)
EXTENDS Office, FiniteSets

CONSTANTS
    Mappings, Types, Bookings, Slots,
    Imported   \* the mappings an upload left

MappingRow ==
    [type : Types \cup {None}, role : {"lead", "support"},
     active : BOOLEAN, auto : BOOLEAN, manual : BOOLEAN]

ASSUME RequirementsAssumption ==
    None \notin MappingRow /\ Imported \in [Mappings -> MappingRow \cup {None}]

VARIABLES
    mapping,   \* activity_asset_mappings: None or [type, role, active, auto, manual]
    group,     \* activity_booking_groups by mapping: None or [type, modified]
    booking,   \* slot_bookings: None or [link, type, slot, status]
    explained  \* bookings of requirements no longer active, with a reason

requirements == <<mapping, group, booking, explained>>

ActiveStatus == {"pending", "confirmed"}

RequirementsInit ==
    /\ mapping = Imported
    /\ group = [m \in Mappings |-> None]
    /\ booking = [b \in Bookings |-> None]
    /\ explained = {}

Linked(m) == {b \in Bookings : booking[b] # None /\ booking[b].link = m}
LinkedActive(m) == {b \in Linked(m) : booking[b].status \in ActiveStatus}

-----------------------------------------------------------------------------
(* The partial unique index on the activity and the type of active rows.    *)
Admitted(m, row) ==
    row.active => \A n \in Mappings \ {m} :
        mapping[n] # None /\ mapping[n].active => mapping[n].type # row.type

(* add_activity_asset_requirement *)
LookForType(s) ==
    \E t \in Types, r \in {"lead", "support"} :
        /\ \A m \in Mappings : mapping[m] # None /\ mapping[m].active => mapping[m].type # t
        /\ Begins(s, [op |-> "add", at |-> "insert", type |-> t, role |-> r])
        /\ UNCHANGED requirements

InsertRequirement(s) ==
    /\ At(s, "add", "insert")
    /\ LET row == [type |-> call[s].type, role |-> call[s].role, active |-> TRUE,
                   auto |-> FALSE, manual |-> TRUE]
       IN  \E m \in Unused(mapping) :
             mapping' = IF Admitted(m, row) THEN [mapping EXCEPT ![m] = row] ELSE mapping
    /\ Ends(s)
    /\ UNCHANGED <<group, booking, explained>>

(* deactivate_activity_asset_requirement: what it counts.                   *)
(* Faulty variant: only confirmed bookings count. *)
ConfirmedOnly(m) == {b \in Linked(m) : booking[b].status = "confirmed"}

InTheWay(m) == LinkedActive(m)

CountBookings(s) ==
    \E m \in Mappings \ Unused(mapping) :
        /\ InTheWay(m) = {}
        /\ Begins(s, [op |-> "deactivate", at |-> "commit", on |-> m, row |-> mapping[m],
                      saw |-> LinkedActive(m)])
        /\ UNCHANGED requirements

Deactivate(s) ==
    /\ At(s, "deactivate", "commit")
    /\ LET c == call[s]
       IN  /\ mapping' = [mapping EXCEPT ![c.on].active = IF c.row.active THEN FALSE ELSE @,
                                      ![c.on].manual = TRUE]
           /\ explained' = explained \cup (LinkedActive(c.on) \ c.saw)
    /\ Ends(s)
    /\ UNCHANGED <<group, booking>>

(* correct_activity_mapping: it also revives a row; a column that keeps its *)
(* value is not written.                                                     *)
LoadRequirement(s) ==
    \E m \in Mappings \ Unused(mapping), t \in Types :
        /\ Begins(s, [op |-> "correct", at |-> "commit", on |-> m, row |-> mapping[m], type |-> t])
        /\ UNCHANGED requirements

Corrected(c, now) ==
    [now EXCEPT !.type = IF c.type # c.row.type THEN c.type ELSE @,
                !.active = IF c.row.active THEN @ ELSE TRUE,
                !.auto = IF c.row.auto THEN FALSE ELSE @,
                !.manual = TRUE]

Correct(s) ==
    /\ At(s, "correct", "commit")
    /\ LET m == call[s].on
           row == Corrected(call[s], mapping[m])
       IN  mapping' = IF Admitted(m, row) THEN [mapping EXCEPT ![m] = row] ELSE mapping
    /\ Ends(s)
    /\ UNCHANGED <<group, booking, explained>>

-----------------------------------------------------------------------------
(* What may be booked: an active row that was committed or corrected.       *)
Eligible(m) ==
    /\ mapping[m] # None /\ mapping[m].type # None
    /\ mapping[m].active
    /\ mapping[m].auto \/ mapping[m].manual

(* Without a mapping in the request there must be one candidate.            *)
Candidates ==
    LET eligible == {m \in Mappings : Eligible(m)}
        leads == {m \in eligible : mapping[m].role = "lead"}
    IN  IF leads # {} THEN leads ELSE eligible

Bookable(m) == Eligible(m)

(* A booking request of an activity reads its requirement and the group.    *)
LookForGroup(s) ==
    \E m \in Mappings, t \in Types, x \in Slots, st \in ActiveStatus :
        /\ Bookable(m) \/ Candidates = {m}
        /\ Begins(s, [op |-> "book", at |-> "insert", on |-> m, row |-> mapping[m],
                      found |-> group[m],
                      new |-> [link |-> m, type |-> t, slot |-> x, status |-> st]])
        /\ UNCHANGED requirements

(* The group is created, or refreshed with the type of the requirement;     *)
(* another asset's type marks it.                                            *)
Refreshed(c) ==
    LET drift == c.new.type # c.row.type
    IN  IF c.found = None THEN [type |-> c.row.type, modified |-> drift]
        ELSE [type |-> IF c.found.type = c.row.type THEN group[c.on].type ELSE c.row.type,
              modified |-> group[c.on].modified \/ drift]

InsertBooking(s) ==
    /\ At(s, "book", "insert")
    /\ LET c == call[s]
       IN  \E b \in Unused(booking) :
             IF c.found = None /\ group[c.on] # None
             THEN UNCHANGED requirements
             ELSE /\ group' = [group EXCEPT ![c.on] = Refreshed(c)]
                  /\ booking' = [booking EXCEPT ![b] = c.new]
                  /\ explained' = IF c.row.active /\ ~mapping[c.on].active
                                  THEN explained \cup {b} ELSE explained
                  /\ UNCHANGED mapping
    /\ Ends(s)

(* duplicate_booking: the group of the original is not looked at. *)
Duplicate(s) ==
    \E b \in Bookings \ Unused(booking), new \in Unused(booking), x \in Slots, st \in ActiveStatus :
        LET m == booking[b].link IN
        /\ booking' = [booking EXCEPT ![new] = [booking[b] EXCEPT !.slot = x, !.status = st]]
        /\ group' = [group EXCEPT ![m].modified = @ \/ booking[b].type # group[m].type]
        /\ explained' = explained \cup {new}
        /\ Answers(s)
        /\ UNCHANGED mapping

-----------------------------------------------------------------------------
(* Updates of one booking.                                                   *)

(* _mark_booking_group_modified_if_needed; given: to another subcontractor. *)
Marked(old, new, given, g) ==
    \/ g.modified
    \/ new.slot # old.slot \/ given
    \/ new.type # g.type /\ old.type = g.type

(* update_booking and bulk reschedules: another slot, asset or subcontractor. *)
Move(s) ==
    \E b \in Bookings \ Unused(booking), t \in Types, x \in Slots, given \in BOOLEAN :
        LET old == booking[b]
            new == [old EXCEPT !.type = t, !.slot = x]
        IN  /\ new # old \/ given
            /\ booking' = [booking EXCEPT ![b] = new]
            /\ group' = [group EXCEPT ![old.link].modified = Marked(old, new, given, group[old.link])]
            /\ Answers(s)
            /\ UNCHANGED <<mapping, explained>>

Reopen(s) ==
    \E b \in Bookings \ Unused(booking) :
        /\ booking[b].status \notin ActiveStatus
        /\ booking' = [booking EXCEPT ![b].status = "pending"]
        /\ explained' = explained \cup {b}
        /\ Answers(s)
        /\ UNCHANGED <<mapping, group>>

(* update_booking_status, delete_booking *)
Close(s) ==
    \E b \in Bookings \ Unused(booking) :
        /\ booking[b].status \in ActiveStatus
        /\ booking' = [booking EXCEPT ![b].status = "cancelled"]
        /\ Answers(s)
        /\ UNCHANGED <<mapping, group, explained>>

RequirementsNext ==
    \E s \in Sessions :
        \/ LookForType(s) \/ InsertRequirement(s)
        \/ CountBookings(s) \/ Deactivate(s)
        \/ LoadRequirement(s) \/ Correct(s)
        \/ LookForGroup(s) \/ InsertBooking(s) \/ Duplicate(s)
        \/ Move(s) \/ Reopen(s) \/ Close(s)

RequirementsSpec == OfficeInit /\ RequirementsInit /\ [][RequirementsNext]_<<office, requirements>>

-----------------------------------------------------------------------------
(* A requirement that was dropped has no active booking, but for one that   *)
(* was reopened or duplicated, or requested while the requirement was being *)
(* dropped.                                                                  *)
OrphansAreExplained ==
    \A m \in Mappings :
        mapping[m] # None /\ ~mapping[m].active => LinkedActive(m) \subseteq explained
===============================================================================
