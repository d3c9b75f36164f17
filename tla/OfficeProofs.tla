------------------------------ MODULE OfficeProofs ------------------------------
(***************************************************************************)
(* Theorems about the calls of the web process (Requirements, Memberships, *)
(* Tokens, Readiness and ItemIdentity), for any number of sessions and     *)
(* rows.                                                                    *)
(***************************************************************************)
EXTENDS Requirements, Memberships, Tokens, Readiness, ItemIdentity,
        FoldTheorems, SequenceTheorems

-----------------------------------------------------------------------------
(* Requirements: the inductive invariant.  A call holds on to what it read  *)
(* of a requirement, which was active if it is about to be booked, and had  *)
(* no active booking if it is about to be deactivated.                       *)

GroupRow == [type : Types \cup {None}, modified : BOOLEAN]

BookingRow == [link : Mappings, type : Types, slot : Slots, status : ActiveStatus \cup {"cancelled"}]

RequirementCall ==
    [op : {"add"}, at : {"insert"}, type : Types, role : {"lead", "support"}]
      \cup [op : {"deactivate"}, at : {"commit"}, on : Mappings, row : MappingRow, saw : SUBSET Bookings]
      \cup [op : {"correct"}, at : {"commit"}, on : Mappings, row : MappingRow, type : Types]
      \cup [op : {"book"}, at : {"insert"}, on : Mappings, row : MappingRow,
            found : GroupRow \cup {None}, new : BookingRow]

RequirementsTypeOK ==
    /\ mapping \in [Mappings -> MappingRow \cup {None}]
    /\ group \in [Mappings -> GroupRow \cup {None}]
    /\ booking \in [Bookings -> BookingRow \cup {None}]
    /\ explained \in SUBSET Bookings
    /\ call \in [Sessions -> RequirementCall \cup {Idle}]

(* A booking has the group of its requirement, which is never deleted.      *)
BookingsGrouped ==
    \A b \in Bookings : booking[b] # None => group[booking[b].link] \in GroupRow

(* rows and groups: the requirements and groups that are committed. *)
RequirementCallOK(c, rows0, groups) ==
    /\ c.op \in {"deactivate", "correct", "book"} => rows0[c.on] \in MappingRow
    /\ c.op = "deactivate" => c.saw = {}
    /\ c.op = "book" => /\ c.row.active
                        /\ c.new.link = c.on
                        /\ c.found # None => groups[c.on] \in GroupRow

RequirementsInv ==
    /\ RequirementsTypeOK
    /\ BookingsGrouped
    /\ OrphansAreExplained
    /\ \A s \in Sessions : call[s] # Idle => RequirementCallOK(call[s], mapping, group)

LEMMA RequirementCallOf ==
    ASSUME RequirementsInv, NEW s \in Sessions, NEW op, op # "none", call[s].op = op
    PROVE  call[s] # Idle /\ call[s] \in RequirementCall /\ RequirementCallOK(call[s], mapping, group)
BY DEF RequirementsInv, RequirementsTypeOK, Idle

(* One call changes, and no row of a requirement or a group goes. *)
LEMMA RequirementCalls ==
    ASSUME RequirementsInv, NEW s \in Sessions, NEW c \in RequirementCall \cup {Idle},
           call' = call \/ call' = [call EXCEPT ![s] = c],
           c # Idle => RequirementCallOK(c, mapping', group'),
           \A m \in Mappings : mapping[m] \in MappingRow => mapping'[m] \in MappingRow,
           \A m \in Mappings : group[m] \in GroupRow => group'[m] \in GroupRow
    PROVE  /\ call' \in [Sessions -> RequirementCall \cup {Idle}]
           /\ \A t \in Sessions : call'[t] # Idle => RequirementCallOK(call'[t], mapping', group')
<1>1. call \in [Sessions -> RequirementCall \cup {Idle}]
  BY DEF RequirementsInv, RequirementsTypeOK
<1>2. ASSUME NEW d \in RequirementCall, RequirementCallOK(d, mapping, group)
      PROVE  RequirementCallOK(d, mapping', group')
  <2>1. d.op \in {"deactivate", "correct", "book"} => d.on \in Mappings
    BY DEF RequirementCall
  <2> QED
    BY <1>2, <2>1 DEF RequirementCallOK
<1>3. \A t \in Sessions : call[t] # Idle => RequirementCallOK(call[t], mapping', group')
  BY <1>1, <1>2 DEF RequirementsInv
<1> QED
  BY <1>1, <1>3

LEMMA InsertRequirementPreserves ==
    ASSUME RequirementsInv, NEW s \in Sessions, InsertRequirement(s)
    PROVE  RequirementsInv'
<1> DEFINE row == [type |-> call[s].type, role |-> call[s].role, active |-> TRUE,
                   auto |-> FALSE, manual |-> TRUE]
<1>1. call[s] \in RequirementCall /\ call[s].op = "add"
  BY RequirementCallOf DEF InsertRequirement, At
<1>2. row \in MappingRow
  BY <1>1 DEF RequirementCall, MappingRow
<1>3. row.active
  OBVIOUS
<1>4. PICK m \in Unused(mapping) :
         mapping' = IF Admitted(m, row) THEN [mapping EXCEPT ![m] = row] ELSE mapping
  BY DEF InsertRequirement
<1> HIDE DEF row
<1>5. UNCHANGED <<group, booking, explained>> /\ call' = [call EXCEPT ![s] = Idle]
  BY DEF InsertRequirement, Ends
<1>6. /\ mapping' \in [Mappings -> MappingRow \cup {None}]
      /\ \A n \in Mappings : mapping'[n] = mapping[n] \/ (mapping'[n] = row /\ row.active)
  BY <1>2, <1>3, <1>4 DEF RequirementsInv, RequirementsTypeOK, Unused
<1>7. /\ call' \in [Sessions -> RequirementCall \cup {Idle}]
      /\ \A t \in Sessions : call'[t] # Idle => RequirementCallOK(call'[t], mapping', group')
  BY <1>2, <1>5, <1>6, RequirementCalls
<1>8. OrphansAreExplained'
  BY <1>5, <1>6 DEF RequirementsInv, OrphansAreExplained, LinkedActive, Linked
<1>9. RequirementsTypeOK' /\ BookingsGrouped'
  BY <1>5, <1>6, <1>7 DEF RequirementsInv, RequirementsTypeOK, BookingsGrouped
<1> QED
  BY <1>7, <1>8, <1>9 DEF RequirementsInv

LEMMA DeactivatePreserves ==
    ASSUME RequirementsInv, NEW s \in Sessions, Deactivate(s)
    PROVE  RequirementsInv'
<1> DEFINE c == call[s]
<1>1. c \in RequirementCall /\ c.op = "deactivate" /\ RequirementCallOK(c, mapping, group)
  BY RequirementCallOf DEF Deactivate, At
<1>2. c.on \in Mappings /\ mapping[c.on] \in MappingRow /\ c.saw = {}
  BY <1>1 DEF RequirementCall, RequirementCallOK
<1>3. /\ mapping' = [mapping EXCEPT ![c.on].active = IF c.row.active THEN FALSE ELSE @,
                                    ![c.on].manual = TRUE]
      /\ explained' = explained \cup LinkedActive(c.on)
      /\ UNCHANGED <<group, booking>> /\ call' = [call EXCEPT ![s] = Idle]
  BY <1>2 DEF Deactivate, Ends
<1> HIDE DEF c
<1>4. /\ \A m \in Mappings : m # c.on => mapping'[m] = mapping[m]
      /\ mapping'[c.on] \in MappingRow
      /\ mapping' \in [Mappings -> MappingRow \cup {None}]
  <2>1. mapping \in [Mappings -> MappingRow \cup {None}]
    BY DEF RequirementsInv, RequirementsTypeOK
  <2> QED
    BY <1>2, <1>3, <2>1 DEF MappingRow
<1>5. /\ call' \in [Sessions -> RequirementCall \cup {Idle}]
      /\ \A t \in Sessions : call'[t] # Idle => RequirementCallOK(call'[t], mapping', group')
  BY <1>3, <1>4, RequirementCalls
<1>6. LinkedActive(c.on) \subseteq Bookings
  BY DEF LinkedActive, Linked
<1>7. OrphansAreExplained'
  BY <1>3, <1>4 DEF RequirementsInv, OrphansAreExplained, LinkedActive, Linked
<1>8. RequirementsTypeOK' /\ BookingsGrouped'
  BY <1>3, <1>4, <1>5, <1>6 DEF RequirementsInv, RequirementsTypeOK, BookingsGrouped
<1> QED
  BY <1>5, <1>7, <1>8 DEF RequirementsInv

LEMMA CorrectPreserves ==
    ASSUME RequirementsInv, NEW s \in Sessions, Correct(s)
    PROVE  RequirementsInv'
<1> DEFINE c == call[s]
           row == Corrected(c, mapping[c.on])
<1>1. c \in RequirementCall /\ c.op = "correct" /\ RequirementCallOK(c, mapping, group)
  BY RequirementCallOf DEF Correct, At
<1>2. c.on \in Mappings /\ mapping[c.on] \in MappingRow /\ c.type \in Types /\ c.row \in MappingRow
  BY <1>1 DEF RequirementCall, RequirementCallOK
<1>3. /\ mapping' = IF Admitted(c.on, row) THEN [mapping EXCEPT ![c.on] = row] ELSE mapping
      /\ UNCHANGED <<group, booking, explained>> /\ call' = [call EXCEPT ![s] = Idle]
  BY DEF Correct, Ends
<1>4. row \in MappingRow /\ (~row.active => ~mapping[c.on].active)
  BY <1>2 DEF Corrected, MappingRow
<1> HIDE DEF c, row
<1>5. /\ \A m \in Mappings : m # c.on => mapping'[m] = mapping[m]
      /\ mapping'[c.on] \in {mapping[c.on], row}
      /\ mapping' \in [Mappings -> MappingRow \cup {None}]
  BY <1>2, <1>3, <1>4 DEF RequirementsInv, RequirementsTypeOK
<1>6. /\ call' \in [Sessions -> RequirementCall \cup {Idle}]
      /\ \A t \in Sessions : call'[t] # Idle => RequirementCallOK(call'[t], mapping', group')
  BY <1>2, <1>3, <1>4, <1>5, RequirementCalls
<1>7. OrphansAreExplained'
  <2>1. \A m \in Mappings : mapping'[m] # None /\ ~mapping'[m].active =>
                               mapping[m] # None /\ ~mapping[m].active
    BY <1>2, <1>4, <1>5, RequirementsAssumption
  <2>2. \A m \in Mappings : LinkedActive(m)' = LinkedActive(m)
    BY <1>3 DEF LinkedActive, Linked
  <2> QED
    BY <1>3, <2>1, <2>2 DEF RequirementsInv, OrphansAreExplained
<1>8. RequirementsTypeOK' /\ BookingsGrouped'
  BY <1>3, <1>5, <1>6 DEF RequirementsInv, RequirementsTypeOK, BookingsGrouped
<1> QED
  BY <1>6, <1>7, <1>8 DEF RequirementsInv

LEMMA InsertBookingPreserves ==
    ASSUME RequirementsInv, NEW s \in Sessions, InsertBooking(s)
    PROVE  RequirementsInv'
<1> DEFINE c == call[s]
<1>1. /\ c \in RequirementCall /\ c.op = "book" /\ RequirementCallOK(c, mapping, group)
      /\ call' = [call EXCEPT ![s] = Idle]
  BY RequirementCallOf DEF InsertBooking, At, Ends
<1>2. /\ c.on \in Mappings /\ mapping[c.on] \in MappingRow /\ c.row.active /\ c.new.link = c.on
      /\ c.new \in BookingRow /\ c.row \in MappingRow /\ c.found \in GroupRow \cup {None}
      /\ c.found # None => group[c.on] \in GroupRow
  BY <1>1 DEF RequirementCall, RequirementCallOK
<1>3. PICK b \in Unused(booking) :
         IF c.found = None /\ group[c.on] # None
         THEN UNCHANGED requirements
         ELSE /\ group' = [group EXCEPT ![c.on] = Refreshed(c)]
              /\ booking' = [booking EXCEPT ![b] = c.new]
              /\ explained' = IF c.row.active /\ ~mapping[c.on].active
                              THEN explained \cup {b} ELSE explained
              /\ UNCHANGED mapping
  BY DEF InsertBooking
<1>4. Refreshed(c) \in GroupRow
  BY <1>2 DEF Refreshed, GroupRow, MappingRow, BookingRow
<1> HIDE DEF c
<1>5. CASE c.found = None /\ group[c.on] # None
  <2>1. UNCHANGED requirements
    BY <1>3, <1>5
  <2>2. /\ call' \in [Sessions -> RequirementCall \cup {Idle}]
        /\ \A t \in Sessions : call'[t] # Idle => RequirementCallOK(call'[t], mapping', group')
    BY <1>1, <2>1, RequirementCalls DEF requirements
  <2> QED
    BY <2>1, <2>2 DEF RequirementsInv, RequirementsTypeOK, BookingsGrouped, requirements,
                      OrphansAreExplained, LinkedActive, Linked
<1>6. CASE ~(c.found = None /\ group[c.on] # None)
  <2>1. /\ group' = [group EXCEPT ![c.on] = Refreshed(c)]
        /\ booking' = [booking EXCEPT ![b] = c.new]
        /\ explained' = IF ~mapping[c.on].active THEN explained \cup {b} ELSE explained
        /\ mapping' = mapping
    BY <1>2, <1>3, <1>6
  <2>2. b \in Bookings
    BY DEF Unused, RequirementsInv, RequirementsTypeOK
  <2>3. /\ group' \in [Mappings -> GroupRow \cup {None}]
        /\ \A m \in Mappings : group[m] \in GroupRow => group'[m] \in GroupRow
        /\ group'[c.on] \in GroupRow
    BY <1>2, <1>4, <2>1 DEF RequirementsInv, RequirementsTypeOK
  <2>4. /\ booking' \in [Bookings -> BookingRow \cup {None}]
        /\ \A x \in Bookings : booking'[x] = IF x = b THEN c.new ELSE booking[x]
    BY <1>2, <2>1, <2>2 DEF RequirementsInv, RequirementsTypeOK
  <2>5. /\ call' \in [Sessions -> RequirementCall \cup {Idle}]
        /\ \A t \in Sessions : call'[t] # Idle => RequirementCallOK(call'[t], mapping', group')
    BY <1>1, <2>1, <2>3, RequirementCalls
  <2>6. BookingsGrouped'
    <3>1. \A x \in Bookings : booking[x] # None => booking[x].link \in Mappings
      BY DEF RequirementsInv, RequirementsTypeOK, BookingRow
    <3> QED
      BY <1>2, <2>3, <2>4, <3>1 DEF RequirementsInv, BookingsGrouped
  <2>7. OrphansAreExplained'
    <3> SUFFICES ASSUME NEW m \in Mappings, mapping[m] # None, ~mapping[m].active,
                        NEW x \in LinkedActive(m)'
                 PROVE  x \in explained'
      BY <2>1 DEF OrphansAreExplained
    <3>1. CASE x = b
      <4>1. m = c.on
        BY <1>2, <2>2, <2>4, <3>1 DEF LinkedActive, Linked
      <4> QED
        BY <2>1, <3>1, <4>1
    <3>2. CASE x # b
      <4>1. x \in LinkedActive(m)
        BY <2>4, <3>2 DEF LinkedActive, Linked
      <4> QED
        BY <2>1, <4>1 DEF RequirementsInv, OrphansAreExplained
    <3> QED
      BY <3>1, <3>2
  <2>8. explained' \in SUBSET Bookings
    BY <2>1, <2>2 DEF RequirementsInv, RequirementsTypeOK
  <2>9. RequirementsTypeOK'
    BY <2>1, <2>3, <2>4, <2>5, <2>8 DEF RequirementsInv, RequirementsTypeOK
  <2> QED
    BY <2>5, <2>6, <2>7, <2>9 DEF RequirementsInv
<1> QED
  BY <1>5, <1>6

(* A call that writes one booking, and marks its group. *)
LEMMA BookingWritten ==
    ASSUME RequirementsInv, UNCHANGED <<mapping, call>>,
           NEW b \in Bookings, NEW row \in BookingRow, booking' = [booking EXCEPT ![b] = row],
           group[row.link] \in GroupRow,
           \/ UNCHANGED group
           \/ \E x \in BOOLEAN : group' = [group EXCEPT ![row.link].modified = x],
           explained' \in {explained, explained \cup {b}},
           row.status \in ActiveStatus => \/ b \in explained'
                                          \/ b \in LinkedActive(row.link)
    PROVE  RequirementsInv'
<1>1. row.link \in Mappings
  BY DEF BookingRow
<1>2. /\ group' \in [Mappings -> GroupRow \cup {None}]
      /\ \A m \in Mappings : group[m] \in GroupRow => group'[m] \in GroupRow
  <2>1. CASE UNCHANGED group
    BY <2>1 DEF RequirementsInv, RequirementsTypeOK
  <2>2. CASE \E x \in BOOLEAN : group' = [group EXCEPT ![row.link].modified = x]
    <3>1. PICK x \in BOOLEAN : group' = [group EXCEPT ![row.link].modified = x]
      BY <2>2
    <3>2. [group[row.link] EXCEPT !.modified = x] \in GroupRow
      BY DEF GroupRow
    <3> QED
      BY <1>1, <3>1, <3>2 DEF RequirementsInv, RequirementsTypeOK
  <2> QED
    BY <2>1, <2>2
<1>3. /\ booking' \in [Bookings -> BookingRow \cup {None}]
      /\ \A x \in Bookings : booking'[x] = IF x = b THEN row ELSE booking[x]
  BY DEF RequirementsInv, RequirementsTypeOK
<1>4. explained \subseteq explained' /\ explained' \in SUBSET Bookings
  BY DEF RequirementsInv, RequirementsTypeOK
<1>5. /\ call' \in [Sessions -> RequirementCall \cup {Idle}]
      /\ \A t \in Sessions : call'[t] # Idle => RequirementCallOK(call'[t], mapping', group')
  <2>1. call \in [Sessions -> RequirementCall \cup {Idle}]
    BY DEF RequirementsInv, RequirementsTypeOK
  <2>2. ASSUME NEW t \in Sessions, call'[t] # Idle
        PROVE  RequirementCallOK(call'[t], mapping', group')
    BY <1>2, <2>1, <2>2 DEF RequirementsInv, RequirementCallOK, RequirementCall
  <2> QED
    BY <2>1, <2>2
<1>6. BookingsGrouped'
  <2>1. \A x \in Bookings : booking[x] # None => booking[x].link \in Mappings
    BY DEF RequirementsInv, RequirementsTypeOK, BookingRow
  <2> QED
    BY <1>1, <1>2, <1>3, <2>1 DEF RequirementsInv, BookingsGrouped
<1>7. OrphansAreExplained'
  <2> SUFFICES ASSUME NEW m \in Mappings, mapping[m] # None, ~mapping[m].active,
                      NEW x \in LinkedActive(m)'
               PROVE  x \in explained'
    BY DEF OrphansAreExplained
  <2>1. x \in LinkedActive(m) \/ x \in explained'
    <3>1. CASE x = b
      BY <1>3, <3>1 DEF LinkedActive, Linked
    <3>2. CASE x # b
      BY <1>3, <3>2 DEF LinkedActive, Linked
    <3> QED
      BY <3>1, <3>2
  <2> QED
    BY <1>4, <2>1 DEF RequirementsInv, OrphansAreExplained
<1>8. RequirementsTypeOK'
  BY <1>2, <1>3, <1>4, <1>5 DEF RequirementsInv, RequirementsTypeOK
<1> QED
  BY <1>5, <1>6, <1>7, <1>8 DEF RequirementsInv

LEMMA BookedRow ==
    ASSUME RequirementsInv, NEW b \in Bookings \ Unused(booking)
    PROVE  /\ booking[b] \in BookingRow /\ booking[b].link \in Mappings /\ booking[b] # None
           /\ group[booking[b].link] \in GroupRow
           /\ booking[b].status \in ActiveStatus => b \in LinkedActive(booking[b].link)
<1>1. booking[b] \in BookingRow /\ booking[b] # None
  BY DEF RequirementsInv, RequirementsTypeOK, Unused
<1> QED
  BY <1>1 DEF RequirementsInv, BookingsGrouped, BookingRow, LinkedActive, Linked

LEMMA DuplicatePreserves ==
    ASSUME RequirementsInv, NEW s \in Sessions, Duplicate(s)
    PROVE  RequirementsInv'
<1>1. PICK b \in Bookings \ Unused(booking), new \in Unused(booking), x \in Slots, st \in ActiveStatus :
        LET m == booking[b].link IN
        /\ booking' = [booking EXCEPT ![new] = [booking[b] EXCEPT !.slot = x, !.status = st]]
        /\ group' = [group EXCEPT ![m].modified = @ \/ booking[b].type # group[m].type]
        /\ explained' = explained \cup {new}
        /\ Answers(s)
        /\ UNCHANGED mapping
  BY Zenon DEF Duplicate
<1> DEFINE row == [booking[b] EXCEPT !.slot = x, !.status = st]
           mark == group[booking[b].link].modified \/ booking[b].type # group[booking[b].link].type
<1>2. /\ booking[b] \in BookingRow /\ booking[b].link \in Mappings
      /\ group[booking[b].link] \in GroupRow
  BY BookedRow
<1>3. row \in BookingRow /\ row.link = booking[b].link
  BY <1>2 DEF BookingRow
<1>4. new \in Bookings
  BY DEF Unused, RequirementsInv, RequirementsTypeOK
<1>5. mark \in BOOLEAN
  BY <1>2 DEF GroupRow
<1>6. group' = [group EXCEPT ![row.link].modified = mark] /\ UNCHANGED <<mapping, call>>
  BY <1>1, <1>3 DEF Answers
<1> HIDE DEF row, mark
<1>7. booking' = [booking EXCEPT ![new] = row]
  BY <1>1 DEF row
<1> QED
  BY <1>1, <1>2, <1>3, <1>4, <1>5, <1>6, <1>7, BookingWritten

LEMMA MovePreserves ==
    ASSUME RequirementsInv, NEW s \in Sessions, Move(s)
    PROVE  RequirementsInv'
<1>1. PICK b \in Bookings \ Unused(booking), t \in Types, x \in Slots, given \in BOOLEAN :
        LET old == booking[b]
            new == [old EXCEPT !.type = t, !.slot = x]
        IN  /\ new # old \/ given
            /\ booking' = [booking EXCEPT ![b] = new]
            /\ group' = [group EXCEPT ![old.link].modified = Marked(old, new, given, group[old.link])]
            /\ Answers(s)
            /\ UNCHANGED <<mapping, explained>>
  BY Zenon DEF Move
<1> DEFINE row == [booking[b] EXCEPT !.type = t, !.slot = x]
           mark == Marked(booking[b], row, given, group[booking[b].link])
<1>2. /\ booking[b] \in BookingRow /\ booking[b].link \in Mappings
      /\ group[booking[b].link] \in GroupRow
      /\ booking[b].status \in ActiveStatus => b \in LinkedActive(booking[b].link)
  BY BookedRow
<1>3. row \in BookingRow /\ row.link = booking[b].link /\ row.status = booking[b].status
  BY <1>2 DEF BookingRow
<1>4. mark \in BOOLEAN
  BY <1>2 DEF GroupRow, Marked
<1>5. /\ group' = [group EXCEPT ![row.link].modified = mark]
      /\ UNCHANGED <<mapping, call>> /\ explained' = explained
      /\ row.status \in ActiveStatus => b \in LinkedActive(row.link)
      /\ group[row.link] \in GroupRow
  BY <1>1, <1>2, <1>3 DEF Answers
<1>6. booking' = [booking EXCEPT ![b] = row]
  BY <1>1
<1> HIDE DEF row, mark
<1>7. \E y \in BOOLEAN : group' = [group EXCEPT ![row.link].modified = y]
  BY <1>4, <1>5
<1>8. b \in Bookings
  OBVIOUS
<1> QED
  BY <1>3, <1>5, <1>6, <1>7, <1>8, BookingWritten

LEMMA StatusPreserves ==
    ASSUME RequirementsInv, NEW s \in Sessions, Reopen(s) \/ Close(s)
    PROVE  RequirementsInv'
<1>1. PICK b \in Bookings \ Unused(booking), st \in ActiveStatus \cup {"cancelled"} :
        /\ booking' = [booking EXCEPT ![b].status = st]
        /\ \/ explained' = explained \cup {b}
           \/ explained' = explained /\ st = "cancelled"
        /\ UNCHANGED <<mapping, group, call>>
  BY DEF Reopen, Close, Answers, ActiveStatus
<1> DEFINE row == [booking[b] EXCEPT !.status = st]
<1>2. booking[b] \in BookingRow /\ group[booking[b].link] \in GroupRow
  BY BookedRow
<1>3. row \in BookingRow /\ row.link = booking[b].link /\ row.status = st
  BY <1>2 DEF BookingRow
<1>4. booking' = [booking EXCEPT ![b] = row]
  BY <1>1
<1>5. "cancelled" \notin ActiveStatus
  BY DEF ActiveStatus
<1>6. /\ explained' \in {explained, explained \cup {b}}
      /\ row.status \in ActiveStatus => b \in explained'
  BY <1>1, <1>3, <1>5
<1> HIDE DEF row
<1> QED
  BY <1>1, <1>2, <1>3, <1>4, <1>6, BookingWritten

LEMMA RequirementReadsPreserve ==
    ASSUME RequirementsInv, NEW s \in Sessions,
           LookForType(s) \/ CountBookings(s) \/ LoadRequirement(s) \/ LookForGroup(s)
    PROVE  RequirementsInv'
<1>1. ASSUME NEW c \in RequirementCall, RequirementCallOK(c, mapping, group), Begins(s, c),
             UNCHANGED requirements
      PROVE  RequirementsInv'
  <2>1. /\ call' \in [Sessions -> RequirementCall \cup {Idle}]
        /\ \A t \in Sessions : call'[t] # Idle => RequirementCallOK(call'[t], mapping', group')
    BY <1>1, RequirementCalls DEF Begins, requirements
  <2> QED
    BY <1>1, <2>1 DEF RequirementsInv, RequirementsTypeOK, BookingsGrouped, requirements,
                      OrphansAreExplained, LinkedActive, Linked
<1>2. \A m \in Mappings \ Unused(mapping) : mapping[m] \in MappingRow
  BY DEF RequirementsInv, RequirementsTypeOK, Unused
<1>3. CASE LookForType(s)
  <2>1. PICK t \in Types, r \in {"lead", "support"} :
           /\ Begins(s, [op |-> "add", at |-> "insert", type |-> t, role |-> r])
           /\ UNCHANGED requirements
    BY <1>3 DEF LookForType
  <2> DEFINE c == [op |-> "add", at |-> "insert", type |-> t, role |-> r]
  <2>2. c \in RequirementCall /\ RequirementCallOK(c, mapping, group)
    BY DEF RequirementCall, RequirementCallOK
  <2> QED
    BY <2>1, <2>2, <1>1
<1>4. CASE CountBookings(s)
  <2>1. PICK m \in Mappings \ Unused(mapping) :
           /\ LinkedActive(m) = {}
           /\ Begins(s, [op |-> "deactivate", at |-> "commit", on |-> m, row |-> mapping[m],
                         saw |-> LinkedActive(m)])
           /\ UNCHANGED requirements
    BY <1>4 DEF CountBookings, InTheWay
  <2> DEFINE c == [op |-> "deactivate", at |-> "commit", on |-> m, row |-> mapping[m],
                   saw |-> LinkedActive(m)]
  <2>2. c \in RequirementCall /\ RequirementCallOK(c, mapping, group)
    BY <1>2, <2>1 DEF RequirementCall, RequirementCallOK
  <2> QED
    BY <2>1, <2>2, <1>1
<1>5. CASE LoadRequirement(s)
  <2>1. PICK m \in Mappings \ Unused(mapping), t \in Types :
           /\ Begins(s, [op |-> "correct", at |-> "commit", on |-> m, row |-> mapping[m], type |-> t])
           /\ UNCHANGED requirements
    BY <1>5 DEF LoadRequirement
  <2> DEFINE c == [op |-> "correct", at |-> "commit", on |-> m, row |-> mapping[m], type |-> t]
  <2>2. c \in RequirementCall /\ RequirementCallOK(c, mapping, group)
    BY <1>2 DEF RequirementCall, RequirementCallOK
  <2> QED
    BY <2>1, <2>2, <1>1
<1>6. CASE LookForGroup(s)
  <2>1. PICK m \in Mappings, t \in Types, x \in Slots, st \in ActiveStatus :
           /\ Bookable(m) \/ Candidates = {m}
           /\ Begins(s, [op |-> "book", at |-> "insert", on |-> m, row |-> mapping[m],
                         found |-> group[m],
                         new |-> [link |-> m, type |-> t, slot |-> x, status |-> st]])
           /\ UNCHANGED requirements
    BY <1>6 DEF LookForGroup
  <2> DEFINE new == [link |-> m, type |-> t, slot |-> x, status |-> st]
             c == [op |-> "book", at |-> "insert", on |-> m, row |-> mapping[m],
                   found |-> group[m], new |-> new]
  <2>2. Eligible(m)
    BY <2>1 DEF Bookable, Candidates
  <2>3. mapping[m] \in MappingRow /\ mapping[m].active
    BY <2>2 DEF Eligible, RequirementsInv, RequirementsTypeOK
  <2>4. new \in BookingRow /\ new.link = m
    BY DEF BookingRow
  <2>5. group[m] \in GroupRow \cup {None}
    BY DEF RequirementsInv, RequirementsTypeOK
  <2> HIDE DEF new
  <2>6. c \in RequirementCall
    BY <2>3, <2>4, <2>5 DEF RequirementCall
  <2>7. RequirementCallOK(c, mapping, group)
    BY <2>3, <2>4, <2>5 DEF RequirementCallOK
  <2>8. Begins(s, c)
    BY <2>1 DEF new
  <2> QED
    BY <2>1, <2>6, <2>7, <2>8, <1>1
<1> QED
  BY <1>3, <1>4, <1>5, <1>6

(* In every state requirements, groups and bookings are typed and belong    *)
(* together, and a call still finds the requirement it read.                 *)
THEOREM RequirementsConsistent == RequirementsSpec => []RequirementsInv
<1>1. OfficeInit /\ RequirementsInit => RequirementsInv
  <2> SUFFICES ASSUME OfficeInit, RequirementsInit
               PROVE  RequirementsInv
    OBVIOUS
  <2>1. RequirementsTypeOK
    BY RequirementsAssumption DEF OfficeInit, RequirementsInit, RequirementsTypeOK
  <2>2. \A m \in Mappings : LinkedActive(m) = {}
    BY DEF RequirementsInit, LinkedActive, Linked
  <2> QED
    BY <2>1, <2>2
    DEF OfficeInit, RequirementsInit, RequirementsInv, BookingsGrouped, OrphansAreExplained
<1>2. RequirementsInv /\ [RequirementsNext]_<<office, requirements>> => RequirementsInv'
  <2> SUFFICES ASSUME RequirementsInv, [RequirementsNext]_<<office, requirements>>
               PROVE  RequirementsInv'
    OBVIOUS
  <2>1. CASE UNCHANGED <<office, requirements>>
    BY <2>1 DEF office, requirements, RequirementsInv, RequirementsTypeOK, BookingsGrouped,
                OrphansAreExplained, LinkedActive, Linked
  <2>2. CASE RequirementsNext
    BY <2>2, RequirementReadsPreserve, InsertRequirementPreserves, DeactivatePreserves,
       CorrectPreserves, InsertBookingPreserves, DuplicatePreserves, MovePreserves, StatusPreserves
    DEF RequirementsNext
  <2> QED
    BY <2>1, <2>2
<1> QED
  BY <1>1, <1>2, PTL DEF RequirementsSpec

(* A requirement that was dropped keeps no active booking nobody was told   *)
(* of: each was reopened, duplicated, or requested while it was dropped.     *)
THEOREM NoSilentOrphans == RequirementsSpec => []OrphansAreExplained
<1>1. RequirementsInv => OrphansAreExplained
  BY DEF RequirementsInv
<1> QED
  BY <1>1, RequirementsConsistent, PTL

-----------------------------------------------------------------------------
(* Memberships: what a call read.  A call that adds drops nobody, one that  *)
(* removes drops one member, and saw another manager if that is a manager;  *)
(* a deletion counted no confirmed work of its company, a new booking has   *)
(* its own row, and what a call changes was booked.                          *)

MembershipCall ==
    [op : {"replace", "add", "remove"}, at : {"commit"}, old : SUBSET Members,
     new : SUBSET Members, managers : SUBSET Users]
      \cup [op : {"join"}, at : {"read"}, new : SUBSET Users]
      \cup [op : {"book"}, at : {"commit"}, job : Jobs, new : WorkRow]
      \cup [op : {"edit"}, at : {"commit"}, job : Jobs, old : WorkRow, new : WorkRow]
      \cup [op : {"bulk"}, at : {"commit"}, job : Jobs, who : Companies]
      \cup [op : {"delete"}, at : {"gather", "commit"}, who : Companies,
            saw : [Jobs -> WorkRow \cup {Missing}], got : SUBSET Jobs, listed : BOOLEAN]
      \cup [op : {"day"}, at : {"commit"}, old : Labels \cup {Missing}, new : Labels]

MembershipsTypeOK ==
    /\ status \in {Missing, "active", "cancelled"}
    /\ rows \in [Members -> Nat]
    /\ role \in [Users -> {"manager", "admin", "tv"}]
    /\ live \in SUBSET Members /\ gone \in SUBSET Companies
    /\ day \in Labels \cup {Missing}
    /\ work \in [Jobs -> WorkRow \cup {Missing}]
    /\ call \in [Sessions -> MembershipCall \cup {Idle}]

NotConfirmedFor(x, row) == row # Missing /\ row.company = x => row.status # "confirmed"

(* jobs, st: the bookings and the project that are committed. *)
MembershipCallOK(c, jobs, st) ==
    /\ c.op \in {"join", "replace", "add"} => st # Missing
    /\ c.op = "add" => c.old \subseteq c.new
    /\ c.op = "remove" => \E t \in Members :
                            /\ c.new = c.old \ {t}
                            /\ t \in Companies \/ Cardinality(c.managers) > 1
    /\ c.op = "delete" => /\ \A j \in Jobs : NotConfirmedFor(c.who, c.saw[j])
                          /\ \A j \in c.got : jobs[j] # Missing
    /\ c.op = "book" => jobs[c.job] = Missing
    /\ c.op \in {"edit", "bulk"} => jobs[c.job] # Missing
    /\ c.op = "edit" => c.new.company = c.old.company \/ c.new.company \in Companies

BookedOnce ==
    \A s, t \in Sessions :
        s # t /\ call[s].op = "book" /\ call[t].op = "book" => call[s].job # call[t].job

MembershipsInv ==
    /\ MembershipsTypeOK
    /\ status = Missing => \A x \in Members : rows[x] = 0
    /\ \A s \in Sessions : call[s] # Idle => MembershipCallOK(call[s], work, status)
    /\ BookedOnce

LEMMA MembershipCallOf ==
    ASSUME MembershipsInv, NEW s \in Sessions, NEW op, op # "none", call[s].op = op
    PROVE  call[s] # Idle /\ call[s] \in MembershipCall /\ MembershipCallOK(call[s], work, status)
BY DEF MembershipsInv, MembershipsTypeOK, Idle

(* One call changes; no booking of another call is written, and the project *)
(* stays.                                                                    *)
LEMMA MembershipCalls ==
    ASSUME MembershipsInv, NEW s \in Sessions, NEW c \in MembershipCall \cup {Idle},
           call' = [call EXCEPT ![s] = c],
           c # Idle => MembershipCallOK(c, work', status'),
           \A t \in Sessions : c.op = "book" /\ call[t].op = "book" => call[t].job # c.job,
           status # Missing => status' # Missing,
           \A j \in Jobs : work[j] = Missing =>
               work'[j] = Missing \/ (call[s].op = "book" /\ call[s].job = j),
           \A j \in Jobs : work[j] # Missing => work'[j] # Missing
    PROVE  /\ call' \in [Sessions -> MembershipCall \cup {Idle}]
           /\ \A t \in Sessions : call'[t] # Idle => MembershipCallOK(call'[t], work', status')
           /\ BookedOnce'
<1>1. call \in [Sessions -> MembershipCall \cup {Idle}]
  BY DEF MembershipsInv, MembershipsTypeOK
<1>2. \A t \in Sessions : call'[t] = IF t = s THEN c ELSE call[t]
  BY <1>1
<1>3. ASSUME NEW t \in Sessions, t # s, call[t] # Idle
      PROVE  MembershipCallOK(call[t], work', status')
  <2>1. call[t] \in MembershipCall /\ MembershipCallOK(call[t], work, status)
    BY <1>1, <1>3 DEF MembershipsInv
  <2>2. call[t].op = "book" => call[t].job \in Jobs /\ work'[call[t].job] = Missing
    BY <1>3, <2>1 DEF MembershipCallOK, MembershipCall, MembershipsInv, BookedOnce
  <2>3. call[t].op \in {"edit", "bulk"} => work'[call[t].job] # Missing
    BY <2>1 DEF MembershipCallOK, MembershipCall
  <2>4. call[t].op = "delete" => \A j \in call[t].got : work'[j] # Missing
    BY <2>1 DEF MembershipCallOK, MembershipCall
  <2> QED
    BY <2>1, <2>2, <2>3, <2>4 DEF MembershipCallOK
<1>4. BookedOnce'
  BY <1>2 DEF MembershipsInv, BookedOnce
<1>5. \A t \in Sessions : call'[t] # Idle => MembershipCallOK(call'[t], work', status')
  BY <1>2, <1>3
<1> QED
  BY <1>1, <1>4, <1>5

(* The same when a call ends. *)
LEMMA MembershipCallEnds ==
    ASSUME MembershipsInv, NEW s \in Sessions, Ends(s),
           status # Missing => status' # Missing,
           \A j \in Jobs : work[j] = Missing =>
               work'[j] = Missing \/ (call[s].op = "book" /\ call[s].job = j),
           \A j \in Jobs : work[j] # Missing => work'[j] # Missing
    PROVE  /\ call' \in [Sessions -> MembershipCall \cup {Idle}]
           /\ \A t \in Sessions : call'[t] # Idle => MembershipCallOK(call'[t], work', status')
           /\ BookedOnce'
<1> DEFINE c == Idle
<1>1. c \in MembershipCall \cup {Idle} /\ c = Idle /\ c.op # "book" /\ call' = [call EXCEPT ![s] = c]
  BY DEF Idle, Ends
<1> HIDE DEF c
<1> QED
  BY <1>1, MembershipCalls

(* The same when no call changes. *)
LEMMA MembershipAnswers ==
    ASSUME MembershipsInv, UNCHANGED call,
           status # Missing => status' # Missing,
           \A j \in Jobs : work[j] = Missing <=> work'[j] = Missing
    PROVE  /\ call' \in [Sessions -> MembershipCall \cup {Idle}]
           /\ \A t \in Sessions : call'[t] # Idle => MembershipCallOK(call'[t], work', status')
           /\ BookedOnce'
<1>1. call \in [Sessions -> MembershipCall \cup {Idle}]
  BY DEF MembershipsInv, MembershipsTypeOK
<1>2. ASSUME NEW t \in Sessions, call[t] # Idle
      PROVE  MembershipCallOK(call[t], work', status')
  <2>1. call[t] \in MembershipCall /\ MembershipCallOK(call[t], work, status)
    BY <1>1, <1>2 DEF MembershipsInv
  <2>2. call[t].op \in {"book", "edit", "bulk"} => call[t].job \in Jobs
    BY <2>1 DEF MembershipCall
  <2>3. call[t].op = "delete" => \A j \in call[t].got : work'[j] # Missing
    BY <2>1 DEF MembershipCallOK, MembershipCall
  <2> QED
    BY <2>1, <2>2, <2>3 DEF MembershipCallOK
<1>3. BookedOnce'
  BY DEF MembershipsInv, BookedOnce
<1>4. \A t \in Sessions : call'[t] # Idle => MembershipCallOK(call'[t], work', status')
  BY <1>2
<1> QED
  BY <1>1, <1>3, <1>4

(* A call that only reads. *)
LEMMA MembershipBegins ==
    ASSUME MembershipsInv, NEW s \in Sessions, NEW c \in MembershipCall, Begins(s, c),
           MembershipCallOK(c, work, status), UNCHANGED memberships,
           \A t \in Sessions : c.op = "book" /\ call[t].op = "book" => call[t].job # c.job
    PROVE  MembershipsInv'
<1>1. call' = [call EXCEPT ![s] = c] /\ UNCHANGED <<status, rows, role, live, gone, day, work>>
  BY DEF Begins, memberships
<1>2. /\ call' \in [Sessions -> MembershipCall \cup {Idle}]
      /\ \A t \in Sessions : call'[t] # Idle => MembershipCallOK(call'[t], work', status')
      /\ BookedOnce'
  BY <1>1, MembershipCalls
<1> QED
  BY <1>1, <1>2 DEF MembershipsInv, MembershipsTypeOK

(* A call that ends and writes neither the project nor a booking. *)
LEMMA MembershipEnds ==
    ASSUME MembershipsInv, NEW s \in Sessions, Ends(s), UNCHANGED <<status, work, role>>,
           rows' \in [Members -> Nat],
           status = Missing => \A x \in Members : rows'[x] = 0,
           live' \in SUBSET Members, gone' \in SUBSET Companies, day' \in Labels \cup {Missing}
    PROVE  MembershipsInv'
<1>1. /\ call' \in [Sessions -> MembershipCall \cup {Idle}]
      /\ \A t \in Sessions : call'[t] # Idle => MembershipCallOK(call'[t], work', status')
      /\ BookedOnce'
  BY MembershipCallEnds
<1> QED
  BY <1>1 DEF MembershipsInv, MembershipsTypeOK

(* What a call that writes the lists does to the rows. *)
LEMMA CommitListsRows ==
    ASSUME MembershipsInv, NEW s \in Sessions, CommitLists(s),
           call[s] \in MembershipCall, call[s].op \in {"replace", "add", "remove"}
    PROVE  /\ rows' \in [Members -> Nat]
           /\ \A x \in Members : x \notin call[s].old \ call[s].new => rows'[x] >= rows[x]
           /\ \A x \in Members : x \notin call[s].new \ call[s].old => rows'[x] \in {0, rows[x]}
           /\ Ends(s) /\ UNCHANGED <<status, role, live, gone, day, work>>
<1>1. rows \in [Members -> Nat]
  BY DEF MembershipsInv, MembershipsTypeOK
<1>2. rows' \in {Applied(call[s]), rows}
  BY DEF CommitLists
<1>3. CASE rows' = rows
  BY <1>1, <1>3 DEF CommitLists
<1>4. CASE rows' = Applied(call[s])
  BY <1>1, <1>4 DEF CommitLists, Applied
<1> QED
  BY <1>2, <1>3, <1>4

LEMMA ListsPreserve ==
    ASSUME MembershipsInv, NEW s \in Sessions, Replace(s) \/ Add(s) \/ Remove(s)
    PROVE  MembershipsInv'
<1>1. /\ call[s] \in MembershipCall /\ call[s].op \in {"replace", "add", "remove"}
      /\ MembershipCallOK(call[s], work, status)
      /\ CommitLists(s)
  BY MembershipCallOf DEF Replace, Add, Remove, At
<1>2. /\ rows' \in [Members -> Nat]
      /\ \A x \in Members : x \notin call[s].new \ call[s].old => rows'[x] \in {0, rows[x]}
      /\ Ends(s) /\ UNCHANGED <<status, role, live, gone, day, work>>
  BY <1>1, CommitListsRows
<1>3. status = Missing => \A x \in Members : rows'[x] = 0
  <2> SUFFICES ASSUME status = Missing
               PROVE  \A x \in Members : rows'[x] = 0
    OBVIOUS
  <2>1. call[s].op = "remove" /\ call[s].new \ call[s].old = {}
    BY <1>1 DEF MembershipCallOK
  <2> QED
    BY <1>2, <2>1 DEF MembershipsInv
<1> QED
  BY <1>2, <1>3, MembershipEnds DEF MembershipsInv, MembershipsTypeOK

(* A call that ends and writes bookings there are, or its own new one.      *)
LEMMA WorkWritten ==
    ASSUME MembershipsInv, NEW s \in Sessions, Ends(s), UNCHANGED <<status, rows, role, live, gone, day>>,
           work' \in [Jobs -> WorkRow \cup {Missing}],
           \A j \in Jobs : work[j] = Missing =>
               work'[j] = Missing \/ (call[s].op = "book" /\ call[s].job = j),
           \A j \in Jobs : work[j] # Missing => work'[j] # Missing
    PROVE  MembershipsInv'
<1>1. /\ call' \in [Sessions -> MembershipCall \cup {Idle}]
      /\ \A t \in Sessions : call'[t] # Idle => MembershipCallOK(call'[t], work', status')
      /\ BookedOnce'
  BY MembershipCallEnds
<1> QED
  BY <1>1 DEF MembershipsInv, MembershipsTypeOK

(* A call that goes on and writes nothing. *)
LEMMA MembershipGoesOn ==
    ASSUME MembershipsInv, NEW s \in Sessions, NEW c \in MembershipCall \cup {Idle},
           call' = [call EXCEPT ![s] = c], UNCHANGED memberships, c.op # "book",
           c # Idle => MembershipCallOK(c, work, status)
    PROVE  MembershipsInv'
<1>1. UNCHANGED <<status, rows, role, live, gone, day, work>>
  BY DEF memberships
<1>2. /\ call' \in [Sessions -> MembershipCall \cup {Idle}]
      /\ \A t \in Sessions : call'[t] # Idle => MembershipCallOK(call'[t], work', status')
      /\ BookedOnce'
  BY <1>1, MembershipCalls
<1> QED
  BY <1>1, <1>2 DEF MembershipsInv, MembershipsTypeOK

LEMMA JoinPreserves ==
    ASSUME MembershipsInv, NEW s \in Sessions, Join(s)
    PROVE  MembershipsInv'
<1> DEFINE new == Listed \cup call[s].new
           c == IF call[s].new \subseteq Listed THEN Idle ELSE Change("add", new)
<1>1. /\ status # Missing /\ call[s] \in MembershipCall /\ call[s].op = "join"
      /\ call \in [Sessions -> MembershipCall \cup {Idle}]
  BY MembershipCallOf DEF Join, At, MembershipCallOK, MembershipsInv, MembershipsTypeOK
<1>2. new \in SUBSET Members /\ Listed \in SUBSET Members /\ Managing \in SUBSET Users
  BY <1>1 DEF MembershipCall, Listed, Managing, Members
<1> HIDE DEF new
<1>3. Change("add", new) \in MembershipCall
  BY <1>2 DEF Change, MembershipCall
<1>4. MembershipCallOK(Change("add", new), work, status)
  BY <1>1 DEF Change, MembershipCallOK, new
<1>5. c \in MembershipCall \cup {Idle} /\ c.op # "book" /\ (c # Idle => MembershipCallOK(c, work, status))
  BY <1>3, <1>4 DEF Idle, Change
<1>6. call' = [call EXCEPT ![s] = c] /\ UNCHANGED memberships
  BY <1>1 DEF Join, new
<1> HIDE DEF c
<1> QED
  BY <1>5, <1>6, MembershipGoesOn

LEMMA BookPreserves ==
    ASSUME MembershipsInv, NEW s \in Sessions, Book(s)
    PROVE  MembershipsInv'
<1>1. /\ call[s] \in MembershipCall /\ call[s].op = "book"
  BY MembershipCallOf DEF Book, At
<1>2. call[s].job \in Jobs /\ call[s].new \in WorkRow /\ call[s].new # Missing
  BY <1>1, MembershipsAssumption DEF MembershipCall
<1>3. /\ work' \in [Jobs -> WorkRow \cup {Missing}]
      /\ \A j \in Jobs : work'[j] = work[j] \/ (j = call[s].job /\ work'[j] # Missing)
  BY <1>2 DEF Book, MembershipsInv, MembershipsTypeOK
<1> QED
  BY <1>1, <1>3, WorkWritten DEF Book

(* What an edit writes is a row. *)
LEMMA EditedRow ==
    ASSUME MembershipsInv, NEW s \in Sessions, call[s].op = "edit"
    PROVE  /\ call[s].job \in Jobs /\ call[s].old \in WorkRow /\ call[s].new \in WorkRow
           /\ work[call[s].job] \in WorkRow /\ Edited(call[s]) \in WorkRow
           /\ Edited(call[s]) # Missing
<1>1. /\ call[s] \in MembershipCall /\ call[s].op = "edit" /\ MembershipCallOK(call[s], work, status)
  BY MembershipCallOf
<1>2. call[s].job \in Jobs /\ call[s].old \in WorkRow /\ call[s].new \in WorkRow
  BY <1>1 DEF MembershipCall
<1>3. work[call[s].job] \in WorkRow
  BY <1>1, <1>2 DEF MembershipCallOK, MembershipsInv, MembershipsTypeOK
<1>4. Edited(call[s]) \in WorkRow
  BY <1>2, <1>3 DEF Edited, WorkRow
<1> QED
  BY <1>2, <1>3, <1>4, MembershipsAssumption

LEMMA EditPreserves ==
    ASSUME MembershipsInv, NEW s \in Sessions, Edit(s)
    PROVE  MembershipsInv'
<1> DEFINE row == Edited(call[s])
<1>1. call[s].job \in Jobs /\ row \in WorkRow /\ row # Missing /\ work[call[s].job] \in WorkRow
  BY EditedRow DEF Edit, At
<1>2. work' = work \/ work' = [work EXCEPT ![call[s].job] = row]
  BY DEF Edit
<1> HIDE DEF row
<1>3. /\ work' \in [Jobs -> WorkRow \cup {Missing}]
      /\ \A j \in Jobs : work'[j] = work[j] \/ (j = call[s].job /\ work'[j] # Missing)
  BY <1>1, <1>2 DEF MembershipsInv, MembershipsTypeOK
<1>4. work[call[s].job] # Missing
  BY <1>1, MembershipsAssumption
<1> QED
  BY <1>3, <1>4, WorkWritten DEF Edit

LEMMA ReschedulePreserves ==
    ASSUME MembershipsInv, NEW s \in Sessions, Reschedule(s)
    PROVE  MembershipsInv'
<1> DEFINE row == [work[call[s].job] EXCEPT !.company = call[s].who]
<1>1. /\ call[s] \in MembershipCall /\ call[s].op = "bulk" /\ MembershipCallOK(call[s], work, status)
  BY MembershipCallOf DEF Reschedule, At
<1>2. call[s].job \in Jobs /\ call[s].who \in Companies /\ work[call[s].job] # Missing
  BY <1>1 DEF MembershipCall, MembershipCallOK
<1>3. work[call[s].job] \in WorkRow
  BY <1>2 DEF MembershipsInv, MembershipsTypeOK
<1>4. row \in WorkRow /\ row # Missing
  <2>1. row \in WorkRow
    BY <1>2, <1>3 DEF WorkRow
  <2> QED
    BY <2>1, MembershipsAssumption
<1>5. work' = work \/ work' = [work EXCEPT ![call[s].job] = row]
  BY DEF Reschedule
<1> HIDE DEF row
<1>6. /\ work' \in [Jobs -> WorkRow \cup {Missing}]
      /\ \A j \in Jobs : work'[j] = work[j] \/ (j = call[s].job /\ work'[j] # Missing)
  BY <1>2, <1>4, <1>5 DEF MembershipsInv, MembershipsTypeOK
<1> QED
  BY <1>2, <1>6, WorkWritten DEF Reschedule

LEMMA GatherPreserves ==
    ASSUME MembershipsInv, NEW s \in Sessions, Gather(s)
    PROVE  MembershipsInv'
<1> DEFINE got == WorkOf(call[s].who)
           listed == rows[call[s].who] > 0
           next == [call[s] EXCEPT !.at = "commit", !.got = got, !.listed = listed]
           c == IF call[s].who \in gone THEN Idle ELSE next
<1>1. /\ call[s] \in MembershipCall /\ call[s].op = "delete" /\ MembershipCallOK(call[s], work, status)
      /\ call \in [Sessions -> MembershipCall \cup {Idle}]
  BY MembershipCallOf DEF Gather, At, MembershipsInv, MembershipsTypeOK
<1>2. call[s] \in [op : {"delete"}, at : {"gather", "commit"}, who : Companies,
                   saw : [Jobs -> WorkRow \cup {Missing}], got : SUBSET Jobs, listed : BOOLEAN]
  BY <1>1 DEF MembershipCall
<1>3. got \in SUBSET Jobs /\ (\A j \in got : work[j] # Missing) /\ listed \in BOOLEAN
  BY DEF WorkOf
<1>4. call' = [call EXCEPT ![s] = c] /\ UNCHANGED memberships
  BY <1>1 DEF Gather
<1> HIDE DEF got, listed
<1>5. next \in [op : {"delete"}, at : {"gather", "commit"}, who : Companies,
                saw : [Jobs -> WorkRow \cup {Missing}], got : SUBSET Jobs, listed : BOOLEAN]
  BY <1>2, <1>3
<1>6. next.op = "delete" /\ next.who = call[s].who /\ next.saw = call[s].saw /\ next.got = got
  BY <1>2
<1> HIDE DEF next
<1>7. MembershipCallOK(next, work, status) /\ next \in MembershipCall
  BY <1>1, <1>3, <1>5, <1>6 DEF MembershipCallOK, MembershipCall
<1>8. c \in MembershipCall \cup {Idle} /\ c.op # "book" /\ (c # Idle => MembershipCallOK(c, work, status))
  BY <1>6, <1>7 DEF Idle
<1> HIDE DEF c
<1> QED
  BY <1>4, <1>8, MembershipGoesOn

LEMMA DeletePreserves ==
    ASSUME MembershipsInv, NEW s \in Sessions, Delete(s)
    PROVE  MembershipsInv'
<1> DEFINE x == call[s].who
           got == call[s].got
           kept == [j \in Jobs |-> IF j \in got THEN [work[j] EXCEPT !.company = Missing] ELSE work[j]]
<1>1. /\ x \in Companies /\ x \in Members /\ call[s].op = "delete"
      /\ \A j \in got : work[j] # Missing
  BY MembershipCallOf DEF Delete, At, MembershipCall, MembershipCallOK, Members
<1>2. CASE UNCHANGED memberships
  BY <1>2, MembershipEnds DEF Delete, memberships, MembershipsInv, MembershipsTypeOK
<1>3. CASE ~UNCHANGED memberships
  <2>1. /\ gone' = gone \cup {x} /\ live' = live \ {x} /\ rows' = [rows EXCEPT ![x] = 0]
        /\ work' = kept /\ UNCHANGED <<status, role, day>> /\ call' = [call EXCEPT ![s] = Idle]
    BY <1>3 DEF Delete, Ends
  <2>2. \A j \in got \cap Jobs : [work[j] EXCEPT !.company = Missing] \in WorkRow
    <3> SUFFICES ASSUME NEW j \in got \cap Jobs
                 PROVE  [work[j] EXCEPT !.company = Missing] \in WorkRow
      OBVIOUS
    <3>1. work[j] \in WorkRow
      BY <1>1 DEF MembershipsInv, MembershipsTypeOK
    <3> QED
      BY <3>1 DEF WorkRow
  <2>3. kept \in [Jobs -> WorkRow \cup {Missing}]
    BY <2>2 DEF MembershipsInv, MembershipsTypeOK
  <2>4. \A j \in Jobs : work[j] = Missing <=> kept[j] = Missing
    BY <1>1, <2>2, MembershipsAssumption
  <2> HIDE DEF kept
  <2>5. /\ call' \in [Sessions -> MembershipCall \cup {Idle}]
        /\ \A t \in Sessions : call'[t] # Idle => MembershipCallOK(call'[t], work', status')
        /\ BookedOnce'
    BY <2>1, <2>4, MembershipCallEnds DEF Delete
  <2>6. rows' \in [Members -> Nat] /\ (status = Missing => \A y \in Members : rows'[y] = 0)
    BY <1>1, <2>1 DEF MembershipsInv, MembershipsTypeOK
  <2> QED
    BY <1>1, <2>1, <2>3, <2>5, <2>6 DEF MembershipsInv, MembershipsTypeOK
<1> QED
  BY <1>2, <1>3

LEMMA WriteDayPreserves ==
    ASSUME MembershipsInv, NEW s \in Sessions, WriteDay(s)
    PROVE  MembershipsInv'
<1>1. call[s] \in MembershipCall /\ call[s].op = "day"
  BY MembershipCallOf DEF WriteDay, At
<1>2. day' \in Labels \cup {Missing}
  BY <1>1 DEF WriteDay, MembershipCall, MembershipsInv, MembershipsTypeOK
<1> QED
  BY <1>2, MembershipEnds DEF WriteDay, MembershipsInv, MembershipsTypeOK

LEMMA MembershipReadsPreserve ==
    ASSUME MembershipsInv, NEW s \in Sessions,
           \/ ReadLists(s) \/ CheckNew(s) \/ CheckManager(s) \/ CheckCompany(s)
           \/ CheckMembers(s) \/ ReadWork(s) \/ CheckBulk(s) \/ CountWork(s) \/ ReadDay(s)
    PROVE  MembershipsInv'
<1>1. Listed \in SUBSET Members /\ Managing \in SUBSET Users
  BY DEF Listed, Managing
<1>2. \A x \in Listed : status # Missing
  BY DEF Listed, MembershipsInv
<1>3. UNCHANGED memberships
  BY DEF ReadLists, CheckNew, CheckManager, CheckCompany, CheckMembers, ReadWork,
         CheckBulk, CountWork, ReadDay
<1>4. ASSUME NEW op \in {"replace", "add", "remove"}, NEW M \in SUBSET Members,
             Begins(s, Change(op, M)), op # "remove" => status # Missing,
             op = "add" => Listed \subseteq M,
             op = "remove" => \E t \in Members : /\ M = Listed \ {t}
                                                 /\ t \in Companies \/ Cardinality(Managing) > 1
      PROVE  MembershipsInv'
  <2> DEFINE c == Change(op, M)
  <2>1. c \in MembershipCall /\ c.op = op
    BY <1>1 DEF Change, MembershipCall
  <2>2. MembershipCallOK(c, work, status)
    BY <1>4 DEF MembershipCallOK, Change
  <2> HIDE DEF c
  <2>3. Begins(s, c)
    BY <1>4 DEF c
  <2> QED
    BY <1>3, <2>1, <2>2, <2>3, MembershipBegins
<1>5. /\ \A u \in Users : MayManage(u) => status # Missing
      /\ Managed => status # Missing
  BY DEF MayManage, Managed
<1>6. CASE ReadLists(s)
  <2>1. PICK M \in Lists : Begins(s, Change("replace", M))
    BY <1>6 DEF ReadLists
  <2>2. M \in SUBSET Members
    BY <2>1, MembershipsAssumption DEF Members
  <2> QED
    BY <1>4, <1>5, <1>6, <2>1, <2>2 DEF ReadLists
<1>7. CASE CheckNew(s)
  BY <1>1, <1>4, <1>5, <1>7 DEF CheckNew
<1>8. CASE CheckManager(s)
  BY <1>1, <1>4, <1>5, <1>8 DEF CheckManager, Counted
<1>9. CASE CheckCompany(s)
  BY <1>1, <1>4, <1>5, <1>9 DEF CheckCompany
<1>10. CASE CheckMembers(s)
  <2>1. PICK j \in Jobs, x \in (Listed \cap Companies) \cup {Missing}, st \in {"pending", "confirmed"} :
          /\ work[j] = Missing
          /\ \A t \in Sessions : call[t].op = "book" => call[t].job # j
          /\ Begins(s, [op |-> "book", at |-> "commit", job |-> j,
                        new |-> [company |-> x, status |-> st]])
    BY <1>10 DEF CheckMembers
  <2> DEFINE c == [op |-> "book", at |-> "commit", job |-> j,
                   new |-> [company |-> x, status |-> st]]
  <2>2. c \in MembershipCall /\ MembershipCallOK(c, work, status) /\ c.op = "book" /\ c.job = j
    BY <2>1 DEF MembershipCall, WorkRow, MembershipCallOK
  <2> QED
    BY <1>3, <2>1, <2>2, MembershipBegins
<1>11. CASE CountWork(s)
  <2>1. PICK x \in Companies :
          /\ ConfirmedFor(x) = {}
          /\ Begins(s, [op |-> "delete", at |-> "gather", who |-> x, saw |-> work,
                        got |-> {}, listed |-> FALSE])
    BY <1>11 DEF CountWork
  <2> DEFINE c == [op |-> "delete", at |-> "gather", who |-> x, saw |-> work,
                   got |-> {}, listed |-> FALSE]
  <2>2. \A j \in Jobs : NotConfirmedFor(x, work[j])
    BY <2>1 DEF ConfirmedFor, WorkOf, NotConfirmedFor
  <2>3. c \in MembershipCall /\ c.op = "delete"
    BY DEF MembershipCall, MembershipsInv, MembershipsTypeOK
  <2>4. MembershipCallOK(c, work, status)
    BY <2>2 DEF MembershipCallOK
  <2> QED
    BY <1>3, <2>1, <2>3, <2>4, MembershipBegins
<1>12. CASE ReadDay(s)
  <2>1. PICK l \in Labels :
          Begins(s, [op |-> "day", at |-> "commit", old |-> day, new |-> l])
    BY <1>12 DEF ReadDay
  <2> DEFINE c == [op |-> "day", at |-> "commit", old |-> day, new |-> l]
  <2>2. c \in MembershipCall /\ MembershipCallOK(c, work, status) /\ c.op = "day"
    BY DEF MembershipCall, MembershipCallOK, MembershipsInv, MembershipsTypeOK
  <2> QED
    BY <1>3, <2>1, <2>2, MembershipBegins
<1>13. CASE ReadWork(s)
  <2>1. PICK j \in Jobs, x \in Listed \cap Companies, st \in {"pending", "confirmed", "closed"} :
          /\ work[j] # Missing
          /\ \E new \in {[work[j] EXCEPT !.status = st], [company |-> x, status |-> st]} :
               Begins(s, [op |-> "edit", at |-> "commit", job |-> j, old |-> work[j], new |-> new])
    BY <1>13 DEF ReadWork
  <2>2. work[j] \in WorkRow
    BY <2>1 DEF MembershipsInv, MembershipsTypeOK
  <2>3. /\ [work[j] EXCEPT !.status = st] \in WorkRow /\ [company |-> x, status |-> st] \in WorkRow
        /\ [work[j] EXCEPT !.status = st].company = work[j].company
        /\ [company |-> x, status |-> st].company \in Companies
    BY <2>2 DEF WorkRow
  <2>4. PICK new \in WorkRow :
          /\ new.company = work[j].company \/ new.company \in Companies
          /\ Begins(s, [op |-> "edit", at |-> "commit", job |-> j, old |-> work[j], new |-> new])
    BY <2>1, <2>3
  <2> DEFINE c == [op |-> "edit", at |-> "commit", job |-> j, old |-> work[j], new |-> new]
  <2>5. c \in MembershipCall /\ MembershipCallOK(c, work, status) /\ c.op = "edit"
    BY <2>1, <2>2, <2>4 DEF MembershipCall, MembershipCallOK
  <2> QED
    BY <1>3, <2>4, <2>5, MembershipBegins
<1>14. CASE CheckBulk(s)
  <2>1. PICK j \in Jobs, x \in Companies :
          work[j] # Missing /\ Begins(s, [op |-> "bulk", at |-> "commit", job |-> j, who |-> x])
    BY <1>14 DEF CheckBulk
  <2> DEFINE c == [op |-> "bulk", at |-> "commit", job |-> j, who |-> x]
  <2>2. c \in MembershipCall /\ MembershipCallOK(c, work, status) /\ c.op = "bulk"
    BY <2>1 DEF MembershipCall, MembershipCallOK
  <2> QED
    BY <1>3, <2>1, <2>2, MembershipBegins
<1> QED
  BY <1>6, <1>7, <1>8, <1>9, <1>10, <1>11, <1>12, <1>13, <1>14

LEMMA MembershipAnswersPreserve ==
    ASSUME MembershipsInv, NEW s \in Sessions,
           \/ Create(s) \/ Archive(s) \/ SetRole(s) \/ SetActive(s) \/ DeleteDay(s)
    PROVE  MembershipsInv'
<1>1. CASE Create(s)
  <2>1. PICK u \in Users, M \in Lists :
          /\ status' = "active"
          /\ rows' = [x \in Members |-> IF x \in M THEN 1 ELSE 0]
          /\ \/ Begins(s, [op |-> "join", at |-> "read", new |-> {u}])
             \/ Answers(s)
          /\ UNCHANGED <<role, live, gone, day, work>>
    BY <1>1 DEF Create
  <2> DEFINE c == [op |-> "join", at |-> "read", new |-> {u}]
  <2>2. status' # Missing
    BY <2>1, MembershipsAssumption
  <2>3. c \in MembershipCall /\ MembershipCallOK(c, work', status') /\ c.op = "join"
    BY <2>2 DEF MembershipCall, MembershipCallOK
  <2>4. call' = [call EXCEPT ![s] = c] \/ call' = call
    BY <2>1 DEF Begins, Answers
  <2> HIDE DEF c
  <2>5. /\ call' \in [Sessions -> MembershipCall \cup {Idle}]
        /\ \A t \in Sessions : call'[t] # Idle => MembershipCallOK(call'[t], work', status')
        /\ BookedOnce'
    <3>1. CASE call' = call
      BY <2>1, <2>2, <3>1, MembershipAnswers
    <3>2. CASE call' = [call EXCEPT ![s] = c]
      BY <2>1, <2>2, <2>3, <3>2, MembershipCalls
    <3> QED
      BY <2>4, <3>1, <3>2
  <2> QED
    BY <2>1, <2>2, <2>5 DEF MembershipsInv, MembershipsTypeOK
<1>2. CASE Archive(s)
  <2>1. status' = "cancelled" /\ status # Missing /\ UNCHANGED <<rows, role, live, gone, day, work, call>>
    BY <1>2 DEF Archive, Managed, MayManage, Answers
  <2>2. status' # Missing
    BY <2>1, MembershipsAssumption
  <2>3. /\ call' \in [Sessions -> MembershipCall \cup {Idle}]
        /\ \A t \in Sessions : call'[t] # Idle => MembershipCallOK(call'[t], work', status')
        /\ BookedOnce'
    BY <2>1, <2>2, MembershipAnswers
  <2> QED
    BY <2>1, <2>2, <2>3 DEF MembershipsInv, MembershipsTypeOK
<1>3. ASSUME UNCHANGED <<status, rows, gone, call, work>>,
             role' \in [Users -> {"manager", "admin", "tv"}],
             live' \in SUBSET Members, day' \in Labels \cup {Missing}
      PROVE  MembershipsInv'
  <2>1. /\ call' \in [Sessions -> MembershipCall \cup {Idle}]
        /\ \A t \in Sessions : call'[t] # Idle => MembershipCallOK(call'[t], work', status')
        /\ BookedOnce'
    BY <1>3, MembershipAnswers
  <2> QED
    BY <1>3, <2>1 DEF MembershipsInv, MembershipsTypeOK
<1>4. MembershipsTypeOK
  BY DEF MembershipsInv
<1>5. CASE SetRole(s)
  BY <1>3, <1>4, <1>5 DEF SetRole, Answers, MembershipsTypeOK
<1>6. CASE SetActive(s)
  <2>1. PICK x \in Members : live' = IF x \in live THEN live \ {x} ELSE live \cup {x}
    BY <1>6 DEF SetActive
  <2>2. live' \in SUBSET Members
    BY <1>4, <2>1 DEF MembershipsTypeOK
  <2> QED
    BY <1>3, <1>4, <1>6, <2>2 DEF SetActive, Answers, MembershipsTypeOK
<1>7. CASE DeleteDay(s)
  BY <1>3, <1>4, <1>7 DEF DeleteDay, Answers, MembershipsTypeOK
<1> QED
  BY <1>1, <1>2, <1>5, <1>6, <1>7

(* In every state the lists, the calls that change them and the bookings    *)
(* they look at are consistent.                                              *)
THEOREM MembershipsConsistent == MembershipsSpec => []MembershipsInv
<1>1. OfficeInit /\ MembershipsInit => MembershipsInv
  <2> SUFFICES ASSUME OfficeInit, MembershipsInit
               PROVE  MembershipsInv
    OBVIOUS
  <2>1. MembershipsTypeOK
    BY MembershipsAssumption DEF OfficeInit, MembershipsInit, MembershipsTypeOK, Members
  <2>2. status = Missing => \A x \in Members : rows[x] = 0
    BY MembershipsAssumption DEF MembershipsInit
  <2> QED
    BY <2>1, <2>2 DEF OfficeInit, MembershipsInv, BookedOnce, Idle
<1>2. MembershipsInv /\ [MembershipsNext]_<<office, memberships>> => MembershipsInv'
  <2> SUFFICES ASSUME MembershipsInv, [MembershipsNext]_<<office, memberships>>
               PROVE  MembershipsInv'
    OBVIOUS
  <2>1. CASE UNCHANGED <<office, memberships>>
    BY <2>1 DEF office, memberships, MembershipsInv, MembershipsTypeOK, BookedOnce
  <2>2. CASE MembershipsNext
    BY <2>2, ListsPreserve, JoinPreserves, BookPreserves, EditPreserves, ReschedulePreserves,
       GatherPreserves, DeletePreserves, WriteDayPreserves, MembershipReadsPreserve, MembershipAnswersPreserve
    DEF MembershipsNext
  <2> QED
    BY <2>1, <2>2
<1> QED
  BY <1>1, <1>2, PTL DEF MembershipsSpec

(* Another manager is left by a removal that saw the managers there are.    *)
LEMMA RemoveLeavesAManager ==
    ASSUME MembershipsInv, NEW s \in Sessions, Remove(s),
           call[s].managers = Managing, HasManager
    PROVE  HasManager'
<1>1. /\ call[s] \in MembershipCall /\ call[s].op = "remove"
      /\ MembershipCallOK(call[s], work, status) /\ CommitLists(s)
  BY MembershipCallOf DEF Remove, At
<1>2. /\ \A x \in Members : x \notin call[s].old \ call[s].new => rows'[x] >= rows[x]
      /\ rows' \in [Members -> Nat] /\ role' = role
  BY <1>1, CommitListsRows
<1>3. PICK t \in Members : /\ call[s].new = call[s].old \ {t}
                           /\ t \in Companies \/ Cardinality(Managing) > 1
  BY <1>1 DEF MembershipCallOK
<1>4. PICK u \in Managing : u # t
  <2>1. CASE t \in Companies
    BY <2>1, MembershipsAssumption DEF HasManager, Managing
  <2>2. CASE Cardinality(Managing) > 1
    <3> SUFFICES ASSUME Managing \subseteq {t}
                 PROVE  FALSE
      OBVIOUS
    <3>1. Managing = {t}
      BY DEF HasManager
    <3>2. Cardinality({t}) = 1
      BY FS_Singleton
    <3> QED
      BY <2>2, <3>1, <3>2
  <2> QED
    BY <1>3, <2>1, <2>2
<1>5. u \in Members /\ rows[u] > 0 /\ rows[u] \in Nat
  BY DEF Managing, Members, MembershipsInv, MembershipsTypeOK
<1>6. rows'[u] > 0
  <2>1. rows'[u] >= rows[u] /\ rows'[u] \in Nat
    BY <1>2, <1>3, <1>4, <1>5
  <2> QED
    BY <1>5, <2>1
<1> QED
  BY <1>2, <1>4, <1>6 DEF HasManager, Managing

(* A project loses its last manager only to a change of role, a list that   *)
(* names none, or a removal whose check was overtaken.                       *)
THEOREM ProjectsKeepManagers == MembershipsSpec => ManagersStay
<1> DEFINE Lost == \/ role' # role
                   \/ \E s \in Sessions : \/ Replace(s)
                                          \/ Remove(s) /\ call[s].managers # Managing
<1>1. MembershipsInv /\ [MembershipsNext]_<<office, memberships>>
        => [HasManager /\ ~HasManager' => Lost]_<<office, memberships>>
  <2> SUFFICES ASSUME MembershipsInv, MembershipsNext, HasManager, ~Lost
               PROVE  HasManager'
    OBVIOUS
  <2>1. role' = role
    OBVIOUS
  <2>2. PICK u \in Managing : TRUE
    BY DEF HasManager
  <2>3. u \in Users /\ u \in Members /\ rows[u] > 0 /\ rows[u] \in Nat
    BY DEF Managing, Members, MembershipsInv, MembershipsTypeOK
  <2>4. ASSUME rows'[u] \in Nat, rows'[u] >= rows[u]
        PROVE  HasManager'
    BY <2>1, <2>2, <2>3, <2>4 DEF HasManager, Managing
  <2>5. status # Missing
    BY <2>3 DEF MembershipsInv
  <2>6. CASE rows' = rows
    BY <2>3, <2>4, <2>6
  <2>7. ASSUME NEW s \in Sessions, Add(s)
        PROVE  HasManager'
    <3>1. /\ call[s] \in MembershipCall /\ call[s].op = "add" /\ call[s].old \subseteq call[s].new
          /\ CommitLists(s)
      BY <2>7, MembershipCallOf DEF Add, At, MembershipCallOK
    <3> QED
      BY <2>3, <2>4, <3>1, CommitListsRows
  <2>9. ASSUME NEW s \in Sessions, Remove(s)
        PROVE  HasManager'
    BY <2>9, RemoveLeavesAManager
  <2>10. ASSUME NEW s \in Sessions, Delete(s)
         PROVE  HasManager'
    <3>1. call[s].who # u
      BY <2>3, <2>10, MembershipCallOf, MembershipsAssumption DEF Delete, At, MembershipCall
    <3>2. rows' = rows \/ rows' = [rows EXCEPT ![call[s].who] = 0]
      BY <2>10 DEF Delete, memberships
    <3>3. rows'[u] = rows[u]
      BY <3>1, <3>2, <2>3 DEF MembershipsInv, MembershipsTypeOK
    <3> QED
      BY <2>3, <2>4, <3>3
  <2>11. PICK s \in Sessions :
           \/ rows' = rows \/ Create(s) \/ Replace(s) \/ Add(s) \/ Remove(s) \/ Delete(s)
    BY DEF MembershipsNext, memberships, Join, Archive, ReadLists, CheckNew, CheckManager, CheckCompany,
           SetRole, SetActive, CheckMembers, Book, ReadWork, Edit, CheckBulk, Reschedule, CountWork,
           Gather, ReadDay, WriteDay, DeleteDay
  <2>12. ~Create(s)
    BY <2>5 DEF Create
  <2> QED
    BY <2>6, <2>7, <2>9, <2>10, <2>11, <2>12
<1> QED
  BY <1>1, MembershipsConsistent, PTL DEF MembershipsSpec, ManagersStay

(* A deletion that takes the company of confirmed work was overtaken.       *)
LEMMA DeletionsAreOvertaken ==
    ASSUME MembershipsInv, NEW s \in Sessions, Delete(s), NEW j \in Jobs,
           work[j] # Missing, work[j].status = "confirmed"
    PROVE  call[s].saw[j] # work[j] \/ call[s].who # work[j].company
<1>1. call[s].op = "delete" /\ MembershipCallOK(call[s], work, status)
  BY MembershipCallOf DEF Delete, At
<1>2. NotConfirmedFor(call[s].who, call[s].saw[j])
  BY <1>1 DEF MembershipCallOK
<1> QED
  BY <1>2 DEF NotConfirmedFor

(* An edit writes the company of a booking only to name one there is.       *)
LEMMA EditsName ==
    ASSUME MembershipsInv, NEW s \in Sessions, Edit(s), NEW j \in Jobs,
           work[j] # Missing, work'[j].company # work[j].company
    PROVE  work'[j].company \in Companies \ gone
<1>1. /\ call[s].job \in Jobs /\ call[s].old \in WorkRow /\ call[s].new \in WorkRow
      /\ work \in [Jobs -> WorkRow \cup {Missing}]
  BY EditedRow DEF Edit, At, MembershipsInv, MembershipsTypeOK
<1>2. /\ work' = [work EXCEPT ![call[s].job] = Edited(call[s])] /\ j = call[s].job
      /\ call[s].new.company # call[s].old.company => call[s].new.company \notin gone
  BY <1>1 DEF Edit
<1>3. work'[j].company = Edited(call[s]).company
  BY <1>1, <1>2
<1>4. call[s].new.company = call[s].old.company \/ call[s].new.company \in Companies
  BY MembershipCallOf DEF Edit, At, MembershipCallOK
<1>5. Edited(call[s]).company = IF call[s].new.company = call[s].old.company THEN work[j].company
                                ELSE call[s].new.company
  BY <1>2 DEF Edited
<1> QED
  BY <1>2, <1>3, <1>4, <1>5

(* Confirmed work changes its company only to one that exists, and loses it *)
(* only to a deletion that was overtaken by the booking's confirmation or by *)
(* its move.                                                                 *)
THEOREM ConfirmedWorkStays == MembershipsSpec => WorkKeepsCompany
<1>1. MembershipsInv /\ [MembershipsNext]_<<office, memberships>>
        => [\A j \in Jobs :
              /\ work[j] # Missing /\ work[j].status = "confirmed" /\ work[j].company # Missing
              /\ work'[j].company # work[j].company
              => \E s \in Sessions :
                   \/ (Edit(s) \/ Reschedule(s)) /\ work'[j].company \in Companies \ gone
                   \/ Delete(s) /\ (call[s].saw[j] # work[j] \/ call[s].who # work[j].company)
           ]_<<office, memberships>>
  <2> SUFFICES ASSUME MembershipsInv, MembershipsNext, NEW j \in Jobs, work[j] # Missing,
                      work[j].status = "confirmed", work'[j].company # work[j].company
               PROVE  \E s \in Sessions :
                        \/ (Edit(s) \/ Reschedule(s)) /\ work'[j].company \in Companies \ gone
                        \/ Delete(s) /\ (call[s].saw[j] # work[j] \/ call[s].who # work[j].company)
    OBVIOUS
  <2>1. work \in [Jobs -> WorkRow \cup {Missing}]
    BY DEF MembershipsInv, MembershipsTypeOK
  <2>2. work' # work
    OBVIOUS
  <2>3. PICK s \in Sessions : Book(s) \/ Edit(s) \/ Reschedule(s) \/ Delete(s)
    BY <2>2 DEF MembershipsNext, memberships, Create, Join, Archive, ReadLists, Replace, CheckNew, Add,
           CheckManager, CheckCompany, Remove, CommitLists, SetRole, SetActive, CheckMembers, ReadWork,
           CheckBulk, CountWork, Gather, ReadDay, WriteDay, DeleteDay
  <2>4. ~Book(s)
    <3> SUFFICES ASSUME Book(s)
                 PROVE  FALSE
      OBVIOUS
    <3>1. work[call[s].job] = Missing
      BY MembershipCallOf DEF Book, At, MembershipCallOK
    <3> QED
      BY <2>1, <3>1 DEF Book
  <2>5. CASE Edit(s)
    BY <2>5, EditsName
  <2>6. CASE Reschedule(s)
    <3>1. /\ call[s].who \in Companies /\ call[s].job \in Jobs
      BY <2>6, MembershipCallOf DEF Reschedule, At, MembershipCall
    <3>2. /\ work' = [work EXCEPT ![call[s].job].company = call[s].who] /\ call[s].who \notin gone
          /\ j = call[s].job
      BY <2>1, <2>6, <3>1 DEF Reschedule
    <3>3. work[j] \in WorkRow
      BY <2>1
    <3>4. work'[j].company = call[s].who
      BY <2>1, <3>1, <3>2, <3>3 DEF WorkRow
    <3> QED
      BY <2>6, <3>1, <3>2, <3>4
  <2>7. CASE Delete(s)
    BY <2>7, DeletionsAreOvertaken
  <2> QED
    BY <2>3, <2>4, <2>5, <2>6, <2>7
<1> QED
  BY <1>1, MembershipsConsistent, PTL DEF MembershipsSpec, WorkKeepsCompany

-----------------------------------------------------------------------------
(* Tokens: what a process revoked is a token that was issued, and it is in  *)
(* the blacklist of the process or as good as expired.                       *)

TokenRow == [type : {"access", "refresh", "reset", "verify"}, of : Accounts, exp : Nat]

TokenCall == [op : {"refresh", "logout", "change", "reset"},
              at : {"rotate", "revoke", "write", "activate"},
              in : Processes, token : TokenIds, of : Accounts]

TokensTypeOK ==
    /\ now \in Nat /\ DOMAIN account = Accounts
    /\ token \in [TokenIds -> TokenRow \cup {None}]
    /\ blacklist \in [Processes -> SUBSET TokenIds]
    /\ revoked \in [Processes -> SUBSET TokenIds]
    /\ call \in [Sessions -> TokenCall \cup {Idle}]

Forgotten(p, k) == k \in blacklist[p] \/ now >= 2 * token[k].exp

TokensInv ==
    /\ TokensTypeOK
    /\ \A p \in Processes : \A k \in revoked[p] : token[k] # None /\ Forgotten(p, k)
    /\ \A s \in Sessions : call[s] # Idle => token[call[s].token] # None

LEMMA TokenCallOf ==
    ASSUME TokensInv, NEW s \in Sessions, NEW op, op # "none", call[s].op = op
    PROVE  call[s] # Idle /\ call[s] \in TokenCall /\ token[call[s].token] \in TokenRow
                /\ token[call[s].token] # None
BY DEF TokensInv, TokensTypeOK, Idle, TokenCall

(* A token is new, or it is the one there was. *)
LEMMA TokensIssued ==
    ASSUME TokensInv, NEW a \in Accounts, NEW type \in {"access", "refresh", "reset", "verify"},
           token' \in Pairs(a) \cup Mails(type, a)
    PROVE  /\ token' \in [TokenIds -> TokenRow \cup {None}]
           /\ \A k \in TokenIds : token[k] # None => token'[k] = token[k]
<1>1. now \div 2 \in Nat
  BY DEF TokensInv, TokensTypeOK
<1>2. \A t \in {"access", "refresh", "reset", "verify"} : New(t, a) \in TokenRow
  BY <1>1 DEF New, Life, TokenRow
<1>3. token \in [TokenIds -> TokenRow \cup {None}]
  BY DEF TokensInv, TokensTypeOK
<1>4. CASE token' \in Pairs(a)
  <2>1. PICK kl \in Unused(token) \X Unused(token) :
           token' = [token EXCEPT ![kl[1]] = New("access", a), ![kl[2]] = New("refresh", a)]
    BY <1>4 DEF Pairs
  <2>2. /\ kl[1] \in TokenIds /\ token[kl[1]] = None
        /\ kl[2] \in TokenIds /\ token[kl[2]] = None
    BY <1>3 DEF Unused
  <2> QED
    BY <1>2, <1>3, <2>1, <2>2
<1>5. CASE token' \in Mails(type, a)
  <2>1. PICK k \in Unused(token) : token' = [token EXCEPT ![k] = New(type, a)]
    BY <1>5 DEF Mails
  <2>2. k \in TokenIds /\ token[k] = None
    BY <1>3 DEF Unused
  <2> QED
    BY <1>2, <1>3, <2>1, <2>2
<1> QED
  BY <1>4, <1>5

(* Time passes, tokens are issued, and a blacklist forgets only what is     *)
(* past: what was revoked stays so.                                          *)
LEMMA TokenSteps ==
    ASSUME TokensInv, now' \in Nat, now' >= now, DOMAIN account' = DOMAIN account,
           token' \in [TokenIds -> TokenRow \cup {None}],
           \A k \in TokenIds : token[k] # None => token'[k] = token[k],
           blacklist' \in [Processes -> SUBSET TokenIds],
           revoked' \in [Processes -> SUBSET TokenIds],
           \A p \in Processes : \A k \in revoked'[p] :
               /\ token[k] # None
               /\ k \in blacklist'[p] \/ now >= 2 * token[k].exp,
           call' \in [Sessions -> TokenCall \cup {Idle}],
           \A s \in Sessions : call'[s] # Idle => token[call'[s].token] # None
    PROVE  TokensInv'
<1>1. TokensTypeOK'
  BY DEF TokensInv, TokensTypeOK
<1>2. ASSUME NEW p \in Processes, NEW k \in revoked'[p]
      PROVE  token'[k] # None /\ Forgotten(p, k)'
  <2>1. k \in TokenIds /\ token'[k] = token[k] /\ token[k] \in TokenRow
    BY <1>2 DEF TokensInv, TokensTypeOK
  <2>2. token[k].exp \in Nat /\ now \in Nat
    BY <2>1 DEF TokenRow, TokensInv, TokensTypeOK
  <2> QED
    BY <1>2, <2>1, <2>2 DEF Forgotten
<1>3. ASSUME NEW s \in Sessions, call'[s] # Idle
      PROVE  token'[call'[s].token] # None
  <2>1. call'[s].token \in TokenIds
    BY <1>3 DEF TokenCall
  <2> QED
    BY <1>3, <2>1
<1> QED
  BY <1>1, <1>2, <1>3 DEF TokensInv

LEMMA RevokePreserves ==
    ASSUME TokensInv, NEW s \in Sessions, Rotate(s) \/ Logout(s)
    PROVE  TokensInv'
<1> DEFINE c == call[s]
<1>1. c \in TokenCall /\ token[c.token] \in TokenRow /\ token[c.token] # None
  BY TokenCallOf DEF Rotate, Logout, At
<1>2. c.in \in Processes /\ c.token \in TokenIds /\ c.of \in Accounts
  BY <1>1 DEF TokenCall
<1>3. /\ call' = [call EXCEPT ![s] = Idle] /\ UNCHANGED <<now, account>>
      /\ Revoke(c.in, c.token) \/ UNCHANGED <<blacklist, revoked>>
      /\ token' \in Pairs(c.of) \/ token' = token
  BY DEF Rotate, Logout, Ends
<1> HIDE DEF c
<1>4. /\ token' \in [TokenIds -> TokenRow \cup {None}]
      /\ \A k \in TokenIds : token[k] # None => token'[k] = token[k]
  BY <1>2, <1>3, TokensIssued DEF TokensInv, TokensTypeOK
<1>5. call' \in [Sessions -> TokenCall \cup {Idle}] /\ \A t \in Sessions : call'[t] \in {call[t], Idle}
  BY <1>3 DEF TokensInv, TokensTypeOK
<1>6. CASE UNCHANGED <<blacklist, revoked>>
  BY <1>3, <1>4, <1>5, <1>6, TokenSteps DEF TokensInv, TokensTypeOK, Forgotten
<1>7. CASE Revoke(c.in, c.token)
  <2> DEFINE entries == blacklist[c.in] \cup {c.token}
             new == IF Cardinality(entries) > Keep THEN CleanedUp(entries) ELSE entries
  <2>1. entries \in SUBSET TokenIds
    BY <1>2 DEF TokensInv, TokensTypeOK
  <2>2. new \subseteq entries
    BY DEF CleanedUp
  <2>3. \A k \in entries : k \in new \/ ~(2 * token[k].exp > now)
    BY DEF CleanedUp
  <2>4. /\ blacklist' = [blacklist EXCEPT ![c.in] = new]
        /\ revoked' = [revoked EXCEPT ![c.in] = revoked[c.in] \cup {c.token}]
    BY <1>7 DEF Revoke, Added
  <2> HIDE DEF new
  <2>5. /\ blacklist' \in [Processes -> SUBSET TokenIds]
        /\ revoked' \in [Processes -> SUBSET TokenIds]
    BY <1>2, <2>1, <2>2, <2>4 DEF TokensInv, TokensTypeOK
  <2>6. ASSUME NEW p \in Processes, NEW k \in revoked'[p]
        PROVE  token[k] # None /\ (k \in blacklist'[p] \/ now >= 2 * token[k].exp)
    <3>1. CASE p # c.in
      BY <2>4, <2>6, <3>1 DEF TokensInv, TokensTypeOK, Forgotten
    <3>2. CASE p = c.in
      <4>1. (k \in revoked[p] \/ k = c.token) /\ blacklist'[p] = new
        BY <1>2, <2>4, <2>6, <3>2 DEF TokensInv, TokensTypeOK
      <4>2. token[k] # None /\ (k \in entries \/ now >= 2 * token[k].exp)
        BY <1>1, <3>2, <4>1 DEF TokensInv, Forgotten
      <4>3. token[k].exp \in Nat /\ now \in Nat
        BY <2>5, <2>6, <4>2 DEF TokensInv, TokensTypeOK, TokenRow
      <4> QED
        BY <2>3, <4>1, <4>2, <4>3
    <3> QED
      BY <3>1, <3>2
  <2> QED
    BY <1>3, <1>4, <1>5, <2>5, <2>6, TokenSteps DEF TokensInv, TokensTypeOK
<1> QED
  BY <1>3, <1>6, <1>7

LEMMA PresentsPreserves ==
    ASSUME TokensInv, NEW s \in Sessions, NEW p \in Processes, NEW k \in TokenIds, NEW type, NEW op, NEW at,
           UNCHANGED account,
           op \in {"refresh", "logout", "change", "reset"},
           at \in {"rotate", "revoke", "write", "activate"},
           Presents(s, p, k, type, op, at)
    PROVE  TokensInv'
<1> DEFINE c == [op |-> op, at |-> at, in |-> p, token |-> k, of |-> token[k].of]
<1>1. token[k] # None /\ token[k] \in TokenRow
  BY DEF Presents, Good, TokensInv, TokensTypeOK
<1>2. c \in TokenCall /\ c.token = k
  BY <1>1 DEF TokenRow, TokenCall
<1>3. call' = [call EXCEPT ![s] = c] /\ blacklist' = Looked(p, k) /\ UNCHANGED <<now, token, revoked>>
  BY DEF Presents, Begins
<1> HIDE DEF c
<1>4. /\ call' \in [Sessions -> TokenCall \cup {Idle}]
      /\ \A t \in Sessions : call'[t] # Idle => token[call'[t].token] # None
  BY <1>1, <1>2, <1>3 DEF TokensInv, TokensTypeOK
<1>5. /\ blacklist' \in [Processes -> SUBSET TokenIds]
      /\ \A q \in Processes : \A i \in blacklist[q] : i \in blacklist'[q] \/ (i = k /\ Past(k))
  BY <1>3 DEF Looked, TokensInv, TokensTypeOK
<1>6. Past(k) => now >= 2 * token[k].exp
  BY <1>1 DEF Past, TokenRow, TokensInv, TokensTypeOK
<1> QED
  BY <1>3, <1>4, <1>5, <1>6, TokenSteps DEF TokensInv, TokensTypeOK, Forgotten

LEMMA RestartPreserves ==
    ASSUME TokensInv, NEW p \in Processes, Restart(p)
    PROVE  TokensInv'
<1>1. /\ call' \in [Sessions -> TokenCall \cup {Idle}]
      /\ \A s \in Sessions : call'[s] \in {call[s], Idle}
  BY DEF Restart, TokensInv, TokensTypeOK
<1>2. /\ blacklist' \in [Processes -> SUBSET TokenIds] /\ revoked' \in [Processes -> SUBSET TokenIds]
      /\ \A q \in Processes : revoked'[q] = IF q = p THEN {} ELSE revoked[q]
      /\ \A q \in Processes : q # p => blacklist'[q] = blacklist[q]
      /\ UNCHANGED <<now, account, token>>
  BY DEF Restart, TokensInv, TokensTypeOK
<1> QED
  BY <1>1, <1>2, TokenSteps DEF TokensInv, TokensTypeOK, Forgotten

(* The calls whose step changes neither a blacklist nor the tokens there are. *)
LEMMA OtherTokenStepsPreserve ==
    ASSUME TokensInv, NEW s \in Sessions,
           \/ Login(s) \/ Register(s) \/ SendMail(s) \/ VerifyEmail(s)
           \/ WritePassword(s) \/ Reactivate(s) \/ Toggle(s)
    PROVE  TokensInv'
<1>1. UNCHANGED <<now, blacklist, revoked>> /\ DOMAIN account' = DOMAIN account
  BY DEF Login, Register, SendMail, VerifyEmail, WritePassword, Reactivate, Toggle
<1>2. now \in Nat /\ now >= now /\ DOMAIN account = Accounts
  BY DEF TokensInv, TokensTypeOK
<1>3. /\ token' \in [TokenIds -> TokenRow \cup {None}]
      /\ \A k \in TokenIds : token[k] # None => token'[k] = token[k]
  <2>1. CASE token' = token
    BY <2>1 DEF TokensInv, TokensTypeOK
  <2>2. CASE token' # token
    <3>1. PICK a \in Accounts, type \in {"reset", "verify"} : token' \in Pairs(a) \cup Mails(type, a)
      <4>1. CASE Login(s)
        BY <1>2, <4>1 DEF Login, Unused
      <4>2. CASE Register(s)
        BY <1>2, <4>2 DEF Register, Unused
      <4>3. CASE SendMail(s)
        BY <1>2, <4>3 DEF SendMail, Unused
      <4> QED
        BY <2>2, <4>1, <4>2, <4>3 DEF VerifyEmail, WritePassword, Reactivate, Toggle
    <3> QED
      BY <3>1, TokensIssued
  <2> QED
    BY <2>1, <2>2
<1>4. /\ call' \in [Sessions -> TokenCall \cup {Idle}]
      /\ \A t \in Sessions : call'[t] # Idle => token[call'[t].token] # None
  <2>1. CASE call' = call
    BY <2>1 DEF TokensInv, TokensTypeOK
  <2>2. CASE call' = [call EXCEPT ![s] = Idle]
    BY <2>2 DEF TokensInv, TokensTypeOK
  <2>3. CASE WritePassword(s) /\ call' = [call EXCEPT ![s].at = "activate"]
    <3> DEFINE c == [call[s] EXCEPT !.at = "activate"]
    <3>1. call[s] \in TokenCall /\ token[call[s].token] # None
      BY <2>3, TokenCallOf DEF WritePassword, At
    <3>2. c \in TokenCall /\ c.token = call[s].token
      BY <3>1 DEF TokenCall
    <3>3. call' = [call EXCEPT ![s] = c]
      BY <2>3
    <3> HIDE DEF c
    <3> QED
      BY <3>1, <3>2, <3>3 DEF TokensInv, TokensTypeOK
  <2> QED
    BY <2>1, <2>2, <2>3 DEF Login, Register, SendMail, VerifyEmail, WritePassword, Reactivate,
       Toggle, Answers, Ends
<1> QED
  BY <1>1, <1>2, <1>3, <1>4, TokenSteps DEF TokensInv, TokensTypeOK, Forgotten

(* In every state what a process revoked was issued, and the process knows  *)
(* it or it has expired.                                                     *)
THEOREM TokensConsistent == TokensSpec => []TokensInv
<1>1. OfficeInit /\ TokensInit => TokensInv
  <2> SUFFICES ASSUME OfficeInit, TokensInit
               PROVE  TokensInv
    OBVIOUS
  <2>1. Issued \in [TokenIds -> TokenRow \cup {None}]
    BY TokensAssumption DEF TokenRow
  <2> QED
    BY <2>1, TokensAssumption DEF OfficeInit, TokensInit, TokensInv, TokensTypeOK
<1>2. TokensInv /\ [TokensNext]_<<office, tokens>> => TokensInv'
  <2> SUFFICES ASSUME TokensInv, [TokensNext]_<<office, tokens>>
               PROVE  TokensInv'
    OBVIOUS
  <2>1. CASE UNCHANGED <<office, tokens>>
    BY <2>1 DEF office, tokens, TokensInv, TokensTypeOK, Forgotten
  <2>2. ASSUME NEW s \in Sessions, VerifyRefresh(s) \/ AskLogout(s) \/ AskPassword(s)
        PROVE  TokensInv'
    <3>1. CASE VerifyRefresh(s)
      BY <3>1, PresentsPreserves DEF VerifyRefresh
    <3>2. CASE AskLogout(s)
      BY <3>2, PresentsPreserves DEF AskLogout
    <3>3. CASE AskPassword(s)
      BY <3>3, PresentsPreserves DEF AskPassword
    <3> QED
      BY <2>2, <3>1, <3>2, <3>3
  <2>3. CASE PassTime
    <3>1. now' \in Nat /\ now' >= now /\ UNCHANGED <<call, account, token, blacklist, revoked>>
      BY <2>3 DEF PassTime, office, TokensInv, TokensTypeOK
    <3> QED
      BY <3>1, TokenSteps DEF TokensInv, TokensTypeOK, Forgotten
  <2> QED
    BY <2>1, <2>2, <2>3, RevokePreserves, RestartPreserves, OtherTokenStepsPreserve DEF TokensNext
<1> QED
  BY <1>1, <1>2, PTL DEF TokensSpec

(* A process accepts no token it revoked, but for the last moments of the   *)
(* token's last second.                                                      *)
THEOREM RevokedTokensStayRevoked == TokensSpec => RevocationsHold
<1> DEFINE Held(s) == call[s] = Idle /\ call'[s] # Idle /\ "token" \in DOMAIN call'[s] =>
                        LET c == call'[s]
                        IN  c.token \in revoked[c.in] => now >= 2 * token[c.token].exp
<1>1. TokensInv /\ [TokensNext]_<<office, tokens>> => [\A s \in Sessions : Held(s)]_<<office, tokens>>
  <2> SUFFICES ASSUME TokensInv, TokensNext, NEW s \in Sessions, call[s] = Idle, call'[s] # Idle,
                      call'[s].token \in revoked[call'[s].in]
               PROVE  now >= 2 * token[call'[s].token].exp
    OBVIOUS
  <2>1. \E t \in Sessions : VerifyRefresh(t) \/ AskLogout(t) \/ AskPassword(t)
    <3>1. ASSUME NEW t \in Sessions,
                 Login(t) \/ Register(t) \/ SendMail(t) \/ VerifyEmail(t) \/ Toggle(t)
          PROVE  FALSE
      BY <3>1 DEF Login, Register, SendMail, VerifyEmail, Toggle, Answers
    <3>2. ASSUME NEW t \in Sessions, Rotate(t) \/ Logout(t) \/ Reactivate(t) \/ WritePassword(t)
          PROVE  FALSE
      <4>1. call[t] # Idle
        BY <3>2 DEF Rotate, Logout, Reactivate, WritePassword, At, Idle
      <4>2. call'[s] = call[s]
        BY <3>2, <4>1 DEF Rotate, Logout, Reactivate, WritePassword, Ends, TokensInv, TokensTypeOK
      <4> QED
        BY <4>2
    <3>3. ~PassTime /\ \A p \in Processes : ~Restart(p)
      BY DEF PassTime, Restart, office
    <3> QED
      BY <3>1, <3>2, <3>3 DEF TokensNext
  <2>2. PICK t \in Sessions, p \in Processes, k \in TokenIds, type \in {"access", "refresh", "reset"},
             op \in {"refresh", "logout", "change", "reset"}, at \in {"rotate", "revoke", "write"} :
           Presents(t, p, k, type, op, at)
    BY <2>1 DEF VerifyRefresh, AskLogout, AskPassword
  <2>3. call'[s].in = p /\ call'[s].token = k
    BY <2>2 DEF Presents, Begins, TokensInv, TokensTypeOK
  <2>4. token[k] # None /\ ~Blacklisted(p, k)
    BY <2>2 DEF Presents, Good
  <2>5. token[k].exp \in Nat /\ now \in Nat
    BY <2>4 DEF TokensInv, TokensTypeOK, TokenRow
  <2>6. k \in revoked[p]
    BY <2>3
  <2>7. Forgotten(p, k)
    BY <2>6 DEF TokensInv
  <2> QED
    BY <2>3, <2>4, <2>5, <2>7 DEF Blacklisted, Past, Forgotten
<1> QED
  BY <1>1, TokensConsistent, PTL DEF TokensSpec, RevocationsHold

-----------------------------------------------------------------------------
(* Readiness: a call that names no type or trade and had loaded a confirmed *)
(* row keeps what is confirmed in it.                                        *)

AssetRow == [project : Projects, says : TypeHints, type : Codes \cup {None},
             status : {"inferred", "confirmed", "unknown"}]

FirmRow == [says : TradeHints, trade : Trades \cup {None}, suggested : Trades \cup {None},
            status : {"suggested", "confirmed", "unknown"}]

AssetCall == [op : {"asset"}, at : {"commit"}, of : Fleet, old : AssetRow, names : BOOLEAN, new : AssetRow]
FirmCall == [op : {"firm"}, at : {"commit"}, of : Firms, old : FirmRow, names : BOOLEAN, new : FirmRow]

KeepsType(c) ==
    ~c.names /\ c.old.status = "confirmed" => c.new.type = c.old.type /\ c.new.status = c.old.status

KeepsTrade(c) ==
    ~c.names /\ c.old.status = "confirmed" => c.new.trade = c.old.trade /\ c.new.status = c.old.status

\* assets, companies: the rows that are committed.
ReadinessCallOK(c, assets, companies) ==
    /\ c.op = "asset" => c \in AssetCall /\ KeepsType(c) /\ assets[c.of] \in AssetRow
    /\ c.op = "firm" => c \in FirmCall /\ KeepsTrade(c) /\ companies[c.of] \in FirmRow

ReadinessInv ==
    /\ fleet \in [Fleet -> AssetRow \cup {None}]
    /\ firms \in [Firms -> FirmRow \cup {None}]
    /\ DOMAIN call = Sessions
    /\ \A s \in Sessions : ReadinessCallOK(call[s], fleet, firms)

(* A commit keeps a row a row, and the columns its call did not change.     *)
LEMMA WrittenAsset ==
    ASSUME NEW row \in AssetRow, NEW old \in AssetRow, NEW new \in AssetRow
    PROVE  /\ Written(row, old, new) \in AssetRow
           /\ \A f \in {"type", "status"} : new[f] = old[f] => Written(row, old, new)[f] = row[f]
BY DEF AssetRow, Written

LEMMA WrittenFirm ==
    ASSUME NEW row \in FirmRow, NEW old \in FirmRow, NEW new \in FirmRow
    PROVE  /\ Written(row, old, new) \in FirmRow
           /\ \A f \in {"trade", "status"} : new[f] = old[f] => Written(row, old, new)[f] = row[f]
BY DEF FirmRow, Written

LEMMA OneNamed ==
    ASSUME NEW S, Cardinality(S) = 1
    PROVE  (CHOOSE t \in S : TRUE) \in S
<1>1. S # {}
  BY FS_EmptySet
<1> QED
  BY <1>1

LEMMA TypeResolvedRow ==
    ASSUME NEW row \in AssetRow, NEW choice
    PROVE  TypeInferred(row) \in AssetRow /\ TypeResolved(row, choice) \in AssetRow
<1>1. row.says \subseteq Codes
  BY ReadinessAssumption DEF AssetRow, Codes
<1>2. TypeInferred(row) \in AssetRow
  <2>1. CASE Cardinality(row.says) = 1
    <3>1. (CHOOSE t \in row.says : TRUE) \in Codes
      BY <1>1, <2>1, OneNamed
    <3> QED
      BY <2>1, <3>1 DEF TypeInferred, AssetRow
  <2>2. CASE Cardinality(row.says) # 1
    BY <2>2 DEF TypeInferred, AssetRow
  <2> QED
    BY <2>1, <2>2
<1>3. choice \in Codes => TypeConfirmed(row, choice) \in AssetRow
  BY DEF TypeConfirmed, AssetRow
<1> QED
  BY <1>2, <1>3 DEF TypeResolved

LEMMA TradeResolvedRow ==
    ASSUME NEW row \in FirmRow, NEW choice
    PROVE  TradeResolved(row, choice) \in FirmRow
<1>1. row.says \subseteq Trades
  BY ReadinessAssumption DEF FirmRow
<1>2. CASE choice \in Trades
  BY <1>2 DEF TradeResolved, FirmRow
<1>3. CASE choice \notin Trades /\ Cardinality(row.says) = 1
  <2>1. (CHOOSE t \in row.says : TRUE) \in Trades
    BY <1>1, <1>3, OneNamed
  <2> QED
    BY <1>3, <2>1 DEF TradeResolved, TradeInferred, FirmRow
<1>4. CASE choice \notin Trades /\ Cardinality(row.says) # 1
  BY <1>4 DEF TradeResolved, TradeInferred, FirmRow
<1> QED
  BY <1>2, <1>3, <1>4

(* One call changes, and no row goes. *)
LEMMA ReadinessCalls ==
    ASSUME ReadinessInv, NEW s \in Sessions, NEW c,
           \A t \in Sessions : call'[t] = call[t] \/ (t = s /\ call'[t] = c),
           DOMAIN call' = Sessions,
           ReadinessCallOK(c, fleet, firms),
           fleet' \in [Fleet -> AssetRow \cup {None}], firms' \in [Firms -> FirmRow \cup {None}],
           \A a \in Fleet : fleet[a] \in AssetRow => fleet'[a] \in AssetRow,
           \A f \in Firms : firms[f] \in FirmRow => firms'[f] \in FirmRow
    PROVE  ReadinessInv'
<1>1. ASSUME NEW d, ReadinessCallOK(d, fleet, firms)
      PROVE  ReadinessCallOK(d, fleet', firms')
  BY <1>1 DEF ReadinessCallOK, AssetCall, FirmCall
<1>2. \A t \in Sessions : ReadinessCallOK(call'[t], fleet', firms')
  BY <1>1 DEF ReadinessInv
<1> QED
  BY <1>2 DEF ReadinessInv

LEMMA IdleReadiness == ReadinessCallOK(Idle, fleet, firms)
BY DEF Idle, ReadinessCallOK

LEMMA BeginAssetPreserves ==
    ASSUME ReadinessInv, NEW s \in Sessions, BeginAsset(s)
    PROVE  ReadinessInv'
<1>1. PICK a \in Fleet \ Unused(fleet), says \in TypeHints \cup {Unset},
           choice \in Codes \cup {None, Unset}, p \in Projects :
        LET moved == [fleet[a] EXCEPT !.project = p]
            named == IF says = Unset THEN moved ELSE [moved EXCEPT !.says = says]
        IN  /\ Begins(s, [op |-> "asset", at |-> "commit", of |-> a, old |-> fleet[a],
                          names |-> choice # Unset,
                          new |-> IF choice = Unset THEN Renamed(moved, says)
                                  ELSE TypeResolved(named, choice)])
            /\ UNCHANGED readiness
  BY DEF BeginAsset
<1> DEFINE moved == [fleet[a] EXCEPT !.project = p]
           named == IF says = Unset THEN moved ELSE [moved EXCEPT !.says = says]
           new == IF choice = Unset THEN Renamed(moved, says) ELSE TypeResolved(named, choice)
           c == [op |-> "asset", at |-> "commit", of |-> a, old |-> fleet[a],
                 names |-> choice # Unset, new |-> new]
<1>2. fleet[a] \in AssetRow
  BY DEF ReadinessInv, Unused
<1>3. moved \in AssetRow /\ moved.type = fleet[a].type /\ moved.status = fleet[a].status
  BY <1>2 DEF AssetRow
<1>4. named \in AssetRow
  BY <1>3 DEF AssetRow
<1> HIDE DEF moved
<1>5. says # Unset => [moved EXCEPT !.says = says] \in AssetRow
  BY <1>3 DEF AssetRow
<1>6. Renamed(moved, says) \in AssetRow
  BY <1>3, <1>5, TypeResolvedRow DEF Renamed
<1>7. new \in AssetRow
  BY <1>4, <1>6, TypeResolvedRow
<1>8. moved.status = "confirmed" => /\ Renamed(moved, says).type = moved.type
                                    /\ Renamed(moved, says).status = moved.status
  BY <1>3 DEF Renamed, AssetRow
<1>9. KeepsType(c)
  BY <1>3, <1>8 DEF KeepsType
<1> HIDE DEF named, new
<1>10. ReadinessCallOK(c, fleet, firms)
  BY <1>2, <1>7, <1>9 DEF ReadinessCallOK, AssetCall
<1>11. Begins(s, c) /\ UNCHANGED readiness
  BY <1>1 DEF moved, named, new
<1> HIDE DEF c
<1> QED
  BY <1>10, <1>11, ReadinessCalls DEF Begins, readiness, ReadinessInv

LEMMA BeginFirmPreserves ==
    ASSUME ReadinessInv, NEW s \in Sessions, BeginFirm(s)
    PROVE  ReadinessInv'
<1>1. PICK f \in Firms \ Unused(firms), says \in TradeHints \cup {Unset},
           choice \in Trades \cup {None, Unset} :
        LET old == firms[f]
            named == IF says = Unset THEN old ELSE [old EXCEPT !.says = says]
        IN  /\ Begins(s, [op |-> "firm", at |-> "commit", of |-> f, old |-> old,
                          names |-> choice # Unset,
                          new |-> IF choice = Unset /\ (says = Unset \/ old.status = "confirmed")
                                  THEN named ELSE TradeResolved(named, choice)])
            /\ UNCHANGED readiness
  BY DEF BeginFirm
<1> DEFINE old == firms[f]
           named == IF says = Unset THEN old ELSE [old EXCEPT !.says = says]
           new == IF choice = Unset /\ (says = Unset \/ old.status = "confirmed")
                  THEN named ELSE TradeResolved(named, choice)
           c == [op |-> "firm", at |-> "commit", of |-> f, old |-> old,
                 names |-> choice # Unset, new |-> new]
<1>2. old \in FirmRow
  BY DEF ReadinessInv, Unused
<1>3. named \in FirmRow /\ named.trade = old.trade /\ named.status = old.status
  BY <1>2 DEF FirmRow
<1>4. new \in FirmRow
  BY <1>3, TradeResolvedRow
<1>5. KeepsTrade(c)
  BY <1>3 DEF KeepsTrade
<1> HIDE DEF named, new
<1>6. ReadinessCallOK(c, fleet, firms)
  BY <1>2, <1>4, <1>5 DEF ReadinessCallOK, FirmCall
<1>7. Begins(s, c) /\ UNCHANGED readiness
  BY <1>1 DEF named, new
<1> HIDE DEF c, old
<1> QED
  BY <1>6, <1>7, ReadinessCalls DEF Begins, readiness, ReadinessInv

LEMMA CommitsPreserve ==
    ASSUME ReadinessInv, NEW s \in Sessions, CommitAsset(s) \/ CommitFirm(s)
    PROVE  ReadinessInv'
<1> DEFINE c == call[s]
<1>1. /\ DOMAIN call' = Sessions
      /\ \A t \in Sessions : call'[t] = call[t] \/ (t = s /\ call'[t] = Idle)
  BY DEF CommitAsset, CommitFirm, Ends, ReadinessInv
<1>2. ReadinessCallOK(c, fleet, firms)
  BY DEF ReadinessInv
<1>3. CASE CommitAsset(s)
  <2>1. c \in AssetCall /\ fleet[c.of] \in AssetRow
    BY <1>2, <1>3 DEF CommitAsset, At, ReadinessCallOK
  <2>2. c.of \in Fleet /\ Written(fleet[c.of], c.old, c.new) \in AssetRow
    BY <2>1, WrittenAsset DEF AssetCall
  <2>3. /\ fleet' \in [Fleet -> AssetRow \cup {None}]
        /\ \A a \in Fleet : fleet[a] \in AssetRow => fleet'[a] \in AssetRow
        /\ firms' = firms
    BY <1>3, <2>2 DEF CommitAsset, ReadinessInv
  <2> QED
    BY <1>1, <2>3, IdleReadiness, ReadinessCalls DEF ReadinessInv
<1>4. CASE CommitFirm(s)
  <2>1. c \in FirmCall /\ firms[c.of] \in FirmRow
    BY <1>2, <1>4 DEF CommitFirm, At, ReadinessCallOK
  <2>2. c.of \in Firms /\ Written(firms[c.of], c.old, c.new) \in FirmRow
    BY <2>1, WrittenFirm DEF FirmCall
  <2>3. /\ firms' \in [Firms -> FirmRow \cup {None}]
        /\ \A f \in Firms : firms[f] \in FirmRow => firms'[f] \in FirmRow
        /\ fleet' = fleet
    BY <1>4, <2>2 DEF CommitFirm, ReadinessInv
  <2> QED
    BY <1>1, <2>3, IdleReadiness, ReadinessCalls DEF ReadinessInv
<1> QED
  BY <1>3, <1>4

LEMMA OtherReadinessStepsPreserve ==
    ASSUME ReadinessInv, NEW s \in Sessions,
           \/ CreateAssetRow(s) \/ TransferAsset(s) \/ CreateFirm(s)
           \/ BeginType(s) \/ CommitType(s) \/ BeginTypeEdit(s) \/ CommitTypeEdit(s)
    PROVE  ReadinessInv'
<1>1. CASE CreateAssetRow(s)
  <2>1. PICK a \in Unused(fleet), p \in Projects, says \in TypeHints, choice \in Codes \cup {None} :
          fleet' = [fleet EXCEPT ![a] = TypeResolved([project |-> p, says |-> says, type |-> None,
                                                      status |-> "unknown"], choice)]
    BY <1>1 DEF CreateAssetRow
  <2> DEFINE row == [project |-> p, says |-> says, type |-> None, status |-> "unknown"]
  <2>2. row \in AssetRow
    BY DEF AssetRow
  <2>3. TypeResolved(row, choice) \in AssetRow
    BY <2>2, TypeResolvedRow
  <2>4. /\ fleet' \in [Fleet -> AssetRow \cup {None}]
        /\ \A x \in Fleet : fleet[x] \in AssetRow => fleet'[x] \in AssetRow
    BY <2>1, <2>3 DEF ReadinessInv, Unused
  <2> QED
    BY <1>1, <2>4, IdleReadiness, ReadinessCalls DEF CreateAssetRow, Answers, ReadinessInv
<1>2. CASE TransferAsset(s)
  <2>1. PICK a \in Fleet \ Unused(fleet), p \in Projects : fleet' = [fleet EXCEPT ![a].project = p]
    BY <1>2 DEF TransferAsset
  <2>2. fleet[a] \in AssetRow
    BY DEF ReadinessInv, Unused
  <2>3. [fleet[a] EXCEPT !.project = p] \in AssetRow
    BY <2>2 DEF AssetRow
  <2>4. /\ fleet' \in [Fleet -> AssetRow \cup {None}]
        /\ \A x \in Fleet : fleet[x] \in AssetRow => fleet'[x] \in AssetRow
    BY <2>1, <2>3 DEF ReadinessInv
  <2> QED
    BY <1>2, <2>4, IdleReadiness, ReadinessCalls DEF TransferAsset, Answers, ReadinessInv
<1>3. CASE CreateFirm(s)
  <2>1. PICK f \in Unused(firms), says \in TradeHints, choice \in Trades \cup {None} :
          firms' = [firms EXCEPT ![f] = TradeResolved([says |-> says, trade |-> None, suggested |-> None,
                                                       status |-> "unknown"], choice)]
    BY <1>3 DEF CreateFirm
  <2> DEFINE row == [says |-> says, trade |-> None, suggested |-> None, status |-> "unknown"]
  <2>2. row \in FirmRow
    BY DEF FirmRow
  <2>3. TradeResolved(row, choice) \in FirmRow
    BY <2>2, TradeResolvedRow
  <2>4. /\ firms' \in [Firms -> FirmRow \cup {None}]
        /\ \A x \in Firms : firms[x] \in FirmRow => firms'[x] \in FirmRow
    BY <2>1, <2>3 DEF ReadinessInv, Unused
  <2> QED
    BY <1>3, <2>4, IdleReadiness, ReadinessCalls DEF CreateFirm, Answers, ReadinessInv
<1>4. CASE BeginType(s) \/ BeginTypeEdit(s) \/ CommitType(s) \/ CommitTypeEdit(s)
  <2>1. PICK c : ReadinessCallOK(c, fleet, firms) /\ call' = [call EXCEPT ![s] = c]
    <3>1. CASE CommitType(s) \/ CommitTypeEdit(s)
      BY <3>1, IdleReadiness DEF CommitType, CommitTypeEdit, Ends
    <3>2. CASE BeginType(s) \/ BeginTypeEdit(s)
      BY <3>2 DEF BeginType, BeginTypeEdit, Begins, ReadinessCallOK
    <3> QED
      BY <1>4, <3>1, <3>2
  <2>2. UNCHANGED <<fleet, firms>>
    BY <1>4 DEF BeginType, BeginTypeEdit, CommitType, CommitTypeEdit, readiness
  <2> QED
    BY <2>1, <2>2, ReadinessCalls DEF ReadinessInv
<1> QED
  BY <1>1, <1>2, <1>3, <1>4

(* In every state the rows are rows, and a call that says nothing of the    *)
(* type or trade holds on to what it found confirmed.                        *)
THEOREM ReadinessConsistent == ReadinessSpec => []ReadinessInv
<1>1. OfficeInit /\ ReadinessInit => ReadinessInv
  BY DEF OfficeInit, ReadinessInit, ReadinessInv, ReadinessCallOK, Idle
<1>2. ReadinessInv /\ [ReadinessNext]_<<office, readiness>> => ReadinessInv'
  <2> SUFFICES ASSUME ReadinessInv, [ReadinessNext]_<<office, readiness>>
               PROVE  ReadinessInv'
    OBVIOUS
  <2>1. CASE UNCHANGED <<office, readiness>>
    BY <2>1 DEF office, readiness, ReadinessInv
  <2>2. CASE ReadinessNext
    BY <2>2, BeginAssetPreserves, BeginFirmPreserves, CommitsPreserve, OtherReadinessStepsPreserve
    DEF ReadinessNext
  <2> QED
    BY <2>1, <2>2
<1> QED
  BY <1>1, <1>2, PTL DEF ReadinessSpec

(* A confirmed type or trade goes only with a call that names another, or   *)
(* that had loaded the row before.                                           *)
THEOREM ConfirmationsAreKept == ReadinessSpec => ConfirmationsStay
<1> DEFINE TypeKept(a) ==
              Confirmed(fleet[a]) /\ <<fleet'[a].type, fleet'[a].status>> # <<fleet[a].type, fleet[a].status>>
                => \E s \in Sessions : CommitAsset(s) /\ call[s].of = a
                                        /\ (call[s].names \/ ~Confirmed(call[s].old))
           TradeKept(f) ==
              Confirmed(firms[f]) /\ <<firms'[f].trade, firms'[f].status>> # <<firms[f].trade, firms[f].status>>
                => \E s \in Sessions : CommitFirm(s) /\ call[s].of = f
                                        /\ (call[s].names \/ ~Confirmed(call[s].old))
<1>1. ASSUME ReadinessInv, ReadinessNext, NEW a \in Fleet
      PROVE  TypeKept(a)
  <2> SUFFICES ASSUME Confirmed(fleet[a]),
                      fleet'[a].type # fleet[a].type \/ fleet'[a].status # fleet[a].status
               PROVE  \E s \in Sessions : CommitAsset(s) /\ call[s].of = a
                                           /\ (call[s].names \/ ~Confirmed(call[s].old))
    OBVIOUS
  <2>1. fleet[a] \in AssetRow
    BY <1>1 DEF Confirmed, ReadinessInv
  <2>2. PICK s \in Sessions : CreateAssetRow(s) \/ TransferAsset(s) \/ CommitAsset(s)
    BY <1>1 DEF ReadinessNext, BeginAsset, CreateFirm, BeginFirm, CommitFirm, BeginType, CommitType,
                BeginTypeEdit, CommitTypeEdit, readiness
  <2>3. ~CreateAssetRow(s)
    BY <1>1 DEF CreateAssetRow, Unused, Confirmed, ReadinessInv
  <2>4. ~TransferAsset(s)
    BY <1>1, <2>1 DEF TransferAsset, ReadinessInv, AssetRow
  <2> DEFINE c == call[s]
  <2>5. c \in AssetCall /\ KeepsType(c) /\ fleet[c.of] \in AssetRow
    BY <1>1, <2>2, <2>3, <2>4 DEF CommitAsset, At, ReadinessInv, ReadinessCallOK
  <2>6. fleet' = [fleet EXCEPT ![c.of] = Written(fleet[c.of], c.old, c.new)]
    BY <2>2, <2>3, <2>4 DEF CommitAsset
  <2>7. c.of = a
    BY <1>1, <2>6 DEF ReadinessInv
  <2>8. fleet'[a] = Written(fleet[a], c.old, c.new)
    BY <1>1, <2>6, <2>7 DEF ReadinessInv
  <2>9. c.new.type # c.old.type \/ c.new.status # c.old.status
    BY <2>1, <2>5, <2>8, WrittenAsset DEF AssetCall
  <2>10. c.names \/ ~Confirmed(c.old)
    BY <2>5, <2>9 DEF KeepsType, Confirmed
  <2> QED
    BY <2>2, <2>3, <2>4, <2>7, <2>10
<1>2. ASSUME ReadinessInv, ReadinessNext, NEW f \in Firms
      PROVE  TradeKept(f)
  <2> SUFFICES ASSUME Confirmed(firms[f]),
                      firms'[f].trade # firms[f].trade \/ firms'[f].status # firms[f].status
               PROVE  \E s \in Sessions : CommitFirm(s) /\ call[s].of = f
                                           /\ (call[s].names \/ ~Confirmed(call[s].old))
    OBVIOUS
  <2>1. firms[f] \in FirmRow
    BY <1>2 DEF Confirmed, ReadinessInv
  <2>2. PICK s \in Sessions : CreateFirm(s) \/ CommitFirm(s)
    BY <1>2 DEF ReadinessNext, CreateAssetRow, BeginAsset, CommitAsset, TransferAsset, BeginFirm,
                BeginType, CommitType, BeginTypeEdit, CommitTypeEdit, readiness
  <2>3. ~CreateFirm(s)
    BY <1>2 DEF CreateFirm, Unused, Confirmed, ReadinessInv
  <2> DEFINE c == call[s]
  <2>4. c \in FirmCall /\ KeepsTrade(c) /\ firms[c.of] \in FirmRow
    BY <1>2, <2>2, <2>3 DEF CommitFirm, At, ReadinessInv, ReadinessCallOK
  <2>5. firms' = [firms EXCEPT ![c.of] = Written(firms[c.of], c.old, c.new)]
    BY <2>2, <2>3 DEF CommitFirm
  <2>6. c.of = f
    BY <1>2, <2>5 DEF ReadinessInv
  <2>7. firms'[f] = Written(firms[f], c.old, c.new)
    BY <1>2, <2>5, <2>6 DEF ReadinessInv
  <2>8. c.new.trade # c.old.trade \/ c.new.status # c.old.status
    BY <2>1, <2>4, <2>7, WrittenFirm DEF FirmCall
  <2>9. c.names \/ ~Confirmed(c.old)
    BY <2>4, <2>8 DEF KeepsTrade, Confirmed
  <2> QED
    BY <2>2, <2>3, <2>6, <2>9
<1>3. ReadinessInv /\ [ReadinessNext]_<<office, readiness>>
        => [(\A a \in Fleet : TypeKept(a)) /\ \A f \in Firms : TradeKept(f)]_<<office, readiness>>
  BY <1>1, <1>2
<1> QED
  BY <1>3, ReadinessConsistent, PTL DEF ReadinessSpec, ConfirmationsStay

LEMMA Between ==
    ASSUME NEW x \in Int, x <= 100
    PROVE  Max({0, Min({100, x})}) = IF x >= 0 THEN x ELSE 0
<1>1. Min({100, x}) = x
  BY DEF Min
<1> QED
  BY <1>1 DEF Max

(* A project is shown as ready, with the full score and no task, only when  *)
(* planning can count each of its assets and subcontractors, and as blocked *)
(* when one it cannot count is in use.                                       *)
THEOREM ReadyProjectsAreReady == ReadinessSpec => []ReadyMeansPlannable
<1>1. ASSUME NEW p \in Projects
      PROVE  LET c == Completeness(p) IN
             /\ c.status = "ready" => /\ \A a \in FleetOf(p) : fleet[a].type # None
                                      /\ \A f \in CrewOf(p) : firms[f].trade # None
             /\ c.status = "ready" <=> c.score = 100
             /\ c.status = "ready" <=> c.tasks = {}
             /\ \A f \in CrewOf(p) \cap Used : firms[f].trade = None => c.status = "blocked"
             /\ \A a \in FleetOf(p) \cap Used : fleet[a].type = None => c.status = "blocked"
  <2> DEFINE assets == {a \in FleetOf(p) : ~AssetReady(a)}
             crew == {f \in CrewOf(p) : ~FirmReady(f)}
             suggested == {f \in crew : firms[f].status = "suggested"}
             other == crew \ suggested
             usedAssets == assets \cap Used
             usedCrew == {f \in crew : p \in Demand \/ f \in Used}
             score == 100 - 18 * Cardinality(assets) - 12 * Cardinality(usedAssets)
                          - 8 * Cardinality(suggested) - 14 * Cardinality(other)
                          - 10 * Cardinality(usedCrew)
             c == Completeness(p)
  <2>1. /\ c.tasks = assets \cup crew
        /\ c.score = Max({0, Min({100, score})})
        /\ c.status = IF usedAssets \cup usedCrew # {} THEN "blocked"
                      ELSE IF assets \cup crew # {} THEN "attention" ELSE "ready"
    BY DEF Completeness
  <2>2. /\ \A a \in FleetOf(p) : fleet[a].type = None => a \in assets
        /\ \A f \in CrewOf(p) : firms[f].trade = None => f \in crew
    BY DEF AssetReady, FirmReady
  <2>3. assets \subseteq Fleet /\ crew \subseteq Firms
    BY ReadinessAssumption DEF FleetOf, CrewOf
  <2>4. /\ usedAssets \subseteq assets /\ usedCrew \subseteq crew
        /\ crew = suggested \cup other
        /\ \A f \in crew \cap Used : f \in usedCrew
    OBVIOUS
  <2> HIDE DEF assets, crew, suggested, other, usedAssets, usedCrew, c
  <2>5. \A S : S \subseteq assets \/ S \subseteq crew =>
             IsFiniteSet(S) /\ Cardinality(S) \in Nat /\ (Cardinality(S) = 0 <=> S = {})
    <3>1. IsFiniteSet(assets) /\ IsFiniteSet(crew)
      BY <2>3, FS_Subset, ReadinessAssumption
    <3> QED
      BY <3>1, FS_Subset, FS_CardinalityType, FS_EmptySet
  <2>6. suggested \subseteq crew /\ other \subseteq crew
    BY <2>4
  <2>7. /\ score \in Int /\ score <= 100
        /\ score = 100 <=> assets = {} /\ crew = {}
    <3> DEFINE n(S) == Cardinality(S)
    <3>1. /\ n(assets) \in Nat /\ n(usedAssets) \in Nat /\ n(suggested) \in Nat /\ n(other) \in Nat
          /\ n(usedCrew) \in Nat
      BY <2>4, <2>5, <2>6
    <3>2. /\ n(assets) = 0 <=> assets = {}
          /\ n(usedAssets) = 0 <=> usedAssets = {}
          /\ n(suggested) = 0 <=> suggested = {}
          /\ n(other) = 0 <=> other = {}
          /\ n(usedCrew) = 0 <=> usedCrew = {}
      BY <2>4, <2>5, <2>6
    <3>3. score = 100 - 18 * n(assets) - 12 * n(usedAssets) - 8 * n(suggested) - 14 * n(other)
                      - 10 * n(usedCrew)
      OBVIOUS
    <3> HIDE DEF n, score
    <3>4. score \in Int /\ score <= 100
      BY <3>1, <3>3
    <3>5. score = 100 <=> /\ n(assets) = 0 /\ n(usedAssets) = 0 /\ n(suggested) = 0
                          /\ n(other) = 0 /\ n(usedCrew) = 0
      BY <3>1, <3>3
    <3> QED
      BY <2>4, <3>2, <3>4, <3>5
  <2> HIDE DEF score
  <2>8. c.score = 100 <=> assets = {} /\ crew = {}
    BY <2>1, <2>7, Between
  <2>9. c.status = "ready" <=> assets \cup crew = {}
    BY <2>1, <2>4
  <2>10. usedAssets \cup usedCrew # {} => c.status = "blocked"
    BY <2>1
  <2>11. \A a \in assets \cap Used : a \in usedAssets
    BY DEF usedAssets
  <2> QED
    BY <2>1, <2>2, <2>4, <2>8, <2>9, <2>10, <2>11 DEF c
<1>2. ReadyMeansPlannable
  BY <1>1 DEF ReadyMeansPlannable
<1> QED
  BY <1>2, PTL

-----------------------------------------------------------------------------
(* Redirects of items (FoldTheorems). *)

(* The function of Canonical is the one named there. *)
LEMMA CanonicalIsEnd == \A i \in Items : Canonical(i) = EndOf(Items, into)[i]
BY DEF Canonical, EndOf

-----------------------------------------------------------------------------
(* The inductive invariant: types, exclusive locks, and what each call has  *)
(* found and holds at each of its steps.                                     *)

Lock ==
    (({"alias"} \X Names) \cup ({"item"} \X Items) \cup ({"class"} \X (Items \X Scopes)))
        \X {"update", "share"}

Call ==
    [op : {"upload", "alias", "merge", "override", "require"},
     at : {"look", "insert", "lock", "source", "target", "commit"},
     names : Seq(Names), item : Items \cup {None}, other : Items \cup {None},
     scope : Scopes \cup {"none"}, locks : SUBSET Lock,
     pending : SUBSET (Names \X Items), resolved : SUBSET (Names \X Items), skip : BOOLEAN]

TypeOK ==
    /\ into \in [Items -> Items]
    /\ alias \in [Names -> Items \cup {None}]
    /\ class \in SUBSET (Items \X Scopes)
    /\ activities \in SUBSET (Names \X Items)
    /\ call \in [Sessions -> Call \cup {Idle}]

LocksExclude ==
    \A s, t \in Sessions :
        s # t /\ Busy(s) /\ Busy(t) =>
            \A a \in call[s].locks, b \in call[t].locks : ~Conflict(a, b)

(* An alias that is not committed is the only one of its name, and locked.  *)
PendingOK(c) ==
    \A p \in c.pending :
        /\ alias[p[1]] = None
        /\ Update(<<"alias", p[1]>>) \in c.locks
        /\ \A q \in c.pending : p[1] = q[1] => p = q

(* A name of an upload is resolved to its alias, or to the one it brings.   *)
UploadOK(c) ==
    /\ c.at \in {"look", "insert"} <=> c.names # <<>>
    /\ \A a, b \in 1..Len(c.names) : c.names[a] = c.names[b] => a = b
    /\ \A p \in c.pending : \A k \in 1..Len(c.names) : c.names[k] # p[1]
    /\ \A r \in c.resolved :
         \/ r \in c.pending
         \/ alias[r[1]] # None /\ EndOf(Items, into)[r[2]] = EndOf(Items, into)[alias[r[1]]]

AliasOK(c) == c.item \in Items /\ c.names # <<>> /\ (c.at # "commit" => c.pending = {})

(* A merge that has its items keeps them active.                            *)
MergeOK(c) ==
    /\ c.item \in Items /\ c.other \in Items /\ c.item # c.other
    /\ c.at # "lock" => Active(c.item) /\ Active(c.other) /\ Merging(c) \subseteq c.locks

OverrideOK(c) ==
    /\ c.item \in Items /\ c.scope \in Scopes
    /\ \A x \in Items \X Scopes : Update(<<"class", x>>) \in c.locks => x[1] = c.item

ActivitiesOK ==
    \A a \in activities :
        alias[a[1]] # None /\ EndOf(Items, into)[a[2]] = EndOf(Items, into)[alias[a[1]]]

CallOK(c) ==
    /\ PendingOK(c)
    /\ c.op = "upload" => UploadOK(c)
    /\ c.op = "alias" => AliasOK(c)
    /\ c.op = "merge" => MergeOK(c)
    /\ c.op = "override" => OverrideOK(c)
    /\ c.op \notin {"upload", "alias"} => c.pending = {}
    /\ c.op = "require" => c.item \in Items

ItemInv ==
    /\ TypeOK
    /\ NoCircle(Items, into)
    /\ LocksExclude
    /\ ActivitiesOK
    /\ \A s \in Sessions : Busy(s) => CallOK(call[s])

-----------------------------------------------------------------------------
(* What a step may lock without breaking the exclusion of the locks. *)
Apart(s, locks) ==
    \A t \in Sessions \ {s} : Busy(t) => \A a \in locks, b \in call[t].locks : ~Conflict(a, b)

LEMMA HeldApart ==
    ASSUME ItemInv, NEW s \in Sessions, Busy(s)
    PROVE  Apart(s, call[s].locks)
BY DEF ItemInv, LocksExclude, Apart

LEMMA FreeApart ==
    ASSUME ItemInv, NEW s \in Sessions, Busy(s), Free(s)
    PROVE  Apart(s, call[s].locks \cup Needs(call[s]))
BY DEF ItemInv, LocksExclude, Apart, Free, Blocks

LEMMA BusyCall ==
    ASSUME TypeOK, NEW s \in Sessions
    PROVE  /\ Busy(s) => call[s] \in Call
           /\ ~Busy(s) => call[s] = Idle
BY DEF TypeOK, Busy, Idle, Call

(* A step that changes only what one call has found or holds. *)
LEMMA CallChanges ==
    ASSUME ItemInv, NEW s \in Sessions, NEW c \in Call, CallOK(c), Apart(s, c.locks),
           call' = [call EXCEPT ![s] = c], UNCHANGED Table
    PROVE  ItemInv'
<1>1. TypeOK'
  BY DEF ItemInv, TypeOK, Table
<1>2. \A t \in Sessions : call'[t] = IF t = s THEN c ELSE call[t]
  BY DEF ItemInv, TypeOK
<1>3. LocksExclude'
  <2>1. \A a, b : Conflict(a, b) => Conflict(b, a)
    BY DEF Conflict
  <2> QED
    BY <1>2, <2>1 DEF ItemInv, LocksExclude, Apart, Busy
<1>4. NoCircle(Items, into)' /\ ActivitiesOK'
  BY DEF ItemInv, ActivitiesOK, Table, NoCircle
<1>5. ASSUME NEW d, CallOK(d)
      PROVE  CallOK(d)'
  BY <1>5 DEF CallOK, PendingOK, UploadOK, AliasOK, MergeOK, OverrideOK, Active, Table
<1>6. \A t \in Sessions : Busy(t)' => CallOK(call[t])'
  <2> SUFFICES ASSUME NEW t \in Sessions, Busy(t)'
               PROVE  CallOK(call[t])'
    OBVIOUS
  <2>1. CallOK(call'[t])
    BY <1>2 DEF ItemInv, Busy
  <2> QED
    BY <2>1, <1>5
<1> QED
  BY <1>1, <1>3, <1>4, <1>6 DEF ItemInv

LEMMA CallEnds ==
    ASSUME ItemInv, NEW s \in Sessions, Ends(s), UNCHANGED Table
    PROVE  ItemInv'
<1>1. TypeOK'
  BY DEF ItemInv, TypeOK, Table, Ends
<1>2. \A t \in Sessions : call'[t] = IF t = s THEN Idle ELSE call[t]
  BY DEF ItemInv, TypeOK, Ends
<1>3. LocksExclude'
  BY <1>2 DEF ItemInv, LocksExclude, Busy, Idle
<1>4. NoCircle(Items, into)' /\ ActivitiesOK'
  BY DEF ItemInv, ActivitiesOK, Table, NoCircle
<1>5. ASSUME NEW d, CallOK(d)
      PROVE  CallOK(d)'
  BY <1>5 DEF CallOK, PendingOK, UploadOK, AliasOK, MergeOK, OverrideOK, Active, Table
<1>6. \A t \in Sessions : Busy(t)' => CallOK(call[t])'
  <2> SUFFICES ASSUME NEW t \in Sessions, Busy(t)'
               PROVE  CallOK(call[t])'
    OBVIOUS
  <2>1. CallOK(call'[t])
    BY <1>2 DEF ItemInv, Busy, Idle
  <2> QED
    BY <2>1, <1>5
<1> QED
  BY <1>1, <1>3, <1>4, <1>6 DEF ItemInv

(* What a call waits for, step by step. *)
LEMMA NeedsCases ==
    ASSUME NEW c
    PROVE  /\ c.op = "upload" /\ c.at = "insert" => Needs(c) = {Update(<<"alias", Head(c.names)>>)}
           /\ c.op = "upload" /\ c.at = "commit" =>
                Needs(c) = {Share(<<"item", r[2]>>) : r \in c.resolved}
           /\ c.op = "alias" /\ c.at = "insert" =>
                Needs(c) = {Update(<<"alias", Head(c.names)>>), Share(<<"item", c.item>>)}
           /\ c.op = "merge" /\ c.at = "lock" => Needs(c) = Merging(c)
           /\ c.op = "merge" /\ c.at = "source" => Needs(c) = {Update(<<"class", r>>) : r \in Rows(c.item)}
           /\ c.op = "merge" /\ c.at = "target" => Needs(c) = {Update(<<"class", r>>) : r \in Rows(c.other)}
           /\ c.op = "override" /\ c.at = "lock" =>
                Needs(c) = {Update(<<"class", r>>) : r \in Rows(c.item)}
           /\ c.op = "override" /\ c.at = "insert" =>
                Needs(c) = {Share(<<"item", c.item>>), Update(<<"class", <<c.item, c.scope>>>>)}
           /\ c.op = "require" /\ c.at = "lock" => Needs(c) = {Update(<<"item", c.item>>)}
           /\ ~(\/ c.op \in {"upload", "alias", "override"} /\ c.at = "insert"
                \/ c.op = "upload" /\ c.at = "commit"
                \/ c.op \in {"merge", "override", "require"} /\ c.at = "lock"
                \/ c.op = "merge" /\ c.at \in {"source", "target"}) => Needs(c) = {}
BY DEF Needs

LEMMA NeedsLocks ==
    ASSUME class \subseteq Items \X Scopes, NEW c \in Call, CallOK(c)
    PROVE  Needs(c) \subseteq Lock
<1>1. c.names # <<>> => Head(c.names) \in Names
  BY DEF Call
<1>2. Rows(c.item) \cup Rows(c.other) \subseteq Items \X Scopes
  BY DEF Rows
<1>3. /\ \A n \in Names : Update(<<"alias", n>>) \in Lock
      /\ \A i \in Items : Update(<<"item", i>>) \in Lock /\ Share(<<"item", i>>) \in Lock
      /\ \A x \in Items \X Scopes : Update(<<"class", x>>) \in Lock
  BY DEF Update, Share, Lock
<1>4. CASE c.op = "upload" /\ c.at = "insert"
  BY <1>1, <1>3, <1>4, NeedsCases DEF CallOK, UploadOK
<1>5. CASE c.op = "upload" /\ c.at = "commit"
  <2>1. \A r \in c.resolved : r[2] \in Items
    BY DEF Call
  <2>2. Needs(c) = {Share(<<"item", r[2]>>) : r \in c.resolved}
    BY <1>5, NeedsCases
  <2> QED
    BY <1>3, <2>1, <2>2
<1>6. CASE c.op = "alias" /\ c.at = "insert"
  BY <1>1, <1>3, <1>6, NeedsCases DEF CallOK, AliasOK
<1>7. CASE c.op = "merge" /\ c.at = "lock"
  BY <1>3, <1>7, NeedsCases DEF CallOK, MergeOK, Merging
<1>8. CASE c.op = "merge" /\ c.at \in {"source", "target"}
  <2>1. \/ Needs(c) = {Update(<<"class", r>>) : r \in Rows(c.item)}
        \/ Needs(c) = {Update(<<"class", r>>) : r \in Rows(c.other)}
    BY <1>8, NeedsCases
  <2> QED
    BY <1>2, <1>3, <2>1
<1>9. CASE c.op = "override" /\ c.at = "lock"
  <2>1. Needs(c) = {Update(<<"class", r>>) : r \in Rows(c.item)}
    BY <1>9, NeedsCases
  <2> QED
    BY <1>2, <1>3, <2>1
<1>10. CASE c.op = "override" /\ c.at = "insert"
  <2>1. Needs(c) = {Share(<<"item", c.item>>), Update(<<"class", <<c.item, c.scope>>>>)}
    BY <1>10, NeedsCases
  <2>2. c.item \in Items /\ <<c.item, c.scope>> \in Items \X Scopes
    BY <1>10 DEF CallOK, OverrideOK
  <2> QED
    BY <1>3, <2>1, <2>2
<1>11. CASE c.op = "require" /\ c.at = "lock"
  BY <1>3, <1>11, NeedsCases DEF CallOK
<1> QED
  BY <1>4, <1>5, <1>6, <1>7, <1>8, <1>9, <1>10, <1>11, NeedsCases

(* A step that takes the locks it waited for. *)
LEMMA GoesOn ==
    ASSUME ItemInv, NEW s \in Sessions, Busy(s), Free(s), NEW d \in Call,
           d.locks = call[s].locks, Goes(s, d), UNCHANGED Table,
           CallOK([d EXCEPT !.locks = @ \cup Needs(call[s])])
    PROVE  ItemInv'
<1> DEFINE c == [d EXCEPT !.locks = @ \cup Needs(call[s])]
<1>1. c \in Call /\ c.locks = call[s].locks \cup Needs(call[s])
  <2>1. call[s] \in Call /\ CallOK(call[s]) /\ class \subseteq Items \X Scopes
    BY BusyCall DEF ItemInv, TypeOK
  <2>2. Needs(call[s]) \subseteq Lock
    BY <2>1, NeedsLocks
  <2> QED
    BY <2>2 DEF Call
<1>2. Apart(s, c.locks)
  BY <1>1, FreeApart
<1>3. call' = [call EXCEPT ![s] = c]
  BY DEF Goes
<1> HIDE DEF c
<1>4. CallOK(c)
  BY DEF c
<1> QED
  BY <1>1, <1>2, <1>3, <1>4, CallChanges

-----------------------------------------------------------------------------
(* The calls begin. *)
LEMMA ItemsAreItems == TypeOK => Items0 \subseteq Items
BY DEF TypeOK, Items0

LEMMA StartsPreserve ==
    ASSUME ItemInv, NEW s \in Sessions,
           \/ StartUpload(s) \/ StartAlias(s) \/ StartMerge(s) \/ StartOverride(s) \/ StartRequire(s)
    PROVE  ItemInv'
<1> DEFINE NewItem(op, at, names, i, j, scope) ==
        [op |-> op, at |-> at, names |-> names, item |-> i, other |-> j, scope |-> scope,
         locks |-> {}, pending |-> {}, resolved |-> {}, skip |-> FALSE]
<1>1. ASSUME NEW op, NEW at, NEW names, NEW i, NEW j, NEW scope,
             NewItem(op, at, names, i, j, scope) \in Call, CallOK(NewItem(op, at, names, i, j, scope)),
             Begin(s, op, at, names, i, j, scope)
      PROVE  ItemInv'
  <2> DEFINE c == NewItem(op, at, names, i, j, scope)
  <2>1. Apart(s, c.locks)
    BY DEF Apart
  <2>2. call' = [call EXCEPT ![s] = c] /\ UNCHANGED Table
    BY <1>1 DEF Begin
  <2>3. c \in Call /\ CallOK(c)
    BY <1>1
  <2> HIDE DEF c
  <2> QED
    BY <2>1, <2>2, <2>3, CallChanges
<1>2. Items0 \subseteq Items
  BY ItemsAreItems DEF ItemInv
<1>3. CASE StartUpload(s)
  <2>1. PICK o \in Orders : Begin(s, "upload", "look", o, None, None, "none")
    BY <1>3 DEF StartUpload
  <2>2. o \in Seq(Names) /\ o # <<>> /\ \A a, b \in 1..Len(o) : o[a] = o[b] => a = b
    BY ItemAssumption
  <2>3. NewItem("upload", "look", o, None, None, "none") \in Call
    BY <2>2 DEF Call
  <2>4. CallOK(NewItem("upload", "look", o, None, None, "none"))
    BY <2>2 DEF CallOK, PendingOK, UploadOK
  <2> QED
    BY <2>1, <2>3, <2>4, <1>1
<1>4. CASE StartAlias(s)
  <2>1. PICK i \in Items0, n \in Names : Begin(s, "alias", "look", <<n>>, i, None, "none")
    BY <1>4 DEF StartAlias
  <2>2. NewItem("alias", "look", <<n>>, i, None, "none") \in Call
    BY <1>2 DEF Call
  <2>3. CallOK(NewItem("alias", "look", <<n>>, i, None, "none"))
    BY <1>2 DEF CallOK, PendingOK, AliasOK
  <2> QED
    BY <2>1, <2>2, <2>3, <1>1
<1>5. CASE StartMerge(s)
  <2>1. PICK i \in Items0, j \in Items0 : i # j /\ Begin(s, "merge", "lock", <<>>, i, j, "none")
    BY <1>5 DEF StartMerge
  <2>2. NewItem("merge", "lock", <<>>, i, j, "none") \in Call
    BY <1>2 DEF Call
  <2>3. CallOK(NewItem("merge", "lock", <<>>, i, j, "none"))
    BY <1>2, <2>1 DEF CallOK, PendingOK, MergeOK
  <2> QED
    BY <2>1, <2>2, <2>3, <1>1
<1>6. CASE StartOverride(s)
  <2>1. PICK i \in Items0, x \in Scopes : Begin(s, "override", "look", <<>>, i, None, x)
    BY <1>6 DEF StartOverride
  <2>2. NewItem("override", "look", <<>>, i, None, x) \in Call
    BY <1>2 DEF Call
  <2>3. CallOK(NewItem("override", "look", <<>>, i, None, x))
    BY <1>2 DEF CallOK, PendingOK, OverrideOK
  <2> QED
    BY <2>1, <2>2, <2>3, <1>1
<1>7. CASE StartRequire(s)
  <2>1. PICK i \in Items0 : Begin(s, "require", "lock", <<>>, i, None, "none")
    BY <1>7 DEF StartRequire
  <2>2. NewItem("require", "lock", <<>>, i, None, "none") \in Call
    BY <1>2 DEF Call
  <2>3. CallOK(NewItem("require", "lock", <<>>, i, None, "none"))
    BY <1>2 DEF CallOK, PendingOK
  <2> QED
    BY <2>1, <2>2, <2>3, <1>1
<1> QED
  BY <1>3, <1>4, <1>5, <1>6, <1>7

-----------------------------------------------------------------------------
(* The steps of the calls that lock and look. *)

LEMMA CallOfStep ==
    ASSUME ItemInv, NEW s \in Sessions, NEW op, NEW at, op # "none", At(s, op, at)
    PROVE  Busy(s) /\ call[s] \in Call /\ CallOK(call[s]) /\ call[s].op = op /\ call[s].at = at
BY BusyCall DEF ItemInv, At, Busy

(* The name an upload is at, once it has found or made its item. *)
LEMMA ResolvedOK ==
    ASSUME TypeOK, NEW c \in Call, c.op = "upload", c.names # <<>>, CallOK(c),
           NEW i \in Items, NEW pending \in SUBSET (Names \X Items), NEW locks \in SUBSET Lock,
           \/ /\ pending = c.pending /\ locks = c.locks
              /\ alias[Head(c.names)] # None
              /\ EndOf(Items, into)[i] = EndOf(Items, into)[alias[Head(c.names)]]
           \/ /\ pending = c.pending \cup {<<Head(c.names), i>>}
              /\ locks = c.locks \cup {Update(<<"alias", Head(c.names)>>)}
              /\ alias[Head(c.names)] = None
    PROVE  LET d == [Resolved(c, i) EXCEPT !.pending = pending, !.locks = locks]
           IN  d \in Call /\ CallOK(d)
<1> DEFINE d == [Resolved(c, i) EXCEPT !.pending = pending, !.locks = locks]
           n == Head(c.names)
           at == IF Len(c.names) = 1 THEN "commit" ELSE "look"
<1>1. /\ c.names \in Seq(Names) /\ n \in Names /\ Tail(c.names) \in Seq(Names)
      /\ Len(c.names) \in Nat \ {0} /\ Len(Tail(c.names)) = Len(c.names) - 1
      /\ \A k \in 1..Len(Tail(c.names)) : Tail(c.names)[k] = c.names[k + 1]
      /\ n = c.names[1] /\ n \in Names
  BY DEF Call
<1>2. /\ d.op = c.op /\ d.at = at /\ d.names = Tail(c.names) /\ d.item = c.item
      /\ d.other = c.other /\ d.locks = locks /\ d.pending = pending
      /\ d.resolved = c.resolved \cup {<<n, i>>}
  BY DEF Resolved, Call
<1>3. d \in Call
  <2>1. Resolved(c, i) \in Call
    <3>1. c.resolved \cup {<<n, i>>} \in SUBSET (Names \X Items)
      BY <1>1 DEF Call
    <3>2. at \in {"look", "insert", "lock", "source", "target", "commit"}
      OBVIOUS
    <3>3. Resolved(c, i) = [c EXCEPT !.resolved = c.resolved \cup {<<n, i>>},
                                     !.names = Tail(c.names), !.at = at]
      BY DEF Resolved, Call
    <3> HIDE DEF at, n
    <3> QED
      BY <1>1, <3>1, <3>2, <3>3 DEF Call
  <2> QED
    BY <2>1 DEF Call
<1>4. /\ \A a, b \in 1..Len(c.names) : c.names[a] = c.names[b] => a = b
      /\ \A p \in c.pending : \A k \in 1..Len(c.names) : c.names[k] # p[1]
      /\ \A r \in c.resolved :
           r \in c.pending \/ (alias[r[1]] # None /\ EndOf(Items, into)[r[2]] = EndOf(Items, into)[alias[r[1]]])
      /\ \A p \in c.pending :
           /\ alias[p[1]] = None /\ Update(<<"alias", p[1]>>) \in c.locks
           /\ \A q \in c.pending : p[1] = q[1] => p = q
  BY DEF CallOK, UploadOK, PendingOK
<1>5. \A p \in c.pending : p[1] # n
  BY <1>1, <1>4
<1>5a. \A k \in 1..Len(Tail(c.names)) :
         /\ 1 \in 1..Len(c.names) /\ k \in 1..Len(c.names) /\ k + 1 \in 1..Len(c.names)
         /\ Tail(c.names)[k] = c.names[k + 1] /\ n = c.names[1]
  <2>1. c.names \in Seq(Names) /\ c.names # <<>>
    BY <1>1
  <2> QED
    BY <2>1
<1>6. \A k \in 1..Len(Tail(c.names)) : Tail(c.names)[k] # n
  BY <1>4, <1>5a
<1> HIDE DEF d, n, at
<1>7. PendingOK(d)
  <2>1. pending = c.pending \/ pending = c.pending \cup {<<n, i>>}
    BY DEF n
  <2>2. c.locks \subseteq locks
    OBVIOUS
  <2>3. ASSUME NEW p \in pending
        PROVE  /\ alias[p[1]] = None
               /\ Update(<<"alias", p[1]>>) \in locks
               /\ \A q \in pending : p[1] = q[1] => p = q
    <3>1. CASE p \in c.pending
      BY <3>1, <2>1, <2>2, <1>4, <1>5
    <3>2. CASE p \notin c.pending
      <4>1. pending = c.pending \cup {<<n, i>>} /\ p = <<n, i>>
        BY <2>1, <3>2
      <4>2. alias[n] = None /\ Update(<<"alias", n>>) \in locks
        BY <3>2 DEF n
      <4> QED
        BY <4>1, <4>2, <1>5
    <3> QED
      BY <3>1, <3>2
  <2> QED
    BY <2>3, <1>2 DEF PendingOK
<1>8. UploadOK(d)
  <2>1. d.at \in {"look", "insert"} <=> d.names # <<>>
    <3>1. \A q \in Seq(Names) : q = <<>> <=> Len(q) = 0
      BY EmptySeq
    <3>2. Tail(c.names) = <<>> <=> Len(Tail(c.names)) = 0
      BY <1>1, <3>1, Zenon
    <3>3. Tail(c.names) = <<>> <=> Len(c.names) = 1
      BY <1>1, <3>2
    <3> QED
      BY <3>3, <1>2 DEF at
  <2>2. \A a, b \in 1..Len(d.names) : d.names[a] = d.names[b] => a = b
    <3>1. ASSUME NEW a \in 1..Len(Tail(c.names)), NEW b \in 1..Len(Tail(c.names)),
                 Tail(c.names)[a] = Tail(c.names)[b]
          PROVE  a = b
      <4>1. a + 1 = b + 1
        BY ONLY <1>4, <1>5a, <3>1
      <4> QED
        BY ONLY <4>1, a \in Int, b \in Int
    <3> QED
      BY <3>1, <1>2
  <2>3. \A p \in d.pending : \A k \in 1..Len(d.names) : d.names[k] # p[1]
    <3>0. \A p \in c.pending : \A k \in 1..Len(Tail(c.names)) : Tail(c.names)[k] # p[1]
      BY ONLY <1>4, <1>5a
    <3>1. \A p \in c.pending : \A k \in 1..Len(d.names) : d.names[k] # p[1]
      BY <1>2, <3>0
    <3>2. \A p \in d.pending : p \in c.pending \/ p[1] = n
      BY <1>2 DEF n
    <3> QED
      BY <3>1, <3>2, <1>2, <1>6
  <2>4. \A r \in d.resolved :
          r \in d.pending \/ (alias[r[1]] # None /\ EndOf(Items, into)[r[2]] = EndOf(Items, into)[alias[r[1]]])
    BY <1>2, <1>4 DEF n
  <2> QED
    BY <2>1, <2>2, <2>3, <2>4 DEF UploadOK
<1>9. CallOK(d)
  BY <1>2, <1>7, <1>8 DEF CallOK
<1> QED
  BY <1>3, <1>9 DEF d

(* Looking an item up once more finds the same one. *)
LEMMA CanonicalIsStable ==
    ASSUME into \in [Items -> Items], NoCircle(Items, into), NEW i \in Items
    PROVE  Canonical(i) \in Items /\ EndOf(Items, into)[Canonical(i)] = EndOf(Items, into)[i]
<1>1. Canonical(i) = EndOf(Items, into)[i]
  BY CanonicalIsEnd
<1>2. EndOf(Items, into)[i] \in Items /\ into[EndOf(Items, into)[i]] = EndOf(Items, into)[i]
  BY EndIsActive
<1>3. EndOf(Items, into)[EndOf(Items, into)[i]] = EndOf(Items, into)[i]
  BY <1>2, EndStep
<1> QED
  BY <1>1, <1>2, <1>3

(* The alias that is found, or that the index refused a second one of.      *)
LEMMA FoundPreserves ==
    ASSUME ItemInv, NEW s \in Sessions, Busy(s), call[s].op = "upload", call[s].names # <<>>,
           alias[Head(call[s].names)] # None, UNCHANGED Table,
           call' = [call EXCEPT ![s] = Resolved(call[s], Canonical(alias[Head(call[s].names)]))]
    PROVE  ItemInv'
<1> DEFINE c == call[s]
           n == Head(c.names)
           i == Canonical(alias[n])
           d == Resolved(c, i)
<1>1. c \in Call /\ CallOK(c) /\ TypeOK /\ NoCircle(Items, into) /\ Apart(s, c.locks)
  BY BusyCall, HeldApart DEF ItemInv
<1>2. n \in Names
  BY <1>1 DEF Call
<1>3. alias[n] \in Items
  BY <1>1, <1>2 DEF TypeOK
<1>4. i \in Items /\ EndOf(Items, into)[i] = EndOf(Items, into)[alias[n]]
  BY <1>1, <1>3, CanonicalIsStable DEF TypeOK
<1> HIDE DEF i
<1>5. c.pending \in SUBSET (Names \X Items) /\ c.locks \in SUBSET Lock
  BY <1>1 DEF Call
<1>6. d = [d EXCEPT !.pending = c.pending, !.locks = c.locks]
  BY <1>1 DEF Resolved, Call
<1>7. d \in Call /\ CallOK(d)
  <2> DEFINE e == [d EXCEPT !.pending = c.pending, !.locks = c.locks]
  <2>1. c.op = "upload" /\ c.names # <<>> /\ alias[Head(c.names)] # None
    OBVIOUS
  <2> HIDE DEF c
  <2>2. e \in Call /\ CallOK(e)
    BY <1>1, <1>4, <1>5, <2>1, ResolvedOK
  <2> HIDE DEF e
  <2> QED
    BY <1>6, <2>2 DEF e
<1>8. d.locks = c.locks
  BY <1>1 DEF Resolved, Call
<1>9. call' = [call EXCEPT ![s] = d]
  BY DEF i
<1> HIDE DEF d, c
<1> QED
  BY <1>1, <1>7, <1>8, <1>9, CallChanges

LEMMA LookUpPreserves ==
    ASSUME ItemInv, NEW s \in Sessions, LookUp(s)
    PROVE  ItemInv'
<1> DEFINE c == call[s]
<1>1. /\ At(s, "upload", "look") /\ UNCHANGED Table
      /\ Busy(s) /\ c \in Call /\ CallOK(c) /\ c.op = "upload" /\ c.at = "look"
  BY CallOfStep DEF LookUp
<1>2. c.names # <<>>
  BY <1>1 DEF CallOK, UploadOK
<1>3. CASE alias[Head(c.names)] # None
  BY <1>1, <1>2, <1>3, FoundPreserves DEF LookUp
<1>4. CASE alias[Head(c.names)] = None
  <2> DEFINE d == [c EXCEPT !.at = "insert"]
  <2>1. d \in Call /\ d.locks = c.locks
    BY <1>1 DEF Call
  <2>2. CallOK(d)
    BY <1>1, <1>2 DEF CallOK, PendingOK, UploadOK, Call
  <2>3. call' = [call EXCEPT ![s] = d]
    BY <1>4 DEF LookUp
  <2>4. Apart(s, d.locks)
    BY <1>1, <2>1, HeldApart
  <2> HIDE DEF d
  <2> QED
    BY <1>1, <2>1, <2>2, <2>3, <2>4, CallChanges
<1> QED
  BY <1>3, <1>4

LEMMA InsertItemPreserves ==
    ASSUME ItemInv, NEW s \in Sessions, InsertItem(s)
    PROVE  ItemInv'
<1> DEFINE c == call[s]
           n == Head(c.names)
<1>1. /\ At(s, "upload", "insert") /\ UNCHANGED Table /\ Free(s)
      /\ Busy(s) /\ c \in Call /\ CallOK(c) /\ c.op = "upload" /\ c.at = "insert"
  BY CallOfStep DEF InsertItem
<1>2. c.names # <<>>
  BY <1>1 DEF CallOK, UploadOK
<1>3. CASE alias[n] # None
  BY <1>1, <1>2, <1>3, FoundPreserves DEF InsertItem
<1>4. CASE alias[n] = None
  <2>1. PICK i \in Items :
            Goes(s, [Resolved(c, i) EXCEPT !.pending = @ \cup {<<n, i>>}])
    BY <1>4 DEF InsertItem
  <2> DEFINE pending == c.pending \cup {<<n, i>>}
             locks == c.locks \cup {Update(<<"alias", n>>)}
             d == [Resolved(c, i) EXCEPT !.pending = pending]
             e == [Resolved(c, i) EXCEPT !.pending = pending, !.locks = locks]
  <2>2. n \in Names
    BY <1>1, <1>2 DEF Call
  <2>3. pending \in SUBSET (Names \X Items) /\ locks \in SUBSET Lock
    BY <1>1, <2>2 DEF Call, Lock, Update
  <2>4. e \in Call /\ CallOK(e)
    BY <1>1, <1>2, <1>4, <2>3, ResolvedOK DEF ItemInv
  <2>5. Needs(c) = {Update(<<"alias", n>>)}
    BY <1>1, NeedsCases
  <2>6. e = [d EXCEPT !.locks = @ \cup Needs(c)] /\ d.locks = c.locks /\ Goes(s, d)
    <3> HIDE DEF n
    <3> QED
      BY <2>1, <2>5, <1>1 DEF Resolved, Call
  <2>7. d \in Call
    <3>1. Resolved(c, i) \in [op : {"upload", "alias", "merge", "override", "require"},
             at : {"look", "insert", "lock", "source", "target", "commit"},
             names : Seq(Names), item : Items \cup {None}, other : Items \cup {None},
             scope : Scopes \cup {"none"}, locks : SUBSET Lock,
             pending : SUBSET (Names \X Items), resolved : SUBSET (Names \X Items), skip : BOOLEAN]
      <4> HIDE DEF pending, locks
      <4>1. d = [e EXCEPT !.locks = c.locks]
        BY <1>1 DEF Resolved, Call
      <4> QED
        BY <2>4, <1>1 DEF Call, Resolved
    <3> QED
      BY <3>1, <2>3 DEF Call
  <2> HIDE DEF d, e, c
  <2>8. CallOK([d EXCEPT !.locks = @ \cup Needs(c)])
    BY <2>4, <2>6
  <2> QED
    BY <1>1, <2>6, <2>7, <2>8, GoesOn DEF c
<1> QED
  BY <1>3, <1>4

LEMMA AliasStepsPreserve ==
    ASSUME ItemInv, NEW s \in Sessions, CheckAlias(s) \/ InsertAlias(s)
    PROVE  ItemInv'
<1> DEFINE c == call[s]
           n == Head(c.names)
<1>1. UNCHANGED Table
  BY DEF CheckAlias, InsertAlias
<1>2. CASE Ends(s)
  BY <1>1, <1>2, CallEnds
<1>3. CASE CheckAlias(s) /\ ~Ends(s)
  <2> DEFINE d == [c EXCEPT !.at = "insert"]
  <2>1. Busy(s) /\ c \in Call /\ CallOK(c) /\ c.op = "alias" /\ c.at = "look"
    BY <1>3, CallOfStep DEF CheckAlias
  <2>2. d \in Call /\ d.locks = c.locks
    BY <2>1 DEF Call
  <2>3. CallOK(d)
    BY <2>1 DEF CallOK, PendingOK, AliasOK, Call
  <2>4. call' = [call EXCEPT ![s] = d]
    BY <1>3 DEF CheckAlias
  <2>5. Apart(s, d.locks)
    BY <2>1, <2>2, HeldApart
  <2> HIDE DEF d
  <2> QED
    BY <1>1, <2>2, <2>3, <2>4, <2>5, CallChanges
<1>4. CASE InsertAlias(s) /\ ~Ends(s)
  <2> DEFINE d == [c EXCEPT !.at = "commit", !.pending = {<<n, c.item>>}]
             e == [d EXCEPT !.locks = @ \cup Needs(c)]
  <2>1. /\ Busy(s) /\ Free(s) /\ c \in Call /\ CallOK(c) /\ c.op = "alias" /\ c.at = "insert"
        /\ alias[n] = None /\ Goes(s, d)
    BY <1>4, CallOfStep DEF InsertAlias
  <2>2. c.item \in Items /\ c.names # <<>>
    BY <2>1 DEF CallOK, AliasOK
  <2>3. n \in Names
    BY <2>1, <2>2 DEF Call
  <2>4. d \in Call /\ d.locks = c.locks
    <3>1. {<<n, c.item>>} \in SUBSET (Names \X Items)
      BY <2>2, <2>3
    <3> HIDE DEF n
    <3> QED
      BY <2>1, <3>1 DEF Call
  <2>5. /\ e.op = "alias" /\ e.at = "commit" /\ e.names = c.names /\ e.item = c.item
        /\ e.pending = {<<n, c.item>>} /\ e.locks = c.locks \cup Needs(c)
    BY <2>1 DEF Call
  <2>6. Update(<<"alias", n>>) \in Needs(c)
    BY <2>1, NeedsCases
  <2> HIDE DEF e, n
  <2>7. CallOK(e)
    BY <2>1, <2>2, <2>5, <2>6 DEF CallOK, PendingOK, AliasOK
  <2> HIDE DEF d
  <2> QED
    BY <1>1, <2>1, <2>4, <2>7, GoesOn DEF e
<1> QED
  BY <1>2, <1>3, <1>4

LEMMA MergeStepsPreserve ==
    ASSUME ItemInv, NEW s \in Sessions, LockItems(s) \/ LockRows(s)
    PROVE  ItemInv'
<1> DEFINE c == call[s]
           d(at) == [c EXCEPT !.at = at]
           e(at) == [d(at) EXCEPT !.locks = @ \cup Needs(c)]
<1>1. UNCHANGED Table /\ Free(s)
  BY DEF LockItems, LockRows
<1>2. CASE LockItems(s) /\ Ends(s)
  BY <1>1, <1>2, CallEnds
<1>3. CASE LockItems(s) /\ ~Ends(s)
  <2>1. /\ Busy(s) /\ c \in Call /\ CallOK(c) /\ c.op = "merge" /\ c.at = "lock"
        /\ Active(c.item) /\ Active(c.other) /\ Goes(s, d("source"))
    BY <1>3, CallOfStep DEF LockItems, Mergeable
  <2>2. d("source") \in Call /\ d("source").locks = c.locks
    BY <2>1 DEF Call
  <2>3. Needs(c) = Merging(c)
    BY <2>1, NeedsCases
  <2>4. CallOK(e("source"))
    BY <2>1, <2>3 DEF CallOK, PendingOK, MergeOK, Call, Merging, Active
  <2> HIDE DEF d
  <2> QED
    BY <1>1, <2>1, <2>2, <2>4, GoesOn
<1>4. CASE LockRows(s)
  <2>1. PICK at \in {"target", "commit"} :
          /\ Busy(s) /\ c \in Call /\ CallOK(c) /\ c.op = "merge" /\ c.at \in {"source", "target"}
          /\ Goes(s, d(at))
    BY <1>4, CallOfStep DEF LockRows
  <2>2. d(at) \in Call /\ d(at).locks = c.locks
    BY <2>1 DEF Call
  <2>3. CallOK(e(at))
    BY <2>1 DEF CallOK, PendingOK, MergeOK, Call, Merging, Active
  <2> HIDE DEF d
  <2> QED
    BY <1>1, <2>1, <2>2, <2>3, GoesOn
<1> QED
  BY <1>2, <1>3, <1>4

LEMMA OverrideStepsPreserve ==
    ASSUME ItemInv, NEW s \in Sessions, CheckItem(s) \/ LockClasses(s) \/ InsertClass(s)
    PROVE  ItemInv'
<1> DEFINE c == call[s]
           d(at) == [c EXCEPT !.at = at]
           e(at) == [d(at) EXCEPT !.locks = @ \cup Needs(c)]
<1>1. UNCHANGED Table
  BY DEF CheckItem, LockClasses, InsertClass
<1>2. CASE CheckItem(s) /\ Ends(s)
  BY <1>1, <1>2, CallEnds
<1>3. CASE CheckItem(s) /\ ~Ends(s)
  <2>1. /\ Busy(s) /\ c \in Call /\ CallOK(c) /\ c.op = "override" /\ c.at = "look"
        /\ call' = [call EXCEPT ![s] = d("lock")]
    BY <1>3, CallOfStep DEF CheckItem
  <2>2. d("lock") \in Call /\ d("lock").locks = c.locks
    BY <2>1 DEF Call
  <2>3. CallOK(d("lock"))
    BY <2>1 DEF CallOK, PendingOK, OverrideOK, Call
  <2>4. Apart(s, d("lock").locks)
    BY <2>1, <2>2, HeldApart
  <2> HIDE DEF d
  <2> QED
    BY <1>1, <2>1, <2>2, <2>3, <2>4, CallChanges
<1>4. ASSUME NEW at \in {"insert", "commit"}, Busy(s), Free(s), c \in Call, CallOK(c),
             c.op = "override", c.at \in {"lock", "insert"}, Goes(s, d(at))
      PROVE  ItemInv'
  <2>1. d(at) \in Call /\ d(at).locks = c.locks
    BY <1>4 DEF Call
  <2>2. \A x \in Items \X Scopes : Update(<<"class", x>>) \in Needs(c) => x[1] = c.item
    <3>1. CASE c.at = "lock"
      <4>1. Needs(c) = {Update(<<"class", r>>) : r \in Rows(c.item)}
        BY <1>4, <3>1, NeedsCases
      <4> QED
        BY <4>1 DEF Rows, Update
    <3>2. CASE c.at = "insert"
      <4>1. Needs(c) = {Share(<<"item", c.item>>), Update(<<"class", <<c.item, c.scope>>>>)}
        BY <1>4, <3>2, NeedsCases
      <4> QED
        BY <4>1 DEF Share, Update
    <3> QED
      BY <1>4, <3>1, <3>2
  <2>3. CallOK(e(at))
    BY <1>4, <2>2 DEF CallOK, PendingOK, OverrideOK, Call
  <2> HIDE DEF d
  <2> QED
    BY <1>1, <1>4, <2>1, <2>3, GoesOn
<1>5. CASE LockClasses(s)
  <2>1. Busy(s) /\ c \in Call /\ CallOK(c) /\ c.op = "override" /\ c.at = "lock"
    BY <1>5, CallOfStep DEF LockClasses
  <2> QED
    BY <1>4, <1>5, <2>1 DEF LockClasses
<1>6. CASE InsertClass(s)
  <2>1. Busy(s) /\ c \in Call /\ CallOK(c) /\ c.op = "override" /\ c.at = "insert"
    BY <1>6, CallOfStep DEF InsertClass
  <2> QED
    BY <1>4, <1>6, <2>1 DEF InsertClass
<1> QED
  BY <1>2, <1>3, <1>5, <1>6

LEMMA LockItemPreserves ==
    ASSUME ItemInv, NEW s \in Sessions, LockItem(s)
    PROVE  ItemInv'
<1> DEFINE c == call[s]
           d == [c EXCEPT !.at = "commit"]
           e == [d EXCEPT !.locks = @ \cup Needs(c)]
<1>1. /\ Busy(s) /\ Free(s) /\ c \in Call /\ CallOK(c) /\ c.op = "require"
      /\ Goes(s, d) /\ UNCHANGED Table
  BY CallOfStep DEF LockItem
<1>2. d \in Call /\ d.locks = c.locks
  BY <1>1 DEF Call
<1>3. CallOK(e)
  BY <1>1 DEF CallOK, PendingOK, Call
<1> HIDE DEF d
<1> QED
  BY <1>1, <1>2, <1>3, GoesOn

LEMMA CancelPreserves ==
    ASSUME ItemInv, NEW s \in Sessions, Cancel(s)
    PROVE  ItemInv'
<1> DEFINE c == call[s]
           d == [c EXCEPT !.at = "commit", !.skip = TRUE, !.locks = Merging(c)]
<1>1. UNCHANGED Table
  BY DEF Cancel
<1>2. CASE Ends(s)
  BY <1>1, <1>2, CallEnds
<1>3. CASE ~Ends(s)
  <2>1. Busy(s) /\ c \in Call /\ CallOK(c) /\ c.op = "merge" /\ c.at \in {"source", "target"}
    BY <1>3, CallOfStep DEF Cancel, At
  <2>2. call' = [call EXCEPT ![s] = d]
    BY <1>3, <2>1 DEF Cancel, ItemInv, TypeOK
  <2>3. Merging(c) \subseteq c.locks
    BY <2>1 DEF CallOK, MergeOK
  <2>4. d \in Call /\ d.locks = Merging(c)
    BY <2>1, <2>3 DEF Call
  <2>5. CallOK(d)
    BY <2>1, <2>3 DEF CallOK, PendingOK, MergeOK, Call, Merging
  <2>6. Apart(s, d.locks)
    BY <2>1, <2>3, <2>4, HeldApart DEF Apart
  <2> HIDE DEF d
  <2> QED
    BY <1>1, <2>2, <2>4, <2>5, <2>6, CallChanges
<1> QED
  BY <1>2, <1>3

-----------------------------------------------------------------------------
(* The commits. *)

(* A commit of aliases writes only names that had none, and the names that  *)
(* other calls are about to give keep waiting for theirs.                    *)
LEMMA AliasesWritten ==
    ASSUME ItemInv, NEW s \in Sessions, Busy(s), alias' = WithAliases(call[s].pending)
    PROVE  /\ alias' \in [Names -> Items \cup {None}]
           /\ \A p \in call[s].pending : alias'[p[1]] = p[2]
           /\ \A n \in Names : alias[n] # None => alias'[n] = alias[n]
           /\ \A t \in Sessions \ {s} : Busy(t) =>
                \A p \in call[t].pending : alias'[p[1]] = None
<1> DEFINE P == call[s].pending
<1>1. /\ P \subseteq Names \X Items
      /\ \A p \in P : /\ alias[p[1]] = None
                      /\ Update(<<"alias", p[1]>>) \in call[s].locks
                      /\ \A q \in P : p[1] = q[1] => p = q
  BY BusyCall DEF ItemInv, CallOK, PendingOK, Call
<1>2. alias' = [n \in Names |-> IF \E p \in P : p[1] = n
                                THEN (CHOOSE p \in P : p[1] = n)[2] ELSE alias[n]]
  BY DEF WithAliases
<1>3. alias \in [Names -> Items \cup {None}]
  BY DEF ItemInv, TypeOK
<1>4. ASSUME NEW t \in Sessions \ {s}, Busy(t), NEW p \in call[t].pending
      PROVE  alias'[p[1]] = None
  <2>1. /\ p \in Names \X Items /\ alias[p[1]] = None
        /\ Update(<<"alias", p[1]>>) \in call[t].locks
    BY <1>4, BusyCall DEF ItemInv, CallOK, PendingOK, Call
  <2>2. ASSUME NEW q \in P, q[1] = p[1]
        PROVE  FALSE
    <3>1. Conflict(Update(<<"alias", p[1]>>), Update(<<"alias", p[1]>>))
      BY DEF Conflict, Update
    <3> QED
      BY <1>1, <1>4, <2>1, <2>2, <3>1 DEF ItemInv, LocksExclude
  <2> HIDE DEF P
  <2> QED
    BY <1>2, <2>1, <2>2
<1> HIDE DEF P
<1>5. \A n \in Names : \A p \in P : p[1] = n => (CHOOSE q \in P : q[1] = n) = p
  BY <1>1
<1>6. \A p \in P : p[1] \in Names /\ p[2] \in Items
  BY <1>1
<1>7. alias' \in [Names -> Items \cup {None}]
  <2> SUFFICES ASSUME NEW n \in Names
               PROVE  alias'[n] \in Items \cup {None}
    BY <1>2
  <2> QED
    BY <1>2, <1>3, <1>5, <1>6
<1>8. \A p \in P : alias'[p[1]] = p[2]
  BY <1>2, <1>5, <1>6
<1>9. \A n \in Names : alias[n] # None => alias'[n] = alias[n]
  BY <1>1, <1>2
<1> QED
  BY <1>4, <1>7, <1>8, <1>9 DEF P

LEMMA AliasCommitsPreserve ==
    ASSUME ItemInv, NEW s \in Sessions, CommitUpload(s) \/ CommitAlias(s)
    PROVE  ItemInv'
<1> DEFINE c == call[s]
<1>1. /\ Busy(s) /\ c \in Call /\ CallOK(c)
      /\ \/ c.op = "upload" /\ activities' = activities \cup c.resolved
         \/ activities' = activities
      /\ alias' = WithAliases(c.pending) /\ UNCHANGED <<into, class>>
      /\ call' = [call EXCEPT ![s] = Idle]
  BY CallOfStep DEF CommitUpload, CommitAlias, Ends
<1>2. /\ alias' \in [Names -> Items \cup {None}]
      /\ \A p \in c.pending : alias'[p[1]] = p[2]
      /\ \A n \in Names : alias[n] # None => alias'[n] = alias[n]
      /\ \A t \in Sessions \ {s} : Busy(t) =>
           \A p \in call[t].pending : alias'[p[1]] = None
  BY <1>1, AliasesWritten
<1>3. \A t \in Sessions : call'[t] = IF t = s THEN Idle ELSE call[t]
  BY <1>1 DEF ItemInv, TypeOK
<1>4. TypeOK'
  BY <1>1, <1>2 DEF ItemInv, TypeOK, Call
<1>5. LocksExclude'
  BY <1>3 DEF ItemInv, LocksExclude, Busy, Idle
<1>6. NoCircle(Items, into)'
  BY <1>1 DEF ItemInv
<1>7. ActivitiesOK'
  <2> SUFFICES ASSUME NEW a \in activities'
               PROVE  alias'[a[1]] # None /\ EndOf(Items, into)[a[2]] = EndOf(Items, into)[alias'[a[1]]]
    BY <1>1 DEF ActivitiesOK
  <2>1. a[1] \in Names /\ a[2] \in Items
    BY <1>4 DEF TypeOK
  <2>2. CASE a \in activities
    BY <1>2, <2>1, <2>2 DEF ItemInv, ActivitiesOK
  <2>3. CASE a \notin activities
    <3>1. a \in c.pending \/ (alias[a[1]] # None /\ EndOf(Items, into)[a[2]] = EndOf(Items, into)[alias[a[1]]])
      BY <1>1, <2>3 DEF CallOK, UploadOK
    <3> QED
      BY <1>2, <2>1, <3>1, ItemAssumption
  <2> QED
    BY <2>2, <2>3
<1>8. ASSUME NEW t \in Sessions, Busy(t)'
      PROVE  CallOK(call[t])'
  <2>1. t # s /\ call'[t] = call[t] /\ Busy(t)
    BY <1>3, <1>8 DEF Busy, Idle
  <2>2. CallOK(call[t]) /\ call[t] \in Call
    BY <2>1, BusyCall DEF ItemInv
  <2>3. PendingOK(call[t])'
    BY <1>2, <2>1, <2>2 DEF CallOK, PendingOK
  <2>4. call[t].op = "upload" => UploadOK(call[t])'
    <3>1. \A r \in call[t].resolved : r[1] \in Names
      BY <2>2 DEF Call
    <3> QED
      BY <1>1, <1>2, <2>1, <2>2, <3>1 DEF CallOK, UploadOK
  <2> QED
    BY <1>1, <2>1, <2>2, <2>3, <2>4 DEF CallOK, AliasOK, MergeOK, OverrideOK, Active
<1> QED
  BY <1>4, <1>5, <1>6, <1>7, <1>8 DEF ItemInv

(* What a merge finds at its commit, and what becomes of the redirects.     *)
LEMMA MergeOfItems ==
    ASSUME ItemInv, NEW s \in Sessions, CommitMerge(s)
    PROVE  LET a == call[s].item
               b == call[s].other
           IN  /\ Busy(s) /\ a \in Items /\ b \in Items /\ a # b
               /\ into' \in [Items -> Items] /\ into' = [into EXCEPT ![a] = b]
               /\ Merging(call[s]) \subseteq call[s].locks
               /\ NoCircle(Items, into')
               /\ \A i \in Items :
                    EndOf(Items, into')[i] = IF EndOf(Items, into)[i] = a THEN b ELSE EndOf(Items, into)[i]
<1> DEFINE a == call[s].item
           b == call[s].other
<1>1. Busy(s) /\ CallOK(call[s]) /\ call[s].op = "merge" /\ call[s].at = "commit"
  BY CallOfStep DEF CommitMerge
<1>2. /\ a \in Items /\ b \in Items /\ a # b /\ into[a] = a /\ into[b] = b
      /\ Merging(call[s]) \subseteq call[s].locks
  BY <1>1 DEF CallOK, MergeOK, Active
<1>3. into \in [Items -> Items] /\ NoCircle(Items, into) /\ into' = [into EXCEPT ![a] = b]
  BY DEF ItemInv, TypeOK, CommitMerge
<1>4. into' \in [Items -> Items]
  BY <1>2, <1>3
<1> HIDE DEF a, b
<1>5. /\ NoCircle(Items, into')
      /\ \A i \in Items : EndOf(Items, into')[i] = IF EndOf(Items, into)[i] = a THEN b ELSE EndOf(Items, into)[i]
  <2> DEFINE f == into
             g == into'
  <2>1. /\ f \in [Items -> Items] /\ NoCircle(Items, f) /\ f[a] = a /\ f[b] = b
        /\ g \in [Items -> Items] /\ g[a] = b /\ \A k \in Items \ {a} : g[k] = f[k]
    BY <1>2, <1>3, <1>4
  <2>2. a \in Items /\ b \in Items /\ a # b
    BY <1>2
  <2> HIDE DEF f, g
  <2>3. NoCircle(Items, g) /\ \A i \in Items : EndOf(Items, g)[i] = IF EndOf(Items, f)[i] = a THEN b ELSE EndOf(Items, f)[i]
    BY <2>1, <2>2, MergedEnds
  <2> QED
    BY <2>3 DEF f, g
<1> QED
  BY <1>1, <1>2, <1>3, <1>4, <1>5 DEF a, b

LEMMA CommitMergePreserves ==
    ASSUME ItemInv, NEW s \in Sessions, CommitMerge(s)
    PROVE  ItemInv'
<1> DEFINE c == call[s]
<1>1. /\ Busy(s) /\ c.item \in Items /\ c.other \in Items /\ c.item # c.other
      /\ into' \in [Items -> Items] /\ into' = [into EXCEPT ![c.item] = c.other]
      /\ Merging(c) \subseteq c.locks /\ NoCircle(Items, into')
      /\ \A i, j \in Items : EndOf(Items, into)[i] = EndOf(Items, into)[j] => EndOf(Items, into')[i] = EndOf(Items, into')[j]
  BY MergeOfItems
<1>2. /\ class' \in {class, Reconciled(c.item, c.other)}
      /\ UNCHANGED <<alias, activities>> /\ call' = [call EXCEPT ![s] = Idle]
  BY DEF CommitMerge, Ends
<1>3. \A t \in Sessions : call'[t] = IF t = s THEN Idle ELSE call[t]
  BY <1>2 DEF ItemInv, TypeOK
<1>4. TypeOK'
  <2>1. class' \in SUBSET (Items \X Scopes)
    BY <1>1, <1>2 DEF ItemInv, TypeOK, Reconciled, Rows
  <2> QED
    BY <1>1, <1>2, <2>1 DEF ItemInv, TypeOK
<1>5. LocksExclude'
  BY <1>3 DEF ItemInv, LocksExclude, Busy, Idle
<1>6. ASSUME NEW n \in Names, NEW i \in Items, alias[n] # None,
             EndOf(Items, into)[i] = EndOf(Items, into)[alias[n]]
      PROVE  EndOf(Items, into')[i] = EndOf(Items, into')[alias[n]]
  <2>1. alias[n] \in Items
    BY <1>6 DEF ItemInv, TypeOK
  <2> QED
    BY <1>1, <1>6, <2>1
<1>7. ActivitiesOK'
  <2>1. \A a \in activities : a[1] \in Names /\ a[2] \in Items
    BY DEF ItemInv, TypeOK
  <2> QED
    BY <1>2, <1>6, <2>1 DEF ItemInv, ActivitiesOK
<1>8. ASSUME NEW t \in Sessions, Busy(t)'
      PROVE  CallOK(call[t])'
  <2>1. t # s /\ call'[t] = call[t] /\ Busy(t)
    BY <1>3, <1>8 DEF Busy, Idle
  <2>2. CallOK(call[t]) /\ call[t] \in Call
    BY <2>1, BusyCall DEF ItemInv
  <2>3. PendingOK(call[t])'
    BY <1>2, <2>1, <2>2 DEF CallOK, PendingOK
  <2>4. call[t].op = "upload" => UploadOK(call[t])'
    <3>1. \A r \in call[t].resolved : r[1] \in Names /\ r[2] \in Items
      BY <2>2 DEF Call
    <3> QED
      BY <1>2, <1>6, <2>1, <2>2, <3>1 DEF CallOK, UploadOK
  <2>5. call[t].op = "merge" => MergeOK(call[t])'
    <3> SUFFICES ASSUME call[t].op = "merge", call[t].at # "lock"
                 PROVE  (Active(call[t].item) /\ Active(call[t].other))'
      BY <2>1, <2>2 DEF CallOK, MergeOK, Merging
    <3>1. /\ call[t].item \in Items /\ call[t].other \in Items
          /\ Active(call[t].item) /\ Active(call[t].other)
          /\ Merging(call[t]) \subseteq call[t].locks
      BY <2>2 DEF CallOK, MergeOK
    <3>2. \A l : Update(l) \in call[t].locks => Update(l) \notin c.locks
      BY <1>1, <2>1 DEF ItemInv, LocksExclude, Conflict, Update
    <3>3. call[t].item # c.item /\ call[t].other # c.item
      BY <1>1, <3>1, <3>2 DEF Merging
    <3> QED
      BY <1>1, <2>1, <3>1, <3>3 DEF Active, ItemInv, TypeOK
  <2> QED
    BY <2>1, <2>2, <2>3, <2>4, <2>5 DEF CallOK, AliasOK, OverrideOK
<1> QED
  BY <1>1, <1>4, <1>5, <1>7, <1>8 DEF ItemInv

LEMMA OtherCommitsPreserve ==
    ASSUME ItemInv, NEW s \in Sessions, CommitOverride(s) \/ CommitSet(s)
    PROVE  ItemInv'
<1> DEFINE c == call[s]
<1>1. /\ Busy(s) /\ c \in Call /\ CallOK(c)
      /\ c.op = "override" \/ UNCHANGED class
      /\ class' = Overridden(c) \/ UNCHANGED class
      /\ UNCHANGED <<into, alias, activities>> /\ call' = [call EXCEPT ![s] = Idle]
  BY CallOfStep DEF CommitOverride, CommitSet, Ends
<1>2. \A t \in Sessions : call'[t] = IF t = s THEN Idle ELSE call[t]
  BY <1>1 DEF ItemInv, TypeOK
<1>3. class' \in SUBSET (Items \X Scopes)
  <2>1. c.op = "override" => <<c.item, c.scope>> \in Items \X Scopes
    BY <1>1 DEF CallOK, OverrideOK
  <2> QED
    BY <1>1, <2>1 DEF ItemInv, TypeOK, Overridden
<1>4. TypeOK'
  BY <1>1, <1>3 DEF ItemInv, TypeOK
<1>5. LocksExclude'
  BY <1>2 DEF ItemInv, LocksExclude, Busy, Idle
<1>6. NoCircle(Items, into)' /\ ActivitiesOK'
  BY <1>1 DEF ItemInv, ActivitiesOK
<1>7. ASSUME NEW t \in Sessions, Busy(t)'
      PROVE  CallOK(call[t])'
  <2>1. t # s /\ call'[t] = call[t] /\ Busy(t)
    BY <1>2, <1>7 DEF Busy, Idle
  <2>2. CallOK(call[t])
    BY <2>1 DEF ItemInv
  <2> QED
    BY <1>1, <2>1, <2>2 DEF CallOK, PendingOK, UploadOK, AliasOK, MergeOK, OverrideOK, Active
<1> QED
  BY <1>4, <1>5, <1>6, <1>7 DEF ItemInv

-----------------------------------------------------------------------------
LEMMA InitInv == Init => ItemInv
<1> SUFFICES ASSUME Init
             PROVE  ItemInv
  OBVIOUS
<1>1. TypeOK
  BY ItemAssumption DEF Init, OfficeInit, TypeOK
<1>2. NoCircle(Items, into)
  BY DEF Init, OfficeInit, NoCircle
<1>3. \A s \in Sessions : ~Busy(s)
  BY DEF Init, OfficeInit, Busy, Idle
<1> QED
  BY <1>1, <1>2, <1>3 DEF Init, OfficeInit, ItemInv, LocksExclude, ActivitiesOK

LEMMA NextInv == ItemInv /\ [Next]_vars => ItemInv'
<1> SUFFICES ASSUME ItemInv, [Next]_vars
             PROVE  ItemInv'
  OBVIOUS
<1>1. CASE UNCHANGED vars
  BY <1>1 DEF vars, office, ItemInv, TypeOK, LocksExclude, ActivitiesOK, NoCircle, Busy, CallOK,
              PendingOK, UploadOK, AliasOK, MergeOK, OverrideOK, Active
<1>2. ASSUME NEW s \in Sessions,
             \/ StartUpload(s) \/ StartAlias(s) \/ StartMerge(s) \/ StartOverride(s) \/ StartRequire(s)
      PROVE  ItemInv'
  BY <1>2, StartsPreserve
<1>3. ASSUME NEW s \in Sessions, Upload(s) \/ AddAlias(s)
      PROVE  ItemInv'
  BY <1>3, LookUpPreserves, InsertItemPreserves, AliasStepsPreserve, AliasCommitsPreserve
  DEF Upload, AddAlias
<1>4. ASSUME NEW s \in Sessions, Merge(s) \/ Override(s) \/ Require(s)
      PROVE  ItemInv'
  BY <1>4, MergeStepsPreserve, CommitMergePreserves, OverrideStepsPreserve, LockItemPreserves,
     OtherCommitsPreserve DEF Merge, Override, Require
<1>5. ASSUME NEW s \in Sessions, Cancel(s) \/ RollBack(s)
      PROVE  ItemInv'
  BY <1>5, CancelPreserves, CallEnds DEF RollBack
<1> QED
  BY <1>1, <1>2, <1>3, <1>4, <1>5 DEF Next

(* In every state the tables are typed, locks exclude one another, and each *)
(* call finds what it has locked as it left it.                              *)
THEOREM ItemsConsistent == Spec => []ItemInv
BY InitInv, NextInv, PTL DEF Spec

(* However many merges run at once, redirects lead to an active item.       *)
THEOREM RedirectsAlwaysEnd == Spec => []RedirectsEnd
<1>1. ItemInv => RedirectsEnd
  BY DEF ItemInv, NoCircle, Closed, RedirectsEnd, Active
<1> QED
  BY <1>1, ItemsConsistent, PTL

(* Two activities of one name denote one item, whichever uploads imported   *)
(* them, whoever made the item or the alias, and whatever was merged since.  *)
THEOREM OneItemPerName == Spec => []SameNameSameItem
<1>1. ItemInv => SameNameSameItem
  <2> SUFFICES ASSUME ItemInv, NEW a \in activities
               PROVE  alias[a[1]] # None /\ Canonical(a[2]) = Canonical(alias[a[1]])
    BY DEF SameNameSameItem
  <2>1. alias[a[1]] # None /\ EndOf(Items, into)[a[2]] = EndOf(Items, into)[alias[a[1]]]
    BY DEF ItemInv, ActivitiesOK
  <2>2. a[1] \in Names /\ a[2] \in Items
    BY DEF ItemInv, TypeOK
  <2>3. alias[a[1]] \in Items
    BY <2>1, <2>2 DEF ItemInv, TypeOK
  <2> QED
    BY <2>1, <2>2, <2>3, CanonicalIsEnd
<1> QED
  BY <1>1, ItemsConsistent, PTL

-----------------------------------------------------------------------------
(* What a step does to the classifications that an item has or inherits. *)

LEMMA OverridesReplace ==
    ASSUME ItemInv, NEW s \in Sessions, CommitOverride(s), NEW i \in Items, Classified(i)
    PROVE  \E x \in class' : x[1] = i
<1> DEFINE c == call[s]
<1>1. CallOK(c) /\ c.op = "override" /\ class' = Overridden(c) /\ class \subseteq Items \X Scopes
  BY CallOfStep DEF CommitOverride, ItemInv, TypeOK
<1>2. CASE i = c.item
  <2>1. <<c.item, c.scope>> \in class'
    BY <1>1 DEF Overridden
  <2> QED
    BY <1>2, <2>1
<1>3. CASE i # c.item
  <2>1. PICK x \in class : x[1] = i
    BY DEF Classified, Rows
  <2>2. x \in Items \X Scopes /\ Update(<<"class", x>>) \notin c.locks
    BY <1>1, <1>3, <2>1 DEF CallOK, OverrideOK
  <2>3. x \in class'
    BY <1>1, <2>1, <2>2 DEF Overridden
  <2> QED
    BY <2>1, <2>3
<1> QED
  BY <1>2, <1>3

LEMMA StepKeepsClassified ==
    ASSUME ItemInv, [Next]_vars, NEW i \in Items, Classified(Canonical(i)),
           ~ \E s \in Sessions : CommitMerge(s) /\ call[s].skip
    PROVE  Classified(Canonical(i))'
<1> DEFINE k == EndOf(Items, into)[i]
           l == EndOf(Items, into')[i]
<1>1. Canonical(i) = k /\ Canonical(i)' = l
  BY DEF Canonical, EndOf
<1>2. k \in Items
  BY EndIsActive DEF ItemInv, TypeOK
<1>3. Rows(k) # {}
  BY <1>1 DEF Classified
<1>4. SUFFICES \E x \in class' : x[1] = l
  <2>1. {x \in class' : x[1] = l} = Rows(Canonical(i))'
    BY <1>1 DEF Rows
  <2> QED
    BY <2>1 DEF Classified
<1>5. CASE UNCHANGED <<into, class>>
  BY <1>3, <1>5 DEF Rows
<1>6. ASSUME NEW s \in Sessions, CommitOverride(s)
      PROVE  \E x \in class' : x[1] = l
  <2>1. Classified(k)
    BY <1>3 DEF Classified
  <2>2. l = k
    BY <1>6 DEF CommitOverride
  <2> HIDE DEF k, l
  <2> QED
    BY <1>2, <1>6, <2>1, <2>2, OverridesReplace
<1>7. ASSUME NEW s \in Sessions, CommitMerge(s)
      PROVE  \E x \in class' : x[1] = l
  <2> DEFINE a == call[s].item
             b == call[s].other
  <2>1. l = IF k = a THEN b ELSE k
    BY <1>7, MergeOfItems
  <2>2. \/ class' = (class \ Rows(a)) \cup {<<b, r[2]>> : r \in Rows(a)}
        \/ class' = class /\ SharedScope(a, b)
    BY <1>7 DEF CommitMerge, Reconciled
  <2>3. PICK x \in class : x[1] = k
    BY <1>3 DEF Rows
  <2>4. CASE k = a
    <3>1. CASE class' = class /\ SharedScope(a, b)
      <4>1. PICK y \in class : y[1] = b
        BY <3>1 DEF SharedScope, Rows
      <4> QED
        BY <2>1, <2>4, <3>1, <4>1
    <3>2. CASE class' = (class \ Rows(a)) \cup {<<b, r[2]>> : r \in Rows(a)}
      <4>1. <<b, x[2]>> \in class'
        BY <2>3, <2>4, <3>2 DEF Rows
      <4> QED
        BY <2>1, <2>4, <4>1
    <3> QED
      BY <2>2, <3>1, <3>2
  <2>5. CASE k # a
    <3>1. x \in class'
      BY <2>2, <2>3, <2>5 DEF Rows
    <3> QED
      BY <2>1, <2>3, <2>5, <3>1
  <2> QED
    BY <2>4, <2>5
<1>8. \/ UNCHANGED <<into, class>>
      \/ \E s \in Sessions : CommitOverride(s) \/ CommitMerge(s)
  BY DEF Next, vars, office, Table, Begin, StartUpload, StartAlias, StartMerge, StartOverride, StartRequire,
         Upload, AddAlias, Merge, Override, Require, LookUp, InsertItem, CommitUpload, CheckAlias,
         InsertAlias, CommitAlias, LockItems, LockRows, CheckItem, LockClasses, InsertClass,
         LockItem, CommitSet, Cancel, RollBack
<1> QED
  BY <1>5, <1>6, <1>7, <1>8

(* No override and no merge leaves an item that was classified without a    *)
(* classification, but for a merge that lost a deadlock.                     *)
THEOREM ClassificationsStay == Spec => ClassifiedStaysClassified
<1>1. ItemInv /\ [Next]_vars =>
        [\A i \in Items : Classified(Canonical(i)) =>
            \/ Classified(Canonical(i))'
            \/ \E s \in Sessions : CommitMerge(s) /\ call[s].skip]_vars
  BY StepKeepsClassified
<1> QED
  BY <1>1, ItemsConsistent, PTL DEF Spec, ClassifiedStaysClassified
===============================================================================
