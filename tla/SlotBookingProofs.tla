------------------------- MODULE SlotBookingProofs -------------------------
(***************************************************************************)
(* Theorems about SlotBooking, for every set of bookings, places, slots and*)
(* concurrent calls.                                                       *)
(***************************************************************************)
EXTENDS SlotBooking, FiniteSetTheorems, TLAPS

-----------------------------------------------------------------------------
(* The two overlap tests.                                                   *)

(* crud/slot_booking.py 120-135 and 978-984 write the same condition twice, *)
(* as the OR of an SQL filter and as one comparison of the ends: for        *)
(* windows that end after they start the two agree.                         *)
THEOREM OverlapTestsAgree ==
  ASSUME NEW v \in Row, NEW w \in Row, v.from < v.to, w.from < w.to
  PROVE  Overlapping(v, w) <=> TargetsOverlap(v, w)
BY DEF Overlapping, TargetsOverlap, Row

(* Being in one another's way is mutual.                                    *)
LEMMA OverlapSymmetric ==
  ASSUME NEW v \in Row, NEW w \in Row
  PROVE  TargetsOverlap(v, w) <=> TargetsOverlap(w, v)
BY DEF TargetsOverlap, Row

-----------------------------------------------------------------------------
(* Type correctness.                                                        *)

LEMMA AbsentType == Absent \in Row /\ Blank \in [Bookings -> Row]
<1>1. (CHOOSE p \in Places : TRUE) \in Places
  BY BookingAssumption
<1>2. Absent \in Row
  BY <1>1 DEF Absent, Row
<1> QED
  BY <1>2 DEF Blank

LEMMA IdleType == Idle \in Session
BY AbsentType DEF Idle, Session, Waiting

LEMMA AtType ==
  ASSUME NEW row \in Row, NEW p \in Places, NEW s \in Nat \X Nat
  PROVE  At(row, p, s) \in Row
BY DEF At, Row

LEMMA StatusType ==
  ASSUME NEW row \in Row, NEW s \in Status \cup {"absent"}
  PROVE  [row EXCEPT !.status = s] \in Row
BY DEF Row

LEMMA OneRowType ==
  ASSUME NEW b \in Bookings, NEW row \in Row
  PROVE  OneRow(b, row) \in [Bookings -> Row]
BY AbsentType DEF OneRow

LEMMA WrittenType ==
  ASSUME NEW row \in Row, NEW old \in Row, NEW new \in Row
  PROVE  Written(row, old, new) \in Row
BY DEF Written, Row

LEMMA StoreType ==
  ASSUME TypeOK, NEW loaded \in [Bookings -> Row], NEW target \in [Bookings -> Row],
         Store(loaded, target)
  PROVE  book' \in [Bookings -> Row]
BY WrittenType DEF Store, TypeOK

LEMMA LoadedType ==
  ASSUME TypeOK, NEW loaded \in [Bookings -> Row], NEW rows
  PROVE  LoadedToo(loaded, rows) \in [Bookings -> Row]
BY DEF LoadedToo, TypeOK

LEMMA DeniedType ==
  ASSUME NEW target \in [Bookings -> Row], NEW rows
  PROVE  Denied(target, rows) \in [Bookings -> Row]
<1>1. \A b \in Bookings : [target[b] EXCEPT !.status = "denied"] \in Row
  BY StatusType DEF Status
<1> QED
  BY <1>1 DEF Denied

(* The fields of a session.                                                 *)
LEMMA SessionFields ==
  ASSUME TypeOK, NEW r \in Requests
  PROVE  /\ req[r] \in Session
         /\ req[r].at \subseteq Bookings /\ req[r].want \subseteq Bookings
         /\ req[r].held \subseteq Bookings
         /\ req[r].loaded \in [Bookings -> Row] /\ req[r].target \in [Bookings -> Row]
BY DEF TypeOK, Session

LEMMA RequestsType ==
  ASSUME TypeOK, NEW r \in Requests, NEW s \in Session, req' = [req EXCEPT ![r] = s]
  PROVE  req' \in [Requests -> Session]
BY DEF TypeOK

LEMMA RollbackType ==
  ASSUME TypeOK, NEW r \in Requests, Rollback(r)
  PROVE  TypeOK'
BY IdleType DEF TypeOK, Rollback

LEMMA CompetingType ==
  ASSUME NEW rows
  PROVE  Competing(rows) \subseteq Bookings
BY DEF Competing, PendingAround, InStatus

LEMMA ReceiveType ==
  ASSUME TypeOK, NEW r \in Requests, Receive(r)
  PROVE  TypeOK'
<1>1. ASSUME NEW role \in Roles, NEW ids \in SUBSET Fresh, NEW s \in Slots,
             ReceiveCreate(r, role, ids, s)
      PROVE  TypeOK'
  <2>1. PICK place \in [ids -> Places] :
          req' = [req EXCEPT ![r] =
            [Idle EXCEPT !.pc = "insert", !.kind = "create", !.at = ids,
                         !.target = [b \in Bookings |->
                            IF b \in ids THEN At([Absent EXCEPT !.status = NewStatus(role)], place[b], s)
                            ELSE Absent]]]
    BY <1>1 DEF ReceiveCreate
  <2>2. [Absent EXCEPT !.status = NewStatus(role)] \in Row
    BY StatusType, AbsentType DEF NewStatus, Status
  <2>3. \A b \in ids : At([Absent EXCEPT !.status = NewStatus(role)], place[b], s) \in Row
    BY <2>2, AtType, BookingAssumption
  <2>4. ids \subseteq Bookings
    BY DEF Fresh, InStatus
  <2>5. [Idle EXCEPT !.pc = "insert", !.kind = "create", !.at = ids,
                     !.target = [b \in Bookings |->
                        IF b \in ids THEN At([Absent EXCEPT !.status = NewStatus(role)], place[b], s)
                        ELSE Absent]] \in Session
    BY <2>3, <2>4, IdleType, AbsentType DEF Session, Calls
  <2> QED
    BY <1>1, <2>1, <2>5 DEF ReceiveCreate, TypeOK
<1>2. ASSUME NEW b \in Bookings, NEW status \in Status, NEW p \in Places,
             NEW s \in Slots \cup {<<book[b].from, book[b].to>>},
             Update(r, b, At([book[b] EXCEPT !.status = status], p, s))
      PROVE  TypeOK'
  <2> DEFINE new == At([book[b] EXCEPT !.status = status], p, s)
  <2>1. book[b] \in Row /\ s \in Nat \X Nat
    BY BookingAssumption DEF TypeOK, Row
  <2>2. new \in Row
    BY <2>1, StatusType, AtType
  <2>3. [Idle EXCEPT !.pc = "flush", !.kind = "update", !.at = {b}, !.want = {b},
                     !.loaded = OneRow(b, book[b]), !.target = OneRow(b, new)] \in Session
    BY <2>1, <2>2, OneRowType, IdleType DEF Session, Calls, Waiting
  <2> QED
    BY <1>2, <2>3 DEF Update, TypeOK
<1>3. ASSUME NEW b \in Bookings, NEW status \in Status, SetStatus(r, b, status)
      PROVE  TypeOK'
  <2>1. book[b] \in Row /\ [book[b] EXCEPT !.status = status] \in Row
    BY StatusType DEF TypeOK
  <2>2. [Idle EXCEPT !.pc = "own", !.kind = "status", !.at = {b}, !.want = {b},
                     !.loaded = OneRow(b, book[b]),
                     !.target = OneRow(b, [book[b] EXCEPT !.status = status])] \in Session
    BY <2>1, OneRowType, IdleType DEF Session, Calls, Waiting
  <2> QED
    BY <1>3, <2>2 DEF SetStatus, TypeOK
<1>4. ASSUME NEW b \in Bookings, Delete(r, b)
      PROVE  TypeOK'
  <2>1. book[b] \in Row /\ [book[b] EXCEPT !.status = "cancelled"] \in Row
    BY StatusType DEF TypeOK, Status
  <2>2. [Idle EXCEPT !.pc = "flush", !.kind = "delete", !.at = {b}, !.want = {b},
                     !.loaded = OneRow(b, book[b]),
                     !.target = OneRow(b, [book[b] EXCEPT !.status = "cancelled"])] \in Session
    BY <2>1, OneRowType, IdleType DEF Session, Calls, Waiting
  <2> QED
    BY <1>4, <2>2 DEF Delete, TypeOK
<1>5. ASSUME NEW ids \in SUBSET Bookings, NEW down \in BOOLEAN, Reschedule(r, ids, down)
      PROVE  TypeOK'
  <2>1. PICK place \in [ids -> Places], slot \in [ids -> Slots] :
          req' = [req EXCEPT ![r] =
            [Idle EXCEPT !.pc = "select", !.kind = "reschedule", !.at = ids,
                         !.want = ids, !.down = down,
                         !.target = [b \in Bookings |->
                            IF b \in ids THEN At(Absent, place[b], slot[b]) ELSE Absent]]]
    BY <1>5 DEF Reschedule
  <2>2. \A b \in ids : At(Absent, place[b], slot[b]) \in Row
    BY AbsentType, AtType, BookingAssumption
  <2>3. [Idle EXCEPT !.pc = "select", !.kind = "reschedule", !.at = ids,
                     !.want = ids, !.down = down,
                     !.target = [b \in Bookings |->
                        IF b \in ids THEN At(Absent, place[b], slot[b]) ELSE Absent]] \in Session
    BY <2>2, IdleType, AbsentType DEF Session, Calls, Waiting
  <2> QED
    BY <1>5, <2>1, <2>3 DEF Reschedule, TypeOK
<1> QED
  BY <1>1, <1>2, <1>3, <1>4, <1>5 DEF Receive

LEMMA StepType ==
  ASSUME TypeOK, NEW r \in Requests, Step(r) \/ LockRow(r) \/ Database(r)
  PROVE  TypeOK'
<1> USE SessionFields
<1>1. CASE InsertRows(r)
  <2> DEFINE competing == Competing(NewRows(r))
             loaded == LoadedToo(req[r].loaded, competing)
             target == Denied(LoadedToo(req[r].target, competing), competing)
  <2>1. competing \subseteq Bookings
    BY CompetingType
  <2>2. loaded \in [Bookings -> Row] /\ target \in [Bookings -> Row]
    BY LoadedType, DeniedType
  <2>3. req' = [req EXCEPT ![r] = [req[r] EXCEPT !.pc = "flush", !.want = competing,
                                                 !.loaded = loaded, !.target = target]]
    BY <1>1 DEF InsertRows, TypeOK
  <2>4. [req[r] EXCEPT !.pc = "flush", !.want = competing,
                       !.loaded = loaded, !.target = target] \in Session
    BY <2>1, <2>2 DEF Session, Waiting
  <2> QED
    BY <1>1, <2>3, <2>4, RequestsType DEF InsertRows, TypeOK
<1>2. CASE LockSlot(r)
  <2> DEFINE want == SlotRows(r) \ req[r].held
  <2>1. want \subseteq Bookings
    BY DEF SlotRows
  <2>2. req' = [req EXCEPT ![r] = [req[r] EXCEPT !.pc = "slot", !.want = want]]
    BY <1>2 DEF LockSlot, TypeOK
  <2>3. [req[r] EXCEPT !.pc = "slot", !.want = want] \in Session
    BY <2>1 DEF Session, Waiting
  <2> QED
    BY <1>2, <2>2, <2>3, RequestsType DEF LockSlot, TypeOK
<1>3. CASE Approve(r)
  <2> DEFINE denied == OthersLocked(r) \cap InStatus({"pending"})
             loaded == LoadedToo(req[r].loaded, denied)
             target == LoadedToo(req[r].target, denied)
  <2>1. loaded \in [Bookings -> Row] /\ Denied(target, denied) \in [Bookings -> Row]
    BY LoadedType, DeniedType
  <2> QED
    BY <1>3, <2>1, StoreType, IdleType DEF Approve, TypeOK
<1>4. CASE ChangeStatus(r)
  BY <1>4, StoreType, IdleType DEF ChangeStatus, TypeOK
<1>5. CASE Select(r)
  <2> DEFINE rows == [b \in Bookings |-> IF b \in req[r].at THEN book[b] ELSE Absent]
             target == [b \in Bookings |-> [req[r].target[b] EXCEPT !.status = rows[b].status]]
  <2>1. rows \in [Bookings -> Row]
    BY AbsentType DEF TypeOK
  <2>2. \A b \in Bookings : rows[b].status \in Status \cup {"absent"}
    BY <2>1 DEF Row
  <2>3. target \in [Bookings -> Row]
    BY <2>2, StatusType
  <2>4. req' = [req EXCEPT ![r] = [req[r] EXCEPT !.pc = "validate", !.loaded = rows,
                                                 !.target = target]]
    BY <1>5 DEF Select, TypeOK
  <2>5. [req[r] EXCEPT !.pc = "validate", !.loaded = rows, !.target = target] \in Session
    BY <2>1, <2>3 DEF Session
  <2> QED
    BY <1>5, <2>4, <2>5, RequestsType DEF Select, TypeOK
<1>6. CASE Validate(r)
  <2>1. req' = [req EXCEPT ![r] = [req[r] EXCEPT !.pc = "apply"]]
    BY <1>6 DEF Validate, Goto, TypeOK
  <2>2. [req[r] EXCEPT !.pc = "apply"] \in Session
    BY DEF Session
  <2> QED
    BY <1>6, <2>1, <2>2, RequestsType DEF Validate, TypeOK
<1>7. CASE Apply(r)
  <2> DEFINE ids == req[r].at
             now(b) == [req[r].target[b] EXCEPT !.status = book[b].status]
             competing == UNION {PendingAround(now(b), {b}) : b \in ids \cap InStatus({"confirmed"})}
             moved == [b \in Bookings |-> IF b \in ids THEN now(b)
                                          ELSE IF b \in competing THEN book[b] ELSE Absent]
             loaded == LoadedToo(Blank, ids \cup competing)
  <2>1. competing \subseteq Bookings
    BY DEF PendingAround, InStatus
  <2>2. \A b \in Bookings : book[b] \in Row /\ book[b].status \in Status \cup {"absent"}
    BY DEF TypeOK, Row
  <2>3. \A b \in Bookings : now(b) \in Row
    BY <2>2, StatusType
  <2>4. moved \in [Bookings -> Row]
    BY <2>2, <2>3, AbsentType
  <2>5. loaded \in [Bookings -> Row] /\ Denied(moved, competing) \in [Bookings -> Row]
    BY <2>4, AbsentType, LoadedType, DeniedType
  <2>6. req' = [req EXCEPT ![r] =
          [req[r] EXCEPT !.pc = "flush", !.want = (ids \cup competing) \ req[r].held,
                         !.down = FALSE, !.loaded = loaded, !.target = Denied(moved, competing)]]
    BY <1>7 DEF Apply, TypeOK
  <2>7. [req[r] EXCEPT !.pc = "flush", !.want = (ids \cup competing) \ req[r].held,
                       !.down = FALSE, !.loaded = loaded, !.target = Denied(moved, competing)]
          \in Session
    BY <2>1, <2>5 DEF Session, Waiting
  <2> QED
    BY <1>7, <2>6, <2>7, RequestsType DEF Apply, TypeOK
<1>8. CASE Commit(r)
  BY <1>8, StoreType, IdleType DEF Commit, TypeOK
<1>9. CASE RefuseBulk(r) \/ RefuseApproval(r) \/ RefuseBatch(r) \/ BreakDeadlock(r) \/ Fail(r)
  BY <1>9, RollbackType DEF RefuseBulk, RefuseApproval, RefuseBatch, BreakDeadlock, Fail
<1>10. CASE LockRow(r)
  <2>1. PICK b \in Bookings :
          req' = [req EXCEPT ![r].want = @ \ {b}, ![r].held = @ \cup {b}]
    BY <1>10 DEF LockRow
  <2>2. req' = [req EXCEPT ![r] = [req[r] EXCEPT !.want = req[r].want \ {b},
                                                 !.held = req[r].held \cup {b}]]
    BY <2>1 DEF TypeOK
  <2>3. [req[r] EXCEPT !.want = req[r].want \ {b}, !.held = req[r].held \cup {b}] \in Session
    BY DEF Session
  <2> QED
    BY <1>10, <2>2, <2>3, RequestsType DEF LockRow, TypeOK
<1>11. CASE SyncCommits(r)
  BY <1>11 DEF SyncCommits, TypeOK, Session
<1> QED
  BY <1>1, <1>2, <1>3, <1>4, <1>5, <1>6, <1>7, <1>8, <1>9, <1>10, <1>11
  DEF Step, Database

(* Every row is a row and every session a session in every reachable state. *)
THEOREM TypeCorrect == Spec => []TypeOK
<1>1. Init => TypeOK
  BY AbsentType, IdleType DEF Init, TypeOK
<1>2. TypeOK /\ [Next]_vars => TypeOK'
  <2>1. ASSUME TypeOK, Next PROVE TypeOK'
    BY <2>1, ReceiveType, StepType DEF Next
  <2>2. ASSUME TypeOK, UNCHANGED vars PROVE TypeOK'
    BY <2>2 DEF TypeOK, vars
  <2> QED
    BY <2>1, <2>2
<1> QED
  BY <1>1, <1>2, PTL DEF Spec

-----------------------------------------------------------------------------
(* Who writes the table.                                                    *)

(* A call whose session leaves a row alone does not write it.               *)
LEMMA LeftAlone ==
  ASSUME TypeOK, NEW r \in Requests, Store(req[r].loaded, req[r].target),
         NEW b \in Bookings, req[r].target[b] = req[r].loaded[b]
  PROVE  book'[b] = book[b]
<1>1. book'[b] = Written(book[b], req[r].loaded[b], req[r].target[b])
  BY DEF Store
<1>2. book[b] \in Row
  BY DEF TypeOK
<1> QED
  BY <1>1, <1>2 DEF Written, Row

(* Only three steps write the table.                                        *)
LEMMA WritersWrite ==
  ASSUME NEW r \in Requests, Receive(r) \/ LockRow(r) \/ Step(r) \/ Database(r), book' # book
  PROVE  Approve(r) \/ ChangeStatus(r) \/ Commit(r)
<1>1. ~Receive(r)
  <2>1. \A role, ids, s : ~ReceiveCreate(r, role, ids, s)
    BY DEF ReceiveCreate
  <2>2. \A b, new : ~Update(r, b, new) /\ ~SetStatus(r, b, new) /\ ~Delete(r, b)
    BY DEF Update, SetStatus, Delete
  <2>3. \A ids, down : ~Reschedule(r, ids, down)
    BY DEF Reschedule
  <2> QED
    BY <2>1, <2>2, <2>3 DEF Receive
<1>2. ~LockRow(r)
  BY DEF LockRow
<1>3. ~Rollback(r)
  BY DEF Rollback
<1>4. ~Database(r)
  BY <1>3 DEF Database, BreakDeadlock, SyncCommits, Fail
<1>5. ~InsertRows(r) /\ ~LockSlot(r) /\ ~Select(r) /\ ~Validate(r) /\ ~Apply(r)
  BY DEF InsertRows, LockSlot, Select, Validate, Apply
<1>6. ~RefuseBulk(r) /\ ~RefuseApproval(r) /\ ~RefuseBatch(r)
  BY <1>3 DEF RefuseBulk, RefuseApproval, RefuseBatch
<1> QED
  BY <1>1, <1>2, <1>4, <1>5, <1>6 DEF Step

-----------------------------------------------------------------------------
(* One call at a time: the invariant.                                       *)

(* No two calls are in flight: what the checks of a handler promise when    *)
(* nothing happens between them and the commit.                             *)
SoleCall == \A q, r \in Requests : q = r

Proper(row) == IF row.status # "absent" THEN row.from < row.to ELSE row = Absent

(* The row that is left in the table when the session is written.           *)
Result(r, c) == IF req[r].target[c] = req[r].loaded[c] THEN book[c] ELSE req[r].target[c]

Rivals(r, b) ==
  {c \in Bookings \ {b} : Result(r, c).status = "pending" /\ TargetsOverlap(Result(r, b), Result(r, c))}

(* A row that the checks have let through.                                  *)
Admitted(r, b) ==
  /\ Result(r, b).status \in Active =>
       \A c \in Bookings \ {b} :
         Result(r, c).status \in Active => ~TargetsOverlap(Result(r, b), Result(r, c))
  /\ Result(r, b).status = "pending" => Cardinality(Rivals(r, b)) < Capacity

(* Rows that are not the call's own can only lose a pending request.        *)
OthersOnlyLose(r) ==
  \A c \in Bookings \ req[r].at :
    \/ Result(r, c) = book[c]
    \/ book[c].status = "pending" /\ Result(r, c) = [book[c] EXCEPT !.status = "denied"]

Writing(r) ==
  /\ req[r].pc = "flush"
  /\ \A c \in Bookings : req[r].target[c] = req[r].loaded[c] \/ req[r].loaded[c] = book[c]
  /\ OthersOnlyLose(r)
  /\ \A b \in req[r].at :
       /\ Proper(Result(r, b))
       /\ book[b].status \in {"completed", "cancelled"} =>
            Result(r, b).status = book[b].status \/ req[r].kind = "update"
       /\ \/ Result(r, b).status \notin Active \cup {"pending"}
          \/ Result(r, b) = book[b]
          \/ UncheckedActivation(r, b) /\ Result(r, b).status \in Active
          \/ Admitted(r, b)

Inserting(r) ==
  /\ req[r].pc = "insert"
  /\ \A c \in Bookings : req[r].loaded[c] = Absent
  /\ \A c \in Bookings \ req[r].at : req[r].target[c] = Absent
  /\ \A b \in req[r].at :
       /\ ~Committed(b)
       /\ req[r].target[b].status \in {"pending", "confirmed"}
       /\ req[r].target[b].from < req[r].target[b].to
       /\ ~ConfirmedConflict(req[r].target[b], {})
       /\ req[r].target[b].status = "pending" =>
            Cardinality(PendingAround(req[r].target[b], {})) < Capacity
       /\ \A c \in req[r].at \ {b} : req[r].target[b].place # req[r].target[c].place

Deciding(r, x) ==
  /\ req[r].pc \in {"own", "slot"} /\ req[r].kind = "status"
  /\ req[r].at = {x} /\ Committed(x)
  /\ req[r].loaded[x] = book[x] /\ SameWindow(req[r].target[x], book[x])
  /\ req[r].target[x].status \in Status
  /\ book[x].status \in {"completed", "cancelled"} => req[r].target[x].status = book[x].status
  /\ \A c \in Bookings \ {x} : req[r].target[c] = req[r].loaded[c]
  /\ req[r].pc = "slot" => SlotRows(r) \subseteq req[r].held \cup req[r].want

Moving(r) ==
  /\ req[r].pc \in {"select", "validate", "apply"} /\ req[r].kind = "reschedule"
  /\ \A b \in req[r].at : /\ Committed(b)
                          /\ req[r].target[b].from < req[r].target[b].to
                          /\ req[r].pc # "select" => req[r].target[b].status = book[b].status
  /\ req[r].pc = "apply" => BatchAllowed(r)

SerialSession(r) ==
  \/ req[r] = Idle
  \/ Writing(r) \/ Inserting(r) \/ Moving(r)
  \/ \E x \in Bookings : Deciding(r, x)

SerialInv == RowsAreProper /\ \A r \in Requests : SerialSession(r)

-----------------------------------------------------------------------------
(* One call at a time: every step keeps the invariant.                      *)

LEMMA SerialInit == Init => SerialInv
BY DEF Init, SerialInv, RowsAreProper, Committed, Blank, Absent, SerialSession

(* A step that leaves the table alone and the session in a sound state.     *)
LEMMA SessionStep ==
  ASSUME SoleCall, SerialInv, NEW r \in Requests, UNCHANGED book, SerialSession(r)'
  PROVE  SerialInv'
BY DEF SoleCall, SerialInv, RowsAreProper, Committed

LEMMA SerialRollback ==
  ASSUME SoleCall, TypeOK, SerialInv, NEW r \in Requests, Rollback(r)
  PROVE  SerialInv'
<1>1. req'[r] = Idle /\ UNCHANGED book
  BY DEF Rollback, TypeOK
<1> QED
  BY <1>1, SessionStep DEF SerialSession

(* Neither do locks make a difference.                                      *)
LEMMA SerialLock ==
  ASSUME SoleCall, TypeOK, SerialInv, NEW r \in Requests, LockRow(r)
  PROVE  SerialInv'
<1>1. PICK b \in Bookings : /\ IsNext(b, r)
                            /\ req' = [req EXCEPT ![r].want = @ \ {b}, ![r].held = @ \cup {b}]
  BY DEF LockRow
<1>2. UNCHANGED book /\ req[r] # Idle
  BY <1>1 DEF LockRow, IsNext, Waiting, Idle
<1>3. /\ req'[r].want = req[r].want \ {b} /\ req'[r].held = req[r].held \cup {b}
      /\ req'[r].pc = req[r].pc /\ req'[r].at = req[r].at /\ req'[r].kind = req[r].kind
      /\ req'[r].loaded = req[r].loaded /\ req'[r].target = req[r].target
  BY <1>1, SessionFields DEF TypeOK, Session
<1>4. \A c \in Bookings : Result(r, c)' = Result(r, c)
  BY <1>2, <1>3 DEF Result
<1>5. CASE Writing(r)
  <2>1. \A c \in Bookings : Admitted(r, c) => Admitted(r, c)'
    BY <1>4 DEF Admitted, Rivals
  <2>2. \A c : UncheckedActivation(r, c)' = UncheckedActivation(r, c)
    BY <1>3 DEF UncheckedActivation
  <2>3. req[r].at \subseteq Bookings
    BY SessionFields
  <2>4. Writing(r)'
    BY <1>2, <1>3, <1>4, <1>5, <2>1, <2>2, <2>3 DEF Writing, OthersOnlyLose
  <2> QED
    BY <1>2, <2>4, SessionStep DEF SerialSession
<1>6. CASE Inserting(r) \/ Moving(r)
  <2>1. req[r].pc = "select" /\ Moving(r)
    BY <1>1, <1>6 DEF Inserting, Moving, IsNext, Waiting
  <2>2. Moving(r)'
    BY <1>2, <1>3, <2>1 DEF Moving, Committed
  <2> QED
    BY <1>2, <2>2, SessionStep DEF SerialSession
<1>7. ASSUME NEW x \in Bookings, Deciding(r, x)
      PROVE  SerialInv'
  <2>1. SlotRows(r)' = SlotRows(r)
    BY <1>2, <1>3 DEF SlotRows, LoadedOwn, Own
  <2>2. Deciding(r, x)'
    BY <1>2, <1>3, <1>7, <2>1 DEF Deciding, Committed
  <2> QED
    BY <1>2, <2>2, SessionStep DEF SerialSession
<1> QED
  BY <1>2, <1>5, <1>6, <1>7 DEF SerialInv, SerialSession

(* What the conflict check rules out, in terms of the other overlap test.   *)
LEMMA NoConflict ==
  ASSUME TypeOK, RowsAreProper, NEW w \in Row, w.from < w.to, NEW S, ~ConfirmedConflict(w, S),
         NEW c \in Bookings \ S, book[c].status \in Active
  PROVE  ~TargetsOverlap(w, book[c])
<1>1. book[c] \in Row /\ book[c].from < book[c].to
  BY DEF TypeOK, RowsAreProper, Committed, Active
<1>2. ~Overlapping(book[c], w)
  BY DEF ConfirmedConflict, InStatus
<1> QED
  BY <1>1, <1>2, OverlapTestsAgree, OverlapSymmetric

(* The requests the capacity check has counted.                             *)
LEMMA Counted ==
  ASSUME TypeOK, RowsAreProper, NEW w \in Row, w.from < w.to, NEW S,
         NEW c \in Bookings \ S, book[c].status = "pending", TargetsOverlap(w, book[c])
  PROVE  c \in PendingAround(w, S)
<1>1. book[c] \in Row /\ book[c].from < book[c].to
  BY DEF TypeOK, RowsAreProper, Committed
<1>2. Overlapping(book[c], w)
  BY <1>1, OverlapTestsAgree, OverlapSymmetric
<1> QED
  BY <1>2 DEF PendingAround, InStatus

LEMMA AroundFinite ==
  ASSUME IsFiniteSet(Bookings), NEW w, NEW S
  PROVE  IsFiniteSet(PendingAround(w, S)) /\ PendingAround(w, S) \subseteq Bookings
<1>1. PendingAround(w, S) \subseteq Bookings
  BY DEF PendingAround, InStatus
<1> QED
  BY <1>1, FS_Subset

(* A set inside one that was counted below the capacity.                    *)
LEMMA FewRivals ==
  ASSUME IsFiniteSet(Bookings), NEW A, NEW B \in SUBSET Bookings, A \subseteq B, NEW n \in Nat,
         Cardinality(B) < n
  PROVE  Cardinality(A) < n
<1>1. IsFiniteSet(B)
  BY FS_Subset
<1>2. Cardinality(A) <= Cardinality(B) /\ IsFiniteSet(A)
  BY <1>1, FS_Subset
<1> QED
  BY <1>1, <1>2, FS_CardinalityType

LEMMA SerialCreate ==
  ASSUME SoleCall, TypeOK, SerialInv, NEW r \in Requests, NEW role \in Roles,
         NEW ids \in SUBSET Fresh, NEW s \in Slots, ReceiveCreate(r, role, ids, s)
  PROVE  SerialInv'
<1> DEFINE blank == [Absent EXCEPT !.status = NewStatus(role)]
<1>1. PICK place \in [ids -> Places] :
        /\ \A b, c \in ids : place[b] = place[c] => b = c
        /\ Admissible(role, {At(blank, place[b], s) : b \in ids})
        /\ req' = [req EXCEPT ![r] =
             [Idle EXCEPT !.pc = "insert", !.kind = "create", !.at = ids,
                          !.target = [b \in Bookings |->
                             IF b \in ids THEN At(blank, place[b], s) ELSE Absent]]]
  BY DEF ReceiveCreate
<1>2. ids \subseteq Bookings /\ \A b \in ids : book[b].status = "absent"
  BY DEF Fresh, InStatus
<1>3. UNCHANGED book
  BY DEF ReceiveCreate
<1>4. /\ req'[r].pc = "insert" /\ req'[r].at = ids
      /\ \A c \in Bookings : req'[r].loaded[c] = Absent
      /\ \A c \in Bookings \ ids : req'[r].target[c] = Absent
      /\ \A b \in ids : req'[r].target[b] = At(blank, place[b], s)
  BY <1>1, <1>2 DEF TypeOK, Idle, Blank
<1>5. blank \in Row /\ blank.status \in {"pending", "confirmed"}
      /\ (blank.status = "pending" => role = "subcontractor")
  BY AbsentType, BookingAssumption DEF Row, Status, NewStatus
<1>6. s[1] < s[2] /\ s \in Nat \X Nat
  BY BookingAssumption
<1> HIDE DEF blank
<1>7. ASSUME NEW b \in ids
      PROVE  /\ req'[r].target[b].status = blank.status
             /\ req'[r].target[b].from = s[1] /\ req'[r].target[b].to = s[2]
             /\ req'[r].target[b].place = place[b]
  BY <1>4, <1>5, <1>7 DEF At, Row
<1>8. ASSUME NEW b \in ids
      PROVE  /\ ~ConfirmedConflict(req'[r].target[b], {})
             /\ blank.status = "pending" =>
                  Cardinality(PendingAround(req'[r].target[b], {})) < Capacity
  BY <1>1, <1>4, <1>5 DEF Admissible, CanRequest
<1>9. ASSUME NEW b \in ids
      PROVE  /\ (~ConfirmedConflict(req[r].target[b], {}))'
             /\ (req[r].target[b].status = "pending" =>
                   Cardinality(PendingAround(req[r].target[b], {})) < Capacity)'
  <2>1. ConfirmedConflict(req[r].target[b], {})' <=> ConfirmedConflict(req'[r].target[b], {})
    BY <1>3 DEF ConfirmedConflict, InStatus
  <2>2. PendingAround(req[r].target[b], {})' = PendingAround(req'[r].target[b], {})
    BY <1>3 DEF PendingAround, InStatus
  <2> QED
    BY <1>7, <1>8, <2>1, <2>2
<1>10. Inserting(r)'
  <2>1. \A b \in ids : \A c \in ids \ {b} : req'[r].target[b].place # req'[r].target[c].place
    BY <1>1, <1>7
  <2>2. ASSUME NEW b \in ids
        PROVE  /\ Committed(b)' = FALSE
               /\ req'[r].target[b].status \in {"pending", "confirmed"}
               /\ req'[r].target[b].from < req'[r].target[b].to
    BY ONLY <1>2, <1>3, <1>5, <1>6, <1>7, b \in ids DEF Committed
  <2> QED
    BY <1>3, <1>4, <1>9, <2>1, <2>2 DEF Inserting
<1> QED
  BY <1>3, <1>10, SessionStep DEF SerialSession

(* The session of a call on one row.                                        *)
LEMMA OneRowSession ==
  ASSUME TypeOK, NEW r \in Requests, NEW b \in Bookings, NEW new \in Row, UNCHANGED book,
         req'[r].loaded = OneRow(b, book[b]), req'[r].target = OneRow(b, new)
  PROVE  /\ req'[r].loaded[b] = book[b] /\ req'[r].target[b] = new
         /\ \A c \in Bookings \ {b} : req'[r].loaded[c] = Absent /\ req'[r].target[c] = Absent
         /\ \A c \in Bookings : Result(r, c)' = IF c = b THEN new ELSE book[c]
<1>1. /\ req'[r].loaded[b] = book[b] /\ req'[r].target[b] = new
      /\ \A c \in Bookings \ {b} : req'[r].loaded[c] = Absent /\ req'[r].target[c] = Absent
  BY DEF OneRow, Blank
<1> QED
  BY <1>1 DEF Result

LEMMA SerialUpdate ==
  ASSUME SoleCall, IsFiniteSet(Bookings), TypeOK, SerialInv, NEW r \in Requests, NEW b \in Bookings,
         NEW new \in Row, new.from < new.to, new.status \in Status, Update(r, b, new)
  PROVE  SerialInv'
<1>1. /\ req'[r].pc = "flush" /\ req'[r].kind = "update" /\ req'[r].at = {b}
      /\ req'[r].loaded = OneRow(b, book[b]) /\ req'[r].target = OneRow(b, new)
      /\ UNCHANGED book /\ book[b].status # "absent"
  BY DEF Update, TypeOK, Idle
<1>2. /\ req'[r].loaded[b] = book[b] /\ req'[r].target[b] = new
      /\ \A c \in Bookings \ {b} : req'[r].loaded[c] = Absent /\ req'[r].target[c] = Absent
      /\ \A c \in Bookings : Result(r, c)' = IF c = b THEN new ELSE book[c]
  BY <1>1, OneRowSession
<1>3. RowsAreProper /\ book[b] \in Row
  BY DEF SerialInv, TypeOK
<1>4. \/ new.status \notin Active \cup {"pending"}
      \/ new = book[b]
      \/ UncheckedActivation(r, b)' /\ new.status \in Active
      \/ Admitted(r, b)'
  <2>1. CASE NeedsSlotCheck(book[b], new)
    <3>1. /\ ~ConfirmedConflict(new, {b})
          /\ new.status = "pending" => Cardinality(PendingAround(new, {b})) < Capacity
      BY <2>1 DEF Update, CanRequest
    <3>2. \A c \in Bookings \ {b} : book[c].status \in Active => ~TargetsOverlap(new, book[c])
      BY <1>3, <3>1, NoConflict
    <3>3. ASSUME new.status = "pending"
          PROVE  Cardinality(Rivals(r, b)') < Capacity
      <4>1. Rivals(r, b)' \subseteq PendingAround(new, {b})
        <5> SUFFICES ASSUME NEW c \in Bookings \ {b}, book[c].status = "pending",
                            TargetsOverlap(new, book[c])
                     PROVE  c \in PendingAround(new, {b})
          BY <1>2 DEF Rivals
        <5> QED
          BY <1>3, Counted
      <4>2. PendingAround(new, {b}) \in SUBSET Bookings
        BY AroundFinite
      <4> QED
        BY <3>1, <3>3, <4>1, <4>2, FewRivals, BookingAssumption
    <3>4. Admitted(r, b)'
      BY <1>2, <3>2, <3>3 DEF Admitted
    <3> QED
      BY <3>4
  <2>2. CASE ~NeedsSlotCheck(book[b], new)
    <3>1. SameWindow(book[b], new) /\ (new.status = book[b].status \/ new.status \in Terminal)
      BY <2>2 DEF NeedsSlotCheck
    <3>2. CASE new.status = book[b].status
      BY <1>3, <3>1, <3>2 DEF SameWindow, Row
    <3>3. CASE new.status = "completed"
      BY <1>1, <1>2, <3>1, <3>3 DEF UncheckedActivation, Active
    <3> QED
      BY <3>1, <3>2, <3>3 DEF Terminal, Active
  <2> QED
    BY <2>1, <2>2
<1>5. Proper(new) /\ OthersOnlyLose(r)'
  BY <1>1, <1>2 DEF Proper, OthersOnlyLose, Status
<1>6. Writing(r)'
  BY <1>1, <1>2, <1>4, <1>5 DEF Writing
<1> QED
  BY <1>1, <1>6, SessionStep DEF SerialSession

LEMMA SerialDelete ==
  ASSUME SoleCall, TypeOK, SerialInv, NEW r \in Requests, NEW b \in Bookings, Delete(r, b)
  PROVE  SerialInv'
<1> DEFINE new == [book[b] EXCEPT !.status = "cancelled"]
<1>1. /\ req'[r].pc = "flush" /\ req'[r].kind = "delete" /\ req'[r].at = {b}
      /\ req'[r].loaded = OneRow(b, book[b]) /\ req'[r].target = OneRow(b, new)
      /\ UNCHANGED book /\ book[b].status \notin Terminal \cup {"absent"}
  BY DEF Delete, TypeOK, Idle
<1>2. /\ new \in Row /\ new.status = "cancelled" /\ book[b].from < book[b].to
      /\ new.from = book[b].from /\ new.to = book[b].to
  BY <1>1, StatusType DEF TypeOK, Row, Status, SerialInv, RowsAreProper, Committed
<1> HIDE DEF new
<1>3. /\ req'[r].loaded[b] = book[b] /\ req'[r].target[b] = new
      /\ \A c \in Bookings \ {b} : req'[r].loaded[c] = Absent /\ req'[r].target[c] = Absent
      /\ \A c \in Bookings : Result(r, c)' = IF c = b THEN new ELSE book[c]
  BY <1>1, <1>2, OneRowSession
<1>4. Proper(new) /\ OthersOnlyLose(r)'
  BY <1>1, <1>2, <1>3 DEF Proper, OthersOnlyLose
<1>5. Writing(r)'
  BY <1>1, <1>2, <1>3, <1>4 DEF Writing, Active, Terminal
<1> QED
  BY <1>1, <1>5, SessionStep DEF SerialSession

LEMMA SerialPatch ==
  ASSUME SoleCall, TypeOK, SerialInv, NEW r \in Requests, NEW b \in Bookings,
         NEW status \in Status, SetStatus(r, b, status)
  PROVE  SerialInv'
<1> DEFINE new == [book[b] EXCEPT !.status = status]
<1>1. /\ req'[r].pc = "own" /\ req'[r].kind = "status" /\ req'[r].at = {b}
      /\ req'[r].loaded = OneRow(b, book[b]) /\ req'[r].target = OneRow(b, new)
      /\ UNCHANGED book /\ book[b].status # "absent"
      /\ book[b].status \in {"completed", "cancelled"} => status = book[b].status
  BY DEF SetStatus, TypeOK, Idle
<1>2. new \in Row /\ new.status = status /\ SameWindow(new, book[b])
  BY StatusType DEF TypeOK, Row, SameWindow
<1> HIDE DEF new
<1>3. /\ req'[r].loaded[b] = book[b] /\ req'[r].target[b] = new
      /\ \A c \in Bookings \ {b} : req'[r].loaded[c] = Absent /\ req'[r].target[c] = Absent
  BY <1>1, <1>2, OneRowSession
<1>4. Deciding(r, b)'
  BY <1>1, <1>2, <1>3 DEF Deciding, Committed
<1> QED
  BY <1>1, <1>4, SessionStep DEF SerialSession

LEMMA SerialReschedule ==
  ASSUME SoleCall, TypeOK, SerialInv, NEW r \in Requests, NEW ids \in SUBSET Bookings,
         NEW down \in BOOLEAN, Reschedule(r, ids, down)
  PROVE  SerialInv'
<1>1. PICK place \in [ids -> Places], slot \in [ids -> Slots] :
        req' = [req EXCEPT ![r] =
          [Idle EXCEPT !.pc = "select", !.kind = "reschedule", !.at = ids,
                       !.want = ids, !.down = down,
                       !.target = [b \in Bookings |->
                          IF b \in ids THEN At(Absent, place[b], slot[b]) ELSE Absent]]]
  BY DEF Reschedule
<1>2. /\ req'[r].pc = "select" /\ req'[r].kind = "reschedule" /\ req'[r].at = ids
      /\ \A b \in ids : req'[r].target[b] = At(Absent, place[b], slot[b])
  BY <1>1 DEF TypeOK, Idle
<1>3. ASSUME NEW b \in ids
      PROVE  req'[r].target[b].from < req'[r].target[b].to
  <2>1. slot[b][1] < slot[b][2]
    BY BookingAssumption
  <2>2. At(Absent, place[b], slot[b]).from = slot[b][1] /\ At(Absent, place[b], slot[b]).to = slot[b][2]
    BY AbsentType DEF At, Row
  <2> QED
    BY <1>2, <2>1, <2>2
<1>4. UNCHANGED book /\ \A b \in ids : Committed(b)
  BY DEF Reschedule, Committed
<1>5. Moving(r)'
  BY <1>2, <1>3, <1>4 DEF Moving, Committed
<1> QED
  BY <1>4, <1>5, SessionStep DEF SerialSession

LEMMA SerialReceive ==
  ASSUME SoleCall, IsFiniteSet(Bookings), TypeOK, SerialInv, NEW r \in Requests, Receive(r)
  PROVE  SerialInv'
<1>1. ASSUME NEW b \in Bookings, NEW status \in Status, NEW p \in Places,
             NEW s \in Slots \cup {<<book[b].from, book[b].to>>},
             Update(r, b, At([book[b] EXCEPT !.status = status], p, s))
      PROVE  SerialInv'
  <2> DEFINE new == At([book[b] EXCEPT !.status = status], p, s)
  <2>1. book[b] \in Row /\ book[b].from < book[b].to
    BY <1>1 DEF Update, TypeOK, SerialInv, RowsAreProper, Committed
  <2>2. s \in Nat \X Nat /\ s[1] < s[2]
    BY <2>1, BookingAssumption DEF Row
  <2>3. [book[b] EXCEPT !.status = status] \in Row /\ [book[b] EXCEPT !.status = status].status = status
    BY <2>1, StatusType DEF Row
  <2>4. new \in Row
    BY <2>2, <2>3, AtType
  <2>5. new.status = status /\ new.from = s[1] /\ new.to = s[2]
    BY <2>3 DEF At, Row
  <2> HIDE DEF new
  <2> QED
    BY <1>1, <2>2, <2>4, <2>5, SerialUpdate DEF new
<1> QED
  BY <1>1, SerialCreate, SerialDelete, SerialPatch, SerialReschedule DEF Receive

LEMMA SerialInsert ==
  ASSUME SoleCall, IsFiniteSet(Bookings), TypeOK, SerialInv, NEW r \in Requests, InsertRows(r)
  PROVE  SerialInv'
<1> DEFINE lost == Competing(NewRows(r))
           ids == req[r].at
           new(b) == req[r].target[b]
<1>1. Inserting(r)
  BY DEF InsertRows, SerialInv, SerialSession, Idle, Writing, Moving, Deciding
<1>2. lost \subseteq Bookings /\ \A c \in lost : book[c].status = "pending"
  BY DEF Competing, PendingAround, InStatus
<1>3. ids \subseteq Bookings /\ \A b \in Bookings : new(b) \in Row /\ book[b] \in Row
  BY SessionFields DEF TypeOK
<1>4. \A b \in ids : /\ b \notin lost /\ book[b] = Absent
                     /\ new(b).status \in {"pending", "confirmed"} /\ new(b).from < new(b).to
  BY <1>1, <1>2, <1>3 DEF Inserting, Committed, SerialInv, RowsAreProper
<1> HIDE DEF lost
<1>5. /\ req'[r].pc = "flush" /\ req'[r].at = ids /\ UNCHANGED book
      /\ \A c \in Bookings :
           /\ req'[r].loaded[c] = IF c \in lost THEN book[c] ELSE req[r].loaded[c]
           /\ req'[r].target[c] = IF c \in lost THEN [book[c] EXCEPT !.status = "denied"] ELSE new(c)
  BY DEF InsertRows, TypeOK, Session, LoadedToo, Denied, lost
<1> HIDE DEF new
<1>6. \A c \in Bookings : c \notin lost => req[r].loaded[c] = Absent /\ (c \notin ids => new(c) = Absent)
  BY <1>1 DEF Inserting, new
<1>7. ASSUME NEW c \in Bookings
      PROVE  Result(r, c)' = IF c \in lost THEN [book[c] EXCEPT !.status = "denied"]
                             ELSE IF c \in ids THEN new(c) ELSE book[c]
  <2>1. CASE c \in lost
    <3>1. [book[c] EXCEPT !.status = "denied"].status = "denied"
      BY <1>3 DEF Row
    <3> QED
      BY <1>2, <1>5, <2>1, <3>1 DEF Result
  <2>2. CASE c \in ids
    BY <1>4, <1>5, <1>6, <2>2 DEF Result, Absent
  <2>3. CASE c \notin ids /\ c \notin lost
    BY <1>5, <1>6, <2>3 DEF Result
  <2> QED
    BY <2>1, <2>2, <2>3
<1>8. \A c \in lost : Result(r, c)'.status = "denied"
  BY <1>2, <1>3, <1>7 DEF Row
<1>9. ASSUME NEW b \in ids
      PROVE  Admitted(r, b)'
  <2>1. Result(r, b)' = new(b) /\ b \in Bookings
    BY <1>3, <1>4, <1>7
  <2>2. ASSUME NEW c \in Bookings \ {b}, c \in ids
        PROVE  ~TargetsOverlap(new(b), new(c))
    BY <1>1, <2>2 DEF Inserting, TargetsOverlap, new
  <2>3. ASSUME NEW c \in Bookings \ {b}, Result(r, c)'.status \in Active \cup {"pending"}, c \notin ids
        PROVE  Result(r, c)' = book[c]
    BY <1>7, <1>8, <2>3 DEF Active
  <2>4. /\ ~ConfirmedConflict(new(b), {})
        /\ new(b).status = "pending" => Cardinality(PendingAround(new(b), {})) < Capacity
    BY <1>1 DEF Inserting, new
  <2>5. \A c \in Bookings : book[c].status \in Active => ~TargetsOverlap(new(b), book[c])
    BY <1>3, <1>4, <2>4, NoConflict DEF SerialInv
  <2>6. ASSUME NEW c \in Bookings \ {b}, Result(r, c)'.status \in Active
        PROVE  ~TargetsOverlap(new(b), Result(r, c)')
    <3>1. CASE c \in ids
      BY <1>3, <1>4, <1>7, <2>2, <3>1
    <3>2. CASE c \notin ids
      BY <2>3, <2>5, <2>6, <3>2
    <3> QED
      BY <3>1, <3>2
  <2>7. ASSUME new(b).status = "pending"
        PROVE  Cardinality(Rivals(r, b)') < Capacity
    <3>1. Rivals(r, b)' \subseteq PendingAround(new(b), {})
      <4> SUFFICES ASSUME NEW c \in Bookings \ {b}, Result(r, c)'.status = "pending",
                          TargetsOverlap(new(b), Result(r, c)')
                   PROVE  c \in PendingAround(new(b), {})
        BY <2>1 DEF Rivals
      <4>1. c \notin ids
        BY <1>4, <1>7, <2>2
      <4>2. Result(r, c)' = book[c]
        BY <2>3, <4>1
      <4> QED
        BY <1>3, <1>4, <4>2, Counted DEF SerialInv
    <3>2. PendingAround(new(b), {}) \in SUBSET Bookings
      BY AroundFinite
    <3> QED
      BY <2>4, <2>7, <3>1, <3>2, FewRivals, BookingAssumption
  <2> QED
    BY <2>1, <2>6, <2>7 DEF Admitted
<1>10. OthersOnlyLose(r)'
  BY <1>2, <1>5, <1>7 DEF OthersOnlyLose
<1>11. ASSUME NEW b \in ids
       PROVE  Proper(Result(r, b)') /\ book[b].status \notin {"completed", "cancelled"}
  <2>1. Result(r, b)' = new(b)
    BY <1>3, <1>4, <1>7
  <2>2. Proper(new(b))
    BY <1>4 DEF Proper
  <2>3. book[b].status = "absent"
    BY <1>1 DEF Inserting, Committed
  <2>4. Proper(Result(r, b)')
    BY <2>1, <2>2
  <2> QED
    BY <2>3, <2>4
<1>12. \A c \in Bookings : \/ req'[r].target[c] = req'[r].loaded[c]
                           \/ req'[r].loaded[c] = book[c]
  BY <1>4, <1>5, <1>6
<1>13. Writing(r)'
  BY <1>5, <1>9, <1>10, <1>11, <1>12 DEF Writing
<1> QED
  BY <1>5, <1>13, SessionStep DEF SerialSession

LEMMA SerialLockSlot ==
  ASSUME SoleCall, TypeOK, SerialInv, NEW r \in Requests, LockSlot(r)
  PROVE  SerialInv'
<1>1. PICK x \in Bookings : Deciding(r, x)
  BY DEF LockSlot, Locked, SerialInv, SerialSession, Idle, Writing, Inserting, Moving
<1>2. /\ req'[r].pc = "slot" /\ req'[r].want = SlotRows(r) \ req[r].held
      /\ req'[r].held = req[r].held /\ req'[r].at = req[r].at /\ req'[r].kind = req[r].kind
      /\ req'[r].loaded = req[r].loaded /\ req'[r].target = req[r].target
      /\ UNCHANGED book
  BY DEF LockSlot, TypeOK, Session
<1>3. SlotRows(r)' = SlotRows(r)
  BY <1>2 DEF SlotRows, LoadedOwn, Own
<1>4. Deciding(r, x)'
  BY <1>1, <1>2, <1>3 DEF Deciding, Committed
<1> QED
  BY <1>2, <1>4, SessionStep DEF SerialSession

(* The session is that of a bulk reschedule.                                *)
LEMMA Batch ==
  ASSUME SerialInv, NEW r \in Requests, req[r].pc \in {"select", "validate", "apply"}
  PROVE  Moving(r)
BY DEF SerialInv, SerialSession, Idle, Writing, Inserting, Deciding

LEMMA SerialSelect ==
  ASSUME SoleCall, TypeOK, SerialInv, NEW r \in Requests, Select(r)
  PROVE  SerialInv'
<1>1. Moving(r) /\ req[r].at \subseteq Bookings /\ req[r].target \in [Bookings -> Row]
  BY Batch, SessionFields DEF Select, Locked
<1>2. /\ req'[r].pc = "validate" /\ req'[r].at = req[r].at /\ req'[r].kind = req[r].kind
      /\ UNCHANGED book
      /\ \A b \in req[r].at : req'[r].target[b] = [req[r].target[b] EXCEPT !.status = book[b].status]
  BY <1>1 DEF Select, TypeOK, Session
<1>3. \A b \in req[r].at : /\ req'[r].target[b].status = book[b].status
                           /\ req'[r].target[b].from = req[r].target[b].from
                           /\ req'[r].target[b].to = req[r].target[b].to
  BY <1>1, <1>2 DEF Row
<1>4. Moving(r)'
  BY <1>1, <1>2, <1>3 DEF Moving, Committed
<1> QED
  BY <1>2, <1>4, SessionStep DEF SerialSession

LEMMA SerialValidate ==
  ASSUME SoleCall, TypeOK, SerialInv, NEW r \in Requests, Validate(r)
  PROVE  SerialInv'
<1>1. Moving(r) /\ BatchAllowed(r)
  BY Batch DEF Validate
<1>2. /\ req'[r].pc = "apply" /\ req'[r].at = req[r].at /\ req'[r].kind = req[r].kind
      /\ req'[r].target = req[r].target /\ UNCHANGED book /\ req[r].pc = "validate"
  BY DEF Validate, Goto, TypeOK, Session
<1>3. BatchAllowed(r)'
  <2>1. \A w, S : ConfirmedConflict(w, S)' = ConfirmedConflict(w, S) /\ PendingAround(w, S)' = PendingAround(w, S)
    BY <1>2 DEF ConfirmedConflict, PendingAround, InStatus
  <2> QED
    BY <1>1, <1>2, <2>1 DEF BatchAllowed
<1>4. Moving(r)'
  BY <1>1, <1>2, <1>3 DEF Moving, Committed
<1> QED
  BY <1>2, <1>4, SessionStep DEF SerialSession

LEMMA SerialSync ==
  ASSUME SoleCall, TypeOK, SerialInv, NEW r \in Requests, SyncCommits(r)
  PROVE  SerialInv'
<1>1. Moving(r)
  BY Batch DEF SyncCommits
<1>2. /\ req'[r].pc = "validate" /\ req'[r].at = req[r].at /\ req'[r].kind = req[r].kind
      /\ req'[r].target = req[r].target /\ UNCHANGED book /\ req[r].pc = "validate"
  BY DEF SyncCommits, TypeOK, Session
<1>3. Moving(r)'
  BY <1>1, <1>2 DEF Moving, Committed
<1> QED
  BY <1>2, <1>3, SessionStep DEF SerialSession

(* The batch as the validation left it: what it says of two of its rows and *)
(* of one row and the table.                                                *)
LEMMA BatchFacts ==
  ASSUME IsFiniteSet(Bookings), TypeOK, SerialInv, NEW r \in Requests, Moving(r), BatchAllowed(r),
         NEW b \in req[r].at
  PROVE  /\ req[r].target[b].status \in {"pending", "confirmed"}
         /\ \A c \in req[r].at \ {b} :
              TargetsOverlap(req[r].target[b], req[r].target[c]) =>
                "confirmed" \notin {req[r].target[b].status, req[r].target[c].status}
         /\ \A c \in Bookings \ req[r].at :
              book[c].status \in Active => ~TargetsOverlap(req[r].target[b], book[c])
         /\ req[r].target[b].status = "pending" =>
              \A R \in SUBSET (Bookings \ {b}) :
                (\A c \in R : IF c \in req[r].at
                              THEN /\ req[r].target[c].status = "pending"
                                   /\ TargetsOverlap(req[r].target[b], req[r].target[c])
                              ELSE /\ book[c].status = "pending"
                                   /\ TargetsOverlap(req[r].target[b], book[c]))
                => Cardinality(R) < Capacity
<1> DEFINE inBatch == {c \in req[r].at \ {b} : /\ req[r].target[c].status = "pending"
                                               /\ TargetsOverlap(req[r].target[b], req[r].target[c])}
           around == PendingAround(req[r].target[b], req[r].at)
<1>1. /\ req[r].target[b].status \in {"pending", "confirmed"}
      /\ \A c \in req[r].at \ {b} :
           TargetsOverlap(req[r].target[b], req[r].target[c]) =>
             "confirmed" \notin {req[r].target[b].status, req[r].target[c].status}
      /\ ~ConfirmedConflict(req[r].target[b], req[r].at)
      /\ req[r].target[b].status = "pending" => Cardinality(around) + Cardinality(inBatch) < Capacity
  BY DEF BatchAllowed
<1>2. /\ req[r].target[b] \in Row /\ req[r].target[b].from < req[r].target[b].to
      /\ req[r].at \subseteq Bookings /\ RowsAreProper
  BY SessionFields DEF Moving, SerialInv
<1>3. \A c \in Bookings \ req[r].at : book[c].status \in Active => ~TargetsOverlap(req[r].target[b], book[c])
  BY <1>1, <1>2, NoConflict
<1>4. \A c \in Bookings \ req[r].at :
        book[c].status = "pending" /\ TargetsOverlap(req[r].target[b], book[c]) => c \in around
  BY <1>2, Counted
<1>5. IsFiniteSet(around) /\ IsFiniteSet(inBatch)
  BY <1>2, AroundFinite, FS_Subset
<1>6. ASSUME NEW R \in SUBSET (Bookings \ {b}), req[r].target[b].status = "pending",
             \A c \in R : IF c \in req[r].at
                          THEN /\ req[r].target[c].status = "pending"
                               /\ TargetsOverlap(req[r].target[b], req[r].target[c])
                          ELSE /\ book[c].status = "pending"
                               /\ TargetsOverlap(req[r].target[b], book[c])
      PROVE  Cardinality(R) < Capacity
  <2>1. R \subseteq around \cup inBatch
    BY <1>4, <1>6
  <2> HIDE DEF around, inBatch
  <2>2. /\ IsFiniteSet(around \cup inBatch)
        /\ Cardinality(around \cup inBatch)
             = Cardinality(around) + Cardinality(inBatch) - Cardinality(around \cap inBatch)
    BY <1>5, FS_Union
  <2>3. IsFiniteSet(around \cap inBatch)
    BY <1>5, FS_Subset
  <2>4. /\ Cardinality(around) \in Nat /\ Cardinality(inBatch) \in Nat
        /\ Cardinality(around \cap inBatch) \in Nat /\ Cardinality(around \cup inBatch) \in Nat
    BY <1>5, <2>2, <2>3, FS_CardinalityType
  <2>5. Cardinality(R) <= Cardinality(around \cup inBatch) /\ IsFiniteSet(R)
    BY <2>1, <2>2, FS_Subset
  <2>6. Cardinality(R) \in Nat
    BY <2>5, FS_CardinalityType
  <2> QED
    BY <1>1, <1>6, <2>2, <2>4, <2>5, <2>6, BookingAssumption
<1> QED
  BY <1>1, <1>3, <1>6

LEMMA SerialApply ==
  ASSUME SoleCall, IsFiniteSet(Bookings), TypeOK, SerialInv, NEW r \in Requests, Apply(r)
  PROVE  SerialInv'
<1> DEFINE ids == req[r].at
           new(b) == req[r].target[b]
           now(b) == [req[r].target[b] EXCEPT !.status = book[b].status]
           lost == UNION {PendingAround(now(b), {b}) : b \in ids \cap InStatus({"confirmed"})}
           moved == [b \in Bookings |-> IF b \in ids THEN now(b)
                                        ELSE IF b \in lost THEN book[b] ELSE Absent]
<1>1. Moving(r) /\ BatchAllowed(r) /\ req[r].pc = "apply"
  BY Batch DEF Apply, Moving
<1>2. ids \subseteq Bookings /\ \A b \in Bookings : new(b) \in Row /\ book[b] \in Row
  BY SessionFields DEF TypeOK
<1>3. \A b \in ids : new(b).status = book[b].status /\ new(b).from < new(b).to
  BY <1>1 DEF Moving
<1>4. \A b \in ids : now(b) = new(b)
  BY <1>2, <1>3 DEF Row
<1>5. lost \subseteq Bookings /\ \A c \in lost : book[c].status = "pending"
  BY DEF PendingAround, InStatus
<1>6. /\ req'[r].pc = "flush" /\ req'[r].at = ids /\ req'[r].kind = "reschedule" /\ UNCHANGED book
      /\ req'[r].loaded = LoadedToo(Blank, ids \cup lost)
      /\ req'[r].target = Denied(moved, lost)
  <2> DEFINE loaded == LoadedToo(Blank, ids \cup lost)
             target == Denied(moved, lost)
             want == (ids \cup lost) \ req[r].held
  <2>1. req' = [req EXCEPT ![r] = [req[r] EXCEPT !.pc = "flush", !.want = want, !.down = FALSE,
                                                 !.loaded = loaded, !.target = target]]
    BY DEF Apply, TypeOK
  <2> HIDE DEF loaded, target, want
  <2>2. UNCHANGED book /\ req[r].kind = "reschedule"
    BY <1>1 DEF Apply, Moving
  <2>3. /\ req'[r].pc = "flush" /\ req'[r].at = ids /\ req'[r].kind = "reschedule"
        /\ req'[r].loaded = loaded /\ req'[r].target = target
    BY <2>1, <2>2 DEF TypeOK, Session
  <2> QED
    BY <2>2, <2>3 DEF loaded, target
<1> HIDE DEF lost, now
<1>7. ASSUME NEW c \in Bookings
      PROVE  /\ c \in ids \cup lost => req'[r].loaded[c] = book[c]
             /\ c \notin ids \cup lost => req'[r].loaded[c] = Absent /\ req'[r].target[c] = Absent
             /\ c \in ids \ lost => req'[r].target[c] = new(c)
             /\ c \in lost \ ids => req'[r].target[c] = [book[c] EXCEPT !.status = "denied"]
             /\ c \in lost \cap ids => req'[r].target[c] = [new(c) EXCEPT !.status = "denied"]
  <2>1. req'[r].loaded[c] = IF c \in ids \cup lost THEN book[c] ELSE Absent
    BY <1>6 DEF LoadedToo, Blank
  <2>2. req'[r].target[c] = IF c \in lost THEN [moved[c] EXCEPT !.status = "denied"] ELSE moved[c]
    BY <1>6 DEF Denied
  <2>3. moved[c] = IF c \in ids THEN new(c) ELSE IF c \in lost THEN book[c] ELSE Absent
    BY <1>4
  <2> HIDE DEF moved, new
  <2> QED
    BY <2>1, <2>2, <2>3
<1> HIDE DEF moved, new
<1>8. ASSUME NEW c \in Bookings
      PROVE  /\ c \in ids \ lost => Result(r, c)' = new(c)
             /\ c \in lost => Result(r, c)'.status = "denied"
             /\ c \in lost \ ids => Result(r, c)' = [book[c] EXCEPT !.status = "denied"]
             /\ c \in lost \cap ids => Result(r, c)' = [new(c) EXCEPT !.status = "denied"]
             /\ c \notin ids \cup lost => Result(r, c)' = book[c]
  <2>1. /\ [book[c] EXCEPT !.status = "denied"].status = "denied"
        /\ [new(c) EXCEPT !.status = "denied"].status = "denied"
    BY <1>2 DEF Row
  <2>2. c \in lost => book[c].status = "pending"
    BY <1>5
  <2> QED
    BY <1>6, <1>7, <2>1, <2>2 DEF Result
<1>9. ASSUME NEW c \in Bookings, Result(r, c)'.status \in Active \cup {"pending"}
      PROVE  Result(r, c)' = (IF c \in ids THEN new(c) ELSE book[c]) /\ c \notin lost
  BY <1>8, <1>9 DEF Active
<1>10. ASSUME NEW b \in ids, b \notin lost
       PROVE  Admitted(r, b)'
  <2>1. Result(r, b)' = new(b) /\ b \in Bookings
    BY <1>2, <1>8, <1>10
  <2>2. /\ new(b).status \in {"pending", "confirmed"}
        /\ \A c \in ids \ {b} : TargetsOverlap(new(b), new(c)) =>
                                  "confirmed" \notin {new(b).status, new(c).status}
        /\ \A c \in Bookings \ ids : book[c].status \in Active => ~TargetsOverlap(new(b), book[c])
    BY <1>1, BatchFacts DEF new
  <2>3. ASSUME NEW c \in Bookings \ {b}, Result(r, c)'.status \in Active, new(b).status \in Active
        PROVE  ~TargetsOverlap(new(b), Result(r, c)')
    BY <1>9, <2>2, <2>3 DEF Active
  <2>4. ASSUME new(b).status = "pending"
        PROVE  Cardinality(Rivals(r, b)') < Capacity
    <3>1. Rivals(r, b)' \in SUBSET (Bookings \ {b})
      BY DEF Rivals
    <3>2. ASSUME NEW c \in Rivals(r, b)'
          PROVE  IF c \in ids THEN new(c).status = "pending" /\ TargetsOverlap(new(b), new(c))
                 ELSE book[c].status = "pending" /\ TargetsOverlap(new(b), book[c])
      <4>1. c \in Bookings /\ Result(r, c)'.status = "pending" /\ TargetsOverlap(new(b), Result(r, c)')
        BY <2>1 DEF Rivals
      <4>2. Result(r, c)' = IF c \in ids THEN new(c) ELSE book[c]
        BY <1>9, <4>1
      <4> QED
        BY <4>1, <4>2
    <3> QED
      BY <1>1, <2>4, <3>1, <3>2, BatchFacts DEF new
  <2> QED
    BY <2>1, <2>3, <2>4 DEF Admitted
<1>11. OthersOnlyLose(r)'
  BY <1>5, <1>6, <1>8 DEF OthersOnlyLose
<1>12. ASSUME NEW b \in ids
       PROVE  /\ Proper(Result(r, b)')
              /\ book[b].status \notin {"completed", "cancelled"}
              /\ \/ Result(r, b)'.status \notin Active \cup {"pending"}
                 \/ Admitted(r, b)'
  <2>1. b \in Bookings /\ book[b].status \in {"pending", "confirmed"}
    BY <1>1, <1>2, <1>3, BatchFacts DEF new
  <2>2. Result(r, b)' = new(b) \/ Result(r, b)' = [new(b) EXCEPT !.status = "denied"]
    BY <1>8, <2>1
  <2>3. Result(r, b)'.status # "absent" /\ Result(r, b)'.from < Result(r, b)'.to
    BY <1>2, <1>3, <2>1, <2>2 DEF Row
  <2>4. b \in lost => Result(r, b)'.status \notin Active \cup {"pending"}
    BY <1>8, <2>1 DEF Active
  <2> QED
    BY <1>10, <2>1, <2>3, <2>4 DEF Proper
<1>13. \A c \in Bookings : \/ req'[r].target[c] = req'[r].loaded[c]
                           \/ req'[r].loaded[c] = book[c]
  BY <1>7
<1>14. Writing(r)'
  BY <1>6, <1>11, <1>12, <1>13 DEF Writing
<1> QED
  BY <1>6, <1>14, SessionStep DEF SerialSession

-----------------------------------------------------------------------------
(* One call at a time: what is written.                                     *)

LEMMA StoredRow ==
  ASSUME TypeOK, NEW r \in Requests, Store(req[r].loaded, req[r].target), NEW c \in Bookings,
         req[r].target[c] = req[r].loaded[c] \/ req[r].loaded[c] = book[c]
  PROVE  book'[c] = Result(r, c)
<1>1. book'[c] = Written(book[c], req[r].loaded[c], req[r].target[c])
  BY DEF Store
<1>2. book[c] \in Row /\ req[r].target[c] \in Row /\ req[r].loaded[c] \in Row
  BY SessionFields DEF TypeOK
<1>3. CASE req[r].target[c] = req[r].loaded[c]
  BY <1>1, <1>2, <1>3, LeftAlone DEF Result
<1>4. CASE req[r].target[c] # req[r].loaded[c] /\ req[r].loaded[c] = book[c]
  BY <1>1, <1>2, <1>4 DEF Written, Row, Result
<1> QED
  BY <1>3, <1>4

(* What the three properties say of a step of call r that writes the table. *)
KeepsFinality(r) ==
  \A b \in Bookings :
    book[b].status \in {"completed", "cancelled"} /\ book'[b].status # book[b].status =>
      b \in req[r].at /\ req[r].kind = "update"

KeepsSlots(r) ==
  \A b, c \in Bookings :
    ~Clash(b, c) /\ Clash(b, c)' => \E x \in {b, c} : x \in req[r].at /\ UncheckedActivation(r, x)

KeepsCapacity ==
  \A p \in Places, h \in Int :
    \/ PendingAt(p, h)' \subseteq PendingAt(p, h)
    \/ Cardinality(PendingAt(p, h)') <= Capacity

LEMMA CommitKeepsSlots ==
  ASSUME TypeOK, NEW r \in Requests, Writing(r), \A c \in Bookings : book'[c] = Result(r, c),
         book' \in [Bookings -> Row]
  PROVE  KeepsSlots(r)
<1> SUFFICES ASSUME NEW b \in Bookings, NEW c \in Bookings, ~Clash(b, c), Clash(b, c)',
                    \A x \in {b, c} : ~(x \in req[r].at /\ UncheckedActivation(r, x))
             PROVE  FALSE
  BY DEF KeepsSlots
<1>1. /\ b # c /\ Result(r, b).status \in Active /\ Result(r, c).status \in Active
      /\ TargetsOverlap(Result(r, b), Result(r, c))
  BY DEF Clash
<1>2. TargetsOverlap(Result(r, c), Result(r, b))
  BY <1>1, OverlapSymmetric
<1>3. ~Admitted(r, b) /\ ~Admitted(r, c)
  BY <1>1, <1>2 DEF Admitted
<1>4. ASSUME NEW x \in {b, c}
      PROVE  Result(r, x) = book[x]
  <2>1. x \in Bookings /\ Result(r, x).status \in Active
    BY <1>1
  <2>2. CASE x \in req[r].at
    BY <1>3, <2>1, <2>2 DEF Writing
  <2>3. CASE x \notin req[r].at
    BY <2>1, <2>3 DEF Writing, OthersOnlyLose, Active, TypeOK, Row
  <2> QED
    BY <2>2, <2>3
<1>5. Clash(b, c)
  BY <1>1, <1>4 DEF Clash
<1> QED
  BY <1>5

LEMMA CommitKeepsCapacity ==
  ASSUME IsFiniteSet(Bookings), TypeOK, NEW r \in Requests, Writing(r),
         \A c \in Bookings : book'[c] = Result(r, c), book' \in [Bookings -> Row]
  PROVE  KeepsCapacity
<1> SUFFICES ASSUME NEW p \in Places, NEW h \in Int, ~(PendingAt(p, h)' \subseteq PendingAt(p, h))
             PROVE  Cardinality(PendingAt(p, h)') <= Capacity
  BY DEF KeepsCapacity
<1> DEFINE after == {c \in Bookings : /\ Result(r, c).status = "pending" /\ Result(r, c).place = p
                                      /\ Result(r, c).from <= h /\ h < Result(r, c).to}
<1>1. PendingAt(p, h)' = after
  BY DEF PendingAt, InStatus
<1>2. PICK b \in after : b \notin PendingAt(p, h)
  BY <1>1
<1>3. b \in Bookings /\ Result(r, b).status = "pending" /\ Result(r, b) # book[b]
  BY <1>2 DEF PendingAt, InStatus
<1>4. b \in req[r].at
  BY <1>3 DEF Writing, OthersOnlyLose, TypeOK, Row
<1>5. Cardinality(Rivals(r, b)) < Capacity
  BY <1>3, <1>4 DEF Writing, Admitted, Active
<1>6. after \subseteq Rivals(r, b) \cup {b}
  <2> SUFFICES ASSUME NEW c \in after, c # b PROVE c \in Rivals(r, b)
    OBVIOUS
  <2>1. Result(r, b) \in Row /\ Result(r, c) \in Row
    BY <1>3
  <2> QED
    BY <1>2, <2>1 DEF Rivals, TargetsOverlap, Row
<1>7. IsFiniteSet(Rivals(r, b))
  BY FS_Subset DEF Rivals
<1>8. /\ IsFiniteSet(Rivals(r, b) \cup {b})
      /\ Cardinality(Rivals(r, b) \cup {b}) <= Cardinality(Rivals(r, b)) + 1
  <2>1. Cardinality(Rivals(r, b)) \in Nat
    BY <1>7, FS_CardinalityType
  <2>2. /\ IsFiniteSet(Rivals(r, b) \cup {b})
        /\ Cardinality(Rivals(r, b) \cup {b}) =
             IF b \in Rivals(r, b) THEN Cardinality(Rivals(r, b)) ELSE Cardinality(Rivals(r, b)) + 1
    BY <1>7, FS_AddElement
  <2> QED
    BY <2>1, <2>2
<1> HIDE DEF after
<1>9. IsFiniteSet(after) /\ Cardinality(after) <= Cardinality(Rivals(r, b) \cup {b})
  BY <1>6, <1>8, FS_Subset
<1> QED
  BY <1>1, <1>5, <1>7, <1>8, <1>9, FS_CardinalityType, BookingAssumption

LEMMA SerialCommit ==
  ASSUME SoleCall, IsFiniteSet(Bookings), TypeOK, SerialInv, NEW r \in Requests, Commit(r)
  PROVE  SerialInv' /\ KeepsFinality(r) /\ KeepsSlots(r) /\ KeepsCapacity
<1>1. Writing(r) /\ req'[r] = Idle /\ Store(req[r].loaded, req[r].target)
  BY DEF Commit, Locked, TypeOK, SerialInv, SerialSession, Idle, Inserting, Moving, Deciding
<1>2. \A c \in Bookings : book'[c] = Result(r, c)
  BY <1>1, StoredRow DEF Writing
<1>3. book' \in [Bookings -> Row] /\ req[r].at \subseteq Bookings
  BY <1>1, SessionFields, StoreType
<1>4. RowsAreProper'
  <2> SUFFICES ASSUME NEW c \in Bookings PROVE Proper(Result(r, c))
    BY <1>2 DEF RowsAreProper, Committed, Proper
  <2>1. CASE c \in req[r].at
    BY <1>1, <2>1 DEF Writing
  <2>2. CASE c \notin req[r].at
    <3>1. Proper(book[c]) /\ book[c] \in Row
      BY DEF SerialInv, RowsAreProper, Committed, Proper, TypeOK
    <3> QED
      BY <1>1, <2>2, <3>1 DEF Writing, OthersOnlyLose, Proper, Row
  <2> QED
    BY <2>1, <2>2
<1>5. SerialInv'
  BY <1>1, <1>4 DEF SoleCall, SerialInv, SerialSession
<1>6. KeepsFinality(r)
  BY <1>1, <1>2, <1>3 DEF Writing, OthersOnlyLose, KeepsFinality
<1> QED
  BY <1>1, <1>2, <1>3, <1>5, <1>6, CommitKeepsSlots, CommitKeepsCapacity

(* A call at "own" or "slot" changes the status of one booking.             *)
LEMMA Decider ==
  ASSUME SerialInv, NEW r \in Requests, req[r].pc = "slot"
  PROVE  \E x \in Bookings : Deciding(r, x)
BY DEF SerialInv, SerialSession, Idle, Writing, Inserting, Moving

LEMMA SerialChange ==
  ASSUME SoleCall, TypeOK, SerialInv, NEW r \in Requests, ChangeStatus(r)
  PROVE  SerialInv' /\ KeepsFinality(r) /\ KeepsSlots(r)
<1>1. /\ req[r].pc = "slot" /\ ~Approving(r) /\ req'[r] = Idle
      /\ Store(req[r].loaded, req[r].target)
  BY DEF ChangeStatus, Locked, TypeOK
<1>2. PICK x \in Bookings : Deciding(r, x)
  BY <1>1, Decider
<1>3. \A c \in Bookings \ {x} : book'[c] = book[c]
  BY <1>1, <1>2, LeftAlone DEF Deciding
<1>4. book'[x] = Result(r, x)
  BY <1>1, <1>2, StoredRow DEF Deciding
<1>5. /\ SameWindow(book'[x], book[x]) /\ book'[x].status = req[r].target[x].status
      /\ book'[x].status \in Status
  BY <1>2, <1>4 DEF Result, Deciding, SameWindow
<1>6. RowsAreProper'
  BY <1>2, <1>3, <1>5 DEF SerialInv, RowsAreProper, Committed, SameWindow, Status, Deciding
<1>7. SerialInv'
  BY <1>1, <1>6 DEF SoleCall, SerialInv, SerialSession
<1>8. KeepsFinality(r)
  BY <1>2, <1>3, <1>5 DEF KeepsFinality, Deciding
<1>9. UncheckedActivation(r, x)
  BY <1>1, <1>2 DEF UncheckedActivation, Approving, LoadedOwn, Own, Deciding
<1>10. KeepsSlots(r)
  <2> SUFFICES ASSUME NEW b \in Bookings, NEW c \in Bookings, ~Clash(b, c), Clash(b, c)'
               PROVE  x \in {b, c}
    BY <1>2, <1>9 DEF KeepsSlots, Deciding
  <2> QED
    BY <1>3 DEF Clash
<1> QED
  BY <1>7, <1>8, <1>10

(* An approval sees every active booking of the slot, and finds none.       *)
LEMMA SerialApprove ==
  ASSUME SoleCall, TypeOK, SerialInv, NEW r \in Requests, Approve(r)
  PROVE  SerialInv' /\ KeepsFinality(r) /\ KeepsSlots(r)
<1> DEFINE denied == OthersLocked(r) \cap InStatus({"pending"})
           loaded == LoadedToo(req[r].loaded, denied)
           target == Denied(LoadedToo(req[r].target, denied), denied)
<1>1. /\ req[r].pc = "slot" /\ req[r].want = {} /\ Approving(r) /\ req'[r] = Idle
      /\ OthersLocked(r) \cap InStatus(Active) = {}
      /\ \A b \in Bookings : book'[b] = Written(book[b], loaded[b], target[b])
  BY DEF Approve, Locked, Store, TypeOK
<1>2. PICK x \in Bookings : Deciding(r, x)
  BY <1>1, Decider
<1>3. \A b \in Bookings : book[b] \in Row /\ req[r].loaded[b] \in Row /\ req[r].target[b] \in Row
  BY SessionFields DEF TypeOK
<1>4. /\ x \notin denied /\ denied \subseteq Bookings /\ \A b \in denied : book[b].status = "pending"
      /\ book[x].status = "pending" /\ req[r].target[x].status = "confirmed"
      /\ LoadedOwn(r) = book[x]
  BY <1>1, <1>2 DEF Deciding, OthersLocked, InStatus, Approving, LoadedOwn, Own
<1>5. ASSUME NEW b \in Bookings
      PROVE  /\ loaded[b] = IF b \in denied THEN book[b] ELSE req[r].loaded[b]
             /\ target[b] = IF b \in denied THEN [book[b] EXCEPT !.status = "denied"]
                            ELSE req[r].target[b]
  BY DEF LoadedToo, Denied
<1> HIDE DEF denied, loaded, target
<1>6. ASSUME NEW b \in denied
      PROVE  SameWindow(book'[b], book[b]) /\ book'[b].status = "denied"
  <2>1. book'[b] = Written(book[b], book[b], [book[b] EXCEPT !.status = "denied"])
    BY <1>1, <1>4, <1>5
  <2> QED
    BY <1>3, <1>4, <2>1 DEF Written, SameWindow, Row
<1>7. SameWindow(book'[x], book[x]) /\ book'[x].status = "confirmed"
  <2>1. book'[x] = Written(book[x], book[x], req[r].target[x])
    BY <1>1, <1>2, <1>4, <1>5 DEF Deciding
  <2> QED
    BY <1>2, <1>4, <2>1 DEF Written, SameWindow, Deciding
<1>8. ASSUME NEW b \in Bookings \ {x}, b \notin denied
      PROVE  book'[b] = book[b]
  <2>1. book'[b] = Written(book[b], req[r].loaded[b], req[r].loaded[b])
    BY <1>1, <1>2, <1>5, <1>8 DEF Deciding
  <2> QED
    BY <1>3, <2>1 DEF Written, Row
<1>9. \A b \in Bookings : SameWindow(book'[b], book[b]) /\ (Committed(b)' <=> Committed(b))
  BY <1>4, <1>6, <1>7, <1>8 DEF SameWindow, Committed
<1>10. RowsAreProper'
  BY <1>4, <1>6, <1>7, <1>8, <1>9 DEF SerialInv, RowsAreProper, Committed, SameWindow
<1>11. SerialInv'
  BY <1>1, <1>10 DEF SoleCall, SerialInv, SerialSession
<1>12. KeepsFinality(r)
  BY <1>4, <1>6, <1>7, <1>8 DEF KeepsFinality
<1>13. ASSUME NEW y \in Bookings \ {x}, book'[y].status \in Active, TargetsOverlap(book[x], book[y])
       PROVE  FALSE
  <2>1. book[y].status \in Active
    BY <1>6, <1>8, <1>13 DEF Active
  <2>2. Committed(y) /\ Committed(x) /\ book[x] \in Row /\ book[y] \in Row
    BY <1>3, <1>4, <2>1 DEF Committed, Active
  <2>3. Overlapping(book[y], book[x])
    BY <1>13, <2>2, OverlapTestsAgree, OverlapSymmetric DEF SerialInv, RowsAreProper
  <2>4. y \in SlotRows(r) /\ y \notin req[r].at
    BY <1>2, <1>4, <2>2, <2>3 DEF SlotRows, Committed, Deciding
  <2>5. y \in OthersLocked(r)
    BY <1>1, <1>2, <2>4 DEF OthersLocked, Deciding
  <2> QED
    BY <1>1, <2>1, <2>5 DEF InStatus
<1>14. KeepsSlots(r)
  <2> SUFFICES ASSUME NEW b \in Bookings, NEW c \in Bookings, Clash(b, c)'
               PROVE  Clash(b, c)
    BY DEF KeepsSlots
  <2>1. /\ b # c /\ book'[b].status \in Active /\ book'[c].status \in Active
        /\ TargetsOverlap(book[b], book[c])
    BY <1>9 DEF Clash, TargetsOverlap, SameWindow
  <2>2. TargetsOverlap(book[c], book[b])
    BY <1>3, <2>1, OverlapSymmetric
  <2>3. b # x /\ c # x
    BY <1>13, <2>1, <2>2
  <2>4. book[b].status \in Active /\ book[c].status \in Active
    BY <1>6, <1>8, <2>1, <2>3 DEF Active
  <2> QED
    BY <2>1, <2>4 DEF Clash
<1> QED
  BY <1>11, <1>12, <1>14

-----------------------------------------------------------------------------
(* One call at a time: the theorems.                                        *)

LEMMA SerialNext ==
  ASSUME SoleCall, IsFiniteSet(Bookings), TypeOK, SerialInv, [Next]_vars
  PROVE  SerialInv'
<1>1. CASE UNCHANGED vars
  <2>1. book' = book /\ req' = req
    BY <1>1 DEF vars
  <2>2. \A r \in Requests, b \in Bookings : /\ Result(r, b)' = Result(r, b)
                                            /\ UncheckedActivation(r, b)' = UncheckedActivation(r, b)
    BY <2>1 DEF Result, UncheckedActivation
  <2>3. ASSUME NEW r \in Requests, SerialSession(r)
        PROVE  SerialSession(r)'
    <3>1. req[r].at \subseteq Bookings
      BY SessionFields
    <3>2. \A b \in Bookings : Admitted(r, b) => Admitted(r, b)'
      BY <2>2 DEF Admitted, Rivals
    <3>3. Writing(r) => Writing(r)'
      BY <2>1, <2>2, <3>1, <3>2 DEF Writing, OthersOnlyLose
    <3>4. Inserting(r) => Inserting(r)'
      <4>1. \A w, S : /\ ConfirmedConflict(w, S)' = ConfirmedConflict(w, S)
                      /\ PendingAround(w, S)' = PendingAround(w, S)
        BY <2>1 DEF ConfirmedConflict, PendingAround, InStatus
      <4> QED
        BY <2>1, <4>1 DEF Inserting, Committed
    <3>5. Moving(r) => Moving(r)'
      <4>1. \A w, S : /\ ConfirmedConflict(w, S)' = ConfirmedConflict(w, S)
                      /\ PendingAround(w, S)' = PendingAround(w, S)
        BY <2>1 DEF ConfirmedConflict, PendingAround, InStatus
      <4> QED
        BY <2>1, <4>1 DEF Moving, Committed, BatchAllowed
    <3>6. \A x \in Bookings : Deciding(r, x) => Deciding(r, x)'
      <4>1. SlotRows(r)' = SlotRows(r)
        BY <2>1 DEF SlotRows, LoadedOwn, Own
      <4> QED
        BY <2>1, <4>1 DEF Deciding, Committed
    <3> QED
      BY <2>1, <2>3, <3>3, <3>4, <3>5, <3>6 DEF SerialSession
  <2> QED
    BY <2>1, <2>3 DEF SerialInv, RowsAreProper, Committed
<1>2. ASSUME NEW r \in Requests, Receive(r) \/ LockRow(r) \/ Step(r) \/ Database(r)
      PROVE  SerialInv'
  <2>1. CASE RefuseBulk(r) \/ RefuseApproval(r) \/ RefuseBatch(r) \/ BreakDeadlock(r) \/ Fail(r)
    BY <2>1, SerialRollback DEF RefuseBulk, RefuseApproval, RefuseBatch, BreakDeadlock, Fail
  <2>2. CASE Receive(r)
    BY <2>2, SerialReceive
  <2>3. CASE LockRow(r)
    BY <2>3, SerialLock
  <2>4. CASE InsertRows(r)
    BY <2>4, SerialInsert
  <2>5. CASE LockSlot(r)
    BY <2>5, SerialLockSlot
  <2>6. CASE Approve(r) \/ ChangeStatus(r) \/ Commit(r)
    BY <2>6, SerialApprove, SerialChange, SerialCommit
  <2>7. CASE Select(r) \/ Validate(r)
    BY <2>7, SerialSelect, SerialValidate
  <2>8. CASE Apply(r)
    BY <2>8, SerialApply
  <2>9. CASE SyncCommits(r)
    BY <2>9, SerialSync
  <2> QED
    BY <1>2, <2>1, <2>2, <2>3, <2>4, <2>5, <2>6, <2>7, <2>8, <2>9 DEF Step, Database
<1> QED
  BY <1>1, <1>2 DEF Next

(* The strengthening: when a call reaches its commit, each row it would     *)
(* leave behind is one it found, one that lost a request, one whose status  *)
(* nobody checks, or one that fits among all the others.                    *)
THEOREM ChecksAreSerial ==
  ASSUME SoleCall, IsFiniteSet(Bookings) PROVE Spec => []SerialInv
<1>1. Init => SerialInv
  BY SerialInit
<1>2. TypeOK /\ SerialInv /\ [Next]_vars => SerialInv'
  BY SerialNext
<1> QED
  BY <1>1, <1>2, TypeCorrect, PTL DEF Spec

(* A step that writes the table ends a call, and keeps its promises.        *)
LEMMA WritesKeep ==
  ASSUME SoleCall, IsFiniteSet(Bookings), TypeOK, SerialInv, Next, book' # book
  PROVE  \E r \in Requests : /\ req[r].pc # "idle" /\ req'[r].pc = "idle"
                             /\ KeepsFinality(r) /\ KeepsSlots(r)
                             /\ \/ KeepsCapacity
                                \/ req[r].kind = "status" /\ req[r].at # {}
<1>1. PICK r \in Requests : Receive(r) \/ LockRow(r) \/ Step(r) \/ Database(r)
  BY DEF Next
<1>2. Approve(r) \/ ChangeStatus(r) \/ Commit(r)
  BY <1>1, WritersWrite
<1>3. req[r].pc # "idle" /\ req'[r].pc = "idle"
  BY <1>2 DEF Approve, ChangeStatus, Commit, Locked, TypeOK, Idle
<1>4. CASE Approve(r) \/ ChangeStatus(r)
  <2>1. req[r].kind = "status" /\ req[r].at # {}
    BY <1>4, Decider DEF Approve, ChangeStatus, Locked, Deciding
  <2> QED
    BY <1>3, <1>4, <2>1, SerialApprove, SerialChange
<1> QED
  BY <1>2, <1>3, <1>4, SerialCommit

(* With one call at a time the checks of create_booking, update_booking,    *)
(* update_booking_status and apply_bulk_reschedule leave two active         *)
(* bookings on one hour only through a status nobody checks.                *)
THEOREM DoubleBookingsAreUnchecked ==
  ASSUME SoleCall, IsFiniteSet(Bookings) PROVE Spec => ChecksPreventDoubleBooking
<1> DEFINE Kept == \A b, c \in Bookings :
             ~Clash(b, c) /\ Clash(b, c)' =>
               \E r \in Requests, x \in {b, c} : Ends(r, x) /\ UncheckedActivation(r, x)
<1>1. TypeOK /\ SerialInv /\ [Next]_vars => [Kept]_vars
  <2> SUFFICES ASSUME TypeOK, SerialInv, Next, NEW b \in Bookings, NEW c \in Bookings,
                      ~Clash(b, c), Clash(b, c)'
               PROVE  \E r \in Requests, x \in {b, c} : Ends(r, x) /\ UncheckedActivation(r, x)
    OBVIOUS
  <2>1. book' # book
    BY DEF Clash
  <2>2. PICK r \in Requests : req[r].pc # "idle" /\ req'[r].pc = "idle" /\ KeepsSlots(r)
    BY <2>1, WritesKeep
  <2> QED
    BY <2>2 DEF KeepsSlots, Ends
<1> QED
  BY <1>1, TypeCorrect, ChecksAreSerial, PTL DEF Spec, ChecksPreventDoubleBooking

(* With one call at a time a booking that is over is changed by PUT alone.  *)
THEOREM FinishedBookingsStay ==
  ASSUME SoleCall, IsFiniteSet(Bookings) PROVE Spec => OnlyUpdatesReopen
<1> DEFINE Kept == \A b \in Bookings :
             book[b].status \in {"completed", "cancelled"} /\ book'[b].status # book[b].status =>
               \E r \in Requests : Ends(r, b) /\ req[r].kind = "update"
<1>1. TypeOK /\ SerialInv /\ [Next]_vars => [Kept]_vars
  <2> SUFFICES ASSUME TypeOK, SerialInv, Next, NEW b \in Bookings,
                      book[b].status \in {"completed", "cancelled"}, book'[b].status # book[b].status
               PROVE  \E r \in Requests : Ends(r, b) /\ req[r].kind = "update"
    OBVIOUS
  <2>1. PICK r \in Requests : req[r].pc # "idle" /\ req'[r].pc = "idle" /\ KeepsFinality(r)
    BY WritesKeep
  <2> QED
    BY <2>1 DEF KeepsFinality, Ends
<1> QED
  BY <1>1, TypeCorrect, ChecksAreSerial, PTL DEF Spec, OnlyUpdatesReopen

(* With one call at a time the requests for an hour come to exceed the      *)
(* capacity of the asset only when a PATCH reopens one of them.             *)
THEOREM CapacityIsKept ==
  ASSUME SoleCall, IsFiniteSet(Bookings) PROVE Spec => ChecksKeepCapacity
<1> DEFINE Kept == \A p \in Places, h \in Hours :
             LET before == Cardinality(PendingAt(p, h))
                 after == Cardinality(PendingAt(p, h)') IN
             after > before /\ after > Capacity =>
               \E r \in Requests, b \in Bookings : Ends(r, b) /\ req[r].kind = "status"
<1>1. TypeOK /\ SerialInv /\ [Next]_vars => [Kept]_vars
  <2> SUFFICES ASSUME TypeOK, SerialInv, Next, NEW p \in Places, NEW h \in Hours,
                      Cardinality(PendingAt(p, h)') > Cardinality(PendingAt(p, h)),
                      Cardinality(PendingAt(p, h)') > Capacity
               PROVE  \E r \in Requests, b \in Bookings : Ends(r, b) /\ req[r].kind = "status"
    OBVIOUS
  <2>1. /\ IsFiniteSet(PendingAt(p, h)) /\ IsFiniteSet(PendingAt(p, h)')
        /\ Cardinality(PendingAt(p, h)) \in Nat /\ Cardinality(PendingAt(p, h)') \in Nat
    <3>1. PendingAt(p, h) \subseteq Bookings /\ PendingAt(p, h)' \subseteq Bookings
      BY DEF PendingAt, InStatus
    <3> QED
      BY <3>1, FS_Subset, FS_CardinalityType
  <2>2. h \in Int
    BY BookingAssumption DEF Hours
  <2>3. ~KeepsCapacity
    <3>1. ~(PendingAt(p, h)' \subseteq PendingAt(p, h))
      BY <2>1, FS_Subset
    <3> QED
      BY <2>1, <2>2, <3>1, BookingAssumption DEF KeepsCapacity
  <2>4. book' # book
    BY <2>1 DEF PendingAt, InStatus
  <2>5. PICK r \in Requests : /\ req[r].pc # "idle" /\ req'[r].pc = "idle"
                              /\ req[r].kind = "status" /\ req[r].at # {}
    BY <2>3, <2>4, WritesKeep
  <2>6. PICK b \in req[r].at : b \in Bookings
    BY <2>5, SessionFields
  <2> QED
    BY <2>5, <2>6 DEF Ends
<1> QED
  BY <1>1, TypeCorrect, ChecksAreSerial, PTL DEF Spec, ChecksKeepCapacity


-----------------------------------------------------------------------------
(* Why approvals never book a place twice, when bookings are only requested *)
(* by subcontractors, decided upon and cancelled: for every combination of  *)
(* concurrent and failing calls.                                            *)

(* No manager books outright, edits or reschedules a booking, and a status  *)
(* is changed only by deciding upon a pending request.                      *)
RequestsAndDecisions ==
  /\ Kinds \subseteq {"create", "status", "delete"}
  /\ Roles \subseteq {"subcontractor"}
  /\ Transitions \subseteq {"pending"} \X {"confirmed", "denied", "cancelled"}

-----------------------------------------------------------------------------
(* What the invariant says of one session.                                  *)

LEMMA InitInv == Init => ApprovalInv
<1> SUFFICES ASSUME Init PROVE ApprovalInv
  OBVIOUS
<1>1. \A b \in Bookings : book[b] = Absent /\ Absent.status = "absent"
  BY DEF Init, Blank, Absent
<1>2. \A r \in Requests : req[r] = Idle /\ req[r].pc = "idle" /\ req[r].held = {}
  BY DEF Init, Idle
<1>3. NoDoubleBooking
  BY <1>1 DEF NoDoubleBooking, Clash, Active
<1> QED
  BY <1>1, <1>2, <1>3
  DEF ApprovalInv, RowsAreProper, Committed, LocksAreExclusive, SessionIsSound, SlotIsGuarded,
      ApprovalsMeet

(* A session at "own" or "slot" decides upon one committed request.         *)
LEMMA Decides ==
  ASSUME NEW r \in Requests, SessionIsSound(r), req[r].pc \in {"own", "slot"}
  PROVE  \E x \in Bookings : Patching(r, x)
BY DEF SessionIsSound, Creating, Deleting, Idle

LEMMA Flushes ==
  ASSUME NEW r \in Requests, SessionIsSound(r), req[r].pc = "flush"
  PROVE  Creating(r) \/ Deleting(r)
BY DEF SessionIsSound, Patching, Idle

(* For a committed row, being in the loaded slot is overlapping the booking *)
(* the session decides upon: its window has not changed.                    *)
LEMMA SlotOverlap ==
  ASSUME TypeOK, RowsAreProper, NEW r \in Requests, NEW x \in Bookings, Patching(r, x),
         NEW y \in Bookings, Committed(y)
  PROVE  /\ Own(r) = x
         /\ Overlapping(book[y], LoadedOwn(r)) <=> TargetsOverlap(book[x], book[y])
<1>1. Own(r) = x
  BY DEF Patching, Own
<1>2. /\ book[x] \in Row /\ book[y] \in Row /\ req[r].loaded[x] \in Row
      /\ book[x].from < book[x].to /\ book[y].from < book[y].to
      /\ SameWindow(req[r].loaded[x], book[x])
  BY SessionFields DEF TypeOK, RowsAreProper, Patching
<1>3. req[r].loaded[x].from < req[r].loaded[x].to
  BY <1>2 DEF SameWindow
<1>4. Overlapping(book[y], req[r].loaded[x]) <=> TargetsOverlap(book[y], req[r].loaded[x])
  BY <1>2, <1>3, OverlapTestsAgree
<1>5. TargetsOverlap(book[y], req[r].loaded[x]) <=> TargetsOverlap(book[y], book[x])
  BY <1>2 DEF SameWindow, TargetsOverlap
<1> QED
  BY <1>1, <1>2, <1>4, <1>5, OverlapSymmetric DEF LoadedOwn

-----------------------------------------------------------------------------
(* What a step of one session leaves true of the others.                    *)

WindowsKept ==
  \A b \in Bookings : Committed(b) => Committed(b)' /\ SameWindow(book'[b], book[b])

OthersUnchanged(r) == \A q \in Requests \ {r} : req'[q] = req[q]

(* The ids a session takes are its own, committed or nobody's; the rows it  *)
(* inserts are its own.                                                     *)
OwnIds(r) ==
  /\ \A b \in Bookings : ~Committed(b) /\ Committed(b)' => b \in req[r].at
  /\ \A b \in req'[r].at : \/ b \in req[r].at
                           \/ Committed(b)
                           \/ \A q \in Requests \ {r} : b \notin req[q].at

LEMMA OthersSound ==
  ASSUME TypeOK, ApprovalInv, NEW r \in Requests, WindowsKept, OthersUnchanged(r), OwnIds(r),
         NEW q \in Requests \ {r}
  PROVE  SessionIsSound(q)'
<1>1. req'[q] = req[q] /\ SessionIsSound(q)
  BY DEF OthersUnchanged, ApprovalInv
<1>2. CASE req[q] = Idle
  BY <1>1, <1>2 DEF SessionIsSound
<1>3. CASE Creating(q)
  <2>1. ASSUME NEW b \in req[q].at PROVE ~Committed(b)' /\ \A p \in Requests \ {q} : b \notin req'[p].at
    <3>1. b \in Bookings /\ ~Committed(b) /\ \A p \in Requests \ {q} : b \notin req[p].at
      BY <1>3, <2>1, SessionFields DEF Creating
    <3>2. ~Committed(b)'
      BY <3>1 DEF OwnIds
    <3>3. b \notin req'[r].at
      BY <2>1, <3>1 DEF OwnIds
    <3> QED
      BY <3>1, <3>2, <3>3 DEF OthersUnchanged
  <2>2. Creating(q)'
    BY <1>1, <1>3, <2>1 DEF Creating
  <2> QED
    BY <2>2 DEF SessionIsSound
<1>4. CASE Deleting(q)
  <2>1. Deleting(q)'
    BY <1>1, <1>4 DEF Deleting, WindowsKept
  <2> QED
    BY <2>1 DEF SessionIsSound
<1>5. ASSUME NEW b \in Bookings, Patching(q, b) PROVE SessionIsSound(q)'
  <2>1. Committed(b)' /\ SameWindow(book'[b], book[b])
    BY <1>5 DEF Patching, WindowsKept
  <2>2. Patching(q, b)'
    BY <1>1, <1>5, <2>1 DEF Patching, SameWindow
  <2> QED
    BY <2>2 DEF SessionIsSound
<1> QED
  BY <1>1, <1>2, <1>3, <1>4, <1>5 DEF SessionIsSound

(* Approvals that were on the way still meet.                               *)
LEMMA OthersMeet ==
  ASSUME TypeOK, ApprovalInv, NEW r \in Requests, WindowsKept, OthersUnchanged(r),
         NEW p \in Requests \ {r}, NEW q \in Requests \ {r}, p # q
  PROVE  ApprovalsMeet(p, q)'
<1>1. req'[p] = req[p] /\ req'[q] = req[q] /\ ApprovalsMeet(p, q)
  BY DEF OthersUnchanged, ApprovalInv
<1> SUFFICES ASSUME req[p].pc = "slot", req[q].pc = "slot", NEW b \in req[p].at, NEW c \in req[q].at,
                    b # c, TargetsOverlap(book'[b], book'[c])
             PROVE  c \in Reached(p) \/ b \in Reached(q)
  BY <1>1 DEF ApprovalsMeet, Reached
<1>2. b \in Bookings /\ c \in Bookings /\ Committed(b) /\ Committed(c)
  BY Decides DEF ApprovalInv, Patching
<1>3. SameWindow(book'[b], book[b]) /\ SameWindow(book'[c], book[c])
  BY <1>2 DEF WindowsKept
<1>4. TargetsOverlap(book[b], book[c])
  BY <1>3 DEF SameWindow, TargetsOverlap
<1> QED
  BY <1>1, <1>4 DEF ApprovalsMeet

LEMMA OthersGuarded ==
  ASSUME TypeOK, ApprovalInv, NEW r \in Requests, WindowsKept, OthersUnchanged(r),
         NEW q \in Requests \ {r}, NEW b \in Bookings, book[b].status \in Active,
         req[q].pc = "slot", b \notin req[q].at, Overlapping(book'[b], LoadedOwn(q))
  PROVE  b \in Reached(q)
<1>1. SameWindow(book'[b], book[b])
  BY DEF WindowsKept, Committed, Active
<1>2. Overlapping(book[b], LoadedOwn(q))
  BY <1>1 DEF SameWindow, Overlapping
<1> QED
  BY <1>2 DEF ApprovalInv, SlotIsGuarded, InStatus

(* A step that keeps the windows, makes nothing active and leaves its       *)
(* session elsewhere than at "slot", without new locks.                     *)
LEMMA QuietStep ==
  ASSUME TypeOK, ApprovalInv, NEW r \in Requests, WindowsKept, OthersUnchanged(r), OwnIds(r),
         RowsAreProper', SessionIsSound(r)', req'[r].pc # "slot", req'[r].held \subseteq req[r].held,
         \A b \in Bookings : book'[b].status \in Active => book[b].status \in Active
  PROVE  ApprovalInv'
<1>1. LocksAreExclusive'
  BY DEF ApprovalInv, LocksAreExclusive, OthersUnchanged
<1>2. ASSUME NEW q \in Requests PROVE SessionIsSound(q)'
  BY OthersSound
<1>3. ASSUME NEW q \in Requests PROVE SlotIsGuarded(q)'
  <2> SUFFICES ASSUME req'[q].pc = "slot", NEW b \in Bookings, book'[b].status \in Active,
                      b \notin req'[q].at, Overlapping(book'[b], LoadedOwn(q)')
               PROVE  b \in Reached(q)'
    BY DEF SlotIsGuarded, InStatus
  <2>1. q # r /\ req'[q] = req[q]
    BY DEF OthersUnchanged
  <2>2. LoadedOwn(q)' = LoadedOwn(q)
    BY <2>1 DEF LoadedOwn, Own
  <2> QED
    BY <2>1, <2>2, OthersGuarded DEF Reached
<1>4. ASSUME NEW p \in Requests, NEW q \in Requests, p # q PROVE ApprovalsMeet(p, q)'
  <2>1. CASE p = r \/ q = r
    BY <2>1 DEF ApprovalsMeet
  <2>2. CASE p # r /\ q # r
    BY <1>4, <2>2, OthersMeet
  <2> QED
    BY <2>1, <2>2
<1>5. NoDoubleBooking'
  <2> SUFFICES ASSUME NEW b \in Bookings, NEW c \in Bookings, Clash(b, c)' PROVE FALSE
    BY DEF NoDoubleBooking
  <2>1. {book[b].status, book[c].status} \subseteq Active
    BY DEF Clash
  <2>2. SameWindow(book'[b], book[b]) /\ SameWindow(book'[c], book[c])
    BY <2>1 DEF WindowsKept, Committed, Active
  <2>3. Clash(b, c)
    BY <2>1, <2>2 DEF Clash, TargetsOverlap, SameWindow
  <2> QED
    BY <2>3 DEF ApprovalInv, NoDoubleBooking
<1> QED
  BY <1>1, <1>2, <1>3, <1>4, <1>5 DEF ApprovalInv

(* In particular when the table is not touched.                             *)
LEMMA ReadingStep ==
  ASSUME TypeOK, ApprovalInv, NEW r \in Requests, UNCHANGED book, OthersUnchanged(r),
         \A b \in req'[r].at : \/ b \in req[r].at
                               \/ Committed(b)
                               \/ \A q \in Requests \ {r} : b \notin req[q].at,
         SessionIsSound(r)', req'[r].pc # "slot", req'[r].held \subseteq req[r].held
  PROVE  ApprovalInv'
<1>1. WindowsKept /\ OwnIds(r)
  BY DEF WindowsKept, OwnIds, Committed, SameWindow
<1>2. RowsAreProper'
  BY DEF ApprovalInv, RowsAreProper, Committed
<1> QED
  BY <1>1, <1>2, QuietStep

LEMMA RollbackInv ==
  ASSUME TypeOK, ApprovalInv, NEW r \in Requests, Rollback(r)
  PROVE  ApprovalInv'
<1>1. req'[r] = Idle /\ OthersUnchanged(r)
  BY DEF Rollback, TypeOK, OthersUnchanged
<1>2. req'[r].at = {} /\ req'[r].pc # "slot" /\ req'[r].held = {} /\ SessionIsSound(r)'
  BY <1>1 DEF Idle, SessionIsSound
<1> QED
  BY <1>1, <1>2, ReadingStep DEF Rollback

-----------------------------------------------------------------------------
(* The steps.                                                               *)

LEMMA AtFields ==
  ASSUME NEW row \in Row, NEW p, NEW s
  PROVE  /\ At(row, p, s).status = row.status
         /\ At(row, p, s).from = s[1] /\ At(row, p, s).to = s[2]
BY DEF At, Row

LEMMA ReceiveInv ==
  ASSUME RequestsAndDecisions, TypeOK, ApprovalInv, NEW r \in Requests, Receive(r)
  PROVE  ApprovalInv'
<1>1. ASSUME NEW ids \in SUBSET Fresh, NEW s \in Slots, ReceiveCreate(r, "subcontractor", ids, s)
      PROVE  ApprovalInv'
  <2>1. PICK place \in [ids -> Places] :
          req' = [req EXCEPT ![r] =
            [Idle EXCEPT !.pc = "insert", !.kind = "create", !.at = ids,
                         !.target = [b \in Bookings |->
                            IF b \in ids
                            THEN At([Absent EXCEPT !.status = NewStatus("subcontractor")], place[b], s)
                            ELSE Absent]]]
    BY <1>1 DEF ReceiveCreate
  <2>2. /\ req'[r].pc = "insert" /\ req'[r].at = ids /\ req'[r].want = {} /\ req'[r].held = {}
        /\ \A b \in Bookings : req'[r].loaded[b] = Absent
        /\ \A b \in Bookings \ ids : req'[r].target[b] = Absent
        /\ \A b \in ids \cap Bookings :
             req'[r].target[b] = At([Absent EXCEPT !.status = NewStatus("subcontractor")], place[b], s)
    BY <2>1 DEF TypeOK, Idle, Blank
  <2>3. ids \subseteq Bookings
    BY DEF Fresh, InStatus
  <2>4. s[1] < s[2]
    BY BookingAssumption
  <2>5. ASSUME NEW b \in ids
        PROVE  /\ req'[r].target[b].status = "pending"
               /\ req'[r].target[b].from = s[1] /\ req'[r].target[b].to = s[2]
    <3>1. [Absent EXCEPT !.status = NewStatus("subcontractor")].status = "pending"
      BY DEF Absent, NewStatus
    <3>2. [Absent EXCEPT !.status = NewStatus("subcontractor")] \in Row
      BY AbsentType, StatusType DEF NewStatus, Status
    <3>3. req'[r].target[b] = At([Absent EXCEPT !.status = NewStatus("subcontractor")], place[b], s)
      BY <2>2, <2>3
    <3> DEFINE blank == [Absent EXCEPT !.status = NewStatus("subcontractor")]
    <3> HIDE DEF blank
    <3>4. /\ At(blank, place[b], s).status = blank.status
          /\ At(blank, place[b], s).from = s[1] /\ At(blank, place[b], s).to = s[2]
      BY <3>2, AtFields DEF blank
    <3> QED
      BY <3>1, <3>3, <3>4 DEF blank
  <2>6. OthersUnchanged(r) /\ UNCHANGED book
    BY <1>1, <2>1 DEF OthersUnchanged, TypeOK, ReceiveCreate
  <2>7. \A b \in ids : book[b].status = "absent" /\ \A q \in Requests \ {r} : b \notin req[q].at
    BY DEF Fresh, InStatus
  <2>8. Creating(r)'
    BY <2>2, <2>3, <2>4, <2>5, <2>6, <2>7 DEF Creating, Committed, OthersUnchanged
  <2>9. SessionIsSound(r)'
    BY <2>8 DEF SessionIsSound
  <2> QED
    BY <2>2, <2>6, <2>7, <2>9, ReadingStep
<1>2. ASSUME NEW b \in Bookings, NEW status \in Status, SetStatus(r, b, status)
      PROVE  ApprovalInv'
  <2>1. book[b].status = "pending" /\ status \in {"confirmed", "denied", "cancelled"}
    BY <1>2 DEF SetStatus, RequestsAndDecisions
  <2>2. /\ req'[r].pc = "own" /\ req'[r].at = {b} /\ req'[r].want = {b} /\ req'[r].held = {}
        /\ req'[r].loaded = OneRow(b, book[b])
        /\ req'[r].target = OneRow(b, [book[b] EXCEPT !.status = status])
    BY <1>2 DEF SetStatus, TypeOK, Idle
  <2>3. OthersUnchanged(r) /\ UNCHANGED book
    BY <1>2 DEF OthersUnchanged, TypeOK, SetStatus
  <2>4. /\ req'[r].loaded[b] = book[b]
        /\ req'[r].target[b] = [book[b] EXCEPT !.status = status]
        /\ \A c \in Bookings \ {b} : req'[r].target[c] = req'[r].loaded[c]
    BY <2>2 DEF OneRow, Blank
  <2>5. book[b] \in Row
    BY DEF TypeOK
  <2>6. /\ SameWindow(req'[r].target[b], book[b]) /\ SameWindow(req'[r].loaded[b], book[b])
        /\ req'[r].target[b].status = status
    BY <2>4, <2>5 DEF SameWindow, Row
  <2>7. Patching(r, b)'
    BY <2>1, <2>2, <2>3, <2>4, <2>6 DEF Patching, Committed
  <2>8. SessionIsSound(r)'
    BY <2>7 DEF SessionIsSound
  <2> QED
    BY <2>1, <2>2, <2>3, <2>8, ReadingStep DEF Committed
<1>3. ASSUME NEW b \in Bookings, Delete(r, b)
      PROVE  ApprovalInv'
  <2>1. Committed(b)
    BY <1>3 DEF Delete, Committed
  <2>2. /\ req'[r].pc = "flush" /\ req'[r].at = {b} /\ req'[r].held = {}
        /\ req'[r].loaded = OneRow(b, book[b])
        /\ req'[r].target = OneRow(b, [book[b] EXCEPT !.status = "cancelled"])
    BY <1>3 DEF Delete, TypeOK, Idle
  <2>3. OthersUnchanged(r) /\ UNCHANGED book
    BY <1>3 DEF OthersUnchanged, TypeOK, Delete
  <2>4. /\ req'[r].loaded[b] = book[b]
        /\ req'[r].target[b] = [book[b] EXCEPT !.status = "cancelled"]
        /\ \A c \in Bookings \ {b} : req'[r].target[c] = req'[r].loaded[c]
    BY <2>2 DEF OneRow, Blank
  <2>5. /\ SameWindow(req'[r].target[b], req'[r].loaded[b])
        /\ req'[r].target[b].status = "cancelled"
    BY <2>4 DEF SameWindow, TypeOK, Row
  <2>6. Deleting(r)'
    BY <2>1, <2>2, <2>3, <2>4, <2>5 DEF Deleting, Committed
  <2>7. SessionIsSound(r)'
    BY <2>6 DEF SessionIsSound
  <2> QED
    BY <2>1, <2>2, <2>3, <2>7, ReadingStep
<1>4. \A b \in Bookings : \A new : ~Update(r, b, new)
  BY DEF Update, RequestsAndDecisions
<1>5. \A ids, down : ~Reschedule(r, ids, down)
  BY DEF Reschedule, RequestsAndDecisions
<1>6. \A role \in Roles : role = "subcontractor"
  BY DEF RequestsAndDecisions
<1> QED
  BY <1>1, <1>2, <1>3, <1>4, <1>5, <1>6 DEF Receive

LEMMA InsertInv ==
  ASSUME TypeOK, ApprovalInv, NEW r \in Requests, InsertRows(r)
  PROVE  ApprovalInv'
<1>1. Creating(r)
  BY DEF InsertRows, ApprovalInv, SessionIsSound, Deleting, Patching, Idle
<1>2. Competing(NewRows(r)) = {}
  BY <1>1 DEF Competing, NewRows, Creating
<1>3. /\ req[r].loaded \in [Bookings -> Row] /\ req[r].target \in [Bookings -> Row]
      /\ LoadedToo(req[r].loaded, {}) = req[r].loaded
      /\ Denied(LoadedToo(req[r].target, {}), {}) = req[r].target
  BY SessionFields DEF LoadedToo, Denied
<1>4. req' = [req EXCEPT ![r] = [req[r] EXCEPT !.pc = "flush", !.want = {},
                                               !.loaded = req[r].loaded, !.target = req[r].target]]
  BY <1>2, <1>3 DEF InsertRows, TypeOK
<1>5. /\ req'[r].pc = "flush" /\ req'[r].want = {} /\ req'[r].at = req[r].at
      /\ req'[r].held = req[r].held /\ req'[r].loaded = req[r].loaded
      /\ req'[r].target = req[r].target
  BY <1>4 DEF TypeOK, Session
<1>6. OthersUnchanged(r) /\ UNCHANGED book
  BY <1>4 DEF OthersUnchanged, InsertRows, TypeOK
<1>7. Creating(r)'
  BY <1>1, <1>5, <1>6 DEF Creating, Committed, OthersUnchanged
<1>8. SessionIsSound(r)'
  BY <1>7 DEF SessionIsSound
<1> QED
  BY <1>5, <1>6, <1>8, ReadingStep

(* A call that writes and ends.                                             *)
LEMMA EndingStep ==
  ASSUME TypeOK, ApprovalInv, NEW r \in Requests, req' = [req EXCEPT ![r] = Idle]
  PROVE  /\ OthersUnchanged(r) /\ SessionIsSound(r)'
         /\ req'[r].pc # "slot" /\ req'[r].held = {} /\ req'[r].at = {} /\ req'[r].want = {}
BY DEF OthersUnchanged, TypeOK, SessionIsSound, Idle

LEMMA CommitInv ==
  ASSUME TypeOK, ApprovalInv, NEW r \in Requests, Commit(r)
  PROVE  ApprovalInv'
<1> DEFINE row(b) == Written(book[b], req[r].loaded[b], req[r].target[b])
<1>1. /\ req' = [req EXCEPT ![r] = Idle] /\ req[r].pc = "flush"
      /\ \A b \in Bookings : book'[b] = row(b)
  BY DEF Commit, Locked, Store
<1>2. \A b \in Bookings : /\ book[b] \in Row /\ req[r].loaded[b] \in Row /\ req[r].target[b] \in Row
                          /\ IF Committed(b) THEN book[b].from < book[b].to ELSE book[b] = Absent
  BY SessionFields DEF TypeOK, ApprovalInv, RowsAreProper
<1>3. ASSUME NEW b \in Bookings, req[r].target[b] = req[r].loaded[b] PROVE book'[b] = book[b]
  BY <1>1, <1>2, <1>3 DEF Written, Row
<1>4. CASE Creating(r)
  <2>1. \A b \in Bookings \ req[r].at : book'[b] = book[b]
    BY <1>3, <1>4 DEF Creating
  <2>2. ASSUME NEW b \in req[r].at PROVE book'[b] = req[r].target[b] /\ b \in Bookings
    <3>1. b \in Bookings /\ book[b] = Absent /\ req[r].loaded[b] = Absent
      BY <1>2, <1>4, SessionFields DEF Creating
    <3> QED
      BY <1>1, <1>2, <3>1 DEF Written, Row
  <2>3. \A b \in req[r].at : /\ book'[b].status = "pending" /\ book'[b].from < book'[b].to
                             /\ ~Committed(b)
    BY <1>4, <2>2 DEF Creating
  <2>4. WindowsKept /\ \A b \in Bookings : book'[b].status \in Active => book[b].status \in Active
    BY <2>1, <2>3 DEF WindowsKept, Committed, SameWindow, Active
  <2>5. RowsAreProper'
    BY <1>2, <2>1, <2>3 DEF RowsAreProper, Committed
  <2>6. OwnIds(r)
    BY <1>1, <2>1, EndingStep DEF OwnIds, Committed
  <2> QED
    BY <1>1, <2>4, <2>5, <2>6, EndingStep, QuietStep
<1>5. CASE Deleting(r)
  <2>1. PICK x \in Bookings : /\ req[r].at = {x} /\ Committed(x)
                              /\ \A c \in Bookings \ {x} : req[r].target[c] = req[r].loaded[c]
                              /\ SameWindow(req[r].target[x], req[r].loaded[x])
                              /\ req[r].target[x].status = "cancelled"
    BY <1>5 DEF Deleting
  <2>2. \A b \in Bookings \ {x} : book'[b] = book[b]
    BY <1>3, <2>1
  <2>3. /\ SameWindow(book'[x], book[x])
        /\ book'[x].status \in {"cancelled", book[x].status}
    <3>1. book'[x] = row(x)
      BY <1>1
    <3> QED
      BY <2>1, <3>1 DEF Written, SameWindow
  <2>4. /\ \A b \in Bookings : SameWindow(book'[b], book[b]) /\ (Committed(b)' <=> Committed(b))
        /\ \A b \in Bookings : book'[b].status \in Active => book[b].status \in Active
    BY <2>1, <2>2, <2>3 DEF SameWindow, Committed, Active
  <2>5. WindowsKept /\ OwnIds(r)
    BY <1>1, <2>4, EndingStep DEF WindowsKept, OwnIds
  <2>6. RowsAreProper'
    BY <1>2, <2>1, <2>2, <2>4 DEF RowsAreProper, Committed, SameWindow
  <2> QED
    BY <1>1, <2>4, <2>5, <2>6, EndingStep, QuietStep
<1> QED
  BY <1>1, <1>4, <1>5, Flushes DEF ApprovalInv

(* Taking a free lock leaves what is or will be locked as it was.           *)
LEMMA LockRowInv ==
  ASSUME TypeOK, ApprovalInv, NEW r \in Requests, LockRow(r)
  PROVE  ApprovalInv'
<1>1. PICK b \in Bookings : /\ IsNext(b, r)
                            /\ req' = [req EXCEPT ![r].want = @ \ {b}, ![r].held = @ \cup {b}]
  BY DEF LockRow
<1>2. UNCHANGED book /\ b \in req[r].want /\ \A q \in Requests \ {r} : b \notin req[q].held
  BY <1>1 DEF LockRow, Blocks, IsNext
<1>3. req' = [req EXCEPT ![r] = [req[r] EXCEPT !.want = req[r].want \ {b},
                                               !.held = req[r].held \cup {b}]]
  BY <1>1 DEF TypeOK
<1>4. /\ req'[r].want = req[r].want \ {b} /\ req'[r].held = req[r].held \cup {b}
      /\ req'[r].pc = req[r].pc /\ req'[r].at = req[r].at
      /\ req'[r].loaded = req[r].loaded /\ req'[r].target = req[r].target
  BY <1>3, SessionFields DEF TypeOK, Session
<1>5. OthersUnchanged(r)
  BY <1>3 DEF TypeOK, OthersUnchanged
<1>6. WindowsKept /\ OwnIds(r)
  BY <1>2, <1>4 DEF WindowsKept, OwnIds, Committed, SameWindow
<1>7. \A q \in Requests : /\ req'[q].pc = req[q].pc /\ req'[q].at = req[q].at
                          /\ Reached(q)' = Reached(q) /\ LoadedOwn(q)' = LoadedOwn(q)
  BY <1>2, <1>4, <1>5 DEF OthersUnchanged, Reached, LoadedOwn, Own
<1>8. LocksAreExclusive'
  <2> SUFFICES ASSUME NEW p \in Requests, NEW q \in Requests, p # q
               PROVE  req'[p].held \cap req'[q].held = {}
    BY DEF LocksAreExclusive
  <2>1. req[p].held \cap req[q].held = {}
    BY DEF ApprovalInv, LocksAreExclusive
  <2>2. CASE p = r
    BY <1>2, <1>4, <1>5, <2>1, <2>2 DEF OthersUnchanged
  <2>3. CASE q = r
    BY <1>2, <1>4, <1>5, <2>1, <2>3 DEF OthersUnchanged
  <2>4. CASE p # r /\ q # r
    BY <1>5, <2>1, <2>4 DEF OthersUnchanged
  <2> QED
    BY <2>2, <2>3, <2>4
<1>9. SessionIsSound(r)'
  <2>1. ~Creating(r) /\ req[r] # Idle
    BY <1>2 DEF Creating, Idle
  <2>2. CASE Deleting(r)
    <3>1. Deleting(r)'
      BY <1>2, <1>4, <2>2 DEF Deleting, Committed
    <3> QED
      BY <3>1 DEF SessionIsSound
  <2>3. ASSUME NEW x \in Bookings, Patching(r, x) PROVE SessionIsSound(r)'
    <3>1. Patching(r, x)'
      BY <1>2, <1>4, <2>3 DEF Patching, Committed
    <3> QED
      BY <3>1 DEF SessionIsSound
  <2> QED
    BY <2>1, <2>2, <2>3 DEF ApprovalInv, SessionIsSound
<1>10. \A q \in Requests : SessionIsSound(q)' /\ SlotIsGuarded(q)'
  BY <1>2, <1>5, <1>6, <1>7, <1>9, OthersSound DEF ApprovalInv, SlotIsGuarded, InStatus
<1>11. \A p, q \in Requests : p # q => ApprovalsMeet(p, q)'
  BY <1>2, <1>7 DEF ApprovalInv, ApprovalsMeet
<1> QED
  BY <1>2, <1>8, <1>10, <1>11
  DEF ApprovalInv, RowsAreProper, Committed, NoDoubleBooking, Clash

(* Reading the slot: whatever is in it is locked from now on.               *)
LEMMA LockSlotInv ==
  ASSUME TypeOK, ApprovalInv, NEW r \in Requests, LockSlot(r)
  PROVE  ApprovalInv'
<1>1. req[r].pc = "own" /\ req[r].want = {} /\ UNCHANGED book
  BY DEF LockSlot, Locked
<1>2. PICK x \in Bookings : Patching(r, x)
  BY <1>1, Decides DEF ApprovalInv
<1>3. req' = [req EXCEPT ![r] = [req[r] EXCEPT !.pc = "slot", !.want = SlotRows(r) \ req[r].held]]
  BY DEF LockSlot, TypeOK
<1>4. /\ req'[r].pc = "slot" /\ req'[r].want = SlotRows(r) \ req[r].held
      /\ req'[r].held = req[r].held /\ req'[r].at = req[r].at
      /\ req'[r].loaded = req[r].loaded /\ req'[r].target = req[r].target
  BY <1>3, SessionFields DEF TypeOK, Session
<1>5. OthersUnchanged(r)
  BY <1>3 DEF TypeOK, OthersUnchanged
<1>6. WindowsKept /\ OwnIds(r)
  BY <1>1, <1>4 DEF WindowsKept, OwnIds, Committed, SameWindow
<1>7. SlotRows(r) \subseteq Reached(r)'
  BY <1>4 DEF Reached
<1>8. \A q \in Requests \ {r} : Reached(q)' = Reached(q)
  BY <1>5 DEF OthersUnchanged, Reached
<1>9. SessionIsSound(r)'
  <2>1. Patching(r, x)'
    BY <1>1, <1>2, <1>4 DEF Patching, Committed
  <2> QED
    BY <2>1 DEF SessionIsSound
<1>10. SlotIsGuarded(r)'
  <2>1. LoadedOwn(r)' = LoadedOwn(r)
    BY <1>4 DEF LoadedOwn, Own
  <2> QED
    BY <1>1, <1>7, <2>1 DEF SlotIsGuarded, SlotRows, InStatus, Active
<1>11. ASSUME NEW q \in Requests \ {r} PROVE SlotIsGuarded(q)'
  <2>1. req'[q] = req[q] /\ LoadedOwn(q)' = LoadedOwn(q)
    BY <1>5 DEF OthersUnchanged, LoadedOwn, Own
  <2> QED
    BY <1>1, <2>1 DEF ApprovalInv, SlotIsGuarded, InStatus, Reached
<1>12. ASSUME NEW q \in Requests \ {r}, req[q].pc = "slot", NEW y \in req[q].at, y # x,
              TargetsOverlap(book[x], book[y])
       PROVE  y \in Reached(r)'
  <2>1. y \in Bookings /\ Committed(y)
    BY <1>12, Decides DEF ApprovalInv, Patching
  <2>2. Overlapping(book[y], LoadedOwn(r))
    BY <1>2, <1>12, <2>1, SlotOverlap DEF ApprovalInv
  <2> QED
    BY <1>7, <2>1, <2>2 DEF SlotRows, Committed
<1>13. ASSUME NEW p \in Requests, NEW q \in Requests, p # q PROVE ApprovalsMeet(p, q)'
  <2>1. req[r].at = {x}
    BY <1>2 DEF Patching
  <2>2. CASE p = r
    BY <1>1, <1>4, <1>5, <1>12, <1>13, <2>1, <2>2 DEF ApprovalsMeet, OthersUnchanged
  <2>3. CASE q = r
    <3> SUFFICES ASSUME req[p].pc = "slot", NEW y \in req[p].at, y # x,
                        TargetsOverlap(book[y], book[x])
                 PROVE  y \in Reached(r)'
      BY <1>1, <1>4, <1>5, <1>13, <2>1, <2>3 DEF ApprovalsMeet, OthersUnchanged
    <3>1. y \in Bookings
      BY SessionFields
    <3>2. TargetsOverlap(book[x], book[y])
      BY <3>1, OverlapSymmetric DEF TypeOK
    <3> QED
      BY <1>12, <1>13, <2>3, <3>2
  <2>4. CASE p # r /\ q # r
    BY <1>6, <1>5, <1>13, <2>4, OthersMeet
  <2> QED
    BY <2>2, <2>3, <2>4
<1>14. \A q \in Requests : SessionIsSound(q)'
  BY <1>5, <1>6, <1>9, OthersSound
<1>15. LocksAreExclusive'
  BY <1>4, <1>5 DEF ApprovalInv, LocksAreExclusive, OthersUnchanged
<1> QED
  BY <1>1, <1>10, <1>11, <1>13, <1>14, <1>15
  DEF ApprovalInv, RowsAreProper, Committed, NoDoubleBooking, Clash

LEMMA ChangeInv ==
  ASSUME TypeOK, ApprovalInv, NEW r \in Requests, ChangeStatus(r)
  PROVE  ApprovalInv'
<1>1. /\ req[r].pc = "slot" /\ ~Approving(r) /\ req' = [req EXCEPT ![r] = Idle]
      /\ \A b \in Bookings : book'[b] = Written(book[b], req[r].loaded[b], req[r].target[b])
  BY DEF ChangeStatus, Locked, Store
<1>2. PICK x \in Bookings : Patching(r, x)
  BY <1>1, Decides DEF ApprovalInv
<1>3. req[r].target[x].status \in {"denied", "cancelled"}
  BY <1>1, <1>2 DEF Approving, LoadedOwn, Own, Patching
<1>4. \A b \in Bookings : /\ book[b] \in Row /\ req[r].loaded[b] \in Row /\ req[r].target[b] \in Row
                          /\ IF Committed(b) THEN book[b].from < book[b].to ELSE book[b] = Absent
  BY SessionFields DEF TypeOK, ApprovalInv, RowsAreProper
<1>5. \A b \in Bookings \ {x} : book'[b] = book[b]
  BY <1>1, <1>2, <1>4 DEF Patching, Written, Row
<1>6. SameWindow(book'[x], book[x]) /\ book'[x].status \in {"denied", "cancelled"}
  <2>1. book'[x] = Written(book[x], req[r].loaded[x], req[r].target[x])
    BY <1>1
  <2>2. /\ SameWindow(req[r].target[x], req[r].loaded[x])
        /\ req[r].loaded[x].status = "pending"
    BY <1>2 DEF Patching, SameWindow
  <2> QED
    BY <1>3, <2>1, <2>2 DEF Written, SameWindow
<1>7. /\ \A b \in Bookings : SameWindow(book'[b], book[b]) /\ (Committed(b)' <=> Committed(b))
      /\ \A b \in Bookings : book'[b].status \in Active => book[b].status \in Active
  BY <1>2, <1>5, <1>6 DEF SameWindow, Committed, Patching, Active
<1>8. WindowsKept /\ OwnIds(r)
  BY <1>1, <1>7, EndingStep DEF WindowsKept, OwnIds
<1>9. RowsAreProper'
  BY <1>2, <1>4, <1>5, <1>7 DEF RowsAreProper, Committed, SameWindow, Patching
<1> QED
  BY <1>1, <1>7, <1>8, <1>9, EndingStep, QuietStep

(* What an approval writes: its own row and the requests it denies.         *)
Losers(r) == OthersLocked(r) \cap InStatus({"pending"})

LEMMA ApproveWrites ==
  ASSUME TypeOK, NEW r \in Requests, Approve(r), NEW x \in Bookings, Patching(r, x)
  PROVE  /\ Losers(r) \subseteq Bookings /\ x \notin Losers(r)
         /\ req[r].at = {x} /\ Own(r) = x /\ Committed(x)
         /\ \A b \in Losers(r) : /\ book[b].status = "pending" /\ book'[b].status = "denied"
                                 /\ SameWindow(book'[b], book[b])
         /\ SameWindow(book'[x], book[x]) /\ book'[x].status = "confirmed"
         /\ \A b \in Bookings \ (Losers(r) \cup {x}) : book'[b] = book[b]
<1> DEFINE loaded == LoadedToo(req[r].loaded, Losers(r))
           target == Denied(LoadedToo(req[r].target, Losers(r)), Losers(r))
<1>1. Approving(r) /\ \A b \in Bookings : book'[b] = Written(book[b], loaded[b], target[b])
  BY DEF Approve, Store, Losers
<1>2. \A b \in Bookings : book[b] \in Row /\ req[r].loaded[b] \in Row /\ req[r].target[b] \in Row
  BY SessionFields DEF TypeOK
<1>3. /\ Losers(r) \subseteq Bookings /\ x \notin Losers(r) /\ req[r].at = {x} /\ Own(r) = x
      /\ Committed(x) /\ \A b \in Losers(r) : book[b].status = "pending"
  BY DEF Losers, OthersLocked, InStatus, Patching, Own
<1>4. ASSUME NEW b \in Bookings
      PROVE  /\ loaded[b] = IF b \in Losers(r) THEN book[b] ELSE req[r].loaded[b]
             /\ target[b] = IF b \in Losers(r) THEN [book[b] EXCEPT !.status = "denied"]
                            ELSE req[r].target[b]
  BY DEF LoadedToo, Denied
<1> HIDE DEF loaded, target
<1>5. ASSUME NEW b \in Losers(r) PROVE SameWindow(book'[b], book[b]) /\ book'[b].status = "denied"
  <2>1. b \in Bookings /\ book[b].status = "pending" /\ book[b] \in Row
    BY <1>2, <1>3
  <2>2. book'[b] = Written(book[b], book[b], [book[b] EXCEPT !.status = "denied"])
    BY <1>1, <1>4, <2>1
  <2> QED
    BY <2>1, <2>2 DEF Written, SameWindow, Row
<1>6. SameWindow(book'[x], book[x]) /\ book'[x].status = "confirmed"
  <2>1. book'[x] = Written(book[x], req[r].loaded[x], req[r].target[x])
    BY <1>1, <1>3, <1>4
  <2>2. /\ SameWindow(req[r].target[x], req[r].loaded[x])
        /\ req[r].loaded[x].status = "pending" /\ req[r].target[x].status = "confirmed"
    BY <1>1, <1>3 DEF Patching, SameWindow, Approving
  <2> QED
    BY <2>1, <2>2 DEF Written, SameWindow
<1>7. ASSUME NEW b \in Bookings \ (Losers(r) \cup {x}) PROVE book'[b] = book[b]
  <2>1. book'[b] = Written(book[b], req[r].loaded[b], req[r].target[b])
    BY <1>1, <1>4
  <2>2. req[r].target[b] = req[r].loaded[b]
    BY DEF Patching
  <2> QED
    BY <1>2, <2>1, <2>2 DEF Written, Row
<1> QED
  BY <1>3, <1>5, <1>6, <1>7

(* The approval: whatever overlaps the booking and is active was locked and *)
(* seen, and whoever is about to approve an overlapping one will see this.  *)
LEMMA ApproveInv ==
  ASSUME TypeOK, ApprovalInv, NEW r \in Requests, Approve(r)
  PROVE  ApprovalInv'
<1>1. /\ req[r].pc = "slot" /\ req[r].want = {}
      /\ OthersLocked(r) \cap InStatus(Active) = {}
      /\ req' = [req EXCEPT ![r] = Idle]
  BY DEF Approve, Locked
<1>2. PICK x \in Bookings : Patching(r, x)
  BY <1>1, Decides DEF ApprovalInv
<1>3. \A b \in Bookings : /\ book[b] \in Row
                          /\ IF Committed(b) THEN book[b].from < book[b].to ELSE book[b] = Absent
  BY DEF TypeOK, ApprovalInv, RowsAreProper
<1>4. /\ Losers(r) \subseteq Bookings /\ x \notin Losers(r) /\ req[r].at = {x} /\ Own(r) = x
      /\ Committed(x) /\ \A b \in Losers(r) : book[b].status = "pending"
  BY <1>2, ApproveWrites
<1>6. \A b \in Losers(r) : SameWindow(book'[b], book[b]) /\ book'[b].status = "denied"
  BY <1>2, ApproveWrites
<1>7. SameWindow(book'[x], book[x]) /\ book'[x].status = "confirmed"
  BY <1>2, ApproveWrites
<1>8. \A b \in Bookings \ (Losers(r) \cup {x}) : book'[b] = book[b]
  BY <1>2, ApproveWrites
<1>9. \A b \in Bookings : SameWindow(book'[b], book[b]) /\ (Committed(b)' <=> Committed(b))
  BY <1>4, <1>6, <1>7, <1>8 DEF SameWindow, Committed
<1>10. \A b \in Bookings \ {x} : book'[b].status \in Active => book[b].status \in Active
  BY <1>6, <1>8 DEF Active
<1>11. WindowsKept /\ OwnIds(r) /\ OthersUnchanged(r)
  BY <1>1, <1>9, EndingStep DEF WindowsKept, OwnIds
<1>12. RowsAreProper'
  BY <1>3, <1>4, <1>6, <1>7, <1>8, <1>9 DEF RowsAreProper, Committed, SameWindow
<1>13. ASSUME NEW y \in Bookings \ {x}, book'[y].status \in Active,
              TargetsOverlap(book[x], book[y])
       PROVE  FALSE
  <2>1. y \in InStatus(Active) /\ Committed(y)
    BY <1>10, <1>13 DEF InStatus, Committed, Active
  <2>2. Overlapping(book[y], LoadedOwn(r))
    BY <1>2, <1>13, <2>1, SlotOverlap DEF ApprovalInv
  <2>3. y \in req[r].held
    BY <1>1, <1>4, <1>13, <2>1, <2>2 DEF ApprovalInv, SlotIsGuarded, Reached
  <2>4. y \in OthersLocked(r)
    BY <1>4, <1>13, <2>1, <2>2, <2>3 DEF OthersLocked, SlotRows, Committed
  <2> QED
    BY <1>1, <2>1, <2>4
<1>14. ASSUME NEW q \in Requests \ {r} PROVE SlotIsGuarded(q)'
  <2> SUFFICES ASSUME req[q].pc = "slot", NEW y \in Bookings, book'[y].status \in Active,
                      y \notin req[q].at, Overlapping(book'[y], LoadedOwn(q))
               PROVE  y \in Reached(q)
    <3>1. req'[q] = req[q] /\ LoadedOwn(q)' = LoadedOwn(q) /\ Reached(q)' = Reached(q)
      BY <1>11 DEF OthersUnchanged, LoadedOwn, Own, Reached
    <3> QED
      BY <3>1 DEF SlotIsGuarded, InStatus
  <2>1. CASE y # x
    BY <1>10, <1>11, <2>1, OthersGuarded
  <2>2. CASE y = x
    <3>1. PICK z \in Bookings : Patching(q, z)
      BY Decides DEF ApprovalInv
    <3>2. req[q].at = {z} /\ z # x /\ z \in req[q].held
      BY <2>2, <3>1 DEF Patching
    <3>3. Overlapping(book[x], LoadedOwn(q))
      BY <1>7, <2>2 DEF SameWindow, Overlapping
    <3>4. TargetsOverlap(book[z], book[x])
      BY <1>4, <3>1, <3>3, SlotOverlap DEF ApprovalInv
    <3>5. x \in Reached(q) \/ z \in Reached(r)
      BY <1>1, <1>4, <3>2, <3>4 DEF ApprovalInv, ApprovalsMeet
    <3>6. z \notin Reached(r)
      BY <1>1, <3>2 DEF Reached, ApprovalInv, LocksAreExclusive
    <3> QED
      BY <2>2, <3>5, <3>6
  <2> QED
    BY <2>1, <2>2
<1>15. req'[r].pc # "slot" /\ req'[r].held = {} /\ SessionIsSound(r)'
  BY <1>1, EndingStep
<1>16. \A q \in Requests : SessionIsSound(q)' /\ SlotIsGuarded(q)'
  BY <1>11, <1>14, <1>15, OthersSound DEF SlotIsGuarded
<1>17. \A p, q \in Requests : p # q => ApprovalsMeet(p, q)'
  BY <1>11, <1>15, OthersMeet DEF ApprovalsMeet
<1>18. LocksAreExclusive'
  BY <1>11, <1>15 DEF ApprovalInv, LocksAreExclusive, OthersUnchanged
<1>19. NoDoubleBooking'
  <2> SUFFICES ASSUME NEW b \in Bookings, NEW c \in Bookings, Clash(b, c)' PROVE FALSE
    BY DEF NoDoubleBooking
  <2>1. /\ b # c /\ book'[b].status \in Active /\ book'[c].status \in Active
        /\ TargetsOverlap(book[b], book[c])
    BY <1>9 DEF Clash, TargetsOverlap, SameWindow
  <2>2. TargetsOverlap(book[c], book[b])
    BY <1>3, <2>1, OverlapSymmetric
  <2>3. CASE b # x /\ c # x
    <3>1. Clash(b, c)
      BY <1>10, <2>1, <2>3 DEF Clash
    <3> QED
      BY <3>1 DEF ApprovalInv, NoDoubleBooking
  <2> QED
    BY <1>13, <2>1, <2>2, <2>3
<1> QED
  BY <1>12, <1>16, <1>17, <1>18, <1>19 DEF ApprovalInv

-----------------------------------------------------------------------------
(* The theorems.                                                            *)

LEMMA NextInv ==
  ASSUME RequestsAndDecisions, TypeOK, ApprovalInv, [Next]_vars
  PROVE  ApprovalInv'
<1>1. CASE UNCHANGED vars
  <2>1. book' = book /\ req' = req
    BY <1>1 DEF vars
  <2>2. RowsAreProper' /\ LocksAreExclusive' /\ NoDoubleBooking'
    BY <2>1 DEF ApprovalInv, RowsAreProper, Committed, LocksAreExclusive, NoDoubleBooking, Clash
  <2>3. ASSUME NEW r \in Requests PROVE SessionIsSound(r)'
    BY <2>1 DEF ApprovalInv, SessionIsSound, Creating, Deleting, Patching, Committed
  <2>4. ASSUME NEW r \in Requests PROVE SlotIsGuarded(r)'
    BY <2>1 DEF ApprovalInv, SlotIsGuarded, InStatus, LoadedOwn, Own, Reached
  <2>5. \A q, r \in Requests : q # r => ApprovalsMeet(q, r)'
    BY <2>1 DEF ApprovalInv, ApprovalsMeet, Reached
  <2> QED
    BY <2>2, <2>3, <2>4, <2>5 DEF ApprovalInv
<1>2. ASSUME NEW r \in Requests, Receive(r) \/ LockRow(r) \/ Step(r) \/ Database(r)
      PROVE  ApprovalInv'
  <2>1. req[r].pc \in {"idle", "insert", "flush", "own", "slot"}
    BY DEF ApprovalInv, SessionIsSound, Creating, Deleting, Patching, Idle
  <2>2. CASE Receive(r)
    BY <2>2, ReceiveInv
  <2>3. CASE LockRow(r)
    BY <2>3, LockRowInv
  <2>4. CASE InsertRows(r)
    BY <2>4, InsertInv
  <2>5. CASE LockSlot(r)
    BY <2>5, LockSlotInv
  <2>6. CASE Approve(r)
    BY <2>6, ApproveInv
  <2>7. CASE ChangeStatus(r)
    BY <2>7, ChangeInv
  <2>8. CASE Commit(r)
    BY <2>8, CommitInv
  <2>9. CASE RefuseBulk(r) \/ RefuseApproval(r) \/ RefuseBatch(r) \/ BreakDeadlock(r) \/ Fail(r)
    BY <2>9, RollbackInv DEF RefuseBulk, RefuseApproval, RefuseBatch, BreakDeadlock, Fail
  <2>10. ~Select(r) /\ ~Validate(r) /\ ~Apply(r) /\ ~SyncCommits(r)
    BY <2>1 DEF Select, Validate, Apply, SyncCommits, Locked
  <2> QED
    BY <1>2, <2>2, <2>3, <2>4, <2>5, <2>6, <2>7, <2>8, <2>9, <2>10 DEF Step, Database
<1> QED
  BY <1>1, <1>2 DEF Next

(* The strengthening that carries the next theorem: sessions write only     *)
(* what they locked or inserted, every active booking of a locked slot is   *)
(* among the locked rows, and of two overlapping approvals one waits for a  *)
(* row the other holds.                                                     *)
THEOREM ApprovalsAreGuarded ==
  ASSUME RequestsAndDecisions PROVE Spec => []ApprovalInv
<1>1. Init => ApprovalInv
  BY InitInv
<1>2. TypeOK /\ ApprovalInv /\ [Next]_vars => ApprovalInv'
  BY NextInv
<1> QED
  BY <1>1, <1>2, TypeCorrect, PTL DEF Spec

(* However many requests, approvals, denials, cancellations and failures    *)
(* interleave, the row locks of update_booking_status (1738-1853) suffice:  *)
(* no place is ever booked twice for the same hour.                         *)
THEOREM ApprovalsNeverDoubleBook ==
  ASSUME RequestsAndDecisions PROVE Spec => []NoDoubleBooking
<1>1. ApprovalInv => NoDoubleBooking
  BY DEF ApprovalInv
<1> QED
  BY <1>1, ApprovalsAreGuarded, PTL

(* A request is denied by its own call, or by the approval of a booking     *)
(* that it overlaps.                                                        *)
LEMMA DenialHasAWinner ==
  ASSUME TypeOK, ApprovalInv, RequestsAndDecisions, NEW r \in Requests,
         Receive(r) \/ LockRow(r) \/ Step(r) \/ Database(r),
         NEW b \in Bookings, book[b].status # "denied", book'[b].status = "denied", ~Ends(r, b)
  PROVE  \E c \in Bookings : book'[c].status = "confirmed" /\ Overlapping(book[b], book'[c])
<1>1. SessionIsSound(r) /\ book' # book
  BY DEF ApprovalInv
<1>2. CASE Approve(r)
  <2>1. PICK x \in Bookings : Patching(r, x)
    BY <1>2, Decides DEF ApprovalInv, Approve, Locked
  <2>2. req[r].pc = "slot" /\ req'[r].pc = "idle"
    BY <1>2 DEF Approve, Locked, TypeOK, Idle
  <2>3. b # x /\ b \in Losers(r)
    BY <1>2, <2>1, <2>2, ApproveWrites DEF Ends
  <2>4. Committed(b) /\ Overlapping(book[b], LoadedOwn(r))
    BY <2>3 DEF Losers, OthersLocked, SlotRows, Committed
  <2>5. Own(r) = x /\ SameWindow(book'[x], book[x]) /\ book'[x].status = "confirmed"
    BY <1>2, <2>1, ApproveWrites
  <2>6. SameWindow(LoadedOwn(r), book[x])
    BY <2>1, <2>5 DEF Patching, LoadedOwn
  <2>7. Overlapping(book[b], book'[x])
    BY <2>4, <2>5, <2>6 DEF SameWindow, Overlapping
  <2> QED
    BY <2>5, <2>7
<1>3. CASE ChangeStatus(r)
  <2>1. PICK x \in Bookings : Patching(r, x)
    BY <1>3, Decides DEF ApprovalInv, ChangeStatus, Locked
  <2>2. req[r].pc = "slot" /\ req'[r].pc = "idle" /\ Store(req[r].loaded, req[r].target)
    BY <1>3 DEF ChangeStatus, Locked, TypeOK, Idle
  <2>3. b # x
    BY <2>1, <2>2 DEF Ends, Patching
  <2> QED
    BY <2>1, <2>2, <2>3, LeftAlone DEF Patching
<1>4. CASE Commit(r)
  <2>1. req[r].pc = "flush" /\ req'[r].pc = "idle" /\ Store(req[r].loaded, req[r].target)
    BY <1>4 DEF Commit, Locked, TypeOK, Idle
  <2>2. b \notin req[r].at
    BY <2>1 DEF Ends
  <2>3. req[r].target[b] = req[r].loaded[b]
    BY <1>1, <2>1, <2>2, Flushes DEF Creating, Deleting
  <2> QED
    BY <2>1, <2>3, LeftAlone
<1>5. Approve(r) \/ ChangeStatus(r) \/ Commit(r)
  BY <1>1, WritersWrite
<1> QED
  BY <1>2, <1>3, <1>4, <1>5

(* A request that ends denied by another call was overlapped by a booking   *)
(* that is confirmed by that very step, whatever calls are in flight.       *)
THEOREM DeniedForAWinner ==
  ASSUME RequestsAndDecisions PROVE Spec => DenialsHaveAWinner
<1> DEFINE Won == \A b \in Bookings :
             /\ book[b].status # "denied" /\ book'[b].status = "denied"
             /\ \A r \in Requests : ~Ends(r, b)
             => \E c \in Bookings : /\ book'[c].status = "confirmed"
                                    /\ Overlapping(book[b], book'[c])
<1>1. TypeOK /\ ApprovalInv /\ [Next]_vars => [Won]_vars
  <2> SUFFICES ASSUME TypeOK, ApprovalInv, Next PROVE Won
    OBVIOUS
  <2>1. PICK r \in Requests : Receive(r) \/ LockRow(r) \/ Step(r) \/ Database(r)
    BY DEF Next
  <2> QED
    BY <2>1, DenialHasAWinner
<1> QED
  BY <1>1, TypeCorrect, ApprovalsAreGuarded, PTL DEF Spec, DenialsHaveAWinner

=============================================================================
