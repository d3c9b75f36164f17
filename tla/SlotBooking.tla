---------------------------- MODULE SlotBooking ----------------------------
(***************************************************************************)
(* Slot bookings (app/api/v1/slot_booking.py, app/crud/slot_booking.py).   *)
(*                                                                         *)
(* Subcontractors request a place (an asset on a day) for an interval of   *)
(* hours, managers book it outright or approve a request, and a confirmed  *)
(* booking denies the requests it overlaps.  Every HTTP call is a database *)
(* transaction under READ COMMITTED: plain SELECTs see what is committed,  *)
(* FOR UPDATE and UPDATE wait for the row's lock, and the session writes   *)
(* only the columns that differ from what it loaded.                       *)
(***************************************************************************)
EXTENDS Integers, FiniteSets

CONSTANTS
  Bookings,     \* booking ids; rows are locked in their order
  Places,       \* pairs of an asset and a day, as opaque values
  Slots,        \* the intervals <<from, to>> callers ask for
  Requests,     \* the calls in flight
  Capacity,     \* Asset.pending_booking_capacity
  MaxBatch,     \* bookings in one bulk call
  Kinds,        \* which calls are made, see Calls
  Roles,        \* who creates bookings: "manager", "subcontractor"
  Transitions,  \* the pairs <<status as loaded, status asked for>> of callers
  Faults        \* "db": a call fails; "maintenance": a window opens or ends

Calls == {"create", "update", "status", "delete", "reschedule"}

(* What a booking is, apart from its people and its texts.                  *)
Status == {"pending", "confirmed", "in_progress", "completed", "cancelled", "denied"}
Active == {"confirmed", "in_progress", "completed"}
(* Faulty variant: a completed booking can still be cancelled.              *)
TerminalButCompleted == {"denied", "cancelled"}
Terminal == {"denied", "completed", "cancelled"}

ASSUME BookingAssumption ==
  /\ Bookings \subseteq Nat
  /\ Slots \subseteq {s \in Nat \X Nat : s[1] < s[2]}
  /\ Places # {}
  /\ Capacity \in Nat
  /\ MaxBatch \in Nat
  /\ Kinds \subseteq Calls
  /\ Roles \subseteq {"manager", "subcontractor"}
  /\ Transitions \subseteq Status \X Status
  /\ Faults \subseteq {"db", "maintenance"}

VARIABLES
  book,  \* the slot_bookings table
  req    \* the state of each call's transaction

vars == <<book, req>>

Row == [status : Status \cup {"absent"}, place : Places, from : Nat, to : Nat]
Absent == [status |-> "absent", place |-> CHOOSE p \in Places : TRUE, from |-> 0, to |-> 0]
At(row, p, s) == [row EXCEPT !.place = p, !.from = s[1], !.to = s[2]]
Blank == [b \in Bookings |-> Absent]

(* A call's session: the rows it is about (at), the rows as it loaded them  *)
(* and as they stand in memory, the locks it still needs and those it has.  *)
Idle == [pc |-> "idle", kind |-> "none", at |-> {}, loaded |-> Blank, target |-> Blank,
         want |-> {}, held |-> {}, down |-> FALSE]

Waiting == {"own", "slot", "select", "flush"}
Session == [pc : {"idle", "insert", "validate", "apply"} \cup Waiting,
            kind : Calls \cup {"none"},
            at : SUBSET Bookings,
            loaded : [Bookings -> Row],
            target : [Bookings -> Row],
            want : SUBSET Bookings,
            held : SUBSET Bookings,
            down : BOOLEAN]

TypeOK ==
  /\ book \in [Bookings -> Row]
  /\ req \in [Requests -> Session]

Init ==
  /\ book = Blank
  /\ req = [r \in Requests |-> Idle]

-----------------------------------------------------------------------------
(* Overlap and the conflict check.                                          *)

(* The three-way OR of the SQL filter, for the same asset and day.          *)
Overlapping(row, w) ==
  /\ row.place = w.place
  /\ \/ row.from <= w.from /\ row.to > w.from
     \/ row.from < w.to /\ row.to >= w.to
     \/ row.from >= w.from /\ row.to <= w.to

(* The test bulk rescheduling uses between its own targets.                 *)
TargetsOverlap(v, w) == v.place = w.place /\ v.from < w.to /\ v.to > w.from

InStatus(S) == {b \in Bookings : book[b].status \in S}

ConfirmedConflict(w, excluded) ==
  \E b \in InStatus(Active) \ excluded : Overlapping(book[b], w)

PendingAround(w, excluded) ==
  {b \in InStatus({"pending"}) \ excluded : Overlapping(book[b], w)}

(* Faulty variant: one request too many.                                    *)
CanRequestOneMore(w, excluded) ==
  /\ ~ConfirmedConflict(w, excluded)
  /\ Cardinality(PendingAround(w, excluded)) <= Capacity

CanRequest(w, excluded) ==
  /\ ~ConfirmedConflict(w, excluded)
  /\ Cardinality(PendingAround(w, excluded)) < Capacity

-----------------------------------------------------------------------------
(* Locks, commits and rollbacks.                                            *)

Goto(r, pc) == req' = [req EXCEPT ![r].pc = pc]

Rollback(r) == req' = [req EXCEPT ![r] = Idle] /\ UNCHANGED book

(* Rows are locked one by one: by ascending id, except that the selection   *)
(* of a bulk reschedule has no ORDER BY.                                    *)
IsNext(b, r) ==
  /\ req[r].pc \in Waiting
  /\ b \in req[r].want
  /\ \A c \in req[r].want : IF req[r].down THEN c <= b ELSE b <= c

Blocks(q, r) == q # r /\ \E b \in req[q].held : IsNext(b, r)

LockRow(r) ==
  /\ \A q \in Requests : ~Blocks(q, r)
  /\ \E b \in Bookings :
       /\ IsNext(b, r)
       /\ req' = [req EXCEPT ![r].want = @ \ {b}, ![r].held = @ \cup {b}]
  /\ UNCHANGED book

(* PostgreSQL aborts one transaction of a cycle of waiting ones.            *)
Deadlocked(r) ==
  \E D \in SUBSET Requests : r \in D /\ \A q \in D : \E p \in D : Blocks(q, p)

BreakDeadlock(r) ==
  /\ Deadlocked(r)
  /\ Rollback(r)

(* A lost connection or a failing statement.                                *)
Fail(r) ==
  /\ "db" \in Faults
  /\ req[r].pc # "idle"
  /\ Rollback(r)

(* The columns that changed in memory are written, the others are left.     *)
Written(row, old, new) ==
  [status |-> IF new.status # old.status THEN new.status ELSE row.status,
   place  |-> IF new.place # old.place THEN new.place ELSE row.place,
   from   |-> IF new.from # old.from THEN new.from ELSE row.from,
   to     |-> IF new.to # old.to THEN new.to ELSE row.to]

Store(loaded, target) ==
  book' = [b \in Bookings |-> Written(book[b], loaded[b], target[b])]

Locked(r, pc) == req[r].pc = pc /\ req[r].want = {}

Commit(r) ==
  /\ Locked(r, "flush")
  /\ Store(req[r].loaded, req[r].target)
  /\ req' = [req EXCEPT ![r] = Idle]

-----------------------------------------------------------------------------
(* POST / and POST /bulk, and POST /{id}/duplicate for another day.         *)

(* Ids are fresh UUIDs: never in the table, nor in another session.         *)
Fresh == {b \in InStatus({"absent"}) : \A q \in Requests : b \notin req[q].at}

(* Faulty variant: managers are not checked against confirmed bookings.     *)
AdmissibleToManagers(role, windows) ==
  \A w \in windows : role = "subcontractor" => CanRequest(w, {})

(* The check of the endpoint, on plain reads.                               *)
Admissible(role, windows) ==
  \A w \in windows : /\ ~ConfirmedConflict(w, {})
                     /\ role = "subcontractor" => CanRequest(w, {})

NewStatus(role) == IF role = "manager" THEN "confirmed" ELSE "pending"

(* One interval at different places: the rows are built in the session.     *)
ReceiveCreate(r, role, ids, s) ==
  /\ req[r].pc = "idle"
  /\ "create" \in Kinds
  /\ ids # {} /\ Cardinality(ids) <= MaxBatch
  /\ \E place \in [ids -> Places] :
       LET row(b) == At([Absent EXCEPT !.status = NewStatus(role)], place[b], s) IN
       /\ \A b, c \in ids : place[b] = place[c] => b = c
       /\ Admissible(role, {row(b) : b \in ids})
       /\ req' = [req EXCEPT ![r] =
                    [Idle EXCEPT !.pc = "insert", !.kind = "create", !.at = ids,
                                 !.target = [b \in Bookings |->
                                               IF b \in ids THEN row(b) ELSE Absent]]]
  /\ UNCHANGED book

(* The status of the rows in a session is one for all.                      *)
RoleOf(r) == IF \E b \in req[r].at : req[r].target[b].status = "confirmed"
             THEN "manager" ELSE "subcontractor"
NewRows(r) == {req[r].target[b] : b \in req[r].at}

(* Faulty variant: a request denies the others too.                         *)
CompetingWithAll(rows) == UNION {PendingAround(w, {}) : w \in rows}

(* Requests that overlap a confirmed row of the session, as committed now.  *)
Competing(rows) ==
  UNION {PendingAround(w, {}) : w \in {row \in rows : row.status = "confirmed"}}

Denied(target, competing) ==
  [b \in Bookings |-> IF b \in competing THEN [target[b] EXCEPT !.status = "denied"]
                      ELSE target[b]]

LoadedToo(loaded, rows) == [b \in Bookings |-> IF b \in rows THEN book[b] ELSE loaded[b]]

(* INSERT is flushed, the competing requests are read and denied in memory; *)
(* a bulk call has checked every pair once more before that.                *)
InsertRows(r) ==
  LET competing == Competing(NewRows(r)) IN
  /\ req[r].pc = "insert"
  /\ Cardinality(req[r].at) > 1 => Admissible(RoleOf(r), NewRows(r))
  /\ req' = [req EXCEPT
       ![r].pc = "flush",
       ![r].want = competing,
       ![r].loaded = LoadedToo(@, competing),
       ![r].target = Denied(LoadedToo(@, competing), competing)]
  /\ UNCHANGED book

RefuseBulk(r) ==
  /\ req[r].pc = "insert"
  /\ Cardinality(req[r].at) > 1
  /\ ~Admissible(RoleOf(r), NewRows(r))
  /\ Rollback(r)

-----------------------------------------------------------------------------
(* PUT /{id}: any window, any status.                                       *)

SameWindow(v, w) == v.place = w.place /\ v.from = w.from /\ v.to = w.to

NeedsSlotCheck(old, new) ==
  \/ ~SameWindow(old, new)
  \/ new.status # old.status /\ new.status \notin Terminal

OneRow(b, row) == [Blank EXCEPT ![b] = row]

(* Loaded and checked by plain reads; the row is written by primary key.    *)
Update(r, b, new) ==
  /\ req[r].pc = "idle"
  /\ "update" \in Kinds
  /\ book[b].status # "absent"
  /\ new.status = book[b].status \/ <<book[b].status, new.status>> \in Transitions
  /\ NeedsSlotCheck(book[b], new) =>
       /\ ~ConfirmedConflict(new, {b})
       /\ new.status = "pending" => CanRequest(new, {b})
  /\ req' = [req EXCEPT ![r] =
               [Idle EXCEPT !.pc = "flush", !.kind = "update", !.at = {b}, !.want = {b},
                            !.loaded = OneRow(b, book[b]), !.target = OneRow(b, new)]]
  /\ UNCHANGED book

-----------------------------------------------------------------------------
(* PATCH /{id}/status.                                                      *)

(* The endpoint loads the row; crud's own SELECT FOR UPDATE waits for the   *)
(* lock but does not refresh the loaded attributes.                         *)
SetStatus(r, b, status) ==
  /\ req[r].pc = "idle"
  /\ "status" \in Kinds
  /\ book[b].status # "absent"
  /\ <<book[b].status, status>> \in Transitions
  /\ book[b].status \in {"completed", "cancelled"} => status = book[b].status
  /\ req' = [req EXCEPT ![r] =
               [Idle EXCEPT !.pc = "own", !.kind = "status", !.at = {b}, !.want = {b},
                            !.loaded = OneRow(b, book[b]),
                            !.target = OneRow(b, [book[b] EXCEPT !.status = status])]]
  /\ UNCHANGED book

Own(r) == CHOOSE b \in req[r].at : TRUE
LoadedOwn(r) == req[r].loaded[Own(r)]

SlotRows(r) == {b \in Bookings : book[b].status # "absent" /\ Overlapping(book[b], LoadedOwn(r))}

(* Faulty variant: the rows of the slot are read without FOR UPDATE.        *)
LockSlotNot(r) ==
  /\ Locked(r, "own")
  /\ Goto(r, "slot")
  /\ UNCHANGED book

(* The rows of the loaded slot, in the order of their ids.                  *)
LockSlot(r) ==
  /\ Locked(r, "own")
  /\ req' = [req EXCEPT ![r].pc = "slot", ![r].want = SlotRows(r) \ req[r].held]
  /\ UNCHANGED book

(* FOR UPDATE rechecks a row it had to wait for.                            *)
OthersLocked(r) == (req[r].held \cap SlotRows(r)) \ req[r].at

Approving(r) ==
  /\ LoadedOwn(r).status = "pending"
  /\ req[r].target[Own(r)].status = "confirmed"

RefuseApproval(r) ==
  /\ Locked(r, "slot")
  /\ Approving(r)
  /\ \E b \in OthersLocked(r) : book[b].status \in Active
  /\ Rollback(r)

(* Faulty variant: the approval's row locks outlive the call.               *)
ApproveKeepsLocks(r) ==
  LET denied == OthersLocked(r) \cap InStatus({"pending"})
      target == LoadedToo(req[r].target, denied)
  IN
  /\ Locked(r, "slot")
  /\ Approving(r)
  /\ OthersLocked(r) \cap InStatus(Active) = {}
  /\ Store(LoadedToo(req[r].loaded, denied), Denied(target, denied))
  /\ Goto(r, "idle")

(* The other requests of the slot are denied with the approval.             *)
Approve(r) ==
  LET denied == OthersLocked(r) \cap InStatus({"pending"})
      loaded == LoadedToo(req[r].loaded, denied)
      target == LoadedToo(req[r].target, denied)
  IN
  /\ Locked(r, "slot")
  /\ Approving(r)
  /\ OthersLocked(r) \cap InStatus(Active) = {}
  /\ Store(loaded, Denied(target, denied))
  /\ req' = [req EXCEPT ![r] = Idle]

(* Every other change of status is written unchecked.                       *)
ChangeStatus(r) ==
  /\ Locked(r, "slot")
  /\ ~Approving(r)
  /\ Store(req[r].loaded, req[r].target)
  /\ req' = [req EXCEPT ![r] = Idle]

-----------------------------------------------------------------------------
(* DELETE /{id}: always a cancellation, whatever hard_delete says.          *)
Delete(r, b) ==
  /\ req[r].pc = "idle"
  /\ "delete" \in Kinds
  /\ book[b].status \notin Terminal \cup {"absent"}
  /\ req' = [req EXCEPT ![r] =
               [Idle EXCEPT !.pc = "flush", !.kind = "delete", !.at = {b}, !.want = {b},
                            !.loaded = OneRow(b, book[b]),
                            !.target = OneRow(b, [book[b] EXCEPT !.status = "cancelled"])]]
  /\ UNCHANGED book

-----------------------------------------------------------------------------
(* POST /bulk-reschedule: each selected booking to a window of its own.     *)

Reschedule(r, ids, down) ==
  /\ req[r].pc = "idle"
  /\ down => \E q \in Requests : q # r  \* the order matters to others only
  /\ "reschedule" \in Kinds
  /\ ids # {} /\ Cardinality(ids) <= MaxBatch
  /\ \A b \in ids : book[b].status # "absent"
  /\ \E place \in [ids -> Places], slot \in [ids -> Slots] :
       req' = [req EXCEPT ![r] =
                 [Idle EXCEPT !.pc = "select", !.kind = "reschedule", !.at = ids,
                              !.want = ids, !.down = down,
                              !.target = [b \in Bookings |->
                                            IF b \in ids THEN At(Absent, place[b], slot[b])
                                            ELSE Absent]]]
  /\ UNCHANGED book

(* The rows are locked: the targets keep the status they have now.          *)
Select(r) ==
  LET rows == [b \in Bookings |-> IF b \in req[r].at THEN book[b] ELSE Absent] IN
  /\ Locked(r, "select")
  /\ req' = [req EXCEPT
       ![r].pc = "validate",
       ![r].loaded = rows,
       ![r].target = [b \in Bookings |-> [@[b] EXCEPT !.status = rows[b].status]]]
  /\ UNCHANGED book

(* sync_maintenance_status, called on each target asset, commits when the   *)
(* asset's window opens or ends: the row locks of the batch are released.   *)
SyncCommits(r) ==
  /\ "maintenance" \in Faults
  /\ req[r].pc = "validate"
  /\ req[r].held # {}
  /\ req' = [req EXCEPT ![r].held = {}]
  /\ UNCHANGED book

(* Two targets may share a window only if neither is confirmed; none may    *)
(* overlap an active booking outside the batch, nor exceed the capacity.    *)
BatchAllowed(r) ==
  LET ids == req[r].at
      target == req[r].target
      pendingInBatch(b) == {c \in ids \ {b} : /\ target[c].status = "pending"
                                              /\ TargetsOverlap(target[b], target[c])}
  IN
  \A b \in ids :
    /\ target[b].status \in {"pending", "confirmed"}
    /\ \A c \in ids \ {b} :
         TargetsOverlap(target[b], target[c]) => "confirmed" \notin {target[b].status, target[c].status}
    /\ ~ConfirmedConflict(target[b], ids)
    /\ target[b].status = "pending" =>
         Cardinality(PendingAround(target[b], ids)) + Cardinality(pendingInBatch(b)) < Capacity

Validate(r) ==
  /\ req[r].pc = "validate"
  /\ BatchAllowed(r)
  /\ Goto(r, "apply")
  /\ UNCHANGED book

RefuseBatch(r) ==
  /\ req[r].pc = "validate"
  /\ ~BatchAllowed(r)
  /\ Rollback(r)

(* The rows are loaded again, moved in memory, and for each confirmed one   *)
(* the requests it overlaps are denied.  autoflush is off: those are read   *)
(* as committed, the batch's own rows where they were.                      *)
Apply(r) ==
  LET ids == req[r].at
      now(b) == [req[r].target[b] EXCEPT !.status = book[b].status]
      competing == UNION {PendingAround(now(b), {b}) : b \in ids \cap InStatus({"confirmed"})}
      moved == [b \in Bookings |-> IF b \in ids THEN now(b)
                                   ELSE IF b \in competing THEN book[b] ELSE Absent]
      loaded == LoadedToo(Blank, ids \cup competing)
  IN
  /\ req[r].pc = "apply"
  /\ req' = [req EXCEPT
       ![r].pc = "flush",
       ![r].want = (ids \cup competing) \ req[r].held,
       ![r].down = FALSE,
       ![r].loaded = loaded,
       ![r].target = Denied(moved, competing)]
  /\ UNCHANGED book

-----------------------------------------------------------------------------
Receive(r) ==
  \/ \E role \in Roles, ids \in SUBSET Fresh, s \in Slots : ReceiveCreate(r, role, ids, s)
  \/ \E b \in Bookings :
       \/ \E status \in Status, p \in Places, s \in Slots \cup {<<book[b].from, book[b].to>>} :
            Update(r, b, At([book[b] EXCEPT !.status = status], p, s))
       \/ \E status \in Status : SetStatus(r, b, status)
       \/ Delete(r, b)
  \/ \E ids \in SUBSET Bookings, down \in BOOLEAN : Reschedule(r, ids, down)

Step(r) ==
  \/ InsertRows(r)
  \/ RefuseBulk(r)
  \/ LockSlot(r)
  \/ RefuseApproval(r)
  \/ Approve(r)
  \/ ChangeStatus(r)
  \/ Select(r)
  \/ Validate(r)
  \/ RefuseBatch(r)
  \/ Apply(r)
  \/ Commit(r)

Database(r) ==
  \/ BreakDeadlock(r)
  \/ SyncCommits(r)
  \/ Fail(r)

Next == \E r \in Requests : Receive(r) \/ LockRow(r) \/ Step(r) \/ Database(r)

Spec == Init /\ [][Next]_vars

(* A handler runs on, a free lock is granted (PostgreSQL queues those who   *)
(* wait), and the deadlock detector runs.                                   *)
Fairness ==
  \A r \in Requests : /\ WF_vars(Step(r))
                      /\ SF_vars(LockRow(r))
                      /\ WF_vars(BreakDeadlock(r))

FairSpec == Spec /\ Fairness

-----------------------------------------------------------------------------
(* Properties.                                                              *)

Clash(b, c) ==
  /\ b # c
  /\ {book[b].status, book[c].status} \subseteq Active
  /\ TargetsOverlap(book[b], book[c])

(* No place is booked twice for the same hour: among active bookings no two *)
(* overlap.  What every conflict check of the module is for.                *)
NoDoubleBooking == \A b, c \in Bookings : ~Clash(b, c)

(* Why it holds when subcontractors only request and managers only approve  *)
(* requests, however the calls interleave: an inductive invariant.          *)
Committed(b) == book[b].status # "absent"

RowsAreProper ==
  \A b \in Bookings : IF Committed(b) THEN book[b].from < book[b].to ELSE book[b] = Absent

LocksAreExclusive ==
  \A q, r \in Requests : q # r => req[q].held \cap req[r].held = {}

(* In every session the rows that are not its own are as it loaded them.    *)
Creating(r) ==
  /\ req[r].pc \in {"insert", "flush"}
  /\ req[r].want = {} /\ req[r].held = {}
  /\ \A b \in Bookings \ req[r].at : req[r].target[b] = req[r].loaded[b]
  /\ \A b \in req[r].at :
       /\ ~Committed(b)
       /\ \A q \in Requests \ {r} : b \notin req[q].at
       /\ req[r].loaded[b] = Absent
       /\ req[r].target[b].status = "pending"
       /\ req[r].target[b].from < req[r].target[b].to

Deleting(r) ==
  /\ req[r].pc = "flush"
  /\ \E b \in Bookings :
       /\ req[r].at = {b} /\ Committed(b)
       /\ \A c \in Bookings \ {b} : req[r].target[c] = req[r].loaded[c]
       /\ SameWindow(req[r].target[b], req[r].loaded[b])
       /\ req[r].target[b].status = "cancelled"

Patching(r, b) ==
  /\ req[r].pc \in {"own", "slot"}
  /\ req[r].at = {b} /\ Committed(b)
  /\ b \in req[r].held \cup req[r].want
  /\ req[r].pc = "slot" => b \in req[r].held
  /\ \A c \in Bookings \ {b} : req[r].target[c] = req[r].loaded[c]
  /\ SameWindow(req[r].loaded[b], book[b]) /\ SameWindow(req[r].target[b], book[b])
  /\ req[r].loaded[b].status = "pending"
  /\ req[r].target[b].status \in {"confirmed", "denied", "cancelled"}

SessionIsSound(r) ==
  \/ req[r] = Idle
  \/ Creating(r)
  \/ Deleting(r)
  \/ \E b \in Bookings : Patching(r, b)

(* Past LockSlot, every active booking of the slot is or will be locked.    *)
Reached(r) == req[r].held \cup req[r].want

SlotIsGuarded(r) ==
  req[r].pc = "slot" =>
    \A b \in InStatus(Active) :
      b \notin req[r].at /\ Overlapping(book[b], LoadedOwn(r)) => b \in Reached(r)

(* Of two approvals of overlapping bookings, one sees the other's.          *)
ApprovalsMeet(q, r) ==
  req[q].pc = "slot" /\ req[r].pc = "slot" =>
    \A b \in req[q].at, c \in req[r].at :
      b # c /\ TargetsOverlap(book[b], book[c]) => c \in Reached(q) \/ b \in Reached(r)

ApprovalInv ==
  /\ RowsAreProper
  /\ LocksAreExclusive
  /\ \A r \in Requests : SessionIsSound(r) /\ SlotIsGuarded(r)
  /\ \A q, r \in Requests : q # r => ApprovalsMeet(q, r)
  /\ NoDoubleBooking

(* The call ends in this step, with booking b among the rows it is about.   *)
Ends(r, b) == b \in req[r].at /\ req[r].pc # "idle" /\ req'[r].pc = "idle"

(* A status change that no conflict check looks at: a PATCH other than the  *)
(* approval of a request, or a PUT of "completed" that moves nothing.       *)
UncheckedActivation(r, b) ==
  LET old == req[r].loaded[b]
      new == req[r].target[b]
  IN
  \/ req[r].kind = "status" /\ <<old.status, new.status>> # <<"pending", "confirmed">>
  \/ req[r].kind = "update" /\ SameWindow(old, new) /\ new.status = "completed"

(* With one call at a time, two active bookings come to overlap only by a   *)
(* change of status that slot_booking.py does not check.                    *)
ChecksPreventDoubleBooking ==
  [][\A b, c \in Bookings :
       ~Clash(b, c) /\ Clash(b, c)' =>
         \E r \in Requests, x \in {b, c} : Ends(r, x) /\ UncheckedActivation(r, x)]_vars

Hours == UNION {s[1] .. (s[2] - 1) : s \in Slots}
PendingAt(p, h) ==
  {b \in InStatus({"pending"}) : book[b].place = p /\ book[b].from <= h /\ h < book[b].to}

(* With one call at a time, more requests than the asset's capacity compete *)
(* for an hour only after a PATCH that reopened one.                        *)
ChecksKeepCapacity ==
  [][\A p \in Places, h \in Hours :
       LET before == Cardinality(PendingAt(p, h))
           after == Cardinality(PendingAt(p, h)') IN
       after > before /\ after > Capacity =>
         \E r \in Requests, b \in Bookings : Ends(r, b) /\ req[r].kind = "status"]_vars

(* api/v1/slot_booking.py 1016-1027: a completed booking keeps its status   *)
(* and a cancelled one is not reactivated.  With one call at a time only    *)
(* PUT, which has no such check, does it.                                   *)
OnlyUpdatesReopen ==
  [][\A b \in Bookings :
       book[b].status \in {"completed", "cancelled"} /\ book'[b].status # book[b].status =>
         \E r \in Requests : Ends(r, b) /\ req[r].kind = "update"]_vars

(* A request that ends denied, without its own call saying so, lost its     *)
(* slot to a booking that is confirmed when the step is over.               *)
DenialsHaveAWinner ==
  [][\A b \in Bookings :
       /\ book[b].status # "denied" /\ book'[b].status = "denied"
       /\ \A r \in Requests : ~Ends(r, b)
       => \E c \in Bookings : /\ book'[c].status = "confirmed"
                              /\ Overlapping(book[b], book'[c])]_vars

(* Every call comes to an end: nobody waits for a lock for ever.            *)
CallsEnd == \A r \in Requests : req[r].pc # "idle" ~> req[r].pc = "idle"

(* crud/slot_booking.py 1768-1769: the slot's rows are locked "so conflict  *)
(* check + status transition are atomic and race-safe": an approval leaves  *)
(* no other active booking on its slot.                                     *)
ApprovalsAreRaceSafe ==
  [][\A r \in Requests, b, c \in Bookings :
       Ends(r, b) /\ req[r].kind = "status" /\ Approving(r)
         /\ book[b].status # "confirmed" /\ book'[b].status = "confirmed"
       => ~Clash(b, c)']_vars

=============================================================================
