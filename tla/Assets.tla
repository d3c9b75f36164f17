------------------------------- MODULE Assets -------------------------------
(***************************************************************************)
(* An asset, its maintenance window and the bookings that depend on it     *)
(* (app/crud/asset.py, app/api/v1/assets.py and the asset checks of        *)
(* app/crud/slot_booking.py).                                              *)
(*                                                                         *)
(* The status of an asset is stored, and brought up to date with the       *)
(* window whenever somebody reads the asset.  Managers edit the asset;     *)
(* closing it denies the bookings in the way; those who book check it.     *)
(* Every call is a session: it loads the asset, perhaps commits the        *)
(* synchronised status, decides, and writes the columns that it changed.   *)
(***************************************************************************)
EXTENDS Integers, FiniteSets

CONSTANTS
  Bookings,     \* booking ids
  Editors,      \* the managers' calls on the asset
  Bookers,      \* the calls that create or move bookings
  Horizon,      \* the last day
  Transitions   \* <<from, to>>: the changes of a booking's status that are asked for

Statuses == {"available", "maintenance", "retired"}
BookingStatus == {"pending", "confirmed", "in_progress", "completed", "cancelled", "denied"}
Pending == {"pending", "confirmed"}
Terminal == {"completed", "cancelled", "denied"}
Days == 1..Horizon

ASSUME AssetAssumption ==
  /\ Horizon \in Nat \ {0}
  /\ Editors \cap Bookers = {}
  /\ Transitions \subseteq BookingStatus \X BookingStatus

VARIABLES
  today,    \* date.today()
  asset,    \* the row of the assets table
  book,     \* the asset's rows of slot_bookings
  req,      \* the session of each call
  cleared,  \* history: the days from which the last change denied bookings
  spared    \* history: bookings written by calls that overlapped that change

vars == <<today, asset, book, req, cleared, spared>>

Calls == Editors \cup Bookers

(* The window is the days from .. to, with 0 for NULL; Unset is a field that *)
(* the payload leaves out.                                                  *)
NoWindow == <<0, 0>>
Unset == <<>>
AssetRow == [status : Statuses \cup {"gone"}, from : Days \cup {0}, to : Days \cup {0}]
BookingRow == [status : BookingStatus \cup {"absent"}, day : Days \cup {0}]

HasWindow(a) == a.from # 0 /\ a.to # 0
InWindow(a, d) == HasWindow(a) /\ a.from <= d /\ d <= a.to
WithWindow(a, w) == [a EXCEPT !.from = w[1], !.to = w[2]]
Cleared(a) == WithWindow(a, NoWindow)
Windows == {w \in Days \X Days : w[1] <= w[2]}

Idle == [pc |-> "idle", kind |-> "get",
         loaded |-> [status |-> "gone", from |-> 0, to |-> 0],
         target |-> [status |-> "gone", from |-> 0, to |-> 0],
         rows |-> <<>>, deny |-> {}, changed |-> {}, late |-> FALSE]

Kind(r) == IF r \in Editors THEN {"get", "update", "transfer", "delete"} ELSE {"book", "move"}

(* POST /assets: any status; a retired asset has no window.                 *)
CreateAsset(status, w) ==
  /\ status = "retired" => w = NoWindow
  /\ asset = WithWindow([status |-> status, from |-> 0, to |-> 0], w)

Init ==
  /\ today = 1
  /\ \E status \in Statuses, w \in Windows \cup {NoWindow} : CreateAsset(status, w)
  /\ book = [b \in Bookings |-> [status |-> "absent", day |-> 0]]
  /\ req = [r \in Calls |-> Idle]
  /\ cleared = {} /\ spared = {}

-----------------------------------------------------------------------------
(* Bringing the status up to date with the window.                          *)

(* sync_maintenance_status, and the loop of _resolve_maintenance_batch.     *)
Synced(a, day) ==
  IF ~HasWindow(a) \/ a.status = "retired" THEN a
  ELSE IF InWindow(a, day) THEN [a EXCEPT !.status = "maintenance"]
  ELSE IF day > a.to THEN Cleared([a EXCEPT !.status = "available"])
  ELSE [a EXCEPT !.status = "available"]

(* The four UPDATE statements of _bulk_resolve_maintenance, in their order. *)
Activate(a, day) ==
  IF InWindow(a, day) /\ a.status # "retired" THEN [a EXCEPT !.status = "maintenance"] ELSE a
Expire(a, day) ==
  IF a.to # 0 /\ a.to < day /\ a.status = "maintenance"
  THEN Cleared([a EXCEPT !.status = "available"]) ELSE a
(* Faulty variant: only assets in maintenance lose an expired window.       *)
CleanNothing(a, day) == a
Clean(a, day) ==
  IF a.to # 0 /\ a.to < day /\ a.status = "available" THEN Cleared(a) ELSE a
Unstick(a, day) ==
  IF a.from > day /\ a.status = "maintenance" THEN [a EXCEPT !.status = "available"] ELSE a
BulkSynced(a, day) == Unstick(Clean(Expire(Activate(a, day), day), day), day)

(* The lists of assets: _bulk_resolve_maintenance commits before they read. *)
ListAssets ==
  /\ asset' = BulkSynced(asset, today)
  /\ UNCHANGED <<today, book, req, cleared, spared>>

Tick ==
  /\ today < Horizon
  /\ today' = today + 1
  /\ UNCHANGED <<asset, book, req, cleared, spared>>

-----------------------------------------------------------------------------
(* Sessions.                                                                *)

End(r) == req' = [req EXCEPT ![r] = Idle]

(* get_asset, and the loads of the booking calls: the row, and what         *)
(* sync_maintenance_status makes of it.                                     *)
Load(r, kind) ==
  /\ \/ req[r].pc = "idle"
     \/ req[r].pc = "again" /\ kind = "get"
  /\ asset.status # "gone"
  /\ req' = [req EXCEPT ![r] =
       IF Synced(asset, today) = asset /\ kind = "get" THEN Idle
       ELSE [Idle EXCEPT !.kind = kind, !.loaded = asset, !.target = Synced(asset, today),
                         !.pc = IF Synced(asset, today) = asset THEN "loaded" ELSE "sync"]]
  /\ UNCHANGED <<today, asset, book, cleared, spared>>

(* The columns that differ from what was loaded are written.                *)
Written(old, new) ==
  [status |-> IF new.status # old.status THEN new.status ELSE asset.status,
   from   |-> IF new.from # old.from THEN new.from ELSE asset.from,
   to     |-> IF new.to # old.to THEN new.to ELSE asset.to]

(* A call is refused, or fails, before it writes.                           *)
Refuse(r) ==
  /\ req[r].pc = "loaded"
  /\ End(r)
  /\ UNCHANGED <<today, asset, book, cleared, spared>>

(* A row that is gone makes the flush fail.                                 *)
Vanished(r) ==
  /\ req[r].pc \in {"sync", "write"}
  /\ asset.status = "gone"
  /\ End(r)
  /\ UNCHANGED <<today, asset, book, cleared, spared>>

(* The synchronised status is committed and the row loaded once more.       *)
CommitSync(r) ==
  LET row == Written(req[r].loaded, req[r].target) IN
  /\ req[r].pc = "sync"
  /\ asset.status # "gone"
  /\ asset' = row
  /\ req' = [req EXCEPT ![r] = IF req[r].kind = "get" THEN Idle
                               ELSE [@ EXCEPT !.pc = "loaded", !.loaded = row, !.target = row]]
  /\ UNCHANGED <<today, book, cleared, spared>>

InStatus(S) == {b \in Bookings : book[b].status \in S}

-----------------------------------------------------------------------------
(* PUT /assets/{id}.                                                        *)

(* _build_status_change_impact.                                             *)
Impact(a) ==
  {b \in InStatus(Pending) :
     \/ a.status = "retired" /\ book[b].day >= today
     \/ a.status = "maintenance" /\ InWindow(a, book[b].day)}

(* The row an update asks for.                                              *)
Updated(row, status, w) ==
  LET effective == IF status = "unset" THEN row.status ELSE status
      a == [row EXCEPT !.status = effective]
  IN IF effective = "retired" \/ status = "available" THEN Cleared(a)
     ELSE IF w = Unset THEN a ELSE WithWindow(a, w)

(* update_asset: dates are refused on a retired asset, and bookings in the  *)
(* way (409 until the manager confirms) are denied.                         *)
Update(r, status, w, confirm) ==
  LET target == Updated(req[r].loaded, status, w) IN
  /\ req[r].pc = "loaded" /\ req[r].kind = "update"
  /\ target.status = "retired" => w \in {Unset, NoWindow}
  /\ Impact(target) # {} => confirm
  /\ req' = [req EXCEPT ![r].pc = "write", ![r].target = target, ![r].deny = Impact(target)]
  /\ UNCHANGED <<today, asset, book, cleared, spared>>

(* The days a change of the asset has taken the bookings from.              *)
Announced(a) ==
  CASE a.status = "retired" -> {d \in Days : d >= today}
    [] a.status = "maintenance" -> {d \in Days : InWindow(a, d)}
    [] OTHER -> {}

(* The commit of an edit; calls in flight have read the asset before it.    *)
CommitEdit(r) ==
  LET changes == req[r].target # req[r].loaded
      denies == req[r].kind = "update"
  IN
  /\ req[r].pc = "write" /\ r \in Editors
  /\ asset.status # "gone"
  /\ asset' = IF req[r].target.status = "gone" THEN req[r].target
              ELSE Written(req[r].loaded, req[r].target)
  /\ book' = [b \in Bookings |-> IF b \in req[r].deny THEN [book[b] EXCEPT !.status = "denied"]
                                 ELSE book[b]]
  /\ req' = [c \in Calls |->
               IF c = r THEN IF denies THEN [Idle EXCEPT !.pc = "again"] ELSE Idle
               ELSE [req[c] EXCEPT !.late = @ \/ (changes /\ req[c].pc # "idle")]]
  /\ cleared' = IF ~changes THEN cleared ELSE IF denies THEN Announced(req[r].target) ELSE {}
  /\ spared' = IF changes THEN req[r].changed ELSE spared
  /\ UNCHANGED today

-----------------------------------------------------------------------------
(* POST /assets/{id}/transfer and DELETE /assets/{id}: no booking is denied.*)

Transfer(r, status, force) ==
  LET row == req[r].loaded IN
  /\ req[r].pc = "loaded" /\ req[r].kind = "transfer"
  /\ (\E b \in InStatus({"confirmed"}) : book[b].day >= today) => force
  /\ req' = [req EXCEPT
       ![r].pc = "write",
       ![r].target = CASE status = "unset" -> row
                       [] status = "maintenance" -> [row EXCEPT !.status = status]
                       [] OTHER -> Cleared([row EXCEPT !.status = status])]
  /\ UNCHANGED <<today, asset, book, cleared, spared>>

(* An asset that was ever booked is retired, any other is deleted.          *)
Delete(r) ==
  LET row == req[r].loaded IN
  /\ req[r].pc = "loaded" /\ req[r].kind = "delete"
  /\ req' = [req EXCEPT
       ![r].pc = "write",
       ![r].target = Cleared([row EXCEPT !.status = IF InStatus(BookingStatus) # {}
                                                    THEN "retired" ELSE "gone"])]
  /\ UNCHANGED <<today, asset, book, cleared, spared>>

-----------------------------------------------------------------------------
(* What those who book check of the asset.                                  *)

(* Faulty variant: the window of an available asset is not looked at.       *)
BookableByStatus(a, day) == a.status \notin {"maintenance", "retired"}

(* create_booking, create_bulk_bookings and update_booking.                 *)
Bookable(a, day) == a.status \notin {"maintenance", "retired"} /\ ~InWindow(a, day)

(* validate_bulk_reschedule: a maintenance status counts without a window.  *)
Movable(a, day) ==
  /\ a.status # "retired"
  /\ ~InWindow(a, day)
  /\ a.status = "maintenance" => HasWindow(a)

(* check_asset_availability.                                                *)
Available(a, day) == a.status # "retired" /\ ~InWindow(a, day)

(* get_available_assets: the list is filtered by status, then by the check, *)
(* each of them after a synchronisation of its own.                         *)
Listed(a, day) ==
  LET row == Synced(BulkSynced(a, today), today) IN
  /\ BulkSynced(a, today).status \notin {"maintenance", "retired"}
  /\ Available(row, day)

Reserved(r, b, status, day) ==
  req' = [req EXCEPT ![r] = [Idle EXCEPT !.pc = "write", !.late = req[r].late,
                                         !.rows = [c \in {b} |-> [status |-> status, day |-> day]]]]

Book(r, b, day, status) ==
  /\ req[r].pc = "loaded" /\ req[r].kind = "book"
  /\ book[b].status = "absent"
  /\ \A c \in Bookers : req[c].pc = "write" => b \notin DOMAIN req[c].rows
  /\ day >= today
  /\ Bookable(req[r].loaded, day)
  /\ Reserved(r, b, status, day)
  /\ UNCHANGED <<today, asset, book, cleared, spared>>

(* PUT /bookings/{id}, or one item of a bulk reschedule.                    *)
Move(r, b, day, status) ==
  LET validated == day # book[b].day \/ (status # book[b].status /\ status \notin Terminal) IN
  /\ req[r].pc = "loaded" /\ req[r].kind = "move"
  /\ book[b].status # "absent"
  /\ status = book[b].status \/ <<book[b].status, status>> \in Transitions
  /\ \/ day >= today /\ status = book[b].status /\ status \in Pending /\ Movable(req[r].loaded, day)
     \/ /\ day = book[b].day \/ day >= today
        /\ validated => Bookable(req[r].loaded, day)
  /\ Reserved(r, b, status, day)
  /\ UNCHANGED <<today, asset, book, cleared, spared>>

(* Calls that have already decided what to deny do not see the new rows.    *)
Note(changed) ==
  [c \in Calls |-> IF c \in Editors /\ req[c].pc = "write"
                   THEN [req[c] EXCEPT !.changed = @ \cup changed] ELSE req[c]]

CommitBooking(r) ==
  LET ids == DOMAIN req[r].rows IN
  /\ req[r].pc = "write" /\ r \in Bookers
  /\ asset.status # "gone"
  /\ book' = [b \in Bookings |-> IF b \in ids THEN req[r].rows[b] ELSE book[b]]
  /\ req' = [Note(ids) EXCEPT ![r] = Idle]
  /\ spared' = IF req[r].late THEN spared \cup ids ELSE spared
  /\ UNCHANGED <<today, asset, cleared>>

(* PATCH /bookings/{id}/status and DELETE look at no asset.                 *)
Patch(b, status) ==
  /\ <<book[b].status, status>> \in Transitions
  /\ book' = [book EXCEPT ![b].status = status]
  /\ req' = Note({b})
  /\ UNCHANGED <<today, asset, cleared, spared>>

-----------------------------------------------------------------------------
Edit(r) ==
  \/ \E status \in Statuses \cup {"unset"} :
       \/ \E w \in Windows \cup {NoWindow, Unset}, confirm \in BOOLEAN :
            Update(r, status, w, confirm)
       \/ \E force \in BOOLEAN : Transfer(r, status, force)
  \/ Delete(r)
  \/ CommitEdit(r)

Reserve(r) ==
  \/ \E b \in Bookings, day \in Days :
       \/ \E status \in Pending : Book(r, b, day, status)
       \/ \E status \in BookingStatus : Move(r, b, day, status)
  \/ CommitBooking(r)

Next ==
  \/ Tick
  \/ ListAssets
  \/ \E b \in Bookings, status \in BookingStatus : Patch(b, status)
  \/ \E r \in Calls :
       \/ \E kind \in Kind(r) : Load(r, kind)
       \/ CommitSync(r)
       \/ Vanished(r)
       \/ Refuse(r)
  \/ \E r \in Editors : Edit(r)
  \/ \E r \in Bookers : Reserve(r)

Spec == Init /\ [][Next]_vars

-----------------------------------------------------------------------------
(* Properties.                                                              *)

(* A PUT that retires an asset, or puts it in maintenance for a window,     *)
(* leaves no request and no confirmed booking on the days it closes, and    *)
(* none comes back while they are closed: the only exceptions are bookings  *)
(* written by calls that overlapped the change (asset.py:361 reads them     *)
(* without a lock, and nobody who books locks the asset).                   *)
ClearedDaysStayClear ==
  \A b \in InStatus(Pending) \ spared :
    book[b].day \in cleared => ~(asset.status = "retired" \/ InWindow(asset, book[b].day))

(* The status is computed twice, row by row in Python and by four UPDATEs,  *)
(* and "may this asset be booked on this day" four times.  The first two    *)
(* agree on every row the calls can leave; what the list of free assets     *)
(* offers is accepted by the booking calls, and what those accept the       *)
(* availability check and bulk rescheduling do not contradict.  A window of *)
(* one bound is left out: a list that clears an expired window between the  *)
(* load and the commit of a PUT with the same first day makes one.          *)
ChecksAgree ==
  LET row == Synced(asset, today) IN
  HasWindow(asset) \/ asset = Cleared(asset) =>
  /\ BulkSynced(asset, today) = row
  /\ \A day \in Days :
       /\ Listed(asset, day) => Bookable(row, day)
       /\ Bookable(row, day) => Available(row, day) /\ Movable(row, day)
=============================================================================
