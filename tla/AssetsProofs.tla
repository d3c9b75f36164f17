---------------------------- MODULE AssetsProofs ----------------------------
(***************************************************************************)
(* Theorems about Assets, for every set of bookings and every number of    *)
(* managers and of those who book, however their calls interleave.         *)
(***************************************************************************)
EXTENDS Assets, TLAPS

(* Nobody brings a closed booking back by a change of its status alone.     *)
NobodyReopens == \A t \in Transitions : t[2] \in Pending => t[1] \in Pending

-----------------------------------------------------------------------------
(* The invariant.                                                           *)

Rows == UNION {[S -> BookingRow] : S \in SUBSET Bookings}

Session == [pc : {"idle", "sync", "loaded", "write", "again"},
            kind : {"get", "update", "transfer", "delete", "book", "move"},
            loaded : AssetRow, target : AssetRow,
            rows : Rows, deny : SUBSET Bookings, changed : SUBSET Bookings, late : BOOLEAN]

TypeOK ==
  /\ today \in Days
  /\ asset \in AssetRow
  /\ book \in [Bookings -> BookingRow]
  /\ req \in [Calls -> Session]

(* A deleted asset has no window any more.                                  *)
GoneIsBare == asset.status = "gone" => asset = Cleared(asset)

(* What a synchronisation makes of a row: it never retires it, and of a     *)
(* window it changes nothing but to remove it.                              *)
Shrinks(new, old) ==
  /\ new.status = "retired" => old.status = "retired"
  /\ new.from \in {old.from, 0} /\ new.to \in {old.to, 0}

Closed(a, day) == a.status = "retired" \/ InWindow(a, day)

(* Why a booking may stay on a day.                                         *)
Excused(b, day) == b \in spared \/ day \notin cleared \/ ~Closed(asset, day)

Synchronising(r) ==
  req[r].pc = "sync" =>
    /\ Shrinks(req[r].target, req[r].loaded)
    /\ req[r].target.status # "gone"

(* Whoever books has seen the asset as it is, but for synchronisations, or  *)
(* is late; and a booking to be written was allowed by what it saw.         *)
Booking(r) ==
  ~req[r].late =>
    /\ req[r].pc = "loaded" => Shrinks(asset, req[r].loaded)
    /\ NobodyReopens /\ req[r].pc = "write" =>
         \A b \in DOMAIN req[r].rows :
           req[r].rows[b].status \in Pending => Excused(b, req[r].rows[b].day)

(* A manager denies whatever is in the way, but for what was written since. *)
Editing(r) ==
  /\ req[r].pc \in {"loaded", "write"} => req[r].loaded.status # "gone"
  /\ req[r].pc = "write" /\ req[r].target.status = "gone" =>
       req[r].target = Cleared(req[r].target)
  /\ req[r].pc = "write" /\ req[r].kind = "update" =>
       Impact(req[r].target) \subseteq req[r].deny \cup req[r].changed

AssetsInv ==
  /\ TypeOK
  /\ GoneIsBare
  /\ \A r \in Calls : Synchronising(r)
  /\ \A r \in Bookers : Booking(r)
  /\ \A r \in Editors : Editing(r)
  /\ NobodyReopens => ClearedDaysStayClear

-----------------------------------------------------------------------------
(* Lemmas about rows of the assets table.                                   *)

LEMMA StatusRow ==
  ASSUME NEW a \in AssetRow, NEW s \in Statuses \cup {"gone"}
  PROVE  LET row == [a EXCEPT !.status = s]
         IN  /\ row \in AssetRow
             /\ row.status = s /\ row.from = a.from /\ row.to = a.to
BY DEF AssetRow

LEMMA ClearedRow ==
  ASSUME NEW a \in AssetRow
  PROVE  /\ Cleared(a) \in AssetRow /\ Cleared(a).status = a.status
         /\ Cleared(a).from = 0 /\ Cleared(a).to = 0
BY DEF AssetRow, WithWindow, Cleared, NoWindow

LEMMA BareRows ==
  ASSUME NEW a \in AssetRow
  PROVE  a = Cleared(a) <=> a.from = 0 /\ a.to = 0
BY DEF AssetRow, WithWindow, Cleared, NoWindow

LEMMA IdleType ==
  /\ Idle \in Session /\ Idle.pc = "idle" /\ Idle.late = FALSE /\ Idle.changed = {}
  /\ Idle.deny = {}
<1>1. [status |-> "gone", from |-> 0, to |-> 0] \in AssetRow
  BY DEF AssetRow
<1>2. <<>> \in Rows
  <2>1. <<>> \in [{} -> BookingRow]
    OBVIOUS
  <2> QED
    BY <2>1 DEF Rows
<1> QED
  BY <1>1, <1>2 DEF Idle, Session

LEMMA ShrinksReflexive ==
  ASSUME NEW a \in AssetRow
  PROVE  Shrinks(a, a)
BY DEF Shrinks

LEMMA ShrinksTransitive ==
  ASSUME NEW a \in AssetRow, NEW b \in AssetRow, NEW c \in AssetRow, Shrinks(a, b), Shrinks(b, c)
  PROVE  Shrinks(a, c)
BY DEF Shrinks

(* A synchronisation closes no day.                                         *)
LEMMA ShrinksOpens ==
  ASSUME NEW new, NEW old, Shrinks(new, old), NEW day, Closed(new, day)
  PROVE  Closed(old, day)
BY DEF Shrinks, Closed, InWindow, HasWindow

LEMMA SyncedRow ==
  ASSUME NEW a \in AssetRow, NEW day \in Days
  PROVE  /\ Synced(a, day) \in AssetRow /\ Shrinks(Synced(a, day), a)
         /\ a.status # "gone" => Synced(a, day).status # "gone"
<1> DEFINE free == [a EXCEPT !.status = "available"]
           shut == [a EXCEPT !.status = "maintenance"]
<1>1. /\ free \in AssetRow /\ free.status = "available" /\ free.from = a.from /\ free.to = a.to
      /\ shut \in AssetRow /\ shut.status = "maintenance" /\ shut.from = a.from /\ shut.to = a.to
  BY StatusRow DEF Statuses
<1>2. Synced(a, day) = IF ~HasWindow(a) \/ a.status = "retired" THEN a
                       ELSE IF InWindow(a, day) THEN shut
                       ELSE IF day > a.to THEN Cleared(free) ELSE free
  BY DEF Synced
<1> HIDE DEF free, shut
<1>3. /\ Cleared(free) \in AssetRow /\ Cleared(free).status = "available"
      /\ Cleared(free).from = 0 /\ Cleared(free).to = 0
  BY <1>1, ClearedRow
<1>4. Shrinks(free, a) /\ Shrinks(shut, a) /\ Shrinks(a, a) /\ Shrinks(Cleared(free), a)
  BY <1>1, <1>3 DEF Shrinks
<1> QED
  BY <1>1, <1>2, <1>3, <1>4

(* The four UPDATEs, one by one.                                            *)
LEMMA BulkSteps ==
  ASSUME NEW a \in AssetRow, NEW day \in Days
  PROVE  /\ Activate(a, day) \in AssetRow /\ Shrinks(Activate(a, day), a)
         /\ Expire(a, day) \in AssetRow /\ Shrinks(Expire(a, day), a)
         /\ Clean(a, day) \in AssetRow /\ Shrinks(Clean(a, day), a)
         /\ Unstick(a, day) \in AssetRow /\ Shrinks(Unstick(a, day), a)
         /\ a.status # "gone" =>
              /\ Activate(a, day).status # "gone" /\ Expire(a, day).status # "gone"
              /\ Clean(a, day).status # "gone" /\ Unstick(a, day).status # "gone"
<1> DEFINE free == [a EXCEPT !.status = "available"]
           shut == [a EXCEPT !.status = "maintenance"]
<1>1. /\ free \in AssetRow /\ free.status = "available" /\ free.from = a.from /\ free.to = a.to
      /\ shut \in AssetRow /\ shut.status = "maintenance" /\ shut.from = a.from /\ shut.to = a.to
  BY StatusRow DEF Statuses
<1>2. /\ Activate(a, day) \in {a, shut} /\ Expire(a, day) \in {a, Cleared(free)}
      /\ Clean(a, day) \in {a, Cleared(a)} /\ Unstick(a, day) \in {a, free}
  BY DEF Activate, Expire, Clean, Unstick
<1> HIDE DEF free, shut
<1>3. /\ Cleared(free) \in AssetRow /\ Shrinks(Cleared(free), a)
      /\ Cleared(a) \in AssetRow /\ Shrinks(Cleared(a), a)
      /\ Cleared(a).status = a.status /\ Cleared(free).status = free.status
      /\ Shrinks(free, a) /\ Shrinks(shut, a) /\ Shrinks(a, a)
  BY <1>1, ClearedRow DEF Shrinks
<1> QED
  BY <1>1, <1>2, <1>3

LEMMA BulkSyncedRow ==
  ASSUME NEW a \in AssetRow, NEW day \in Days
  PROVE  /\ BulkSynced(a, day) \in AssetRow /\ Shrinks(BulkSynced(a, day), a)
         /\ a.status = "gone" /\ a = Cleared(a) => BulkSynced(a, day) = a
         /\ a.status # "gone" => BulkSynced(a, day).status # "gone"
<1> DEFINE a1 == Activate(a, day)
           a2 == Expire(a1, day)
           a3 == Clean(a2, day)
           a4 == Unstick(a3, day)
<1>1. a1 \in AssetRow /\ Shrinks(a1, a)
  BY BulkSteps
<1>2. a2 \in AssetRow /\ Shrinks(a2, a)
  BY <1>1, BulkSteps, ShrinksTransitive
<1>3. a3 \in AssetRow /\ Shrinks(a3, a)
  BY <1>2, BulkSteps, ShrinksTransitive
<1>4. a4 \in AssetRow /\ Shrinks(a4, a)
  BY <1>3, BulkSteps, ShrinksTransitive
<1>5. ASSUME a.status = "gone", a = Cleared(a)
      PROVE  a4 = a
  <2>1. a.from = 0 /\ a.to = 0
    BY <1>5, BareRows
  <2>2. a1 = a
    BY <2>1 DEF Activate, InWindow, HasWindow
  <2> QED
    BY <1>5, <2>1, <2>2 DEF Expire, Clean, Unstick
<1>6. ASSUME a.status # "gone"
      PROVE  a4.status # "gone"
  <2>1. a1.status # "gone"
    BY <1>6, BulkSteps
  <2>2. a2.status # "gone"
    BY <1>1, <2>1, BulkSteps
  <2>3. a3.status # "gone"
    BY <1>2, <2>2, BulkSteps
  <2> QED
    BY <1>3, <2>3, BulkSteps
<1> HIDE DEF a1, a2, a3
<1> QED
  BY <1>4, <1>5, <1>6 DEF BulkSynced, a1, a2, a3

(* What a session writes of a synchronisation.                              *)
LEMMA WrittenRow ==
  ASSUME TypeOK, NEW old \in AssetRow, NEW new \in AssetRow
  PROVE  /\ Written(old, new) \in AssetRow
         /\ new = old => Written(old, new) = asset
         /\ Shrinks(new, old) => Shrinks(Written(old, new), asset)
         /\ asset.status # "gone" /\ new.status # "gone" => Written(old, new).status # "gone"
BY DEF TypeOK, Written, AssetRow, Shrinks


-----------------------------------------------------------------------------
(* Lemmas about steps.                                                      *)

(* The sessions that a step does not touch go on as before when the asset   *)
(* was at most synchronised and the day at most went on.                    *)
LEMMA OthersGoOn ==
  ASSUME TypeOK, NEW r \in Calls, req'[r] = req[r],
         Shrinks(asset', asset), today' \in Days, today' >= today,
         book' = book, cleared' = cleared, spared' = spared,
         Synchronising(r), r \in Bookers => Booking(r), r \in Editors => Editing(r)
  PROVE  Synchronising(r)' /\ (r \in Bookers => Booking(r)') /\ (r \in Editors => Editing(r)')
<1> DEFINE s == req[r]
<1>1. PICK t \in Session : t = req[r]
  BY DEF TypeOK
<1>2. req'[r] = t
  BY <1>1
<1>3. asset \in AssetRow /\ t.loaded \in AssetRow
  BY <1>1 DEF TypeOK, Session
<1>4. Synchronising(r)'
  BY <1>1, <1>2 DEF Synchronising
<1>5. ASSUME NEW b, NEW day, Excused(b, day)
      PROVE  Excused(b, day)'
  <2>1. Closed(asset', day) => Closed(asset, day)
    BY ShrinksOpens
  <2> QED
    BY <1>5, <2>1 DEF Excused
<1>6. ASSUME r \in Bookers
      PROVE  Booking(r)'
  <2>1. Booking(r)
    BY <1>6
  <2>2. ASSUME ~t.late, t.pc = "loaded"
        PROVE  Shrinks(asset', t.loaded)
    <3>1. Shrinks(asset, t.loaded)
      BY <1>1, <2>1, <2>2 DEF Booking
    <3> QED
      BY <3>1 DEF Shrinks
  <2>3. ASSUME NobodyReopens, ~t.late, t.pc = "write", NEW b \in DOMAIN t.rows, t.rows[b].status \in Pending
        PROVE  Excused(b, t.rows[b].day)'
    BY <1>1, <1>5, <2>1, <2>3 DEF Booking
  <2> QED
    BY <1>1, <1>2, <2>2, <2>3 DEF Booking
<1>7. ASSUME r \in Editors
      PROVE  Editing(r)'
  <2>1. Editing(r)
    BY <1>7
  <2>2. \A a : Impact(a)' \subseteq Impact(a)
    <3>1. \A b \in Bookings : book'[b] = book[b] /\ book[b].day \in Int
      BY DEF TypeOK, BookingRow, Days
    <3>2. today \in Int /\ today' \in Int
      BY DEF TypeOK, Days
    <3>3. ASSUME NEW b \in Bookings, book[b].day >= today'
          PROVE  book[b].day >= today
      <4>1. book[b].day \in Int
        BY <3>1
      <4> QED
        BY <3>2, <3>3, <4>1
    <3> QED
      BY <3>1, <3>3 DEF Impact, InStatus
  <2> QED
    BY <1>1, <1>2, <2>1, <2>2 DEF Editing
<1> QED
  BY <1>4, <1>6, <1>7

(* What is cleared stays clear while the bookings stay as they are.         *)
LEMMA ClearedStays ==
  ASSUME Shrinks(asset', asset), book' = book, cleared' = cleared, spared' = spared,
         ClearedDaysStayClear
  PROVE  ClearedDaysStayClear'
<1>1. \A day : Closed(asset', day) => Closed(asset, day)
  BY ShrinksOpens
<1> QED
  BY <1>1 DEF ClearedDaysStayClear, Closed, InStatus

(* A step of one session that leaves the bookings alone and the asset at    *)
(* most synchronised.                                                       *)
LEMMA SessionStep ==
  ASSUME AssetsInv, NEW r \in Calls, NEW new \in Session,
         req' = [req EXCEPT ![r] = new],
         asset' \in AssetRow, Shrinks(asset', asset), GoneIsBare', today' = today,
         book' = book, cleared' = cleared, spared' = spared,
         Synchronising(r)', r \in Bookers => Booking(r)', r \in Editors => Editing(r)'
  PROVE  AssetsInv'
<1>1. TypeOK'
  BY DEF AssetsInv, TypeOK
<1>2. today' \in Days /\ today' >= today
  BY DEF AssetsInv, TypeOK, Days
<1>3. ASSUME NEW q \in Calls
      PROVE  Synchronising(q)' /\ (q \in Bookers => Booking(q)') /\ (q \in Editors => Editing(q)')
  <2>1. CASE q = r
    BY <2>1
  <2>2. CASE q # r
    <3>1. req'[q] = req[q]
      BY <2>2 DEF AssetsInv, TypeOK
    <3> QED
      BY <1>2, <3>1, OthersGoOn DEF AssetsInv
  <2> QED
    BY <2>1, <2>2
<1>4. NobodyReopens => ClearedDaysStayClear'
  BY ClearedStays DEF AssetsInv
<1> QED
  BY <1>1, <1>3, <1>4 DEF AssetsInv, Calls

(* A session that ends is of no further consequence.                        *)
LEMMA IdleSession ==
  ASSUME NEW r \in Calls, req'[r] = Idle
  PROVE  Synchronising(r)' /\ Booking(r)' /\ Editing(r)'
BY IdleType DEF Synchronising, Booking, Editing

LEMMA EndKeepsInv ==
  ASSUME AssetsInv, NEW r \in Calls, End(r), UNCHANGED <<today, asset, book, cleared, spared>>
  PROVE  AssetsInv'
<1>1. req'[r] = Idle
  BY DEF End, AssetsInv, TypeOK
<1>2. asset \in AssetRow /\ Shrinks(asset, asset)
  BY ShrinksReflexive DEF AssetsInv, TypeOK
<1>3. GoneIsBare'
  BY DEF AssetsInv, GoneIsBare
<1> QED
  BY <1>1, <1>2, <1>3, IdleType, IdleSession, SessionStep DEF End

(* A step of no session.                                                    *)
LEMMA NobodyActs ==
  ASSUME AssetsInv, asset' \in AssetRow, Shrinks(asset', asset), GoneIsBare',
         today' \in Days, today' >= today,
         req' = req, book' = book, cleared' = cleared, spared' = spared
  PROVE  AssetsInv'
<1>1. TypeOK'
  BY DEF AssetsInv, TypeOK
<1>2. ASSUME NEW q \in Calls
      PROVE  Synchronising(q)' /\ (q \in Bookers => Booking(q)') /\ (q \in Editors => Editing(q)')
  BY OthersGoOn DEF AssetsInv
<1>3. NobodyReopens => ClearedDaysStayClear'
  BY ClearedStays DEF AssetsInv
<1> QED
  BY <1>1, <1>2, <1>3 DEF AssetsInv, Calls

LEMMA ListKeepsInv ==
  ASSUME AssetsInv, ListAssets
  PROVE  AssetsInv'
<1>1. asset \in AssetRow /\ today \in Days
  BY DEF AssetsInv, TypeOK
<1>2. asset' = BulkSynced(asset, today) /\ today' = today
  BY DEF ListAssets
<1>3. asset' \in AssetRow /\ Shrinks(asset', asset)
  BY <1>1, <1>2, BulkSyncedRow
<1>4. GoneIsBare'
  <2>1. CASE asset.status = "gone"
    <3>1. asset = Cleared(asset)
      BY <2>1 DEF AssetsInv, GoneIsBare
    <3> QED
      BY <1>1, <1>2, <2>1, <3>1, BulkSyncedRow DEF GoneIsBare
  <2>2. CASE asset.status # "gone"
    BY <1>1, <1>2, <2>2, BulkSyncedRow DEF GoneIsBare
  <2> QED
    BY <2>1, <2>2
<1>5. today' \in Days /\ today' >= today
  BY <1>1, <1>2 DEF Days
<1> QED
  BY <1>3, <1>4, <1>5, NobodyActs DEF ListAssets

LEMMA TickKeepsInv ==
  ASSUME AssetsInv, Tick
  PROVE  AssetsInv'
<1>1. asset \in AssetRow /\ Shrinks(asset, asset)
  BY ShrinksReflexive DEF AssetsInv, TypeOK
<1>2. today' \in Days /\ today' >= today
  BY AssetAssumption DEF AssetsInv, TypeOK, Tick, Days
<1>3. GoneIsBare'
  BY DEF AssetsInv, GoneIsBare, Tick
<1> QED
  BY <1>1, <1>2, <1>3, NobodyActs DEF Tick

LEMMA LoadKeepsInv ==
  ASSUME AssetsInv, NEW r \in Calls, NEW kind \in Kind(r), Load(r, kind)
  PROVE  AssetsInv'
<1> DEFINE row == Synced(asset, today)
           new == [Idle EXCEPT !.kind = kind, !.loaded = asset, !.target = row,
                               !.pc = IF row = asset THEN "loaded" ELSE "sync"]
<1>1. asset \in AssetRow /\ today \in Days
  BY DEF AssetsInv, TypeOK
<1>2. Shrinks(asset, asset) /\ GoneIsBare'
  BY <1>1, ShrinksReflexive DEF AssetsInv, GoneIsBare, Load
<1>3. UNCHANGED <<today, asset, book, cleared, spared>> /\ asset.status # "gone"
  BY DEF Load
<1>4. CASE row = asset /\ kind = "get"
  <2>1. req' = [req EXCEPT ![r] = Idle]
    BY <1>4 DEF Load
  <2> QED
    BY <1>3, <2>1, EndKeepsInv DEF End
<1>5. CASE ~(row = asset /\ kind = "get")
  <2>1. req' = [req EXCEPT ![r] = new]
    BY <1>5 DEF Load
  <2>2. row \in AssetRow /\ Shrinks(row, asset) /\ row.status # "gone"
    BY <1>1, <1>3, SyncedRow
  <2>3. kind \in {"get", "update", "transfer", "delete", "book", "move"}
    BY DEF Kind
  <2> HIDE DEF row
  <2>4. /\ new \in Session /\ new.pc = IF row = asset THEN "loaded" ELSE "sync"
        /\ new.loaded = asset /\ new.target = row
    BY <1>1, <2>2, <2>3, IdleType DEF Session
  <2> HIDE DEF new
  <2>5. req'[r] = new
    BY <2>1 DEF AssetsInv, TypeOK
  <2>6. Synchronising(r)'
    BY <2>2, <2>4, <2>5 DEF Synchronising
  <2>7. Booking(r)'
    BY <1>2, <1>3, <2>4, <2>5 DEF Booking
  <2>8. Editing(r)'
    BY <1>3, <2>4, <2>5 DEF Editing
  <2> QED
    BY <1>1, <1>2, <1>3, <2>1, <2>4, <2>6, <2>7, <2>8, SessionStep
<1> QED
  BY <1>4, <1>5

LEMMA CommitSyncKeepsInv ==
  ASSUME AssetsInv, NEW r \in Calls, CommitSync(r)
  PROVE  AssetsInv'
<1>1. PICK s \in Session : s = req[r]
  BY DEF AssetsInv, TypeOK
<1> DEFINE row == Written(s.loaded, s.target)
           new == [s EXCEPT !.pc = "loaded", !.loaded = row, !.target = row]
<1>2. /\ s.pc = "sync" /\ asset.status # "gone" /\ asset' = row
      /\ UNCHANGED <<today, book, cleared, spared>>
  BY <1>1 DEF CommitSync
<1>3. /\ s.loaded \in AssetRow /\ s.target \in AssetRow
      /\ Shrinks(s.target, s.loaded) /\ s.target.status # "gone"
  BY <1>1, <1>2 DEF AssetsInv, Synchronising, Session
<1>4. row \in AssetRow /\ Shrinks(row, asset) /\ row.status # "gone"
  BY <1>2, <1>3, WrittenRow DEF AssetsInv
<1>5. req' = [req EXCEPT ![r] = IF s.kind = "get" THEN Idle ELSE new]
  BY <1>1 DEF CommitSync, AssetsInv, TypeOK
<1> HIDE DEF row
<1>6. GoneIsBare'
  BY <1>2, <1>4 DEF GoneIsBare
<1>7. CASE s.kind = "get"
  <2>1. req' = [req EXCEPT ![r] = Idle]
    BY <1>5, <1>7
  <2>2. req'[r] = Idle
    BY <2>1 DEF AssetsInv, TypeOK
  <2> QED
    BY <1>2, <1>4, <1>6, <2>1, <2>2, IdleType, IdleSession, SessionStep
<1>8. CASE s.kind # "get"
  <2>1. req' = [req EXCEPT ![r] = new]
    BY <1>5, <1>8
  <2>2. new \in Session /\ new.pc = "loaded" /\ new.loaded = row
    BY <1>4 DEF Session
  <2> HIDE DEF new
  <2>3. req'[r] = new
    BY <2>1 DEF AssetsInv, TypeOK
  <2>4. Shrinks(asset', new.loaded)
    BY <1>2, <1>4, <2>2, ShrinksReflexive
  <2>5. Synchronising(r)' /\ Booking(r)' /\ Editing(r)'
    BY <1>4, <2>2, <2>3, <2>4 DEF Synchronising, Booking, Editing
  <2> QED
    BY <1>2, <1>4, <1>6, <2>1, <2>2, <2>5, SessionStep
<1> QED
  BY <1>7, <1>8

-----------------------------------------------------------------------------
(* The decisions.                                                           *)

LEMMA Decided ==
  ASSUME AssetsInv, NEW r \in Calls, NEW new \in Session,
         req' = [req EXCEPT ![r] = new], UNCHANGED <<today, asset, book, cleared, spared>>,
         new.pc = "write", r \in Bookers => Booking(r)', r \in Editors => Editing(r)'
  PROVE  AssetsInv'
<1>1. asset' \in AssetRow /\ Shrinks(asset', asset) /\ GoneIsBare'
  BY ShrinksReflexive DEF AssetsInv, TypeOK, GoneIsBare
<1>2. req'[r] = new
  BY DEF AssetsInv, TypeOK
<1>3. Synchronising(r)'
  BY <1>2 DEF Synchronising
<1> QED
  BY <1>1, <1>3, SessionStep

(* What a manager wants of the row is a row, and deletes it only bare.      *)
LEMMA EditDecided ==
  ASSUME AssetsInv, NEW r \in Editors, NEW target \in AssetRow, NEW deny \in SUBSET Bookings,
         req[r].pc = "loaded",
         req' = [req EXCEPT ![r].pc = "write", ![r].target = target, ![r].deny = deny],
         UNCHANGED <<today, asset, book, cleared, spared>>,
         target.status = "gone" => target = Cleared(target),
         req[r].kind = "update" => Impact(target) \subseteq deny
  PROVE  AssetsInv'
<1>1. PICK s \in Session : s = req[r]
  BY DEF AssetsInv, TypeOK, Calls
<1> DEFINE new == [s EXCEPT !.pc = "write", !.target = target, !.deny = deny]
<1>2. /\ new \in Session /\ new.pc = "write" /\ new.target = target /\ new.deny = deny
      /\ new.loaded = s.loaded /\ new.kind = s.kind
  BY DEF Session
<1>3. req' = [req EXCEPT ![r] = new]
  BY <1>1 DEF AssetsInv, TypeOK, Calls
<1>4. s.loaded.status # "gone"
  BY <1>1 DEF AssetsInv, Editing
<1> HIDE DEF new
<1>5. req'[r] = new
  BY <1>3 DEF AssetsInv, TypeOK, Calls
<1>6. Impact(target)' = Impact(target)
  BY DEF Impact, InStatus
<1>7. Editing(r)'
  BY <1>1, <1>2, <1>4, <1>5, <1>6 DEF Editing
<1>8. r \in Calls /\ r \notin Bookers
  BY AssetAssumption DEF Calls
<1> QED
  BY <1>2, <1>3, <1>7, <1>8, Decided

LEMMA UpdatedRow ==
  ASSUME NEW row \in AssetRow, NEW status \in Statuses \cup {"unset"},
         NEW w \in Windows \cup {NoWindow, Unset}, row.status # "gone"
  PROVE  Updated(row, status, w) \in AssetRow /\ Updated(row, status, w).status # "gone"
<1> DEFINE effective == IF status = "unset" THEN row.status ELSE status
           a == [row EXCEPT !.status = effective]
<1>1. effective \in Statuses
  BY DEF AssetRow, Statuses
<1>2. a \in AssetRow /\ a.status = effective
  BY <1>1, StatusRow
<1>3. \/ Updated(row, status, w) \in {Cleared(a), a}
      \/ w # Unset /\ Updated(row, status, w) = WithWindow(a, w)
  BY DEF Updated
<1> HIDE DEF a, effective
<1>4. Cleared(a) \in AssetRow /\ Cleared(a).status = effective
  BY <1>2, ClearedRow
<1>5. ASSUME w # Unset
      PROVE  WithWindow(a, w) \in AssetRow /\ WithWindow(a, w).status = effective
  <2>1. w \in (Days \cup {0}) \X (Days \cup {0})
    BY <1>5 DEF Windows, NoWindow
  <2> QED
    BY <1>2, <2>1 DEF WithWindow, AssetRow
<1>6. effective # "gone"
  BY <1>1 DEF Statuses
<1> QED
  BY <1>2, <1>3, <1>4, <1>5, <1>6

LEMMA ImpactIsBookings ==
  ASSUME NEW a
  PROVE  Impact(a) \in SUBSET Bookings
BY DEF Impact, InStatus

LEMMA UpdateKeepsInv ==
  ASSUME AssetsInv, NEW r \in Editors, NEW status \in Statuses \cup {"unset"},
         NEW w \in Windows \cup {NoWindow, Unset}, NEW confirm, Update(r, status, w, confirm)
  PROVE  AssetsInv'
<1> DEFINE target == Updated(req[r].loaded, status, w)
<1>1. req[r].pc = "loaded" /\ UNCHANGED <<today, asset, book, cleared, spared>>
  BY DEF Update
<1>2. req' = [req EXCEPT ![r].pc = "write", ![r].target = target, ![r].deny = Impact(target)]
  BY DEF Update
<1>3. req[r].loaded \in AssetRow /\ req[r].loaded.status # "gone"
  BY <1>1 DEF AssetsInv, TypeOK, Calls, Session, Editing
<1>4. target \in AssetRow /\ target.status # "gone"
  BY <1>3, UpdatedRow
<1> HIDE DEF target
<1> QED
  BY <1>1, <1>2, <1>4, ImpactIsBookings, EditDecided

LEMMA TransferKeepsInv ==
  ASSUME AssetsInv, NEW r \in Editors, NEW status \in Statuses \cup {"unset"}, NEW force,
         Transfer(r, status, force)
  PROVE  AssetsInv'
<1>1. PICK s \in Session : s = req[r]
  BY DEF AssetsInv, TypeOK, Calls
<1> DEFINE moved == [s.loaded EXCEPT !.status = status]
           target == CASE status = "unset" -> s.loaded
                       [] status = "maintenance" -> moved
                       [] OTHER -> Cleared(moved)
<1>2. /\ s.pc = "loaded" /\ s.kind = "transfer"
      /\ UNCHANGED <<today, asset, book, cleared, spared>>
      /\ req' = [req EXCEPT ![r].pc = "write", ![r].target = target]
  BY <1>1 DEF Transfer
<1>3. s.loaded \in AssetRow /\ s.loaded.status # "gone" /\ s.deny \in SUBSET Bookings
  BY <1>1, <1>2 DEF AssetsInv, Session, Editing
<1>4. target \in AssetRow /\ target.status # "gone"
  <2>1. CASE status = "unset"
    BY <1>3, <2>1
  <2>2. CASE status # "unset"
    <3>1. status \in Statuses /\ status # "gone"
      BY <2>2 DEF Statuses
    <3>2. moved \in AssetRow /\ moved.status = status
      BY <1>3, <3>1, StatusRow
    <3>3. target \in {moved, Cleared(moved)}
      BY <2>2
    <3> HIDE DEF target, moved
    <3> QED
      BY <3>1, <3>2, <3>3, ClearedRow
  <2> QED
    BY <2>1, <2>2
<1> HIDE DEF target
<1>5. req' = [req EXCEPT ![r].pc = "write", ![r].target = target, ![r].deny = s.deny]
  BY <1>1, <1>2 DEF AssetsInv, TypeOK, Session, Calls
<1> QED
  BY <1>1, <1>2, <1>3, <1>4, <1>5, EditDecided

LEMMA DeleteKeepsInv ==
  ASSUME AssetsInv, NEW r \in Editors, Delete(r)
  PROVE  AssetsInv'
<1>1. PICK s \in Session : s = req[r]
  BY DEF AssetsInv, TypeOK, Calls
<1> DEFINE to == IF InStatus(BookingStatus) # {} THEN "retired" ELSE "gone"
           moved == [s.loaded EXCEPT !.status = to]
           target == Cleared(moved)
<1>2. /\ s.pc = "loaded" /\ s.kind = "delete"
      /\ UNCHANGED <<today, asset, book, cleared, spared>>
      /\ req' = [req EXCEPT ![r].pc = "write", ![r].target = target]
  BY <1>1 DEF Delete
<1>3. s.loaded \in AssetRow /\ s.deny \in SUBSET Bookings
  BY <1>1 DEF Session
<1>4. to \in Statuses \cup {"gone"}
  BY DEF Statuses
<1> HIDE DEF to
<1>5. moved \in AssetRow
  BY <1>3, <1>4, StatusRow
<1> HIDE DEF moved
<1>6. target \in AssetRow /\ target.from = 0 /\ target.to = 0
  BY <1>5, ClearedRow
<1> HIDE DEF target
<1>7. target = Cleared(target)
  BY <1>6, BareRows
<1>8. req' = [req EXCEPT ![r].pc = "write", ![r].target = target, ![r].deny = s.deny]
  BY <1>1, <1>2 DEF AssetsInv, TypeOK, Session, Calls
<1> QED
  BY <1>1, <1>2, <1>3, <1>6, <1>7, <1>8, EditDecided

(* Whoever books was allowed to by what it has read.                        *)
LEMMA ReservedKeepsInv ==
  ASSUME AssetsInv, NEW r \in Bookers, NEW b \in Bookings, NEW status \in BookingStatus,
         NEW day \in Days \cup {0}, Reserved(r, b, status, day),
         UNCHANGED <<today, asset, book, cleared, spared>>,
         NobodyReopens /\ ~req[r].late /\ status \in Pending => Excused(b, day)
  PROVE  AssetsInv'
<1>1. PICK s \in Session : s = req[r]
  BY DEF AssetsInv, TypeOK, Calls
<1> DEFINE rows == [c \in {b} |-> [status |-> status, day |-> day]]
           new == [Idle EXCEPT !.pc = "write", !.late = s.late, !.rows = rows]
<1>2. req' = [req EXCEPT ![r] = new]
  BY <1>1 DEF Reserved
<1>3. rows \in [{b} -> BookingRow]
  BY DEF BookingRow
<1>4. /\ rows \in Rows /\ DOMAIN rows = {b}
      /\ rows[b].status = status /\ rows[b].day = day
  BY <1>3 DEF Rows
<1> HIDE DEF rows
<1>5. new \in Session /\ new.pc = "write" /\ new.late = s.late /\ new.rows = rows
  BY <1>4, IdleType DEF Session
<1> HIDE DEF new
<1>6. req'[r] = new
  BY <1>2 DEF AssetsInv, TypeOK, Calls
<1>7. Excused(b, day) => Excused(b, day)'
  BY DEF Excused, Closed
<1>8. Booking(r)'
  BY <1>1, <1>4, <1>5, <1>6, <1>7 DEF Booking
<1>9. r \in Calls /\ r \notin Editors
  BY AssetAssumption DEF Calls
<1> QED
  BY <1>2, <1>5, <1>8, <1>9, Decided

(* What a session has read as open is open still, unless the session is     *)
(* late.                                                                    *)
LEMMA StillOpen ==
  ASSUME AssetsInv, NEW r \in Bookers, req[r].pc = "loaded", ~req[r].late, NEW b, NEW day,
         ~Closed(req[r].loaded, day)
  PROVE  Excused(b, day)
<1>1. Shrinks(asset, req[r].loaded)
  BY DEF AssetsInv, Booking
<1> QED
  BY <1>1, ShrinksOpens DEF Excused

LEMMA BookKeepsInv ==
  ASSUME AssetsInv, NEW r \in Bookers, NEW b \in Bookings, NEW day \in Days,
         NEW status \in Pending, Book(r, b, day, status)
  PROVE  AssetsInv'
<1>1. ~Closed(req[r].loaded, day) /\ req[r].pc = "loaded"
  BY DEF Book, Bookable, Closed
<1>2. ~req[r].late => Excused(b, day)
  BY <1>1, StillOpen
<1> QED
  BY <1>2, ReservedKeepsInv DEF Book, Pending, BookingStatus

LEMMA MoveKeepsInv ==
  ASSUME AssetsInv, NEW r \in Bookers, NEW b \in Bookings, NEW day \in Days,
         NEW status \in BookingStatus, Move(r, b, day, status)
  PROVE  AssetsInv'
<1>1. req[r].pc = "loaded" /\ UNCHANGED <<today, asset, book, cleared, spared>>
  BY DEF Move
<1>2. ASSUME NobodyReopens, ~req[r].late, status \in Pending
      PROVE  Excused(b, day)
  <2>1. CASE Movable(req[r].loaded, day) \/ Bookable(req[r].loaded, day)
    <3>1. ~Closed(req[r].loaded, day)
      BY <2>1 DEF Movable, Bookable, Closed
    <3> QED
      BY <1>1, <1>2, <3>1, StillOpen
  <2>2. CASE ~(Movable(req[r].loaded, day) \/ Bookable(req[r].loaded, day))
    <3>1. day = book[b].day /\ status = book[b].status
      BY <1>2, <2>2 DEF Move, Pending, Terminal
    <3> QED
      BY <1>2, <3>1 DEF AssetsInv, ClearedDaysStayClear, InStatus, Excused, Closed
  <2> QED
    BY <2>1, <2>2
<1> QED
  BY <1>1, <1>2, ReservedKeepsInv DEF Move

-----------------------------------------------------------------------------
(* The commits.                                                             *)

(* A denied booking is no longer in anybody's way.                          *)
LEMMA FewerImpacts ==
  ASSUME today' = today, NEW a,
         \A b \in Bookings : book'[b].status \in Pending => book'[b] = book[b]
  PROVE  Impact(a)' \subseteq Impact(a)
BY DEF Impact, InStatus

(* What an update announces, it denies.                                     *)
LEMMA AnnouncedIsImpact ==
  ASSUME NEW a, NEW b \in InStatus(Pending), book[b].day \in Announced(a)
  PROVE  b \in Impact(a)
<1>1. a.status = "retired" \/ a.status = "maintenance"
  BY DEF Announced
<1>2. CASE a.status = "retired"
  BY <1>2 DEF Announced, Impact
<1>3. CASE a.status = "maintenance"
  BY <1>3 DEF Announced, Impact
<1> QED
  BY <1>1, <1>2, <1>3

LEMMA CommitEditKeepsInv ==
  ASSUME AssetsInv, NEW r \in Editors, CommitEdit(r)
  PROVE  AssetsInv'
<1>1. PICK s \in Session : s = req[r]
  BY DEF AssetsInv, TypeOK, Calls
<1> DEFINE changes == s.target # s.loaded
           denies == s.kind = "update"
           last == IF denies THEN [Idle EXCEPT !.pc = "again"] ELSE Idle
<1>2. /\ s.pc = "write" /\ asset.status # "gone" /\ today' = today
      /\ asset' = IF s.target.status = "gone" THEN s.target ELSE Written(s.loaded, s.target)
      /\ book' = [b \in Bookings |-> IF b \in s.deny THEN [book[b] EXCEPT !.status = "denied"]
                                     ELSE book[b]]
      /\ req' = [c \in Calls |-> IF c = r THEN last
                   ELSE [req[c] EXCEPT !.late = @ \/ (changes /\ req[c].pc # "idle")]]
      /\ cleared' = IF ~changes THEN cleared ELSE IF denies THEN Announced(s.target) ELSE {}
      /\ spared' = IF changes THEN s.changed ELSE spared
  BY <1>1 DEF CommitEdit
<1>3. /\ s.loaded \in AssetRow /\ s.target \in AssetRow
      /\ s.loaded.status # "gone"
      /\ s.target.status = "gone" => s.target = Cleared(s.target)
      /\ denies => Impact(s.target) \subseteq s.deny \cup s.changed
  BY <1>1, <1>2 DEF AssetsInv, Editing, Session
<1>4. asset' \in AssetRow /\ GoneIsBare'
  <2>1. CASE s.target.status = "gone"
    BY <1>2, <1>3, <2>1 DEF GoneIsBare
  <2>2. CASE s.target.status # "gone"
    BY <1>2, <1>3, <2>2, WrittenRow DEF GoneIsBare, AssetsInv
  <2> QED
    BY <2>1, <2>2
<1>5. ~changes => asset' = asset /\ cleared' = cleared /\ spared' = spared
  BY <1>2, <1>3, WrittenRow DEF AssetsInv
<1>6. \A b \in Bookings : /\ book'[b] \in BookingRow
                          /\ b \in s.deny => book'[b].status \notin Pending
                          /\ b \notin s.deny => book'[b] = book[b]
  BY <1>2 DEF AssetsInv, TypeOK, BookingRow, BookingStatus, Pending
<1>7. ASSUME NEW q \in Calls, q # r
      PROVE  \E t \in Session : /\ t = req[q]
                                /\ req'[q] \in Session
                                /\ req'[q] = [t EXCEPT !.late = t.late \/ (changes /\ t.pc # "idle")]
  <2>1. req[q] \in Session
    BY DEF AssetsInv, TypeOK
  <2>2. req'[q] = [req[q] EXCEPT !.late = req[q].late \/ (changes /\ req[q].pc # "idle")]
    BY <1>2, <1>7
  <2>3. \A x \in BOOLEAN : [req[q] EXCEPT !.late = x] \in Session
    BY <2>1 DEF Session
  <2>4. (req[q].late \/ (changes /\ req[q].pc # "idle")) \in BOOLEAN
    BY <2>1 DEF Session
  <2> QED
    BY <2>1, <2>2, <2>3, <2>4
<1>8. req'[r] = last /\ last \in Session /\ last.pc \in {"idle", "again"} /\ ~last.late
  <2>1. last \in Session /\ last.pc \in {"idle", "again"} /\ ~last.late
    BY IdleType DEF Session
  <2> HIDE DEF last
  <2> QED
    BY <1>2, <2>1 DEF Calls
<1> HIDE DEF last
<1>9. TypeOK'
  <2>1. book' \in [Bookings -> BookingRow]
    BY <1>2, <1>6
  <2>2. \A q \in Calls : req'[q] \in Session
    BY <1>7, <1>8
  <2>3. req' \in [Calls -> Session]
    BY <1>2, <2>2
  <2> QED
    BY <1>2, <1>4, <2>1, <2>3 DEF AssetsInv, TypeOK
<1>10. \A a : Impact(a)' \subseteq Impact(a)
  BY <1>2, <1>6, FewerImpacts
<1>11. ASSUME NEW q \in Calls
       PROVE  Synchronising(q)' /\ (q \in Bookers => Booking(q)') /\ (q \in Editors => Editing(q)')
  <2>1. CASE q = r
    <3>1. Synchronising(q)' /\ Editing(q)'
      BY <1>8, <2>1 DEF Synchronising, Editing
    <3>2. q \notin Bookers
      BY <2>1, AssetAssumption
    <3> QED
      BY <3>1, <3>2
  <2>2. CASE q # r
    <3>1. PICK t \in Session :
             /\ t = req[q]
             /\ req'[q] = [t EXCEPT !.late = t.late \/ (changes /\ t.pc # "idle")]
      BY <1>7, <2>2
    <3> DEFINE u == [t EXCEPT !.late = t.late \/ (changes /\ t.pc # "idle")]
    <3>2. /\ u.pc = t.pc /\ u.loaded = t.loaded /\ u.target = t.target /\ u.rows = t.rows
          /\ u.kind = t.kind /\ u.deny = t.deny /\ u.changed = t.changed
          /\ ~u.late => ~t.late /\ (~changes \/ t.pc = "idle")
      BY DEF Session
    <3>3. req'[q] = u
      BY <3>1
    <3> HIDE DEF u
    <3>4. Synchronising(q)'
      BY <3>1, <3>2, <3>3 DEF AssetsInv, Synchronising
    <3>5. ASSUME q \in Editors
          PROVE  Editing(q)'
      BY <1>10, <3>1, <3>2, <3>3, <3>5 DEF AssetsInv, Editing
    <3>6. ASSUME q \in Bookers
          PROVE  Booking(q)'
      <4>1. Booking(q)
        BY <3>6 DEF AssetsInv
      <4>2. CASE u.late \/ t.pc = "idle"
        BY <3>2, <3>3, <4>2 DEF Booking
      <4>3. CASE ~u.late /\ t.pc # "idle"
        <5>1. ~t.late /\ asset' = asset /\ cleared' = cleared /\ spared' = spared
          BY <1>5, <3>2, <4>3
        <5>2. \A b, day : Excused(b, day) => Excused(b, day)'
          BY <5>1 DEF Excused, Closed
        <5> QED
          BY <3>1, <3>2, <3>3, <4>1, <5>1, <5>2 DEF Booking
      <4> QED
        BY <4>2, <4>3
    <3> QED
      BY <3>4, <3>5, <3>6
  <2> QED
    BY <2>1, <2>2
<1>12. NobodyReopens => ClearedDaysStayClear'
  <2>1. \A b \in InStatus(Pending)' : b \in InStatus(Pending) /\ b \notin s.deny /\ book'[b] = book[b]
    BY <1>6 DEF InStatus
  <2>2. CASE ~changes
    BY <1>5, <2>1, <2>2 DEF AssetsInv, ClearedDaysStayClear
  <2>3. CASE changes /\ ~denies
    BY <1>2, <2>3 DEF ClearedDaysStayClear
  <2>4. CASE changes /\ denies
    <3>1. ASSUME NEW b \in InStatus(Pending)', b \notin spared', book'[b].day \in cleared'
          PROVE  FALSE
      <4>0. b \in InStatus(Pending) /\ b \notin s.deny /\ book'[b] = book[b]
        BY <2>1, <3>1
      <4>1. cleared' = Announced(s.target) /\ book[b].day \in Announced(s.target)
        BY <1>2, <2>4, <3>1, <4>0
      <4>2. b \in Impact(s.target)
        BY <4>0, <4>1, AnnouncedIsImpact
      <4> QED
        BY <1>2, <1>3, <2>4, <3>1, <4>0, <4>2
    <3> QED
      BY <3>1 DEF ClearedDaysStayClear
  <2> QED
    BY <2>2, <2>3, <2>4
<1> QED
  BY <1>4, <1>9, <1>11, <1>12 DEF AssetsInv, Calls

(* The managers that have decided are told of the rows that changed.        *)
LEMMA Noted ==
  ASSUME TypeOK, NEW changed \in SUBSET Bookings, NEW q \in Calls
  PROVE  LET t == req[q]
             u == Note(changed)[q]
         IN  /\ u \in Session
             /\ u.pc = t.pc /\ u.loaded = t.loaded /\ u.target = t.target /\ u.rows = t.rows
             /\ u.kind = t.kind /\ u.deny = t.deny /\ u.late = t.late
             /\ q \in Editors /\ t.pc = "write" => u.changed = t.changed \cup changed
<1>1. req[q] \in Session
  BY DEF TypeOK
<1>2. Note(changed)[q] = IF q \in Editors /\ req[q].pc = "write"
                         THEN [req[q] EXCEPT !.changed = req[q].changed \cup changed] ELSE req[q]
  BY DEF Note
<1>3. req[q].changed \cup changed \in SUBSET Bookings
  BY <1>1 DEF Session
<1> QED
  BY <1>1, <1>2, <1>3 DEF Session

(* The sessions that a change of some bookings does not end.                *)
LEMMA BookingsChange ==
  ASSUME AssetsInv, NEW ids \in SUBSET Bookings, NEW q \in Calls, req'[q] = Note(ids)[q],
         today' = today, asset' = asset, cleared' = cleared, spared \subseteq spared',
         \A b \in Bookings \ ids : book'[b] = book[b]
  PROVE  Synchronising(q)' /\ (q \in Bookers => Booking(q)') /\ (q \in Editors => Editing(q)')
<1>1. PICK t \in Session : t = req[q]
  BY DEF AssetsInv, TypeOK
<1>2. PICK u : u = Note(ids)[q]
  OBVIOUS
<1>3. /\ u.pc = t.pc /\ u.loaded = t.loaded /\ u.target = t.target /\ u.rows = t.rows
      /\ u.kind = t.kind /\ u.deny = t.deny /\ u.late = t.late
      /\ q \in Editors /\ t.pc = "write" => u.changed = t.changed \cup ids
  BY <1>1, <1>2, Noted DEF AssetsInv
<1>4. req'[q] = u
  BY <1>2
<1>5. Synchronising(q)'
  BY <1>1, <1>3, <1>4 DEF AssetsInv, Synchronising
<1>6. ASSUME q \in Bookers
      PROVE  Booking(q)'
  <2>1. Booking(q)
    BY <1>6 DEF AssetsInv
  <2>2. \A b, day : Excused(b, day) => Excused(b, day)'
    BY DEF Excused, Closed
  <2> QED
    BY <1>1, <1>3, <1>4, <2>1, <2>2 DEF Booking
<1>7. ASSUME q \in Editors
      PROVE  Editing(q)'
  <2>1. Editing(q)
    BY <1>7 DEF AssetsInv
  <2>2. \A a : Impact(a)' \subseteq Impact(a) \cup ids
    BY DEF Impact, InStatus
  <2> QED
    BY <1>1, <1>3, <1>4, <1>7, <2>1, <2>2 DEF Editing
<1> QED
  BY <1>5, <1>6, <1>7

LEMMA CommitBookingKeepsInv ==
  ASSUME AssetsInv, NEW r \in Bookers, CommitBooking(r)
  PROVE  AssetsInv'
<1>1. PICK s \in Session : s = req[r]
  BY DEF AssetsInv, TypeOK, Calls
<1>2. PICK ids \in SUBSET Bookings : s.rows \in [ids -> BookingRow] /\ ids = DOMAIN s.rows
  BY DEF Session, Rows
<1>3. /\ s.pc = "write"
      /\ book' = [b \in Bookings |-> IF b \in ids THEN s.rows[b] ELSE book[b]]
      /\ req' = [Note(ids) EXCEPT ![r] = Idle]
      /\ spared' = IF s.late THEN spared \cup ids ELSE spared
      /\ UNCHANGED <<today, asset, cleared>>
  BY <1>1, <1>2 DEF CommitBooking
<1>4. r \in Calls
  BY DEF Calls
<1>5. DOMAIN Note(ids) = Calls
  BY DEF Note
<1>6. req'[r] = Idle /\ \A q \in Calls \ {r} : req'[q] = Note(ids)[q]
  BY <1>3, <1>4, <1>5
<1>7. \A q \in Calls : Note(ids)[q] \in Session
  BY Noted DEF AssetsInv
<1>8. TypeOK'
  <2>1. book' \in [Bookings -> BookingRow]
    BY <1>2, <1>3 DEF AssetsInv, TypeOK
  <2>2. \A q \in Calls : req'[q] \in Session
    BY <1>6, <1>7, IdleType
  <2>3. req' \in [Calls -> Session]
    <3>1. DOMAIN req' = Calls /\ req' = [q \in Calls |-> req'[q]]
      BY <1>3, <1>5 DEF Note
    <3> QED
      BY <2>2, <3>1
  <2> QED
    BY <1>3, <2>1, <2>3 DEF AssetsInv, TypeOK
<1>9. ASSUME NEW q \in Calls
      PROVE  Synchronising(q)' /\ (q \in Bookers => Booking(q)') /\ (q \in Editors => Editing(q)')
  <2>1. CASE q = r
    BY <1>6, <2>1, IdleSession
  <2>2. CASE q # r
    <3>1. \A b \in Bookings \ ids : book'[b] = book[b]
      BY <1>3
    <3>2. spared \subseteq spared'
      BY <1>3
    <3> QED
      BY <1>3, <1>6, <2>2, <3>1, <3>2, BookingsChange
  <2> QED
    BY <2>1, <2>2
<1>10. ASSUME NobodyReopens
       PROVE  ClearedDaysStayClear'
  <2>1. ASSUME NEW b \in Bookings, book'[b].status \in Pending, b \notin spared'
        PROVE  Excused(b, book'[b].day)
    <3>1. CASE b \in ids
      <4>1. ~s.late /\ book'[b] = s.rows[b]
        BY <1>3, <2>1, <3>1
      <4>2. Booking(r)
        BY DEF AssetsInv
      <4> QED
        BY <1>1, <1>2, <1>3, <1>10, <2>1, <3>1, <4>1, <4>2 DEF Booking
    <3>2. CASE b \notin ids
      <4>1. book'[b] = book[b]
        BY <1>3, <3>2
      <4> QED
        BY <1>10, <2>1, <4>1 DEF AssetsInv, ClearedDaysStayClear, InStatus, Excused, Closed
    <3> QED
      BY <3>1, <3>2
  <2> QED
    BY <1>3, <2>1 DEF ClearedDaysStayClear, InStatus, Excused, Closed
<1>11. GoneIsBare'
  BY <1>3 DEF AssetsInv, GoneIsBare
<1> QED
  BY <1>8, <1>9, <1>10, <1>11 DEF AssetsInv, Calls

LEMMA PatchKeepsInv ==
  ASSUME AssetsInv, NEW b \in Bookings, NEW status \in BookingStatus,
         Patch(b, status)
  PROVE  AssetsInv'
<1>1. PICK row \in BookingRow : row = book[b]
  BY DEF AssetsInv, TypeOK
<1> DEFINE new == [row EXCEPT !.status = status]
<1>2. /\ book' = [book EXCEPT ![b] = new] /\ req' = Note({b})
      /\ UNCHANGED <<today, asset, cleared, spared>>
      /\ <<row.status, status>> \in Transitions
  BY <1>1 DEF Patch, AssetsInv, TypeOK
<1>3. new \in BookingRow /\ new.status = status /\ new.day = row.day
  BY DEF BookingRow
<1>4. NobodyReopens /\ status \in Pending => row.status \in Pending
  BY <1>2 DEF NobodyReopens
<1> HIDE DEF new
<1>5. book'[b] = new /\ \A c \in Bookings \ {b} : book'[c] = book[c]
  BY <1>2 DEF AssetsInv, TypeOK
<1>6. \A q \in Calls : req'[q] = Note({b})[q] /\ req'[q] \in Session
  BY <1>2, Noted DEF AssetsInv
<1>7. TypeOK'
  <2>1. book' \in [Bookings -> BookingRow]
    BY <1>2, <1>3 DEF AssetsInv, TypeOK
  <2>2. req' = [q \in Calls |-> req'[q]]
    BY <1>2 DEF Note
  <2>3. req' \in [Calls -> Session]
    BY <1>6, <2>2
  <2> QED
    BY <1>2, <2>1, <2>3 DEF AssetsInv, TypeOK
<1>8. ASSUME NEW q \in Calls
      PROVE  Synchronising(q)' /\ (q \in Bookers => Booking(q)') /\ (q \in Editors => Editing(q)')
  BY <1>2, <1>5, <1>6, BookingsChange
<1>9. ASSUME NobodyReopens
      PROVE  ClearedDaysStayClear'
  <2>1. \A c \in InStatus(Pending)' : c \in InStatus(Pending) /\ book'[c].day = book[c].day
    BY <1>1, <1>3, <1>4, <1>5, <1>9 DEF InStatus
  <2> QED
    BY <1>2, <1>9, <2>1 DEF AssetsInv, ClearedDaysStayClear
<1>10. GoneIsBare'
  BY <1>2 DEF AssetsInv, GoneIsBare
<1> QED
  BY <1>7, <1>8, <1>9, <1>10 DEF AssetsInv, Calls

-----------------------------------------------------------------------------
(* Theorems.                                                                *)

LEMMA InitEstablishesInv ==
  ASSUME Init
  PROVE  AssetsInv
<1>1. \A q \in Calls : req[q] = Idle
  BY DEF Init
<1>2. asset \in AssetRow /\ asset.status # "gone"
  <2>1. PICK status \in Statuses, w \in Windows \cup {NoWindow} : CreateAsset(status, w)
    BY DEF Init
  <2>2. w \in (Days \cup {0}) \X (Days \cup {0})
    BY DEF Windows, NoWindow
  <2>3. asset = [status |-> status, from |-> w[1], to |-> w[2]]
    BY <2>1 DEF CreateAsset, WithWindow
  <2> QED
    BY <2>2, <2>3 DEF AssetRow, Statuses
<1>3. TypeOK
  <2>1. today \in Days
    BY AssetAssumption DEF Init, Days
  <2>2. book \in [Bookings -> BookingRow]
    BY DEF Init, BookingRow
  <2>3. req \in [Calls -> Session]
    BY IdleType DEF Init
  <2> QED
    BY <1>2, <2>1, <2>2, <2>3 DEF TypeOK
<1>4. \A q \in Calls : Synchronising(q) /\ Booking(q) /\ Editing(q)
  BY <1>1, IdleType DEF Synchronising, Booking, Editing
<1>5. GoneIsBare /\ ClearedDaysStayClear
  BY <1>2 DEF GoneIsBare, ClearedDaysStayClear, Init
<1> QED
  BY <1>3, <1>4, <1>5 DEF AssetsInv, Calls

(* The sessions of the asset's managers and of those who book it keep the   *)
(* invariant, however they interleave: what a call has read is out of date  *)
(* only by synchronisations, or the call is known to be late.               *)
THEOREM AssetsConsistent == Spec => []AssetsInv
<1>1. Init => AssetsInv
  BY InitEstablishesInv
<1>2. AssetsInv /\ [Next]_vars => AssetsInv'
  <2> SUFFICES ASSUME AssetsInv, [Next]_vars
               PROVE  AssetsInv'
    OBVIOUS
  <2>1. CASE Tick
    BY <2>1, TickKeepsInv
  <2>2. CASE ListAssets
    BY <2>2, ListKeepsInv
  <2>3. CASE \E b \in Bookings, status \in BookingStatus : Patch(b, status)
    BY <2>3, PatchKeepsInv
  <2>4. ASSUME NEW r \in Calls, \/ \E kind \in Kind(r) : Load(r, kind)
                                \/ CommitSync(r) \/ Vanished(r) \/ Refuse(r)
        PROVE  AssetsInv'
    <3>1. CASE \E kind \in Kind(r) : Load(r, kind)
      BY <3>1, LoadKeepsInv
    <3>2. CASE CommitSync(r)
      BY <3>2, CommitSyncKeepsInv
    <3>3. CASE Vanished(r)
      BY <3>3, EndKeepsInv DEF Vanished
    <3>4. CASE Refuse(r)
      BY <3>4, EndKeepsInv DEF Refuse
    <3> QED
      BY <2>4, <3>1, <3>2, <3>3, <3>4
  <2>5. ASSUME NEW r \in Editors, Edit(r)
        PROVE  AssetsInv'
    <3>1. ASSUME NEW status \in Statuses \cup {"unset"}, NEW w \in Windows \cup {NoWindow, Unset},
                 NEW confirm \in BOOLEAN, Update(r, status, w, confirm)
          PROVE  AssetsInv'
      BY <3>1, UpdateKeepsInv
    <3>2. ASSUME NEW status \in Statuses \cup {"unset"}, NEW force \in BOOLEAN,
                 Transfer(r, status, force)
          PROVE  AssetsInv'
      BY <3>2, TransferKeepsInv
    <3>3. CASE Delete(r)
      BY <3>3, DeleteKeepsInv
    <3>4. CASE CommitEdit(r)
      BY <3>4, CommitEditKeepsInv
    <3> QED
      BY <2>5, <3>1, <3>2, <3>3, <3>4 DEF Edit
  <2>6. ASSUME NEW r \in Bookers, Reserve(r)
        PROVE  AssetsInv'
    <3>1. ASSUME NEW b \in Bookings, NEW day \in Days, NEW status \in Pending,
                 Book(r, b, day, status)
          PROVE  AssetsInv'
      BY <3>1, BookKeepsInv
    <3>2. ASSUME NEW b \in Bookings, NEW day \in Days, NEW status \in BookingStatus,
                 Move(r, b, day, status)
          PROVE  AssetsInv'
      BY <3>2, MoveKeepsInv
    <3>3. CASE CommitBooking(r)
      BY <3>3, CommitBookingKeepsInv
    <3> QED
      BY <2>6, <3>1, <3>2, <3>3 DEF Reserve
  <2>7. CASE UNCHANGED vars
    <3>1. asset \in AssetRow /\ today \in Days
      BY DEF AssetsInv, TypeOK
    <3>2. GoneIsBare' /\ Shrinks(asset, asset) /\ today >= today
      BY <2>7, <3>1, ShrinksReflexive DEF AssetsInv, GoneIsBare, Days, vars
    <3> QED
      BY <2>7, <3>1, <3>2, NobodyActs DEF vars
  <2> QED
    BY <2>1, <2>2, <2>3, <2>4, <2>5, <2>6, <2>7 DEF Next
<1> QED
  BY <1>1, <1>2, PTL DEF Spec

(* What a PUT that closes days has cleared stays clear, but for the         *)
(* bookings of calls that overlapped it (crud/asset.py, update_asset).      *)
THEOREM ClearedDaysAreKept ==
  ASSUME NobodyReopens
  PROVE  Spec => []ClearedDaysStayClear
<1>1. AssetsInv => ClearedDaysStayClear
  BY DEF AssetsInv
<1> QED
  BY <1>1, AssetsConsistent, PTL

-----------------------------------------------------------------------------
(* The checks of an asset agree.                                            *)

(* Row by row in Python, or by four UPDATEs: the same.                      *)
LEMMA BulkIsSynced ==
  ASSUME NEW a \in AssetRow, NEW day \in Days,
         a.status = "gone" => a = Cleared(a), HasWindow(a) \/ a = Cleared(a)
  PROVE  BulkSynced(a, day) = Synced(a, day)
<1> DEFINE free == [a EXCEPT !.status = "available"]
           shut == [a EXCEPT !.status = "maintenance"]
<1>1. day \in Int /\ day > 0 /\ a.from \in Int /\ a.to \in Int
  BY DEF AssetRow, Days
<1>2. /\ free \in AssetRow /\ free.status = "available" /\ free.from = a.from /\ free.to = a.to
      /\ shut \in AssetRow /\ shut.status = "maintenance" /\ shut.from = a.from /\ shut.to = a.to
  BY StatusRow DEF Statuses
<1>3. a.status = "available" => a = free
  BY DEF AssetRow
<1>4. [shut EXCEPT !.status = "available"] = free
  BY DEF AssetRow
<1>5. /\ Cleared(free) \in AssetRow /\ Cleared(free).status = "available"
      /\ Cleared(free).from = 0 /\ Cleared(free).to = 0
  BY <1>2, ClearedRow
<1>6. CASE ~HasWindow(a)
  <2>1. a.from = 0 /\ a.to = 0
    BY <1>6, BareRows
  <2>2. Synced(a, day) = a
    BY <1>6 DEF Synced
  <2>3. Activate(a, day) = a /\ Expire(a, day) = a /\ Clean(a, day) = a /\ Unstick(a, day) = a
    BY <1>1, <2>1 DEF Activate, InWindow, HasWindow, Expire, Clean, Unstick
  <2> QED
    BY <2>2, <2>3 DEF BulkSynced
<1>7. CASE HasWindow(a) /\ a.status = "retired"
  BY <1>7 DEF BulkSynced, Synced, Activate, Expire, Clean, Unstick
<1>8. CASE HasWindow(a) /\ a.status \in {"available", "maintenance"}
  <2>1. a.from # 0 /\ a.to # 0
    BY <1>8 DEF HasWindow
  <2>2. CASE InWindow(a, day)
    <3>1. a.from <= day /\ day <= a.to
      BY <2>2 DEF InWindow
    <3>2. Synced(a, day) = shut /\ Activate(a, day) = shut
      BY <1>8, <2>2 DEF Synced, Activate
    <3> HIDE DEF shut, free
    <3>3. Expire(shut, day) = shut /\ Clean(shut, day) = shut /\ Unstick(shut, day) = shut
      BY <1>1, <1>2, <3>1 DEF Expire, Clean, Unstick
    <3> QED
      BY <3>2, <3>3 DEF BulkSynced
  <2>3. CASE ~InWindow(a, day) /\ day > a.to
    <3>1. Synced(a, day) = Cleared(free) /\ Activate(a, day) = a
      BY <1>8, <2>3 DEF Synced, Activate
    <3>2. CASE a.status = "maintenance"
      <4>1. Expire(a, day) = Cleared(free)
        BY <1>1, <2>1, <2>3, <3>2 DEF Expire
      <4> HIDE DEF free
      <4>2. Clean(Cleared(free), day) = Cleared(free) /\ Unstick(Cleared(free), day) = Cleared(free)
        BY <1>5 DEF Clean, Unstick
      <4> QED
        BY <3>1, <4>1, <4>2 DEF BulkSynced
    <3>3. CASE a.status = "available"
      <4>1. Expire(a, day) = a
        BY <3>3 DEF Expire
      <4>2. Clean(a, day) = Cleared(free)
        BY <1>1, <1>3, <2>1, <2>3, <3>3 DEF Clean
      <4> HIDE DEF free
      <4>3. Unstick(Cleared(free), day) = Cleared(free)
        BY <1>5 DEF Unstick
      <4> QED
        BY <3>1, <4>1, <4>2, <4>3 DEF BulkSynced
    <3> QED
      BY <1>8, <3>2, <3>3
  <2>4. CASE ~InWindow(a, day) /\ ~(day > a.to)
    <3>1. Synced(a, day) = free /\ Activate(a, day) = a
      BY <1>8, <2>4 DEF Synced, Activate
    <3>2. Expire(a, day) = a /\ Clean(a, day) = a
      BY <1>1, <2>4 DEF Expire, Clean
    <3>3. a.from > day
      BY <1>1, <1>8, <2>4 DEF InWindow
    <3>4. Unstick(a, day) = free
      BY <1>3, <1>8, <3>3 DEF Unstick
    <3> QED
      BY <3>1, <3>2, <3>4 DEF BulkSynced
  <2> QED
    BY <2>2, <2>3, <2>4
<1>9. a.status = "gone" => ~HasWindow(a)
  BY BareRows DEF HasWindow
<1> QED
  BY <1>6, <1>7, <1>8, <1>9 DEF AssetRow, Statuses

(* A row that was synchronised today and is free is not changed again.      *)
LEMMA SyncedTwice ==
  ASSUME NEW a \in AssetRow, NEW day \in Days,
         Synced(a, day).status \notin {"maintenance", "retired"}
  PROVE  Synced(Synced(a, day), day) = Synced(a, day)
<1> DEFINE free == [a EXCEPT !.status = "available"]
<1>1. free \in AssetRow /\ free.status = "available" /\ free.from = a.from /\ free.to = a.to
  BY StatusRow DEF Statuses
<1>2. CASE ~HasWindow(a) \/ a.status = "retired"
  BY <1>2 DEF Synced
<1>3. CASE ~(~HasWindow(a) \/ a.status = "retired")
  <2>1. ~InWindow(a, day)
    BY <1>3 DEF Synced, AssetRow
  <2>2. CASE day > a.to
    <3>1. Synced(a, day) = Cleared(free)
      BY <1>3, <2>1, <2>2 DEF Synced
    <3> HIDE DEF free
    <3>2. ~HasWindow(Cleared(free))
      BY <1>1, ClearedRow DEF HasWindow
    <3> QED
      BY <3>1, <3>2 DEF Synced
  <2>3. CASE ~(day > a.to)
    <3>1. Synced(a, day) = free
      BY <1>3, <2>1, <2>3 DEF Synced
    <3>2. [free EXCEPT !.status = "available"] = free
      BY <1>1 DEF AssetRow
    <3> HIDE DEF free
    <3>3. HasWindow(free) /\ ~InWindow(free, day) /\ ~(day > free.to)
      BY <1>1, <1>3, <2>1, <2>3 DEF HasWindow, InWindow
    <3>4. Synced(free, day) = free
      BY <1>1, <3>2, <3>3 DEF Synced
    <3> QED
      BY <3>1, <3>4
  <2> QED
    BY <2>2, <2>3
<1> QED
  BY <1>2, <1>3

(* What is checked of an asset in four places is the same in all of them    *)
(* (crud/asset.py and crud/slot_booking.py).                                *)
THEOREM ChecksAlwaysAgree == Spec => []ChecksAgree
<1>1. AssetsInv => ChecksAgree
  <2> DEFINE row == Synced(asset, today)
  <2> SUFFICES ASSUME AssetsInv, HasWindow(asset) \/ asset = Cleared(asset)
               PROVE  /\ BulkSynced(asset, today) = row
                      /\ \A day \in Days :
                           /\ Listed(asset, day) => Bookable(row, day)
                           /\ Bookable(row, day) => Available(row, day) /\ Movable(row, day)
    BY DEF ChecksAgree
  <2>1. asset \in AssetRow /\ today \in Days
    BY DEF AssetsInv, TypeOK
  <2>2. BulkSynced(asset, today) = row
    BY <2>1, BulkIsSynced DEF AssetsInv, GoneIsBare
  <2>3. row.status \notin {"maintenance", "retired"} => Synced(row, today) = row
    BY <2>1, SyncedTwice
  <2> HIDE DEF row
  <2>4. ASSUME NEW day \in Days
        PROVE  /\ Listed(asset, day) => Bookable(row, day)
               /\ Bookable(row, day) => Available(row, day) /\ Movable(row, day)
    BY <2>2, <2>3 DEF Listed, Bookable, Available, Movable
  <2> QED
    BY <2>2, <2>4
<1> QED
  BY <1>1, AssetsConsistent, PTL
=============================================================================
