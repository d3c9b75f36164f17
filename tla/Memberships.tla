------------------------------ MODULE Memberships ------------------------------
(***************************************************************************)
(* One project, its managers and subcontractors, the non-working day its   *)
(* managers edit and the work booked for its subcontractors:               *)
(* crud/site_project.py and api/v1/site_project.py, the assignments and    *)
(* deletions of crud/subcontractor.py and api/v1/subcontractor.py, roles   *)
(* (api/v1/users.py), and the calls of crud/slot_booking.py as far as they *)
(* name a company or open and close work.                                  *)
(*                                                                         *)
(* The two association tables have no key: a pair may be inserted twice,   *)
(* and a DELETE that meets another number of rows than the pairs it was    *)
(* asked for fails the call.                                               *)
(***************************************************************************)
EXTENDS Office, FiniteSets, Sequences, FiniteSetsExt

CONSTANTS
    Users, Companies,   \* Companies: the subcontractors
    Roles0, Rows0,      \* the first role of each user and the members of the project there is
    Lists,              \* what a call may name as the members of a project
    Jobs, Work0,        \* bookings, and what they may be at first in that project
    Labels, Missing

WorkRow == [company : Companies \cup {Missing}, status : {"pending", "confirmed", "closed"}]

ASSUME MembershipsAssumption ==
    /\ IsFiniteSet(Users) /\ Users \cap Companies = {}
    /\ Roles0 \in [Users -> {"manager", "admin", "tv"}]
    /\ Rows0 \in [Users \cup Companies -> Nat]
    /\ Lists \subseteq SUBSET (Users \cup Companies)
    /\ Work0 \subseteq [Jobs -> WorkRow \cup {Missing}]
    /\ Missing \notin {"active", "cancelled"} /\ Missing \notin WorkRow

VARIABLES
    status,    \* Missing, "active" or "cancelled"
    rows,      \* manager_site_project and subcontractor_site_project
    role,      \* of each user
    live,      \* users and companies that are active
    gone,      \* companies deleted for good
    day,       \* the label of a date, Missing if it is a working day
    work       \* bookings: Missing or [company, status], where no company is Missing

memberships == <<status, rows, role, live, gone, day, work>>

Members == Users \cup Companies
Manager == {"manager", "admin"}

MembershipsInit ==
    /\ \/ status = Missing /\ rows = [x \in Members |-> 0] /\ work = [j \in Jobs |-> Missing]
       \/ status = "active" /\ rows = Rows0 /\ work \in Work0
    /\ day = Missing
    /\ role = Roles0
    /\ live = Members /\ gone = {}

Listed == {x \in Members : rows[x] > 0}

Managing == {u \in Users : rows[u] > 0 /\ role[u] \in Manager}

(* count_project_managers *)
(* Faulty variant: a display counts as a manager. *)
CountedUsers == Listed \cap Users
Counted == Managing

(* check_project_access with require_manager; require_lead, where any of    *)
(* the managers may be the first row.                                        *)
MayManage(u) == status # Missing /\ u \in live /\ (role[u] = "admin" \/ u \in Managing)
Managed == \E u \in Users : MayManage(u)

-----------------------------------------------------------------------------
(* create_project: the project with the managers it names, or with its      *)
(* creator, in a second transaction.                                         *)
Create(s) ==
    \E u \in Users, M \in Lists :
        /\ status = Missing
        /\ u \in live /\ role[u] \in Manager
        /\ M \subseteq live
        /\ status' = "active"
        /\ rows' = [x \in Members |-> IF x \in M THEN 1 ELSE 0]
        /\ IF M \cap Users = {} THEN Begins(s, [op |-> "join", at |-> "read", new |-> {u}]) ELSE Answers(s)
        /\ UNCHANGED <<role, live, gone, day, work>>

Archive(s) ==
    /\ Managed
    /\ status' = "cancelled"
    /\ Answers(s)
    /\ UNCHANGED <<rows, role, live, gone, day, work>>

-----------------------------------------------------------------------------
(* What a commit writes of a list that was read as old and is to be new:    *)
(* the pairs that left it and the pairs that came.                           *)
Deletes(T, c) == (c.old \ c.new) \cap T
Matched(T, c) == MapThenSumSet(LAMBDA x : rows[x], Deletes(T, c)) = Cardinality(Deletes(T, c))

Applied(c) ==
    [x \in Members |-> IF x \in c.old \ c.new THEN 0
                       ELSE IF x \in c.new \ c.old THEN rows[x] + 1 ELSE rows[x]]

CommitLists(s) ==
    LET c == call[s] IN
    /\ rows' = IF Matched(Users, c) /\ Matched(Companies, c) /\ c.new \cap gone = {}
               THEN Applied(c) ELSE rows
    /\ Ends(s)
    /\ UNCHANGED <<status, role, live, gone, day, work>>

Change(op, new) ==
    [op |-> op, at |-> "commit", old |-> Listed, new |-> new, managers |-> Managing]

(* update_project: the lists replace the ones it reads, and name anybody.   *)
ReadLists(s) ==
    /\ Managed
    /\ \E M \in Lists : M \cap gone = {} /\ Begins(s, Change("replace", M))
    /\ UNCHANGED memberships

Replace(s) == At(s, "replace", "commit") /\ CommitLists(s)

(* add_manager; add_subcontractor and assign_subcontractor_to_project, of   *)
(* which the second takes companies that are not active.                    *)
CheckNew(s) ==
    \E x \in Members \ (gone \cup Listed) :
        /\ Managed
        /\ x \in Users => x \in live
        /\ Begins(s, Change("add", Listed \cup {x}))
        /\ UNCHANGED memberships

Add(s) == At(s, "add", "commit") /\ CommitLists(s)

(* The creator joins, unless it finds itself named. *)
Join(s) ==
    /\ At(s, "join", "read")
    /\ call' = [call EXCEPT ![s] = IF @.new \subseteq Listed THEN Idle ELSE Change("add", Listed \cup @.new)]
    /\ UNCHANGED <<calls, memberships>>

(* remove_manager: at least two managers, and a lead does not remove itself. *)
CheckManager(s) ==
    \E u \in Users, t \in Listed \cap Users :
        /\ MayManage(u)
        /\ Cardinality(Counted) > 1
        /\ u = t => role[u] = "admin"
        /\ Begins(s, Change("remove", Listed \ {t}))
        /\ UNCHANGED memberships

CheckCompany(s) ==
    \E t \in Listed \cap Companies :
        /\ Managed \/ \E u \in live \cap Users : role[u] = "manager"
        /\ Begins(s, Change("remove", Listed \ {t}))
        /\ UNCHANGED memberships

Remove(s) == At(s, "remove", "commit") /\ CommitLists(s)

-----------------------------------------------------------------------------
(* update_user_by_admin; deactivating and activating a subcontractor.       *)
SetRole(s) ==
    \E u \in Users, r \in {"manager", "admin", "tv"} :
        /\ \E a \in live \cap Users : role[a] = "admin"
        /\ r # role[u]
        /\ role' = [role EXCEPT ![u] = r]
        /\ Answers(s)
        /\ UNCHANGED <<status, rows, live, gone, day, work>>

SetActive(s) ==
    \E x \in Members \ gone :
        /\ \E a \in live \cap Users : role[a] \in (IF x \in Users THEN {"admin"} ELSE Manager)
        /\ live' = IF x \in live THEN live \ {x} ELSE live \cup {x}
        /\ Answers(s)
        /\ UNCHANGED <<status, rows, role, gone, day, work>>

-----------------------------------------------------------------------------
(* _resolve_booking_actor: the company is assigned to the project, which    *)
(* has a member to answer for the booking.  A manager may name no company.   *)
CheckMembers(s) ==
    \E j \in Jobs, x \in (Listed \cap Companies) \cup {Missing}, st \in {"pending", "confirmed"} :
        /\ Listed \cap Users # {}
        /\ IF st = "pending" THEN x \in live ELSE Managed
        /\ work[j] = Missing
        /\ \A t \in Sessions : call[t].op = "book" => call[t].job # j
        /\ Begins(s, [op |-> "book", at |-> "commit", job |-> j, new |-> [company |-> x, status |-> st]])
        /\ UNCHANGED memberships

Book(s) ==
    /\ At(s, "book", "commit")
    /\ work' = IF call[s].new.company \in gone THEN work ELSE [work EXCEPT ![call[s].job] = call[s].new]
    /\ Ends(s)
    /\ UNCHANGED <<status, rows, role, live, gone, day>>

(* update_booking, update_booking_status, delete_booking: by its manager,   *)
(* its company or somebody who manages the project.  What became of the     *)
(* booking since it was read is not looked at (the locks of a status change *)
(* are about the slot); a commit writes the columns the call changed.        *)
ReadWork(s) ==
    \E j \in Jobs, x \in Listed \cap Companies, st \in {"pending", "confirmed", "closed"} :
        /\ work[j] # Missing
        /\ live # {}
        /\ \E new \in {[work[j] EXCEPT !.status = st], [company |-> x, status |-> st]} :
               Begins(s, [op |-> "edit", at |-> "commit", job |-> j, old |-> work[j], new |-> new])
        /\ UNCHANGED memberships

(* Faulty variant: the row is written as it was read. *)
WholeRow(c) == c.new
Edited(c) ==
    [company |-> IF c.new.company = c.old.company THEN work[c.job].company ELSE c.new.company,
     status |-> IF c.new.status = c.old.status THEN work[c.job].status ELSE c.new.status]

Edit(s) ==
    /\ At(s, "edit", "commit")
    /\ LET c == call[s]
       IN work' = IF c.new.company # c.old.company /\ c.new.company \in gone THEN work
                  ELSE [work EXCEPT ![c.job] = Edited(c)]
    /\ Ends(s)
    /\ UNCHANGED <<status, rows, role, live, gone, day>>

(* bulk_reschedule_bookings: reads the project's list, then locks the       *)
(* booking and takes it as it is.                                            *)
CheckBulk(s) ==
    \E j \in Jobs, x \in Listed \cap Companies :
        /\ Managed
        /\ work[j] # Missing
        /\ Begins(s, [op |-> "bulk", at |-> "commit", job |-> j, who |-> x])
        /\ UNCHANGED memberships

Reschedule(s) ==
    /\ At(s, "bulk", "commit")
    /\ LET c == call[s]
       IN work' = IF work[c.job].status = "closed" \/ c.who \in gone THEN work
                  ELSE [work EXCEPT ![c.job].company = c.who]
    /\ Ends(s)
    /\ UNCHANGED <<status, rows, role, live, gone, day>>

-----------------------------------------------------------------------------
(* permanently_delete_subcontractor: counts the confirmed bookings; gathers *)
(* what refers to the company; deletes its assignment and, by their keys,   *)
(* takes its name off the bookings gathered.  A reference that came or went *)
(* meanwhile fails it.                                                       *)
WorkOf(x) == {j \in Jobs : work[j] # Missing /\ work[j].company = x}
ConfirmedFor(x) == {j \in WorkOf(x) : work[j].status = "confirmed"}

CountWork(s) ==
    \E x \in Companies \ gone :
        /\ \E a \in live \cap Users : role[a] = "admin"
        /\ ConfirmedFor(x) = {}
        /\ Begins(s, [op |-> "delete", at |-> "gather", who |-> x, saw |-> work, got |-> {}, listed |-> FALSE])
        /\ UNCHANGED memberships

Gather(s) ==
    /\ At(s, "delete", "gather")
    /\ LET x == call[s].who
       IN call' = [call EXCEPT ![s] =
              IF x \in gone THEN Idle
              ELSE [@ EXCEPT !.at = "commit", !.got = WorkOf(x), !.listed = rows[x] > 0]]
    /\ UNCHANGED <<calls, memberships>>

Delete(s) ==
    /\ At(s, "delete", "commit")
    /\ LET c == call[s] IN
       IF rows[c.who] # (IF c.listed THEN 1 ELSE 0) \/ ~WorkOf(c.who) \subseteq c.got
       THEN UNCHANGED memberships
       ELSE /\ gone' = gone \cup {c.who}
            /\ live' = live \ {c.who}
            /\ rows' = [rows EXCEPT ![c.who] = 0]
            /\ work' = [j \in Jobs |-> IF j \in c.got THEN [work[j] EXCEPT !.company = Missing] ELSE work[j]]
            /\ UNCHANGED <<status, role, day>>
    /\ Ends(s)

-----------------------------------------------------------------------------
(* upsert_project_non_working_day: an INSERT that clashes becomes an update, *)
(* an update of a row that is gone fails.                                    *)
ReadDay(s) ==
    \E l \in Labels :
        /\ Managed
        /\ Begins(s, [op |-> "day", at |-> "commit", old |-> day, new |-> l])
        /\ UNCHANGED memberships

WriteDay(s) ==
    /\ At(s, "day", "commit")
    /\ LET c == call[s]
       IN day' = IF c.old # Missing /\ (day = Missing \/ c.old = c.new) THEN day ELSE c.new
    /\ Ends(s)
    /\ UNCHANGED <<status, rows, role, live, gone, work>>

DeleteDay(s) ==
    /\ Managed
    /\ day # Missing
    /\ day' = Missing
    /\ Answers(s)
    /\ UNCHANGED <<status, rows, role, live, gone, work>>

MembershipsNext ==
    \E s \in Sessions :
        \/ Create(s) \/ Join(s) \/ Archive(s)
        \/ ReadLists(s) \/ Replace(s)
        \/ CheckNew(s) \/ Add(s)
        \/ CheckManager(s) \/ CheckCompany(s) \/ Remove(s)
        \/ SetRole(s) \/ SetActive(s)
        \/ CheckMembers(s) \/ Book(s) \/ ReadWork(s) \/ Edit(s) \/ CheckBulk(s) \/ Reschedule(s)
        \/ CountWork(s) \/ Gather(s) \/ Delete(s)
        \/ ReadDay(s) \/ WriteDay(s) \/ DeleteDay(s)

MembershipsSpec == OfficeInit /\ MembershipsInit /\ [][MembershipsNext]_<<office, memberships>>

-----------------------------------------------------------------------------
HasManager == Managing # {}

(* A project that has a manager keeps one: it loses the last one only to an *)
(* administrator who changes a role, to a list that names none, or to a     *)
(* removal that was checked before another call changed the managers.       *)
ManagersStay ==
    [][HasManager /\ ~HasManager' =>
          \/ role' # role
          \/ \E s \in Sessions :
               \/ Replace(s)
               \/ Remove(s) /\ call[s].managers # Managing]_<<office, memberships>>

(* Confirmed work changes its company only to one that exists, and loses it *)
(* only to a deletion that was overtaken: since the deletion counted, the   *)
(* booking was confirmed or came to the company; or, since it gathered,     *)
(* the booking was given to another company.                                 *)
WorkKeepsCompany ==
    [][\A j \in Jobs :
          /\ work[j] # Missing /\ work[j].status = "confirmed" /\ work[j].company # Missing
          /\ work'[j].company # work[j].company
          => \E s \in Sessions :
               \/ (Edit(s) \/ Reschedule(s)) /\ work'[j].company \in Companies \ gone
               \/ Delete(s) /\ (call[s].saw[j] # work[j] \/ call[s].who # work[j].company)
      ]_<<office, memberships>>
================================================================================
