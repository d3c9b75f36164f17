----------------------------- MODULE ItemIdentity -----------------------------
(***************************************************************************)
(* Items, their aliases, their classifications and their requirement sets: *)
(* services/identity_service.py, the classifications of                    *)
(* services/classification_service.py, services/item_requirements_service  *)
(* and the calls of api/v1/items.py and of an upload on them.               *)
(*                                                                         *)
(* A call is a transaction of some session: the statements that read what  *)
(* others write, wait for their locks or commit are steps of their own.    *)
(* A lock is <<resource, mode>>; two locks of a resource conflict unless   *)
(* both are shared, an INSERT shares the row its foreign key names, and a  *)
(* unique index lets an INSERT wait for the uncommitted one it clashes     *)
(* with.  A statement that closes a circle of waits may be cancelled.      *)
(***************************************************************************)
EXTENDS Office, Integers, FiniteSets, Sequences

CONSTANTS
    Items, Names, Scopes,   \* Scopes: the global one and the projects
    Orders,                 \* the names of an upload, each where it comes first
    Seed,                   \* the aliases there are at first
    Learned                 \* the classifications there may be at first

ASSUME ItemAssumption ==
    /\ None \notin Items
    /\ Seed \in [Names -> Items \cup {None}]
    /\ Learned \subseteq SUBSET (Items \X Scopes)
    /\ \A o \in Orders :
         /\ o \in Seq(Names) \ {<<>>}
         /\ \A a, b \in 1..Len(o) : o[a] = o[b] => a = b

VARIABLES
    into,        \* merged_into_item_id, an item itself while it is active
    alias,       \* item_aliases
    class,       \* the active classifications, as <<item, scope>>
    versions,    \* the number of requirement sets of an item
    activities   \* <<name, item>> of the activities that were imported

vars == <<into, alias, class, versions, activities, office>>

Busy(s) == call[s].op # "none"

Canonical(i) ==
    LET end[j \in Items] == IF into[j] = j THEN j ELSE end[into[j]] IN end[i]

Active(i) == into[i] = i
Rows(i) == {x \in class : x[1] = i}

Pending == UNION {call[s].pending : s \in {t \in Sessions : Busy(t)}}
Known == {alias[n] : n \in Names} \cup {p[2] : p \in Pending}

-----------------------------------------------------------------------------
(* Locks.                                                                   *)
Update(r) == <<r, "update">>
Share(r) == <<r, "share">>
Conflict(a, b) == a[1] = b[1] /\ (a[2] = "update" \/ b[2] = "update")

(* The rows merge_items locks: both, in one query.                          *)
Merging(c) == {Update(<<"item", c.item>>), Update(<<"item", c.other>>)}

(* What the next statement of a call must lock. *)
Needs(c) ==
    CASE c.op = "upload" /\ c.at = "insert" -> {Update(<<"alias", Head(c.names)>>)}
      [] c.op = "upload" /\ c.at = "commit" -> {Share(<<"item", r[2]>>) : r \in c.resolved}
      [] c.op = "alias" /\ c.at = "insert" ->
           {Update(<<"alias", Head(c.names)>>), Share(<<"item", c.item>>)}
      [] c.op = "merge" /\ c.at = "lock" -> Merging(c)
      [] c.op = "merge" /\ c.at = "source" -> {Update(<<"class", r>>) : r \in Rows(c.item)}
      [] c.op = "merge" /\ c.at = "target" -> {Update(<<"class", r>>) : r \in Rows(c.other)}
      [] c.op = "override" /\ c.at = "lock" -> {Update(<<"class", r>>) : r \in Rows(c.item)}
      [] c.op = "override" /\ c.at = "insert" ->
           {Share(<<"item", c.item>>), Update(<<"class", <<c.item, c.scope>>>>)}
      [] c.op = "require" /\ c.at = "lock" -> {Update(<<"item", c.item>>)}
      [] OTHER -> {}

Blocks(t, s) ==
    /\ t # s /\ Busy(t) /\ Busy(s)
    /\ \E a \in Needs(call[s]), b \in call[t].locks : Conflict(a, b)
Free(s) == \A t \in Sessions : ~Blocks(t, s)

(* The sessions that wait for one another. *)
Deadlocked(s) ==
    \E C \in SUBSET Sessions :
        s \in C /\ \A t \in C : \E x \in C : Blocks(x, t)

(* A step of a call that takes the locks it needs and goes on. *)
Goes(s, c) == call' = [call EXCEPT ![s] = [c EXCEPT !.locks = @ \cup Needs(call[s])]]
Table == <<into, alias, class, versions, activities>>

-----------------------------------------------------------------------------
Init ==
    /\ into = [i \in Items |-> i]
    /\ alias = Seed
    /\ class \in Learned
    /\ versions = [i \in Items |-> 0]
    /\ activities = {}
    /\ OfficeInit

Begin(s, op, at, names, i, j, scope) ==
    /\ ~Busy(s) /\ calls < MaxCalls
    /\ call' = [call EXCEPT ![s] =
         [op |-> op, at |-> at, names |-> names, item |-> i, other |-> j, scope |-> scope,
          locks |-> {}, pending |-> {}, resolved |-> {}, skip |-> FALSE]]
    /\ calls' = calls + 1
    /\ UNCHANGED Table

Items0 == {alias[n] : n \in Names} \ {None}

StartUpload(s) == \E o \in Orders : Begin(s, "upload", "look", o, None, None, "none")
StartAlias(s) == \E i \in Items0, n \in Names : Begin(s, "alias", "look", <<n>>, i, None, "none")
StartMerge(s) == \E i, j \in Items0 : i # j /\ Begin(s, "merge", "lock", <<>>, i, j, "none")
StartOverride(s) == \E i \in Items0, x \in Scopes : Begin(s, "override", "look", <<>>, i, None, x)
StartRequire(s) == \E i \in Items0 : Begin(s, "require", "lock", <<>>, i, None, "none")

-----------------------------------------------------------------------------
(* resolve_or_create_item for each name of an upload in turn.               *)
Resolved(c, i) ==
    [c EXCEPT !.resolved = @ \cup {<<Head(c.names), i>>}, !.names = Tail(@),
              !.at = IF Len(c.names) = 1 THEN "commit" ELSE "look"]

LookUp(s) ==
    /\ At(s, "upload", "look")
    /\ LET c == call[s] IN
       call' = [call EXCEPT ![s] =
           IF alias[Head(c.names)] # None THEN Resolved(c, Canonical(alias[Head(c.names)]))
           ELSE [c EXCEPT !.at = "insert"]]
    /\ UNCHANGED <<Table, calls>>

(* Faulty variant: the alias is inserted without the unique index. *)
InsertAnyItem(s) ==
    /\ At(s, "upload", "insert") /\ Free(s)
    /\ \E i \in Items \ Known :
          Goes(s, [Resolved(call[s], i) EXCEPT
                      !.pending = @ \cup {<<Head(call[s].names), i>>}])
    /\ UNCHANGED <<Table, calls>>

(* The item and its alias are inserted in a savepoint; when the index       *)
(* refuses the alias, the item that has it is taken.                        *)
InsertItem(s) ==
    /\ At(s, "upload", "insert") /\ Free(s)
    /\ LET c == call[s]
           n == Head(c.names)
       IN  IF alias[n] # None
           THEN call' = [call EXCEPT ![s] = Resolved(c, Canonical(alias[n]))]
           ELSE \E i \in Items \ Known :
                  Goes(s, [Resolved(c, i) EXCEPT !.pending = @ \cup {<<n, i>>}])
    /\ UNCHANGED <<Table, calls>>

WithAliases(pending) ==
    [n \in Names |-> IF \E p \in pending : p[1] = n
                     THEN (CHOOSE p \in pending : p[1] = n)[2] ELSE alias[n]]

CommitUpload(s) ==
    /\ At(s, "upload", "commit") /\ Free(s)
    /\ alias' = WithAliases(call[s].pending)
    /\ activities' = activities \cup call[s].resolved
    /\ Ends(s)
    /\ UNCHANGED <<into, class, versions, calls>>

(* The upload fails, or its worker stops. *)
RollBack(s) ==
    /\ call[s].op = "upload"
    /\ Ends(s)
    /\ UNCHANGED <<Table, calls>>

-----------------------------------------------------------------------------
(* add_manual_alias: an alias that exists is returned or refused.           *)
CheckAlias(s) ==
    /\ At(s, "alias", "look")
    /\ IF Active(call[s].item) /\ alias[Head(call[s].names)] = None
       THEN call' = [call EXCEPT ![s].at = "insert"]
       ELSE Ends(s)
    /\ UNCHANGED <<Table, calls>>

InsertAlias(s) ==
    /\ At(s, "alias", "insert") /\ Free(s)
    /\ IF alias[Head(call[s].names)] = None
       THEN Goes(s, [call[s] EXCEPT !.at = "commit",
                                    !.pending = {<<Head(call[s].names), call[s].item>>}])
       ELSE Ends(s)
    /\ UNCHANGED <<Table, calls>>

CommitAlias(s) ==
    /\ At(s, "alias", "commit")
    /\ alias' = WithAliases(call[s].pending)
    /\ Ends(s)
    /\ UNCHANGED <<into, class, versions, activities, calls>>

-----------------------------------------------------------------------------
(* merge_items.                                                             *)
(* Faulty variant: the target is not checked. *)
MergeableSource(c) == Active(c.item)
Mergeable(c) == Active(c.item) /\ Active(c.other)

LockItems(s) ==
    /\ At(s, "merge", "lock") /\ Free(s)
    /\ IF Mergeable(call[s]) THEN Goes(s, [call[s] EXCEPT !.at = "source"]) ELSE Ends(s)
    /\ UNCHANGED <<Table, calls>>

LockRows(s) ==
    /\ At(s, "merge", "source") \/ At(s, "merge", "target")
    /\ Free(s)
    /\ Goes(s, [call[s] EXCEPT !.at = IF @ = "source" THEN "target" ELSE "commit"])
    /\ UNCHANGED <<Table, calls>>

(* Faulty variant: the source's rows are deactivated. *)
ReconciledByDropping(i, j) == class \ Rows(i)

(* A scope the target has no row for takes the source's, one that both have *)
(* keeps one of them, on the target.                                        *)
Reconciled(i, j) == (class \ Rows(i)) \cup {<<j, r[2]>> : r \in Rows(i)}

(* The unique index refuses a flush that moves the source's row before it   *)
(* deactivates the target's: the merge goes on without the classifications.  *)
SharedScope(i, j) == \E x \in Rows(i), y \in Rows(j) : x[2] = y[2]

CommitMerge(s) ==
    /\ At(s, "merge", "commit")
    /\ LET c == call[s]
       IN  /\ into' = [into EXCEPT ![c.item] = c.other]
           /\ \/ ~c.skip /\ class' = Reconciled(c.item, c.other)
              \/ (c.skip \/ SharedScope(c.item, c.other)) /\ UNCHANGED class
    /\ Ends(s)
    /\ UNCHANGED <<alias, versions, activities, calls>>

-----------------------------------------------------------------------------
(* apply_manual_classification: the rows of the other scopes are locked and *)
(* deactivated, the row of its own scope is replaced.                       *)
CheckItem(s) ==
    /\ At(s, "override", "look")
    /\ IF Active(call[s].item) THEN call' = [call EXCEPT ![s].at = "lock"] ELSE Ends(s)
    /\ UNCHANGED <<Table, calls>>

LockClasses(s) ==
    /\ At(s, "override", "lock") /\ Free(s)
    /\ Goes(s, [call[s] EXCEPT !.at = "insert"])
    /\ UNCHANGED <<Table, calls>>

InsertClass(s) ==
    /\ At(s, "override", "insert") /\ Free(s)
    /\ Goes(s, [call[s] EXCEPT !.at = "commit"])
    /\ UNCHANGED <<Table, calls>>

(* What an override leaves of the rows it locked. *)
Overridden(c) ==
    (class \ {r \in class : Update(<<"class", r>>) \in c.locks}) \cup {<<c.item, c.scope>>}

CommitOverride(s) ==
    /\ At(s, "override", "commit")
    /\ class' = Overridden(call[s])
    /\ Ends(s)
    /\ UNCHANGED <<into, alias, versions, activities, calls>>

-----------------------------------------------------------------------------
(* replace_item_requirement_set. *)
LockItem(s) ==
    /\ At(s, "require", "lock") /\ Free(s)
    /\ Goes(s, [call[s] EXCEPT !.at = "commit"])
    /\ UNCHANGED <<Table, calls>>

CommitSet(s) ==
    /\ At(s, "require", "commit")
    /\ versions' = [versions EXCEPT ![call[s].item] = @ + 1]
    /\ Ends(s)
    /\ UNCHANGED <<into, alias, class, activities, calls>>

-----------------------------------------------------------------------------
(* The database cancels a statement of a circle of waits.  The call fails,  *)
(* but a merge swallows it: it goes on without the classifications, which   *)
(* it no longer locks.                                                       *)
Cancel(s) ==
    /\ Deadlocked(s)
    /\ IF call[s].op = "merge" /\ call[s].at \in {"source", "target"}
       THEN call' = [call EXCEPT ![s].at = "commit", ![s].skip = TRUE, ![s].locks = Merging(call[s])]
       ELSE Ends(s)
    /\ UNCHANGED <<Table, calls>>

Upload(s) == LookUp(s) \/ InsertItem(s) \/ CommitUpload(s)
AddAlias(s) == CheckAlias(s) \/ InsertAlias(s) \/ CommitAlias(s)
Merge(s) == LockItems(s) \/ LockRows(s) \/ CommitMerge(s)
Override(s) == CheckItem(s) \/ LockClasses(s) \/ InsertClass(s) \/ CommitOverride(s)
Require(s) == LockItem(s) \/ CommitSet(s)

Next ==
    \E s \in Sessions :
        \/ StartUpload(s) \/ StartAlias(s) \/ StartMerge(s) \/ StartOverride(s) \/ StartRequire(s)
        \/ Upload(s) \/ AddAlias(s) \/ Merge(s) \/ Override(s) \/ Require(s)
        \/ Cancel(s) \/ RollBack(s)

Spec == Init /\ [][Next]_vars

-----------------------------------------------------------------------------
(* Redirects never run in a circle: an item that was merged leads to an     *)
(* active one, whatever merges run at once.                                 *)
RedirectsEnd ==
    \A C \in (SUBSET Items) \ {{}} :
        (\A i \in C : into[i] \in C) => \E i \in C : Active(i)

(* Activities of one name denote one item, in every upload, whoever created *)
(* the item or the alias first and whatever was merged since.               *)
SameNameSameItem ==
    \A a \in activities :
        alias[a[1]] # None /\ Canonical(a[2]) = Canonical(alias[a[1]])

Classified(i) == Rows(i) # {}

(* An item that is classified stays so, also under the item it is merged    *)
(* into, unless the merge lost a deadlock to an override.                   *)
ClassifiedStaysClassified ==
    [][\A i \in Items : Classified(Canonical(i)) =>
          \/ Classified(Canonical(i))'
          \/ \E s \in Sessions : CommitMerge(s) /\ call[s].skip]_vars
===============================================================================
