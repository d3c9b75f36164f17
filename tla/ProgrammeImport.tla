---------------------------- MODULE ProgrammeImport ----------------------------
(***************************************************************************)
(* What one upload makes of the rows of its file                           *)
(* (services/process_programme.py): columns, activities, the types they    *)
(* need, the companies that supply them and the profiles of their work.    *)
(* The queue that runs it and the transactions it commits are UploadQueue. *)
(*                                                                         *)
(* A row has the cells id, name, start, finish, parent, summary and days;  *)
(* a mapping says of a field which column holds it.  Dates are numbers.    *)
(***************************************************************************)
EXTENDS AiService

CONSTANTS
    Files,        \* [pdf, rows]
    Sample,       \* rows that are looked at to find the columns: 100
    KnownColumns, \* mappings an earlier upload left in the cache for these headers
    Sites,        \* types of the project's assets
    Trades,       \* of a company: the types its trade needs
    Supplied,     \* assignments of companies to types, from earlier uploads
    NeedsAi,      \* contexts <<text, type>> whose hours nothing known settles
    MaxContexts,  \* WORK_PROFILE_MAX_NEW_CONTEXTS_PER_UPLOAD
    GroupBatch    \* AI_WORK_PROFILE_MAX_CONCURRENT

VARIABLES
    phase,        \* "structure", "classify", "batches", "write", "suggest", "profiles" or "done"
    file, site, cache,
    columns,      \* the mapping in use
    activities,   \* [id, text, parent, kind, start, finish, days]
    week,         \* work_days_per_week
    found,        \* of a task: what it needs
    mappings,     \* [task, type, auto, company]
    assigned,     \* SubcontractorAssetTypeAssignment rows that are active
    groups,       \* contexts still to resolve
    allow, attempts, failures, \* WorkProfileRuntimeState
    profiles      \* contexts resolved: "ai" or "default"

import == <<phase, file, site, cache, columns, activities, week, found, mappings, assigned,
            groups, allow, attempts, failures, profiles>>

ImportInit ==
    /\ AiInit
    /\ phase = "structure"
    /\ file \in Files /\ site \in Sites /\ cache \in KnownColumns /\ assigned = Supplied
    /\ columns = Blank
    /\ activities = <<>> /\ week = 5 /\ found = <<>> /\ mappings = {}
    /\ groups = <<>> /\ allow = TRUE /\ attempts = 0 /\ failures = 0 /\ profiles = <<>>

-----------------------------------------------------------------------------
(* Rows become activities.                                                  *)
Value(row, cols, field) == IF field \in DOMAIN cols THEN row[cols[field]] ELSE Blank

Kind(summary, start, finish) ==
    CASE summary = TRUE -> "summary"
      [] summary # TRUE /\ start # Blank /\ start = finish -> "milestone"
      [] OTHER -> "task"

(* _apply_mapping reads every field, the readers of the sample fewer.  A row *)
(* without an id is given one that no row has for its parent: 0.             *)
Read(rows, cols, fields) ==
    LET known == [f \in DOMAIN cols \cap fields |-> cols[f]]
        Item(i) == LET row == rows[i]
                       start == Value(row, known, "start")
                       finish == Value(row, known, "finish")
                   IN  [id |-> IF Value(row, known, "id") = Blank THEN 0 ELSE Value(row, known, "id"),
                        text |-> Value(row, known, "name"), parent |-> Value(row, known, "parent"),
                        start |-> start, finish |-> finish, days |-> Value(row, known, "days"),
                        kind |-> Kind(Value(row, known, "summary"), start, finish)]
    IN  SelectSeq([i \in 1..Len(rows) |-> Item(i)], LAMBDA a : a.text # Blank)

Everything == {"id", "name", "start", "finish", "parent", "summary", "days"}
ByModel == Everything \ {"days"}              \* _build_activities_from_rows
ByGuess == {"name", "start", "finish"}        \* _detect_structure_fallback

PdfColumns == [f \in Everything \ {"parent", "summary"} |-> f]

(* The first columns with dates are the start and the finish, whatever they hold. *)
Guessed(rows) ==
    LET dates == SelectSeq(<<"start", "finish">>, LAMBDA c : \E i \in DOMAIN rows : rows[i][c] # Blank)
    IN  [f \in {"name"} \cup (IF Len(dates) > 0 THEN {"start"} ELSE {}) \cup (IF Len(dates) > 1 THEN {"finish"} ELSE {})
            |-> CASE f = "name" -> "name" [] f = "start" -> dates[1] [] f = "finish" -> dates[2]]

Head100 == SubSeq(file.rows, 1, IF Len(file.rows) < Sample THEN Len(file.rows) ELSE Sample)
Rest == SubSeq(file.rows, Len(Head100) + 1, Len(file.rows))

Days(a) ==
    IF a.days # Blank THEN a.days
    ELSE IF a.start = Blank \/ a.finish = Blank THEN Blank
    ELSE IF a.finish < a.start THEN Blank ELSE a.finish - a.start + 1

(* _infer_work_days_per_week; a week begins on day 0.                       *)
Observed(items) == SelectSeq(items, LAMBDA a : Blank \notin {a.days, a.start, a.finish} /\ a.days # 0)

Matches(items, w) ==
    LET Span(a) == IF a.start <= a.finish THEN a.start..a.finish ELSE a.finish..a.start
    IN  Len(SelectSeq(items, LAMBDA a : Cardinality({d \in Span(a) : d % 7 < w}) = a.days))

WorkWeek(items) ==
    LET o == Observed(items)
        best == {w \in 5..7 : \A v \in (5..7) \ {w} : Matches(o, w) > Matches(o, v)}
    IN  IF Len(o) >= 3 /\ \E w \in best : Matches(o, w) >= 2 THEN CHOOSE w \in best : TRUE ELSE 5

(* _insert_activities: the first row with the token is the parent.          *)
Linked(items) ==
    [i \in 1..Len(items) |->
        [items[i] EXCEPT
            !.days = Days(items[i]),
            !.parent = IF @ = Blank \/ \A j \in DOMAIN items : items[j].id # items[i].parent THEN 0
                       ELSE CHOOSE j \in DOMAIN items : items[j].id = items[i].parent
                                /\ \A k \in 1..(j - 1) : items[k].id # items[i].parent]]

Import(cols, items, kept) ==
    /\ columns' = cols
    /\ week' = WorkWeek(IF file.pdf THEN items ELSE Read(file.rows, cols, Everything))
    /\ activities' = Linked(items)
    /\ cache' = kept
    /\ phase' = "classify"
    /\ UNCHANGED <<file, site, found, mappings, assigned, groups, allow, attempts, failures, profiles>>

(* The model's mapping, or a guess if it gave none. *)
Detected == at[<<"structure">>] = "answered" /\ got[<<"structure">>] # Blank

Detect ==
    /\ phase = "structure"
    /\ IF file.pdf \/ cache = Blank
       THEN IF <<"structure">> \notin Calls
            THEN Ask(<<"structure">>) /\ UNCHANGED <<enabled, suppressed, free, got, import>>
            ELSE /\ <<"structure">> \notin Running
                 /\ IF file.pdf THEN Import(PdfColumns, Read(file.rows, PdfColumns, Everything), cache)
                    ELSE LET cols == IF Detected THEN got[<<"structure">>] ELSE Guessed(Head100)
                             sampled == Read(Head100, cols, IF Detected THEN ByModel ELSE ByGuess)
                         IN  Import(cols, sampled \o Read(Rest, cols, Everything), cols)
                 /\ UNCHANGED ai
       ELSE Import(cache, Read(Head100, cache, Everything) \o Read(Rest, cache, Everything), cache) /\ UNCHANGED ai

-----------------------------------------------------------------------------
(* Classification: what generates demand are the tasks.                     *)
Tasks == [i \in {i \in DOMAIN activities : activities[i].kind = "task"} |-> activities[i].text]

BeginClassify ==
    /\ phase = "classify"
    /\ IF enabled /\ ~suppressed
       THEN phase' = "batches" /\ UNCHANGED found
       ELSE phase' = "write" /\ found' = ByKeywords(Tasks, site)
    /\ UNCHANGED <<ai, file, site, cache, columns, activities, week, mappings, assigned,
                   groups, allow, attempts, failures, profiles>>

Classify ==
    /\ phase = "batches"
    /\ \/ AskBatch(Tasks) /\ UNCHANGED import
       \/ /\ Ended(Batches(Tasks))
          /\ phase' = "write" /\ found' = Classified(Tasks, site)
          /\ UNCHANGED <<ai, file, site, cache, columns, activities, week, mappings, assigned,
                         groups, allow, attempts, failures, profiles>>

(* _write_classifications; what fails is rolled back and left out.          *)
Committed(x) == x.score >= 40

Write ==
    /\ phase = "write"
    /\ mappings' \in {{}, UNION {{[task |-> i, type |-> x.type, auto |-> Committed(x), company |-> Blank] : x \in found[i]} :
                                 i \in DOMAIN found}}
    /\ phase' = "suggest"
    /\ UNCHANGED <<ai, file, site, cache, columns, activities, week, found, assigned,
                   groups, allow, attempts, failures, profiles>>

(* _assign_subcontractor_suggestions: a type that one company supplies.     *)
Suppliers(t) == {c \in DOMAIN Trades : t \in Trades[c]}

Suggested(m) ==
    IF m.auto /\ Cardinality(Suppliers(m.type)) = 1
    THEN [m EXCEPT !.company = CHOOSE c \in Suppliers(m.type) : TRUE] ELSE m

ContextsOf(maps) == {<<activities[m.task].text, m.type>> : m \in {m \in maps : m.auto}}

Suggest ==
    /\ phase = "suggest"
    /\ mappings' \in {mappings, {Suggested(m) : m \in mappings}}
    /\ groups' = SetToSeq(ContextsOf(mappings))
    /\ allow' = (~suppressed /\ Cardinality(ContextsOf(mappings) \cap NeedsAi) <= MaxContexts)
    /\ phase' = "profiles"
    /\ UNCHANGED <<ai, file, site, cache, columns, activities, week, found, assigned, attempts, failures, profiles>>

-----------------------------------------------------------------------------
(* materialize_work_profiles_for_upload: the contexts of a batch are asked  *)
(* about first, each twice if it must be, until the quota is used up; then  *)
(* all of them are resolved, and attempts in vain end the asking.            *)
Together == SubSeq(groups, 1, IF Len(groups) < GroupBatch THEN Len(groups) ELSE GroupBatch)
Unsettled == IF allow THEN SelectSeq(Together, LAMBDA g : g \in NeedsAi) ELSE <<>>

Attempts(g) == {k \in 1..2 : <<"profile", g, k>> \in Calls}
Proposed(g) == \E k \in Attempts(g) : at[<<"profile", g, k>>] = "answered" /\ got[<<"profile", g, k>>] = "valid"
Heard(g) == Proposed(g) \/ Cardinality(Attempts(g)) = 2

AskProfile ==
    /\ phase = "profiles"
    /\ Running = {}
    /\ \E n \in DOMAIN Unsettled :
           LET g == Unsettled[n]
               k == Cardinality(Attempts(g)) + 1
           IN  /\ ~Heard(g) /\ \A m \in 1..(n - 1) : Heard(Unsettled[m])
               /\ k = 1 => ~suppressed
               /\ Ask(<<"profile", g, k>>)
    /\ UNCHANGED <<enabled, suppressed, free, got, import>>

ResolveProfiles ==
    /\ phase = "profiles" /\ groups # <<>>
    /\ Running = {}
    /\ LET asked == {g \in ToSet(Unsettled) : Attempts(g) # {}} IN
           /\ \A g \in asked : Heard(g)
           /\ asked # ToSet(Unsettled) => suppressed
           /\ profiles' = [g \in DOMAIN profiles \cup ToSet(Together) |->
                               IF g \in DOMAIN profiles THEN profiles[g]
                               ELSE IF Proposed(g) THEN "ai" ELSE "default"]
           /\ attempts' = attempts + MapThenSumSet(LAMBDA g : Cardinality(Attempts(g)), asked)
           /\ failures' = failures + Cardinality({g \in asked : ~Proposed(g)})
           /\ allow' = (allow /\ ~(suppressed /\ Unsettled # <<>>) /\ 5 * failures' <= attempts')
           /\ groups' = SubSeq(groups, Len(Together) + 1, Len(groups))
    /\ UNCHANGED <<ai, phase, file, site, cache, columns, activities, week, found, mappings, assigned>>

(* _sync_subcontractor_asset_type_assignments.                              *)
Finish ==
    /\ phase = "profiles" /\ groups = <<>>
    /\ phase' = "done"
    /\ assigned' = {<<m.company, m.type>> : m \in {m \in mappings : m.company # Blank}}
    /\ UNCHANGED <<ai, file, site, cache, columns, activities, week, found, mappings,
                   groups, allow, attempts, failures, profiles>>

(* A rolled back savepoint takes the profiles and the assignments with it.  *)
RollBack ==
    /\ phase = "profiles" /\ Running = {}
    /\ phase' = "done" /\ groups' = <<>> /\ profiles' = <<>>
    /\ UNCHANGED <<ai, file, site, cache, columns, activities, week, found, mappings, assigned,
                   allow, attempts, failures>>

(* The provider and the threads that wait for it.                           *)
Asking(c) == IF c[1] = "batch" THEN Batch(Tasks, c[2]) ELSE {}
AcquireSlot == \E c \in Calls : Acquire(c) /\ UNCHANGED import
EnterProvider == \E c \in Calls : Enter(c) /\ UNCHANGED import
ProviderAnswers == \E c \in Calls : Answer(c, Asking(c)) /\ UNCHANGED import
ProviderFails == \E c \in Calls : Fail(c) /\ UNCHANGED import

ImportNext ==
    \/ Detect \/ BeginClassify \/ Classify \/ Write \/ Suggest
    \/ AskProfile \/ ResolveProfiles \/ Finish \/ RollBack
    \/ AcquireSlot \/ EnterProvider \/ ProviderAnswers \/ ProviderFails

ImportSpec == ImportInit /\ [][ImportNext]_<<ai, import>> /\ WF_<<ai, import>>(ImportNext)

-----------------------------------------------------------------------------
(* Once classified, a task needs exactly the types that its name or the     *)
(* answers about its text call for, each as surely as the surest of them    *)
(* says, with hours if any of them knew hours: whatever order the sources    *)
(* joined in, whichever batch failed or was cut short                        *)
(* (_classify_assets_real: the dedup of names, the merge of the answers).    *)
Sources(i) ==
    LET asked == {j \in DOMAIN Tasks : Tasks[j] = Tasks[i]}
        said == UNION {{got[c][j] : c \in {c \in Answered(Tasks) : j \in DOMAIN got[c]}} : j \in asked}
    IN  ByKeyword(Tasks[i], site)
        \cup {x \in ToSet(Entry(Phrases, Tasks[i])) \cup UNION {ToSet(r) : r \in said} :
                x.type \in Allowed(site)}

BestAnswersWin ==
    phase = "write" => \A i \in DOMAIN Tasks :
        /\ {x.type : x \in found[i]} = {x.type : x \in Sources(i)}
        /\ Cardinality(found[i]) = Cardinality({x.type : x \in found[i]})
        /\ \A x \in found[i] : LET same == {y \in Sources(i) : y.type = x.type} IN
              /\ \A y \in same : x.score >= y.score
              /\ x.score \in {y.score : y \in same}
              /\ x.hours = Blank <=> \A y \in same : y.hours = Blank

(* Once the provider's quota is used up no call of the upload is sent to    *)
(* it, the ones already waiting for a permit included (_call_api looks       *)
(* again after the wait).                                                    *)
QuotaStops ==
    [][\A c \in DOMAIN at' : at'[c] = "asking" /\ (c \in Calls => at[c] # "asking") => ~suppressed]_<<ai, import>>

(* Whatever the provider does, an upload ends: no call keeps its permit and *)
(* no wait for one is endless (AI timeouts end a call, finally releases).    *)
ImportEnds == <>(phase = "done")
===============================================================================
