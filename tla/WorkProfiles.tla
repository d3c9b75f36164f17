----------------------------- MODULE WorkProfiles -----------------------------
(***************************************************************************)
(* The learned work profiles of services/work_profile_service.py: the      *)
(* project-local cache (item_context_profiles), the cross-project          *)
(* knowledge rebuilt from it (item_knowledge_base), the per-activity       *)
(* profiles that refer to it (activity_work_profiles), and what changes    *)
(* them: the materialization of an upload, the manual corrections of       *)
(* services/correction_service.py, the merge of two items of               *)
(* services/identity_service.py and the recording of actual hours.         *)
(*                                                                         *)
(* A materialization reads the cache, awaits the AI and then writes, in    *)
(* one transaction whose session keeps the rows it read: it is two         *)
(* actions, Start and Finish.  The other handlers never await and are one  *)
(* action each.  One duration (so one duration bucket), one context and    *)
(* inference version, and asset types that are all global are modelled.    *)
(*                                                                         *)
(* A posterior is reduced to its precision relative to its mean, in units  *)
(* of one AI observation (sigma = 20%): an actual (5%) is 16 units, cv <   *)
(* 0.20 is more than 1 unit, cv < 0.10 more than 4.  -1 is no posterior,   *)
(* and every weight above 4 is written Sure.                               *)
(***************************************************************************)
EXTENDS Integers, FiniteSets, Sequences, Sums

CONSTANTS
    Projects, Items, Types, Contexts,
    BaseContext,      \* the context without work_type
    Uploads,
    ProjectOf,        \* the project of an upload
    Programme,        \* the rows of an upload: [item, type, ctx, low, seeded]
    Weights,          \* the first weights an AI confidence can give
    MinSamples,       \* WORK_PROFILE_CORRECTION_MIN_SAMPLES
    HighSamples, HighProjects,
    MaxNewContexts,   \* WORK_PROFILE_MAX_NEW_CONTEXTS_PER_UPLOAD
    Promotable,       \* the <<item, type>> whose expansion signal may be promoted
    MaxCorrections, MaxActuals, MaxMerges,  \* bounds on the calls
    MaxCalls          \* and on their sum

ASSUME ProfileAssumption ==
    /\ IsFiniteSet(Projects) /\ IsFiniteSet(Items) /\ IsFiniteSet(Types)
    /\ IsFiniteSet(Contexts) /\ IsFiniteSet(Uploads)
    /\ BaseContext \in Contexts
    /\ ProjectOf \in [Uploads -> Projects]
    /\ Programme \in [Uploads -> Seq([item : Items, type : Types, ctx : Contexts,
                                      low : BOOLEAN, seeded : BOOLEAN])]
    /\ Weights \subseteq 0..4
    /\ MinSamples \in Nat \ {0} /\ HighSamples \in Nat /\ HighProjects \in Nat
    /\ MaxNewContexts \in Nat
    /\ "none" \notin Types

VARIABLES
    into,       \* merged_into_item_id, an item itself while it is active
    class,      \* the active classification of an item
    promoted,   \* the promoted context expansion signals
    cache,      \* the active item_context_profiles, by key
    kb,         \* item_knowledge_base, by item and type
    phase, pre, mem,   \* of an upload: its phase, the preflights and the rows its session holds
    acts,       \* the activities of an upload with their mapping and work profile
    evidence,   \* history: how many observations, actual hours included, were ever made
    corrections, actuals, merges  \* bounds

session == <<phase, pre, mem>>
vars == <<into, class, promoted, cache, kb, session, acts, evidence,
          corrections, actuals, merges>>

MayCall(n, max) == n < max /\ corrections + actuals + merges < MaxCalls

Sure == 5
NoAnswer == -1
Sources == {"none", "default", "ai", "learned", "manual"}
Key == [project : Projects, item : Items, type : Types, ctx : Contexts]
NoRow == [source |-> "none", hours |-> "none", samples |-> 0,
          corrected |-> 0, post |-> -1, low |-> FALSE]
NoKnowledge == [tier |-> "none", samples |-> 0, projects |-> 0, post |-> -1]

Samples(c) == [k \in DOMAIN c |-> c[k].samples]
Cap(w) == IF w > 4 THEN Sure ELSE w
Exists(c, k) == c[k].source # "none"
Quarrelled(samples, corrected) ==
    samples >= MinSamples /\ 5 * corrected > samples

Maturity(p) ==
    CASE p.source = "manual" -> "manual"
      [] p.source # "manual" /\ (p.post < 0 \/ Quarrelled(p.samples, p.corrected)) -> "tentative"
      [] OTHER -> CASE p.post > 4 -> "trusted"
                    [] p.post \in 2..4 -> "confirmed"
                    [] OTHER -> "tentative"

-----------------------------------------------------------------------------
(* Global knowledge: what rebuild_global_knowledge_entry computes.  The    *)
(* filters of the query see the database, the rest of the function sees    *)
(* the objects of the session.                                             *)

Eligible(db, view, i, t) ==
    {k \in Key : /\ k.item = i /\ k.type = t
                 /\ db[k].source \in {"ai", "learned"}
                 /\ ~db[k].low
                 /\ db[k].samples >= MinSamples
                 /\ view[k].post >= 0}


ConfidenceTier(samples, projects, post, corrected) ==
    LET base == CASE samples >= HighSamples /\ projects >= HighProjects /\ post > 4 -> "high"
                  [] OTHER -> IF samples >= MinSamples /\ projects >= 1 /\ post > 1
                              THEN "medium" ELSE "none"
    IN  IF base # "none" /\ Quarrelled(samples, corrected) THEN "medium" ELSE base

Knowledge(db, view, i, t) ==
    LET rows == Eligible(db, view, i, t)
        samples == Total(Samples(view), rows)
        projects == Cardinality({k.project : k \in rows})
        post == Cap(Total([k \in Key |-> view[k].post], rows))
        tier == ConfidenceTier(samples, projects, post,
                               Total([k \in Key |-> view[k].corrected], rows))
    IN  IF tier = "none" THEN NoKnowledge
        ELSE [tier |-> tier, samples |-> samples, projects |-> projects, post |-> post]

Rebuilt(g, db, view, i, t) == [g EXCEPT ![<<i, t>>] = Knowledge(db, view, i, t)]

-----------------------------------------------------------------------------
(* The lookups of a preflight.                                             *)

Canonical(i) ==
    LET end[j \in Items] == IF into[j] = j THEN j ELSE end[into[j]] IN end[i]

LookupKey(c, k) ==
    LET base == [k EXCEPT !.ctx = BaseContext]
    IN  IF Exists(c, k) \/ <<k.item, k.type>> \in promoted \/ ~Exists(c, base)
        THEN k ELSE base

TrustedBaseline(c, k) ==
    LET rows == {[k EXCEPT !.ctx = x] : x \in Contexts}
    IN  \/ \E r \in rows : c[r].source = "manual"
        \/ Cardinality({r \in rows : /\ c[r].source \in {"ai", "learned"}
                                     /\ ~c[r].low
                                     /\ c[r].samples >= MinSamples}) >= MinSamples

View(db, m) == [k \in Key |-> IF Exists(m, k) THEN m[k] ELSE db[k]]

Preflight(db, m, g, k) ==
    LET used == LookupKey(db, k)
        hit == Exists(db, used)
        baseline == ~hit /\ TrustedBaseline(db, k)
    IN  [key |-> used, hit |-> hit, tier |-> Maturity(View(db, m)[used]),
         baseline |-> baseline,
         global |-> IF hit \/ baseline THEN NoKnowledge ELSE g[k.item, k.type]]

NeedsAI(p) ==
    IF p.hit THEN p.tier \in {"confirmed", "tentative"}
    ELSE ~p.baseline /\ p.global.tier # "high"

-----------------------------------------------------------------------------
(* The writes of a materialization on st, the state its transaction sees.  *)

NewRow(source, w, low) ==
    IF source = "default"
    THEN [NoRow EXCEPT !.source = source, !.hours = source, !.low = low]
    ELSE [source |-> source, hours |-> source, samples |-> 1,
          corrected |-> 0, post |-> w, low |-> low]

Observed(p, source, w, low) ==
    LET fresh == p.source = "default"
    IN  [p EXCEPT !.source = source, !.hours = source, !.low = low,
                  !.samples = IF fresh THEN 1 ELSE @ + 1,
                  !.post = IF fresh \/ @ < 0 THEN w ELSE Cap(@ + 1)]

(* An UPDATE writes the columns that differ from what the session loaded. *)
Flushed(row, loaded, new) ==
    [f \in DOMAIN row |-> IF new[f] # loaded[f] THEN new[f] ELSE row[f]]

(* Faulty variant: an observation is written over a manual profile too.     *)
UpsertAnything(st, k, source, w, low) ==
    LET p == View(st.db, st.mem)[k]
        new == IF Exists(st.db, k) THEN Observed(p, source, w, low)
               ELSE NewRow(source, w, low)
        db == [st.db EXCEPT ![k] = IF Exists(st.db, k) THEN Flushed(@, p, new) ELSE new]
    IN  [st EXCEPT !.db = db, !.mem[k] = new, !.evidence = @ + 1,
                   !.kb = Rebuilt(@, db, View(db, st.mem), k.item, k.type)]

Upsert(st, k, source, w, low) ==
    LET p == View(st.db, st.mem)[k]
        new == IF Exists(st.db, k) THEN Observed(p, source, w, low)
               ELSE NewRow(source, w, low)
        db == [st.db EXCEPT ![k] = IF Exists(st.db, k) THEN Flushed(@, p, new) ELSE new]
        m == [st.mem EXCEPT ![k] = new]
    IN  IF Exists(st.db, k) /\ p.source = "manual" THEN st
        ELSE [st EXCEPT !.db = db, !.mem = m, !.evidence = @ + 1,
                        !.kb = Rebuilt(@, db, View(db, m), k.item, k.type)]

(* An INSERT that loses to an existing row returns that row. *)
InsertIfAbsent(st, k, row) ==
    IF Exists(st.db, k) THEN st ELSE [st EXCEPT !.db[k] = row]

(* Faulty variant: a seeded row counts the observations of other projects.  *)
SeededAsEvidence(global) ==
    [source |-> "learned", hours |-> "learned", samples |-> global.samples,
     corrected |-> 0, post |-> global.post, low |-> FALSE]
Seeded(global) ==
    [source |-> "learned", hours |-> "learned", samples |-> 0,
     corrected |-> 0, post |-> global.post, low |-> FALSE]

Refer(k, live, manual) == {[key |-> k, live |-> live, manual |-> ~live /\ manual]}

Resolve(st, row, p, answer, first) ==
    LET k == p.key
        low == row.low \/ (p.hit /\ View(st.db, st.mem)[k].low)
        asked == answer # NoAnswer
        live == IF p.hit /\ first /\ ~asked THEN Exists(st.mem, k) ELSE TRUE
        st2 == CASE p.hit -> IF asked THEN Upsert(st, k, "ai", answer, low) ELSE st
                 [] ~p.hit /\ p.baseline -> Upsert(st, k, "learned", 0, row.low)
                 [] ~p.hit /\ ~p.baseline ->
                      IF p.global.tier = "high" THEN InsertIfAbsent(st, k, Seeded(p.global))
                      ELSE IF asked THEN Upsert(st, k, "ai", answer, row.low)
                      ELSE InsertIfAbsent(st, k, NewRow("default", 0, TRUE))
    IN  [st2 EXCEPT !.acts = Append(@,
            [item |-> row.item, type |-> row.type, ctx |-> row.ctx, actual |-> FALSE,
             ref |-> IF row.seeded THEN {} ELSE Refer(k, live, p.tier = "manual")])]

-----------------------------------------------------------------------------
(* Invalidation: a row leaves the cache, the activities keep referring to  *)
(* it, and no query of another session returns it any more.                *)

(* Faulty variant: an invalidated row keeps its posterior.                  *)
WithoutSource(c, gone) ==
    [k \in Key |-> IF k \in gone THEN [c[k] EXCEPT !.source = "none"] ELSE c[k]]
Without(c, gone) == [k \in Key |-> IF k \in gone THEN NoRow ELSE c[k]]
Forget(gone) == [u \in Uploads |-> Without(mem[u], gone)]
Orphan(as, c, gone) ==
    [u \in Uploads |-> [n \in DOMAIN as[u] |->
        [as[u][n] EXCEPT !.ref =
            {IF r.live /\ r.key \in gone
             THEN [r EXCEPT !.live = FALSE, !.manual = c[r.key].source = "manual"]
             ELSE r : r \in @}]]]

RowKey(u, row) == [project |-> ProjectOf[u], item |-> row.item,
                   type |-> row.type, ctx |-> row.ctx]
Firsts(ps) == {n \in DOMAIN ps : \A m \in 1..(n - 1) : ps[m].key # ps[n].key}

-----------------------------------------------------------------------------
Init ==
    /\ into = [i \in Items |-> i]
    /\ class = [i \in Items |-> "none"]
    /\ promoted = {}
    /\ cache = [k \in Key |-> NoRow]
    /\ kb = [x \in Items \X Types |-> NoKnowledge]
    /\ phase = [u \in Uploads |-> "new"]
    /\ pre = [u \in Uploads |-> <<>>]
    /\ mem = [u \in Uploads |-> [k \in Key |-> NoRow]]
    /\ acts = [u \in Uploads |-> <<>>]
    /\ evidence = 0
    /\ corrections = 0 /\ actuals = 0 /\ merges = 0

(* The activities are inserted with their items resolved through the        *)
(* redirects, and the preflights of all of them are made before the AI is   *)
(* awaited.  The project guard admits one upload of a project at a time.    *)
Start(u) ==
    /\ phase[u] = "new"
    /\ \A v \in Uploads : ProjectOf[v] = ProjectOf[u] => phase[v] # "running"
    /\ LET rows == [n \in DOMAIN Programme[u] |->
                      [Programme[u][n] EXCEPT !.item = Canonical(@)]]
           ps == [n \in DOMAIN rows |-> Preflight(cache, mem[u], kb, RowKey(u, rows[n]))]
           read == {ps[n].key : n \in {m \in DOMAIN ps : ps[m].hit}}
       IN  /\ pre' = [pre EXCEPT ![u] = [n \in DOMAIN ps |-> [row |-> rows[n], p |-> ps[n]]]]
           /\ mem' = [mem EXCEPT ![u] = [k \in Key |-> IF k \in read THEN cache[k] ELSE NoRow]]
    /\ phase' = [phase EXCEPT ![u] = "running"]
    /\ UNCHANGED <<into, class, promoted, cache, kb, acts, evidence,
                   corrections, actuals, merges>>

(* One AI answer at most per context, none when too many contexts need one. *)
Answers(ps) ==
    LET asked == {n \in Firsts(ps) : NeedsAI(ps[n])}
        asks == IF Cardinality(asked) > MaxNewContexts THEN {} ELSE asked
    IN  {a \in [DOMAIN ps -> Weights \cup {NoAnswer}] :
            \A n \in DOMAIN ps : n \notin asks => a[n] = NoAnswer}

(* What the nth activity adds to the transaction: the first of a context    *)
(* comes with its preflight and its answer, the others with a preflight of  *)
(* their own.                                                               *)
Profiled(st, u, n, answer) ==
    LET first == n \in Firsts([m \in DOMAIN pre[u] |-> pre[u][m].p])
        row == pre[u][n].row
        p == IF first THEN pre[u][n].p
             ELSE Preflight(st.db, st.mem, st.kb, RowKey(u, row))
    IN  Resolve(st, row, p, answer, first)

(* The activities of a context are written together, and the contexts in    *)
(* the order they were met.                                                 *)
Grouped(ps) ==
    LET first(n) == CHOOSE m \in Firsts(ps) : ps[m].key = ps[n].key
        before(m, n) == first(m) < first(n) \/ (first(m) = first(n) /\ m < n)
    IN  {o \in [DOMAIN ps -> DOMAIN ps] :
            \A m, n \in DOMAIN ps : m < n => before(o[m], o[n])}

Opened(u) == [db |-> cache, mem |-> mem[u], kb |-> kb, acts |-> <<>>, evidence |-> evidence]

Materialized(u, a, o) ==
    LET upto[n \in 0..Len(pre[u])] ==
            IF n = 0 THEN Opened(u) ELSE Profiled(upto[n - 1], u, o[n], a[o[n]])
    IN  upto[Len(pre[u])]

(* materialize_work_profiles_for_upload after the answers, and the commit.  *)
Finish(u) ==
    /\ phase[u] = "running"
    /\ LET ps == [n \in DOMAIN pre[u] |-> pre[u][n].p] IN
       \E a \in Answers(ps), o \in Grouped(ps) :
         LET end == Materialized(u, a, o)
         IN  /\ cache' = end.db /\ kb' = end.kb
             /\ acts' = [acts EXCEPT ![u] = end.acts]
             /\ evidence' = end.evidence
    /\ phase' = [phase EXCEPT ![u] = "done"]
    /\ pre' = [pre EXCEPT ![u] = <<>>]
    /\ mem' = [mem EXCEPT ![u] = [k \in Key |-> NoRow]]
    /\ UNCHANGED <<into, class, promoted, corrections, actuals, merges>>

(* The savepoint of the materialization is rolled back and the upload is   *)
(* committed without work profiles.                                         *)
Fail(u) ==
    /\ phase[u] = "running"
    /\ phase' = [phase EXCEPT ![u] = "done"]
    /\ pre' = [pre EXCEPT ![u] = <<>>]
    /\ mem' = [mem EXCEPT ![u] = [k \in Key |-> NoRow]]
    /\ UNCHANGED <<into, class, promoted, cache, kb, acts, evidence,
                   corrections, actuals, merges>>
-----------------------------------------------------------------------------
(* apply_manual_classification: the classification of the item changes and *)
(* every active profile of its superseded type is invalidated.             *)
Superseded(i, t) ==
    IF class[i] \in {"none", t} THEN {}
    ELSE {k \in Key : k.item = i /\ k.type = class[i] /\ Exists(cache, k)}

ManualRow(p) ==
    [source |-> "manual", hours |-> "manual", samples |-> p.samples + 1,
     corrected |-> p.corrected, post |-> Sure, low |-> FALSE]

(* Faulty variant: a correction forgets to rebuild the knowledge.           *)
RebuildNothing(g, c, pairs) == g
Rebuild(g, c, pairs) ==
    [x \in DOMAIN g |-> IF x \in pairs THEN Knowledge(c, c, x[1], x[2]) ELSE g[x]]

(* What every correction of a mapping does first: the item it remembers,   *)
(* the classification, and the profiles that fall with it.                  *)
Corrects(u, n, i, t) ==
    /\ n \in DOMAIN acts[u] /\ MayCall(corrections, MaxCorrections)
    /\ i = Canonical(acts[u][n].item)
    /\ class' = [class EXCEPT ![i] = t]
    /\ corrections' = corrections + 1

(* apply_mapping_correction with hours and a distribution: the previous     *)
(* profile of the activity is marked as corrected when the hours, the       *)
(* distribution or the type changed, the manual profile of the activity's   *)
(* own context is written, and the previous one is invalidated.             *)
CorrectHours(u, n, t, changed) ==
    LET a == acts[u][n]
        i == Canonical(a.item)
        k == [RowKey(u, a) EXCEPT !.item = i, !.type = t]
        fallen == Superseded(i, t)
        c0 == Without(cache, fallen)
        prev == {r \in a.ref : IF r.live THEN cache[r.key].source # "manual" ELSE ~r.manual}
        kept == {r.key : r \in prev} \ fallen
        live == {r.key : r \in {x \in prev : x.live}} \ fallen
        c1 == [j \in Key |-> IF j \in live /\ changed
                             THEN [c0[j] EXCEPT !.corrected = @ + 1] ELSE c0[j]]
        c2 == [c1 EXCEPT ![k] = ManualRow(@)]
        gone == fallen \cup (live \ {k})
        c3 == Without(c2, gone)
        g1 == IF fallen = {} THEN kb ELSE Rebuild(kb, c0, {<<i, class[i]>>, <<i, t>>})
        g2 == Rebuild(g1, c2, {<<i, t>>})
        old == IF changed THEN {<<r.key.item, r.key.type>> : r \in prev} ELSE {}
        orphaned == Orphan(acts, cache, gone)
    IN  /\ Corrects(u, n, i, t)
        /\ changed \/ \A r \in prev : r.key.type = t
        /\ cache' = c3
        /\ kb' = Rebuild(g2, c3, old)
        /\ mem' = Forget(gone)
        /\ acts' = [orphaned EXCEPT ![u][n].type = t, ![u][n].ref = Refer(k, TRUE, FALSE)]
        /\ evidence' = evidence + 1
        /\ UNCHANGED <<into, promoted, phase, pre, actuals, merges>>

(* apply_mapping_correction of the type, the role or the shape only: the    *)
(* previous profile is invalidated and the activity refers to none.         *)
CorrectMetadata(u, n, t) ==
    LET a == acts[u][n]
        i == Canonical(a.item)
        fallen == Superseded(i, t)
        prev == {r \in a.ref : IF r.live THEN cache[r.key].source # "manual" ELSE ~r.manual}
        gone == fallen \cup {r.key : r \in {x \in prev : x.live}}
        c1 == Without(cache, gone)
        g1 == IF fallen = {} THEN kb
              ELSE Rebuild(kb, Without(cache, fallen), {<<i, class[i]>>, <<i, t>>})
    IN  /\ Corrects(u, n, i, t)
        /\ cache' = c1
        /\ kb' = Rebuild(g1, c1, {<<r.key.item, r.key.type>> : r \in prev})
        /\ mem' = Forget(gone)
        /\ acts' = [Orphan(acts, cache, gone) EXCEPT ![u][n].type = t, ![u][n].ref = {}]
        /\ UNCHANGED <<into, promoted, phase, pre, evidence, actuals, merges>>

-----------------------------------------------------------------------------
(* Merging two items: reconcile_context_profiles_on_merge, then the         *)
(* knowledge of the target rebuilt and that of the source deleted.          *)

Priority(source) ==
    CASE source = "manual" -> 4 [] source = "learned" -> 3
      [] source = "ai" -> 2 [] OTHER -> 1

(* The rank is the source first; what it ties on (confidence, evidence,     *)
(* age) is not modelled: either row may win.                                 *)
Winners(p, q) ==
    CASE Priority(p.source) > Priority(q.source) -> {p}
      [] Priority(p.source) < Priority(q.source) -> {q}
      [] OTHER -> {p, q}

Merged(p, q, winner) ==
    [source |-> winner.source, hours |-> winner.hours, low |-> winner.low,
     samples |-> p.samples + q.samples, corrected |-> p.corrected + q.corrected, post |-> -1]

Moved(m, s, g) ==
    [k \in Key |-> LET from == [k EXCEPT !.item = s]
                   IN  CASE k.item = s -> NoRow
                         [] k.item = g /\ ~Exists(cache, k) /\ Exists(cache, from) -> m[from]
                         [] OTHER -> m[k]]

MergeItems(s, g) ==
    LET from(k) == [k EXCEPT !.item = s]
        clash == {k \in Key : k.item = g /\ Exists(cache, k) /\ Exists(cache, from(k))}
        Repointed(r) == IF r.live /\ r.key.item = s THEN [r EXCEPT !.key.item = g] ELSE r
    IN  /\ s # g /\ into[s] = s /\ into[g] = g /\ MayCall(merges, MaxMerges)
        /\ into' = [into EXCEPT ![s] = g]
        /\ \E w \in [clash -> {cache[k] : k \in Key}] :
              /\ \A k \in clash : w[k] \in Winners(cache[from(k)], cache[k])
              /\ cache' = [k \in Key |->
                   IF k \in clash THEN Merged(cache[from(k)], cache[k], w[k])
                   ELSE Moved(cache, s, g)[k]]
        /\ kb' = [x \in DOMAIN kb |->
               CASE x[1] = g -> Knowledge(cache', cache', x[1], x[2])
                 [] x[1] = s -> NoKnowledge
                 [] OTHER -> kb[x]]
        /\ class' \in {[class EXCEPT ![g] = x] : x \in {class[s], class[g]} \ {"none"}}
                      \cup {c \in {class} : class[s] = "none"}
        /\ mem' = [u \in Uploads |-> Moved(mem[u], s, g)]
        /\ acts' = [u \in Uploads |-> [n \in DOMAIN acts[u] |->
               [acts[u][n] EXCEPT !.ref = {Repointed(r) : r \in @}]]]
        /\ merges' = merges + 1
        /\ UNCHANGED <<promoted, phase, pre, evidence, corrections, actuals>>

-----------------------------------------------------------------------------
(* The activities with actual hours that refer to a profile. *)
Recorded(r) ==
    UNION {{u} \X {n \in DOMAIN acts[u] : acts[u][n].actual /\ r \in acts[u][n].ref} : u \in Uploads}

(* record_actual_hours: the earlier actuals of the profile are taken out of *)
(* its posterior and the new list is put in.  The row is changed in memory  *)
(* only when the knowledge is rebuilt, so the query still sees the old      *)
(* number of samples.                                                       *)
RecordActual(u, n) ==
    LET new == IF acts[u][n].actual THEN 0 ELSE 1 IN
    /\ n \in DOMAIN acts[u] /\ MayCall(actuals, MaxActuals)
    /\ acts' = [acts EXCEPT ![u][n].actual = TRUE]
    /\ actuals' = actuals + 1
    /\ evidence' = evidence + new
    /\ \/ /\ \A r \in acts[u][n].ref : ~r.live \/ cache[r.key].source = "manual"
          /\ UNCHANGED <<cache, kb>>
       \/ \E r \in acts[u][n].ref :
             LET p == cache[r.key]
                 before == Cardinality(Recorded(r))
                 rest == IF p.samples < before THEN 0 ELSE p.samples - before
                 view == [cache EXCEPT ![r.key] =
                            [p EXCEPT !.samples = rest + before + new, !.post = Sure]]
             IN  /\ r.live /\ p.source # "manual"
                 /\ cache' = view
                 /\ kb' = Rebuilt(kb, cache, view, r.key.item, r.key.type)
    /\ UNCHANGED <<into, class, promoted, session, corrections, merges>>

(* set_context_expansion_signal_promoted. *)
Promote(x) ==
    /\ promoted' = IF x \in promoted THEN promoted \ {x} ELSE promoted \cup {x}
    /\ UNCHANGED <<into, class, cache, kb, session, acts, evidence,
                   corrections, actuals, merges>>

Materialize == \E u \in Uploads : Start(u) \/ Finish(u) \/ Fail(u)
Correct ==
    \E u \in Uploads : \E n \in DOMAIN acts[u], t \in Types :
        \/ \E changed \in BOOLEAN : CorrectHours(u, n, t, changed)
        \/ CorrectMetadata(u, n, t)

Next ==
    \/ Materialize
    \/ Correct
    \/ \E s, g \in Items : MergeItems(s, g)
    \/ \E u \in Uploads : \E n \in DOMAIN acts[u] : RecordActual(u, n)
    \/ \E x \in Promotable : Promote(x)

Spec == Init /\ [][Next]_vars

-----------------------------------------------------------------------------
(* Tells whether knowledge claims more evidence than the rows it rests on. *)
Claimed(g, c) ==
    {x \in Items \X Types : /\ g[x].tier # "none"
                            /\ Total(Samples(c), Eligible(c, c, x[1], x[2])) < g[x].samples}

(* The rows a materialization read before it awaited the AI have changed. *)
Stale(u) == \E k \in Key : Exists(mem[u], k) /\ mem[u][k] # cache[k]

(* What the knowledge shared by all projects claims is taken back when the *)
(* rows it was computed from go.                                            *)
KnowledgeFollowsEvidence ==
    [][\/ Claimed(kb', cache') \subseteq Claimed(kb, cache)
       \/ \E u \in Uploads, t \in Types : \E n \in DOMAIN acts[u] :
             CorrectHours(u, n, t, FALSE)
       \/ \E u \in Uploads : phase'[u] # phase[u] /\ Stale(u)]_vars

(* The rows never hold more observations than were made, whatever is merged,*)
(* invalidated, seeded from the knowledge or written from a stale session.  *)
EvidenceIsReal == Total(Samples(cache), Key) <= evidence

(* An active manual row changes only by a correction or a merge. *)
ManualHoursStay ==
    [][\A k \in Key : cache[k].source = "manual" =>
          \/ cache'[k] = cache[k]
          \/ corrections' # corrections \/ merges' # merges
          \/ \E u \in Uploads : phase'[u] # phase[u] /\ Stale(u)]_vars
=============================================================================
