--------------------------- MODULE WorkProfilesProofs ---------------------------
(***************************************************************************)
(* Theorems about WorkProfiles, for any projects, items, types, contexts   *)
(* and programmes, and any number of corrections, merges and actuals.      *)
(***************************************************************************)
EXTENDS WorkProfiles, FoldTheorems, SequenceTheorems

-----------------------------------------------------------------------------
(* Types.                                                                   *)

Row == [source : Sources, hours : Sources, samples : Nat, corrected : Nat,
        post : Int, low : BOOLEAN]
Known == [tier : {"none", "medium", "high"}, samples : Nat, projects : Nat, post : Int]
Line == [item : Items, type : Types, ctx : Contexts, low : BOOLEAN, seeded : BOOLEAN]
Looked == [key : Key, hit : BOOLEAN, tier : {"manual", "trusted", "confirmed", "tentative"},
           baseline : BOOLEAN, global : Known]
Ref == [key : Key, live : BOOLEAN, manual : BOOLEAN]
Activity == [item : Items, type : Types, ctx : Contexts, actual : BOOLEAN, ref : SUBSET Ref]
Table == [Key -> Row]
Library == [Items \X Types -> Known]

TypeOK ==
    /\ into \in [Items -> Items]
    /\ class \in [Items -> Types \cup {"none"}]
    /\ cache \in Table /\ kb \in Library
    /\ phase \in [Uploads -> {"new", "running", "done"}]
    /\ pre \in [Uploads -> Seq([row : Line, p : Looked])]
    /\ mem \in [Uploads -> Table]
    /\ acts \in [Uploads -> Seq(Activity)]
    /\ evidence \in Nat /\ corrections \in Nat /\ actuals \in Nat /\ merges \in Nat

LEMMA KeysAreFinite == IsFiniteSet(Key)
<1> DEFINE D == (Projects \X Items) \X (Types \X Contexts)
           g == [x \in D |-> [project |-> x[1][1], item |-> x[1][2],
                              type |-> x[2][1], ctx |-> x[2][2]]]
           K == {g[x] : x \in D}
<1>1. IsFiniteSet(D)
  <2>1. IsFiniteSet(Projects \X Items) /\ IsFiniteSet(Types \X Contexts)
    BY ProfileAssumption, FS_Product
  <2> QED
    BY <2>1, FS_Product
<1>2. IsFiniteSet(K)
  <2> HIDE DEF D, g
  <2> QED
    BY <1>1, ImageIsFinite
<1>3. ASSUME NEW k \in Key
      PROVE  k \in K
  <2>1. k = [project |-> k.project, item |-> k.item, type |-> k.type, ctx |-> k.ctx]
        /\ k.project \in Projects /\ k.item \in Items /\ k.type \in Types /\ k.ctx \in Contexts
    BY DEF Key
  <2>2. <<<<k.project, k.item>>, <<k.type, k.ctx>>>> \in D
    BY <2>1
  <2>3. g[<<<<k.project, k.item>>, <<k.type, k.ctx>>>>] = k
    BY <2>1, <2>2
  <2> HIDE DEF D, g
  <2> QED
    BY <2>2, <2>3
<1> HIDE DEF K
<1>4. Key \subseteq K
  BY <1>3
<1> QED
  BY <1>2, <1>4, FS_Subset

LEMMA SamplesType ==
    ASSUME NEW c \in Table
    PROVE  Samples(c) \in [Key -> Nat] /\ \A k \in Key : Samples(c)[k] = c[k].samples
BY DEF Samples, Table, Row

LEMMA EligibleKeys ==
    ASSUME NEW db, NEW view, NEW i, NEW t
    PROVE  Eligible(db, view, i, t) \in SUBSET Key
BY DEF Eligible

(* What the knowledge of an item and a type claims.                         *)
LEMMA KnowledgeType ==
    ASSUME NEW db \in Table, NEW view \in Table, NEW i, NEW t
    PROVE  /\ Knowledge(db, view, i, t) \in Known
           /\ \/ Knowledge(db, view, i, t).tier = "none"
              \/ Knowledge(db, view, i, t).samples = Total(Samples(view), Eligible(db, view, i, t))
<1>1. PICK rows : rows = Eligible(db, view, i, t)
  OBVIOUS
<1>2. rows \in SUBSET Key /\ IsFiniteSet(Key)
  BY <1>1, EligibleKeys, KeysAreFinite
<1>3. Total(Samples(view), rows) \in Nat
  BY <1>2, SamplesType, TotalIsNatural
<1>4. Cap(Total([k \in Key |-> view[k].post], rows)) \in Int
  <2>1. [k \in Key |-> view[k].post] \in [Key -> Int]
    BY DEF Table, Row
  <2>2. Total([k \in Key |-> view[k].post], rows) \in Int
    BY <1>2, <2>1, TotalIsInteger
  <2> QED
    BY <2>2 DEF Cap, Sure
<1>5. Cardinality({k.project : k \in rows}) \in Nat
  <2>1. {k.project : k \in rows} \subseteq Projects
    BY <1>2 DEF Key
  <2>2. IsFiniteSet({k.project : k \in rows})
    BY <2>1, ProfileAssumption, FS_Subset
  <2> QED
    BY <2>2, FS_CardinalityType
<1>6. \A s, p, o, c : ConfidenceTier(s, p, o, c) \in {"none", "medium", "high"}
  BY DEF ConfidenceTier
<1>7. NoKnowledge \in Known /\ NoKnowledge.tier = "none"
  BY DEF NoKnowledge, Known
<1> QED
  BY <1>1, <1>3, <1>4, <1>5, <1>6, <1>7 DEF Knowledge, Known

LEMMA RebuiltType ==
    ASSUME NEW g \in Library, NEW db \in Table, NEW view \in Table, NEW i, NEW t
    PROVE  Rebuilt(g, db, view, i, t) \in Library
BY KnowledgeType DEF Rebuilt, Library

LEMMA LookupType ==
    ASSUME NEW c, NEW k \in Key
    PROVE  LookupKey(c, k) \in Key /\ LookupKey(c, k).project = k.project
BY ProfileAssumption DEF LookupKey, Key

LEMMA ViewType ==
    ASSUME NEW db \in Table, NEW m \in Table
    PROVE  /\ View(db, m) \in Table
           /\ \A k \in Key : View(db, m)[k] = IF Exists(m, k) THEN m[k] ELSE db[k]
BY DEF View, Table

LEMMA PreflightType ==
    ASSUME NEW db, NEW m, NEW g \in Library, NEW k \in Key
    PROVE  Preflight(db, m, g, k) \in Looked /\ Preflight(db, m, g, k).key.project = k.project
<1>1. LookupKey(db, k) \in Key /\ LookupKey(db, k).project = k.project
  BY LookupType
<1>2. g[<<k.item, k.type>>] \in Known
  BY DEF Key, Library
<1>3. NoKnowledge \in Known
  BY DEF NoKnowledge, Known
<1>4. \A p : Maturity(p) \in {"manual", "trusted", "confirmed", "tentative"}
  BY DEF Maturity
<1>5. Exists(db, LookupKey(db, k)) \in BOOLEAN /\ TrustedBaseline(db, k) \in BOOLEAN
  BY DEF Exists, TrustedBaseline
<1> QED
  BY <1>1, <1>2, <1>3, <1>4, <1>5 DEF Preflight, Looked

-----------------------------------------------------------------------------
(* What a transaction has written.                                          *)

Txn == [db : Table, mem : Table, kb : Library, acts : Seq(Activity), evidence : Nat]

LEMMA FlushedType ==
    ASSUME NEW row \in Row, NEW loaded \in Row, NEW new \in Row
    PROVE  /\ Flushed(row, loaded, new) \in Row
           /\ Flushed(row, loaded, new).samples =
                IF new.samples # loaded.samples THEN new.samples ELSE row.samples
           /\ Flushed(row, loaded, new).source =
                IF new.source # loaded.source THEN new.source ELSE row.source
           /\ row = loaded => Flushed(row, loaded, new) = new
<1>1. /\ Flushed(row, loaded, new) \in Row
      /\ Flushed(row, loaded, new).samples =
           IF new.samples # loaded.samples THEN new.samples ELSE row.samples
      /\ Flushed(row, loaded, new).source =
           IF new.source # loaded.source THEN new.source ELSE row.source
  BY DEF Row, Flushed
<1>2. row = loaded => Flushed(row, loaded, new) = new
  BY DEF Row, Flushed
<1> QED
  BY <1>1, <1>2

LEMMA RowTypes ==
    /\ NoRow \in Row /\ NoRow.source = "none" /\ NoRow.samples = 0
    /\ \A low \in BOOLEAN : NewRow("default", 0, low) \in Row
                            /\ NewRow("default", 0, low).samples = 0
                            /\ NewRow("default", 0, low).source = "default"
    /\ \A g \in Known : Seeded(g) \in Row /\ Seeded(g).samples = 0 /\ Seeded(g).source = "learned"
<1>1. NoRow \in Row /\ NoRow.source = "none" /\ NoRow.samples = 0
  BY DEF NoRow, Row, Sources
<1>2. ASSUME NEW low \in BOOLEAN
      PROVE  /\ NewRow("default", 0, low) \in Row /\ NewRow("default", 0, low).samples = 0
             /\ NewRow("default", 0, low).source = "default"
  <2>1. "default" \in Sources
    BY DEF Sources
  <2> QED
    BY <1>1, <2>1 DEF NewRow, Row
<1>3. ASSUME NEW g \in Known
      PROVE  Seeded(g) \in Row /\ Seeded(g).samples = 0 /\ Seeded(g).source = "learned"
  BY DEF Seeded, Row, Known, Sources
<1> QED
  BY <1>1, <1>2, <1>3

LEMMA ObservedTypes ==
    ASSUME NEW source \in {"ai", "learned"}, NEW w \in Int, NEW low \in BOOLEAN, NEW p \in Row
    PROVE  /\ NewRow(source, w, low) \in Row
           /\ NewRow(source, w, low).samples = 1 /\ NewRow(source, w, low).source = source
           /\ Observed(p, source, w, low) \in Row
           /\ Observed(p, source, w, low).source = source
           /\ Observed(p, source, w, low).samples = IF p.source = "default" THEN 1 ELSE p.samples + 1
<1>1. /\ NewRow(source, w, low) \in Row
      /\ NewRow(source, w, low).samples = 1 /\ NewRow(source, w, low).source = source
  BY DEF NewRow, Row, Sources
<1>2. source \in Sources /\ source # "default"
  BY DEF Sources
<1>3. p.samples \in Nat /\ p.post \in Int /\ Cap(p.post + 1) \in Int
  BY DEF Row, Cap, Sure
<1>4. PICK n \in Nat : n = IF p.source = "default" THEN 1 ELSE p.samples + 1
  BY <1>3
<1>5. PICK o \in Int : o = IF p.source = "default" \/ p.post < 0 THEN w ELSE Cap(p.post + 1)
  BY <1>3
<1>6. Observed(p, source, w, low) =
        [p EXCEPT !.source = source, !.hours = source, !.low = low, !.samples = n, !.post = o]
  BY <1>4, <1>5 DEF Observed, Row
<1> QED
  BY <1>1, <1>2, <1>4, <1>6 DEF Row

(* An observation leaves a profile alone, or writes one row of it.          *)
Observing(st, k, row, new) ==
    LET db == [st.db EXCEPT ![k] = row]
        m == [st.mem EXCEPT ![k] = new]
    IN  [db |-> db, mem |-> m, kb |-> Rebuilt(st.kb, db, View(db, m), k.item, k.type),
         acts |-> st.acts, evidence |-> st.evidence + 1]

LEMMA UpsertWrites ==
    ASSUME NEW st \in Txn, NEW k \in Key, NEW source \in {"ai", "learned"}, NEW w \in Int,
           NEW low \in BOOLEAN, NEW p \in Row, p = View(st.db, st.mem)[k]
    PROVE  \/ /\ Upsert(st, k, source, w, low) = st
              /\ Exists(st.db, k) /\ p.source = "manual"
           \/ /\ ~(Exists(st.db, k) /\ p.source = "manual")
              /\ \E row, new \in Row :
                /\ Upsert(st, k, source, w, low) = Observing(st, k, row, new)
                /\ row.source # "none" /\ new.source = source
                /\ p.samples <= st.db[k].samples =>
                     row.samples <= st.db[k].samples + 1 /\ new.samples <= row.samples
                /\ p = st.db[k] => row = new
<1> DEFINE new == IF Exists(st.db, k) THEN Observed(p, source, w, low)
                  ELSE NewRow(source, w, low)
           row == IF Exists(st.db, k) THEN Flushed(st.db[k], p, new) ELSE new
<1>1. st.db[k] \in Row
  BY DEF Txn, Table
<1>2. new \in Row /\ new.source = source
      /\ new.samples = IF Exists(st.db, k) /\ p.source # "default" THEN p.samples + 1 ELSE 1
  <2>1. /\ NewRow(source, w, low) \in Row
        /\ NewRow(source, w, low).samples = 1 /\ NewRow(source, w, low).source = source
        /\ Observed(p, source, w, low) \in Row
        /\ Observed(p, source, w, low).source = source
        /\ Observed(p, source, w, low).samples = IF p.source = "default" THEN 1 ELSE p.samples + 1
    BY ObservedTypes
  <2> QED
    BY <2>1
<1>3. CASE Exists(st.db, k) /\ p.source = "manual"
  BY <1>3 DEF Upsert
<1>4. CASE ~(Exists(st.db, k) /\ p.source = "manual")
  <2> DEFINE db == [st.db EXCEPT ![k] = row]
             m == [st.mem EXCEPT ![k] = new]
             g == Rebuilt(st.kb, db, View(db, m), k.item, k.type)
  <2>a. Upsert(st, k, source, w, low) =
          [st EXCEPT !.db = db, !.mem = m, !.evidence = @ + 1,
                     !.kb = Rebuilt(@, db, View(db, m), k.item, k.type)]
    BY <1>4, Zenon DEF Upsert
  <2>b. ASSUME NEW d, NEW e, NEW f
        PROVE  [st EXCEPT !.db = d, !.mem = e, !.evidence = @ + 1, !.kb = f] =
               [db |-> d, mem |-> e, kb |-> f, acts |-> st.acts, evidence |-> st.evidence + 1]
    <3>1. PICK x : x = [st EXCEPT !.db = d, !.mem = e, !.evidence = @ + 1, !.kb = f]
      OBVIOUS
    <3>2. st = [y \in {"db", "mem", "kb", "acts", "evidence"} |-> st[y]]
      BY DEF Txn
    <3>3. x = [y \in {"db", "mem", "kb", "acts", "evidence"} |-> x[y]]
      BY <3>1, <3>2
    <3>4. /\ x.db = d /\ x.mem = e /\ x.kb = f /\ x.acts = st.acts
          /\ x.evidence = st.evidence + 1
      BY <3>1, <3>2
    <3>5. x = [db |-> d, mem |-> e, kb |-> f, acts |-> st.acts, evidence |-> st.evidence + 1]
      BY <3>3, <3>4
    <3> QED
      BY <3>1, <3>5
  <2>1. Upsert(st, k, source, w, low) = Observing(st, k, row, new)
    BY <2>a, <2>b DEF Observing
  <2> HIDE DEF new
  <2>2. CASE Exists(st.db, k)
    <3>1. /\ row \in Row
          /\ row.samples = IF new.samples # p.samples THEN new.samples ELSE st.db[k].samples
          /\ row.source = IF new.source # p.source THEN new.source ELSE st.db[k].source
          /\ p = st.db[k] => row = new
      BY <1>1, <1>2, <2>2, FlushedType
    <3>2. row.source # "none"
      BY <1>2, <2>2, <3>1 DEF Exists
    <3>3. p.samples <= st.db[k].samples =>
            row.samples <= st.db[k].samples + 1 /\ new.samples <= row.samples
      BY <1>1, <1>2, <2>2, <3>1 DEF Row
    <3> HIDE DEF row
    <3> QED
      BY <1>2, <1>4, <2>1, <3>1, <3>2, <3>3
  <2>3. CASE ~Exists(st.db, k)
    <3>1. row = new /\ row.samples = 1
      BY <1>2, <2>3
    <3>2. row.samples <= st.db[k].samples + 1 /\ new.samples <= row.samples
      BY <1>1, <3>1 DEF Row
    <3> HIDE DEF row
    <3> QED
      BY <1>2, <1>4, <2>1, <3>1, <3>2
  <2> QED
    BY <2>2, <2>3
<1> QED
  BY <1>3, <1>4

-----------------------------------------------------------------------------
(* Evidence.  Each row is given a share of the observations that were made: *)
(* no less than the samples it holds, and no less than the activities with  *)
(* actual hours that refer to it, which a later actual puts back in.        *)

Live(k) == [key |-> k, live |-> TRUE, manual |-> FALSE]
Uses == [k \in Key |-> Cardinality(Recorded(Live(k)))]

Holds(samples, uses, n) ==
    \E share \in [Key -> Nat] :
        /\ Total(share, Key) <= n
        /\ \A k \in Key : samples[k] <= share[k] /\ uses[k] <= share[k]

LEMMA HoldsMore ==
    ASSUME NEW s \in [Key -> Nat], NEW c \in [Key -> Nat], NEW n \in Nat, Holds(s, c, n),
           NEW s2 \in [Key -> Nat], NEW c2 \in [Key -> Nat], NEW d \in Nat, NEW x \in Key,
           s2[x] <= s[x] + d \/ s2[x] <= c[x] + d,
           c2[x] <= s[x] + d \/ c2[x] <= c[x] + d,
           \A k \in Key \ {x} : s2[k] <= s[k] /\ c2[k] <= c[k]
    PROVE  Holds(s2, c2, n + d)
<1>1. PICK h \in [Key -> Nat] : Total(h, Key) <= n /\ \A k \in Key : s[k] <= h[k] /\ c[k] <= h[k]
  BY DEF Holds
<1>2. h[x] + d \in Nat
  OBVIOUS
<1>3. PICK g \in [Key -> Nat] : g = [h EXCEPT ![x] = h[x] + d]
  BY <1>2
<1>4. Total(g, Key) + h[x] = Total(h, Key) + g[x]
  <2>1. \A k \in Key \ {x} : h[k] = g[k]
    BY <1>3
  <2>2. h \in [Key -> Int] /\ g \in [Key -> Int]
    OBVIOUS
  <2> QED
    BY <2>1, <2>2, KeysAreFinite, TotalChanged
<1>5. Total(g, Key) \in Nat /\ Total(h, Key) \in Nat
  BY KeysAreFinite, TotalIsNatural
<1>6. g[x] = h[x] + d
  BY <1>3
<1>7. Total(g, Key) <= n + d
  BY <1>1, <1>4, <1>5, <1>6
<1>8. ASSUME NEW k \in Key
      PROVE  s2[k] <= g[k] /\ c2[k] <= g[k]
  <2>1. CASE k = x
    <3>1. s[x] <= h[x] /\ c[x] <= h[x] /\ s[x] \in Nat /\ c[x] \in Nat /\ h[x] \in Nat
          /\ s2[x] \in Nat /\ c2[x] \in Nat
      BY <1>1
    <3> QED
      BY <1>6, <2>1, <3>1
  <2>2. CASE k # x
    <3>1. s2[k] <= s[k] /\ c2[k] <= c[k] /\ s[k] <= h[k] /\ c[k] <= h[k] /\ g[k] = h[k]
      BY <1>1, <1>3, <2>2
    <3>2. s[k] \in Nat /\ c[k] \in Nat /\ h[k] \in Nat /\ s2[k] \in Nat /\ c2[k] \in Nat
      OBVIOUS
    <3> QED
      BY <3>1, <3>2
  <2> QED
    BY <2>1, <2>2
<1> QED
  BY <1>7, <1>8 DEF Holds

LEMMA RecordedFinite ==
    ASSUME TypeOK, NEW r
    PROVE  IsFiniteSet(Recorded(r)) /\ Cardinality(Recorded(r)) \in Nat
<1> DEFINE N == UNION {{u} \X (1..Len(acts[u])) : u \in Uploads}
<1>1. IsFiniteSet({{u} \X (1..Len(acts[u])) : u \in Uploads})
  <2> DEFINE f == [u \in Uploads |-> {u} \X (1..Len(acts[u]))]
  <2>1. {f[u] : u \in Uploads} = {{u} \X (1..Len(acts[u])) : u \in Uploads}
    OBVIOUS
  <2> HIDE DEF f
  <2>2. IsFiniteSet({f[u] : u \in Uploads})
    BY ProfileAssumption, ImageIsFinite
  <2> QED
    BY <2>1, <2>2
<1>2. \A u \in Uploads : IsFiniteSet({u} \X (1..Len(acts[u])))
  <2> SUFFICES ASSUME NEW u \in Uploads PROVE IsFiniteSet({u} \X (1..Len(acts[u])))
    OBVIOUS
  <2>1. Len(acts[u]) \in Int /\ 1 \in Int
    BY DEF TypeOK
  <2>2. IsFiniteSet(1..Len(acts[u])) /\ IsFiniteSet({u})
    BY <2>1, FS_Interval, FS_Singleton
  <2> QED
    BY <2>2, FS_Product
<1>3. IsFiniteSet(N)
  BY <1>1, <1>2, FS_UNION
<1>4. Recorded(r) \subseteq N
  BY DEF Recorded, TypeOK
<1>5. IsFiniteSet(Recorded(r))
  BY <1>3, <1>4, FS_Subset
<1> QED
  BY <1>5, FS_CardinalityType

LEMMA UsesType == TypeOK => Uses \in [Key -> Nat]
BY RecordedFinite DEF Uses

-----------------------------------------------------------------------------
(* Claims.                                                                  *)

(* A claim that rests on what it was computed from. *)
LEMMA NotClaimed ==
    ASSUME NEW db \in Table, NEW view \in Table, NEW x \in Items \X Types, NEW f,
           f[x] = Knowledge(db, view, x[1], x[2]),
           Eligible(db, view, x[1], x[2]) \subseteq Eligible(view, view, x[1], x[2])
    PROVE  x \notin Claimed(f, view)
<1>1. PICK E : E = Eligible(db, view, x[1], x[2])
  OBVIOUS
<1>2. PICK G : G = Eligible(view, view, x[1], x[2])
  OBVIOUS
<1>3. E \in SUBSET G /\ G \in SUBSET Key
  BY <1>1, <1>2, EligibleKeys
<1>4. PICK s \in [Key -> Nat] : s = Samples(view)
  BY SamplesType
<1>5. Total(s, E) <= Total(s, G)
  <2>1. \A k \in Key : s[k] <= s[k]
    OBVIOUS
  <2> QED
    BY <1>3, <2>1, KeysAreFinite, TotalGrows
<1>6. Total(s, E) \in Nat /\ Total(s, G) \in Nat
  BY <1>3, KeysAreFinite, TotalIsNatural
<1>7. f[x].tier = "none" \/ f[x].samples = Total(s, E)
  BY <1>1, <1>4, KnowledgeType
<1>8. ~(Total(s, G) < Total(s, E))
  BY <1>5, <1>6
<1> QED
  BY <1>2, <1>4, <1>7, <1>8 DEF Claimed

(* A claim whose rows are still there was there before. *)
LEMMA ClaimedBefore ==
    ASSUME NEW c \in Table, NEW d \in Table, NEW x \in Items \X Types, NEW g \in Library, NEW f,
           f[x] = g[x], x \in Claimed(f, d),
           \A k \in Eligible(c, c, x[1], x[2]) :
              k \in Eligible(d, d, x[1], x[2]) /\ c[k].samples <= d[k].samples
    PROVE  x \in Claimed(g, c)
<1>1. PICK E : E = Eligible(c, c, x[1], x[2])
  OBVIOUS
<1>2. PICK G : G = Eligible(d, d, x[1], x[2])
  OBVIOUS
<1>3. E \in SUBSET G /\ G \in SUBSET Key /\ E \in SUBSET Key
  BY <1>1, <1>2, EligibleKeys
<1>4. PICK s \in [Key -> Nat] : s = Samples(c)
  BY SamplesType
<1>5. PICK t \in [Key -> Nat] : t = Samples(d)
  BY SamplesType
<1>a. [k \in Key |-> IF k \in E THEN s[k] ELSE 0] \in [Key -> Nat]
  OBVIOUS
<1>6. PICK z \in [Key -> Nat] : z = [k \in Key |-> IF k \in E THEN s[k] ELSE 0]
  BY <1>a
<1>7. \A k \in Key : z[k] <= t[k]
  <2> SUFFICES ASSUME NEW k \in Key PROVE z[k] <= t[k]
    OBVIOUS
  <2>1. CASE k \in E
    BY <1>1, <1>4, <1>5, <1>6, <2>1, SamplesType
  <2>2. CASE k \notin E
    BY <1>6, <2>2
  <2> QED
    BY <2>1, <2>2
<1>8. Total(z, E) <= Total(t, G)
  BY <1>3, <1>7, KeysAreFinite, TotalGrows
<1>9. Total(z, E) = Total(s, E)
  <2>1. \A k \in E : z[k] = s[k]
    BY <1>3, <1>6
  <2>2. z \in [Key -> Int] /\ s \in [Key -> Int]
    OBVIOUS
  <2> QED
    BY <1>3, <2>1, <2>2, KeysAreFinite, TotalSame
<1>10. f[x].tier # "none" /\ Total(t, G) < f[x].samples
  BY <1>2, <1>5 DEF Claimed
<1>11. Total(s, E) \in Nat /\ Total(t, G) \in Nat /\ g[x].samples \in Nat
  BY <1>3, KeysAreFinite, TotalIsNatural DEF Library, Known
<1>12. Total(s, E) < g[x].samples
  BY <1>8, <1>9, <1>10, <1>11
<1> QED
  BY <1>1, <1>4, <1>10, <1>12 DEF Claimed

-----------------------------------------------------------------------------
(* The transaction of an upload while it writes.                            *)

OneRef(a) == \A r, q \in a.ref : r = q /\ (r.live => ~r.manual)

(* What the session holds of a row is in the table, with no fewer samples.  *)
Backed(m, c, project) ==
    \A k \in Key : Exists(m, k) =>
        k.project = project /\ Exists(c, k) /\ m[k].samples <= c[k].samples

TxnOK(st, u) ==
    /\ st \in Txn
    /\ Backed(st.mem, st.db, ProjectOf[u])
    /\ \A k \in Key : k.project # ProjectOf[u] => st.db[k] = cache[k]
    /\ Holds(Samples(st.db), Uses, st.evidence)
    /\ \A n \in DOMAIN st.acts : ~st.acts[n].actual /\ OneRef(st.acts[n])

(* A session that is not stale agrees with the table. *)
Agrees(st) ==
    /\ \A k \in Key : Exists(st.mem, k) => st.mem[k] = st.db[k]
    /\ \A k \in Key : cache[k].source = "manual" => st.db[k] = cache[k]
    /\ Claimed(st.kb, st.db) \subseteq Claimed(kb, cache)

LEMMA ObservingFields ==
    ASSUME NEW st \in Txn, NEW k \in Key, NEW row \in Row, NEW new \in Row
    PROVE  LET tx == Observing(st, k, row, new)
           IN  /\ tx \in Txn
               /\ tx.db[k] = row /\ tx.mem[k] = new
               /\ \A j \in Key \ {k} : tx.db[j] = st.db[j] /\ tx.mem[j] = st.mem[j]
               /\ tx.acts = st.acts /\ tx.evidence = st.evidence + 1
               /\ tx.kb = Rebuilt(st.kb, tx.db, View(tx.db, tx.mem), k.item, k.type)
<1>1. PICK db : db = [st.db EXCEPT ![k] = row]
  OBVIOUS
<1>2. PICK m : m = [st.mem EXCEPT ![k] = new]
  OBVIOUS
<1>3. /\ db \in Table /\ m \in Table /\ db[k] = row /\ m[k] = new
      /\ \A j \in Key \ {k} : db[j] = st.db[j] /\ m[j] = st.mem[j]
  BY <1>1, <1>2 DEF Txn, Table
<1>4. PICK g : g = Rebuilt(st.kb, db, View(db, m), k.item, k.type)
  OBVIOUS
<1>5. g \in Library
  <2>1. View(db, m) \in Table
    BY <1>3, ViewType
  <2>2. st.kb \in Library
    BY DEF Txn
  <2> QED
    BY <1>3, <1>4, <2>1, <2>2, RebuiltType
<1>6. st.acts \in Seq(Activity) /\ st.evidence + 1 \in Nat
  BY DEF Txn
<1>7. Observing(st, k, row, new) =
        [db |-> db, mem |-> m, kb |-> g, acts |-> st.acts, evidence |-> st.evidence + 1]
  BY <1>1, <1>2, <1>4 DEF Observing
<1> QED
  BY <1>3, <1>4, <1>5, <1>6, <1>7 DEF Txn

LEMMA ObservingKeeps ==
    ASSUME TypeOK, NEW u \in Uploads, NEW st, TxnOK(st, u), NEW k \in Key,
           k.project = ProjectOf[u], NEW row \in Row, NEW new \in Row,
           row.source # "none", new.samples <= row.samples,
           row.samples <= st.db[k].samples + 1
    PROVE  TxnOK(Observing(st, k, row, new), u)
<1>1. st \in Txn
  BY DEF TxnOK
<1>2. PICK tx : tx = Observing(st, k, row, new)
  OBVIOUS
<1>3. PICK db : db = tx.db
  OBVIOUS
<1>4. PICK m : m = tx.mem
  OBVIOUS
<1>5. /\ tx \in Txn /\ tx.db = db /\ tx.mem = m /\ tx.acts = st.acts
      /\ tx.evidence = st.evidence + 1
      /\ db \in Table /\ m \in Table /\ db[k] = row /\ m[k] = new
      /\ \A j \in Key \ {k} : db[j] = st.db[j] /\ m[j] = st.mem[j]
  <2>1. LET x == Observing(st, k, row, new)
        IN  /\ x \in Txn /\ x.db[k] = row /\ x.mem[k] = new
            /\ \A j \in Key \ {k} : x.db[j] = st.db[j] /\ x.mem[j] = st.mem[j]
            /\ x.acts = st.acts /\ x.evidence = st.evidence + 1
    BY ONLY <1>1, k \in Key, row \in Row, new \in Row, ObservingFields
  <2>2. /\ tx \in Txn /\ tx.acts = st.acts /\ tx.evidence = st.evidence + 1
        /\ db[k] = row /\ m[k] = new
        /\ \A j \in Key \ {k} : db[j] = st.db[j] /\ m[j] = st.mem[j]
    BY ONLY <1>2, <1>3, <1>4, <2>1
  <2> QED
    BY <1>3, <1>4, <2>2 DEF Txn
<1>6. Backed(m, db, ProjectOf[u])
  BY <1>5 DEF TxnOK, Backed, Exists
<1>7. \A j \in Key : j.project # ProjectOf[u] => db[j] = cache[j]
  BY <1>5 DEF TxnOK
<1>8. Holds(Samples(db), Uses, st.evidence + 1)
  <2>1. st.db \in Table /\ st.evidence \in Nat
    BY <1>1 DEF Txn
  <2>2. PICK s \in [Key -> Nat] : s = Samples(st.db) /\ \A j \in Key : s[j] = st.db[j].samples
    BY <2>1, SamplesType
  <2>3. PICK t \in [Key -> Nat] : t = Samples(db) /\ \A j \in Key : t[j] = db[j].samples
    BY <1>5, SamplesType
  <2>4. PICK c \in [Key -> Nat] : c = Uses
    BY UsesType
  <2>5. Holds(s, c, st.evidence)
    BY <2>2, <2>4 DEF TxnOK
  <2>6. t[k] <= s[k] + 1 /\ c[k] <= c[k] + 1
    BY <1>5, <2>2, <2>3
  <2>7. \A j \in Key \ {k} : t[j] <= s[j] /\ c[j] <= c[j]
    BY <1>5, <2>2, <2>3
  <2>8. Holds(t, c, st.evidence + 1)
    BY <2>1, <2>5, <2>6, <2>7, HoldsMore
  <2> QED
    BY <2>3, <2>4, <2>8
<1> QED
  BY <1>2, <1>5, <1>6, <1>7, <1>8 DEF TxnOK

LEMMA ObservingAgrees ==
    ASSUME TypeOK, NEW st \in Txn, Agrees(st), NEW k \in Key, NEW row \in Row,
           ~(Exists(st.db, k) /\ st.db[k].source = "manual")
    PROVE  Agrees(Observing(st, k, row, row))
<1>2. PICK tx : tx = Observing(st, k, row, row)
  OBVIOUS
<1>3. PICK db : db = tx.db
  OBVIOUS
<1>4. PICK m : m = tx.mem
  OBVIOUS
<1>5. /\ tx.db = db /\ tx.mem = m
      /\ tx.kb = Rebuilt(st.kb, db, View(db, m), k.item, k.type)
      /\ db \in Table /\ m \in Table /\ db[k] = row /\ m[k] = row
      /\ \A j \in Key \ {k} : db[j] = st.db[j] /\ m[j] = st.mem[j]
  <2>1. /\ tx \in Txn
        /\ tx.kb = Rebuilt(st.kb, db, View(db, m), k.item, k.type)
        /\ db[k] = row /\ m[k] = row
        /\ \A j \in Key \ {k} : db[j] = st.db[j] /\ m[j] = st.mem[j]
    BY <1>2, <1>3, <1>4, ObservingFields
  <2> QED
    BY <1>3, <1>4, <2>1 DEF Txn
<1>6. \A j \in Key : Exists(m, j) => m[j] = db[j]
  BY <1>5 DEF Agrees, Exists
<1>7. \A j \in Key : cache[j].source = "manual" => db[j] = cache[j]
  BY <1>5 DEF Agrees, Exists
<1>8. View(db, m) = db
  BY <1>5, <1>6 DEF View, Table
<1>9. ASSUME NEW x \in Claimed(tx.kb, db)
      PROVE  x \in Claimed(kb, cache)
  <2>1. x \in Items \X Types /\ x = <<x[1], x[2]>> /\ k.item \in Items /\ k.type \in Types
    BY DEF Claimed, Key
  <2>2. st.kb \in Library /\ st.db \in Table
    BY DEF Txn
  <2>3. CASE x = <<k.item, k.type>>
    <3>1. tx.kb[x] = Knowledge(db, db, x[1], x[2])
      BY <1>5, <1>8, <2>1, <2>2, <2>3 DEF Rebuilt, Library
    <3> QED
      BY <1>5, <1>9, <2>1, <3>1, NotClaimed
  <2>4. CASE x # <<k.item, k.type>>
    <3>1. tx.kb[x] = st.kb[x]
      BY <1>5, <2>1, <2>2, <2>4 DEF Rebuilt, Library
    <3>2. ASSUME NEW j \in Eligible(st.db, st.db, x[1], x[2])
          PROVE  j \in Eligible(db, db, x[1], x[2]) /\ st.db[j].samples <= db[j].samples
      <4>1. j \in Key /\ j.item = x[1] /\ j.type = x[2]
        BY DEF Eligible
      <4>2. db[j] = st.db[j] /\ st.db[j].samples \in Nat
        BY <1>5, <2>1, <2>2, <2>4, <4>1 DEF Table, Row
      <4> QED
        BY <4>2 DEF Eligible
    <3>3. x \in Claimed(st.kb, st.db)
      BY <1>5, <1>9, <2>1, <2>2, <3>1, <3>2, ClaimedBefore
    <3> QED
      BY <3>3 DEF Agrees
  <2> QED
    BY <2>3, <2>4
<1> QED
  BY <1>2, <1>5, <1>6, <1>7, <1>9 DEF Agrees

LEMMA UpsertKeeps ==
    ASSUME TypeOK, NEW u \in Uploads, NEW st, TxnOK(st, u), NEW k \in Key,
           k.project = ProjectOf[u], NEW source \in {"ai", "learned"}, NEW w \in Int,
           NEW low \in BOOLEAN
    PROVE  LET new == Upsert(st, k, source, w, low)
           IN  TxnOK(new, u) /\ (Agrees(st) => Agrees(new)) /\ new.acts = st.acts
<1>1. st \in Txn /\ st.db \in Table /\ st.mem \in Table
  BY DEF TxnOK, Txn
<1>2. PICK p \in Row : p = View(st.db, st.mem)[k]
  BY <1>1, ViewType DEF Table
<1>3. p = (IF Exists(st.mem, k) THEN st.mem[k] ELSE st.db[k]) /\ st.db[k] \in Row
  BY <1>1, <1>2, ViewType DEF Table
<1>4. p.samples <= st.db[k].samples
  BY <1>3 DEF TxnOK, Backed, Row
<1>5. Agrees(st) => p = st.db[k]
  BY <1>3 DEF Agrees
<1>6. CASE Upsert(st, k, source, w, low) = st
  BY <1>6
<1>7. CASE Upsert(st, k, source, w, low) # st
  <2>1. /\ ~(Exists(st.db, k) /\ p.source = "manual")
        /\ \E row, new \in Row :
              /\ Upsert(st, k, source, w, low) = Observing(st, k, row, new)
              /\ row.source # "none" /\ new.source = source
              /\ p.samples <= st.db[k].samples =>
                   row.samples <= st.db[k].samples + 1 /\ new.samples <= row.samples
              /\ p = st.db[k] => row = new
    BY <1>1, <1>2, <1>7, UpsertWrites
  <2>2. PICK row \in Row, new \in Row :
              /\ Upsert(st, k, source, w, low) = Observing(st, k, row, new)
              /\ row.source # "none"
              /\ row.samples <= st.db[k].samples + 1 /\ new.samples <= row.samples
              /\ p = st.db[k] => row = new
    BY <1>4, <2>1
  <2>3. TxnOK(Observing(st, k, row, new), u)
    BY <2>2, ObservingKeeps
  <2>4. Agrees(st) => Agrees(Observing(st, k, row, new))
    BY <1>1, <1>5, <2>1, <2>2, ObservingAgrees
  <2>5. Observing(st, k, row, new).acts = st.acts
    BY <1>1, <2>2, ObservingFields
  <2> QED
    BY <2>2, <2>3, <2>4, <2>5
<1> QED
  BY <1>6, <1>7

(* A row that holds no observation changes nothing of what is claimed.      *)
LEMMA InsertKeeps ==
    ASSUME TypeOK, NEW u \in Uploads, NEW st, TxnOK(st, u), NEW k \in Key,
           k.project = ProjectOf[u], NEW row \in Row, row.source # "none", row.samples = 0
    PROVE  LET new == InsertIfAbsent(st, k, row)
           IN  TxnOK(new, u) /\ (Agrees(st) => Agrees(new)) /\ new.acts = st.acts
<1>1. /\ st \in Txn /\ st.db \in Table /\ st.mem \in Table /\ st.kb \in Library
      /\ st.evidence \in Nat
  BY DEF TxnOK, Txn
<1>2. CASE Exists(st.db, k)
  BY <1>2 DEF InsertIfAbsent
<1>3. CASE ~Exists(st.db, k)
  <2>1. PICK db \in Table : db = [st.db EXCEPT ![k] = row]
    BY <1>1 DEF Table
  <2>2. db[k] = row /\ \A j \in Key \ {k} : db[j] = st.db[j]
    BY <1>1, <2>1 DEF Table
  <2>3. PICK tx : tx = InsertIfAbsent(st, k, row)
    OBVIOUS
  <2>4. /\ tx \in Txn /\ tx.db = db /\ tx.mem = st.mem /\ tx.kb = st.kb
        /\ tx.acts = st.acts /\ tx.evidence = st.evidence
    BY <1>1, <1>3, <2>1, <2>3 DEF InsertIfAbsent, Txn
  <2>5. Backed(st.mem, db, ProjectOf[u])
    BY <1>3, <2>2 DEF TxnOK, Backed, Exists
  <2>6. \A j \in Key : j.project # ProjectOf[u] => db[j] = cache[j]
    BY <2>2 DEF TxnOK
  <2>7. Holds(Samples(db), Uses, st.evidence)
    <3>1. \A j \in Key : Samples(db)[j] <= Samples(st.db)[j]
      <4> SUFFICES ASSUME NEW j \in Key PROVE Samples(db)[j] <= Samples(st.db)[j]
        OBVIOUS
      <4>1. Samples(db)[j] = db[j].samples /\ Samples(st.db)[j] = st.db[j].samples
            /\ st.db[j].samples \in Nat
        BY <1>1, SamplesType DEF Table, Row
      <4> QED
        BY <2>2, <4>1
    <3>2. PICK share \in [Key -> Nat] :
            /\ Total(share, Key) <= st.evidence
            /\ \A j \in Key : Samples(st.db)[j] <= share[j] /\ Uses[j] <= share[j]
      BY DEF TxnOK, Holds
    <3>3. \A j \in Key : Samples(db)[j] \in Nat /\ Samples(st.db)[j] \in Nat
      BY <1>1, SamplesType
    <3>4. \A j \in Key : Samples(db)[j] <= share[j]
      BY <3>1, <3>2, <3>3
    <3> QED
      BY <3>2, <3>4 DEF Holds
  <2>8. TxnOK(tx, u)
    BY <2>4, <2>5, <2>6, <2>7 DEF TxnOK
  <2>9. ASSUME Agrees(st) PROVE Agrees(tx)
    <3>1. \A j \in Key : Exists(st.mem, j) => st.mem[j] = db[j]
      BY <1>3, <2>2, <2>9 DEF Agrees, TxnOK, Backed
    <3>2. \A j \in Key : cache[j].source = "manual" => db[j] = cache[j]
      BY <1>3, <2>2, <2>9 DEF Agrees, Exists
    <3>3. ASSUME NEW x \in Claimed(st.kb, db)
          PROVE  x \in Claimed(kb, cache)
      <4>1. x \in Items \X Types
        BY DEF Claimed
      <4>2. ASSUME NEW j \in Eligible(st.db, st.db, x[1], x[2])
            PROVE  j \in Eligible(db, db, x[1], x[2]) /\ st.db[j].samples <= db[j].samples
        <5>1. j \in Key /\ j # k
          BY <1>3 DEF Eligible, Exists
        <5>2. db[j] = st.db[j] /\ st.db[j].samples \in Nat
          BY <1>1, <2>2, <5>1 DEF Table, Row
        <5> QED
          BY <5>2 DEF Eligible
      <4>3. x \in Claimed(st.kb, st.db)
        BY <1>1, <3>3, <4>1, <4>2, ClaimedBefore
      <4> QED
        BY <2>9, <4>3 DEF Agrees
    <3> QED
      BY <2>4, <3>1, <3>2, <3>3 DEF Agrees
  <2> QED
    BY <2>3, <2>4, <2>8, <2>9
<1> QED
  BY <1>2, <1>3

LEMMA AppendKeeps ==
    ASSUME TypeOK, NEW u \in Uploads, NEW st, TxnOK(st, u), NEW a \in Activity, ~a.actual, OneRef(a)
    PROVE  LET new == [st EXCEPT !.acts = Append(@, a)]
           IN  TxnOK(new, u) /\ (Agrees(st) => Agrees(new))
<1>1. st \in Txn /\ st.acts \in Seq(Activity)
  BY DEF TxnOK, Txn
<1>2. PICK as \in Seq(Activity) : as = Append(st.acts, a)
  <2>1. Append(st.acts, a) \in Seq(Activity)
    BY <1>1, AppendProperties
  <2> QED
    BY <2>1
<1>3. \A n \in DOMAIN as : ~as[n].actual /\ OneRef(as[n])
  BY <1>1, <1>2 DEF TxnOK
<1>4. PICK tx : tx = [st EXCEPT !.acts = as]
  OBVIOUS
<1>5. /\ tx \in Txn /\ tx.db = st.db /\ tx.mem = st.mem /\ tx.kb = st.kb /\ tx.acts = as
      /\ tx.evidence = st.evidence
  BY <1>1, <1>4 DEF Txn
<1>6. TxnOK(tx, u) /\ (Agrees(st) => Agrees(tx))
  BY <1>3, <1>5 DEF TxnOK, Agrees
<1> QED
  BY <1>2, <1>4, <1>6

LEMMA ReferType ==
    ASSUME NEW k \in Key, NEW live \in BOOLEAN, NEW manual \in BOOLEAN
    PROVE  /\ Refer(k, live, manual) \subseteq Ref
           /\ \A r, q \in Refer(k, live, manual) : r = q /\ (r.live => ~r.manual)
<1>1. PICK m \in BOOLEAN : m = (~live /\ manual)
  OBVIOUS
<1>2. Refer(k, live, manual) = {[key |-> k, live |-> live, manual |-> m]}
  BY <1>1, Zenon DEF Refer
<1>3. live => ~m
  BY <1>1
<1>4. [key |-> k, live |-> live, manual |-> m] \in Ref
  BY DEF Ref
<1> QED
  BY <1>2, <1>3, <1>4

LEMMA ResolveKeeps ==
    ASSUME TypeOK, NEW u \in Uploads, NEW st, TxnOK(st, u), NEW row \in Line, NEW p \in Looked,
           p.key.project = ProjectOf[u], NEW answer \in Int, NEW first
    PROVE  LET new == Resolve(st, row, p, answer, first)
           IN  TxnOK(new, u) /\ (Agrees(st) => Agrees(new))
<1> DEFINE k == p.key
           low == row.low \/ (p.hit /\ View(st.db, st.mem)[k].low)
           asked == answer # NoAnswer
           live == IF p.hit /\ first /\ ~asked THEN Exists(st.mem, k) ELSE TRUE
           st2 == CASE p.hit -> IF asked THEN Upsert(st, k, "ai", answer, low) ELSE st
                    [] ~p.hit /\ p.baseline -> Upsert(st, k, "learned", 0, row.low)
                    [] ~p.hit /\ ~p.baseline ->
                         IF p.global.tier = "high" THEN InsertIfAbsent(st, k, Seeded(p.global))
                         ELSE IF asked THEN Upsert(st, k, "ai", answer, row.low)
                         ELSE InsertIfAbsent(st, k, NewRow("default", 0, TRUE))
           ref == IF row.seeded THEN {} ELSE Refer(k, live, p.tier = "manual")
           a == [item |-> row.item, type |-> row.type, ctx |-> row.ctx, actual |-> FALSE,
                 ref |-> ref]
           Good(x) == TxnOK(x, u) /\ (Agrees(st) => Agrees(x))
<1>1. k \in Key /\ k.project = ProjectOf[u] /\ p.hit \in BOOLEAN /\ p.baseline \in BOOLEAN
      /\ p.global \in Known /\ row.low \in BOOLEAN /\ row.seeded \in BOOLEAN
      /\ row.item \in Items /\ row.type \in Types /\ row.ctx \in Contexts
  BY DEF Looked, Line
<1>2. low \in BOOLEAN
  OBVIOUS
<1>3. live \in BOOLEAN
  BY DEF Exists
<1>4. Good(st)
  OBVIOUS
<1>5. \A l \in BOOLEAN : Good(Upsert(st, k, "ai", answer, l))
  BY <1>1, UpsertKeeps
<1>6. Good(Upsert(st, k, "learned", 0, row.low))
  BY <1>1, UpsertKeeps
<1>7. Good(InsertIfAbsent(st, k, Seeded(p.global)))
  <2>1. Seeded(p.global) \in Row /\ Seeded(p.global).samples = 0 /\ Seeded(p.global).source # "none"
    BY <1>1, RowTypes
  <2> QED
    BY <1>1, <2>1, InsertKeeps
<1>8. Good(InsertIfAbsent(st, k, NewRow("default", 0, TRUE)))
  <2>1. /\ NewRow("default", 0, TRUE) \in Row /\ NewRow("default", 0, TRUE).samples = 0
        /\ NewRow("default", 0, TRUE).source # "none"
    BY RowTypes
  <2> QED
    BY <1>1, <2>1, InsertKeeps
<1>9. a \in Activity /\ ~a.actual /\ OneRef(a)
  <2>1. ref \subseteq Ref /\ \A r, q \in ref : r = q /\ (r.live => ~r.manual)
    <3>1. CASE row.seeded
      BY <3>1
    <3>2. CASE ~row.seeded
      <4>1. (p.tier = "manual") \in BOOLEAN
        OBVIOUS
      <4>2. ref = Refer(k, live, p.tier = "manual")
        BY <3>2
      <4> HIDE DEF ref, live, k
      <4>3. /\ Refer(k, live, p.tier = "manual") \subseteq Ref
            /\ \A r, q \in Refer(k, live, p.tier = "manual") : r = q /\ (r.live => ~r.manual)
        BY <1>1, <1>3, <4>1, ReferType
      <4> QED
        BY <4>2, <4>3
    <3> QED
      BY <3>1, <3>2
  <2> HIDE DEF ref
  <2> QED
    BY <1>1, <2>1 DEF Activity, OneRef
<1>10. Resolve(st, row, p, answer, first) = [st2 EXCEPT !.acts = Append(@, a)]
  BY DEF Resolve
<1> HIDE DEF a, k, low
<1>11. Good(st2)
  BY <1>1, <1>2, <1>4, <1>5, <1>6, <1>7, <1>8
<1> HIDE DEF st2
<1>12. TxnOK([st2 EXCEPT !.acts = Append(@, a)], u)
       /\ (Agrees(st2) => Agrees([st2 EXCEPT !.acts = Append(@, a)]))
  BY <1>9, <1>11, AppendKeeps
<1> QED
  BY <1>10, <1>11, <1>12

-----------------------------------------------------------------------------
(* The inductive invariant.                                                 *)

(* No redirect of an item leads back to it.                                 *)
RedirectsEnd == NoCircle(Items, into)

(* The project guard: one upload of a project materializes at a time.       *)
RunsAlone ==
    \A u, v \in Uploads :
        phase[u] = "running" /\ phase[v] = "running" /\ ProjectOf[u] = ProjectOf[v] => u = v

SessionsAreBacked ==
    \A u \in Uploads :
        /\ Backed(mem[u], cache, ProjectOf[u])
        /\ phase[u] # "running" => \A k \in Key : ~Exists(mem[u], k)
        /\ phase[u] # "done" => acts[u] = <<>>
        /\ \A n \in DOMAIN pre[u] : pre[u][n].p.key.project = ProjectOf[u]
        /\ \A n \in DOMAIN acts[u] : OneRef(acts[u][n])

Inv ==
    /\ TypeOK
    /\ RedirectsEnd
    /\ RunsAlone
    /\ SessionsAreBacked
    /\ Holds(Samples(cache), Uses, evidence)

LEMMA RowKeyType ==
    ASSUME NEW u \in Uploads, NEW i \in Items, NEW t \in Types, NEW c \in Contexts, NEW row,
           row.item = i, row.type = t, row.ctx = c
    PROVE  /\ RowKey(u, row) \in Key /\ RowKey(u, row).project = ProjectOf[u]
           /\ RowKey(u, row).item = i /\ RowKey(u, row).type = t
BY ProfileAssumption DEF RowKey, Key

LEMMA CanonicalType ==
    ASSUME TypeOK, RedirectsEnd, NEW i \in Items
    PROVE  Canonical(i) \in Items /\ into[Canonical(i)] = Canonical(i)
<1>1. Canonical(i) = EndOf(Items, into)[i]
  BY DEF Canonical, EndOf
<1> QED
  BY <1>1, EndIsActive DEF TypeOK, RedirectsEnd

LEMMA ProfiledKeeps ==
    ASSUME Inv, NEW u \in Uploads, NEW st, TxnOK(st, u), NEW n \in 1..Len(pre[u]),
           NEW answer \in Int
    PROVE  LET new == Profiled(st, u, n, answer)
           IN  TxnOK(new, u) /\ (Agrees(st) => Agrees(new))
<1>1. PICK first : first = (n \in Firsts([m \in DOMAIN pre[u] |-> pre[u][m].p]))
  OBVIOUS
<1>2. PICK row : row = pre[u][n].row
  OBVIOUS
<1>3. PICK p : p = IF first THEN pre[u][n].p
                   ELSE Preflight(st.db, st.mem, st.kb, RowKey(u, row))
  OBVIOUS
<1>4. n \in DOMAIN pre[u] /\ pre[u][n] \in [row : Line, p : Looked]
  <2>1. pre[u] \in Seq([row : Line, p : Looked])
    BY DEF Inv, TypeOK
  <2> QED
    BY <2>1, ElementOfSeq, LenProperties
<1>5. row \in Line /\ pre[u][n].p \in Looked /\ pre[u][n].p.key.project = ProjectOf[u]
  BY <1>2, <1>4 DEF Inv, SessionsAreBacked
<1>6. RowKey(u, row) \in Key /\ RowKey(u, row).project = ProjectOf[u]
  BY <1>5, RowKeyType DEF Line
<1>7. st.kb \in Library
  BY DEF TxnOK, Txn
<1>8. p \in Looked /\ p.key.project = ProjectOf[u]
  BY <1>3, <1>5, <1>6, <1>7, PreflightType
<1>9. Profiled(st, u, n, answer) = Resolve(st, row, p, answer, first)
  BY <1>1, <1>2, <1>3 DEF Profiled
<1>10. TypeOK
  BY DEF Inv
<1> QED
  BY <1>5, <1>8, <1>9, <1>10, ResolveKeeps

LEMMA OpenedKeeps ==
    ASSUME Inv, NEW u \in Uploads
    PROVE  /\ TxnOK(Opened(u), u)
           /\ ~Stale(u) => Agrees(Opened(u))
<1>1. PICK st : st = Opened(u)
  OBVIOUS
<1>2. st = [db |-> cache, mem |-> mem[u], kb |-> kb, acts |-> <<>>, evidence |-> evidence]
  BY <1>1 DEF Opened
<1>3. <<>> \in Seq(Activity) /\ DOMAIN <<>> = {}
  OBVIOUS
<1>4. st \in Txn
  BY <1>2, <1>3 DEF Txn, Inv, TypeOK
<1>5. TxnOK(st, u)
  BY <1>2, <1>3, <1>4 DEF TxnOK, Inv, SessionsAreBacked
<1>6. ~Stale(u) => Agrees(st)
  BY <1>2 DEF Stale, Agrees
<1> QED
  BY <1>1, <1>5, <1>6

(* What the transaction of an upload commits.                               *)
LEMMA MaterializedKeeps ==
    ASSUME Inv, NEW u \in Uploads, NEW a, NEW o, \A n \in 1..Len(pre[u]) : a[n] \in Int,
           \A n \in 1..Len(pre[u]) : o[n] \in 1..Len(pre[u])
    PROVE  /\ TxnOK(Materialized(u, a, o), u)
           /\ ~Stale(u) => Agrees(Materialized(u, a, o))
<1> DEFINE V == {st \in Txn : TxnOK(st, u) /\ (~Stale(u) => Agrees(st))}
           L == Len(pre[u])
           F == [x \in V \X (1..L) |-> Profiled(x[1], u, o[x[2]], a[o[x[2]]])]
           Solves(h) == h = [n \in 0..L |-> IF n = 0 THEN Opened(u)
                                            ELSE Profiled(h[n - 1], u, o[n], a[o[n]])]
           h == CHOOSE h : Solves(h)
<1>1. L \in Nat
  BY DEF Inv, TypeOK
<1>2. Opened(u) \in V
  BY OpenedKeeps DEF TxnOK
<1>3. ASSUME NEW st \in V, NEW n \in 1..L
      PROVE  Profiled(st, u, o[n], a[o[n]]) \in V
  <2>1. LET new == Profiled(st, u, o[n], a[o[n]])
        IN  TxnOK(new, u) /\ (Agrees(st) => Agrees(new))
    BY ProfiledKeeps
  <2> QED
    BY <2>1 DEF TxnOK
<1>4. Materialized(u, a, o) = h[L]
  BY DEF Materialized
<1> HIDE DEF V, L
<1>5. F \in [V \X (1..L) -> V] /\ \A st \in V, n \in 1..L : F[<<st, n>>] = Profiled(st, u, o[n], a[o[n]])
  BY <1>3
<1> HIDE DEF F
<1>6. PICK g : g \in [0..L -> V] /\
         \A n \in 0..L : g[n] = IF n = 0 THEN Opened(u) ELSE F[<<g[n - 1], n>>]
  <2>1. PICK g : Steps(g, L, V, Opened(u), F)
    BY <1>1, <1>2, <1>5, StepsExist
  <2> QED
    BY <2>1 DEF Steps
<1>7. ASSUME NEW n \in 0..L
      PROVE  g[n] = IF n = 0 THEN Opened(u) ELSE Profiled(g[n - 1], u, o[n], a[o[n]])
  <2>1. n # 0 => n \in 1..L /\ n - 1 \in 0..L
    BY <1>1
  <2>2. n # 0 => g[n - 1] \in V
    BY <1>6, <2>1
  <2> QED
    BY <1>5, <1>6, <2>1, <2>2
<1>8. Solves(g)
  BY <1>6, <1>7
<1> HIDE DEF Solves
<1>9. Solves(h)
  BY <1>8
<1> HIDE DEF h
<1>10. \A n \in 0..L : h[n] = IF n = 0 THEN Opened(u) ELSE Profiled(h[n - 1], u, o[n], a[o[n]])
  BY <1>9 DEF Solves
<1> DEFINE S == {n \in Nat : n <= L => h[n] \in V}
<1>11. 0 \in S
  BY <1>1, <1>2, <1>10
<1>12. ASSUME NEW n \in Nat, n \in S
       PROVE  n + 1 \in S
  <2> SUFFICES ASSUME n + 1 <= L PROVE h[n + 1] \in V
    OBVIOUS
  <2>1. n + 1 \in 0..L /\ n + 1 \in 1..L /\ n + 1 # 0 /\ (n + 1) - 1 = n /\ n <= L
    BY <1>1
  <2>2. h[n] \in V
    BY <1>12, <2>1
  <2>3. h[n + 1] = Profiled(h[n], u, o[n + 1], a[o[n + 1]])
    BY <1>10, <2>1
  <2> QED
    BY <1>3, <2>1, <2>2, <2>3
<1> HIDE DEF S
<1>13. Nat \subseteq S
  BY <1>11, <1>12, Induction
<1>14. h[L] \in V
  BY <1>1, <1>13 DEF S
<1> QED
  BY <1>4, <1>14 DEF V

LEMMA InitInv == Init => Inv
<1> SUFFICES ASSUME Init PROVE Inv
  OBVIOUS
<1>1. PICK empty \in Table : empty = [k \in Key |-> NoRow]
  BY RowTypes DEF Table
<1>2. [x \in Items \X Types |-> NoKnowledge] \in Library
  BY DEF Library, Known, NoKnowledge
<1>3. \A u \in Uploads : acts[u] = <<>> /\ pre[u] = <<>>
  BY DEF Init
<1>4. TypeOK
  BY <1>1, <1>2 DEF Init, TypeOK
<1>5. RedirectsEnd
  BY DEF Init, RedirectsEnd, NoCircle
<1>6. RunsAlone
  BY DEF Init, RunsAlone
<1>7. SessionsAreBacked
  BY <1>3, RowTypes DEF Init, SessionsAreBacked, Backed, Exists
<1>8. Holds(Samples(cache), Uses, evidence)
  <2>1. PICK none \in [Key -> Nat] : none = [k \in Key |-> 0]
    OBVIOUS
  <2>2. Total(none, Key) = 0
    <3>1. \A S \in SUBSET Key : Total(none, S) \in Nat
      BY KeysAreFinite, TotalIsNatural
    <3> DEFINE T == {S \in SUBSET Key : Total(none, S) = 0}
    <3>2. ASSUME NEW S \in SUBSET Key, \A x \in S : S \ {x} \in T
          PROVE  S \in T
      <4>1. none \in [Key -> Int] /\ \A x \in S : none[x] = 0
        BY <2>1
      <4>2. CASE S = {}
        BY <4>1, <4>2, KeysAreFinite, TotalOfChosen
      <4>3. CASE S # {}
        <5>1. PICK x \in S : TRUE
          BY <4>3
        <5>2. Total(none, S) = none[x] + Total(none, S \ {x})
          BY <4>1, <5>1, KeysAreFinite, TotalWithout
        <5> QED
          BY <3>2, <4>1, <5>1, <5>2
      <4> QED
        BY <4>2, <4>3
    <3> HIDE DEF T
    <3>3. \A S : (\A s \in SUBSET Key : (\A x \in s : s \ {x} \in S) => s \in S) => SUBSET Key \subseteq S
      BY ONLY KeysAreFinite, FiniteSetInduction
    <3>4. SUBSET Key \subseteq T
      BY <3>2, <3>3, Zenon
    <3> QED
      BY <3>4 DEF T
  <2>3. \A k \in Key : Samples(cache)[k] = 0
    BY RowTypes DEF Init, Samples
  <2>4. \A k \in Key : Uses[k] = 0
    <3>1. \A r : Recorded(r) = {}
      BY <1>3 DEF Recorded
    <3> QED
      BY <3>1, FS_EmptySet DEF Uses
  <2> QED
    BY <2>1, <2>2, <2>3, <2>4 DEF Holds, Init
<1> QED
  BY <1>4, <1>5, <1>6, <1>7, <1>8 DEF Inv

(* What does not touch the cache, the activities or the history.            *)
LEMMA SharesStay ==
    ASSUME Holds(Samples(cache), Uses, evidence), UNCHANGED <<cache, acts, evidence>>
    PROVE  Holds(Samples(cache), Uses, evidence)'
<1>1. \A r : Recorded(r)' = Recorded(r)
  BY DEF Recorded
<1>2. Uses' = Uses
  BY <1>1 DEF Uses
<1>3. Samples(cache)' = Samples(cache)
  BY DEF Samples
<1> QED
  BY <1>2, <1>3 DEF Holds

LEMMA StartInv ==
    ASSUME Inv, NEW u \in Uploads, Start(u)
    PROVE  Inv'
<1> DEFINE rows == [n \in DOMAIN Programme[u] |->
                      [Programme[u][n] EXCEPT !.item = Canonical(@)]]
           ps == [n \in DOMAIN rows |-> Preflight(cache, mem[u], kb, RowKey(u, rows[n]))]
           read == {ps[n].key : n \in {m \in DOMAIN ps : ps[m].hit}}
           looked == [n \in DOMAIN ps |-> [row |-> rows[n], p |-> ps[n]]]
           session0 == [k \in Key |-> IF k \in read THEN cache[k] ELSE NoRow]
<1>1. TypeOK /\ RedirectsEnd /\ RunsAlone /\ SessionsAreBacked
  BY DEF Inv
<1>2. Programme[u] \in Seq(Line)
  BY ProfileAssumption DEF Line
<1>3. PICK L \in Nat : L = Len(Programme[u]) /\ DOMAIN Programme[u] = 1..L
  BY <1>2, LenProperties
<1>4. ASSUME NEW n \in 1..L
      PROVE  rows[n] \in Line
  <2>1. Programme[u][n] \in Line
    BY <1>2, <1>3, ElementOfSeq
  <2>2. Canonical(Programme[u][n].item) \in Items
    BY <1>1, <2>1, CanonicalType DEF Line
  <2> QED
    BY <1>3, <2>1, <2>2 DEF Line
<1>5. DOMAIN rows = 1..L /\ DOMAIN ps = 1..L
  BY <1>3
<1> HIDE DEF rows
<1>6. ASSUME NEW n \in 1..L
      PROVE  ps[n] \in Looked /\ ps[n].key.project = ProjectOf[u]
  <2>1. RowKey(u, rows[n]) \in Key /\ RowKey(u, rows[n]).project = ProjectOf[u]
    BY <1>4, RowKeyType DEF Line
  <2>2. kb \in Library
    BY <1>1 DEF TypeOK
  <2>3. Preflight(cache, mem[u], kb, RowKey(u, rows[n])) \in Looked
        /\ Preflight(cache, mem[u], kb, RowKey(u, rows[n])).key.project = RowKey(u, rows[n]).project
    BY <2>1, <2>2, PreflightType
  <2> QED
    BY <1>5, <2>1, <2>3
<1>7. read \subseteq Key /\ \A k \in read : k.project = ProjectOf[u]
  <2> HIDE DEF ps
  <2> QED
    BY <1>5, <1>6 DEF Looked
<1> HIDE DEF ps
<1>8. looked \in Seq([row : Line, p : Looked]) /\ DOMAIN looked = 1..L
      /\ \A n \in 1..L : looked[n].p.key.project = ProjectOf[u]
  <2>1. looked = [n \in 1..L |-> [row |-> rows[n], p |-> ps[n]]]
    BY <1>5
  <2>2. looked \in [1..L -> [row : Line, p : Looked]]
    BY <1>4, <1>6, <2>1
  <2>3. DOMAIN looked = 1..L /\ \A n \in 1..L : looked[n].p.key.project = ProjectOf[u]
    BY <1>6, <2>1
  <2> HIDE DEF looked
  <2>4. looked \in Seq([row : Line, p : Looked])
    BY <2>2, SeqDef
  <2> QED
    BY <2>3, <2>4
<1> HIDE DEF read
<1>9. session0 \in Table /\ Backed(session0, cache, ProjectOf[u])
  <2>1. session0 \in Table
    BY <1>1, RowTypes DEF TypeOK, Table
  <2>2. \A k \in Key : Exists(session0, k) =>
           k.project = ProjectOf[u] /\ session0[k] = cache[k] /\ cache[k].samples \in Nat
    BY <1>1, <1>7, RowTypes DEF Exists, TypeOK, Table, Row
  <2> HIDE DEF session0
  <2> QED
    BY <2>1, <2>2 DEF Backed, Exists
<1>10. /\ pre' = [pre EXCEPT ![u] = looked] /\ mem' = [mem EXCEPT ![u] = session0]
       /\ phase' = [phase EXCEPT ![u] = "running"] /\ phase[u] = "new"
       /\ \A v \in Uploads : ProjectOf[v] = ProjectOf[u] => phase[v] # "running"
       /\ UNCHANGED <<into, class, promoted, cache, kb, acts, evidence,
                      corrections, actuals, merges>>
  BY DEF Start, looked, session0, read, ps, rows
<1> HIDE DEF looked, session0
<1>11. TypeOK'
  BY <1>1, <1>8, <1>9, <1>10 DEF TypeOK
<1>12. RedirectsEnd' /\ RunsAlone'
  BY <1>1, <1>10 DEF RedirectsEnd, RunsAlone, TypeOK, NoCircle, Closed
<1>13. SessionsAreBacked'
  <2> SUFFICES ASSUME NEW v \in Uploads
               PROVE  /\ Backed(mem[v], cache, ProjectOf[v])'
                      /\ phase'[v] # "running" => \A k \in Key : ~Exists(mem'[v], k)
                      /\ phase'[v] # "done" => acts'[v] = <<>>
                      /\ \A n \in DOMAIN pre'[v] : pre'[v][n].p.key.project = ProjectOf[v]
                      /\ \A n \in DOMAIN acts'[v] : OneRef(acts'[v][n])
    BY DEF SessionsAreBacked
  <2>1. CASE v = u
    <3>1. mem'[v] = session0 /\ pre'[v] = looked /\ phase'[v] = "running" /\ cache' = cache
          /\ acts'[v] = acts[v]
      BY <1>1, <1>10, <2>1 DEF TypeOK
    <3> QED
      BY <1>1, <1>8, <1>9, <1>10, <2>1, <3>1 DEF SessionsAreBacked
  <2>2. CASE v # u
    <3>1. mem'[v] = mem[v] /\ pre'[v] = pre[v] /\ phase'[v] = phase[v] /\ cache' = cache
          /\ acts'[v] = acts[v]
      BY <1>1, <1>10, <2>2 DEF TypeOK
    <3> QED
      BY <1>1, <3>1 DEF SessionsAreBacked
  <2> QED
    BY <2>1, <2>2
<1>14. Holds(Samples(cache), Uses, evidence)'
  BY <1>10, SharesStay DEF Inv
<1> QED
  BY <1>11, <1>12, <1>13, <1>14 DEF Inv

(* What an upload commits: its transaction, and its session is closed.      *)
LEMMA FinishWrites ==
    ASSUME Inv, NEW u \in Uploads, Finish(u)
    PROVE  \E end :
              /\ TxnOK(end, u) /\ (~Stale(u) => Agrees(end))
              /\ cache' = end.db /\ kb' = end.kb /\ evidence' = end.evidence
              /\ acts' = [acts EXCEPT ![u] = end.acts]
<1> DEFINE ps == [n \in DOMAIN pre[u] |-> pre[u][n].p]
<1>1. PICK a \in Answers(ps), o \in Grouped(ps) :
        LET end == Materialized(u, a, o)
        IN  /\ cache' = end.db /\ kb' = end.kb
            /\ acts' = [acts EXCEPT ![u] = end.acts]
            /\ evidence' = end.evidence
  BY Zenon DEF Finish
<1>2. DOMAIN ps = 1..Len(pre[u])
  BY LenProperties DEF Inv, TypeOK
<1>3. \A n \in 1..Len(pre[u]) : a[n] \in Int
  <2>1. a \in [DOMAIN ps -> Weights \cup {NoAnswer}]
    BY DEF Answers
  <2>2. Weights \cup {NoAnswer} \subseteq Int
    BY ProfileAssumption DEF NoAnswer
  <2> HIDE DEF ps
  <2> QED
    BY <1>2, <2>1, <2>2
<1>4. \A n \in 1..Len(pre[u]) : o[n] \in 1..Len(pre[u])
  <2>1. o \in [DOMAIN ps -> DOMAIN ps]
    BY DEF Grouped
  <2> HIDE DEF ps
  <2> QED
    BY <1>2, <2>1
<1>5. TxnOK(Materialized(u, a, o), u) /\ (~Stale(u) => Agrees(Materialized(u, a, o)))
  BY <1>3, <1>4, MaterializedKeeps
<1> QED
  BY <1>1, <1>5

LEMMA FinishInv ==
    ASSUME Inv, NEW u \in Uploads, Finish(u)
    PROVE  Inv'
<1>1. TypeOK /\ RedirectsEnd /\ RunsAlone /\ SessionsAreBacked
  BY DEF Inv
<1>2. PICK end :
        /\ TxnOK(end, u) /\ (~Stale(u) => Agrees(end))
        /\ cache' = end.db /\ kb' = end.kb /\ evidence' = end.evidence
        /\ acts' = [acts EXCEPT ![u] = end.acts]
  BY FinishWrites
<1>3. /\ end.db \in Table /\ end.kb \in Library /\ end.acts \in Seq(Activity)
      /\ end.evidence \in Nat
  BY <1>2 DEF TxnOK, Txn
<1>4. PICK none \in Table : none = [k \in Key |-> NoRow]
  BY RowTypes DEF Table
<1>5. /\ phase[u] = "running" /\ phase' = [phase EXCEPT ![u] = "done"]
      /\ pre' = [pre EXCEPT ![u] = <<>>] /\ mem' = [mem EXCEPT ![u] = none]
      /\ UNCHANGED <<into, class, promoted, corrections, actuals, merges>>
  BY <1>4 DEF Finish
<1>6. TypeOK'
  <2>1. <<>> \in Seq([row : Line, p : Looked])
    BY EmptySeq
  <2>2. pre' \in [Uploads -> Seq([row : Line, p : Looked])]
    BY <1>1, <1>5, <2>1 DEF TypeOK
  <2>3. acts' \in [Uploads -> Seq(Activity)]
    BY <1>1, <1>2, <1>3 DEF TypeOK
  <2> QED
    BY <1>1, <1>2, <1>3, <1>5, <2>2, <2>3 DEF TypeOK
<1>7. RedirectsEnd' /\ RunsAlone'
  BY <1>1, <1>5 DEF RedirectsEnd, RunsAlone, TypeOK, NoCircle, Closed
<1>8. SessionsAreBacked'
  <2> SUFFICES ASSUME NEW v \in Uploads
               PROVE  /\ Backed(mem[v], cache, ProjectOf[v])'
                      /\ phase'[v] # "running" => \A k \in Key : ~Exists(mem'[v], k)
                      /\ phase'[v] # "done" => acts'[v] = <<>>
                      /\ \A n \in DOMAIN pre'[v] : pre'[v][n].p.key.project = ProjectOf[v]
                      /\ \A n \in DOMAIN acts'[v] : OneRef(acts'[v][n])
    BY DEF SessionsAreBacked
  <2>1. CASE v = u
    <3>1. mem'[v] = none /\ pre'[v] = <<>> /\ phase'[v] = "done" /\ acts'[v] = end.acts
      BY <1>1, <1>2, <1>5, <2>1 DEF TypeOK
    <3>2. \A k \in Key : ~Exists(none, k)
      BY <1>4, RowTypes DEF Exists
    <3>3. \A n \in DOMAIN end.acts : OneRef(end.acts[n])
      BY <1>2 DEF TxnOK
    <3>4. Backed(none, cache', ProjectOf[v])
      BY <3>2 DEF Backed
    <3>5. Backed(mem[v], cache, ProjectOf[v])'
      BY <3>1, <3>4
    <3> QED
      BY <3>1, <3>2, <3>3, <3>5
  <2>2. CASE v # u
    <3>1. mem'[v] = mem[v] /\ pre'[v] = pre[v] /\ phase'[v] = phase[v] /\ acts'[v] = acts[v]
      BY <1>1, <1>2, <1>5, <2>2 DEF TypeOK
    <3>2. Backed(mem[v], cache', ProjectOf[v])
      <4>1. CASE phase[v] = "running"
        <5>1. ProjectOf[v] # ProjectOf[u]
          BY <1>1, <1>5, <2>2, <4>1 DEF RunsAlone
        <5>2. \A k \in Key : k.project = ProjectOf[v] => cache'[k] = cache[k]
          BY <1>2, <5>1 DEF TxnOK
        <5> QED
          BY <1>1, <5>2 DEF SessionsAreBacked, Backed, Exists
      <4>2. CASE phase[v] # "running"
        BY <1>1, <4>2 DEF SessionsAreBacked, Backed
      <4> QED
        BY <4>1, <4>2
    <3>3. Backed(mem[v], cache, ProjectOf[v])'
      BY <3>1, <3>2
    <3> QED
      BY <1>1, <3>1, <3>3 DEF SessionsAreBacked
  <2> QED
    BY <2>1, <2>2
<1>9. Holds(Samples(cache), Uses, evidence)'
  <2>1. ASSUME NEW r
        PROVE  Recorded(r)' = Recorded(r)
    <3>1. ASSUME NEW v \in Uploads
          PROVE  {n \in DOMAIN acts'[v] : acts'[v][n].actual /\ r \in acts'[v][n].ref} =
                 {n \in DOMAIN acts[v] : acts[v][n].actual /\ r \in acts[v][n].ref}
      <4>1. CASE v = u
        <5>1. acts[v] = <<>> /\ acts'[v] = end.acts
          BY <1>1, <1>2, <1>5, <4>1 DEF TypeOK, SessionsAreBacked
        <5>2. \A n \in DOMAIN end.acts : ~end.acts[n].actual
          BY <1>2 DEF TxnOK
        <5> QED
          BY <5>1, <5>2
      <4>2. CASE v # u
        BY <1>1, <1>2, <4>2 DEF TypeOK
      <4> QED
        BY <4>1, <4>2
    <3> QED
      BY <3>1 DEF Recorded
  <2>2. Uses' = Uses
    BY <2>1 DEF Uses
  <2>3. Samples(cache)' = Samples(end.db)
    BY <1>2 DEF Samples
  <2> QED
    BY <1>2, <2>2, <2>3 DEF TxnOK
<1> QED
  BY <1>6, <1>7, <1>8, <1>9 DEF Inv

LEMMA FailInv ==
    ASSUME Inv, NEW u \in Uploads, Fail(u)
    PROVE  Inv'
<1>1. TypeOK /\ RedirectsEnd /\ RunsAlone /\ SessionsAreBacked
  BY DEF Inv
<1>2. PICK none \in Table : none = [k \in Key |-> NoRow]
  BY RowTypes DEF Table
<1>3. /\ phase[u] = "running" /\ phase' = [phase EXCEPT ![u] = "done"]
      /\ pre' = [pre EXCEPT ![u] = <<>>] /\ mem' = [mem EXCEPT ![u] = none]
      /\ UNCHANGED <<into, class, promoted, cache, kb, acts, evidence,
                     corrections, actuals, merges>>
  BY <1>2 DEF Fail
<1>4. TypeOK'
  <2>1. <<>> \in Seq([row : Line, p : Looked])
    BY EmptySeq
  <2>2. pre' \in [Uploads -> Seq([row : Line, p : Looked])]
    BY <1>1, <1>3, <2>1 DEF TypeOK
  <2> QED
    BY <1>1, <1>3, <2>2 DEF TypeOK
<1>5. RedirectsEnd' /\ RunsAlone'
  BY <1>1, <1>3 DEF RedirectsEnd, RunsAlone, TypeOK, NoCircle, Closed
<1>6. \A k \in Key : ~Exists(none, k)
  BY <1>2, RowTypes DEF Exists
<1>7. SessionsAreBacked'
  <2> SUFFICES ASSUME NEW v \in Uploads
               PROVE  /\ Backed(mem[v], cache, ProjectOf[v])'
                      /\ phase'[v] # "running" => \A k \in Key : ~Exists(mem'[v], k)
                      /\ phase'[v] # "done" => acts'[v] = <<>>
                      /\ \A n \in DOMAIN pre'[v] : pre'[v][n].p.key.project = ProjectOf[v]
                      /\ \A n \in DOMAIN acts'[v] : OneRef(acts'[v][n])
    BY DEF SessionsAreBacked
  <2>1. CASE v = u
    <3>1. mem'[v] = none /\ pre'[v] = <<>> /\ phase'[v] = "done" /\ acts'[v] = acts[v]
      BY <1>1, <1>3, <2>1 DEF TypeOK
    <3>2. Backed(none, cache', ProjectOf[v])
      BY <1>6 DEF Backed
    <3>3. Backed(mem[v], cache, ProjectOf[v])'
      BY <3>1, <3>2
    <3> QED
      BY <1>1, <1>6, <3>1, <3>3 DEF SessionsAreBacked
  <2>2. CASE v # u
    <3>1. mem'[v] = mem[v] /\ pre'[v] = pre[v] /\ phase'[v] = phase[v] /\ cache' = cache
          /\ acts'[v] = acts[v]
      BY <1>1, <1>3, <2>2 DEF TypeOK
    <3> QED
      BY <1>1, <3>1 DEF SessionsAreBacked
  <2> QED
    BY <2>1, <2>2
<1>8. Holds(Samples(cache), Uses, evidence)'
  BY <1>3, SharesStay DEF Inv
<1> QED
  BY <1>4, <1>5, <1>7, <1>8 DEF Inv

(* What leaves all but the promoted signals alone.                          *)
LEMMA StutterInv ==
    ASSUME Inv, UNCHANGED <<into, class, cache, kb, session, acts, evidence,
                            corrections, actuals, merges>>
    PROVE  Inv'
<1>1. TypeOK' /\ RedirectsEnd' /\ RunsAlone'
  BY DEF Inv, TypeOK, RedirectsEnd, NoCircle, Closed, RunsAlone, session
<1>2. SessionsAreBacked'
  BY DEF Inv, SessionsAreBacked, session
<1>3. Holds(Samples(cache), Uses, evidence)'
  BY SharesStay DEF Inv
<1> QED
  BY <1>1, <1>2, <1>3 DEF Inv

-----------------------------------------------------------------------------
(* Corrections.                                                             *)

LEMMA WithoutType ==
    ASSUME NEW c \in Table, NEW gone
    PROVE  /\ Without(c, gone) \in Table
           /\ \A k \in Key : Without(c, gone)[k] = IF k \in gone THEN NoRow ELSE c[k]
BY RowTypes DEF Without, Table

LEMMA RebuildType ==
    ASSUME NEW g \in Library, NEW c \in Table, NEW pairs
    PROVE  /\ Rebuild(g, c, pairs) \in Library
           /\ \A x \in Items \X Types :
                Rebuild(g, c, pairs)[x] = IF x \in pairs THEN Knowledge(c, c, x[1], x[2]) ELSE g[x]
<1>1. \A x \in Items \X Types : Knowledge(c, c, x[1], x[2]) \in Known /\ g[x] \in Known
  BY KnowledgeType DEF Library
<1>2. DOMAIN g = Items \X Types
  BY DEF Library
<1> QED
  BY <1>1, <1>2 DEF Rebuild, Library

(* An activity whose row is gone refers to it, and to nothing else, as dead. *)
LEMMA OrphanType ==
    ASSUME TypeOK, SessionsAreBacked, NEW gone
    PROVE  \A u \in Uploads :
              /\ Orphan(acts, cache, gone)[u] \in Seq(Activity)
              /\ DOMAIN Orphan(acts, cache, gone)[u] = DOMAIN acts[u]
              /\ \A n \in DOMAIN acts[u] :
                   LET b == Orphan(acts, cache, gone)[u][n]
                   IN  /\ b \in Activity /\ OneRef(b) /\ b.actual = acts[u][n].actual
                       /\ \A k \in Key : Live(k) \in b.ref => Live(k) \in acts[u][n].ref
<1> DEFINE dead(r) == [r EXCEPT !.live = FALSE, !.manual = cache[r.key].source = "manual"]
           new(r) == IF r.live /\ r.key \in gone THEN dead(r) ELSE r
           left(u, n) == {new(r) : r \in acts[u][n].ref}
           act(u, n) == [acts[u][n] EXCEPT !.ref = left(u, n)]
           o == Orphan(acts, cache, gone)
<1>1. ASSUME NEW r \in Ref
      PROVE  new(r) \in Ref /\ (new(r).live => new(r) = r)
  <2>1. CASE r.live /\ r.key \in gone
    <3>1. PICK m \in BOOLEAN : m = (cache[r.key].source = "manual")
      OBVIOUS
    <3>2. new(r) = [r EXCEPT !.live = FALSE, !.manual = m]
      BY <2>1, <3>1
    <3> HIDE DEF new
    <3> QED
      BY <3>2 DEF Ref
  <2>2. CASE ~(r.live /\ r.key \in gone)
    BY <2>2
  <2> QED
    BY <2>1, <2>2
<1>2. o = [u \in Uploads |-> [n \in DOMAIN acts[u] |-> act(u, n)]]
  BY DEF Orphan
<1> HIDE DEF new
<1>3. ASSUME NEW u \in Uploads, NEW n \in DOMAIN acts[u]
      PROVE  /\ act(u, n) \in Activity /\ OneRef(act(u, n))
             /\ act(u, n).actual = acts[u][n].actual
             /\ \A k \in Key : Live(k) \in act(u, n).ref => Live(k) \in acts[u][n].ref
  <2>1. acts[u] \in Seq(Activity)
    BY DEF TypeOK
  <2>2. acts[u][n] \in Activity
    BY <2>1, ElementOfSeq, LenProperties
  <2>3. acts[u][n].ref \subseteq Ref
    BY <2>2 DEF Activity
  <2>4. OneRef(acts[u][n])
    BY DEF SessionsAreBacked
  <2>5. left(u, n) \subseteq Ref
    BY <1>1, <2>3
  <2>6. \A r, q \in left(u, n) : r = q /\ (r.live => ~r.manual)
    BY <1>1, <2>3, <2>4 DEF OneRef
  <2>7. \A k \in Key : Live(k) \in left(u, n) => Live(k) \in acts[u][n].ref
    <3> SUFFICES ASSUME NEW k \in Key, NEW r \in acts[u][n].ref, new(r) = Live(k)
                 PROVE  Live(k) \in acts[u][n].ref
      OBVIOUS
    <3>1. new(r).live
      BY DEF Live
    <3> QED
      BY <1>1, <2>3, <3>1
  <2> HIDE DEF left
  <2>8. act(u, n) \in Activity /\ act(u, n).ref = left(u, n)
        /\ act(u, n).actual = acts[u][n].actual
    BY <2>2, <2>5 DEF Activity
  <2> QED
    BY <2>6, <2>7, <2>8 DEF OneRef
<1> HIDE DEF act, o
<1>4. ASSUME NEW u \in Uploads
      PROVE  o[u] \in Seq(Activity) /\ DOMAIN o[u] = DOMAIN acts[u]
             /\ \A n \in DOMAIN acts[u] : o[u][n] = act(u, n)
  <2>1. o[u] = [n \in DOMAIN acts[u] |-> act(u, n)]
    BY <1>2
  <2>2. acts[u] \in Seq(Activity)
    BY DEF TypeOK
  <2>3. PICK L \in Nat : DOMAIN acts[u] = 1..L
    BY <2>2, LenProperties
  <2>4. o[u] \in [1..L -> Activity]
    BY <1>3, <2>1, <2>3
  <2>5. o[u] \in Seq(Activity)
    BY <2>4, SeqDef
  <2> QED
    BY <2>1, <2>5
<1> QED
  BY <1>3, <1>4 DEF o

(* An activity at most is counted in addition. *)
LEMMA UsesBound ==
    ASSUME TypeOK, NEW k \in Key, NEW x
    PROVE  /\ Recorded(Live(k))' \subseteq Recorded(Live(k)) => Uses'[k] <= Uses[k] /\ Uses'[k] \in Nat
           /\ Recorded(Live(k))' \subseteq Recorded(Live(k)) \cup {x} =>
                Uses'[k] <= Uses[k] + 1 /\ Uses'[k] \in Nat
<1>1. PICK A : A = Recorded(Live(k))
  OBVIOUS
<1>2. PICK B : B = Recorded(Live(k))'
  OBVIOUS
<1>3. IsFiniteSet(A) /\ Cardinality(A) \in Nat
  BY <1>1, RecordedFinite
<1>4. Uses[k] = Cardinality(A) /\ Uses'[k] = Cardinality(B)
  BY <1>1, <1>2 DEF Uses
<1>5. B \subseteq A => Cardinality(B) <= Cardinality(A) /\ Cardinality(B) \in Nat
  BY <1>3, FS_Subset, FS_CardinalityType
<1>6. B \subseteq A \cup {x} => Cardinality(B) <= Cardinality(A) + 1 /\ Cardinality(B) \in Nat
  <2>1. IsFiniteSet(A \cup {x}) /\ Cardinality(A \cup {x}) <= Cardinality(A) + 1
        /\ Cardinality(A \cup {x}) \in Nat
    <3>1. IsFiniteSet(A \cup {x})
          /\ (Cardinality(A \cup {x}) = Cardinality(A) + 1
              \/ Cardinality(A \cup {x}) = Cardinality(A))
      BY <1>3, FS_AddElement
    <3> QED
      BY <1>3, <3>1
  <2>2. B \subseteq A \cup {x} =>
           Cardinality(B) <= Cardinality(A \cup {x}) /\ Cardinality(B) \in Nat
    BY <2>1, FS_Subset, FS_CardinalityType
  <2> QED
    BY <1>3, <2>1, <2>2
<1> QED
  BY <1>1, <1>2, <1>4, <1>5, <1>6

(* What both corrections do to the cache, the sessions and the activities:  *)
(* d observations are added, of the row k, and the rows that go are gone    *)
(* everywhere.                                                              *)
Correction(u, n, i, t, gone, ref, d, k) ==
    /\ Corrects(u, n, i, t)
    /\ cache' \in Table /\ kb' \in Library /\ mem' = Forget(gone) /\ evidence' = evidence + d
    /\ acts' = [Orphan(acts, cache, gone) EXCEPT ![u][n].type = t, ![u][n].ref = ref]
    /\ \A r \in ref : d = 1 /\ r = Live(k)
    /\ \A j \in Key \ {k} : cache'[j].samples <= cache[j].samples
    /\ cache'[k].samples <= cache[k].samples + d
    /\ \A j \in Key : j \notin gone /\ Exists(cache, j) =>
          Exists(cache', j) /\ cache[j].samples <= cache'[j].samples
    /\ UNCHANGED <<into, promoted, phase, pre, actuals, merges>>

LEMMA CorrectionKeeps ==
    ASSUME Inv, NEW u \in Uploads, NEW n \in DOMAIN acts[u], NEW i \in Items, NEW t \in Types,
           NEW gone, NEW ref \in SUBSET Ref, NEW d \in {0, 1}, NEW k \in Key,
           Correction(u, n, i, t, gone, ref, d, k)
    PROVE  Inv'
<1>0. /\ Corrects(u, n, i, t)
      /\ cache' \in Table /\ kb' \in Library /\ mem' = Forget(gone) /\ evidence' = evidence + d
      /\ acts' = [Orphan(acts, cache, gone) EXCEPT ![u][n].type = t, ![u][n].ref = ref]
      /\ \A r \in ref : d = 1 /\ r = Live(k)
      /\ \A j \in Key \ {k} : cache'[j].samples <= cache[j].samples
      /\ cache'[k].samples <= cache[k].samples + d
      /\ \A j \in Key : j \notin gone /\ Exists(cache, j) =>
            Exists(cache', j) /\ cache[j].samples <= cache'[j].samples
      /\ UNCHANGED <<into, promoted, phase, pre, actuals, merges>>
  BY DEF Correction
<1>1. TypeOK /\ RedirectsEnd /\ RunsAlone /\ SessionsAreBacked
  BY DEF Inv
<1>2. PICK o : o = Orphan(acts, cache, gone)
  OBVIOUS
<1>3. /\ o \in [Uploads -> Seq(Activity)]
      /\ \A v \in Uploads : DOMAIN o[v] = DOMAIN acts[v]
      /\ \A v \in Uploads : \A m \in DOMAIN acts[v] :
           /\ o[v][m] \in Activity /\ OneRef(o[v][m]) /\ o[v][m].actual = acts[v][m].actual
           /\ \A j \in Key : Live(j) \in o[v][m].ref => Live(j) \in acts[v][m].ref
  <2>1. DOMAIN o = Uploads /\ o = [v \in Uploads |-> o[v]]
    BY <1>2 DEF Orphan
  <2>2. \A v \in Uploads : o[v] \in Seq(Activity)
    BY <1>1, <1>2, OrphanType
  <2> QED
    BY <1>1, <1>2, <2>1, <2>2, OrphanType
<1>4. PICK b : b = [o[u][n] EXCEPT !.type = t, !.ref = ref]
  OBVIOUS
<1>5. b \in Activity /\ OneRef(b) /\ b.ref = ref /\ b.actual = acts[u][n].actual
  <2>1. b \in Activity /\ b.ref = ref /\ b.actual = acts[u][n].actual
    <3>1. PICK x \in Activity : x = o[u][n] /\ x.actual = acts[u][n].actual
      BY <1>3
    <3>2. b = [x EXCEPT !.type = t, !.ref = ref]
      BY <1>4, <3>1
    <3> QED
      BY <3>1, <3>2 DEF Activity
  <2>2. \A r \in ref : r = Live(k) /\ ~r.manual
    BY <1>0 DEF Live
  <2> QED
    BY <2>1, <2>2 DEF OneRef
<1>6. PICK s : s = [o[u] EXCEPT ![n] = b]
  OBVIOUS
<1>7. s \in Seq(Activity) /\ DOMAIN s = DOMAIN acts[u] /\ s[n] = b
      /\ \A m \in DOMAIN acts[u] \ {n} : s[m] = o[u][m]
  <2>1. o[u] \in Seq(Activity) /\ DOMAIN o[u] = DOMAIN acts[u]
    BY <1>3
  <2>2. PICK L \in Nat : DOMAIN o[u] = 1..L /\ o[u] \in [1..L -> Activity]
    BY <2>1, LenProperties
  <2>3. s \in [1..L -> Activity] /\ DOMAIN s = 1..L
    BY <1>5, <1>6, <2>1, <2>2
  <2>4. s \in Seq(Activity)
    BY <2>3, SeqDef
  <2> QED
    BY <1>6, <2>1, <2>2, <2>4
<1>8. acts' = [o EXCEPT ![u] = s]
  <2>1. acts' = [o EXCEPT ![u][n].type = t, ![u][n].ref = ref]
    BY <1>0, <1>2
  <2>2. [o EXCEPT ![u][n].type = t, ![u][n].ref = ref] = [o EXCEPT ![u] = s]
    BY <1>3, <1>4, <1>6
  <2> QED
    BY <2>1, <2>2
<1>9. acts' \in [Uploads -> Seq(Activity)] /\ acts'[u] = s
      /\ \A v \in Uploads \ {u} : acts'[v] = o[v]
  BY <1>3, <1>7, <1>8
<1>10. \A v \in Uploads :
          /\ DOMAIN acts'[v] = DOMAIN acts[v]
          /\ \A m \in DOMAIN acts[v] :
               /\ OneRef(acts'[v][m]) /\ acts'[v][m].actual = acts[v][m].actual
               /\ \/ acts'[v][m].ref = ref /\ v = u /\ m = n
                  \/ \A j \in Key : Live(j) \in acts'[v][m].ref => Live(j) \in acts[v][m].ref
  <2> SUFFICES ASSUME NEW v \in Uploads
               PROVE  /\ DOMAIN acts'[v] = DOMAIN acts[v]
                      /\ \A m \in DOMAIN acts[v] :
                           /\ OneRef(acts'[v][m]) /\ acts'[v][m].actual = acts[v][m].actual
                           /\ \/ acts'[v][m].ref = ref /\ v = u /\ m = n
                              \/ \A j \in Key : Live(j) \in acts'[v][m].ref => Live(j) \in acts[v][m].ref
    OBVIOUS
  <2>1. CASE v = u
    <3>1. DOMAIN acts'[v] = DOMAIN acts[v]
      BY <1>7, <1>9, <2>1
    <3>2. ASSUME NEW m \in DOMAIN acts[v]
          PROVE  /\ OneRef(acts'[v][m]) /\ acts'[v][m].actual = acts[v][m].actual
                 /\ \/ acts'[v][m].ref = ref /\ v = u /\ m = n
                    \/ \A j \in Key : Live(j) \in acts'[v][m].ref => Live(j) \in acts[v][m].ref
      <4>1. CASE m = n
        <5>1. acts'[v][m] = b
          BY <1>7, <1>9, <2>1, <4>1
        <5> QED
          BY <1>5, <2>1, <4>1, <5>1
      <4>2. CASE m # n
        <5>1. acts'[v][m] = o[v][m]
          BY <1>7, <1>9, <2>1, <4>2
        <5> QED
          BY <1>3, <5>1
      <4> QED
        BY <4>1, <4>2
    <3> QED
      BY <3>1, <3>2
  <2>2. CASE v # u
    <3>1. acts'[v] = o[v]
      BY <1>9, <2>2
    <3> QED
      BY <1>3, <3>1
  <2> QED
    BY <2>1, <2>2
<1>11. class' \in [Items -> Types \cup {"none"}] /\ corrections' \in Nat
  BY <1>0, <1>1 DEF Corrects, TypeOK
<1>12. /\ mem' \in [Uploads -> Table]
       /\ \A v \in Uploads : \A j \in Key : Exists(mem'[v], j) =>
            j \notin gone /\ Exists(mem[v], j) /\ mem'[v][j] = mem[v][j]
  <2>1. \A v \in Uploads :
           /\ Without(mem[v], gone) \in Table
           /\ \A j \in Key : Without(mem[v], gone)[j] = IF j \in gone THEN NoRow ELSE mem[v][j]
    BY <1>1, WithoutType DEF TypeOK
  <2>2. mem' = [v \in Uploads |-> Without(mem[v], gone)]
    BY <1>0 DEF Forget
  <2> QED
    BY <2>1, <2>2, RowTypes DEF Exists
<1>13. TypeOK'
  <2>1. evidence' \in Nat
    BY <1>0, <1>1 DEF TypeOK
  <2>2. /\ into' = into /\ phase' = phase /\ pre' = pre /\ actuals' = actuals
        /\ merges' = merges /\ cache' \in Table /\ kb' \in Library
    BY <1>0
  <2> QED
    BY ONLY <1>1, <1>9, <1>11, <1>12, <2>1, <2>2 DEF TypeOK
<1>14. RedirectsEnd' /\ RunsAlone'
  BY <1>0, <1>1 DEF RedirectsEnd, RunsAlone, NoCircle, Closed
<1>15. SessionsAreBacked'
  <2> SUFFICES ASSUME NEW v \in Uploads
               PROVE  /\ Backed(mem[v], cache, ProjectOf[v])'
                      /\ phase'[v] # "running" => \A j \in Key : ~Exists(mem'[v], j)
                      /\ phase'[v] # "done" => acts'[v] = <<>>
                      /\ \A m \in DOMAIN pre'[v] : pre'[v][m].p.key.project = ProjectOf[v]
                      /\ \A m \in DOMAIN acts'[v] : OneRef(acts'[v][m])
    BY DEF SessionsAreBacked
  <2>1. ASSUME NEW j \in Key, Exists(mem'[v], j)
        PROVE  j.project = ProjectOf[v] /\ Exists(cache', j)
               /\ mem'[v][j].samples <= cache'[j].samples
    <3>1. j \notin gone /\ Exists(mem[v], j) /\ mem'[v][j] = mem[v][j]
      BY <1>12, <2>1
    <3>2. j.project = ProjectOf[v] /\ Exists(cache, j) /\ mem[v][j].samples <= cache[j].samples
      BY <1>1, <3>1 DEF SessionsAreBacked, Backed
    <3>3. Exists(cache', j) /\ cache[j].samples <= cache'[j].samples
      BY <1>0, <3>1, <3>2
    <3>4. mem[v][j].samples \in Nat /\ cache[j].samples \in Nat /\ cache'[j].samples \in Nat
      BY <1>1, <1>13 DEF TypeOK, Table, Row
    <3> QED
      BY <3>1, <3>2, <3>3, <3>4
  <2>2. Backed(mem[v], cache, ProjectOf[v])'
    BY <2>1 DEF Backed
  <2>3. phase'[v] # "running" => \A j \in Key : ~Exists(mem'[v], j)
    BY <1>0, <1>1, <1>12 DEF SessionsAreBacked
  <2>4. phase'[v] # "done" => acts'[v] = <<>>
    <3> SUFFICES ASSUME phase[v] # "done" PROVE acts'[v] = <<>>
      BY <1>0
    <3>1. acts[v] = <<>>
      BY <1>1 DEF SessionsAreBacked
    <3>2. DOMAIN acts'[v] = {} /\ acts'[v] \in Seq(Activity)
      BY <1>9, <1>10, <3>1
    <3>3. PICK L \in Nat : L = Len(acts'[v]) /\ DOMAIN acts'[v] = 1..L
      BY <3>2, LenProperties
    <3>4. L = 0
      <4>1. L # 0 => 1 \in 1..L
        BY <3>3
      <4> QED
        BY <3>2, <3>3, <4>1
    <3> QED
      BY <3>2, <3>3, <3>4, EmptySeq
  <2> QED
    BY <1>0, <1>1, <1>10, <2>2, <2>3, <2>4 DEF SessionsAreBacked
<1>16. ASSUME NEW j \in Key
       PROVE  /\ Recorded(Live(j))' \subseteq Recorded(Live(j)) \cup {<<u, n>>}
              /\ d = 0 \/ j # k => Recorded(Live(j))' \subseteq Recorded(Live(j))
  <2>1. Live(j) = Live(k) => j = k
    BY DEF Live
  <2>2. ASSUME NEW v \in Uploads, NEW m \in DOMAIN acts'[v],
               acts'[v][m].actual, Live(j) \in acts'[v][m].ref
        PROVE  \/ <<v, m>> \in Recorded(Live(j))
               \/ <<v, m>> = <<u, n>> /\ d = 1 /\ j = k
    <3>1. m \in DOMAIN acts[v] /\ acts[v][m].actual
      BY <1>10, <2>2
    <3>2. CASE acts'[v][m].ref = ref /\ v = u /\ m = n
      BY <1>0, <2>1, <2>2, <3>2
    <3>3. CASE Live(j) \in acts[v][m].ref
      BY <3>1, <3>3 DEF Recorded
    <3> QED
      BY <1>10, <2>2, <3>1, <3>2, <3>3
  <2>3. ASSUME NEW y, y \in Recorded(Live(j))'
        PROVE  y \in Recorded(Live(j)) \/ (y = <<u, n>> /\ d = 1 /\ j = k)
    <3>1. PICK v \in Uploads :
             y \in {v} \X {m \in DOMAIN acts'[v] : acts'[v][m].actual /\ Live(j) \in acts'[v][m].ref}
      BY <2>3 DEF Recorded, Live
    <3>2. PICK m : y = <<v, m>> /\ m \in DOMAIN acts'[v] /\ acts'[v][m].actual
                   /\ Live(j) \in acts'[v][m].ref
      BY <3>1
    <3> QED
      BY <2>2, <3>2
  <2> QED
    BY <2>3
<1>17. Holds(Samples(cache), Uses, evidence)'
  <2>1. cache \in Table /\ cache' \in Table /\ evidence \in Nat
    BY <1>0, <1>1 DEF TypeOK
  <2>2. PICK s0 \in [Key -> Nat] : s0 = Samples(cache) /\ \A j \in Key : s0[j] = cache[j].samples
    BY <2>1, SamplesType
  <2>3. PICK s1 \in [Key -> Nat] : s1 = Samples(cache') /\ \A j \in Key : s1[j] = cache'[j].samples
    BY <2>1, SamplesType
  <2>4. PICK c0 \in [Key -> Nat] : c0 = Uses
    BY <1>1, UsesType
  <2>5. \A j \in Key : Uses'[j] \in Nat /\ Uses'[j] <= Uses[j] + 1
                       /\ (d = 0 \/ j # k => Uses'[j] <= Uses[j])
    BY <1>1, <1>16, UsesBound
  <2>6. PICK c1 \in [Key -> Nat] : c1 = Uses'
    BY <2>5 DEF Uses
  <2>7. Holds(s0, c0, evidence)
    BY <2>2, <2>4 DEF Inv
  <2>8. s1[k] <= s0[k] + d /\ c1[k] <= c0[k] + d
    BY <1>0, <2>2, <2>3, <2>4, <2>5, <2>6
  <2>9. \A j \in Key \ {k} : s1[j] <= s0[j] /\ c1[j] <= c0[j]
    BY <1>0, <2>2, <2>3, <2>4, <2>5, <2>6
  <2>10. d \in Nat
    OBVIOUS
  <2>11. Holds(s1, c1, evidence + d)
    BY <2>1, <2>7, <2>8, <2>9, <2>10, HoldsMore
  <2>12. Samples(cache)' = s1
    BY <2>3
  <2> QED
    BY <1>0, <2>6, <2>11, <2>12
<1> QED
  BY <1>13, <1>14, <1>15, <1>17 DEF Inv

(* Two rows that say the same of what is learned. *)
Same(p, q) ==
    p.source = q.source /\ p.samples = q.samples /\ p.low = q.low /\ p.post = q.post

LEMMA ClaimStays ==
    ASSUME NEW c \in Table, NEW d \in Table, NEW x \in Items \X Types, NEW g \in Library, NEW f,
           f[x] = g[x], x \in Claimed(f, d),
           \A j \in Key : j.item = x[1] /\ j.type = x[2] => Same(c[j], d[j])
    PROVE  x \in Claimed(g, c)
<1>1. ASSUME NEW j \in Eligible(c, c, x[1], x[2])
      PROVE  j \in Eligible(d, d, x[1], x[2]) /\ c[j].samples <= d[j].samples
  <2>1. j \in Key /\ j.item = x[1] /\ j.type = x[2]
    BY DEF Eligible
  <2>2. Same(c[j], d[j])
    BY <2>1
  <2>3. c[j].samples \in Nat
    BY <2>1 DEF Table, Row
  <2> QED
    BY <2>2, <2>3 DEF Eligible, Same
<1> QED
  BY <1>1, ClaimedBefore

LEMMA RebuiltIsNotClaimed ==
    ASSUME NEW c \in Table, NEW d \in Table, NEW x \in Items \X Types, NEW f \in Library,
           f[x] = Knowledge(c, c, x[1], x[2]),
           \A j \in Key : j.item = x[1] /\ j.type = x[2] => Same(c[j], d[j])
    PROVE  x \notin Claimed(f, d)
<1> SUFFICES ASSUME x \in Claimed(f, d) PROVE FALSE
  OBVIOUS
<1>1. x \in Claimed(f, c)
  BY ClaimStays
<1> QED
  BY <1>1, NotClaimed

LEMMA SupersededKeys ==
    ASSUME NEW i, NEW t
    PROVE  /\ Superseded(i, t) \subseteq Key
           /\ \A j \in Superseded(i, t) : j.item = i /\ j.type = class[i] /\ j.type # t
BY DEF Superseded

LEMMA ManualRowType ==
    ASSUME NEW p \in Row
    PROVE  /\ ManualRow(p) \in Row /\ ManualRow(p).source # "none"
           /\ ManualRow(p).samples = p.samples + 1
BY DEF ManualRow, Row, Sources, Sure

LEMMA CorrectHoursKeeps ==
    ASSUME Inv, NEW u \in Uploads, NEW n \in DOMAIN acts[u], NEW t \in Types,
           NEW changed \in BOOLEAN, CorrectHours(u, n, t, changed)
    PROVE  Inv' /\ (changed => Claimed(kb', cache') \subseteq Claimed(kb, cache))
<1> DEFINE a == acts[u][n]
           i == Canonical(a.item)
           k == [RowKey(u, a) EXCEPT !.item = i, !.type = t]
           fallen == Superseded(i, t)
           c0 == Without(cache, fallen)
           prev == {r \in a.ref : IF r.live THEN cache[r.key].source # "manual" ELSE ~r.manual}
           live == {r.key : r \in {x \in prev : x.live}} \ fallen
           c1 == [j \in Key |-> IF j \in live /\ changed
                                THEN [c0[j] EXCEPT !.corrected = @ + 1] ELSE c0[j]]
           c2 == [c1 EXCEPT ![k] = ManualRow(@)]
           gone == fallen \cup (live \ {k})
           c3 == Without(c2, gone)
           g1 == IF fallen = {} THEN kb ELSE Rebuild(kb, c0, {<<i, class[i]>>, <<i, t>>})
           g2 == Rebuild(g1, c2, {<<i, t>>})
           old == IF changed THEN {<<r.key.item, r.key.type>> : r \in prev} ELSE {}
<1>1. /\ Corrects(u, n, i, t)
      /\ cache' = c3 /\ kb' = Rebuild(g2, c3, old) /\ mem' = Forget(gone)
      /\ acts' = [Orphan(acts, cache, gone) EXCEPT ![u][n].type = t,
                                                   ![u][n].ref = Refer(k, TRUE, FALSE)]
      /\ evidence' = evidence + 1
      /\ UNCHANGED <<into, promoted, phase, pre, actuals, merges>>
  BY DEF CorrectHours
<1>2. TypeOK /\ RedirectsEnd
  BY DEF Inv
<1>3. a \in Activity
  <2>1. acts[u] \in Seq(Activity)
    BY <1>2 DEF TypeOK
  <2> QED
    BY <2>1, ElementOfSeq, LenProperties
<1> HIDE DEF a
<1>4. i \in Items
  BY <1>2, <1>3, CanonicalType DEF Activity
<1> HIDE DEF i
<1>5. k \in Key /\ k.item = i /\ k.type = t
  <2>1. RowKey(u, a) \in Key
    BY <1>3, RowKeyType DEF Activity
  <2> QED
    BY <1>4, <2>1 DEF Key
<1> HIDE DEF k
<1>6. fallen \subseteq Key /\ \A j \in fallen : j.item = i /\ j.type = class[i] /\ j.type # t
  BY SupersededKeys
<1> HIDE DEF fallen
<1>7. cache \in Table /\ kb \in Library
  BY <1>2 DEF TypeOK
<1>8. c0 \in Table /\ \A j \in Key : c0[j] = IF j \in fallen THEN NoRow ELSE cache[j]
  BY <1>7, WithoutType
<1> HIDE DEF c0
<1>9. /\ live \subseteq Key
      /\ \A j \in live : j \notin fallen
      /\ \A j \in live : changed => <<j.item, j.type>> \in old
  BY <1>3 DEF Activity, Ref
<1> HIDE DEF live
<1>10. /\ c1 \in Table
       /\ \A j \in Key : Same(c1[j], c0[j]) /\ (j \notin live => c1[j] = c0[j])
  <2>1. \A j \in Key : c0[j] \in Row
    BY <1>8 DEF Table
  <2> SUFFICES ASSUME NEW j \in Key
               PROVE  c1[j] \in Row /\ Same(c1[j], c0[j]) /\ (j \notin live => c1[j] = c0[j])
    BY DEF Table
  <2>2. [c0[j] EXCEPT !.corrected = @ + 1] \in Row
        /\ Same([c0[j] EXCEPT !.corrected = @ + 1], c0[j])
    BY <2>1 DEF Row, Same
  <2> QED
    BY <2>1, <2>2 DEF Same
<1> HIDE DEF c1
<1>11. ManualRow(c1[k]) \in Row /\ ManualRow(c1[k]).source # "none"
       /\ ManualRow(c1[k]).samples = c1[k].samples + 1
  BY <1>5, <1>10, ManualRowType DEF Table
<1>12. c2 \in Table /\ c2[k] = ManualRow(c1[k]) /\ \A j \in Key \ {k} : c2[j] = c1[j]
  BY <1>5, <1>10, <1>11 DEF Table
<1> HIDE DEF c2
<1>13. \A j \in gone : j \in fallen \/ (j \in live /\ j # k)
  OBVIOUS
<1>14. \A j \in Key : (j \in fallen => j \in gone) /\ (j \in live /\ j # k => j \in gone)
  OBVIOUS
<1> HIDE DEF gone
<1>15. c3 \in Table /\ \A j \in Key : c3[j] = IF j \in gone THEN NoRow ELSE c2[j]
  BY <1>12, WithoutType
<1> HIDE DEF c3
<1>16. /\ g1 \in Library
       /\ \A x \in Items \X Types :
            g1[x] = IF fallen # {} /\ x \in {<<i, class[i]>>, <<i, t>>}
                    THEN Knowledge(c0, c0, x[1], x[2]) ELSE kb[x]
  <2>1. /\ Rebuild(kb, c0, {<<i, class[i]>>, <<i, t>>}) \in Library
        /\ \A x \in Items \X Types :
             Rebuild(kb, c0, {<<i, class[i]>>, <<i, t>>})[x] =
               IF x \in {<<i, class[i]>>, <<i, t>>} THEN Knowledge(c0, c0, x[1], x[2]) ELSE kb[x]
    BY <1>7, <1>8, RebuildType
  <2> QED
    BY <1>7, <2>1
<1> HIDE DEF g1
<1>17. /\ g2 \in Library
       /\ \A x \in Items \X Types :
            g2[x] = IF x \in {<<i, t>>} THEN Knowledge(c2, c2, x[1], x[2]) ELSE g1[x]
  BY <1>12, <1>16, RebuildType
<1> HIDE DEF g2
<1>18. /\ kb' \in Library
       /\ \A x \in Items \X Types :
            kb'[x] = IF x \in old THEN Knowledge(c3, c3, x[1], x[2]) ELSE g2[x]
  <2> HIDE DEF old
  <2>1. /\ Rebuild(g2, c3, old) \in Library
        /\ \A x \in Items \X Types :
            Rebuild(g2, c3, old)[x] = IF x \in old THEN Knowledge(c3, c3, x[1], x[2]) ELSE g2[x]
    BY <1>15, <1>17, RebuildType
  <2> QED
    BY <1>1, <2>1
<1> HIDE DEF old, prev
<1>19. ASSUME NEW j \in Key
       PROVE  /\ cache[j] \in Row /\ c0[j] \in Row /\ c1[j] \in Row /\ c2[j] \in Row /\ c3[j] \in Row
              /\ c0[j].samples <= cache[j].samples /\ c1[j].samples = c0[j].samples
              /\ c3[j].samples <= c2[j].samples
              /\ j \notin gone => c3[j] = c2[j] /\ c0[j] = cache[j]
  <2>1. cache[j] \in Row /\ c0[j] \in Row /\ c1[j] \in Row /\ c2[j] \in Row /\ c3[j] \in Row
    BY <1>7, <1>8, <1>10, <1>12, <1>15 DEF Table
  <2>2. c0[j].samples <= cache[j].samples
    BY <1>8, <2>1, RowTypes DEF Row
  <2>3. c1[j].samples = c0[j].samples
    BY <1>10 DEF Same
  <2>4. c3[j].samples <= c2[j].samples
    BY <1>15, <2>1, RowTypes DEF Row
  <2>5. j \notin gone => c3[j] = c2[j] /\ c0[j] = cache[j]
    BY <1>8, <1>14, <1>15
  <2> QED
    BY <2>1, <2>2, <2>3, <2>4, <2>5
<1>20. Inv'
  <2>1. /\ Refer(k, TRUE, FALSE) \in SUBSET Ref
        /\ \A r \in Refer(k, TRUE, FALSE) : r = Live(k)
    <3>1. TRUE \in BOOLEAN /\ FALSE \in BOOLEAN
      OBVIOUS
    <3>2. /\ Refer(k, TRUE, FALSE) \subseteq Ref
          /\ \A r, q \in Refer(k, TRUE, FALSE) : r = q /\ (r.live => ~r.manual)
      BY <1>5, <3>1, ReferType
    <3>3. \A r \in Refer(k, TRUE, FALSE) : r.key = k /\ r.live
      BY DEF Refer
    <3>4. ASSUME NEW r \in Refer(k, TRUE, FALSE)
          PROVE  r = Live(k)
      <4>1. r \in Ref /\ r.key = k /\ r.live = TRUE /\ r.manual = FALSE
        BY <3>2, <3>3 DEF Ref
      <4> QED
        BY <4>1 DEF Ref, Live
    <3> QED
      BY <3>2, <3>4
  <2>2. cache' \in Table
    BY <1>1, <1>15
  <2>3. \A j \in Key \ {k} : cache'[j].samples <= cache[j].samples
    <3> SUFFICES ASSUME NEW j \in Key \ {k} PROVE c3[j].samples <= cache[j].samples
      BY <1>1
    <3>1. c2[j].samples = c0[j].samples
      BY <1>12, <1>19
    <3>2. /\ cache[j].samples \in Nat /\ c0[j].samples \in Nat /\ c2[j].samples \in Nat
          /\ c3[j].samples \in Nat
      BY <1>19 DEF Row
    <3> QED
      BY <1>19, <3>1, <3>2
  <2>4. cache'[k].samples <= cache[k].samples + 1
    <3>1. c2[k].samples = c0[k].samples + 1
      BY <1>5, <1>11, <1>12, <1>19
    <3>2. /\ cache[k].samples \in Nat /\ c0[k].samples \in Nat /\ c2[k].samples \in Nat
          /\ c3[k].samples \in Nat
      BY <1>5, <1>19 DEF Row
    <3>3. c3[k].samples <= c2[k].samples /\ c0[k].samples <= cache[k].samples
      BY <1>5, <1>19
    <3> QED
      BY <1>1, <3>1, <3>2, <3>3
  <2>5. ASSUME NEW j \in Key, j \notin gone, Exists(cache, j)
        PROVE  Exists(cache', j) /\ cache[j].samples <= cache'[j].samples
    <3>1. cache'[j] = c2[j] /\ c0[j] = cache[j] /\ Same(c1[j], c0[j]) /\ cache[j].samples \in Nat
      BY <1>1, <1>10, <1>19, <2>5 DEF Row
    <3>2. CASE j = k
      <4>1. c2[j].source # "none" /\ c2[j].samples = cache[j].samples + 1
        BY <1>11, <1>12, <3>1, <3>2 DEF Same
      <4> QED
        BY <3>1, <4>1 DEF Exists
    <3>3. CASE j # k
      BY <1>12, <2>5, <3>1, <3>3 DEF Exists, Same
    <3> QED
      BY <3>2, <3>3
  <2>6. \E d \in {0, 1} : d = 1
    OBVIOUS
  <2>7. PICK d \in {0, 1} : d = 1
    BY <2>6
  <2>8. evidence' = evidence + d /\ cache'[k].samples <= cache[k].samples + d
    BY <1>1, <2>4, <2>7
  <2>9. PICK ref \in SUBSET Ref : ref = Refer(k, TRUE, FALSE) /\ \A r \in ref : d = 1 /\ r = Live(k)
    BY <2>1, <2>7
  <2>10. acts' = [Orphan(acts, cache, gone) EXCEPT ![u][n].type = t, ![u][n].ref = ref]
    BY <1>1, <2>9
  <2>11. Corrects(u, n, i, t) /\ mem' = Forget(gone)
         /\ UNCHANGED <<into, promoted, phase, pre, actuals, merges>>
    BY <1>1
  <2>12. \A j \in Key : j \notin gone /\ Exists(cache, j) =>
            Exists(cache', j) /\ cache[j].samples <= cache'[j].samples
    BY <2>5
  <2>13. Correction(u, n, i, t, gone, ref, d, k)
    BY <1>18, <2>2, <2>3, <2>8, <2>9, <2>10, <2>11, <2>12 DEF Correction
  <2> QED
    BY <1>4, <1>5, <2>9, <2>13, CorrectionKeeps
<1>21. ASSUME changed, NEW x \in Claimed(kb', cache')
       PROVE  x \in Claimed(kb, cache)
  <2>1. x \in Items \X Types /\ x = <<x[1], x[2]>> /\ x \in Claimed(kb', c3)
    BY <1>1, <1>21 DEF Claimed
  <2>2. x \notin old
    <3> SUFFICES ASSUME x \in old PROVE FALSE
      OBVIOUS
    <3>1. kb'[x] = Knowledge(c3, c3, x[1], x[2])
      BY <1>18, <2>1
    <3>2. \A j \in Key : Same(c3[j], c3[j])
      BY DEF Same
    <3> QED
      BY <1>15, <1>18, <2>1, <3>1, <3>2, RebuiltIsNotClaimed
  <2>3. ASSUME NEW j \in Key, j.item = x[1], j.type = x[2]
        PROVE  j \notin live /\ c1[j] = c0[j]
    BY <1>9, <1>10, <1>21, <2>1, <2>2, <2>3
  <2>4. x # <<i, t>>
    <3> SUFFICES ASSUME x = <<i, t>> PROVE FALSE
      OBVIOUS
    <3>1. kb'[x] = Knowledge(c2, c2, x[1], x[2])
      BY <1>17, <1>18, <2>1, <2>2
    <3>2. ASSUME NEW j \in Key, j.item = x[1], j.type = x[2]
          PROVE  Same(c2[j], c3[j])
      <4>1. j \notin gone
        BY <1>6, <1>13, <2>3, <3>2
      <4> QED
        BY <1>15, <4>1 DEF Same
    <3> QED
      BY <1>12, <1>15, <1>18, <2>1, <3>1, <3>2, RebuiltIsNotClaimed
  <2>5. ASSUME NEW j \in Key, j.item = x[1], j.type = x[2]
        PROVE  Same(c0[j], c3[j])
    <3>1. j # k
      BY <1>5, <2>1, <2>4, <2>5
    <3>2. j \notin live /\ c1[j] = c0[j] /\ c2[j] = c1[j]
      BY <1>12, <2>3, <2>5, <3>1
    <3>3. j \in gone <=> j \in fallen
      BY <1>13, <1>14, <3>2
    <3>4. c3[j] = c0[j]
      BY <1>8, <1>15, <3>2, <3>3
    <3> QED
      BY <3>4 DEF Same
  <2>6. ~(fallen # {} /\ x \in {<<i, class[i]>>, <<i, t>>})
    <3> SUFFICES ASSUME fallen # {} /\ x \in {<<i, class[i]>>, <<i, t>>} PROVE FALSE
      OBVIOUS
    <3>1. kb'[x] = Knowledge(c0, c0, x[1], x[2])
      BY <1>16, <1>17, <1>18, <2>1, <2>2, <2>4
    <3> QED
      BY <1>8, <1>15, <1>18, <2>1, <2>5, <3>1, RebuiltIsNotClaimed
  <2>7. kb'[x] = kb[x]
    BY <1>16, <1>17, <1>18, <2>1, <2>2, <2>4, <2>6
  <2>8. ASSUME NEW j \in Key, j.item = x[1], j.type = x[2]
        PROVE  Same(cache[j], c3[j])
    <3>1. j \notin fallen
      BY <1>6, <2>1, <2>6, <2>8
    <3>2. c0[j] = cache[j]
      BY <1>8, <3>1
    <3> QED
      BY <2>5, <2>8, <3>2
  <2> QED
    BY <1>7, <1>15, <2>1, <2>7, <2>8, ClaimStays
<1> QED
  BY <1>20, <1>21

LEMMA CorrectMetadataKeeps ==
    ASSUME Inv, NEW u \in Uploads, NEW n \in DOMAIN acts[u], NEW t \in Types,
           CorrectMetadata(u, n, t)
    PROVE  Inv' /\ Claimed(kb', cache') \subseteq Claimed(kb, cache)
<1> DEFINE a == acts[u][n]
           i == Canonical(a.item)
           fallen == Superseded(i, t)
           prev == {r \in a.ref : IF r.live THEN cache[r.key].source # "manual" ELSE ~r.manual}
           live == {r.key : r \in {x \in prev : x.live}}
           gone == fallen \cup live
           c0 == Without(cache, fallen)
           c1 == Without(cache, gone)
           g1 == IF fallen = {} THEN kb ELSE Rebuild(kb, c0, {<<i, class[i]>>, <<i, t>>})
           old == {<<r.key.item, r.key.type>> : r \in prev}
<1>1. /\ Corrects(u, n, i, t)
      /\ cache' = c1 /\ kb' = Rebuild(g1, c1, old) /\ mem' = Forget(gone)
      /\ acts' = [Orphan(acts, cache, gone) EXCEPT ![u][n].type = t, ![u][n].ref = {}]
      /\ UNCHANGED <<into, promoted, phase, pre, evidence, actuals, merges>>
  BY DEF CorrectMetadata
<1>2. TypeOK /\ RedirectsEnd
  BY DEF Inv
<1>3. a \in Activity
  <2>1. acts[u] \in Seq(Activity)
    BY <1>2 DEF TypeOK
  <2> QED
    BY <2>1, ElementOfSeq, LenProperties
<1> HIDE DEF a
<1>4. i \in Items
  BY <1>2, <1>3, CanonicalType DEF Activity
<1> HIDE DEF i
<1>5. PICK k \in Key : TRUE
  <2>1. RowKey(u, a) \in Key
    BY <1>3, RowKeyType DEF Activity
  <2> QED
    BY <2>1
<1>6. fallen \subseteq Key /\ \A j \in fallen : j.item = i /\ j.type = class[i] /\ j.type # t
  BY SupersededKeys
<1> HIDE DEF fallen
<1>7. cache \in Table /\ kb \in Library
  BY <1>2 DEF TypeOK
<1>8. c0 \in Table /\ \A j \in Key : c0[j] = IF j \in fallen THEN NoRow ELSE cache[j]
  BY <1>7, WithoutType
<1> HIDE DEF c0
<1>9. \A j \in live : <<j.item, j.type>> \in old
  BY <1>3 DEF Activity, Ref
<1> HIDE DEF live
<1>10. \A j : j \in gone <=> j \in fallen \/ j \in live
  OBVIOUS
<1> HIDE DEF gone
<1>11. c1 \in Table /\ \A j \in Key : c1[j] = IF j \in gone THEN NoRow ELSE cache[j]
  BY <1>7, WithoutType
<1> HIDE DEF c1
<1>12. /\ g1 \in Library
       /\ \A x \in Items \X Types :
            g1[x] = IF fallen # {} /\ x \in {<<i, class[i]>>, <<i, t>>}
                    THEN Knowledge(c0, c0, x[1], x[2]) ELSE kb[x]
  <2>1. /\ Rebuild(kb, c0, {<<i, class[i]>>, <<i, t>>}) \in Library
        /\ \A x \in Items \X Types :
             Rebuild(kb, c0, {<<i, class[i]>>, <<i, t>>})[x] =
               IF x \in {<<i, class[i]>>, <<i, t>>} THEN Knowledge(c0, c0, x[1], x[2]) ELSE kb[x]
    BY <1>7, <1>8, RebuildType
  <2> QED
    BY <1>7, <2>1
<1> HIDE DEF g1, old, prev
<1>13. /\ kb' \in Library
       /\ \A x \in Items \X Types :
            kb'[x] = IF x \in old THEN Knowledge(c1, c1, x[1], x[2]) ELSE g1[x]
  <2>1. /\ Rebuild(g1, c1, old) \in Library
        /\ \A x \in Items \X Types :
            Rebuild(g1, c1, old)[x] = IF x \in old THEN Knowledge(c1, c1, x[1], x[2]) ELSE g1[x]
    BY <1>11, <1>12, RebuildType
  <2> QED
    BY <1>1, <2>1
<1>14. Inv'
  <2>1. PICK d \in {0, 1} : d = 0
    <3>1. \E d \in {0, 1} : d = 0
      OBVIOUS
    <3> QED
      BY <3>1
  <2>2. ASSUME NEW j \in Key
        PROVE  cache'[j].samples <= cache[j].samples /\ cache'[j].samples <= cache[j].samples + d
               /\ (j \notin gone => cache'[j] = cache[j] /\ cache[j].samples <= cache'[j].samples)
    <3>1. cache[j].samples \in Nat
      BY <1>7 DEF Table, Row
    <3> QED
      BY <1>1, <1>11, <2>1, <3>1, RowTypes
  <2>3. evidence' = evidence + d
    BY <1>1, <1>2, <2>1 DEF TypeOK
  <2>4. PICK ref \in SUBSET Ref : ref = {}
    OBVIOUS
  <2>5. acts' = [Orphan(acts, cache, gone) EXCEPT ![u][n].type = t, ![u][n].ref = ref]
    BY <1>1, <2>4
  <2>6. Corrects(u, n, i, t) /\ mem' = Forget(gone) /\ cache' \in Table
        /\ UNCHANGED <<into, promoted, phase, pre, actuals, merges>>
    BY <1>1, <1>11
  <2>7. \A j \in Key : j \notin gone /\ Exists(cache, j) =>
           Exists(cache', j) /\ cache[j].samples <= cache'[j].samples
    BY <2>2 DEF Exists
  <2>8. Correction(u, n, i, t, gone, ref, d, k)
    BY <1>13, <2>2, <2>3, <2>4, <2>5, <2>6, <2>7 DEF Correction
  <2> QED
    BY <1>4, <2>4, <2>8, CorrectionKeeps
<1>15. ASSUME NEW x \in Claimed(kb', cache')
       PROVE  x \in Claimed(kb, cache)
  <2>1. x \in Items \X Types /\ x = <<x[1], x[2]>> /\ x \in Claimed(kb', c1)
    BY <1>1, <1>15 DEF Claimed
  <2>2. x \notin old
    <3> SUFFICES ASSUME x \in old PROVE FALSE
      OBVIOUS
    <3>1. kb'[x] = Knowledge(c1, c1, x[1], x[2])
      BY <1>13, <2>1
    <3>2. \A j \in Key : Same(c1[j], c1[j])
      BY DEF Same
    <3> QED
      BY <1>11, <1>13, <2>1, <3>1, <3>2, RebuiltIsNotClaimed
  <2>3. ASSUME NEW j \in Key, j.item = x[1], j.type = x[2]
        PROVE  Same(c0[j], c1[j])
    <3>1. j \notin live
      BY <1>9, <2>1, <2>2, <2>3
    <3>2. c1[j] = c0[j]
      BY <1>8, <1>10, <1>11, <3>1
    <3> QED
      BY <3>2 DEF Same
  <2>4. ~(fallen # {} /\ x \in {<<i, class[i]>>, <<i, t>>})
    <3> SUFFICES ASSUME fallen # {} /\ x \in {<<i, class[i]>>, <<i, t>>} PROVE FALSE
      OBVIOUS
    <3>1. kb'[x] = Knowledge(c0, c0, x[1], x[2])
      BY <1>12, <1>13, <2>1, <2>2
    <3> QED
      BY <1>8, <1>11, <1>13, <2>1, <2>3, <3>1, RebuiltIsNotClaimed
  <2>5. kb'[x] = kb[x]
    BY <1>12, <1>13, <2>1, <2>2, <2>4
  <2>6. ASSUME NEW j \in Key, j.item = x[1], j.type = x[2]
        PROVE  Same(cache[j], c1[j])
    <3>1. j \notin fallen
      BY <1>6, <2>1, <2>4, <2>6
    <3>2. c0[j] = cache[j]
      BY <1>8, <3>1
    <3> QED
      BY <2>3, <2>6, <3>2
  <2> QED
    BY <1>7, <1>11, <2>1, <2>5, <2>6, ClaimStays
<1> QED
  BY <1>14, <1>15

-----------------------------------------------------------------------------
(* Actual hours.                                                            *)

LEMMA RecordActualWrites ==
    ASSUME Inv, NEW u \in Uploads, NEW n \in DOMAIN acts[u], RecordActual(u, n)
    PROVE  \E x \in Key, d \in {0, 1} :
              /\ evidence' = evidence + d
              /\ d = 0 => acts[u][n].actual
              /\ \A r \in acts[u][n].ref : r.live => r = Live(x)
              /\ \/ cache' = cache /\ kb' = kb
                 \/ \E row \in Row :
                      /\ cache[x].source # "manual"
                      /\ cache' = [cache EXCEPT ![x] = row]
                      /\ kb' = Rebuilt(kb, cache, cache', x.item, x.type)
                      /\ row.source = cache[x].source /\ row.low = cache[x].low
                      /\ cache[x].samples <= row.samples
                      /\ row.samples <= cache[x].samples + d \/ row.samples <= Uses[x] + d
<1> DEFINE a == acts[u][n]
           new == IF a.actual THEN 0 ELSE 1
<1>1. TypeOK /\ SessionsAreBacked
  BY DEF Inv
<1>2. a \in Activity /\ OneRef(a)
  <2>1. acts[u] \in Seq(Activity)
    BY <1>1 DEF TypeOK
  <2> QED
    BY <1>1, <2>1, ElementOfSeq, LenProperties DEF SessionsAreBacked
<1>3. PICK d \in {0, 1} : d = new
  OBVIOUS
<1>4. evidence' = evidence + d /\ (d = 0 => a.actual)
  <2>1. evidence' = evidence + new
    BY DEF RecordActual
  <2>2. new = 0 => a.actual
    OBVIOUS
  <2> HIDE DEF new, a
  <2> QED
    BY <1>3, <2>1, <2>2
<1> HIDE DEF a
<1>5. ASSUME NEW r \in a.ref, r.live
      PROVE  r.key \in Key /\ r = Live(r.key) /\ \A q \in a.ref : q.live => q = Live(r.key)
  <2>1. r \in Ref /\ r.live = TRUE /\ r.manual = FALSE
    BY <1>2, <1>5 DEF Activity, Ref, OneRef
  <2>2. r = Live(r.key)
    BY <2>1 DEF Ref, Live
  <2> QED
    BY <1>2, <2>1, <2>2 DEF Ref, OneRef
<1>6. CASE cache' = cache /\ kb' = kb
  <2>1. CASE \E r \in a.ref : r.live
    <3>1. PICK r \in a.ref : r.live
      BY <2>1
    <3>2. r.key \in Key /\ \A q \in a.ref : q.live => q = Live(r.key)
      BY <1>5, <3>1
    <3> QED
      BY <1>4, <1>6, <3>2 DEF a
  <2>2. CASE ~\E r \in a.ref : r.live
    <3>1. RowKey(u, a) \in Key
      BY <1>2, RowKeyType DEF Activity
    <3> QED
      BY <1>4, <1>6, <2>2, <3>1 DEF a
  <2> QED
    BY <2>1, <2>2
<1>7. CASE ~(cache' = cache /\ kb' = kb)
  <2>1. PICK r \in a.ref :
          LET p == cache[r.key]
              before == Cardinality(Recorded(r))
              rest == IF p.samples < before THEN 0 ELSE p.samples - before
              view == [cache EXCEPT ![r.key] =
                         [p EXCEPT !.samples = rest + before + d, !.post = Sure]]
          IN  /\ r.live /\ p.source # "manual"
              /\ cache' = view
              /\ kb' = Rebuilt(kb, cache, view, r.key.item, r.key.type)
    BY <1>3, <1>7 DEF RecordActual, a
  <2>2. PICK x \in Key : x = r.key /\ r = Live(x) /\ \A q \in a.ref : q.live => q = Live(x)
    BY <1>5, <2>1
  <2>3. PICK p \in Row : p = cache[x]
    BY <1>1 DEF TypeOK, Table
  <2>4. PICK before \in Nat : before = Uses[x] /\ before = Cardinality(Recorded(r))
    BY <1>1, <2>2, UsesType DEF Uses
  <2>5. p.samples \in Nat
    BY <2>3 DEF Row
  <2>6. PICK m \in Nat : m = (IF p.samples < before THEN 0 ELSE p.samples - before) + before + d
    BY <2>4, <2>5
  <2>7. p.samples <= m /\ (m <= p.samples + d \/ m <= before + d)
    BY <2>4, <2>5, <2>6
  <2>8. PICK row : row = [p EXCEPT !.samples = m, !.post = Sure]
    OBVIOUS
  <2>9. row \in Row /\ row.source = p.source /\ row.low = p.low /\ row.samples = m
    <3>1. Sure \in Int
      BY DEF Sure
    <3>2. row = [source |-> p.source, hours |-> p.hours, samples |-> m,
                 corrected |-> p.corrected, post |-> Sure, low |-> p.low]
      BY <2>8 DEF Row
    <3> QED
      BY <3>1, <3>2 DEF Row
  <2>10. /\ p.source # "manual" /\ cache' = [cache EXCEPT ![x] = row]
         /\ kb' = Rebuilt(kb, cache, cache', x.item, x.type)
    BY <2>1, <2>2, <2>3, <2>4, <2>6, <2>8
  <2> QED
    BY <1>4, <2>2, <2>3, <2>4, <2>7, <2>9, <2>10 DEF a
<1> QED
  BY <1>6, <1>7

LEMMA RecordActualKeeps ==
    ASSUME Inv, NEW u \in Uploads, NEW n \in DOMAIN acts[u], RecordActual(u, n)
    PROVE  /\ Inv' /\ Claimed(kb', cache') \subseteq Claimed(kb, cache)
           /\ \A j \in Key : cache[j].source = "manual" => cache'[j] = cache[j]
<1>1. TypeOK /\ RedirectsEnd /\ RunsAlone /\ SessionsAreBacked
  BY DEF Inv
<1>2. PICK x \in Key, d \in {0, 1} :
        /\ evidence' = evidence + d
        /\ d = 0 => acts[u][n].actual
        /\ \A r \in acts[u][n].ref : r.live => r = Live(x)
        /\ \/ cache' = cache /\ kb' = kb
           \/ \E row \in Row :
                /\ cache[x].source # "manual"
                /\ cache' = [cache EXCEPT ![x] = row]
                /\ kb' = Rebuilt(kb, cache, cache', x.item, x.type)
                /\ row.source = cache[x].source /\ row.low = cache[x].low
                /\ cache[x].samples <= row.samples
                /\ row.samples <= cache[x].samples + d \/ row.samples <= Uses[x] + d
  BY RecordActualWrites
<1>3. cache \in Table /\ kb \in Library /\ acts[u] \in Seq(Activity) /\ evidence \in Nat
  BY <1>1 DEF TypeOK
<1>4. \A j \in Key : cache[j] \in Row /\ cache[j].samples \in Nat
  BY <1>3 DEF Table, Row
<1>5. PICK row \in Row :
        /\ cache' = [cache EXCEPT ![x] = row]
        /\ row.source = cache[x].source /\ row.low = cache[x].low
        /\ cache[x].samples <= row.samples
        /\ row.samples <= cache[x].samples + d \/ row.samples <= Uses[x] + d
        /\ \/ cache' = cache /\ kb' = kb
           \/ /\ cache[x].source # "manual"
              /\ kb' = Rebuilt(kb, cache, cache', x.item, x.type)
  <2>1. CASE cache' = cache /\ kb' = kb
    <3>1. cache' = [cache EXCEPT ![x] = cache[x]]
      BY <1>3, <2>1 DEF Table
    <3>2. cache[x] \in Row /\ cache[x].samples \in Nat
      BY <1>4
    <3>3. cache[x].samples <= cache[x].samples /\ cache[x].samples <= cache[x].samples + d
      BY <3>2
    <3> QED
      BY <2>1, <3>1, <3>2, <3>3
  <2>2. CASE ~(cache' = cache /\ kb' = kb)
    BY <1>2, <2>2
  <2> QED
    BY <2>1, <2>2
<1>6. cache' \in Table /\ cache'[x] = row /\ \A j \in Key \ {x} : cache'[j] = cache[j]
  BY <1>3, <1>5 DEF Table
<1>7. kb' \in Library
  BY <1>3, <1>5, <1>6, RebuiltType
<1>8. PICK b : b = [acts[u][n] EXCEPT !.actual = TRUE]
  OBVIOUS
<1>9. b \in Activity /\ b.actual /\ b.ref = acts[u][n].ref /\ OneRef(b)
  <2>1. PICK a \in Activity : a = acts[u][n]
    BY <1>3, ElementOfSeq, LenProperties
  <2>2. OneRef(a)
    BY <1>1, <2>1 DEF SessionsAreBacked
  <2>3. b = [item |-> a.item, type |-> a.type, ctx |-> a.ctx, actual |-> TRUE, ref |-> a.ref]
    BY <1>8, <2>1 DEF Activity
  <2>4. b \in Activity /\ b.actual /\ b.ref = a.ref
    BY <2>3 DEF Activity
  <2> QED
    BY <2>1, <2>2, <2>4 DEF OneRef
<1>10. PICK s : s = [acts[u] EXCEPT ![n] = b]
  OBVIOUS
<1>11. s \in Seq(Activity) /\ DOMAIN s = DOMAIN acts[u] /\ s[n] = b
       /\ \A m \in DOMAIN acts[u] \ {n} : s[m] = acts[u][m]
  <2>1. PICK L \in Nat : DOMAIN acts[u] = 1..L /\ acts[u] \in [1..L -> Activity]
    BY <1>3, LenProperties
  <2>2. s \in [1..L -> Activity] /\ DOMAIN s = 1..L
    BY <1>9, <1>10, <2>1
  <2>3. s \in Seq(Activity)
    BY <2>2, SeqDef
  <2> QED
    BY <1>10, <2>1, <2>3
<1>12. acts' = [acts EXCEPT ![u] = s]
  <2>1. acts' = [acts EXCEPT ![u][n].actual = TRUE]
    BY DEF RecordActual
  <2> QED
    BY <1>8, <1>10, <2>1
<1>13. acts' \in [Uploads -> Seq(Activity)] /\ acts'[u] = s
       /\ \A v \in Uploads \ {u} : acts'[v] = acts[v]
  BY <1>1, <1>11, <1>12 DEF TypeOK
<1>14. /\ UNCHANGED <<into, class, phase, pre, mem, corrections, merges>>
       /\ actuals' \in Nat /\ evidence' \in Nat
  <2>1. actuals' = actuals + 1 /\ UNCHANGED <<into, class, promoted, session, corrections, merges>>
    BY DEF RecordActual
  <2>2. actuals \in Nat
    BY <1>1 DEF TypeOK
  <2>3. evidence' \in Nat
    BY <1>2, <1>3
  <2> QED
    BY <2>1, <2>2, <2>3 DEF session
<1>15. TypeOK'
  BY ONLY <1>1, <1>6, <1>7, <1>13, <1>14 DEF TypeOK
<1>16. RedirectsEnd' /\ RunsAlone'
  BY <1>1, <1>14 DEF RedirectsEnd, RunsAlone, NoCircle, Closed
<1>17. SessionsAreBacked'
  <2> SUFFICES ASSUME NEW v \in Uploads
               PROVE  /\ Backed(mem[v], cache, ProjectOf[v])'
                      /\ phase'[v] # "running" => \A j \in Key : ~Exists(mem'[v], j)
                      /\ phase'[v] # "done" => acts'[v] = <<>>
                      /\ \A m \in DOMAIN pre'[v] : pre'[v][m].p.key.project = ProjectOf[v]
                      /\ \A m \in DOMAIN acts'[v] : OneRef(acts'[v][m])
    BY DEF SessionsAreBacked
  <2>1. ASSUME NEW j \in Key, Exists(mem[v], j)
        PROVE  j.project = ProjectOf[v] /\ Exists(cache', j)
               /\ mem[v][j].samples <= cache'[j].samples
    <3>1. j.project = ProjectOf[v] /\ Exists(cache, j) /\ mem[v][j].samples <= cache[j].samples
      BY <1>1, <2>1 DEF SessionsAreBacked, Backed
    <3>2. Exists(cache', j) /\ cache[j].samples <= cache'[j].samples
      BY <1>4, <1>5, <1>6, <3>1 DEF Exists
    <3>3. mem[v][j].samples \in Nat /\ cache'[j].samples \in Nat
      BY <1>1, <1>6 DEF TypeOK, Table, Row
    <3> QED
      BY <1>4, <3>1, <3>2, <3>3
  <2>2. Backed(mem[v], cache, ProjectOf[v])'
    BY <1>14, <2>1 DEF Backed
  <2>3. phase'[v] # "done" => acts'[v] = <<>>
    <3>1. CASE v = u
      <4>1. acts[u] # <<>>
        BY EmptySeq
      <4>2. phase[u] = "done"
        BY <1>1, <4>1 DEF SessionsAreBacked
      <4> QED
        BY <1>14, <3>1, <4>2
    <3>2. CASE v # u
      BY <1>1, <1>13, <1>14, <3>2 DEF SessionsAreBacked
    <3> QED
      BY <3>1, <3>2
  <2>4. ASSUME NEW m \in DOMAIN acts'[v]
        PROVE  OneRef(acts'[v][m])
    <3>1. CASE v = u /\ m = n
      <4>1. acts'[v][m] = b
        BY <1>11, <1>13, <3>1
      <4> QED
        BY <1>9, <4>1
    <3>2. CASE ~(v = u /\ m = n)
      <4>1. m \in DOMAIN acts[v] /\ acts'[v][m] = acts[v][m]
        BY <1>11, <1>13, <2>4, <3>2
      <4> QED
        BY <1>1, <4>1 DEF SessionsAreBacked
    <3> QED
      BY <3>1, <3>2
  <2> QED
    BY <1>1, <1>14, <2>2, <2>3, <2>4 DEF SessionsAreBacked
<1>18. ASSUME NEW j \in Key
       PROVE  /\ Recorded(Live(j))' \subseteq Recorded(Live(j)) \cup {<<u, n>>}
              /\ d = 0 \/ j # x => Recorded(Live(j))' \subseteq Recorded(Live(j))
  <2>1. Live(j) = Live(x) => j = x
    BY DEF Live
  <2>2. Live(j).live
    BY DEF Live
  <2>3. ASSUME NEW v \in Uploads, NEW m \in DOMAIN acts'[v],
               acts'[v][m].actual, Live(j) \in acts'[v][m].ref
        PROVE  \/ <<v, m>> \in Recorded(Live(j))
               \/ <<v, m>> = <<u, n>> /\ d = 1 /\ j = x
    <3>1. CASE v = u /\ m = n
      <4>1. Live(j) \in acts[u][n].ref
        BY <1>9, <1>11, <1>13, <2>3, <3>1
      <4>2. j = x
        BY <1>2, <2>1, <2>2, <4>1
      <4>3. d = 0 => <<u, n>> \in Recorded(Live(j))
        BY <1>2, <4>1 DEF Recorded
      <4> QED
        BY <3>1, <4>2, <4>3
    <3>2. CASE ~(v = u /\ m = n)
      <4>1. m \in DOMAIN acts[v] /\ acts'[v][m] = acts[v][m]
        BY <1>11, <1>13, <2>3, <3>2
      <4> QED
        BY <2>3, <4>1 DEF Recorded
    <3> QED
      BY <3>1, <3>2
  <2>4. ASSUME NEW y, y \in Recorded(Live(j))'
        PROVE  y \in Recorded(Live(j)) \/ (y = <<u, n>> /\ d = 1 /\ j = x)
    <3>1. PICK v \in Uploads :
             y \in {v} \X {m \in DOMAIN acts'[v] : acts'[v][m].actual /\ Live(j) \in acts'[v][m].ref}
      BY <2>4 DEF Recorded, Live
    <3>2. PICK m : y = <<v, m>> /\ m \in DOMAIN acts'[v] /\ acts'[v][m].actual
                   /\ Live(j) \in acts'[v][m].ref
      BY <3>1
    <3> QED
      BY <2>3, <3>2
  <2> QED
    BY <2>4
<1>19. Holds(Samples(cache), Uses, evidence)'
  <2>1. PICK s0 \in [Key -> Nat] : s0 = Samples(cache) /\ \A j \in Key : s0[j] = cache[j].samples
    BY <1>3, SamplesType
  <2>2. PICK s1 \in [Key -> Nat] : s1 = Samples(cache') /\ \A j \in Key : s1[j] = cache'[j].samples
    BY <1>6, SamplesType
  <2>3. PICK c0 \in [Key -> Nat] : c0 = Uses
    BY <1>1, UsesType
  <2>4. \A j \in Key : Uses'[j] \in Nat /\ Uses'[j] <= Uses[j] + 1
                       /\ (d = 0 \/ j # x => Uses'[j] <= Uses[j])
    BY <1>1, <1>18, UsesBound
  <2>5. PICK c1 \in [Key -> Nat] : c1 = Uses'
    BY <2>4 DEF Uses
  <2>6. Holds(s0, c0, evidence)
    BY <2>1, <2>3 DEF Inv
  <2>7. s1[x] <= s0[x] + d \/ s1[x] <= c0[x] + d
    BY <1>5, <1>6, <2>1, <2>2, <2>3
  <2>8. c1[x] <= c0[x] + d
    BY <2>3, <2>4, <2>5
  <2>9. \A j \in Key \ {x} : s1[j] <= s0[j] /\ c1[j] <= c0[j]
    BY <1>6, <2>1, <2>2, <2>3, <2>4, <2>5
  <2>10. d \in Nat
    OBVIOUS
  <2>11. Holds(s1, c1, evidence + d)
    BY <1>3, <2>6, <2>7, <2>8, <2>9, <2>10, HoldsMore
  <2> QED
    BY <1>2, <2>2, <2>5, <2>11
<1>20. ASSUME NEW y \in Claimed(kb', cache')
       PROVE  y \in Claimed(kb, cache)
  <2>1. y \in Items \X Types /\ y = <<y[1], y[2]>> /\ x.item \in Items /\ x.type \in Types
    BY DEF Claimed, Key
  <2>2. CASE cache' = cache /\ kb' = kb
    BY <2>2, <1>20
  <2>3. CASE kb' = Rebuilt(kb, cache, cache', x.item, x.type)
    <3>1. CASE y = <<x.item, x.type>>
      <4>1. kb'[y] = Knowledge(cache, cache', y[1], y[2])
        BY <1>3, <2>1, <2>3, <3>1 DEF Rebuilt, Library
      <4>2. ASSUME NEW j \in Eligible(cache, cache', y[1], y[2])
            PROVE  j \in Eligible(cache', cache', y[1], y[2])
        <5>1. j \in Key /\ MinSamples <= cache[j].samples /\ MinSamples \in Nat
          BY ProfileAssumption DEF Eligible
        <5>2. cache'[j].source = cache[j].source /\ cache'[j].low = cache[j].low
              /\ cache[j].samples <= cache'[j].samples
          BY <1>4, <1>5, <1>6, <5>1
        <5>3. cache'[j].samples \in Nat
          BY <1>6, <5>1 DEF Table, Row
        <5>4. cache'[j].samples >= MinSamples
          BY <1>4, <5>1, <5>2, <5>3
        <5> QED
          BY <5>1, <5>2, <5>4 DEF Eligible
      <4> QED
        BY <1>3, <1>6, <1>20, <2>1, <4>1, <4>2, NotClaimed
    <3>2. CASE y # <<x.item, x.type>>
      <4>1. kb'[y] = kb[y]
        BY <1>3, <2>1, <2>3, <3>2 DEF Rebuilt, Library
      <4>2. ASSUME NEW j \in Key, j.item = y[1], j.type = y[2]
            PROVE  Same(cache[j], cache'[j])
        BY <1>6, <2>1, <3>2, <4>2 DEF Same
      <4> QED
        BY <1>3, <1>6, <1>20, <2>1, <4>1, <4>2, ClaimStays
    <3> QED
      BY <3>1, <3>2
  <2> QED
    BY <1>5, <2>2, <2>3
<1>21. \A j \in Key : cache[j].source = "manual" => cache'[j] = cache[j]
  BY <1>5, <1>6
<1> QED
  BY <1>15, <1>16, <1>17, <1>19, <1>20, <1>21 DEF Inv

-----------------------------------------------------------------------------
(* Merges.                                                                  *)

FromItem(k, s) == [k EXCEPT !.item = s]

LEMMA FromItemType ==
    ASSUME NEW s \in Items, NEW k \in Key
    PROVE  /\ FromItem(k, s) \in Key /\ FromItem(k, s).item = s
           /\ FromItem(k, s).project = k.project /\ FromItem(k, s).type = k.type
           /\ FromItem(k, s).ctx = k.ctx
BY DEF FromItem, Key

LEMMA FromItemOnce ==
    ASSUME NEW s, NEW j \in Key, NEW k \in Key, j.item = k.item, FromItem(j, s) = FromItem(k, s)
    PROVE  j = k
<1>1. /\ FromItem(j, s).project = j.project /\ FromItem(j, s).type = j.type
      /\ FromItem(j, s).ctx = j.ctx
      /\ FromItem(k, s).project = k.project /\ FromItem(k, s).type = k.type
      /\ FromItem(k, s).ctx = k.ctx
  BY DEF FromItem, Key
<1> QED
  BY <1>1 DEF Key

LEMMA MovedType ==
    ASSUME TypeOK, NEW m \in Table, NEW s \in Items, NEW g \in Items, s # g
    PROVE  /\ Moved(m, s, g) \in Table
           /\ \A k \in Key :
                Moved(m, s, g)[k] =
                  IF k.item = s THEN NoRow
                  ELSE IF k.item = g /\ ~Exists(cache, k) /\ Exists(cache, FromItem(k, s))
                       THEN m[FromItem(k, s)] ELSE m[k]
<1>1. ASSUME NEW k \in Key
      PROVE  /\ Moved(m, s, g)[k] \in Row
             /\ Moved(m, s, g)[k] =
                  IF k.item = s THEN NoRow
                  ELSE IF k.item = g /\ ~Exists(cache, k) /\ Exists(cache, FromItem(k, s))
                       THEN m[FromItem(k, s)] ELSE m[k]
  <2>1. FromItem(k, s) \in Key
    BY FromItemType
  <2>2. m[FromItem(k, s)] \in Row /\ m[k] \in Row
    BY <2>1 DEF Table
  <2>3. Moved(m, s, g)[k] =
          CASE k.item = s -> NoRow
            [] k.item = g /\ ~Exists(cache, k) /\ Exists(cache, FromItem(k, s)) -> m[FromItem(k, s)]
            [] OTHER -> m[k]
    BY DEF Moved, FromItem
  <2>4. CASE k.item = s
    BY <2>3, <2>4, RowTypes
  <2>5. CASE k.item = g /\ ~Exists(cache, k) /\ Exists(cache, FromItem(k, s))
    BY <2>2, <2>3, <2>5
  <2>6. CASE k.item # s /\ ~(k.item = g /\ ~Exists(cache, k) /\ Exists(cache, FromItem(k, s)))
    BY <2>2, <2>3, <2>6
  <2> QED
    BY <2>4, <2>5, <2>6
<1>2. Moved(m, s, g) = [k \in Key |-> Moved(m, s, g)[k]]
  BY DEF Moved
<1> QED
  BY <1>1, <1>2 DEF Table

LEMMA MergedType ==
    ASSUME NEW p \in Row, NEW q \in Row, NEW w \in Winners(p, q)
    PROVE  /\ Merged(p, q, w) \in Row /\ Merged(p, q, w).samples = p.samples + q.samples
           /\ (p.source # "none" /\ q.source # "none" => Merged(p, q, w).source # "none")
<1>1. w \in {p, q}
  BY DEF Winners
<1>2. w \in Row
  BY <1>1
<1> QED
  BY <1>1, <1>2 DEF Merged, Row

(* What a merge writes, row by row. *)
LEMMA MergeWrites ==
    ASSUME Inv, NEW s \in Items, NEW g \in Items, MergeItems(s, g)
    PROVE  /\ s # g /\ cache' \in Table
           /\ \A k \in Key :
                /\ k.item = s => cache'[k] = NoRow
                /\ k.item = g =>
                     /\ cache'[k].samples <= cache[k].samples + cache[FromItem(k, s)].samples
                     /\ Exists(cache, k) =>
                          Exists(cache', k) /\ cache[k].samples <= cache'[k].samples
                     /\ ~Exists(cache, k) /\ Exists(cache, FromItem(k, s)) =>
                          cache'[k] = cache[FromItem(k, s)]
                /\ k.item \notin {s, g} => cache'[k] = cache[k]
<1> DEFINE from(k) == FromItem(k, s)
           clash == {k \in Key : k.item = g /\ Exists(cache, k) /\ Exists(cache, from(k))}
<1>1. TypeOK /\ s # g /\ cache \in Table
  BY DEF Inv, TypeOK, MergeItems
<1>2. PICK w \in [clash -> {cache[k] : k \in Key}] :
        /\ \A k \in clash : w[k] \in Winners(cache[from(k)], cache[k])
        /\ cache' = [k \in Key |-> IF k \in clash THEN Merged(cache[from(k)], cache[k], w[k])
                                   ELSE Moved(cache, s, g)[k]]
  BY DEF MergeItems, FromItem
<1>3. ASSUME NEW k \in Key
      PROVE  /\ cache'[k] \in Row
             /\ k.item = s => cache'[k] = NoRow
             /\ k.item = g =>
                  /\ cache'[k].samples <= cache[k].samples + cache[FromItem(k, s)].samples
                  /\ Exists(cache, k) =>
                       Exists(cache', k) /\ cache[k].samples <= cache'[k].samples
                  /\ ~Exists(cache, k) /\ Exists(cache, FromItem(k, s)) =>
                       cache'[k] = cache[FromItem(k, s)]
             /\ k.item \notin {s, g} => cache'[k] = cache[k]
  <2>1. from(k) \in Key
    BY FromItemType
  <2>2. cache[k] \in Row /\ cache[from(k)] \in Row
    BY <1>1, <2>1 DEF Table
  <2>3. cache[k].samples \in Nat /\ cache[from(k)].samples \in Nat
    BY <2>2 DEF Row
  <2>4. CASE k \in clash
    <3>1. cache'[k] = Merged(cache[from(k)], cache[k], w[k])
      BY <1>2, <2>4
    <3>2. /\ cache'[k] \in Row /\ cache'[k].samples = cache[from(k)].samples + cache[k].samples
          /\ Exists(cache', k)
      BY <1>2, <2>2, <2>4, <3>1, MergedType DEF Exists
    <3> QED
      BY <1>1, <2>3, <2>4, <3>2
  <2>5. CASE k \notin clash
    <3>1. cache'[k] = Moved(cache, s, g)[k]
      BY <1>2, <2>5
    <3>2. cache'[k] = IF k.item = s THEN NoRow
                      ELSE IF k.item = g /\ ~Exists(cache, k) /\ Exists(cache, from(k))
                           THEN cache[from(k)] ELSE cache[k]
      BY <1>1, <3>1, MovedType
    <3>3. cache'[k] \in Row
      BY <2>2, <3>2, RowTypes
    <3> QED
      BY <1>1, <2>3, <3>2, <3>3 DEF Exists
  <2> QED
    BY <2>4, <2>5
<1>4. cache' \in Table
  <2>1. cache' = [k \in Key |-> cache'[k]]
    BY <1>2
  <2> QED
    BY <1>3, <2>1 DEF Table
<1> QED
  BY <1>1, <1>3, <1>4

(* An activity refers to the row of the target where it referred to that of *)
(* the source.                                                              *)
LEMMA RepointedType ==
    ASSUME Inv, NEW s \in Items, NEW g \in Items, MergeItems(s, g)
    PROVE  /\ acts' \in [Uploads -> Seq(Activity)]
           /\ \A u \in Uploads :
                /\ DOMAIN acts'[u] = DOMAIN acts[u]
                /\ \A n \in DOMAIN acts[u] :
                     /\ OneRef(acts'[u][n]) /\ acts'[u][n].actual = acts[u][n].actual
                     /\ \A k \in Key : Live(k) \in acts'[u][n].ref =>
                          /\ k.item # s
                          /\ \/ Live(k) \in acts[u][n].ref
                             \/ k.item = g /\ Live(FromItem(k, s)) \in acts[u][n].ref
<1> DEFINE new(r) == IF r.live /\ r.key.item = s THEN [r EXCEPT !.key.item = g] ELSE r
           left(u, n) == {new(r) : r \in acts[u][n].ref}
           act(u, n) == [acts[u][n] EXCEPT !.ref = left(u, n)]
<1>1. TypeOK /\ SessionsAreBacked /\ s # g
  BY DEF Inv, MergeItems
<1>2. acts' = [u \in Uploads |-> [n \in DOMAIN acts[u] |-> act(u, n)]]
  BY DEF MergeItems
<1>3. ASSUME NEW r \in Ref
      PROVE  /\ new(r) \in Ref /\ new(r).live = r.live /\ new(r).manual = r.manual
             /\ new(r) = r \/ (new(r).key.item = g /\ r.key = FromItem(new(r).key, s))
             /\ new(r).live => new(r).key.item # s
  <2>1. CASE r.live /\ r.key.item = s
    <3>1. r.key \in Key /\ r.live \in BOOLEAN /\ r.manual \in BOOLEAN
      BY DEF Ref
    <3>2. PICK h : h = [r.key EXCEPT !.item = g]
      OBVIOUS
    <3>3. h \in Key /\ h.item = g /\ r.key = [h EXCEPT !.item = s]
      BY <2>1, <3>1, <3>2 DEF Key
    <3>4. new(r) = [r EXCEPT !.key = h]
      BY <2>1, <3>2
    <3> HIDE DEF new
    <3>5. new(r) = [key |-> h, live |-> r.live, manual |-> r.manual]
      BY <3>4 DEF Ref
    <3> QED
      BY <1>1, <3>1, <3>3, <3>5 DEF Ref, FromItem
  <2>2. CASE ~(r.live /\ r.key.item = s)
    BY <2>2
  <2> QED
    BY <2>1, <2>2
<1> HIDE DEF new
<1>4. ASSUME NEW u \in Uploads, NEW n \in DOMAIN acts[u]
      PROVE  /\ act(u, n) \in Activity /\ OneRef(act(u, n))
             /\ act(u, n).actual = acts[u][n].actual
             /\ \A k \in Key : Live(k) \in act(u, n).ref =>
                  /\ k.item # s
                  /\ \/ Live(k) \in acts[u][n].ref
                     \/ k.item = g /\ Live(FromItem(k, s)) \in acts[u][n].ref
  <2>1. acts[u] \in Seq(Activity)
    BY <1>1 DEF TypeOK
  <2>2. PICK a \in Activity : a = acts[u][n]
    BY <2>1, ElementOfSeq, LenProperties
  <2>3. a.ref \subseteq Ref /\ left(u, n) = {new(r) : r \in a.ref}
    BY <2>2 DEF Activity
  <2>4. OneRef(a)
    BY <1>1, <2>2 DEF SessionsAreBacked
  <2>5. left(u, n) \subseteq Ref
    BY <1>3, <2>3
  <2>6. \A r, q \in left(u, n) : r = q /\ (r.live => ~r.manual)
    BY <1>3, <2>3, <2>4 DEF OneRef
  <2>7. ASSUME NEW k \in Key, Live(k) \in left(u, n)
        PROVE  /\ k.item # s
               /\ Live(k) \in a.ref \/ (k.item = g /\ Live(FromItem(k, s)) \in a.ref)
    <3>1. PICK r \in a.ref : Live(k) = new(r)
      BY <2>3, <2>7
    <3>2. Live(k).key = k /\ Live(k).live = TRUE /\ Live(k).manual = FALSE
      BY DEF Live
    <3>3. r \in Ref /\ r.live = TRUE /\ r.manual = FALSE
      BY <1>3, <2>3, <3>1, <3>2
    <3>4. r = Live(r.key)
      BY <3>3 DEF Ref, Live
    <3> QED
      BY <1>3, <3>1, <3>2, <3>3, <3>4
  <2> HIDE DEF left
  <2>8. act(u, n) = [item |-> a.item, type |-> a.type, ctx |-> a.ctx, actual |-> a.actual,
                     ref |-> left(u, n)]
    BY <2>2 DEF Activity
  <2>9. act(u, n) \in Activity /\ act(u, n).ref = left(u, n) /\ act(u, n).actual = a.actual
    BY <2>5, <2>8 DEF Activity
  <2> HIDE DEF act
  <2> QED
    BY <2>2, <2>6, <2>7, <2>9 DEF OneRef
<1> HIDE DEF act
<1>5. ASSUME NEW u \in Uploads
      PROVE  acts'[u] \in Seq(Activity) /\ DOMAIN acts'[u] = DOMAIN acts[u]
             /\ \A n \in DOMAIN acts[u] : acts'[u][n] = act(u, n)
  <2>1. acts'[u] = [n \in DOMAIN acts[u] |-> act(u, n)]
    BY <1>2
  <2>2. acts[u] \in Seq(Activity)
    BY <1>1 DEF TypeOK
  <2>3. PICK L \in Nat : DOMAIN acts[u] = 1..L
    BY <2>2, LenProperties
  <2>4. acts'[u] \in [1..L -> Activity]
    BY <1>4, <2>1, <2>3
  <2>5. acts'[u] \in Seq(Activity)
    BY <2>4, SeqDef
  <2> QED
    BY <2>1, <2>5
<1>6. acts' \in [Uploads -> Seq(Activity)]
  <2>1. acts' = [u \in Uploads |-> acts'[u]]
    BY <1>2
  <2> QED
    BY <1>5, <2>1
<1> QED
  BY <1>4, <1>5, <1>6

(* The uses of the two rows are uses of the one that is left. *)
LEMMA MergedUses ==
    ASSUME Inv, NEW s \in Items, NEW g \in Items, MergeItems(s, g), NEW k \in Key
    PROVE  /\ Uses'[k] \in Nat
           /\ k.item = s => Uses'[k] = 0
           /\ k.item = g => Uses'[k] <= Uses[k] + Uses[FromItem(k, s)]
           /\ k.item \notin {s, g} => Uses'[k] <= Uses[k]
<1>1. TypeOK /\ FromItem(k, s) \in Key
  BY FromItemType DEF Inv
<1>2. PICK A : A = Recorded(Live(k))
  OBVIOUS
<1>3. PICK B : B = Recorded(Live(FromItem(k, s)))
  OBVIOUS
<1>4. PICK C : C = Recorded(Live(k))'
  OBVIOUS
<1>5. ASSUME NEW y \in C
      PROVE  k.item # s /\ (y \in A \/ (k.item = g /\ y \in B))
  <2>1. PICK u \in Uploads :
          y \in {u} \X {n \in DOMAIN acts'[u] : acts'[u][n].actual /\ Live(k) \in acts'[u][n].ref}
    BY <1>4 DEF Recorded, Live
  <2>2. PICK n : y = <<u, n>> /\ n \in DOMAIN acts'[u] /\ acts'[u][n].actual
                 /\ Live(k) \in acts'[u][n].ref
    BY <2>1
  <2>3. n \in DOMAIN acts[u] /\ acts[u][n].actual /\ k.item # s
        /\ (Live(k) \in acts[u][n].ref \/ (k.item = g /\ Live(FromItem(k, s)) \in acts[u][n].ref))
    BY <2>2, RepointedType
  <2> QED
    BY <1>2, <1>3, <2>2, <2>3 DEF Recorded
<1>6. IsFiniteSet(A) /\ IsFiniteSet(B) /\ Cardinality(A) \in Nat /\ Cardinality(B) \in Nat
  BY <1>1, <1>2, <1>3, RecordedFinite
<1>7. Uses[k] = Cardinality(A) /\ Uses[FromItem(k, s)] = Cardinality(B)
      /\ Uses'[k] = Cardinality(C)
  BY <1>1, <1>2, <1>3, <1>4 DEF Uses
<1>8. C \subseteq A \cup B
  BY <1>5
<1>9. IsFiniteSet(A \cup B) /\ Cardinality(A \cup B) <= Cardinality(A) + Cardinality(B)
      /\ Cardinality(A \cup B) \in Nat
  <2>1. IsFiniteSet(A \cup B) /\ IsFiniteSet(A \cap B)
        /\ Cardinality(A \cup B) = Cardinality(A) + Cardinality(B) - Cardinality(A \cap B)
    BY <1>6, FS_Union, FS_Intersection
  <2>2. Cardinality(A \cap B) \in Nat /\ Cardinality(A \cup B) \in Nat
    BY <2>1, FS_CardinalityType
  <2> QED
    BY <1>6, <2>1, <2>2
<1>10. IsFiniteSet(C) /\ Cardinality(C) \in Nat /\ Cardinality(C) <= Cardinality(A \cup B)
  BY <1>8, <1>9, FS_Subset, FS_CardinalityType
<1>11. k.item = s => Cardinality(C) = 0
  <2>1. k.item = s => C = {}
    BY <1>5
  <2> QED
    BY <2>1, FS_EmptySet
<1>12. k.item # g => Cardinality(C) <= Cardinality(A)
  <2>1. k.item # g => C \subseteq A
    BY <1>5
  <2> QED
    BY <1>6, <2>1, FS_Subset
<1> QED
  BY <1>6, <1>7, <1>9, <1>10, <1>11, <1>12

LEMMA MergeKeeps ==
    ASSUME Inv, NEW s \in Items, NEW g \in Items, MergeItems(s, g)
    PROVE  Inv' /\ Claimed(kb', cache') \subseteq Claimed(kb, cache)
<1>1. TypeOK /\ RedirectsEnd /\ RunsAlone /\ SessionsAreBacked
  BY DEF Inv
<1>2. /\ s # g /\ into[s] = s /\ into[g] = g /\ into' = [into EXCEPT ![s] = g]
      /\ merges' = merges + 1
      /\ mem' = [u \in Uploads |-> Moved(mem[u], s, g)]
      /\ UNCHANGED <<promoted, phase, pre, evidence, corrections, actuals>>
  BY DEF MergeItems
<1>3. cache \in Table /\ kb \in Library /\ evidence \in Nat /\ cache' \in Table
  BY <1>1, MergeWrites DEF TypeOK
<1>4. kb' \in Library
      /\ \A x \in Items \X Types :
           /\ x[1] = g => kb'[x] = Knowledge(cache', cache', x[1], x[2])
           /\ x[1] = s => kb'[x] = NoKnowledge
           /\ x[1] \notin {s, g} => kb'[x] = kb[x]
  <2>1. kb' = [x \in Items \X Types |->
                 CASE x[1] = g -> Knowledge(cache', cache', x[1], x[2])
                   [] x[1] = s -> NoKnowledge
                   [] OTHER -> kb[x]]
    <3>1. DOMAIN kb = Items \X Types
      BY <1>3 DEF Library
    <3> QED
      BY <3>1 DEF MergeItems
  <2>2. ASSUME NEW x \in Items \X Types
        PROVE  /\ kb'[x] \in Known
               /\ x[1] = g => kb'[x] = Knowledge(cache', cache', x[1], x[2])
               /\ x[1] = s => kb'[x] = NoKnowledge
               /\ x[1] \notin {s, g} => kb'[x] = kb[x]
    <3>1. PICK a : a = Knowledge(cache', cache', x[1], x[2])
      OBVIOUS
    <3>2. a \in Known
      BY <1>3, <3>1, KnowledgeType
    <3>3. NoKnowledge \in Known /\ kb[x] \in Known
      BY <1>3 DEF NoKnowledge, Known, Library
    <3>4. kb'[x] = CASE x[1] = g -> a [] x[1] = s -> NoKnowledge [] OTHER -> kb[x]
      BY <2>1, <3>1
    <3>5. /\ x[1] = g => kb'[x] = a
          /\ x[1] = s => kb'[x] = NoKnowledge
          /\ x[1] \notin {s, g} => kb'[x] = kb[x]
      BY <1>2, <3>4
    <3> QED
      BY <3>1, <3>2, <3>3, <3>5
  <2> QED
    BY <2>1, <2>2 DEF Library
<1>5. /\ mem' \in [Uploads -> Table]
      /\ \A u \in Uploads : \A k \in Key :
            mem'[u][k] = IF k.item = s THEN NoRow
                         ELSE IF k.item = g /\ ~Exists(cache, k) /\ Exists(cache, FromItem(k, s))
                              THEN mem[u][FromItem(k, s)] ELSE mem[u][k]
  <2>1. \A u \in Uploads : mem[u] \in Table
    BY <1>1 DEF TypeOK
  <2>2. \A u \in Uploads : Moved(mem[u], s, g) \in Table
    BY <1>1, <1>2, <2>1, MovedType
  <2>3. ASSUME NEW u \in Uploads, NEW k \in Key
        PROVE  mem'[u][k] = IF k.item = s THEN NoRow
                         ELSE IF k.item = g /\ ~Exists(cache, k) /\ Exists(cache, FromItem(k, s))
                              THEN mem[u][FromItem(k, s)] ELSE mem[u][k]
    <3>1. mem'[u] = Moved(mem[u], s, g)
      BY <1>2
    <3> QED
      BY <1>1, <1>2, <2>1, <3>1, MovedType
  <2> QED
    BY <1>2, <2>2, <2>3
<1>6. class' \in [Items -> Types \cup {"none"}]
  <2>1. class' \in {[class EXCEPT ![g] = x] : x \in {class[s], class[g]} \ {"none"}}
                   \cup {c \in {class} : class[s] = "none"}
    BY DEF MergeItems
  <2>2. class \in [Items -> Types \cup {"none"}]
    BY <1>1 DEF TypeOK
  <2> QED
    BY <2>1, <2>2
<1>7. TypeOK'
  <2>1. acts' \in [Uploads -> Seq(Activity)]
    BY RepointedType
  <2>2. into' \in [Items -> Items] /\ merges' \in Nat
    BY <1>1, <1>2 DEF TypeOK
  <2>3. UNCHANGED <<phase, pre, evidence, corrections, actuals>>
    BY <1>2
  <2> QED
    BY ONLY <1>1, <1>3, <1>4, <1>5, <1>6, <2>1, <2>2, <2>3 DEF TypeOK
<1>8. RedirectsEnd'
  <2>1. into \in [Items -> Items] /\ into' \in [Items -> Items] /\ NoCircle(Items, into)
    BY <1>1, <1>7 DEF TypeOK, RedirectsEnd
  <2>2. into'[s] = g /\ \A k \in Items \ {s} : into'[k] = into[k]
    BY <1>2, <2>1
  <2>3. NoCircle(Items, into')
    <3>1. PICK h \in [Items -> Items] : h = into'
      BY <2>1
    <3>2. h[s] = g /\ into[s] = s /\ into[g] = g /\ s # g /\ \A k \in Items \ {s} : h[k] = into[k]
      BY <1>2, <2>2, <3>1
    <3>3. NoCircle(Items, h)
      BY <2>1, <3>2, MergedEnds
    <3> QED
      BY <3>1, <3>3
  <2> QED
    BY <2>3 DEF RedirectsEnd, NoCircle, Closed
<1>9. RunsAlone'
  BY <1>1, <1>2 DEF RunsAlone
<1>10. SessionsAreBacked'
  <2> SUFFICES ASSUME NEW v \in Uploads
               PROVE  /\ Backed(mem[v], cache, ProjectOf[v])'
                      /\ phase'[v] # "running" => \A j \in Key : ~Exists(mem'[v], j)
                      /\ phase'[v] # "done" => acts'[v] = <<>>
                      /\ \A m \in DOMAIN pre'[v] : pre'[v][m].p.key.project = ProjectOf[v]
                      /\ \A m \in DOMAIN acts'[v] : OneRef(acts'[v][m])
    BY DEF SessionsAreBacked
  <2>1. Backed(mem[v], cache, ProjectOf[v])
    BY <1>1 DEF SessionsAreBacked
  <2>2. ASSUME NEW k \in Key, Exists(mem'[v], k)
        PROVE  /\ k.project = ProjectOf[v] /\ Exists(cache', k)
               /\ mem'[v][k].samples <= cache'[k].samples
               /\ \E j \in Key : Exists(mem[v], j)
    <3>1. k.item # s
      BY <1>5, <2>2, RowTypes DEF Exists
    <3>2. FromItem(k, s) \in Key /\ FromItem(k, s).project = k.project
      BY FromItemType
    <3>3. CASE k.item = g /\ ~Exists(cache, k) /\ Exists(cache, FromItem(k, s))
      <4>1. mem'[v][k] = mem[v][FromItem(k, s)]
        BY <1>5, <3>1, <3>3
      <4>2. Exists(mem[v], FromItem(k, s))
        BY <2>2, <4>1 DEF Exists
      <4>3. k.project = ProjectOf[v] /\ mem[v][FromItem(k, s)].samples <= cache[FromItem(k, s)].samples
        BY <2>1, <3>2, <4>2 DEF Backed
      <4>4. cache'[k] = cache[FromItem(k, s)]
        BY <3>3, MergeWrites
      <4> QED
        BY <3>2, <3>3, <4>1, <4>2, <4>3, <4>4 DEF Exists
    <3>4. CASE ~(k.item = g /\ ~Exists(cache, k) /\ Exists(cache, FromItem(k, s)))
      <4>1. mem'[v][k] = mem[v][k]
        BY <1>5, <3>1, <3>4
      <4>2. Exists(mem[v], k)
        BY <2>2, <4>1 DEF Exists
      <4>3. k.project = ProjectOf[v] /\ mem[v][k].samples <= cache[k].samples /\ Exists(cache, k)
        BY <2>1, <4>2 DEF Backed
      <4>4. mem[v][k].samples \in Nat /\ cache[k].samples \in Nat /\ cache'[k].samples \in Nat
        BY <1>1, <1>3 DEF TypeOK, Table, Row
      <4>5. Exists(cache', k) /\ cache[k].samples <= cache'[k].samples
        <5>1. CASE k.item = g
          BY <4>3, <5>1, MergeWrites
        <5>2. CASE k.item # g
          <6>1. cache'[k] = cache[k]
            BY <3>1, <5>2, MergeWrites
          <6> QED
            BY <4>3, <4>4, <6>1 DEF Exists
        <5> QED
          BY <5>1, <5>2
      <4> QED
        BY <4>1, <4>2, <4>3, <4>4, <4>5
    <3> QED
      BY <3>3, <3>4
  <2>3. Backed(mem[v], cache, ProjectOf[v])'
    BY <2>2 DEF Backed
  <2>4. phase'[v] # "running" => \A j \in Key : ~Exists(mem'[v], j)
    BY <1>1, <1>2, <2>2 DEF SessionsAreBacked
  <2>5. phase'[v] # "done" => acts'[v] = <<>>
    <3> SUFFICES ASSUME phase[v] # "done" PROVE acts'[v] = <<>>
      BY <1>2
    <3>1. acts[v] = <<>>
      BY <1>1 DEF SessionsAreBacked
    <3>2. DOMAIN acts'[v] = {} /\ acts'[v] \in Seq(Activity)
      BY <3>1, RepointedType
    <3>3. PICK L \in Nat : L = Len(acts'[v]) /\ DOMAIN acts'[v] = 1..L
      BY <3>2, LenProperties
    <3>4. L = 0
      <4>1. L # 0 => 1 \in 1..L
        BY <3>3
      <4> QED
        BY <3>2, <3>3, <4>1
    <3> QED
      BY <3>2, <3>3, <3>4, EmptySeq
  <2>6. \A m \in DOMAIN acts'[v] : OneRef(acts'[v][m])
    BY RepointedType
  <2> QED
    BY <1>1, <1>2, <2>3, <2>4, <2>5, <2>6 DEF SessionsAreBacked
<1>11. Holds(Samples(cache), Uses, evidence)'
  <2>1. PICK h \in [Key -> Nat] :
          /\ Total(h, Key) <= evidence
          /\ \A k \in Key : Samples(cache)[k] <= h[k] /\ Uses[k] <= h[k]
    BY DEF Inv, Holds
  <2> DEFINE C == {k \in Key : k.item = g}
             from == [k \in C |-> FromItem(k, s)]
             t == Taken(h, Key, C, from)
  <2>2. C \in SUBSET Key /\ from \in [C -> Key] /\ \A k \in C : from[k] = FromItem(k, s)
    BY FromItemType
  <2>3. \A c \in C : from[c] \notin C
    BY <1>2, FromItemType
  <2>4. \A c, d \in C : from[c] = from[d] => c = d
    BY FromItemOnce
  <2>5. t \in [Key -> Nat]
        /\ \A k \in Key :
             /\ k.item = g => t[k] = h[k] + h[FromItem(k, s)]
             /\ k.item \notin {s, g} => t[k] = h[k]
    <3>1. \A c \in C : from[c].item = s
      BY FromItemType
    <3> HIDE DEF from
    <3> QED
      BY <2>2, <3>1 DEF Taken
  <2> HIDE DEF C, from
  <2>6. Total(t, Key) = Total(h, Key)
    BY <2>2, <2>3, <2>4, KeysAreFinite, TotalMoved
  <2> HIDE DEF t
  <2>7. ASSUME NEW k \in Key
        PROVE  Samples(cache')[k] <= t[k] /\ Uses'[k] <= t[k]
    <3>1. FromItem(k, s) \in Key
      BY FromItemType
    <3>2. /\ cache[k].samples <= h[k] /\ cache[FromItem(k, s)].samples <= h[FromItem(k, s)]
          /\ Uses[k] <= h[k] /\ Uses[FromItem(k, s)] <= h[FromItem(k, s)]
      BY <1>3, <2>1, <3>1, SamplesType
    <3>3. /\ cache[k].samples \in Nat /\ cache[FromItem(k, s)].samples \in Nat
          /\ cache'[k].samples \in Nat /\ Uses[k] \in Nat /\ Uses[FromItem(k, s)] \in Nat
          /\ Uses'[k] \in Nat /\ h[k] \in Nat /\ h[FromItem(k, s)] \in Nat /\ t[k] \in Nat
      BY <1>1, <1>3, <2>5, <3>1, UsesType, MergedUses DEF Table, Row
    <3>4. Samples(cache')[k] = cache'[k].samples
      BY <1>3, SamplesType
    <3>5. CASE k.item = s
      <4>1. cache'[k].samples = 0 /\ Uses'[k] = 0
        BY <3>5, MergeWrites, MergedUses, RowTypes
      <4> QED
        BY <3>3, <3>4, <4>1
    <3>6. CASE k.item = g
      <4>1. cache'[k].samples <= cache[k].samples + cache[FromItem(k, s)].samples
            /\ Uses'[k] <= Uses[k] + Uses[FromItem(k, s)]
        BY <3>6, MergeWrites, MergedUses
      <4>2. t[k] = h[k] + h[FromItem(k, s)]
        BY <2>5, <3>6
      <4> QED
        BY <3>2, <3>3, <3>4, <4>1, <4>2
    <3>7. CASE k.item \notin {s, g}
      <4>1. cache'[k] = cache[k] /\ Uses'[k] <= Uses[k] /\ t[k] = h[k]
        BY <2>5, <3>7, MergeWrites, MergedUses
      <4> QED
        BY <3>2, <3>3, <3>4, <4>1
    <3> QED
      BY <3>5, <3>6, <3>7
  <2>8. Total(t, Key) <= evidence'
    BY <1>2, <2>1, <2>6
  <2> QED
    BY <2>5, <2>7, <2>8 DEF Holds
<1>12. ASSUME NEW x \in Claimed(kb', cache')
       PROVE  x \in Claimed(kb, cache)
  <2>1. x \in Items \X Types
    BY DEF Claimed
  <2>2. x[1] # g
    <3> SUFFICES ASSUME x[1] = g PROVE FALSE
      OBVIOUS
    <3>1. kb'[x] = Knowledge(cache', cache', x[1], x[2])
      BY <1>4, <2>1
    <3>2. \A j \in Key : Same(cache'[j], cache'[j])
      BY DEF Same
    <3> QED
      BY <1>3, <1>4, <1>12, <2>1, <3>1, <3>2, RebuiltIsNotClaimed
  <2>3. x[1] # s
    BY <1>4, <1>12, <2>1 DEF Claimed, NoKnowledge
  <2>4. kb'[x] = kb[x]
    BY <1>4, <2>1, <2>2, <2>3
  <2>5. ASSUME NEW j \in Key, j.item = x[1], j.type = x[2]
        PROVE  Same(cache[j], cache'[j])
    <3>1. cache'[j] = cache[j]
      BY <2>2, <2>3, <2>5, MergeWrites
    <3> QED
      BY <3>1 DEF Same
  <2> QED
    BY <1>3, <1>12, <2>1, <2>4, <2>5, ClaimStays
<1> QED
  BY <1>7, <1>8, <1>9, <1>10, <1>11, <1>12 DEF Inv

-----------------------------------------------------------------------------
(* The theorems.                                                            *)

(* A session that did not go stale lost no manual row and claims nothing.   *)
LEMMA FinishAgrees ==
    ASSUME Inv, NEW u \in Uploads, Finish(u), ~Stale(u)
    PROVE  /\ Claimed(kb', cache') \subseteq Claimed(kb, cache)
           /\ \A j \in Key : cache[j].source = "manual" => cache'[j] = cache[j]
<1>1. PICK end : Agrees(end) /\ cache' = end.db /\ kb' = end.kb
  BY FinishWrites
<1> QED
  BY <1>1 DEF Agrees

LEMMA NextInv == Inv /\ [Next]_vars => Inv'
<1> SUFFICES ASSUME Inv, [Next]_vars PROVE Inv'
  OBVIOUS
<1>1. CASE Materialize
  <2>1. PICK u \in Uploads : Start(u) \/ Finish(u) \/ Fail(u)
    BY <1>1 DEF Materialize
  <2> QED
    BY <2>1, StartInv, FinishInv, FailInv
<1>2. CASE Correct
  <2>1. PICK u \in Uploads : \E n \in DOMAIN acts[u], t \in Types :
          \/ \E changed \in BOOLEAN : CorrectHours(u, n, t, changed)
          \/ CorrectMetadata(u, n, t)
    BY <1>2 DEF Correct
  <2>2. PICK n \in DOMAIN acts[u], t \in Types :
          \/ \E changed \in BOOLEAN : CorrectHours(u, n, t, changed)
          \/ CorrectMetadata(u, n, t)
    BY <2>1
  <2> QED
    BY <2>2, CorrectHoursKeeps, CorrectMetadataKeeps
<1>3. CASE \E s, g \in Items : MergeItems(s, g)
  BY <1>3, MergeKeeps
<1>4. CASE \E u \in Uploads : \E n \in DOMAIN acts[u] : RecordActual(u, n)
  BY <1>4, RecordActualKeeps
<1>5. CASE \E x \in Promotable : Promote(x)
  BY <1>5, StutterInv DEF Promote
<1>6. CASE UNCHANGED vars
  BY <1>6, StutterInv DEF vars
<1> QED
  BY <1>1, <1>2, <1>3, <1>4, <1>5, <1>6 DEF Next

(* Every history keeps the invariant: the rows a session holds are in the   *)
(* table, redirects end, and each row has a share of the observations that  *)
(* were made.                                                               *)
THEOREM ProfilesConsistent == Spec => []Inv
BY InitInv, NextInv, PTL DEF Spec

(* The rows hold no more observations than the shares they were given.      *)
LEMMA SharesAreReal == Inv => EvidenceIsReal
<1> SUFFICES ASSUME Inv PROVE EvidenceIsReal
  OBVIOUS
<1>1. cache \in Table /\ evidence \in Nat
  BY DEF Inv, TypeOK
<1>2. PICK s \in [Key -> Nat] : s = Samples(cache)
  BY <1>1, SamplesType
<1>3. PICK h \in [Key -> Nat] : Total(h, Key) <= evidence /\ \A k \in Key : s[k] <= h[k]
  BY <1>2 DEF Inv, Holds
<1>4. Total(s, Key) <= Total(h, Key)
  BY <1>3, KeysAreFinite, TotalGrows
<1>5. Total(s, Key) \in Nat /\ Total(h, Key) \in Nat
  BY KeysAreFinite, TotalIsNatural
<1> QED
  BY <1>1, <1>2, <1>3, <1>4, <1>5 DEF EvidenceIsReal

(* EvidenceIsReal: whatever is materialized, seeded, corrected, merged or   *)
(* recorded, and in whatever order, the cache of all projects never holds   *)
(* more observations than were made.                                        *)
THEOREM EvidenceNeverExceedsHistory == Spec => []EvidenceIsReal
BY ProfilesConsistent, SharesAreReal, PTL

(* KnowledgeFollowsEvidence: no step makes the knowledge shared by all      *)
(* projects claim more than its rows hold, but for the correction that      *)
(* keeps its hours and the session that went stale.                         *)
THEOREM ClaimsFollowEvidence == Spec => KnowledgeFollowsEvidence
<1>1. ASSUME Inv, [Next]_vars
      PROVE  [\/ Claimed(kb', cache') \subseteq Claimed(kb, cache)
              \/ \E u \in Uploads, t \in Types : \E n \in DOMAIN acts[u] :
                    CorrectHours(u, n, t, FALSE)
              \/ \E u \in Uploads : phase'[u] # phase[u] /\ Stale(u)]_vars
  <2> SUFFICES ASSUME ~ \E u \in Uploads, t \in Types : \E n \in DOMAIN acts[u] :
                           CorrectHours(u, n, t, FALSE),
                      ~ \E u \in Uploads : phase'[u] # phase[u] /\ Stale(u)
               PROVE  Claimed(kb', cache') \subseteq Claimed(kb, cache)
    OBVIOUS
  <2>1. CASE kb' = kb /\ cache' = cache
    BY <2>1
  <2>2. ASSUME NEW u \in Uploads, Finish(u)
        PROVE  Claimed(kb', cache') \subseteq Claimed(kb, cache)
    <3>1. phase'[u] # phase[u]
      BY <1>1, <2>2 DEF Finish, Inv, TypeOK
    <3> QED
      BY <1>1, <2>2, <3>1, FinishAgrees
  <2>3. CASE Materialize
    <3>1. PICK u \in Uploads : Start(u) \/ Finish(u) \/ Fail(u)
      BY <2>3 DEF Materialize
    <3> QED
      BY <2>1, <2>2, <3>1 DEF Start, Fail
  <2>4. CASE Correct
    <3>1. PICK u \in Uploads : \E n \in DOMAIN acts[u], t \in Types :
            \/ \E changed \in BOOLEAN : CorrectHours(u, n, t, changed)
            \/ CorrectMetadata(u, n, t)
      BY <2>4 DEF Correct
    <3>2. PICK n \in DOMAIN acts[u], t \in Types :
            \/ \E changed \in BOOLEAN : CorrectHours(u, n, t, changed)
            \/ CorrectMetadata(u, n, t)
      BY <3>1
    <3>3. CASE CorrectMetadata(u, n, t)
      BY <1>1, <3>3, CorrectMetadataKeeps
    <3>4. CASE \E changed \in BOOLEAN : CorrectHours(u, n, t, changed)
      <4>1. PICK changed \in BOOLEAN : CorrectHours(u, n, t, changed)
        BY <3>4
      <4>2. changed
        <5>1. changed = FALSE => CorrectHours(u, n, t, FALSE)
          BY <4>1
        <5> QED
          BY <5>1
      <4> QED
        BY <1>1, <4>1, <4>2, CorrectHoursKeeps
    <3> QED
      BY <3>2, <3>3, <3>4
  <2>5. CASE \E s, g \in Items : MergeItems(s, g)
    BY <1>1, <2>5, MergeKeeps
  <2>6. CASE \E u \in Uploads : \E n \in DOMAIN acts[u] : RecordActual(u, n)
    BY <1>1, <2>6, RecordActualKeeps
  <2>7. CASE \E x \in Promotable : Promote(x)
    BY <2>1, <2>7 DEF Promote
  <2>8. CASE UNCHANGED vars
    BY <2>1, <2>8 DEF vars
  <2> QED
    BY <1>1, <2>3, <2>4, <2>5, <2>6, <2>7, <2>8 DEF Next
<1> QED
  BY <1>1, ProfilesConsistent, PTL DEF Spec, KnowledgeFollowsEvidence

(* ManualHoursStay: the hours a person gave stay until a correction or a    *)
(* merge, but for the session that went stale.                              *)
THEOREM ManualHoursAreKept == Spec => ManualHoursStay
<1>1. ASSUME Inv, [Next]_vars
      PROVE  [\A k \in Key : cache[k].source = "manual" =>
                 \/ cache'[k] = cache[k]
                 \/ corrections' # corrections \/ merges' # merges
                 \/ \E u \in Uploads : phase'[u] # phase[u] /\ Stale(u)]_vars
  <2> SUFFICES ASSUME corrections' = corrections, merges' = merges,
                      ~ \E u \in Uploads : phase'[u] # phase[u] /\ Stale(u)
               PROVE  \A k \in Key : cache[k].source = "manual" => cache'[k] = cache[k]
    OBVIOUS
  <2>1. CASE cache' = cache
    BY <2>1
  <2>2. ASSUME NEW u \in Uploads, Finish(u)
        PROVE  \A k \in Key : cache[k].source = "manual" => cache'[k] = cache[k]
    <3>1. phase'[u] # phase[u]
      BY <1>1, <2>2 DEF Finish, Inv, TypeOK
    <3> QED
      BY <1>1, <2>2, <3>1, FinishAgrees
  <2>3. CASE Materialize
    <3>1. PICK u \in Uploads : Start(u) \/ Finish(u) \/ Fail(u)
      BY <2>3 DEF Materialize
    <3> QED
      BY <2>1, <2>2, <3>1 DEF Start, Fail
  <2>4. CASE Correct
    <3>1. PICK u \in Uploads : \E n \in DOMAIN acts[u], t \in Types :
            \/ \E changed \in BOOLEAN : CorrectHours(u, n, t, changed)
            \/ CorrectMetadata(u, n, t)
      BY <2>4 DEF Correct
    <3>2. PICK n \in DOMAIN acts[u], t \in Types :
            \/ \E changed \in BOOLEAN : CorrectHours(u, n, t, changed)
            \/ CorrectMetadata(u, n, t)
      BY <3>1
    <3>3. Corrects(u, n, Canonical(acts[u][n].item), t)
      <4>1. CASE CorrectMetadata(u, n, t)
        BY <4>1 DEF CorrectMetadata
      <4>2. CASE \E changed \in BOOLEAN : CorrectHours(u, n, t, changed)
        <5>1. PICK changed \in BOOLEAN : CorrectHours(u, n, t, changed)
          BY <4>2
        <5> QED
          BY <5>1 DEF CorrectHours
      <4> QED
        BY <3>2, <4>1, <4>2
    <3>4. corrections' = corrections + 1
      BY <3>3 DEF Corrects
    <3>5. corrections \in Nat
      BY <1>1 DEF Inv, TypeOK
    <3> QED
      BY <3>4, <3>5
  <2>5. CASE \E s, g \in Items : MergeItems(s, g)
    <3>1. merges' = merges + 1 /\ merges \in Nat
      BY <1>1, <2>5 DEF MergeItems, Inv, TypeOK
    <3> QED
      BY <3>1
  <2>6. CASE \E u \in Uploads : \E n \in DOMAIN acts[u] : RecordActual(u, n)
    BY <1>1, <2>6, RecordActualKeeps
  <2>7. CASE \E x \in Promotable : Promote(x)
    BY <2>1, <2>7 DEF Promote
  <2>8. CASE UNCHANGED vars
    BY <2>1, <2>8 DEF vars
  <2> QED
    BY <1>1, <2>3, <2>4, <2>5, <2>6, <2>7, <2>8 DEF Next
<1> QED
  BY <1>1, ProfilesConsistent, PTL DEF Spec, ManualHoursStay
=============================================================================
