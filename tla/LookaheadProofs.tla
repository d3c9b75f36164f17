-------------------------- MODULE LookaheadProofs --------------------------
(***************************************************************************)
(* Theorems about Lookahead, for every number of sessions, every set of    *)
(* bookings, every programme and every policy.                             *)
(***************************************************************************)
EXTENDS Lookahead, FoldTheorems

-----------------------------------------------------------------------------
(* The order in which the policy's caps are spent.                          *)

LEMMA KeysAreFinite == IsFiniteSet(Keys)
<1> DEFINE of == [t \in Types |-> {<<k, t>> : k \in Assigned[t]}]
<1>1. ASSUME NEW t \in Types
      PROVE  IsFiniteSet(of[t])
  <2> DEFINE f == [k \in Assigned[t] |-> <<k, t>>]
  <2>1. IsFiniteSet(Assigned[t])
    BY LookaheadAssumption
  <2> HIDE DEF f
  <2>2. IsFiniteSet({f[k] : k \in Assigned[t]})
    BY <2>1, ImageIsFinite
  <2>3. {f[k] : k \in Assigned[t]} = of[t]
    BY DEF f
  <2> QED
    BY <2>2, <2>3
<1>2. Keys = UNION {of[t] : t \in Types}
  BY DEF Keys
<1> HIDE DEF of
<1>3. IsFiniteSet({of[t] : t \in Types})
  <2>1. IsFiniteSet(Types)
    BY LookaheadAssumption
  <2> QED
    BY <2>1, ImageIsFinite
<1>4. \A S \in {of[t] : t \in Types} : IsFiniteSet(S)
  BY <1>1
<1> QED
  BY <1>2, <1>3, <1>4, FS_UNION

LEMMA KeysArePairs ==
  ASSUME NEW k \in Keys
  PROVE  k = <<k[1], k[2]>> /\ k[1] \in Nat /\ k[2] \in Nat /\ k[2] \in Types
<1>1. PICK t \in Types : k \in {<<j, t>> : j \in Assigned[t]}
  BY DEF Keys
<1>2. PICK j \in Assigned[t] : k = <<j, t>>
  BY <1>1
<1>3. j \in Nat /\ t \in Nat
  BY LookaheadAssumption
<1> QED
  BY <1>2, <1>3

(* The numbers a calculation finds in a snapshot.                           *)
Rated(p) ==
  \A t \in Types : /\ p.demand[t] \in Nat
                   /\ p.rows[t].gap \in Nat
                   /\ p.rows[t].gap > 0 => p.demand[t] > 0

LEMMA QuotientsAreIntegers ==
  ASSUME NEW a \in Nat, NEW b \in Nat \ {0}
  PROVE  a \div b \in Int
OBVIOUS

LEMMA SeveritiesAreIntegers ==
  ASSUME NEW demand \in Nat \ {0}, NEW gap \in Nat
  PROVE  Severity(demand, gap) \in Int
<1> DEFINE a == 320000 * gap + demand
           b == 2 * demand
<1>1. a \in Nat /\ b \in Nat \ {0}
  OBVIOUS
<1> HIDE DEF a, b
<1>2. a \div b \in Int
  BY <1>1, QuotientsAreIntegers
<1>3. 10000 * gap + (a \div b) + 2500 * demand \in Int
  BY <1>2
<1> QED
  BY <1>3 DEF Severity, a, b

(* Of the alerts a snapshot warrants, one is the least severe.              *)
LEMMA OneIsLeast ==
  ASSUME NEW p, Rated(p)
  PROVE  \A s \in SUBSET Candidates(p) :
            s # {} => Least(p, s) \in s /\ \A l \in s \ {Least(p, s)} : Before(p, l, Least(p, s))
<1> DEFINE D == Candidates(p)
           R == {q \in D \X D : Before(p, q[1], q[2])}
           score(k) == Severity(p.demand[k[2]], p.rows[k[2]].gap)
<1>1. ASSUME NEW k \in D
      PROVE  score(k) \in Int /\ k = <<k[1], k[2]>> /\ k[1] \in Nat /\ k[2] \in Nat
  <2>1. k \in Keys /\ p.rows[k[2]].gap > 0
    BY DEF Candidates
  <2>2. k = <<k[1], k[2]>> /\ k[1] \in Nat /\ k[2] \in Nat /\ k[2] \in Types
    BY <2>1, KeysArePairs
  <2>3. p.demand[k[2]] \in Nat \ {0} /\ p.rows[k[2]].gap \in Nat
    BY <2>1, <2>2 DEF Rated
  <2> QED
    BY <2>2, <2>3, SeveritiesAreIntegers
<1>2. \A k, l : Before(p, k, l) <=> \/ score(k) > score(l)
                                    \/ score(k) = score(l) /\ k[1] < l[1]
                                    \/ score(k) = score(l) /\ k[1] = l[1] /\ k[2] < l[2]
  BY DEF Before
<1> HIDE DEF score
<1>3. ASSUME NEW k \in D, NEW l \in D, k # l
      PROVE  Before(p, k, l) \/ Before(p, l, k)
  <2>1. k[1] # l[1] \/ k[2] # l[2]
    BY <1>1, <1>3
  <2> QED
    BY <1>1, <1>2, <2>1
<1>4. ASSUME NEW k \in D, NEW l \in D, NEW m \in D, Before(p, k, l), Before(p, l, m)
      PROVE  Before(p, k, m)
  BY <1>1, <1>2, <1>4
<1>5. IsFiniteSet(D)
  BY KeysAreFinite, FS_Subset DEF Candidates
<1> SUFFICES ASSUME NEW s \in SUBSET D, s # {}
             PROVE  Least(p, s) \in s /\ \A l \in s \ {Least(p, s)} : Before(p, l, Least(p, s))
  OBVIOUS
<1>6. PICK k \in s : \A l \in s \ {k} : <<l, k>> \in R
  <2>1. \A j, l \in D : j # l => <<j, l>> \in R \/ <<l, j>> \in R
    BY <1>3
  <2>2. \A j, l, m \in D : <<j, l>> \in R /\ <<l, m>> \in R => <<j, m>> \in R
    BY <1>4
  <2> HIDE DEF R, D
  <2> QED
    BY <1>5, <2>1, <2>2, LastOfSet
<1>7. \A l \in s \ {k} : Before(p, l, k)
  BY <1>6
<1> QED
  BY <1>7 DEF Least

-----------------------------------------------------------------------------
(* The caps of the policy.                                                  *)

Capped(kept) ==
  /\ IsFiniteSet(kept)
  /\ Cardinality(kept) <= PerProject
  /\ \A k : Cardinality({x \in kept : x[1] = k}) <= PerSub

LEMMA KeepIsCapped ==
  ASSUME NEW kept, Capped(kept), NEW k
  PROVE  Capped(Keep(kept, k))
<1> DEFINE Of(S, j) == {x \in S : x[1] = j}
           new == kept \cup {k}
<1>1. CASE Keep(kept, k) = kept
  BY <1>1
<1>2. CASE Keep(kept, k) = new /\ k \notin kept /\ Keep(kept, k) # kept
  <2>1. Cardinality(Of(kept, k[1])) < PerSub /\ Cardinality(kept) < PerProject
    BY <1>2 DEF Keep
  <2>2. IsFiniteSet(kept) /\ PerSub \in Nat /\ PerProject \in Nat
    BY LookaheadAssumption DEF Capped
  <2>3. IsFiniteSet(new) /\ Cardinality(new) = Cardinality(kept) + 1 /\ Cardinality(kept) \in Nat
    BY <1>2, <2>2, FS_AddElement, FS_CardinalityType
  <2>4. ASSUME NEW j
        PROVE  Cardinality(Of(new, j)) <= PerSub
    <3>1. CASE j = k[1]
      <4>1. Of(new, j) = Of(kept, j) \cup {k} /\ k \notin Of(kept, j)
        BY <1>2, <3>1
      <4>2. IsFiniteSet(Of(kept, j))
        BY <2>2, FS_Subset
      <4> HIDE DEF Of
      <4>3. /\ Cardinality(Of(new, j)) = Cardinality(Of(kept, j)) + 1
            /\ Cardinality(Of(kept, j)) \in Nat
        BY <4>1, <4>2, FS_AddElement, FS_CardinalityType
      <4> QED
        BY <2>1, <2>2, <3>1, <4>3
    <3>2. CASE j # k[1]
      <4>1. Of(new, j) = Of(kept, j)
        BY <3>2
      <4> QED
        BY <4>1 DEF Capped
    <3> QED
      BY <3>1, <3>2
  <2>5. Cardinality(new) <= PerProject
    BY <2>1, <2>2, <2>3
  <2> HIDE DEF new
  <2> QED
    BY <1>2, <2>3, <2>4, <2>5 DEF Capped
<1> QED
  BY <1>1, <1>2 DEF Keep

(* The caps are spent on the most severe: of the candidates in s, one that  *)
(* is left out finds the cap of its subcontractor, or that of the project,  *)
(* used up by candidates that come before it.                               *)
MostSevere(p, s, kept) ==
  /\ kept \subseteq s
  /\ Capped(kept)
  /\ \A k \in s \ kept :
        \/ Cardinality({x \in kept : x[1] = k[1] /\ Before(p, x, k)}) >= PerSub
        \/ Cardinality({x \in kept : Before(p, x, k)}) >= PerProject

LEMMA KeepIsMostSevere ==
  ASSUME NEW p, NEW s, NEW l \in s, \A x \in s \ {l} : Before(p, x, l),
         NEW kept, MostSevere(p, s \ {l}, kept)
  PROVE  MostSevere(p, s, Keep(kept, l))
<1> DEFINE new == Keep(kept, l)
           Mine(S, k) == {x \in S : x[1] = k[1] /\ Before(p, x, k)}
           All(S, k) == {x \in S : Before(p, x, k)}
<1>1. Capped(kept) /\ Capped(new)
  BY KeepIsCapped DEF MostSevere
<1>2. IsFiniteSet(kept) /\ IsFiniteSet(new)
  BY <1>1 DEF Capped
<1>3. kept \subseteq new /\ new \subseteq s
  BY DEF MostSevere, Keep
<1>4. PerSub \in Nat /\ PerProject \in Nat
  BY LookaheadAssumption
<1>5. ASSUME NEW k \in s \ new
      PROVE  Cardinality(Mine(new, k)) >= PerSub \/ Cardinality(All(new, k)) >= PerProject
  <2>1. /\ IsFiniteSet(Mine(kept, k)) /\ IsFiniteSet(Mine(new, k))
        /\ IsFiniteSet(All(kept, k)) /\ IsFiniteSet(All(new, k))
    BY <1>2, FS_Subset
  <2>2. CASE k = l
    <3>1. new = kept
      BY <1>5, <2>2 DEF Keep
    <3>2. Mine(kept, k) = {x \in kept : x[1] = l[1]} /\ All(kept, k) = kept
      BY <2>2 DEF MostSevere
    <3>3. ~(Cardinality({x \in kept : x[1] = l[1]}) < PerSub /\ Cardinality(kept) < PerProject)
      BY <1>5, <2>2 DEF Keep
    <3>4. Cardinality(Mine(kept, k)) \in Nat /\ Cardinality(All(kept, k)) \in Nat
      BY <2>1, FS_CardinalityType
    <3> HIDE DEF Mine, All, new
    <3> QED
      BY <1>4, <3>1, <3>2, <3>3, <3>4
  <2>3. CASE k # l
    <3>1. k \in (s \ {l}) \ kept
      BY <1>3, <2>3
    <3>2. Mine(kept, k) \subseteq Mine(new, k) /\ All(kept, k) \subseteq All(new, k)
      BY <1>3
    <3>3. \/ Cardinality(Mine(kept, k)) >= PerSub
          \/ Cardinality(All(kept, k)) >= PerProject
      BY <3>1 DEF MostSevere
    <3> HIDE DEF Mine, All, new
    <3>4. /\ Cardinality(Mine(kept, k)) <= Cardinality(Mine(new, k))
          /\ Cardinality(All(kept, k)) <= Cardinality(All(new, k))
      BY <2>1, <3>2, FS_Subset
    <3>5. /\ Cardinality(Mine(kept, k)) \in Nat /\ Cardinality(Mine(new, k)) \in Nat
          /\ Cardinality(All(kept, k)) \in Nat /\ Cardinality(All(new, k)) \in Nat
      BY <2>1, FS_CardinalityType
    <3> QED
      BY <1>4, <3>3, <3>4, <3>5
  <2> QED
    BY <2>2, <2>3
<1> HIDE DEF new
<1> QED
  BY <1>1, <1>3, <1>5 DEF MostSevere, new

LEMMA EmptyIsCapped == Capped({})
<1>1. IsFiniteSet({}) /\ Cardinality({}) = 0
  BY FS_EmptySet
<1>2. \A k : {x \in {} : x[1] = k} = {}
  OBVIOUS
<1>3. 0 <= PerProject /\ 0 <= PerSub
  BY LookaheadAssumption
<1> QED
  BY <1>1, <1>2, <1>3 DEF Capped

(* sync_lookahead_notifications keeps the most severe of the alerts that    *)
(* the snapshot warrants, and no more of them than the policy allows.       *)
THEOREM TheMostSevereSurvive ==
  ASSUME NEW p, Rated(p)
  PROVE  MostSevere(p, Candidates(p), Surviving(p))
<1> DEFINE D == Candidates(p)
           pick == [s \in SUBSET D |-> Least(p, s)]
           V == SUBSET D
           F == [q \in (SUBSET D) \X V |-> IF q[1] = {} THEN {} ELSE Keep(q[2], pick[q[1]])]
           Q(f) == f = [s \in SUBSET D |->
                          IF s = {} THEN {} ELSE Keep(f[s \ {Least(p, s)}], Least(p, s))]
           iter == CHOOSE f : Q(f)
<1>1. IsFiniteSet(D)
  BY KeysAreFinite, FS_Subset DEF Candidates
<1>2. \A s \in SUBSET D : s # {} => /\ Least(p, s) \in s
                                    /\ \A l \in s \ {Least(p, s)} : Before(p, l, Least(p, s))
  BY OneIsLeast
<1> HIDE DEF D
<1>3. \A s \in SUBSET D : s # {} => pick[s] \in s
  BY <1>2
<1>4. Picks(pick, D)
  BY <1>3 DEF Picks
<1>5. F \in [(SUBSET D) \X V -> V]
  <2>1. ASSUME NEW s \in SUBSET D, s # {}, NEW kept \in V
        PROVE  Keep(kept, pick[s]) \in V
    <3>1. pick[s] \in D
      BY <1>3, <2>1
    <3> HIDE DEF pick
    <3> QED
      BY <3>1 DEF Keep
  <2> HIDE DEF pick
  <2> QED
    BY <2>1
<1>6. PICK g \in [SUBSET D -> V] : Folds(g, D, pick, {}, F)
  <2>1. {} \in V
    OBVIOUS
  <2> HIDE DEF F, pick, V
  <2> QED
    BY <1>1, <1>4, <1>5, <2>1, FoldExists
<1>7. Q(g)
  <2>1. ASSUME NEW s \in SUBSET D, s # {}
        PROVE  F[<<s, g[s \ {pick[s]}]>>] = Keep(g[s \ {pick[s]}], pick[s])
    <3>1. g[s \ {pick[s]}] \in V
      OBVIOUS
    <3> HIDE DEF pick, V
    <3> QED
      BY <2>1, <3>1
  <2>2. g = [s \in SUBSET D |-> IF s = {} THEN {} ELSE F[<<s, g[s \ {pick[s]}]>>]]
    BY <1>6 DEF Folds
  <2>3. g = [s \in SUBSET D |-> IF s = {} THEN {} ELSE Keep(g[s \ {pick[s]}], pick[s])]
    <3> HIDE DEF F, pick
    <3> QED
      BY <2>1, <2>2
  <2> QED
    BY <2>3
<1>8. Q(iter)
  <2> HIDE DEF Q
  <2> QED
    BY <1>7
<1>9. Surviving(p) = iter[D]
  BY DEF Surviving, MapThenFoldSet, D
<1> HIDE DEF iter
<1> DEFINE T == {s \in SUBSET D : MostSevere(p, s, iter[s])}
<1>10. ASSUME NEW s \in SUBSET D, \A x \in s : s \ {x} \in T
       PROVE  s \in T
  <2>1. CASE s = {}
    <3>1. iter[s] = {}
      BY <1>8, <2>1
    <3>2. MostSevere(p, s, {})
      BY <2>1, EmptyIsCapped DEF MostSevere
    <3> QED
      BY <3>1, <3>2
  <2>2. CASE s # {}
    <3> DEFINE l == Least(p, s)
    <3>1. l \in s /\ \A x \in s \ {l} : Before(p, x, l)
      BY <1>2, <2>2
    <3>2. iter[s] = Keep(iter[s \ {l}], l)
      BY <1>8, <2>2
    <3> HIDE DEF l
    <3>3. MostSevere(p, s \ {l}, iter[s \ {l}])
      BY <1>10, <3>1
    <3>4. MostSevere(p, s, iter[s])
      BY <3>1, <3>2, <3>3, KeepIsMostSevere
    <3> QED
      BY <3>4
  <2> QED
    BY <2>1, <2>2
<1>11. SUBSET D \subseteq T
  <2> HIDE DEF T, Q
  <2>1. \A s \in SUBSET D : (\A x \in s : s \ {x} \in T) => s \in T
    BY <1>10
  <2>2. \A C : (\A s \in SUBSET D : (\A x \in s : s \ {x} \in C) => s \in C) => SUBSET D \subseteq C
    BY ONLY <1>1, FiniteSetInduction
  <2> QED
    BY <2>1, <2>2, Zenon
<1> QED
  BY <1>9, <1>11 DEF D

-----------------------------------------------------------------------------
(* The invariant.                                                           *)

Stages == {"idle", "booking", "due", "read", "computed", "written"}

(* A snapshot that was computed at some time of the clock.                  *)
IsSnapshot(p) ==
  /\ p.generated_at \in Clock /\ p.generated_at <= now
  /\ p.day = DayOf[p.generated_at]
  /\ Rated(p)

Kind(c) ==
  /\ c.at \in Stages
  /\ c.at = "read" =>
       /\ DOMAIN c = {"at", "refresh", "sync", "upload", "demand", "mappings", "booked", "overtaken"}
       /\ c.overtaken \in BOOLEAN
       /\ c.demand \in [Types -> Nat] /\ c.booked \in [Types -> Nat]
  /\ c.at = "computed" =>
       /\ DOMAIN c = {"at", "refresh", "sync", "overtaken", "snapshot"}
       /\ c.overtaken \in BOOLEAN
       /\ IsSnapshot(c.snapshot)
  /\ c.at = "written" =>
       /\ DOMAIN c = {"at", "refresh", "sync", "snapshot", "overtaken", "active", "alone"}
       /\ c.overtaken \in BOOLEAN /\ c.alone \in BOOLEAN
       /\ IsSnapshot(c.snapshot)

Statuses == {"pending", "sent", "acted", "cancelled"}

TypeOK ==
  /\ now \in Clock
  /\ DOMAIN session = Sessions
  /\ \A s \in Sessions : Kind(session[s])
  /\ alerts \in [Keys -> Seq(Statuses)]
  /\ Written \subseteq Days
  /\ \A d \in Written : IsSnapshot(snapshots[d]) /\ snapshots[d].day = d
  /\ marks \in [Days -> [overtaken : BOOLEAN, alone : BOOLEAN]]
  /\ last # None => last \in Written

Computed(c) == c.at \in {"computed", "written"}

(* What a calculation has read is what is booked, until it is overtaken.    *)
Reads(c) ==
  /\ c.at = "read" /\ ~c.overtaken => c.booked = BookedNow
  /\ Computed(c) /\ ~c.overtaken => c.snapshot.booked = BookedNow

(* So is the snapshot of any day later than its own.                        *)
Later(c) ==
  \A d \in Written :
    Computed(c) /\ ~c.overtaken /\ c.snapshot.day < d /\ ~marks[d].overtaken
    => snapshots[d].booked = BookedNow

(* A refresh that will write the snapshot of day d or of a later day.       *)
Comes(c, d) ==
  /\ c.at \in {"due", "read", "computed", "written"}
  /\ c.refresh
  /\ Computed(c) => d <= c.snapshot.day

LastDay(d) == d \in Written /\ \A e \in Written : e <= d

LatestHolds ==
  \A d : LastDay(d) =>
     \/ snapshots[d].booked = BookedNow
     \/ marks[d].overtaken
     \/ lost
     \/ \E s \in Sessions : Comes(session[s], d)

(* A key has one active alert, a day one calculation that has written.      *)
OneActive == \A x, y \in Active : x[1] = y[1] => x = y

Writes(c, d) == c.at = "written" /\ c.snapshot.day = d

OneWriter ==
  \A s, t \in Sessions : \A d : Writes(session[s], d) /\ Writes(session[t], d) => s = t

(* A calculation that is alone has read every alert that is active.         *)
Knows(c) == c.at = "written" /\ c.alone => Active \subseteq c.active

LastWarrants ==
  last # None /\ marks[last].alone => ActiveKeys \subseteq Surviving(snapshots[last])

LookaheadInv ==
  /\ TypeOK
  /\ \A s \in Sessions : Reads(session[s]) /\ Later(session[s]) /\ Knows(session[s])
  /\ LatestHolds
  /\ OneActive /\ OneWriter /\ LastWarrants

(* What the sessions and the clock do not touch.                            *)
Kept == <<rows, snapshots, alerts, marks, last>>

LEMMA Same ==
  ASSUME UNCHANGED Kept
  PROVE  /\ BookedNow' = BookedNow /\ Written' = Written
         /\ Active' = Active /\ ActiveKeys' = ActiveKeys
         /\ \A d : LastDay(d)' <=> LastDay(d)
<1>1. rows' = rows /\ snapshots' = snapshots /\ alerts' = alerts
  BY DEF Kept
<1>2. BookedNow' = BookedNow /\ Written' = Written
  BY <1>1 DEF BookedNow, Booked, Written
<1>3. Active' = Active
  BY <1>1 DEF Active
<1>4. ActiveKeys' = ActiveKeys
  BY <1>3 DEF ActiveKeys
<1>5. \A d : LastDay(d)' <=> LastDay(d)
  BY <1>2 DEF LastDay
<1> QED
  BY <1>2, <1>3, <1>4, <1>5

(* One session moves on, and nothing else changes.                          *)
LEMMA MoveKeeps ==
  ASSUME LookaheadInv, UNCHANGED <<Kept, now>>,
         NEW s \in Sessions, NEW c, Goes(s, c),
         Kind(c), Reads(c), Later(c), Knows(c),
         \A t \in Sessions \ {s} : \A d : ~(Writes(c, d) /\ Writes(session[t], d)),
         lost => lost',
         \A d : LastDay(d) /\ Comes(session[s], d) => Comes(c, d) \/ lost'
  PROVE  LookaheadInv'
<1>1. /\ BookedNow' = BookedNow /\ Written' = Written
      /\ Active' = Active /\ ActiveKeys' = ActiveKeys
      /\ \A d : LastDay(d)' <=> LastDay(d)
  BY Same
<1>2. /\ rows' = rows /\ snapshots' = snapshots /\ alerts' = alerts
      /\ marks' = marks /\ last' = last /\ now' = now
  BY DEF Kept
<1>3. /\ DOMAIN session' = Sessions
      /\ session'[s] = c
      /\ \A t \in Sessions \ {s} : session'[t] = session[t]
  BY DEF Goes, LookaheadInv, TypeOK
<1>4. \A p : IsSnapshot(p)' <=> IsSnapshot(p)
  BY <1>2 DEF IsSnapshot
<1>5. \A x : /\ Kind(x)' <=> Kind(x)
             /\ Reads(x)' <=> Reads(x)
             /\ Later(x)' <=> Later(x)
             /\ Knows(x)' <=> Knows(x)
  <2> TAKE x
  <2>1. Kind(x)' <=> Kind(x)
    BY <1>4 DEF Kind
  <2>2. Reads(x)' <=> Reads(x)
    BY <1>1 DEF Reads
  <2>3. Later(x)' <=> Later(x)
    BY <1>1, <1>2 DEF Later
  <2>4. Knows(x)' <=> Knows(x)
    BY <1>1 DEF Knows
  <2> QED
    BY <2>1, <2>2, <2>3, <2>4
<1>6. TypeOK'
  <2>1. \A t \in Sessions : Kind(session'[t])
    BY <1>3 DEF LookaheadInv, TypeOK
  <2>2. \A t \in Sessions : Kind(session[t])'
    BY <1>5, <2>1
  <2>3. \A d \in Written' : IsSnapshot(snapshots[d])' /\ snapshots'[d].day = d
    BY <1>1, <1>2, <1>4 DEF LookaheadInv, TypeOK
  <2> QED
    BY <1>1, <1>2, <1>3, <2>2, <2>3 DEF LookaheadInv, TypeOK
<1>7. \A t \in Sessions : Reads(session[t])' /\ Later(session[t])' /\ Knows(session[t])'
  <2>1. \A t \in Sessions : Reads(session'[t]) /\ Later(session'[t]) /\ Knows(session'[t])
    BY <1>3 DEF LookaheadInv
  <2> QED
    BY <1>5, <2>1
<1>8. LatestHolds'
  <2> SUFFICES ASSUME NEW d, LastDay(d)'
               PROVE  \/ snapshots'[d].booked = BookedNow'
                      \/ marks'[d].overtaken
                      \/ lost'
                      \/ \E t \in Sessions : Comes(session'[t], d)
    BY DEF LatestHolds, Comes, Computed
  <2>1. LastDay(d)
    BY <1>1
  <2>2. \/ snapshots[d].booked = BookedNow
        \/ marks[d].overtaken
        \/ lost
        \/ \E t \in Sessions : Comes(session[t], d)
    BY <2>1 DEF LookaheadInv, LatestHolds
  <2>3. CASE \E t \in Sessions : Comes(session[t], d)
    <3>1. PICK t \in Sessions : Comes(session[t], d)
      BY <2>3
    <3>2. CASE t = s
      BY <1>3, <2>1, <3>1, <3>2
    <3>3. CASE t # s
      <4>1. session'[t] = session[t]
        BY <1>3, <3>3
      <4> QED
        BY <3>1, <4>1
    <3> QED
      BY <3>2, <3>3
  <2>4. CASE snapshots[d].booked = BookedNow \/ marks[d].overtaken \/ lost
    BY <1>1, <1>2, <2>4
  <2> QED
    BY <2>2, <2>3, <2>4
<1>9. OneActive' /\ LastWarrants'
  <2>1. OneActive'
    BY <1>1 DEF LookaheadInv, OneActive
  <2>2. LastWarrants'
    BY <1>1, <1>2 DEF LookaheadInv, LastWarrants
  <2> QED
    BY <2>1, <2>2
<1>10. OneWriter'
  <2> SUFFICES ASSUME NEW t \in Sessions, NEW u \in Sessions, NEW d,
                      Writes(session'[t], d), Writes(session'[u], d)
               PROVE  t = u
    BY DEF OneWriter, Writes
  <2>1. CASE t # s /\ u # s
    <3>1. session'[t] = session[t] /\ session'[u] = session[u]
      BY <1>3, <2>1
    <3> QED
      BY <3>1 DEF LookaheadInv, OneWriter
  <2>2. CASE t = s /\ u # s
    <3>1. session'[t] = c /\ session'[u] = session[u]
      BY <1>3, <2>2
    <3> QED
      BY <2>2, <3>1
  <2>3. CASE t # s /\ u = s
    <3>1. session'[t] = session[t] /\ session'[u] = c
      BY <1>3, <2>3
    <3> QED
      BY <2>3, <3>1
  <2> QED
    BY <2>1, <2>2, <2>3
<1> QED
  BY <1>6, <1>7, <1>8, <1>9, <1>10 DEF LookaheadInv

LEMMA ClockIsNumbers ==
  /\ Clock \subseteq Nat
  /\ \A t \in Clock : DayOf[t] \in Days
  /\ Days \subseteq Nat
  /\ 1 \in Clock
<1>1. DayOf \in Seq(Nat) /\ DayOf # <<>>
  BY LookaheadAssumption
<1>2. Clock = 1..Len(DayOf) /\ Len(DayOf) \in Nat /\ Len(DayOf) # 0
  BY <1>1 DEF Clock
<1>3. \A t \in Clock : DayOf[t] \in Nat
  BY <1>1 DEF Clock
<1> QED
  BY <1>2, <1>3 DEF Days

(* Time passes, the programme changes, or nothing happens.                  *)
LEMMA TimeKeeps ==
  ASSUME LookaheadInv, UNCHANGED <<Kept, session, lost>>,
         now' \in Clock, now <= now'
  PROVE  LookaheadInv'
<1>1. /\ BookedNow' = BookedNow /\ Written' = Written
      /\ Active' = Active /\ ActiveKeys' = ActiveKeys
      /\ \A d : LastDay(d)' <=> LastDay(d)
  BY Same
<1>2. /\ rows' = rows /\ snapshots' = snapshots /\ alerts' = alerts
      /\ marks' = marks /\ last' = last /\ session' = session /\ lost' = lost
  BY DEF Kept
<1>3. now \in Nat /\ now' \in Nat
  BY ClockIsNumbers DEF LookaheadInv, TypeOK
<1>4. \A p : IsSnapshot(p) => IsSnapshot(p)'
  <2> SUFFICES ASSUME NEW p, IsSnapshot(p) PROVE IsSnapshot(p)'
    OBVIOUS
  <2>1. p.generated_at \in Nat
    BY ClockIsNumbers DEF IsSnapshot
  <2> QED
    BY <1>3, <2>1 DEF IsSnapshot
<1>5. \A x : Kind(x) => Kind(x)'
  BY <1>4 DEF Kind
<1>6. TypeOK'
  <2>1. \A d \in Written : IsSnapshot(snapshots[d])' /\ snapshots'[d].day = d
    BY <1>2, <1>4 DEF LookaheadInv, TypeOK
  <2>2. \A s \in Sessions : Kind(session[s])'
    BY <1>2, <1>5 DEF LookaheadInv, TypeOK
  <2> QED
    BY <1>1, <1>2, <2>1, <2>2 DEF LookaheadInv, TypeOK
<1>7. \A s \in Sessions : Reads(session[s])' /\ Later(session[s])' /\ Knows(session[s])'
  <2> TAKE s \in Sessions
  <2>1. Reads(session[s])'
    BY <1>1, <1>2 DEF LookaheadInv, Reads, Computed
  <2>2. Later(session[s])'
    BY <1>1, <1>2 DEF LookaheadInv, Later, Computed
  <2>3. Knows(session[s])'
    BY <1>1, <1>2 DEF LookaheadInv, Knows
  <2> QED
    BY <2>1, <2>2, <2>3
<1>8. LatestHolds'
  BY <1>1, <1>2 DEF LookaheadInv, LatestHolds, Comes, Computed
<1>9. OneActive' /\ OneWriter'
  BY <1>1, <1>2 DEF LookaheadInv, OneActive, OneWriter, Writes
<1>10. LastWarrants'
  BY <1>1, <1>2 DEF LookaheadInv, LastWarrants
<1> QED
  BY <1>6, <1>7, <1>8, <1>9, <1>10 DEF LookaheadInv

(* A session that has read nothing.                                         *)
LEMMA BlankIsGood ==
  ASSUME NEW c, c.at \in {"idle", "booking", "due"}
  PROVE  Kind(c) /\ Reads(c) /\ Later(c) /\ Knows(c) /\ \A d : ~Writes(c, d)
BY DEF Kind, Stages, Reads, Later, Knows, Writes, Computed

LEMMA HoursAreNumbers ==
  BookedNow \in [Types -> Nat] /\ \A u : Demand(u) \in [Types -> Nat]
<1>1. IsFiniteSet(Mappings) /\ IsFiniteSet(Bookings)
      /\ Hours \in [Mappings -> Nat] /\ BookingHours \in [Bookings -> Nat]
  BY LookaheadAssumption
<1>2. \A S \in SUBSET Mappings : Total(Hours, S) \in Nat
  BY <1>1, TotalIsNatural
<1>3. \A S \in SUBSET Bookings : Total(BookingHours, S) \in Nat
  BY <1>1, TotalIsNatural
<1>4. \A t \in Types : Booked(t) \in Nat
  BY <1>3 DEF Booked
<1>5. ASSUME NEW u, NEW t \in Types
      PROVE  Total(Hours, {m \in Mappings : UploadOf[m] = u /\ mapped[m] = t}) \in Nat
  BY <1>2
<1> QED
  BY <1>4, <1>5 DEF BookedNow, Demand

(* A calculation that has just read.                                        *)
LEMMA ReadingIsGood ==
  ASSUME NEW refresh, NEW sync, NEW c, c = Reading(refresh, sync)
  PROVE  Kind(c) /\ Reads(c) /\ Later(c) /\ Knows(c) /\ \A d : ~Writes(c, d)
<1>1. /\ c.at = "read" /\ c.overtaken = FALSE /\ c.booked = BookedNow /\ c.demand = Demand(upload)
      /\ DOMAIN c = {"at", "refresh", "sync", "upload", "demand", "mappings", "booked", "overtaken"}
  BY DEF Reading
<1>2. c.demand \in [Types -> Nat] /\ c.booked \in [Types -> Nat]
  BY <1>1, HoursAreNumbers
<1>3. Kind(c)
  BY <1>1, <1>2 DEF Kind, Stages
<1>4. Reads(c) /\ Later(c) /\ Knows(c) /\ \A d : ~Writes(c, d)
  BY <1>1 DEF Reads, Later, Knows, Writes, Computed
<1> QED
  BY <1>3, <1>4

LEMMA StartBookingKeeps ==
  ASSUME LookaheadInv, NEW s \in Sessions, NEW b, NEW row, StartBooking(s, b, row)
  PROVE  LookaheadInv'
<1>1. UNCHANGED <<Kept, now>> /\ lost' = lost
  BY DEF StartBooking, Kept
<1>2. PICK c : Goes(s, c) /\ c.at = "booking"
  BY DEF StartBooking
<1>3. session[s].at = "idle"
  BY DEF StartBooking, Busy
<1>4. \A d : ~Comes(session[s], d)
  BY <1>3 DEF Comes
<1>5. Kind(c) /\ Reads(c) /\ Later(c) /\ Knows(c) /\ \A d : ~Writes(c, d)
  BY <1>2, BlankIsGood
<1> QED
  BY <1>1, <1>2, <1>4, <1>5, MoveKeeps

LEMMA ActivateKeeps ==
  ASSUME LookaheadInv, NEW s \in Sessions, Activate(s)
  PROVE  LookaheadInv'
<1>1. UNCHANGED <<Kept, now>> /\ lost' = lost
  BY DEF Activate, Kept
<1>2. PICK c : Goes(s, c) /\ c.at = "due"
  BY DEF Activate
<1>3. session[s].at = "idle"
  BY DEF Activate, Busy
<1>4. \A d : ~Comes(session[s], d)
  BY <1>3 DEF Comes
<1>5. Kind(c) /\ Reads(c) /\ Later(c) /\ Knows(c) /\ \A d : ~Writes(c, d)
  BY <1>2, BlankIsGood
<1> QED
  BY <1>1, <1>2, <1>4, <1>5, MoveKeeps

LEMMA StartKeeps ==
  ASSUME LookaheadInv, NEW s \in Sessions, StartView(s) \/ StartNightly(s)
  PROVE  LookaheadInv'
<1>1. UNCHANGED <<Kept, now>> /\ lost' = lost
  BY DEF StartView, StartNightly, Kept
<1>2. PICK sync \in BOOLEAN : Goes(s, Reading(FALSE, sync))
  BY DEF StartView, StartNightly
<1>3. PICK c : c = Reading(FALSE, sync)
  OBVIOUS
<1>4. session[s].at = "idle"
  BY DEF StartView, StartNightly, Busy
<1>5. \A d : ~Comes(session[s], d)
  BY <1>4 DEF Comes
<1>6. Kind(c) /\ Reads(c) /\ Later(c) /\ Knows(c) /\ \A d : ~Writes(c, d)
  BY <1>3, ReadingIsGood
<1>7. Goes(s, c)
  BY <1>2, <1>3
<1> QED
  BY <1>1, <1>5, <1>6, <1>7, MoveKeeps

LEMMA StartRefreshKeeps ==
  ASSUME LookaheadInv, NEW s \in Sessions, StartRefresh(s)
  PROVE  LookaheadInv'
<1>1. UNCHANGED <<Kept, now>> /\ lost' = lost
  BY DEF StartRefresh, Kept
<1>2. PICK c : c = Reading(session[s].refresh, TRUE)
  OBVIOUS
<1>3. Goes(s, c)
  BY <1>2 DEF StartRefresh
<1>4. \A d : Comes(session[s], d) => Comes(c, d)
  <2>1. c.at = "read" /\ c.refresh = session[s].refresh
    BY <1>2 DEF Reading
  <2> QED
    BY <2>1 DEF Comes, Computed
<1>5. Kind(c) /\ Reads(c) /\ Later(c) /\ Knows(c) /\ \A d : ~Writes(c, d)
  BY <1>2, ReadingIsGood
<1> QED
  BY <1>1, <1>3, <1>4, <1>5, MoveKeeps

LEMMA ComputeKeeps ==
  ASSUME LookaheadInv, NEW s \in Sessions, Compute(s)
  PROVE  LookaheadInv'
<1>1. UNCHANGED <<Kept, now>> /\ lost' = lost
  BY DEF Compute, Kept
<1>2. PICK old : old = session[s]
  OBVIOUS
<1>3. /\ old.at = "read" /\ old.overtaken \in BOOLEAN
      /\ old.demand \in [Types -> Nat] /\ old.booked \in [Types -> Nat]
      /\ ~old.overtaken => old.booked = BookedNow
  BY <1>2 DEF Compute, LookaheadInv, TypeOK, Kind, Reads
<1>4. PICK previous : /\ previous.demand = old.demand /\ previous.booked = old.booked
                      /\ Goes(s, [at |-> "computed", refresh |-> old.refresh, sync |-> old.sync,
                              overtaken |-> old.overtaken,
                              snapshot |-> [day |-> DayOf[now], generated_at |-> now,
                                            upload |-> old.upload, demand |-> old.demand,
                                            mappings |-> old.mappings, booked |-> old.booked,
                                            rows |-> Rows(previous)]])
  BY <1>2 DEF Compute
<1>5. PICK c : /\ Goes(s, c)
               /\ c = [at |-> "computed", refresh |-> old.refresh, sync |-> old.sync,
                       overtaken |-> old.overtaken,
                       snapshot |-> [day |-> DayOf[now], generated_at |-> now,
                                     upload |-> old.upload, demand |-> old.demand,
                                     mappings |-> old.mappings, booked |-> old.booked,
                                     rows |-> Rows(previous)]]
  BY <1>4
<1>6. /\ c.at = "computed" /\ c.refresh = old.refresh /\ c.overtaken = old.overtaken
      /\ c.snapshot.day = DayOf[now] /\ c.snapshot.generated_at = now
      /\ c.snapshot.demand = old.demand /\ c.snapshot.booked = old.booked
      /\ c.snapshot.rows = Rows(previous)
      /\ DOMAIN c = {"at", "refresh", "sync", "overtaken", "snapshot"}
  BY <1>5
<1>7. now \in Clock /\ now \in Nat
  BY ClockIsNumbers DEF LookaheadInv, TypeOK
<1>8. Rated(c.snapshot)
  <2> SUFFICES ASSUME NEW t \in Types
               PROVE  /\ old.demand[t] \in Nat
                      /\ Rows(previous)[t].gap \in Nat
                      /\ Rows(previous)[t].gap > 0 => old.demand[t] > 0
    BY <1>6 DEF Rated
  <2>1. old.demand[t] \in Nat /\ old.booked[t] \in Nat
    BY <1>3
  <2>2. Rows(previous)[t].gap = IF old.demand[t] > old.booked[t]
                                THEN old.demand[t] - old.booked[t] ELSE 0
    BY <1>4 DEF Rows
  <2> QED
    BY <2>1, <2>2
<1>9. Kind(c)
  BY <1>3, <1>6, <1>7, <1>8 DEF Kind, Stages, IsSnapshot
<1>10. \A d \in Written : d <= c.snapshot.day
  <2> TAKE d \in Written
  <2> DEFINE g == snapshots[d].generated_at
  <2>1. g \in Clock /\ g <= now /\ d = DayOf[g]
    BY DEF LookaheadInv, TypeOK, IsSnapshot
  <2> HIDE DEF g
  <2> QED
    BY <1>6, <1>7, <2>1, LookaheadAssumption
<1>11. Reads(c) /\ Knows(c) /\ \A d : ~Writes(c, d)
  BY <1>3, <1>6 DEF Reads, Knows, Writes
<1>12. Later(c)
  <2>1. \A d \in Written : ~(c.snapshot.day < d)
    <3> TAKE d \in Written
    <3>1. d \in Nat /\ c.snapshot.day \in Nat
      BY <1>6, <1>7, ClockIsNumbers DEF LookaheadInv, TypeOK
    <3> QED
      BY <1>10, <3>1
  <2> QED
    BY <2>1 DEF Later
<1>13. \A d : LastDay(d) /\ Comes(session[s], d) => Comes(c, d)
  BY <1>2, <1>6, <1>10 DEF Comes, LastDay
<1> QED
  BY <1>1, <1>5, <1>9, <1>11, <1>12, <1>13, MoveKeeps

LEMMA WriteSnapshotKeeps ==
  ASSUME LookaheadInv, NEW s \in Sessions, WriteSnapshot(s)
  PROVE  LookaheadInv'
<1>1. UNCHANGED <<Kept, now>> /\ lost' = lost
  BY DEF WriteSnapshot, Kept
<1>2. PICK old : old = session[s]
  OBVIOUS
<1>3. PICK c : /\ Goes(s, c)
               /\ c = [at |-> "written", refresh |-> old.refresh, sync |-> old.sync,
                       snapshot |-> old.snapshot, overtaken |-> old.overtaken,
                       active |-> Active, alone |-> TRUE]
  BY <1>2 DEF WriteSnapshot
<1>4. /\ c.at = "written" /\ c.refresh = old.refresh /\ c.snapshot = old.snapshot
      /\ c.overtaken = old.overtaken /\ c.active = Active /\ c.alone = TRUE
      /\ DOMAIN c = {"at", "refresh", "sync", "snapshot", "overtaken", "active", "alone"}
  BY <1>3
<1>5. old.at = "computed" /\ Kind(old) /\ Reads(old) /\ Later(old)
  BY <1>2 DEF WriteSnapshot, LookaheadInv, TypeOK
<1>6. Kind(c) /\ Reads(c) /\ Knows(c)
  BY <1>4, <1>5 DEF Kind, Stages, Reads, Computed, Knows
<1>7. Later(c)
  BY <1>4, <1>5 DEF Later, Computed
<1>8. \A d : Comes(session[s], d) => Comes(c, d)
  BY <1>2, <1>4, <1>5 DEF Comes, Computed
<1>9. \A t \in Sessions \ {s} : \A d : ~(Writes(c, d) /\ Writes(session[t], d))
  <2>1. \A t \in Busy : ~Holds(t, old.snapshot.day)
    BY <1>2 DEF WriteSnapshot
  <2> QED
    BY <1>4, <2>1 DEF Busy, Holds, Writes
<1> QED
  BY <1>1, <1>3, <1>6, <1>7, <1>8, <1>9, MoveKeeps

LEMMA AbandonKeeps ==
  ASSUME LookaheadInv, NEW s \in Sessions, Abandon(s)
  PROVE  LookaheadInv'
<1>1. UNCHANGED <<Kept, now>> /\ lost' = (lost \/ session[s].refresh)
  BY DEF Abandon, Kept
<1>2. PICK c : c = Idle
  OBVIOUS
<1>3. Goes(s, c) /\ c.at = "idle"
  BY <1>2 DEF Abandon, Idle
<1>4. \A d : Comes(session[s], d) => lost'
  BY <1>1 DEF Comes
<1>5. Kind(c) /\ Reads(c) /\ Later(c) /\ Knows(c) /\ \A d : ~Writes(c, d)
  BY <1>3, BlankIsGood
<1> QED
  BY <1>1, <1>3, <1>4, <1>5, MoveKeeps

-----------------------------------------------------------------------------
(* A booking is committed.                                                  *)

LEMMA ActiveRows ==
  \A x : x \in Active <=> \E k \in Keys : \E i \in DOMAIN alerts[k] :
                             x = <<k, i>> /\ IsActive(alerts[k][i])
<1>1. ASSUME NEW x
      PROVE  x \in Active <=> /\ \E k \in Keys : \E i \in DOMAIN alerts[k] : x = <<k, i>>
                              /\ IsActive(alerts[x[1]][x[2]])
  BY DEF Active
<1> QED
  BY <1>1

LEMMA NextActiveRows ==
  \A x : x \in Active' <=> \E k \in Keys : \E i \in DOMAIN alerts'[k] :
                              x = <<k, i>> /\ IsActive(alerts'[k][i])
<1>1. ASSUME NEW x
      PROVE  x \in Active' <=> /\ \E k \in Keys : \E i \in DOMAIN alerts'[k] : x = <<k, i>>
                               /\ IsActive(alerts'[x[1]][x[2]])
  BY DEF Active, IsActive
<1> QED
  BY <1>1

LEMMA OvertakeKeeps ==
  ASSUME NEW c, Kind(c)
  PROVE  LET o == Overtake(c) IN
         /\ Kind(o) /\ Reads(o)' /\ Later(o)'
         /\ o.at = c.at
         /\ c.at = "written" => o.snapshot = c.snapshot /\ o.alone = c.alone /\ o.active = c.active
<1>1. CASE c.at \in {"read", "computed", "written"}
  <2>1. Overtake(c) = [c EXCEPT !.overtaken = TRUE]
    BY <1>1 DEF Overtake
  <2>2. PICK o : o = Overtake(c)
    OBVIOUS
  <2>3. CASE c.at = "read"
    <3>1. /\ o.at = "read" /\ o.overtaken = TRUE
          /\ DOMAIN o = {"at", "refresh", "sync", "upload", "demand", "mappings", "booked", "overtaken"}
          /\ o.demand = c.demand /\ o.booked = c.booked
      BY <2>1, <2>2, <2>3 DEF Kind
    <3> QED
      BY <2>2, <2>3, <3>1 DEF Kind, Stages, Reads, Later, Computed
  <2>4. CASE c.at = "computed"
    <3>1. /\ o.at = "computed" /\ o.overtaken = TRUE /\ o.snapshot = c.snapshot
          /\ DOMAIN o = {"at", "refresh", "sync", "overtaken", "snapshot"}
      BY <2>1, <2>2, <2>4 DEF Kind
    <3> QED
      BY <2>2, <2>4, <3>1 DEF Kind, Stages, Reads, Later, Computed
  <2>5. CASE c.at = "written"
    <3>1. /\ o.at = "written" /\ o.overtaken = TRUE /\ o.snapshot = c.snapshot
          /\ DOMAIN o = {"at", "refresh", "sync", "snapshot", "overtaken", "active", "alone"}
          /\ o.alone = c.alone /\ o.active = c.active
      BY <2>1, <2>2, <2>5 DEF Kind
    <3> QED
      BY <2>2, <2>5, <3>1 DEF Kind, Stages, Reads, Later, Computed
  <2> QED
    BY <1>1, <2>3, <2>4, <2>5
<1>2. CASE c.at \notin {"read", "computed", "written"}
  BY <1>2 DEF Overtake, Reads, Later, Computed
<1> QED
  BY <1>1, <1>2

LEMMA CommitBookingKeeps ==
  ASSUME LookaheadInv, NEW s \in Sessions, CommitBooking(s)
  PROVE  LookaheadInv'
<1>1. /\ snapshots' = snapshots /\ now' = now /\ marks' = marks /\ last' = last /\ lost' = lost
      /\ Written' = Written
  BY DEF CommitBooking, Written
<1>2. PICK due : due = Refresh(session[s].row)
  OBVIOUS
<1>3. due.at = "due" /\ due.refresh = TRUE
  BY <1>2 DEF Refresh
<1>4. /\ DOMAIN session' = Sessions /\ session'[s] = due
      /\ \A t \in Sessions \ {s} : session'[t] = Overtake(session[t])
  BY <1>2 DEF CommitBooking, LookaheadInv, TypeOK
<1>5. PICK acted : alerts' = [k \in Keys |-> [i \in DOMAIN alerts[k] |->
                               IF <<k, i>> \in acted THEN "acted" ELSE alerts[k][i]]]
  BY DEF CommitBooking
<1>6. alerts' \in [Keys -> Seq(Statuses)]
  <2>1. ASSUME NEW k \in Keys
        PROVE  alerts'[k] \in Seq(Statuses)
    <3>1. alerts[k] \in Seq(Statuses)
      BY DEF LookaheadInv, TypeOK
    <3>2. \A i \in DOMAIN alerts[k] : alerts'[k][i] \in Statuses
      BY <1>5, <3>1 DEF Statuses
    <3>3. DOMAIN alerts[k] = 1..Len(alerts[k]) /\ Len(alerts[k]) \in Nat
      BY <3>1
    <3>4. DOMAIN alerts'[k] = 1..Len(alerts[k])
      BY <1>5, <3>3
    <3>5. alerts'[k] = [i \in 1..Len(alerts[k]) |-> alerts'[k][i]]
      BY <1>5, <3>3
    <3> QED
      BY <3>2, <3>3, <3>5
  <2> QED
    BY <1>5, <2>1
<1>7. Active' \subseteq Active
  <2> SUFFICES ASSUME NEW x \in Active' PROVE x \in Active
    OBVIOUS
  <2>1. PICK k \in Keys : \E i \in DOMAIN alerts'[k] : x = <<k, i>> /\ IsActive(alerts'[k][i])
    BY NextActiveRows
  <2>2. PICK i \in DOMAIN alerts'[k] : x = <<k, i>> /\ IsActive(alerts'[k][i])
    BY <2>1
  <2>3. i \in DOMAIN alerts[k] /\ IsActive(alerts[k][i])
    BY <1>5, <2>2 DEF IsActive
  <2> QED
    BY <2>2, <2>3, ActiveRows
<1>8. \A p : IsSnapshot(p)' <=> IsSnapshot(p)
  BY <1>1 DEF IsSnapshot
<1>9. \A x : Kind(x)' <=> Kind(x)
  BY <1>8 DEF Kind
<1>10. \A t \in Sessions : t # s =>
         /\ Kind(session'[t]) /\ Reads(session[t])' /\ Later(session[t])'
         /\ session'[t].at = session[t].at
         /\ session[t].at = "written" => /\ session'[t].snapshot = session[t].snapshot
                                         /\ session'[t].alone = session[t].alone
                                         /\ session'[t].active = session[t].active
  <2> SUFFICES ASSUME NEW t \in Sessions, t # s
               PROVE  /\ Kind(session'[t]) /\ Reads(session[t])' /\ Later(session[t])'
                      /\ session'[t].at = session[t].at
                      /\ session[t].at = "written" => /\ session'[t].snapshot = session[t].snapshot
                                                      /\ session'[t].alone = session[t].alone
                                                      /\ session'[t].active = session[t].active
    OBVIOUS
  <2>1. PICK c : c = session[t]
    OBVIOUS
  <2>2. Kind(c)
    BY <2>1 DEF LookaheadInv, TypeOK
  <2>3. PICK o : o = Overtake(c)
    OBVIOUS
  <2>4. session'[t] = o
    BY <1>4, <2>1, <2>3
  <2>5. /\ Kind(o) /\ Reads(o)' /\ Later(o)' /\ o.at = c.at
        /\ c.at = "written" => o.snapshot = c.snapshot /\ o.alone = c.alone /\ o.active = c.active
    BY <2>2, <2>3, OvertakeKeeps
  <2>6. Reads(session[t])' /\ Later(session[t])'
    BY <2>4, <2>5 DEF Reads, Later, Computed
  <2> QED
    BY <2>1, <2>4, <2>5, <2>6
<1>11. /\ Kind(due) /\ Reads(session[s])' /\ Later(session[s])'
       /\ Knows(session[s])' /\ \A d : ~Writes(session[s], d)'
  <2>1. session'[s].at = "due"
    BY <1>3, <1>4
  <2> QED
    BY <1>3, <2>1, BlankIsGood DEF Reads, Later, Knows, Writes, Computed
<1>12. TypeOK'
  <2>1. \A t \in Sessions : Kind(session'[t])
    BY <1>4, <1>10, <1>11
  <2>2. \A t \in Sessions : Kind(session[t])'
    BY <1>9, <2>1
  <2>3. \A d \in Written : IsSnapshot(snapshots[d])' /\ snapshots'[d].day = d
    BY <1>1, <1>8 DEF LookaheadInv, TypeOK
  <2> QED
    BY <1>1, <1>4, <1>6, <2>2, <2>3 DEF LookaheadInv, TypeOK
<1>13. \A t \in Sessions : Reads(session[t])' /\ Later(session[t])' /\ Knows(session[t])'
  <2> TAKE t \in Sessions
  <2>1. CASE t = s
    BY <1>11, <2>1
  <2>2. CASE t # s
    <3>1. Knows(session[t])
      BY DEF LookaheadInv
    <3>2. Knows(session[t])'
      BY <1>7, <1>10, <2>2, <3>1 DEF Knows
    <3> QED
      BY <1>10, <2>2, <3>2
  <2> QED
    BY <2>1, <2>2
<1>14. LatestHolds'
  <2>1. \A d : Comes(session'[s], d)
    BY <1>3, <1>4 DEF Comes, Computed
  <2> QED
    BY <2>1 DEF LatestHolds, Comes, Computed
<1>15. OneActive'
  BY <1>7 DEF LookaheadInv, OneActive
<1>16. OneWriter'
  <2> SUFFICES ASSUME NEW t \in Sessions, NEW u \in Sessions, NEW d,
                      Writes(session[t], d)', Writes(session[u], d)'
               PROVE  t = u
    BY DEF OneWriter
  <2>1. t # s /\ u # s
    BY <1>11
  <2>2. Writes(session[t], d) /\ Writes(session[u], d)
    BY <1>10, <2>1 DEF Writes
  <2> QED
    BY <2>2 DEF LookaheadInv, OneWriter
<1>17. LastWarrants'
  <2>1. ActiveKeys' \subseteq ActiveKeys
    BY <1>7 DEF ActiveKeys
  <2> QED
    BY <1>1, <2>1 DEF LookaheadInv, LastWarrants
<1> QED
  BY <1>12, <1>13, <1>14, <1>15, <1>16, <1>17 DEF LookaheadInv

-----------------------------------------------------------------------------
(* A calculation commits.                                                   *)

LEMMA CommitAlerts ==
  ASSUME LookaheadInv, NEW s \in Sessions, Commit(s)
  PROVE  /\ alerts' \in [Keys -> Seq(Statuses)]
         /\ \A x \in Active' : \/ x \in Active /\ x \notin Cancelled(session[s])
                               \/ /\ x[1] \in Inserted(session[s])
                                  /\ x = <<x[1], Len(alerts[x[1]]) + 1>>
<1> DEFINE c == session[s]
           kept(k) == [i \in DOMAIN alerts[k] |->
                         IF <<k, i>> \in Cancelled(c) THEN "cancelled" ELSE alerts[k][i]]
           added(k) == IF k \in Inserted(c) THEN <<"pending">> ELSE <<>>
<1>1. alerts' = [k \in Keys |-> kept(k) \o added(k)]
  BY DEF Commit
<1>2. ASSUME NEW k \in Keys
      PROVE  /\ Len(alerts[k]) \in Nat
             /\ DOMAIN alerts[k] = 1..Len(alerts[k])
             /\ kept(k) \in Seq(Statuses) /\ Len(kept(k)) = Len(alerts[k])
             /\ added(k) \in Seq(Statuses) /\ Len(added(k)) = IF k \in Inserted(c) THEN 1 ELSE 0
  <2>1. alerts[k] \in Seq(Statuses)
    BY DEF LookaheadInv, TypeOK
  <2>2. DOMAIN alerts[k] = 1..Len(alerts[k]) /\ Len(alerts[k]) \in Nat
    BY <2>1
  <2>3. \A i \in DOMAIN alerts[k] : kept(k)[i] \in Statuses
    BY <2>1 DEF Statuses
  <2>4. kept(k) = [i \in 1..Len(alerts[k]) |-> kept(k)[i]]
    BY <2>2
  <2>5. kept(k) \in Seq(Statuses) /\ Len(kept(k)) = Len(alerts[k])
    <3> HIDE DEF kept
    <3> QED
      BY <2>2, <2>3, <2>4
  <2>6. added(k) \in Seq(Statuses) /\ Len(added(k)) = IF k \in Inserted(c) THEN 1 ELSE 0
    BY DEF Statuses
  <2> QED
    BY <2>2, <2>5, <2>6
<1>3. alerts' \in [Keys -> Seq(Statuses)]
  <2>1. \A k \in Keys : kept(k) \o added(k) \in Seq(Statuses)
    <3> HIDE DEF kept, added
    <3> QED
      BY <1>2
  <2> QED
    BY <1>1, <2>1
<1>4. ASSUME NEW x \in Active'
      PROVE  \/ x \in Active /\ x \notin Cancelled(c)
             \/ x[1] \in Inserted(c) /\ x = <<x[1], Len(alerts[x[1]]) + 1>>
  <2>1. PICK k \in Keys : \E i \in DOMAIN alerts'[k] : x = <<k, i>> /\ IsActive(alerts'[k][i])
    BY NextActiveRows
  <2>2. PICK i \in DOMAIN alerts'[k] : x = <<k, i>> /\ IsActive(alerts'[k][i])
    BY <2>1
  <2>3. alerts'[k] = kept(k) \o added(k)
    BY <1>1
  <2>4. i \in 1..(Len(kept(k)) + Len(added(k)))
    <3> HIDE DEF kept, added
    <3> QED
      BY <1>2, <2>2, <2>3
  <2>5. CASE i \in DOMAIN alerts[k]
    <3>1. alerts'[k][i] = kept(k)[i]
      <4> HIDE DEF kept, added
      <4> QED
        BY <1>2, <2>3, <2>5
    <3>2. x \notin Cancelled(c) /\ IsActive(alerts[k][i])
      BY <2>2, <2>5, <3>1 DEF IsActive
    <3> HIDE DEF c
    <3> QED
      BY <2>2, <2>5, <3>2, ActiveRows
  <2>6. CASE i \notin DOMAIN alerts[k]
    <3>1. k \in Inserted(c) /\ i = Len(alerts[k]) + 1
      <4>1. PICK n \in Nat : n = Len(alerts[k])
        BY <1>2
      <4>2. PICK m : m = Len(added(k))
        OBVIOUS
      <4>3. m = (IF k \in Inserted(c) THEN 1 ELSE 0) /\ i \in 1..(n + m) /\ i \notin 1..n
        <5> HIDE DEF kept, added, c
        <5> QED
          BY <1>2, <2>4, <2>6, <4>1, <4>2
      <4>4. m # 0 /\ i = n + 1
        <5>1. m = 0 \/ m = 1
          BY <4>3
        <5> QED
          BY <4>3, <5>1
      <4> QED
        BY <4>1, <4>3, <4>4
    <3> QED
      BY <2>2, <3>1
  <2> QED
    BY <2>5, <2>6
<1> QED
  BY <1>3, <1>4

LEMMA CommitKeeps ==
  ASSUME LookaheadInv, NEW s \in Sessions, Commit(s)
  PROVE  LookaheadInv'
<1>1. PICK c : c = session[s]
  OBVIOUS
<1>2. PICK d0 : d0 = c.snapshot.day
  OBVIOUS
<1>3. /\ c.at = "written" /\ Kind(c) /\ Reads(c) /\ Later(c) /\ Knows(c)
      /\ IsSnapshot(c.snapshot) /\ c.overtaken \in BOOLEAN /\ c.alone \in BOOLEAN
      /\ Inserted(c) \cap ActiveKeys = {}
  BY <1>1 DEF Commit, Clashes, LookaheadInv, TypeOK, Kind
<1>4. d0 \in Days /\ Days \subseteq Nat
  BY <1>2, <1>3, ClockIsNumbers DEF IsSnapshot
<1>5. /\ Written' = Written \cup {d0} /\ d0 \in Written'
      /\ snapshots'[d0] = c.snapshot
      /\ \A d \in Written : d # d0 => snapshots'[d] = snapshots[d]
  BY <1>1, <1>2 DEF Commit, Written
<1>6. /\ marks' \in [Days -> [overtaken : BOOLEAN, alone : BOOLEAN]]
      /\ marks'[d0].overtaken = c.overtaken /\ marks'[d0].alone = c.alone
      /\ \A d \in Days : d # d0 => marks'[d] = marks[d]
  <2>1. marks' = [marks EXCEPT ![d0] = [overtaken |-> c.overtaken, alone |-> c.alone]]
    BY <1>1, <1>2 DEF Commit
  <2> QED
    BY <1>3, <1>4, <2>1 DEF LookaheadInv, TypeOK
<1>7. /\ rows' = rows /\ now' = now /\ last' = d0 /\ lost' = (lost /\ c.overtaken)
      /\ BookedNow' = BookedNow
  BY <1>1, <1>2 DEF Commit, BookedNow, Booked
<1>8. /\ DOMAIN session' = Sessions /\ session'[s].at = "idle"
      /\ \A t \in Sessions \ {s} : session'[t] =
            IF session[t].at = "written" /\ session[t].snapshot.day # d0
            THEN [session[t] EXCEPT !.alone = FALSE] ELSE session[t]
  BY <1>1, <1>2 DEF Commit, Idle
<1>9. \A p : IsSnapshot(p)' <=> IsSnapshot(p)
  BY <1>7 DEF IsSnapshot
<1>10. \A x : Kind(x)' <=> Kind(x)
  BY <1>9 DEF Kind
<1>11. ASSUME NEW t \in Sessions, t # s
       PROVE  /\ Kind(session'[t])
              /\ session'[t].at = session[t].at
              /\ session'[t].refresh = session[t].refresh \/ session[t].at \notin {"due", "read", "computed", "written"}
              /\ session[t].at = "due" => session'[t] = session[t]
              /\ session[t].at = "read" => session'[t] = session[t]
              /\ Computed(session[t]) => /\ session'[t].snapshot = session[t].snapshot
                                         /\ session'[t].overtaken = session[t].overtaken
              /\ ~(session'[t].at = "written" /\ session'[t].alone)
  <2>1. PICK o : o = session[t]
    OBVIOUS
  <2>2. Kind(o)
    BY <2>1 DEF LookaheadInv, TypeOK
  <2>3. o.at = "written" => o.snapshot.day # d0
    BY <1>1, <1>2, <1>3, <1>11, <2>1 DEF LookaheadInv, OneWriter, Writes
  <2>4. CASE o.at = "written"
    <3>1. PICK n : n = [o EXCEPT !.alone = FALSE]
      OBVIOUS
    <3>2. session'[t] = n
      BY <1>8, <1>11, <2>1, <2>3, <2>4, <3>1
    <3>3. /\ n.at = "written" /\ n.alone = FALSE /\ n.snapshot = o.snapshot
          /\ n.overtaken = o.overtaken /\ n.refresh = o.refresh
          /\ DOMAIN n = {"at", "refresh", "sync", "snapshot", "overtaken", "active", "alone"}
      BY <2>2, <2>4, <3>1 DEF Kind
    <3>4. Kind(n)
      BY <2>2, <2>4, <3>3 DEF Kind, Stages
    <3> QED
      BY <2>1, <2>4, <3>2, <3>3, <3>4
  <2>5. CASE o.at # "written"
    <3>1. session'[t] = o
      BY <1>8, <1>11, <2>1, <2>5
    <3> QED
      BY <2>1, <2>2, <2>5, <3>1
  <2> QED
    BY <2>4, <2>5
<1>12. TypeOK'
  <2>1. \A t \in Sessions : Kind(session'[t])
    <3>1. Kind(session'[s])
      BY <1>8, BlankIsGood
    <3> QED
      BY <1>11, <3>1
  <2>2. \A t \in Sessions : Kind(session[t])'
    BY <1>10, <2>1
  <2>3. \A d \in Written' : IsSnapshot(snapshots'[d]) /\ snapshots'[d].day = d
    BY <1>2, <1>3, <1>5 DEF LookaheadInv, TypeOK
  <2>4. \A d \in Written' : IsSnapshot(snapshots[d])'
    BY <1>7, <2>3 DEF IsSnapshot
  <2>5. Written' \subseteq Days
    BY <1>4, <1>5 DEF LookaheadInv, TypeOK
  <2>6. alerts' \in [Keys -> Seq(Statuses)]
    BY CommitAlerts
  <2> QED
    BY <1>5, <1>6, <1>7, <1>8, <2>2, <2>3, <2>4, <2>5, <2>6 DEF LookaheadInv, TypeOK
<1>13. \A t \in Sessions : Reads(session[t])' /\ Later(session[t])' /\ Knows(session[t])'
  <2> TAKE t \in Sessions
  <2>1. CASE t = s
    BY <1>8, <2>1 DEF Reads, Later, Knows, Computed
  <2>2. CASE t # s
    <3>1. Reads(session[t]) /\ Later(session[t])
      BY DEF LookaheadInv
    <3>2. Reads(session[t])'
      BY <1>7, <1>11, <2>2, <3>1 DEF Reads, Computed
    <3>3. Later(session[t])'
      <4> SUFFICES ASSUME NEW d \in Written', Computed(session[t]), ~session[t].overtaken,
                          session[t].snapshot.day < d, ~marks'[d].overtaken
                   PROVE  snapshots'[d].booked = BookedNow
        BY <1>7, <1>11, <2>2 DEF Later, Computed
      <4>1. CASE d = d0
        BY <1>3, <1>5, <1>6, <4>1 DEF Reads, Computed
      <4>2. CASE d # d0
        <5>1. d \in Written /\ d \in Days
          BY <1>5, <4>2 DEF LookaheadInv, TypeOK
        <5> QED
          BY <1>5, <1>6, <3>1, <4>2, <5>1 DEF Later
      <4> QED
        BY <4>1, <4>2
    <3>4. Knows(session[t])'
      BY <1>11, <2>2 DEF Knows
    <3> QED
      BY <3>2, <3>3, <3>4
  <2> QED
    BY <2>1, <2>2
<1>14. LatestHolds'
  <2> SUFFICES ASSUME NEW d, d \in Written', \A e \in Written' : e <= d
               PROVE  \/ snapshots'[d].booked = BookedNow
                      \/ marks'[d].overtaken
                      \/ lost'
                      \/ \E t \in Sessions : Comes(session'[t], d)
    BY <1>7 DEF LatestHolds, LastDay, Comes, Computed
  <2>1. CASE d = d0
    BY <1>3, <1>5, <1>6, <2>1 DEF Reads, Computed
  <2>2. CASE d # d0
    <3>1. d \in Written /\ d \in Days /\ d0 <= d
      BY <1>4, <1>5, <2>2 DEF LookaheadInv, TypeOK
    <3>2. d0 \in Nat /\ d \in Nat
      BY <1>4, <3>1
    <3>3. d \in Written /\ d \in Days /\ d0 <= d /\ d0 < d
      BY <2>2, <3>1, <3>2
    <3>4. LastDay(d)
      BY <1>5, <3>3 DEF LastDay
    <3>5. snapshots'[d] = snapshots[d] /\ marks'[d] = marks[d]
      BY <1>5, <1>6, <2>2, <3>3
    <3>6. \/ snapshots[d].booked = BookedNow
          \/ marks[d].overtaken
          \/ lost
          \/ \E t \in Sessions : Comes(session[t], d)
      BY <3>4 DEF LookaheadInv, LatestHolds
    <3>7. CASE lost
      <4>1. CASE c.overtaken
        BY <1>7, <3>7, <4>1
      <4>2. CASE ~c.overtaken
        <5>1. marks[d].overtaken \/ snapshots[d].booked = BookedNow
          BY <1>2, <1>3, <3>3, <4>2 DEF Later, Computed
        <5> QED
          BY <3>5, <5>1
      <4> QED
        BY <4>1, <4>2
    <3>8. CASE \E t \in Sessions : Comes(session[t], d)
      <4>1. PICK t \in Sessions : Comes(session[t], d)
        BY <3>8
      <4>2. t # s
        <5>1. ~(d <= d0)
          BY <1>4, <3>3
        <5> QED
          BY <1>1, <1>2, <1>3, <4>1, <5>1 DEF Comes, Computed
      <4>3. Comes(session'[t], d)
        BY <1>11, <4>1, <4>2 DEF Comes, Computed
      <4> QED
        BY <4>3
    <3> QED
      BY <3>5, <3>6, <3>7, <3>8
  <2> QED
    BY <2>1, <2>2
<1>15. \A x \in Active' : \/ x \in Active /\ x \notin Cancelled(c)
                          \/ x[1] \in Inserted(c) /\ x = <<x[1], Len(alerts[x[1]]) + 1>>
  BY <1>1, CommitAlerts
<1>16. OneActive'
  <2> SUFFICES ASSUME NEW x \in Active', NEW y \in Active', x[1] = y[1]
               PROVE  x = y
    BY DEF OneActive
  <2>1. \A z \in Active : z[1] \notin Inserted(c)
    BY <1>3 DEF ActiveKeys
  <2>2. CASE x \in Active
    <3>1. y \in Active
      BY <1>15, <2>1, <2>2
    <3> QED
      BY <2>2, <3>1 DEF LookaheadInv, OneActive
  <2>3. CASE x \notin Active
    <3>1. x[1] \in Inserted(c) /\ x = <<x[1], Len(alerts[x[1]]) + 1>>
      BY <1>15, <2>3
    <3>2. y \notin Active
      BY <2>1, <3>1
    <3>3. y = <<y[1], Len(alerts[y[1]]) + 1>>
      BY <1>15, <3>2
    <3> QED
      BY <3>1, <3>3
  <2> QED
    BY <2>2, <2>3
<1>17. OneWriter'
  <2> SUFFICES ASSUME NEW t \in Sessions, NEW u \in Sessions, NEW d,
                      Writes(session[t], d)', Writes(session[u], d)'
               PROVE  t = u
    BY DEF OneWriter
  <2>1. t # s /\ u # s
    BY <1>8 DEF Writes
  <2>2. Writes(session[t], d) /\ Writes(session[u], d)
    BY <1>11, <2>1 DEF Writes, Computed
  <2> QED
    BY <2>2 DEF LookaheadInv, OneWriter
<1>18. LastWarrants'
  <2> SUFFICES ASSUME c.alone, NEW x \in Active'
               PROVE  x[1] \in Surviving(c.snapshot)
    <3>1. marks'[last'].alone = c.alone /\ snapshots'[last'] = c.snapshot
      BY <1>5, <1>6, <1>7
    <3> QED
      BY <3>1 DEF LastWarrants, ActiveKeys
  <2>1. CASE x \in Active /\ x \notin Cancelled(c)
    <3>1. x \in c.active
      BY <1>3, <2>1 DEF Knows
    <3> QED
      BY <2>1, <3>1 DEF Cancelled
  <2>2. CASE x[1] \in Inserted(c)
    BY <2>2 DEF Inserted
  <2> QED
    BY <1>15, <2>1, <2>2
<1> QED
  BY <1>12, <1>13, <1>14, <1>16, <1>17, <1>18 DEF LookaheadInv

-----------------------------------------------------------------------------
(* The theorems.                                                            *)

LEMMA InitConsistent == Init => LookaheadInv
<1> SUFFICES ASSUME Init PROVE LookaheadInv
  OBVIOUS
<1>1. Written = {} /\ DOMAIN session = Sessions /\ now \in Clock /\ last = None
  BY ClockIsNumbers DEF Init, Written
<1>2. \A s \in Sessions : session[s].at = "idle"
  BY DEF Init, Idle
<1>3. \A s \in Sessions :
        /\ Kind(session[s]) /\ Reads(session[s]) /\ Later(session[s]) /\ Knows(session[s])
        /\ \A d : ~Writes(session[s], d)
  BY <1>2, BlankIsGood
<1>4. alerts = [k \in Keys |-> <<>>] /\ alerts \in [Keys -> Seq(Statuses)]
  BY DEF Init
<1>5. Active = {}
  BY <1>4, ActiveRows
<1>6. marks \in [Days -> [overtaken : BOOLEAN, alone : BOOLEAN]]
  BY DEF Init
<1>7. TypeOK
  BY <1>1, <1>3, <1>4, <1>6 DEF TypeOK
<1>8. LatestHolds /\ OneActive /\ OneWriter /\ LastWarrants
  BY <1>1, <1>3, <1>5 DEF LatestHolds, LastDay, OneActive, OneWriter, LastWarrants
<1> QED
  BY <1>3, <1>7, <1>8 DEF LookaheadInv

LEMMA NextConsistent == LookaheadInv /\ [Next]_vars => LookaheadInv'
<1> SUFFICES ASSUME LookaheadInv, [Next]_vars PROVE LookaheadInv'
  OBVIOUS
<1>1. now \in Clock /\ now \in Nat
  BY ClockIsNumbers DEF LookaheadInv, TypeOK
<1>2. CASE UNCHANGED vars
  <2>1. UNCHANGED <<Kept, session, lost>> /\ now' = now
    BY <1>2 DEF vars, Kept
  <2> QED
    BY <1>1, <2>1, TimeKeeps
<1>3. CASE Tick
  <2>1. UNCHANGED <<Kept, session, lost>> /\ now' \in Clock /\ now <= now'
    BY <1>1, <1>3 DEF Tick, Kept
  <2> QED
    BY <2>1, TimeKeeps
<1>4. CASE \E m \in Mappings, t \in Types : CorrectMapping(m, t)
  <2>1. UNCHANGED <<Kept, session, lost>> /\ now' = now
    BY <1>4 DEF CorrectMapping, Kept
  <2> QED
    BY <1>1, <2>1, TimeKeeps
<1>5. CASE \E s \in Sessions, b \in Bookings, st \in {"pending", "confirmed", "denied"}, t \in Types :
             StartBooking(s, b, [status |-> st, type |-> t])
  BY <1>5, StartBookingKeeps
<1>6. CASE \E s \in Sessions, b \in Bookings : StartBooking(s, b, None)
  BY <1>6, StartBookingKeeps
<1>7. CASE \E s \in Sessions : CommitBooking(s)
  BY <1>7, CommitBookingKeeps
<1>8. CASE \E s \in Sessions : Activate(s)
  BY <1>8, ActivateKeeps
<1>9. CASE \E s \in Sessions : StartView(s) \/ StartNightly(s) \/ StartRefresh(s)
  BY <1>9, StartKeeps, StartRefreshKeeps
<1>10. CASE \E s \in Sessions : Compute(s) \/ WriteSnapshot(s)
  BY <1>10, ComputeKeeps, WriteSnapshotKeeps
<1>11. CASE \E s \in Sessions : Commit(s) \/ Abandon(s)
  BY <1>11, CommitKeeps, AbandonKeeps
<1> QED
  BY <1>2, <1>3, <1>4, <1>5, <1>6, <1>7, <1>8, <1>9, <1>10, <1>11 DEF Next

(* The sessions, the snapshots and the alerts of lookahead_engine.py stay   *)
(* consistent: what a calculation has read is what is booked until a        *)
(* booking overtakes it, a day has one writer, a key one active alert.      *)
THEOREM LookaheadConsistent == Spec => []LookaheadInv
BY InitConsistent, NextConsistent, PTL DEF Spec

(* A page that takes the snapshot for fresh shows the hours that are        *)
(* booked, whatever is calculated and booked at the same time.              *)
THEOREM FreshPagesShowBookings == Spec => []FreshHoursAreBooked
<1>1. LookaheadInv => FreshHoursAreBooked
  <2> SUFFICES ASSUME LookaheadInv, NEW p \in Latest,
                      ~(p.booked = BookedNow \/ marks[p.day].overtaken), ~lost
               PROVE  RefreshComes
    BY DEF FreshHoursAreBooked
  <2>1. PICK d \in Written : p = snapshots[d] /\ \A e \in Written : e <= d
    BY DEF Latest
  <2>2. p.day = d /\ LastDay(d)
    BY <2>1 DEF LookaheadInv, TypeOK, LastDay
  <2>3. PICK s \in Sessions : Comes(session[s], d)
    BY <2>1, <2>2 DEF LookaheadInv, LatestHolds
  <2> QED
    BY <2>3 DEF RefreshComes, Busy, Comes
<1> QED
  BY <1>1, LookaheadConsistent, PTL

LEMMA OnePerKey ==
  ASSUME NEW A, NEW B, IsFiniteSet(B), \A x \in A : x[1] \in B,
         \A x, y \in A : x[1] = y[1] => x = y
  PROVE  IsFiniteSet(A) /\ Cardinality(A) <= Cardinality(B)
<1> DEFINE f == [x \in A |-> x[1]]
<1>1. f \in Injection(A, B)
  BY DEF Injection, IsInjective
<1> HIDE DEF f
<1> QED
  BY <1>1, FS_Injection

(* What one calculation inserts and keeps never adds to what another left:  *)
(* the active alerts are warranted by the last snapshot, and no more than   *)
(* the policy allows the project and each subcontractor.                    *)
THEOREM AlertsStayWarranted == Spec => []AlertsAreWarranted
<1>1. LookaheadInv => AlertsAreWarranted
  <2> SUFFICES ASSUME LookaheadInv, last # None, marks[last].alone
               PROVE  /\ ActiveKeys \subseteq Surviving(snapshots[last])
                      /\ Cardinality(Active) <= PerProject
                      /\ \A k \in ActiveKeys : Cardinality({x \in Active : x[1][1] = k[1]}) <= PerSub
    BY DEF AlertsAreWarranted
  <2>1. PICK kept : kept = Surviving(snapshots[last])
    OBVIOUS
  <2>2. ActiveKeys \subseteq kept /\ \A x, y \in Active : x[1] = y[1] => x = y
    BY <2>1 DEF LookaheadInv, LastWarrants, OneActive
  <2>3. Rated(snapshots[last])
    BY DEF LookaheadInv, TypeOK, IsSnapshot
  <2>4. Capped(kept)
    BY <2>1, <2>3, TheMostSevereSurvive DEF MostSevere
  <2>5. \A x \in Active : x[1] \in kept
    BY <2>2 DEF ActiveKeys
  <2>6. Cardinality(Active) <= PerProject
    <3>1. IsFiniteSet(kept) /\ Cardinality(kept) <= PerProject
      BY <2>4 DEF Capped
    <3>2. Cardinality(Active) <= Cardinality(kept)
      BY <2>2, <2>5, <3>1, OnePerKey
    <3>3. IsFiniteSet(Active)
      BY <2>2, <2>5, <3>1, OnePerKey
    <3>4. Cardinality(Active) \in Nat /\ Cardinality(kept) \in Nat /\ PerProject \in Nat
      BY <3>1, <3>3, FS_CardinalityType, LookaheadAssumption
    <3> QED
      BY <3>1, <3>2, <3>4
  <2>7. ASSUME NEW k \in ActiveKeys
        PROVE  Cardinality({x \in Active : x[1][1] = k[1]}) <= PerSub
    <3>1. PICK A : A = {x \in Active : x[1][1] = k[1]}
      OBVIOUS
    <3>2. PICK B : B = {x \in kept : x[1] = k[1]}
      OBVIOUS
    <3>3. IsFiniteSet(kept) /\ Cardinality(B) <= PerSub
      BY <2>4, <3>2 DEF Capped
    <3>4. IsFiniteSet(B)
      BY <3>2, <3>3, FS_Subset
    <3>5. (\A x \in A : x[1] \in B) /\ \A x, y \in A : x[1] = y[1] => x = y
      BY <2>2, <2>5, <3>1, <3>2
    <3>6. IsFiniteSet(A) /\ Cardinality(A) <= Cardinality(B)
      BY <3>4, <3>5, OnePerKey
    <3>7. Cardinality(A) \in Nat /\ Cardinality(B) \in Nat /\ PerSub \in Nat
      BY <3>4, <3>6, FS_CardinalityType, LookaheadAssumption
    <3> QED
      BY <3>1, <3>3, <3>6, <3>7
  <2> QED
    BY <2>1, <2>2, <2>6, <2>7
<1> QED
  BY <1>1, LookaheadConsistent, PTL
=============================================================================
