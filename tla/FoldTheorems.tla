---------------------------- MODULE FoldTheorems ----------------------------
(***************************************************************************)
(* Induction over numbers, finite sets, folds and sums.  The property of   *)
(* an induction is a set, the step of a fold is a function: what is proved *)
(* here can be cited for every fold of the model.                          *)
(***************************************************************************)
EXTENDS Integers, FiniteSets, Functions, Sums, FiniteSetTheorems, WellFoundedInduction, TLAPS

-----------------------------------------------------------------------------
(* Numbers.                                                                 *)

(* A set of numbers that is not empty has a smallest one.                   *)
LEMMA SmallestNumber ==
  ASSUME NEW T \in SUBSET Nat, T # {}
  PROVE  \E x \in T : \A y \in T : x <= y
<1> DEFINE R == {p \in Nat \X Nat : p[1] < p[2]}
<1>1. IsWellFoundedOn(R, Nat)
  BY NatLessThanWellFounded DEF OpToRel
<1> HIDE DEF R
<1>2. PICK x \in T : \A y \in T : ~(<<y, x>> \in R)
  BY <1>1, WFMin
<1>3. ASSUME NEW y \in T
      PROVE  x <= y
  <2>1. x \in Nat /\ y \in Nat /\ ~(<<y, x>> \in R)
    BY <1>2
  <2>2. ~(y < x)
    BY <2>1 DEF R
  <2> QED
    BY <2>1, <2>2
<1> QED
  BY <1>3

(* What holds of 0 and passes from a number to the next holds of them all.  *)
LEMMA Induction ==
  ASSUME NEW S, 0 \in S, \A n \in Nat : n \in S => n + 1 \in S
  PROVE  Nat \subseteq S
<1> SUFFICES ASSUME NEW m \in Nat, m \notin S PROVE FALSE
  OBVIOUS
<1> DEFINE T == {n \in Nat : n \notin S}
<1>1. T \in SUBSET Nat /\ T # {}
  OBVIOUS
<1> HIDE DEF T
<1>2. PICK x \in T : \A y \in T : x <= y
  BY <1>1, SmallestNumber
<1>3. x \in Nat /\ x \notin S /\ x # 0
  BY <1>2 DEF T
<1>4. x - 1 \in Nat /\ (x - 1) + 1 = x
  BY <1>3
<1>5. x - 1 \notin T
  BY <1>2, <1>3, <1>4
<1> QED
  BY <1>3, <1>4, <1>5 DEF T

-----------------------------------------------------------------------------
(* Finite sets.                                                             *)

LEMMA ImageIsFinite ==
  ASSUME NEW D, IsFiniteSet(D), NEW f
  PROVE  IsFiniteSet({f[x] : x \in D})
<1> DEFINE T == {f[x] : x \in D}
           g == [x \in D |-> f[x]]
<1>1. g \in Surjection(D, T)
  BY DEF Surjection
<1> HIDE DEF g, T
<1>2. IsFiniteSet(T)
  BY <1>1, FS_Surjection
<1> QED
  BY <1>2 DEF T

(* What holds of a set once it holds of the set without any of its elements *)
(* holds of every subset of a finite set.                                   *)
LEMMA FiniteSetInduction ==
  ASSUME NEW D, IsFiniteSet(D), NEW S,
         \A s \in SUBSET D : (\A x \in s : s \ {x} \in S) => s \in S
  PROVE  SUBSET D \subseteq S
<1> DEFINE size(s) == Cardinality(s)
           T == {n \in Nat : \A s \in SUBSET D : size(s) <= n => s \in S}
<1>1. \A s \in SUBSET D : size(s) \in Nat /\ (s = {} <=> size(s) = 0)
  BY FS_Subset, FS_CardinalityType, FS_EmptySet
<1>2. ASSUME NEW s \in SUBSET D, NEW x \in s
      PROVE  s \ {x} \in SUBSET D /\ size(s \ {x}) = size(s) - 1
  <2>1. IsFiniteSet(s)
    BY FS_Subset
  <2> QED
    BY <2>1, FS_RemoveElement
<1> HIDE DEF size
<1>3. 0 \in T
  BY <1>1
<1>4. ASSUME NEW n \in Nat, n \in T
      PROVE  n + 1 \in T
  <2>1. ASSUME NEW s \in SUBSET D, size(s) <= n + 1
        PROVE  s \in S
    <3>1. ASSUME NEW x \in s
          PROVE  s \ {x} \in S
      <4>1. s \ {x} \in SUBSET D /\ size(s \ {x}) <= n
        BY <1>1, <1>2, <2>1
      <4> QED
        BY <1>4, <4>1
    <3> QED
      BY <3>1
  <2> QED
    BY <2>1
<1>5. Nat \subseteq T
  <2> HIDE DEF T
  <2> QED
    BY <1>3, <1>4, Induction
<1> QED
  BY <1>1, <1>5

(* A total, transitive relation has a last element in every finite set.     *)
LEMMA LastOfSet ==
  ASSUME NEW D, IsFiniteSet(D), NEW R,
         \A k, l \in D : k # l => <<k, l>> \in R \/ <<l, k>> \in R,
         \A k, l, m \in D : <<k, l>> \in R /\ <<l, m>> \in R => <<k, m>> \in R
  PROVE  \A s \in SUBSET D : s # {} => \E k \in s : \A l \in s \ {k} : <<l, k>> \in R
<1> DEFINE Has(s) == \E k \in s : \A l \in s \ {k} : <<l, k>> \in R
           S == {s \in SUBSET D : s # {} => Has(s)}
<1>1. ASSUME NEW s \in SUBSET D, \A x \in s : s \ {x} \in S
      PROVE  s \in S
  <2>1. ASSUME NEW x \in s
        PROVE  Has(s)
    <3>1. CASE s = {x}
      BY <3>1
    <3>2. CASE s # {x}
      <4>1. s \ {x} \in S /\ s \ {x} # {}
        BY <1>1, <2>1, <3>2
      <4>2. PICK k \in s \ {x} : \A l \in (s \ {x}) \ {k} : <<l, k>> \in R
        BY <4>1
      <4>3. CASE <<x, k>> \in R
        BY <4>2, <4>3
      <4>4. CASE <<k, x>> \in R
        <5>1. \A l \in s \ {x} : <<l, x>> \in R
          BY <4>2, <4>4
        <5> QED
          BY <5>1
      <4> QED
        BY <4>2, <4>3, <4>4
    <3> QED
      BY <3>1, <3>2
  <2> HIDE DEF Has
  <2> QED
    BY <2>1
<1>2. SUBSET D \subseteq S
  <2> HIDE DEF S
  <2> QED
    BY <1>1, FiniteSetInduction
<1> QED
  BY <1>2

-----------------------------------------------------------------------------
(* Folds.                                                                   *)

Picks(pick, D) == \A s \in SUBSET D : s # {} => pick[s] \in s

Folds(g, D, pick, base, F) ==
  g = [s \in SUBSET D |-> IF s = {} THEN base ELSE F[<<s, g[s \ {pick[s]}]>>]]

(* A fold over a finite set is defined, and its values are of the kind that *)
(* the folded operation keeps.                                              *)
LEMMA FoldExists ==
  ASSUME NEW D, IsFiniteSet(D), NEW pick, Picks(pick, D),
         NEW V, NEW base \in V, NEW F \in [(SUBSET D) \X V -> V]
  PROVE  \E g \in [SUBSET D -> V] : Folds(g, D, pick, base, F)
<1> DEFINE rest(s) == s \ {pick[s]}
           size(s) == Cardinality(s)
           Small(n) == {s \in SUBSET D : size(s) <= n}
           Step(g, s) == IF s = {} THEN base ELSE F[<<s, g[rest(s)]>>]
           Upto(g, n) == g \in [Small(n) -> V] /\ g = [s \in Small(n) |-> Step(g, s)]
           S == {n \in Nat : \E g : Upto(g, n)}
<1>1. \A s \in SUBSET D : size(s) \in Nat /\ (s = {} <=> size(s) = 0)
  BY FS_Subset, FS_CardinalityType, FS_EmptySet
<1>2. \A s \in SUBSET D : s # {} => rest(s) \in SUBSET D /\ size(rest(s)) = size(s) - 1
  <2> SUFFICES ASSUME NEW s \in SUBSET D, s # {}
               PROVE  rest(s) \in SUBSET D /\ size(rest(s)) = size(s) - 1
    OBVIOUS
  <2>1. IsFiniteSet(s)
    BY FS_Subset
  <2>2. pick[s] \in s
    BY DEF Picks
  <2> QED
    BY <2>1, <2>2, FS_RemoveElement
<1> HIDE DEF size, rest
<1>3. 0 \in S
  <2>1. {} \in Small(0)
    BY <1>1
  <2>2. ASSUME NEW s \in Small(0)
        PROVE  s = {}
    BY <1>1
  <2> DEFINE g == [s \in Small(0) |-> base]
  <2>3. g \in [Small(0) -> V]
    OBVIOUS
  <2>4. g = [s \in Small(0) |-> Step(g, s)]
    BY <2>2
  <2> QED
    BY <2>3, <2>4
<1>4. ASSUME NEW n \in Nat, n \in S
      PROVE  n + 1 \in S
  <2>1. PICK g : Upto(g, n)
    BY <1>4
  <2> DEFINE h == [s \in Small(n + 1) |-> Step(g, s)]
  <2>2. ASSUME NEW s \in Small(n + 1), s # {}
        PROVE  rest(s) \in Small(n)
    BY <1>1, <1>2, <2>2
  <2>3. ASSUME NEW s \in Small(n)
        PROVE  s \in Small(n + 1)
    BY <1>1, <2>3
  <2> HIDE DEF Small
  <2>4. ASSUME NEW s \in Small(n)
        PROVE  h[s] = g[s]
    BY <2>1, <2>3
  <2>5. ASSUME NEW s \in Small(n + 1)
        PROVE  Step(h, s) = Step(g, s)
    <3> HIDE DEF h
    <3>1. s # {} => h[rest(s)] = g[rest(s)]
      BY <2>2, <2>4
    <3> QED
      BY <3>1
  <2>6. ASSUME NEW s \in Small(n + 1)
        PROVE  Step(g, s) \in V
    <3>1. CASE s = {}
      BY <3>1
    <3>2. CASE s # {}
      <4>1. s \in SUBSET D
        BY DEF Small
      <4>2. g[rest(s)] \in V
        BY <2>1, <2>2, <3>2
      <4> QED
        BY <3>2, <4>1, <4>2
    <3> QED
      BY <3>1, <3>2
  <2>7. h \in [Small(n + 1) -> V]
    BY <2>6
  <2>8. h = [s \in Small(n + 1) |-> Step(h, s)]
    BY <2>5
  <2>9. Upto(h, n + 1)
    BY <2>7, <2>8
  <2> HIDE DEF h, Upto
  <2> QED
    BY <2>9
<1>5. Nat \subseteq S
  <2> HIDE DEF S
  <2> QED
    BY <1>3, <1>4, Induction
<1>6. PICK g : Upto(g, size(D))
  <2>1. size(D) \in Nat
    BY <1>1
  <2> HIDE DEF Upto
  <2> QED
    BY <1>5, <2>1
<1>7. Small(size(D)) = SUBSET D
  BY FS_Subset DEF size
<1>8. g \in [SUBSET D -> V] /\ g = [s \in SUBSET D |-> Step(g, s)]
  BY <1>6, <1>7
<1> QED
  BY <1>8 DEF rest, Folds

-----------------------------------------------------------------------------
(* Sums.                                                                    *)

Chosen(s) == CHOOSE x \in s : TRUE

IsSum(g, f, S) ==
  g = [s \in SUBSET S |-> IF s = {} THEN 0 ELSE f[Chosen(s)] + g[s \ {Chosen(s)}]]

SumOf(f, S) == CHOOSE g : IsSum(g, f, S)

(* A sum is the last value of a recursive function, which exists.           *)
LEMMA SumExists ==
  ASSUME NEW D, IsFiniteSet(D), NEW f \in [D -> Int]
  PROVE  \A S \in SUBSET D :
           \E g \in [SUBSET S -> Int] : IsSum(g, f, S) /\ Total(f, S) = g[S]
<1> SUFFICES ASSUME NEW S \in SUBSET D
             PROVE  \E g \in [SUBSET S -> Int] : IsSum(g, f, S) /\ Total(f, S) = g[S]
  OBVIOUS
<1> DEFINE pick == [s \in SUBSET S |-> Chosen(s)]
           F == [p \in (SUBSET S) \X Int |->
                   IF p[1] = {} THEN 0 ELSE f[pick[p[1]]] + p[2]]
<1>1. IsFiniteSet(S)
  BY FS_Subset
<1>2. \A s \in SUBSET S : s # {} => pick[s] \in s
  BY DEF Chosen
<1>3. Picks(pick, S)
  BY <1>2 DEF Picks
<1>4. F \in [(SUBSET S) \X Int -> Int]
  <2>1. ASSUME NEW s \in SUBSET S, s # {}
        PROVE  f[pick[s]] \in Int
    <3>1. pick[s] \in D
      BY <1>2, <2>1
    <3> QED
      BY <3>1
  <2> HIDE DEF pick
  <2> QED
    BY <2>1
<1>5. PICK g \in [SUBSET S -> Int] : Folds(g, S, pick, 0, F)
  <2>1. 0 \in Int
    OBVIOUS
  <2> HIDE DEF F, pick
  <2> QED
    BY <1>1, <1>3, <1>4, <2>1, FoldExists
<1>6. IsSum(g, f, S)
  <2>1. ASSUME NEW s \in SUBSET S, s # {}
        PROVE  F[<<s, g[s \ {pick[s]}]>>] = f[pick[s]] + g[s \ {pick[s]}]
    <3>1. g[s \ {pick[s]}] \in Int
      OBVIOUS
    <3> HIDE DEF pick
    <3> QED
      BY <2>1, <3>1
  <2>2. g = [s \in SUBSET S |-> IF s = {} THEN 0 ELSE F[<<s, g[s \ {pick[s]}]>>]]
    BY <1>5 DEF Folds
  <2>3. g = [s \in SUBSET S |-> IF s = {} THEN 0 ELSE f[pick[s]] + g[s \ {pick[s]}]]
    <3> HIDE DEF F, pick
    <3> QED
      BY <2>1, <2>2
  <2> QED
    BY <2>3 DEF IsSum
<1>7. IsSum(SumOf(f, S), f, S)
  BY <1>6 DEF SumOf
<1>8. Total(f, S) = SumOf(f, S)[S]
  BY DEF Total, MapThenSumSet, MapThenFoldSet, SumOf, IsSum, Chosen
<1>9. PICK iter : iter = SumOf(f, S)
  OBVIOUS
<1>10. /\ iter = [s \in SUBSET S |-> iter[s]] /\ iter[{}] = 0
       /\ \A s \in SUBSET S : s # {} => iter[s] = f[pick[s]] + iter[s \ {pick[s]}]
  BY <1>7, <1>9 DEF IsSum
<1> DEFINE T == {s \in SUBSET S : iter[s] \in Int}
<1>11. ASSUME NEW s \in SUBSET S, \A x \in s : s \ {x} \in T
       PROVE  s \in T
  <2>1. CASE s = {}
    BY <1>10, <2>1
  <2>2. CASE s # {}
    <3>1. pick[s] \in s /\ pick[s] \in D
      BY <1>2, <2>2
    <3>2. iter[s] = f[pick[s]] + iter[s \ {pick[s]}]
      BY <1>10, <2>2
    <3> HIDE DEF pick
    <3>3. iter[s \ {pick[s]}] \in Int /\ f[pick[s]] \in Int
      BY <1>11, <3>1
    <3> QED
      BY <3>2, <3>3
  <2> QED
    BY <2>1, <2>2
<1>12. SUBSET S \subseteq T
  <2> HIDE DEF T, F, pick
  <2>1. \A s \in SUBSET S : (\A x \in s : s \ {x} \in T) => s \in T
    BY <1>11
  <2>2. \A C : (\A s \in SUBSET S : (\A x \in s : s \ {x} \in C) => s \in C) => SUBSET S \subseteq C
    BY ONLY <1>1, FiniteSetInduction
  <2> QED
    BY <2>1, <2>2, Zenon
<1> QED
  BY <1>7, <1>8, <1>9, <1>10, <1>12

LEMMA TotalIsInteger ==
  ASSUME NEW D, IsFiniteSet(D), NEW f \in [D -> Int]
  PROVE  \A S \in SUBSET D : Total(f, S) \in Int
<1>0. \A S \in SUBSET D : \E g \in [SUBSET S -> Int] : IsSum(g, f, S) /\ Total(f, S) = g[S]
  BY SumExists
<1> SUFFICES ASSUME NEW S \in SUBSET D PROVE Total(f, S) \in Int
  OBVIOUS
<1>1. PICK g \in [SUBSET S -> Int] : IsSum(g, f, S) /\ Total(f, S) = g[S]
  BY <1>0
<1>2. S \in SUBSET S
  OBVIOUS
<1> QED
  BY <1>1, <1>2

(* Sums over nothing, and over a set and what is left of it. *)
LEMMA TotalOfChosen ==
  ASSUME NEW D, IsFiniteSet(D), NEW f \in [D -> Int]
  PROVE  \A S \in SUBSET D :
           /\ S = {} => Total(f, S) = 0
           /\ S # {} => Total(f, S) = f[Chosen(S)] + Total(f, S \ {Chosen(S)})
<1> SUFFICES ASSUME NEW S \in SUBSET D
             PROVE  /\ S = {} => Total(f, S) = 0
                    /\ S # {} => Total(f, S) = f[Chosen(S)] + Total(f, S \ {Chosen(S)})
  OBVIOUS
<1>0. \A s \in SUBSET D : \E g \in [SUBSET s -> Int] : IsSum(g, f, s) /\ Total(f, s) = g[s]
  BY SumExists
<1>1. CASE S = {}
  BY <1>0, <1>1 DEF IsSum
<1>2. CASE S # {}
  <2>1. PICK R : R = S \ {Chosen(S)}
    OBVIOUS
  <2>4. R \in SUBSET S /\ R \in SUBSET D
    BY <2>1
  <2>5. PICK g \in [SUBSET S -> Int] : IsSum(g, f, S) /\ Total(f, S) = g[S]
    BY <1>0
  <2>6. PICK h \in [SUBSET R -> Int] : IsSum(h, f, R) /\ Total(f, R) = h[R]
    BY <1>0, <2>4
  <2>7. \A s \in SUBSET R : s = {} => g[s] = h[s]
    BY <2>4, <2>5, <2>6 DEF IsSum
  <2>8. \A s \in SUBSET R : s # {} =>
           g[s] = f[Chosen(s)] + g[s \ {Chosen(s)}] /\ h[s] = f[Chosen(s)] + h[s \ {Chosen(s)}]
    BY <2>4, <2>5, <2>6 DEF IsSum
  <2>9. \A s \in SUBSET R : s # {} => Chosen(s) \in s
    BY DEF Chosen
  <2> DEFINE T == {s \in SUBSET R : g[s] = h[s]}
  <2>10. \A s \in SUBSET R : (\A x \in s : s \ {x} \in T) => s \in T
    BY <2>7, <2>8, <2>9
  <2>11. IsFiniteSet(R)
    BY <2>4, FS_Subset
  <2> HIDE DEF T
  <2>12. \A C : (\A s \in SUBSET R : (\A x \in s : s \ {x} \in C) => s \in C) => SUBSET R \subseteq C
    BY ONLY <2>11, FiniteSetInduction
  <2>13. R \in T
    BY <2>10, <2>12, Zenon
  <2>14. g[S] = f[Chosen(S)] + g[R]
    BY <1>2, <2>1, <2>5 DEF IsSum
  <2> QED
    BY <1>2, <2>1, <2>5, <2>6, <2>13, <2>14 DEF T
<1> QED
  BY <1>1, <1>2

(* Any element may be taken out of a sum. *)
LEMMA TotalWithout ==
  ASSUME NEW D, IsFiniteSet(D), NEW f \in [D -> Int]
  PROVE  \A S \in SUBSET D : \A x \in S : Total(f, S) = f[x] + Total(f, S \ {x})
<1> DEFINE Splits(S) == \A x \in S : Total(f, S) = f[x] + Total(f, S \ {x})
           T == {S \in SUBSET D : Splits(S)}
<1>1. ASSUME NEW S \in SUBSET D, \A x \in S : S \ {x} \in T
      PROVE  S \in T
  <2> SUFFICES ASSUME NEW x \in S PROVE Total(f, S) = f[x] + Total(f, S \ {x})
    OBVIOUS
  <2>1. PICK c \in S : c = Chosen(S)
    BY DEF Chosen
  <2>2. Total(f, S) = f[c] + Total(f, S \ {c})
    BY <2>1, TotalOfChosen
  <2>3. CASE c = x
    BY <2>2, <2>3
  <2>4. CASE c # x
    <3>1. Total(f, S \ {c}) = f[x] + Total(f, (S \ {c}) \ {x})
      BY <1>1, <2>4
    <3>2. Total(f, S \ {x}) = f[c] + Total(f, (S \ {x}) \ {c})
      BY <1>1, <2>4
    <3>3. Total(f, (S \ {c}) \ {x}) = Total(f, (S \ {x}) \ {c})
      <4>1. (S \ {c}) \ {x} = (S \ {x}) \ {c}
        OBVIOUS
      <4> QED
        BY <4>1
    <3>4. f[c] \in Int /\ f[x] \in Int /\ Total(f, (S \ {c}) \ {x}) \in Int
      BY TotalIsInteger
    <3> QED
      BY ONLY <2>2, <3>1, <3>2, <3>3, <3>4
  <2> QED
    BY <2>3, <2>4
<1> HIDE DEF T
<1>2. \A C : (\A s \in SUBSET D : (\A x \in s : s \ {x} \in C) => s \in C) => SUBSET D \subseteq C
  BY ONLY IsFiniteSet(D), FiniteSetInduction
<1>3. SUBSET D \subseteq T
  BY <1>1, <1>2, Zenon
<1> QED
  BY <1>3 DEF T

LEMMA TotalIsNatural ==
  ASSUME NEW D, IsFiniteSet(D), NEW f \in [D -> Nat]
  PROVE  \A S \in SUBSET D : Total(f, S) \in Nat
<1> DEFINE T == {S \in SUBSET D : Total(f, S) \in Nat}
<1>0. f \in [D -> Int]
  OBVIOUS
<1>1. ASSUME NEW S \in SUBSET D, \A x \in S : S \ {x} \in T
      PROVE  S \in T
  <2>1. CASE S = {}
    <3>1. Total(f, S) = 0
      BY <1>0, <2>1, TotalOfChosen
    <3> QED
      BY <3>1
  <2>2. CASE S # {}
    <3>1. PICK x \in S : TRUE
      BY <2>2
    <3>2. Total(f, S) = f[x] + Total(f, S \ {x})
      BY <1>0, TotalWithout
    <3>3. Total(f, S \ {x}) \in Nat
      BY <1>1
    <3> QED
      BY <3>2, <3>3
  <2> QED
    BY <2>1, <2>2
<1> HIDE DEF T
<1>2. \A C : (\A s \in SUBSET D : (\A x \in s : s \ {x} \in C) => s \in C) => SUBSET D \subseteq C
  BY ONLY IsFiniteSet(D), FiniteSetInduction
<1>3. SUBSET D \subseteq T
  BY <1>1, <1>2, Zenon
<1> QED
  BY <1>3 DEF T

(* A sum grows with what it sums and with what it sums over. *)
LEMMA TotalGrows ==
  ASSUME NEW D, IsFiniteSet(D), NEW f \in [D -> Nat], NEW g \in [D -> Nat],
         \A x \in D : f[x] <= g[x]
  PROVE  \A S \in SUBSET D : \A R \in SUBSET S : Total(f, R) <= Total(g, S)
<1> DEFINE Grows(S) == \A R \in SUBSET S : Total(f, R) <= Total(g, S)
           T == {S \in SUBSET D : Grows(S)}
<1>0. f \in [D -> Int] /\ g \in [D -> Int]
  OBVIOUS
<1>1. ASSUME NEW S \in SUBSET D, \A x \in S : S \ {x} \in T
      PROVE  S \in T
  <2> SUFFICES ASSUME NEW R \in SUBSET S PROVE Total(f, R) <= Total(g, S)
    OBVIOUS
  <2>1. CASE S = {}
    BY <1>0, <2>1, TotalOfChosen
  <2>2. CASE S # {}
    <3>1. PICK x \in S : TRUE
      BY <2>2
    <3>2. Total(g, S) = g[x] + Total(g, S \ {x})
      BY <1>0, TotalWithout
    <3>3. f[x] \in Nat /\ g[x] \in Nat /\ f[x] <= g[x] /\ Total(g, S \ {x}) \in Nat
          /\ Total(f, R \ {x}) \in Nat
      BY TotalIsNatural
    <3>4. Total(f, R \ {x}) <= Total(g, S \ {x})
      BY <1>1
    <3>5. CASE x \in R
      <4>1. Total(f, R) = f[x] + Total(f, R \ {x})
        BY <1>0, <3>5, TotalWithout
      <4> QED
        BY <3>2, <3>3, <3>4, <4>1
    <3>6. CASE x \notin R
      <4>1. Total(f, R) = Total(f, R \ {x})
        <5>1. R \ {x} = R
          BY <3>6
        <5> QED
          BY <5>1
      <4> QED
        BY <3>2, <3>3, <3>4, <4>1
    <3> QED
      BY <3>5, <3>6
  <2> QED
    BY <2>1, <2>2
<1> HIDE DEF T
<1>2. \A C : (\A s \in SUBSET D : (\A x \in s : s \ {x} \in C) => s \in C) => SUBSET D \subseteq C
  BY ONLY IsFiniteSet(D), FiniteSetInduction
<1>3. SUBSET D \subseteq T
  BY <1>1, <1>2, Zenon
<1> QED
  BY <1>3 DEF T

(* Only the elements summed over matter. *)
LEMMA TotalSame ==
  ASSUME NEW D, IsFiniteSet(D), NEW f \in [D -> Int], NEW g \in [D -> Int],
         NEW S \in SUBSET D, \A x \in S : f[x] = g[x]
  PROVE  Total(f, S) = Total(g, S)
<1> DEFINE T == {R \in SUBSET S : Total(f, R) = Total(g, R)}
<1>1. ASSUME NEW R \in SUBSET S, \A x \in R : R \ {x} \in T
      PROVE  R \in T
  <2>1. CASE R = {}
    BY <2>1, TotalOfChosen
  <2>2. CASE R # {}
    <3>1. PICK x \in R : TRUE
      BY <2>2
    <3>2. Total(f, R) = f[x] + Total(f, R \ {x}) /\ Total(g, R) = g[x] + Total(g, R \ {x})
      BY TotalWithout
    <3> QED
      BY <1>1, <3>2
  <2> QED
    BY <2>1, <2>2
<1>2. IsFiniteSet(S)
  BY FS_Subset
<1> HIDE DEF T
<1>3. \A C : (\A s \in SUBSET S : (\A x \in s : s \ {x} \in C) => s \in C) => SUBSET S \subseteq C
  BY ONLY <1>2, FiniteSetInduction
<1>4. SUBSET S \subseteq T
  BY <1>1, <1>3, Zenon
<1> QED
  BY <1>4 DEF T

(* A change of one row changes a sum by as much. *)
LEMMA TotalChanged ==
  ASSUME NEW D, IsFiniteSet(D), NEW f \in [D -> Int], NEW g \in [D -> Int],
         NEW x \in D, \A y \in D \ {x} : f[y] = g[y]
  PROVE  Total(g, D) + f[x] = Total(f, D) + g[x]
<1>1. Total(f, D) = f[x] + Total(f, D \ {x}) /\ Total(g, D) = g[x] + Total(g, D \ {x})
  BY TotalWithout
<1>2. Total(f, D \ {x}) = Total(g, D \ {x})
  BY TotalSame
<1>3. Total(f, D \ {x}) \in Int /\ Total(f, D) \in Int /\ Total(g, D) \in Int
      /\ f[x] \in Int /\ g[x] \in Int
  BY TotalIsInteger
<1> QED
  BY <1>1, <1>2, <1>3

(* What the rows of C take over from others, each from one of its own, is   *)
(* neither lost nor counted twice.                                          *)
Taken(f, D, C, from) ==
  [k \in D |-> IF k \in C THEN f[k] + f[from[k]]
               ELSE IF \E c \in C : from[c] = k THEN 0 ELSE f[k]]

LEMMA TotalMoved ==
  ASSUME NEW D, IsFiniteSet(D), NEW f \in [D -> Nat], NEW C \in SUBSET D,
         NEW from \in [C -> D], \A c \in C : from[c] \notin C,
         \A c, d \in C : from[c] = from[d] => c = d
  PROVE  Total(Taken(f, D, C, from), D) = Total(f, D)
<1> DEFINE T == {B \in SUBSET C : Total(Taken(f, D, B, from), D) = Total(f, D)}
<1>1. ASSUME NEW B \in SUBSET C, \A x \in B : B \ {x} \in T
      PROVE  B \in T
  <2>1. CASE B = {}
    <3>1. Taken(f, D, B, from) = f
      BY <2>1 DEF Taken
    <3> QED
      BY <3>1
  <2>2. CASE B # {}
    <3>1. PICK x \in B : TRUE
      BY <2>2
    <3>2. PICK y \in D : y = from[x] /\ y # x
      OBVIOUS
    <3>a. ASSUME NEW E \in SUBSET C
          PROVE  Taken(f, D, E, from) \in [D -> Nat]
      BY DEF Taken
    <3>3. PICK g \in [D -> Nat] : g = Taken(f, D, B \ {x}, from)
      BY <3>a
    <3>4. PICK h \in [D -> Nat] : h = Taken(f, D, B, from)
      BY <3>a
    <3>b. [g EXCEPT ![x] = f[x] + f[y]] \in [D -> Nat]
      <4>1. f[x] + f[y] \in Nat
        OBVIOUS
      <4> QED
        BY <4>1
    <3>5. PICK m \in [D -> Nat] : m = [g EXCEPT ![x] = f[x] + f[y]]
      BY <3>b
    <3>6. g[x] = f[x] /\ g[y] = f[y]
      BY <3>2, <3>3 DEF Taken
    <3>7. h[x] = f[x] + f[y] /\ h[y] = 0
      BY <3>2, <3>4 DEF Taken
    <3>8. \A k \in D \ {x, y} : h[k] = g[k]
      BY <3>2, <3>3, <3>4 DEF Taken
    <3>9. m[x] = f[x] + f[y] /\ m[y] = f[y] /\ \A k \in D \ {x} : m[k] = g[k]
      BY <3>2, <3>5, <3>6
    <3>10. Total(m, D) + f[x] = Total(g, D) + (f[x] + f[y])
      BY <3>6, <3>9, TotalChanged
    <3>11. \A k \in D \ {y} : m[k] = h[k]
      BY <3>7, <3>8, <3>9
    <3>12. Total(h, D) + f[y] = Total(m, D) + 0
      BY <3>7, <3>9, <3>11, TotalChanged
    <3>13. Total(g, D) = Total(f, D)
      BY <1>1, <3>3
    <3>14. f[x] \in Nat /\ f[y] \in Nat /\ Total(f, D) \in Nat /\ Total(g, D) \in Nat
           /\ Total(m, D) \in Nat /\ Total(h, D) \in Nat
      BY TotalIsNatural
    <3>15. Total(h, D) = Total(f, D)
      BY ONLY <3>10, <3>12, <3>13, <3>14
    <3> QED
      BY <3>4, <3>15
  <2> QED
    BY <2>1, <2>2
<1>2. IsFiniteSet(C)
  BY FS_Subset
<1> HIDE DEF T
<1>3. \A S : (\A s \in SUBSET C : (\A x \in s : s \ {x} \in S) => s \in S) => SUBSET C \subseteq S
  BY ONLY <1>2, FiniteSetInduction
<1>4. SUBSET C \subseteq T
  BY <1>1, <1>3, Zenon
<1> QED
  BY <1>4 DEF T

-----------------------------------------------------------------------------
(* Redirects.  What following them computes is a recursive function; a set  *)
(* that is closed under a redirect stands in for the induction over it.     *)

Closed(f, C) == \A i \in C : f[i] \in C

NoCircle(Q, f) == \A C \in (SUBSET Q) \ {{}} : Closed(f, C) => \E i \in C : f[i] = i

Orbit(Q, f, i) == {j \in Q : \A C \in SUBSET Q : i \in C /\ Closed(f, C) => j \in C}

EndOf(Q, f) == CHOOSE e : e = [j \in Q |-> IF f[j] = j THEN j ELSE e[f[j]]]

(* An item is in its own orbit, with all that its redirects lead to. *)
LEMMA OrbitClosed ==
    ASSUME NEW Q, NEW f \in [Q -> Q], NEW i \in Q
    PROVE  i \in Orbit(Q, f, i) /\ Orbit(Q, f, i) \subseteq Q /\ Closed(f, Orbit(Q, f, i))
BY DEF Orbit, Closed

(* An orbit lies in every closed set the item is in. *)
LEMMA OrbitLeast ==
    ASSUME NEW Q, NEW f \in [Q -> Q], NEW i \in Q,
           NEW C \in SUBSET Q, i \in C, Closed(f, C)
    PROVE  Orbit(Q, f, i) \subseteq C
BY DEF Orbit

(* An orbit has no two ends. *)
LEMMA OneEnd ==
    ASSUME NEW Q, NEW f \in [Q -> Q], NEW i \in Q,
           NEW j \in Orbit(Q, f, i), NEW k \in Orbit(Q, f, i), f[j] = j, f[k] = k
    PROVE  j = k
<1> DEFINE S == {x \in Q : j \in Orbit(Q, f, x)}
<1>1. i \in S
  OBVIOUS
<1>2. ASSUME NEW x \in S
      PROVE  f[x] \in S
  <2>1. CASE x = j
    BY <2>1
  <2>2. CASE x # j
    <3>1. j \in Q /\ f[x] \in Q
      BY OrbitClosed
    <3>2. SUFFICES ASSUME NEW C \in SUBSET Q, f[x] \in C, Closed(f, C)
                   PROVE  j \in C
      BY <3>1 DEF Orbit
    <3>3. x \in C \cup {x} /\ Closed(f, C \cup {x}) /\ C \cup {x} \in SUBSET Q
      BY <3>2 DEF Closed
    <3>4. j \in C \cup {x}
      BY <3>3 DEF Orbit
    <3> QED
      BY <3>4, <2>2
  <2> QED
    BY <2>1, <2>2
<1>3. Orbit(Q, f, i) \subseteq S
  BY <1>1, <1>2, OrbitLeast DEF Closed
<1>4. j \in Orbit(Q, f, k)
  BY <1>3
<1>5. Orbit(Q, f, k) \subseteq {k}
  <2>1. k \in Q
    BY OrbitClosed
  <2>2. k \in {k} /\ {k} \in SUBSET Q /\ Closed(f, {k})
    BY <2>1 DEF Closed
  <2> QED
    BY <2>1, <2>2, OrbitLeast
<1> QED
  BY <1>4, <1>5

(* Without circles the recursion has a solution: every orbit ends. *)
LEMMA EndExists ==
    ASSUME NEW Q, NEW f \in [Q -> Q], NoCircle(Q, f)
    PROVE  EndOf(Q, f) = [j \in Q |-> IF f[j] = j THEN j ELSE EndOf(Q, f)[f[j]]]
<1> DEFINE e == [j \in Q |-> CHOOSE k \in Orbit(Q, f, j) : f[k] = k]
<1>1. ASSUME NEW j \in Q
      PROVE  e[j] \in Orbit(Q, f, j) /\ f[e[j]] = e[j]
  <2>1. \E k \in Orbit(Q, f, j) : f[k] = k
    BY OrbitClosed DEF NoCircle
  <2> QED
    BY <2>1
<1>2. ASSUME NEW j \in Q, NEW k \in Orbit(Q, f, j), f[k] = k
      PROVE  e[j] = k
  BY <1>1, <1>2, OneEnd
<1>3. ASSUME NEW j \in Q
      PROVE  e[j] = IF f[j] = j THEN j ELSE e[f[j]]
  <2>1. f[j] \in Q /\ f[j] \in Orbit(Q, f, j) /\ Closed(f, Orbit(Q, f, j)) /\ j \in Orbit(Q, f, j)
    BY OrbitClosed DEF Closed
  <2>2. Orbit(Q, f, f[j]) \subseteq Orbit(Q, f, j)
    BY <2>1, OrbitClosed, OrbitLeast
  <2>3. e[f[j]] \in Orbit(Q, f, j) /\ f[e[f[j]]] = e[f[j]]
    BY <1>1, <2>1, <2>2
  <2>4. e[j] = e[f[j]]
    BY <2>3, <1>2
  <2>5. f[j] = j => e[j] = j
    BY <2>1, <1>2
  <2> QED
    BY <2>4, <2>5
<1>4. e = [j \in Q |-> e[j]]
  OBVIOUS
<1> HIDE DEF e
<1>5. e = [j \in Q |-> IF f[j] = j THEN j ELSE e[f[j]]]
  BY <1>3, <1>4
<1>6. \E g : g = [j \in Q |-> IF f[j] = j THEN j ELSE g[f[j]]]
  BY <1>5
<1> QED
  BY <1>6 DEF EndOf

LEMMA EndStep ==
    ASSUME NEW Q, NEW f \in [Q -> Q], NoCircle(Q, f), NEW j \in Q
    PROVE  EndOf(Q, f)[j] = IF f[j] = j THEN j ELSE EndOf(Q, f)[f[j]]
<1> DEFINE e == EndOf(Q, f)
<1>1. e = [k \in Q |-> IF f[k] = k THEN k ELSE e[f[k]]]
  BY EndExists
<1> HIDE DEF e
<1>2. e[j] = IF f[j] = j THEN j ELSE e[f[j]]
  BY <1>1
<1> QED
  BY <1>2 DEF e

(* Redirects end at an item that has none. *)
LEMMA EndIsActive ==
    ASSUME NEW Q, NEW f \in [Q -> Q], NoCircle(Q, f), NEW i \in Q
    PROVE  EndOf(Q, f)[i] \in Q /\ f[EndOf(Q, f)[i]] = EndOf(Q, f)[i]
<1> DEFINE D == {j \in Q : ~(EndOf(Q, f)[j] \in Q /\ f[EndOf(Q, f)[j]] = EndOf(Q, f)[j])}
<1>1. ASSUME NEW j \in D
      PROVE  f[j] # j /\ f[j] \in D
  <2>1. EndOf(Q, f)[j] = IF f[j] = j THEN j ELSE EndOf(Q, f)[f[j]]
    BY EndStep
  <2>2. f[j] \in Q
    OBVIOUS
  <2> QED
    BY <2>1, <2>2
<1>2. D = {}
  BY <1>1 DEF NoCircle, Closed
<1> QED
  BY <1>2

(* What a merge does to redirects: no circle, and one end for another. *)
LEMMA MergedEnds ==
    ASSUME NEW Q, NEW f \in [Q -> Q], NoCircle(Q, f),
           NEW a \in Q, NEW b \in Q, a # b, f[a] = a, f[b] = b,
           NEW g \in [Q -> Q], g[a] = b, \A k \in Q \ {a} : g[k] = f[k]
    PROVE  /\ NoCircle(Q, g)
           /\ \A i \in Q : EndOf(Q, g)[i] = IF EndOf(Q, f)[i] = a THEN b ELSE EndOf(Q, f)[i]
<1>1. NoCircle(Q, g)
  <2> SUFFICES ASSUME NEW C \in (SUBSET Q) \ {{}}, Closed(g, C)
               PROVE  \E i \in C : g[i] = i
    BY DEF NoCircle
  <2>1. CASE a \in C
    BY <2>1 DEF Closed
  <2>2. CASE a \notin C
    <3>1. Closed(f, C)
      BY <2>2 DEF Closed
    <3> QED
      BY <2>2, <3>1 DEF NoCircle
  <2> QED
    BY <2>1, <2>2
<1> DEFINE D == {j \in Q : EndOf(Q, g)[j] # IF EndOf(Q, f)[j] = a THEN b ELSE EndOf(Q, f)[j]}
<1>2. ASSUME NEW j \in D
      PROVE  f[j] # j /\ f[j] \in D
  <2>1. EndOf(Q, f)[j] = IF f[j] = j THEN j ELSE EndOf(Q, f)[f[j]]
    BY EndStep
  <2>2. EndOf(Q, g)[j] = IF g[j] = j THEN j ELSE EndOf(Q, g)[g[j]]
    BY <1>1, EndStep
  <2>3. EndOf(Q, g)[b] = b
    BY <1>1, EndStep
  <2>4. f[j] \in Q /\ g[j] = IF j = a THEN b ELSE f[j]
    OBVIOUS
  <2>5. j # a
    BY <2>1, <2>2, <2>3, <2>4
  <2> QED
    BY <2>1, <2>2, <2>4, <2>5
<1>3. D = {}
  BY <1>2 DEF NoCircle, Closed
<1> QED
  BY <1>1, <1>3

-----------------------------------------------------------------------------
(* A recursion over the numbers up to a last one. *)
Steps(g, L, V, base, F) ==
    /\ g \in [0..L -> V]
    /\ \A n \in 0..L : g[n] = IF n = 0 THEN base ELSE F[<<g[n - 1], n>>]

(* It has a solution. *)
LEMMA StepsExist ==
    ASSUME NEW L \in Nat, NEW V, NEW base \in V, NEW F \in [V \X (1..L) -> V]
    PROVE  \E g : Steps(g, L, V, base, F)
<1> DEFINE Upto(g, m) ==
              /\ g \in [0..m -> V]
              /\ \A n \in 0..m : g[n] = IF n = 0 THEN base ELSE F[<<g[n - 1], n>>]
           S == {m \in Nat : m <= L => \E g : Upto(g, m)}
<1>1. 0 \in S
  <2>1. Upto([n \in 0..0 |-> base], 0)
    OBVIOUS
  <2> HIDE DEF Upto
  <2> QED
    BY <2>1
<1>2. ASSUME NEW m \in Nat, m \in S
      PROVE  m + 1 \in S
  <2> SUFFICES ASSUME m + 1 <= L PROVE \E g : Upto(g, m + 1)
    OBVIOUS
  <2>1. \E g : Upto(g, m)
    <3> HIDE DEF Upto
    <3> QED
      BY <1>2
  <2>2. PICK g : Upto(g, m)
    BY <2>1
  <2>3. m + 1 \in 1..L /\ m \in 0..m
    OBVIOUS
  <2>4. F[<<g[m], m + 1>>] \in V
    BY <2>2, <2>3
  <2>5. PICK y \in V : y = F[<<g[m], m + 1>>]
    BY <2>4
  <2>6. PICK h : h = [n \in 0..(m + 1) |-> IF n = m + 1 THEN y ELSE g[n]]
    OBVIOUS
  <2>7. h[m + 1] = y /\ \A n \in 0..m : h[n] = g[n]
    BY <2>6
  <2>8. h \in [0..(m + 1) -> V]
    BY <2>2, <2>5, <2>6
  <2>9. ASSUME NEW n \in 0..(m + 1)
        PROVE  h[n] = IF n = 0 THEN base ELSE F[<<h[n - 1], n>>]
    <3>1. CASE n = m + 1
      <4>1. n # 0 /\ n - 1 = m
        BY <3>1
      <4>2. h[n - 1] = g[m]
        BY <2>3, <2>7, <4>1
      <4> QED
        BY <2>5, <2>7, <3>1, <4>1, <4>2
    <3>2. CASE n # m + 1
      <4>1. n \in 0..m
        BY <3>2
      <4>2. h[n] = g[n] /\ g[n] = IF n = 0 THEN base ELSE F[<<g[n - 1], n>>]
        BY <2>2, <2>7, <4>1
      <4>3. n # 0 => n - 1 \in 0..m
        BY <4>1
      <4>4. n # 0 => h[n - 1] = g[n - 1]
        BY <2>7, <4>3
      <4> QED
        BY <4>2, <4>4
    <3> QED
      BY <3>1, <3>2
  <2> QED
    BY <2>8, <2>9
<1> HIDE DEF S
<1>3. Nat \subseteq S
  BY <1>1, <1>2, Induction
<1> QED
  BY <1>3 DEF S, Steps

-----------------------------------------------------------------------------
(* Sums of sums, multiples and bounds.                                      *)

LEMMA Distributes ==
  ASSUME NEW a \in Int, NEW b \in Int, NEW p \in Int, NEW q \in Int, NEW r \in Int, NEW s \in Int
  PROVE  (a * p + b * q) + (a * r + b * s) = a * (p + r) + b * (q + s)
OBVIOUS

(* The sum of a linear combination.                                         *)
Combines(h, a, f, b, g, S) == \A x \in S : h[x] = a * f[x] + b * g[x]

LEMMA TotalLinear ==
  ASSUME NEW D, IsFiniteSet(D), NEW f \in [D -> Int], NEW g \in [D -> Int], NEW h \in [D -> Int],
         NEW a \in Int, NEW b \in Int, NEW S \in SUBSET D, Combines(h, a, f, b, g, S)
  PROVE  Total(h, S) = a * Total(f, S) + b * Total(g, S)
<1> DEFINE T == {R \in SUBSET S : Total(h, R) = a * Total(f, R) + b * Total(g, R)}
<1>1. ASSUME NEW R \in SUBSET S, \A x \in R : R \ {x} \in T
      PROVE  R \in T
  <2>1. CASE R = {}
    <3>1. Total(f, R) = 0 /\ Total(g, R) = 0 /\ Total(h, R) = 0
      BY <2>1, TotalOfChosen
    <3>2. a * 0 + b * 0 = 0
      OBVIOUS
    <3> QED
      BY <3>1, <3>2
  <2>2. CASE R # {}
    <3>1. PICK x \in R : TRUE
      BY <2>2
    <3>2. /\ Total(f, R) = f[x] + Total(f, R \ {x})
          /\ Total(g, R) = g[x] + Total(g, R \ {x})
          /\ Total(h, R) = h[x] + Total(h, R \ {x})
      BY TotalWithout
    <3>3. Total(f, R \ {x}) \in Int /\ Total(g, R \ {x}) \in Int /\ f[x] \in Int /\ g[x] \in Int
      BY TotalIsInteger
    <3>4. h[x] = a * f[x] + b * g[x]
      BY DEF Combines
    <3>5. Total(h, R \ {x}) = a * Total(f, R \ {x}) + b * Total(g, R \ {x})
      BY <1>1
    <3>6. (a * f[x] + b * g[x]) + (a * Total(f, R \ {x}) + b * Total(g, R \ {x}))
            = a * (f[x] + Total(f, R \ {x})) + b * (g[x] + Total(g, R \ {x}))
      BY <3>3, Distributes
    <3>7. Total(h, R) = a * Total(f, R) + b * Total(g, R)
      BY ONLY <3>2, <3>4, <3>5, <3>6
    <3> QED
      BY <3>7
  <2> QED
    BY <2>1, <2>2
<1>2. IsFiniteSet(S)
  BY FS_Subset
<1> HIDE DEF T
<1>3. \A C : (\A s \in SUBSET S : (\A x \in s : s \ {x} \in C) => s \in C) => SUBSET S \subseteq C
  BY ONLY <1>2, FiniteSetInduction
<1>4. SUBSET S \subseteq T
  BY <1>1, <1>3, Zenon
<1> QED
  BY <1>4 DEF T

LEMMA TotalAtMost ==
  ASSUME NEW D, IsFiniteSet(D), NEW f \in [D -> Int], NEW g \in [D -> Int],
         NEW S \in SUBSET D, \A x \in S : f[x] <= g[x]
  PROVE  Total(f, S) <= Total(g, S)
<1> DEFINE T == {R \in SUBSET S : Total(f, R) <= Total(g, R)}
<1>1. ASSUME NEW R \in SUBSET S, \A x \in R : R \ {x} \in T
      PROVE  R \in T
  <2>1. CASE R = {}
    <3>1. Total(f, R) = 0 /\ Total(g, R) = 0
      BY <2>1, TotalOfChosen
    <3> QED
      BY <3>1
  <2>2. CASE R # {}
    <3>1. PICK x \in R : TRUE
      BY <2>2
    <3>2. Total(f, R) = f[x] + Total(f, R \ {x}) /\ Total(g, R) = g[x] + Total(g, R \ {x})
      BY TotalWithout
    <3>3. Total(f, R \ {x}) \in Int /\ Total(g, R \ {x}) \in Int /\ f[x] \in Int /\ g[x] \in Int
          /\ f[x] <= g[x]
      BY TotalIsInteger
    <3>4. Total(f, R \ {x}) <= Total(g, R \ {x})
      BY <1>1
    <3>5. Total(f, R) <= Total(g, R)
      BY ONLY <3>2, <3>3, <3>4
    <3> QED
      BY <3>5
  <2> QED
    BY <2>1, <2>2
<1>2. IsFiniteSet(S)
  BY FS_Subset
<1> HIDE DEF T
<1>3. \A C : (\A s \in SUBSET S : (\A x \in s : s \ {x} \in C) => s \in C) => SUBSET S \subseteq C
  BY ONLY <1>2, FiniteSetInduction
<1>4. SUBSET S \subseteq T
  BY <1>1, <1>3, Zenon
<1> QED
  BY <1>4 DEF T

(* A sum of equal rows.                                                     *)
LEMMA TotalConstant ==
  ASSUME NEW D, IsFiniteSet(D), NEW f \in [D -> Int], NEW c \in Int,
         NEW S \in SUBSET D, \A x \in S : f[x] = c
  PROVE  Total(f, S) = c * Cardinality(S)
<1> DEFINE size(R) == Cardinality(R)
           T == {R \in SUBSET S : Total(f, R) = c * size(R)}
<1>2. IsFiniteSet(S)
  BY FS_Subset
<1>5. \A R \in SUBSET S : IsFiniteSet(R) /\ size(R) \in Nat /\ (R = {} => size(R) = 0)
                         /\ \A x \in R : size(R) = size(R \ {x}) + 1
  <2> SUFFICES ASSUME NEW R \in SUBSET S
               PROVE  IsFiniteSet(R) /\ size(R) \in Nat /\ (R = {} => size(R) = 0)
                      /\ \A x \in R : size(R) = size(R \ {x}) + 1
    OBVIOUS
  <2>1. IsFiniteSet(R)
    BY <1>2, FS_Subset
  <2>2. size(R) \in Nat /\ (R = {} => size(R) = 0)
    BY <2>1, FS_CardinalityType, FS_EmptySet
  <2>3. \A x \in R : size(R \ {x}) = size(R) - 1
    BY <2>1, FS_RemoveElement
  <2> HIDE DEF size
  <2> QED
    BY <2>1, <2>2, <2>3
<1> HIDE DEF size
<1>1. ASSUME NEW R \in SUBSET S, \A x \in R : R \ {x} \in T
      PROVE  R \in T
  <2>1. CASE R = {}
    <3>1. Total(f, R) = 0 /\ size(R) = 0
      BY <1>5, <2>1, TotalOfChosen
    <3>2. c * 0 = 0
      OBVIOUS
    <3> QED
      BY <3>1, <3>2
  <2>2. CASE R # {}
    <3>1. PICK x \in R : TRUE
      BY <2>2
    <3>2. Total(f, R) = f[x] + Total(f, R \ {x}) /\ f[x] = c
      BY TotalWithout
    <3>3. Total(f, R \ {x}) = c * size(R \ {x})
      BY <1>1
    <3>4. size(R) = size(R \ {x}) + 1 /\ size(R \ {x}) \in Nat
      BY <1>5
    <3>5. c + c * size(R \ {x}) = c * (size(R \ {x}) + 1)
      BY <3>4
    <3>6. Total(f, R) = c * size(R)
      BY ONLY <3>2, <3>3, <3>4, <3>5
    <3> QED
      BY <3>6
  <2> QED
    BY <2>1, <2>2
<1> HIDE DEF T
<1>3. \A C : (\A s \in SUBSET S : (\A x \in s : s \ {x} \in C) => s \in C) => SUBSET S \subseteq C
  BY ONLY <1>2, FiniteSetInduction
<1>4. SUBSET S \subseteq T
  BY <1>1, <1>3, Zenon
<1> QED
  BY <1>4 DEF T, size

LEMMA TotalPositive ==
  ASSUME NEW D, IsFiniteSet(D), NEW f \in [D -> Nat], NEW S \in SUBSET D,
         NEW x \in S, f[x] > 0
  PROVE  Total(f, S) > 0
<1>1. f \in [D -> Int]
  OBVIOUS
<1>2. Total(f, S) = f[x] + Total(f, S \ {x})
  BY <1>1, TotalWithout
<1>3. Total(f, S \ {x}) \in Nat /\ f[x] \in Nat
  BY TotalIsNatural
<1> QED
  BY <1>2, <1>3

(* What is summed class by class is summed once.                            *)
ByClass(f, S, class, C) == [c \in C |-> Total(f, {x \in S : class[x] = c})]

LEMMA TotalByClass ==
  ASSUME NEW D, IsFiniteSet(D), NEW f \in [D -> Int], NEW C, IsFiniteSet(C),
         NEW class, NEW S \in SUBSET D, \A x \in S : class[x] \in C
  PROVE  Total(f, S) = Total(ByClass(f, S, class, C), C)
<1> DEFINE T == {R \in SUBSET S : Total(f, R) = Total(ByClass(f, R, class, C), C)}
<1>5. ASSUME NEW R \in SUBSET S
      PROVE  ByClass(f, R, class, C) \in [C -> Int]
  <2>1. \A c \in C : {x \in R : class[x] = c} \in SUBSET D
    OBVIOUS
  <2>2. \A c \in C : Total(f, {x \in R : class[x] = c}) \in Int
    BY <2>1, TotalIsInteger
  <2> QED
    BY <2>2 DEF ByClass
<1>1. ASSUME NEW R \in SUBSET S, \A x \in R : R \ {x} \in T
      PROVE  R \in T
  <2> DEFINE b == ByClass(f, R, class, C)
  <2>0. b \in [C -> Int] /\ \A c \in C : b[c] = Total(f, {x \in R : class[x] = c})
    BY <1>5 DEF ByClass
  <2>1. CASE R = {}
    <3>1. Total(f, R) = 0
      BY <2>1, TotalOfChosen
    <3>2. \A c \in C : {x \in R : class[x] = c} = {}
      BY <2>1
    <3>3. Total(f, {}) = 0
      BY <2>1, <3>1
    <3>4. \A c \in C : b[c] = 0
      BY <2>0, <3>2, <3>3, Zenon
    <3> HIDE DEF b
    <3>5. Total(b, C) = 0 * Cardinality(C)
      BY <2>0, <3>4, TotalConstant
    <3>6. Cardinality(C) \in Nat
      BY FS_CardinalityType
    <3>7. Total(b, C) = 0
      BY <3>5, <3>6
    <3> QED
      BY <3>1, <3>7 DEF b
  <2>2. CASE R # {}
    <3>1. PICK x \in R : TRUE
      BY <2>2
    <3> DEFINE Q == R \ {x}
               d == ByClass(f, Q, class, C)
    <3>2. Q \in SUBSET S /\ Q \in SUBSET D /\ class[x] \in C /\ Q \in T
      BY <1>1
    <3>3. d \in [C -> Int] /\ \A c \in C : d[c] = Total(f, {y \in Q : class[y] = c})
      BY <1>5, <3>2 DEF ByClass
    <3>4. \A c \in C \ {class[x]} : {y \in Q : class[y] = c} = {y \in R : class[y] = c}
      OBVIOUS
    <3>5. \A c \in C \ {class[x]} : d[c] = b[c]
      <4> HIDE DEF b, d, Q
      <4> QED
        BY <2>0, <3>3, <3>4
    <3>6. b[class[x]] = f[x] + d[class[x]]
      <4>1. PICK E : E = {y \in R : class[y] = class[x]}
        OBVIOUS
      <4>2. E \in SUBSET D /\ x \in E /\ E \ {x} = {y \in Q : class[y] = class[x]}
        BY <4>1
      <4>3. Total(f, E) = f[x] + Total(f, E \ {x})
        BY <4>2, TotalWithout
      <4> HIDE DEF b, d, Q
      <4> QED
        BY <2>0, <3>2, <3>3, <4>1, <4>2, <4>3
    <3>7. Total(f, R) = f[x] + Total(f, Q)
      BY TotalWithout
    <3>8. Total(f, Q) = Total(d, C)
      BY <3>2
    <3> HIDE DEF b, d, Q
    <3>9. Total(b, C) + d[class[x]] = Total(d, C) + b[class[x]]
      BY <2>0, <3>2, <3>3, <3>5, TotalChanged
    <3>10. Total(b, C) \in Int /\ Total(d, C) \in Int /\ f[x] \in Int /\ d[class[x]] \in Int
      BY <2>0, <3>2, <3>3, TotalIsInteger
    <3>11. Total(f, R) = Total(b, C)
      BY ONLY <3>6, <3>7, <3>8, <3>9, <3>10
    <3> QED
      BY <3>11 DEF b
  <2> QED
    BY <2>1, <2>2
<1>2. IsFiniteSet(S)
  BY FS_Subset
<1> HIDE DEF T
<1>3. \A B : (\A s \in SUBSET S : (\A x \in s : s \ {x} \in B) => s \in B) => SUBSET S \subseteq B
  BY ONLY <1>2, FiniteSetInduction
<1>4. SUBSET S \subseteq T
  BY <1>1, <1>3, Zenon
<1> QED
  BY <1>4 DEF T

(* A comparison of multiples, row by row, is one of their sums.             *)
LEMMA MultiplesAtMost ==
  ASSUME NEW D, IsFiniteSet(D), NEW f \in [D -> Int], NEW g \in [D -> Int],
         NEW a \in Int, NEW b \in Int, \A x \in D : a * f[x] <= b * g[x]
  PROVE  a * Total(f, D) <= b * Total(g, D)
<1>1. PICK z \in Int : z = 0
  OBVIOUS
<1> DEFINE h == [x \in D |-> a * f[x]]
           k == [x \in D |-> b * g[x]]
<1>2. h \in [D -> Int] /\ k \in [D -> Int] /\ D \in SUBSET D
  OBVIOUS
<1>3. \A x \in D : h[x] <= k[x]
  OBVIOUS
<1>4. \A u \in Int : z * u = 0 /\ u + 0 = u
  BY <1>1
<1>5. Combines(h, a, f, z, f, D) /\ Combines(k, b, g, z, g, D)
  BY <1>1, <1>4 DEF Combines
<1> HIDE DEF h, k
<1>6. Total(h, D) = a * Total(f, D) + z * Total(f, D)
  BY <1>2, <1>5, TotalLinear
<1>7. Total(k, D) = b * Total(g, D) + z * Total(g, D)
  BY <1>2, <1>5, TotalLinear
<1>8. Total(h, D) <= Total(k, D)
  BY <1>2, <1>3, TotalAtMost
<1>9. Total(f, D) \in Int /\ Total(g, D) \in Int
  BY <1>2, TotalIsInteger
<1>10. a * Total(f, D) \in Int /\ b * Total(g, D) \in Int
  BY <1>9
<1> QED
  BY <1>4, <1>6, <1>7, <1>8, <1>9, <1>10
=============================================================================
