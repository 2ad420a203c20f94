----------------------------- MODULE Sums_proofs -----------------------------
(* What the other proofs use about data: induction over numbers and over the   *)
(* subsets of a finite set, without operators as parameters; and sums over     *)
(* finite sets, as Functions defines them by choosing one element after        *)
(* another: the order is of no matter, so sums can be split, added, scaled,    *)
(* grouped and exchanged.                                                      *)
EXTENDS Functions, FiniteSetTheorems, TLAPS

(* A set of numbers has a least, one of numbers up to n a greatest.            *)
LEMMA Least == ASSUME NEW T, T \subseteq Nat, T # {} PROVE \E x \in T : \A y \in T : x <= y
<1> DEFINE R == OpToRel(<, Nat)
<1>1. IsWellFoundedOn(R, Nat)
  BY NatLessThanWellFounded
<1>2. \A x, y \in Nat : <<y, x>> \in R <=> y < x
  BY DEF OpToRel
<1> HIDE DEF R
<1>3. PICK x \in T : \A y \in T : ~ (<<y, x>> \in R)
  BY <1>1, WFMin, Zenon
<1>4. ASSUME NEW y \in T PROVE x <= y
  <2>1. x \in Nat /\ y \in Nat /\ ~ (<<y, x>> \in R)
    BY <1>3
  <2>2. ~ (y < x)
    BY <1>2, <2>1
  <2> QED BY <2>1, <2>2
<1> QED BY <1>4

LEMMA Greatest ==
  ASSUME NEW n \in Nat, NEW T, T \subseteq 0..n, T # {}
  PROVE  \E x \in T : \A y \in T : y <= x
<1> DEFINE left == {n - t : t \in T}
<1>1. left \subseteq Nat /\ left # {}
  <2>1. \A t \in T : n - t \in Nat
    OBVIOUS
  <2> QED BY <2>1
<1>2. PICK d \in left : \A e \in left : d <= e
  <2> HIDE DEF left
  <2> QED BY <1>1, Least
<1>3. PICK x \in T : d = n - x
  OBVIOUS
<1>4. \A y \in T : n - x <= n - y
  BY <1>2, <1>3
<1> QED BY <1>4

(* Induction over the numbers: apply with S == {n \in Nat : P(n)}.              *)
LEMMA Induction ==
    ASSUME NEW S, 0 \in S, \A n \in S \cap Nat : n + 1 \in S
    PROVE  Nat \subseteq S
<1>1. SUFFICES ASSUME Nat \ S # {} PROVE FALSE
  OBVIOUS
<1>2. PICK x \in Nat \ S : \A y \in Nat \ S : x <= y
  <2>1. Nat \ S \subseteq Nat
    OBVIOUS
  <2> QED BY <1>1, <2>1, Least, Zenon
<1>3. x \in Nat /\ x # 0 
  BY <1>2
<1>4. x - 1 \in Nat /\ x - 1 < x
  BY <1>3
<1>5. x - 1 \in S
  BY <1>2, <1>4
<1>6. (x - 1) + 1 \in S
  BY <1>4, <1>5
<1> QED
  BY <1>2, <1>3, <1>6

(* Induction over the subsets of a finite set.                                 *)
LEMMA SubsetInduction ==
  ASSUME NEW S, IsFiniteSet(S), NEW G,
         \A T \in SUBSET S : (\A U \in (SUBSET T) \ {T} : U \in G) => T \in G
  PROVE  S \in G
<1> DEFINE R == StrictSubsetOrdering(S)
           bad == (SUBSET S) \ G
<1>1. FiniteSubsetsOf(S) = SUBSET S
  BY FS_FiniteSubsetsOfFinite
<1>2. IsWellFoundedOn(R, SUBSET S)
  BY <1>1, FS_StrictSubsetOrderingWellFounded
<1>3. \A U, T \in SUBSET S : <<U, T>> \in R <=> U \in (SUBSET T) \ {T}
  BY DEF StrictSubsetOrdering
<1> SUFFICES ASSUME S \notin G PROVE FALSE
  OBVIOUS
<1>4. bad \subseteq SUBSET S /\ bad # {}
  OBVIOUS
<1> HIDE DEF R, bad
<1>5. PICK T \in bad : \A U \in bad : ~ (<<U, T>> \in R)
  BY <1>2, <1>4, WFMin
<1>6. \A U \in (SUBSET T) \ {T} : U \in G
  BY <1>3, <1>4, <1>5 DEF bad
<1> QED BY <1>4, <1>5, <1>6 DEF bad

(* As many values as arguments, at most.                                       *)
LEMMA ImageFinite ==
  ASSUME NEW S, IsFiniteSet(S), NEW f
  PROVE  IsFiniteSet({f[x] : x \in S})
<1> DEFINE T == {f[x] : x \in S}
           h == [x \in S |-> f[x]]
<1>1. h \in Surjection(S, T)
  BY DEF Surjection
<1> HIDE DEF h, T
<1>2. IsFiniteSet(T)
  BY <1>1, FS_Surjection
<1> QED BY <1>2 DEF T

(* What SumFunctionOnSet chooses: sums over every subset, each the value of an *)
(* element and the sum of the others.                                          *)
Chosen(s) == CHOOSE x \in s : TRUE
Totals(g, f, S) ==
  g = [s \in SUBSET S |-> IF s = {} THEN 0 ELSE f[Chosen(s)] + g[s \ {Chosen(s)}]]

LEMMA SumChosen ==
  ASSUME NEW f, NEW S
  PROVE  SumFunctionOnSet(f, S) = (CHOOSE g : Totals(g, f, S))[S]
<1> QED BY Zenon DEF SumFunctionOnSet, FoldFunctionOnSet, MapThenFoldSet, Totals, Chosen

LEMMA TotalsAt ==
  ASSUME NEW f, NEW S, NEW g, Totals(g, f, S), NEW s \in SUBSET S
  PROVE  g[s] = IF s = {} THEN 0 ELSE f[Chosen(s)] + g[s \ {Chosen(s)}]
<1> QED BY DEF Totals

LEMMA ChosenIn == ASSUME NEW s, s # {} PROVE Chosen(s) \in s
<1> QED BY DEF Chosen

(* There is one such function.                                                 *)
LEMMA TotalsAgree ==
  ASSUME NEW f, NEW S, NEW T, NEW g, NEW h, Totals(g, f, S), Totals(h, f, T),
         NEW s, s \subseteq S, s \subseteq T, IsFiniteSet(s)
  PROVE  g[s] = h[s]
<1> DEFINE G == {t \in SUBSET s : g[t] = h[t]}
<1>1. ASSUME NEW t \in SUBSET s, \A U \in (SUBSET t) \ {t} : U \in G PROVE t \in G
  <2>0. t \in SUBSET S /\ t \in SUBSET T
    OBVIOUS
  <2>1. g[t] = IF t = {} THEN 0 ELSE f[Chosen(t)] + g[t \ {Chosen(t)}]
    BY <2>0, TotalsAt
  <2>5. h[t] = IF t = {} THEN 0 ELSE f[Chosen(t)] + h[t \ {Chosen(t)}]
    BY <2>0 DEF Totals
  <2>2. t # {} => t \ {Chosen(t)} \in (SUBSET t) \ {t}
    BY ChosenIn
  <2>3. t # {} => g[t \ {Chosen(t)}] = h[t \ {Chosen(t)}]
    BY <1>1, <2>2
  <2>4. g[t] = h[t]
    BY <2>1, <2>3, <2>5
  <2> QED BY <2>4
<1> HIDE DEF G
<1>2. s \in G
  BY <1>1, SubsetInduction
<1> QED BY <1>2 DEF G

LEMMA TotalsExist ==
  ASSUME NEW f, NEW S, IsFiniteSet(S)
  PROVE  \E g : Totals(g, f, S)
<1> DEFINE G == {T \in SUBSET S : \E g : Totals(g, f, T)}
<1>1. ASSUME NEW T \in SUBSET S, \A U \in (SUBSET T) \ {T} : U \in G PROVE T \in G
  <2> DEFINE of(U) == CHOOSE g : Totals(g, f, U)
             whole == IF T = {} THEN 0 ELSE f[Chosen(T)] + of(T \ {Chosen(T)})[T \ {Chosen(T)}]
             g == [s \in SUBSET T |-> IF s = T THEN whole ELSE of(s)[s]]
  <2>1. \A U \in (SUBSET T) \ {T} : Totals(of(U), f, U)
    BY <1>1
  <2> HIDE DEF of
  <2>2. \A U \in SUBSET T : IsFiniteSet(U)
    BY FS_Subset
  <2>3. ASSUME NEW s \in SUBSET T
        PROVE  g[s] = IF s = {} THEN 0 ELSE f[Chosen(s)] + g[s \ {Chosen(s)}]
    <3>1. s # {} => Chosen(s) \in s /\ s \ {Chosen(s)} \in (SUBSET s) \ {s} /\ s \ {Chosen(s)} # T
      BY ChosenIn
    <3>2. CASE s = T
      BY <3>1, <3>2
    <3>3. CASE s # T
      <4>1. g[s] = of(s)[s] /\ Totals(of(s), f, s)
        BY <2>1, <3>3
      <4>2. of(s)[s] = IF s = {} THEN 0 ELSE f[Chosen(s)] + of(s)[s \ {Chosen(s)}]
        BY <4>1, TotalsAt
      <4>3. ASSUME s # {} PROVE of(s)[s \ {Chosen(s)}] = g[s \ {Chosen(s)}]
        <5> DEFINE r == s \ {Chosen(s)}
        <5>1. r \in (SUBSET T) \ {T} /\ r \subseteq s /\ r \subseteq r /\ IsFiniteSet(r)
          BY <2>2, <3>1, <4>3
        <5>2. g[r] = of(r)[r] /\ Totals(of(r), f, r)
          BY <2>1, <5>1
        <5> HIDE DEF r, g
        <5>3. of(s)[r] = of(r)[r]
          BY <4>1, <5>1, <5>2, TotalsAgree
        <5> QED BY <5>2, <5>3 DEF r
      <4> HIDE DEF g
      <4> QED BY <4>1, <4>2, <4>3
    <3> QED BY <3>2, <3>3
  <2>4. g = [s \in SUBSET T |-> g[s]]
    OBVIOUS
  <2> HIDE DEF g
  <2>5. Totals(g, f, T)
    BY <2>3, <2>4 DEF Totals
  <2> QED BY <2>5
<1> HIDE DEF G
<1>2. S \in G
  BY <1>1, SubsetInduction
<1> QED BY <1>2 DEF G

(* A sum over a finite set: of nothing, and of an element and the others.      *)
LEMMA SumOfChosen ==
  ASSUME NEW f, NEW S, IsFiniteSet(S), S # {}
  PROVE  SumFunctionOnSet(f, S) = f[Chosen(S)] + SumFunctionOnSet(f, S \ {Chosen(S)})
<1> DEFINE g == CHOOSE g : Totals(g, f, S)
           T == S \ {Chosen(S)}
           h == CHOOSE h : Totals(h, f, T)
<1>1. Chosen(S) \in S /\ IsFiniteSet(T) /\ T \subseteq S
  BY ChosenIn, FS_RemoveElement
<1>2. Totals(g, f, S)
  BY TotalsExist
<1> HIDE DEF T
<1>3. Totals(h, f, T)
  BY <1>1, TotalsExist
<1>4. SumFunctionOnSet(f, S) = g[S] /\ SumFunctionOnSet(f, T) = h[T]
  BY SumChosen
<1> HIDE DEF g, h
<1>5. g[T] = h[T]
  BY <1>1, <1>2, <1>3, TotalsAgree
<1>6. g[S] = f[Chosen(S)] + g[T]
  BY <1>2, TotalsAt DEF T
<1> QED BY <1>4, <1>5, <1>6 DEF T

LEMMA SumNothing == ASSUME NEW f PROVE SumFunctionOnSet(f, {}) = 0
<1> PICK S : S = {}
  OBVIOUS
<1> DEFINE g == CHOOSE g : Totals(g, f, S)
<1>1. Totals(g, f, S)
  BY FS_EmptySet, TotalsExist
<1>2. SumFunctionOnSet(f, S) = g[S]
  BY SumChosen
<1> HIDE DEF g
<1>3. g[S] = 0
  BY <1>1, TotalsAt
<1> QED BY <1>2, <1>3

----------------------------------------------------------------------------
(* Equal terms have equal sums, and sums of integers are integers.             *)
LEMMA SumSame ==
  ASSUME NEW f, NEW h, NEW S, IsFiniteSet(S), \A x \in S : f[x] = h[x]
  PROVE  SumFunctionOnSet(f, S) = SumFunctionOnSet(h, S)
<1> DEFINE G == {T \in SUBSET S : SumFunctionOnSet(f, T) = SumFunctionOnSet(h, T)}
<1>1. ASSUME NEW T \in SUBSET S, \A U \in (SUBSET T) \ {T} : U \in G PROVE T \in G
  <2>1. CASE T = {}
    BY <2>1, SumNothing
  <2>2. CASE T # {}
    <3>1. Chosen(T) \in T /\ T \ {Chosen(T)} \in (SUBSET T) \ {T} /\ IsFiniteSet(T)
      BY <2>2, ChosenIn, FS_Subset
    <3>2. SumFunctionOnSet(f, T \ {Chosen(T)}) = SumFunctionOnSet(h, T \ {Chosen(T)})
      BY <1>1, <3>1
    <3>3. /\ SumFunctionOnSet(f, T) = f[Chosen(T)] + SumFunctionOnSet(f, T \ {Chosen(T)})
          /\ SumFunctionOnSet(h, T) = h[Chosen(T)] + SumFunctionOnSet(h, T \ {Chosen(T)})
      BY <2>2, <3>1, SumOfChosen
    <3> QED BY <3>1, <3>2, <3>3
  <2> QED BY <2>1, <2>2
<1> HIDE DEF G
<1>2. S \in G
  BY <1>1, SubsetInduction
<1> QED BY <1>2 DEF G

LEMMA SumType ==
  ASSUME NEW f, NEW S, IsFiniteSet(S), \A x \in S : f[x] \in Int
  PROVE  SumFunctionOnSet(f, S) \in Int
<1> DEFINE G == {T \in SUBSET S : SumFunctionOnSet(f, T) \in Int}
<1>1. ASSUME NEW T \in SUBSET S, \A U \in (SUBSET T) \ {T} : U \in G PROVE T \in G
  <2>1. CASE T = {}
    BY <2>1, SumNothing
  <2>2. CASE T # {}
    <3>1. Chosen(T) \in T /\ T \ {Chosen(T)} \in (SUBSET T) \ {T} /\ IsFiniteSet(T)
      BY <2>2, ChosenIn, FS_Subset
    <3>2. SumFunctionOnSet(f, T \ {Chosen(T)}) \in Int
      BY <1>1, <3>1
    <3>3. SumFunctionOnSet(f, T) = f[Chosen(T)] + SumFunctionOnSet(f, T \ {Chosen(T)})
      BY <2>2, <3>1, SumOfChosen
    <3>4. f[Chosen(T)] \in Int
      BY <3>1
    <3>5. SumFunctionOnSet(f, T) \in Int
      <4> HIDE DEF G
      <4> QED BY <3>2, <3>3, <3>4
    <3> QED BY <3>5
  <2> QED BY <2>1, <2>2
<1> HIDE DEF G
<1>2. S \in G
  BY <1>1, SubsetInduction
<1> QED BY <1>2 DEF G

LEMMA SumNat ==
  ASSUME NEW f, NEW S, IsFiniteSet(S), \A x \in S : f[x] \in Nat
  PROVE  SumFunctionOnSet(f, S) \in Nat
<1> DEFINE G == {T \in SUBSET S : SumFunctionOnSet(f, T) \in Nat}
<1>1. ASSUME NEW T \in SUBSET S, \A U \in (SUBSET T) \ {T} : U \in G PROVE T \in G
  <2>1. CASE T = {}
    BY <2>1, SumNothing
  <2>2. CASE T # {}
    <3>1. Chosen(T) \in T /\ T \ {Chosen(T)} \in (SUBSET T) \ {T} /\ IsFiniteSet(T)
      BY <2>2, ChosenIn, FS_Subset
    <3>2. SumFunctionOnSet(f, T \ {Chosen(T)}) \in Nat
      BY <1>1, <3>1
    <3>3. SumFunctionOnSet(f, T) = f[Chosen(T)] + SumFunctionOnSet(f, T \ {Chosen(T)})
      BY <2>2, <3>1, SumOfChosen
    <3>4. f[Chosen(T)] \in Nat
      BY <3>1
    <3>5. SumFunctionOnSet(f, T) \in Nat
      <4> HIDE DEF G
      <4> QED BY <3>2, <3>3, <3>4
    <3> QED BY <3>5
  <2> QED BY <2>1, <2>2
<1> HIDE DEF G
<1>2. S \in G
  BY <1>1, SubsetInduction
<1> QED BY <1>2 DEF G

(* Any element can be taken out first.                                         *)
LEMMA SumRemove ==
  ASSUME NEW f, NEW S, IsFiniteSet(S), \A x \in S : f[x] \in Int, NEW e \in S
  PROVE  SumFunctionOnSet(f, S) = f[e] + SumFunctionOnSet(f, S \ {e})
<1> DEFINE G == {T \in SUBSET S : \A x \in T :
                   SumFunctionOnSet(f, T) = f[x] + SumFunctionOnSet(f, T \ {x})}
<1>0. \A T \in SUBSET S : IsFiniteSet(T) /\ SumFunctionOnSet(f, T) \in Int
  <2> SUFFICES ASSUME NEW T \in SUBSET S
               PROVE  IsFiniteSet(T) /\ SumFunctionOnSet(f, T) \in Int
    OBVIOUS
  <2>1. IsFiniteSet(T)
    BY FS_Subset
  <2> QED BY <2>1, SumType
<1>1. ASSUME NEW T \in SUBSET S, \A U \in (SUBSET T) \ {T} : U \in G PROVE T \in G
  <2> SUFFICES ASSUME NEW x \in T
               PROVE  SumFunctionOnSet(f, T) = f[x] + SumFunctionOnSet(f, T \ {x})
    OBVIOUS
  <2> DEFINE y == Chosen(T)
             rest == T \ {x, y}
  <2>1. y \in T /\ IsFiniteSet(T)
    BY <1>0, ChosenIn
  <2>2. SumFunctionOnSet(f, T) = f[y] + SumFunctionOnSet(f, T \ {y})
    BY <2>1, SumOfChosen
  <2> HIDE DEF y
  <2>3. CASE x = y
    BY <2>2, <2>3
  <2>4. CASE x # y
    <3>1. T \ {y} \in G /\ T \ {x} \in G /\ x \in T \ {y} /\ y \in T \ {x}
      BY <1>1, <2>1, <2>4
    <3>2. (T \ {y}) \ {x} = rest /\ (T \ {x}) \ {y} = rest
      OBVIOUS
    <3>3. SumFunctionOnSet(f, T \ {y}) = f[x] + SumFunctionOnSet(f, rest)
      BY <3>1, <3>2
    <3>4. SumFunctionOnSet(f, T \ {x}) = f[y] + SumFunctionOnSet(f, rest)
      BY <3>1, <3>2
    <3>5. f[x] \in Int /\ f[y] \in Int /\ SumFunctionOnSet(f, rest) \in Int
      BY <1>0, <2>1
    <3> QED BY <2>2, <3>3, <3>4, <3>5
  <2> QED BY <2>3, <2>4
<1> HIDE DEF G
<1>2. S \in G
  BY <1>1, SubsetInduction
<1> QED BY <1>2 DEF G

LEMMA SumTakeTwo ==
  ASSUME NEW f, NEW S, IsFiniteSet(S), \A x \in S : f[x] \in Int, NEW i \in S, NEW j \in S, i # j
  PROVE  /\ SumFunctionOnSet(f, S) = f[i] + (f[j] + SumFunctionOnSet(f, (S \ {i}) \ {j}))
         /\ SumFunctionOnSet(f, (S \ {i}) \ {j}) \in Int
<1> DEFINE E == S \ {i}
           F == E \ {j}
<1>1. IsFiniteSet(E) /\ j \in E /\ \A x \in E : f[x] \in Int
  BY FS_RemoveElement
<1>2. IsFiniteSet(F) /\ \A x \in F : f[x] \in Int
  BY <1>1, FS_RemoveElement
<1>3. SumFunctionOnSet(f, S) = f[i] + SumFunctionOnSet(f, E)
  BY SumRemove
<1> HIDE DEF E
<1>4. SumFunctionOnSet(f, E) = f[j] + SumFunctionOnSet(f, F)
  BY <1>1, SumRemove
<1> HIDE DEF F
<1>5. SumFunctionOnSet(f, F) \in Int
  BY <1>2, SumType
<1> QED BY <1>3, <1>4, <1>5 DEF E, F

LEMMA SumAdd ==
  ASSUME NEW f, NEW S, IsFiniteSet(S), NEW e, e \notin S, \A x \in S \cup {e} : f[x] \in Int
  PROVE  SumFunctionOnSet(f, S \cup {e}) = f[e] + SumFunctionOnSet(f, S)
<1> DEFINE T == S \cup {e}
<1>1. IsFiniteSet(T) /\ e \in T /\ T \ {e} = S /\ \A x \in T : f[x] \in Int
  BY FS_AddElement
<1> HIDE DEF T
<1>2. SumFunctionOnSet(f, T) = f[e] + SumFunctionOnSet(f, T \ {e})
  BY <1>1, SumRemove
<1> QED BY <1>1, <1>2 DEF T

(* The sums of two functions, of multiples of one, and of zeros.               *)
LEMMA SumPlus ==
  ASSUME NEW f, NEW h, NEW g, NEW S, IsFiniteSet(S),
         \A x \in S : f[x] \in Int /\ h[x] \in Int /\ g[x] = f[x] + h[x]
  PROVE  SumFunctionOnSet(g, S) = SumFunctionOnSet(f, S) + SumFunctionOnSet(h, S)
<1> DEFINE G == {T \in SUBSET S : SumFunctionOnSet(g, T) = SumFunctionOnSet(f, T) + SumFunctionOnSet(h, T)}
<1>1. ASSUME NEW T \in SUBSET S, \A U \in (SUBSET T) \ {T} : U \in G PROVE T \in G
  <2>1. CASE T = {}
    <3>1. SumFunctionOnSet(f, T) = 0 /\ SumFunctionOnSet(h, T) = 0 /\ SumFunctionOnSet(g, T) = 0
      BY <2>1, SumNothing
    <3> QED BY <3>1
  <2>2. CASE T # {}
    <3> DEFINE c == Chosen(T)
               R == T \ {c}
    <3>1. c \in T /\ R \in (SUBSET T) \ {T} /\ IsFiniteSet(T) /\ IsFiniteSet(R)
      BY <2>2, ChosenIn, FS_Subset
    <3>2. SumFunctionOnSet(g, R) = SumFunctionOnSet(f, R) + SumFunctionOnSet(h, R)
      BY <1>1, <3>1
    <3>3. /\ SumFunctionOnSet(f, T) = f[c] + SumFunctionOnSet(f, R)
          /\ SumFunctionOnSet(h, T) = h[c] + SumFunctionOnSet(h, R)
          /\ SumFunctionOnSet(g, T) = g[c] + SumFunctionOnSet(g, R)
      BY <2>2, <3>1, SumOfChosen
    <3>4. f[c] \in Int /\ h[c] \in Int /\ g[c] = f[c] + h[c]
      BY <3>1
    <3>5. SumFunctionOnSet(f, R) \in Int /\ SumFunctionOnSet(h, R) \in Int
      BY <3>1, SumType
    <3> HIDE DEF c, R, G
    <3>6. SumFunctionOnSet(g, T) = SumFunctionOnSet(f, T) + SumFunctionOnSet(h, T)
      BY <3>2, <3>3, <3>4, <3>5
    <3> QED BY <3>6 DEF G
  <2> QED BY <2>1, <2>2
<1> HIDE DEF G
<1>2. S \in G
  BY <1>1, SubsetInduction
<1> QED BY <1>2 DEF G

LEMMA SumScale ==
  ASSUME NEW f, NEW g, NEW S, IsFiniteSet(S), NEW k \in Int,
         \A x \in S : f[x] \in Int /\ g[x] = k * f[x]
  PROVE  SumFunctionOnSet(g, S) = k * SumFunctionOnSet(f, S)
<1> DEFINE G == {T \in SUBSET S : SumFunctionOnSet(g, T) = k * SumFunctionOnSet(f, T)}
<1>1. ASSUME NEW T \in SUBSET S, \A U \in (SUBSET T) \ {T} : U \in G PROVE T \in G
  <2>1. CASE T = {}
    <3>1. SumFunctionOnSet(f, T) = 0 /\ SumFunctionOnSet(g, T) = 0
      BY <2>1, SumNothing
    <3> QED BY <3>1
  <2>2. CASE T # {}
    <3> DEFINE c == Chosen(T)
               R == T \ {c}
    <3>1. c \in T /\ R \in (SUBSET T) \ {T} /\ IsFiniteSet(T) /\ IsFiniteSet(R)
      BY <2>2, ChosenIn, FS_Subset
    <3>2. SumFunctionOnSet(g, R) = k * SumFunctionOnSet(f, R)
      BY <1>1, <3>1
    <3>3. /\ SumFunctionOnSet(f, T) = f[c] + SumFunctionOnSet(f, R)
          /\ SumFunctionOnSet(g, T) = g[c] + SumFunctionOnSet(g, R)
      BY <2>2, <3>1, SumOfChosen
    <3>4. f[c] \in Int /\ g[c] = k * f[c]
      BY <3>1
    <3>5. SumFunctionOnSet(f, R) \in Int
      BY <3>1, SumType
    <3> HIDE DEF c, R, G
    <3>7. \A a, b \in Int : k * (a + b) = k * a + k * b
      BY Z3
    <3>6. SumFunctionOnSet(g, T) = k * SumFunctionOnSet(f, T)
      BY <3>2, <3>3, <3>4, <3>5, <3>7
    <3> QED BY <3>6 DEF G
  <2> QED BY <2>1, <2>2
<1> HIDE DEF G
<1>2. S \in G
  BY <1>1, SubsetInduction
<1> QED BY <1>2 DEF G

LEMMA SumZero ==
  ASSUME NEW f, NEW S, IsFiniteSet(S), \A x \in S : f[x] = 0
  PROVE  SumFunctionOnSet(f, S) = 0
<1> DEFINE G == {T \in SUBSET S : SumFunctionOnSet(f, T) = 0}
<1>1. ASSUME NEW T \in SUBSET S, \A U \in (SUBSET T) \ {T} : U \in G PROVE T \in G
  <2>1. CASE T = {}
    BY <2>1, SumNothing
  <2>2. CASE T # {}
    <3>1. Chosen(T) \in T /\ T \ {Chosen(T)} \in (SUBSET T) \ {T} /\ IsFiniteSet(T)
      BY <2>2, ChosenIn, FS_Subset
    <3>2. SumFunctionOnSet(f, T \ {Chosen(T)}) = 0 /\ f[Chosen(T)] = 0
      BY <1>1, <3>1
    <3>3. SumFunctionOnSet(f, T) = f[Chosen(T)] + SumFunctionOnSet(f, T \ {Chosen(T)})
      BY <2>2, <3>1, SumOfChosen
    <3> QED BY <3>2, <3>3
  <2> QED BY <2>1, <2>2
<1> HIDE DEF G
<1>2. S \in G
  BY <1>1, SubsetInduction
<1> QED BY <1>2 DEF G

(* A sum over a set is the sum over a part and the sum over the rest.          *)
LEMMA SumSplit ==
  ASSUME NEW f, NEW S, IsFiniteSet(S), \A x \in S : f[x] \in Int, NEW P \in SUBSET S
  PROVE  SumFunctionOnSet(f, S) = SumFunctionOnSet(f, P) + SumFunctionOnSet(f, S \ P)
<1> DEFINE F == [x \in S |-> IF x \in P THEN f[x] ELSE 0]
           G == {T \in SUBSET S :
                   SumFunctionOnSet(f, T) = SumFunctionOnSet(f, T \cap P) + SumFunctionOnSet(f, T \ P)}
<1>1. ASSUME NEW T \in SUBSET S, \A U \in (SUBSET T) \ {T} : U \in G PROVE T \in G
  <2>0. \A U \in SUBSET S : IsFiniteSet(U) /\ SumFunctionOnSet(f, U) \in Int
    <3> SUFFICES ASSUME NEW U \in SUBSET S PROVE IsFiniteSet(U) /\ SumFunctionOnSet(f, U) \in Int
      OBVIOUS
    <3>1. IsFiniteSet(U)
      BY FS_Subset
    <3> QED BY <3>1, SumType
  <2>1. CASE T = {}
    <3>1. T \cap P = {} /\ T \ P = {}
      BY <2>1
    <3> QED BY <2>1, <3>1, SumNothing
  <2>2. CASE T # {}
    <3> DEFINE c == Chosen(T)
               R == T \ {c}
    <3>1. c \in T /\ R \in (SUBSET T) \ {T}
      BY <2>2, ChosenIn
    <3>2. SumFunctionOnSet(f, R) = SumFunctionOnSet(f, R \cap P) + SumFunctionOnSet(f, R \ P)
      BY <1>1, <3>1
    <3>3. SumFunctionOnSet(f, T) = f[c] + SumFunctionOnSet(f, R)
      BY <2>0, <3>1, SumRemove
    <3>4. f[c] \in Int /\ R \cap P \in SUBSET S /\ R \ P \in SUBSET S /\ T \cap P \in SUBSET S /\ T \ P \in SUBSET S
      BY <3>1
    <3>6. CASE c \in P
      <4>1. c \in T \cap P /\ R \cap P = (T \cap P) \ {c} /\ R \ P = T \ P
        BY <3>1, <3>6
      <4>3. IsFiniteSet(T \cap P) /\ \A x \in T \cap P : f[x] \in Int
        BY <2>0, <3>4
      <4> HIDE DEF c, R, G
      <4>2. SumFunctionOnSet(f, T \cap P) = f[c] + SumFunctionOnSet(f, R \cap P)
        BY <4>1, <4>3, SumRemove
      <4>5. SumFunctionOnSet(f, R \cap P) \in Int /\ SumFunctionOnSet(f, R \ P) \in Int
        BY <2>0, <3>4
      <4>6. SumFunctionOnSet(f, T) = f[c] + (SumFunctionOnSet(f, R \cap P) + SumFunctionOnSet(f, R \ P))
        BY <3>2, <3>3
      <4>7. SumFunctionOnSet(f, R \ P) = SumFunctionOnSet(f, T \ P)
        BY <4>1
      <4>4. SumFunctionOnSet(f, T) = SumFunctionOnSet(f, T \cap P) + SumFunctionOnSet(f, T \ P)
        BY <3>4, <4>2, <4>5, <4>6, <4>7
      <4> QED BY <4>4 DEF G
    <3>7. CASE c \notin P
      <4>1. c \in T \ P /\ R \ P = (T \ P) \ {c} /\ R \cap P = T \cap P
        BY <3>1, <3>7
      <4>3. IsFiniteSet(T \ P) /\ \A x \in T \ P : f[x] \in Int
        BY <2>0, <3>4
      <4> HIDE DEF c, R, G
      <4>2. SumFunctionOnSet(f, T \ P) = f[c] + SumFunctionOnSet(f, R \ P)
        BY <4>1, <4>3, SumRemove
      <4>5. SumFunctionOnSet(f, R \cap P) \in Int /\ SumFunctionOnSet(f, R \ P) \in Int
        BY <2>0, <3>4
      <4>6. SumFunctionOnSet(f, T) = f[c] + (SumFunctionOnSet(f, R \cap P) + SumFunctionOnSet(f, R \ P))
        BY <3>2, <3>3
      <4>7. SumFunctionOnSet(f, R \cap P) = SumFunctionOnSet(f, T \cap P)
        BY <4>1
      <4>4. SumFunctionOnSet(f, T) = SumFunctionOnSet(f, T \cap P) + SumFunctionOnSet(f, T \ P)
        BY <3>4, <4>2, <4>5, <4>6, <4>7
      <4> QED BY <4>4 DEF G
    <3> QED BY <3>6, <3>7
  <2> QED BY <2>1, <2>2
<1> HIDE DEF G
<1>2. S \in G
  BY <1>1, SubsetInduction
<1>3. S \cap P = P
  OBVIOUS
<1> QED BY <1>2, <1>3 DEF G

(* The sums of the groups are the sum of all: key names the group of each.     *)
LEMMA SumGroups ==
  ASSUME NEW f, NEW key, NEW S, IsFiniteSet(S), \A x \in S : f[x] \in Int,
         NEW K, IsFiniteSet(K), \A x \in S : key[x] \in K,
         NEW g, \A k \in K : g[k] = SumFunctionOnSet(f, {x \in S : key[x] = k})
  PROVE  SumFunctionOnSet(g, K) = SumFunctionOnSet(f, S)
<1> DEFINE within(L) == {x \in S : key[x] \in L}
           G == {L \in SUBSET K : SumFunctionOnSet(g, L) = SumFunctionOnSet(f, within(L))}
<1>0. \A T \in SUBSET S : IsFiniteSet(T) /\ SumFunctionOnSet(f, T) \in Int
  <2> SUFFICES ASSUME NEW T \in SUBSET S
               PROVE  IsFiniteSet(T) /\ SumFunctionOnSet(f, T) \in Int
    OBVIOUS
  <2>1. IsFiniteSet(T)
    BY FS_Subset
  <2> QED BY <2>1, SumType
<1>1. ASSUME NEW L \in SUBSET K, \A U \in (SUBSET L) \ {L} : U \in G PROVE L \in G
  <2>1. CASE L = {}
    <3>1. within(L) = {}
      BY <2>1
    <3> QED BY <2>1, <3>1, SumNothing
  <2>2. CASE L # {}
    <3> DEFINE c == Chosen(L)
               M == L \ {c}
               of == {x \in S : key[x] = c}
    <3>1. c \in L /\ M \in (SUBSET L) \ {L} /\ IsFiniteSet(L)
      BY <2>2, ChosenIn, FS_Subset
    <3>2. SumFunctionOnSet(g, M) = SumFunctionOnSet(f, within(M))
      BY <1>1, <3>1
    <3>3. SumFunctionOnSet(g, L) = g[c] + SumFunctionOnSet(g, M)
      BY <2>2, <3>1, SumOfChosen
    <3>4. g[c] = SumFunctionOnSet(f, of)
      BY <3>1
    <3>5. within(L) \in SUBSET S /\ of \in SUBSET within(L) /\ within(L) \ of = within(M)
      BY <3>1
    <3> HIDE DEF c, M, of, within, G
    <3>6. IsFiniteSet(within(L)) /\ \A x \in within(L) : f[x] \in Int
      BY <1>0, <3>5
    <3>7. SumFunctionOnSet(f, within(L)) = SumFunctionOnSet(f, of) + SumFunctionOnSet(f, within(L) \ of)
      BY <3>5, <3>6, SumSplit
    <3> QED BY <3>2, <3>3, <3>4, <3>5, <3>7 DEF G
  <2> QED BY <2>1, <2>2
<1>2. within(K) = S
  OBVIOUS
<1> HIDE DEF G, within
<1>3. K \in G
  BY <1>1, SubsetInduction
<1> QED BY <1>2, <1>3 DEF G

(* A sum of sums does not depend on which is taken first.                      *)
Grid(f, S, K) == \A x \in S, k \in K : f[x][k] \in Int
RowSums(f, S, K, byRow) == \A x \in S : byRow[x] = SumFunctionOnSet(f[x], K)
ColumnSums(f, S, K, byColumn) ==
  \A k \in K : byColumn[k] = SumFunctionOnSet([x \in S |-> f[x][k]], S)

LEMMA SumSwap ==
  ASSUME NEW S, IsFiniteSet(S), NEW K, IsFiniteSet(K), NEW f, Grid(f, S, K),
         NEW byRow, RowSums(f, S, K, byRow), NEW byColumn, ColumnSums(f, S, K, byColumn)
  PROVE  SumFunctionOnSet(byColumn, K) = SumFunctionOnSet(byRow, S)
<1> USE DEF Grid
<1> DEFINE col == [k \in K |-> [x \in S |-> f[x][k]]]
           row(L) == [x \in S |-> SumFunctionOnSet(f[x], L)]
           G == {L \in SUBSET K : SumFunctionOnSet(byColumn, L) = SumFunctionOnSet(row(L), S)}
<1>1. ASSUME NEW L \in SUBSET K, \A U \in (SUBSET L) \ {L} : U \in G PROVE L \in G
  <2>1. CASE L = {}
    <3>1. \A x \in S : row(L)[x] = 0
      BY <2>1, SumNothing
    <3>2. SumFunctionOnSet(row(L), S) = 0
      <4> HIDE DEF row
      <4> QED BY <3>1, SumZero
    <3> QED BY <2>1, <3>2, SumNothing
  <2>2. CASE L # {}
    <3> DEFINE c == Chosen(L)
               M == L \ {c}
    <3>1. c \in L /\ M \in (SUBSET L) \ {L} /\ IsFiniteSet(L) /\ IsFiniteSet(M)
      BY <2>2, ChosenIn, FS_Subset
    <3>2. SumFunctionOnSet(byColumn, M) = SumFunctionOnSet(row(M), S)
      BY <1>1, <3>1
    <3>3. SumFunctionOnSet(byColumn, L) = byColumn[c] + SumFunctionOnSet(byColumn, M)
      BY <2>2, <3>1, SumOfChosen
    <3>4. byColumn[c] = SumFunctionOnSet(col[c], S)
      BY <3>1 DEF ColumnSums
    <3>5. ASSUME NEW x \in S
          PROVE  /\ col[c][x] \in Int /\ row(M)[x] \in Int
                 /\ row(L)[x] = col[c][x] + row(M)[x]
      <4>1. \A k \in M : f[x][k] \in Int
        BY <3>1
      <4>2. SumFunctionOnSet(f[x], M) \in Int
        BY <3>1, <4>1, SumType
      <4>3. SumFunctionOnSet(f[x], L) = f[x][c] + SumFunctionOnSet(f[x], M)
        BY <2>2, <3>1, SumOfChosen
      <4>4. f[x][c] \in Int /\ col[c][x] = f[x][c]
        BY <3>1
      <4> QED BY <4>2, <4>3, <4>4
    <3> HIDE DEF c, M, row, col, G
    <3>6. SumFunctionOnSet(row(L), S) = SumFunctionOnSet(col[c], S) + SumFunctionOnSet(row(M), S)
      BY <3>5, SumPlus
    <3> QED BY <3>2, <3>3, <3>4, <3>6 DEF G
  <2> QED BY <2>1, <2>2
<1>2. SumFunctionOnSet(row(K), S) = SumFunctionOnSet(byRow, S)
  <2>1. \A x \in S : row(K)[x] = byRow[x]
    BY DEF RowSums
  <2> HIDE DEF row
  <2> QED BY <2>1, SumSame
<1> HIDE DEF G, row
<1>3. K \in G
  BY <1>1, SubsetInduction
<1> QED BY <1>2, <1>3 DEF G

(* A sum over a part is one over the whole, if the rest counts for nothing.    *)
LEMMA SumOnly ==
  ASSUME NEW f, NEW g, NEW S, IsFiniteSet(S), NEW P \in SUBSET S, \A x \in S : f[x] \in Int,
         \A x \in P : g[x] = f[x], \A x \in S \ P : f[x] = 0
  PROVE  SumFunctionOnSet(g, P) = SumFunctionOnSet(f, S)
<1>1. IsFiniteSet(P) /\ IsFiniteSet(S \ P)
  BY FS_Subset, FS_Difference
<1>2. SumFunctionOnSet(f, S) = SumFunctionOnSet(f, P) + SumFunctionOnSet(f, S \ P)
  BY SumSplit
<1>3. SumFunctionOnSet(f, S \ P) = 0
  BY <1>1, SumZero
<1>4. SumFunctionOnSet(f, P) = SumFunctionOnSet(g, P)
  <2>1. \A x \in P : f[x] = g[x]
    OBVIOUS
  <2> QED BY <1>1, <2>1, SumSame
<1>5. SumFunctionOnSet(f, P) \in Int
  BY <1>1, SumType
<1> QED BY <1>2, <1>3, <1>4, <1>5

(* A set is counted by ones.                                                   *)
LEMMA SumOnes ==
  ASSUME NEW f, NEW S, IsFiniteSet(S), \A x \in S : f[x] = 1
  PROVE  SumFunctionOnSet(f, S) = Cardinality(S)
<1> DEFINE G == {T \in SUBSET S : SumFunctionOnSet(f, T) = Cardinality(T)}
<1>1. ASSUME NEW T \in SUBSET S, \A U \in (SUBSET T) \ {T} : U \in G PROVE T \in G
  <2>1. CASE T = {}
    BY <2>1, SumNothing, FS_EmptySet
  <2>2. CASE T # {}
    <3> DEFINE c == Chosen(T)
               R == T \ {c}
    <3>1. c \in T /\ R \in (SUBSET T) \ {T} /\ IsFiniteSet(T)
      BY <2>2, ChosenIn, FS_Subset
    <3>2. SumFunctionOnSet(f, R) = Cardinality(R) /\ f[c] = 1
      BY <1>1, <3>1
    <3>3. SumFunctionOnSet(f, T) = f[c] + SumFunctionOnSet(f, R)
      BY <2>2, <3>1, SumOfChosen
    <3>4. Cardinality(R) = Cardinality(T) - 1 /\ Cardinality(T) \in Nat
      BY <3>1, FS_RemoveElement, FS_CardinalityType
    <3> HIDE DEF c, R, G
    <3>5. SumFunctionOnSet(f, T) = Cardinality(T)
      BY <3>2, <3>3, <3>4
    <3> QED BY <3>5 DEF G
  <2> QED BY <2>1, <2>2
<1> HIDE DEF G
<1>2. S \in G
  BY <1>1, SubsetInduction
<1> QED BY <1>2 DEF G
==============================================================================
