-------------------------------- MODULE Sums ---------------------------------
(***************************************************************************)
(* Lemmas about the sum of a function over a finite set, SumFunctionOnSet  *)
(* of the community modules, which picks the elements in an order of its   *)
(* own.  Induction over finite sets is by the smallest counterexample:     *)
(* strict inclusion of subsets of a finite set is well founded.            *)
(***************************************************************************)
EXTENDS Integers, FiniteSets, Functions, FiniteSetTheorems, WellFoundedInduction, TLAPS

\* A set of subsets of a finite set has a member that includes no other.
LEMMA SmallestMember ==
  ASSUME NEW S, IsFiniteSet(S), NEW Bad \in SUBSET SUBSET S, Bad # {}
  PROVE  \E T \in Bad : \A U \in SUBSET T : U # T => U \notin Bad
<1>1. IsWellFoundedOn(StrictSubsetOrdering(S), SUBSET S)
  BY FS_StrictSubsetOrderingWellFounded, FS_FiniteSubsetsOfFinite
<1>2. \E T \in Bad : \A U \in Bad : <<U, T>> \notin StrictSubsetOrdering(S)
  BY <1>1, WFMin
<1> QED
  BY <1>2 DEF StrictSubsetOrdering

\* A set of numbers up to n has a least one.
LEMMA LeastNumber ==
  ASSUME NEW n \in Nat, NEW Bad \in SUBSET (1 .. n), Bad # {}
  PROVE  \E k \in Bad : \A j \in 1 .. (k - 1) : j \notin Bad
<1> DEFINE Up == {1 .. k : k \in Bad}
<1>1. Up \in SUBSET SUBSET (1 .. n) /\ Up # {}
  <2>1. \A k \in Bad : k \in 1 .. n /\ 1 .. k \subseteq 1 .. n
    OBVIOUS
  <2> QED
    BY <2>1
<1>2. PICK T \in Up : \A U \in SUBSET T : U # T => U \notin Up
  <2>1. IsFiniteSet(1 .. n)
    BY FS_Interval
  <2> HIDE DEF Up
  <2> QED
    BY <1>1, <2>1, SmallestMember
<1>3. PICK k \in Bad : T = 1 .. k
  OBVIOUS
<1>4. ASSUME NEW j \in 1 .. (k - 1), j \in Bad PROVE FALSE
  <2>1. 1 .. j \in SUBSET T /\ 1 .. j # T /\ 1 .. j \in Up
    BY <1>3, <1>4
  <2> HIDE DEF Up
  <2> QED
    BY <1>2, <2>1
<1> QED
  BY <1>4

-----------------------------------------------------------------------------
(* The recursion behind the sum is well defined *)

\* The element the fold takes next
Taken(s) == CHOOSE x \in s : TRUE

\* g sums fun over every subset of S.
IsSum(g, fun, S) ==
  g = [s \in SUBSET S |-> IF s = {} THEN 0 ELSE fun[Taken(s)] + g[s \ {Taken(s)}]]

LEMMA SumIsChosen ==
  ASSUME NEW fun, NEW S
  PROVE  SumFunctionOnSet(fun, S) = (CHOOSE g : IsSum(g, fun, S))[S]
BY DEF SumFunctionOnSet, FoldFunctionOnSet, MapThenFoldSet, IsSum, Taken

LEMMA SumsUnique ==
  ASSUME NEW fun, NEW T, IsFiniteSet(T), NEW S \in SUBSET T,
         NEW g, IsSum(g, fun, S), NEW h, IsSum(h, fun, T)
  PROVE  \A s \in SUBSET S : g[s] = h[s]
<1> DEFINE Bad == {s \in SUBSET S : g[s] # h[s]}
<1>1. SUFFICES ASSUME Bad # {} PROVE FALSE
  OBVIOUS
<1>2. Bad \in SUBSET SUBSET T
  OBVIOUS
<1>3. PICK s \in Bad : \A u \in SUBSET s : u # s => u \notin Bad
  <2> HIDE DEF Bad
  <2> QED
    BY <1>1, <1>2, SmallestMember
<1>4. s \in SUBSET S /\ s \in SUBSET T /\ g[s] # h[s]
  BY <1>3
<1>5. /\ g[s] = IF s = {} THEN 0 ELSE fun[Taken(s)] + g[s \ {Taken(s)}]
      /\ h[s] = IF s = {} THEN 0 ELSE fun[Taken(s)] + h[s \ {Taken(s)}]
  BY <1>4 DEF IsSum
<1>6. s # {} /\ g[s \ {Taken(s)}] # h[s \ {Taken(s)}]
  BY <1>4, <1>5
<1>7. Taken(s) \in s
  BY <1>6 DEF Taken
<1> QED
  BY <1>3, <1>4, <1>6, <1>7

LEMMA SumsExist ==
  ASSUME NEW fun, NEW S, IsFiniteSet(S)
  PROVE  \E g : IsSum(g, fun, S)
<1> DEFINE Bad == {T \in SUBSET S : ~\E g : IsSum(g, fun, T)}
           Least(u) == CHOOSE g : IsSum(g, fun, u)
<1>1. SUFFICES ASSUME Bad # {} PROVE FALSE
  OBVIOUS
<1>2. PICK T \in Bad : \A U \in SUBSET T : U # T => U \notin Bad
  <2>1. Bad \in SUBSET SUBSET S
    OBVIOUS
  <2> HIDE DEF Bad
  <2> QED
    BY <1>1, <2>1, SmallestMember
<1>3. \A U \in SUBSET T : IsFiniteSet(U)
  BY FS_Subset
<1>4. \A U \in SUBSET T : U # T => IsSum(Least(U), fun, U)
  BY <1>2
<1> HIDE DEF Least
<1> DEFINE g == [s \in SUBSET T |->
             IF s = {} THEN 0 ELSE fun[Taken(s)] + Least(s \ {Taken(s)})[s \ {Taken(s)}]]
<1>5. ASSUME NEW s \in SUBSET T, s # T PROVE g[s] = Least(s)[s]
  <2>1. CASE s = {}
    BY <1>4, <1>5, <2>1 DEF IsSum
  <2>2. CASE s # {}
    <3>1. Taken(s) \in s
      BY <2>2 DEF Taken
    <3> DEFINE u == s \ {Taken(s)}
    <3>2. u \in SUBSET s /\ u \in SUBSET T /\ u # T
      BY <3>1
    <3>3. Least(s)[s] = fun[Taken(s)] + Least(s)[u]
      BY <1>4, <1>5, <2>2 DEF IsSum
    <3>4. Least(u)[u] = Least(s)[u]
      <4>1. IsSum(Least(u), fun, u) /\ IsSum(Least(s), fun, s) /\ IsFiniteSet(s)
        BY <1>3, <1>4, <1>5, <3>2
      <4> HIDE DEF u
      <4> QED
        BY <4>1, <3>2, SumsUnique
    <3> QED
      BY <2>2, <3>3, <3>4
  <2> QED
    BY <2>1, <2>2
<1>6. ASSUME NEW s \in SUBSET T, s # {}
      PROVE  Least(s \ {Taken(s)})[s \ {Taken(s)}] = g[s \ {Taken(s)}]
  <2>1. Taken(s) \in s
    BY <1>6 DEF Taken
  <2>2. s \ {Taken(s)} \in SUBSET T /\ s \ {Taken(s)} # T
    BY <2>1
  <2> HIDE DEF g
  <2> QED
    BY <1>5, <2>2
<1>7. IsSum(g, fun, T)
  BY <1>6 DEF IsSum
<1> QED
  BY <1>2, <1>7

\* What the fold computes for a set
LEMMA SumStep ==
  ASSUME NEW fun, NEW S, IsFiniteSet(S)
  PROVE  SumFunctionOnSet(fun, S) =
           IF S = {} THEN 0
           ELSE fun[Taken(S)] + SumFunctionOnSet(fun, S \ {Taken(S)})
<1> DEFINE g(s) == CHOOSE h : IsSum(h, fun, s)
<1>1. ASSUME NEW s \in SUBSET S PROVE IsSum(g(s), fun, s) /\ IsFiniteSet(s)
  BY SumsExist, FS_Subset
<1>2. \A s : SumFunctionOnSet(fun, s) = g(s)[s]
  BY SumIsChosen
<1> HIDE DEF g
<1>3. g(S)[S] = IF S = {} THEN 0 ELSE fun[Taken(S)] + g(S)[S \ {Taken(S)}]
  BY <1>1 DEF IsSum
<1>4. g(S \ {Taken(S)})[S \ {Taken(S)}] = g(S)[S \ {Taken(S)}]
  BY <1>1, SumsUnique
<1> QED
  BY <1>2, <1>3, <1>4

-----------------------------------------------------------------------------
(* Sums of integers *)

LEMMA SumEmpty ==
  ASSUME NEW fun
  PROVE  SumFunctionOnSet(fun, {}) = 0
BY SumStep, FS_EmptySet

\* A sum stays among the numbers that are closed under addition.
LEMMA SumStaysIn ==
  ASSUME NEW V, 0 \in V, \A v, w \in V : v + w \in V,
         NEW fun, NEW S, IsFiniteSet(S), \A x \in S : fun[x] \in V
  PROVE  SumFunctionOnSet(fun, S) \in V
<1> DEFINE Bad == {T \in SUBSET S : SumFunctionOnSet(fun, T) \notin V}
<1>1. SUFFICES ASSUME Bad # {} PROVE FALSE
  OBVIOUS
<1>2. PICK T \in Bad : \A U \in SUBSET T : U # T => U \notin Bad
  <2>1. Bad \in SUBSET SUBSET S
    OBVIOUS
  <2> HIDE DEF Bad
  <2> QED
    BY <1>1, <2>1, SmallestMember
<1>3. IsFiniteSet(T)
  BY FS_Subset
<1>4. T # {}
  <2>1. SumFunctionOnSet(fun, {}) \in V
    BY SumEmpty
  <2> QED
    BY <1>2, <2>1
<1>5. Taken(T) \in T
  BY <1>4 DEF Taken
<1>6. SumFunctionOnSet(fun, T) = fun[Taken(T)] + SumFunctionOnSet(fun, T \ {Taken(T)})
  BY <1>3, <1>4, SumStep
<1> QED
  BY <1>2, <1>5, <1>6

LEMMA SumIsInt ==
  ASSUME NEW fun, NEW S, IsFiniteSet(S), \A x \in S : fun[x] \in Int
  PROVE  SumFunctionOnSet(fun, S) \in Int
<1> DEFINE V == Int
<1>1. 0 \in V /\ (\A v, w \in V : v + w \in V) /\ (\A x \in S : fun[x] \in V)
  OBVIOUS
<1> HIDE DEF V
<1>2. SumFunctionOnSet(fun, S) \in V
  BY <1>1, SumStaysIn
<1> QED
  BY <1>2 DEF V

LEMMA SumIsNat ==
  ASSUME NEW fun, NEW S, IsFiniteSet(S), \A x \in S : fun[x] \in Nat
  PROVE  SumFunctionOnSet(fun, S) \in Nat
<1> DEFINE V == Nat
<1>1. 0 \in V /\ (\A v, w \in V : v + w \in V) /\ (\A x \in S : fun[x] \in V)
  OBVIOUS
<1> HIDE DEF V
<1>2. SumFunctionOnSet(fun, S) \in V
  BY <1>1, SumStaysIn
<1> QED
  BY <1>2 DEF V

\* Any element may be taken first.
LEMMA SumTakeAny ==
  ASSUME NEW fun, NEW S, IsFiniteSet(S), \A x \in S : fun[x] \in Int, NEW e \in S
  PROVE  SumFunctionOnSet(fun, S) = fun[e] + SumFunctionOnSet(fun, S \ {e})
<1> DEFINE Splits(T, x) ==
             SumFunctionOnSet(fun, T) = fun[x] + SumFunctionOnSet(fun, T \ {x})
           Bad == {T \in SUBSET S : \E x \in T : ~Splits(T, x)}
<1>1. SUFFICES ASSUME Bad # {} PROVE FALSE
  OBVIOUS
<1>2. PICK T \in Bad : \A U \in SUBSET T : U # T => U \notin Bad
  <2>1. Bad \in SUBSET SUBSET S
    OBVIOUS
  <2> HIDE DEF Bad
  <2> QED
    BY <1>1, <2>1, SmallestMember
<1>3. PICK x \in T : ~Splits(T, x)
  BY <1>2
<1> DEFINE y == Taken(T)
           Rest == T \ {x, y}
<1>4. y \in T
  BY <1>3 DEF Taken
<1>5. \A U \in SUBSET S : IsFiniteSet(U) /\ SumFunctionOnSet(fun, U) \in Int
  <2> SUFFICES ASSUME NEW U \in SUBSET S
               PROVE  IsFiniteSet(U) /\ SumFunctionOnSet(fun, U) \in Int
    OBVIOUS
  <2>1. IsFiniteSet(U) /\ \A z \in U : fun[z] \in Int
    BY FS_Subset
  <2> QED
    BY <2>1, SumIsInt
<1>6. Splits(T, y)
  BY <1>3, <1>5, SumStep
<1>7. x # y
  BY <1>3, <1>6
<1>8. /\ T \ {y} # T /\ T \ {y} \in SUBSET T /\ x \in T \ {y} /\ (T \ {y}) \ {x} = Rest
      /\ T \ {x} # T /\ T \ {x} \in SUBSET T /\ y \in T \ {x} /\ (T \ {x}) \ {y} = Rest
  BY <1>3, <1>4, <1>7
<1>9. T \ {y} \in SUBSET S /\ T \ {x} \in SUBSET S /\ Rest \in SUBSET S
  OBVIOUS
<1> HIDE DEF y
<1>10. Splits(T \ {y}, x) /\ Splits(T \ {x}, y)
  BY <1>2, <1>8, <1>9
<1>11. /\ SumFunctionOnSet(fun, T \ {y}) = fun[x] + SumFunctionOnSet(fun, Rest)
       /\ SumFunctionOnSet(fun, T \ {x}) = fun[y] + SumFunctionOnSet(fun, Rest)
  BY <1>8, <1>10
<1>12. fun[x] \in Int /\ fun[y] \in Int /\ SumFunctionOnSet(fun, Rest) \in Int
  BY <1>3, <1>4, <1>5, <1>9
<1>13. SumFunctionOnSet(fun, T) = fun[y] + (fun[x] + SumFunctionOnSet(fun, Rest))
  BY <1>6, <1>11
<1>14. SumFunctionOnSet(fun, T) # fun[x] + (fun[y] + SumFunctionOnSet(fun, Rest))
  BY <1>3, <1>11
<1> HIDE DEF Rest
<1> QED
  BY <1>12, <1>13, <1>14

\* The sum grows by the element that is added.
LEMMA SumAdd ==
  ASSUME NEW fun, NEW S, IsFiniteSet(S), NEW e, e \notin S,
         \A x \in S \cup {e} : fun[x] \in Int
  PROVE  SumFunctionOnSet(fun, S \cup {e}) = SumFunctionOnSet(fun, S) + fun[e]
<1>1. IsFiniteSet(S \cup {e}) /\ (S \cup {e}) \ {e} = S
  BY FS_AddElement
<1>2. SumFunctionOnSet(fun, S) \in Int /\ fun[e] \in Int
  BY SumIsInt
<1>3. SumFunctionOnSet(fun, S \cup {e}) = fun[e] + SumFunctionOnSet(fun, S)
  BY <1>1, SumTakeAny
<1> QED
  BY <1>2, <1>3

\* The sum of a multiple is the multiple of the sum.
LEMMA SumScaled ==
  ASSUME NEW fun, NEW S, IsFiniteSet(S), \A x \in S : fun[x] \in Int,
         NEW factor \in Int, NEW gun, \A x \in S : gun[x] = factor * fun[x]
  PROVE  SumFunctionOnSet(gun, S) = factor * SumFunctionOnSet(fun, S)
<1> DEFINE Bad == {T \in SUBSET S :
             SumFunctionOnSet(gun, T) # factor * SumFunctionOnSet(fun, T)}
<1>1. SUFFICES ASSUME Bad # {} PROVE FALSE
  OBVIOUS
<1>2. PICK T \in Bad : \A U \in SUBSET T : U # T => U \notin Bad
  <2>1. Bad \in SUBSET SUBSET S
    OBVIOUS
  <2> HIDE DEF Bad
  <2> QED
    BY <1>1, <2>1, SmallestMember
<1>3. IsFiniteSet(T)
  BY FS_Subset
<1>4. T # {}
  <2>1. SumFunctionOnSet(gun, {}) = factor * SumFunctionOnSet(fun, {})
    BY SumEmpty
  <2> QED
    BY <1>2, <2>1
<1> DEFINE y == Taken(T)
           Rest == T \ {y}
<1>5. y \in T
  BY <1>4 DEF Taken
<1>6. /\ SumFunctionOnSet(fun, T) = fun[y] + SumFunctionOnSet(fun, Rest)
      /\ SumFunctionOnSet(gun, T) = gun[y] + SumFunctionOnSet(gun, Rest)
  BY <1>3, <1>4, SumStep
<1>7. SumFunctionOnSet(gun, Rest) = factor * SumFunctionOnSet(fun, Rest)
  BY <1>2, <1>5
<1>8. SumFunctionOnSet(fun, Rest) \in Int
  <2>1. Rest \in SUBSET S
    OBVIOUS
  <2>2. IsFiniteSet(Rest) /\ \A x \in Rest : fun[x] \in Int
    BY <2>1, FS_Subset
  <2> QED
    BY <2>2, SumIsInt
<1>9. fun[y] \in Int /\ gun[y] = factor * fun[y]
  BY <1>5
<1>10. factor * (fun[y] + SumFunctionOnSet(fun, Rest))
         = factor * fun[y] + factor * SumFunctionOnSet(fun, Rest)
  <2> HIDE DEF y, Rest
  <2> QED
    BY <1>8, <1>9, Z3
<1> QED
  BY <1>2, <1>6, <1>7, <1>9, <1>10

\* Functions that agree have the same sum.
LEMMA SumSame ==
  ASSUME NEW fun, NEW S, IsFiniteSet(S), \A x \in S : fun[x] \in Int,
         NEW gun, \A x \in S : gun[x] = fun[x]
  PROVE  SumFunctionOnSet(gun, S) = SumFunctionOnSet(fun, S)
<1>1. \A x \in S : gun[x] = 1 * fun[x]
  OBVIOUS
<1>2. SumFunctionOnSet(fun, S) \in Int
  BY SumIsInt
<1>3. SumFunctionOnSet(gun, S) = 1 * SumFunctionOnSet(fun, S)
  BY <1>1, SumScaled
<1> QED
  BY <1>2, <1>3
=============================================================================
