---------------------------- MODULE SharedFacts ----------------------------
(***************************************************************************)
(* Facts that the proofs of several components rest on: the arithmetic of  *)
(* dynamic context allocation (ContextQuota), induction over the natural   *)
(* numbers, recursive functions, the sums in which the invariants of this  *)
(* project count positions, tokens and pieces (SumFunctionOnSet), and      *)
(* sequences of sequences put together (FlattenSeq).                       *)
(*                                                                         *)
(* SumFunctionOnSet is a fold: a recursive function over the subsets of S  *)
(* that takes elements out with CHOOSE.  Its equation and its facts, and   *)
(* induction, are proved by taking a smallest set for which they fail      *)
(* (FiniteMinimum).                                                        *)
(***************************************************************************)
EXTENDS ContextQuota, Functions, SequencesExt, FiniteSetTheorems, SequenceTheorems, WellFoundedInduction, TLAPS

-----------------------------------------------------------------------------
(* Quotas.                                                                 *)

LEMMA DivBounds ==
    ASSUME NEW x \in Nat, NEW y \in Nat \ {0}
    PROVE  /\ x \div y \in Nat
           /\ (x \div y) * y <= x
           /\ x < (x \div y + 1) * y
  OBVIOUS

LEMMA ProductMonotone ==
    ASSUME NEW a \in Nat, NEW b \in Nat, NEW c \in Nat, NEW d \in Nat, a <= b, c <= d
    PROVE  a * c <= b * d
  <1>1. a * c <= a * d
    BY SMT
  <1>2. a * d <= b * d
    BY SMT
  <1> QED
    BY <1>1, <1>2

(* The number by which for_active_requests divides.                        *)
LEMMA QuotaIsQuotient ==
    ASSUME NEW total \in Nat \ {0}, NEW active \in Nat
    PROVE  /\ for_active_requests(total, active) = total \div max(1, active)
           /\ max(1, active) \in Nat \ {0}
           /\ active <= max(1, active)
  BY DEF for_active_requests, max

(***************************************************************************)
(* A quota is a natural number, at most the whole context.                 *)
(***************************************************************************)
THEOREM QuotaType ==
    ASSUME NEW total \in Nat, NEW active \in Nat
    PROVE  /\ for_active_requests(total, active) \in Nat
           /\ for_active_requests(total, active) <= total
  <1>1. CASE total = 0
    BY <1>1 DEF for_active_requests
  <1>2. CASE total > 0
    <2> DEFINE y == max(1, active)
               q == total \div y
    <2>1. for_active_requests(total, active) = q /\ y \in Nat \ {0}
      BY <1>2, QuotaIsQuotient
    <2>2. q \in Nat /\ q * y <= total
      BY <2>1, DivBounds
    <2>3. q * 1 <= q * y
      BY <2>1, <2>2, ProductMonotone
    <2>4. q * y \in Nat
      BY <2>1, <2>2
    <2> HIDE DEF y, q
    <2> QED
      BY <2>1, <2>2, <2>3, <2>4
  <1> QED
    BY <1>1, <1>2

(***************************************************************************)
(* The quotas of all active requests together fit the context: the KV      *)
(* cache is never promised twice.                                          *)
(***************************************************************************)
THEOREM QuotaShares ==
    ASSUME NEW total \in Nat, NEW active \in Nat
    PROVE  active * for_active_requests(total, active) <= total
  <1>1. CASE total = 0
    BY <1>1 DEF for_active_requests
  <1>2. CASE active = 0
    BY <1>2, QuotaType
  <1>3. CASE total > 0 /\ active > 0
    <2>1. for_active_requests(total, active) = total \div active
      BY <1>3 DEF for_active_requests, max
    <2>2. (total \div active) * active <= total
      BY <1>3, DivBounds
    <2>3. total \div active \in Nat
      BY <1>3, DivBounds
    <2> QED
      BY <2>1, <2>2, <2>3
  <1> QED
    BY <1>1, <1>2, <1>3

(***************************************************************************)
(* More active requests never mean a larger quota.                         *)
(***************************************************************************)
THEOREM QuotaAntitone ==
    ASSUME NEW total \in Nat, NEW a \in Nat, NEW b \in Nat, a <= b
    PROVE  for_active_requests(total, b) <= for_active_requests(total, a)
  <1>1. CASE total = 0
    BY <1>1 DEF for_active_requests
  <1>2. CASE total > 0
    <2> DEFINE ya == max(1, a)
               yb == max(1, b)
               qa == total \div ya
               qb == total \div yb
    <2>1. /\ for_active_requests(total, a) = qa
          /\ for_active_requests(total, b) = qb
      BY <1>2, QuotaIsQuotient
    <2>2. ya \in Nat \ {0} /\ yb \in Nat \ {0} /\ ya <= yb
      BY DEF max
    <2>3. qa \in Nat /\ total < (qa + 1) * ya
      BY <2>2, DivBounds
    <2>4. qb \in Nat /\ qb * yb <= total
      BY <2>2, DivBounds
    <2> HIDE DEF ya, yb, qa, qb
    <2>5. qa + 1 <= qb => (qa + 1) * ya <= qb * yb
      BY <2>2, <2>3, <2>4, ProductMonotone
    <2>6. (qa + 1) * ya \in Nat /\ qb * yb \in Nat
      BY <2>2, <2>3, <2>4
    <2>7. qb <= qa
      BY <2>3, <2>4, <2>5, <2>6
    <2> QED
      BY <2>1, <2>7
  <1> QED
    BY <1>1, <1>2

(***************************************************************************)
(* A budget leaves neither the limit nor, when there is one, the request's *)
(* own maximum (refresh_completion_task_budget).                           *)
(***************************************************************************)
THEOREM BudgetBounds ==
    ASSUME NEW limit \in Int, NEW position \in Int, NEW requested \in Int,
           NEW generated \in Nat
    PROVE  LET budget == remaining_output_budget(limit, position, requested, generated)
           IN  /\ budget \in Nat
               /\ position <= limit => position + budget <= limit
               /\ requested >= generated => budget + generated <= requested
  BY DEF remaining_output_budget, min, max, INT32_MAX

-----------------------------------------------------------------------------
(* Sums.                                                                   *)

Chosen(T) == CHOOSE x \in T : TRUE

(* F is the recursive function in the definition of SumFunctionOnSet.      *)
IsFold(f, S, F) ==
    F = [T \in SUBSET S |-> IF T = {} THEN 0
                            ELSE f[CHOOSE x \in T : TRUE] + F[T \ {CHOOSE x \in T : TRUE}]]

(* F gives every subset of T the total of f over it.                       *)
Totals(f, T, F) ==
    \A U \in SUBSET T : F[U] = IF U = {} THEN 0 ELSE f[Chosen(U)] + F[U \ {Chosen(U)}]

(* Among subsets of a finite set there is always a smallest one.           *)
LEMMA FiniteMinimum ==
    ASSUME NEW S, IsFiniteSet(S), NEW Bad, Bad \subseteq SUBSET S, Bad # {}
    PROVE  \E T \in Bad : \A U \in Bad : ~ (U \subseteq T /\ U # T)
  <1>1. IsWellFoundedOn(StrictSubsetOrdering(S), SUBSET S)
    BY FS_StrictSubsetOrderingWellFounded, FS_FiniteSubsetsOfFinite
  <1>2. \E T \in Bad : \A U \in Bad : ~ (<<U, T>> \in StrictSubsetOrdering(S))
    BY <1>1, WFMin
  <1> QED
    BY <1>2 DEF StrictSubsetOrdering

(* CHOOSE takes an element of the set.                                     *)
LEMMA ChosenIn ==
    ASSUME NEW T, T # {}
    PROVE  Chosen(T) \in T
  BY DEF Chosen

(* Two functions that do so agree.                                         *)
LEMMA TotalsAgree ==
    ASSUME NEW S, IsFiniteSet(S), NEW f, NEW F, NEW G, Totals(f, S, F), Totals(f, S, G)
    PROVE  \A T \in SUBSET S : F[T] = G[T]
  <1> DEFINE Bad == {T \in SUBSET S : F[T] # G[T]}
  <1> SUFFICES ASSUME Bad # {} PROVE FALSE
    OBVIOUS
  <1>1. PICK T \in Bad : \A U \in Bad : ~ (U \subseteq T /\ U # T)
    <2>1. Bad \subseteq SUBSET S
      OBVIOUS
    <2> HIDE DEF Bad
    <2> QED
      BY <2>1, FiniteMinimum
  <1>2. T \in SUBSET S /\ F[T] # G[T]
    OBVIOUS
  <1>3. T # {}
    BY <1>2 DEF Totals
  <1>4. Chosen(T) \in T
    BY <1>3, ChosenIn
  <1>5. F[T \ {Chosen(T)}] = G[T \ {Chosen(T)}]
    BY <1>1, <1>2, <1>4
  <1> QED
    BY <1>2, <1>3, <1>5 DEF Totals

(* On every finite set some function does so.                              *)
LEMMA TotalsExist ==
    ASSUME NEW S, IsFiniteSet(S), NEW f
    PROVE  \E F : Totals(f, S, F)
  <1> DEFINE Bad == {T \in SUBSET S : ~ \E F : Totals(f, T, F)}
  <1> SUFFICES ASSUME Bad # {} PROVE FALSE
    OBVIOUS
  <1>1. PICK T \in Bad : \A U \in Bad : ~ (U \subseteq T /\ U # T)
    <2>1. Bad \subseteq SUBSET S
      OBVIOUS
    <2> HIDE DEF Bad
    <2> QED
      BY <2>1, FiniteMinimum
  <1>2. T \in SUBSET S /\ ~ \E F : Totals(f, T, F)
    OBVIOUS
  <1>3. T # {}
    <2>1. Totals(f, {}, [U \in {{}} |-> 0])
      BY DEF Totals
    <2> QED
      BY <1>2, <2>1
  <1> DEFINE Sol(U) == CHOOSE F : Totals(f, U, F)
             c == Chosen(T)
             G == [U \in SUBSET T |-> IF U = T THEN f[c] + Sol(T \ {c})[T \ {c}] ELSE Sol(U)[U]]
  <1>4. ASSUME NEW U \in SUBSET T, U # T
        PROVE  Totals(f, U, Sol(U)) /\ IsFiniteSet(U)
    <2>1. \E F : Totals(f, U, F)
      BY <1>1, <1>2, <1>4
    <2>2. IsFiniteSet(U)
      BY <1>2, <1>4, FS_Subset
    <2> QED
      BY <2>1, <2>2
  <1> HIDE DEF Bad, Sol
  <1>5. c \in T
    BY <1>3, ChosenIn
  <1>6. G[T] = f[c] + G[T \ {c}]
    BY <1>5
  <1>7. ASSUME NEW U \in SUBSET T, U # T, U # {}
        PROVE  G[U] = f[Chosen(U)] + G[U \ {Chosen(U)}]
    <2> DEFINE V == U \ {Chosen(U)}
    <2>1. Chosen(U) \in U
      BY <1>7, ChosenIn
    <2>2. V \in SUBSET T /\ V # T /\ V \subseteq U
      BY <1>7, <2>1
    <2>3. Totals(f, U, Sol(U)) /\ Totals(f, V, Sol(V)) /\ IsFiniteSet(V)
      BY <1>4, <1>7, <2>2
    <2>4. Totals(f, V, Sol(U))
      BY <2>2, <2>3 DEF Totals
    <2> HIDE DEF V
    <2>5. Sol(U)[V] = Sol(V)[V]
      BY <2>3, <2>4, TotalsAgree
    <2>6. Sol(U)[U] = f[Chosen(U)] + Sol(U)[V]
      BY <1>7, <2>3 DEF Totals, V
    <2>7. G[U] = Sol(U)[U] /\ G[V] = Sol(V)[V]
      BY <1>7, <2>2
    <2> QED
      BY <2>5, <2>6, <2>7 DEF V
  <1>8. G[{}] = 0
    <2>1. Totals(f, {}, Sol({}))
      BY <1>3, <1>4
    <2> QED
      BY <1>3, <2>1 DEF Totals
  <1> HIDE DEF G
  <1>9. Totals(f, T, G)
    BY <1>3, <1>6, <1>7, <1>8 DEF Totals
  <1> QED
    BY <1>2, <1>9

(* SumFunctionOnSet is defined by it.                                      *)
LEMMA SumSolves ==
    ASSUME NEW S, IsFiniteSet(S), NEW f
    PROVE  \E F : Totals(f, S, F) /\ SumFunctionOnSet(f, S) = F[S]
  <1>1. PICK F : Totals(f, S, F)
    BY TotalsExist
  <1> DEFINE G == [T \in SUBSET S |-> F[T]]
             H == CHOOSE X : IsFold(f, S, X)
  <1>2. IsFold(f, S, G)
    <2>1. ASSUME NEW T \in SUBSET S
          PROVE G[T] = IF T = {} THEN 0
                       ELSE f[CHOOSE x \in T : TRUE] + G[T \ {CHOOSE x \in T : TRUE}]
      BY <1>1 DEF Totals, Chosen
    <2>2. G = [T \in SUBSET S |-> G[T]]
      OBVIOUS
    <2> HIDE DEF G
    <2> QED
      BY <2>1, <2>2 DEF IsFold
  <1> HIDE DEF G
  <1>3. IsFold(f, S, H)
    BY <1>2
  <1>4. SumFunctionOnSet(f, S) = H[S]
    BY DEF SumFunctionOnSet, FoldFunctionOnSet, MapThenFoldSet, IsFold
  <1> HIDE DEF H
  <1>5. Totals(f, S, H)
    BY <1>3 DEF IsFold, Totals, Chosen
  <1> QED
    BY <1>4, <1>5

(* Nothing adds up to 0.                                                   *)
LEMMA SumEmpty == \A f : SumFunctionOnSet(f, {}) = 0
  <1> SUFFICES ASSUME NEW f PROVE SumFunctionOnSet(f, {}) = 0
    OBVIOUS
  <1>1. PICK F : Totals(f, {}, F) /\ SumFunctionOnSet(f, {}) = F[{}]
    BY SumSolves, FS_EmptySet
  <1> QED
    BY <1>1 DEF Totals

(* The element that the fold takes first.                                  *)
LEMMA SumChosen ==
    ASSUME NEW S, IsFiniteSet(S), S # {}, NEW f
    PROVE  SumFunctionOnSet(f, S) = f[Chosen(S)] + SumFunctionOnSet(f, S \ {Chosen(S)})
  <1> DEFINE T == S \ {Chosen(S)}
  <1>1. T \subseteq S /\ IsFiniteSet(T)
    BY FS_Subset
  <1> HIDE DEF T
  <1>2. PICK F : Totals(f, S, F) /\ SumFunctionOnSet(f, S) = F[S]
    BY SumSolves
  <1>3. PICK G : Totals(f, T, G) /\ SumFunctionOnSet(f, T) = G[T]
    BY <1>1, SumSolves
  <1>4. Totals(f, T, F)
    BY <1>1, <1>2 DEF Totals
  <1>5. F[T] = G[T]
    BY <1>1, <1>3, <1>4, TotalsAgree
  <1>6. F[S] = f[Chosen(S)] + F[T]
    BY <1>2 DEF Totals, T
  <1> QED
    BY <1>2, <1>3, <1>5, <1>6 DEF T

(* A sum of integers is an integer.                                        *)
LEMMA SumIsInt ==
    ASSUME NEW S, IsFiniteSet(S), NEW f, \A x \in S : f[x] \in Int
    PROVE  SumFunctionOnSet(f, S) \in Int
  <1> DEFINE Bad == {T \in SUBSET S : SumFunctionOnSet(f, T) \notin Int}
  <1> SUFFICES ASSUME Bad # {} PROVE FALSE
    OBVIOUS
  <1>1. PICK T \in Bad : \A U \in Bad : ~ (U \subseteq T /\ U # T)
    <2>1. Bad \subseteq SUBSET S
      OBVIOUS
    <2> HIDE DEF Bad
    <2> QED
      BY <2>1, FiniteMinimum
  <1>2. T \in SUBSET S /\ SumFunctionOnSet(f, T) \notin Int /\ IsFiniteSet(T)
    BY FS_Subset
  <1>3. T # {}
    BY <1>2, SumEmpty
  <1>4. Chosen(T) \in T
    BY <1>3, ChosenIn
  <1>5. SumFunctionOnSet(f, T \ {Chosen(T)}) \in Int
    BY <1>1, <1>2, <1>4
  <1>6. f[Chosen(T)] \in Int
    BY <1>2, <1>4
  <1>7. SumFunctionOnSet(f, T) = f[Chosen(T)] + SumFunctionOnSet(f, T \ {Chosen(T)})
    BY <1>2, <1>3, SumChosen
  <1> HIDE DEF Bad
  <1> QED
    BY <1>2, <1>5, <1>6, <1>7

(* A sum of natural numbers is one.                                        *)
LEMMA SumIsNat ==
    ASSUME NEW S, IsFiniteSet(S), NEW f, \A x \in S : f[x] \in Nat
    PROVE  SumFunctionOnSet(f, S) \in Nat
  <1> DEFINE Bad == {T \in SUBSET S : SumFunctionOnSet(f, T) \notin Nat}
  <1> SUFFICES ASSUME Bad # {} PROVE FALSE
    OBVIOUS
  <1>1. PICK T \in Bad : \A U \in Bad : ~ (U \subseteq T /\ U # T)
    <2>1. Bad \subseteq SUBSET S
      OBVIOUS
    <2> HIDE DEF Bad
    <2> QED
      BY <2>1, FiniteMinimum
  <1>2. T \in SUBSET S /\ SumFunctionOnSet(f, T) \notin Nat /\ IsFiniteSet(T)
    BY FS_Subset
  <1>3. T # {}
    BY <1>2, SumEmpty
  <1>4. Chosen(T) \in T
    BY <1>3, ChosenIn
  <1>5. SumFunctionOnSet(f, T \ {Chosen(T)}) \in Nat
    BY <1>1, <1>2, <1>4
  <1>6. f[Chosen(T)] \in Nat
    BY <1>2, <1>4
  <1>7. SumFunctionOnSet(f, T) = f[Chosen(T)] + SumFunctionOnSet(f, T \ {Chosen(T)})
    BY <1>2, <1>3, SumChosen
  <1> DEFINE x == f[Chosen(T)]
             y == SumFunctionOnSet(f, T \ {Chosen(T)})
  <1>8. x \in Nat /\ y \in Nat /\ SumFunctionOnSet(f, T) = x + y
    BY <1>5, <1>6, <1>7
  <1> HIDE DEF Bad, x, y
  <1> QED
    BY <1>2, <1>8

(* Any element may be taken first.                                         *)
LEMMA SumRemove ==
    ASSUME NEW S, IsFiniteSet(S), NEW f, \A x \in S : f[x] \in Int, NEW y \in S
    PROVE  SumFunctionOnSet(f, S) = f[y] + SumFunctionOnSet(f, S \ {y})
  <1> DEFINE Bad == {T \in SUBSET S :
                        \E z \in T : SumFunctionOnSet(f, T) # f[z] + SumFunctionOnSet(f, T \ {z})}
  <1> SUFFICES ASSUME Bad # {} PROVE FALSE
    OBVIOUS
  <1>1. PICK T \in Bad : \A U \in Bad : ~ (U \subseteq T /\ U # T)
    <2>1. Bad \subseteq SUBSET S
      OBVIOUS
    <2> HIDE DEF Bad
    <2> QED
      BY <2>1, FiniteMinimum
  <1>2. PICK z \in T : SumFunctionOnSet(f, T) # f[z] + SumFunctionOnSet(f, T \ {z})
    OBVIOUS
  <1> DEFINE c == Chosen(T)
  <1>3. T \in SUBSET S /\ IsFiniteSet(T) /\ T # {} /\ c \in T
    BY <1>2, FS_Subset, ChosenIn
  <1>4. SumFunctionOnSet(f, T) = f[c] + SumFunctionOnSet(f, T \ {c})
    BY <1>3, SumChosen
  <1> HIDE DEF c
  <1>5. c # z
    BY <1>2, <1>4
  <1>6. /\ IsFiniteSet(T \ {c}) /\ IsFiniteSet(T \ {z}) /\ IsFiniteSet(T \ {c, z})
    BY <1>3, FS_Subset
  <1>7. ASSUME NEW U \in SUBSET T, U # T, NEW x \in U
        PROVE  SumFunctionOnSet(f, U) = f[x] + SumFunctionOnSet(f, U \ {x})
    BY <1>1, <1>3, <1>7
  <1> HIDE DEF Bad
  <1>8. SumFunctionOnSet(f, T \ {c}) = f[z] + SumFunctionOnSet(f, T \ {c, z})
    <2>1. (T \ {c}) \ {z} = T \ {c, z}
      OBVIOUS
    <2> QED
      BY <1>3, <1>5, <1>7, <2>1
  <1>9. SumFunctionOnSet(f, T \ {z}) = f[c] + SumFunctionOnSet(f, T \ {c, z})
    <2>1. (T \ {z}) \ {c} = T \ {c, z}
      OBVIOUS
    <2> QED
      BY <1>3, <1>5, <1>7, <2>1
  <1>10. f[c] \in Int /\ f[z] \in Int /\ SumFunctionOnSet(f, T \ {c, z}) \in Int
    <2>1. \A x \in T \ {c, z} : f[x] \in Int
      BY <1>3
    <2> QED
      BY <1>3, <1>6, <2>1, SumIsInt
  <1> QED
    BY <1>2, <1>4, <1>8, <1>9, <1>10

(* One more term.                                                          *)
LEMMA SumAdd ==
    ASSUME NEW S, IsFiniteSet(S), NEW f, NEW y, y \notin S, \A x \in S \cup {y} : f[x] \in Int
    PROVE  SumFunctionOnSet(f, S \cup {y}) = f[y] + SumFunctionOnSet(f, S)
  <1>1. IsFiniteSet(S \cup {y}) /\ (S \cup {y}) \ {y} = S
    BY FS_AddElement
  <1> QED
    BY <1>1, SumRemove

(* Only the terms of S count.                                              *)
LEMMA SumSame ==
    ASSUME NEW S, IsFiniteSet(S), NEW f, NEW g, \A x \in S : f[x] = g[x]
    PROVE  SumFunctionOnSet(f, S) = SumFunctionOnSet(g, S)
  <1>1. PICK F : Totals(f, S, F) /\ SumFunctionOnSet(f, S) = F[S]
    BY SumSolves
  <1>2. PICK G : Totals(g, S, G) /\ SumFunctionOnSet(g, S) = G[S]
    BY SumSolves
  <1>3. Totals(f, S, G)
    BY <1>2, ChosenIn DEF Totals
  <1> QED
    BY <1>1, <1>2, <1>3, TotalsAgree

(* One term changes.                                                       *)
LEMMA SumUpdate ==
    ASSUME NEW S, IsFiniteSet(S), NEW f, NEW g, NEW y \in S,
           \A x \in S : f[x] \in Int, g[y] \in Int, \A x \in S \ {y} : g[x] = f[x]
    PROVE  SumFunctionOnSet(g, S) = SumFunctionOnSet(f, S) + g[y] - f[y]
  <1>1. IsFiniteSet(S \ {y})
    BY FS_Subset
  <1>2. \A x \in S : g[x] \in Int
    OBVIOUS
  <1>3. SumFunctionOnSet(g, S) = g[y] + SumFunctionOnSet(g, S \ {y})
    BY <1>2, SumRemove
  <1>4. SumFunctionOnSet(f, S) = f[y] + SumFunctionOnSet(f, S \ {y})
    BY SumRemove
  <1>5. SumFunctionOnSet(g, S \ {y}) = SumFunctionOnSet(f, S \ {y})
    BY <1>1, SumSame
  <1>6. SumFunctionOnSet(f, S \ {y}) \in Int
    BY <1>1, SumIsInt
  <1> QED
    BY <1>3, <1>4, <1>5, <1>6

(* Zeros add up to 0.                                                      *)
LEMMA SumZero ==
    ASSUME NEW S, IsFiniteSet(S), NEW f, \A x \in S : f[x] = 0
    PROVE  SumFunctionOnSet(f, S) = 0
  <1> DEFINE Zero == [T \in SUBSET S |-> 0]
  <1>1. PICK F : Totals(f, S, F) /\ SumFunctionOnSet(f, S) = F[S]
    BY SumSolves
  <1>2. Totals(f, S, Zero)
    BY ChosenIn DEF Totals
  <1> HIDE DEF Zero
  <1>3. F[S] = Zero[S]
    BY <1>1, <1>2, TotalsAgree
  <1> QED
    BY <1>1, <1>3 DEF Zero

-----------------------------------------------------------------------------
(* Induction and recursion.                                                *)

(* Induction with the numbers that satisfy a predicate given as a set.     *)
LEMMA EveryNumber ==
    ASSUME NEW T, 0 \in T, \A n \in Nat : n \in T => n + 1 \in T
    PROVE  \A n \in Nat : n \in T
  <1> SUFFICES ASSUME NEW m \in Nat, m \notin T PROVE FALSE
    OBVIOUS
  <1> DEFINE Bad == {0 .. k : k \in 0 .. m \ T}
  <1>1. PICK A \in Bad : \A B \in Bad : ~ (B \subseteq A /\ B # A)
    <2>1. IsFiniteSet(0 .. m)
      BY FS_Interval
    <2>2. Bad \subseteq SUBSET (0 .. m) /\ Bad # {}
      OBVIOUS
    <2> HIDE DEF Bad
    <2> DEFINE All == 0 .. m
    <2>3. IsFiniteSet(All) /\ Bad \subseteq SUBSET All /\ Bad # {}
      BY <2>1, <2>2
    <2> HIDE DEF All
    <2> QED
      BY <2>3, FiniteMinimum
  <1>2. PICK k \in 0 .. m \ T : A = 0 .. k
    OBVIOUS
  <1>3. k # 0 /\ k - 1 \in 0 .. m /\ k - 1 \in Nat
    BY <1>2
  <1>4. k - 1 \notin T
    BY <1>2, <1>3
  <1>5. 0 .. (k - 1) \in Bad
    BY <1>3, <1>4
  <1>6. 0 .. (k - 1) \subseteq A /\ 0 .. (k - 1) # A
    BY <1>2, <1>3
  <1> QED
    BY <1>1, <1>5, <1>6

Iterates(S, a, step, n) ==
    {f \in [0 .. n -> S] : f[0] = a /\ \A k \in 1 .. n : f[k] = step[f[k - 1]]}

IsStep(S, step) == step \in [S -> S]

Repeats(S, a, step, f) ==
    f \in [Nat -> S] /\ f[0] = a /\ \A n \in Nat : f[n + 1] = step[f[n]]

(* A step can be repeated as often as one likes.                           *)
LEMMA Iteration ==
    ASSUME NEW S, NEW a \in S, NEW step, IsStep(S, step)
    PROVE  \E f : Repeats(S, a, step, f)
  <1> USE DEF IsStep
  <1> DEFINE Some == {n \in Nat : Iterates(S, a, step, n) # {}}
  <1>1. ASSUME NEW n \in Nat PROVE n \in Some
    <2>1. 0 \in Some
      <3> DEFINE f == [k \in 0 .. 0 |-> a]
      <3>1. f \in Iterates(S, a, step, 0)
        BY DEF Iterates
      <3> QED
        BY <3>1
    <2>2. ASSUME NEW m \in Some PROVE m + 1 \in Some
      <3>1. PICK f : f \in Iterates(S, a, step, m)
        OBVIOUS
      <3> DEFINE g == [k \in 0 .. (m + 1) |-> IF k = m + 1 THEN step[f[m]] ELSE f[k]]
      <3>2. /\ m \in Nat /\ f \in [0 .. m -> S] /\ f[0] = a
            /\ \A k \in 1 .. m : f[k] = step[f[k - 1]]
        BY <3>1 DEF Iterates
      <3>3. g \in [0 .. (m + 1) -> S] /\ g[0] = a
        BY <3>2
      <3>4. ASSUME NEW k \in 1 .. (m + 1) PROVE g[k] = step[g[k - 1]]
        <4>1. k - 1 \in 0 .. m /\ k - 1 # m + 1 /\ g[k - 1] = f[k - 1]
          BY <3>2
        <4>2. CASE k = m + 1
          <5>1. g[k] = step[f[m]] /\ k - 1 = m
            BY <3>2, <4>2
          <5> QED
            BY <4>1, <5>1
        <4>3. CASE k # m + 1
          <5>1. g[k] = f[k] /\ k \in 1 .. m
            BY <3>2, <4>3
          <5> HIDE DEF g
          <5> QED
            BY <4>1, <5>1, <3>2
        <4> QED
          BY <4>2, <4>3
      <3> HIDE DEF g
      <3>5. g \in Iterates(S, a, step, m + 1)
        BY <3>3, <3>4 DEF Iterates
      <3> QED
        BY <3>2, <3>5
    <2> HIDE DEF Some
    <2> QED
      BY <2>1, <2>2, EveryNumber
  <1>2. ASSUME NEW n \in Nat, NEW f \in Iterates(S, a, step, n), NEW m \in Nat,
               NEW g \in Iterates(S, a, step, m)
        PROVE  \A k \in Nat : k <= n /\ k <= m => f[k] = g[k]
    <2> DEFINE Agree == {k \in Nat : k <= n /\ k <= m => f[k] = g[k]}
    <2>1. 0 \in Agree
      BY DEF Iterates
    <2>2. ASSUME NEW k \in Nat, k \in Agree PROVE k + 1 \in Agree
      <3>1. SUFFICES ASSUME k + 1 <= n /\ k + 1 <= m PROVE f[k + 1] = g[k + 1]
        OBVIOUS
      <3>2. f[k] = g[k] /\ k + 1 \in 1 .. n /\ k + 1 \in 1 .. m /\ (k + 1) - 1 = k
        BY <2>2, <3>1
      <3>3. f[k + 1] = step[f[(k + 1) - 1]] /\ g[k + 1] = step[g[(k + 1) - 1]]
        BY <3>2 DEF Iterates
      <3> QED
        BY <3>2, <3>3
    <2>3. \A k \in Nat : k \in Agree
      <3> HIDE DEF Agree
      <3> QED
        BY <2>1, <2>2, EveryNumber
    <2> QED
      BY <2>3
  <1> DEFINE Sol == [n \in Nat |-> CHOOSE f : f \in Iterates(S, a, step, n)]
             F   == [n \in Nat |-> Sol[n][n]]
  <1>3. \A n \in Nat : Sol[n] \in Iterates(S, a, step, n)
    BY <1>1
  <1> HIDE DEF Some, Sol
  <1>4. F \in [Nat -> S]
    BY <1>3 DEF Iterates
  <1>5. F[0] = a
    BY <1>3 DEF Iterates
  <1>6. ASSUME NEW n \in Nat PROVE F[n + 1] = step[F[n]]
    <2>1. n + 1 \in Nat /\ n + 1 \in 1 .. (n + 1) /\ n <= n + 1 /\ (n + 1) - 1 = n
      OBVIOUS
    <2>2. Sol[n] \in Iterates(S, a, step, n) /\ Sol[n + 1] \in Iterates(S, a, step, n + 1)
      BY <1>3, <2>1
    <2>3. Sol[n + 1][n] = Sol[n][n]
      BY <1>2, <2>1, <2>2
    <2>4. Sol[n + 1][n + 1] = step[Sol[n + 1][n]]
      BY <2>1, <2>2 DEF Iterates
    <2> QED
      BY <2>1, <2>3, <2>4
  <1> HIDE DEF F
  <1> QED
    BY <1>4, <1>5, <1>6 DEF Repeats

(* A recursive definition over 0 .. N whose step knows where it is.        *)
AreSteps(N, S, step) == step \in [(1 .. N) \X S -> S]

Follows(N, S, a, step, f) ==
    /\ f \in [0 .. N -> S] /\ f[0] = a
    /\ \A k \in 1 .. N : f[k] = step[<<k, f[k - 1]>>]

LEMMA Recursion ==
    ASSUME NEW N \in Nat, NEW S, NEW a \in S, NEW step, AreSteps(N, S, step)
    PROVE  \E f : Follows(N, S, a, step, f)
  <1> DEFINE Upto(n) == {f \in [0 .. n -> S] : f[0] = a /\ \A k \in 1 .. n : f[k] = step[<<k, f[k - 1]>>]}
             Some == {n \in Nat : n <= N => Upto(n) # {}}
  <1>1. 0 \in Some
    <2> DEFINE f == [k \in 0 .. 0 |-> a]
    <2>1. f \in Upto(0)
      OBVIOUS
    <2> HIDE DEF Upto
    <2> QED
      BY <2>1
  <1>2. ASSUME NEW n \in Nat, n \in Some PROVE n + 1 \in Some
    <2> SUFFICES ASSUME n + 1 <= N PROVE Upto(n + 1) # {}
      OBVIOUS
    <2>1. PICK f : f \in Upto(n)
      <3> HIDE DEF Upto
      <3> QED
        BY <1>2
    <2> DEFINE next == step[<<n + 1, f[n]>>]
               g == [k \in 0 .. (n + 1) |-> IF k = n + 1 THEN next ELSE f[k]]
    <2>2. f \in [0 .. n -> S] /\ f[0] = a /\ \A k \in 1 .. n : f[k] = step[<<k, f[k - 1]>>]
      BY <2>1
    <2>3. next \in S
      <3>1. <<n + 1, f[n]>> \in (1 .. N) \X S
        BY <2>2
      <3> QED
        BY <3>1 DEF AreSteps
    <2>4. g \in [0 .. (n + 1) -> S] /\ g[0] = a
      <3> HIDE DEF next
      <3> QED
        BY <2>2, <2>3
    <2>5. ASSUME NEW k \in 1 .. (n + 1) PROVE g[k] = step[<<k, g[k - 1]>>]
      <3>1. k - 1 \in 0 .. n /\ k - 1 # n + 1 /\ k - 1 \in 0 .. (n + 1)
        OBVIOUS
      <3>2. g[k - 1] = f[k - 1]
        <4> HIDE DEF next
        <4> QED
          BY <3>1
      <3>3. CASE k = n + 1
        <4>1. g[k] = next /\ k - 1 = n
          BY <3>3
        <4> HIDE DEF g
        <4> QED
          BY <3>2, <3>3, <4>1
      <3>4. CASE k # n + 1
        <4>1. g[k] = f[k] /\ k \in 1 .. n
          BY <3>4
        <4> HIDE DEF g, next
        <4> QED
          BY <2>2, <3>2, <4>1
      <3> QED
        BY <3>3, <3>4
    <2> HIDE DEF g
    <2>6. g \in Upto(n + 1)
      BY <2>4, <2>5
    <2> QED
      BY <2>6
  <1>3. N \in Some
    <2> HIDE DEF Some
    <2> QED
      BY <1>1, <1>2, EveryNumber
  <1>4. PICK f : f \in Upto(N)
    <2> HIDE DEF Upto
    <2> QED
      BY <1>3
  <1> QED
    BY <1>4 DEF Follows

-----------------------------------------------------------------------------
(* The least and the greatest.                                             *)

LEMMA LeastOf ==
    ASSUME NEW A, A \subseteq Nat, A # {}
    PROVE  Min(A) \in A /\ \A x \in A : Min(A) <= x
  <1> DEFINE Below == {n \in Nat : \A k \in A : ~ (k <= n)}
  <1>1. \E a \in A : \A x \in A : a <= x
    <2> SUFFICES ASSUME \A a \in A : \E x \in A : ~ (a <= x) PROVE FALSE
      OBVIOUS
    <2>1. 0 \in Below
      <3> SUFFICES ASSUME NEW k \in A, k <= 0 PROVE FALSE
        OBVIOUS
      <3>1. k = 0
        OBVIOUS
      <3> QED
        BY <3>1
    <2>2. ASSUME NEW n \in Nat, n \in Below PROVE n + 1 \in Below
      <3> SUFFICES ASSUME NEW k \in A, k <= n + 1 PROVE FALSE
        OBVIOUS
      <3>1. PICK x \in A : ~ (k <= x)
        OBVIOUS
      <3>2. x <= n
        <4>1. x \in Nat /\ k \in Nat
          OBVIOUS
        <4> QED
          BY <3>1, <4>1
      <3> QED
        BY <2>2, <3>2
    <2>3. \A n \in Nat : n \in Below
      <3> HIDE DEF Below
      <3> QED
        BY <2>1, <2>2, EveryNumber
    <2>4. PICK a \in A : TRUE
      OBVIOUS
    <2>5. a \in Nat /\ a <= a
      OBVIOUS
    <2> QED
      BY <2>3, <2>5
  <1> HIDE DEF Below
  <1> QED
    BY <1>1 DEF Min

LEMMA GreatestOf ==
    ASSUME NEW N \in Nat, NEW A, A \subseteq 0 .. N, A # {}
    PROVE  Max(A) \in A /\ \A x \in A : Max(A) >= x
  <1> DEFINE Rest == {N - x : x \in A}
             least == Min(Rest)
  <1>1. Rest \subseteq Nat /\ Rest # {}
    <2>1. \A x \in A : x \in Nat /\ x <= N
      OBVIOUS
    <2>2. \A x \in A : N - x \in Nat
      BY <2>1
    <2> QED
      BY <2>2
  <1>2. least \in Rest /\ \A x \in Rest : least <= x
    <2> HIDE DEF Rest
    <2> QED
      BY <1>1, LeastOf
  <1> HIDE DEF least
  <1>3. PICK a \in A : least = N - a
    BY <1>2
  <1>4. \A x \in A : a >= x
    <2> SUFFICES ASSUME NEW x \in A PROVE a >= x
      OBVIOUS
    <2>1. N - a <= N - x
      BY <1>2, <1>3
    <2> QED
      BY <2>1
  <1> QED
    BY <1>4 DEF Max

LEMMA SmallerOf ==
    ASSUME NEW a \in Int, NEW b \in Int
    PROVE  Min({a, b}) = IF a <= b THEN a ELSE b
  <1>1. \A x \in {a, b} : (\A y \in {a, b} : x <= y) => x = IF a <= b THEN a ELSE b
    OBVIOUS
  <1>2. \E x \in {a, b} : \A y \in {a, b} : x <= y
    OBVIOUS
  <1> QED
    BY <1>1, <1>2 DEF Min

-----------------------------------------------------------------------------
(* Sequences.                                                              *)

LEMMA ConcatIs ==
    ASSUME NEW S, NEW s \in Seq(S), NEW t \in Seq(S)
    PROVE  /\ s \o t \in Seq(S) /\ Len(s \o t) = Len(s) + Len(t) /\ Len(s) \in Nat /\ Len(t) \in Nat
           /\ \A i \in 1 .. Len(s) : (s \o t)[i] = s[i]
           /\ \A i \in 1 .. Len(t) : (s \o t)[Len(s) + i] = t[i]
  <1> DEFINE m == Len(s)
             n == Len(t)
             u == s \o t
  <1>1. /\ u \in Seq(S) /\ Len(u) = m + n /\ m \in Nat /\ n \in Nat
        /\ \A i \in 1 .. m + n : u[i] = IF i <= m THEN s[i] ELSE t[i - m]
    BY ConcatProperties
  <1> HIDE DEF m, n, u
  <1>2. ASSUME NEW i \in 1 .. m PROVE u[i] = s[i]
    BY <1>1
  <1>3. ASSUME NEW i \in 1 .. n PROVE u[m + i] = t[i]
    <2>1. m + i \in 1 .. m + n /\ ~ (m + i <= m) /\ (m + i) - m = i
      BY <1>1
    <2> QED
      BY <1>1, <2>1
  <1> QED
    BY <1>1, <1>2, <1>3 DEF m, n, u

-----------------------------------------------------------------------------
(* Sequences of sequences.                                                 *)

(* f[i] is the first i of seqs in one.                                     *)
Flattens(seqs, f) ==
    \A i \in 1 .. Len(seqs) : f[i] = IF i = 1 THEN seqs[i] ELSE f[i - 1] \o seqs[i]

IsFlat(seqs, f) ==
    f = [i \in 1 .. Len(seqs) |-> IF i = 1 THEN seqs[i] ELSE f[i - 1] \o seqs[i]]

LEMMA ConcatTyped ==
    ASSUME NEW T, NEW s \in Seq(T), NEW t \in Seq(T)
    PROVE  s \o t \in Seq(T) /\ Len(s \o t) = Len(s) + Len(t)
  OBVIOUS

LEMMA SomeFlattens ==
    ASSUME NEW T, NEW seqs \in Seq(Seq(T)), seqs # <<>>
    PROVE  \E f : IsFlat(seqs, f)
  <1> DEFINE N == Len(seqs) - 1
             S == Seq(T)
             a == seqs[1]
             step == [x \in (1 .. N) \X S |-> x[2] \o seqs[x[1] + 1]]
  <1>1. N \in Nat /\ N + 1 = Len(seqs) /\ a \in S /\ \A k \in 1 .. Len(seqs) : seqs[k] \in S
    OBVIOUS
  <1>2. AreSteps(N, S, step)
    <2>1. ASSUME NEW x \in (1 .. N) \X S PROVE x[2] \o seqs[x[1] + 1] \in S
      <3>1. x[2] \in S /\ x[1] + 1 \in 1 .. Len(seqs)
        BY <1>1
      <3> QED
        BY <1>1, <3>1, ConcatTyped
    <2> HIDE DEF N, S
    <2> QED
      BY <2>1 DEF AreSteps
  <1> HIDE DEF N, S, a, step
  <1>3. PICK g : Follows(N, S, a, step, g)
    BY <1>1, <1>2, Recursion
  <1>4. g \in [0 .. N -> S] /\ g[0] = seqs[1] /\ \A k \in 1 .. N : g[k] = step[<<k, g[k - 1]>>]
    BY <1>3 DEF Follows, a
  <1> DEFINE f == [i \in 1 .. Len(seqs) |-> g[i - 1]]
  <1>5. ASSUME NEW i \in 1 .. Len(seqs)
        PROVE  f[i] = IF i = 1 THEN seqs[i] ELSE f[i - 1] \o seqs[i]
    <2>1. CASE i = 1
      BY <1>4, <2>1
    <2>2. CASE i # 1
      <3>1. i - 1 \in 1 .. N /\ i - 1 \in 1 .. Len(seqs) /\ (i - 1) - 1 \in 0 .. N /\ (i - 1) + 1 = i
        BY <1>1, <2>2
      <3>2. f[i] = g[i - 1] /\ f[i - 1] = g[(i - 1) - 1]
        BY <3>1
      <3>3. g[i - 1] = step[<<i - 1, g[(i - 1) - 1]>>] /\ g[(i - 1) - 1] \in S
        BY <1>4, <3>1
      <3> DEFINE b == g[(i - 1) - 1]
      <3>4. step[<<i - 1, b>>] = b \o seqs[i]
        <4> HIDE DEF b
        <4>1. <<i - 1, b>> \in (1 .. N) \X S
          BY <3>1, <3>3 DEF b
        <4> QED
          BY <4>1, <3>1 DEF step
      <3> HIDE DEF f
      <3> QED
        BY <2>2, <3>2, <3>3, <3>4
    <2> QED
      BY <2>1, <2>2
  <1>6. f = [i \in 1 .. Len(seqs) |-> f[i]]
    OBVIOUS
  <1> HIDE DEF f
  <1>7. IsFlat(seqs, f)
    BY <1>5, <1>6 DEF IsFlat
  <1> QED
    BY <1>7

(* FlattenSeq is the last of them.                                         *)
LEMMA FlattenFlattens ==
    ASSUME NEW T, NEW seqs \in Seq(Seq(T)), seqs # <<>>
    PROVE  \E f : Flattens(seqs, f) /\ FlattenSeq(seqs) = f[Len(seqs)]
  <1> DEFINE f == CHOOSE g : IsFlat(seqs, g)
  <1>1. IsFlat(seqs, f)
    BY SomeFlattens
  <1>2. FlattenSeq(seqs) = f[Len(seqs)]
    <2>1. Len(seqs) # 0
      OBVIOUS
    <2> QED
      BY <2>1 DEF FlattenSeq, IsFlat
  <1> HIDE DEF f
  <1>3. Flattens(seqs, f)
    BY <1>1 DEF IsFlat, Flattens
  <1> QED
    BY <1>2, <1>3

LEMMA FlattenNone == FlattenSeq(<<>>) = <<>>
  BY DEF FlattenSeq

LEMMA FlattenOne ==
    ASSUME NEW T, NEW s \in Seq(T)
    PROVE  FlattenSeq(<<s>>) = s
  <1> DEFINE seqs == <<s>>
  <1>1. seqs \in Seq(Seq(T)) /\ seqs # <<>> /\ Len(seqs) = 1 /\ seqs[1] = s
    OBVIOUS
  <1> HIDE DEF seqs
  <1>2. PICK f : Flattens(seqs, f) /\ FlattenSeq(seqs) = f[Len(seqs)]
    BY <1>1, FlattenFlattens
  <1>3. f[1] = s
    BY <1>1, <1>2 DEF Flattens
  <1> QED
    BY <1>1, <1>2, <1>3 DEF seqs

(* What comes last is appended.                                            *)
LEMMA FlattenAppend ==
    ASSUME NEW T, NEW seqs \in Seq(Seq(T)), NEW s \in Seq(T)
    PROVE  FlattenSeq(Append(seqs, s)) = FlattenSeq(seqs) \o s
  <1>1. CASE seqs = <<>>
    <2>1. Append(seqs, s) = <<s>>
      BY <1>1
    <2>2. FlattenSeq(seqs) = <<>>
      BY <1>1, FlattenNone
    <2>3. <<>> \o s = s
      OBVIOUS
    <2> QED
      BY <2>1, <2>2, <2>3, FlattenOne
  <1>2. CASE seqs # <<>>
    <2> DEFINE more == Append(seqs, s)
               n == Len(seqs)
    <2>1. /\ more \in Seq(Seq(T)) /\ more # <<>> /\ Len(more) = n + 1 /\ n \in Nat /\ n # 0
          /\ more[n + 1] = s /\ \A i \in 1 .. n : more[i] = seqs[i]
      BY <1>2
    <2> HIDE DEF more, n
    <2>2. PICK f : Flattens(seqs, f) /\ FlattenSeq(seqs) = f[n]
      BY <1>2, FlattenFlattens DEF n
    <2>3. PICK g : Flattens(more, g) /\ FlattenSeq(more) = g[n + 1]
      BY <2>1, FlattenFlattens
    <2> DEFINE Same == {i \in Nat : i + 1 <= n => g[i + 1] = f[i + 1]}
    <2>4. \A i \in Nat : i \in Same
      <3>1. 0 \in Same
        BY <2>1, <2>2, <2>3 DEF Flattens, n
      <3>2. ASSUME NEW i \in Nat, i \in Same PROVE i + 1 \in Same
        <4> SUFFICES ASSUME (i + 1) + 1 <= n PROVE g[(i + 1) + 1] = f[(i + 1) + 1]
          OBVIOUS
        <4> DEFINE j == (i + 1) + 1
        <4>1. j \in 1 .. n /\ j \in 1 .. (n + 1) /\ j # 1 /\ j - 1 = i + 1 /\ i + 1 <= n
          BY <2>1
        <4>2. g[i + 1] = f[i + 1]
          BY <3>2, <4>1
        <4> HIDE DEF j
        <4>3. g[j] = g[j - 1] \o more[j]
          BY <2>1, <2>3, <4>1 DEF Flattens
        <4>4. f[j] = f[j - 1] \o seqs[j]
          BY <2>1, <2>2, <4>1 DEF Flattens, n
        <4> QED
          BY <2>1, <4>1, <4>2, <4>3, <4>4 DEF j
      <3> HIDE DEF Same
      <3> QED
        BY <3>1, <3>2, EveryNumber
    <2>5. g[n] = f[n]
      <3>1. n - 1 \in Nat /\ (n - 1) + 1 = n
        BY <2>1
      <3> QED
        BY <2>4, <3>1
    <2>6. g[n + 1] = g[n] \o s
      <3>1. n + 1 \in 1 .. (n + 1) /\ n + 1 # 1 /\ (n + 1) - 1 = n
        BY <2>1
      <3> QED
        BY <2>1, <2>3, <3>1 DEF Flattens
    <2> QED
      BY <2>2, <2>3, <2>5, <2>6 DEF more
  <1> QED
    BY <1>1, <1>2

LEMMA FrontAndLast ==
    ASSUME NEW S, NEW s \in Seq(S), NEW n \in Nat, Len(s) = n + 1
    PROVE  /\ SubSeq(s, 1, n) \in Seq(S) /\ Len(SubSeq(s, 1, n)) = n /\ s[n + 1] \in S
           /\ s = Append(SubSeq(s, 1, n), s[n + 1])
  <1> DEFINE front == SubSeq(s, 1, n)
  <1>1. front \in Seq(S) /\ Len(front) = n /\ \A i \in 1 .. n : front[i] = s[i]
    OBVIOUS
  <1>2. s[n + 1] \in S
    OBVIOUS
  <1> HIDE DEF front
  <1>3. s = Append(front, s[n + 1])
    BY <1>1, <1>2
  <1> QED
    BY <1>1, <1>2, <1>3 DEF front

(* Whatever the elements of all the sequences are in, those of the one are *)
(* in as well.                                                             *)
LEMMA FlattenTyped ==
    ASSUME NEW T, NEW seqs \in Seq(Seq(T))
    PROVE  FlattenSeq(seqs) \in Seq(T)
  <1> DEFINE S == Seq(T)
             Typed == {n \in Nat : \A q \in Seq(S) : Len(q) = n => FlattenSeq(q) \in S}
  <1>1. 0 \in Typed
    <2>1. \A q \in Seq(S) : Len(q) = 0 => q = <<>>
      OBVIOUS
    <2>2. <<>> \in S
      OBVIOUS
    <2> HIDE DEF S
    <2> QED
      BY <2>1, <2>2, FlattenNone
  <1>2. ASSUME NEW n \in Nat, n \in Typed PROVE n + 1 \in Typed
    <2> SUFFICES ASSUME NEW q \in Seq(S), Len(q) = n + 1 PROVE FlattenSeq(q) \in S
      OBVIOUS
    <2> DEFINE front == SubSeq(q, 1, n)
               x == q[n + 1]
    <2>1. front \in Seq(S) /\ x \in S /\ Len(front) = n /\ q = Append(front, x)
      <3>1. q \in Seq(S) /\ Len(q) = n + 1 /\ n \in Nat
        OBVIOUS
      <3> HIDE DEF S, Typed
      <3> QED
        BY <3>1, FrontAndLast
    <2> HIDE DEF front, x
    <2>2. FlattenSeq(front) \in S
      BY <1>2, <2>1
    <2>3. FlattenSeq(q) = FlattenSeq(front) \o x
      BY <2>1, FlattenAppend
    <2> QED
      BY <2>2, <2>3, <2>1, ConcatTyped
  <1>3. \A n \in Nat : n \in Typed
    <2> HIDE DEF Typed
    <2> QED
      BY <1>1, <1>2, EveryNumber
  <1> QED
    BY <1>3

LEMMA FlattenConcat ==
    ASSUME NEW T, NEW a \in Seq(Seq(T)), NEW b \in Seq(Seq(T))
    PROVE  FlattenSeq(a \o b) = FlattenSeq(a) \o FlattenSeq(b)
  <1> DEFINE S == Seq(T)
             Joins == {n \in Nat : \A q \in Seq(S) : Len(q) = n => FlattenSeq(a \o q) = FlattenSeq(a) \o FlattenSeq(q)}
  <1>1. a \in Seq(S) /\ b \in Seq(S) /\ FlattenSeq(a) \in S
    BY FlattenTyped
  <1>2. 0 \in Joins
    <2> SUFFICES ASSUME NEW q \in Seq(S), Len(q) = 0 PROVE FlattenSeq(a \o q) = FlattenSeq(a) \o FlattenSeq(q)
      OBVIOUS
    <2>1. q = <<>>
      OBVIOUS
    <2>2. a \o q = a /\ FlattenSeq(q) = <<>>
      BY <1>1, <2>1, FlattenNone, ConcatEmptySeq
    <2>3. FlattenSeq(a) \o <<>> = FlattenSeq(a)
      BY <1>1, ConcatEmptySeq
    <2> QED
      BY <2>2, <2>3
  <1>3. ASSUME NEW n \in Nat, n \in Joins PROVE n + 1 \in Joins
    <2> SUFFICES ASSUME NEW q \in Seq(S), Len(q) = n + 1 PROVE FlattenSeq(a \o q) = FlattenSeq(a) \o FlattenSeq(q)
      OBVIOUS
    <2> DEFINE front == SubSeq(q, 1, n)
               x == q[n + 1]
    <2>1. front \in Seq(S) /\ x \in S /\ Len(front) = n /\ q = Append(front, x)
      <3>1. q \in Seq(S) /\ Len(q) = n + 1 /\ n \in Nat
        OBVIOUS
      <3> HIDE DEF S, Joins
      <3> QED
        BY <3>1, FrontAndLast
    <2> HIDE DEF front, x
    <2>2. FlattenSeq(a \o front) = FlattenSeq(a) \o FlattenSeq(front)
      BY <1>3, <2>1
    <2> HIDE DEF Joins
    <2>3. a \o q = Append(a \o front, x)
      <3> HIDE DEF S
      <3> QED
        BY <1>1, <2>1, AppendIsConcat, ConcatAssociative, ConcatTyped
    <2>4. a \o front \in Seq(S)
      <3> HIDE DEF S
      <3> QED
        BY <1>1, <2>1, ConcatTyped
    <2>5. FlattenSeq(a \o q) = FlattenSeq(a \o front) \o x
      BY <2>1, <2>3, <2>4, FlattenAppend
    <2>6. FlattenSeq(q) = FlattenSeq(front) \o x
      BY <2>1, FlattenAppend
    <2>7. FlattenSeq(front) \in S
      BY <2>1, FlattenTyped
    <2>8. (FlattenSeq(a) \o FlattenSeq(front)) \o x = FlattenSeq(a) \o (FlattenSeq(front) \o x)
      <3> DEFINE u == FlattenSeq(a)
                 v == FlattenSeq(front)
      <3>1. u \in Seq(T) /\ v \in Seq(T) /\ x \in Seq(T)
        BY <1>1, <2>1, <2>7
      <3> HIDE DEF u, v, S
      <3>2. (u \o v) \o x = u \o (v \o x)
        BY <3>1, ConcatAssociative
      <3> QED
        BY <3>2 DEF u, v
    <2> QED
      BY <2>2, <2>5, <2>6, <2>8
  <1>4. \A n \in Nat : n \in Joins
    <2> HIDE DEF Joins
    <2> QED
      BY <1>2, <1>3, EveryNumber
  <1>5. Len(b) \in Nat /\ b \in Seq(S)
    OBVIOUS
  <1> QED
    BY <1>4, <1>5
=============================================================================
