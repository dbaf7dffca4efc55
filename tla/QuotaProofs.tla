---------------------------- MODULE QuotaProofs -----------------------------
(***************************************************************************)
(* The byte quotas, for every set of paths, contents and operations and    *)
(* every limit: the counters that Commit, ExpireUploadSessions and         *)
(* PruneVersions keep by increments match the rows they summarise.         *)
(***************************************************************************)
EXTENDS Quota, HistoryProofs, FiniteSetTheorems

-----------------------------------------------------------------------------
(* Sums over finite sets *)

\* The element that the sum of the community modules takes first.
Pick(s) == CHOOSE x \in s : TRUE

\* The function by which that sum is defined: the sums over all subsets.
IsSum(f, S, g) ==
    g = [s \in SUBSET S |-> IF s = {} THEN 0 ELSE f[Pick(s)] + g[s \ {Pick(s)}]]

\* The sum of the versions' and of the sessions' sizes is one such function's value.
LEMMA SumDefinition ==
  ASSUME NEW f, NEW S
  PROVE  SumFunctionOnSet(f, S) = (CHOOSE g : IsSum(f, S, g))[S]
  BY DEF SumFunctionOnSet, FoldFunctionOnSet, MapThenFoldSet, IsSum, Pick

\* Among some subsets of a finite set one is minimal: the inductions below look at
\* the smallest set of versions or sessions that would break the claim.
LEMMA SmallestSet ==
  ASSUME NEW S, IsFiniteSet(S), NEW C \in SUBSET (SUBSET S), C # {}
  PROVE  \E T \in C : \A U \in C : U \subseteq T => U = T
<1>1. IsWellFoundedOn(StrictSubsetOrdering(S), SUBSET S)
  BY FS_StrictSubsetOrderingWellFounded, FS_FiniteSubsetsOfFinite
<1>2. PICK T \in C : \A U \in C : ~ (<<U, T>> \in StrictSubsetOrdering(S))
  <2>. DEFINE O == StrictSubsetOrdering(S)
           D == SUBSET S
  <2>1. IsWellFoundedOn(O, D) /\ C \subseteq D
    BY <1>1
  <2>. HIDE DEF O, D
  <2>2. QED
    BY <2>1, WFMin DEF O
<1>3. QED
  BY <1>2 DEF StrictSubsetOrdering

\* A sum depends on nothing but the sizes of what is summed.
LEMMA SumsAgree ==
  ASSUME NEW S, IsFiniteSet(S), NEW f, NEW g, IsSum(f, S, g),
         NEW S2, NEW f2, NEW g2, IsSum(f2, S2, g2),
         NEW T, T \subseteq S, T \subseteq S2, \A x \in T : f[x] = f2[x]
  PROVE  g[T] = g2[T]
<1> DEFINE C == {U \in SUBSET T : g[U] # g2[U]}
<1>1. SUFFICES ASSUME C # {} PROVE FALSE
  OBVIOUS
<1>2. IsFiniteSet(T)
  BY FS_Subset
<1>3. PICK U \in C : \A V \in C : V \subseteq U => V = U
  <2> HIDE DEF C
  <2>1. C \in SUBSET (SUBSET T)
    BY DEF C
  <2>2. QED
    BY <1>1, <1>2, <2>1, SmallestSet
<1>4. g[U] = (IF U = {} THEN 0 ELSE f[Pick(U)] + g[U \ {Pick(U)}])
  BY <1>3 DEF IsSum
<1>5. g2[U] = (IF U = {} THEN 0 ELSE f2[Pick(U)] + g2[U \ {Pick(U)}])
  BY <1>3 DEF IsSum
<1>6. U # {}
  BY <1>3, <1>4, <1>5
<1>7. Pick(U) \in U
  BY <1>6 DEF Pick
<1>8. U \ {Pick(U)} \notin C
  BY <1>3, <1>7
<1>9. QED
  BY <1>3, <1>4, <1>5, <1>6, <1>7, <1>8

\* There is such a function for every finite set.
LEMMA SumExists ==
  ASSUME NEW S, IsFiniteSet(S), NEW f
  PROVE  \E g : IsSum(f, S, g)
<1> DEFINE C == {T \in SUBSET S : ~ \E g : IsSum(f, T, g)}
           Total(T) == (CHOOSE g : IsSum(f, T, g))[T]
<1>1. SUFFICES ASSUME C # {} PROVE FALSE
  OBVIOUS
<1>2. PICK T \in C : \A U \in C : U \subseteq T => U = T
  <2> HIDE DEF C
  <2>1. C \in SUBSET (SUBSET S)
    BY DEF C
  <2>2. QED
    BY <1>1, <2>1, SmallestSet
<1>3. \A U \in SUBSET T : U # T => IsSum(f, U, CHOOSE g : IsSum(f, U, g))
  BY <1>2
<1> DEFINE g == [s \in SUBSET T |-> IF s = {} THEN 0 ELSE f[Pick(s)] + Total(s \ {Pick(s)})]
<1>4. ASSUME NEW s \in SUBSET T, s # T PROVE g[s] = Total(s)
  <2> DEFINE h == CHOOSE z : IsSum(f, s, z)
             r == s \ {Pick(s)}
             k == CHOOSE z : IsSum(f, r, z)
  <2>1. IsSum(f, s, h)
    BY <1>3, <1>4
  <2>2. h[s] = (IF s = {} THEN 0 ELSE f[Pick(s)] + h[r])
    BY <2>1 DEF IsSum
  <2>3. CASE s = {}
    BY <2>2, <2>3
  <2>4. CASE s # {}
    <3>1. IsSum(f, r, k)
      BY <1>3, <1>4
    <3>2. IsFiniteSet(s)
      BY <1>4, FS_Subset
    <3>3. h[r] = k[r]
      <4> HIDE DEF h, k, C
      <4>1. r \subseteq s
        OBVIOUS
      <4> HIDE DEF r
      <4>2. QED
        BY <2>1, <3>1, <3>2, <4>1, SumsAgree
    <3>4. QED
      BY <2>2, <2>4, <3>3
  <2>5. QED
    BY <2>3, <2>4
<1>5. IsSum(f, T, g)
  <2>1. ASSUME NEW s \in SUBSET T, s # {} PROVE Total(s \ {Pick(s)}) = g[s \ {Pick(s)}]
    <3>1. Pick(s) \in s
      BY <2>1 DEF Pick
    <3>2. s \ {Pick(s)} \in SUBSET T /\ s \ {Pick(s)} # T
      BY <3>1
    <3> HIDE DEF g, Total
    <3>3. QED
      BY <1>4, <3>2
  <2>2. g = [s \in SUBSET T |-> IF s = {} THEN 0 ELSE f[Pick(s)] + g[s \ {Pick(s)}]]
    <3> DEFINE a(s) == IF s = {} THEN 0 ELSE f[Pick(s)] + Total(s \ {Pick(s)})
               b(s) == IF s = {} THEN 0 ELSE f[Pick(s)] + g[s \ {Pick(s)}]
    <3>1. \A s \in SUBSET T : a(s) = b(s)
      <4> HIDE DEF g, Total
      <4>1. QED
        BY <2>1
    <3>2. g = [s \in SUBSET T |-> a(s)]
      OBVIOUS
    <3> HIDE DEF g, Total, a, b
    <3>3. g = [s \in SUBSET T |-> b(s)]
      BY <3>1, <3>2
    <3>4. QED
      BY <3>3 DEF b
  <2>3. QED
    BY <2>2 DEF IsSum
<1>6. QED
  BY <1>2, <1>5

\* The sum takes one element and goes on with the others.
LEMMA SumStep ==
  ASSUME NEW S, IsFiniteSet(S), NEW f, NEW T \in SUBSET S
  PROVE  SumFunctionOnSet(f, T) =
            IF T = {} THEN 0 ELSE f[Pick(T)] + SumFunctionOnSet(f, T \ {Pick(T)})
<1> DEFINE R == T \ {Pick(T)}
           g == CHOOSE z : IsSum(f, T, z)
           h == CHOOSE z : IsSum(f, R, z)
<1>1. IsFiniteSet(T)
  BY FS_Subset
<1>2. IsFiniteSet(R)
  BY <1>1, FS_Subset
<1>3. IsSum(f, T, g) /\ IsSum(f, R, h)
  BY <1>1, <1>2, SumExists
<1>4. SumFunctionOnSet(f, T) = g[T] /\ SumFunctionOnSet(f, R) = h[R]
  BY SumDefinition
<1>5. g[R] = h[R]
  <2>1. R \subseteq T
    OBVIOUS
  <2> HIDE DEF R, g, h
  <2>2. QED
    BY <1>1, <1>3, <2>1, SumsAgree
<1>6. g[T] = (IF T = {} THEN 0 ELSE f[Pick(T)] + g[R])
  <2> HIDE DEF g, h
  <2>1. QED
    BY <1>3 DEF IsSum
<1>7. QED
  BY <1>4, <1>5, <1>6

\* Nothing has no size: an empty batch releases nothing.
LEMMA SumEmpty == \A f : SumFunctionOnSet(f, {}) = 0
  BY SumStep, FS_EmptySet

\* Sizes add up to a size.
LEMMA SumNat ==
  ASSUME NEW S, IsFiniteSet(S), NEW f, \A x \in S : f[x] \in Nat
  PROVE  SumFunctionOnSet(f, S) \in Nat
<1> DEFINE C == {T \in SUBSET S : SumFunctionOnSet(f, T) \notin Nat}
<1>1. SUFFICES ASSUME C # {} PROVE FALSE
  OBVIOUS
<1>2. PICK T \in C : \A U \in C : U \subseteq T => U = T
  <2> HIDE DEF C
  <2>1. C \in SUBSET (SUBSET S)
    BY DEF C
  <2>2. QED
    BY <1>1, <2>1, SmallestSet
<1>3. SumFunctionOnSet(f, T) = IF T = {} THEN 0 ELSE f[Pick(T)] + SumFunctionOnSet(f, T \ {Pick(T)})
  BY <1>2, SumStep
<1>4. T # {} /\ Pick(T) \in T
  BY <1>2, <1>3 DEF Pick
<1>5. SumFunctionOnSet(f, T \ {Pick(T)}) \in Nat
  BY <1>2, <1>4
<1>6. QED
  BY <1>2, <1>3, <1>4, <1>5

\* Any element may be taken first, so the sum is in no order.
LEMMA SumRemove ==
  ASSUME NEW S, IsFiniteSet(S), NEW f, \A x \in S : f[x] \in Nat, NEW y \in S
  PROVE  SumFunctionOnSet(f, S) = f[y] + SumFunctionOnSet(f, S \ {y})
<1> DEFINE Sum(T) == SumFunctionOnSet(f, T)
           C == {T \in SUBSET S : \E z \in T : Sum(T) # f[z] + Sum(T \ {z})}
<1>1. SUFFICES ASSUME C # {} PROVE FALSE
  OBVIOUS
<1>n. \A T \in SUBSET S : Sum(T) \in Nat
  BY FS_Subset, SumNat
<1>2. PICK T \in C : \A U \in C : U \subseteq T => U = T
  <2> HIDE DEF C
  <2>1. C \in SUBSET (SUBSET S)
    BY DEF C
  <2>2. QED
    BY <1>1, <2>1, SmallestSet
<1>3. PICK z \in T : Sum(T) # f[z] + Sum(T \ {z})
  BY <1>2
<1> DEFINE x == Pick(T)
<1>4. x \in T
  BY <1>3 DEF Pick
<1>5. Sum(T) = f[x] + Sum(T \ {x})
  BY <1>2, <1>3, SumStep
<1>6. x # z
  BY <1>3, <1>5
<1>7. T \ {x} \notin C /\ T \ {z} \notin C
  BY <1>2, <1>3, <1>4
<1>8. Sum(T \ {x}) = f[z] + Sum((T \ {x}) \ {z})
  BY <1>2, <1>3, <1>6, <1>7
<1>9. Sum(T \ {z}) = f[x] + Sum((T \ {z}) \ {x})
  BY <1>2, <1>4, <1>6, <1>7
<1>10. (T \ {x}) \ {z} = (T \ {z}) \ {x}
  OBVIOUS
<1>11. f[x] \in Nat /\ f[z] \in Nat /\ Sum((T \ {x}) \ {z}) \in Nat
  BY <1>n, <1>2, <1>3, <1>4
<1> HIDE DEF Sum, x
<1>12. QED
  BY <1>3, <1>5, <1>8, <1>9, <1>10, <1>11

\* Rows that keep their sizes keep their sum.
LEMMA SumSame ==
  ASSUME NEW S, IsFiniteSet(S), NEW f, NEW g, \A x \in S : f[x] = g[x]
  PROVE  SumFunctionOnSet(f, S) = SumFunctionOnSet(g, S)
<1>1. PICK a : IsSum(f, S, a) /\ a = CHOOSE k : IsSum(f, S, k)
  BY SumExists
<1>2. PICK b : IsSum(g, S, b) /\ b = CHOOSE k : IsSum(g, S, k)
  BY SumExists
<1>3. a[S] = b[S]
  BY <1>1, <1>2, SumsAgree
<1>4. QED
  BY <1>1, <1>2, <1>3, SumDefinition

\* A new row adds its size.
LEMMA SumAdd ==
  ASSUME NEW S, IsFiniteSet(S), NEW f, NEW y, y \notin S, \A x \in S \cup {y} : f[x] \in Nat
  PROVE  SumFunctionOnSet(f, S \cup {y}) = SumFunctionOnSet(f, S) + f[y]
<1> DEFINE T == S \cup {y}
<1>1. IsFiniteSet(T) /\ y \in T /\ T \ {y} = S /\ \A x \in T : f[x] \in Nat
  BY FS_AddElement
<1>2. SumFunctionOnSet(f, S) \in Nat
  BY SumNat
<1> HIDE DEF T
<1>3. SumFunctionOnSet(f, T) = f[y] + SumFunctionOnSet(f, T \ {y})
  BY <1>1, SumRemove
<1>4. f[y] \in Nat
  BY <1>1 DEF T
<1>5. QED
  BY <1>1, <1>2, <1>3, <1>4 DEF T

\* What a batch holds and what is left make up the whole.
LEMMA SumSplit ==
  ASSUME NEW S, IsFiniteSet(S), NEW f, \A x \in S : f[x] \in Nat, NEW B \in SUBSET S
  PROVE  SumFunctionOnSet(f, S) = SumFunctionOnSet(f, B) + SumFunctionOnSet(f, S \ B)
<1> DEFINE Sum(T) == SumFunctionOnSet(f, T)
           C == {T \in SUBSET S : Sum(S) # Sum(T) + Sum(S \ T)}
<1>1. SUFFICES ASSUME C # {} PROVE FALSE
  OBVIOUS
<1>n. \A T \in SUBSET S : IsFiniteSet(T) /\ Sum(T) \in Nat
  BY FS_Subset, SumNat
<1>2. PICK T \in C : \A U \in C : U \subseteq T => U = T
  <2> HIDE DEF C
  <2>1. C \in SUBSET (SUBSET S)
    BY DEF C
  <2>2. QED
    BY <1>1, <2>1, SmallestSet
<1>3. T # {}
  <2>1. Sum({}) = 0 /\ Sum(S) \in Nat /\ S \ {} = S
    BY <1>n, SumEmpty
  <2>2. Sum(S) = Sum({}) + Sum(S \ {})
    BY <2>1
  <2>3. {} \notin C
    BY <2>2
  <2>4. QED
    BY <1>2, <2>3
<1>4. PICK y \in T : TRUE
  BY <1>3
<1>5. Sum(S) = Sum(T \ {y}) + Sum(S \ (T \ {y}))
  BY <1>2, <1>4
<1>6. Sum(T) = f[y] + Sum(T \ {y})
  BY <1>n, <1>2, <1>4, SumRemove
<1>7. Sum(S \ (T \ {y})) = f[y] + Sum(S \ T)
  <2> DEFINE R == S \ (T \ {y})
  <2>1. R \in SUBSET S /\ y \in R /\ R \ {y} = S \ T
    BY <1>2, <1>4
  <2>2. IsFiniteSet(R) /\ \A x \in R : f[x] \in Nat
    BY <1>n, <2>1
  <2> HIDE DEF R
  <2>3. Sum(R) = f[y] + Sum(R \ {y})
    BY <2>1, <2>2, SumRemove
  <2>4. QED
    BY <2>1, <2>3 DEF R
<1>8. /\ Sum(S) # Sum(T) + Sum(S \ T)
      /\ f[y] \in Nat /\ Sum(T \ {y}) \in Nat /\ Sum(S \ T) \in Nat
  BY <1>n, <1>2, <1>4
<1> HIDE DEF Sum
<1>9. QED
  BY <1>5, <1>6, <1>7, <1>8

-----------------------------------------------------------------------------
(* Sizes before and after a transaction *)

\* There are finitely many versions.
LEMMA VersionsFinite ==
  ASSUME NEW n \in Nat, NEW S \in SUBSET (1..n)
  PROVE  IsFiniteSet(S)
<1>1. 1 \in Int /\ n \in Int
  OBVIOUS
<1>2. IsFiniteSet(1..n)
  BY <1>1, FS_Interval
<1>3. QED
  BY <1>2, FS_Subset

\* A commit replaces the old head of its path: f are the sizes before, g those
\* after, H the heads, and n + 1 the new version.
LEMMA CommitMovesLive ==
  ASSUME NEW n \in Nat, NEW f, NEW g, NEW H \in SUBSET (1..n), NEW old \in H \cup {0},
         \A i \in 1..n : f[i] \in Nat /\ g[i] = f[i],
         g[n + 1] \in Nat
  PROVE  SumFunctionOnSet(g, (H \ {old}) \cup {n + 1}) =
            SumFunctionOnSet(f, H) + (g[n + 1] - (IF old = 0 THEN 0 ELSE f[old]))
<1> DEFINE R == H \ {old}
<1>1. IsFiniteSet(H) /\ IsFiniteSet(R)
  BY VersionsFinite
<1>2. SumFunctionOnSet(g, R) = SumFunctionOnSet(f, R) /\ SumFunctionOnSet(f, R) \in Nat
  BY <1>1, SumSame, SumNat
<1>3. SumFunctionOnSet(g, R \cup {n + 1}) = SumFunctionOnSet(g, R) + g[n + 1]
  <2>1. n + 1 \notin R /\ \A x \in R \cup {n + 1} : g[x] \in Nat
    OBVIOUS
  <2> HIDE DEF R
  <2>2. QED
    BY <1>1, <2>1, SumAdd
<1>4. SumFunctionOnSet(f, H) = SumFunctionOnSet(f, R) + (IF old = 0 THEN 0 ELSE f[old])
  <2>1. CASE old = 0
    <3>1. R = H
      BY <2>1
    <3>2. QED
      BY <1>2, <2>1, <3>1
  <2>2. CASE old # 0
    <3>1. old \in H /\ f[old] \in Nat /\ \A x \in H : f[x] \in Nat
      BY <2>2
    <3>2. SumFunctionOnSet(f, H) = f[old] + SumFunctionOnSet(f, R)
      BY <1>1, <3>1, SumRemove
    <3>3. QED
      BY <1>2, <2>2, <3>1, <3>2
  <2>3. QED
    BY <2>1, <2>2
<1>5. (IF old = 0 THEN 0 ELSE f[old]) \in Nat
  OBVIOUS
<1> HIDE DEF R
<1>6. QED
  BY <1>2, <1>3, <1>4, <1>5 DEF R

\* ... and makes it a superseded one, beside those in K.
LEMMA CommitMovesHistory ==
  ASSUME NEW n \in Nat, NEW f, NEW g, NEW K \in SUBSET (1..n), NEW old \in (0..n) \ K,
         \A i \in 1..n : f[i] \in Nat /\ g[i] = f[i]
  PROVE  SumFunctionOnSet(g, K \cup ({old} \ {0})) =
            SumFunctionOnSet(f, K) + (IF old = 0 THEN 0 ELSE f[old])
<1>1. IsFiniteSet(K)
  BY VersionsFinite
<1>2. SumFunctionOnSet(g, K) = SumFunctionOnSet(f, K) /\ SumFunctionOnSet(f, K) \in Nat
  BY <1>1, SumSame, SumNat
<1>3. CASE old = 0
  <2>1. K \cup ({old} \ {0}) = K
    BY <1>3
  <2>2. QED
    BY <1>2, <1>3, <2>1
<1>4. CASE old # 0
  <2>1. K \cup ({old} \ {0}) = K \cup {old}
    BY <1>4
  <2>2. SumFunctionOnSet(g, K \cup {old}) = SumFunctionOnSet(g, K) + g[old]
    <3>1. \A x \in 1..n : g[x] \in Nat
      OBVIOUS
    <3>2. old \notin K /\ K \cup {old} \subseteq 1..n
      BY <1>4
    <3>3. \A x \in K \cup {old} : g[x] \in Nat
      BY <3>1, <3>2
    <3>4. QED
      BY ONLY <1>1, <3>2, <3>3, SumAdd
  <2>3. g[old] = f[old]
    BY <1>4
  <2>4. QED
    BY <1>2, <1>4, <2>1, <2>2, <2>3
<1>5. QED
  BY <1>3, <1>4

\* What a batch of sessions gives back is at least what they no longer reserve.
LEMMA ReleaseMovesReserved ==
  ASSUME NEW S, IsFiniteSet(S), NEW f, NEW g, NEW B \in SUBSET S,
         \A x \in S : f[x] \in Nat /\ g[x] \in Nat,
         \A x \in S \ B : g[x] = f[x]
  PROVE  /\ SumFunctionOnSet(f, S) - SumFunctionOnSet(f, B) <= SumFunctionOnSet(g, S)
         /\ SumFunctionOnSet(f, S) \in Nat /\ SumFunctionOnSet(f, B) \in Nat
         /\ SumFunctionOnSet(g, S) \in Nat
<1>1. IsFiniteSet(B) /\ IsFiniteSet(S \ B)
  BY FS_Subset
<1>2. /\ SumFunctionOnSet(f, S) = SumFunctionOnSet(f, B) + SumFunctionOnSet(f, S \ B)
      /\ SumFunctionOnSet(g, S) = SumFunctionOnSet(g, B) + SumFunctionOnSet(g, S \ B)
  BY SumSplit
<1>3. SumFunctionOnSet(g, S \ B) = SumFunctionOnSet(f, S \ B)
  BY <1>1, SumSame
<1>4. /\ SumFunctionOnSet(f, B) \in Nat /\ SumFunctionOnSet(g, B) \in Nat
      /\ SumFunctionOnSet(f, S \ B) \in Nat
  BY <1>1, SumNat
<1>5. QED
  BY <1>2, <1>3, <1>4

\* One session gives back what it reserves.
LEMMA SumOne ==
  ASSUME NEW f, NEW x, f[x] \in Nat
  PROVE  SumFunctionOnSet(f, {x}) = f[x]
<1>1. SumFunctionOnSet(f, {} \cup {x}) = SumFunctionOnSet(f, {}) + f[x]
  BY FS_EmptySet, SumAdd
<1>2. {} \cup {x} = {x}
  OBVIOUS
<1>3. QED
  BY <1>1, <1>2, SumEmpty

-----------------------------------------------------------------------------
(* The quotas in front of the store *)

\* A charged transaction is a transaction of the store.
LEMMA QuotaStep == QuotaNext => Next
<1> SUFFICES ASSUME QuotaNext PROVE Next
  OBVIOUS
<1>1. ASSUME NEW o \in Ops, NEW p \in Paths, NEW b \in 0..CurrentSequence, NEW h \in Hashes,
             Reserve(o, [path |-> p, base |-> b, hash |-> h])
      PROVE  Next
  BY <1>1 DEF Reserve, Next, UploadNext
<1>2. ASSUME NEW o \in Ops, CommitWithinQuota(o) \/ CommitCharged(o) PROVE Next
  BY <1>2 DEF CommitWithinQuota, CommitCharged, Next, CommitNext
<1>3. ASSUME NEW o \in Ops, NEW p \in Paths, NEW b \in 0..CurrentSequence,
             DeleteCharged(o, [path |-> p, base |-> b, hash |-> NoHash])
      PROVE  Next
  BY <1>3 DEF DeleteCharged, Next, CommitNext
<1>4. ASSUME NEW batch \in SUBSET Expirable, ExpireAndRelease(batch) PROVE Next
  BY <1>4 DEF ExpireAndRelease, Next, GarbageNext
<1>5. ASSUME NEW batch \in SUBSET Prunable, NEW orphans \in SUBSET Hashes,
             PruneAndRelease(batch, orphans)
      PROVE  Next
  BY <1>5 DEF PruneAndRelease, Next, GarbageNext
<1>6. ASSUME Uncharged PROVE Next
  BY <1>6 DEF Uncharged, Next, UploadNext, CommitNext, GarbageNext
<1>7. QED
  BY <1>1, <1>2, <1>3, <1>4, <1>5, <1>6 DEF QuotaNext

\* The quotas only refuse transactions: whatever is proved of the store is true
\* of the store with its quotas.
THEOREM QuotasOnlyRefuse == QuotaSpec => Spec
<1>1. QuotaInit => Init
  BY DEF QuotaInit
<1>2. [QuotaNext]_quotaVars => [Next]_vars
  BY QuotaStep DEF quotaVars
<1>3. QED
  BY <1>1, <1>2, PTL DEF QuotaSpec, Spec

\* What the counters need of the store: heads are distinct, and an operation
\* that is new has no session.
LedgerInv == StoreInv /\ BaseInv /\ NoLostUpdate

\* There are finitely many upload sessions; no counter is ever below zero.
UsageTypeOK == IsFiniteSet(Sessions) /\ reserved \in Nat /\ live \in Nat /\ history \in Nat

\* Commit has checked the limit for the operation whose locks it holds, and
\* nothing that it looked at can change under them.
LimitChecked == commitTx # NoOp => LiveAllows(LiveDelta(request[commitTx]))

QuotaInv ==
    LedgerInv /\ UsageTypeOK /\ LimitChecked
    /\ UsageExact /\ LiveWithinLimit /\ NoReservationLeak

\* No version, no session, no usage.
LEMMA QuotaInvInit == QuotaInit => QuotaInv
<1> SUFFICES ASSUME QuotaInit PROVE QuotaInv
  OBVIOUS
<1>1. LedgerInv
  BY StoreInit, HistoryInit DEF QuotaInit, LedgerInv, HistoryInv
<1>2. Sessions = {} /\ Heads = {} /\ retained \ Heads = {}
  BY DEF QuotaInit, Init, Sessions, Heads
<1>3. UsageTypeOK /\ LimitChecked /\ LiveWithinLimit
  BY <1>2, FS_EmptySet, LimitsOK DEF QuotaInit, Init, UsageTypeOK, LimitChecked, LiveWithinLimit
<1>4. UsageExact
  BY <1>2, SumEmpty DEF QuotaInit, UsageExact, TotalSize
<1>5. NoReservationLeak
  BY <1>2, SumEmpty DEF QuotaInit, NoReservationLeak, SessionsReserve
<1>6. QED
  BY <1>1, <1>3, <1>4, <1>5 DEF QuotaInv

\* The sizes of the versions and of the sessions are sizes.
LEMMA SizesKnown ==
  ASSUME TypeInv
  PROVE  /\ CurrentSequence \in Nat /\ DOMAIN version = 1..CurrentSequence
         /\ \A i \in 1..CurrentSequence : VersionSize[i] = SizeOf(version[i].hash) /\ VersionSize[i] \in Nat
         /\ \A o \in Ops : SizeOf(request[o].hash) \in Nat
         /\ \A o \in Ops : SessionReserved[o] \in Nat /\ SessionReserved[o] <= SizeOf(request[o].hash)
<1>1. version \in Seq(Version) /\ request \in [Ops -> Request \cup {NoRequest}]
  BY DEF TypeInv, TypeOK
<1>2. \A h \in Hashes \cup {NoHash} : SizeOf(h) \in Nat
  BY ConstantsOK DEF SizeOf
<1>3. CurrentSequence \in Nat /\ DOMAIN version = 1..CurrentSequence
  BY <1>1 DEF CurrentSequence
<1>4. ASSUME NEW i \in 1..CurrentSequence
      PROVE  VersionSize[i] = SizeOf(version[i].hash) /\ VersionSize[i] \in Nat
  <2>1. version[i].hash \in Hashes \cup {NoHash}
    <3>1. version[i] \in Version
      BY <1>1, <1>3
    <3>2. QED
      BY <3>1 DEF Version
  <2>2. QED
    BY <1>2, <1>3, <2>1 DEF VersionSize
<1>5. ASSUME NEW o \in Ops
      PROVE  /\ SizeOf(request[o].hash) \in Nat
             /\ SessionReserved[o] \in Nat /\ SessionReserved[o] <= SizeOf(request[o].hash)
  <2>1. request[o].hash \in Hashes \cup {NoHash}
    <3>1. request[o] \in Request \cup {NoRequest}
      BY <1>1
    <3>2. QED
      BY <3>1 DEF Request, NoRequest
  <2>2. SizeOf(request[o].hash) \in Nat
    BY <1>2, <2>1
  <2>3. SessionReserved[o] =
          IF session[o] \in {"ACTIVE", "VERIFIED"} THEN SizeOf(request[o].hash) ELSE 0
    BY DEF SessionReserved
  <2>4. QED
    BY <2>2, <2>3
<1>6. QED
  BY <1>3, <1>4, <1>5

-----------------------------------------------------------------------------
(* The counters of the versions *)

\* The head of a path is the head of no other: the heads are versions of
\* different paths.
LEMMA HeadsDistinct ==
  ASSUME LedgerInv
  PROVE  /\ \A p, q \in Paths : head[p] # 0 /\ head[p] = head[q] => p = q
         /\ Heads \subseteq 1..CurrentSequence /\ Heads \subseteq retained
         /\ retained \subseteq 1..CurrentSequence
         /\ \A p \in Paths : head[p] \in 0..CurrentSequence
<1>1. /\ head \in [Paths -> 0..CurrentSequence] /\ CurrentSequence \in Nat
      /\ retained \subseteq 1..CurrentSequence /\ HeadRetained
  BY SizesKnown DEF LedgerInv, StoreInv, ObjectInv, TypeInv, TypeOK
<1>2. \A p \in Paths : head[p] # 0 => version[head[p]].path = p
  BY DEF LedgerInv, NoLostUpdate, IsNewest
<1>3. QED
  BY <1>1, <1>2 DEF Heads, HeadRetained

\* A commit moves the size of the old head from live to history and adds the
\* size of the new one (updateUsageAfterCommit).
LEMMA CommitKeepsExact ==
  ASSUME LedgerInv, UsageTypeOK, UsageExact, NEW o \in Ops, NEW r \in Request, Publishes(o, r),
         UpdateUsageAfterCommit(r)
  PROVE  UsageExact' /\ live' \in Nat /\ history' \in Nat
<1> DEFINE n == CurrentSequence
           old == head[r.path]
           K == retained \ Heads
           f == VersionSize
           g == VersionSize'
           oldSize == IF old = 0 THEN 0 ELSE f[old]
<1>1. TypeInv
  BY DEF LedgerInv, StoreInv, ObjectInv
<1>2. /\ n \in Nat /\ CurrentSequence' = n + 1
      /\ \A i \in 1..n : version'[i] = version[i]
      /\ version'[n + 1].hash = r.hash
      /\ r.path \in Paths
      /\ retained' = retained \cup {n + 1}
      /\ head' = [head EXCEPT ![r.path] = n + 1]
  <2>1. version'[n + 1] = [path |-> r.path, base |-> r.base, hash |-> r.hash, op |-> o]
    BY <1>1, PublicationAppends
  <2>2. QED
    BY <1>1, <2>1, PublicationAppends
<1>3. /\ \A i \in 1..n : f[i] = SizeOf(version[i].hash) /\ f[i] \in Nat
      /\ \A i \in 1..(n + 1) : g[i] = SizeOf(version'[i].hash) /\ g[i] \in Nat
  <2>1. \A i \in 1..n : f[i] = SizeOf(version[i].hash) /\ f[i] \in Nat
    BY <1>1, SizesKnown
  <2>2. DOMAIN version' = 1..(n + 1)
    BY <1>1, <1>2 DEF Publishes, InsertVersion, CurrentSequence, TypeInv, TypeOK
  <2>3. \A i \in 1..(n + 1) : g[i] = SizeOf(version'[i].hash)
    BY <2>2 DEF VersionSize
  <2>4. SizeOf(r.hash) \in Nat
    BY ConstantsOK DEF SizeOf, Request
  <2>5. \A i \in 1..(n + 1) : i = n + 1 \/ i \in 1..n
    BY <1>2
  <2> HIDE DEF f, g, n
  <2>6. \A i \in 1..(n + 1) : SizeOf(version'[i].hash) \in Nat
    BY <1>2, <2>1, <2>4, <2>5
  <2>7. QED
    BY <2>1, <2>3, <2>6
<1>4. /\ \A i \in 1..n : f[i] \in Nat /\ g[i] = f[i]
      /\ g[n + 1] = SizeOf(r.hash) /\ g[n + 1] \in Nat
  BY <1>2, <1>3
<1>5. /\ head \in [Paths -> 0..n] /\ Heads \subseteq 1..n /\ retained \subseteq 1..n
      /\ \A p, q \in Paths : head[p] # 0 /\ head[p] = head[q] => p = q
      /\ old \in Heads \cup {0} /\ Heads \subseteq retained
  BY <1>1, <1>2, HeadsDistinct DEF TypeInv, TypeOK, Heads
<1>6. Heads' = (Heads \ {old}) \cup {n + 1}
  <2>1. \A p \in Paths : head'[p] = IF p = r.path THEN n + 1 ELSE head[p]
    BY <1>2, <1>5
  <2>2. n + 1 # 0
    BY <1>2
  <2>3. Heads' = {head'[p] : p \in Paths} \ {0}
    BY DEF Heads
  <2>4. \A i : i \in Heads' <=> i \in (Heads \ {old}) \cup {n + 1}
    BY <1>2, <1>5, <2>1, <2>2, <2>3 DEF Heads
  <2>5. QED
    BY <2>4
<1>7. (retained \ Heads)' = K \cup ({old} \ {0})
  <2>1. n + 1 \notin retained /\ n + 1 \notin Heads
    BY <1>2, <1>5
  <2>2. (retained \ Heads)' = (retained \cup {n + 1}) \ ((Heads \ {old}) \cup {n + 1})
    BY <1>2, <1>6
  <2>3. old \in Heads \cup {0} /\ Heads \subseteq retained /\ 0 \notin retained
    BY <1>5
  <2>4. \A i : i \in (retained \cup {n + 1}) \ ((Heads \ {old}) \cup {n + 1})
                   <=> i \in K \cup ({old} \ {0})
    <3> HIDE DEF n, old
    <3>1. QED
      BY <2>1, <2>3
  <2>5. QED
    BY <2>2, <2>4
<1>8. /\ live = SumFunctionOnSet(f, Heads) /\ history = SumFunctionOnSet(f, K)
      /\ live' = live + (SizeOf(r.hash) - oldSize)
      /\ history' = history + oldSize
  BY DEF UsageExact, TotalSize, UpdateUsageAfterCommit, LiveDelta, NewlyHistoric, OldLive
<1>9. SumFunctionOnSet(g, (Heads \ {old}) \cup {n + 1}) = SumFunctionOnSet(f, Heads) + (g[n + 1] - oldSize)
  <2> HIDE DEF f, g, n, old
  <2>1. QED
    BY <1>2, <1>4, <1>5, CommitMovesLive
<1>10. SumFunctionOnSet(g, K \cup ({old} \ {0})) = SumFunctionOnSet(f, K) + oldSize
  <2>1. K \in SUBSET (1..n) /\ old \in (0..n) \ K
    BY <1>2, <1>5
  <2>a. n \in Nat /\ \A i \in 1..n : f[i] \in Nat /\ g[i] = f[i]
    BY <1>2, <1>4
  <2> HIDE DEF f, g, n, old, K
  <2>2. QED
    BY <2>a, <2>1, CommitMovesHistory
<1>11. UsageExact'
  <2>1. live' = SumFunctionOnSet(g, Heads')
    BY <1>4, <1>6, <1>8, <1>9
  <2>2. history' = SumFunctionOnSet(g, (retained \ Heads)')
    BY <1>7, <1>8, <1>10
  <2>3. QED
    BY <2>1, <2>2 DEF UsageExact, TotalSize
<1>12. live' \in Nat /\ history' \in Nat
  <2> DEFINE A == (Heads \ {old}) \cup {n + 1}
             B == K \cup ({old} \ {0})
  <2>a. old \in 0..n /\ n \in Nat /\ Heads \subseteq 1..n /\ K \subseteq 1..n
    BY <1>2, <1>5
  <2>1. n + 1 \in Nat /\ A \in SUBSET (1..(n + 1)) /\ B \in SUBSET (1..(n + 1))
    <3> HIDE DEF n, old, K
    <3>1. QED
      BY <2>a
  <2>2. IsFiniteSet(A) /\ IsFiniteSet(B)
    BY <2>1, VersionsFinite
  <2>3. \A x \in A \cup B : g[x] \in Nat
    BY <1>3, <2>1
  <2>4. SumFunctionOnSet(g, A) \in Nat /\ SumFunctionOnSet(g, B) \in Nat
    <3> HIDE DEF A, B, g
    <3>1. QED
      BY <2>2, <2>3, SumNat
  <2>5. QED
    BY <1>4, <1>8, <1>9, <1>10, <2>4
<1>13. QED
  BY <1>11, <1>12

\* Without a commit the entries and the sizes of the versions stay.
LEMMA VersionsKept ==
  ASSUME UNCHANGED <<version, head>>
  PROVE  /\ VersionSize' = VersionSize /\ Heads' = Heads
         /\ \A p \in Paths : OldLive(p)' = OldLive(p)
  BY DEF VersionSize, Heads, OldLive, SizeOf

\* PruneVersions takes the sizes of its batch, all superseded versions, out of
\* history: the clamp at 0 never hides a difference.
LEMMA PruneKeepsExact ==
  ASSUME LedgerInv, UsageTypeOK, UsageExact, NEW batch \in SUBSET Prunable, NEW orphans,
         PruneAndRelease(batch, orphans)
  PROVE  UsageExact' /\ history' \in Nat
<1> DEFINE K == retained \ Heads
           f == VersionSize
<1>1. TypeInv
  BY DEF LedgerInv, StoreInv, ObjectInv
<1>2. UNCHANGED <<version, head, live>> /\ retained' = retained \ batch
  BY DEF PruneAndRelease, PruneVersions
<1>3. VersionSize' = f /\ Heads' = Heads
  BY <1>2, VersionsKept
<1>4. batch \in SUBSET K
  BY DEF Prunable, Heads
<1>5. IsFiniteSet(K) /\ \A i \in K : f[i] \in Nat
  <2>1. CurrentSequence \in Nat /\ K \in SUBSET (1..CurrentSequence)
    BY <1>1, SizesKnown, HeadsDistinct
  <2>2. \A i \in 1..CurrentSequence : f[i] \in Nat
    BY <1>1, SizesKnown
  <2> HIDE DEF K, f
  <2>3. QED
    BY <2>1, <2>2, VersionsFinite
<1>6. IsFiniteSet(batch) /\ IsFiniteSet(K \ batch)
  BY <1>4, <1>5, FS_Subset
<1>7. SumFunctionOnSet(f, batch) \in Nat /\ SumFunctionOnSet(f, K \ batch) \in Nat
  <2> HIDE DEF K, f
  <2>1. QED
    BY <1>4, <1>5, <1>6, SumNat
<1>8. SumFunctionOnSet(f, K) = SumFunctionOnSet(f, batch) + SumFunctionOnSet(f, K \ batch)
  <2> HIDE DEF K, f
  <2>1. QED
    BY <1>4, <1>5, SumSplit
<1>9. live = SumFunctionOnSet(f, Heads) /\ history = SumFunctionOnSet(f, K)
  BY DEF UsageExact, TotalSize
<1>10. history' = Clamped(history - SumFunctionOnSet(f, batch))
  BY DEF PruneAndRelease, TotalSize
<1>11. history' = SumFunctionOnSet(f, K \ batch)
  <2> HIDE DEF K, f
  <2>1. QED
    BY <1>7, <1>8, <1>9, <1>10 DEF Clamped, Max2
<1>12. (retained \ Heads)' = K \ batch
  BY <1>2, <1>3
<1>13. UsageExact'
  BY <1>2, <1>3, <1>9, <1>11, <1>12 DEF UsageExact, TotalSize
<1>14. QED
  BY <1>7, <1>11, <1>13

\* Any other transaction leaves versions, entries and both counters alone.
LEMMA OthersKeepExact ==
  ASSUME UsageExact, UNCHANGED <<version, head, retained, live, history>>
  PROVE  UsageExact'
  BY VersionsKept DEF UsageExact, TotalSize

-----------------------------------------------------------------------------
(* The sessions *)

\* No session begins or ends, and none changes what it reserves.
SessionsKept == Sessions' = Sessions /\ SessionReserved' = SessionReserved

\* What is enough for it: what reserves bytes goes on to, with its intent.
LEMMA SessionsKeptBy ==
  ASSUME \A o \in Ops :
            /\ session'[o] = "NONE" <=> session[o] = "NONE"
            /\ session'[o] \in {"ACTIVE", "VERIFIED"} <=> session[o] \in {"ACTIVE", "VERIFIED"}
            /\ session[o] \in {"ACTIVE", "VERIFIED"} => request'[o].hash = request[o].hash
  PROVE  SessionsKept
<1>1. Sessions' = Sessions
  BY DEF Sessions
<1> DEFINE a(o) == IF session[o] \in {"ACTIVE", "VERIFIED"} THEN SizeOf(request[o].hash) ELSE 0
           b(o) == IF session'[o] \in {"ACTIVE", "VERIFIED"} THEN SizeOf(request'[o].hash) ELSE 0
<1>2. \A o \in Ops : a(o) = b(o)
  OBVIOUS
<1>3. SessionReserved = [o \in Ops |-> a(o)] /\ SessionReserved' = [o \in Ops |-> b(o)]
  BY DEF SessionReserved, SizeOf
<1> HIDE DEF a, b
<1>4. QED
  BY <1>1, <1>2, <1>3 DEF SessionsKept

\* A new operation has no session that could keep its reservation.
LEMMA NewHasNoSession ==
  ASSUME LedgerInv
  PROVE  /\ \A o \in Ops : opState[o] = "NONE" => session[o] = "NONE"
         /\ \A o \in Ops : session[o] \in SessionStates
         /\ session \in [Ops -> SessionStates] /\ opState \in [Ops -> OpStates]
         /\ request \in [Ops -> Request \cup {NoRequest}]
  BY DEF LedgerInv, StoreInv, SessionsKnown, ObjectInv, TypeInv, TypeOK

\* The transactions that touch no quota row change no version, no entry and no
\* reservation, and none of them takes the locks of a commit.
LEMMA UnchargedKeeps ==
  ASSUME LedgerInv, Uncharged
  PROVE  /\ UNCHANGED <<version, head, retained>> /\ SessionsKept
         /\ commitTx' \in {commitTx, NoOp}
         /\ commitTx # NoOp => request'[commitTx] = request[commitTx]
<1> DEFINE G == /\ UNCHANGED <<version, head, retained>> /\ SessionsKept
                /\ commitTx' \in {commitTx, NoOp}
                /\ commitTx # NoOp => request'[commitTx] = request[commitTx]
<1>k. /\ \A o \in Ops : opState[o] = "NONE" => session[o] = "NONE"
      /\ session \in [Ops -> SessionStates]
      /\ request \in [Ops -> Request \cup {NoRequest}]
  BY NewHasNoSession
<1> USE <1>k DEF logVars, opVars, sessionVars
<1>1. ASSUME NEW h \in Hashes, EnsureObject(h) \/ DeleteGarbageRecord(h) PROVE G
  BY <1>1, SessionsKeptBy DEF EnsureObject, DeleteGarbageRecord
<1>2. ASSUME NEW o \in Ops,
             \/ \E h \in Hashes : BeginCheck(o, h)
             \/ BeginRollback(o)
             \/ \E n \in 0..SizeOf(request[o].hash) : UpdateUploadProgress(o, n)
             \/ SessionTimesOut(o)
      PROVE  G
  BY <1>2, SessionsKeptBy DEF BeginCheck, BeginRollback, UpdateUploadProgress, SessionTimesOut
<1>3. ASSUME NEW o \in Ops, NEW r, BeginPresent(o, r) PROVE G
  <2>1. \A q \in Ops : q # o => request'[q] = request[q]
    BY <1>3 DEF BeginPresent
  <2>2. session[o] = "NONE" /\ session' = session
    BY <1>3 DEF BeginPresent, NewOperation
  <2>3. SessionsKept
    BY <2>1, <2>2, SessionsKeptBy
  <2>4. QED
    BY <1>3, <2>3 DEF BeginPresent, Unlocked
<1>4. ASSUME NEW o \in Ops, MarkUploadVerified(o) \/ CompleteUploadCleanup(o) PROVE G
  <2>1. SessionsKept
    BY <1>4, SessionsKeptBy DEF MarkUploadVerified, CompleteUploadCleanup
  <2>2. QED
    BY <1>4, <2>1 DEF MarkUploadVerified, CompleteUploadCleanup
<1>5. ASSUME CommitRollback PROVE G
  BY <1>5, SessionsKeptBy DEF CommitRollback
<1>6. ASSUME ReaderNext PROVE G
  <2>1. UNCHANGED <<opVars, logVars>>
    BY <1>6, ReaderKeeps
  <2>2. UNCHANGED <<session, commitTx>>
    BY <1>6 DEF ReaderNext, ConsumeEnrollment, AckChanges, StartRestore, ListRestoreItems,
       ReportRestoreItem, FinishRestore
  <2>3. QED
    BY <2>1, <2>2, SessionsKeptBy
<1> HIDE DEF G
<1>7. G
  BY <1>1, <1>2, <1>3, <1>4, <1>5, <1>6 DEF Uncharged
<1>8. QED
  BY <1>7 DEF G

\* What a session reserves is a size, in the next state as well.
LEMMA ReservedIsSize == TypeInv => \A o \in Ops : SessionReserved[o] \in Nat
  BY SizesKnown

LEMMA NextSizes == TypeInv' => \A o \in Ops : SessionReserved'[o] \in Nat
<1>1. (TypeInv => \A o \in Ops : SessionReserved[o] \in Nat)'
  BY ReservedIsSize, PTL
<1>2. QED
  BY <1>1

\* A transaction that gives back at least what its sessions reserved, and does
\* not go below zero, leaks nothing.
LEMMA ReleaseKeepsBound ==
  ASSUME LedgerInv, LedgerInv', UsageTypeOK, NoReservationLeak, NEW B \in SUBSET Sessions,
         Sessions' = Sessions,
         \A o \in Sessions \ B : SessionReserved'[o] = SessionReserved[o],
         NEW given \in Nat, SumFunctionOnSet(SessionReserved, B) <= given,
         reserved' = Clamped(reserved - given)
  PROVE  NoReservationLeak' /\ reserved' \in Nat
<1> DEFINE f == SessionReserved
           g == SessionReserved'
           S == Sessions
<1>1. TypeInv /\ TypeInv'
  BY DEF LedgerInv, StoreInv, ObjectInv
<1>2. IsFiniteSet(S) /\ \A o \in S : f[o] \in Nat /\ g[o] \in Nat
  BY <1>1, SizesKnown, NextSizes DEF UsageTypeOK, Sessions
<1>3. /\ SumFunctionOnSet(f, S) - SumFunctionOnSet(f, B) <= SumFunctionOnSet(g, S)
      /\ SumFunctionOnSet(f, S) \in Nat /\ SumFunctionOnSet(f, B) \in Nat
      /\ SumFunctionOnSet(g, S) \in Nat
  <2>1. \A o \in S \ B : g[o] = f[o]
    OBVIOUS
  <2>2. B \in SUBSET S
    OBVIOUS
  <2> HIDE DEF f, g, S
  <2>3. QED
    BY <1>2, <2>1, <2>2, ReleaseMovesReserved
<1>4. reserved \in Nat /\ reserved <= SumFunctionOnSet(f, S) /\ SumFunctionOnSet(f, B) <= given
  BY DEF UsageTypeOK, NoReservationLeak, SessionsReserve
<1>5. reserved' \in Nat /\ reserved' <= SumFunctionOnSet(g, S)
  <2> HIDE DEF f, g, S
  <2>1. QED
    BY <1>3, <1>4 DEF Clamped, Max2
<1>6. SessionsReserve' = SumFunctionOnSet(g, S)
  BY DEF SessionsReserve
<1>7. QED
  BY <1>5, <1>6 DEF NoReservationLeak

\* reserveQuota reserves the size of the session that BeginUpload creates.
LEMMA ReserveKeepsBound ==
  ASSUME LedgerInv, LedgerInv', UsageTypeOK, NoReservationLeak,
         NEW o \in Ops, NEW r \in Request, Reserve(o, r)
  PROVE  NoReservationLeak' /\ reserved' \in Nat /\ IsFiniteSet(Sessions')
<1> DEFINE f == SessionReserved
           g == SessionReserved'
           S == Sessions
<1>1. TypeInv /\ TypeInv'
  BY DEF LedgerInv, StoreInv, ObjectInv
<1>2. /\ session' = [session EXCEPT ![o] = "ACTIVE"] /\ request' = [request EXCEPT ![o] = r]
      /\ session[o] = "NONE" /\ reserved' = reserved + SizeOf(r.hash)
      /\ session \in [Ops -> SessionStates] /\ request \in [Ops -> Request \cup {NoRequest}]
  BY NewHasNoSession DEF Reserve, BeginRequired, NewOperation
<1>3. Sessions' = S \cup {o} /\ o \notin S
  BY <1>2 DEF Sessions
<1>4. g[o] = SizeOf(r.hash) /\ \A q \in S : g[q] = f[q]
  <2>1. \A q \in Ops : g[q] =
            IF session'[q] \in {"ACTIVE", "VERIFIED"} THEN SizeOf(request'[q].hash) ELSE 0
    BY DEF SessionReserved, SizeOf
  <2>2. \A q \in Ops : f[q] =
            IF session[q] \in {"ACTIVE", "VERIFIED"} THEN SizeOf(request[q].hash) ELSE 0
    BY DEF SessionReserved
  <2>3. session'[o] = "ACTIVE" /\ request'[o] = r
    BY <1>2
  <2>4. \A q \in S : q \in Ops /\ session'[q] = session[q] /\ request'[q] = request[q]
    BY <1>2, <1>3 DEF Sessions
  <2>5. QED
    BY <2>1, <2>2, <2>3, <2>4
<1>5. /\ IsFiniteSet(S)
      /\ \A q \in S \cup {o} : g[q] \in Nat
      /\ \A q \in S : f[q] \in Nat
  BY <1>1, SizesKnown, NextSizes DEF UsageTypeOK, Sessions
<1>6. SumFunctionOnSet(g, S \cup {o}) = SumFunctionOnSet(g, S) + g[o]
  <2> HIDE DEF f, g, S
  <2>1. QED
    BY <1>3, <1>5, SumAdd
<1>7. SumFunctionOnSet(g, S) = SumFunctionOnSet(f, S) /\ SumFunctionOnSet(f, S) \in Nat
  <2> HIDE DEF f, g, S
  <2>1. QED
    BY <1>4, <1>5, SumSame, SumNat
<1>8. SessionsReserve' = SumFunctionOnSet(g, S \cup {o})
  BY <1>3 DEF SessionsReserve
<1>9. reserved \in Nat /\ reserved <= SumFunctionOnSet(f, S)
  BY DEF UsageTypeOK, NoReservationLeak, SessionsReserve
<1>10. NoReservationLeak' /\ reserved' \in Nat
  <2>1. SizeOf(r.hash) \in Nat
    BY <1>4, <1>5
  <2> HIDE DEF f, g, S
  <2>2. QED
    BY <1>2, <1>4, <1>6, <1>7, <1>8, <1>9, <2>1 DEF NoReservationLeak
<1>11. IsFiniteSet(Sessions')
  BY <1>3, <1>5, FS_AddElement
<1>12. QED
  BY <1>10, <1>11

\* A commit gives back the size of its content, which is at least what its
\* session reserves.
LEMMA CommitKeepsBound ==
  ASSUME LedgerInv, LedgerInv', UsageTypeOK, NoReservationLeak,
         NEW o \in Ops, CommitCharged(o), request[o] \in Request
  PROVE  NoReservationLeak' /\ reserved' \in Nat /\ Sessions' = Sessions
<1> DEFINE f == SessionReserved
           g == SessionReserved'
           B == {o} \cap Sessions
           size == SizeOf(request[o].hash)
<1>1. TypeInv /\ session \in [Ops -> SessionStates]
  BY NewHasNoSession DEF LedgerInv, StoreInv, ObjectInv
<1>2. /\ session' = [session EXCEPT ![o] = IF @ = "VERIFIED" THEN "COMMITTED" ELSE @]
      /\ request' = request /\ reserved' = Clamped(reserved - size)
  BY DEF CommitCharged, CommitApply, UpdateUsageAfterCommit
<1>3. Sessions' = Sessions
  BY <1>1, <1>2 DEF Sessions
<1>4. \A q \in Sessions \ B : g[q] = f[q]
  BY <1>1, <1>2 DEF SessionReserved, Sessions, SizeOf
<1>5. size \in Nat /\ SumFunctionOnSet(f, B) <= size
  <2>1. size \in Nat /\ f[o] \in Nat /\ f[o] <= size
    BY <1>1, SizesKnown
  <2>2. CASE B = {}
    BY <2>1, <2>2, SumEmpty
  <2>3. CASE B = {o}
    BY <2>1, <2>3, SumOne
  <2>4. QED
    BY <2>2, <2>3
<1>6. NoReservationLeak' /\ reserved' \in Nat
  <2>1. B \in SUBSET Sessions
    OBVIOUS
  <2> HIDE DEF B, size
  <2>2. QED
    BY <1>2, <1>3, <1>4, <1>5, <2>1, ReleaseKeepsBound
<1>7. QED
  BY <1>3, <1>6

\* A delete has no session, and gives back nothing.
LEMMA DeleteKeepsBound ==
  ASSUME LedgerInv, LedgerInv', UsageTypeOK, NoReservationLeak,
         NEW o \in Ops, NEW r \in Request, r.hash = NoHash, DeleteCharged(o, r)
  PROVE  NoReservationLeak' /\ reserved' \in Nat /\ Sessions' = Sessions
<1>1. /\ session' = session /\ request' = [request EXCEPT ![o] = r] /\ session[o] = "NONE"
      /\ reserved' = Clamped(reserved - 0)
      /\ request \in [Ops -> Request \cup {NoRequest}]
  BY NewHasNoSession DEF DeleteCharged, CommitDelete, NewOperation, UpdateUsageAfterCommit, SizeOf
<1>2. SessionsKept
  <2>1. \A q \in Ops : session[q] \in {"ACTIVE", "VERIFIED"} => request'[q] = request[q]
    BY <1>1
  <2>2. QED
    BY <1>1, <2>1, SessionsKeptBy
<1>3. SumFunctionOnSet(SessionReserved, {}) <= 0
  BY SumEmpty
<1>4. Sessions' = Sessions /\ \A q \in Sessions \ {} : SessionReserved'[q] = SessionReserved[q]
  BY <1>2 DEF SessionsKept
<1>5. {} \in SUBSET Sessions /\ 0 \in Nat
  OBVIOUS
<1>6. QED
  BY <1>1, <1>3, <1>4, <1>5, ReleaseKeepsBound

\* ExpireUploadSessions gives back what the sessions of its batch reserve.
LEMMA ExpireKeepsBound ==
  ASSUME LedgerInv, LedgerInv', UsageTypeOK, NoReservationLeak,
         NEW batch \in SUBSET Expirable, ExpireAndRelease(batch)
  PROVE  NoReservationLeak' /\ reserved' \in Nat /\ Sessions' = Sessions
<1> DEFINE given == SumFunctionOnSet(SessionReserved, batch)
<1>1. TypeInv /\ late \subseteq Ops
  BY DEF LedgerInv, StoreInv, ObjectInv, TypeInv, TypeOK
<1>2. /\ session' = [q \in Ops |-> IF q \in batch THEN "EXPIRED" ELSE session[q]]
      /\ request' = request /\ reserved' = Clamped(reserved - given)
  BY DEF ExpireAndRelease, ExpireUploadSessions, ReleasedBy, opVars
<1>3. batch \in SUBSET Sessions
  BY <1>1 DEF Expirable, Sessions
<1>4. Sessions' = Sessions
  BY <1>2, <1>3 DEF Sessions
<1>5. \A q \in Sessions \ batch : SessionReserved'[q] = SessionReserved[q]
  BY <1>2 DEF SessionReserved, Sessions, SizeOf
<1>6. given \in Nat
  <2>1. IsFiniteSet(batch) /\ \A q \in batch : SessionReserved[q] \in Nat
    BY <1>1, <1>3, FS_Subset, SizesKnown DEF UsageTypeOK, Sessions
  <2>2. QED
    BY <2>1, SumNat
<1>7. SumFunctionOnSet(SessionReserved, batch) <= given
  BY <1>6
<1>8. NoReservationLeak' /\ reserved' \in Nat
  <2> HIDE DEF given
  <2>1. QED
    BY <1>2, <1>3, <1>4, <1>5, <1>6, <1>7, ReleaseKeepsBound
<1>9. QED
  BY <1>4, <1>8

-----------------------------------------------------------------------------
(* The limit *)

\* While a commit holds the locks, what it has compared with the limit stays.
LEMMA LimitKept ==
  ASSUME LedgerInv, LimitChecked, UNCHANGED <<version, head, live>>,
         commitTx' \in {commitTx, NoOp},
         commitTx # NoOp => request'[commitTx] = request[commitTx]
  PROVE  LimitChecked'
<1>1. SUFFICES ASSUME commitTx' # NoOp PROVE LimitChecked'
  BY DEF LimitChecked
<1>2. commitTx' = commitTx /\ commitTx # NoOp
  BY <1>1
<1>3. request'[commitTx'] = request[commitTx]
  BY <1>2
<1>4. LiveAllows(LiveDelta(request[commitTx]))
  BY <1>2 DEF LimitChecked
<1>5. QED
  BY <1>3, <1>4 DEF LimitChecked, LiveAllows, LiveDelta, OldLive, VersionSize, SizeOf

\* A version that is charged within the limit stays within it; a delete only
\* makes the folder smaller.
LEMMA ChargeWithinLimit ==
  ASSUME LedgerInv, UsageTypeOK, LiveWithinLimit, NEW r \in Request, live' = live + LiveDelta(r),
         LiveAllows(LiveDelta(r)) \/ r.hash = NoHash
  PROVE  LiveWithinLimit'
<1>1. TypeInv
  BY DEF LedgerInv, StoreInv, ObjectInv
<1>2. OldLive(r.path) \in Nat
  <2>1. r.path \in Paths
    BY DEF Request
  <2>2. head[r.path] = 0 \/ head[r.path] \in 1..CurrentSequence
    BY <1>1, <2>1, SizesKnown, HeadsDistinct
  <2>3. QED
    BY <1>1, <2>2, SizesKnown DEF OldLive
<1>3. SizeOf(r.hash) \in Nat
  BY ConstantsOK DEF SizeOf, Request
<1>4. CASE r.hash = NoHash
  BY <1>2, <1>4, LimitsOK DEF LiveDelta, SizeOf, LiveWithinLimit, UsageTypeOK
<1>5. CASE LiveAllows(LiveDelta(r))
  BY <1>2, <1>3, <1>5, LimitsOK DEF LiveDelta, LiveAllows, LiveWithinLimit, UsageTypeOK
<1>6. QED
  BY <1>4, <1>5

-----------------------------------------------------------------------------
(* The invariant *)

\* What a step leaves alone, as far as the counters are concerned.
LEMMA QuietStep ==
  ASSUME QuotaInv, LedgerInv', UNCHANGED <<version, head, retained, usageVars>>, SessionsKept,
         LimitChecked'
  PROVE  QuotaInv'
<1>1. UsageExact'
  BY OthersKeepExact DEF QuotaInv, usageVars
<1>2. UsageTypeOK' /\ LiveWithinLimit'
  BY DEF QuotaInv, UsageTypeOK, LiveWithinLimit, SessionsKept, usageVars
<1>3. NoReservationLeak'
  BY DEF QuotaInv, NoReservationLeak, SessionsReserve, SessionsKept, usageVars
<1>4. QED
  BY <1>1, <1>2, <1>3 DEF QuotaInv

\* Every transaction, with what it charges, keeps the invariant.
LEMMA QuotaInvStep == QuotaInv /\ [QuotaNext]_quotaVars => QuotaInv'
<1> SUFFICES ASSUME QuotaInv, [QuotaNext]_quotaVars PROVE QuotaInv'
  OBVIOUS
<1>1. /\ LedgerInv /\ UsageTypeOK /\ LimitChecked
      /\ UsageExact /\ LiveWithinLimit /\ NoReservationLeak
      /\ TypeInv
  BY DEF QuotaInv, LedgerInv, StoreInv, ObjectInv
<1>2. LedgerInv'
  <2>1. [Next]_vars
    BY QuotaStep DEF quotaVars
  <2>2. ObjectInv' /\ BaseInv' /\ NoLostUpdate'
    BY <1>1, <2>1, ObjectStep, WritersReadStep, NoLostUpdateStep DEF LedgerInv, StoreInv
  <2>3. SessionsKnown'
    <3>1. CASE Next
      BY <1>1, <3>1, StoreMoves DEF LedgerInv
    <3>2. CASE UNCHANGED vars
      BY <1>1, <3>2 DEF LedgerInv, StoreInv, SessionsKnown, vars, opVars, sessionVars
    <3>3. QED
      BY <2>1, <3>1, <3>2
  <2>4. QED
    BY <2>2, <2>3 DEF LedgerInv, StoreInv
<1> HIDE DEF QuotaInv, LedgerInv, UsageTypeOK, LimitChecked, UsageExact, LiveWithinLimit, NoReservationLeak
\* BeginUpload of a new operation reserves
<1>3. ASSUME NEW o \in Ops, NEW r \in Request, Reserve(o, r) PROVE QuotaInv'
  <2>1. UNCHANGED <<version, head, retained, live, history, commitTx>> /\ commitTx = NoOp
    BY <1>3 DEF Reserve, BeginRequired, Unlocked, logVars
  <2>2. NoReservationLeak' /\ reserved' \in Nat /\ IsFiniteSet(Sessions')
    BY <1>1, <1>2, <1>3, ReserveKeepsBound
  <2>3. UsageExact' /\ LimitChecked' /\ LiveWithinLimit' /\ UsageTypeOK'
    BY <1>1, <2>1, <2>2, OthersKeepExact DEF LimitChecked, LiveWithinLimit, UsageTypeOK
  <2>4. QED
    BY <1>2, <2>2, <2>3 DEF QuotaInv
\* Commit checks the limit under its locks, then charges
<1>4. ASSUME NEW o \in Ops, CommitWithinQuota(o) PROVE QuotaInv'
  <2>1. /\ UNCHANGED <<version, head, retained, usageVars, session, request>> /\ commitTx' = o
        /\ LiveAllows(LiveDelta(request[o]))
    BY <1>4 DEF CommitWithinQuota, CommitLock, logVars, opVars, sessionVars
  <2>2. LimitChecked'
    BY <2>1 DEF LimitChecked, LiveAllows, LiveDelta, OldLive, VersionSize, SizeOf, usageVars
  <2>3. SessionsKept
    BY <2>1, SessionsKeptBy
  <2>4. QED
    BY <1>2, <2>1, <2>2, <2>3, QuietStep
<1>5. ASSUME NEW o \in Ops, CommitCharged(o) PROVE QuotaInv'
  <2>1. /\ commitTx = o /\ commitTx' = NoOp /\ o # NoOp
        /\ UpdateUsageAfterCommit(request[o]) /\ CommitApply(o)
    BY <1>5, ConstantsOK DEF CommitCharged, CommitApply
  <2>2. Publishes(o, request[o]) /\ request[o] \in Request
    <3>1. /\ CommitReady /\ UploadsKnown /\ CommitChecked /\ WritersRead
      BY <1>1 DEF LedgerInv, StoreInv, BaseInv, ObjectInv, TypeInv
    <3>2. QED
      BY <2>1, <3>1 DEF CommitApply, Publishes, CommitReady, UploadsKnown, InFlight, CommitChecked,
         BaseIsHead, WritersRead
  <2>3. UsageExact' /\ live' \in Nat /\ history' \in Nat
    BY <1>1, <2>1, <2>2, CommitKeepsExact
  <2>4. NoReservationLeak' /\ reserved' \in Nat /\ Sessions' = Sessions
    BY <1>1, <1>2, <1>5, <2>2, CommitKeepsBound
  <2>5. LiveWithinLimit'
    <3>1. LiveAllows(LiveDelta(request[o])) /\ live' = live + LiveDelta(request[o])
      BY <1>1, <2>1 DEF LimitChecked, UpdateUsageAfterCommit
    <3>2. QED
      BY <1>1, <2>2, <3>1, ChargeWithinLimit
  <2>6. LimitChecked' /\ UsageTypeOK'
    BY <1>1, <2>1, <2>3, <2>4 DEF LimitChecked, UsageTypeOK
  <2>7. QED
    BY <1>2, <2>3, <2>4, <2>5, <2>6 DEF QuotaInv
<1>6. ASSUME NEW o \in Ops, NEW r \in Request, r.hash = NoHash, DeleteCharged(o, r) PROVE QuotaInv'
  <2>1. commitTx = NoOp /\ commitTx' = NoOp /\ UpdateUsageAfterCommit(r) /\ CommitDelete(o, r)
    BY <1>6 DEF DeleteCharged, CommitDelete, Unlocked
  <2>2. Publishes(o, r)
    BY <2>1 DEF CommitDelete, NewOperation, Publishes
  <2>3. UsageExact' /\ live' \in Nat /\ history' \in Nat
    BY <1>1, <2>1, <2>2, CommitKeepsExact
  <2>4. NoReservationLeak' /\ reserved' \in Nat /\ Sessions' = Sessions
    BY <1>1, <1>2, <1>6, DeleteKeepsBound
  <2>5. LiveWithinLimit'
    <3>1. live' = live + LiveDelta(r)
      BY <2>1 DEF UpdateUsageAfterCommit
    <3>2. QED
      BY <1>1, <1>6, <3>1, ChargeWithinLimit
  <2>6. LimitChecked' /\ UsageTypeOK'
    BY <1>1, <2>1, <2>3, <2>4 DEF LimitChecked, UsageTypeOK
  <2>7. QED
    BY <1>2, <2>3, <2>4, <2>5, <2>6 DEF QuotaInv
\* the collector gives back
<1>7. ASSUME NEW batch \in SUBSET Expirable, ExpireAndRelease(batch) PROVE QuotaInv'
  <2>1. UNCHANGED <<version, head, retained, live, history, request, commitTx>>
    BY <1>7 DEF ExpireAndRelease, ExpireUploadSessions, logVars
  <2>2. NoReservationLeak' /\ reserved' \in Nat /\ Sessions' = Sessions
    BY <1>1, <1>2, <1>7, ExpireKeepsBound
  <2>3. LimitChecked'
    BY <1>1, <2>1, LimitKept
  <2>4. UsageExact' /\ LiveWithinLimit' /\ UsageTypeOK'
    BY <1>1, <2>1, <2>2, OthersKeepExact DEF LiveWithinLimit, UsageTypeOK
  <2>5. QED
    BY <1>2, <2>2, <2>3, <2>4 DEF QuotaInv
<1>8. ASSUME NEW batch \in SUBSET Prunable, NEW orphans \in SUBSET Hashes,
             PruneAndRelease(batch, orphans)
      PROVE  QuotaInv'
  <2>1. UNCHANGED <<version, head, live, reserved, request, session, commitTx>>
    BY <1>8 DEF PruneAndRelease, PruneVersions, opVars, sessionVars
  <2>2. UsageExact' /\ history' \in Nat
    BY <1>1, <1>8, PruneKeepsExact
  <2>3. LimitChecked'
    BY <1>1, <2>1, LimitKept
  <2>4. SessionsKept
    BY <2>1, SessionsKeptBy
  <2>5. NoReservationLeak' /\ LiveWithinLimit' /\ UsageTypeOK'
    BY <1>1, <2>1, <2>2, <2>4 DEF NoReservationLeak, SessionsReserve, SessionsKept, LiveWithinLimit, UsageTypeOK
  <2>6. QED
    BY <1>2, <2>2, <2>3, <2>5 DEF QuotaInv
\* all others charge nothing
<1>9. ASSUME Uncharged, UNCHANGED usageVars PROVE QuotaInv'
  <2>1. /\ UNCHANGED <<version, head, retained>> /\ SessionsKept
        /\ commitTx' \in {commitTx, NoOp}
        /\ commitTx # NoOp => request'[commitTx] = request[commitTx]
    BY <1>1, <1>9, UnchargedKeeps
  <2>2. LimitChecked'
    BY <1>1, <1>9, <2>1, LimitKept DEF usageVars
  <2>3. QED
    BY <1>2, <1>9, <2>1, <2>2, QuietStep
<1>10. ASSUME UNCHANGED quotaVars PROVE QuotaInv'
  <2>1. UNCHANGED <<version, head, retained, usageVars, session, request, commitTx>>
    BY <1>10 DEF quotaVars, vars, opVars, sessionVars, logVars
  <2>2. LimitChecked'
    BY <1>1, <2>1, LimitKept DEF usageVars
  <2>3. SessionsKept
    BY <2>1, SessionsKeptBy
  <2>4. QED
    BY <1>2, <2>1, <2>2, <2>3, QuietStep
<1>11. CASE QuotaNext
  <2>1. ASSUME NEW o \in Ops, NEW p \in Paths, NEW b \in 0..CurrentSequence, NEW h \in Hashes \cup {NoHash}
        PROVE  [path |-> p, base |-> b, hash |-> h] \in Request
    <3>1. b \in Nat
      BY <1>1, SizesKnown
    <3>2. QED
      BY <3>1 DEF Request
  <2>2. ASSUME NEW o \in Ops, NEW p \in Paths, NEW b \in 0..CurrentSequence, NEW h \in Hashes,
               Reserve(o, [path |-> p, base |-> b, hash |-> h])
        PROVE  QuotaInv'
    BY <1>3, <2>1, <2>2
  <2>3. ASSUME NEW o \in Ops, NEW p \in Paths, NEW b \in 0..CurrentSequence,
               DeleteCharged(o, [path |-> p, base |-> b, hash |-> NoHash])
        PROVE  QuotaInv'
    <3> DEFINE r == [path |-> p, base |-> b, hash |-> NoHash]
    <3>1. r \in Request /\ r.hash = NoHash
      BY <2>1
    <3> HIDE DEF r
    <3>2. QED
      BY <1>6, <2>3, <3>1 DEF r
  <2>4. QED
    BY <1>4, <1>5, <1>7, <1>8, <1>9, <1>11, <2>2, <2>3 DEF QuotaNext
<1>12. QED
  BY <1>10, <1>11

\* The counters of the versions never drift from the rows, through commits,
\* deletions, re-creations and prunings in any order (updateUsageAfterCommit,
\* PruneVersions).
THEOREM UsageAlwaysExact == QuotaSpec => []UsageExact
<1>1. QuotaInv => UsageExact
  BY DEF QuotaInv
<1>2. QED
  BY QuotaInvInit, QuotaInvStep, <1>1, PTL DEF QuotaSpec

\* The live size never passes the limit: Commit charges what it has checked,
\* under locks that keep head and counter (checkLiveQuota).
THEOREM LiveAlwaysWithinLimit == QuotaSpec => []LiveWithinLimit
<1>1. QuotaInv => LiveWithinLimit
  BY DEF QuotaInv
<1>2. QED
  BY QuotaInvInit, QuotaInvStep, <1>1, PTL DEF QuotaSpec

\* No more stays reserved than the sessions that are still to end will give
\* back (reserveQuota, Commit, ExpireUploadSessions).
THEOREM NothingStaysReserved == QuotaSpec => []NoReservationLeak
<1>1. QuotaInv => NoReservationLeak
  BY DEF QuotaInv
<1>2. QED
  BY QuotaInvInit, QuotaInvStep, <1>1, PTL DEF QuotaSpec
=============================================================================
