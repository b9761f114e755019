---------------------------- MODULE MonitorProofs ----------------------------
(***************************************************************************)
(* TLAPS proofs about the two monitors of critical_concurrency.            *)
(*                                                                         *)
(* Semamore, for every set of waiters and posters, every number of calls   *)
(* and every bound: the property adds up what the threads have done, so    *)
(* the first part of the module proves what the sum of a function over a   *)
(* finite set is, from the definition of the fold it is made with, by a    *)
(* smallest subset for which a claim fails.                                *)
(*                                                                         *)
(* Barrier, for every number of threads, of rounds and of spurious         *)
(* wakeups: the barrier works as long as none has happened.                *)
(***************************************************************************)
EXTENDS Barrier, Semamore, FiniteSetTheorems, TLAPS

\* The element that a fold takes out of a set first.
Any(s) == CHOOSE x \in s : TRUE

\* g gives every subset of S the sum of f over it: the function that the
\* fold chooses.
Adds(f, g, S) ==
    g = [s \in SUBSET S |-> IF s = {} THEN 0 ELSE f[Any(s)] + g[s \ {Any(s)}]]

\* The sum, without the operators that it is built from.
LEMMA SumIsFold ==
  ASSUME NEW f, NEW S
  PROVE  SumFunctionOnSet(f, S) = (CHOOSE g : Adds(f, g, S))[S]
BY DEF SumFunctionOnSet, FoldFunctionOnSet, MapThenFoldSet, Adds, Any

\* A set of numbers that is not empty has a least one.
LEMMA LeastNumber ==
  ASSUME NEW T, T \subseteq Nat, T # {}
  PROVE  \E x \in T : \A y \in T : x <= y
<1> DEFINE R == OpToRel(<, Nat)
<1>1. IsWellFoundedOn(R, Nat)
  BY NatLessThanWellFounded
<1>2. PICK x \in T : \A y \in T : ~ (<<y, x>> \in R)
  <2> HIDE DEF R
  <2> QED BY <1>1, WFMin
<1>3. \A y \in T : ~(y < x)
  BY <1>2 DEF OpToRel
<1> QED BY <1>3

\* Of some subsets of a finite set, one contains no other of them.
LEMMA SmallestSubset ==
  ASSUME NEW S, IsFiniteSet(S), NEW B, B \subseteq SUBSET S, B # {}
  PROVE  \E s \in B : \A u \in B : u \subseteq s => u = s
<1>1. IsWellFoundedOn(StrictSubsetOrdering(S), SUBSET S)
  BY FS_StrictSubsetOrderingWellFounded, FS_FiniteSubsetsOfFinite
<1>2. PICK s \in B : \A u \in B : ~(<<u, s>> \in StrictSubsetOrdering(S))
  BY <1>1, WFMin
<1> QED BY <1>2 DEF StrictSubsetOrdering

\* The element taken out is one of the set's.
LEMMA AnyIn == ASSUME NEW s, s # {} PROVE Any(s) \in s
BY DEF Any

\* There is such a function: partial sums exist for the sets with at most n
\* elements, for every n, since there is no least n without them.
LEMMA AddsExists ==
  ASSUME NEW f, NEW S, IsFiniteSet(S)
  PROVE  \E g : Adds(f, g, S)
<1> DEFINE Small(n) == {s \in SUBSET S : Cardinality(s) <= n}
           Partial(g, n) ==
             g = [s \in Small(n) |-> IF s = {} THEN 0 ELSE f[Any(s)] + g[s \ {Any(s)}]]
           Bad == {n \in Nat : ~\E g : Partial(g, n)}
<1>0. \A s \in SUBSET S : IsFiniteSet(s) /\ Cardinality(s) \in Nat
  BY FS_Subset, FS_CardinalityType
<1>1. \A n \in Nat : \A s \in Small(n) :
        s # {} => /\ s \ {Any(s)} \in Small(n) /\ n > 0
                  /\ s \ {Any(s)} \in Small(n - 1)
  <2> SUFFICES ASSUME NEW n \in Nat, NEW s \in Small(n), s # {}
               PROVE  s \ {Any(s)} \in Small(n) /\ n > 0 /\ s \ {Any(s)} \in Small(n - 1)
    OBVIOUS
  <2>1. Cardinality(s \ {Any(s)}) = Cardinality(s) - 1
    BY <1>0, AnyIn, FS_RemoveElement
  <2>2. s \ {Any(s)} \in SUBSET S
    OBVIOUS
  <2>3. Cardinality(s \ {Any(s)}) \in Nat /\ Cardinality(s) \in Nat
    BY <1>0, <2>2
  <2> QED BY <2>1, <2>2, <2>3
<1>2. Bad = {}
  <2> SUFFICES ASSUME Bad # {} PROVE FALSE
    OBVIOUS
  <2>1. PICK n \in Bad : \A m \in Bad : n <= m
    BY LeastNumber
  <2>2. CASE n = 0
    <3> DEFINE g == [s \in Small(0) |-> 0]
    <3>1. \A s \in Small(0) : s = {}
      <4>1. \A s \in Small(0) : s # {} => 0 > 0
        <5> HIDE DEF Small
        <5> QED BY <1>1
      <4> QED BY <4>1
    <3>2. Partial(g, 0)
      BY <3>1
    <3> QED BY <3>2, <2>2
  <2>3. CASE n # 0
    <3>1. n - 1 \in Nat /\ n - 1 \notin Bad
      <4>1. n \in Nat
        OBVIOUS
      <4> HIDE DEF Bad
      <4> QED BY <2>1, <2>3, <4>1
    <3>2. PICK g : Partial(g, n - 1)
      BY <3>1
    <3> DEFINE h == [s \in Small(n) |-> IF s = {} THEN 0 ELSE f[Any(s)] + g[s \ {Any(s)}]]
    <3>3. \A s \in Small(n - 1) : s \in Small(n) /\ g[s] = h[s]
      <4> SUFFICES ASSUME NEW s \in Small(n - 1) PROVE s \in Small(n) /\ g[s] = h[s]
        OBVIOUS
      <4>1. s \in Small(n)
        BY <1>0
      <4>2. g[s] = IF s = {} THEN 0 ELSE f[Any(s)] + g[s \ {Any(s)}]
        BY <3>2
      <4> QED BY <4>1, <4>2
    <3>4. \A s \in Small(n) : s # {} => g[s \ {Any(s)}] = h[s \ {Any(s)}]
      <4> HIDE DEF h, Small
      <4> QED BY <3>3, <1>1
    <3>5. Partial(h, n)
      <4> HIDE DEF Small
      <4> QED BY <3>4
    <3> QED BY <3>5
  <2> QED BY <2>2, <2>3
<1>3. Cardinality(S) \in Nat /\ Small(Cardinality(S)) = SUBSET S
  BY <1>0, FS_Subset, FS_CardinalityType
<1>4. PICK g : Partial(g, Cardinality(S))
  BY <1>2, <1>3
<1> QED BY <1>3, <1>4 DEF Adds

\* What it gives the empty set, and a set that is not empty.
LEMMA AddsUnfold ==
  ASSUME NEW f, NEW g, NEW S, Adds(f, g, S)
  PROVE  /\ g[{}] = 0
         /\ \A s \in SUBSET S : s # {} => Any(s) \in s /\ g[s] = f[Any(s)] + g[s \ {Any(s)}]
<1>1. \A s \in SUBSET S : g[s] = IF s = {} THEN 0 ELSE f[Any(s)] + g[s \ {Any(s)}]
  BY DEF Adds
<1> QED BY <1>1, AnyIn

\* Such sums depend only on the values of the function.
LEMMA AddsSame ==
  ASSUME NEW f, NEW g, NEW S, Adds(f, g, S), IsFiniteSet(S),
         NEW h, NEW k, NEW T, Adds(h, k, T),
         NEW u \in SUBSET S, u \subseteq T, \A x \in u : f[x] = h[x]
  PROVE  g[u] = k[u]
<1> DEFINE Bad == {s \in SUBSET u : g[s] # k[s]}
<1> SUFFICES ASSUME Bad # {} PROVE FALSE
  OBVIOUS
<1>1. PICK s \in Bad : \A v \in Bad : v \subseteq s => v = s
  <2>1. IsFiniteSet(u) /\ Bad \subseteq SUBSET u
    BY FS_Subset
  <2> HIDE DEF Bad
  <2> QED BY <2>1, SmallestSubset
<1>2. s \in SUBSET u /\ g[s] # k[s]
  OBVIOUS
<1>3. \A v \in SUBSET s : v # s => g[v] = k[v]
  BY <1>1, <1>2
<1> HIDE DEF Bad
<1>4. g[{}] = 0 /\ k[{}] = 0
  BY AddsUnfold
<1>5. s # {} => Any(s) \in s /\ g[s] = f[Any(s)] + g[s \ {Any(s)}]
  BY <1>2, AddsUnfold
<1>6. s # {} => k[s] = h[Any(s)] + k[s \ {Any(s)}]
  <2>1. s \in SUBSET T
    BY <1>2
  <2> QED BY <2>1, AddsUnfold
<1> QED BY <1>2, <1>3, <1>4, <1>5, <1>6

\* Sums are integers, and it does not matter which element is taken out.
LEMMA AddsAny ==
  ASSUME NEW f, NEW g, NEW S, Adds(f, g, S), IsFiniteSet(S), \A x \in S : f[x] \in Int
  PROVE  \A s \in SUBSET S : g[s] \in Int /\ \A x \in s : g[s] = f[x] + g[s \ {x}]
<1> DEFINE Good(s) == g[s] \in Int /\ \A x \in s : g[s] = f[x] + g[s \ {x}]
           Bad == {s \in SUBSET S : ~Good(s)}
<1> SUFFICES ASSUME Bad # {} PROVE FALSE
  OBVIOUS
<1>1. PICK s \in Bad : \A v \in Bad : v \subseteq s => v = s
  <2>1. Bad \subseteq SUBSET S
    OBVIOUS
  <2> HIDE DEF Bad
  <2> QED BY <2>1, SmallestSubset
<1>2. s \in SUBSET S /\ ~Good(s)
  OBVIOUS
<1>3. \A v \in SUBSET s : v # s => Good(v)
  BY <1>1, <1>2
<1> HIDE DEF Bad
<1>4. CASE s = {}
  <2>1. g[s] = 0
    BY <1>4, AddsUnfold
  <2> QED BY <1>2, <1>4, <2>1
<1>5. CASE s # {}
  <2>1. PICK c \in s : g[s] = f[c] + g[s \ {c}]
    <3>1. s \in SUBSET S
      BY <1>2
    <3> HIDE DEF Good
    <3>2. Any(s) \in s /\ g[s] = f[Any(s)] + g[s \ {Any(s)}]
      BY <3>1, <1>5, AddsUnfold
    <3> QED BY <3>2
  <2>2. \A x \in s : Good(s \ {x})
    BY <1>3
  <2>3. f[c] \in Int /\ g[s \ {c}] \in Int
    BY <1>2, <2>2
  <2>4. ASSUME NEW x \in s, x # c PROVE g[s] = f[x] + g[s \ {x}]
    <3> DEFINE r == (s \ {c}) \ {x}
    <3>1. Good(r)
      BY <1>3
    <3>2. g[s \ {c}] = f[x] + g[r]
      BY <2>2, <2>4
    <3>3. r = (s \ {x}) \ {c}
      OBVIOUS
    <3>4. g[s \ {x}] = f[c] + g[r]
      BY <2>2, <2>4, <3>3
    <3>5. g[r] \in Int /\ f[x] \in Int
      BY <1>2, <3>1
    <3> HIDE DEF r, Good
    <3> QED BY <2>1, <2>3, <3>2, <3>4, <3>5
  <2>5. \A x \in s : g[s] = f[x] + g[s \ {x}]
    BY <2>1, <2>4
  <2>6. g[s] \in Int
    BY <2>1, <2>3
  <2> QED BY <1>2, <2>5, <2>6
<1> QED BY <1>4, <1>5

\* The sum with one element taken out, whichever it is.
LEMMA AddsRemove ==
  ASSUME NEW f, NEW g, NEW S, Adds(f, g, S), IsFiniteSet(S), \A y \in S : f[y] \in Int, NEW x \in S
  PROVE  g[S] \in Int /\ g[S \ {x}] \in Int /\ g[S] = f[x] + g[S \ {x}]
<1>1. \A s \in SUBSET S : g[s] \in Int /\ \A y \in s : g[s] = f[y] + g[s \ {y}]
  BY AddsAny
<1> QED BY <1>1

-----------------------------------------------------------------------------
\* The sum over no elements.
LEMMA SumEmpty == ASSUME NEW f PROVE SumFunctionOnSet(f, {}) = 0
<1>1. PICK g : Adds(f, g, {})
  BY AddsExists, FS_EmptySet
<1>2. Adds(f, CHOOSE h : Adds(f, h, {}), {})
  BY <1>1
<1> QED BY <1>2, AddsUnfold, SumIsFold

\* The sum over a set, with one element taken out.
LEMMA SumRemove ==
  ASSUME NEW f, NEW S, IsFiniteSet(S), \A y \in S : f[y] \in Int, NEW x \in S
  PROVE  /\ SumFunctionOnSet(f, S) \in Int
         /\ SumFunctionOnSet(f, S \ {x}) \in Int
         /\ SumFunctionOnSet(f, S) = f[x] + SumFunctionOnSet(f, S \ {x})
<1> DEFINE T == S \ {x}
           g == CHOOSE h : Adds(f, h, S)
           k == CHOOSE h : Adds(f, h, T)
<1>1. IsFiniteSet(T)
  BY FS_RemoveElement
<1>2. (\E h : Adds(f, h, S)) /\ \E h : Adds(f, h, T)
  BY <1>1, AddsExists
<1>3. Adds(f, g, S) /\ Adds(f, k, T)
  BY <1>2
<1>4. SumFunctionOnSet(f, S) = g[S] /\ SumFunctionOnSet(f, T) = k[T]
  BY SumIsFold
<1> HIDE DEF g, k
<1>5. g[S] \in Int /\ g[S] = f[x] + g[T] /\ g[T] \in Int
  BY <1>3, AddsRemove
<1>6. g[T] = k[T]
  BY <1>3, AddsSame
<1> QED BY <1>4, <1>5, <1>6

\* The sum depends only on the values in the set.
LEMMA SumSame ==
  ASSUME NEW f, NEW h, NEW S, IsFiniteSet(S), \A x \in S : f[x] = h[x]
  PROVE  SumFunctionOnSet(f, S) = SumFunctionOnSet(h, S)
<1> DEFINE g == CHOOSE l : Adds(f, l, S)
           k == CHOOSE l : Adds(h, l, S)
<1>1. (\E l : Adds(f, l, S)) /\ \E l : Adds(h, l, S)
  BY AddsExists
<1>2. Adds(f, g, S) /\ Adds(h, k, S)
  BY <1>1
<1>3. SumFunctionOnSet(f, S) = g[S] /\ SumFunctionOnSet(h, S) = k[S]
  BY SumIsFold
<1> HIDE DEF g, k
<1> QED BY <1>2, <1>3, AddsSame

\* A sum of integers is an integer.
LEMMA SumInt ==
  ASSUME NEW f, NEW S, IsFiniteSet(S), \A y \in S : f[y] \in Int
  PROVE  SumFunctionOnSet(f, S) \in Int
<1>1. CASE S = {}
  BY <1>1, SumEmpty
<1>2. CASE S # {}
  BY <1>2, SumRemove
<1> QED BY <1>1, <1>2

\* A sum of zeros is zero.
LEMMA SumZero ==
  ASSUME NEW f, NEW S, IsFiniteSet(S), \A x \in S : f[x] = 0
  PROVE  SumFunctionOnSet(f, S) = 0
<1> DEFINE Bad == {s \in SUBSET S : SumFunctionOnSet(f, s) # 0}
<1> SUFFICES ASSUME Bad # {} PROVE FALSE
  OBVIOUS
<1>1. PICK s \in Bad : \A v \in Bad : v \subseteq s => v = s
  <2>1. Bad \subseteq SUBSET S
    OBVIOUS
  <2> HIDE DEF Bad
  <2> QED BY <2>1, SmallestSubset
<1>2. PICK x : x \in s
  BY SumEmpty
<1>3. SumFunctionOnSet(f, s \ {x}) = 0
  BY <1>1, <1>2
<1>4. s \in SUBSET S /\ SumFunctionOnSet(f, s) # 0
  OBVIOUS
<1> HIDE DEF Bad
<1>5. IsFiniteSet(s) /\ \A y \in s : f[y] \in Int
  BY <1>4, FS_Subset
<1>6. SumFunctionOnSet(f, s) = f[x] + SumFunctionOnSet(f, s \ {x})
  BY <1>2, <1>5, SumRemove
<1>7. f[x] = 0
  BY <1>2, <1>4
<1> QED BY <1>3, <1>4, <1>6, <1>7

\* The sum of a function that was changed for one argument.
LEMMA SumUpdate ==
  ASSUME NEW S, IsFiniteSet(S), NEW f \in [S -> Int], NEW h \in [S -> Int],
         NEW x \in S, \A y \in S \ {x} : f[y] = h[y]
  PROVE  SumFunction(h) = SumFunction(f) - f[x] + h[x]
<1> DEFINE T == S \ {x}
<1>1. SumFunctionOnSet(f, T) = SumFunctionOnSet(h, T)
  BY SumSame, FS_RemoveElement
<1>2. /\ SumFunctionOnSet(f, S) = f[x] + SumFunctionOnSet(f, T)
      /\ SumFunctionOnSet(f, T) \in Int
  BY SumRemove
<1>3. SumFunctionOnSet(h, S) = h[x] + SumFunctionOnSet(h, T)
  BY SumRemove
<1>4. f[x] \in Int /\ h[x] \in Int
  OBVIOUS
<1> HIDE DEF T
<1>5. SumFunctionOnSet(h, S) = SumFunctionOnSet(f, S) - f[x] + h[x]
  BY <1>1, <1>2, <1>3, <1>4
<1> QED BY <1>5 DEF SumFunction
-----------------------------------------------------------------------------
\* The values of the variables that the property is about.
SemTypeOK ==
    /\ at \in [Threads -> {"start", "test", "asleep", "signal", "unlock"}]
    /\ done \in [Threads -> Nat]
    /\ value \in Int /\ init_val \in Nat /\ max_val \in Nat

\* The property is inductive once the types are known.
SemInv == SemTypeOK /\ SemamoreAccounted

USE DEF Move, semFixed

\* The sums of what posters and waiters have done.
Posted == SumFunction([t \in Posters |-> Changes(t)])
Taken == SumFunction([t \in Waiters |-> Changes(t)])

\* Every thread has made a number of changes.
LEMMA ChangesType == ASSUME SemTypeOK PROVE \A t \in Threads : Changes(t) \in Nat
BY DEF SemTypeOK, Changes

\* The two sums are integers.
LEMMA SumsType ==
  ASSUME SemTypeOK
  PROVE  Posted \in Int /\ Taken \in Int
<1> DEFINE f == [t \in Posters |-> Changes(t)]
           h == [t \in Waiters |-> Changes(t)]
<1>1. /\ IsFiniteSet(Posters) /\ \A t \in Posters : f[t] \in Int
      /\ IsFiniteSet(Waiters) /\ \A t \in Waiters : h[t] \in Int
  BY ChangesType, FS_Subset, SemamoreAssumption
<1>2. SumFunctionOnSet(f, Posters) \in Int /\ SumFunctionOnSet(h, Waiters) \in Int
  <2> HIDE DEF f, h
  <2> QED BY <1>1, SumInt
<1> QED BY <1>2 DEF Posted, Taken, SumFunction

\* The initial states satisfy the invariant: nobody has changed anything.
LEMMA SemInitInv == semm_init => SemInv
<1> SUFFICES ASSUME semm_init PROVE SemInv
  OBVIOUS
<1>1. SemTypeOK /\ value \in 0..max_val /\ value = init_val
  BY SemamoreAssumption DEF semm_init, SemTypeOK
<1> DEFINE f == [t \in Posters |-> Changes(t)]
           h == [t \in Waiters |-> Changes(t)]
<1>2. /\ IsFiniteSet(Posters) /\ \A t \in Posters : f[t] = 0
      /\ IsFiniteSet(Waiters) /\ \A t \in Waiters : h[t] = 0
  BY FS_Subset, SemamoreAssumption DEF semm_init, Changes
<1>3. SumFunctionOnSet(f, Posters) = 0 /\ SumFunctionOnSet(h, Waiters) = 0
  <2> HIDE DEF f, h
  <2> QED BY <1>2, SumZero
<1>4. SumFunction(f) = 0 /\ SumFunction(h) = 0
  BY <1>3 DEF SumFunction
<1> QED BY <1>1, <1>4 DEF SemInv, SemamoreAccounted, SemTypeOK

\* A step after which every thread has made as many changes as before.
LEMMA NothingChanges ==
  ASSUME SemInv, SemTypeOK', value' = value, UNCHANGED semFixed,
         Threads = Waiters \union Posters, \A t \in Threads : Changes(t)' = Changes(t)
  PROVE  SemInv'
<1>1. [t \in Posters |-> Changes(t)]' = [t \in Posters |-> Changes(t)]
  OBVIOUS
<1>2. [t \in Waiters |-> Changes(t)]' = [t \in Waiters |-> Changes(t)]
  OBVIOUS
<1> QED BY <1>1, <1>2 DEF SemInv, SemamoreAccounted

\* A step in which one thread of a group makes one more change.
LEMMA OneMore ==
  ASSUME NEW S, IsFiniteSet(S), NEW f \in [S -> Nat], NEW h \in [S -> Nat],
         NEW x \in S, h[x] = f[x] + 1, \A y \in S \ {x} : f[y] = h[y]
  PROVE  SumFunction(h) = SumFunction(f) + 1
<1>1. f \in [S -> Int] /\ h \in [S -> Int]
  OBVIOUS
<1>2. SumFunction(h) = SumFunction(f) - f[x] + h[x]
  BY <1>1, SumUpdate
<1>3. SumFunctionOnSet(f, S) \in Int
  BY <1>1, SumInt
<1>4. SumFunction(f) \in Int
  BY <1>3 DEF SumFunction
<1> QED BY <1>2, <1>4

\* value-- or value++, at the end of the loop, is one more change of its
\* thread, and the test of the loop keeps value within the bounds.
LEMMA ChangeInv ==
  ASSUME SemInv, NEW t \in Threads, Change(t)
  PROVE  SemInv'
<1>1. SemTypeOK'
  BY DEF SemInv, SemTypeOK, Change
<1>2. value' \in 0..max_val'
  BY DEF SemInv, SemTypeOK, SemamoreAccounted, Change, Blocked
<1> DEFINE f == [u \in Posters |-> Changes(u)]
           h == [u \in Waiters |-> Changes(u)]
           fn == [u \in Posters |-> Changes(u)']
           hn == [u \in Waiters |-> Changes(u)']
<1>3. /\ f \in [Posters -> Nat] /\ fn \in [Posters -> Nat]
      /\ h \in [Waiters -> Nat] /\ hn \in [Waiters -> Nat]
      /\ IsFiniteSet(Posters) /\ IsFiniteSet(Waiters)
  BY <1>1, FS_Subset, SemamoreAssumption DEF SemInv, SemTypeOK, Changes
<1>4. /\ Changes(t)' = Changes(t) + 1
      /\ \A u \in Threads \ {t} : Changes(u)' = Changes(u)
  BY DEF SemInv, SemTypeOK, Change, Changes
<1>5. SumFunction(f) \in Int /\ SumFunction(h) \in Int
  BY SumsType DEF Posted, Taken, SemInv
<1>6. value = init_val + SumFunction(f) - SumFunction(h)
  BY DEF SemInv, SemamoreAccounted
<1>7. CASE t \in Waiters
  <2>1. fn = f
    BY <1>4, <1>7, SemamoreAssumption
  <2>2. hn[t] = h[t] + 1 /\ \A u \in Waiters \ {t} : h[u] = hn[u]
    BY <1>4, <1>7, SemamoreAssumption
  <2>3. SumFunction(hn) = SumFunction(h) + 1
    <3> HIDE DEF f, fn, h, hn
    <3> QED BY <1>3, <1>7, <2>2, OneMore
  <2>4. value' = value - 1 /\ init_val' = init_val
    BY <1>7 DEF Change
  <2>5. value' = init_val' + SumFunction(fn) - SumFunction(hn)
    <3>1. value \in Int /\ init_val \in Int
      BY DEF SemInv, SemTypeOK
    <3> HIDE DEF f, fn, h, hn
    <3> QED BY <1>5, <1>6, <2>1, <2>3, <2>4, <3>1
  <2> QED BY <1>1, <1>2, <2>5 DEF SemInv, SemamoreAccounted
<1>8. CASE t \notin Waiters
  <2>0. t \in Posters
    BY <1>8, SemamoreAssumption
  <2>1. hn = h
    BY <1>4, <1>8, SemamoreAssumption
  <2>2. fn[t] = f[t] + 1 /\ \A u \in Posters \ {t} : f[u] = fn[u]
    BY <1>4, <2>0, SemamoreAssumption
  <2>3. SumFunction(fn) = SumFunction(f) + 1
    <3> HIDE DEF f, fn, h, hn
    <3> QED BY <1>3, <2>0, <2>2, OneMore
  <2>4. value' = value + 1 /\ init_val' = init_val
    BY <1>8 DEF Change
  <2>5. value' = init_val' + SumFunction(fn) - SumFunction(hn)
    <3>1. value \in Int /\ init_val \in Int
      BY DEF SemInv, SemTypeOK
    <3> HIDE DEF f, fn, h, hn
    <3> QED BY <1>5, <1>6, <2>1, <2>3, <2>4, <3>1
  <2> QED BY <1>1, <1>2, <2>5 DEF SemInv, SemamoreAccounted
<1> QED BY <1>7, <1>8

\* Every step keeps the invariant: Leave turns the change of the current
\* call into a call done, and no other step than Change changes anything.
LEMMA SemNextInv == ASSUME SemInv, [SemNext]_semVars PROVE SemInv'
<1>1. Threads = Waiters \union Posters
  BY SemamoreAssumption
<1>2. ASSUME NEW t \in Threads, Enter(t) \/ Sleep(t) \/ Retest(t) \/ Signal(t)
      PROVE  SemInv'
  <2>1. SemTypeOK' /\ value' = value /\ UNCHANGED semFixed
    BY <1>2 DEF SemInv, SemTypeOK, Enter, Sleep, Retest, Signal
  <2>2. \A u \in Threads : Changes(u)' = Changes(u)
    BY <1>2 DEF SemInv, SemTypeOK, Enter, Sleep, Retest, Signal, Changes
  <2> QED BY <1>1, <2>1, <2>2, NothingChanges
<1>3. ASSUME NEW t \in Threads, Leave(t)
      PROVE  SemInv'
  <2>1. SemTypeOK' /\ value' = value /\ UNCHANGED semFixed
    BY <1>3 DEF SemInv, SemTypeOK, Leave
  <2>2. \A u \in Threads : Changes(u)' = Changes(u)
    BY <1>3 DEF SemInv, SemTypeOK, Leave, Changes
  <2> QED BY <1>1, <2>1, <2>2, NothingChanges
<1>4. CASE SemSpurious \/ UNCHANGED semVars
  <2>1. SemTypeOK' /\ value' = value /\ UNCHANGED semFixed
    BY <1>4 DEF SemInv, SemTypeOK, SemSpurious, semVars
  <2>2. \A u \in Threads : Changes(u)' = Changes(u)
    BY <1>4 DEF SemSpurious, semVars, Changes
  <2> QED BY <1>1, <2>1, <2>2, NothingChanges
<1> QED BY <1>2, <1>3, <1>4, ChangeInv DEF SemNext, SemStep

(***************************************************************************)
(* semm_wait, semm_post: whatever the interleaving and the spurious        *)
(* wakeups, value is the initial value plus the completed increments minus *)
(* the completed decrements, and it stays between 0 and max_val.           *)
(***************************************************************************)
THEOREM AccountingCorrect == SemSpec => []SemamoreAccounted
<1>1. semm_init => SemInv
  BY SemInitInv
<1>2. SemInv /\ [SemNext]_semVars => SemInv'
  BY SemNextInv
<1>3. SemInv => SemamoreAccounted
  BY DEF SemInv
<1> QED BY <1>1, <1>2, <1>3, PTL DEF SemSpec

-----------------------------------------------------------------------------
(***************************************************************************)
(* The barrier.                                                            *)
(***************************************************************************)
\* Where a thread is relative to the current round, times_used.
RoundInv == \A t \in Threads :
    /\ t \in waiting => pc[t] = "asleep" /\ left[t] = times_used
    /\ pc[t] \in {"client", "call", "arrive"} => left[t] = times_used
    /\ pc[t] = "unlock" \/ (pc[t] = "asleep" /\ t \notin waiting)
         => left[t] + 1 = times_used

\* Someone is missing as long as the barrier is closed.
OpenInv == count # n_threads

Inv == TypeOK /\ CountsMatch /\ RoundInv /\ OpenInv

\* The inductive invariant: Inv, until a wait returns spuriously.
UntilSpurious == TypeOK /\ (spurious = 0 => Inv)

USE DEF Goto, PcValues

-----------------------------------------------------------------------------
\* The initial states satisfy the invariant if there is a thread at all.
LEMMA InitInv == ASSUME Threads # {} PROVE Init => Inv
<1>1. Cardinality(Threads) # 0
  BY BarrierAssumption, FS_EmptySet
<1> QED
  BY <1>1, FS_EmptySet, BarrierAssumption, MonitorAssumption
  DEF Init, MonitorInit, Inv, TypeOK, MonitorTypeOK, CountsMatch, RoundInv, OpenInv

\* A set of threads grows by one member that was not in it.
LEMMA AddWaiter ==
  ASSUME NEW S \in SUBSET Threads, NEW t \in Threads, t \notin S
  PROVE  /\ Cardinality(S) \in Nat
         /\ Cardinality(S \union {t}) = Cardinality(S) + 1
         /\ Cardinality(S) + 1 = n_threads => S \union {t} = Threads
<1>1. IsFiniteSet(S) /\ IsFiniteSet(S \union {t}) /\ S \union {t} \subseteq Threads
  BY BarrierAssumption, FS_Subset, FS_AddElement
<1>2. Cardinality(S) \in Nat /\ Cardinality(S \union {t}) = Cardinality(S) + 1
  BY <1>1, FS_CardinalityType, FS_AddElement
<1>3. Cardinality(S) + 1 = n_threads => S \union {t} = Threads
  BY <1>1, <1>2, BarrierAssumption, FS_Subset
<1> QED
  BY <1>2, <1>3

LEMMA ArriveInv == ASSUME Inv, NEW t \in Threads, Arrive(t) PROVE Inv'
<1>1. t \notin waiting /\ waiting \in SUBSET Threads /\ arrived[t] = times_used
  BY DEF Inv, Arrive, RoundInv, TypeOK, MonitorTypeOK, CountsMatch
<1>2. /\ Cardinality(waiting) \in Nat
      /\ Cardinality(waiting \union {t}) = Cardinality(waiting) + 1
      /\ Cardinality(waiting) + 1 = n_threads => waiting \union {t} = Threads
  BY <1>1, AddWaiter
<1>3. TypeOK'
  BY DEF Inv, Arrive, TypeOK, MonitorTypeOK, CondBroadcast, CondWait
<1>4. CASE count + 1 = n_threads
  <2>1. /\ waiting' = {} /\ count' = 0 /\ times_used' = times_used + 1
        /\ pc' = [pc EXCEPT ![t] = "unlock"] /\ left' = left
        /\ arrived' = [arrived EXCEPT ![t] = arrived[t] + 1]
    BY <1>4 DEF Arrive, CondBroadcast
  <2>2. \A u \in Threads : u # t => u \in waiting
    BY <1>2, <1>4 DEF Inv, CountsMatch
  <2>3. CountsMatch'
    <3>1. count' = Cardinality(waiting')
      BY <2>1, FS_EmptySet
    <3>2. \A u \in Threads : arrived'[u] = times_used + 1
      BY <1>1, <2>1, <2>2 DEF Inv, TypeOK, CountsMatch
    <3> QED
      BY <2>1, <3>1, <3>2 DEF Inv, TypeOK, CountsMatch
  <2>4. RoundInv'
    BY <2>1, <2>2 DEF Inv, TypeOK, RoundInv, Arrive
  <2>5. OpenInv'
    BY <1>4, <2>1 DEF OpenInv, Inv, TypeOK
  <2> QED
    BY <1>3, <2>3, <2>4, <2>5 DEF Inv
<1>5. CASE count + 1 # n_threads
  <2>1. /\ waiting' = waiting \union {t} /\ count' = count + 1
        /\ times_used' = times_used /\ left' = left
        /\ pc' = [pc EXCEPT ![t] = "asleep"]
        /\ arrived' = [arrived EXCEPT ![t] = arrived[t] + 1]
    BY <1>5 DEF Arrive, CondWait
  <2>2. CountsMatch'
    <3>1. count' = Cardinality(waiting')
      BY <1>2, <2>1 DEF Inv, CountsMatch
    <3>2. \A u \in Threads :
            arrived'[u] = times_used' + (IF u \in waiting' THEN 1 ELSE 0)
      BY <1>1, <2>1 DEF Inv, TypeOK, CountsMatch
    <3> QED
      BY <3>1, <3>2 DEF CountsMatch
  <2>3. RoundInv'
    BY <2>1 DEF Inv, TypeOK, RoundInv, Arrive
  <2>4. OpenInv'
    BY <1>5, <2>1 DEF OpenInv
  <2> QED
    BY <1>3, <2>2, <2>3, <2>4 DEF Inv
<1> QED
  BY <1>4, <1>5

\* The steps that change neither the counters nor the set of waiters.
LEMMA OtherInv ==
  ASSUME Inv, NEW t \in Threads, Client(t) \/ Lock(t) \/ Wake(t) \/ Unlock(t)
  PROVE  Inv'
<1>1. waiting' = waiting /\ count' = count /\ times_used' = times_used /\ arrived' = arrived
  BY DEF Client, Lock, Wake, Unlock, monitorVars, barrier
<1>2. TypeOK'
  BY DEF Inv, TypeOK, MonitorTypeOK, Client, Lock, Wake, Unlock, monitorVars, barrier,
         MutexLock, MutexUnlock
<1>3. RoundInv'
  <2>1. CASE Client(t) \/ Lock(t) \/ Wake(t)
    BY <1>1, <2>1 DEF Inv, TypeOK, RoundInv, Client, Lock, Wake, MutexLock
  <2>2. CASE Unlock(t)
    BY <1>1, <2>2 DEF Inv, TypeOK, RoundInv, Unlock
  <2> QED
    BY <2>1, <2>2
<1> QED
  BY <1>1, <1>2, <1>3 DEF Inv, CountsMatch, OpenInv

\* Every step keeps the types, whether or not wakeups were spurious.
LEMMA TypeInv == TypeOK /\ [Next]_vars => TypeOK'
<1> SUFFICES ASSUME TypeOK, [Next]_vars PROVE TypeOK'
  OBVIOUS
<1> USE DEF TypeOK, MonitorTypeOK
<1>1. ASSUME NEW t \in Threads, Arrive(t) PROVE TypeOK'
  BY <1>1 DEF Arrive, CondBroadcast, CondWait
<1>2. ASSUME NEW t \in Threads, Client(t) \/ Lock(t) \/ Wake(t) \/ Unlock(t) PROVE TypeOK'
  BY <1>2 DEF Client, Lock, Wake, Unlock, monitorVars, barrier, MutexLock, MutexUnlock
<1>3. CASE Spurious
  BY <1>3, MonitorAssumption DEF Spurious, SpuriousWakeup, barrier
<1>4. CASE UNCHANGED vars
  BY <1>4 DEF vars, monitorVars, barrier
<1> QED
  BY <1>1, <1>2, <1>3, <1>4 DEF Next, Step

\* Every step that is not a spurious wakeup preserves the invariant.
LEMMA NextInv == UntilSpurious /\ [Next]_vars => UntilSpurious'
<1> SUFFICES ASSUME UntilSpurious, [Next]_vars PROVE UntilSpurious'
  OBVIOUS
<1>1. TypeOK'
  BY TypeInv DEF UntilSpurious
<1>2. CASE UNCHANGED vars
  BY <1>1, <1>2 DEF vars, monitorVars, barrier, UntilSpurious, Inv, CountsMatch, RoundInv,
                    OpenInv
<1>3. CASE Spurious
  <2>1. spurious' # 0
    BY <1>3 DEF Spurious, SpuriousWakeup, UntilSpurious, TypeOK, MonitorTypeOK
  <2> QED
    BY <1>1, <2>1 DEF UntilSpurious
<1>4. ASSUME NEW t \in Threads, Step(t) PROVE UntilSpurious'
  <2>1. spurious' = spurious
    BY <1>4 DEF Step, Client, Lock, Arrive, Wake, Unlock, monitorVars
  <2>2. spurious = 0 => Inv'
    BY <1>4, ArriveInv, OtherInv DEF UntilSpurious, Step
  <2> QED
    BY <1>1, <2>1, <2>2 DEF UntilSpurious
<1> QED
  BY <1>2, <1>3, <1>4 DEF Next

LEMMA Invariance == ASSUME Threads # {} PROVE Spec => []UntilSpurious
<1>1. Init => UntilSpurious
  BY InitInv DEF UntilSpurious, Inv
<1> QED
  BY <1>1, NextInv, PTL DEF Spec

(***************************************************************************)
(* Every reachable state of barrier_t, its monitor and its client is well  *)
(* typed, and the mutex has at most one owner.                             *)
(***************************************************************************)
THEOREM TypeCorrect == ASSUME Threads # {} PROVE Spec => []TypeOK
  BY Invariance, PTL DEF UntilSpurious

(***************************************************************************)
(* Until a wait returns spuriously, count is the number of threads blocked *)
(* at the barrier and times_used the number of rounds, for any number of   *)
(* threads.                                                                *)
(***************************************************************************)
THEOREM CountsCorrect == ASSUME Threads # {} PROVE Spec => []CountsWaiters
<1>1. UntilSpurious => CountsWaiters
  BY DEF UntilSpurious, Inv, CountsWaiters
<1> QED
  BY <1>1, Invariance, PTL

(***************************************************************************)
(* Until a wait returns spuriously, for any number of threads and rounds,  *)
(* no thread returns from barrier_wait before all have arrived: the        *)
(* barrier can be reused at once although only one condition variable      *)
(* serves all rounds.                                                      *)
(***************************************************************************)
THEOREM BarrierCorrect == ASSUME Threads # {} PROVE Spec => []NoEarlyExit
<1>1. UntilSpurious => NoEarlyExit
  <2> SUFFICES ASSUME Inv, NEW t \in Threads, NEW u \in Threads
               PROVE left[t] <= arrived[u]
    BY DEF NoEarlyExit, UntilSpurious
  <2>1. left[t] <= times_used /\ times_used <= arrived[u]
    BY DEF Inv, TypeOK, RoundInv, CountsMatch
  <2> QED
    BY <2>1 DEF Inv, TypeOK
<1> QED
  BY <1>1, Invariance, PTL
=============================================================================
