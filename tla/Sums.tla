-------------------------------- MODULE Sums --------------------------------
(***************************************************************************)
(* Induction over finite sets and the sum of a function over one.          *)
(*                                                                         *)
(* The models sum over sets whose size is not known (publications, events  *)
(* of a batch, operations of a callback) with SumFunctionOnSet.  Here are  *)
(* its equation and what follows from it.  Induction is stated with a set  *)
(* of numbers or of subsets, never with a predicate as parameter.          *)
(***************************************************************************)
EXTENDS Integers, Sequences, FiniteSets, Functions, FiniteSetTheorems,
        SequenceTheorems, WellFoundedInduction, TLAPS

-----------------------------------------------------------------------------
(* Induction.                                                              *)

\* NatSetInduction: a set that has 0 and with each number the next one has
\* every natural number.
LEMMA NatSetInduction ==
    ASSUME NEW S, 0 \in S, \A n \in Nat : n \in S => n + 1 \in S
    PROVE  Nat \subseteq S
PROOF
<1> SUFFICES ASSUME Nat \ S # {} PROVE FALSE
    OBVIOUS
<1>1. IsWellFoundedOn(OpToRel(<, Nat), Nat)
    BY NatLessThanWellFounded
<1>2. \E x \in Nat \ S : \A y \in Nat \ S : ~ (<<y, x>> \in OpToRel(<, Nat))
    BY <1>1, WFMin
<1>3. PICK x \in Nat \ S :
             \A y \in Nat \ S : ~ (<<y, x>> \in OpToRel(<, Nat))
    BY <1>2
<1>4. \A y \in Nat \ S : ~ (y < x)
    BY <1>3 DEF OpToRel
<1>5. x # 0 /\ x \in Nat
    OBVIOUS
<1>6. x - 1 \in Nat /\ x - 1 < x /\ x = (x - 1) + 1
    BY <1>5
<1>7. x - 1 \notin S
    BY <1>6, x \notin S
<1> QED
    BY <1>4, <1>6, <1>7

\* SubsetInduction: a set of subsets of a finite set that has every subset
\* all of whose smaller subsets it has, has all of them.
LEMMA SubsetInduction ==
    ASSUME NEW S, IsFiniteSet(S), NEW P,
           \A T \in SUBSET S :
               (\A U \in SUBSET S :
                   Cardinality(U) < Cardinality(T) => U \in P)
                 => T \in P
    PROVE  SUBSET S \subseteq P
PROOF
<1> DEFINE N == { n \in Nat : \A T \in SUBSET S :
                                 Cardinality(T) < n => T \in P }
<1>1. \A T \in SUBSET S : IsFiniteSet(T) /\ Cardinality(T) \in Nat
    BY FS_Subset, FS_CardinalityType
<1>2. 0 \in N
    BY <1>1
<1>3. ASSUME NEW n \in Nat, n \in N PROVE n + 1 \in N
    <2>1. ASSUME NEW T \in SUBSET S, Cardinality(T) < n + 1 PROVE T \in P
        <3>1. \A U \in SUBSET S :
                 Cardinality(U) < Cardinality(T) => Cardinality(U) < n
            BY <1>1, <2>1
        <3> QED
            BY <3>1, <1>3
    <2> QED
        BY <2>1
<1> HIDE DEF N
<1>4. Nat \subseteq N
    BY <1>2, <1>3, NatSetInduction
<1>5. ASSUME NEW T \in SUBSET S PROVE T \in P
    <2>1. Cardinality(T) + 1 \in N /\ Cardinality(T) < Cardinality(T) + 1
        BY <1>1, <1>4
    <2> QED
        BY <2>1 DEF N
<1> QED
    BY <1>5

-----------------------------------------------------------------------------
(* The equation of the sum.                                                *)

\* The element a fold takes first.
Pick(s) == CHOOSE x \in s : TRUE

\* it is the function the fold over the subsets of S defines.
IsSum(f, S, it) ==
    it = [s \in SUBSET S |->
             IF s = {} THEN 0 ELSE f[Pick(s)] + it[s \ {Pick(s)}]]

\* The same for the subsets of S with at most n elements.
IsSumUpTo(f, S, n, it) ==
    it = [s \in { t \in SUBSET S : Cardinality(t) <= n } |->
             IF s = {} THEN 0 ELSE f[Pick(s)] + it[s \ {Pick(s)}]]

\* What Pick chooses is in the set it chooses from.
LEMMA PickIn == ASSUME NEW s, s # {} PROVE Pick(s) \in s
BY DEF Pick

\* SmallerSet: without one of its elements a finite set is smaller by one.
LEMMA SmallerSet ==
    ASSUME NEW S, IsFiniteSet(S), NEW x \in S
    PROVE  /\ IsFiniteSet(S \ {x})
           /\ Cardinality(S \ {x}) \in Nat
           /\ Cardinality(S) \in Nat
           /\ Cardinality(S \ {x}) = Cardinality(S) - 1
           /\ Cardinality(S \ {x}) < Cardinality(S)
PROOF
<1>1. /\ IsFiniteSet(S \ {x})
      /\ Cardinality(S \ {x}) = Cardinality(S) - 1
    BY FS_RemoveElement
<1> QED
    BY <1>1, FS_CardinalityType

\* The sums over subsets of up to n elements exist, for every n.
LEMMA SumUpToExists ==
    ASSUME NEW f, NEW S, IsFiniteSet(S)
    PROVE  \A n \in Nat : \E it : IsSumUpTo(f, S, n, it)
PROOF
<1> DEFINE D(n) == { t \in SUBSET S : Cardinality(t) <= n }
           N == { n \in Nat : \E it : IsSumUpTo(f, S, n, it) }
<1>1. \A t \in SUBSET S : IsFiniteSet(t) /\ Cardinality(t) \in Nat
    BY FS_Subset, FS_CardinalityType
<1>2. 0 \in N
    <2> DEFINE it == [s \in D(0) |-> 0]
    <2>1. ASSUME NEW s \in D(0) PROVE s = {}
        BY <1>1, FS_EmptySet
    <2>2. it = [s \in D(0) |->
                  IF s = {} THEN 0 ELSE f[Pick(s)] + it[s \ {Pick(s)}]]
        BY <2>1
    <2>3. IsSumUpTo(f, S, 0, it)
        BY <2>2 DEF IsSumUpTo
    <2> QED
        BY <2>3
<1>3. ASSUME NEW n \in Nat, n \in N PROVE n + 1 \in N
    <2>1. PICK it : IsSumUpTo(f, S, n, it)
        BY <1>3
    <2> DEFINE V(g, s) == IF s = {} THEN 0
                          ELSE f[Pick(s)] + g[s \ {Pick(s)}]
               next == [s \in D(n + 1) |-> V(it, s)]
    <2>2. \A s \in D(n) : s \in D(n + 1)
        BY <1>1
    <2>3. \A s \in D(n) : it[s] = V(it, s)
        BY <2>1 DEF IsSumUpTo
    <2>4. \A s \in D(n) : next[s] = it[s]
        BY <2>2, <2>3
    <2>5. ASSUME NEW s \in D(n + 1), s # {} PROVE s \ {Pick(s)} \in D(n)
        <3>1. Pick(s) \in s
            BY <2>5, PickIn
        <3>2. Cardinality(s \ {Pick(s)}) = Cardinality(s) - 1
            BY <3>1, <1>1, SmallerSet
        <3>3. Cardinality(s \ {Pick(s)}) <= n
            BY <3>2, <1>1
        <3> QED
            BY <3>3
    <2>6. \A s \in D(n + 1) : V(it, s) = V(next, s)
        BY <2>4, <2>5
    <2>7. next = [s \in D(n + 1) |-> V(next, s)]
        BY <2>6
    <2>8. IsSumUpTo(f, S, n + 1, next)
        BY <2>7 DEF IsSumUpTo
    <2> QED
        BY <2>8
<1> HIDE DEF N
<1>4. Nat \subseteq N
    BY <1>2, <1>3, NatSetInduction
<1> QED
    BY <1>4 DEF N

\* SumExists: the recursion of the fold defines a function.
LEMMA SumExists ==
    ASSUME NEW f, NEW S, IsFiniteSet(S)
    PROVE  \E it : IsSum(f, S, it)
PROOF
<1>1. Cardinality(S) \in Nat
    BY FS_CardinalityType
<1>2. PICK it : IsSumUpTo(f, S, Cardinality(S), it)
    BY <1>1, SumUpToExists
<1>3. { t \in SUBSET S : Cardinality(t) <= Cardinality(S) } = SUBSET S
    BY FS_Subset
<1>4. IsSum(f, S, it)
    BY <1>2, <1>3 DEF IsSum, IsSumUpTo
<1> QED
    BY <1>4

\* SumValue: the fold has the value of such a function, and for every subset
\* of S the function of S serves as well.
LEMMA SumValue ==
    ASSUME NEW f, NEW S, IsFiniteSet(S), NEW it, IsSum(f, S, it),
           NEW T \in SUBSET S
    PROVE  SumFunctionOnSet(f, T) = it[T]
PROOF
<1>1. IsFiniteSet(T) /\ \A U \in SUBSET T : IsFiniteSet(U)
    BY FS_Subset
<1>2. ASSUME NEW g, IsSum(f, T, g) PROVE g[T] = it[T]
    <2> DEFINE P == { U \in SUBSET T : g[U] = it[U] }
    <2>1. ASSUME NEW U \in SUBSET T,
                 \A W \in SUBSET T :
                     Cardinality(W) < Cardinality(U) => W \in P
          PROVE  U \in P
        <3>1. g[U] = IF U = {} THEN 0 ELSE f[Pick(U)] + g[U \ {Pick(U)}]
            BY <1>2 DEF IsSum
        <3>2. it[U] = IF U = {} THEN 0 ELSE f[Pick(U)] + it[U \ {Pick(U)}]
            BY DEF IsSum
        <3>3. U # {} => Cardinality(U \ {Pick(U)}) < Cardinality(U)
            BY <1>1, PickIn, SmallerSet
        <3>4. U # {} => g[U \ {Pick(U)}] = it[U \ {Pick(U)}]
            BY <3>3, <2>1
        <3> QED
            BY <3>1, <3>2, <3>4
    <2> HIDE DEF P
    <2>2. SUBSET T \subseteq P
        BY <1>1, <2>1, SubsetInduction
    <2> QED
        BY <2>2 DEF P
<1>3. \E g : IsSum(f, T, g)
    BY <1>1, SumExists
<1>4. LET g == CHOOSE g : IsSum(f, T, g)
      IN  IsSum(f, T, g) /\ SumFunctionOnSet(f, T) = g[T]
    BY <1>3 DEF SumFunctionOnSet, FoldFunctionOnSet, MapThenFoldSet, IsSum,
                Pick
<1> QED
    BY <1>2, <1>4

-----------------------------------------------------------------------------
(* What the models' proofs need.                                           *)

\* SumEmpty: nothing adds up to zero.
LEMMA SumEmpty == ASSUME NEW f PROVE SumFunctionOnSet(f, {}) = 0
PROOF
<1>1. PICK it : IsSum(f, {}, it)
    BY SumExists, FS_EmptySet
<1>2. SumFunctionOnSet(f, {}) = it[{}]
    BY <1>1, SumValue, FS_EmptySet
<1> QED
    BY <1>1, <1>2 DEF IsSum

\* SumPick: the fold takes one element after the other.
LEMMA SumPick ==
    ASSUME NEW f, NEW S, IsFiniteSet(S), S # {}
    PROVE  SumFunctionOnSet(f, S) =
               f[Pick(S)] + SumFunctionOnSet(f, S \ {Pick(S)})
PROOF
<1>1. PICK it : IsSum(f, S, it)
    BY SumExists
<1>2. /\ SumFunctionOnSet(f, S) = it[S]
      /\ SumFunctionOnSet(f, S \ {Pick(S)}) = it[S \ {Pick(S)}]
    BY <1>1, SumValue
<1>3. it[S] = f[Pick(S)] + it[S \ {Pick(S)}]
    BY <1>1 DEF IsSum
<1> QED
    BY <1>2, <1>3

\* SumType: integers add up to an integer.
LEMMA SumType ==
    ASSUME NEW f, NEW S, IsFiniteSet(S), \A x \in S : f[x] \in Int
    PROVE  SumFunctionOnSet(f, S) \in Int
PROOF
<1> DEFINE P == { T \in SUBSET S : SumFunctionOnSet(f, T) \in Int }
<1>1. ASSUME NEW T \in SUBSET S,
             \A U \in SUBSET S : Cardinality(U) < Cardinality(T) => U \in P
      PROVE  T \in P
    <2>1. CASE T = {}
        BY <2>1, SumEmpty
    <2>2. CASE T # {}
        <3>1. IsFiniteSet(T) /\ Pick(T) \in T
            BY <2>2, PickIn, FS_Subset
        <3>2. T \ {Pick(T)} \in P
            BY <3>1, <1>1, SmallerSet
        <3> QED
            BY <3>1, <3>2, <2>2, SumPick
    <2> QED
        BY <2>1, <2>2
<1> HIDE DEF P
<1>2. SUBSET S \subseteq P
    BY <1>1, SubsetInduction
<1> QED
    BY <1>2 DEF P

\* SumRemove: the order in which the fold takes the elements is immaterial.
LEMMA SumRemove ==
    ASSUME NEW f, NEW S, IsFiniteSet(S), \A x \in S : f[x] \in Int,
           NEW e \in S
    PROVE  SumFunctionOnSet(f, S) = f[e] + SumFunctionOnSet(f, S \ {e})
PROOF
<1> DEFINE Q(T) == SumFunctionOnSet(f, T)
           P == { T \in SUBSET S : \A x \in T : Q(T) = f[x] + Q(T \ {x}) }
<1>0. \A T \in SUBSET S : IsFiniteSet(T) /\ Q(T) \in Int
    BY FS_Subset, SumType
<1>1. ASSUME NEW T \in SUBSET S,
             \A U \in SUBSET S : Cardinality(U) < Cardinality(T) => U \in P
      PROVE  T \in P
    <2>1. SUFFICES ASSUME NEW x \in T PROVE Q(T) = f[x] + Q(T \ {x})
        OBVIOUS
    <2> DEFINE p == Pick(T)
    <2>2. p \in T
        BY PickIn
    <2>3. Q(T) = f[p] + Q(T \ {p})
        BY <1>0, SumPick
    <2>4. CASE x = p
        BY <2>3, <2>4
    <2>5. CASE x # p
        <3>1. /\ Cardinality(T \ {p}) < Cardinality(T)
              /\ Cardinality(T \ {x}) < Cardinality(T)
            BY <1>0, <2>2, SmallerSet
        <3>2. T \ {p} \in P /\ T \ {x} \in P
            BY <3>1, <1>1
        <3>3. Q(T \ {p}) = f[x] + Q((T \ {p}) \ {x})
            BY <3>2, <2>5
        <3>4. Q(T \ {x}) = f[p] + Q((T \ {x}) \ {p})
            BY <3>2, <2>5, <2>2
        <3>5. (T \ {p}) \ {x} = (T \ {x}) \ {p}
            OBVIOUS
        <3>6. /\ f[x] \in Int /\ f[p] \in Int
              /\ Q((T \ {p}) \ {x}) \in Int
            BY <1>0, <2>2
        <3>7. \A i, j, k \in Int : i + (j + k) = j + (i + k)
            OBVIOUS
        <3>8. Q(T) = f[p] + (f[x] + Q((T \ {p}) \ {x}))
            BY ONLY <2>3, <3>3
        <3>9. Q(T \ {x}) = f[p] + Q((T \ {p}) \ {x})
            BY ONLY <3>4, <3>5
        <3> HIDE DEF Q, p
        <3> QED
            BY <3>6, <3>7, <3>8, <3>9
    <2> QED
        BY <2>4, <2>5
<1> HIDE DEF P
<1>2. SUBSET S \subseteq P
    BY <1>1, SubsetInduction
<1> QED
    BY <1>2 DEF P

\* SumAdd: one more element adds its value.
LEMMA SumAdd ==
    ASSUME NEW f, NEW S, IsFiniteSet(S), \A x \in S : f[x] \in Int,
           NEW e, e \notin S, f[e] \in Int
    PROVE  SumFunctionOnSet(f, S \cup {e}) = SumFunctionOnSet(f, S) + f[e]
PROOF
<1> DEFINE T == S \cup {e}
<1>1. IsFiniteSet(T) /\ e \in T /\ \A x \in T : f[x] \in Int
    BY FS_AddElement
<1>2. T \ {e} = S
    OBVIOUS
<1> HIDE DEF T
<1>3. SumFunctionOnSet(f, T) = f[e] + SumFunctionOnSet(f, T \ {e})
    BY <1>1, SumRemove
<1>4. SumFunctionOnSet(f, S) \in Int
    BY SumType
<1>5. SumFunctionOnSet(f, T) = f[e] + SumFunctionOnSet(f, S)
    BY <1>2, <1>3, Zenon
<1>6. SumFunctionOnSet(f, T) = SumFunctionOnSet(f, S) + f[e]
    BY <1>4, <1>5
<1> QED
    BY <1>6 DEF T

\* SumNat: naturals add up to a natural.
LEMMA SumNat ==
    ASSUME NEW f, NEW S, IsFiniteSet(S), \A x \in S : f[x] \in Nat
    PROVE  SumFunctionOnSet(f, S) \in Nat
PROOF
<1> DEFINE P == { T \in SUBSET S : SumFunctionOnSet(f, T) \in Nat }
<1>1. ASSUME NEW T \in SUBSET S,
             \A U \in SUBSET S : Cardinality(U) < Cardinality(T) => U \in P
      PROVE  T \in P
    <2>1. CASE T = {}
        BY <2>1, SumEmpty
    <2>2. CASE T # {}
        <3>1. IsFiniteSet(T) /\ Pick(T) \in T
            BY <2>2, PickIn, FS_Subset
        <3>2. T \ {Pick(T)} \in P
            BY <3>1, <1>1, SmallerSet
        <3> QED
            BY <3>1, <3>2, <2>2, SumPick
    <2> QED
        BY <2>1, <2>2
<1> HIDE DEF P
<1>2. SUBSET S \subseteq P
    BY <1>1, SubsetInduction
<1> QED
    BY <1>2 DEF P

\* SumEqual: the sum depends on the values on the set only.
LEMMA SumEqual ==
    ASSUME NEW f, NEW g, NEW S, IsFiniteSet(S), \A x \in S : f[x] = g[x]
    PROVE  SumFunctionOnSet(f, S) = SumFunctionOnSet(g, S)
PROOF
<1> DEFINE P == { T \in SUBSET S :
                     SumFunctionOnSet(f, T) = SumFunctionOnSet(g, T) }
<1>1. ASSUME NEW T \in SUBSET S,
             \A U \in SUBSET S : Cardinality(U) < Cardinality(T) => U \in P
      PROVE  T \in P
    <2>1. CASE T = {}
        BY <2>1, SumEmpty
    <2>2. CASE T # {}
        <3>1. IsFiniteSet(T) /\ Pick(T) \in T
            BY <2>2, PickIn, FS_Subset
        <3>2. T \ {Pick(T)} \in P
            BY <3>1, <1>1, SmallerSet
        <3>3. f[Pick(T)] = g[Pick(T)]
            BY <3>1
        <3>4. /\ SumFunctionOnSet(f, T) =
                     f[Pick(T)] + SumFunctionOnSet(f, T \ {Pick(T)})
              /\ SumFunctionOnSet(g, T) =
                     g[Pick(T)] + SumFunctionOnSet(g, T \ {Pick(T)})
            BY <3>1, <2>2, SumPick
        <3> QED
            BY <3>2, <3>3, <3>4
    <2> QED
        BY <2>1, <2>2
<1> HIDE DEF P
<1>2. SUBSET S \subseteq P
    BY <1>1, SubsetInduction
<1> QED
    BY <1>2 DEF P

\* SumZero: natural numbers add up to zero only if each of them is zero.
LEMMA SumZero ==
    ASSUME NEW f, NEW S, IsFiniteSet(S), \A x \in S : f[x] \in Nat
    PROVE  SumFunctionOnSet(f, S) = 0 <=> \A x \in S : f[x] = 0
PROOF
<1>1. ASSUME SumFunctionOnSet(f, S) = 0, NEW x \in S PROVE f[x] = 0
    <2>1. SumFunctionOnSet(f, S) = f[x] + SumFunctionOnSet(f, S \ {x})
        BY SumRemove
    <2>2. SumFunctionOnSet(f, S \ {x}) \in Nat /\ f[x] \in Nat
        BY SumNat, FS_Subset, S \ {x} \subseteq S
    <2> QED
        BY <1>1, <2>1, <2>2
<1>2. ASSUME \A x \in S : f[x] = 0 PROVE SumFunctionOnSet(f, S) = 0
    <2> DEFINE P == { T \in SUBSET S : SumFunctionOnSet(f, T) = 0 }
    <2>1. ASSUME NEW T \in SUBSET S,
                 \A U \in SUBSET S :
                     Cardinality(U) < Cardinality(T) => U \in P
          PROVE  T \in P
        <3>1. CASE T = {}
            BY <3>1, SumEmpty
        <3>2. CASE T # {}
            <4>1. IsFiniteSet(T) /\ Pick(T) \in T
                BY <3>2, PickIn, FS_Subset
            <4>2. T \ {Pick(T)} \in P
                BY <4>1, <2>1, SmallerSet
            <4> QED
                BY <4>1, <4>2, <3>2, <1>2, SumPick
        <3> QED
            BY <3>1, <3>2
    <2> HIDE DEF P
    <2>2. SUBSET S \subseteq P
        BY <2>1, SubsetInduction
    <2> QED
        BY <2>2 DEF P
<1> QED
    BY <1>1, <1>2

\* SumUpdate: changing the function at one element changes the sum by the
\* difference.
LEMMA SumUpdate ==
    ASSUME NEW f, NEW g, NEW S, IsFiniteSet(S), NEW e \in S,
           \A x \in S : f[x] \in Int /\ g[x] \in Int,
           \A x \in S : x # e => g[x] = f[x]
    PROVE  SumFunctionOnSet(g, S) = SumFunctionOnSet(f, S) + (g[e] - f[e])
PROOF
<1> DEFINE R == S \ {e}
<1>1. IsFiniteSet(R)
    BY FS_Subset
<1>2. SumFunctionOnSet(g, R) = SumFunctionOnSet(f, R)
    BY <1>1, SumEqual
<1>3. /\ SumFunctionOnSet(f, S) = f[e] + SumFunctionOnSet(f, R)
      /\ SumFunctionOnSet(g, S) = g[e] + SumFunctionOnSet(g, R)
    BY SumRemove
<1>4. f[e] \in Int /\ g[e] \in Int /\ SumFunctionOnSet(f, R) \in Int
    BY <1>1, SumType
<1> HIDE DEF R
<1> QED
    BY <1>2, <1>3, <1>4

\* SumAtMost: larger summands make a larger sum.
LEMMA SumAtMost ==
    ASSUME NEW f, NEW g, NEW S, IsFiniteSet(S),
           \A x \in S : f[x] \in Int /\ g[x] \in Int /\ f[x] <= g[x]
    PROVE  SumFunctionOnSet(f, S) <= SumFunctionOnSet(g, S)
PROOF
<1> DEFINE P == { T \in SUBSET S :
                     SumFunctionOnSet(f, T) <= SumFunctionOnSet(g, T) }
<1>1. ASSUME NEW T \in SUBSET S,
             \A U \in SUBSET S : Cardinality(U) < Cardinality(T) => U \in P
      PROVE  T \in P
    <2>1. CASE T = {}
        BY <2>1, SumEmpty
    <2>2. CASE T # {}
        <3> DEFINE x == Pick(T)
                   R == T \ {x}
        <3>1. IsFiniteSet(T) /\ x \in T /\ IsFiniteSet(R) /\ R \in SUBSET S
            BY <2>2, PickIn, FS_Subset
        <3>2. R \in P
            BY <3>1, <1>1, SmallerSet
        <3>3. /\ SumFunctionOnSet(f, T) = f[x] + SumFunctionOnSet(f, R)
              /\ SumFunctionOnSet(g, T) = g[x] + SumFunctionOnSet(g, R)
            BY <3>1, <2>2, SumPick
        <3>4. SumFunctionOnSet(f, R) \in Int /\ SumFunctionOnSet(g, R) \in Int
            BY <3>1, SumType
        <3>5. SumFunctionOnSet(f, R) <= SumFunctionOnSet(g, R)
            BY <3>2
        <3>6. f[x] \in Int /\ g[x] \in Int /\ f[x] <= g[x]
            BY <3>1
        <3> HIDE DEF x, R
        <3> QED
            BY <3>3, <3>4, <3>5, <3>6
    <2> QED
        BY <2>1, <2>2
<1> HIDE DEF P
<1>2. SUBSET S \subseteq P
    BY <1>1, SubsetInduction
<1> QED
    BY <1>2 DEF P

\* What a function on D maps into T.
Part(D, owner, T) == { d \in D : owner[d] \in T }

\* SumOfFibres: the sizes of the parts a function divides a set into add up
\* to the size of what these parts cover.
LEMMA SumOfFibres ==
    ASSUME NEW f, NEW T, IsFiniteSet(T), NEW D, IsFiniteSet(D), NEW owner,
           \A t \in T : f[t] = Cardinality(Part(D, owner, {t}))
    PROVE  SumFunctionOnSet(f, T) = Cardinality(Part(D, owner, T))
PROOF
<1> DEFINE Fibre(t) == Part(D, owner, {t})
           Over(U) == Part(D, owner, U)
           P == { U \in SUBSET T : SumFunctionOnSet(f, U) = Cardinality(Over(U)) }
<1>1. \A t : IsFiniteSet(Fibre(t)) /\ Cardinality(Fibre(t)) \in Nat
    BY FS_Subset, FS_CardinalityType DEF Part
<1>2. \A U : IsFiniteSet(Over(U)) /\ Cardinality(Over(U)) \in Nat
    BY FS_Subset, FS_CardinalityType DEF Part
<1>3. ASSUME NEW U \in SUBSET T,
             \A W \in SUBSET T : Cardinality(W) < Cardinality(U) => W \in P
      PROVE  U \in P
    <2>1. CASE U = {}
        <3>1. Over(U) = {}
            BY <2>1 DEF Part
        <3> QED
            BY <2>1, <3>1, SumEmpty, FS_EmptySet
    <2>2. CASE U # {}
        <3> DEFINE x == Pick(U)
                   R == U \ {x}
        <3>1. IsFiniteSet(U) /\ x \in U /\ R \in SUBSET T
            BY <2>2, PickIn, FS_Subset
        <3>2. R \in P
            BY <3>1, <1>3, SmallerSet
        <3>3. SumFunctionOnSet(f, U) = f[x] + SumFunctionOnSet(f, R)
            BY <3>1, <2>2, SumPick
        <3>4. Over(U) = Fibre(x) \cup Over(R) /\ Fibre(x) \cap Over(R) = {}
            BY <3>1 DEF Part
        <3>5. f[x] = Cardinality(Fibre(x))
            BY <3>1
        <3>6. SumFunctionOnSet(f, R) = Cardinality(Over(R))
            BY <3>2
        <3> HIDE DEF Fibre, Over, x, R
        <3>7. Cardinality(Fibre(x) \cup Over(R)) =
                 Cardinality(Fibre(x)) + Cardinality(Over(R))
                     - Cardinality(Fibre(x) \cap Over(R))
            BY <1>1, <1>2, FS_Union
        <3>8. Cardinality(Over(U)) = Cardinality(Fibre(x)) + Cardinality(Over(R))
            <4>1. Cardinality(Over(U)) =
                     Cardinality(Fibre(x)) + Cardinality(Over(R))
                         - Cardinality({})
                BY <3>4, <3>7, Zenon
            <4>2. Cardinality({}) = 0
                BY FS_EmptySet
            <4>3. /\ Cardinality(Fibre(x)) \in Nat
                  /\ Cardinality(Over(R)) \in Nat
                BY <1>1, <1>2
            <4> QED
                BY <4>1, <4>2, <4>3
        <3>9. SumFunctionOnSet(f, U) = Cardinality(Over(U))
            BY <3>3, <3>5, <3>6, <3>8
        <3> QED
            BY <3>9
    <2> QED
        BY <2>1, <2>2
<1> HIDE DEF P
<1>4. SUBSET T \subseteq P
    BY <1>3, SubsetInduction
<1> QED
    BY <1>4 DEF P

\* SumOfOnes: a sum of zeros and ones is the number of the ones.
LEMMA SumOfOnes ==
    ASSUME NEW f, NEW S, IsFiniteSet(S), \A x \in S : f[x] \in {0, 1}
    PROVE  SumFunctionOnSet(f, S) = Cardinality({ x \in S : f[x] > 0 })
PROOF
<1> DEFINE D == { x \in S : f[x] > 0 }
           own == [x \in D |-> x]
<1>1. IsFiniteSet(D)
    BY FS_Subset
<1>2. \A x \in S : f[x] = Cardinality(Part(D, own, {x}))
    <2>1. TAKE x \in S
    <2>2. CASE f[x] = 1
        <3>1. Part(D, own, {x}) = {x}
            BY <2>2 DEF Part
        <3> QED
            BY <2>2, <3>1, FS_Singleton
    <2>3. CASE f[x] = 0
        <3>1. Part(D, own, {x}) = {}
            BY <2>3 DEF Part
        <3> QED
            BY <2>3, <3>1, FS_EmptySet
    <2> QED
        BY <2>2, <2>3
<1>3. Part(D, own, S) = D
    BY DEF Part
<1> HIDE DEF D, own
<1>4. SumFunctionOnSet(f, S) = Cardinality(Part(D, own, S))
    BY <1>1, <1>2, SumOfFibres
<1> QED
    BY <1>3, <1>4 DEF D

\* ImageFinite: the values of a function on a finite set are finitely many.
LEMMA ImageFinite ==
    ASSUME NEW f, NEW S, IsFiniteSet(S)
    PROVE  IsFiniteSet({ f[x] : x \in S })
PROOF
<1> DEFINE T == { f[x] : x \in S }
           g == [x \in S |-> f[x]]
<1>1. g \in Surjection(S, T)
    BY DEF Surjection
<1> HIDE DEF T, g
<1>2. IsFiniteSet(T)
    BY <1>1, FS_Surjection
<1> QED
    BY <1>2 DEF T

-----------------------------------------------------------------------------
(* Occurrences of the elements of a set in a sequence.                     *)

\* UpToCount: the numbers up to n are n numbers.
LEMMA UpToCount ==
    ASSUME NEW n \in Nat
    PROVE  IsFiniteSet(1..n) /\ Cardinality(1..n) = n
PROOF
<1>1. /\ IsFiniteSet(1..n)
      /\ Cardinality(1..n) = IF 1 > n THEN 0 ELSE n - 1 + 1
    BY FS_Interval
<1> DEFINE c == Cardinality(1..n)
<1>2. c = IF 1 > n THEN 0 ELSE n - 1 + 1
    BY <1>1, Zenon
<1> HIDE DEF c
<1>3. c = n
    BY <1>2
<1> QED
    BY <1>1, <1>3 DEF c

Places(q, V) == { i \in DOMAIN q : q[i] \in V }

\* How many elements of a sequence are in V.
Occ(q, V) == Cardinality(Places(q, V))

\* OccType: a sequence has finitely many places.
LEMMA OccType ==
    ASSUME NEW S, NEW q \in Seq(S), NEW V
    PROVE  IsFiniteSet(Places(q, V)) /\ Occ(q, V) \in Nat
PROOF
<1>1. DOMAIN q = 1..Len(q) /\ Len(q) \in Nat
    OBVIOUS
<1>2. IsFiniteSet(1..Len(q))
    BY <1>1, FS_Interval
<1>3. IsFiniteSet(Places(q, V))
    BY <1>1, <1>2, FS_Subset DEF Places
<1> QED
    BY <1>3, FS_CardinalityType DEF Occ

\* OccNone: no element of a sequence is in V if and only if its count is zero.
LEMMA OccNone ==
    ASSUME NEW S, NEW q \in Seq(S), NEW V
    PROVE  Occ(q, V) = 0 <=> \A i \in DOMAIN q : q[i] \notin V
PROOF
<1>1. IsFiniteSet(Places(q, V))
    BY OccType
<1>2. Occ(q, V) = 0 <=> Places(q, V) = {}
    BY <1>1, FS_EmptySet DEF Occ
<1> QED
    BY <1>2 DEF Places

\* OccEmpty: the empty sequence has no elements.
LEMMA OccEmpty == ASSUME NEW V PROVE Occ(<<>>, V) = 0
PROOF
<1>1. Places(<<>>, V) = {}
    BY DEF Places
<1> QED
    BY <1>1, FS_EmptySet DEF Occ

\* OccOne: a sequence of one element.
LEMMA OccOne ==
    ASSUME NEW e, NEW V
    PROVE  Occ(<<e>>, V) = IF e \in V THEN 1 ELSE 0
PROOF
<1>1. CASE e \in V
    <2>1. Places(<<e>>, V) = {1}
        BY <1>1 DEF Places
    <2>2. Cardinality({1}) = 1
        BY FS_Singleton
    <2> QED
        BY <1>1, <2>1, <2>2 DEF Occ
<1>2. CASE e \notin V
    <2>1. Places(<<e>>, V) = {}
        BY <1>2 DEF Places
    <2> QED
        BY <1>2, <2>1, FS_EmptySet DEF Occ
<1> QED
    BY <1>1, <1>2

\* Shift: what a set of places becomes behind n other elements.
Shift(P, n) == { n + i : i \in P }

\* ShiftCounts: shifting a set of places does not change its size.
LEMMA ShiftCounts ==
    ASSUME NEW P \in SUBSET Nat, IsFiniteSet(P), NEW n \in Nat
    PROVE  IsFiniteSet(Shift(P, n)) /\ Cardinality(Shift(P, n)) = Cardinality(P)
PROOF
<1> DEFINE g == [i \in P |-> n + i]
<1>1. g \in Bijection(P, Shift(P, n))
    <2>1. g \in [P -> Shift(P, n)]
        BY DEF Shift
    <2>2. \A i, j \in P : g[i] = g[j] => i = j
        OBVIOUS
    <2>3. \A y \in Shift(P, n) : \E i \in P : g[i] = y
        BY DEF Shift
    <2> QED
        BY <2>1, <2>2, <2>3 DEF Bijection, Injection, Surjection, IsInjective
<1> HIDE DEF g
<1>2. ExistsBijection(P, Shift(P, n))
    BY <1>1 DEF ExistsBijection
<1> QED
    BY <1>2, FS_Bijection

\* OccConcat: the count of a concatenation is the sum of the counts.
LEMMA OccConcat ==
    ASSUME NEW S, NEW a \in Seq(S), NEW b \in Seq(S), NEW V
    PROVE  Occ(a \o b, V) = Occ(a, V) + Occ(b, V)
PROOF
<1> DEFINE A == Places(a, V)
           B == Places(b, V)
           C == Shift(B, Len(a))
<1>1. /\ IsFiniteSet(A) /\ IsFiniteSet(B)
      /\ Occ(a, V) \in Nat /\ Occ(b, V) \in Nat
    BY OccType
<1>2. B \in SUBSET Nat /\ Len(a) \in Nat
    BY DEF Places
<1>3. IsFiniteSet(C) /\ Cardinality(C) = Cardinality(B)
    BY <1>1, <1>2, ShiftCounts
<1>4. Places(a \o b, V) = A \cup C
    <2>1. /\ DOMAIN a = 1..Len(a) /\ DOMAIN b = 1..Len(b)
          /\ DOMAIN (a \o b) = 1..(Len(a) + Len(b))
          /\ Len(a) \in Nat /\ Len(b) \in Nat
        OBVIOUS
    <2>2. \A i \in 1..(Len(a) + Len(b)) :
             (a \o b)[i] = IF i <= Len(a) THEN a[i] ELSE b[i - Len(a)]
        OBVIOUS
    <2>3. ASSUME NEW i \in Places(a \o b, V) PROVE i \in A \cup C
        <3>1. i \in 1..(Len(a) + Len(b)) /\ (a \o b)[i] \in V
            BY <2>1 DEF Places
        <3>2. CASE i <= Len(a)
            BY <2>1, <2>2, <3>1, <3>2 DEF Places
        <3>3. CASE ~(i <= Len(a))
            <4>1. /\ i - Len(a) \in 1..Len(b) /\ b[i - Len(a)] \in V
                  /\ i = Len(a) + (i - Len(a))
                BY <2>1, <2>2, <3>1, <3>3
            <4> QED
                BY <2>1, <4>1 DEF Places, Shift
        <3> QED
            BY <3>2, <3>3
    <2>4. ASSUME NEW i \in A PROVE i \in Places(a \o b, V)
        <3>1. i \in 1..Len(a) /\ a[i] \in V
            BY <2>1 DEF Places
        <3>2. i \in 1..(Len(a) + Len(b)) /\ (a \o b)[i] = a[i]
            BY <2>1, <2>2, <3>1
        <3> QED
            BY <2>1, <3>1, <3>2 DEF Places
    <2>5. ASSUME NEW i \in C PROVE i \in Places(a \o b, V)
        <3>1. PICK j \in B : i = Len(a) + j
            BY DEF Shift
        <3>2. j \in 1..Len(b) /\ b[j] \in V
            BY <2>1 DEF Places
        <3>3. i \in 1..(Len(a) + Len(b)) /\ (a \o b)[i] = b[j]
            <4>1. i \in 1..(Len(a) + Len(b)) /\ ~(i <= Len(a)) /\ i - Len(a) = j
                BY <2>1, <3>1, <3>2
            <4> QED
                BY <4>1, <2>2
        <3> QED
            BY <2>1, <3>2, <3>3 DEF Places
    <2> QED
        BY <2>3, <2>4, <2>5
<1>5. A \cap C = {}
    <2>1. \A i \in A : i <= Len(a)
        BY DEF Places
    <2>2. \A i \in C : i > Len(a)
        BY DEF Places, Shift
    <2> HIDE DEF A, C
    <2>3. \A i \in A : i \in Int
        BY <2>1 DEF A, Places
    <2> QED
        BY <1>2, <2>1, <2>2, <2>3
<1> HIDE DEF A, B, C
<1>6. Cardinality(A \cup C) =
         Cardinality(A) + Cardinality(C) - Cardinality(A \cap C)
    BY <1>1, <1>3, FS_Union
<1>7. Cardinality(A \cap C) = 0
    BY <1>5, FS_EmptySet
<1>8. /\ Occ(a \o b, V) = Cardinality(A \cup C)
      /\ Occ(a, V) = Cardinality(A) /\ Occ(b, V) = Cardinality(B)
    BY <1>4 DEF Occ, A, B
<1> QED
    BY <1>1, <1>3, <1>6, <1>7, <1>8

\* OccAppend: one more element.
LEMMA OccAppend ==
    ASSUME NEW S, NEW q \in Seq(S), NEW e \in S, NEW V
    PROVE  Occ(Append(q, e), V) = Occ(q, V) + (IF e \in V THEN 1 ELSE 0)
PROOF
<1>1. Append(q, e) = q \o <<e>> /\ <<e>> \in Seq(S)
    OBVIOUS
<1>2. Occ(q \o <<e>>, V) = Occ(q, V) + Occ(<<e>>, V)
    BY <1>1, OccConcat
<1>3. Occ(<<e>>, V) = IF e \in V THEN 1 ELSE 0
    BY OccOne
<1> QED
    BY <1>1, <1>2, <1>3

\* OccTail: the first element and the rest.
LEMMA OccTail ==
    ASSUME NEW S, NEW q \in Seq(S), q # <<>>, NEW V
    PROVE  Occ(q, V) = (IF Head(q) \in V THEN 1 ELSE 0) + Occ(Tail(q), V)
PROOF
<1>1. q = <<Head(q)>> \o Tail(q)
    OBVIOUS
<1>2. <<Head(q)>> \in Seq(S) /\ Tail(q) \in Seq(S)
    OBVIOUS
<1>3. Occ(<<Head(q)>> \o Tail(q), V) = Occ(<<Head(q)>>, V) + Occ(Tail(q), V)
    BY <1>2, OccConcat
<1>4. Occ(<<Head(q)>>, V) = IF Head(q) \in V THEN 1 ELSE 0
    BY OccOne
<1> QED
    BY <1>1, <1>3, <1>4

\* OccRemove: a sequence without its i-th element.
LEMMA OccRemove ==
    ASSUME NEW S, NEW q \in Seq(S), NEW i \in DOMAIN q, NEW V
    PROVE  LET r == SubSeq(q, 1, i - 1) \o SubSeq(q, i + 1, Len(q))
           IN  /\ r \in Seq(S)
               /\ Occ(q, V) = Occ(r, V) + (IF q[i] \in V THEN 1 ELSE 0)
PROOF
<1> DEFINE a == SubSeq(q, 1, i - 1)
           b == SubSeq(q, i + 1, Len(q))
<1>1. i \in 1..Len(q) /\ Len(q) \in Nat /\ q[i] \in S
    OBVIOUS
<1>2. a \in Seq(S) /\ b \in Seq(S) /\ <<q[i]>> \in Seq(S)
    BY <1>1
<1>3. q = Append(a, q[i]) \o b
    <2>1. Len(a) = i - 1 /\ Len(b) = Len(q) - i
        BY <1>1
    <2>2. \A j \in 1..Len(a) : a[j] = q[j]
        BY <1>1, <2>1
    <2>3. \A j \in 1..Len(b) : b[j] = q[i + j]
        BY <1>1, <2>1
    <2> HIDE DEF a, b
    <2>4. /\ Append(a, q[i]) \o b \in Seq(S)
          /\ Len(Append(a, q[i]) \o b) = Len(q)
          /\ \A j \in 1..Len(q) : (Append(a, q[i]) \o b)[j] = q[j]
        <3>1. /\ Append(a, q[i]) \in Seq(S) /\ Len(Append(a, q[i])) = i
              /\ \A j \in 1..i : Append(a, q[i])[j] = q[j]
            BY <1>1, <1>2, <2>1, <2>2
        <3> DEFINE c == Append(a, q[i])
        <3> HIDE DEF c
        <3>2. c \in Seq(S) /\ Len(c) = i /\ \A j \in 1..i : c[j] = q[j]
            BY <3>1 DEF c
        <3>3. /\ c \o b \in Seq(S) /\ Len(c \o b) = Len(c) + Len(b)
              /\ \A j \in 1..Len(c) + Len(b) :
                    (c \o b)[j] = IF j <= Len(c) THEN c[j] ELSE b[j - Len(c)]
            BY <1>2, <3>2, ConcatProperties
        <3>4. i + (Len(q) - i) = Len(q)
            BY <1>1
        <3> DEFINE d == c \o b
        <3>6. \A j \in 1..Len(q) : d[j] = IF j <= i THEN c[j] ELSE b[j - i]
            <4>1. Len(c) + Len(b) = Len(q) /\ Len(c) = i
                BY <2>1, <3>2, <3>4
            <4> QED
                BY <3>3, <4>1, Zenon
        <3> HIDE DEF d
        <3>5. ASSUME NEW j \in 1..Len(q) PROVE d[j] = q[j]
            <4>1. CASE j <= i
                BY <1>1, <3>2, <3>6, <4>1
            <4>2. CASE ~(j <= i)
                <5>1. j - i \in 1..Len(b) /\ i + (j - i) = j
                    BY <1>1, <2>1, <4>2
                <5>2. d[j] = b[j - i]
                    BY <3>6, <4>2
                <5> QED
                    BY <2>3, <5>1, <5>2
            <4> QED
                BY <4>1, <4>2
        <3> QED
            BY <2>1, <3>2, <3>3, <3>4, <3>5 DEF c, d
    <2> DEFINE c == Append(a, q[i]) \o b
    <2> HIDE DEF c
    <2>5. c \in Seq(S) /\ Len(c) = Len(q) /\ \A j \in 1..Len(c) : c[j] = q[j]
        BY <2>4 DEF c
    <2>6. c = q
        BY <2>5, SeqEqual
    <2> QED
        BY <2>6 DEF c
<1> HIDE DEF a, b
<1>4. Occ(Append(a, q[i]) \o b, V) = Occ(Append(a, q[i]), V) + Occ(b, V)
    <2>1. Append(a, q[i]) \in Seq(S)
        BY <1>1, <1>2
    <2> QED
        BY <1>2, <2>1, OccConcat
<1>5. Occ(Append(a, q[i]), V) = Occ(a, V) + (IF q[i] \in V THEN 1 ELSE 0)
    BY <1>1, <1>2, OccAppend
<1>6. Occ(a \o b, V) = Occ(a, V) + Occ(b, V) /\ a \o b \in Seq(S)
    BY <1>2, OccConcat
<1>7. Occ(a, V) \in Nat /\ Occ(b, V) \in Nat
    BY <1>2, OccType
<1>8. Occ(q, V) = Occ(a \o b, V) + (IF q[i] \in V THEN 1 ELSE 0)
    <2>1. Occ(q, V) = Occ(Append(a, q[i]) \o b, V)
        BY <1>3, Zenon
    <2> QED
        BY <2>1, <1>4, <1>5, <1>6, <1>7
<1> QED
    BY <1>6, <1>8 DEF a, b

\* OccSplit: the parts of a divided V are counted separately.
LEMMA OccSplit ==
    ASSUME NEW S, NEW q \in Seq(S), NEW V, NEW W, V \cap W = {}
    PROVE  Occ(q, V \cup W) = Occ(q, V) + Occ(q, W)
PROOF
<1>1. /\ IsFiniteSet(Places(q, V)) /\ IsFiniteSet(Places(q, W))
      /\ Occ(q, V) \in Nat /\ Occ(q, W) \in Nat
    BY OccType
<1>2. /\ Places(q, V \cup W) = Places(q, V) \cup Places(q, W)
      /\ Places(q, V) \cap Places(q, W) = {}
    BY DEF Places
<1>3. Cardinality(Places(q, V) \cup Places(q, W)) =
         Cardinality(Places(q, V)) + Cardinality(Places(q, W))
             - Cardinality(Places(q, V) \cap Places(q, W))
    BY <1>1, FS_Union
<1>4. Cardinality(Places(q, V) \cap Places(q, W)) = 0
    BY <1>2, FS_EmptySet
<1>5. Occ(q, V \cup W) = Cardinality(Places(q, V) \cup Places(q, W))
    BY <1>2 DEF Occ
<1>6. /\ Occ(q, V) = Cardinality(Places(q, V))
      /\ Occ(q, W) = Cardinality(Places(q, W))
    BY DEF Occ
<1> QED
    BY <1>1, <1>3, <1>4, <1>5, <1>6
===============================================================================
