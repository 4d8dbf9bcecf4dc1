------------------------- MODULE CollectionTheorems -------------------------
(***************************************************************************)
(* Sums, queues and maxima.  The quantities of orders and reports are      *)
(* added up with SumFunctionOnSet, a fold; elements leave the middle of a  *)
(* queue with RemoveAt; the newest of a set is its Max.  What the proofs   *)
(* need of them is shown here once, for every finite set and sequence.     *)
(* Induction is over sets of numbers and families of sets.                 *)
(***************************************************************************)
EXTENDS Integers, SequencesExt, FiniteSetTheorems, SequenceTheorems, WellFoundedInduction, TLAPS

-----------------------------------------------------------------------------
\* A set of numbers that has 0, and n + 1 with every n, has all of them.
LEMMA NatSetInduction ==
  ASSUME NEW T, T \subseteq Nat, 0 \in T, \A n \in T : n + 1 \in T
  PROVE  T = Nat
<1>1. SUFFICES ASSUME Nat \ T # {} PROVE FALSE
  OBVIOUS
<1>2. IsWellFoundedOn(OpToRel(<, Nat), Nat)
  BY NatLessThanWellFounded
<1>3. PICK n \in Nat \ T : \A m \in Nat \ T : ~ (<<m, n>> \in OpToRel(<, Nat))
  <2> DEFINE U == Nat \ T
  <2>1. U \subseteq Nat /\ U # {}
    BY <1>1
  <2> HIDE DEF U
  <2>2. \E x \in U : \A y \in U : ~ (<<y, x>> \in OpToRel(<, Nat))
    BY <1>2, <2>1, WFMin
  <2> QED BY <2>2 DEF U
<1>4. \A m \in Nat \ T : ~ (m < n)
  BY <1>3 DEF OpToRel
<1>5. n # 0 /\ n - 1 \in Nat
  OBVIOUS
<1>6. n - 1 \in T
  BY <1>4, <1>5
<1> QED BY <1>5, <1>6, n - 1 + 1 = n

\* The recursion by which SumFunctionOnSet is defined in Folds.
SumRec(g, f, S) ==
  g = [s \in SUBSET S |->
         IF s = {} THEN 0
         ELSE f[CHOOSE x \in s : TRUE] + g[s \ {CHOOSE x \in s : TRUE}]]

\* SumFunctionOnSet is a solution of its recursion, where there is one.
LEMMA SumIsRec ==
  ASSUME NEW f, NEW S, \E g : SumRec(g, f, S)
  PROVE  \E g : SumRec(g, f, S) /\ SumFunctionOnSet(f, S) = g[S]
<1> DEFINE h == CHOOSE g : SumRec(g, f, S)
<1>1. SumRec(h, f, S)
  OBVIOUS
<1>2. SumFunctionOnSet(f, S) = h[S]
  BY DEF SumFunctionOnSet, FoldFunctionOnSet, MapThenFoldSet, SumRec
<1> QED BY <1>1, <1>2

\* A family of sets that has {}, and T \cup {x} with every T it has, has every
\* finite set: how an invariant about all the orders, lots or messages is reached
\* one of them at a time.
LEMMA SubsetInduction ==
  ASSUME NEW S, IsFiniteSet(S), NEW U, {} \in U,
         \A T \in SUBSET S : \A x \in S : T \in U /\ x \notin T => T \cup {x} \in U
  PROVE  S \in U
<1> DEFINE Good == {n \in Nat : \A T \in SUBSET S : Cardinality(T) = n => T \in U}
<1>1. 0 \in Good
  <2> SUFFICES ASSUME NEW T \in SUBSET S, Cardinality(T) = 0 PROVE T \in U
    OBVIOUS
  <2>1. IsFiniteSet(T)
    BY FS_Subset
  <2> QED BY <2>1, FS_EmptySet
<1>2. \A n \in Good : n + 1 \in Good
  <2> SUFFICES ASSUME NEW n \in Good, NEW T \in SUBSET S, Cardinality(T) = n + 1
               PROVE  T \in U
    OBVIOUS
  <2>1. IsFiniteSet(T)
    BY FS_Subset
  <2>2. T # {}
    BY <2>1, FS_EmptySet
  <2>3. PICK x \in T : TRUE
    BY <2>2
  <2>4. IsFiniteSet(T \ {x}) /\ Cardinality(T \ {x}) = Cardinality(T) - 1
    BY <2>1, FS_RemoveElement
  <2>5. T \ {x} \in U
    <3>1. n \in Nat /\ Cardinality(T \ {x}) = n
      BY <2>4
    <3> QED BY <3>1
  <2>6. T = (T \ {x}) \cup {x}
    OBVIOUS
  <2> QED BY <2>5, <2>6
<1>3. Good \subseteq Nat
  OBVIOUS
<1> HIDE DEF Good
<1>4. Good = Nat
  BY <1>1, <1>2, <1>3, NatSetInduction
<1>5. Cardinality(S) \in Nat
  BY FS_CardinalityType
<1> QED BY <1>4, <1>5 DEF Good

\* The same for the sets of W, with the element to be taken given by pick.
PickRec(g, f, pick, W) ==
  \A s \in W : g[s] = IF s = {} THEN 0 ELSE f[pick[s]] + g[s \ {pick[s]}]

\* Taking the elements of a finite set one after the other, in the order pick
\* gives, defines a sum for each of its subsets.
LEMMA PickRecExists ==
  ASSUME NEW f, NEW S, IsFiniteSet(S), NEW pick, 
         \A s \in SUBSET S : s # {} => pick[s] \in s
  PROVE  \E g : g = [s \in SUBSET S |-> g[s]] /\ PickRec(g, f, pick, SUBSET S)
<1> DEFINE Small(n) == {s \in SUBSET S : Cardinality(s) <= n}
           Good == {n \in Nat : \E g : PickRec(g, f, pick, Small(n))}
<1>1. \A s \in SUBSET S : IsFiniteSet(s) /\ Cardinality(s) \in Nat
  BY FS_Subset, FS_CardinalityType
<1>2. \A s \in SUBSET S : s # {} => 
           s \ {pick[s]} \in SUBSET S /\ Cardinality(s \ {pick[s]}) = Cardinality(s) - 1
  BY <1>1, FS_RemoveElement
<1>3. 0 \in Good
  <2> DEFINE g == [s \in Small(0) |-> 0]
  <2>1. \A s \in Small(0) : s = {}
    BY <1>1, FS_EmptySet
  <2>2. PickRec(g, f, pick, Small(0))
    BY <2>1 DEF PickRec
  <2> QED BY <2>2
<1>4. ASSUME NEW n \in Good PROVE n + 1 \in Good
  <2>1. PICK g : PickRec(g, f, pick, Small(n))
    OBVIOUS
  <2> DEFINE h == [s \in Small(n + 1) |->
                     IF s = {} THEN 0 ELSE f[pick[s]] + g[s \ {pick[s]}]]
  <2>2. \A s \in Small(n) : s \in Small(n + 1) /\ h[s] = g[s]
    BY <1>1, <2>1 DEF PickRec
  <2>3. \A s \in Small(n + 1) : s # {} => s \ {pick[s]} \in Small(n)
    BY <1>1, <1>2
  <2>4. \A s \in Small(n + 1) :
          h[s] = IF s = {} THEN 0 ELSE f[pick[s]] + g[s \ {pick[s]}]
    OBVIOUS
  <2> HIDE DEF h, Small
  <2>5. \A s \in Small(n + 1) :
          h[s] = IF s = {} THEN 0 ELSE f[pick[s]] + h[s \ {pick[s]}]
    BY <2>2, <2>3, <2>4
  <2>6. PickRec(h, f, pick, Small(n + 1))
    BY <2>5 DEF PickRec
  <2> QED BY <2>6
<1>5. Good \subseteq Nat
  OBVIOUS
<1>6. Good = Nat
  <2> HIDE DEF Good
  <2> QED BY <1>3, <1>4, <1>5, NatSetInduction
<1>7. Cardinality(S) \in Good
  BY <1>1, <1>6
<1>8. PICK g : PickRec(g, f, pick, Small(Cardinality(S)))
  BY <1>7
<1>9. Small(Cardinality(S)) = SUBSET S
  BY <1>1, FS_Subset
<1> DEFINE h == [s \in SUBSET S |-> g[s]]
<1>10. PickRec(h, f, pick, SUBSET S)
  BY <1>8, <1>9 DEF PickRec
<1>11. h = [s \in SUBSET S |-> h[s]]
  OBVIOUS
<1> HIDE DEF h
<1> QED BY <1>10, <1>11

\* The recursion of SumFunctionOnSet has a solution on a finite set.
LEMMA SumRecExists ==
  ASSUME NEW f, NEW S, IsFiniteSet(S)
  PROVE  \E g : SumRec(g, f, S)
<1> DEFINE pick == [s \in SUBSET S |-> CHOOSE x \in s : TRUE]
<1>1. \A s \in SUBSET S : s # {} => pick[s] \in s
  OBVIOUS
<1>2. \A s \in SUBSET S : pick[s] = CHOOSE x \in s : TRUE
  OBVIOUS
<1> HIDE DEF pick
<1>3. PICK g : g = [s \in SUBSET S |-> g[s]] /\ PickRec(g, f, pick, SUBSET S)
  BY <1>1, PickRecExists
<1>4. \A s \in SUBSET S :
        g[s] = IF s = {} THEN 0
               ELSE f[CHOOSE x \in s : TRUE] + g[s \ {CHOOSE x \in s : TRUE}]
  BY <1>2, <1>3 DEF PickRec
<1>5. SumRec(g, f, S)
  BY <1>3, <1>4, Zenon DEF SumRec
<1> QED BY <1>5

\* The recursion has one solution, whatever set it is started on.
LEMMA SumRecUnique ==
  ASSUME NEW f, NEW S, IsFiniteSet(S), NEW T, T \subseteq S,
         NEW g, SumRec(g, f, S), NEW h, SumRec(h, f, T)
  PROVE  g[T] = h[T]
<1> DEFINE Good == {n \in Nat : \A s \in SUBSET T : Cardinality(s) = n => g[s] = h[s]}
<1>1. \A s \in SUBSET T : IsFiniteSet(s) /\ Cardinality(s) \in Nat
  BY FS_Subset, FS_CardinalityType
<1>2. 0 \in Good
  <2>1. \A s \in SUBSET T : Cardinality(s) = 0 => s = {}
    BY <1>1, FS_EmptySet
  <2>2. g[{}] = h[{}]
    BY DEF SumRec
  <2> QED BY <2>1, <2>2
<1>3. ASSUME NEW n \in Good PROVE n + 1 \in Good
  <2> SUFFICES ASSUME NEW s \in SUBSET T, Cardinality(s) = n + 1 PROVE g[s] = h[s]
    OBVIOUS
  <2> DEFINE x == CHOOSE x \in s : TRUE
             r == s \ {x}
  <2>1. s # {}
    BY FS_EmptySet
  <2>2. x \in s
    BY <2>1
  <2>3. Cardinality(r) = Cardinality(s) - 1
    BY <1>1, <2>2, FS_RemoveElement
  <2>4. g[s] = f[x] + g[r]
    BY <2>1 DEF SumRec
  <2>5. h[s] = f[x] + h[r]
    BY <2>1 DEF SumRec
  <2>6. r \in SUBSET T
    OBVIOUS
  <2> HIDE DEF x, r
  <2>7. g[r] = h[r]
    <3>1. Cardinality(r) = n
      BY <2>3
    <3> QED BY <2>6, <3>1
  <2> QED BY <2>4, <2>5, <2>7
<1>4. Good \subseteq Nat
  OBVIOUS
<1>5. Good = Nat
  <2> HIDE DEF Good
  <2> QED BY <1>2, <1>3, <1>4, NatSetInduction
<1>6. Cardinality(T) \in Good
  BY <1>1, <1>5
<1> QED BY <1>6

\* Nothing adds up to zero.
LEMMA SumEmpty == \A f : SumFunctionOnSet(f, {}) = 0
<1> TAKE f
<1>1. IsFiniteSet({})
  BY FS_EmptySet
<1>2. \E g : SumRec(g, f, {})
  BY <1>1, SumRecExists
<1>3. PICK g : SumRec(g, f, {}) /\ SumFunctionOnSet(f, {}) = g[{}]
  BY <1>2, SumIsRec
<1> QED BY <1>3 DEF SumRec

\* A sum is one of its terms and the sum of the others.
LEMMA SumChosen ==
  ASSUME NEW f, NEW S, IsFiniteSet(S), S # {}
  PROVE  \E x \in S : /\ x = CHOOSE y \in S : TRUE
                      /\ SumFunctionOnSet(f, S) = f[x] + SumFunctionOnSet(f, S \ {x})
<1> DEFINE x == CHOOSE y \in S : TRUE
           r == S \ {x}
<1>1. IsFiniteSet(r)
  BY FS_Subset
<1>2. PICK g : SumRec(g, f, S) /\ SumFunctionOnSet(f, S) = g[S]
  BY SumRecExists, SumIsRec
<1>3. PICK h : SumRec(h, f, r) /\ SumFunctionOnSet(f, r) = h[r]
  <2> HIDE DEF r
  <2> QED BY <1>1, SumRecExists, SumIsRec
<1>4. g[S] = f[x] + g[r]
  BY <1>2 DEF SumRec
<1>5. g[r] = h[r]
  <2>1. r \subseteq S
    OBVIOUS
  <2> HIDE DEF r
  <2> QED BY <1>2, <1>3, <2>1, SumRecUnique
<1>6. x \in S
  OBVIOUS
<1> QED BY <1>2, <1>3, <1>4, <1>5, <1>6

\* A sum of integers is an integer.
THEOREM SumType ==
  ASSUME NEW S, IsFiniteSet(S), NEW f, \A x \in S : f[x] \in Int
  PROVE  SumFunctionOnSet(f, S) \in Int
<1> DEFINE Sum(T) == SumFunctionOnSet(f, T)
           Good == {n \in Nat : \A T \in SUBSET S : Cardinality(T) = n => Sum(T) \in Int}
<1> HIDE DEF Sum
<1>1. \A T \in SUBSET S : IsFiniteSet(T) /\ Cardinality(T) \in Nat
  BY FS_Subset, FS_CardinalityType
<1>2. 0 \in Good
  <2>1. \A T \in SUBSET S : Cardinality(T) = 0 => T = {}
    BY <1>1, FS_EmptySet
  <2>2. Sum({}) \in Int
    BY SumEmpty DEF Sum
  <2> QED BY <2>1, <2>2
<1>3. ASSUME NEW n \in Good PROVE n + 1 \in Good
  <2> SUFFICES ASSUME NEW T \in SUBSET S, Cardinality(T) = n + 1 PROVE Sum(T) \in Int
    OBVIOUS
  <2>1. T # {}
    BY FS_EmptySet
  <2>2. PICK y \in T : Sum(T) = f[y] + Sum(T \ {y})
    BY <1>1, <2>1, SumChosen DEF Sum
  <2>3. Cardinality(T \ {y}) = Cardinality(T) - 1
    BY <1>1, FS_RemoveElement
  <2>4. Cardinality(T \ {y}) = n /\ T \ {y} \in SUBSET S
    BY <2>3
  <2> QED BY <2>2, <2>4
<1>4. Good \subseteq Nat
  OBVIOUS
<1>5. Good = Nat
  <2> HIDE DEF Good
  <2> QED BY <1>2, <1>3, <1>4, NatSetInduction
<1>6. Cardinality(S) \in Good
  BY <1>1, <1>5
<1> QED BY <1>6 DEF Sum

\* Any term may be taken out of a sum.
THEOREM SumRemove ==
  ASSUME NEW S, IsFiniteSet(S), NEW f, \A x \in S : f[x] \in Int, NEW x \in S
  PROVE  SumFunctionOnSet(f, S) = f[x] + SumFunctionOnSet(f, S \ {x})
<1> DEFINE Sum(T) == SumFunctionOnSet(f, T)
           Fine(T) == \A z \in T : Sum(T) = f[z] + Sum(T \ {z})
           Good == {n \in Nat : \A T \in SUBSET S : Cardinality(T) = n => Fine(T)}
<1>1. \A T \in SUBSET S : IsFiniteSet(T) /\ Cardinality(T) \in Nat
  BY FS_Subset, FS_CardinalityType
<1>2. \A T \in SUBSET S : Sum(T) \in Int
  BY <1>1, SumType
<1>3. \A T \in SUBSET S : T # {} => \E y \in T : Sum(T) = f[y] + Sum(T \ {y})
  BY <1>1, SumChosen
<1> HIDE DEF Sum
<1>4. 0 \in Good
  BY <1>1, FS_EmptySet
<1>5. ASSUME NEW n \in Good PROVE n + 1 \in Good
  <2> SUFFICES ASSUME NEW T \in SUBSET S, Cardinality(T) = n + 1, NEW z \in T
               PROVE  Sum(T) = f[z] + Sum(T \ {z})
    OBVIOUS
  <2>1. PICK y \in T : Sum(T) = f[y] + Sum(T \ {y})
    BY <1>3
  <2>2. CASE z = y
    BY <2>1, <2>2
  <2>3. CASE z # y
    <3>1. ASSUME NEW u \in T PROVE Fine(T \ {u})
      <4>1. Cardinality(T \ {u}) = Cardinality(T) - 1
        BY <1>1, FS_RemoveElement
      <4>2. Cardinality(T \ {u}) = n /\ T \ {u} \in SUBSET S
        BY <4>1
      <4> QED BY <4>2
    <3>4. (T \ {y}) \ {z} = (T \ {z}) \ {y} /\ (T \ {z}) \ {y} \in SUBSET S
      OBVIOUS
    <3>2. Sum(T \ {y}) = f[z] + Sum((T \ {z}) \ {y})
      BY <2>3, <3>1, <3>4
    <3>3. Sum(T \ {z}) = f[y] + Sum((T \ {z}) \ {y})
      BY <2>3, <3>1
    <3>5. Sum((T \ {z}) \ {y}) \in Int /\ f[z] \in Int /\ f[y] \in Int
      BY <1>2, <3>4
    <3> QED BY <2>1, <3>2, <3>3, <3>5
  <2> QED BY <2>2, <2>3
<1>6. Good \subseteq Nat
  OBVIOUS
<1>7. Good = Nat
  <2> HIDE DEF Good
  <2> QED BY <1>4, <1>5, <1>6, NatSetInduction
<1>8. Cardinality(S) \in Good
  BY <1>1, <1>7
<1> QED BY <1>8 DEF Sum

\* Equal terms have equal sums.
THEOREM SumAgrees ==
  ASSUME NEW S, IsFiniteSet(S), NEW f, NEW g, \A x \in S : f[x] = g[x] /\ f[x] \in Int
  PROVE  SumFunctionOnSet(f, S) = SumFunctionOnSet(g, S)
<1> DEFINE U == {T \in SUBSET S : SumFunctionOnSet(f, T) = SumFunctionOnSet(g, T)}
<1>1. {} \in U
  BY SumEmpty
<1>2. ASSUME NEW T \in SUBSET S, NEW x \in S, T \in U, x \notin T
      PROVE  T \cup {x} \in U
  <2>1. IsFiniteSet(T \cup {x}) /\ (T \cup {x}) \ {x} = T
    BY <1>2, FS_Subset
  <2>2. SumFunctionOnSet(f, T \cup {x}) = f[x] + SumFunctionOnSet(f, T)
    BY <2>1, SumRemove
  <2>3. SumFunctionOnSet(g, T \cup {x}) = g[x] + SumFunctionOnSet(g, T)
    BY <2>1, SumRemove
  <2> QED BY <1>2, <2>2, <2>3
<1>3. S \in U
  <2> HIDE DEF U
  <2> QED BY <1>1, <1>2, SubsetInduction
<1> QED BY <1>3

\* The sum of the terms added up one by one.
THEOREM SumAdds ==
  ASSUME NEW S, IsFiniteSet(S), NEW f, NEW g, NEW h,
         \A x \in S : f[x] \in Int /\ g[x] \in Int /\ h[x] = f[x] + g[x]
  PROVE  SumFunctionOnSet(h, S) = SumFunctionOnSet(f, S) + SumFunctionOnSet(g, S)
<1> DEFINE U == {T \in SUBSET S : SumFunctionOnSet(h, T)
                                   = SumFunctionOnSet(f, T) + SumFunctionOnSet(g, T)}
<1>1. {} \in U
  BY SumEmpty
<1>2. ASSUME NEW T \in SUBSET S, NEW x \in S, T \in U, x \notin T
      PROVE  T \cup {x} \in U
  <2>1. IsFiniteSet(T) /\ IsFiniteSet(T \cup {x}) /\ (T \cup {x}) \ {x} = T
    BY <1>2, FS_Subset
  <2>2. SumFunctionOnSet(f, T \cup {x}) = f[x] + SumFunctionOnSet(f, T)
    BY <2>1, SumRemove
  <2>3. SumFunctionOnSet(g, T \cup {x}) = g[x] + SumFunctionOnSet(g, T)
    BY <2>1, SumRemove
  <2>4. SumFunctionOnSet(h, T \cup {x}) = h[x] + SumFunctionOnSet(h, T)
    BY <2>1, SumRemove
  <2>5. SumFunctionOnSet(f, T) \in Int /\ SumFunctionOnSet(g, T) \in Int
    BY <2>1, SumType
  <2> QED BY <1>2, <2>2, <2>3, <2>4, <2>5
<1>3. S \in U
  <2> HIDE DEF U
  <2> QED BY <1>1, <1>2, SubsetInduction
<1> QED BY <1>3

\* Quantities that are not negative have a sum that is not.
THEOREM SumNatural ==
  ASSUME NEW S, IsFiniteSet(S), NEW f, \A x \in S : f[x] \in Nat
  PROVE  SumFunctionOnSet(f, S) \in Nat
<1> DEFINE U == {T \in SUBSET S : SumFunctionOnSet(f, T) \in Nat}
<1>1. {} \in U
  BY SumEmpty
<1>2. ASSUME NEW T \in SUBSET S, NEW x \in S, T \in U, x \notin T
      PROVE  T \cup {x} \in U
  <2>1. IsFiniteSet(T \cup {x}) /\ (T \cup {x}) \ {x} = T
    BY <1>2, FS_Subset
  <2>2. SumFunctionOnSet(f, T \cup {x}) = f[x] + SumFunctionOnSet(f, T)
    BY <2>1, SumRemove
  <2> QED BY <1>2, <2>2
<1>3. S \in U
  <2> HIDE DEF U
  <2> QED BY <1>1, <1>2, SubsetInduction
<1> QED BY <1>3

\* The sum over two sets that share nothing.
THEOREM SumSplits ==
  ASSUME NEW A, IsFiniteSet(A), NEW B, IsFiniteSet(B), A \cap B = {},
         NEW f, \A x \in A \cup B : f[x] \in Int
  PROVE  SumFunctionOnSet(f, A \cup B) = SumFunctionOnSet(f, A) + SumFunctionOnSet(f, B)
<1> DEFINE U == {T \in SUBSET B : SumFunctionOnSet(f, A \cup T)
                                   = SumFunctionOnSet(f, A) + SumFunctionOnSet(f, T)}
<1>1. SumFunctionOnSet(f, A) \in Int
  BY SumType
<1>2. {} \in U
  <2>1. A \cup {} = A /\ SumFunctionOnSet(f, {}) = 0
    BY SumEmpty
  <2> QED BY <1>1, <2>1
<1>3. ASSUME NEW T \in SUBSET B, NEW x \in B, T \in U, x \notin T
      PROVE  T \cup {x} \in U
  <2>1. IsFiniteSet(T) /\ IsFiniteSet(T \cup {x}) /\ (T \cup {x}) \ {x} = T
    BY <1>3, FS_Subset
  <2>2. IsFiniteSet(A \cup T)
    BY <2>1, FS_Union
  <2>3. IsFiniteSet(A \cup (T \cup {x}))
    BY <2>1, FS_Union
  <2>4. (A \cup (T \cup {x})) \ {x} = A \cup T
    BY <1>3
  <2>5. SumFunctionOnSet(f, T \cup {x}) = f[x] + SumFunctionOnSet(f, T)
    BY <2>1, SumRemove
  <2>6. SumFunctionOnSet(f, A \cup (T \cup {x})) = f[x] + SumFunctionOnSet(f, A \cup T)
    BY <2>3, <2>4, SumRemove
  <2>7. SumFunctionOnSet(f, T) \in Int
    BY <2>1, SumType
  <2> QED BY <1>1, <1>3, <2>5, <2>6, <2>7
<1>4. B \in U
  <2> HIDE DEF U
  <2> QED BY <1>2, <1>3, SubsetInduction
<1> QED BY <1>4

\* Terms that are zero have the sum zero.
THEOREM SumZero ==
  ASSUME NEW S, IsFiniteSet(S), NEW f, \A x \in S : f[x] = 0
  PROVE  SumFunctionOnSet(f, S) = 0
<1> DEFINE U == {T \in SUBSET S : SumFunctionOnSet(f, T) = 0}
<1>1. {} \in U
  BY SumEmpty
<1>2. ASSUME NEW T \in SUBSET S, NEW x \in S, T \in U, x \notin T
      PROVE  T \cup {x} \in U
  <2>1. IsFiniteSet(T \cup {x}) /\ (T \cup {x}) \ {x} = T
    BY <1>2, FS_Subset
  <2>2. SumFunctionOnSet(f, T \cup {x}) = f[x] + SumFunctionOnSet(f, T)
    BY <2>1, SumRemove
  <2> QED BY <1>2, <2>2
<1>3. S \in U
  <2> HIDE DEF U
  <2> QED BY <1>1, <1>2, SubsetInduction
<1> QED BY <1>3

\* Changing one quantity of many (an order, a lot, a balance) changes their sum by
\* as much.
THEOREM SumChange ==
  ASSUME NEW S, IsFiniteSet(S), NEW f, NEW g, NEW z \in S,
         \A x \in S : f[x] \in Int /\ g[x] \in Int,
         \A x \in S \ {z} : g[x] = f[x]
  PROVE  SumFunctionOnSet(g, S) = SumFunctionOnSet(f, S) - f[z] + g[z]
<1>1. IsFiniteSet(S \ {z})
  BY FS_Subset
<1>2. SumFunctionOnSet(f, S \ {z}) = SumFunctionOnSet(g, S \ {z})
  BY <1>1, SumAgrees
<1>3. SumFunctionOnSet(f, S) = f[z] + SumFunctionOnSet(f, S \ {z})
  BY SumRemove
<1>4. SumFunctionOnSet(g, S) = g[z] + SumFunctionOnSet(g, S \ {z})
  BY SumRemove
<1>5. SumFunctionOnSet(f, S \ {z}) \in Int
  BY <1>1, SumType
<1> QED BY <1>2, <1>3, <1>4, <1>5

\* A part is at most the whole.
THEOREM SumMember ==
  ASSUME NEW S, IsFiniteSet(S), NEW f, \A x \in S : f[x] \in Nat, NEW z \in S
  PROVE  f[z] <= SumFunctionOnSet(f, S)
<1>1. IsFiniteSet(S \ {z})
  BY FS_Subset
<1>2. SumFunctionOnSet(f, S) = f[z] + SumFunctionOnSet(f, S \ {z})
  BY SumRemove
<1>3. SumFunctionOnSet(f, S \ {z}) \in Nat
  BY <1>1, SumNatural
<1> QED BY <1>2, <1>3

\* The sum over a queue to which an element is appended.
THEOREM SumLast ==
  ASSUME NEW n \in Nat, NEW f, \A i \in 1 .. n + 1 : f[i] \in Int
  PROVE  SumFunctionOnSet(f, 1 .. n + 1) = SumFunctionOnSet(f, 1 .. n) + f[n + 1]
<1>1. IsFiniteSet(1 .. n) /\ IsFiniteSet(1 .. n + 1)
  BY FS_Interval
<1>2. (1 .. n + 1) \ {n + 1} = 1 .. n
  OBVIOUS
<1>3. SumFunctionOnSet(f, 1 .. n + 1) = f[n + 1] + SumFunctionOnSet(f, 1 .. n)
  BY <1>1, <1>2, SumRemove
<1>4. SumFunctionOnSet(f, 1 .. n) \in Int
  BY <1>1, SumType
<1> QED BY <1>3, <1>4

\* The sum over a queue whose first element is taken.
THEOREM SumFirst ==
  ASSUME NEW n \in Nat, NEW f, \A i \in 1 .. n + 1 : f[i] \in Int,
         NEW g, \A i \in 1 .. n : g[i] = f[i + 1]
  PROVE  SumFunctionOnSet(f, 1 .. n + 1) = f[1] + SumFunctionOnSet(g, 1 .. n)
<1> DEFINE Good == {m \in Nat : m <= n => SumFunctionOnSet(f, 1 .. m + 1)
                                           = f[1] + SumFunctionOnSet(g, 1 .. m)}
<1>1. 0 \in Good
  <2>1. 1 .. 0 = {} /\ SumFunctionOnSet(g, {}) = 0 /\ SumFunctionOnSet(f, {}) = 0
    BY SumEmpty
  <2>2. 0 \in Nat /\ \A i \in 1 .. 0 + 1 : f[i] \in Int
    OBVIOUS
  <2>3. SumFunctionOnSet(f, 1 .. 0 + 1) = SumFunctionOnSet(f, 1 .. 0) + f[0 + 1]
    BY <2>2, SumLast
  <2>4. f[1] \in Int
    BY <2>2
  <2> QED BY <2>1, <2>3, <2>4
<1>2. ASSUME NEW m \in Good PROVE m + 1 \in Good
  <2> SUFFICES ASSUME m + 1 <= n
               PROVE  SumFunctionOnSet(f, 1 .. (m + 1) + 1)
                      = f[1] + SumFunctionOnSet(g, 1 .. m + 1)
    OBVIOUS
  <2>1. m \in Nat /\ SumFunctionOnSet(f, 1 .. m + 1) = f[1] + SumFunctionOnSet(g, 1 .. m)
    OBVIOUS
  <2>2. SumFunctionOnSet(f, 1 .. (m + 1) + 1)
        = SumFunctionOnSet(f, 1 .. m + 1) + f[(m + 1) + 1]
    BY <2>1, SumLast
  <2>3. SumFunctionOnSet(g, 1 .. m + 1) = SumFunctionOnSet(g, 1 .. m) + g[m + 1]
    BY <2>1, SumLast
  <2>4. g[m + 1] = f[(m + 1) + 1] /\ f[1] \in Int /\ g[m + 1] \in Int
    BY <2>1
  <2>5. SumFunctionOnSet(g, 1 .. m) \in Int
    <3>1. IsFiniteSet(1 .. m)
      BY <2>1, FS_Interval
    <3>2. \A i \in 1 .. m : g[i] \in Int
      BY <2>1
    <3> QED BY <3>1, <3>2, SumType
  <2> QED BY <2>1, <2>2, <2>3, <2>4, <2>5
<1>3. Good \subseteq Nat
  OBVIOUS
<1>4. Good = Nat
  <2> HIDE DEF Good
  <2> QED BY <1>1, <1>2, <1>3, NatSetInduction
<1>5. n \in Good
  BY <1>4
<1> QED BY <1>5

-----------------------------------------------------------------------------
(* Queues and maxima.                                                      *)

\* Removing position i of a queue (VecDeque::remove, pop_front) keeps all
\* other elements in order.
LEMMA RemoveAtFacts ==
    ASSUME NEW S, NEW s \in Seq(S), NEW i \in 1 .. Len(s)
    PROVE  /\ RemoveAt(s, i) \in Seq(S)
           /\ Len(RemoveAt(s, i)) = Len(s) - 1
           /\ \A j \in 1 .. Len(s) - 1 :
                RemoveAt(s, i)[j] = IF j < i THEN s[j] ELSE s[j + 1]
<1> DEFINE u == SubSeq(s, 1, i - 1)
           v == SubSeq(s, i + 1, Len(s))
<1>1. Len(s) \in Nat
  BY LenProperties
<1>2. /\ u \in Seq(S) /\ Len(u) = i - 1
      /\ \A j \in 1 .. i - 1 : u[j] = s[j]
  BY <1>1, SubSeqProperties
<1>3. /\ v \in Seq(S) /\ Len(v) = Len(s) - i
      /\ \A j \in 1 .. Len(s) - i : v[j] = s[j + i]
  BY <1>1, SubSeqProperties
<1>4. /\ u \o v \in Seq(S)
      /\ Len(u \o v) = Len(u) + Len(v)
      /\ \A j \in 1 .. Len(u) + Len(v) :
            (u \o v)[j] = IF j <= Len(u) THEN u[j] ELSE v[j - Len(u)]
  BY <1>2, <1>3, ConcatProperties
<1> HIDE DEF u, v
<1>5. ASSUME NEW j \in 1 .. Len(s) - 1
      PROVE  (u \o v)[j] = IF j < i THEN s[j] ELSE s[j + 1]
  <2>1. CASE j < i
    BY <2>1, <1>1, <1>2, <1>3, <1>4
  <2>2. CASE ~(j < i)
    <3>1. j - (i - 1) \in 1 .. Len(s) - i
      BY <2>2, <1>1
    <3>2. v[j - (i - 1)] = s[j - (i - 1) + i]
      BY <3>1, <1>3
    <3>3. (u \o v)[j] = v[j - (i - 1)]
      BY <2>2, <1>1, <1>2, <1>3, <1>4
    <3> QED
      BY <3>2, <3>3, <2>2, <1>1
  <2> QED
    BY <2>1, <2>2
<1>6. RemoveAt(s, i) = u \o v
  BY DEF RemoveAt, u, v
<1>7. Len(u \o v) = Len(s) - 1
  BY <1>1, <1>2, <1>3, <1>4
<1> QED
  BY <1>4, <1>5, <1>6, <1>7, Zenon

\* A set of numbers up to a bound, one of them at least, has a greatest: Max of
\* FiniteSetsExt is that one.
LEMMA MaxFacts ==
    ASSUME NEW n \in Nat, NEW S \in SUBSET (0 .. n), S # {}
    PROVE  Max(S) \in S /\ \A k \in S : k <= Max(S)
<1> DEFINE T == {m \in Nat : \A R \in SUBSET (0 .. m) : R # {} => \E x \in R : \A y \in R : x >= y}
<1>1. 0 \in T
  <2>1. \A R \in SUBSET (0 .. 0) : R # {} => \E x \in R : \A y \in R : x >= y
    <3> SUFFICES ASSUME NEW R \in SUBSET (0 .. 0), R # {} PROVE \E x \in R : \A y \in R : x >= y
      OBVIOUS
    <3>1. \A y \in R : y = 0
      OBVIOUS
    <3>2. PICK x \in R : TRUE
      OBVIOUS
    <3>3. x = 0 /\ \A y \in R : x >= y
      BY <3>1
    <3> QED  BY <3>3
  <2> QED  BY <2>1
<1>2. ASSUME NEW m \in T
      PROVE  m + 1 \in T
  <2> SUFFICES ASSUME NEW R \in SUBSET (0 .. m + 1), R # {}
               PROVE  \E x \in R : \A y \in R : x >= y
    OBVIOUS
  <2>1. CASE m + 1 \in R
    BY <2>1
  <2>2. CASE m + 1 \notin R
    <3>1. R \in SUBSET (0 .. m)
      BY <2>2
    <3> QED  BY <3>1
  <2> QED  BY <2>1, <2>2
<1> HIDE DEF T
<1>3. T \subseteq Nat
  BY DEF T
<1>4. T = Nat
  BY <1>1, <1>2, <1>3, NatSetInduction
<1>5. \E x \in S : \A y \in S : x >= y
  BY <1>4 DEF T
<1>6. /\ (CHOOSE x \in S : \A y \in S : x >= y) \in S
      /\ \A y \in S : (CHOOSE x \in S : \A y2 \in S : x >= y2) >= y
  BY <1>5
<1> QED  BY <1>6 DEF Max

\* The least of some numbers is one of them (Iterator::min).
LEMMA MinFacts ==
    ASSUME NEW n \in Nat, NEW S \in SUBSET (0 .. n), S # {}
    PROVE  Min(S) \in S /\ \A k \in S : Min(S) <= k
<1> DEFINE T == {n - k : k \in S}
<1>1. T \in SUBSET (0 .. n) /\ T # {}
  <2>1. \A k \in S : k \in 0 .. n /\ n - k \in 0 .. n
    OBVIOUS
  <2>2. PICK k \in S : n - k \in T
    OBVIOUS
  <2> QED  BY <2>1, <2>2
<1>2. Max(T) \in T /\ \A k \in T : k <= Max(T)
  BY <1>1, MaxFacts
<1>3. PICK least \in S : Max(T) = n - least
  BY <1>2
<1>4. \A k \in S : least <= k
  <2> SUFFICES ASSUME NEW k \in S PROVE least <= k
    OBVIOUS
  <2>1. n - k <= n - least
    BY <1>2, <1>3
  <2> QED  BY <2>1
<1>5. \E x \in S : \A y \in S : x <= y
  BY <1>4
<1> QED  BY <1>5 DEF Min

\* The greatest of finitely many numbers bounds them all (Iterator::max).
LEMMA FiniteMaxFacts ==
    ASSUME NEW S \in SUBSET Nat, IsFiniteSet(S), S # {}
    PROVE  Max(S) \in S /\ \A k \in S : k <= Max(S)
<1> DEFINE U == {T \in SUBSET S : \E n \in Nat : \A k \in T : k <= n}
<1>1. {} \in U
  OBVIOUS
<1>2. ASSUME NEW T \in SUBSET S, NEW x \in S, T \in U, x \notin T
      PROVE  T \cup {x} \in U
  <2>1. PICK n \in Nat : \A k \in T : k <= n
    BY <1>2
  <2>2. \A k \in T \cup {x} : k <= n + x
    BY <2>1
  <2>3. n + x \in Nat
    BY <2>1
  <2> QED  BY <2>2, <2>3
<1>3. S \in U
  <2> HIDE DEF U
  <2> QED  BY <1>1, <1>2, SubsetInduction
<1>4. PICK n \in Nat : \A k \in S : k <= n
  BY <1>3
<1>5. S \in SUBSET (0 .. n)
  BY <1>4
<1> QED  BY <1>5, MaxFacts

\* Part of some numbers adds up to at most all of them.
THEOREM SumSubset ==
  ASSUME NEW S, IsFiniteSet(S), NEW T \in SUBSET S, NEW f, \A x \in S : f[x] \in Nat
  PROVE  SumFunctionOnSet(f, T) <= SumFunctionOnSet(f, S)
<1>1. IsFiniteSet(T) /\ IsFiniteSet(S \ T) /\ T \cup (S \ T) = S
  BY FS_Subset
<1>2. SumFunctionOnSet(f, S) = SumFunctionOnSet(f, T) + SumFunctionOnSet(f, S \ T)
  BY <1>1, SumSplits
<1>3. SumFunctionOnSet(f, T) \in Nat /\ SumFunctionOnSet(f, S \ T) \in Nat
  BY <1>1, SumNatural
<1> QED BY <1>2, <1>3

\* h names the elements of R by those of S.
Names(h, S, R) ==
    /\ \A x \in S : h[x] \in R
    /\ \A y \in R : \E x \in S : y = h[x]
    /\ \A x, y \in S : h[x] = h[y] => x = y

\* A sum is the same under other names for its terms.
THEOREM SumRenamed ==
  ASSUME NEW S, IsFiniteSet(S), NEW R, NEW h, Names(h, S, R),
         NEW f, NEW g, \A x \in S : f[x] \in Int /\ g[h[x]] = f[x]
  PROVE  IsFiniteSet(R) /\ SumFunctionOnSet(g, R) = SumFunctionOnSet(f, S)
<1> DEFINE Img(T) == {h[x] : x \in T}
           U == {T \in SUBSET S : /\ IsFiniteSet(Img(T))
                                  /\ SumFunctionOnSet(g, Img(T)) = SumFunctionOnSet(f, T)}
<1>1. {} \in U
  <2>1. Img({}) = {}
    OBVIOUS
  <2> QED BY <2>1, SumEmpty, FS_EmptySet
<1>2. ASSUME NEW T \in SUBSET S, NEW x \in S, T \in U, x \notin T
      PROVE  T \cup {x} \in U
  <2>1. IsFiniteSet(T \cup {x}) /\ (T \cup {x}) \ {x} = T
    BY <1>2, FS_Subset
  <2>2. Img(T \cup {x}) = Img(T) \cup {h[x]}
    OBVIOUS
  <2>3. h[x] \notin Img(T)
    BY <1>2 DEF Names
  <2>4. IsFiniteSet(Img(T))
    BY <1>2
  <2>5. Img(T \cup {x}) \ {h[x]} = Img(T)
    BY <2>2, <2>3
  <2>6. \A y \in Img(T \cup {x}) : g[y] \in Int
    OBVIOUS
  <2>7. SumFunctionOnSet(f, T \cup {x}) = f[x] + SumFunctionOnSet(f, T)
    <3>1. \A y \in T \cup {x} : f[y] \in Int
      OBVIOUS
    <3> DEFINE V == T \cup {x}
    <3>2. x \in V /\ IsFiniteSet(V) /\ V \ {x} = T /\ \A y \in V : f[y] \in Int
      BY <2>1, <3>1
    <3> HIDE DEF V
    <3>3. SumFunctionOnSet(f, V) = f[x] + SumFunctionOnSet(f, V \ {x})
      BY <3>2, SumRemove
    <3> QED BY <3>2, <3>3 DEF V
  <2>8. /\ IsFiniteSet(Img(T \cup {x}))
        /\ SumFunctionOnSet(g, Img(T \cup {x})) = g[h[x]] + SumFunctionOnSet(g, Img(T))
    <3>1. h[x] \in Img(T \cup {x})
      OBVIOUS
    <3> HIDE DEF Img
    <3> DEFINE W == Img(T \cup {x})
    <3>2. W = Img(T) \cup {h[x]}
      BY <2>2
    <3>3. IsFiniteSet(W)
      <4> DEFINE P == Img(T)
      <4> HIDE DEF P
      <4>1. IsFiniteSet(P \cup {h[x]})
        BY <2>4, FS_AddElement DEF P
      <4> QED BY <3>2, <4>1 DEF P
    <3>4. \A y \in W : g[y] \in Int
      BY <2>6
    <3>5. h[x] \in W /\ W \ {h[x]} = Img(T)
      BY <2>5, <3>1
    <3> HIDE DEF W
    <3>6. SumFunctionOnSet(g, W) = g[h[x]] + SumFunctionOnSet(g, W \ {h[x]})
      BY <3>3, <3>4, <3>5, SumRemove
    <3> QED BY <3>3, <3>5, <3>6 DEF W
  <2> QED BY <1>2, <2>7, <2>8
<1>3. S \in U
  <2> HIDE DEF U
  <2> QED BY <1>1, <1>2, SubsetInduction
<1>4. R = Img(S)
  BY DEF Names
<1> QED BY <1>3, <1>4

\* What moves up by one place in a sequence adds up to the same.
THEOREM SumShifted ==
  ASSUME NEW S \in SUBSET Int, IsFiniteSet(S), NEW f, NEW g,
         \A x \in S : f[x] \in Int /\ g[x + 1] = f[x]
  PROVE  /\ IsFiniteSet({x + 1 : x \in S})
         /\ SumFunctionOnSet(g, {x + 1 : x \in S}) = SumFunctionOnSet(f, S)
<1> DEFINE Up(T) == {x + 1 : x \in T}
           U == {T \in SUBSET S : /\ IsFiniteSet(Up(T))
                                  /\ SumFunctionOnSet(g, Up(T)) = SumFunctionOnSet(f, T)}
<1>1. {} \in U
  <2>1. Up({}) = {}
    OBVIOUS
  <2> QED BY <2>1, SumEmpty, FS_EmptySet
<1>2. ASSUME NEW T \in SUBSET S, NEW x \in S, T \in U, x \notin T
      PROVE  T \cup {x} \in U
  <2>1. IsFiniteSet(T \cup {x}) /\ (T \cup {x}) \ {x} = T
    BY <1>2, FS_Subset
  <2>2. Up(T \cup {x}) = Up(T) \cup {x + 1}
    OBVIOUS
  <2>3. x + 1 \notin Up(T)
    BY <1>2
  <2>4. IsFiniteSet(Up(T))
    BY <1>2
  <2>5. Up(T \cup {x}) \ {x + 1} = Up(T)
    BY <2>2, <2>3
  <2>6. \A y \in Up(T \cup {x}) : g[y] \in Int
    OBVIOUS
  <2>7. SumFunctionOnSet(f, T \cup {x}) = f[x] + SumFunctionOnSet(f, T)
    <3>1. \A y \in T \cup {x} : f[y] \in Int
      OBVIOUS
    <3> DEFINE V == T \cup {x}
    <3>2. x \in V /\ IsFiniteSet(V) /\ V \ {x} = T /\ \A y \in V : f[y] \in Int
      BY <2>1, <3>1
    <3> HIDE DEF V
    <3>3. SumFunctionOnSet(f, V) = f[x] + SumFunctionOnSet(f, V \ {x})
      BY <3>2, SumRemove
    <3> QED BY <3>2, <3>3 DEF V
  <2>8. /\ IsFiniteSet(Up(T \cup {x}))
        /\ SumFunctionOnSet(g, Up(T \cup {x})) = g[x + 1] + SumFunctionOnSet(g, Up(T))
    <3>1. x + 1 \in Up(T \cup {x})
      OBVIOUS
    <3> HIDE DEF Up
    <3> DEFINE W == Up(T \cup {x})
    <3>2. W = Up(T) \cup {x + 1}
      BY <2>2
    <3>3. IsFiniteSet(W)
      <4> DEFINE P == Up(T)
      <4> HIDE DEF P
      <4>1. IsFiniteSet(P \cup {x + 1})
        BY <2>4, FS_AddElement DEF P
      <4> QED BY <3>2, <4>1 DEF P
    <3>4. \A y \in W : g[y] \in Int
      BY <2>6
    <3>5. x + 1 \in W /\ W \ {x + 1} = Up(T)
      BY <2>5, <3>1
    <3> HIDE DEF W
    <3>6. SumFunctionOnSet(g, W) = g[x + 1] + SumFunctionOnSet(g, W \ {x + 1})
      BY <3>3, <3>4, <3>5, SumRemove
    <3> QED BY <3>3, <3>5, <3>6 DEF W
  <2> QED BY <1>2, <2>7, <2>8
<1>3. S \in U
  <2> HIDE DEF U
  <2> QED BY <1>1, <1>2, SubsetInduction
<1> QED BY <1>3

\* Two sequences of numbers, one behind the other.
THEOREM SumBehind ==
  ASSUME NEW m \in Nat, NEW n \in Nat, NEW f, NEW g, NEW h,
         \A i \in 1 .. m : f[i] \in Int /\ h[i] = f[i],
         \A i \in 1 .. n : g[i] \in Int /\ h[m + i] = g[i]
  PROVE  SumFunctionOnSet(h, 1 .. m + n)
         = SumFunctionOnSet(f, 1 .. m) + SumFunctionOnSet(g, 1 .. n)
<1> DEFINE D == 1 .. n
           up == [i \in D |-> i + m]
           B == {up[i] : i \in D}
<1>1. IsFiniteSet(1 .. m) /\ IsFiniteSet(D)
  BY FS_Interval
<1>2. \A i \in D : g[i] \in Int /\ h[up[i]] = g[i]
  OBVIOUS
<1>3. IsFiniteSet(B) /\ SumFunctionOnSet(h, B) = SumFunctionOnSet(g, D)
  <2>1. \A i, j \in D : up[i] = up[j] => i = j
    OBVIOUS
  <2>2. (\A i \in D : up[i] \in B) /\ \A j \in B : \E i \in D : j = up[i]
    OBVIOUS
  <2>3. Names(up, D, B)
    BY <2>1, <2>2 DEF Names
  <2> HIDE DEF D, up, B
  <2> QED BY <1>1, <1>2, <2>3, SumRenamed
<1>4. B = (m + 1) .. m + n
  <2>1. ASSUME NEW j \in (m + 1) .. m + n PROVE j \in B
    <3>1. j - m \in 1 .. n /\ j = (j - m) + m
      OBVIOUS
    <3> QED BY <3>1
  <2> QED BY <2>1
<1>5. (1 .. m) \cup B = 1 .. m + n /\ (1 .. m) \cap B = {}
  BY <1>4
<1>6. \A i \in (1 .. m) \cup B : h[i] \in Int
  BY <1>2
<1>7. SumFunctionOnSet(h, 1 .. m) = SumFunctionOnSet(f, 1 .. m)
  <2>1. \A i \in 1 .. m : f[i] = h[i] /\ f[i] \in Int
    OBVIOUS
  <2> QED BY <1>1, <2>1, SumAgrees
<1> HIDE DEF B
<1>8. SumFunctionOnSet(h, (1 .. m) \cup B) = SumFunctionOnSet(h, 1 .. m) + SumFunctionOnSet(h, B)
  BY <1>1, <1>3, <1>5, <1>6, SumSplits
<1> QED BY <1>3, <1>5, <1>7, <1>8

\* The larger the terms, the larger the sum.
THEOREM SumMonotone ==
  ASSUME NEW S, IsFiniteSet(S), NEW f, NEW g,
         \A x \in S : f[x] \in Int /\ g[x] \in Int /\ f[x] <= g[x]
  PROVE  SumFunctionOnSet(f, S) <= SumFunctionOnSet(g, S)
<1> DEFINE d == [x \in S |-> g[x] - f[x]]
<1>1. \A x \in S : d[x] \in Nat /\ d[x] \in Int /\ g[x] = f[x] + d[x]
  OBVIOUS
<1> HIDE DEF d
<1>2. SumFunctionOnSet(g, S) = SumFunctionOnSet(f, S) + SumFunctionOnSet(d, S)
  BY <1>1, SumAdds
<1>3. SumFunctionOnSet(d, S) \in Nat
  BY <1>1, SumNatural
<1>4. SumFunctionOnSet(f, S) \in Int
  BY SumType
<1> QED BY <1>2, <1>3, <1>4

================================================================================
