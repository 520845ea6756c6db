---------------------------- MODULE FiniteOrders ----------------------------
(***************************************************************************)
(* Facts about finite sets of numbers that the proofs of several modules   *)
(* rest on: that a least or a greatest element exists, that it is what Min *)
(* and Max choose, that a finite set can be put in order, how pages are    *)
(* counted, induction up to a bound, and that a recursion can be followed. *)
(*                                                                         *)
(* The provers cannot be given a predicate to do induction on.  A set of   *)
(* numbers for which it fails is given instead: the least of them refutes  *)
(* the step.                                                               *)
(***************************************************************************)
EXTENDS Integers, FiniteSets, FiniteSetsExt, FiniteSetTheorems, WellFoundedInduction, TLAPS

(* A set of natural numbers has a least one: what every induction here, over *)
(* the sizes of sets, comes down to.                                        *)
LEMMA LeastNatural ==
  ASSUME NEW T \in SUBSET Nat, T # {}
  PROVE  \E n \in T : \A m \in T : n <= m
  <1> DEFINE R == OpToRel(<, Nat)
  <1>1. IsWellFoundedOn(R, Nat)
    BY NatLessThanWellFounded, Zenon
  <1>2. \A x, y \in Nat : y < x => <<y, x>> \in R
    BY DEF OpToRel
  <1> HIDE DEF R
  <1>3. \E n \in T : \A m \in T : ~(<<m, n>> \in R)
    BY <1>1, WFMin
  <1>4. PICK n \in T : \A m \in T : ~(<<m, n>> \in R)
    BY <1>3
  <1>5. ASSUME NEW m \in T PROVE n <= m
    <2>1. ~(m < n)
      BY <1>2, <1>4
    <2> QED BY <2>1
  <1> QED BY <1>5

(* The values a function takes on a finite set are finitely many. *)
LEMMA FiniteImage ==
  ASSUME NEW S, IsFiniteSet(S), NEW f
  PROVE  IsFiniteSet({f[x] : x \in S})
  <1> DEFINE T == {f[x] : x \in S}
             g == [x \in S |-> f[x]]
  <1>1. g \in Surjection(S, T)
    BY DEF Surjection
  <1> HIDE DEF g, T
  <1>2. IsFiniteSet(T)
    BY <1>1, FS_Surjection
  <1> QED BY <1>2 DEF T

(* A finite set of integers that is not empty has a greatest element. *)
LEMMA GreatestExists ==
  ASSUME NEW S, IsFiniteSet(S), S # {}, S \subseteq Int
  PROVE  \E x \in S : \A y \in S : y <= x
  <1> DEFINE HasGreatest(U) == \E x \in U : \A y \in U : y <= x
             Bad == {U \in SUBSET S : U # {} /\ ~HasGreatest(U)}
             Sizes == {Cardinality(U) : U \in Bad}
  <1> SUFFICES ASSUME Bad # {} PROVE FALSE
    OBVIOUS
  <1>1. \A U \in SUBSET S : IsFiniteSet(U) /\ Cardinality(U) \in Nat
    BY FS_Subset, FS_CardinalityType
  <1>2. Sizes \subseteq Nat /\ Sizes # {}
    BY <1>1
  <1>3. PICK n \in Sizes : \A m \in Sizes : n <= m
    <2> HIDE DEF Sizes
    <2> QED BY <1>2, LeastNatural
  <1>4. PICK U \in Bad : Cardinality(U) = n
    OBVIOUS
  <1>5. PICK x \in U : TRUE
    OBVIOUS
  <1>6. Cardinality(U \ {x}) = Cardinality(U) - 1
    BY <1>1, <1>4, <1>5, FS_RemoveElement
  <1>7. U \ {x} \notin Bad
    <2>1. SUFFICES ASSUME U \ {x} \in Bad PROVE FALSE
      OBVIOUS
    <2>2. Cardinality(U \ {x}) \in Sizes
      BY <2>1
    <2>3. n \in Nat /\ n <= Cardinality(U \ {x})
      BY <2>2, <1>2, <1>3
    <2> QED BY <2>3, <1>6, <1>4
  <1>8. U \ {x} = {} \/ HasGreatest(U \ {x})
    BY <1>7
  <1>9. CASE U \ {x} = {}
    <2>1. U = {x} /\ x \in Int
      BY <1>9, <1>5
    <2> QED BY <2>1, <1>4
  <1>10. CASE HasGreatest(U \ {x})
    <2>1. PICK z \in U \ {x} : \A y \in U \ {x} : y <= z
      BY <1>10
    <2>2. z \in Int /\ x \in Int /\ U \subseteq Int
      BY <2>1, <1>5
    <2>3. CASE z <= x
      <3>1. \A y \in U : y <= x
        BY <2>1, <2>2, <2>3
      <3> QED BY <3>1, <1>5
    <2>4. CASE x <= z
      <3>1. \A y \in U : y <= z
        BY <2>1, <2>2, <2>4
      <3> QED BY <3>1, <2>1
    <2> QED BY <2>2, <2>3, <2>4
  <1> QED BY <1>8, <1>9, <1>10

(* It is what Max chooses. *)
LEMMA MaxIsGreatest ==
  ASSUME NEW S, IsFiniteSet(S), S # {}, S \subseteq Int
  PROVE  Max(S) \in S /\ \A y \in S : y <= Max(S)
  <1>1. \E x \in S : \A y \in S : x >= y
    BY GreatestExists
  <1> QED BY <1>1 DEF Max

(* Min chooses the least. *)
LEMMA MinIsLeast ==
  ASSUME NEW S, IsFiniteSet(S), S # {}, S \subseteq Int
  PROVE  Min(S) \in S /\ \A y \in S : Min(S) <= y
  <1> DEFINE f == [x \in S |-> -x]
             T == {f[x] : x \in S}
  <1>1. IsFiniteSet(T)
    <2> HIDE DEF f
    <2> QED BY FiniteImage
  <1>2. T \subseteq Int /\ T # {}
    <2>1. \A x \in S : f[x] \in Int
      OBVIOUS
    <2> HIDE DEF f
    <2> QED BY <2>1
  <1>3. PICK z \in T : \A y \in T : y <= z
    <2> HIDE DEF T
    <2> QED BY <1>1, <1>2, GreatestExists
  <1>4. PICK x \in S : z = -x
    OBVIOUS
  <1>5. ASSUME NEW y \in S PROVE x <= y
    <2>1. -y \in T
      OBVIOUS
    <2>2. -y <= z /\ x \in Int /\ y \in Int
      BY <2>1, <1>3
    <2> QED BY <2>2, <1>4
  <1>6. \E m \in S : \A y \in S : m <= y
    BY <1>5
  <1> QED BY <1>6 DEF Min

(* A finite set of integers can be written down in increasing order. *)
Ascending(s) == \A i, j \in DOMAIN s : i < j => s[i] < s[j]

Lists(s, S) ==
    /\ s \in [1 .. Cardinality(S) -> S]
    /\ Ascending(s)
    /\ \A x \in S : \E i \in DOMAIN s : s[i] = x

LEMMA ListExists ==
  ASSUME NEW S, IsFiniteSet(S), S \subseteq Int
  PROVE  \E s : Lists(s, S)
  <1> DEFINE Bad == {U \in SUBSET S : ~ \E s : Lists(s, U)}
             Sizes == {Cardinality(U) : U \in Bad}
  <1> SUFFICES ASSUME Bad # {} PROVE FALSE
    OBVIOUS
  <1>1. \A U \in SUBSET S : IsFiniteSet(U) /\ Cardinality(U) \in Nat
    BY FS_Subset, FS_CardinalityType
  <1>2. Sizes \subseteq Nat /\ Sizes # {}
    BY <1>1
  <1>3. PICK n \in Sizes : \A m \in Sizes : n <= m
    <2> HIDE DEF Sizes
    <2> QED BY <1>2, LeastNatural
  <1>4. PICK U \in Bad : Cardinality(U) = n
    OBVIOUS
  <1>5. U # {}
    <2>1. SUFFICES ASSUME U = {} PROVE FALSE
      OBVIOUS
    <2>2. Cardinality(U) = 0
      BY <2>1, FS_EmptySet
    <2>3. Lists([i \in 1 .. 0 |-> i], U)
      BY <2>1, <2>2 DEF Lists, Ascending
    <2> QED BY <2>3
  <1> DEFINE x == Max(U)
             V == U \ {x}
             k == Cardinality(U)
  <1>6. x \in U /\ x \in Int /\ \A y \in U : y <= x
    BY <1>1, <1>5, MaxIsGreatest
  <1>7. k \in Nat /\ k >= 1 /\ Cardinality(V) = k - 1
    <2>1. IsFiniteSet(U) /\ k \in Nat
      BY <1>1
    <2>2. Cardinality(V) = k - 1 /\ Cardinality(V) \in Nat
      BY <2>1, <1>1, <1>6, FS_RemoveElement
    <2> QED BY <2>1, <2>2
  <1>8. V \notin Bad
    <2>1. SUFFICES ASSUME V \in Bad PROVE FALSE
      OBVIOUS
    <2>2. Cardinality(V) \in Sizes
      BY <2>1
    <2> HIDE DEF Sizes
    <2> QED BY <2>2, <1>3, <1>4, <1>7, <1>2
  <1>9. PICK s : Lists(s, V)
    BY <1>8
  <1> DEFINE t == [i \in 1 .. k |-> IF i = k THEN x ELSE s[i]]
  <1> HIDE DEF x, V, k, Bad, Sizes
  <1>10. V \subseteq U /\ x \notin V /\ U = V \union {x} /\ U \subseteq Int
    BY <1>6 DEF V
  <1>11. s \in [1 .. (k - 1) -> V] /\ DOMAIN s = 1 .. (k - 1)
    BY <1>7, <1>9 DEF Lists
  <1>12. t \in [1 .. k -> U]
    BY <1>6, <1>7, <1>10, <1>11
  <1>13. Ascending(t)
    <2> SUFFICES ASSUME NEW i \in 1 .. k, NEW j \in 1 .. k, i < j PROVE t[i] < t[j]
      BY <1>7 DEF Ascending
    <2>1. i \in 1 .. (k - 1) /\ t[i] = s[i] /\ s[i] \in V
      BY <1>7, <1>11
    <2>2. CASE j = k
      <3>1. t[j] = x /\ s[i] <= x /\ s[i] # x /\ s[i] \in Int
        BY <2>1, <2>2, <1>6, <1>10
      <3> QED BY <3>1, <2>1, <1>6
    <2>3. CASE j # k
      <3>1. j \in 1 .. (k - 1) /\ t[j] = s[j]
        BY <2>3, <1>7
      <3> QED BY <3>1, <2>1, <1>9, <1>11 DEF Lists, Ascending
    <2> QED BY <2>2, <2>3
  <1>14. ASSUME NEW y \in U PROVE \E i \in 1 .. k : t[i] = y
    <2>1. CASE y = x
      BY <2>1, <1>7
    <2>2. CASE y # x
      <3>1. PICK i \in 1 .. (k - 1) : s[i] = y
        BY <2>2, <1>9, <1>10, <1>11 DEF Lists
      <3>2. i \in 1 .. k /\ t[i] = y
        BY <3>1, <1>7
      <3> QED BY <3>2
    <2> QED BY <2>1, <2>2
  <1>15. Lists(t, U)
    BY <1>12, <1>13, <1>14 DEF Lists, k
  <1> QED BY <1>15, <1>4 DEF Bad

(* Of two counts, the greater is not on an earlier page. *)
LEMMA PageGrows ==
  ASSUME NEW P \in Nat \ {0}, NEW a \in Nat, NEW b \in Nat, a <= b
  PROVE  a \div P \in Nat /\ a \div P <= b \div P
  OBVIOUS

(* What is listed fills no more pages than are counted. *)
LEMMA PageWithin ==
  ASSUME NEW P \in Nat \ {0}, NEW a \in Nat, NEW n \in Nat, a < n
  PROVE  a \div P < (n + P - 1) \div P
  OBVIOUS

(* Induction up to a bound, for a set of numbers. *)
LEMMA UpTo ==
  ASSUME NEW n \in Nat, NEW T, 0 \in T, \A i \in 0 .. n : i \in T /\ i < n => i + 1 \in T
  PROVE  0 .. n \subseteq T
  <1> DEFINE Bad == (0 .. n) \ T
  <1> SUFFICES ASSUME Bad # {} PROVE FALSE
    OBVIOUS
  <1>1. PICK k \in Bad : \A m \in Bad : k <= m
    <2>1. Bad \in SUBSET Nat
      OBVIOUS
    <2> HIDE DEF Bad
    <2> QED BY <2>1, LeastNatural
  <1>2. k \in Nat /\ k # 0 /\ k <= n /\ k \notin T
    OBVIOUS
  <1>3. k - 1 \in 0 .. n /\ k - 1 < n /\ (k - 1) + 1 = k
    BY <1>2
  <1>4. k - 1 \in T
    <2>1. k - 1 \notin Bad
      <3>1. ~(k <= k - 1)
        BY <1>2
      <3> HIDE DEF Bad
      <3> QED BY <3>1, <1>1
    <2> QED BY <2>1, <1>3
  <1> QED BY <1>2, <1>3, <1>4

(* A recursion along 0 .. n, whose steps are given as functions, can be      *)
(* followed to its end.                                                     *)
Follows(f, n, base, step) == f[0] = base /\ \A i \in 1 .. n : f[i] = step[i][f[i - 1]]

LEMMA RecursionExists ==
  ASSUME NEW n \in Nat, NEW X, NEW base \in X, NEW step \in [1 .. n -> [X -> X]]
  PROVE  \E f \in [0 .. n -> X] : Follows(f, n, base, step)
  <1> DEFINE T == {k \in Nat : k <= n => \E f \in [0 .. k -> X] : Follows(f, k, base, step)}
  <1>1. 0 \in T
    <2> DEFINE f == [i \in 0 .. 0 |-> base]
    <2>1. f \in [0 .. 0 -> X] /\ Follows(f, 0, base, step)
      BY DEF Follows
    <2> QED BY <2>1
  <1>2. ASSUME NEW k \in 0 .. n, k \in T, k < n PROVE k + 1 \in T
    <2>1. PICK f \in [0 .. k -> X] : Follows(f, k, base, step)
      BY <1>2
    <2> DEFINE g == [i \in 0 .. (k + 1) |-> IF i = k + 1 THEN step[k + 1][f[k]] ELSE f[i]]
    <2>2. step[k + 1] \in [X -> X] /\ f[k] \in X
      BY <1>2
    <2>3. g \in [0 .. (k + 1) -> X]
      BY <2>2, <1>2
    <2>4. g[0] = base
      BY <2>1, <1>2 DEF Follows
    <2>5. ASSUME NEW i \in 1 .. (k + 1) PROVE g[i] = step[i][g[i - 1]]
      <3>1. CASE i = k + 1
        <4>1. g[i] = step[k + 1][f[k]] /\ g[i - 1] = f[k]
          BY <3>1, <1>2
        <4> QED BY <4>1, <3>1
      <3>2. CASE i # k + 1
        <4>1. i \in 1 .. k /\ g[i] = f[i] /\ g[i - 1] = f[i - 1]
          BY <3>2, <1>2
        <4> QED BY <4>1, <2>1 DEF Follows
      <3> QED BY <3>1, <3>2
    <2>6. Follows(g, k + 1, base, step)
      BY <2>4, <2>5 DEF Follows
    <2> HIDE DEF g
    <2> QED BY <2>3, <2>6
  <1> HIDE DEF T
  <1>3. 0 .. n \subseteq T
    BY <1>1, <1>2, UpTo
  <1>4. n \in T
    BY <1>3
  <1> QED BY <1>4 DEF T
=============================================================================
