---------------------------- MODULE Bignum_proofs -----------------------------
(***************************************************************************)
(* The multiple precision library computes what it should, and keeps its   *)
(* numbers normalized, for atoms of every width and numbers of every size. *)
(***************************************************************************)
EXTENDS BigMath, SequenceTheorems, FiniteSetTheorems, WellFoundedInduction, TLAPS

-----------------------------------------------------------------------------
(* Loops, and the extremes of sets.                                        *)

\* Induction on the naturals, for a set of numbers.
LEMMA NatInduct ==
  ASSUME NEW S \in SUBSET Nat, 0 \in S, \A p \in S : p + 1 \in S
  PROVE  S = Nat
<1>1. SUFFICES ASSUME Nat \ S # {} PROVE FALSE
  OBVIOUS
<1>2. PICK v \in Nat \ S : \A y \in Nat \ S : ~ (<<y, v>> \in OpToRel(<, Nat))
  BY <1>1, NatLessThanWellFounded, WFMin
<1>3. \A y \in Nat : y < v => y \in S
  BY <1>2 DEF OpToRel
<1>4. v \in Nat /\ v # 0
  OBVIOUS
<1>5. v - 1 \in Nat /\ v - 1 < v
  BY <1>4
<1>6. v - 1 \in S
  BY <1>3, <1>5
<1>7. (v - 1) + 1 \in S
  BY <1>6
<1>8. (v - 1) + 1 = v
  BY <1>4
<1> QED
  BY <1>7, <1>8

\* The same up to a bound: what a loop establishes.
LEMMA UpTo ==
  ASSUME NEW p \in Nat, NEW S, 0 \in S, \A i \in 0 .. p - 1 : i \in S => i + 1 \in S
  PROVE  \A i \in 0 .. p : i \in S
<1> DEFINE R == {i \in Nat : i <= p => i \in S}
<1>1. 0 \in R
  OBVIOUS
<1>2. ASSUME NEW i \in R PROVE i + 1 \in R
  OBVIOUS
<1>3. R = Nat
  <2> HIDE DEF R
  <2>1. R \in SUBSET Nat
    BY DEF R
  <2> QED
    BY <1>1, <1>2, <2>1, NatInduct
<1> QED
  BY <1>3

\* f is the history of a loop that starts at base and applies step[i].
Iterates(f, base, p, step) ==
  f[0] = base /\ \A i \in 1 .. p : f[i] = step[i][f[i - 1]]

\* Such a loop has a history, from its initial value on.
LEMMA Recursion ==
  ASSUME NEW V, NEW base \in V, NEW p \in Nat, NEW step \in [1 .. p -> [V -> V]]
  PROVE  \E f \in [0 .. p -> V] : Iterates(f, base, p, step)
<1> DEFINE R(f, m) == Iterates(f, base, m, step)
           S == {m \in Nat : \E f \in [0 .. m -> V] : R(f, m)}
<1>1. 0 \in S
  <2> DEFINE f == [i \in 0 .. 0 |-> base]
  <2>1. f \in [0 .. 0 -> V] /\ R(f, 0)
    BY DEF Iterates
  <2> QED
    BY <2>1
<1>2. ASSUME NEW m \in 0 .. p - 1, m \in S PROVE m + 1 \in S
  <2>1. PICK f \in [0 .. m -> V] : R(f, m)
    BY <1>2
  <2>2. m + 1 \in 1 .. p /\ f[m] \in V
    OBVIOUS
  <2>3. step[m + 1] \in [V -> V]
    BY <2>2
  <2>4. step[m + 1][f[m]] \in V
    BY <2>2, <2>3
  <2> DEFINE g == [i \in 0 .. m + 1 |-> IF i <= m THEN f[i] ELSE step[m + 1][f[m]]]
  <2>5. g \in [0 .. m + 1 -> V]
    BY <2>4
  <2>6. g[0] = f[0] /\ \A i \in 0 .. m : g[i] = f[i]
    OBVIOUS
  <2>7. g[m + 1] = step[m + 1][g[m]]
    OBVIOUS
  <2>8. ASSUME NEW i \in 1 .. m + 1 PROVE g[i] = step[i][g[i - 1]]
    <3>1. CASE i = m + 1
      <4>1. i - 1 = m
        BY <3>1
      <4> QED
        BY <3>1, <4>1, <2>7
    <3>2. CASE i <= m
      <4>1. g[i] = f[i] /\ g[i - 1] = f[i - 1]
        BY <3>2, <2>6
      <4> QED
        BY <3>2, <4>1, <2>1 DEF Iterates
    <3> QED
      BY <3>1, <3>2
  <2>9. R(g, m + 1)
    BY <2>1, <2>6, <2>8 DEF Iterates
  <2> HIDE DEF g, R
  <2> QED
    BY <2>5, <2>9
<1>3. \A m \in 0 .. p : m \in S
  <2> HIDE DEF S
  <2> QED
    BY <1>1, <1>2, UpTo
<1>4. p \in S
  BY <1>3
<1> QED
  BY <1>4

\* A set of numbers has a least one.
LEMMA MinIn ==
  ASSUME NEW S \in SUBSET Nat, S # {}
  PROVE  Min(S) \in S /\ \A p \in S : Min(S) <= p
<1>1. S \subseteq Nat
  OBVIOUS
<1>2. PICK v \in S : \A y \in S : ~ (<<y, v>> \in OpToRel(<, Nat))
  BY <1>1, NatLessThanWellFounded, WFMin
<1>3. ASSUME NEW y \in S PROVE v <= y
  <2>1. v \in Nat /\ y \in Nat
    BY <1>1
  <2>2. ~ (y < v)
    BY <1>2, <2>1 DEF OpToRel
  <2> QED
    BY <2>1, <2>2
<1> QED
  BY <1>1, <1>3 DEF Min

\* A set of numbers below a bound has a greatest one.
LEMMA MaxIn ==
  ASSUME NEW p \in Nat, NEW S \in SUBSET (0 .. p), S # {}
  PROVE  Max(S) \in S /\ \A k \in S : k <= Max(S)
<1> DEFINE R == {p - k : k \in S}
<1>1. R \in SUBSET Nat /\ R # {}
  <2>1. \A k \in S : p - k \in Nat
    OBVIOUS
  <2>2. PICK k \in S : TRUE
    OBVIOUS
  <2>3. p - k \in R
    OBVIOUS
  <2> QED
    BY <2>1, <2>3
<1>2. Min(R) \in R /\ \A k \in R : Min(R) <= k
  <2> HIDE DEF R
  <2> QED
    BY <1>1, MinIn
<1>3. PICK v \in S : Min(R) = p - v
  BY <1>2
<1>4. \A k \in S : v >= k
  <2>1. ASSUME NEW k \in S PROVE v >= k
    <3>1. p - k \in R
      OBVIOUS
    <3>2. p - v <= p - k
      BY <1>2, <1>3, <3>1
    <3> QED
      BY <3>2
  <2> QED
    BY <2>1
<1>5. Max(S) \in S /\ \A k \in S : Max(S) >= k
  BY <1>4 DEF Max
<1> QED
  BY <1>5

-----------------------------------------------------------------------------
(* Powers of two.                                                          *)

\* The subsets of 1 .. i are counted by a power of two, which is thus a positive number.
LEMMA PowerCounts ==
  ASSUME NEW S, IsFiniteSet(S)
  PROVE  /\ IsFiniteSet(SUBSET S) /\ Cardinality(SUBSET S) = 2 ^ Cardinality(S)
         /\ 2 ^ Cardinality(S) \in Nat
<1>1. IsFiniteSet(SUBSET S) /\ Cardinality(SUBSET S) = 2 ^ Cardinality(S)
  BY FS_SUBSET
<1>2. Cardinality(SUBSET S) \in Nat
  BY <1>1, FS_CardinalityType
<1> QED
  BY <1>1, <1>2

\* An interval of i numbers.
LEMMA IntervalSize ==
  ASSUME NEW h \in Nat, NEW i \in Nat
  PROVE  IsFiniteSet(h + 1 .. h + i) /\ Cardinality(h + 1 .. h + i) = i
<1> DEFINE a == h + 1
           b == h + i
<1>1. a \in Int /\ b \in Int
  OBVIOUS
<1>2. (IF a > b THEN 0 ELSE b - a + 1) = i
  OBVIOUS
<1> HIDE DEF a, b
<1>3. IsFiniteSet(a .. b) /\ Cardinality(a .. b) = IF a > b THEN 0 ELSE b - a + 1
  BY <1>1, FS_Interval
<1> QED
  BY <1>2, <1>3 DEF a, b

\* Shifting by i and then by j is shifting by i + j: a subset of i + j elements is one of
\* the first i and one of the other j.
LEMMA PowerSum ==
  ASSUME NEW i \in Nat, NEW j \in Nat
  PROVE  2 ^ (i + j) = 2 ^ i * 2 ^ j
<1> DEFINE S == 0 + 1 .. 0 + i
           T == i + 1 .. i + j
           U == 0 + 1 .. 0 + (i + j)
           P == (SUBSET S) \X (SUBSET T)
           f == [X \in SUBSET U |-> <<X \cap S, X \cap T>>]
<1>1. /\ IsFiniteSet(S) /\ Cardinality(S) = i
      /\ IsFiniteSet(T) /\ Cardinality(T) = j
      /\ IsFiniteSet(U) /\ Cardinality(U) = i + j
  <2>1. 0 \in Nat /\ i + j \in Nat
    OBVIOUS
  <2> QED
    BY <2>1, IntervalSize
<1>2. S \cup T = U /\ S \cap T = {}
  OBVIOUS
<1> HIDE DEF S, T, U
<1>3. /\ IsFiniteSet(SUBSET S) /\ Cardinality(SUBSET S) = 2 ^ i
      /\ IsFiniteSet(SUBSET T) /\ Cardinality(SUBSET T) = 2 ^ j
      /\ IsFiniteSet(SUBSET U) /\ Cardinality(SUBSET U) = 2 ^ (i + j)
  BY <1>1, PowerCounts
<1>4. IsFiniteSet(P) /\ Cardinality(P) = 2 ^ i * 2 ^ j
  <2> DEFINE A == SUBSET S
             B == SUBSET T
  <2>1. IsFiniteSet(A) /\ IsFiniteSet(B)
    BY <1>3
  <2> HIDE DEF A, B
  <2>2. IsFiniteSet(A \X B) /\ Cardinality(A \X B) = Cardinality(A) * Cardinality(B)
    BY <2>1, FS_Product
  <2> QED
    BY <1>3, <2>2 DEF A, B
<1>5. f \in Bijection(SUBSET U, P)
  <2>1. f \in [SUBSET U -> P]
    OBVIOUS
  <2>2. ASSUME NEW X \in SUBSET U, NEW Y \in SUBSET U, f[X] = f[Y] PROVE X = Y
    <3>1. X \cap S = Y \cap S /\ X \cap T = Y \cap T
      BY <2>2
    <3> QED
      BY <1>2, <3>1
  <2>3. ASSUME NEW q \in P PROVE \E X \in SUBSET U : f[X] = q
    <3>1. PICK X \in SUBSET S, Y \in SUBSET T : q = <<X, Y>>
      OBVIOUS
    <3>2. X \cup Y \in SUBSET U /\ (X \cup Y) \cap S = X /\ (X \cup Y) \cap T = Y
      BY <1>2
    <3> QED
      BY <3>1, <3>2
  <2> HIDE DEF f, P
  <2> QED
    BY <2>1, <2>2, <2>3 DEF Bijection, Injection, Surjection, IsInjective
<1>6. ExistsBijection(SUBSET U, P)
  BY <1>5 DEF ExistsBijection
<1>7. Cardinality(P) = Cardinality(SUBSET U)
  <2> DEFINE A == SUBSET U
  <2>1. IsFiniteSet(A) /\ ExistsBijection(A, P)
    BY <1>3, <1>6
  <2> HIDE DEF A, P
  <2>2. Cardinality(P) = Cardinality(A)
    BY <2>1, FS_Bijection
  <2> QED
    BY <2>2 DEF A
<1> QED
  BY <1>3, <1>4, <1>7

\* A power of two is a positive number.
LEMMA PowerPositive ==
  ASSUME NEW i \in Nat
  PROVE  2 ^ i \in Nat /\ 2 ^ i >= 1
<1> DEFINE S == 0 + 1 .. 0 + i
<1>1. IsFiniteSet(S) /\ Cardinality(S) = i
  BY IntervalSize
<1> HIDE DEF S
<1>2. IsFiniteSet(SUBSET S) /\ Cardinality(SUBSET S) = 2 ^ i /\ 2 ^ i \in Nat
  BY <1>1, PowerCounts
<1>3. Cardinality(SUBSET S) # 0
  <2> DEFINE A == SUBSET S
  <2>1. IsFiniteSet(A) /\ A # {}
    BY <1>2
  <2> HIDE DEF A
  <2>2. Cardinality(A) # 0
    BY <2>1, FS_EmptySet
  <2> QED
    BY <2>2 DEF A
<1> QED
  BY <1>2, <1>3

\* The power that a single bit is.
LEMMA PowerOfOne == 2 ^ 1 = 2
<1>1. IsFiniteSet({1}) /\ Cardinality({1}) = 1
  BY FS_Singleton
<1>2. Cardinality(SUBSET {1}) = 2 ^ 1
  BY <1>1, PowerCounts
<1>3. SUBSET {1} = {{}} \cup {{1}}
  OBVIOUS
<1>4. Cardinality({{}} \cup {{1}}) = 2
  <2> DEFINE A == {{}}
             b == {1}
  <2>1. IsFiniteSet(A) /\ Cardinality(A) = 1 /\ b \notin A
    BY FS_Singleton
  <2> HIDE DEF A, b
  <2>2. Cardinality(A \cup {b}) = 2
    BY <2>1, FS_AddElement
  <2> QED
    BY <2>2 DEF A, b
<1> QED
  BY <1>2, <1>3, <1>4

-----------------------------------------------------------------------------
(* Atoms and numbers.                                                      *)

\* The base has room for the digits of every radix, and halves.
LEMMA BaseFacts ==
  /\ MPZ_BASE \in Nat /\ MPZ_BASE >= 64
  /\ 2 ^ (ATOMBITS - 1) \in Nat /\ MPZ_BASE = 2 * 2 ^ (ATOMBITS - 1)
<1> DEFINE i == ATOMBITS - 6
           j == ATOMBITS - 1
<1>1. i \in Nat /\ j \in Nat /\ i + 6 = ATOMBITS /\ 1 + j = ATOMBITS
  BY AtomAssumption
<1> HIDE DEF i, j
<1>2. 2 ^ (i + 6) = 2 ^ i * 2 ^ 6 /\ 2 ^ i \in Nat /\ 2 ^ i >= 1
  BY <1>1, PowerSum, PowerPositive
<1>3. 2 ^ (1 + j) = 2 ^ 1 * 2 ^ j /\ 2 ^ j \in Nat
  BY <1>1, PowerSum, PowerPositive
<1>4. 2 ^ 6 = 64
  OBVIOUS
<1> DEFINE a == 2 ^ i
           b == 2 ^ (i + 6)
<1>5. b = a * 64 /\ a \in Nat /\ a >= 1
  BY <1>2, <1>4
<1> HIDE DEF a, b
<1>6. b \in Nat /\ b >= 64
  BY <1>5
<1>7. MPZ_BASE = b
  BY <1>1 DEF b, MPZ_BASE
<1>8. MPZ_BASE = 2 * 2 ^ j
  BY <1>1, <1>3, PowerOfOne DEF MPZ_BASE
<1> QED
  BY <1>3, <1>6, <1>7, <1>8 DEF j

\* What an atom holds.
Digit == 0 .. MPZ_BASE - 1

\* A number as the library may leave it in the middle of an operation: storage without a
\* use is zero, but there may be leading zeros.
Clean(z) ==
  /\ z \in [d : Seq(Digit), l : Nat, s : {0, 1}]
  /\ z.l <= Len(z.d)
  /\ \A k \in 1 .. Len(z.d) : k > z.l => z.d[k] = 0

\* A number at rest, as WellFormed has it.
Normal(z) == Clean(z) /\ (z.l > 0 => z.d[z.l] # 0)

\* f[k] is what the atoms from k on stand for (Magnitude's recursion).
Horner(f, d, l) ==
  f[l + 1] = 0 /\ \A k \in 1 .. l : f[k] = d[k] + MPZ_BASE * f[k + 1]

Upper(d, l) == CHOOSE f \in [1 .. l + 1 -> Nat] : Horner(f, d, l)

\* Induction from an upper bound down, as Horner's scheme goes.
LEMMA DownTo ==
  ASSUME NEW m \in Nat, NEW S, m \in S, \A k \in 1 .. m - 1 : k + 1 \in S => k \in S
  PROVE  \A k \in 1 .. m : k \in S
<1> DEFINE R == {i \in Nat : i < m => m - i \in S}
<1>1. 0 \in R
  OBVIOUS
<1>2. ASSUME NEW i \in R PROVE i + 1 \in R
  <2>1. ASSUME i + 1 < m PROVE m - (i + 1) \in S
    <3>1. m - (i + 1) \in 1 .. m - 1 /\ (m - (i + 1)) + 1 = m - i /\ m - i \in S
      BY <2>1
    <3> QED
      BY <3>1
  <2> QED
    BY <2>1
<1>3. R = Nat
  <2> HIDE DEF R
  <2>1. R \in SUBSET Nat
    BY DEF R
  <2> QED
    BY <1>1, <1>2, <2>1, NatInduct
<1>4. ASSUME NEW k \in 1 .. m PROVE k \in S
  <2> DEFINE i == m - k
  <2>1. i \in Nat /\ m - i = k /\ i < m
    OBVIOUS
  <2> HIDE DEF i
  <2>2. i \in R
    <3> HIDE DEF R
    <3> QED
      BY <1>3, <2>1
  <2> QED
    BY <2>1, <2>2
<1> QED
  BY <1>4

\* The suffixes of a number are well defined.
LEMMA HornerExists ==
  ASSUME NEW d, NEW l \in Nat, \A k \in 1 .. l : d[k] \in Digit
  PROVE  \E f \in [1 .. l + 1 -> Nat] : Horner(f, d, l)
<1> DEFINE V == Nat
           zero == 0
           step == [i \in 1 .. l |-> [v \in V |-> d[l + 1 - i] + MPZ_BASE * v]]
<1>1. step \in [1 .. l -> [V -> V]]
  <2>1. ASSUME NEW i \in 1 .. l PROVE [v \in V |-> d[l + 1 - i] + MPZ_BASE * v] \in [V -> V]
    <3>1. d[l + 1 - i] \in Nat /\ MPZ_BASE \in Nat
      <4>1. l + 1 - i \in 1 .. l /\ Digit \subseteq Nat
        BY BaseFacts DEF Digit
      <4> QED
        BY <4>1, BaseFacts
    <3>2. ASSUME NEW v \in V PROVE d[l + 1 - i] + MPZ_BASE * v \in V
      BY <3>1
    <3> QED
      BY <3>2
  <2> QED
    BY <2>1
<1>2. zero \in V
  OBVIOUS
<1>3. PICK g \in [0 .. l -> V] : Iterates(g, zero, l, step)
  <2> HIDE DEF V, zero, step
  <2> QED
    BY <1>1, <1>2, Recursion
<1> DEFINE f == [k \in 1 .. l + 1 |-> g[l + 1 - k]]
<1>4. f \in [1 .. l + 1 -> Nat]
  <2>1. \A k \in 1 .. l + 1 : l + 1 - k \in 0 .. l
    OBVIOUS
  <2> QED
    BY <2>1
<1>5. f[l + 1] = 0
  <2>1. l + 1 \in 1 .. l + 1 /\ l + 1 - (l + 1) = 0
    OBVIOUS
  <2> QED
    BY <1>3, <2>1 DEF Iterates
<1>6. ASSUME NEW k \in 1 .. l PROVE f[k] = d[k] + MPZ_BASE * f[k + 1]
  <2> DEFINE i == l + 1 - k
  <2>1. i \in 1 .. l /\ l + 1 - i = k /\ l + 1 - (k + 1) = i - 1 /\ k + 1 \in 1 .. l + 1 /\ i - 1 \in 0 .. l
    OBVIOUS
  <2>2. f[k] = g[i] /\ f[k + 1] = g[i - 1]
    BY <2>1
  <2>3. g[i] = step[i][g[i - 1]]
    BY <1>3, <2>1 DEF Iterates
  <2>4. step[i] = [v \in V |-> d[k] + MPZ_BASE * v]
    BY <2>1
  <2>5. g[i - 1] \in V
    BY <2>1
  <2> HIDE DEF step, f, V
  <2> QED
    BY <2>2, <2>3, <2>4, <2>5
<1> QED
  BY <1>4, <1>5, <1>6 DEF Horner

\* There is one such function, and Magnitude() is its first value.
LEMMA MagnitudeIs ==
  ASSUME NEW d, NEW l \in Nat, \A k \in 1 .. l : d[k] \in Digit
  PROVE  /\ Upper(d, l) \in [1 .. l + 1 -> Nat] /\ Horner(Upper(d, l), d, l)
         /\ Magnitude(d, l) = Upper(d, l)[1]
<1>1. Upper(d, l) \in [1 .. l + 1 -> Nat] /\ Horner(Upper(d, l), d, l)
  BY HornerExists DEF Upper
<1> DEFINE u == Upper(d, l)
           Eqn(f) == f = [k \in 1 .. l + 1 |-> IF k = l + 1 THEN 0 ELSE d[k] + MPZ_BASE * f[k + 1]]
           F == CHOOSE f : Eqn(f)
<1>2. Eqn(u)
  <2>1. ASSUME NEW k \in 1 .. l + 1
        PROVE  u[k] = IF k = l + 1 THEN 0 ELSE d[k] + MPZ_BASE * u[k + 1]
    <3>1. k # l + 1 => k \in 1 .. l
      OBVIOUS
    <3> HIDE DEF u
    <3> QED
      BY <1>1, <3>1 DEF Horner, u
  <2>2. u \in [1 .. l + 1 -> Nat]
    BY <1>1
  <2> HIDE DEF u
  <2> QED
    BY <2>1, <2>2
<1>3. Eqn(F)
  <2> HIDE DEF Eqn, u
  <2> QED
    BY <1>2
<1>4. Magnitude(d, l) = F[1]
  BY DEF Magnitude
<1>5. F[1] = u[1]
  <2> HIDE DEF F, u
  <2> DEFINE S == {k \in 1 .. l + 1 : F[k] = u[k]}
             m == l + 1
  <2>1. m \in S /\ m \in Nat
    <3>1. m \in 1 .. l + 1
      OBVIOUS
    <3>2. F[m] = 0
      BY <1>3, <3>1
    <3>3. u[m] = 0
      BY <1>1 DEF Horner, u
    <3> QED
      BY <3>1, <3>2, <3>3
  <2>2. ASSUME NEW k \in 1 .. m - 1, k + 1 \in S PROVE k \in S
    <3>1. k \in 1 .. l /\ k \in 1 .. l + 1 /\ k # l + 1
      OBVIOUS
    <3>2. F[k] = d[k] + MPZ_BASE * F[k + 1]
      BY <1>3, <3>1
    <3>3. u[k] = d[k] + MPZ_BASE * u[k + 1]
      BY <1>1, <3>1 DEF Horner, u
    <3> QED
      BY <2>2, <3>1, <3>2, <3>3
  <2>3. \A k \in 1 .. m : k \in S
    <3> HIDE DEF S, m
    <3> QED
      BY <2>1, <2>2, DownTo
  <2>4. 1 \in 1 .. m
    OBVIOUS
  <2> QED
    BY <2>3, <2>4
<1> HIDE DEF F
<1> QED
  BY <1>1, <1>4, <1>5 DEF u

-----------------------------------------------------------------------------
(* Comparison.                                                             *)

\* The magnitude of a number.
Size(z) == Magnitude(z.d, z.l)

\* What is known of a number in the middle of an operation.
LEMMA CleanType ==
  ASSUME NEW z, Clean(z)
  PROVE  /\ z.d \in Seq(Digit) /\ z.l \in Nat /\ z.s \in {0, 1} /\ z.l <= Len(z.d)
         /\ Len(z.d) \in Nat /\ DOMAIN z.d = 1 .. Len(z.d)
         /\ \A k \in 1 .. Len(z.d) : z.d[k] \in Digit /\ (k > z.l => z.d[k] = 0)
         /\ \A k \in 1 .. z.l : z.d[k] \in Digit
         /\ z = [d |-> z.d, l |-> z.l, s |-> z.s]
<1>1. z.d \in Seq(Digit) /\ z.l \in Nat /\ z.s \in {0, 1} /\ z = [d |-> z.d, l |-> z.l, s |-> z.s]
  BY DEF Clean
<1>2. /\ Len(z.d) \in Nat /\ DOMAIN z.d = 1 .. Len(z.d)
      /\ \A k \in 1 .. Len(z.d) : z.d[k] \in Digit
  BY <1>1, ElementOfSeq, LenProperties
<1> QED
  BY <1>1, <1>2 DEF Clean

\* The magnitude and what it is made of.
LEMMA SizeIs ==
  ASSUME NEW z, Clean(z)
  PROVE  /\ Upper(z.d, z.l) \in [1 .. z.l + 1 -> Nat] /\ Horner(Upper(z.d, z.l), z.d, z.l)
         /\ Size(z) = Upper(z.d, z.l)[1] /\ Size(z) \in Nat
<1>1. z.l \in Nat /\ \A k \in 1 .. z.l : z.d[k] \in Digit
  BY CleanType
<1>2. /\ Upper(z.d, z.l) \in [1 .. z.l + 1 -> Nat] /\ Horner(Upper(z.d, z.l), z.d, z.l)
      /\ Size(z) = Upper(z.d, z.l)[1]
  BY <1>1, MagnitudeIs DEF Size
<1>3. 1 \in 1 .. z.l + 1
  BY <1>1
<1> QED
  BY <1>2, <1>3

\* What is the greater from some atom on is the greater: the atoms below cannot make up for it.
LEMMA Dominates ==
  ASSUME NEW f, NEW g, NEW a, NEW b, NEW m \in Nat, m >= 1,
         \A k \in 1 .. m : f[k] \in Nat /\ g[k] \in Nat,
         \A k \in 1 .. m - 1 :
            /\ a[k] \in Digit /\ f[k] = a[k] + MPZ_BASE * f[k + 1]
            /\ b[k] \in Digit /\ g[k] = b[k] + MPZ_BASE * g[k + 1],
         f[m] > g[m]
  PROVE  f[1] > g[1]
<1> DEFINE S == {k \in 1 .. m : f[k] > g[k]}
<1>1. m \in S
  OBVIOUS
<1>2. ASSUME NEW k \in 1 .. m - 1, k + 1 \in S PROVE k \in S
  <2>1. f[k + 1] \in Nat /\ g[k + 1] \in Nat /\ f[k + 1] > g[k + 1]
    BY <1>2
  <2> DEFINE B == MPZ_BASE
             u == f[k + 1]
             w == g[k + 1]
             c == a[k]
             e == b[k]
  <2>2. B \in Nat /\ c \in 0 .. B - 1 /\ e \in 0 .. B - 1
    BY BaseFacts DEF Digit
  <2>3. f[k] = c + B * u /\ g[k] = e + B * w /\ u \in Nat /\ w \in Nat /\ u > w
    BY <2>1
  <2>4. B * u >= B * w + B
    <3> HIDE DEF B, u, w
    <3>1. u - w - 1 \in Nat /\ u = w + 1 + (u - w - 1)
      BY <2>3
    <3>2. B * (w + 1 + (u - w - 1)) = B * w + B + B * (u - w - 1)
      BY <2>2, <2>3
    <3>3. B * (u - w - 1) \in Nat
      BY <2>2, <3>1
    <3>4. B * u = B * w + B + B * (u - w - 1)
      BY <3>1, <3>2
    <3>5. B * w \in Nat
      BY <2>2, <2>3
    <3> QED
      BY <2>2, <3>3, <3>4, <3>5
  <2>5. B * u \in Nat /\ B * w \in Nat
    BY <2>2, <2>3
  <2>6. f[k] > g[k]
    <3> DEFINE bu == B * u
               bw == B * w
    <3>1. f[k] = c + bu /\ g[k] = e + bw /\ bu >= bw + B /\ bu \in Nat /\ bw \in Nat
      BY <2>3, <2>4, <2>5
    <3> HIDE DEF bu, bw, B, c, e
    <3> QED
      BY <2>2, <3>1
  <2>7. k \in 1 .. m
    OBVIOUS
  <2> QED
    BY <2>6, <2>7
<1>3. \A k \in 1 .. m : k \in S
  <2> HIDE DEF S
  <2> QED
    BY <1>1, <1>2, DownTo
<1> QED
  BY <1>3

\* A normalized number of some length is not zero from any of its atoms on.
LEMMA Leading ==
  ASSUME NEW z, Normal(z)
  PROVE  \A k \in 1 .. z.l : Upper(z.d, z.l)[k] >= 1
<1>1. z.l \in Nat /\ \A k \in 1 .. z.l : z.d[k] \in Digit
  BY CleanType DEF Normal
<1>2. CASE z.l = 0
  BY <1>2
<1>3. CASE z.l > 0
  <2> DEFINE f == Upper(z.d, z.l)
             B == MPZ_BASE
             m == z.l
             S == {k \in 1 .. m : f[k] >= 1}
  <2>1. f \in [1 .. z.l + 1 -> Nat] /\ Horner(f, z.d, z.l)
    BY SizeIs DEF Normal
  <2>2. /\ B \in Nat /\ B >= 64 /\ f[m + 1] = 0
        /\ \A k \in 1 .. m : z.d[k] \in Nat /\ f[k + 1] \in Nat /\ f[k] = z.d[k] + B * f[k + 1]
    <3>1. B \in Nat /\ B >= 64
      BY BaseFacts
    <3>2. \A k \in 1 .. m : k + 1 \in 1 .. m + 1
      BY <1>1
    <3>3. \A k \in 1 .. m : z.d[k] \in Nat
      BY <1>1, BaseFacts DEF Digit
    <3> HIDE DEF f
    <3> QED
      BY <2>1, <3>1, <3>2, <3>3 DEF Horner
  <2> HIDE DEF f, B
  <2>3. m \in S /\ m \in Nat
    <3>1. z.d[m] # 0 /\ z.d[m] \in Nat /\ f[m] = z.d[m] + B * 0 /\ m \in 1 .. m
      BY <1>1, <1>3, <2>2 DEF Normal
    <3>2. f[m] >= 1
      BY <2>2, <3>1
    <3> QED
      BY <1>1, <3>1, <3>2
  <2>4. ASSUME NEW k \in 1 .. m - 1, k + 1 \in S PROVE k \in S
    <3>1. k \in 1 .. m /\ f[k + 1] >= 1 /\ f[k + 1] \in Nat
      BY <1>1, <2>2, <2>4
    <3>2. f[k] = z.d[k] + B * f[k + 1] /\ z.d[k] \in Nat
      BY <2>2, <3>1
    <3>3. B * f[k + 1] >= 1 /\ B * f[k + 1] \in Nat
      BY <2>2, <3>1
    <3>4. f[k] >= 1
      BY <3>2, <3>3
    <3> QED
      BY <3>1, <3>4
  <2>5. \A k \in 1 .. m : k \in S
    <3> HIDE DEF S, m
    <3> QED
      BY <2>3, <2>4, DownTo
  <2> QED
    BY <2>5 DEF f
<1> QED
  BY <1>1, <1>2, <1>3

\* Numbers that agree from some atom on.
LEMMA Agrees ==
  ASSUME NEW f, NEW g, NEW a, NEW b, NEW l \in Nat, NEW j \in 0 .. l,
         Horner(f, a, l), Horner(g, b, l), \A k \in j + 1 .. l : a[k] = b[k]
  PROVE  f[j + 1] = g[j + 1]
<1> DEFINE m == l + 1
           S == {k \in 1 .. m : k > j => f[k] = g[k]}
<1>1. m \in S /\ m \in Nat
  BY DEF Horner
<1>2. ASSUME NEW k \in 1 .. m - 1, k + 1 \in S PROVE k \in S
  <2>1. k \in 1 .. l /\ k \in 1 .. m
    OBVIOUS
  <2>2. f[k] = a[k] + MPZ_BASE * f[k + 1] /\ g[k] = b[k] + MPZ_BASE * g[k + 1]
    BY <2>1 DEF Horner
  <2>3. ASSUME k > j PROVE f[k] = g[k]
    <3>1. k \in j + 1 .. l /\ k + 1 > j
      BY <2>1, <2>3
    <3> QED
      BY <1>2, <2>2, <3>1
  <2> QED
    BY <2>1, <2>3
<1>3. \A k \in 1 .. m : k \in S
  <2> HIDE DEF S, m
  <2> QED
    BY <1>1, <1>2, DownTo
<1>4. j + 1 \in 1 .. m /\ j + 1 > j
  OBVIOUS
<1> QED
  BY <1>3, <1>4

\* Of two numbers of the same length, the one with the greater atom where they differ first
\* is the greater.
LEMMA GreaterAt ==
  ASSUME NEW a, NEW b, Clean(a), Clean(b), a.l = b.l, NEW j \in 1 .. a.l,
         a.d[j] > b.d[j], \A k \in j + 1 .. a.l : a.d[k] = b.d[k]
  PROVE  Size(a) > Size(b)
<1> DEFINE f == Upper(a.d, a.l)
           g == Upper(b.d, b.l)
           l == a.l
           c == a.d
           e == b.d
<1>1. /\ f \in [1 .. l + 1 -> Nat] /\ Horner(f, c, l) /\ Size(a) = f[1]
      /\ g \in [1 .. l + 1 -> Nat] /\ Horner(g, e, l) /\ Size(b) = g[1]
  BY SizeIs
<1>2. l \in Nat /\ \A k \in 1 .. l : c[k] \in Digit /\ e[k] \in Digit
  BY CleanType
<1>3. c[j] > e[j] /\ \A k \in j + 1 .. l : c[k] = e[k]
  OBVIOUS
<1> HIDE DEF f, g, l, c, e
<1>4. j \in 1 .. l /\ j \in 0 .. l
  BY <1>2 DEF l
<1>5. f[j + 1] = g[j + 1]
  <2>1. Horner(f, c, l) /\ Horner(g, e, l)
    BY <1>1
  <2>2. \A k \in j + 1 .. l : c[k] = e[k]
    BY <1>3
  <2>3. l \in Nat /\ j \in 0 .. l
    BY <1>2, <1>4
  <2> QED
    BY ONLY <2>1, <2>2, <2>3, Agrees
<1>6. f[j] > g[j]
  <2> DEFINE bu == MPZ_BASE * f[j + 1]
  <2>1. f[j] = c[j] + bu /\ g[j] = e[j] + bu
    BY <1>1, <1>4, <1>5 DEF Horner
  <2>2. f[j + 1] \in Nat
    <3>1. j + 1 \in 1 .. l + 1
      BY <1>2, <1>4
    <3> QED
      BY <1>1, <3>1
  <2>3. bu \in Nat
    BY <2>2, BaseFacts
  <2>4. c[j] \in Nat /\ e[j] \in Nat
    BY <1>2, <1>4, BaseFacts DEF Digit
  <2> HIDE DEF bu
  <2> QED
    BY <1>3, <2>1, <2>3, <2>4
<1>7. \A k \in 1 .. j : f[k] \in Nat /\ g[k] \in Nat
  BY <1>1, <1>2, <1>4
<1>8. \A k \in 1 .. j - 1 :
        /\ c[k] \in Digit /\ f[k] = c[k] + MPZ_BASE * f[k + 1]
        /\ e[k] \in Digit /\ g[k] = e[k] + MPZ_BASE * g[k + 1]
  <2>1. \A k \in 1 .. j - 1 : k \in 1 .. l
    BY <1>2, <1>4
  <2> QED
    BY <1>1, <1>2, <2>1 DEF Horner
<1>9. j \in Nat /\ j >= 1
  OBVIOUS
<1>10. f[1] > g[1]
  BY <1>6, <1>7, <1>8, <1>9, Dominates
<1> QED
  BY <1>1, <1>10

\* Of two normalized numbers the longer one is the greater.
LEMMA LongerIsGreater ==
  ASSUME NEW a, NEW b, Normal(a), Clean(b), a.l > b.l
  PROVE  Size(a) > Size(b)
<1> DEFINE f == Upper(a.d, a.l)
           g == Upper(b.d, b.l)
           l == a.l
           h == b.l
           m == h + 1
           c == a.d
           e == b.d
<1>1. /\ f \in [1 .. l + 1 -> Nat] /\ Horner(f, c, l) /\ Size(a) = f[1]
      /\ g \in [1 .. h + 1 -> Nat] /\ Horner(g, e, h) /\ Size(b) = g[1]
  BY SizeIs DEF Normal
<1>2. /\ l \in Nat /\ h \in Nat /\ h < l /\ m \in Nat
      /\ \A k \in 1 .. l : c[k] \in Digit
      /\ \A k \in 1 .. h : e[k] \in Digit
  BY CleanType DEF Normal
<1>3. \A k \in 1 .. l : f[k] >= 1
  BY Leading
<1> HIDE DEF f, g, l, h, c, e
<1>4. m \in 1 .. l /\ m >= 1
  BY <1>2
<1>5. f[m] > g[m]
  <2>1. f[m] >= 1 /\ g[m] = 0 /\ f[m] \in Nat
    BY <1>1, <1>2, <1>3, <1>4 DEF Horner
  <2> QED
    BY <2>1
<1>6. \A k \in 1 .. m : f[k] \in Nat /\ g[k] \in Nat
  BY <1>1, <1>2
<1>7. \A k \in 1 .. m - 1 :
        /\ c[k] \in Digit /\ f[k] = c[k] + MPZ_BASE * f[k + 1]
        /\ e[k] \in Digit /\ g[k] = e[k] + MPZ_BASE * g[k + 1]
  <2>1. \A k \in 1 .. m - 1 : k \in 1 .. l /\ k \in 1 .. h
    BY <1>2
  <2> QED
    BY <1>1, <1>2, <2>1 DEF Horner
<1>8. f[1] > g[1]
  <2> HIDE DEF m
  <2> QED
    BY <1>2, <1>4, <1>5, <1>6, <1>7, Dominates
<1> QED
  BY <1>1, <1>8

\* mpz_cmpabs() compares the magnitudes.
LEMMA ComparesMagnitudes ==
  ASSUME NEW a, NEW b, Normal(a), Normal(b)
  PROVE  \/ mpz_cmpabs(a, b) = 1 /\ Size(a) > Size(b)
         \/ mpz_cmpabs(a, b) = 0 /\ Size(a) = Size(b)
         \/ mpz_cmpabs(a, b) = -1 /\ Size(a) < Size(b)
<1>1. Clean(a) /\ Clean(b)
  BY DEF Normal
<1>2. a.l \in Nat /\ b.l \in Nat
  BY <1>1, CleanType
<1>3. Size(a) \in Nat /\ Size(b) \in Nat
  BY <1>1, SizeIs
<1>4. CASE a.l > b.l
  <2>1. Size(a) > Size(b)
    BY <1>1, <1>4, LongerIsGreater
  <2>2. mpz_cmpabs(a, b) = 1
    BY <1>2, <1>4 DEF mpz_cmpabs
  <2> QED
    BY <2>1, <2>2
<1>5. CASE a.l < b.l
  <2>1. Size(b) > Size(a)
    BY <1>1, <1>2, <1>5, LongerIsGreater
  <2>2. mpz_cmpabs(a, b) = -1
    BY <1>2, <1>5 DEF mpz_cmpabs
  <2> QED
    BY <1>3, <2>1, <2>2
<1>6. CASE a.l = b.l
  <2> DEFINE l == a.l
             c == a.d
             e == b.d
             differ == {k \in 1 .. l : c[k] # e[k]}
             j == Max(differ)
  <2>1. mpz_cmpabs(a, b) = IF differ = {} THEN 0 ELSE IF c[j] > e[j] THEN 1 ELSE -1
    BY <1>2, <1>6 DEF mpz_cmpabs
  <2>2. CASE differ = {}
    <3>1. \A k \in 0 + 1 .. l : c[k] = e[k]
      BY <2>2
    <3> DEFINE f == Upper(c, l)
               g == Upper(e, l)
    <3>2. Horner(f, c, l) /\ Size(a) = f[1] /\ Horner(g, e, l) /\ Size(b) = g[1]
      BY <1>1, <1>6, SizeIs
    <3>3. f[0 + 1] = g[0 + 1]
      <4>1. l \in Nat /\ 0 \in 0 .. l
        BY <1>2
      <4> HIDE DEF f, g, l, c, e
      <4> QED
        BY <3>1, <3>2, <4>1, Agrees
    <3> QED
      BY <2>1, <2>2, <3>2, <3>3
  <2>3. CASE differ # {}
    <3>1. j \in differ /\ \A k \in differ : k <= j
      <4>1. differ \in SUBSET (0 .. l) /\ l \in Nat
        BY <1>2
      <4> HIDE DEF differ, l
      <4> QED
        BY <2>3, <4>1, MaxIn
    <3> HIDE DEF j
    <3>2. j \in 1 .. l /\ c[j] # e[j]
      BY <3>1
    <3>3. \A k \in j + 1 .. l : c[k] = e[k]
      <4>1. ASSUME NEW k \in j + 1 .. l PROVE c[k] = e[k]
        <5>1. k \in 1 .. l /\ ~(k <= j)
          BY <1>2, <3>2
        <5> QED
          BY <3>1, <5>1
      <4> QED
        BY <4>1
    <3>4. c[j] \in Nat /\ e[j] \in Nat
      <4>1. c[j] \in Digit /\ e[j] \in Digit
        BY <1>1, <1>6, <3>2, CleanType
      <4> QED
        BY <4>1, BaseFacts DEF Digit
    <3>5. CASE c[j] > e[j]
      <4>1. Size(a) > Size(b)
        BY <1>1, <1>6, <3>2, <3>3, <3>5, GreaterAt
      <4> QED
        BY <2>1, <2>3, <3>5, <4>1
    <3>6. CASE e[j] > c[j]
      <4>1. Size(b) > Size(a)
        <5>1. b.l = a.l /\ j \in 1 .. b.l /\ \A k \in j + 1 .. b.l : e[k] = c[k]
          BY <1>6, <3>2, <3>3
        <5> QED
          BY <1>1, <3>6, <5>1, GreaterAt
      <4>2. ~(c[j] > e[j])
        BY <3>4, <3>6
      <4> QED
        BY <1>3, <2>1, <2>3, <4>1, <4>2
    <3> QED
      BY <3>2, <3>4, <3>5, <3>6
  <2> QED
    BY <2>2, <2>3
<1> QED
  BY <1>2, <1>4, <1>5, <1>6

\* The sign applied to the magnitude.
LEMMA ValueIs ==
  ASSUME NEW z, Clean(z)
  PROVE  /\ Size(z) \in Nat
         /\ z.s = 0 => Value(z) = Size(z)
         /\ z.s = 1 => Value(z) = -Size(z)
         /\ Value(z) \in Int
<1>1. Size(z) \in Nat
  BY SizeIs
<1>2. z.s = 0 \/ z.s = 1
  BY CleanType
<1>3. Value(z) = (IF z.s = 1 THEN -1 ELSE 1) * Size(z)
  BY DEF Value, Size
<1> HIDE DEF Size
<1> QED
  BY <1>1, <1>2, <1>3

\* A normalized number is zero exactly when it has no atoms.
LEMMA ZeroSize ==
  ASSUME NEW z, Normal(z)
  PROVE  z.l = 0 <=> Size(z) = 0
<1>1. Clean(z)
  BY DEF Normal
<1>2. z.l \in Nat /\ Size(z) \in Nat
  BY <1>1, CleanType, SizeIs
<1>3. /\ Horner(Upper(z.d, z.l), z.d, z.l) /\ Size(z) = Upper(z.d, z.l)[1]
  BY <1>1, SizeIs
<1>4. CASE z.l = 0
  BY <1>3, <1>4 DEF Horner
<1>5. CASE z.l # 0
  <2>1. 1 \in 1 .. z.l
    BY <1>2, <1>5
  <2>2. Size(z) >= 1
    BY <1>3, <2>1, Leading
  <2> QED
    BY <1>2, <1>5, <2>2
<1> QED
  BY <1>4, <1>5

\* The result r of a comparison tells how a and b are ordered.
Orders(r, a, b) ==
  \/ r = 1 /\ a > b
  \/ r = 0 /\ a = b
  \/ r = -1 /\ a < b

\* mpz_cmp() orders numbers as integers are ordered, a zero with a sign included.
THEOREM ComparisonExact ==
  ASSUME NEW a, NEW b, Normal(a), Normal(b)
  PROVE  Orders(mpz_cmp(a, b), Value(a), Value(b))
<1> DEFINE u == Size(a)
           w == Size(b)
<1>1. Clean(a) /\ Clean(b)
  BY DEF Normal
<1>2. /\ u \in Nat /\ w \in Nat
      /\ a.s = 0 => Value(a) = u
      /\ a.s = 1 => Value(a) = -u
      /\ b.s = 0 => Value(b) = w
      /\ b.s = 1 => Value(b) = -w
  BY <1>1, ValueIs
<1>3. a.s \in {0, 1} /\ b.s \in {0, 1} /\ a.l \in Nat /\ b.l \in Nat
  BY <1>1, CleanType
<1>4. (a.l = 0 <=> u = 0) /\ (b.l = 0 <=> w = 0)
  BY ZeroSize
<1>5. Orders(mpz_cmpabs(a, b), u, w) /\ Orders(mpz_cmpabs(b, a), w, u)
  BY <1>2, ComparesMagnitudes DEF Orders
<1> HIDE DEF u, w
<1>6. CASE a.l = 0 /\ b.l = 0
  BY <1>2, <1>3, <1>4, <1>6 DEF Orders, mpz_cmp
<1>7. CASE ~(a.l = 0 /\ b.l = 0) /\ a.s = b.s
  <2>1. mpz_cmp(a, b) = IF a.s = 1 THEN mpz_cmpabs(b, a) ELSE mpz_cmpabs(a, b)
    BY <1>7 DEF mpz_cmp
  <2>2. CASE a.s = 1
    BY <1>2, <1>5, <1>7, <2>1, <2>2 DEF Orders
  <2>3. CASE a.s = 0
    BY <1>2, <1>5, <1>7, <2>1, <2>3 DEF Orders
  <2> QED
    BY <1>3, <2>2, <2>3
<1>8. CASE ~(a.l = 0 /\ b.l = 0) /\ a.s # b.s
  BY <1>2, <1>3, <1>4, <1>8 DEF Orders, mpz_cmp
<1> QED
  BY <1>6, <1>7, <1>8

-----------------------------------------------------------------------------
(* Normalization and storage.                                              *)

\* Whatever satisfies the recursion of Magnitude() is it.
LEMMA MagnitudeUnique ==
  ASSUME NEW d, NEW l \in Nat, \A k \in 1 .. l : d[k] \in Digit, NEW f, Horner(f, d, l)
  PROVE  Magnitude(d, l) = f[1]
<1> DEFINE g == Upper(d, l)
<1>1. Horner(g, d, l) /\ Magnitude(d, l) = g[1]
  BY MagnitudeIs
<1>2. g[0 + 1] = f[0 + 1]
  <2>1. 0 \in 0 .. l /\ \A k \in 0 + 1 .. l : d[k] = d[k]
    OBVIOUS
  <2> HIDE DEF g
  <2> QED
    BY <1>1, <2>1, Agrees
<1> QED
  BY <1>1, <1>2

\* The same atoms are the same number.
LEMMA SameAtoms ==
  ASSUME NEW d, NEW e, NEW l \in Nat, \A k \in 1 .. l : d[k] \in Digit /\ e[k] = d[k]
  PROVE  Magnitude(e, l) = Magnitude(d, l)
<1> DEFINE f == Upper(d, l)
<1>1. Horner(f, d, l) /\ Magnitude(d, l) = f[1]
  BY MagnitudeIs
<1> HIDE DEF f
<1>2. Horner(f, e, l)
  BY <1>1 DEF Horner
<1> QED
  BY <1>1, <1>2, MagnitudeUnique

\* Zeros in front do not count.
LEMMA LeadingZeros ==
  ASSUME NEW d, NEW l \in Nat, NEW h \in 0 .. l,
         \A k \in 1 .. l : d[k] \in Digit, \A k \in h + 1 .. l : d[k] = 0
  PROVE  Magnitude(d, l) = Magnitude(d, h)
<1> DEFINE f == Upper(d, l)
           m == l + 1
           S == {k \in 1 .. m : k > h => f[k] = 0}
<1>1. f \in [1 .. l + 1 -> Nat] /\ Horner(f, d, l) /\ Magnitude(d, l) = f[1]
  BY MagnitudeIs
<1> HIDE DEF f
<1>2. m \in S /\ m \in Nat
  BY <1>1 DEF Horner
<1>3. ASSUME NEW k \in 1 .. m - 1, k + 1 \in S PROVE k \in S
  <2>1. k \in 1 .. l /\ k \in 1 .. m
    OBVIOUS
  <2>2. ASSUME k > h PROVE f[k] = 0
    <3>1. k \in h + 1 .. l /\ k + 1 > h
      BY <2>1, <2>2
    <3>2. d[k] = 0 /\ f[k + 1] = 0
      BY <1>3, <3>1
    <3>3. f[k] = d[k] + MPZ_BASE * f[k + 1]
      BY <1>1, <2>1 DEF Horner
    <3> QED
      BY <3>2, <3>3, BaseFacts
  <2> QED
    BY <2>1, <2>2
<1>4. \A k \in 1 .. m : k \in S
  <2> HIDE DEF S, m
  <2> QED
    BY <1>2, <1>3, DownTo
<1>5. Horner(f, d, h)
  <2>1. h + 1 \in 1 .. m /\ h + 1 > h /\ \A k \in 1 .. h : k \in 1 .. l
    OBVIOUS
  <2>2. f[h + 1] = 0
    BY <1>4, <2>1
  <2> QED
    BY <1>1, <2>1, <2>2 DEF Horner
<1>6. h \in Nat /\ \A k \in 1 .. h : d[k] \in Digit
  OBVIOUS
<1>7. Magnitude(d, h) = f[1]
  BY <1>5, <1>6, MagnitudeUnique
<1> QED
  BY <1>1, <1>7

\* The atoms in use end with the last one that is not zero.
LEMMA AtomsUsedIs ==
  ASSUME NEW d \in Seq(Digit)
  PROVE  /\ AtomsUsed(d) \in 0 .. Len(d)
         /\ \A k \in 1 .. Len(d) : k > AtomsUsed(d) => d[k] = 0
         /\ AtomsUsed(d) > 0 => d[AtomsUsed(d)] # 0
<1> DEFINE l == Len(d)
           S == {0} \cup {k \in DOMAIN d : d[k] # 0}
           u == Max(S)
<1>1. l \in Nat /\ DOMAIN d = 1 .. l
  BY LenProperties
<1>2. u \in S /\ \A k \in S : k <= u
  <2>1. S \in SUBSET (0 .. l) /\ S # {}
    BY <1>1
  <2> HIDE DEF S, l
  <2> QED
    BY <1>1, <2>1, MaxIn
<1>3. AtomsUsed(d) = u
  BY DEF AtomsUsed
<1> HIDE DEF u
<1>4. u \in 0 .. l /\ (u > 0 => d[u] # 0)
  BY <1>1, <1>2
<1>5. ASSUME NEW k \in 1 .. l, k > u PROVE d[k] = 0
  <2>1. k \notin S
    <3>1. ~(k <= u)
      BY <1>4, <1>5
    <3> HIDE DEF S
    <3> QED
      BY <1>2, <3>1
  <2> QED
    BY <1>1, <2>1
<1> QED
  BY <1>3, <1>4, <1>5

\* Any storage can be normalized.
LEMMA NormalizeAny ==
  ASSUME NEW z \in [d : Seq(Digit), l : Nat, s : {0, 1}]
  PROVE  /\ Normal(NormalizeLength(z))
         /\ NormalizeLength(z).d = z.d /\ NormalizeLength(z).s = z.s
         /\ NormalizeLength(z).l = AtomsUsed(z.d)
         /\ Clean(z) => Size(NormalizeLength(z)) = Size(z)
<1> DEFINE u == AtomsUsed(z.d)
           t == NormalizeLength(z)
<1>1. /\ u \in 0 .. Len(z.d) /\ (u > 0 => z.d[u] # 0)
      /\ \A k \in 1 .. Len(z.d) : k > u => z.d[k] = 0
  <2>1. z.d \in Seq(Digit)
    OBVIOUS
  <2> QED
    BY <2>1, AtomsUsedIs
<1>2. t = [d |-> z.d, l |-> u, s |-> z.s]
  BY DEF NormalizeLength
<1> HIDE DEF u
<1>3. Normal(t)
  <2>1. t \in [d : Seq(Digit), l : Nat, s : {0, 1}]
    <3>1. u \in Nat
      BY <1>1
    <3> QED
      BY <1>2, <3>1
  <2>2. Len(z.d) \in Nat
    BY LenProperties
  <2>3. t.d = z.d /\ t.l = u
    BY <1>2
  <2> HIDE DEF t
  <2> QED
    BY <1>1, <2>1, <2>2, <2>3 DEF Normal, Clean
<1>4. ASSUME Clean(z) PROVE Size(t) = Size(z)
  <2>1. /\ z.l \in Nat /\ z.l <= Len(z.d) /\ Len(z.d) \in Nat
        /\ \A k \in 1 .. Len(z.d) : z.d[k] \in Digit /\ (k > z.l => z.d[k] = 0)
    BY <1>4, CleanType
  <2> DEFINE a == Len(z.d)
             c == z.d
  <2>2. Magnitude(c, a) = Magnitude(c, u)
    <3>1. u \in 0 .. a /\ \A k \in u + 1 .. a : c[k] = 0
      BY <1>1, <2>1
    <3> HIDE DEF a, c
    <3> QED
      BY <2>1, <3>1, LeadingZeros DEF a, c
  <2>3. Magnitude(c, a) = Magnitude(c, z.l)
    <3>1. z.l \in 0 .. a /\ \A k \in z.l + 1 .. a : c[k] = 0
      BY <2>1
    <3> HIDE DEF a, c
    <3> QED
      BY <2>1, <3>1, LeadingZeros DEF a, c
  <2>4. t.d = z.d /\ t.l = u
    BY <1>2
  <2> QED
    BY <2>2, <2>3, <2>4 DEF Size
<1> QED
  BY <1>2, <1>3, <1>4 DEF u

\* mpz_normalize() resets the sign of zero as well.
LEMMA NormalizeClean ==
  ASSUME NEW z, Clean(z)
  PROVE  /\ Normal(mpz_normalize(z)) /\ Size(mpz_normalize(z)) = Size(z)
         /\ Len(mpz_normalize(z).d) = Len(z.d)
         /\ mpz_normalize(z).s = IF z.d # << >> /\ Size(z) = 0 THEN 0 ELSE z.s
<1> DEFINE t == NormalizeLength(z)
           u == AtomsUsed(z.d)
           r == mpz_normalize(z)
<1>1. z \in [d : Seq(Digit), l : Nat, s : {0, 1}] /\ z = [d |-> z.d, l |-> z.l, s |-> z.s]
  BY CleanType DEF Clean
<1>2. Normal(t) /\ t.d = z.d /\ t.s = z.s /\ t.l = u /\ Size(t) = Size(z)
  BY <1>1, NormalizeAny
<1>3. u = 0 <=> Size(z) = 0
  BY <1>2, ZeroSize
<1>4. CASE z.d = << >>
  <2>1. r = z
    BY <1>4 DEF mpz_normalize
  <2>2. Normal(z)
    <3>1. z.l = 0
      BY <1>4, CleanType
    <3> QED
      BY <3>1 DEF Normal
  <2> QED
    BY <1>4, <2>1, <2>2
<1>5. CASE z.d # << >>
  <2>1. r = [d |-> z.d, l |-> u, s |-> IF u = 0 THEN 0 ELSE z.s]
    BY <1>1, <1>5 DEF mpz_normalize
  <2>2. r.d = t.d /\ r.l = t.l /\ r.s = IF u = 0 THEN 0 ELSE z.s
    BY <1>2, <2>1
  <2>3. r.s \in {0, 1} /\ r \in [d : Seq(Digit), l : Nat, s : {0, 1}]
    <3>1. t.d \in Seq(Digit) /\ t.l \in Nat /\ z.s \in {0, 1}
      BY <1>1, <1>2 DEF Normal, Clean
    <3> QED
      BY <1>2, <2>1, <3>1
  <2> HIDE DEF r, t
  <2>4. Normal(r)
    BY <1>2, <2>2, <2>3 DEF Normal, Clean
  <2>5. Size(r) = Size(t)
    BY <2>2 DEF Size
  <2> QED
    BY <1>2, <1>3, <1>5, <2>2, <2>4, <2>5 DEF r
<1> QED
  BY <1>4, <1>5

\* A function on 1 .. m is a sequence.
LEMMA FunctionSeq ==
  ASSUME NEW T, NEW m \in Nat, NEW f \in [1 .. m -> T]
  PROVE  f \in Seq(T) /\ Len(f) = m
OBVIOUS

\* Storage grows, and the number stays.
LEMMA ReallocKeeps ==
  ASSUME NEW z, Clean(z), NEW i \in Nat
  PROVE  LET t == mpz_realloc(z, i)
         IN  /\ Clean(t) /\ t.l = z.l /\ t.s = z.s
             /\ Len(t.d) > i /\ Len(t.d) >= Len(z.d)
             /\ \A k \in 1 .. Len(z.d) : t.d[k] = z.d[k]
             /\ Size(t) = Size(z)
             /\ Normal(z) => Normal(t)
<1> DEFINE t == mpz_realloc(z, i)
           a == Len(z.d)
<1>1. /\ z.d \in Seq(Digit) /\ z.l \in Nat /\ z.s \in {0, 1} /\ z.l <= a
      /\ a \in Nat
      /\ \A k \in 1 .. a : z.d[k] \in Digit /\ (k > z.l => z.d[k] = 0)
      /\ \A k \in 1 .. z.l : z.d[k] \in Digit
      /\ z = [d |-> z.d, l |-> z.l, s |-> z.s]
  BY CleanType
<1>2. CASE i < a
  <2>1. mpz_realloc(z, i) = z
    BY <1>2 DEF mpz_realloc
  <2> QED
    BY <1>1, <1>2, <2>1
<1>3. CASE ~(i < a)
  <2> DEFINE m == i + 1 - a
             o == Zeros(m)
             e == z.d \o o
  <2>1. m \in Nat /\ a + m = i + 1
    BY <1>1, <1>3
  <2>2. o \in Seq(Digit) /\ Len(o) = m /\ \A k \in 1 .. m : o[k] = 0
    <3>1. o = [k \in 1 .. m |-> 0] /\ 0 \in Digit
      BY BaseFacts DEF Zeros, Digit
    <3> HIDE DEF m, o
    <3>2. o \in [1 .. m -> Digit]
      BY <3>1
    <3> QED
      BY <2>1, <3>1, <3>2, FunctionSeq
  <2> HIDE DEF o, m
  <2>3. /\ e \in Seq(Digit) /\ Len(e) = a + m
        /\ \A k \in 1 .. a : e[k] = z.d[k]
        /\ \A k \in a + 1 .. a + m : e[k] = o[k - a]
    <3>1. /\ e \in Seq(Digit) /\ Len(e) = a + m
          /\ \A k \in 1 .. a + m : e[k] = IF k <= a THEN z.d[k] ELSE o[k - a]
      <4> DEFINE c == z.d
      <4>1. c \in Seq(Digit) /\ Len(c) = a
        BY <1>1
      <4> HIDE DEF c, a
      <4>2. /\ c \o o \in Seq(Digit) /\ Len(c \o o) = Len(c) + Len(o)
            /\ \A k \in 1 .. Len(c) + Len(o) : (c \o o)[k] = IF k <= Len(c) THEN c[k] ELSE o[k - Len(c)]
        BY <2>2, <4>1, ConcatProperties
      <4> QED
        BY <2>2, <4>1, <4>2 DEF c
    <3> HIDE DEF e
    <3> QED
      BY <1>1, <2>1, <3>1
  <2>4. t = [d |-> e, l |-> z.l, s |-> z.s]
    BY <1>1, <1>3 DEF mpz_realloc, m, o
  <2> HIDE DEF e, t
  <2>5. t.d = e /\ t.l = z.l /\ t.s = z.s /\ t \in [d : Seq(Digit), l : Nat, s : {0, 1}]
    BY <1>1, <2>3, <2>4
  <2>6. \A k \in 1 .. Len(e) : k > z.l => e[k] = 0
    <3>1. ASSUME NEW k \in 1 .. a + m, k > z.l PROVE e[k] = 0
      <4>1. CASE k \in 1 .. a
        BY <1>1, <2>3, <3>1, <4>1
      <4>2. CASE k \in a + 1 .. a + m
        <5>1. k - a \in 1 .. m
          BY <1>1, <2>1, <4>2
        <5> QED
          BY <2>2, <2>3, <4>2, <5>1
      <4> QED
        BY <1>1, <2>1, <4>1, <4>2
    <3> QED
      BY <2>3, <3>1
  <2>7. Clean(t)
    <3>1. z.l <= a + m
      BY <1>1, <2>1
    <3> QED
      BY <2>3, <2>5, <2>6, <3>1 DEF Clean
  <2>8. Size(t) = Size(z)
    <3> DEFINE c == z.d
               l == z.l
    <3>1. \A k \in 1 .. l : c[k] \in Digit /\ e[k] = c[k]
      BY <1>1, <2>3
    <3>2. l \in Nat
      BY <1>1
    <3> HIDE DEF c, l
    <3>3. Magnitude(e, l) = Magnitude(c, l)
      BY <3>1, <3>2, SameAtoms
    <3> QED
      BY <2>5, <3>3 DEF Size, c, l
  <2>9. Normal(z) => Normal(t)
    <3>1. z.l > 0 => z.l \in 1 .. a
      BY <1>1
    <3> QED
      BY <2>3, <2>5, <2>7, <3>1 DEF Normal
  <2>10. Len(e) > i /\ Len(e) >= a
    BY <1>1, <2>1, <2>3
  <2>11. \A k \in 1 .. a : e[k] = z.d[k]
    BY <2>3
  <2> HIDE DEF a
  <2> QED
    BY <2>5, <2>7, <2>8, <2>9, <2>10, <2>11 DEF t, a
<1> QED
  BY <1>2, <1>3

\* A number with nothing in its storage.
Blank(z) ==
  Clean(z) /\ z.l = 0

\* What is blank is zero, all of it.
LEMMA BlankIs ==
  ASSUME NEW z, Blank(z)
  PROVE  Normal(z) /\ Size(z) = 0 /\ Value(z) = 0 /\ \A k \in 1 .. Len(z.d) : z.d[k] = 0
<1>1. Normal(z)
  BY DEF Blank, Normal
<1>2. Size(z) = 0
  BY <1>1, ZeroSize DEF Blank
<1>3. Value(z) = 0
  <2>1. Clean(z) /\ (z.s = 0 \/ z.s = 1)
    BY CleanType DEF Blank
  <2> QED
    BY <1>2, <2>1, ValueIs
<1>4. \A k \in 1 .. Len(z.d) : z.d[k] = 0
  <2>1. z.l = 0 /\ Len(z.d) \in Nat /\ \A k \in 1 .. Len(z.d) : k > z.l => z.d[k] = 0
    BY CleanType DEF Blank
  <2> QED
    BY <2>1
<1> QED
  BY <1>1, <1>2, <1>3, <1>4

\* Clearing a number leaves its storage.
LEMMA ZeroClears ==
  ASSUME NEW z, Clean(z)
  PROVE  Blank(mpz_zero(z)) /\ Len(mpz_zero(z).d) = Len(z.d) /\ mpz_zero(z).s = z.s
<1> DEFINE a == Len(z.d)
           e == [k \in DOMAIN z.d |-> IF k <= z.l THEN 0 ELSE z.d[k]]
           t == mpz_zero(z)
<1>1. /\ z.l \in Nat /\ z.s \in {0, 1} /\ a \in Nat /\ DOMAIN z.d = 1 .. a
      /\ \A k \in 1 .. a : z.d[k] \in Digit /\ (k > z.l => z.d[k] = 0)
      /\ z = [d |-> z.d, l |-> z.l, s |-> z.s]
  BY CleanType
<1>2. \A k \in 1 .. a : e[k] = 0
  BY <1>1
<1>3. e \in Seq(Digit) /\ Len(e) = a
  <2>1. 0 \in Digit
    BY BaseFacts DEF Digit
  <2>2. e \in [1 .. a -> Digit]
    BY <1>1, <2>1
  <2> HIDE DEF e, a
  <2> QED
    BY <1>1, <2>2, FunctionSeq
<1>4. t = [d |-> e, l |-> 0, s |-> z.s]
  <2>1. z \in [d : Seq(Digit), l : Nat, s : {0, 1}]
    BY DEF Clean
  <2> QED
    <3>1. t = [z EXCEPT !.d = e, !.l = 0]
      BY DEF mpz_zero
    <3> HIDE DEF e, t
    <3> QED
      BY <2>1, <3>1
<1> HIDE DEF e, t
<1>5. t.d = e /\ t.l = 0 /\ t.s = z.s /\ t \in [d : Seq(Digit), l : Nat, s : {0, 1}]
  BY <1>1, <1>3, <1>4
<1>6. Blank(t)
  BY <1>1, <1>2, <1>3, <1>5 DEF Blank, Clean
<1> QED
  BY <1>3, <1>5, <1>6 DEF t

\* The target of an operation, cleared and with i+1 atoms.
LEMMA ZeroReallocClears ==
  ASSUME NEW z, Clean(z), NEW i \in Nat
  PROVE  /\ Blank(mpz_zero_realloc(z, i)) /\ Len(mpz_zero_realloc(z, i).d) > i
         /\ mpz_zero_realloc(z, i).s = z.s
<1> DEFINE t == mpz_realloc(z, i)
<1>1. Clean(t) /\ t.s = z.s /\ Len(t.d) > i
  BY ReallocKeeps
<1> HIDE DEF t
<1>2. Blank(mpz_zero(t)) /\ Len(mpz_zero(t).d) = Len(t.d) /\ mpz_zero(t).s = t.s
  BY <1>1, ZeroClears
<1>3. mpz_zero_realloc(z, i) = mpz_zero(t)
  BY DEF mpz_zero_realloc, t
<1> QED
  BY <1>1, <1>2, <1>3

\* A record as the operations write it.
LEMMA NumberRecord ==
  ASSUME NEW e \in Seq(Digit), NEW l \in Nat, NEW s \in {0, 1}
  PROVE  LET z == [d |-> e, l |-> l, s |-> s]
         IN  z \in [d : Seq(Digit), l : Nat, s : {0, 1}] /\ z.d = e /\ z.l = l /\ z.s = s
OBVIOUS

\* mpz_set() copies a number, whatever its target was.
LEMMA SetCopies ==
  ASSUME NEW z, Clean(z), NEW s, Clean(s)
  PROVE  LET t == mpz_set(z, s)
         IN  /\ Clean(t) /\ t.l = s.l /\ t.s = s.s /\ Len(t.d) > s.l
             /\ \A k \in 1 .. s.l : t.d[k] = s.d[k]
             /\ Size(t) = Size(s) /\ Value(t) = Value(s)
             /\ Normal(s) => Normal(t)
<1> DEFINE t == mpz_set(z, s)
           r == mpz_zero_realloc(z, s.l)
           a == Len(r.d)
           e == [k \in DOMAIN r.d |-> IF k <= s.l THEN s.d[k] ELSE r.d[k]]
           l == s.l
<1>1. /\ s.d \in Seq(Digit) /\ l \in Nat /\ s.s \in {0, 1}
      /\ l <= Len(s.d) /\ Len(s.d) \in Nat
      /\ \A k \in 1 .. l : s.d[k] \in Digit
  BY CleanType
<1>2. Blank(r) /\ a > l
  BY <1>1, ZeroReallocClears
<1>3. a \in Nat /\ DOMAIN r.d = 1 .. a /\ \A k \in 1 .. a : r.d[k] = 0
  <2> HIDE DEF r
  <2> QED
    BY <1>2, BlankIs, CleanType DEF Blank
<1>4. t = [d |-> e, l |-> l, s |-> s.s]
  BY DEF mpz_set
<1>5. \A k \in 1 .. a : e[k] = IF k <= l THEN s.d[k] ELSE 0
  BY <1>3
<1>6. e \in Seq(Digit) /\ Len(e) = a
  <2>1. 0 \in Digit
    BY BaseFacts DEF Digit
  <2>2. \A k \in 1 .. a : (IF k <= l THEN s.d[k] ELSE 0) \in Digit
    BY <1>1, <2>1
  <2>3. e \in [1 .. a -> Digit]
    BY <1>3, <1>5, <2>2
  <2> HIDE DEF e, a
  <2> QED
    BY <1>3, <2>3, FunctionSeq
<1> HIDE DEF e, t, a
<1>7. t.d = e /\ t.l = l /\ t.s = s.s /\ t \in [d : Seq(Digit), l : Nat, s : {0, 1}]
  BY <1>1, <1>4, <1>6, NumberRecord
<1>8. Clean(t)
  BY <1>1, <1>2, <1>3, <1>5, <1>6, <1>7 DEF Clean
<1>9. \A k \in 1 .. l : e[k] = s.d[k]
  BY <1>1, <1>2, <1>3, <1>5
<1>10. Size(t) = Size(s)
  <2> DEFINE c == s.d
  <2>1. \A k \in 1 .. l : c[k] \in Digit /\ e[k] = c[k]
    BY <1>1, <1>9
  <2> HIDE DEF c, l
  <2>2. Magnitude(e, l) = Magnitude(c, l)
    BY <1>1, <2>1, SameAtoms
  <2> QED
    BY <1>7, <2>2 DEF Size, c, l
<1>11. Value(t) = Value(s)
  <2>1. s.s = 0 \/ s.s = 1
    BY <1>1
  <2> QED
    BY <1>7, <1>8, <1>10, <2>1, ValueIs
<1>12. Normal(s) => Normal(t)
  <2>1. l > 0 => l \in 1 .. l
    BY <1>1
  <2> QED
    BY <1>7, <1>8, <1>9, <2>1 DEF Normal
<1>13. Len(t.d) > l
  BY <1>2, <1>6, <1>7
<1> QED
  BY <1>7, <1>8, <1>9, <1>10, <1>11, <1>12, <1>13 DEF t

\* A new number.
LEMMA InitIs == Normal(mpz_init) /\ mpz_init.s = 0 /\ mpz_init.l = 0 /\ Size(mpz_init) = 0
<1>1. << >> \in Seq(Digit) /\ Len(<< >>) = 0
  BY EmptySeq
<1>2. mpz_init \in [d : Seq(Digit), l : Nat, s : {0, 1}] /\ mpz_init.d = << >> /\ mpz_init.l = 0 /\ mpz_init.s = 0
  BY <1>1 DEF mpz_init
<1>3. Blank(mpz_init)
  BY <1>1, <1>2 DEF Blank, Clean
<1> QED
  BY <1>2, <1>3, BlankIs

\* An immediate is the number it is made of.
LEMMA ImmediateIs ==
  ASSUME NEW u \in Digit
  PROVE  Normal(u32tompz(u)) /\ u32tompz(u).s = 0 /\ Size(u32tompz(u)) = u
<1> DEFINE z == u32tompz(u)
<1>1. CASE u = 0
  BY <1>1, InitIs DEF u32tompz
<1>2. CASE u # 0
  <2> DEFINE e == <<u>>
  <2>1. e \in Seq(Digit) /\ Len(e) = 1 /\ e[1] = u
    OBVIOUS
  <2>2. z = [d |-> e, l |-> 1, s |-> 0]
    BY <1>2 DEF u32tompz
  <2> HIDE DEF e, z
  <2>3. z.d = e /\ z.l = 1 /\ z.s = 0 /\ z \in [d : Seq(Digit), l : Nat, s : {0, 1}]
    BY <2>1, <2>2, NumberRecord
  <2>4. Normal(z)
    <3>1. Clean(z)
      <4>1. Len(z.d) = 1 /\ z.l <= Len(z.d)
        BY <2>1, <2>3
      <4>2. \A k \in 1 .. Len(z.d) : ~(k > z.l)
        BY <2>3, <4>1
      <4> QED
        BY <2>3, <4>1, <4>2 DEF Clean
    <3>2. z.d[z.l] = u
      BY <2>1, <2>3
    <3> QED
      BY <1>2, <3>1, <3>2 DEF Normal
  <2>5. Size(z) = u
    <3> DEFINE f == Upper(z.d, z.l)
    <3>1. Horner(f, z.d, z.l) /\ Size(z) = f[1]
      BY <2>4, SizeIs DEF Normal
    <3> HIDE DEF f
    <3>2. f[1 + 1] = 0 /\ 1 \in 1 .. z.l
      BY <2>3, <3>1 DEF Horner
    <3>3. f[1] = u + MPZ_BASE * 0
      BY <2>1, <2>3, <3>1, <3>2 DEF Horner
    <3> QED
      BY <3>1, <3>3, BaseFacts DEF Digit
  <2> QED
    BY <2>3, <2>4, <2>5 DEF z
<1> QED
  BY <1>1, <1>2

\* mpz_set_ui() stores an immediate.
LEMMA SetUiIs ==
  ASSUME NEW z, Clean(z), NEW u \in Digit
  PROVE  /\ Normal(mpz_set_ui(z, u)) /\ mpz_set_ui(z, u).s = 0
         /\ Size(mpz_set_ui(z, u)) = u /\ Value(mpz_set_ui(z, u)) = u
<1> DEFINE w == u32tompz(u)
           t == mpz_set_ui(z, u)
<1>1. Normal(w) /\ w.s = 0 /\ Size(w) = u
  BY ImmediateIs
<1>2. t = mpz_set(z, w)
  BY DEF mpz_set_ui
<1> HIDE DEF w, t
<1>3. Normal(t) /\ t.s = w.s /\ Size(t) = Size(w)
  BY <1>1, <1>2, SetCopies DEF Normal
<1>4. Value(t) = Size(t)
  BY <1>1, <1>3, ValueIs DEF Normal
<1> QED
  BY <1>1, <1>3, <1>4 DEF t

\* mpz_setzero() is zero.
LEMMA SetZeroIs ==
  ASSUME NEW z, Clean(z)
  PROVE  Normal(mpz_setzero(z)) /\ mpz_setzero(z).s = 0 /\ Size(mpz_setzero(z)) = 0
<1> DEFINE r == mpz_zero_realloc(z, 0)
           t == mpz_setzero(z)
<1>1. Blank(r)
  BY ZeroReallocClears
<1>2. t = [r EXCEPT !.s = 0]
  BY DEF mpz_setzero
<1> HIDE DEF r, t
<1>3. t.d = r.d /\ t.l = r.l /\ t.s = 0 /\ t \in [d : Seq(Digit), l : Nat, s : {0, 1}]
  <2>1. r \in [d : Seq(Digit), l : Nat, s : {0, 1}]
    BY <1>1 DEF Blank, Clean
  <2> QED
    BY <1>2, <2>1
<1>4. Blank(t)
  BY <1>1, <1>3 DEF Blank, Clean
<1> QED
  BY <1>3, <1>4, BlankIs DEF t

-----------------------------------------------------------------------------
(* Addition.                                                               *)

\* Two atoms and a carry make an atom and a carry.
LEMMA OneCarry ==
  ASSUME NEW b \in Nat, b >= 2, NEW p \in 0 .. b - 1, NEW q \in 0 .. b - 1, NEW c \in {0, 1}
  PROVE  /\ (p + q + c) \div b \in {0, 1} /\ ((p + q + c) % b) \in 0 .. b - 1
         /\ ((p + q + c) % b) + b * ((p + q + c) \div b) = p + q + c
         /\ p + q + c > 0 /\ (p + q + c) \div b = 0 => (p + q + c) % b > 0
<1> DEFINE s == p + q + c
           h == s \div b
           r == s % b
<1>1. s \in Nat /\ s < 2 * b
  OBVIOUS
<1> HIDE DEF s
<1>2. h \in Nat /\ r \in 0 .. b - 1 /\ s = b * h + r
  BY <1>1
<1>3. h < 2
  <2>1. h >= 2 => b * h >= b * 2
    <3> HIDE DEF h, r
    <3>1. h >= 2 => h = 2 + (h - 2) /\ h - 2 \in Nat
      BY <1>2
    <3>2. b * (2 + (h - 2)) = b * 2 + b * (h - 2)
      BY <1>2
    <3>3. h >= 2 => b * (h - 2) \in Nat
      BY <3>1
    <3> QED
      BY <1>2, <3>1, <3>2, <3>3
  <2> DEFINE bh == b * h
  <2>2. bh \in Nat
    BY <1>2
  <2> HIDE DEF h, r, bh
  <2> QED
    BY <1>1, <1>2, <2>1, <2>2 DEF bh
<1> HIDE DEF h, r
<1>4. h \in {0, 1}
  BY <1>2, <1>3
<1>5. s > 0 /\ h = 0 => r > 0
  BY <1>1, <1>2
<1>6. r + b * h = s
  <2> DEFINE bh == b * h
  <2>1. bh \in Nat /\ s = bh + r
    BY <1>2
  <2> HIDE DEF bh
  <2>2. r + bh = s
    BY <1>2, <2>1
  <2> QED
    BY <2>2 DEF bh
<1> QED
  BY <1>2, <1>4, <1>5, <1>6 DEF s, h, r

\* A loop that adds atom by atom, e the sum and c[k] the carry out of atom k.
Adds(e, p, q, c, m) ==
  /\ c[0] = 0 /\ \A k \in 0 .. m : c[k] \in Nat
  /\ \A k \in 1 .. m :
        /\ p[k] \in Digit /\ q[k] \in Digit /\ e[k] \in Digit
        /\ e[k] + MPZ_BASE * c[k] = p[k] + q[k] + c[k - 1]
  /\ e[m + 1] = c[m] /\ e[m + 1] \in Digit

\* Such a loop adds the numbers.
LEMMA AddsUp ==
  ASSUME NEW m \in Nat, NEW e, NEW p, NEW q, NEW c, Adds(e, p, q, c, m)
  PROVE  Magnitude(e, m + 1) = Magnitude(p, m) + Magnitude(q, m)
<1> DEFINE B == MPZ_BASE
           h == Upper(e, m + 1)
           f == Upper(p, m)
           g == Upper(q, m)
           j == m + 1
           S == {k \in 1 .. j : h[k] = f[k] + g[k] + c[k - 1]}
<1>1. \A k \in 1 .. m + 1 : e[k] \in Digit
  <2>1. ASSUME NEW k \in 1 .. m + 1 PROVE e[k] \in Digit
    <3>1. k \in 1 .. m \/ k = m + 1
      OBVIOUS
    <3> QED
      BY <3>1 DEF Adds
  <2> QED
    BY <2>1
<1>2. /\ h \in [1 .. j + 1 -> Nat] /\ Horner(h, e, j) /\ Magnitude(e, m + 1) = h[1]
      /\ f \in [1 .. m + 1 -> Nat] /\ Horner(f, p, m) /\ Magnitude(p, m) = f[1]
      /\ g \in [1 .. m + 1 -> Nat] /\ Horner(g, q, m) /\ Magnitude(q, m) = g[1]
  <2>1. \A k \in 1 .. m : p[k] \in Digit /\ q[k] \in Digit
    BY DEF Adds
  <2>2. m + 1 \in Nat
    OBVIOUS
  <2> QED
    BY <1>1, <2>1, <2>2, MagnitudeIs
<1> HIDE DEF h, f, g
<1>3. j \in S /\ j \in Nat
  <2>1. j \in Nat /\ j \in 1 .. j /\ j - 1 = m
    OBVIOUS
  <2>2. h[j] = e[j] + MPZ_BASE * h[j + 1] /\ h[j + 1] = 0
    BY <1>2, <2>1 DEF Horner
  <2>3. e[j] = c[m] /\ c[m] \in Nat
    BY DEF Adds
  <2>4. f[j] = 0 /\ g[j] = 0
    BY <1>2 DEF Horner
  <2> HIDE DEF j
  <2>5. h[j] = f[j] + g[j] + c[j - 1]
    BY <2>1, <2>2, <2>3, <2>4, BaseFacts
  <2> QED
    BY <2>1, <2>5
<1>4. ASSUME NEW k \in 1 .. j - 1, k + 1 \in S PROVE k \in S
  <2>1. k \in 1 .. m /\ k \in 1 .. j /\ k + 1 \in 1 .. m + 1 /\ (k + 1) - 1 = k /\ k \in 0 .. m /\ k - 1 \in 0 .. m
    OBVIOUS
  <2> DEFINE u == f[k + 1]
             w == g[k + 1]
             v == c[k]
             i == c[k - 1]
  <2>2. u \in Nat /\ w \in Nat /\ v \in Nat /\ i \in Nat /\ B \in Nat
    BY <1>2, <2>1, BaseFacts DEF Adds
  <2>3. h[k + 1] = u + w + v
    BY <1>4, <2>1
  <2>4. h[k] = e[k] + B * (u + w + v) /\ f[k] = p[k] + B * u /\ g[k] = q[k] + B * w
    <3>1. k \in 1 .. j
      BY <2>1
    <3>2. h[k] = e[k] + B * h[k + 1] /\ f[k] = p[k] + B * u /\ g[k] = q[k] + B * w
      BY <1>2, <2>1 DEF Horner
    <3> QED
      BY <2>3, <3>2
  <2>5. e[k] + B * v = p[k] + q[k] + i /\ e[k] \in Nat /\ p[k] \in Nat /\ q[k] \in Nat
    <3>1. Digit \subseteq Nat
      BY BaseFacts DEF Digit
    <3> QED
      BY <2>1, <3>1 DEF Adds
  <2> HIDE DEF B, u, w, v, i
  <2>6. B * (u + w + v) = B * u + B * w + B * v
    BY <2>2
  <2> DEFINE bu == B * u
             bw == B * w
             bv == B * v
  <2>7. bu \in Nat /\ bw \in Nat /\ bv \in Nat
    BY <2>2
  <2>8. h[k] = e[k] + (bu + bw + bv) /\ f[k] = p[k] + bu /\ g[k] = q[k] + bw /\ e[k] + bv = p[k] + q[k] + i
    BY <2>4, <2>5, <2>6
  <2> HIDE DEF bu, bw, bv
  <2>9. h[k] = f[k] + g[k] + i
    <3> DEFINE pk == p[k]
               qk == q[k]
               ek == e[k]
    <3>1. ek \in Nat /\ pk \in Nat /\ qk \in Nat /\ i \in Nat /\ ek + bv = pk + qk + i
      BY <2>2, <2>5, <2>8
    <3>2. h[k] = ek + (bu + bw + bv) /\ f[k] = pk + bu /\ g[k] = qk + bw
      BY <2>8
    <3> HIDE DEF pk, qk, ek
    <3>3. ek + (bu + bw + bv) = (pk + bu) + (qk + bw) + i
      BY <2>7, <3>1
    <3> QED
      BY <3>2, <3>3
  <2> QED
    BY <2>1, <2>9 DEF i
<1>5. \A k \in 1 .. j : k \in S
  <2> HIDE DEF S, j
  <2> QED
    BY <1>3, <1>4, DownTo
<1>6. h[1] = f[1] + g[1]
  <2>1. 1 \in 1 .. j /\ 1 - 1 = 0
    OBVIOUS
  <2>2. h[1] = f[1] + g[1] + c[1 - 1]
    BY <1>5, <2>1
  <2>3. c[1 - 1] = 0 /\ f[1] \in Nat /\ g[1] \in Nat
    BY <1>2, <2>1 DEF Adds
  <2> QED
    BY <2>2, <2>3
<1> QED
  BY <1>2, <1>6

\* The carries of mpz_addi_raw().
Carries(c, p, q, m) ==
  c[0] = 0 /\ \A k \in 1 .. m : c[k] = (p[k] + q[k] + c[k - 1]) \div MPZ_BASE

\* Adding two numbers atom by atom leaves carries.
LEMMA CarriesExist ==
  ASSUME NEW m \in Nat, NEW p, NEW q, \A k \in 1 .. m : p[k] \in Digit /\ q[k] \in Digit
  PROVE  \E c \in [0 .. m -> Nat] : Carries(c, p, q, m)
<1> DEFINE V == Nat
           zero == 0
           B == MPZ_BASE
           step == [i \in 1 .. m |-> [v \in V |-> (p[i] + q[i] + v) \div B]]
<1>1. step \in [1 .. m -> [V -> V]]
  <2>1. ASSUME NEW i \in 1 .. m, NEW v \in V PROVE (p[i] + q[i] + v) \div B \in V
    <3>1. p[i] \in Nat /\ q[i] \in Nat /\ B \in Nat /\ B > 0
      BY BaseFacts DEF Digit
    <3> HIDE DEF B
    <3> QED
      BY <3>1
  <2> QED
    BY <2>1
<1>2. PICK c \in [0 .. m -> V] : Iterates(c, zero, m, step)
  <2>1. zero \in V
    OBVIOUS
  <2> HIDE DEF V, zero, step
  <2> QED
    BY <1>1, <2>1, Recursion
<1>3. c[0] = 0
  BY <1>2 DEF Iterates
<1>4. ASSUME NEW k \in 1 .. m PROVE c[k] = (p[k] + q[k] + c[k - 1]) \div B
  <2>1. k - 1 \in 0 .. m /\ c[k] = step[k][c[k - 1]]
    BY <1>2 DEF Iterates
  <2>2. c[k - 1] \in V
    BY <2>1
  <2> QED
    BY <2>1, <2>2
<1>5. Carries(c, p, q, m)
  BY <1>3, <1>4 DEF Carries
<1> QED
  BY <1>5

\* The longer of two numbers.
LEMMA LongerIs ==
  ASSUME NEW z, z.l \in Nat, NEW l \in Nat
  PROVE  LET m == LongerOf(z, l)
         IN  m \in Nat /\ m >= z.l /\ m >= l /\ (m = z.l \/ m = l)
<1> DEFINE S == {z.l, l}
           u == z.l + l
<1>1. u \in Nat /\ S \in SUBSET (0 .. u) /\ S # {}
  OBVIOUS
<1>2. Max(S) \in S /\ \A k \in S : k <= Max(S)
  <2> HIDE DEF S, u
  <2> QED
    BY <1>1, MaxIn
<1>3. LongerOf(z, l) = Max(S)
  BY DEF LongerOf
<1> QED
  BY <1>2, <1>3

\* The atoms of a number, padded with zeros, as the loops read them.
Padded(d, l, m) == [k \in 1 .. m |-> Atom(d, l, k)]

\* A number that is filled up with zero atoms keeps its magnitude.
LEMMA PaddedIs ==
  ASSUME NEW z, Clean(z), NEW m \in Nat, m >= z.l
  PROVE  /\ \A k \in 1 .. m : Padded(z.d, z.l, m)[k] = Atom(z.d, z.l, k)
         /\ \A k \in 1 .. m : Atom(z.d, z.l, k) \in Digit
         /\ Magnitude(Padded(z.d, z.l, m), m) = Size(z)
<1> DEFINE p == Padded(z.d, z.l, m)
           c == z.d
           l == z.l
<1>1. l \in Nat /\ \A k \in 1 .. l : c[k] \in Digit
  BY CleanType
<1>2. \A k \in 1 .. m : p[k] = Atom(c, l, k)
  BY DEF Padded
<1>3. \A k \in 1 .. l : p[k] = c[k]
  BY <1>1, <1>2 DEF Atom
<1>4. \A k \in l + 1 .. m : p[k] = 0
  BY <1>1, <1>2 DEF Atom
<1>5. ASSUME NEW k \in 1 .. m PROVE Atom(c, l, k) \in Digit
  <2>1. 0 \in Digit
    BY BaseFacts DEF Digit
  <2>2. k <= l => k \in 1 .. l
    BY <1>1
  <2> QED
    BY <1>1, <2>1, <2>2 DEF Atom
<1> HIDE DEF p, c, l
<1>6. l \in 0 .. m /\ \A k \in 1 .. m : p[k] \in Digit
  BY <1>1, <1>2, <1>5 DEF l
<1>7. Magnitude(p, m) = Magnitude(p, l)
  BY <1>4, <1>6, LeadingZeros
<1>8. Magnitude(p, l) = Magnitude(c, l)
  BY <1>1, <1>3, SameAtoms
<1> QED
  BY <1>2, <1>5, <1>7, <1>8 DEF Size, p, c, l

\* mpz_addi_raw() adds magnitudes: no carry is lost, and the result is normalized.
THEOREM AdditionExact ==
  ASSUME NEW z, Normal(z), NEW b, Normal(b)
  PROVE  LET t == AddSelf(z, b.d, b.l)
         IN  Normal(t) /\ Size(t) = Size(z) + Size(b) /\ t.s = z.s
<1> DEFINE m == LongerOf(z, b.l)
           t == mpz_realloc(z, m)
           B == MPZ_BASE
           p == Padded(b.d, b.l, m)
           q == t.d
           Eqn(f) == f = [k \in 0 .. m |->
                            IF k = 0 THEN 0 ELSE (Atom(b.d, b.l, k) + t.d[k] + f[k - 1]) \div MPZ_BASE]
           c == CHOOSE f : Eqn(f)
           e == [k \in DOMAIN t.d |->
                   IF k <= m THEN (Atom(b.d, b.l, k) + t.d[k] + c[k - 1]) % MPZ_BASE
                   ELSE IF k = m + 1 /\ c[m] > 0 THEN c[m]
                   ELSE t.d[k]]
           u == IF c[m] > 0 THEN m + 1 ELSE m
           r == AddSelf(z, b.d, b.l)
<1>1. Clean(z) /\ Clean(b)
  BY DEF Normal
<1>2. z.l \in Nat /\ b.l \in Nat /\ z.s \in {0, 1}
  BY <1>1, CleanType
<1>3. m \in Nat /\ m >= z.l /\ m >= b.l /\ (m = z.l \/ m = b.l)
  BY <1>2, LongerIs
<1>4. Clean(t) /\ Normal(t) /\ t.l = z.l /\ t.s = z.s /\ Len(t.d) > m /\ Size(t) = Size(z)
  BY <1>1, <1>3, ReallocKeeps
<1>5. r = [t EXCEPT !.d = e, !.l = u]
  BY DEF AddSelf
<1> HIDE DEF m, t
<1>6. /\ Len(q) \in Nat /\ DOMAIN q = 1 .. Len(q) /\ Len(q) >= m + 1
      /\ \A k \in 1 .. Len(q) : q[k] \in Digit /\ (k > z.l => q[k] = 0)
      /\ \A k \in 1 .. m : q[k] \in Digit
  <2>1. /\ Len(q) \in Nat /\ DOMAIN q = 1 .. Len(q)
        /\ \A k \in 1 .. Len(q) : q[k] \in Digit /\ (k > z.l => q[k] = 0)
    BY <1>4, CleanType
  <2> QED
    BY <1>3, <1>4, <2>1
<1>7. /\ \A k \in 1 .. m : p[k] = Atom(b.d, b.l, k)
      /\ \A k \in 1 .. m : p[k] \in Digit
      /\ Magnitude(p, m) = Size(b)
  BY <1>1, <1>3, PaddedIs
<1> HIDE DEF p
<1>8. Eqn(c)
  <2>1. PICK f \in [0 .. m -> Nat] : Carries(f, p, q, m)
    <3>1. \A k \in 1 .. m : p[k] \in Digit /\ q[k] \in Digit
      BY <1>6, <1>7
    <3> HIDE DEF q
    <3> QED
      BY <1>3, <3>1, CarriesExist
  <2>2. ASSUME NEW k \in 0 .. m
        PROVE  f[k] = IF k = 0 THEN 0 ELSE (Atom(b.d, b.l, k) + t.d[k] + f[k - 1]) \div MPZ_BASE
    <3>1. k # 0 => k \in 1 .. m
      BY <1>3
    <3> QED
      BY <1>7, <2>1, <3>1 DEF Carries
  <2>3. Eqn(f)
    BY <2>1, <2>2
  <2> HIDE DEF Eqn
  <2> QED
    BY <2>3
<1>9. /\ c[0] = 0
      /\ \A k \in 1 .. m : c[k] = (p[k] + q[k] + c[k - 1]) \div B
  <2>1. 0 \in 0 .. m /\ \A k \in 1 .. m : k \in 0 .. m /\ k # 0
    BY <1>3
  <2> HIDE DEF c
  <2> QED
    BY <1>7, <1>8, <2>1
<1>10. /\ \A k \in 1 .. m : e[k] = (p[k] + q[k] + c[k - 1]) % B
       /\ e[m + 1] = c[m] \/ (e[m + 1] = 0 /\ ~(c[m] > 0))
       /\ \A k \in m + 2 .. Len(q) : e[k] = 0
  <2> HIDE DEF c
  <2>1. \A k \in 1 .. m : k \in 1 .. Len(q) /\ k <= m
    BY <1>3, <1>6
  <2>2. \A k \in 1 .. m : e[k] = (p[k] + q[k] + c[k - 1]) % B
    BY <1>6, <1>7, <2>1
  <2>3. m + 1 \in 1 .. Len(q) /\ ~(m + 1 <= m) /\ m + 1 > z.l
    BY <1>2, <1>3, <1>6
  <2>4. e[m + 1] = IF c[m] > 0 THEN c[m] ELSE q[m + 1]
    BY <1>6, <2>3
  <2>5. q[m + 1] = 0
    BY <1>6, <2>3
  <2>6. ASSUME NEW k \in m + 2 .. Len(q) PROVE e[k] = 0
    <3>1. k \in 1 .. Len(q) /\ ~(k <= m) /\ k # m + 1 /\ k > z.l
      BY <1>2, <1>3, <1>6
    <3> QED
      BY <1>6, <3>1
  <2> QED
    BY <2>2, <2>4, <2>5, <2>6
<1>11. \A k \in 0 .. m : c[k] \in {0, 1}
  <2> HIDE DEF c
  <2> DEFINE S == {k \in Nat : c[k] \in {0, 1}}
  <2>1. 0 \in S
    BY <1>9
  <2>2. ASSUME NEW k \in 0 .. m - 1, k \in S PROVE k + 1 \in S
    <3>1. k + 1 \in 1 .. m /\ (k + 1) - 1 = k /\ k + 1 \in Nat
      BY <1>3
    <3>2. c[k + 1] = (p[k + 1] + q[k + 1] + c[k]) \div B
      BY <1>9, <3>1
    <3>3. p[k + 1] \in 0 .. B - 1 /\ q[k + 1] \in 0 .. B - 1 /\ c[k] \in {0, 1} /\ B \in Nat /\ B >= 2
      BY <1>6, <1>7, <2>2, <3>1, BaseFacts DEF Digit
    <3> DEFINE pk == p[k + 1]
               qk == q[k + 1]
               ck == c[k]
    <3>4. (pk + qk + ck) \div B \in {0, 1}
      <4> HIDE DEF pk, qk, ck, B
      <4> QED
        BY <3>3, OneCarry DEF pk, qk, ck
    <3> QED
      BY <3>1, <3>2, <3>4
  <2> HIDE DEF S
  <2>3. \A k \in 0 .. m : k \in S
    BY <1>3, <2>1, <2>2, UpTo
  <2> QED
    BY <2>3 DEF S
<1> HIDE DEF c, e, B
<1>12. ASSUME NEW k \in 1 .. m
       PROVE  /\ e[k] \in Digit /\ e[k] + B * c[k] = p[k] + q[k] + c[k - 1]
              /\ p[k] + q[k] + c[k - 1] > 0 /\ c[k] = 0 => e[k] > 0
  <2> DEFINE pk == p[k]
             qk == q[k]
             ck == c[k - 1]
  <2>1. k - 1 \in 0 .. m
    BY <1>3
  <2>2. pk \in 0 .. B - 1 /\ qk \in 0 .. B - 1 /\ ck \in {0, 1} /\ B \in Nat /\ B >= 2
    <3>1. ck \in {0, 1}
      BY <1>11, <2>1
    <3>2. pk \in Digit /\ qk \in Digit
      BY <1>6, <1>7
    <3> HIDE DEF pk, qk, ck
    <3> QED
      BY <3>1, <3>2, BaseFacts DEF Digit, B
  <2>3. c[k] = (pk + qk + ck) \div B /\ e[k] = (pk + qk + ck) % B
    BY <1>9, <1>10
  <2> HIDE DEF pk, qk, ck
  <2>4. /\ (pk + qk + ck) \div B \in {0, 1} /\ (pk + qk + ck) % B \in 0 .. B - 1
        /\ ((pk + qk + ck) % B) + B * ((pk + qk + ck) \div B) = pk + qk + ck
        /\ pk + qk + ck > 0 /\ (pk + qk + ck) \div B = 0 => (pk + qk + ck) % B > 0
    BY <2>2, OneCarry
  <2> QED
    BY <2>3, <2>4 DEF pk, qk, ck, Digit, B
<1>13. e[m + 1] = c[m] /\ e[m + 1] \in Digit
  <2>1. c[m] \in {0, 1}
    BY <1>3, <1>11
  <2>2. 0 \in Digit /\ 1 \in Digit
    BY BaseFacts DEF Digit
  <2> QED
    BY <1>10, <2>1, <2>2
<1>14. Magnitude(e, m + 1) = Size(z) + Size(b)
  <2>1. Adds(e, p, q, c, m)
    <3>1. \A k \in 0 .. m : c[k] \in Nat
      BY <1>11
    <3> QED
      BY <1>6, <1>7, <1>9, <1>12, <1>13, <3>1 DEF Adds, B
  <2>2. Magnitude(e, m + 1) = Magnitude(p, m) + Magnitude(q, m)
    <3> HIDE DEF q
    <3> QED
      BY <1>3, <2>1, AddsUp
  <2>3. Magnitude(q, m) = Size(t)
    <3>1. t.l \in 0 .. m /\ \A k \in t.l + 1 .. m : q[k] = 0
      BY <1>2, <1>3, <1>4, <1>6
    <3> DEFINE h == t.l
    <3>2. Magnitude(q, m) = Magnitude(q, h)
      <4> HIDE DEF q, h
      <4> QED
        BY <1>3, <1>6, <3>1, LeadingZeros DEF h
    <3> QED
      BY <3>2 DEF Size
  <2> QED
    BY <1>4, <1>7, <2>2, <2>3, <1>2, <1>1, SizeIs
<1>15. e \in Seq(Digit) /\ Len(e) = Len(q)
  <2>1. ASSUME NEW k \in 1 .. Len(q) PROVE e[k] \in Digit
    <3>1. k \in 1 .. m \/ k = m + 1 \/ k \in m + 2 .. Len(q)
      BY <1>3, <1>6
    <3>2. 0 \in Digit
      BY BaseFacts DEF Digit
    <3> QED
      BY <1>10, <1>12, <1>13, <3>1, <3>2
  <2> DEFINE a == Len(q)
  <2>2. e \in [1 .. a -> Digit] /\ a \in Nat
    <3>1. DOMAIN e = 1 .. a /\ e = [k \in 1 .. a |-> e[k]]
      BY <1>6 DEF e
    <3> QED
      BY <1>6, <2>1, <3>1
  <2> HIDE DEF a
  <2>3. e \in Seq(Digit) /\ Len(e) = a
    BY <2>2, FunctionSeq
  <2> QED
    BY <2>3 DEF a
<1>16. u \in Nat /\ ((u = m + 1 /\ c[m] = 1) \/ (u = m /\ c[m] = 0))
  <2>1. c[m] \in {0, 1}
    BY <1>3, <1>11
  <2>2. CASE c[m] = 0
    <3>1. u = m
      BY <2>2
    <3> QED
      BY <1>3, <2>2, <3>1
  <2>3. CASE c[m] = 1
    <3>1. u = m + 1
      BY <2>3
    <3> HIDE DEF u
    <3> QED
      BY <1>3, <2>3, <3>1
  <2> QED
    BY <2>1, <2>2, <2>3
<1> HIDE DEF u, r
<1>17. r.d = e /\ r.l = u /\ r.s = z.s /\ r \in [d : Seq(Digit), l : Nat, s : {0, 1}]
  <2>1. t \in [d : Seq(Digit), l : Nat, s : {0, 1}]
    BY <1>4 DEF Clean
  <2>2. r = [d |-> e, l |-> u, s |-> t.s]
    BY <1>5, <2>1
  <2> QED
    BY <1>2, <1>4, <1>15, <1>16, <2>2, NumberRecord
<1>18. Clean(r)
  <2>1. u <= Len(e)
    BY <1>3, <1>6, <1>15, <1>16
  <2>2. ASSUME NEW k \in 1 .. Len(e), k > u PROVE e[k] = 0
    <3>1. k \in m + 2 .. Len(q) \/ (k = m + 1 /\ c[m] = 0)
      BY <1>3, <1>6, <1>15, <1>16, <2>2
    <3> QED
      BY <1>10, <1>13, <3>1
  <2> QED
    BY <1>15, <1>17, <2>1, <2>2 DEF Clean
<1>19. u > 0 => e[u] # 0
  <2>1. CASE u = m + 1 /\ c[m] = 1
    BY <1>13, <2>1
  <2>2. CASE u = m /\ c[m] = 0
    <3>1. ASSUME m > 0 PROVE e[m] > 0
      <4>1. m \in 1 .. m /\ m - 1 \in 0 .. m
        BY <1>3, <3>1
      <4>2. p[m] \in Nat /\ q[m] \in Nat /\ c[m - 1] \in Nat
        <5>1. Digit \subseteq Nat
          BY BaseFacts DEF Digit
        <5>2. c[m - 1] \in {0, 1}
          BY <1>11, <4>1
        <5>3. c[m - 1] \in Nat
          BY <5>2
        <5>4. p[m] \in Digit /\ q[m] \in Digit
          BY <1>6, <1>7, <4>1
        <5> QED
          BY <5>1, <5>3, <5>4
      <4>3. p[m] # 0 \/ q[m] # 0
        <5>1. CASE m = z.l
          <6>1. t.d[t.l] # 0
            BY <1>4, <3>1, <5>1 DEF Normal
          <6> QED
            BY <1>4, <5>1, <6>1
        <5>2. CASE m = b.l
          <6>1. b.d[m] # 0
            BY <3>1, <5>2 DEF Normal
          <6>2. p[m] = Atom(b.d, b.l, m)
            BY <1>7, <4>1
          <6> QED
            BY <1>3, <5>2, <6>1, <6>2 DEF Atom
        <5> QED
          BY <1>3, <5>1, <5>2
      <4>4. p[m] + q[m] + c[m - 1] > 0
        <5> DEFINE pk == p[m]
                   qk == q[m]
                   ck == c[m - 1]
        <5>1. pk \in Nat /\ qk \in Nat /\ ck \in Nat /\ (pk # 0 \/ qk # 0)
          BY <4>2, <4>3
        <5> HIDE DEF pk, qk, ck
        <5>2. pk + qk + ck > 0
          BY <5>1
        <5> QED
          BY <5>2 DEF pk, qk, ck
      <4> QED
        BY <1>12, <2>2, <4>1, <4>4
    <3>2. u > 0 => e[m] > 0 /\ e[m] \in Nat
      <4>1. m > 0 => m \in 1 .. m
        BY <1>3
      <4>2. m > 0 => e[m] \in Digit
        BY <1>12, <4>1
      <4>3. Digit \subseteq Nat
        BY BaseFacts DEF Digit
      <4> QED
        BY <2>2, <3>1, <4>2, <4>3
    <3> QED
      BY <2>2, <3>2
  <2> QED
    BY <1>16, <2>1, <2>2
<1>20. Size(r) = Size(z) + Size(b)
  <2>1. CASE u = m + 1
    BY <1>14, <1>17, <2>1 DEF Size
  <2>2. CASE u = m /\ c[m] = 0
    <3> DEFINE j == m + 1
    <3>1. /\ j \in Nat /\ m \in 0 .. j /\ \A k \in m + 1 .. j : e[k] = 0
          /\ \A k \in 1 .. j : e[k] \in Digit
      <4>1. \A k \in m + 1 .. j : k = m + 1
        BY <1>3
      <4>2. \A k \in 1 .. j : k \in 1 .. m \/ k = m + 1
        BY <1>3
      <4> QED
        BY <1>3, <1>12, <1>13, <2>2, <4>1, <4>2
    <3>2. Magnitude(e, j) = Magnitude(e, m)
      <4> HIDE DEF j
      <4> QED
        BY <3>1, LeadingZeros DEF j
    <3> QED
      BY <1>14, <1>17, <2>2, <3>2 DEF Size
  <2> QED
    BY <1>16, <2>1, <2>2
<1> QED
  BY <1>17, <1>18, <1>19, <1>20 DEF Normal, r

-----------------------------------------------------------------------------
(* Subtraction.                                                            *)

\* Taking an atom and a borrow from an atom.
LEMMA OneBorrow ==
  ASSUME NEW b \in Nat, b >= 2, NEW p \in 0 .. b - 1, NEW q \in 0 .. b - 1, NEW c \in {0, 1}
  PROVE  /\ ((p - c - q) % b) \in 0 .. b - 1
         /\ ((p - c - q) % b) = p - c - q + b * (IF p - c - q < 0 THEN 1 ELSE 0)
<1> DEFINE s == p - c - q
           h == s \div b
           r == s % b
<1>1. s \in Int /\ s < b /\ s >= -b
  OBVIOUS
<1> HIDE DEF s
<1>2. h \in Int /\ r \in 0 .. b - 1 /\ s = b * h + r
  BY <1>1
<1>3. h = IF s < 0 THEN -1 ELSE 0
  <2> HIDE DEF h, r
  <2>1. h >= 1 => b * h >= b
    <3>1. h >= 1 => h - 1 \in Nat /\ h = (h - 1) + 1
      BY <1>2
    <3>2. b * ((h - 1) + 1) = b * (h - 1) + b
      BY <1>2
    <3>3. h >= 1 => b * (h - 1) \in Nat
      BY <3>1
    <3> QED
      BY <1>2, <3>1, <3>2, <3>3
  <2>2. h <= -2 => b * h <= -2 * b
    <3>1. h <= -2 => -2 - h \in Nat /\ h = -2 - (-2 - h)
      BY <1>2
    <3>2. b * (-2 - (-2 - h)) = -2 * b - b * (-2 - h)
      BY <1>2
    <3>3. h <= -2 => b * (-2 - h) \in Nat
      BY <3>1
    <3> QED
      BY <1>2, <3>1, <3>2, <3>3
  <2>3. b * 0 = 0 /\ b * (-1) = -b
    OBVIOUS
  <2> DEFINE bh == b * h
  <2>4. bh \in Int
    BY <1>2
  <2>5. (h >= 1 => bh >= b) /\ (h <= -2 => bh <= -2 * b) /\ (h = 0 => bh = 0) /\ (h = -1 => bh = -b)
    BY <2>1, <2>2, <2>3
  <2> HIDE DEF bh
  <2>6. s = bh + r
    BY <1>2 DEF bh
  <2>7. h = 0 \/ h = -1
    BY <1>1, <1>2, <2>4, <2>5, <2>6
  <2> QED
    BY <1>1, <1>2, <2>4, <2>5, <2>6, <2>7
<1>4. r = s + b * (IF s < 0 THEN 1 ELSE 0)
  <2> HIDE DEF h, r
  <2>1. CASE s < 0
    <3>1. s = b * (-1) + r /\ b * (-1) = -b /\ b * 1 = b
      BY <1>2, <1>3, <2>1
    <3> QED
      BY <1>1, <1>2, <2>1, <3>1
  <2>2. CASE ~(s < 0)
    <3>1. s = b * 0 + r /\ b * 0 = 0
      BY <1>2, <1>3, <2>2
    <3> QED
      BY <1>1, <1>2, <2>2, <3>1
  <2> QED
    BY <2>1, <2>2
<1> QED
  BY <1>2, <1>4 DEF s, r

\* A loop that subtracts atom by atom, e the difference and c[k] the borrow out of atom k.
Subtracts(e, p, q, c, m) ==
  /\ c[0] = 0 /\ \A k \in 0 .. m : c[k] \in {0, 1}
  /\ \A k \in 1 .. m :
        /\ p[k] \in Digit /\ q[k] \in Digit /\ e[k] \in Digit
        /\ e[k] = p[k] - c[k - 1] - q[k] + MPZ_BASE * c[k]

\* What the suffixes of the three numbers are.
LEMMA SubtractsParts ==
  ASSUME NEW m \in Nat, NEW e, NEW p, NEW q, NEW c, Subtracts(e, p, q, c, m)
  PROVE  /\ Upper(e, m) \in [1 .. m + 1 -> Nat] /\ Horner(Upper(e, m), e, m) /\ Magnitude(e, m) = Upper(e, m)[1]
         /\ Upper(p, m) \in [1 .. m + 1 -> Nat] /\ Horner(Upper(p, m), p, m) /\ Magnitude(p, m) = Upper(p, m)[1]
         /\ Upper(q, m) \in [1 .. m + 1 -> Nat] /\ Horner(Upper(q, m), q, m) /\ Magnitude(q, m) = Upper(q, m)[1]
<1>1. \A k \in 1 .. m : p[k] \in Digit /\ q[k] \in Digit /\ e[k] \in Digit
  BY DEF Subtracts
<1> QED
  BY <1>1, MagnitudeIs

\* A borrow out of the last atom means that the subtrahend was the greater.
LEMMA LastBorrow ==
  ASSUME NEW m \in Nat, NEW e, NEW p, NEW q, NEW c, Subtracts(e, p, q, c, m), c[m] = 1
  PROVE  Magnitude(p, m) < Magnitude(q, m)
<1> DEFINE B == MPZ_BASE
           f == Upper(p, m)
           g == Upper(q, m)
           j == m + 1
           S == {k \in 1 .. j : f[k] < g[k] + c[k - 1]}
<1>1. /\ f \in [1 .. m + 1 -> Nat] /\ Horner(f, p, m) /\ Magnitude(p, m) = f[1]
      /\ g \in [1 .. m + 1 -> Nat] /\ Horner(g, q, m) /\ Magnitude(q, m) = g[1]
  BY SubtractsParts
<1> HIDE DEF f, g
<1>2. j \in S /\ j \in Nat
  <2>1. j \in Nat /\ j \in 1 .. j /\ j - 1 = m
    OBVIOUS
  <2>2. f[j] = 0 /\ g[j] = 0
    BY <1>1 DEF Horner
  <2> HIDE DEF j
  <2>3. f[j] < g[j] + c[j - 1]
    BY <2>1, <2>2
  <2> QED
    BY <2>1, <2>3
<1>3. ASSUME NEW k \in 1 .. j - 1, k + 1 \in S PROVE k \in S
  <2>1. k \in 1 .. m /\ k \in 1 .. j /\ k + 1 \in 1 .. m + 1 /\ (k + 1) - 1 = k /\ k \in 0 .. m /\ k - 1 \in 0 .. m
    OBVIOUS
  <2> DEFINE u == f[k + 1]
             w == g[k + 1]
             v == c[k]
             i == c[k - 1]
             pk == p[k]
             qk == q[k]
             ek == e[k]
  <2>2. u \in Nat /\ w \in Nat /\ v \in {0, 1} /\ i \in {0, 1} /\ B \in Nat /\ B >= 2
    BY <1>1, <2>1, BaseFacts DEF Subtracts
  <2>3. u < w + v
    BY <1>3, <2>1
  <2>4. f[k] = pk + B * u /\ g[k] = qk + B * w
    BY <1>1, <2>1 DEF Horner
  <2>5. pk \in 0 .. B - 1 /\ qk \in 0 .. B - 1 /\ ek \in 0 .. B - 1 /\ ek = pk - i - qk + B * v
    BY <2>1 DEF Subtracts, Digit
  <2> DEFINE bu == B * u
             bw == B * w
  <2>6. bu \in Nat /\ bw \in Nat
    BY <2>2
  <2> HIDE DEF B, u, w, v, i, pk, qk, ek
  <2>7. CASE v = 0
    <3>1. bw >= bu + B
      <4>1. w - u - 1 \in Nat /\ w = u + 1 + (w - u - 1)
        BY <2>2, <2>3, <2>7
      <4>2. B * (u + 1 + (w - u - 1)) = B * u + B + B * (w - u - 1)
        BY <2>2, <4>1
      <4>3. B * (w - u - 1) \in Nat
        BY <2>2, <4>1
      <4>4. B * w = B * u + B + B * (w - u - 1) /\ B * w \in Nat /\ B * u \in Nat
        BY <2>2, <4>1, <4>2
      <4> QED
        BY <2>2, <4>3, <4>4
    <3> HIDE DEF bu, bw
    <3>2. pk + bu < qk + bw + i
      BY <2>2, <2>5, <2>6, <3>1
    <3> QED
      BY <2>1, <2>4, <3>2 DEF bu, bw, i
  <2>8. CASE v = 1
    <3>1. bw >= bu
      <4>1. w - u \in Nat /\ w = u + (w - u)
        BY <2>2, <2>3, <2>8
      <4>2. B * (u + (w - u)) = B * u + B * (w - u)
        BY <2>2, <4>1
      <4>3. B * (w - u) \in Nat
        BY <2>2, <4>1
      <4>4. B * w = B * u + B * (w - u) /\ B * w \in Nat /\ B * u \in Nat
        BY <2>2, <4>1, <4>2
      <4> QED
        BY <2>2, <4>3, <4>4
    <3>2. ek = pk - i - qk + B
      <4>1. B * 1 = B
        BY <2>2
      <4> QED
        BY <2>5, <2>8, <4>1
    <3> HIDE DEF bu, bw
    <3>3. pk + bu < qk + bw + i
      BY <2>2, <2>5, <2>6, <3>1, <3>2
    <3> QED
      BY <2>1, <2>4, <3>3 DEF bu, bw, i
  <2> QED
    BY <2>2, <2>7, <2>8
<1>4. \A k \in 1 .. j : k \in S
  <2> HIDE DEF S, j
  <2> QED
    BY <1>2, <1>3, DownTo
<1>5. f[1] < g[1]
  <2>1. 1 \in 1 .. j /\ 1 - 1 = 0
    OBVIOUS
  <2>2. f[1] < g[1] + c[1 - 1]
    BY <1>4, <2>1
  <2>3. c[1 - 1] = 0 /\ f[1] \in Nat /\ g[1] \in Nat
    BY <1>1, <2>1 DEF Subtracts
  <2> QED
    BY <2>2, <2>3
<1> QED
  BY <1>1, <1>5

\* The loop computes the difference of numbers that have one.
LEMMA SubtractsDown ==
  ASSUME NEW m \in Nat, NEW e, NEW p, NEW q, NEW c, Subtracts(e, p, q, c, m),
         Magnitude(p, m) >= Magnitude(q, m)
  PROVE  Magnitude(e, m) = Magnitude(p, m) - Magnitude(q, m)
<1> DEFINE B == MPZ_BASE
           h == Upper(e, m)
           f == Upper(p, m)
           g == Upper(q, m)
           j == m + 1
           S == {k \in 1 .. j : f[k] = h[k] + g[k] + c[k - 1]}
<1>1. /\ h \in [1 .. m + 1 -> Nat] /\ Horner(h, e, m) /\ Magnitude(e, m) = h[1]
      /\ f \in [1 .. m + 1 -> Nat] /\ Horner(f, p, m) /\ Magnitude(p, m) = f[1]
      /\ g \in [1 .. m + 1 -> Nat] /\ Horner(g, q, m) /\ Magnitude(q, m) = g[1]
  BY SubtractsParts
<1>2. 1 \in 1 .. m + 1
  OBVIOUS
<1>3. f[1] \in Nat /\ g[1] \in Nat /\ h[1] \in Nat
  BY <1>1, <1>2
<1>4. c[m] = 0
  <2>1. c[m] # 1
    <3>1. ~(Magnitude(p, m) < Magnitude(q, m))
      <4> HIDE DEF f, g
      <4> QED
        BY <1>1, <1>3
    <3> QED
      BY <3>1, LastBorrow
  <2>2. c[m] \in {0, 1}
    BY DEF Subtracts
  <2> QED
    BY <2>1, <2>2
<1> HIDE DEF h, f, g
<1>5. j \in S /\ j \in Nat
  <2>1. j \in Nat /\ j \in 1 .. j /\ j - 1 = m
    OBVIOUS
  <2>2. f[j] = 0 /\ g[j] = 0 /\ h[j] = 0
    BY <1>1 DEF Horner
  <2> HIDE DEF j
  <2>3. f[j] = h[j] + g[j] + c[j - 1]
    BY <1>4, <2>1, <2>2
  <2> QED
    BY <2>1, <2>3
<1>6. ASSUME NEW k \in 1 .. j - 1, k + 1 \in S PROVE k \in S
  <2>1. k \in 1 .. m /\ k \in 1 .. j /\ k + 1 \in 1 .. m + 1 /\ (k + 1) - 1 = k /\ k \in 0 .. m /\ k - 1 \in 0 .. m
    OBVIOUS
  <2> DEFINE u == h[k + 1]
             w == g[k + 1]
             v == c[k]
             i == c[k - 1]
             pk == p[k]
             qk == q[k]
             ek == e[k]
  <2>2. u \in Nat /\ w \in Nat /\ v \in Nat /\ i \in Nat /\ B \in Nat
    <3>1. v \in {0, 1} /\ i \in {0, 1}
      BY <2>1 DEF Subtracts
    <3>2. v \in Nat /\ i \in Nat
      <4> HIDE DEF v, i
      <4> QED
        BY <3>1
    <3>3. u \in Nat /\ w \in Nat
      BY <1>1, <2>1
    <3> QED
      BY <3>2, <3>3, BaseFacts
  <2>3. f[k + 1] = u + w + v
    BY <1>6, <2>1
  <2>4. f[k] = pk + B * (u + w + v) /\ g[k] = qk + B * w /\ h[k] = ek + B * u
    <3>1. f[k] = pk + B * f[k + 1] /\ g[k] = qk + B * w /\ h[k] = ek + B * u
      BY <1>1, <2>1 DEF Horner
    <3> QED
      BY <2>3, <3>1
  <2>5. pk \in Nat /\ qk \in Nat /\ ek \in Nat /\ ek = pk - i - qk + B * v
    <3>1. Digit \subseteq Nat
      BY BaseFacts DEF Digit
    <3> QED
      BY <2>1, <3>1 DEF Subtracts
  <2> HIDE DEF B, u, w, v, i, pk, qk, ek
  <2>6. B * (u + w + v) = B * u + B * w + B * v
    BY <2>2
  <2> DEFINE bu == B * u
             bw == B * w
             bv == B * v
  <2>7. bu \in Nat /\ bw \in Nat /\ bv \in Nat
    BY <2>2
  <2>8. f[k] = pk + (bu + bw + bv) /\ g[k] = qk + bw /\ h[k] = ek + bu /\ ek = pk - i - qk + bv
    BY <2>4, <2>5, <2>6
  <2> HIDE DEF bu, bw, bv
  <2>9. pk + (bu + bw + bv) = (ek + bu) + (qk + bw) + i
    BY <2>2, <2>5, <2>7, <2>8
  <2> QED
    BY <2>1, <2>8, <2>9 DEF i
<1>7. \A k \in 1 .. j : k \in S
  <2> HIDE DEF S, j
  <2> QED
    BY <1>5, <1>6, DownTo
<1>8. f[1] = h[1] + g[1]
  <2>1. 1 \in 1 .. j /\ 1 - 1 = 0
    OBVIOUS
  <2>2. f[1] = h[1] + g[1] + c[1 - 1]
    BY <1>7, <2>1
  <2>3. c[1 - 1] = 0
    BY <2>1 DEF Subtracts
  <2> QED
    BY <1>3, <2>2, <2>3
<1> QED
  BY <1>1, <1>3, <1>8

\* The storage and the length of a number are replaced.
LEMMA NumberUpdate ==
  ASSUME NEW z \in [d : Seq(Digit), l : Nat, s : {0, 1}], NEW e, NEW l, NEW w,
         w = [z EXCEPT !.d = e, !.l = l]
  PROVE  w = [d |-> e, l |-> l, s |-> z.s]
OBVIOUS

\* The borrows of mpz_subi_raw().
Borrows(c, p, q, m) ==
  c[0] = 0 /\ \A k \in 1 .. m : c[k] = IF p[k] - c[k - 1] - q[k] < 0 THEN 1 ELSE 0

\* Subtracting atom by atom leaves borrows.
LEMMA BorrowsExist ==
  ASSUME NEW m \in Nat, NEW p, NEW q
  PROVE  \E c \in [0 .. m -> {0, 1}] : Borrows(c, p, q, m)
<1> DEFINE V == {0, 1}
           zero == 0
           step == [i \in 1 .. m |-> [v \in V |-> IF p[i] - v - q[i] < 0 THEN 1 ELSE 0]]
<1>1. step \in [1 .. m -> [V -> V]]
  OBVIOUS
<1>2. PICK c \in [0 .. m -> V] : Iterates(c, zero, m, step)
  <2>1. zero \in V
    OBVIOUS
  <2> HIDE DEF V, zero, step
  <2> QED
    BY <1>1, <2>1, Recursion
<1>3. c[0] = 0
  BY <1>2 DEF Iterates
<1>4. ASSUME NEW k \in 1 .. m PROVE c[k] = IF p[k] - c[k - 1] - q[k] < 0 THEN 1 ELSE 0
  <2>1. k - 1 \in 0 .. m /\ c[k] = step[k][c[k - 1]]
    BY <1>2 DEF Iterates
  <2>2. c[k - 1] \in V
    BY <2>1
  <2> QED
    BY <2>1, <2>2
<1>5. Borrows(c, p, q, m)
  BY <1>3, <1>4 DEF Borrows
<1> QED
  BY <1>5

\* Borrow() is such a function.
LEMMA BorrowIs ==
  ASSUME NEW z, z.l \in Nat, NEW d, NEW l
  PROVE  /\ Borrow(z, d, l) \in [0 .. z.l -> {0, 1}]
         /\ Borrow(z, d, l)[0] = 0
         /\ \A k \in 1 .. z.l : Borrow(z, d, l)[k] =
              IF z.d[k] - Borrow(z, d, l)[k - 1] - Atom(d, l, k) < 0 THEN 1 ELSE 0
<1> DEFINE m == z.l
           p == z.d
           q == [k \in 1 .. m |-> Atom(d, l, k)]
           Eqn(h) == h = [k \in 0 .. z.l |->
                            IF k = 0 THEN 0
                            ELSE IF z.d[k] - h[k - 1] - Atom(d, l, k) < 0 THEN 1 ELSE 0]
           c == CHOOSE h : Eqn(h)
<1>1. Borrow(z, d, l) = c
  BY DEF Borrow
<1>2. PICK f \in [0 .. m -> {0, 1}] : Borrows(f, p, q, m)
  <2> HIDE DEF m, p, q
  <2> QED
    BY BorrowsExist DEF m
<1>3. ASSUME NEW k \in 0 .. m
      PROVE  f[k] = IF k = 0 THEN 0
                    ELSE IF z.d[k] - f[k - 1] - Atom(d, l, k) < 0 THEN 1 ELSE 0
  <2>1. CASE k = 0
    BY <1>2, <2>1 DEF Borrows
  <2>2. CASE k # 0
    <3>1. k \in 1 .. m
      BY <2>2
    <3>2. f[k] = IF p[k] - f[k - 1] - q[k] < 0 THEN 1 ELSE 0
      BY <1>2, <3>1 DEF Borrows
    <3>3. q[k] = Atom(d, l, k)
      BY <3>1
    <3> QED
      BY <2>2, <3>2, <3>3
  <2> QED
    BY <2>1, <2>2
<1>4. Eqn(f)
  BY <1>3
<1>5. Eqn(c)
  <2> HIDE DEF Eqn
  <2> QED
    BY <1>4
<1> HIDE DEF c
<1>6. \A k \in 0 .. m : c[k] \in {0, 1}
  BY <1>5
<1>7. c \in [0 .. m -> {0, 1}]
  BY <1>5, <1>6
<1>8. c[0] = 0
  <2>1. 0 \in 0 .. m
    OBVIOUS
  <2> QED
    BY <1>5, <2>1
<1>9. \A k \in 1 .. m : c[k] = IF z.d[k] - c[k - 1] - Atom(d, l, k) < 0 THEN 1 ELSE 0
  <2>1. \A k \in 1 .. m : k \in 0 .. m /\ k # 0
    OBVIOUS
  <2> QED
    BY <1>5, <2>1
<1> QED
  BY <1>1, <1>7, <1>8, <1>9

\* mpz_subi_raw() subtracts magnitudes of which the first is not smaller: no borrow is lost,
\* and the result is normalized.
THEOREM SubtractionExact ==
  ASSUME NEW r, Clean(r), NEW z, Clean(z), r.l = z.l, NEW b, Normal(b), Size(b) <= Size(z)
  PROVE  LET t == Subtract(r, z, b.d, b.l)
         IN  /\ Normal(t) /\ Size(t) = Size(z) - Size(b) /\ Len(t.d) = Len(r.d)
             /\ t.s = IF r.d # << >> /\ Size(t) = 0 THEN 0 ELSE r.s
<1> DEFINE m == z.l
           B == MPZ_BASE
           p == z.d
           q == Padded(b.d, b.l, m)
           c == Borrow(z, b.d, b.l)
           e == [k \in DOMAIN r.d |->
                   IF k <= z.l THEN (z.d[k] - c[k - 1] - Atom(b.d, b.l, k)) % MPZ_BASE
                   ELSE r.d[k]]
           w == [r EXCEPT !.d = e, !.l = z.l]
<1>1. Clean(b)
  BY DEF Normal
<1>2. /\ m \in Nat /\ \A k \in 1 .. m : p[k] \in Digit
      /\ b.l \in Nat /\ r.s \in {0, 1} /\ Size(b) \in Nat /\ Size(z) \in Nat
      /\ Len(r.d) \in Nat /\ DOMAIN r.d = 1 .. Len(r.d) /\ m <= Len(r.d)
      /\ \A k \in 1 .. Len(r.d) : r.d[k] \in Digit /\ (k > m => r.d[k] = 0)
  BY <1>1, CleanType, SizeIs
<1>3. b.l <= m
  <2>1. ~(b.l > z.l)
    <3>1. ~(Size(b) > Size(z))
      BY <1>2
    <3> QED
      BY <3>1, LongerIsGreater
  <2> QED
    BY <1>2, <2>1
<1>4. /\ \A k \in 1 .. m : q[k] = Atom(b.d, b.l, k)
      /\ \A k \in 1 .. m : q[k] \in Digit
      /\ Magnitude(q, m) = Size(b)
  BY <1>1, <1>2, <1>3, PaddedIs
<1>5. /\ c \in [0 .. m -> {0, 1}] /\ c[0] = 0
      /\ \A k \in 1 .. m : c[k] = IF p[k] - c[k - 1] - q[k] < 0 THEN 1 ELSE 0
  <2>1. /\ c \in [0 .. m -> {0, 1}] /\ c[0] = 0
        /\ \A k \in 1 .. m : c[k] = IF p[k] - c[k - 1] - Atom(b.d, b.l, k) < 0 THEN 1 ELSE 0
    BY <1>2, BorrowIs
  <2> HIDE DEF c, q
  <2> QED
    BY <1>4, <2>1
<1>6. Subtract(r, z, b.d, b.l) = mpz_normalize(w)
  BY DEF Subtract
<1> HIDE DEF c, q
<1>7. /\ \A k \in 1 .. m : e[k] = (p[k] - c[k - 1] - q[k]) % B
      /\ \A k \in m + 1 .. Len(r.d) : e[k] = 0
  <2>1. \A k \in 1 .. m : k \in 1 .. Len(r.d) /\ k <= m
    BY <1>2
  <2>2. \A k \in m + 1 .. Len(r.d) : k \in 1 .. Len(r.d) /\ ~(k <= m) /\ k > m
    BY <1>2
  <2> QED
    BY <1>2, <1>4, <2>1, <2>2
<1> HIDE DEF e, B
<1>8. ASSUME NEW k \in 1 .. m
      PROVE  e[k] \in Digit /\ e[k] = p[k] - c[k - 1] - q[k] + B * c[k]
  <2> DEFINE pk == p[k]
             qk == q[k]
             ck == c[k - 1]
  <2>1. ck \in {0, 1}
    <3>1. k - 1 \in 0 .. m
      BY <1>2
    <3> QED
      BY <1>5, <3>1
  <2>2. pk \in 0 .. B - 1 /\ qk \in 0 .. B - 1 /\ B \in Nat /\ B >= 2
    BY <1>2, <1>4, BaseFacts DEF Digit, B
  <2>3. e[k] = (pk - ck - qk) % B /\ c[k] = IF pk - ck - qk < 0 THEN 1 ELSE 0
    BY <1>5, <1>7
  <2> HIDE DEF pk, qk, ck
  <2>4. /\ ((pk - ck - qk) % B) \in 0 .. B - 1
        /\ ((pk - ck - qk) % B) = pk - ck - qk + B * (IF pk - ck - qk < 0 THEN 1 ELSE 0)
    BY <2>1, <2>2, OneBorrow
  <2> QED
    BY <2>3, <2>4 DEF pk, qk, ck, Digit, B
<1>9. Magnitude(e, m) = Size(z) - Size(b)
  <2>1. Subtracts(e, p, q, c, m)
    <3>1. \A k \in 0 .. m : c[k] \in {0, 1}
      BY <1>5
    <3> QED
      BY <1>2, <1>4, <1>5, <1>8, <3>1 DEF Subtracts, B
  <2>2. Magnitude(p, m) = Size(z) /\ Magnitude(p, m) >= Magnitude(q, m)
    BY <1>2, <1>4 DEF Size
  <2>3. Magnitude(e, m) = Magnitude(p, m) - Magnitude(q, m)
    <3> HIDE DEF p, m
    <3> QED
      BY <1>2, <2>1, <2>2, SubtractsDown
  <2> QED
    BY <1>4, <2>2, <2>3
<1>10. e \in Seq(Digit) /\ Len(e) = Len(r.d)
  <2> DEFINE a == Len(r.d)
  <2>1. ASSUME NEW k \in 1 .. a PROVE e[k] \in Digit
    <3>1. k \in 1 .. m \/ k \in m + 1 .. a
      BY <1>2
    <3>2. 0 \in Digit
      BY BaseFacts DEF Digit
    <3> QED
      BY <1>7, <1>8, <3>1, <3>2
  <2>2. e \in [1 .. a -> Digit] /\ a \in Nat
    <3>1. DOMAIN e = 1 .. a /\ e = [k \in 1 .. a |-> e[k]]
      BY <1>2 DEF e
    <3> QED
      BY <1>2, <2>1, <3>1
  <2> HIDE DEF a
  <2>3. e \in Seq(Digit) /\ Len(e) = a
    BY <2>2, FunctionSeq
  <2> QED
    BY <2>3 DEF a
<1>11. w.d = e /\ w.l = m /\ w.s = r.s /\ w \in [d : Seq(Digit), l : Nat, s : {0, 1}]
  <2>1. r \in [d : Seq(Digit), l : Nat, s : {0, 1}]
    BY DEF Clean
  <2>2. w = [d |-> e, l |-> m, s |-> r.s]
    <3>1. w = [r EXCEPT !.d = e, !.l = m]
      OBVIOUS
    <3> HIDE DEF w, m
    <3> QED
      BY <2>1, <3>1, NumberUpdate
  <2> HIDE DEF w, m
  <2> QED
    BY <1>2, <1>10, <2>2, NumberRecord
<1> HIDE DEF w
<1>12. Clean(w)
  <2>1. ASSUME NEW k \in 1 .. Len(e), k > m PROVE e[k] = 0
    <3>1. k \in m + 1 .. Len(r.d)
      BY <1>2, <1>10, <2>1
    <3> QED
      BY <1>7, <3>1
  <2> QED
    BY <1>2, <1>10, <1>11, <2>1 DEF Clean
<1>13. Size(w) = Size(z) - Size(b)
  BY <1>9, <1>11 DEF Size
<1> DEFINE t == mpz_normalize(w)
<1>14. /\ Normal(t) /\ Size(t) = Size(w) /\ Len(t.d) = Len(w.d)
       /\ t.s = IF w.d # << >> /\ Size(w) = 0 THEN 0 ELSE w.s
  BY <1>12, NormalizeClean
<1>15. w.d # << >> <=> r.d # << >>
  <2>1. r.d \in Seq(Digit) /\ e \in Seq(Digit) /\ Len(e) = Len(r.d)
    BY <1>10, CleanType
  <2>2. (e = << >> <=> Len(e) = 0) /\ (r.d = << >> <=> Len(r.d) = 0)
    BY <2>1, EmptySeq
  <2> QED
    BY <1>11, <2>1, <2>2
<1> HIDE DEF t
<1> QED
  BY <1>6, <1>10, <1>11, <1>13, <1>14, <1>15 DEF t

-----------------------------------------------------------------------------
(* Sums and differences of numbers with signs.                             *)

\* Another sign for a number.
LEMMA SignUpdate ==
  ASSUME NEW z, Normal(z), NEW s \in {0, 1}, NEW w, w = [z EXCEPT !.s = s]
  PROVE  /\ Normal(w) /\ Size(w) = Size(z) /\ w.s = s /\ w.l = z.l /\ w.d = z.d
         /\ Value(w) = IF s = 1 THEN -Size(z) ELSE Size(z)
<1>1. z \in [d : Seq(Digit), l : Nat, s : {0, 1}] /\ Clean(z)
  BY DEF Normal, Clean
<1>2. w.d = z.d /\ w.l = z.l /\ w.s = s /\ w \in [d : Seq(Digit), l : Nat, s : {0, 1}]
  BY <1>1
<1>3. Clean(w)
  BY <1>1, <1>2 DEF Clean
<1>4. Normal(w) /\ Size(w) = Size(z)
  BY <1>2, <1>3 DEF Normal, Size
<1>5. s = 0 \/ s = 1
  OBVIOUS
<1> QED
  BY <1>2, <1>3, <1>4, <1>5, ValueIs

\* Negative() leaves zero alone.
LEMMA NegativeIs ==
  ASSUME NEW z, Normal(z)
  PROVE  Normal(Negative(z)) /\ Value(Negative(z)) = -Size(z)
<1> DEFINE s == IF z.l = 0 THEN 0 ELSE 1
           w == Negative(z)
<1>1. s \in {0, 1} /\ w = [z EXCEPT !.s = s]
  BY DEF Negative
<1> HIDE DEF w, s
<1>2. Normal(w) /\ Value(w) = IF s = 1 THEN -Size(z) ELSE Size(z)
  BY <1>1, SignUpdate
<1>3. z.l = 0 <=> Size(z) = 0
  BY ZeroSize
<1>4. Size(z) \in Nat
  BY SizeIs DEF Normal
<1>5. CASE z.l = 0
  <2>1. s = 0 /\ Size(z) = 0
    BY <1>3, <1>5 DEF s
  <2>2. Value(w) = Size(z)
    BY <1>2, <2>1
  <2>3. -Size(z) = Size(z)
    <3> DEFINE a == Size(z)
    <3>1. a \in Int /\ a >= 0 /\ a <= 0
      BY <2>1
    <3> HIDE DEF a
    <3>2. -a = a
      BY <3>1
    <3> QED
      BY <3>2 DEF a
  <2> QED
    BY <1>2, <2>2, <2>3 DEF w
<1>6. CASE z.l # 0
  <2>1. s = 1
    BY <1>6 DEF s
  <2> QED
    BY <1>2, <2>1 DEF w
<1> QED
  BY <1>5, <1>6

\* Positive() drops the sign.
LEMMA PositiveIs ==
  ASSUME NEW z, Normal(z)
  PROVE  Normal(Positive(z)) /\ Value(Positive(z)) = Size(z)
<1> DEFINE s == 0
           w == Positive(z)
<1>1. s \in {0, 1} /\ w = [z EXCEPT !.s = s]
  BY DEF Positive
<1> HIDE DEF w, s
<1>2. Normal(w) /\ Value(w) = IF s = 1 THEN -Size(z) ELSE Size(z)
  BY <1>1, SignUpdate
<1> QED
  BY <1>2 DEF w, s

\* A number minus a smaller one, in place.
LEMMA SubSelfIs ==
  ASSUME NEW z, Normal(z), NEW b, Normal(b), Size(b) <= Size(z)
  PROVE  /\ Normal(SubSelf(z, b.d, b.l)) /\ Size(SubSelf(z, b.d, b.l)) = Size(z) - Size(b)
         /\ Len(SubSelf(z, b.d, b.l).d) = Len(z.d)
<1>1. Clean(z) /\ z.l = z.l
  BY DEF Normal
<1> QED
  BY <1>1, SubtractionExact DEF SubSelf

\* The same into another number.
LEMMA SubIntoIs ==
  ASSUME NEW r, Clean(r), NEW z, Normal(z), NEW b, Normal(b), Size(b) <= Size(z)
  PROVE  /\ Normal(mpz_subi_raw(r, z, b.d, b.l))
         /\ Size(mpz_subi_raw(r, z, b.d, b.l)) = Size(z) - Size(b)
<1> DEFINE t == mpz_set(r, z)
<1>1. Clean(z)
  BY DEF Normal
<1>2. Clean(t) /\ t.l = z.l
  BY <1>1, SetCopies
<1>3. mpz_subi_raw(r, z, b.d, b.l) = Subtract(t, z, b.d, b.l)
  BY DEF mpz_subi_raw
<1> HIDE DEF t
<1> QED
  BY <1>1, <1>2, <1>3, SubtractionExact

\* The difference of the magnitudes, with the sign that the caller has for each case.
LEMMA DifferenceUp ==
  ASSUME NEW a, Normal(a), NEW b, Normal(b)
  PROVE  LET t == Difference(a, b, Positive, Negative)
         IN  Normal(t) /\ Value(t) = Size(a) - Size(b)
<1> DEFINE u == SubSelf(a, b.d, b.l)
           w == mpz_subi_raw(a, b, a.d, a.l)
           t == Difference(a, b, Positive, Negative)
<1>1. t = IF mpz_cmpabs(a, b) >= 0 THEN Positive(u) ELSE Negative(w)
  BY DEF Difference
<1>2. Clean(a) /\ Size(a) \in Nat /\ Size(b) \in Nat
  BY SizeIs DEF Normal
<1> HIDE DEF u, w, t
<1>3. CASE Size(a) >= Size(b)
  <2>1. mpz_cmpabs(a, b) >= 0
    BY <1>2, <1>3, ComparesMagnitudes
  <2>2. Normal(u) /\ Size(u) = Size(a) - Size(b)
    BY <1>3, SubSelfIs DEF u
  <2>3. Normal(Positive(u)) /\ Value(Positive(u)) = Size(u)
    BY <2>2, PositiveIs
  <2> QED
    BY <1>1, <2>1, <2>2, <2>3 DEF t
<1>4. CASE Size(a) < Size(b)
  <2>1. ~(mpz_cmpabs(a, b) >= 0)
    BY <1>2, <1>4, ComparesMagnitudes
  <2>2. Normal(w) /\ Size(w) = Size(b) - Size(a)
    BY <1>2, <1>4, SubIntoIs DEF w
  <2>3. Normal(Negative(w)) /\ Value(Negative(w)) = -Size(w)
    BY <2>2, NegativeIs
  <2>4. -(Size(b) - Size(a)) = Size(a) - Size(b)
    BY <1>2
  <2> QED
    BY <1>1, <2>1, <2>2, <2>3, <2>4 DEF t
<1> QED
  BY <1>2, <1>3, <1>4

\* The difference of the magnitudes, for a negative number that a positive one is added to.
LEMMA DifferenceDown ==
  ASSUME NEW a, Normal(a), NEW b, Normal(b)
  PROVE  LET t == Difference(a, b, Negative, Positive)
         IN  Normal(t) /\ Value(t) = Size(b) - Size(a)
<1> DEFINE u == SubSelf(a, b.d, b.l)
           w == mpz_subi_raw(a, b, a.d, a.l)
           t == Difference(a, b, Negative, Positive)
<1>1. t = IF mpz_cmpabs(a, b) >= 0 THEN Negative(u) ELSE Positive(w)
  BY DEF Difference
<1>2. Clean(a) /\ Size(a) \in Nat /\ Size(b) \in Nat
  BY SizeIs DEF Normal
<1> HIDE DEF u, w, t
<1>3. CASE Size(a) >= Size(b)
  <2>1. mpz_cmpabs(a, b) >= 0
    BY <1>2, <1>3, ComparesMagnitudes
  <2>2. Normal(u) /\ Size(u) = Size(a) - Size(b)
    BY <1>3, SubSelfIs DEF u
  <2>3. Normal(Negative(u)) /\ Value(Negative(u)) = -Size(u)
    BY <2>2, NegativeIs
  <2>4. -(Size(a) - Size(b)) = Size(b) - Size(a)
    BY <1>2
  <2> QED
    BY <1>1, <2>1, <2>2, <2>3, <2>4 DEF t
<1>4. CASE Size(a) < Size(b)
  <2>1. ~(mpz_cmpabs(a, b) >= 0)
    BY <1>2, <1>4, ComparesMagnitudes
  <2>2. Normal(w) /\ Size(w) = Size(b) - Size(a)
    BY <1>2, <1>4, SubIntoIs DEF w
  <2>3. Normal(Positive(w)) /\ Value(Positive(w)) = Size(w)
    BY <2>2, PositiveIs
  <2> QED
    BY <1>1, <2>1, <2>2, <2>3 DEF t
<1> QED
  BY <1>2, <1>3, <1>4

\* The magnitudes of two numbers, and their values by the signs.
LEMMA SignCases ==
  ASSUME NEW a, Normal(a), NEW b, Normal(b)
  PROVE  /\ Size(a) \in Nat /\ Size(b) \in Nat /\ a.s \in {0, 1} /\ b.s \in {0, 1}
         /\ a.s = 0 => Value(a) = Size(a)
         /\ a.s = 1 => Value(a) = -Size(a)
         /\ b.s = 0 => Value(b) = Size(b)
         /\ b.s = 1 => Value(b) = -Size(b)
<1>1. Clean(a) /\ Clean(b)
  BY DEF Normal
<1> QED
  BY <1>1, ValueIs, CleanType

\* The sum of the magnitudes, with the sign of the first number.
LEMMA SumIs ==
  ASSUME NEW a, Normal(a), NEW b, Normal(b)
  PROVE  LET t == AddSelf(a, b.d, b.l)
         IN  /\ Normal(t)
             /\ a.s = 0 => Value(t) = Size(a) + Size(b)
             /\ a.s = 1 => Value(t) = -(Size(a) + Size(b))
<1> DEFINE t == AddSelf(a, b.d, b.l)
<1>1. Normal(t) /\ Size(t) = Size(a) + Size(b) /\ t.s = a.s
  BY AdditionExact
<1> HIDE DEF t
<1>2. Clean(t)
  BY <1>1 DEF Normal
<1> QED
  BY <1>1, <1>2, ValueIs DEF t

\* mpz_add() adds numbers with signs, whichever magnitude is the larger.
THEOREM SignedAddition ==
  ASSUME NEW a, Normal(a), NEW b, Normal(b)
  PROVE  Normal(mpz_add(a, b)) /\ Value(mpz_add(a, b)) = Value(a) + Value(b)
<1> DEFINE t == mpz_add(a, b)
           sum == AddSelf(a, b.d, b.l)
           up == Difference(a, b, Positive, Negative)
           down == Difference(a, b, Negative, Positive)
           A == Size(a)
           B == Size(b)
<1>1. t = IF a.s = b.s THEN sum ELSE IF a.s = 1 THEN down ELSE up
  BY DEF mpz_add
<1>2. /\ A \in Nat /\ B \in Nat /\ a.s \in {0, 1} /\ b.s \in {0, 1}
      /\ a.s = 0 => Value(a) = A
      /\ a.s = 1 => Value(a) = -A
      /\ b.s = 0 => Value(b) = B
      /\ b.s = 1 => Value(b) = -B
  BY SignCases
<1>3. /\ Normal(sum) /\ (a.s = 0 => Value(sum) = A + B) /\ (a.s = 1 => Value(sum) = -(A + B))
      /\ Normal(up) /\ Value(up) = A - B
      /\ Normal(down) /\ Value(down) = B - A
  BY SumIs, DifferenceUp, DifferenceDown
<1> HIDE DEF t, sum, up, down, A, B
<1>4. CASE a.s = b.s
  BY <1>1, <1>2, <1>3, <1>4 DEF t
<1>5. CASE a.s = 1 /\ b.s = 0
  BY <1>1, <1>2, <1>3, <1>5 DEF t
<1>6. CASE a.s = 0 /\ b.s = 1
  BY <1>1, <1>2, <1>3, <1>6 DEF t
<1> QED
  BY <1>2, <1>4, <1>5, <1>6

\* mpz_sub() subtracts numbers with signs.
THEOREM SignedSubtraction ==
  ASSUME NEW a, Normal(a), NEW b, Normal(b)
  PROVE  Normal(mpz_sub(a, b)) /\ Value(mpz_sub(a, b)) = Value(a) - Value(b)
<1> DEFINE t == mpz_sub(a, b)
           sum == AddSelf(a, b.d, b.l)
           up == Difference(a, b, Positive, Negative)
           down == Difference(a, b, Negative, Positive)
           A == Size(a)
           B == Size(b)
<1>1. t = IF a.s # b.s THEN sum ELSE IF a.s = 1 THEN down ELSE up
  BY DEF mpz_sub
<1>2. /\ A \in Nat /\ B \in Nat /\ a.s \in {0, 1} /\ b.s \in {0, 1}
      /\ a.s = 0 => Value(a) = A
      /\ a.s = 1 => Value(a) = -A
      /\ b.s = 0 => Value(b) = B
      /\ b.s = 1 => Value(b) = -B
  BY SignCases
<1>3. /\ Normal(sum) /\ (a.s = 0 => Value(sum) = A + B) /\ (a.s = 1 => Value(sum) = -(A + B))
      /\ Normal(up) /\ Value(up) = A - B
      /\ Normal(down) /\ Value(down) = B - A
  BY SumIs, DifferenceUp, DifferenceDown
<1> HIDE DEF t, sum, up, down, A, B
<1>4. CASE a.s # b.s
  BY <1>1, <1>2, <1>3, <1>4 DEF t
<1>5. CASE a.s = 1 /\ b.s = 1
  BY <1>1, <1>2, <1>3, <1>5 DEF t
<1>6. CASE a.s = 0 /\ b.s = 0
  BY <1>1, <1>2, <1>3, <1>6 DEF t
<1> QED
  BY <1>2, <1>4, <1>5, <1>6

-----------------------------------------------------------------------------
(* Multiplication.                                                         *)

\* The suffix of zeros.
LEMMA UpperZero ==
  ASSUME NEW d, NEW l \in Nat, NEW h \in 0 .. l,
         \A k \in 1 .. l : d[k] \in Digit, \A k \in h + 1 .. l : d[k] = 0
  PROVE  Upper(d, l)[h + 1] = 0
<1> DEFINE f == Upper(d, l)
           m == l + 1
           S == {k \in 1 .. m : k > h => f[k] = 0}
<1>1. Horner(f, d, l)
  BY MagnitudeIs
<1> HIDE DEF f
<1>2. m \in S /\ m \in Nat
  BY <1>1 DEF Horner
<1>3. ASSUME NEW k \in 1 .. m - 1, k + 1 \in S PROVE k \in S
  <2>1. k \in 1 .. l /\ k \in 1 .. m
    OBVIOUS
  <2>2. ASSUME k > h PROVE f[k] = 0
    <3>1. k \in h + 1 .. l /\ k + 1 > h
      BY <2>1, <2>2
    <3>2. d[k] = 0 /\ f[k + 1] = 0
      BY <1>3, <3>1
    <3>3. f[k] = d[k] + MPZ_BASE * f[k + 1]
      BY <1>1, <2>1 DEF Horner
    <3> QED
      BY <3>2, <3>3, BaseFacts
  <2> QED
    BY <2>1, <2>2
<1>4. \A k \in 1 .. m : k \in S
  <2> HIDE DEF S, m
  <2> QED
    BY <1>2, <1>3, DownTo
<1>5. h + 1 \in 1 .. m /\ h + 1 > h
  OBVIOUS
<1> QED
  BY <1>4, <1>5 DEF f

\* An atom times an atom, plus a carry and the atom of the rows before, is an atom and a carry.
LEMMA OneProduct ==
  ASSUME NEW b \in Nat, b >= 2, NEW p \in 0 .. b - 1, NEW q \in 0 .. b - 1,
         NEW c \in 0 .. b - 1, NEW r \in 0 .. b - 1
  PROVE  /\ ((p * q + c + r) \div b) \in 0 .. b - 1 /\ ((p * q + c + r) % b) \in 0 .. b - 1
         /\ ((p * q + c + r) % b) + b * ((p * q + c + r) \div b) = p * q + c + r
<1> DEFINE s == p * q + c + r
           h == s \div b
           t == s % b
<1>1. s \in Nat /\ s < b * b
  <2>1. p * q <= (b - 1) * (b - 1) /\ p * q \in Nat
    <3> DEFINE a == b - 1
    <3>1. a \in Nat /\ p \in 0 .. a /\ q \in 0 .. a
      OBVIOUS
    <3> HIDE DEF a
    <3>2. p * q <= p * a /\ p * a <= a * a /\ p * q \in Nat /\ p * a \in Nat /\ a * a \in Nat
      BY <3>1
    <3>3. p * q <= a * a
      <4> DEFINE u == p * q
                 v == p * a
                 w == a * a
      <4>1. u <= v /\ v <= w /\ u \in Nat /\ v \in Nat /\ w \in Nat
        BY <3>2
      <4> HIDE DEF u, v, w
      <4>2. u <= w
        BY <4>1
      <4> QED
        BY <4>2 DEF u, w
    <3> QED
      BY <3>2, <3>3 DEF a
  <2>2. (b - 1) * (b - 1) = b * b - 2 * b + 1
    OBVIOUS
  <2> DEFINE u == p * q
             bb == b * b
  <2>3. u \in Nat /\ bb \in Nat /\ u <= bb - 2 * b + 1
    BY <2>1, <2>2
  <2> HIDE DEF u, bb
  <2>4. u + c + r \in Nat /\ u + c + r < bb
    BY <2>3
  <2> QED
    BY <2>4 DEF u, bb
<1> HIDE DEF s
<1>2. h \in Nat /\ t \in 0 .. b - 1 /\ s = b * h + t
  BY <1>1
<1>3. h < b
  <2>1. h >= b => b * h >= b * b
    <3> HIDE DEF h, t
    <3>1. h >= b => h - b \in Nat /\ h = b + (h - b)
      BY <1>2
    <3>2. b * (b + (h - b)) = b * b + b * (h - b)
      BY <1>2
    <3>3. h >= b => b * (h - b) \in Nat
      BY <3>1
    <3>4. b * b \in Nat
      OBVIOUS
    <3> QED
      BY <1>2, <3>1, <3>2, <3>3, <3>4
  <2> DEFINE bh == b * h
             bb == b * b
  <2>2. bh \in Nat /\ bb \in Nat /\ s < bb /\ (h >= b => bh >= bb) /\ s = bh + t
    BY <1>1, <1>2, <2>1
  <2> HIDE DEF h, t, bh, bb
  <2> QED
    BY <1>1, <1>2, <2>2
<1> DEFINE bh == b * h
<1>4. bh \in Nat /\ s = bh + t
  BY <1>2
<1> HIDE DEF h, t, bh
<1>5. t + bh = s
  BY <1>2, <1>4
<1>6. h \in 0 .. b - 1
  BY <1>2, <1>3
<1> QED
  BY <1>2, <1>5, <1>6 DEF s, h, t, bh

\* A row adds f times a number of m atoms, j atoms up; M atoms are looked at.
AddsRow(e, rd, d, c, f, j, m, M) ==
  /\ f \in Digit /\ c[0] = 0 /\ \A i \in 0 .. m : c[i] \in Digit
  /\ \A i \in 1 .. m : d[i] \in Digit /\ e[i + j] + MPZ_BASE * c[i] = f * d[i] + c[i - 1] + rd[i + j]
  /\ e[m + j + 1] = c[m]
  /\ \A k \in 1 .. M : rd[k] \in Digit /\ e[k] \in Digit
  /\ \A k \in m + j + 1 .. M : rd[k] = 0
  /\ \A k \in m + j + 2 .. M : e[k] = 0

\* Whatever was in the place it is added to, the row adds the product.
LEMMA RowAddsUp ==
  ASSUME NEW m \in Nat, NEW j \in Nat, NEW M \in Nat, m + j + 1 <= M,
         NEW e, NEW rd, NEW d, NEW c, NEW f, AddsRow(e, rd, d, c, f, j, m, M)
  PROVE  Upper(e, M)[j + 1] = Upper(rd, M)[j + 1] + f * Magnitude(d, m)
<1> DEFINE B == MPZ_BASE
           h == Upper(e, M)
           g == Upper(rd, M)
           v == Upper(d, m)
           a == m + 1
           S == {i \in 1 .. a : h[i + j] = g[i + j] + f * v[i] + c[i - 1]}
<1>1. /\ h \in [1 .. M + 1 -> Nat] /\ Horner(h, e, M)
      /\ g \in [1 .. M + 1 -> Nat] /\ Horner(g, rd, M)
      /\ v \in [1 .. m + 1 -> Nat] /\ Horner(v, d, m) /\ Magnitude(d, m) = v[1]
  <2>1. \A k \in 1 .. M : rd[k] \in Digit /\ e[k] \in Digit
    BY DEF AddsRow
  <2>2. \A i \in 1 .. m : d[i] \in Digit
    BY DEF AddsRow
  <2> QED
    BY <2>1, <2>2, MagnitudeIs
<1>2. g[m + j + 1] = 0 /\ h[m + j + 2] = 0
  <2> DEFINE w == m + j
             y == m + j + 1
  <2>1. w \in 0 .. M /\ y \in 0 .. M /\ y + 1 = m + j + 2 /\ w + 1 = m + j + 1
    OBVIOUS
  <2>2. /\ \A k \in 1 .. M : rd[k] \in Digit /\ e[k] \in Digit
        /\ \A k \in w + 1 .. M : rd[k] = 0
        /\ \A k \in y + 1 .. M : e[k] = 0
    BY <2>1 DEF AddsRow
  <2>3. Upper(rd, M)[w + 1] = 0 /\ Upper(e, M)[y + 1] = 0
    <3> HIDE DEF w, y
    <3> QED
      BY <2>1, <2>2, UpperZero
  <2> QED
    BY <2>1, <2>3
<1> HIDE DEF h, g, v
<1>3. f \in Nat /\ B \in Nat
  <2>1. Digit \subseteq Nat
    BY BaseFacts DEF Digit
  <2> QED
    BY <2>1, BaseFacts DEF AddsRow
<1>4. a \in S /\ a \in Nat
  <2>1. a \in Nat /\ a \in 1 .. a /\ a - 1 = m /\ a + j = m + j + 1 /\ m + j + 1 \in 1 .. M /\ (m + j + 1) + 1 = m + j + 2
    OBVIOUS
  <2> DEFINE w == m + j + 1
  <2>2. h[w] = e[w] + MPZ_BASE * h[w + 1]
    <3> HIDE DEF w
    <3> QED
      BY <1>1, <2>1 DEF Horner, w
  <2>3. h[w + 1] = 0 /\ e[w] = c[m] /\ g[w] = 0
    BY <1>2, <2>1 DEF AddsRow
  <2>4. v[a] = 0
    BY <1>1 DEF Horner
  <2>5. c[m] \in Nat
    <3>1. Digit \subseteq Nat /\ m \in 0 .. m
      BY BaseFacts DEF Digit
    <3> QED
      BY <3>1 DEF AddsRow
  <2> HIDE DEF w
  <2>6. h[w] = c[m] /\ f * 0 = 0
    BY <1>3, <2>2, <2>3, <2>5, BaseFacts
  <2>7. h[w] = g[w] + f * v[a] + c[m]
    BY <2>3, <2>4, <2>5, <2>6
  <2>8. h[a + j] = g[a + j] + f * v[a] + c[a - 1]
    BY <2>1, <2>7 DEF w
  <2> HIDE DEF a
  <2> QED
    BY <2>1, <2>8
<1>5. ASSUME NEW i \in 1 .. a - 1, i + 1 \in S PROVE i \in S
  <2>1. /\ i \in 1 .. m /\ i \in 1 .. a /\ i + 1 \in 1 .. m + 1 /\ (i + 1) - 1 = i
        /\ i \in 0 .. m /\ i - 1 \in 0 .. m
        /\ i + j \in 1 .. M /\ (i + 1) + j = (i + j) + 1 /\ (i + j) + 1 \in 1 .. M + 1
    OBVIOUS
  <2> DEFINE w == i + j
             u == g[w + 1]
             y == v[i + 1]
             ci == c[i]
             cp == c[i - 1]
             di == d[i]
             ei == e[w]
             ri == rd[w]
  <2>2. u \in Nat /\ y \in Nat
    BY <1>1, <2>1
  <2>3. ci \in Nat /\ cp \in Nat /\ di \in Nat /\ ei \in Nat /\ ri \in Nat
    <3>1. Digit \subseteq Nat
      BY BaseFacts DEF Digit
    <3>2. ci \in Digit /\ cp \in Digit /\ di \in Digit
      BY <2>1 DEF AddsRow
    <3>3. ei \in Digit /\ ri \in Digit
      BY <2>1 DEF AddsRow
    <3> QED
      BY <3>1, <3>2, <3>3
  <2>4. h[w + 1] = u + f * y + ci
    <3>1. h[(i + 1) + j] = g[(i + 1) + j] + f * v[i + 1] + c[(i + 1) - 1]
      BY <1>5
    <3> QED
      BY <2>1, <3>1
  <2>5. h[w] = ei + B * h[w + 1] /\ g[w] = ri + B * u
    <3>1. w \in 1 .. M
      BY <2>1
    <3> HIDE DEF w
    <3> QED
      BY <1>1, <3>1 DEF Horner
  <2>6. v[i] = di + B * y
    BY <1>1, <2>1 DEF Horner
  <2>7. ei + B * ci = f * di + cp + ri
    BY <2>1 DEF AddsRow
  <2> HIDE DEF w, u, y, ci, cp, di, ei, ri, B
  <2>8. B * (u + f * y + ci) = B * u + f * (B * y) + B * ci
    BY <1>3, <2>2, <2>3
  <2>9. f * (di + B * y) = f * di + f * (B * y)
    BY <1>3, <2>2, <2>3
  <2> DEFINE p1 == B * u
             p2 == f * (B * y)
             p3 == B * ci
             p4 == f * di
  <2>10. p1 \in Nat /\ p2 \in Nat /\ p3 \in Nat /\ p4 \in Nat
    BY <1>3, <2>2, <2>3
  <2>11. h[w] = ei + (p1 + p2 + p3) /\ g[w] = ri + p1 /\ f * v[i] = p4 + p2 /\ ei + p3 = p4 + cp + ri
    BY <2>4, <2>5, <2>6, <2>7, <2>8, <2>9
  <2> HIDE DEF p1, p2, p3, p4
  <2>12. ei + (p1 + p2 + p3) = (ri + p1) + (p4 + p2) + cp
    BY <2>3, <2>10, <2>11
  <2>13. h[w] = g[w] + f * v[i] + cp
    BY <2>11, <2>12
  <2> QED
    BY <2>1, <2>13 DEF w, cp
<1>6. \A i \in 1 .. a : i \in S
  <2> HIDE DEF S, a
  <2> QED
    BY <1>4, <1>5, DownTo
<1>7. h[1 + j] = g[1 + j] + f * v[1]
  <2>1. 1 \in 1 .. a /\ 1 - 1 = 0 /\ 1 + j \in 1 .. M + 1
    OBVIOUS
  <2>2. h[1 + j] = g[1 + j] + f * v[1] + c[1 - 1]
    BY <1>6, <2>1
  <2>3. c[1 - 1] = 0 /\ g[1 + j] \in Nat /\ v[1] \in Nat
    BY <1>1, <2>1 DEF AddsRow
  <2>4. f * v[1] \in Nat
    BY <1>3, <2>3
  <2> QED
    BY <2>2, <2>3, <2>4
<1>8. 1 + j = j + 1
  OBVIOUS
<1> QED
  BY <1>1, <1>7, <1>8 DEF h, g

\* The carries of a row.
RowCarries(c, d, rd, f, j, m) ==
  c[0] = 0 /\ \A i \in 1 .. m : c[i] = (f * d[i] + c[i - 1] + rd[i + j]) \div MPZ_BASE

\* Multiplying by one atom leaves carries, none of them larger than an atom.
LEMMA RowCarriesExist ==
  ASSUME NEW m \in Nat, NEW j \in Nat, NEW f \in Digit, NEW d, NEW rd,
         \A i \in 1 .. m : d[i] \in Digit /\ rd[i + j] \in Digit
  PROVE  \E c \in [0 .. m -> Digit] : RowCarries(c, d, rd, f, j, m)
<1> DEFINE V == Digit
           zero == 0
           B == MPZ_BASE
           step == [i \in 1 .. m |-> [v \in V |-> (f * d[i] + v + rd[i + j]) \div B]]
<1>1. ASSUME NEW i \in 1 .. m, NEW v \in V PROVE (f * d[i] + v + rd[i + j]) \div B \in V
  <2> DEFINE q == d[i]
             r == rd[i + j]
  <2>1. /\ f \in 0 .. B - 1 /\ q \in 0 .. B - 1 /\ v \in 0 .. B - 1 /\ r \in 0 .. B - 1
        /\ B \in Nat /\ B >= 2
    BY BaseFacts DEF Digit
  <2> HIDE DEF q, r, B
  <2>2. ((f * q + v + r) \div B) \in 0 .. B - 1
    BY <2>1, OneProduct
  <2> QED
    BY <2>2 DEF q, r, B, Digit
<1>2. step \in [1 .. m -> [V -> V]]
  BY <1>1
<1>3. PICK c \in [0 .. m -> V] : Iterates(c, zero, m, step)
  <2>1. zero \in V
    BY BaseFacts DEF Digit
  <2> HIDE DEF V, zero, step
  <2> QED
    BY <1>2, <2>1, Recursion
<1>4. c[0] = 0
  BY <1>3 DEF Iterates
<1>5. ASSUME NEW i \in 1 .. m PROVE c[i] = (f * d[i] + c[i - 1] + rd[i + j]) \div B
  <2>1. i - 1 \in 0 .. m /\ c[i] = step[i][c[i - 1]]
    BY <1>3 DEF Iterates
  <2>2. c[i - 1] \in V
    BY <2>1
  <2> QED
    BY <2>1, <2>2
<1>6. RowCarries(c, d, rd, f, j, m)
  BY <1>4, <1>5 DEF RowCarries
<1> QED
  BY <1>6

\* What a row makes of the atoms before it.
RowOf(e, c, d, rd, f, j, m) ==
  /\ e \in Seq(Digit) /\ Len(e) = Len(rd)
  /\ c \in [0 .. m -> Digit] /\ c[0] = 0
  /\ \A i \in 1 .. m : e[i + j] + MPZ_BASE * c[i] = f * d[i] + c[i - 1] + rd[i + j]
  /\ e[m + j + 1] = IF c[m] > 0 THEN c[m] ELSE rd[m + j + 1]
  /\ \A k \in 1 .. Len(rd) : k <= j \/ k > m + j + 1 => e[k] = rd[k]

\* A row of the multiplication adds up with such carries.
LEMMA RowIs ==
  ASSUME NEW z, Clean(z), NEW f \in Digit, NEW j \in Nat,
         NEW rd \in Seq(Digit), z.l + j + 1 <= Len(rd)
  PROVE  \E c : RowOf(Row(rd, z, f, j), c, z.d, rd, f, j, z.l)
<1> DEFINE m == z.l
           d == z.d
           B == MPZ_BASE
           Eqn(h) == h = [i \in 0 .. z.l |->
                            IF i = 0 THEN 0 ELSE (f * z.d[i] + h[i - 1] + rd[i + j]) \div MPZ_BASE]
           c == CHOOSE h : Eqn(h)
           e == [k \in DOMAIN rd |->
                   IF k - j \in 1 .. z.l
                   THEN (f * z.d[k - j] + c[k - j - 1] + rd[k]) % MPZ_BASE
                   ELSE IF k = z.l + j + 1 /\ c[z.l] > 0 THEN c[z.l]
                   ELSE rd[k]]
<1>1. Row(rd, z, f, j) = e
  BY DEF Row
<1>2. /\ m \in Nat /\ \A i \in 1 .. m : d[i] \in Digit /\ rd[i + j] \in Digit
      /\ Len(rd) \in Nat /\ DOMAIN rd = 1 .. Len(rd) /\ \A k \in 1 .. Len(rd) : rd[k] \in Digit
  <2>1. m \in Nat /\ \A i \in 1 .. m : d[i] \in Digit
    BY CleanType
  <2>2. Len(rd) \in Nat /\ DOMAIN rd = 1 .. Len(rd) /\ \A k \in 1 .. Len(rd) : rd[k] \in Digit
    OBVIOUS
  <2>3. ASSUME NEW i \in 1 .. m PROVE rd[i + j] \in Digit
    <3>1. i + j \in 1 .. Len(rd)
      BY <2>1, <2>2
    <3> QED
      BY <2>2, <3>1
  <2> QED
    BY <2>1, <2>2, <2>3
<1>3. Eqn(c)
  <2>1. PICK h \in [0 .. m -> Digit] : RowCarries(h, d, rd, f, j, m)
    <3> HIDE DEF m, d
    <3> QED
      BY <1>2, RowCarriesExist
  <2>2. ASSUME NEW i \in 0 .. m
        PROVE  h[i] = IF i = 0 THEN 0 ELSE (f * z.d[i] + h[i - 1] + rd[i + j]) \div MPZ_BASE
    <3>1. i # 0 => i \in 1 .. m
      BY <1>2
    <3> QED
      BY <2>1, <3>1 DEF RowCarries
  <2>3. Eqn(h)
    BY <2>1, <2>2
  <2> HIDE DEF Eqn
  <2> QED
    BY <2>3
<1>4. /\ c[0] = 0
      /\ \A i \in 1 .. m : c[i] = (f * d[i] + c[i - 1] + rd[i + j]) \div B
  <2>1. 0 \in 0 .. m /\ \A k \in 1 .. m : k \in 0 .. m /\ k # 0
    BY <1>2
  <2> HIDE DEF c
  <2> QED
    BY <1>3, <2>1
<1>5. c \in [0 .. m -> Digit]
  <2> HIDE DEF c
  <2> DEFINE S == {k \in Nat : c[k] \in Digit}
  <2>1. 0 \in S
    BY <1>4, BaseFacts DEF Digit
  <2>2. ASSUME NEW i \in 0 .. m - 1, i \in S PROVE i + 1 \in S
    <3> DEFINE k == i + 1
               q == d[k]
               v == c[i]
               r == rd[k + j]
    <3>1. k \in 1 .. m /\ k - 1 = i /\ k \in Nat
      BY <1>2
    <3>2. c[k] = (f * q + v + r) \div B
      BY <1>4, <3>1
    <3>3. /\ f \in 0 .. B - 1 /\ q \in 0 .. B - 1 /\ v \in 0 .. B - 1 /\ r \in 0 .. B - 1
          /\ B \in Nat /\ B >= 2
      BY <1>2, <2>2, <3>1, BaseFacts DEF Digit
    <3> HIDE DEF q, v, r, k, B
    <3>4. ((f * q + v + r) \div B) \in 0 .. B - 1
      BY <3>3, OneProduct
    <3>5. c[k] \in Digit
      BY <3>2, <3>4 DEF Digit, B
    <3>6. k \in S
      BY <3>1, <3>5
    <3> QED
      BY <3>6 DEF k
  <2> HIDE DEF S
  <2>3. \A k \in 0 .. m : k \in S
    BY <1>2, <2>1, <2>2, UpTo
  <2>4. \A k \in 0 .. m : c[k] \in Digit
    BY <2>3 DEF S
  <2>5. c = [k \in 0 .. m |-> c[k]]
    BY <1>3
  <2> QED
    BY <2>4, <2>5
<1> HIDE DEF c
<1>6. ASSUME NEW i \in 1 .. m
      PROVE  /\ e[i + j] \in Digit
             /\ e[i + j] + MPZ_BASE * c[i] = f * d[i] + c[i - 1] + rd[i + j]
  <2> DEFINE k == i + j
             q == d[i]
             v == c[i - 1]
             r == rd[k]
  <2>1. k \in 1 .. Len(rd) /\ k - j = i /\ i - 1 \in 0 .. m
    BY <1>2
  <2>2. e[k] = (f * q + v + r) % B
    BY <1>2, <2>1
  <2>3. c[i] = (f * q + v + r) \div B
    BY <1>4
  <2>4. /\ f \in 0 .. B - 1 /\ q \in 0 .. B - 1 /\ v \in 0 .. B - 1 /\ r \in 0 .. B - 1
        /\ B \in Nat /\ B >= 2
    <3>1. v \in Digit
      BY <1>5, <2>1
    <3>2. q \in Digit /\ r \in Digit
      BY <1>2
    <3> HIDE DEF q, v, r
    <3> QED
      BY <3>1, <3>2, BaseFacts DEF Digit
  <2> HIDE DEF q, v, r, k, B, e
  <2>5. /\ ((f * q + v + r) % B) \in 0 .. B - 1
        /\ ((f * q + v + r) % B) + B * ((f * q + v + r) \div B) = f * q + v + r
    BY <2>4, OneProduct
  <2>6. e[k] \in 0 .. B - 1 /\ e[k] + B * c[i] = f * q + v + r
    BY <2>2, <2>3, <2>5
  <2> QED
    BY <2>6 DEF q, v, r, k, B, Digit
<1>7. e[m + j + 1] = IF c[m] > 0 THEN c[m] ELSE rd[m + j + 1]
  <2>1. m + j + 1 \in 1 .. Len(rd) /\ ~((m + j + 1) - j \in 1 .. m)
    BY <1>2
  <2> QED
    BY <1>2, <2>1
<1>8. \A k \in 1 .. Len(rd) : k <= j \/ k > m + j + 1 => e[k] = rd[k]
  <2>1. ASSUME NEW k \in 1 .. Len(rd), k <= j \/ k > m + j + 1
        PROVE  ~(k - j \in 1 .. m) /\ k # m + j + 1
    BY <1>2, <2>1
  <2> QED
    BY <1>2, <2>1
<1>9. e \in Seq(Digit) /\ Len(e) = Len(rd)
  <2>1. ASSUME NEW k \in 1 .. Len(rd) PROVE e[k] \in Digit
    <3>1. k <= j \/ k > m + j + 1 \/ k = m + j + 1 \/ k - j \in 1 .. m
      BY <1>2
    <3>2. CASE k - j \in 1 .. m
      <4>1. k = (k - j) + j
        OBVIOUS
      <4> HIDE DEF e
      <4> QED
        BY <1>6, <3>2, <4>1
    <3>3. CASE k = m + j + 1
      <4>1. c[m] \in Digit
        BY <1>2, <1>5
      <4>2. rd[k] \in Digit
        BY <1>2
      <4> HIDE DEF e
      <4> QED
        BY <1>7, <3>3, <4>1, <4>2
    <3>4. CASE k <= j \/ k > m + j + 1
      <4> HIDE DEF e
      <4> QED
        BY <1>2, <1>8, <3>4
    <3> QED
      BY <3>1, <3>2, <3>3, <3>4
  <2> DEFINE h == Len(rd)
  <2>2. h \in Nat /\ e \in [1 .. h -> Digit]
    BY <1>2, <2>1
  <2> HIDE DEF e, h
  <2> QED
    BY <2>2, FunctionSeq DEF h
<1> HIDE DEF e
<1>10. RowOf(e, c, d, rd, f, j, m)
  BY <1>4, <1>5, <1>6, <1>7, <1>8, <1>9 DEF RowOf
<1> QED
  BY <1>1, <1>10

\* A row adds a multiple of the number, and leaves what is below it and above its carry.
LEMMA RowExact ==
  ASSUME NEW z, Clean(z), NEW f \in Digit, NEW j \in Nat, NEW M \in Nat,
         NEW rd \in Seq(Digit), z.l + j + 1 <= M, M <= Len(rd),
         \A k \in 1 .. Len(rd) : k > z.l + j => rd[k] = 0
  PROVE  LET e == Row(rd, z, f, j)
         IN  /\ e \in Seq(Digit) /\ Len(e) = Len(rd)
             /\ Upper(e, M)[j + 1] = Upper(rd, M)[j + 1] + f * Size(z)
             /\ \A k \in 1 .. Len(rd) : k <= j \/ k > z.l + j + 1 => e[k] = rd[k]
<1> DEFINE m == z.l
           d == z.d
           e == Row(rd, z, f, j)
<1>1. m \in Nat /\ Len(rd) \in Nat /\ \A i \in 1 .. m : d[i] \in Digit
  BY CleanType
<1>2. PICK c : RowOf(e, c, d, rd, f, j, m)
  <2>1. z.l + j + 1 <= Len(rd)
    BY <1>1
  <2> QED
    BY <2>1, RowIs
<1> HIDE DEF e, d
<1>3. \A i \in 0 .. m : c[i] \in Digit
  BY <1>2 DEF RowOf
<1>4. /\ e \in Seq(Digit) /\ Len(e) = Len(rd) /\ c[0] = 0
      /\ e[m + j + 1] = IF c[m] > 0 THEN c[m] ELSE rd[m + j + 1]
      /\ \A k \in 1 .. Len(rd) : k <= j \/ k > m + j + 1 => e[k] = rd[k]
      /\ \A i \in 1 .. m : e[i + j] + MPZ_BASE * c[i] = f * d[i] + c[i - 1] + rd[i + j]
  BY <1>2 DEF RowOf
<1>5. e[m + j + 1] = c[m]
  <2>1. m + j + 1 \in 1 .. Len(rd) /\ m + j + 1 > m + j
    BY <1>1
  <2>2. rd[m + j + 1] = 0
    BY <2>1
  <2>3. c[m] \in Nat
    <3>1. m \in 0 .. m
      BY <1>1
    <3>2. c[m] \in Digit
      BY <1>3, <3>1
    <3> QED
      BY <3>2, BaseFacts DEF Digit
  <2> QED
    BY <1>4, <2>2, <2>3
<1>6. \A k \in 1 .. M : rd[k] \in Digit /\ e[k] \in Digit
  <2>1. \A k \in 1 .. M : k \in 1 .. Len(rd)
    BY <1>1
  <2> QED
    BY <1>4, <2>1
<1>7. \A k \in m + j + 1 .. M : rd[k] = 0
  <2>1. \A k \in m + j + 1 .. M : k \in 1 .. Len(rd) /\ k > m + j
    BY <1>1
  <2> QED
    BY <2>1
<1>8. \A k \in m + j + 2 .. M : e[k] = 0
  <2>1. \A k \in m + j + 2 .. M : k \in 1 .. Len(rd) /\ k > m + j + 1 /\ k \in m + j + 1 .. M
    BY <1>1
  <2> QED
    BY <1>4, <1>7, <2>1
<1>9. AddsRow(e, rd, d, c, f, j, m, M)
  <2>1. \A i \in 1 .. m : d[i] \in Digit
    BY <1>1
  <2> QED
    BY <2>1, <1>3, <1>4, <1>5, <1>6, <1>7, <1>8 DEF AddsRow
<1>10. Upper(e, M)[j + 1] = Upper(rd, M)[j + 1] + f * Magnitude(d, m)
  <2> HIDE DEF m
  <2> QED
    BY <1>1, <1>9, RowAddsUp DEF m
<1> QED
  BY <1>4, <1>10 DEF Size, d, e

\* The rows of a product, R[j] after j of them.
RowsOf(R, z, d, l, t) ==
  R[0] = t /\ \A j \in 1 .. l : R[j] = Row(R[j - 1], z, d[j], j - 1)

\* The rows of a multiplication follow one another.
LEMMA RowsExist ==
  ASSUME NEW z, Clean(z), NEW l \in Nat, NEW d, \A k \in 1 .. l : d[k] \in Digit,
         NEW t \in Seq(Digit), Len(t) > z.l + l
  PROVE  \E R \in [0 .. l -> Seq(Digit)] : RowsOf(R, z, d, l, t) /\ \A j \in 0 .. l : Len(R[j]) = Len(t)
<1> DEFINE V == {v \in Seq(Digit) : Len(v) = Len(t)}
           step == [i \in 1 .. l |-> [v \in V |-> Row(v, z, d[i], i - 1)]]
<1>1. ASSUME NEW i \in 1 .. l, NEW v \in V PROVE Row(v, z, d[i], i - 1) \in V
  <2> DEFINE j == i - 1
             f == d[i]
  <2>1. z.l \in Nat /\ Len(t) \in Nat
    BY CleanType
  <2>2. j \in Nat /\ f \in Digit /\ v \in Seq(Digit) /\ z.l + j + 1 <= Len(v)
    BY <2>1
  <2> HIDE DEF j, f
  <2>3. PICK c : RowOf(Row(v, z, f, j), c, z.d, v, f, j, z.l)
    BY <2>2, RowIs
  <2>4. Row(v, z, f, j) \in Seq(Digit) /\ Len(Row(v, z, f, j)) = Len(v)
    BY <2>3 DEF RowOf
  <2> QED
    BY <2>4 DEF f, j
<1>2. step \in [1 .. l -> [V -> V]]
  BY <1>1
<1>3. PICK R \in [0 .. l -> V] : Iterates(R, t, l, step)
  <2>1. t \in V
    OBVIOUS
  <2> HIDE DEF V, step
  <2> QED
    BY <1>2, <2>1, Recursion
<1>4. \A j \in 1 .. l : R[j] = Row(R[j - 1], z, d[j], j - 1)
  <2>1. ASSUME NEW j \in 1 .. l PROVE R[j] = Row(R[j - 1], z, d[j], j - 1)
    <3>1. j - 1 \in 0 .. l /\ R[j] = step[j][R[j - 1]]
      <4> HIDE DEF step
      <4>1. \A i \in 1 .. l : R[i] = step[i][R[i - 1]]
        BY <1>3 DEF Iterates
      <4> QED
        BY <4>1
    <3>2. R[j - 1] \in V
      BY <3>1
    <3> QED
      BY <3>1, <3>2
  <2> QED
    BY <2>1
<1>5. R[0] = t
  BY <1>3 DEF Iterates
<1>6. \A j \in 0 .. l : R[j] \in Seq(Digit) /\ Len(R[j]) = Len(t)
  OBVIOUS
<1>7. R \in [0 .. l -> Seq(Digit)]
  BY <1>6
<1>8. RowsOf(R, z, d, l, t)
  BY <1>4, <1>5 DEF RowsOf
<1> QED
  BY <1>6, <1>7, <1>8

\* The rows keep to the storage, and each has one atom more.
LEMMA RowsClean ==
  ASSUME NEW z, Clean(z), NEW l \in Nat, NEW d, \A k \in 1 .. l : d[k] \in Digit,
         NEW t \in Seq(Digit), Len(t) > z.l + l, \A k \in 1 .. Len(t) : t[k] = 0,
         NEW R, RowsOf(R, z, d, l, t)
  PROVE  \A j \in 0 .. l : /\ R[j] \in Seq(Digit) /\ Len(R[j]) = Len(t)
                           /\ \A k \in 1 .. Len(t) : k > z.l + j => R[j][k] = 0
<1> DEFINE OK(j) == /\ R[j] \in Seq(Digit) /\ Len(R[j]) = Len(t)
                    /\ \A k \in 1 .. Len(t) : k > z.l + j => R[j][k] = 0
           S == {j \in Nat : OK(j)}
<1>1. z.l \in Nat /\ Len(t) \in Nat
  BY CleanType
<1>2. 0 \in S
  BY DEF RowsOf
<1>3. ASSUME NEW i \in 0 .. l - 1, i \in S PROVE i + 1 \in S
  <2> DEFINE f == d[i + 1]
             rd == R[i]
             M == z.l + l
             e == Row(rd, z, f, i)
  <2>1. i + 1 \in 1 .. l /\ (i + 1) - 1 = i
    OBVIOUS
  <2>2. R[i + 1] = e /\ f \in Digit
    BY <2>1 DEF RowsOf
  <2>3. /\ rd \in Seq(Digit) /\ Len(rd) = Len(t)
        /\ \A k \in 1 .. Len(t) : k > z.l + i => rd[k] = 0
    BY <1>3
  <2> HIDE DEF S, OK
  <2>4. z.l + i + 1 <= M /\ M <= Len(rd) /\ i \in Nat /\ M \in Nat
    BY <1>1, <2>3
  <2> HIDE DEF f, rd, M, e
  <2>5. \A k \in 1 .. Len(rd) : k > z.l + i => rd[k] = 0
    BY <2>3
  <2>6. /\ e \in Seq(Digit) /\ Len(e) = Len(rd)
        /\ \A k \in 1 .. Len(rd) : k <= i \/ k > z.l + i + 1 => e[k] = rd[k]
    BY <2>2, <2>3, <2>4, <2>5, RowExact DEF e
  <2>7. \A k \in 1 .. Len(t) : k > z.l + (i + 1) => e[k] = 0
    <3>1. \A k \in 1 .. Len(t) : k > z.l + (i + 1) => k > z.l + i + 1 /\ k > z.l + i
      BY <1>1
    <3> QED
      BY <2>3, <2>6, <3>1
  <2>8. OK(i + 1)
    BY <2>2, <2>3, <2>6, <2>7 DEF OK
  <2>9. i + 1 \in Nat
    OBVIOUS
  <2> QED
    BY <2>8, <2>9 DEF S
<1>4. \A j \in 0 .. l : j \in S
  <2> HIDE DEF S
  <2> QED
    BY <1>2, <1>3, UpTo
<1> QED
  BY <1>4

\* One step of the sum over the rows: h, g and p are suffixes of the last row, the row before
\* and the row itself, u the suffix of the factor.
LEMMA RowStep ==
  ASSUME NEW b \in Nat, NEW s \in Nat, NEW f \in Nat, NEW u1 \in Nat, NEW u2 \in Nat,
         NEW h1 \in Nat, NEW h2 \in Nat, NEW p1 \in Nat, NEW p2 \in Nat, NEW g \in Nat, NEW e \in Nat,
         u1 = f + b * u2, h1 = e + b * h2, p1 = e + b * p2, h2 = p2 + s * u2, p1 = g + f * s
  PROVE  h1 = g + s * u1
<1>1. b * h2 = b * p2 + b * (s * u2)
  <2> DEFINE su == s * u2
  <2>1. su \in Nat /\ h2 = p2 + su
    OBVIOUS
  <2> HIDE DEF su
  <2>2. b * (p2 + su) = b * p2 + b * su
    BY <2>1
  <2> QED
    BY <2>1, <2>2 DEF su
<1>2. s * u1 = s * f + s * (b * u2)
  <2> DEFINE bu == b * u2
  <2>1. bu \in Nat /\ u1 = f + bu
    OBVIOUS
  <2> HIDE DEF bu
  <2>2. s * (f + bu) = s * f + s * bu
    BY <2>1
  <2> QED
    BY <2>1, <2>2 DEF bu
<1>3. b * (s * u2) = s * (b * u2) /\ f * s = s * f
  OBVIOUS
<1> DEFINE x1 == b * h2
           x2 == b * p2
           x3 == b * (s * u2)
           x4 == s * f
           x5 == s * u1
<1>4. x1 \in Nat /\ x2 \in Nat /\ x3 \in Nat /\ x4 \in Nat /\ x5 \in Nat
  OBVIOUS
<1>5. x1 = x2 + x3 /\ x5 = x4 + x3 /\ h1 = e + x1 /\ p1 = e + x2 /\ p1 = g + x4
  BY <1>1, <1>2, <1>3
<1> HIDE DEF x1, x2, x3, x4, x5
<1>6. h1 = g + x5
  BY <1>4, <1>5
<1> QED
  BY <1>6 DEF x5

\* The rows add up to the product.
LEMMA RowsAddUp ==
  ASSUME NEW z, Clean(z), NEW l \in Nat, NEW d, \A k \in 1 .. l : d[k] \in Digit,
         NEW t \in Seq(Digit), Len(t) > z.l + l, \A k \in 1 .. Len(t) : t[k] = 0,
         NEW R, RowsOf(R, z, d, l, t)
  PROVE  Magnitude(R[l], z.l + l) = Size(z) * Magnitude(d, l)
<1>1. \A j \in 0 .. l : /\ R[j] \in Seq(Digit) /\ Len(R[j]) = Len(t)
                        /\ \A k \in 1 .. Len(t) : k > z.l + j => R[j][k] = 0
  <2>1. ASSUME NEW j \in 0 .. l
        PROVE  /\ R[j] \in Seq(Digit) /\ Len(R[j]) = Len(t)
               /\ \A k \in 1 .. Len(t) : k > z.l + j => R[j][k] = 0
    BY RowsClean
  <2> QED
    BY <2>1
<1> DEFINE m == z.l
           M == z.l + l
           B == MPZ_BASE
           s == Size(z)
           U == Upper(d, l)
           H == Upper(R[l], M)
           P(k) == /\ H[k] = Upper(R[k - 1], M)[k] + s * U[k]
                   /\ \A i \in 1 .. k - 1 : R[l][i] = R[k - 1][i]
           a == l + 1
           S == {k \in 1 .. a : P(k)}
<1>2. m \in Nat /\ M \in Nat /\ Len(t) \in Nat /\ s \in Nat /\ B \in Nat /\ M < Len(t)
  <2>1. z.l \in Nat /\ s \in Nat
    BY CleanType, SizeIs
  <2> QED
    BY <2>1, BaseFacts
<1>3. U \in [1 .. l + 1 -> Nat] /\ Horner(U, d, l) /\ Magnitude(d, l) = U[1]
  BY MagnitudeIs
<1> HIDE DEF M, s, U, B
<1>4. ASSUME NEW j \in 0 .. l
      PROVE  /\ \A k \in 1 .. M : R[j][k] \in Digit
             /\ Upper(R[j], M) \in [1 .. M + 1 -> Nat] /\ Horner(Upper(R[j], M), R[j], M)
             /\ Magnitude(R[j], M) = Upper(R[j], M)[1]
  <2> DEFINE e == R[j]
  <2>1. e \in Seq(Digit) /\ Len(e) = Len(t)
    BY <1>1
  <2> HIDE DEF e
  <2>2. \A k \in 1 .. M : e[k] \in Digit
    <3>1. \A k \in 1 .. M : k \in 1 .. Len(e)
      BY <1>2, <2>1
    <3> QED
      BY <2>1, <3>1
  <2>3. Upper(e, M) \in [1 .. M + 1 -> Nat] /\ Horner(Upper(e, M), e, M) /\ Magnitude(e, M) = Upper(e, M)[1]
    BY <1>2, <2>2, MagnitudeIs
  <2> QED
    BY <2>2, <2>3 DEF e
<1>5. a \in S
  <2>1. a \in 1 .. a /\ a - 1 = l
    OBVIOUS
  <2>2. U[a] = 0
    BY <1>3 DEF Horner
  <2>3. H[a] \in Nat
    <3>1. l \in 0 .. l /\ a \in 1 .. M + 1
      BY <1>2 DEF M
    <3> QED
      BY <1>4, <3>1
  <2>4. s * 0 = 0
    BY <1>2
  <2>5. H[a] = Upper(R[a - 1], M)[a] + s * U[a]
    BY <2>1, <2>2, <2>3, <2>4
  <2> QED
    BY <2>1, <2>5
<1>6. ASSUME NEW k \in 1 .. a - 1, k + 1 \in S PROVE k \in S
  <2> DEFINE j == k - 1
             f == d[k]
             rd == R[j]
             e == R[k]
  <2>1. k \in 1 .. l /\ j \in Nat /\ j \in 0 .. l /\ k \in 0 .. l /\ j + 1 = k /\ (k + 1) - 1 = k
    OBVIOUS
  <2>2. P(k + 1)
    BY <1>6
  <2>3. e = Row(rd, z, f, j) /\ f \in Digit
    BY <2>1 DEF RowsOf
  <2>4. /\ rd \in Seq(Digit) /\ Len(rd) = Len(t)
        /\ \A i \in 1 .. Len(rd) : i > z.l + j => rd[i] = 0
    BY <1>1, <2>1
  <2>5. z.l + j + 1 <= M /\ M <= Len(rd)
    BY <1>2, <2>1, <2>4 DEF M
  <2> HIDE DEF rd, f, j, P, S
  <2>6. /\ Upper(e, M)[j + 1] = Upper(rd, M)[j + 1] + f * s
        /\ \A i \in 1 .. Len(rd) : i <= j \/ i > z.l + j + 1 => e[i] = rd[i]
    <3> DEFINE w == Row(rd, z, f, j)
    <3>1. /\ Upper(w, M)[j + 1] = Upper(rd, M)[j + 1] + f * Size(z)
          /\ \A i \in 1 .. Len(rd) : i <= j \/ i > z.l + j + 1 => w[i] = rd[i]
      <4>1. M \in Nat /\ j \in Nat /\ f \in Digit
        BY <1>2, <2>1, <2>3
      <4> HIDE DEF H, a, e, m
      <4> QED
        BY <4>1, <2>4, <2>5, RowExact
    <3> HIDE DEF w
    <3>2. e = w
      BY <2>3 DEF w
    <3> QED
      BY <3>1, <3>2 DEF s
  <2>7. /\ H[k + 1] = Upper(e, M)[k + 1] + s * U[k + 1]
        /\ \A i \in 1 .. k : R[l][i] = e[i]
    BY <2>1, <2>2 DEF P
  <2>8. /\ k \in 1 .. M /\ k + 1 \in 1 .. M + 1 /\ k \in 1 .. M + 1 /\ k \in 1 .. l + 1 /\ k + 1 \in 1 .. l + 1
        /\ l \in 0 .. l
    BY <1>2, <2>1 DEF M
  <2>9. /\ H[k] = R[l][k] + B * H[k + 1] /\ H[k] \in Nat /\ H[k + 1] \in Nat
    BY <1>4, <2>8 DEF Horner, B
  <2>10. /\ Upper(e, M)[k] = e[k] + B * Upper(e, M)[k + 1]
         /\ Upper(e, M)[k] \in Nat /\ Upper(e, M)[k + 1] \in Nat /\ e[k] \in Digit
    BY <1>4, <2>1, <2>8 DEF Horner, B
  <2>11. Upper(rd, M)[k] \in Nat
    BY <1>4, <2>1, <2>8 DEF rd
  <2>12. U[k] = d[k] + B * U[k + 1] /\ U[k] \in Nat /\ U[k + 1] \in Nat
    BY <1>3, <2>1, <2>8 DEF Horner, B
  <2> DEFINE h1 == H[k]
             h2 == H[k + 1]
             p1 == Upper(e, M)[k]
             p2 == Upper(e, M)[k + 1]
             g == Upper(rd, M)[k]
             ek == e[k]
             u1 == U[k]
             u2 == U[k + 1]
  <2>13. /\ B \in Nat /\ s \in Nat /\ f \in Nat /\ u1 \in Nat /\ u2 \in Nat /\ h1 \in Nat /\ h2 \in Nat
         /\ p1 \in Nat /\ p2 \in Nat /\ g \in Nat /\ ek \in Nat
    <3>1. \A q \in Digit : q \in Nat
      BY BaseFacts DEF Digit
    <3>2. f \in Nat /\ ek \in Nat
      BY <3>1, <2>3, <2>10
    <3> QED
      BY <1>2, <2>9, <2>10, <2>11, <2>12, <3>2
  <2>14. /\ u1 = f + B * u2 /\ h1 = ek + B * h2 /\ p1 = ek + B * p2
         /\ h2 = p2 + s * u2 /\ p1 = g + f * s
    <3>1. R[l][k] = ek
      <4>1. k \in 1 .. k
        BY <2>1
      <4> QED
        BY <2>7, <4>1
    <3> QED
      BY <2>1, <2>6, <2>7, <2>9, <2>10, <2>12, <3>1 DEF f
  <2>15. h1 = g + s * u1
    <3> HIDE DEF h1, h2, p1, p2, g, ek, u1, u2
    <3> QED
      BY <2>13, <2>14, RowStep
  <2>16. \A i \in 1 .. k - 1 : R[l][i] = rd[i]
    <3>1. \A i \in 1 .. k - 1 : i \in 1 .. k /\ i \in 1 .. Len(rd) /\ i <= j
      BY <1>2, <2>1, <2>4, <2>5 DEF M
    <3> QED
      BY <2>6, <2>7, <3>1
  <2>17. P(k)
    BY <2>15, <2>16 DEF P, rd, j
  <2> QED
    BY <2>1, <2>17 DEF S
<1>7. 1 \in S
  <2>1. a \in Nat /\ 1 \in 1 .. a
    OBVIOUS
  <2> HIDE DEF S, a
  <2>2. \A k \in 1 .. a : k \in S
    BY <1>5, <1>6, <2>1, DownTo
  <2> QED
    BY <2>1, <2>2
<1>8. H[1] = Upper(R[0], M)[1] + s * U[1]
  BY <1>7
<1>9. Upper(R[0], M)[1] = 0
  <2> DEFINE e == R[0]
             o == 0
  <2>1. e \in Seq(Digit) /\ Len(e) = Len(t) /\ e = t
    BY <1>1 DEF RowsOf
  <2>2. \A k \in 1 .. M : e[k] \in Digit /\ e[k] = 0
    <3>1. \A k \in 1 .. M : k \in 1 .. Len(t)
      BY <1>2
    <3> QED
      BY <2>1, <3>1
  <2>3. o \in 0 .. M /\ o + 1 = 1 /\ \A k \in o + 1 .. M : e[k] = 0
    BY <1>2, <2>2
  <2> HIDE DEF e, o
  <2>4. Upper(e, M)[o + 1] = 0
    BY <1>2, <2>2, <2>3, UpperZero
  <2> QED
    BY <2>3, <2>4 DEF e
<1>10. U[1] \in Nat /\ H[1] \in Nat /\ s * U[1] \in Nat
  <2>1. 1 \in 1 .. l + 1 /\ 1 \in 1 .. M + 1 /\ l \in 0 .. l
    BY <1>2
  <2>2. U[1] \in Nat /\ H[1] \in Nat
    BY <1>3, <1>4, <2>1
  <2> HIDE DEF H
  <2> QED
    BY <1>2, <2>2
<1>11. H[1] = s * U[1]
  BY <1>8, <1>9, <1>10
<1>12. Magnitude(R[l], M) = H[1]
  <2>1. l \in 0 .. l
    OBVIOUS
  <2> QED
    BY <1>4, <2>1
<1> QED
  BY <1>3, <1>11, <1>12 DEF M, s

\* mpz_muli_raw() multiplies magnitudes, whatever its target was: no carry of a row is lost,
\* and the result is normalized.
THEOREM MultiplicationExact ==
  ASSUME NEW r, Clean(r), NEW z, Clean(z), NEW b, Clean(b)
  PROVE  LET t == mpz_muli_raw(r, z, b.d, b.l)
         IN  /\ Normal(t) /\ Size(t) = Size(z) * Size(b)
             /\ t.s = IF Size(t) = 0 THEN 0 ELSE r.s
<1> DEFINE l == b.l
           d == b.d
           M == z.l + l
           y == mpz_zero_realloc(r, M)
           Eqn(f) == f = [j \in 0 .. l |-> IF j = 0 THEN y.d ELSE Row(f[j - 1], z, d[j], j - 1)]
           R == CHOOSE f : Eqn(f)
           w == [y EXCEPT !.d = R[l], !.l = M]
           t == y.d
<1>1. z.l \in Nat /\ l \in Nat /\ M \in Nat /\ \A k \in 1 .. l : d[k] \in Digit
  BY CleanType
<1>2. mpz_muli_raw(r, z, d, l) = mpz_normalize(w)
  BY DEF mpz_muli_raw
<1>3. Blank(y) /\ Len(t) > M /\ y.s = r.s
  <2> HIDE DEF M
  <2> QED
    BY <1>1, ZeroReallocClears
<1> HIDE DEF y
<1>4. /\ y \in [d : Seq(Digit), l : Nat, s : {0, 1}]
      /\ t \in Seq(Digit) /\ Len(t) > z.l + l /\ \A k \in 1 .. Len(t) : t[k] = 0
  <2>1. Clean(y)
    BY <1>3 DEF Blank
  <2>2. y \in [d : Seq(Digit), l : Nat, s : {0, 1}]
    BY <2>1 DEF Clean
  <2> QED
    BY <1>3, <2>2, BlankIs
<1> HIDE DEF t, d, l
<1>5. Eqn(R)
  <2>1. PICK f \in [0 .. l -> Seq(Digit)] : RowsOf(f, z, d, l, t)
    BY <1>1, <1>4, RowsExist
  <2>2. ASSUME NEW j \in 0 .. l PROVE f[j] = IF j = 0 THEN y.d ELSE Row(f[j - 1], z, d[j], j - 1)
    <3>1. j # 0 => j \in 1 .. l
      BY <1>1
    <3> QED
      BY <2>1, <3>1 DEF RowsOf, t
  <2>3. f = [j \in 0 .. l |-> IF j = 0 THEN y.d ELSE Row(f[j - 1], z, d[j], j - 1)]
    BY <2>1, <2>2
  <2>4. Eqn(f)
    BY <2>3
  <2> HIDE DEF Eqn
  <2> QED
    BY <2>4
<1>6. RowsOf(R, z, d, l, t)
  <2>1. 0 \in 0 .. l /\ \A j \in 1 .. l : j \in 0 .. l /\ j # 0
    BY <1>1
  <2> HIDE DEF R
  <2> QED
    BY <1>5, <2>1 DEF RowsOf, t
<1> HIDE DEF R
<1> DEFINE e == R[l]
<1>7. /\ e \in Seq(Digit) /\ Len(e) = Len(t)
      /\ \A k \in 1 .. Len(t) : k > z.l + l => e[k] = 0
  <2>1. l \in 0 .. l
    BY <1>1
  <2> QED
    <3>1. ASSUME NEW j \in 0 .. l
          PROVE  /\ R[j] \in Seq(Digit) /\ Len(R[j]) = Len(t)
                 /\ \A k \in 1 .. Len(t) : k > z.l + j => R[j][k] = 0
      <4>1. l \in Nat /\ \A k \in 1 .. l : d[k] \in Digit
        BY <1>1
      <4>2. t \in Seq(Digit) /\ Len(t) > z.l + l /\ \A k \in 1 .. Len(t) : t[k] = 0
        BY <1>4
      <4> HIDE DEF e, M, w, Eqn
      <4> QED
        BY <4>1, <4>2, <1>6, RowsClean
    <3> QED
      BY <2>1, <3>1
<1>8. Magnitude(e, M) = Size(z) * Size(b)
  <2>1. Magnitude(e, z.l + l) = Size(z) * Magnitude(d, l)
    BY <1>1, <1>4, <1>6, RowsAddUp
  <2> QED
    BY <2>1 DEF Size, d, l
<1> HIDE DEF e
<1>9. w = [d |-> e, l |-> M, s |-> y.s]
  <2>1. w = [y EXCEPT !.d = e, !.l = M]
    BY DEF e
  <2> HIDE DEF w, M
  <2> QED
    BY <1>4, <2>1, NumberUpdate
<1> HIDE DEF w
<1>10. Clean(w) /\ Size(w) = Size(z) * Size(b) /\ w.s = r.s /\ w.d # << >>
  <2>1. y.s \in {0, 1}
    BY <1>4
  <2>2. w \in [d : Seq(Digit), l : Nat, s : {0, 1}] /\ w.d = e /\ w.l = M /\ w.s = r.s
    <3> HIDE DEF M
    <3> QED
      BY <1>1, <1>3, <1>7, <1>9, <2>1
  <2>3. Len(e) \in Nat /\ Len(e) > M
    BY <1>3, <1>7
  <2>4. Clean(w)
    BY <1>7, <2>2, <2>3 DEF Clean
  <2>5. w.d # << >>
    BY <1>1, <2>2, <2>3
  <2> QED
    BY <1>8, <2>2, <2>4, <2>5 DEF Size
<1>11. Normal(mpz_normalize(w)) /\ Size(mpz_normalize(w)) = Size(w)
       /\ mpz_normalize(w).s = IF w.d # << >> /\ Size(w) = 0 THEN 0 ELSE w.s
  BY <1>10, NormalizeClean
<1> QED
  BY <1>2, <1>10, <1>11 DEF d, l

\* The product of magnitudes with a sign, copied into a number.
Product(y, s, z, b) == mpz_set(y, mpz_muli_raw([mpz_init EXCEPT !.s = s], z, b.d, b.l))

\* The product that goes through a temporary, which takes the sign of the target.
LEMMA ProductIs ==
  ASSUME NEW y, Clean(y), NEW s \in {0, 1}, NEW z, Normal(z), NEW b, Normal(b)
  PROVE  /\ Normal(Product(y, s, z, b)) /\ Size(Product(y, s, z, b)) = Size(z) * Size(b)
         /\ Value(Product(y, s, z, b)) = IF s = 1 THEN -Size(Product(y, s, z, b))
                                        ELSE Size(Product(y, s, z, b))
<1> DEFINE r == [mpz_init EXCEPT !.s = s]
           p == mpz_muli_raw(r, z, b.d, b.l)
<1>1. Clean(z) /\ Clean(b)
  BY DEF Normal
<1>2. Clean(r) /\ r.s = s
  BY InitIs, SignUpdate DEF Normal
<1> HIDE DEF r
<1>3. Normal(p) /\ Size(p) = Size(z) * Size(b) /\ p.s = IF Size(p) = 0 THEN 0 ELSE s
  BY <1>1, <1>2, MultiplicationExact
<1> HIDE DEF p
<1>4. Clean(p)
  BY <1>3 DEF Normal
<1>5. /\ Size(p) \in Nat
      /\ p.s = 0 => Value(p) = Size(p)
      /\ p.s = 1 => Value(p) = -Size(p)
  BY <1>4, ValueIs
<1> DEFINE v == Size(p)
<1>6. Value(p) = IF s = 1 THEN -v ELSE v
  <2>1. CASE v = 0
    <3>1. p.s = 0 /\ Value(p) = 0
      BY <1>3, <1>5, <2>1
    <3>2. v >= 0 /\ v <= 0
      BY <1>5, <2>1
    <3>3. -v = v
      BY <3>2, <1>5
    <3> QED
      BY <2>1, <3>1, <3>3
  <2>2. CASE v # 0
    BY <1>3, <1>5, <2>2
  <2> QED
    BY <2>1, <2>2
<1> DEFINE t == mpz_set(y, p)
<1>7. Normal(t) /\ Size(t) = Size(p) /\ Value(t) = Value(p)
  BY <1>3, <1>4, SetCopies
<1>8. t = Product(y, s, z, b)
  BY DEF p, r, Product
<1> HIDE DEF t
<1> QED
  BY <1>3, <1>6, <1>7, <1>8

\* mpz_mul() multiplies numbers with signs.
THEOREM SignedMultiplication ==
  ASSUME NEW a, Normal(a), NEW b, Normal(b)
  PROVE  Normal(mpz_mul(a, b)) /\ Value(mpz_mul(a, b)) = Value(a) * Value(b)
<1> DEFINE s == (a.s + b.s) % 2
           y == [a EXCEPT !.s = s]
           t == Product(y, s, a, b)
           p == Size(a)
           q == Size(b)
<1>1. /\ p \in Nat /\ q \in Nat /\ a.s \in {0, 1} /\ b.s \in {0, 1}
      /\ a.s = 0 => Value(a) = p
      /\ a.s = 1 => Value(a) = -p
      /\ b.s = 0 => Value(b) = q
      /\ b.s = 1 => Value(b) = -q
  BY SignCases
<1>2. s \in {0, 1} /\ (a.s = b.s => s = 0) /\ (a.s # b.s => s = 1)
  BY <1>1
<1>3. mpz_mul(a, b) = t
  BY DEF mpz_mul, Product
<1> HIDE DEF s
<1>4. Clean(y)
  BY <1>2, SignUpdate DEF Normal
<1> HIDE DEF y
<1>5. Normal(t) /\ Value(t) = IF s = 1 THEN -(p * q) ELSE p * q
  <2>1. /\ Normal(t) /\ Size(t) = Size(a) * Size(b)
        /\ Value(t) = IF s = 1 THEN -Size(t) ELSE Size(t)
    BY <1>2, <1>4, ProductIs
  <2> QED
    BY <2>1
<1> HIDE DEF t, p, q
<1>6. (-p) * q = -(p * q) /\ p * (-q) = -(p * q) /\ (-p) * (-q) = p * q
  BY <1>1
<1>7. Value(t) = Value(a) * Value(b)
  <2>1. CASE a.s = 0 /\ b.s = 0
    BY <1>1, <1>2, <1>5, <2>1
  <2>2. CASE a.s = 0 /\ b.s = 1
    BY <1>1, <1>2, <1>5, <1>6, <2>2
  <2>3. CASE a.s = 1 /\ b.s = 0
    BY <1>1, <1>2, <1>5, <1>6, <2>3
  <2>4. CASE a.s = 1 /\ b.s = 1
    BY <1>1, <1>2, <1>5, <1>6, <2>4
  <2> QED
    BY <1>1, <2>1, <2>2, <2>3, <2>4
<1> QED
  BY <1>3, <1>5, <1>7

\* mpz_mul_ui() multiplies by an immediate.
LEMMA MulUiIs ==
  ASSUME NEW z, Normal(z), NEW u \in Digit
  PROVE  Normal(mpz_mul_ui(z, u)) /\ Size(mpz_mul_ui(z, u)) = Size(z) * u
<1> DEFINE b == u32tompz(u)
           s == z.s
           t == Product(z, s, z, b)
<1>1. Normal(b) /\ Size(b) = u
  BY ImmediateIs
<1>2. Clean(z) /\ s \in {0, 1}
  BY CleanType DEF Normal
<1>3. mpz_mul_ui(z, u) = t
  BY DEF mpz_mul_ui, Product
<1> HIDE DEF b, s
<1>4. Normal(t) /\ Size(t) = Size(z) * Size(b)
  BY <1>1, <1>2, ProductIs
<1> QED
  BY <1>1, <1>3, <1>4

-----------------------------------------------------------------------------
(* Shifts.                                                                 *)

\* Quotient and remainder of naturals.
LEMMA DivIs ==
  ASSUME NEW a \in Nat, NEW b \in Nat, b >= 1
  PROVE  /\ a \div b \in Nat /\ a % b \in 0 .. b - 1 /\ a = b * (a \div b) + (a % b)
OBVIOUS

\* A greater factor makes a product greater by another factor at least.
LEMMA ProductGrows ==
  ASSUME NEW b \in Nat, NEW h \in Nat, NEW g \in Nat, g > h
  PROVE  b * g >= b * h + b
<1>1. PICK i \in Nat : g = h + 1 + i
  <2>1. g - h - 1 \in Nat /\ g = h + 1 + (g - h - 1)
    OBVIOUS
  <2> QED
    BY <2>1
<1>2. b * (h + 1 + i) = b * h + b + b * i
  OBVIOUS
<1>3. b * i \in Nat /\ b * h \in Nat
  OBVIOUS
<1> QED
  BY <1>1, <1>2, <1>3

\* There is one quotient, and one remainder.
LEMMA DivUnique ==
  ASSUME NEW b \in Nat, b >= 1, NEW h \in Nat, NEW t \in Nat, t < b
  PROVE  (b * h + t) \div b = h /\ (b * h + t) % b = t
<1> DEFINE a == b * h + t
           g == a \div b
           s == a % b
           bh == b * h
           bg == b * g
<1>1. a \in Nat
  OBVIOUS
<1>2. g \in Nat /\ s \in 0 .. b - 1 /\ a = bg + s
  <2> HIDE DEF a
  <2> QED
    BY <1>1, DivIs
<1>3. bh \in Nat /\ bg \in Nat /\ a = bh + t
  BY <1>2
<1> HIDE DEF a, g, s
<1>4. (g > h => bg >= bh + b) /\ (h > g => bh >= bg + b)
  BY <1>2, ProductGrows
<1>5. g = h => bg = bh
  OBVIOUS
<1> HIDE DEF bh, bg
<1>6. g = h /\ s = t
  BY <1>2, <1>3, <1>4, <1>5
<1> QED
  BY <1>6 DEF a, g, s

\* Shifting a multiple away.
LEMMA DivPlus ==
  ASSUME NEW b \in Nat, b >= 1, NEW a \in Nat, NEW c \in Nat
  PROVE  (a + b * c) \div b = (a \div b) + c
<1> DEFINE h == a \div b
           t == a % b
           g == h + c
<1>1. h \in Nat /\ t \in 0 .. b - 1 /\ a = b * h + t
  BY DivIs
<1> HIDE DEF h, t
<1>2. g \in Nat /\ t \in Nat /\ t < b
  BY <1>1
<1>3. b * (h + c) = b * h + b * c
  BY <1>1
<1> DEFINE bh == b * h
           bc == b * c
           bg == b * g
<1>4. bh \in Nat /\ bc \in Nat /\ bg = bh + bc /\ a = bh + t
  BY <1>1, <1>3
<1>5. (bg + t) \div b = g
  <2> HIDE DEF g
  <2> QED
    BY <1>2, DivUnique
<1> HIDE DEF bh, bc, bg, g
<1>6. a + bc = bg + t
  BY <1>2, <1>4
<1>7. (a + bc) \div b = g
  BY <1>5, <1>6
<1> QED
  BY <1>7 DEF bc, g, h

\* Shifting by one more.
LEMMA DivTwice ==
  ASSUME NEW p \in Nat, p >= 1, NEW a \in Nat
  PROVE  /\ a \div p = 2 * (a \div (2 * p)) + ((a \div p) % 2)
         /\ (a \div p) % 2 \in {0, 1} /\ a \div p \in Nat /\ a \div (2 * p) \in Nat
<1> DEFINE h == a \div p
           t == a % p
           g == h \div 2
           c == h % 2
           q == 2 * p
           y == p * c + t
<1>1. h \in Nat /\ t \in 0 .. p - 1 /\ a = p * h + t
  BY DivIs
<1> HIDE DEF h, t
<1>2. g \in Nat /\ c \in {0, 1} /\ h = 2 * g + c
  BY <1>1
<1> HIDE DEF g, c
<1>3. p * c \in {0, p} /\ p * (2 * g + c) = (2 * p) * g + p * c
  BY <1>2
<1>4. q \in Nat /\ q >= 1 /\ y \in Nat /\ y < q
  BY <1>1, <1>3
<1> DEFINE qg == q * g
           pc == p * c
           ph == p * h
<1>5. qg \in Nat /\ pc \in Nat /\ ph = qg + pc /\ y = pc + t /\ a = ph + t
  BY <1>1, <1>2, <1>3
<1>6. (qg + y) \div q = g
  <2> HIDE DEF q, y
  <2> QED
    BY <1>2, <1>4, DivUnique
<1> HIDE DEF qg, pc, ph, y, q
<1>7. a = qg + y
  BY <1>1, <1>5
<1>8. a \div q = g
  BY <1>6, <1>7
<1> QED
  BY <1>1, <1>2, <1>8 DEF h, g, c, q

\* The weights of the bits of an atom.
LEMMA BitFacts ==
  ASSUME NEW j \in 0 .. ATOMBITS - 1
  PROVE  /\ 2 ^ j \in Nat /\ 2 ^ j >= 1 /\ 2 ^ (j + 1) = 2 * 2 ^ j
         /\ 2 ^ (ATOMBITS - 1 - j) \in Nat /\ 2 ^ (ATOMBITS - 1 - j) >= 1
         /\ MPZ_BASE = 2 ^ j * (2 * 2 ^ (ATOMBITS - 1 - j))
<1> DEFINE i == ATOMBITS - 1 - j
           one == 1
<1>1. i \in Nat /\ j \in Nat /\ one \in Nat /\ i + 1 \in Nat /\ j + (i + 1) = ATOMBITS
  BY AtomAssumption
<1> HIDE DEF i, one
<1>2. 2 ^ j \in Nat /\ 2 ^ j >= 1 /\ 2 ^ i \in Nat /\ 2 ^ i >= 1
  BY <1>1, PowerPositive
<1>3. 2 ^ (j + one) = 2 ^ j * 2 ^ one /\ 2 ^ (i + one) = 2 ^ i * 2 ^ one
  BY <1>1, PowerSum
<1> DEFINE k == i + 1
<1>4. k \in Nat
  BY <1>1
<1> HIDE DEF k
<1>5. 2 ^ (j + k) = 2 ^ j * 2 ^ k
  BY <1>1, <1>4, PowerSum
<1>6. 2 ^ one = 2
  BY PowerOfOne DEF one
<1>7. 2 ^ (j + one) = 2 ^ j * 2 /\ 2 ^ (i + one) = 2 ^ i * 2
  BY <1>3, <1>6
<1>8. 2 ^ k = 2 ^ i * 2
  BY <1>7 DEF k, one
<1>9. MPZ_BASE = 2 ^ j * 2 ^ k
  BY <1>1, <1>5 DEF MPZ_BASE, k
<1> DEFINE p == 2 ^ j
           q == 2 ^ i
<1>10. 2 ^ (j + 1) = p * 2 /\ p \in Nat /\ q \in Nat /\ MPZ_BASE = p * (q * 2)
  BY <1>2, <1>7, <1>8, <1>9 DEF one
<1> HIDE DEF p, q
<1>11. p * 2 = 2 * p /\ q * 2 = 2 * q
  BY <1>10
<1>12. MPZ_BASE = p * (2 * q) /\ 2 ^ (j + 1) = 2 * p
  BY <1>10, <1>11
<1> QED
  BY <1>2, <1>12 DEF p, q, i

\* The atoms from some place on, which may be beyond the last.
From(d, l, i) == IF i <= l THEN Upper(d, l)[i] ELSE 0

\* The atoms from the i-th on are the i-th and MPZ_BASE times those above it.
LEMMA FromIs ==
  ASSUME NEW d, NEW l \in Nat, \A k \in 1 .. l : d[k] \in Digit, NEW i \in Nat, i >= 1
  PROVE  /\ From(d, l, i) \in Nat /\ From(d, l, i + 1) \in Nat /\ Atom(d, l, i) \in Digit
         /\ From(d, l, i) = Atom(d, l, i) + MPZ_BASE * From(d, l, i + 1)
         /\ From(d, l, 1) = Magnitude(d, l)
<1> DEFINE U == Upper(d, l)
           B == MPZ_BASE
<1>1. U \in [1 .. l + 1 -> Nat] /\ Horner(U, d, l) /\ Magnitude(d, l) = U[1]
  BY MagnitudeIs
<1>2. U[l + 1] = 0 /\ \A k \in 1 .. l : U[k] = d[k] + B * U[k + 1]
  BY <1>1 DEF Horner
<1>3. 0 \in Digit /\ B \in Nat /\ B * 0 = 0
  BY BaseFacts DEF Digit
<1> HIDE DEF U, B
<1>4. From(d, l, 1) = Magnitude(d, l)
  <2>1. 1 <= l \/ l = 0
    OBVIOUS
  <2>2. l = 0 => U[1] = 0
    BY <1>2
  <2> QED
    BY <1>1, <2>1, <2>2 DEF From, U
<1>5. CASE i < l
  <2>1. i \in 1 .. l /\ i \in 1 .. l + 1 /\ i + 1 \in 1 .. l + 1 /\ i <= l /\ i + 1 <= l
    BY <1>5
  <2>2. U[i] \in Nat /\ U[i + 1] \in Nat /\ d[i] \in Digit /\ U[i] = d[i] + B * U[i + 1]
    BY <1>1, <1>2, <2>1
  <2>3. From(d, l, i) = U[i] /\ From(d, l, i + 1) = U[i + 1] /\ Atom(d, l, i) = d[i]
    BY <2>1 DEF From, Atom, U
  <2> QED
    BY <1>4, <2>2, <2>3 DEF B
<1>6. CASE i = l
  <2>1. i \in 1 .. l /\ i \in 1 .. l + 1 /\ i <= l /\ ~(i + 1 <= l)
    BY <1>6
  <2>2. U[i] \in Nat /\ d[i] \in Digit /\ U[i] = d[i] + B * 0
    BY <1>1, <1>2, <1>6, <2>1
  <2>3. From(d, l, i) = U[i] /\ From(d, l, i + 1) = 0 /\ Atom(d, l, i) = d[i]
    BY <2>1 DEF From, Atom, U
  <2> QED
    BY <1>4, <2>2, <2>3 DEF B
<1>7. CASE i > l
  <2>1. ~(i <= l) /\ ~(i + 1 <= l)
    BY <1>7
  <2>2. From(d, l, i) = 0 /\ From(d, l, i + 1) = 0 /\ Atom(d, l, i) = 0
    BY <2>1 DEF From, Atom
  <2>3. 0 = 0 + B * 0
    BY <1>3
  <2> QED
    BY <1>3, <1>4, <2>2, <2>3 DEF B
<1> QED
  BY <1>5, <1>6, <1>7

\* A number without its last bits, and one of its bits.
Shifted(d, l, bit) == From(d, l, 1 + bit \div ATOMBITS) \div 2 ^ (bit % ATOMBITS)
BitAt(d, l, bit) == (Atom(d, l, 1 + bit \div ATOMBITS) \div 2 ^ (bit % ATOMBITS)) % 2

\* Where a bit is, and the next one.
LEMMA BitPlace ==
  ASSUME NEW bit \in Nat
  PROVE  /\ bit \div ATOMBITS \in Nat /\ bit % ATOMBITS \in 0 .. ATOMBITS - 1
         /\ bit = ATOMBITS * (bit \div ATOMBITS) + (bit % ATOMBITS)
         /\ bit % ATOMBITS < ATOMBITS - 1 =>
              (bit + 1) \div ATOMBITS = bit \div ATOMBITS /\ (bit + 1) % ATOMBITS = (bit % ATOMBITS) + 1
         /\ bit % ATOMBITS = ATOMBITS - 1 =>
              (bit + 1) \div ATOMBITS = (bit \div ATOMBITS) + 1 /\ (bit + 1) % ATOMBITS = 0
<1> DEFINE b == ATOMBITS
           h == bit \div b
           t == bit % b
<1>1. b \in Nat /\ b >= 1
  BY AtomAssumption
<1> HIDE DEF b
<1>2. h \in Nat /\ t \in 0 .. b - 1 /\ bit = b * h + t
  BY <1>1, DivIs
<1> HIDE DEF h, t
<1>3. t < b - 1 => (bit + 1) \div b = h /\ (bit + 1) % b = t + 1
  <2> DEFINE s == t + 1
             bh == b * h
  <2>1. t < b - 1 => (b * h + s) \div b = h /\ (b * h + s) % b = s
    <3>1. t < b - 1 => s \in Nat /\ s < b
      BY <1>1, <1>2
    <3> HIDE DEF s
    <3> QED
      BY <1>1, <1>2, <3>1, DivUnique
  <2>2. bh \in Nat /\ bit = bh + t
    BY <1>1, <1>2
  <2>3. bit + 1 = bh + s
    <3> HIDE DEF bh
    <3> QED
      BY <1>2, <2>2
  <2> QED
    BY <2>1, <2>3
<1>4. t = b - 1 => (bit + 1) \div b = h + 1 /\ (bit + 1) % b = 0
  <2> DEFINE g == h + 1
             o == 0
             bh == b * h
             bg == b * g
  <2>1. g \in Nat /\ o \in Nat /\ o < b /\ b * (h + 1) = b * h + b
    BY <1>1, <1>2
  <2>2. (b * g + o) \div b = g /\ (b * g + o) % b = o
    <3> HIDE DEF g, o
    <3> QED
      BY <1>1, <2>1, DivUnique
  <2>3. bh \in Nat /\ bit = bh + t /\ bg = bh + b
    BY <1>1, <1>2, <2>1
  <2>4. t = b - 1 => bit + 1 = bg + o
    <3> HIDE DEF bh, bg, g
    <3> QED
      BY <1>1, <1>2, <2>3
  <2> QED
    BY <2>2, <2>4
<1> QED
  BY <1>2, <1>3, <1>4 DEF h, t, b

\* The atoms above an atom come down as an even number.
LEMMA ShiftedAtom ==
  ASSUME NEW a \in Digit, NEW g \in Nat, NEW j \in 0 .. ATOMBITS - 1
  PROVE  /\ (a + MPZ_BASE * g) \div 2 ^ j = (a \div 2 ^ j) + 2 * (2 ^ (ATOMBITS - 1 - j) * g)
         /\ a \div 2 ^ j \in Nat /\ 2 ^ (ATOMBITS - 1 - j) * g \in Nat
         /\ ((a + MPZ_BASE * g) \div 2 ^ j) % 2 = (a \div 2 ^ j) % 2
<1> DEFINE p == 2 ^ j
           w == 2 ^ (ATOMBITS - 1 - j)
           c == 2 * (w * g)
           h == a \div p
<1>1. p \in Nat /\ p >= 1 /\ w \in Nat /\ MPZ_BASE = p * (2 * w) /\ a \in Nat
  BY BitFacts, BaseFacts DEF Digit
<1> HIDE DEF p, w
<1>2. (p * (2 * w)) * g = p * (2 * (w * g)) /\ w * g \in Nat
  <2> DEFINE v == w * g
  <2>1. (p * (2 * w)) * g = p * ((2 * w) * g)
    <3> DEFINE u == 2 * w
    <3>1. u \in Nat
      BY <1>1
    <3> HIDE DEF u
    <3>2. (p * u) * g = p * (u * g)
      BY <1>1, <3>1
    <3> QED
      BY <3>2 DEF u
  <2>2. (2 * w) * g = 2 * (w * g) /\ w * g \in Nat
    BY <1>1
  <2> QED
    BY <2>1, <2>2
<1>3. c \in Nat
  BY <1>2
<1>4. (a + p * c) \div p = (a \div p) + c
  <2> HIDE DEF c
  <2> QED
    BY <1>1, <1>3, DivPlus
<1>5. h \in Nat
  BY <1>1, DivIs
<1>6. MPZ_BASE * g = p * c
  BY <1>1, <1>2
<1> DEFINE v == w * g
<1>7. (h + 2 * v) % 2 = h % 2
  <2>1. v \in Nat
    BY <1>2
  <2> HIDE DEF v, h
  <2> QED
    BY <1>5, <2>1
<1> QED
  BY <1>2, <1>4, <1>5, <1>6, <1>7 DEF p, w

\* Taking one bit less.
LEMMA ShiftedStep ==
  ASSUME NEW d, NEW l \in Nat, \A k \in 1 .. l : d[k] \in Digit, NEW bit \in Nat
  PROVE  /\ Shifted(d, l, bit) = 2 * Shifted(d, l, bit + 1) + BitAt(d, l, bit)
         /\ Shifted(d, l, bit) \in Nat /\ Shifted(d, l, bit + 1) \in Nat
         /\ BitAt(d, l, bit) \in {0, 1}
<1> DEFINE i == 1 + bit \div ATOMBITS
           j == bit % ATOMBITS
           p == 2 ^ j
           w == 2 ^ (ATOMBITS - 1 - j)
           a == Atom(d, l, i)
           f == From(d, l, i)
           g == From(d, l, i + 1)
           o == bit + 1
<1>1. /\ bit \div ATOMBITS \in Nat /\ j \in 0 .. ATOMBITS - 1
      /\ j < ATOMBITS - 1 => o \div ATOMBITS = bit \div ATOMBITS /\ o % ATOMBITS = j + 1
      /\ j = ATOMBITS - 1 => o \div ATOMBITS = (bit \div ATOMBITS) + 1 /\ o % ATOMBITS = 0
  BY BitPlace
<1>2. i \in Nat /\ i >= 1
  BY <1>1
<1>3. Shifted(d, l, bit) = f \div p /\ BitAt(d, l, bit) = (a \div p) % 2
  BY DEF Shifted, BitAt
<1>4. /\ j < ATOMBITS - 1 => Shifted(d, l, o) = f \div 2 ^ (j + 1)
      /\ j = ATOMBITS - 1 => Shifted(d, l, o) = g \div 2 ^ 0
  <2>1. j = ATOMBITS - 1 => 1 + o \div ATOMBITS = i + 1
    BY <1>1
  <2> QED
    BY <1>1, <2>1 DEF Shifted
<1> HIDE DEF i
<1>5. f \in Nat /\ g \in Nat /\ a \in Digit /\ f = a + MPZ_BASE * g
  BY <1>2, FromIs
<1> HIDE DEF f, g, a, j, o
<1>6. /\ p \in Nat /\ p >= 1 /\ 2 ^ (j + 1) = 2 * p
      /\ w \in Nat /\ w >= 1 /\ MPZ_BASE = p * (2 * w)
  BY <1>1, BitFacts
<1>7. /\ f \div p = (a \div p) + 2 * (w * g) /\ a \div p \in Nat /\ w * g \in Nat
      /\ (f \div p) % 2 = (a \div p) % 2
  BY <1>1, <1>5, ShiftedAtom
<1>8. /\ f \div p = 2 * (f \div (2 * p)) + ((f \div p) % 2)
      /\ (f \div p) % 2 \in {0, 1} /\ f \div p \in Nat /\ f \div (2 * p) \in Nat
  <2> HIDE DEF p
  <2> QED
    BY <1>5, <1>6, DivTwice
<1>9. CASE j < ATOMBITS - 1
  <2>1. Shifted(d, l, o) = f \div (2 * p)
    BY <1>4, <1>6, <1>9
  <2> QED
    BY <1>3, <1>7, <1>8, <2>1 DEF o
<1>10. CASE j = ATOMBITS - 1
  <2>1. w = 1
    <3>1. ATOMBITS - 1 - j = 0
      BY <1>10, AtomAssumption
    <3>2. 2 ^ 0 = 1
      OBVIOUS
    <3> QED
      BY <3>1, <3>2
  <2>2. w * g = g /\ MPZ_BASE = p * 2
    BY <1>5, <1>6, <2>1
  <2>3. a \div p \in {0, 1}
    <3> DEFINE h == a \div p
               t == a % p
               ph == p * h
    <3>1. a \in Nat /\ a < p * 2
      BY <1>5, <2>2, BaseFacts DEF Digit
    <3>2. h \in Nat /\ t \in 0 .. p - 1 /\ a = ph + t
      <4> HIDE DEF p
      <4> QED
        BY <1>6, <3>1, DivIs
    <3> HIDE DEF h, t, p
    <3>3. h >= 2 => ph >= p * 2
      <4>1. PICK r \in Int : h = 2 + r
        <5>1. h = 2 + (h - 2) /\ h - 2 \in Int
          BY <3>2
        <5> QED
          BY <5>1
      <4>2. p * (2 + r) = p * 2 + p * r
        BY <1>6
      <4>3. r >= 0 => p * r >= 0
        BY <1>6
      <4> QED
        BY <1>6, <3>2, <4>1, <4>2, <4>3
    <3>4. ~(h >= 2)
      <4>1. ph \in Nat
        BY <1>6, <3>2
      <4> HIDE DEF ph
      <4> QED
        BY <1>6, <3>1, <3>2, <3>3, <4>1
    <3> QED
      BY <3>2, <3>4 DEF h
  <2>4. (a \div p) % 2 = a \div p
    <3> DEFINE h == a \div p
    <3>1. h \in {0, 1}
      BY <2>3
    <3> HIDE DEF h
    <3>2. h % 2 = h
      BY <3>1
    <3> QED
      BY <3>2 DEF h
  <2>5. Shifted(d, l, o) = g
    <3>1. 2 ^ 0 = 1
      OBVIOUS
    <3>2. g \div 1 = g
      BY <1>5
    <3> QED
      BY <1>4, <1>10, <3>1, <3>2
  <2>6. f \div p = (a \div p) + 2 * g
    BY <1>7, <2>2
  <2> DEFINE h == a \div p
             e == f \div p
  <2>7. e = 2 * g + h
    <3>1. h \in Nat /\ e = h + 2 * g
      BY <1>7, <2>6
    <3> HIDE DEF h, e
    <3> QED
      BY <1>5, <3>1
  <2> QED
    BY <1>3, <1>5, <1>7, <1>8, <2>3, <2>4, <2>5, <2>7 DEF o
<1> QED
  BY <1>1, <1>9, <1>10, AtomAssumption

\* Without any bits taken off it is the number.
LEMMA ShiftedWhole ==
  ASSUME NEW d, NEW l \in Nat, \A k \in 1 .. l : d[k] \in Digit
  PROVE  Shifted(d, l, 0) = Magnitude(d, l)
<1> DEFINE i == 1 + 0 \div ATOMBITS
           f == From(d, l, 1)
           one == 1
<1>1. 0 \div ATOMBITS = 0 /\ 0 % ATOMBITS = 0
  <2> DEFINE b == ATOMBITS
             o == 0
  <2>1. b \in Nat /\ b >= 1 /\ o \in Nat /\ o < b /\ b * 0 + o = o
    BY AtomAssumption
  <2> HIDE DEF b
  <2>2. (b * 0 + o) \div b = 0 /\ (b * 0 + o) % b = o
    <3> HIDE DEF o
    <3> QED
      BY <2>1, DivUnique
  <2> QED
    BY <2>1, <2>2 DEF b
<1>2. one \in Nat /\ one >= 1
  OBVIOUS
<1>3. From(d, l, one) \in Nat /\ From(d, l, 1) = Magnitude(d, l)
  <2> HIDE DEF one
  <2> QED
    BY <1>2, FromIs
<1>4. f \in Nat /\ f \div 1 = f /\ 2 ^ 0 = 1
  <2>1. f \in Nat
    BY <1>3
  <2> HIDE DEF f
  <2> QED
    BY <2>1
<1>5. Shifted(d, l, 0) = From(d, l, i) \div 2 ^ (0 % ATOMBITS)
  BY DEF Shifted
<1>6. i = 1
  BY <1>1
<1>7. Shifted(d, l, 0) = f \div 1
  BY <1>1, <1>4, <1>5, <1>6
<1> QED
  BY <1>3, <1>4, <1>7

\* The bits of an atom.
LEMMA BitsOfIs ==
  ASSUME NEW a \in Digit
  PROVE  /\ BitsOf(a) \in 0 .. ATOMBITS /\ 2 ^ BitsOf(a) > a
         /\ a >= 1 => BitsOf(a) >= 1
<1> DEFINE S == {i \in 0 .. ATOMBITS : 2 ^ i > a}
<1>1. ATOMBITS \in Nat /\ ATOMBITS \in S /\ S \in SUBSET Nat
  <2>1. a < 2 ^ ATOMBITS /\ a \in Nat /\ 2 ^ ATOMBITS \in Nat
    BY BaseFacts DEF Digit, MPZ_BASE
  <2> QED
    BY <2>1, AtomAssumption
<1>2. Min(S) \in S
  <2> HIDE DEF S
  <2>1. S # {}
    BY <1>1
  <2> QED
    BY <1>1, <2>1, MinIn
<1>3. BitsOf(a) \in 0 .. ATOMBITS /\ 2 ^ BitsOf(a) > a
  BY <1>2 DEF BitsOf
<1>4. a >= 1 => BitsOf(a) # 0
  <2>1. ASSUME a >= 1, BitsOf(a) = 0 PROVE FALSE
    <3>1. 2 ^ 0 = 1 /\ a \in Nat
      BY BaseFacts DEF Digit
    <3>2. 2 ^ 0 > a
      BY <1>3, <2>1
    <3> QED
      BY <2>1, <3>1, <3>2
  <2> QED
    BY <2>1
<1> QED
  BY <1>3, <1>4

\* mpz_bits() counts the bits of a number: there is none beyond.
LEMMA BitsIs ==
  ASSUME NEW z, Normal(z), z.l >= 1
  PROVE  /\ mpz_bits(z) \in Nat /\ mpz_bits(z) <= ATOMBITS * z.l
         /\ Shifted(z.d, z.l, mpz_bits(z)) = 0
<1> DEFINE b == ATOMBITS
           l == z.l
           d == z.d
           g == l - 1
           a == d[l]
           k == BitsOf(a)
           bits == g * b + k
           bg == b * g
<1>1. Clean(z)
  BY DEF Normal
<1>2. l \in Nat /\ l \in 1 .. l /\ \A i \in 1 .. l : d[i] \in Digit
  BY <1>1, CleanType
<1>3. a \in Digit
  BY <1>2
<1>4. k \in 0 .. b /\ 2 ^ k > a
  <2> HIDE DEF a
  <2> QED
    BY <1>3, BitsOfIs
<1>5. b \in Nat /\ b >= 1 /\ g \in Nat /\ g + 1 = l
  BY <1>2, AtomAssumption
<1>6. mpz_bits(z) = bits
  BY DEF mpz_bits
<1> HIDE DEF b, k, a, g, l, d
<1>7. g * b = bg /\ bg \in Nat /\ b * l = bg + b
  <2>1. b * (g + 1) = b * g + b
    BY <1>5
  <2> QED
    BY <1>5, <2>1
<1>8. bits \in Nat /\ bits <= b * l /\ bits = bg + k
  <2>1. bits = bg + k
    BY <1>7
  <2> DEFINE bl == b * l
  <2>2. bl = bg + b
    BY <1>7
  <2> HIDE DEF bits, bg, bl
  <2>3. bits \in Nat /\ bits <= bl
    BY <1>4, <1>5, <1>7, <2>1, <2>2
  <2> QED
    BY <2>1, <2>3 DEF bl
<1>9. Shifted(d, l, bits) = 0
  <2>1. CASE k < b
    <3>1. (b * g + k) \div b = g /\ (b * g + k) % b = k
      <4>1. k \in Nat
        BY <1>4
      <4> QED
        BY <1>5, <2>1, <4>1, DivUnique
    <3>2. bits \div b = g /\ bits % b = k
      BY <1>8, <3>1
    <3>3. Shifted(d, l, bits) = From(d, l, l) \div 2 ^ k
      <4>1. 1 + g = l
        BY <1>5
      <4> QED
        BY <3>2, <4>1 DEF Shifted, b
    <3>4. From(d, l, l) = a
      <4>1. /\ From(d, l, l) = Atom(d, l, l) + MPZ_BASE * From(d, l, l + 1)
        <5>1. l \in Nat /\ l >= 1 /\ \A i \in 1 .. l : d[i] \in Digit
          BY <1>2
        <5> HIDE DEF bits
        <5> QED
          BY <5>1, FromIs
      <4>2. From(d, l, l + 1) = 0 /\ Atom(d, l, l) = a
        BY <1>2 DEF From, Atom, a
      <4>3. MPZ_BASE * 0 = 0 /\ a + 0 = a
        BY <1>3, BaseFacts DEF Digit
      <4> QED
        BY <4>1, <4>2, <4>3
    <3> DEFINE p == 2 ^ k
    <3>5. p \in Nat /\ p >= 1 /\ a \in Nat /\ a < p
      <4>1. k \in Nat
        BY <1>4
      <4>2. p \in Nat /\ p >= 1
        BY <4>1, PowerPositive
      <4> QED
        BY <1>3, <1>4, <4>2, BaseFacts DEF Digit
    <3>6. a \div p = 0
      <4> DEFINE o == 0
      <4> HIDE DEF p
      <4>1. o \in Nat /\ p * o + a = a
        BY <3>5
      <4>2. (p * o + a) \div p = o
        <5> HIDE DEF o
        <5> QED
          BY <3>5, <4>1, DivUnique
      <4> QED
        BY <4>1, <4>2
    <3> QED
      BY <3>3, <3>4, <3>6
  <2>2. CASE k = b
    <3> DEFINE o == 0
    <3>1. o \in Nat /\ o < b
      BY <1>5
    <3>2. (b * l + o) \div b = l /\ (b * l + o) % b = o
      <4> HIDE DEF o
      <4> QED
        BY <1>2, <1>5, <3>1, DivUnique
    <3>3. bits = b * l + o
      <4> DEFINE bl == b * l
      <4>1. bl = bg + b /\ bl \in Nat
        BY <1>5, <1>7
      <4>2. bits = bg + b
        BY <1>8, <2>2
      <4> QED
        BY <4>1, <4>2
    <3>4. Shifted(d, l, bits) = From(d, l, 1 + l) \div 2 ^ 0
      BY <3>2, <3>3 DEF Shifted, b
    <3>5. From(d, l, 1 + l) = 0
      <4>1. ~(1 + l <= l)
        BY <1>2
      <4> QED
        BY <4>1 DEF From
    <3>6. 0 \div 2 ^ 0 = 0
      <4>1. 2 ^ 0 = 1 /\ 0 \div 1 = 0
        OBVIOUS
      <4> QED
        BY <4>1
    <3> QED
      BY <3>4, <3>5, <3>6
  <2> QED
    BY <1>4, <1>5, <2>1, <2>2
<1> QED
  BY <1>6, <1>8, <1>9 DEF b, l, d

\* The atom of a bit of the number.
LEMMA BitBelow ==
  ASSUME NEW bit \in Nat, NEW l \in Nat, bit < ATOMBITS * l
  PROVE  bit \div ATOMBITS < l
<1> DEFINE b == ATOMBITS
           h == bit \div b
           t == bit % b
<1>1. b \in Nat /\ h \in Nat /\ t \in 0 .. b - 1 /\ bit = b * h + t
  BY BitPlace, AtomAssumption
<1> HIDE DEF h, t, b
<1> DEFINE bh == b * h
           bl == b * l
<1>2. bh \in Nat /\ bl \in Nat /\ bit = bh + t /\ bit < bl
  BY <1>1 DEF b
<1>3. h > l => bh >= bl + b
  BY <1>1, ProductGrows
<1>4. h = l => bh = bl
  OBVIOUS
<1> HIDE DEF bh, bl
<1>5. h < l
  BY <1>1, <1>2, <1>3, <1>4
<1> QED
  BY <1>5 DEF h, b

\* _mpz_testbit() reads one bit of the atoms in use.
LEMMA TestBitIs ==
  ASSUME NEW z, Clean(z), NEW bit \in Nat, bit < ATOMBITS * z.l
  PROVE  TestBit(z, bit) = BitAt(z.d, z.l, bit)
<1>1. z.l \in Nat
  BY CleanType
<1>2. bit \div ATOMBITS < z.l /\ bit \div ATOMBITS \in Nat
  <2> DEFINE l == z.l
  <2> HIDE DEF l
  <2>1. bit \div ATOMBITS < l
    BY <1>1, BitBelow DEF l
  <2> QED
    BY <2>1, BitPlace DEF l
<1> DEFINE i == 1 + bit \div ATOMBITS
<1>3. i <= z.l
  BY <1>1, <1>2
<1>4. Atom(z.d, z.l, i) = z.d[i]
  BY <1>3 DEF Atom
<1> QED
  BY <1>4 DEF TestBit, BitAt

\* Setting a bit of an atom that was clear: it is set then, and no other bit changes.
LEMMA OrBitIs ==
  ASSUME NEW a \in Digit, NEW j \in 0 .. ATOMBITS - 1, (a \div 2 ^ j) % 2 = 0
  PROVE  LET e == OrBit(a, j, 1)
         IN  /\ e \in Digit /\ (e \div 2 ^ j) % 2 = 1 /\ e \div 2 ^ (j + 1) = a \div 2 ^ (j + 1)
             /\ \A k \in 0 .. j - 1 : (e \div 2 ^ k) % 2 = (a \div 2 ^ k) % 2
<1> DEFINE p == 2 ^ j
           w == 2 ^ (ATOMBITS - 1 - j)
           e == a + p
           h == a \div p
           q == 2 * p
<1>1. OrBit(a, j, 1) = e
  BY DEF OrBit
<1>2. /\ p \in Nat /\ p >= 1 /\ w \in Nat /\ w >= 1 /\ 2 ^ (j + 1) = q
      /\ MPZ_BASE = p * (2 * w) /\ a \in Nat /\ a < MPZ_BASE
  BY BitFacts, BaseFacts DEF Digit
<1> HIDE DEF p, w
<1>3. e \in Nat
  BY <1>2
<1>4. /\ h = 2 * (a \div q) + (h % 2) /\ h \in Nat /\ a \div q \in Nat
  BY <1>2, DivTwice
<1>5. h % 2 = 0
  BY DEF p
<1>6. e \div p = h + 1
  <2> DEFINE c == 1
  <2>1. c \in Nat /\ p * c = p
    BY <1>2
  <2>2. (a + p * c) \div p = (a \div p) + c
    <3> HIDE DEF c
    <3> QED
      BY <1>2, <2>1, DivPlus
  <2> QED
    BY <2>1, <2>2
<1>7. /\ e \div p = 2 * (e \div q) + ((e \div p) % 2) /\ e \div q \in Nat
  <2> HIDE DEF e
  <2> QED
    BY <1>2, <1>3, DivTwice
<1> DEFINE g == a \div q
           f == e \div q
<1>8. h = 2 * g /\ g \in Nat /\ f \in Nat /\ h + 1 = 2 * f + ((h + 1) % 2)
  <2>1. h = 2 * g /\ g \in Nat
    <3> HIDE DEF h
    <3>1. 2 * g + 0 = 2 * g
      BY <1>4
    <3> QED
      BY <1>4, <1>5, <3>1
  <2> QED
    BY <1>6, <1>7, <2>1
<1> HIDE DEF g, f, h
<1>9. (h + 1) % 2 = 1 /\ f = g
  BY <1>8
<1>10. e \in Digit
  <2> DEFINE m == 2 * w
             s == a % p
             ph == p * h
             pm == p * m
             y == h + 1
             py == p * y
  <2>1. s \in 0 .. p - 1 /\ a = ph + s /\ m \in Nat /\ y \in Nat
    BY <1>2, <1>4, DivIs DEF h
  <2>2. pm = MPZ_BASE /\ pm \in Nat /\ ph \in Nat /\ py \in Nat /\ py = ph + p
    BY <1>2, <1>4 DEF h
  <2> HIDE DEF s, m
  <2>3. (h > m => ph >= pm + p) /\ (m > y => pm >= py + p)
    <3> HIDE DEF y
    <3> QED
      BY <1>2, <1>4, <2>1, ProductGrows DEF h
  <2>4. h = m => ph = pm
    OBVIOUS
  <2> HIDE DEF ph, pm, py
  <2>5. h < m
    BY <1>2, <1>4, <2>1, <2>2, <2>3, <2>4 DEF h
  <2>6. y # m
    <3>1. m = 2 * w /\ y = 2 * g + 1
      BY <1>8 DEF m
    <3> QED
      BY <1>2, <1>8, <3>1
  <2>7. m > y
    BY <1>4, <2>1, <2>5, <2>6 DEF h
  <2>8. e < pm
    BY <1>2, <2>1, <2>2, <2>3, <2>7
  <2> QED
    BY <1>3, <2>2, <2>8, BaseFacts DEF Digit
<1>11. ASSUME NEW k \in 0 .. j - 1 PROVE (e \div 2 ^ k) % 2 = (a \div 2 ^ k) % 2
  <2> DEFINE i == j - 1 - k
             v == k + 1
             r == 2 ^ k
             u == 2 ^ i
             c == 2 * u
             b == a \div r
  <2>1. k \in 0 .. ATOMBITS - 1 /\ i \in Nat /\ v \in Nat /\ v + i = j
    BY AtomAssumption
  <2>2. r \in Nat /\ r >= 1 /\ 2 ^ v = 2 * r
    BY <2>1, BitFacts
  <2> HIDE DEF i, v
  <2>3. u \in Nat
    BY <2>1, PowerPositive
  <2>4. 2 ^ (v + i) = 2 ^ v * 2 ^ i
    BY <2>1, PowerSum
  <2>5. p = (2 * r) * u
    BY <2>1, <2>2, <2>4 DEF p
  <2> HIDE DEF r, u
  <2>6. (2 * r) * u = r * (2 * u)
    BY <2>2, <2>3
  <2>7. c \in Nat /\ e = a + r * c
    BY <2>3, <2>5, <2>6
  <2>8. (a + r * c) \div r = (a \div r) + c
    <3> HIDE DEF c
    <3> QED
      BY <1>2, <2>2, <2>7, DivPlus
  <2>9. b \in Nat
    BY <1>2, <2>2, DivIs
  <2>10. (b + 2 * u) % 2 = b % 2
    <3> HIDE DEF b
    <3> QED
      BY <2>3, <2>9
  <2> QED
    BY <2>7, <2>8, <2>10 DEF r
<1> QED
  BY <1>1, <1>2, <1>6, <1>9, <1>10, <1>11 DEF p, f, g

\* The same atoms from some place on.
LEMMA FromAgrees ==
  ASSUME NEW d, NEW e, NEW l \in Nat, NEW i \in Nat, i >= 1,
         \A k \in 1 .. l : d[k] \in Digit /\ e[k] \in Digit, \A k \in i .. l : e[k] = d[k]
  PROVE  From(e, l, i) = From(d, l, i)
<1>1. CASE i > l
  BY <1>1 DEF From
<1>2. CASE i <= l
  <2> DEFINE j == i - 1
             f == Upper(e, l)
             g == Upper(d, l)
  <2>1. j \in 0 .. l /\ j + 1 = i
    BY <1>2
  <2> HIDE DEF j
  <2>2. Horner(f, e, l) /\ Horner(g, d, l)
    BY MagnitudeIs
  <2>3. \A k \in j + 1 .. l : e[k] = d[k]
    BY <2>1
  <2> HIDE DEF f, g
  <2>4. f[j + 1] = g[j + 1]
    BY <2>1, <2>2, <2>3, Agrees
  <2> QED
    BY <1>2, <2>1, <2>4 DEF From, f, g
<1> QED
  BY <1>1, <1>2

\* Atoms that agree above the i-th.
SameAbove(d, e, l, i) ==
  /\ \A k \in 1 .. l : d[k] \in Digit /\ e[k] \in Digit
  /\ \A k \in i + 1 .. l : e[k] = d[k]

\* Atoms that agree above the i-th are the same number from there on.
LEMMA FromAbove ==
  ASSUME NEW d, NEW e, NEW l \in Nat, NEW i \in Nat, SameAbove(d, e, l, i)
  PROVE  From(e, l, i + 1) = From(d, l, i + 1)
<1> DEFINE r == i + 1
<1>1. r \in Nat /\ r >= 1
  OBVIOUS
<1>2. /\ \A k \in 1 .. l : d[k] \in Digit /\ e[k] \in Digit
      /\ \A k \in r .. l : e[k] = d[k]
  BY DEF SameAbove
<1> HIDE DEF r
<1>3. From(e, l, r) = From(d, l, r)
  BY <1>1, <1>2, FromAgrees
<1> QED
  BY <1>3 DEF r

\* SetBit() sets one bit of the storage, and the bits above and below stay.
LEMMA SetBitIs ==
  ASSUME NEW q \in [d : Seq(Digit), l : Nat, s : {0, 1}], NEW bit \in Nat,
         bit \div ATOMBITS < Len(q.d), BitAt(q.d, Len(q.d), bit) = 0
  PROVE  LET w == SetBit(q, bit)
             h == Len(q.d)
         IN  /\ w \in [d : Seq(Digit), l : Nat, s : {0, 1}] /\ Len(w.d) = h
             /\ Shifted(w.d, h, bit + 1) = Shifted(q.d, h, bit + 1)
             /\ BitAt(w.d, h, bit) = 1
             /\ \A k \in 0 .. bit - 1 : BitAt(w.d, h, k) = BitAt(q.d, h, k)
<1> DEFINE d == q.d
           h == Len(d)
           m == bit \div ATOMBITS
           i == 1 + m
           j == bit % ATOMBITS
           a == d[i]
           y == OrBit(a, j, 1)
           e == [d EXCEPT ![i] = y]
           w == SetBit(q, bit)
           o == bit + 1
<1>1. /\ m \in Nat /\ j \in 0 .. ATOMBITS - 1 /\ bit = ATOMBITS * m + j
      /\ j < ATOMBITS - 1 => o \div ATOMBITS = m /\ o % ATOMBITS = j + 1
      /\ j = ATOMBITS - 1 => o \div ATOMBITS = m + 1 /\ o % ATOMBITS = 0
  BY BitPlace
<1>2. d \in Seq(Digit) /\ h \in Nat /\ DOMAIN d = 1 .. h /\ \A k \in 1 .. h : d[k] \in Digit
  OBVIOUS
<1>3. i \in 1 .. h /\ i \in Nat /\ i >= 1 /\ a \in Digit
  <2>1. i \in 1 .. h /\ i \in Nat /\ i >= 1
    BY <1>1, <1>2
  <2> QED
    BY <1>2, <2>1
<1>4. w.d = e /\ w.l = q.l /\ w.s = q.s /\ w = [d |-> e, l |-> q.l, s |-> q.s]
  <2>1. w = [q EXCEPT !.d[i] = OrBit(@, j, 1)]
    BY DEF SetBit
  <2> QED
    BY <2>1
<1>5. (a \div 2 ^ j) % 2 = 0
  <2>1. Atom(d, h, i) = a
    BY <1>3 DEF Atom
  <2>2. BitAt(d, h, bit) = (Atom(d, h, i) \div 2 ^ j) % 2
    BY DEF BitAt
  <2>3. BitAt(d, h, bit) = 0
    OBVIOUS
  <2> QED
    BY <2>1, <2>2, <2>3
<1> HIDE DEF w, d, m, i, j, a, y, o
<1>6. /\ y \in Digit /\ (y \div 2 ^ j) % 2 = 1 /\ y \div 2 ^ (j + 1) = a \div 2 ^ (j + 1)
      /\ \A k \in 0 .. j - 1 : (y \div 2 ^ k) % 2 = (a \div 2 ^ k) % 2
  BY <1>1, <1>3, <1>5, OrBitIs DEF y
<1>7. /\ e \in Seq(Digit) /\ Len(e) = h /\ e[i] = y
      /\ \A k \in 1 .. h : e[k] \in Digit /\ (k # i => e[k] = d[k])
  <2>1. /\ e[i] = y /\ \A k \in 1 .. h : k # i => e[k] = d[k]
    BY <1>2, <1>3
  <2>2. \A k \in 1 .. h : e[k] \in Digit
    BY <1>2, <1>6, <2>1
  <2>3. e \in [1 .. h -> Digit]
    BY <1>2, <2>2
  <2> HIDE DEF e, h
  <2>4. e \in Seq(Digit) /\ Len(e) = h
    BY <1>2, <2>3, FunctionSeq
  <2> QED
    BY <2>1, <2>2, <2>4
<1> HIDE DEF e, h
<1>8. w \in [d : Seq(Digit), l : Nat, s : {0, 1}] /\ Len(w.d) = h
  <2>1. q.l \in Nat /\ q.s \in {0, 1}
    OBVIOUS
  <2> QED
    BY <1>4, <1>7, <2>1
<1>9. BitAt(e, h, bit) = 1
  <2>1. Atom(e, h, i) = y
    BY <1>3, <1>7 DEF Atom
  <2>2. BitAt(e, h, bit) = (Atom(e, h, i) \div 2 ^ j) % 2
    BY DEF BitAt, i, m, j
  <2> QED
    BY <1>6, <2>1, <2>2
<1>10. From(e, h, i + 1) = From(d, h, i + 1)
  <2>1. \A k \in 1 .. h : d[k] \in Digit /\ e[k] \in Digit
    BY <1>2, <1>7
  <2>2. \A k \in i + 1 .. h : e[k] = d[k]
    <3>1. \A k \in i + 1 .. h : k \in 1 .. h /\ k # i
      BY <1>2, <1>3
    <3> QED
      BY <1>7, <3>1
  <2>3. h \in Nat /\ i \in Nat
    BY <1>2, <1>3
  <2> QED
    <3>1. SameAbove(d, e, h, i)
      BY <2>1, <2>2 DEF SameAbove
    <3> QED
      BY <2>3, <3>1, FromAbove
<1>11. Shifted(e, h, o) = Shifted(d, h, o)
  <2>1. CASE j = ATOMBITS - 1
    <3>1. 1 + o \div ATOMBITS = i + 1
      BY <1>1, <2>1 DEF i
    <3>2. /\ Shifted(e, h, o) = From(e, h, i + 1) \div 2 ^ (o % ATOMBITS)
          /\ Shifted(d, h, o) = From(d, h, i + 1) \div 2 ^ (o % ATOMBITS)
      BY <3>1 DEF Shifted
    <3> QED
      BY <1>10, <3>2
  <2>2. CASE j < ATOMBITS - 1
    <3> DEFINE r == j + 1
               g == From(d, h, i + 1)
    <3>1. 1 + o \div ATOMBITS = i /\ o % ATOMBITS = r /\ r \in 0 .. ATOMBITS - 1
      BY <1>1, <2>2, AtomAssumption DEF i
    <3>2. Shifted(e, h, o) = From(e, h, i) \div 2 ^ r /\ Shifted(d, h, o) = From(d, h, i) \div 2 ^ r
      BY <3>1 DEF Shifted
    <3>3. Atom(e, h, i) = y /\ Atom(d, h, i) = a
      BY <1>3, <1>7 DEF Atom, a
    <3>4. From(d, h, i) = a + MPZ_BASE * g /\ g \in Nat
      <4>1. /\ From(d, h, i) = Atom(d, h, i) + MPZ_BASE * From(d, h, i + 1)
            /\ From(d, h, i + 1) \in Nat
        BY <1>2, <1>3, FromIs
      <4> QED
        BY <3>3, <4>1
    <3>5. From(e, h, i) = y + MPZ_BASE * g
      <4>1. From(e, h, i) = Atom(e, h, i) + MPZ_BASE * From(e, h, i + 1)
        BY <1>2, <1>3, <1>7, FromIs
      <4> QED
        BY <1>10, <3>3, <4>1
    <3> HIDE DEF r, g
    <3>6. /\ (a + MPZ_BASE * g) \div 2 ^ r = (a \div 2 ^ r) + 2 * (2 ^ (ATOMBITS - 1 - r) * g)
          /\ (y + MPZ_BASE * g) \div 2 ^ r = (y \div 2 ^ r) + 2 * (2 ^ (ATOMBITS - 1 - r) * g)
      BY <1>3, <1>6, <3>1, <3>4, ShiftedAtom
    <3>7. y \div 2 ^ r = a \div 2 ^ r
      BY <1>6 DEF r
    <3> QED
      BY <3>2, <3>4, <3>5, <3>6, <3>7
  <2> QED
    BY <1>1, <2>1, <2>2, AtomAssumption
<1>12. ASSUME NEW k \in 0 .. bit - 1 PROVE BitAt(e, h, k) = BitAt(d, h, k)
  <2> DEFINE c == k \div ATOMBITS
             t == k % ATOMBITS
             r == 1 + c
  <2>1. k \in Nat /\ c \in Nat /\ t \in 0 .. ATOMBITS - 1 /\ k = ATOMBITS * c + t
    <3>1. k \in Nat
      OBVIOUS
    <3> QED
      BY <3>1, BitPlace
  <2>2. /\ BitAt(e, h, k) = (Atom(e, h, r) \div 2 ^ t) % 2
        /\ BitAt(d, h, k) = (Atom(d, h, r) \div 2 ^ t) % 2
    BY DEF BitAt
  <2> HIDE DEF c, t
  <2>3. CASE c = m
    <3>1. t \in 0 .. j - 1
      <4> DEFINE v == ATOMBITS * m
      <4>1. v \in Int /\ k = v + t /\ bit = v + j
        BY <1>1, <2>1, <2>3, AtomAssumption
      <4> HIDE DEF v
      <4> QED
        BY <1>1, <2>1, <4>1
    <3>2. r = i
      BY <2>3 DEF i
    <3>3. Atom(e, h, r) = y /\ Atom(d, h, r) = a
      BY <1>3, <1>7, <3>2 DEF Atom, a
    <3> QED
      BY <1>6, <2>2, <3>1, <3>3
  <2>4. CASE c # m
    <3>1. r # i /\ r \in Nat /\ r >= 1
      BY <1>1, <2>1, <2>4 DEF i
    <3>2. Atom(e, h, r) = Atom(d, h, r)
      <4>1. r <= h => r \in 1 .. h
        BY <1>2, <3>1
      <4> QED
        BY <1>7, <3>1, <4>1 DEF Atom
    <3> QED
      BY <2>2, <3>2
  <2> QED
    BY <2>3, <2>4
<1> QED
  BY <1>4, <1>8, <1>9, <1>11, <1>12 DEF w, d, h, o

\* An atom is doubled: its first bit goes to the next atom, the last one comes from before.
LEMMA ShiftAtom ==
  ASSUME NEW a \in Digit, NEW c \in {0, 1}
  PROVE  LET y == OrBit((2 * a) % MPZ_BASE, 0, c)
             h == a \div 2 ^ (ATOMBITS - 1)
         IN  y \in Digit /\ h \in {0, 1} /\ y + MPZ_BASE * h = 2 * a + c
<1> DEFINE b == 2 ^ (ATOMBITS - 1)
           h == a \div b
           t == a % b
           bh == b * h
           r == (2 * a) % MPZ_BASE
           y == OrBit(r, 0, c)
<1>1. b \in Nat /\ b >= 1 /\ MPZ_BASE = 2 * b /\ MPZ_BASE \in Nat /\ a \in Nat /\ a < 2 * b
  <2>1. ATOMBITS - 1 \in Nat
    BY AtomAssumption
  <2>2. b \in Nat /\ b >= 1
    <3> DEFINE i == ATOMBITS - 1
    <3> HIDE DEF i
    <3>1. 2 ^ i \in Nat /\ 2 ^ i >= 1
      BY <2>1, PowerPositive DEF i
    <3> QED
      BY <3>1 DEF i
  <2> QED
    BY <2>2, BaseFacts DEF Digit
<1> HIDE DEF b
<1>2. h \in Nat /\ t \in 0 .. b - 1 /\ a = bh + t
  BY <1>1, DivIs
<1> HIDE DEF h, t
<1>3. (h >= 2 => bh >= b + b) /\ (h = 1 => bh = b) /\ (h = 0 => bh = 0) /\ bh \in Nat
  <2> DEFINE one == 1
  <2>1. h > one => b * h >= b * one + b
    <3>1. one \in Nat
      OBVIOUS
    <3> HIDE DEF one
    <3> QED
      BY <1>1, <1>2, <3>1, ProductGrows
  <2>2. b * one = b /\ bh \in Nat
    BY <1>1, <1>2
  <2> QED
    BY <1>1, <1>2, <2>1, <2>2
<1>4. h \in {0, 1}
  <2> HIDE DEF bh
  <2> QED
    BY <1>1, <1>2, <1>3
<1>5. r = 2 * t
  <2> DEFINE m == MPZ_BASE
             s == 2 * t
             mh == m * h
  <2>1. m \in Nat /\ m >= 1 /\ s \in Nat /\ s < m
    BY <1>1, <1>2
  <2>2. (m * h + s) % m = s
    <3> HIDE DEF m, s
    <3> QED
      BY <1>2, <2>1, DivUnique
  <2>3. mh = 2 * bh
    BY <1>1, <1>2
  <2>4. 2 * a = mh + s
    <3> HIDE DEF mh, bh
    <3> QED
      BY <1>2, <1>3, <2>3
  <2> QED
    BY <2>2, <2>4
<1>6. y = r + c
  <2>1. r % 2 = 0 /\ r \in Nat
    BY <1>2, <1>5
  <2>2. 2 ^ 0 = 1
    OBVIOUS
  <2> HIDE DEF r
  <2>3. (r \div 2 ^ 0) % 2 = 0
    BY <2>1, <2>2
  <2>4. y = IF c = 1 THEN r + 1 ELSE r
    BY <2>2, <2>3 DEF OrBit
  <2> QED
    BY <2>1, <2>4
<1>7. y + MPZ_BASE * h = 2 * a + c
  <2>1. MPZ_BASE * h = 2 * bh
    BY <1>1, <1>2
  <2> DEFINE w == MPZ_BASE * h
  <2> HIDE DEF y, w, bh, r
  <2>2. y + w = 2 * a + c
    BY <1>2, <1>3, <1>5, <1>6, <2>1 DEF w
  <2> QED
    BY <2>2 DEF w
<1>8. y \in Digit
  <2> HIDE DEF y, r
  <2>1. y \in Nat /\ y < MPZ_BASE
    BY <1>1, <1>2, <1>5, <1>6
  <2> QED
    BY <1>1, <2>1 DEF Digit
<1> QED
  BY <1>4, <1>7, <1>8 DEF h, b

\* A loop that doubles atom by atom, c[k] what leaves atom k, and c[0] what comes in.
Doubles(e, d, c, m) ==
  /\ \A k \in 0 .. m : c[k] \in {0, 1}
  /\ \A k \in 1 .. m : d[k] \in Digit /\ e[k] \in Digit /\ e[k] + MPZ_BASE * c[k] = 2 * d[k] + c[k - 1]
  /\ c[m] = 0

\* Such a loop doubles the magnitude.
LEMMA DoublesUp ==
  ASSUME NEW m \in Nat, NEW e, NEW d, NEW c, Doubles(e, d, c, m)
  PROVE  Magnitude(e, m) = 2 * Magnitude(d, m) + c[0]
<1> DEFINE B == MPZ_BASE
           f == Upper(e, m)
           g == Upper(d, m)
           a == m + 1
           S == {k \in 1 .. a : f[k] = 2 * g[k] + c[k - 1]}
<1>1. /\ f \in [1 .. m + 1 -> Nat] /\ Horner(f, e, m) /\ Magnitude(e, m) = f[1]
      /\ g \in [1 .. m + 1 -> Nat] /\ Horner(g, d, m) /\ Magnitude(d, m) = g[1]
  <2>1. \A k \in 1 .. m : d[k] \in Digit
    BY DEF Doubles
  <2>2. \A k \in 1 .. m : e[k] \in Digit
    BY DEF Doubles
  <2> QED
    BY <2>1, <2>2, MagnitudeIs
<1>2. B \in Nat
  BY BaseFacts
<1> HIDE DEF f, g, B
<1>3. a \in S
  <2>1. f[a] = 0 /\ g[a] = 0 /\ a - 1 = m /\ a \in 1 .. a
    BY <1>1 DEF Horner
  <2>2. c[m] = 0
    BY DEF Doubles
  <2>3. f[a] = 2 * g[a] + c[a - 1]
    BY <2>1, <2>2
  <2> QED
    BY <2>1, <2>3
<1>4. ASSUME NEW k \in 1 .. a - 1, k + 1 \in S PROVE k \in S
  <2>1. k \in 1 .. m /\ k \in 1 .. m + 1 /\ k + 1 \in 1 .. m + 1 /\ (k + 1) - 1 = k
        /\ k \in 0 .. m /\ k - 1 \in 0 .. m
    OBVIOUS
  <2> DEFINE f1 == f[k]
             f2 == f[k + 1]
             g1 == g[k]
             g2 == g[k + 1]
             ck == c[k]
             cj == c[k - 1]
             ek == e[k]
             dk == d[k]
  <2>2. f1 \in Nat /\ f2 \in Nat /\ g1 \in Nat /\ g2 \in Nat
    BY <1>1, <2>1
  <2>3. f1 = ek + B * f2 /\ g1 = dk + B * g2
    BY <1>1, <2>1 DEF Horner, B
  <2>4. ck \in {0, 1} /\ cj \in {0, 1} /\ dk \in Digit /\ ek \in Digit /\ ek + B * ck = 2 * dk + cj
    BY <2>1 DEF Doubles, B
  <2>5. f2 = 2 * g2 + ck
    BY <1>4, <2>1
  <2>6. dk \in Nat /\ ek \in Nat
    BY <2>4, BaseFacts DEF Digit
  <2> HIDE DEF f1, f2, g1, g2, ck, cj, ek, dk
  <2>7. ck \in Nat /\ cj \in Nat
    BY <2>4
  <2>8. B * (2 * g2 + ck) = 2 * (B * g2) + B * ck
    BY <1>2, <2>2, <2>7
  <2> DEFINE u == B * f2
             v == B * g2
             w == B * ck
  <2>9. u = 2 * v + w /\ v \in Nat /\ w \in Nat
    BY <1>2, <2>2, <2>5, <2>7, <2>8
  <2>10. f1 = ek + u /\ g1 = dk + v /\ ek + w = 2 * dk + cj
    BY <2>3, <2>4
  <2> HIDE DEF u, v, w
  <2>11. f1 = 2 * g1 + cj
    BY <2>6, <2>7, <2>9, <2>10
  <2> QED
    BY <2>1, <2>11 DEF f1, g1, cj
<1>5. 1 \in S
  <2>1. a \in Nat /\ 1 \in 1 .. a
    OBVIOUS
  <2> HIDE DEF S, a
  <2>2. \A k \in 1 .. a : k \in S
    BY <1>3, <1>4, <2>1, DownTo
  <2> QED
    BY <2>1, <2>2
<1> QED
  BY <1>1, <1>5

\* ShiftIn() doubles a number and adds a bit, in the storage it has.
LEMMA ShiftInIs ==
  ASSUME NEW z, Normal(z), z.l < Len(z.d), NEW b \in {0, 1}
  PROVE  LET t == ShiftIn(z, b)
         IN  /\ Normal(t) /\ Size(t) = 2 * Size(z) + b
             /\ Len(t.d) = Len(z.d) /\ t.s = z.s
<1> DEFINE l == z.l
           d == z.d
           m == l + 1
           H == 2 ^ (ATOMBITS - 1)
           top(k) == IF k = 1 THEN b ELSE z.d[k - 1] \div H
           low(k) == IF k <= z.l THEN (2 * z.d[k]) % MPZ_BASE ELSE z.d[k]
           e == [k \in DOMAIN z.d |-> IF k <= z.l + 1 THEN OrBit(low(k), 0, top(k)) ELSE z.d[k]]
           c == [k \in 0 .. m |-> IF k = 0 THEN b ELSE z.d[k] \div H]
           g == IF e[z.l + 1] # 0 THEN z.l + 1 ELSE z.l
           t == ShiftIn(z, b)
<1>1. Clean(z)
  BY DEF Normal
<1>2. /\ z \in [d : Seq(Digit), l : Nat, s : {0, 1}]
      /\ l \in Nat /\ z.s \in {0, 1} /\ Len(d) \in Nat /\ DOMAIN d = 1 .. Len(d) /\ m <= Len(d)
      /\ \A k \in 1 .. Len(d) : d[k] \in Digit /\ (k > l => d[k] = 0)
      /\ (l > 0 => d[l] # 0)
  <2>1. z \in [d : Seq(Digit), l : Nat, s : {0, 1}]
    BY <1>1 DEF Clean
  <2>2. l > 0 => d[l] # 0
    BY DEF Normal
  <2>3. /\ l \in Nat /\ z.s \in {0, 1} /\ Len(d) \in Nat /\ DOMAIN d = 1 .. Len(d)
        /\ \A k \in 1 .. Len(d) : d[k] \in Digit /\ (k > l => d[k] = 0)
    BY <1>1, CleanType
  <2> QED
    BY <2>1, <2>2, <2>3
<1>3. t = [d |-> e, l |-> g, s |-> z.s]
  <2>1. t = [z EXCEPT !.d = e, !.l = g]
    BY DEF ShiftIn
  <2> HIDE DEF t, e, g
  <2> QED
    BY <1>2, <2>1, NumberUpdate
<1>4. (2 * 0) % MPZ_BASE = 0
  BY BaseFacts
<1>5. ASSUME NEW k \in 1 .. m
      PROVE  /\ d[k] \in Digit
             /\ e[k] = OrBit((2 * d[k]) % MPZ_BASE, 0, c[k - 1])
             /\ c[k] = d[k] \div H
  <2>1. k \in 1 .. Len(d) /\ k <= z.l + 1 /\ k \in 0 .. m /\ k # 0 /\ k - 1 \in 0 .. m
    BY <1>2
  <2>2. low(k) = (2 * d[k]) % MPZ_BASE
    <3>1. CASE k <= l
      BY <3>1
    <3>2. CASE ~(k <= l)
      <4>1. d[k] = 0
        BY <1>2, <2>1, <3>2
      <4> QED
        BY <1>4, <3>2, <4>1
    <3> QED
      BY <3>1, <3>2
  <2>3. top(k) = c[k - 1]
    <3>1. k = 1 <=> k - 1 = 0
      BY <2>1
    <3> QED
      BY <2>1, <3>1
  <2>4. e[k] = OrBit(low(k), 0, top(k))
    BY <1>2, <2>1
  <2>5. c[k] = d[k] \div H
    BY <2>1
  <2>6. d[k] \in Digit
    BY <1>2, <2>1
  <2> HIDE DEF low, top, c, e
  <2> QED
    BY <2>2, <2>3, <2>4, <2>5, <2>6
<1>6. c[0] = b
  <2>1. 0 \in 0 .. m
    BY <1>2
  <2> QED
    BY <2>1
<1>7. \A k \in m + 1 .. Len(d) : e[k] = 0
  <2>1. ASSUME NEW k \in m + 1 .. Len(d) PROVE e[k] = 0
    <3>1. k \in 1 .. Len(d) /\ ~(k <= z.l + 1) /\ k > l
      BY <1>2
    <3> QED
      BY <1>2, <3>1
  <2> QED
    BY <2>1
<1> HIDE DEF e, c
<1>8. \A k \in 0 .. m : c[k] \in {0, 1}
  <2>1. ASSUME NEW k \in 1 .. m PROVE c[k] \in {0, 1}
    BY <1>5, ShiftAtom
  <2>2. \A k \in 0 .. m : k = 0 \/ k \in 1 .. m
    BY <1>2
  <2> QED
    BY <1>6, <2>1, <2>2
<1>9. ASSUME NEW k \in 1 .. m
      PROVE  e[k] \in Digit /\ e[k] + MPZ_BASE * c[k] = 2 * d[k] + c[k - 1]
  <2>1. c[k - 1] \in {0, 1}
    <3>1. k - 1 \in 0 .. m
      BY <1>2
    <3> QED
      BY <1>8, <3>1
  <2> DEFINE a == d[k]
             v == c[k - 1]
  <2>2. a \in Digit /\ v \in {0, 1} /\ e[k] = OrBit((2 * a) % MPZ_BASE, 0, v) /\ c[k] = a \div 2 ^ (ATOMBITS - 1)
    BY <1>5, <2>1
  <2> HIDE DEF a, v
  <2>3. /\ OrBit((2 * a) % MPZ_BASE, 0, v) \in Digit
        /\ OrBit((2 * a) % MPZ_BASE, 0, v) + MPZ_BASE * (a \div 2 ^ (ATOMBITS - 1)) = 2 * a + v
    BY <2>2, ShiftAtom
  <2> QED
    BY <2>2, <2>3 DEF a, v
<1>10. c[m] = 0
  <2>1. m \in 1 .. m /\ m \in 1 .. Len(d) /\ m > l
    BY <1>2
  <2>2. d[m] = 0 /\ c[m] = d[m] \div H /\ e[m] + MPZ_BASE * c[m] = 2 * d[m] + c[m - 1] /\ e[m] \in Digit
    BY <1>2, <1>5, <1>9, <2>1
  <2>3. c[m] \in {0, 1} /\ c[m - 1] \in {0, 1}
    <3>1. m \in 0 .. m /\ m - 1 \in 0 .. m
      BY <1>2
    <3> QED
      BY <1>8, <3>1
  <2> DEFINE em == e[m]
             cm == c[m]
             cl == c[m - 1]
  <2>4. em + MPZ_BASE * cm = cl
    <3>1. cl \in Int /\ 2 * 0 + cl = cl
      BY <2>3
    <3> QED
      BY <2>2, <3>1
  <2>5. cm \in {0, 1} /\ cl \in {0, 1} /\ em \in Nat /\ MPZ_BASE \in Nat /\ MPZ_BASE >= 64
    BY <2>2, <2>3, BaseFacts DEF Digit
  <2> HIDE DEF em, cm, cl
  <2>6. cm = 0
    BY <2>4, <2>5
  <2> QED
    BY <2>6 DEF cm
<1>11. Doubles(e, d, c, m)
  BY <1>5, <1>8, <1>9, <1>10 DEF Doubles
<1>12. Magnitude(e, m) = 2 * Magnitude(d, m) + b
  <2>1. m \in Nat
    BY <1>2
  <2> HIDE DEF m, d
  <2> QED
    BY <1>6, <1>11, <2>1, DoublesUp
<1>13. e \in Seq(Digit) /\ Len(e) = Len(d)
  <2>1. ASSUME NEW k \in 1 .. Len(d) PROVE e[k] \in Digit
    <3>1. k \in 1 .. m \/ k \in m + 1 .. Len(d)
      BY <1>2
    <3>2. 0 \in Digit
      BY BaseFacts DEF Digit
    <3> QED
      BY <1>7, <1>9, <3>1, <3>2
  <2>2. e = [k \in 1 .. Len(d) |-> e[k]]
    BY <1>2 DEF e
  <2> DEFINE h == Len(d)
  <2>3. e \in [1 .. h -> Digit] /\ h \in Nat
    BY <1>2, <2>1, <2>2
  <2> HIDE DEF h
  <2> QED
    BY <2>3, FunctionSeq DEF h
<1>14. Magnitude(d, m) = Size(z)
  <2>1. m \in Nat /\ l \in 0 .. m /\ \A k \in 1 .. m : d[k] \in Digit
    BY <1>2, <1>5
  <2>2. \A k \in l + 1 .. m : d[k] = 0
    <3>1. \A k \in l + 1 .. m : k \in 1 .. Len(d) /\ k > l
      BY <1>2
    <3> QED
      BY <1>2, <3>1
  <2> HIDE DEF m, l, d
  <2>3. Magnitude(d, m) = Magnitude(d, l)
    BY <2>1, <2>2, LeadingZeros
  <2> QED
    BY <2>3 DEF Size, l, d
<1>15. e[l + 1] = 0 => (l > 0 => e[l] # 0)
  <2>1. ASSUME e[l + 1] = 0, l > 0 PROVE e[l] # 0
    <3>1. l \in 1 .. m /\ m \in 1 .. m /\ m - 1 = l /\ l \in 0 .. m /\ l - 1 \in 0 .. m /\ m \in 1 .. Len(d) /\ m > l
      BY <1>2, <2>1
    <3>2. e[m] + MPZ_BASE * c[m] = 2 * d[m] + c[l] /\ d[m] = 0
      BY <1>2, <1>9, <3>1
    <3>3. c[l] \in {0, 1} /\ c[l - 1] \in {0, 1}
      BY <1>8, <3>1
    <3>4. c[l] = 0
      <4> DEFINE cl == c[l]
      <4>1. cl \in {0, 1} /\ 0 + MPZ_BASE * 0 = 2 * 0 + cl
        BY <1>10, <2>1, <3>2, <3>3
      <4> HIDE DEF cl
      <4>2. MPZ_BASE * 0 = 0
        BY BaseFacts
      <4>3. cl = 0
        BY <4>1, <4>2
      <4> QED
        BY <4>3 DEF cl
    <3>5. e[l] + MPZ_BASE * c[l] = 2 * d[l] + c[l - 1] /\ d[l] \in Digit /\ d[l] # 0 /\ e[l] \in Digit
      BY <1>2, <1>5, <1>9, <2>1, <3>1
    <3> DEFINE el == e[l]
               dl == d[l]
               ck == c[l - 1]
    <3>6. el + MPZ_BASE * 0 = 2 * dl + ck /\ MPZ_BASE * 0 = 0
      BY <3>4, <3>5, BaseFacts
    <3>7. el \in Nat /\ dl \in Nat /\ dl # 0 /\ ck \in {0, 1}
      BY <3>3, <3>5, BaseFacts DEF Digit
    <3> HIDE DEF el, dl, ck
    <3>8. el # 0
      BY <3>6, <3>7
    <3> QED
      BY <3>8 DEF el
  <2> QED
    BY <2>1
<1>16. /\ g \in Nat /\ g \in 0 .. m /\ (g > 0 => e[g] # 0)
       /\ \A k \in 1 .. Len(d) : k > g => e[k] = 0
  <2>1. \A k \in 1 .. Len(d) : k > m => k \in m + 1 .. Len(d)
    BY <1>2
  <2>2. CASE e[l + 1] # 0
    <3>1. g = m
      BY <2>2
    <3> HIDE DEF g
    <3> QED
      BY <1>2, <1>7, <2>1, <2>2, <3>1
  <2>3. CASE e[l + 1] = 0
    <3>1. g = l
      BY <2>3
    <3>2. \A k \in 1 .. Len(d) : k > l => k > m \/ k = l + 1
      BY <1>2
    <3> HIDE DEF g
    <3>3. g \in Nat /\ g \in 0 .. m
      BY <1>2, <3>1
    <3>4. g > 0 => e[g] # 0
      BY <1>15, <2>3, <3>1
    <3>5. \A k \in 1 .. Len(d) : k > g => e[k] = 0
      BY <1>7, <2>1, <2>3, <3>1, <3>2
    <3> QED
      BY <3>3, <3>4, <3>5
  <2> QED
    BY <2>2, <2>3
<1>17. Magnitude(e, g) = Magnitude(e, m)
  <2>1. m \in Nat /\ \A k \in 1 .. m : e[k] \in Digit
    BY <1>2, <1>9
  <2>2. \A k \in g + 1 .. m : e[k] = 0
    <3>1. \A k \in g + 1 .. m : k \in 1 .. Len(d) /\ k > g
      BY <1>2, <1>16
    <3> QED
      BY <1>16, <3>1
  <2> HIDE DEF g, m
  <2>3. Magnitude(e, m) = Magnitude(e, g)
    BY <1>16, <2>1, <2>2, LeadingZeros
  <2> QED
    BY <2>3
<1> HIDE DEF g
<1>18. t \in [d : Seq(Digit), l : Nat, s : {0, 1}] /\ t.d = e /\ t.l = g /\ t.s = z.s
  <2> HIDE DEF t
  <2> QED
    BY <1>2, <1>3, <1>13, <1>16
<1> HIDE DEF t
<1>19. Normal(t)
  <2>1. Len(t.d) = Len(d) /\ t.l <= Len(t.d)
    BY <1>2, <1>13, <1>16, <1>18
  <2>2. Clean(t)
    BY <1>16, <1>18, <2>1 DEF Clean
  <2> QED
    BY <1>16, <1>18, <2>2 DEF Normal
<1>20. Size(t) = 2 * Size(z) + b
  BY <1>12, <1>14, <1>17, <1>18 DEF Size
<1> QED
  BY <1>13, <1>18, <1>19, <1>20 DEF t, d

\* The upper atoms of a number are a number of their own.
LEMMA UpperNumber ==
  ASSUME NEW z, Clean(z), NEW i \in 1 .. z.l
  PROVE  \E w : Clean(w) /\ w.l = z.l - i + 1 /\ Size(w) = From(z.d, z.l, i)
<1> DEFINE l == z.l
           d == z.d
           g == Upper(d, l)
           m == l - i + 1
           e == [k \in 1 .. m |-> d[k + i - 1]]
           f == [k \in 1 .. m + 1 |-> g[k + i - 1]]
           w == [d |-> e, l |-> m, s |-> 0]
<1>1. l \in Nat /\ \A k \in 1 .. l : d[k] \in Digit
  BY CleanType
<1>2. g \in [1 .. l + 1 -> Nat] /\ Horner(g, d, l)
  BY <1>1, MagnitudeIs
<1> HIDE DEF g, d, l
<1>3. i \in 1 .. l /\ m \in Nat /\ i \in Nat
  BY <1>1 DEF l
<1>4. \A k \in 1 .. m : e[k] \in Digit
  <2>1. \A k \in 1 .. m : k + i - 1 \in 1 .. l
    BY <1>1, <1>3
  <2> QED
    BY <1>1, <2>1
<1>5. e \in Seq(Digit) /\ Len(e) = m
  <2>1. e \in [1 .. m -> Digit]
    BY <1>4
  <2> HIDE DEF e, m
  <2> QED
    BY <1>3, <2>1, FunctionSeq
<1>6. Horner(f, e, m)
  <2>1. f[m + 1] = 0
    <3>1. m + 1 \in 1 .. m + 1 /\ (m + 1) + i - 1 = l + 1
      BY <1>1, <1>3
    <3> QED
      BY <1>2, <3>1 DEF Horner
  <2>2. ASSUME NEW k \in 1 .. m PROVE f[k] = e[k] + MPZ_BASE * f[k + 1]
    <3> DEFINE j == k + i - 1
    <3>1. j \in 1 .. l /\ k \in 1 .. m + 1 /\ k + 1 \in 1 .. m + 1 /\ (k + 1) + i - 1 = j + 1
      BY <1>1, <1>3
    <3>2. f[k] = g[j] /\ f[k + 1] = g[j + 1] /\ e[k] = d[j]
      BY <3>1
    <3>3. g[j] = d[j] + MPZ_BASE * g[j + 1]
      BY <1>2, <3>1 DEF Horner
    <3> QED
      BY <3>2, <3>3
  <2> HIDE DEF f, e
  <2> QED
    BY <2>1, <2>2 DEF Horner
<1>7. Magnitude(e, m) = f[1]
  <2> HIDE DEF f, e, m
  <2> QED
    BY <1>3, <1>4, <1>6, MagnitudeUnique
<1>8. f[1] = g[i]
  <2>1. 1 \in 1 .. m + 1 /\ 1 + i - 1 = i
    BY <1>3
  <2> QED
    BY <2>1
<1>9. From(d, l, i) = g[i]
  BY <1>3 DEF From, g
<1> HIDE DEF e, f, m
<1>10. Clean(w)
  <2>1. w \in [d : Seq(Digit), l : Nat, s : {0, 1}]
    BY <1>3, <1>5
  <2>2. \A k \in 1 .. Len(e) : ~(k > m)
    BY <1>3, <1>5
  <2> QED
    BY <1>3, <1>5, <2>1, <2>2 DEF Clean
<1>11. w.l = l - i + 1 /\ Size(w) = From(d, l, i)
  BY <1>7, <1>8, <1>9 DEF Size, m
<1> QED
  BY <1>10, <1>11 DEF d, l

\* Where a bit of the quotient can be set, there is room for it.
LEMMA QuotientFits ==
  ASSUME NEW z, Clean(z), NEW b, Normal(b), b.l >= 1, NEW bit \in Nat, bit < ATOMBITS * z.l,
         Shifted(z.d, z.l, bit) >= Size(b)
  PROVE  bit \div ATOMBITS < z.l - b.l + 1
<1> DEFINE h == bit \div ATOMBITS
           i == 1 + h
           l == z.l
           p == 2 ^ (bit % ATOMBITS)
           f == From(z.d, l, i)
<1>1. Clean(b) /\ l \in Nat /\ b.l \in Nat /\ Size(b) \in Nat
  BY CleanType, SizeIs DEF Normal
<1>2. h \in Nat /\ h < l /\ bit % ATOMBITS \in 0 .. ATOMBITS - 1
  <2> HIDE DEF l
  <2> QED
    BY <1>1, BitBelow, BitPlace DEF l
<1>3. p \in Nat /\ p >= 1
  <2> DEFINE j == bit % ATOMBITS
  <2>1. j \in 0 .. ATOMBITS - 1
    BY <1>2
  <2> HIDE DEF j
  <2>2. 2 ^ j \in Nat /\ 2 ^ j >= 1
    BY <2>1, BitFacts
  <2> QED
    BY <2>2 DEF j
<1>4. Shifted(z.d, l, bit) = f \div p
  BY DEF Shifted
<1> HIDE DEF h, p
<1>5. i \in 1 .. l
  BY <1>1, <1>2
<1>6. PICK w : Clean(w) /\ w.l = l - i + 1 /\ Size(w) = f
  BY <1>5, UpperNumber
<1>7. f \in Nat
  BY <1>6, SizeIs
<1>8. f >= Size(b)
  <2> DEFINE g == f \div p
             t == f % p
             D == Size(b)
             pg == p * g
  <2>1. g \in Nat /\ t \in Nat /\ f = pg + t /\ g >= D
    <3>1. g >= D
      BY <1>4
    <3> HIDE DEF f
    <3> QED
      BY <1>3, <1>7, <3>1, DivIs
  <2>2. pg >= g
    <3> DEFINE r == p - 1
    <3>1. r \in Nat /\ p = 1 + r
      BY <1>3
    <3> HIDE DEF g, r
    <3>2. (1 + r) * g = g + r * g /\ r * g \in Nat
      BY <2>1, <3>1
    <3>3. pg = g + r * g
      BY <3>1, <3>2
    <3> QED
      BY <2>1, <3>2, <3>3
  <2> HIDE DEF g, t, D, pg, f
  <2>3. f >= D
    <3>1. pg \in Nat
      BY <1>3, <2>1 DEF pg
    <3> QED
      BY <1>1, <1>7, <2>1, <2>2, <3>1 DEF D
  <2> QED
    BY <2>3 DEF D
<1>9. ~(b.l > w.l)
  <2>1. ~(Size(b) > Size(w))
    BY <1>1, <1>6, <1>7, <1>8
  <2> QED
    BY <1>6, <2>1, LongerIsGreater
<1>10. h < l - b.l + 1
  BY <1>1, <1>2, <1>6, <1>9
<1> QED
  BY <1>10 DEF h

\* The numbers in the middle of a division of z by b before some bit: the quotient, of h
\* atoms, has no bit from there down, and with the remainder it makes up the bits of z.
Partial(p, z, b, h, bit) ==
  /\ p = [q |-> p.q, r |-> p.r]
  /\ p.q \in [d : Seq(Digit), l : Nat, s : {0, 1}] /\ Len(p.q.d) = h
  /\ Normal(p.r) /\ Len(p.r.d) > b.l /\ Size(p.r) < Size(b)
  /\ \A k \in 0 .. bit - 1 : BitAt(p.q.d, h, k) = 0
  /\ Shifted(z.d, z.l, bit) = Shifted(p.q.d, h, bit) * Size(b) + Size(p.r)

\* The quotient takes a bit w, where the dividend had a bit v.
LEMMA QuotientStep ==
  ASSUME NEW a \in Nat, NEW v \in Nat, NEW q \in Nat, NEW D \in Nat, NEW r \in Nat,
         NEW w \in {0, 1}, NEW c, a = q * D + r, c = 2 * a + v
  PROVE  c = (2 * q + w) * D + (IF w = 1 THEN (2 * r + v) - D ELSE 2 * r + v)
<1> DEFINE qd == q * D
<1>1. (2 * q + 1) * D = 2 * (q * D) + D /\ (2 * q + 0) * D = 2 * (q * D)
  OBVIOUS
<1>2. qd \in Nat /\ a = qd + r /\ (2 * q + 1) * D = 2 * qd + D /\ (2 * q + 0) * D = 2 * qd
  BY <1>1
<1> HIDE DEF qd
<1>3. CASE w = 0
  <2>1. (2 * q + w) * D = 2 * qd
    BY <1>2, <1>3
  <2> DEFINE y == (2 * q + w) * D
  <2>2. y = 2 * qd
    BY <2>1
  <2> HIDE DEF y
  <2>3. c = y + (2 * r + v)
    BY <1>2, <2>2
  <2> QED
    BY <1>3, <2>3 DEF y
<1>4. CASE w = 1
  <2>1. (2 * q + w) * D = 2 * qd + D
    BY <1>2, <1>4
  <2> DEFINE y == (2 * q + w) * D
  <2>2. y = 2 * qd + D
    BY <2>1
  <2> HIDE DEF y
  <2>3. c = y + ((2 * r + v) - D)
    BY <1>2, <2>2
  <2> QED
    BY <1>4, <2>3 DEF y
<1> QED
  BY <1>3, <1>4

\* What is known of the numbers in the middle.
LEMMA PartialType ==
  ASSUME NEW z, Clean(z), NEW b, Normal(b), NEW h \in Nat, NEW p, NEW bit \in Nat, Partial(p, z, b, h, bit)
  PROVE  /\ Clean(p.r) /\ Size(p.r) \in Nat /\ p.r.l <= b.l /\ p.r.l < Len(p.r.d)
         /\ Size(b) \in Nat /\ b.l \in Nat /\ z.l \in Nat
         /\ \A k \in 1 .. z.l : z.d[k] \in Digit
         /\ \A k \in 1 .. h : p.q.d[k] \in Digit
<1>1. Normal(p.r) /\ Len(p.r.d) > b.l /\ Size(p.r) < Size(b) /\ p.q \in [d : Seq(Digit), l : Nat, s : {0, 1}] /\ Len(p.q.d) = h
  BY DEF Partial
<1>2. Clean(p.r) /\ Clean(b)
  BY <1>1 DEF Normal
<1>3. /\ Size(p.r) \in Nat /\ Size(b) \in Nat /\ b.l \in Nat /\ z.l \in Nat /\ p.r.l \in Nat
      /\ \A k \in 1 .. z.l : z.d[k] \in Digit
  BY <1>2, CleanType, SizeIs
<1>4. ~(p.r.l > b.l)
  <2>1. ~(Size(p.r) > Size(b))
    BY <1>1, <1>3
  <2> QED
    BY <1>1, <1>2, <2>1, LongerIsGreater
<1>5. \A k \in 1 .. h : p.q.d[k] \in Digit
  <2> DEFINE d == p.q.d
  <2>1. d \in Seq(Digit) /\ Len(d) = h
    BY <1>1
  <2> HIDE DEF d
  <2>2. \A k \in 1 .. h : d[k] \in Digit
    BY <2>1
  <2> QED
    BY <2>2 DEF d
<1>6. Len(p.r.d) \in Nat
  BY <1>2, CleanType
<1> QED
  BY <1>1, <1>2, <1>3, <1>4, <1>5, <1>6

\* One bit of a division.
LEMMA DivideBitIs ==
  ASSUME NEW z, Clean(z), NEW b, Normal(b), b.l >= 1,
         NEW h \in Nat, h >= z.l - b.l + 1, NEW bit \in Nat, bit < ATOMBITS * z.l,
         NEW p, Partial(p, z, b, h, bit + 1)
  PROVE  Partial(DivideBit(p, z, b.d, b.l, bit), z, b, h, bit)
<1> DEFINE o == bit + 1
           v == TestBit(z, bit)
           t == ShiftIn(p.r, v)
           y == [d |-> b.d, l |-> b.l, s |-> 0]
           u == NormalizeLength(t)
           D == Size(b)
           R == Size(p.r)
           Q == Shifted(p.q.d, h, o)
           A == Shifted(z.d, z.l, o)
           C == Shifted(z.d, z.l, bit)
           r == DivideBit(p, z, b.d, b.l, bit)
<1>1. /\ p.q \in [d : Seq(Digit), l : Nat, s : {0, 1}] /\ Len(p.q.d) = h
      /\ Normal(p.r) /\ Len(p.r.d) > b.l /\ R < D
      /\ \A k \in 0 .. o - 1 : BitAt(p.q.d, h, k) = 0
      /\ A = Q * D + R
  <2> HIDE DEF o
  <2> QED
    BY DEF Partial, o
<1>2. /\ Clean(p.r) /\ R \in Nat /\ p.r.l < Len(p.r.d)
      /\ D \in Nat /\ b.l \in Nat /\ z.l \in Nat
      /\ \A k \in 1 .. z.l : z.d[k] \in Digit
      /\ \A k \in 1 .. h : p.q.d[k] \in Digit
  <2>1. o \in Nat
    OBVIOUS
  <2> HIDE DEF o
  <2> QED
    BY <2>1, PartialType DEF o
<1>3. /\ C = 2 * A + BitAt(z.d, z.l, bit) /\ A \in Nat /\ C \in Nat /\ BitAt(z.d, z.l, bit) \in {0, 1}
  <2>1. z.l \in Nat /\ \A k \in 1 .. z.l : z.d[k] \in Digit
    BY <1>2
  <2> QED
    BY ONLY <2>1, bit \in Nat, ShiftedStep DEF A, C, o
<1>4. v = BitAt(z.d, z.l, bit)
  BY TestBitIs
<1>5. v \in {0, 1} /\ v \in Nat /\ C = 2 * A + v
  BY <1>3, <1>4
<1>6. /\ Shifted(p.q.d, h, bit) = 2 * Q + BitAt(p.q.d, h, bit) /\ Q \in Nat
  <2> DEFINE d == p.q.d
  <2>1. \A k \in 1 .. h : d[k] \in Digit
    BY <1>2
  <2> HIDE DEF d
  <2>2. Shifted(d, h, bit) = 2 * Shifted(d, h, bit + 1) + BitAt(d, h, bit) /\ Shifted(d, h, bit + 1) \in Nat
    BY <2>1, ShiftedStep
  <2> QED
    BY <2>2 DEF d
<1>7. BitAt(p.q.d, h, bit) = 0 /\ \A k \in 0 .. bit - 1 : BitAt(p.q.d, h, k) = 0
  <2>1. bit \in 0 .. o - 1 /\ \A k \in 0 .. bit - 1 : k \in 0 .. o - 1
    OBVIOUS
  <2> QED
    BY <1>1, <2>1
<1> HIDE DEF v, A, C, o, D, R, Q
<1>8. Normal(t) /\ Size(t) = 2 * R + v /\ Len(t.d) = Len(p.r.d)
  BY <1>1, <1>2, <1>5, ShiftInIs DEF R
<1>9. Normal(y) /\ Size(y) = D /\ y.d = b.d /\ y.l = b.l
  <2>1. Clean(b)
    BY DEF Normal
  <2>2. b = [d |-> b.d, l |-> b.l, s |-> b.s]
    BY <2>1, CleanType
  <2>3. y = [b EXCEPT !.s = 0]
    BY <2>2
  <2> HIDE DEF y
  <2> QED
    BY <2>3, SignUpdate DEF D
<1>10. r = IF mpz_cmpabs(t, y) >= 0
           THEN [q |-> SetBit(p.q, bit), r |-> SubSelf(u, b.d, b.l)]
           ELSE [p EXCEPT !.r = t]
  BY DEF DivideBit, v
<1> HIDE DEF t, y, r
<1>11. \/ mpz_cmpabs(t, y) >= 0 /\ 2 * R + v >= D
       \/ ~(mpz_cmpabs(t, y) >= 0) /\ 2 * R + v < D
  <2>1. \/ mpz_cmpabs(t, y) = 1 /\ Size(t) > Size(y)
        \/ mpz_cmpabs(t, y) = 0 /\ Size(t) = Size(y)
        \/ mpz_cmpabs(t, y) = -1 /\ Size(t) < Size(y)
    BY <1>8, <1>9, ComparesMagnitudes
  <2> QED
    BY <1>2, <1>5, <1>8, <1>9, <2>1
<1>12. CASE ~(mpz_cmpabs(t, y) >= 0) /\ 2 * R + v < D
  <2>1. p = [q |-> p.q, r |-> p.r]
    BY DEF Partial
  <2>2. r = [q |-> p.q, r |-> t]
    <3>1. r = [p EXCEPT !.r = t]
      BY <1>10, <1>12
    <3> DEFINE pq == p.q
               pr == p.r
    <3>2. p = [q |-> pq, r |-> pr]
      BY <2>1
    <3> HIDE DEF pq, pr
    <3>3. r = [q |-> pq, r |-> t]
      BY <3>1, <3>2
    <3> QED
      BY <3>3 DEF pq
  <2>3. r.q = p.q /\ r.r = t
    BY <2>2
  <2>4. C = (2 * Q + 0) * D + (2 * R + v)
    <3> DEFINE w == 0
    <3>1. w \in {0, 1} /\ w # 1
      OBVIOUS
    <3> HIDE DEF w
    <3>2. C = (2 * Q + w) * D + (IF w = 1 THEN (2 * R + v) - D ELSE 2 * R + v)
      BY <1>1, <1>2, <1>3, <1>5, <1>6, <3>1, QuotientStep
    <3> QED
      BY <3>1, <3>2 DEF w
  <2>5. C = Shifted(p.q.d, h, bit) * D + Size(t)
    <3>1. Shifted(p.q.d, h, bit) = 2 * Q + 0
      BY <1>6, <1>7
    <3> QED
      BY <1>8, <2>4, <3>1
  <2>6. Size(r.r) < Size(b) /\ Normal(r.r) /\ Len(r.r.d) > b.l
    BY <1>1, <1>8, <1>12, <2>3 DEF D
  <2>7. /\ r = [q |-> r.q, r |-> r.r]
        /\ r.q \in [d : Seq(Digit), l : Nat, s : {0, 1}] /\ Len(r.q.d) = h
        /\ \A k \in 0 .. bit - 1 : BitAt(r.q.d, h, k) = 0
    BY <1>1, <1>7, <2>2, <2>3
  <2>8. Shifted(z.d, z.l, bit) = Shifted(r.q.d, h, bit) * Size(b) + Size(r.r)
    BY <2>3, <2>5 DEF C, D
  <2>9. Partial(r, z, b, h, bit)
    BY <2>6, <2>7, <2>8 DEF Partial
  <2> QED
    BY <2>9 DEF r
<1>13. CASE mpz_cmpabs(t, y) >= 0 /\ 2 * R + v >= D
  <2> DEFINE w == SetBit(p.q, bit)
             e == SubSelf(u, b.d, b.l)
  <2>1. r = [q |-> w, r |-> e]
    BY <1>10, <1>13
  <2>2. r.q = w /\ r.r = e
    BY <2>1
  <2>3. t \in [d : Seq(Digit), l : Nat, s : {0, 1}] /\ Clean(t)
    BY <1>8 DEF Normal, Clean
  <2>4. Normal(u) /\ Size(u) = 2 * R + v /\ Len(u.d) = Len(t.d)
    <3>1. Normal(u) /\ u.d = t.d /\ Size(u) = Size(t)
      BY <2>3, NormalizeAny
    <3> HIDE DEF u
    <3> QED
      BY <1>8, <3>1
  <2> HIDE DEF u
  <2>5. Normal(e) /\ Size(e) = (2 * R + v) - D /\ Len(e.d) = Len(p.r.d)
    <3>1. Size(b) <= Size(u)
      BY <1>2, <1>5, <1>13, <2>4 DEF D
    <3>2. Normal(e) /\ Size(e) = Size(u) - Size(b) /\ Len(e.d) = Len(u.d)
      BY <2>4, <3>1, SubSelfIs
    <3> HIDE DEF e
    <3> QED
      BY <1>8, <2>4, <3>2 DEF D
  <2>6. C = (2 * Q + 1) * D + ((2 * R + v) - D)
    <3> DEFINE i == 1
    <3>1. i \in {0, 1} /\ i = 1
      OBVIOUS
    <3> HIDE DEF i
    <3>2. C = (2 * Q + i) * D + (IF i = 1 THEN (2 * R + v) - D ELSE 2 * R + v)
      BY <1>1, <1>2, <1>3, <1>5, <1>6, <3>1, QuotientStep
    <3> QED
      BY <3>1, <3>2
  <2>7. C >= D
    <3> DEFINE g == (2 * Q + 1) * D
               q2 == (2 * Q) * D
    <3>1. g = q2 + D /\ q2 \in Nat
      BY <1>2, <1>6
    <3>2. C = g + ((2 * R + v) - D)
      BY <2>6
    <3> HIDE DEF g, q2
    <3> QED
      BY <1>2, <1>5, <1>13, <3>1, <3>2
  <2>8. bit \div ATOMBITS < h
    <3>1. bit \div ATOMBITS < z.l - b.l + 1
      BY <2>7, QuotientFits DEF C, D
    <3>2. bit \div ATOMBITS \in Nat
      BY BitPlace
    <3> QED
      BY <1>2, <3>1, <3>2
  <2>9. /\ w \in [d : Seq(Digit), l : Nat, s : {0, 1}] /\ Len(w.d) = h
        /\ Shifted(w.d, h, bit + 1) = Shifted(p.q.d, h, bit + 1)
        /\ BitAt(w.d, h, bit) = 1
        /\ \A k \in 0 .. bit - 1 : BitAt(w.d, h, k) = BitAt(p.q.d, h, k)
    <3> DEFINE q == p.q
    <3>1. q \in [d : Seq(Digit), l : Nat, s : {0, 1}] /\ Len(q.d) = h /\ BitAt(q.d, h, bit) = 0
      BY <1>1, <1>7
    <3> HIDE DEF q, w
    <3>2. w = SetBit(q, bit)
      BY DEF w, q
    <3>3. bit \div ATOMBITS < Len(q.d) /\ BitAt(q.d, Len(q.d), bit) = 0
      BY <2>8, <3>1
    <3>4. LET ww == SetBit(q, bit)
              hh == Len(q.d)
          IN  /\ ww \in [d : Seq(Digit), l : Nat, s : {0, 1}] /\ Len(ww.d) = hh
              /\ Shifted(ww.d, hh, bit + 1) = Shifted(q.d, hh, bit + 1)
              /\ BitAt(ww.d, hh, bit) = 1
              /\ \A k \in 0 .. bit - 1 : BitAt(ww.d, hh, k) = BitAt(q.d, hh, k)
      BY <3>1, <3>3, SetBitIs
    <3> QED
      BY <3>1, <3>2, <3>4 DEF q
  <2> HIDE DEF w, e
  <2>10. Shifted(w.d, h, bit) = 2 * Q + 1
    <3> DEFINE d == w.d
    <3>1. d \in Seq(Digit) /\ Len(d) = h
      BY <2>9
    <3> HIDE DEF d
    <3>2. \A k \in 1 .. h : d[k] \in Digit
      BY <3>1
    <3>3. Shifted(d, h, bit) = 2 * Shifted(d, h, bit + 1) + BitAt(d, h, bit)
      BY <3>2, ShiftedStep
    <3> QED
      BY <2>9, <3>3 DEF d, Q, o
  <2>11. Size(e) < D
    BY <1>1, <1>2, <1>5, <2>5
  <2>12. \A k \in 0 .. bit - 1 : BitAt(w.d, h, k) = 0
    BY <1>7, <2>9
  <2>13. Shifted(z.d, z.l, bit) = Shifted(r.q.d, h, bit) * Size(b) + Size(r.r)
    BY <2>2, <2>5, <2>6, <2>10 DEF C, D
  <2>14. /\ r = [q |-> r.q, r |-> r.r]
         /\ r.q \in [d : Seq(Digit), l : Nat, s : {0, 1}] /\ Len(r.q.d) = h
         /\ \A k \in 0 .. bit - 1 : BitAt(r.q.d, h, k) = 0
    BY <2>1, <2>2, <2>9, <2>12
  <2>15. Normal(r.r) /\ Len(r.r.d) > b.l /\ Size(r.r) < Size(b)
    BY <1>1, <2>2, <2>5, <2>11 DEF D
  <2>16. Partial(r, z, b, h, bit)
    BY <2>13, <2>14, <2>15 DEF Partial
  <2> QED
    BY <2>16 DEF r
<1> QED
  BY <1>11, <1>12, <1>13

\* Nothing of a number that is zero.
LEMMA ShiftedZero ==
  ASSUME NEW d, NEW h \in Nat, \A k \in 1 .. h : d[k] \in Digit /\ d[k] = 0, NEW bit \in Nat
  PROVE  Shifted(d, h, bit) = 0 /\ BitAt(d, h, bit) = 0
<1> DEFINE i == 1 + bit \div ATOMBITS
           j == bit % ATOMBITS
           p == 2 ^ j
<1>1. bit \div ATOMBITS \in Nat /\ j \in 0 .. ATOMBITS - 1
  BY BitPlace
<1>2. i \in Nat /\ i >= 1
  BY <1>1
<1> HIDE DEF i, j
<1>3. p \in Nat /\ p >= 1
  BY <1>1, BitFacts
<1>4. Shifted(d, h, bit) = From(d, h, i) \div p /\ BitAt(d, h, bit) = (Atom(d, h, i) \div p) % 2
  BY DEF Shifted, BitAt, i, j
<1> HIDE DEF p
<1>5. 0 \div p = 0
  BY <1>3
<1>6. Atom(d, h, i) = 0
  <2>1. i <= h => i \in 1 .. h
    BY <1>2
  <2> QED
    BY <2>1 DEF Atom
<1>7. From(d, h, i) = 0
  <2>1. CASE i > h
    BY <1>2, <2>1 DEF From
  <2>2. CASE i <= h
    <3> DEFINE m == i - 1
    <3>1. m \in 0 .. h /\ m + 1 = i
      BY <1>2, <2>2
    <3> HIDE DEF m
    <3>2. \A k \in m + 1 .. h : d[k] = 0
      <4>1. \A k \in m + 1 .. h : k \in 1 .. h
        BY <3>1
      <4> QED
        BY <4>1
    <3>3. Upper(d, h)[m + 1] = 0
      BY <3>1, <3>2, UpperZero
    <3> QED
      BY <2>2, <3>1, <3>3 DEF From
  <2> QED
    BY <1>2, <2>1, <2>2
<1>8. 0 % 2 = 0
  OBVIOUS
<1> QED
  BY <1>4, <1>5, <1>6, <1>7, <1>8

\* The numbers that a division starts with.
LEMMA PartialStart ==
  ASSUME NEW z, Normal(z), z.l >= 1, NEW b, Normal(b), b.l >= 1,
         NEW q, Blank(q), NEW r, Blank(r), Len(r.d) > b.l
  PROVE  Partial([q |-> q, r |-> r], z, b, Len(q.d), mpz_bits(z))
<1> DEFINE p == [q |-> q, r |-> r]
           h == Len(q.d)
           bits == mpz_bits(z)
           d == q.d
<1>1. bits \in Nat /\ Shifted(z.d, z.l, bits) = 0
  BY BitsIs
<1>2. Clean(q) /\ Normal(r) /\ Size(r) = 0 /\ \A k \in 1 .. Len(q.d) : q.d[k] = 0
  BY BlankIs DEF Blank
<1>3. q \in [d : Seq(Digit), l : Nat, s : {0, 1}]
  BY <1>2 DEF Clean
<1>4. h \in Nat /\ \A k \in 1 .. h : d[k] \in Digit /\ d[k] = 0
  BY <1>2, CleanType
<1>5. Size(b) \in Nat /\ Size(b) > 0
  <2>1. b.l # 0
    OBVIOUS
  <2>2. Size(b) # 0
    BY <2>1, ZeroSize
  <2>3. Size(b) \in Nat
    BY SizeIs DEF Normal
  <2> QED
    BY <2>2, <2>3
<1> HIDE DEF h, d, bits
<1>6. Shifted(d, h, bits) = 0 /\ \A k \in 0 .. bits - 1 : BitAt(d, h, k) = 0
  <2>1. \A k \in 0 .. bits - 1 : k \in Nat
    BY <1>1
  <2>2. ASSUME NEW k \in Nat PROVE Shifted(d, h, k) = 0 /\ BitAt(d, h, k) = 0
    BY <1>4, ShiftedZero
  <2> QED
    BY <1>1, <2>1, <2>2
<1>7. 0 = 0 * Size(b) + 0
  BY <1>5
<1>8. p = [q |-> p.q, r |-> p.r] /\ p.q = q /\ p.r = r
  OBVIOUS
<1> HIDE DEF p
<1>9. Partial(p, z, b, h, bits)
  <2>1. Len(p.q.d) = h /\ d = p.q.d
    BY <1>8 DEF h, d
  <2>2. Shifted(z.d, z.l, bits) = Shifted(p.q.d, h, bits) * Size(b) + Size(p.r)
    BY <1>1, <1>2, <1>6, <1>7, <1>8, <2>1
  <2> QED
    BY <1>2, <1>3, <1>5, <1>6, <1>8, <2>1, <2>2 DEF Partial
<1> QED
  BY <1>9 DEF p, h, bits

\* A history of a division, as far as each step starts from what it should.
Divides(f, z, b, h, bits) ==
  /\ Partial(f[0], z, b, h, bits)
  /\ \A k \in 1 .. bits : Partial(f[k - 1], z, b, h, bits - k + 1) =>
                            f[k] = DivideBit(f[k - 1], z, b.d, b.l, bits - k)

\* The loop of the division keeps what is divided so far, bit after bit.
LEMMA DividesKeeps ==
  ASSUME NEW z, Clean(z), NEW b, Normal(b), b.l >= 1, NEW h \in Nat, h >= z.l - b.l + 1,
         NEW bits \in Nat, bits <= ATOMBITS * z.l, NEW f, Divides(f, z, b, h, bits)
  PROVE  \A k \in 0 .. bits : Partial(f[k], z, b, h, bits - k)
<1> DEFINE S == {k \in Nat : Partial(f[k], z, b, h, bits - k)}
<1>1. 0 \in S
  <2>1. bits - 0 = bits
    OBVIOUS
  <2> QED
    BY <2>1 DEF Divides
<1>2. ASSUME NEW i \in 0 .. bits - 1, i \in S PROVE i + 1 \in S
  <2> DEFINE k == i + 1
             bit == bits - k
             p == f[i]
  <2>1. k \in 1 .. bits /\ k - 1 = i /\ bits - k + 1 = bits - i /\ bit \in Nat /\ bit + 1 = bits - i /\ k \in Nat
    OBVIOUS
  <2>2. bit < ATOMBITS * z.l
    <3> DEFINE m == ATOMBITS * z.l
    <3>1. m \in Nat
      <4>1. z.l \in Nat
        BY CleanType
      <4> QED
        BY <4>1, AtomAssumption
    <3>2. bits <= m
      OBVIOUS
    <3> HIDE DEF m
    <3>3. bit < m
      BY <2>1, <3>1, <3>2
    <3> QED
      BY <3>3 DEF m
  <2>3. Partial(p, z, b, h, bits - i)
    BY <1>2
  <2> HIDE DEF k, bit, p
  <2>4. Partial(p, z, b, h, bit + 1)
    BY <2>1, <2>3
  <2>5. Partial(DivideBit(p, z, b.d, b.l, bit), z, b, h, bit)
    BY <2>1, <2>2, <2>4, DivideBitIs
  <2>6. f[k] = DivideBit(p, z, b.d, b.l, bit)
    <3>1. Partial(f[k - 1], z, b, h, bits - k + 1) => f[k] = DivideBit(f[k - 1], z, b.d, b.l, bits - k)
      BY <2>1 DEF Divides
    <3>2. f[k - 1] = p
      BY <2>1 DEF p
    <3> QED
      BY <2>1, <2>3, <3>1, <3>2 DEF bit
  <2>7. Partial(f[k], z, b, h, bits - k)
    BY <2>5, <2>6 DEF bit
  <2> QED
    BY <2>1, <2>7 DEF k
<1>3. \A k \in 0 .. bits : k \in S
  <2> HIDE DEF S
  <2> QED
    BY <1>1, <1>2, UpTo
<1> QED
  BY <1>3

\* The loop of a division goes from its start to its end.
LEMMA DividesExist ==
  ASSUME NEW z, Clean(z), NEW b, Normal(b), b.l >= 1, NEW h \in Nat, h >= z.l - b.l + 1,
         NEW bits \in Nat, bits <= ATOMBITS * z.l, NEW p, Partial(p, z, b, h, bits)
  PROVE  \E f : /\ f = [k \in 0 .. bits |-> f[k]]
                /\ f[0] = p
                /\ \A k \in 1 .. bits : f[k] = DivideBit(f[k - 1], z, b.d, b.l, bits - k)
<1> DEFINE N == [d : Seq(Digit), l : Nat, s : {0, 1}]
           V == [q : N, r : N]
           step == [k \in 1 .. bits |-> [v \in V |->
                      IF Partial(v, z, b, h, bits - k + 1) THEN DivideBit(v, z, b.d, b.l, bits - k) ELSE v]]
<1>1. ASSUME NEW v, NEW bit, Partial(v, z, b, h, bit) PROVE v \in V
  <2>1. v = [q |-> v.q, r |-> v.r] /\ v.q \in N /\ v.r \in N
    BY <1>1 DEF Partial, Normal, Clean
  <2> DEFINE a == v.q
             c == v.r
  <2>2. v = [q |-> a, r |-> c] /\ a \in N /\ c \in N
    BY <2>1
  <2> HIDE DEF a, c, N
  <2> QED
    BY <2>2
<1>2. z.l \in Nat /\ ATOMBITS * z.l \in Nat
  BY CleanType, AtomAssumption
<1>3. ASSUME NEW k \in 1 .. bits, NEW v \in V, Partial(v, z, b, h, bits - k + 1)
      PROVE  DivideBit(v, z, b.d, b.l, bits - k) \in V
  <2> DEFINE bit == bits - k
             m == ATOMBITS * z.l
  <2>1. bit \in Nat /\ bit + 1 = bits - k + 1 /\ bit < m
    <3>1. m \in Nat /\ bits <= m
      BY <1>2
    <3> HIDE DEF m
    <3> QED
      BY <3>1
  <2>2. Partial(v, z, b, h, bit + 1)
    BY <1>3
  <2> HIDE DEF bit, V
  <2>3. Partial(DivideBit(v, z, b.d, b.l, bit), z, b, h, bit)
    BY <2>1, <2>2, DivideBitIs
  <2>4. DivideBit(v, z, b.d, b.l, bit) \in V
    BY <1>1, <2>3
  <2> QED
    BY <2>4 DEF bit
<1>4. step \in [1 .. bits -> [V -> V]]
  <2> HIDE DEF V
  <2> QED
    BY <1>3
<1>5. p \in V
  BY <1>1
<1>6. PICK f \in [0 .. bits -> V] : Iterates(f, p, bits, step)
  <2> HIDE DEF V, step
  <2> QED
    BY <1>4, <1>5, Recursion
<1> HIDE DEF V
<1>7. f[0] = p
  BY <1>6 DEF Iterates
<1>8. ASSUME NEW k \in 1 .. bits, Partial(f[k - 1], z, b, h, bits - k + 1)
      PROVE  f[k] = DivideBit(f[k - 1], z, b.d, b.l, bits - k)
  <2>1. f[k] = step[k][f[k - 1]]
    BY <1>6 DEF Iterates
  <2>2. k - 1 \in 0 .. bits
    OBVIOUS
  <2>3. f[k - 1] \in V
    BY <2>2
  <2> QED
    BY <1>8, <2>1, <2>3
<1>9. Divides(f, z, b, h, bits)
  <2> HIDE DEF step
  <2> QED
    BY <1>7, <1>8 DEF Divides
<1>10. \A k \in 0 .. bits : Partial(f[k], z, b, h, bits - k)
  BY <1>9, DividesKeeps
<1>11. ASSUME NEW k \in 1 .. bits PROVE f[k] = DivideBit(f[k - 1], z, b.d, b.l, bits - k)
  <2>1. k - 1 \in 0 .. bits /\ bits - (k - 1) = bits - k + 1
    OBVIOUS
  <2>2. Partial(f[k - 1], z, b, h, bits - (k - 1))
    BY <1>10, <2>1
  <2>3. Partial(f[k - 1], z, b, h, bits - k + 1)
    BY <2>1, <2>2
  <2> QED
    BY <1>8, <2>3
<1>12. f = [k \in 0 .. bits |-> f[k]]
  OBVIOUS
<1> QED
  BY <1>7, <1>11, <1>12

\* The sign of the quotient is the one of its target.
LEMMA DivideBitSign ==
  ASSUME NEW z, NEW b, NEW h, NEW bit, NEW o, NEW p, Partial(p, z, b, h, o)
  PROVE  DivideBit(p, z, b.d, b.l, bit).q.s = p.q.s
<1> DEFINE t == ShiftIn(p.r, TestBit(z, bit))
           C == mpz_cmpabs(t, [d |-> b.d, l |-> b.l, s |-> 0]) >= 0
           e == SubSelf(NormalizeLength(t), b.d, b.l)
           w == SetBit(p.q, bit)
           r == DivideBit(p, z, b.d, b.l, bit)
           i == 1 + bit \div ATOMBITS
           j == bit % ATOMBITS
           pq == p.q
           pr == p.r
<1>1. p = [q |-> pq, r |-> pr] /\ pq \in [d : Seq(Digit), l : Nat, s : {0, 1}]
  BY DEF Partial
<1>2. r = IF C THEN [q |-> w, r |-> e] ELSE [p EXCEPT !.r = t]
  BY DEF DivideBit
<1>3. w = [pq EXCEPT !.d[i] = OrBit(@, j, 1)]
  BY DEF SetBit
<1> HIDE DEF t, C, e, w, r, pq, pr, i, j
<1>4. w.s = pq.s
  BY <1>1, <1>3
<1>5. C => r.q = w
  BY <1>2
<1>6. ~C => r.q = pq
  BY <1>1, <1>2
<1> QED
  BY <1>4, <1>5, <1>6 DEF r, pq

\* What is left at the end of the loop.
LEMMA PartialEnd ==
  ASSUME NEW z, Clean(z), NEW b, Normal(b), NEW h \in Nat, NEW p, Partial(p, z, b, h, 0)
  PROVE  /\ Normal(NormalizeLength(p.q)) /\ Normal(NormalizeLength(p.r))
         /\ Size(z) = Size(NormalizeLength(p.q)) * Size(b) + Size(NormalizeLength(p.r))
         /\ Size(NormalizeLength(p.r)) < Size(b)
         /\ NormalizeLength(p.q).s = p.q.s /\ NormalizeLength(p.r).s = p.r.s
<1> DEFINE q == p.q
           r == p.r
           d == q.d
           y == NormalizeLength(q)
           o == 0
<1>1. /\ q \in [d : Seq(Digit), l : Nat, s : {0, 1}] /\ Len(d) = h /\ Normal(r)
      /\ Size(r) < Size(b)
      /\ Shifted(z.d, z.l, o) = Shifted(d, h, o) * Size(b) + Size(r)
  BY DEF Partial
<1>2. /\ Clean(r) /\ z.l \in Nat /\ \A k \in 1 .. z.l : z.d[k] \in Digit
      /\ \A k \in 1 .. h : d[k] \in Digit
  <2>1. o \in Nat /\ Partial(p, z, b, h, o)
    OBVIOUS
  <2> HIDE DEF o
  <2> QED
    BY <2>1, PartialType
<1>3. Shifted(z.d, z.l, 0) = Size(z) /\ Shifted(d, h, 0) = Magnitude(d, h)
  <2> HIDE DEF d
  <2>1. Shifted(z.d, z.l, 0) = Magnitude(z.d, z.l)
    BY <1>2, ShiftedWhole
  <2>2. Shifted(d, h, 0) = Magnitude(d, h)
    BY <1>2, ShiftedWhole
  <2> QED
    BY <2>1, <2>2 DEF Size
<1> HIDE DEF q, r, y
<1>4. Normal(y) /\ y.d = d /\ y.s = q.s /\ y.l = AtomsUsed(d)
  BY <1>1, NormalizeAny DEF y
<1>5. Size(y) = Magnitude(d, h)
  <2> DEFINE g == AtomsUsed(d)
  <2>1. d \in Seq(Digit)
    BY <1>1
  <2> HIDE DEF d
  <2>2. g \in 0 .. Len(d) /\ \A k \in 1 .. Len(d) : k > g => d[k] = 0
    BY <2>1, AtomsUsedIs
  <2>3. g \in 0 .. h /\ \A k \in g + 1 .. h : d[k] = 0
    <3>1. g \in 0 .. h
      BY <1>1, <2>2
    <3> HIDE DEF g
    <3>2. \A k \in g + 1 .. h : k \in 1 .. Len(d) /\ k > g
      BY <1>1, <3>1
    <3> QED
      BY <2>2, <3>1, <3>2
  <2> HIDE DEF g
  <2>4. Magnitude(d, h) = Magnitude(d, g)
    BY <1>2, <2>3, LeadingZeros
  <2> QED
    BY <1>4, <2>4 DEF Size, g
<1>6. /\ Normal(NormalizeLength(r)) /\ Size(NormalizeLength(r)) = Size(r)
      /\ NormalizeLength(r).s = r.s
  <2>1. r \in [d : Seq(Digit), l : Nat, s : {0, 1}]
    BY <1>2 DEF Clean
  <2> QED
    BY <1>2, <2>1, NormalizeAny
<1>7. Size(z) = Size(y) * Size(b) + Size(NormalizeLength(r))
  BY <1>1, <1>3, <1>5, <1>6
<1> QED
  BY <1>1, <1>4, <1>6, <1>7 DEF y, q, r

\* No number is what a failing function returns.
LEMMA NormalIsValid ==
  ASSUME NEW z, Normal(z)
  PROVE  z # SBN_INVAL
<1>1. z \in [d : Seq(Digit), l : Nat, s : {0, 1}]
  BY DEF Normal, Clean
<1>2. DOMAIN z = {"d", "l", "s"}
  BY <1>1
<1>3. DOMAIN SBN_INVAL = {"error"}
  BY DEF SBN_INVAL
<1>4. "d" # "error"
  OBVIOUS
<1> QED
  BY <1>2, <1>3, <1>4

\* mpz_init() makes a zero.
LEMMA InitNormal ==
  Normal(mpz_init) /\ mpz_init.s = 0 /\ Size(mpz_init) = 0 /\ mpz_init.l = 0
<1>1. Normal(mpz_init) /\ mpz_init.s = 0 /\ mpz_init.l = 0
  BY InitIs DEF Blank, Normal, mpz_init
<1> QED
  BY <1>1, ZeroSize

\* A remainder that is not negative stays so.
LEMMA DivideBitPositive ==
  ASSUME NEW z, Clean(z), NEW b, Normal(b), b.l >= 1,
         NEW h \in Nat, h >= z.l - b.l + 1, NEW bit \in Nat, bit < ATOMBITS * z.l,
         NEW p, Partial(p, z, b, h, bit + 1), p.r.s = 0
  PROVE  DivideBit(p, z, b.d, b.l, bit).r.s = 0
<1> DEFINE v == TestBit(z, bit)
           t == ShiftIn(p.r, v)
           bb == [d |-> b.d, l |-> b.l, s |-> 0]
           nt == NormalizeLength(t)
           e == SubSelf(nt, b.d, b.l)
           w == SetBit(p.q, bit)
           r == DivideBit(p, z, b.d, b.l, bit)
           C == mpz_cmpabs(t, bb) >= 0
           pq == p.q
           pr == p.r
<1>1. r = IF C THEN [q |-> w, r |-> e] ELSE [p EXCEPT !.r = t]
  BY DEF DivideBit
<1>2. p = [q |-> pq, r |-> pr] /\ Normal(p.r) /\ p.r.l < Len(p.r.d) /\ pr.s = 0
  <2>1. p = [q |-> p.q, r |-> p.r] /\ Normal(p.r) /\ Len(p.r.d) > b.l
    BY DEF Partial
  <2>2. p.r.l < Len(p.r.d)
    <3>1. bit + 1 \in Nat
      OBVIOUS
    <3> QED
      BY <3>1, PartialType
  <2> QED
    BY <2>1, <2>2
<1>3. v \in {0, 1}
  <2>1. v = BitAt(z.d, z.l, bit)
    BY TestBitIs
  <2>2. z.l \in Nat /\ \A k \in 1 .. z.l : z.d[k] \in Digit
    BY CleanType
  <2> QED
    BY <2>1, <2>2, ShiftedStep
<1> HIDE DEF v
<1>4. Normal(t) /\ t.s = 0
  BY <1>2, <1>3, ShiftInIs
<1> HIDE DEF t
<1>5. Normal(nt) /\ nt.s = 0 /\ Size(nt) = Size(t) /\ Clean(nt)
  BY <1>4, NormalizeAny DEF Normal, Clean
<1>6. Normal(bb) /\ Size(bb) = Size(b)
  BY CleanType DEF Normal, Clean, Size
<1>7. C => Size(bb) <= Size(t)
  <2>1. Size(bb) \in Nat /\ Size(t) \in Nat
    BY <1>4, <1>6, SizeIs DEF Normal
  <2> HIDE DEF bb
  <2> QED
    BY <1>4, <1>6, <2>1, ComparesMagnitudes
<1> HIDE DEF bb, nt
<1>8. C => e.s = 0
  <2>1. SUFFICES ASSUME C PROVE e.s = 0
    OBVIOUS
  <2>2. Size(b) <= Size(nt)
    BY <1>5, <1>6, <1>7, <2>1
  <2>3. e = Subtract(nt, nt, b.d, b.l)
    BY DEF SubSelf
  <2>4. e.s = IF nt.d # << >> /\ Size(e) = 0 THEN 0 ELSE nt.s
    BY <1>5, <2>2, <2>3, SubtractionExact
  <2> QED
    BY <1>5, <2>4
<1> HIDE DEF C, e, w, r, pq, pr
<1>9. C => r.r = e
  BY <1>1
<1>10. ~C => r.r = t
  BY <1>1, <1>2
<1>11. CASE C
  BY <1>8, <1>9, <1>11 DEF r
<1>12. CASE ~C
  BY <1>4, <1>10, <1>12 DEF r
<1> QED
  BY <1>11, <1>12

\* mpz_divi_qr_raw() divides magnitudes, bit by bit: quotient and remainder make up the
\* dividend, the remainder is smaller than the divisor, and both are normalized.
THEOREM LongDivision ==
  ASSUME NEW q, Clean(q), NEW r, Clean(r), NEW z, Normal(z), NEW b, Normal(b),
         b.l >= 1, b.l <= z.l
  PROVE  LET t == mpz_divi_qr_raw(q, r, z, b.d, b.l)
         IN  /\ Normal(t.q) /\ Normal(t.r) /\ t.q.s = q.s
             /\ Size(z) = Size(t.q) * Size(b) + Size(t.r) /\ Size(t.r) < Size(b)
             /\ r.s = 0 => t.r.s = 0
<1> DEFINE bits == mpz_bits(z)
           m == (z.l - b.l) + 1
           q0 == mpz_zero_realloc(q, m)
           r0 == mpz_zero_realloc(r, b.l)
           p == [q |-> q0, r |-> r0]
           h == Len(q0.d)
           Eqn(f) == f = [k \in 0 .. bits |->
                            IF k = 0 THEN p ELSE DivideBit(f[k - 1], z, b.d, b.l, bits - k)]
           F == CHOOSE f : Eqn(f)
           t == mpz_divi_qr_raw(q, r, z, b.d, b.l)
<1>1. Clean(z) /\ Clean(b) /\ z.l \in Nat /\ b.l \in Nat /\ z.l >= 1 /\ m \in Nat
  <2>1. Clean(z) /\ Clean(b)
    BY DEF Normal
  <2> QED
    BY <2>1, CleanType
<1>2. t = [q |-> NormalizeLength(F[bits].q), r |-> NormalizeLength(F[bits].r)]
  BY DEF mpz_divi_qr_raw
<1>3. Blank(q0) /\ Len(q0.d) > m /\ q0.s = q.s
  <2> HIDE DEF m
  <2> QED
    BY <1>1, ZeroReallocClears
<1>4. Blank(r0) /\ Len(r0.d) > b.l /\ r0.s = r.s
  BY <1>1, ZeroReallocClears
<1>5. bits \in Nat /\ bits <= ATOMBITS * z.l
  BY <1>1, BitsIs
<1> HIDE DEF q0, r0, t
<1>6. Partial(p, z, b, h, bits)
  BY <1>1, <1>3, <1>4, PartialStart
<1>7. h \in Nat /\ h >= z.l - b.l + 1
  <2>1. h \in Nat
    BY <1>3, CleanType DEF Blank
  <2> QED
    BY <1>1, <1>3, <2>1
<1>8. p.q.s = q.s /\ p.r.s = r.s
  BY <1>3, <1>4
<1> HIDE DEF p, bits, h, m
<1>9. Eqn(F)
  <2>1. PICK f : /\ f = [k \in 0 .. bits |-> f[k]]
                 /\ f[0] = p
                 /\ \A k \in 1 .. bits : f[k] = DivideBit(f[k - 1], z, b.d, b.l, bits - k)
    BY <1>1, <1>5, <1>6, <1>7, DividesExist
  <2>2. ASSUME NEW k \in 0 .. bits
        PROVE  f[k] = IF k = 0 THEN p ELSE DivideBit(f[k - 1], z, b.d, b.l, bits - k)
    <3>1. k # 0 => k \in 1 .. bits
      BY <1>5
    <3> QED
      BY <2>1, <3>1
  <2>3. f = [k \in 0 .. bits |->
               IF k = 0 THEN p ELSE DivideBit(f[k - 1], z, b.d, b.l, bits - k)]
    BY <2>1, <2>2
  <2>4. Eqn(f)
    BY <2>3
  <2> HIDE DEF Eqn
  <2> QED
    BY <2>4
<1>10. F[0] = p /\ \A k \in 1 .. bits : F[k] = DivideBit(F[k - 1], z, b.d, b.l, bits - k)
  <2>1. 0 \in 0 .. bits /\ \A k \in 1 .. bits : k \in 0 .. bits /\ k # 0
    BY <1>5
  <2> HIDE DEF F
  <2> QED
    BY <1>9, <2>1
<1> HIDE DEF F
<1>11. \A k \in 0 .. bits : Partial(F[k], z, b, h, bits - k)
  <2>1. Divides(F, z, b, h, bits)
    BY <1>6, <1>10 DEF Divides
  <2> QED
    BY <1>1, <1>5, <1>7, <2>1, DividesKeeps
<1>12. Partial(F[bits], z, b, h, 0)
  <2>1. bits \in 0 .. bits /\ bits - bits = 0
    BY <1>5
  <2>2. Partial(F[bits], z, b, h, bits - bits)
    BY <1>11, <2>1
  <2> QED
    BY <2>1, <2>2
<1>13. F[bits].q.s = q.s
  <2> DEFINE S == {k \in Nat : F[k].q.s = q.s}
  <2>1. 0 \in S
    BY <1>8, <1>10
  <2>2. ASSUME NEW i \in 0 .. bits - 1, i \in S PROVE i + 1 \in S
    <3>1. i + 1 \in 1 .. bits /\ (i + 1) - 1 = i /\ i \in 0 .. bits /\ i + 1 \in Nat
      BY <1>5
    <3>2. F[i + 1] = DivideBit(F[i], z, b.d, b.l, bits - (i + 1))
      BY <1>10, <3>1
    <3>3. Partial(F[i], z, b, h, bits - i)
      BY <1>11, <3>1
    <3> DEFINE fi == F[i]
               o  == bits - i
               lo == bits - (i + 1)
    <3>4. o \in Nat \ {0} /\ lo = o - 1
      BY <3>1, <1>5
    <3>5. Partial(fi, z, b, h, o)
      BY <3>3
    <3> HIDE DEF fi, o, lo
    <3>6. DivideBit(fi, z, b.d, b.l, lo).q.s = fi.q.s
      BY <3>5, DivideBitSign
    <3>7. F[i + 1] = DivideBit(fi, z, b.d, b.l, lo)
      BY <3>2 DEF fi, lo
    <3>8. F[i + 1].q.s = F[i].q.s
      BY <3>6, <3>7 DEF fi
    <3> QED
      BY <2>2, <3>1, <3>8
  <2> HIDE DEF S
  <2>3. \A k \in 0 .. bits : k \in S
    BY <1>5, <2>1, <2>2, UpTo
  <2>4. bits \in 0 .. bits
    BY <1>5
  <2> QED
    BY <2>3, <2>4 DEF S
<1>14. r.s = 0 => F[bits].r.s = 0
  <2>1. SUFFICES ASSUME r.s = 0 PROVE F[bits].r.s = 0
    OBVIOUS
  <2> DEFINE S == {k \in Nat : F[k].r.s = 0}
  <2>2. 0 \in S
    BY <2>1, <1>8, <1>10
  <2>3. ASSUME NEW i \in 0 .. bits - 1, i \in S PROVE i + 1 \in S
    <3>1. i + 1 \in 1 .. bits /\ (i + 1) - 1 = i /\ i \in 0 .. bits /\ i + 1 \in Nat
      BY <1>5
    <3>2. F[i + 1] = DivideBit(F[i], z, b.d, b.l, bits - (i + 1))
      BY <1>10, <3>1
    <3>3. Partial(F[i], z, b, h, bits - i)
      BY <1>11, <3>1
    <3> DEFINE fi == F[i]
               o  == bits - i
               lo == bits - (i + 1)
    <3>4. o \in Nat \ {0} /\ lo = o - 1
      BY <3>1, <1>5
    <3>5. Partial(fi, z, b, h, o)
      BY <3>3
    <3> HIDE DEF fi, o, lo
    <3>6. F[i].r.s = 0
      BY <2>3
    <3>7. F[i + 1] = DivideBit(fi, z, b.d, b.l, lo)
      BY <3>2 DEF fi, lo
    <3>8. lo \in Nat /\ lo < ATOMBITS * z.l /\ o = lo + 1
      <4> DEFINE top == ATOMBITS * z.l
      <4>1. top \in Nat /\ bits <= top
        BY <1>1, <1>5, AtomAssumption
      <4> HIDE DEF top
      <4>2. lo < top
        BY <1>5, <3>1, <4>1 DEF lo
      <4> QED
        BY <3>4, <4>2 DEF top
    <3>9. fi.r.s = 0 /\ Partial(fi, z, b, h, lo + 1)
      BY <3>5, <3>6, <3>8 DEF fi
    <3>10. DivideBit(fi, z, b.d, b.l, lo).r.s = 0
      BY <1>1, <1>7, <3>8, <3>9, DivideBitPositive
    <3> QED
      BY <3>1, <3>7, <3>10
  <2> HIDE DEF S
  <2>4. \A k \in 0 .. bits : k \in S
    BY <1>5, <2>2, <2>3, UpTo
  <2>5. bits \in 0 .. bits
    BY <1>5
  <2> QED
    BY <2>4, <2>5 DEF S
<1> DEFINE e == F[bits]
<1>15. /\ Normal(NormalizeLength(e.q)) /\ Normal(NormalizeLength(e.r))
       /\ Size(z) = Size(NormalizeLength(e.q)) * Size(b) + Size(NormalizeLength(e.r))
       /\ Size(NormalizeLength(e.r)) < Size(b)
       /\ NormalizeLength(e.q).s = e.q.s /\ NormalizeLength(e.r).s = e.r.s
  <2> HIDE DEF e
  <2>1. Partial(e, z, b, h, 0)
    BY <1>12 DEF e
  <2> QED
    BY <1>1, <1>7, <2>1, PartialEnd
<1>16. t.q = NormalizeLength(e.q) /\ t.r = NormalizeLength(e.r)
  BY <1>2
<1> QED
  BY <1>13, <1>15, <1>16, <1>14 DEF t

\* The sign of a number that is not zero is the sign of its value.
LEMMA SignIs ==
  ASSUME NEW z, Normal(z)
  PROVE  /\ Abs(Value(z)) = Size(z) /\ Value(z) \in Int /\ Size(z) \in Nat /\ z.s \in {0, 1}
         /\ Size(z) >= 1 => (Value(z) < 0 <=> z.s = 1)
<1>1. Clean(z)
  BY DEF Normal
<1> DEFINE v == Value(z)
           u == Size(z)
<1>2. u \in Nat /\ v \in Int /\ (z.s = 0 => v = u) /\ (z.s = 1 => v = -u) /\ z.s \in {0, 1}
  BY <1>1, ValueIs, CleanType
<1> HIDE DEF v, u
<1>3. Abs(v) = u
  BY <1>2 DEF Abs
<1>4. u >= 1 => (v < 0 <=> z.s = 1)
  BY <1>2
<1> QED
  BY <1>2, <1>3, <1>4 DEF v, u

\* A number that is cut to another magnitude.
LEMMA LongerOrEqual ==
  ASSUME NEW z, Normal(z), NEW b, Normal(b), Size(b) <= Size(z), b.l # 0
  PROVE  b.l >= 1 /\ b.l <= z.l
<1>1. Clean(z) /\ Clean(b)
  BY DEF Normal
<1>2. z.l \in Nat /\ b.l \in Nat
  BY <1>1, CleanType
<1>3. Size(z) \in Nat /\ Size(b) \in Nat
  BY <1>1, SizeIs
<1>4. b.l > z.l => Size(b) > Size(z)
  BY <1>1, LongerIsGreater
<1> QED
  BY <1>2, <1>3, <1>4

\* The quotient that mpz_divi_qr_raw() leaves, in the words of integer division.
LEMMA DivisionParts ==
  ASSUME NEW u \in Nat, NEW v \in Nat, v >= 1, NEW q \in Nat, NEW r \in Nat, u = q * v + r, r < v
  PROVE  u \div v = q /\ u % v = r
<1> DEFINE m == v * q + r
<1>1. u = m
  OBVIOUS
<1>2. m \div v = q /\ m % v = r
  BY DivUnique
<1> HIDE DEF m
<1> QED
  BY <1>1, <1>2

\* mpz_tdiv_q() fails for the divisor 0 and otherwise returns the quotient, rounded to zero,
\* with its sign - but always 1 when the magnitudes are equal.
THEOREM QuotientExact ==
  ASSUME NEW z, Normal(z), NEW b, Normal(b)
  PROVE  LET t == mpz_tdiv_q(z, b)
         IN  IF Size(b) = 0 THEN t = SBN_INVAL
             ELSE /\ Normal(t)
                  /\ Value(t) = IF Size(z) = Size(b) THEN 1 ELSE Quotient(Value(z), Value(b))
<1> DEFINE t == mpz_tdiv_q(z, b)
           c == mpz_cmpabs(z, b)
           u == Size(z)
           v == Size(b)
<1>1. Clean(z) /\ Clean(b)
  BY DEF Normal
<1>2. b.l = 0 <=> v = 0
  BY ZeroSize
<1>3. u \in Nat /\ v \in Nat
  BY <1>1, SizeIs
<1>4. /\ c < 0 <=> u < v
      /\ c = 0 <=> u = v
  BY <1>3, ComparesMagnitudes
<1>5. CASE v = 0
  BY <1>2, <1>5 DEF mpz_tdiv_q
<1>6. CASE v # 0 /\ u < v
  <2> DEFINE e == mpz_setzero(z)
  <2>1. t = e
    BY <1>2, <1>4, <1>6 DEF mpz_tdiv_q
  <2>2. Normal(e) /\ e.s = 0 /\ Size(e) = 0
    BY <1>1, SetZeroIs
  <2> HIDE DEF t, e
  <2>3. Value(e) = 0
    BY <2>2, ValueIs DEF Normal
  <2>4. Quotient(Value(z), Value(b)) = 0
    <3>1. u \div v = 0
      <4> DEFINE o == 0
      <4>1. o \in Nat /\ u = o * v + u /\ v >= 1
        BY <1>3, <1>6
      <4> HIDE DEF o, u, v
      <4>2. u \div v = o
        BY <1>3, <1>6, <4>1, DivisionParts
      <4> QED
        BY <4>2 DEF o
    <3>2. Abs(Value(z)) = u /\ Abs(Value(b)) = v
      BY SignIs
    <3> DEFINE s == IF (Value(z) < 0) = (Value(b) < 0) THEN 1 ELSE -1
    <3>3. Quotient(Value(z), Value(b)) = s * (u \div v)
      BY <3>2 DEF Quotient
    <3>4. s \in Int
      OBVIOUS
    <3> HIDE DEF s, u, v
    <3>5. s * 0 = 0
      BY <3>4
    <3> QED
      BY <3>1, <3>3, <3>5
  <2> QED
    BY <1>3, <1>6, <2>1, <2>2, <2>3, <2>4 DEF t
<1>7. CASE v # 0 /\ u = v
  <2>1. t = mpz_set_ui(z, 1)
    BY <1>2, <1>4, <1>7 DEF mpz_tdiv_q
  <2>2. 1 \in Digit
    BY BaseFacts DEF Digit
  <2>3. Normal(mpz_set_ui(z, 1)) /\ Value(mpz_set_ui(z, 1)) = 1
    BY <1>1, <2>2, SetUiIs
  <2> QED
    BY <1>7, <2>1, <2>3
<1>8. CASE v # 0 /\ u > v
  <2> DEFINE s == (z.s + b.s) % 2
             w == [z EXCEPT !.s = s]
             g == mpz_divi_qr_raw(w, mpz_init, z, b.d, b.l)
             e == g.q
             f == g.r
  <2>1. t = e
    <3>1. b.l # 0 /\ ~(c < 0) /\ c # 0
      BY <1>2, <1>3, <1>4, <1>8
    <3> HIDE DEF c
    <3> QED
      BY <3>1 DEF mpz_tdiv_q, c
  <2>2. z.s \in {0, 1} /\ b.s \in {0, 1}
    BY <1>1, CleanType
  <2>3. s \in {0, 1} /\ (s = 0 <=> z.s = b.s)
    BY <2>2
  <2> HIDE DEF s
  <2>4. Normal(w) /\ w.s = s
    BY <2>3, SignUpdate
  <2>5. b.l >= 1 /\ b.l <= z.l
    BY <1>2, <1>3, <1>8, LongerOrEqual
  <2>6. Clean(w) /\ Clean(mpz_init)
    BY <2>4, InitNormal DEF Normal
  <2> HIDE DEF t, w
  <2>7. Normal(e) /\ Normal(f) /\ e.s = s /\ u = Size(e) * v + Size(f) /\ Size(f) < v
    BY <2>4, <2>5, <2>6, LongDivision
  <2> HIDE DEF e, f, g
  <2> DEFINE q == Size(e)
             r == Size(f)
  <2>8. q \in Nat /\ r \in Nat
    BY <2>7, SizeIs DEF Normal
  <2>9. u \div v = q
    <3>1. v >= 1
      BY <1>3, <1>8
    <3>2. u = q * v + r /\ r < v
      BY <2>7
    <3> HIDE DEF u, v, q, r
    <3> QED
      BY <1>3, <2>8, <3>1, <3>2, DivisionParts
  <2>10. (Value(z) < 0 <=> z.s = 1) /\ (Value(b) < 0 <=> b.s = 1)
    BY <1>3, <1>8, SignIs
  <2>11. Abs(Value(z)) = u /\ Abs(Value(b)) = v
    BY SignIs
  <2> DEFINE k == IF (Value(z) < 0) = (Value(b) < 0) THEN 1 ELSE -1
  <2>12. Quotient(Value(z), Value(b)) = k * q
    BY <2>9, <2>11 DEF Quotient
  <2>13. (s = 0 => k = 1) /\ (s = 1 => k = -1)
    BY <2>2, <2>3, <2>10
  <2>14. (s = 0 => Value(e) = q) /\ (s = 1 => Value(e) = -q)
    BY <2>7, ValueIs DEF Normal
  <2> HIDE DEF k, q
  <2>15. k * q = Value(e)
    BY <2>3, <2>8, <2>13, <2>14
  <2> QED
    BY <1>3, <1>8, <2>1, <2>7, <2>12, <2>15 DEF t
<1> QED
  BY <1>3, <1>5, <1>6, <1>7, <1>8

\* mpz_tdiv_r() fails for the divisor 0 and otherwise returns the remainder; it is negative
\* only if the dividend was.
THEOREM RemainderExact ==
  ASSUME NEW z, Normal(z), NEW b, Normal(b)
  PROVE  LET t == mpz_tdiv_r(z, b)
         IN  IF Size(b) = 0 THEN t = SBN_INVAL
             ELSE Normal(t) /\ Size(t) = Size(z) % Size(b) /\ (z.s = 0 => t.s = 0)
<1> DEFINE t == mpz_tdiv_r(z, b)
           c == mpz_cmpabs(z, b)
           u == Size(z)
           v == Size(b)
<1>1. Clean(z) /\ Clean(b)
  BY DEF Normal
<1>2. b.l = 0 <=> v = 0
  BY ZeroSize
<1>3. u \in Nat /\ v \in Nat
  BY <1>1, SizeIs
<1>4. /\ c < 0 <=> u < v
      /\ c = 0 <=> u = v
  BY <1>3, ComparesMagnitudes
<1>5. CASE v = 0
  BY <1>2, <1>5 DEF mpz_tdiv_r
<1>6. ASSUME NEW o \in Nat, NEW r \in Nat, v # 0, u = o * v + r, r < v PROVE u % v = r
  <2>1. v >= 1
    BY <1>3, <1>6
  <2> HIDE DEF u, v
  <2> QED
    BY <1>3, <1>6, <2>1, DivisionParts
<1>7. CASE v # 0 /\ u < v
  <2>1. t = z
    BY <1>2, <1>4, <1>7 DEF mpz_tdiv_r
  <2>2. u = 0 * v + u /\ 0 \in Nat
    BY <1>3
  <2> HIDE DEF t, u, v
  <2>3. u % v = u
    BY <1>3, <1>6, <1>7, <2>2
  <2> QED
    BY <1>7, <2>1, <2>3 DEF t, u, v
<1>8. CASE v # 0 /\ u = v
  <2> DEFINE e == mpz_setzero(z)
  <2>1. t = e
    BY <1>2, <1>4, <1>8 DEF mpz_tdiv_r
  <2>2. Normal(e) /\ e.s = 0 /\ Size(e) = 0
    BY <1>1, SetZeroIs
  <2>3. u = 1 * v + 0 /\ 0 \in Nat /\ 1 \in Nat /\ 0 < v
    BY <1>3, <1>8
  <2> HIDE DEF t, u, v, e
  <2>4. u % v = 0
    BY <1>3, <1>6, <1>8, <2>3
  <2> QED
    BY <1>8, <2>1, <2>2, <2>4 DEF t, u, v
<1>9. CASE v # 0 /\ u > v
  <2> DEFINE g == mpz_divi_qr_raw(mpz_init, z, z, b.d, b.l)
             e == g.q
             f == g.r
  <2>1. t = f
    <3>1. b.l # 0 /\ ~(c < 0) /\ c # 0
      BY <1>2, <1>3, <1>4, <1>9
    <3> HIDE DEF c
    <3> QED
      BY <3>1 DEF mpz_tdiv_r, c
  <2>2. b.l >= 1 /\ b.l <= z.l
    BY <1>2, <1>3, <1>9, LongerOrEqual
  <2>3. Clean(mpz_init)
    BY InitNormal DEF Normal
  <2> HIDE DEF t
  <2>4. Normal(e) /\ Normal(f) /\ u = Size(e) * v + Size(f) /\ Size(f) < v /\ (z.s = 0 => f.s = 0)
    BY <1>1, <2>2, <2>3, LongDivision
  <2> HIDE DEF e, f, g
  <2> DEFINE q == Size(e)
             r == Size(f)
  <2>5. q \in Nat /\ r \in Nat
    BY <2>4, SizeIs DEF Normal
  <2>6. u = q * v + r /\ r < v
    BY <2>4
  <2> HIDE DEF u, v, q, r
  <2>7. u % v = r
    BY <1>6, <1>9, <2>5, <2>6
  <2> QED
    BY <1>9, <2>1, <2>4, <2>7 DEF t, u, v, r
<1> QED
  BY <1>3, <1>5, <1>7, <1>8, <1>9

\* mpz_mod() fails for the modulus 0; otherwise it leaves a normalized number, and for a
\* dividend that is not negative it is the remainder modulo the magnitude of the divisor.
THEOREM ModuloExact ==
  ASSUME NEW z, Normal(z), NEW b, Normal(b)
  PROVE  LET t == mpz_mod(z, b)
         IN  IF Size(b) = 0 THEN t = SBN_INVAL
             ELSE Normal(t) /\ (Value(z) >= 0 => Value(t) = Value(z) % Abs(Value(b)))
<1> DEFINE t == mpz_mod(z, b)
           r == mpz_tdiv_r(z, b)
           u == Size(z)
           v == Size(b)
<1>1. u \in Nat /\ v \in Nat
  BY SizeIs DEF Normal
<1>2. CASE v = 0
  BY <1>2, RemainderExact DEF mpz_mod
<1>3. CASE v # 0
  <2>1. Normal(r) /\ Size(r) = u % v /\ (z.s = 0 => r.s = 0)
    BY <1>3, RemainderExact
  <2>2. r # SBN_INVAL
    BY <2>1, NormalIsValid
  <2>3. t = IF r.l = 0 \/ r.s = 0 THEN r
            ELSE IF b.s = 1 THEN mpz_sub(r, b) ELSE mpz_add(r, b)
    BY <2>2 DEF mpz_mod
  <2> HIDE DEF r, t
  <2>4. Normal(t)
    BY <2>1, <2>3, SignedAddition, SignedSubtraction
  <2>5. ASSUME Value(z) >= 0 PROVE Value(t) = Value(z) % Abs(Value(b))
    <3>1. Abs(Value(z)) = u /\ Abs(Value(b)) = v /\ Value(z) \in Int
          /\ (u >= 1 => (Value(z) < 0 <=> z.s = 1)) /\ z.s \in {0, 1}
      BY SignIs
    <3>2. Value(z) = u
      BY <2>5, <3>1 DEF Abs
    <3>3. r.l = 0 <=> Size(r) = 0
      BY <2>1, ZeroSize
    <3>4. r.l = 0 \/ r.s = 0
      <4>1. CASE u >= 1
        BY <2>1, <2>5, <3>1, <4>1
      <4>2. CASE u = 0
        <5> DEFINE o == 0
        <5>1. o \in Nat /\ u = o * v + o /\ v >= 1 /\ o < v
          BY <1>1, <1>3, <4>2
        <5> HIDE DEF o, u, v
        <5>2. u % v = o
          BY <1>1, <5>1, DivisionParts
        <5> QED
          BY <2>1, <3>3, <5>2 DEF o
      <4> QED
        BY <1>1, <4>1, <4>2
    <3>5. t = r
      BY <2>3, <3>4
    <3>6. Value(r) = Size(r)
      <4>1. /\ r.s = 0 => Value(r) = Size(r)
            /\ r.s = 1 => Value(r) = -Size(r)
            /\ r.s \in {0, 1} /\ Size(r) \in Nat
        BY <2>1, ValueIs, CleanType DEF Normal
      <4> DEFINE a == Size(r)
      <4> HIDE DEF a
      <4>2. a \in Int /\ (a = 0 => -a = a)
        <5>1. a \in Int
          BY <4>1 DEF a
        <5>2. a = 0 => -a >= 0 /\ -a <= 0
          BY <5>1
        <5> QED
          BY <5>1, <5>2
      <4> QED
        BY <3>3, <3>4, <4>1, <4>2 DEF a
    <3> HIDE DEF u, v
    <3>7. Value(z) % Abs(Value(b)) = u % v
      BY <3>1, <3>2
    <3> QED
      BY <2>1, <3>5, <3>6, <3>7
  <2> HIDE DEF v
  <2> QED
    BY <1>3, <2>4, <2>5 DEF t, v
<1> QED
  BY <1>2, <1>3

\* One atom of mpz_rshift() by 1, c the bit that comes in from above.
LEMMA HalfAtom ==
  ASSUME NEW a \in Digit, NEW c \in {0, 1}
  PROVE  LET H == 2 ^ (ATOMBITS - 1)
             y == (a \div 2) + c * H
         IN  /\ y \in Digit /\ a % 2 \in {0, 1} /\ 2 * y + (a % 2) = a + MPZ_BASE * c
             /\ (c = 1 \/ a >= 2) => y >= 1
             /\ (a \div 2) \in Digit
<1> DEFINE H == 2 ^ (ATOMBITS - 1)
           B == MPZ_BASE
           g == a \div 2
           r == a % 2
<1>1. H \in Nat /\ B = 2 * H /\ B \in Nat /\ B >= 64
  BY BaseFacts
<1>2. a \in Nat /\ a < B
  BY <1>1 DEF Digit
<1>3. g \in Nat /\ r \in {0, 1} /\ a = 2 * g + r
  BY <1>2
<1> HIDE DEF g, r, H, B
<1>4. c = 0 \/ c = 1
  OBVIOUS
<1> DEFINE y == g + c * H
<1>5. CASE c = 0
  <2>1. y = g /\ B * c = 0
    BY <1>1, <1>3, <1>5
  <2>2. g \in 0 .. B - 1 /\ 2 * g + r = a /\ (a >= 2 => g >= 1)
    BY <1>1, <1>2, <1>3
  <2> HIDE DEF y
  <2> QED
    BY <1>1, <1>2, <1>3, <1>5, <2>1, <2>2 DEF Digit, B, y, g, r, H
<1>6. CASE c = 1
  <2>1. y = g + H /\ B * c = B
    BY <1>1, <1>3, <1>6
  <2>2. g \in 0 .. B - 1 /\ g + H \in 0 .. B - 1 /\ 2 * (g + H) + r = a + B /\ g + H >= 1
    BY <1>1, <1>2, <1>3
  <2> HIDE DEF y
  <2> QED
    BY <1>1, <1>2, <1>3, <1>6, <2>1, <2>2 DEF Digit, B, y, g, r, H
<1> QED
  BY <1>4, <1>5, <1>6

\* mpz_rshift() by 1 halves, and drops the atom that becomes zero.
LEMMA RShiftIs ==
  ASSUME NEW z, Normal(z), z.l >= 1
  PROVE  LET t == RShift1(z)
         IN  Normal(t) /\ Size(z) = 2 * Size(t) + Odd(z) /\ Odd(z) \in {0, 1} /\ t.s = z.s
<1> DEFINE l == z.l
           d == z.d
           H == 2 ^ (ATOMBITS - 1)
           e == [k \in DOMAIN z.d |->
                   IF k < z.l THEN z.d[k] \div 2 + (z.d[k + 1] % 2) * H
                   ELSE IF k = z.l THEN z.d[k] \div 2 ELSE z.d[k]]
           c == [k \in 0 .. l |-> IF k = l THEN 0 ELSE d[k + 1] % 2]
           g == IF e[z.l] = 0 THEN z.l - 1 ELSE z.l
           t == RShift1(z)
<1>1. Clean(z)
  BY DEF Normal
<1>2. /\ z \in [d : Seq(Digit), l : Nat, s : {0, 1}]
      /\ l \in Nat /\ z.s \in {0, 1} /\ Len(d) \in Nat /\ DOMAIN d = 1 .. Len(d) /\ l <= Len(d)
      /\ \A k \in 1 .. Len(d) : d[k] \in Digit /\ (k > l => d[k] = 0)
      /\ d[l] # 0
  <2>1. z \in [d : Seq(Digit), l : Nat, s : {0, 1}]
    BY <1>1 DEF Clean
  <2>2. d[l] # 0
    <3>1. z.l \in Nat
      BY <1>1, CleanType
    <3>2. z.l > 0
      BY <3>1
    <3> QED
      BY <3>2 DEF Normal
  <2>3. /\ l \in Nat /\ z.s \in {0, 1} /\ Len(d) \in Nat /\ DOMAIN d = 1 .. Len(d) /\ l <= Len(d)
        /\ \A k \in 1 .. Len(d) : d[k] \in Digit /\ (k > l => d[k] = 0)
    BY <1>1, CleanType
  <2> QED
    BY <2>1, <2>2, <2>3
<1>3. t = [d |-> e, l |-> g, s |-> z.s]
  <2>1. t = [z EXCEPT !.d = e, !.l = g]
    BY DEF RShift1
  <2> HIDE DEF t, e, g
  <2> QED
    BY <1>2, <2>1, NumberUpdate
<1>4. H \in Nat
  BY BaseFacts
<1>5. ASSUME NEW k \in 1 .. l
      PROVE  /\ d[k] \in Digit /\ c[k] \in {0, 1} /\ c[k - 1] = d[k] % 2
             /\ e[k] = (d[k] \div 2) + c[k] * H
  <2>1. k \in 1 .. Len(d) /\ k \in 0 .. l /\ k - 1 \in 0 .. l /\ k - 1 # l /\ (k - 1) + 1 = k
    BY <1>2
  <2>2. d[k] \in Digit
    BY <1>2, <2>1
  <2>3. c[k - 1] = d[k] % 2
    BY <2>1
  <2>4. CASE k = l
    <3>1. c[k] = 0
      BY <2>1, <2>4
    <3>2. e[k] = d[k] \div 2
      BY <1>2, <2>1, <2>4
    <3>3. d[k] \div 2 \in Nat
      BY <2>2, HalfAtom DEF Digit
    <3> HIDE DEF c, e, H
    <3>4. c[k] * H = 0
      BY <1>4, <3>1
    <3> QED
      BY <2>2, <2>3, <3>1, <3>2, <3>3, <3>4
  <2>5. CASE k < l
    <3>1. c[k] = d[k + 1] % 2
      BY <2>1, <2>5
    <3>2. e[k] = (d[k] \div 2) + (d[k + 1] % 2) * H
      BY <1>2, <2>1, <2>5
    <3>3. d[k + 1] \in Digit
      <4>1. k + 1 \in 1 .. Len(d)
        BY <1>2, <2>5
      <4> QED
        BY <1>2, <4>1
    <3>4. d[k + 1] % 2 \in {0, 1}
      BY <3>3, HalfAtom
    <3> HIDE DEF c, e, H
    <3> QED
      BY <2>2, <2>3, <3>1, <3>2, <3>4
  <2> QED
    BY <1>2, <2>4, <2>5
<1>6. c[l] = 0 /\ c[0] = Odd(z)
  <2>1. l \in 0 .. l /\ 0 \in 0 .. l /\ 0 # l
    BY <1>2
  <2> QED
    BY <2>1 DEF Odd
<1>7. \A k \in l + 1 .. Len(d) : e[k] = 0
  <2>1. ASSUME NEW k \in l + 1 .. Len(d) PROVE e[k] = 0
    <3>1. k \in 1 .. Len(d) /\ ~(k < z.l) /\ k # z.l /\ k > l
      BY <1>2
    <3> QED
      BY <1>2, <3>1
  <2> QED
    BY <2>1
<1> HIDE DEF e, c
<1>8. \A k \in 0 .. l : c[k] \in {0, 1}
  <2>1. 1 \in 1 .. l
    BY <1>2
  <2>2. c[0] \in {0, 1}
    <3>1. d[1] \in Digit /\ c[1 - 1] = d[1] % 2
      BY <1>5, <2>1
    <3>2. d[1] % 2 \in {0, 1}
      BY <3>1, HalfAtom
    <3> QED
      BY <3>1, <3>2
  <2>3. \A k \in 0 .. l : k = 0 \/ k \in 1 .. l
    BY <1>2
  <2> QED
    BY <1>5, <2>2, <2>3
<1>9. ASSUME NEW k \in 1 .. l
      PROVE  /\ e[k] \in Digit /\ d[k] + MPZ_BASE * c[k] = 2 * e[k] + c[k - 1]
             /\ (c[k] = 1 \/ d[k] >= 2) => e[k] >= 1
  <2> DEFINE a == d[k]
             v == c[k]
  <2>1. a \in Digit /\ v \in {0, 1} /\ c[k - 1] = a % 2 /\ e[k] = (a \div 2) + v * 2 ^ (ATOMBITS - 1)
    BY <1>5
  <2> HIDE DEF a, v
  <2>2. LET y == (a \div 2) + v * 2 ^ (ATOMBITS - 1)
        IN  /\ y \in Digit /\ 2 * y + (a % 2) = a + MPZ_BASE * v
            /\ (v = 1 \/ a >= 2) => y >= 1
    BY <2>1, HalfAtom
  <2> QED
    BY <2>1, <2>2 DEF a, v
<1>10. Doubles(d, e, c, l)
  BY <1>5, <1>6, <1>8, <1>9 DEF Doubles
<1>11. Magnitude(d, l) = 2 * Magnitude(e, l) + c[0]
  BY <1>2, <1>10, DoublesUp
<1>12. e \in Seq(Digit) /\ Len(e) = Len(d)
  <2>1. \A k \in 1 .. Len(d) : e[k] \in Digit
    <3>1. 0 \in Digit
      BY BaseFacts DEF Digit
    <3>2. \A k \in 1 .. Len(d) : k \in 1 .. l \/ k \in l + 1 .. Len(d)
      BY <1>2
    <3> QED
      BY <1>7, <1>9, <3>1, <3>2
  <2>2. e = [k \in 1 .. Len(d) |-> e[k]]
    BY <1>2 DEF e
  <2>3. e \in [1 .. Len(d) -> Digit]
    BY <2>1, <2>2
  <2> QED
    BY <1>2, <2>3, FunctionSeq
<1> DEFINE o == l - 1
<1>13. o \in Nat /\ l = o + 1 /\ l \in 1 .. l
  BY <1>2
<1>14. CASE e[l] = 0
  <2>1. g = o
    BY <1>14
  <2>2. Normal(t) /\ t.s = z.s /\ t.l = o /\ t.d = e
    <3>1. t = [d |-> e, l |-> o, s |-> z.s]
      BY <1>3, <2>1
    <3>2. t \in [d : Seq(Digit), l : Nat, s : {0, 1}] /\ t.d = e /\ t.l = o /\ t.s = z.s
      BY <1>2, <1>12, <1>13, <3>1, NumberRecord
    <3>3. \A k \in 1 .. Len(e) : k > o => e[k] = 0
      <4>1. \A k \in 1 .. Len(e) : k > o => k = l \/ k \in l + 1 .. Len(d)
        BY <1>2, <1>12, <1>13
      <4> QED
        BY <1>7, <1>14, <4>1
    <3>4. o > 0 => e[o] # 0
      <4>1. SUFFICES ASSUME o > 0 PROVE e[o] # 0
        OBVIOUS
      <4>2. o \in 1 .. l /\ o + 1 = l
        BY <1>2, <4>1
      <4>3. c[o] = d[l] % 2
        <5>1. c[l - 1] = d[l] % 2
          BY <1>5, <1>13
        <5> QED
          BY <5>1
      <4>4. d[l] \in Digit /\ ~(d[l] >= 2)
        BY <1>5, <1>9, <1>13, <1>14
      <4>5. d[l] = 1
        <5>1. d[l] \in Nat
          BY <4>4, BaseFacts DEF Digit
        <5> QED
          BY <1>2, <4>4, <5>1
      <4>6. c[o] = 1
        BY <4>3, <4>5
      <4>7. e[o] >= 1
        BY <1>9, <4>2, <4>6
      <4> QED
        BY <4>7
    <3>5. o <= Len(e)
      BY <1>2, <1>12, <1>13
    <3> HIDE DEF t, o
    <3> QED
      BY <3>2, <3>3, <3>4, <3>5 DEF Normal, Clean
  <2>3. Size(t) = Magnitude(e, l)
    <3>1. o \in 0 .. l /\ \A k \in o + 1 .. l : e[k] = 0
      <4>1. \A k \in o + 1 .. l : k = l
        BY <1>2, <1>13
      <4>2. o \in 0 .. l
        BY <1>2, <1>13
      <4> QED
        BY <1>14, <4>1, <4>2
    <3>2. \A k \in 1 .. l : e[k] \in Digit
      BY <1>9
    <3> HIDE DEF o
    <3>3. Magnitude(e, l) = Magnitude(e, o)
      BY <1>2, <3>1, <3>2, LeadingZeros
    <3> QED
      BY <2>2, <3>3 DEF Size
  <2> HIDE DEF t
  <2> QED
    BY <1>6, <1>8, <1>11, <2>2, <2>3, <1>2 DEF Size, t
<1>15. CASE e[l] # 0
  <2>1. g = l
    BY <1>15
  <2>2. Normal(t) /\ t.s = z.s /\ t.l = l /\ t.d = e
    <3>1. t = [d |-> e, l |-> l, s |-> z.s]
      BY <1>3, <2>1
    <3>2. t \in [d : Seq(Digit), l : Nat, s : {0, 1}] /\ t.d = e /\ t.l = l /\ t.s = z.s
      BY <1>2, <1>12, <3>1, NumberRecord
    <3>3. \A k \in 1 .. Len(e) : k > l => e[k] = 0
      BY <1>2, <1>7, <1>12
    <3>4. l <= Len(e)
      BY <1>2, <1>12
    <3> HIDE DEF t, l
    <3> QED
      BY <1>15, <3>2, <3>3, <3>4 DEF Normal, Clean
  <2> HIDE DEF t
  <2> QED
    BY <1>6, <1>8, <1>11, <2>2, <1>2 DEF Size, t
<1> QED
  BY <1>14, <1>15

-----------------------------------------------------------------------------
(* Powers and texts.                                                       *)

\* The normalized numbers, and what a function returns that may fail.
Numeral == {z \in [d : Seq(Digit), l : Nat, s : {0, 1}] : Normal(z)}

Result(t) == t = SBN_INVAL \/ Normal(t)

\* A set of the numbers that Normal() tells.
LEMMA NumeralIs ==
  \A z : z \in Numeral <=> Normal(z)
BY DEF Numeral, Normal, Clean

\* The modulus of a power, if there is one, is not zero.
Modulus(m) == m = << >> \/ (m # << >> /\ Normal(m[1]) /\ Size(m[1]) # 0)

\* Reduce() leaves a normalized number.
LEMMA ReduceIs ==
  ASSUME NEW z, Normal(z), NEW m, Modulus(m)
  PROVE  Normal(Reduce(z, m))
<1>1. CASE m = << >>
  BY <1>1 DEF Reduce
<1>2. CASE m # << >>
  <2> DEFINE o == m[1]
  <2>1. Normal(o) /\ Size(o) # 0
    BY <1>2 DEF Modulus
  <2>2. Reduce(z, m) = mpz_mod(z, o)
    BY <1>2 DEF Reduce
  <2> HIDE DEF o
  <2>3. Normal(mpz_mod(z, o))
    BY <2>1, ModuloExact
  <2> QED
    BY <2>2, <2>3
<1> QED
  BY <1>1, <1>2

\* Every round of the loop of mpz_pow() keeps its three numbers normalized.
LEMMA PowerStepIs ==
  ASSUME NEW m, Modulus(m), NEW p \in [r : Numeral, B : Numeral, E : Numeral]
  PROVE  PowerStep(p, m) \in [r : Numeral, B : Numeral, E : Numeral]
<1> DEFINE one == u32tompz(1)
           c == mpz_cmpabs(p.E, one)
           rB == Reduce(mpz_mul(p.r, p.B), m)
           BB == Reduce(mpz_mul(p.B, p.B), m)
           h == RShift1(p.E)
           t == PowerStep(p, m)
<1>1. Normal(p.r) /\ Normal(p.B) /\ Normal(p.E)
  BY NumeralIs
<1>2. Normal(rB) /\ Normal(BB)
  <2>1. Normal(mpz_mul(p.r, p.B)) /\ Normal(mpz_mul(p.B, p.B))
    BY <1>1, SignedMultiplication
  <2> QED
    BY <2>1, ReduceIs
<1>3. 1 \in Digit
  BY BaseFacts DEF Digit
<1>4. Normal(one) /\ Size(one) = 1
  BY <1>3, ImmediateIs
<1>5. ~(c <= 0) => Normal(h)
  <2>1. SUFFICES ASSUME ~(c <= 0) PROVE Normal(h)
    OBVIOUS
  <2>2. Size(p.E) > 1
    <3> HIDE DEF one
    <3>1. Size(p.E) \in Nat
      BY <1>1, SizeIs DEF Normal
    <3> QED
      BY <1>1, <1>4, <2>1, <3>1, ComparesMagnitudes
  <2>3. p.E.l >= 1
    <3>1. p.E.l \in Nat
      BY <1>1, CleanType DEF Normal
    <3>2. p.E.l = 0 <=> Size(p.E) = 0
      BY <1>1, ZeroSize
    <3> QED
      BY <2>2, <3>1, <3>2
  <2> QED
    BY <1>1, <2>3, RShiftIs
<1>6. t = IF c <= 0 THEN p
          ELSE [r |-> IF Odd(p.E) = 1 THEN rB ELSE p.r, B |-> BB, E |-> h]
  BY DEF PowerStep
<1> HIDE DEF t, rB, BB, h, c
<1>7. CASE c <= 0
  BY <1>6, <1>7 DEF t
<1>8. CASE ~(c <= 0)
  <2> DEFINE w == IF Odd(p.E) = 1 THEN rB ELSE p.r
  <2>1. w \in Numeral /\ BB \in Numeral /\ h \in Numeral
    BY <1>1, <1>2, <1>5, <1>8, NumeralIs
  <2> HIDE DEF w
  <2>2. t = [r |-> w, B |-> BB, E |-> h]
    BY <1>6, <1>8 DEF w
  <2> QED
    BY <2>1, <2>2 DEF t
<1> QED
  BY <1>7, <1>8

\* F is the history of the loop of mpz_pow().
PowerHistory(F, r, b, e, m) ==
  /\ F[0] = [r |-> r, B |-> b, E |-> e]
  /\ \A k \in 1 .. e.l * ATOMBITS : F[k] = PowerStep(F[k - 1], m)
  /\ PowerLoop(r, b, e, m) = mpz_mul(F[e.l * ATOMBITS].r, F[e.l * ATOMBITS].B)

\* The loop has a history, which keeps the numbers normalized.
LEMMA PowerLoopIs ==
  ASSUME NEW r, Normal(r), NEW b, Normal(b), NEW e, Normal(e), NEW m, Modulus(m)
  PROVE  /\ Normal(PowerLoop(r, b, e, m)) /\ e.l * ATOMBITS \in Nat
         /\ \E F : PowerHistory(F, r, b, e, m)
<1> DEFINE V == [r : Numeral, B : Numeral, E : Numeral]
           rounds == e.l * ATOMBITS
           base == [r |-> r, B |-> b, E |-> e]
           Eqn(f) == f = [k \in 0 .. rounds |-> IF k = 0 THEN base ELSE PowerStep(f[k - 1], m)]
           F == CHOOSE f : Eqn(f)
           step == [i \in 1 .. rounds |-> [v \in V |-> PowerStep(v, m)]]
<1>1. rounds \in Nat
  BY CleanType, AtomAssumption DEF Normal
<1>2. base \in V
  BY NumeralIs
<1>3. PowerLoop(r, b, e, m) = mpz_mul(F[rounds].r, F[rounds].B)
  BY DEF PowerLoop
<1>4. step \in [1 .. rounds -> [V -> V]]
  BY PowerStepIs
<1> HIDE DEF V, rounds, base, step
<1>5. PICK f \in [0 .. rounds -> V] : Iterates(f, base, rounds, step)
  BY <1>1, <1>2, <1>4, Recursion
<1>6. Eqn(f)
  <2>1. ASSUME NEW k \in 0 .. rounds
        PROVE  f[k] = IF k = 0 THEN base ELSE PowerStep(f[k - 1], m)
    <3>1. CASE k = 0
      BY <1>5, <3>1 DEF Iterates
    <3>2. CASE k # 0
      <4>1. k \in 1 .. rounds /\ k - 1 \in 0 .. rounds
        BY <1>1, <3>2
      <4>2. f[k] = step[k][f[k - 1]] /\ f[k - 1] \in V
        BY <1>5, <4>1 DEF Iterates
      <4>3. step[k][f[k - 1]] = PowerStep(f[k - 1], m)
        BY <4>1, <4>2 DEF step
      <4> QED
        BY <3>2, <4>2, <4>3
    <3> QED
      BY <3>1, <3>2
  <2>2. f = [k \in 0 .. rounds |-> f[k]]
    BY <1>5
  <2> QED
    BY <2>1, <2>2
<1>7. Eqn(F)
  <2> HIDE DEF Eqn
  <2> QED
    BY <1>6
<1>8. F[0] = base /\ \A k \in 1 .. rounds : F[k] = PowerStep(F[k - 1], m)
  <2>1. 0 \in 0 .. rounds /\ \A k \in 1 .. rounds : k \in 0 .. rounds /\ k # 0
    BY <1>1
  <2> HIDE DEF F
  <2> QED
    BY <1>7, <2>1
<1> HIDE DEF F, Eqn
<1>9. F[rounds] \in V
  <2> DEFINE S == {k \in Nat : F[k] \in V}
  <2>1. 0 \in S
    BY <1>2, <1>8
  <2>2. \A i \in 0 .. rounds - 1 : i \in S => i + 1 \in S
    <3>1. ASSUME NEW i \in 0 .. rounds - 1, i \in S PROVE i + 1 \in S
      <4>1. i + 1 \in 1 .. rounds /\ (i + 1) - 1 = i /\ i + 1 \in Nat
        BY <1>1
      <4>2. F[i + 1] = PowerStep(F[i], m) /\ F[i] \in V
        BY <1>8, <3>1, <4>1
      <4>3. PowerStep(F[i], m) \in V
        BY <4>2, PowerStepIs DEF V
      <4> QED
        BY <4>1, <4>2, <4>3
    <3> QED
      BY <3>1
  <2> HIDE DEF S
  <2>3. \A k \in 0 .. rounds : k \in S
    BY <1>1, <2>1, <2>2, UpTo
  <2>4. rounds \in 0 .. rounds
    BY <1>1
  <2> QED
    BY <2>3, <2>4 DEF S
<1>10. Normal(F[rounds].r) /\ Normal(F[rounds].B)
  BY <1>9, NumeralIs DEF V
<1>11. Normal(mpz_mul(F[rounds].r, F[rounds].B))
  BY <1>10, SignedMultiplication
<1>12. PowerHistory(F, r, b, e, m)
  BY <1>3, <1>8 DEF PowerHistory, base, rounds
<1>13. Normal(PowerLoop(r, b, e, m))
  BY <1>3, <1>11
<1> QED
  BY <1>1, <1>12, <1>13 DEF rounds

\* mpz_pow() and mpz_powm() fail, or leave a normalized number.
LEMMA PowersAre ==
  ASSUME NEW b, Normal(b), NEW e, Normal(e), NEW o, Normal(o)
  PROVE  Result(mpz_pow(b, e)) /\ Result(mpz_powm(b, e, o))
<1>1. ASSUME NEW m, Modulus(m) PROVE Normal(Power(b, e, m))
  <2> DEFINE B == mpz_set(mpz_init, b)
             E == mpz_set(mpz_init, e)
             rs == IF B.s = 1 /\ Odd(E) = 1 THEN 1 ELSE 0
             one == mpz_set_ui(mpz_init, 1)
             t == PowerLoop(one, Positive(B), E, m)
             w == [t EXCEPT !.s = rs]
  <2>1. Clean(mpz_init) /\ Clean(b) /\ Clean(e)
    BY InitNormal DEF Normal
  <2>2. Normal(B) /\ Normal(E)
    BY <2>1, SetCopies
  <2>3. Normal(one)
    <3>1. 1 \in Digit
      BY BaseFacts DEF Digit
    <3> QED
      BY <2>1, <3>1, SetUiIs
  <2>4. Normal(Positive(B))
    BY <2>2, PositiveIs
  <2>5. rs \in {0, 1}
    OBVIOUS
  <2>6. Power(b, e, m) = w
    BY DEF Power
  <2> HIDE DEF B, E, rs, one
  <2>7. Normal(t)
    BY <1>1, <2>2, <2>3, <2>4, PowerLoopIs
  <2> HIDE DEF t
  <2>8. Normal(w)
    BY <2>5, <2>7, SignUpdate
  <2> QED
    BY <2>6, <2>8
<1>2. Modulus(<< >>)
  BY DEF Modulus
<1>3. Normal(Power(b, e, << >>))
  BY <1>1, <1>2
<1>4. Result(mpz_pow(b, e))
  BY <1>3 DEF mpz_pow, Result
<1>5. CASE e.s = 1 \/ o.l = 0
  BY <1>4, <1>5 DEF mpz_powm, Result
<1>6. CASE ~(e.s = 1 \/ o.l = 0)
  <2> DEFINE m == <<o>>
  <2>1. Size(o) # 0
    BY <1>6, ZeroSize
  <2>2. m # << >> /\ m[1] = o
    OBVIOUS
  <2> HIDE DEF m
  <2>3. Normal(Power(b, e, m))
    BY <1>1, <2>1, <2>2 DEF Modulus
  <2>4. Normal(mpz_mod(Power(b, e, m), o))
    BY <2>1, <2>3, ModuloExact
  <2> QED
    BY <1>4, <1>6, <2>4 DEF mpz_powm, Result, m
<1> QED
  BY <1>5, <1>6

\* What a text is made of.  The characters are named because the provers know nothing of
\* STRING, not even that a literal is in it.
Char == STRING \cup {cset[k] : k \in DOMAIN cset} \cup {" ", "-"}

\* A part of a text is a text.
LEMMA TextPart ==
  ASSUME NEW s \in Seq(Char), NEW i \in Int, NEW j \in Int, i >= 1, j <= Len(s)
  PROVE  SubSeq(s, i, j) \in Seq(Char)
<1>1. \A k \in i .. j : s[k] \in Char
  <2>1. ASSUME NEW k \in i .. j PROVE s[k] \in Char
    <3>1. k \in 1 .. Len(s)
      BY LenProperties
    <3> QED
      BY <3>1, ElementOfSeq
  <2> QED
    BY <2>1
<1> QED
  BY <1>1, SubSeqProperties

\* The prefix tells the base and is taken off.
LEMMA GuessIs ==
  ASSUME NEW s \in Seq(Char)
  PROVE  Guess(s).base \in {2, 8, 10, 16} /\ Guess(s).rest \in Seq(Char)
<1>1. Len(s) \in Nat /\ (Len(s) # 0 => s # << >>)
  BY LenProperties, EmptySeq
<1>2. SubSeq(s, 3, Len(s)) \in Seq(Char)
  BY <1>1, TextPart
<1>3. Len(s) # 0 => Tail(s) \in Seq(Char)
  BY <1>1, HeadTailProperties
<1> DEFINE a == [base |-> 10, rest |-> s]
           b == [base |-> 16, rest |-> SubSeq(s, 3, Len(s))]
           c == [base |-> 2, rest |-> SubSeq(s, 3, Len(s))]
           d == [base |-> 8, rest |-> Tail(s)]
<1>4. /\ a.base = 10 /\ a.rest = s
      /\ b.base = 16 /\ b.rest = SubSeq(s, 3, Len(s))
      /\ c.base = 2 /\ c.rest = SubSeq(s, 3, Len(s))
      /\ d.base = 8 /\ d.rest = Tail(s)
  OBVIOUS
<1>5. Guess(s) = IF Len(s) = 0 \/ Head(s) # "0" THEN a
                 ELSE IF Len(s) > 1 /\ s[2] = "x" THEN b
                 ELSE IF Len(s) > 1 /\ s[2] = "b" THEN c ELSE d
  BY DEF Guess
<1> HIDE DEF a, b, c, d
<1>6. CASE Len(s) = 0 \/ Head(s) # "0"
  BY <1>4, <1>5, <1>6
<1>7. CASE ~(Len(s) = 0 \/ Head(s) # "0")
  BY <1>2, <1>3, <1>4, <1>5, <1>7
<1> QED
  BY <1>6, <1>7

\* Blanks at the end are cut off.
LEMMA TrimmedEndIs ==
  ASSUME NEW s \in Seq(Char), s # << >>
  PROVE  TrimmedEnd(s) \in Seq(Char)
<1> DEFINE S == {1} \cup {k \in DOMAIN s : s[k] # " "}
<1>1. Len(s) \in Nat /\ DOMAIN s = 1 .. Len(s) /\ Len(s) >= 1
  BY LenProperties, EmptySeq
<1> DEFINE m == Len(s)
<1>2. \A k \in S : k = 1 \/ k \in 1 .. m
  BY <1>1
<1>3. 1 \in S
  OBVIOUS
<1> HIDE DEF S, m
<1>4. S \in SUBSET (0 .. m)
  BY <1>1, <1>2 DEF m
<1>5. Max(S) \in S
  <2>1. m \in Nat /\ S # {}
    BY <1>1, <1>3 DEF m
  <2> QED
    BY <1>4, <2>1, MaxIn
<1>6. Max(S) \in Int /\ Max(S) <= Len(s)
  <2>1. Max(S) \in 0 .. m /\ m \in Nat
    BY <1>1, <1>4, <1>5 DEF m
  <2> QED
    BY <2>1 DEF m
<1>7. SubSeq(s, 1, Max(S)) \in Seq(Char)
  BY <1>6, TextPart
<1> QED
  BY <1>7 DEF TrimmedEnd, S

\* Blanks in front are counted.
LEMMA BlanksAre ==
  ASSUME NEW s \in Seq(Char)
  PROVE  Blanks(s) \in Nat
<1> DEFINE S == {k \in DOMAIN s : s[k] # " "} \cup {Len(s) + 1}
<1>1. Len(s) \in Nat /\ DOMAIN s = 1 .. Len(s)
  BY LenProperties
<1>2. \A k \in S : k \in 1 .. Len(s) \/ k = Len(s) + 1
  BY <1>1
<1>3. S # {}
  OBVIOUS
<1> HIDE DEF S
<1>4. S \in SUBSET Nat /\ \A k \in S : k >= 1
  BY <1>1, <1>2
<1>5. Min(S) \in S
  BY <1>3, <1>4, MinIn
<1>6. Min(S) \in Nat /\ Min(S) >= 1
  BY <1>4, <1>5
<1>7. Min(S) - 1 \in Nat
  BY <1>6
<1> QED
  BY <1>7 DEF Blanks, S

\* One digit: the sum and the power of the base stay normalized.
LEMMA AddDigitIs ==
  ASSUME NEW p \in [z : Numeral, pow : Numeral], NEW u \in Digit, NEW base \in Digit
  PROVE  AddDigit(p, u, base) \in [z : Numeral, pow : Numeral]
<1> DEFINE w == mpz_set_ui(mpz_init, u)
           y == mpz_mul(w, p.pow)
           z == mpz_add(p.z, y)
           o == mpz_mul_ui(p.pow, base)
<1>1. Normal(p.z) /\ Normal(p.pow)
  BY NumeralIs
<1>2. Normal(w)
  BY InitNormal, SetUiIs DEF Normal
<1> HIDE DEF w
<1>3. Normal(y)
  BY <1>1, <1>2, SignedMultiplication
<1> HIDE DEF y
<1>4. Normal(z)
  BY <1>1, <1>3, SignedAddition
<1>5. Normal(o)
  BY <1>1, MulUiIs
<1>6. AddDigit(p, u, base) = [z |-> z, pow |-> o]
  BY DEF AddDigit, y, w
<1> HIDE DEF z, o
<1>7. z \in Numeral /\ o \in Numeral
  BY <1>4, <1>5, NumeralIs
<1> QED
  BY <1>6, <1>7

\* The sums and the powers of the base, from the last digit to the first.
DigitsHistory(F, text, base) ==
  /\ F[0] = [z |-> mpz_init, pow |-> mpz_set_ui(mpz_init, 1)]
  /\ \A k \in 1 .. Len(text) :
       /\ F[k - 1] \in [z : Numeral, pow : Numeral]
       /\ F[k] = AddDigit(F[k - 1], r_cset(text[Len(text) - k + 1]), base)
  /\ F[Len(text)] \in [z : Numeral, pow : Numeral]

\* The digits make a normalized number.
LEMMA AddDigitsIs ==
  ASSUME NEW text \in Seq(Char), NEW base \in Digit,
         \A k \in 1 .. Len(text) : r_cset(text[k]) \in Digit
  PROVE  /\ Normal(AddDigits(text, base))
         /\ \E F : DigitsHistory(F, text, base) /\ AddDigits(text, base) = F[Len(text)].z
<1> DEFINE m == Len(text)
           V == [z : Numeral, pow : Numeral]
           start == [z |-> mpz_init, pow |-> mpz_set_ui(mpz_init, 1)]
           Op(v, k) == AddDigit(v, r_cset(text[m - k + 1]), base)
           Eqn(f) == f = [k \in 0 .. m |-> IF k = 0 THEN start ELSE Op(f[k - 1], k)]
           F == CHOOSE f : Eqn(f)
           step == [i \in 1 .. m |-> [v \in V |-> Op(v, i)]]
<1>1. AddDigits(text, base) = F[m].z
  BY DEF AddDigits
<1>2. m \in Nat
  BY LenProperties
<1>3. \A i \in 1 .. m : r_cset(text[m - i + 1]) \in Digit
  <2>1. \A i \in 1 .. m : m - i + 1 \in 1 .. m
    BY <1>2
  <2> QED
    BY <2>1
<1>4. start \in V
  <2>1. Normal(mpz_init) /\ Clean(mpz_init) /\ 1 \in Digit
    BY InitNormal, BaseFacts DEF Normal, Digit
  <2>2. Normal(mpz_set_ui(mpz_init, 1))
    BY <2>1, SetUiIs
  <2> QED
    BY <2>1, <2>2, NumeralIs
<1>5. \A i \in 1 .. m : \A v \in V : Op(v, i) \in V
  BY <1>3, AddDigitIs
<1> HIDE DEF Op, start, V
<1>6. step \in [1 .. m -> [V -> V]]
  BY <1>5
<1> HIDE DEF step, m
<1>7. PICK f \in [0 .. m -> V] : Iterates(f, start, m, step)
  BY <1>2, <1>4, <1>6, Recursion
<1>8. Eqn(f)
  <2>1. ASSUME NEW k \in 0 .. m
        PROVE  f[k] = IF k = 0 THEN start ELSE Op(f[k - 1], k)
    <3>1. CASE k = 0
      BY <1>7, <3>1 DEF Iterates
    <3>2. CASE k # 0
      <4>1. k \in 1 .. m /\ k - 1 \in 0 .. m
        BY <1>2, <3>2
      <4>2. f[k] = step[k][f[k - 1]] /\ f[k - 1] \in V
        BY <1>7, <4>1 DEF Iterates
      <4>3. step[k][f[k - 1]] = Op(f[k - 1], k)
        BY <4>1, <4>2 DEF step
      <4> QED
        BY <3>2, <4>2, <4>3
    <3> QED
      BY <3>1, <3>2
  <2>2. f = [k \in 0 .. m |-> f[k]]
    BY <1>7
  <2> QED
    BY <2>1, <2>2
<1>9. Eqn(F)
  <2> HIDE DEF Eqn
  <2> QED
    BY <1>8
<1>10. F[0] = start /\ \A k \in 1 .. m : F[k] = Op(F[k - 1], k)
  <2>1. 0 \in 0 .. m /\ \A k \in 1 .. m : k \in 0 .. m /\ k # 0
    BY <1>2
  <2> HIDE DEF F
  <2> QED
    BY <1>9, <2>1
<1> HIDE DEF F, Eqn
<1>11. \A k \in 0 .. m : F[k] \in V
  <2> DEFINE S == {k \in Nat : F[k] \in V}
  <2>1. 0 \in S
    BY <1>4, <1>10
  <2>2. \A i \in 0 .. m - 1 : i \in S => i + 1 \in S
    <3>1. ASSUME NEW i \in 0 .. m - 1, i \in S PROVE i + 1 \in S
      <4>1. i + 1 \in 1 .. m /\ (i + 1) - 1 = i /\ i + 1 \in Nat
        BY <1>2
      <4>2. F[i + 1] = Op(F[i], i + 1) /\ F[i] \in V
        BY <1>10, <3>1, <4>1
      <4> QED
        BY <1>5, <4>1, <4>2
    <3> QED
      BY <3>1
  <2> HIDE DEF S
  <2>3. \A k \in 0 .. m : k \in S
    BY <1>2, <2>1, <2>2, UpTo
  <2> QED
    BY <2>3 DEF S
<1>12. F[m] \in V /\ \A k \in 1 .. m : F[k - 1] \in V
  <2>1. m \in 0 .. m /\ \A k \in 1 .. m : k - 1 \in 0 .. m
    BY <1>2
  <2> QED
    BY <1>11, <2>1
<1>13. DigitsHistory(F, text, base)
  BY <1>10, <1>12 DEF DigitsHistory, V, Op, m, start
<1>14. Normal(F[m].z)
  BY <1>12, NumeralIs DEF V
<1> QED
  BY <1>1, <1>13, <1>14 DEF m

\* mpz_set_str() fails, or makes a normalized number.
LEMMA SetStrIs ==
  ASSUME NEW s \in Seq(Char)
  PROVE  Result(mpz_set_str(s))
<1> DEFINE body == SubSeq(s, Blanks(s) + 1, Len(s))
           neg == body # << >> /\ Head(body) = "-"
           g == Guess(IF neg THEN Tail(body) ELSE body)
           text == IF g.rest = << >> THEN << >> ELSE TrimmedEnd(g.rest)
           bad == \E k \in DOMAIN text : r_cset(text[k]) \notin 0 .. g.base - 1
           sign == IF neg THEN 1 ELSE 0
           z == AddDigits(text, g.base)
<1>1. mpz_set_str(s) = IF bad THEN SBN_INVAL ELSE [z EXCEPT !.s = sign]
  BY DEF mpz_set_str
<1>2. Blanks(s) + 1 \in Int /\ Len(s) \in Nat /\ Blanks(s) + 1 >= 1
  BY BlanksAre, LenProperties
<1>3. body \in Seq(Char)
  BY <1>2, TextPart
<1> HIDE DEF body
<1>4. (IF neg THEN Tail(body) ELSE body) \in Seq(Char)
  <2>1. body # << >> => Tail(body) \in Seq(Char)
    BY <1>3, HeadTailProperties
  <2> QED
    BY <1>3, <2>1
<1> HIDE DEF neg
<1>5. g.base \in {2, 8, 10, 16} /\ g.rest \in Seq(Char)
  BY <1>4, GuessIs
<1> HIDE DEF g
<1>6. text \in Seq(Char)
  <2>1. << >> \in Seq(Char)
    BY EmptySeq
  <2> QED
    BY <1>5, <2>1, TrimmedEndIs
<1> HIDE DEF text
<1>7. Len(text) \in Nat /\ DOMAIN text = 1 .. Len(text)
  BY <1>6, LenProperties
<1>8. SUFFICES ASSUME ~bad PROVE Normal([z EXCEPT !.s = sign])
  BY <1>1 DEF Result
<1>9. g.base \in Digit /\ \A k \in 1 .. Len(text) : r_cset(text[k]) \in Digit
  <2>1. g.base \in Digit
    BY <1>5, BaseFacts DEF Digit
  <2>2. \A k \in 1 .. Len(text) : r_cset(text[k]) \in 0 .. g.base - 1
    BY <1>7, <1>8
  <2>3. 0 .. g.base - 1 \subseteq Digit
    BY <1>5, BaseFacts DEF Digit
  <2> QED
    BY <2>1, <2>2, <2>3
<1>10. Normal(z) /\ sign \in {0, 1}
  BY <1>6, <1>9, AddDigitsIs
<1> HIDE DEF z, sign
<1> DEFINE w == [z EXCEPT !.s = sign]
<1>11. Normal(w)
  BY <1>10, SignUpdate
<1> QED
  BY <1>11
=============================================================================
