---------------------------- MODULE LedgerProofs ----------------------------
(***************************************************************************)
(* How the ledger operations change the total of a ledger, for any finite  *)
(* set of holders.  The module proofs cite these lemmas and never reason   *)
(* about Units or Cardinality themselves.                                  *)
(***************************************************************************)
EXTENDS Ledger, FiniteSetTheorems, WellFoundedInduction, TLAPS

\* A ledger over finitely many holders records finitely many units, so its
\* total is a natural number.
LEMMA TotalType ==
    ASSUME NEW S, IsFiniteSet(S), NEW f \in [S -> Nat]
    PROVE  IsFiniteSet(Units(f)) /\ TotalOf(f) \in Nat
<1> DEFINE g == [x \in S |-> {x} \X (1..f[x])]
           T == {{x} \X (1..f[x]) : x \in S}
<1>1. g \in Surjection(S, T)
  BY DEF Surjection
<1>2. IsFiniteSet(T)
  BY <1>1, FS_Surjection
<1>3. \A u \in T : IsFiniteSet(u)
  <2> SUFFICES ASSUME NEW x \in S PROVE IsFiniteSet({x} \X (1..f[x]))
    OBVIOUS
  <2>1. f[x] \in Int
    OBVIOUS
  <2>2. IsFiniteSet(1..f[x])
    BY <2>1, FS_Interval
  <2>3. IsFiniteSet({x})
    BY FS_Singleton
  <2> QED
    BY <2>2, <2>3, FS_Product
<1>4. IsFiniteSet(UNION T)
  BY <1>2, <1>3, FS_UNION
<1>5. Units(f) = UNION T
  BY DEF Units
<1> QED
  BY <1>4, <1>5, FS_CardinalityType DEF TotalOf

LEMMA CreditType ==
    ASSUME NEW S, NEW f \in [S -> Nat], NEW x \in S, NEW n \in Nat
    PROVE  Credit(f, x, n) \in [S -> Nat]
BY DEF Credit

LEMMA DebitType ==
    ASSUME NEW S, NEW f \in [S -> Nat], NEW x \in S, NEW n \in Nat, n <= f[x]
    PROVE  Debit(f, x, n) \in [S -> Nat]
BY DEF Debit

\* Crediting n units raises the total by n.
LEMMA CreditTotal ==
    ASSUME NEW S, IsFiniteSet(S), NEW f \in [S -> Nat], NEW x \in S, NEW n \in Nat
    PROVE  TotalOf(Credit(f, x, n)) = TotalOf(f) + n
<1> DEFINE g   == Credit(f, x, n)
           new == {x} \X ((f[x] + 1)..(f[x] + n))
<1>1. g \in [S -> Nat]
  BY CreditType
<1>2. IsFiniteSet(Units(f)) /\ TotalOf(f) \in Nat
  BY TotalType
<1>3. IsFiniteSet(new) /\ Cardinality(new) = n
  <2> DEFINE lo == f[x] + 1
             hi == f[x] + n
  <2>1. lo \in Int /\ hi \in Int /\ (lo > hi <=> n = 0) /\ hi - lo + 1 = n
    OBVIOUS
  <2>2. IsFiniteSet(lo..hi) /\ Cardinality(lo..hi) = n
    <3> HIDE DEF lo, hi
    <3>1. IsFiniteSet(lo..hi) /\ Cardinality(lo..hi) = IF lo > hi THEN 0 ELSE hi - lo + 1
      BY <2>1, FS_Interval
    <3> QED
      BY <2>1, <3>1
  <2>3. IsFiniteSet({x}) /\ Cardinality({x}) = 1
    BY FS_Singleton
  <2> HIDE DEF lo, hi
  <2>4. IsFiniteSet({x} \X (lo..hi)) /\ Cardinality({x} \X (lo..hi)) = 1 * n
    BY <2>2, <2>3, FS_Product
  <2> QED
    BY <2>4 DEF lo, hi
<1>4. Units(g) = Units(f) \cup new
  <2>1. \A y \in S \ {x} : g[y] = f[y]
    BY DEF Credit
  <2>2. g[x] = f[x] + n
    BY DEF Credit
  <2>3. 1..(f[x] + n) = 1..f[x] \cup (f[x] + 1)..(f[x] + n)
    OBVIOUS
  <2>4. {x} \X (1..g[x]) = ({x} \X (1..f[x])) \cup new
    BY <2>2, <2>3
  <2>5. DOMAIN g = S /\ DOMAIN f = S
    BY <1>1
  <2> QED
    BY <2>1, <2>4, <2>5 DEF Units
<1>5. Units(f) \cap new = {}
  <2> SUFFICES ASSUME NEW u \in Units(f), u \in new PROVE FALSE
    OBVIOUS
  <2>1. PICK y \in S : u \in {y} \X (1..f[y])
    BY DEF Units
  <2>2. y = x
    BY <2>1
  <2>3. u[2] \in 1..f[x] /\ u[2] \in (f[x] + 1)..(f[x] + n)
    BY <2>1, <2>2
  <2> QED
    BY <2>3
<1>6. Cardinality(Units(f) \cup new)
        = Cardinality(Units(f)) + Cardinality(new) - Cardinality(Units(f) \cap new)
  BY <1>2, <1>3, FS_Union
<1>7. Cardinality(Units(f) \cap new) = 0
  BY <1>5, FS_EmptySet
<1> QED
  BY <1>2, <1>3, <1>4, <1>6, <1>7 DEF TotalOf

\* Debiting n units that the holder has lowers the total by n.
LEMMA DebitTotal ==
    ASSUME NEW S, IsFiniteSet(S), NEW f \in [S -> Nat], NEW x \in S,
           NEW n \in Nat, n <= f[x]
    PROVE  /\ n <= TotalOf(f)
           /\ TotalOf(Debit(f, x, n)) = TotalOf(f) - n
<1>1. Debit(f, x, n) \in [S -> Nat]
  BY DebitType
<1>2. Credit(Debit(f, x, n), x, n) = f
  <2>1. Credit(Debit(f, x, n), x, n) \in [S -> Nat]
    BY <1>1, CreditType
  <2>2. \A y \in S : Credit(Debit(f, x, n), x, n)[y] = f[y]
    BY DEF Credit, Debit
  <2> QED
    BY <2>1, <2>2
<1>3. TotalOf(f) = TotalOf(Debit(f, x, n)) + n
  BY <1>1, <1>2, CreditTotal
<1>4. TotalOf(Debit(f, x, n)) \in Nat
  BY <1>1, TotalType
<1> QED
  BY <1>3, <1>4

\* A move between two holders, or from a holder to itself, keeps the total.
LEMMA MoveTotal ==
    ASSUME NEW S, IsFiniteSet(S), NEW f \in [S -> Nat], NEW x \in S, NEW y \in S,
           NEW n \in Nat, n <= f[x]
    PROVE  /\ Move(f, x, y, n) \in [S -> Nat]
           /\ TotalOf(Move(f, x, y, n)) = TotalOf(f)
<1>1. Debit(f, x, n) \in [S -> Nat]
  BY DebitType
<1>2. TotalOf(Debit(f, x, n)) = TotalOf(f) - n /\ TotalOf(f) \in Nat
  BY DebitTotal, TotalType
<1>3. TotalOf(Move(f, x, y, n)) = TotalOf(Debit(f, x, n)) + n
  BY <1>1, CreditTotal DEF Move
<1>4. Move(f, x, y, n) \in [S -> Nat]
  BY <1>1, CreditType DEF Move
<1> QED
  BY <1>2, <1>3, <1>4

\* The total of an empty ledger is 0.
LEMMA EmptyTotal ==
    ASSUME NEW S
    PROVE  TotalOf([x \in S |-> 0]) = 0
<1>1. Units([x \in S |-> 0]) = {}
  BY DEF Units
<1> QED
  BY <1>1, FS_EmptySet DEF TotalOf

\* No holder has more than the total.
LEMMA HolderBelowTotal ==
    ASSUME NEW S, IsFiniteSet(S), NEW f \in [S -> Nat], NEW x \in S
    PROVE  f[x] <= TotalOf(f)
BY DebitTotal

-----------------------------------------------------------------------------
(* Sums and products of ledgers *)

\* A set of natural numbers has a least one.
LEMMA Least ==
    ASSUME NEW T, T \subseteq Nat, T # {}
    PROVE  \E m \in T : \A k \in T : m <= k
<1> DEFINE R == {ss \in Nat \X Nat : ss[1] < ss[2]}
<1>1. IsWellFoundedOn(R, Nat)
  BY NatLessThanWellFounded DEF OpToRel
<1> HIDE DEF R
<1>2. PICK m \in T : \A k \in T : <<k, m>> \notin R
  BY <1>1, WFMin
<1>3. \A k \in T : ~(k < m)
  BY <1>2 DEF R
<1> QED
  BY <1>3

\* The arithmetic of products, for facts too large for the solver to find it in.
LEMMA ProductType ==
    ASSUME NEW x \in Nat, NEW y \in Nat
    PROVE  x * y \in Nat
OBVIOUS

LEMMA Distributed ==
    ASSUME NEW x \in Int, NEW y \in Int, NEW z \in Int
    PROVE  (x + y) * z = x * z + y * z
OBVIOUS

\* A ledger with more everywhere has a larger total.
LEMMA TotalMonotone ==
    ASSUME NEW S, IsFiniteSet(S), NEW f \in [S -> Nat], NEW g \in [S -> Nat],
           \A x \in S : f[x] <= g[x]
    PROVE  TotalOf(f) <= TotalOf(g)
<1>1. Units(f) \subseteq Units(g)
  <2> SUFFICES ASSUME NEW x \in S PROVE {x} \X (1..f[x]) \subseteq {x} \X (1..g[x])
    BY DEF Units
  <2>1. 1..f[x] \subseteq 1..g[x]
    OBVIOUS
  <2> QED
    BY <2>1
<1>2. IsFiniteSet(Units(g))
  BY TotalType
<1> QED
  BY <1>1, <1>2, FS_Subset DEF TotalOf

\* Holders of nothing do not count.
LEMMA TotalRestricted ==
    ASSUME NEW S, NEW T \in SUBSET S, NEW f \in [S -> Nat], \A x \in S \ T : f[x] = 0,
           NEW g \in [T -> Nat], \A x \in T : g[x] = f[x]
    PROVE  TotalOf(f) = TotalOf(g)
<1>1. Units(f) \subseteq Units(g)
  <2> SUFFICES ASSUME NEW x \in S, NEW u \in {x} \X (1..f[x]) PROVE u \in Units(g)
    BY DEF Units
  <2>1. x \in T
    OBVIOUS
  <2> QED
    BY <2>1 DEF Units
<1>2. Units(g) \subseteq Units(f)
  BY DEF Units
<1>3. Units(f) = Units(g)
  BY <1>1, <1>2
<1> QED
  BY <1>3 DEF TotalOf

\* The sum of two ledgers.
LEMMA TotalAdded ==
    ASSUME NEW S, IsFiniteSet(S), NEW f \in [S -> Nat], NEW g \in [S -> Nat],
           NEW h \in [S -> Nat], \A x \in S : h[x] = f[x] + g[x]
    PROVE  TotalOf(h) = TotalOf(f) + TotalOf(g)
<1> DEFINE new == Units(h) \ Units(f)
           up == [u \in Units(g) |-> <<u[1], f[u[1]] + u[2]>>]
<1>2. /\ IsFiniteSet(Units(f)) /\ IsFiniteSet(Units(g)) /\ IsFiniteSet(Units(h))
      /\ TotalOf(f) \in Nat /\ TotalOf(g) \in Nat
  BY TotalType
<1>3. \A u : u \in Units(f) <=> \E x \in S, k \in Nat : u = <<x, k>> /\ 1 <= k /\ k <= f[x]
  BY DEF Units
<1>4. \A u : u \in Units(g) <=> \E x \in S, k \in Nat : u = <<x, k>> /\ 1 <= k /\ k <= g[x]
  BY DEF Units
<1>5. \A u : u \in Units(h) <=> \E x \in S, k \in Nat : u = <<x, k>> /\ 1 <= k /\ k <= f[x] + g[x]
  BY DEF Units
<1>6. Units(f) \subseteq Units(h)
  BY <1>3, <1>5
<1>7. \A u : u \in new <=>
        \E x \in S, k \in Nat : u = <<x, k>> /\ f[x] < k /\ k <= f[x] + g[x]
  BY <1>3, <1>5
<1> HIDE DEF new
<1>8. up \in Bijection(Units(g), new)
  <2>1. up \in [Units(g) -> new]
    <3> SUFFICES ASSUME NEW u \in Units(g) PROVE <<u[1], f[u[1]] + u[2]>> \in new
      OBVIOUS
    <3>1. PICK x \in S, k \in Nat : u = <<x, k>> /\ 1 <= k /\ k <= g[x]
      BY <1>4
    <3>2. f[x] + k \in Nat /\ f[x] < f[x] + k /\ f[x] + k <= f[x] + g[x]
      BY <3>1
    <3> QED
      BY <1>7, <3>1, <3>2
  <2>2. ASSUME NEW u \in Units(g), NEW v \in Units(g), up[u] = up[v]
        PROVE  u = v
    <3>1. PICK x \in S, k \in Nat : u = <<x, k>>
      BY <1>4
    <3>2. PICK y \in S, l \in Nat : v = <<y, l>>
      BY <1>4
    <3>3. x = y /\ f[x] + k = f[y] + l
      BY <2>2, <3>1, <3>2
    <3> QED
      BY <3>1, <3>2, <3>3
  <2>3. ASSUME NEW v \in new PROVE \E u \in Units(g) : up[u] = v
    <3>1. PICK x \in S, k \in Nat : v = <<x, k>> /\ f[x] < k /\ k <= f[x] + g[x]
      BY <1>7
    <3>2. k - f[x] \in Nat /\ 1 <= k - f[x] /\ k - f[x] <= g[x] /\ f[x] + (k - f[x]) = k
      BY <3>1
    <3>3. PICK l \in Nat : l = k - f[x]
      BY <3>2
    <3>4. <<x, l>> \in Units(g)
      BY <1>4, <3>2, <3>3
    <3>5. up[<<x, l>>] = v
      BY <3>1, <3>2, <3>3, <3>4
    <3> QED
      BY <3>4, <3>5
  <2> QED
    BY <2>1, <2>2, <2>3 DEF Bijection, Injection, IsInjective, Surjection
<1>9. IsFiniteSet(new) /\ Cardinality(new) = Cardinality(Units(g))
  <2>1. ExistsBijection(Units(g), new)
    BY <1>8 DEF ExistsBijection
  <2> QED
    BY <1>2, <2>1, FS_Bijection
<1>10. Units(h) = Units(f) \cup new /\ Units(f) \cap new = {}
  BY <1>6 DEF new
<1>11. Cardinality(Units(f) \cap new) = 0
  BY <1>10, FS_EmptySet
<1>12. Cardinality(Units(f) \cup new) =
         Cardinality(Units(f)) + Cardinality(new) - Cardinality(Units(f) \cap new)
  BY <1>2, <1>9, FS_Union
<1> QED
  BY <1>2, <1>9, <1>10, <1>11, <1>12 DEF TotalOf

\* A ledger in which everyone has the same.
LEMMA ConstTotal ==
    ASSUME NEW S, IsFiniteSet(S), NEW k \in Nat
    PROVE  TotalOf([x \in S |-> k]) = Cardinality(S) * k
<1>1. Units([x \in S |-> k]) = S \X (1..k)
  BY DEF Units
<1>2. IsFiniteSet(1..k) /\ Cardinality(1..k) = k
  BY FS_Interval
<1>3. Cardinality(S \X (1..k)) = Cardinality(S) * Cardinality(1..k)
  BY <1>2, FS_Product
<1> QED
  BY <1>1, <1>2, <1>3 DEF TotalOf

\* f is k times the ledger g over S.
Multiple(f, k, g, S) ==
    f \in [S -> Nat] /\ g \in [S -> Nat] /\ \A x \in S : f[x] = k * g[x]

\* One more times a ledger.
LEMMA MultipleNext ==
    ASSUME NEW S, IsFiniteSet(S), NEW k \in Nat, NEW m \in Nat, m = k + 1,
           NEW f, NEW h, Multiple(h, m, f, S),
           \A g : Multiple(g, k, f, S) => TotalOf(g) = k * TotalOf(f)
    PROVE  TotalOf(h) = m * TotalOf(f)
<1>1. /\ f \in [S -> Nat] /\ h \in [S -> Nat]
      /\ \A x \in S : h[x] = m * f[x] /\ f[x] \in Nat
  BY DEF Multiple
<1>2. PICK less : less = [x \in S |-> k * f[x]]
  OBVIOUS
<1>3. less \in [S -> Nat] /\ \A x \in S : less[x] = k * f[x]
  BY <1>1, <1>2
<1>4. TotalOf(less) = k * TotalOf(f)
  BY <1>1, <1>3 DEF Multiple
<1>5. \A x \in S : h[x] = less[x] + f[x]
  <2> SUFFICES ASSUME NEW x \in S PROVE h[x] = less[x] + f[x]
    OBVIOUS
  <2>1. PICK a \in Nat : a = f[x]
    BY <1>1
  <2>2. h[x] = m * a /\ less[x] = k * a
    BY <1>1, <1>3, <2>1
  <2>3. m * a = k * a + a
    OBVIOUS
  <2> QED
    BY <2>1, <2>2, <2>3
<1>6. TotalOf(h) = TotalOf(less) + TotalOf(f)
  BY <1>1, <1>3, <1>5, TotalAdded
<1>7. TotalOf(f) \in Nat
  BY <1>1, TotalType
<1> QED
  BY <1>4, <1>6, <1>7

\* k times a ledger has k times its total.
LEMMA TotalScaled ==
    ASSUME NEW S, IsFiniteSet(S), NEW n \in Nat, NEW f, NEW h, Multiple(h, n, f, S)
    PROVE  TotalOf(h) = n * TotalOf(f)
<1> DEFINE bad == {k \in Nat : \E g : Multiple(g, k, f, S) /\ TotalOf(g) # k * TotalOf(f)}
<1>1. SUFFICES ASSUME bad # {} PROVE FALSE
  OBVIOUS
<1>2. PICK m \in bad : \A k \in bad : m <= k
  BY <1>1, Least
<1>3. m \in Nat /\ \A k \in Nat : k < m => k \notin bad
  BY <1>2
<1>4. PICK g : Multiple(g, m, f, S) /\ TotalOf(g) # m * TotalOf(f)
  BY <1>2
<1>5. m # 0
  <2> SUFFICES ASSUME m = 0 PROVE FALSE
    OBVIOUS
  <2>1. g = [x \in S |-> 0] /\ f \in [S -> Nat]
    BY <1>4 DEF Multiple
  <2>2. TotalOf(g) = 0 /\ TotalOf(f) \in Nat
    BY <2>1, EmptyTotal, TotalType
  <2> QED
    BY <1>4, <2>2
<1>6. PICK k \in Nat : m = k + 1 /\ k < m
  BY <1>3, <1>5
<1>7. \A less : Multiple(less, k, f, S) => TotalOf(less) = k * TotalOf(f)
  BY <1>3, <1>6
<1> HIDE DEF bad
<1> QED
  BY <1>3, <1>4, <1>6, <1>7, MultipleNext

\* A ledger whose holders have other names.
Renamed(g, f, h, A, B) ==
    /\ h \in [A -> B]
    /\ \A a, b \in A : h[a] = h[b] => a = b
    /\ \A b \in B : \E a \in A : h[a] = b
    /\ f \in [B -> Nat] /\ g \in [A -> Nat]
    /\ \A a \in A : g[a] = f[h[a]]

LEMMA TotalRenamed ==
    ASSUME NEW A, NEW B, IsFiniteSet(A), NEW h, NEW f, NEW g, Renamed(g, f, h, A, B)
    PROVE  TotalOf(g) = TotalOf(f)
<1> DEFINE to == [u \in Units(g) |-> <<h[u[1]], u[2]>>]
<1>1. /\ h \in [A -> B]
      /\ \A a, b \in A : h[a] = h[b] => a = b
      /\ \A b \in B : \E a \in A : h[a] = b
      /\ f \in [B -> Nat] /\ g \in [A -> Nat]
      /\ \A a \in A : g[a] = f[h[a]]
  BY DEF Renamed
<1>3. IsFiniteSet(Units(g))
  BY <1>1, TotalType
<1>4. \A u : u \in Units(g) <=> \E a \in A : \E k \in 1..f[h[a]] : u = <<a, k>>
  BY <1>1 DEF Units
<1>5. \A u : u \in Units(f) <=> \E b \in B : \E k \in 1..f[b] : u = <<b, k>>
  BY <1>1 DEF Units
<1>6. to \in Bijection(Units(g), Units(f))
  <2>1. to \in [Units(g) -> Units(f)]
    <3> SUFFICES ASSUME NEW u \in Units(g) PROVE <<h[u[1]], u[2]>> \in Units(f)
      OBVIOUS
    <3>1. PICK a \in A, k \in Nat : k \in 1..f[h[a]] /\ u = <<a, k>>
      BY <1>4
    <3> QED
      BY <1>1, <1>5, <3>1
  <2>2. ASSUME NEW u \in Units(g), NEW v \in Units(g), to[u] = to[v]
        PROVE  u = v
    <3>1. PICK a \in A, k \in Nat : k \in 1..f[h[a]] /\ u = <<a, k>>
      BY <1>4
    <3>2. PICK b \in A, l \in Nat : l \in 1..f[h[b]] /\ v = <<b, l>>
      BY <1>4
    <3>3. h[a] = h[b] /\ k = l
      BY <2>2, <3>1, <3>2
    <3> QED
      BY <1>1, <3>1, <3>2, <3>3
  <2>3. ASSUME NEW v \in Units(f) PROVE \E u \in Units(g) : to[u] = v
    <3>1. PICK b \in B, k \in Nat : k \in 1..f[b] /\ v = <<b, k>>
      BY <1>5
    <3>2. PICK a \in A : h[a] = b
      BY <1>1
    <3>3. <<a, k>> \in Units(g)
      BY <1>4, <3>1, <3>2
    <3>4. to[<<a, k>>] = v
      BY <3>1, <3>2, <3>3
    <3> QED
      BY <3>3, <3>4
  <2> QED
    BY <2>1, <2>2, <2>3 DEF Bijection, Injection, IsInjective, Surjection
<1>7. ExistsBijection(Units(g), Units(f))
  BY <1>6 DEF ExistsBijection
<1> QED
  BY <1>3, <1>7, FS_Bijection DEF TotalOf

\* A family of disjoint sets with union S, and g the ledger of their sizes.
Sizes(g, F, I, S) ==
    /\ DOMAIN F = I
    /\ \A i \in I : F[i] \subseteq S
    /\ \A i, j \in I : i # j => F[i] \cap F[j] = {}
    /\ \A x \in S : \E i \in I : x \in F[i]
    /\ g = [i \in I |-> Cardinality(F[i])]

LEMMA TotalOfFamily ==
    ASSUME NEW I, NEW S, IsFiniteSet(S), NEW F, NEW g, Sizes(g, F, I, S)
    PROVE  TotalOf(g) = Cardinality(S)
<1> DEFINE num == [i \in I |-> CHOOSE b : b \in Bijection(F[i], 1..g[i])]
           of  == [x \in S |-> CHOOSE i : i \in I /\ x \in F[i]]
           to  == [x \in S |-> <<of[x], num[of[x]][x]>>]
<1>1. \A i \in I : IsFiniteSet(F[i]) /\ Cardinality(F[i]) \in Nat /\ g[i] = Cardinality(F[i])
  BY FS_Subset, FS_CardinalityType DEF Sizes
<1>2. \A i \in I : num[i] \in Bijection(F[i], 1..g[i])
  <2> SUFFICES ASSUME NEW i \in I PROVE \E b : b \in Bijection(F[i], 1..g[i])
    OBVIOUS
  <2>1. IsFiniteSet(1..g[i]) /\ Cardinality(1..g[i]) = g[i]
    BY <1>1, FS_Interval
  <2>2. ExistsBijection(F[i], 1..g[i])
    BY <1>1, <2>1, FS_SameCardinalityBij
  <2> QED
    BY <2>2 DEF ExistsBijection
<1>3. \A i \in I : /\ num[i] \in [F[i] -> 1..g[i]]
                   /\ \A x, y \in F[i] : num[i][x] = num[i][y] => x = y
                   /\ \A k \in 1..g[i] : \E x \in F[i] : num[i][x] = k
  <2> SUFFICES ASSUME NEW i \in I
               PROVE  /\ num[i] \in [F[i] -> 1..g[i]]
                      /\ \A x, y \in F[i] : num[i][x] = num[i][y] => x = y
                      /\ \A k \in 1..g[i] : \E x \in F[i] : num[i][x] = k
    OBVIOUS
  <2>1. PICK b : b = num[i]
    OBVIOUS
  <2>2. b \in Bijection(F[i], 1..g[i])
    BY <1>2, <2>1
  <2>3. /\ b \in [F[i] -> 1..g[i]]
        /\ \A x, y \in F[i] : b[x] = b[y] => x = y
        /\ \A k \in 1..g[i] : \E x \in F[i] : b[x] = k
    BY <2>2 DEF Bijection, Injection, IsInjective, Surjection
  <2> HIDE DEF num
  <2> QED
    BY <2>1, <2>3
<1> HIDE DEF num
<1>4. \A x \in S : of[x] \in I /\ x \in F[of[x]]
  BY DEF Sizes
<1>5. \A i \in I : \A x \in F[i] : x \in S /\ of[x] = i
  BY <1>4 DEF Sizes
<1> HIDE DEF of
<1>6. \A u : u \in Units(g) <=> \E i \in I : \E k \in 1..g[i] : u = <<i, k>>
  BY DEF Units, Sizes
<1>7. to \in Bijection(S, Units(g))
  <2>1. to \in [S -> Units(g)]
    <3> SUFFICES ASSUME NEW x \in S PROVE <<of[x], num[of[x]][x]>> \in Units(g)
      OBVIOUS
    <3>1. of[x] \in I /\ x \in F[of[x]]
      BY <1>4
    <3>2. num[of[x]][x] \in 1..g[of[x]]
      BY <1>3, <3>1
    <3> QED
      BY <1>6, <3>1, <3>2
  <2>2. ASSUME NEW x \in S, NEW y \in S, to[x] = to[y] PROVE x = y
    <3>1. of[x] = of[y] /\ num[of[x]][x] = num[of[x]][y]
      BY <2>2
    <3> QED
      BY <1>3, <1>4, <3>1
  <2>3. ASSUME NEW u \in Units(g) PROVE \E x \in S : to[x] = u
    <3>1. PICK i \in I, k \in Nat : k \in 1..g[i] /\ u = <<i, k>>
      BY <1>6
    <3>2. PICK x \in F[i] : num[i][x] = k
      BY <1>3, <3>1
    <3> QED
      BY <1>5, <3>1, <3>2
  <2> QED
    BY <2>1, <2>2, <2>3 DEF Bijection, Injection, IsInjective, Surjection
<1>8. ExistsBijection(S, Units(g))
  BY <1>7 DEF ExistsBijection
<1> QED
  BY <1>8, FS_Bijection DEF TotalOf

\* Finitely many functions between finite sets.
LEMMA FunctionsFinite ==
    ASSUME NEW A, NEW B, IsFiniteSet(A), IsFiniteSet(B)
    PROVE  IsFiniteSet([A -> B])
<1> DEFINE graph == [f \in [A -> B] |-> {<<x, f[x]>> : x \in A}]
<1>1. IsFiniteSet(SUBSET (A \X B))
  BY FS_Product, FS_SUBSET
<1>2. graph \in Injection([A -> B], SUBSET (A \X B))
  <2>1. graph \in [[A -> B] -> SUBSET (A \X B)]
    OBVIOUS
  <2>2. ASSUME NEW f \in [A -> B], NEW g \in [A -> B], graph[f] = graph[g]
        PROVE  f = g
    <3>1. \A x \in A : f[x] = g[x]
      <4> SUFFICES ASSUME NEW x \in A PROVE f[x] = g[x]
        OBVIOUS
      <4>1. <<x, f[x]>> \in {<<y, g[y]>> : y \in A}
        BY <2>2
      <4> QED
        BY <4>1
    <3> QED
      BY <3>1
  <2> QED
    BY <2>1, <2>2 DEF Injection, IsInjective
<1> QED
  BY <1>1, <1>2, FS_Injection
=============================================================================
