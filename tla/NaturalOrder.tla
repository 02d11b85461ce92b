---------------------------- MODULE NaturalOrder ----------------------------
(***************************************************************************)
(* Induction and recursion on natural numbers, stated with sets and        *)
(* functions: facts for the proofs about what the modules compute by       *)
(* counting.  They rest on one fact of the library, that < is well-founded.*)
(***************************************************************************)
EXTENDS Naturals, WellFoundedInduction, TLAPS

Smaller == {p \in Nat \X Nat : p[1] < p[2]}

LEMMA SmallerIsWellFounded == IsWellFoundedOn(Smaller, Nat)
<1>1. OpToRel(<, Nat) = Smaller
  BY Zenon DEF OpToRel, Smaller
<1> QED BY <1>1, NatLessThanWellFounded, Zenon

LEMMA Smallest ==
  ASSUME NEW S \in SUBSET Nat, S # {}
  PROVE  \E m \in S : \A k \in S : m <= k
<1>1. PICK m \in S : \A k \in S : ~(<<k, m>> \in Smaller)
  BY SmallerIsWellFounded, WFMin
<1>2. ASSUME NEW k \in S PROVE m <= k
  <2>1. <<k, m>> \in Nat \X Nat /\ <<k, m>> \notin Smaller
    BY <1>1
  <2> QED BY <2>1 DEF Smaller
<1> QED BY <1>2

\* A set that has 0 and with every number the next one has them all.
LEMMA Induction ==
  ASSUME NEW S \in SUBSET Nat, 0 \in S, \A n \in S : n + 1 \in S
  PROVE  \A n \in Nat : n \in S
<1> DEFINE T == Nat \ S
<1> SUFFICES ASSUME T # {} PROVE FALSE
  OBVIOUS
<1>1. PICK m \in T : \A k \in T : m <= k
  BY Smallest
<1>2. m \in Nat /\ m # 0 /\ m - 1 \in Nat
  OBVIOUS
<1>3. m - 1 \in S
  BY <1>1, <1>2
<1> QED BY <1>2, <1>3

\* What comes of base when F is applied n times, each time with the number of the time.
IsIteration(f, n, base, F, T) ==
  f \in [0 .. n -> T] /\ f[0] = base /\ \A k \in 1 .. n : f[k] = F[<<k, f[k - 1]>>]

LEMMA FirstIterates ==
  ASSUME NEW T, NEW base \in T, NEW F \in [Nat \X T -> T], NEW n \in Nat
  PROVE  \E f : IsIteration(f, n, base, F, T)
<1> DEFINE S == {m \in Nat : \E f : IsIteration(f, m, base, F, T)}
<1>1. 0 \in S
  <2>1. IsIteration([k \in 0 .. 0 |-> base], 0, base, F, T)
    BY DEF IsIteration
  <2> QED BY <2>1
<1>2. ASSUME NEW m \in S PROVE m + 1 \in S
  <2>1. PICK f : IsIteration(f, m, base, F, T)
    OBVIOUS
  <2> DEFINE g == [k \in 0 .. m + 1 |-> IF k = m + 1 THEN F[<<m + 1, f[m]>>] ELSE f[k]]
  <2>2. f \in [0 .. m -> T] /\ m \in Nat /\ f[0] = base /\ \A k \in 1 .. m : f[k] = F[<<k, f[k - 1]>>]
    BY <2>1 DEF IsIteration
  <2>3. f[m] \in T /\ F[<<m + 1, f[m]>>] \in T
    BY <2>2
  <2>4. g \in [0 .. m + 1 -> T] /\ g[0] = base
    BY <2>2, <2>3
  <2>5. ASSUME NEW k \in 1 .. m + 1 PROVE g[k] = F[<<k, g[k - 1]>>]
    <3>1. k - 1 \in 0 .. m /\ g[k - 1] = f[k - 1]
      BY <2>2
    <3>2. CASE k = m + 1
      BY <3>1, <3>2, <2>2
    <3>3. CASE k # m + 1
      BY <3>1, <3>3, <2>2
    <3> QED BY <3>2, <3>3
  <2>6. IsIteration(g, m + 1, base, F, T)
    BY <2>4, <2>5 DEF IsIteration
  <2> QED BY <2>2, <2>6
<1> HIDE DEF S
<1>3. S \in SUBSET Nat
  BY DEF S
<1>4. n \in S
  BY <1>1, <1>2, <1>3, Induction
<1> QED BY <1>4 DEF S

LEMMA IteratesAgree ==
  ASSUME NEW T, NEW base, NEW F, NEW n \in Nat, NEW m \in Nat, NEW f, NEW g,
         IsIteration(f, n, base, F, T), IsIteration(g, m, base, F, T)
  PROVE  \A k \in Nat : k <= n /\ k <= m => f[k] = g[k]
<1> DEFINE S == {k \in Nat : k <= n /\ k <= m => f[k] = g[k]}
<1>1. 0 \in S
  BY DEF IsIteration
<1>2. ASSUME NEW k \in S PROVE k + 1 \in S
  <2> SUFFICES ASSUME k + 1 <= n, k + 1 <= m PROVE f[k + 1] = g[k + 1]
    OBVIOUS
  <2>1. k + 1 \in 1 .. n /\ k + 1 \in 1 .. m /\ (k + 1) - 1 = k /\ f[k] = g[k]
    OBVIOUS
  <2>2. f[k + 1] = F[<<k + 1, f[(k + 1) - 1]>>] /\ g[k + 1] = F[<<k + 1, g[(k + 1) - 1]>>]
    BY <2>1 DEF IsIteration
  <2> QED BY <2>1, <2>2
<1> HIDE DEF S
<1>3. \A k \in Nat : k \in S
  BY <1>1, <1>2, Induction, S \in SUBSET Nat DEF S
<1> QED BY <1>3 DEF S

\* The function that is defined by recursion from base and F.
Recursive(f, base, F, T) ==
  f \in [Nat -> T] /\ f[0] = base /\ \A n \in Nat \ {0} : f[n] = F[<<n, f[n - 1]>>]

\* A recursive function on the natural numbers has its equation.
LEMMA Recursion ==
  ASSUME NEW T, NEW base \in T, NEW F \in [Nat \X T -> T]
  PROVE  \E f : Recursive(f, base, F, T)
<1> DEFINE g(n) == CHOOSE f : IsIteration(f, n, base, F, T)
           f == [n \in Nat |-> g(n)[n]]
<1>1. ASSUME NEW n \in Nat PROVE IsIteration(g(n), n, base, F, T)
  BY FirstIterates
<1> HIDE DEF g
<1>2. ASSUME NEW n \in Nat PROVE g(n)[n] \in T
  <2>1. n \in 0 .. n
    OBVIOUS
  <2> QED BY <1>1, <2>1 DEF IsIteration
<1>3. g(0)[0] = base
  BY <1>1 DEF IsIteration
<1>4. ASSUME NEW n \in Nat \ {0} PROVE g(n)[n] = F[<<n, g(n - 1)[n - 1]>>]
  <2>1. n - 1 \in Nat /\ n \in 1 .. n
    OBVIOUS
  <2>2. IsIteration(g(n), n, base, F, T) /\ IsIteration(g(n - 1), n - 1, base, F, T)
    BY <1>1, <2>1
  <2>3. \A k \in Nat : k <= n /\ k <= n - 1 => g(n)[k] = g(n - 1)[k]
    BY <2>1, <2>2, IteratesAgree
  <2>4. g(n)[n - 1] = g(n - 1)[n - 1]
    BY <2>1, <2>3
  <2> QED BY <2>1, <2>2, <2>4 DEF IsIteration
<1>5. f \in [Nat -> T] /\ f[0] = base
  BY <1>2, <1>3
<1>6. ASSUME NEW n \in Nat \ {0} PROVE f[n] = F[<<n, f[n - 1]>>]
  BY <1>4
<1>7. Recursive(f, base, F, T)
  BY <1>5, <1>6 DEF Recursive
<1> QED BY <1>7
=============================================================================
