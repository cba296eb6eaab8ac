----------------------------- MODULE Arithmetic -----------------------------
(***************************************************************************)
(* What \div and %, least elements and sums give, for the proofs about     *)
(* positions, groups, rings, splits and tables.                            *)
(***************************************************************************)
EXTENDS Integers, WellFoundedInduction, TLAPS

\* Quotient and remainder, as the provers need to see them.
LEMMA DivFacts ==
  ASSUME NEW n \in Nat, NEW d \in Nat \ {0}
  PROVE  /\ n \div d \in Nat
         /\ n % d \in 0 .. d - 1
         /\ n = d * (n \div d) + (n % d)
  BY Z3

\* So it is below zero, where a remainder is not negative either.
LEMMA IntDivFacts ==
  ASSUME NEW n \in Int, NEW d \in Nat \ {0}
  PROVE  /\ n \div d \in Int
         /\ n % d \in 0 .. d - 1
         /\ n = d * (n \div d) + (n % d)
  BY Z3

\* Multiples of d that differ are at least d apart.
LEMMA MulGap ==
  ASSUME NEW a \in Int, NEW b \in Int, NEW d \in Nat \ {0}, a > b
  PROVE  d * a >= d * b + d
<1>1. a - b >= 1 OBVIOUS
<1>2. d * (a - b) >= d * 1 BY <1>1
<1>3. d * (a - b) = d * a - d * b OBVIOUS
<1> QED BY <1>2, <1>3

\* Positions less than d apart lie in different rows of a ring of d rows.
LEMMA DistinctSlots ==
  ASSUME NEW p \in Nat, NEW q \in Nat, NEW d \in Nat \ {0},
         p < q, q < p + d
  PROVE  p % d # q % d
<1> SUFFICES ASSUME p % d = q % d PROVE FALSE OBVIOUS
<1>1. p = d * (p \div d) + (p % d) /\ p \div d \in Nat /\ p % d \in 0 .. d - 1
  BY DivFacts
<1>2. q = d * (q \div d) + (q % d) /\ q \div d \in Nat
  BY DivFacts
<1>3. CASE q \div d > p \div d
  BY <1>1, <1>2, <1>3, MulGap
<1>4. CASE q \div d < p \div d
  BY <1>1, <1>2, <1>4, MulGap
<1>5. CASE q \div d = p \div d
  BY <1>1, <1>2, <1>5
<1> QED BY <1>1, <1>2, <1>3, <1>4, <1>5

\* Group g is complete in the first n positions exactly if g < n \div d.
LEMMA CompleteGroup ==
  ASSUME NEW n \in Nat, NEW g \in Nat, NEW d \in Nat \ {0}
  PROVE  /\ g < n \div d <=> (g + 1) * d <= n
         /\ g = n \div d => g * d <= n /\ n < (g + 1) * d
<1>1. n = d * (n \div d) + (n % d) /\ n \div d \in Nat /\ n % d \in 0 .. d - 1
  BY DivFacts
<1>2. (g + 1) * d = d * g + d /\ g * d = d * g OBVIOUS
<1>3. CASE g < n \div d
  BY <1>1, <1>2, <1>3, MulGap
<1>4. CASE g = n \div d
  BY <1>1, <1>2, <1>4
<1>5. CASE g > n \div d
  BY <1>1, <1>2, <1>5, MulGap
<1> QED BY <1>1, <1>3, <1>4, <1>5

\* A multiple of d is d times its quotient.
LEMMA MultipleFacts ==
  ASSUME NEW n \in Nat, NEW d \in Nat \ {0}, n % d = 0
  PROVE  n = d * (n \div d)
  BY DivFacts

\* The multiples of d are d times something, and nothing else.
LEMMA MultipleOf ==
  ASSUME NEW k \in Nat, NEW d \in Nat \ {0}
  PROVE  (d * k) % d = 0
<1>1. d * k \in Nat OBVIOUS
<1>2. /\ d * k = d * ((d * k) \div d) + ((d * k) % d)
      /\ (d * k) \div d \in Nat /\ (d * k) % d \in 0 .. d - 1
  BY <1>1, DivFacts
<1>3. CASE k > (d * k) \div d
  BY <1>2, <1>3, MulGap
<1>4. CASE k < (d * k) \div d
  BY <1>2, <1>4, MulGap
<1>5. CASE k = (d * k) \div d
  BY <1>2, <1>5
<1> QED BY <1>2, <1>3, <1>4, <1>5

\* Dividing a multiple gives its factor back.
LEMMA ExactQuotient ==
  ASSUME NEW k \in Nat, NEW d \in Nat \ {0}
  PROVE  (d * k) \div d = k
<1> DEFINE m == d * k
<1>1. m \in Nat /\ m = d * k OBVIOUS
<1>2. m % d = 0 BY MultipleOf
<1> HIDE DEF m
<1>3. m = d * (m \div d) /\ m \div d \in Nat BY <1>1, <1>2, MultipleFacts, DivFacts
<1>4. CASE k > m \div d BY <1>1, <1>3, <1>4, MulGap
<1>5. CASE k < m \div d BY <1>1, <1>3, <1>5, MulGap
<1>6. CASE k = m \div d BY <1>1, <1>6 DEF m
<1> QED BY <1>3, <1>4, <1>5, <1>6

\* A quotient is known by its remainder.
LEMMA QuotientIs ==
  ASSUME NEW n \in Int, NEW d \in Nat \ {0}, NEW q \in Int, NEW x \in 0 .. d - 1,
         n = d * q + x
  PROVE  n \div d = q /\ n % d = x
<1>1. n \div d \in Int /\ n % d \in 0 .. d - 1 /\ n = d * (n \div d) + (n % d)
  BY IntDivFacts
<1> DEFINE p == n \div d
           y == n % d
<1> HIDE DEF p, y
<1>2. p \in Int /\ y \in 0 .. d - 1 /\ n = d * p + y BY <1>1 DEF p, y
<1>3. CASE p > q
  <2>1. d * p >= d * q + d BY <1>2, <1>3, MulGap
  <2> QED BY <1>2, <2>1
<1>4. CASE p < q
  <2>1. d * q >= d * p + d BY <1>2, <1>4, MulGap
  <2> QED BY <1>2, <2>1
<1>5. CASE p = q
  <2>1. y = x BY <1>2, <1>5
  <2> QED BY <1>5, <2>1 DEF p, y
<1> QED BY <1>2, <1>3, <1>4, <1>5

\* Quotients ascend.
LEMMA DivAscends ==
  ASSUME NEW a \in Nat, NEW b \in Nat, NEW d \in Nat \ {0}, a <= b
  PROVE  a \div d <= b \div d
<1> DEFINE p == a \div d
           q == b \div d
<1>1. /\ p \in Nat /\ a % d \in 0 .. d - 1 /\ a = d * p + (a % d)
      /\ q \in Nat /\ b % d \in 0 .. d - 1 /\ b = d * q + (b % d)
  BY DivFacts
<1> HIDE DEF p, q
<1>2. ASSUME p > q PROVE FALSE
  <2>1. d * p >= d * q + d BY <1>1, <1>2, MulGap
  <2> QED BY <1>1, <2>1
<1>3. p <= q BY <1>1, <1>2
<1> QED BY <1>3 DEF p, q

-----------------------------------------------------------------------------
(* Induction, by least counterexamples. *)

\* Natural numbers have a least one among them.
LEMMA LeastElement ==
  ASSUME NEW S \in SUBSET Nat, S # {}
  PROVE  \E m \in S : \A k \in S : m <= k
<1>1. PICK m \in S : \A k \in S : ~(<<k, m>> \in OpToRel(<, Nat))
  BY NatLessThanWellFounded, WFMin
<1>2. ASSUME NEW k \in S PROVE m <= k
  <2>1. k \in Nat /\ m \in Nat OBVIOUS
  <2>2. k < m => <<k, m>> \in OpToRel(<, Nat) BY <2>1 DEF OpToRel
  <2>3. ~(k < m) BY <1>1, <2>2, Zenon
  <2> QED BY <2>1, <2>3
<1> QED BY <1>2

\* A set of naturals that a step up never leaves has everything from its
\* first member up.
LEMMA ClosedUpwards ==
  ASSUME NEW S, NEW n \in Nat, 0 \in S,
         \A k \in 0 .. n - 1 : k \in S => k + 1 \in S
  PROVE  0 .. n \subseteq S
<1> DEFINE Out == {k \in 0 .. n : k \notin S}
<1> SUFFICES ASSUME Out # {} PROVE FALSE OBVIOUS
<1>1. PICK m \in Out : \A k \in Out : m <= k
  <2>1. Out \in SUBSET Nat OBVIOUS
  <2> QED BY <2>1, LeastElement
<1>2. m \in 0 .. n /\ m \notin S /\ m # 0 OBVIOUS
<1>3. m - 1 \in 0 .. n - 1 /\ m - 1 \notin Out BY <1>1, <1>2
<1>4. m - 1 \in S BY <1>3
<1>5. (m - 1) + 1 = m BY <1>2
<1> QED BY <1>2, <1>3, <1>4, <1>5

\* A function whose steps never descend never descends.
LEMMA Ascends ==
  ASSUME NEW n \in Nat, NEW f \in [0 .. n -> Int],
         \A r \in 0 .. n - 1 : f[r] <= f[r + 1],
         NEW a \in 0 .. n, NEW b \in 0 .. n, a <= b
  PROVE  f[a] <= f[b]
<1> DEFINE S == {k \in Int : a + k <= n => f[a] <= f[a + k]}
<1>1. 0 \in S OBVIOUS
<1>2. \A k \in 0 .. n - 1 : k \in S => k + 1 \in S OBVIOUS
<1>3. 0 .. n \subseteq S
  <2> HIDE DEF S
  <2> QED BY <1>1, <1>2, ClosedUpwards
<1>4. b - a \in 0 .. n /\ a + (b - a) = b OBVIOUS
<1>5. b - a \in S BY <1>3, <1>4
<1> QED BY <1>4, <1>5

\* Between its ends a function has a step over every value in between.
LEMMA StepOver ==
  ASSUME NEW n \in Nat, NEW f \in [0 .. n -> Int], NEW i \in Int,
         f[0] <= i, i < f[n]
  PROVE  \E r \in 0 .. n - 1 : f[r] <= i /\ i < f[r + 1]
<1> DEFINE S == {k \in 0 .. n : i < f[k]}
<1>1. PICK m \in S : \A k \in S : m <= k
  <2>1. S \in SUBSET Nat /\ n \in S OBVIOUS
  <2> QED BY <2>1, LeastElement
<1>2. m \in 0 .. n /\ i < f[m] /\ m # 0 OBVIOUS
<1>3. m - 1 \in 0 .. n - 1 /\ m - 1 \in 0 .. n /\ m - 1 \notin S /\ (m - 1) + 1 = m
  BY <1>1, <1>2
<1>4. f[m - 1] <= i BY <1>3
<1> QED BY <1>2, <1>3, <1>4

\* Only one, if it never descends.
LEMMA StepOverOnce ==
  ASSUME NEW n \in Nat, NEW f \in [0 .. n -> Int],
         \A r \in 0 .. n - 1 : f[r] <= f[r + 1],
         NEW i \in Int, NEW r \in 0 .. n - 1, NEW q \in 0 .. n - 1,
         f[r] <= i, i < f[r + 1], f[q] <= i, i < f[q + 1]
  PROVE  r = q
<1>0. r + 1 \in 0 .. n /\ q + 1 \in 0 .. n /\ r \in 0 .. n /\ q \in 0 .. n OBVIOUS
<1>1. CASE r < q
  <2>1. r + 1 <= q BY <1>1
  <2>2. f[r + 1] <= f[q] BY <1>0, <2>1, Ascends
  <2> QED BY <1>0, <2>2
<1>2. CASE q < r
  <2>1. q + 1 <= r BY <1>2
  <2>2. f[q + 1] <= f[r] BY <1>0, <2>1, Ascends
  <2> QED BY <1>0, <2>2
<1> QED BY <1>1, <1>2

\* g takes n steps from a.
Takes(g, n, S, a, step) ==
  /\ g \in [0 .. n -> S]
  /\ \A k \in 0 .. n : g[k] = IF k = 0 THEN a ELSE step[k][g[k - 1]]

\* What a recursive function computes step by step exists.
LEMMA Iterates ==
  ASSUME NEW n \in Nat, NEW S, NEW a \in S, NEW step \in [1 .. n -> [S -> S]]
  PROVE  \E g : Takes(g, n, S, a, step)
<1> DEFINE Steps(m, g) == \A k \in 0 .. m : g[k] = IF k = 0 THEN a ELSE step[k][g[k - 1]]
           T == {m \in 0 .. n : \E g \in [0 .. m -> S] : Steps(m, g)}
<1>1. 0 \in T
  <2> DEFINE first == [k \in 0 .. 0 |-> a]
  <2>1. first \in [0 .. 0 -> S] /\ Steps(0, first) /\ 0 \in 0 .. n OBVIOUS
  <2> HIDE DEF first, Steps
  <2> QED BY <2>1
<1>2. ASSUME NEW m \in 0 .. n - 1, m \in T PROVE m + 1 \in T
  <2>1. PICK g \in [0 .. m -> S] : Steps(m, g) BY <1>2
  <2>2. m + 1 \in 1 .. n /\ m \in 0 .. m BY <1>2
  <2> DEFINE h == [k \in 0 .. m + 1 |-> IF k = m + 1 THEN step[m + 1][g[m]] ELSE g[k]]
  <2>3. step[m + 1][g[m]] \in S BY <2>2
  <2>4. h \in [0 .. m + 1 -> S]
    <3>1. \A k \in 0 .. m + 1 : k # m + 1 => k \in 0 .. m OBVIOUS
    <3> QED BY <2>3, <3>1
  <2>5. ASSUME NEW k \in 0 .. m + 1 PROVE h[k] = IF k = 0 THEN a ELSE step[k][h[k - 1]]
    <3>1. CASE k = m + 1
      <4>1. k # 0 /\ k - 1 = m /\ h[k] = step[k][g[m]] /\ h[m] = g[m] BY <3>1
      <4> QED BY <4>1
    <3>2. CASE k # m + 1
      <4>1. k \in 0 .. m /\ h[k] = g[k] /\ (k # 0 => k - 1 \in 0 .. m /\ h[k - 1] = g[k - 1])
        BY <3>2
      <4>2. g[k] = IF k = 0 THEN a ELSE step[k][g[k - 1]] BY <2>1, <4>1
      <4> HIDE DEF h
      <4> QED BY <4>1, <4>2
    <3> QED BY <3>1, <3>2
  <2>6. Steps(m + 1, h) BY <2>5
  <2> HIDE DEF h, Steps
  <2>7. m + 1 \in 0 .. n BY <1>2
  <2> QED BY <2>4, <2>6, <2>7
<1>3. n \in T
  <2> HIDE DEF T
  <2>1. 0 .. n \subseteq T BY <1>1, <1>2, ClosedUpwards
  <2> QED BY <2>1
<1>4. PICK g \in [0 .. n -> S] : Steps(n, g) BY <1>3
<1>5. Takes(g, n, S, a, step) BY <1>4 DEF Takes
<1> QED BY <1>5

\* Sums that a recursive function adds up exist.
LEMMA PartialSums ==
  ASSUME NEW n \in Nat, NEW d \in [0 .. n - 1 -> Nat]
  PROVE  \E g \in [0 .. n -> Nat] :
           g = [r \in 0 .. n |-> IF r = 0 THEN 0 ELSE g[r - 1] + d[r - 1]]
<1> DEFINE step == [k \in 1 .. n |-> [x \in Nat |-> x + d[k - 1]]]
<1>1. step \in [1 .. n -> [Nat -> Nat]]
  <2>1. \A k \in 1 .. n : d[k - 1] \in Nat OBVIOUS
  <2> QED BY <2>1
<1>2. \A k \in 1 .. n, x \in Nat : step[k][x] = x + d[k - 1] OBVIOUS
<1> HIDE DEF step
<1>3. PICK g : Takes(g, n, Nat, 0, step)
  <2>1. 0 \in Nat OBVIOUS
  <2> QED BY <1>1, <2>1, Iterates
<1>4. \A k \in 0 .. n : g[k] = IF k = 0 THEN 0 ELSE g[k - 1] + d[k - 1]
  <2> TAKE k \in 0 .. n
  <2>1. g[k] = IF k = 0 THEN 0 ELSE step[k][g[k - 1]] BY <1>3 DEF Takes
  <2>2. k # 0 => k \in 1 .. n /\ k - 1 \in 0 .. n OBVIOUS
  <2>3. g \in [0 .. n -> Nat] BY <1>3 DEF Takes
  <2> QED BY <1>2, <2>1, <2>2, <2>3
<1>5. g \in [0 .. n -> Nat] BY <1>3 DEF Takes
<1> QED BY <1>4, <1>5

\* Sums start at zero and never descend.
LEMMA SumFacts ==
  ASSUME NEW n \in Nat, NEW d \in [0 .. n - 1 -> Nat], NEW f, f = [r \in 0 .. n |-> f[r]],
         \A r \in 0 .. n : f[r] = IF r = 0 THEN 0 ELSE f[r - 1] + d[r - 1]
  PROVE  /\ f \in [0 .. n -> Nat] /\ f[0] = 0
         /\ \A r \in 0 .. n - 1 : f[r + 1] = f[r] + d[r] /\ f[r] <= f[r + 1]
<1>1. f[0] = 0 OBVIOUS
<1>2. ASSUME NEW r \in 0 .. n - 1 PROVE f[r + 1] = f[r] + d[r] /\ d[r] \in Nat
  <2>1. r + 1 \in 0 .. n /\ r + 1 # 0 /\ (r + 1) - 1 = r OBVIOUS
  <2> QED BY <2>1
<1>3. \A r \in 0 .. n : f[r] \in Nat
  <2> DEFINE S == {r \in Nat : f[r] \in Nat}
  <2>1. 0 \in S /\ \A r \in 0 .. n - 1 : r \in S => r + 1 \in S
    <3>1. 0 \in S BY <1>1
    <3>2. ASSUME NEW r \in 0 .. n - 1, f[r] \in Nat PROVE r + 1 \in Nat /\ f[r + 1] \in Nat
      <4>1. f[r + 1] = f[r] + d[r] /\ d[r] \in Nat BY <1>2
      <4> QED BY <3>2, <4>1
    <3> QED BY <3>1, <3>2
  <2>2. 0 .. n \subseteq S
    <3> HIDE DEF S
    <3> QED BY <2>1, ClosedUpwards
  <2> QED BY <2>2
<1>4. \A r \in 0 .. n - 1 : f[r] <= f[r + 1]
  <2> TAKE r \in 0 .. n - 1
  <2>1. r \in 0 .. n OBVIOUS
  <2>2. f[r] \in Nat BY <1>3, <2>1
  <2>3. d[r] \in Nat /\ f[r + 1] = f[r] + d[r] BY <1>2
  <2> QED BY <2>2, <2>3
<1> QED BY <1>1, <1>2, <1>3, <1>4
=============================================================================
