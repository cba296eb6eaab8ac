------------------------- MODULE QSAMetadata_proofs -------------------------
(***************************************************************************)
(* QSAMetadata's invariants for every number and length of requests, every *)
(* ratio, ring, storage block and tile.                                    *)
(***************************************************************************)
EXTENDS QSAMetadata, Arithmetic

-----------------------------------------------------------------------------
(* The step's batch. *)

\* The constants, for the provers.
LEMMA Sizes ==
  ASSUME builder \in Builders
  PROVE  /\ MaxReqs \in Nat \ {0} /\ TokenTile \in Nat \ {0} /\ WorkTile \in Nat \ {0}
         /\ MaxQuery \in Nat /\ MaxStart \in Nat /\ MaxPad \in Nat
         /\ Ratio \in Nat \ {0} /\ Storage \in Nat \ {0}
         /\ Circular \in Nat /\ Columns \in Nat
  BY TilesAssumption DEF Ratio, Storage, Circular, Columns

\* Requests follow each other without a gap; their rows are the last of their
\* sequence.
LEMMA BatchFacts ==
  ASSUME builder \in Builders, batch \in Batches
  PROVE  /\ n \in 1 .. MaxReqs /\ n \in Nat \ {0}
         /\ batch.query_start_loc \in [0 .. n -> Nat]
         /\ \A r \in 0 .. n : Loc(r) \in Nat
         /\ Loc(0) = 0 /\ NumMapped \in Nat /\ NumTokens \in Nat /\ NumMapped <= NumTokens
         /\ \A r \in 0 .. n - 1 :
              /\ SeqLen(r) \in Nat /\ QueryLen(r) \in Nat /\ QueryLen(r) <= SeqLen(r)
              /\ Loc(r + 1) = Loc(r) + QueryLen(r) /\ Loc(r) <= Loc(r + 1)
<1>1. PICK m \in 1 .. MaxReqs :
        \E start \in [0 .. m - 1 -> 0 .. MaxStart], len \in [0 .. m - 1 -> 0 .. MaxQuery],
           pad \in 0 .. MaxPad : batch = MakeBatch(m, start, len, pad)
  BY DEF Batches
<1>2. PICK start \in [0 .. m - 1 -> 0 .. MaxStart], len \in [0 .. m - 1 -> 0 .. MaxQuery],
           pad \in 0 .. MaxPad : batch = MakeBatch(m, start, len, pad)
  BY <1>1
<1>3. m \in Nat /\ m \in Nat \ {0} BY Sizes
<1> DEFINE loc[r \in 0 .. m] == IF r = 0 THEN 0 ELSE loc[r - 1] + len[r - 1]
<1>4. batch = [n |-> m, query_start_loc |-> loc, num_tokens |-> loc[m] + pad,
               seq_lens |-> [r \in 0 .. m - 1 |-> start[r] + len[r]]]
  BY <1>2 DEF MakeBatch
<1>5. len \in [0 .. m - 1 -> Nat] /\ \A r \in 0 .. m - 1 : start[r] \in Nat /\ len[r] \in Nat
  BY Sizes
<1>6. /\ loc \in [0 .. m -> Nat] /\ loc[0] = 0
      /\ \A r \in 0 .. m - 1 : loc[r + 1] = loc[r] + len[r] /\ loc[r] <= loc[r + 1]
  <2> DEFINE Sums(g) == g = [r \in 0 .. m |-> IF r = 0 THEN 0 ELSE g[r - 1] + len[r - 1]]
  <2>1. PICK g \in [0 .. m -> Nat] : Sums(g) BY <1>3, <1>5, PartialSums
  <2>2. loc = CHOOSE h : Sums(h) OBVIOUS
  <2> HIDE DEF loc
  <2>3. Sums(loc)
    <3> HIDE DEF Sums
    <3> QED BY <2>1, <2>2
  <2>4. loc = [r \in 0 .. m |-> loc[r]] BY <2>3
  <2>5. \A r \in 0 .. m : loc[r] = IF r = 0 THEN 0 ELSE loc[r - 1] + len[r - 1] BY <2>3
  <2> HIDE DEF Sums
  <2> QED BY <1>3, <1>5, <2>4, <2>5, SumFacts
<1> HIDE DEF loc
<1>7. /\ n = m /\ batch.query_start_loc = loc /\ \A r : Loc(r) = loc[r]
      /\ NumTokens = loc[m] + pad /\ NumMapped = loc[m]
      /\ \A r \in 0 .. m - 1 : SeqLen(r) = start[r] + len[r]
  BY <1>4 DEF n, Loc, NumTokens, NumMapped, SeqLen
<1>8. ASSUME NEW r \in 0 .. m - 1
      PROVE  /\ SeqLen(r) \in Nat /\ QueryLen(r) \in Nat /\ QueryLen(r) <= SeqLen(r)
             /\ Loc(r + 1) = Loc(r) + QueryLen(r) /\ Loc(r) <= Loc(r + 1)
  <2>1. len[r] \in Nat /\ start[r] \in Nat BY <1>5
  <2>2. r \in 0 .. m BY <1>3
  <2>3. loc[r] \in Nat /\ loc[r + 1] = loc[r] + len[r] BY <1>6, <2>2
  <2>4. Loc(r) = loc[r] /\ Loc(r + 1) = loc[r + 1] BY <1>7
  <2>5. SeqLen(r) = start[r] + len[r] BY <1>7
  <2>6. QueryLen(r) = len[r] BY <2>1, <2>3, <2>4 DEF QueryLen
  <2> DEFINE s == start[r]
             q == len[r]
             l == loc[r]
  <2>7. s \in Nat /\ q \in Nat /\ l \in Nat BY <2>1, <2>3
  <2>8. SeqLen(r) = s + q /\ QueryLen(r) = q /\ Loc(r) = l /\ Loc(r + 1) = l + q
    BY <2>3, <2>4, <2>5, <2>6
  <2> HIDE DEF s, q, l
  <2> QED BY <2>7, <2>8
<1>9. loc[m] \in Nat /\ pad \in Nat
  <2>1. m \in 0 .. m BY <1>3
  <2> QED BY <1>6, <2>1, Sizes
<1>10. NumMapped \in Nat /\ NumTokens \in Nat /\ NumMapped <= NumTokens /\ Loc(0) = 0
  <2> DEFINE l == loc[m]
  <2>1. l \in Nat /\ NumMapped = l /\ NumTokens = l + pad BY <1>7, <1>9
  <2> HIDE DEF l
  <2>2. NumMapped \in Nat /\ NumTokens \in Nat /\ NumMapped <= NumTokens BY <1>9, <2>1
  <2>3. Loc(0) = 0 BY <1>6, <1>7
  <2> QED BY <2>2, <2>3
<1>11. \A r \in 0 .. m : Loc(r) \in Nat BY <1>6, <1>7
<1> QED BY <1>3, <1>6, <1>7, <1>8, <1>10, <1>11

-----------------------------------------------------------------------------
(* The search for the last start. *)

\* Powers of two double, and some power is as large as the batch.
LEMMA PowerFacts ==
  ASSUME n \in Nat \ {0}
  PROVE  /\ \A k \in 0 .. n : Power[k] \in Nat \ {0}
         /\ \A k \in 1 .. n : Power[k] = 2 * Power[k - 1]
         /\ Power[0] = 1
         /\ SearchSteps \in 0 .. n /\ Power[SearchSteps] >= n
<1> DEFINE N == n
           Pos == Nat \ {0}
           step == [k \in 1 .. N |-> [x \in Pos |-> 2 * x]]
<1>1. N \in Nat /\ N # 0 OBVIOUS
<1>2. step \in [1 .. N -> [Pos -> Pos]] OBVIOUS
<1>3. \A k \in 1 .. N, x \in Pos : step[k][x] = 2 * x OBVIOUS
<1>4. 1 \in Pos OBVIOUS
<1>5. Power = CHOOSE g : g = [k \in 0 .. N |-> IF k = 0 THEN 1 ELSE 2 * g[k - 1]] BY DEF Power
<1> HIDE DEF N, step
<1>6. PICK g : Takes(g, N, Pos, 1, step)
  <2> HIDE DEF Pos
  <2> QED BY <1>1, <1>2, <1>4, Iterates
<1> DEFINE Doubles(h) == h = [k \in 0 .. N |-> IF k = 0 THEN 1 ELSE 2 * h[k - 1]]
<1>7. Doubles(g)
  <2>1. g \in [0 .. N -> Pos] BY <1>6 DEF Takes
  <2>2. \A k \in 0 .. N : g[k] = IF k = 0 THEN 1 ELSE 2 * g[k - 1]
    <3> TAKE k \in 0 .. N
    <3>1. g[k] = IF k = 0 THEN 1 ELSE step[k][g[k - 1]] BY <1>6 DEF Takes
    <3>2. k # 0 => k \in 1 .. N /\ k - 1 \in 0 .. N BY <1>1
    <3>3. k # 0 => g[k - 1] \in Pos BY <2>1, <3>2
    <3> HIDE DEF Pos
    <3> QED BY <1>3, <3>1, <3>2, <3>3
  <2> QED BY <2>1, <2>2
<1>8. Doubles(Power)
  <2>1. Power = CHOOSE h : Doubles(h) BY <1>5
  <2> HIDE DEF Doubles
  <2> QED BY <1>7, <2>1
<1>9. \A k \in 0 .. N : Power[k] = IF k = 0 THEN 1 ELSE 2 * Power[k - 1] BY <1>8
<1> DEFINE S == {k \in 0 .. N : Power[k] \in Nat /\ Power[k] >= k + 1}
<1>10. 0 \in S BY <1>1, <1>9
<1>11. ASSUME NEW k \in 0 .. N - 1, k \in S PROVE k + 1 \in S
  <2>1. k + 1 \in 0 .. N /\ k + 1 # 0 /\ (k + 1) - 1 = k BY <1>1
  <2>2. Power[k + 1] = 2 * Power[k] BY <1>9, <2>1
  <2> QED BY <1>11, <2>1, <2>2
<1>12. 0 .. N \subseteq S
  <2> HIDE DEF S
  <2> QED BY <1>1, <1>10, <1>11, ClosedUpwards
<1>13. \A k \in 0 .. N : Power[k] \in Nat /\ Power[k] >= k + 1 BY <1>12
<1> DEFINE Big == {k \in 0 .. N : Power[k] >= N}
           Enough(k) == Power[k] >= N /\ (k = 0 \/ Power[k - 1] < N)
<1>14. PICK k \in Big : \A j \in Big : k <= j
  <2>1. N \in Big BY <1>1, <1>13
  <2>2. Big \in SUBSET Nat /\ Big # {} BY <2>1
  <2> HIDE DEF Big
  <2> QED BY <2>2, LeastElement
<1>15. k \in 0 .. N /\ Enough(k)
  <2>1. k \in 0 .. N /\ Power[k] >= N OBVIOUS
  <2>2. ASSUME k # 0 PROVE Power[k - 1] < N
    <3>1. k - 1 \in 0 .. N /\ ~(k <= k - 1) BY <1>1, <2>1, <2>2
    <3>2. k - 1 \notin Big BY <1>14, <3>1
    <3>3. ~(Power[k - 1] >= N) /\ Power[k - 1] \in Nat BY <1>13, <3>1, <3>2
    <3> QED BY <1>1, <3>3
  <2> QED BY <2>1, <2>2
<1>16. SearchSteps \in 0 .. N /\ Enough(SearchSteps)
  <2>1. SearchSteps = CHOOSE j \in 0 .. N : Enough(j) BY DEF SearchSteps, N
  <2> HIDE DEF Enough
  <2> QED BY <1>15, <2>1
<1>17. \A j \in 1 .. N : Power[j] = 2 * Power[j - 1]
  <2> TAKE j \in 1 .. N
  <2>1. j \in 0 .. N /\ j # 0 BY <1>1
  <2> QED BY <1>9, <2>1
<1>18. Power[0] = 1 BY <1>1, <1>9
<1> QED BY <1>13, <1>16, <1>17, <1>18 DEF N

\* The search finds the last start that is not above x.
LEMMA SearchFacts ==
  ASSUME n \in Nat \ {0}, NEW starts \in [0 .. n -> Nat],
         \A r \in 0 .. n - 1 : starts[r] <= starts[r + 1],
         NEW x \in Int
  PROVE  /\ LastStarting(starts, x) \in 0 .. n - 1
         /\ starts[0] <= x => starts[LastStarting(starts, x)] <= x
         /\ \A c \in 0 .. n - 1 : starts[c] <= x => c <= LastStarting(starts, x)
<1> DEFINE N == n
           K == SearchSteps
           Cand == 0 .. N - 1
           Next1(k, c) == IF c + Power[K - k] < N /\ starts[c + Power[K - k]] <= x
                          THEN c + Power[K - k] ELSE c
           step == [k \in 1 .. K |-> [c \in Cand |-> Next1(k, c)]]
           Searches(g) == g = [k \in 0 .. K |->
             IF k = 0 THEN 0
             ELSE LET candidate == g[k - 1] + Power[K - k]
                  IN  IF candidate < n /\ starts[candidate] <= x THEN candidate ELSE g[k - 1]]
           at == CHOOSE g : Searches(g)
<1>1. N \in Nat /\ N # 0 /\ starts \in [0 .. N -> Int] /\ \A r \in 0 .. N : starts[r] \in Nat
  OBVIOUS
<1>2. /\ \A k \in 0 .. N : Power[k] \in Nat /\ Power[k] # 0
      /\ \A k \in 1 .. N : Power[k] = 2 * Power[k - 1]
      /\ Power[0] = 1 /\ K \in 0 .. N /\ Power[K] >= N
  BY PowerFacts
<1>3. LastStarting(starts, x) = at[K] BY DEF LastStarting
<1>4. \A r \in 0 .. N - 1 : starts[r] <= starts[r + 1] OBVIOUS
<1>5. \A k \in 1 .. K : K - k \in 0 .. N /\ K - k + 1 \in 1 .. N /\ K - (k - 1) = K - k + 1
  BY <1>1, <1>2
<1> HIDE DEF K
<1>6. ASSUME NEW k \in 1 .. K, NEW c \in Cand PROVE Next1(k, c) \in Cand
  <2> DEFINE d == c + Power[K - k]
  <2>1. Power[K - k] \in Nat BY <1>2, <1>5
  <2>2. d \in Nat BY <1>1, <2>1
  <2>3. Next1(k, c) = IF d < N /\ starts[d] <= x THEN d ELSE c OBVIOUS
  <2> HIDE DEF d, Next1
  <2>4. CASE d < N /\ starts[d] <= x BY <1>1, <2>2, <2>3, <2>4
  <2>5. CASE ~(d < N /\ starts[d] <= x) BY <2>3, <2>5
  <2> QED BY <2>4, <2>5
<1>7. step \in [1 .. K -> [Cand -> Cand]]
  <2> HIDE DEF Next1, Cand
  <2> QED BY <1>6
<1>8. K \in Nat /\ 0 \in Cand BY <1>1, <1>2
<1>9. PICK g : Takes(g, K, Cand, 0, step)
  <2> HIDE DEF step, Cand
  <2> QED BY <1>7, <1>8, Iterates
<1>10. g \in [0 .. K -> Cand] BY <1>9 DEF Takes
<1>11. \A k \in 0 .. K : g[k] = IF k = 0 THEN 0 ELSE Next1(k, g[k - 1])
  <2> TAKE k \in 0 .. K
  <2>1. g[k] = IF k = 0 THEN 0 ELSE step[k][g[k - 1]] BY <1>9 DEF Takes
  <2>2. k # 0 => k \in 1 .. K /\ k - 1 \in 0 .. K BY <1>8
  <2>3. k # 0 => g[k - 1] \in Cand BY <1>10, <2>2
  <2> HIDE DEF Next1, Cand
  <2> QED BY <2>1, <2>2, <2>3
<1>12. Searches(g) BY <1>10, <1>11
<1>13. Searches(at)
  <2> HIDE DEF Searches
  <2> QED BY <1>12
<1> HIDE DEF at, step
<1>14. \A k \in 0 .. K : at[k] = IF k = 0 THEN 0 ELSE Next1(k, at[k - 1])
  BY <1>13
<1> DEFINE Found(k) == /\ at[k] \in Cand
                       /\ starts[0] <= x => starts[at[k]] <= x
                       /\ \A c \in Cand : starts[c] <= x => c < at[k] + Power[K - k]
           S == {k \in 0 .. K : Found(k)}
<1>15. 0 \in S
  <2>1. 0 \in 0 .. K /\ at[0] = 0 /\ K - 0 = K BY <1>8, <1>14
  <2>2. \A c \in Cand : c < 0 + Power[K] BY <1>1, <1>2
  <2> QED BY <1>8, <2>1, <2>2
<1>16. ASSUME NEW j \in 0 .. K - 1, j \in S PROVE j + 1 \in S
  <2> DEFINE k == j + 1
             c0 == at[j]
             P == Power[K - k]
  <2>1. k \in 1 .. K /\ k \in 0 .. K /\ k # 0 /\ k - 1 = j BY <1>8
  <2>2. at[k] = Next1(k, c0) BY <1>14, <2>1
  <2>3. Found(j) BY <1>16
  <2>4. P \in Nat /\ Power[K - j] = 2 * P
    <3>1. K - k \in 0 .. N /\ K - k + 1 \in 1 .. N /\ K - j = K - k + 1 BY <1>5, <2>1
    <3>2. Power[K - k + 1] = 2 * Power[(K - k + 1) - 1] /\ (K - k + 1) - 1 = K - k
      BY <1>2, <1>8, <3>1
    <3> QED BY <1>2, <3>1, <3>2
  <2>5. c0 \in Cand /\ c0 \in Nat BY <1>1, <2>3
  <2> HIDE DEF P, c0
  <2>6. CASE c0 + P < N /\ starts[c0 + P] <= x
    <3>1. at[k] = c0 + P /\ starts[at[k]] <= x BY <2>2, <2>6 DEF P
    <3>2. c0 + P \in Cand BY <1>1, <2>4, <2>5, <2>6
    <3>3. ASSUME NEW c \in Cand, starts[c] <= x PROVE c < at[k] + P
      <4>1. c < c0 + 2 * P BY <2>3, <2>4, <3>3 DEF c0
      <4> QED BY <1>1, <2>4, <2>5, <3>1, <4>1
    <3>4. Found(k) BY <3>1, <3>2, <3>3 DEF P
    <3> QED BY <2>1, <3>4
  <2>7. CASE ~(c0 + P < N /\ starts[c0 + P] <= x)
    <3>1. at[k] = c0 BY <2>2, <2>7 DEF P
    <3>2. ASSUME NEW c \in Cand, starts[c] <= x PROVE c < at[k] + P
      <4> SUFFICES ASSUME ~(c < c0 + P) PROVE FALSE BY <3>1
      <4>1. c0 + P <= c /\ c0 + P \in 0 .. N /\ c \in 0 .. N /\ c0 + P < N
        BY <1>1, <2>4, <2>5
      <4>2. starts[c0 + P] <= starts[c] BY <1>1, <1>4, <4>1, Ascends
      <4>3. starts[c0 + P] \in Nat /\ starts[c] \in Nat BY <1>1, <4>1
      <4>4. starts[c0 + P] <= x BY <3>2, <4>2, <4>3
      <4> QED BY <2>7, <4>1, <4>4
    <3>3. Found(k) BY <2>3, <2>5, <3>1, <3>2 DEF P, c0
    <3> QED BY <2>1, <3>3
  <2> QED BY <2>6, <2>7
<1>17. 0 .. K \subseteq S
  <2> HIDE DEF S
  <2> QED BY <1>8, <1>15, <1>16, ClosedUpwards
<1>18. Found(K) /\ K - K = 0 BY <1>8, <1>17
<1>19. \A c \in Cand : starts[c] <= x => c <= at[K]
  <2> TAKE c \in Cand
  <2>1. starts[c] <= x => c < at[K] + 1 BY <1>2, <1>18
  <2>2. c \in Int /\ at[K] \in Int BY <1>1, <1>18
  <2> QED BY <2>1, <2>2
<1> QED BY <1>3, <1>18, <1>19

\* Below the end of all requests the search finds the owner.
LEMMA OwnerFound ==
  ASSUME n \in Nat \ {0}, NEW starts \in [0 .. n -> Nat], starts[0] = 0,
         \A r \in 0 .. n - 1 : starts[r] <= starts[r + 1],
         NEW x \in Nat, x < starts[n]
  PROVE  LET r == LastStarting(starts, x)
         IN  r \in 0 .. n - 1 /\ starts[r] <= x /\ x < starts[r + 1]
<1> DEFINE r == LastStarting(starts, x)
           N == n
<1>1. /\ r \in 0 .. N - 1 /\ (starts[0] <= x => starts[r] <= x)
      /\ \A c \in 0 .. N - 1 : starts[c] <= x => c <= r
  <2>1. /\ n \in Nat \ {0} /\ starts \in [0 .. n -> Nat] /\ x \in Int
        /\ \A c \in 0 .. n - 1 : starts[c] <= starts[c + 1]
    OBVIOUS
  <2> QED BY <2>1, SearchFacts
<1>2. N \in Nat /\ starts \in [0 .. N -> Nat] /\ x < starts[N] /\ starts[0] = 0 OBVIOUS
<1> HIDE DEF r, N
<1>3. starts[r] <= x BY <1>1, <1>2
<1>4. x < starts[r + 1]
  <2>1. CASE r + 1 = N BY <1>2, <2>1
  <2>2. CASE r + 1 # N
    <3>1. r + 1 \in 0 .. N - 1 /\ r + 1 \in 0 .. N /\ ~(r + 1 <= r) BY <1>1, <1>2, <2>2
    <3>2. ~(starts[r + 1] <= x) BY <1>1, <3>1
    <3>3. starts[r + 1] \in Nat BY <1>2, <3>1
    <3> QED BY <3>2, <3>3
  <2> QED BY <2>1, <2>2
<1> QED BY <1>1, <1>3, <1>4 DEF r, N

-----------------------------------------------------------------------------
(* The work items. *)

\* Least and Most on integers.
LEMMA Bounds ==
  ASSUME NEW a \in Int, NEW b \in Int
  PROVE  /\ Least(a, b) \in {a, b} /\ Least(a, b) <= a /\ Least(a, b) <= b
         /\ Most(a, b) \in {a, b} /\ Most(a, b) >= a /\ Most(a, b) >= b
  BY DEF Least, Most

\* A request's items: those of the groups it completes, and never so many that
\* its rows and an incomplete group would not pay for them.
LEMMA WorkCountFacts ==
  ASSUME builder \in Builders, batch \in Batches, NEW r \in 0 .. n - 1
  PROVE  /\ WorkCount(r) \in Nat /\ NumGroups(r) \in Nat
         /\ Ratio * WorkCount(r) <= QueryLen(r) + (Ratio - 1)
<1> DEFINE R == Ratio
           s == SeqLen(r)
           q == QueryLen(r)
           c == s - q
           a == s \div R
           b == c \div R
<1>1. R \in Nat \ {0} /\ s \in Nat /\ q \in Nat /\ c \in Nat /\ c <= s /\ c = s - q
  <2>1. s \in Nat /\ q \in Nat /\ q <= s BY BatchFacts
  <2> HIDE DEF s, q
  <2>2. c \in Nat /\ c <= s /\ c = s - q BY <2>1
  <2> QED BY <2>1, <2>2, Sizes
<1>2. NumGroups(r) = a - b BY DEF NumGroups
<1>3. WorkCount(r) = IF q > 0 THEN Most(NumGroups(r), 1) ELSE 0 BY DEF WorkCount
<1> HIDE DEF R, s, q, c
<1>4. /\ a \in Nat /\ s % R \in 0 .. R - 1 /\ s = R * a + (s % R)
      /\ b \in Nat /\ c % R \in 0 .. R - 1 /\ c = R * b + (c % R)
  BY <1>1, DivFacts
<1>5. b <= a BY <1>1, DivAscends
<1> HIDE DEF a, b
<1>6. NumGroups(r) \in Nat BY <1>2, <1>4, <1>5
<1>7. R * NumGroups(r) <= q + (R - 1)
  <2>1. R * (a - b) = R * a - R * b BY <1>1, <1>4
  <2>2. R * a \in Int /\ R * b \in Int BY <1>1, <1>4
  <2> DEFINE u == R * a
             v == R * b
  <2>3. u \in Int /\ v \in Int /\ R * NumGroups(r) = u - v BY <1>2, <2>1, <2>2
  <2>4. s = u + (s % R) /\ c = v + (c % R) BY <1>4
  <2> HIDE DEF u, v
  <2> QED BY <1>1, <1>4, <2>3, <2>4
<1>8. CASE q > 0
  <2>1. WorkCount(r) = NumGroups(r) \/ WorkCount(r) = 1
    BY <1>3, <1>6, <1>8, Bounds
  <2>2. R * 1 <= q + (R - 1) BY <1>1, <1>8
  <2> QED BY <1>6, <1>7, <2>1, <2>2 DEF R, q
<1>9. CASE ~(q > 0)
  <2>1. WorkCount(r) = 0 /\ R * 0 = 0 BY <1>1, <1>3, <1>9
  <2>2. R * WorkCount(r) <= q + (R - 1) BY <1>1, <2>1
  <2> QED BY <1>6, <2>1, <2>2 DEF R, q
<1> QED BY <1>8, <1>9

\* The items of the requests below.
LEMMA WorkStartFacts ==
  ASSUME builder \in Builders, batch \in Batches
  PROVE  /\ WorkStart \in [0 .. n -> Nat] /\ WorkStart[0] = 0
         /\ \A r \in 0 .. n - 1 : /\ WorkStart[r + 1] = WorkStart[r] + WorkCount(r)
                                  /\ WorkStart[r] <= WorkStart[r + 1]
<1> DEFINE N == n
           count == [r \in 0 .. N - 1 |-> WorkCount(r)]
           Sums(g) == g = [r \in 0 .. N |-> IF r = 0 THEN 0 ELSE g[r - 1] + WorkCount(r - 1)]
           f == WorkStart
<1>1. N \in Nat /\ N # 0 BY BatchFacts
<1>2. count \in [0 .. N - 1 -> Nat] BY WorkCountFacts
<1>3. \A r \in 0 .. N - 1 : count[r] = WorkCount(r) OBVIOUS
<1>4. f = CHOOSE g : Sums(g) BY DEF WorkStart
<1> HIDE DEF f, count, N
<1>5. PICK g \in [0 .. N -> Nat] :
        g = [r \in 0 .. N |-> IF r = 0 THEN 0 ELSE g[r - 1] + count[r - 1]]
  BY <1>1, <1>2, PartialSums
<1>6. \A r \in 0 .. N : r # 0 => r - 1 \in 0 .. N - 1 BY <1>1
<1>7. Sums(g) BY <1>3, <1>5, <1>6
<1>8. Sums(f)
  <2> HIDE DEF Sums
  <2> QED BY <1>4, <1>7
<1>9. f = [r \in 0 .. N |-> f[r]] BY <1>8
<1>10. \A r \in 0 .. N : f[r] = IF r = 0 THEN 0 ELSE f[r - 1] + count[r - 1]
  BY <1>3, <1>6, <1>8
<1> HIDE DEF Sums
<1>11. /\ f \in [0 .. N -> Nat] /\ f[0] = 0
       /\ \A r \in 0 .. N - 1 : f[r + 1] = f[r] + count[r] /\ f[r] <= f[r + 1]
  BY <1>1, <1>2, <1>9, <1>10, SumFacts
<1> QED BY <1>3, <1>11 DEF f, N

\* The buffer has room for all items.
LEMMA WorkFits ==
  ASSUME builder \in Builders, batch \in Batches, BuildsWork
  PROVE  WorkStart[n] <= MaxNumWork /\ MaxNumWork \in Nat
<1> DEFINE N == n
           R == Ratio
           f == WorkStart
           A == NumTokens + (R - 1) * N
<1>1. /\ R \in Nat \ {0} /\ N \in Nat /\ NumTokens \in Nat /\ NumMapped \in Nat
      /\ NumMapped <= NumTokens /\ NumMapped = Loc(N) /\ Loc(0) = 0
      /\ \A r \in 0 .. N : Loc(r) \in Nat
      /\ \A r \in 0 .. N - 1 : Loc(r + 1) = Loc(r) + QueryLen(r) /\ QueryLen(r) \in Nat
  BY BatchFacts, Sizes DEF NumMapped
<1>2. /\ f \in [0 .. N -> Nat] /\ f[0] = 0
      /\ \A r \in 0 .. N - 1 : f[r + 1] = f[r] + WorkCount(r)
  BY WorkStartFacts
<1>3. \A r \in 0 .. N - 1 : WorkCount(r) \in Nat /\ R * WorkCount(r) <= QueryLen(r) + (R - 1)
  BY WorkCountFacts
<1>4. MaxNumWork = A \div R BY DEF MaxNumWork
<1> HIDE DEF R, f, N
<1> DEFINE S == {r \in 0 .. N : R * f[r] <= Loc(r) + (R - 1) * r}
<1>5. 0 \in S
  <2>1. R * f[0] = 0 /\ Loc(0) + (R - 1) * 0 = 0 BY <1>1, <1>2
  <2> QED BY <1>1, <2>1
<1>6. ASSUME NEW r \in 0 .. N - 1, r \in S PROVE r + 1 \in S
  <2>1. r \in 0 .. N /\ r + 1 \in 0 .. N /\ r \in Nat BY <1>1
  <2> DEFINE w == f[r]
             k == WorkCount(r)
             l == Loc(r)
             q == QueryLen(r)
  <2>2. /\ w \in Nat /\ k \in Nat /\ l \in Nat /\ q \in Nat
        /\ f[r + 1] = w + k /\ Loc(r + 1) = l + q
        /\ R * k <= q + (R - 1) /\ R * w <= l + (R - 1) * r
    BY <1>1, <1>2, <1>3, <1>6, <2>1
  <2> HIDE DEF w, k, l, q
  <2>3. R * (w + k) = R * w + R * k BY <1>1, <2>2
  <2>4. (R - 1) * (r + 1) = (R - 1) * r + (R - 1) BY <1>1, <2>1
  <2> DEFINE x == R * w
             y == R * k
             z == (R - 1) * r
  <2>5. x \in Int /\ y \in Int /\ z \in Int BY <1>1, <2>1, <2>2
  <2>6. x + y <= (l + q) + (z + (R - 1))
    <3>1. y <= q + (R - 1) /\ x <= l + z BY <2>2
    <3> HIDE DEF x, y, z
    <3> QED BY <1>1, <2>2, <2>5, <3>1
  <2>7. R * f[r + 1] <= Loc(r + 1) + (R - 1) * (r + 1) BY <2>2, <2>3, <2>4, <2>6
  <2> QED BY <2>1, <2>7
<1>7. N \in S
  <2> HIDE DEF S
  <2>1. 0 .. N \subseteq S BY <1>1, <1>5, <1>6, ClosedUpwards
  <2> QED BY <1>1, <2>1
<1>8. A \in Nat
  <2>1. (R - 1) * N \in Nat BY <1>1
  <2> QED BY <1>1, <2>1
<1>9. R * f[N] <= A
  <2>1. R * f[N] <= Loc(N) + (R - 1) * N BY <1>7
  <2> DEFINE z == (R - 1) * N
             x == R * f[N]
  <2>2. z \in Int /\ x \in Int BY <1>1, <1>2
  <2>3. x <= Loc(N) + z BY <2>1
  <2> HIDE DEF x, z
  <2>4. x <= NumTokens + z BY <1>1, <2>2, <2>3
  <2> QED BY <2>4 DEF x, z
<1>10. f[N] \in Nat BY <1>1, <1>2
<1> HIDE DEF A
<1>11. A \div R \in Nat BY <1>1, <1>8, DivFacts
<1>12. f[N] <= A \div R
  <2> DEFINE w == f[N]
  <2>1. CASE w = 0 BY <1>11, <2>1
  <2>2. CASE w # 0
    <3> DEFINE g == w - 1
    <3>1. g \in Nat /\ g + 1 = w BY <1>10, <2>2
    <3>2. (g + 1) * R <= A
      <4>1. w * R = R * w BY <1>1, <1>10
      <4> HIDE DEF w, g
      <4> QED BY <1>9, <3>1, <4>1 DEF w
    <3> HIDE DEF g
    <3>3. g < A \div R BY <1>1, <1>8, <3>1, <3>2, CompleteGroup
    <3>4. w \in Nat BY <1>10
    <3> HIDE DEF w
    <3>5. w <= A \div R BY <1>11, <3>1, <3>3, <3>4
    <3> QED BY <3>5 DEF w
  <2> QED BY <2>1, <2>2
<1> QED BY <1>4, <1>11, <1>12 DEF f, N

-----------------------------------------------------------------------------
(* What the programs have written. *)

\* A program's tile holds the kernel's entries, the others what they held before.
MetaInv ==
  /\ builder \in Builders /\ batch \in Batches
  /\ tokens = [t \in 0 .. NumTokens - 1 |->
                 IF t \div TokenTile \in ran THEN TokenEntry(t) ELSE Stale]
  /\ work = [w \in 0 .. MaxNumWork - 1 |->
               IF w \div WorkTile \in ran THEN WorkEntry(w) ELSE Stale]
  /\ ran \subseteq Programs

\* A step that keeps the builder and the batch keeps every entry there is to write.
LEMMA EntriesKept ==
  ASSUME builder' = builder, batch' = batch
  PROVE  /\ NumTokens' = NumTokens /\ MaxNumWork' = MaxNumWork /\ Programs' = Programs
         /\ \A t : TokenEntry(t)' = TokenEntry(t)
         /\ \A w : WorkEntry(w)' = WorkEntry(w)
<1>1. /\ Ratio' = Ratio /\ Circular' = Circular /\ Storage' = Storage /\ Columns' = Columns
  BY DEF Ratio, Circular, Storage, Columns
<1>2. /\ n' = n /\ NumTokens' = NumTokens
      /\ \A r : Loc(r)' = Loc(r) /\ SeqLen(r)' = SeqLen(r)
  BY DEF n, NumTokens, Loc, SeqLen
<1>3. NumMapped' = NumMapped BY <1>2 DEF NumMapped
<1>4. \A r : QueryLen(r)' = QueryLen(r) BY <1>2 DEF QueryLen
<1>5. MaxNumWork' = MaxNumWork /\ Programs' = Programs
  BY <1>1, <1>2 DEF MaxNumWork, BuildsWork, Programs
<1>6. \A r, c : BlockTable(r, c)' = BlockTable(r, c) BY <1>1, <1>2 DEF BlockTable
<1>7. \A t : CommonSlot(t)' = CommonSlot(t) BY <1>3 DEF CommonSlot
<1>8. Power' = Power BY <1>2 DEF Power
<1>9. SearchSteps' = SearchSteps BY <1>2, <1>8 DEF SearchSteps
<1>10. \A starts, x : LastStarting(starts, x)' = LastStarting(starts, x)
  BY <1>2, <1>8, <1>9 DEF LastStarting
<1>11. \A r, t, p : CircularSlot(r, t, p)' = CircularSlot(r, t, p)
  BY <1>1, <1>2, <1>6 DEF CircularSlot
<1>12. \A r, t, p : CompressedSlot(r, t, p)' = CompressedSlot(r, t, p)
  BY <1>1, <1>6, <1>7 DEF CompressedSlot
<1>13. \A r : WorkCount(r)' = WorkCount(r)
  BY <1>1, <1>2, <1>4 DEF WorkCount, NumGroups
<1>14. WorkStart' = WorkStart BY <1>2, <1>13 DEF WorkStart
<1>15. \A t : TokenEntry(t)' = TokenEntry(t)
  BY <1>1, <1>2, <1>3, <1>4, <1>7, <1>10, <1>11, <1>12 DEF TokenEntry
<1>16. \A w : WorkEntry(w)' = WorkEntry(w)
  BY <1>2, <1>10, <1>14 DEF WorkEntry
<1> QED BY <1>2, <1>5, <1>15, <1>16

\* The builder and the batch of a step do not change; a program adds its tile.
THEOREM MetadataInvariance == Spec => []MetaInv
<1>1. Init => MetaInv
  <2> SUFFICES ASSUME Init PROVE MetaInv OBVIOUS
  <2>1. tokens = [t \in 0 .. NumTokens - 1 |->
                    IF t \div TokenTile \in ran THEN TokenEntry(t) ELSE Stale]
    BY DEF Init
  <2>2. work = [w \in 0 .. MaxNumWork - 1 |->
                  IF w \div WorkTile \in ran THEN WorkEntry(w) ELSE Stale]
    BY DEF Init
  <2> QED BY <2>1, <2>2 DEF Init, MetaInv
<1>2. MetaInv /\ [Next]_vars => MetaInv'
  <2> SUFFICES ASSUME MetaInv, [Next]_vars PROVE MetaInv' OBVIOUS
  <2>1. ASSUME NEW pid \in Programs, RunProgram(pid) PROVE MetaInv'
    <3>1. builder' = builder /\ batch' = batch BY <2>1 DEF RunProgram
    <3>2. /\ NumTokens' = NumTokens /\ MaxNumWork' = MaxNumWork /\ Programs' = Programs
          /\ \A t : TokenEntry(t)' = TokenEntry(t)
          /\ \A w : WorkEntry(w)' = WorkEntry(w)
      BY <3>1, EntriesKept
    <3>3. ran' = ran \union {pid} BY <2>1 DEF RunProgram
    <3>4. tokens' = [t \in 0 .. NumTokens - 1 |->
                       IF t \div TokenTile \in ran' THEN TokenEntry(t) ELSE Stale]
      BY <2>1, <3>3 DEF MetaInv, RunProgram
    <3>5. work' = [w \in 0 .. MaxNumWork - 1 |->
                     IF w \div WorkTile \in ran' THEN WorkEntry(w) ELSE Stale]
      BY <2>1, <3>3 DEF MetaInv, RunProgram
    <3>6. ran' \subseteq Programs' BY <3>2, <3>3 DEF MetaInv
    <3> QED BY <3>1, <3>2, <3>4, <3>5, <3>6 DEF MetaInv
  <2>2. CASE UNCHANGED vars
    <3>1. builder' = builder /\ batch' = batch /\ tokens' = tokens /\ work' = work /\ ran' = ran
      BY <2>2 DEF vars
    <3>2. /\ NumTokens' = NumTokens /\ MaxNumWork' = MaxNumWork /\ Programs' = Programs
          /\ \A t : TokenEntry(t)' = TokenEntry(t)
          /\ \A w : WorkEntry(w)' = WorkEntry(w)
      BY <3>1, EntriesKept
    <3> QED BY <3>1, <3>2 DEF MetaInv
  <2> QED BY <2>1, <2>2 DEF Next
<1> QED BY <1>1, <1>2, PTL DEF Spec

-----------------------------------------------------------------------------
(* The entries. *)

\* A token that is mapped belongs to the request whose rows contain it, and the
\* search finds that one.
LEMMA TokenOwner ==
  ASSUME builder \in Builders, batch \in Batches, NEW t \in Nat, t < NumMapped,
         NEW r, r = LastStarting(batch.query_start_loc, Least(t, NumMapped - 1))
  PROVE  /\ r \in 0 .. n - 1 /\ Loc(r) <= t /\ t < Loc(r + 1)
         /\ \A q \in 0 .. n - 1 : Loc(q) <= t /\ t < Loc(q + 1) => q = r
         /\ Owner(t) = r
<1> DEFINE f == batch.query_start_loc
           N == n
<1>1. /\ N \in Nat \ {0} /\ f \in [0 .. N -> Nat] /\ NumMapped \in Nat
      /\ \A q \in 0 .. N - 1 : Loc(q) <= Loc(q + 1)
      /\ Loc(0) = 0
  BY BatchFacts
<1>2. (\A q : Loc(q) = f[q]) /\ NumMapped = f[N] BY DEF Loc, NumMapped
<1>3. Least(t, NumMapped - 1) = t BY <1>1 DEF Least
<1>4. f[0] = 0 /\ t < f[N] /\ \A q \in 0 .. N - 1 : f[q] <= f[q + 1] BY <1>1, <1>2
<1>5. r \in 0 .. n - 1 /\ f[r] <= t /\ t < f[r + 1]
  <2>1. r = LastStarting(f, t) BY <1>3
  <2>2. n \in Nat \ {0} /\ f \in [0 .. n -> Nat] /\ t < f[n] /\ f[0] = 0
        /\ \A q \in 0 .. n - 1 : f[q] <= f[q + 1]
    BY <1>1, <1>4
  <2> HIDE DEF f
  <2> QED BY <2>1, <2>2, OwnerFound
<1>6. ASSUME NEW q \in 0 .. n - 1, Loc(q) <= t, t < Loc(q + 1) PROVE q = r
  <2>1. N \in Nat /\ f \in [0 .. N -> Int] /\ t \in Int BY <1>1
  <2>2. r \in 0 .. N - 1 /\ q \in 0 .. N - 1 /\ f[q] <= t /\ t < f[q + 1]
    BY <1>2, <1>5, <1>6
  <2> HIDE DEF f, N
  <2> QED BY <1>4, <1>5, <2>1, <2>2, StepOverOnce
<1>7. Loc(r) <= t /\ t < Loc(r + 1) BY <1>2, <1>5
<1>8. Owner(t) = r
  <2>1. Owner(t) = CHOOSE q \in 0 .. n - 1 : Loc(q) <= t /\ t < Loc(q + 1)
    BY <1>1 DEF Owner
  <2> QED BY <1>5, <1>6, <1>7, <2>1
<1> QED BY <1>5, <1>6, <1>7, <1>8

\* The position of a mapped token is one of its sequence.
LEMMA TokenPosition ==
  ASSUME builder \in Builders, batch \in Batches, NEW t \in Nat, NEW r \in 0 .. n - 1,
         Loc(r) <= t, t < Loc(r + 1), t < NumMapped
  PROVE  LET p == SeqLen(r) - QueryLen(r) + t - Loc(r)
         IN  p \in Nat /\ p < SeqLen(r) /\ p >= SeqLen(r) - QueryLen(r)
<1> DEFINE s == SeqLen(r)
           q == QueryLen(r)
           l == Loc(r)
<1>1. /\ s \in Nat /\ q \in Nat /\ q <= s /\ l \in Nat /\ Loc(r + 1) = l + q
  <2>1. r \in 0 .. n BY BatchFacts
  <2> QED BY <2>1, BatchFacts
<1> HIDE DEF s, q, l
<1>2. l <= t /\ t < l + q BY <1>1 DEF l
<1>3. s - q + t - l \in Nat /\ s - q + t - l < s /\ s - q + t - l >= s - q BY <1>1, <1>2
<1> QED BY <1>3 DEF s, q, l

\* Blocks and slots are integers; a slot is padding or a row of a block.
LEMMA SlotTypes ==
  ASSUME builder \in Builders, batch \in Batches, NEW r \in 0 .. n - 1,
         NEW t \in Nat, NEW p \in Nat
  PROVE  /\ CommonSlot(t) \in Int
         /\ Circular > 0 => CircularSlot(r, t, p) \in Int
         /\ CompressedSlot(r, t, p) \in Int
<1>1. /\ Ratio \in Nat \ {0} /\ Storage \in Nat \ {0} /\ Circular \in Nat /\ Columns \in Nat
      /\ NumMapped \in Nat /\ r \in Nat
  BY Sizes, BatchFacts
<1>2. ASSUME NEW c \in Nat PROVE BlockTable(r, c) \in Int
  BY <1>1, <1>2 DEF BlockTable
<1>3. CommonSlot(t) \in Int BY <1>1 DEF CommonSlot
<1>4. ASSUME Circular > 0 PROVE CircularSlot(r, t, p) \in Int
  <2> DEFINE d == Circular
             b == BlockTable(r, 0)
  <2>1. d \in Nat \ {0} /\ b \in Int BY <1>1, <1>2, <1>4
  <2>2. CircularSlot(r, t, p) = b * d + (p % d) \/ CircularSlot(r, t, p) = -1
    BY DEF CircularSlot
  <2> HIDE DEF d, b
  <2>3. p % d \in Int /\ b * d \in Int BY <2>1, DivFacts
  <2>4. b * d + (p % d) \in Int BY <2>3
  <2> QED BY <2>2, <2>4
<1>5. CompressedSlot(r, t, p) \in Int
  <2> DEFINE row == p \div Ratio
             column == row \div Storage
             b == BlockTable(r, column)
             d == Storage
  <2>1. row \in Nat BY <1>1, DivFacts
  <2>2. column \in Nat /\ row % d \in Int
    <3>1. d \in Nat \ {0} BY <1>1
    <3> HIDE DEF row, d
    <3>2. row \div d \in Nat /\ row % d \in 0 .. d - 1 BY <2>1, <3>1, DivFacts
    <3>3. row \div d \in Nat /\ row % d \in Int BY <3>1, <3>2
    <3> QED BY <3>3 DEF d
  <2>3. b \in Int /\ d \in Nat
    <3> HIDE DEF column
    <3> QED BY <1>1, <1>2, <2>2
  <2>4. CompressedSlot(r, t, p) = b * d + (row % d) \/ CompressedSlot(r, t, p) = -1
    BY DEF CompressedSlot
  <2> HIDE DEF row, b, d
  <2>5. b * d \in Int BY <2>3
  <2>6. b * d + (row % d) \in Int BY <2>2, <2>5
  <2> QED BY <2>4, <2>6
<1> QED BY <1>3, <1>4, <1>5

\* The four fields of a mapped token's entry.
LEMMA MappedEntry ==
  ASSUME builder \in Builders, batch \in Batches, NEW t \in Nat, t < NumMapped,
         NEW r, r = Owner(t), NEW p, p = SeqLen(r) - QueryLen(r) + t - Loc(r)
  PROVE  /\ r \in 0 .. n - 1 /\ Loc(r) <= t /\ t < Loc(r + 1)
         /\ p \in Nat /\ p < SeqLen(r) /\ p >= SeqLen(r) - QueryLen(r)
         /\ TokenEntry(t) =
              [req |-> r, pos |-> p,
               visible |-> Most(0, Least((p + 1) \div Ratio, SeqLen(r) \div Ratio)),
               slot |-> IF Circular > 0 THEN CircularSlot(r, t, p)
                        ELSE IF Ratio # 1 THEN CompressedSlot(r, t, p)
                        ELSE CommonSlot(t)]
<1> DEFINE found == LastStarting(batch.query_start_loc, Least(t, NumMapped - 1))
<1>1. /\ found \in 0 .. n - 1 /\ Loc(found) <= t /\ t < Loc(found + 1) /\ Owner(t) = found
  <2> DEFINE fd == found
  <2>1. fd = LastStarting(batch.query_start_loc, Least(t, NumMapped - 1)) OBVIOUS
  <2> HIDE DEF fd
  <2>2. /\ fd \in 0 .. n - 1 /\ Loc(fd) <= t /\ t < Loc(fd + 1) /\ Owner(t) = fd
    BY <2>1, TokenOwner
  <2> QED BY <2>2 DEF fd
<1>2. TokenEntry(t) =
        [req |-> found,
         pos |-> SeqLen(found) - QueryLen(found) + t - Loc(found),
         visible |-> Most(0, Least((SeqLen(found) - QueryLen(found) + t - Loc(found) + 1)
                                     \div Ratio, SeqLen(found) \div Ratio)),
         slot |-> IF Circular > 0
                  THEN CircularSlot(found, t, SeqLen(found) - QueryLen(found) + t - Loc(found))
                  ELSE IF Ratio # 1
                  THEN CompressedSlot(found, t, SeqLen(found) - QueryLen(found) + t - Loc(found))
                  ELSE CommonSlot(t)]
  BY DEF TokenEntry
<1> HIDE DEF found
<1>3. r = found BY <1>1
<1>4. p \in Nat /\ p < SeqLen(r) /\ p >= SeqLen(r) - QueryLen(r)
  BY <1>1, <1>3, TokenPosition
<1> QED BY <1>1, <1>2, <1>3, <1>4

\* The entry of a padding token.
LEMMA UnmappedEntry ==
  ASSUME builder \in Builders, batch \in Batches, NEW t \in Nat, ~(t < NumMapped)
  PROVE  TokenEntry(t) = [req |-> 0, pos |-> -1, visible |-> 0, slot |-> -1]
<1>1. Ratio \in Nat \ {0} /\ Circular \in Nat BY Sizes
<1> DEFINE R == Ratio
<1>2. 0 \div R = 0
  <2>1. R \in Nat \ {0} BY <1>1
  <2> HIDE DEF R
  <2>2. 0 = R * 0 + 0 BY <2>1
  <2> QED BY <2>1, <2>2, QuotientIs
<1>3. Most(0, Least((-1 + 1) \div R, 0 \div R)) = 0
  <2> HIDE DEF R
  <2>1. -1 + 1 = 0 OBVIOUS
  <2> QED BY <1>2, <2>1 DEF Most, Least
<1>4. CommonSlot(t) = -1 BY DEF CommonSlot
<1> QED BY <1>3, <1>4 DEF TokenEntry

\* Every entry of the kernel names a request and a position of the step.
LEMMA EntryTypes ==
  ASSUME builder \in Builders, batch \in Batches, NEW t \in Nat
  PROVE  TokenEntry(t) \in Entry
<1>1. n \in 1 .. MaxReqs /\ n \in Nat /\ MaxReqs \in Nat \ {0} BY BatchFacts, Sizes
<1>2. CASE t < NumMapped
  <2> DEFINE r == Owner(t)
             p == SeqLen(r) - QueryLen(r) + t - Loc(r)
             e == TokenEntry(t)
             v == Most(0, Least((p + 1) \div Ratio, SeqLen(r) \div Ratio))
  <2>1. /\ r \in 0 .. n - 1 /\ p \in Nat
        /\ e = [req |-> r, pos |-> p, visible |-> v,
                slot |-> IF Circular > 0 THEN CircularSlot(r, t, p)
                         ELSE IF Ratio # 1 THEN CompressedSlot(r, t, p)
                         ELSE CommonSlot(t)]
    BY <1>2, MappedEntry
  <2>2. Ratio \in Nat \ {0} /\ Circular \in Nat /\ SeqLen(r) \in Nat BY <2>1, Sizes, BatchFacts
  <2> HIDE DEF p
  <2>3. v \in Nat
    <3> DEFINE a == (p + 1) \div Ratio
               b == SeqLen(r) \div Ratio
               R == Ratio
    <3>1. R \in Nat \ {0} /\ p + 1 \in Nat /\ SeqLen(r) \in Nat BY <2>1, <2>2
    <3>2. a \in Nat /\ b \in Nat
      <4>1. (p + 1) \div R \in Nat /\ SeqLen(r) \div R \in Nat
        <5> HIDE DEF R, r
        <5> QED BY <3>1, DivFacts
      <4> QED BY <4>1
    <3> HIDE DEF a, b
    <3>3. Most(0, Least(a, b)) \in Nat BY <3>2 DEF Most, Least
    <3> QED BY <3>3 DEF a, b
  <2>4. e.slot \in Int
    <3>1. /\ CommonSlot(t) \in Int
          /\ Circular > 0 => CircularSlot(r, t, p) \in Int
          /\ CompressedSlot(r, t, p) \in Int
      <4> HIDE DEF r
      <4> QED BY <2>1, SlotTypes
    <3> QED BY <2>1, <3>1
  <2>5. r \in 0 .. MaxReqs - 1 BY <1>1, <2>1
  <2> HIDE DEF r, v, e
  <2>6. e \in Entry BY <2>1, <2>3, <2>4, <2>5 DEF Entry
  <2> QED BY <2>6 DEF e
<1>3. CASE ~(t < NumMapped)
  BY <1>1, <1>3, UnmappedEntry DEF Entry
<1> QED BY <1>2, <1>3

\* A work item below the end belongs to the request whose items contain it.
LEMMA WorkOwner ==
  ASSUME builder \in Builders, batch \in Batches, NEW w \in Nat, w < WorkStart[n],
         NEW r, r = LastStarting(WorkStart, w)
  PROVE  /\ r \in 0 .. n - 1 /\ WorkStart[r] <= w /\ w < WorkStart[r + 1]
         /\ WorkEntry(w) = <<r, w - WorkStart[r]>>
         /\ TorchWork(w) = <<r, w - WorkStart[r]>>
<1> DEFINE f == WorkStart
           N == n
<1>1. /\ N \in Nat \ {0} /\ f \in [0 .. N -> Nat] /\ f[0] = 0
      /\ \A q \in 0 .. N - 1 : f[q] <= f[q + 1]
  BY BatchFacts, WorkStartFacts
<1>2. r \in 0 .. n - 1 /\ f[r] <= w /\ w < f[r + 1]
  <2>1. /\ n \in Nat \ {0} /\ f \in [0 .. n -> Nat] /\ f[0] = 0 /\ w < f[n]
        /\ \A q \in 0 .. n - 1 : f[q] <= f[q + 1] /\ r = LastStarting(f, w)
    BY <1>1
  <2> HIDE DEF f
  <2> QED BY <2>1, OwnerFound
<1>3. ~(w >= f[n]) /\ f[n] \in Nat BY <1>1
<1>4. WorkEntry(w) = <<r, w - f[r]>> BY <1>3 DEF WorkEntry
<1> DEFINE First(q) == f[q + 1] > w /\ \A i \in 0 .. q - 1 : f[i + 1] <= w
<1>5. TorchWork(w) = LET q == CHOOSE q \in 0 .. n - 1 : First(q)
                     IN  <<q, w - f[q]>>
  BY <1>3 DEF TorchWork
<1> HIDE DEF f
<1>6. First(r)
  <2>1. f[r + 1] > w
    <3>1. r + 1 \in 0 .. N BY <1>1, <1>2
    <3>2. f[r + 1] \in Nat BY <1>1, <3>1
    <3> QED BY <1>2, <3>2
  <2>2. ASSUME NEW i \in 0 .. r - 1 PROVE f[i + 1] <= w
    <3>1. N \in Nat /\ f \in [0 .. N -> Int] BY <1>1
    <3>2. i + 1 \in 0 .. N /\ r \in 0 .. N /\ i + 1 <= r
      <4>1. r \in Int /\ r >= 0 /\ r <= N - 1 /\ N \in Int BY <1>1, <1>2
      <4>2. i \in Int /\ i >= 0 /\ i <= r - 1 BY <4>1
      <4> HIDE DEF N
      <4>3. i + 1 <= r /\ i + 1 >= 0 /\ i + 1 <= N /\ i + 1 \in Int BY <4>1, <4>2
      <4> QED BY <4>1, <4>3
    <3>3. f[i + 1] <= f[r] BY <1>1, <3>1, <3>2, Ascends
    <3>4. f[i + 1] \in Nat /\ f[r] \in Nat BY <1>1, <3>2
    <3> QED BY <1>2, <3>3, <3>4
  <2> QED BY <2>1, <2>2
<1>7. ASSUME NEW q \in 0 .. n - 1, First(q) PROVE q = r
  <2>1. q \in 0 .. N - 1 /\ r \in 0 .. N - 1 BY <1>2
  <2>2. q \in Int /\ r \in Int /\ q + 1 \in 0 .. N /\ r + 1 \in 0 .. N BY <1>1, <2>1
  <2>3. f[q + 1] \in Nat /\ f[r + 1] \in Nat BY <1>1, <2>2
  <2>4. CASE q < r
    <3>1. q \in 0 .. r - 1 BY <2>1, <2>2, <2>4
    <3>2. f[q + 1] <= w BY <1>6, <3>1
    <3> QED BY <1>7, <2>3, <3>2
  <2>5. CASE r < q
    <3>1. r \in 0 .. q - 1 BY <2>1, <2>2, <2>5
    <3>2. f[r + 1] <= w BY <1>7, <3>1
    <3> QED BY <1>2, <2>3, <3>2
  <2> QED BY <2>2, <2>4, <2>5
<1>8. r = CHOOSE q \in 0 .. n - 1 : First(q)
  <2> HIDE DEF First
  <2> QED BY <1>2, <1>6, <1>7
<1>9. TorchWork(w) = <<r, w - f[r]>> BY <1>5, <1>8
<1> QED BY <1>2, <1>4, <1>9 DEF f

\* The grid's last program reaches the end of both buffers.
LEMMA GridCovers ==
  ASSUME builder \in Builders, batch \in Batches
  PROVE  /\ MaxNumWork \in Nat
         /\ \A t \in 0 .. NumTokens - 1 : t \in Nat /\ t \div TokenTile \in Programs
         /\ \A w \in 0 .. MaxNumWork - 1 : w \in Nat /\ w \div WorkTile \in Programs
<1>1. NumTokens \in Nat /\ TokenTile \in Nat \ {0} /\ WorkTile \in Nat \ {0}
  BY BatchFacts, Sizes
<1>2. MaxNumWork \in Nat
  <2>1. CASE BuildsWork BY <2>1, WorkFits
  <2>2. CASE ~BuildsWork BY <2>2 DEF MaxNumWork
  <2> QED BY <2>1, <2>2
<1>3. ASSUME NEW N \in Nat, NEW d \in Nat \ {0}, NEW t \in 0 .. N - 1
      PROVE  t \in Nat /\ t \div d \in Nat /\ t \div d < Cdiv(N, d) /\ Cdiv(N, d) \in Nat
  <2> DEFINE g == t \div d
             m == N + d - 1
  <2>1. t \in Nat /\ m \in Nat /\ t <= N - 1 OBVIOUS
  <2>2. g \in Nat /\ g * d <= t BY <2>1, DivFacts, CompleteGroup
  <2>3. (g + 1) * d = g * d + d
    <3> HIDE DEF g
    <3> QED BY <2>2
  <2> DEFINE x == g * d
  <2>4. x \in Int BY <2>2
  <2>5. x + d <= m
    <3>1. x <= t BY <2>2
    <3> HIDE DEF x, g
    <3> QED BY <2>1, <2>4, <3>1
  <2>6. (g + 1) * d <= m BY <2>3, <2>5
  <2>7. Cdiv(N, d) = m \div d BY DEF Cdiv
  <2> HIDE DEF g, m, x
  <2>8. g < m \div d BY <2>1, <2>2, <2>6, CompleteGroup
  <2>9. m \div d \in Nat BY <2>1, DivFacts
  <2> QED BY <2>1, <2>2, <2>7, <2>8, <2>9 DEF g
<1> DEFINE a == Cdiv(NumTokens, TokenTile)
           b == Cdiv(MaxNumWork, WorkTile)
<1>4. ASSUME NEW k \in Nat, a \in Int, b \in Int, k < a \/ k < b PROVE k \in Programs
  <2>1. Programs = 0 .. Most(Most(a, b), 1) - 1 BY DEF Programs
  <2> HIDE DEF a, b
  <2>2. Most(a, b) \in Int /\ Most(a, b) >= a /\ Most(a, b) >= b BY <1>4 DEF Most
  <2>3. Most(Most(a, b), 1) \in Int /\ Most(Most(a, b), 1) >= Most(a, b) BY <2>2 DEF Most
  <2> QED BY <1>4, <2>1, <2>2, <2>3
<1>5. a \in Int /\ b \in Int
  <2>1. ASSUME NEW N \in Nat, NEW d \in Nat \ {0} PROVE Cdiv(N, d) \in Int
    <3>1. N + d - 1 \in Nat OBVIOUS
    <3>2. (N + d - 1) \div d \in Nat BY <3>1, DivFacts
    <3> QED BY <3>2 DEF Cdiv
  <2> QED BY <1>1, <1>2, <2>1
<1>6. ASSUME NEW t \in 0 .. NumTokens - 1 PROVE t \in Nat /\ t \div TokenTile \in Programs
  <2>1. t \in Nat /\ t \div TokenTile \in Nat /\ t \div TokenTile < a BY <1>1, <1>3
  <2> QED BY <1>4, <1>5, <2>1
<1>7. ASSUME NEW w \in 0 .. MaxNumWork - 1 PROVE w \in Nat /\ w \div WorkTile \in Programs
  <2>1. w \in Nat /\ w \div WorkTile \in Nat /\ w \div WorkTile < b BY <1>1, <1>2, <1>3
  <2> QED BY <1>4, <1>5, <2>1
<1> QED BY <1>2, <1>6, <1>7

-----------------------------------------------------------------------------
(* The theorems. *)

\* Under the invariant, in whatever order the programs run, each entry of the
\* buffers is stale or a well-formed entry of the step.
THEOREM MetadataTypes == Spec => []TypeOK
<1>1. MetaInv => TypeOK
  <2> SUFFICES ASSUME MetaInv PROVE TypeOK OBVIOUS
  <2>1. builder \in Builders /\ batch \in Batches /\ ran \subseteq Programs BY DEF MetaInv
  <2>2. \A t \in DOMAIN tokens : tokens[t] \in Entry \union {Stale}
    <3>1. ASSUME NEW t \in 0 .. NumTokens - 1 PROVE TokenEntry(t) \in Entry
      BY <2>1, GridCovers, EntryTypes
    <3> QED BY <3>1 DEF MetaInv
  <2>3. ASSUME NEW w \in 0 .. MaxNumWork - 1
        PROVE  WorkEntry(w) \in (-1 .. MaxReqs - 1) \X Int
    <3>1. /\ w \in Nat /\ MaxReqs \in Nat \ {0} /\ n \in 1 .. MaxReqs
          /\ WorkStart \in [0 .. n -> Nat] /\ n \in Nat
      BY <2>1, GridCovers, BatchFacts, WorkStartFacts, Sizes
    <3>2. WorkStart[n] \in Nat BY <3>1
    <3>3. CASE w >= WorkStart[n]
      <4>1. WorkEntry(w) = <<-1, -1>> BY <3>3 DEF WorkEntry
      <4>2. -1 \in -1 .. MaxReqs - 1 BY <3>1
      <4> QED BY <4>1, <4>2
    <3>4. CASE w < WorkStart[n]
      <4> DEFINE r == LastStarting(WorkStart, w)
                 s == WorkStart[r]
      <4>1. r \in 0 .. n - 1 /\ WorkEntry(w) = <<r, w - s>> BY <2>1, <3>1, <3>4, WorkOwner
      <4>2. r \in -1 .. MaxReqs - 1 /\ s \in Nat
        <5>1. r \in 0 .. n BY <3>1, <4>1
        <5> HIDE DEF r
        <5> QED BY <3>1, <4>1, <5>1
      <4> HIDE DEF r, s
      <4> QED BY <3>1, <4>1, <4>2
    <3> QED BY <3>1, <3>2, <3>3, <3>4
  <2>4. \A w \in DOMAIN work : work[w] \in ((-1 .. MaxReqs - 1) \X Int) \union {Stale}
    BY <2>3 DEF MetaInv
  <2> QED BY <2>1, <2>2, <2>4 DEF TypeOK
<1> QED BY <1>1, MetadataInvariance, PTL

\* Entry by entry the kernel writes what the fallback computes.
LEMMA EntriesAgree ==
  ASSUME builder \in Builders, batch \in Batches
  PROVE  /\ \A t \in 0 .. NumTokens - 1 : TokenEntry(t) = TorchToken(t)
         /\ \A w \in 0 .. MaxNumWork - 1 : WorkEntry(w) = TorchWork(w)
<1>1. ASSUME NEW t \in Nat, t < NumMapped PROVE TokenEntry(t) = TorchToken(t)
  <2> DEFINE r == Owner(t)
             p == SeqLen(r) - QueryLen(r) + t - Loc(r)
             v == Most(0, Least((p + 1) \div Ratio, SeqLen(r) \div Ratio))
  <2>1. /\ r \in 0 .. n - 1 /\ p \in Nat
        /\ TokenEntry(t) =
             [req |-> r, pos |-> p, visible |-> v,
              slot |-> IF Circular > 0 THEN CircularSlot(r, t, p)
                       ELSE IF Ratio # 1 THEN CompressedSlot(r, t, p)
                       ELSE CommonSlot(t)]
    BY <1>1, MappedEntry
  <2>2. TorchPosition(t) = p BY <1>1 DEF TorchPosition
  <2>3. TorchToken(t) = [req |-> r, pos |-> p, visible |-> v, slot |-> TorchSlot(t)]
    BY <2>2 DEF TorchToken
  <2>4. CommonSlot(t) = t /\ ~(CommonSlot(t) < 0) BY <1>1 DEF CommonSlot
  <2>5. TorchSlot(t) = IF Circular > 0
                       THEN IF p >= 0 /\ t + Circular >= Loc(r + 1)
                            THEN CircularSlot(r, t, p) ELSE -1
                       ELSE IF Ratio = 1 \/ CommonSlot(t) < 0 THEN CommonSlot(t)
                       ELSE CompressedSlot(r, t, p)
    BY <2>2 DEF TorchSlot
  <2>6. ~(p >= 0 /\ t + Circular >= Loc(r + 1)) => CircularSlot(r, t, p) = -1
    BY DEF CircularSlot
  <2> HIDE DEF r, p, v
  <2> QED BY <2>1, <2>3, <2>4, <2>5, <2>6
<1>2. ASSUME NEW t \in Nat, ~(t < NumMapped) PROVE TokenEntry(t) = TorchToken(t)
  <2>1. NumMapped \in Nat /\ n \in Nat \ {0} /\ Ratio \in Nat \ {0} /\ SeqLen(0) \in Nat
    BY BatchFacts, Sizes
  <2>2. Owner(t) = 0 BY <1>2, <2>1 DEF Owner
  <2>3. TorchPosition(t) = -1 BY <1>2 DEF TorchPosition
  <2>4. CommonSlot(t) = -1 BY <1>2 DEF CommonSlot
  <2>5. TorchSlot(t) = -1 BY <2>3, <2>4 DEF TorchSlot
  <2> DEFINE R == Ratio
             a == SeqLen(0) \div R
             z == (-1 + 1) \div R
  <2>6. a \in Nat
    <3> DEFINE s == SeqLen(0)
    <3>1. s \in Nat /\ R \in Nat \ {0} BY <2>1
    <3> HIDE DEF s, R
    <3>2. s \div R \in Nat BY <3>1, DivFacts
    <3> QED BY <3>2 DEF s
  <2>7. z = 0
    <3>1. R \in Nat \ {0} /\ -1 + 1 = 0 BY <2>1
    <3> HIDE DEF R
    <3>2. 0 = R * 0 + 0 /\ 0 \in 0 .. R - 1 BY <3>1
    <3> QED BY <3>1, <3>2, QuotientIs
  <2>8. TorchToken(t) = [req |-> 0, pos |-> -1, visible |-> Most(0, Least(z, a)), slot |-> -1]
    BY <2>2, <2>3, <2>5 DEF TorchToken
  <2> HIDE DEF z, a
  <2>9. Most(0, Least(z, a)) = 0 BY <2>6, <2>7 DEF Most, Least
  <2> QED BY <1>2, <2>8, <2>9, UnmappedEntry
<1>3. ASSUME NEW w \in Nat PROVE WorkEntry(w) = TorchWork(w)
  <2>1. n \in Nat /\ WorkStart \in [0 .. n -> Nat] BY BatchFacts, WorkStartFacts
  <2>2. WorkStart[n] \in Nat BY <2>1
  <2>3. CASE w >= WorkStart[n] BY <2>3 DEF WorkEntry, TorchWork
  <2>4. CASE w < WorkStart[n] BY <2>4, WorkOwner
  <2> QED BY <2>2, <2>3, <2>4
<1> QED BY <1>1, <1>2, <1>3, GridCovers

\* When all programs have run every entry is written, and it is the fallback's.
THEOREM KernelIsFallback == Spec => []AgreesWithFallback
<1>1. MetaInv => AgreesWithFallback
  <2> SUFFICES ASSUME MetaInv, Done
               PROVE  /\ \A t \in DOMAIN tokens : tokens[t] = TorchToken(t)
                      /\ \A w \in DOMAIN work : work[w] = TorchWork(w)
    BY DEF AgreesWithFallback
  <2>1. builder \in Builders /\ batch \in Batches /\ ran = Programs BY DEF MetaInv, Done
  <2>2. \A t \in 0 .. NumTokens - 1 : t \div TokenTile \in ran BY <2>1, GridCovers
  <2>3. \A w \in 0 .. MaxNumWork - 1 : w \div WorkTile \in ran BY <2>1, GridCovers
  <2>4. /\ \A t \in 0 .. NumTokens - 1 : TokenEntry(t) = TorchToken(t)
        /\ \A w \in 0 .. MaxNumWork - 1 : WorkEntry(w) = TorchWork(w)
    BY <2>1, EntriesAgree
  <2> QED BY <2>2, <2>3, <2>4 DEF MetaInv
<1> QED BY <1>1, MetadataInvariance, PTL

\* A request with rows in the step needs item zero and one item for each group it
\* completes: as many as the kernel counts.
LEMMA NeededAreCounted ==
  ASSUME builder \in Builders, batch \in Batches, NEW r \in 0 .. n - 1, QueryLen(r) > 0
  PROVE  NeededItems(r) = 0 .. WorkCount(r) - 1
<1> DEFINE R == Ratio
           s == SeqLen(r)
           c == ChunkStart(r)
           a == s \div R
           b == c \div R
           completed == {k \in 0 .. s : (k + 1) * R \in c + 1 .. s}
<1>1. R \in Nat \ {0} /\ s \in Nat /\ c \in Nat /\ c <= s
  <2> DEFINE q == QueryLen(r)
  <2>1. s \in Nat /\ q \in Nat /\ q <= s BY BatchFacts
  <2>2. c = s - q BY DEF ChunkStart
  <2> HIDE DEF s, q, c
  <2>3. c \in Nat /\ c <= s BY <2>1, <2>2
  <2> QED BY <2>1, <2>3, Sizes
<1>2. NeededItems(r) = {0} \union {g - b : g \in completed} BY DEF NeededItems
<1>3. WorkCount(r) = Most(a - b, 1) BY DEF WorkCount, NumGroups, ChunkStart
<1> HIDE DEF R, s, c
<1>4. a \in Nat /\ b \in Nat /\ b <= a BY <1>1, DivFacts, DivAscends
<1>5. ASSUME NEW k \in Nat PROVE k \in completed <=> b <= k /\ k < a
  <2>1. k < a <=> (k + 1) * R <= s BY <1>1, CompleteGroup
  <2>2. k < b <=> (k + 1) * R <= c BY <1>1, CompleteGroup
  <2> DEFINE x == (k + 1) * R
  <2>3. x \in Nat /\ x >= k + 1
    <3>1. R * (k + 1) >= R * k + R /\ (k + 1) * R = R * (k + 1) /\ R * k \in Nat
      BY <1>1
    <3>2. R * k >= k
      <4>1. R - 1 \in Nat BY <1>1
      <4>2. (R - 1) * k \in Nat BY <4>1
      <4>3. (R - 1) * k = R * k - k BY <1>1
      <4> QED BY <3>1, <4>2, <4>3
    <3> QED BY <1>1, <3>1, <3>2
  <2>4. k \in completed <=> k \in 0 .. s /\ x \in c + 1 .. s OBVIOUS
  <2>5. (k < a <=> x <= s) /\ (k < b <=> x <= c) BY <2>1, <2>2
  <2> HIDE DEF x, a, b, completed
  <2> QED BY <1>1, <1>4, <2>3, <2>4, <2>5
<1>6. completed \subseteq Nat BY <1>1
<1> HIDE DEF a, b, completed
<1>7. Most(a - b, 1) = IF a - b > 1 THEN a - b ELSE 1 BY DEF Most
<1>8. ASSUME NEW i \in NeededItems(r) PROVE i \in 0 .. WorkCount(r) - 1
  <2>1. CASE i = 0 BY <1>3, <1>4, <1>7, <2>1
  <2>2. CASE i # 0
    <3>1. PICK g \in completed : i = g - b BY <1>2, <1>8, <2>2
    <3>2. g \in Nat /\ b <= g /\ g < a BY <1>5, <1>6
    <3> QED BY <1>3, <1>4, <1>7, <3>1, <3>2
  <2> QED BY <2>1, <2>2
<1>9. ASSUME NEW i \in 0 .. WorkCount(r) - 1 PROVE i \in NeededItems(r)
  <2>1. CASE i = 0 BY <1>2, <2>1
  <2>2. CASE i # 0
    <3>1. i \in Nat /\ i < a - b BY <1>3, <1>4, <1>7, <2>2
    <3>2. i + b \in Nat /\ b <= i + b /\ i + b < a /\ (i + b) - b = i BY <1>4, <3>1
    <3>3. i + b \in completed BY <1>5, <3>2
    <3> QED BY <1>2, <3>2, <3>3
  <2> QED BY <2>1, <2>2
<1> QED BY <1>8, <1>9

\* The items below the end are those the requests need, and no two are the same.
LEMMA ItemsAreNeeded ==
  ASSUME builder \in Builders, batch \in Batches
  PROVE  /\ \A w \in Nat : WorkEntry(w)[1] >= 0 <=> w < WorkStart[n]
         /\ \A w \in Nat : w < WorkStart[n] =>
              \E r \in 0 .. n - 1 : QueryLen(r) > 0 /\ WorkEntry(w) \in {r} \X NeededItems(r)
         /\ \A r \in 0 .. n - 1 : QueryLen(r) > 0 =>
              \A i \in NeededItems(r) :
                \E w \in Nat : w < WorkStart[n] /\ WorkEntry(w) = <<r, i>>
         /\ \A v, w \in Nat : v < WorkStart[n] /\ w < WorkStart[n] /\ v # w =>
              WorkEntry(v) # WorkEntry(w)
<1> DEFINE f == WorkStart
           N == n
           at(w) == LastStarting(f, w)
<1>1. /\ N \in Nat /\ f \in [0 .. N -> Nat] /\ f \in [0 .. N -> Int] /\ f[N] \in Nat
      /\ \A q \in 0 .. N - 1 : f[q + 1] = f[q] + WorkCount(q) /\ f[q] <= f[q + 1]
      /\ \A q \in 0 .. N - 1 : f[q] \in Nat /\ WorkCount(q) \in Nat
  <2>1. N \in Nat \ {0} BY BatchFacts
  <2>2. /\ f \in [0 .. N -> Nat]
        /\ \A q \in 0 .. N - 1 : f[q + 1] = f[q] + WorkCount(q) /\ f[q] <= f[q + 1]
    BY WorkStartFacts
  <2>3. \A q \in 0 .. N - 1 : WorkCount(q) \in Nat BY WorkCountFacts
  <2>4. N \in 0 .. N /\ \A q \in 0 .. N - 1 : q \in 0 .. N BY <2>1
  <2> HIDE DEF f, N
  <2>5. f[N] \in Nat /\ \A q \in 0 .. N - 1 : f[q] \in Nat BY <2>2, <2>4
  <2>6. f \in [0 .. N -> Int] BY <2>2
  <2>7. N \in Nat BY <2>1
  <2> QED BY <2>2, <2>3, <2>5, <2>6, <2>7, Zenon
<1>2. ASSUME NEW w \in Nat, w < f[N]
      PROVE  /\ at(w) \in 0 .. N - 1 /\ f[at(w)] <= w /\ w < f[at(w) + 1]
             /\ WorkEntry(w) = <<at(w), w - f[at(w)]>>
  BY <1>2, WorkOwner
<1>3. ASSUME NEW w \in Nat, ~(w < f[N]) PROVE WorkEntry(w) = <<-1, -1>>
  <2>1. w >= f[N] BY <1>1, <1>3
  <2> QED BY <2>1 DEF WorkEntry
<1>4. \A r \in 0 .. N - 1 : WorkCount(r) > 0 => QueryLen(r) > 0 BY DEF WorkCount
<1>5. \A r \in 0 .. N - 1 : QueryLen(r) > 0 => NeededItems(r) = 0 .. WorkCount(r) - 1
  BY NeededAreCounted
<1> HIDE DEF f, N, at
<1>6. ASSUME NEW w \in Nat PROVE WorkEntry(w)[1] >= 0 <=> w < f[N]
  <2>1. CASE w < f[N]
    <3>1. at(w) \in Int /\ at(w) >= 0 /\ WorkEntry(w) = <<at(w), w - f[at(w)]>>
      BY <1>1, <1>2, <2>1
    <3> QED BY <2>1, <3>1
  <2>2. CASE ~(w < f[N])
    <3>1. WorkEntry(w)[1] = -1 BY <1>3, <2>2
    <3> QED BY <2>2, <3>1
  <2> QED BY <2>1, <2>2
<1>7. ASSUME NEW w \in Nat, w < f[N]
      PROVE  \E r \in 0 .. N - 1 : QueryLen(r) > 0 /\ WorkEntry(w) \in {r} \X NeededItems(r)
  <2> DEFINE r == at(w)
             s == f[r]
             k == WorkCount(r)
  <2>1. r \in 0 .. N - 1 /\ s <= w /\ w < f[r + 1] /\ WorkEntry(w) = <<r, w - s>>
    BY <1>2, <1>7
  <2>2. s \in Nat /\ k \in Nat /\ f[r + 1] = s + k BY <1>1, <2>1
  <2> HIDE DEF r, s, k
  <2>3. w - s \in 0 .. k - 1 /\ k > 0 BY <2>1, <2>2
  <2>4. QueryLen(r) > 0 BY <1>4, <2>1, <2>3 DEF k
  <2>5. w - s \in NeededItems(r) BY <1>5, <2>1, <2>3, <2>4 DEF k
  <2> QED BY <2>1, <2>4, <2>5
<1>8. ASSUME NEW r \in 0 .. N - 1, QueryLen(r) > 0, NEW i \in NeededItems(r)
      PROVE  \E w \in Nat : w < f[N] /\ WorkEntry(w) = <<r, i>>
  <2> DEFINE s == f[r]
             k == WorkCount(r)
             w == s + i
  <2>1. s \in Nat /\ k \in Nat /\ f[r + 1] = s + k BY <1>1
  <2>2. i \in 0 .. k - 1 BY <1>5, <1>8
  <2> HIDE DEF s, k
  <2>3. w \in Nat /\ s <= w /\ w < f[r + 1] /\ w - s = i BY <2>1, <2>2
  <2> HIDE DEF w
  <2>4. w < f[N]
    <3>1. r + 1 \in 0 .. N /\ N \in 0 .. N /\ r + 1 <= N BY <1>1
    <3>2. f[r + 1] <= f[N] BY <1>1, <3>1, Ascends
    <3> QED BY <1>1, <2>1, <2>3, <3>2
  <2>5. /\ at(w) \in 0 .. N - 1 /\ f[at(w)] <= w /\ w < f[at(w) + 1]
        /\ WorkEntry(w) = <<at(w), w - f[at(w)]>>
    BY <1>2, <2>3, <2>4
  <2>6. at(w) = r
    <3>1. w \in Int /\ f[r] <= w BY <2>3 DEF s
    <3>2. \A q \in 0 .. N - 1 : f[q] <= f[q + 1] BY <1>1
    <3> QED BY <1>1, <2>3, <2>5, <3>1, <3>2, StepOverOnce
  <2>7. WorkEntry(w) = <<r, i>> BY <2>3, <2>5, <2>6 DEF s
  <2> QED BY <2>3, <2>4, <2>7
<1>9. ASSUME NEW v \in Nat, NEW w \in Nat, v < f[N], w < f[N], WorkEntry(v) = WorkEntry(w)
      PROVE  v = w
  <2>1. /\ at(v) \in 0 .. N - 1 /\ WorkEntry(v) = <<at(v), v - f[at(v)]>>
        /\ at(w) \in 0 .. N - 1 /\ WorkEntry(w) = <<at(w), w - f[at(w)]>>
    BY <1>2, <1>9
  <2>2. at(v) = at(w) /\ v - f[at(v)] = w - f[at(w)]
    <3> DEFINE a == at(v)
               b == at(w)
               x == v - f[at(v)]
               y == w - f[at(w)]
    <3>1. <<a, x>> = <<b, y>> BY <1>9, <2>1
    <3> HIDE DEF a, b, x, y
    <3>2. a = b /\ x = y BY <3>1
    <3> QED BY <3>2 DEF a, b, x, y
  <2> DEFINE s == f[at(v)]
  <2>3. s \in Nat /\ v - s = w - s BY <1>1, <2>1, <2>2
  <2> HIDE DEF s
  <2> QED BY <2>3
<1> QED BY <1>6, <1>7, <1>8, <1>9 DEF f, N

\* When all programs have run the work list holds each needed item once.
THEOREM ItemsOnce == Spec => []EveryItemOnce
<1>1. MetaInv => EveryItemOnce
  <2> DEFINE active == {w \in DOMAIN work : work[w][1] >= 0}
             busy == {q \in 0 .. n - 1 : QueryLen(q) > 0}
             f == WorkStart[n]
  <2> SUFFICES ASSUME MetaInv, Done, BuildsWork
               PROVE  /\ {work[w] : w \in active} = UNION {{r} \X NeededItems(r) : r \in busy}
                      /\ \A v, w \in active : v # w => work[v] # work[w]
    BY DEF EveryItemOnce
  <2>1. builder \in Builders /\ batch \in Batches /\ ran = Programs BY DEF MetaInv, Done
  <2>2. /\ DOMAIN work = 0 .. MaxNumWork - 1
        /\ \A w \in 0 .. MaxNumWork - 1 : work[w] = WorkEntry(w)
    BY <2>1, GridCovers DEF MetaInv
  <2>3. /\ \A w \in Nat : WorkEntry(w)[1] >= 0 <=> w < f
        /\ \A w \in Nat : w < f =>
             \E r \in 0 .. n - 1 : QueryLen(r) > 0 /\ WorkEntry(w) \in {r} \X NeededItems(r)
        /\ \A r \in 0 .. n - 1 : QueryLen(r) > 0 =>
             \A i \in NeededItems(r) : \E w \in Nat : w < f /\ WorkEntry(w) = <<r, i>>
        /\ \A v, w \in Nat : v < f /\ w < f /\ v # w => WorkEntry(v) # WorkEntry(w)
    BY <2>1, ItemsAreNeeded
  <2>4. f <= MaxNumWork /\ MaxNumWork \in Nat /\ f \in Nat
    <3>1. n \in Nat /\ WorkStart \in [0 .. n -> Nat] BY <2>1, BatchFacts, WorkStartFacts
    <3>2. f \in Nat BY <3>1
    <3> QED BY <2>1, <3>2, WorkFits
  <2> HIDE DEF f
  <2>5. \A w \in Nat : w < f => w \in DOMAIN work BY <2>2, <2>4
  <2>6. active = {w \in Nat : w < f} BY <2>2, <2>3, <2>4, <2>5
  <2>7. \A w \in active : w \in Nat /\ w < f /\ work[w] = WorkEntry(w) BY <2>2, <2>6
  <2> HIDE DEF active
  <2>8. ASSUME NEW w \in active PROVE work[w] \in UNION {{r} \X NeededItems(r) : r \in busy}
    <3>1. PICK r \in 0 .. n - 1 : QueryLen(r) > 0 /\ WorkEntry(w) \in {r} \X NeededItems(r)
      BY <2>3, <2>7
    <3> QED BY <2>7, <3>1
  <2>9. ASSUME NEW r \in busy, NEW i \in NeededItems(r) PROVE \E w \in active : work[w] = <<r, i>>
    <3>1. PICK w \in Nat : w < f /\ WorkEntry(w) = <<r, i>> BY <2>3
    <3>2. w \in active BY <2>6, <3>1
    <3> QED BY <2>7, <3>1, <3>2
  <2>10. \A v, w \in active : v # w => work[v] # work[w] BY <2>3, <2>7
  <2>11. {work[w] : w \in active} = UNION {{r} \X NeededItems(r) : r \in busy}
    <3> HIDE DEF busy
    <3>1. ASSUME NEW e \in UNION {{r} \X NeededItems(r) : r \in busy}
          PROVE  \E w \in active : work[w] = e
      <4>1. PICK r \in busy : e \in {r} \X NeededItems(r) OBVIOUS
      <4>2. PICK i \in NeededItems(r) : e = <<r, i>> BY <4>1
      <4> QED BY <2>9, <4>2
    <3> QED BY <2>8, <3>1
  <2> QED BY <2>10, <2>11
<1> QED BY <1>1, MetadataInvariance, PTL

-----------------------------------------------------------------------------
(* Where the rows go. *)

\* A slot is a block and a row of it, and nothing else has that slot.
LEMMA SlotOf ==
  ASSUME NEW d \in Nat \ {0}, NEW b \in Nat, NEW c \in Nat,
         NEW x \in 0 .. d - 1, NEW y \in 0 .. d - 1, b * d + x = c * d + y
  PROVE  b = c /\ x = y
<1> DEFINE m == b * d + x
<1>1. b * d = d * b /\ c * d = d * c /\ d * b \in Nat BY SMT
<1>2. m \in Nat /\ m = d * b + x /\ m = d * c + y BY <1>1
<1> HIDE DEF m
<1>3. m \div d = b /\ m % d = x BY <1>2, QuotientIs
<1>4. m \div d = c /\ m % d = y BY <1>2, QuotientIs
<1> QED BY <1>3, <1>4

\* The blocks of two requests differ.
LEMMA BlockOf ==
  ASSUME builder \in Builders, batch \in Batches,
         NEW r \in 0 .. n - 1, NEW q \in 0 .. n - 1,
         NEW c \in Nat, NEW e \in Nat, c < Columns, e < Columns,
         BlockTable(r, c) >= 0, BlockTable(r, c) = BlockTable(q, e)
  PROVE  r = q /\ c = e
<1>1. Columns \in Nat \ {0} /\ n \in Nat BY Sizes, BatchFacts
<1>2. r \in Nat /\ q \in Nat BY <1>1
<1>3. BlockTable(r, c) = 1 + r * Columns + c /\ BlockTable(q, e) = 1 + q * Columns + e
  BY DEF BlockTable
<1> DEFINE d == Columns
           x == r * d
           y == q * d
<1>4. d \in Nat \ {0} /\ c \in 0 .. d - 1 /\ e \in 0 .. d - 1 BY <1>1
<1>5. 1 + x + c = 1 + y + e BY <1>3
<1> HIDE DEF d
<1>6. x \in Int /\ y \in Int BY <1>2, <1>4
<1> HIDE DEF x, y
<1>7. x + c = y + e BY <1>5, <1>6
<1>8. r * d + c = q * d + e BY <1>7 DEF x, y
<1> QED BY <1>2, <1>4, <1>8, SlotOf

\* A position that ends a group is known from its group.
LEMMA GroupEnd ==
  ASSUME NEW p \in Nat, NEW d \in Nat \ {0}, (p + 1) % d = 0
  PROVE  p = d * (p \div d) + (d - 1)
<1> DEFINE m == (p + 1) \div d
<1>1. p + 1 = d * m /\ m \in Nat
  <2>1. p + 1 \in Nat OBVIOUS
  <2> QED BY <2>1, MultipleFacts, DivFacts
<1> HIDE DEF m
<1>2. p = d * (m - 1) + (d - 1) BY <1>1
<1>3. m - 1 \in Int /\ d - 1 \in 0 .. d - 1 BY <1>1
<1>4. p \div d = m - 1 BY <1>2, <1>3, QuotientIs
<1> QED BY <1>2, <1>4

\* In the ring: the blocks of two requests differ, and of one request only the last
\* rows, fewer than the ring has, are stored.
LEMMA RingSlots ==
  ASSUME builder \in Builders, batch \in Batches, Circular > 0,
         NEW s \in Nat, NEW t \in Nat, s < NumMapped, t < NumMapped, s # t,
         TokenEntry(s).slot >= 0, TokenEntry(t).slot >= 0
  PROVE  TokenEntry(s).slot # TokenEntry(t).slot
<1> DEFINE Pos(i) == SeqLen(Owner(i)) - QueryLen(Owner(i)) + i - Loc(Owner(i))
           d == Circular
           Block(i) == BlockTable(Owner(i), 0)
<1>1. d \in Nat \ {0} /\ Columns \in Nat /\ n \in Nat BY Sizes, BatchFacts
<1>2. ASSUME NEW i \in Nat, i < NumMapped, TokenEntry(i).slot >= 0
      PROVE  /\ Owner(i) \in 0 .. n - 1 /\ Pos(i) \in Nat
             /\ i < Loc(Owner(i) + 1) /\ i + d >= Loc(Owner(i) + 1)
             /\ Columns > 0 /\ Block(i) \in Nat
             /\ TokenEntry(i).slot = Block(i) * d + (Pos(i) % d)
  <2>1. /\ Owner(i) \in 0 .. n - 1 /\ Pos(i) \in Nat /\ i < Loc(Owner(i) + 1)
        /\ TokenEntry(i).slot = CircularSlot(Owner(i), i, Pos(i))
    BY <1>2, MappedEntry
  <2>2. Block(i) \in Int
    <3>1. Owner(i) \in Nat BY <1>1, <2>1
    <3> QED BY <1>1, <3>1 DEF BlockTable
  <2>3. CircularSlot(Owner(i), i, Pos(i)) # -1 BY <1>2, <2>1
  <2>4. /\ i + d >= Loc(Owner(i) + 1) /\ Columns > 0 /\ Block(i) >= 0
        /\ CircularSlot(Owner(i), i, Pos(i)) = Block(i) * d + (Pos(i) % d)
    BY <2>3 DEF CircularSlot
  <2> QED BY <2>1, <2>2, <2>4
<1>3. ASSUME NEW i \in Nat, NEW j \in Nat, i < j, i < NumMapped, j < NumMapped,
             TokenEntry(i).slot >= 0, TokenEntry(j).slot >= 0
      PROVE  TokenEntry(i).slot # TokenEntry(j).slot
  <2> SUFFICES ASSUME TokenEntry(i).slot = TokenEntry(j).slot PROVE FALSE OBVIOUS
  <2>1. /\ Owner(i) \in 0 .. n - 1 /\ Pos(i) \in Nat
        /\ i < Loc(Owner(i) + 1) /\ i + d >= Loc(Owner(i) + 1)
        /\ Columns > 0 /\ Block(i) \in Nat
        /\ TokenEntry(i).slot = Block(i) * d + (Pos(i) % d)
    BY <1>2, <1>3
  <2>2. /\ Owner(j) \in 0 .. n - 1 /\ Pos(j) \in Nat
        /\ j < Loc(Owner(j) + 1) /\ Block(j) \in Nat
        /\ TokenEntry(j).slot = Block(j) * d + (Pos(j) % d)
    BY <1>2, <1>3
  <2>3. Block(i) = Block(j) /\ Pos(i) % d = Pos(j) % d
    <3> DEFINE b == Block(i)
               c == Block(j)
               x == Pos(i) % d
               y == Pos(j) % d
    <3>1. x \in 0 .. d - 1 /\ y \in 0 .. d - 1
      <4> HIDE DEF d, Pos
      <4> QED BY <1>1, <2>1, <2>2, DivFacts
    <3>2. b * d + x = c * d + y /\ b \in Nat /\ c \in Nat BY <2>1, <2>2
    <3> HIDE DEF b, c, x, y, d
    <3>3. b = c /\ x = y BY <1>1, <3>1, <3>2, SlotOf
    <3> QED BY <3>3 DEF b, c, x, y
  <2>4. Owner(i) = Owner(j)
    <3>1. 0 \in Nat /\ 0 < Columns /\ BlockTable(Owner(i), 0) >= 0
          /\ BlockTable(Owner(i), 0) = BlockTable(Owner(j), 0)
      BY <1>1, <2>1, <2>3
    <3> QED BY <2>1, <2>2, <3>1, BlockOf
  <2> DEFINE r == Owner(i)
             a == SeqLen(r)
             q == QueryLen(r)
             l == Loc(r)
             u == Loc(r + 1)
  <2>5. a \in Nat /\ q \in Nat /\ l \in Nat /\ u \in Nat
    <3>1. r \in 0 .. n /\ r + 1 \in 0 .. n BY <1>1, <2>1
    <3> HIDE DEF r
    <3>2. l \in Nat /\ u \in Nat BY <3>1, BatchFacts
    <3>3. r \in 0 .. n - 1 BY <2>1 DEF r
    <3>4. a \in Nat /\ q \in Nat BY <3>3, BatchFacts
    <3> QED BY <3>2, <3>4
  <2>6. Pos(i) = a - q + i - l /\ Pos(j) = a - q + j - l BY <2>4
  <2>7. j < u /\ i + d >= u BY <2>1, <2>2, <2>4
  <2> DEFINE x == Pos(i)
             y == Pos(j)
  <2>8. x = a - q + i - l /\ y = a - q + j - l /\ x \in Nat /\ y \in Nat /\ x % d = y % d
    BY <2>1, <2>2, <2>3, <2>6
  <2> HIDE DEF x, y, a, q, l, u, d
  <2>9. x < y /\ y < x + d BY <1>1, <1>3, <2>5, <2>7, <2>8
  <2> QED BY <1>1, <2>8, <2>9, DistinctSlots
<1> QED BY <1>3

\* Among the compressed rows: a slot tells its block, hence the request and the
\* column, and its row, hence the group, and only a group's last row is stored.
LEMMA CompressedSlots ==
  ASSUME builder \in Builders, batch \in Batches, ~(Circular > 0), Ratio # 1,
         NEW s \in Nat, NEW t \in Nat, s < NumMapped, t < NumMapped,
         TokenEntry(s).slot >= 0, TokenEntry(t).slot >= 0,
         TokenEntry(s).slot = TokenEntry(t).slot
  PROVE  s = t
<1> DEFINE Pos(i) == SeqLen(Owner(i)) - QueryLen(Owner(i)) + i - Loc(Owner(i))
           d == Storage
           R == Ratio
           Row(i) == Pos(i) \div R
           Column(i) == Row(i) \div d
           Block(i) == BlockTable(Owner(i), Column(i))
<1>1. /\ d \in Nat \ {0} /\ R \in Nat \ {0} /\ Columns \in Nat /\ n \in Nat
  BY Sizes, BatchFacts
<1>2. ASSUME NEW i \in Nat, i < NumMapped, TokenEntry(i).slot >= 0
      PROVE  /\ Owner(i) \in 0 .. n - 1 /\ Pos(i) \in Nat
             /\ (Pos(i) + 1) % R = 0 /\ Row(i) \in Nat /\ Column(i) \in Nat
             /\ Column(i) < Columns /\ Block(i) \in Nat
             /\ Row(i) = d * Column(i) + (Row(i) % d) /\ Row(i) % d \in 0 .. d - 1
             /\ TokenEntry(i).slot = Block(i) * d + (Row(i) % d)
  <2>1. /\ Owner(i) \in 0 .. n - 1 /\ Pos(i) \in Nat
        /\ TokenEntry(i).slot = CompressedSlot(Owner(i), i, Pos(i))
    BY <1>2, MappedEntry
  <2>2. CompressedSlot(Owner(i), i, Pos(i)) # -1 BY <1>2, <2>1
  <2>3. /\ (Pos(i) + 1) % R = 0 /\ Column(i) < Columns /\ Block(i) >= 0
        /\ CompressedSlot(Owner(i), i, Pos(i)) = Block(i) * d + (Row(i) % d)
    BY <2>2 DEF CompressedSlot
  <2>4. Row(i) \in Nat
    <3> HIDE DEF Pos, R
    <3> QED BY <1>1, <2>1, DivFacts
  <2>5. Column(i) \in Nat /\ Row(i) = d * Column(i) + (Row(i) % d) /\ Row(i) % d \in 0 .. d - 1
    <3> HIDE DEF Row, d
    <3> QED BY <1>1, <2>4, DivFacts
  <2>6. Block(i) \in Int
    <3>1. Owner(i) \in Nat BY <1>1, <2>1
    <3> HIDE DEF Column
    <3> QED BY <1>1, <2>5, <3>1 DEF BlockTable
  <2> HIDE DEF Pos, Row, Column, Block, d, R
  <2> QED BY <2>1, <2>3, <2>4, <2>5, <2>6
<1>3. /\ Owner(s) \in 0 .. n - 1 /\ Pos(s) \in Nat
      /\ (Pos(s) + 1) % R = 0 /\ Row(s) \in Nat /\ Column(s) \in Nat
      /\ Column(s) < Columns /\ Block(s) \in Nat
      /\ Row(s) = d * Column(s) + (Row(s) % d) /\ Row(s) % d \in 0 .. d - 1
      /\ TokenEntry(s).slot = Block(s) * d + (Row(s) % d)
  BY <1>2
<1>4. /\ Owner(t) \in 0 .. n - 1 /\ Pos(t) \in Nat
      /\ (Pos(t) + 1) % R = 0 /\ Row(t) \in Nat /\ Column(t) \in Nat
      /\ Column(t) < Columns /\ Block(t) \in Nat
      /\ Row(t) = d * Column(t) + (Row(t) % d) /\ Row(t) % d \in 0 .. d - 1
      /\ TokenEntry(t).slot = Block(t) * d + (Row(t) % d)
  BY <1>2
<1>5. Block(s) = Block(t) /\ Row(s) % d = Row(t) % d
  <2> DEFINE b == Block(s)
             c == Block(t)
             x == Row(s) % d
             y == Row(t) % d
  <2>1. /\ b \in Nat /\ c \in Nat /\ x \in 0 .. d - 1 /\ y \in 0 .. d - 1
        /\ b * d + x = c * d + y
    <3> HIDE DEF Row, Column, d
    <3> QED BY <1>3, <1>4
  <2> HIDE DEF b, c, x, y, d
  <2>2. b = c /\ x = y BY <1>1, <2>1, SlotOf
  <2> QED BY <2>2 DEF b, c, x, y
<1>6. Owner(s) = Owner(t) /\ Column(s) = Column(t)
  <2> HIDE DEF Column, Row, Pos
  <2>1. BlockTable(Owner(s), Column(s)) >= 0
        /\ BlockTable(Owner(s), Column(s)) = BlockTable(Owner(t), Column(t))
    BY <1>3, <1>5
  <2> QED BY <1>3, <1>4, <2>1, BlockOf
<1>7. Row(s) = Row(t)
  <2> HIDE DEF Row, Column, d
  <2> QED BY <1>3, <1>4, <1>5, <1>6
<1>8. Pos(s) = Pos(t)
  <2>1. Pos(s) = R * Row(s) + (R - 1) /\ Pos(t) = R * Row(t) + (R - 1)
    <3> HIDE DEF Pos, R
    <3> QED BY <1>1, <1>3, <1>4, GroupEnd
  <2> HIDE DEF Row, Pos, R
  <2> QED BY <1>7, <2>1
<1>9. /\ SeqLen(Owner(s)) \in Nat /\ QueryLen(Owner(s)) \in Nat /\ Loc(Owner(s)) \in Nat
  <2> DEFINE r == Owner(s)
  <2>1. r \in 0 .. n - 1 /\ r \in 0 .. n BY <1>1, <1>3
  <2> HIDE DEF r
  <2>2. SeqLen(r) \in Nat /\ QueryLen(r) \in Nat /\ Loc(r) \in Nat BY <2>1, BatchFacts
  <2> QED BY <2>2 DEF r
<1> DEFINE a == SeqLen(Owner(s))
           q == QueryLen(Owner(s))
           l == Loc(Owner(s))
<1>10. a \in Nat /\ q \in Nat /\ l \in Nat /\ a - q + s - l = a - q + t - l
  BY <1>6, <1>8, <1>9
<1> HIDE DEF a, q, l
<1> QED BY <1>10

\* In no state do two rows of a step have one slot.
THEOREM NoSharedSlot == Spec => []SlotsAreDistinct
<1>1. MetaInv => SlotsAreDistinct
  <2> SUFFICES ASSUME MetaInv, NEW s \in DOMAIN tokens, NEW t \in DOMAIN tokens,
                      s # t, Stored(s), Stored(t)
               PROVE  tokens[s].slot # tokens[t].slot
    BY DEF SlotsAreDistinct
  <2>1. builder \in Builders /\ batch \in Batches BY DEF MetaInv
  <2>2. s \in Nat /\ t \in Nat BY <2>1, GridCovers DEF MetaInv
  <2>3. tokens[s] = TokenEntry(s) /\ tokens[t] = TokenEntry(t) BY DEF MetaInv, Stored
  <2>4. TokenEntry(s).slot >= 0 /\ TokenEntry(t).slot >= 0 BY <2>3 DEF Stored
  <2>5. s < NumMapped /\ t < NumMapped BY <2>1, <2>2, <2>4, UnmappedEntry
  <2>6. CASE Circular > 0 BY <2>1, <2>2, <2>3, <2>4, <2>5, <2>6, RingSlots
  <2>7. CASE ~(Circular > 0) /\ Ratio # 1
    BY <2>1, <2>2, <2>3, <2>4, <2>5, <2>7, CompressedSlots
  <2>8. CASE ~(Circular > 0) /\ ~(Ratio # 1)
    <3>1. TokenEntry(s).slot = CommonSlot(s) /\ TokenEntry(t).slot = CommonSlot(t)
      BY <2>8 DEF TokenEntry
    <3>2. CommonSlot(s) = s /\ CommonSlot(t) = t BY <2>5 DEF CommonSlot
    <3> QED BY <2>3, <3>1, <3>2
  <2> QED BY <2>6, <2>7, <2>8
<1> QED BY <1>1, MetadataInvariance, PTL
=============================================================================
