------------------------- MODULE QSAAttention_proofs -------------------------
(***************************************************************************)
(* QSAAttention's invariants for every number of requests, size of pages,  *)
(* launch profile, width of the selection and number of drafts.            *)
(***************************************************************************)
EXTENDS QSAAttention, Arithmetic, FiniteSetTheorems, FunctionTheorems,
        SequenceTheorems

Logical == 0 .. Width - 1
InPage == 0 .. PageSize - 1
Entry == Tokens \union {Garbage}
Splits(n) == 0 .. NumSplits(n) - 1

-----------------------------------------------------------------------------
(* The members of a finite set of integers in their order. *)

\* More members are below a greater one.
LEMMA BelowGrows ==
  ASSUME NEW S \in SUBSET Int, IsFiniteSet(S), NEW p \in S, NEW q \in S, p < q
  PROVE  Cardinality({x \in S : x < p}) < Cardinality({x \in S : x < q})
<1> DEFINE A == {x \in S : x < p}
           B == {x \in S : x < q}
<1>1. IsFiniteSet(A) /\ IsFiniteSet(B) /\ Cardinality(A) \in Nat /\ Cardinality(B) \in Nat
  <2>1. A \in SUBSET S /\ B \in SUBSET S OBVIOUS
  <2> HIDE DEF A, B
  <2> QED BY <2>1, FS_Subset, FS_CardinalityType
<1>2. p \notin A /\ A \union {p} \in SUBSET B
  <2>1. p \in Int /\ q \in Int /\ p \in B OBVIOUS
  <2>2. ASSUME NEW x \in A PROVE x \in B /\ x # p
    <3>1. x \in S /\ x \in Int /\ x < p OBVIOUS
    <3> QED BY <2>1, <3>1
  <2> QED BY <2>1, <2>2
<1> HIDE DEF A, B
<1>3. Cardinality(A \union {p}) = Cardinality(A) + 1 BY <1>1, <1>2, FS_AddElement
<1>4. Cardinality(A \union {p}) <= Cardinality(B) BY <1>1, <1>2, FS_Subset
<1>5. Cardinality(A) < Cardinality(B) BY <1>1, <1>3, <1>4
<1> QED BY <1>5 DEF A, B

\* Nth enumerates the set: every member once, none but members.
LEMMA NthFacts ==
  ASSUME NEW S \in SUBSET Int, IsFiniteSet(S)
  PROVE  /\ Cardinality(S) \in Nat
         /\ \A k \in 0 .. Cardinality(S) - 1 :
              Nth(S, k) \in S /\ Cardinality({x \in S : x < Nth(S, k)}) = k
         /\ \A q \in S : \E k \in 0 .. Cardinality(S) - 1 : Nth(S, k) = q
<1> DEFINE rank == [q \in S |-> Cardinality({x \in S : x < q})]
           n == Cardinality(S)
           T == 0 .. n - 1
<1>1. n \in Nat BY FS_CardinalityType
<1>2. ASSUME NEW q \in S PROVE rank[q] \in T
  <2> DEFINE B == {x \in S : x < q}
  <2>1. B \in SUBSET S /\ B # S OBVIOUS
  <2> HIDE DEF B
  <2>2. /\ IsFiniteSet(B) /\ Cardinality(B) <= n /\ (n = Cardinality(B) => S = B)
        /\ Cardinality(B) \in Nat
    BY <2>1, FS_Subset, FS_CardinalityType
  <2>3. Cardinality(B) \in T BY <1>1, <2>1, <2>2
  <2> QED BY <2>3 DEF B
<1>3. ASSUME NEW p \in S, NEW q \in S, rank[p] = rank[q] PROVE p = q
  <2>1. p < q => rank[p] < rank[q] BY BelowGrows
  <2>2. q < p => rank[q] < rank[p] BY BelowGrows
  <2> HIDE DEF rank
  <2>3. rank[p] \in Int /\ rank[q] \in Int BY <1>1, <1>2
  <2>4. p \in Int /\ q \in Int OBVIOUS
  <2> QED BY <1>3, <2>1, <2>2, <2>3, <2>4
<1>4. rank \in Surjection(S, T)
  <2>1. rank \in [S -> T] BY <1>2
  <2>2. IsFiniteSet(T) /\ Cardinality(T) = n BY <1>1, FS_Interval
  <2> HIDE DEF rank, T
  <2>3. rank \in Injection(S, T) BY <1>3, <2>1, Fun_IsInj
  <2> QED BY <2>2, <2>3, FS_Injection
<1>5. \A k \in T : \E q \in S : rank[q] = k
  <2> HIDE DEF rank, T
  <2> QED BY <1>4, Fun_SurjectionProperties
<1>6. ASSUME NEW k \in T PROVE Nth(S, k) \in S /\ rank[Nth(S, k)] = k
  <2>1. \E q \in S : Cardinality({x \in S : x < q}) = k BY <1>5
  <2>2. Nth(S, k) \in S /\ Cardinality({x \in S : x < Nth(S, k)}) = k BY <2>1 DEF Nth
  <2> QED BY <2>2
<1>7. ASSUME NEW q \in S PROVE \E k \in T : Nth(S, k) = q
  <2>1. rank[q] \in T BY <1>2
  <2> HIDE DEF rank, T
  <2>2. Nth(S, rank[q]) \in S /\ rank[Nth(S, rank[q])] = rank[q] BY <1>6, <2>1
  <2>3. Nth(S, rank[q]) = q BY <1>3, <2>2
  <2> QED BY <2>1, <2>3
<1>8. \A k \in T : Nth(S, k) \in S /\ Cardinality({x \in S : x < Nth(S, k)}) = k
  BY <1>6
<1> QED BY <1>1, <1>7, <1>8

-----------------------------------------------------------------------------
(* Pages, rows and block scales. *)

\* The constants, for the provers.
LEMMA Sizes ==
  /\ NumRequests \in Nat \ {0} /\ PageSize \in Nat \ {0} /\ Width \in Nat \ {0}
  /\ ScaleDim \in Nat /\ TopK \in Nat \ {0} /\ KVHeads \in Nat \ {0}
  /\ NumDrafts \in Nat /\ MaxLen \in Nat /\ MaxChunk \in Nat /\ MaxRows \in Nat
  /\ MaxLen + NumDrafts <= Width * PageSize
  /\ Request \subseteq Nat /\ NoPosition \in Int /\ NoPosition \notin Nat
  BY ConstantsAssumption DEF Request, NoPosition

\* A position the block table has a page for lies in one row of one page.
LEMMA PositionFacts ==
  ASSUME NEW p \in Nat, p < Width * PageSize
  PROVE  /\ p \div PageSize \in Logical /\ p % PageSize \in InPage
         /\ p = PageSize * (p \div PageSize) + (p % PageSize)
<1>1. /\ p \div PageSize \in Nat /\ p % PageSize \in 0 .. PageSize - 1
      /\ p = PageSize * (p \div PageSize) + (p % PageSize)
  BY Sizes, DivFacts
<1>2. p \div PageSize < Width
  <2> SUFFICES ASSUME p \div PageSize > Width - 1 PROVE FALSE BY <1>1, Sizes
  <2>1. PageSize * (p \div PageSize) >= PageSize * (Width - 1) + PageSize
    BY <1>1, Sizes, MulGap
  <2>2. PageSize * (Width - 1) + PageSize = Width * PageSize BY Sizes
  <2> HIDE DEF InPage
  <2> QED BY <1>1, <2>1, <2>2, Sizes
<1> QED BY <1>1, <1>2, Sizes DEF Logical, InPage

\* The block scales a row is decoded with are stored in its own cells.
LEMMA CoordIsOwnCell ==
  ASSUME NEW t \in InPage, NEW s \in 0 .. ScaleDim - 1
  PROVE  ScaleCoord(t, s) \in ScaleRegion /\ ScaleCoord(t, s) \in ScaleCells(t)
<1> DEFINE d == ScaleDim \div 4
           j == s \div d
           m == s % d
<1>1. ScaleDim = 4 * d /\ d \in Nat \ {0}
  BY ConstantsAssumption
<1>2. /\ PageSize % 4 = 0 /\ PageSize \in Nat \ {0} /\ t \in Nat /\ t < PageSize
      /\ s \in Nat /\ s < ScaleDim
  BY ConstantsAssumption DEF InPage
<1> HIDE DEF d
<1>3. j \in Nat /\ m \in 0 .. d - 1 /\ s = d * j + m BY <1>1, <1>2, DivFacts
<1> DEFINE c1 == (t \div 4) * 4 + j
           c2 == m * 4 + (t % 4)
<1>4. ScaleCoord(t, s) = <<c1, c2>> BY DEF ScaleCoord, d
<1> HIDE DEF j, m
<1>5. j <= 3
  <2> SUFFICES ASSUME j > 3 PROVE FALSE BY <1>3
  <2>1. d * j >= d * 3 + d BY <1>1, <1>3, MulGap
  <2> QED BY <1>1, <1>2, <1>3, <2>1
<1>6. c1 \in 0 .. PageSize - 1 /\ c1 \div 4 = t \div 4 BY <1>2, <1>3, <1>5
<1>7. c2 \in 0 .. ScaleDim - 1 /\ c2 % 4 = t % 4
  <2>1. m * 4 <= 4 * d - 4 BY <1>1, <1>3
  <2> QED BY <1>1, <1>2, <1>3, <2>1
<1> HIDE DEF c1, c2
<1> QED BY <1>4, <1>6, <1>7 DEF ScaleCells, ScaleRegion

\* Every cell belongs to one row of the page.
LEMMA CellOwner ==
  ASSUME NEW c \in ScaleRegion
  PROVE  /\ \E t \in InPage : c \in ScaleCells(t)
         /\ \A t, u \in InPage : c \in ScaleCells(t) /\ c \in ScaleCells(u) => t = u
<1>1. PICK x \in InPage, y \in 0 .. ScaleDim - 1 : c = <<x, y>> BY DEF ScaleRegion, InPage
<1>2. PageSize % 4 = 0 /\ PageSize \in Nat \ {0} /\ x \in Nat /\ x < PageSize /\ y \in Nat
  BY ConstantsAssumption DEF InPage
<1>3. c[1] = x /\ c[2] = y BY <1>1
<1> DEFINE t0 == (x \div 4) * 4 + (y % 4)
<1>4. t0 \in InPage /\ t0 \div 4 = x \div 4 /\ t0 % 4 = y % 4 BY <1>2 DEF InPage
<1> HIDE DEF t0
<1>5. c \in ScaleCells(t0) BY <1>3, <1>4 DEF ScaleCells
<1>6. ASSUME NEW t \in InPage, NEW u \in InPage, c \in ScaleCells(t), c \in ScaleCells(u)
      PROVE  t = u
  <2>1. x \div 4 = t \div 4 /\ y % 4 = t % 4 /\ x \div 4 = u \div 4 /\ y % 4 = u % 4
    BY <1>3, <1>6 DEF ScaleCells
  <2>2. t \in Nat /\ u \in Nat BY <1>2 DEF InPage
  <2> QED BY <1>2, <2>1, <2>2
<1> QED BY <1>4, <1>5, <1>6

-----------------------------------------------------------------------------
(* Launch profiles and splits. *)

\* Every batch has a profile.
LEMMA ProfileFacts ==
  ASSUME NEW n \in 0 .. MaxRows
  PROVE  Profile(n).tile \in Nat \ {0} /\ Profile(n).splits \in Nat \ {0}
<1> DEFINE P == [upto : Nat, tile : Nat \ {0}, splits : Nat \ {0}]
           fits == {i \in DOMAIN Profiles : n * KVHeads <= Profiles[i].upto}
           last == Len(Profiles)
<1>1. /\ last \in Nat \ {0} /\ DOMAIN Profiles = 1 .. last
      /\ \A i \in 1 .. last : Profiles[i] \in P
      /\ MaxRows * KVHeads <= Profiles[last].upto
  <2>1. /\ Profiles \in Seq(P) /\ Profiles # <<>>
        /\ MaxRows * KVHeads <= Profiles[last].upto
    BY ConstantsAssumption
  <2> HIDE DEF P
  <2>2. last \in Nat /\ DOMAIN Profiles = 1 .. last /\ \A i \in 1 .. last : Profiles[i] \in P
    BY <2>1, LenProperties, ElementOfSeq
  <2>3. last # 0 BY <2>1, EmptySeq
  <2> QED BY <2>1, <2>2, <2>3
<1>2. n * KVHeads <= MaxRows * KVHeads BY Sizes
<1>3. last \in fits
  <2>1. last \in 1 .. last /\ Profiles[last].upto \in Nat BY <1>1
  <2>2. n * KVHeads \in Nat /\ MaxRows * KVHeads \in Nat BY Sizes
  <2> HIDE DEF last, P
  <2> QED BY <1>1, <1>2, <2>1, <2>2
<1>4. fits \in SUBSET Nat BY <1>1
<1> HIDE DEF P, last
<1>5. \E i \in fits : \A j \in fits : i <= j
  <2> HIDE DEF fits
  <2> QED BY <1>3, <1>4, LeastElement
<1> DEFINE i0 == CHOOSE i \in fits : \A j \in fits : i <= j
<1>6. i0 \in fits BY <1>5
<1>7. i0 \in 1 .. last BY <1>1, <1>6
<1>8. Profile(n) = Profiles[i0] BY DEF Profile
<1> HIDE DEF i0
<1>9. Profile(n) \in P BY <1>1, <1>7, <1>8
<1> QED BY <1>9 DEF P

\* There are a tile's columns in a tile and at least one tile.
LEMMA TileFacts ==
  ASSUME NEW n \in 0 .. MaxRows
  PROVE  /\ BlockN(n) \in Nat \ {0} /\ NumTiles(n) \in Nat \ {0}
         /\ \A c \in 0 .. TopK - 1 : c \div BlockN(n) \in 0 .. NumTiles(n) - 1
<1> DEFINE b == BlockN(n)
           top == TopK + b - 1
<1>1. b \in Nat \ {0} BY ProfileFacts, ConstantsAssumption DEF BlockN
<1>2. NumTiles(n) = top \div b BY DEF NumTiles, Cdiv
<1> HIDE DEF b
<1>3. top \in Nat /\ TopK \in Nat \ {0} BY <1>1, Sizes
<1>4. /\ top \div b \in Nat /\ top % b \in 0 .. b - 1
      /\ top = b * (top \div b) + (top % b)
  BY <1>1, <1>3, DivFacts
<1>5. top \div b # 0
  <2> SUFFICES ASSUME top \div b = 0 PROVE FALSE OBVIOUS
  <2>1. b * (top \div b) = 0 BY <1>1
  <2> QED BY <1>1, <1>3, <1>4, <2>1
<1>6. ASSUME NEW c \in 0 .. TopK - 1 PROVE c \div b \in 0 .. (top \div b) - 1
  <2> DEFINE q == c \div b
             t == top \div b
  <2>0. c \in Nat BY <1>3
  <2>1. q \in Nat /\ c % b \in 0 .. b - 1 /\ c = b * q + (c % b)
    BY <1>1, <2>0, DivFacts
  <2>2. t \in Nat /\ top % b \in 0 .. b - 1 /\ top = b * t + (top % b) BY <1>4
  <2> HIDE DEF q, t
  <2>3. ASSUME q >= t PROVE FALSE
    <3>1. b * q >= b * t
      <4>1. CASE q = t BY <4>1, <2>1, <2>2, <1>1
      <4>2. CASE q > t
        <5>1. b * q >= b * t + b BY <1>1, <2>1, <2>2, <4>2, MulGap
        <5> QED BY <1>1, <2>1, <2>2, <5>1
      <4> QED BY <2>1, <2>2, <2>3, <4>1, <4>2
    <3> QED BY <1>1, <1>3, <2>0, <2>1, <2>2, <3>1
  <2> QED BY <2>1, <2>2, <2>3 DEF q, t
<1> QED BY <1>1, <1>2, <1>4, <1>5, <1>6 DEF b

\* Doubling a power of two gives one.
LEMMA PowerDoubles ==
  ASSUME NEW m \in Nat \ {0}, PowerOfTwo(m)
  PROVE  PowerOfTwo(2 * m)
<1> SUFFICES ASSUME NEW d \in 2 .. 2 * m, (2 * m) % d = 0, d % 2 = 1 PROVE FALSE
  BY DEF PowerOfTwo
<1> DEFINE e == d \div 2
           mm == 2 * m
           k == mm \div d
<1>1. d \in Nat \ {0} /\ mm \in Nat /\ mm % d = 0 OBVIOUS
<1>2. k \in Nat /\ 2 * m = d * k
  <2> HIDE DEF mm
  <2>1. k \in Nat /\ mm = d * k BY <1>1, DivFacts, MultipleFacts
  <2> QED BY <2>1 DEF mm
<1>3. e \in Nat /\ d = 2 * e + 1 OBVIOUS
<1> DEFINE h == m - e * k
<1> HIDE DEF k, e
<1>4. d * k = 2 * (e * k) + k /\ e * k \in Nat BY <1>2, <1>3
<1>5. h \in Int /\ k = 2 * h BY <1>2, <1>4
<1> HIDE DEF h
<1>6. h \in Nat \ {0}
  <2>1. k # 0
    <3> SUFFICES ASSUME k = 0 PROVE FALSE OBVIOUS
    <3>1. d * k = 0 BY <1>1
    <3> QED BY <1>2, <3>1
  <2> QED BY <1>2, <1>5, <2>1
<1>7. m = d * h
  <2>1. d * k = 2 * (d * h) /\ d * h \in Nat BY <1>1, <1>5, <1>6
  <2> QED BY <1>2, <2>1
<1>8. m % d = 0 BY <1>1, <1>6, <1>7, MultipleOf
<1>9. d \in 2 .. m
  <2>1. d * h >= d * 1 BY <1>1, <1>6
  <2> QED BY <1>7, <2>1
<1> QED BY <1>8, <1>9 DEF PowerOfTwo

\* The greatest power of two up to a number of tiles is a number of splits.
LEMMA UsefulSplits ==
  ASSUME NEW tiles \in Nat \ {0}
  PROVE  MaxUsefulSplits(tiles) \in 1 .. tiles
<1> DEFINE S == {p \in 1 .. tiles : PowerOfTwo(p)}
           Left == {tiles - p : p \in S}
<1>1. 1 \in S BY DEF PowerOfTwo
<1>2. PICK m \in S : \A p \in S : p <= m
  <2>1. Left \in SUBSET Nat /\ tiles - 1 \in Left BY <1>1
  <2>2. PICK l \in Left : \A k \in Left : l <= k
    <3> HIDE DEF Left
    <3> QED BY <2>1, LeastElement
  <2>3. PICK m \in S : l = tiles - m BY <2>2
  <2>4. \A p \in S : tiles - m <= tiles - p BY <2>2, <2>3
  <2> QED BY <2>3, <2>4
<1>3. m \in 1 .. tiles /\ PowerOfTwo(m) BY <1>2
<1>4. tiles < 2 * m
  <2> SUFFICES ASSUME 2 * m <= tiles PROVE FALSE BY <1>3
  <2>1. PowerOfTwo(2 * m) BY <1>3, PowerDoubles
  <2>2. 2 * m \in S BY <1>3, <2>1
  <2> QED BY <1>2, <1>3, <2>2
<1> QED BY <1>3, <1>4 DEF MaxUsefulSplits

\* There is at least one split.
LEMMA NumSplitsFacts ==
  ASSUME NEW n \in 0 .. MaxRows
  PROVE  NumSplits(n) \in Nat \ {0}
  BY ProfileFacts, TileFacts, UsefulSplits DEF NumSplits

\* The splits share out the tiles: each is in one split and no other.
LEMMA SplitsShareTiles ==
  ASSUME NEW tiles \in Nat \ {0}, NEW n \in Nat \ {0}, NEW t \in 0 .. tiles - 1
  PROVE  /\ \E s \in 0 .. n - 1 : t \in SplitTiles(s, tiles, n)
         /\ \A r, s \in 0 .. n - 1 :
              t \in SplitTiles(r, tiles, n) /\ t \in SplitTiles(s, tiles, n) => r = s
<1> DEFINE f == [s \in 0 .. n |-> (s * tiles) \div n]
<1>1. \A s \in 0 .. n : s * tiles \in Nat OBVIOUS
<1>2. \A s \in 0 .. n : (s * tiles) \div n \in Nat
  <2> TAKE s \in 0 .. n
  <2> DEFINE a == s * tiles
  <2>1. a \in Nat BY <1>1
  <2> HIDE DEF a
  <2>2. a \div n \in Nat BY <2>1, DivFacts
  <2> QED BY <2>2 DEF a
<1>3. f \in [0 .. n -> Int] BY <1>2
<1>4. f[0] = 0
  <2>1. 0 * tiles = n * 0 OBVIOUS
  <2>2. (n * 0) \div n = 0 BY ExactQuotient
  <2> QED BY <2>1, <2>2
<1>5. f[n] = tiles
  <2>1. (n * tiles) \div n = tiles BY ExactQuotient
  <2> QED BY <2>1
<1>6. ASSUME NEW r \in 0 .. n - 1 PROVE f[r] <= f[r + 1]
  <2> DEFINE a == r * tiles
             b == (r + 1) * tiles
  <2>1. a \in Nat /\ b \in Nat /\ a <= b
    <3>1. (r + 1) * tiles = r * tiles + tiles /\ r * tiles \in Nat OBVIOUS
    <3> QED BY <3>1
  <2>2. f[r] = a \div n /\ f[r + 1] = b \div n OBVIOUS
  <2> HIDE DEF a, b, f
  <2> QED BY <2>1, <2>2, DivAscends
<1>7. ASSUME NEW s \in 0 .. n - 1
      PROVE  t \in SplitTiles(s, tiles, n) <=> f[s] <= t /\ t < f[s + 1]
  <2>1. f[s] \in Int /\ f[s + 1] \in Int /\ s \in 0 .. n /\ s + 1 \in 0 .. n BY <1>3
  <2>2. SplitTiles(s, tiles, n) = f[s] .. f[s + 1] - 1 BY <2>1 DEF SplitTiles
  <2> HIDE DEF f
  <2> QED BY <2>1, <2>2
<1> HIDE DEF f
<1>8. \E s \in 0 .. n - 1 : f[s] <= t /\ t < f[s + 1]
  <2>1. n \in Nat /\ t \in Int /\ f[0] <= t /\ t < f[n] BY <1>4, <1>5
  <2> QED BY <1>3, <2>1, StepOver
<1>9. ASSUME NEW r \in 0 .. n - 1, NEW s \in 0 .. n - 1,
             f[r] <= t, t < f[r + 1], f[s] <= t, t < f[s + 1]
      PROVE  r = s
  <2>1. n \in Nat /\ t \in Int OBVIOUS
  <2>2. \A k \in 0 .. n - 1 : f[k] <= f[k + 1] BY <1>6
  <2> QED BY <1>3, <1>9, <2>1, <2>2, StepOverOnce
<1> QED BY <1>7, <1>8, <1>9

\* The columns of a split are those whose tile it has.
LEMMA ColumnsByTile ==
  ASSUME NumRows \in 0 .. MaxRows, NEW s \in Splits(NumRows), NEW c \in 0 .. TopK - 1
  PROVE  c \in Columns(s) <=>
           c \div BlockN(NumRows) \in SplitTiles(s, NumTiles(NumRows), NumSplits(NumRows))
<1> DEFINE b == BlockN(NumRows)
           T == SplitTiles(s, NumTiles(NumRows), NumSplits(NumRows))
<1>1. b \in Nat \ {0} BY TileFacts
<1>2. T \subseteq Int BY DEF SplitTiles
<1>3. c \in Nat BY Sizes
<1>4. Columns(s) = UNION {{t * b + x : x \in 0 .. b - 1} : t \in T} BY DEF Columns
<1> HIDE DEF b, T
<1>5. c \in Columns(s) <=> \E t \in T : \E x \in 0 .. b - 1 : c = t * b + x BY <1>4
<1>6. ASSUME NEW t \in T, NEW x \in 0 .. b - 1, c = t * b + x PROVE c \div b = t
  <2>1. t \in Int /\ c = b * t + x BY <1>1, <1>2, <1>6
  <2> QED BY <1>1, <1>3, <2>1, QuotientIs
<1>7. ASSUME c \div b \in T PROVE c \in Columns(s)
  <2>1. c \div b \in Nat /\ c % b \in 0 .. b - 1 /\ c = b * (c \div b) + (c % b)
    BY <1>1, <1>3, DivFacts
  <2>2. c = (c \div b) * b + (c % b) BY <1>1, <2>1
  <2> QED BY <1>5, <1>7, <2>1, <2>2
<1> QED BY <1>5, <1>6, <1>7 DEF b, T

\* Each column of the selection is in one split and no other.
LEMMA SplitsShareColumns ==
  ASSUME NumRows \in 0 .. MaxRows, NEW c \in 0 .. TopK - 1
  PROVE  /\ \E s \in Splits(NumRows) : c \in Columns(s)
         /\ \A r, s \in Splits(NumRows) : c \in Columns(r) /\ c \in Columns(s) => r = s
<1> DEFINE tiles == NumTiles(NumRows)
           n == NumSplits(NumRows)
           t == c \div BlockN(NumRows)
<1>1. tiles \in Nat \ {0} /\ n \in Nat \ {0} /\ t \in 0 .. tiles - 1
  BY TileFacts, NumSplitsFacts
<1>2. /\ \E s \in 0 .. n - 1 : t \in SplitTiles(s, tiles, n)
      /\ \A r, s \in 0 .. n - 1 :
           t \in SplitTiles(r, tiles, n) /\ t \in SplitTiles(s, tiles, n) => r = s
  <2> HIDE DEF tiles, n, t
  <2> QED BY <1>1, SplitsShareTiles
<1>3. \A s \in 0 .. n - 1 : c \in Columns(s) <=> t \in SplitTiles(s, tiles, n)
  BY ColumnsByTile DEF Splits
<1> HIDE DEF tiles, t
<1>4. Splits(NumRows) = 0 .. n - 1 BY DEF Splits
<1> HIDE DEF n
<1> QED BY <1>2, <1>3, <1>4

-----------------------------------------------------------------------------
(* Batches. *)

\* A padding row names a request and has no position.
PaddingRow == [req : Request, pos : {NoPosition}]

\* RowsBefore counts the rows of the requests below.
LEMMA RowsBeforeFacts ==
  ASSUME NEW n \in [Request -> Nat]
  PROVE  /\ RowsBefore(n) \in [0 .. NumRequests -> Nat]
         /\ RowsBefore(n)[0] = 0
         /\ \A r \in Request : RowsBefore(n)[r + 1] = RowsBefore(n)[r] + n[r]
<1> DEFINE N == NumRequests
           Sums(g) == g = [r \in 0 .. N |-> IF r = 0 THEN 0 ELSE g[r - 1] + n[r - 1]]
<1>1. N \in Nat /\ Request = 0 .. N - 1 BY Sizes DEF Request
<1>2. PICK g \in [0 .. N -> Nat] : Sums(g)
  <2>1. n \in [0 .. N - 1 -> Nat] BY <1>1
  <2> HIDE DEF N
  <2> QED BY <1>1, <2>1, PartialSums
<1>3. RowsBefore(n) = CHOOSE h : Sums(h) BY DEF RowsBefore
<1> DEFINE f == RowsBefore(n)
<1>4. Sums(f)
  <2> HIDE DEF Sums
  <2> QED BY <1>2, <1>3
<1> HIDE DEF f, N
<1>5. f = [r \in 0 .. N |-> f[r]] BY <1>4
<1>6. f[0] = 0 /\ \A r \in Request : f[r + 1] = f[r] + n[r]
  <2>1. \A r \in 0 .. N : f[r] = IF r = 0 THEN 0 ELSE f[r - 1] + n[r - 1] BY <1>4
  <2>2. 0 \in 0 .. N BY <1>1
  <2>3. ASSUME NEW r \in Request PROVE f[r + 1] = f[r] + n[r]
    <3>1. r + 1 \in 0 .. N /\ r + 1 # 0 /\ (r + 1) - 1 = r BY <1>1
    <3> QED BY <2>1, <3>1
  <2> QED BY <2>1, <2>2, <2>3
<1>7. \A r \in 0 .. N : f[r] \in Nat
  <2> DEFINE S == {r \in Nat : f[r] \in Nat}
  <2>1. 0 \in S BY <1>6
  <2>2. \A r \in 0 .. N - 1 : r \in S => r + 1 \in S BY <1>1, <1>6
  <2>3. 0 .. N \subseteq S
    <3> HIDE DEF S
    <3> QED BY <1>1, <2>1, <2>2, ClosedUpwards
  <2> QED BY <2>3
<1> QED BY <1>5, <1>6, <1>7 DEF f, N

\* A batch of the scheduler: each request's rows side by side, at the positions
\* behind its context, and padding that names a request.
LEMMA BatchFacts ==
  ASSUME NEW n \in [Request -> Nat], NEW pad \in 0 .. 1,
         NEW first \in Request, n[first] > 0
  PROVE  LET b == RowsBefore(n)
             B == Batch(n, pad)
         IN  /\ b[NumRequests] \in Nat
             /\ B = [i \in 1 .. b[NumRequests] + pad |-> B[i]]
             /\ \A r \in Request : \A i \in b[r] + 1 .. b[r] + n[r] :
                  /\ i \in 1 .. b[NumRequests]
                  /\ B[i] = Token(r, context[r] + i - b[r] - 1)
             /\ \A i \in 1 .. b[NumRequests] + pad :
                  \/ B[i] \in PaddingRow
                  \/ \E r \in Request : i \in b[r] + 1 .. b[r] + n[r]
<1> DEFINE b == RowsBefore(n)
           B == Batch(n, pad)
           N == NumRequests
           OwnerOf(i) == CHOOSE r \in Request : b[r] < i /\ i <= b[r + 1]
<1>1. /\ N \in Nat /\ Request = 0 .. N - 1
      /\ b \in [0 .. N -> Nat] /\ b[0] = 0 /\ \A r \in Request : b[r + 1] = b[r] + n[r]
  BY Sizes, RowsBeforeFacts DEF Request
<1>2. B = [i \in 1 .. b[N] + pad |->
             IF i <= b[N] THEN Token(OwnerOf(i), context[OwnerOf(i)] + i - b[OwnerOf(i)] - 1)
             ELSE Token(OwnerOf(1), NoPosition)]
  BY DEF Batch, Token
<1> HIDE DEF b, B, N
<1>3. \A r \in 0 .. N - 1 : b[r] <= b[r + 1]
  <2> TAKE r \in 0 .. N - 1
  <2>1. r \in 0 .. N /\ b[r] \in Nat /\ n[r] \in Nat BY <1>1
  <2> QED BY <1>1, <2>1
<1>4. b \in [0 .. N -> Int] BY <1>1
<1>5. N \in 0 .. N /\ b[N] \in Nat BY <1>1
<1>6. ASSUME NEW r \in Request, NEW i \in b[r] + 1 .. b[r] + n[r]
      PROVE  i \in 1 .. b[N] /\ b[r] < i /\ i <= b[r + 1]
  <2>1. r \in 0 .. N /\ r + 1 \in 0 .. N /\ r + 1 <= N BY <1>1
  <2>2. b[r + 1] <= b[N] BY <1>1, <1>3, <1>4, <1>5, <2>1, Ascends
  <2>3. b[r] \in Nat /\ b[r + 1] \in Nat /\ n[r] \in Nat BY <1>1, <2>1
  <2> QED BY <1>1, <1>5, <2>2, <2>3
<1>7. ASSUME NEW r \in Request, NEW i \in b[r] + 1 .. b[r] + n[r]
      PROVE  B[i] = Token(r, context[r] + i - b[r] - 1)
  <2>1. i \in 1 .. b[N] /\ b[r] < i /\ i <= b[r + 1] BY <1>6
  <2>2. OwnerOf(i) \in Request /\ b[OwnerOf(i)] < i /\ i <= b[OwnerOf(i) + 1] BY <2>1
  <2> DEFINE q == OwnerOf(i)
  <2> HIDE DEF OwnerOf
  <2>3. q = r
    <3>1. i \in Int /\ q \in 0 .. N - 1 /\ r \in 0 .. N - 1 BY <1>1, <2>1, <2>2
    <3> DEFINE j == i - 1
    <3>2. ASSUME NEW x \in Nat, NEW y \in Nat, x < i, i <= y PROVE x <= j /\ j < y
      BY <3>1, <3>2
    <3>3. b[q] \in Nat /\ b[q + 1] \in Nat /\ b[r] \in Nat /\ b[r + 1] \in Nat
      <4>1. ASSUME NEW k \in 0 .. N - 1 PROVE k \in 0 .. N /\ k + 1 \in 0 .. N
        <5>1. N \in Nat BY <1>1
        <5> QED BY <4>1, <5>1
      <4>2. \A k \in 0 .. N : b[k] \in Nat BY <1>1
      <4> QED BY <3>1, <4>1, <4>2
    <3>4. j \in Int BY <3>1
    <3>5. b[r] <= j /\ j < b[r + 1] BY <2>1, <3>2, <3>3
    <3>6. b[q] <= j /\ j < b[q + 1] BY <2>2, <3>2, <3>3
    <3> HIDE DEF j, q
    <3> QED BY <1>1, <1>3, <1>4, <3>1, <3>4, <3>5, <3>6, StepOverOnce
  <2>4. i \in 1 .. b[N] + pad /\ i <= b[N] BY <1>5, <2>1
  <2> QED BY <1>2, <2>3, <2>4
<1>8. ASSUME NEW i \in 1 .. b[N] + pad, i <= b[N]
      PROVE  \E r \in Request : i \in b[r] + 1 .. b[r] + n[r]
  <2>1. i <= b[N] BY <1>8
  <2> DEFINE j == i - 1
  <2>2. j \in Int /\ b[0] <= j /\ j < b[N] BY <1>1, <1>5, <2>1
  <2> HIDE DEF j
  <2>3. PICK r \in 0 .. N - 1 : b[r] <= j /\ j < b[r + 1]
    BY <1>1, <1>4, <2>2, StepOver
  <2>4. /\ b[r] \in Nat /\ n[r] \in Nat /\ b[r + 1] = b[r] + n[r] BY <1>1
  <2>5. i \in b[r] + 1 .. b[r] + n[r] BY <2>3, <2>4 DEF j
  <2> QED BY <1>1, <2>5
<1>9. B = [i \in 1 .. b[N] + pad |-> B[i]] BY <1>2
<1>10. OwnerOf(1) \in Request
  <2>1. b[first] \in Nat /\ n[first] \in Nat BY <1>1
  <2>2. b[first] + 1 \in b[first] + 1 .. b[first] + n[first] BY <2>1
  <2>3. b[first] + 1 \in 1 .. b[N] BY <1>6, <2>2
  <2>4. 1 \in 1 .. b[N] + pad /\ 1 <= b[N] BY <1>5, <2>1, <2>3
  <2>5. PICK r \in Request : 1 \in b[r] + 1 .. b[r] + n[r] BY <1>8, <2>4
  <2>6. b[r] < 1 /\ 1 <= b[r + 1] BY <1>6, <2>5
  <2> QED BY <2>6
<1>11. ASSUME NEW i \in 1 .. b[N] + pad, ~(i <= b[N]) PROVE B[i] \in PaddingRow
  <2> HIDE DEF OwnerOf
  <2> QED BY <1>2, <1>10, <1>11 DEF Token, PaddingRow
<1> HIDE DEF OwnerOf
<1> QED BY <1>5, <1>6, <1>7, <1>8, <1>9, <1>11 DEF b, B, N

-----------------------------------------------------------------------------
(* The inductive invariant. *)

RowToken == Tokens \union PaddingRow

\* The types, of every variable and every buffer.
Types ==
  /\ table \in [Request -> [Logical -> Pages \union {NoPage}]]
  /\ context \in [Request -> 0 .. MaxLen]
  /\ data \in [Pages -> [InPage -> Entry]]
  /\ scale \in [Pages -> [ScaleRegion -> Entry]]
  /\ step \in {"idle", "select", "update", "attend", "merge", "done"}
  /\ draft \in 0 .. NumDrafts
  /\ rows \in Seq(RowToken) /\ NumRows <= MaxRows
  /\ out = [i \in 1 .. NumRows |-> out[i]]
  /\ partial = [i \in 1 .. NumRows |-> partial[i]]
  /\ \A i \in 1 .. NumRows : partial[i] = [s \in Splits(NumRows) |-> partial[i][s]]
  /\ Idle => rows = <<>> /\ draft = 0
  /\ ~Idle => Real # {}

\* A request has all its pages or none, nobody else has them, and a context
\* needs pages.
PagesApart ==
  /\ \A r \in Request : \/ \A l \in Logical : table[r][l] \in Pages
                        \/ \A l \in Logical : table[r][l] = NoPage
  /\ \A r, q \in Request : \A l, k \in Logical :
       table[r][l] \in Pages /\ table[r][l] = table[q][k] => r = q /\ l = k
  /\ \A r \in Request : context[r] > 0 => table[r][0] \in Pages

\* The rows of the target: those of a request side by side behind its context.
TargetRows(ro, ctx, tab) ==
  \E b, n \in [Request -> Nat] : \A r \in Request :
    /\ {i \in DOMAIN ro : ro[i].pos # NoPosition /\ ro[i].req = r} = b[r] + 1 .. b[r] + n[r]
    /\ \A i \in b[r] + 1 .. b[r] + n[r] : ro[i].pos = ctx[r] + i - b[r] - 1
    /\ ctx[r] + n[r] <= MaxLen
    /\ n[r] > 0 => tab[r][0] \in Pages

RequestsOf(ro) == {ro[i].req : i \in {j \in DOMAIN ro : ro[j].pos # NoPosition}}

\* The rows of draft step d: one of each request, in the requests' order.
DraftRows(ro, ctx, d) ==
  /\ RequestsOf(ro) \subseteq Request
  /\ Cardinality(RequestsOf(ro)) <= Len(ro)
  /\ \A i \in DOMAIN ro :
       IF i <= Cardinality(RequestsOf(ro))
       THEN ro[i] = Token(Nth(RequestsOf(ro), i - 1), ctx[Nth(RequestsOf(ro), i - 1)] + d - 1)
       ELSE ro[i].pos = NoPosition
  /\ \A r \in RequestsOf(ro) : ctx[r] > 0

Batched == IF draft = 0 THEN TargetRows(rows, context, table) ELSE DraftRows(rows, context, draft)

\* The position whose selection a row uses.
LastOf(i) == IF draft = 0 THEN rows[i].pos ELSE context[rows[i].req] - 1

\* Once selected, the buffer has the selection of every row, and keeps it for
\* the draft steps.
Selected ==
  step \notin {"idle", "select"} \/ draft > 0 =>
    \A i \in Real : /\ topk[i] = AsRow(chosen[rows[i].req][LastOf(i)])
                    /\ chosen[rows[i].req][LastOf(i)] \in Chosen(LastOf(i))

\* A token is in the cache, data and block scales.
Whole(tab, dat, sca, r, p) ==
  LET page == tab[r][p \div PageSize]
      t == p % PageSize
  IN  /\ dat[page][t] = Token(r, p)
      /\ \A s \in 0 .. ScaleDim - 1 : sca[page][ScaleCoord(t, s)] = Token(r, p)

\* Every computed and accepted token is in the cache.
ContextStored ==
  \A r \in Request : \A p \in 0 .. context[r] - 1 : Whole(table, data, scale, r, p)

\* The context is in the cache, and behind the update the batch's rows.
Stored ==
  /\ ContextStored
  /\ step \in {"attend", "merge", "done"} =>
       \A i \in Real : Whole(table, data, scale, rows[i].req, rows[i].pos)

\* What the programs have weighed so far.
Weighed ==
  /\ step \in {"select", "update"} =>
       \A i \in DOMAIN rows : \A s \in Splits(NumRows) : partial[i][s] = Garbage
  /\ step = "attend" =>
       \A i \in DOMAIN rows : \A s \in Splits(NumRows) :
         partial[i][s] = Garbage \/ partial[i][s] = Attended(i, s)
  /\ step = "attend" /\ NumSplits(NumRows) = 1 =>
       \A i \in DOMAIN rows : partial[i][0] = Garbage \/ out[i] = partial[i][0]
  /\ step = "merge" =>
       \A i \in DOMAIN rows : \A s \in Splits(NumRows) : partial[i][s] = Attended(i, s)
  /\ step = "done" =>
       \A i \in DOMAIN rows : out[i] = UNION {Attended(i, s) : s \in Splits(NumRows)}

AttentionInv == Types /\ PagesApart /\ Batched /\ Selected /\ Stored /\ Weighed

\* A function on 1 .. n is a sequence of that length.
LEMMA LenOfDomain ==
  ASSUME NEW n \in Nat, NEW f, f = [i \in 1 .. n |-> f[i]]
  PROVE  Len(f) = n
<1> DEFINE S == {f[i] : i \in 1 .. n}
<1>1. f \in [1 .. n -> S] /\ DOMAIN f = 1 .. n OBVIOUS
<1> HIDE DEF S
<1>2. f \in Seq(S) BY <1>1, SeqDef
<1>3. DOMAIN f = 1 .. Len(f) /\ Len(f) \in Nat BY <1>2, LenProperties
<1> QED BY <1>1, <1>3

\* A whole token is decoded to itself.
LEMMA WholeIsDecoded ==
  ASSUME NEW r, NEW p, Whole(table, data, scale, r, p)
  PROVE  Decoded(PageOf(r, p), p % PageSize) = {Token(r, p)}
  BY DEF Whole, Decoded, PageOf

\* The rows of a batch are tokens of requests, or padding.
LEMMA RowTypes ==
  ASSUME NEW ro \in Seq(RowToken)
  PROVE  /\ Len(ro) \in Nat /\ DOMAIN ro = 1 .. Len(ro)
         /\ \A i \in DOMAIN ro : ro[i] \in RowToken
         /\ \A i \in DOMAIN ro : ro[i].pos # NoPosition =>
              /\ ro[i] \in Tokens /\ ro[i] = Token(ro[i].req, ro[i].pos)
              /\ ro[i].req \in Request /\ ro[i].pos \in 0 .. MaxLen + NumDrafts
<1>1. /\ Len(ro) \in Nat /\ DOMAIN ro = 1 .. Len(ro)
      /\ \A i \in DOMAIN ro : ro[i] \in RowToken
  BY LenProperties, ElementOfSeq
<1>2. ASSUME NEW x \in RowToken, x.pos # NoPosition
      PROVE  /\ x \in Tokens /\ x = Token(x.req, x.pos)
             /\ x.req \in Request /\ x.pos \in 0 .. MaxLen + NumDrafts
  BY <1>2 DEF RowToken, Tokens, Token, PaddingRow
<1> QED BY <1>1, <1>2

\* There are finitely many requests.
LEMMA FiniteRequests ==
  ASSUME NEW S \in SUBSET Request
  PROVE  /\ IsFiniteSet(S) /\ S \in SUBSET Int /\ Cardinality(S) \in Nat
<1>1. IsFiniteSet(Request) BY Sizes, FS_Interval DEF Request
<1>2. IsFiniteSet(S) BY <1>1, FS_Subset
<1> QED BY <1>2, FS_CardinalityType, Sizes

\* A request with one page has all.
LEMMA AllPages ==
  ASSUME PagesApart, NEW r \in Request, table[r][0] \in Pages
  PROVE  \A l \in Logical : table[r][l] \in Pages
<1>1. 0 \in Logical BY Sizes DEF Logical
<1>2. NoPage \notin Pages BY ConstantsAssumption
<1> QED BY <1>1, <1>2 DEF PagesApart

\* Where the rows of the batch are: behind the context, in the request's own
\* pages, each position once; those of the target without a gap.
LEMMA RowPlaces ==
  ASSUME Types, PagesApart, Batched
  PROVE  /\ \A i \in Real :
              /\ rows[i].req \in Request /\ rows[i].pos \in Nat
              /\ rows[i] = Token(rows[i].req, rows[i].pos) /\ rows[i] \in Tokens
              /\ context[rows[i].req] <= rows[i].pos
              /\ rows[i].pos < Width * PageSize
              /\ \A l \in Logical : table[rows[i].req][l] \in Pages
              /\ draft = 0 => rows[i].pos < MaxLen
              /\ draft > 0 => context[rows[i].req] > 0
         /\ \A i, j \in Real : rows[i] = rows[j] => i = j
         /\ draft = 0 => \A i \in Real : \A q \in context[rows[i].req] .. rows[i].pos :
                           \E j \in Real : rows[j] = Token(rows[i].req, q)
<1>1. /\ rows \in Seq(RowToken) /\ DOMAIN rows = 1 .. NumRows /\ NumRows \in Nat
      /\ \A i \in Real : /\ rows[i] \in Tokens /\ rows[i] = Token(rows[i].req, rows[i].pos)
                         /\ rows[i].req \in Request /\ rows[i].pos \in 0 .. MaxLen + NumDrafts
      /\ \A i \in Real : i \in DOMAIN rows
  BY RowTypes DEF Types, Real, NumRows
<1>2. /\ context \in [Request -> 0 .. MaxLen] /\ \A r \in Request : context[r] \in Nat
      /\ draft \in 0 .. NumDrafts
  BY Sizes DEF Types
<1>3. CASE draft = 0
  <2>1. PICK b \in [Request -> Nat], n \in [Request -> Nat] : \A r \in Request :
          /\ {i \in DOMAIN rows : rows[i].pos # NoPosition /\ rows[i].req = r}
               = b[r] + 1 .. b[r] + n[r]
          /\ \A i \in b[r] + 1 .. b[r] + n[r] : rows[i].pos = context[r] + i - b[r] - 1
          /\ context[r] + n[r] <= MaxLen
          /\ n[r] > 0 => table[r][0] \in Pages
    BY <1>3 DEF Batched, TargetRows
  <2>2. ASSUME NEW i \in Real
        PROVE  LET r == rows[i].req
               IN  /\ r \in Request /\ b[r] \in Nat /\ n[r] \in Nat
                   /\ i \in b[r] + 1 .. b[r] + n[r] /\ n[r] > 0
                   /\ rows[i].pos = context[r] + i - b[r] - 1
    <3> DEFINE r == rows[i].req
    <3>1. r \in Request /\ i \in DOMAIN rows /\ rows[i].pos # NoPosition BY <1>1 DEF Real
    <3>2. i \in b[r] + 1 .. b[r] + n[r] BY <2>1, <3>1
    <3>3. b[r] \in Nat /\ n[r] \in Nat BY <3>1
    <3> QED BY <2>1, <3>1, <3>2, <3>3
  <2>3. ASSUME NEW i \in Real
        PROVE  /\ context[rows[i].req] <= rows[i].pos
               /\ rows[i].pos < MaxLen /\ rows[i].pos < Width * PageSize
               /\ \A l \in Logical : table[rows[i].req][l] \in Pages
    <3> DEFINE r == rows[i].req
    <3>1. /\ r \in Request /\ b[r] \in Nat /\ n[r] \in Nat
          /\ i \in b[r] + 1 .. b[r] + n[r] /\ n[r] > 0
          /\ rows[i].pos = context[r] + i - b[r] - 1
          /\ context[r] + n[r] <= MaxLen /\ context[r] \in Nat
          /\ table[r][0] \in Pages
      BY <1>2, <2>1, <2>2
    <3>2. \A l \in Logical : table[r][l] \in Pages BY <3>1, AllPages
    <3> HIDE DEF r
    <3>3. context[r] <= rows[i].pos /\ rows[i].pos < MaxLen BY <3>1, Sizes
    <3>4. rows[i].pos < Width * PageSize
      <4>1. rows[i].pos \in Int /\ Width * PageSize \in Int BY <3>1, Sizes
      <4> QED BY <3>3, <4>1, Sizes
    <3> QED BY <3>2, <3>3, <3>4 DEF r
  <2>4. ASSUME NEW i \in Real, NEW j \in Real, rows[i] = rows[j] PROVE i = j
    <3> DEFINE r == rows[i].req
    <3>1. /\ r \in Request /\ b[r] \in Nat /\ i \in Nat /\ j \in Nat /\ context[r] \in Nat
          /\ rows[i].pos = context[r] + i - b[r] - 1
          /\ rows[j].pos = context[r] + j - b[r] - 1
      <4>1. r \in Request /\ b[r] \in Nat /\ rows[i].pos = context[r] + i - b[r] - 1
        BY <2>2
      <4>2. rows[j].req = r BY <2>4
      <4>3. rows[j].pos = context[r] + j - b[r] - 1 BY <2>2, <4>2
      <4>4. i \in Nat /\ j \in Nat BY <1>1
      <4>5. context[r] \in Nat BY <1>2, <4>1
      <4> QED BY <4>1, <4>3, <4>4, <4>5, Zenon
    <3>2. rows[i].pos = rows[j].pos BY <2>4
    <3> DEFINE behind == context[r] - b[r] - 1
    <3>3. behind \in Int BY <3>1
    <3>4. rows[i].pos = behind + i /\ rows[j].pos = behind + j BY <3>1
    <3>5. behind + i = behind + j BY <3>2, <3>4
    <3>6. i \in Int /\ j \in Int BY <3>1
    <3>7. \A k, x, y \in Int : k + x = k + y => x = y OBVIOUS
    <3> HIDE DEF r, behind
    <3> QED BY <3>3, <3>5, <3>6, <3>7, Zenon
  <2>5. ASSUME NEW i \in Real, NEW q \in context[rows[i].req] .. rows[i].pos
        PROVE  \E j \in Real : rows[j] = Token(rows[i].req, q)
    <3> DEFINE r == rows[i].req
               j == q - context[r] + b[r] + 1
    <3>1. /\ r \in Request /\ b[r] \in Nat /\ n[r] \in Nat /\ context[r] \in Nat
          /\ i \in b[r] + 1 .. b[r] + n[r] /\ i \in Nat
          /\ rows[i].pos = context[r] + i - b[r] - 1
      BY <1>1, <1>2, <2>2
    <3>2. q \in Int /\ context[r] <= q /\ q <= rows[i].pos OBVIOUS
    <3> HIDE DEF r
    <3>3. j \in b[r] + 1 .. b[r] + n[r] /\ q = context[r] + j - b[r] - 1 BY <3>1, <3>2
    <3> HIDE DEF j
    <3>4. /\ j \in DOMAIN rows /\ rows[j].req = r /\ rows[j].pos = q
          /\ rows[j].pos # NoPosition
      BY <2>1, <3>1, <3>3
    <3>5. j \in Real BY <3>4 DEF Real
    <3>6. rows[j] = Token(r, q) BY <1>1, <3>4, <3>5
    <3> QED BY <3>5, <3>6 DEF r
  <2> QED BY <1>1, <1>3, <2>3, <2>4, <2>5
<1>4. CASE draft # 0
  <2> DEFINE S == RequestsOf(rows)
             k == Cardinality(S)
  <2>1. draft \in Nat /\ draft > 0 /\ draft <= NumDrafts BY <1>2, <1>4, Sizes
  <2>2. DraftRows(rows, context, draft) BY <1>4 DEF Batched
  <2>3. /\ S \subseteq Request /\ \A r \in S : context[r] > 0
        /\ \A i \in DOMAIN rows :
             IF i <= k THEN rows[i] = Token(Nth(S, i - 1), context[Nth(S, i - 1)] + draft - 1)
             ELSE rows[i].pos = NoPosition
    BY <2>2 DEF DraftRows
  <2>4. k \in Nat /\ \A l \in 0 .. k - 1 :
          Nth(S, l) \in S /\ Cardinality({x \in S : x < Nth(S, l)}) = l
    <3> HIDE DEF S
    <3> QED BY <2>3, FiniteRequests, NthFacts
  <2>5. ASSUME NEW i \in Real
        PROVE  /\ i - 1 \in 0 .. k - 1
               /\ rows[i].req = Nth(S, i - 1) /\ rows[i].req \in S
               /\ rows[i].pos = context[rows[i].req] + draft - 1
    <3> HIDE DEF S, k
    <3>1. i \in DOMAIN rows /\ rows[i].pos # NoPosition BY DEF Real
    <3>2. i <= k BY <2>3, <3>1
    <3>3. i - 1 \in 0 .. k - 1 BY <1>1, <2>4, <3>1, <3>2
    <3>4. rows[i] = Token(Nth(S, i - 1), context[Nth(S, i - 1)] + draft - 1)
      BY <2>3, <3>1, <3>2
    <3>5. Nth(S, i - 1) \in S BY <2>4, <3>3
    <3> QED BY <3>3, <3>4, <3>5 DEF Token
  <2>6. ASSUME NEW i \in Real
        PROVE  /\ context[rows[i].req] > 0 /\ context[rows[i].req] <= rows[i].pos
               /\ rows[i].pos < Width * PageSize
               /\ \A l \in Logical : table[rows[i].req][l] \in Pages
    <3> DEFINE r == rows[i].req
    <3>1. r \in Request /\ r \in S /\ context[r] \in 0 .. MaxLen /\ context[r] > 0
      BY <1>1, <1>2, <2>3, <2>5
    <3>2. table[r][0] \in Pages BY <3>1 DEF PagesApart
    <3>3. \A l \in Logical : table[r][l] \in Pages BY <3>1, <3>2, AllPages
    <3>4. rows[i].pos = context[r] + draft - 1 BY <2>5
    <3> HIDE DEF r
    <3>5. rows[i].pos < Width * PageSize
      <4>1. Width * PageSize \in Int BY Sizes
      <4> QED BY <2>1, <3>1, <3>4, <4>1, Sizes
    <3>6. context[r] <= rows[i].pos BY <2>1, <3>1, <3>4, Sizes
    <3> QED BY <3>1, <3>3, <3>5, <3>6 DEF r
  <2>7. ASSUME NEW i \in Real, NEW j \in Real, rows[i] = rows[j] PROVE i = j
    <3> HIDE DEF S, k
    <3>1. i - 1 \in 0 .. k - 1 /\ j - 1 \in 0 .. k - 1 /\ Nth(S, i - 1) = Nth(S, j - 1)
      BY <2>5, <2>7
    <3>2. i - 1 = j - 1 BY <2>4, <3>1
    <3>3. i \in Int /\ j \in Int BY <1>1
    <3> QED BY <3>2, <3>3
  <2> QED BY <1>1, <1>4, <2>1, <2>6, <2>7
<1> QED BY <1>3, <1>4

-----------------------------------------------------------------------------
(* The cache. *)

\* A token's row and its page, when the request has pages.
LEMMA RowOfToken ==
  ASSUME Types, NEW r \in Request, NEW p \in Nat, p < Width * PageSize,
         \A l \in Logical : table[r][l] \in Pages
  PROVE  /\ PageOf(r, p) = table[r][p \div PageSize] /\ PageOf(r, p) \in Pages
         /\ p \div PageSize \in Logical /\ p % PageSize \in InPage
  BY PositionFacts DEF PageOf

\* Tokens of different requests or positions lie in different rows.
LEMMA RowsApart ==
  ASSUME Types, PagesApart,
         NEW r \in Request, NEW p \in Nat, p < Width * PageSize,
         NEW q \in Request, NEW o \in Nat, o < Width * PageSize,
         \A l \in Logical : table[r][l] \in Pages,
         PageOf(r, p) = PageOf(q, o), p % PageSize = o % PageSize
  PROVE  r = q /\ p = o
<1>1. /\ p \div PageSize \in Logical /\ p = PageSize * (p \div PageSize) + (p % PageSize)
      /\ o \div PageSize \in Logical /\ o = PageSize * (o \div PageSize) + (o % PageSize)
  BY PositionFacts
<1>2. r = q /\ p \div PageSize = o \div PageSize
  BY <1>1 DEF PageOf, PagesApart
<1> QED BY <1>1, <1>2

\* A token of the context has its place.
LEMMA ContextPlaces ==
  ASSUME Types, PagesApart, NEW r \in Request, NEW p \in 0 .. context[r] - 1
  PROVE  /\ p \in Nat /\ p < Width * PageSize /\ p < context[r]
         /\ \A l \in Logical : table[r][l] \in Pages
<1>1. context[r] \in 0 .. MaxLen BY DEF Types
<1>2. p \in Nat /\ p < context[r] /\ context[r] > 0 BY <1>1, Sizes
<1>3. p < Width * PageSize
  <2>1. Width * PageSize \in Int BY Sizes
  <2> QED BY <1>1, <1>2, <2>1, Sizes
<1>4. table[r][0] \in Pages BY <1>2 DEF PagesApart
<1> QED BY <1>2, <1>3, <1>4, AllPages

\* The update writes each row's token where the row's position is, data and
\* scales, and nothing over the context.
LEMMA UpdateWrites ==
  ASSUME Types, PagesApart, Batched, UpdateCache
  PROVE  /\ data' \in [Pages -> [InPage -> Entry]]
         /\ scale' \in [Pages -> [ScaleRegion -> Entry]]
         /\ \A i \in Real : Whole(table, data', scale', rows[i].req, rows[i].pos)
         /\ \A r \in Request : \A p \in 0 .. context[r] - 1 :
              Whole(table, data, scale, r, p) => Whole(table, data', scale', r, p)
<1> DEFINE Here(p, t) == {i \in Real : /\ PageOf(rows[i].req, rows[i].pos) = p
                                       /\ rows[i].pos % PageSize = t}
           Written(p, t, old) == IF Here(p, t) = {} THEN old
                                 ELSE rows[CHOOSE i \in Here(p, t) : TRUE]
           RowOfCell(c) == CHOOSE t \in InPage : c \in ScaleCells(t)
<1>1. /\ data' = [p \in Pages |-> [t \in InPage |-> Written(p, t, data[p][t])]]
      /\ scale' = [p \in Pages |-> [c \in DOMAIN scale[p] |->
                     Written(p, RowOfCell(c), scale[p][c])]]
  BY DEF UpdateCache, InPage
<1>2. \A c \in ScaleRegion : RowOfCell(c) \in InPage /\ c \in ScaleCells(RowOfCell(c))
  BY CellOwner
<1>3. ASSUME NEW t \in InPage, NEW s \in 0 .. ScaleDim - 1
      PROVE  ScaleCoord(t, s) \in ScaleRegion /\ RowOfCell(ScaleCoord(t, s)) = t
  <2>1. ScaleCoord(t, s) \in ScaleRegion /\ ScaleCoord(t, s) \in ScaleCells(t)
    BY CoordIsOwnCell
  <2> DEFINE u == RowOfCell(ScaleCoord(t, s))
  <2>2. u \in InPage /\ ScaleCoord(t, s) \in ScaleCells(u) BY <1>2, <2>1
  <2> HIDE DEF u
  <2>3. u = t BY <2>1, <2>2, CellOwner
  <2> QED BY <2>1, <2>3 DEF u
<1> HIDE DEF RowOfCell
<1>4. \A p \in Pages : DOMAIN scale[p] = ScaleRegion BY DEF Types
<1>5. ASSUME NEW p, NEW t, NEW old \in Entry PROVE Written(p, t, old) \in Entry
  <2>1. \A i \in Here(p, t) : rows[i] \in Tokens BY RowPlaces
  <2> HIDE DEF Here
  <2> QED BY <2>1 DEF Entry
<1>6. ASSUME NEW i \in Real, NEW old
      PROVE  Written(PageOf(rows[i].req, rows[i].pos), rows[i].pos % PageSize, old)
               = Token(rows[i].req, rows[i].pos)
  <2> DEFINE H == Here(PageOf(rows[i].req, rows[i].pos), rows[i].pos % PageSize)
  <2>1. i \in H OBVIOUS
  <2>2. ASSUME NEW j \in H PROVE rows[j] = rows[i]
    <3>1. /\ j \in Real /\ PageOf(rows[j].req, rows[j].pos) = PageOf(rows[i].req, rows[i].pos)
          /\ rows[j].pos % PageSize = rows[i].pos % PageSize
      OBVIOUS
    <3>2. rows[j].req = rows[i].req /\ rows[j].pos = rows[i].pos
      BY <3>1, RowPlaces, RowsApart
    <3>3. /\ rows[j] = Token(rows[j].req, rows[j].pos)
          /\ rows[i] = Token(rows[i].req, rows[i].pos)
      BY <3>1, RowPlaces
    <3> QED BY <3>2, <3>3
  <2>3. rows[i] = Token(rows[i].req, rows[i].pos) BY RowPlaces
  <2> HIDE DEF Here
  <2> QED BY <2>1, <2>2, <2>3
<1>7. ASSUME NEW r \in Request, NEW p \in 0 .. context[r] - 1, NEW old
      PROVE  Written(PageOf(r, p), p % PageSize, old) = old
  <2>1. ASSUME NEW i \in Here(PageOf(r, p), p % PageSize) PROVE FALSE
    <3>1. /\ i \in Real /\ PageOf(rows[i].req, rows[i].pos) = PageOf(r, p)
          /\ rows[i].pos % PageSize = p % PageSize
      OBVIOUS
    <3>2. /\ p \in Nat /\ p < Width * PageSize /\ p < context[r]
          /\ \A l \in Logical : table[r][l] \in Pages
      BY ContextPlaces
    <3>3. r = rows[i].req /\ p = rows[i].pos
      BY <3>1, <3>2, RowPlaces, RowsApart
    <3>4. context[rows[i].req] <= rows[i].pos BY <3>1, RowPlaces
    <3>5. context[r] \in Int BY DEF Types
    <3> QED BY <3>2, <3>3, <3>4, <3>5
  <2> HIDE DEF Here
  <2> QED BY <2>1
<1>8. data' \in [Pages -> [InPage -> Entry]]
  <2>1. \A p \in Pages : \A t \in InPage : data[p][t] \in Entry BY DEF Types
  <2> HIDE DEF Written
  <2> QED BY <1>1, <1>5, <2>1
<1>9. scale' \in [Pages -> [ScaleRegion -> Entry]]
  <2>1. \A p \in Pages : \A c \in ScaleRegion : scale[p][c] \in Entry BY DEF Types
  <2> HIDE DEF Written
  <2> QED BY <1>1, <1>4, <1>5, <2>1
<1>10. ASSUME NEW r \in Request, NEW p \in Nat, p < Width * PageSize,
              \A l \in Logical : table[r][l] \in Pages
       PROVE  LET g == PageOf(r, p)
                  t == p % PageSize
              IN  /\ data'[g][t] = Written(g, t, data[g][t])
                  /\ \A s \in 0 .. ScaleDim - 1 :
                       scale'[g][ScaleCoord(t, s)] = Written(g, t, scale[g][ScaleCoord(t, s)])
  <2> DEFINE g == PageOf(r, p)
             t == p % PageSize
  <2>1. g \in Pages /\ t \in InPage BY <1>10, RowOfToken
  <2> HIDE DEF g, t, Written
  <2>2. data'[g][t] = Written(g, t, data[g][t]) BY <1>1, <2>1
  <2>3. ASSUME NEW s \in 0 .. ScaleDim - 1
        PROVE  scale'[g][ScaleCoord(t, s)] = Written(g, t, scale[g][ScaleCoord(t, s)])
    <3>1. ScaleCoord(t, s) \in ScaleRegion /\ RowOfCell(ScaleCoord(t, s)) = t
      BY <1>3, <2>1
    <3> QED BY <1>1, <1>4, <2>1, <3>1
  <2> QED BY <2>2, <2>3 DEF g, t
<1>11. ASSUME NEW i \in Real PROVE Whole(table, data', scale', rows[i].req, rows[i].pos)
  <2>1. /\ rows[i].req \in Request /\ rows[i].pos \in Nat /\ rows[i].pos < Width * PageSize
        /\ \A l \in Logical : table[rows[i].req][l] \in Pages
    BY RowPlaces
  <2> HIDE DEF Written
  <2> QED BY <1>6, <1>10, <2>1 DEF Whole, PageOf
<1>12. ASSUME NEW r \in Request, NEW p \in 0 .. context[r] - 1,
              Whole(table, data, scale, r, p)
       PROVE  Whole(table, data', scale', r, p)
  <2>1. /\ p \in Nat /\ p < Width * PageSize
        /\ \A l \in Logical : table[r][l] \in Pages
    BY ContextPlaces
  <2> HIDE DEF Written
  <2> QED BY <1>7, <1>10, <1>12, <2>1 DEF Whole, PageOf
<1> QED BY <1>8, <1>9, <1>11, <1>12

-----------------------------------------------------------------------------
(* Between steps. *)

\* No batch is a batch.
LEMMA EmptyBatch ==
  ASSUME NEW ctx \in [Request -> 0 .. MaxLen], NEW tab
  PROVE  TargetRows(<< >>, ctx, tab)
<1> DEFINE z == [r \in Request |-> 0]
<1>1. z \in [Request -> Nat] OBVIOUS
<1>2. \A r \in Request :
        /\ {i \in DOMAIN << >> : << >>[i].pos # NoPosition /\ << >>[i].req = r}
             = z[r] + 1 .. z[r] + z[r]
        /\ \A i \in z[r] + 1 .. z[r] + z[r] : << >>[i].pos = ctx[r] + i - z[r] - 1
        /\ ctx[r] + z[r] <= MaxLen
        /\ z[r] > 0 => tab[r][0] \in Pages
  <2> TAKE r \in Request
  <2>1. z[r] = 0 /\ z[r] + 1 .. z[r] + z[r] = {} /\ DOMAIN << >> = {} OBVIOUS
  <2>2. ctx[r] + z[r] <= MaxLen BY <2>1, Sizes
  <2> HIDE DEF z
  <2> QED BY <2>1, <2>2
<1> HIDE DEF z
<1> QED BY <1>1, <1>2 DEF TargetRows

IdleState == Types /\ PagesApart /\ Idle /\ ContextStored

\* Between steps only types, pages and the context in the cache matter.
LEMMA IdleInv == IdleState => AttentionInv
<1> SUFFICES ASSUME IdleState PROVE AttentionInv OBVIOUS
<1> USE DEF IdleState, ContextStored
<1>1. rows = << >> /\ draft = 0 BY DEF Types
<1>2. Batched
  <2>1. context \in [Request -> 0 .. MaxLen] BY DEF Types
  <2> QED BY <1>1, <2>1, EmptyBatch DEF Batched
<1>3. Selected /\ Stored /\ Weighed
  BY <1>1 DEF Idle, Selected, Stored, Weighed
<1> QED BY <1>2, <1>3 DEF AttentionInv

\* The same of the state after a step.
LEMMA IdleInvAfter == IdleState' => AttentionInv'
  BY IdleInv, PTL

\* Nothing is held, computed or cached initially.
LEMMA InitInv == Init => AttentionInv
<1> SUFFICES ASSUME Init PROVE AttentionInv OBVIOUS
<1>1. Types
  <2>1. table \in [Request -> [Logical -> Pages \union {NoPage}]] BY DEF Init, Logical
  <2>2. context \in [Request -> 0 .. MaxLen] BY Sizes DEF Init
  <2>3. data \in [Pages -> [InPage -> Entry]] BY DEF Init, InPage, Entry
  <2>4. scale \in [Pages -> [ScaleRegion -> Entry]] BY DEF Init, Entry
  <2>5. rows \in Seq(RowToken) /\ NumRows = 0 /\ rows = << >> BY DEF Init, NumRows
  <2>6. out = [i \in 1 .. NumRows |-> out[i]] /\ partial = [i \in 1 .. NumRows |-> partial[i]]
    <3>1. 1 .. NumRows = {} BY <2>5
    <3>2. out = << >> /\ partial = << >> BY DEF Init
    <3> QED BY <3>1, <3>2
  <2>7. draft \in 0 .. NumDrafts /\ draft = 0 /\ step = "idle" BY Sizes DEF Init
  <2>8. \A i \in 1 .. NumRows : partial[i] = [s \in Splits(NumRows) |-> partial[i][s]]
    BY <2>5
  <2> QED BY <2>1, <2>2, <2>3, <2>4, <2>5, <2>6, <2>7, <2>8, Sizes DEF Types, Idle
<1>2. PagesApart
  BY ConstantsAssumption DEF Init, PagesApart, Logical
<1>3. Idle BY DEF Init, Idle
<1>4. ContextStored BY DEF Init, ContextStored
<1> QED BY <1>1, <1>2, <1>3, <1>4, IdleInv DEF IdleState

\* Pages are handed out to a request that has none.
LEMMA AdmitInv ==
  ASSUME AttentionInv, NEW r \in Request, Admit(r)
  PROVE  AttentionInv'
<1> USE DEF AttentionInv
<1>0. NoPage \notin Pages /\ 0 \in Logical BY ConstantsAssumption DEF Logical
<1>1. PICK f \in [Logical -> Free] :
        /\ \A k, l \in Logical : k # l => f[k] # f[l]
        /\ table' = [table EXCEPT ![r] = f]
  BY DEF Admit, Logical
<1>2. /\ Idle /\ Idle' /\ table[r][0] = NoPage
      /\ UNCHANGED <<context, data, scale, step, draft, rows, topk, partial, out, chosen>>
  BY DEF Admit, Idle, Held, cache
<1>3. Free \subseteq Pages /\ \A q \in Request : \A l \in Logical : table[q][l] \notin Free
  BY DEF Free, Logical
<1>4. table'[r] = f /\ \A q \in Request : q # r => table'[q] = table[q]
  BY <1>1 DEF Types
<1>5. table' \in [Request -> [Logical -> Pages \union {NoPage}]]
  BY <1>1, <1>3 DEF Types
<1>6. Types' BY <1>2, <1>5 DEF Types, NumRows, Idle
<1>7. context[r] = 0
  <2>1. ~(context[r] > 0) BY <1>0, <1>2 DEF PagesApart
  <2> QED BY <2>1, Sizes DEF Types
<1>8. PagesApart'
  <2>1. ASSUME NEW q \in Request
        PROVE  (\A l \in Logical : table'[q][l] \in Pages) \/ (\A l \in Logical : table'[q][l] = NoPage)
    <3>1. CASE q = r BY <1>1, <1>3, <1>4, <3>1
    <3>2. CASE q # r BY <1>4, <3>2 DEF PagesApart
    <3> QED BY <3>1, <3>2
  <2>2. ASSUME NEW q \in Request, NEW u \in Request, NEW l \in Logical, NEW k \in Logical,
               table'[q][l] \in Pages, table'[q][l] = table'[u][k]
        PROVE  q = u /\ l = k
    <3>1. CASE q = r /\ u = r BY <1>1, <1>4, <2>2, <3>1
    <3>2. CASE q = r /\ u # r BY <1>1, <1>3, <1>4, <2>2, <3>2
    <3>3. CASE q # r /\ u = r BY <1>1, <1>3, <1>4, <2>2, <3>3
    <3>4. CASE q # r /\ u # r BY <1>4, <2>2, <3>4 DEF PagesApart
    <3> QED BY <3>1, <3>2, <3>3, <3>4
  <2>3. \A q \in Request : context'[q] > 0 => table'[q][0] \in Pages
    <3> TAKE q \in Request
    <3>1. CASE q = r BY <1>2, <1>7, <3>1
    <3>2. CASE q # r BY <1>2, <1>4, <3>2 DEF PagesApart
    <3> QED BY <3>1, <3>2
  <2> QED BY <2>1, <2>2, <2>3 DEF PagesApart
<1>9. ASSUME NEW q \in Request, NEW p \in 0 .. context'[q] - 1
      PROVE  Whole(table', data', scale', q, p)
  <2>1. q # r BY <1>2, <1>7
  <2>2. Whole(table, data, scale, q, p) BY <1>2 DEF Stored, ContextStored
  <2> QED BY <1>2, <1>4, <2>1, <2>2 DEF Whole
<1>10. ContextStored' BY <1>9 DEF ContextStored
<1> QED BY <1>2, <1>6, <1>8, <1>10, IdleInvAfter DEF IdleState

\* A finished request takes nothing with it but what is its own.
LEMMA ReleaseInv ==
  ASSUME AttentionInv, NEW r \in Request, Release(r)
  PROVE  AttentionInv'
<1> USE DEF AttentionInv
<1>0. NoPage \notin Pages /\ 0 \in Logical /\ 0 \in 0 .. MaxLen
  BY ConstantsAssumption DEF Logical
<1>1. /\ Idle /\ Idle'
      /\ table' = [table EXCEPT ![r] = [l \in Logical |-> NoPage]]
      /\ context' = [context EXCEPT ![r] = 0]
      /\ data' = [p \in Pages |-> IF p \in Own(r) THEN [t \in DOMAIN data[p] |-> Garbage] ELSE data[p]]
      /\ scale' = [p \in Pages |-> IF p \in Own(r) THEN [c \in DOMAIN scale[p] |-> Garbage] ELSE scale[p]]
      /\ UNCHANGED <<step, draft, rows, topk, partial, out, chosen>>
  BY DEF Release, Idle, Logical
<1>2. /\ table'[r] = [l \in Logical |-> NoPage] /\ context'[r] = 0
      /\ \A q \in Request : q # r => table'[q] = table[q] /\ context'[q] = context[q]
  BY <1>1 DEF Types
<1>3. /\ table' \in [Request -> [Logical -> Pages \union {NoPage}]]
      /\ context' \in [Request -> 0 .. MaxLen]
  BY <1>0, <1>1 DEF Types
<1>4. data' \in [Pages -> [InPage -> Entry]] /\ scale' \in [Pages -> [ScaleRegion -> Entry]]
  BY <1>1 DEF Types, Entry
<1>5. Types' BY <1>1, <1>3, <1>4 DEF Types, NumRows, Idle
<1>6. PagesApart'
  <2>1. ASSUME NEW q \in Request
        PROVE  (\A l \in Logical : table'[q][l] \in Pages) \/ (\A l \in Logical : table'[q][l] = NoPage)
    <3>1. CASE q = r BY <1>2, <3>1
    <3>2. CASE q # r BY <1>2, <3>2 DEF PagesApart
    <3> QED BY <3>1, <3>2
  <2>2. ASSUME NEW q \in Request, NEW u \in Request, NEW l \in Logical, NEW k \in Logical,
               table'[q][l] \in Pages, table'[q][l] = table'[u][k]
        PROVE  q = u /\ l = k
    <3>1. q # r /\ u # r BY <1>0, <1>2, <2>2
    <3> QED BY <1>2, <2>2, <3>1 DEF PagesApart
  <2>3. \A q \in Request : context'[q] > 0 => table'[q][0] \in Pages
    <3> TAKE q \in Request
    <3>1. CASE q = r BY <1>2, <3>1
    <3>2. CASE q # r BY <1>2, <3>2 DEF PagesApart
    <3> QED BY <3>1, <3>2
  <2> QED BY <2>1, <2>2, <2>3 DEF PagesApart
<1>7. ASSUME NEW q \in Request, NEW p \in 0 .. context'[q] - 1
      PROVE  Whole(table', data', scale', q, p)
  <2>1. q # r BY <1>2
  <2>2. context'[q] = context[q] /\ table'[q] = table[q] BY <1>2, <2>1
  <2>3. p \in 0 .. context[q] - 1 BY <2>2
  <2>4. Whole(table, data, scale, q, p) BY <2>3 DEF Stored, ContextStored
  <2> DEFINE g == table[q][p \div PageSize]
  <2>5. g \in Pages /\ p \div PageSize \in Logical
    <3>1. /\ p \in Nat /\ p < Width * PageSize
          /\ \A l \in Logical : table[q][l] \in Pages
      BY <2>3, ContextPlaces
    <3> QED BY <3>1, PositionFacts
  <2>6. g \notin Own(r) BY <2>1, <2>5 DEF Own, PagesApart, Logical
  <2>7. data'[g] = data[g] /\ scale'[g] = scale[g]
    <3> HIDE DEF g
    <3> QED BY <1>1, <2>5, <2>6
  <2> QED BY <2>2, <2>4, <2>7 DEF Whole
<1>8. ContextStored' BY <1>7 DEF ContextStored
<1> QED BY <1>1, <1>5, <1>6, <1>8, IdleInvAfter DEF IdleState

-----------------------------------------------------------------------------
(* The beginning of a forward. *)

\* A forward begins with its rows, nothing weighed.
LEMMA ForwardBegins ==
  ASSUME NEW B \in Seq(RowToken), Len(B) <= MaxRows, BeginForward(B)
  PROVE  /\ rows' = B /\ step' = "select" /\ ~Idle' /\ NumRows' = Len(B)
         /\ rows' \in Seq(RowToken) /\ NumRows' <= MaxRows
         /\ out' = [i \in 1 .. NumRows' |-> out'[i]]
         /\ partial' = [i \in 1 .. NumRows' |-> partial'[i]]
         /\ \A i \in 1 .. NumRows' : partial'[i] = [s \in Splits(NumRows') |-> partial'[i][s]]
         /\ Weighed'
<1>1. DOMAIN B = 1 .. Len(B) BY RowTypes
<1>2. rows' = B /\ step' = "select" /\ NumRows' = Len(B) /\ ~Idle'
  BY DEF BeginForward, NumRows, Idle
<1>3. /\ out' = [i \in 1 .. Len(B) |-> {}]
      /\ partial' = [i \in 1 .. Len(B) |-> [s \in Splits(Len(B)) |-> Garbage]]
  BY <1>1 DEF BeginForward, Splits
<1>4. \A i \in DOMAIN rows' : \A s \in Splits(NumRows') : partial'[i][s] = Garbage
  BY <1>1, <1>2, <1>3
<1>5. Weighed' BY <1>2, <1>4 DEF Weighed
<1> QED BY <1>2, <1>3, <1>5

\* The scheduler's batch is one of the target.
LEMMA ScheduleInv ==
  ASSUME AttentionInv, Schedule
  PROVE  AttentionInv'
<1> USE DEF AttentionInv
<1>1. PICK n \in [Request -> 0 .. MaxChunk], pad \in 0 .. 1 :
        /\ \E r \in Request : n[r] > 0
        /\ \A r \in Request : n[r] > 0 => Held(r) /\ context[r] + n[r] <= MaxLen
        /\ Len(Batch(n, pad)) <= MaxRows
        /\ BeginForward(Batch(n, pad))
  BY DEF Schedule
<1>2. /\ Idle /\ rows = << >> /\ draft = 0
      /\ UNCHANGED <<table, context, data, scale, draft, topk, chosen>>
  BY DEF Schedule, Types, cache
<1>3. n \in [Request -> Nat] /\ \A r \in Request : n[r] \in Nat BY Sizes
<1>4. \A r \in Request : context[r] \in 0 .. MaxLen /\ context[r] \in Nat BY Sizes DEF Types
<1> DEFINE b == RowsBefore(n)
           B == Batch(n, pad)
           total == b[NumRequests] + pad
<1>5. /\ b[NumRequests] \in Nat
      /\ B = [i \in 1 .. b[NumRequests] + pad |-> B[i]]
      /\ \A r \in Request : \A i \in b[r] + 1 .. b[r] + n[r] :
           /\ i \in 1 .. b[NumRequests]
           /\ B[i] = Token(r, context[r] + i - b[r] - 1)
      /\ \A i \in 1 .. b[NumRequests] + pad :
           \/ B[i] \in PaddingRow
           \/ \E r \in Request : i \in b[r] + 1 .. b[r] + n[r]
  BY <1>1, <1>3, BatchFacts
<1>6. b \in [0 .. NumRequests -> Nat] /\ Request \subseteq 0 .. NumRequests
  BY <1>3, RowsBeforeFacts, Sizes DEF Request
<1>7. \A r \in Request : b[r] \in Nat BY <1>6
<1> HIDE DEF b, B
<1>8. total \in Nat BY <1>5
<1>9. ASSUME NEW r \in Request, NEW i \in b[r] + 1 .. b[r] + n[r]
      PROVE  B[i] \in Tokens
  <2>1. b[r] \in Nat /\ n[r] \in Nat /\ n[r] > 0 BY <1>3, <1>7
  <2>2. context[r] + n[r] <= MaxLen BY <1>1, <2>1
  <2>3. context[r] + i - b[r] - 1 \in 0 .. MaxLen + NumDrafts
    BY <1>4, <2>1, <2>2, Sizes
  <2>4. B[i] = Token(r, context[r] + i - b[r] - 1) BY <1>5
  <2> QED BY <2>3, <2>4 DEF Token, Tokens
<1>10. \A i \in 1 .. total : B[i] \in RowToken BY <1>5, <1>9 DEF RowToken
<1>11. B \in Seq(RowToken) /\ Len(B) = total
  <2>1. B \in [1 .. total -> RowToken] BY <1>5, <1>10
  <2> HIDE DEF total
  <2>2. B \in Seq(RowToken) BY <1>8, <2>1, SeqDef
  <2>3. DOMAIN B = 1 .. total /\ DOMAIN B = 1 .. Len(B) /\ Len(B) \in Nat
    BY <2>1, <2>2, LenProperties
  <2> QED BY <1>8, <2>2, <2>3
<1>12. /\ rows' = B /\ step' = "select" /\ ~Idle' /\ Weighed'
       /\ rows' \in Seq(RowToken) /\ NumRows' <= MaxRows
       /\ out' = [i \in 1 .. NumRows' |-> out'[i]]
       /\ partial' = [i \in 1 .. NumRows' |-> partial'[i]]
       /\ \A i \in 1 .. NumRows' : partial'[i] = [s \in Splits(NumRows') |-> partial'[i][s]]
  BY <1>1, <1>11, ForwardBegins DEF B
<1>13. Types'
  <2>1. PICK r \in Request : n[r] > 0 BY <1>1
  <2> DEFINE i == b[r] + 1
  <2>2. b[r] \in Nat /\ n[r] \in Nat BY <1>3, <1>7
  <2>3. i \in b[r] + 1 .. b[r] + n[r] BY <2>1, <2>2
  <2> HIDE DEF i
  <2>4. i \in 1 .. total
    <3>1. i \in 1 .. b[NumRequests] BY <1>5, <2>3
    <3> QED BY <1>5, <1>8, <3>1
  <2>5. B[i].pos \in Nat
    <3>1. B[i] \in Tokens BY <1>9, <2>3
    <3> QED BY <3>1 DEF Tokens
  <2>6. i \in Real' BY <1>5, <1>12, <2>4, <2>5, Sizes DEF Real
  <2> QED BY <1>2, <1>12, <2>6 DEF Types
<1>14. PagesApart' BY <1>2 DEF PagesApart
<1>15. TargetRows(B, context, table)
  <2> DEFINE f == [r \in Request |-> b[r]]
  <2>1. f \in [Request -> Nat] /\ \A r \in Request : f[r] = b[r] BY <1>7
  <2> HIDE DEF f
  <2>2. ASSUME NEW r \in Request
        PROVE  /\ {i \in DOMAIN B : B[i].pos # NoPosition /\ B[i].req = r}
                    = f[r] + 1 .. f[r] + n[r]
               /\ \A i \in f[r] + 1 .. f[r] + n[r] : B[i].pos = context[r] + i - f[r] - 1
               /\ context[r] + n[r] <= MaxLen
               /\ n[r] > 0 => table[r][0] \in Pages
    <3>1. f[r] = b[r] /\ b[r] \in Nat /\ n[r] \in Nat BY <1>3, <1>7, <2>1
    <3>2. DOMAIN B = 1 .. total BY <1>5
    <3>3. ASSUME NEW i \in b[r] + 1 .. b[r] + n[r]
          PROVE  /\ i \in DOMAIN B /\ B[i].req = r /\ B[i].pos = context[r] + i - b[r] - 1
                 /\ B[i].pos # NoPosition
      <4>1. i \in 1 .. b[NumRequests] /\ B[i] = Token(r, context[r] + i - b[r] - 1)
        BY <1>5
      <4>2. i \in 1 .. total BY <1>5, <1>8, <4>1
      <4>3. B[i].pos \in Nat
        <5>1. B[i] \in Tokens BY <1>9
        <5> QED BY <5>1 DEF Tokens
      <4> QED BY <3>2, <4>1, <4>2, <4>3, Sizes DEF Token
    <3>4. ASSUME NEW i \in DOMAIN B, B[i].pos # NoPosition, B[i].req = r
          PROVE  i \in b[r] + 1 .. b[r] + n[r]
      <4>1. B[i] \notin PaddingRow BY <3>4 DEF PaddingRow
      <4>2. PICK q \in Request : i \in b[q] + 1 .. b[q] + n[q] BY <1>5, <3>2, <4>1
      <4>3. B[i].req = q
        <5>1. B[i] = Token(q, context[q] + i - b[q] - 1) BY <1>5, <4>2
        <5> QED BY <5>1 DEF Token
      <4> QED BY <3>4, <4>2, <4>3
    <3>5. context[r] + n[r] <= MaxLen
      <4>1. CASE n[r] > 0 BY <1>1, <4>1
      <4>2. CASE n[r] = 0 BY <1>4, <4>2, Sizes
      <4> QED BY <3>1, <4>1, <4>2
    <3>6. n[r] > 0 => table[r][0] \in Pages
      <4>1. 0 \in Logical BY Sizes DEF Logical
      <4>2. table[r][0] \in Pages \union {NoPage} BY <4>1 DEF Types
      <4> QED BY <1>1, <4>2 DEF Held
    <3> QED BY <3>1, <3>3, <3>4, <3>5, <3>6
  <2> QED BY <1>3, <2>1, <2>2 DEF TargetRows
<1>16. Batched' BY <1>2, <1>12, <1>15 DEF Batched
<1>17. Selected' BY <1>2, <1>12 DEF Selected
<1>18. Stored' BY <1>2, <1>12 DEF Stored, ContextStored
<1> QED BY <1>12, <1>13, <1>14, <1>16, <1>17, <1>18

-----------------------------------------------------------------------------
(* The forward. *)

\* A step of the forward leaves the batch and its places alone.
LEMMA SameBatch ==
  ASSUME PagesApart, Batched, UNCHANGED <<table, context, draft, rows>>
  PROVE  PagesApart' /\ Batched' /\ Real' = Real /\ NumRows' = NumRows
         /\ \A i : LastOf(i)' = LastOf(i)
  BY DEF PagesApart, Batched, Real, NumRows, LastOf

\* What a program weighs depends on the batch, the selection and the cache.
LEMMA SameAttended ==
  ASSUME UNCHANGED <<table, data, scale, rows, topk>>, NEW i, NEW s
  PROVE  Attended(i, s)' = Attended(i, s)
<1>1. NumRows' = NumRows BY DEF NumRows
<1>2. Columns(s)' = Columns(s) BY <1>1 DEF Columns
<1>3. \A c : Valid(i, c)' = Valid(i, c) BY DEF Valid
<1>4. \A p, t : Decoded(p, t)' = Decoded(p, t) BY DEF Decoded
<1>5. \A r, p : PageOf(r, p)' = PageOf(r, p) BY DEF PageOf
<1> QED BY <1>2, <1>3, <1>4, <1>5 DEF Attended

\* The indexer selects for every row of the target, and for no draft.
LEMMA SelectInv ==
  ASSUME AttentionInv, Select
  PROVE  AttentionInv'
<1> USE DEF AttentionInv
<1>1. /\ step = "select" /\ step' = "update"
      /\ UNCHANGED <<table, context, data, scale, draft, rows, partial, out>>
  BY DEF Select, cache
<1>2. PagesApart' /\ Batched' /\ Real' = Real /\ NumRows' = NumRows
      /\ \A i : LastOf(i)' = LastOf(i)
  BY <1>1, SameBatch
<1>3. Types' BY <1>1, <1>2 DEF Types, Idle
<1>4. Stored' BY <1>1 DEF Stored, ContextStored
<1>5. Weighed' BY <1>1, <1>2 DEF Weighed
<1>6. Selected'
  <2>1. CASE draft > 0
    <3>1. UNCHANGED <<topk, chosen>> BY <2>1 DEF Select
    <3> QED BY <1>1, <1>2, <2>1, <3>1 DEF Selected
  <2>2. CASE ~(draft > 0)
    <3>0. draft = 0 BY <2>2, Sizes DEF Types
    <3>1. PICK sel \in [Real -> UNION {Chosen(rows[i].pos) : i \in Real}],
               blank \in SUBSET (DOMAIN rows \ Real) :
            /\ \A i \in Real : sel[i] \in Chosen(rows[i].pos)
            /\ topk' = [i \in 1 .. MaxRows |->
                 IF i \in Real THEN AsRow(sel[i])
                 ELSE IF i \in blank THEN AsRow({}) ELSE topk[i]]
            /\ chosen' = [r \in Request |->
                 [p \in {rows[i].pos : i \in {j \in Real : rows[j].req = r}} |->
                    sel[CHOOSE i \in Real : rows[i].req = r /\ rows[i].pos = p]]]
      BY <2>2 DEF Select
    <3>2. ASSUME NEW i \in Real
          PROVE  /\ topk'[i] = AsRow(chosen'[rows[i].req][rows[i].pos])
                 /\ chosen'[rows[i].req][rows[i].pos] \in Chosen(rows[i].pos)
      <4> DEFINE r == rows[i].req
                 p == rows[i].pos
                 Same(j) == rows[j].req = r /\ rows[j].pos = p
                 j == CHOOSE k \in Real : Same(k)
      <4>1. r \in Request BY RowPlaces
      <4>2. chosen'[r][p] = sel[j] BY <3>1, <4>1
      <4>3. j \in Real /\ Same(j) BY DEF Same
      <4>4. j = i
        <5> HIDE DEF j
        <5>1. rows[j] = Token(r, p) /\ rows[i] = Token(r, p) BY <4>3, RowPlaces
        <5> QED BY <4>3, <5>1, RowPlaces
      <4>5. i \in 1 .. MaxRows
        <5>1. i \in 1 .. NumRows /\ NumRows <= MaxRows /\ NumRows \in Nat
          BY RowTypes DEF Types, Real, NumRows
        <5> QED BY <5>1, Sizes
      <4>6. topk'[i] = AsRow(sel[i]) BY <3>1, <4>5
      <4> HIDE DEF j
      <4> QED BY <3>1, <4>2, <4>4, <4>6
    <3> QED BY <1>1, <1>2, <3>0, <3>2 DEF Selected, LastOf
  <2> QED BY <2>1, <2>2
<1> QED BY <1>2, <1>3, <1>4, <1>5, <1>6

\* The update stores the batch's rows.
LEMMA UpdateInv ==
  ASSUME AttentionInv, UpdateCache
  PROVE  AttentionInv'
<1> USE DEF AttentionInv
<1>1. /\ step = "update" /\ step' = "attend"
      /\ UNCHANGED <<table, context, draft, rows, topk, partial, out, chosen>>
  BY DEF UpdateCache
<1>2. PagesApart' /\ Batched' /\ Real' = Real /\ NumRows' = NumRows
      /\ \A i : LastOf(i)' = LastOf(i)
  BY <1>1, SameBatch
<1>3. /\ data' \in [Pages -> [InPage -> Entry]]
      /\ scale' \in [Pages -> [ScaleRegion -> Entry]]
      /\ \A i \in Real : Whole(table, data', scale', rows[i].req, rows[i].pos)
      /\ \A r \in Request : \A p \in 0 .. context[r] - 1 :
           Whole(table, data, scale, r, p) => Whole(table, data', scale', r, p)
  BY UpdateWrites
<1>4. Types' BY <1>1, <1>2, <1>3 DEF Types, Idle
<1>5. Stored' BY <1>1, <1>2, <1>3 DEF Stored, ContextStored
<1>6. Selected' BY <1>1, <1>2 DEF Selected
<1>7. Weighed'
  <2>1. \A i \in DOMAIN rows : \A s \in Splits(NumRows) : partial[i][s] = Garbage
    BY <1>1 DEF Weighed
  <2>2. NumSplits(NumRows) = 1 => 0 \in Splits(NumRows) BY DEF Splits
  <2> QED BY <1>1, <1>2, <2>1, <2>2 DEF Weighed
<1> QED BY <1>2, <1>4, <1>5, <1>6, <1>7

\* A split adds its result, whatever ran before.
LEMMA RunSplitInv ==
  ASSUME AttentionInv, NEW s \in Splits(NumRows), RunSplit(s)
  PROVE  AttentionInv'
<1> USE DEF AttentionInv
<1> DEFINE results == [i \in DOMAIN rows |-> Attended(i, s)]
<1>1. /\ step = "attend" /\ step' = "attend"
      /\ partial' = [i \in DOMAIN rows |-> [partial[i] EXCEPT ![s] = results[i]]]
      /\ out' = IF NumSplits(NumRows) = 1 THEN results ELSE out
      /\ UNCHANGED <<table, context, data, scale, draft, rows, topk, chosen>>
  BY DEF RunSplit, cache
<1>2. PagesApart' /\ Batched' /\ Real' = Real /\ NumRows' = NumRows
      /\ \A i : LastOf(i)' = LastOf(i)
  BY <1>1, SameBatch
<1>3. \A i, u : Attended(i, u)' = Attended(i, u) BY <1>1, SameAttended
<1>4. DOMAIN rows = 1 .. NumRows BY RowTypes DEF Types, NumRows
<1>5. ASSUME NEW i \in 1 .. NumRows
      PROVE  /\ partial'[i] = [u \in Splits(NumRows) |->
                                 IF u = s THEN Attended(i, s) ELSE partial[i][u]]
             /\ partial'[i][s] = Attended(i, s)
  <2>1. partial[i] = [u \in Splits(NumRows) |-> partial[i][u]] BY DEF Types
  <2>2. partial'[i] = [partial[i] EXCEPT ![s] = Attended(i, s)] BY <1>1, <1>4
  <2> QED BY <2>1, <2>2
<1>6. Types'
  <2>1. partial' = [i \in 1 .. NumRows |-> partial'[i]] BY <1>1, <1>4
  <2>2. out' = [i \in 1 .. NumRows |-> out'[i]] BY <1>1, <1>4 DEF Types
  <2>3. \A i \in 1 .. NumRows : partial'[i] = [u \in Splits(NumRows) |-> partial'[i][u]]
    BY <1>5
  <2> QED BY <1>1, <1>2, <2>1, <2>2, <2>3 DEF Types, Idle
<1>7. Stored' BY <1>1, <1>2 DEF Stored, ContextStored
<1>8. Selected' BY <1>1, <1>2 DEF Selected
<1>9. Weighed'
  <2>1. ASSUME NEW i \in DOMAIN rows, NEW u \in Splits(NumRows)
        PROVE  partial'[i][u] = Garbage \/ partial'[i][u] = Attended(i, u)
    <3>1. partial[i][u] = Garbage \/ partial[i][u] = Attended(i, u) BY <1>1 DEF Weighed
    <3> QED BY <1>4, <1>5, <3>1
  <2>2. ASSUME NumSplits(NumRows) = 1, NEW i \in DOMAIN rows
        PROVE  out'[i] = partial'[i][0]
    <3>1. s = 0 BY <2>2 DEF Splits
    <3> QED BY <1>1, <1>4, <1>5, <2>2, <3>1
  <2> QED BY <1>1, <1>2, <1>3, <2>1, <2>2 DEF Weighed
<1> QED BY <1>2, <1>6, <1>7, <1>8, <1>9

\* All splits are there when the kernel ends.
LEMMA EndAttendInv ==
  ASSUME AttentionInv, EndAttend
  PROVE  AttentionInv'
<1> USE DEF AttentionInv
<1>1. /\ step = "attend" /\ step' = IF NumSplits(NumRows) = 1 THEN "done" ELSE "merge"
      /\ \A i \in DOMAIN rows : \A s \in DOMAIN partial[i] : partial[i][s] # Garbage
      /\ UNCHANGED <<table, context, data, scale, draft, rows, topk, partial, out, chosen>>
  BY DEF EndAttend, cache
<1>2. PagesApart' /\ Batched' /\ Real' = Real /\ NumRows' = NumRows
      /\ \A i : LastOf(i)' = LastOf(i)
  BY <1>1, SameBatch
<1>3. \A i, u : Attended(i, u)' = Attended(i, u) BY <1>1, SameAttended
<1>4. Types' BY <1>1, <1>2 DEF Types, Idle
<1>5. Stored' BY <1>1, <1>2 DEF Stored, ContextStored
<1>6. Selected' BY <1>1, <1>2 DEF Selected
<1>7. \A i \in DOMAIN rows : \A s \in Splits(NumRows) : partial[i][s] = Attended(i, s)
  <2>1. DOMAIN rows = 1 .. NumRows BY RowTypes DEF Types, NumRows
  <2>2. \A i \in DOMAIN rows : DOMAIN partial[i] = Splits(NumRows) BY <2>1 DEF Types
  <2> QED BY <1>1, <2>2 DEF Weighed
<1>8. ASSUME NumSplits(NumRows) = 1, NEW i \in DOMAIN rows
      PROVE  out[i] = UNION {Attended(i, s) : s \in Splits(NumRows)}
  <2>1. Splits(NumRows) = {0} BY <1>8 DEF Splits
  <2>2. partial[i][0] # Garbage
    <3>1. DOMAIN rows = 1 .. NumRows BY RowTypes DEF Types, NumRows
    <3>2. 0 \in DOMAIN partial[i] BY <2>1, <3>1 DEF Types
    <3> QED BY <1>1, <3>2
  <2>3. out[i] = partial[i][0] BY <1>1, <1>8, <2>2 DEF Weighed
  <2>4. out[i] = Attended(i, 0) BY <1>7, <2>1, <2>3
  <2> QED BY <2>1, <2>4
<1>9. Weighed' BY <1>1, <1>2, <1>3, <1>7, <1>8 DEF Weighed
<1> QED BY <1>2, <1>4, <1>5, <1>6, <1>9

\* The merge unites them.
LEMMA MergeInv ==
  ASSUME AttentionInv, Merge
  PROVE  AttentionInv'
<1> USE DEF AttentionInv
<1>1. /\ step = "merge" /\ step' = "done"
      /\ out' = [i \in DOMAIN rows |-> UNION {partial[i][s] : s \in DOMAIN partial[i]}]
      /\ UNCHANGED <<table, context, data, scale, draft, rows, topk, partial, chosen>>
  BY DEF Merge, cache
<1>2. PagesApart' /\ Batched' /\ Real' = Real /\ NumRows' = NumRows
      /\ \A i : LastOf(i)' = LastOf(i)
  BY <1>1, SameBatch
<1>3. \A i, u : Attended(i, u)' = Attended(i, u) BY <1>1, SameAttended
<1>4. DOMAIN rows = 1 .. NumRows BY RowTypes DEF Types, NumRows
<1>5. Types' BY <1>1, <1>2, <1>4 DEF Types, Idle
<1>6. Stored' BY <1>1, <1>2 DEF Stored, ContextStored
<1>7. Selected' BY <1>1, <1>2 DEF Selected
<1>8. ASSUME NEW i \in DOMAIN rows
      PROVE  out'[i] = UNION {Attended(i, s) : s \in Splits(NumRows)}
  <2>1. DOMAIN partial[i] = Splits(NumRows) BY <1>4 DEF Types
  <2>2. \A s \in Splits(NumRows) : partial[i][s] = Attended(i, s) BY <1>1 DEF Weighed
  <2> QED BY <1>1, <2>1, <2>2
<1>9. Weighed' BY <1>1, <1>2, <1>3, <1>8 DEF Weighed
<1> QED BY <1>2, <1>5, <1>6, <1>7, <1>9

-----------------------------------------------------------------------------
(* Sampling and the draft steps. *)

\* The rows of a request of the target's batch, counted.
LEMMA TargetCounts ==
  ASSUME Types, Batched, draft = 0
  PROVE  \E b, n \in [Request -> Nat] : \A r \in Request :
           /\ RowsOf(r) = b[r] + 1 .. b[r] + n[r]
           /\ Cardinality(RowsOf(r)) = n[r]
           /\ \A i \in RowsOf(r) : rows[i].pos = context[r] + i - b[r] - 1
           /\ context[r] + n[r] <= MaxLen
           /\ r \in InBatch => n[r] > 0
           /\ n[r] > 0 => (CHOOSE i \in RowsOf(r) : \A j \in RowsOf(r) : i <= j) = b[r] + 1
<1>1. PICK b \in [Request -> Nat], n \in [Request -> Nat] : \A r \in Request :
        /\ {i \in DOMAIN rows : rows[i].pos # NoPosition /\ rows[i].req = r}
             = b[r] + 1 .. b[r] + n[r]
        /\ \A i \in b[r] + 1 .. b[r] + n[r] : rows[i].pos = context[r] + i - b[r] - 1
        /\ context[r] + n[r] <= MaxLen
        /\ n[r] > 0 => table[r][0] \in Pages
  BY DEF Batched, TargetRows
<1>2. ASSUME NEW r \in Request
      PROVE  /\ RowsOf(r) = b[r] + 1 .. b[r] + n[r]
             /\ Cardinality(RowsOf(r)) = n[r]
             /\ \A i \in RowsOf(r) : rows[i].pos = context[r] + i - b[r] - 1
             /\ context[r] + n[r] <= MaxLen
             /\ r \in InBatch => n[r] > 0
             /\ n[r] > 0 => (CHOOSE i \in RowsOf(r) : \A j \in RowsOf(r) : i <= j) = b[r] + 1
  <2>1. RowsOf(r) = b[r] + 1 .. b[r] + n[r] BY <1>1, Sizes DEF RowsOf, Real
  <2>2. b[r] \in Nat /\ n[r] \in Nat OBVIOUS
  <2>3. Cardinality(RowsOf(r)) = n[r]
    <3>1. Cardinality(b[r] + 1 .. b[r] + n[r]) = n[r] BY <2>2, FS_Interval
    <3> QED BY <2>1, <3>1
  <2>4. r \in InBatch => n[r] > 0
    <3>1. r \in InBatch => RowsOf(r) # {} BY DEF InBatch, RowsOf
    <3> QED BY <2>1, <2>2, <3>1
  <2>5. ASSUME n[r] > 0
        PROVE  (CHOOSE i \in RowsOf(r) : \A j \in RowsOf(r) : i <= j) = b[r] + 1
    <3> DEFINE Least(i) == \A j \in RowsOf(r) : i <= j
               i0 == CHOOSE i \in RowsOf(r) : Least(i)
    <3>1. b[r] + 1 \in RowsOf(r) /\ Least(b[r] + 1) BY <2>1, <2>2, <2>5
    <3>2. i0 \in RowsOf(r) /\ Least(i0)
      <4> HIDE DEF Least
      <4> QED BY <3>1
    <3> HIDE DEF i0
    <3>3. i0 <= b[r] + 1 /\ b[r] + 1 <= i0 /\ i0 \in Int BY <2>1, <2>2, <3>1, <3>2
    <3>4. i0 = b[r] + 1 BY <2>2, <3>3
    <3> QED BY <3>4 DEF i0
  <2> QED BY <1>1, <2>1, <2>3, <2>4, <2>5
<1> QED BY <1>2

\* The requests of the batch.
LEMMA InBatchFacts ==
  ASSUME Types
  PROVE  InBatch \subseteq Request /\ InBatch = RequestsOf(rows)
<1>1. \A i \in Real : rows[i].req \in Request BY RowTypes DEF Types, Real
<1> QED BY <1>1 DEF InBatch, Real, RequestsOf

\* A draft step's batch has one row of each request of the step before.
LEMMA DraftBatchFacts ==
  ASSUME Types, ~Idle, NEW n \in [Request -> 0 .. MaxLen], \A r \in InBatch : n[r] > 0,
         NEW d \in 1 .. NumDrafts, NEW pad \in 0 .. 1,
         Cardinality(InBatch) + pad <= MaxRows
  PROVE  LET B == DraftBatch(n, d, pad)
         IN  /\ B \in Seq(RowToken) /\ Len(B) <= MaxRows
             /\ RequestsOf(B) = InBatch /\ InBatch # {}
             /\ DraftRows(B, n, d)
             /\ \A i \in DOMAIN B : B[i].pos # NoPosition =>
                  /\ i \in 1 .. Cardinality(InBatch)
                  /\ B[i].req = Nth(InBatch, i - 1) /\ B[i].req \in InBatch
<1> DEFINE S == InBatch
           k == Cardinality(S)
           B == DraftBatch(n, d, pad)
<1>1. S \subseteq Request BY InBatchFacts
<1>2. k \in Nat /\ IsFiniteSet(S) /\ S \in SUBSET Int BY <1>1, FiniteRequests
<1>3. /\ \A i \in 0 .. k - 1 : Nth(S, i) \in S
      /\ \A q \in S : \E i \in 0 .. k - 1 : Nth(S, i) = q
  <2> HIDE DEF S
  <2> QED BY <1>2, NthFacts
<1>4. B = [i \in 1 .. k + pad |->
             IF i <= k THEN Token(Nth(S, i - 1), n[Nth(S, i - 1)] + d - 1)
             ELSE Token(Nth(S, 1 - 1), NoPosition)]
  BY DEF DraftBatch
<1>5. S # {} /\ \A r \in S : n[r] > 0 BY DEF Types, InBatch
<1> HIDE DEF S, k, B
<1>6. ASSUME NEW i \in 1 .. k
      PROVE  /\ i \in 1 .. k + pad /\ Nth(S, i - 1) \in S
             /\ B[i] = Token(Nth(S, i - 1), n[Nth(S, i - 1)] + d - 1)
             /\ B[i].req = Nth(S, i - 1) /\ B[i].pos # NoPosition
             /\ B[i] \in RowToken
  <2>1. i \in 1 .. k + pad /\ i - 1 \in 0 .. k - 1 /\ i <= k BY <1>2
  <2> DEFINE r == Nth(S, i - 1)
  <2>2. r \in S /\ r \in Request BY <1>1, <1>3, <2>1
  <2>3. B[i] = Token(r, n[r] + d - 1) BY <1>4, <2>1
  <2> HIDE DEF r
  <2>4. n[r] + d - 1 \in 0 .. MaxLen + NumDrafts
    <3>1. n[r] \in 0 .. MaxLen BY <2>2
    <3> QED BY <3>1, Sizes
  <2>5. B[i] \in RowToken BY <2>2, <2>3, <2>4 DEF Token, Tokens, RowToken
  <2>6. B[i].req = r /\ B[i].pos # NoPosition BY <2>3, <2>4, Sizes DEF Token
  <2> QED BY <2>1, <2>2, <2>3, <2>5, <2>6 DEF r
<1>7. ASSUME NEW i \in 1 .. k + pad, i \notin 1 .. k
      PROVE  B[i] \in PaddingRow /\ B[i].pos = NoPosition
  <2>1. ~(i <= k) BY <1>2, <1>7
  <2>2. k > 0
    <3>1. PICK q \in S : TRUE BY <1>5
    <3>2. PICK j \in 0 .. k - 1 : Nth(S, j) = q BY <1>3, <3>1
    <3> QED BY <1>2, <3>2
  <2>3. 1 - 1 \in 0 .. k - 1 BY <1>2, <2>2
  <2>4. Nth(S, 1 - 1) \in Request BY <1>1, <1>3, <2>3
  <2> QED BY <1>4, <2>1, <2>4 DEF Token, PaddingRow
<1>8. DOMAIN B = 1 .. k + pad /\ k + pad \in Nat BY <1>2, <1>4
<1>9. B \in Seq(RowToken) /\ Len(B) = k + pad
  <2>1. \A i \in 1 .. k + pad : B[i] \in RowToken BY <1>6, <1>7 DEF RowToken
  <2>2. B \in [1 .. k + pad -> RowToken] BY <1>4, <2>1
  <2>3. B \in Seq(RowToken) BY <1>8, <2>2, SeqDef
  <2>4. DOMAIN B = 1 .. Len(B) /\ Len(B) \in Nat BY <2>3, LenProperties
  <2> QED BY <1>8, <2>3, <2>4
<1>10. RequestsOf(B) = S
  <2>1. ASSUME NEW q \in S PROVE q \in RequestsOf(B)
    <3>1. PICK i \in 0 .. k - 1 : Nth(S, i) = q BY <1>3
    <3>2. i + 1 \in 1 .. k /\ (i + 1) - 1 = i BY <1>2
    <3>3. i + 1 \in DOMAIN B /\ B[i + 1].req = q /\ B[i + 1].pos # NoPosition
      BY <1>6, <1>8, <3>1, <3>2
    <3> QED BY <3>3 DEF RequestsOf
  <2>2. ASSUME NEW q \in RequestsOf(B) PROVE q \in S
    <3>1. PICK i \in DOMAIN B : B[i].pos # NoPosition /\ q = B[i].req BY DEF RequestsOf
    <3>2. i \in 1 .. k BY <1>7, <1>8, <3>1
    <3> QED BY <1>6, <3>1, <3>2
  <2> QED BY <2>1, <2>2
<1>11. DraftRows(B, n, d)
  <2>1. \A i \in DOMAIN B :
          IF i <= k THEN B[i] = Token(Nth(S, i - 1), n[Nth(S, i - 1)] + d - 1)
          ELSE B[i].pos = NoPosition
    BY <1>2, <1>4, <1>7, <1>8
  <2>2. k <= Len(B) BY <1>2, <1>9
  <2> QED BY <1>1, <1>5, <1>10, <2>1, <2>2 DEF DraftRows, k
<1>12. \A i \in DOMAIN B : B[i].pos # NoPosition =>
         i \in 1 .. k /\ B[i].req = Nth(S, i - 1) /\ B[i].req \in S
  BY <1>6, <1>7, <1>8
<1> QED BY <1>5, <1>9, <1>10, <1>11, <1>12 DEF S, k, B

\* What is forgotten is none of a request's first n tokens.
LEMMA ForgetKeeps ==
  ASSUME Types, NEW n, Forget(n)
  PROVE  /\ data' \in [Pages -> [InPage -> Entry]]
         /\ scale' \in [Pages -> [ScaleRegion -> Entry]]
         /\ \A r \in Request : \A p \in Nat :
              /\ p < Width * PageSize /\ ~(p >= n[r])
              /\ \A l \in Logical : table[r][l] \in Pages
              /\ Whole(table, data, scale, r, p)
              => Whole(table, data', scale', r, p)
<1> DEFINE kept(e) == IF e = Garbage \/ e.pos >= n[e.req] THEN Garbage ELSE e
<1>1. /\ data' = [p \in Pages |-> [t \in DOMAIN data[p] |-> kept(data[p][t])]]
      /\ scale' = [p \in Pages |-> [c \in DOMAIN scale[p] |-> kept(scale[p][c])]]
  BY DEF Forget
<1>2. \A e \in Entry : kept(e) \in Entry BY DEF Entry
<1>3. ASSUME NEW r, NEW p, ~(p >= n[r]) PROVE kept(Token(r, p)) = Token(r, p)
  BY <1>3 DEF Token
<1> HIDE DEF kept
<1>4. \A g \in Pages : /\ DOMAIN data[g] = InPage /\ DOMAIN scale[g] = ScaleRegion
                       /\ \A t \in InPage : data[g][t] \in Entry
                       /\ \A c \in ScaleRegion : scale[g][c] \in Entry
  BY DEF Types
<1>5. data' \in [Pages -> [InPage -> Entry]] BY <1>1, <1>2, <1>4
<1>6. scale' \in [Pages -> [ScaleRegion -> Entry]] BY <1>1, <1>2, <1>4
<1>7. ASSUME NEW r \in Request, NEW p \in Nat, p < Width * PageSize, ~(p >= n[r]),
             \A l \in Logical : table[r][l] \in Pages,
             Whole(table, data, scale, r, p)
      PROVE  Whole(table, data', scale', r, p)
  <2> DEFINE g == table[r][p \div PageSize]
             t == p % PageSize
  <2>1. g \in Pages /\ t \in InPage BY <1>7, PositionFacts
  <2>2. /\ data[g][t] = Token(r, p)
        /\ \A s \in 0 .. ScaleDim - 1 : scale[g][ScaleCoord(t, s)] = Token(r, p)
    BY <1>7 DEF Whole
  <2> HIDE DEF g, t
  <2>3. data'[g][t] = Token(r, p) BY <1>1, <1>3, <1>4, <1>7, <2>1, <2>2
  <2>4. ASSUME NEW s \in 0 .. ScaleDim - 1 PROVE scale'[g][ScaleCoord(t, s)] = Token(r, p)
    <3>1. ScaleCoord(t, s) \in ScaleRegion BY <2>1, CoordIsOwnCell
    <3> QED BY <1>1, <1>3, <1>4, <1>7, <2>1, <2>2, <3>1
  <2> QED BY <2>3, <2>4 DEF Whole, g, t
<1> QED BY <1>5, <1>6, <1>7

\* After the end of a step nothing is left of the batch.
LEMMA EndStepFacts ==
  ASSUME EndStep
  PROVE  /\ step' = "idle" /\ Idle' /\ draft' = 0 /\ draft' \in 0 .. NumDrafts
         /\ rows' = << >> /\ rows' \in Seq(RowToken) /\ NumRows' <= MaxRows
         /\ out' = [i \in 1 .. NumRows' |-> out'[i]]
         /\ partial' = [i \in 1 .. NumRows' |-> partial'[i]]
         /\ \A i \in 1 .. NumRows' : partial'[i] = [s \in Splits(NumRows') |-> partial'[i][s]]
<1>1. /\ step' = "idle" /\ draft' = 0 /\ rows' = << >> /\ partial' = << >> /\ out' = << >>
  BY DEF EndStep
<1>2. NumRows' = 0 /\ 1 .. NumRows' = {} BY <1>1 DEF NumRows
<1>3. rows' \in Seq(RowToken) BY <1>1
<1>4. /\ out' = [i \in 1 .. NumRows' |-> out'[i]]
      /\ partial' = [i \in 1 .. NumRows' |-> partial'[i]]
  BY <1>1, <1>2
<1>5. \A i \in 1 .. NumRows' : partial'[i] = [s \in Splits(NumRows') |-> partial'[i][s]]
  BY <1>2
<1> QED BY <1>1, <1>2, <1>3, <1>4, <1>5, Sizes DEF Idle

\* A draft step begins with one row of each request of the step before.
LEMMA DraftBegins ==
  ASSUME Types, ~Idle, NEW n \in [Request -> 0 .. MaxLen], \A r \in InBatch : n[r] > 0,
         NEW d \in 1 .. NumDrafts, BeginDraft(n, d)
  PROVE  /\ step' = "select" /\ ~Idle' /\ draft' = d /\ draft' \in 0 .. NumDrafts
         /\ rows' \in Seq(RowToken) /\ NumRows' <= MaxRows
         /\ out' = [i \in 1 .. NumRows' |-> out'[i]]
         /\ partial' = [i \in 1 .. NumRows' |-> partial'[i]]
         /\ \A i \in 1 .. NumRows' : partial'[i] = [s \in Splits(NumRows') |-> partial'[i][s]]
         /\ Weighed'
         /\ DraftRows(rows', n, d) /\ Real' # {}
         /\ \A i \in Real' : /\ i \in 1 .. Cardinality(InBatch) /\ i \in 1 .. MaxRows
                             /\ rows'[i].req = Nth(InBatch, i - 1) /\ rows'[i].req \in InBatch
<1>1. PICK pad \in 0 .. 1 :
        /\ Cardinality(InBatch) + pad <= MaxRows
        /\ BeginForward(DraftBatch(n, d, pad))
        /\ draft' = d
  BY DEF BeginDraft
<1> DEFINE B == DraftBatch(n, d, pad)
<1>2. /\ B \in Seq(RowToken) /\ Len(B) <= MaxRows
      /\ DraftRows(B, n, d) /\ RequestsOf(B) # {}
      /\ \A i \in DOMAIN B : B[i].pos # NoPosition =>
           /\ i \in 1 .. Cardinality(InBatch)
           /\ B[i].req = Nth(InBatch, i - 1) /\ B[i].req \in InBatch
  BY <1>1, DraftBatchFacts
<1>3. BeginForward(B) BY <1>1
<1> HIDE DEF B
<1>4. /\ rows' = B /\ step' = "select" /\ ~Idle' /\ NumRows' = Len(B)
      /\ rows' \in Seq(RowToken) /\ NumRows' <= MaxRows
      /\ out' = [i \in 1 .. NumRows' |-> out'[i]]
      /\ partial' = [i \in 1 .. NumRows' |-> partial'[i]]
      /\ \A i \in 1 .. NumRows' : partial'[i] = [s \in Splits(NumRows') |-> partial'[i][s]]
      /\ Weighed'
  BY <1>2, <1>3, ForwardBegins
<1>5. draft' \in 0 .. NumDrafts BY <1>1, Sizes
<1>6. ASSUME NEW i \in Real'
      PROVE  /\ i \in 1 .. Cardinality(InBatch) /\ i \in 1 .. MaxRows
             /\ rows'[i].req = Nth(InBatch, i - 1) /\ rows'[i].req \in InBatch
  <2>1. i \in DOMAIN B /\ B[i].pos # NoPosition BY <1>4 DEF Real
  <2>2. DOMAIN B = 1 .. Len(B) /\ Len(B) \in Nat BY <1>2, RowTypes
  <2>3. i \in 1 .. MaxRows BY <1>2, <2>1, <2>2, Sizes
  <2> QED BY <1>2, <1>4, <2>1, <2>3
<1>7. Real' # {} BY <1>2, <1>4 DEF Real, RequestsOf
<1> QED BY <1>1, <1>2, <1>4, <1>5, <1>6, <1>7

\* What is accepted of a request's rows is a prefix, and not empty.
LEMMA AcceptedFacts ==
  ASSUME Types, PagesApart, Batched, Stored, step = "done", draft = 0,
         NEW kept \in [InBatch -> 1 .. MaxChunk],
         \A r \in InBatch : kept[r] \in Acceptable(Cardinality(RowsOf(r)))
  PROVE  LET after == [r \in Request |-> context[r] + IF r \in InBatch THEN kept[r] ELSE 0]
             first(r) == CHOOSE i \in RowsOf(r) : \A j \in RowsOf(r) : i <= j
         IN  /\ after \in [Request -> 0 .. MaxLen]
             /\ \A r \in InBatch :
                  /\ after[r] > 0
                  /\ first(r) + kept[r] - 1 \in Real
                  /\ rows[first(r) + kept[r] - 1].req = r
                  /\ rows[first(r) + kept[r] - 1].pos = after[r] - 1
             /\ \A r \in Request : after[r] > 0 => \A l \in Logical : table[r][l] \in Pages
             /\ \A r \in Request : \A p \in 0 .. after[r] - 1 : Whole(table, data, scale, r, p)
<1> DEFINE after == [r \in Request |-> context[r] + IF r \in InBatch THEN kept[r] ELSE 0]
           first(r) == CHOOSE i \in RowsOf(r) : \A j \in RowsOf(r) : i <= j
<1>1. PICK b \in [Request -> Nat], n \in [Request -> Nat] : \A r \in Request :
        /\ RowsOf(r) = b[r] + 1 .. b[r] + n[r]
        /\ Cardinality(RowsOf(r)) = n[r]
        /\ \A i \in RowsOf(r) : rows[i].pos = context[r] + i - b[r] - 1
        /\ context[r] + n[r] <= MaxLen
        /\ r \in InBatch => n[r] > 0
        /\ n[r] > 0 => first(r) = b[r] + 1
  BY TargetCounts
<1>2. InBatch \subseteq Request BY InBatchFacts
<1>3. \A r \in Request : context[r] \in 0 .. MaxLen /\ context[r] \in Nat BY Sizes DEF Types
<1>4. \A r \in Request : b[r] \in Nat /\ n[r] \in Nat OBVIOUS
<1> HIDE DEF first
<1>5. ASSUME NEW r \in InBatch
      PROVE  /\ kept[r] \in Nat /\ kept[r] >= 1 /\ kept[r] <= n[r]
             /\ after[r] = context[r] + kept[r]
             /\ first(r) + kept[r] - 1 = b[r] + kept[r]
  <2>1. kept[r] \in Acceptable(n[r]) /\ n[r] > 0 BY <1>1, <1>2
  <2>2. kept[r] \in 1 .. n[r] BY <1>2, <1>4, <2>1 DEF Acceptable
  <2>3. first(r) = b[r] + 1 BY <1>1, <1>2, <2>1
  <2> QED BY <1>2, <1>4, <2>2, <2>3
<1>6. ASSUME NEW r \in Request, r \notin InBatch PROVE after[r] = context[r]
  <2>1. after[r] = context[r] + 0 BY <1>6
  <2> QED BY <1>3, <2>1
<1>7. after \in [Request -> 0 .. MaxLen]
  <2>1. ASSUME NEW r \in Request PROVE after[r] \in 0 .. MaxLen
    <3>1. CASE r \in InBatch
      <4>1. context[r] + n[r] <= MaxLen BY <1>1
      <4>2. after[r] = context[r] + kept[r] /\ kept[r] \in Nat /\ kept[r] <= n[r] BY <1>5, <3>1
      <4> HIDE DEF after
      <4> QED BY <1>3, <1>4, <4>1, <4>2, Sizes
    <3>2. CASE r \notin InBatch BY <1>3, <1>6, <3>2
    <3> QED BY <3>1, <3>2
  <2> QED BY <2>1
<1>8. after = [r \in Request |-> after[r]] OBVIOUS
<1> HIDE DEF after
<1>9. ASSUME NEW r \in InBatch, NEW k \in 1 .. kept[r]
      PROVE  /\ b[r] + k \in Real /\ rows[b[r] + k].req = r
             /\ rows[b[r] + k].pos = context[r] + k - 1
  <2>1. r \in Request BY <1>2
  <2>2. b[r] + k \in RowsOf(r)
    <3>1. b[r] + k \in b[r] + 1 .. b[r] + n[r] BY <1>4, <1>5, <2>1
    <3> QED BY <1>1, <2>1, <3>1
  <2>3. rows[b[r] + k].pos = context[r] + (b[r] + k) - b[r] - 1 BY <1>1, <2>1, <2>2
  <2>4. k \in Nat BY <1>5
  <2>5. context[r] + (b[r] + k) - b[r] - 1 = context[r] + k - 1 BY <1>3, <1>4, <2>1, <2>4
  <2> QED BY <2>2, <2>3, <2>5 DEF RowsOf
<1>10. ASSUME NEW r \in InBatch
       PROVE  /\ after[r] > 0
              /\ first(r) + kept[r] - 1 \in Real
              /\ rows[first(r) + kept[r] - 1].req = r
              /\ rows[first(r) + kept[r] - 1].pos = after[r] - 1
  <2>1. kept[r] \in 1 .. kept[r] BY <1>5
  <2>2. /\ r \in Request /\ context[r] \in Nat /\ kept[r] \in Nat /\ kept[r] >= 1
        /\ after[r] = context[r] + kept[r]
    BY <1>2, <1>3, <1>5
  <2>3. after[r] > 0 BY <2>2
  <2>4. /\ b[r] + kept[r] \in Real /\ rows[b[r] + kept[r]].req = r
        /\ rows[b[r] + kept[r]].pos = context[r] + kept[r] - 1
    BY <1>9, <2>1
  <2>5. first(r) + kept[r] - 1 = b[r] + kept[r] BY <1>5
  <2> QED BY <2>2, <2>3, <2>4, <2>5
<1>11. ASSUME NEW r \in Request, after[r] > 0 PROVE \A l \in Logical : table[r][l] \in Pages
  <2>1. CASE r \in InBatch
    <3>1. first(r) + kept[r] - 1 \in Real /\ rows[first(r) + kept[r] - 1].req = r
      BY <1>10, <2>1
    <3> QED BY <3>1, RowPlaces
  <2>2. CASE r \notin InBatch
    <3>1. table[r][0] \in Pages BY <1>6, <1>11, <2>2 DEF PagesApart
    <3> QED BY <3>1, AllPages
  <2> QED BY <2>1, <2>2
<1>12. ASSUME NEW r \in Request, NEW p \in 0 .. after[r] - 1
       PROVE  Whole(table, data, scale, r, p)
  <2>1. after[r] \in Nat /\ p \in Nat /\ p < after[r] BY <1>7, Sizes
  <2>2. CASE p < context[r]
    <3>1. p \in 0 .. context[r] - 1 BY <1>3, <2>1, <2>2
    <3> QED BY <3>1 DEF Stored, ContextStored
  <2>3. CASE ~(p < context[r])
    <3>1. r \in InBatch BY <1>6, <2>1, <2>3
    <3>2. p < context[r] + kept[r] /\ kept[r] \in Nat BY <1>5, <2>1, <3>1
    <3> DEFINE k == p - context[r] + 1
    <3>3. k \in 1 .. kept[r] /\ context[r] + k - 1 = p BY <1>3, <2>1, <2>3, <3>2
    <3> HIDE DEF k
    <3>4. b[r] + k \in Real /\ rows[b[r] + k].req = r /\ rows[b[r] + k].pos = p
      BY <1>9, <3>1, <3>3
    <3> QED BY <3>4 DEF Stored
  <2> QED BY <2>2, <2>3
<1> QED BY <1>7, <1>10, <1>11, <1>12 DEF after, first

\* Sampling accepts what the cache has, and hands each request's last accepted
\* row of the selection to the drafter.
LEMMA SampleInv ==
  ASSUME AttentionInv, Sample
  PROVE  AttentionInv'
<1> USE DEF AttentionInv
<1>1. /\ step = "done" /\ draft = 0 /\ table' = table
  BY DEF Sample
<1>2. PICK kept \in [InBatch -> 1 .. MaxChunk] :
        LET after == [r \in Request |-> context[r] + IF r \in InBatch THEN kept[r] ELSE 0]
        IN  /\ \A r \in InBatch : kept[r] \in Acceptable(Cardinality(RowsOf(r)))
            /\ context' = after
            /\ Forget(after)
            /\ IF NumDrafts = 0 THEN EndStep
               ELSE /\ BeginDraft(after, 1)
                    /\ topk' = Compact(kept)
                    /\ UNCHANGED chosen
  BY DEF Sample
<1> DEFINE after == [r \in Request |-> context[r] + IF r \in InBatch THEN kept[r] ELSE 0]
           first(r) == CHOOSE i \in RowsOf(r) : \A j \in RowsOf(r) : i <= j
<1>3. /\ context' = after /\ Forget(after)
      /\ NumDrafts = 0 => EndStep
      /\ NumDrafts # 0 => BeginDraft(after, 1) /\ topk' = Compact(kept) /\ UNCHANGED chosen
  BY <1>2
<1>4. /\ after \in [Request -> 0 .. MaxLen]
      /\ \A r \in InBatch :
           /\ after[r] > 0
           /\ first(r) + kept[r] - 1 \in Real
           /\ rows[first(r) + kept[r] - 1].req = r
           /\ rows[first(r) + kept[r] - 1].pos = after[r] - 1
      /\ \A r \in Request : after[r] > 0 => \A l \in Logical : table[r][l] \in Pages
      /\ \A r \in Request : \A p \in 0 .. after[r] - 1 : Whole(table, data, scale, r, p)
  BY <1>1, <1>2, AcceptedFacts
<1> HIDE DEF after
<1>5. /\ data' \in [Pages -> [InPage -> Entry]]
      /\ scale' \in [Pages -> [ScaleRegion -> Entry]]
      /\ \A r \in Request : \A p \in Nat :
           /\ p < Width * PageSize /\ ~(p >= after[r])
           /\ \A l \in Logical : table[r][l] \in Pages
           /\ Whole(table, data, scale, r, p)
           => Whole(table, data', scale', r, p)
  BY <1>3, ForgetKeeps
<1>6. ContextStored'
  <2>1. ASSUME NEW r \in Request, NEW p \in 0 .. after[r] - 1
        PROVE  Whole(table, data', scale', r, p)
    <3>1. after[r] \in 0 .. MaxLen BY <1>4
    <3>2. p \in Nat /\ p < after[r] /\ after[r] > 0 BY <3>1, Sizes
    <3>3. Width * PageSize \in Int BY Sizes
    <3>4. p < Width * PageSize /\ ~(p >= after[r]) BY <3>1, <3>2, <3>3, Sizes
    <3>5. Whole(table, data, scale, r, p) BY <1>4
    <3> QED BY <1>4, <1>5, <3>2, <3>4, <3>5
  <2> QED BY <1>1, <1>3, <2>1 DEF ContextStored
<1>7. PagesApart'
  <2>1. \A r \in Request : context'[r] > 0 => table'[r][0] \in Pages
    <3>1. 0 \in Logical BY Sizes DEF Logical
    <3> QED BY <1>1, <1>3, <1>4, <3>1
  <2> QED BY <1>1, <2>1 DEF PagesApart
<1>8. CASE NumDrafts = 0
  <2>1. EndStep BY <1>3, <1>8
  <2>2. Types' BY <1>1, <1>3, <1>4, <1>5, <2>1, EndStepFacts DEF Types
  <2>3. IdleState' BY <1>6, <1>7, <2>1, <2>2, EndStepFacts DEF IdleState
  <2> QED BY <2>3, IdleInvAfter
<1>9. CASE NumDrafts # 0
  <2>1. BeginDraft(after, 1) /\ topk' = Compact(kept) /\ UNCHANGED chosen BY <1>3, <1>9
  <2>2. 1 \in 1 .. NumDrafts BY <1>9, Sizes
  <2>3. /\ step' = "select" /\ ~Idle' /\ draft' = 1 /\ draft' \in 0 .. NumDrafts
        /\ rows' \in Seq(RowToken) /\ NumRows' <= MaxRows
        /\ out' = [i \in 1 .. NumRows' |-> out'[i]]
        /\ partial' = [i \in 1 .. NumRows' |-> partial'[i]]
        /\ \A i \in 1 .. NumRows' : partial'[i] = [s \in Splits(NumRows') |-> partial'[i][s]]
        /\ Weighed'
        /\ DraftRows(rows', after, 1) /\ Real' # {}
        /\ \A i \in Real' : /\ i \in 1 .. Cardinality(InBatch) /\ i \in 1 .. MaxRows
                            /\ rows'[i].req = Nth(InBatch, i - 1) /\ rows'[i].req \in InBatch
    BY <1>1, <1>4, <2>1, <2>2, DraftBegins DEF Idle
  <2>4. Types' BY <1>1, <1>3, <1>4, <1>5, <2>3 DEF Types
  <2>5. Batched' BY <1>3, <2>3 DEF Batched
  <2>6. Stored' BY <1>6, <2>3 DEF Stored
  <2>7. Selected'
    <3>1. ASSUME NEW i \in Real'
          PROVE  /\ topk'[i] = AsRow(chosen'[rows'[i].req][context'[rows'[i].req] - 1])
                 /\ chosen'[rows'[i].req][context'[rows'[i].req] - 1]
                      \in Chosen(context'[rows'[i].req] - 1)
      <4> DEFINE r == Nth(InBatch, i - 1)
                 j == first(r) + kept[r] - 1
      <4>1. /\ i \in 1 .. Cardinality(InBatch) /\ i \in 1 .. MaxRows
            /\ rows'[i].req = r /\ r \in InBatch
        BY <2>3
      <4>2. topk'[i] = topk[j]
        <5>1. Cardinality(InBatch) \in Nat BY InBatchFacts, FiniteRequests
        <5>2. i <= Cardinality(InBatch) BY <4>1, <5>1
        <5>3. topk' = [x \in 1 .. MaxRows |->
                IF x <= Cardinality(InBatch)
                THEN topk[first(Nth(InBatch, x - 1)) + kept[Nth(InBatch, x - 1)] - 1]
                ELSE topk[x]]
          BY <2>1 DEF Compact
        <5> HIDE DEF first
        <5> QED BY <4>1, <5>2, <5>3
      <4>3. j \in Real /\ rows[j].req = r /\ rows[j].pos = after[r] - 1 BY <1>4, <4>1
      <4> HIDE DEF r, j
      <4>4. LastOf(j) = after[r] - 1 BY <1>1, <4>3 DEF LastOf
      <4>5. /\ topk[j] = AsRow(chosen[r][after[r] - 1])
            /\ chosen[r][after[r] - 1] \in Chosen(after[r] - 1)
        BY <1>1, <4>3, <4>4 DEF Selected
      <4> QED BY <1>3, <2>1, <4>1, <4>2, <4>5
    <3> QED BY <2>3, <3>1 DEF Selected, LastOf
  <2> QED BY <1>7, <2>3, <2>4, <2>5, <2>6, <2>7
<1> QED BY <1>8, <1>9

\* The next draft step has the rows of the one before, one position on.
LEMMA NextDraftInv ==
  ASSUME AttentionInv, NextDraft
  PROVE  AttentionInv'
<1> USE DEF AttentionInv
<1>1. /\ step = "done" /\ draft > 0 /\ table' = table /\ context' = context
      /\ draft = NumDrafts => EndStep /\ Forget(context)
      /\ draft # NumDrafts => /\ BeginDraft(context, draft + 1)
                              /\ UNCHANGED <<topk, chosen, data, scale>>
  BY DEF NextDraft, cache
<1>2. PagesApart' BY <1>1 DEF PagesApart
<1>3. context \in [Request -> 0 .. MaxLen] BY DEF Types
<1>4. draft \in 0 .. NumDrafts /\ draft # 0 BY <1>1, Sizes DEF Types
<1>5. DraftRows(rows, context, draft) /\ InBatch = RequestsOf(rows) /\ InBatch \subseteq Request
  BY <1>4, InBatchFacts DEF Batched
<1>6. CASE draft = NumDrafts
  <2>1. EndStep /\ Forget(context) BY <1>1, <1>6
  <2>2. /\ data' \in [Pages -> [InPage -> Entry]]
        /\ scale' \in [Pages -> [ScaleRegion -> Entry]]
        /\ \A r \in Request : \A p \in Nat :
             /\ p < Width * PageSize /\ ~(p >= context[r])
             /\ \A l \in Logical : table[r][l] \in Pages
             /\ Whole(table, data, scale, r, p)
             => Whole(table, data', scale', r, p)
    BY <2>1, ForgetKeeps
  <2>3. ContextStored'
    <3>1. ASSUME NEW r \in Request, NEW p \in 0 .. context[r] - 1
          PROVE  Whole(table, data', scale', r, p)
      <4>1. /\ p \in Nat /\ p < Width * PageSize /\ p < context[r]
            /\ \A l \in Logical : table[r][l] \in Pages
        BY ContextPlaces
      <4>2. context[r] \in Nat BY <1>3
      <4>3. ~(p >= context[r]) BY <4>1, <4>2
      <4>4. Whole(table, data, scale, r, p) BY DEF Stored, ContextStored
      <4> QED BY <2>2, <4>1, <4>3, <4>4
    <3> QED BY <1>1, <3>1 DEF ContextStored
  <2>4. Types' BY <1>1, <1>3, <2>1, <2>2, EndStepFacts DEF Types
  <2>5. IdleState' BY <1>2, <2>1, <2>3, <2>4, EndStepFacts DEF IdleState
  <2> QED BY <2>5, IdleInvAfter
<1>7. CASE draft # NumDrafts
  <2>1. BeginDraft(context, draft + 1) /\ UNCHANGED <<topk, chosen, data, scale>>
    BY <1>1, <1>7
  <2>2. draft + 1 \in 1 .. NumDrafts BY <1>4, <1>7, Sizes
  <2>3. \A r \in InBatch : context[r] > 0 BY <1>5 DEF DraftRows
  <2> DEFINE d == draft + 1
  <2>4. /\ step' = "select" /\ ~Idle' /\ draft' = d /\ draft' \in 0 .. NumDrafts
        /\ rows' \in Seq(RowToken) /\ NumRows' <= MaxRows
        /\ out' = [i \in 1 .. NumRows' |-> out'[i]]
        /\ partial' = [i \in 1 .. NumRows' |-> partial'[i]]
        /\ \A i \in 1 .. NumRows' : partial'[i] = [s \in Splits(NumRows') |-> partial'[i][s]]
        /\ Weighed'
        /\ DraftRows(rows', context, d) /\ Real' # {}
        /\ \A i \in Real' : /\ i \in 1 .. Cardinality(InBatch) /\ i \in 1 .. MaxRows
                            /\ rows'[i].req = Nth(InBatch, i - 1) /\ rows'[i].req \in InBatch
    <3>1. d \in 1 .. NumDrafts /\ BeginDraft(context, d) BY <2>1, <2>2
    <3> HIDE DEF d
    <3> QED BY <1>1, <1>3, <2>3, <3>1, DraftBegins DEF Idle
  <2>5. draft' > 0 /\ draft' # 0 BY <1>4, <2>4, Sizes
  <2>6. Types' BY <1>1, <2>1, <2>4 DEF Types
  <2>7. Batched' BY <1>1, <2>4, <2>5 DEF Batched
  <2>8. Stored' BY <1>1, <2>1, <2>4 DEF Stored, ContextStored
  <2>9. Selected'
    <3>1. ASSUME NEW i \in Real'
          PROVE  /\ i \in Real /\ rows[i].req = rows'[i].req
      <4> DEFINE k == Cardinality(InBatch)
                 r == Nth(InBatch, i - 1)
      <4>1. i \in 1 .. k /\ rows'[i].req = r /\ r \in InBatch BY <2>4
      <4>2. /\ k <= Len(rows) /\ k \in Nat /\ DOMAIN rows = 1 .. Len(rows) /\ Len(rows) \in Nat
        <5>1. k <= Len(rows) BY <1>5 DEF DraftRows
        <5> QED BY <1>5, <5>1, FiniteRequests, RowTypes DEF Types
      <4>3. \A x \in DOMAIN rows :
              x <= k => rows[x] = Token(Nth(InBatch, x - 1),
                                        context[Nth(InBatch, x - 1)] + draft - 1)
        BY <1>5 DEF DraftRows
      <4>4. r \in Request /\ context[r] \in Nat
        <5> HIDE DEF r
        <5>1. r \in Request BY <1>5, <4>1
        <5>2. context[r] \in 0 .. MaxLen BY <1>3, <5>1
        <5> QED BY <5>1, <5>2, Sizes
      <4> HIDE DEF k
      <4>5. i \in DOMAIN rows /\ i <= k BY <4>1, <4>2
      <4>6. rows[i] = Token(r, context[r] + draft - 1) BY <4>3, <4>5
      <4> HIDE DEF r
      <4>7. rows[i].req = r /\ rows[i].pos = context[r] + draft - 1 BY <4>6 DEF Token
      <4>8. rows[i].pos \in Nat BY <1>4, <4>4, <4>7, Sizes
      <4> QED BY <4>1, <4>5, <4>7, <4>8, Sizes DEF Real
    <3>2. ASSUME NEW i \in Real'
          PROVE  /\ topk'[i] = AsRow(chosen'[rows'[i].req][LastOf(i)'])
                 /\ chosen'[rows'[i].req][LastOf(i)'] \in Chosen(LastOf(i)')
      <4>1. i \in Real /\ rows[i].req = rows'[i].req BY <3>1
      <4>2. LastOf(i)' = LastOf(i) BY <1>1, <1>4, <2>5, <4>1 DEF LastOf
      <4>3. /\ topk[i] = AsRow(chosen[rows[i].req][LastOf(i)])
            /\ chosen[rows[i].req][LastOf(i)] \in Chosen(LastOf(i))
        BY <1>1, <4>1 DEF Selected
      <4> QED BY <2>1, <4>1, <4>2, <4>3
    <3> QED BY <3>2 DEF Selected
  <2> QED BY <1>2, <2>4, <2>6, <2>7, <2>8, <2>9
<1> QED BY <1>6, <1>7

\* A step that changes nothing keeps the invariant.
LEMMA StutterInv ==
  ASSUME AttentionInv, UNCHANGED vars
  PROVE  AttentionInv'
<1> USE DEF AttentionInv
<1>1. UNCHANGED <<table, context, data, scale, step, draft, rows, topk, partial, out, chosen>>
  BY DEF vars, cache
<1>2. PagesApart' /\ Batched' /\ Real' = Real /\ NumRows' = NumRows
      /\ \A i : LastOf(i)' = LastOf(i)
  BY <1>1, SameBatch
<1>3. \A i, u : Attended(i, u)' = Attended(i, u) BY <1>1, SameAttended
<1>4. Types' BY <1>1, <1>2 DEF Types, Idle
<1>5. Stored' BY <1>1, <1>2 DEF Stored, ContextStored
<1>6. Selected' BY <1>1, <1>2 DEF Selected
<1>7. Weighed' BY <1>1, <1>2, <1>3 DEF Weighed
<1> QED BY <1>2, <1>4, <1>5, <1>6, <1>7

\* The invariant holds in every state of the layer and its drafter: pages have
\* one owner, rows lie behind their contexts, the buffer has their selections,
\* the cache their tokens, and the kernel weighs what it should.
THEOREM AttentionInvariance == Spec => []AttentionInv
<1>1. ASSUME AttentionInv, [Next]_vars PROVE AttentionInv'
  <2>1. CASE UNCHANGED vars BY <1>1, <2>1, StutterInv
  <2>2. CASE \E r \in Request : Admit(r) BY <1>1, <2>2, AdmitInv
  <2>3. CASE \E r \in Request : Release(r) BY <1>1, <2>3, ReleaseInv
  <2>4. CASE \E s \in 0 .. NumSplits(NumRows) - 1 : RunSplit(s)
    BY <1>1, <2>4, RunSplitInv DEF Splits
  <2> QED
    BY <1>1, <2>1, <2>2, <2>3, <2>4, ScheduleInv, SelectInv, UpdateInv, EndAttendInv,
       MergeInv, SampleInv, NextDraftInv
    DEF Next
<1> QED BY <1>1, InitInv, PTL DEF Spec

-----------------------------------------------------------------------------
(* The properties. *)

\* Every variable has its type, the batch fits the buffers (qsa.py's class
\* attributes).
THEOREM AttentionTypes == Spec => []TypeOK
<1>1. ASSUME Types PROVE TypeOK
  <2>1. NumRows \in Nat /\ DOMAIN rows = 1 .. NumRows
    BY <1>1, RowTypes DEF Types, NumRows
  <2>2. Len(out) = NumRows
    <3>1. out = [i \in 1 .. NumRows |-> out[i]] BY <1>1 DEF Types
    <3> QED BY <2>1, <3>1, LenOfDomain
  <2>3. Len(partial) = NumRows
    <3>1. partial = [i \in 1 .. NumRows |-> partial[i]] BY <1>1 DEF Types
    <3> QED BY <2>1, <3>1, LenOfDomain
  <2>4. \A i \in DOMAIN rows : rows[i] \in Tokens \union [req : Request, pos : {NoPosition}]
    BY <1>1, RowTypes DEF Types, RowToken, PaddingRow
  <2>5. \A p \in Pages : \A c \in DOMAIN scale[p] : scale[p][c] \in Tokens \union {Garbage}
    BY <1>1 DEF Types, Entry
  <2> QED BY <1>1, <2>2, <2>3, <2>4, <2>5 DEF Types, TypeOK, Logical, InPage, Entry, NumRows
<1>2. AttentionInv => TypeOK BY <1>1 DEF AttentionInv
<1> QED BY <1>2, AttentionInvariance, PTL

\* Between steps the kernel decodes every accepted token of a request to that
\* token, data and block scales (do_kv_cache_update).
THEOREM ContextInCache == Spec => []CacheHoldsContext
<1>1. ASSUME AttentionInv PROVE CacheHoldsContext
  <2> SUFFICES ASSUME NEW r \in Request, NEW p \in 0 .. context[r] - 1
               PROVE  Decoded(PageOf(r, p), p % PageSize) = {Token(r, p)}
    BY DEF CacheHoldsContext
  <2>1. Whole(table, data, scale, r, p)
    BY <1>1 DEF AttentionInv, Stored, ContextStored
  <2> QED BY <2>1, WholeIsDecoded
<1> QED BY <1>1, AttentionInvariance, PTL

\* No split has a column below 0.
LEMMA ColumnsFromZero ==
  ASSUME NumRows \in 0 .. MaxRows, NEW s \in Splits(NumRows), NEW c \in Columns(s)
  PROVE  c \in Nat
<1> DEFINE b == BlockN(NumRows)
           tiles == NumTiles(NumRows)
           n == NumSplits(NumRows)
           low == s * tiles
<1>1. b \in Nat \ {0} /\ tiles \in Nat \ {0} /\ n \in Nat \ {0} BY TileFacts, NumSplitsFacts
<1>2. PICK t \in SplitTiles(s, tiles, n), x \in 0 .. b - 1 : c = t * b + x BY DEF Columns
<1>3. t \in Int /\ t >= low \div n BY DEF SplitTiles
<1>4. s \in Nat
  <2>1. s \in 0 .. n - 1 BY DEF Splits
  <2> HIDE DEF n
  <2> QED BY <1>1, <2>1
<1> HIDE DEF b, tiles, n
<1>5. low \in Nat BY <1>1, <1>4
<1> HIDE DEF low
<1>6. low \div n \in Nat BY <1>1, <1>5, DivFacts
<1>7. t \in Nat BY <1>3, <1>6
<1>8. t * b \in Nat BY <1>1, <1>7
<1> QED BY <1>1, <1>2, <1>8

\* A selection and the row of the buffer that holds it.
LEMMA SelectionFacts ==
  ASSUME NEW last \in Nat, NEW sel \in Chosen(last)
  PROVE  /\ sel \in SUBSET Int /\ IsFiniteSet(sel) /\ Cardinality(sel) \in Nat
         /\ Cardinality(sel) <= TopK
         /\ \A q \in sel : q \in Nat /\ q <= last
         /\ AsRow(sel) # Garbage
         /\ \A c \in 0 .. TopK - 1 :
              AsRow(sel)[c] = IF c < Cardinality(sel) THEN Nth(sel, c) ELSE -1
<1>1. sel \in SUBSET (0 .. last) /\ Cardinality(sel) = IF last < TopK THEN last + 1 ELSE TopK
  BY DEF Chosen
<1>2. /\ IsFiniteSet(sel) /\ sel \in SUBSET Int /\ \A q \in sel : q \in Nat /\ q <= last
  <2>1. IsFiniteSet(0 .. last) BY FS_Interval
  <2>2. IsFiniteSet(sel) BY <1>1, <2>1, FS_Subset
  <2>3. \A q \in sel : q \in 0 .. last BY <1>1
  <2>4. \A q \in 0 .. last : q \in Nat /\ q \in Int /\ q <= last OBVIOUS
  <2> QED BY <2>2, <2>3, <2>4
<1>3. Cardinality(sel) \in Nat /\ Cardinality(sel) <= TopK
  BY <1>1, <1>2, FS_CardinalityType, Sizes
<1>4. AsRow(sel) = [c \in 0 .. TopK - 1 |->
                      IF c < Cardinality(sel) THEN Nth(sel, c) ELSE -1]
  BY DEF AsRow
<1>5. \A c \in 0 .. TopK - 1 : (IF c < Cardinality(sel) THEN Nth(sel, c) ELSE -1) \in Int
  <2> TAKE c \in 0 .. TopK - 1
  <2>1. CASE c < Cardinality(sel)
    <3>1. c \in 0 .. Cardinality(sel) - 1 BY <1>3, <2>1
    <3>2. Nth(sel, c) \in sel BY <1>2, <3>1, NthFacts
    <3> QED BY <1>2, <2>1, <3>2
  <2>2. CASE ~(c < Cardinality(sel)) BY <2>2
  <2> QED BY <2>1, <2>2
<1>6. AsRow(sel) \in [0 .. TopK - 1 -> Int] BY <1>4, <1>5
<1>7. AsRow(sel) # Garbage BY <1>6, ConstantsAssumption
<1>8. \A c \in 0 .. TopK - 1 :
        AsRow(sel)[c] = IF c < Cardinality(sel) THEN Nth(sel, c) ELSE -1
  BY <1>4
<1> QED BY <1>2, <1>3, <1>7, <1>8

\* What a row's selection names is in the cache when the kernel runs: it is in
\* the context, or one of the rows the update has just written.
LEMMA SelectedIsStored ==
  ASSUME AttentionInv, step \in {"attend", "merge", "done"}, NEW i \in Real
  PROVE  LET r == rows[i].req
             sel == chosen[r][LastOf(i)]
         IN  /\ LastOf(i) \in Nat /\ sel \in Chosen(LastOf(i)) /\ topk[i] = AsRow(sel)
             /\ r \in Request
             /\ \A q \in sel : /\ q \div PageSize \in Logical
                               /\ table[r][q \div PageSize] \in Pages
                               /\ Decoded(PageOf(r, q), q % PageSize) = {Token(r, q)}
<1> USE DEF AttentionInv
<1> DEFINE r == rows[i].req
           p == rows[i].pos
           sel == chosen[r][LastOf(i)]
<1>1. /\ r \in Request /\ p \in Nat /\ p < Width * PageSize
      /\ context[r] <= p /\ (draft > 0 => context[r] > 0)
      /\ \A l \in Logical : table[r][l] \in Pages
      /\ draft = 0 => \A q \in context[r] .. p : \E j \in Real : rows[j] = Token(r, q)
  BY RowPlaces
<1>2. context[r] \in Nat /\ draft \in Nat BY <1>1, Sizes DEF Types
<1>3. LastOf(i) \in Nat /\ LastOf(i) <= p /\ (draft > 0 => LastOf(i) < context[r])
  <2>1. CASE draft = 0 BY <1>1, <2>1 DEF LastOf
  <2>2. CASE draft # 0
    <3>1. LastOf(i) = context[r] - 1 BY <2>2 DEF LastOf
    <3> HIDE DEF r, p
    <3> QED BY <1>1, <1>2, <2>2, <3>1
  <2> QED BY <2>1, <2>2
<1>4. topk[i] = AsRow(sel) /\ sel \in Chosen(LastOf(i)) BY DEF Selected
<1>5. \A q \in sel : q \in Nat /\ q <= LastOf(i) BY <1>3, <1>4, SelectionFacts
<1> HIDE DEF r, p, sel
<1>6. ASSUME NEW q \in sel
      PROVE  /\ q \div PageSize \in Logical /\ table[r][q \div PageSize] \in Pages
             /\ Decoded(PageOf(r, q), q % PageSize) = {Token(r, q)}
  <2>1. q \in Nat /\ q <= p BY <1>1, <1>3, <1>5
  <2>2. q < Width * PageSize
    <3>1. Width * PageSize \in Int BY Sizes
    <3> QED BY <1>1, <2>1, <3>1
  <2>3. q \div PageSize \in Logical BY <2>1, <2>2, PositionFacts
  <2>4. Whole(table, data, scale, r, q)
    <3>1. CASE q < context[r]
      <4>1. q \in 0 .. context[r] - 1 BY <1>2, <2>1, <3>1
      <4> QED BY <1>1, <4>1 DEF Stored, ContextStored
    <3>2. CASE ~(q < context[r])
      <4>1. draft = 0 /\ q \in context[r] .. p BY <1>2, <1>3, <1>5, <2>1, <1>1, <3>2
      <4>2. PICK j \in Real : rows[j] = Token(r, q) BY <1>1, <4>1
      <4>3. rows[j].req = r /\ rows[j].pos = q BY <4>2 DEF Token
      <4> QED BY <4>3 DEF Stored
    <3> QED BY <3>1, <3>2
  <2> QED BY <1>1, <2>3, <2>4, WholeIsDecoded
<1> QED BY <1>1, <1>3, <1>4, <1>6 DEF r, p, sel

\* The splits together attend once to each member of the row's selection.
LEMMA SplitsAttendOnce ==
  ASSUME AttentionInv, step \in {"attend", "merge", "done"}, NEW i \in Real
  PROVE  LET r == rows[i].req
             sel == chosen[r][LastOf(i)]
             all == UNION {Attended(i, s) : s \in Splits(NumRows)}
         IN  /\ {o.entry : o \in all} = {{Token(r, p)} : p \in sel}
             /\ Cardinality(all) = Cardinality(sel)
<1> DEFINE r == rows[i].req
           sel == chosen[r][LastOf(i)]
           n == Cardinality(sel)
           all == UNION {Attended(i, s) : s \in Splits(NumRows)}
<1>1. /\ LastOf(i) \in Nat /\ sel \in Chosen(LastOf(i)) /\ topk[i] = AsRow(sel)
      /\ r \in Request
      /\ \A q \in sel : /\ q \div PageSize \in Logical
                        /\ table[r][q \div PageSize] \in Pages
                        /\ Decoded(PageOf(r, q), q % PageSize) = {Token(r, q)}
  BY SelectedIsStored
<1>2. NumRows \in 0 .. MaxRows
  BY RowTypes, Sizes DEF AttentionInv, Types, NumRows
<1>3. r = rows[i].req OBVIOUS
<1> HIDE DEF r, sel
<1>4. /\ sel \in SUBSET Int /\ IsFiniteSet(sel) /\ n \in Nat /\ n <= TopK
      /\ \A q \in sel : q \in Nat
      /\ topk[i] # Garbage
      /\ \A c \in 0 .. TopK - 1 : topk[i][c] = IF c < n THEN Nth(sel, c) ELSE -1
  BY <1>1, SelectionFacts
<1>5. /\ \A k \in 0 .. n - 1 : Nth(sel, k) \in sel /\ Cardinality({x \in sel : x < Nth(sel, k)}) = k
      /\ \A q \in sel : \E k \in 0 .. n - 1 : Nth(sel, k) = q
  BY <1>4, NthFacts
<1> HIDE DEF n
<1>6. \A c \in 0 .. n - 1 : c \in 0 .. TopK - 1 /\ c < n /\ topk[i][c] = Nth(sel, c)
  BY <1>4, Sizes
<1>7. ASSUME NEW c \in 0 .. TopK - 1 PROVE Valid(i, c) <=> c \in 0 .. n - 1
  <2>1. CASE c \in 0 .. n - 1
    <3> DEFINE l == topk[i][c]
    <3>1. l \in sel BY <1>5, <1>6, <2>1
    <3> HIDE DEF l
    <3>2. l \in Nat /\ l \div PageSize \in Logical /\ table[r][l \div PageSize] \in Pages
      BY <1>1, <1>4, <3>1
    <3>3. l \div PageSize < Width BY <3>2, Sizes DEF Logical
    <3>4. c < TopK BY Sizes
    <3> QED BY <1>3, <2>1, <3>2, <3>3, <3>4 DEF Valid, l
  <2>2. CASE c \notin 0 .. n - 1
    <3>1. ~(c < n) BY <1>4, <2>2
    <3>2. topk[i][c] = -1 BY <1>4, <3>1
    <3> QED BY <2>2, <3>2 DEF Valid
  <2> QED BY <2>1, <2>2
<1> DEFINE Weight(s, c) == [split |-> s, column |-> c, entry |-> {Token(r, Nth(sel, c))}]
<1>8. ASSUME NEW s \in Splits(NumRows)
      PROVE  Attended(i, s) = {Weight(s, c) : c \in {x \in 0 .. n - 1 : x \in Columns(s)}}
  <2>1. {x \in Columns(s) : x < TopK /\ Valid(i, x)} = {x \in 0 .. n - 1 : x \in Columns(s)}
    <3>1. ASSUME NEW x \in Columns(s), x < TopK PROVE x \in 0 .. TopK - 1
      BY <1>2, <3>1, ColumnsFromZero, Sizes
    <3>2. \A x \in 0 .. n - 1 : x \in 0 .. TopK - 1 /\ x < TopK BY <1>6, Sizes
    <3> QED BY <1>7, <3>1, <3>2
  <2>2. ASSUME NEW c \in 0 .. n - 1
        PROVE  Decoded(PageOf(rows[i].req, topk[i][c]), topk[i][c] % PageSize)
                 = {Token(r, Nth(sel, c))}
    BY <1>1, <1>3, <1>5, <1>6
  <2>3. Attended(i, s) =
          {[split |-> s, column |-> c,
            entry |-> Decoded(PageOf(rows[i].req, topk[i][c]), topk[i][c] % PageSize)] :
             c \in {x \in Columns(s) : x < TopK /\ Valid(i, x)}}
    BY <1>1, <1>3, <1>4 DEF Attended
  <2> QED BY <2>1, <2>2, <2>3
<1> DEFINE split(c) == CHOOSE s \in Splits(NumRows) : c \in Columns(s)
           f == [c \in 0 .. n - 1 |-> Weight(split(c), c)]
<1>9. ASSUME NEW c \in 0 .. n - 1
      PROVE  /\ split(c) \in Splits(NumRows) /\ c \in Columns(split(c))
             /\ \A s \in Splits(NumRows) : c \in Columns(s) => s = split(c)
  <2>1. c \in 0 .. TopK - 1 BY <1>6
  <2>2. /\ \E s \in Splits(NumRows) : c \in Columns(s)
        /\ \A t, s \in Splits(NumRows) : c \in Columns(t) /\ c \in Columns(s) => t = s
    BY <1>2, <2>1, SplitsShareColumns
  <2> QED BY <2>2
<1> HIDE DEF split
<1>10. \A w : w \in all <=> \E s \in Splits(NumRows) : w \in Attended(i, s) OBVIOUS
<1> HIDE DEF all
<1>11. ASSUME NEW w \in all PROVE \E c \in 0 .. n - 1 : w = f[c]
  <2> HIDE DEF Weight
  <2>1. PICK s \in Splits(NumRows) : w \in Attended(i, s) BY <1>10
  <2>2. PICK c \in 0 .. n - 1 : c \in Columns(s) /\ w = Weight(s, c) BY <1>8, <2>1
  <2>3. s = split(c) BY <1>9, <2>2
  <2> QED BY <2>2, <2>3
<1>12. ASSUME NEW c \in 0 .. n - 1 PROVE f[c] \in all
  <2> HIDE DEF Weight
  <2>1. f[c] = Weight(split(c), c) OBVIOUS
  <2>2. f[c] \in Attended(i, split(c)) BY <1>8, <1>9, <2>1
  <2> QED BY <1>9, <1>10, <2>2
<1>13. {o.entry : o \in all} = {{Token(r, p)} : p \in sel}
  <2>1. \A c \in 0 .. n - 1 : f[c].entry = {Token(r, Nth(sel, c))} OBVIOUS
  <2> HIDE DEF f
  <2>2. ASSUME NEW o \in all PROVE \E p \in sel : o.entry = {Token(r, p)}
    <3>1. PICK c \in 0 .. n - 1 : o = f[c] BY <1>11
    <3> QED BY <1>5, <2>1, <3>1
  <2>3. ASSUME NEW p \in sel PROVE \E o \in all : o.entry = {Token(r, p)}
    BY <1>5, <1>12, <2>1
  <2> QED BY <2>2, <2>3
<1>14. Cardinality(all) = n
  <2>1. \A c \in 0 .. n - 1 : f[c].column = c OBVIOUS
  <2>2. f \in [0 .. n - 1 -> all] BY <1>12
  <2> HIDE DEF f
  <2>3. f \in Bijection(0 .. n - 1, all)
    <3>1. \A c, e \in 0 .. n - 1 : f[c] = f[e] => c = e BY <2>1
    <3>2. \A w \in all : \E c \in 0 .. n - 1 : f[c] = w BY <1>11
    <3>3. f \in Injection(0 .. n - 1, all) BY <2>2, <3>1, Fun_IsInj
    <3>4. f \in Surjection(0 .. n - 1, all) BY <2>2, <3>2, Fun_IsSurj
    <3> QED BY <3>3, <3>4 DEF Bijection
  <2>4. IsFiniteSet(0 .. n - 1) /\ Cardinality(0 .. n - 1) = n
    <3>1. /\ IsFiniteSet(0 .. n - 1)
          /\ Cardinality(0 .. n - 1) = IF 0 > n - 1 THEN 0 ELSE (n - 1) - 0 + 1
      BY <1>4, FS_Interval
    <3> QED BY <1>4, <3>1
  <2>5. ExistsBijection(0 .. n - 1, all) BY <2>3 DEF ExistsBijection
  <2> QED BY <2>4, <2>5, FS_Bijection
<1> QED BY <1>13, <1>14 DEF r, sel, n, all

\* When a forward is done each row of its output weighs each selected token of
\* its own request once, with that token's block scales, and nothing else: for
\* the target its own selection, for a draft that of the request's last accepted
\* row; what the padding rows find changes nothing of that
\* (qsa_sparse_paged_attention, compact_topk_indices).
THEOREM AttentionIsOfTheSelection == Spec => []AttendsItsSelection
<1>1. ASSUME AttentionInv PROVE AttendsItsSelection
  <2> SUFFICES ASSUME step = "done", NEW i \in Real
               PROVE  /\ {o.entry : o \in out[i]} = {{Token(rows[i].req, p)} : p \in SelectedFor(i)}
                      /\ Cardinality(out[i]) = Cardinality(SelectedFor(i))
    BY DEF AttendsItsSelection
  <2>1. out[i] = UNION {Attended(i, s) : s \in Splits(NumRows)}
    BY <1>1 DEF AttentionInv, Weighed, Real
  <2>2. SelectedFor(i) = chosen[rows[i].req][LastOf(i)] BY DEF SelectedFor, LastOf
  <2> QED BY <1>1, <2>1, <2>2, SplitsAttendOnce
<1> QED BY <1>1, AttentionInvariance, PTL
=============================================================================
