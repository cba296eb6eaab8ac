-------------------------- MODULE CacheSizes_proofs --------------------------
(***************************************************************************)
(* The rows get_kv_cache_spec computes are enough for every block size,    *)
(* ratio and number of drafts for which it returns at all.  And whatever   *)
(* block size update_block_size_for_backend finds, the ratio of a layer    *)
(* still divides it, and the rows of the QSA ring are enough.              *)
(***************************************************************************)
EXTENDS CacheSizes, Arithmetic

-----------------------------------------------------------------------------
(* The rows of a ring (QSACapacity). *)

\* Whole groups at least as wide as the span, and nothing smaller passed over.
LoopInv ==
  pc # "span" =>
    /\ capacity >= Span
    /\ capacity % compress_ratio = 0
    /\ \A n \in Span .. capacity - 1 :
         n % compress_ratio = 0 => block_size % n # 0

CapacityInv ==
  /\ TypeOK
  /\ LoopInv
  /\ pc = "done" => block_size % capacity = 0

\* cdiv rounds up: no fewer groups cover a rows, and these do.
LEMMA CdivFacts ==
  ASSUME NEW a \in Nat \ {0}, NEW b \in Nat \ {0}
  PROVE  /\ Cdiv(a, b) \in Nat
         /\ b * Cdiv(a, b) >= a
         /\ b * Cdiv(a, b) < a + b
<1>1. a + b - 1 \in Nat OBVIOUS
<1>2. /\ (a + b - 1) \div b \in Nat /\ (a + b - 1) % b \in 0 .. b - 1
      /\ a + b - 1 = b * ((a + b - 1) \div b) + ((a + b - 1) % b)
  BY <1>1, DivFacts
<1> QED BY <1>2 DEF Cdiv

\* Two multiples of d less than d apart are the same.
LEMMA CloseMultiples ==
  ASSUME NEW m \in Nat, NEW n \in Nat, NEW d \in Nat \ {0},
         m % d = 0, n % d = 0, n <= m, m < n + d
  PROVE  m = n
<1>1. /\ m = d * (m \div d) /\ n = d * (n \div d)
      /\ m \div d \in Nat /\ n \div d \in Nat
  BY MultipleFacts, DivFacts
<1>2. CASE m \div d > n \div d
  BY <1>1, <1>2, MulGap
<1>3. CASE m \div d < n \div d
  BY <1>1, <1>3, MulGap
<1>4. CASE m \div d = n \div d
  BY <1>1, <1>4
<1> QED BY <1>1, <1>2, <1>3, <1>4

\* One more group is a multiple again.
LEMMA NextMultiple ==
  ASSUME NEW m \in Nat, NEW d \in Nat \ {0}, m % d = 0
  PROVE  (m + d) % d = 0
<1>1. m = d * (m \div d) /\ m \div d + 1 \in Nat
  BY MultipleFacts, DivFacts
<1>2. d * (m \div d + 1) = d * (m \div d) + d
  BY <1>1, DivFacts
<1>3. (d * (m \div d + 1)) % d = 0
  BY <1>1, MultipleOf
<1> QED BY <1>1, <1>2, <1>3

\* The rounded span satisfies the invariant of the search.
LEMMA RoundUpInv == CapacityInv /\ RoundUp => CapacityInv'
<1> SUFFICES ASSUME CapacityInv, RoundUp PROVE CapacityInv' OBVIOUS
<1> DEFINE w == WholeGroups
<1>1. /\ compress_ratio \in Nat \ {0} /\ num_spec \in Nat
      /\ Span \in Nat \ {0} /\ Span' = Span
      /\ compress_ratio' = compress_ratio /\ block_size' = block_size
      /\ num_spec' = num_spec /\ capacity' = w /\ pc' = "loop"
  BY InputsAssumption DEF CapacityInv, TypeOK, RoundUp, Span, input
<1>2. Cdiv(Span, compress_ratio) \in Nat
  BY <1>1, CdivFacts
<1>3. w \in Nat /\ w >= Span /\ w < Span + compress_ratio
  <2>1. w = compress_ratio * Cdiv(Span, compress_ratio)
    BY DEF WholeGroups
  <2>2. w >= Span /\ w < Span + compress_ratio
    BY <1>1, <2>1, CdivFacts
  <2>3. w \in Nat
    BY <1>1, <1>2, <2>1
  <2> QED BY <2>2, <2>3
<1>4. w % compress_ratio = 0
  BY <1>1, <1>2, MultipleOf DEF WholeGroups
<1> HIDE DEF w
<1>5. ASSUME NEW n \in Span .. w - 1, n % compress_ratio = 0
      PROVE  FALSE
  <2>1. n \in Nat /\ n <= w /\ w < n + compress_ratio /\ n # w
    BY <1>1, <1>3
  <2> QED BY <1>1, <1>3, <1>4, <1>5, <2>1, CloseMultiples
<1>6. TypeOK'
  BY <1>1, <1>3 DEF CapacityInv, TypeOK
<1>7. LoopInv'
  BY <1>1, <1>3, <1>4, <1>5 DEF LoopInv
<1> QED BY <1>1, <1>6, <1>7 DEF CapacityInv

\* A candidate that does not divide the block is skipped rightly.
LEMMA AdvanceInv == CapacityInv /\ Advance => CapacityInv'
<1> SUFFICES ASSUME CapacityInv, Advance PROVE CapacityInv' OBVIOUS
<1>1. /\ compress_ratio \in Nat \ {0} /\ num_spec \in Nat /\ capacity \in Nat
      /\ Span \in Nat \ {0} /\ Span' = Span
      /\ compress_ratio' = compress_ratio /\ block_size' = block_size
      /\ num_spec' = num_spec /\ pc' = pc /\ pc = "loop"
      /\ capacity' = capacity + compress_ratio
      /\ block_size % capacity # 0
  BY InputsAssumption DEF CapacityInv, TypeOK, Advance, Span, input
<1>2. /\ capacity >= Span /\ capacity % compress_ratio = 0
      /\ \A n \in Span .. capacity - 1 :
           n % compress_ratio = 0 => block_size % n # 0
  BY <1>1 DEF CapacityInv, LoopInv
<1>3. (capacity + compress_ratio) % compress_ratio = 0
  BY <1>1, <1>2, NextMultiple
<1>4. ASSUME NEW n \in Span .. capacity + compress_ratio - 1, n % compress_ratio = 0
      PROVE  block_size % n # 0
  <2>1. CASE n < capacity
    <3>1. n \in Span .. capacity - 1 BY <1>1, <2>1
    <3> QED BY <1>2, <1>4, <3>1
  <2>2. CASE n >= capacity
    <3>1. n \in Nat /\ capacity <= n /\ n < capacity + compress_ratio
      BY <1>1, <2>2
    <3>2. n = capacity
      BY <1>1, <1>2, <1>4, <3>1, CloseMultiples
    <3> QED BY <1>1, <3>2
  <2> QED BY <1>1, <2>1, <2>2
<1>5. TypeOK'
  BY <1>1 DEF CapacityInv, TypeOK
<1>6. LoopInv'
  BY <1>1, <1>2, <1>3, <1>4 DEF LoopInv
<1> QED BY <1>1, <1>5, <1>6 DEF CapacityInv

\* Returning changes nothing of it.
LEMMA ReturnInv == CapacityInv /\ Return => CapacityInv'
<1> SUFFICES ASSUME CapacityInv, Return PROVE CapacityInv' OBVIOUS
<1> QED BY DEF CapacityInv, TypeOK, LoopInv, Return, Span, input

\* Spec keeps the inductive invariant.
THEOREM CapacityInvariance == Spec => []CapacityInv
<1>1. Init => CapacityInv
  BY DEF Init, CapacityInv, TypeOK, LoopInv
<1>2. CapacityInv /\ [Next]_vars => CapacityInv'
  <2> SUFFICES ASSUME CapacityInv, [Next]_vars PROVE CapacityInv' OBVIOUS
  <2>1. CASE UNCHANGED vars
    BY <2>1 DEF vars, CapacityInv, TypeOK, LoopInv, Span
  <2> QED BY <2>1, RoundUpInv, AdvanceInv, ReturnInv DEF Next
<1> QED BY <1>1, <1>2, PTL DEF Spec

(***************************************************************************)
(* Every capacity get_kv_cache_spec returns satisfies CapacityAssumption   *)
(* of QSARing, so RingSafety holds of the rings this code allocates.       *)
(***************************************************************************)
THEOREM CapacitySuffices == Spec => []SpanFits
<1>1. CapacityInv => SpanFits
  BY InputsAssumption DEF CapacityInv, TypeOK, LoopInv, SpanFits, Span
<1> QED BY <1>1, CapacityInvariance, PTL

\* It is the smallest multiple of the ratio, at least the span, dividing the block.
THEOREM CapacityIsSmallestDivisor == Spec => [](DividesBlock /\ SmallestDivisor)
<1>1. CapacityInv => DividesBlock /\ SmallestDivisor
  BY DEF CapacityInv, LoopInv, DividesBlock, SmallestDivisor
<1> QED BY <1>1, CapacityInvariance, PTL

-----------------------------------------------------------------------------
(* The block size of the manager (CacheSizes). *)

Asked == \A a \in Asks(cfg) : a % compress_ratio = 0

\* The ratio divides the block from the first alignment to the last.
Divided ==
  /\ pc = "pick" => block_size = Given(cfg)
  /\ block_size % compress_ratio = 0 \/ ~Asked

\* A state is padded when it is aligned, never before, and up to its page.
Padded ==
  /\ pc \in {"pick", "hybrid"} => mamba_padded = 0
  /\ pc = "skip" /\ cfg.mamba > 0 =>
       LET page == block_size * HybridPage(cfg)
       IN  /\ cfg.mamba <= page
           /\ mamba_padded = page \/ (Exact /\ cfg.mamba = page)

Aligned == SizesTypeOK /\ Divided /\ Padded /\ PagesUnify

-----------------------------------------------------------------------------
(* Arithmetic. *)

\* cdiv of nothing is nothing, of something at least one, and it rounds up.
LEMMA CdivUp ==
  ASSUME NEW a \in Nat, NEW b \in Nat \ {0}
  PROVE  /\ Cdiv(a, b) \in Nat
         /\ b * Cdiv(a, b) >= a
         /\ a > 0 => Cdiv(a, b) > 0
<1>1. a + b - 1 \in Nat OBVIOUS
<1>2. /\ (a + b - 1) \div b \in Nat /\ (a + b - 1) % b \in 0 .. b - 1
      /\ a + b - 1 = b * ((a + b - 1) \div b) + ((a + b - 1) % b)
  BY <1>1, DivFacts
<1>3. b * Cdiv(a, b) >= a
  BY <1>2 DEF Cdiv
<1>4. ASSUME a > 0, Cdiv(a, b) = 0 PROVE FALSE
  <2>1. b * Cdiv(a, b) = 0 BY <1>4
  <2> QED BY <1>3, <1>4, <2>1
<1> QED BY <1>2, <1>3, <1>4 DEF Cdiv

\* A multiple of a multiple is a multiple.
LEMMA MultipleOfMultiple ==
  ASSUME NEW m \in Nat, NEW k \in Nat, NEW d \in Nat \ {0}, m % d = 0
  PROVE  (m * k) % d = 0
<1>1. m = d * (m \div d) /\ m \div d \in Nat
  BY MultipleFacts, DivFacts
<1>2. (m \div d) * k \in Nat /\ m * k = d * ((m \div d) * k)
  BY <1>1
<1> QED BY <1>2, MultipleOf

\* A block of a multiple of a page is a multiple of the block of that page.
LEMMA ScaledMultiple ==
  ASSUME NEW b \in Nat \ {0}, NEW m \in Nat, NEW p \in Nat \ {0}, m % p = 0
  PROVE  (b * m) % (b * p) = 0
<1>1. m = p * (m \div p) /\ m \div p \in Nat
  BY MultipleFacts, DivFacts
<1> DEFINE k == m \div p
<1>2. k \in Nat /\ b * m = (b * p) * k BY <1>1
<1>3. b * p \in Nat \ {0}
  <2>1. b * p >= b * 1 OBVIOUS
  <2> QED BY <2>1
<1> HIDE DEF k
<1>4. ((b * p) * k) % (b * p) = 0 BY <1>2, <1>3, MultipleOf
<1> QED BY <1>2, <1>4

\* Products of positive numbers are positive.
LEMMA PositiveProduct ==
  ASSUME NEW a \in Nat \ {0}, NEW b \in Nat \ {0}
  PROVE  a * b \in Nat \ {0}
<1>1. a * b >= a * 1 OBVIOUS
<1> QED BY <1>1

\* A block of no fewer tokens holds no less.
LEMMA HoldsMore ==
  ASSUME NEW a \in Nat, NEW b \in Nat, NEW p \in Nat, NEW need \in Nat,
         a <= b, p * a >= need
  PROVE  b * p >= need
<1>1. b = a + (b - a) /\ b - a \in Nat OBVIOUS
<1>2. p * b = p * a + p * (b - a) /\ p * (b - a) \in Nat BY <1>1
<1> QED BY <1>2

\* Rounding up gives a multiple that is positive and holds what was rounded.
LEMMA RoundToFacts ==
  ASSUME NEW a \in Nat \ {0}, NEW n \in Nat \ {0}
  PROVE  /\ RoundTo(a, n) \in Nat \ {0}
         /\ RoundTo(a, n) >= n
<1>1. Cdiv(n, a) \in Nat \ {0} BY CdivUp
<1>2. a * Cdiv(n, a) \in Nat \ {0} BY <1>1, PositiveProduct
<1> QED BY <1>2, CdivUp DEF RoundTo

\* It keeps the divisors of what it rounds to.
LEMMA RoundToKeeps ==
  ASSUME NEW a \in Nat \ {0}, NEW n \in Nat, NEW d \in Nat \ {0}, a % d = 0
  PROVE  RoundTo(a, n) % d = 0
  BY CdivUp, MultipleOfMultiple DEF RoundTo

\* Among the common multiples up to the product there is a least one.
LEMMA LcmFacts ==
  ASSUME NEW a \in Nat \ {0}, NEW b \in Nat \ {0}
  PROVE  /\ Lcm(a, b) \in Nat \ {0}
         /\ Lcm(a, b) % a = 0 /\ Lcm(a, b) % b = 0
<1> DEFINE top == a * b
           Common == {n \in 1 .. top : n % a = 0 /\ n % b = 0}
           Least(n) == /\ n % a = 0 /\ n % b = 0
                       /\ \A k \in 1 .. n - 1 : k % a # 0 \/ k % b # 0
<1>1. top \in Nat \ {0} BY PositiveProduct
<1>2. top % a = 0 /\ top % b = 0
  <2>1. (a * b) % a = 0 /\ (b * a) % b = 0 BY MultipleOf
  <2>2. b * a = a * b OBVIOUS
  <2> QED BY <2>1, <2>2
<1>3. Lcm(a, b) = CHOOSE n \in 1 .. top : Least(n) BY DEF Lcm
<1> HIDE DEF top
<1>4. Common \subseteq Nat /\ top \in Common BY <1>1, <1>2
<1>5. PICK n \in Common : \A k \in Common : n <= k
  <2> HIDE DEF Common
  <2>1. Common \in SUBSET Nat /\ Common # {} BY <1>4
  <2> QED BY <2>1, LeastElement
<1>6. n \in 1 .. top /\ n \in Nat /\ n % a = 0 /\ n % b = 0 BY <1>1
<1>7. ASSUME NEW k \in 1 .. n - 1 PROVE k % a # 0 \/ k % b # 0
  <2>1. k \in Nat /\ k < n /\ k \in 1 .. top BY <1>1, <1>6
  <2>2. k \notin Common BY <1>5, <1>6, <2>1
  <2> QED BY <2>1, <2>2
<1>8. n \in 1 .. top /\ Least(n) BY <1>6, <1>7
<1> HIDE DEF Least
<1>9. Lcm(a, b) \in 1 .. top /\ Least(Lcm(a, b)) BY <1>3, <1>8
<1> USE DEF Least
<1> QED BY <1>1, <1>9

-----------------------------------------------------------------------------
(* The alignments. *)

\* What a configuration's numbers are.
LEMMA ConfigFacts ==
  ASSUME SizesTypeOK
  PROVE  /\ cfg \in Config
         /\ cfg.user \in Nat /\ cfg.preferred \in Nat \ {0}
         /\ cfg.kernel \in Nat \ {0} /\ cfg.indexer \in Nat
         /\ cfg.page \in Nat \ {0} /\ cfg.skipPage \in Nat /\ cfg.mamba \in Nat
         /\ cfg.special \in Nat \ {0} /\ cfg.rawSkip \in Nat \ {0}
         /\ cfg.chunk \in Nat \ {0}
         /\ compress_ratio \in Nat \ {0}
         /\ Given(cfg) \in Nat \ {0}
<1>1. cfg \in Config /\ compress_ratio \in Nat \ {0}
  BY SizesAssumption, InputsAssumption DEF SizesTypeOK
<1>2. /\ cfg.user \in Nat /\ cfg.preferred \in Nat \ {0}
      /\ cfg.kernel \in Nat \ {0} /\ cfg.indexer \in Nat
      /\ cfg.page \in Nat \ {0} /\ cfg.skipPage \in Nat /\ cfg.mamba \in Nat
      /\ cfg.special \in Nat \ {0} /\ cfg.rawSkip \in Nat \ {0}
      /\ cfg.chunk \in Nat \ {0}
  BY <1>1 DEF Config
<1>3. Given(cfg) \in Nat \ {0}
  BY <1>2, SizesAssumption DEF Given
<1> QED BY <1>1, <1>2, <1>3

\* The page of phase 2 is a size, and attention's own pages divide it.
LEMMA HybridPageFacts ==
  ASSUME SizesTypeOK
  PROVE  /\ HybridPage(cfg) \in Nat \ {0}
         /\ ~SkipAligned(cfg) =>
              \A p \in OwnPages(cfg) : p \in Nat \ {0} /\ HybridPage(cfg) % p = 0
<1>1. /\ cfg.page \in Nat \ {0} /\ cfg.special \in Nat \ {0}
      /\ cfg.rawSkip \in Nat \ {0} /\ cfg.skipPage \in Nat
  BY ConfigFacts
<1>2. /\ Lcm(cfg.special, cfg.rawSkip) \in Nat \ {0}
      /\ Lcm(cfg.special, cfg.rawSkip) % cfg.special = 0
      /\ Lcm(cfg.special, cfg.rawSkip) % cfg.rawSkip = 0
  BY <1>1, LcmFacts
<1>3. cfg.page % cfg.page = 0 /\ cfg.special % cfg.special = 0
  BY <1>1
<1>4. CASE cfg.kind = "plain"
  BY <1>1, <1>3, <1>4 DEF HybridPage, OwnPages, Own
<1>5. CASE cfg.kind = "turboquant" /\ cfg.skipPage > 0
  BY <1>1, <1>2, <1>5 DEF HybridPage, OwnPages, Own
<1>6. CASE cfg.kind # "plain" /\ ~(cfg.kind = "turboquant" /\ cfg.skipPage > 0)
  <2>1. HybridPage(cfg) = cfg.special BY <1>6 DEF HybridPage
  <2>2. OwnPages(cfg) = {cfg.special} BY <1>1, <1>6 DEF OwnPages, Own
  <2> QED BY <1>1, <1>3, <2>1, <2>2
<1> QED BY <1>4, <1>5, <1>6

\* The alignment is a size and keeps the ratio.
LEMMA AlignmentFacts ==
  ASSUME SizesTypeOK
  PROVE  /\ Alignment \in Nat \ {0}
         /\ cfg.kernel <= Alignment /\ block_size <= Alignment
         /\ HybridAlignment \in Nat \ {0}
         /\ Asked /\ block_size % compress_ratio = 0 =>
              Alignment % compress_ratio = 0 /\ HybridAlignment % compress_ratio = 0
<1>1. Asked => cfg.kernel % compress_ratio = 0 BY DEF Asked, Asks
<1>2. /\ Alignment \in Nat \ {0}
      /\ cfg.kernel <= Alignment /\ block_size <= Alignment
      /\ Asked /\ block_size % compress_ratio = 0 => Alignment % compress_ratio = 0
  BY <1>1, ConfigFacts DEF Alignment, Larger, SizesTypeOK
<1>3. Asked /\ cfg.kind = "mla" => MlaAlignment % compress_ratio = 0 BY DEF Asked, Asks
<1>4. MlaAlignment \in Nat \ {0} BY DEF MlaAlignment
<1> QED BY <1>2, <1>3, <1>4 DEF HybridAlignment, Larger

\* So does the hybrid block, and its page holds a state.
LEMMA HybridBlockFacts ==
  ASSUME SizesTypeOK, cfg.mamba > 0
  PROVE  /\ HybridBlock \in Nat \ {0}
         /\ HybridBlock * HybridPage(cfg) >= cfg.mamba
         /\ Asked /\ block_size % compress_ratio = 0 => HybridBlock % compress_ratio = 0
<1> DEFINE r == compress_ratio
           page == HybridPage(cfg)
           align == HybridAlignment
           fits == Cdiv(cfg.mamba, page)
           common == Lcm(cfg.chunk, align)
           units == Cdiv(cfg.mamba, align * page)
           block == align * units
<1>1. /\ align \in Nat \ {0} /\ r \in Nat \ {0}
      /\ cfg.chunk \in Nat \ {0} /\ page \in Nat \ {0} /\ cfg.mamba \in Nat \ {0}
      /\ cfg.indexer \in Nat
  BY ConfigFacts, AlignmentFacts, HybridPageFacts
<1>4. Asked /\ block_size % r = 0 => align % r = 0 BY AlignmentFacts
<1>5. HybridBlock = IF cfg.mode = "all" THEN RoundTo(common, fits)
                    ELSE IF cfg.indexer = 0 THEN block ELSE RoundTo(cfg.indexer, block)
  BY DEF HybridBlock
<1> HIDE DEF page, align
<1>2. CASE cfg.mode = "all"
  <2>1. HybridBlock = RoundTo(common, fits) BY <1>2, <1>5
  <2>2. fits \in Nat \ {0} BY <1>1, CdivUp
  <2>3. common \in Nat \ {0} /\ common % align = 0 BY <1>1, LcmFacts
  <2>4. ASSUME Asked, block_size % r = 0 PROVE common % r = 0
    <3>1. align % r = 0 BY <2>4, <1>4
    <3>2. common = align * (common \div align) /\ common \div align \in Nat
      BY <1>1, <2>3, MultipleFacts, DivFacts
    <3> HIDE DEF common, r
    <3> QED BY <1>1, <3>1, <3>2, MultipleOfMultiple
  <2>7. page * fits >= cfg.mamba BY <1>1, CdivUp
  <2> HIDE DEF common, fits
  <2>8. /\ RoundTo(common, fits) \in Nat \ {0} /\ RoundTo(common, fits) >= fits
    BY <2>2, <2>3, RoundToFacts
  <2>9. RoundTo(common, fits) * page >= cfg.mamba
    BY <1>1, <2>2, <2>7, <2>8, HoldsMore
  <2>5. RoundTo(common, fits) \in Nat \ {0} BY <2>2, <2>3, RoundToFacts
  <2>6. ASSUME Asked, block_size % r = 0 PROVE RoundTo(common, fits) % r = 0
    BY <1>1, <2>2, <2>3, <2>4, <2>6, RoundToKeeps
  <2> QED BY <2>1, <2>5, <2>6, <2>9 DEF page
<1>3. CASE cfg.mode # "all"
  <2>1. HybridBlock = IF cfg.indexer = 0 THEN block ELSE RoundTo(cfg.indexer, block)
    BY <1>3, <1>5
  <2>2. align * page \in Nat \ {0} BY <1>1, PositiveProduct
  <2>3. units \in Nat \ {0} /\ (align * page) * units >= cfg.mamba
    BY <1>1, <2>2, CdivUp
  <2> HIDE DEF units
  <2>4. block \in Nat \ {0} /\ page * block >= cfg.mamba
    BY <1>1, <2>3, PositiveProduct
  <2>5. ASSUME Asked, block_size % r = 0 PROVE block % r = 0
    BY <1>1, <1>4, <2>3, <2>5, MultipleOfMultiple
  <2> HIDE DEF block
  <2>6. CASE cfg.indexer = 0
    BY <1>1, <2>1, <2>4, <2>5, <2>6, HoldsMore DEF page
  <2>7. CASE cfg.indexer # 0
    <3>1. /\ RoundTo(cfg.indexer, block) \in Nat \ {0}
          /\ RoundTo(cfg.indexer, block) >= block
      BY <1>1, <2>4, <2>7, RoundToFacts
    <3>4. RoundTo(cfg.indexer, block) * page >= cfg.mamba
      BY <1>1, <2>4, <3>1, HoldsMore
    <3>2. Asked => cfg.indexer % r = 0 BY DEF Asked, Asks
    <3>3. Asked => RoundTo(cfg.indexer, block) % r = 0
      BY <1>1, <2>4, <2>7, <3>2, RoundToKeeps
    <3> QED BY <2>1, <2>7, <3>1, <3>3, <3>4 DEF page
  <2> QED BY <2>6, <2>7
<1> QED BY <1>2, <1>3

\* So does the primary block; its page holds the skip layers' and the states'.
LEMMA PrimaryBlockFacts ==
  ASSUME SizesTypeOK, cfg.skipPage > cfg.page
  PROVE  /\ PrimaryBlock \in Nat \ {0}
         /\ PrimaryBlock * cfg.page >= cfg.skipPage * cfg.kernel
         /\ PrimaryBlock * cfg.page >= mamba_padded
         /\ Asked /\ block_size % compress_ratio = 0 => PrimaryBlock % compress_ratio = 0
<1> DEFINE u == Alignment * cfg.page
           need == Larger(cfg.skipPage * cfg.kernel, mamba_padded)
           k == Cdiv(need, u)
<1>1. /\ Alignment \in Nat \ {0} /\ cfg.page \in Nat \ {0}
      /\ cfg.kernel \in Nat \ {0} /\ cfg.skipPage \in Nat \ {0}
      /\ mamba_padded \in Nat /\ compress_ratio \in Nat \ {0}
  BY ConfigFacts, AlignmentFacts DEF SizesTypeOK
<1>2. u \in Nat \ {0} /\ cfg.skipPage * cfg.kernel \in Nat \ {0}
  BY <1>1, PositiveProduct
<1>3. need \in Nat \ {0} /\ need >= cfg.skipPage * cfg.kernel /\ need >= mamba_padded
  BY <1>1, <1>2 DEF Larger
<1> HIDE DEF need
<1>4. k \in Nat \ {0} /\ u * k >= need BY <1>2, <1>3, CdivUp
<1> HIDE DEF k
<1>5. PrimaryBlock = (u * k) \div cfg.page BY DEF PrimaryBlock, RoundTo, need, k
<1>6. Alignment * k \in Nat \ {0} /\ u * k = cfg.page * (Alignment * k)
  BY <1>1, <1>4, PositiveProduct
<1>7. (cfg.page * (Alignment * k)) \div cfg.page = Alignment * k
  BY <1>1, <1>6, ExactQuotient
<1>8. PrimaryBlock = Alignment * k BY <1>5, <1>6, <1>7
<1>9. PrimaryBlock * cfg.page = u * k BY <1>1, <1>4, <1>6, <1>8
<1>10. ASSUME Asked, block_size % compress_ratio = 0
       PROVE  PrimaryBlock % compress_ratio = 0
  BY <1>1, <1>4, <1>8, <1>10, AlignmentFacts, MultipleOfMultiple
<1> HIDE DEF u
<1>11. PrimaryBlock * cfg.page >= need BY <1>4, <1>9
<1>12. /\ PrimaryBlock * cfg.page >= cfg.skipPage * cfg.kernel
       /\ PrimaryBlock * cfg.page >= mamba_padded
  <2> DEFINE page == PrimaryBlock * cfg.page
             skip == cfg.skipPage * cfg.kernel
  <2>1. page \in Nat /\ skip \in Nat /\ page >= need /\ need >= skip /\ need >= mamba_padded
    BY <1>2, <1>3, <1>4, <1>9, <1>11
  <2> HIDE DEF page, skip
  <2>2. page >= skip /\ page >= mamba_padded BY <1>1, <1>3, <2>1
  <2> QED BY <2>2 DEF page, skip
<1>13. PrimaryBlock \in Nat \ {0} BY <1>6, <1>8
<1> QED BY <1>10, <1>12, <1>13

-----------------------------------------------------------------------------
(* The steps. *)

\* The backend's choice replaces the default.
LEMMA PickInv == Aligned /\ PickBlock => Aligned'
<1> SUFFICES ASSUME Aligned, PickBlock PROVE Aligned' OBVIOUS
<1>1. /\ pc = "pick" /\ pc' = "hybrid"
      /\ block_size' = IF cfg.user = 0 THEN cfg.preferred ELSE block_size
      /\ cfg' = cfg /\ compress_ratio' = compress_ratio /\ mamba_padded' = mamba_padded
  BY DEF PickBlock, sizing
<1>2. SizesTypeOK' BY ConfigFacts DEF Aligned, SizesTypeOK, PickBlock, sizing
<1>3. Asked => cfg.preferred % compress_ratio = 0 BY DEF Asked, Asks
<1>4. Asked' <=> Asked BY <1>1 DEF Asked, Asks
<1>5. Divided' BY <1>1, <1>3, <1>4 DEF Aligned, Divided
<1>6. Padded' /\ PagesUnify' BY <1>1 DEF Aligned, Padded, PagesUnify, Sized
<1> QED BY <1>2, <1>5, <1>6 DEF Aligned

\* After phase 2 a state fits its page.
LEMMA HybridInv == Aligned /\ AlignHybrid => Aligned'
<1> SUFFICES ASSUME Aligned, AlignHybrid PROVE Aligned' OBVIOUS
<1>1. /\ pc = "hybrid" /\ pc' = "skip" /\ cfg.mamba > 0
      /\ block_size' = Larger(block_size, HybridBlock)
      /\ cfg' = cfg /\ compress_ratio' = compress_ratio
      /\ mamba_padded = 0
      /\ mamba_padded' = MambaPadded(block_size' * HybridPage(cfg))
      /\ SizesTypeOK
  BY DEF Aligned, Padded, AlignHybrid
<1> DEFINE page == HybridPage(cfg)
<1>2. /\ block_size \in Nat \ {0} /\ page \in Nat \ {0} /\ cfg.mamba \in Nat
      /\ HybridBlock \in Nat \ {0} /\ HybridBlock * page >= cfg.mamba
  BY <1>1, ConfigFacts, HybridPageFacts, HybridBlockFacts DEF SizesTypeOK
<1>3. block_size' \in Nat \ {0} /\ block_size' >= HybridBlock
  BY <1>1, <1>2 DEF Larger
<1>5. page' = page BY <1>1
<1>11. mamba_padded' = MambaPadded(block_size' * page) BY <1>1
<1> HIDE DEF page
<1>4. block_size' * page \in Nat \ {0} /\ block_size' * page >= cfg.mamba
  <2>1. page * HybridBlock >= cfg.mamba BY <1>2
  <2> QED BY <1>2, <1>3, <2>1, HoldsMore, PositiveProduct
<1>6. mamba_block' \in Nat BY <1>1, <1>2, <1>3 DEF AlignHybrid, SizesTypeOK
<1>7. SizesTypeOK'
  BY <1>1, <1>3, <1>4, <1>6, <1>11 DEF SizesTypeOK, AlignHybrid, MambaPadded
<1>8. Divided'
  <2>1. Asked' <=> Asked BY <1>1 DEF Asked, Asks
  <2>2. Asked => block_size % compress_ratio = 0 /\ HybridBlock % compress_ratio = 0
    BY <1>1, HybridBlockFacts DEF Aligned, Divided
  <2> QED BY <1>1, <2>1, <2>2 DEF Divided, Larger
<1>12. /\ cfg.mamba <= block_size' * page
       /\ mamba_padded' = block_size' * page \/ (Exact' /\ cfg.mamba = block_size' * page)
  BY <1>1, <1>2, <1>3, <1>4, <1>11 DEF MambaPadded, Exact
<1>9. Padded'
  BY <1>1, <1>5, <1>12 DEF Padded, page
<1>10. PagesUnify' BY <1>1 DEF PagesUnify, Sized
<1> QED BY <1>7, <1>8, <1>9, <1>10 DEF Aligned

\* Nothing to align.
LEMMA NotHybridInv == Aligned /\ NotHybrid => Aligned'
  BY DEF Aligned, NotHybrid, sizing, SizesTypeOK, Divided, Asked, Padded, PagesUnify, Sized

\* After phase 3 every page is the shared one.
LEMMA SkipInv == Aligned /\ AlignSkip => Aligned'
<1> SUFFICES ASSUME Aligned, AlignSkip PROVE Aligned' OBVIOUS
<1>1. /\ pc = "skip" /\ pc' = "span" /\ cfg.skipPage > cfg.page
      /\ block_size' = Larger(block_size, PrimaryBlock)
      /\ skip_padded' = block_size' * cfg.page
      /\ cfg' = cfg /\ compress_ratio' = compress_ratio
      /\ mamba_padded' = IF mamba_padded = 0 THEN 0 ELSE block_size' * cfg.page
      /\ SizesTypeOK
  BY DEF Aligned, AlignSkip
<1>2. /\ block_size \in Nat \ {0} /\ cfg.page \in Nat \ {0} /\ cfg.mamba \in Nat
      /\ cfg.skipPage * cfg.kernel \in Nat
      /\ PrimaryBlock \in Nat \ {0}
      /\ PrimaryBlock * cfg.page >= cfg.skipPage * cfg.kernel
  BY <1>1, ConfigFacts, PrimaryBlockFacts DEF SizesTypeOK
<1>3. block_size' \in Nat \ {0} /\ block_size' >= PrimaryBlock /\ block_size' >= block_size
  BY <1>1, <1>2 DEF Larger
<1>4. /\ block_size' * cfg.page \in Nat \ {0}
      /\ block_size' * cfg.page >= cfg.skipPage * cfg.kernel
  <2>1. cfg.page * PrimaryBlock >= cfg.skipPage * cfg.kernel BY <1>2
  <2> QED BY <1>2, <1>3, <2>1, HoldsMore, PositiveProduct
<1>5. SharedPage' = block_size' * cfg.page BY <1>1 DEF SharedPage, SkipAligned
<1>6. cfg.mamba > 0 /\ mamba_padded # 0 => cfg.mamba <= SharedPage'
  <2> SUFFICES ASSUME cfg.mamba > 0, mamba_padded # 0 PROVE cfg.mamba <= SharedPage'
    OBVIOUS
  <2>1. cfg.mamba <= mamba_padded /\ mamba_padded \in Nat
    BY <1>1 DEF Aligned, Padded, Exact, SizesTypeOK
  <2>2. PrimaryBlock * cfg.page >= mamba_padded BY <1>1, PrimaryBlockFacts
  <2>3. cfg.page * PrimaryBlock >= mamba_padded BY <1>2, <2>2
  <2>4. block_size' * cfg.page >= mamba_padded
    BY <1>2, <1>3, <2>1, <2>3, HoldsMore
  <2> QED BY <1>2, <1>4, <1>5, <2>1, <2>4
<1>11. Own(cfg) = cfg.page => \A p \in OwnPages(cfg) : SharedPage' % (block_size' * p) = 0
  <2> SUFFICES ASSUME Own(cfg) = cfg.page
               PROVE  SharedPage' % (block_size' * cfg.page) = 0
    BY <1>1, ConfigFacts DEF OwnPages
  <2>1. cfg.page % cfg.page = 0 BY <1>2
  <2> QED BY <1>2, <1>3, <1>5, <2>1, ScaledMultiple
<1>7. SizesTypeOK' BY <1>1, <1>3, <1>4 DEF SizesTypeOK, AlignSkip
<1>8. Divided'
  <2>1. Asked' <=> Asked BY <1>1 DEF Asked, Asks
  <2>2. Asked => block_size % compress_ratio = 0 /\ PrimaryBlock % compress_ratio = 0
    BY <1>1, PrimaryBlockFacts DEF Aligned, Divided
  <2> QED BY <1>1, <2>1, <2>2 DEF Divided, Larger
<1>9. Padded' BY <1>1 DEF Padded
<1>10. PagesUnify'
  <2>1. cfg.mamba > 0 /\ ~(Exact /\ SkipAligned(cfg))' =>
          cfg.mamba <= SharedPage' /\ mamba_padded' = SharedPage'
    BY <1>1, <1>5, <1>6 DEF Exact, SkipAligned
  <2>2. skip_padded' = SharedPage' /\ cfg.skipPage * cfg.kernel <= SharedPage'
    BY <1>1, <1>2, <1>4, <1>5
  <2>3. SkipAligned(cfg) BY <1>1 DEF SkipAligned
  <2> QED BY <1>1, <1>11, <2>1, <2>2, <2>3 DEF PagesUnify, Own, OwnPages, SkipAligned
<1> QED BY <1>7, <1>8, <1>9, <1>10 DEF Aligned

\* Skip layers of smaller pages end the start of the engine.
LEMMA SkipTooSmallInv == Aligned /\ SkipTooSmall => Aligned'
  BY DEF Aligned, SkipTooSmall, sizing, SizesTypeOK, Divided, Asked, Padded, PagesUnify, Sized

\* No skip layers: what phase 2 found is the shared page.
LEMMA NoSkipInv == Aligned /\ NoSkip => Aligned'
<1> SUFFICES ASSUME Aligned, NoSkip PROVE Aligned' OBVIOUS
<1>1. ~SkipAligned(cfg) BY ConfigFacts DEF Aligned, NoSkip, SkipAligned
<1>2. /\ SizesTypeOK /\ cfg' = cfg /\ block_size' = block_size
      /\ mamba_padded' = mamba_padded /\ skip_padded' = skip_padded
      /\ pc = "skip" /\ pc' = "span"
  BY DEF Aligned, NoSkip, sizing
<1>3. SizesTypeOK' /\ Divided' /\ Padded'
  BY DEF Aligned, NoSkip, sizing, SizesTypeOK, Divided, Asked, Padded
<1> DEFINE page == HybridPage(cfg)
<1>4. SharedPage = block_size * page /\ SharedPage' = SharedPage
  BY <1>1, <1>2 DEF SharedPage
<1>5. \A p \in OwnPages(cfg) : p \in Nat \ {0} /\ page % p = 0
  BY <1>1, <1>2, HybridPageFacts
<1>6. page \in Nat \ {0} /\ block_size \in Nat \ {0}
  BY <1>2, HybridPageFacts DEF SizesTypeOK
<1>7. cfg.mamba > 0 =>
        /\ cfg.mamba <= SharedPage
        /\ mamba_padded = SharedPage \/ (Exact /\ cfg.mamba = SharedPage)
  BY <1>2, <1>4 DEF Aligned, Padded
<1> HIDE DEF page
<1>8. \A p \in OwnPages(cfg) : SharedPage % (block_size * p) = 0
  BY <1>4, <1>5, <1>6, ScaledMultiple
<1>9. PagesUnify'
  BY <1>1, <1>2, <1>4, <1>7, <1>8 DEF PagesUnify, Exact
<1> QED BY <1>3, <1>9 DEF Aligned

\* The search for the ring's rows changes no size.
LEMMA SearchInv == Aligned /\ Next /\ UNCHANGED sizing => Aligned'
<1> SUFFICES ASSUME Aligned, Next, UNCHANGED sizing PROVE Aligned' OBVIOUS
<1>1. /\ pc \in {"span", "loop"} /\ pc' \in {"loop", "done"}
      /\ block_size' = block_size /\ compress_ratio' = compress_ratio
      /\ num_spec' = num_spec
  BY DEF Next, RoundUp, Advance, Return, input
<1>2. capacity' \in Nat
  <2>1. CASE RoundUp
    <3>1. Span \in Nat BY ConfigFacts, InputsAssumption DEF Aligned, SizesTypeOK, Span
    <3>2. Cdiv(Span, compress_ratio) \in Nat /\ compress_ratio \in Nat
      BY <3>1, ConfigFacts, CdivUp DEF Aligned
    <3> QED BY <2>1, <3>2 DEF RoundUp, WholeGroups
  <2>2. CASE Advance BY <2>2, ConfigFacts DEF Advance, Aligned, SizesTypeOK
  <2>3. CASE Return BY <2>3 DEF Return, Aligned, SizesTypeOK
  <2> QED BY <2>1, <2>2, <2>3 DEF Next
<1>3. SizesTypeOK' BY <1>1, <1>2 DEF Aligned, SizesTypeOK, sizing
<1>4. Divided' /\ Padded' /\ PagesUnify'
  BY <1>1 DEF Aligned, Divided, Asked, Padded, PagesUnify, Sized, Exact, SharedPage, sizing
<1> QED BY <1>3, <1>4 DEF Aligned

\* The sizes a layer starts with are aligned.
LEMMA InitInv == SizesInit => Aligned
<1> SUFFICES ASSUME SizesInit PROVE Aligned OBVIOUS
<1>1. cfg \in Config BY SizesAssumption DEF SizesInit
<1>2. Given(cfg) \in Nat \ {0} BY <1>1, SizesAssumption DEF Given, Config
<1> QED BY <1>2 DEF SizesInit, Aligned, SizesTypeOK, Divided, Padded, PagesUnify, Sized

\* The alignment keeps its invariant.
THEOREM SizesInvariance == SizesSpec => []Aligned
<1>1. Aligned /\ [SizesNext]_svars => Aligned'
  <2> SUFFICES ASSUME Aligned, [SizesNext]_svars PROVE Aligned' OBVIOUS
  <2>1. CASE UNCHANGED svars
    BY <2>1 DEF svars, vars, sizing, Aligned, SizesTypeOK, Divided, Asked, Padded,
                PagesUnify, Sized, Exact, SharedPage
  <2> QED BY <2>1, PickInv, HybridInv, NotHybridInv, SkipTooSmallInv, SkipInv, NoSkipInv,
             SearchInv DEF SizesNext
<1> QED BY <1>1, InitInv, PTL DEF SizesSpec

(***************************************************************************)
(* The ratio a layer checked against the block it was built with divides   *)
(* the block its caches are made of, for all sizes of pages, kernels and   *)
(* states, if it divides what the backend asks for.                        *)
(***************************************************************************)
THEOREM RatioSafety == SizesSpec => []RatioStillDivides
<1>1. Aligned => RatioStillDivides
  BY DEF Aligned, Divided, Asked, RatioStillDivides
<1> QED BY <1>1, SizesInvariance, PTL

(***************************************************************************)
(* The states and the skip layers are padded to one page that holds what   *)
(* they store and that the attention layers' own pages divide, whatever    *)
(* the sizes are and whichever rule each alignment counts a token by, but  *)
(* for the two cases PagesUnify leaves out.                                *)
(***************************************************************************)
THEOREM OnePageSize == SizesSpec => []PagesUnify
<1>1. Aligned => PagesUnify BY DEF Aligned
<1> QED BY <1>1, SizesInvariance, PTL

\* The sizes the alignment computes are sizes, whatever it starts from.
THEOREM SizesTypes == SizesSpec => []SizesTypeOK
<1>1. Aligned => SizesTypeOK BY DEF Aligned
<1> QED BY <1>1, SizesInvariance, PTL
=============================================================================
