---------------------------- MODULE QSARing_proofs ----------------------------
(***************************************************************************)
(* QSARing's invariants for every number of requests and blocks, every     *)
(* ratio R, draft length K and every capacity C allowed by                 *)
(* CapacityAssumption; and the ring implements the cache that keeps the    *)
(* whole context: QSARing's Spec, with View as the refinement mapping,     *)
(* implies QSAContext's.                                                   *)
(***************************************************************************)
EXTENDS QSARing, Arithmetic

-----------------------------------------------------------------------------
(* The inductive invariant. *)

\* The last R - 1 positions before len: they include the open group's.
Window(len) == {p \in 0 .. len - 1 : len - R < p}

WindowHeld(r, keys, len) ==
  \A p \in Window(len) : ring[block[r]][p % C] = keys[p + 1]

\* Requests at work own a block of their own, and their items are known.
Ownership ==
  /\ \A r \in Req : block[r] = NoBlock => committed[r] = <<>> /\ rows[r] = <<>>
  /\ \A r, q \in Req : block[r] = block[q] /\ block[r] # NoBlock => r = q
  /\ \A r \in Req : End(r) <= MaxLen
  /\ \A r \in Req : rows[r] = <<>> => todo[r] = {}

\* The ring holds the window of every length the request may continue from.
RingOK(r) ==
  block[r] # NoBlock =>
    IF Commits(r)
    THEN \A kept \in Acceptable(r) : WindowHeld(r, Context(r), Start(r) + kept)
    ELSE WindowHeld(r, committed[r], Start(r))

\* Groups of committed tokens, and groups whose item has run, are pooled.
PoolOK(r) ==
  /\ \A g \in 0 .. (Start(r) \div R) - 1 : pooled[r][g] = TrueGroup(committed[r], g)
  /\ \A g \in Start(r) \div R .. (End(r) \div R) - 1 :
       g - Start(r) \div R \notin todo[r] => pooled[r][g] = TrueGroup(Context(r), g)

RingInv == \A r \in Req : RingOK(r)
PoolInv == \A r \in Req : PoolOK(r)

IInv == TypeOK /\ Ownership /\ RingInv /\ PoolInv

-----------------------------------------------------------------------------
(* Facts about a state of the right types. *)

\* A request's positions are numbers, and its rows lie between them.
LEMMA PositionTypes ==
  ASSUME TypeOK, NEW r \in Req
  PROVE  /\ committed[r] \in Seq(Key) /\ rows[r] \in Seq(Key)
         /\ Start(r) \in Nat /\ End(r) \in Nat /\ Start(r) <= End(r)
         /\ rows[r] # <<>> <=> Start(r) < End(r)
         /\ Len(committed[r]) = Start(r) /\ Len(rows[r]) = End(r) - Start(r)
         /\ Len(rows[r]) \in Nat /\ Start(r) + Len(rows[r]) = End(r)
  BY DEF TypeOK, Start, End

\* The keys of a sequence and its continuation, by position.
LEMMA ConcatType ==
  ASSUME NEW s \in Seq(Key), NEW t \in Seq(Key)
  PROVE  s \o t \in Seq(Key) /\ Len(s \o t) = Len(s) + Len(t)
  OBVIOUS

\* Positions of the first part keep their keys.
LEMMA ConcatLeft ==
  ASSUME NEW s \in Seq(Key), NEW t \in Seq(Key), NEW p \in Nat, p < Len(s)
  PROVE  (s \o t)[p + 1] = s[p + 1]
  OBVIOUS

\* Positions behind it have the keys of the second.
LEMMA ConcatRight ==
  ASSUME NEW s \in Seq(Key), NEW t \in Seq(Key), NEW p \in Nat,
         p >= Len(s), p < Len(s) + Len(t)
  PROVE  (s \o t)[p + 1] = t[p - Len(s) + 1]
<1>1. p + 1 \in Len(s) + 1 .. Len(s) + Len(t) /\ p + 1 - Len(s) = p - Len(s) + 1
  OBVIOUS
<1>2. (s \o t)[p + 1] = t[p + 1 - Len(s)]
  BY <1>1
<1> QED BY <1>1, <1>2

\* The context's keys: the committed ones, then the chunk's.
LEMMA ContextKeys ==
  ASSUME TypeOK, NEW r \in Req
  PROVE  /\ Context(r) \in Seq(Key)
         /\ Len(Context(r)) = End(r)
         /\ \A p \in 0 .. Start(r) - 1 : Context(r)[p + 1] = committed[r][p + 1]
         /\ \A p \in Start(r) .. End(r) - 1 :
               Context(r)[p + 1] = rows[r][p - Start(r) + 1]
<1>1. /\ committed[r] \in Seq(Key) /\ rows[r] \in Seq(Key)
      /\ Start(r) \in Nat /\ End(r) \in Nat
      /\ Len(committed[r]) = Start(r) /\ Len(rows[r]) = End(r) - Start(r)
  BY PositionTypes
<1>2. Context(r) \in Seq(Key) /\ Len(Context(r)) = End(r)
  <2>1. committed[r] \in Seq(Key) /\ rows[r] \in Seq(Key)
    BY <1>1
  <2>2. Context(r) \in Seq(Key) /\ Len(Context(r)) = Len(committed[r]) + Len(rows[r])
    BY <2>1, ConcatType DEF Context
  <2> QED BY <1>1, <2>2
<1>3. ASSUME NEW p \in 0 .. Start(r) - 1
      PROVE  Context(r)[p + 1] = committed[r][p + 1]
  <2>1. p \in Nat /\ p < Len(committed[r])
    BY <1>1
  <2> QED BY <1>1, <2>1, ConcatLeft DEF Context
<1>4. ASSUME NEW p \in Start(r) .. End(r) - 1
      PROVE  Context(r)[p + 1] = rows[r][p - Start(r) + 1]
  <2>1. p \in Nat /\ p >= Len(committed[r]) /\ p < Len(committed[r]) + Len(rows[r])
    BY <1>1
  <2>2. Context(r)[p + 1] = rows[r][p - Len(committed[r]) + 1]
    BY <1>1, <2>1, ConcatRight DEF Context
  <2> QED BY <1>1, <2>2
<1> QED BY <1>2, <1>3, <1>4

\* Every position the request may still need from the ring is among the last C.
LEMMA WindowIsStored ==
  ASSUME TypeOK, NEW r \in Req, rows[r] # <<>>,
         NEW kept \in Acceptable(r), NEW p \in Window(Start(r) + kept)
  PROVE  /\ kept \in 1 .. Len(rows[r])
         /\ p \in Nat
         /\ p < End(r)
         /\ p + C >= End(r)
         /\ p > Start(r) - R
<1>0. Len(rows[r]) \in Nat /\ Len(rows[r]) > 0
  BY PositionTypes
<1>1. kept \in 1 .. Len(rows[r]) /\ (Len(rows[r]) <= K + 1 \/ kept = Len(rows[r]))
  BY <1>0 DEF Acceptable
<1> QED
  BY <1>1, PositionTypes, ConstantsAssumption, CapacityAssumption DEF Window

\* Group boundaries, with R's assumption discharged.
LEMMA GroupArith ==
  ASSUME NEW g \in Nat
  PROVE  /\ R \in Nat \ {0} /\ g * R \in Nat /\ (g + 1) * R \in Nat
         /\ (g + 1) * R = g * R + R
  BY ConstantsAssumption

\* The groups a length completes are counted by a number.
LEMMA GroupsOf ==
  ASSUME NEW n \in Nat
  PROVE  n \div R \in Nat
  BY DivFacts, ConstantsAssumption

\* A longer context has at least the groups of a shorter one.
LEMMA MoreGroups ==
  ASSUME NEW m \in Nat, NEW n \in Nat, m <= n
  PROVE  m \div R <= n \div R
<1>1. m \div R \in Nat /\ n \div R \in Nat
  BY GroupsOf
<1>2. CASE m \div R = 0
  BY <1>1, <1>2
<1>3. CASE m \div R # 0
  <2> DEFINE g == m \div R - 1
  <2>1. g \in Nat /\ g < m \div R /\ m \div R = g + 1
    BY <1>1, <1>3
  <2> HIDE DEF g
  <2>2. (g + 1) * R <= m /\ (g + 1) * R \in Nat
    BY <2>1, CompleteGroup, GroupArith
  <2>3. (g + 1) * R <= n
    BY <2>2
  <2>4. g < n \div R
    BY <2>1, <2>3, CompleteGroup, GroupArith
  <2> QED BY <1>1, <2>1, <2>4
<1> QED BY <1>2, <1>3

\* The groups of a request fit its compressed cache.
LEMMA RequestGroups ==
  ASSUME TypeOK, Ownership, NEW r \in Req
  PROVE  /\ Start(r) \div R \in Nat /\ End(r) \div R \in Nat /\ MaxLen \div R \in Nat
         /\ Start(r) \div R <= End(r) \div R /\ End(r) \div R <= MaxLen \div R
<1>1. /\ Start(r) \in Nat /\ End(r) \in Nat /\ MaxLen \in Nat
      /\ Start(r) <= End(r) /\ End(r) <= MaxLen
  BY PositionTypes, ConstantsAssumption DEF Ownership
<1> QED BY <1>1, GroupsOf, MoreGroups

\* The i-th group a chunk completes: where it lies, relative to the chunk.
LEMMA ChunkGroup ==
  ASSUME TypeOK, Ownership, NEW r \in Req, NEW g \in Nat,
         g >= Start(r) \div R, g < End(r) \div R
  PROVE  /\ g \in Group
         /\ (g + 1) * R <= End(r)
         /\ g * R > Start(r) - R
         /\ g > Start(r) \div R => g * R >= Start(r)
<1>1. Start(r) \in Nat /\ End(r) \in Nat /\ MaxLen \in Nat /\ R \in Nat \ {0}
  BY PositionTypes, ConstantsAssumption
<1>2. (g + 1) * R <= End(r) /\ End(r) <= MaxLen
  BY <1>1, CompleteGroup DEF Ownership
<1>3. g < MaxLen \div R
  BY <1>1, <1>2, CompleteGroup
<1>4. MaxLen \div R \in Nat /\ Start(r) \div R \in Nat
  BY <1>1, DivFacts
<1>5. ~ (g + 1) * R <= Start(r)
  BY <1>1, <1>4, CompleteGroup
<1>6. (g + 1) * R = g * R + R /\ g * R \in Nat
  BY <1>1
<1>7. ASSUME g > Start(r) \div R PROVE g * R >= Start(r)
  <2>1. Start(r) < (Start(r) \div R + 1) * R
    BY <1>1, <1>4, CompleteGroup
  <2>2. R * g >= R * (Start(r) \div R) + R
    BY <1>1, <1>4, <1>7, MulGap
  <2> QED BY <1>1, <1>4, <2>1, <2>2
<1> QED
  BY <1>1, <1>2, <1>3, <1>4, <1>5, <1>6, <1>7 DEF Group

\* The keys a work item reads are rows of the chunk or of the request's ring.
LEMMA RawKeyType ==
  ASSUME TypeOK, NEW r \in Req, block[r] \in Block, NEW p \in Nat, p < End(r)
  PROVE  RawKey(r, p) \in Row
<1>1. Start(r) \in Nat /\ rows[r] \in Seq(Key) /\ Len(rows[r]) = End(r) - Start(r)
      /\ End(r) \in Nat
  BY PositionTypes
<1>2. CASE p >= Start(r)
  <2>1. p - Start(r) + 1 \in 1 .. Len(rows[r]) BY <1>1, <1>2
  <2>2. rows[r][p - Start(r) + 1] \in Key BY <1>1, <2>1
  <2> QED BY <1>2, <2>2 DEF RawKey, Row
<1>3. CASE ~ p >= Start(r)
  <2>1. p % C \in Slot BY DivFacts, ConstantsAssumption DEF Slot
  <2> QED BY <1>3, <2>1 DEF RawKey, TypeOK
<1> QED BY <1>2, <1>3

\* What a work item pools is a function from the group to keys.
LEMMA PooledGroupType ==
  ASSUME TypeOK, Ownership, NEW r \in Req, block[r] \in Block, NEW g \in Nat,
         (g + 1) * R <= End(r)
  PROVE  PooledGroup(r, g) \in Pool
<1>1. ASSUME NEW j \in 0 .. R - 1
      PROVE  RawKey(r, g * R + j) \in Row
  <2>1. g * R \in Nat /\ (g + 1) * R = g * R + R /\ R \in Nat
    BY ConstantsAssumption
  <2>2. g * R + j \in Nat /\ g * R + j < End(r)
    <3> DEFINE m == g * R
    <3>1. m \in Nat /\ m + R <= End(r) /\ End(r) \in Nat BY <2>1, PositionTypes
    <3> HIDE DEF m
    <3>2. m + j \in Nat /\ m + j < End(r) BY <2>1, <3>1
    <3> QED BY <3>2 DEF m
  <2> QED BY <2>2, RawKeyType
<1> QED BY <1>1 DEF PooledGroup, Pool

-----------------------------------------------------------------------------
(* Every step preserves the invariant: types and ownership. *)

\* Admit keeps the types and the ownership of the blocks.
LEMMA AdmitTypes ==
  ASSUME TypeOK, Ownership, NEW r \in Req, NEW b \in Block, Admit(r, b)
  PROVE  TypeOK' /\ Ownership'
<1>1. TypeOK'
  BY DEF TypeOK, Admit
<1>2. Ownership'
  BY ConstantsAssumption DEF TypeOK, Ownership, Admit, Start, End
<1> QED BY <1>1, <1>2

\* Schedule keeps them, and lists an item per group it completes.
LEMMA ScheduleTypes ==
  ASSUME TypeOK, Ownership, NEW chunk \in [Req -> Chunks], Schedule(chunk)
  PROVE  TypeOK' /\ Ownership'
<1>1. \A r \in Req : chunk[r] \in Seq(Key)
  BY ConstantsAssumption DEF Chunks
<1>2. rows' \in [Req -> Seq(Key)]
  BY <1>1 DEF Schedule
<1>3. \A r \in Req : WorkItems(Start(r), Len(chunk[r])) \in SUBSET Nat
  BY <1>1, PositionTypes DEF WorkItems
<1>4. TypeOK'
  BY <1>2, <1>3 DEF TypeOK, Schedule
<1>5. \A r \in Req : End(r)' <= MaxLen
  <2> TAKE r \in Req
  <2>1. CASE chunk[r] = <<>>
    BY <2>1, PositionTypes DEF Schedule, Ownership, Start, End, TypeOK, Idle
  <2>2. CASE chunk[r] # <<>>
    BY <2>2 DEF Schedule, Start, End
  <2> QED BY <2>1, <2>2
<1>6. Ownership'
  BY <1>1, <1>5 DEF Schedule, Ownership, WorkItems
<1> QED BY <1>4, <1>6

\* A work item writes keys to ring rows and functions to pooled rows.
LEMMA RunItemTypes ==
  ASSUME TypeOK, Ownership, NEW r \in Req, NEW i \in todo[r], RunItem(r, i)
  PROVE  TypeOK' /\ Ownership'
<1>1. rows[r] # <<>> /\ block[r] \in Block /\ i \in Nat
  BY DEF Ownership, TypeOK
<1>2. pooled' \in [Req -> [Group -> Pool]]
  <2> DEFINE g == Start(r) \div R + i
  <2>1. CASE i < NumGroups(Start(r), Len(rows[r]))
    <3>1. Start(r) \div R \in Nat /\ End(r) \div R \in Nat /\ Start(r) + Len(rows[r]) = End(r)
      BY PositionTypes, DivFacts, ConstantsAssumption
    <3>2. g \in Nat /\ g >= Start(r) \div R /\ g < End(r) \div R
      BY <1>1, <2>1, <3>1 DEF NumGroups
    <3>3. PooledGroup(r, g) \in Pool
      BY <1>1, <3>2, ChunkGroup, PooledGroupType
    <3> QED BY <2>1, <3>3 DEF RunItem, PoolItem, TypeOK
  <2>2. CASE ~ i < NumGroups(Start(r), Len(rows[r]))
    BY <2>2 DEF RunItem, PoolItem, TypeOK
  <2> QED BY <2>1, <2>2
<1>3. ring' \in [Block -> [Slot -> Row]]
  <2>1. CASE i = 0
    <3>1. ASSUME NEW p \in StoredPositions(r)
          PROVE  Context(r)[p + 1] \in Row
      <4>1. p + 1 \in 1 .. Len(Context(r))
        BY PositionTypes, ContextKeys DEF StoredPositions
      <4> QED BY <4>1, ContextKeys DEF Row
    <3>2. ASSUME NEW s \in Slot
          PROVE  (IF \E p \in StoredPositions(r) : p % C = s
                  THEN Context(r)[(CHOOSE p \in StoredPositions(r) : p % C = s) + 1]
                  ELSE ring[block[r]][s]) \in Row
      BY <1>1, <3>1 DEF TypeOK
    <3>3. [s \in Slot |->
             IF \E p \in StoredPositions(r) : p % C = s
             THEN Context(r)[(CHOOSE p \in StoredPositions(r) : p % C = s) + 1]
             ELSE ring[block[r]][s]] \in [Slot -> Row]
      BY <3>2
    <3> QED BY <2>1, <3>3 DEF RunItem, CommitRows, TypeOK
  <2>2. CASE i # 0
    BY <2>2 DEF RunItem, TypeOK
  <2> QED BY <2>1, <2>2
<1>4. TypeOK'
  BY <1>2, <1>3 DEF RunItem, TypeOK
<1>5. Ownership'
  BY DEF RunItem, Ownership, Start, End, TypeOK
<1> QED BY <1>4, <1>5

\* What Accept does to one request's keys.
LEMMA AcceptKeys ==
  ASSUME TypeOK, NEW kept \in [Req -> 0 .. MaxChunk], Accept(kept), NEW r \in Req
  PROVE  /\ kept[r] \in 0 .. Len(rows[r])
         /\ committed'[r] \in Seq(Key)
         /\ Start(r)' = Start(r) + kept[r]
         /\ Start(r)' \in Nat /\ Start(r)' <= End(r)
         /\ \A p \in 0 .. Start(r) + kept[r] - 1 :
               committed'[r][p + 1] = Context(r)[p + 1]
<1>1. kept[r] \in 0 .. Len(rows[r])
  BY PositionTypes DEF Accept, Acceptable
<1>2. /\ committed[r] \in Seq(Key) /\ rows[r] \in Seq(Key)
      /\ Start(r) \in Nat /\ End(r) \in Nat /\ kept[r] \in Nat
      /\ Len(committed[r]) = Start(r) /\ Len(rows[r]) = End(r) - Start(r)
  BY <1>1, PositionTypes
<1> DEFINE t == SubSeq(rows[r], 1, kept[r])
<1>3. /\ t \in Seq(Key) /\ Len(t) = kept[r]
      /\ \A i \in 1 .. kept[r] : t[i] = rows[r][i]
  BY <1>1, <1>2
<1>4. committed'[r] = committed[r] \o t
  BY DEF Accept, TypeOK
<1> HIDE DEF t
<1>5. committed'[r] \in Seq(Key) /\ Len(committed'[r]) = Start(r) + kept[r]
  BY <1>2, <1>3, <1>4, ConcatType
<1>6. ASSUME NEW p \in 0 .. Start(r) + kept[r] - 1
      PROVE  committed'[r][p + 1] = Context(r)[p + 1]
  <2>1. p \in Nat /\ p < Len(committed[r]) + Len(t) /\ p < End(r)
    BY <1>1, <1>2, <1>3
  <2>2. CASE p < Start(r)
    <3>1. (committed[r] \o t)[p + 1] = committed[r][p + 1]
      BY <1>2, <1>3, <2>1, <2>2, ConcatLeft
    <3>2. p \in 0 .. Start(r) - 1
      BY <1>2, <2>1, <2>2
    <3> QED BY <1>4, <3>1, <3>2, ContextKeys
  <2>3. CASE p >= Start(r)
    <3>1. (committed[r] \o t)[p + 1] = t[p - Start(r) + 1]
      <4>1. committed[r] \in Seq(Key) /\ t \in Seq(Key) /\ p >= Len(committed[r])
        BY <1>2, <1>3, <2>3
      <4>2. (committed[r] \o t)[p + 1] = t[p - Len(committed[r]) + 1]
        BY <2>1, <4>1, ConcatRight
      <4> QED BY <1>2, <4>2
    <3>2. p - Start(r) + 1 \in 1 .. kept[r] /\ p \in Start(r) .. End(r) - 1
      BY <1>2, <1>3, <2>1, <2>3
    <3> QED BY <1>3, <1>4, <3>1, <3>2, ContextKeys
  <2> QED BY <1>2, <2>1, <2>2, <2>3
<1>7. Start(r)' = Start(r) + kept[r]
  BY <1>5 DEF Start
<1>8. Start(r) + kept[r] \in Nat /\ Start(r) + kept[r] <= End(r)
  BY <1>1, <1>2
<1>9. Start(r)' \in Nat /\ Start(r)' <= End(r)
  BY ONLY <1>7, <1>8
<1> QED BY ONLY <1>1, <1>5, <1>6, <1>7, <1>9

\* Accept keeps the types: a prefix of the rows fits the length.
LEMMA AcceptTypes ==
  ASSUME TypeOK, Ownership, NEW kept \in [Req -> 0 .. MaxChunk], Accept(kept)
  PROVE  TypeOK' /\ Ownership'
<1>1. committed' \in [Req -> Seq(Key)]
  BY AcceptKeys DEF Accept
<1>2. TypeOK'
  BY <1>1 DEF Accept, TypeOK
<1>3. \A r \in Req : End(r)' <= MaxLen
  <2> TAKE r \in Req
  <2>1. End(r)' = Start(r)' BY <1>2, AcceptKeys DEF Accept, Start, End
  <2> QED BY <2>1, AcceptKeys, PositionTypes, ConstantsAssumption DEF Ownership
<1>4. \A r \in Req : block[r] = NoBlock => committed'[r] = <<>>
  BY DEF Accept, Ownership, TypeOK
<1>5. Ownership'
  BY <1>3, <1>4 DEF Accept, Ownership, TypeOK
<1> QED BY <1>2, <1>5

\* Release keeps the types; the block may be given to another and holds nothing
\* for it.
LEMMA ReleaseTypes ==
  ASSUME TypeOK, Ownership, NEW r \in Req, Release(r)
  PROVE  TypeOK' /\ Ownership'
<1>1. TypeOK'
  <2>1. block[r] \in Block
    BY DEF Release, TypeOK
  <2>2. [s \in Slot |-> Stale] \in [Slot -> Row]
    BY DEF Row
  <2>3. [g \in Group |-> [j \in 0 .. R - 1 |-> Stale]] \in [Group -> Pool]
    BY DEF Row, Pool
  <2>4. ring' \in [Block -> [Slot -> Row]]
    BY <2>1, <2>2 DEF Release, TypeOK
  <2>5. pooled' \in [Req -> [Group -> Pool]]
    BY <2>3 DEF Release, TypeOK
  <2>6. committed' \in [Req -> Seq(Key)] /\ block' \in [Req -> Block \union {NoBlock}]
    BY DEF Release, TypeOK
  <2>7. rows' \in [Req -> Seq(Key)] /\ todo' \in [Req -> SUBSET Nat]
    BY DEF Release, TypeOK
  <2> QED BY <2>4, <2>5, <2>6, <2>7 DEF TypeOK
<1>2. \A q \in Req : End(q)' <= MaxLen
  BY ConstantsAssumption DEF Release, Ownership, TypeOK, Start, End, Idle
<1>3. Ownership'
  BY <1>2 DEF Release, Ownership, TypeOK, Idle
<1> QED BY <1>1, <1>3

-----------------------------------------------------------------------------
(* Every step preserves the invariant: the ring. *)

\* The ring part of the invariant, where a step leaves its variables alone.
LEMMA RingFrame ==
  ASSUME NEW q \in Req, RingOK(q),
         committed'[q] = committed[q], rows'[q] = rows[q], block'[q] = block[q],
         ring'[block[q]] = ring[block[q]], 0 \in todo'[q] <=> 0 \in todo[q]
  PROVE  RingOK(q)'
  BY DEF RingOK, Commits, Acceptable, WindowHeld, Context, Start

\* A request without tokens needs nothing from its ring.
LEMMA EmptyRing ==
  ASSUME NEW q \in Req, committed'[q] = <<>>, rows'[q] = <<>>
  PROVE  RingOK(q)'
  BY DEF RingOK, Commits, WindowHeld, Window, Start

\* A request that gets a block has nothing in it yet.
LEMMA AdmitRing ==
  ASSUME TypeOK, Ownership, RingInv, NEW r \in Req, NEW b \in Block, Admit(r, b)
  PROVE  RingInv'
<1> SUFFICES ASSUME NEW q \in Req PROVE RingOK(q)' BY DEF RingInv
<1>1. CASE q = r
  BY <1>1, EmptyRing DEF Admit, Ownership, Idle
<1>2. CASE q # r
  <2>1. block'[q] = block[q] BY <1>2 DEF Admit, TypeOK
  <2> QED BY <2>1, RingFrame DEF Admit, RingInv
<1> QED BY <1>1, <1>2

\* A chunk begins with the open group still in the ring.
LEMMA ScheduleRing ==
  ASSUME TypeOK, Ownership, RingInv, NEW chunk \in [Req -> Chunks], Schedule(chunk)
  PROVE  RingInv'
<1> SUFFICES ASSUME NEW q \in Req PROVE RingOK(q)' BY DEF RingInv
<1>1. ~ Commits(q)
  BY DEF Schedule, Idle, Commits
<1>2. ~ Commits(q)'
  <2>1. CASE chunk[q] = <<>>
    BY <2>1 DEF Schedule, Commits
  <2>2. CASE chunk[q] # <<>>
    <3>1. chunk[q] \in Seq(Key)
      BY ConstantsAssumption DEF Chunks
    <3>2. Len(chunk[q]) \in Nat /\ Len(chunk[q]) # 0
      BY <2>2, <3>1
    <3>3. NumGroups(Start(q), Len(chunk[q])) \in Int
      <4>1. Start(q) \in Nat /\ Start(q) + Len(chunk[q]) \in Nat /\ R \in Nat \ {0}
        BY <3>2, PositionTypes, ConstantsAssumption
      <4> QED BY <4>1, DivFacts DEF NumGroups
    <3>4. 0 \in WorkItems(Start(q), Len(chunk[q]))
      BY <3>2, <3>3 DEF WorkItems
    <3> QED BY <3>4 DEF Schedule, Commits
  <2> QED BY <2>1, <2>2
<1>3. committed' = committed /\ block' = block /\ ring' = ring
  BY DEF Schedule
<1>4. block[q] # NoBlock => WindowHeld(q, committed[q], Start(q))
  BY <1>1 DEF RingInv, RingOK
<1>5. (block[q] # NoBlock => WindowHeld(q, committed[q], Start(q)))'
  BY <1>3, <1>4 DEF WindowHeld, Start
<1> QED BY <1>2, <1>5 DEF RingOK

\* Item zero: the positions still needed are stored or were left alone.
LEMMA CommitWindow ==
  ASSUME TypeOK, Ownership, RingInv, NEW r \in Req, 0 \in todo[r], RunItem(r, 0),
         NEW kept \in Acceptable(r), NEW p \in Window(Start(r) + kept)
  PROVE  ring'[block[r]][p % C] = Context(r)[p + 1]
<1>1. rows[r] # <<>> /\ block[r] \in Block /\ block[r] # NoBlock
  BY DEF Ownership, TypeOK
<1>2. /\ p \in Nat /\ p < End(r) /\ p + C >= End(r) /\ p > Start(r) - R
  BY <1>1, WindowIsStored
<1>3. Start(r) \in Nat /\ End(r) \in Nat /\ C \in Nat \ {0} /\ R \in Nat \ {0}
  BY PositionTypes, ConstantsAssumption
<1>4. p % C \in Slot
  BY <1>2, <1>3, DivFacts DEF Slot
<1>5. ring'[block[r]][p % C] =
        IF \E q \in StoredPositions(r) : q % C = p % C
        THEN Context(r)[(CHOOSE q \in StoredPositions(r) : q % C = p % C) + 1]
        ELSE ring[block[r]][p % C]
  <2> DEFINE stored == [s \in Slot |->
                IF \E q \in StoredPositions(r) : q % C = s
                THEN Context(r)[(CHOOSE q \in StoredPositions(r) : q % C = s) + 1]
                ELSE ring[block[r]][s]]
  <2>1. ring' = [ring EXCEPT ![block[r]] = stored]
    BY DEF RunItem, CommitRows
  <2>2. ring'[block[r]] = stored
    <3> HIDE DEF stored
    <3> QED BY <1>1, <2>1 DEF TypeOK
  <2> QED BY <1>4, <2>2
<1>6. ASSUME NEW q \in StoredPositions(r), q % C = p % C
      PROVE  q = p
  <2>1. q \in Nat /\ q < p + C /\ p < q + C
    BY <1>2, <1>3 DEF StoredPositions
  <2>2. CASE q < p
    BY <1>2, <1>3, <1>6, <2>1, <2>2, DistinctSlots
  <2>3. CASE p < q
    BY <1>2, <1>3, <1>6, <2>1, <2>3, DistinctSlots
  <2> QED BY <1>2, <2>1, <2>2, <2>3
<1>7. CASE p >= Start(r)
  <2>1. p \in StoredPositions(r)
    BY <1>2, <1>3, <1>7 DEF StoredPositions
  <2>2. (CHOOSE q \in StoredPositions(r) : q % C = p % C) = p
    BY <1>6, <2>1
  <2> QED BY <1>5, <2>1, <2>2
<1>8. CASE p < Start(r)
  <2>1. ~ \E q \in StoredPositions(r) : q % C = p % C
    BY <1>3, <1>6, <1>8 DEF StoredPositions
  <2>2. p \in Window(Start(r)) /\ p \in 0 .. Start(r) - 1
    BY <1>2, <1>3, <1>8 DEF Window
  <2>3. ring[block[r]][p % C] = committed[r][p + 1]
    BY <1>1, <2>2 DEF RingInv, RingOK, Commits, WindowHeld
  <2> QED BY <1>5, <2>1, <2>2, <2>3, ContextKeys
<1> QED BY <1>2, <1>3, <1>7, <1>8

\* Item zero commits the last rows; every other item leaves the ring alone.
LEMMA RunItemRing ==
  ASSUME TypeOK, Ownership, RingInv, NEW r \in Req, NEW i \in todo[r], RunItem(r, i)
  PROVE  RingInv'
<1> SUFFICES ASSUME NEW q \in Req PROVE RingOK(q)' BY DEF RingInv
<1>1. committed' = committed /\ rows' = rows /\ block' = block
  BY DEF RunItem
<1>2. CASE q # r
  <2>1. todo'[q] = todo[q]
    BY <1>2 DEF RunItem, TypeOK
  <2>2. CASE block[q] = NoBlock
    BY <1>1, <2>2 DEF RingOK
  <2>3. CASE block[q] # NoBlock
    <3>1. block[q] # block[r]
      BY <1>2, <2>3 DEF Ownership
    <3>2. ring'[block[q]] = ring[block[q]]
      BY <2>3, <3>1 DEF RunItem, CommitRows, TypeOK
    <3> QED BY <1>1, <2>1, <3>2, RingFrame DEF RingInv
  <2> QED BY <2>2, <2>3
<1>3. CASE q = r /\ i # 0
  <2>1. 0 \in todo'[q] <=> 0 \in todo[q]
    BY <1>3 DEF RunItem, TypeOK
  <2>2. ring' = ring
    BY <1>3 DEF RunItem
  <2> QED BY <1>1, <2>1, <2>2, RingFrame DEF RingInv
<1>4. CASE q = r /\ i = 0
  <2>1. Commits(r)'
    BY <1>4 DEF RunItem, Commits, TypeOK, Ownership
  <2>2. \A kept \in Acceptable(r) : \A p \in Window(Start(r) + kept) :
          ring'[block[r]][p % C] = Context(r)[p + 1]
    BY <1>4, CommitWindow
  <2>3. (\A kept \in Acceptable(r) : WindowHeld(r, Context(r), Start(r) + kept))'
    BY <1>1, <2>2 DEF WindowHeld, Acceptable, Start, Context
  <2> QED BY <1>4, <2>1, <2>3 DEF RingOK
<1> QED BY <1>2, <1>3, <1>4

\* Whatever prefix is accepted, its open group is in the ring.
LEMMA AcceptRing ==
  ASSUME TypeOK, Ownership, RingInv, NEW kept \in [Req -> 0 .. MaxChunk], Accept(kept)
  PROVE  RingInv'
<1> SUFFICES ASSUME NEW q \in Req PROVE RingOK(q)' BY DEF RingInv
<1>1. ~ Commits(q)' /\ block' = block /\ ring' = ring
  BY DEF Accept, Commits
<1> SUFFICES ASSUME block[q] # NoBlock, NEW p \in Window(Start(q) + kept[q])
               PROVE  ring[block[q]][p % C] = committed'[q][p + 1]
  BY <1>1, AcceptKeys DEF RingOK, WindowHeld
<1>2. Start(q) \in Nat /\ kept[q] \in Nat
  BY PositionTypes, ConstantsAssumption
<1>3. p \in 0 .. Start(q) + kept[q] - 1
  BY <1>2 DEF Window
<1>4. committed'[q][p + 1] = Context(q)[p + 1]
  BY <1>3, AcceptKeys
<1>5. kept[q] \in Acceptable(q) /\ 0 \notin todo[q]
  BY DEF Accept
<1>6. CASE Commits(q)
  BY <1>4, <1>5, <1>6 DEF RingInv, RingOK, WindowHeld
<1>7. CASE ~ Commits(q)
  <2>1. rows[q] = <<>> /\ kept[q] = 0
    BY <1>5, <1>7 DEF Commits, Acceptable
  <2>2. Start(q) + kept[q] = Start(q)
    BY <2>1, PositionTypes
  <2>3. ring[block[q]][p % C] = committed[q][p + 1]
    BY <1>7, <2>2 DEF RingInv, RingOK, WindowHeld
  <2>4. p \in 0 .. Start(q) - 1
    BY <1>2, <1>3, <2>2
  <2> QED BY <1>4, <2>3, <2>4, ContextKeys
<1> QED BY <1>6, <1>7

\* Releasing a request leaves the rings of the others alone.
LEMMA ReleaseRing ==
  ASSUME TypeOK, Ownership, RingInv, NEW r \in Req, Release(r)
  PROVE  RingInv'
<1> SUFFICES ASSUME NEW q \in Req PROVE RingOK(q)' BY DEF RingInv
<1>1. CASE q = r
  BY <1>1, EmptyRing DEF Release, Idle, TypeOK
<1>2. CASE q # r /\ block[q] = NoBlock
  BY <1>2 DEF Release, RingOK, TypeOK
<1>3. CASE q # r /\ block[q] # NoBlock
  <2>1. block'[q] = block[q] /\ committed'[q] = committed[q]
    BY <1>3 DEF Release, TypeOK
  <2>2. block[q] # block[r]
    BY <1>3 DEF Release, Ownership
  <2>3. ring'[block[q]] = ring[block[q]]
    BY <1>3, <2>2 DEF Release, TypeOK
  <2> QED BY <2>1, <2>3, RingFrame DEF Release, RingInv
<1> QED BY <1>1, <1>2, <1>3

-----------------------------------------------------------------------------
(* Every step preserves the invariant: the compressed rows. *)

\* The pooled part of the invariant, where a step leaves its variables alone.
LEMMA PoolFrame ==
  ASSUME NEW q \in Req, PoolOK(q),
         committed'[q] = committed[q], rows'[q] = rows[q],
         pooled'[q] = pooled[q], todo'[q] = todo[q]
  PROVE  PoolOK(q)'
<1>1. Start(q)' = Start(q) /\ End(q)' = End(q) /\ Context(q)' = Context(q)
  BY DEF Start, End, Context
<1>2. \A g \in 0 .. (Start(q)' \div R) - 1 : pooled'[q][g] = TrueGroup(committed'[q], g)
  BY <1>1 DEF PoolOK
<1>3. \A g \in Start(q)' \div R .. (End(q)' \div R) - 1 :
        g - Start(q)' \div R \notin todo'[q] => pooled'[q][g] = TrueGroup(Context(q)', g)
  BY <1>1 DEF PoolOK
<1> QED BY <1>2, <1>3 DEF PoolOK, TrueGroup

\* The true pool of a group depends on the keys of its positions only.
LEMMA SameKeysSamePool ==
  ASSUME NEW s, NEW t, NEW g \in Nat, NEW n \in Nat, (g + 1) * R <= n,
         \A p \in 0 .. n - 1 : s[p + 1] = t[p + 1]
  PROVE  TrueGroup(s, g) = TrueGroup(t, g)
<1> SUFFICES ASSUME NEW j \in 0 .. R - 1
             PROVE  s[g * R + j + 1] = t[g * R + j + 1]
  BY DEF TrueGroup
<1>1. g * R \in Nat /\ (g + 1) * R = g * R + R /\ R \in Nat
  BY ConstantsAssumption
<1>2. g * R + j \in 0 .. n - 1
  BY <1>1
<1> QED BY <1>2

\* No tokens, no groups.
LEMMA EmptyPool ==
  ASSUME NEW q \in Req, committed'[q] = <<>>, rows'[q] = <<>>
  PROVE  PoolOK(q)'
<1>1. Start(q)' = 0 /\ End(q)' = 0
  BY DEF Start, End
<1>2. 0 \div R = 0
  BY DivFacts, CompleteGroup, ConstantsAssumption
<1> QED BY <1>1, <1>2 DEF PoolOK

\* Each group a chunk completes has an item that is still to pool it.
LEMMA SchedulePool ==
  ASSUME TypeOK, Ownership, PoolInv, NEW chunk \in [Req -> Chunks], Schedule(chunk)
  PROVE  PoolInv'
<1> SUFFICES ASSUME NEW q \in Req PROVE PoolOK(q)' BY DEF PoolInv
<1>1. committed' = committed /\ pooled' = pooled /\ rows'[q] = chunk[q]
      /\ todo'[q] = WorkItems(Start(q), Len(chunk[q]))
  BY DEF Schedule
<1>2. Start(q)' = Start(q) /\ End(q)' = Start(q) + Len(chunk[q])
  BY <1>1 DEF Start, End
<1>3. chunk[q] \in Seq(Key)
  BY ConstantsAssumption DEF Chunks
<1>4. Start(q) \in Nat /\ Len(chunk[q]) \in Nat /\ R \in Nat \ {0}
  BY <1>3, PositionTypes, ConstantsAssumption
<1>5. Start(q) \div R \in Nat /\ (Start(q) + Len(chunk[q])) \div R \in Nat
  <2>1. Start(q) + Len(chunk[q]) \in Nat
    BY <1>4
  <2> QED BY <1>4, <2>1, GroupsOf
<1>6. ASSUME NEW g \in Start(q) \div R .. ((Start(q) + Len(chunk[q])) \div R) - 1
      PROVE  g - Start(q) \div R \in WorkItems(Start(q), Len(chunk[q]))
  <2>1. CASE Len(chunk[q]) = 0
    BY <1>4, <1>5, <2>1
  <2>2. CASE Len(chunk[q]) # 0
    BY <1>4, <1>5, <2>2 DEF WorkItems, NumGroups
  <2> QED BY <2>1, <2>2
<1>7. \A g \in 0 .. (Start(q) \div R) - 1 : pooled[q][g] = TrueGroup(committed[q], g)
  BY DEF PoolInv, PoolOK
<1> QED BY <1>1, <1>2, <1>6, <1>7 DEF PoolOK, TrueGroup

\* A work item pools exactly the keys of the group's own positions.
LEMMA ItemPoolsTrueGroup ==
  ASSUME TypeOK, Ownership, RingInv, NEW r \in Req, rows[r] # <<>>,
         NEW g \in Nat, g >= Start(r) \div R, g < End(r) \div R,
         g = Start(r) \div R => 0 \in todo[r]
  PROVE  PooledGroup(r, g) = TrueGroup(Context(r), g)
<1> SUFFICES ASSUME NEW j \in 0 .. R - 1
             PROVE  RawKey(r, g * R + j) = Context(r)[g * R + j + 1]
  BY DEF PooledGroup, TrueGroup
<1> DEFINE p == g * R + j
<1>1. /\ (g + 1) * R <= End(r) /\ g * R > Start(r) - R
      /\ g > Start(r) \div R => g * R >= Start(r)
  BY ChunkGroup
<1>2. /\ g * R \in Nat /\ (g + 1) * R = g * R + R /\ R \in Nat \ {0}
      /\ Start(r) \in Nat /\ End(r) \in Nat /\ Start(r) \div R \in Nat
  BY GroupArith, PositionTypes, GroupsOf
<1>3. p \in Nat /\ p < End(r) /\ p > Start(r) - R /\ p >= g * R
  BY <1>1, <1>2
<1> HIDE DEF p
<1>4. CASE p >= Start(r)
  <2>1. p \in Start(r) .. End(r) - 1
    BY <1>2, <1>3, <1>4
  <2> QED BY <1>4, <2>1, ContextKeys DEF RawKey, p
<1>5. CASE p < Start(r)
  <2>1. g = Start(r) \div R
    BY <1>1, <1>2, <1>3, <1>5
  <2>2. ~ Commits(r) /\ block[r] # NoBlock
    BY <2>1 DEF Commits, Ownership
  <2>3. p \in Window(Start(r)) /\ p \in 0 .. Start(r) - 1
    BY <1>2, <1>3, <1>5 DEF Window
  <2>4. ring[block[r]][p % C] = committed[r][p + 1]
    BY <2>2, <2>3 DEF RingInv, RingOK, WindowHeld
  <2>5. RawKey(r, p) = ring[block[r]][p % C]
    BY <1>2, <1>3, <1>5 DEF RawKey
  <2> QED BY <2>3, <2>4, <2>5, ContextKeys DEF p
<1> QED BY <1>2, <1>3, <1>4, <1>5

\* After an item ran, its group is pooled and all others are as before.
LEMMA RunItemPool ==
  ASSUME TypeOK, Ownership, RingInv, PoolInv,
         NEW r \in Req, NEW i \in todo[r], RunItem(r, i)
  PROVE  PoolInv'
<1> SUFFICES ASSUME NEW q \in Req PROVE PoolOK(q)' BY DEF PoolInv
<1>1. committed' = committed /\ rows' = rows
  BY DEF RunItem
<1>2. CASE q # r
  <2>1. todo'[q] = todo[q] /\ pooled'[q] = pooled[q]
    BY <1>2 DEF RunItem, PoolItem, TypeOK
  <2> QED BY <1>1, <2>1, PoolFrame DEF PoolInv
<1>3. CASE q = r
  <2> DEFINE first == Start(r) \div R
  <2>1. /\ first \in Nat /\ i \in Nat /\ End(r) \div R \in Nat
        /\ Start(r) + Len(rows[r]) = End(r) /\ rows[r] # <<>>
    <3>1. Start(r) \in Nat /\ End(r) \in Nat /\ R \in Nat \ {0}
          /\ Start(r) + Len(rows[r]) = End(r)
      BY PositionTypes, ConstantsAssumption
    <3> QED BY <3>1, DivFacts DEF Ownership, TypeOK
  <2>2. \A g \in Group : g # first + i => pooled'[r][g] = pooled[r][g]
    BY <2>1 DEF RunItem, PoolItem, TypeOK
  <2>3. todo'[r] = todo[r] \ {i}
    BY DEF RunItem, TypeOK
  <2>4. first <= End(r) \div R /\ \A g \in 0 .. End(r) \div R - 1 : g \in Group
    BY RequestGroups DEF Group
  <2>6. ASSUME NEW g \in 0 .. first - 1
        PROVE  pooled'[r][g] = TrueGroup(committed[r], g)
    <3>1. g \in Group /\ g # first + i
      BY <2>1, <2>4
    <3>2. pooled[r][g] = TrueGroup(committed[r], g)
      BY DEF PoolInv, PoolOK
    <3> QED BY <2>2, <3>1, <3>2
  <2>7. ASSUME NEW g \in first .. End(r) \div R - 1, g - first \notin todo'[r]
        PROVE  pooled'[r][g] = TrueGroup(Context(r), g)
    <3>1. g \in Nat /\ g >= first /\ g < End(r) \div R /\ g \in Group
      BY <2>1, <2>4
    <3>2. CASE g = first + i
      <4>1. i < NumGroups(Start(r), Len(rows[r]))
        BY <2>1, <3>1, <3>2 DEF NumGroups
      <4>2. pooled'[r][g] = PooledGroup(r, g)
        BY <3>1, <3>2, <4>1 DEF RunItem, PoolItem, TypeOK
      <4>3. g = first => 0 \in todo[r]
        BY <2>1, <3>2
      <4> QED BY <2>1, <3>1, <4>2, <4>3, ItemPoolsTrueGroup
    <3>3. CASE g # first + i
      <4>1. g - first \notin todo[r]
        BY <2>1, <2>3, <2>7, <3>1, <3>3
      <4>2. pooled[r][g] = TrueGroup(Context(r), g)
        BY <4>1 DEF PoolInv, PoolOK
      <4> QED BY <2>2, <3>1, <3>3, <4>2
    <3> QED BY <3>2, <3>3
  <2>8. Start(r)' = Start(r) /\ End(r)' = End(r) /\ Context(r)' = Context(r)
    BY <1>1 DEF Start, End, Context
  <2> QED
    <3> HIDE DEF first
    <3>1. \A g \in 0 .. first - 1 : pooled'[r][g] = TrueGroup(committed'[r], g)
      BY <1>1, <2>6
    <3>2. \A g \in first .. End(r) \div R - 1 :
            g - first \notin todo'[r] => pooled'[r][g] = TrueGroup(Context(r), g)
      BY <2>7
    <3> QED BY <1>3, <2>8, <3>1, <3>2 DEF PoolOK, TrueGroup, first
<1> QED BY <1>2, <1>3

\* Groups that are complete in the accepted prefix were pooled truly.
LEMMA AcceptPool ==
  ASSUME TypeOK, Ownership, PoolInv, NEW kept \in [Req -> 0 .. MaxChunk], Accept(kept)
  PROVE  PoolInv'
<1> SUFFICES ASSUME NEW q \in Req PROVE PoolOK(q)' BY DEF PoolInv
<1>1. pooled' = pooled /\ rows'[q] = <<>> /\ todo[q] = {}
  BY DEF Accept
<1>2. /\ Start(q) \in Nat /\ End(q) \in Nat /\ kept[q] \in Nat /\ R \in Nat \ {0}
      /\ Start(q)' = Start(q) + kept[q] /\ Start(q)' <= End(q)
  BY AcceptKeys, PositionTypes, ConstantsAssumption
<1>3. End(q)' = Start(q)'
  BY <1>1, <1>2 DEF End
<1>4. Start(q)' \div R \in Nat /\ End(q) \div R \in Nat /\ Start(q) \div R \in Nat
  BY <1>2, DivFacts
<1>5. ASSUME NEW g \in 0 .. (Start(q)' \div R) - 1
      PROVE  pooled[q][g] = TrueGroup(committed'[q], g)
  <2>1. g \in Nat /\ g < Start(q)' \div R
    BY <1>4
  <2>2. (g + 1) * R <= Start(q)' /\ (g + 1) * R <= End(q) /\ (g + 1) * R \in Nat
    BY <1>2, <2>1, CompleteGroup
  <2>3. CASE g < Start(q) \div R
    <3>1. (g + 1) * R <= Start(q)
      BY <1>2, <2>1, <2>3, CompleteGroup
    <3>2. ASSUME NEW p \in 0 .. Start(q) - 1
          PROVE  committed[q][p + 1] = committed'[q][p + 1]
      <4>1. p \in 0 .. Start(q) + kept[q] - 1
        BY <1>2
      <4>2. committed'[q][p + 1] = Context(q)[p + 1]
        BY <4>1, AcceptKeys
      <4> QED BY <4>2, ContextKeys
    <3>3. TrueGroup(committed[q], g) = TrueGroup(committed'[q], g)
      BY <1>2, <2>1, <3>1, <3>2, SameKeysSamePool
    <3> QED BY <1>4, <2>1, <2>3, <3>3 DEF PoolInv, PoolOK
  <2>4. CASE g >= Start(q) \div R
    <3>1. g < End(q) \div R
      BY <1>2, <2>1, <2>2, CompleteGroup
    <3>2. pooled[q][g] = TrueGroup(Context(q), g)
      BY <1>1, <1>4, <2>1, <2>4, <3>1 DEF PoolInv, PoolOK
    <3> DEFINE n == Start(q) + kept[q]
    <3>3. ASSUME NEW p \in 0 .. n - 1
          PROVE  Context(q)[p + 1] = committed'[q][p + 1]
      <4>1. p \in 0 .. Start(q) + kept[q] - 1
        BY <1>2 DEF n
      <4>2. committed'[q][p + 1] = Context(q)[p + 1]
        BY <4>1, AcceptKeys
      <4> QED BY <4>2
    <3>4. n \in Nat /\ (g + 1) * R <= n
      BY <1>2, <2>2
    <3> HIDE DEF n
    <3>5. TrueGroup(Context(q), g) = TrueGroup(committed'[q], g)
      BY <2>1, <3>3, <3>4, SameKeysSamePool
    <3> QED BY <3>2, <3>5
  <2> QED BY <1>4, <2>1, <2>3, <2>4
<1> QED BY <1>1, <1>3, <1>4, <1>5 DEF PoolOK, TrueGroup

\* A released request has no groups.
LEMMA ReleasePool ==
  ASSUME TypeOK, PoolInv, NEW r \in Req, Release(r)
  PROVE  PoolInv'
<1> SUFFICES ASSUME NEW q \in Req PROVE PoolOK(q)' BY DEF PoolInv
<1>1. CASE q = r
  BY <1>1, EmptyPool DEF Release, Idle, TypeOK
<1>2. CASE q # r
  BY <1>2, PoolFrame DEF Release, PoolInv, TypeOK
<1> QED BY <1>1, <1>2

-----------------------------------------------------------------------------
(* The theorems. *)

\* Initially there is nothing to hold and nothing to pool.
LEMMA InitIInv == Init => IInv
<1> SUFFICES ASSUME Init PROVE IInv OBVIOUS
<1>1. TypeOK
  BY ConstantsAssumption DEF Init, TypeOK, Row, Pool
<1>2. Ownership
  BY ConstantsAssumption DEF Init, Ownership, Start, End
<1>3. RingInv
  BY DEF Init, RingInv, RingOK
<1>4. PoolInv
  <2>1. \A r \in Req : Start(r) = 0 /\ End(r) = 0
    BY DEF Init, Start, End
  <2>2. 0 \div R = 0
    BY DivFacts, CompleteGroup, ConstantsAssumption
  <2> QED BY <2>1, <2>2 DEF PoolInv, PoolOK
<1> QED BY <1>1, <1>2, <1>3, <1>4 DEF IInv

\* Every step of the specification preserves the invariant.
LEMMA NextIInv == IInv /\ [Next]_vars => IInv'
<1> SUFFICES ASSUME IInv, [Next]_vars PROVE IInv' OBVIOUS
<1> USE DEF IInv
<1>1. ASSUME NEW r \in Req, NEW b \in Block, Admit(r, b) PROVE IInv'
  <2>1. PoolInv'
    BY <1>1, PoolFrame DEF Admit, PoolInv
  <2> QED BY <1>1, <2>1, AdmitTypes, AdmitRing
<1>2. ASSUME NEW chunk \in [Req -> Chunks], Schedule(chunk) PROVE IInv'
  BY <1>2, ScheduleTypes, ScheduleRing, SchedulePool
<1>3. ASSUME NEW r \in Req, NEW i \in todo[r], RunItem(r, i) PROVE IInv'
  BY <1>3, RunItemTypes, RunItemRing, RunItemPool
<1>4. ASSUME NEW kept \in [Req -> 0 .. MaxChunk], Accept(kept) PROVE IInv'
  BY <1>4, AcceptTypes, AcceptRing, AcceptPool
<1>5. ASSUME NEW r \in Req, Release(r) PROVE IInv'
  BY <1>5, ReleaseTypes, ReleaseRing, ReleasePool
<1>6. CASE UNCHANGED vars
  <2>1. TypeOK' /\ Ownership'
    BY <1>6 DEF vars, TypeOK, Ownership, Start, End
  <2>2. RingInv'
    BY <1>6, RingFrame DEF vars, RingInv
  <2>3. PoolInv'
    BY <1>6, PoolFrame DEF vars, PoolInv
  <2> QED BY <2>1, <2>2, <2>3
<1> QED BY <1>1, <1>2, <1>3, <1>4, <1>5, <1>6 DEF Next

\* Spec keeps the inductive invariant.
THEOREM Invariance == Spec => []IInv
  BY InitIInv, NextIInv, PTL DEF Spec

\* The variables keep their types: no work item reads outside a ring or a chunk.
THEOREM TypeCorrect == Spec => []TypeOK
<1>1. IInv => TypeOK BY DEF IInv
<1> QED BY <1>1, Invariance, PTL

(***************************************************************************)
(* Whatever suffix of the drafts is rejected, the ring still holds every   *)
(* committed key of the open group (qsa_cache.py:830-834), for every ring  *)
(* of at least R and R + K - 1 rows.                                       *)
(***************************************************************************)
THEOREM RingSafety == Spec => []RingKeepsOpenGroup
<1>1. ASSUME NEW len \in Nat PROVE OpenPositions(len) \subseteq Window(len)
  <2>1. /\ len \div R \in Nat /\ R \in Nat \ {0} /\ (len \div R) * R \in Nat
        /\ len < (len \div R) * R + R
    BY GroupsOf, GroupArith, CompleteGroup
  <2> QED BY <2>1 DEF OpenPositions, Window
<1>2. IInv => RingKeepsOpenGroup
  <2> SUFFICES ASSUME IInv, NEW r \in Req, block[r] # NoBlock
               PROVE  IF Commits(r)
                      THEN \A kept \in Acceptable(r) :
                             RingHolds(r, Context(r), Start(r) + kept)
                      ELSE RingHolds(r, committed[r], Start(r))
    BY DEF RingKeepsOpenGroup
  <2>1. Start(r) \in Nat /\ \A kept \in Acceptable(r) : Start(r) + kept \in Nat
    BY PositionTypes DEF IInv, Acceptable
  <2> QED BY <1>1, <2>1 DEF IInv, RingInv, RingOK, WindowHeld, RingHolds
<1> QED BY <1>2, Invariance, PTL

\* When no item is left, every complete group of the context is pooled.
LEMMA FinishedGroups ==
  ASSUME IInv, NEW r \in Req, todo[r] = {}, NEW g \in Nat, g < End(r) \div R
  PROVE  pooled[r][g] = TrueGroup(Context(r), g)
<1>1. TypeOK /\ PoolOK(r) /\ Start(r) \in Nat /\ End(r) \in Nat
  BY PositionTypes DEF IInv, PoolInv
<1>2. Start(r) \div R \in Nat /\ End(r) \div R \in Nat
  BY <1>1, GroupsOf
<1>3. CASE g < Start(r) \div R
  <2>1. pooled[r][g] = TrueGroup(committed[r], g)
    BY <1>1, <1>2, <1>3 DEF PoolOK
  <2>2. (g + 1) * R <= Start(r)
    BY <1>1, <1>3, CompleteGroup, GroupArith
  <2>3. \A k \in 0 .. Start(r) - 1 : committed[r][k + 1] = Context(r)[k + 1]
    BY <1>1, ContextKeys
  <2>4. TrueGroup(committed[r], g) = TrueGroup(Context(r), g)
    BY <1>1, <2>2, <2>3, SameKeysSamePool
  <2> QED BY <2>1, <2>4
<1>4. CASE g >= Start(r) \div R
  BY <1>1, <1>2, <1>4 DEF PoolOK
<1> QED BY <1>2, <1>3, <1>4

(***************************************************************************)
(* When a step's work is done, the groups visible to its queries hold      *)
(* exactly the pools of the request's own, complete groups.                *)
(***************************************************************************)
THEOREM QuerySafety == Spec => []QueriesSeeTrueGroups
<1>1. IInv => QueriesSeeTrueGroups
  <2> SUFFICES ASSUME IInv, NEW r \in Req, todo[r] = {},
                      NEW p \in Start(r) .. End(r) - 1,
                      NEW g \in 0 .. VisibleBlocks(r, p) - 1
               PROVE  (g + 1) * R <= p + 1 /\ pooled[r][g] = TrueGroup(Context(r), g)
    BY DEF QueriesSeeTrueGroups
  <2>1. /\ TypeOK
        /\ Start(r) \in Nat /\ End(r) \in Nat /\ p \in Nat /\ p + 1 \in Nat
    BY PositionTypes DEF IInv
  <2>2. (p + 1) \div R \in Nat /\ End(r) \div R \in Nat
    BY <2>1, GroupsOf
  <2>3. g \in Nat /\ g < (p + 1) \div R /\ g < End(r) \div R
    BY <2>2 DEF VisibleBlocks
  <2>4. (g + 1) * R <= p + 1
    BY <2>1, <2>3, CompleteGroup, GroupArith
  <2> QED BY <2>3, <2>4, FinishedGroups
<1> QED BY <1>1, Invariance, PTL

(***************************************************************************)
(* A step pools only groups its own rows complete: the compressed row of a *)
(* group whose tokens are committed is final.                              *)
(***************************************************************************)
THEOREM GroupsAreFinal == Spec => CommittedGroupsAreFinal
<1>1. IInv /\ [Next]_vars =>
        \A r \in Req : \A g \in Group :
          (g + 1) * R <= Start(r) /\ block'[r] = block[r] =>
            pooled'[r][g] = pooled[r][g]
  <2> SUFFICES ASSUME IInv, [Next]_vars, NEW r \in Req, NEW g \in Group,
                      (g + 1) * R <= Start(r), block'[r] = block[r]
               PROVE  pooled'[r][g] = pooled[r][g]
    OBVIOUS
  <2>1. TypeOK /\ Start(r) \in Nat
    BY PositionTypes DEF IInv
  <2>2. ASSUME NEW q \in Req, NEW i \in todo[q], RunItem(q, i)
        PROVE  pooled'[r][g] = pooled[r][g]
    <3>1. g \in Nat /\ i \in Nat /\ Start(r) \div R \in Nat
      BY <2>1, GroupsOf DEF Group, TypeOK
    <3>2. g < Start(r) \div R
      BY <2>1, <3>1, CompleteGroup, GroupArith
    <3>3. q = r => Start(q) \div R + i # g
      BY <3>1, <3>2
    <3> QED BY <2>1, <2>2, <3>3 DEF RunItem, PoolItem, TypeOK
  <2>3. ASSUME NEW q \in Req, Release(q)
        PROVE  pooled'[r][g] = pooled[r][g]
    BY <2>1, <2>3 DEF Release, TypeOK
  <2>4. CASE UNCHANGED pooled
    BY <2>4
  <2> QED BY <2>2, <2>3, <2>4 DEF Next, Admit, Schedule, Accept, vars
<1> QED BY <1>1, Invariance, PTL DEF Spec, CommittedGroupsAreFinal

-----------------------------------------------------------------------------
(* The refinement. *)

views == [r \in Req |-> View(r)]

\* The last query of a chunk sees every complete group of the context.
LEMMA LastQuerySeesAll ==
  ASSUME TypeOK, NEW r \in Req, rows[r] # <<>>
  PROVE  VisibleBlocks(r, End(r) - 1) = End(r) \div R
<1>1. End(r) \in Nat /\ (End(r) - 1) + 1 = End(r)
  BY PositionTypes
<1> QED BY <1>1 DEF VisibleBlocks

\* What the queries of a finished step are shown is what they were promised.
LEMMA FinishedView ==
  ASSUME IInv, NEW r \in Req, todo[r] = {}
  PROVE  View(r) = Promise!TrueView(r)
<1>1. CASE rows[r] = <<>>
  BY <1>1 DEF View, Promise!TrueView
<1>2. CASE rows[r] # <<>>
  <2>1. TypeOK /\ End(r) \in Nat /\ End(r) \div R \in Nat
    BY PositionTypes, GroupsOf DEF IInv
  <2>2. Promise!Context(r) = Context(r) /\ Len(Context(r)) = End(r)
    BY <2>1, ContextKeys DEF Context, Promise!Context
  <2>3. \A g \in 0 .. (End(r) \div R) - 1 :
          pooled[r][g] = Promise!TrueGroup(Context(r), g)
    BY <2>1, FinishedGroups DEF TrueGroup, Promise!TrueGroup
  <2>4. View(r) = {<<g, pooled[r][g]>> : g \in 0 .. (End(r) \div R) - 1}
    BY <1>2, <2>1, LastQuerySeesAll DEF View
  <2>5. Promise!TrueView(r) =
          {<<g, Promise!TrueGroup(Context(r), g)>> : g \in 0 .. (End(r) \div R) - 1}
    BY <1>2, <2>2 DEF Promise!TrueView
  <2> QED BY <2>3, <2>4, <2>5
<1> QED BY <1>1, <1>2

\* The same as an invariant.
ViewsAreTrue == \A r \in Req : todo[r] = {} => View(r) = Promise!TrueView(r)

\* So every view of a finished step is the true one.
LEMMA FinishedViews == IInv => ViewsAreTrue
  BY FinishedView DEF ViewsAreTrue

\* Nothing is shown initially.
LEMMA InitPromise == Init => Promise!Init
  BY DEF Init, View, Promise!Init

\* A step that leaves alone what one request's queries are shown.
LEMMA SameView ==
  ASSUME NEW r \in Req, rows'[r] = rows[r], committed'[r] = committed[r],
         todo'[r] = todo[r], pooled'[r] = pooled[r]
  PROVE  View(r)' = View(r)
  BY DEF View, VisibleBlocks, Start, End

\* Nothing is shown between steps, and nothing while items are left.
LEMMA NoRowsNoView ==
  ASSUME NEW r \in Req, rows[r] = <<>>
  PROVE  View(r) = {}
  BY DEF View

\* A request whose items are not all run has no view.
LEMMA ItemsLeftNoView ==
  ASSUME NEW r \in Req, todo[r] # {}
  PROVE  View(r) = {}
  BY DEF View

\* Every scheduled request has an item to run.
LEMMA ItemsToRun ==
  ASSUME NEW start \in Nat, NEW n \in Nat, n # 0
  PROVE  0 \in WorkItems(start, n)
<1>1. NumGroups(start, n) \in Int
  BY GroupsOf DEF NumGroups
<1> QED BY <1>1 DEF WorkItems

-----------------------------------------------------------------------------
(* Every step of the ring is one of the promise, or does not show. *)

\* Schedule begins a chunk of the promise; nothing is shown yet.
LEMMA ScheduleRefines ==
  ASSUME IInv, NEW chunk \in [Req -> Chunks], Schedule(chunk)
  PROVE  Promise!Schedule /\ views' = views
<1>1. TypeOK /\ TypeOK'
  BY ScheduleTypes DEF IInv
<1>2. \A r \in Req : View(r) = {}
  BY NoRowsNoView DEF Schedule, Idle
<1>3. \A r \in Req : View(r)' = {}
  <2> TAKE r \in Req
  <2>1. CASE chunk[r] = <<>>
    BY <2>1 DEF Schedule, View
  <2>2. CASE chunk[r] # <<>>
    <3>1. Start(r) \in Nat /\ chunk[r] \in Seq(Key) /\ Len(chunk[r]) \in Nat \ {0}
      BY <1>1, <2>2, PositionTypes DEF Schedule, TypeOK
    <3>2. todo'[r] # {}
      BY <3>1, ItemsToRun DEF Schedule
    <3> QED BY <3>2 DEF View
  <2> QED BY <2>1, <2>2
<1>4. \A r \in Req : Len(committed[r]) + Len(chunk[r]) <= MaxLen
  <2> TAKE r \in Req
  <2>1. CASE chunk[r] = <<>>
    <3>1. Len(chunk[r]) = 0 /\ Start(r) \in Nat /\ Start(r) <= End(r)
          /\ End(r) <= MaxLen /\ End(r) \in Nat /\ MaxLen \in Nat
      BY <1>1, <2>1, PositionTypes, ConstantsAssumption DEF IInv, Ownership
    <3> QED BY <3>1 DEF Start
  <2>2. CASE chunk[r] # <<>>
    BY <2>2 DEF Schedule, Start
  <2> QED BY <2>1, <2>2
<1>5. Promise!Schedule
  BY <1>2, <1>3, <1>4 DEF Schedule, Chunks, Idle, Promise!Schedule, Promise!Idle
<1> QED BY <1>2, <1>3, <1>5 DEF views

\* A work item shows a request's queries if it is the last, else nothing.
LEMMA RunItemRefines ==
  ASSUME IInv, ViewsAreTrue', NEW r \in Req, NEW i \in todo[r], RunItem(r, i)
  PROVE  Promise!Attend(r) \/ UNCHANGED Promise!vars
<1>1. UNCHANGED <<committed, rows>>
  BY DEF RunItem
<1>2. \A q \in Req \ {r} : View(q)' = View(q)
  <2> TAKE q \in Req \ {r}
  <2>1. todo'[q] = todo[q] /\ pooled'[q] = pooled[q]
    BY DEF RunItem, PoolItem, IInv, TypeOK
  <2> QED BY <1>1, <2>1, SameView
<1>3. View(r) = {}
  BY ItemsLeftNoView
<1>4. CASE todo'[r] # {}
  <2>1. View(r)' = {}
    BY <1>4 DEF View
  <2>2. \A q \in Req : View(q)' = View(q)
    BY <1>2, <1>3, <2>1
  <2> QED BY <1>1, <2>2 DEF Promise!vars
<1>5. CASE todo'[r] = {}
  <2>1. rows[r] # <<>>
    BY DEF IInv, Ownership
  <2>2. View(r)' = Promise!TrueView(r)'
    BY <1>5 DEF ViewsAreTrue
  <2>3. Promise!TrueView(r)' = Promise!TrueView(r)
    BY <1>1 DEF Promise!TrueView, Promise!Context
  <2>4. [q \in Req |-> View(q)]' =
          [[q \in Req |-> View(q)] EXCEPT ![r] = Promise!TrueView(r)]
    BY <1>2, <2>2, <2>3
  <2> QED BY <1>1, <2>1, <2>4 DEF Promise!Attend
<1> QED BY <1>4, <1>5

\* Accepting a prefix of the rows is the same step of the promise.
LEMMA AcceptRefines ==
  ASSUME IInv, NEW kept \in [Req -> 0 .. MaxChunk], Accept(kept)
  PROVE  Promise!Accept
<1>1. \A r \in Req : View(r) = Promise!TrueView(r)
  BY FinishedView DEF Accept
<1>2. \A r \in Req : View(r)' = {}
  BY DEF Accept, View
<1>3. \A r \in Req : /\ kept[r] <= Len(rows[r])
                     /\ rows[r] # <<>> => kept[r] > 0
                     /\ kept[r] < Len(rows[r]) => Len(rows[r]) <= K + 1
  <2> TAKE r \in Req
  <2>1. kept[r] \in Acceptable(r) /\ Len(rows[r]) \in Nat
        /\ (rows[r] # <<>> => Len(rows[r]) > 0)
    BY PositionTypes DEF Accept, IInv
  <2> QED BY <2>1 DEF Acceptable
<1> QED BY <1>1, <1>2, <1>3 DEF Accept, Idle, Promise!Accept, Promise!Idle

\* So is giving up a request.
LEMMA ReleaseRefines ==
  ASSUME IInv, NEW r \in Req, Release(r)
  PROVE  Promise!Forget(r)
<1>1. \A q \in Req : View(q) = {} /\ View(q)' = {}
  BY DEF Release, Idle, View
<1> QED BY <1>1 DEF Release, Idle, Promise!Forget, Promise!Idle

\* A block given to a request does not change what is promised.
LEMMA AdmitRefines ==
  ASSUME NEW r \in Req, NEW b \in Block, Admit(r, b)
  PROVE  UNCHANGED Promise!vars
<1>1. \A q \in Req : View(q)' = View(q)
  BY SameView DEF Admit
<1> QED BY <1>1 DEF Admit, Promise!vars

\* All steps together.
LEMMA NextRefines ==
  IInv /\ ViewsAreTrue' /\ [Next]_vars => [Promise!Next]_(Promise!vars)
<1> SUFFICES ASSUME IInv, ViewsAreTrue', [Next]_vars
             PROVE  Promise!Next \/ UNCHANGED Promise!vars
  OBVIOUS
<1>1. ASSUME NEW r \in Req, NEW b \in Block, Admit(r, b)
      PROVE  UNCHANGED Promise!vars
  BY <1>1, AdmitRefines
<1>2. ASSUME NEW chunk \in [Req -> Chunks], Schedule(chunk) PROVE Promise!Next
  BY <1>2, ScheduleRefines DEF Promise!Next
<1>3. ASSUME NEW r \in Req, NEW i \in todo[r], RunItem(r, i)
      PROVE  Promise!Next \/ UNCHANGED Promise!vars
  BY <1>3, RunItemRefines DEF Promise!Next
<1>4. ASSUME NEW kept \in [Req -> 0 .. MaxChunk], Accept(kept) PROVE Promise!Next
  BY <1>4, AcceptRefines DEF Promise!Next
<1>5. ASSUME NEW r \in Req, Release(r) PROVE Promise!Next
  BY <1>5, ReleaseRefines DEF Promise!Next
<1>6. CASE UNCHANGED vars
  <2>1. \A q \in Req : View(q)' = View(q)
    BY <1>6, SameView DEF vars
  <2> QED BY <1>6, <2>1 DEF vars, Promise!vars
<1> QED BY <1>1, <1>2, <1>3, <1>4, <1>5, <1>6 DEF Next

(***************************************************************************)
(* Ring, block reuse, rejected drafts and the order of the work items do   *)
(* not show: a query is shown what a cache that keeps the whole context    *)
(* and pools it afresh would show it.                                      *)
(***************************************************************************)
THEOREM Refinement == Spec => ImplementsContext
<1>1. Spec => Promise!Spec
  BY InitPromise, NextRefines, FinishedViews, Invariance, PTL DEF Spec, Promise!Spec
<1> QED BY <1>1 DEF ImplementsContext
===============================================================================
