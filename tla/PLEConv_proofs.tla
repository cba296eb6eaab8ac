---------------------------- MODULE PLEConv_proofs ----------------------------
(***************************************************************************)
(* Rows of the short convolution see the history of their own request, and *)
(* the state slot holds it, for every number of taps, dilation and drafts. *)
(***************************************************************************)
EXTENDS PLEConv, SequenceTheorems, TLAPS

\* The inputs of a request with those of the step that is being computed.
Seen(r) == committed[r] \o rows[r]

\* A step has been scheduled and has not stored its inputs yet, or there is none.
Fresh(r) == rows[r] = <<>> \/ r \in pending

Taken == [1 .. Taps -> Value]

Types ==
  /\ committed \in [Owner -> Seq(Key)]
  /\ rows \in [Owner -> Seq(Key)]
  /\ running \in BOOLEAN
  /\ mode \in [Owner -> Mode]
  /\ accepted \in [Owner -> 1 .. MaxChunk]
  /\ slot \in [Owner -> Slot \union {NullSlot}]
  /\ state \in [Slot \union {NullSlot} -> [Window -> Value]]
  /\ taps \in [Owner -> Seq(Taken \union {NotRun})]
  /\ pending \subseteq Owner

\* A slot has one owner, none of them a padding row.
Slots ==
  /\ \A p \in Pad : slot[p] = NullSlot
  /\ \A r \in Req : slot[r] = NullSlot => committed[r] = <<>> /\ rows[r] = <<>>
  /\ \A r, q \in Req : slot[r] = slot[q] /\ slot[r] # NullSlot => r = q

\* What the routing of a step lets its launch rely on.
Routes ==
  /\ \A r \in pending : rows[r] # <<>>
  /\ ~running => \A r \in Owner : rows[r] # <<>> => r \in pending
  /\ \A r \in Owner :
       /\ Len(taps[r]) = Len(rows[r])
       /\ Len(rows[r]) <= MaxChunk
       /\ rows[r] # <<>> /\ mode[r] = "decode" => Len(rows[r]) = 1
       /\ rows[r] # <<>> /\ mode[r] = "spec" => Len(rows[r]) <= Drafts + 1
  /\ \A r \in Req :
       /\ accepted[r] <= Drafts + 1
       /\ mode[r] # "spec" => accepted[r] = 1
       /\ rows[r] # <<>> /\ mode[r] = "spec" => committed[r] # <<>>

\* What the next launch reads.
Kept ==
  \A r \in Req : HasSlot(r) /\ committed[r] # <<>> /\ Fresh(r) =>
    \A w \in 0 .. StateLen - 1 :
      state[slot[r]][accepted[r] - 1 + w] =
        History(committed[r], Len(committed[r]) - StateLen + w)

\* What a launch has stored: a speculative step the history behind every draft.
First(r) == IF mode[r] = "spec" THEN 1 ELSE Len(rows[r])
Last(r) == IF mode[r] = "spec" THEN StateLen + Len(rows[r]) - 1 ELSE StateLen

Stored ==
  \A r \in Req : ~Fresh(r) =>
    \A w \in 0 .. Last(r) - 1 :
      state[slot[r]][w] = History(Seen(r), Len(committed[r]) - StateLen + First(r) + w)

\* A row that is stored has been computed.
Computed ==
  \A r \in Req : ~Fresh(r) /\ mode[r] # "decode" =>
    \A j \in DOMAIN taps[r] : taps[r][j] # NotRun

ConvInv == Types /\ Slots /\ Routes /\ Kept /\ Stored /\ Computed /\ RowsSeeTheirHistory

-----------------------------------------------------------------------------
(* The state's geometry, and histories. *)

\* The state covers the taps of a row but its own.
LEMMA Geometry ==
  /\ StateLen \in Nat /\ Drafts \in Nat /\ Window = 0 .. StateLen + Drafts - 1
  /\ Taps \in Nat \ {0} /\ Dilation \in Nat \ {0} /\ MaxChunk \in Nat \ {0}
  /\ \A k \in 1 .. Taps : /\ Dilation * (k - 1) \in 0 .. StateLen
                          /\ StateLen - Dilation * (k - 1) = Dilation * (Taps - k)
<1>1. Taps \in Nat \ {0} /\ Dilation \in Nat \ {0} /\ Drafts \in Nat /\ MaxChunk \in Nat \ {0}
  BY ConvAssumption
<1>2. ASSUME NEW k \in 1 .. Taps
      PROVE  /\ Dilation * (k - 1) \in Nat /\ Dilation * (Taps - k) \in Nat
             /\ StateLen = Dilation * (k - 1) + Dilation * (Taps - k)
  <2>1. k - 1 \in Nat /\ Taps - k \in Nat /\ Taps - 1 = (k - 1) + (Taps - k) BY <1>1
  <2>2. StateLen = Dilation * ((k - 1) + (Taps - k)) BY <1>1, <2>1 DEF StateLen
  <2> QED BY <1>1, <2>1, <2>2
<1>3. StateLen \in Nat BY <1>1 DEF StateLen
<1> QED BY <1>1, <1>2, <1>3 DEF Window, Width

\* Later rows change nothing of what came before them.
LEMMA HistoryOfConcat ==
  ASSUME NEW c \in Seq(Key), NEW s \in Seq(Key), NEW p \in Int, p < Len(c)
  PROVE  History(c \o s, p) = History(c, p)
<1>1. CASE p < 0 BY <1>1 DEF History
<1>2. CASE p >= 0
  <2>1. p + 1 \in 1 .. Len(c) + Len(s) /\ p + 1 <= Len(c)
    BY <1>2, LenProperties
  <2>2. (c \o s)[p + 1] = c[p + 1] BY <2>1, ConcatProperties
  <2> QED BY <1>2, <2>2 DEF History
<1> QED BY <1>1, <1>2

\* The rows of a step follow what is committed.
LEMMA HistoryOfRows ==
  ASSUME NEW c \in Seq(Key), NEW s \in Seq(Key), NEW i \in 0 .. Len(s) - 1
  PROVE  History(c \o s, Len(c) + i) = s[i + 1]
<1>1. Len(c) \in Nat /\ Len(s) \in Nat BY LenProperties
<1>2. Len(c) + i + 1 \in 1 .. Len(c) + Len(s) /\ ~(Len(c) + i + 1 <= Len(c)) BY <1>1
<1>3. (c \o s)[Len(c) + i + 1] = s[Len(c) + i + 1 - Len(c)] BY <1>2, ConcatProperties
<1>4. Len(c) + i + 1 - Len(c) = i + 1 /\ ~(Len(c) + i < 0) BY <1>1
<1> QED BY <1>3, <1>4 DEF History

\* A step of which k rows are accepted leaves the history up to the last of them.
LEMMA HistoryOfAccepted ==
  ASSUME NEW c \in Seq(Key), NEW s \in Seq(Key), NEW k \in 0 .. Len(s),
         NEW p \in Int, p < Len(c) + k
  PROVE  /\ c \o SubSeq(s, 1, k) \in Seq(Key)
         /\ Len(c \o SubSeq(s, 1, k)) = Len(c) + k
         /\ History(c \o SubSeq(s, 1, k), p) = History(c \o s, p)
<1> DEFINE t == SubSeq(s, 1, k)
<1>1. Len(c) \in Nat /\ Len(s) \in Nat BY LenProperties
<1>2. \A i \in 1 .. k : s[i] \in Key BY <1>1, ElementOfSeq
<1>3. /\ t \in Seq(Key) /\ Len(t) = k
      /\ \A i \in 1 .. k : t[i] = s[i]
  <2>1. 1 \in Int /\ k \in Int /\ k - 1 + 1 = k BY <1>1
  <2>2. /\ t \in Seq(Key) /\ Len(t) = (IF 1 <= k THEN k - 1 + 1 ELSE 0)
        /\ \A i \in 1 .. k - 1 + 1 : t[i] = s[1 + i - 1]
    BY <1>2, <2>1, SubSeqProperties
  <2> HIDE DEF t
  <2>3. Len(t) = k BY <1>1, <2>2
  <2>4. \A i \in 1 .. k : i \in 1 .. k - 1 + 1 /\ 1 + i - 1 = i BY <1>1
  <2> QED BY <2>2, <2>3, <2>4
<1> HIDE DEF t
<1>4. c \o t \in Seq(Key) /\ Len(c \o t) = Len(c) + k BY <1>3, ConcatProperties
<1>5. History(c \o t, p) = History(c \o s, p)
  <2>1. CASE p < 0 BY <2>1 DEF History
  <2>2. CASE p >= 0
    <3>1. p + 1 \in 1 .. Len(c) + k /\ p + 1 \in 1 .. Len(c) + Len(s) BY <1>1, <2>2
    <3>2. p + 1 > Len(c) => p + 1 - Len(c) \in 1 .. k BY <1>1, <3>1
    <3>3. (c \o t)[p + 1] = IF p + 1 <= Len(c) THEN c[p + 1] ELSE t[p + 1 - Len(c)]
      BY <1>3, <3>1, ConcatProperties
    <3>4. (c \o s)[p + 1] = IF p + 1 <= Len(c) THEN c[p + 1] ELSE s[p + 1 - Len(c)]
      BY <3>1, ConcatProperties
    <3>5. (c \o t)[p + 1] = (c \o s)[p + 1]
      BY <1>1, <1>3, <3>1, <3>2, <3>3, <3>4
    <3> QED BY <2>2, <3>5 DEF History
  <2> QED BY <2>1, <2>2
<1> QED BY <1>4, <1>5 DEF t

-----------------------------------------------------------------------------
(* The launches. *)

\* The offset stays inside the slot.
LEMMA OffsetFacts ==
  ASSUME Types, NEW r \in Owner
  PROVE  Offset(r) \in 0 .. Drafts
<1>1. accepted[r] \in Nat \ {0} BY Geometry DEF Types
<1> QED BY <1>1, Geometry DEF Offset, Least, Most

\* A program reads values.
LEMMA SourceIsValue ==
  ASSUME Types, NEW r \in Owner, NEW i \in 0 .. StateLen + Len(rows[r]) - 1
  PROVE  Source(r, i) \in Value
<1>1. rows[r] \in Seq(Key) /\ Len(rows[r]) \in Nat /\ slot[r] \in Slot \union {NullSlot}
  BY LenProperties DEF Types
<1>2. CASE i < StateLen
  <2>1. i + Offset(r) \in Window BY <1>1, <1>2, Geometry, OffsetFacts
  <2>2. state[slot[r]][i + Offset(r)] \in Value BY <1>1, <2>1 DEF Types
  <2> QED BY <1>2, <2>2 DEF Source, Value
<1>3. CASE ~(i < StateLen)
  <2>1. i - StateLen + 1 \in 1 .. Len(rows[r]) BY <1>1, <1>3, Geometry
  <2>2. rows[r][i - StateLen + 1] \in Key BY <1>1, <2>1, ElementOfSeq
  <2> QED BY <1>3, <2>2 DEF Source, Value
<1> QED BY <1>2, <1>3

\* A row's taps are values of the state or of the step.
LEMMA TapRange ==
  ASSUME Types, NEW r \in Owner, NEW j \in 1 .. Len(rows[r]), NEW k \in 1 .. Taps
  PROVE  j - 1 + Dilation * (k - 1) \in 0 .. StateLen + Len(rows[r]) - 1
<1>1. Len(rows[r]) \in Nat BY LenProperties DEF Types
<1>2. Dilation * (k - 1) \in 0 .. StateLen /\ StateLen \in Nat BY Geometry
<1> QED BY <1>1, <1>2

\* What a row reads is one value per tap.
LEMMA RowTapsType ==
  ASSUME Types, NEW r \in Owner, NEW j \in 1 .. Len(rows[r])
  PROVE  RowTaps(r, j) \in Taken
<1>1. ASSUME NEW k \in 1 .. Taps PROVE Source(r, j - 1 + Dilation * (k - 1)) \in Value
  BY TapRange, SourceIsValue
<1> QED BY <1>1 DEF RowTaps, Taken

\* What a request's programs read before its inputs are stored is its history.
LEMMA SourceIsHistory ==
  ASSUME ConvInv, NEW r \in Req, r \in pending,
         NEW i \in 0 .. StateLen + Len(rows[r]) - 1
  PROVE  Source(r, i) = History(Seen(r), Len(committed[r]) - StateLen + i)
<1>1. /\ r \in Owner /\ rows[r] # <<>> /\ slot[r] # NullSlot
      /\ committed[r] \in Seq(Key) /\ rows[r] \in Seq(Key)
      /\ accepted[r] \in Nat \ {0} /\ accepted[r] <= Drafts + 1
      /\ mode[r] # "spec" => accepted[r] = 1
      /\ mode[r] = "spec" => committed[r] # <<>>
  BY Geometry DEF ConvInv, Types, Slots, Routes, Owner
<1>2. Len(committed[r]) \in Nat /\ Len(rows[r]) \in Nat BY <1>1, LenProperties
<1>3. Offset(r) = accepted[r] - 1
  BY <1>1, Geometry DEF Offset, Least, Most
<1>4. CASE i < StateLen
  <2>1. /\ i \in 0 .. StateLen - 1 /\ Len(committed[r]) - StateLen + i \in Int
        /\ Len(committed[r]) - StateLen + i < Len(committed[r])
    BY <1>2, <1>4, Geometry
  <2>2. History(Seen(r), Len(committed[r]) - StateLen + i)
          = History(committed[r], Len(committed[r]) - StateLen + i)
    BY <1>1, <2>1, HistoryOfConcat DEF Seen
  <2>3. CASE committed[r] = <<>>
    <3>1. ~ReadsState(r) BY <1>1, <2>3 DEF ReadsState, HasInitial
    <3>2. Source(r, i) = Zero BY <1>4, <3>1 DEF Source
    <3>3. Len(committed[r]) = 0 BY <2>3
    <3>4. Len(committed[r]) - StateLen + i < 0 BY <1>4, <3>3, Geometry
    <3> QED BY <2>2, <3>2, <3>4 DEF History
  <2>4. CASE committed[r] # <<>>
    <3>1. ReadsState(r) BY <1>1, <2>4 DEF ReadsState, HasInitial, HasSlot
    <3>2. Source(r, i) = state[slot[r]][i + (accepted[r] - 1)]
      BY <1>3, <1>4, <3>1 DEF Source
    <3>3. i + (accepted[r] - 1) = accepted[r] - 1 + i BY <1>1
    <3>4. state[slot[r]][accepted[r] - 1 + i]
            = History(committed[r], Len(committed[r]) - StateLen + i)
      BY <1>1, <2>1, <2>4 DEF ConvInv, Kept, HasSlot, Fresh
    <3> QED BY <2>2, <3>2, <3>3, <3>4
  <2> QED BY <2>3, <2>4
<1>5. CASE ~(i < StateLen)
  <2>1. i - StateLen \in 0 .. Len(rows[r]) - 1 BY <1>2, <1>5, Geometry
  <2>2. History(Seen(r), Len(committed[r]) + (i - StateLen)) = rows[r][i - StateLen + 1]
    BY <1>1, <2>1, HistoryOfRows DEF Seen
  <2>3. Len(committed[r]) - StateLen + i = Len(committed[r]) + (i - StateLen)
    BY <1>2, Geometry
  <2>4. Source(r, i) = rows[r][i - StateLen + 1]
    BY <1>1, <1>5 DEF Source, HasOutput, HasSlot
  <2> QED BY <2>2, <2>3, <2>4
<1> QED BY <1>4, <1>5

\* So a row's taps are the inputs Dilation positions apart, up to its own.
LEMMA RowTapsAreHistory ==
  ASSUME ConvInv, NEW r \in Req, r \in pending,
         NEW j \in 1 .. Len(rows[r]), NEW k \in 1 .. Taps
  PROVE  RowTaps(r, j)[k] = History(Seen(r), Len(committed[r]) + j - 1 - Dilation * (Taps - k))
<1>1. Types /\ r \in Owner BY DEF ConvInv, Owner
<1>2. Len(committed[r]) \in Nat /\ Len(rows[r]) \in Nat BY <1>1, LenProperties DEF Types
<1> DEFINE i == j - 1 + Dilation * (k - 1)
<1>3. i \in 0 .. StateLen + Len(rows[r]) - 1 BY <1>1, TapRange
<1>4. RowTaps(r, j)[k] = Source(r, i) BY DEF RowTaps
<1>5. Source(r, i) = History(Seen(r), Len(committed[r]) - StateLen + i)
  BY <1>3, SourceIsHistory
<1>6. Len(committed[r]) - StateLen + i = Len(committed[r]) + j - 1 - Dilation * (Taps - k)
  <2>1. /\ StateLen - Dilation * (k - 1) = Dilation * (Taps - k) /\ StateLen \in Nat
        /\ Dilation * (k - 1) \in 0 .. StateLen
    BY Geometry
  <2> QED BY <1>2, <2>1
<1> QED BY <1>4, <1>5, <1>6

-----------------------------------------------------------------------------
(* The steps. *)

\* A request's programs store the history behind its next step, in its slot.
LEMMA StoreKeepsInv ==
  ASSUME ConvInv, NEW r \in pending,
         state' = IF HasSlot(r)
                  THEN [state EXCEPT ![slot[r]] =
                          [w \in Window |-> IF w < Last(r) THEN Source(r, First(r) + w) ELSE @[w]]]
                  ELSE state,
         pending' = pending \ {r},
         UNCHANGED <<committed, rows, mode, accepted, slot>>
  PROVE  /\ state' \in [Slot \union {NullSlot} -> [Window -> Value]]
         /\ Kept' /\ Stored'
<1>1. /\ Types /\ r \in Owner /\ rows[r] # <<>> /\ rows[r] \in Seq(Key)
      /\ slot[r] \in Slot \union {NullSlot}
      /\ mode[r] = "spec" => Len(rows[r]) <= Drafts + 1
  BY DEF ConvInv, Types, Routes
<1>2. Len(rows[r]) \in Nat \ {0} BY <1>1, EmptySeq
<1>3. ASSUME NEW w \in Window, w < Last(r)
      PROVE  First(r) + w \in 0 .. StateLen + Len(rows[r]) - 1
  BY <1>2, <1>3, Geometry DEF First, Last
<1>4. \A w \in 0 .. Last(r) - 1 : w \in Window /\ w < Last(r)
  BY <1>1, <1>2, Geometry DEF Last
<1>5. state' \in [Slot \union {NullSlot} -> [Window -> Value]]
  <2>1. \A w \in Window : w < Last(r) => Source(r, First(r) + w) \in Value
    BY <1>1, <1>3, SourceIsValue
  <2>2. state \in [Slot \union {NullSlot} -> [Window -> Value]] BY <1>1 DEF Types
  <2>3. state[slot[r]] \in [Window -> Value] BY <1>1, <2>2
  <2>4. [w \in Window |-> IF w < Last(r) THEN Source(r, First(r) + w) ELSE state[slot[r]][w]]
          \in [Window -> Value]
    BY <2>1, <2>3
  <2> QED BY <1>1, <2>2, <2>4
<1>6. ASSUME NEW q \in Req, q # r \/ slot[q] = NullSlot
      PROVE  HasSlot(q) => state'[slot[q]] = state[slot[q]]
  <2>1. q \in Owner /\ slot[q] \in Slot \union {NullSlot} BY <1>1 DEF Owner, Types
  <2>2. ASSUME HasSlot(q), HasSlot(r) PROVE slot[q] # slot[r]
    <3>1. r \in Req BY <1>1, <2>2 DEF ConvInv, Slots, Owner, HasSlot
    <3> QED BY <1>6, <2>2, <3>1 DEF ConvInv, Slots, HasSlot
  <2> QED BY <1>1, <2>1, <2>2 DEF Types
<1>7. Kept'
  <2> SUFFICES ASSUME NEW q \in Req, HasSlot(q)', committed'[q] # <<>>, Fresh(q)',
                      NEW w \in 0 .. StateLen - 1
               PROVE  state'[slot'[q]][accepted'[q] - 1 + w] =
                        History(committed'[q], Len(committed'[q]) - StateLen + w)
    BY DEF Kept
  <2>1. q # r BY <1>1 DEF Fresh
  <2>2. HasSlot(q) /\ committed[q] # <<>> /\ Fresh(q) BY DEF Fresh, HasSlot
  <2> QED BY <1>6, <2>1, <2>2 DEF ConvInv, Kept
<1>8. Stored'
  <2> SUFFICES ASSUME NEW q \in Req, ~Fresh(q)', NEW w \in 0 .. Last(q)' - 1
               PROVE  state'[slot'[q]][w] =
                        History(Seen(q)', Len(committed'[q]) - StateLen + First(q)' + w)
    BY DEF Stored
  <2>1. /\ Seen(q)' = Seen(q) /\ First(q)' = First(q) /\ Last(q)' = Last(q)
        /\ slot'[q] = slot[q] /\ committed'[q] = committed[q]
    BY DEF Seen, First, Last
  <2>2. HasSlot(q) BY DEF ConvInv, Slots, HasSlot, Fresh
  <2>3. CASE q = r
    <3>1. w \in Window /\ w < Last(r) BY <1>4, <2>1, <2>3
    <3>2. state'[slot[r]][w] = Source(r, First(r) + w)
      BY <1>1, <2>2, <2>3, <3>1 DEF Types
    <3>3. Source(r, First(r) + w) = History(Seen(r), Len(committed[r]) - StateLen + (First(r) + w))
      BY <1>3, <2>3, <3>1, SourceIsHistory
    <3>4. Len(committed[r]) - StateLen + (First(r) + w)
            = Len(committed[r]) - StateLen + First(r) + w
      <4>1. Len(committed[r]) \in Nat /\ First(r) \in Int /\ w \in Int
        BY <1>1, <1>2, <3>1, LenProperties, Geometry DEF Types, First
      <4> QED BY <4>1, Geometry
    <3> QED BY <2>1, <2>3, <3>2, <3>3, <3>4
  <2>4. CASE q # r
    <3>1. ~Fresh(q) BY <2>4 DEF Fresh
    <3> QED BY <1>6, <2>1, <2>2, <2>4, <3>1 DEF ConvInv, Stored
  <2> QED BY <2>3, <2>4
<1> QED BY <1>5, <1>7, <1>8

\* A row computed behind its request's last step.
LEMMA ConvRowInv ==
  ASSUME ConvInv, NEW r \in Owner, NEW j \in DOMAIN taps[r], ConvRow(r, j)
  PROVE  ConvInv'
<1>1. /\ Types /\ taps[r] \in Seq(Taken \union {NotRun}) /\ rows[r] \in Seq(Key)
      /\ Len(taps[r]) = Len(rows[r])
  BY DEF ConvInv, Types, Routes
<1>2. j \in 1 .. Len(taps[r]) /\ j \in 1 .. Len(rows[r]) BY <1>1, LenProperties
<1>3. RowTaps(r, j) \in Taken BY <1>1, <1>2, RowTapsType
<1>4. /\ [taps[r] EXCEPT ![j] = RowTaps(r, j)] \in Seq(Taken \union {NotRun})
      /\ Len([taps[r] EXCEPT ![j] = RowTaps(r, j)]) = Len(taps[r])
      /\ \A i \in 1 .. Len(taps[r]) :
           [taps[r] EXCEPT ![j] = RowTaps(r, j)][i] = IF i = j THEN RowTaps(r, j) ELSE taps[r][i]
  BY <1>1, <1>2, <1>3, ExceptSeq
<1>5. taps' = [taps EXCEPT ![r] = [taps[r] EXCEPT ![j] = RowTaps(r, j)]] BY DEF ConvRow
<1>6. Types' BY <1>4, <1>5 DEF ConvInv, Types, ConvRow
<1>7. /\ Len(taps'[r]) = Len(rows[r]) /\ DOMAIN taps'[r] = 1 .. Len(rows[r])
      /\ \A q \in Owner : q # r => taps'[q] = taps[q]
  <2>1. taps'[r] = [taps[r] EXCEPT ![j] = RowTaps(r, j)] BY <1>5 DEF ConvInv, Types
  <2>2. DOMAIN taps'[r] = 1 .. Len(taps'[r]) BY <1>4, <2>1, LenProperties
  <2> QED BY <1>1, <1>4, <1>5, <2>1, <2>2 DEF Types
<1>8. Routes'
  BY <1>7 DEF ConvInv, Routes, ConvRow
<1>9. Slots' /\ Kept' /\ Stored'
  BY DEF ConvInv, Slots, Kept, Stored, Fresh, HasSlot, Seen, First, Last, ConvRow
<1>10. r \in Req => r \in pending
  <2>1. rows[r] # <<>> BY <1>2
  <2> QED BY <2>1 DEF ConvInv, Computed, Fresh, ConvRow
<1>11. Computed'
  BY <1>7, <1>10 DEF ConvInv, Computed, Fresh, ConvRow, Owner
<1>12. RowsSeeTheirHistory'
  <2> SUFFICES ASSUME NEW q \in Req, NEW i \in DOMAIN taps'[q], taps'[q][i] # NotRun,
                      NEW k \in 1 .. Taps
               PROVE  taps'[q][i][k] = History(committed'[q] \o rows'[q],
                        Len(committed'[q]) + i - 1 - Dilation * (Taps - k))
    BY DEF RowsSeeTheirHistory
  <2>1. committed' = committed /\ rows' = rows BY DEF ConvRow
  <2>2. CASE q = r /\ i = j
    <3>1. taps'[q][i] = RowTaps(r, j) BY <1>1, <1>2, <1>4, <1>5, <2>2 DEF Types
    <3>2. r \in Req /\ r \in pending BY <1>10, <2>2
    <3>3. RowTaps(r, j)[k] = History(Seen(r), Len(committed[r]) + j - 1 - Dilation * (Taps - k))
      BY <1>2, <3>2, RowTapsAreHistory
    <3> QED BY <2>1, <2>2, <3>1, <3>3 DEF Seen
  <2>3. CASE ~(q = r /\ i = j)
    <3>1. i \in DOMAIN taps[q] /\ taps'[q][i] = taps[q][i]
      <4>1. CASE q = r
        <5>1. i \in 1 .. Len(rows[r]) BY <1>7, <4>1
        <5>2. DOMAIN taps[r] = 1 .. Len(rows[r]) BY <1>1, LenProperties
        <5>3. taps'[r] = [taps[r] EXCEPT ![j] = RowTaps(r, j)] BY <1>1, <1>5 DEF Types
        <5> QED BY <1>1, <1>4, <2>3, <4>1, <5>1, <5>2, <5>3
      <4>2. CASE q # r BY <1>7, <4>2 DEF Owner
      <4> QED BY <4>1, <4>2
    <3> QED BY <2>1, <3>1 DEF ConvInv, RowsSeeTheirHistory
  <2> QED BY <2>2, <2>3
<1> QED BY <1>6, <1>8, <1>9, <1>11, <1>12 DEF ConvInv

\* The write back of a prompt chunk or a speculative step.
LEMMA WriteBackInv ==
  ASSUME ConvInv, NEW r \in pending, WriteBack(r)
  PROVE  ConvInv'
<1>1. /\ state' = IF HasSlot(r)
                 THEN [state EXCEPT ![slot[r]] =
                         [w \in Window |-> IF w < Last(r) THEN Source(r, First(r) + w) ELSE @[w]]]
                 ELSE state
      /\ pending' = pending \ {r}
      /\ UNCHANGED <<committed, rows, running, mode, accepted, slot, taps>>
      /\ running
      /\ \A j \in DOMAIN taps[r] : taps[r][j] # NotRun
  BY DEF WriteBack, StoreInputs, First, Last
<1>2. state' \in [Slot \union {NullSlot} -> [Window -> Value]] /\ Kept' /\ Stored'
  BY <1>1, StoreKeepsInv
<1>3. Types' BY <1>1, <1>2 DEF ConvInv, Types
<1>4. Slots' /\ Routes' BY <1>1 DEF ConvInv, Slots, Routes
<1>5. Computed' BY <1>1 DEF ConvInv, Computed, Fresh
<1>6. RowsSeeTheirHistory' BY <1>1 DEF ConvInv, RowsSeeTheirHistory
<1> QED BY <1>2, <1>3, <1>4, <1>5, <1>6 DEF ConvInv

\* A decode step computes its row and stores it.
LEMMA DecodeInv ==
  ASSUME ConvInv, NEW r \in pending, Decode(r)
  PROVE  ConvInv'
<1>1. /\ Types /\ r \in Owner /\ rows[r] \in Seq(Key) /\ rows[r] # <<>>
      /\ Len(rows[r]) = 1 /\ mode[r] = "decode" /\ running
      /\ taps[r] \in Seq(Taken \union {NotRun}) /\ Len(taps[r]) = 1
  BY DEF ConvInv, Types, Routes, Decode
<1>2. /\ First(r) = 1 /\ Last(r) = StateLen BY <1>1 DEF First, Last
<1>3. \A w \in Window : w + 1 = First(r) + w BY <1>2, Geometry
<1>4. state' = IF HasSlot(r)
               THEN [state EXCEPT ![slot[r]] =
                       [w \in Window |-> IF w < Last(r) THEN Source(r, First(r) + w) ELSE @[w]]]
               ELSE state
  BY <1>2, <1>3 DEF Decode
<1>5. state' \in [Slot \union {NullSlot} -> [Window -> Value]] /\ Kept' /\ Stored'
  BY <1>4, StoreKeepsInv DEF Decode
<1>6. 1 \in 1 .. Len(rows[r]) /\ 1 \in 1 .. Len(taps[r]) BY <1>1
<1>7. RowTaps(r, 1) \in Taken BY <1>1, <1>6, RowTapsType
<1>8. /\ [taps[r] EXCEPT ![1] = RowTaps(r, 1)] \in Seq(Taken \union {NotRun})
      /\ Len([taps[r] EXCEPT ![1] = RowTaps(r, 1)]) = Len(taps[r])
      /\ \A i \in 1 .. Len(taps[r]) :
           [taps[r] EXCEPT ![1] = RowTaps(r, 1)][i] = IF i = 1 THEN RowTaps(r, 1) ELSE taps[r][i]
  BY <1>1, <1>6, <1>7, ExceptSeq
<1>9. /\ taps' = [taps EXCEPT ![r] = [taps[r] EXCEPT ![1] = RowTaps(r, 1)]]
      /\ taps'[r] = [taps[r] EXCEPT ![1] = RowTaps(r, 1)]
      /\ \A q \in Owner : q # r => taps'[q] = taps[q]
  BY <1>1 DEF Decode, Types
<1>10. Types' BY <1>5, <1>8, <1>9 DEF ConvInv, Types, Decode
<1>11. Slots' BY DEF ConvInv, Slots, Decode
<1>12. Routes' BY <1>1, <1>8, <1>9 DEF ConvInv, Routes, Decode
<1>13. Computed'
  <2> SUFFICES ASSUME NEW q \in Req, ~Fresh(q)', mode'[q] # "decode"
               PROVE  \A j \in DOMAIN taps'[q] : taps'[q][j] # NotRun
    BY DEF Computed
  <2>1. q # r /\ mode[q] # "decode" /\ ~Fresh(q) BY <1>1 DEF Decode, Fresh
  <2> QED BY <1>9, <2>1 DEF ConvInv, Computed, Owner
<1>14. RowsSeeTheirHistory'
  <2> SUFFICES ASSUME NEW q \in Req, NEW i \in DOMAIN taps'[q], taps'[q][i] # NotRun,
                      NEW k \in 1 .. Taps
               PROVE  taps'[q][i][k] = History(committed'[q] \o rows'[q],
                        Len(committed'[q]) + i - 1 - Dilation * (Taps - k))
    BY DEF RowsSeeTheirHistory
  <2>1. committed' = committed /\ rows' = rows BY DEF Decode
  <2>2. CASE q = r
    <3>1. DOMAIN taps'[r] = 1 .. Len(taps[r]) BY <1>8, <1>9, LenProperties
    <3>2. i = 1 BY <1>1, <2>2, <3>1
    <3>3. taps'[q][i] = RowTaps(r, 1) BY <1>6, <1>8, <1>9, <2>2, <3>2
    <3>4. RowTaps(r, 1)[k] = History(Seen(r), Len(committed[r]) + 1 - 1 - Dilation * (Taps - k))
      BY <1>6, <2>2, RowTapsAreHistory
    <3> QED BY <2>1, <2>2, <3>2, <3>3, <3>4 DEF Seen
  <2>3. CASE q # r
    BY <1>9, <2>1, <2>3 DEF ConvInv, RowsSeeTheirHistory, Owner
  <2> QED BY <2>2, <2>3
<1> QED BY <1>5, <1>10, <1>11, <1>12, <1>13, <1>14 DEF ConvInv

\* A fresh slot is nobody's history yet.
LEMMA AdmitInv ==
  ASSUME ConvInv, NEW r \in Req, NEW s \in Slot, Admit(r, s)
  PROVE  ConvInv'
<1>1. /\ r \in Owner /\ s # NullSlot /\ slot[r] = NullSlot
      /\ slot' = [slot EXCEPT ![r] = s] /\ slot \in [Owner -> Slot \union {NullSlot}]
      /\ \A q \in Req : slot[q] # s
      /\ UNCHANGED <<committed, rows, running, mode, accepted, state, taps, pending>>
      /\ committed[r] = <<>> /\ rows[r] = <<>>
  BY ConvAssumption DEF ConvInv, Types, Slots, Admit, Owner
<1>2. \A q \in Owner : q # r => slot'[q] = slot[q] BY <1>1
<1>3. slot'[r] = s BY <1>1
<1>4. Types' BY <1>1 DEF ConvInv, Types
<1>5. Slots' BY <1>1, <1>2, <1>3, ConvAssumption DEF ConvInv, Slots, Owner
<1>6. Routes' /\ Computed' /\ RowsSeeTheirHistory'
  BY <1>1 DEF ConvInv, Routes, Computed, Fresh, RowsSeeTheirHistory
<1>7. Kept' BY <1>1, <1>2 DEF ConvInv, Kept, HasSlot, Fresh, Owner
<1>8. Stored' BY <1>1, <1>2 DEF ConvInv, Stored, Fresh, Seen, First, Last, Owner
<1> QED BY <1>4, <1>5, <1>6, <1>7, <1>8 DEF ConvInv

\* The batch grows by a request's rows; nothing is computed yet.
LEMMA ScheduleInv ==
  ASSUME ConvInv, NEW r \in Owner, NEW chunk \in Chunks, NEW m \in Mode, Schedule(r, chunk, m)
  PROVE  ConvInv'
<1> DEFINE n == Len(chunk)
           none == [j \in 1 .. n |-> NotRun]
<1>1. /\ Types /\ rows[r] = <<>> /\ ~running
      /\ rows' = [rows EXCEPT ![r] = chunk] /\ mode' = [mode EXCEPT ![r] = m]
      /\ taps' = [taps EXCEPT ![r] = none] /\ pending' = pending \union {r}
      /\ UNCHANGED <<committed, running, accepted, slot, state>>
      /\ Routed(r, n, m)
  BY DEF ConvInv, Schedule
<1>2. chunk \in Seq(Key) /\ n \in 1 .. MaxChunk /\ chunk # <<>>
  <2>1. PICK k \in 1 .. MaxChunk : chunk \in [1 .. k -> Key] BY DEF Chunks
  <2>2. chunk \in Seq(Key) /\ n = k BY <2>1, Geometry
  <2> QED BY <2>2, Geometry
<1>3. none \in Seq(Taken \union {NotRun}) /\ Len(none) = n /\ DOMAIN none = 1 .. n
      /\ \A j \in 1 .. n : none[j] = NotRun
  BY <1>2, Geometry
<1> HIDE DEF n, none
<1>4. /\ rows'[r] = chunk /\ mode'[r] = m /\ taps'[r] = none
      /\ \A q \in Owner : q # r => /\ rows'[q] = rows[q] /\ mode'[q] = mode[q]
                                   /\ taps'[q] = taps[q] /\ (q \in pending' <=> q \in pending)
  BY <1>1 DEF Types
<1>5. Types' BY <1>1, <1>2, <1>3 DEF Types
<1>6. Req \subseteq Owner BY DEF Owner
<1>7. Slots'
  <2>1. r \in Req => slot[r] # NullSlot BY <1>1 DEF Routed
  <2> QED BY <1>1, <1>4, <1>6, <2>1 DEF ConvInv, Slots
<1>8. Routes'
  <2>1. \A q \in pending' : rows'[q] # <<>>
    BY <1>1, <1>2, <1>4 DEF ConvInv, Routes, Types
  <2>2. \A q \in Owner : rows'[q] # <<>> => q \in pending'
    BY <1>1, <1>4 DEF ConvInv, Routes
  <2>3. n = Len(chunk) BY DEF n
  <2>4. ASSUME NEW q \in Owner
        PROVE  /\ Len(taps'[q]) = Len(rows'[q])
               /\ Len(rows'[q]) <= MaxChunk
               /\ rows'[q] # <<>> /\ mode'[q] = "decode" => Len(rows'[q]) = 1
               /\ rows'[q] # <<>> /\ mode'[q] = "spec" => Len(rows'[q]) <= Drafts + 1
    BY <1>1, <1>2, <1>3, <1>4, <2>3, Geometry DEF ConvInv, Routes, Routed
  <2>5. ASSUME NEW q \in Req
        PROVE  /\ accepted[q] <= Drafts + 1
               /\ mode'[q] # "spec" => accepted[q] = 1
               /\ rows'[q] # <<>> /\ mode'[q] = "spec" => committed[q] # <<>>
    BY <1>1, <1>4, <1>6 DEF ConvInv, Routes, Routed
  <2> QED BY <1>1, <2>1, <2>2, <2>4, <2>5 DEF Routes
<1>9. Kept' BY <1>1, <1>4, <1>6 DEF ConvInv, Kept, HasSlot, Fresh
<1>10. \A q \in Req : ~Fresh(q)' => q # r /\ ~Fresh(q) BY <1>1, <1>4, <1>6 DEF Fresh
<1>11. Stored' BY <1>1, <1>4, <1>6, <1>10 DEF ConvInv, Stored, Seen, First, Last
<1>12. Computed' BY <1>1, <1>4, <1>6, <1>10 DEF ConvInv, Computed
<1>13. RowsSeeTheirHistory'
  BY <1>1, <1>3, <1>4, <1>6 DEF ConvInv, RowsSeeTheirHistory
<1> QED BY <1>5, <1>7, <1>8, <1>9, <1>11, <1>12, <1>13 DEF ConvInv

\* The batch runs.
LEMMA LaunchInv == ConvInv /\ Launch => ConvInv'
  BY DEF ConvInv, Types, Slots, Routes, Kept, Stored, Computed, RowsSeeTheirHistory,
         Launch, HasSlot, Fresh, Seen, First, Last

\* Whatever number of drafts is accepted, the state holds what comes before
\* the next step at the offset of the last accepted one.
LEMMA AcceptInv ==
  ASSUME ConvInv, NEW kept \in [Owner -> 0 .. MaxChunk], Accept(kept)
  PROVE  ConvInv'
<1>1. /\ Types /\ pending = {}
      /\ \A r \in Owner : kept[r] \in Acceptable(r)
      /\ \A r \in Owner : committed'[r] = committed[r] \o SubSeq(rows[r], 1, kept[r])
      /\ \A r \in Owner : accepted'[r] = IF kept[r] = 0 THEN accepted[r]
                                         ELSE IF mode[r] = "spec" THEN kept[r] ELSE 1
      /\ rows' = [r \in Owner |-> <<>>] /\ taps' = [r \in Owner |-> <<>>]
      /\ running' = FALSE
      /\ UNCHANGED <<mode, slot, state, pending>>
  BY DEF ConvInv, Accept
<1>2. ASSUME NEW r \in Owner
      PROVE  /\ committed[r] \in Seq(Key) /\ rows[r] \in Seq(Key)
             /\ Len(committed[r]) \in Nat /\ Len(rows[r]) \in Nat
             /\ Len(rows[r]) <= MaxChunk
             /\ kept[r] \in 0 .. Len(rows[r])
             /\ rows[r] = <<>> => kept[r] = 0
             /\ r \in Req /\ rows[r] # <<>> =>
                  kept[r] \in IF mode[r] = "spec" THEN 1 .. Len(rows[r]) ELSE {Len(rows[r])}
             /\ accepted[r] \in 1 .. MaxChunk
  <2>1. committed[r] \in Seq(Key) /\ rows[r] \in Seq(Key) /\ accepted[r] \in 1 .. MaxChunk
    BY <1>1 DEF Types
  <2>2. Len(committed[r]) \in Nat /\ Len(rows[r]) \in Nat BY <2>1, LenProperties
  <2>3. kept[r] \in IF r \in Pad \/ rows[r] = <<>> THEN {0}
                   ELSE IF mode[r] = "spec" THEN 1 .. Len(rows[r]) ELSE {Len(rows[r])}
    BY <1>1 DEF Acceptable
  <2>4. r \in Req => r \notin Pad BY ConvAssumption
  <2> QED BY <2>1, <2>2, <2>3, <2>4 DEF ConvInv, Routes
<1>3. ASSUME NEW r \in Owner, NEW p \in Int, p < Len(committed[r]) + kept[r]
      PROVE  /\ committed'[r] \in Seq(Key)
             /\ Len(committed'[r]) = Len(committed[r]) + kept[r]
             /\ History(committed'[r], p) = History(Seen(r), p)
  <2>1. /\ committed[r] \in Seq(Key) /\ rows[r] \in Seq(Key)
        /\ kept[r] \in 0 .. Len(rows[r]) /\ p < Len(committed[r]) + kept[r]
    BY <1>2, <1>3
  <2>2. LET c == committed[r] \o SubSeq(rows[r], 1, kept[r])
        IN  /\ c \in Seq(Key) /\ Len(c) = Len(committed[r]) + kept[r]
            /\ History(c, p) = History(committed[r] \o rows[r], p)
    BY <2>1, HistoryOfAccepted
  <2>3. committed'[r] = committed[r] \o SubSeq(rows[r], 1, kept[r]) BY <1>1
  <2> QED BY <2>2, <2>3 DEF Seen
<1>4. ASSUME NEW r \in Owner
      PROVE  committed'[r] \in Seq(Key) /\ Len(committed'[r]) = Len(committed[r]) + kept[r]
  <2>1. Len(committed[r]) + kept[r] - 1 \in Int BY <1>2
  <2>2. Len(committed[r]) + kept[r] - 1 < Len(committed[r]) + kept[r] BY <1>2
  <2> QED BY <1>3, <2>1, <2>2
<1>5. ASSUME NEW r \in Owner, rows[r] = <<>>
      PROVE  committed'[r] = committed[r] /\ accepted'[r] = accepted[r]
  <2>1. kept[r] = 0 BY <1>2, <1>5
  <2>2. SubSeq(rows[r], 1, 0) = <<>> BY SubSeqEmpty
  <2>3. committed'[r] = committed[r] \o <<>> BY <1>1, <2>1, <2>2
  <2> QED BY <1>1, <1>2, <2>1, <2>3, ConcatEmptySeq
<1>6. ASSUME NEW r \in Owner PROVE accepted'[r] \in 1 .. MaxChunk
  BY <1>1, <1>2, Geometry
<1>7. Types'
  <2>1. committed' \in [Owner -> Seq(Key)] BY <1>4 DEF Accept
  <2>2. accepted' \in [Owner -> 1 .. MaxChunk] BY <1>6 DEF Accept
  <2>3. <<>> \in Seq(Key) /\ <<>> \in Seq(Taken \union {NotRun}) BY EmptySeq
  <2> QED BY <1>1, <2>1, <2>2, <2>3 DEF Types
<1>8. Req \subseteq Owner BY DEF Owner
<1>9. Slots' BY <1>1, <1>5, <1>8 DEF ConvInv, Slots
<1>10. Routes'
  <2>1. ASSUME NEW r \in Req
        PROVE  accepted'[r] <= Drafts + 1 /\ (mode[r] # "spec" => accepted'[r] = 1)
    <3>1. r \in Owner BY <1>8
    <3>2. CASE kept[r] = 0 BY <1>1, <3>1, <3>2 DEF ConvInv, Routes
    <3>3. CASE kept[r] # 0
      <4>1. rows[r] # <<>> BY <1>2, <3>1, <3>3
      <4>2. mode[r] = "spec" => kept[r] <= Drafts + 1
        BY <1>2, <3>1, <4>1, Geometry DEF ConvInv, Routes
      <4> QED BY <1>1, <3>1, <3>3, <4>2, Geometry
    <3> QED BY <3>2, <3>3
  <2>2. \A r \in Owner : rows'[r] = <<>> /\ taps'[r] = <<>> BY <1>1
  <2> QED BY <1>1, <1>8, <2>1, <2>2, Geometry DEF Routes
<1>11. Kept'
  <2> SUFFICES ASSUME NEW r \in Req, HasSlot(r)', committed'[r] # <<>>,
                      NEW w \in 0 .. StateLen - 1
               PROVE  state'[slot'[r]][accepted'[r] - 1 + w] =
                        History(committed'[r], Len(committed'[r]) - StateLen + w)
    BY DEF Kept
  <2>1. r \in Owner /\ HasSlot(r) BY <1>1, <1>8 DEF HasSlot
  <2>2. CASE rows[r] = <<>>
    <3>1. committed'[r] = committed[r] /\ accepted'[r] = accepted[r] BY <1>5, <2>1, <2>2
    <3> QED BY <1>1, <2>1, <2>2, <3>1 DEF ConvInv, Kept, Fresh
  <2>3. CASE rows[r] # <<>>
    <3> DEFINE L == Len(committed[r])
    <3>1. /\ ~Fresh(r) /\ L \in Nat /\ Len(rows[r]) \in Nat
          /\ kept[r] \in IF mode[r] = "spec" THEN 1 .. Len(rows[r]) ELSE {Len(rows[r])}
          /\ Len(rows[r]) > 0
      BY <1>1, <1>2, <2>1, <2>3, EmptySeq DEF Fresh
    <3>2. accepted'[r] = IF mode[r] = "spec" THEN kept[r] ELSE 1
      BY <1>1, <2>1, <3>1
    <3>3. accepted'[r] - 1 + w \in 0 .. Last(r) - 1
      <4>1. StateLen \in Nat /\ w \in 0 .. StateLen - 1 BY Geometry
      <4>2. CASE mode[r] = "spec"
        <5>1. accepted'[r] \in 1 .. Len(rows[r]) /\ Last(r) = StateLen + Len(rows[r]) - 1
          BY <3>1, <3>2, <4>2 DEF Last
        <5> QED BY <3>1, <4>1, <5>1
      <4>3. CASE mode[r] # "spec"
        <5>1. accepted'[r] = 1 /\ Last(r) = StateLen BY <3>2, <4>3 DEF Last
        <5> QED BY <4>1, <5>1
      <4> QED BY <4>2, <4>3
    <3>4. state[slot[r]][accepted'[r] - 1 + w]
            = History(Seen(r), L - StateLen + First(r) + (accepted'[r] - 1 + w))
      BY <3>1, <3>3 DEF ConvInv, Stored
    <3>5. L - StateLen + First(r) + (accepted'[r] - 1 + w) = L + kept[r] - StateLen + w
      <4>1. First(r) + accepted'[r] - 1 = kept[r] /\ First(r) \in Int /\ accepted'[r] \in Int
        BY <3>1, <3>2 DEF First
      <4>2. StateLen \in Int /\ w \in Int /\ kept[r] \in Int /\ L \in Int
        BY <3>1, <4>1, Geometry
      <4> DEFINE first == First(r)
                 offset == accepted'[r]
                 k == kept[r]
                 width == StateLen
      <4>3. /\ L \in Int /\ width \in Int /\ first \in Int /\ offset \in Int /\ k \in Int
            /\ w \in Int /\ first + offset - 1 = k
        BY <4>1, <4>2
      <4> HIDE DEF L, first, offset, k, width
      <4>4. L - width + first + (offset - 1 + w) = L + k - width + w BY <4>3
      <4> QED BY <4>4 DEF first, offset, k, width
    <3>6. L + kept[r] - StateLen + w \in Int /\ L + kept[r] - StateLen + w < L + kept[r]
      <4>1. kept[r] \in Int /\ L \in Int BY <3>1
      <4>2. StateLen \in Int /\ w \in Int /\ w < StateLen BY Geometry
      <4> HIDE DEF L
      <4> QED BY <4>1, <4>2
    <3>7. /\ Len(committed'[r]) = L + kept[r]
          /\ History(committed'[r], L + kept[r] - StateLen + w)
               = History(Seen(r), L + kept[r] - StateLen + w)
      BY <1>3, <2>1, <3>6
    <3>8. state' = state /\ slot' = slot BY <1>1
    <3> HIDE DEF L
    <3>9. state[slot[r]][accepted'[r] - 1 + w] = History(Seen(r), L + kept[r] - StateLen + w)
      BY <3>4, <3>5
    <3>10. Len(committed'[r]) - StateLen + w = L + kept[r] - StateLen + w
      BY <3>1, <3>7, Geometry
    <3> QED BY <3>7, <3>8, <3>9, <3>10
  <2> QED BY <2>2, <2>3
<1>12. Stored' /\ Computed' BY <1>1, <1>8 DEF Stored, Computed, Fresh
<1>13. RowsSeeTheirHistory' BY <1>1, <1>8 DEF RowsSeeTheirHistory
<1> QED BY <1>7, <1>9, <1>10, <1>11, <1>12, <1>13 DEF ConvInv

\* A released slot is nobody's.
LEMMA ReleaseInv ==
  ASSUME ConvInv, NEW r \in Req, Release(r)
  PROVE  ConvInv'
<1>1. /\ Types /\ r \in Owner /\ pending = {} /\ ~running
      /\ slot' = [slot EXCEPT ![r] = NullSlot]
      /\ committed' = [committed EXCEPT ![r] = <<>>]
      /\ mode' = [mode EXCEPT ![r] = "prefill"]
      /\ accepted' = [accepted EXCEPT ![r] = 1]
      /\ UNCHANGED <<rows, running, state, taps, pending>>
  BY DEF ConvInv, Release, Idle, Owner
<1>2. \A q \in Owner : rows[q] = <<>> /\ taps[q] \in Seq(Taken \union {NotRun}) /\ Len(taps[q]) = 0
  <2>1. \A q \in Owner : rows[q] = <<>> BY <1>1 DEF ConvInv, Routes
  <2> QED BY <1>1, <2>1 DEF ConvInv, Routes, Types
<1>3. \A q \in Owner : DOMAIN taps[q] = {}
  <2> SUFFICES ASSUME NEW q \in Owner PROVE DOMAIN taps[q] = {} OBVIOUS
  <2>1. DOMAIN taps[q] = 1 .. Len(taps[q]) BY <1>2, LenProperties
  <2> QED BY <1>2, <2>1
<1>4. /\ slot'[r] = NullSlot /\ committed'[r] = <<>> /\ mode'[r] = "prefill" /\ accepted'[r] = 1
      /\ \A q \in Owner : q # r => /\ slot'[q] = slot[q] /\ committed'[q] = committed[q]
                                   /\ mode'[q] = mode[q] /\ accepted'[q] = accepted[q]
  BY <1>1 DEF Types
<1>5. Req \subseteq Owner /\ Pad \subseteq Owner /\ r \notin Pad BY ConvAssumption DEF Owner
<1>6. Types'
  <2>1. <<>> \in Seq(Key) /\ 1 \in 1 .. MaxChunk BY EmptySeq, Geometry
  <2> QED BY <1>1, <2>1 DEF Types, Mode
<1>7. Slots' BY <1>1, <1>2, <1>4, <1>5 DEF ConvInv, Slots
<1>8. Routes' BY <1>1, <1>2, <1>4, <1>5, Geometry DEF ConvInv, Routes
<1>9. Kept'
  <2> SUFFICES ASSUME NEW q \in Req, HasSlot(q)', committed'[q] # <<>>,
                      NEW w \in 0 .. StateLen - 1
               PROVE  state'[slot'[q]][accepted'[q] - 1 + w] =
                        History(committed'[q], Len(committed'[q]) - StateLen + w)
    BY DEF Kept
  <2>1. q # r /\ q \in Owner BY <1>4, <1>5
  <2> QED BY <1>1, <1>2, <1>4, <2>1 DEF ConvInv, Kept, HasSlot, Fresh
<1>10. Stored' /\ Computed' BY <1>1, <1>2, <1>5 DEF Stored, Computed, Fresh
<1>11. RowsSeeTheirHistory' BY <1>1, <1>3, <1>5 DEF RowsSeeTheirHistory
<1> QED BY <1>6, <1>7, <1>8, <1>9, <1>10, <1>11 DEF ConvInv

\* Nothing is computed, nobody has a slot.
LEMMA InitInv == Init => ConvInv
<1> SUFFICES ASSUME Init PROVE ConvInv OBVIOUS
<1>1. <<>> \in Seq(Key) /\ <<>> \in Seq(Taken \union {NotRun}) /\ 1 \in 1 .. MaxChunk
  BY EmptySeq, Geometry
<1>2. Req \subseteq Owner /\ Pad \subseteq Owner BY DEF Owner
<1>3. Types BY <1>1 DEF Init, Types, Mode, Value
<1>4. Slots BY <1>2 DEF Init, Slots
<1>5. Routes BY <1>2, Geometry DEF Init, Routes
<1>6. Kept /\ Stored /\ Computed BY <1>2 DEF Init, Kept, Stored, Computed, Fresh, HasSlot
<1>7. RowsSeeTheirHistory BY <1>2 DEF Init, RowsSeeTheirHistory
<1> QED BY <1>3, <1>4, <1>5, <1>6, <1>7 DEF ConvInv

\* The convolution keeps its invariant.
THEOREM ConvInvariance == Spec => []ConvInv
<1>1. ConvInv /\ [Next]_vars => ConvInv'
  <2> SUFFICES ASSUME ConvInv, [Next]_vars PROVE ConvInv' OBVIOUS
  <2>1. CASE UNCHANGED vars
    BY <2>1 DEF vars, ConvInv, Types, Slots, Routes, Kept, Stored, Computed,
                RowsSeeTheirHistory, HasSlot, Fresh, Seen, First, Last
  <2>2. ASSUME NEW r \in Req, NEW s \in Slot, Admit(r, s) PROVE ConvInv'
    BY <2>2, AdmitInv
  <2>3. ASSUME NEW r \in Owner, NEW chunk \in Chunks, NEW m \in Mode, Schedule(r, chunk, m)
        PROVE  ConvInv'
    BY <2>3, ScheduleInv
  <2>4. CASE Launch BY <2>4, LaunchInv
  <2>5. ASSUME NEW r \in Owner, NEW j \in DOMAIN taps[r], ConvRow(r, j) PROVE ConvInv'
    BY <2>5, ConvRowInv
  <2>6. ASSUME NEW r \in pending, WriteBack(r) PROVE ConvInv'
    BY <2>6, WriteBackInv
  <2>7. ASSUME NEW r \in pending, Decode(r) PROVE ConvInv'
    BY <2>7, DecodeInv
  <2>8. ASSUME NEW kept \in [Owner -> 0 .. MaxChunk], Accept(kept) PROVE ConvInv'
    BY <2>8, AcceptInv
  <2>9. ASSUME NEW r \in Req, Release(r) PROVE ConvInv'
    BY <2>9, ReleaseInv
  <2> QED BY <2>1, <2>2, <2>3, <2>4, <2>5, <2>6, <2>7, <2>8, <2>9 DEF Next
<1> QED BY <1>1, InitInv, PTL DEF Spec

(***************************************************************************)
(* For any taps, dilation and drafts, any mix of launches in a step and    *)
(* any order of their programs, a row is computed from its own request's   *)
(* accepted tokens and the rows before it.                                 *)
(***************************************************************************)
THEOREM RowSafety == Spec => []RowsSeeTheirHistory
<1>1. ConvInv => RowsSeeTheirHistory BY DEF ConvInv
<1> QED BY <1>1, ConvInvariance, PTL

(***************************************************************************)
(* However many drafts are rejected, however often, the slot holds the     *)
(* last accepted inputs where the next step reads them.                    *)
(***************************************************************************)
THEOREM StateSafety == Spec => []StateHoldsLastInputs
<1>1. ConvInv => StateHoldsLastInputs
  BY DEF ConvInv, Kept, StateHoldsLastInputs, Fresh
<1> QED BY <1>1, ConvInvariance, PTL

\* The variables keep their types.
THEOREM ConvTypes == Spec => []TypeOK
<1>1. ConvInv => TypeOK
  <2> SUFFICES ASSUME ConvInv PROVE TypeOK OBVIOUS
  <2> QED BY DEF ConvInv, Types, Routes, TypeOK
<1> QED BY <1>1, ConvInvariance, PTL

(***************************************************************************)
(* No step of anybody's changes a slot its request is not being computed   *)
(* for: padding rows, in particular, write nothing.                        *)
(***************************************************************************)
THEOREM Isolation == Spec => OthersKeepTheirState
<1> DEFINE Own == \A s \in Slot \union {NullSlot} :
                    state'[s] # state[s] => \E r \in Req : slot[r] = s /\ r \in pending
<1>1. ASSUME ConvInv, NEW r \in pending,
             \E f : state' = IF HasSlot(r) THEN [state EXCEPT ![slot[r]] = f] ELSE state
      PROVE  Own
  <2>1. r \in Owner BY <1>1 DEF ConvInv, Types
  <2>2. HasSlot(r) => r \in Req BY <1>1, <2>1 DEF ConvInv, Slots, Owner, HasSlot
  <2>3. \A s \in Slot \union {NullSlot} : state'[s] # state[s] => HasSlot(r) /\ s = slot[r]
    BY <1>1 DEF ConvInv, Types
  <2> QED BY <1>1, <2>2, <2>3
<1>2. ConvInv /\ [Next]_vars => [Own]_vars
  <2> SUFFICES ASSUME ConvInv, Next PROVE Own OBVIOUS
  <2>1. ASSUME NEW r \in pending, WriteBack(r) PROVE Own
    BY <1>1, <2>1 DEF WriteBack, StoreInputs
  <2>2. ASSUME NEW r \in pending, Decode(r) PROVE Own
    BY <1>1, <2>2 DEF Decode
  <2>3. CASE UNCHANGED state BY <2>3
  <2> QED BY <2>1, <2>2, <2>3 DEF Next, Admit, Schedule, Launch, ConvRow, Accept, Release
<1> QED BY <1>2, ConvInvariance, PTL DEF Spec, OthersKeepTheirState
=============================================================================
