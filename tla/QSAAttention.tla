---------------------------- MODULE QSAAttention ----------------------------
(***************************************************************************)
(* One QSA attention layer over its paged K/V cache                        *)
(* (patches/upstream-overlays/qsa.py and ops_qsa.py), and the way the MTP  *)
(* drafter reuses its selection (patches/mtp_draft_vocab.py).              *)
(*                                                                         *)
(* A forward runs in the order of _run_qsa: the indexer selects positions  *)
(* for every row of the batch, the rows' keys and values are written to    *)
(* the cache, then a split-K kernel attends to the selected positions and  *)
(* a second kernel merges the splits.  The programs of a kernel run in any *)
(* order.  On draft step 0 the drafter selects for every row and keeps the *)
(* row of each request's last accepted token; later draft steps have one   *)
(* row per request and attend to what that row selected.                   *)
(*                                                                         *)
(* The softmax is abstracted to what it weighs: the result of a program is *)
(* the set of cache entries it attended to, tagged with split and column,  *)
(* so that an entry weighed twice is two elements.  A cached token has     *)
(* data and, in the packed format, block scales in a region of their own.  *)
(***************************************************************************)
EXTENDS Integers, Sequences, FiniteSets

CONSTANTS
  NumRequests,  \* rows of the block table
  Pages,        \* pages of the cache, handed out by the KV-cache manager
  NoPage,       \* an empty entry of the block table
  Garbage,      \* what torch.empty or a former use left behind
  PageSize,     \* rows of a page
  Width,        \* pages of a request: PAGE_TABLE_WIDTH
  ScaleDim,     \* block scales of a row: HEAD_DIM // 16
  TopK,         \* width of the selection: TOPK
  KVHeads,      \* programs of one row and split
  Profiles,     \* launch profiles <<[upto, tile, splits], ...>>
  NarrowTile,   \* tiles wider than this are replaced ...
  QuantTile,    \* ... by this one when the cache is quantised
  NumDrafts,    \* later draft steps after step 0
  MaxLen, MaxChunk, MaxRows

Request == 0 .. NumRequests - 1
NoPosition == -1   \* logical position of a padding row

ASSUME ConstantsAssumption ==
  /\ NumRequests \in Nat \ {0} /\ PageSize \in Nat \ {0} /\ Width \in Nat \ {0}
  /\ ScaleDim \in Nat /\ ScaleDim % 4 = 0 /\ PageSize % 4 = 0
  /\ TopK \in Nat \ {0} /\ KVHeads \in Nat \ {0} /\ NumDrafts \in Nat
  /\ MaxLen \in Nat /\ MaxChunk \in Nat /\ MaxRows \in Nat
  /\ Profiles \in Seq([upto : Nat, tile : Nat \ {0}, splits : Nat \ {0}])
  /\ Profiles # <<>>
  /\ QuantTile \in Nat \ {0} /\ NarrowTile \in Nat
  /\ MaxRows * KVHeads <= Profiles[Len(Profiles)].upto
  /\ MaxLen + NumDrafts <= Width * PageSize
  /\ NoPage \notin Pages /\ Garbage \notin [0 .. TopK - 1 -> Int]

VARIABLES
  table,    \* table[r][l]: physical page of the request's logical page l
  context,  \* context[r]: number of computed and accepted tokens
  data,     \* data[p][t]: the token in row t of page p
  scale,    \* scale[p][<<t, s>>]: the token whose block scale is stored there
  step,     \* "idle", or the next part of the forward
  draft,    \* number of the draft step, 0 for the target's rows
  rows,     \* the rows of the batch: request and position
  topk,     \* topk_indices_buffer
  partial,  \* partial[i][s]: result of split s for row i
  out,      \* the rows of the output
  chosen    \* history: chosen[r][p], what the step's row at p selected

cache == <<data, scale>>
vars == <<table, context, data, scale, step, draft, rows, topk, partial, out, chosen>>

-----------------------------------------------------------------------------
(* Geometry. *)

NumRows == Len(rows)

Cdiv(a, b) == (a + b - 1) \div b

\* The k-th member of a set of integers, in ascending order from 0.
Nth(S, k) == CHOOSE q \in S : Cardinality({x \in S : x < q}) = k

Token(r, p) == [req |-> r, pos |-> p]

PageOf(r, p) == table[r][p \div PageSize]

\* The block scales of a page, in a region apart from the data.
ScaleRegion == (0 .. PageSize - 1) \X (0 .. ScaleDim - 1)

\* Slip: the row within its four is left out.
ScaleCoordShifted(t, s) ==
  <<(t \div 4) * 4 + s \div (ScaleDim \div 4), (s % (ScaleDim \div 4)) * 4>>

\* Where the block scale of (row, group) is stored on the V side.
ScaleCoord(t, s) ==
  <<(t \div 4) * 4 + s \div (ScaleDim \div 4),
    (s % (ScaleDim \div 4)) * 4 + (t % 4)>>

\* What reshape_and_cache_flash fills with the scales of row t.
ScaleCells(t) ==
  {c \in ScaleRegion : c[1] \div 4 = t \div 4 /\ c[2] % 4 = t % 4}

Profile(n) ==
  LET fits == {i \in DOMAIN Profiles : n * KVHeads <= Profiles[i].upto}
  IN  Profiles[CHOOSE i \in fits : \A j \in fits : i <= j]

BlockN(n) == IF Profile(n).tile > NarrowTile THEN QuantTile ELSE Profile(n).tile

NumTiles(n) == Cdiv(TopK, BlockN(n))

PowerOfTwo(p) == \A d \in 2 .. p : p % d = 0 => d % 2 = 0

\* 1 << (num_tiles.bit_length() - 1)
MaxUsefulSplits(tiles) == CHOOSE p \in 1 .. tiles : PowerOfTwo(p) /\ tiles < 2 * p

NumSplits(n) ==
  LET useful == MaxUsefulSplits(NumTiles(n))
  IN  IF useful < Profile(n).splits THEN useful ELSE Profile(n).splits

SplitTiles(s, tiles, splits) == (s * tiles) \div splits .. ((s + 1) * tiles) \div splits - 1

-----------------------------------------------------------------------------
(* Engine: requests, pages, batches. *)

Idle == step = "idle"

Free == Pages \ {table[r][l] : r \in Request, l \in 0 .. Width - 1}

Held(r) == table[r][0] # NoPage

Own(r) == {table[r][l] : l \in 0 .. Width - 1}

Init ==
  /\ table = [r \in Request |-> [l \in 0 .. Width - 1 |-> NoPage]]
  /\ context = [r \in Request |-> 0]
  /\ data = [p \in Pages |-> [t \in 0 .. PageSize - 1 |-> Garbage]]
  /\ scale = [p \in Pages |-> [c \in ScaleRegion |-> Garbage]]
  /\ step = "idle"
  /\ draft = 0
  /\ rows = <<>>
  /\ topk = [i \in 1 .. MaxRows |-> Garbage]
  /\ partial = <<>>
  /\ out = <<>>
  /\ chosen = [r \in Request |-> <<>>]

\* Pages change hands as they are.
Admit(r) ==
  /\ Idle /\ ~Held(r)
  /\ \E f \in [0 .. Width - 1 -> Free] :
       /\ \A k, l \in 0 .. Width - 1 : k # l => f[k] # f[l]
       /\ table' = [table EXCEPT ![r] = f]
  /\ UNCHANGED <<context, cache, step, draft, rows, topk, partial, out, chosen>>

\* A free page may hold anything, so its content is forgotten.
Release(r) ==
  /\ Idle /\ Held(r)
  /\ data' = [p \in Pages |-> IF p \in Own(r) THEN [t \in DOMAIN data[p] |-> Garbage] ELSE data[p]]
  /\ scale' = [p \in Pages |-> IF p \in Own(r) THEN [c \in DOMAIN scale[p] |-> Garbage] ELSE scale[p]]
  /\ table' = [table EXCEPT ![r] = [l \in 0 .. Width - 1 |-> NoPage]]
  /\ context' = [context EXCEPT ![r] = 0]
  /\ UNCHANGED <<step, draft, rows, topk, partial, out, chosen>>

\* before[r]: the rows of the requests below r.
RowsBefore(n) ==
  LET before[r \in 0 .. NumRequests] == IF r = 0 THEN 0 ELSE before[r - 1] + n[r - 1]
  IN  before

\* The batch in the order of its requests, n[r] rows each.  Padding rows name the
\* first request (token_to_req is 0 there) and have no position.
Batch(n, pad) ==
  LET before == RowsBefore(n)
      Row(i) == LET r == CHOOSE r \in Request : before[r] < i /\ i <= before[r + 1]
                IN  Token(r, context[r] + i - before[r] - 1)
  IN  [i \in 1 .. before[NumRequests] + pad |->
         IF i <= before[NumRequests] THEN Row(i) ELSE Token(Row(1).req, NoPosition)]

\* Slip: the output has the capture size.
BeginForwardOfMaxRows(batch) ==
  /\ rows' = batch
  /\ step' = "select"
  /\ out' = [i \in 1 .. MaxRows |-> {}]
  /\ partial' = [i \in DOMAIN batch |-> [s \in 0 .. NumSplits(Len(batch)) - 1 |-> Garbage]]

\* A forward begins: its output is zeroed, its partial buffers are allocated.
BeginForward(batch) ==
  /\ rows' = batch
  /\ step' = "select"
  /\ out' = [i \in DOMAIN batch |-> {}]
  /\ partial' = [i \in DOMAIN batch |-> [s \in 0 .. NumSplits(Len(batch)) - 1 |-> Garbage]]

Schedule ==
  /\ Idle
  /\ \E n \in [Request -> 0 .. MaxChunk], pad \in 0 .. 1 :
       /\ \E r \in Request : n[r] > 0
       /\ \A r \in Request : n[r] > 0 => Held(r) /\ context[r] + n[r] <= MaxLen
       /\ Len(Batch(n, pad)) <= MaxRows
       /\ BeginForward(Batch(n, pad))
  /\ UNCHANGED <<table, context, cache, draft, topk, chosen>>

-----------------------------------------------------------------------------
(* The forward. *)

Real == {i \in DOMAIN rows : rows[i].pos # NoPosition}

\* What the indexer may return for a row at position p: causal positions, the
\* unused columns at the end and -1.
Chosen(p) ==
  {S \in SUBSET (0 .. p) : Cardinality(S) = IF p < TopK THEN p + 1 ELSE TopK}

AsRow(S) ==
  [c \in 0 .. TopK - 1 |-> IF c < Cardinality(S) THEN Nth(S, c) ELSE -1]

\* set_skip_topk: later draft steps leave the buffer as it is.  A padding row has
\* no visible group: it is left as it is, too, or blanked.
Select ==
  /\ step = "select"
  /\ IF draft > 0
     THEN UNCHANGED <<topk, chosen>>
     ELSE \E sel \in [Real -> UNION {Chosen(rows[i].pos) : i \in Real}],
             blank \in SUBSET (DOMAIN rows \ Real) :
            /\ \A i \in Real : sel[i] \in Chosen(rows[i].pos)
            /\ topk' = [i \in 1 .. MaxRows |->
                 IF i \in Real THEN AsRow(sel[i])
                 ELSE IF i \in blank THEN AsRow({}) ELSE topk[i]]
            /\ chosen' = [r \in Request |->
                 [p \in {rows[i].pos : i \in {j \in Real : rows[j].req = r}} |->
                    sel[CHOOSE i \in Real : rows[i].req = r /\ rows[i].pos = p]]]
  /\ step' = "update"
  /\ UNCHANGED <<table, context, cache, draft, rows, partial, out>>

\* do_kv_cache_update: the rows of this forward, the padding's slot being -1.
UpdateCache ==
  LET Here(p, t) == {i \in Real : /\ PageOf(rows[i].req, rows[i].pos) = p
                                  /\ rows[i].pos % PageSize = t}
      Written(p, t, old) == IF Here(p, t) = {} THEN old
                            ELSE rows[CHOOSE i \in Here(p, t) : TRUE]
      RowOfCell(c) == CHOOSE t \in 0 .. PageSize - 1 : c \in ScaleCells(t)
  IN  /\ step = "update"
      /\ data' = [p \in Pages |-> [t \in 0 .. PageSize - 1 |-> Written(p, t, data[p][t])]]
      /\ scale' = [p \in Pages |-> [c \in DOMAIN scale[p] |->
                     Written(p, RowOfCell(c), scale[p][c])]]
      /\ step' = "attend"
      /\ UNCHANGED <<table, context, draft, rows, topk, partial, out, chosen>>

\* A row of the cache as the kernel decodes it: data and every block scale.
Decoded(p, t) == {data[p][t]} \union {scale[p][ScaleCoord(t, s)] : s \in 0 .. ScaleDim - 1}

\* The mask of the kernel, for column c of row i.
Valid(i, c) ==
  LET l == topk[i][c]
  IN  /\ c < TopK
      /\ l >= 0
      /\ l \div PageSize < Width
      /\ table[rows[i].req][l \div PageSize] \in Pages

Columns(s) ==
  UNION {{t * BlockN(NumRows) + x : x \in 0 .. BlockN(NumRows) - 1} :
            t \in SplitTiles(s, NumTiles(NumRows), NumSplits(NumRows))}

\* What a program weighs.  A padding row is not masked: whatever the buffer holds
\* for it is looked up in the pages of the request it names.
Attended(i, s) ==
  IF topk[i] = Garbage THEN {[split |-> s, column |-> 0, entry |-> {Garbage}]}
  ELSE {[split |-> s, column |-> c,
         entry |-> Decoded(PageOf(rows[i].req, topk[i][c]), topk[i][c] % PageSize)] :
          c \in {x \in Columns(s) : x < TopK /\ Valid(i, x)}}

\* The programs of one split, of all rows and heads.  Programs of different rows
\* or heads read nothing that one of them writes, so they are one action; splits
\* come in any order.  With a single split they write the output.
RunSplit(s) ==
  LET results == [i \in DOMAIN rows |-> Attended(i, s)]
  IN  /\ step = "attend"
      /\ \A i \in DOMAIN rows : partial[i][s] = Garbage
      /\ partial' = [i \in DOMAIN rows |-> [partial[i] EXCEPT ![s] = results[i]]]
      /\ out' = IF NumSplits(NumRows) = 1 THEN results ELSE out
      /\ UNCHANGED <<table, context, cache, step, draft, rows, topk, chosen>>

\* The merge kernel is launched behind the split-K kernel, or not at all.
EndAttend ==
  /\ step = "attend"
  /\ \A i \in DOMAIN rows : \A s \in DOMAIN partial[i] : partial[i][s] # Garbage
  /\ step' = IF NumSplits(NumRows) = 1 THEN "done" ELSE "merge"
  /\ UNCHANGED <<table, context, cache, draft, rows, topk, partial, out, chosen>>

\* Splits without a value have no weight.
Merge ==
  /\ step = "merge"
  /\ out' = [i \in DOMAIN rows |-> UNION {partial[i][s] : s \in DOMAIN partial[i]}]
  /\ step' = "done"
  /\ UNCHANGED <<table, context, cache, draft, rows, topk, partial, chosen>>

-----------------------------------------------------------------------------
(* Sampling, and the drafter's later steps. *)

RowsOf(r) == {i \in Real : rows[i].req = r}
InBatch == {rows[i].req : i \in Real}

\* A prefix of the rows: all of a chunk of the prompt, at least the first row
\* of a row of drafts.
Acceptable(n) == IF n <= NumDrafts + 2 THEN 1 .. n ELSE {n}

\* The rows of draft step d: one per request, behind its context of n[r] tokens.
DraftBatch(n, d, pad) ==
  LET k == Cardinality(InBatch)
      nth(i) == Nth(InBatch, i - 1)
  IN  [i \in 1 .. k + pad |->
         IF i <= k THEN Token(nth(i), n[nth(i)] + d - 1) ELSE Token(nth(1), NoPosition)]

BeginDraft(n, d) ==
  \E pad \in 0 .. 1 :
    /\ Cardinality(InBatch) + pad <= MaxRows
    /\ BeginForward(DraftBatch(n, d, pad))
    /\ draft' = d

\* The end of the step.  What it leaves in the buffers is no longer told apart.
EndStep ==
  /\ step' = "idle"
  /\ draft' = 0
  /\ rows' = <<>> /\ partial' = <<>> /\ out' = <<>>
  /\ topk' = [i \in 1 .. MaxRows |-> Garbage]
  /\ chosen' = [r \in Request |-> <<>>]

\* Slip: the first rows of the buffer stay what they are.
CompactFirstRows(kept) == topk

\* compact_topk_indices: row i of the buffer becomes the selection of the last
\* accepted row of the batch's i-th request.
Compact(kept) ==
  LET k == Cardinality(InBatch)
      nth(i) == Nth(InBatch, i - 1)
      first(r) == CHOOSE i \in RowsOf(r) : \A j \in RowsOf(r) : i <= j
  IN  [i \in 1 .. MaxRows |->
         IF i <= k THEN topk[first(nth(i)) + kept[nth(i)] - 1] ELSE topk[i]]

\* A token that was rejected, or a draft whose step is over, is nobody's token
\* any more: what is left of it in the cache counts as garbage from here on.
Forget(n) ==
  LET kept(e) == IF e = Garbage \/ e.pos >= n[e.req] THEN Garbage ELSE e
  IN  /\ data' = [p \in Pages |-> [t \in DOMAIN data[p] |-> kept(data[p][t])]]
      /\ scale' = [p \in Pages |-> [c \in DOMAIN scale[p] |-> kept(scale[p][c])]]

Sample ==
  /\ step = "done" /\ draft = 0
  /\ \E kept \in [InBatch -> 1 .. MaxChunk] :
       LET after == [r \in Request |-> context[r] + IF r \in InBatch THEN kept[r] ELSE 0]
       IN  /\ \A r \in InBatch : kept[r] \in Acceptable(Cardinality(RowsOf(r)))
           /\ context' = after
           /\ Forget(after)
           /\ IF NumDrafts = 0 THEN EndStep
              ELSE /\ BeginDraft(after, 1)
                   /\ topk' = Compact(kept)
                   /\ UNCHANGED chosen
  /\ UNCHANGED table

NextDraft ==
  /\ step = "done" /\ draft > 0
  /\ IF draft = NumDrafts THEN EndStep /\ Forget(context)
     ELSE /\ BeginDraft(context, draft + 1)
          /\ UNCHANGED <<topk, chosen, cache>>
  /\ UNCHANGED <<table, context>>

Next ==
  \/ \E r \in Request : Admit(r) \/ Release(r)
  \/ Schedule
  \/ Select
  \/ UpdateCache
  \/ \E s \in 0 .. NumSplits(NumRows) - 1 : RunSplit(s)
  \/ EndAttend
  \/ Merge
  \/ Sample
  \/ NextDraft

Spec == Init /\ [][Next]_vars

-----------------------------------------------------------------------------
(* Properties. *)

Tokens == [req : Request, pos : 0 .. MaxLen + NumDrafts]

\* The types of all variables (the class attributes of qsa.py).
TypeOK ==
  /\ table \in [Request -> [0 .. Width - 1 -> Pages \union {NoPage}]]
  /\ context \in [Request -> 0 .. MaxLen]
  /\ data \in [Pages -> [0 .. PageSize - 1 -> Tokens \union {Garbage}]]
  /\ \A p \in Pages : \A c \in DOMAIN scale[p] : scale[p][c] \in Tokens \union {Garbage}
  /\ step \in {"idle", "select", "update", "attend", "merge", "done"}
  /\ draft \in 0 .. NumDrafts
  /\ \A i \in DOMAIN rows : rows[i] \in Tokens \union [req : Request, pos : {NoPosition}]
  /\ Len(rows) <= MaxRows /\ Len(out) = Len(rows) /\ Len(partial) = Len(rows)

\* The positions a row has to attend to: what its own row selected, on a later
\* draft step what the request's last accepted row did.
SelectedFor(i) ==
  LET r == rows[i].req
  IN  IF draft = 0 THEN chosen[r][rows[i].pos] ELSE chosen[r][context[r] - 1]

\* A finished row of the output weighs each selected token of its own request
\* once, with its own block scales, and nothing else, whatever the padding rows
\* of the batch find in the buffer (qsa_sparse_paged_attention,
\* compact_topk_indices).
AttendsItsSelection ==
  step = "done" =>
    \A i \in Real :
      /\ {o.entry : o \in out[i]} = {{Token(rows[i].req, p)} : p \in SelectedFor(i)}
      /\ Cardinality(out[i]) = Cardinality(SelectedFor(i))

\* Between steps every accepted token is in the cache whole, whatever drafts
\* were written over it and whoever had the page before (do_kv_cache_update).
CacheHoldsContext ==
  Idle => \A r \in Request : \A p \in 0 .. context[r] - 1 :
            Decoded(PageOf(r, p), p % PageSize) = {Token(r, p)}

=============================================================================
