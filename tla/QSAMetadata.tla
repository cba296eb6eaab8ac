----------------------------- MODULE QSAMetadata -----------------------------
(***************************************************************************)
(* The per-step metadata of a QSA side cache (patches/qsa_cache.py): which *)
(* request a token belongs to, its position, the compressed rows it may    *)
(* see, its slot, and the work items of the index-key compressor.          *)
(*                                                                         *)
(* One kernel launch writes all of it.  Its programs run in any order and  *)
(* each writes one tile of tokens and one tile of work items into buffers  *)
(* that still hold what an earlier step left.  A builder belongs to one    *)
(* cache: the ring (Circular > 0) or the compressed rows (Ratio # 1).      *)
(* _build_qsa_metadata_torch computes the same from whole tensors.         *)
(***************************************************************************)
EXTENDS Integers

CONSTANTS
  MaxReqs,    \* max_num_seqs
  MaxQuery,   \* rows of one request in a step, for TLC
  MaxStart,   \* computed tokens of a request, for TLC
  MaxPad,     \* padding tokens after the mapped ones, for TLC
  Builders,   \* builders: [ratio, circular, storage, columns]
  TokenTile,  \* TOKEN_BLOCK_SIZE
  WorkTile,   \* WORK_BLOCK_SIZE
  Stale       \* what a buffer entry held before the launch

ASSUME TilesAssumption ==
  /\ MaxReqs \in Nat \ {0} /\ TokenTile \in Nat \ {0} /\ WorkTile \in Nat \ {0}
  /\ MaxQuery \in Nat /\ MaxStart \in Nat /\ MaxPad \in Nat
  /\ \A b \in Builders : /\ b.ratio \in Nat \ {0} /\ b.storage \in Nat \ {0}
                         /\ b.circular \in Nat /\ b.columns \in Nat
                         /\ b.circular > 0 => b.ratio = 1

VARIABLES
  builder, \* the cache's builder
  batch,   \* CommonAttentionMetadata of the step
  tokens,  \* tokens[t]: [req, pos, visible, slot] as written for token t
  work,    \* work[w]: k_work_metadata entry <<request, item>>
  ran      \* programs that have run

vars == <<builder, batch, tokens, work, ran>>

-----------------------------------------------------------------------------
Ratio == builder.ratio        \* compress_ratio
Circular == builder.circular  \* circular_buffer_size, 0 for the compressed cache
Storage == builder.storage    \* storage_block_size: rows of a block
Columns == builder.columns    \* columns of the block table

(* The batch: query_start_loc and seq_lens of n requests, and num_tokens.  *)

Least(a, b) == IF a < b THEN a ELSE b
Most(a, b) == IF a > b THEN a ELSE b
Cdiv(a, b) == (a + b - 1) \div b

MakeBatch(n, start, len, pad) ==
  LET loc[r \in 0 .. n] == IF r = 0 THEN 0 ELSE loc[r - 1] + len[r - 1]
  IN  [n |-> n, query_start_loc |-> loc, num_tokens |-> loc[n] + pad,
       seq_lens |-> [r \in 0 .. n - 1 |-> start[r] + len[r]]]

\* A request may have no row in a step, at the end (graph padding) or before it.
Batches ==
  UNION {{MakeBatch(n, start, len, pad) :
             start \in [0 .. n - 1 -> 0 .. MaxStart],
             len \in [0 .. n - 1 -> 0 .. MaxQuery],
             pad \in 0 .. MaxPad} : n \in 1 .. MaxReqs}

n == batch.n
Loc(r) == batch.query_start_loc[r]
SeqLen(r) == batch.seq_lens[r]
QueryLen(r) == Loc(r + 1) - Loc(r)
NumTokens == batch.num_tokens
NumMapped == Loc(n)

\* The manager's block of a request's column, and the main cache's slot mapping:
\* a slot of its own for every row.
BlockTable(r, c) ==
  IF c * Storage * Ratio < SeqLen(r) THEN 1 + r * Columns + c ELSE -1
CommonSlot(t) == IF t < NumMapped THEN t ELSE -1

BuildsWork == Circular = 0 /\ Ratio # 1

\* Slip: no room for the item of a request that completes no group.
MaxNumWorkOfTokens == IF BuildsWork THEN NumTokens \div Ratio ELSE 0

MaxNumWork == IF BuildsWork THEN (NumTokens + (Ratio - 1) * n) \div Ratio ELSE 0

Programs == 0 .. Most(Most(Cdiv(NumTokens, TokenTile), Cdiv(MaxNumWork, WorkTile)), 1) - 1

-----------------------------------------------------------------------------
(* One program of the kernel. *)

\* 1 << k
Power ==
  LET two[k \in 0 .. n] == IF k = 0 THEN 1 ELSE 2 * two[k - 1]
  IN  two

\* ceil(log2(n))
SearchSteps == CHOOSE k \in 0 .. n : Power[k] >= n /\ (k = 0 \/ Power[k - 1] < n)

\* Slip: a row at the start of a request goes to the one before it.
LastStartingBelow(starts, x) ==
  LET at[k \in 0 .. SearchSteps] ==
        IF k = 0 THEN 0
        ELSE LET candidate == at[k - 1] + Power[SearchSteps - k]
             IN  IF candidate < n /\ starts[candidate] < x
                 THEN candidate ELSE at[k - 1]
  IN  at[SearchSteps]

\* The last candidate below n whose start is at most x, by descending powers of two.
LastStarting(starts, x) ==
  LET at[k \in 0 .. SearchSteps] ==
        IF k = 0 THEN 0
        ELSE LET candidate == at[k - 1] + Power[SearchSteps - k]
             IN  IF candidate < n /\ starts[candidate] <= x
                 THEN candidate ELSE at[k - 1]
  IN  at[SearchSteps]

\* Slot of position p in the builder's cache; -1 is PAD_SLOT_ID.
CircularSlot(r, t, p) ==
  IF p >= 0 /\ t + Circular >= Loc(r + 1) /\ Columns > 0 /\ BlockTable(r, 0) >= 0
  THEN BlockTable(r, 0) * Circular + (p % Circular)
  ELSE -1

\* Slip: rows inside a group get the group's slot too.
CompressedSlotAnyRow(r, t, p) ==
  LET row == p \div Ratio
      column == row \div Storage
  IN  IF p >= 0 /\ column < Columns /\ BlockTable(r, column) >= 0 /\ CommonSlot(t) >= 0
      THEN BlockTable(r, column) * Storage + (row % Storage)
      ELSE -1

CompressedSlot(r, t, p) ==
  LET row == p \div Ratio
      column == row \div Storage
  IN  IF /\ p >= 0 /\ (p + 1) % Ratio = 0 /\ column < Columns
         /\ BlockTable(r, column) >= 0 /\ CommonSlot(t) >= 0
      THEN BlockTable(r, column) * Storage + (row % Storage)
      ELSE -1

TokenEntry(t) ==
  LET mapped == t < NumMapped
      r == LastStarting(batch.query_start_loc, Least(t, NumMapped - 1))
      p == IF mapped THEN SeqLen(r) - QueryLen(r) + t - Loc(r) ELSE -1
      seen == IF mapped THEN SeqLen(r) ELSE 0
  IN  [req |-> IF mapped THEN r ELSE 0,
       pos |-> p,
       visible |-> Most(0, Least((p + 1) \div Ratio, seen \div Ratio)),
       slot |-> IF Circular > 0 THEN IF mapped THEN CircularSlot(r, t, p) ELSE -1
                ELSE IF Ratio # 1 THEN IF mapped THEN CompressedSlot(r, t, p) ELSE -1
                ELSE CommonSlot(t)]

NumGroups(r) == SeqLen(r) \div Ratio - (SeqLen(r) - QueryLen(r)) \div Ratio

\* An item even without a completed group: item zero commits the raw keys.
WorkCount(r) == IF QueryLen(r) > 0 THEN Most(NumGroups(r), 1) ELSE 0

\* WorkStart[r]: items of the requests before r (tl.cumsum).
WorkStart ==
  LET sum[r \in 0 .. n] == IF r = 0 THEN 0 ELSE sum[r - 1] + WorkCount(r - 1)
  IN  sum

\* Slip: the search finds the first start above w and one is not subtracted.
WorkEntryAbove(w) ==
  IF w >= WorkStart[n] THEN <<-1, -1>>
  ELSE LET r == LastStarting(WorkStart, w) + 1 IN <<r, w - WorkStart[r]>>

WorkEntry(w) ==
  IF w >= WorkStart[n] THEN <<-1, -1>>
  ELSE LET r == LastStarting(WorkStart, w) IN <<r, w - WorkStart[r]>>

Init ==
  /\ builder \in Builders
  /\ batch \in Batches
  /\ tokens = [t \in 0 .. NumTokens - 1 |-> Stale]
  /\ work = [w \in 0 .. MaxNumWork - 1 |-> Stale]
  /\ ran = {}

RunProgram(pid) ==
  /\ pid \notin ran
  /\ tokens' = [t \in DOMAIN tokens |->
                  IF t \div TokenTile = pid THEN TokenEntry(t) ELSE tokens[t]]
  /\ work' = [w \in DOMAIN work |->
                IF w \div WorkTile = pid THEN WorkEntry(w) ELSE work[w]]
  /\ ran' = ran \union {pid}
  /\ UNCHANGED <<builder, batch>>

Next == \E pid \in Programs : RunProgram(pid)

Spec == Init /\ [][Next]_vars

-----------------------------------------------------------------------------
(* The fallback on whole tensors. *)

\* token_to_req_indices of the engine: the request whose rows contain t.
Owner(t) ==
  IF t >= NumMapped THEN 0
  ELSE CHOOSE r \in 0 .. n - 1 : Loc(r) <= t /\ t < Loc(r + 1)

TorchPosition(t) ==
  IF t < NumMapped THEN SeqLen(Owner(t)) - QueryLen(Owner(t)) + t - Loc(Owner(t)) ELSE -1

TorchSlot(t) ==
  LET p == TorchPosition(t)
      keep == t + Circular >= Loc(Owner(t) + 1)
  IN  IF Circular > 0 THEN IF p >= 0 /\ keep THEN CircularSlot(Owner(t), t, p) ELSE -1
      ELSE IF Ratio = 1 \/ CommonSlot(t) < 0 THEN CommonSlot(t)
      ELSE CompressedSlot(Owner(t), t, p)

TorchToken(t) ==
  [req |-> Owner(t),
   pos |-> TorchPosition(t),
   visible |-> Most(0, Least((TorchPosition(t) + 1) \div Ratio,
                             SeqLen(Owner(t)) \div Ratio)),
   slot |-> TorchSlot(t)]

\* searchsorted(k_start_loc[1:], w, right=True), where w is still active.
TorchWork(w) ==
  IF w >= WorkStart[n] THEN <<-1, -1>>
  ELSE LET r == CHOOSE r \in 0 .. n - 1 :
                  WorkStart[r + 1] > w /\ \A q \in 0 .. r - 1 : WorkStart[q + 1] <= w
       IN  <<r, w - WorkStart[r]>>

-----------------------------------------------------------------------------
Done == ran = Programs

Entry == [req : 0 .. MaxReqs - 1, pos : Int, visible : Nat, slot : Int]

\* Every buffer entry is stale, padding, or names a request and a position of the step.
TypeOK ==
  /\ \A t \in DOMAIN tokens : tokens[t] \in Entry \union {Stale}
  /\ \A w \in DOMAIN work : work[w] \in ((-1 .. MaxReqs - 1) \X Int) \union {Stale}
  /\ ran \subseteq Programs

(***************************************************************************)
(* The grid covers its buffers and both builders agree: when every program *)
(* has run, in whatever order, no entry of an earlier step is left and all *)
(* entries are those of the fallback (qsa_cache.py:410-464 and 467-565).   *)
(***************************************************************************)
AgreesWithFallback ==
  Done => /\ \A t \in DOMAIN tokens : tokens[t] = TorchToken(t)
          /\ \A w \in DOMAIN work : work[w] = TorchWork(w)

ChunkStart(r) == SeqLen(r) - QueryLen(r)

NeededItems(r) ==
  {0} \union {g - ChunkStart(r) \div Ratio :
               g \in {k \in 0 .. SeqLen(r) : (k + 1) * Ratio \in ChunkStart(r) + 1 .. SeqLen(r)}}

(***************************************************************************)
(* The buffer of (tokens + (ratio - 1) * requests) \div ratio entries is   *)
(* never too small: every group whose last row is in the step, and item    *)
(* zero of every request with rows, is listed exactly once, and nothing    *)
(* else is.                                                                *)
(***************************************************************************)
EveryItemOnce ==
  Done /\ BuildsWork =>
    LET active == {w \in DOMAIN work : work[w][1] >= 0}
    IN  /\ {work[w] : w \in active} =
             UNION {{r} \X NeededItems(r) : r \in {q \in 0 .. n - 1 : QueryLen(q) > 0}}
        /\ \A v, w \in active : v # w => work[v] # work[w]

Stored(t) == tokens[t] # Stale /\ tokens[t].slot >= 0

(***************************************************************************)
(* Two rows of a step never go to one slot, so the parallel stores do not  *)
(* race: not when a chunk is longer than its ring, and not when requests   *)
(* end in the same program's tile.                                         *)
(***************************************************************************)
SlotsAreDistinct ==
  \A s, t \in DOMAIN tokens :
    s # t /\ Stored(s) /\ Stored(t) => tokens[s].slot # tokens[t].slot

=============================================================================
