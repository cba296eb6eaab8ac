------------------------------- MODULE PLETable -------------------------------
(***************************************************************************)
(* The table of a PLE layer from the checkpoint to a lookup: load_weights  *)
(* and its three ways to keep the rows (patches/ple_layer.py), and the     *)
(* reader of the checkpoint's shards (patches/ple_mmap.py).                *)
(*                                                                         *)
(*   vram      every tensor-parallel rank copies its range of rows from    *)
(*             the shards into its embedding weight;                       *)
(*   disk      no rank has any row, each reads the files (PLEMmapTable);   *)
(*   resident  every rank reads its range from the files into one slab.    *)
(*                                                                         *)
(* The shards are checked one by one as load_weights comes to them, and    *)
(* the files' headers all together when a table is opened.  load_weights   *)
(* may be visited several times, with a part of the checkpoint each.  The  *)
(* checkpoint may also have the buffers of the hash: they replace those    *)
(* the layer has computed, whatever they say, if only their shape fits.    *)
(*                                                                         *)
(* A row is its number in the table the checkpoint was written from.  The  *)
(* writer's entry "first" is known to no reader.                           *)
(***************************************************************************)
EXTENDS Integers, Sequences, FiniteSets

CONSTANTS
  VocabRows,    \* org_vocab_size of the embedding
  Parts,        \* split_ngram_parts
  NumRanks,     \* tensor-parallel size
  Width,        \* embedding_dim
  ReadRows,     \* chunk_rows of read_rows_contiguous
  SliceRows,    \* rows _ple_load_resident_slice asks for at a time
  Checkpoints,  \* sequences of shards, in the order of the iterator
  HashFiles,    \* the buffers of the hash a checkpoint may have, by name
  OwnBuffers,   \* the buffers as the layer has computed them
  Modes,        \* the modes the environment may ask for
  Garbage       \* an uninitialised row, or a sum of rows

Ranks == 0 .. NumRanks - 1

\* persistent_buffers
BufferNames == {"layer_multipliers", "ngram_heads_offsets", "ngram_heads_vocab_sizes"}

\* The padding of the vocabulary and divide() of the embedding.
ASSUME TableAssumption ==
  /\ VocabRows \in Nat \ {0} /\ Parts \in Nat \ {0} /\ NumRanks \in Nat \ {0}
  /\ VocabRows % NumRanks = 0
  /\ ReadRows \in Nat \ {0} /\ SliceRows \in Nat \ {0}
  /\ Modes \subseteq {"vram", "disk", "resident"}
  /\ Checkpoints \subseteq Seq([part : Nat, first : Nat, rows : Nat, width : Nat])
  /\ DOMAIN OwnBuffers = BufferNames /\ OwnBuffers = [n \in BufferNames |-> OwnBuffers[n]]
  /\ \A n \in BufferNames : OwnBuffers[n] \in [DOMAIN OwnBuffers[n] -> Int]
  /\ \A f \in HashFiles :
       /\ DOMAIN f \subseteq BufferNames /\ f = [n \in DOMAIN f |-> f[n]]
       /\ \A n \in DOMAIN f : f[n] \in [DOMAIN f[n] -> Int]
  /\ Garbage \notin Int

VARIABLES
  mode,    \* QWEN4EXP_PLE_MMAP, QWEN4EXP_PLE_RESIDENT
  ckpt,    \* the shards of the checkpoint
  phase,   \* phase[r]: "weights", "slice", "ready" or "refused"; "serving" at last
  next,    \* next[r]: the shard load_weights comes to
  hash,    \* the buffers of the hash the checkpoint has
  left,    \* left[r]: the names of those load_weights has still to come to
  buffers, \* buffers[r]: the buffers of the rank
  weight,  \* weight[r][i]: row i of the rank's embedding weight
  table,   \* table[r][p]: shard p as the reader opened it, <<>> before
  slab,    \* slab[r]: _ple_resident as far as it is read
  served   \* served[i]: what a lookup of row i returns

tvars == <<mode, ckpt, phase, next, hash, left, buffers, weight, table, slab, served>>

-----------------------------------------------------------------------------
(* Geometry. *)

Least(a, b) == IF a < b THEN a ELSE b
Most(a, b) == IF a > b THEN a ELSE b

\* The embedding's split over the ranks.
RankRows == VocabRows \div NumRanks
Start(r) == r * RankRows

\* load_weights' idea of the checkpoint's split: shard_size, checkpoint_start,
\* expected_rows.
PartSize == (VocabRows + Parts - 1) \div Parts
PartStart(p) == p * PartSize

\* Slip: the last part is expected to be full.
PartRowsFull(p) == PartSize
PartRows(p) == Most(0, Least(PartSize, VocabRows - PartStart(p)))

\* Every part is there.  Were one missing, the vram mode would serve rows nobody
\* has written: load_weights checks only what comes.  That is left to vLLM's check
\* of the index against the files.
Complete(c) == \A p \in 0 .. Parts - 1 : \E i \in 1 .. Len(c) : c[i].part = p

TInit ==
  /\ mode \in Modes
  /\ ckpt \in Checkpoints
  /\ mode = "vram" => Complete(ckpt)
  /\ phase = [r \in Ranks |-> "weights"]
  /\ next = [r \in Ranks |-> 1]
  /\ hash \in HashFiles
  /\ left = [r \in Ranks |-> DOMAIN hash]
  /\ buffers = [r \in Ranks |-> OwnBuffers]
  /\ weight = [r \in Ranks |-> [i \in 0 .. RankRows - 1 |-> Garbage]]
  /\ table = [r \in Ranks |-> <<>>]
  /\ slab = [r \in Ranks |-> <<>>]
  /\ served = <<>>

-----------------------------------------------------------------------------
(* load_weights. *)

Expected(e) == e.part < Parts /\ e.rows = PartRows(e.part) /\ e.width = Width

\* weight_loader with checkpoint_start: the rows of shard e the rank has.
Copied(r, e, old) ==
  [i \in DOMAIN old |->
     LET k == Start(r) + i - PartStart(e.part)
     IN  IF k >= 0 /\ k < e.rows THEN e.first + k ELSE old[i]]

LoadShard(r) ==
  /\ phase[r] = "weights" /\ next[r] <= Len(ckpt)
  /\ LET e == ckpt[next[r]]
     IN  \/ /\ ~Expected(e)
            /\ phase' = [phase EXCEPT ![r] = "refused"]
            /\ UNCHANGED <<next, weight>>
         \/ /\ Expected(e)
            /\ next' = [next EXCEPT ![r] = @ + 1]
            /\ weight' = IF mode = "vram" THEN [weight EXCEPT ![r] = Copied(r, e, @)]
                         ELSE weight
            /\ UNCHANGED phase
  /\ UNCHANGED <<mode, ckpt, hash, left, buffers, table, slab, served>>

\* A buffer of the checkpoint, before, between or behind the shards.  Nothing but
\* its shape is checked.
LoadBuffer(r) ==
  /\ phase[r] = "weights"
  /\ \E n \in left[r] :
       \/ /\ DOMAIN hash[n] # DOMAIN buffers[r][n]
          /\ phase' = [phase EXCEPT ![r] = "refused"]
          /\ UNCHANGED <<left, buffers>>
       \/ /\ DOMAIN hash[n] = DOMAIN buffers[r][n]
          /\ buffers' = [buffers EXCEPT ![r][n] = hash[n]]
          /\ left' = [left EXCEPT ![r] = @ \ {n}]
          /\ UNCHANGED phase
  /\ UNCHANGED <<mode, ckpt, next, hash, weight, table, slab, served>>

\* What PLEMmapTable.__init__ and _ple_mmap_table want of the headers.
NumShards == Len(ckpt)
RowsUpTo[i \in 0 .. NumShards] == IF i = 0 THEN 0 ELSE RowsUpTo[i - 1] + ckpt[i].rows
SumOfRows == RowsUpTo[NumShards]
Openable ==
  /\ NumShards > 0
  /\ {ckpt[i].part : i \in 1 .. NumShards} = 0 .. NumShards - 1
  /\ \A i, j \in 1 .. NumShards :
       /\ ckpt[i].width = ckpt[j].width
       /\ ckpt[i].part < NumShards - 1 /\ ckpt[j].part = 0 => ckpt[i].rows = ckpt[j].rows
  /\ SumOfRows = VocabRows

Opened ==
  [p \in 0 .. NumShards - 1 |-> ckpt[CHOOSE i \in 1 .. NumShards : ckpt[i].part = p]]

\* Where the rank is when a visit is over.
After(r) == IF next[r] > Len(ckpt) /\ left[r] = {} THEN "ready" ELSE "weights"

\* The end of a visit, which may have brought nothing but entries load_weights
\* skips.  Table and slab are made once.
EndVisit(r) ==
  /\ phase[r] = "weights"
  /\ IF mode = "vram"
     THEN phase' = [phase EXCEPT ![r] = After(r)] /\ UNCHANGED table
     ELSE IF table[r] = <<>> /\ ~Openable
     THEN phase' = [phase EXCEPT ![r] = "refused"] /\ UNCHANGED table
     ELSE /\ table' = [table EXCEPT ![r] = Opened]
          /\ phase' = [phase EXCEPT ![r] =
               IF mode = "resident" /\ slab[r] = <<>> THEN "slice" ELSE After(r)]
  /\ UNCHANGED <<mode, ckpt, next, hash, left, buffers, weight, slab, served>>

\* Row i of the files, as divmod finds it.
ShardRows(r) == table[r][0].rows
DiskRow(r, i) ==
  LET s == i \div ShardRows(r)
      l == i % ShardRows(r)
  IN  IF s \in DOMAIN table[r] /\ l < table[r][s].rows THEN table[r][s].first + l ELSE Garbage

\* Slip: the slice is read in whole chunks.
WantWholeChunk(r) ==
  LET row == Start(r) + Len(slab[r])
  IN  Least(ReadRows, ShardRows(r) - (row % ShardRows(r)))

\* The rows a read asks for: no more than a chunk, the slice, the rank's range and
\* the shard have left.
Want(r) ==
  LET done == Len(slab[r])
      row == Start(r) + done
      asked == Least(SliceRows - (done % SliceRows), RankRows - done)
  IN  Least(Least(ReadRows, asked), ShardRows(r) - (row % ShardRows(r)))

\* The slice after a preadv that returned got rows, which may be fewer than it
\* was asked for.
SliceAfter(r, got) ==
  LET row == Start(r) + Len(slab[r])
  IN  slab[r] \o [k \in 1 .. got |-> DiskRow(r, row + k - 1)]

ReadSlice(r) ==
  /\ phase[r] = "slice"
  /\ \E got \in 1 .. Want(r) :
       /\ slab' = [slab EXCEPT ![r] = SliceAfter(r, got)]
       /\ phase' = [phase EXCEPT ![r] =
            IF Len(slab[r]) + got >= RankRows THEN After(r) ELSE "slice"]
  /\ UNCHANGED <<mode, ckpt, next, hash, left, buffers, weight, table, served>>

-----------------------------------------------------------------------------
(* Lookup. *)


\* What rank r adds to the sum over the ranks for row i: nothing when the row is
\* not in its range.
Share(r, i) ==
  LET local == i - Start(r)
  IN  IF mode = "vram"
      THEN IF local >= 0 /\ local < RankRows THEN {weight[r][local]} ELSE {}
      ELSE IF local >= 0 /\ local < Len(slab[r]) THEN {slab[r][local + 1]} ELSE {}

Lookup(i) ==
  IF mode = "disk"
  THEN LET rows == {DiskRow(r, i) : r \in Ranks}
       IN  IF Cardinality(rows) = 1 THEN CHOOSE x \in rows : TRUE ELSE Garbage
  ELSE LET owners == {r \in Ranks : Share(r, i) # {}}
       IN  IF Cardinality(owners) = 1 THEN CHOOSE x \in Share(CHOOSE r \in owners : TRUE, i) : TRUE
           ELSE Garbage

\* The engine starts when every rank is loaded.  How the rows are kept is not
\* told apart from here on, only what a lookup returns and what is hashed with.
Serve ==
  /\ \A r \in Ranks : phase[r] = "ready"
  /\ served' = [i \in 0 .. VocabRows - 1 |-> Lookup(i)]
  /\ phase' = [r \in Ranks |-> "serving"]
  /\ mode' = "none" /\ ckpt' = <<>> /\ hash' = <<>>
  /\ next' = [r \in Ranks |-> 1]
  /\ UNCHANGED <<left, buffers>>
  /\ weight' = [r \in Ranks |-> [i \in 0 .. RankRows - 1 |-> Garbage]]
  /\ table' = [r \in Ranks |-> <<>>]
  /\ slab' = [r \in Ranks |-> <<>>]

\* A rank that refuses the checkpoint ends the engine's start.
Refused == \E r \in Ranks : phase[r] = "refused"

TNext ==
  \/ /\ ~Refused
     /\ \/ \E r \in Ranks : LoadShard(r) \/ LoadBuffer(r) \/ EndVisit(r) \/ ReadSlice(r)
        \/ Serve
  \/ Refused /\ UNCHANGED tvars

TSpec == TInit /\ [][TNext]_tvars

-----------------------------------------------------------------------------
(* Properties. *)

RowContent == Nat \union {Garbage}

TTypeOK ==
  /\ mode \in Modes \union {"none"}
  /\ ckpt \in Checkpoints \union {<<>>}
  /\ phase \in [Ranks -> {"weights", "slice", "ready", "refused", "serving"}]
  /\ next \in [Ranks -> 1 .. Len(ckpt) + 1]
  /\ hash \in HashFiles \union {<<>>} /\ left \in [Ranks -> SUBSET DOMAIN hash]
  /\ \A r \in Ranks : /\ DOMAIN buffers[r] = BufferNames
                      /\ \A n \in BufferNames : buffers[r][n] \in [DOMAIN OwnBuffers[n] -> Int]
  /\ weight \in [Ranks -> [0 .. RankRows - 1 -> RowContent]]
  /\ \A r \in Ranks : table[r] = <<>> \/ table[r] = Opened
  /\ \A r \in Ranks : Len(slab[r]) <= RankRows /\ \A i \in DOMAIN slab[r] : slab[r][i] \in RowContent
  /\ served = <<>> \/ served \in [0 .. VocabRows - 1 -> RowContent]

Intact(c) ==
  /\ Len(c) = Parts /\ Complete(c)
  /\ \A i \in 1 .. Parts : Expected(c[i]) /\ c[i].first = PartStart(c[i].part)

\* The buffers in a checkpoint have the layer's shapes.
Fits(f) == \A n \in DOMAIN f : DOMAIN f[n] = DOMAIN OwnBuffers[n]

\* A checkpoint as the writer split it, in any order, is refused by no rank.  The
\* reader wants all parts but the last to be full, so the parts must not be more
\* than the rows need.
IntactIsNotRefused ==
  Intact(ckpt) /\ Fits(hash) /\ (Parts - 1) * PartSize <= VocabRows => ~Refused

\* The writer cuts a table into parts of one size, the last with rows may be smaller.
\* It may be another size than load_weights expects, and parts may be lost or doubled.
AsWritten(c) ==
  \E size \in Nat \ {0} : \A i \in 1 .. Len(c) :
    /\ c[i].first = c[i].part * size
    /\ c[i].rows <= size
    /\ (\E j \in 1 .. Len(c) : c[j].part > c[i].part /\ c[j].rows > 0) => c[i].rows = size

(***************************************************************************)
(* Whichever way the rows are kept and whatever number of visits, ranks    *)
(* and reads it took: when the ranks have not refused the checkpoint, a    *)
(* lookup returns the row of the table that was asked for, from the one    *)
(* rank that has it (load_weights, _ple_mmap_gather_into).                 *)
(***************************************************************************)
RowsAreTheTables ==
  [][AsWritten(ckpt) /\ Serve => served' = [i \in 0 .. VocabRows - 1 |-> i]]_tvars

=============================================================================
