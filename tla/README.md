# TLA+ models of gb10-llm-docker-recipes

The repository holds recipes that serve large language models on one GB10 box,
the patches to vLLM one of them needs, and the tools that benchmark the servers.
This directory models the parts of it that keep state across steps, processes or
restarts, checks them with TLC and proves the central results with TLAPS.

Run it from this directory:

    tlc -workers 2 -config MCQSARing.cfg MCQSARing
    tlapm QSARing_proofs.tla

## 1. The system

Paths below are relative to `src/`. `patches/` stands for
`qwen3.8-flash-next/patches/`, `overlays/` for `patches/upstream-overlays/` and
`suite/` for `benchmark-tools/openai-compatible-suite/`.

| Component | Source | State it keeps | Operations | Model |
| --- | --- | --- | --- | --- |
| KV-cache block size | `overlays/platforms_interface.py` 588-982 | block and page sizes of the cache configuration | pick a block, align hybrid and skip layers | `CacheSizes` |
| QSA ring capacity | `patches/qsa_cache.py` `get_kv_cache_spec` | none after the start | round up, search a divisor | `QSACapacity` |
| QSA ring and compressed index cache | `patches/qsa_cache.py`, `overlays/ops_qsa.py` | per request: a ring of raw index keys, and one compressed row per complete group | pool the groups a chunk completes, commit the chunk's keys, read the visible rows | `QSARing`, `QSAContext` |
| QSA step metadata | `patches/qsa_cache.py` `build_qsa_metadata_triton`, `_torch` | persistent buffers of the builder | one kernel launch per step | `QSAMetadata` |
| QSA sparse attention, attention layer | `overlays/ops_qsa.py`, `overlays/qsa.py` | pages of keys and values with their scales, the selection buffer | select, update the cache, split-K attention, merge | `QSAAttention` |
| MTP draft, reduced vocabulary | `patches/mtp_draft_vocab.py` | the drafter's kept selection | keep the last accepted rows, reuse them | `QSAAttention` (the selection) |
| PLE short convolution | `overlays/ops_ple.py`, `patches/ple_layer.py` | per request: a window of the last inputs | prefill, decode and speculative launch, write back | `PLEConv` |
| N-gram embedding ids | `overlays/ops_ple.py`, `patches/ple_layer.py`, `patches/model_state.py` | the tokens before a chunk | lay out the hash, prepare the context, hash n-grams to rows | `NGram`, `PLELookup` |
| PLE table | `patches/ple_layer.py` `load_weights`, `patches/ple_mmap.py` | the rows in memory, on disk or in a slice per rank | load rows and hash buffers, check, read the slice, look up over the ranks | `PLETable`, `PLELookup` |
| PLE staged lookup | `patches/model_state.py`, `ple_layer.py`, `ple_mmap.py` | pinned buffers, GPU staging buffers | stage rows or zeros, gather with a thread pool, forward | `PLEStaging` |
| Throughput matrix | `suite/scripts/run_perf.py` | `run_config.json`, a file per cell, two aggregates | start, resume, measure, store, rebuild, validate | `RunPerf` |
| Capability pipeline | `suite/run_all.sh` and the scripts it runs | a run directory that invocations share | one stage after another | `Capability` |
| ModelOpt overlay | `overlays/modelopt.py` | none of its own | weight loading | no |
| Launch recipes | four `launch.sh` | container, caches | checks, downloads, `docker run` | no |
| SWE-bench harness | `benchmark-tools/swe-bench-verified/` | results, lock file | guards, run, evaluate | no |
| Probe, AIME scorer, report builders | `suite/scripts/probe_endpoint.py`, `score_aime.py`, `benchmark-tools/reporting/` | none | one pass over files | no |

How they interact. At the start of the engine the platform finds one block size for
all caches (`CacheSizes`), from which the QSA layers take the rows of their ring
(`QSACapacity`), and the PLE layers load their table (`PLETable`). Then the vLLM
scheduler gives every request of a batch a chunk of rows. Before the forward the
model state prepares the context of the n-grams (`NGram`) and stages the chunk's PLE
rows (`PLEStaging`), and the metadata builders fill their buffers (`QSAMetadata`).
In the forward each PLE layer runs its convolution (`PLEConv`), each QSA layer pools
and commits its index keys (`QSARing`), selects positions, updates its cache and
attends to the selection (`QSAAttention`). When the batch is sampled a suffix of the
drafts of a decode step may be rejected; nothing in the caches is rolled back.

The scheduler, the KV-cache manager and the rejection sampler are vLLM's and not in
the repository: the models contain what the code in `src/` uses of them and the map
calls it external. The benchmark tools talk to the server over HTTP; what they share
among themselves is the run directory.

What is hard, and which property is about it: section 5, and line by line under
`hazards` in `PROJECT.json`.

## 2. The modules

### CacheSizes and QSACapacity

`CacheSizes` is `update_block_size_for_backend` in its three phases: `PickBlock`,
then `AlignHybrid` or `NotHybrid` (state-space pages must fit a page of attention),
then `AlignSkip`, `NoSkip` or the refusal `SkipTooSmall` (layers with larger rows).
`cfg` is what the model and the user ask for, `block_size` what the caches will be made
of, `mamba_padded` and `skip_padded` the recorded page sizes, 0 for None. `Given` is
the block size the layers are built with, against which they check their ratio.

The two alignments do not ask for the bytes of a token in the same way, so `cfg` has
several. Phase 3 takes the page as the backend customizes it (`page`, and `skipPage`
for the skip layers). Phase 2 does so only for plain attention; MLA, TurboQuant and
nvfp4 that the backend does not customize have the page `special`, and TurboQuant with
skip layers the least common multiple of `special` and the raw page of a skip layer
(`HybridPage`). Where the numbers come from (heads, types, packing) is abstracted: every
combination is an input.

The module extends `QSACapacity`: the result is the manager's block size of
`get_kv_cache_spec`, modelled there statement by statement with the loop as the
action `Advance`. Its result in turn is what `QSARing` assumes of `C`
(`CapacityAssumption`).

### QSARing

`committed[r]` are the keys of accepted tokens, `rows[r]` those of the step being
computed, `ring[b]` the rows of a ring block, `pooled[r][g]` the compressed row of
a group, `todo[r]` the work items of the step.

| Action | Code |
| --- | --- |
| `Admit`, `Release`, `Schedule` | KV-cache manager and scheduler (external). Blocks are never cleared |
| `RunItem` | one work item: `PoolItem` (`_compress_qsa_groups_kernel`), and for item zero `CommitRows` (`_store_qsa_rows_kernel` with the slots of `circular_qsa_slot_mapping`) |
| `Accept` | the sampler keeps a prefix of a decode step's rows (external) |

A key is a model value. A pooled row is the function from its members to their
keys, so "the right average" is "the right members". The mean, the norm and the
rotary position are left out. A chunk of the prompt may be longer than the ring and
complete several groups: then a request has several items, and those that run after
item zero find the ring overwritten.

`QSAContext` is what the cache promises: a query sees the groups of its whole
context, pooled afresh. `ImplementsContext` is the refinement, with the view of a
finished step as the mapping. The proofs are in `QSARing_proofs`.

### QSAMetadata

The kernel's programs are the action `RunProgram`; each writes one tile of tokens
and one tile of work items over whatever the buffer held. `LastStarting` is the
search by descending powers of two with the code's number of steps. The second
half of the module is the fallback on whole tensors, written from
`_build_qsa_metadata_torch` and not from the kernel. The main cache's slot mapping is
vLLM's; what is used of it is that it gives every row of the step a slot of its own.

### QSAAttention

One layer over `data` and `scale`, the two regions of its packed pages, for the
target model's forward and for the drafter's steps. A step runs in the order of the
code: `Select` writes the rows' positions to `topk`, `UpdateCache` stores the rows,
`RunSplit` is the programs of one split of the split-K kernel, for all rows and heads:
programs of different rows or heads read nothing that one of them writes, so they are
one action, and the splits come in any order. `EndAttend` and `Merge` are the second
kernel. A program's result is the set of cache entries it weighed, tagged by column, so
an entry weighed twice shows. After
`Sample` the drafter keeps the row of each request's last accepted token (`Compact`)
and later draft steps reuse it (`NextDraft`). `ScaleCoord` is the permuted place of a
block scale.

A padding row is what the metadata makes of it: it names the first request and has no
position (`Batch`, `DraftBatch`). The mask of the kernel does not know it, so it
attends to whatever its row of the buffer holds, in the pages of the first request; the
model has it do so, and the properties ask for the other rows.

### PLEConv

`state[s]` is a slot of the convolution state, wider by the drafts than the
window a row needs. `accepted[r]` is `num_accepted_tokens`. `Launch` starts the
step, `ConvRow` is a program of a prefill or speculative launch, `WriteBack` the
second launch, which begins when all rows of the request have run (`StoreInputs` is
what it stores), `Decode` a program that reads and updates in one. A row's result is
the tuple of inputs it read (`taps`).

### NGram, PLETable and PLELookup

`NGram`: `all[r]` are a request's token ids with the drafts the last step left there,
`computed[r]` how many of them are accepted. `Prepare` is the model state's
`prepare_inputs`: it packs the batch and copies each request's last tokens to
`context`. `RunTile` is one program of the fused kernel, `Finish` the acceptance of
a prefix. What is hashed is kept apart from the hash: `window[t]` is the token and its
predecessors up to an end of text. `Search` and `Walk` are the two loops of the kernel,
step by step (`Halve`, `Predecessor`); `FallbackWindow` is the branch without the kernel.

The hash exists twice as well. `KernelIds` mixes all terms for every head, those beyond
its order as 0, and corrects the machine's remainder where it is negative; `TorchIds`
mixes the terms of each order and takes a remainder with the sign of the divisor. Both
work in words (`Wrap`): products may leave them. The exclusive or is the constant `Mix`,
which TLC gets from `Bitwise`; all that is asked of it is that it stays within a word
and that 0 changes nothing. What they hash with are three buffers: `ComputedBuffers` is
what `Qwen4ExpNGramEmbedding.__init__` makes of the layout (`Size`, `Offset`,
`Multiplier`), and a checkpoint may have others.

`PLETable`: each rank goes through the shards of a checkpoint (`LoadShard`,
`EndVisit`) and the buffers of the hash it may have (`LoadBuffer`: only the shape is
checked, then the buffer is replaced), in the modes `vram`, `disk` and `resident`; `ReadSlice` is one
`preadv` of the resident slice, which may return less than asked; `Serve` is the
lookup summed over the ranks. A row is its number in the checkpoint. Damaged
checkpoints lack a shard, have one twice, or have other sizes, of rows or of a buffer.

`PLELookup` composes them: first the table is loaded, then steps compute ids, with
what load_weights left in the buffers, whose rows it serves. `TokensGetTheirRows` asks for the
right row where the buffers give each head a part of the table (`Laid`), as the computed
offsets and sizes do: nothing in the code checks that of a checkpoint's.

### PLEStaging

Host thread (`Begin` to `Forward`), reader pool (`ReadRow`, `ShortRead`), GPU
(`Gpu` runs the oldest operation of the stream). An asynchronous copy reads the
pinned buffer only when the GPU gets to it. `FetchIds` waits for the stream,
because `ids.to("cpu")` is a blocking copy behind all that was enqueued.

### RunPerf

Every file is written beside its place and renamed (`atomic_json`), so storing a
cell is one action and the two aggregates are two more. `Crash` is possible at
every point; `Start` takes any configuration; `Quarantine` is what the error
message asks the operator to do.

### Capability

`run_all.sh` as a program counter over its stages, with the sub-scripts' exits as
they are under `set -e` or without it. `run_gpqa.sh` can also be started alone.
Files only accumulate: lm-eval adds a results and a samples file per run. A scorer may
refuse the files it finds for their number (`Scorable`) or for what their lines are
(`sound`, chosen at each run of it). The GPQA scorer writes three files at its end, one
after the other; the model keeps the one with the score.

## 3. The runs

| Run | Bounds | Shows |
| --- | --- | --- |
| `qsa_ring` | 2 requests, 2 blocks, R 2, K 1, C 2 = R + K - 1, chunks up to 4, 5 tokens | blocks change hands while the other request computes, a draft is rejected at every offset of a group, chunks of twice the ring complete two groups, the two items of a request and those of two requests interleave, and the least capacity of the assumption is enough; refinement of `QSAContext` |
| `qsa_sizes` | user, preferred and kernel blocks to 8, plain attention, TurboQuant and nvfp4 with pages to 3 bytes a token and skip layers to 5, states to 24, MLA with states of 300, all modes, ratios to 4, 0, 1, 5 and 9 drafts, at most 48 rows; and the sizes that give the model's block of 3232 tokens | each alignment with and without the other, the page of phase 2 below, at and above that of phase 3, exact fits, all residues of span and block size, including those where the search cannot end |
| `qsa_metadata` | 3 requests, up to 4 rows each after up to 3, a ring of 3 rows, ratios 2 and 3, tiles of 4 and 3 entries | requests without rows, padding, several programs in any order, groups open across steps |
| `qsa_attention` | 2 requests, 4 pages of 4 rows, 2 pages each, a selection of 3, 2 draft steps, three launch profiles | pages change hands, padding rows over what the buffer held, splits with short tiles, batches of both profiles, rejected drafts in the cache, a reused selection |
| `ple_conv` | 2 requests, 2 slots, 1 padding row, 2 taps two apart, 1 draft, chunks of 2, 4 tokens | launches of two requests interleave; slots change hands; every number of accepted drafts; more tokens than a slot holds |
| `ple_lookup` | 2 requests of up to 4 tokens, context 2, 2 drafts, tiles of 2; words of 9 bits; 3 parts, 2 ranks, 3 modes, whole and damaged checkpoints, without hash buffers, with all three of another layout, and with one of another shape | ranks that begin inside a shard, short reads, chunks shorter than the context, end of text at every place, rejected drafts, products that leave the word and negative hashes |
| `ple_staging` | 2 layers, 3 steps of up to 2 rows, jobs of 1 row | a third step reuses what the first left; a pinned buffer grows |
| `run_perf` | 3 cells, 2 configurations, 2 crashes, 2 invalid cells | all crash points, resume with another configuration |
| `capability` | 2 tasks and GPQA, 2 invocations | every stage of both invocations failing or not, each scorer on a single file too |

The checkpoints of `ple_lookup` are all cut as a writer cuts a table (`AsWritten`),
with parts lost, doubled or of another size or width.

Bounds that only limit the exploration: `MaxLen`, `MaxTokens`, `MaxSteps`, `MaxRuns`,
`MaxCrashes`, `MaxBad`, `MaxCapacity`, `MaxSeq`, `MaxPrompt`, `MaxStep`, `MaxRows`,
`MaxPadding` and the `Max...` of `QSAMetadata` (`MaxChunk` and `MaxLen` of `QSARing`
are also limits of the engine). The instances are small because every safety property
a passing run checks is also proved for all constants (section 6);
two requests that interleave, one wrap of the ring or slot and one change of owner are
what the runs need to reach every action in every order. Keys are interchangeable, so
are requests, blocks, slots and pages: three runs use that symmetry; none of them
checks liveness. Two keys suffice to tell a right row from a wrong one, since a run
tries every assignment. In `qsa_attention` and `ple_lookup` every token is its own
value, so no assignment has to be tried.

`CHECK_DEADLOCK FALSE` stands where the system stops: sizes are found once, a metadata
launch ends, invocations are bounded.

Three runs expect a violation. Each states what the repository says of the code:

* `run_perf_aggregates`: the README wants invalid cells moved away "rather than
  silently mixing" them into the aggregates; `run_perf.py` rebuilds the aggregates
  before it validates the new cell.
* `capability_capped`: `postprocess_capability.sh` scores GPQA again "so
  capped/null/empty GPQA outputs are forced incorrect"; the scorer reads
  `strict_audit.json`, the audit writes `capability_output_audit.json`, and a failing
  audit ends the script before it gets there.
* `capability_rerun`: "Rerun scripts/run_gpqa.sh with the same RUN_DIR after access is
  granted"; the scorer refuses a directory with the results of any other task.

Four properties leave out cases the code does not cover, and say so: a state-space page
that fits exactly where larger skip layers follow is not adjusted, and attention whose
own page is not the one phase 3 counts with is not brought to its page (`PagesUnify`); a
table of which more than one part is not full is refused although it is whole
(`IntactIsNotRefused`); the search for a divisor runs on for ever when the span of a ring
is larger than the block (`EndsIfSpanFits`); and offsets or sizes in a checkpoint that
do not give each head a part of the table are taken as they are
(`TokensGetTheirRows`).

## 4. Fairness

* `CacheSizes`, `QSACapacity`: the start-up code runs on (weak fairness of the next
  step). One thread, no waits.
* `PLEStaging`: the host thread, the pool and the GPU each keep going (weak
  fairness of each). They are scheduled by the operating system and the device,
  independently. Nothing makes a read fail or a new step begin.
* `RunPerf`: a started process runs on (weak). The operator is assumed to move the
  cell that the message names (strong, because a process may be started in
  between, over and over, with a wrong configuration) and to start again with the
  saved configuration (strong, for the same reason). Crashes and invalid
  measurements are finitely many by their bounds; without that no matrix need
  ever end.
* `Capability`: the running script goes on (weak fairness of its stages). Every
  command it waits for has a timeout or is local.

The other modules have safety properties only.

## 5. What could go wrong, and what is checked

* The alignments leave a block size the ratio does not divide, although it divides what
  the backend asks for, or pages of two sizes: `RatioStillDivides`, `PagesUnify`.
* The search for the rows of a ring goes past the divisors of the block:
  `EndsIfSpanFits`, `SmallestDivisor`. When the span of a ring is larger than the block
  there is no divisor to find and the engine hangs at start: no property says that this
  does not happen, since nothing in the code prevents it. With ratio 4 and a block of
  3232 tokens it is far away.
* Rejected drafts overwrite a committed key: `RingKeepsOpenGroup`, `SpanFits`.
* Groups pooled from rows of another request, of a rejected draft or of the wrong
  step, and work items that run after the ring was overwritten:
  `QueriesSeeTrueGroups`, `CommittedGroupsAreFinal`, `ImplementsContext`.
* Metadata buffers too small, tiles without a program, two rows in one slot:
  `EveryItemOnce`, `AgreesWithFallback`, `SlotsAreDistinct`.
* A position weighed twice, not at all, from another request's page, with a
  neighbour's scale, or by a stale selection: `AttendsItsSelection`. The cache no
  longer the request's own text: `CacheHoldsContext`.
* Convolution state off by the rejected drafts, read after it was overwritten,
  inherited from a former owner, or written by padding: `StateHoldsLastInputs`,
  `RowsSeeTheirHistory`, `OthersKeepTheirState`.
* N-grams over the wrong tokens at the edge of a chunk, over rejected drafts or over
  another request's text, and a kernel that differs from its fallback in what it hashes
  or, when products leave the word, in the ids: `WindowsAreOfTheText`, `AgreesWithTorch`.
* A row of the table in the wrong place after slicing, partial reads or the sum over
  ranks, or another head's row after a hash turned negative or the checkpoint replaced the
  buffers: `TokensGetTheirRows`. A whole checkpoint refused: `IntactIsNotRefused`.
* The host reads the next step's rows into a buffer whose copy is still queued, an
  error of a reader gets lost: `NoReadOverQueuedCopy`, `ForwardSeesItsRows`,
  `ShortReadEndsEngine`, `StepsAreComputed`.
* Crashes and resumes lose, repeat or mix cells: `FinishedMatrixIsWhole`,
  `OneConfiguration`, `ValidCellsAreKept`, `MatrixIsFinished`.
* An exit status of 0 over unusable scores, or a stage's failure that keeps the
  performance run away: `CleanExitIsReportable`, `PerfIsReached`.

Every property has a mutant: an operator marked `Slip` stands before the definition
it changes, and with it in its place TLC finds the property violated.

## 6. What is proved

Nothing is assumed but the named assumptions of the modules, which TLC evaluates.
The proofs of a component are in the module of its name with `_proofs`, those of
`PLEStaging`, `PLETable`, `NGram` and `PLELookup` in `PLELayer_proofs`, those of
`RunPerf` and `Capability` in `BenchmarkSuite_proofs`. What they share is in `Arithmetic`: quotients and remainders of `\div` and `%`, least elements,
ascending functions (a value lies in exactly one step of them), and that a function
defined by recursion on `0 .. n` exists and takes its steps (`Iterates`,
`PartialSums`, `SumFacts`). The library states induction over an operator, which no
installed prover can instantiate; `LeastElement` and `ClosedUpwards` state it over a
set, from the well-foundedness of `<`, and carry every induction here.

**The ring.** `QSARing_proofs`, for every set of requests, blocks and keys and every
ratio, number of drafts and capacity with `C >= R` and `C + 1 >= R + K`
(`CapacityAssumption`): `TypeCorrect`, `RingSafety` (`RingKeepsOpenGroup`),
`QuerySafety` (`QueriesSeeTrueGroups`) and `GroupsAreFinal`
(`CommittedGroupsAreFinal`). Except for the types, none is inductive. The invariant
adds what a step in progress owes to the next one: which items are left, that blocks
are not shared, that the open group is in the ring until item zero has run and
afterwards for every acceptable number of rows, and that each complete group of the
context is in the compressed cache or is one an item still has to pool. The step of
`CommitRows` needs that two positions less than `C` apart have different slots, and
that of `PoolItem` that the groups a chunk completes are numbered without a gap.

`Refinement` (`ImplementsContext`) follows from the same invariant. When the last item of a request has run, the groups its queries may select
are pooled and true (`FinishedGroups`), so its view is the promised one
(`ViewsAreTrue`). Hence the last item of a request is `Attend` of `QSAContext`, every
other item and `Admit` are stutters, and `Schedule`, `Accept` and `Release` map to
their counterparts, one lemma each.

**The sizes.** `CacheSizes_proofs`, for every block size, ratio and number of
drafts: `CapacitySuffices` (`SpanFits`, what the ring assumes) and
`CapacityIsSmallestDivisor` (`SmallestDivisor`); for all page, kernel, state and
chunk sizes: `RatioSafety` (`RatioStillDivides`), `OnePageSize` (`PagesUnify`) and
`SizesTypes` (`SizesTypeOK`). The two alignments size a token by rules of their own in all of them. The invariant
`Aligned` says phase by phase which numbers divide the block and which page holds which:
the state is padded to the page of phase 2 first, to that of phase 3 if larger skip
layers follow, and either is a whole number of every unpadded layer's pages; its hard
lemma is that the least common multiple
the code computes exists and is a multiple of both (well-founded choice over the
common multiples). So what the ring assumes is discharged by the code that sizes it.

**The metadata.** `QSAMetadata_proofs`, for every batch, ratio, ring, storage block
and tile: `KernelIsFallback` (`AgreesWithFallback`), `ItemsOnce` (`EveryItemOnce`),
`NoSharedSlot` (`SlotsAreDistinct`) and `MetadataTypes` (`TypeOK`). The invariant
`MetaInv` says which tiles hold the kernel's entries and which what was there before;
it is inductive because a program writes its own tile and the batch does not change,
whatever the order. The rest is about the entries. `SearchFacts` takes the search step
by step: after step `k` no start at or below `x` is further than the powers that
are left, so the last candidate is the last start (`OwnerFound`: the owner, for the
tokens and for the work items). `WorkFits` sums, request by request, that
`ratio` times the items is at most the rows plus `ratio - 1` a request, which is
the size of the buffer; `NeededAreCounted` that the groups a chunk completes are as
many as the kernel counts; `RingSlots` and `CompressedSlots` that a slot determines
its row.

**The attention.** `QSAAttention_proofs`, for any pages, heads, rows, splits, tiles,
drafts and selection width: `AttentionIsOfTheSelection` (`AttendsItsSelection`),
`ContextInCache` (`CacheHoldsContext`), `AttentionTypes` (`TypeOK`) and the invariant
behind them, `AttentionInvariance`. All of them are about batches with any number of
padding rows that name the first request. `AttentionInv` adds that no page has two owners
(`PagesApart`), that the batch holds the positions behind each context, or the one
position of a draft step, once (`Batched`), that each row's selection is in its row of
the buffer from `Select` to the last draft step (`Selected`), that the context, and
behind `UpdateCache` the batch's own rows, are in the pages with their scales
(`Stored`), and that a split that has run left, for each row with a position, what it was
to weigh (`Weighed`). The hard lemmas: the splits of
a launch partition the tiles, the tiles the columns of the selection, and the
permutation of the scales within four rows is one.

**The convolution.** `PLEConv_proofs`, for any taps, dilation, drafts, requests and
slots, and any order of programs: `RowSafety` (`RowsSeeTheirHistory`), `StateSafety`
(`StateHoldsLastInputs`), `Isolation` (`OthersKeepTheirState`) and `ConvTypes`
(`TypeOK`). The invariant `ConvInv` adds who owns a slot, which launch a row may take
(`Routes`), that the slot of a request whose step is running still holds the inputs
its rows have yet to read (`Kept`), and that after the write back it holds them for
every number of drafts that may be accepted (`Stored`).

**The table.** `PLELayer_proofs`, for any number of rows, parts, ranks, shards,
visits and reads: `IntactSafety` (`IntactIsNotRefused`), `ServedRows` and the
invariant behind them, `TableInvariance`. `ServedRows` states `RowsAreTheTables` of
`PLETable`: once every rank is loaded, each lookup returns the row asked for, in all
three modes, of any checkpoint that is cut as the writer cuts a table (`AsWritten`:
parts of one size, whatever the size, the last with rows may be smaller; doubled parts
are allowed, and so are lost ones but in the mode `vram`, which assumes that vLLM found
every file). Checkpoints that do not fit otherwise are excluded by the checks
of `load_weights` and of the reader, not by a hypothesis. `TableInv` adds that the shards a rank has passed
are as `load_weights` expects, and in the mode `vram` every row they have is in the
weight as some shard has it (`Loaded`), that a table is open only on shards that fit
(`TablesOpen`), and that a slab is a beginning of the rank's range (`SlabsAreRows`).
The hard lemmas: shards that can be opened are each part once and their sizes add up
to full parts and one last (`PartsOnce`, `EvenSum`), so `divmod` by the rows of part 0
finds row `k` at `k` (`DiskRowIs`); the parts `load_weights` expects cover the rows
(`PartOfRow`); each row has one owner among the ranks (`OwnerOfRow`).

**The ids.** `PLELayer_proofs`, for any number of requests, context length, chunks,
drafts, padding, tiles and order of the programs: `KernelAgreesWithTorch`
(`AgreesWithTorch`), `WindowsSafety` (`WindowsAreOfTheText`) and the invariant behind
them, `NGramInvariance`. `KernelAgreesWithTorch` also has the ids themselves, with any
buffers of positive sizes. `NGramInv` says what a step in progress rests on: texts hold
tokens, the batch is one that `Prepare` makes and its rows fit behind the accepted
tokens, and a window that has been written is the kernel's. The rest is about the
batch. A token has one owner (`OnlyOwner`); the kernel's search finds it because each
halving keeps the last start at or below the token between its bounds, and
`bit_length` steps leave nothing between them (`BitLengthFacts`, `HalveFacts`,
`OwnerOwns`), requests without rows and padding included; the fallback's count finds
the same (`FallbackOwns`). `Nearest` is what both should read: the token so many places
back in the step or in the context, or the end of text if one lies between. The
kernel's walk reads it (`KernelIs`), so does the fallback's running maximum
(`FallbackIs`), and in the whole text of the request it is the same token
(`ReferenceIs`).

**The lookup.** `RowsOfTheText` (`TokensGetTheirRows`) joins table and ids: all ranks hash with the same buffers, and what is
added for a token is the row of the checkpoint at the hash of the token's own text, in
the part of its head and in no other, for any buffers that give each head a part. That a
rank's buffers are the computed ones with those of the checkpoint it has come to in
their place is part of `TableInv` (`BuffersAreLoaded`), so ready ranks agree; the
computed parts follow each other (`OffsetFacts`, `OwnIsLaid`). No bound on products is
used: the kernel's remainder, corrected, is the one of the sign of the divisor for every
word (`RemainderIs`), and terms beyond a head's order change nothing (`MixesIs`), so
kernel and fallback hash alike (`BuffersHash`, also in `KernelAgreesWithTorch`).
`LookupInv` adds that the engine takes no
step before the table is served, and that a served table is the identity. Like
`LookupTypeCorrect` (`LTypeOK`), the theorem starts from a checkpoint that is
`AsWritten`, the hypothesis inside `RowsAreTheTables`: with any other files a part
without rows might be opened as part 0, and the places of the rows would have no
meaning. Two assumptions carry it, `PrimesAssumption` (the search for a prime ends,
which number theory promises and the prover does not know) and that the exclusive or
of two words is a word, and that of a word and 0 is the word.

**The staging.** `PLELayer_proofs`, for any number of layers, rows, jobs and steps:
`ForwardSafety` (`ForwardSeesItsRows`), `BufferSafety` (`NoReadOverQueuedCopy`) and
`StagingTypes` (`TypeOK`). The property speaks of what the GPU has done, the host only
enqueues; the invariant bridges them. `Covered` says that when the GPU comes to a
position of the stream a layer is staged for a step: either an operation before that
position writes the row, or the row is in place and nothing before it writes for
another step. It holds at each queued forward (`Staged`), because steps are queued in
order (`Ordered`) and a queued copy's buffer is not touched (`Quiet`: no job exists
while anything is queued). One lemma enqueues (`Enqueue`), one takes an operation off
the stream (`PopCovered`).

**The matrix.** `BenchmarkSuite_proofs`, for any number of cells, configurations, crashes
and bad measurements: `WholeMatrix` (`FinishedMatrixIsWhole`), `SingleConfiguration`
(`OneConfiguration`), `CellsAreKept` (`ValidCellsAreKept`) and `MatrixTypes`
(`TypeOK`). The invariant `MatrixInv` adds what a running process knows: its
configuration is the saved one, and the cells below the one it works on are valid.

**The capability stages.** `BenchmarkSuite_proofs`, for any candidates and number of
invocations: `ExitIsHonest` (`CleanExitIsReportable`), `CapabilityTypeCorrect`
(`CTypeOK`) and the invariant behind them, `CapabilityInvariance`. `CapabilityInv`
adds what each stage has established as long as none has failed (`Scored`: AIME
scored before the audit, all files audited before GPQA is scored again), that no task
has more files than there were invocations and one less while it is still to run
(`Counted`, `Due`), and which stages a run of GPQA alone goes through (`Staged`).

Only model-checked: `EndsIfSpanFits`, `ShortReadEndsEngine`, `StepsAreComputed`,
`MatrixIsFinished` and `PerfIsReached`. They are promises that something happens, and
the prover has no rules for fairness and `ENABLED`.

## 7. Not modelled

* Floating-point results, norms, rotary positions, activations and quantised values;
  block sizes and masks where they only select the elements a model quantifies over;
  upstream vLLM, and so what it does with the sizes `CacheSizes` leaves in the
  cache configuration and with weights that never come.
* `overlays/modelopt.py`: an upstream file with a few lines changed. It dispatches on
  configuration names and loads weights, without state of its own.
* `overlays/platforms_interface.py` outside the three phases: device queries and
  defaults.
* The drafter's reduced head: a slice of a matrix product and an arg max, and the
  renaming of weights.
* The decode metadata of `qsa_cache.py` after line 690: a schedule for the kernels of
  a library.
* The launch recipes and the SWE-bench scripts: sequential, each step a check of files
  or an external command; their locks and renames are the shell's and the file
  system's.
* The probe, the AIME scorer and the report builders: one pass over files, no state.

## 8. Plan

1. Done: sizes, ring, metadata, attention, convolution, ids, table, staging,
   throughput matrix and capability pipeline; proofs of the ring, of its refinement,
   of the sizes, of the metadata, of the attention, of the convolution, of the ids, of
   the table and the lookup, of the staging, of the matrix and of the capability
   stages.
2. An abstract specification of the lookup (a function from text to rows) that
   `PLELookup` implements.
3. The encoding cache of `launch.sh` under two launches and a kill.
