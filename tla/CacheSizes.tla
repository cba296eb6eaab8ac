----------------------------- MODULE CacheSizes -----------------------------
(***************************************************************************)
(* How the block size of the KV-cache manager is found                     *)
(* (update_block_size_for_backend and its two alignments in                *)
(* patches/upstream-overlays/platforms_interface.py), and what the QSA     *)
(* ring makes of it (QSACapacity).                                         *)
(*                                                                         *)
(* Layers share one pool of blocks, so their pages must have one size.     *)
(* Each of the two alignments asks for the bytes of a token by a rule of   *)
(* its own: phase 3 takes the page the backend customizes, phase 2 has     *)
(* branches for MLA, for TurboQuant and for nvfp4 that is not customized.  *)
(* The model's layers are there already when the block size is changed:    *)
(* they have checked the old one against their compression ratio.          *)
(* 0 stands for None.                                                      *)
(***************************************************************************)
EXTENDS QSACapacity

CONSTANTS
  DefaultBlock,  \* CacheConfig.DEFAULT_BLOCK_SIZE
  Configs        \* models, backends and what the user asked for

\* user, preferred  --block-size and the backend's choice, in tokens
\* kernel           smallest block its kernels support
\* indexer          multiple a sparse indexer needs
\* kind             attention with a page rule of its own in phase 2, or "plain"
\* page, skipPage   bytes of a token as the backend customizes it: in a layer,
\*                  and in a skip layer (0: there are none)
\* special          bytes of a token in a layer that is not plain
\* rawSkip          bytes of a token in a skip layer, not customized
\* mamba            largest page of a state-space layer (0: there are none)
\* mode, chunk      mamba_cache_mode, and the state-space kernels' chunk
Config == [user : Nat, preferred : Nat \ {0}, kernel : Nat \ {0}, indexer : Nat,
           kind : {"plain", "mla", "turboquant", "nvfp4"},
           page : Nat \ {0}, skipPage : Nat, special : Nat \ {0},
           rawSkip : Nat \ {0}, mamba : Nat,
           mode : {"none", "align", "all"}, chunk : Nat \ {0}]

ASSUME SizesAssumption ==
  /\ DefaultBlock \in Nat \ {0}
  /\ Configs \subseteq Config

VARIABLES
  cfg,
  mamba_block,   \* cache_config.mamba_block_size
  mamba_padded,  \* cache_config.mamba_page_size_padded
  skip_padded    \* cache_config.skip_page_size_padded

sizing == <<cfg, mamba_block, mamba_padded, skip_padded>>
svars == <<vars, sizing>>

Larger(a, b) == IF a > b THEN a ELSE b
RoundTo(a, n) == a * Cdiv(n, a)

\* The least common multiple.
Lcm(a, b) == CHOOSE n \in 1 .. a * b :
  /\ n % a = 0 /\ n % b = 0
  /\ \A k \in 1 .. n - 1 : k % a # 0 \/ k % b # 0

\* The block size the layers are built with.
Given(c) == IF c.user = 0 THEN DefaultBlock ELSE c.user

SizesInit ==
  /\ cfg \in Configs
  /\ block_size = Given(cfg)
  /\ compress_ratio \in Ratios
  /\ num_spec \in Drafts
  /\ block_size % compress_ratio = 0
  /\ capacity = 0
  /\ pc = "pick"
  /\ mamba_block = 0 /\ mamba_padded = 0 /\ skip_padded = 0

\* Phase 1.
PickBlock ==
  /\ pc = "pick"
  /\ block_size' = IF cfg.user = 0 THEN cfg.preferred ELSE block_size
  /\ pc' = "hybrid"
  /\ UNCHANGED <<compress_ratio, num_spec, capacity, sizing>>

\* The granularity of both alignments.
Alignment == Larger(cfg.kernel, block_size)

\* Slip: the larger of TurboQuant's page and the skip layers'.
HybridPageMax(c) ==
  CASE c.kind = "plain" -> c.page
    [] c.kind = "turboquant" /\ c.skipPage > 0 -> Larger(c.special, c.rawSkip)
    [] OTHER -> c.special

\* _align_hybrid_block_size: the bytes of a token.  TurboQuant's layers and skip
\* layers keep their own pages, so a page of both is sized for.
HybridPage(c) ==
  CASE c.kind = "plain" -> c.page
    [] c.kind = "turboquant" /\ c.skipPage > 0 -> Lcm(c.special, c.rawSkip)
    [] OTHER -> c.special

\* MLA kernels split a block into whole parts of 128 tokens.
MlaAlignment == 128
HybridAlignment == IF cfg.kind = "mla" THEN Larger(Alignment, MlaAlignment) ELSE Alignment

\* Slip: whole chunks of the state-space kernels, aligned to nothing else.
HybridBlockOfChunks == RoundTo(cfg.chunk, Cdiv(cfg.mamba, HybridPage(cfg)))

\* A block whose attention page holds a state.
HybridBlock ==
  IF cfg.mode = "all"
  THEN RoundTo(Lcm(cfg.chunk, HybridAlignment), Cdiv(cfg.mamba, HybridPage(cfg)))
  ELSE LET block == HybridAlignment * Cdiv(cfg.mamba, HybridAlignment * HybridPage(cfg))
       IN  IF cfg.indexer = 0 THEN block ELSE RoundTo(cfg.indexer, block)

\* A page that is a state's already is not padded.
MambaPadded(page) == IF page = cfg.mamba THEN mamba_padded ELSE page

\* Phase 2.
AlignHybrid ==
  /\ pc = "hybrid" /\ cfg.mamba > 0
  /\ block_size' = Larger(block_size, HybridBlock)
  /\ mamba_block' = CASE cfg.mode = "all" -> HybridBlock
                      [] cfg.mode = "align" -> block_size'
                      [] OTHER -> mamba_block
  /\ mamba_padded' = MambaPadded(block_size' * HybridPage(cfg))
  /\ pc' = "skip"
  /\ UNCHANGED <<compress_ratio, num_spec, capacity, cfg, skip_padded>>

NotHybrid ==
  /\ pc = "hybrid" /\ cfg.mamba = 0
  /\ pc' = "skip"
  /\ UNCHANGED <<block_size, compress_ratio, num_spec, capacity, sizing>>

\* _align_heterogeneous_kv_block_size refuses skip layers of smaller pages.
SkipTooSmall ==
  /\ pc = "skip" /\ 0 < cfg.skipPage /\ cfg.skipPage < cfg.page
  /\ pc' = "failed"
  /\ UNCHANGED <<block_size, compress_ratio, num_spec, capacity, sizing>>

\* A block whose page holds a kernel block of a skip layer and the padded state.
PrimaryBlock ==
  RoundTo(Alignment * cfg.page, Larger(cfg.skipPage * cfg.kernel, mamba_padded)) \div cfg.page


\* Phase 3.
AlignSkip ==
  /\ pc = "skip" /\ cfg.skipPage > cfg.page
  /\ block_size' = Larger(block_size, PrimaryBlock)
  /\ skip_padded' = block_size' * cfg.page
  /\ mamba_padded' = IF mamba_padded = 0 THEN 0 ELSE block_size' * cfg.page
  /\ pc' = "span"
  /\ UNCHANGED <<compress_ratio, num_spec, capacity, cfg, mamba_block>>

\* No skip layers, or their pages are the primary ones.
NoSkip ==
  /\ pc = "skip" /\ cfg.skipPage \in {0, cfg.page}
  /\ pc' = "span"
  /\ UNCHANGED <<block_size, compress_ratio, num_spec, capacity, sizing>>

SizesNext ==
  \/ PickBlock
  \/ AlignHybrid
  \/ NotHybrid
  \/ SkipTooSmall
  \/ AlignSkip
  \/ NoSkip
  \/ Next /\ UNCHANGED sizing

SizesSpec == SizesInit /\ [][SizesNext]_svars /\ WF_svars(SizesNext)

-----------------------------------------------------------------------------
(* Properties. *)

\* The sizes are numbers, the block of the caches a positive one.
SizesTypeOK ==
  /\ cfg \in Configs
  /\ block_size \in Nat \ {0}
  /\ compress_ratio \in Ratios
  /\ num_spec \in Drafts
  /\ capacity \in Nat
  /\ {mamba_block, mamba_padded, skip_padded} \subseteq Nat
  /\ pc \in {"pick", "hybrid", "skip", "failed", "span", "loop", "done"}

Sized == pc \in {"span", "loop", "done"}

\* Phase 3 found the block, and not phase 2.
SkipAligned(c) == c.skipPage > c.page

\* The page the pool is cut into: by the rule of the phase that came last.
SharedPage == block_size * (IF SkipAligned(cfg) THEN cfg.page ELSE HybridPage(cfg))

\* Bytes of a token in the layers that are not padded.
Own(c) == IF c.kind = "plain" THEN c.page ELSE c.special
OwnPages(c) ==
  {Own(c)} \union
    (IF c.kind = "turboquant" /\ c.skipPage = c.page THEN {c.rawSkip} ELSE {})

\* A state that fitted its page exactly in phase 2 has no padding that phase 3
\* could adjust.
Exact == cfg.mamba > 0 /\ mamba_padded = 0

(***************************************************************************)
(* When the sizes are found, although the two alignments size a token by   *)
(* different rules: the states and the skip layers are padded to one page  *)
(* that holds what they store, and the pages of the attention layers go    *)
(* into it a whole number of times, so that they unify by scaling the      *)
(* block (the last lines of the two alignments, and "lcm, not max",        *)
(* platforms_interface.py:848-850).  Two cases are left out where skip     *)
(* layers of larger pages follow: a state that fitted exactly, which has   *)
(* no padding for phase 3 to adjust, and attention whose own page is not   *)
(* the one phase 3 counts with.                                            *)
(***************************************************************************)
PagesUnify ==
  Sized =>
    /\ cfg.mamba > 0 /\ ~(Exact /\ SkipAligned(cfg)) =>
         /\ cfg.mamba <= SharedPage
         /\ mamba_padded = SharedPage \/ (Exact /\ cfg.mamba = SharedPage)
    /\ SkipAligned(cfg) =>
         /\ skip_padded = SharedPage
         /\ cfg.skipPage * cfg.kernel <= SharedPage
    /\ (IF SkipAligned(cfg) THEN Own(cfg) = cfg.page ELSE cfg.mamba > 0) =>
         \A page \in OwnPages(cfg) : SharedPage % (block_size * page) = 0

Asks(c) ==
  {c.preferred, c.kernel, c.indexer} \union (IF c.kind = "mla" THEN {MlaAlignment} ELSE {})

(***************************************************************************)
(* The layers checked their ratio against the block size they were built   *)
(* with; it still divides the one their caches are made of, if it divides  *)
(* what the backend asks for: its choice, its kernels' block, the          *)
(* indexer's multiple and MLA's (_QSAStateCache.__init__ and               *)
(* update_block_size_for_backend).                                         *)
(***************************************************************************)
RatioStillDivides ==
  Sized /\ (\A a \in Asks(cfg) : a % compress_ratio = 0) => block_size % compress_ratio = 0
=============================================================================
