---------------------------- MODULE MCCacheSizes ----------------------------
\* CacheSizes for TLC: small pages, attention of every kind, and the sizes that
\* give the model's block.
EXTENDS CacheSizes

MCBlockSizes == 1 .. 3232

Plain ==
  [user : {0, 3, 8}, preferred : {2, 4}, kernel : {2, 4}, indexer : {0, 8},
   kind : {"plain"}, page : {1, 2}, skipPage : {0, 1, 5}, special : {1},
   rawSkip : {1}, mamba : {0, 4, 9, 23}, mode : {"none", "align", "all"}, chunk : {3}]

\* The page of phase 2 below, at and above the one of phase 3.
Kinds ==
  [user : {0, 3}, preferred : {4}, kernel : {2}, indexer : {0, 8},
   kind : {"turboquant", "nvfp4"}, page : {1, 2}, skipPage : {0, 2, 5},
   special : {1, 2, 3}, rawSkip : {2, 4}, mamba : {0, 9, 24},
   mode : {"none", "align", "all"}, chunk : {3}]

Mla ==
  [user : {0}, preferred : {4}, kernel : {4}, indexer : {0}, kind : {"mla"},
   page : {2}, skipPage : {0, 5}, special : {1, 3}, rawSkip : {1},
   mamba : {0, 300}, mode : {"none", "all"}, chunk : {3}]

Model ==
  [user : {0}, preferred : {16}, kernel : {16}, indexer : {0}, kind : {"plain"},
   page : {2}, skipPage : {0, 7}, special : {1}, rawSkip : {1}, mamba : {6450},
   mode : {"none", "align"}, chunk : {64}]

MCConfigs == Plain \union Kinds \union Mla \union Model
=============================================================================
