---------------------------- MODULE MCQSAMetadata ----------------------------
\* QSAMetadata for TLC: a ring, and compressed caches of two ratios.
EXTENDS QSAMetadata
MCBuilders ==
  {[ratio |-> 1, circular |-> 3, storage |-> 3, columns |-> 1],
   [ratio |-> 2, circular |-> 0, storage |-> 2, columns |-> 2],
   [ratio |-> 3, circular |-> 0, storage |-> 1, columns |-> 3]}
=============================================================================
