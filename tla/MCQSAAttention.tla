--------------------------- MODULE MCQSAAttention ---------------------------
EXTENDS QSAAttention, TLC

\* The profiles of qsa_sparse_paged_attention, scaled down: two with splits, and
\* a wide one that writes its output directly.
MCProfiles == <<[upto |-> 1, tile |-> 1, splits |-> 4],
                [upto |-> 2, tile |-> 1, splits |-> 2],
                [upto |-> 9, tile |-> 4, splits |-> 1]>>

MCSymmetry == Permutations(Pages)
=============================================================================
