------------------------------ MODULE MCQSARing ------------------------------
\* QSARing for TLC: the keys and the requests are interchangeable.
EXTENDS QSARing, TLC

MCSymmetry == Permutations(Req) \union Permutations(Block) \union Permutations(Key)
=============================================================================
