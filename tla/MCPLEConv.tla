------------------------------ MODULE MCPLEConv ------------------------------
\* PLEConv for TLC: inputs, requests and slots are interchangeable.
EXTENDS PLEConv, TLC

MCSymmetry == Permutations(Req) \union Permutations(Slot) \union Permutations(Key)
=============================================================================
