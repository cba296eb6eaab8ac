----------------------------- MODULE MCPLELookup -----------------------------
EXTENDS PLELookup, SequencesExt, Bitwise

MCWords == [i \in 0 .. N |-> 1000 + 377 * i]

\* Of two's complements.
MCMix(a, b) ==
  LET m == 2 * (MaxWord + 1)
  IN  Wrap((a % m) ^^ (b % m))

MCRows == TableRows

MCOwnBuffers == ComputedBuffers

\* None; buffers of another layout, whose products leave the word; multipliers
\* of which one is missing.
MCHashFiles ==
  {<<>>,
   [layer_multipliers |-> [i \in 0 .. N |-> 211 - 60 * i],
    ngram_heads_offsets |-> [h \in HeadIds |-> IF h = 0 THEN 10 ELSE 0],
    ngram_heads_vocab_sizes |-> [h \in HeadIds |-> IF h = 0 THEN 4 ELSE 9]],
   [layer_multipliers |-> [i \in 0 .. N - 1 |-> 5]]}

\* A table of the given rows in parts of the given size.
Written(rows, size, parts, width) ==
  [i \in 1 .. parts |->
     [part |-> i - 1, first |-> (i - 1) * size,
      rows |-> Most(0, Least(size, rows - (i - 1) * size)), width |-> width]]

\* Whole, in another order, with a part lost, doubled or of another width, and
\* the whole of tables written with other sizes.
MCCheckpoints ==
  LET size == (TableRows + Parts - 1) \div Parts
      whole == Written(TableRows, size, Parts, Width)
  IN  {whole, Reverse(whole)}
        \union {RemoveAt(whole, i) : i \in 1 .. Parts}
        \union {Append(whole, whole[i]) : i \in 1 .. Parts}
        \union {[whole EXCEPT ![i].width = 2 * Width] : i \in 1 .. Parts}
        \union {Written(TableRows + d, size, Parts, Width) : d \in {-1, 1}}
        \union {Written(TableRows, size + 1, Parts, Width), Written(TableRows, size, Parts + 1, Width)}
=============================================================================
