-------------------------------- MODULE NGram --------------------------------
(***************************************************************************)
(* The n-gram ids of a PLE layer: Qwen4ExpNGramEmbedding                   *)
(* (patches/ple_layer.py), its fused kernel (patches/upstream-overlays/    *)
(* ops_ple.py) and the context the model state prepares for it             *)
(* (patches/model_state.py).                                               *)
(*                                                                         *)
(* A token's ids hash the token and up to N tokens before it, as far as    *)
(* the last EOS.  The tokens before a chunk are in no input of the step:   *)
(* the model state copies the last N accepted ones of every request into   *)
(* ngram_context.  The kernel's programs handle BlockT tokens each and run *)
(* in any order.  In a decode step the chunk ends in drafts, of which a    *)
(* suffix may be rejected and replaced by the token the target sampled.    *)
(*                                                                         *)
(* What is hashed is kept apart from the hash: a token's window is the     *)
(* token and its N predecessors, newest first.  The hash works in machine  *)
(* words, with the buffers a rank has at that time: those __init__         *)
(* computes, or what a checkpoint put in their place.                      *)
(***************************************************************************)
EXTENDS Integers, Sequences, FiniteSets

CONSTANTS
  NumReqs,      \* requests
  N,            \* ngram_context_len, ngram_size - 1
  HeadsPer,     \* heads_per_ngram
  VocabBase,    \* ngram_vocab_size_base
  Divisor,      \* make_ngram_vocab_size_divisible_by
  DenseLayer,   \* ple_dense_layer_id
  Words,        \* the mixed words the multipliers are made of
  MaxWord,      \* (1 << 63) - 1
  Mix(_, _),    \* bitwise exclusive or
  BlockT,       \* tokens of a kernel program
  NumDrafts,    \* num_speculative_tokens
  MaxPadding,   \* padding tokens, and padding requests, of a captured batch
  MaxSeq, MaxPrompt, MaxStep

Reqs == 0 .. NumReqs - 1

\* eos_token_id.
Eos == 0

\* The token at position p of request r, as the prompt or the target has it and
\* as a draft proposes it.
Text(r, p) == 1 + 2 * (r * MaxSeq + p)
Draft(r, p) == Text(r, p) + 1

\* unigram_vocab_size.
Unigrams == 1 + 2 * NumReqs * MaxSeq

\* A signed word, and what a product or sum leaves in it.
Word == - (MaxWord + 1) .. MaxWord
Wrap(x) == ((x + MaxWord + 1) % (2 * (MaxWord + 1))) - (MaxWord + 1)

ASSUME NGramAssumption ==
  /\ NumReqs \in Nat \ {0} /\ N \in Nat \ {0} /\ HeadsPer \in Nat \ {0}
  /\ VocabBase \in Nat \ {0} /\ Divisor \in Nat \ {0} /\ DenseLayer \in Nat
  /\ Words \in [0 .. N -> Nat] /\ MaxWord \in Nat
  /\ \A a, b \in Word : Mix(a, b) \in Word
  /\ \A a \in Word : Mix(a, 0) = a
  /\ BlockT \in Nat \ {0} /\ NumDrafts \in Nat /\ MaxPadding \in Nat
  /\ MaxSeq \in Nat /\ MaxPrompt \in Nat /\ MaxStep \in Nat /\ MaxPrompt <= MaxSeq

VARIABLES
  all,       \* all_token_ids[r]: the prompt and the accepted tokens
  computed,  \* num_computed_tokens[r]
  input,     \* input_ids of the step, requests in order, then padding
  qsl,       \* query_start_loc
  context,   \* ngram_context, one row per request of the step
  window,    \* window[t]: what the kernel wrote for token t, <<>> before
  busy       \* a step is being computed

nvars == <<all, computed, input, qsl, context, window, busy>>

-----------------------------------------------------------------------------
(* Hash layout. *)

Heads == N * HeadsPer
HeadIds == 0 .. Heads - 1

\* ngram_order of a head: how many tokens it hashes.
Order(h) == h \div HeadsPer + 2

IsPrime(n) == n >= 2 /\ \A d \in 2 .. n - 1 : n % d # 0

\* The count-th prime above start.  There is one between n and 2n.
NthPrimes(start, count) ==
  {p \in start + 1 .. (start + 2) * 2 ^ count :
     IsPrime(p) /\ Cardinality({q \in start + 1 .. p : IsPrime(q)}) = count}

NthPrimeAfter(start, count) == CHOOSE p \in NthPrimes(start, count) : TRUE

\* The primes before it are the heads' of the layers before.
PrimeNumber(h) == DenseLayer * Heads + h + 1

\* The search for a prime ends.
ASSUME PrimesAssumption == \A h \in HeadIds : NthPrimes(VocabBase - 1, PrimeNumber(h)) # {}

Size == [h \in HeadIds |-> NthPrimeAfter(VocabBase - 1, PrimeNumber(h))]

Offset[h \in 0 .. Heads] == IF h = 0 THEN 0 ELSE Offset[h - 1] + Size[h - 1]

\* Rows of the table: padded_vocab_size.
TableRows == ((Offset[Heads] + Divisor - 1) \div Divisor) * Divisor

Multiplier(i) ==
  LET max == MaxWord \div Unigrams
      half == IF max \div 2 > 1 THEN max \div 2 ELSE 1
  IN  2 * (Words[i] % half) + 1

\* The buffers as __init__ computes them.
ComputedBuffers ==
  [layer_multipliers |-> [i \in 0 .. N |-> Multiplier(i)],
   ngram_heads_offsets |-> [h \in HeadIds |-> Offset[h]],
   ngram_heads_vocab_sizes |-> Size]

-----------------------------------------------------------------------------
(* The hash of a window w with buffers b. *)

\* The term of the n-th token.
Term(b, w, n) == Wrap(w[n] * b.layer_multipliers[n - 1])

\* The kernel mixes all terms for every head, those beyond its order as 0.
KernelMixed(b, w, h) ==
  LET mixed[n \in 1 .. N + 1] ==
        IF n = 1 THEN Term(b, w, 1)
        ELSE Mix(mixed[n - 1], IF Order(h) > n - 1 THEN Term(b, w, n) ELSE 0)
  IN  mixed[N + 1]

\* The remainder of the machine has the sign of x.
Rem(x, size) == IF x >= 0 THEN x % size ELSE - ((- x) % size)

\* Slip: products are taken to fit the word.
RemainderAsIs(x, size) == Rem(x, size)

\* A hash may be negative.
Remainder(x, size) == IF Rem(x, size) < 0 THEN Rem(x, size) + size ELSE Rem(x, size)

KernelIds(b, w) ==
  [h \in HeadIds |-> Remainder(KernelMixed(b, w, h), b.ngram_heads_vocab_sizes[h])
                       + b.ngram_heads_offsets[h]]

\* compute_ngram_ids mixes the terms of each order, and torch.remainder has the
\* sign of the divisor.
TorchMixed(b, w) ==
  LET mixed[n \in 1 .. N + 1] ==
        IF n = 1 THEN Term(b, w, 1) ELSE Mix(mixed[n - 1], Term(b, w, n))
  IN  mixed

TorchIds(b, w) ==
  [h \in HeadIds |-> (TorchMixed(b, w)[Order(h)] % b.ngram_heads_vocab_sizes[h])
                       + b.ngram_heads_offsets[h]]

-----------------------------------------------------------------------------
(* The step as the model state prepares it. *)

NInit ==
  /\ all = [r \in Reqs |-> <<>>]
  /\ computed = [r \in Reqs |-> 0]
  /\ input = <<>>
  /\ qsl = <<0>>
  /\ context = <<>>
  /\ window = <<>>
  /\ busy = FALSE

\* A request arrives with a prompt.  One that is done leaves its index free.
Arrive(r) ==
  /\ ~busy
  /\ all[r] = <<>>
  /\ \E len \in 1 .. MaxPrompt : \E eos \in SUBSET (1 .. len) :
       all' = [all EXCEPT ![r] = [i \in 1 .. len |-> IF i \in eos THEN Eos ELSE Text(r, i - 1)]]
  /\ UNCHANGED <<computed, input, qsl, context, window, busy>>

Leave(r) ==
  /\ ~busy
  /\ all[r] # <<>>
  /\ all' = [all EXCEPT ![r] = <<>>]
  /\ computed' = [computed EXCEPT ![r] = 0]
  /\ UNCHANGED <<input, qsl, context, window, busy>>

\* Rows a request may get: a part of its prompt, or its last token and drafts.
Chunks(r) ==
  LET left == SubSeq(all[r], computed[r] + 1, Len(all[r]))
  IN  {<<>>}
      \union {SubSeq(left, 1, n) : n \in {n \in 1 .. Len(left) : Len(all[r]) < MaxSeq}}
      \union IF Len(left) = 1 /\ Len(all[r]) + NumDrafts < MaxSeq
             THEN {left \o [i \in 1 .. NumDrafts |->
                              IF i \in eos THEN Eos ELSE Draft(r, Len(all[r]) + i - 1)] :
                     eos \in SUBSET (1 .. NumDrafts)}
             ELSE {}

\* Slip: the last tokens there are, computed or not.
ContextOfAll(r) ==
  [c \in 0 .. N - 1 |-> IF Len(all[r]) - N + c >= 0 THEN all[r][Len(all[r]) - N + c + 1] ELSE Eos]

\* The last N tokens before num_computed_tokens, EOS where there are none.
ContextOf(r) ==
  [c \in 0 .. N - 1 |->
     IF computed[r] - N + c >= 0 THEN all[r][computed[r] - N + c + 1] ELSE Eos]

\* The rows of the requests, one after the other, and where each begins.
StartsOf(chunk) ==
  LET start[r \in 0 .. NumReqs] == IF r = 0 THEN 0 ELSE start[r - 1] + Len(chunk[r - 1])
  IN  start

Flat(chunk) ==
  LET flat[r \in 0 .. NumReqs] == IF r = 0 THEN <<>> ELSE flat[r - 1] \o chunk[r - 1]
  IN  flat

\* prepare_inputs: requests of the batch in order, then padding requests without
\* rows, then padding tokens.
Prepare ==
  /\ ~busy
  /\ \E chunk \in [Reqs -> UNION {Chunks(r) : r \in Reqs}],
        reqs \in 0 .. MaxPadding, toks \in 0 .. MaxPadding :
       LET start == StartsOf(chunk)
       IN  /\ \A r \in Reqs : chunk[r] \in Chunks(r)
           /\ start[NumReqs] \in 1 .. MaxStep
           /\ input' = Flat(chunk)[NumReqs] \o [i \in 1 .. toks |-> Eos]
           /\ qsl' = [r \in 0 .. NumReqs + reqs |->
                        IF r <= NumReqs THEN start[r] ELSE start[NumReqs]]
           /\ context' = [r \in 0 .. NumReqs + reqs - 1 |->
                            IF r < NumReqs THEN ContextOf(r) ELSE [c \in 0 .. N - 1 |-> Eos]]
           /\ window' = [t \in 0 .. start[NumReqs] + toks - 1 |-> <<>>]
  /\ busy' = TRUE
  /\ UNCHANGED <<all, computed>>

StepReqs == Cardinality(DOMAIN qsl) - 1
NumTokens == Len(input)
InputAt(t) == input[t + 1]

-----------------------------------------------------------------------------
(* The kernel. *)

\* x.bit_length()
BitLength(x) ==
  LET rest[k \in 0 .. x] == IF k = 0 THEN x ELSE rest[k - 1] \div 2
  IN  CHOOSE k \in 0 .. x : rest[k] = 0 /\ \A j \in 0 .. k - 1 : rest[j] # 0

\* Slip: a bound for the requests, where it takes one for the boundaries.
SearchStepsOfRequests == BitLength(StepReqs - 1)

\* binary_search_iters
SearchSteps == BitLength(StepReqs)

\* What is between the bounds of the search is halved.  A boundary that is not
\* there reads as 0.
Halve(t, s) ==
  LET mid == (s.lo + s.hi) \div 2
  IN  IF (IF mid <= StepReqs THEN qsl[mid] ELSE 0) <= t
      THEN [lo |-> mid + 1, hi |-> s.hi]
      ELSE [lo |-> s.lo, hi |-> mid]

\* Binary search over the request boundaries.
Search(t) ==
  LET search[k \in 0 .. SearchSteps] ==
        IF k = 0 THEN [lo |-> 1, hi |-> StepReqs + 1] ELSE Halve(t, search[k - 1])
  IN  search

OwnerOf(t) ==
  LET found == Search(t)[SearchSteps].lo - 1
  IN  IF found < StepReqs - 1 THEN found ELSE StepReqs - 1

\* The token s places before token t of request r, in this step or before it.
Predecessor(r, t, s) ==
  IF t - qsl[r] >= s THEN InputAt(t - s) ELSE context[r][N - s + (t - qsl[r])]

\* Predecessors from the newest to the oldest; behind the first EOS there are
\* only EOS.
Walk(t) ==
  LET walk[s \in 0 .. N] ==
        IF s = 0 THEN [token |-> InputAt(t), crossed |-> FALSE]
        ELSE LET c == IF walk[s - 1].crossed THEN Eos ELSE Predecessor(OwnerOf(t), t, s)
             IN  [token |-> c, crossed |-> walk[s - 1].crossed \/ c = Eos]
  IN  walk

KernelWindow(t) == LET walk == Walk(t) IN [i \in 1 .. N + 1 |-> walk[i - 1].token]

RunTile(pid) ==
  LET tile == {t \in 0 .. NumTokens - 1 : t \div BlockT = pid}
  IN  /\ busy /\ tile # {}
      /\ \A t \in tile : window[t] = <<>>
      /\ window' = [t \in DOMAIN window |-> IF t \in tile THEN KernelWindow(t) ELSE window[t]]
      /\ UNCHANGED <<all, computed, input, qsl, context, busy>>

Computed == busy /\ \A t \in DOMAIN window : window[t] # <<>>

\* The sampler keeps a prefix of a decode step's drafts and appends the token it
\* sampled itself.  A part of a prompt is kept as it is.
Finish ==
  /\ Computed
  /\ \E kept \in [Reqs -> 0 .. NumDrafts], eos \in SUBSET Reqs :
       LET rowsOf(r) == SubSeq(input, qsl[r] + 1, qsl[r + 1])
           drafts(r) == computed[r] + Len(rowsOf(r)) - Len(all[r])
           samples(r) == rowsOf(r) # <<>> /\ drafts(r) >= 0
           grown(r) == all[r] \o SubSeq(rowsOf(r), 2, 1 + kept[r])
           sampled(r) == IF r \in eos THEN Eos ELSE Text(r, Len(grown(r)))
       IN  /\ \A r \in Reqs :
                /\ kept[r] = 0 \/ (samples(r) /\ kept[r] <= drafts(r))
                /\ r \in eos => samples(r)
                /\ samples(r) => Len(grown(r)) < MaxSeq
           /\ all' = [r \in Reqs |->
                        IF samples(r) THEN Append(grown(r), sampled(r)) ELSE all[r]]
           /\ computed' = [r \in Reqs |->
                             IF samples(r) THEN Len(grown(r))
                             ELSE computed[r] + Len(rowsOf(r))]
  /\ input' = <<>> /\ qsl' = <<0>> /\ context' = <<>> /\ window' = <<>>
  /\ busy' = FALSE

NNext ==
  \/ \E r \in Reqs : Arrive(r) \/ Leave(r)
  \/ Prepare
  \/ \E pid \in 0 .. NumTokens \div BlockT : RunTile(pid)
  \/ Finish

-----------------------------------------------------------------------------
(* The fallback on whole tensors, for inputs that are not on a GPU. *)

FallbackOwner(t) ==
  LET found == Cardinality({r \in DOMAIN qsl : qsl[r] <= t}) - 1
  IN  IF found < StepReqs - 1 THEN found ELSE StepReqs - 1

\* Row r of torch.cat([ngram_context, packed]).
Packed(r) ==
  [c \in 0 .. N + NumTokens - 1 |->
     IF c < N THEN context[r][c]
     ELSE LET t == qsl[r] + c - N
          IN  IF t < NumTokens /\ FallbackOwner(t) = r THEN InputAt(t) ELSE Eos]

FallbackWindow(t) ==
  LET r == FallbackOwner(t)
      row == Packed(r)
      c == t - qsl[r] + N
      before == {e \in 0 .. c - 1 : row[e] = Eos}
      previous == IF before = {} THEN -1 ELSE CHOOSE e \in before : \A f \in before : f <= e
      shifted(s) == IF s = 0 THEN row[c]
                    ELSE IF c - s >= 0 /\ c - previous - 1 >= s THEN row[c - s] ELSE Eos
  IN  [i \in 1 .. N + 1 |-> shifted(i - 1)]

-----------------------------------------------------------------------------
(* Properties. *)

\* What request r is at this step: its accepted tokens and then its rows.
TextOf(r) == SubSeq(all[r], 1, computed[r]) \o SubSeq(input, qsl[r] + 1, qsl[r + 1])

\* The window of the token at position p of a whole text: predecessors up to
\* the last EOS before it.
Reference(text, p) ==
  [i \in 1 .. N + 1 |->
     IF p - i + 1 >= 0 /\ (\A q \in p - i + 1 .. p - 1 : q >= 0 => text[q + 1] # Eos)
     THEN text[p - i + 2] ELSE Eos]

NTypeOK ==
  /\ \A r \in Reqs : /\ Len(all[r]) <= MaxSeq
                     /\ computed[r] \in 0 .. Len(all[r])
                     /\ \A i \in DOMAIN all[r] : all[r][i] \in 0 .. Unigrams - 1
  /\ \A t \in DOMAIN window : window[t] = <<>> \/ window[t] \in [1 .. N + 1 -> 0 .. Unigrams - 1]
  /\ busy \in BOOLEAN

\* Every row's window is that of its position in the whole text of its request,
\* however the text was cut into chunks and whatever drafts were rejected on the
\* way (the kernel with _prepare_ngram_context).
WindowsAreOfTheText ==
  Computed => \A r \in Reqs : \A t \in qsl[r] .. qsl[r + 1] - 1 :
                window[t] = Reference(TextOf(r), computed[r] + t - qsl[r])


=============================================================================
