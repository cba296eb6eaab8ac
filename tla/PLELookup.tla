------------------------------ MODULE PLELookup ------------------------------
(***************************************************************************)
(* A PLE layer's lookup from end to end: the table is loaded (PLETable),   *)
(* then the steps of the engine compute ids (NGram) whose rows it serves.  *)
(* The embedding has as many rows as the computed hash layout asks for.    *)
(* The ids hash with what load_weights left in the buffers.                *)
(***************************************************************************)
EXTENDS NGram, PLETable

ASSUME LookupAssumption == VocabRows = TableRows /\ OwnBuffers = ComputedBuffers

lvars == <<nvars, tvars>>

LInit == NInit /\ TInit

\* The engine takes requests when all ranks are loaded.
Load == TNext /\ UNCHANGED nvars
EngineStep == served # <<>> /\ NNext /\ UNCHANGED tvars

LNext == Load \/ EngineStep

LSpec == LInit /\ [][LNext]_lvars

-----------------------------------------------------------------------------
(* Properties. *)

\* Batch, context and slices keep their types; no slice outgrows its rank's rows.
LTypeOK == NTypeOK /\ TTypeOK

\* The heads have sizes, as any divisor must have.
Sized(b) == \A h \in HeadIds : b.ngram_heads_vocab_sizes[h] > 0

\* The kernel and the fallback compute the same ids with a rank's buffers,
\* whatever they are, for padding too: products that leave the word included
\* (_ple_ngram_ids_kernel, compute_ngram_ids).
AgreesWithTorch ==
  Computed => \A t \in DOMAIN window :
    /\ window[t] = FallbackWindow(t)
    /\ \A r \in Ranks : Sized(buffers[r]) =>
         KernelIds(buffers[r], window[t]) = TorchIds(buffers[r], FallbackWindow(t))

Part(b, h) ==
  b.ngram_heads_offsets[h] .. b.ngram_heads_offsets[h] + b.ngram_heads_vocab_sizes[h] - 1

\* The buffers give each head a part of the table of its own.
Laid(b) ==
  /\ Sized(b)
  /\ \A h \in HeadIds : /\ Part(b, h) \subseteq 0 .. VocabRows - 1
                        /\ \A g \in HeadIds \ {h} : Part(b, g) \intersect Part(b, h) = {}

(***************************************************************************)
(* The ranks hash alike, and where neither offsets nor sizes come with the *)
(* checkpoint each head has its part.  With buffers that give each head a  *)
(* part, computed or loaded, a token of a request gets for every head the  *)
(* row of the checkpoint at the hash of the token's own text, of that      *)
(* head's part: whatever leaves the word on the way, however the text was  *)
(* cut and the table loaded (Qwen4ExpNGramEmbedding.load_weights, forward).*)
(***************************************************************************)
TokensGetTheirRows ==
  Computed => \A k \in Ranks :
    LET b == buffers[k]
        own == [ComputedBuffers EXCEPT !.layer_multipliers = b.layer_multipliers]
    IN  /\ b = buffers[0]
        /\ b = own => Laid(b)
        /\ Laid(b) =>
             \A r \in Reqs : \A t \in qsl[r] .. qsl[r + 1] - 1 : \A h \in HeadIds :
               LET id == TorchIds(b, Reference(TextOf(r), computed[r] + t - qsl[r]))[h]
               IN  /\ served[KernelIds(b, window[t])[h]] = id
                   /\ id \in Part(b, h)

=============================================================================
