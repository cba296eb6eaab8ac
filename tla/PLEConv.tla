------------------------------- MODULE PLEConv -------------------------------
(***************************************************************************)
(* The dilated short convolution of a PLE layer and its per-request state  *)
(* (ple_conv and its two kernels in patches/upstream-overlays/ops_ple.py,  *)
(* routed by Qwen4ExpPLELayer in patches/ple_layer.py).                    *)
(*                                                                         *)
(* A row's output needs Taps inputs, Dilation positions apart.  The last   *)
(* StateLen inputs of a request are kept in a state slot.  A speculative   *)
(* step writes its drafts into the slot before it is known how many are    *)
(* accepted; nothing is rolled back: the slot is Drafts entries wider and  *)
(* the next step reads it at the offset of the last accepted token.        *)
(*                                                                         *)
(* Programs of one launch run in any order.  Prompt chunks and speculative *)
(* steps write the state in a second launch; a decode step has one program *)
(* per row, which updates the state itself.                                *)
(***************************************************************************)
EXTENDS Integers, Sequences, FiniteSetsExt

CONSTANTS
  Req,        \* requests
  Pad,        \* rows that only fill a captured graph: they have no state slot
  Slot,       \* state slots, handed out by the KV-cache manager
  NullSlot,   \* NULL_BLOCK_ID: "no slot", and the slot such rows are given
  Key,        \* inputs of the convolution
  Zero,       \* the input before a request's first token
  Stale,      \* what a slot held before anything was stored
  Taps,       \* conv_kernel_size
  Dilation,   \* short_conv_dilation
  Drafts,     \* num_spec_tokens
  MaxChunk,   \* rows of a request in a step
  MaxTokens   \* tokens of all requests together, for TLC

ASSUME ConvAssumption ==
  /\ Taps \in Nat \ {0} /\ Dilation \in Nat \ {0}
  /\ Drafts \in Nat /\ MaxChunk \in Nat \ {0} /\ MaxTokens \in Nat
  /\ NullSlot \notin Slot /\ Req \intersect Pad = {}
  /\ {Zero, Stale} \intersect Key = {} /\ Zero # Stale

VARIABLES
  committed,  \* committed[r]: inputs of the accepted tokens
  rows,       \* rows[r]: inputs of the step being computed, <<>> between steps
  running,    \* the batch is complete and its launches run
  mode,       \* mode[r]: the request's launch in this step, or its last one
  accepted,   \* accepted[r]: num_accepted_tokens of the request's last step
  slot,       \* slot[r]: state index
  state,      \* state[s][w]: the cache
  taps,       \* taps[r][j]: the inputs row j was computed from
  pending     \* requests whose state is still to be written in this step

vars == <<committed, rows, running, mode, accepted, slot, state, taps, pending>>

-----------------------------------------------------------------------------
Owner == Req \union Pad
StateLen == (Taps - 1) * Dilation
Width == StateLen + Drafts
Window == 0 .. Width - 1
Value == Key \union {Zero, Stale}
Mode == {"prefill", "decode", "spec"}

NotRun == <<>>

Init ==
  /\ committed = [r \in Owner |-> <<>>]
  /\ rows = [r \in Owner |-> <<>>]
  /\ running = FALSE
  /\ mode = [r \in Owner |-> "prefill"]
  /\ accepted = [r \in Owner |-> 1]
  /\ slot = [r \in Owner |-> NullSlot]
  /\ state = [s \in Slot \union {NullSlot} |-> [w \in Window |-> Stale]]
  /\ taps = [r \in Owner |-> <<>>]
  /\ pending = {}

Idle == ~ running /\ pending = {}

\* The manager gives a request a slot; nobody clears it.
Admit(r, s) ==
  /\ Idle
  /\ slot[r] = NullSlot
  /\ \A q \in Req : slot[q] # s
  /\ slot' = [slot EXCEPT ![r] = s]
  /\ UNCHANGED <<committed, rows, running, mode, accepted, state, taps, pending>>

\* How the engine's metadata routes n rows of a request: a request that has
\* begun to speculate stays in the speculative launch.
Routed(r, n, m) ==
  /\ m = "decode" => n = 1
  /\ m = "spec" => n <= Drafts + 1 /\ (r \in Req => committed[r] # <<>>)
  /\ r \in Pad => pending \intersect Req # {} /\ m # "prefill" /\ n = 1
  /\ r \in Req => slot[r] # NullSlot /\ (mode[r] = "spec" => m = "spec")

Chunks == UNION {[1 .. n -> Key] : n \in 1 .. MaxChunk}

Tokens == MapThenSumSet(LAMBDA r : Len(committed[r]) + Len(rows[r]), Owner)

\* The scheduler adds a request's rows to the batch; Launch runs the batch.
Schedule(r, chunk, m) ==
  /\ ~ running
  /\ rows[r] = <<>>
  /\ Routed(r, Len(chunk), m)
  /\ Tokens + Len(chunk) <= MaxTokens
  /\ rows' = [rows EXCEPT ![r] = chunk]
  /\ mode' = [mode EXCEPT ![r] = m]
  /\ taps' = [taps EXCEPT ![r] = [j \in 1 .. Len(chunk) |-> NotRun]]
  /\ pending' = pending \union {r}
  /\ UNCHANGED <<committed, running, accepted, slot, state>>

Launch ==
  /\ ~ running
  /\ pending \intersect Req # {}
  /\ running' = TRUE
  /\ UNCHANGED <<committed, rows, mode, accepted, slot, state, taps, pending>>

-----------------------------------------------------------------------------
(* The output kernel. *)

\* Slip: rows without a slot are not masked.
HasSlotAlways(r) == TRUE

HasSlot(r) == slot[r] # NullSlot
HasInitial(r) == committed[r] # <<>>

Least(a, b) == IF a < b THEN a ELSE b
Most(a, b) == IF a > b THEN a ELSE b

\* Slip: the accepted count itself is the offset.
OffsetOfAccepted(r) ==
  IF mode[r] = "spec" THEN Least(accepted[r], Drafts) ELSE 0

\* Only a speculative step looks past rejected drafts.
Offset(r) ==
  IF mode[r] = "spec" THEN Least(Most(accepted[r] - 1, 0), Drafts) ELSE 0

ReadsState(r) == HasSlot(r) /\ (mode[r] = "spec" \/ HasInitial(r))
HasOutput(r) == mode[r] = "spec" \/ HasSlot(r)

\* Entry i of the request's history as the step sees it: state, then rows.
Source(r, i) ==
  IF i < StateLen
  THEN IF ReadsState(r) THEN state[slot[r]][i + Offset(r)] ELSE Zero
  ELSE IF HasOutput(r) THEN rows[r][i - StateLen + 1] ELSE Zero

RowTaps(r, j) == [k \in 1 .. Taps |-> Source(r, j - 1 + Dilation * (k - 1))]

ConvRow(r, j) ==
  /\ running
  /\ mode[r] # "decode"
  /\ taps[r][j] = NotRun
  /\ taps' = [taps EXCEPT ![r][j] = RowTaps(r, j)]
  /\ UNCHANGED <<committed, rows, running, mode, accepted, slot, state, pending>>

-----------------------------------------------------------------------------
(* The state updates.  A program stores its entries in ascending order and *)
(* reads entry i at an index above i, so it never reads what it has stored.*)

StoreInputs(r) ==
  /\ running /\ r \in pending
  /\ mode[r] # "decode"
  /\ LET n == Len(rows[r])
         shift == IF mode[r] = "spec" THEN 1 ELSE n
         last == IF mode[r] = "spec" THEN StateLen + n - 1 ELSE StateLen
     IN  state' = IF HasSlot(r)
                  THEN [state EXCEPT ![slot[r]] =
                          [w \in Window |-> IF w < last THEN Source(r, shift + w) ELSE @[w]]]
                  ELSE state
  /\ pending' = pending \ {r}
  /\ UNCHANGED <<committed, rows, running, mode, accepted, slot, taps>>

\* Slip: the programs that compute the rows store them, too.
WriteBackAtOnce(r) == StoreInputs(r)

\* The second launch starts when every program of the first has ended.
WriteBack(r) ==
  /\ \A q \in pending : mode[q] = mode[r] =>
       \A j \in DOMAIN taps[q] : taps[q][j] # NotRun
  /\ StoreInputs(r)

\* One program computes the row and then shifts the state by one entry.
Decode(r) ==
  /\ running /\ r \in pending
  /\ mode[r] = "decode"
  /\ taps' = [taps EXCEPT ![r][1] = RowTaps(r, 1)]
  /\ state' = IF HasSlot(r)
              THEN [state EXCEPT ![slot[r]] =
                      [w \in Window |-> IF w < StateLen THEN Source(r, w + 1) ELSE @[w]]]
              ELSE state
  /\ pending' = pending \ {r}
  /\ UNCHANGED <<committed, rows, running, mode, accepted, slot>>

-----------------------------------------------------------------------------
\* The engine samples: of a speculative step's rows a suffix may be rejected.
Acceptable(r) ==
  IF r \in Pad \/ rows[r] = <<>> THEN {0}
  ELSE IF mode[r] = "spec" THEN 1 .. Len(rows[r]) ELSE {Len(rows[r])}

\* Slip: a row that only pads the batch counts as a step that accepted nothing.
AcceptPadding(kept) ==
  /\ running
  /\ pending = {}
  /\ \A r \in Owner : kept[r] \in Acceptable(r)
  /\ committed' = [r \in Owner |-> committed[r] \o SubSeq(rows[r], 1, kept[r])]
  /\ accepted' = [r \in Owner |-> IF mode[r] = "spec" THEN kept[r] ELSE 1]
  /\ running' = FALSE
  /\ rows' = [r \in Owner |-> <<>>]
  /\ taps' = [r \in Owner |-> <<>>]
  /\ UNCHANGED <<mode, slot, state, pending>>

Accept(kept) ==
  /\ running
  /\ pending = {}
  /\ \A r \in Owner : kept[r] \in Acceptable(r)
  /\ committed' = [r \in Owner |-> committed[r] \o SubSeq(rows[r], 1, kept[r])]
  /\ accepted' = [r \in Owner |-> IF kept[r] = 0 THEN accepted[r]
                                  ELSE IF mode[r] = "spec" THEN kept[r] ELSE 1]
  /\ running' = FALSE
  /\ rows' = [r \in Owner |-> <<>>]
  /\ taps' = [r \in Owner |-> <<>>]
  /\ UNCHANGED <<mode, slot, state, pending>>

\* Finished or preempted: the slot goes back as it is.
Release(r) ==
  /\ Idle
  /\ HasSlot(r)
  /\ slot' = [slot EXCEPT ![r] = NullSlot]
  /\ committed' = [committed EXCEPT ![r] = <<>>]
  /\ mode' = [mode EXCEPT ![r] = "prefill"]
  /\ accepted' = [accepted EXCEPT ![r] = 1]
  /\ UNCHANGED <<rows, running, state, taps, pending>>

Next ==
  \/ \E r \in Req, s \in Slot : Admit(r, s)
  \/ \E r \in Owner, chunk \in Chunks, m \in Mode : Schedule(r, chunk, m)
  \/ Launch
  \/ \E r \in Owner : \E j \in DOMAIN taps[r] : ConvRow(r, j)
  \/ \E r \in pending : WriteBack(r)
  \/ \E r \in pending : Decode(r)
  \/ \E kept \in [Owner -> 0 .. MaxChunk] : Accept(kept)
  \/ \E r \in Req : Release(r)

Spec == Init /\ [][Next]_vars

-----------------------------------------------------------------------------
\* States, chunks and accepted counts keep their types; a slot keeps its width.
TypeOK ==
  /\ \A r \in Owner : committed[r] \in Seq(Key) /\ rows[r] \in Seq(Key)
  /\ running \in BOOLEAN
  /\ mode \in [Owner -> Mode]
  /\ accepted \in [Owner -> 1 .. MaxChunk]
  /\ slot \in [Owner -> Slot \union {NullSlot}]
  /\ state \in [Slot \union {NullSlot} -> [Window -> Value]]
  /\ \A r \in Owner : Len(taps[r]) = Len(rows[r])
  /\ pending \subseteq Owner

\* The input at position p of a request, zero before its first token.
History(keys, p) == IF p < 0 THEN Zero ELSE keys[p + 1]

(***************************************************************************)
(* Every row is computed from the inputs of the request's own accepted     *)
(* tokens and of the rows before it in this step: none of a rejected       *)
(* draft, none a former owner left in the slot, and none the same step has *)
(* already stored.                                                         *)
(***************************************************************************)
RowsSeeTheirHistory ==
  \A r \in Req : \A j \in DOMAIN taps[r] : taps[r][j] # NotRun =>
    \A k \in 1 .. Taps :
      taps[r][j][k] = History(committed[r] \o rows[r],
                              Len(committed[r]) + j - 1 - Dilation * (Taps - k))

(***************************************************************************)
(* Between steps the slot of a request that has computed tokens holds its  *)
(* last StateLen accepted inputs at the offset the next step reads,        *)
(* however many drafts were rejected ("Roll back draft state to the last   *)
(* accepted token", ops_ple.py).                                           *)
(***************************************************************************)
StateHoldsLastInputs ==
  \A r \in Req : rows[r] = <<>> /\ HasSlot(r) /\ committed[r] # <<>> =>
    \A w \in 0 .. StateLen - 1 :
      state[slot[r]][accepted[r] - 1 + w] =
        History(committed[r], Len(committed[r]) - StateLen + w)

(***************************************************************************)
(* A step writes the slots of the requests it computes and no other: a     *)
(* padding row changes nobody's state.                                     *)
(***************************************************************************)
OthersKeepTheirState ==
  [][\A s \in Slot \union {NullSlot} :
       state'[s] # state[s] => \E r \in Req : slot[r] = s /\ r \in pending]_vars
=============================================================================
