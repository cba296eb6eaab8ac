------------------------------ MODULE PLEStaging ------------------------------
(***************************************************************************)
(* The staged PLE lookup: before each forward the host gathers the step's  *)
(* embedding rows from disk and puts them where the captured graph reads   *)
(* them (patches/ple_layer.py _ple_stage_rows, patches/ple_mmap.py         *)
(* gather_cpu, patches/model_state.py prepare_inputs).                     *)
(*                                                                         *)
(* Three parties: the host thread, the thread pool that reads rows into    *)
(* the layer's one pinned buffer, and the GPU, which runs the operations   *)
(* of its stream in order but later than the host enqueues them.  The copy *)
(* to the GPU is asynchronous, so the next step's reads could overtake it. *)
(* A row is modelled by the step and the index it was read for.            *)
(***************************************************************************)
EXTENDS Integers, Sequences

CONSTANTS
  Layers,     \* staged layers, 1 .. Layers, in the order they are staged
  MaxTokens,  \* rows of a GPU staging buffer (heads folded into tokens)
  MinRows,    \* least rows of a pinned buffer (4096)
  ChunkRows,  \* rows of one read job (QWEN4EXP_PLE_MMAP_CHUNK)
  MaxSteps,   \* bound on the steps, for TLC
  Zero,       \* a zeroed row
  Stale       \* what a fresh pinned buffer holds

ASSUME StagingAssumption ==
  /\ Layers \in Nat \ {0} /\ MaxTokens \in Nat \ {0} /\ MinRows \in Nat
  /\ ChunkRows \in Nat \ {0} /\ MaxSteps \in Nat

VARIABLES
  pc,      \* where the host thread is
  step,    \* number of the step it prepares: [id, n, padded]
  layer,   \* the layer being staged
  jobs,    \* read jobs: [layer, first, at, last, failed]
  pinned,  \* pinned[l]: the layer's host buffer, a sequence of rows
  staged,  \* staged[l][i]: the GPU buffer the graph reads
  stream,  \* enqueued GPU operations
  seen     \* what the last forward read: [step, rows]

vars == <<pc, step, layer, jobs, pinned, staged, stream, seen>>

-----------------------------------------------------------------------------
LayerId == 1 .. Layers
Rows == 0 .. MaxTokens - 1
NoStep == [id |-> 0, n |-> 0, padded |-> 0]

Init ==
  /\ pc = "idle"
  /\ step = NoStep
  /\ layer = 1
  /\ jobs = {}
  /\ pinned = [l \in LayerId |-> <<>>]
  /\ staged = [l \in LayerId |-> [i \in Rows |-> Zero]]
  /\ stream = <<>>
  /\ seen = [step |-> NoStep, rows |-> staged]

\* A real batch of n tokens, or a profile or capture batch (n = 0).
Begin(n, padded) ==
  /\ pc = "idle"
  /\ step.id < MaxSteps
  /\ n <= padded
  /\ step' = [id |-> step.id + 1, n |-> n, padded |-> padded]
  /\ layer' = 1
  /\ pc' = IF n = 0 THEN "zero" ELSE "ids"
  /\ UNCHANGED <<jobs, pinned, staged, stream, seen>>

NextLayer ==
  IF layer = Layers THEN layer' = layer /\ pc' = "forward"
  ELSE layer' = layer + 1 /\ pc' = IF step.n = 0 THEN "zero" ELSE "ids"

\* _ple_stage_zero: nothing is read, nothing is waited for.
StageZero ==
  /\ pc = "zero"
  /\ stream' = Append(stream, [op |-> "zero", layer |-> layer, step |-> step])
  /\ NextLayer
  /\ UNCHANGED <<step, jobs, pinned, staged, seen>>

\* Slip: the copy of the ids does not block.
FetchIdsAsync ==
  /\ pc = "ids"
  /\ pc' = "gather"
  /\ UNCHANGED <<step, layer, jobs, pinned, staged, stream, seen>>

\* The row ids go to the host: a blocking copy, behind all that was enqueued.
FetchIds ==
  /\ pc = "ids"
  /\ stream = <<>>
  /\ pc' = "gather"
  /\ UNCHANGED <<step, layer, jobs, pinned, staged, stream, seen>>

\* Slip: a buffer that is there is kept, whatever its size.
StagingForOnce(buffer, n) ==
  IF buffer # <<>> THEN buffer
  ELSE [i \in 1 .. (IF n > MinRows THEN n ELSE MinRows) |-> Stale]

\* One buffer per layer, replaced by a larger one when it is too small.
StagingFor(buffer, n) ==
  IF Len(buffer) >= n THEN buffer
  ELSE [i \in 1 .. (IF n > MinRows THEN n ELSE MinRows) |-> Stale]

\* A job for every ChunkRows rows; at most one chunk is read by the host itself.
Submit ==
  /\ pc = "gather"
  /\ pinned' = [pinned EXCEPT ![layer] = StagingFor(@, step.n)]
  /\ jobs' = jobs \union
       {[layer |-> layer, first |-> a, at |-> a, failed |-> FALSE, step |-> step.id,
         last |-> IF a + ChunkRows < step.n THEN a + ChunkRows ELSE step.n] :
           a \in {i \in 0 .. step.n - 1 : i % ChunkRows = 0}}
  /\ pc' = "await"
  /\ UNCHANGED <<step, layer, staged, stream, seen>>

Ended(j) == j.failed \/ j.at = j.last

ReadRow(j) ==
  /\ ~ Ended(j)
  /\ pinned' = [pinned EXCEPT ![j.layer][j.at + 1] = <<j.step, j.at>>]
  /\ jobs' = (jobs \ {j}) \union {[j EXCEPT !.at = @ + 1]}
  /\ UNCHANGED <<pc, step, layer, staged, stream, seen>>

\* preadv returned fewer bytes than a row: the job raises, the others go on.
ShortRead(j) ==
  /\ ~ Ended(j)
  /\ jobs' = (jobs \ {j}) \union {[j EXCEPT !.failed = TRUE]}
  /\ UNCHANGED <<pc, step, layer, pinned, staged, stream, seen>>

\* Slips: the results of the futures are not looked at; ended ones are waited for.
AwaitUnchecked ==
  /\ pc = "await"
  /\ \A j \in jobs : Ended(j)
  /\ jobs' = {}
  /\ stream' = stream \o <<[op |-> "copy", layer |-> layer, step |-> step],
                           [op |-> "pad", layer |-> layer, step |-> step]>>
  /\ NextLayer
  /\ UNCHANGED <<step, pinned, staged, seen>>

AwaitEmptyPool == jobs = {} /\ AwaitUnchecked

\* f.result() for every future: then the copy is enqueued and padding zeroed.
Await ==
  /\ pc = "await"
  /\ \A j \in jobs : Ended(j) /\ ~ j.failed
  /\ jobs' = {}
  /\ stream' = stream \o <<[op |-> "copy", layer |-> layer, step |-> step],
                           [op |-> "pad", layer |-> layer, step |-> step]>>
  /\ NextLayer
  /\ UNCHANGED <<step, pinned, staged, seen>>

\* The first failed future raises out of prepare_inputs and ends the engine.
Raise ==
  /\ pc = "await"
  /\ \E j \in jobs : /\ j.failed
                     /\ \A k \in jobs : k.first < j.first => Ended(k)
  /\ pc' = "failed"
  /\ UNCHANGED <<step, layer, jobs, pinned, staged, stream, seen>>

\* The forward or the graph replay; the host does not wait for it.
Forward ==
  /\ pc = "forward"
  /\ stream' = Append(stream, [op |-> "forward", layer |-> 0, step |-> step])
  /\ pc' = "idle"
  /\ UNCHANGED <<step, layer, jobs, pinned, staged, seen>>

-----------------------------------------------------------------------------
\* Slip: the padding rows are not zeroed.
RowsAfterCopyOnly(o) ==
  [i \in Rows |->
     CASE o.op = "zero" /\ i < o.step.padded -> Zero
       [] o.op = "copy" /\ i < o.step.n -> pinned[o.layer][i + 1]
       [] OTHER -> staged[o.layer][i]]

\* The GPU runs the oldest operation; a copy reads the host buffer only now.
RowsAfter(o) ==
  [i \in Rows |->
     CASE o.op = "zero" /\ i < o.step.padded -> Zero
       [] o.op = "copy" /\ i < o.step.n -> pinned[o.layer][i + 1]
       [] o.op = "pad" /\ i >= o.step.n /\ i < o.step.padded -> Zero
       [] OTHER -> staged[o.layer][i]]

Gpu ==
  /\ stream # <<>>
  /\ stream' = Tail(stream)
  /\ LET o == Head(stream)
     IN  IF o.op = "forward"
         THEN /\ seen' = [step |-> o.step, rows |-> staged]
              /\ UNCHANGED staged
         ELSE /\ staged' = [staged EXCEPT ![o.layer] = RowsAfter(o)]
              /\ UNCHANGED seen
  /\ UNCHANGED <<pc, step, layer, jobs, pinned>>

\* The host has prepared the last step of the bound.
Stop ==
  /\ pc = "idle" /\ step.id = MaxSteps /\ stream = <<>>
  /\ UNCHANGED vars

\* The engine is dead; threads of its pool may still be reading.
Dead ==
  /\ pc = "failed" /\ stream = <<>> /\ \A j \in jobs : Ended(j)
  /\ UNCHANGED vars

Host == StageZero \/ FetchIds \/ Submit \/ Await \/ Raise \/ Forward
Read == \E j \in jobs : ReadRow(j)

Next ==
  \/ \E n \in 0 .. MaxTokens, padded \in 1 .. MaxTokens : Begin(n, padded)
  \/ Host
  \/ Read
  \/ \E j \in jobs : ShortRead(j)
  \/ Gpu
  \/ Stop
  \/ Dead

\* The host and the GPU keep running, and so does a thread with rows to read.
Spec == Init /\ [][Next]_vars /\ WF_vars(Host) /\ WF_vars(Read) /\ WF_vars(Gpu)

-----------------------------------------------------------------------------
Step == [id : 0 .. MaxSteps, n : 0 .. MaxTokens, padded : 0 .. MaxTokens]

\* A read job stays inside its range and its pinned buffer (gather_cpu).
TypeOK ==
  /\ pc \in {"idle", "zero", "ids", "gather", "await", "forward", "failed"}
  /\ step \in Step
  /\ layer \in LayerId
  /\ \A j \in jobs : j.at \in j.first .. j.last /\ j.last <= Len(pinned[j.layer])
  /\ \A i \in DOMAIN stream : stream[i].op \in {"zero", "copy", "pad", "forward"}
  /\ seen.step \in Step

(***************************************************************************)
(* A forward reads exactly its own step's rows, in every layer: not the    *)
(* rows of the next step, for which the host may already be reading, and   *)
(* zeros in its padding, not what a longer step left.                      *)
(***************************************************************************)
ForwardSeesItsRows ==
  \A l \in LayerId : \A i \in 0 .. seen.step.padded - 1 :
    seen.rows[l][i] = IF i < seen.step.n THEN <<seen.step.id, i>> ELSE Zero

(***************************************************************************)
(* The pool never writes a pinned buffer, and the host never replaces one, *)
(* while a copy out of it is still queued: the blocking copy of the next   *)
(* step's ids is all that keeps them apart.                                *)
(***************************************************************************)
NoReadOverQueuedCopy ==
  \A i \in DOMAIN stream : stream[i].op = "copy" =>
    /\ \A j \in jobs : j.layer # stream[i].layer
    /\ ~ (pc = "gather" /\ layer = stream[i].layer)

(***************************************************************************)
(* A short read always ends the engine: the error of a pool thread is not  *)
(* lost among the results of the other jobs, and no step goes on with the  *)
(* rows the job did not fill.                                              *)
(***************************************************************************)
ShortReadEndsEngine == (\E j \in jobs : j.failed) ~> (pc = "failed")

(***************************************************************************)
(* A step that was begun is computed, unless a read failed: the host never *)
(* waits for a stream or a future that waits for the host.                 *)
(***************************************************************************)
StepsAreComputed ==
  \A s \in 1 .. MaxSteps :
    (step.id = s) ~> (seen.step.id = s \/ pc = "failed")
=============================================================================
