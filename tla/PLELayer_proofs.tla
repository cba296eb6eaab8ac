--------------------------- MODULE PLELayer_proofs ---------------------------
(***************************************************************************)
(* The rows of a PLE layer.  The staging: a forward reads its own step's   *)
(* rows, and no buffer is written under a queued copy, for any number of   *)
(* layers, steps, rows and read jobs.  The table: what is served for a row *)
(* is that row, in each of the three ways to keep it, for any number of    *)
(* ranks, parts, visits and partial reads.  The ids: the kernel hashes     *)
(* what the fallback hashes, to the same ids with any buffers, a row's     *)
(* hash is that of its own text, and the row of the table at that hash is  *)
(* what a token gets.                                                      *)
(***************************************************************************)
EXTENDS PLEStaging, PLELookup, Arithmetic, SequenceTheorems, FiniteSetTheorems

-----------------------------------------------------------------------------
(* The staging. *)

Content == (Nat \X Nat) \union {Zero, Stale}
Op == [op : {"zero", "copy", "pad", "forward"}, layer : 0 .. Layers, step : Step]
Job == [layer : LayerId, first : Nat, at : Nat, last : Nat, failed : BOOLEAN, step : Nat]

\* What row i of a layer has to be for step s.
RowFor(s, i) == IF i < s.n THEN <<s.id, i>> ELSE Zero

\* Operation o puts it there.
Writes(o, s, l, i) ==
  /\ o.layer = l /\ o.step = s
  /\ \/ o.op = "zero"
     \/ o.op = "copy" /\ i < s.n
     \/ o.op = "pad" /\ i >= s.n

\* When the GPU comes to position p of str, layer l is staged for step s.
Covered(str, stg, s, l, p) ==
  \A i \in 0 .. s.padded - 1 :
    \/ \E q \in 1 .. p - 1 : Writes(str[q], s, l, i)
    \/ /\ stg[l][i] = RowFor(s, i)
       /\ \A q \in 1 .. p - 1 : str[q].layer = l => str[q].step = s

Types ==
  /\ pc \in {"idle", "zero", "ids", "gather", "await", "forward", "failed"}
  /\ step \in Step /\ step.n <= step.padded
  /\ layer \in LayerId
  /\ jobs \subseteq Job
  /\ pinned \in [LayerId -> Seq(Content)]
  /\ staged \in [LayerId -> [Rows -> Content]]
  /\ stream \in Seq(Op)
  /\ seen \in [step : Step, rows : [LayerId -> [Rows -> Content]]]

\* Reads happen only behind the blocking copy: nothing is queued then.
Quiet ==
  /\ pc \in {"gather", "await", "failed"} => stream = <<>>
  /\ pc \notin {"await", "failed"} => jobs = {}
  /\ pc = "zero" => step.n = 0

\* Steps come in order, each is one record.
Ordered ==
  /\ \A p, q \in 1 .. Len(stream) :
       /\ q <= p => stream[q].step.id <= stream[p].step.id
       /\ stream[q].step.id = stream[p].step.id => stream[q].step = stream[p].step
  /\ \A p \in 1 .. Len(stream) :
       /\ stream[p].step.id <= step.id
       /\ stream[p].step.id = step.id => stream[p].step = step

\* What an operation relies on.
Sound(o, pin) ==
  /\ o.op # "forward" => o.layer \in LayerId
  /\ o.op = "forward" => o.layer = 0
  /\ o.op = "zero" => o.step.n = 0
  /\ o.op = "copy" => \A i \in 0 .. o.step.n - 1 : pin[o.layer][i + 1] = <<o.step.id, i>>

AllSound == \A p \in 1 .. Len(stream) : Sound(stream[p], pinned)

\* The jobs of a gather cover its rows and have read what they say.
Reads ==
  pc \in {"await", "failed"} =>
    /\ \A j \in jobs :
         /\ j.layer = layer /\ j.step = step.id
         /\ j.first <= j.at /\ j.at <= j.last /\ j.last <= step.n
         /\ \A i \in j.first .. j.at - 1 : pinned[layer][i + 1] = <<step.id, i>>
    /\ \A i \in 0 .. step.n - 1 : \E j \in jobs : j.first <= i /\ i < j.last
    /\ step.n <= Len(pinned[layer])

\* Forwards in the stream, and the layers done for the step in progress.
Done(l) == pc # "failed" /\ (l < layer \/ pc = "forward")

Staged ==
  /\ \A p \in 1 .. Len(stream) : stream[p].op = "forward" =>
       \A l \in LayerId : Covered(stream, staged, stream[p].step, l, p)
  /\ pc \notin {"idle", "failed"} =>
       \A l \in LayerId : Done(l) => Covered(stream, staged, step, l, Len(stream) + 1)

StagingInv ==
  Types /\ Quiet /\ Ordered /\ AllSound /\ Reads /\ Staged /\ ForwardSeesItsRows

\* The numbers.
LEMMA Numbers ==
  ASSUME Types
  PROVE  /\ Layers \in Nat \ {0} /\ MaxTokens \in Nat \ {0} /\ MinRows \in Nat
         /\ ChunkRows \in Nat \ {0} /\ MaxSteps \in Nat
         /\ step.id \in Nat /\ step.n \in Nat /\ step.padded \in Nat
         /\ step.padded <= MaxTokens /\ step.n <= step.padded
         /\ layer \in 1 .. Layers
         /\ Len(stream) \in Nat
         /\ \A p \in 1 .. Len(stream) : stream[p] \in Op /\ stream[p].step \in Step
         /\ \A s \in Step : s.id \in Nat /\ s.n \in Nat /\ s.padded \in 0 .. MaxTokens
<1>1. Len(stream) \in Nat /\ \A p \in 1 .. Len(stream) : stream[p] \in Op
  BY LenProperties, ElementOfSeq DEF Types
<1>2. \A o \in Op : o.step \in Step BY DEF Op
<1> QED BY <1>1, <1>2, StagingAssumption DEF Types, Step, LayerId

-----------------------------------------------------------------------------
(* Enqueueing. *)

\* What is covered depends only on the operations before it.
LEMMA SamePrefix ==
  ASSUME NEW str, NEW str2, NEW stg, NEW s, NEW l, NEW p \in Nat,
         \A q \in 1 .. p - 1 : str2[q] = str[q],
         Covered(str, stg, s, l, p)
  PROVE  Covered(str2, stg, s, l, p)
BY DEF Covered

\* More operations of the same step leave a covered layer covered.
LEMMA SameStep ==
  ASSUME NEW str, NEW stg, NEW s, NEW l, NEW p \in Nat, NEW r \in Nat, p <= r,
         \A q \in p .. r - 1 : str[q].step = s,
         Covered(str, stg, s, l, p)
  PROVE  Covered(str, stg, s, l, r)
<1> SUFFICES ASSUME NEW i \in 0 .. s.padded - 1
             PROVE  \/ \E q \in 1 .. r - 1 : Writes(str[q], s, l, i)
                    \/ /\ stg[l][i] = RowFor(s, i)
                       /\ \A q \in 1 .. r - 1 : str[q].layer = l => str[q].step = s
  BY DEF Covered
<1>1. CASE \E q \in 1 .. p - 1 : Writes(str[q], s, l, i)
  <2>1. 1 .. p - 1 \subseteq 1 .. r - 1 OBVIOUS
  <2> QED BY <1>1, <2>1
<1>2. CASE /\ stg[l][i] = RowFor(s, i)
           /\ \A q \in 1 .. p - 1 : str[q].layer = l => str[q].step = s
  <2>1. \A q \in 1 .. r - 1 : q \in 1 .. p - 1 \/ q \in p .. r - 1 OBVIOUS
  <2> QED BY <1>2, <2>1
<1> QED BY <1>1, <1>2 DEF Covered

\* An operation of the step in progress goes to the end of the stream and
\* disturbs nothing that is covered.
LEMMA Enqueue ==
  ASSUME StagingInv, NEW o \in Op, o.step = step, Sound(o, pinned),
         stream' = Append(stream, o),
         UNCHANGED <<step, pinned, staged>>
  PROVE  /\ stream' \in Seq(Op) /\ Len(stream') = Len(stream) + 1
         /\ stream'[Len(stream) + 1] = o
         /\ \A p \in 1 .. Len(stream) : stream'[p] = stream[p]
         /\ Ordered' /\ AllSound'
         /\ \A l \in LayerId : Covered(stream, staged, step, l, Len(stream) + 1) =>
              /\ Covered(stream', staged', step, l, Len(stream) + 1)
              /\ Covered(stream', staged', step, l, Len(stream) + 2)
         /\ \A p \in 1 .. Len(stream) : stream'[p].op = "forward" =>
              \A l \in LayerId : Covered(stream', staged', stream'[p].step, l, p)
<1>1. Types /\ stream \in Seq(Op) /\ Len(stream) \in Nat BY Numbers DEF StagingInv, Types
<1>2. /\ stream' \in Seq(Op) /\ Len(stream') = Len(stream) + 1
      /\ stream'[Len(stream) + 1] = o
      /\ \A p \in 1 .. Len(stream) : stream'[p] = stream[p]
  BY <1>1, AppendProperties
<1>3. \A p \in 1 .. Len(stream) + 1 : p \in 1 .. Len(stream) \/ p = Len(stream) + 1
  BY <1>1
<1>4. step.id \in Nat BY <1>1, Numbers
<1>5. Ordered'
  <2>1. ASSUME NEW p \in 1 .. Len(stream) + 1
        PROVE  /\ stream'[p].step.id <= step.id
               /\ stream'[p].step.id = step.id => stream'[p].step = step
    BY <1>2, <1>3, <1>4 DEF StagingInv, Ordered
  <2>2. ASSUME NEW p \in 1 .. Len(stream) + 1, NEW q \in 1 .. Len(stream) + 1
        PROVE  /\ q <= p => stream'[q].step.id <= stream'[p].step.id
               /\ stream'[q].step.id = stream'[p].step.id => stream'[q].step = stream'[p].step
    <3>1. CASE p \in 1 .. Len(stream) /\ q \in 1 .. Len(stream)
      BY <1>2, <3>1 DEF StagingInv, Ordered
    <3>2. CASE p = Len(stream) + 1
      BY <1>2, <2>1, <3>2
    <3>3. CASE p \in 1 .. Len(stream) /\ q = Len(stream) + 1
      <4>1. ~(q <= p) BY <1>1, <3>3
      <4>2. stream'[q].step = step BY <1>2, <3>3
      <4> QED BY <2>1, <4>1, <4>2
    <3> QED BY <1>3, <3>1, <3>2, <3>3
  <2> QED BY <1>2, <2>1, <2>2 DEF Ordered
<1>6. AllSound'
  <2>1. ASSUME NEW p \in 1 .. Len(stream) + 1 PROVE Sound(stream'[p], pinned)
    <3>1. CASE p \in 1 .. Len(stream)
      BY <1>2, <3>1 DEF StagingInv, AllSound
    <3>2. CASE p = Len(stream) + 1
      BY <1>2, <3>2
    <3> QED BY <1>3, <3>1, <3>2
  <2>2. pinned' = pinned OBVIOUS
  <2> QED BY <1>2, <2>1, <2>2 DEF AllSound
<1>7. ASSUME NEW l \in LayerId, Covered(stream, staged, step, l, Len(stream) + 1)
      PROVE  /\ Covered(stream', staged', step, l, Len(stream) + 1)
             /\ Covered(stream', staged', step, l, Len(stream) + 2)
  <2> DEFINE n == Len(stream) + 1
             r == Len(stream) + 2
  <2>1. n \in Nat /\ r \in Nat /\ n <= r /\ \A q \in 1 .. n - 1 : stream'[q] = stream[q]
    BY <1>1, <1>2
  <2>2. Covered(stream, staged, step, l, n) BY <1>7
  <2>3. \A q \in n .. r - 1 : stream'[q].step = step BY <1>1, <1>2
  <2> HIDE DEF n, r
  <2>4. Covered(stream', staged, step, l, n) BY <2>1, <2>2, SamePrefix
  <2>5. Covered(stream', staged, step, l, r) BY <2>1, <2>3, <2>4, SameStep
  <2> QED BY <2>4, <2>5 DEF n, r
<1>8. ASSUME NEW p \in 1 .. Len(stream), stream'[p].op = "forward", NEW l \in LayerId
      PROVE  Covered(stream', staged', stream'[p].step, l, p)
  <2>1. stream'[p] = stream[p] BY <1>2
  <2>2. Covered(stream, staged, stream[p].step, l, p) BY <1>8, <2>1 DEF StagingInv, Staged
  <2>3. p \in Nat /\ \A q \in 1 .. p - 1 : stream'[q] = stream[q] BY <1>1, <1>2
  <2>4. Covered(stream', staged, stream[p].step, l, p) BY <2>2, <2>3, SamePrefix
  <2> QED BY <2>1, <2>4
<1> QED BY <1>2, <1>5, <1>6, <1>7, <1>8
-----------------------------------------------------------------------------
(* The steps of the host. *)

\* Begin: a new step, nothing of it enqueued yet.
LEMMA BeginInv ==
  ASSUME StagingInv, NEW n \in 0 .. MaxTokens, NEW padded \in 1 .. MaxTokens,
         Begin(n, padded)
  PROVE  StagingInv'
<1>1. Types BY DEF StagingInv
<1>2. step.id \in Nat /\ Layers \in Nat \ {0} /\ MaxTokens \in Nat /\ MaxSteps \in Nat
  BY <1>1, Numbers
<1>3. step'.id = step.id + 1 /\ step'.n = n /\ step'.padded = padded
  BY DEF Begin
<1>4. Types'
  <2>1. step' \in Step /\ step'.n <= step'.padded BY <1>2 DEF Begin, Step
  <2>2. layer' \in LayerId BY <1>2 DEF Begin, LayerId
  <2> QED BY <1>1, <2>1, <2>2 DEF Begin, Types
<1>5. Quiet' BY <1>3 DEF StagingInv, Quiet, Begin
<1>6. Ordered'
  <2>1. \A p \in 1 .. Len(stream) : stream[p].step.id \in Nat BY <1>1, Numbers
  <2>2. \A p \in 1 .. Len(stream) : stream[p].step.id < step'.id
    BY <1>2, <1>3, <2>1 DEF StagingInv, Ordered
  <2>3. stream' = stream BY DEF Begin
  <2> QED BY <1>2, <1>3, <2>1, <2>2, <2>3 DEF StagingInv, Ordered
<1>7. AllSound' /\ ForwardSeesItsRows' BY DEF StagingInv, AllSound, ForwardSeesItsRows, Begin
<1>8. Reads' BY DEF Reads, Begin
<1>9. Staged'
  <2>1. \A l \in LayerId : ~ Done(l)' BY <1>2 DEF Begin, Done, LayerId
  <2>2. UNCHANGED <<stream, staged>> BY DEF Begin
  <2> QED BY <2>1, <2>2 DEF StagingInv, Staged
<1> QED BY <1>4, <1>5, <1>6, <1>7, <1>8, <1>9 DEF StagingInv

\* What NextLayer leads to.
LEMMA NextLayerFacts ==
  ASSUME Types, NextLayer, step' = step
  PROVE  /\ layer' \in LayerId
         /\ pc' \in {"zero", "ids", "forward"}
         /\ pc' = "zero" => step.n = 0
         /\ \A l \in LayerId : Done(l)' => l < layer \/ l = layer
BY Numbers DEF NextLayer, LayerId, Done

\* StageZero: the zeroing goes to the stream.
LEMMA StageZeroInv ==
  ASSUME StagingInv, StageZero
  PROVE  StagingInv'
<1> DEFINE o == [op |-> "zero", layer |-> layer, step |-> step]
<1>1. Types /\ Len(stream) \in Nat /\ layer \in LayerId BY Numbers DEF StagingInv, Types
<1>2. o \in Op /\ o.step = step /\ Sound(o, pinned)
  BY <1>1, Numbers DEF Op, Sound, StageZero, StagingInv, Quiet, Types, LayerId
<1>3. /\ stream' \in Seq(Op) /\ Len(stream') = Len(stream) + 1
      /\ stream'[Len(stream) + 1] = o
      /\ \A p \in 1 .. Len(stream) : stream'[p] = stream[p]
      /\ Ordered' /\ AllSound'
      /\ \A l \in LayerId : Covered(stream, staged, step, l, Len(stream) + 1) =>
           Covered(stream', staged', step, l, Len(stream) + 2)
      /\ \A p \in 1 .. Len(stream) : stream'[p].op = "forward" =>
           \A l \in LayerId : Covered(stream', staged', stream'[p].step, l, p)
  <2>1. stream' = Append(stream, o) /\ UNCHANGED <<step, pinned, staged>> BY DEF StageZero
  <2> HIDE DEF o
  <2> QED BY <1>2, <2>1, Enqueue
<1>4. /\ layer' \in LayerId
      /\ pc' \in {"zero", "ids", "forward"}
      /\ pc' = "zero" => step.n = 0
      /\ \A l \in LayerId : Done(l)' => l < layer \/ l = layer
  BY <1>1, NextLayerFacts DEF StageZero
<1>5. Types' BY <1>1, <1>3, <1>4 DEF Types, StageZero
<1>6. Quiet' BY <1>4 DEF StageZero, StagingInv, Quiet
<1>7. Reads' BY <1>4 DEF Reads
<1>8. Staged'
  <2>1. ASSUME NEW p \in 1 .. Len(stream'), stream'[p].op = "forward", NEW l \in LayerId
        PROVE  Covered(stream', staged', stream'[p].step, l, p)
    BY <1>1, <1>3, <2>1
  <2>2. ASSUME NEW l \in LayerId, Done(l)'
        PROVE  Covered(stream', staged', step, l, Len(stream) + 2)
    <3>1. CASE l < layer
      BY <1>1, <1>3, <3>1 DEF StagingInv, Staged, StageZero, Done
    <3>2. CASE l = layer
      <4>1. Len(stream) + 1 \in 1 .. (Len(stream) + 2) - 1 BY <1>1
      <4>2. \A i \in 0 .. step.padded - 1 : Writes(stream'[Len(stream) + 1], step, l, i)
        BY <1>3, <3>2 DEF Writes
      <4> QED BY <4>1, <4>2 DEF Covered
    <3> QED BY <1>4, <2>2, <3>1, <3>2
  <2>3. step' = step BY DEF StageZero
  <2>4. Len(stream') + 1 = Len(stream) + 2 BY <1>1, <1>3
  <2> QED BY <2>1, <2>2, <2>3, <2>4 DEF Staged
<1> QED BY <1>3, <1>5, <1>6, <1>7, <1>8 DEF StagingInv, StageZero, ForwardSeesItsRows

\* FetchIds: from here to the copy the stream is empty.
LEMMA FetchIdsInv ==
  ASSUME StagingInv, FetchIds
  PROVE  StagingInv'
<1> USE DEF FetchIds
<1>1. Types' BY DEF StagingInv, Types
<1>2. Quiet' BY DEF StagingInv, Quiet
<1>3. Staged'
  <2>1. \A l \in LayerId : Done(l)' => Done(l) BY DEF Done
  <2> QED BY <2>1 DEF StagingInv, Staged
<1> QED BY <1>1, <1>2, <1>3
     DEF StagingInv, Ordered, AllSound, Reads, ForwardSeesItsRows

\* Forward: every layer is staged behind what is queued.
LEMMA ForwardInv ==
  ASSUME StagingInv, Forward
  PROVE  StagingInv'
<1> DEFINE o == [op |-> "forward", layer |-> 0, step |-> step]
<1>1. Types /\ Len(stream) \in Nat /\ layer \in LayerId BY Numbers DEF StagingInv, Types
<1>2. o \in Op /\ o.step = step /\ Sound(o, pinned)
  BY <1>1, Numbers DEF Op, Sound, Types
<1>3. /\ stream' \in Seq(Op) /\ Len(stream') = Len(stream) + 1
      /\ stream'[Len(stream) + 1] = o
      /\ Ordered' /\ AllSound'
      /\ \A l \in LayerId : Covered(stream, staged, step, l, Len(stream) + 1) =>
           Covered(stream', staged', step, l, Len(stream) + 1)
      /\ \A p \in 1 .. Len(stream) : stream'[p].op = "forward" =>
           \A l \in LayerId : Covered(stream', staged', stream'[p].step, l, p)
  <2>1. stream' = Append(stream, o) /\ UNCHANGED <<step, pinned, staged>> BY DEF Forward
  <2> HIDE DEF o
  <2> QED BY <1>2, <2>1, Enqueue
<1>4. Types' BY <1>1, <1>3 DEF Types, Forward
<1>5. Quiet' /\ Reads' BY DEF Forward, StagingInv, Quiet, Reads
<1>6. Staged'
  <2>1. ASSUME NEW p \in 1 .. Len(stream'), stream'[p].op = "forward", NEW l \in LayerId
        PROVE  Covered(stream', staged', stream'[p].step, l, p)
    <3>1. CASE p \in 1 .. Len(stream) BY <1>3, <2>1, <3>1
    <3>2. CASE p = Len(stream) + 1
      <4>1. Done(l) BY DEF Forward, Done
      <4>2. Covered(stream', staged', step, l, Len(stream) + 1)
        BY <1>3, <4>1 DEF StagingInv, Staged, Forward
      <4> QED BY <1>3, <3>2, <4>2
    <3> QED BY <1>1, <1>3, <3>1, <3>2
  <2> QED BY <2>1 DEF Staged, Forward
<1> QED BY <1>3, <1>4, <1>5, <1>6 DEF StagingInv, Forward, ForwardSeesItsRows
-----------------------------------------------------------------------------
(* The pool. *)

\* A buffer large enough for n rows.
LEMMA StagingForFacts ==
  ASSUME NEW buffer \in Seq(Content), NEW n \in Nat, MinRows \in Nat
  PROVE  StagingFor(buffer, n) \in Seq(Content) /\ n <= Len(StagingFor(buffer, n))
<1>1. CASE Len(buffer) >= n
  BY <1>1, LenProperties DEF StagingFor
<1>2. CASE ~(Len(buffer) >= n)
  <2> DEFINE m == IF n > MinRows THEN n ELSE MinRows
             new == [i \in 1 .. m |-> Stale]
  <2>1. m \in Nat /\ n <= m OBVIOUS
  <2>2. Stale \in Content BY DEF Content
  <2>3. new \in [1 .. m -> Content] BY <2>2
  <2>4. new \in Seq(Content) /\ DOMAIN new = 1 .. m
    <3> HIDE DEF m
    <3> QED BY <2>1, <2>3, SeqDef
  <2>5. Len(new) = m
    <3> HIDE DEF m, new
    <3> QED BY <2>1, <2>4, LenProperties
  <2> QED BY <1>2, <2>1, <2>4, <2>5 DEF StagingFor
<1> QED BY <1>1, <1>2

\* Submit: the jobs cover the step's rows, and have read none yet.
LEMMA SubmitInv ==
  ASSUME StagingInv, Submit
  PROVE  StagingInv'
<1> DEFINE Starts == {i \in 0 .. step.n - 1 : i % ChunkRows = 0}
           End(a) == IF a + ChunkRows < step.n THEN a + ChunkRows ELSE step.n
           New(a) == [layer |-> layer, first |-> a, at |-> a, failed |-> FALSE,
                      step |-> step.id, last |-> End(a)]
<1>1. Types BY DEF StagingInv
<1>2. /\ step.id \in Nat /\ step.n \in Nat /\ ChunkRows \in Nat \ {0} /\ MinRows \in Nat
      /\ layer \in LayerId
  BY <1>1, Numbers DEF LayerId
<1>3. jobs' = {New(a) : a \in Starts}
  BY DEF Submit, StagingInv, Quiet
<1>4. \A a \in Starts : End(a) \in Nat /\ a \in Nat /\ a <= End(a) /\ End(a) <= step.n
  BY <1>2
<1>5. /\ StagingFor(pinned[layer], step.n) \in Seq(Content)
      /\ step.n <= Len(StagingFor(pinned[layer], step.n))
  BY <1>1, <1>2, StagingForFacts DEF Types
<1>6. /\ pinned' \in [LayerId -> Seq(Content)]
      /\ pinned'[layer] = StagingFor(pinned[layer], step.n)
  BY <1>1, <1>2, <1>5 DEF Types, Submit
<1>7. \A a \in Starts : New(a) \in Job
  <2> SUFFICES ASSUME NEW a \in Starts PROVE New(a) \in Job OBVIOUS
  <2>1. End(a) \in Nat /\ a \in Nat BY <1>4
  <2> HIDE DEF End, Starts
  <2> QED BY <1>2, <2>1 DEF Job
<1>8. Types'
  <2>1. jobs' \subseteq Job BY <1>3, <1>7
  <2> QED BY <1>1, <1>6, <2>1 DEF Types, Submit
<1>9. stream = <<>> /\ stream' = <<>> BY DEF StagingInv, Quiet, Submit
<1>10. Quiet' BY <1>9 DEF Submit, Quiet
<1>11. AllSound' /\ Ordered'
  <2>1. Len(stream') = 0 BY <1>9
  <2> QED BY <2>1 DEF AllSound, Ordered
<1>12. Reads'
  <2>1. ASSUME NEW j \in jobs'
        PROVE  /\ j.layer = layer /\ j.step = step.id
               /\ j.first <= j.at /\ j.at <= j.last /\ j.last <= step.n
               /\ \A i \in j.first .. j.at - 1 : pinned'[layer][i + 1] = <<step.id, i>>
    <3>1. PICK a \in Starts : j = New(a) BY <1>3, <2>1
    <3>2. /\ j.layer = layer /\ j.step = step.id /\ j.first = a /\ j.at = a
          /\ j.last = End(a)
      BY <3>1
    <3>3. End(a) \in Nat /\ a \in Nat /\ a <= End(a) /\ End(a) <= step.n BY <1>4
    <3>4. a .. a - 1 = {} BY <3>3
    <3> HIDE DEF New, End, Starts
    <3> QED BY <3>2, <3>3, <3>4
  <2>2. ASSUME NEW i \in 0 .. step.n - 1
        PROVE  \E j \in jobs' : j.first <= i /\ i < j.last
    <3> DEFINE k == i \div ChunkRows
               a == ChunkRows * k
    <3>1. k \in Nat /\ i % ChunkRows \in 0 .. ChunkRows - 1 /\ i = a + (i % ChunkRows)
      <4>1. i \in Nat BY <1>2
      <4> QED BY <1>2, <4>1, DivFacts
    <3>2. a \in Nat
      <4> HIDE DEF k
      <4> QED BY <1>2, <3>1
    <3>3. a % ChunkRows = 0
      <4> HIDE DEF k
      <4> QED BY <1>2, <3>1, MultipleOf
    <3>4. a <= i /\ i < a + ChunkRows
      <4> HIDE DEF a
      <4> QED BY <1>2, <3>1, <3>2
    <3>5. a \in Starts /\ i < End(a)
      <4> HIDE DEF a
      <4> QED BY <1>2, <3>2, <3>3, <3>4
    <3>6. New(a) \in jobs' /\ New(a).first = a /\ New(a).last = End(a)
      <4> HIDE DEF a, Starts, End
      <4> QED BY <1>3, <3>5
    <3> HIDE DEF New, End, Starts, a
    <3> QED BY <3>4, <3>5, <3>6
  <2>3. UNCHANGED <<step, layer>> BY DEF Submit
  <2> HIDE DEF New, End, Starts
  <2> QED BY <1>5, <1>6, <2>1, <2>2, <2>3 DEF Reads
<1>13. Staged'
  <2>1. \A l \in LayerId : Done(l)' => Done(l) BY DEF Done, Submit
  <2> QED BY <2>1 DEF StagingInv, Staged, Submit
<1> QED BY <1>8, <1>10, <1>11, <1>12, <1>13 DEF StagingInv, ForwardSeesItsRows, Submit

\* While there are jobs the host waits for them, or is dead, and the GPU is idle.
LEMMA JobsInv ==
  ASSUME StagingInv, NEW j \in jobs
  PROVE  /\ pc \in {"await", "failed"} /\ stream = <<>>
         /\ j \in Job /\ j.layer = layer /\ j.step = step.id /\ layer \in LayerId
         /\ j.first \in Nat /\ j.at \in Nat /\ j.last \in Nat
         /\ j.first <= j.at /\ j.at <= j.last /\ j.last <= step.n
         /\ step.n <= Len(pinned[layer])
<1>1. pc \in {"await", "failed"} BY DEF StagingInv, Quiet
<1>2. j \in Job BY DEF StagingInv, Types
<1> QED BY <1>1, <1>2 DEF StagingInv, Quiet, Reads, Job, Types

\* ReadRow: a row of the step in progress, and of its own buffer.
LEMMA ReadRowInv ==
  ASSUME StagingInv, NEW j \in jobs, ReadRow(j)
  PROVE  StagingInv'
<1> DEFINE k == [j EXCEPT !.at = @ + 1]
<1>1. Types /\ step.n \in Nat /\ step.id \in Nat BY Numbers DEF StagingInv
<1>2. /\ pc \in {"await", "failed"} /\ stream = <<>>
      /\ j \in Job /\ j.layer = layer /\ j.step = step.id /\ layer \in LayerId
      /\ j.first \in Nat /\ j.at \in Nat /\ j.last \in Nat
      /\ j.first <= j.at /\ j.at <= j.last /\ j.last <= step.n
      /\ step.n <= Len(pinned[layer])
  BY JobsInv
<1>3. j.at < j.last BY <1>2 DEF ReadRow, Ended
<1>4. /\ k \in Job /\ k.layer = j.layer /\ k.step = j.step /\ k.first = j.first
      /\ k.last = j.last /\ k.at = j.at + 1
  BY <1>2 DEF Job
<1>5. jobs' = (jobs \ {j}) \union {k} BY DEF ReadRow
<1>6. /\ pinned[layer] \in Seq(Content) /\ Len(pinned[layer]) \in Nat
      /\ DOMAIN pinned[layer] = 1 .. Len(pinned[layer])
      /\ j.at + 1 \in DOMAIN pinned[layer]
  BY <1>1, <1>2, <1>3, LenProperties DEF Types
<1> DEFINE new == [pinned[layer] EXCEPT ![j.at + 1] = <<step.id, j.at>>]
<1>7. pinned' = [pinned EXCEPT ![layer] = new]
  BY <1>2 DEF ReadRow
<1>8. /\ new \in Seq(Content) /\ Len(new) = Len(pinned[layer])
      /\ \A m \in 1 .. Len(pinned[layer]) :
           new[m] = IF m = j.at + 1 THEN <<step.id, j.at>> ELSE pinned[layer][m]
  BY <1>1, <1>2, <1>6, ExceptSeq DEF Content
<1>9. /\ pinned' \in [LayerId -> Seq(Content)] /\ pinned'[layer] = new
  <2> HIDE DEF new
  <2> QED BY <1>1, <1>2, <1>7, <1>8 DEF Types
<1> HIDE DEF k, new
<1>10. \A i \in 0 .. step.n - 1 :
         pinned'[layer][i + 1] = IF i = j.at THEN <<step.id, i>> ELSE pinned[layer][i + 1]
  <2> TAKE i \in 0 .. step.n - 1
  <2>1. i + 1 \in 1 .. Len(pinned[layer]) BY <1>1, <1>2, <1>6
  <2>2. i + 1 = j.at + 1 <=> i = j.at BY <1>2
  <2> QED BY <1>8, <1>9, <2>1, <2>2
<1>11. Types'
  BY <1>1, <1>4, <1>5, <1>9 DEF Types, ReadRow
<1>12. Quiet' BY <1>2 DEF ReadRow, Quiet
<1>13. AllSound' /\ Ordered'
  <2>1. Len(stream') = 0 BY <1>2 DEF ReadRow
  <2> QED BY <2>1 DEF AllSound, Ordered
<1>14. Reads'
  <2>1. ASSUME NEW m \in jobs'
        PROVE  /\ m.layer = layer /\ m.step = step.id
               /\ m.first <= m.at /\ m.at <= m.last /\ m.last <= step.n
               /\ \A i \in m.first .. m.at - 1 : pinned'[layer][i + 1] = <<step.id, i>>
    <3>1. CASE m = k
      <4>1. ASSUME NEW i \in j.first .. j.at
            PROVE  pinned'[layer][i + 1] = <<step.id, i>>
        <5>1. i \in 0 .. step.n - 1 BY <1>1, <1>2, <1>3
        <5>2. CASE i = j.at BY <1>10, <5>1, <5>2
        <5>3. CASE i \in j.first .. j.at - 1
          BY <1>2, <1>10, <5>1, <5>3 DEF StagingInv, Reads
        <5> QED BY <1>2, <5>2, <5>3
      <4>2. (j.at + 1) - 1 = j.at BY <1>2
      <4> QED BY <1>2, <1>3, <1>4, <3>1, <4>1, <4>2
    <3>2. CASE m \in jobs
      <4>1. m.first \in Nat /\ m.at \in Nat /\ m.last \in Nat /\ m.at <= m.last /\ m.last <= step.n
        BY <3>2, JobsInv
      <4>2. /\ m.layer = layer /\ m.step = step.id
            /\ m.first <= m.at /\ m.at <= m.last /\ m.last <= step.n
            /\ \A i \in m.first .. m.at - 1 : pinned[layer][i + 1] = <<step.id, i>>
        BY <1>2, <3>2 DEF StagingInv, Reads
      <4>3. \A i \in m.first .. m.at - 1 : i \in 0 .. step.n - 1 BY <1>1, <4>1
      <4> QED BY <1>10, <4>2, <4>3
    <3> QED BY <1>5, <2>1, <3>1, <3>2
  <2>2. ASSUME NEW i \in 0 .. step.n - 1
        PROVE  \E m \in jobs' : m.first <= i /\ i < m.last
    <3>1. PICK m \in jobs : m.first <= i /\ i < m.last
      BY <1>2 DEF StagingInv, Reads
    <3>2. CASE m = j BY <1>4, <1>5, <3>1, <3>2
    <3>3. CASE m # j BY <1>5, <3>1, <3>3
    <3> QED BY <3>2, <3>3
  <2>3. UNCHANGED <<step, layer>> BY DEF ReadRow
  <2>4. step.n <= Len(pinned'[layer]) BY <1>2, <1>8, <1>9
  <2> QED BY <2>1, <2>2, <2>3, <2>4 DEF Reads
<1>15. Staged'
  <2>1. \A l \in LayerId : Done(l)' => Done(l) BY DEF Done, ReadRow
  <2> QED BY <2>1 DEF StagingInv, Staged, ReadRow
<1> QED BY <1>11, <1>12, <1>13, <1>14, <1>15 DEF StagingInv, ForwardSeesItsRows, ReadRow

\* ShortRead: the job keeps its range and stops.
LEMMA ShortReadInv ==
  ASSUME StagingInv, NEW j \in jobs, ShortRead(j)
  PROVE  StagingInv'
<1> DEFINE k == [j EXCEPT !.failed = TRUE]
<1>1. Types BY DEF StagingInv
<1>2. pc \in {"await", "failed"} /\ j \in Job BY JobsInv
<1>3. /\ k \in Job /\ k.layer = j.layer /\ k.step = j.step /\ k.first = j.first
      /\ k.last = j.last /\ k.at = j.at
  BY <1>2 DEF Job
<1>4. jobs' = (jobs \ {j}) \union {k} BY DEF ShortRead
<1> HIDE DEF k
<1>5. Types' BY <1>1, <1>3, <1>4 DEF Types, ShortRead
<1>6. Quiet' BY <1>2 DEF StagingInv, ShortRead, Quiet
<1>7. Reads'
  <2>1. ASSUME NEW m \in jobs'
        PROVE  \E x \in jobs : /\ m.layer = x.layer /\ m.step = x.step /\ m.first = x.first
                              /\ m.at = x.at /\ m.last = x.last
    BY <1>3, <1>4
  <2>2. ASSUME NEW x \in jobs
        PROVE  \E m \in jobs' : m.first = x.first /\ m.last = x.last
    <3>1. CASE x = j BY <1>3, <1>4, <3>1
    <3>2. CASE x # j BY <1>4, <3>2
    <3> QED BY <3>1, <3>2
  <2>3. UNCHANGED <<pc, step, layer, pinned>> BY DEF ShortRead
  <2>4. Reads /\ pc \in {"await", "failed"} BY <1>2 DEF StagingInv
  <2>5. ASSUME NEW m \in jobs'
        PROVE  /\ m.layer = layer /\ m.step = step.id
               /\ m.first <= m.at /\ m.at <= m.last /\ m.last <= step.n
               /\ \A i \in m.first .. m.at - 1 : pinned[layer][i + 1] = <<step.id, i>>
    BY <2>1, <2>4 DEF Reads
  <2>6. ASSUME NEW i \in 0 .. step.n - 1
        PROVE  \E m \in jobs' : m.first <= i /\ i < m.last
    <3>1. PICK x \in jobs : x.first <= i /\ i < x.last BY <2>4 DEF Reads
    <3>2. PICK m \in jobs' : m.first = x.first /\ m.last = x.last BY <2>2
    <3> QED BY <3>1, <3>2
  <2> QED BY <2>3, <2>4, <2>5, <2>6 DEF Reads
<1>8. Staged'
  <2>1. \A l \in LayerId : Done(l)' => Done(l) BY DEF Done, ShortRead
  <2> QED BY <2>1 DEF StagingInv, Staged, ShortRead
<1> QED BY <1>5, <1>6, <1>7, <1>8
     DEF StagingInv, AllSound, Ordered, ForwardSeesItsRows, ShortRead

\* Await: every row was read, so the copy will bring the step's rows.
LEMMA AwaitInv ==
  ASSUME StagingInv, Await
  PROVE  StagingInv'
<1> DEFINE c == [op |-> "copy", layer |-> layer, step |-> step]
           d == [op |-> "pad", layer |-> layer, step |-> step]
<1>1. /\ Types /\ layer \in LayerId /\ step \in Step /\ step.id \in Nat
      /\ step.n \in Nat /\ step.padded \in Nat
  BY Numbers DEF StagingInv, Types
<1>2. stream = <<>> /\ stream' = <<c, d>>
  BY DEF StagingInv, Quiet, Await
<1>3. /\ c \in Op /\ d \in Op
      /\ c.op = "copy" /\ c.layer = layer /\ c.step = step
      /\ d.op = "pad" /\ d.layer = layer /\ d.step = step
  BY <1>1, Numbers DEF Op, LayerId
<1> HIDE DEF c, d
<1>4. /\ stream' \in Seq(Op) /\ Len(stream') = 2 /\ stream'[1] = c /\ stream'[2] = d
  BY <1>2, <1>3
<1>5. \A p \in 1 .. 2 : p = 1 \/ p = 2 OBVIOUS
<1>6. step' = step /\ pinned' = pinned /\ staged' = staged /\ jobs' = {} /\ seen' = seen
  BY DEF Await
<1>7. /\ layer' \in LayerId
      /\ pc' \in {"zero", "ids", "forward"}
      /\ pc' = "zero" => step.n = 0
      /\ \A l \in LayerId : Done(l)' => l < layer \/ l = layer
  BY <1>1, NextLayerFacts DEF Await
<1>8. Types' BY <1>1, <1>4, <1>6, <1>7 DEF Types
<1>9. Quiet' BY <1>6, <1>7 DEF Quiet
<1>10. Ordered' BY <1>1, <1>3, <1>4, <1>5, <1>6 DEF Ordered
<1>11. \A i \in 0 .. step.n - 1 : pinned[layer][i + 1] = <<step.id, i>>
  <2> TAKE i \in 0 .. step.n - 1
  <2>1. PICK j \in jobs : j.first <= i /\ i < j.last
    BY DEF StagingInv, Reads, Await
  <2>2. j.at = j.last BY <2>1 DEF Await, Ended
  <2>3. j.first \in Nat /\ j.last \in Nat BY JobsInv
  <2>4. i \in j.first .. j.at - 1 BY <1>1, <2>1, <2>2, <2>3
  <2> QED BY <2>4 DEF StagingInv, Reads, Await
<1>12. AllSound'
  <2>1. Sound(c, pinned) BY <1>1, <1>3, <1>11 DEF Sound
  <2>2. Sound(d, pinned) BY <1>1, <1>3 DEF Sound
  <2> QED BY <1>4, <1>5, <1>6, <2>1, <2>2 DEF AllSound
<1>13. Reads' BY <1>7 DEF Reads
<1>14. Staged'
  <2>1. ASSUME NEW l \in LayerId, Done(l)' PROVE Covered(stream', staged', step, l, 3)
    <3>1. CASE l < layer
      <4>1. Len(stream) = 0 BY <1>2
      <4>2. Covered(stream, staged, step, l, 1)
        BY <3>1, <4>1 DEF StagingInv, Staged, Await, Done
      <4>3. Covered(stream', staged, step, l, 1) BY <4>2, SamePrefix
      <4>4. \A q \in 1 .. 3 - 1 : stream'[q].step = step BY <1>3, <1>4, <1>5
      <4>5. Covered(stream', staged, step, l, 3) BY <4>3, <4>4, SameStep
      <4> QED BY <1>6, <4>5
    <3>2. CASE l = layer
      <4>1. ASSUME NEW i \in 0 .. step.padded - 1
            PROVE  Writes(stream'[1], step, l, i) \/ Writes(stream'[2], step, l, i)
        BY <1>1, <1>3, <1>4, <3>2 DEF Writes
      <4>2. 1 \in 1 .. 3 - 1 /\ 2 \in 1 .. 3 - 1 OBVIOUS
      <4> QED BY <4>1, <4>2 DEF Covered
    <3> QED BY <1>7, <2>1, <3>1, <3>2
  <2>2. Len(stream') + 1 = 3 BY <1>4
  <2>3. \A p \in 1 .. Len(stream') : stream'[p].op # "forward" BY <1>3, <1>4, <1>5
  <2> QED BY <1>6, <2>1, <2>2, <2>3 DEF Staged
<1> QED BY <1>6, <1>8, <1>9, <1>10, <1>12, <1>13, <1>14 DEF StagingInv, ForwardSeesItsRows

\* Raise: the host is dead; only what is still read changes.
LEMMA RaiseInv ==
  ASSUME StagingInv, Raise
  PROVE  StagingInv'
<1> USE DEF Raise
<1>1. Types' BY DEF StagingInv, Types
<1>2. Quiet' BY DEF StagingInv, Quiet
<1>3. Reads' BY DEF StagingInv, Reads
<1>4. Staged'
  <2>1. \A l \in LayerId : Done(l)' => Done(l) BY DEF Done
  <2> QED BY <2>1 DEF StagingInv, Staged
<1> QED BY <1>1, <1>2, <1>3, <1>4 DEF StagingInv, Ordered, AllSound, ForwardSeesItsRows

-----------------------------------------------------------------------------
(* The GPU. *)

\* Taking the first operation off the stream keeps what is covered behind it.
LEMMA PopCovered ==
  ASSUME Types, NEW str \in Seq(Op), str # <<>>,
         NEW stg \in [LayerId -> [Rows -> Content]],
         NEW s \in Step, NEW l \in LayerId, NEW p \in 2 .. Len(str) + 1,
         Covered(str, stg, s, l, p),
         Sound(Head(str), pinned),
         \A q \in 1 .. p - 1 : Head(str).step = s => str[q].step = s,
         NEW stg2 \in [LayerId -> [Rows -> Content]],
         stg2 = IF Head(str).op = "forward" THEN stg
                ELSE [stg EXCEPT ![Head(str).layer] =
                       [i \in Rows |->
                         CASE Head(str).op = "zero" /\ i < Head(str).step.padded -> Zero
                           [] Head(str).op = "copy" /\ i < Head(str).step.n ->
                                pinned[Head(str).layer][i + 1]
                           [] Head(str).op = "pad" /\ i >= Head(str).step.n
                                /\ i < Head(str).step.padded -> Zero
                           [] OTHER -> stg[Head(str).layer][i]]]
  PROVE  Covered(Tail(str), stg2, s, l, p - 1)
<1> DEFINE o == Head(str)
           t == Tail(str)
<1>1. /\ Len(str) \in Nat /\ p \in Nat /\ o = str[1] /\ o \in Op
      /\ t \in Seq(Op) /\ Len(t) = Len(str) - 1
      /\ \A q \in 1 .. Len(t) : t[q] = str[q + 1]
  BY HeadTailProperties, LenProperties
<1>2. s.n \in Nat /\ s.padded \in 0 .. MaxTokens /\ MaxTokens \in Nat BY Numbers
<1> SUFFICES ASSUME NEW i \in 0 .. s.padded - 1
             PROVE  \/ \E q \in 1 .. (p - 1) - 1 : Writes(t[q], s, l, i)
                    \/ /\ stg2[l][i] = RowFor(s, i)
                       /\ \A q \in 1 .. (p - 1) - 1 : t[q].layer = l => t[q].step = s
  BY DEF Covered
<1>3. i \in Rows BY <1>2 DEF Rows
<1> DEFINE R(j) == CASE o.op = "zero" /\ j < o.step.padded -> Zero
                     [] o.op = "copy" /\ j < o.step.n -> pinned[o.layer][j + 1]
                     [] o.op = "pad" /\ j >= o.step.n /\ j < o.step.padded -> Zero
                     [] OTHER -> stg[o.layer][j]
<1>4. /\ o.op = "forward" => stg2 = stg
      /\ o.op # "forward" => stg2 = [stg EXCEPT ![o.layer] = [j \in Rows |-> R(j)]]
  OBVIOUS
<1>5. /\ o.op # "forward" => o.layer \in LayerId
      /\ o.op = "forward" => o.layer \notin LayerId
      /\ o.op = "zero" => o.step.n = 0
      /\ o.op = "copy" => \A j \in 0 .. o.step.n - 1 : pinned[o.layer][j + 1] = <<o.step.id, j>>
  BY DEF Sound, LayerId
<1>6. /\ o.layer # l => stg2[l][i] = stg[l][i]
      /\ o.layer = l => o.op # "forward" /\ stg2[l][i] = R(i)
  <2> HIDE DEF o, R
  <2>1. CASE o.op = "forward" BY <1>4, <1>5, <2>1
  <2>2. CASE o.op # "forward"
    <3>1. stg2 = [stg EXCEPT ![o.layer] = [j \in Rows |-> R(j)]] BY <1>4, <2>2
    <3>2. stg2[l] = IF o.layer = l THEN [j \in Rows |-> R(j)] ELSE stg[l]
      BY <1>5, <2>2, <3>1
    <3> QED BY <1>3, <2>2, <3>2
  <2> QED BY <2>1, <2>2
<1>7. \A q \in 1 .. (p - 1) - 1 : t[q] = str[q + 1] /\ q + 1 \in 1 .. p - 1
  BY <1>1
<1>8. CASE \E q \in 2 .. p - 1 : Writes(str[q], s, l, i)
  <2>1. PICK q \in 2 .. p - 1 : Writes(str[q], s, l, i) BY <1>8
  <2>2. q - 1 \in 1 .. (p - 1) - 1 /\ (q - 1) + 1 = q BY <1>1
  <2>3. Writes(t[q - 1], s, l, i)
    <3>1. t[q - 1] = str[(q - 1) + 1] BY <1>7, <2>2
    <3> HIDE DEF t
    <3> QED BY <2>1, <2>2, <3>1
  <2> QED BY <2>2, <2>3
<1>9. CASE Writes(o, s, l, i)
  <2>1. o.layer = l /\ o.step = s BY <1>9 DEF Writes
  <2>2. R(i) = RowFor(s, i)
    <3> HIDE DEF o
    <3>1. CASE o.op = "zero" BY <1>2, <1>5, <2>1, <3>1 DEF RowFor
    <3>2. CASE o.op = "copy" /\ i < s.n BY <1>2, <1>5, <2>1, <3>2 DEF RowFor
    <3>3. CASE o.op = "pad" /\ i >= s.n BY <1>2, <2>1, <3>3 DEF RowFor
    <3> QED BY <1>9, <3>1, <3>2, <3>3 DEF Writes
  <2>3. \A q \in 1 .. (p - 1) - 1 : t[q].step = s
    <3> HIDE DEF t
    <3> QED BY <1>7, <2>1
  <2> HIDE DEF o, t, R
  <2> QED BY <1>6, <2>1, <2>2, <2>3
<1>10. CASE /\ stg[l][i] = RowFor(s, i)
            /\ \A q \in 1 .. p - 1 : str[q].layer = l => str[q].step = s
  <2>1. stg2[l][i] = RowFor(s, i)
    <3>1. CASE o.layer # l
      <4> HIDE DEF o, R
      <4> QED BY <1>6, <1>10, <3>1
    <3>2. CASE o.layer = l
      <4>1. o.step = s BY <1>1, <1>10, <3>2
      <4>2. R(i) = RowFor(s, i)
        <5> HIDE DEF o
        <5>1. CASE o.op = "zero" BY <1>2, <1>5, <3>2, <4>1, <5>1 DEF RowFor
        <5>2. CASE o.op = "copy" /\ i < s.n BY <1>2, <1>5, <3>2, <4>1, <5>2 DEF RowFor
        <5>3. CASE o.op = "pad" /\ i >= s.n BY <1>2, <4>1, <5>3 DEF RowFor
        <5>4. CASE /\ o.op # "zero"
                   /\ ~ (o.op = "copy" /\ i < s.n)
                   /\ ~ (o.op = "pad" /\ i >= s.n)
          BY <1>10, <3>2, <4>1, <5>4
        <5> QED BY <5>1, <5>2, <5>3, <5>4
      <4> HIDE DEF o, R
      <4> QED BY <1>6, <3>2, <4>2
    <3> QED BY <3>1, <3>2
  <2>2. \A q \in 1 .. (p - 1) - 1 : t[q].layer = l => t[q].step = s
    <3> HIDE DEF t
    <3> QED BY <1>7, <1>10
  <2> HIDE DEF t
  <2> QED BY <2>1, <2>2
<1>11. \A q \in 1 .. p - 1 : q = 1 \/ q \in 2 .. p - 1 BY <1>1
<1> QED BY <1>1, <1>8, <1>9, <1>10, <1>11 DEF Covered

\* Gpu: the oldest operation does what the ones behind it rely on.
LEMMA GpuInv ==
  ASSUME StagingInv, Gpu
  PROVE  StagingInv'
<1> DEFINE o == Head(stream)
<1>1. /\ Types /\ stream \in Seq(Op) /\ stream # <<>> /\ Len(stream) \in Nat
      /\ staged \in [LayerId -> [Rows -> Content]]
  BY Numbers DEF StagingInv, Types, Gpu
<1>2. /\ o \in Op /\ o = stream[1] /\ 1 \in 1 .. Len(stream) /\ stream' = Tail(stream)
      /\ stream' \in Seq(Op) /\ Len(stream') = Len(stream) - 1
      /\ \A p \in 1 .. Len(stream') : stream'[p] = stream[p + 1] /\ p + 1 \in 1 .. Len(stream)
  <2>1. /\ o \in Op /\ stream' = Tail(stream) /\ stream' \in Seq(Op)
        /\ Len(stream') = Len(stream) - 1
        /\ \A p \in 1 .. Len(stream') : stream'[p] = stream[p + 1]
    BY <1>1, HeadTailProperties DEF Gpu
  <2>2. Len(stream) # 0 BY <1>1, EmptySeq
  <2> QED BY <1>1, <2>1, <2>2
<1>3. /\ Sound(o, pinned) /\ o.step \in Step
  BY <1>2, <1>1, Numbers DEF StagingInv, AllSound
<1>4. UNCHANGED <<pc, step, layer, jobs, pinned>> BY DEF Gpu
<1>5. \A s \in Step : s.id \in Nat /\ s.n \in Nat /\ s.padded \in 0 .. MaxTokens
  BY <1>1, Numbers
<1>6. pinned \in [LayerId -> Seq(Content)] /\ Zero \in Content BY <1>1 DEF Types, Content
<1>7. \A l \in LayerId, i \in Rows :
        /\ staged[l][i] \in Content
        /\ o.op = "copy" /\ l = o.layer /\ i < o.step.n => pinned[l][i + 1] \in Content
  <2> TAKE l \in LayerId, i \in Rows
  <2>1. staged[l][i] \in Content BY <1>1
  <2>2. ASSUME o.op = "copy", l = o.layer, i < o.step.n
        PROVE  pinned[l][i + 1] \in Content
    <3>1. i \in 0 .. o.step.n - 1 BY <1>3, <1>5, <2>2, StagingAssumption DEF Rows
    <3>2. pinned[l][i + 1] = <<o.step.id, i>> BY <1>3, <2>2, <3>1 DEF Sound
    <3>3. o.step.id \in Nat /\ i \in Nat BY <1>3, <1>5, <3>1
    <3> QED BY <3>2, <3>3 DEF Content
  <2> QED BY <2>1, <2>2
<1>8. /\ RowsAfter(o) \in [Rows -> Content] \/ o.op = "forward"
      /\ staged' = IF o.op = "forward" THEN staged ELSE [staged EXCEPT ![o.layer] = RowsAfter(o)]
      /\ o.op = "forward" => seen' = [step |-> o.step, rows |-> staged]
      /\ o.op # "forward" => seen' = seen
  <2>1. ASSUME o.op # "forward" PROVE RowsAfter(o) \in [Rows -> Content]
    <3>1. o.layer \in LayerId BY <1>3, <2>1 DEF Sound
    <3> HIDE DEF o
    <3> QED BY <1>6, <1>7, <3>1 DEF RowsAfter
  <2> QED BY <2>1 DEF Gpu
<1>9. staged' \in [LayerId -> [Rows -> Content]] /\ seen' \in [step : Step, rows : [LayerId -> [Rows -> Content]]]
  <2> HIDE DEF o
  <2>1. CASE o.op = "forward" BY <1>1, <1>3, <1>8, <2>1
  <2>2. CASE o.op # "forward"
    <3>1. o.layer \in LayerId BY <1>3, <2>2 DEF Sound
    <3>2. seen \in [step : Step, rows : [LayerId -> [Rows -> Content]]] BY <1>1 DEF Types
    <3> QED BY <1>1, <1>8, <2>2, <3>1, <3>2
  <2> QED BY <2>1, <2>2
<1>10. Types' BY <1>1, <1>2, <1>4, <1>9 DEF Types
<1>11. Quiet'
  <2>1. ~ (pc \in {"gather", "await", "failed"}) BY <1>1 DEF StagingInv, Quiet
  <2> QED BY <1>4, <2>1 DEF StagingInv, Quiet
<1>12. Ordered'
  <2>1. ASSUME NEW p \in 1 .. Len(stream'), NEW q \in 1 .. Len(stream')
        PROVE  /\ q <= p => stream'[q].step.id <= stream'[p].step.id
               /\ stream'[q].step.id = stream'[p].step.id => stream'[q].step = stream'[p].step
    <3>1. stream'[q] = stream[q + 1] /\ stream'[p] = stream[p + 1] BY <1>2
    <3>2. q + 1 \in 1 .. Len(stream) /\ p + 1 \in 1 .. Len(stream) BY <1>2
    <3>3. q <= p => q + 1 <= p + 1 OBVIOUS
    <3> QED BY <3>1, <3>2, <3>3 DEF StagingInv, Ordered
  <2>2. ASSUME NEW p \in 1 .. Len(stream')
        PROVE  /\ stream'[p].step.id <= step.id
               /\ stream'[p].step.id = step.id => stream'[p].step = step
    BY <1>2 DEF StagingInv, Ordered
  <2> QED BY <1>4, <2>1, <2>2 DEF Ordered
<1>13. AllSound' BY <1>2, <1>4 DEF StagingInv, AllSound
<1>14. Reads' BY <1>4 DEF StagingInv, Reads
<1>15. ASSUME NEW s \in Step, NEW l \in LayerId, NEW p \in 2 .. Len(stream) + 1,
              Covered(stream, staged, s, l, p),
              \A q \in 1 .. p - 1 : o.step = s => stream[q].step = s
       PROVE  Covered(stream', staged', s, l, p - 1)
  BY <1>1, <1>2, <1>3, <1>8, <1>9, <1>15, PopCovered DEF RowsAfter
<1>16. ASSUME NEW q \in 1 .. Len(stream), NEW s \in Step, o.step = s, stream[q].step.id <= s.id
       PROVE  stream[q].step = s
  <2>1. stream[1].step.id <= stream[q].step.id /\ stream[1].step = s
    BY <1>2, <1>16 DEF StagingInv, Ordered
  <2>2. stream[q].step.id \in Nat /\ s.id \in Nat BY <1>1, <1>5, Numbers
  <2>3. stream[q].step.id = stream[1].step.id BY <1>16, <2>1, <2>2
  <2> QED BY <1>2, <2>1, <2>3 DEF StagingInv, Ordered
<1>17. Staged'
  <2>1. ASSUME NEW p \in 1 .. Len(stream'), stream'[p].op = "forward", NEW l \in LayerId
        PROVE  Covered(stream', staged', stream'[p].step, l, p)
    <3> DEFINE r == p + 1
               s == stream[r].step
    <3>1. stream'[p] = stream[r] /\ r \in 1 .. Len(stream) BY <1>2
    <3>2. r \in 2 .. Len(stream) + 1 /\ r - 1 = p /\ s \in Step BY <1>1, <3>1, Numbers
    <3>3. Covered(stream, staged, s, l, r) BY <2>1, <3>1 DEF StagingInv, Staged
    <3>4. \A q \in 1 .. r - 1 : q \in 1 .. Len(stream) /\ stream[q].step.id <= s.id
      BY <1>1, <3>1 DEF StagingInv, Ordered
    <3> HIDE DEF s, r
    <3>5. \A q \in 1 .. r - 1 : o.step = s => stream[q].step = s BY <1>16, <3>2, <3>4
    <3>6. Covered(stream', staged', s, l, r - 1) BY <1>15, <3>2, <3>3, <3>5
    <3> QED BY <3>1, <3>2, <3>6 DEF s
  <2>2. ASSUME pc \notin {"idle", "failed"}, NEW l \in LayerId, Done(l)
        PROVE  Covered(stream', staged', step, l, Len(stream') + 1)
    <3> DEFINE r == Len(stream) + 1
    <3>1. r \in 2 .. Len(stream) + 1 /\ r - 1 = Len(stream') + 1 /\ step \in Step
      BY <1>1, <1>2 DEF Types
    <3>2. Covered(stream, staged, step, l, r) BY <2>2 DEF StagingInv, Staged
    <3>3. \A q \in 1 .. r - 1 : q \in 1 .. Len(stream) /\ stream[q].step.id <= step.id
      BY <1>1 DEF StagingInv, Ordered
    <3> HIDE DEF r
    <3>4. \A q \in 1 .. r - 1 : o.step = step => stream[q].step = step BY <1>16, <3>1, <3>3
    <3>5. Covered(stream', staged', step, l, r - 1) BY <1>15, <3>1, <3>2, <3>4
    <3> QED BY <3>1, <3>5
  <2>3. \A l \in LayerId : Done(l)' => Done(l) BY <1>4 DEF Done
  <2> QED BY <1>4, <2>1, <2>2, <2>3 DEF Staged
<1>18. ForwardSeesItsRows'
  <2>1. CASE o.op # "forward" BY <1>8, <2>1 DEF StagingInv, ForwardSeesItsRows
  <2>2. CASE o.op = "forward"
    <3>1. ASSUME NEW l \in LayerId, NEW i \in 0 .. o.step.padded - 1
          PROVE  staged[l][i] = RowFor(o.step, i)
      <4>1. Covered(stream, staged, o.step, l, 1) BY <1>2, <2>2 DEF StagingInv, Staged
      <4>2. 1 .. 1 - 1 = {} OBVIOUS
      <4> QED BY <4>1, <4>2 DEF Covered
    <3>2. seen'.step = o.step /\ seen'.rows = staged BY <1>8, <2>2
    <3> HIDE DEF o
    <3> QED BY <3>1, <3>2 DEF ForwardSeesItsRows, RowFor
  <2> QED BY <2>1, <2>2
<1> QED BY <1>10, <1>11, <1>12, <1>13, <1>14, <1>17, <1>18 DEF StagingInv

-----------------------------------------------------------------------------
(* The theorems. *)

\* Nothing is enqueued, read or seen at the start.
LEMMA InitInv == Init => StagingInv
<1> SUFFICES ASSUME Init PROVE StagingInv OBVIOUS
<1> USE DEF Init
<1>1. NoStep \in Step BY StagingAssumption DEF NoStep, Step
<1>2. 1 \in LayerId BY StagingAssumption DEF LayerId
<1>3. Zero \in Content BY DEF Content
<1>4. Len(stream) = 0 /\ stream \in Seq(Op) BY EmptySeq
<1>5. \A l \in LayerId : <<>> \in Seq(Content) BY EmptySeq
<1>6. Types BY <1>1, <1>2, <1>3, <1>4, <1>5 DEF Types, NoStep
<1>7. ForwardSeesItsRows BY DEF ForwardSeesItsRows, NoStep
<1> QED BY <1>4, <1>6, <1>7 DEF StagingInv, Quiet, Ordered, AllSound, Reads, Staged

(***************************************************************************)
(* The inductive invariant of the staged lookup: what the host has         *)
(* enqueued will, when the GPU comes to a forward, have put that forward's *)
(* rows in place, and the pool only ever fills a buffer the GPU is done    *)
(* with (_ple_stage_rows, gather_cpu, prepare_inputs).                     *)
(***************************************************************************)
THEOREM StagingInvariance == Spec => []StagingInv
<1>1. Init => StagingInv BY InitInv
<1>2. StagingInv /\ [Next]_vars => StagingInv'
  <2> SUFFICES ASSUME StagingInv, [Next]_vars PROVE StagingInv' OBVIOUS
  <2>1. CASE \E n \in 0 .. MaxTokens, padded \in 1 .. MaxTokens : Begin(n, padded)
    BY <2>1, BeginInv
  <2>2. CASE StageZero BY <2>2, StageZeroInv
  <2>3. CASE FetchIds BY <2>3, FetchIdsInv
  <2>4. CASE Submit BY <2>4, SubmitInv
  <2>5. CASE Await BY <2>5, AwaitInv
  <2>6. CASE Raise BY <2>6, RaiseInv
  <2>7. CASE Forward BY <2>7, ForwardInv
  <2>8. CASE Read BY <2>8, ReadRowInv DEF Read
  <2>9. CASE \E j \in jobs : ShortRead(j) BY <2>9, ShortReadInv
  <2>10. CASE Gpu BY <2>10, GpuInv
  <2>11. CASE UNCHANGED vars
    <3> USE <2>11 DEF vars
    <3>1. Types' /\ Quiet' /\ Ordered' /\ AllSound' BY DEF StagingInv, Types, Quiet, Ordered, AllSound
    <3>2. Reads' /\ ForwardSeesItsRows' BY DEF StagingInv, Reads, ForwardSeesItsRows
    <3>3. Staged' BY DEF StagingInv, Staged, Done
    <3> QED BY <3>1, <3>2, <3>3 DEF StagingInv
  <2> QED BY <2>1, <2>2, <2>3, <2>4, <2>5, <2>6, <2>7, <2>8, <2>9, <2>10, <2>11
       DEF Next, Host, Stop, Dead
<1> QED BY <1>1, <1>2, PTL DEF Spec

(***************************************************************************)
(* Every forward reads its own step's rows in every layer, and zeros in    *)
(* its padding, however far the GPU is behind the host.                    *)
(***************************************************************************)
THEOREM ForwardSafety == Spec => []ForwardSeesItsRows
<1>1. StagingInv => ForwardSeesItsRows BY DEF StagingInv
<1> QED BY <1>1, StagingInvariance, PTL

(***************************************************************************)
(* No thread of the pool writes a host buffer a queued copy still reads:   *)
(* the blocking copy of the row ids comes before every gather.             *)
(***************************************************************************)
THEOREM BufferSafety == Spec => []NoReadOverQueuedCopy
<1>1. StagingInv => NoReadOverQueuedCopy
  <2> SUFFICES ASSUME StagingInv, stream # <<>> PROVE jobs = {} /\ pc # "gather"
    <3>1. stream = <<>> => DOMAIN stream = {} OBVIOUS
    <3> QED BY <3>1 DEF NoReadOverQueuedCopy
  <2> QED BY DEF StagingInv, Quiet
<1> QED BY <1>1, StagingInvariance, PTL

\* Type correctness: a job never reads past its buffer (gather_cpu).
THEOREM StagingTypes == Spec => []TypeOK
<1>1. StagingInv => TypeOK
  <2> SUFFICES ASSUME StagingInv PROVE TypeOK OBVIOUS
  <2>1. Types /\ step.n \in Nat BY Numbers DEF StagingInv
  <2>2. ASSUME NEW j \in jobs PROVE j.at \in j.first .. j.last /\ j.last <= Len(pinned[j.layer])
    <3>1. /\ j.layer = layer /\ j.first \in Nat /\ j.at \in Nat /\ j.last \in Nat
          /\ j.first <= j.at /\ j.at <= j.last /\ j.last <= step.n
          /\ step.n <= Len(pinned[layer]) /\ layer \in LayerId
      BY JobsInv
    <3>2. Len(pinned[layer]) \in Nat BY <2>1, <3>1, LenProperties DEF Types
    <3> QED BY <2>1, <3>1, <3>2
  <2>3. \A i \in DOMAIN stream : stream[i].op \in {"zero", "copy", "pad", "forward"}
    <3>1. DOMAIN stream = 1 .. Len(stream) BY <2>1, LenProperties DEF Types
    <3>2. \A p \in 1 .. Len(stream) : stream[p] \in Op BY <2>1, Numbers
    <3>3. \A x \in Op : x.op \in {"zero", "copy", "pad", "forward"} BY DEF Op
    <3> QED BY <3>1, <3>2, <3>3
  <2> QED BY <2>1, <2>2, <2>3 DEF TypeOK, Types
<1> QED BY <1>1, StagingInvariance, PTL

-----------------------------------------------------------------------------
(* The table: its geometry. *)

Row == 0 .. VocabRows - 1
Shard == [part : Nat, first : Nat, rows : Nat, width : Nat]

\* The ranks share the rows out evenly, every row is one rank's.
LEMMA RankFacts ==
  /\ VocabRows \in Nat \ {0} /\ NumRanks \in Nat \ {0} /\ RankRows \in Nat \ {0}
  /\ VocabRows = NumRanks * RankRows /\ 0 \in Ranks
  /\ \A r \in Ranks : Start(r) \in Nat /\ Start(r) + RankRows <= VocabRows
<1>1. VocabRows \in Nat \ {0} /\ NumRanks \in Nat \ {0} BY TableAssumption
<1>2. VocabRows = NumRanks * RankRows /\ RankRows \in Nat
  BY <1>1, TableAssumption, MultipleFacts, DivFacts DEF RankRows
<1>3. RankRows # 0 BY <1>1, <1>2
<1>4. ASSUME NEW r \in Ranks PROVE Start(r) \in Nat /\ Start(r) + RankRows <= VocabRows
  <2>1. r \in Nat /\ r + 1 <= NumRanks BY <1>1, <1>4 DEF Ranks
  <2>2. Start(r) = RankRows * r BY <1>2, <2>1 DEF Start
  <2>3. RankRows * r \in Nat BY <1>2, <2>1
  <2>4. RankRows * NumRanks >= RankRows * r + RankRows
    BY <1>1, <1>2, <1>3, <2>1, MulGap
  <2>5. VocabRows = RankRows * NumRanks BY <1>1, <1>2
  <2> QED BY <1>1, <1>2, <2>2, <2>3, <2>4, <2>5
<1> QED BY <1>1, <1>2, <1>3, <1>4 DEF Ranks

LEMMA OwnerOfRow ==
  ASSUME NEW i \in Row
  PROVE  \E r \in Ranks :
           /\ i - Start(r) \in 0 .. RankRows - 1
           /\ \A q \in Ranks : i - Start(q) \in 0 .. RankRows - 1 => q = r
<1> DEFINE r == i \div RankRows
<1>1. /\ i \in Nat /\ i < VocabRows /\ RankRows \in Nat \ {0} /\ NumRanks \in Nat \ {0}
      /\ VocabRows = NumRanks * RankRows
  BY RankFacts DEF Row
<1>2. r \in Nat /\ i % RankRows \in 0 .. RankRows - 1 /\ i = RankRows * r + (i % RankRows)
  BY <1>1, DivFacts
<1> HIDE DEF r
<1>3. r < NumRanks
  <2> SUFFICES ASSUME r >= NumRanks PROVE FALSE BY <1>1, <1>2
  <2>1. RankRows * r >= RankRows * NumRanks BY <1>1, <1>2
  <2>2. RankRows * r \in Int /\ VocabRows = RankRows * NumRanks BY <1>1, <1>2
  <2> QED BY <1>1, <1>2, <2>1, <2>2
<1>4. r \in Ranks BY <1>1, <1>2, <1>3 DEF Ranks
<1>5. Start(r) = RankRows * r /\ RankRows * r \in Int BY <1>1, <1>2 DEF Start
<1>6. i - Start(r) \in 0 .. RankRows - 1 BY <1>1, <1>2, <1>5
<1>7. ASSUME NEW q \in Ranks, i - Start(q) \in 0 .. RankRows - 1 PROVE q = r
  <2>1. q \in Int /\ Start(q) = RankRows * q /\ RankRows * q \in Int
    BY <1>1, <1>7 DEF Ranks, Start
  <2>2. i = RankRows * q + (i - Start(q)) BY <1>1, <2>1
  <2>3. i \div RankRows = q BY <1>1, <1>7, <2>1, <2>2, QuotientIs
  <2> QED BY <2>3 DEF r
<1> QED BY <1>4, <1>6, <1>7

\* The parts load_weights expects cover the rows.
LEMMA PartFacts ==
  /\ Parts \in Nat \ {0} /\ PartSize \in Nat \ {0} /\ PartSize <= VocabRows
  /\ VocabRows <= PartSize * Parts
  /\ \A p \in Nat : PartStart(p) \in Nat /\ PartStart(p) = PartSize * p /\ PartRows(p) \in Nat
  /\ PartRows(0) = PartSize
<1>1. VocabRows \in Nat \ {0} /\ Parts \in Nat \ {0} BY TableAssumption
<1>2. VocabRows + Parts - 1 \in Nat BY <1>1
<1>3. /\ PartSize \in Nat /\ (VocabRows + Parts - 1) % Parts \in 0 .. Parts - 1
      /\ VocabRows + Parts - 1 = Parts * PartSize + ((VocabRows + Parts - 1) % Parts)
  BY <1>1, <1>2, DivFacts DEF PartSize
<1>4. Parts * PartSize \in Nat /\ VocabRows <= Parts * PartSize BY <1>1, <1>3
<1>5. PartSize # 0 BY <1>1, <1>3, <1>4
<1>6. PartSize <= VocabRows
  <2> SUFFICES ASSUME PartSize > VocabRows PROVE FALSE BY <1>1, <1>3
  <2>1. Parts * PartSize >= Parts * VocabRows + Parts BY <1>1, <1>3, MulGap
  <2>2. Parts * VocabRows >= VocabRows BY <1>1
  <2>3. Parts * VocabRows \in Nat BY <1>1
  <2> QED BY <1>1, <1>3, <1>4, <2>1, <2>2, <2>3
<1>7. ASSUME NEW p \in Nat
      PROVE  PartStart(p) \in Nat /\ PartStart(p) = PartSize * p /\ PartRows(p) \in Nat
  <2>1. PartStart(p) \in Nat /\ PartStart(p) = PartSize * p BY <1>3 DEF PartStart
  <2> QED BY <1>1, <1>3, <2>1 DEF PartRows, Most, Least
<1>8. PartRows(0) = PartSize
  <2>1. PartStart(0) = 0 BY <1>3 DEF PartStart
  <2> QED BY <1>1, <1>3, <1>6, <2>1 DEF PartRows, Most, Least
<1>9. PartSize * Parts = Parts * PartSize BY <1>1, <1>3
<1> QED BY <1>1, <1>3, <1>4, <1>5, <1>6, <1>7, <1>8, <1>9

LEMMA PartRowsAre ==
  ASSUME NEW p \in Nat, NEW start \in Nat, start = PartStart(p)
  PROVE  /\ start + PartSize <= VocabRows => PartRows(p) = PartSize
         /\ start <= VocabRows /\ VocabRows <= start + PartSize => PartRows(p) = VocabRows - start
<1>1. PartSize \in Nat /\ VocabRows \in Nat BY PartFacts, RankFacts
<1> QED BY <1>1 DEF PartRows, Most, Least

\* Shard e has row k of the table as load_weights counts.
InShard(e, k) == k - PartStart(e.part) \in 0 .. e.rows - 1

LEMMA PartOfRow ==
  ASSUME NEW k \in Row
  PROVE  \E p \in 0 .. Parts - 1 : k - PartStart(p) \in 0 .. PartRows(p) - 1
<1> DEFINE p == k \div PartSize
<1>1. /\ k \in Nat /\ k < VocabRows /\ VocabRows \in Nat
      /\ PartSize \in Nat \ {0} /\ Parts \in Nat \ {0} /\ VocabRows <= PartSize * Parts
  BY RankFacts, PartFacts DEF Row
<1>2. p \in Nat /\ k % PartSize \in 0 .. PartSize - 1 /\ k = PartSize * p + (k % PartSize)
  BY <1>1, DivFacts
<1> HIDE DEF p
<1>3. PartSize * p \in Nat /\ PartSize * Parts \in Nat BY <1>1, <1>2
<1>4. p < Parts
  <2> SUFFICES ASSUME p >= Parts PROVE FALSE BY <1>1, <1>2
  <2>1. PartSize * p >= PartSize * Parts BY <1>1, <1>2
  <2> QED BY <1>1, <1>2, <1>3, <2>1
<1>5. PartStart(p) = PartSize * p BY <1>2, PartFacts
<1>6. k - PartStart(p) \in Nat /\ k - PartStart(p) < PartSize /\ k - PartStart(p) < VocabRows - PartStart(p)
  BY <1>1, <1>2, <1>3, <1>5
<1>7. k - PartStart(p) \in 0 .. PartRows(p) - 1
  BY <1>1, <1>3, <1>5, <1>6 DEF PartRows, Most, Least
<1> QED BY <1>1, <1>2, <1>4, <1>7

-----------------------------------------------------------------------------
(* The table: what a checkpoint that can be opened holds. *)

LEMMA ShardFacts ==
  ASSUME ckpt \in Seq(Shard)
  PROVE  /\ NumShards \in Nat
         /\ \A i \in 1 .. NumShards :
              /\ ckpt[i] \in Shard /\ ckpt[i].part \in Nat /\ ckpt[i].first \in Nat
              /\ ckpt[i].rows \in Nat /\ ckpt[i].width \in Nat
<1>1. NumShards \in Nat /\ \A i \in 1 .. NumShards : ckpt[i] \in Shard BY DEF NumShards
<1>2. \A e \in Shard : e.part \in Nat /\ e.first \in Nat /\ e.rows \in Nat /\ e.width \in Nat
  BY DEF Shard
<1> QED BY <1>1, <1>2

LEMMA RowSums ==
  ASSUME ckpt \in Seq(Shard)
  PROVE  /\ RowsUpTo[0] = 0 /\ RowsUpTo \in [0 .. NumShards -> Nat]
         /\ \A i \in 0 .. NumShards - 1 : RowsUpTo[i + 1] = RowsUpTo[i] + ckpt[i + 1].rows
<1> DEFINE n == NumShards
           rows == [i \in 0 .. n - 1 |-> ckpt[i + 1].rows]
           Sums(g) == g = [i \in 0 .. n |-> IF i = 0 THEN 0 ELSE g[i - 1] + ckpt[i].rows]
<1>1. n \in Nat /\ \A i \in 1 .. n : ckpt[i] \in Shard /\ ckpt[i].rows \in Nat
  BY ShardFacts
<1>2. rows \in [0 .. n - 1 -> Nat]
  <2>1. \A i \in 0 .. n - 1 : i + 1 \in 1 .. n BY <1>1
  <2> QED BY <1>1, <2>1
<1>3. \A i \in 0 .. n : i # 0 => i - 1 \in 0 .. n - 1 /\ rows[i - 1] = ckpt[i].rows
  BY <1>1
<1>4. RowsUpTo = CHOOSE g : Sums(g) BY DEF RowsUpTo
<1>5. \A i \in 0 .. n - 1 : rows[i] = ckpt[i + 1].rows OBVIOUS
<1> HIDE DEF n, rows
<1>6. PICK g \in [0 .. n -> Nat] : g = [i \in 0 .. n |-> IF i = 0 THEN 0 ELSE g[i - 1] + rows[i - 1]]
  BY <1>1, <1>2, PartialSums
<1>7. Sums(g) BY <1>3, <1>6
<1>8. Sums(RowsUpTo)
  <2> HIDE DEF Sums
  <2> QED BY <1>4, <1>7
<1>9. RowsUpTo = [i \in 0 .. n |-> RowsUpTo[i]] BY <1>8
<1>10. \A i \in 0 .. n : RowsUpTo[i] = IF i = 0 THEN 0 ELSE RowsUpTo[i - 1] + rows[i - 1]
  BY <1>3, <1>8
<1> DEFINE f == RowsUpTo
<1> HIDE DEF Sums, f
<1>11. f = [i \in 0 .. n |-> f[i]] BY <1>9 DEF f
<1>12. \A i \in 0 .. n : f[i] = IF i = 0 THEN 0 ELSE f[i - 1] + rows[i - 1] BY <1>10 DEF f
<1>13. /\ f \in [0 .. n -> Nat] /\ f[0] = 0
       /\ \A i \in 0 .. n - 1 : f[i + 1] = f[i] + rows[i]
  <2>1. n \in Nat BY <1>1
  <2> QED BY <2>1, <1>2, <1>11, <1>12, SumFacts
<1> QED BY <1>5, <1>13 DEF f, n

\* Each part once.
AllParts ==
  /\ ckpt \in Seq(Shard) /\ NumShards > 0
  /\ {ckpt[i].part : i \in 1 .. NumShards} = 0 .. NumShards - 1

LEMMA PartsOnce ==
  ASSUME AllParts, NEW i \in 1 .. NumShards, NEW j \in 1 .. NumShards,
         ckpt[i].part = ckpt[j].part
  PROVE  i = j
<1> DEFINE n == NumShards
           part == [k \in 1 .. n |-> ckpt[k].part]
<1>1. n \in Nat \ {0} BY DEF AllParts, NumShards
<1>2. part \in Surjection(1 .. n, 0 .. n - 1)
  <2>1. {ckpt[k].part : k \in 1 .. n} = 0 .. n - 1 BY DEF AllParts
  <2>2. part \in [1 .. n -> 0 .. n - 1] BY <2>1
  <2>3. \A p \in 0 .. n - 1 : \E k \in 1 .. n : part[k] = p BY <2>1
  <2> QED BY <2>2, <2>3 DEF Surjection
<1> HIDE DEF n
<1>3. IsFiniteSet(1 .. n) /\ Cardinality(1 .. n) = n /\ Cardinality(0 .. n - 1) = n
  <2>1. 1 \in Int /\ 0 \in Int /\ n \in Int /\ n - 1 \in Int /\ ~(1 > n) /\ ~(0 > n - 1)
    BY <1>1
  <2>2. IsFiniteSet(1 .. n) /\ Cardinality(1 .. n) = n - 1 + 1 BY <2>1, FS_Interval
  <2>3. Cardinality(0 .. n - 1) = n - 1 - 0 + 1 BY <2>1, FS_Interval
  <2> QED BY <1>1, <2>2, <2>3
<1> HIDE DEF part
<1>4. part \in Injection(1 .. n, 0 .. n - 1)
  BY <1>2, <1>3, FS_SurjSameCardinalityImpliesInj
<1>5. \A a, b \in 1 .. n : part[a] = part[b] => a = b BY <1>4 DEF Injection, IsInjective
<1> QED BY <1>5 DEF part, n

\* All parts but the last of w rows.
LEMMA EvenSum ==
  ASSUME AllParts, NEW w \in Nat,
         NEW j \in 1 .. NumShards, ckpt[j].part = NumShards - 1,
         \A i \in 1 .. NumShards : ckpt[i].part < NumShards - 1 => ckpt[i].rows = w
  PROVE  SumOfRows = w * (NumShards - 1) + ckpt[j].rows
<1> DEFINE n == NumShards
           x == ckpt[j].rows - w
           Extra(k) == IF k >= j THEN x ELSE 0
           S == {k \in 0 .. n : RowsUpTo[k] = w * k + Extra(k)}
<1>1. n \in Nat \ {0} /\ \A i \in 1 .. n : ckpt[i].rows \in Nat /\ ckpt[i].part \in 0 .. n - 1
  <2>1. \A i \in 1 .. n : ckpt[i].part \in 0 .. n - 1 BY DEF AllParts
  <2> QED BY <2>1, ShardFacts DEF AllParts
<1>2. /\ RowsUpTo[0] = 0 /\ \A k \in 0 .. n : RowsUpTo[k] \in Nat
      /\ \A k \in 0 .. n - 1 : RowsUpTo[k + 1] = RowsUpTo[k] + ckpt[k + 1].rows
  BY RowSums DEF AllParts
<1>3. x \in Int /\ ckpt[j].rows = w + x BY <1>1
<1>4. \A i \in 1 .. n : i # j => ckpt[i].rows = w
  <2> SUFFICES ASSUME NEW i \in 1 .. n, i # j PROVE ckpt[i].part < n - 1 OBVIOUS
  <2>1. ckpt[i].part # n - 1 BY PartsOnce
  <2> QED BY <1>1, <2>1
<1> HIDE DEF n, x
<1>5. j \in 1 .. n BY DEF n
<1>6. 0 \in S
  <2>1. Extra(0) = 0 BY <1>1, <1>5
  <2> QED BY <1>1, <1>2, <2>1
<1>7. ASSUME NEW k \in 0 .. n - 1, k \in S PROVE k + 1 \in S
  <2>1. /\ k + 1 \in 1 .. n /\ w * (k + 1) = w * k + w /\ w * k \in Int
        /\ RowsUpTo[k] = w * k + Extra(k) /\ RowsUpTo[k + 1] = RowsUpTo[k] + ckpt[k + 1].rows
    BY <1>1, <1>2, <1>7
  <2>2. CASE k + 1 = j
    <3>1. Extra(k) = 0 /\ Extra(k + 1) = x /\ ckpt[k + 1].rows = w + x
      BY <1>1, <1>3, <2>2
    <3> QED BY <1>1, <1>3, <2>1, <3>1
  <2>3. CASE k + 1 # j
    <3>1. Extra(k + 1) = Extra(k) /\ Extra(k) \in Int BY <1>1, <1>3, <1>5, <2>3
    <3>2. ckpt[k + 1].rows = w BY <1>4, <2>1, <2>3
    <3> HIDE DEF Extra
    <3> QED BY <1>1, <2>1, <3>1, <3>2
  <2> QED BY <2>2, <2>3
<1>8. 0 .. n \subseteq S
  <2> HIDE DEF S
  <2> QED BY <1>1, <1>6, <1>7, ClosedUpwards
<1>9. RowsUpTo[n] = w * n + x
  <2>1. n \in S BY <1>1, <1>8
  <2>2. Extra(n) = x BY <1>1, <1>5
  <2> QED BY <2>1, <2>2
<1>10. w * n = w * (n - 1) + w /\ w * (n - 1) \in Int BY <1>1
<1>11. SumOfRows = RowsUpTo[n] BY DEF SumOfRows, n
<1> QED BY <1>1, <1>3, <1>5, <1>9, <1>10, <1>11 DEF n

LEMMA OpenedFacts ==
  ASSUME ckpt \in Seq(Shard), Openable
  PROVE  /\ AllParts /\ NumShards \in Nat \ {0} /\ DOMAIN Opened = 0 .. NumShards - 1
         /\ \A p \in 0 .. NumShards - 1 :
              /\ Opened[p].part = p /\ Opened[p].rows \in Nat /\ Opened[p].first \in Nat
              /\ \E i \in 1 .. NumShards : Opened[p] = ckpt[i]
              /\ p < NumShards - 1 => Opened[p].rows = Opened[0].rows
         /\ VocabRows = Opened[0].rows * (NumShards - 1) + Opened[NumShards - 1].rows
<1> DEFINE n == NumShards
<1>1. AllParts /\ n \in Nat \ {0} BY ShardFacts DEF AllParts, Openable
<1>2. /\ \A p \in 0 .. n - 1 : \E i \in 1 .. n : ckpt[i].part = p
      /\ \A i, j \in 1 .. n :
           ckpt[i].part < n - 1 /\ ckpt[j].part = 0 => ckpt[i].rows = ckpt[j].rows
      /\ SumOfRows = VocabRows
  <2>1. {ckpt[i].part : i \in 1 .. n} = 0 .. n - 1 BY DEF Openable
  <2> QED BY <2>1 DEF Openable
<1> DEFINE At(p) == CHOOSE i \in 1 .. n : ckpt[i].part = p
<1>3. ASSUME NEW p \in 0 .. n - 1
      PROVE  At(p) \in 1 .. n /\ ckpt[At(p)].part = p /\ Opened[p] = ckpt[At(p)]
  <2>1. \E i \in 1 .. n : ckpt[i].part = p BY <1>2
  <2>2. At(p) \in 1 .. n /\ ckpt[At(p)].part = p BY <2>1
  <2>3. Opened[p] = ckpt[At(p)] BY DEF Opened
  <2> QED BY <2>2, <2>3
<1> HIDE DEF At
<1>4. 0 \in 0 .. n - 1 /\ n - 1 \in 0 .. n - 1 BY <1>1
<1>5. ASSUME NEW p \in 0 .. n - 1
      PROVE  /\ Opened[p].part = p /\ Opened[p].rows \in Nat /\ Opened[p].first \in Nat
             /\ \E i \in 1 .. n : Opened[p] = ckpt[i]
             /\ p < n - 1 => Opened[p].rows = Opened[0].rows
  <2>1. At(p) \in 1 .. n /\ ckpt[At(p)].part = p /\ Opened[p] = ckpt[At(p)] BY <1>3
  <2>2. At(0) \in 1 .. n /\ ckpt[At(0)].part = 0 /\ Opened[0] = ckpt[At(0)] BY <1>3, <1>4
  <2>3. Opened[p].rows \in Nat /\ Opened[p].first \in Nat BY <2>1, ShardFacts
  <2> QED BY <1>2, <2>1, <2>2, <2>3
<1>6. \A i \in 1 .. n : ckpt[i].part < n - 1 => ckpt[i].rows = Opened[0].rows
  BY <1>2, <1>3, <1>4
<1>7. SumOfRows = Opened[0].rows * (n - 1) + Opened[n - 1].rows
  <2>1. At(n - 1) \in 1 .. n /\ ckpt[At(n - 1)].part = n - 1 /\ Opened[n - 1] = ckpt[At(n - 1)]
    BY <1>3, <1>4
  <2>2. Opened[0].rows \in Nat BY <1>4, <1>5
  <2> QED BY <1>1, <1>6, <2>1, <2>2, EvenSum
<1>8. DOMAIN Opened = 0 .. n - 1 BY DEF Opened
<1> QED BY <1>1, <1>2, <1>5, <1>7, <1>8

\* The opened shards hold every row at its place, if they are as they were written.
LEMMA DiskRowIs ==
  ASSUME ckpt \in Seq(Shard), Openable, AsWritten(ckpt),
         NEW r \in Ranks, table[r] = Opened, NEW k \in Row
  PROVE  DiskRow(r, k) = k /\ ShardRows(r) \in Nat \ {0}
<1> DEFINE n == NumShards
           w == Opened[0].rows
           x == Opened[n - 1].rows
           s == k \div w
           l == k % w
<1>1. /\ n \in Nat \ {0} /\ DOMAIN Opened = 0 .. n - 1 /\ VocabRows = w * (n - 1) + x
      /\ \A p \in 0 .. n - 1 :
           /\ Opened[p].part = p /\ Opened[p].rows \in Nat /\ Opened[p].first \in Nat
           /\ \E i \in 1 .. n : Opened[p] = ckpt[i]
           /\ p < n - 1 => Opened[p].rows = w
  BY OpenedFacts
<1>2. PICK size \in Nat \ {0} : \A p \in 0 .. n - 1 :
        /\ Opened[p].first = p * size /\ Opened[p].rows <= size
        /\ \A q \in 0 .. n - 1 : q > p /\ Opened[q].rows > 0 => Opened[p].rows = size
  <2>1. PICK size \in Nat \ {0} : \A i \in 1 .. n :
          /\ ckpt[i].first = ckpt[i].part * size
          /\ ckpt[i].rows <= size
          /\ (\E j \in 1 .. n : ckpt[j].part > ckpt[i].part /\ ckpt[j].rows > 0)
               => ckpt[i].rows = size
    BY DEF AsWritten, NumShards
  <2>2. ASSUME NEW p \in 0 .. n - 1
        PROVE  /\ Opened[p].first = p * size /\ Opened[p].rows <= size
               /\ \A q \in 0 .. n - 1 : q > p /\ Opened[q].rows > 0 => Opened[p].rows = size
    <3>1. PICK i \in 1 .. n : Opened[p] = ckpt[i] BY <1>1
    <3>2. ckpt[i].part = p BY <1>1, <3>1
    <3>3. ASSUME NEW q \in 0 .. n - 1, q > p, Opened[q].rows > 0 PROVE Opened[p].rows = size
      <4>1. PICK j \in 1 .. n : Opened[q] = ckpt[j] BY <1>1
      <4>2. ckpt[j].part = q BY <1>1, <4>1
      <4> QED BY <2>1, <3>1, <3>2, <3>3, <4>1, <4>2
    <3> QED BY <2>1, <3>1, <3>2, <3>3
  <2> QED BY <2>2
<1>3. k \in Nat /\ k < VocabRows /\ VocabRows \in Nat \ {0} BY RankFacts DEF Row
<1>4. 0 \in 0 .. n - 1 /\ n - 1 \in 0 .. n - 1 /\ w \in Nat /\ x \in Nat /\ x <= size
  BY <1>1, <1>2
<1>5. n > 1 /\ x > 0 => w = size BY <1>1, <1>2, <1>4
<1>6. n = 1 => w = x /\ w = VocabRows BY <1>1, <1>4
<1>7. w # 0
  <2> SUFFICES ASSUME w = 0 PROVE FALSE OBVIOUS
  <2>1. VocabRows = x BY <1>1, <1>4
  <2> QED BY <1>1, <1>3, <1>5, <1>6, <2>1
<1> HIDE DEF w, x, n
<1>8. s \in Nat /\ l \in 0 .. w - 1 /\ k = w * s + l BY <1>3, <1>4, <1>7, DivFacts
<1> HIDE DEF s, l
<1>9. w * s \in Nat /\ w * (n - 1) \in Nat BY <1>1, <1>4, <1>8
<1>10. s < n
  <2> SUFFICES ASSUME s >= n PROVE FALSE BY <1>1, <1>8
  <2>1. w * s >= w * (n - 1) + w
    <3>1. s \in Int /\ n - 1 \in Int /\ s > n - 1 /\ w \in Nat \ {0} BY <1>1, <1>4, <1>7, <1>8
    <3> QED BY <3>1, MulGap
  <2>2. w < x
    <3>1. k < w * (n - 1) + x /\ k >= w * s BY <1>1, <1>3, <1>8, <1>9
    <3> QED BY <1>4, <1>9, <1>3, <2>1, <3>1
  <2> QED BY <1>1, <1>2, <1>4, <1>5, <1>6, <2>2
<1>11. s \in 0 .. n - 1 BY <1>1, <1>8, <1>10
<1>12. l < Opened[s].rows
  <2>1. CASE s < n - 1 BY <1>1, <1>4, <1>8, <1>11, <2>1
  <2>2. CASE s = n - 1
    <3>1. Opened[s].rows = x BY <2>2 DEF x, n
    <3> QED BY <1>1, <1>3, <1>4, <1>8, <1>9, <2>2, <3>1
  <2> QED BY <1>1, <1>11, <2>1, <2>2
<1>13. Opened[s].first + l = k
  <2>1. Opened[s].first = s * size BY <1>2, <1>11
  <2>2. CASE s = 0 BY <1>4, <1>8, <2>1, <2>2
  <2>3. CASE s # 0
    <3>1. Opened[s].rows \in Nat /\ Opened[s].rows > 0 BY <1>1, <1>4, <1>8, <1>11, <1>12
    <3>2. Opened[0].rows = size
      <4>1. s > 0 BY <1>8, <2>3
      <4> QED BY <1>2, <1>4, <1>11, <3>1, <4>1
    <3>3. w = size BY <3>2 DEF w
    <3>4. s * w = w * s BY <1>4, <1>8
    <3> QED BY <1>8, <2>1, <3>3, <3>4
  <2> QED BY <2>2, <2>3
<1>14. ShardRows(r) = w BY DEF ShardRows, w
<1>15. ShardRows(r) \in Nat \ {0} BY <1>4, <1>7, <1>14
<1> QED BY <1>1, <1>11, <1>12, <1>13, <1>14, <1>15 DEF DiskRow, s, l

\* A whole checkpoint as load_weights expects it can be opened.
LEMMA IntactOpens ==
  ASSUME ckpt \in Seq(Shard), Intact(ckpt), (Parts - 1) * PartSize <= VocabRows
  PROVE  Openable
<1>1. /\ NumShards = Parts /\ Parts \in Nat \ {0} /\ PartSize \in Nat \ {0}
      /\ VocabRows \in Nat \ {0} /\ PartSize <= VocabRows /\ VocabRows <= PartSize * Parts
  BY PartFacts, TableAssumption DEF Intact, NumShards
<1>2. Parts \in Nat \ {0} BY TableAssumption
<1>3. \A i \in 1 .. Parts : /\ ckpt[i].part \in 0 .. Parts - 1 /\ ckpt[i].width = Width
                            /\ ckpt[i].rows = PartRows(ckpt[i].part)
  <2> TAKE i \in 1 .. Parts
  <2>1. ckpt[i].part \in Nat BY <1>1, ShardFacts
  <2>2. Expected(ckpt[i]) BY DEF Intact
  <2> QED BY <1>2, <2>1, <2>2 DEF Expected
<1>4. \A p \in 0 .. Parts - 1 : \E i \in 1 .. Parts : ckpt[i].part = p
  BY DEF Intact, Complete
<1>5. {ckpt[i].part : i \in 1 .. NumShards} = 0 .. NumShards - 1
  BY <1>1, <1>3, <1>4
<1>6. AllParts
  <2>1. NumShards > 0 BY <1>1
  <2> QED BY <1>5, <2>1 DEF AllParts
<1> DEFINE full == PartSize * (Parts - 1)
<1>7. full \in Nat /\ full <= VocabRows /\ PartSize * Parts = full + PartSize
  <2>1. (Parts - 1) * PartSize = full /\ full \in Nat BY <1>1
  <2>2. PartSize * Parts = full + PartSize BY <1>1
  <2> QED BY <2>1, <2>2
<1>8. PartRows(Parts - 1) = VocabRows - full
  <2>1. Parts - 1 \in Nat /\ PartStart(Parts - 1) = full BY <1>1, PartFacts
  <2> HIDE DEF full
  <2>2. VocabRows <= full + PartSize BY <1>1, <1>7
  <2> QED BY <1>7, <2>1, <2>2, PartRowsAre
<1>9. ASSUME NEW p \in Nat, p < Parts - 1 PROVE PartRows(p) = PartSize
  <2>1. full >= PartSize * p + PartSize
    <3>1. Parts - 1 \in Int /\ p \in Int /\ Parts - 1 > p BY <1>1, <1>9
    <3> QED BY <1>1, <3>1, MulGap
  <2>2. PartStart(p) = PartSize * p /\ PartStart(p) \in Nat BY PartFacts
  <2> HIDE DEF full
  <2>3. PartStart(p) + PartSize <= VocabRows BY <1>1, <1>7, <2>1, <2>2
  <2> QED BY <2>2, <2>3, PartRowsAre
<1>10. SumOfRows = VocabRows
  <2>1. PICK j \in 1 .. Parts : ckpt[j].part = Parts - 1
    <3>1. Parts - 1 \in 0 .. Parts - 1 BY <1>1
    <3> QED BY <1>4, <3>1
  <2>2. ckpt[j].rows = VocabRows - full BY <1>3, <1>8, <2>1
  <2>3. \A i \in 1 .. NumShards : ckpt[i].part < NumShards - 1 => ckpt[i].rows = PartSize
    <3> TAKE i \in 1 .. NumShards
    <3>1. ckpt[i].part \in Nat /\ ckpt[i].rows = PartRows(ckpt[i].part) BY <1>1, <1>3
    <3> QED BY <1>1, <1>9, <3>1
  <2>4. SumOfRows = PartSize * (NumShards - 1) + ckpt[j].rows
    BY <1>1, <1>6, <2>1, <2>3, EvenSum
  <2>5. SumOfRows = full + ckpt[j].rows BY <1>1, <2>4
  <2> HIDE DEF full
  <2> QED BY <1>1, <1>7, <2>2, <2>5
<1>11. ASSUME NEW i \in 1 .. NumShards, NEW j \in 1 .. NumShards,
              ckpt[i].part < NumShards - 1, ckpt[j].part = 0
       PROVE  ckpt[i].rows = ckpt[j].rows
  <2>1. ckpt[i].part \in 0 .. Parts - 1 /\ ckpt[i].part < Parts - 1 BY <1>1, <1>3, <1>11
  <2>2. ckpt[i].part \in Nat /\ 0 \in Nat /\ 0 < Parts - 1 BY <1>2, <2>1
  <2>3. ckpt[i].rows = PartRows(ckpt[i].part) /\ ckpt[j].rows = PartRows(0)
    BY <1>1, <1>3, <1>11
  <2>4. PartRows(ckpt[i].part) = PartSize /\ PartRows(0) = PartSize
    BY <1>9, <2>1, <2>2
  <2> QED BY <2>3, <2>4
<1>12. \A i, j \in 1 .. NumShards : ckpt[i].width = ckpt[j].width BY <1>1, <1>3
<1>13. NumShards > 0 BY <1>1
<1> HIDE DEF full
<1> QED BY <1>5, <1>10, <1>11, <1>12, <1>13 DEF Openable

-----------------------------------------------------------------------------
(* The table: the invariant. *)

TableTypes ==
  /\ mode \in {"vram", "disk", "resident", "none"}
  /\ ckpt \in Checkpoints \union {<<>>}
  /\ phase \in [Ranks -> {"weights", "slice", "ready", "refused", "serving"}]
  /\ next \in [Ranks -> Nat \ {0}]
  /\ weight \in [Ranks -> [0 .. RankRows - 1 -> RowContent]]
  /\ table \in [Ranks -> {<<>>, Opened}]

\* Row k of the table as a shard that has it holds it.
RowOf(e, k) == e.first + (k - PartStart(e.part))

\* What load_weights has passed is as expected, and copied where rows are copied.
Loaded ==
  /\ mode = "vram" => Complete(ckpt)
  /\ \A r \in Ranks :
       /\ next[r] <= Len(ckpt) + 1
       /\ \A j \in 1 .. next[r] - 1 : Expected(ckpt[j])
       /\ phase[r] = "ready" => next[r] > Len(ckpt)
       /\ mode = "vram" =>
            \A i \in 0 .. RankRows - 1, j \in 1 .. next[r] - 1 :
              InShard(ckpt[j], Start(r) + i) =>
                \E m \in 1 .. next[r] - 1 : /\ InShard(ckpt[m], Start(r) + i)
                                            /\ weight[r][i] = RowOf(ckpt[m], Start(r) + i)

\* A table is made of shards that fit, before anything reads it.
TablesOpen ==
  /\ mode = "none" => \A r \in Ranks : phase[r] = "serving"
  /\ \A r \in Ranks :
       /\ table[r] # <<>> => table[r] = Opened /\ Openable
       /\ mode \in {"disk", "resident"} /\ phase[r] \in {"slice", "ready"} => table[r] # <<>>
       /\ phase[r] = "slice" => mode = "resident"

\* A slab is the beginning of the rank's range, and the whole of it when it is done.
SlabsAreRows ==
  AsWritten(ckpt) =>
    /\ slab \in [Ranks -> Seq(Nat)]
    /\ \A r \in Ranks :
         /\ Len(slab[r]) <= RankRows
         /\ \A k \in 1 .. Len(slab[r]) : slab[r][k] = Start(r) + k - 1
         /\ mode = "resident" /\ phase[r] = "weights" => Len(slab[r]) \in {0, RankRows}
         /\ mode = "resident" /\ phase[r] = "ready" => Len(slab[r]) = RankRows

\* A rank hashes with what has come of the checkpoint's buffers and with its own
\* otherwise, and has all of them when it is done.
BufferTypes(b) ==
  /\ b = [n \in BufferNames |-> b[n]]
  /\ \A n \in BufferNames : b[n] \in [DOMAIN OwnBuffers[n] -> Int]

Come(r, n) == IF n \in DOMAIN hash \ left[r] THEN hash[n] ELSE OwnBuffers[n]

BuffersAreLoaded ==
  /\ hash \in HashFiles \union {<<>>}
  /\ left \in [Ranks -> SUBSET DOMAIN hash]
  /\ buffers = [r \in Ranks |-> buffers[r]]
  /\ \A r \in Ranks :
       /\ BufferTypes(buffers[r])
       /\ phase[r] = "ready" => left[r] = {}
       /\ mode # "none" => \A n \in BufferNames : buffers[r][n] = Come(r, n)
  /\ mode = "none" => \A r, q \in Ranks : buffers[r] = buffers[q]

TableInv ==
  TableTypes /\ Loaded /\ TablesOpen /\ SlabsAreRows /\ BuffersAreLoaded /\ IntactIsNotRefused

\* No step but that which loads a buffer changes one.
LEMMA SameBuffers ==
  ASSUME BuffersAreLoaded, UNCHANGED <<mode, hash, left, buffers>>,
         \A r \in Ranks : phase'[r] = "ready" => left[r] = {}
  PROVE  BuffersAreLoaded'
BY DEF BuffersAreLoaded, Come

LEMMA CheckpointIsSequence ==
  ASSUME TableTypes
  PROVE  ckpt \in Seq(Shard) /\ Len(ckpt) \in Nat
<1>1. Checkpoints \subseteq Seq(Shard) BY TableAssumption DEF Shard
<1>2. <<>> \in Seq(Shard) OBVIOUS
<1>3. ckpt \in Seq(Shard) BY <1>1, <1>2 DEF TableTypes
<1> QED BY <1>3

LEMMA SameCheckpoint ==
  ASSUME UNCHANGED ckpt
  PROVE  Opened' = Opened /\ (Openable' <=> Openable)
<1>1. NumShards' = NumShards BY DEF NumShards
<1>2. Opened' = Opened BY <1>1 DEF Opened
<1>3. RowsUpTo' = RowsUpTo BY <1>1 DEF RowsUpTo
<1>4. Openable' <=> Openable BY <1>1, <1>3 DEF Openable, SumOfRows
<1> QED BY <1>2, <1>4

LEMMA OpenedIsThere ==
  ASSUME ckpt \in Seq(Shard), Openable
  PROVE  Opened # <<>>
<1>1. 0 \in DOMAIN Opened BY OpenedFacts
<1> QED BY <1>1

LEMMA TableInit == TInit => TableInv
<1> SUFFICES ASSUME TInit PROVE TableInv OBVIOUS
<1>1. TableTypes BY TableAssumption DEF TInit, TableTypes, RowContent
<1>2. Loaded
  <2>1. Len(ckpt) \in Nat BY <1>1, CheckpointIsSequence
  <2>2. \A r \in Ranks : next[r] = 1 /\ phase[r] = "weights" BY DEF TInit
  <2>3. mode = "vram" => Complete(ckpt) BY DEF TInit
  <2> QED BY <2>1, <2>2, <2>3 DEF Loaded
<1>3. TablesOpen BY TableAssumption DEF TInit, TablesOpen
<1>4. SlabsAreRows
  <2>1. slab \in [Ranks -> Seq(Nat)] /\ \A r \in Ranks : slab[r] = <<>> /\ phase[r] = "weights"
    BY DEF TInit
  <2>2. \A r \in Ranks : Len(slab[r]) = 0 BY <2>1
  <2> QED BY <2>1, <2>2, RankFacts DEF SlabsAreRows
<1>5. IntactIsNotRefused BY DEF TInit, IntactIsNotRefused, Refused
<1>6. BuffersAreLoaded
  <2>1. /\ hash \in HashFiles /\ mode # "none"
        /\ left = [r \in Ranks |-> DOMAIN hash] /\ buffers = [r \in Ranks |-> OwnBuffers]
        /\ \A r \in Ranks : phase[r] = "weights"
    BY TableAssumption DEF TInit
  <2>2. BufferTypes(OwnBuffers) BY TableAssumption DEF BufferTypes
  <2>3. \A r \in Ranks : left[r] = DOMAIN hash /\ buffers[r] = OwnBuffers BY <2>1
  <2>4. left \in [Ranks -> SUBSET DOMAIN hash] /\ buffers = [r \in Ranks |-> buffers[r]] BY <2>1
  <2> QED BY <2>1, <2>2, <2>3, <2>4 DEF BuffersAreLoaded, Come
<1> QED BY <1>1, <1>2, <1>3, <1>4, <1>5, <1>6 DEF TableInv

\* A shard that is not as expected is refused, another is copied over what is there.
LEMMA LoadShardInv ==
  ASSUME TableInv, NEW r \in Ranks, LoadShard(r)
  PROVE  TableInv'
<1> DEFINE e == ckpt[next[r]]
<1>1. /\ phase[r] = "weights" /\ next[r] <= Len(ckpt)
      /\ UNCHANGED <<mode, ckpt, hash, left, buffers, table, slab, served>>
      /\ Opened' = Opened /\ (Openable' <=> Openable)
  BY SameCheckpoint DEF LoadShard
<1>2. /\ ckpt \in Seq(Shard) /\ Len(ckpt) \in Nat /\ next \in [Ranks -> Nat \ {0}]
      /\ phase \in [Ranks -> {"weights", "slice", "ready", "refused", "serving"}]
      /\ weight \in [Ranks -> [0 .. RankRows - 1 -> RowContent]]
  BY CheckpointIsSequence DEF TableInv, TableTypes
<1>3. e \in Shard /\ e.part \in Nat /\ e.first \in Nat /\ e.rows \in Nat
  BY <1>1, <1>2, ShardFacts DEF NumShards
<1>4. \A q \in Ranks, i \in 0 .. RankRows - 1 : Start(q) + i \in Nat BY RankFacts
<1>5. PartStart(e.part) \in Nat BY <1>3, PartFacts
<1> HIDE DEF e
<1>6. CASE ~Expected(e)
  <2>1. phase' = [phase EXCEPT ![r] = "refused"] /\ UNCHANGED <<next, weight>>
    BY <1>6 DEF LoadShard, e
  <2>2. TableTypes' BY <1>1, <1>2, <2>1 DEF TableInv, TableTypes
  <2>3. \A q \in Ranks : phase'[q] = phase[q] \/ phase'[q] = "refused" BY <1>2, <2>1
  <2>4. Loaded' BY <1>1, <2>1, <2>3 DEF TableInv, Loaded
  <2>5. TablesOpen' BY <1>1, <2>1, <2>3 DEF TableInv, TablesOpen
  <2>6. SlabsAreRows' BY <1>1, <2>1, <2>3 DEF TableInv, SlabsAreRows
  <2>7. ~Intact(ckpt)
    <3> SUFFICES ASSUME Intact(ckpt) PROVE FALSE OBVIOUS
    <3>1. next[r] \in 1 .. Parts BY <1>1, <1>2 DEF Intact
    <3> QED BY <1>6, <3>1 DEF Intact, e
  <2>8. IntactIsNotRefused' BY <1>1, <2>7 DEF IntactIsNotRefused
  <2>9. BuffersAreLoaded'
    <3>1. \A q \in Ranks : phase'[q] = "ready" => left[q] = {}
      BY <2>3 DEF TableInv, BuffersAreLoaded
    <3> QED BY <1>1, <3>1, SameBuffers DEF TableInv
  <2> QED BY <2>2, <2>4, <2>5, <2>6, <2>8, <2>9 DEF TableInv
<1>7. CASE Expected(e)
  <2>1. /\ next' = [next EXCEPT ![r] = @ + 1] /\ phase' = phase
        /\ weight' = IF mode = "vram" THEN [weight EXCEPT ![r] = Copied(r, e, @)] ELSE weight
    BY <1>7 DEF LoadShard, e
  <2>2. /\ DOMAIN Copied(r, e, weight[r]) = 0 .. RankRows - 1
        /\ \A i \in 0 .. RankRows - 1 :
             Copied(r, e, weight[r])[i] = IF InShard(e, Start(r) + i)
                                          THEN RowOf(e, Start(r) + i) ELSE weight[r][i]
    <3>1. DOMAIN weight[r] = 0 .. RankRows - 1 BY <1>2
    <3>2. \A k \in Int : k >= 0 /\ k < e.rows <=> k \in 0 .. e.rows - 1 BY <1>3
    <3>3. ASSUME NEW i \in 0 .. RankRows - 1
          PROVE  Copied(r, e, weight[r])[i] =
                   IF InShard(e, Start(r) + i) THEN RowOf(e, Start(r) + i) ELSE weight[r][i]
      <4> DEFINE k == Start(r) + i - PartStart(e.part)
      <4>1. k \in Int /\ (Start(r) + i) - PartStart(e.part) = k
        <5>1. Start(r) \in Nat BY RankFacts
        <5> QED BY <1>5, <5>1
      <4>2. Copied(r, e, weight[r])[i] =
              IF k >= 0 /\ k < e.rows THEN e.first + k ELSE weight[r][i]
        BY <3>1 DEF Copied
      <4>3. InShard(e, Start(r) + i) <=> k \in 0 .. e.rows - 1 BY <4>1 DEF InShard
      <4>4. RowOf(e, Start(r) + i) = e.first + k BY <4>1 DEF RowOf
      <4> HIDE DEF k
      <4> QED BY <3>2, <4>1, <4>2, <4>3, <4>4
    <3> QED BY <3>1, <3>3 DEF Copied
  <2>3. ASSUME NEW i \in 0 .. RankRows - 1, InShard(e, Start(r) + i)
        PROVE  RowOf(e, Start(r) + i) \in Nat
    BY <1>3, <1>4, <1>5, <2>3 DEF InShard, RowOf
  <2>4. Copied(r, e, weight[r]) \in [0 .. RankRows - 1 -> RowContent]
    <3>1. \A i \in 0 .. RankRows - 1 : Copied(r, e, weight[r])[i] \in RowContent
      BY <1>2, <2>2, <2>3 DEF RowContent
    <3>2. Copied(r, e, weight[r]) = [i \in DOMAIN weight[r] |-> Copied(r, e, weight[r])[i]]
      BY DEF Copied
    <3>3. DOMAIN weight[r] = 0 .. RankRows - 1 BY <1>2
    <3> QED BY <3>1, <3>2, <3>3
  <2>5. TableTypes'
    <3>1. weight' \in [Ranks -> [0 .. RankRows - 1 -> RowContent]] BY <1>2, <2>1, <2>4
    <3>2. next' \in [Ranks -> Nat \ {0}] BY <1>2, <2>1
    <3> QED BY <1>1, <2>1, <3>1, <3>2 DEF TableInv, TableTypes
  <2>6. Loaded'
    <3>1. ASSUME NEW q \in Ranks
          PROVE  /\ next'[q] <= Len(ckpt) + 1
                 /\ \A j \in 1 .. next'[q] - 1 : Expected(ckpt[j])
                 /\ phase[q] = "ready" => next'[q] > Len(ckpt)
      <4>1. CASE q = r
        <5>1. next'[q] = next[r] + 1 /\ next[r] \in Nat BY <1>2, <2>1, <4>1
        <5>2. ASSUME NEW j \in 1 .. next[r] + 1 - 1 PROVE Expected(ckpt[j])
          <6>1. CASE j = next[r] BY <1>7, <6>1 DEF e
          <6>2. CASE j # next[r]
            <7>1. j \in 1 .. next[r] - 1 BY <5>1, <6>2
            <7> QED BY <7>1 DEF TableInv, Loaded
          <6> QED BY <6>1, <6>2
        <5> QED BY <1>1, <1>2, <4>1, <5>1, <5>2
      <4>2. CASE q # r
        <5>1. next'[q] = next[q] BY <1>2, <2>1, <4>2
        <5> QED BY <5>1 DEF TableInv, Loaded
      <4> QED BY <4>1, <4>2
    <3>2. ASSUME mode = "vram", NEW q \in Ranks,
                 NEW i \in 0 .. RankRows - 1, NEW j \in 1 .. next'[q] - 1,
                 InShard(ckpt[j], Start(q) + i)
          PROVE  \E m \in 1 .. next'[q] - 1 : /\ InShard(ckpt[m], Start(q) + i)
                                              /\ weight'[q][i] = RowOf(ckpt[m], Start(q) + i)
      <4>1. CASE q = r
        <5>1. next'[q] = next[r] + 1 /\ next[r] \in Nat \ {0} BY <1>2, <2>1, <4>1
        <5>2. weight'[q] = Copied(r, e, weight[r]) BY <1>2, <2>1, <3>2, <4>1
        <5>3. CASE InShard(e, Start(q) + i)
          <6>1. next[r] \in 1 .. next'[q] - 1 /\ ckpt[next[r]] = e BY <5>1 DEF e
          <6>2. weight'[q][i] = RowOf(e, Start(q) + i) BY <2>2, <4>1, <5>2, <5>3
          <6> QED BY <5>3, <6>1, <6>2
        <5>4. CASE ~InShard(e, Start(q) + i)
          <6>1. j # next[r] BY <3>2, <5>4 DEF e
          <6>2. j \in 1 .. next[r] - 1 BY <5>1, <6>1
          <6>3. PICK m \in 1 .. next[r] - 1 : /\ InShard(ckpt[m], Start(r) + i)
                                              /\ weight[r][i] = RowOf(ckpt[m], Start(r) + i)
            BY <3>2, <4>1, <6>2 DEF TableInv, Loaded
          <6>4. m \in 1 .. next'[q] - 1 BY <5>1
          <6>5. weight'[q][i] = weight[r][i] BY <2>2, <4>1, <5>2, <5>4
          <6> QED BY <4>1, <6>3, <6>4, <6>5
        <5> QED BY <5>3, <5>4
      <4>2. CASE q # r
        <5>1. next'[q] = next[q] /\ weight'[q] = weight[q] BY <1>2, <2>1, <4>2
        <5> QED BY <3>2, <5>1 DEF TableInv, Loaded
      <4> QED BY <4>1, <4>2
    <3> QED BY <1>1, <2>1, <3>1, <3>2 DEF TableInv, Loaded
  <2>7. TablesOpen' BY <1>1, <2>1 DEF TableInv, TablesOpen
  <2>8. SlabsAreRows' BY <1>1, <2>1 DEF TableInv, SlabsAreRows
  <2>9. IntactIsNotRefused' BY <1>1, <2>1 DEF TableInv, IntactIsNotRefused, Refused, Fits
  <2>10. BuffersAreLoaded'
    <3>1. \A q \in Ranks : phase'[q] = "ready" => left[q] = {}
      BY <2>1 DEF TableInv, BuffersAreLoaded
    <3> QED BY <1>1, <3>1, SameBuffers DEF TableInv
  <2> QED BY <2>5, <2>6, <2>7, <2>8, <2>9, <2>10 DEF TableInv
<1> QED BY <1>6, <1>7

\* A buffer takes the place of one of its shape.
LEMMA LoadBufferInv ==
  ASSUME TableInv, NEW r \in Ranks, LoadBuffer(r)
  PROVE  TableInv'
<1>1. /\ phase[r] = "weights"
      /\ UNCHANGED <<mode, ckpt, next, hash, weight, table, slab, served>>
      /\ Opened' = Opened /\ (Openable' <=> Openable)
  BY SameCheckpoint DEF LoadBuffer
<1>2. PICK n \in left[r] :
        \/ /\ DOMAIN hash[n] # DOMAIN buffers[r][n]
           /\ phase' = [phase EXCEPT ![r] = "refused"]
           /\ UNCHANGED <<left, buffers>>
        \/ /\ DOMAIN hash[n] = DOMAIN buffers[r][n]
           /\ buffers' = [buffers EXCEPT ![r][n] = hash[n]]
           /\ left' = [left EXCEPT ![r] = @ \ {n}]
           /\ UNCHANGED phase
  BY DEF LoadBuffer
<1>3. /\ phase \in [Ranks -> {"weights", "slice", "ready", "refused", "serving"}]
      /\ left \in [Ranks -> SUBSET DOMAIN hash] /\ buffers = [q \in Ranks |-> buffers[q]]
      /\ hash \in HashFiles \union {<<>>} /\ \A q \in Ranks : BufferTypes(buffers[q])
  BY DEF TableInv, TableTypes, BuffersAreLoaded
<1>4. mode # "none"
  <2>1. phase[r] # "serving" BY <1>1
  <2> QED BY <2>1 DEF TableInv, TablesOpen
<1>5. hash \in HashFiles /\ n \in DOMAIN hash /\ n \in BufferNames
      /\ hash[n] \in [DOMAIN hash[n] -> Int] /\ DOMAIN buffers[r][n] = DOMAIN OwnBuffers[n]
  <2>1. n \in DOMAIN hash BY <1>3
  <2>2. DOMAIN <<>> = {} OBVIOUS
  <2>3. hash \in HashFiles BY <1>3, <2>1, <2>2
  <2>4. DOMAIN hash \subseteq BufferNames /\ \A m \in DOMAIN hash : hash[m] \in [DOMAIN hash[m] -> Int]
    BY <2>3, TableAssumption
  <2>5. n \in BufferNames BY <2>1, <2>4
  <2>6. buffers[r][n] \in [DOMAIN OwnBuffers[n] -> Int] BY <1>3, <2>5 DEF BufferTypes
  <2> QED BY <2>1, <2>3, <2>4, <2>5, <2>6
<1>6. \A q \in Ranks : phase'[q] = phase[q] \/ phase'[q] = "refused" BY <1>2, <1>3
<1>7. TableTypes'
  <2>1. phase' \in [Ranks -> {"weights", "slice", "ready", "refused", "serving"}] BY <1>2, <1>3
  <2> QED BY <1>1, <2>1 DEF TableInv, TableTypes
<1>8. Loaded' BY <1>1, <1>6 DEF TableInv, Loaded
<1>9. TablesOpen' BY <1>1, <1>4, <1>6 DEF TableInv, TablesOpen
<1>10. SlabsAreRows' BY <1>1, <1>6 DEF TableInv, SlabsAreRows
<1>11. CASE DOMAIN hash[n] # DOMAIN buffers[r][n]
  <2>1. UNCHANGED <<left, buffers>> BY <1>2, <1>11
  <2>2. ~Fits(hash) BY <1>5, <1>11 DEF Fits
  <2>3. IntactIsNotRefused' BY <1>1, <2>2 DEF IntactIsNotRefused, Fits
  <2>4. \A q \in Ranks : phase'[q] = "ready" => left[q] = {}
    BY <1>6 DEF TableInv, BuffersAreLoaded
  <2>5. BuffersAreLoaded' BY <1>1, <2>1, <2>4, SameBuffers DEF TableInv
  <2> QED BY <1>7, <1>8, <1>9, <1>10, <2>3, <2>5 DEF TableInv
<1>12. CASE DOMAIN hash[n] = DOMAIN buffers[r][n]
  <2>1. /\ buffers' = [buffers EXCEPT ![r][n] = hash[n]]
        /\ left' = [left EXCEPT ![r] = @ \ {n}] /\ phase' = phase
    BY <1>2, <1>12
  <2>2. IntactIsNotRefused' BY <1>1, <2>1 DEF TableInv, IntactIsNotRefused, Refused, Fits
  <2>3. left' \in [Ranks -> SUBSET DOMAIN hash] BY <1>3, <2>1
  <2>4. ASSUME NEW q \in Ranks, q # r PROVE buffers'[q] = buffers[q] /\ left'[q] = left[q]
    BY <1>3, <2>1, <2>4
  <2>5. buffers' = [q \in Ranks |-> buffers'[q]] BY <1>3, <2>1
  <2>6. left'[r] = left[r] \ {n} BY <1>3, <2>1
  <2>7. /\ buffers'[r] = [m \in BufferNames |-> buffers'[r][m]]
        /\ \A m \in BufferNames : buffers'[r][m] = IF m = n THEN hash[n] ELSE buffers[r][m]
    <3> DEFINE b == buffers[r]
    <3>1. b = [m \in BufferNames |-> b[m]] BY <1>3 DEF BufferTypes
    <3>2. buffers'[r] = [b EXCEPT ![n] = hash[n]] BY <1>3, <2>1
    <3> HIDE DEF b
    <3>3. \A m \in BufferNames : buffers'[r][m] = IF m = n THEN hash[n] ELSE b[m]
      BY <1>5, <3>1, <3>2
    <3>4. buffers'[r] = [m \in BufferNames |-> buffers'[r][m]] BY <3>1, <3>2
    <3> QED BY <3>3, <3>4 DEF b
  <2>8. hash[n] \in [DOMAIN OwnBuffers[n] -> Int] BY <1>5, <1>12
  <2>9. BufferTypes(buffers'[r]) BY <1>3, <2>7, <2>8 DEF BufferTypes
  <2>10. ASSUME NEW m \in BufferNames
         PROVE  buffers'[r][m] =
                  IF m \in DOMAIN hash \ left'[r] THEN hash[m] ELSE OwnBuffers[m]
    <3>1. buffers[r][m] = Come(r, m) BY <1>4 DEF TableInv, BuffersAreLoaded
    <3> QED BY <1>5, <2>6, <2>7, <3>1 DEF Come
  <2>11. BuffersAreLoaded'
    <3>1. ASSUME NEW q \in Ranks
          PROVE  /\ BufferTypes(buffers'[q])
                 /\ phase[q] = "ready" => left'[q] = {}
                 /\ \A m \in BufferNames :
                      buffers'[q][m] = IF m \in DOMAIN hash \ left'[q] THEN hash[m] ELSE OwnBuffers[m]
      <4>1. CASE q = r BY <1>1, <2>9, <2>10, <4>1
      <4>2. CASE q # r BY <1>3, <1>4, <2>4, <4>2 DEF TableInv, BuffersAreLoaded, Come
      <4> QED BY <4>1, <4>2
    <3>2. \A q \in Ranks : BufferTypes(buffers[q])' BY <3>1 DEF BufferTypes
    <3>3. \A q \in Ranks : phase'[q] = "ready" => left'[q] = {} BY <2>1, <3>1
    <3>4. \A q \in Ranks, m \in BufferNames : buffers'[q][m] = Come(q, m)'
      BY <1>1, <3>1 DEF Come
    <3>5. hash' \in HashFiles \union {<<>>} /\ left' \in [Ranks -> SUBSET DOMAIN hash'] /\ mode' # "none"
      BY <1>1, <1>3, <1>4, <2>3
    <3> QED BY <2>5, <3>2, <3>3, <3>4, <3>5 DEF BuffersAreLoaded
  <2> QED BY <1>7, <1>8, <1>9, <1>10, <2>2, <2>11 DEF TableInv
<1> QED BY <1>11, <1>12

\* The table is made if it can be, once; the slice is read before the rank is ready.
LEMMA EndVisitInv ==
  ASSUME TableInv, NEW r \in Ranks, EndVisit(r)
  PROVE  TableInv'
<1>1. /\ phase[r] = "weights"
      /\ UNCHANGED <<mode, ckpt, next, hash, left, buffers, weight, slab, served>>
      /\ Opened' = Opened /\ (Openable' <=> Openable)
  BY SameCheckpoint DEF EndVisit
<1>2. /\ ckpt \in Seq(Shard) /\ Len(ckpt) \in Nat /\ next \in [Ranks -> Nat \ {0}]
      /\ phase \in [Ranks -> {"weights", "slice", "ready", "refused", "serving"}]
      /\ table \in [Ranks -> {<<>>, Opened}] /\ mode \in {"vram", "disk", "resident", "none"}
  BY CheckpointIsSequence DEF TableInv, TableTypes
<1>3. mode # "none"
  <2>1. phase[r] # "serving" BY <1>1
  <2> QED BY <2>1 DEF TableInv, TablesOpen
<1>4. /\ After(r) \in {"ready", "weights"}
      /\ After(r) = "ready" => next[r] > Len(ckpt) /\ left[r] = {}
  BY DEF After
<1>5. CASE mode # "vram" /\ table[r] = <<>> /\ ~Openable
  <2>1. phase' = [phase EXCEPT ![r] = "refused"] /\ table' = table
    BY <1>5 DEF EndVisit
  <2>2. \A q \in Ranks : phase'[q] = phase[q] \/ phase'[q] = "refused" BY <1>2, <2>1
  <2>3. TableTypes' BY <1>1, <1>2, <2>1 DEF TableInv, TableTypes
  <2>4. Loaded' BY <1>1, <2>2 DEF TableInv, Loaded
  <2>5. TablesOpen' BY <1>1, <1>3, <2>1, <2>2 DEF TableInv, TablesOpen
  <2>6. SlabsAreRows' BY <1>1, <2>2 DEF TableInv, SlabsAreRows
  <2>7. ~(Intact(ckpt) /\ (Parts - 1) * PartSize <= VocabRows) BY <1>2, <1>5, IntactOpens
  <2>8. IntactIsNotRefused' BY <1>1, <2>7 DEF IntactIsNotRefused
  <2>9. BuffersAreLoaded'
    <3>1. \A q \in Ranks : phase'[q] = "ready" => left[q] = {}
      BY <2>2 DEF TableInv, BuffersAreLoaded
    <3> QED BY <1>1, <3>1, SameBuffers DEF TableInv
  <2> QED BY <2>3, <2>4, <2>5, <2>6, <2>8, <2>9 DEF TableInv
<1>6. CASE ~(mode # "vram" /\ table[r] = <<>> /\ ~Openable)
  <2>1. PICK p \in {"slice", "ready", "weights"} :
          /\ phase' = [phase EXCEPT ![r] = p]
          /\ p = "slice" => mode = "resident" /\ slab[r] = <<>>
          /\ p = "ready" => next[r] > Len(ckpt) /\ left[r] = {}
          /\ p \in {"ready", "weights"} /\ mode = "resident" => slab[r] # <<>>
    <3>1. CASE mode = "vram"
      <4>1. phase' = [phase EXCEPT ![r] = After(r)] BY <3>1 DEF EndVisit
      <4> QED BY <1>4, <3>1, <4>1
    <3>2. CASE mode = "resident" /\ slab[r] = <<>>
      <4>1. phase' = [phase EXCEPT ![r] = "slice"] BY <1>6, <3>2 DEF EndVisit
      <4> QED BY <3>2, <4>1
    <3>3. CASE mode # "vram" /\ ~(mode = "resident" /\ slab[r] = <<>>)
      <4>1. phase' = [phase EXCEPT ![r] = After(r)] BY <1>6, <3>3 DEF EndVisit
      <4> QED BY <1>4, <3>3, <4>1
    <3> QED BY <3>1, <3>2, <3>3
  <2>2. \/ mode = "vram" /\ table' = table
        \/ mode # "vram" /\ table' = [table EXCEPT ![r] = Opened]
    BY <1>6 DEF EndVisit
  <2>3. mode # "vram" => Openable BY <1>6 DEF TableInv, TablesOpen
  <2>4. phase'[r] = p /\ \A q \in Ranks : q # r => phase'[q] = phase[q] BY <1>2, <2>1
  <2>5. \A q \in Ranks : \/ table'[q] = table[q] /\ (q = r => mode = "vram")
                         \/ q = r /\ table'[q] = Opened /\ Openable
    BY <1>2, <2>2, <2>3
  <2>6. TableTypes'
    <3>1. phase' \in [Ranks -> {"weights", "slice", "ready", "refused", "serving"}]
      BY <1>2, <2>1
    <3>2. table' \in [Ranks -> {<<>>, Opened}] BY <1>2, <2>2
    <3> QED BY <1>1, <3>1, <3>2 DEF TableInv, TableTypes
  <2>7. Loaded'
    <3>1. \A q \in Ranks : phase'[q] = "ready" => next[q] > Len(ckpt)
      BY <2>1, <2>4 DEF TableInv, Loaded
    <3> QED BY <1>1, <3>1 DEF TableInv, Loaded
  <2>8. TablesOpen'
    <3>1. mode' # "none" BY <1>1, <1>3
    <3>2. ASSUME NEW q \in Ranks
          PROVE  /\ table'[q] # <<>> => table'[q] = Opened /\ Openable
                 /\ mode \in {"disk", "resident"} /\ phase'[q] \in {"slice", "ready"}
                      => table'[q] # <<>>
                 /\ phase'[q] = "slice" => mode = "resident"
      <4>1. CASE q = r
        <5>1. Openable => Opened # <<>> BY <1>2, OpenedIsThere
        <5> QED BY <2>1, <2>4, <2>5, <4>1, <5>1 DEF TableInv, TablesOpen
      <4>2. CASE q # r BY <2>4, <2>5, <4>2 DEF TableInv, TablesOpen
      <4> QED BY <4>1, <4>2
    <3> QED BY <1>1, <3>1, <3>2 DEF TablesOpen
  <2>9. SlabsAreRows'
    <3> SUFFICES ASSUME AsWritten(ckpt)
                 PROVE  /\ slab \in [Ranks -> Seq(Nat)]
                        /\ \A q \in Ranks :
                             /\ Len(slab[q]) <= RankRows
                             /\ \A k \in 1 .. Len(slab[q]) : slab[q][k] = Start(q) + k - 1
                             /\ mode = "resident" /\ phase'[q] = "weights" =>
                                  Len(slab[q]) \in {0, RankRows}
                             /\ mode = "resident" /\ phase'[q] = "ready" =>
                                  Len(slab[q]) = RankRows
      BY <1>1 DEF SlabsAreRows
    <3>1. slab \in [Ranks -> Seq(Nat)] BY DEF TableInv, SlabsAreRows
    <3>2. ASSUME NEW q \in Ranks
          PROVE  /\ Len(slab[q]) <= RankRows
                 /\ \A k \in 1 .. Len(slab[q]) : slab[q][k] = Start(q) + k - 1
      BY DEF TableInv, SlabsAreRows
    <3>3. ASSUME NEW q \in Ranks, mode = "resident", phase'[q] \in {"weights", "ready"}
          PROVE  /\ phase'[q] = "weights" => Len(slab[q]) \in {0, RankRows}
                 /\ phase'[q] = "ready" => Len(slab[q]) = RankRows
      <4>1. CASE q = r
        <5>1. Len(slab[r]) \in {0, RankRows} BY <1>1, <3>3 DEF TableInv, SlabsAreRows
        <5>2. slab[r] # <<>> BY <2>1, <2>4, <3>3, <4>1
        <5>3. slab[r] \in Seq(Nat) BY <3>1
        <5>4. Len(slab[r]) # 0 BY <5>2, <5>3
        <5> QED BY <4>1, <5>1, <5>4
      <4>2. CASE q # r BY <2>4, <3>3, <4>2 DEF TableInv, SlabsAreRows
      <4> QED BY <4>1, <4>2
    <3> QED BY <3>1, <3>2, <3>3
  <2>10. IntactIsNotRefused'
    <3>1. ASSUME NEW q \in Ranks, phase'[q] = "refused" PROVE phase[q] = "refused"
      BY <2>1, <2>4, <3>1
    <3> QED BY <1>1, <3>1 DEF TableInv, IntactIsNotRefused, Refused, Fits
  <2>11. BuffersAreLoaded'
    <3>1. \A q \in Ranks : phase'[q] = "ready" => left[q] = {}
      BY <2>1, <2>4 DEF TableInv, BuffersAreLoaded
    <3> QED BY <1>1, <3>1, SameBuffers DEF TableInv
  <2> QED BY <2>6, <2>7, <2>8, <2>9, <2>10, <2>11 DEF TableInv
<1> QED BY <1>5, <1>6

LEMMA LeastFacts ==
  ASSUME NEW a \in Int, NEW b \in Int
  PROVE  Least(a, b) \in Int /\ Least(a, b) <= a /\ Least(a, b) <= b
BY DEF Least

LEMMA ConcatIs ==
  ASSUME NEW s \in Seq(Nat), NEW t \in Seq(Nat)
  PROVE  /\ s \o t \in Seq(Nat) /\ Len(s \o t) = Len(s) + Len(t)
         /\ Len(s) \in Nat /\ Len(t) \in Nat
         /\ \A k \in 1 .. Len(s) + Len(t) :
              (s \o t)[k] = IF k <= Len(s) THEN s[k] ELSE t[k - Len(s)]
OBVIOUS

\* A read goes on where the last one ended, over the end of no shard and no range.
LEMMA ReadSliceInv ==
  ASSUME TableInv, NEW r \in Ranks, ReadSlice(r)
  PROVE  TableInv'
<1>1. /\ phase[r] = "slice"
      /\ UNCHANGED <<mode, ckpt, next, hash, left, buffers, weight, table, served>>
      /\ Opened' = Opened /\ (Openable' <=> Openable)
  BY SameCheckpoint DEF ReadSlice
<1>2. PICK got \in 1 .. Want(r) :
        /\ slab' = [slab EXCEPT ![r] = SliceAfter(r, got)]
        /\ phase' = [phase EXCEPT ![r] =
             IF Len(slab[r]) + got >= RankRows THEN After(r) ELSE "slice"]
  BY DEF ReadSlice
<1>3. /\ ckpt \in Seq(Shard)
      /\ phase \in [Ranks -> {"weights", "slice", "ready", "refused", "serving"}]
  BY CheckpointIsSequence DEF TableInv, TableTypes
<1>4. /\ mode = "resident" /\ table[r] # <<>> /\ table[r] = Opened /\ Openable
  BY <1>1 DEF TableInv, TablesOpen
<1>5. /\ After(r) \in {"ready", "weights"}
      /\ After(r) = "ready" => next[r] > Len(ckpt) /\ left[r] = {}
  BY DEF After
<1>6. PICK p \in {"slice", "ready", "weights"} :
        /\ phase' = [phase EXCEPT ![r] = p]
        /\ p = "ready" => next[r] > Len(ckpt) /\ left[r] = {}
        /\ p \in {"ready", "weights"} => Len(slab[r]) + got >= RankRows
  <2>1. CASE Len(slab[r]) + got >= RankRows
    <3>1. phase' = [phase EXCEPT ![r] = After(r)] BY <1>2, <2>1
    <3> QED BY <1>5, <2>1, <3>1
  <2>2. CASE ~(Len(slab[r]) + got >= RankRows)
    <3>1. phase' = [phase EXCEPT ![r] = "slice"] BY <1>2, <2>2
    <3> QED BY <3>1
  <2> QED BY <2>1, <2>2
<1>7. phase'[r] = p /\ \A q \in Ranks : q # r => phase'[q] = phase[q] BY <1>3, <1>6
<1>8. TableTypes' BY <1>1, <1>3, <1>6 DEF TableInv, TableTypes
<1>9. Loaded'
  <2>1. \A q \in Ranks : phase'[q] = "ready" => next[q] > Len(ckpt)
    BY <1>6, <1>7 DEF TableInv, Loaded
  <2> QED BY <1>1, <2>1 DEF TableInv, Loaded
<1>10. TablesOpen'
  <2>1. ASSUME NEW q \in Ranks
        PROVE  /\ table[q] # <<>> => table[q] = Opened /\ Openable
               /\ mode \in {"disk", "resident"} /\ phase'[q] \in {"slice", "ready"} => table[q] # <<>>
               /\ phase'[q] = "slice" => mode = "resident"
    <3>1. CASE q = r BY <1>4, <3>1
    <3>2. CASE q # r BY <1>7, <3>2 DEF TableInv, TablesOpen
    <3> QED BY <3>1, <3>2
  <2>2. mode' # "none" BY <1>1, <1>4
  <2> QED BY <1>1, <2>1, <2>2 DEF TablesOpen
<1>11. ASSUME AsWritten(ckpt)
       PROVE  /\ slab' \in [Ranks -> Seq(Nat)]
              /\ \A q \in Ranks :
                   /\ Len(slab'[q]) <= RankRows
                   /\ \A k \in 1 .. Len(slab'[q]) : slab'[q][k] = Start(q) + k - 1
                   /\ phase'[q] = "weights" => Len(slab'[q]) \in {0, RankRows}
                   /\ phase'[q] = "ready" => Len(slab'[q]) = RankRows
  <2>0. slab \in [Ranks -> Seq(Nat)] /\ slab[r] \in Seq(Nat)
    BY <1>11 DEF TableInv, SlabsAreRows
  <2>1. PICK done \in Nat : done = Len(slab[r]) /\ done <= RankRows
    BY <1>11, <2>0 DEF TableInv, SlabsAreRows
  <2>2. RankRows \in Nat \ {0} /\ Start(r) \in Nat /\ Start(r) + RankRows <= VocabRows
        /\ VocabRows \in Nat
    BY RankFacts
  <2>11. done \in Nat /\ done <= RankRows BY <2>1
  <2> DEFINE row == Start(r) + done
  <2>3. got \in Nat \ {0} /\ done + got <= RankRows
    <3> DEFINE asked == Least(SliceRows - (done % SliceRows), RankRows - done)
               rest == ShardRows(r) - (row % ShardRows(r))
    <3>1. SliceRows \in Nat \ {0} /\ ReadRows \in Nat \ {0} BY TableAssumption
    <3>2. done % SliceRows \in Int BY <2>1, <3>1, DivFacts
    <3>3. rest \in Int
      <4>1. 0 \in Row BY RankFacts DEF Row
      <4>2. ShardRows(r) \in Nat \ {0} BY <1>3, <1>4, <1>11, <4>1, DiskRowIs
      <4>3. row \in Nat BY <2>1, <2>2
      <4>4. row % ShardRows(r) \in Int BY <4>2, <4>3, DivFacts
      <4> QED BY <4>2, <4>4
    <3>4. asked \in Int /\ asked <= RankRows - done
      <4>1. SliceRows - (done % SliceRows) \in Int /\ RankRows - done \in Int
        BY <2>2, <3>1, <3>2
      <4> QED BY <4>1, LeastFacts
    <3>5. Want(r) = Least(Least(ReadRows, asked), rest) BY <2>1 DEF Want
    <3> HIDE DEF asked, rest
    <3>6. Want(r) \in Int /\ Want(r) <= RankRows - done
      <4>1. Least(ReadRows, asked) \in Int /\ Least(ReadRows, asked) <= asked
        <5>1. ReadRows \in Int BY <3>1
        <5> QED BY <3>4, <5>1, LeastFacts
      <4>2. /\ Least(Least(ReadRows, asked), rest) \in Int
            /\ Least(Least(ReadRows, asked), rest) <= Least(ReadRows, asked)
        BY <3>3, <4>1, LeastFacts
      <4> QED BY <2>2, <3>4, <3>5, <4>1, <4>2
    <3> QED BY <2>2, <3>6
  <2> DEFINE tail == [k \in 1 .. got |-> DiskRow(r, row + k - 1)]
  <2>4. ASSUME NEW k \in 1 .. got PROVE tail[k] = row + k - 1 /\ row + k - 1 \in Nat
    <3>1. row + k - 1 \in Row
      <4>1. k \in Nat \ {0} /\ k <= got BY <2>3
      <4> QED BY <2>11, <2>2, <2>3, <4>1 DEF Row
    <3>2. DiskRow(r, row + k - 1) = row + k - 1 BY <1>3, <1>4, <1>11, <3>1, DiskRowIs
    <3> QED BY <3>1, <3>2, <2>2 DEF Row
  <2>5. tail \in Seq(Nat) /\ Len(tail) = got
    <3>1. tail \in [1 .. got -> Nat] BY <2>4
    <3> QED BY <2>3, <3>1
  <2>6. SliceAfter(r, got) = slab[r] \o tail BY <2>1 DEF SliceAfter
  <2> HIDE DEF tail
  <2> DEFINE new == slab[r] \o tail
  <2>7. /\ new \in Seq(Nat) /\ Len(new) = done + got
        /\ \A k \in 1 .. done + got :
             new[k] = IF k <= done THEN slab[r][k] ELSE tail[k - done]
    BY <2>0, <2>1, <2>5, ConcatIs
  <2>8. \A k \in 1 .. done + got : new[k] = Start(r) + k - 1
    <3> TAKE k \in 1 .. done + got
    <3>1. CASE k <= done
      <4>1. k \in 1 .. Len(slab[r]) BY <2>1, <2>3, <3>1
      <4>2. slab[r][k] = Start(r) + k - 1 BY <1>11, <4>1 DEF TableInv, SlabsAreRows
      <4> QED BY <2>7, <3>1, <4>2
    <3>2. CASE k > done
      <4>1. k - done \in 1 .. got /\ ~(k <= done) BY <2>11, <2>3, <3>2
      <4>2. tail[k - done] = row + (k - done) - 1 BY <2>4, <4>1
      <4>3. row + (k - done) - 1 = Start(r) + k - 1
        <5>1. k \in Int BY <2>11, <2>3
        <5> QED BY <2>11, <2>2, <5>1
      <4> QED BY <2>7, <4>1, <4>2, <4>3
    <3>3. k <= done \/ k > done
      <4>1. k \in Int BY <2>11, <2>3
      <4> QED BY <2>11, <4>1
    <3> QED BY <3>1, <3>2, <3>3
  <2> HIDE DEF new
  <2>9. slab' \in [Ranks -> Seq(Nat)] /\ slab'[r] = new /\ \A q \in Ranks : q # r => slab'[q] = slab[q]
    BY <1>2, <2>0, <2>6, <2>7 DEF new
  <2>10. ASSUME NEW q \in Ranks
         PROVE  /\ Len(slab'[q]) <= RankRows
                /\ \A k \in 1 .. Len(slab'[q]) : slab'[q][k] = Start(q) + k - 1
                /\ phase'[q] = "weights" => Len(slab'[q]) \in {0, RankRows}
                /\ phase'[q] = "ready" => Len(slab'[q]) = RankRows
    <3>1. CASE q = r
      <4>1. p \in {"ready", "weights"} => done + got = RankRows
        <5>1. p \in {"ready", "weights"} => done + got >= RankRows BY <1>6, <2>1
        <5> QED BY <2>11, <2>2, <2>3, <5>1
      <4> QED BY <1>7, <2>3, <2>7, <2>8, <2>9, <3>1, <4>1
    <3>2. CASE q # r
      BY <1>4, <1>7, <1>11, <2>9, <3>2 DEF TableInv, SlabsAreRows
    <3> QED BY <3>1, <3>2
  <2> QED BY <2>9, <2>10
<1>12. SlabsAreRows' BY <1>1, <1>11 DEF SlabsAreRows
<1>13. IntactIsNotRefused'
  <2>1. ASSUME NEW q \in Ranks, phase'[q] = "refused" PROVE phase[q] = "refused"
    BY <1>6, <1>7, <2>1
  <2> QED BY <1>1, <2>1 DEF TableInv, IntactIsNotRefused, Refused, Fits
<1>14. BuffersAreLoaded'
  <2>1. \A q \in Ranks : phase'[q] = "ready" => left[q] = {}
    BY <1>6, <1>7 DEF TableInv, BuffersAreLoaded
  <2> QED BY <1>1, <2>1, SameBuffers DEF TableInv
<1> QED BY <1>8, <1>9, <1>10, <1>12, <1>13, <1>14 DEF TableInv

\* Serving keeps nothing of the load but what the lookups return.
LEMMA ServeInv ==
  ASSUME TableInv, Serve
  PROVE  TableInv'
<1>1. /\ mode' = "none" /\ ckpt' = <<>>
      /\ phase' = [r \in Ranks |-> "serving"] /\ next' = [r \in Ranks |-> 1]
      /\ weight' = [r \in Ranks |-> [i \in 0 .. RankRows - 1 |-> Garbage]]
      /\ table' = [r \in Ranks |-> <<>>] /\ slab' = [r \in Ranks |-> <<>>]
  BY DEF Serve
<1>2. TableTypes' BY <1>1 DEF TableTypes, RowContent
<1>3. \A r \in Ranks : /\ phase'[r] = "serving" /\ next'[r] = 1
                       /\ table'[r] = <<>> /\ slab'[r] = <<>>
  BY <1>1
<1>4. Len(ckpt') = 0 BY <1>1
<1>5. Loaded' BY <1>1, <1>3, <1>4 DEF Loaded
<1>6. TablesOpen' BY <1>1, <1>3 DEF TablesOpen
<1>7. SlabsAreRows'
  <2>1. slab' \in [Ranks -> Seq(Nat)] BY <1>1
  <2>2. \A r \in Ranks : Len(slab'[r]) = 0 BY <1>3
  <2> QED BY <1>1, <2>1, <2>2, RankFacts DEF SlabsAreRows
<1>8. IntactIsNotRefused' BY <1>3 DEF IntactIsNotRefused, Refused
<1>9. BuffersAreLoaded'
  <2>1. \A r \in Ranks : phase[r] = "ready" BY DEF Serve
  <2>2. mode # "none"
    <3>1. phase[0] # "serving" /\ 0 \in Ranks BY <2>1, RankFacts
    <3> QED BY <3>1 DEF TableInv, TablesOpen
  <2>3. /\ left \in [Ranks -> SUBSET DOMAIN hash] /\ buffers = [r \in Ranks |-> buffers[r]]
        /\ \A r \in Ranks : /\ BufferTypes(buffers[r]) /\ left[r] = {}
                            /\ \A n \in BufferNames : buffers[r][n] = Come(r, n)
    BY <2>1, <2>2 DEF TableInv, BuffersAreLoaded
  <2>4. hash' = <<>> /\ UNCHANGED <<left, buffers>> BY DEF Serve
  <2>5. left' \in [Ranks -> SUBSET DOMAIN hash']
    <3>1. left = [r \in Ranks |-> left[r]] BY <2>3
    <3> QED BY <2>3, <2>4, <3>1
  <2>6. ASSUME NEW r \in Ranks, NEW q \in Ranks PROVE buffers[r] = buffers[q]
    <3>1. \A n \in BufferNames : buffers[r][n] = buffers[q][n] BY <2>3 DEF Come
    <3>2. /\ buffers[r] = [n \in BufferNames |-> buffers[r][n]]
          /\ buffers[q] = [n \in BufferNames |-> buffers[q][n]]
      BY <2>3 DEF BufferTypes
    <3>3. [n \in BufferNames |-> buffers[r][n]] = [n \in BufferNames |-> buffers[q][n]] BY <3>1
    <3> QED BY <3>2, <3>3
  <2>7. \A r \in Ranks : phase'[r] # "ready" BY <1>3
  <2> QED BY <1>1, <2>3, <2>4, <2>5, <2>6, <2>7 DEF BuffersAreLoaded
<1> QED BY <1>2, <1>5, <1>6, <1>7, <1>8, <1>9 DEF TableInv

LEMMA TableStep == TableInv /\ [TNext]_tvars => TableInv'
<1> SUFFICES ASSUME TableInv, [TNext]_tvars PROVE TableInv' OBVIOUS
<1>1. ASSUME NEW r \in Ranks, LoadShard(r) PROVE TableInv' BY <1>1, LoadShardInv
<1>2. ASSUME NEW r \in Ranks, EndVisit(r) PROVE TableInv' BY <1>2, EndVisitInv
<1>3. ASSUME NEW r \in Ranks, ReadSlice(r) PROVE TableInv' BY <1>3, ReadSliceInv
<1>4. CASE Serve BY <1>4, ServeInv
<1>6. ASSUME NEW r \in Ranks, LoadBuffer(r) PROVE TableInv' BY <1>6, LoadBufferInv
<1>5. CASE UNCHANGED tvars
  <2>1. /\ UNCHANGED <<mode, ckpt, phase, next, hash, left, buffers, weight, table, slab>>
        /\ Opened' = Opened /\ (Openable' <=> Openable)
    BY <1>5, SameCheckpoint DEF tvars
  <2>2. TableTypes' BY <2>1 DEF TableInv, TableTypes
  <2>3. Loaded' BY <2>1 DEF TableInv, Loaded
  <2>4. TablesOpen' BY <2>1 DEF TableInv, TablesOpen
  <2>5. SlabsAreRows' BY <2>1 DEF TableInv, SlabsAreRows
  <2>6. IntactIsNotRefused' BY <2>1 DEF TableInv, IntactIsNotRefused, Refused, Fits
  <2>7. BuffersAreLoaded'
    <3>1. \A q \in Ranks : phase'[q] = "ready" => left[q] = {}
      BY <2>1 DEF TableInv, BuffersAreLoaded
    <3> QED BY <2>1, <3>1, SameBuffers DEF TableInv
  <2> QED BY <2>2, <2>3, <2>4, <2>5, <2>6, <2>7 DEF TableInv
<1> QED BY <1>1, <1>2, <1>3, <1>4, <1>5, <1>6 DEF TNext

(***************************************************************************)
(* Whatever the order of the shards, the visits, the ranks and the reads:  *)
(* what is passed is as expected, tables are opened only on shards that    *)
(* fit, slabs are beginnings of the rank's range (load_weights).           *)
(***************************************************************************)
THEOREM TableInvariance == TSpec => []TableInv
<1>1. TInit => TableInv BY TableInit
<1>2. TableInv /\ [TNext]_tvars => TableInv' BY TableStep
<1> QED BY <1>1, <1>2, PTL DEF TSpec

\* No rank refuses a checkpoint that is as the writer split it (load_weights).
THEOREM IntactSafety == TSpec => []IntactIsNotRefused
<1>1. TableInv => IntactIsNotRefused BY DEF TableInv
<1> QED BY <1>1, TableInvariance, PTL

-----------------------------------------------------------------------------
(* The table: what a lookup returns. *)

\* Every row is in a shard load_weights has passed, when it has passed them all.
LEMMA RowIsIn ==
  ASSUME ckpt \in Seq(Shard), Complete(ckpt),
         \A j \in 1 .. Len(ckpt) : Expected(ckpt[j]), NEW k \in Row
  PROVE  \E j \in 1 .. Len(ckpt) : InShard(ckpt[j], k)
<1>1. PICK p \in 0 .. Parts - 1 : k - PartStart(p) \in 0 .. PartRows(p) - 1 BY PartOfRow
<1>2. PICK j \in 1 .. Len(ckpt) : ckpt[j].part = p BY DEF Complete
<1>3. ckpt[j].rows = PartRows(p) BY <1>2 DEF Expected
<1> QED BY <1>1, <1>2, <1>3 DEF InShard

\* A part after the first with rows says that the writer's parts are load_weights'.
LEMMA RowOfIs ==
  ASSUME ckpt \in Seq(Shard), Complete(ckpt), AsWritten(ckpt),
         \A j \in 1 .. Len(ckpt) : Expected(ckpt[j]),
         NEW k \in Row, NEW m \in 1 .. Len(ckpt), InShard(ckpt[m], k)
  PROVE  RowOf(ckpt[m], k) = k
<1> DEFINE e == ckpt[m]
<1>1. PICK size \in Nat \ {0} : \A i \in 1 .. Len(ckpt) :
        /\ ckpt[i].first = ckpt[i].part * size
        /\ (\E j \in 1 .. Len(ckpt) : ckpt[j].part > ckpt[i].part /\ ckpt[j].rows > 0) =>
              ckpt[i].rows = size
  BY DEF AsWritten
<1>2. e.part \in Nat /\ e.rows \in Nat BY ShardFacts DEF NumShards
<1>3. /\ PartSize \in Nat /\ Parts \in Nat \ {0} /\ k \in Nat
      /\ PartStart(e.part) \in Nat /\ PartStart(e.part) = e.part * PartSize
  <2>1. k \in Nat BY RankFacts DEF Row
  <2>2. PartStart(e.part) \in Nat BY <1>2, PartFacts
  <2>3. PartStart(e.part) = e.part * PartSize BY DEF PartStart
  <2> QED BY <2>1, <2>2, <2>3, PartFacts
<1>4. e.rows > 0
  <2>1. k - PartStart(e.part) \in 0 .. e.rows - 1 BY DEF InShard
  <2>2. k - PartStart(e.part) \in Int /\ PartStart(e.part) \in Int BY <1>3
  <2> HIDE DEF e
  <2> QED BY <1>2, <2>1, <2>2
<1>5. e.first = PartStart(e.part)
  <2>1. e.first = e.part * size BY <1>1
  <2>2. CASE e.part = 0 BY <1>3, <2>1, <2>2
  <2>3. CASE e.part # 0
    <3>1. 0 \in 0 .. Parts - 1 BY <1>3
    <3>2. PICK j \in 1 .. Len(ckpt) : ckpt[j].part = 0 BY <3>1 DEF Complete
    <3>3. e.part > ckpt[j].part BY <1>2, <2>3, <3>2
    <3>4. ckpt[j].rows = size BY <1>1, <1>4, <3>2, <3>3
    <3>5. ckpt[j].rows = PartSize BY <3>2, PartFacts DEF Expected
    <3> QED BY <1>3, <2>1, <3>4, <3>5
  <2> QED BY <2>2, <2>3
<1>6. RowOf(e, k) = PartStart(e.part) + (k - PartStart(e.part)) BY <1>5 DEF RowOf
<1> HIDE DEF e
<1>7. \A s \in Nat : s + (k - s) = k BY <1>3
<1>8. RowOf(e, k) = k BY <1>3, <1>6, <1>7
<1> QED BY <1>8 DEF e

\* One rank has something to add to the sum, and it adds the row.
LEMMA OneShare ==
  ASSUME TableInv, AsWritten(ckpt), mode \in {"vram", "resident"},
         \A r \in Ranks : phase[r] = "ready",
         NEW k \in Row, NEW r \in Ranks
  PROVE  Share(r, k) = IF k - Start(r) \in 0 .. RankRows - 1 THEN {k} ELSE {}
<1> DEFINE l == k - Start(r)
<1>1. /\ k \in Nat /\ Start(r) \in Nat /\ RankRows \in Nat \ {0} /\ l \in Int
      /\ Start(r) + l = k
  BY RankFacts DEF Row
<1>2. ckpt \in Seq(Shard) /\ Len(ckpt) \in Nat
  BY CheckpointIsSequence DEF TableInv
<1> HIDE DEF l
<1>3. l \in 0 .. RankRows - 1 <=> l >= 0 /\ l < RankRows BY <1>1
<1>4. CASE mode = "vram"
  <2>1. /\ next[r] = Len(ckpt) + 1 /\ Complete(ckpt)
        /\ \A j \in 1 .. Len(ckpt) : Expected(ckpt[j])
    <3>1. /\ next[r] \in Nat \ {0} /\ next[r] <= Len(ckpt) + 1 /\ next[r] > Len(ckpt)
          /\ Complete(ckpt) /\ \A j \in 1 .. next[r] - 1 : Expected(ckpt[j])
      BY <1>4 DEF TableInv, TableTypes, Loaded
    <3>2. next[r] = Len(ckpt) + 1 BY <1>2, <3>1
    <3>3. next[r] - 1 = Len(ckpt) BY <1>2, <3>2
    <3> QED BY <3>1, <3>2, <3>3
  <2>2. next[r] - 1 = Len(ckpt) BY <1>2, <2>1
  <2>3. ASSUME l \in 0 .. RankRows - 1 PROVE weight[r][l] = k
    <3>1. PICK j \in 1 .. Len(ckpt) : InShard(ckpt[j], k) BY <1>2, <2>1, RowIsIn
    <3>2. PICK m \in 1 .. Len(ckpt) : /\ InShard(ckpt[m], k)
                                      /\ weight[r][l] = RowOf(ckpt[m], k)
      BY <1>1, <1>4, <2>2, <2>3, <3>1 DEF TableInv, Loaded
    <3> QED BY <1>2, <2>1, <3>2, RowOfIs
  <2>4. Share(r, k) = IF l >= 0 /\ l < RankRows THEN {weight[r][l]} ELSE {}
    BY <1>4 DEF Share, l
  <2> QED BY <1>3, <2>3, <2>4 DEF l
<1>5. CASE mode = "resident"
  <2>1. Len(slab[r]) = RankRows /\ \A q \in 1 .. Len(slab[r]) : slab[r][q] = Start(r) + q - 1
    BY <1>5 DEF TableInv, SlabsAreRows
  <2>2. ASSUME l \in 0 .. RankRows - 1 PROVE slab[r][l + 1] = k
    <3>1. l + 1 \in 1 .. RankRows BY <1>1, <2>2
    <3>2. slab[r][l + 1] = Start(r) + (l + 1) - 1 BY <2>1, <3>1
    <3>3. Start(r) + (l + 1) - 1 = k BY <1>1
    <3> QED BY <3>2, <3>3
  <2>3. Share(r, k) = IF l >= 0 /\ l < RankRows THEN {slab[r][l + 1]} ELSE {}
    BY <1>5, <2>1 DEF Share, l
  <2> QED BY <1>3, <2>2, <2>3 DEF l
<1> QED BY <1>4, <1>5

LEMMA LookupIs ==
  ASSUME TableInv, AsWritten(ckpt), \A r \in Ranks : phase[r] = "ready", NEW k \in Row
  PROVE  Lookup(k) = k
<1>1. ckpt \in Seq(Shard) BY CheckpointIsSequence DEF TableInv
<1>2. mode \in {"vram", "disk", "resident"}
  <2>1. phase[0] # "serving" BY RankFacts
  <2> QED BY <2>1, RankFacts DEF TableInv, TableTypes, TablesOpen
<1>3. CASE mode = "disk"
  <2> DEFINE rows == {DiskRow(r, k) : r \in Ranks}
  <2>1. ASSUME NEW r \in Ranks PROVE DiskRow(r, k) = k
    <3>1. table[r] = Opened /\ Openable BY <1>3 DEF TableInv, TablesOpen
    <3> QED BY <1>1, <3>1, DiskRowIs
  <2>2. rows = {k} BY <2>1, RankFacts
  <2>3. Cardinality({k}) = 1 BY FS_Singleton
  <2>4. Lookup(k) = IF Cardinality(rows) = 1 THEN CHOOSE x \in rows : TRUE ELSE Garbage
    BY <1>3 DEF Lookup
  <2> QED BY <2>2, <2>3, <2>4
<1>4. CASE mode # "disk"
  <2> DEFINE owners == {r \in Ranks : Share(r, k) # {}}
  <2>1. PICK r \in Ranks : /\ k - Start(r) \in 0 .. RankRows - 1
                           /\ \A q \in Ranks : k - Start(q) \in 0 .. RankRows - 1 => q = r
    BY OwnerOfRow
  <2>2. \A q \in Ranks : Share(q, k) = IF k - Start(q) \in 0 .. RankRows - 1 THEN {k} ELSE {}
    BY <1>2, <1>4, OneShare
  <2>3. owners = {r} BY <2>1, <2>2
  <2>4. Cardinality({r}) = 1 BY FS_Singleton
  <2>5. Lookup(k) = IF Cardinality(owners) = 1
                    THEN CHOOSE x \in Share(CHOOSE q \in owners : TRUE, k) : TRUE ELSE Garbage
    BY <1>4 DEF Lookup
  <2>6. Share(r, k) = {k} BY <2>1, <2>2
  <2>7. (CHOOSE q \in {r} : TRUE) = r OBVIOUS
  <2> HIDE DEF owners
  <2> QED BY <2>3, <2>4, <2>5, <2>6, <2>7
<1> QED BY <1>3, <1>4

(***************************************************************************)
(* Whichever way the rows are kept, whatever the split over parts, ranks   *)
(* and reads: if the ranks did not refuse the checkpoint and it is cut as  *)
(* the writer cuts a table, every lookup returns the row it asked for,     *)
(* from the one rank that has it.                                          *)
(***************************************************************************)
THEOREM ServedRows == TSpec => RowsAreTheTables
<1>1. ASSUME TableInv, AsWritten(ckpt), Serve
      PROVE  served' = [i \in 0 .. VocabRows - 1 |-> i]
  <2>1. \A r \in Ranks : phase[r] = "ready" BY <1>1 DEF Serve
  <2>2. \A i \in Row : Lookup(i) = i BY <1>1, <2>1, LookupIs
  <2>3. served' = [i \in 0 .. VocabRows - 1 |-> Lookup(i)] BY <1>1 DEF Serve
  <2> QED BY <2>2, <2>3 DEF Row
<1>2. TableInv /\ [TNext]_tvars =>
        [AsWritten(ckpt) /\ Serve => served' = [i \in 0 .. VocabRows - 1 |-> i]]_tvars
  BY <1>1
<1> QED BY <1>2, TableInvariance, PTL DEF TSpec, RowsAreTheTables

-----------------------------------------------------------------------------
(* The ids: texts and batches. *)

Token == 0 .. Unigrams - 1

TextTypes ==
  /\ all \in [Reqs -> Seq(Token)]
  /\ computed \in [Reqs -> Nat]
  /\ busy \in BOOLEAN
  /\ \A r \in Reqs : computed[r] <= Len(all[r]) /\ Len(all[r]) <= MaxSeq

\* A step's rows of a request: of its text, or its last token and drafts.
RowsFit(r, len) ==
  /\ len \in Nat
  /\ \/ computed[r] + len <= Len(all[r])
     \/ Len(all[r]) = computed[r] + 1

\* The batch of a step, as prepare_inputs left it.
Batch ==
  /\ StepReqs \in Nat /\ NumReqs <= StepReqs
  /\ qsl \in [0 .. StepReqs -> Nat] /\ qsl[0] = 0
  /\ \A r \in 0 .. StepReqs - 1 : qsl[r] <= qsl[r + 1]
  /\ input \in Seq(Token) /\ qsl[StepReqs] <= NumTokens
  /\ context \in [0 .. StepReqs - 1 -> [0 .. N - 1 -> Token]]
  /\ \A r \in Reqs : context[r] = ContextOf(r) /\ RowsFit(r, qsl[r + 1] - qsl[r])

\* What programs have written is theirs.
WindowsWritten ==
  /\ DOMAIN window = 0 .. NumTokens - 1
  /\ \A t \in DOMAIN window : window[t] \in {<<>>, KernelWindow(t)}

NGramInv == TextTypes /\ IF busy THEN Batch /\ WindowsWritten ELSE window = <<>>

LEMMA NGramConstants ==
  /\ NumReqs \in Nat \ {0} /\ N \in Nat \ {0} /\ NumDrafts \in Nat /\ MaxSeq \in Nat
  /\ MaxPrompt \in Nat /\ MaxPrompt <= MaxSeq /\ MaxPadding \in Nat /\ BlockT \in Nat \ {0}
  /\ Unigrams \in Nat \ {0} /\ Eos \in Token
  /\ \A r \in Reqs : r \in Nat /\ r < NumReqs
<1>1. Unigrams \in Nat \ {0}
  <2>1. (2 * NumReqs) * MaxSeq \in Nat BY NGramAssumption
  <2> QED BY <2>1 DEF Unigrams
<1> QED BY <1>1, NGramAssumption DEF Eos, Token, Reqs

\* The token of a position, and its draft, are tokens.
LEMMA TokenFacts ==
  ASSUME NEW r \in Reqs, NEW p \in 0 .. MaxSeq - 1
  PROVE  Text(r, p) \in Token /\ Draft(r, p) \in Token
<1>1. MaxSeq \in Nat \ {0} /\ r \in Nat /\ NumReqs \in Nat /\ r < NumReqs BY NGramConstants
<1>2. MaxSeq * NumReqs >= MaxSeq * r + MaxSeq BY <1>1, MulGap
<1>3. MaxSeq * NumReqs \in Nat /\ MaxSeq * r \in Nat BY <1>1
<1>4. r * MaxSeq = MaxSeq * r /\ 2 * NumReqs * MaxSeq = 2 * (MaxSeq * NumReqs) BY <1>1
<1> DEFINE a == MaxSeq * NumReqs
           b == MaxSeq * r
<1>5. Text(r, p) = 1 + 2 * (b + p) /\ Unigrams = 1 + 2 * a BY <1>4 DEF Text, Unigrams
<1>6. a \in Nat /\ b \in Nat /\ a >= b + MaxSeq BY <1>2, <1>3
<1> HIDE DEF a, b
<1>7. Text(r, p) \in Nat /\ Text(r, p) + 1 \in 0 .. Unigrams - 1 BY <1>1, <1>5, <1>6
<1>8. Draft(r, p) = Text(r, p) + 1 BY DEF Draft
<1> QED BY <1>7, <1>8, NGramConstants DEF Token

LEMMA ChunkFacts ==
  ASSUME TextTypes, NEW r \in Reqs, NEW c \in Chunks(r)
  PROVE  c \in Seq(Token) /\ RowsFit(r, Len(c))
<1> DEFINE text == all[r]
           done == computed[r]
           todo == SubSeq(all[r], computed[r] + 1, Len(all[r]))
<1>1. /\ text \in Seq(Token) /\ done \in Nat /\ done <= Len(text) /\ Len(text) <= MaxSeq
      /\ Len(text) \in Nat /\ MaxSeq \in Nat
  BY NGramConstants DEF TextTypes
<1>2. todo \in Seq(Token) /\ Len(todo) = Len(text) - done
  <2>1. \A i \in done + 1 .. Len(text) : text[i] \in Token BY <1>1
  <2>2. /\ SubSeq(text, done + 1, Len(text)) \in Seq(Token)
        /\ Len(SubSeq(text, done + 1, Len(text))) =
             IF done + 1 <= Len(text) THEN Len(text) - (done + 1) + 1 ELSE 0
    <3> HIDE DEF text, done
    <3>1. done + 1 \in Int /\ Len(text) \in Int BY <1>1
    <3> QED BY <2>1, <3>1, SubSeqProperties
  <2> HIDE DEF todo
  <2>3. todo = SubSeq(text, done + 1, Len(text)) BY DEF todo
  <2> HIDE DEF text, done
  <2> QED BY <1>1, <2>2, <2>3
<1>3. CASE c = <<>>
  <2>1. Len(c) = 0 /\ c \in Seq(Token) BY <1>3
  <2> QED BY <1>1, <2>1 DEF RowsFit
<1>4. CASE \E n \in 1 .. Len(todo) : c = SubSeq(todo, 1, n)
  <2>1. PICK n \in 1 .. Len(todo) : c = SubSeq(todo, 1, n) BY <1>4
  <2> HIDE DEF todo
  <2>2. \A i \in 1 .. n : todo[i] \in Token BY <1>2, <2>1
  <2>3. n \in Int /\ 1 <= n /\ n <= Len(todo) BY <1>2
  <2>4. SubSeq(todo, 1, n) \in Seq(Token) /\ Len(SubSeq(todo, 1, n)) = n
    <3>1. Len(SubSeq(todo, 1, n)) = IF 1 <= n THEN n - 1 + 1 ELSE 0 BY <2>2, <2>3, SubSeqProperties
    <3>2. SubSeq(todo, 1, n) \in Seq(Token) BY <2>2, <2>3, SubSeqProperties
    <3> QED BY <2>3, <3>1, <3>2
  <2> QED BY <1>1, <1>2, <2>1, <2>3, <2>4 DEF RowsFit
<1>5. CASE /\ Len(todo) = 1 /\ Len(text) + NumDrafts < MaxSeq
           /\ \E eos \in SUBSET (1 .. NumDrafts) :
                c = todo \o [i \in 1 .. NumDrafts |->
                               IF i \in eos THEN Eos ELSE Draft(r, Len(text) + i - 1)]
  <2>1. PICK eos \in SUBSET (1 .. NumDrafts) :
           c = todo \o [i \in 1 .. NumDrafts |->
                          IF i \in eos THEN Eos ELSE Draft(r, Len(text) + i - 1)]
    BY <1>5
  <2> DEFINE tail == [i \in 1 .. NumDrafts |->
                        IF i \in eos THEN Eos ELSE Draft(r, Len(text) + i - 1)]
  <2> HIDE DEF todo, text
  <2>2. ASSUME NEW i \in 1 .. NumDrafts PROVE tail[i] \in Token
    <3>1. Len(text) + i - 1 \in 0 .. MaxSeq - 1 BY <1>1, <1>5, NGramConstants
    <3> QED BY <3>1, TokenFacts, NGramConstants
  <2>3. tail \in Seq(Token) /\ Len(tail) = NumDrafts
    <3>1. tail \in [1 .. NumDrafts -> Token] BY <2>2
    <3> QED BY <3>1, NGramConstants
  <2> HIDE DEF tail
  <2>4. todo \o tail \in Seq(Token) /\ Len(todo \o tail) = Len(todo) + Len(tail)
    BY <1>2, <2>3, ConcatProperties
  <2>5. c = todo \o tail BY <2>1 DEF tail
  <2>6. c \in Seq(Token) /\ Len(c) \in Nat BY <1>2, <2>3, <2>4, <2>5, NGramConstants
  <2>7. Len(todo) = 1 BY <1>5
  <2>8. Len(text) = done + 1
    <3>1. Len(text) - done = 1 BY <1>2, <2>7
    <3>2. \A a, b \in Nat : a - b = 1 => a = b + 1 OBVIOUS
    <3> HIDE DEF done
    <3> QED BY <1>1, <3>1, <3>2
  <2> QED BY <2>6, <2>8 DEF RowsFit, text
<1> QED BY <1>3, <1>4, <1>5 DEF Chunks


LEMMA NGramInit == NInit => NGramInv
<1> SUFFICES ASSUME NInit PROVE NGramInv OBVIOUS
<1>1. TextTypes
  <2>1. all \in [Reqs -> Seq(Token)] /\ computed \in [Reqs -> Nat] /\ busy \in BOOLEAN
    <3>1. <<>> \in Seq(Token) OBVIOUS
    <3> QED BY <3>1 DEF NInit
  <2>2. \A r \in Reqs : computed[r] = 0 /\ Len(all[r]) = 0 BY DEF NInit
  <2> QED BY <2>1, <2>2, NGramConstants DEF TextTypes
<1>2. ~busy /\ window = <<>> BY DEF NInit
<1> QED BY <1>1, <1>2 DEF NGramInv

LEMMA ArriveInv ==
  ASSUME NGramInv, NEW r \in Reqs, Arrive(r)
  PROVE  NGramInv'
<1>0. PICK len \in 1 .. MaxPrompt : \E eos \in SUBSET (1 .. len) :
        all' = [all EXCEPT ![r] = [i \in 1 .. len |-> IF i \in eos THEN Eos ELSE Text(r, i - 1)]]
  BY DEF Arrive
<1>1. PICK eos \in SUBSET (1 .. len) :
        all' = [all EXCEPT ![r] = [i \in 1 .. len |-> IF i \in eos THEN Eos ELSE Text(r, i - 1)]]
  BY <1>0
<1> DEFINE prompt == [i \in 1 .. len |-> IF i \in eos THEN Eos ELSE Text(r, i - 1)]
<1>2. len \in Nat /\ len <= MaxSeq /\ MaxSeq \in Nat BY NGramConstants
<1>3. prompt \in Seq(Token) /\ Len(prompt) = len
  <2>1. ASSUME NEW i \in 1 .. len PROVE prompt[i] \in Token
    <3>1. i - 1 \in 0 .. MaxSeq - 1 BY <1>2
    <3> QED BY <3>1, TokenFacts, NGramConstants
  <2>2. prompt \in [1 .. len -> Token] BY <2>1
  <2> QED BY <1>2, <2>2
<1>4. all' = [all EXCEPT ![r] = prompt] BY <1>1
<1> HIDE DEF prompt
<1>5. ~busy /\ all[r] = <<>> /\ UNCHANGED <<computed, window, busy>> /\ window = <<>> /\ TextTypes
  BY DEF Arrive, NGramInv
<1>6. computed[r] = 0
  <2>1. computed[r] \in Nat /\ computed[r] <= Len(all[r]) /\ Len(all[r]) = 0
    BY <1>5 DEF TextTypes
  <2> QED BY <2>1
<1>7. TextTypes'
  <2>1. all' \in [Reqs -> Seq(Token)] BY <1>3, <1>4, <1>5 DEF TextTypes
  <2>2. ASSUME NEW q \in Reqs PROVE computed[q] <= Len(all'[q]) /\ Len(all'[q]) <= MaxSeq
    <3>1. CASE q = r
      <4>1. all'[q] = prompt BY <1>4, <1>5, <3>1 DEF TextTypes
      <4> QED BY <1>2, <1>3, <1>6, <3>1, <4>1
    <3>2. CASE q # r
      <4>1. all'[q] = all[q] BY <1>4, <1>5, <3>2 DEF TextTypes
      <4> QED BY <1>5, <4>1 DEF TextTypes
    <3> QED BY <3>1, <3>2
  <2> QED BY <1>5, <2>1, <2>2 DEF TextTypes
<1> QED BY <1>5, <1>7 DEF NGramInv

LEMMA LeaveInv ==
  ASSUME NGramInv, NEW r \in Reqs, Leave(r)
  PROVE  NGramInv'
<1>1. /\ ~busy /\ all' = [all EXCEPT ![r] = <<>>] /\ computed' = [computed EXCEPT ![r] = 0]
      /\ UNCHANGED <<window, busy>> /\ window = <<>> /\ TextTypes
  BY DEF Leave, NGramInv
<1>2. TextTypes'
  <2>1. all' \in [Reqs -> Seq(Token)] /\ computed' \in [Reqs -> Nat] BY <1>1 DEF TextTypes
  <2>2. ASSUME NEW q \in Reqs PROVE computed'[q] <= Len(all'[q]) /\ Len(all'[q]) <= MaxSeq
    <3>1. CASE q = r
      <4>1. computed'[q] = 0 /\ Len(all'[q]) = 0 BY <1>1, <3>1 DEF TextTypes
      <4> QED BY <4>1, NGramConstants
    <3>2. CASE q # r
      BY <1>1, <3>2 DEF TextTypes
    <3> QED BY <3>1, <3>2
  <2> QED BY <1>1, <2>1, <2>2 DEF TextTypes
<1> QED BY <1>1, <1>2 DEF NGramInv

\* What Flat and StartsOf compute.
LEMMA BatchOf ==
  ASSUME NEW chunk \in [Reqs -> Seq(Token)]
  PROVE  /\ StartsOf(chunk) \in [0 .. NumReqs -> Nat] /\ StartsOf(chunk)[0] = 0
         /\ \A r \in Reqs : StartsOf(chunk)[r + 1] = StartsOf(chunk)[r] + Len(chunk[r])
         /\ Flat(chunk)[NumReqs] \in Seq(Token)
         /\ Len(Flat(chunk)[NumReqs]) = StartsOf(chunk)[NumReqs]
<1> DEFINE d == [r \in 0 .. NumReqs - 1 |-> Len(chunk[r])]
           s == StartsOf(chunk)
           move == [k \in 1 .. NumReqs |-> [x \in Seq(Token) |-> x \o chunk[k - 1]]]
           f == Flat(chunk)
<1>1. NumReqs \in Nat BY NGramConstants
<1>2. d \in [0 .. NumReqs - 1 -> Nat] BY DEF Reqs
<1>3. s = [r \in 0 .. NumReqs |-> IF r = 0 THEN 0 ELSE s[r - 1] + Len(chunk[r - 1])]
  <2>1. PICK g \in [0 .. NumReqs -> Nat] :
          g = [r \in 0 .. NumReqs |-> IF r = 0 THEN 0 ELSE g[r - 1] + d[r - 1]]
    <3> HIDE DEF d
    <3> QED BY <1>1, <1>2, PartialSums
  <2>2. g = [r \in 0 .. NumReqs |-> IF r = 0 THEN 0 ELSE g[r - 1] + Len(chunk[r - 1])]
    <3>1. \A r \in 0 .. NumReqs : r # 0 => d[r - 1] = Len(chunk[r - 1])
      <4> TAKE r \in 0 .. NumReqs
      <4>1. r # 0 => r - 1 \in 0 .. NumReqs - 1 BY <1>1
      <4> QED BY <4>1
    <3> HIDE DEF d
    <3> QED BY <2>1, <3>1
  <2> QED BY <2>2 DEF StartsOf
<1>4. \A r \in 0 .. NumReqs : s[r] = IF r = 0 THEN 0 ELSE s[r - 1] + d[r - 1]
  <2> TAKE r \in 0 .. NumReqs
  <2>1. r # 0 => r - 1 \in 0 .. NumReqs - 1 /\ d[r - 1] = Len(chunk[r - 1])
    <3>1. r # 0 => r - 1 \in 0 .. NumReqs - 1 BY <1>1
    <3> QED BY <3>1
  <2> HIDE DEF d, s
  <2> QED BY <1>3, <2>1
<1>5. /\ s \in [0 .. NumReqs -> Nat] /\ s[0] = 0
      /\ \A r \in 0 .. NumReqs - 1 : s[r + 1] = s[r] + d[r] /\ s[r] <= s[r + 1]
  <2>1. s = [r \in 0 .. NumReqs |-> s[r]]
    <3> HIDE DEF s
    <3> QED BY <1>3
  <2> HIDE DEF s, d
  <2> QED BY <1>1, <1>2, <1>4, <2>1, SumFacts
<1>6. \A r \in Reqs : d[r] = Len(chunk[r]) BY DEF Reqs
<1>7. move \in [1 .. NumReqs -> [Seq(Token) -> Seq(Token)]]
  <2>1. ASSUME NEW k \in 1 .. NumReqs, NEW x \in Seq(Token) PROVE x \o chunk[k - 1] \in Seq(Token)
    <3>1. k - 1 \in Reqs BY <1>1 DEF Reqs
    <3>2. chunk[k - 1] \in Seq(Token) BY <3>1
    <3> QED BY <3>2, ConcatProperties
  <2> QED BY <2>1
<1>8. \A k \in 1 .. NumReqs, x \in Seq(Token) : move[k][x] = x \o chunk[k - 1] OBVIOUS
<1>9. PICK g : Takes(g, NumReqs, Seq(Token), <<>>, move)
  <2> HIDE DEF move
  <2>1. <<>> \in Seq(Token) OBVIOUS
  <2> QED BY <1>1, <1>7, <2>1, Iterates
<1>10. g = [r \in 0 .. NumReqs |-> IF r = 0 THEN <<>> ELSE g[r - 1] \o chunk[r - 1]]
  <2> HIDE DEF move
  <2>1. g \in [0 .. NumReqs -> Seq(Token)] BY <1>9 DEF Takes
  <2>2. ASSUME NEW r \in 0 .. NumReqs PROVE g[r] = IF r = 0 THEN <<>> ELSE g[r - 1] \o chunk[r - 1]
    <3>1. g[r] = IF r = 0 THEN <<>> ELSE move[r][g[r - 1]] BY <1>9 DEF Takes
    <3>2. r # 0 => r \in 1 .. NumReqs /\ r - 1 \in 0 .. NumReqs BY <1>1
    <3>3. CASE r = 0 BY <3>1, <3>3
    <3>4. CASE r # 0
      <4>1. g[r - 1] \in Seq(Token) /\ r \in 1 .. NumReqs BY <2>1, <3>2, <3>4
      <4>2. move[r][g[r - 1]] = g[r - 1] \o chunk[r - 1] BY <1>8, <4>1
      <4> QED BY <3>1, <3>4, <4>2
    <3> QED BY <3>3, <3>4
  <2> QED BY <2>1, <2>2
<1>11. f = [r \in 0 .. NumReqs |-> IF r = 0 THEN <<>> ELSE f[r - 1] \o chunk[r - 1]]
  <2>1. \E h : h = [r \in 0 .. NumReqs |-> IF r = 0 THEN <<>> ELSE h[r - 1] \o chunk[r - 1]]
    BY <1>10
  <2> QED BY <2>1, Zenon DEF Flat
<1> HIDE DEF f, s
<1>12. ASSUME NEW r \in 0 .. NumReqs - 1, f[r] \in Seq(Token), Len(f[r]) = s[r]
       PROVE  f[r + 1] \in Seq(Token) /\ Len(f[r + 1]) = s[r + 1]
  <2>1. r + 1 \in 0 .. NumReqs /\ r + 1 # 0 /\ (r + 1) - 1 = r /\ r \in Reqs BY <1>1 DEF Reqs
  <2>2. f[r + 1] = f[r] \o chunk[r] BY <1>11, <2>1
  <2>3. f[r] \o chunk[r] \in Seq(Token) /\ Len(f[r] \o chunk[r]) = Len(f[r]) + Len(chunk[r])
    <3>1. chunk[r] \in Seq(Token) BY <2>1
    <3> QED BY <1>12, <3>1, ConcatProperties
  <2>4. s[r + 1] = s[r] + Len(chunk[r]) BY <1>5, <1>6, <2>1
  <2> QED BY <1>12, <2>2, <2>3, <2>4
<1>13. f[NumReqs] \in Seq(Token) /\ Len(f[NumReqs]) = s[NumReqs]
  <2> DEFINE T == {r \in Nat : f[r] \in Seq(Token) /\ Len(f[r]) = s[r]}
  <2>1. 0 \in T
    <3>1. f[0] = <<>> BY <1>1, <1>11
    <3>2. <<>> \in Seq(Token) /\ Len(<<>>) = 0 BY EmptySeq
    <3> HIDE DEF d
    <3> QED BY <1>5, <3>1, <3>2
  <2>2. \A r \in 0 .. NumReqs - 1 : r \in T => r + 1 \in T BY <1>1, <1>12
  <2> HIDE DEF T
  <2>3. 0 .. NumReqs \subseteq T BY <1>1, <2>1, <2>2, ClosedUpwards
  <2>4. NumReqs \in T BY <1>1, <2>3
  <2> QED BY <2>4 DEF T
<1>14. \A r \in Reqs : s[r + 1] = s[r] + Len(chunk[r]) BY <1>5, <1>6 DEF Reqs
<1> QED BY <1>5, <1>13, <1>14 DEF s, f

LEMMA ContextFacts ==
  ASSUME TextTypes, NEW r \in Reqs
  PROVE  ContextOf(r) \in [0 .. N - 1 -> Token]
<1>1. all[r] \in Seq(Token) /\ computed[r] \in Nat /\ computed[r] <= Len(all[r]) BY DEF TextTypes
<1>2. ASSUME NEW c \in 0 .. N - 1, computed[r] - N + c >= 0
      PROVE  all[r][computed[r] - N + c + 1] \in Token
  <2>1. computed[r] - N + c + 1 \in 1 .. Len(all[r])
    <3>1. N \in Nat \ {0} /\ Len(all[r]) \in Nat /\ c \in Int /\ c <= N - 1
      BY <1>1, NGramConstants
    <3> QED BY <1>1, <1>2, <3>1
  <2> QED BY <1>1, <2>1, ElementOfSeq
<1> QED BY <1>2, NGramConstants DEF ContextOf

LEMMA PrepareInv ==
  ASSUME NGramInv, Prepare
  PROVE  NGramInv'
<1>1. PICK chunk \in [Reqs -> UNION {Chunks(r) : r \in Reqs}],
           reqs \in 0 .. MaxPadding, toks \in 0 .. MaxPadding :
        /\ \A r \in Reqs : chunk[r] \in Chunks(r)
        /\ input' = Flat(chunk)[NumReqs] \o [i \in 1 .. toks |-> Eos]
        /\ qsl' = [r \in 0 .. NumReqs + reqs |->
                     IF r <= NumReqs THEN StartsOf(chunk)[r] ELSE StartsOf(chunk)[NumReqs]]
        /\ context' = [r \in 0 .. NumReqs + reqs - 1 |->
                         IF r < NumReqs THEN ContextOf(r) ELSE [c \in 0 .. N - 1 |-> Eos]]
        /\ window' = [t \in 0 .. StartsOf(chunk)[NumReqs] + toks - 1 |-> <<>>]
  BY DEF Prepare
<1> DEFINE start == StartsOf(chunk)
           rows == Flat(chunk)[NumReqs]
           n == NumReqs + reqs
<1>2. TextTypes /\ busy' /\ busy' \in BOOLEAN /\ UNCHANGED <<all, computed>>
  BY DEF NGramInv, Prepare
<1>3. ASSUME NEW r \in Reqs PROVE chunk[r] \in Seq(Token) /\ RowsFit(r, Len(chunk[r]))
  BY <1>1, <1>2, ChunkFacts
<1>4. /\ start \in [0 .. NumReqs -> Nat] /\ start[0] = 0
      /\ \A r \in Reqs : start[r + 1] = start[r] + Len(chunk[r])
      /\ rows \in Seq(Token) /\ Len(rows) = start[NumReqs]
  <2>1. chunk \in [Reqs -> Seq(Token)] BY <1>3
  <2> QED BY <2>1, BatchOf
<1>5. /\ reqs \in Nat /\ toks \in Nat /\ NumReqs \in Nat \ {0} /\ n \in Nat /\ NumReqs <= n
      /\ \A r : r \in Reqs <=> r \in 0 .. NumReqs - 1
  BY NGramConstants DEF Reqs
<1> HIDE DEF start, rows
<1>6. /\ qsl' = [r \in 0 .. n |-> IF r <= NumReqs THEN start[r] ELSE start[NumReqs]]
      /\ context' = [r \in 0 .. n - 1 |->
                       IF r < NumReqs THEN ContextOf(r) ELSE [c \in 0 .. N - 1 |-> Eos]]
      /\ window' = [t \in 0 .. start[NumReqs] + toks - 1 |-> <<>>]
      /\ input' = rows \o [i \in 1 .. toks |-> Eos]
  <2>1. NumReqs + reqs - 1 = n - 1 BY <1>5
  <2> QED BY <1>1, <2>1 DEF start, rows, n
<1> HIDE DEF n
<1>7. StepReqs' = n
  <2>1. DOMAIN qsl' = 0 .. n BY <1>6
  <2>2. Cardinality(0 .. n) = n + 1 BY <1>5, FS_Interval
  <2>3. StepReqs' = Cardinality(DOMAIN qsl') - 1 BY DEF StepReqs
  <2> QED BY <1>5, <2>1, <2>2, <2>3
<1>8. /\ qsl' \in [0 .. n -> Nat] /\ qsl'[0] = 0 /\ qsl'[n] = start[NumReqs]
      /\ \A r \in 0 .. NumReqs : qsl'[r] = start[r]
  <2>1. start[NumReqs] \in Nat BY <1>4, <1>5
  <2> QED BY <1>4, <1>5, <1>6, <2>1
<1>9. ASSUME NEW r \in 0 .. n - 1 PROVE qsl'[r] <= qsl'[r + 1]
  <2>1. CASE r < NumReqs
    <3>1. r \in Reqs /\ r \in 0 .. NumReqs /\ r + 1 \in 0 .. NumReqs BY <1>5, <2>1
    <3>2. start[r + 1] = start[r] + Len(chunk[r]) /\ start[r] \in Nat BY <1>4, <3>1
    <3>3. Len(chunk[r]) \in Nat BY <1>3, <3>1 DEF RowsFit
    <3>4. qsl'[r] = start[r] /\ qsl'[r + 1] = start[r + 1] BY <1>8, <3>1
    <3> QED BY <3>2, <3>3, <3>4
  <2>2. CASE r >= NumReqs
    <3>1. start[NumReqs] \in Nat BY <1>4, <1>5
    <3>2. r \in 0 .. n /\ r + 1 \in 0 .. n /\ ~(r + 1 <= NumReqs) /\ (r <= NumReqs => r = NumReqs)
      BY <1>5, <2>2
    <3>3. qsl'[r] = start[NumReqs] /\ qsl'[r + 1] = start[NumReqs] BY <1>6, <3>2
    <3> QED BY <3>1, <3>3
  <2> QED BY <1>5, <2>1, <2>2
<1>10. input' \in Seq(Token) /\ Len(input') = start[NumReqs] + toks /\ start[NumReqs] \in Nat
  <2> DEFINE tail == [i \in 1 .. toks |-> Eos]
  <2>1. tail \in Seq(Token) /\ Len(tail) = toks
    <3>1. tail \in [1 .. toks -> Token] BY NGramConstants
    <3> QED BY <1>5, <3>1
  <2> HIDE DEF tail
  <2>2. rows \o tail \in Seq(Token) /\ Len(rows \o tail) = Len(rows) + Len(tail)
    BY <1>4, <2>1, ConcatProperties
  <2>3. input' = rows \o tail BY <1>6 DEF tail
  <2>4. start[NumReqs] \in Nat BY <1>4, <1>5
  <2> QED BY <1>4, <2>1, <2>2, <2>3, <2>4
<1>11. context' \in [0 .. n - 1 -> [0 .. N - 1 -> Token]]
  <2>1. ASSUME NEW r \in 0 .. n - 1
        PROVE  (IF r < NumReqs THEN ContextOf(r) ELSE [c \in 0 .. N - 1 |-> Eos])
                 \in [0 .. N - 1 -> Token]
    <3>1. [c \in 0 .. N - 1 |-> Eos] \in [0 .. N - 1 -> Token] BY NGramConstants
    <3>2. r < NumReqs => r \in Reqs BY <1>5
    <3> QED BY <1>2, <3>1, <3>2, ContextFacts
  <2> QED BY <1>6, <2>1
<1>12. ASSUME NEW r \in Reqs
       PROVE  /\ context'[r] = ContextOf(r) /\ RowsFit(r, qsl'[r + 1] - qsl'[r])
              /\ ContextOf(r)' = ContextOf(r)
              /\ \A len : RowsFit(r, len)' <=> RowsFit(r, len)
  <2>1. r \in 0 .. n - 1 /\ r < NumReqs /\ r \in 0 .. NumReqs /\ r + 1 \in 0 .. NumReqs BY <1>5
  <2>2. context'[r] = ContextOf(r) BY <1>6, <2>1
  <2>3. qsl'[r + 1] - qsl'[r] = Len(chunk[r])
    <3>1. start[r + 1] = start[r] + Len(chunk[r]) /\ start[r] \in Nat BY <1>4, <2>1
    <3>2. Len(chunk[r]) \in Nat BY <1>3 DEF RowsFit
    <3>3. qsl'[r] = start[r] /\ qsl'[r + 1] = start[r + 1] BY <1>8, <2>1
    <3> QED BY <3>1, <3>2, <3>3
  <2>4. ContextOf(r)' = ContextOf(r) BY <1>2 DEF ContextOf
  <2>5. \A len : RowsFit(r, len)' <=> RowsFit(r, len) BY <1>2 DEF RowsFit
  <2> QED BY <1>3, <2>2, <2>3, <2>4, <2>5
<1>13. Batch'
  <2>1. NumTokens' = Len(input') BY DEF NumTokens
  <2>2. \A r \in Reqs : context'[r] = ContextOf(r)' /\ RowsFit(r, qsl[r + 1] - qsl[r])'
    BY <1>12
  <2>3. StepReqs' \in Nat /\ NumReqs <= StepReqs' /\ qsl'[StepReqs'] <= NumTokens'
    BY <1>5, <1>7, <1>8, <1>10, <2>1
  <2> QED BY <1>7, <1>8, <1>9, <1>10, <1>11, <2>2, <2>3 DEF Batch
<1>14. WindowsWritten'
  <2>1. NumTokens' = Len(input') BY DEF NumTokens
  <2>2. DOMAIN window' = 0 .. NumTokens' - 1
    <3>0. \A a, b \in Nat : a + b - 1 = (a + b) - 1 OBVIOUS
    <3>1. NumTokens' = start[NumReqs] + toks BY <1>10, <2>1
    <3>2. start[NumReqs] \in Nat /\ toks \in Nat BY <1>5, <1>10
    <3>3. start[NumReqs] + toks - 1 = NumTokens' - 1 BY <3>0, <3>1, <3>2
    <3> QED BY <1>6, <3>3
  <2>3. \A t \in DOMAIN window' : window'[t] = <<>> BY <1>6
  <2> QED BY <2>2, <2>3 DEF WindowsWritten
<1>15. TextTypes' BY <1>2 DEF TextTypes
<1> QED BY <1>2, <1>13, <1>14, <1>15 DEF NGramInv

\* The windows depend on the batch alone.
LEMMA SameWindows ==
  ASSUME UNCHANGED <<input, qsl, context>>, NEW t
  PROVE  KernelWindow(t)' = KernelWindow(t)
<1>1. StepReqs' = StepReqs /\ SearchSteps' = SearchSteps BY DEF StepReqs, SearchSteps, BitLength
<1>2. Search(t)' = Search(t) BY <1>1 DEF Search, Halve
<1>3. OwnerOf(t)' = OwnerOf(t) BY <1>1, <1>2 DEF OwnerOf
<1>4. \A s : Predecessor(OwnerOf(t), t, s)' = Predecessor(OwnerOf(t), t, s)
  BY <1>3 DEF Predecessor, InputAt
<1>5. Walk(t)' = Walk(t) BY <1>4 DEF Walk, InputAt
<1> QED BY <1>5 DEF KernelWindow

LEMMA RunTileInv ==
  ASSUME NGramInv, NEW pid, RunTile(pid)
  PROVE  NGramInv'
<1>1. /\ busy /\ UNCHANGED <<all, computed, input, qsl, context, busy>>
      /\ window' = [t \in DOMAIN window |->
                      IF t \in {u \in 0 .. NumTokens - 1 : u \div BlockT = pid}
                      THEN KernelWindow(t) ELSE window[t]]
  BY DEF RunTile
<1>2. TextTypes /\ Batch /\ WindowsWritten BY <1>1 DEF NGramInv
<1>3. TextTypes' BY <1>1, <1>2 DEF TextTypes
<1>4. StepReqs' = StepReqs /\ NumTokens' = NumTokens BY <1>1 DEF StepReqs, NumTokens
<1>5. Batch'
  <2>1. \A r \in Reqs : ContextOf(r)' = ContextOf(r) BY <1>1 DEF ContextOf
  <2>2. \A r, len : RowsFit(r, len)' <=> RowsFit(r, len) BY <1>1 DEF RowsFit
  <2>3. \A r \in Reqs : RowsFit(r, qsl[r + 1] - qsl[r])' BY <1>1, <1>2, <2>2 DEF Batch
  <2> QED BY <1>1, <1>2, <1>4, <2>1, <2>3 DEF Batch
<1>6. WindowsWritten'
  <2>1. DOMAIN window' = DOMAIN window BY <1>1
  <2>2. \A t \in DOMAIN window : window'[t] \in {<<>>, KernelWindow(t)}
    BY <1>1, <1>2 DEF WindowsWritten
  <2>3. \A t : KernelWindow(t)' = KernelWindow(t) BY <1>1, SameWindows
  <2> QED BY <1>2, <1>4, <2>1, <2>2, <2>3 DEF WindowsWritten
<1> QED BY <1>1, <1>3, <1>5, <1>6 DEF NGramInv


\* Rows of a request in the step.
LEMMA RowsOf ==
  ASSUME Batch, NEW r \in Reqs
  PROVE  /\ qsl[r] \in Nat /\ qsl[r + 1] \in Nat /\ qsl[r] <= qsl[r + 1]
         /\ qsl[r + 1] <= NumTokens /\ NumTokens \in Nat
         /\ SubSeq(input, qsl[r] + 1, qsl[r + 1]) \in Seq(Token)
         /\ Len(SubSeq(input, qsl[r] + 1, qsl[r + 1])) = qsl[r + 1] - qsl[r]
         /\ \A i \in 1 .. qsl[r + 1] - qsl[r] :
              SubSeq(input, qsl[r] + 1, qsl[r + 1])[i] = input[qsl[r] + i]
<1> DEFINE n == StepReqs
<1>1. n \in Nat /\ r \in Nat /\ r < n
  <2>1. NumReqs \in Nat /\ r \in Nat /\ r < NumReqs BY NGramConstants
  <2> QED BY <2>1 DEF Batch
<1>2. /\ qsl \in [0 .. n -> Nat] /\ qsl[n] <= NumTokens /\ NumTokens \in Nat
      /\ input \in Seq(Token) /\ Len(input) = NumTokens
      /\ \A q \in 0 .. n - 1 : qsl[q] <= qsl[q + 1]
  BY DEF Batch, NumTokens
<1> HIDE DEF n
<1>3. r \in 0 .. n - 1 /\ r \in 0 .. n /\ r + 1 \in 0 .. n /\ n \in 0 .. n /\ r + 1 <= n BY <1>1
<1>4. qsl[r] \in Nat /\ qsl[r + 1] \in Nat /\ qsl[n] \in Nat /\ qsl[r] <= qsl[r + 1]
  BY <1>2, <1>3
<1>5. qsl[r + 1] <= qsl[n]
  <2>1. qsl \in [0 .. n -> Int] BY <1>2
  <2> QED BY <1>1, <1>2, <1>3, <2>1, Ascends
<1>6. qsl[r + 1] <= NumTokens BY <1>2, <1>4, <1>5
<1> DEFINE a == qsl[r]
           b == qsl[r + 1]
<1>7. a \in Nat /\ b \in Nat /\ a <= b /\ b <= Len(input) BY <1>2, <1>4, <1>6
<1> HIDE DEF a, b
<1>8. \A i \in a + 1 .. b : input[i] \in Token BY <1>2, <1>7, ElementOfSeq
<1>9. /\ SubSeq(input, a + 1, b) \in Seq(Token)
      /\ Len(SubSeq(input, a + 1, b)) = IF a + 1 <= b THEN b - (a + 1) + 1 ELSE 0
      /\ \A i \in 1 .. b - (a + 1) + 1 : SubSeq(input, a + 1, b)[i] = input[(a + 1) + i - 1]
  <2>1. a + 1 \in Int /\ b \in Int BY <1>7
  <2> HIDE DEF n
  <2>2. /\ SubSeq(input, a + 1, b) \in Seq(Token)
        /\ Len(SubSeq(input, a + 1, b)) = IF a + 1 <= b THEN b - (a + 1) + 1 ELSE 0
    BY <1>8, <2>1, SubSeqProperties
  <2>3. \A i \in 1 .. b - (a + 1) + 1 : SubSeq(input, a + 1, b)[i] = input[(a + 1) + i - 1]
    BY <1>8, <2>1, SubSeqProperties
  <2> QED BY <2>2, <2>3
<1>10. (IF a + 1 <= b THEN b - (a + 1) + 1 ELSE 0) = b - a /\ b - (a + 1) + 1 = b - a BY <1>7
<1>11. \A i \in 1 .. b - a : (a + 1) + i - 1 = a + i BY <1>7
<1>12. \A i \in 1 .. b - a : SubSeq(input, a + 1, b)[i] = input[a + i] BY <1>9, <1>10, <1>11
<1> QED BY <1>2, <1>4, <1>6, <1>9, <1>10, <1>12 DEF a, b

LEMMA FinishInv ==
  ASSUME NGramInv, Finish
  PROVE  NGramInv'
<1> DEFINE rowsOf(r) == SubSeq(input, qsl[r] + 1, qsl[r + 1])
           drafts(r) == computed[r] + Len(rowsOf(r)) - Len(all[r])
           samples(r) == rowsOf(r) # <<>> /\ drafts(r) >= 0
<1>1. PICK kept \in [Reqs -> 0 .. NumDrafts], eos \in SUBSET Reqs :
        /\ \A r \in Reqs :
             /\ kept[r] = 0 \/ (samples(r) /\ kept[r] <= drafts(r))
             /\ samples(r) => Len(all[r] \o SubSeq(rowsOf(r), 2, 1 + kept[r])) < MaxSeq
        /\ all' = [r \in Reqs |->
             IF samples(r)
             THEN Append(all[r] \o SubSeq(rowsOf(r), 2, 1 + kept[r]),
                         IF r \in eos THEN Eos
                         ELSE Text(r, Len(all[r] \o SubSeq(rowsOf(r), 2, 1 + kept[r]))))
             ELSE all[r]]
        /\ computed' = [r \in Reqs |->
             IF samples(r) THEN Len(all[r] \o SubSeq(rowsOf(r), 2, 1 + kept[r]))
             ELSE computed[r] + Len(rowsOf(r))]
  BY DEF Finish
<1> DEFINE more(r) == SubSeq(rowsOf(r), 2, 1 + kept[r])
           grown(r) == all[r] \o more(r)
           sampled(r) == IF r \in eos THEN Eos ELSE Text(r, Len(grown(r)))
<1>2. TextTypes /\ Batch /\ ~busy' /\ busy' \in BOOLEAN /\ window' = <<>>
  BY DEF NGramInv, Finish, Computed
<1>3. ASSUME NEW r \in Reqs
      PROVE  /\ all'[r] \in Seq(Token) /\ computed'[r] \in Nat
             /\ computed'[r] <= Len(all'[r]) /\ Len(all'[r]) <= MaxSeq
  <2> DEFINE rows == rowsOf(r)
             text == all[r]
             len == Len(rows)
             done == computed[r]
  <2>1. /\ text \in Seq(Token) /\ done \in Nat /\ done <= Len(text) /\ Len(text) <= MaxSeq
        /\ Len(text) \in Nat
    BY <1>2 DEF TextTypes
  <2>2. /\ rows \in Seq(Token) /\ len \in Nat
        /\ done + len <= Len(text) \/ Len(text) = done + 1
    <3>1. rows \in Seq(Token) /\ len = qsl[r + 1] - qsl[r] BY <1>2, RowsOf
    <3>2. RowsFit(r, len) BY <1>2, <3>1 DEF Batch
    <3> QED BY <3>1, <3>2 DEF RowsFit
  <2>3. samples(r) <=> rows # <<>> /\ done + len - Len(text) >= 0 OBVIOUS
  <2>4. CASE samples(r)
    <3>1. kept[r] \in Nat /\ (1 + kept[r] <= len \/ kept[r] = 0)
      <4>1. kept[r] = 0 \/ kept[r] <= done + len - Len(text) BY <1>1
      <4>2. kept[r] \in Nat BY NGramConstants
      <4> HIDE DEF len, done, text
      <4> QED BY <2>1, <2>2, <4>1, <4>2
    <3>2. more(r) \in Seq(Token)
      <4>1. \A i \in 2 .. 1 + kept[r] : rows[i] \in Token
        <5>1. \A i \in 2 .. 1 + kept[r] : i \in 1 .. len BY <2>2, <3>1
        <5> HIDE DEF rows
        <5> QED BY <2>2, <5>1, ElementOfSeq
      <4>2. 2 \in Int /\ 1 + kept[r] \in Int BY NGramConstants
      <4> HIDE DEF rows
      <4>3. SubSeq(rows, 2, 1 + kept[r]) \in Seq(Token) BY <4>1, <4>2, SubSeqProperties
      <4> QED BY <4>3 DEF rows
    <3> DEFINE g == grown(r)
    <3>3. g \in Seq(Token)
      <4> HIDE DEF more, text
      <4>1. text \o more(r) \in Seq(Token) BY <2>1, <3>2, ConcatProperties
      <4> QED BY <4>1 DEF text
    <3>4. Len(g) < MaxSeq /\ Len(g) \in Nat
      <4>1. Len(g) < MaxSeq BY <1>1, <2>4
      <4> HIDE DEF g
      <4> QED BY <3>3, <4>1, LenProperties
    <3>5. all'[r] = Append(g, sampled(r)) /\ computed'[r] = Len(g)
      BY <1>1, <2>4
    <3>6. sampled(r) = IF r \in eos THEN Eos ELSE Text(r, Len(g)) OBVIOUS
    <3> HIDE DEF g, sampled
    <3>7. sampled(r) \in Token
      <4>1. Len(g) \in 0 .. MaxSeq - 1 BY <3>4, NGramConstants
      <4>2. Text(r, Len(g)) \in Token BY <4>1, TokenFacts
      <4> QED BY <3>6, <4>2, NGramConstants
    <3>8. Append(g, sampled(r)) \in Seq(Token) /\ Len(Append(g, sampled(r))) = Len(g) + 1
      BY <3>3, <3>7, AppendProperties
    <3>9. Len(g) + 1 <= MaxSeq /\ Len(g) <= Len(g) + 1 BY <3>4, NGramConstants
    <3> QED BY <3>4, <3>5, <3>8, <3>9
  <2>5. CASE ~samples(r)
    <3>1. all'[r] = text /\ computed'[r] = done + len BY <1>1, <2>5
    <3>2. rows = <<>> => len = 0 BY EmptySeq
    <3> HIDE DEF samples
    <3>3. rows = <<>> \/ ~(done + len - Len(text) >= 0) BY <2>3, <2>5
    <3> HIDE DEF len, done, text
    <3>4. len = 0 \/ ~(done + len - Len(text) >= 0) BY <3>2, <3>3
    <3>5. done + len <= Len(text)
      <4>1. \A x, y, z \in Nat : ~(x + y - z >= 0) => x + y <= z OBVIOUS
      <4> QED BY <2>1, <2>2, <3>4, <4>1
    <3> QED BY <2>1, <2>2, <3>1, <3>5
  <2> QED BY <2>4, <2>5
<1>4. TextTypes'
  <2>1. all' = [r \in Reqs |-> all'[r]] /\ computed' = [r \in Reqs |-> computed'[r]]
    BY <1>1
  <2>2. all' \in [Reqs -> Seq(Token)] /\ computed' \in [Reqs -> Nat] BY <1>3, <2>1
  <2> QED BY <1>2, <1>3, <2>2 DEF TextTypes
<1> QED BY <1>2, <1>4 DEF NGramInv

LEMMA NGramStep == NGramInv /\ [NNext]_nvars => NGramInv'
<1> SUFFICES ASSUME NGramInv, [NNext]_nvars PROVE NGramInv' OBVIOUS
<1>1. ASSUME NEW r \in Reqs, Arrive(r) PROVE NGramInv' BY <1>1, ArriveInv
<1>2. ASSUME NEW r \in Reqs, Leave(r) PROVE NGramInv' BY <1>2, LeaveInv
<1>3. CASE Prepare BY <1>3, PrepareInv
<1>4. ASSUME NEW pid, RunTile(pid) PROVE NGramInv' BY <1>4, RunTileInv
<1>5. CASE Finish BY <1>5, FinishInv
<1>6. CASE UNCHANGED nvars
  <2>1. UNCHANGED <<all, computed, input, qsl, context, window, busy>> BY <1>6 DEF nvars
  <2>2. TextTypes => TextTypes' BY <2>1 DEF TextTypes
  <2>3. Batch => Batch'
    <3>1. StepReqs' = StepReqs /\ NumTokens' = NumTokens BY <2>1 DEF StepReqs, NumTokens
    <3>2. \A r \in Reqs : ContextOf(r)' = ContextOf(r) BY <2>1 DEF ContextOf
    <3>3. \A r, len : RowsFit(r, len)' <=> RowsFit(r, len) BY <2>1 DEF RowsFit
    <3>4. Batch => \A r \in Reqs : RowsFit(r, qsl[r + 1] - qsl[r])'
      BY <2>1, <3>3 DEF Batch
    <3> QED BY <2>1, <3>1, <3>2, <3>4 DEF Batch
  <2>4. WindowsWritten => WindowsWritten'
    <3>1. \A t : KernelWindow(t)' = KernelWindow(t) BY <2>1, SameWindows
    <3>2. NumTokens' = NumTokens BY <2>1 DEF NumTokens
    <3> QED BY <2>1, <3>1, <3>2 DEF WindowsWritten
  <2> QED BY <2>1, <2>2, <2>3, <2>4 DEF NGramInv
<1> QED BY <1>1, <1>2, <1>3, <1>4, <1>5, <1>6 DEF NNext

\* Halving a number ends at 0, after as many steps as it has bits.
LEMMA BitLengthFacts ==
  ASSUME NEW x \in Nat
  PROVE  /\ BitLength(x) \in Nat
         /\ \E rest \in [0 .. BitLength(x) -> Nat] :
              /\ rest[0] = x /\ rest[BitLength(x)] = 0
              /\ \A k \in 1 .. BitLength(x) : rest[k] = rest[k - 1] \div 2
<1> DEFINE move == [k \in 1 .. x |-> [y \in Nat |-> y \div 2]]
           rest == CHOOSE f : f = [k \in 0 .. x |-> IF k = 0 THEN x ELSE f[k - 1] \div 2]
<1>1. move \in [1 .. x -> [Nat -> Nat]]
  <2>1. \A y \in Nat : y \div 2 \in Nat BY DivFacts
  <2> QED BY <2>1
<1>2. \A k \in 1 .. x, y \in Nat : move[k][y] = y \div 2 OBVIOUS
<1>3. PICK g : Takes(g, x, Nat, x, move)
  <2> HIDE DEF move
  <2> QED BY <1>1, Iterates
<1>4. g \in [0 .. x -> Nat] BY <1>3 DEF Takes
<1>5. g = [k \in 0 .. x |-> IF k = 0 THEN x ELSE g[k - 1] \div 2]
  <2> HIDE DEF move
  <2>1. ASSUME NEW k \in 0 .. x PROVE g[k] = IF k = 0 THEN x ELSE g[k - 1] \div 2
    <3>1. g[k] = IF k = 0 THEN x ELSE move[k][g[k - 1]] BY <1>3 DEF Takes
    <3>2. CASE k = 0 BY <3>1, <3>2
    <3>3. CASE k # 0
      <4>1. k \in 1 .. x /\ g[k - 1] \in Nat BY <1>4, <3>3
      <4> QED BY <1>2, <3>1, <3>3, <4>1
    <3> QED BY <3>2, <3>3
  <2> QED BY <1>4, <2>1
<1>6. rest = [k \in 0 .. x |-> IF k = 0 THEN x ELSE rest[k - 1] \div 2]
  <2> HIDE DEF move
  <2>1. \E f : f = [k \in 0 .. x |-> IF k = 0 THEN x ELSE f[k - 1] \div 2] BY <1>5
  <2> QED BY <2>1, Zenon
<1>7. BitLength(x) = CHOOSE k \in 0 .. x : rest[k] = 0 /\ \A j \in 0 .. k - 1 : rest[j] # 0
  BY DEF BitLength
<1> HIDE DEF rest, move
<1>8. rest[0] = x BY <1>6
<1>9. ASSUME NEW k \in 0 .. x - 1, rest[k] \in Nat, rest[k] <= x - k
      PROVE  /\ rest[k + 1] = rest[k] \div 2
             /\ rest[k + 1] \in Nat /\ rest[k + 1] <= x - (k + 1)
  <2>1. k + 1 \in 0 .. x /\ k + 1 # 0 /\ (k + 1) - 1 = k OBVIOUS
  <2>2. rest[k + 1] = rest[k] \div 2 BY <1>6, <2>1
  <2>3. /\ rest[k] \div 2 \in Nat /\ rest[k] % 2 \in 0 .. 1
        /\ rest[k] = 2 * (rest[k] \div 2) + (rest[k] % 2)
    <3>1. \A y \in Nat : y \div 2 \in Nat /\ y % 2 \in 0 .. 1 /\ y = 2 * (y \div 2) + (y % 2)
      BY DivFacts
    <3> QED BY <1>9, <3>1
  <2> QED BY <1>9, <2>1, <2>2, <2>3
<1>10. \A k \in 0 .. x : rest[k] \in Nat /\ rest[k] <= x - k
  <2> DEFINE T == {k \in Nat : rest[k] \in Nat /\ rest[k] <= x - k}
  <2>1. 0 \in T BY <1>8
  <2>2. \A k \in 0 .. x - 1 : k \in T => k + 1 \in T BY <1>9
  <2> HIDE DEF T
  <2>3. 0 .. x \subseteq T BY <2>1, <2>2, ClosedUpwards
  <2> QED BY <2>3 DEF T
<1>11. \E k \in 0 .. x : rest[k] = 0 /\ \A j \in 0 .. k - 1 : rest[j] # 0
  <2> DEFINE Z == {k \in 0 .. x : rest[k] = 0}
  <2>1. x \in Z BY <1>10
  <2>2. PICK k \in Z : \A j \in Z : k <= j
    <3>1. Z \in SUBSET Nat OBVIOUS
    <3> QED BY <2>1, <3>1, LeastElement
  <2> QED BY <2>2
<1>12. BitLength(x) \in 0 .. x /\ rest[BitLength(x)] = 0 BY <1>7, <1>11
<1> DEFINE n == BitLength(x)
           short == [k \in 0 .. n |-> rest[k]]
<1>13. n \in Nat /\ n <= x BY <1>12
<1> HIDE DEF n
<1>14. short \in [0 .. n -> Nat] /\ short[0] = x /\ short[n] = 0
  <2>1. \A k \in 0 .. n : k \in 0 .. x BY <1>13
  <2>2. rest[n] = 0 BY <1>12 DEF n
  <2> QED BY <1>8, <1>10, <1>13, <2>1, <2>2
<1>15. ASSUME NEW k \in 1 .. n PROVE short[k] = short[k - 1] \div 2
  <2>1. k - 1 \in 0 .. x - 1 /\ k \in 0 .. n /\ k - 1 \in 0 .. n /\ (k - 1) + 1 = k
        /\ k - 1 \in 0 .. x
    BY <1>13
  <2>2. rest[(k - 1) + 1] = rest[k - 1] \div 2 BY <1>9, <1>10, <2>1
  <2> QED BY <2>1, <2>2
<1> HIDE DEF short
<1> QED BY <1>13, <1>14, <1>15 DEF n

-----------------------------------------------------------------------------
(* The ids: whose a token is. *)

\* Token t is in the rows of request r of the step; the last takes what is behind.
Owns(r, t) ==
  /\ r \in 0 .. StepReqs - 1
  /\ qsl[r] <= t
  /\ r < StepReqs - 1 => t < qsl[r + 1]

\* What a search for t has found out.
Narrowed(s, t, rest) ==
  /\ s.lo \in 1 .. StepReqs + 2 /\ s.hi \in 1 .. StepReqs + 1
  /\ s.lo <= s.hi + 1 /\ s.hi - s.lo <= rest
  /\ \A r \in 0 .. StepReqs : /\ r < s.lo => qsl[r] <= t
                              /\ s.hi <= r => t < qsl[r]

LEMMA BatchFacts ==
  ASSUME Batch
  PROVE  /\ StepReqs \in Nat \ {0} /\ NumReqs <= StepReqs
         /\ qsl \in [0 .. StepReqs -> Nat] /\ qsl[0] = 0
         /\ \A a, b \in 0 .. StepReqs : a <= b => qsl[a] <= qsl[b]
<1>1. StepReqs \in Nat \ {0} /\ NumReqs <= StepReqs BY NGramConstants DEF Batch
<1>2. qsl \in [0 .. StepReqs -> Int] /\ \A r \in 0 .. StepReqs - 1 : qsl[r] <= qsl[r + 1]
  BY DEF Batch
<1>3. \A a, b \in 0 .. StepReqs : a <= b => qsl[a] <= qsl[b] BY <1>1, <1>2, Ascends
<1> QED BY <1>1, <1>3 DEF Batch

LEMMA OnlyOwner ==
  ASSUME Batch, NEW t \in Nat, NEW r, NEW q, Owns(r, t), Owns(q, t)
  PROVE  r = q
<1> DEFINE n == StepReqs
<1>1. /\ n \in Nat /\ qsl \in [0 .. n -> Nat]
      /\ \A a, b \in 0 .. n : a <= b => qsl[a] <= qsl[b]
  BY BatchFacts
<1>2. /\ r \in 0 .. n - 1 /\ qsl[r] <= t /\ (r < n - 1 => t < qsl[r + 1])
      /\ q \in 0 .. n - 1 /\ qsl[q] <= t /\ (q < n - 1 => t < qsl[q + 1])
  BY DEF Owns
<1> HIDE DEF n
<1>3. ASSUME NEW a \in 0 .. n - 1, NEW b \in 0 .. n - 1, a < b, qsl[b] <= t,
             a < n - 1 => t < qsl[a + 1]
      PROVE  FALSE
  <2>1. a + 1 \in 0 .. n /\ b \in 0 .. n /\ a + 1 <= b /\ a < n - 1 BY <1>1, <1>3
  <2>2. qsl[a + 1] <= qsl[b] /\ qsl[a + 1] \in Nat /\ qsl[b] \in Nat BY <1>1, <2>1
  <2> QED BY <1>3, <2>1, <2>2
<1>4. ~(r < q) /\ ~(q < r) BY <1>2, <1>3
<1> QED BY <1>1, <1>2, <1>4

\* A step of the search keeps what it knows and halves what it does not.
LEMMA HalveFacts ==
  ASSUME Batch, NEW t \in Nat, NEW s \in [lo : Int, hi : Int], NEW rest \in Nat,
         Narrowed(s, t, rest)
  PROVE  Narrowed(Halve(t, s), t, rest \div 2)
<1> DEFINE n == StepReqs
           mid == (s.lo + s.hi) \div 2
           read == IF mid <= n THEN qsl[mid] ELSE 0
           half == rest \div 2
<1>1. /\ n \in Nat \ {0} /\ qsl \in [0 .. n -> Nat]
      /\ \A a, b \in 0 .. n : a <= b => qsl[a] <= qsl[b]
  BY BatchFacts
<1>2. PICK lo \in Nat, hi \in Nat : s.lo = lo /\ s.hi = hi BY DEF Narrowed
<1>3. /\ 1 <= lo /\ lo <= n + 2 /\ 1 <= hi /\ hi <= n + 1 /\ lo <= hi + 1 /\ hi - lo <= rest
      /\ \A r \in 0 .. n : (r < lo => qsl[r] <= t) /\ (hi <= r => t < qsl[r])
  BY <1>1, <1>2 DEF Narrowed
<1>4. mid \in Nat /\ (lo + hi = 2 * mid \/ lo + hi = 2 * mid + 1)
  <2>1. lo + hi \in Nat OBVIOUS
  <2>2. /\ (lo + hi) \div 2 \in Nat /\ (lo + hi) % 2 \in 0 .. 1
        /\ lo + hi = 2 * ((lo + hi) \div 2) + ((lo + hi) % 2)
    BY <2>1, DivFacts
  <2>3. mid = (lo + hi) \div 2 BY <1>2
  <2> QED BY <2>2, <2>3
<1>5. half \in Nat /\ (rest = 2 * half \/ rest = 2 * half + 1)
  <2>1. half \in Nat /\ rest % 2 \in 0 .. 1 /\ rest = 2 * half + (rest % 2) BY DivFacts
  <2> QED BY <2>1
<1>6. Halve(t, s) = IF read <= t THEN [lo |-> mid + 1, hi |-> hi] ELSE [lo |-> lo, hi |-> mid]
  BY <1>2 DEF Halve
<1> HIDE DEF n, mid, half
<1>7. 1 <= mid /\ mid <= n + 1 /\ mid <= hi /\ lo <= mid + 1
  BY <1>1, <1>3, <1>4
<1>8. CASE read <= t
  <2>1. Halve(t, s).lo = mid + 1 /\ Halve(t, s).hi = hi BY <1>6, <1>8
  <2>2. hi - (mid + 1) <= half BY <1>3, <1>4, <1>5
  <2>3. ASSUME NEW r \in 0 .. n, r < mid + 1 PROVE qsl[r] <= t
    <3>1. CASE mid <= n
      <4>1. mid \in 0 .. n /\ r <= mid BY <1>1, <1>4, <2>3, <3>1
      <4>2. qsl[r] <= qsl[mid] /\ qsl[mid] \in Nat /\ qsl[r] \in Nat BY <1>1, <4>1
      <4>3. qsl[mid] <= t BY <1>8, <3>1
      <4> QED BY <4>2, <4>3
    <3>2. CASE ~(mid <= n)
      <4>1. r < lo BY <1>1, <1>3, <1>4, <3>2
      <4> QED BY <1>3, <4>1
    <3> QED BY <3>1, <3>2
  <2>4. mid + 1 \in 1 .. n + 2 /\ hi \in 1 .. n + 1 /\ mid + 1 <= hi + 1
    BY <1>1, <1>3, <1>4, <1>7
  <2> QED BY <1>3, <2>1, <2>2, <2>3, <2>4 DEF Narrowed, n, half
<1>9. CASE ~(read <= t)
  <2>1. Halve(t, s).lo = lo /\ Halve(t, s).hi = mid BY <1>6, <1>9
  <2>2. mid <= n /\ ~(qsl[mid] <= t) BY <1>9
  <2>3. mid - lo <= half BY <1>3, <1>4, <1>5
  <2>4. ASSUME NEW r \in 0 .. n, mid <= r PROVE t < qsl[r]
    <3>1. mid \in 0 .. n BY <1>1, <1>4, <2>2
    <3>2. qsl[mid] <= qsl[r] /\ qsl[mid] \in Nat /\ qsl[r] \in Nat BY <1>1, <2>4, <3>1
    <3> QED BY <2>2, <3>2
  <2>5. lo \in 1 .. n + 2 /\ mid \in 1 .. n + 1 /\ lo <= mid + 1
    BY <1>1, <1>3, <1>4, <1>7
  <2> QED BY <1>3, <2>1, <2>3, <2>4, <2>5 DEF Narrowed, n, half
<1> QED BY <1>8, <1>9

\* The kernel's search ends at the request a token is of.
LEMMA OwnerOwns ==
  ASSUME Batch, NEW t \in Nat
  PROVE  Owns(OwnerOf(t), t)
<1> DEFINE n == StepReqs
           m == SearchSteps
           S == [lo : Int, hi : Int]
           move == [k \in 1 .. m |-> [s \in S |-> Halve(t, s)]]
           first == [lo |-> 1, hi |-> n + 1]
           found == Search(t)
<1>1. /\ n \in Nat \ {0} /\ qsl \in [0 .. n -> Nat] /\ qsl[0] = 0
      /\ \A a, b \in 0 .. n : a <= b => qsl[a] <= qsl[b]
  BY BatchFacts
<1>2. m \in Nat BY <1>1, BitLengthFacts DEF SearchSteps
<1>3. PICK rest \in [0 .. m -> Nat] :
        /\ rest[0] = n /\ rest[m] = 0
        /\ \A k \in 1 .. m : rest[k] = rest[k - 1] \div 2
  BY <1>1, BitLengthFacts DEF SearchSteps
<1>4. ASSUME NEW s \in S PROVE Halve(t, s) \in S
  <2>1. s.lo \in Int /\ s.hi \in Int /\ (s.lo + s.hi) \div 2 \in Int OBVIOUS
  <2> QED BY <2>1 DEF Halve
<1>5. move \in [1 .. m -> [S -> S]] /\ \A k \in 1 .. m, s \in S : move[k][s] = Halve(t, s)
  BY <1>4
<1>6. first \in S BY <1>1
<1> HIDE DEF S
<1>7. PICK g : Takes(g, m, S, first, move)
  <2> HIDE DEF move, first, m
  <2> QED BY <1>2, <1>5, <1>6, Iterates
<1> HIDE DEF move, m
<1>8. g \in [0 .. m -> S] BY <1>7 DEF Takes
<1>9. g = [k \in 0 .. m |-> IF k = 0 THEN first ELSE Halve(t, g[k - 1])]
  <2>1. ASSUME NEW k \in 0 .. m PROVE g[k] = IF k = 0 THEN first ELSE Halve(t, g[k - 1])
    <3>1. g[k] = IF k = 0 THEN first ELSE move[k][g[k - 1]] BY <1>7 DEF Takes
    <3>2. CASE k = 0 BY <3>1, <3>2
    <3>3. CASE k # 0
      <4>1. k \in 1 .. m /\ g[k - 1] \in S BY <1>2, <1>8, <3>3
      <4> QED BY <1>5, <3>1, <3>3, <4>1
    <3> QED BY <3>2, <3>3
  <2> QED BY <1>8, <2>1
<1>10. found = [k \in 0 .. m |-> IF k = 0 THEN first ELSE Halve(t, found[k - 1])]
  <2> HIDE DEF first
  <2>1. \E f : f = [k \in 0 .. m |-> IF k = 0 THEN first ELSE Halve(t, f[k - 1])] BY <1>9
  <2>2. found = CHOOSE f : f = [k \in 0 .. m |-> IF k = 0 THEN first ELSE Halve(t, f[k - 1])]
    BY DEF Search, first, m
  <2> QED BY <2>1, <2>2, Zenon
<1> HIDE DEF found
<1>11. found[0] = first /\ Narrowed(first, t, n)
  <2>1. found[0] = first BY <1>2, <1>10
  <2>2. \A r \in 0 .. n : (r < 1 => qsl[r] <= t) /\ ~(n + 1 <= r) BY <1>1
  <2> QED BY <1>1, <2>1, <2>2 DEF Narrowed
<1>12. ASSUME NEW k \in 0 .. m - 1, found[k] \in S, Narrowed(found[k], t, rest[k])
       PROVE  found[k + 1] \in S /\ Narrowed(found[k + 1], t, rest[k + 1])
  <2>1. k + 1 \in 0 .. m /\ k + 1 \in 1 .. m /\ k \in 0 .. m /\ k + 1 # 0 /\ (k + 1) - 1 = k
    BY <1>2
  <2>2. found[k + 1] = Halve(t, found[k]) BY <1>10, <2>1
  <2>3. rest[k + 1] = rest[k] \div 2 /\ rest[k] \in Nat BY <1>3, <2>1
  <2>4. Narrowed(Halve(t, found[k]), t, rest[k] \div 2)
    BY <1>12, <2>3, HalveFacts DEF S
  <2> QED BY <1>4, <1>12, <2>2, <2>3, <2>4
<1>13. found[m] \in S /\ Narrowed(found[m], t, 0)
  <2> DEFINE T == {k \in Nat : found[k] \in S /\ Narrowed(found[k], t, rest[k])}
  <2>1. 0 \in T BY <1>3, <1>6, <1>11
  <2>2. \A k \in 0 .. m - 1 : k \in T => k + 1 \in T BY <1>2, <1>12
  <2> HIDE DEF T
  <2>3. 0 .. m \subseteq T BY <1>2, <2>1, <2>2, ClosedUpwards
  <2>4. m \in T BY <1>2, <2>3
  <2> QED BY <1>3, <2>4 DEF T
<1>14. PICK lo \in Nat, hi \in Nat : /\ found[m].lo = lo /\ 1 <= lo /\ hi <= lo /\ lo <= n + 2
                                    /\ \A r \in 0 .. n : /\ r < lo => qsl[r] <= t
                                                         /\ hi <= r => t < qsl[r]
  <2>1. found[m].lo \in 1 .. n + 2 /\ found[m].hi \in 1 .. n + 1 /\ found[m].hi - found[m].lo <= 0
    BY <1>13 DEF Narrowed
  <2>2. found[m].lo \in Nat /\ found[m].hi \in Nat /\ found[m].hi <= found[m].lo
        /\ 1 <= found[m].lo /\ found[m].lo <= n + 2
    BY <1>1, <2>1
  <2>3. \A r \in 0 .. n : (r < found[m].lo => qsl[r] <= t) /\ (found[m].hi <= r => t < qsl[r])
    BY <1>13 DEF Narrowed
  <2> QED BY <2>2, <2>3
<1>15. OwnerOf(t) = IF lo - 1 < n - 1 THEN lo - 1 ELSE n - 1
  BY <1>14 DEF OwnerOf, found, m
<1> HIDE DEF n
<1>16. CASE lo - 1 < n - 1
  <2>1. lo - 1 \in 0 .. n - 1 /\ lo - 1 \in 0 .. n /\ lo \in 0 .. n /\ (lo - 1) + 1 = lo
    BY <1>1, <1>14, <1>16
  <2>2. qsl[lo - 1] <= t /\ t < qsl[lo] BY <1>14, <2>1
  <2> QED BY <1>15, <1>16, <2>1, <2>2 DEF Owns, n
<1>17. CASE ~(lo - 1 < n - 1)
  <2>1. n - 1 \in 0 .. n - 1 /\ n - 1 \in 0 .. n /\ n - 1 < lo /\ ~(n - 1 < n - 1)
    BY <1>1, <1>14, <1>17
  <2> QED BY <1>14, <1>15, <1>17, <2>1 DEF Owns, n
<1> QED BY <1>16, <1>17

\* And so does the fallback's count of the boundaries.
LEMMA FallbackOwns ==
  ASSUME Batch, NEW t \in Nat
  PROVE  Owns(FallbackOwner(t), t)
<1> DEFINE n == StepReqs
           B == {r \in DOMAIN qsl : qsl[r] <= t}
<1>1. /\ n \in Nat \ {0} /\ qsl \in [0 .. n -> Nat] /\ qsl[0] = 0
      /\ \A a, b \in 0 .. n : a <= b => qsl[a] <= qsl[b]
  BY BatchFacts
<1> HIDE DEF n
<1>2. PICK m \in 0 .. n : qsl[m] <= t /\ (m < n => t < qsl[m + 1])
  <2>1. CASE qsl[n] <= t BY <1>1, <2>1
  <2>2. CASE ~(qsl[n] <= t)
    <3>1. qsl \in [0 .. n -> Int] /\ n \in Nat /\ t \in Int /\ qsl[0] <= t /\ t < qsl[n]
      BY <1>1, <2>2
    <3>2. PICK r \in 0 .. n - 1 : qsl[r] <= t /\ t < qsl[r + 1] BY <3>1, StepOver
    <3> QED BY <1>1, <3>2
  <2> QED BY <2>1, <2>2
<1>3. B = 0 .. m
  <2>1. ASSUME NEW r \in 0 .. n PROVE qsl[r] <= t <=> r <= m
    <3>0. qsl[r] \in Nat /\ qsl[m] \in Nat BY <1>1
    <3>1. CASE r <= m
      <4>1. qsl[r] <= qsl[m] BY <1>1, <3>1
      <4> QED BY <1>2, <3>0, <3>1, <4>1
    <3>2. CASE ~(r <= m)
      <4>1. m + 1 \in 0 .. n /\ m + 1 <= r /\ m < n BY <1>1, <3>2
      <4>2. qsl[m + 1] <= qsl[r] /\ qsl[m + 1] \in Nat /\ t < qsl[m + 1] BY <1>1, <1>2, <4>1
      <4> QED BY <3>0, <3>2, <4>2
    <3> QED BY <3>1, <3>2
  <2>2. DOMAIN qsl = 0 .. n BY <1>1
  <2>3. \A r : r \in 0 .. m <=> r \in 0 .. n /\ r <= m BY <1>1
  <2> QED BY <2>1, <2>2, <2>3
<1>4. Cardinality(0 .. m) = m + 1
  <2>1. m \in Nat BY <1>1
  <2> QED BY <2>1, FS_Interval
<1>5. FallbackOwner(t) = IF m < n - 1 THEN m ELSE n - 1
  <2>1. Cardinality(B) - 1 = m
    <3>1. Cardinality(B) = m + 1 BY <1>3, <1>4
    <3> HIDE DEF B
    <3> QED BY <1>1, <3>1
  <2> HIDE DEF B
  <2>2. FallbackOwner(t) = IF Cardinality(B) - 1 < n - 1 THEN Cardinality(B) - 1 ELSE n - 1
    BY DEF FallbackOwner, B, n
  <2> QED BY <2>1, <2>2
<1>6. CASE m < n - 1
  <2>1. m \in 0 .. n - 1 /\ m < n BY <1>1, <1>6
  <2> QED BY <1>2, <1>5, <1>6, <2>1 DEF Owns, n
<1>7. CASE ~(m < n - 1)
  <2>1. n - 1 \in 0 .. n - 1 /\ n - 1 \in 0 .. n /\ n - 1 <= m /\ ~(n - 1 < n - 1) BY <1>1, <1>7
  <2>2. qsl[n - 1] <= qsl[m] /\ qsl[n - 1] \in Nat /\ qsl[m] \in Nat BY <1>1, <2>1
  <2>3. qsl[n - 1] <= t BY <1>2, <2>2
  <2> QED BY <1>5, <1>7, <2>1, <2>3 DEF Owns, n
<1> QED BY <1>6, <1>7

-----------------------------------------------------------------------------
(* The ids: a token's window. *)

\* The token s places before token t of request r, as far as the last EOS.
Nearest(r, t, s) ==
  IF \A j \in 1 .. s : Predecessor(r, t, j) # Eos THEN Predecessor(r, t, s) ELSE Eos

LEMMA PredecessorFacts ==
  ASSUME Batch, NEW t \in 0 .. NumTokens - 1, NEW r, Owns(r, t), NEW s \in 0 .. N
  PROVE  /\ Predecessor(r, t, s) \in Token
         /\ s = 0 => Predecessor(r, t, s) = InputAt(t)
         /\ qsl[r] \in Nat /\ qsl[r] <= t /\ t \in Nat /\ NumTokens \in Nat /\ N \in Nat \ {0}
<1>1. /\ qsl[r] \in Nat /\ qsl[r] <= t /\ t \in Nat /\ t < NumTokens /\ NumTokens \in Nat
      /\ N \in Nat \ {0} /\ s \in Nat /\ s <= N /\ r \in 0 .. StepReqs - 1
  <2>1. NumTokens \in Nat BY DEF Batch, NumTokens
  <2>2. r \in 0 .. StepReqs - 1 /\ qsl[r] <= t BY DEF Owns
  <2>3. r \in 0 .. StepReqs /\ qsl \in [0 .. StepReqs -> Nat] BY <2>2, BatchFacts
  <2> QED BY <2>1, <2>2, <2>3, NGramConstants
<1>2. CASE t - qsl[r] >= s
  <2>1. Predecessor(r, t, s) = input[(t - s) + 1] BY <1>2 DEF Predecessor, InputAt
  <2>2. (t - s) + 1 \in 1 .. NumTokens /\ (s = 0 => (t - s) + 1 = t + 1) BY <1>1, <1>2
  <2>3. input \in Seq(Token) /\ Len(input) = NumTokens BY DEF Batch, NumTokens
  <2>4. input[(t - s) + 1] \in Token BY <2>2, <2>3, ElementOfSeq
  <2> QED BY <1>1, <2>1, <2>2, <2>4 DEF InputAt
<1>3. CASE ~(t - qsl[r] >= s)
  <2>1. Predecessor(r, t, s) = context[r][N - s + (t - qsl[r])] BY <1>3 DEF Predecessor
  <2>2. N - s + (t - qsl[r]) \in 0 .. N - 1 /\ s # 0 BY <1>1, <1>3
  <2>3. context[r] \in [0 .. N - 1 -> Token] BY <1>1 DEF Batch
  <2> QED BY <1>1, <2>1, <2>2, <2>3
<1> QED BY <1>2, <1>3

\* What the kernel walks over.
LEMMA KernelIs ==
  ASSUME Batch, NEW t \in 0 .. NumTokens - 1, NEW r, Owns(r, t)
  PROVE  /\ KernelWindow(t) = [i \in 1 .. N + 1 |-> Nearest(r, t, i - 1)]
         /\ \A s \in 0 .. N : Nearest(r, t, s) \in Token
<1> DEFINE P(s) == Predecessor(r, t, s)
           S == [token : Token, crossed : BOOLEAN]
           first == [token |-> InputAt(t), crossed |-> FALSE]
           succ(s, w) == LET c == IF w.crossed THEN Eos ELSE P(s)
                         IN  [token |-> c, crossed |-> w.crossed \/ c = Eos]
           move == [s \in 1 .. N |-> [w \in S |-> succ(s, w)]]
           walk == Walk(t)
<1>1. \A s \in 0 .. N : P(s) \in Token BY PredecessorFacts
<1>2. P(0) = InputAt(t) /\ N \in Nat
  <2>1. 0 \in 0 .. N BY NGramConstants
  <2> QED BY <2>1, PredecessorFacts, NGramConstants
<1>3. OwnerOf(t) = r
  <2>1. t \in Nat BY NGramConstants
  <2> QED BY <2>1, OwnerOwns, OnlyOwner
<1> HIDE DEF P
<1>4. ASSUME NEW s \in 1 .. N, NEW w \in S PROVE succ(s, w) \in S
  <2>1. s \in 0 .. N BY <1>2
  <2>2. P(s) \in Token /\ Eos \in Token BY <1>1, <2>1, NGramConstants
  <2>3. w.crossed \in BOOLEAN OBVIOUS
  <2> QED BY <2>2, <2>3
<1>5. first \in S
  <2>1. 0 \in 0 .. N BY <1>2
  <2> QED BY <1>1, <1>2, <2>1
<1> HIDE DEF S, first, succ
<1>6. move \in [1 .. N -> [S -> S]] /\ \A s \in 1 .. N, w \in S : move[s][w] = succ(s, w)
  BY <1>4
<1> HIDE DEF move
<1>7. PICK g : Takes(g, N, S, first, move) BY <1>2, <1>5, <1>6, Iterates
<1>8. g = [s \in 0 .. N |-> IF s = 0 THEN first ELSE succ(s, g[s - 1])]
  <2>1. g \in [0 .. N -> S] BY <1>7 DEF Takes
  <2>2. ASSUME NEW s \in 0 .. N PROVE g[s] = IF s = 0 THEN first ELSE succ(s, g[s - 1])
    <3>1. g[s] = IF s = 0 THEN first ELSE move[s][g[s - 1]] BY <1>7 DEF Takes
    <3>2. CASE s = 0 BY <3>1, <3>2
    <3>3. CASE s # 0
      <4>1. s \in 1 .. N /\ g[s - 1] \in S BY <1>2, <2>1, <3>3
      <4> QED BY <1>6, <3>1, <3>3, <4>1
    <3> QED BY <3>2, <3>3
  <2> QED BY <2>1, <2>2
<1>9. walk = [s \in 0 .. N |-> IF s = 0 THEN first ELSE succ(s, walk[s - 1])]
  <2>1. \E f : f = [s \in 0 .. N |-> IF s = 0 THEN first ELSE succ(s, f[s - 1])] BY <1>8
  <2>2. walk = CHOOSE f : f = [s \in 0 .. N |-> IF s = 0 THEN first ELSE succ(s, f[s - 1])]
    BY <1>3 DEF Walk, first, succ, P
  <2> QED BY <2>1, <2>2, Zenon
<1> DEFINE Good(s) == /\ walk[s].token = Nearest(r, t, s)
                      /\ walk[s].crossed = (\E j \in 1 .. s : P(j) = Eos)
<1>10. KernelWindow(t) = [i \in 1 .. N + 1 |-> walk[i - 1].token] BY DEF KernelWindow
<1> HIDE DEF walk
<1>11. Good(0)
  <2>1. walk[0] = first BY <1>2, <1>9
  <2>2. Nearest(r, t, 0) = P(0) BY DEF Nearest, P
  <2> QED BY <1>2, <2>1, <2>2 DEF first
<1>12. ASSUME NEW s \in 0 .. N - 1, Good(s) PROVE Good(s + 1)
  <2>1. s \in Nat /\ s + 1 \in 0 .. N /\ s + 1 # 0 /\ (s + 1) - 1 = s BY <1>2
  <2>2. walk[s + 1] = succ(s + 1, walk[s]) BY <1>9, <2>1
  <2>3. \A j : j \in 1 .. s + 1 <=> j \in 1 .. s \/ j = s + 1 BY <2>1
  <2>4. Nearest(r, t, s + 1) = IF \A j \in 1 .. s + 1 : P(j) # Eos THEN P(s + 1) ELSE Eos
    BY DEF Nearest, P
  <2>5. CASE walk[s].crossed
    <3>1. walk[s + 1] = [token |-> Eos, crossed |-> TRUE] BY <2>2, <2>5 DEF succ
    <3>2. \E j \in 1 .. s : P(j) = Eos BY <1>12, <2>5
    <3>3. \E j \in 1 .. s + 1 : P(j) = Eos BY <2>3, <3>2
    <3> QED BY <2>4, <3>1, <3>3
  <2>6. CASE ~walk[s].crossed
    <3>1. walk[s + 1].token = P(s + 1) /\ walk[s + 1].crossed = (P(s + 1) = Eos)
      <4>1. walk[s].crossed = FALSE BY <1>12, <2>6
      <4> QED BY <2>2, <4>1 DEF succ
    <3>2. \A j \in 1 .. s : P(j) # Eos BY <1>12, <2>6
    <3>3. (\E j \in 1 .. s + 1 : P(j) = Eos) = (P(s + 1) = Eos) BY <2>3, <3>2
    <3>4. Nearest(r, t, s + 1) = P(s + 1) BY <2>3, <2>4, <3>2
    <3> QED BY <3>1, <3>3, <3>4
  <2> QED BY <2>5, <2>6
<1>13. \A s \in 0 .. N : walk[s].token = Nearest(r, t, s)
  <2> DEFINE T == {s \in Nat : Good(s)}
  <2> HIDE DEF Good
  <2>1. 0 \in T BY <1>11
  <2>2. \A s \in 0 .. N - 1 : s \in T => s + 1 \in T BY <1>2, <1>12
  <2> HIDE DEF T
  <2>3. 0 .. N \subseteq T BY <1>2, <2>1, <2>2, ClosedUpwards
  <2> QED BY <2>3 DEF T, Good
<1>14. \A i \in 1 .. N + 1 : i - 1 \in 0 .. N BY <1>2
<1>15. KernelWindow(t) = [i \in 1 .. N + 1 |-> Nearest(r, t, i - 1)]
  BY <1>10, <1>13, <1>14
<1>16. ASSUME NEW s \in 0 .. N PROVE Nearest(r, t, s) \in Token
  BY <1>1, NGramConstants DEF Nearest, P
<1> QED BY <1>15, <1>16

\* What the fallback shifts.
LEMMA FallbackIs ==
  ASSUME Batch, NEW t \in 0 .. NumTokens - 1, NEW r, Owns(r, t)
  PROVE  FallbackWindow(t) = [i \in 1 .. N + 1 |-> Nearest(r, t, i - 1)]
<1> DEFINE P(s) == Predecessor(r, t, s)
           row == Packed(r)
           c == t - qsl[r] + N
           before == {e \in 0 .. c - 1 : row[e] = Eos}
           previous == IF before = {} THEN -1 ELSE CHOOSE e \in before : \A f \in before : f <= e
           shifted(s) == IF s = 0 THEN row[c]
                         ELSE IF c - s >= 0 /\ c - previous - 1 >= s THEN row[c - s] ELSE Eos
<1>1. /\ qsl[r] \in Nat /\ qsl[r] <= t /\ t \in Nat /\ NumTokens \in Nat /\ N \in Nat \ {0}
      /\ t < NumTokens
  <2>1. 0 \in 0 .. N BY NGramConstants
  <2> QED BY <2>1, PredecessorFacts
<1>2. FallbackOwner(t) = r BY <1>1, FallbackOwns, OnlyOwner
<1>3. c \in Nat /\ N <= c /\ c <= N + NumTokens - 1 BY <1>1
<1>4. ASSUME NEW s \in 0 .. N PROVE row[c - s] = P(s)
  <2>1. c - s \in 0 .. N + NumTokens - 1 BY <1>1, <1>3
  <2>2. row[c - s] = IF c - s < N THEN context[r][c - s]
                     ELSE LET u == qsl[r] + (c - s) - N
                          IN  IF u < NumTokens /\ FallbackOwner(u) = r THEN InputAt(u) ELSE Eos
    BY <2>1 DEF Packed
  <2>3. CASE t - qsl[r] >= s
    <3>1. qsl[r] + (c - s) - N = t - s /\ ~(c - s < N) /\ t - s \in Nat /\ t - s < NumTokens
          /\ qsl[r] <= t - s /\ t - s <= t
      BY <1>1, <2>3
    <3>2. Owns(r, t - s)
      <4>1. r < StepReqs - 1 => qsl[r + 1] \in Nat BY BatchFacts DEF Owns
      <4> QED BY <1>1, <3>1, <4>1 DEF Owns
    <3>3. FallbackOwner(t - s) = r BY <3>1, <3>2, FallbackOwns, OnlyOwner
    <3>4. row[c - s] = InputAt(t - s) BY <2>2, <3>1, <3>3
    <3> QED BY <2>3, <3>4 DEF Predecessor
  <2>4. CASE ~(t - qsl[r] >= s)
    <3>1. c - s < N /\ c - s = N - s + (t - qsl[r]) BY <1>1, <2>4
    <3> QED BY <2>2, <2>4, <3>1 DEF Predecessor
  <2> QED BY <2>3, <2>4
<1>5. FallbackWindow(t) = [i \in 1 .. N + 1 |-> shifted(i - 1)]
  BY <1>2 DEF FallbackWindow
<1>6. \/ before = {} /\ previous = -1
      \/ previous \in before /\ \A f \in before : f <= previous
  <2> HIDE DEF row, c
  <2>1. CASE before # {}
    <3> DEFINE M == {n \in Nat : c - n \in before}
    <3>1. M \in SUBSET Nat /\ M # {}
      <4>1. PICK e \in before : TRUE BY <2>1
      <4>2. c - e \in Nat /\ c - (c - e) = e BY <1>3
      <4> QED BY <4>1, <4>2
    <3>2. PICK m \in M : \A n \in M : m <= n BY <3>1, LeastElement
    <3>3. ASSUME NEW f \in before PROVE f <= c - m
      <4>1. c - f \in Nat /\ c - (c - f) = f BY <1>3
      <4>2. m <= c - f BY <3>2, <4>1
      <4> QED BY <1>3, <4>1, <4>2
    <3>4. \E e \in before : \A f \in before : f <= e BY <3>2, <3>3
    <3> QED BY <2>1, <3>4
  <2> QED BY <2>1
<1> HIDE DEF previous
<1>7. ASSUME NEW s \in 1 .. N
      PROVE  c - previous - 1 >= s <=> \A j \in 1 .. s : P(j) # Eos
  <2>1. c - s >= 0 /\ s \in Nat BY <1>1, <1>3
  <2>2. previous \in Int /\ previous < c
    <3> HIDE DEF row, c
    <3> QED BY <1>3, <1>6
  <2>3. ASSUME NEW j \in 1 .. s, P(j) = Eos PROVE ~(c - previous - 1 >= s)
    <3>1. c - j \in 0 .. c - 1 /\ j \in 0 .. N /\ c - j >= c - s BY <1>1, <1>3, <2>1
    <3>2. row[c - j] = Eos BY <1>4, <2>3, <3>1
    <3>3. c - j \in before BY <3>1, <3>2
    <3> HIDE DEF before, c
    <3>4. c - j <= previous BY <1>6, <3>3
    <3> QED BY <1>3, <2>1, <2>2, <3>1, <3>4
  <2>4. ASSUME ~(c - previous - 1 >= s) PROVE \E j \in 1 .. s : P(j) = Eos
    <3>1. previous >= c - s /\ previous >= 0
      <4> HIDE DEF c, before
      <4> QED BY <1>3, <2>1, <2>2, <2>4
    <3>2. before # {} /\ previous \in before
      <4> HIDE DEF c, before
      <4> QED BY <1>6, <3>1
    <3>3. c - previous \in 1 .. s /\ c - (c - previous) = previous
      <4> HIDE DEF c
      <4> QED BY <1>3, <2>1, <2>2, <3>1
    <3>4. c - previous \in 0 .. N /\ row[previous] = Eos
      <4>1. row[previous] = Eos BY <3>2
      <4> HIDE DEF c
      <4> QED BY <1>1, <3>3, <4>1
    <3>5. row[c - (c - previous)] = P(c - previous)
      <4> HIDE DEF c
      <4> QED BY <1>4, <3>4
    <3> HIDE DEF c, row
    <3> QED BY <3>3, <3>4, <3>5
  <2> QED BY <2>3, <2>4
<1>8. ASSUME NEW s \in 0 .. N PROVE shifted(s) = Nearest(r, t, s)
  <2>1. CASE s = 0
    <3>1. row[c - 0] = P(0) /\ c - 0 = c BY <1>3, <1>4, <2>1
    <3>2. Nearest(r, t, 0) = P(0) BY DEF Nearest
    <3> HIDE DEF c, row, P
    <3> QED BY <2>1, <3>1, <3>2
  <2>2. CASE s # 0
    <3>1. s \in 1 .. N /\ c - s >= 0 BY <1>1, <1>3, <2>2
    <3>2. c - previous - 1 >= s <=> \A j \in 1 .. s : P(j) # Eos BY <1>7, <3>1
    <3>3. row[c - s] = P(s) BY <1>4
    <3>4. Nearest(r, t, s) = IF \A j \in 1 .. s : P(j) # Eos THEN P(s) ELSE Eos BY DEF Nearest
    <3> HIDE DEF c, row, P
    <3> QED BY <2>2, <3>1, <3>2, <3>3, <3>4
  <2> QED BY <2>1, <2>2
<1>9. \A i \in 1 .. N + 1 : i - 1 \in 0 .. N BY <1>1
<1> HIDE DEF shifted
<1> QED BY <1>5, <1>8, <1>9

\* A row of a request is its own, and the window is that of its text.
LEMMA ReferenceIs ==
  ASSUME TextTypes, Batch, NEW r \in Reqs, NEW t \in qsl[r] .. qsl[r + 1] - 1
  PROVE  /\ t \in 0 .. NumTokens - 1 /\ Owns(r, t)
         /\ Reference(TextOf(r), computed[r] + t - qsl[r]) =
              [i \in 1 .. N + 1 |-> Nearest(r, t, i - 1)]
<1> DEFINE P(s) == Predecessor(r, t, s)
           rows == SubSeq(input, qsl[r] + 1, qsl[r + 1])
           past == SubSeq(all[r], 1, computed[r])
           d == computed[r]
           k == t - qsl[r]
           p == d + k
           text == TextOf(r)
<1>1. /\ qsl[r] \in Nat /\ qsl[r + 1] \in Nat /\ qsl[r + 1] <= NumTokens /\ NumTokens \in Nat
      /\ rows \in Seq(Token) /\ Len(rows) = qsl[r + 1] - qsl[r]
      /\ \A i \in 1 .. qsl[r + 1] - qsl[r] : rows[i] = input[qsl[r] + i]
  BY RowsOf
<1>2. t \in Nat /\ t \in 0 .. NumTokens - 1 /\ qsl[r] <= t /\ t < qsl[r + 1] /\ k \in Nat
  BY <1>1
<1>3. Owns(r, t)
  <2>1. r \in Nat /\ r < StepReqs /\ StepReqs \in Nat
    <3>1. r \in Nat /\ r < NumReqs /\ NumReqs \in Nat BY NGramConstants
    <3>2. NumReqs <= StepReqs /\ StepReqs \in Nat BY BatchFacts
    <3> QED BY <3>1, <3>2
  <2> QED BY <1>2, <2>1 DEF Owns
<1>4. /\ all[r] \in Seq(Token) /\ d \in Nat /\ d <= Len(all[r]) /\ Len(all[r]) \in Nat
      /\ N \in Nat \ {0}
  BY NGramConstants DEF TextTypes
<1>5. past \in Seq(Token) /\ Len(past) = d /\ \A i \in 1 .. d : past[i] = all[r][i]
  <2> HIDE DEF d
  <2>1. \A i \in 1 .. d : all[r][i] \in Token
    <3>1. \A i \in 1 .. d : i \in 1 .. Len(all[r]) BY <1>4
    <3> QED BY <1>4, <3>1, ElementOfSeq
  <2>2. /\ SubSeq(all[r], 1, d) \in Seq(Token)
        /\ Len(SubSeq(all[r], 1, d)) = IF 1 <= d THEN d - 1 + 1 ELSE 0
    BY <1>4, <2>1, SubSeqProperties
  <2>3. \A i \in 1 .. d - 1 + 1 : SubSeq(all[r], 1, d)[i] = all[r][1 + i - 1]
    BY <1>4, <2>1, SubSeqProperties
  <2>4. (IF 1 <= d THEN d - 1 + 1 ELSE 0) = d /\ d - 1 + 1 = d BY <1>4
  <2>5. \A i \in 1 .. d : 1 + i - 1 = i BY <1>4
  <2>6. \A i \in 1 .. d : SubSeq(all[r], 1, d)[i] = all[r][i] BY <2>3, <2>4, <2>5
  <2> QED BY <2>2, <2>4, <2>6 DEF d
<1> HIDE DEF rows, past
<1>6. /\ Len(text) = d + (qsl[r + 1] - qsl[r])
      /\ \A i \in 1 .. d : text[i] = all[r][i]
      /\ \A i \in 1 .. qsl[r + 1] - qsl[r] : text[d + i] = input[qsl[r] + i]
  <2>1. text = past \o rows BY DEF TextOf, past, rows
  <2> HIDE DEF d, text
  <2>2. /\ Len(past \o rows) = Len(past) + Len(rows)
        /\ \A i \in 1 .. Len(past) + Len(rows) :
             (past \o rows)[i] = IF i <= Len(past) THEN past[i] ELSE rows[i - Len(past)]
    BY <1>1, <1>5, ConcatProperties
  <2> DEFINE l == qsl[r + 1] - qsl[r]
  <2>3. l \in Nat /\ d \in Nat BY <1>1, <1>2, <1>4
  <2>4. Len(text) = d + l BY <1>1, <1>5, <2>1, <2>2
  <2>5. \A i \in 1 .. d + l : text[i] = IF i <= d THEN past[i] ELSE rows[i - d]
    BY <1>1, <1>5, <2>1, <2>2
  <2>6. \A i \in 1 .. l : rows[i] = input[qsl[r] + i] BY <1>1
  <2> HIDE DEF l
  <2>7. \A i \in 1 .. d : text[i] = all[r][i]
    <3>1. \A i \in 1 .. d : i \in 1 .. d + l /\ i <= d BY <2>3
    <3> QED BY <1>5, <2>5, <3>1
  <2>8. \A i \in 1 .. l : text[d + i] = input[qsl[r] + i]
    <3>1. \A i \in 1 .. l : d + i \in 1 .. d + l /\ ~(d + i <= d) /\ (d + i) - d = i BY <2>3
    <3> QED BY <2>5, <2>6, <3>1
  <2> QED BY <2>4, <2>7, <2>8 DEF l
<1> HIDE DEF text
<1>7. ASSUME NEW j \in 0 .. N
      PROVE  P(j) = IF p - j >= 0 THEN text[(p - j) + 1] ELSE Eos
  <2>1. CASE j <= k
    <3>1. P(j) = input[(t - j) + 1] BY <1>1, <1>2, <2>1 DEF Predecessor, InputAt
    <3>2. /\ (k - j) + 1 \in 1 .. qsl[r + 1] - qsl[r] /\ p - j >= 0
          /\ (p - j) + 1 = d + ((k - j) + 1) /\ qsl[r] + ((k - j) + 1) = (t - j) + 1
      <4>1. /\ qsl[r] \in Nat /\ qsl[r + 1] \in Nat /\ qsl[r] <= t /\ t < qsl[r + 1] /\ t \in Nat
            /\ d \in Nat /\ j \in Nat
        BY <1>1, <1>2, <1>4
      <4> HIDE DEF d
      <4> QED BY <2>1, <4>1
    <3>3. text[d + ((k - j) + 1)] = input[qsl[r] + ((k - j) + 1)] BY <1>6, <3>2
    <3> QED BY <3>1, <3>2, <3>3
  <2>2. CASE ~(j <= k)
    <3>1. P(j) = context[r][N - j + k] BY <1>1, <1>2, <2>2 DEF Predecessor
    <3>2. context[r] = ContextOf(r) /\ N - j + k \in 0 .. N - 1
      <4>1. context[r] = ContextOf(r) BY DEF Batch
      <4>2. k \in Nat /\ j \in Nat /\ j <= N /\ N \in Nat BY <1>2, <1>4
      <4> HIDE DEF k
      <4>3. N - j + k \in 0 .. N - 1 BY <2>2, <4>2
      <4> QED BY <4>1, <4>3
    <3>3. ContextOf(r)[N - j + k] =
            IF d - N + (N - j + k) >= 0 THEN all[r][d - N + (N - j + k) + 1] ELSE Eos
      BY <3>2 DEF ContextOf
    <3>4. d - N + (N - j + k) = p - j BY <1>1, <1>2, <1>4
    <3>5. p - j >= 0 => (p - j) + 1 \in 1 .. d BY <1>1, <1>2, <1>4, <2>2
    <3>6. p - j >= 0 => text[(p - j) + 1] = all[r][(p - j) + 1] BY <1>6, <3>5
    <3> QED BY <3>1, <3>2, <3>3, <3>4, <3>6
  <2> QED BY <1>2, <2>1, <2>2
<1>8. p \in Nat BY <1>2, <1>4
<1> HIDE DEF p, P, d, k
<1>9. ASSUME NEW i \in 1 .. N + 1
      PROVE  Reference(text, p)[i] = Nearest(r, t, i - 1)
  <2> DEFINE s == i - 1
  <2>1. s \in 0 .. N /\ p - i + 1 = p - s /\ p - i + 2 = (p - s) + 1 BY <1>4, <1>8
  <2>2. Reference(text, p)[i] =
          IF p - s >= 0 /\ (\A q \in p - s .. p - 1 : q >= 0 => text[q + 1] # Eos)
          THEN text[(p - s) + 1] ELSE Eos
    BY <2>1 DEF Reference
  <2>3. Nearest(r, t, s) = IF \A j \in 1 .. s : P(j) # Eos THEN P(s) ELSE Eos
    BY DEF Nearest, P
  <2> HIDE DEF s
  <2>4. \A j \in 1 .. s : j \in 0 .. N BY <1>4, <2>1
  <2>5. CASE p - s >= 0
    <3>1. P(s) = text[(p - s) + 1] BY <1>7, <2>1, <2>5
    <3>2. (\A q \in p - s .. p - 1 : q >= 0 => text[q + 1] # Eos) <=> \A j \in 1 .. s : P(j) # Eos
      <4>1. ASSUME \A q \in p - s .. p - 1 : q >= 0 => text[q + 1] # Eos, NEW j \in 1 .. s
            PROVE  P(j) # Eos
        <5>1. p - j \in p - s .. p - 1 /\ p - j >= 0 BY <1>8, <2>1, <2>5
        <5> QED BY <1>7, <2>4, <4>1, <5>1
      <4>2. ASSUME \A j \in 1 .. s : P(j) # Eos, NEW q \in p - s .. p - 1 PROVE text[q + 1] # Eos
        <5>1. p - q \in 1 .. s /\ p - (p - q) = q /\ q >= 0 BY <1>8, <2>1, <2>5
        <5>2. P(p - q) = IF p - (p - q) >= 0 THEN text[(p - (p - q)) + 1] ELSE Eos
          BY <1>7, <2>4, <5>1
        <5> QED BY <4>2, <5>1, <5>2
      <4> QED BY <4>1, <4>2
    <3> QED BY <2>2, <2>3, <2>5, <3>1, <3>2 DEF s
  <2>6. CASE ~(p - s >= 0)
    <3>1. s \in 1 .. s /\ P(s) = Eos BY <1>7, <1>8, <2>1, <2>6
    <3> QED BY <2>2, <2>3, <2>6, <3>1 DEF s
  <2> QED BY <2>5, <2>6
<1>10. Reference(text, p) = [i \in 1 .. N + 1 |-> Reference(text, p)[i]] BY DEF Reference
<1>11. Reference(text, p) = [i \in 1 .. N + 1 |-> Nearest(r, t, i - 1)] BY <1>9, <1>10
<1>12. computed[r] + t - qsl[r] = p BY DEF p, d, k
<1> QED BY <1>2, <1>3, <1>11, <1>12 DEF text

(***************************************************************************)
(* In a batch whose windows are written: the kernel's windows are those of *)
(* the fallback and those of the requests' own texts.                      *)
(***************************************************************************)
LEMMA NGramProperties ==
  ASSUME NGramInv
  PROVE  /\ NTypeOK /\ WindowsAreOfTheText
         /\ Computed => \A t \in DOMAIN window : /\ window[t] = FallbackWindow(t)
                                                 /\ window[t] \in [1 .. N + 1 -> Token]
<1>1. TextTypes BY DEF NGramInv
<1>2. ASSUME busy, NEW t \in DOMAIN window
      PROVE  /\ t \in 0 .. NumTokens - 1 /\ Batch /\ window[t] \in {<<>>, KernelWindow(t)}
             /\ KernelWindow(t) \in [1 .. N + 1 -> Token]
             /\ KernelWindow(t) = FallbackWindow(t)
  <2>1. t \in 0 .. NumTokens - 1 /\ Batch /\ window[t] \in {<<>>, KernelWindow(t)}
    BY <1>2 DEF NGramInv, WindowsWritten
  <2>2. t \in Nat
    <3>1. NumTokens \in Nat BY <2>1 DEF Batch, NumTokens
    <3> QED BY <2>1, <3>1
  <2>3. PICK r : Owns(r, t) BY <2>1, <2>2, OwnerOwns
  <2>4. /\ KernelWindow(t) = [i \in 1 .. N + 1 |-> Nearest(r, t, i - 1)]
        /\ \A s \in 0 .. N : Nearest(r, t, s) \in Token
    BY <2>1, <2>3, KernelIs
  <2>5. FallbackWindow(t) = [i \in 1 .. N + 1 |-> Nearest(r, t, i - 1)] BY <2>1, <2>3, FallbackIs
  <2>6. \A i \in 1 .. N + 1 : i - 1 \in 0 .. N BY NGramConstants
  <2> QED BY <2>1, <2>4, <2>5, <2>6
<1>3. NTypeOK
  <2>1. ASSUME NEW r \in Reqs
        PROVE  /\ Len(all[r]) <= MaxSeq /\ computed[r] \in 0 .. Len(all[r])
               /\ \A i \in DOMAIN all[r] : all[r][i] \in 0 .. Unigrams - 1
    <3>1. /\ all[r] \in Seq(Token) /\ computed[r] \in Nat /\ computed[r] <= Len(all[r])
          /\ Len(all[r]) \in Nat /\ Len(all[r]) <= MaxSeq
      BY <1>1 DEF TextTypes
    <3>2. \A i \in DOMAIN all[r] : all[r][i] \in Token BY <3>1
    <3> QED BY <3>1, <3>2 DEF Token
  <2>2. ASSUME NEW t \in DOMAIN window
        PROVE  window[t] = <<>> \/ window[t] \in [1 .. N + 1 -> 0 .. Unigrams - 1]
    <3>1. CASE busy BY <1>2, <3>1 DEF Token
    <3>2. CASE ~busy
      <4>1. window = <<>> BY <3>2 DEF NGramInv
      <4> QED BY <4>1
    <3> QED BY <3>1, <3>2
  <2>3. busy \in BOOLEAN BY <1>1 DEF TextTypes
  <2> QED BY <2>1, <2>2, <2>3 DEF NTypeOK
<1>4. Computed => \A t \in DOMAIN window : /\ window[t] = FallbackWindow(t)
                                           /\ window[t] \in [1 .. N + 1 -> Token]
  BY <1>2 DEF Computed
<1>5. WindowsAreOfTheText
  <2> SUFFICES ASSUME Computed, NEW r \in Reqs, NEW t \in qsl[r] .. qsl[r + 1] - 1
               PROVE  window[t] = Reference(TextOf(r), computed[r] + t - qsl[r])
    BY DEF WindowsAreOfTheText
  <2>1. busy /\ Batch /\ DOMAIN window = 0 .. NumTokens - 1
    BY DEF Computed, NGramInv, WindowsWritten
  <2>2. /\ t \in 0 .. NumTokens - 1 /\ Owns(r, t)
        /\ Reference(TextOf(r), computed[r] + t - qsl[r]) =
             [i \in 1 .. N + 1 |-> Nearest(r, t, i - 1)]
    BY <1>1, <2>1, ReferenceIs
  <2>3. window[t] = KernelWindow(t)
    <3>1. t \in DOMAIN window BY <2>1, <2>2
    <3> QED BY <1>2, <2>1, <3>1 DEF Computed
  <2> QED BY <2>1, <2>2, <2>3, KernelIs
<1> QED BY <1>3, <1>4, <1>5

\* The texts, batches and windows fit together in every run of the engine.
THEOREM NGramInvariance == LSpec => []NGramInv
<1>1. LInit => NGramInv BY NGramInit DEF LInit
<1>2. NGramInv /\ [LNext]_lvars => NGramInv'
  <2>1. [LNext]_lvars => [NNext]_nvars BY DEF LNext, Load, EngineStep, lvars
  <2> QED BY <2>1, NGramStep
<1> QED BY <1>1, <1>2, PTL DEF LSpec

(***************************************************************************)
(* However a text is cut into chunks and whatever drafts were rejected, a  *)
(* row's window is that of its position in the whole text of its request.  *)
(***************************************************************************)
THEOREM WindowsSafety == LSpec => []WindowsAreOfTheText
<1>1. NGramInv => WindowsAreOfTheText BY NGramProperties
<1> QED BY <1>1, NGramInvariance, PTL

-----------------------------------------------------------------------------
(* The lookup: the hash. *)

\* A rank's buffers as the hash takes them.
HashTypes(b) ==
  /\ b.layer_multipliers \in [0 .. N -> Int]
  /\ b.ngram_heads_offsets \in [HeadIds -> Int]
  /\ b.ngram_heads_vocab_sizes \in [HeadIds -> Int]

\* What leaves the word comes back into it.
LEMMA WrapFacts ==
  ASSUME NEW x \in Int
  PROVE  Wrap(x) \in Word /\ 0 \in Word
<1>1. MaxWord \in Nat BY NGramAssumption
<1> DEFINE y == x + MaxWord + 1
           d == 2 * (MaxWord + 1)
<1>2. y \in Int /\ d \in Nat \ {0} BY <1>1
<1>3. Wrap(x) = (y % d) - (MaxWord + 1) BY DEF Wrap
<1> HIDE DEF y
<1>4. y % d \in 0 .. d - 1 BY <1>2, IntDivFacts
<1> QED BY <1>1, <1>3, <1>4 DEF Word

\* The machine's remainder, corrected where it is negative, is torch's.
LEMMA RemainderIs ==
  ASSUME NEW x \in Int, NEW size \in Nat \ {0}
  PROVE  Remainder(x, size) = x % size /\ x % size \in 0 .. size - 1
<1>1. x % size \in 0 .. size - 1 BY IntDivFacts
<1>2. CASE x >= 0 BY <1>1, <1>2 DEF Remainder, Rem
<1>3. CASE x < 0
  <2> DEFINE y == - x
             q == y \div size
             m == y % size
  <2>1. y \in Nat /\ x = - y BY <1>3
  <2> HIDE DEF y
  <2>2. q \in Nat /\ m \in 0 .. size - 1 /\ y = size * q + m BY <2>1, DivFacts
  <2>3. Rem(x, size) = - m BY <1>3 DEF Rem, m, y
  <2> HIDE DEF q, m
  <2>4. CASE m = 0
    <3>1. x = size * (- q) + 0 BY <2>1, <2>2, <2>4
    <3>2. - q \in Int /\ 0 \in 0 .. size - 1 BY <2>2
    <3>3. x % size = 0 BY <3>1, <3>2, QuotientIs
    <3>4. Rem(x, size) = 0
      <4>1. \A a \in Int : - a = 0 - a OBVIOUS
      <4>2. Rem(x, size) = 0 - m BY <2>2, <2>3, <4>1
      <4> QED BY <2>4, <4>2
    <3> QED BY <1>1, <3>3, <3>4 DEF Remainder
  <2>5. CASE m # 0
    <3>1. size * (- q - 1) = - (size * q) - size BY <2>2
    <3>2. size * q \in Nat BY <2>2
    <3>3. x = size * (- q - 1) + (size - m) BY <2>1, <2>2, <3>1, <3>2
    <3>4. - q - 1 \in Int /\ size - m \in 0 .. size - 1 BY <2>2, <2>5
    <3>5. x % size = size - m BY <3>3, <3>4, QuotientIs
    <3>6. Remainder(x, size) = - m + size BY <2>2, <2>3, <2>5 DEF Remainder
    <3> QED BY <1>1, <2>2, <3>5, <3>6
  <2> QED BY <2>4, <2>5
<1> QED BY <1>2, <1>3

\* Terms are mixed one after the other.
Mixes(f, terms) ==
  /\ f \in [1 .. N + 1 -> Word]
  /\ f = [n \in 1 .. N + 1 |-> IF n = 1 THEN terms[1] ELSE Mix(f[n - 1], terms[n])]

LEMMA MixesIs ==
  ASSUME NEW terms \in [1 .. N + 1 -> Word]
  PROVE  \E f : Mixes(f, terms)
<1> DEFINE first == terms[1]
           succ(k, x) == Mix(x, terms[k])
           move == [k \in 1 .. N |-> [x \in Word |-> succ(k + 1, x)]]
<1>1. N \in Nat \ {0} BY NGramConstants
<1>3. first \in Word
  <2>1. 1 \in 1 .. N + 1 BY <1>1
  <2> QED BY <2>1
<1>4. \A k \in 1 .. N + 1, x \in Word : succ(k, x) \in Word BY NGramAssumption
<1> HIDE DEF first, succ
<1>5. move \in [1 .. N -> [Word -> Word]] /\ \A k \in 1 .. N, x \in Word : move[k][x] = succ(k + 1, x)
  <2>1. \A k \in 1 .. N : k + 1 \in 1 .. N + 1 BY <1>1
  <2> QED BY <1>4, <2>1
<1> HIDE DEF move
<1>6. PICK g : Takes(g, N, Word, first, move) BY <1>1, <1>3, <1>5, Iterates
<1>7. g \in [0 .. N -> Word] /\ \A k \in 0 .. N : g[k] = IF k = 0 THEN first ELSE move[k][g[k - 1]]
  BY <1>6 DEF Takes
<1> DEFINE f == [k \in 1 .. N + 1 |-> g[k - 1]]
<1>8. ASSUME NEW k \in 1 .. N + 1 PROVE f[k] = IF k = 1 THEN first ELSE succ(k, f[k - 1])
  <2>1. CASE k = 1
    <3>1. k - 1 = 0 /\ 0 \in 0 .. N BY <1>1, <2>1
    <3> QED BY <1>7, <2>1, <3>1
  <2>2. CASE k # 1
    <3>1. /\ k - 1 \in 0 .. N /\ k - 1 # 0 /\ k - 1 \in 1 .. N /\ (k - 1) - 1 \in 0 .. N
          /\ k - 1 \in 1 .. N + 1 /\ (k - 1) + 1 = k
      BY <1>1, <2>2
    <3>2. f[k] = g[k - 1] /\ f[k - 1] = g[(k - 1) - 1] BY <3>1
    <3>3. g[k - 1] = move[k - 1][g[(k - 1) - 1]] BY <1>7, <3>1
    <3>4. g[(k - 1) - 1] \in Word BY <1>7, <3>1
    <3>5. move[k - 1][g[(k - 1) - 1]] = succ((k - 1) + 1, g[(k - 1) - 1]) BY <1>5, <3>1, <3>4
    <3> HIDE DEF f
    <3> QED BY <2>2, <3>1, <3>2, <3>3, <3>5
  <2> QED BY <2>1, <2>2
<1>9. f = [k \in 1 .. N + 1 |-> IF k = 1 THEN first ELSE succ(k, f[k - 1])] BY <1>8
<1>10. f \in [1 .. N + 1 -> Word]
  <2>1. \A k \in 1 .. N + 1 : k - 1 \in 0 .. N BY <1>1
  <2> QED BY <1>7, <2>1
<1> HIDE DEF f
<1> QED BY <1>9, <1>10 DEF Mixes, first, succ

\* The heads divide the table.
LEMMA HeadFacts ==
  /\ Heads \in Nat /\ Heads = HeadsPer * N /\ HeadsPer \in Nat \ {0} /\ N \in Nat \ {0}
  /\ \A h \in HeadIds : h \in Nat /\ h < Heads /\ Order(h) \in 2 .. N + 1
  /\ \A h \in HeadIds : Size[h] \in Nat \ {0}
<1>1. HeadsPer \in Nat \ {0} /\ N \in Nat \ {0} BY NGramAssumption
<1>2. Heads \in Nat /\ Heads = HeadsPer * N BY <1>1 DEF Heads
<1>3. ASSUME NEW h \in HeadIds PROVE h \in Nat /\ h < Heads /\ Order(h) \in 2 .. N + 1
  <2>1. h \in Nat /\ h < Heads BY <1>2 DEF HeadIds
  <2> DEFINE q == h \div HeadsPer
  <2>2. q \in Nat /\ h % HeadsPer \in 0 .. HeadsPer - 1 /\ h = HeadsPer * q + (h % HeadsPer)
    BY <1>1, <2>1, DivFacts
  <2> HIDE DEF q
  <2>3. ASSUME q >= N PROVE FALSE
    <3>1. HeadsPer * q \in Nat /\ HeadsPer * N \in Nat BY <1>1, <2>2
    <3>2. q = N \/ q > N BY <1>1, <2>2, <2>3
    <3>3. q > N => HeadsPer * q >= HeadsPer * N + HeadsPer BY <1>1, <2>2, MulGap
    <3>4. HeadsPer * q >= HeadsPer * N BY <1>1, <3>1, <3>2, <3>3
    <3> QED BY <1>1, <1>2, <2>1, <2>2, <3>1, <3>4
  <2>4. Order(h) = q + 2 BY DEF Order, q
  <2>5. q + 2 \in 2 .. N + 1 BY <1>1, <2>2, <2>3
  <2> QED BY <2>1, <2>4, <2>5
<1>4. ASSUME NEW h \in HeadIds PROVE Size[h] \in Nat \ {0}
  <2>1. NthPrimes(VocabBase - 1, PrimeNumber(h)) # {} BY PrimesAssumption
  <2>2. Size[h] \in NthPrimes(VocabBase - 1, PrimeNumber(h)) BY <2>1 DEF Size, NthPrimeAfter
  <2>3. Size[h] \in Int /\ Size[h] >= 2 BY <2>2 DEF NthPrimes, IsPrime
  <2> QED BY <2>3
<1> QED BY <1>1, <1>2, <1>3, <1>4

LEMMA OffsetFacts ==
  /\ Offset \in [0 .. Heads -> Nat]
  /\ \A h \in HeadIds : Offset[h + 1] = Offset[h] + Size[h]
  /\ \A a, b \in 0 .. Heads : a <= b => Offset[a] <= Offset[b]
  /\ TableRows \in Nat /\ Offset[Heads] <= TableRows
<1> DEFINE n == Heads
           Sums(g) == g = [h \in 0 .. n |-> IF h = 0 THEN 0 ELSE g[h - 1] + Size[h - 1]]
           f == Offset
<1>1. n \in Nat /\ HeadIds = 0 .. n - 1 BY HeadFacts DEF HeadIds
<1>2. Size \in [0 .. n - 1 -> Nat]
  <2>1. Size = [h \in 0 .. n - 1 |-> Size[h]] BY <1>1 DEF Size
  <2>2. \A h \in 0 .. n - 1 : Size[h] \in Nat BY <1>1, HeadFacts
  <2> QED BY <2>1, <2>2
<1>3. f = CHOOSE g : Sums(g) BY DEF Offset
<1> HIDE DEF n, f
<1>4. \E g : Sums(g) BY <1>1, <1>2, PartialSums
<1>5. Sums(f)
  <2> HIDE DEF Sums
  <2> QED BY <1>3, <1>4, Zenon
<1>6. /\ f = [h \in 0 .. n |-> f[h]]
      /\ \A h \in 0 .. n : f[h] = IF h = 0 THEN 0 ELSE f[h - 1] + Size[h - 1]
  <2>1. f = [h \in 0 .. n |-> IF h = 0 THEN 0 ELSE f[h - 1] + Size[h - 1]] BY <1>5
  <2>2. f = [h \in 0 .. n |-> f[h]] BY <2>1
  <2>3. \A h \in 0 .. n : f[h] = IF h = 0 THEN 0 ELSE f[h - 1] + Size[h - 1] BY <2>1
  <2> QED BY <2>2, <2>3
<1> HIDE DEF Sums
<1>7. /\ f \in [0 .. n -> Nat]
      /\ \A h \in 0 .. n - 1 : f[h + 1] = f[h] + Size[h] /\ f[h] <= f[h + 1]
  BY <1>1, <1>2, <1>6, SumFacts
<1>8. \A a, b \in 0 .. n : a <= b => f[a] <= f[b]
  <2>1. f \in [0 .. n -> Int] BY <1>7
  <2> QED BY <1>1, <1>7, <2>1, Ascends
<1>9. TableRows \in Nat /\ f[n] <= TableRows
  <2> DEFINE x == f[n] + Divisor - 1
             q == x \div Divisor
  <2>1. f[n] \in Nat /\ Divisor \in Nat \ {0} BY <1>1, <1>7, NGramAssumption
  <2>2. x \in Nat BY <2>1
  <2>3. TableRows = q * Divisor BY DEF TableRows, f, n
  <2> HIDE DEF x
  <2>4. q \in Nat /\ x % Divisor \in 0 .. Divisor - 1 /\ x = Divisor * q + (x % Divisor)
    BY <2>1, <2>2, DivFacts
  <2> HIDE DEF q
  <2>5. Divisor * q \in Nat /\ Divisor * q = q * Divisor BY <2>1, <2>4
  <2>6. f[n] <= Divisor * q
    <3>1. f[n] + Divisor - 1 = Divisor * q + (x % Divisor) BY <2>4 DEF x
    <3> QED BY <2>1, <2>4, <2>5, <3>1
  <2> QED BY <2>3, <2>5, <2>6
<1> QED BY <1>1, <1>7, <1>8, <1>9 DEF f, n

\* All terms mixed, those beyond the head's order as 0, are the terms of its order.
LEMMA MixedFacts ==
  ASSUME NEW b, HashTypes(b), NEW w \in [1 .. N + 1 -> Token], NEW h \in HeadIds
  PROVE  /\ TorchMixed(b, w)[Order(h)] \in Int
         /\ KernelMixed(b, w, h) = TorchMixed(b, w)[Order(h)]
<1> DEFINE terms == [n \in 1 .. N + 1 |-> Term(b, w, n)]
           ofOrder == [n \in 1 .. N + 1 |-> IF Order(h) > n - 1 THEN Term(b, w, n) ELSE 0]
           torch == TorchMixed(b, w)
           kernel == CHOOSE g :
             g = [n \in 1 .. N + 1 |->
                    IF n = 1 THEN Term(b, w, 1)
                    ELSE Mix(g[n - 1], IF Order(h) > n - 1 THEN Term(b, w, n) ELSE 0)]
           o == Order(h)
<1>1. N \in Nat \ {0} /\ o \in 2 .. N + 1 /\ MaxWord \in Nat BY NGramAssumption, HeadFacts
<1>2. \A n \in 1 .. N + 1 : Term(b, w, n) \in Word
  <2> TAKE n \in 1 .. N + 1
  <2>1. w[n] \in Int BY NGramConstants DEF Token
  <2>2. n - 1 \in 0 .. N BY <1>1
  <2>3. b.layer_multipliers[n - 1] \in Int BY <2>2 DEF HashTypes
  <2>4. w[n] * b.layer_multipliers[n - 1] \in Int BY <2>1, <2>3
  <2> QED BY <2>4, WrapFacts DEF Term
<1>3. terms \in [1 .. N + 1 -> Word] /\ ofOrder \in [1 .. N + 1 -> Word] BY <1>2, WrapFacts
<1>4. /\ \A n \in 1 .. N + 1 : terms[n] = Term(b, w, n)
      /\ \A n \in 1 .. N + 1 : ofOrder[n] = IF o > n - 1 THEN Term(b, w, n) ELSE 0
      /\ 1 \in 1 .. N + 1 /\ o > 1 - 1
  BY <1>1
<1> HIDE DEF terms, ofOrder
<1>5. torch = [n \in 1 .. N + 1 |-> IF n = 1 THEN Term(b, w, 1) ELSE Mix(torch[n - 1], Term(b, w, n))]
  <2>1. PICK f : Mixes(f, terms) BY <1>3, MixesIs
  <2>2. f = [n \in 1 .. N + 1 |-> IF n = 1 THEN Term(b, w, 1) ELSE Mix(f[n - 1], Term(b, w, n))]
    BY <1>4, <2>1 DEF Mixes
  <2>3. torch = CHOOSE g :
          g = [n \in 1 .. N + 1 |-> IF n = 1 THEN Term(b, w, 1) ELSE Mix(g[n - 1], Term(b, w, n))]
    BY DEF TorchMixed
  <2> HIDE DEF torch
  <2> QED BY <2>2, <2>3, Zenon
<1>6. kernel = [n \in 1 .. N + 1 |->
                  IF n = 1 THEN Term(b, w, 1)
                  ELSE Mix(kernel[n - 1], IF o > n - 1 THEN Term(b, w, n) ELSE 0)]
  <2>1. PICK f : Mixes(f, ofOrder) BY <1>3, MixesIs
  <2>2. f = [n \in 1 .. N + 1 |->
               IF n = 1 THEN Term(b, w, 1)
               ELSE Mix(f[n - 1], IF o > n - 1 THEN Term(b, w, n) ELSE 0)]
    BY <1>4, <2>1 DEF Mixes
  <2> QED BY <2>2, Zenon
<1>7. KernelMixed(b, w, h) = kernel[N + 1] BY DEF KernelMixed
<1> HIDE DEF torch, kernel, o
<1>8. torch[1] = Term(b, w, 1) /\ kernel[1] = Term(b, w, 1) BY <1>4, <1>5, <1>6
<1>9. ASSUME NEW k \in 0 .. N - 1
      PROVE  /\ k + 1 \in 1 .. N + 1 /\ (k + 1) + 1 \in 1 .. N + 1
             /\ torch[(k + 1) + 1] = Mix(torch[k + 1], Term(b, w, (k + 1) + 1))
             /\ kernel[(k + 1) + 1] =
                  Mix(kernel[k + 1], IF o > k + 1 THEN Term(b, w, (k + 1) + 1) ELSE 0)
  <2>1. /\ k + 1 \in 1 .. N + 1 /\ (k + 1) + 1 \in 1 .. N + 1
        /\ (k + 1) + 1 # 1 /\ ((k + 1) + 1) - 1 = k + 1
    BY <1>1
  <2> QED BY <1>5, <1>6, <2>1
<1> DEFINE S == {k \in Nat : /\ torch[k + 1] \in Word /\ kernel[k + 1] \in Word
                             /\ k < o => kernel[k + 1] = torch[k + 1]
                             /\ k >= o => kernel[k + 1] = torch[o]}
<1>10. 0 \in S BY <1>1, <1>2, <1>4, <1>8
<1>11. ASSUME NEW k \in 0 .. N - 1, k \in S PROVE k + 1 \in S
  <2>1. /\ k \in Nat /\ k + 1 \in Nat /\ torch[k + 1] \in Word /\ kernel[k + 1] \in Word
        /\ (k < o => kernel[k + 1] = torch[k + 1]) /\ (k >= o => kernel[k + 1] = torch[o])
    BY <1>1, <1>11
  <2>2. Term(b, w, (k + 1) + 1) \in Word BY <1>2, <1>9
  <2>3. torch[(k + 1) + 1] \in Word BY <1>9, <2>1, <2>2, NGramAssumption
  <2>6. kernel[(k + 1) + 1] \in Word BY <1>1, <1>9, <2>1, <2>2, WrapFacts, NGramAssumption
  <2>4. k + 1 < o => kernel[(k + 1) + 1] = torch[(k + 1) + 1] BY <1>1, <1>9, <2>1
  <2>5. ASSUME k + 1 >= o PROVE kernel[(k + 1) + 1] = torch[o]
    <3>1. kernel[(k + 1) + 1] = Mix(kernel[k + 1], 0) BY <1>1, <1>9, <2>1, <2>5
    <3>2. kernel[k + 1] = torch[o] /\ kernel[k + 1] \in Word
      <4>1. CASE k + 1 = o BY <1>1, <2>1, <4>1
      <4>2. CASE k + 1 > o
        <5>1. k >= o BY <1>1, <2>1, <4>2
        <5> QED BY <2>1, <5>1
      <4> QED BY <1>1, <2>1, <2>5, <4>1, <4>2
    <3>3. Mix(kernel[k + 1], 0) = kernel[k + 1] BY <3>2, NGramAssumption
    <3> QED BY <3>1, <3>2, <3>3
  <2> QED BY <2>1, <2>3, <2>4, <2>5, <2>6
<1>12. 0 .. N \subseteq S
  <2>1. \A k \in 0 .. N - 1 : k \in S => k + 1 \in S BY <1>11
  <2> HIDE DEF S
  <2> QED BY <1>1, <1>10, <2>1, ClosedUpwards
<1>13. torch[o] \in Word
  <2>1. o - 1 \in 0 .. N /\ (o - 1) + 1 = o BY <1>1
  <2>2. o - 1 \in S BY <1>12, <2>1
  <2> QED BY <2>1, <2>2
<1>14. kernel[N + 1] = torch[o]
  <2>1. N \in S /\ (N < o => N + 1 = o) /\ (N < o \/ N >= o) BY <1>1, <1>12
  <2> QED BY <2>1
<1>15. torch[o] \in Int BY <1>1, <1>13 DEF Word
<1> QED BY <1>7, <1>14, <1>15 DEF torch, o

\* With heads that have sizes, kernel and fallback compute the same ids, each in
\* its head's part.
LEMMA IdFacts ==
  ASSUME NEW b, HashTypes(b), Sized(b), NEW w \in [1 .. N + 1 -> Token]
  PROVE  /\ KernelIds(b, w) = TorchIds(b, w)
         /\ \A h \in HeadIds : TorchIds(b, w)[h] \in Part(b, h)
<1>1. ASSUME NEW h \in HeadIds
      PROVE  /\ KernelIds(b, w)[h] = TorchIds(b, w)[h]
             /\ TorchIds(b, w)[h] \in Part(b, h)
  <2> DEFINE x == TorchMixed(b, w)[Order(h)]
             size == b.ngram_heads_vocab_sizes[h]
             offset == b.ngram_heads_offsets[h]
  <2>1. x \in Int /\ KernelMixed(b, w, h) = x BY MixedFacts
  <2>2. size \in Nat \ {0} /\ offset \in Int BY DEF HashTypes, Sized
  <2>3. TorchIds(b, w)[h] = (x % size) + offset BY DEF TorchIds
  <2>4. KernelIds(b, w)[h] = Remainder(x, size) + offset BY <2>1 DEF KernelIds
  <2>5. Part(b, h) = offset .. offset + size - 1 BY DEF Part
  <2> HIDE DEF x, size, offset
  <2>6. Remainder(x, size) = x % size /\ x % size \in 0 .. size - 1 BY <2>1, <2>2, RemainderIs
  <2> QED BY <2>2, <2>3, <2>4, <2>5, <2>6
<1>2. /\ KernelIds(b, w) = [h \in HeadIds |-> KernelIds(b, w)[h]]
      /\ TorchIds(b, w) = [h \in HeadIds |-> TorchIds(b, w)[h]]
  BY DEF KernelIds, TorchIds
<1>3. [h \in HeadIds |-> KernelIds(b, w)[h]] = [h \in HeadIds |-> TorchIds(b, w)[h]] BY <1>1
<1> QED BY <1>1, <1>2, <1>3

\* Offsets and sizes as __init__ computes them divide the table.
LEMMA OwnIsLaid ==
  ASSUME NEW b, b.ngram_heads_offsets = ComputedBuffers.ngram_heads_offsets,
         b.ngram_heads_vocab_sizes = ComputedBuffers.ngram_heads_vocab_sizes
  PROVE  Laid(b)
<1>1. ASSUME NEW h \in HeadIds
      PROVE  /\ b.ngram_heads_vocab_sizes[h] = Size[h] /\ Size[h] \in Nat \ {0}
             /\ Part(b, h) = Offset[h] .. Offset[h + 1] - 1
             /\ Offset[h] \in Nat /\ Offset[h + 1] \in Nat
             /\ h \in Nat /\ h < Heads /\ Heads \in Nat
             /\ h \in 0 .. Heads /\ h + 1 \in 0 .. Heads
  <2>1. h \in Nat /\ h < Heads /\ Heads \in Nat /\ Size[h] \in Nat \ {0} BY HeadFacts
  <2>2. h \in 0 .. Heads /\ h + 1 \in 0 .. Heads BY <2>1
  <2>3. Offset[h] \in Nat /\ Offset[h + 1] \in Nat /\ Offset[h + 1] = Offset[h] + Size[h]
    BY <2>2, OffsetFacts
  <2>4. b.ngram_heads_vocab_sizes[h] = Size[h] /\ b.ngram_heads_offsets[h] = Offset[h]
    BY DEF ComputedBuffers
  <2> QED BY <2>1, <2>2, <2>3, <2>4 DEF Part
<1>2. Sized(b) BY <1>1 DEF Sized
<1>3. VocabRows \in Nat /\ Offset[Heads] \in Nat /\ Offset[Heads] <= VocabRows /\ Heads \in 0 .. Heads
  <2>1. Heads \in 0 .. Heads BY HeadFacts
  <2> QED BY <2>1, OffsetFacts, LookupAssumption
<1>4. ASSUME NEW h \in HeadIds PROVE Part(b, h) \subseteq 0 .. VocabRows - 1
  <2>1. Offset[h + 1] <= Offset[Heads] BY <1>1, <1>3, OffsetFacts
  <2> QED BY <1>1, <1>3, <2>1
<1>5. ASSUME NEW h \in HeadIds, NEW g \in HeadIds, g < h
      PROVE  Part(b, g) \intersect Part(b, h) = {}
  <2>1. g + 1 <= h BY <1>1, <1>5
  <2>2. Offset[g + 1] <= Offset[h] BY <1>1, <2>1, OffsetFacts
  <2> QED BY <1>1, <2>2
<1>6. ASSUME NEW h \in HeadIds, NEW g \in HeadIds \ {h}
      PROVE  Part(b, g) \intersect Part(b, h) = {}
  <2>1. CASE g < h BY <1>5, <2>1
  <2>2. CASE h < g BY <1>5, <2>2
  <2>3. g < h \/ h < g BY <1>1
  <2> QED BY <2>1, <2>2, <2>3
<1> QED BY <1>2, <1>4, <1>6 DEF Laid

\* What a rank hashes with has the types of what it has computed.
LEMMA BuffersHash ==
  ASSUME TableInv, NEW r \in Ranks
  PROVE  HashTypes(buffers[r])
<1>1. \A n \in BufferNames : buffers[r][n] \in [DOMAIN OwnBuffers[n] -> Int]
  BY DEF TableInv, BuffersAreLoaded, BufferTypes
<1>2. /\ DOMAIN OwnBuffers["layer_multipliers"] = 0 .. N
      /\ DOMAIN OwnBuffers["ngram_heads_offsets"] = HeadIds
      /\ DOMAIN OwnBuffers["ngram_heads_vocab_sizes"] = HeadIds
  BY LookupAssumption DEF ComputedBuffers, Size
<1> QED BY <1>1, <1>2 DEF HashTypes, BufferNames

(***************************************************************************)
(* The kernel computes the ids the fallback on whole tensors computes,     *)
(* padding included, for any number of requests, chunk lengths and         *)
(* programs, with whatever buffers load_weights left and whatever products *)
(* leave the word.                                                         *)
(***************************************************************************)
THEOREM KernelAgreesWithTorch == LSpec => []AgreesWithTorch
<1>1. ASSUME NGramInv, TableInv PROVE AgreesWithTorch
  <2> SUFFICES ASSUME Computed, NEW t \in DOMAIN window
               PROVE  /\ window[t] = FallbackWindow(t)
                      /\ \A r \in Ranks : Sized(buffers[r]) =>
                           KernelIds(buffers[r], window[t]) =
                             TorchIds(buffers[r], FallbackWindow(t))
    BY DEF AgreesWithTorch
  <2>1. window[t] = FallbackWindow(t) /\ window[t] \in [1 .. N + 1 -> Token]
    BY <1>1, NGramProperties
  <2>2. \A r \in Ranks : HashTypes(buffers[r]) BY <1>1, BuffersHash
  <2> QED BY <2>1, <2>2, IdFacts
<1>2. LSpec => []TableInv
  <2>1. LInit => TableInv BY TableInit DEF LInit
  <2>2. TableInv /\ [LNext]_lvars => TableInv'
    <3>1. [LNext]_lvars => [TNext]_tvars BY DEF LNext, Load, EngineStep, lvars
    <3> QED BY <3>1, TableStep
  <2> QED BY <2>1, <2>2, PTL DEF LSpec
<1> QED BY <1>1, <1>2, NGramInvariance, PTL

-----------------------------------------------------------------------------
(* The lookup from end to end. *)

\* A table as the writer cut it is served row by row, or not yet.
LookupInv ==
  /\ NGramInv /\ TableInv /\ AsWritten(ckpt)
  /\ mode \in Modes \union {"none"}
  /\ served # <<>> => served = [i \in 0 .. VocabRows - 1 |-> i] /\ mode = "none"
  /\ busy => served # <<>>

LEMMA LookupInit == LInit /\ AsWritten(ckpt) => LookupInv
<1> SUFFICES ASSUME LInit, AsWritten(ckpt) PROVE LookupInv OBVIOUS
<1>1. NInit /\ TInit BY DEF LInit
<1>2. NGramInv /\ TableInv BY <1>1, NGramInit, TableInit
<1>3. ~busy BY <1>1 DEF NInit
<1>4. mode \in Modes /\ served = <<>> BY <1>1 DEF TInit
<1> QED BY <1>2, <1>3, <1>4 DEF LookupInv

LEMMA LookupStep == LookupInv /\ [LNext]_lvars => LookupInv'
<1> SUFFICES ASSUME LookupInv, [LNext]_lvars PROVE LookupInv' OBVIOUS
<1>1. [NNext]_nvars /\ [TNext]_tvars BY DEF LNext, Load, EngineStep, lvars
<1>2. NGramInv' /\ TableInv' BY <1>1, NGramStep, TableStep DEF LookupInv
<1>3. CASE UNCHANGED tvars
  <2>1. UNCHANGED <<mode, ckpt, served>> BY <1>3 DEF tvars
  <2>2. AsWritten(ckpt)' BY <2>1 DEF LookupInv, AsWritten
  <2>3. busy' => served # <<>>
    <3>1. CASE EngineStep BY <3>1 DEF EngineStep
    <3>2. CASE ~EngineStep
      <4>1. busy' = busy BY <3>2 DEF LNext, Load, lvars, nvars
      <4> QED BY <4>1 DEF LookupInv
    <3> QED BY <3>1, <3>2
  <2> QED BY <1>2, <2>1, <2>2, <2>3 DEF LookupInv
<1>4. CASE Load
  <2>1. busy' = busy BY <1>4 DEF Load, nvars
  <2>2. TNext BY <1>4 DEF Load
  <2>3. ASSUME NEW r \in Ranks, LoadShard(r) \/ LoadBuffer(r) \/ EndVisit(r) \/ ReadSlice(r)
        PROVE  LookupInv'
    <3>1. UNCHANGED <<mode, ckpt, served>>
      BY <2>3 DEF LoadShard, LoadBuffer, EndVisit, ReadSlice
    <3>2. AsWritten(ckpt)' BY <3>1 DEF LookupInv, AsWritten
    <3> QED BY <1>2, <2>1, <3>1, <3>2 DEF LookupInv
  <2>4. CASE Serve
    <3>1. \A r \in Ranks : phase[r] = "ready" BY <2>4 DEF Serve
    <3>2. \A i \in Row : Lookup(i) = i BY <3>1, LookupIs DEF LookupInv
    <3>3. served' = [i \in 0 .. VocabRows - 1 |-> i] BY <2>4, <3>2 DEF Serve, Row
    <3>4. served' # <<>>
      <4>1. 0 \in DOMAIN served' BY <3>3, RankFacts
      <4>2. DOMAIN <<>> = {} OBVIOUS
      <4> QED BY <4>1, <4>2
    <3>5. mode' = "none" /\ ckpt' = <<>> BY <2>4 DEF Serve
    <3>6. AsWritten(ckpt)'
      <4>1. Len(ckpt') = 0 BY <3>5
      <4>2. 1 \in Nat \ {0} OBVIOUS
      <4> QED BY <4>1, <4>2 DEF AsWritten
    <3> QED BY <1>2, <3>3, <3>4, <3>5, <3>6 DEF LookupInv
  <2>5. CASE UNCHANGED tvars BY <1>3, <2>5
  <2> QED BY <2>2, <2>3, <2>4, <2>5 DEF TNext
<1>5. CASE EngineStep BY <1>3, <1>5 DEF EngineStep
<1>6. CASE UNCHANGED lvars BY <1>3, <1>6 DEF lvars
<1> QED BY <1>4, <1>5, <1>6 DEF LNext

LEMMA LookupProperties ==
  ASSUME LookupInv
  PROVE  LTypeOK /\ TokensGetTheirRows
<1>1. NTypeOK /\ WindowsAreOfTheText BY NGramProperties DEF LookupInv
<1>2. TTypeOK
  <2>1. /\ mode \in Modes \union {"none"} /\ ckpt \in Checkpoints \union {<<>>}
        /\ phase \in [Ranks -> {"weights", "slice", "ready", "refused", "serving"}]
        /\ weight \in [Ranks -> [0 .. RankRows - 1 -> RowContent]]
    BY DEF LookupInv, TableInv, TableTypes
  <2>2. next \in [Ranks -> 1 .. Len(ckpt) + 1]
    <3>1. Len(ckpt) \in Nat BY CheckpointIsSequence DEF LookupInv, TableInv
    <3>2. next \in [Ranks -> Nat \ {0}] /\ \A r \in Ranks : next[r] <= Len(ckpt) + 1
      BY DEF LookupInv, TableInv, TableTypes, Loaded
    <3>3. \A r \in Ranks : next[r] \in 1 .. Len(ckpt) + 1 BY <3>1, <3>2
    <3> QED BY <3>2, <3>3
  <2>3. \A r \in Ranks : table[r] = <<>> \/ table[r] = Opened
    BY DEF LookupInv, TableInv, TableTypes
  <2>4. ASSUME NEW r \in Ranks
        PROVE  Len(slab[r]) <= RankRows /\ \A i \in DOMAIN slab[r] : slab[r][i] \in RowContent
    <3>1. slab[r] \in Seq(Nat) /\ Len(slab[r]) <= RankRows
      BY DEF LookupInv, TableInv, SlabsAreRows
    <3> QED BY <3>1 DEF RowContent
  <2>5. served = <<>> \/ served \in [0 .. VocabRows - 1 -> RowContent]
    <3>1. \A i \in 0 .. VocabRows - 1 : i \in RowContent BY RankFacts DEF RowContent
    <3> QED BY <3>1 DEF LookupInv
  <2>6. /\ hash \in HashFiles \union {<<>>} /\ left \in [Ranks -> SUBSET DOMAIN hash]
        /\ \A r \in Ranks : /\ DOMAIN buffers[r] = BufferNames
                            /\ \A n \in BufferNames : buffers[r][n] \in [DOMAIN OwnBuffers[n] -> Int]
    BY DEF LookupInv, TableInv, BuffersAreLoaded, BufferTypes
  <2> QED BY <2>1, <2>2, <2>3, <2>4, <2>5, <2>6 DEF TTypeOK
<1>3. TokensGetTheirRows
  <2> SUFFICES ASSUME Computed, NEW k \in Ranks
               PROVE  LET b == buffers[k]
                          own == [ComputedBuffers EXCEPT !.layer_multipliers = b.layer_multipliers]
                      IN  /\ b = buffers[0]
                          /\ b = own => Laid(b)
                          /\ Laid(b) =>
                               \A r \in Reqs : \A t \in qsl[r] .. qsl[r + 1] - 1 : \A h \in HeadIds :
                                 LET id == TorchIds(b, Reference(TextOf(r), computed[r] + t - qsl[r]))[h]
                                 IN  /\ served[KernelIds(b, window[t])[h]] = id
                                     /\ id \in Part(b, h)
    BY DEF TokensGetTheirRows
  <2> DEFINE b == buffers[k]
  <2>1. busy /\ Batch /\ TextTypes BY DEF Computed, LookupInv, NGramInv
  <2>2. served = [i \in 0 .. VocabRows - 1 |-> i] /\ mode = "none" BY <2>1 DEF LookupInv
  <2>3. b = buffers[0] BY <2>2, RankFacts DEF LookupInv, TableInv, BuffersAreLoaded
  <2>4. HashTypes(b) BY BuffersHash DEF LookupInv
  <2> HIDE DEF b
  <2>5. b = [ComputedBuffers EXCEPT !.layer_multipliers = b.layer_multipliers] => Laid(b)
    <3> SUFFICES ASSUME b = [ComputedBuffers EXCEPT !.layer_multipliers = b.layer_multipliers]
                 PROVE  Laid(b)
      OBVIOUS
    <3>1. /\ b.ngram_heads_offsets = ComputedBuffers.ngram_heads_offsets
          /\ b.ngram_heads_vocab_sizes = ComputedBuffers.ngram_heads_vocab_sizes
      BY DEF ComputedBuffers
    <3> QED BY <3>1, OwnIsLaid
  <2>6. ASSUME Laid(b), NEW r \in Reqs, NEW t \in qsl[r] .. qsl[r + 1] - 1, NEW h \in HeadIds
        PROVE  LET id == TorchIds(b, Reference(TextOf(r), computed[r] + t - qsl[r]))[h]
               IN  served[KernelIds(b, window[t])[h]] = id /\ id \in Part(b, h)
    <3> DEFINE text == Reference(TextOf(r), computed[r] + t - qsl[r])
    <3>1. text \in [1 .. N + 1 -> Token]
      <4>1. /\ t \in 0 .. NumTokens - 1 /\ Owns(r, t)
            /\ text = [i \in 1 .. N + 1 |-> Nearest(r, t, i - 1)]
        BY <2>1, ReferenceIs
      <4>2. \A s \in 0 .. N : Nearest(r, t, s) \in Token BY <2>1, <4>1, KernelIs
      <4>3. \A i \in 1 .. N + 1 : i - 1 \in 0 .. N BY NGramConstants
      <4> HIDE DEF text
      <4> QED BY <4>1, <4>2, <4>3
    <3>2. window[t] = text BY <1>1 DEF WindowsAreOfTheText
    <3> HIDE DEF text
    <3>3. Sized(b) /\ Part(b, h) \subseteq 0 .. VocabRows - 1 BY <2>6 DEF Laid
    <3>4. KernelIds(b, text) = TorchIds(b, text) /\ TorchIds(b, text)[h] \in Part(b, h)
      BY <2>4, <3>1, <3>3, IdFacts
    <3>5. served[TorchIds(b, text)[h]] = TorchIds(b, text)[h] BY <2>2, <3>3, <3>4
    <3> QED BY <3>2, <3>4, <3>5 DEF text
  <2> QED BY <2>3, <2>5, <2>6 DEF b
<1> QED BY <1>1, <1>2, <1>3 DEF LTypeOK

\* What is loaded is what is served, and the engine takes no step before.
THEOREM LookupInvariance == LSpec /\ AsWritten(ckpt) => []LookupInv
<1>1. LInit /\ AsWritten(ckpt) => LookupInv BY LookupInit
<1>2. LookupInv /\ [LNext]_lvars => LookupInv' BY LookupStep
<1> QED BY <1>1, <1>2, PTL DEF LSpec

\* Types, if the writer wrote the table: with other files a shard may be opened
\* that has no rows, and the places of the rows are not defined.
THEOREM LookupTypeCorrect == LSpec /\ AsWritten(ckpt) => []LTypeOK
<1>1. LookupInv => LTypeOK BY LookupProperties
<1> QED BY <1>1, LookupInvariance, PTL

(***************************************************************************)
(* What is added for a token of a request is the row of the table at the   *)
(* hash of its own text, in the part of each head, for all requests,       *)
(* chunks, drafts and words, all three ways to keep rows, and all buffers, *)
(* computed or loaded, that give each head a part; every rank has the same *)
(* and computed offsets and sizes do.                                      *)
(***************************************************************************)
THEOREM RowsOfTheText == LSpec /\ AsWritten(ckpt) => []TokensGetTheirRows
<1>1. LookupInv => TokensGetTheirRows BY LookupProperties
<1> QED BY <1>1, LookupInvariance, PTL
=============================================================================
