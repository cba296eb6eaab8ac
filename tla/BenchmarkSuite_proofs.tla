------------------------- MODULE BenchmarkSuite_proofs -------------------------
(***************************************************************************)
(* The two parts of the benchmark suite.  The throughput matrix is whole   *)
(* and of one configuration for any number of cells, requests,             *)
(* configurations, crashes and restarts; the capability stages end with 0  *)
(* only over a directory that may be reported, for any tasks and any       *)
(* number of invocations.                                                  *)
(***************************************************************************)
EXTENDS RunPerf, Capability, TLAPS

-----------------------------------------------------------------------------
(* The throughput matrix. *)

Running == pc \notin {"stopped", "config"}

\* The process works under the saved configuration; the cells it has passed are
\* good; what it has just measured is what it stores.
Progress ==
  /\ Running => saved = config
  /\ Running /\ pc # "done" => \A c \in Cell : c < at => cells[c] # Missing /\ Valid(cells[c])
  /\ pc = "store" => /\ at \in Cell /\ cells[at] = Missing
                     /\ summary \in Summary /\ summary.config = config
  /\ pc \in {"summaries", "requests", "validate"} /\ at <= Cells =>
       summary \in Summary /\ cells[at] = summary
  /\ pc \in {"summaries", "validate"} => at <= Cells
  /\ pc \in {"requests", "validate"} => summaries = cells
  /\ pc = "validate" => requests = cells

MatrixInv == TypeOK /\ OneConfiguration /\ Progress /\ FinishedMatrixIsWhole

\* A file that is there is a summary.
LEMMA FileFacts ==
  ASSUME TypeOK, NEW c \in Cell
  PROVE  /\ cells[c] \in Summary \union {Missing} /\ summaries[c] \in Summary \union {Missing}
         /\ Cells \in Nat \ {0} /\ c \in Nat /\ c <= Cells /\ 1 <= c
         /\ \A s \in Summary : s # Missing /\ s.config \in Configs /\ s.config # Missing
<1>1. cells[c] \in Summary \union {Missing} /\ summaries[c] \in Summary \union {Missing}
  BY DEF TypeOK, CellFile
<1>2. \A s \in Summary : s # Missing /\ s.config \in Configs /\ s.config # Missing
  BY MatrixAssumption DEF Summary
<1> QED BY <1>1, <1>2, MatrixAssumption DEF Cell

\* The start of a process, the operator's cleaning and a crash.
LEMMA OutsideInv ==
  ASSUME MatrixInv,
         \/ \E c \in Configs : Start(c)
         \/ Crash
         \/ \E c \in Cell : Quarantine(c)
  PROVE  MatrixInv'
<1>1. CASE \E c \in Configs : Start(c)
  BY <1>1 DEF MatrixInv, TypeOK, OneConfiguration, Progress, FinishedMatrixIsWhole,
              Start, disk, bounds, Running
<1>2. CASE Crash
  BY <1>2 DEF MatrixInv, TypeOK, OneConfiguration, Progress, FinishedMatrixIsWhole,
              Crash, disk, Running
<1>3. ASSUME NEW c \in Cell, Quarantine(c) PROVE MatrixInv'
  <2>1. /\ pc = "stopped" /\ cells' = [cells EXCEPT ![c] = Missing]
        /\ UNCHANGED <<pc, config, at, summary, saved, summaries, requests, bounds>>
        /\ cells \in CellFile
    BY <1>3 DEF Quarantine, MatrixInv, TypeOK
  <2>2. cells' \in CellFile BY <2>1 DEF CellFile
  <2>3. TypeOK' BY <2>1, <2>2 DEF MatrixInv, TypeOK
  <2>4. OneConfiguration' BY <2>1 DEF MatrixInv, OneConfiguration, CellFile
  <2> QED BY <2>1, <2>3, <2>4 DEF MatrixInv, Progress, FinishedMatrixIsWhole, Running
<1> QED BY <1>1, <1>2, <1>3

\* The configuration is saved when no cell is there, and never replaced.
LEMMA ConfigInv == MatrixInv /\ CheckConfig => MatrixInv'
<1> SUFFICES ASSUME MatrixInv, CheckConfig PROVE MatrixInv' OBVIOUS
<1>1. /\ pc = "config" /\ at' = 1
      /\ UNCHANGED <<config, summary, cells, summaries, requests, bounds>>
  BY DEF CheckConfig
<1>2. saved = Missing => \A c \in Cell : cells[c] = Missing /\ summaries[c] = Missing
  BY FileFacts DEF MatrixInv, OneConfiguration
<1>3. \/ pc' = "cell" /\ saved' = config /\ saved \in {Missing, config}
      \/ pc' = "stopped" /\ saved' = saved
  BY DEF CheckConfig
<1>4. TypeOK' BY <1>1, <1>3, MatrixAssumption DEF MatrixInv, TypeOK
<1>5. OneConfiguration' BY <1>1, <1>2, <1>3 DEF MatrixInv, OneConfiguration
<1>6. Progress'
  <2>1. \A c \in Cell : ~(c < 1) BY FileFacts DEF MatrixInv
  <2> QED BY <1>1, <1>3, <2>1 DEF Progress, Running
<1>7. FinishedMatrixIsWhole' BY <1>1, <1>3 DEF FinishedMatrixIsWhole
<1> QED BY <1>4, <1>5, <1>6, <1>7 DEF MatrixInv

\* A retained cell is passed only if it is good.
LEMMA ResumeInv == MatrixInv /\ Resume => MatrixInv'
<1> SUFFICES ASSUME MatrixInv, Resume PROVE MatrixInv' OBVIOUS
<1>1. /\ pc = "cell" /\ at <= Cells /\ cells[at] # Missing
      /\ UNCHANGED <<config, summary, disk, bounds>>
      /\ \/ Valid(cells[at]) /\ at' = at + 1 /\ pc' = pc
         \/ pc' = "stopped" /\ at' = at
  BY DEF Resume
<1>2. at \in 1 .. Cells /\ Cells \in Nat \ {0}
  BY <1>1, MatrixAssumption DEF MatrixInv, TypeOK
<1>3. TypeOK' BY <1>1, <1>2 DEF MatrixInv, TypeOK, disk
<1>4. OneConfiguration' BY <1>1 DEF MatrixInv, OneConfiguration, disk
<1>5. Progress'
  <2>1. \A c \in Cell : c < at + 1 => c < at \/ c = at BY <1>2, FileFacts DEF MatrixInv
  <2> QED BY <1>1, <2>1 DEF MatrixInv, Progress, Running, disk
<1>6. FinishedMatrixIsWhole' BY <1>1 DEF FinishedMatrixIsWhole
<1> QED BY <1>3, <1>4, <1>5, <1>6 DEF MatrixInv

\* A cell is measured where no file is.
LEMMA MeasureInv ==
  ASSUME MatrixInv, NEW s \in 0 .. Requests, NEW e \in 0 .. Requests, Measure(s, e)
  PROVE  MatrixInv'
<1>1. /\ pc = "cell" /\ pc' = "store" /\ at <= Cells /\ cells[at] = Missing
      /\ summary' = [config |-> config, successes |-> s, exact |-> e]
      /\ UNCHANGED <<config, at, disk, crashes>>
  BY DEF Measure
<1>2. at \in Cell BY <1>1, MatrixAssumption DEF MatrixInv, TypeOK, Cell
<1>3. summary' \in Summary /\ summary'.config = config
  BY <1>1 DEF MatrixInv, TypeOK, Summary
<1>4. TypeOK' BY <1>1, <1>3 DEF MatrixInv, TypeOK, disk
<1>5. OneConfiguration' BY <1>1 DEF MatrixInv, OneConfiguration, disk
<1>6. Progress' BY <1>1, <1>2, <1>3 DEF MatrixInv, Progress, Running, disk
<1>7. FinishedMatrixIsWhole' BY <1>1 DEF FinishedMatrixIsWhole
<1> QED BY <1>4, <1>5, <1>6, <1>7 DEF MatrixInv

\* It is stored under the saved configuration.
LEMMA StoreInv == MatrixInv /\ Store => MatrixInv'
<1> SUFFICES ASSUME MatrixInv, Store PROVE MatrixInv' OBVIOUS
<1>1. /\ pc = "store" /\ pc' = "summaries" /\ cells' = [cells EXCEPT ![at] = summary]
      /\ UNCHANGED <<config, at, summary, saved, summaries, requests, bounds>>
      /\ at \in Cell /\ summary \in Summary /\ summary.config = config /\ saved = config
      /\ cells \in CellFile
  BY DEF Store, MatrixInv, Progress, TypeOK, Running
<1>2. cells' \in CellFile /\ cells'[at] = summary /\ \A c \in Cell : c # at => cells'[c] = cells[c]
  BY <1>1 DEF CellFile
<1>3. TypeOK' BY <1>1, <1>2 DEF MatrixInv, TypeOK
<1>4. OneConfiguration' BY <1>1, <1>2 DEF MatrixInv, OneConfiguration
<1>5. Progress'
  <2>1. \A c \in Cell : c < at => c # at BY <1>1, FileFacts DEF MatrixInv
  <2> QED BY <1>1, <1>2, <2>1, FileFacts DEF MatrixInv, Progress, Running
<1>6. FinishedMatrixIsWhole' BY <1>1 DEF FinishedMatrixIsWhole
<1> QED BY <1>3, <1>4, <1>5, <1>6 DEF MatrixInv

\* The aggregates become what is on disk.
LEMMA RebuildInv == MatrixInv /\ (RebuildSummaries \/ RebuildRequests) => MatrixInv'
<1> SUFFICES ASSUME MatrixInv, RebuildSummaries \/ RebuildRequests PROVE MatrixInv' OBVIOUS
<1>1. CASE RebuildSummaries
  <2>1. /\ pc \in {"summaries", "cell"} /\ pc' = "requests" /\ summaries' = cells
        /\ pc = "cell" => at > Cells
        /\ UNCHANGED <<config, at, summary, saved, cells, requests, bounds>>
    BY <1>1 DEF RebuildSummaries
  <2>2. TypeOK' BY <2>1 DEF MatrixInv, TypeOK
  <2>3. OneConfiguration' BY <2>1 DEF MatrixInv, OneConfiguration
  <2>4. pc = "cell" => ~(at <= Cells) BY <2>1, MatrixAssumption DEF MatrixInv, TypeOK
  <2>5. Progress' BY <2>1, <2>4 DEF MatrixInv, Progress, Running
  <2>6. FinishedMatrixIsWhole' BY <2>1 DEF FinishedMatrixIsWhole
  <2> QED BY <2>2, <2>3, <2>5, <2>6 DEF MatrixInv
<1>2. CASE RebuildRequests
  <2>1. /\ pc = "requests" /\ requests' = cells
        /\ pc' = IF at > Cells THEN "done" ELSE "validate"
        /\ UNCHANGED <<config, at, summary, saved, cells, summaries, bounds>>
    BY <1>2 DEF RebuildRequests
  <2>2. at \in 1 .. Cells + 1 /\ Cells \in Nat \ {0}
    BY MatrixAssumption DEF MatrixInv, TypeOK
  <2>3. TypeOK' BY <2>1 DEF MatrixInv, TypeOK
  <2>4. OneConfiguration' BY <2>1 DEF MatrixInv, OneConfiguration
  <2>5. Progress' BY <2>1, <2>2 DEF MatrixInv, Progress, Running
  <2>6. FinishedMatrixIsWhole'
    <3>1. at > Cells => \A c \in Cell : c < at BY <2>2, FileFacts DEF MatrixInv
    <3> QED BY <2>1, <3>1 DEF MatrixInv, Progress, FinishedMatrixIsWhole, Running
  <2> QED BY <2>3, <2>4, <2>5, <2>6 DEF MatrixInv
<1> QED BY <1>1, <1>2

\* A measured cell is passed only if it is good.
LEMMA ValidateInv == MatrixInv /\ Validate => MatrixInv'
<1> SUFFICES ASSUME MatrixInv, Validate PROVE MatrixInv' OBVIOUS
<1>1. /\ pc = "validate" /\ UNCHANGED <<config, summary, disk, bounds>>
      /\ at <= Cells /\ summary \in Summary /\ cells[at] = summary
      /\ \/ Valid(summary) /\ at' = at + 1 /\ pc' = "cell"
         \/ pc' = "stopped" /\ at' = at
  BY DEF Validate, MatrixInv, Progress
<1>2. at \in 1 .. Cells /\ at \in Cell /\ Cells \in Nat \ {0}
  BY <1>1, MatrixAssumption DEF MatrixInv, TypeOK, Cell
<1>3. TypeOK' BY <1>1, <1>2 DEF MatrixInv, TypeOK, disk
<1>4. OneConfiguration' BY <1>1 DEF MatrixInv, OneConfiguration, disk
<1>5. Progress'
  <2>1. \A c \in Cell : c < at + 1 => c < at \/ c = at BY <1>2, FileFacts DEF MatrixInv
  <2>2. summary # Missing BY <1>1, <1>2, FileFacts DEF MatrixInv
  <2> QED BY <1>1, <2>1, <2>2 DEF MatrixInv, Progress, Running, disk
<1>6. FinishedMatrixIsWhole' BY <1>1 DEF FinishedMatrixIsWhole
<1> QED BY <1>3, <1>4, <1>5, <1>6 DEF MatrixInv

\* An empty directory.
LEMMA InitInv == Init => MatrixInv
<1> SUFFICES ASSUME Init PROVE MatrixInv OBVIOUS
<1>1. 1 \in 1 .. Cells + 1 BY MatrixAssumption
<1> QED BY <1>1 DEF Init, MatrixInv, TypeOK, CellFile, NoCells, OneConfiguration, Progress,
               FinishedMatrixIsWhole, Running

\* Crashes, restarts and the operator keep the invariant.
THEOREM MatrixInvariance == Spec => []MatrixInv
<1>1. MatrixInv /\ [Next]_vars => MatrixInv'
  <2> SUFFICES ASSUME MatrixInv, [Next]_vars PROVE MatrixInv' OBVIOUS
  <2>1. CASE UNCHANGED vars
    BY <2>1 DEF vars, MatrixInv, TypeOK, OneConfiguration, Progress, FinishedMatrixIsWhole, Running
  <2>2. CASE Work
    BY <2>2, ConfigInv, ResumeInv, MeasureInv, StoreInv, RebuildInv, ValidateInv DEF Work
  <2>3. CASE Next /\ ~Work
    BY <2>3, OutsideInv DEF Next
  <2> QED BY <2>1, <2>2, <2>3
<1> QED BY <1>1, InitInv, PTL DEF Spec

\* The variables keep their types.
THEOREM MatrixTypes == Spec => []TypeOK
<1>1. MatrixInv => TypeOK BY DEF MatrixInv
<1> QED BY <1>1, MatrixInvariance, PTL

(***************************************************************************)
(* Whatever crashes and restarts came before, a run that ends well leaves  *)
(* every cell valid and the aggregates equal to the cells.                 *)
(***************************************************************************)
THEOREM WholeMatrix == Spec => []FinishedMatrixIsWhole
<1>1. MatrixInv => FinishedMatrixIsWhole BY DEF MatrixInv
<1> QED BY <1>1, MatrixInvariance, PTL

(***************************************************************************)
(* No directory ever holds the cells of two configurations.                *)
(***************************************************************************)
THEOREM SingleConfiguration == Spec => []OneConfiguration
<1>1. MatrixInv => OneConfiguration BY DEF MatrixInv
<1> QED BY <1>1, MatrixInvariance, PTL

(***************************************************************************)
(* A valid cell is neither measured again nor lost.                        *)
(***************************************************************************)
THEOREM CellsAreKept == Spec => ValidCellsAreKept
<1> DEFINE Kept == \A c \in Cell : cells[c] # Missing /\ cells'[c] # cells[c]
                      => ~Valid(cells[c]) /\ cells'[c] = Missing
<1>1. MatrixInv /\ [Next]_vars => [Kept]_vars
  <2> SUFFICES ASSUME MatrixInv, Next PROVE Kept OBVIOUS
  <2>1. CASE Store
    <3>1. cells' = [cells EXCEPT ![at] = summary] /\ cells[at] = Missing
      BY <2>1 DEF Store, MatrixInv, Progress
    <3> QED BY <3>1 DEF MatrixInv, TypeOK, CellFile
  <2>2. ASSUME NEW c \in Cell, Quarantine(c) PROVE Kept
    BY <2>2 DEF Quarantine, MatrixInv, TypeOK, CellFile
  <2>3. CASE UNCHANGED cells BY <2>3
  <2>4. Store \/ (\E c \in Cell : Quarantine(c)) \/ UNCHANGED cells
    BY DEF Next, Work, Start, Crash, CheckConfig, Resume, Measure, RebuildSummaries,
           RebuildRequests, Validate, disk
  <2> QED BY <2>1, <2>2, <2>3, <2>4
<1> QED BY <1>1, MatrixInvariance, PTL DEF Spec, ValidCellsAreKept

-----------------------------------------------------------------------------
(* The capability stages. *)

CapabilityTypes ==
  /\ script \in {"run_all", "run_gpqa"}
  /\ stage \in {"idle", "probe", "catalog", "tasks", "access", "gpqa", "score",
                "aime", "audit", "rescore", "perf"}
  /\ todo \subseteq DOMAIN Candidates
  /\ failed \in BOOLEAN /\ exit \in {"none", "0", "1", "killed"}
  /\ runs \in 0 .. MaxRuns
  /\ results \in [Tasks -> Nat]
  /\ samples \in [Tasks -> Seq(Response)]
  /\ rescore \in 0 .. 1
  /\ audit \in [Tasks -> Nat]
  /\ robust \in [file : 0 .. 1, forced : {{}}]

\* The invocation has task t still to run.
Due(t) ==
  \/ stage \in {"probe", "catalog"}
  \/ stage = "tasks" /\ (t = Gpqa \/ \E i \in todo : Candidates[i] = t)
  \/ stage \in {"access", "gpqa"} /\ t = Gpqa

\* An invocation runs a task once; a score is of files that are there.
Counted ==
  /\ \A t \in Tasks :
       /\ Len(samples[t]) <= results[t] /\ results[t] <= runs
       /\ Due(t) => results[t] < runs
       /\ audit[t] <= Len(samples[t])
  /\ robust.file <= Len(samples[Gpqa])

AimeScored == Len(samples[Aime]) <= 1 /\ rescore = Len(samples[Aime])
Audited == (\A t \in Tasks : ToSet(samples[t]) \subseteq {"whole"}) /\ audit = Read
GpqaScored == Len(samples[Gpqa]) <= 1 /\ robust.file = Len(samples[Gpqa])

\* What is true as long as no stage has failed.
Scored ==
  /\ stage \in {"audit", "rescore", "perf"} => AimeScored
  /\ stage \in {"rescore", "perf"} => Audited
  /\ stage = "perf" => GpqaScored

\* A run of GPQA alone has its own stages; a status is of a run that is over.
Staged ==
  /\ script = "run_gpqa" => stage \in {"idle", "access", "gpqa", "score"}
  /\ stage # "idle" => exit = "none"

CapabilityInv ==
  CapabilityTypes /\ Counted /\ Staged /\ (~failed => Scored) /\ CleanExitIsReportable

LEMMA TaskFacts ==
  /\ Aime \in Tasks /\ Gpqa \in Tasks /\ Aime # Gpqa
  /\ \A i \in DOMAIN Candidates : Candidates[i] \in Tasks \ {Gpqa}
  /\ \A i, j \in DOMAIN Candidates : Candidates[i] = Candidates[j] => i = j
  /\ MaxRuns \in Nat
BY TaskAssumption DEF Tasks, ToSet, IsInjective

LEMMA CapabilityInit == CInit => CapabilityInv
<1> SUFFICES ASSUME CInit PROVE CapabilityInv OBVIOUS
<1>1. CapabilityTypes
  <2>1. robust \in [file : 0 .. 1, forced : {{}}] BY DEF CInit, NoScore
  <2>2. samples \in [Tasks -> Seq(Response)] BY DEF CInit
  <2>3. runs \in 0 .. MaxRuns BY TaskFacts DEF CInit
  <2>4. results \in [Tasks -> Nat] /\ audit \in [Tasks -> Nat] BY DEF CInit
  <2>5. todo \subseteq DOMAIN Candidates /\ rescore \in 0 .. 1 BY DEF CInit
  <2>6. failed \in BOOLEAN /\ exit = "none" BY DEF CInit
  <2>7. script = "run_all" /\ stage = "idle" BY DEF CInit
  <2> QED BY <2>1, <2>2, <2>3, <2>4, <2>5, <2>6, <2>7 DEF CapabilityTypes
<1>2. Counted
  <2>1. \A t \in Tasks : Len(samples[t]) = 0 /\ results[t] = 0 /\ audit[t] = 0 /\ runs = 0
    BY DEF CInit
  <2>2. \A t \in Tasks : ~Due(t) BY DEF CInit, Due
  <2> QED BY <2>1, <2>2, TaskFacts DEF Counted, CInit, NoScore
<1>3. Staged /\ (~failed => Scored) /\ CleanExitIsReportable
  BY DEF CInit, Staged, Scored, CleanExitIsReportable
<1> QED BY <1>1, <1>2, <1>3 DEF CapabilityInv

\* A step that writes nothing into the directory and makes no task due.
LEMMA NothingWritten ==
  ASSUME CapabilityInv, UNCHANGED <<files, scores>>,
         runs' \in 0 .. MaxRuns, runs <= runs',
         \A t \in Tasks : Due(t)' => Due(t) \/ runs < runs'
  PROVE  Counted'
<1>1. \A t \in Tasks : Len(samples[t]) \in Nat /\ results[t] \in Nat /\ runs \in Nat /\ runs' \in Nat
  BY TaskFacts DEF CapabilityInv, CapabilityTypes
<1>2. UNCHANGED <<results, samples, audit, robust>> BY DEF files, scores
<1>3. \A t \in Tasks : results[t] <= runs' /\ (Due(t)' => results[t] < runs')
  BY <1>1 DEF CapabilityInv, Counted
<1> QED BY <1>2, <1>3 DEF CapabilityInv, Counted

\* An invocation starts with everything to do.
LEMMA StartInv == CapabilityInv /\ (StartAll \/ StartGpqa) => CapabilityInv'
<1> SUFFICES ASSUME CapabilityInv, StartAll \/ StartGpqa PROVE CapabilityInv' OBVIOUS
<1>1. /\ runs < MaxRuns /\ runs' = runs + 1 /\ failed' = FALSE /\ exit' = "none"
      /\ \/ script' = "run_all" /\ stage' = "probe"
         \/ script' = "run_gpqa" /\ stage' = "access"
      /\ UNCHANGED <<todo, files, scores>>
  BY DEF StartAll, StartGpqa
<1>2. runs' \in 0 .. MaxRuns /\ runs < runs'
  BY <1>1, TaskFacts DEF CapabilityInv, CapabilityTypes
<1>3. CapabilityTypes'
  BY <1>1, <1>2 DEF CapabilityInv, CapabilityTypes, files, scores
<1>4. Counted'
  <2>1. runs <= runs' BY <1>2, TaskFacts DEF CapabilityInv, CapabilityTypes
  <2> QED BY <1>1, <1>2, <2>1, NothingWritten
<1>5. Staged' /\ Scored' /\ CleanExitIsReportable'
  BY <1>1 DEF Staged, Scored, CleanExitIsReportable
<1> QED BY <1>3, <1>4, <1>5 DEF CapabilityInv

\* The stages that only decide what comes next.
LEMMA ControlInv ==
  ASSUME CapabilityInv,
         \/ \E ok \in BOOLEAN : Probe(ok) \/ Perf(ok)
         \/ \E known \in SUBSET ToSet(Candidates) : Catalog(known)
         \/ \E answer \in {"granted", "disabled", "blocked", "error"} : Access(answer)
         \/ Kill
  PROVE  CapabilityInv'
<1>0. UNCHANGED <<script, runs, files, scores>>
  BY DEF Probe, Perf, Catalog, Access, Kill, Continue, End, GpqaEnds
<1>1. runs' \in 0 .. MaxRuns /\ runs <= runs'
  BY <1>0, TaskFacts DEF CapabilityInv, CapabilityTypes
<1>2. ASSUME NEW ok \in BOOLEAN, Probe(ok) PROVE CapabilityInv'
  <2>1. /\ stage = "probe" /\ todo' = todo
        /\ \/ stage' = "catalog" /\ exit' = exit
           \/ stage' = "idle" /\ exit' = "1"
        /\ failed' \in BOOLEAN
    BY <1>2 DEF Probe, Continue, End, CapabilityInv, CapabilityTypes
  <2>2. CapabilityTypes'
    BY <1>0, <2>1 DEF CapabilityInv, CapabilityTypes, files, scores
  <2>3. Counted'
    <3>1. \A t \in Tasks : Due(t)' => Due(t) BY <2>1 DEF Due
    <3> QED BY <1>0, <1>1, <3>1, NothingWritten
  <2>4. Staged' /\ Scored' /\ CleanExitIsReportable'
    BY <1>0, <2>1 DEF CapabilityInv, Staged, Scored, CleanExitIsReportable
  <2> QED BY <2>2, <2>3, <2>4 DEF CapabilityInv
<1>3. ASSUME NEW known \in SUBSET ToSet(Candidates), Catalog(known) PROVE CapabilityInv'
  <2>1. /\ stage = "catalog" /\ exit' = exit
        /\ todo' = {i \in DOMAIN Candidates : Candidates[i] \in known}
        /\ stage' \in {"access", "tasks"} /\ failed' \in BOOLEAN
    BY <1>3 DEF Catalog, CapabilityInv, CapabilityTypes
  <2>2. CapabilityTypes'
    BY <1>0, <2>1 DEF CapabilityInv, CapabilityTypes, files, scores
  <2>3. Counted'
    <3>1. \A t \in Tasks : Due(t)' => Due(t) BY <2>1 DEF Due
    <3> QED BY <1>0, <1>1, <3>1, NothingWritten
  <2>4. Staged' /\ Scored' /\ CleanExitIsReportable'
    BY <1>0, <2>1 DEF CapabilityInv, Staged, Scored, CleanExitIsReportable
  <2> QED BY <2>2, <2>3, <2>4 DEF CapabilityInv
<1>4. ASSUME NEW answer \in {"granted", "disabled", "blocked", "error"}, Access(answer)
      PROVE  CapabilityInv'
  <2>1. /\ stage = "access" /\ todo' = todo /\ failed' \in BOOLEAN
        /\ \/ stage' = "gpqa" /\ exit' = exit
           \/ stage' = "aime" /\ exit' = exit /\ script = "run_all"
           \/ stage' = "idle" /\ exit' \in {"0", "1"} /\ script # "run_all"
    BY <1>4 DEF Access, GpqaEnds, Continue, End, CapabilityInv, CapabilityTypes
  <2>2. CapabilityTypes'
    BY <1>0, <2>1 DEF CapabilityInv, CapabilityTypes, files, scores
  <2>3. Counted'
    <3>1. \A t \in Tasks : Due(t)' => Due(t) BY <2>1 DEF Due
    <3> QED BY <1>0, <1>1, <3>1, NothingWritten
  <2>4. Staged' /\ Scored' /\ CleanExitIsReportable'
    BY <1>0, <2>1 DEF CapabilityInv, Staged, Scored, CleanExitIsReportable
  <2> QED BY <2>2, <2>3, <2>4 DEF CapabilityInv
<1>5. ASSUME Kill \/ \E ok \in BOOLEAN : Perf(ok) PROVE CapabilityInv'
  <2>1. /\ stage' = "idle" /\ todo' = todo /\ failed' = failed
        /\ exit' \in {"0", "1", "killed"}
        /\ exit' = "0" => stage = "perf" /\ ~failed
    BY <1>5 DEF Kill, Perf, End
  <2>2. CapabilityTypes'
    BY <1>0, <2>1 DEF CapabilityInv, CapabilityTypes, files, scores
  <2>3. Counted'
    <3>1. \A t \in Tasks : Due(t)' => Due(t) BY <2>1 DEF Due
    <3> QED BY <1>0, <1>1, <3>1, NothingWritten
  <2>4. Staged' /\ Scored' BY <2>1 DEF Staged, Scored
  <2>5. CleanExitIsReportable'
    <3> SUFFICES ASSUME exit' = "0" PROVE AimeScored /\ Audited /\ GpqaScored
      BY <1>0 DEF CleanExitIsReportable, AimeScored, Audited, GpqaScored, Read, files, scores
    <3> QED BY <2>1 DEF CapabilityInv, Scored
  <2> QED BY <2>2, <2>3, <2>4, <2>5 DEF CapabilityInv
<1> QED BY <1>2, <1>3, <1>4, <1>5

\* A task's run adds its files; its scores are of files that were there before.
LEMMA EvaluatedOnce ==
  ASSUME CapabilityInv, NEW task \in Tasks, NEW wrote, NEW response \in Response,
         LmEval(task, wrote, response), UNCHANGED <<runs, scores>>,
         Due(task), \A t \in Tasks : Due(t)' => Due(t) /\ t # task
  PROVE  results' \in [Tasks -> Nat] /\ samples' \in [Tasks -> Seq(Response)] /\ Counted'
<1>1. /\ results \in [Tasks -> Nat] /\ samples \in [Tasks -> Seq(Response)] /\ runs \in Nat
      /\ audit \in [Tasks -> Nat] /\ robust.file \in Nat
  BY TaskFacts DEF CapabilityInv, CapabilityTypes
<1>2. /\ results' \in [Tasks -> Nat]
      /\ results'[task] = results[task] + (IF wrote # "nothing" THEN 1 ELSE 0)
      /\ \A t \in Tasks : t # task => results'[t] = results[t]
  BY <1>1 DEF LmEval
<1>3. /\ samples' \in [Tasks -> Seq(Response)]
      /\ samples'[task] = IF wrote = "both" THEN Append(samples[task], response)
                          ELSE samples[task]
      /\ \A t \in Tasks : t # task => samples'[t] = samples[t]
  <2>1. Append(samples[task], response) \in Seq(Response) BY <1>1
  <2> QED BY <1>1, <2>1 DEF LmEval
<1>4. Len(samples'[task]) = Len(samples[task]) + (IF wrote = "both" THEN 1 ELSE 0)
  BY <1>1, <1>3
<1>5. UNCHANGED <<audit, robust>> BY DEF scores
<1>6. \A t \in Tasks : Len(samples[t]) \in Nat /\ Len(samples'[t]) \in Nat BY <1>1, <1>3
<1>7. ASSUME NEW t \in Tasks
      PROVE  /\ Len(samples'[t]) <= results'[t] /\ results'[t] <= runs
             /\ Due(t)' => results'[t] < runs
             /\ audit[t] <= Len(samples'[t])
             /\ Len(samples[t]) <= Len(samples'[t])
  <2>1. /\ Len(samples[t]) <= results[t] /\ results[t] <= runs
        /\ Due(t) => results[t] < runs
        /\ audit[t] <= Len(samples[t])
    BY DEF CapabilityInv, Counted
  <2>2. CASE t = task
    <3>1. results[t] < runs /\ ~Due(t)' BY <2>1, <2>2
    <3> QED BY <1>1, <1>2, <1>4, <1>6, <2>1, <2>2, <3>1
  <2>3. CASE t # task BY <1>1, <1>2, <1>3, <1>6, <2>1, <2>3
  <2> QED BY <2>2, <2>3
<1>8. robust.file <= Len(samples'[Gpqa])
  BY <1>1, <1>6, <1>7, TaskFacts DEF CapabilityInv, Counted
<1> QED BY <1>2, <1>3, <1>5, <1>7, <1>8 DEF Counted

LEMMA RunTaskInv ==
  ASSUME CapabilityInv, NEW wrote, NEW response \in Response, RunTask(wrote, response)
  PROVE  CapabilityInv'
<1>1. PICK i \in todo : LmEval(Candidates[i], wrote, response) /\ todo' = todo \ {i}
  BY DEF RunTask
<1>2. /\ stage = "tasks" /\ stage' \in {"access", "tasks"} /\ failed' \in BOOLEAN
      /\ UNCHANGED <<script, exit, runs, scores>>
  BY DEF RunTask, CapabilityInv, CapabilityTypes
<1>3. /\ todo \subseteq DOMAIN Candidates /\ i \in DOMAIN Candidates
      /\ Candidates[i] \in Tasks /\ Candidates[i] # Gpqa
  BY <1>1, TaskFacts DEF CapabilityInv, CapabilityTypes
<1>4. Due(Candidates[i]) BY <1>1, <1>2 DEF Due
<1>5. \A t \in Tasks : Due(t)' => Due(t) /\ t # Candidates[i]
  BY <1>1, <1>2, <1>3, TaskFacts DEF Due
<1>6. results' \in [Tasks -> Nat] /\ samples' \in [Tasks -> Seq(Response)] /\ Counted'
  BY <1>1, <1>2, <1>3, <1>4, <1>5, EvaluatedOnce
<1>7. CapabilityTypes'
  BY <1>1, <1>2, <1>6 DEF CapabilityInv, CapabilityTypes, scores
<1>8. Staged' /\ Scored' /\ CleanExitIsReportable'
  BY <1>2 DEF CapabilityInv, Staged, Scored, CleanExitIsReportable
<1> QED BY <1>6, <1>7, <1>8 DEF CapabilityInv

LEMMA RunGpqaInv ==
  ASSUME CapabilityInv, NEW wrote, NEW response \in Response, RunGpqa(wrote, response)
  PROVE  CapabilityInv'
<1>1. /\ stage = "gpqa" /\ LmEval(Gpqa, wrote, response) /\ todo' = todo
      /\ UNCHANGED <<script, runs, scores>> /\ failed' \in BOOLEAN
      /\ \/ stage' = "score" /\ exit' = exit
         \/ stage' = "aime" /\ exit' = exit /\ script = "run_all"
         \/ stage' = "idle" /\ exit' \in {"0", "1"} /\ script # "run_all"
  BY DEF RunGpqa, GpqaEnds, Continue, End, CapabilityInv, CapabilityTypes
<1>2. Due(Gpqa) BY <1>1 DEF Due
<1>3. \A t \in Tasks : ~Due(t)' BY <1>1 DEF Due
<1>4. results' \in [Tasks -> Nat] /\ samples' \in [Tasks -> Seq(Response)] /\ Counted'
  BY <1>1, <1>2, <1>3, TaskFacts, EvaluatedOnce
<1>5. CapabilityTypes'
  BY <1>1, <1>4 DEF CapabilityInv, CapabilityTypes, scores
<1>6. Staged' /\ Scored' /\ CleanExitIsReportable'
  BY <1>1 DEF CapabilityInv, Staged, Scored, CleanExitIsReportable
<1> QED BY <1>4, <1>5, <1>6 DEF CapabilityInv

\* A step that writes scores, of files that are there, and makes no task due.
LEMMA ScoresWritten ==
  ASSUME CapabilityInv, UNCHANGED <<runs, files>>,
         \A t \in Tasks : Due(t)' => Due(t),
         \A t \in Tasks : audit'[t] <= Len(samples[t]),
         robust'.file <= Len(samples[Gpqa])
  PROVE  Counted'
BY DEF CapabilityInv, Counted, files

\* What a score of GPQA may become.
LEMMA RobustWritten ==
  ASSUME CapabilityInv, NEW sound \in BOOLEAN, WriteRobust(sound) \/ UNCHANGED robust
  PROVE  /\ robust' \in [file : 0 .. 1, forced : {{}}]
         /\ robust'.file <= Len(samples[Gpqa])
         /\ WriteRobust(sound) /\ Scorable /\ sound => Len(samples[Gpqa]) = 1 /\ robust'.file = 1
<1>1. /\ robust \in [file : 0 .. 1, forced : {{}}]
      /\ robust.file <= Len(samples[Gpqa])
  BY DEF CapabilityInv, CapabilityTypes, Counted
<1>2. CASE WriteRobust(sound) /\ Scorable /\ sound
  <2>1. Len(samples[Gpqa]) = 1 BY <1>2 DEF Scorable
  <2>2. robust' = [file |-> 1, forced |-> {}] BY <1>2, <2>1 DEF WriteRobust, StrictAudit
  <2> QED BY <2>1, <2>2
<1>3. CASE ~(WriteRobust(sound) /\ Scorable /\ sound)
  <2>1. robust' = robust BY <1>3 DEF WriteRobust
  <2> QED BY <1>1, <1>3, <2>1
<1> QED BY <1>2, <1>3

LEMMA ScoreGpqaInv ==
  ASSUME CapabilityInv, NEW sound \in BOOLEAN, ScoreGpqa(sound)
  PROVE  CapabilityInv'
<1>1. /\ stage = "score" /\ todo' = todo /\ WriteRobust(sound) /\ failed' \in BOOLEAN
      /\ UNCHANGED <<script, runs, files, rescore, audit>>
      /\ \/ stage' = "aime" /\ exit' = exit /\ script = "run_all"
         \/ stage' = "idle" /\ exit' \in {"0", "1"} /\ script # "run_all"
  BY DEF ScoreGpqa, GpqaEnds, Continue, End, CapabilityInv, CapabilityTypes
<1>2. CapabilityTypes'
  BY <1>1, RobustWritten DEF CapabilityInv, CapabilityTypes, files
<1>3. Counted'
  <2>1. \A t \in Tasks : Due(t)' => Due(t) BY <1>1 DEF Due
  <2>2. \A t \in Tasks : audit'[t] <= Len(samples[t])
    BY <1>1 DEF CapabilityInv, Counted
  <2> QED BY <1>1, <2>1, <2>2, RobustWritten, ScoresWritten
<1>4. Staged' /\ Scored' /\ CleanExitIsReportable'
  BY <1>1 DEF CapabilityInv, Staged, Scored, CleanExitIsReportable
<1> QED BY <1>2, <1>3, <1>4 DEF CapabilityInv

\* One sample file is scored or fails, several are refused.
LEMMA RescoreAimeInv ==
  ASSUME CapabilityInv, NEW sound \in BOOLEAN, RescoreAime(sound)
  PROVE  CapabilityInv'
<1>1. /\ stage = "aime" /\ UNCHANGED <<script, runs, todo, exit, files, audit, robust>>
      /\ failed' \in BOOLEAN
  BY DEF RescoreAime, Continue, CapabilityInv, CapabilityTypes
<1>2. \/ stage' = "perf" /\ failed' /\ rescore' = rescore
      \/ stage' = "audit" /\ Len(samples[Aime]) <= 1 /\ rescore' = Len(samples[Aime])
  <2>1. Len(samples[Aime]) \in Nat BY TaskFacts DEF CapabilityInv, CapabilityTypes
  <2> DEFINE fails == Len(samples[Aime]) > 1 \/ (Len(samples[Aime]) = 1 /\ ~ sound)
  <2>2. CASE fails BY <2>2 DEF RescoreAime, Continue
  <2>3. CASE ~ fails BY <2>1, <2>3 DEF RescoreAime, Continue
  <2> QED BY <2>2, <2>3
<1>3. rescore' \in 0 .. 1
  BY <1>2, TaskFacts DEF CapabilityInv, CapabilityTypes
<1>4. CapabilityTypes'
  BY <1>1, <1>2, <1>3 DEF CapabilityInv, CapabilityTypes, files
<1>5. Counted'
  <2>1. \A t \in Tasks : Due(t)' => Due(t) BY <1>1, <1>2 DEF Due
  <2> QED BY <1>1, <2>1, ScoresWritten DEF CapabilityInv, Counted
<1>6. Staged' /\ CleanExitIsReportable'
  BY <1>1, <1>2 DEF CapabilityInv, Staged, CleanExitIsReportable
<1>7. ~failed' => Scored'
  BY <1>1, <1>2 DEF Scored, AimeScored, files
<1> QED BY <1>4, <1>5, <1>6, <1>7 DEF CapabilityInv

\* With no sample file the last audit, if there was one, read none.
LEMMA AuditInv ==
  ASSUME CapabilityInv, NEW answers \in BOOLEAN, Audit(answers)
  PROVE  CapabilityInv'
<1>1. /\ stage = "audit" /\ UNCHANGED <<script, runs, todo, exit, files, rescore, robust>>
      /\ failed' \in BOOLEAN /\ stage' \in {"rescore", "perf"}
      /\ audit' = audit \/ audit' = Read
      /\ failed => failed'
  BY DEF Audit, Continue, CapabilityInv, CapabilityTypes
<1>2. /\ audit \in [Tasks -> Nat] /\ samples \in [Tasks -> Seq(Response)]
      /\ \A t \in Tasks : audit[t] <= Len(samples[t])
  BY DEF CapabilityInv, CapabilityTypes, Counted
<1>3. \A t \in Tasks : Len(samples[t]) \in Nat BY <1>2
<1>4. Read \in [Tasks -> Nat] /\ \A t \in Tasks : Read[t] = Len(samples[t])
  BY <1>3 DEF Read
<1>5. CapabilityTypes'
  BY <1>1, <1>4 DEF CapabilityInv, CapabilityTypes, files
<1>6. Counted'
  <2>1. \A t \in Tasks : Due(t)' => Due(t) BY <1>1 DEF Due
  <2>2. \A t \in Tasks : audit'[t] <= Len(samples[t]) BY <1>1, <1>2, <1>3, <1>4
  <2>3. robust'.file <= Len(samples[Gpqa]) BY <1>1 DEF CapabilityInv, Counted
  <2> QED BY <1>1, <2>1, <2>2, <2>3, ScoresWritten
<1>7. Staged' /\ CleanExitIsReportable'
  BY <1>1 DEF CapabilityInv, Staged, CleanExitIsReportable
<1>8. ASSUME ~failed' PROVE Scored'
  <2>1. AimeScored BY <1>1, <1>8 DEF CapabilityInv, Scored
  <2>2. stage' = "rescore" /\ (\A t \in Tasks : ToSet(samples[t]) \subseteq {"whole"})
        /\ audit' = Read
    <3>1. CASE NoSamples
      <4>1. stage' = "rescore" /\ audit' = audit BY <3>1 DEF Audit, Continue
      <4>2. \A t \in Tasks : Len(samples[t]) = 0 /\ ToSet(samples[t]) = {}
        BY <3>1 DEF NoSamples, ToSet
      <4>3. \A t \in Tasks : audit[t] = Read[t] BY <1>2, <1>4, <4>2
      <4>4. audit = Read BY <1>2, <1>4, <4>3
      <4> QED BY <4>1, <4>2, <4>4
    <3>2. CASE ~NoSamples /\ answers
      BY <1>8, <3>2 DEF Audit, Continue
    <3>3. CASE ~NoSamples /\ ~answers
      BY <1>8, <3>3 DEF Audit, Continue
    <3> QED BY <3>1, <3>2, <3>3
  <2>3. AimeScored' BY <1>1, <2>1 DEF AimeScored, files
  <2>4. Audited' BY <1>1, <2>2 DEF Audited, Read, files
  <2> QED BY <2>2, <2>3, <2>4 DEF Scored
<1> QED BY <1>5, <1>6, <1>7, <1>8 DEF CapabilityInv

LEMMA RescoreGpqaInv ==
  ASSUME CapabilityInv, NEW sound \in BOOLEAN, RescoreGpqa(sound)
  PROVE  CapabilityInv'
<1>1. /\ stage = "rescore" /\ UNCHANGED <<script, runs, todo, exit, files, rescore, audit>>
      /\ failed' \in BOOLEAN /\ stage' = "perf" /\ (WriteRobust(sound) \/ robust' = robust)
      /\ ~failed' => ~failed
  BY DEF RescoreGpqa, Continue, CapabilityInv, CapabilityTypes
<1>2. CapabilityTypes'
  BY <1>1, RobustWritten DEF CapabilityInv, CapabilityTypes, files
<1>3. Counted'
  <2>1. \A t \in Tasks : Due(t)' => Due(t) BY <1>1 DEF Due
  <2>2. \A t \in Tasks : audit'[t] <= Len(samples[t])
    BY <1>1 DEF CapabilityInv, Counted
  <2> QED BY <1>1, <2>1, <2>2, RobustWritten, ScoresWritten
<1>4. Staged' /\ CleanExitIsReportable'
  BY <1>1 DEF CapabilityInv, Staged, CleanExitIsReportable
<1>5. ASSUME ~failed' PROVE Scored'
  <2>1. AimeScored /\ Audited BY <1>1, <1>5 DEF CapabilityInv, Scored
  <2>2. AimeScored' /\ Audited' BY <1>1, <2>1 DEF AimeScored, Audited, Read, files
  <2>3. Len(samples[Gpqa]) <= 1 /\ robust'.file = Len(samples[Gpqa])
    <3>1. CASE Len(samples[Gpqa]) = 0
      <4>1. robust' = robust /\ robust.file \in 0 .. 1 /\ robust.file <= 0
        BY <3>1 DEF RescoreGpqa, CapabilityInv, CapabilityTypes, Counted
      <4> QED BY <3>1, <4>1
    <3>2. CASE Len(samples[Gpqa]) # 0
      <4>1. WriteRobust(sound) /\ Scorable /\ sound BY <1>5, <3>2 DEF RescoreGpqa, Continue
      <4> QED BY <4>1, RobustWritten
    <3> QED BY <3>1, <3>2
  <2>4. GpqaScored' BY <1>1, <2>3 DEF GpqaScored, files
  <2> QED BY <2>2, <2>4 DEF Scored
<1> QED BY <1>2, <1>3, <1>4, <1>5 DEF CapabilityInv

\* Every stage, start and kill keeps the invariant.
THEOREM CapabilityInvariance == CSpec => []CapabilityInv
<1>1. CapabilityInv /\ [CNext]_cvars => CapabilityInv'
  <2> SUFFICES ASSUME CapabilityInv, [CNext]_cvars PROVE CapabilityInv' OBVIOUS
  <2>1. CASE UNCHANGED cvars
    BY <2>1 DEF cvars, CapabilityInv, CapabilityTypes, Counted, Due, Staged, Scored,
                AimeScored, Audited, GpqaScored, Read, CleanExitIsReportable
  <2>2. CASE StartAll \/ StartGpqa BY <2>2, StartInv
  <2>3. CASE Stage
    BY <2>3, ControlInv, RunTaskInv, RunGpqaInv, ScoreGpqaInv, RescoreAimeInv, AuditInv,
       RescoreGpqaInv DEF Stage
  <2>4. CASE Kill BY <2>4, ControlInv
  <2> QED BY <2>1, <2>2, <2>3, <2>4 DEF CNext
<1> QED BY <1>1, CapabilityInit, PTL DEF CSpec

\* The stages and files are of the known kinds: no task ever has more files than
\* there were invocations.
THEOREM CapabilityTypeCorrect == CSpec => []CTypeOK
<1>1. CapabilityInv => CTypeOK
  <2> SUFFICES ASSUME CapabilityInv PROVE CTypeOK OBVIOUS
  <2>1. \A t \in Tasks : /\ results[t] \in 0 .. MaxRuns /\ Len(samples[t]) \in 0 .. MaxRuns
                         /\ audit[t] \in 0 .. MaxRuns
    BY TaskFacts DEF CapabilityInv, CapabilityTypes, Counted
  <2>2. \A t \in Tasks : samples[t] \in SeqOf(Response, MaxRuns)
    <3> SUFFICES ASSUME NEW t \in Tasks PROVE samples[t] \in SeqOf(Response, MaxRuns)
      OBVIOUS
    <3>1. samples[t] \in [1 .. Len(samples[t]) -> Response]
      BY DEF CapabilityInv, CapabilityTypes
    <3> QED BY <2>1, <3>1 DEF SeqOf
  <2>3. results \in [Tasks -> 0 .. MaxRuns] /\ audit \in [Tasks -> 0 .. MaxRuns]
    BY <2>1 DEF CapabilityInv, CapabilityTypes
  <2>4. robust.file \in 0 .. 1 /\ robust.forced = {} BY DEF CapabilityInv, CapabilityTypes
  <2> QED BY <2>2, <2>3, <2>4 DEF CTypeOK, CapabilityInv, CapabilityTypes
<1> QED BY <1>1, CapabilityInvariance, PTL

(***************************************************************************)
(* Whatever invocations failed or were killed in a directory, run_all.sh   *)
(* ends with 0 only when every sample file of it was audited and is whole  *)
(* and each score is of its task's one sample file.                        *)
(***************************************************************************)
THEOREM ExitIsHonest == CSpec => []CleanExitIsReportable
<1>1. CapabilityInv => CleanExitIsReportable BY DEF CapabilityInv
<1> QED BY <1>1, CapabilityInvariance, PTL
=============================================================================
