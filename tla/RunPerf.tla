------------------------------- MODULE RunPerf -------------------------------
(***************************************************************************)
(* The resumable throughput matrix (openai-compatible-suite/scripts/       *)
(* run_perf.py).  A run measures one cell after another and keeps each in  *)
(* a file of its own; two aggregate files are rebuilt from the cell files  *)
(* after every cell and at the end.  The process may die anywhere and be   *)
(* started again on the same directory, with the same or another           *)
(* configuration.  Every file is written beside its place and renamed, so  *)
(* a crash leaves the old file or the new one, and at most a .tmp file,    *)
(* which no reader matches.                                                *)
(***************************************************************************)
EXTENDS Integers

CONSTANTS
  Cells,      \* number of cells; 1 .. Cells in the order they are measured
  Configs,    \* run configurations: model, scenarios, reasoning effort, ...
  Requests,   \* requests per cell
  Missing,    \* "no such file"
  MaxCrashes, \* bound on crashes and server errors, for TLC
  MaxBad      \* bound on invalid measurements, for TLC

Summary == [config : Configs, successes : 0 .. Requests, exact : 0 .. Requests]

ASSUME MatrixAssumption ==
  /\ Cells \in Nat \ {0} /\ Requests \in Nat \ {0}
  /\ MaxCrashes \in Nat /\ MaxBad \in Nat
  /\ Missing \notin Configs \union Summary

VARIABLES
  pc,        \* what the process does next
  config,    \* the configuration it was started with
  at,        \* the cell it is at
  summary,   \* the cell it has just measured
  saved,     \* performance/run_config.json
  cells,     \* cells[c]: performance/cells/<scenario>_c<N>.json
  summaries, \* performance.json, by cell
  requests,  \* performance_requests.jsonl, by cell
  crashes, bad

disk == <<saved, cells, summaries, requests>>
bounds == <<crashes, bad>>
vars == <<pc, config, at, summary, saved, cells, summaries, requests, crashes, bad>>

-----------------------------------------------------------------------------
Cell == 1 .. Cells
NoCells == [c \in Cell |-> Missing]

\* validate_cell
Valid(s) == s.successes = Requests /\ s.exact = Requests

Init ==
  /\ pc = "stopped"
  /\ config \in Configs
  /\ at = 1
  /\ summary = Missing
  /\ saved = Missing
  /\ cells = NoCells
  /\ summaries = NoCells
  /\ requests = NoCells
  /\ crashes = 0
  /\ bad = 0

Start(c) ==
  /\ pc = "stopped"
  /\ config' = c
  /\ pc' = "config"
  /\ UNCHANGED <<at, summary, disk, bounds>>

\* Slips: cells are counted from 0; another configuration replaces the saved
\* one; a directory with a saved configuration is refused.
CheckConfigFromZero ==
  /\ pc = "config"
  /\ saved \in {Missing, config}
  /\ saved' = config
  /\ pc' = "cell" /\ at' = 0
  /\ UNCHANGED <<config, summary, cells, summaries, requests, bounds>>

CheckConfigReplaces ==
  /\ pc = "config"
  /\ saved' = config
  /\ pc' = "cell" /\ at' = 1
  /\ UNCHANGED <<config, summary, cells, summaries, requests, bounds>>

CheckConfigOnce ==
  /\ pc = "config"
  /\ saved' = IF saved = Missing THEN config ELSE saved
  /\ pc' = IF saved = Missing THEN "cell" ELSE "stopped"
  /\ at' = 1
  /\ UNCHANGED <<config, summary, cells, summaries, requests, bounds>>

\* The first run saves its configuration; later ones must have the same.
CheckConfig ==
  /\ pc = "config"
  /\ \/ /\ saved = Missing
        /\ saved' = config
        /\ pc' = "cell"
     \/ /\ saved = config
        /\ pc' = "cell"
        /\ UNCHANGED saved
     \/ /\ saved \notin {Missing, config}
        /\ pc' = "stopped"
        /\ UNCHANGED saved
  /\ at' = 1
  /\ UNCHANGED <<config, summary, cells, summaries, requests, bounds>>

\* Slip: whatever cell file is there counts as measured.
ResumeAnyCell ==
  /\ pc = "cell" /\ at <= Cells
  /\ cells[at] # Missing
  /\ at' = at + 1
  /\ UNCHANGED <<pc, config, summary, disk, bounds>>

\* A retained cell is not measured again; an invalid one is refused.
Resume ==
  /\ pc = "cell" /\ at <= Cells
  /\ cells[at] # Missing
  /\ IF Valid(cells[at])
     THEN at' = at + 1 /\ UNCHANGED pc
     ELSE pc' = "stopped" /\ UNCHANGED at
  /\ UNCHANGED <<config, summary, disk, bounds>>

\* Slip: a retained cell is measured again.
MeasureAgain(successes, exact) ==
  /\ pc = "cell" /\ at <= Cells
  /\ exact <= successes
  /\ summary' = [config |-> config, successes |-> successes, exact |-> exact]
  /\ IF Valid(summary') THEN UNCHANGED bad ELSE bad < MaxBad /\ bad' = bad + 1
  /\ pc' = "store"
  /\ UNCHANGED <<config, at, disk, crashes>>

\* All requests end, each with or without an answer of the exact length.
Measure(successes, exact) ==
  /\ pc = "cell" /\ at <= Cells
  /\ cells[at] = Missing
  /\ exact <= successes
  /\ summary' = [config |-> config, successes |-> successes, exact |-> exact]
  /\ IF Valid(summary') THEN UNCHANGED bad ELSE bad < MaxBad /\ bad' = bad + 1
  /\ pc' = "store"
  /\ UNCHANGED <<config, at, disk, crashes>>

Store ==
  /\ pc = "store"
  /\ cells' = [cells EXCEPT ![at] = summary]
  /\ pc' = "summaries"
  /\ UNCHANGED <<config, at, summary, saved, summaries, requests, bounds>>

\* rebuild_aggregates: one file, then the other.
RebuildSummaries ==
  /\ \/ pc = "summaries"
     \/ pc = "cell" /\ at > Cells
  /\ summaries' = cells
  /\ pc' = "requests"
  /\ UNCHANGED <<config, at, summary, saved, cells, requests, bounds>>

RebuildRequests ==
  /\ pc = "requests"
  /\ requests' = cells
  /\ pc' = IF at > Cells THEN "done" ELSE "validate"
  /\ UNCHANGED <<config, at, summary, saved, cells, summaries, bounds>>

Validate ==
  /\ pc = "validate"
  /\ IF Valid(summary)
     THEN at' = at + 1 /\ pc' = "cell"
     ELSE pc' = "stopped" /\ UNCHANGED at
  /\ UNCHANGED <<config, summary, disk, bounds>>

\* Killed, or an exception: the server is gone, a prompt cannot be calibrated.
Crash ==
  /\ pc \notin {"stopped", "done"}
  /\ crashes < MaxCrashes
  /\ crashes' = crashes + 1
  /\ pc' = "stopped"
  /\ UNCHANGED <<config, at, summary, disk, bad>>

\* The operator moves an invalid cell away, as the error message asks.
Quarantine(c) ==
  /\ pc = "stopped"
  /\ cells[c] # Missing
  /\ ~ Valid(cells[c])
  /\ cells' = [cells EXCEPT ![c] = Missing]
  /\ UNCHANGED <<pc, config, at, summary, saved, summaries, requests, bounds>>

Work ==
  \/ CheckConfig
  \/ Resume
  \/ \E s, e \in 0 .. Requests : Measure(s, e)
  \/ Store \/ RebuildSummaries \/ RebuildRequests \/ Validate

Next ==
  \/ \E c \in Configs : Start(c)
  \/ Work
  \/ Crash
  \/ \E c \in Cell : Quarantine(c)

\* A started process runs on; the operator quarantines what the message names
\* and starts the process again with the saved configuration.
Fairness ==
  /\ WF_vars(Work)
  /\ \A c \in Cell : SF_vars(Quarantine(c))
  /\ SF_vars(\E c \in Configs : c = saved /\ Start(c))
  /\ WF_vars(\E c \in Configs : Start(c))

Spec == Init /\ [][Next]_vars /\ Fairness

-----------------------------------------------------------------------------
CellFile == [Cell -> Summary \union {Missing}]

\* A cell file or an aggregate holds whole summaries (atomic_json).
TypeOK ==
  /\ pc \in {"stopped", "config", "cell", "store", "summaries", "requests",
             "validate", "done"}
  /\ config \in Configs
  /\ at \in 1 .. Cells + 1
  /\ summary \in Summary \union {Missing}
  /\ saved \in Configs \union {Missing}
  /\ cells \in CellFile /\ summaries \in CellFile /\ requests \in CellFile

(***************************************************************************)
(* A run that ends well leaves a whole matrix: every cell is there and     *)
(* valid and both aggregates list exactly the cells on disk, whatever the  *)
(* runs before it left behind.                                             *)
(***************************************************************************)
FinishedMatrixIsWhole ==
  pc = "done" => /\ \A c \in Cell : cells[c] # Missing /\ Valid(cells[c])
                 /\ summaries = cells
                 /\ requests = cells

(***************************************************************************)
(* All cells of a directory were measured under its one saved              *)
(* configuration, however often runs died and were started with another.   *)
(***************************************************************************)
OneConfiguration ==
  \A c \in Cell :
    /\ cells[c] # Missing => cells[c].config = saved
    /\ summaries[c] # Missing => summaries[c].config = saved

(***************************************************************************)
(* A valid cell is never measured again and never lost ("rerunning with    *)
(* the same RUN_DIR resumes completed cells", README.md).                  *)
(***************************************************************************)
ValidCellsAreKept ==
  [][\A c \in Cell : cells[c] # Missing /\ cells'[c] # cells[c]
       => ~ Valid(cells[c]) /\ cells'[c] = Missing]_vars

(***************************************************************************)
(* Crashes and invalid measurements that end let the matrix be finished:   *)
(* no file left behind makes every later run refuse to go on.              *)
(***************************************************************************)
MatrixIsFinished == <>(pc = "done")

(***************************************************************************)
(* An invalid cell is kept out of the aggregates ("move it to a quarantine *)
(* directory before a clean rerun rather than silently mixing it into      *)
(* valid aggregates", README.md).  The code rebuilds the aggregates before *)
(* it validates the cell.                                                  *)
(***************************************************************************)
AggregatesHoldValidCells ==
  \A c \in Cell : summaries[c] # Missing => Valid(summaries[c])
=============================================================================
