------------------------------ MODULE Capability ------------------------------
(***************************************************************************)
(* The capability stages of the benchmark suite (openai-compatible-suite:  *)
(* run_all.sh, scripts/run_lm_eval.sh, run_gpqa.sh,                        *)
(* postprocess_capability.sh, score_gpqa_robust.py) over one RUN_DIR that  *)
(* several invocations may share.  A failed stage is remembered, later     *)
(* stages run on what is there, and the exit status tells the reader       *)
(* whether the scores in the directory may be reported.  Each lm-eval run  *)
(* adds files of its own: nothing in the scripts removes one.              *)
(***************************************************************************)
EXTENDS Integers, SequencesExt

CONSTANTS
  Candidates, \* EVAL_TASKS, a sequence of task names
  Aime, Gpqa, \* the tasks with a scorer of their own
  MaxRuns     \* bound on invocations, for TLC

ASSUME TaskAssumption ==
  /\ IsInjective(Candidates)
  /\ Aime # Gpqa /\ Gpqa \notin ToSet(Candidates)
  /\ MaxRuns \in Nat

VARIABLES
  script,  \* the invocation: run_all.sh or, on its own, run_gpqa.sh
  stage,   \* its stage
  todo,    \* the candidates run_lm_eval.sh has still to run, by their places
  failed,  \* capability_failed
  exit,    \* status of the last invocation
  results, \* results[t]: number of results_*.json files of task t
  samples, \* samples[t]: samples_*.jsonl files of t, each "whole", "capped" or "null"
  rescore, \* aime_rescore.json: number of the sample file it scores, or 0
  audit,   \* capability_output_audit.json: number of files read of each task
  robust,  \* gpqa_score_robust_aa_v1.json: sample file, and what it forces
  runs     \* invocations so far

process == <<script, stage, todo, failed, exit, runs>>
files == <<results, samples>>
scores == <<rescore, audit, robust>>
cvars == <<script, stage, todo, failed, exit, results, samples, rescore, audit, robust, runs>>

-----------------------------------------------------------------------------
Tasks == ToSet(Candidates) \union {Aime, Gpqa}
Response == {"whole", "capped", "null"}
NoScore == [file |-> 0, forced |-> {}]
Read == [t \in Tasks |-> Len(samples[t])]
NoSamples == \A t \in Tasks : samples[t] = <<>>

CInit ==
  /\ script = "run_all" /\ stage = "idle" /\ todo = {}
  /\ failed = FALSE /\ exit = "none" /\ runs = 0
  /\ results = [t \in Tasks |-> 0]
  /\ samples = [t \in Tasks |-> <<>>]
  /\ rescore = 0
  /\ audit = [t \in Tasks |-> 0]
  /\ robust = NoScore

\* The stage after this one, and whether this one failed.
Continue(next, ok) ==
  /\ stage' = next
  /\ failed' = (failed \/ ~ ok)
  /\ UNCHANGED <<script, todo, exit, runs>>

End(status) ==
  /\ stage' = "idle"
  /\ exit' = status
  /\ UNCHANGED <<script, todo, failed, runs>>

StartAll ==
  /\ stage = "idle" /\ runs < MaxRuns
  /\ script' = "run_all" /\ stage' = "probe"
  /\ failed' = FALSE /\ exit' = "none" /\ runs' = runs + 1
  /\ UNCHANGED <<todo, files, scores>>

\* "Rerun scripts/run_gpqa.sh with the same RUN_DIR after access is granted."
StartGpqa ==
  /\ stage = "idle" /\ runs < MaxRuns
  /\ script' = "run_gpqa" /\ stage' = "access"
  /\ failed' = FALSE /\ exit' = "none" /\ runs' = runs + 1
  /\ UNCHANGED <<todo, files, scores>>

\* set -e: without an endpoint nothing else runs.
Probe(ok) ==
  /\ stage = "probe"
  /\ IF ok THEN Continue("catalog", TRUE) ELSE End("1")
  /\ UNCHANGED <<files, scores>>

\* Tasks the harness does not know are skipped; none left is an error.
Catalog(known) ==
  /\ stage = "catalog"
  /\ todo' = {i \in DOMAIN Candidates : Candidates[i] \in known}
  /\ IF todo' = {}
     THEN stage' = "access" /\ failed' = TRUE
     ELSE stage' = "tasks" /\ UNCHANGED failed
  /\ UNCHANGED <<script, exit, runs, files, scores>>

\* lm-eval writes the results of task t, then its samples, unless it fails.
LmEval(t, wrote, response) ==
  /\ results' = [results EXCEPT ![t] = @ + (IF wrote # "nothing" THEN 1 ELSE 0)]
  /\ samples' = [samples EXCEPT ![t] = IF wrote = "both" THEN Append(@, response) ELSE @]

\* The tasks run in order.  A failed one does not keep the next from running.
RunTask(wrote, response) ==
  /\ stage = "tasks"
  /\ \E i \in todo :
       /\ \A j \in todo : i <= j
       /\ LmEval(Candidates[i], wrote, response)
       /\ todo' = todo \ {i}
  /\ failed' = (failed \/ wrote # "both")
  /\ stage' = IF todo' = {} THEN "access" ELSE "tasks"
  /\ UNCHANGED <<script, exit, runs, scores>>

\* run_gpqa.sh is over: run_all.sh goes on, a run of its own ends.
GpqaEnds(ok) ==
  IF script = "run_all" THEN Continue("aime", ok) ELSE End(IF ok THEN "0" ELSE "1")

\* GPQA disabled and BLOCKED both count as success.
Access(answer) ==
  /\ stage = "access"
  /\ IF answer = "granted" THEN Continue("gpqa", TRUE)
     ELSE GpqaEnds(answer \in {"disabled", "blocked"})
  /\ UNCHANGED <<files, scores>>

RunGpqa(wrote, response) ==
  /\ stage = "gpqa"
  /\ LmEval(Gpqa, wrote, response)
  /\ IF wrote = "both" THEN Continue("score", TRUE) ELSE GpqaEnds(FALSE)
  /\ UNCHANGED scores

\* strict_audit.json: nothing in the suite writes it.
StrictAudit == {}

\* score_run needs one GPQA sample file and one results file of any task, GPQA's;
\* a null response is not a string.  What the lines of the files may be beyond
\* that (no JSON, one document twice, fewer of them than results) is the choice
\* of "sound".
Scorable ==
  /\ Len(samples[Gpqa]) = 1
  /\ results[Gpqa] = 1 /\ \A t \in Tasks \ {Gpqa} : results[t] = 0
  /\ samples[Gpqa][1] # "null"

\* Of its three files the one with the score and what was forced; the others
\* repeat a part of it.
WriteRobust(sound) ==
  robust' = IF Scorable /\ sound THEN [file |-> Len(samples[Gpqa]), forced |-> StrictAudit]
            ELSE robust

ScoreGpqa(sound) ==
  /\ stage = "score"
  /\ WriteRobust(sound)
  /\ GpqaEnds(Scorable /\ sound)
  /\ UNCHANGED <<files, rescore, audit>>

\* Slips: the last of several sample files is scored; a refusal ends run_all.sh.
RescoreAimeLast(sound) ==
  /\ stage = "aime"
  /\ Continue("audit", TRUE) /\ rescore' = Len(samples[Aime])
  /\ UNCHANGED <<files, audit, robust>>

RescoreAimeOrEnd(sound) ==
  /\ stage = "aime"
  /\ IF Len(samples[Aime]) > 1 \/ (Len(samples[Aime]) = 1 /\ ~ sound)
     THEN End("1") /\ UNCHANGED rescore
     ELSE Continue("audit", TRUE) /\ rescore' = Len(samples[Aime])
  /\ UNCHANGED <<files, audit, robust>>

\* postprocess_capability.sh, under set -e: AIME first.  More than one sample file
\* is refused, and score_aime.py ends on a line that is no sample.
RescoreAime(sound) ==
  /\ stage = "aime"
  /\ IF Len(samples[Aime]) > 1 \/ (Len(samples[Aime]) = 1 /\ ~ sound)
     THEN Continue("perf", FALSE) /\ UNCHANGED rescore
     ELSE Continue("audit", TRUE) /\ rescore' = Len(samples[Aime])
  /\ UNCHANGED <<files, audit, robust>>

\* Slip: the audit writes its report and ends well whatever it found.
AuditReports(answers) ==
  /\ stage = "audit"
  /\ \/ /\ NoSamples \/ answers
        /\ Continue("rescore", TRUE)
        /\ audit' = Read
     \/ /\ ~ NoSamples /\ ~ answers
        /\ Continue("perf", FALSE)
        /\ UNCHANGED audit
  /\ UNCHANGED <<files, rescore, robust>>

\* The audit reads every sample file; it needs the endpoint to count tokens.
Audit(answers) ==
  /\ stage = "audit"
  /\ \/ /\ NoSamples
        /\ Continue("rescore", TRUE)
        /\ UNCHANGED audit
     \/ /\ ~ NoSamples /\ answers
        /\ audit' = Read
        /\ IF \A t \in Tasks : ToSet(samples[t]) \subseteq {"whole"}
           THEN Continue("rescore", TRUE) ELSE Continue("perf", FALSE)
     \/ /\ ~ NoSamples /\ ~ answers
        /\ Continue("perf", FALSE)
        /\ UNCHANGED audit
  /\ UNCHANGED <<files, rescore, robust>>

RescoreGpqa(sound) ==
  /\ stage = "rescore"
  /\ IF Len(samples[Gpqa]) = 0
     THEN Continue("perf", TRUE) /\ UNCHANGED robust
     ELSE Continue("perf", Scorable /\ sound) /\ WriteRobust(sound)
  /\ UNCHANGED <<files, rescore, audit>>

\* run_perf.py; then the remembered failure decides.
Perf(ok) ==
  /\ stage = "perf"
  /\ End(IF ok /\ ~ failed THEN "0" ELSE "1")
  /\ UNCHANGED <<files, scores>>

Kill ==
  /\ stage # "idle"
  /\ End("killed")
  /\ UNCHANGED <<files, scores>>

Stage ==
  \/ \E ok \in BOOLEAN :
       \/ Probe(ok) \/ Audit(ok) \/ Perf(ok)
       \/ ScoreGpqa(ok) \/ RescoreAime(ok) \/ RescoreGpqa(ok)
  \/ \E known \in SUBSET ToSet(Candidates) : Catalog(known)
  \/ \E wrote \in {"nothing", "results", "both"}, r \in Response :
       RunTask(wrote, r) \/ RunGpqa(wrote, r)
  \/ \E answer \in {"granted", "disabled", "blocked", "error"} : Access(answer)

CNext == StartAll \/ StartGpqa \/ Stage \/ Kill

CSpec == CInit /\ [][CNext]_cvars /\ WF_cvars(Stage)

-----------------------------------------------------------------------------
\* The stages and the files of the run directory are of the known kinds.
CTypeOK ==
  /\ script \in {"run_all", "run_gpqa"}
  /\ stage \in {"idle", "probe", "catalog", "tasks", "access", "gpqa", "score",
                "aime", "audit", "rescore", "perf"}
  /\ todo \subseteq DOMAIN Candidates
  /\ failed \in BOOLEAN /\ exit \in {"none", "0", "1", "killed"}
  /\ results \in [Tasks -> 0 .. MaxRuns]
  /\ \A t \in Tasks : samples[t] \in SeqOf(Response, MaxRuns)
  /\ rescore \in 0 .. 1
  /\ audit \in [Tasks -> 0 .. MaxRuns]
  /\ robust.file \in 0 .. 1 /\ robust.forced = {}

(***************************************************************************)
(* run_all.sh exits with 0 only when the directory may be reported: the    *)
(* audit read every sample file and none is cut off or null, also those of *)
(* earlier invocations; AIME and GPQA have at most one sample file each    *)
(* and their score files were computed from it.                            *)
(***************************************************************************)
CleanExitIsReportable ==
  script = "run_all" /\ exit = "0" =>
    /\ \A t \in Tasks : ToSet(samples[t]) \subseteq {"whole"}
    /\ audit = Read
    /\ Len(samples[Aime]) <= 1 /\ rescore = Len(samples[Aime])
    /\ Len(samples[Gpqa]) <= 1 /\ robust.file = Len(samples[Gpqa])

(***************************************************************************)
(* A capability failure in any stage does not keep run_all.sh from the     *)
(* performance stage; only a kill does.                                    *)
(***************************************************************************)
PerfIsReached ==
  (script = "run_all" /\ stage = "catalog") ~> (stage = "perf" \/ exit = "killed")

(***************************************************************************)
(* "Recompute after the strict audit so capped/null/empty GPQA outputs are *)
(* forced incorrect in the primary score" (postprocess_capability.sh).     *)
(* The audit writes another file than the one the scorer reads, and its    *)
(* failure ends the script before the recomputation.                       *)
(***************************************************************************)
CappedIsForcedIncorrect ==
  stage = "perf" /\ robust.file # 0 /\ samples[Gpqa][robust.file] = "capped"
    => robust.file \in robust.forced

(***************************************************************************)
(* "Rerun scripts/run_gpqa.sh with the same RUN_DIR after access is        *)
(* granted" (check_gpqa_access.py) gives the robust score: the first GPQA  *)
(* run that ends well in a directory whose AIME and IFEval runs are there. *)
(* score_run refuses a directory with the results of another task, however *)
(* sound the files are.                                                    *)
(***************************************************************************)
FirstGpqaRunIsScored ==
  [][ScoreGpqa(TRUE) /\ samples[Gpqa] = <<"whole">> /\ results[Gpqa] = 1
       => robust'.file = 1]_cvars
=============================================================================
