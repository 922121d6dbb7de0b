------------------------ MODULE SpecialistEvaluation ------------------------
(***************************************************************************)
(* The evaluation of the specialists (evals/run_specialist_quality.py): a  *)
(* run of the phase "reports" asks every specialist for a report on each   *)
(* case and has it reviewed; a run of the phase "synthesis" compares       *)
(* diagnoses made with chosen reports, and has each assessed.  Both save   *)
(* to a file after every SaveEvery results, may be killed or raise at any  *)
(* point, and may be run again, with another limit on the cases.  A        *)
(* synthesis run uses again what the file holds for the same prompt.       *)
(*                                                                         *)
(* A file is written to a temporary one and renamed, so it is old or new.  *)
(* The calls of a phase are in flight together and end in any order; which *)
(* of them hold the semaphore is not visible in what ends next.  A prompt  *)
(* is the case and the reports in it.  Scores, summaries of scores and the *)
(* deterministic checks kept beside a diagnosis are left out.              *)
(***************************************************************************)
EXTENDS Naturals, Sequences, FiniteSets, Functions

CONSTANTS
  Cases,          \* the golden cases, in order
  Specialists,    \* EXPERTS, in order
  RequiredRoles,  \* RequiredRoles[c]: the experts the labels require of case c
  Variants,       \* the comparisons made of each case
  SaveEvery,      \* results between two saves (8)
  MaxReportRuns,  \* bounds the runs of the phase "reports"
  MaxSyntheses    \* bounds the runs of the phase "synthesis"

Roles == Range(Specialists)
AllVariants == {"reports_omitted", "relevant_reports", "one_irrelevant_report",
                "relevant_plus_stale_report"}

ASSUME EvaluationAssumption ==
  /\ Cases \in Seq(Range(Cases))
  /\ Specialists \in Seq(Roles) /\ Specialists # <<>>
  /\ RequiredRoles \in [Range(Cases) -> SUBSET Roles]
  /\ Variants \subseteq AllVariants
  /\ SaveEvery \in Nat \ {0}
  /\ MaxReportRuns \in Nat /\ MaxSyntheses \in Nat

VARIABLES
  reportsFile,   \* REPORTS_PATH: its cases, the run that wrote it and the reports in it
  comparisons,   \* SYNTHESIS_PATH: its status and its results
  evaluation,    \* what the running process holds
  syntheses      \* how many synthesis runs have been started

evaluationVars == <<reportsFile, comparisons, evaluation, syntheses>>

NoResults == <<>>
IdleProcess == [phase |-> "idle", done |-> {}, plan |-> NoResults, results |-> NoResults,
                assessed |-> {}]

EvaluationInit ==
  /\ reportsFile = [cases |-> 0, run |-> 0, reports |-> {}]
  /\ comparisons = [status |-> "none", results |-> NoResults]
  /\ evaluation = IdleProcess
  /\ syntheses = 0

AtSave(n) == n % SaveEvery = 0

(* What a judge's answer becomes: valid, or something is missing in it.    *)
Grades == {"valid", "warned"}

-----------------------------------------------------------------------------
(* The phase "reports".                                                    *)

Jobs == {Cases[i] : i \in 1..reportsFile.cases} \X Roles

(* The file of an earlier run is replaced, before any report is made.      *)
StartReports(limit) ==
  /\ evaluation.phase = "idle"
  /\ reportsFile.run < MaxReportRuns
  /\ reportsFile' = [cases |-> limit, run |-> reportsFile.run + 1, reports |-> {}]
  /\ evaluation' = [IdleProcess EXCEPT !.phase = "reporting"]
  /\ UNCHANGED <<comparisons, syntheses>>

(* A report is made; after the last all are saved and the reviews begin.   *)
Investigate(job) ==
  /\ evaluation.phase = "reporting"
  /\ job \in Jobs \ evaluation.done
  /\ LET done == evaluation.done \cup {job} IN
       /\ evaluation' = IF done = Jobs
                        THEN [evaluation EXCEPT !.phase = "reviewing", !.done = {}]
                        ELSE [evaluation EXCEPT !.done = done]
       /\ reportsFile' = IF done = Jobs \/ AtSave(Cardinality(done))
                         THEN [reportsFile EXCEPT !.reports = done]
                         ELSE reportsFile
  /\ UNCHANGED <<comparisons, syntheses>>

(* A report is reviewed, whatever the judge answers.  Until the last one,  *)
(* a save keeps only the reports that are reviewed.                        *)
Review(job) ==
  /\ evaluation.phase = "reviewing"
  /\ job \in Jobs \ evaluation.done
  /\ LET done == evaluation.done \cup {job} IN
       /\ evaluation' = IF done = Jobs THEN IdleProcess
                        ELSE [evaluation EXCEPT !.done = done]
       /\ reportsFile' = IF done = Jobs \/ AtSave(Cardinality(done))
                         THEN [reportsFile EXCEPT !.reports = done]
                         ELSE reportsFile
  /\ UNCHANGED <<comparisons, syntheses>>

-----------------------------------------------------------------------------
(* The phase "synthesis".                                                  *)

(* Where the roles are in the order of EXPERTS, and the first of them, or  *)
(* of all if none is given.                                                *)
Places(roles) == {n \in DOMAIN Specialists : Specialists[n] \in roles}

FirstRole(roles) ==
  LET among == Places(IF roles = {} THEN Roles ELSE roles) IN
  Specialists[CHOOSE n \in among : \A o \in among : n <= o]

(* The reports that go into each variant of the i-th of m cases: a stale   *)
(* one is the next case's, the last case's next is the first.  The cases   *)
(* take turns with the specialists that are not required.                  *)
Relevant(i) == {Cases[i]} \X RequiredRoles[Cases[i]]
Irrelevant(i) ==
  LET others == Places(Roles \ RequiredRoles[Cases[i]])
      turn == (i - 1) % Cardinality(others)
      chosen == {n \in others : Cardinality({o \in others : o < n}) = turn} IN
  {<<Cases[i], Specialists[n]>> : n \in chosen}
Stale(i, m) == {<<Cases[(i % m) + 1], FirstRole(RequiredRoles[Cases[i]])>>}

Reports(i, m, variant) ==
  [included |-> CASE variant = "reports_omitted" -> {}
                  [] variant = "one_irrelevant_report" -> Irrelevant(i)
                  [] OTHER -> Relevant(i),
   stale |-> IF variant = "relevant_plus_stale_report" THEN Stale(i, m) ELSE {}]

(* The prompt names the case and quotes the reports: other reports, or     *)
(* the reports of another run, make another prompt.                        *)
Prompt(i, m, variant) ==
  LET reports == Reports(i, m, variant) IN
  [of |-> Cases[i], reports |-> reports,
   run |-> IF reports.included \cup reports.stale = {} THEN 0 ELSE reportsFile.run]

(* Every comparison of the first m cases, and what is needed for them.     *)
Plan(m) ==
  [k \in {Cases[i] : i \in 1..m} \X Variants |->
     Prompt(CHOOSE i \in 1..m : Cases[i] = k[1], m, k[2])]

ReportsNeeded(m) ==
  UNION {Relevant(i) \cup Irrelevant(i) \cup Stale(i, m) : i \in 1..m}

(* Results the file holds for the same comparison and the same prompt.     *)
ReusableByCase(plan) ==   \* mutant: the prompt is not compared
  {k \in DOMAIN comparisons.results \cap DOMAIN plan : TRUE}
Reusable(plan) ==
  {k \in DOMAIN comparisons.results \cap DOMAIN plan : comparisons.results[k].prompt = plan[k]}

ValidOnes(results) == {k \in DOMAIN results : results[k].grade = "valid"}

FinalStatus(results) ==
  IF ValidOnes(results) = DOMAIN results THEN "complete"
  ELSE "complete_with_assessment_warnings"

(* Once every comparison has a result, those without a valid assessment    *)
(* are to be assessed; when none is left the comparisons are complete.     *)
Generated(plan, results) ==
  LET valid == ValidOnes(results) IN
  IF valid = DOMAIN results
  THEN /\ evaluation' = [phase |-> "finished", done |-> {}, plan |-> plan,
                         results |-> results, assessed |-> valid]
       /\ comparisons' = [status |-> FinalStatus(results), results |-> results]
  ELSE /\ evaluation' = [phase |-> "assessing", done |-> {}, plan |-> plan,
                         results |-> results, assessed |-> valid]
       /\ comparisons' = [status |-> "awaiting_assessment", results |-> results]

(* A run is planned from the file of the reports, which must have every    *)
(* report needed, for two cases or more.                                   *)
StartSynthesis(limit) ==
  LET m == IF limit < reportsFile.cases THEN limit ELSE reportsFile.cases
      plan == Plan(m)
      kept == Reusable(plan)
      results == [k \in kept |-> comparisons.results[k]] IN
  /\ evaluation.phase = "idle"
  /\ syntheses < MaxSyntheses
  /\ m >= 2
  /\ ReportsNeeded(m) \subseteq reportsFile.reports
  /\ syntheses' = syntheses + 1
  /\ IF kept = DOMAIN plan
     THEN Generated(plan, results)
     ELSE /\ evaluation' = [phase |-> "generating", done |-> {}, plan |-> plan,
                            results |-> results, assessed |-> {}]
          /\ UNCHANGED comparisons
  /\ UNCHANGED reportsFile

(* A diagnosis is made for comparison k.                                   *)
Synthesize(k) ==
  /\ evaluation.phase = "generating"
  /\ k \in DOMAIN evaluation.plan \ DOMAIN evaluation.results
  /\ LET made == [prompt |-> evaluation.plan[k], response |-> syntheses, grade |-> "none"]
         results == [j \in DOMAIN evaluation.results \cup {k} |->
                       IF j = k THEN made ELSE evaluation.results[j]] IN
       IF DOMAIN results = DOMAIN evaluation.plan
       THEN Generated(evaluation.plan, results)
       ELSE /\ evaluation' = [evaluation EXCEPT !.results = results]
            /\ comparisons' = IF AtSave(Cardinality(DOMAIN results))
                              THEN [status |-> "generating", results |-> results]
                              ELSE comparisons
  /\ UNCHANGED <<reportsFile, syntheses>>

(* The diagnosis of k is assessed: the judge's answer is valid or not.     *)
(* What is saved on the way has the results not yet assessed as well.      *)
AssessDroppingRest(k, grade) ==   \* mutant: saves as Review does
  /\ evaluation.phase = "assessing"
  /\ k \in DOMAIN evaluation.results \ evaluation.assessed
  /\ LET results == [evaluation.results EXCEPT ![k].grade = grade]
         assessed == evaluation.assessed \cup {k} IN
       IF assessed = DOMAIN results
       THEN /\ evaluation' = [evaluation EXCEPT !.phase = "finished", !.results = results,
                                                !.assessed = assessed]
            /\ comparisons' = [status |-> FinalStatus(results), results |-> results]
       ELSE /\ evaluation' = [evaluation EXCEPT !.results = results, !.assessed = assessed]
            /\ comparisons' = IF AtSave(Cardinality(assessed))
                              THEN [status |-> "in_progress",
                                    results |-> Restrict(results, assessed)]
                              ELSE comparisons
  /\ UNCHANGED <<reportsFile, syntheses>>

Assess(k, grade) ==
  /\ evaluation.phase = "assessing"
  /\ k \in DOMAIN evaluation.results \ evaluation.assessed
  /\ LET results == [evaluation.results EXCEPT ![k].grade = grade]
         assessed == evaluation.assessed \cup {k} IN
       IF assessed = DOMAIN results
       THEN /\ evaluation' = [evaluation EXCEPT !.phase = "finished", !.results = results,
                                                !.assessed = assessed]
            /\ comparisons' = [status |-> FinalStatus(results), results |-> results]
       ELSE /\ evaluation' = [evaluation EXCEPT !.results = results, !.assessed = assessed]
            /\ comparisons' = IF AtSave(Cardinality(assessed))
                              THEN [status |-> "in_progress", results |-> results]
                              ELSE comparisons
  /\ UNCHANGED <<reportsFile, syntheses>>

-----------------------------------------------------------------------------
(* A process ends: it has finished, a call in it raised, or it was killed. *)
EndProcess ==
  /\ evaluation.phase # "idle"
  /\ evaluation' = IdleProcess
  /\ UNCHANGED <<reportsFile, comparisons, syntheses>>

Comparisons == Range(Cases) \X Variants

EvaluationNext ==
  \/ \E limit \in DOMAIN Cases : StartReports(limit)
  \/ \E job \in Range(Cases) \X Roles : Investigate(job)
  \/ \E job \in Range(Cases) \X Roles : Review(job)
  \/ \E limit \in DOMAIN Cases : StartSynthesis(limit)
  \/ \E k \in Comparisons : Synthesize(k)
  \/ \E k \in Comparisons, grade \in Grades : Assess(k, grade)
  \/ EndProcess

EvaluationSpec == EvaluationInit /\ [][EvaluationNext]_evaluationVars

-----------------------------------------------------------------------------

(* The files and the process hold results of the comparisons they are of.  *)
PromptsOf(k) ==
  [of : {k[1]},
   reports : [included : SUBSET (Range(Cases) \X Roles), stale : SUBSET (Range(Cases) \X Roles)],
   run : 0..MaxReportRuns]

IsResults(results) ==
  /\ DOMAIN results \subseteq Comparisons
  /\ \A k \in DOMAIN results :
       /\ results[k].prompt \in PromptsOf(k)
       /\ results[k].response \in 1..syntheses
       /\ results[k].grade \in Grades \cup {"none"}

EvaluationTypeOK ==
  /\ reportsFile.cases \in 0..Len(Cases)
  /\ reportsFile.run \in 0..MaxReportRuns
  /\ reportsFile.reports \subseteq Jobs
  /\ comparisons.status \in {"none", "generating", "awaiting_assessment", "in_progress",
                             "complete", "complete_with_assessment_warnings"}
  /\ IsResults(comparisons.results)
  /\ evaluation.phase \in {"idle", "reporting", "reviewing", "generating", "assessing",
                           "finished"}
  /\ IsResults(evaluation.results)
  /\ DOMAIN evaluation.results \subseteq DOMAIN evaluation.plan
  /\ evaluation.assessed \subseteq DOMAIN evaluation.results
  /\ evaluation.done \subseteq Jobs
  /\ syntheses \in 0..MaxSyntheses

(* Reruns reuse results only when their prompt hashes match (README.md):   *)
(* whatever was killed before and whatever the file held, a run that ends  *)
(* leaves one result for each comparison it planned and no other, made for *)
(* the prompt of today's reports; and a file that says complete has a      *)
(* valid assessment of every result.                                       *)
ComparisonsAreCurrent ==
  /\ evaluation.phase = "finished" =>
       /\ DOMAIN comparisons.results = DOMAIN evaluation.plan
       /\ \A k \in DOMAIN comparisons.results :
            comparisons.results[k].prompt = evaluation.plan[k]
  /\ comparisons.status = "complete" =>
       ValidOnes(comparisons.results) = DOMAIN comparisons.results

(* Synthesis generation and assessment are checkpointed (README.md): a     *)
(* result in the file stays there as the same response, and keeps a valid  *)
(* assessment, through every save and every kill, until a run is started   *)
(* that plans another prompt for it or none.                               *)
NotPlanned(k) ==
  LET plan == evaluation'.plan IN
  k \notin DOMAIN plan \/ plan[k] # comparisons.results[k].prompt

SavedResultsSurvive ==
  [][\A k \in DOMAIN comparisons.results :
       LET saved == comparisons.results[k] IN
       \/ UNCHANGED comparisons
       \/ NotPlanned(k)
       \/ /\ k \in DOMAIN comparisons'.results
          /\ comparisons'.results[k].response = saved.response
          /\ saved.grade = "valid" => comparisons'.results[k].grade = "valid"]_evaluationVars

=============================================================================
