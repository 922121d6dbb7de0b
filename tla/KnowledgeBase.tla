---------------------------- MODULE KnowledgeBase ----------------------------
(***************************************************************************)
(* The documents table of the knowledge base and the programs that use it  *)
(* at the same time: the ingestion, whose tasks share one pipeline and its *)
(* guard, the score_guard command that scores what the ingestion left      *)
(* unscored, and a hybrid search.  Every statement is a transaction of its *)
(* own.                                                                    *)
(*                                                                         *)
(* A text stands for itself: a chunk of a version of a document.  A guard  *)
(* score is the text that was scored, whatever row it ends up in.          *)
(* Embeddings, collections and service tags are left out; how the legs of  *)
(* a search rank what they find is RankFusion's subject.                   *)
(***************************************************************************)
EXTENDS Naturals, FiniteSets

CONSTANTS
  Titles,        \* the documents
  Versions,      \* what may be ingested under a title: chunks and trust tier
  Flagged,       \* the texts that score at or above rag_guard_threshold
  GuardOnIngest, \* rag_guard_on_ingest
  Tasks,         \* concurrency of the ingest command
  PerLeg,        \* candidates per leg of a search
  Batch,         \* --batch of score_guard, the rows it takes at a time
  Limits,        \* what --limit may be, the rows it takes in all
  MaxIngests     \* bound: documents ingested

ASSUME KnowledgeAssumption ==
  /\ IsFiniteSet(Titles)
  /\ \A t \in Titles : /\ Versions[t] \subseteq [number : Nat \ {0}, chunks : Nat \ {0}, trusted : BOOLEAN]
                        /\ IsFiniteSet(Versions[t])
  /\ GuardOnIngest \in BOOLEAN
  /\ {PerLeg, Batch} \subseteq Nat \ {0}
  /\ Limits \subseteq Nat
  /\ MaxIngests \in Nat

AllVersions == UNION {Versions[t] : t \in Titles}

Indexes == UNION {1..v.chunks : v \in AllVersions}

\* _generate_doc_id: a hash of the title and the chunk's index.
DocIds == Titles \X Indexes

Text(t, number, i) == <<t, number, i>>

Texts == {Text(t, v.number, i) : t \in Titles, v \in AllVersions, i \in Indexes}

Unscored == <<"unscored">>

ASSUME FlaggedAssumption == Unscored \notin Flagged

VARIABLES
  documents,     \* the table, by doc_id
  inserted,      \* rows by the order of their id
  tasks,         \* the ingest_document calls under way
  guardScores,   \* guard.scores of the pipeline, by chunk index
  scoring,       \* the score_guard command
  query,         \* a search
  crossed,       \* history: scorings overlapped, or a row was rewritten under score_guard
  ingests        \* documents ingested so far

knowledgeVars == <<documents, inserted, tasks, guardScores, scoring, query, crossed, ingests>>

NoRow == [number |-> 0, trusted |-> FALSE, score |-> Unscored]

Row(v, score) == [number |-> v.number, trusted |-> v.trusted, score |-> score]

Present(d) == documents[d].number # 0

TextOf(d) == Text(d[1], documents[d].number, d[2])

NoVersion == [number |-> 0, chunks |-> 0, trusted |-> FALSE]

NoTask == [at |-> "idle", title |-> "none", version |-> NoVersion, pending |-> {}, failed |-> {},
           scores |-> [i \in Indexes |-> Unscored], next |-> 1]

NoScoring == [at |-> "idle", rows |-> {}, read |-> [d \in DocIds |-> Unscored], failed |-> {}, remaining |-> 0]

NoQuery == [at |-> "idle", found |-> {}, seen |-> {}, fetched |-> [d \in DocIds |-> NoRow]]

-----------------------------------------------------------------------------
(* RunbookIngestionPipeline.ingest_document, called by the tasks of the    *)
(* ingest commands for different documents at the same time.               *)

Scoring(k) == tasks[k].at = "scoring"

(* The chunks are embedded.                                                *)
BeginIngest(k, t, v) ==
  /\ tasks[k].at = "idle"
  /\ \A other \in Tasks : tasks[other].title # t
  /\ ingests < MaxIngests
  /\ ingests' = ingests + 1
  /\ tasks' = [tasks EXCEPT ![k] = [NoTask EXCEPT !.at = "embedding", !.title = t, !.version = v]]
  /\ UNCHANGED <<documents, inserted, guardScores, scoring, query, crossed>>

(* _guard_scores up to its await: the scores of the one guard are cleared, *)
(* whoever is waiting for his.                                             *)
BeginScoring(k) ==
  /\ tasks[k].at = "embedding"
  /\ IF GuardOnIngest
     THEN /\ guardScores' = [i \in Indexes |-> Unscored]
          /\ tasks' = [tasks EXCEPT ![k].at = "scoring", ![k].pending = 1..tasks[k].version.chunks]
          /\ crossed' = (crossed \/ \E other \in Tasks : Scoring(other))
     ELSE /\ tasks' = [tasks EXCEPT ![k].at = "writing"]
          /\ UNCHANGED <<guardScores, crossed>>
  /\ UNCHANGED <<documents, inserted, scoring, query, ingests>>

(* score_one returns for a chunk, or raises.                               *)
ScoreChunk(k, i) ==
  /\ Scoring(k)
  /\ i \in tasks[k].pending
  /\ tasks' = [tasks EXCEPT ![k].pending = @ \ {i}]
  /\ guardScores' = [guardScores EXCEPT ![i] = Text(tasks[k].title, tasks[k].version.number, i)]
  /\ UNCHANGED <<documents, inserted, scoring, query, crossed, ingests>>

FailChunk(k, i) ==
  /\ Scoring(k)
  /\ i \in tasks[k].pending
  /\ tasks' = [tasks EXCEPT ![k].pending = @ \ {i}, ![k].failed = @ \cup {i}]
  /\ UNCHANGED <<documents, inserted, guardScores, scoring, query, crossed, ingests>>

(* The gather has ended: a chunk whose call did not raise gets what is in  *)
(* the dictionary under its index by now.                                  *)
EndScoring(k) ==
  /\ Scoring(k)
  /\ tasks[k].pending = {}
  /\ tasks' = [tasks EXCEPT ![k].at = "writing", ![k].scores = [i \in Indexes |->
                 IF i \in tasks[k].failed THEN Unscored ELSE guardScores[i]]]
  /\ UNCHANGED <<documents, inserted, guardScores, scoring, query, crossed, ingests>>

(* INSERT ... ON CONFLICT (doc_id) DO UPDATE for the next chunk; what an   *)
(* earlier version had beyond the last chunk stays.                        *)
UpsertKeepingScore(row, v, score) ==   \* mutant: the guard columns are not in the update
  IF row.number = 0 THEN Row(v, score) ELSE Row(v, row.score)

Upsert(row, v, score) == Row(v, score)

WriteChunk(k) ==
  LET task == tasks[k]
      d == <<task.title, task.next>>
  IN /\ task.at = "writing"
     /\ task.next <= task.version.chunks
     /\ documents' = [documents EXCEPT ![d] = Upsert(documents[d], task.version, task.scores[task.next])]
     /\ inserted' = IF Present(d) THEN inserted ELSE [inserted EXCEPT ![d] = Cardinality({e \in DocIds : Present(e)}) + 1]
     /\ tasks' = [tasks EXCEPT ![k].next = @ + 1]
     /\ crossed' = (crossed \/ d \in scoring.rows)
     /\ UNCHANGED <<guardScores, scoring, query, ingests>>

EndIngest(k) ==
  /\ tasks[k].at = "writing"
  /\ tasks[k].next > tasks[k].version.chunks
  /\ tasks' = [tasks EXCEPT ![k] = NoTask]
  /\ UNCHANGED <<documents, inserted, guardScores, scoring, query, crossed, ingests>>

(* The embedding, the connection or a statement fails; the command goes on *)
(* with the next document.                                                 *)
FailIngest(k) ==
  /\ tasks[k].at \in {"embedding", "writing"}
  /\ tasks' = [tasks EXCEPT ![k] = NoTask]
  /\ UNCHANGED <<documents, inserted, guardScores, scoring, query, crossed, ingests>>

-----------------------------------------------------------------------------
(* score_documents: batch after batch of the rows without a score.         *)

UnscoredRows == {d \in DocIds : Present(d) /\ documents[d].score = Unscored}

FirstRows(limit) ==
  {d \in UnscoredRows : Cardinality({e \in UnscoredRows : inserted[e] < inserted[d]}) < limit}

(* min(batch, remaining), the LIMIT of SELECT_SQL.                         *)
BatchOf(remaining) == IF remaining < Batch THEN remaining ELSE Batch

(* The head of the loop, with SELECT_SQL; rows that failed before are      *)
(* passed over.                                                            *)
SelectRows(failed, remaining) ==
  LET rows == FirstRows(BatchOf(remaining)) \ failed IN
  IF rows = {}
  THEN [NoScoring EXCEPT !.at = "ended", !.failed = failed, !.remaining = remaining]
  ELSE [at |-> "scoring", rows |-> rows, failed |-> failed, remaining |-> remaining - Cardinality(rows),
        read |-> [d \in DocIds |-> IF d \in rows THEN TextOf(d) ELSE Unscored]]

StartScoreGuard(limit) ==
  /\ scoring.at \in {"idle", "ended"}
  /\ scoring' = SelectRows({}, limit)
  /\ UNCHANGED <<documents, inserted, tasks, guardScores, query, crossed, ingests>>

(* The gather has ended; the rows of the calls that raised are dropped.    *)
ScoreRows(failing) ==
  /\ scoring.at = "scoring"
  /\ failing \subseteq scoring.rows
  /\ scoring' = [scoring EXCEPT !.at = "updating", !.rows = @ \ failing, !.failed = @ \cup failing]
  /\ UNCHANGED <<documents, inserted, tasks, guardScores, query, crossed, ingests>>

(* UPDATE_SQL: the row has the doc_id, whatever its content is by now.     *)
UpdateRow(d) ==
  /\ scoring.at = "updating"
  /\ d \in scoring.rows
  /\ documents' = [documents EXCEPT ![d].score = scoring.read[d]]
  /\ scoring' = [scoring EXCEPT !.rows = @ \ {d}]
  /\ UNCHANGED <<inserted, tasks, guardScores, query, crossed, ingests>>

NextBatchOnce ==   \* mutant: the command ends after a batch
  /\ scoring.at = "updating"
  /\ scoring.rows = {}
  /\ scoring' = [NoScoring EXCEPT !.at = "ended", !.failed = scoring.failed, !.remaining = scoring.remaining]
  /\ UNCHANGED <<documents, inserted, tasks, guardScores, query, crossed, ingests>>

NextBatch ==
  /\ scoring.at = "updating"
  /\ scoring.rows = {}
  /\ scoring' = SelectRows(scoring.failed, scoring.remaining)
  /\ UNCHANGED <<documents, inserted, tasks, guardScores, query, crossed, ingests>>

(* A statement fails: the command ends with it, in the middle of a batch.  *)
FailScoreGuard ==
  /\ scoring.at = "updating"
  /\ scoring' = NoScoring
  /\ UNCHANGED <<documents, inserted, tasks, guardScores, query, crossed, ingests>>

-----------------------------------------------------------------------------
(* HybridSearchService.search with the safety conditions at their defaults.*)

(* _SAFETY_SQL: rows without a score pass.                                 *)
Safe(row) == row.trusted /\ (row.score = Unscored \/ row.score \notin Flagged)

(* The ids a leg returns: any of the safe rows, as many as the limit.      *)
Leg(found) == found \subseteq {d \in DocIds : Present(d) /\ Safe(documents[d])} /\ Cardinality(found) <= PerLeg

Seen(found) == {<<d, documents[d]>> : d \in found}

(* _vector_search ranks all rows: it returns as many as there are.         *)
VectorSearch(found) ==
  /\ query.at \in {"idle", "done"}
  /\ Leg(found)
  /\ query' = [NoQuery EXCEPT !.at = "vector", !.found = found, !.seen = Seen(found)]
  /\ UNCHANGED <<documents, inserted, tasks, guardScores, scoring, crossed, ingests>>

(* _keyword_search in ParadeDB, or in the process after that has failed:   *)
(* the conditions are the same.                                            *)
KeywordSearch(found) ==
  /\ query.at = "vector"
  /\ Leg(found)
  /\ query' = [query EXCEPT !.at = "keyword", !.found = @ \cup found, !.seen = @ \cup Seen(found)]
  /\ UNCHANGED <<documents, inserted, tasks, guardScores, scoring, crossed, ingests>>

(* _get_documents, by id and without the conditions; the references are    *)
(* made of these rows.                                                     *)
GetDocuments ==
  /\ query.at = "keyword"
  /\ query' = [query EXCEPT !.at = "done",
                            !.fetched = [d \in DocIds |-> IF d \in query.found THEN documents[d] ELSE NoRow]]
  /\ UNCHANGED <<documents, inserted, tasks, guardScores, scoring, crossed, ingests>>

(* Any failure after the connection was made: no references.               *)
FailSearch ==
  /\ query.at \in {"vector", "keyword"}
  /\ query' = [NoQuery EXCEPT !.at = "done"]
  /\ UNCHANGED <<documents, inserted, tasks, guardScores, scoring, crossed, ingests>>

-----------------------------------------------------------------------------

KnowledgeInit ==
  /\ documents = [d \in DocIds |-> NoRow]
  /\ inserted = [d \in DocIds |-> 0]
  /\ tasks = [k \in Tasks |-> NoTask]
  /\ guardScores = [i \in Indexes |-> Unscored]
  /\ scoring = NoScoring
  /\ query = NoQuery
  /\ crossed = FALSE
  /\ ingests = 0

TaskNext(k) ==
  \/ \E t \in Titles : \E v \in Versions[t] : BeginIngest(k, t, v)
  \/ BeginScoring(k)
  \/ \E i \in Indexes : ScoreChunk(k, i)
  \/ \E i \in Indexes : FailChunk(k, i)
  \/ EndScoring(k)
  \/ WriteChunk(k)
  \/ EndIngest(k)
  \/ FailIngest(k)

ScoreGuardNext ==
  \/ \E limit \in Limits : StartScoreGuard(limit)
  \/ \E failing \in SUBSET DocIds : ScoreRows(failing)
  \/ \E d \in DocIds : UpdateRow(d)
  \/ NextBatch
  \/ FailScoreGuard

SearchNext ==
  \/ \E found \in SUBSET DocIds : VectorSearch(found)
  \/ \E found \in SUBSET DocIds : KeywordSearch(found)
  \/ GetDocuments
  \/ FailSearch

KnowledgeNext == (\E k \in Tasks : TaskNext(k)) \/ ScoreGuardNext \/ SearchNext

KnowledgeSpec == KnowledgeInit /\ [][KnowledgeNext]_knowledgeVars

-----------------------------------------------------------------------------

KnowledgeTypeOK ==
  LET rows == [number : Nat, trusted : BOOLEAN, score : Texts \cup {Unscored}]
      scores == [Indexes -> Texts \cup {Unscored}]
  IN /\ documents \in [DocIds -> rows]
     /\ inserted \in [DocIds -> 0..Cardinality(DocIds)]
     /\ tasks \in [Tasks -> [at : {"idle", "embedding", "scoring", "writing"}, title : Titles \cup {"none"},
                            version : AllVersions \cup {NoVersion}, pending : SUBSET Indexes,
                            failed : SUBSET Indexes, scores : scores, next : Nat]]
     /\ guardScores \in scores
     /\ scoring \in [at : {"idle", "scoring", "updating", "ended"}, rows : SUBSET DocIds,
                     read : [DocIds -> Texts \cup {Unscored}], failed : SUBSET DocIds, remaining : Nat]
     /\ query.at \in {"idle", "vector", "keyword", "done"}
     /\ query.fetched \in [DocIds -> rows]
     /\ crossed \in BOOLEAN
     /\ ingests \in 0..MaxIngests

(* "On re-ingest the guard columns are overwritten (NULL when unscored) so *)
(* a changed chunk never keeps the score of its previous content"          *)
(* (pipeline.py:121).                                                      *)
ScoreIsOfContent == \A d \in DocIds : documents[d].score \in {Unscored, TextOf(d)}

(* Two things put a score beside a content it is not of: documents scored  *)
(* at the same time by the tasks of one pipeline, whose guard keeps scores *)
(* by chunk index alone, and a row rewritten while score_guard has its old *)
(* text.  A new version, a failed call or a failed ingest does not.        *)
(* _guard_scores, pipeline.py:63, score_documents, score_guard.py:33.      *)
ScoresNeedCrossing == ~crossed => ScoreIsOfContent

(* A search chooses rows by the scores that are stored and fetches what it *)
(* chose by id alone.  If a content it serves was selected by one of its   *)
(* legs, and the row had a score then, the text itself is below the        *)
(* threshold, not only the number beside it: through every reingest and    *)
(* failed scoring before, between and after the legs.  Nothing is claimed  *)
(* of content the legs did not select: a row rewritten between them and    *)
(* the fetch is served as it is by then.                                   *)
(* HybridSearchService.search, search.py:96, _guard_scores, pipeline.py:63.*)
ServedIsVetted ==
  query.at = "done" /\ ~crossed =>
    \A d \in query.found :
      LET row == query.fetched[d]
          selections == {seen \in query.seen : seen[1] = d /\ seen[2].number = row.number}
      IN  selections # {} =>
            \/ \E seen \in selections : seen[2].score = Unscored
            \/ Text(d[1], row.number, d[2]) \notin Flagged

(* score_guard ends with only failed rows left unscored, unless a batch is *)
(* full of them, so that the rows behind those are never reached, or its   *)
(* --limit is.  score_documents, score_guard.py:45.                        *)
OnlyFailedLeftUnscored ==
  [][scoring.at = "updating" /\ scoring'.at = "ended" /\ Cardinality(scoring'.failed) < BatchOf(scoring'.remaining) =>
       \A d \in DocIds : Present(d) /\ documents[d].score = Unscored => d \in scoring'.failed]_knowledgeVars

=============================================================================
