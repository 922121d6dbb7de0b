------------------------- MODULE KnowledgeBaseProofs -------------------------
(***************************************************************************)
(* Theorems of the knowledge base for any documents, versions, flagged     *)
(* texts, and any number of concurrent ingestions, and of the fusion of    *)
(* ranked lists for any rows, scores and limits.                           *)
(***************************************************************************)
EXTENDS KnowledgeBase, RankFusion, FiniteSetTheorems, FunctionTheorems,
        NaturalsInduction, WellFoundedInduction, TLAPS

Scores == Texts \cup {Unscored}

RowNumbers == {v.number : v \in AllVersions}

Rows == [number : RowNumbers \cup {0}, trusted : BOOLEAN, score : Scores]

IngestTasks ==
  [at : {"idle", "embedding", "scoring", "writing"}, title : Titles \cup {"none"},
   version : AllVersions \cup {NoVersion}, pending : SUBSET Indexes, failed : SUBSET Indexes,
   scores : [Indexes -> Scores], next : Nat \ {0}]

ScoringStates ==
  [at : {"idle", "scoring", "updating", "ended"}, rows : SUBSET DocIds,
   read : [DocIds -> Scores], failed : SUBSET DocIds, remaining : Int]

(* A task under way has a document.                                        *)
HasDocument(task) == task.at # "idle" => task.title \in Titles /\ task.version \in AllVersions

(* The types the argument needs.                                           *)
Types ==
  /\ documents \in [DocIds -> Rows]
  /\ tasks \in [Tasks -> IngestTasks]
  /\ \A k \in Tasks : HasDocument(tasks[k])
  /\ guardScores \in [Indexes -> Scores]
  /\ scoring \in ScoringStates

(* Scores that are those of the version's own chunks, or none.             *)
OwnScores(scores, title, number) ==
  \A i \in Indexes : scores[i] \in {Unscored, Text(title, number, i)}

(* While nothing has crossed: one task scores at a time, the guard holds   *)
(* its scores; the ones that write have their own; score_guard has read    *)
(* what the rows it is about to update still say.                          *)
NothingCrossed ==
  ~crossed =>
    /\ ScoreIsOfContent
    /\ \A j, k \in Tasks : Scoring(j) /\ Scoring(k) => j = k
    /\ \A k \in Tasks : Scoring(k) =>
         OwnScores(guardScores, tasks[k].title, tasks[k].version.number)
    /\ \A k \in Tasks : tasks[k].at \in {"embedding", "writing"} =>
         OwnScores(tasks[k].scores, tasks[k].title, tasks[k].version.number)
    /\ \A d \in scoring.rows : scoring.read[d] = TextOf(d)

CrossingInvariant == Types /\ NothingCrossed

-----------------------------------------------------------------------------
(* Facts about the data.                                                   *)

(* The scores of no chunk at all.                                          *)
LEMMA NoScores ==
  /\ [i \in Indexes |-> Unscored] \in [Indexes -> Scores]
  /\ \A title, number : OwnScores([i \in Indexes |-> Unscored], title, number)
BY DEF Scores, OwnScores

(* A task that is not under way.                                           *)
LEMMA NoTaskType == NoTask \in IngestTasks /\ NoTask.at = "idle"
BY NoScores DEF NoTask, IngestTasks

(* What a version may be.                                                  *)
LEMMA VersionFacts ==
  ASSUME NEW v \in AllVersions \cup {NoVersion}
  PROVE  /\ v.number \in Nat /\ v.trusted \in BOOLEAN /\ v.chunks \in Nat
         /\ \A i \in 1..v.chunks : v \in AllVersions /\ i \in Indexes
         /\ 1..v.chunks \subseteq Indexes
<1>1. CASE v \in AllVersions
  <2>1. PICK t \in Titles : v \in Versions[t]
    BY <1>1 DEF AllVersions
  <2>2. v \in [number : Nat \ {0}, chunks : Nat \ {0}, trusted : BOOLEAN]
    BY <2>1, KnowledgeAssumption
  <2>3. 1..v.chunks \subseteq Indexes
    BY <1>1 DEF Indexes
  <2> QED
    BY <1>1, <2>2, <2>3
<1>2. CASE v = NoVersion
  <2>1. v.number = 0 /\ v.trusted \in BOOLEAN /\ v.chunks = 0
    BY <1>2 DEF NoVersion
  <2>2. 1..v.chunks = {}
    BY <2>1
  <2> QED
    BY <2>1, <2>2
<1> QED
  BY <1>1, <1>2

(* What a function makes of finitely many arguments is finite.             *)
LEMMA FiniteUnion ==
  ASSUME NEW S, IsFiniteSet(S), NEW f, DOMAIN f = S, f = [x \in S |-> f[x]],
         \A x \in S : IsFiniteSet(f[x])
  PROVE  IsFiniteSet(UNION {f[x] : x \in S})
<1> DEFINE T == {f[x] : x \in S}
<1>1. f \in Surjection(S, T)
  BY DEF Surjection
<1>2. \A U \in T : IsFiniteSet(U)
  OBVIOUS
<1> HIDE DEF T
<1>3. IsFiniteSet(T)
  BY <1>1, FS_Surjection
<1>4. IsFiniteSet(UNION T)
  BY <1>2, <1>3, FS_UNION
<1> QED
  BY <1>4 DEF T

(* The rows there can be are finitely many.                                *)
LEMMA FiniteRows == IsFiniteSet(DocIds)
<1>1. IsFiniteSet(AllVersions)
  <2> DEFINE f == [t \in Titles |-> Versions[t]]
  <2>1. /\ DOMAIN f = Titles /\ f = [t \in Titles |-> f[t]] /\ \A t \in Titles : IsFiniteSet(f[t])
        /\ AllVersions = UNION {f[t] : t \in Titles} /\ IsFiniteSet(Titles)
    BY KnowledgeAssumption DEF AllVersions
  <2> HIDE DEF f
  <2> QED
    BY <2>1, FiniteUnion
<1>2. IsFiniteSet(Indexes)
  <2> DEFINE f == [v \in AllVersions |-> 1..v.chunks]
  <2>1. \A v \in AllVersions : IsFiniteSet(f[v])
    <3> SUFFICES ASSUME NEW v \in AllVersions PROVE IsFiniteSet(1..v.chunks)
      OBVIOUS
    <3>1. v.chunks \in Nat
      BY VersionFacts
    <3> QED
      BY <3>1, FS_Interval
  <2>2. /\ DOMAIN f = AllVersions /\ f = [v \in AllVersions |-> f[v]]
        /\ Indexes = UNION {f[v] : v \in AllVersions}
    BY DEF Indexes
  <2> HIDE DEF f
  <2> QED
    BY <1>1, <2>1, <2>2, FiniteUnion
<1> QED
  BY <1>2, KnowledgeAssumption, FS_Product DEF DocIds

(* The number of no version is that of no row.                             *)
LEMMA VersionNumbers ==
  ASSUME NEW v \in AllVersions
  PROVE  v.number \in Nat \ {0}
<1>1. PICK t \in Titles : v \in Versions[t]
  BY DEF AllVersions
<1> QED
  BY <1>1, KnowledgeAssumption

(* The initial table and command.                                          *)
LEMMA StartRowTypes ==
  NoRow \in Rows /\ NoRow.score = Unscored /\ NoScoring \in ScoringStates /\ NoScoring.rows = {}
BY DEF NoRow, Rows, Scores, NoScoring, ScoringStates

(* The text of a row is a text.                                            *)
LEMMA TextTypes ==
  ASSUME documents \in [DocIds -> Rows], NEW d \in DocIds, Present(d)
  PROVE  TextOf(d) \in Texts
<1>1. documents[d].number \in RowNumbers
  BY DEF Rows, Present
<1>2. d[1] \in Titles /\ d[2] \in Indexes
  BY DEF DocIds
<1>3. PICK v \in AllVersions : documents[d].number = v.number
  BY <1>1 DEF RowNumbers
<1>4. TextOf(d) = Text(d[1], v.number, d[2])
  BY <1>3 DEF TextOf
<1> QED
  BY <1>2, <1>4 DEF Texts

(* A batch is of documents.                                                *)
LEMMA SelectTypes ==
  ASSUME documents \in [DocIds -> Rows], NEW failed \in SUBSET DocIds, NEW remaining \in Int
  PROVE  /\ SelectRows(failed, remaining) \in ScoringStates
         /\ \A d \in SelectRows(failed, remaining).rows : SelectRows(failed, remaining).read[d] = TextOf(d)
<1> DEFINE limit == BatchOf(remaining)
           rows == FirstRows(limit) \ failed
           read == [d \in DocIds |-> IF d \in rows THEN TextOf(d) ELSE Unscored]
           left == remaining - Cardinality(rows)
           selected == SelectRows(failed, remaining)
<1>1. rows \subseteq DocIds /\ \A d \in rows : Present(d)
  BY DEF FirstRows, UnscoredRows
<1>2. read \in [DocIds -> Scores]
  BY <1>1, TextTypes DEF Scores
<1>3. \A d \in rows : read[d] = TextOf(d)
  BY <1>1
<1>4. selected =
        IF rows = {} THEN [NoScoring EXCEPT !.at = "ended", !.failed = failed, !.remaining = remaining]
        ELSE [at |-> "scoring", rows |-> rows, failed |-> failed, remaining |-> left, read |-> read]
  BY DEF SelectRows
<1>l. left \in Int
  <2>1. IsFiniteSet(rows)
    BY <1>1, FiniteRows, FS_Subset
  <2> HIDE DEF rows
  <2>2. Cardinality(rows) \in Nat
    BY <2>1, FS_CardinalityType
  <2> QED
    BY <2>2
<1> HIDE DEF rows, read, left, selected
<1>5. CASE rows = {}
  <2>1. selected = [NoScoring EXCEPT !.at = "ended", !.failed = failed, !.remaining = remaining]
    BY <1>4, <1>5
  <2>2. selected \in ScoringStates /\ selected.rows = {}
    BY <2>1 DEF NoScoring, ScoringStates, Scores
  <2> QED
    BY <2>2 DEF selected
<1>6. CASE rows # {}
  <2>1. selected = [at |-> "scoring", rows |-> rows, failed |-> failed, remaining |-> left, read |-> read]
    BY <1>4, <1>6
  <2>2. selected \in ScoringStates /\ selected.rows = rows /\ selected.read = read
    BY <1>1, <1>2, <1>l, <2>1 DEF ScoringStates
  <2> QED
    BY <1>3, <2>2 DEF selected
<1> QED
  BY <1>5, <1>6

-----------------------------------------------------------------------------
(* The steps.                                                              *)

(* A task is replaced by another one that is no less typed.                *)
LEMMA TaskTypes ==
  ASSUME Types, NEW k \in Tasks, NEW task \in IngestTasks, HasDocument(task),
         tasks' = [tasks EXCEPT ![k] = task], UNCHANGED <<documents, guardScores, scoring>>
  PROVE  Types'
BY DEF Types

(* An ingestion begins, ends or fails: nobody scores or writes more.       *)
LEMMA OutsideKeeps ==
  ASSUME CrossingInvariant, NEW k \in Tasks, NEW task \in IngestTasks,
         task.at \in {"idle", "embedding"}, HasDocument(task),
         OwnScores(task.scores, task.title, task.version.number), tasks' = [tasks EXCEPT ![k] = task],
         UNCHANGED <<documents, guardScores, scoring, crossed>>
  PROVE  CrossingInvariant'
<1>1. Types'
  BY TaskTypes DEF CrossingInvariant
<1>2. \A j \in Tasks : tasks'[j] = IF j = k THEN task ELSE tasks[j]
  BY DEF CrossingInvariant, Types
<1>3. NothingCrossed'
  BY <1>2 DEF CrossingInvariant, NothingCrossed, ScoreIsOfContent, Scoring, TextOf
<1> QED
  BY <1>1, <1>3 DEF CrossingInvariant

(* A task turns to its guard, and clears the scores of whoever waits.      *)
LEMMA BeginScoringKeeps ==
  ASSUME CrossingInvariant, NEW k \in Tasks, BeginScoring(k)
  PROVE  CrossingInvariant'
<1>0. /\ tasks \in [Tasks -> IngestTasks] /\ tasks[k] \in IngestTasks /\ Types
      /\ HasDocument(tasks[k])
  BY DEF CrossingInvariant, Types
<1>1. CASE GuardOnIngest
  <2> DEFINE task == [tasks[k] EXCEPT !.at = "scoring", !.pending = 1..tasks[k].version.chunks]
  <2>1. /\ tasks' = [tasks EXCEPT ![k] = task] /\ guardScores' = [i \in Indexes |-> Unscored]
        /\ crossed' = (crossed \/ \E other \in Tasks : Scoring(other))
        /\ UNCHANGED <<documents, scoring>>
    BY <1>1 DEF BeginScoring
  <2>2. 1..tasks[k].version.chunks \in SUBSET Indexes
    BY <1>0, VersionFacts DEF IngestTasks
  <2>3. task \in IngestTasks /\ task.at = "scoring" /\ HasDocument(task)
    <3>1. tasks[k].at = "embedding"
      BY DEF BeginScoring
    <3>2. /\ task \in IngestTasks /\ task.at = "scoring"
          /\ task.title = tasks[k].title /\ task.version = tasks[k].version
      BY <1>0, <2>2 DEF IngestTasks
    <3> HIDE DEF task
    <3> QED
      BY <1>0, <3>1, <3>2 DEF HasDocument
  <2> HIDE DEF task
  <2>4. Types'
    BY <1>0, <2>1, <2>3, NoScores DEF Types
  <2>5. \A j \in Tasks : tasks'[j] = IF j = k THEN task ELSE tasks[j]
    BY <1>0, <2>1
  <2>6. \A title, number : OwnScores(guardScores', title, number)
    BY <2>1, NoScores
  <2>7. NothingCrossed'
    <3> SUFFICES ASSUME ~crossed' PROVE NothingCrossed'
      BY DEF NothingCrossed
    <3>1. ~crossed /\ \A other \in Tasks : ~Scoring(other)
      BY <2>1
    <3> QED
      BY <2>1, <2>3, <2>5, <2>6, <3>1
      DEF CrossingInvariant, NothingCrossed, ScoreIsOfContent, Scoring, TextOf
  <2> QED
    BY <2>4, <2>7 DEF CrossingInvariant
<1>2. CASE ~GuardOnIngest
  <2> DEFINE task == [tasks[k] EXCEPT !.at = "writing"]
  <2>1. /\ tasks[k].at = "embedding" /\ tasks' = [tasks EXCEPT ![k] = task]
        /\ UNCHANGED <<documents, guardScores, scoring, crossed>>
    BY <1>2 DEF BeginScoring
  <2>2. /\ task \in IngestTasks /\ task.at = "writing" /\ task.scores = tasks[k].scores
        /\ task.title = tasks[k].title /\ task.version = tasks[k].version
    BY <1>0 DEF IngestTasks
  <2> HIDE DEF task
  <2>3. Types'
    BY <1>0, <2>1, <2>2, TaskTypes DEF HasDocument
  <2>4. \A j \in Tasks : tasks'[j] = IF j = k THEN task ELSE tasks[j]
    BY <1>0, <2>1
  <2>5. NothingCrossed'
    BY <2>1, <2>2, <2>4
    DEF CrossingInvariant, NothingCrossed, ScoreIsOfContent, Scoring, TextOf
  <2> QED
    BY <2>3, <2>5 DEF CrossingInvariant
<1> QED
  BY <1>1, <1>2

(* A chunk is scored, or its call raises.                                  *)
LEMMA ChunkKeeps ==
  ASSUME CrossingInvariant, NEW k \in Tasks, NEW i \in Indexes, ScoreChunk(k, i) \/ FailChunk(k, i)
  PROVE  CrossingInvariant'
<1>0. /\ tasks \in [Tasks -> IngestTasks] /\ tasks[k] \in IngestTasks /\ Types
      /\ HasDocument(tasks[k])
  BY DEF CrossingInvariant, Types
<1>1. /\ Scoring(k) /\ i \in tasks[k].pending
      /\ UNCHANGED <<documents, scoring, crossed>>
  BY DEF ScoreChunk, FailChunk
<1> DEFINE text == Text(tasks[k].title, tasks[k].version.number, i)
<1>2. /\ guardScores' = guardScores \/ guardScores' = [guardScores EXCEPT ![i] = text]
      /\ guardScores' \in [Indexes -> Scores]
  <2>1. CASE ScoreChunk(k, i)
    <3>1. tasks[k].title \in Titles /\ tasks[k].version \in AllVersions
      BY <1>0, <1>1 DEF HasDocument, Scoring
    <3>2. text \in Scores
      BY <3>1 DEF Scores, Texts
    <3> QED
      BY <1>0, <2>1, <3>2 DEF ScoreChunk, Types
  <2>2. CASE FailChunk(k, i)
    BY <1>0, <2>2 DEF FailChunk, Types
  <2> QED
    BY <2>1, <2>2
<1>3. PICK task \in IngestTasks :
        /\ tasks' = [tasks EXCEPT ![k] = task]
        /\ task.at = "scoring" /\ task.title = tasks[k].title /\ task.version = tasks[k].version
  <2>1. CASE ScoreChunk(k, i)
    <3> DEFINE task == [tasks[k] EXCEPT !.pending = @ \ {i}]
    <3>1. task \in IngestTasks /\ task.at = "scoring" /\ task.title = tasks[k].title
          /\ task.version = tasks[k].version
      BY <1>0, <1>1 DEF IngestTasks, Scoring
    <3>2. tasks' = [tasks EXCEPT ![k] = task]
      BY <2>1 DEF ScoreChunk
    <3> HIDE DEF task
    <3> QED
      BY <3>1, <3>2
  <2>2. CASE FailChunk(k, i)
    <3> DEFINE task == [tasks[k] EXCEPT !.pending = @ \ {i}, !.failed = @ \cup {i}]
    <3>1. task \in IngestTasks /\ task.at = "scoring" /\ task.title = tasks[k].title
          /\ task.version = tasks[k].version
      BY <1>0, <1>1 DEF IngestTasks, Scoring
    <3>2. tasks' = [tasks EXCEPT ![k] = task]
      BY <2>2 DEF FailChunk
    <3> HIDE DEF task
    <3> QED
      BY <3>1, <3>2
  <2> QED
    BY <2>1, <2>2
<1>4. Types'
  BY <1>0, <1>1, <1>2, <1>3 DEF Types, HasDocument, Scoring
<1>5. \A j \in Tasks : tasks'[j] = IF j = k THEN task ELSE tasks[j]
  BY <1>0, <1>3
<1>6. NothingCrossed'
  <2> SUFFICES ASSUME ~crossed' PROVE NothingCrossed'
    BY DEF NothingCrossed
  <2>1. /\ ScoreIsOfContent
        /\ \A j \in Tasks : Scoring(j) => j = k
        /\ OwnScores(guardScores, tasks[k].title, tasks[k].version.number)
        /\ \A j \in Tasks : tasks[j].at \in {"embedding", "writing"} =>
             OwnScores(tasks[j].scores, tasks[j].title, tasks[j].version.number)
        /\ \A d \in scoring.rows : scoring.read[d] = TextOf(d)
    BY <1>1 DEF CrossingInvariant, NothingCrossed
  <2>2. OwnScores(guardScores', tasks[k].title, tasks[k].version.number)
    BY <1>0, <1>2, <2>1 DEF OwnScores, Types
  <2>3. \A j \in Tasks : Scoring(j)' => j = k
    BY <1>5, <2>1 DEF Scoring
  <2>4. ScoreIsOfContent' /\ \A d \in scoring'.rows : scoring'.read[d] = TextOf(d)'
    BY <1>1, <2>1 DEF ScoreIsOfContent, TextOf
  <2>5. \A j \in Tasks : tasks'[j].at \in {"embedding", "writing"} =>
          OwnScores(tasks'[j].scores, tasks'[j].title, tasks'[j].version.number)
    BY <1>3, <1>5, <2>1
  <2>6. \A j \in Tasks : Scoring(j)' =>
          OwnScores(guardScores', tasks'[j].title, tasks'[j].version.number)
    BY <1>3, <1>5, <2>2, <2>3
  <2> QED
    BY <2>3, <2>4, <2>5, <2>6 DEF NothingCrossed
<1> QED
  BY <1>4, <1>6 DEF CrossingInvariant

(* A task has its scores, whatever the guard holds by then.                *)
LEMMA EndScoringKeeps ==
  ASSUME CrossingInvariant, NEW k \in Tasks, EndScoring(k)
  PROVE  CrossingInvariant'
<1>0. /\ tasks \in [Tasks -> IngestTasks] /\ tasks[k] \in IngestTasks /\ Types
      /\ HasDocument(tasks[k])
  BY DEF CrossingInvariant, Types
<1> DEFINE scores == [i \in Indexes |-> IF i \in tasks[k].failed THEN Unscored ELSE guardScores[i]]
           task == [tasks[k] EXCEPT !.at = "writing", !.scores = scores]
<1>1. /\ Scoring(k) /\ tasks' = [tasks EXCEPT ![k] = task]
      /\ UNCHANGED <<documents, guardScores, scoring, crossed>>
  BY DEF EndScoring
<1>2. scores \in [Indexes -> Scores]
  BY <1>0 DEF Types, Scores
<1>3. ~crossed => OwnScores(scores, tasks[k].title, tasks[k].version.number)
  BY <1>1 DEF CrossingInvariant, NothingCrossed, OwnScores
<1> HIDE DEF scores
<1>4. /\ task \in IngestTasks /\ task.at = "writing" /\ task.scores = scores
      /\ task.title = tasks[k].title /\ task.version = tasks[k].version
  BY <1>0, <1>2 DEF IngestTasks
<1> HIDE DEF task
<1>5. Types'
  BY <1>0, <1>1, <1>4, TaskTypes DEF HasDocument, Scoring
<1>6. \A j \in Tasks : tasks'[j] = IF j = k THEN task ELSE tasks[j]
  BY <1>0, <1>1
<1>7. NothingCrossed'
  BY <1>1, <1>3, <1>4, <1>6
  DEF CrossingInvariant, NothingCrossed, ScoreIsOfContent, Scoring, TextOf
<1> QED
  BY <1>5, <1>7 DEF CrossingInvariant

(* A chunk is written with its score; the row is none score_guard has read.*)
LEMMA WriteKeeps ==
  ASSUME CrossingInvariant, NEW k \in Tasks, WriteChunk(k)
  PROVE  CrossingInvariant'
<1>0. /\ tasks \in [Tasks -> IngestTasks] /\ tasks[k] \in IngestTasks
      /\ documents \in [DocIds -> Rows] /\ Types /\ HasDocument(tasks[k])
  BY DEF CrossingInvariant, Types
<1> DEFINE i == tasks[k].next
           d == <<tasks[k].title, i>>
           v == tasks[k].version
           score == tasks[k].scores[i]
           row == [number |-> v.number, trusted |-> v.trusted, score |-> score]
           task == [tasks[k] EXCEPT !.next = @ + 1]
<1>1. /\ tasks[k].at = "writing" /\ i <= v.chunks
      /\ documents' = [documents EXCEPT ![d] = row]
      /\ tasks' = [tasks EXCEPT ![k] = task]
      /\ crossed' = (crossed \/ d \in scoring.rows)
      /\ UNCHANGED <<guardScores, scoring>>
  BY DEF WriteChunk, Upsert, Row
<1>2. i \in Nat \ {0} /\ v \in AllVersions \cup {NoVersion}
  BY <1>0 DEF IngestTasks
<1>3. v \in AllVersions /\ i \in Indexes /\ v.number \in Nat /\ v.trusted \in BOOLEAN
  <2>1. v.chunks \in Nat
    BY <1>2, VersionFacts
  <2>2. i \in 1..v.chunks
    BY <1>1, <1>2, <2>1
  <2> QED
    BY <1>2, <2>2, VersionFacts
<1>4. score \in Scores
  BY <1>0, <1>3 DEF IngestTasks
<1>5. row \in Rows /\ row.number = v.number /\ row.score = score
  <2>1. v.number \in RowNumbers
    BY <1>3 DEF RowNumbers
  <2> HIDE DEF score, v
  <2> QED
    BY <1>3, <1>4, <2>1 DEF Rows
<1>6. /\ task \in IngestTasks /\ task.at = "writing" /\ task.scores = tasks[k].scores
      /\ task.title = tasks[k].title /\ task.version = tasks[k].version
  <2>1. i + 1 \in Nat \ {0}
    BY <1>2
  <2>2. task = [tasks[k] EXCEPT !.next = i + 1]
    OBVIOUS
  <2> HIDE DEF i
  <2> QED
    BY <1>0, <1>1, <2>1, <2>2 DEF IngestTasks
<1>7. ~crossed => score \in {Unscored, Text(tasks[k].title, v.number, i)}
  BY <1>1, <1>3 DEF CrossingInvariant, NothingCrossed, OwnScores
<1> HIDE DEF task, row, score
<1>8. Types'
  BY <1>0, <1>1, <1>5, <1>6 DEF Types, HasDocument
<1>9. \A j \in Tasks : tasks'[j] = IF j = k THEN task ELSE tasks[j]
  BY <1>0, <1>1
<1>10. \A e \in DocIds : documents'[e] = IF e = d THEN row ELSE documents[e]
  BY <1>0, <1>1
<1>11. NothingCrossed'
  <2> SUFFICES ASSUME ~crossed' PROVE NothingCrossed'
    BY DEF NothingCrossed
  <2>1. ~crossed /\ d \notin scoring.rows
    BY <1>1
  <2>2. /\ ScoreIsOfContent
        /\ \A j, l \in Tasks : Scoring(j) /\ Scoring(l) => j = l
        /\ \A j \in Tasks : Scoring(j) =>
             OwnScores(guardScores, tasks[j].title, tasks[j].version.number)
        /\ \A j \in Tasks : tasks[j].at \in {"embedding", "writing"} =>
             OwnScores(tasks[j].scores, tasks[j].title, tasks[j].version.number)
        /\ \A e \in scoring.rows : scoring.read[e] = TextOf(e)
    BY <2>1 DEF CrossingInvariant, NothingCrossed
  <2>3. ASSUME NEW e \in DocIds PROVE documents'[e].score \in {Unscored, TextOf(e)'}
    <3>1. CASE e = d
      <4>1. d[1] = tasks[k].title /\ d[2] = i
        OBVIOUS
      <4>2. TextOf(e)' = Text(tasks[k].title, v.number, i)
        BY <1>5, <1>10, <2>3, <3>1, <4>1 DEF TextOf
      <4> QED
        BY <1>5, <1>7, <1>10, <2>1, <2>3, <3>1, <4>2
    <3>2. CASE e # d
      BY <1>10, <2>2, <2>3, <3>2 DEF ScoreIsOfContent, TextOf
    <3> QED
      BY <3>1, <3>2
  <2>4. ASSUME NEW e \in scoring'.rows PROVE scoring'.read[e] = TextOf(e)'
    <3>1. e # d /\ e \in DocIds
      BY <1>0, <1>1, <2>1, <2>4 DEF Types, ScoringStates
    <3> QED
      BY <1>1, <1>10, <2>2, <2>4, <3>1 DEF TextOf
  <2>5. \A j \in Tasks : Scoring(j)' <=> Scoring(j)
    BY <1>1, <1>6, <1>9 DEF Scoring
  <2>6. \A j \in Tasks : tasks'[j].at \in {"embedding", "writing"} =>
          OwnScores(tasks'[j].scores, tasks'[j].title, tasks'[j].version.number)
    BY <1>1, <1>6, <1>9, <2>2
  <2>7. \A j \in Tasks : Scoring(j)' =>
          OwnScores(guardScores', tasks'[j].title, tasks'[j].version.number)
    BY <1>1, <1>6, <1>9, <2>2, <2>5
  <2>8. ScoreIsOfContent'
    BY <2>3 DEF ScoreIsOfContent
  <2> QED
    BY <2>2, <2>4, <2>5, <2>6, <2>7, <2>8 DEF NothingCrossed
<1> QED
  BY <1>8, <1>11 DEF CrossingInvariant

(* score_guard takes its next batch.                                       *)
LEMMA SelectKeeps ==
  ASSUME CrossingInvariant, NEW failed \in SUBSET DocIds, NEW remaining \in Int,
         scoring' = SelectRows(failed, remaining), UNCHANGED <<documents, tasks, guardScores, crossed>>
  PROVE  CrossingInvariant'
<1>1. documents \in [DocIds -> Rows]
  BY DEF CrossingInvariant, Types
<1>2. scoring' \in ScoringStates /\ \A d \in scoring'.rows : scoring'.read[d] = TextOf(d)
  BY <1>1, SelectTypes
<1>3. Types'
  BY <1>2 DEF CrossingInvariant, Types
<1>4. NothingCrossed'
  BY <1>2 DEF CrossingInvariant, NothingCrossed, ScoreIsOfContent, Scoring, TextOf
<1> QED
  BY <1>3, <1>4 DEF CrossingInvariant

(* The calls for a batch have ended.                                       *)
LEMMA ScoreRowsKeeps ==
  ASSUME CrossingInvariant, NEW failing, ScoreRows(failing)
  PROVE  CrossingInvariant'
<1>0. scoring \in ScoringStates
  BY DEF CrossingInvariant, Types
<1>1. /\ failing \subseteq scoring.rows
      /\ scoring' = [scoring EXCEPT !.at = "updating", !.rows = @ \ failing, !.failed = @ \cup failing]
      /\ UNCHANGED <<documents, tasks, guardScores, crossed>>
  BY DEF ScoreRows
<1>2. /\ scoring' \in ScoringStates /\ scoring'.rows \subseteq scoring.rows
      /\ scoring'.read = scoring.read
  BY <1>0, <1>1 DEF ScoringStates
<1>3. Types'
  BY <1>1, <1>2 DEF CrossingInvariant, Types
<1>4. NothingCrossed'
  BY <1>1, <1>2 DEF CrossingInvariant, NothingCrossed, ScoreIsOfContent, Scoring, TextOf
<1> QED
  BY <1>3, <1>4 DEF CrossingInvariant

(* A row gets the score of the text that was read in it.                   *)
LEMMA UpdateKeeps ==
  ASSUME CrossingInvariant, NEW d \in DocIds, UpdateRow(d)
  PROVE  CrossingInvariant'
<1>0. scoring \in ScoringStates /\ documents \in [DocIds -> Rows] /\ documents[d] \in Rows
  BY DEF CrossingInvariant, Types
<1> DEFINE score == scoring.read[d]
           row == [documents[d] EXCEPT !.score = score]
<1>1. /\ d \in scoring.rows /\ documents' = [documents EXCEPT ![d] = row]
      /\ scoring' = [scoring EXCEPT !.rows = @ \ {d}]
      /\ UNCHANGED <<tasks, guardScores, crossed>>
  BY DEF UpdateRow
<1>2. score \in Scores
  BY <1>0 DEF ScoringStates
<1>3. ~crossed => score = TextOf(d)
  BY <1>1 DEF CrossingInvariant, NothingCrossed
<1> HIDE DEF score
<1>4. row \in Rows /\ row.number = documents[d].number /\ row.score = score
  BY <1>0, <1>2 DEF Rows
<1> HIDE DEF row
<1>5. /\ scoring' \in ScoringStates /\ scoring'.rows \subseteq scoring.rows
      /\ scoring'.read = scoring.read
  BY <1>0, <1>1 DEF ScoringStates
<1>6. \A e \in DocIds : documents'[e] = IF e = d THEN row ELSE documents[e]
  BY <1>0, <1>1
<1>7. Types'
  BY <1>0, <1>1, <1>4, <1>5 DEF CrossingInvariant, Types
<1>8. \A e \in DocIds : TextOf(e)' = TextOf(e)
  BY <1>4, <1>6 DEF TextOf
<1>9. NothingCrossed'
  <2> SUFFICES ASSUME ~crossed' PROVE NothingCrossed'
    BY DEF NothingCrossed
  <2>1. ScoreIsOfContent'
    BY <1>1, <1>3, <1>4, <1>6, <1>8 DEF CrossingInvariant, NothingCrossed, ScoreIsOfContent
  <2>2. \A e \in scoring'.rows : scoring'.read[e] = TextOf(e)'
    <3>1. scoring.rows \subseteq DocIds
      BY <1>0 DEF ScoringStates
    <3> QED
      BY <1>1, <1>5, <1>8, <3>1 DEF CrossingInvariant, NothingCrossed
  <2> QED
    BY <1>1, <2>1, <2>2 DEF CrossingInvariant, NothingCrossed, Scoring
<1> QED
  BY <1>7, <1>9 DEF CrossingInvariant

(* The command fails: it will update no row it has read.                   *)
LEMMA FailKeeps ==
  ASSUME CrossingInvariant, FailScoreGuard
  PROVE  CrossingInvariant'
<1>1. scoring' \in ScoringStates /\ scoring'.rows = {} /\ UNCHANGED <<documents, tasks, guardScores, crossed>>
  BY StartRowTypes DEF FailScoreGuard
<1>2. Types'
  BY <1>1 DEF CrossingInvariant, Types
<1>3. NothingCrossed'
  BY <1>1 DEF CrossingInvariant, NothingCrossed, ScoreIsOfContent, Scoring, TextOf
<1> QED
  BY <1>2, <1>3 DEF CrossingInvariant

(* A search touches nothing.                                               *)
LEMMA SearchKeeps ==
  ASSUME CrossingInvariant, UNCHANGED <<documents, tasks, guardScores, scoring, crossed>>
  PROVE  CrossingInvariant'
BY DEF CrossingInvariant, Types, NothingCrossed, ScoreIsOfContent, Scoring, TextOf

-----------------------------------------------------------------------------
(* The invariant.                                                          *)

(* It holds initially.                                                     *)
LEMMA CrossingInit == KnowledgeInit => CrossingInvariant
<1> SUFFICES ASSUME KnowledgeInit PROVE CrossingInvariant
  OBVIOUS
<1>1. Types
  BY NoTaskType, NoScores, StartRowTypes DEF KnowledgeInit, Types, HasDocument
<1>2. ScoreIsOfContent /\ scoring.rows = {} /\ \A k \in Tasks : tasks[k].at = "idle"
  BY NoTaskType, StartRowTypes DEF KnowledgeInit, ScoreIsOfContent
<1> QED
  BY <1>1, <1>2 DEF CrossingInvariant, NothingCrossed, Scoring

(* Every step of a task keeps it.                                          *)
LEMMA TaskKeeps ==
  ASSUME CrossingInvariant, NEW k \in Tasks, TaskNext(k)
  PROVE  CrossingInvariant'
<1>1. ASSUME NEW t \in Titles, NEW v \in Versions[t], BeginIngest(k, t, v)
      PROVE  CrossingInvariant'
  <2> DEFINE task == [NoTask EXCEPT !.at = "embedding", !.title = t, !.version = v]
  <2>1. v \in AllVersions
    BY DEF AllVersions
  <2>2. /\ task \in IngestTasks /\ task.at = "embedding" /\ task.title = t /\ task.version = v
        /\ task.scores = NoTask.scores
    BY <2>1, NoTaskType DEF IngestTasks
  <2>s. NoTask.scores = [i \in Indexes |-> Unscored]
    BY DEF NoTask
  <2>3. HasDocument(task) /\ OwnScores(task.scores, task.title, task.version.number)
    BY <2>1, <2>2, <2>s, NoScores DEF HasDocument
  <2>4. tasks' = [tasks EXCEPT ![k] = task] /\ UNCHANGED <<documents, guardScores, scoring, crossed>>
    BY <1>1 DEF BeginIngest
  <2> HIDE DEF task
  <2> QED
    BY <2>2, <2>3, <2>4, OutsideKeeps
<1>2. CASE EndIngest(k) \/ FailIngest(k)
  <2>1. tasks' = [tasks EXCEPT ![k] = NoTask] /\ UNCHANGED <<documents, guardScores, scoring, crossed>>
    BY <1>2 DEF EndIngest, FailIngest
  <2>2. NoTask.scores = [i \in Indexes |-> Unscored]
    BY DEF NoTask
  <2>3. HasDocument(NoTask) /\ OwnScores(NoTask.scores, NoTask.title, NoTask.version.number)
    BY <2>2, NoTaskType, NoScores DEF HasDocument
  <2> QED
    BY <2>1, <2>3, NoTaskType, OutsideKeeps
<1>3. CASE BeginScoring(k)
  BY <1>3, BeginScoringKeeps
<1>4. CASE \E i \in Indexes : ScoreChunk(k, i) \/ FailChunk(k, i)
  BY <1>4, ChunkKeeps
<1>5. CASE EndScoring(k)
  BY <1>5, EndScoringKeeps
<1>6. CASE WriteChunk(k)
  BY <1>6, WriteKeeps
<1> QED
  BY <1>1, <1>2, <1>3, <1>4, <1>5, <1>6 DEF TaskNext

(* Every step of the program keeps it.                                     *)
LEMMA CrossingNext == CrossingInvariant /\ [KnowledgeNext]_knowledgeVars => CrossingInvariant'
<1> SUFFICES ASSUME CrossingInvariant, [KnowledgeNext]_knowledgeVars PROVE CrossingInvariant'
  OBVIOUS
<1>1. CASE \E k \in Tasks : TaskNext(k)
  BY <1>1, TaskKeeps
<1>2. CASE (\E limit \in Limits : StartScoreGuard(limit)) \/ NextBatch
  <2>1. scoring.failed \in SUBSET DocIds /\ scoring.remaining \in Int
    BY DEF CrossingInvariant, Types, ScoringStates
  <2>2. \A limit \in Limits : limit \in Int
    BY KnowledgeAssumption
  <2>3. PICK failed \in SUBSET DocIds, remaining \in Int : scoring' = SelectRows(failed, remaining)
    BY <1>2, <2>1, <2>2 DEF StartScoreGuard, NextBatch
  <2>4. UNCHANGED <<documents, tasks, guardScores, crossed>>
    BY <1>2 DEF StartScoreGuard, NextBatch
  <2> QED
    BY <2>3, <2>4, SelectKeeps
<1>3. CASE \E failing \in SUBSET DocIds : ScoreRows(failing)
  BY <1>3, ScoreRowsKeeps
<1>4. CASE \E d \in DocIds : UpdateRow(d)
  BY <1>4, UpdateKeeps
<1>5. CASE FailScoreGuard
  BY <1>5, FailKeeps
<1>6. CASE SearchNext
  BY <1>6, SearchKeeps DEF SearchNext, VectorSearch, KeywordSearch, GetDocuments, FailSearch
<1>7. CASE UNCHANGED knowledgeVars
  BY <1>7, SearchKeeps DEF knowledgeVars
<1> QED
  BY <1>1, <1>2, <1>3, <1>4, <1>5, <1>6, <1>7 DEF KnowledgeNext, ScoreGuardNext

(* With any number of concurrent ingestions and whatever calls fail, a     *)
(* score stands beside a text it is not of only after two documents were   *)
(* scored at the same time or a row was rewritten under score_guard        *)
(* (_guard_scores, pipeline.py:63, score_documents, score_guard.py:33).    *)
THEOREM ScoresOnlyCross == KnowledgeSpec => []ScoresNeedCrossing
<1>1. KnowledgeInit => CrossingInvariant
  BY CrossingInit
<1>2. CrossingInvariant /\ [KnowledgeNext]_knowledgeVars => CrossingInvariant'
  BY CrossingNext
<1>3. CrossingInvariant => ScoresNeedCrossing
  BY DEF CrossingInvariant, NothingCrossed, ScoresNeedCrossing
<1> QED
  BY <1>1, <1>2, <1>3, PTL DEF KnowledgeSpec

-----------------------------------------------------------------------------
(* Places in an order.                                                     *)

\* before orders the members of found, strictly and totally.
Ranks(before, found) ==
  /\ \A d \in found : <<d, d>> \notin before
  /\ \A d, e, f \in found : <<d, e>> \in before /\ <<e, f>> \in before => <<d, f>> \in before
  /\ \A d, e \in found : d # e => <<d, e>> \in before \/ <<e, d>> \in before

Predecessors(before, found, d) == {e \in found : <<e, d>> \in before}

(* Whoever comes before another has fewer predecessors.                    *)
LEMMA FewerPredecessors ==
  ASSUME NEW found, IsFiniteSet(found), NEW before, Ranks(before, found)
  PROVE  /\ Cardinality(found) \in Nat
         /\ \A d \in found :
              /\ Cardinality(Predecessors(before, found, d)) \in Nat
              /\ Cardinality(Predecessors(before, found, d)) < Cardinality(found)
         /\ \A d, e \in found : <<d, e>> \in before =>
              Cardinality(Predecessors(before, found, d)) < Cardinality(Predecessors(before, found, e))
<1> DEFINE P(d) == Predecessors(before, found, d)
<1>0. Cardinality(found) \in Nat
  BY FS_CardinalityType
<1>1. ASSUME NEW d \in found
      PROVE  /\ P(d) \in SUBSET found /\ d \notin P(d) /\ IsFiniteSet(P(d))
             /\ Cardinality(P(d)) \in Nat
  <2>1. P(d) \in SUBSET found /\ d \notin P(d)
    BY DEF Predecessors, Ranks
  <2> HIDE DEF P
  <2> QED
    BY <2>1, FS_Subset, FS_CardinalityType
<1>2. ASSUME NEW d \in found PROVE Cardinality(P(d)) < Cardinality(found)
  <2> HIDE DEF P
  <2>1. Cardinality(P(d)) <= Cardinality(found) /\ Cardinality(P(d)) # Cardinality(found)
    BY <1>1, FS_Subset
  <2> QED
    BY <1>0, <1>1, <2>1
<1>3. ASSUME NEW d \in found, NEW e \in found, <<d, e>> \in before
      PROVE  Cardinality(P(d)) < Cardinality(P(e))
  <2>1. P(d) \in SUBSET P(e) /\ d \in P(e)
    BY <1>3 DEF Predecessors, Ranks
  <2> HIDE DEF P
  <2>2. Cardinality(P(d)) <= Cardinality(P(e)) /\ Cardinality(P(d)) # Cardinality(P(e))
    BY <1>1, <2>1, FS_Subset
  <2> QED
    BY <1>1, <2>2
<1> QED
  BY <1>0, <1>1, <1>2, <1>3

-----------------------------------------------------------------------------
(* The types of all variables.                                             *)

(* The rows that are in the table.                                         *)
PresentRows == {d \in DocIds : Present(d)}

(* While one row is missing, those in the table are not all there can be.  *)
LEMMA PresentBound ==
  /\ Cardinality(DocIds) \in Nat
  /\ Cardinality(PresentRows) \in Nat
  /\ \A d \in DocIds \ PresentRows : Cardinality(PresentRows) + 1 <= Cardinality(DocIds)
<1>1. PresentRows \in SUBSET DocIds /\ IsFiniteSet(PresentRows)
  BY FiniteRows, FS_Subset DEF PresentRows
<1>2. Cardinality(DocIds) \in Nat /\ Cardinality(PresentRows) \in Nat
  BY <1>1, FiniteRows, FS_CardinalityType
<1>3. ASSUME NEW d \in DocIds \ PresentRows
      PROVE  Cardinality(PresentRows) + 1 <= Cardinality(DocIds)
  <2>1. Cardinality(PresentRows) <= Cardinality(DocIds)
    BY <1>1, FiniteRows, FS_Subset
  <2>2. Cardinality(PresentRows) # Cardinality(DocIds)
    BY <1>1, FiniteRows, FS_Subset
  <2> QED
    BY <1>2, <2>1, <2>2
<1> QED
  BY <1>2, <1>3

(* The ids tell the rows of the table apart.                               *)
InsertedInOrder ==
  /\ \A d \in PresentRows : inserted[d] \in 1..Cardinality(PresentRows)
  /\ \A d, e \in PresentRows : inserted[d] = inserted[e] => d = e

Queries ==
  [at : {"idle", "vector", "keyword", "done"}, found : SUBSET DocIds,
   seen : SUBSET (DocIds \X Rows), fetched : [DocIds -> Rows]]

(* The types the two invariants above leave out.                           *)
CountersAndQuery ==
  /\ inserted \in [DocIds -> 0..Cardinality(DocIds)]
  /\ query \in Queries
  /\ crossed \in BOOLEAN
  /\ ingests \in 0..MaxIngests
  /\ scoring.remaining \in Nat
  /\ InsertedInOrder

(* A search that has not begun is typed.                                   *)
LEMMA NoQueryType == NoQuery \in Queries
BY StartRowTypes DEF NoQuery, Queries

(* What a leg finds is rows of the table.                                  *)
LEMMA LegTypes ==
  ASSUME documents \in [DocIds -> Rows], NEW found \in SUBSET DocIds
  PROVE  Seen(found) \in SUBSET (DocIds \X Rows)
BY DEF Seen

(* A step of a search keeps the types.                                     *)
LEMMA SearchTypes ==
  ASSUME Types, query \in Queries, SearchNext
  PROVE  query' \in Queries
<1>0. documents \in [DocIds -> Rows]
  BY DEF Types
<1>1. ASSUME NEW found \in SUBSET DocIds, VectorSearch(found)
      PROVE  query' \in Queries
  <2> DEFINE seen == Seen(found)
  <2>1. seen \in SUBSET (DocIds \X Rows)
    BY <1>0, LegTypes
  <2>2. query' = [NoQuery EXCEPT !.at = "vector", !.found = found, !.seen = seen]
    BY <1>1 DEF VectorSearch
  <2> HIDE DEF seen
  <2> QED
    BY <2>1, <2>2, NoQueryType DEF Queries
<1>2. ASSUME NEW found \in SUBSET DocIds, KeywordSearch(found)
      PROVE  query' \in Queries
  <2> DEFINE seen == Seen(found)
             nfound == query.found \cup found
             nseen == query.seen \cup seen
  <2>1. seen \in SUBSET (DocIds \X Rows)
    BY <1>0, LegTypes
  <2>2. query' = [query EXCEPT !.at = "keyword", !.found = nfound, !.seen = nseen]
    BY <1>2 DEF KeywordSearch
  <2> HIDE DEF seen
  <2>3. nfound \in SUBSET DocIds /\ nseen \in SUBSET (DocIds \X Rows)
    BY <2>1 DEF Queries
  <2> HIDE DEF nfound, nseen
  <2> QED
    BY <2>2, <2>3 DEF Queries
<1>3. ASSUME GetDocuments PROVE query' \in Queries
  <2> DEFINE rows == [d \in DocIds |-> IF d \in query.found THEN documents[d] ELSE NoRow]
  <2>1. rows \in [DocIds -> Rows]
    BY <1>0, StartRowTypes
  <2>2. query' = [query EXCEPT !.at = "done", !.fetched = rows]
    BY <1>3 DEF GetDocuments
  <2> HIDE DEF rows
  <2> QED
    BY <2>1, <2>2 DEF Queries
<1>4. ASSUME FailSearch PROVE query' \in Queries
  BY <1>4, NoQueryType DEF FailSearch, Queries
<1> QED
  BY <1>1, <1>2, <1>3, <1>4 DEF SearchNext

(* A row that is written for the first time gets the next place.           *)
LEMMA InsertedTypes ==
  ASSUME inserted \in [DocIds -> 0..Cardinality(DocIds)], NEW k \in Tasks, WriteChunk(k)
  PROVE  inserted' \in [DocIds -> 0..Cardinality(DocIds)]
<1> DEFINE d == <<tasks[k].title, tasks[k].next>>
           place == Cardinality(PresentRows) + 1
<1>1. inserted' = IF Present(d) THEN inserted ELSE [inserted EXCEPT ![d] = place]
  BY DEF WriteChunk, PresentRows
<1>2. ASSUME d \in DocIds, ~Present(d) PROVE place \in 0..Cardinality(DocIds)
  BY <1>2, PresentBound DEF PresentRows
<1> HIDE DEF d, place
<1>3. CASE Present(d) \/ d \notin DocIds
  BY <1>1, <1>3
<1>4. CASE ~Present(d) /\ d \in DocIds
  BY <1>1, <1>2, <1>4
<1> QED
  BY <1>3, <1>4

(* A chunk is written to a row it has.                                     *)
LEMMA WrittenRow ==
  ASSUME Types, NEW k \in Tasks, WriteChunk(k)
  PROVE  /\ <<tasks[k].title, tasks[k].next>> \in DocIds
         /\ documents' = [documents EXCEPT ![<<tasks[k].title, tasks[k].next>>] =
                            [number |-> tasks[k].version.number, trusted |-> tasks[k].version.trusted,
                             score |-> tasks[k].scores[tasks[k].next]]]
         /\ tasks[k].version.number # 0
<1>0. tasks[k] \in IngestTasks /\ HasDocument(tasks[k])
  BY DEF Types
<1>1. tasks[k].at = "writing" /\ tasks[k].next <= tasks[k].version.chunks
  BY DEF WriteChunk
<1>2. tasks[k].title \in Titles /\ tasks[k].version \in AllVersions
  BY <1>0, <1>1 DEF HasDocument
<1>3. tasks[k].next \in Nat \ {0} /\ tasks[k].version.chunks \in Nat
  BY <1>0, <1>2, VersionFacts DEF IngestTasks
<1>4. tasks[k].next \in 1..tasks[k].version.chunks
  BY <1>1, <1>3
<1>5. tasks[k].next \in Indexes
  BY <1>2, <1>4 DEF Indexes
<1>6. tasks[k].version.number # 0
  BY <1>2, VersionNumbers
<1>7. documents' = [documents EXCEPT ![<<tasks[k].title, tasks[k].next>>] =
                      [number |-> tasks[k].version.number, trusted |-> tasks[k].version.trusted,
                       score |-> tasks[k].scores[tasks[k].next]]]
  BY DEF WriteChunk, Upsert, Row
<1> QED
  BY <1>2, <1>5, <1>6, <1>7 DEF DocIds

(* A row that is written for the first time gets the next id.              *)
LEMMA WrittenInOrder ==
  ASSUME Types, inserted \in [DocIds -> 0..Cardinality(DocIds)], InsertedInOrder,
         NEW k \in Tasks, WriteChunk(k)
  PROVE  InsertedInOrder'
<1> DEFINE row == <<tasks[k].title, tasks[k].next>>
           content == [number |-> tasks[k].version.number, trusted |-> tasks[k].version.trusted,
                       score |-> tasks[k].scores[tasks[k].next]]
           n == Cardinality(PresentRows)
<1>1. row \in DocIds /\ documents' = [documents EXCEPT ![row] = content] /\ content.number # 0
  BY WrittenRow
<1>2. inserted' = IF Present(row) THEN inserted ELSE [inserted EXCEPT ![row] = n + 1]
  BY DEF WriteChunk, PresentRows
<1>3. documents \in [DocIds -> Rows]
  BY DEF Types
<1> HIDE DEF content, row
<1>4. PresentRows' = PresentRows \cup {row}
  BY <1>1, <1>3 DEF PresentRows, Present
<1>5. n \in Nat /\ IsFiniteSet(PresentRows) /\ PresentRows \in SUBSET DocIds
  BY PresentBound, FiniteRows, FS_Subset DEF PresentRows
<1>6. CASE Present(row)
  <2>1. PresentRows' = PresentRows /\ inserted' = inserted
    BY <1>1, <1>2, <1>4, <1>6 DEF PresentRows
  <2> QED
    BY <2>1 DEF InsertedInOrder
<1>7. CASE ~Present(row)
  <2>1. row \notin PresentRows
    BY <1>7 DEF PresentRows
  <2>2. Cardinality(PresentRows') = n + 1
    BY <1>4, <1>5, <2>1, FS_AddElement
  <2> HIDE DEF n
  <2>3. inserted'[row] = n + 1 /\ \A d \in PresentRows : inserted'[d] = inserted[d] /\ d # row
    BY <1>1, <1>2, <1>5, <1>7, <2>1
  <2>4. \A d \in PresentRows : inserted'[d] \in 1..n
    BY <2>3 DEF InsertedInOrder, n
  <2>5. \A d \in PresentRows : inserted'[d] \in 1..(n + 1) /\ inserted'[d] # n + 1
    BY <1>5, <2>4
  <2>6. n + 1 \in 1..(n + 1)
    BY <1>5
  <2>7. \A d \in PresentRows' : inserted'[d] \in 1..Cardinality(PresentRows')
    BY <1>4, <2>2, <2>3, <2>5, <2>6
  <2>8. \A d, e \in PresentRows' : inserted'[d] = inserted'[e] => d = e
    BY <1>4, <2>3, <2>5 DEF InsertedInOrder
  <2> QED
    BY <2>7, <2>8 DEF InsertedInOrder
<1> QED
  BY <1>6, <1>7

(* Nothing else adds a row or gives an id.                                 *)
LEMMA StaysInOrder ==
  ASSUME Types, inserted \in [DocIds -> 0..Cardinality(DocIds)], InsertedInOrder,
         [KnowledgeNext]_knowledgeVars
  PROVE  InsertedInOrder'
<1>1. CASE \E k \in Tasks : WriteChunk(k)
  BY <1>1, WrittenInOrder
<1>2. CASE UNCHANGED <<documents, inserted>>
  BY <1>2 DEF InsertedInOrder, PresentRows, Present
<1>3. ASSUME NEW d \in DocIds, UpdateRow(d) PROVE InsertedInOrder'
  <2> DEFINE content == [documents[d] EXCEPT !.score = scoring.read[d]]
  <2>0. documents \in [DocIds -> Rows] /\ documents[d] \in Rows
    BY DEF Types
  <2>1. /\ documents' = [documents EXCEPT ![d] = content] /\ UNCHANGED inserted
    BY <1>3 DEF UpdateRow
  <2>2. content.number = documents[d].number
    BY <2>0 DEF Rows
  <2> HIDE DEF content
  <2>3. PresentRows' = PresentRows
    BY <2>0, <2>1, <2>2 DEF PresentRows, Present
  <2> QED
    BY <2>1, <2>3 DEF InsertedInOrder
<1>4. CASE \E k \in Tasks : TaskNext(k)
  BY <1>1, <1>2, <1>4 DEF TaskNext, BeginIngest, BeginScoring, ScoreChunk, FailChunk, EndScoring,
                          EndIngest, FailIngest
<1>5. CASE ScoreGuardNext
  BY <1>2, <1>3, <1>5 DEF ScoreGuardNext, StartScoreGuard, ScoreRows, NextBatch, FailScoreGuard
<1>6. CASE SearchNext
  BY <1>2, <1>6 DEF SearchNext, VectorSearch, KeywordSearch, GetDocuments, FailSearch
<1>7. CASE UNCHANGED knowledgeVars
  BY <1>2, <1>7 DEF knowledgeVars
<1> QED
  BY <1>4, <1>5, <1>6, <1>7 DEF KnowledgeNext

(* SELECT returns no more rows than its limit.                             *)
LEMMA FirstRowsBound ==
  ASSUME inserted \in [DocIds -> Nat], InsertedInOrder, NEW limit \in Nat
  PROVE  /\ FirstRows(limit) \in SUBSET DocIds
         /\ IsFiniteSet(FirstRows(limit))
         /\ Cardinality(FirstRows(limit)) <= limit
<1> DEFINE before == {pair \in DocIds \X DocIds : inserted[pair[1]] < inserted[pair[2]]}
           Earlier(d) == {e \in UnscoredRows : inserted[e] < inserted[d]}
           rank == [d \in FirstRows(limit) |-> Cardinality(Earlier(d))]
<1>1. /\ FirstRows(limit) \subseteq UnscoredRows /\ UnscoredRows \subseteq PresentRows
      /\ PresentRows \subseteq DocIds /\ UnscoredRows \subseteq DocIds
  BY DEF FirstRows, UnscoredRows, PresentRows
<1>2. IsFiniteSet(UnscoredRows)
  BY <1>1, FiniteRows, FS_Subset
<1>3. \A d, e \in UnscoredRows : <<d, e>> \in before <=> inserted[d] < inserted[e]
  BY <1>1
<1>4. \A d \in UnscoredRows : inserted[d] \in Nat
  BY <1>1
<1>5. \A d, e \in UnscoredRows : inserted[d] = inserted[e] => d = e
  BY <1>1 DEF InsertedInOrder
<1> HIDE DEF before
<1>6. Ranks(before, UnscoredRows)
  BY <1>3, <1>4, <1>5 DEF Ranks
<1>7. \A d \in UnscoredRows : Predecessors(before, UnscoredRows, d) = Earlier(d)
  BY <1>3 DEF Predecessors
<1> HIDE DEF Earlier
<1>8. /\ \A d \in UnscoredRows : Cardinality(Earlier(d)) \in Nat
      /\ \A d, e \in UnscoredRows : <<d, e>> \in before => Cardinality(Earlier(d)) < Cardinality(Earlier(e))
  BY <1>2, <1>6, <1>7, FewerPredecessors
<1>9. \A d, e \in UnscoredRows : Cardinality(Earlier(d)) = Cardinality(Earlier(e)) => d = e
  <2> SUFFICES ASSUME NEW d \in UnscoredRows, NEW e \in UnscoredRows, d # e
               PROVE  Cardinality(Earlier(d)) # Cardinality(Earlier(e))
    OBVIOUS
  <2>1. <<d, e>> \in before \/ <<e, d>> \in before
    BY <1>6 DEF Ranks
  <2> QED
    BY <1>8, <2>1
<1>10. \A d \in FirstRows(limit) : Cardinality(Earlier(d)) < limit
  BY DEF FirstRows, Earlier
<1>11. \A d \in FirstRows(limit) : rank[d] \in 0..(limit - 1)
  BY <1>1, <1>8, <1>10
<1>12. \A d, e \in FirstRows(limit) : rank[d] = rank[e] => d = e
  BY <1>1, <1>9
<1>13. rank \in Injection(FirstRows(limit), 0..(limit - 1))
  BY <1>11, <1>12, Fun_IsInj
<1>14. IsFiniteSet(0..(limit - 1)) /\ Cardinality(0..(limit - 1)) = limit
  <2>1. 0 \in Int /\ limit - 1 \in Int
    OBVIOUS
  <2>2. Cardinality(0..(limit - 1)) = IF 0 > limit - 1 THEN 0 ELSE (limit - 1) - 0 + 1
    BY <2>1, FS_Interval
  <2> QED
    BY <2>1, <2>2, FS_Interval
<1> HIDE DEF rank
<1> QED
  BY <1>1, <1>13, <1>14, FS_Injection

(* A batch takes no more rows than remain.                                 *)
LEMMA LimitKept ==
  ASSUME Types, CountersAndQuery, NEW failed \in SUBSET DocIds, NEW remaining \in Nat
  PROVE  SelectRows(failed, remaining).remaining \in Nat
<1> DEFINE limit == BatchOf(remaining)
           rows == FirstRows(limit) \ failed
<1>1. limit \in Nat /\ limit <= remaining
  BY KnowledgeAssumption DEF BatchOf
<1>2. inserted \in [DocIds -> Nat] /\ InsertedInOrder
  BY PresentBound DEF CountersAndQuery
<1> HIDE DEF limit
<1>3. IsFiniteSet(FirstRows(limit)) /\ Cardinality(FirstRows(limit)) <= limit
  BY <1>1, <1>2, FirstRowsBound
<1>4. /\ IsFiniteSet(rows) /\ Cardinality(rows) <= Cardinality(FirstRows(limit))
      /\ Cardinality(rows) \in Nat /\ Cardinality(FirstRows(limit)) \in Nat
  BY <1>3, FS_Subset, FS_CardinalityType
<1>5. \/ SelectRows(failed, remaining).remaining = remaining
      \/ SelectRows(failed, remaining).remaining = remaining - Cardinality(rows)
  BY DEF SelectRows, NoScoring, limit
<1> HIDE DEF rows
<1> QED
  BY <1>1, <1>3, <1>4, <1>5

(* Every step keeps them.                                                  *)
LEMMA CountersNext ==
  ASSUME Types, CountersAndQuery, [KnowledgeNext]_knowledgeVars
  PROVE  CountersAndQuery'
<1>1. inserted' \in [DocIds -> 0..Cardinality(DocIds)]
  <2>1. CASE \E k \in Tasks : WriteChunk(k)
    BY <2>1, InsertedTypes DEF CountersAndQuery
  <2>2. CASE UNCHANGED inserted
    BY <2>2 DEF CountersAndQuery
  <2>3. CASE \E k \in Tasks : TaskNext(k)
    BY <2>1, <2>2, <2>3 DEF TaskNext, BeginIngest, BeginScoring, ScoreChunk, FailChunk, EndScoring,
                            EndIngest, FailIngest
  <2>4. CASE ScoreGuardNext
    BY <2>2, <2>4 DEF ScoreGuardNext, StartScoreGuard, ScoreRows, UpdateRow, NextBatch, FailScoreGuard
  <2>5. CASE SearchNext
    BY <2>2, <2>5 DEF SearchNext, VectorSearch, KeywordSearch, GetDocuments, FailSearch
  <2>6. CASE UNCHANGED knowledgeVars
    BY <2>2, <2>6 DEF knowledgeVars
  <2> QED
    BY <2>3, <2>4, <2>5, <2>6 DEF KnowledgeNext
<1>2. query' \in Queries
  <2>1. CASE UNCHANGED query
    BY <2>1 DEF CountersAndQuery
  <2>2. CASE \E k \in Tasks : TaskNext(k)
    BY <2>1, <2>2 DEF TaskNext, BeginIngest, BeginScoring, ScoreChunk, FailChunk, EndScoring,
                      WriteChunk, EndIngest, FailIngest
  <2>3. CASE ScoreGuardNext
    BY <2>1, <2>3 DEF ScoreGuardNext, StartScoreGuard, ScoreRows, UpdateRow, NextBatch, FailScoreGuard
  <2>4. CASE SearchNext
    BY <2>4, SearchTypes DEF CountersAndQuery
  <2>5. CASE UNCHANGED knowledgeVars
    BY <2>1, <2>5 DEF knowledgeVars
  <2> QED
    BY <2>2, <2>3, <2>4, <2>5 DEF KnowledgeNext
<1>3. crossed' \in BOOLEAN /\ ingests' \in 0..MaxIngests
  <2>0. crossed \in BOOLEAN /\ ingests \in 0..MaxIngests /\ MaxIngests \in Nat
    BY KnowledgeAssumption DEF CountersAndQuery
  <2>1. CASE crossed' \in BOOLEAN /\ UNCHANGED ingests
    BY <2>0, <2>1
  <2>2. CASE \E k \in Tasks, t \in Titles : \E v \in Versions[t] : BeginIngest(k, t, v)
    BY <2>0, <2>2 DEF BeginIngest
  <2>3. CASE \E k \in Tasks : BeginScoring(k) \/ WriteChunk(k)
    BY <2>0, <2>1, <2>3 DEF BeginScoring, WriteChunk
  <2>4. CASE \E k \in Tasks : TaskNext(k)
    BY <2>0, <2>1, <2>2, <2>3, <2>4 DEF TaskNext, ScoreChunk, FailChunk, EndScoring, EndIngest, FailIngest
  <2>5. CASE ScoreGuardNext
    BY <2>0, <2>1, <2>5 DEF ScoreGuardNext, StartScoreGuard, ScoreRows, UpdateRow, NextBatch, FailScoreGuard
  <2>6. CASE SearchNext
    BY <2>0, <2>1, <2>6 DEF SearchNext, VectorSearch, KeywordSearch, GetDocuments, FailSearch
  <2>7. CASE UNCHANGED knowledgeVars
    BY <2>0, <2>1, <2>7 DEF knowledgeVars
  <2> QED
    BY <2>4, <2>5, <2>6, <2>7 DEF KnowledgeNext
<1>4. InsertedInOrder'
  BY StaysInOrder DEF CountersAndQuery
<1>5. scoring'.remaining \in Nat
  <2>0. scoring \in ScoringStates /\ scoring.remaining \in Nat /\ scoring.failed \in SUBSET DocIds
    BY DEF Types, CountersAndQuery, ScoringStates
  <2>1. CASE UNCHANGED scoring
    BY <2>0, <2>1
  <2>2. ASSUME NEW limit \in Limits, StartScoreGuard(limit) PROVE scoring'.remaining \in Nat
    <3>1. limit \in Nat /\ {} \in SUBSET DocIds
      BY KnowledgeAssumption
    <3>2. scoring' = SelectRows({}, limit)
      BY <2>2 DEF StartScoreGuard
    <3> QED
      BY <3>1, <3>2, LimitKept
  <2>3. CASE NextBatch
    BY <2>0, <2>3, LimitKept DEF NextBatch
  <2>4. CASE FailScoreGuard
    BY <2>4 DEF FailScoreGuard, NoScoring
  <2>5. CASE \E failing \in SUBSET DocIds : ScoreRows(failing)
    BY <2>0, <2>5 DEF ScoreRows, ScoringStates
  <2>6. CASE \E d \in DocIds : UpdateRow(d)
    BY <2>0, <2>6 DEF UpdateRow, ScoringStates
  <2>7. CASE \E k \in Tasks : TaskNext(k)
    BY <2>1, <2>7 DEF TaskNext, BeginIngest, BeginScoring, ScoreChunk, FailChunk, EndScoring,
                      WriteChunk, EndIngest, FailIngest
  <2>8. CASE SearchNext
    BY <2>1, <2>8 DEF SearchNext, VectorSearch, KeywordSearch, GetDocuments, FailSearch
  <2>9. CASE UNCHANGED knowledgeVars
    BY <2>1, <2>9 DEF knowledgeVars
  <2> QED
    BY <2>2, <2>3, <2>4, <2>5, <2>6, <2>7, <2>8, <2>9 DEF KnowledgeNext, ScoreGuardNext
<1> QED
  BY <1>1, <1>2, <1>3, <1>4, <1>5 DEF CountersAndQuery

(* The types of all variables and what has crossed, together.              *)
TypesInvariant == CrossingInvariant /\ CountersAndQuery

(* They hold initially.                                                    *)
LEMMA TypesInit == KnowledgeInit => TypesInvariant
<1> SUFFICES ASSUME KnowledgeInit PROVE CountersAndQuery
  BY CrossingInit DEF TypesInvariant
<1>1. 0 \in 0..Cardinality(DocIds)
  BY PresentBound
<1>2. 0 \in 0..MaxIngests
  BY KnowledgeAssumption
<1>3. scoring.remaining = 0
  BY DEF KnowledgeInit, NoScoring
<1>4. PresentRows = {}
  BY DEF KnowledgeInit, PresentRows, Present, NoRow
<1>5. InsertedInOrder
  BY <1>4 DEF InsertedInOrder
<1>6. inserted \in [DocIds -> 0..Cardinality(DocIds)]
  BY <1>1 DEF KnowledgeInit
<1>7. query \in Queries /\ crossed \in BOOLEAN /\ ingests \in 0..MaxIngests
  BY <1>2, NoQueryType DEF KnowledgeInit
<1> QED
  BY <1>3, <1>5, <1>6, <1>7 DEF CountersAndQuery

(* They are what the type invariant says.                                  *)
LEMMA TypesSuffice == TypesInvariant => KnowledgeTypeOK
<1> SUFFICES ASSUME TypesInvariant PROVE KnowledgeTypeOK
  OBVIOUS
<1> DEFINE rows == [number : Nat, trusted : BOOLEAN, score : Texts \cup {Unscored}]
<1>1. Rows \subseteq rows
  <2>1. \A v \in AllVersions : v.number \in Nat
    BY VersionFacts
  <2>2. RowNumbers \cup {0} \subseteq Nat
    BY <2>1 DEF RowNumbers
  <2> QED
    BY <2>2 DEF Rows, Scores
<1>2. documents \in [DocIds -> rows] /\ query.fetched \in [DocIds -> rows]
  <2>1. documents \in [DocIds -> Rows] /\ query.fetched \in [DocIds -> Rows]
    BY DEF TypesInvariant, CrossingInvariant, Types, CountersAndQuery, Queries
  <2> HIDE DEF rows
  <2> QED
    BY <1>1, <2>1
<1>3. tasks \in [Tasks -> [at : {"idle", "embedding", "scoring", "writing"}, title : Titles \cup {"none"},
                           version : AllVersions \cup {NoVersion}, pending : SUBSET Indexes,
                           failed : SUBSET Indexes, scores : [Indexes -> Texts \cup {Unscored}], next : Nat]]
  BY DEF TypesInvariant, CrossingInvariant, Types, IngestTasks, Scores
<1>4. /\ guardScores \in [Indexes -> Texts \cup {Unscored}]
      /\ scoring \in [at : {"idle", "scoring", "updating", "ended"}, rows : SUBSET DocIds,
                      read : [DocIds -> Texts \cup {Unscored}], failed : SUBSET DocIds, remaining : Nat]
  BY DEF TypesInvariant, CrossingInvariant, Types, CountersAndQuery, ScoringStates, Scores
<1>5. /\ inserted \in [DocIds -> 0..Cardinality(DocIds)]
      /\ query.at \in {"idle", "vector", "keyword", "done"}
      /\ crossed \in BOOLEAN /\ ingests \in 0..MaxIngests
  BY DEF TypesInvariant, CountersAndQuery, Queries
<1> QED
  BY <1>2, <1>3, <1>4, <1>5 DEF KnowledgeTypeOK

(* Type correctness of the knowledge base.                                 *)
THEOREM KnowledgeTypeCorrect == KnowledgeSpec => []KnowledgeTypeOK
<1>1. TypesInvariant /\ [KnowledgeNext]_knowledgeVars => TypesInvariant'
  BY CrossingNext, CountersNext DEF TypesInvariant, CrossingInvariant
<1> QED
  BY <1>1, TypesInit, TypesSuffice, PTL DEF KnowledgeSpec

-----------------------------------------------------------------------------
(* The references of a search.                                             *)

(* While nothing has crossed, what a search has seen was safe and had the  *)
(* score of its own text, or none, when a leg saw it.                      *)
SeenVetted ==
  ~crossed => \A pair \in query.seen :
                /\ Safe(pair[2])
                /\ pair[2].score \in {Unscored, Text(pair[1][1], pair[2].number, pair[1][2])}

(* A leg sees only safe rows, and each with the score of its text.         *)
LEMMA LegSeesVetted ==
  ASSUME ScoreIsOfContent, NEW found \in SUBSET DocIds, Leg(found)
  PROVE  \A pair \in Seen(found) :
           /\ Safe(pair[2])
           /\ pair[2].score \in {Unscored, Text(pair[1][1], pair[2].number, pair[1][2])}
<1> SUFFICES ASSUME NEW d \in found
             PROVE  /\ Safe(documents[d])
                    /\ documents[d].score \in {Unscored, Text(d[1], documents[d].number, d[2])}
  BY DEF Seen
<1> QED
  BY DEF Leg, ScoreIsOfContent, TextOf

(* What has crossed has crossed for good.                                  *)
LEMMA CrossedStays ==
  ASSUME crossed, [KnowledgeNext]_knowledgeVars
  PROVE  crossed'
<1>1. CASE UNCHANGED crossed
  BY <1>1
<1>2. CASE \E k \in Tasks : TaskNext(k)
  BY <1>1, <1>2 DEF TaskNext, BeginIngest, BeginScoring, ScoreChunk, FailChunk, EndScoring, WriteChunk,
                    EndIngest, FailIngest
<1>3. CASE ScoreGuardNext
  BY <1>1, <1>3 DEF ScoreGuardNext, StartScoreGuard, ScoreRows, UpdateRow, NextBatch, FailScoreGuard
<1>4. CASE SearchNext
  BY <1>1, <1>4 DEF SearchNext, VectorSearch, KeywordSearch, GetDocuments, FailSearch
<1>5. CASE UNCHANGED knowledgeVars
  BY <1>1, <1>5 DEF knowledgeVars
<1> QED
  BY <1>2, <1>3, <1>4, <1>5 DEF KnowledgeNext

(* Every step keeps what a search has seen vetted.                         *)
LEMMA SeenNext == TypesInvariant /\ SeenVetted /\ [KnowledgeNext]_knowledgeVars => SeenVetted'
<1> SUFFICES ASSUME TypesInvariant, SeenVetted, [KnowledgeNext]_knowledgeVars, ~crossed'
             PROVE  \A pair \in query'.seen :
                      /\ Safe(pair[2])'
                      /\ pair[2].score \in {Unscored, Text(pair[1][1], pair[2].number, pair[1][2])}
  BY DEF SeenVetted
<1> DEFINE Vetted(pair) == /\ Safe(pair[2])
                           /\ pair[2].score \in {Unscored, Text(pair[1][1], pair[2].number, pair[1][2])}
<1>0. ~crossed /\ ScoreIsOfContent /\ query \in Queries /\ \A pair \in query.seen : Vetted(pair)
  BY CrossedStays DEF SeenVetted, TypesInvariant, CrossingInvariant, NothingCrossed, CountersAndQuery
<1> SUFFICES \A pair \in query'.seen : Vetted(pair)
  BY DEF Safe
<1> HIDE DEF Vetted
<1>1. CASE UNCHANGED query
  BY <1>0, <1>1
<1>2. ASSUME NEW found \in SUBSET DocIds, VectorSearch(found) \/ KeywordSearch(found)
      PROVE  \A pair \in query'.seen : Vetted(pair)
  <2> DEFINE seen == Seen(found)
  <2>1. \A pair \in seen : Vetted(pair)
    BY <1>0, <1>2, LegSeesVetted DEF VectorSearch, KeywordSearch, Vetted
  <2>2. \/ query' = [NoQuery EXCEPT !.at = "vector", !.found = found, !.seen = seen]
        \/ query' = [query EXCEPT !.at = "keyword", !.found = @ \cup found, !.seen = @ \cup seen]
    BY <1>2 DEF VectorSearch, KeywordSearch
  <2> HIDE DEF seen
  <2>3. query'.seen = seen \/ query'.seen = query.seen \cup seen
    BY <1>0, <2>2 DEF NoQuery, Queries
  <2> QED
    BY <1>0, <2>1, <2>3
<1>3. CASE GetDocuments
  <2>1. PICK rows : query' = [query EXCEPT !.at = "done", !.fetched = rows]
    BY <1>3 DEF GetDocuments
  <2>2. query'.seen = query.seen
    BY <1>0, <2>1 DEF Queries
  <2> QED
    BY <1>0, <2>2
<1>4. CASE FailSearch
  <2>1. query'.seen = {}
    BY <1>4 DEF FailSearch, NoQuery
  <2> QED
    BY <2>1
<1>5. CASE SearchNext
  BY <1>2, <1>3, <1>4, <1>5 DEF SearchNext
<1>6. CASE \E k \in Tasks : TaskNext(k)
  <2>1. UNCHANGED query
    BY <1>6 DEF TaskNext, BeginIngest, BeginScoring, ScoreChunk, FailChunk, EndScoring, WriteChunk,
                EndIngest, FailIngest
  <2> QED
    BY <1>1, <2>1
<1>7. CASE ScoreGuardNext
  <2>1. UNCHANGED query
    BY <1>7 DEF ScoreGuardNext, StartScoreGuard, ScoreRows, UpdateRow, NextBatch, FailScoreGuard
  <2> QED
    BY <1>1, <2>1
<1>8. CASE UNCHANGED knowledgeVars
  BY <1>1, <1>8 DEF knowledgeVars
<1> QED
  BY <1>5, <1>6, <1>7, <1>8 DEF KnowledgeNext

(* A content that was vetted when a leg selected it is still the same text *)
(* when it is served.                                                      *)
LEMMA VettedIsServed == SeenVetted => ServedIsVetted
<1> SUFFICES ASSUME SeenVetted, ~crossed, NEW d \in query.found, NEW seen \in query.seen,
                    seen[1] = d, seen[2].number = query.fetched[d].number
             PROVE  \/ seen[2].score = Unscored
                    \/ Text(d[1], query.fetched[d].number, d[2]) \notin Flagged
  BY DEF ServedIsVetted
<1>1. Safe(seen[2]) /\ seen[2].score \in {Unscored, Text(d[1], query.fetched[d].number, d[2])}
  BY DEF SeenVetted
<1> QED
  BY <1>1 DEF Safe

(* Whatever is ingested, scored, failed and searched meanwhile: a content  *)
(* that a leg selected with a score is below the threshold itself when the *)
(* search serves it, and not the number beside it alone                    *)
(* (HybridSearchService.search, search.py:96).                             *)
THEOREM ServedIsAlwaysVetted == KnowledgeSpec => []ServedIsVetted
<1>1. KnowledgeInit => SeenVetted
  BY DEF KnowledgeInit, SeenVetted, NoQuery
<1>2. TypesInvariant /\ [KnowledgeNext]_knowledgeVars => TypesInvariant'
  BY CrossingNext, CountersNext DEF TypesInvariant, CrossingInvariant
<1>3. TypesInvariant /\ SeenVetted /\ [KnowledgeNext]_knowledgeVars => SeenVetted'
  BY SeenNext
<1> QED
  BY <1>1, <1>2, <1>3, TypesInit, VettedIsServed, PTL DEF KnowledgeSpec

-----------------------------------------------------------------------------
(* What score_guard leaves behind.                                         *)

(* A batch that is not full has every row without a score.                 *)
LEMMA SmallBatchIsAll ==
  ASSUME inserted \in [DocIds -> Nat], NEW limit \in Nat, Cardinality(FirstRows(limit)) < limit
  PROVE  FirstRows(limit) = UnscoredRows
<1> DEFINE Earlier(d) == {e \in UnscoredRows : inserted[e] < inserted[d]}
           Rest == UnscoredRows \ FirstRows(limit)
           Inserted == {inserted[d] : d \in Rest}
           R == {ss \in Nat \X Nat : ss[1] < ss[2]}
<1>1. FirstRows(limit) \subseteq UnscoredRows /\ UnscoredRows \subseteq DocIds
  BY DEF FirstRows, UnscoredRows
<1> SUFFICES ASSUME Rest # {} PROVE FALSE
  BY <1>1
<1>2. IsWellFoundedOn(R, Nat)
  BY NatLessThanWellFounded DEF OpToRel
<1>3. Inserted \subseteq Nat /\ Inserted # {}
  BY <1>1
<1>4. PICK n \in Inserted : \A m \in Inserted : ~(<<m, n>> \in R)
  <2> HIDE DEF R, Inserted
  <2> QED
    BY <1>2, <1>3, WFMin
<1>5. PICK d \in Rest : n = inserted[d]
  OBVIOUS
<1>6. \A e \in Rest : inserted[e] \in Nat /\ ~(inserted[e] < inserted[d]) /\ inserted[d] \in Nat
  BY <1>1, <1>3, <1>4, <1>5
<1> HIDE DEF Inserted, R
<1>7. Earlier(d) \in SUBSET FirstRows(limit)
  BY <1>6
<1>8. IsFiniteSet(FirstRows(limit))
  BY <1>1, FiniteRows, FS_Subset
<1>9. /\ Cardinality(Earlier(d)) <= Cardinality(FirstRows(limit))
      /\ Cardinality(Earlier(d)) \in Nat /\ Cardinality(FirstRows(limit)) \in Nat
  <2> HIDE DEF Earlier
  <2> QED
    BY <1>7, <1>8, FS_Subset, FS_CardinalityType
<1>10. ~(Cardinality(Earlier(d)) < limit)
  BY <1>5 DEF FirstRows
<1> HIDE DEF Earlier
<1> QED
  BY <1>9, <1>10

(* The command ends when its batch has only rows that failed before.       *)
LEMMA EndOfScoring ==
  ASSUME Types, CountersAndQuery, NEW failed \in SUBSET DocIds, NEW remaining \in Nat,
         SelectRows(failed, remaining).at = "ended"
  PROVE  /\ SelectRows(failed, remaining).failed = failed
         /\ SelectRows(failed, remaining).remaining = remaining
         /\ Cardinality(failed) < BatchOf(remaining) => UnscoredRows \subseteq failed
<1> DEFINE limit == BatchOf(remaining)
<1>1. FirstRows(limit) \ failed = {}
  BY DEF SelectRows
<1>2. SelectRows(failed, remaining).failed = failed /\ SelectRows(failed, remaining).remaining = remaining
  BY <1>1 DEF SelectRows, NoScoring
<1>l. limit \in Nat
  BY KnowledgeAssumption DEF BatchOf
<1> HIDE DEF limit
<1>3. FirstRows(limit) \in SUBSET failed /\ IsFiniteSet(failed)
  BY <1>1, FiniteRows, FS_Subset
<1>4. /\ Cardinality(FirstRows(limit)) <= Cardinality(failed)
      /\ Cardinality(FirstRows(limit)) \in Nat /\ Cardinality(failed) \in Nat
  BY <1>3, FS_Subset, FS_CardinalityType
<1>6. inserted \in [DocIds -> Nat]
  BY PresentBound DEF CountersAndQuery
<1>7. ASSUME Cardinality(failed) < limit PROVE UnscoredRows \subseteq failed
  <2>1. Cardinality(FirstRows(limit)) < limit
    BY <1>4, <1>l, <1>7
  <2> QED
    BY <1>3, <1>6, <1>l, <2>1, SmallBatchIsAll
<1> QED
  BY <1>2, <1>7 DEF limit

\* The step of OnlyFailedLeftUnscored.
LeavesOnlyFailed ==
  scoring.at = "updating" /\ scoring'.at = "ended" /\ Cardinality(scoring'.failed) < BatchOf(scoring'.remaining) =>
    \A d \in DocIds : Present(d) /\ documents[d].score = Unscored => d \in scoring'.failed

(* Only the end of a batch ends the command while it updates.              *)
LEMMA EndIsNextBatch ==
  ASSUME scoring \in ScoringStates, [KnowledgeNext]_knowledgeVars,
         scoring.at = "updating", scoring'.at = "ended"
  PROVE  NextBatch
<1>1. CASE UNCHANGED scoring
  BY <1>1
<1>2. CASE \E k \in Tasks : TaskNext(k)
  BY <1>1, <1>2 DEF TaskNext, BeginIngest, BeginScoring, ScoreChunk, FailChunk, EndScoring,
                    WriteChunk, EndIngest, FailIngest
<1>3. CASE (\E limit \in Limits : StartScoreGuard(limit)) \/ \E failing \in SUBSET DocIds : ScoreRows(failing)
  BY <1>3 DEF StartScoreGuard, ScoreRows
<1>4. ASSUME NEW d \in DocIds, UpdateRow(d) PROVE NextBatch
  <2>1. scoring' = [scoring EXCEPT !.rows = @ \ {d}]
    BY <1>4 DEF UpdateRow
  <2>2. scoring'.at = scoring.at
    BY <2>1 DEF ScoringStates
  <2> QED
    BY <2>2
<1>5. CASE SearchNext
  BY <1>1, <1>5 DEF SearchNext, VectorSearch, KeywordSearch, GetDocuments, FailSearch
<1>6. CASE FailScoreGuard
  BY <1>6 DEF FailScoreGuard, NoScoring
<1>7. CASE UNCHANGED knowledgeVars
  BY <1>1, <1>7 DEF knowledgeVars
<1> QED
  BY <1>2, <1>3, <1>4, <1>5, <1>6, <1>7 DEF KnowledgeNext, ScoreGuardNext

(* Every step does what the property says of it.                           *)
LEMMA ScoringLeaves == TypesInvariant /\ [KnowledgeNext]_knowledgeVars => LeavesOnlyFailed
<1> SUFFICES ASSUME TypesInvariant, [KnowledgeNext]_knowledgeVars,
                    scoring.at = "updating", scoring'.at = "ended",
                    Cardinality(scoring'.failed) < BatchOf(scoring'.remaining)
             PROVE  \A d \in DocIds : Present(d) /\ documents[d].score = Unscored => d \in scoring'.failed
  BY DEF LeavesOnlyFailed
<1>0. /\ Types /\ CountersAndQuery /\ scoring \in ScoringStates
      /\ scoring.failed \in SUBSET DocIds /\ scoring.remaining \in Nat
  BY DEF TypesInvariant, CrossingInvariant, Types, CountersAndQuery, ScoringStates
<1>1. scoring' = SelectRows(scoring.failed, scoring.remaining)
  BY <1>0, EndIsNextBatch DEF NextBatch
<1>2. UnscoredRows \subseteq scoring'.failed
  BY <1>0, <1>1, EndOfScoring
<1> QED
  BY <1>2 DEF UnscoredRows

(* score_guard ends with only failed rows left unscored, unless a batch or *)
(* its limit is full of them: what is ingested, rewritten or searched      *)
(* meanwhile leaves none of the others behind (score_documents,            *)
(* score_guard.py:48).                                                     *)
THEOREM OnlyFailedAreLeftUnscored == KnowledgeSpec => OnlyFailedLeftUnscored
<1>1. TypesInvariant /\ [KnowledgeNext]_knowledgeVars => TypesInvariant' /\ [LeavesOnlyFailed]_knowledgeVars
  BY CrossingNext, CountersNext, ScoringLeaves DEF TypesInvariant, CrossingInvariant
<1>2. KnowledgeSpec => [][LeavesOnlyFailed]_knowledgeVars
  BY <1>1, TypesInit, PTL DEF KnowledgeSpec
<1> QED
  BY <1>2 DEF OnlyFailedLeftUnscored, LeavesOnlyFailed

-----------------------------------------------------------------------------
(* RANK FUSION                                                             *)

(* Induction over the numbers, for sets.                                   *)
LEMMA CountInduction ==
  ASSUME NEW S, 0 \in S, \A n \in Nat : n \in S => n + 1 \in S
  PROVE  Nat \subseteq S
<1> DEFINE T == Nat \ S
           R == {ss \in Nat \X Nat : ss[1] < ss[2]}
<1>1. IsWellFoundedOn(R, Nat)
  BY NatLessThanWellFounded DEF OpToRel
<1> SUFFICES ASSUME T # {} PROVE FALSE
  OBVIOUS
<1>2. PICK x \in T : \A y \in T : ~(<<y, x>> \in R)
  <2> HIDE DEF R, T
  <2>1. T \subseteq Nat
    BY DEF T
  <2> QED
    BY <1>1, <2>1, WFMin
<1>3. x \in Nat /\ x # 0
  OBVIOUS
<1>4. x - 1 \in Nat /\ x - 1 < x
  BY <1>3
<1>5. x - 1 \notin T
  BY <1>2, <1>3, <1>4
<1>6. (x - 1) + 1 \in S
  BY <1>4, <1>5
<1> QED
  BY <1>3, <1>6

-----------------------------------------------------------------------------
(* Sorting.                                                                *)

(* SortedBy is a list of all members, each once, in their order.           *)
LEMMA Sorting ==
  ASSUME NEW found, IsFiniteSet(found), NEW before, Ranks(before, found)
  PROVE  /\ SortedBy(found, before) \in Seq(found)
         /\ Len(SortedBy(found, before)) = Cardinality(found)
         /\ Members(SortedBy(found, before)) = found
         /\ \A i, j \in DOMAIN SortedBy(found, before) :
              /\ SortedBy(found, before)[i] = SortedBy(found, before)[j] => i = j
              /\ <<SortedBy(found, before)[i], SortedBy(found, before)[j]>> \in before => i < j
<1> DEFINE n == Cardinality(found)
           place == [d \in found |-> Cardinality(Predecessors(before, found, d)) + 1]
           s == SortedBy(found, before)
<1>0. n \in Nat
  BY FewerPredecessors
<1>1. /\ \A d \in found : place[d] \in 1..n
      /\ \A d, e \in found : <<d, e>> \in before => place[d] < place[e]
  BY FewerPredecessors
<1>p. place \in [found -> 1..n]
  BY <1>1
<1>s. s = [i \in 1..n |-> CHOOSE d \in found : Cardinality(Predecessors(before, found, d)) = i - 1]
  BY DEF SortedBy, Predecessors
<1>c. \A d \in found : Cardinality(Predecessors(before, found, d)) = place[d] - 1
  BY FewerPredecessors
<1> HIDE DEF place, s
<1>2. \A d, e \in found : place[d] = place[e] => d = e
  <2> SUFFICES ASSUME NEW d \in found, NEW e \in found, d # e PROVE place[d] # place[e]
    OBVIOUS
  <2>1. <<d, e>> \in before \/ <<e, d>> \in before
    BY DEF Ranks
  <2>2. place[d] < place[e] \/ place[e] < place[d]
    BY <1>1, <2>1
  <2>3. place[d] \in Nat /\ place[e] \in Nat
    BY <1>0, <1>1
  <2> QED
    BY <2>2, <2>3
<1>3. \A i \in 1..n : \E d \in found : place[d] = i
  <2>1. place \in Injection(found, 1..n)
    BY <1>2, <1>p DEF Injection, IsInjective
  <2>2. IsFiniteSet(1..n) /\ Cardinality(1..n) = n
    BY <1>0, FS_Interval
  <2>3. place \in Surjection(found, 1..n)
    BY <2>1, <2>2, FS_Injection
  <2> QED
    BY <2>3 DEF Surjection
<1>5. \A i \in 1..n : s[i] \in found /\ place[s[i]] = i
  <2> SUFFICES ASSUME NEW i \in 1..n PROVE s[i] \in found /\ place[s[i]] = i
    OBVIOUS
  <2>1. \E d \in found : Cardinality(Predecessors(before, found, d)) = i - 1
    BY <1>3, <1>c
  <2>2. s[i] \in found /\ Cardinality(Predecessors(before, found, s[i])) = i - 1
    BY <1>s, <2>1
  <2>3. place[s[i]] - 1 = i - 1 /\ place[s[i]] \in 1..n
    BY <1>1, <1>c, <2>2
  <2> QED
    BY <1>0, <2>2, <2>3
<1>6. DOMAIN s = 1..n /\ s \in Seq(found) /\ Len(s) = n
  BY <1>0, <1>s, <1>5
<1> HIDE DEF s
<1>7. \A d \in found : place[d] \in 1..n /\ s[place[d]] = d
  BY <1>1, <1>2, <1>5
<1>8. Members(s) = found
  BY <1>5, <1>6, <1>7 DEF Members
<1>9. \A i, j \in DOMAIN s : (s[i] = s[j] => i = j) /\ (<<s[i], s[j]>> \in before => i < j)
  BY <1>1, <1>5, <1>6
<1> QED
  BY <1>6, <1>8, <1>9 DEF s

(* A part of an ordered set is ordered.                                    *)
LEMMA OrderedPart ==
  ASSUME NEW found, NEW before, Ranks(before, found), NEW part \in SUBSET found
  PROVE  Ranks(before, part)
BY DEF Ranks

-----------------------------------------------------------------------------
(* The scores.                                                             *)

(* A smaller rank gives no smaller share.                                  *)
LEMMA Quotients ==
  ASSUME NEW D \in Nat, NEW a \in Nat \ {0}, NEW b \in Nat \ {0}, a <= b
  PROVE  D \div a \in Nat /\ D \div b \in Nat /\ D \div b <= D \div a
OBVIOUS

LEMMA DenominatorType == Denominator \in Nat
<1> DEFINE C == Cardinality(Candidates)
           Is(f, n) == f = [rank \in 0..n |-> IF rank = 0 THEN 1 ELSE (RRF_K + rank) * f[rank - 1]]
           S == {n \in Nat : \E f : Is(f, n)}
<1>0. C \in Nat
  BY FusionAssumption, FS_CardinalityType
<1>1. 0 \in S
  <2>1. Is([rank \in 0..0 |-> 1], 0)
    OBVIOUS
  <2> QED
    BY <2>1
<1>2. ASSUME NEW n \in Nat, n \in S PROVE n + 1 \in S
  <2>1. PICK f : Is(f, n)
    BY <1>2
  <2> DEFINE g == [rank \in 0..(n + 1) |-> IF rank = n + 1 THEN (RRF_K + rank) * f[n] ELSE f[rank]]
  <2>2. \A rank \in 0..n : f[rank] = IF rank = 0 THEN 1 ELSE (RRF_K + rank) * f[rank - 1]
    BY <2>1
  <2>3. ASSUME NEW rank \in 0..(n + 1)
        PROVE  g[rank] = IF rank = 0 THEN 1 ELSE (RRF_K + rank) * g[rank - 1]
    <3>1. CASE rank = n + 1
      BY <3>1
    <3>2. CASE rank # n + 1
      <4>1. rank \in 0..n /\ (rank # 0 => rank - 1 \in 0..n)
        BY <3>2
      <4>2. g[rank] = f[rank] /\ (rank # 0 => g[rank - 1] = f[rank - 1])
        BY <3>2, <4>1
      <4> HIDE DEF g
      <4> QED
        BY <2>2, <4>1, <4>2
    <3> QED
      BY <3>1, <3>2
  <2>4. g = [rank \in 0..(n + 1) |-> g[rank]]
    OBVIOUS
  <2> HIDE DEF g
  <2>5. Is(g, n + 1)
    BY <2>3, <2>4
  <2> QED
    BY <2>5
<1>3. Nat \subseteq S
  <2> HIDE DEF S
  <2> QED
    BY <1>1, <1>2, CountInduction
<1> DEFINE f == CHOOSE h : Is(h, C)
<1>4. Is(f, C)
  BY <1>0, <1>3
<1>5. Denominator = f[C]
  BY DEF Denominator
<1> HIDE DEF f
<1> DEFINE T == {n \in Nat : n <= C => f[n] \in Nat}
<1>6. \A n \in 0..C : f[n] = IF n = 0 THEN 1 ELSE (RRF_K + n) * f[n - 1]
  BY <1>4
<1>7. 0 \in T
  BY <1>0, <1>6
<1>8. ASSUME NEW n \in Nat, n \in T PROVE n + 1 \in T
  <2>1. CASE n + 1 <= C
    <3>1. f[n] \in Nat /\ f[n + 1] = (RRF_K + (n + 1)) * f[n]
      BY <1>0, <1>6, <1>8, <2>1
    <3>2. RRF_K + (n + 1) \in Nat
      BY DEF RRF_K
    <3>3. \A x, y \in Nat : x * y \in Nat
      OBVIOUS
    <3> QED
      BY <3>1, <3>2, <3>3
  <2>2. CASE ~(n + 1 <= C)
    BY <2>2
  <2> QED
    BY <2>1, <2>2
<1>9. Nat \subseteq T
  <2> HIDE DEF T
  <2> QED
    BY <1>7, <1>8, CountInduction
<1> QED
  BY <1>0, <1>5, <1>9

-----------------------------------------------------------------------------
(* The ranked lists.                                                       *)

\* A list names a row once, and no more rows than there are.
Rankings ==
  {order \in Seq(Candidates) :
     /\ Len(order) <= Cardinality(Candidates)
     /\ \A i, j \in DOMAIN order : order[i] = order[j] => i = j}

\* The lists of a search.
LegLists == {lists \in Seq(Rankings) : Len(lists) \in {2, 3}}

(* A row that is named has a rank.                                         *)
LEMMA RankTypes ==
  ASSUME NEW order \in Rankings, NEW d \in Members(order)
  PROVE  /\ RankIn(order, d) \in 1..Cardinality(Candidates) /\ RankIn(order, d) \in DOMAIN order
         /\ order[RankIn(order, d)] = d /\ d \in Candidates
<1>0. Cardinality(Candidates) \in Nat
  BY FusionAssumption, FS_CardinalityType
<1>1. order \in Seq(Candidates) /\ Len(order) <= Cardinality(Candidates) /\ Len(order) \in Nat
  BY DEF Rankings
<1>2. \E i \in DOMAIN order : order[i] = d
  BY DEF Members
<1>3. RankIn(order, d) \in DOMAIN order /\ order[RankIn(order, d)] = d
  BY <1>2 DEF RankIn
<1>4. DOMAIN order = 1..Len(order)
  BY <1>1
<1>5. d \in Candidates
  BY <1>1, <1>3
<1> QED
  BY <1>0, <1>1, <1>3, <1>4, <1>5

(* The shares of a rank are numbers.                                       *)
LEMMA ShareTypes ==
  ASSUME NEW order \in Rankings, NEW i \in 1..3, NEW d
  PROVE  ReciprocalRank(order, i, d) \in Nat
<1>1. CASE d \in Members(order)
  <2> DEFINE D == Weight(i) * Denominator
             r == RRF_K + RankIn(order, d)
  <2>1. Weight(i) \in Nat
    BY FusionAssumption DEF Weight
  <2>2. D \in Nat
    <3>1. \A x, y \in Nat : x * y \in Nat
      OBVIOUS
    <3> QED
      BY <2>1, <3>1, DenominatorType
  <2>3. r \in Nat \ {0}
    <3>0. Cardinality(Candidates) \in Nat
      BY FusionAssumption, FS_CardinalityType
    <3>1. RankIn(order, d) \in 1..Cardinality(Candidates)
      BY <1>1, RankTypes
    <3> QED
      BY <3>0, <3>1 DEF RRF_K
  <2>4. ReciprocalRank(order, i, d) = D \div r
    BY <1>1 DEF ReciprocalRank
  <2>5. r <= r
    BY <2>3
  <2> HIDE DEF D, r
  <2> QED
    BY <2>2, <2>3, <2>4, <2>5, Quotients
<1>2. CASE d \notin Members(order)
  BY <1>2 DEF ReciprocalRank
<1> QED
  BY <1>1, <1>2

(* Who is not ranked below gets no smaller share.                          *)
LEMMA SharesAscend ==
  ASSUME NEW order \in Rankings, NEW i \in 1..3, NEW d, NEW e, NotAbove(order, e, d)
  PROVE  ReciprocalRank(order, i, e) <= ReciprocalRank(order, i, d)
<1>1. CASE e \in Members(order)
  <2> DEFINE D == Weight(i) * Denominator
             r == RRF_K + RankIn(order, d)
             q == RRF_K + RankIn(order, e)
  <2>1. Weight(i) \in Nat
    BY FusionAssumption DEF Weight
  <2>2. D \in Nat
    <3>1. \A x, y \in Nat : x * y \in Nat
      OBVIOUS
    <3> QED
      BY <2>1, <3>1, DenominatorType
  <2>3. d \in Members(order) /\ RankIn(order, d) < RankIn(order, e)
    BY <1>1 DEF NotAbove
  <2>4. r \in Nat \ {0} /\ q \in Nat \ {0} /\ r <= q
    <3>0. Cardinality(Candidates) \in Nat
      BY FusionAssumption, FS_CardinalityType
    <3>1. RankIn(order, d) \in 1..Cardinality(Candidates) /\ RankIn(order, e) \in 1..Cardinality(Candidates)
      BY <1>1, <2>3, RankTypes
    <3> QED
      BY <2>3, <3>0, <3>1 DEF RRF_K
  <2>5. ReciprocalRank(order, i, d) = D \div r /\ ReciprocalRank(order, i, e) = D \div q
    BY <1>1, <2>3 DEF ReciprocalRank
  <2> HIDE DEF D, r, q
  <2> QED
    BY <2>2, <2>4, <2>5, Quotients
<1>2. CASE e \notin Members(order)
  <2>1. ReciprocalRank(order, i, e) = 0
    BY <1>2 DEF ReciprocalRank
  <2> QED
    BY <2>1, ShareTypes
<1> QED
  BY <1>1, <1>2

\* f is the score of d after each of the lists.
IsScore(f, lists, d) ==
  f = [i \in 0..Len(lists) |-> IF i = 0 THEN 0 ELSE f[i - 1] + ReciprocalRank(lists[i], i, d)]

(* The score of two lists or three.                                        *)
LEMMA FusionIsSum ==
  ASSUME NEW lists \in LegLists, NEW d
  PROVE  /\ Fusion(lists, d) \in Nat
         /\ Len(lists) = 2 => Fusion(lists, d) = ReciprocalRank(lists[1], 1, d) + ReciprocalRank(lists[2], 2, d)
         /\ Len(lists) = 3 => Fusion(lists, d) = (ReciprocalRank(lists[1], 1, d) + ReciprocalRank(lists[2], 2, d))
                                                 + ReciprocalRank(lists[3], 3, d)
<1> DEFINE share(i) == ReciprocalRank(lists[i], i, d)
           n == Len(lists)
           g == [i \in 0..n |-> IF i = 0 THEN 0 ELSE IF i = 1 THEN share(1)
                                ELSE IF i = 2 THEN share(1) + share(2) ELSE (share(1) + share(2)) + share(3)]
           f == CHOOSE h : IsScore(h, lists, d)
<1>1. n \in {2, 3} /\ \A i \in 1..n : lists[i] \in Rankings
  BY DEF LegLists
<1>2. \A i \in 1..n : share(i) \in Nat
  <2> SUFFICES ASSUME NEW i \in 1..n PROVE share(i) \in Nat
    OBVIOUS
  <2>1. i \in 1..3 /\ lists[i] \in Rankings
    BY <1>1
  <2> QED
    BY <2>1, ShareTypes
<1>3. \E h : IsScore(h, lists, d)
  <2>1. \A i \in 0..n : g[i] = IF i = 0 THEN 0 ELSE g[i - 1] + share(i)
    <3> HIDE DEF share
    <3>1. \A i \in 0..n : i = 0 \/ i = 1 \/ i = 2 \/ i = 3
      BY <1>1
    <3>2. share(1) \in Nat
      BY <1>1, <1>2
    <3> QED
      BY <3>1, <3>2
  <2>2. g = [i \in 0..n |-> g[i]]
    OBVIOUS
  <2> HIDE DEF g
  <2>3. IsScore(g, lists, d)
    BY <2>1, <2>2 DEF IsScore
  <2> QED
    BY <2>3
<1>4. IsScore(f, lists, d)
  BY <1>3
<1>5. Fusion(lists, d) = f[n]
  BY DEF Fusion, IsScore
<1> HIDE DEF f
<1>6. \A i \in 0..n : f[i] = IF i = 0 THEN 0 ELSE f[i - 1] + share(i)
  BY <1>4 DEF IsScore
<1> HIDE DEF share
<1>7. f[0] = 0 /\ f[1] = share(1) /\ f[2] = share(1) + share(2)
  <2>1. 0 \in 0..n /\ 1 \in 0..n /\ 2 \in 0..n /\ 1 \in 1..n
    BY <1>1
  <2>2. f[0] = 0 /\ f[1] = f[1 - 1] + share(1) /\ f[2] = f[2 - 1] + share(2)
    BY <1>6, <2>1
  <2>3. share(1) \in Nat
    BY <1>2, <2>1
  <2> QED
    BY <2>2, <2>3
<1>8. n = 3 => f[3] = (share(1) + share(2)) + share(3)
  BY <1>1, <1>2, <1>6, <1>7
<1>9. f[n] \in Nat
  BY <1>1, <1>2, <1>7, <1>8
<1> QED
  BY <1>1, <1>5, <1>7, <1>8, <1>9 DEF share

(* Where the lists first name a row.                                       *)
LEMMA FirstNaming ==
  ASSUME NEW lists \in LegLists, NEW d \in Named(lists)
  PROVE  \E i \in 1..Len(lists) :
           /\ d \in Members(lists[i]) /\ lists[i] \in Rankings
           /\ \A j \in Listing(lists, d) : i <= j
           /\ FirstNamed(lists, d) = i * (Cardinality(Candidates) + 1) + RankIn(lists[i], d)
<1>1. Len(lists) \in {2, 3} /\ DOMAIN lists = 1..Len(lists) /\ \A i \in 1..Len(lists) : lists[i] \in Rankings
  BY DEF LegLists
<1>2. Listing(lists, d) # {} /\ Listing(lists, d) \subseteq 1..Len(lists) /\ Listing(lists, d) \subseteq 1..3
  BY <1>1 DEF Named, Listing
<1>3. \E i \in Listing(lists, d) : \A j \in Listing(lists, d) : i <= j
  <2>1. CASE 1 \in Listing(lists, d)
    BY <1>2, <2>1
  <2>2. CASE 1 \notin Listing(lists, d) /\ 2 \in Listing(lists, d)
    BY <1>2, <2>2
  <2>3. CASE 1 \notin Listing(lists, d) /\ 2 \notin Listing(lists, d)
    BY <1>2, <2>3
  <2> QED
    BY <2>1, <2>2, <2>3
<1> DEFINE i == CHOOSE i \in Listing(lists, d) : \A j \in Listing(lists, d) : i <= j
<1>4. i \in Listing(lists, d) /\ \A j \in Listing(lists, d) : i <= j
  BY <1>3
<1>5. FirstNamed(lists, d) = i * (Cardinality(Candidates) + 1) + RankIn(lists[i], d)
  BY DEF FirstNamed
<1> HIDE DEF i
<1>6. i \in 1..Len(lists) /\ d \in Members(lists[i])
  BY <1>2, <1>4 DEF Listing
<1> QED
  BY <1>1, <1>4, <1>5, <1>6

(* Two places are equal only in the same list at the same rank, and a      *)
(* place in an earlier list is smaller.                                    *)
LEMMA RankPlaces ==
  ASSUME NEW C \in Nat, NEW i \in 1..3, NEW j \in 1..3, NEW r \in 1..C, NEW q \in 1..C
  PROVE  /\ i * (C + 1) + r \in Nat
         /\ i * (C + 1) + r = j * (C + 1) + q => i = j /\ r = q
         /\ i < j => i * (C + 1) + r < j * (C + 1) + q
         /\ i = j /\ r < q => i * (C + 1) + r < j * (C + 1) + q
<1>1. \A k \in 1..3 : k = 1 \/ k = 2 \/ k = 3
  OBVIOUS
<1>2. 1 * (C + 1) = C + 1 /\ 2 * (C + 1) = C + C + 2 /\ 3 * (C + 1) = C + C + C + 3
  OBVIOUS
<1> QED
  BY <1>1, <1>2

(* The order of the fused scores is strict and total on the rows named.    *)
LEMMA FusionRanks ==
  ASSUME NEW lists \in LegLists
  PROVE  Ranks(BestFirst(lists), Named(lists))
<1> DEFINE score(d) == Fusion(lists, d)
           place(d) == FirstNamed(lists, d)
           N == Named(lists)
<1>1. \A d \in N : score(d) \in Nat
  BY FusionIsSum
<1>2. \A d, e \in N : place(d) \in Nat /\ (place(d) = place(e) => d = e)
  <2>0. Cardinality(Candidates) \in Nat /\ Len(lists) \in {2, 3}
    BY FusionAssumption, FS_CardinalityType DEF LegLists
  <2> SUFFICES ASSUME NEW d \in N, NEW e \in N
               PROVE  place(d) \in Nat /\ (place(d) = place(e) => d = e)
    OBVIOUS
  <2>1. PICK i \in 1..Len(lists) :
          /\ d \in Members(lists[i]) /\ lists[i] \in Rankings
          /\ place(d) = i * (Cardinality(Candidates) + 1) + RankIn(lists[i], d)
    BY FirstNaming
  <2>2. PICK j \in 1..Len(lists) :
          /\ e \in Members(lists[j]) /\ lists[j] \in Rankings
          /\ place(e) = j * (Cardinality(Candidates) + 1) + RankIn(lists[j], e)
    BY FirstNaming
  <2>3. /\ RankIn(lists[i], d) \in 1..Cardinality(Candidates) /\ lists[i][RankIn(lists[i], d)] = d
        /\ RankIn(lists[j], e) \in 1..Cardinality(Candidates) /\ lists[j][RankIn(lists[j], e)] = e
    BY <2>1, <2>2, RankTypes
  <2> DEFINE C == Cardinality(Candidates)
             r == RankIn(lists[i], d)
             q == RankIn(lists[j], e)
  <2> HIDE DEF place
  <2>4. i \in 1..3 /\ j \in 1..3 /\ C \in Nat /\ r \in 1..C /\ q \in 1..C
    BY <2>0, <2>3
  <2>5. place(d) = i * (C + 1) + r /\ place(e) = j * (C + 1) + q
    BY <2>1, <2>2
  <2>6. r = q /\ i = j => d = e
    BY <2>3
  <2> HIDE DEF C, r, q
  <2>7. i * (C + 1) + r \in Nat /\ (i * (C + 1) + r = j * (C + 1) + q => i = j /\ r = q)
    BY <2>4, RankPlaces
  <2> QED
    BY <2>5, <2>6, <2>7
<1>3. \A d, e \in N : <<d, e>> \in BestFirst(lists) <=>
        score(d) > score(e) \/ (score(d) = score(e) /\ place(d) < place(e))
  BY DEF BestFirst, FusesHigher
<1> HIDE DEF score, place, N
<1>4. \A d \in N : <<d, d>> \notin BestFirst(lists)
  BY <1>1, <1>2, <1>3
<1>5. \A d, e \in N : d # e => <<d, e>> \in BestFirst(lists) \/ <<e, d>> \in BestFirst(lists)
  BY <1>1, <1>2, <1>3
<1>6. ASSUME NEW d \in N, NEW e \in N, NEW f \in N,
             <<d, e>> \in BestFirst(lists), <<e, f>> \in BestFirst(lists)
      PROVE  <<d, f>> \in BestFirst(lists)
  <2>1. score(d) \in Nat /\ score(e) \in Nat /\ score(f) \in Nat
        /\ place(d) \in Nat /\ place(e) \in Nat /\ place(f) \in Nat
    BY <1>1, <1>2
  <2>2. /\ score(d) > score(e) \/ (score(d) = score(e) /\ place(d) < place(e))
        /\ score(e) > score(f) \/ (score(e) = score(f) /\ place(e) < place(f))
    BY <1>3, <1>6
  <2>3. score(d) > score(f) \/ (score(d) = score(f) /\ place(d) < place(f))
    BY <2>1, <2>2
  <2> QED
    BY <1>3, <2>3
<1> QED
  BY <1>4, <1>5, <1>6 DEF Ranks, N

(* Whom no list ranks below another comes before it.                       *)
LEMMA NotAboveIsBefore ==
  ASSUME NEW lists \in LegLists, NEW e \in Named(lists), NEW d,
         \A i \in DOMAIN lists : NotAbove(lists[i], e, d)
  PROVE  d \in Named(lists) /\ <<d, e>> \in BestFirst(lists)
<1>0. /\ Len(lists) \in {2, 3} /\ DOMAIN lists = 1..Len(lists) /\ \A i \in 1..Len(lists) : lists[i] \in Rankings
      /\ Cardinality(Candidates) \in Nat
  BY FusionAssumption, FS_CardinalityType DEF LegLists
<1>1. d \in Named(lists)
  BY DEF Named, NotAbove
<1>2. Fusion(lists, e) <= Fusion(lists, d) /\ Fusion(lists, e) \in Nat /\ Fusion(lists, d) \in Nat
  <2> DEFINE share(i, x) == ReciprocalRank(lists[i], i, x)
  <2>1. ASSUME NEW i \in 1..Len(lists)
        PROVE  share(i, e) <= share(i, d) /\ share(i, e) \in Nat /\ share(i, d) \in Nat
    <3>1. i \in 1..3 /\ lists[i] \in Rankings /\ NotAbove(lists[i], e, d)
      BY <1>0
    <3> QED
      BY <3>1, SharesAscend, ShareTypes
  <2>2. \A x : /\ Fusion(lists, x) \in Nat
               /\ Len(lists) = 2 => Fusion(lists, x) = share(1, x) + share(2, x)
               /\ Len(lists) = 3 => Fusion(lists, x) = (share(1, x) + share(2, x)) + share(3, x)
    BY FusionIsSum
  <2> HIDE DEF share
  <2>3. CASE Len(lists) = 2
    <3>1. 1 \in 1..Len(lists) /\ 2 \in 1..Len(lists)
      BY <2>3
    <3> QED
      BY <2>1, <2>2, <2>3, <3>1
  <2>4. CASE Len(lists) = 3
    <3>1. 1 \in 1..Len(lists) /\ 2 \in 1..Len(lists) /\ 3 \in 1..Len(lists)
      BY <2>4
    <3> QED
      BY <2>1, <2>2, <2>4, <3>1
  <2> QED
    BY <1>0, <2>3, <2>4
<1>3. FirstNamed(lists, d) < FirstNamed(lists, e)
  <2>1. PICK i \in 1..Len(lists) :
          /\ d \in Members(lists[i]) /\ lists[i] \in Rankings
          /\ \A k \in Listing(lists, d) : i <= k
          /\ FirstNamed(lists, d) = i * (Cardinality(Candidates) + 1) + RankIn(lists[i], d)
    BY <1>1, FirstNaming
  <2>2. PICK j \in 1..Len(lists) :
          /\ e \in Members(lists[j]) /\ lists[j] \in Rankings
          /\ FirstNamed(lists, e) = j * (Cardinality(Candidates) + 1) + RankIn(lists[j], e)
    BY FirstNaming
  <2>3. d \in Members(lists[j]) /\ RankIn(lists[j], d) < RankIn(lists[j], e)
    BY <1>0, <2>2 DEF NotAbove
  <2>4. i <= j
    BY <1>0, <2>1, <2>2, <2>3 DEF Listing
  <2>5. RankIn(lists[i], d) \in 1..Cardinality(Candidates) /\ RankIn(lists[j], e) \in 1..Cardinality(Candidates)
    BY <2>1, <2>2, RankTypes
  <2> DEFINE C == Cardinality(Candidates)
             r == RankIn(lists[i], d)
             q == RankIn(lists[j], e)
  <2>6. /\ i \in 1..3 /\ j \in 1..3 /\ (i < j \/ i = j)
        /\ C \in Nat /\ r \in 1..C /\ q \in 1..C
    BY <1>0, <2>4, <2>5
  <2>7. i = j => r < q
    BY <2>3
  <2>8. FirstNamed(lists, d) = i * (C + 1) + r /\ FirstNamed(lists, e) = j * (C + 1) + q
    BY <2>1, <2>2
  <2> HIDE DEF C, r, q
  <2>9. i * (C + 1) + r < j * (C + 1) + q
    BY <2>6, <2>7, RankPlaces
  <2> QED
    BY <2>8, <2>9
<1> QED
  BY <1>1, <1>2, <1>3 DEF BestFirst, FusesHigher

-----------------------------------------------------------------------------
(* The references.                                                         *)

(* The lists name finitely many rows.                                      *)
LEMMA NamedRows ==
  ASSUME NEW lists \in LegLists
  PROVE  Named(lists) \in SUBSET Candidates /\ IsFiniteSet(Named(lists))
<1>1. \A i \in DOMAIN lists : lists[i] \in Rankings
  BY DEF LegLists
<1>2. Named(lists) \in SUBSET Candidates
  BY <1>1, RankTypes DEF Named
<1> QED
  BY <1>2, FusionAssumption, FS_Subset

(* The best rows are the first of the ranking.                             *)
LEMMA BestRows ==
  ASSUME NEW lists \in LegLists
  PROVE  LET best == Members(FirstOf(ReciprocalRankFusion(lists), TopK)) IN
         /\ best \in SUBSET Named(lists) /\ IsFiniteSet(best) /\ Cardinality(best) <= TopK
         /\ \A e \in best, d \in Named(lists) : <<d, e>> \in BestFirst(lists) => d \in best
<1> DEFINE s == ReciprocalRankFusion(lists)
           m == IF Len(s) < TopK THEN Len(s) ELSE TopK
           first == FirstOf(s, TopK)
           best == Members(first)
<1>1. /\ s \in Seq(Named(lists)) /\ Members(s) = Named(lists)
      /\ \A i, j \in DOMAIN s : <<s[i], s[j]>> \in BestFirst(lists) => i < j
  BY NamedRows, FusionRanks, Sorting DEF ReciprocalRankFusion
<1>2. TopK \in Nat
  BY FusionAssumption
<1> HIDE DEF s
<1>3. m \in 0..Len(s) /\ m <= TopK /\ Len(s) \in Nat /\ DOMAIN s = 1..Len(s)
  BY <1>1, <1>2
<1>4. first = SubSeq(s, 1, m)
  BY DEF FirstOf
<1> HIDE DEF m, first
<1>5. first \in Seq(Named(lists)) /\ Len(first) = m /\ \A i \in 1..m : first[i] = s[i]
  BY <1>1, <1>3, <1>4
<1>6. DOMAIN first = 1..m
  BY <1>5
<1>7. best \in SUBSET Named(lists)
  BY <1>5, <1>6 DEF Members
<1>8. first \in Surjection(1..m, best)
  BY <1>5, <1>6 DEF Members, Surjection
<1> HIDE DEF best
<1>9. IsFiniteSet(best) /\ Cardinality(best) <= m
  <2>1. m \in Nat
    BY <1>3
  <2>2. IsFiniteSet(1..m) /\ Cardinality(1..m) = m
    BY <2>1, FS_Interval
  <2> QED
    BY <1>8, <2>2, FS_Surjection
<1>10. Cardinality(best) <= TopK
  BY <1>3, <1>9, FS_CardinalityType, <1>2
<1>11. ASSUME NEW e \in best, NEW d \in Named(lists), <<d, e>> \in BestFirst(lists)
       PROVE  d \in best
  <2>1. PICK j \in 1..m : e = s[j]
    BY <1>5, <1>6 DEF best, Members
  <2>2. PICK i \in DOMAIN s : d = s[i]
    BY <1>1 DEF Members
  <2>3. j \in DOMAIN s
    BY <1>3
  <2>4. i < j
    BY <1>1, <1>11, <2>1, <2>2, <2>3
  <2>5. i \in 1..m
    BY <1>3, <2>2, <2>4
  <2> QED
    BY <1>5, <1>6, <2>2, <2>5 DEF best, Members
<1> QED
  BY <1>7, <1>9, <1>10, <1>11 DEF best, first, s

(* The references are the best rows that were found, in their order.       *)
LEMMA ReferenceFacts ==
  ASSUME NEW lists \in LegLists, NEW found
  PROVE  LET s == References(lists, found) IN
         /\ s \in Seq(found) /\ Len(s) <= TopK
         /\ \A j \in DOMAIN s : s[j] \in Named(lists)
         /\ \A j \in DOMAIN s, d \in found :
              <<d, s[j]>> \in BestFirst(lists) /\ d \in Named(lists) =>
                d \in Members(s) /\ RankIn(s, d) < j
<1> DEFINE best == Members(FirstOf(ReciprocalRankFusion(lists), TopK))
           kept == best \cap found
           before == BestFirst(lists)
           s == SortedBy(kept, before)
<1>1. /\ best \in SUBSET Named(lists) /\ IsFiniteSet(best) /\ Cardinality(best) <= TopK
      /\ \A e \in best, d \in Named(lists) : <<d, e>> \in before => d \in best
  BY BestRows
<1>2. TopK \in Nat
  BY FusionAssumption
<1>3. References(lists, found) = s
  BY DEF References
<1>r. Ranks(before, Named(lists))
  BY FusionRanks
<1> HIDE DEF best, before
<1>4. kept \in SUBSET Named(lists) /\ IsFiniteSet(kept) /\ Cardinality(kept) <= Cardinality(best)
      /\ kept \in SUBSET best
  BY <1>1, FS_Subset
<1>5. Ranks(before, kept)
  BY <1>r, <1>4, OrderedPart
<1>k. \A d : d \in kept <=> d \in best /\ d \in found
  OBVIOUS
<1> HIDE DEF kept
<1>6. /\ s \in Seq(kept) /\ Len(s) = Cardinality(kept) /\ Members(s) = kept
      /\ \A i, j \in DOMAIN s : (s[i] = s[j] => i = j) /\ (<<s[i], s[j]>> \in before => i < j)
  BY <1>4, <1>5, Sorting
<1>7. Cardinality(kept) \in Nat /\ Cardinality(best) \in Nat
  BY <1>1, <1>4, FS_CardinalityType
<1> HIDE DEF s
<1>8. Len(s) <= TopK
  BY <1>1, <1>2, <1>4, <1>6, <1>7
<1>9. DOMAIN s = 1..Len(s) /\ \A j \in DOMAIN s : s[j] \in kept
  BY <1>6
<1>10. s \in Seq(found)
  <2>1. kept \subseteq found
    BY <1>k
  <2> QED
    BY <1>6, <2>1
<1>11. \A j \in DOMAIN s : s[j] \in Named(lists)
  BY <1>4, <1>9
<1>12. ASSUME NEW j \in DOMAIN s, NEW d \in found, <<d, s[j]>> \in before, d \in Named(lists)
       PROVE  d \in Members(s) /\ RankIn(s, d) < j
  <2>1. d \in kept
    BY <1>1, <1>4, <1>9, <1>12, <1>k
  <2>2. d \in Members(s)
    BY <1>6, <2>1
  <2>3. RankIn(s, d) \in DOMAIN s /\ s[RankIn(s, d)] = d
    BY <2>2 DEF Members, RankIn
  <2> QED
    BY <1>6, <1>12, <2>2, <2>3
<1> QED
  BY <1>3, <1>8, <1>10, <1>11, <1>12 DEF before

(* A search has not fused yet, or its references are those of its lists.   *)
FusionInvariant ==
  \/ legs = <<>> /\ documented = {} /\ fused = <<>>
  \/ legs \in LegLists /\ documented \subseteq Candidates /\ fused = References(legs, documented)

(* A ranked list names no more rows than there are.                        *)
LEMMA OrdersAreRankings ==
  ASSUME NEW found \in SUBSET Candidates, NEW order \in Orders(found)
  PROVE  order \in Rankings
<1>1. IsFiniteSet(found) /\ Cardinality(found) <= Cardinality(Candidates)
      /\ Cardinality(found) \in Nat /\ Cardinality(Candidates) \in Nat
  BY FusionAssumption, FS_Subset, FS_CardinalityType
<1>2. PICK n \in 0..Cardinality(found) : order \in [1..n -> found]
  BY DEF Orders
<1>3. n \in Nat /\ n <= Cardinality(Candidates)
  BY <1>1, <1>2
<1>4. order \in Seq(Candidates) /\ Len(order) = n /\ DOMAIN order = 1..n
  BY <1>2, <1>3
<1>5. \A i, j \in DOMAIN order : order[i] = order[j] => i = j
  BY DEF Orders
<1> QED
  BY <1>3, <1>4, <1>5 DEF Rankings

(* The keyword leg is a ranked list.                                       *)
LEMMA KeywordLegIsRanking ==
  ASSUME NEW score \in [Candidates -> BM25Scores]
  PROVE  KeywordLeg(score) \in Rankings
<1> DEFINE found == {d \in Candidates : score[d] > 0}
           before == {pair \in found \X found : ScoresHigher(score, pair[1], pair[2])}
           s == SortedBy(found, before)
           m == IF Len(s) < PerLegLimit THEN Len(s) ELSE PerLegLimit
<1>1. found \in SUBSET Candidates /\ IsFiniteSet(found)
      /\ Cardinality(found) <= Cardinality(Candidates)
      /\ Cardinality(found) \in Nat /\ Cardinality(Candidates) \in Nat
  BY FusionAssumption, FS_Subset, FS_CardinalityType
<1>2. \A d \in found : d \in Nat /\ score[d] \in Nat
  BY FusionAssumption
<1>3. \A d, e \in found : <<d, e>> \in before <=> score[d] > score[e] \/ (score[d] = score[e] /\ d < e)
  BY DEF ScoresHigher
<1>4. Ranks(before, found)
  <2> HIDE DEF before, found
  <2> QED
    BY <1>2, <1>3 DEF Ranks
<1>5. KeywordLeg(score) = SubSeq(s, 1, m)
  BY DEF KeywordLeg, FirstOf
<1> HIDE DEF before, found
<1>6. /\ s \in Seq(found) /\ Len(s) = Cardinality(found)
      /\ \A i, j \in DOMAIN s : s[i] = s[j] => i = j
  BY <1>1, <1>4, Sorting
<1> HIDE DEF s
<1>7. m \in 0..Len(s) /\ Len(s) \in Nat /\ DOMAIN s = 1..Len(s)
  BY <1>6, FusionAssumption
<1> HIDE DEF m
<1> DEFINE leg == SubSeq(s, 1, m)
<1>8. leg \in Seq(found) /\ Len(leg) = m /\ \A i \in 1..m : leg[i] = s[i]
  BY <1>6, <1>7
<1> HIDE DEF leg
<1>9. leg \in Seq(Candidates) /\ DOMAIN leg = 1..m
  BY <1>1, <1>8
<1>10. \A i, j \in DOMAIN leg : leg[i] = leg[j] => i = j
  BY <1>6, <1>7, <1>8, <1>9
<1>11. Len(leg) <= Cardinality(Candidates)
  BY <1>1, <1>6, <1>7, <1>8
<1>12. leg \in Rankings
  BY <1>9, <1>10, <1>11 DEF Rankings
<1> QED
  BY <1>5, <1>12 DEF leg

(* A search that fuses has ranked lists of its candidates.                 *)
LEMMA FusionStep ==
  ASSUME FusionNext
  PROVE  legs' \in LegLists /\ documented' \subseteq Candidates /\ fused' = References(legs', documented')
<1>1. PICK vector \in Orders(Candidates), score \in [Candidates -> BM25Scores] :
        \E found \in SUBSET (Members(vector) \cup Members(KeywordLeg(score))) :
          \E reranked \in {<<>>} \cup {order \in Orders(found) : Members(order) = found} :
            Fuse(vector, KeywordLeg(score), found, reranked)
  BY DEF FusionNext
<1>2. PICK found \in SUBSET (Members(vector) \cup Members(KeywordLeg(score))) :
        \E reranked \in {<<>>} \cup {order \in Orders(found) : Members(order) = found} :
          Fuse(vector, KeywordLeg(score), found, reranked)
  BY <1>1
<1>3. PICK reranked \in {<<>>} \cup {order \in Orders(found) : Members(order) = found} :
        Fuse(vector, KeywordLeg(score), found, reranked)
  BY <1>2
<1>4. vector \in Rankings /\ KeywordLeg(score) \in Rankings
  BY OrdersAreRankings, KeywordLegIsRanking
<1>5. found \in SUBSET Candidates
  BY <1>4, RankTypes
<1>6. reranked = <<>> \/ reranked \in Rankings
  BY <1>5, OrdersAreRankings
<1> DEFINE keyword == KeywordLeg(score)
<1>7. /\ legs' = IF reranked = <<>> THEN <<vector, keyword>> ELSE <<vector, keyword, reranked>>
      /\ documented' = found /\ fused' = References(legs', found)
  BY <1>3 DEF Fuse
<1>8. keyword \in Rankings
  BY <1>4
<1> HIDE DEF keyword
<1>9. legs' \in Seq(Rankings) /\ Len(legs') \in {2, 3}
  BY <1>4, <1>6, <1>7, <1>8
<1> QED
  BY <1>5, <1>7, <1>9 DEF LegLists

(* The invariant of a search.                                              *)
LEMMA FusionSteps == FusionInvariant /\ [FusionNext]_fusionVars => FusionInvariant'
BY FusionStep DEF FusionInvariant, fusionVars

(* Type correctness of the fusion.                                         *)
THEOREM FusionTypeCorrect == FusionSpec => []FusionTypeOK
<1>1. FusionInit => FusionInvariant
  BY DEF FusionInit, FusionInvariant
<1>2. FusionInvariant => FusionTypeOK
  <2> SUFFICES ASSUME FusionInvariant PROVE FusionTypeOK
    OBVIOUS
  <2>1. CASE legs = <<>> /\ documented = {} /\ fused = <<>>
    BY <2>1, FusionAssumption DEF FusionTypeOK
  <2>2. CASE legs \in LegLists /\ documented \subseteq Candidates /\ fused = References(legs, documented)
    <3>1. legs \in Seq(Rankings) /\ Rankings \subseteq Seq(Candidates)
      BY <2>2 DEF LegLists, Rankings
    <3>2. legs \in Seq(Seq(Candidates))
      BY <3>1
    <3> QED
      BY <2>2, <3>2, ReferenceFacts DEF FusionTypeOK
  <2> QED
    BY <2>1, <2>2 DEF FusionInvariant
<1> QED
  BY <1>1, <1>2, FusionSteps, PTL DEF FusionSpec

(* For any rows, scores, weights and limits: what no leg ranks below a     *)
(* cited row is cited above it (_reciprocal_rank_fusion, search.py:277).   *)
THEOREM FusionAlwaysRespectsLegs == FusionSpec => []FusionRespectsLegs
<1>1. FusionInit => FusionInvariant
  BY DEF FusionInit, FusionInvariant
<1>2. FusionInvariant => FusionRespectsLegs
  <2> SUFFICES ASSUME FusionInvariant, NEW j \in DOMAIN fused, NEW d \in documented,
                      \A i \in DOMAIN legs : NotAbove(legs[i], fused[j], d)
               PROVE  d \in Members(fused) /\ RankIn(fused, d) < j
    BY DEF FusionRespectsLegs
  <2>1. legs \in LegLists /\ fused = References(legs, documented)
    BY DEF FusionInvariant
  <2>2. fused[j] \in Named(legs)
    BY <2>1, ReferenceFacts
  <2>3. d \in Named(legs) /\ <<d, fused[j]>> \in BestFirst(legs)
    BY <2>1, <2>2, NotAboveIsBefore
  <2> QED
    BY <2>1, <2>3, ReferenceFacts
<1> QED
  BY <1>1, <1>2, FusionSteps, PTL DEF FusionSpec

=============================================================================
