---------------------------- MODULE LiveIngestion ----------------------------
(***************************************************************************)
(* TelemetryIngestionService: one poller per vendor, one bounded queue,    *)
(* one consumer with the stream detector, and the escalations it spawns.   *)
(*                                                                         *)
(* Each task runs until its next await: the pollers await each fetch and   *)
(* the pause after a poll, the consumer an empty queue.  One metric per    *)
(* service is enough: series of different metrics share nothing but the    *)
(* queue.  Time is counted in ticks of a clock: a source makes at most one *)
(* observation of a series in a tick and has it at once.  Whether a value  *)
(* is out of line is a choice once the baseline is long enough, how long a *)
(* fetch, a pause or a cooldown takes is left open, and flagged_by, a tag, *)
(* is left out.                                                            *)
(***************************************************************************)
EXTENDS Naturals, Sequences, FiniteSets, SequencesExt, TelemetryAdapters

CONSTANTS
  Polled,          \* the vendors that have an adapter
  Watched,         \* the services polled, in order
  Publishing,      \* the series the vendors have
  Window,          \* time_window_seconds of a fetch
  Step,            \* step of Prometheus's range query
  Staleness,       \* how long an observation has influence on what it computes
  MinSamples,      \* the baseline below which nothing is suspicious
  QueueCapacity,   \* asyncio.Queue(maxsize)
  MaxConcurrent,   \* max_concurrent_escalations
  OverflowAt,      \* consecutive failures from which 2**failures is no float
  MaxClock         \* bound: ticks

WatchedServices == {Watched[i] : i \in DOMAIN Watched}

Series == Polled \X WatchedServices

ASSUME IngestionAssumption ==
  /\ Polled \subseteq {"prometheus", "datadog", "splunk"}
  /\ Watched \in Seq(STRING) /\ Watched # <<>>
  /\ Publishing \subseteq Series
  /\ {Window, Step, Staleness, QueueCapacity, MaxConcurrent, OverflowAt} \subseteq Nat \ {0}
  /\ Step <= Staleness   \* max(15, window // 30) seconds, and five minutes
  /\ {MinSamples, MaxClock} \subseteq Nat

VARIABLES
  clock,        \* the time
  published,    \* the times of the observations of each series at its source
  poller,       \* the task of each vendor
  queue,        \* records fetched and not yet examined
  consuming,    \* the consumer's task has not been cancelled
  detector,     \* StreamDetector._series
  cooling,      \* _last_escalation is less than a cooldown ago
  escalations   \* tasks of _escalate that wait for the semaphore, and that hold it

ingestionVars == <<clock, published, poller, queue, consuming, detector, cooling, escalations>>

\* asked: when the fetch began, the end of the window it asks for.
\* waits: records were queued when the fetch began.  The consumer is woken
\* before the reply can be read, so they are gone when it ends.
Poller == [at : {"pausing", "fetching", "dead", "cancelled"}, next : DOMAIN Watched, asked : Nat,
           errors : 0..Len(Watched), failures : 0..OverflowAt, waits : BOOLEAN]

\* A record of the queue knows its series.
Queued(series, record) == [series |-> series, observation |-> record.observation, stamp |-> record.stamp]

-----------------------------------------------------------------------------

\* last: _SeriesState.last_ts, 0 for None.  values: the records the baseline
\* is made of, from the first on (a deque of HISTORY_LEN).
NoSeries == [last |-> 0, values |-> <<>>]

(* sorted(records, key=timestamp): no two records of a fetch have the same *)
(* stamp.                                                                  *)
InOrder(series, records) ==
  [k \in 1..Cardinality(records) |->
     Queued(series, CHOOSE r \in records : Cardinality({q \in records : q.stamp < r.stamp}) = k - 1)]

(* put_nowait for each of them: what does not fit is dropped.              *)
EnqueuedUnbounded(series, records) == queue \o InOrder(series, records)   \* mutant: the queue has no limit

EnqueuedUnsorted(series, records) ==   \* mutant: the newest record is put first
  LET sorted == InOrder(series, records)
      reversed == [k \in DOMAIN sorted |-> sorted[Len(sorted) + 1 - k]]
      room == QueueCapacity - Len(queue)
  IN queue \o SubSeq(reversed, 1, IF Len(sorted) < room THEN Len(sorted) ELSE room)

Enqueued(series, records) ==
  LET sorted == InOrder(series, records)
      room == QueueCapacity - Len(queue)
  IN queue \o SubSeq(sorted, 1, IF Len(sorted) < room THEN Len(sorted) ELSE room)

(* A poll has failed: the pause is computed from the failures in a row,    *)
(* and that computation ends the task when the power does not fit a float. *)
FailedForGood(task) ==   \* mutant: a failed poll ends the task
  [at |-> "dead", next |-> 1, asked |-> 0, errors |-> 0, failures |-> task.failures, waits |-> FALSE]

Failed(task) ==
  LET failures == task.failures + 1 IN
  [at |-> IF failures >= OverflowAt THEN "dead" ELSE "pausing", next |-> 1, asked |-> 0,
   errors |-> 0, failures |-> failures, waits |-> FALSE]

Succeeded(task) ==
  [at |-> "pausing", next |-> 1, asked |-> 0, errors |-> 0, failures |-> 0, waits |-> FALSE]

(* poll_once after the fetch for a service: the poll has failed if all of  *)
(* them failed, or at once on an exception that is no TelemetrySourceError.*)
AfterFetch(task, outcome, queued) ==
  LET errors == task.errors + (IF outcome = "source_error" THEN 1 ELSE 0) IN
  CASE outcome = "unexpected" -> Failed(task)
    [] outcome # "unexpected" /\ task.next < Len(Watched) ->
         [task EXCEPT !.next = task.next + 1, !.asked = clock, !.errors = errors,
                      !.waits = queued # <<>>]
    [] OTHER -> IF errors = Len(Watched) THEN Failed(task) ELSE Succeeded(task)

-----------------------------------------------------------------------------

IngestionInit ==
  /\ clock = 0
  /\ published = [s \in Series |-> {}]
  /\ poller = [v \in Polled |-> [at |-> "fetching", next |-> 1, asked |-> 0, errors |-> 0,
                               failures |-> 0, waits |-> FALSE]]
  /\ queue = <<>>
  /\ consuming = TRUE
  /\ detector = [s \in Series |-> NoSeries]
  /\ cooling = [w \in WatchedServices |-> FALSE]
  /\ escalations = [waiting |-> 0, running |-> 0]

(* Outside: time passes, and some of the sources make an observation.      *)
TimePasses(observing) ==
  /\ clock < MaxClock
  /\ clock' = clock + 1
  /\ published' = [s \in Series |-> published[s] \cup (IF s \in observing THEN {clock'} ELSE {})]
  /\ UNCHANGED <<poller, queue, consuming, detector, cooling, escalations>>

(* What lies in the window that ends at time t.                            *)
Within(s, t) == {o \in published[s] : o <= t /\ t <= o + Window}

(* What the reply to a query for series s made at time `asked` brings: a   *)
(* vendor that does not have the series answers with none.                 *)
Brought(s, asked, reply) ==
  IF FetchOutcome(s[1], reply) # "records" \/ s \notin Publishing THEN {}
  ELSE CASE s[1] = "prometheus" -> RangeRecords(published[s], Grid(asked, Window, Step), Staleness)
         [] s[1] = "datadog" ->
              Fetched("datadog", Within(s, asked), IF reply = "gap" THEN asked ELSE Newest(Within(s, asked)), clock)
         [] s[1] = "splunk" -> Fetched("splunk", Within(s, clock), clock, clock)

(* The fetch for the next service ends.                                    *)
EndFetch(v, reply) ==
  LET s == <<v, Watched[poller[v].next]>> IN
  /\ poller[v].at = "fetching"
  /\ ~poller[v].waits
  /\ UNCHANGED <<clock, published, consuming, detector, cooling, escalations>>
  /\ queue' = Enqueued(s, Brought(s, poller[v].asked, reply))
  /\ poller' = [poller EXCEPT ![v] = AfterFetch(poller[v], FetchOutcome(v, reply), queue')]

(* asyncio.sleep(delay) ends.                                              *)
Poll(v) ==
  /\ poller[v].at = "pausing"
  /\ poller' = [poller EXCEPT ![v].at = "fetching", ![v].asked = clock, ![v].waits = queue # <<>>]
  /\ UNCHANGED <<clock, published, queue, consuming, detector, cooling, escalations>>

(* StreamDetector.observe, as far as it keeps the record.                  *)
ObserveAny(series, r) ==   \* mutant: a record is not compared with the newest one
  [series EXCEPT ![r.series] = [last |-> r.stamp, values |-> Append(@.values, Record(r.observation, r.stamp))]]

Observe(series, r) ==
  IF series[r.series].last # 0 /\ r.stamp <= series[r.series].last THEN series
  ELSE [series EXCEPT ![r.series] = [last |-> r.stamp, values |-> Append(@.values, Record(r.observation, r.stamp))]]

(* The services a record of which may be suspicious: its baseline was long *)
(* enough before it.                                                       *)
MaySuspect == {w \in WatchedServices :
  \E v \in Polled : LET before == Len(detector[<<v, w>>].values)
                        after == Len(detector'[<<v, w>>].values)
                    IN after > before /\ after > MinSamples}

(* _consume: it does not yield before the queue is empty.  handle_record   *)
(* escalates the first suspicious record of a service outside its cooldown,*)
(* and the cooldown starts with the task, not with its success.            *)
Consume(suspicious) ==
  LET escalated == {w \in suspicious : ~cooling[w]} IN
  /\ consuming
  /\ queue # <<>>
  /\ queue' = <<>>
  /\ detector' = FoldLeft(Observe, detector, queue)
  /\ suspicious \subseteq MaySuspect
  /\ cooling' = [w \in WatchedServices |-> cooling[w] \/ w \in escalated]
  /\ escalations' = [escalations EXCEPT !.waiting = @ + Cardinality(escalated)]
  /\ poller' = [v \in Polled |-> [poller[v] EXCEPT !.waits = FALSE]]
  /\ UNCHANGED <<clock, published, consuming>>

EndCooldown(w) ==
  /\ cooling[w]
  /\ cooling' = [cooling EXCEPT ![w] = FALSE]
  /\ UNCHANGED <<clock, published, poller, queue, consuming, detector, escalations>>

BeginFirstEscalation ==   \* mutant: a stop ends the escalations that wait
  /\ escalations.waiting > 0
  /\ consuming
  /\ escalations.running < MaxConcurrent
  /\ escalations' = [waiting |-> escalations.waiting - 1, running |-> escalations.running + 1]
  /\ UNCHANGED <<clock, published, poller, queue, consuming, detector, cooling>>

(* _escalate, up to process_event and after it.                            *)
BeginEscalation ==
  /\ escalations.waiting > 0
  /\ escalations.running < MaxConcurrent
  /\ escalations' = [waiting |-> escalations.waiting - 1, running |-> escalations.running + 1]
  /\ UNCHANGED <<clock, published, poller, queue, consuming, detector, cooling>>

EndEscalation ==
  /\ escalations.running > 0
  /\ escalations' = [escalations EXCEPT !.running = @ - 1]
  /\ UNCHANGED <<clock, published, poller, queue, consuming, detector, cooling>>

(* stop(): the pollers and the consumer are cancelled, escalations go on.  *)
Stop ==
  /\ consuming
  /\ consuming' = FALSE
  /\ poller' = [v \in Polled |-> [poller[v] EXCEPT !.at = IF @ = "dead" THEN "dead" ELSE "cancelled"]]
  /\ UNCHANGED <<clock, published, queue, detector, cooling, escalations>>

IngestionNext ==
  \/ \E observing \in SUBSET Publishing : TimePasses(observing)
  \/ \E v \in Polled, reply \in Replies : EndFetch(v, reply)
  \/ \E v \in Polled : Poll(v)
  \/ \E suspicious \in SUBSET WatchedServices : Consume(suspicious)
  \/ \E w \in WatchedServices : EndCooldown(w)
  \/ BeginEscalation
  \/ EndEscalation
  \/ Stop

(* The event loop runs every task that can go on.  A source that is asked  *)
(* again and again answers at some time, and at some time while no other   *)
(* fetch has ended in the same round of the loop.  process_event returns.  *)
IngestionFairness ==
  /\ \A v \in Polled :
       /\ WF_ingestionVars(Poll(v))
       /\ WF_ingestionVars(\E reply \in Replies : EndFetch(v, reply))
       /\ \A i \in DOMAIN Watched :
            SF_ingestionVars(poller[v].next = i /\ queue = <<>> /\ EndFetch(v, "points"))
  /\ WF_ingestionVars(\E suspicious \in SUBSET WatchedServices : Consume(suspicious))
  /\ WF_ingestionVars(BeginEscalation)
  /\ WF_ingestionVars(EndEscalation)

IngestionSpec == IngestionInit /\ [][IngestionNext]_ingestionVars /\ IngestionFairness

-----------------------------------------------------------------------------

IngestionTypeOK ==
  /\ clock \in Nat
  /\ published \in [Series -> SUBSET Nat]
  /\ poller \in [Polled -> Poller]
  /\ queue \in Seq([series : Series, observation : Nat, stamp : Nat])
  /\ Len(queue) <= QueueCapacity
  /\ consuming \in BOOLEAN
  /\ detector \in [Series -> [last : Nat, values : Seq([observation : Nat, stamp : Nat])]]
  /\ cooling \in [WatchedServices -> BOOLEAN]
  /\ escalations \in [waiting : Nat, running : 0..MaxConcurrent]

(* The windows of successive range queries overlap, their grids are        *)
(* shifted against each other and a full queue drops records.  So one      *)
(* observation may enter a baseline several times, under later and later   *)
(* stamps, and others never.  But a baseline takes one value for a time    *)
(* and goes forward: its stamps increase and its observations never go     *)
(* back, and each of its records is what the source says of that time.     *)
(* (For a source that publishes late the last is not true.)                *)
(* StreamDetector.observe, ingestion.py:61, poll_once, ingestion.py:150,   *)
(* PrometheusAdapter.fetch_signals, prometheus_adapter.py:65.              *)
BaselineGoesForward ==
  \A s \in Series : s[1] = "prometheus" =>
    \A i \in DOMAIN detector[s].values :
      LET r == detector[s].values[i] IN
      /\ r.observation = Newest({o \in published[s] : o <= r.stamp})
      /\ \A j \in 1..(i - 1) : /\ detector[s].values[j].stamp < r.stamp
                             /\ detector[s].values[j].observation <= r.observation

(* The grid passes over observations, the detector over records that are   *)
(* older than the newest it has seen.  Yet nothing is passed over by a     *)
(* whole step: once the baseline is a step past an observation, it has a   *)
(* record of less than a step after it, or the observation has left the    *)
(* window (the polls failed or the queue was full for as long as that).    *)
PassedByLessThanAStep ==
  \A s \in Series : s[1] = "prometheus" =>
    \A o \in published[s] :
      detector[s].last >= o + Step /\ clock <= o + Window =>
        \E i \in DOMAIN detector[s].values : detector[s].values[i].stamp \in o..(o + Step - 1)

(* While it is in the window, the newest observation of a source is        *)
(* examined at last, whatever the other vendors and services do: their     *)
(* outages only delay it.  It is not if ingestion is stopped, or after     *)
(* OverflowAt failures in a row, which end the poller.  _poll_vendor,      *)
(* ingestion.py:176.                                                       *)
NewestExamined ==
  \A s \in {q \in Publishing : q[1] = "prometheus"} :
    (published[s] # {}) ~>
      \/ detector[s].last >= Newest(published[s])
      \/ clock > Newest(published[s]) + Window
      \/ ~consuming
      \/ poller[s[1]].failures = OverflowAt

(* Every escalation is carried out, also those that a stop leaves waiting  *)
(* for the semaphore.  _escalate, ingestion.py:231.                        *)
EscalationsEnd == (escalations.waiting + escalations.running > 0) ~> (escalations.waiting + escalations.running = 0)

=============================================================================
