------------------------ MODULE RecoveryVerification ------------------------
(***************************************************************************)
(* RecoveryVerifier.verify together with the adapter it asks: what is      *)
(* concluded about a service, some time after an action, from what the     *)
(* vendors' queries return about it.                                       *)
(*                                                                         *)
(* Time is counted in steps of the range query, back from the time of the  *)
(* query.  In each interval every signal is within its threshold (good),   *)
(* beyond it (bad), undefined (a quotient of zeros, of a service nobody    *)
(* called) or not observed at all (absent); vendors agree on it.  The      *)
(* optional transaction_failure_rate, which can only prevent a recovery,   *)
(* is left out.                                                            *)
(***************************************************************************)
EXTENDS Naturals, Sequences, FiniteSets, TelemetryAdapters

REQUIRED_SIGNALS == {"error_rate", "latency_p99"}

Health == {"good", "bad", "undefined", "absent"}

CONSTANTS
  VerifierAdapters,  \* the sets of vendors that may be active
  Readings,          \* bound: what an interval may bring
  Stabilization,     \* stabilization_window_seconds, in intervals
  Lookback,          \* time_window_seconds, in intervals
  MaxIntervals       \* bound: intervals

ASSUME VerificationAssumption ==
  /\ \A vendors \in VerifierAdapters : vendors \subseteq {"prometheus", "datadog", "splunk", "simulator"}
  /\ Readings \subseteq [REQUIRED_SIGNALS -> Health]
  /\ {Stabilization, Lookback, MaxIntervals} \subseteq Nat

VARIABLES
  signals,       \* what was observed in each interval so far
  verification   \* the verification: when the action was taken, how it ended

verificationVars == <<signals, verification>>

Outcome == {"none", "verified_recovery", "not_recovered", "inconclusive"}

\* vendors: those of the adapter, several if it is the composite one.
\* answered: those whose records it had.
NotActed == [at |-> "before", acted |-> 0, vendors |-> {}, dry_run |-> TRUE, executed |-> FALSE,
             answered |-> {}, outcome |-> "none"]

-----------------------------------------------------------------------------

Now == Len(signals)

(* Prometheus returns NaN for what is undefined, the others no value.      *)
HasValue(vendor, health) ==
  health \in IF vendor = "prometheus" THEN {"good", "bad", "undefined"} ELSE {"good", "bad"}

(* The intervals of the queried window in which the vendor has a value.    *)
SeenBy(vendor, metric) ==
  {i \in 1..Now : i + Lookback >= Now /\ HasValue(vendor, signals[i][metric])}

(* The records a vendor has of a metric.                                   *)
RecordsOf(vendor, reply, metric) ==
  IF vendor = "prometheus"
  THEN RangeRecords(SeenBy(vendor, metric), Grid(Now, Lookback, 1), 1)
  ELSE Fetched(vendor, SeenBy(vendor, metric),
               IF reply = "gap" THEN Now ELSE Newest(SeenBy(vendor, metric)), Now)

(* The records of fetch_signals, with their source and metric.             *)
Records(vendors, replies) ==
  UNION {{[vendor |-> vendor, metric |-> metric, observation |-> r.observation, stamp |-> r.stamp] :
            r \in RecordsOf(vendor, replies[vendor], metric)} :
         vendor \in vendors, metric \in REQUIRED_SIGNALS}

(* _filter_authoritative_records, for what is no simulation.               *)
AnyAuthoritative(v, records) == records   \* mutant: simulated records count for a live action

Authoritative(v, records) == {r \in records : v.dry_run \/ r.vendor # "simulator"}

FreshRecords(records) == {r \in records : r.stamp + 2 * Lookback >= Now}

(* Whether the value of a record may be, and is for certain, beyond its    *)
(* threshold.  A made-up zero is not and NaN is not; the simulator's       *)
(* values may be on either side, and so may Splunk's value over the window *)
(* if good and bad intervals are mixed in it.                              *)
MayExceed(r) ==
  CASE r.vendor = "simulator" -> TRUE
    [] r.vendor = "splunk" -> \E i \in SeenBy("splunk", r.metric) : signals[i][r.metric] = "bad"
    [] OTHER -> r.observation # 0 /\ signals[r.observation][r.metric] = "bad"

MustExceed(r) ==
  CASE r.vendor = "simulator" -> FALSE
    [] r.vendor = "splunk" -> \A i \in SeenBy("splunk", r.metric) : signals[i][r.metric] = "bad"
    [] OTHER -> MayExceed(r)

(* The outcomes verify may return for these records.                       *)
Verify(v, records) ==
  LET fresh == FreshRecords(Authoritative(v, records)) IN
  IF ~v.executed THEN {"not_recovered"}
  ELSE IF {r.metric : r \in fresh} # REQUIRED_SIGNALS THEN {"inconclusive"}
  ELSE (IF \E r \in fresh : MayExceed(r) THEN {"not_recovered"} ELSE {})
       \cup (IF \E r \in fresh : MustExceed(r) THEN {} ELSE {"verified_recovery"})

-----------------------------------------------------------------------------

VerificationInit ==
  /\ signals = <<>>
  /\ verification = NotActed

(* Outside: an interval passes.                                            *)
Interval(reading) ==
  /\ Now < MaxIntervals
  /\ verification.at # "done"
  /\ verification.at = "stabilizing" => Now < verification.acted + Stabilization
  /\ signals' = Append(signals, reading)
  /\ UNCHANGED verification

(* The action was run, or failed to, and verify is called.                 *)
BeginVerification(vendors, dry_run, executed) ==
  /\ verification.at = "before"
  /\ verification' = [at |-> "stabilizing", acted |-> Now, vendors |-> vendors, dry_run |-> dry_run,
                      executed |-> executed, answered |-> {}, outcome |-> "none"]
  /\ UNCHANGED signals

(* The end of the stabilization window, or none if nothing was executed.   *)
Stabilized == ~verification.executed \/ Now = verification.acted + Stabilization

Answered(replies) == {v \in verification.vendors : FetchOutcome(v, replies[v]) = "records"}

(* Every failure of the fetch is caught.  The composite adapter goes       *)
(* without the vendors that failed.                                        *)
EndVerification(replies) ==
  /\ verification.at = "stabilizing"
  /\ Stabilized
  /\ \E outcome \in
          IF FanOut([v \in verification.vendors |-> FetchOutcome(v, replies[v])]) = "records"
             \/ ~verification.executed
          THEN Verify(verification, Records(Answered(replies), replies))
          ELSE {"inconclusive"} :
       verification' = [verification EXCEPT !.at = "done", !.answered = Answered(replies), !.outcome = outcome]
  /\ UNCHANGED signals

VerificationNext ==
  \/ \E reading \in Readings : Interval(reading)
  \/ \E vendors \in VerifierAdapters, dry_run, executed \in BOOLEAN : BeginVerification(vendors, dry_run, executed)
  \/ \E replies \in [verification.vendors -> Replies] : EndVerification(replies)

VerificationSpec == VerificationInit /\ [][VerificationNext]_verificationVars

-----------------------------------------------------------------------------

VerificationTypeOK ==
  /\ signals \in Seq([REQUIRED_SIGNALS -> Health])
  /\ Len(signals) <= MaxIntervals
  /\ verification \in [at : {"before", "stabilizing", "done"}, acted : 0..MaxIntervals,
                       vendors : VerifierAdapters \cup {{}}, dry_run : BOOLEAN, executed : BOOLEAN,
                       answered : SUBSET verification.vendors, outcome : Outcome]

(* What a vendor has seen of a signal does not speak against a recovery.   *)
NothingBad(vendor, metric) ==
  LET health(i) == signals[i][metric]
      seen == SeenBy(vendor, metric)
  IN  seen = {} \/ CASE vendor = "prometheus" -> \A i \in seen : health(i) # "bad"
                     [] vendor = "datadog" -> health(Newest(seen)) = "good"
                     [] vendor = "splunk" -> \E i \in seen : health(i) = "good"

(* Recovery of a live service is only declared of what real vendors saw    *)
(* of it within the window: none that answered has seen a signal beyond    *)
(* its threshold (Prometheus at no time, Datadog not at last, Splunk not   *)
(* all the time), and each required signal has a value from one of them.   *)
(* With two exceptions a value is an observation: Datadog's adapter makes  *)
(* a zero of a series without values, and Prometheus's NaN for what is     *)
(* undefined is below every threshold, so a service nobody calls is        *)
(* declared recovered.  Simulated values prove nothing.                    *)
(* RecoveryVerifier.verify, verifier.py:67, DatadogAdapter.query_signal,   *)
(* datadog_adapter.py:158, PrometheusAdapter.query_signal,                 *)
(* prometheus_adapter.py:143.                                              *)
RecoveryWasObserved ==
  (verification.outcome = "verified_recovery" /\ ~verification.dry_run) =>
    /\ verification.executed
    /\ \A metric \in REQUIRED_SIGNALS :
         LET real == verification.answered \ {"simulator"} IN
         /\ \A vendor \in real : NothingBad(vendor, metric)
         /\ "datadog" \in real \/ \E vendor \in real : SeenBy(vendor, metric) # {}

=============================================================================
