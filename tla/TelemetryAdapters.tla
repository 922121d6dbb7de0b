-------------------------- MODULE TelemetryAdapters --------------------------
(***************************************************************************)
(* What the vendor adapters make of a vendor's reply: the records of a     *)
(* fetch, or the way it fails.  A TelemetrySourceError is a failure the    *)
(* callers count and survive one by one; any other exception ends what     *)
(* they were doing.                                                        *)
(*                                                                         *)
(* A record is the observation it carries (the time at which a source      *)
(* observed one metric of one service, 0 for none) and the time it is      *)
(* stamped with, which is often not the time of the observation.           *)
(***************************************************************************)
EXTENDS Naturals, FiniteSets

\* gap: the source has opened its next interval and has no value for it yet.
\* garbled: no JSON.  misshapen: JSON of another shape.
\* refused: EgressViolationError, raised before the request is sent, also for
\* a host that cannot be resolved; it is no httpx.HTTPError.
Replies == {"points", "gap", "garbled", "misshapen", "error_status", "unreachable", "refused"}

Failures == {"source_error", "unexpected"}
Outcomes == {"records"} \cup Failures

(* PrometheusAdapter.query_signal.                                         *)
PrometheusOutcome(reply) ==
  CASE reply \in {"points", "gap"} -> "records"
    [] reply \in {"misshapen", "refused"} -> "unexpected"
    [] OTHER -> "source_error"

(* DatadogAdapter.query_signal: the attributes of a reply of another shape *)
(* are asked for under the same handler.                                   *)
DatadogOutcome(reply) ==
  CASE reply \in {"points", "gap"} -> "records"
    [] reply = "refused" -> "unexpected"
    [] OTHER -> "source_error"

(* SplunkAdapter.query_signal skips the lines it cannot parse.             *)
SplunkOutcome(reply) ==
  CASE reply \in {"points", "gap", "garbled"} -> "records"
    [] reply \in {"misshapen", "refused"} -> "unexpected"
    [] OTHER -> "source_error"

(* fetch_signals asks for one metric after another and lets the first      *)
(* failure through: the records of the metrics before it are lost.         *)
FetchOutcome(vendor, reply) ==
  CASE vendor = "prometheus" -> PrometheusOutcome(reply)
    [] vendor = "datadog" -> DatadogOutcome(reply)
    [] vendor = "splunk" -> SplunkOutcome(reply)
    [] OTHER -> "records"

Record(observation, stamp) == [observation |-> observation, stamp |-> stamp]

Newest(observed) == IF observed = {} THEN 0 ELSE CHOOSE i \in observed : \A j \in observed : j <= i

(* The times a range query of Prometheus is evaluated at: from the begin   *)
(* of its window on, a step apart.  The last one need not be its end, and  *)
(* all of them move with the time the query is made at.                    *)
Grid(asked, window, step) == {t \in 0..asked : \E k \in 0..window : t + window = asked + k * step}

(* The newest observation a query evaluated at time t rests on; what was   *)
(* observed `staleness` ago has no influence any more.                     *)
Latest(observed, t, staleness) == Newest({o \in observed : o <= t /\ t < o + staleness})

(* What a range query returns, stamped with the times of evaluation.       *)
RangeRecords(observed, grid, staleness) ==
  {Record(Latest(observed, t, staleness), t) : t \in {g \in grid : Latest(observed, g, staleness) # 0}}

(* What the other queries return when these observations lie in their      *)
(* window and `last` is the time of the last interval the source knows, 0  *)
(* if there is none.  Datadog's adapter makes one record of a series: its  *)
(* newest value, or zero (observation 0) if no interval has one, with the  *)
(* time of the last interval.  Splunk computes one value over the window,  *)
(* and its record has the time at which the adapter reads the reply.       *)
Fetched(vendor, observed, last, now) ==
  CASE vendor = "datadog" -> IF last = 0 THEN {} ELSE {Record(Newest(observed), last)}
    [] vendor = "splunk" -> IF observed = {} THEN {} ELSE {Record(Newest(observed), now)}
    [] vendor = "simulator" -> {Record(0, now)}

(* CompositeTelemetryAdapter._fan_out: vendors that fail are left out      *)
(* unless all fail, an unexpected exception of one is let through.         *)
FanOut(outcomes) ==
  CASE \E v \in DOMAIN outcomes : outcomes[v] = "unexpected" -> "unexpected"
    [] \A v \in DOMAIN outcomes : outcomes[v] = "source_error" -> "source_error"
    [] OTHER -> "records"

=============================================================================
