--------------------------- MODULE MCDiagnosisGraph ---------------------------
(* Three affected services of which two are examined, vendors alone and in *)
(* pairs, and hypotheses that cite real, simulated and uncollected items,  *)
(* one item under two spellings, and items against them.                   *)
EXTENDS DiagnosisGraph

MCAffected == <<"checkout", "ledger", "search">>
MCMetrics == {"latency"}
MCAdapterSets == {{"prometheus"}, {"prometheus", "simulator"}, {"datadog", "splunk"}}
MCExperts == {"application", "database"}

Sampled(service) == Citation(Item("prometheus", service, "latency"), "plain")
Padded(c) == [c EXCEPT !.spelling = "padded"]
Synthetic(service) == Citation(Item("simulator", service, "latency"), "plain")
Deployed == Citation(Deployment, "plain")

Raw(support, contra, band) == [support |-> support, contra |-> contra, band |-> band]

MCRawHypotheses ==
  {Raw({Sampled("ledger"), Padded(Sampled("ledger"))}, {}, High),
   Raw({Sampled("ledger"), Deployed}, {Synthetic("ledger")}, High),
   Raw({Synthetic("checkout"), Synthetic("ledger")}, {}, High)}

MCRawConfidences == {30, 95, 101}

=============================================================================
