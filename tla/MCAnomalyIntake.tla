--------------------------- MODULE MCAnomalyIntake ---------------------------
EXTENDS AnomalyIntake

Firing(labels, words) == [firing |-> TRUE, labels |-> labels, severity |-> "page", words |-> words]

ResolvedAlert(labels) == [Firing(labels, {}) EXCEPT !.firing = FALSE]

MCPayloads == {
  <<Firing({<<"service", "checkout">>}, {"latency"}),
    ResolvedAlert({<<"service", "payment">>}),
    Firing({<<"service", "">>, <<"pod", "payment">>}, {"error", "rate"})>>,
  <<Firing({<<"app", "checkout">>}, {"slow", "error"}),
    Firing({}, {"traffic"}),
    Firing({<<"job", "payment">>}, {"traffic"})>> }

=============================================================================
