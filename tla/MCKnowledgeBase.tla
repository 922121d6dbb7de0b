--------------------------- MODULE MCKnowledgeBase ---------------------------
EXTENDS KnowledgeBase

Version(number, chunks, trusted) == [number |-> number, chunks |-> chunks, trusted |-> trusted]

MCTitles == {"runbook", "policy"}

\* A second version that is shorter and not trusted.
MCVersions ==
  [runbook |-> {Version(1, 2, TRUE), Version(2, 1, FALSE)}, policy |-> {Version(1, 1, TRUE)}]

MCFlagged == {Text("policy", 1, 1), Text("runbook", 1, 1)}

=============================================================================
