--------------------------- MODULE ApprovalContract ---------------------------
(***************************************************************************)
(* What the incident lifecycle promises its operators, whatever happens    *)
(* inside: the durable status of an incident moves along the blueprint of  *)
(* orchestrator.py, a proposal gets at most one verdict, and an approval   *)
(* lets its proposal reach the infrastructure at most once.                *)
(***************************************************************************)
EXTENDS Naturals

CONSTANT Slots   \* the incident's proposals

VARIABLES
  status,   \* durable status
  verdict,  \* what people decided on each proposal
  posted    \* how often each approved proposal was carried out

contractVars == <<status, verdict, posted>>

InHands == {"detected", "investigating", "recommendation_ready"}

Settled == {"verified_recovered", "escalated"}

ContractInit ==
  /\ status = "absent"
  /\ verdict = [s \in Slots |-> "none"]
  /\ posted = [s \in Slots |-> 0]

\* The agents carry the incident forward, up to the point where they ask,
\* act and verify by themselves, or hand over.
Handle ==
  /\ \/ status = "absent" /\ status' = "detected"
     \/ status = "detected" /\ status' = "investigating"
     \/ status = "investigating" /\ status' = "recommendation_ready"
     \/ status = "recommendation_ready" /\ status' \in Settled \cup {"awaiting_approval"}
  /\ UNCHANGED <<verdict, posted>>

\* A person decides; only an undecided proposal of a waiting incident.
Decide(s) ==
  /\ status = "awaiting_approval"
  /\ verdict[s] = "none"
  /\ \/ verdict' = [verdict EXCEPT ![s] = "approved"] /\ status' = "executing"
     \/ verdict' = [verdict EXCEPT ![s] = "rejected"] /\ status' = "escalated"
  /\ UNCHANGED posted

\* An approved proposal is carried out, once.
CarryOut(s) ==
  /\ status = "executing"
  /\ verdict[s] = "approved"
  /\ posted[s] = 0
  /\ posted' = [posted EXCEPT ![s] = 1]
  /\ UNCHANGED <<status, verdict>>

\* The outcome becomes durable; recovery only of what was carried out.
Conclude ==
  /\ status = "executing"
  /\ status' \in Settled
  /\ status' = "verified_recovered" => \E s \in Slots : posted[s] = 1
  /\ UNCHANGED <<verdict, posted>>

ContractNext == Handle \/ Conclude \/ \E s \in Slots : Decide(s) \/ CarryOut(s)

ContractSpec == ContractInit /\ [][ContractNext]_contractVars

=============================================================================
