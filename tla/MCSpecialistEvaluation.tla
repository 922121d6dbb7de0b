----------------------- MODULE MCSpecialistEvaluation -----------------------
(***************************************************************************)
(* SpecialistEvaluation with three golden cases that require the one       *)
(* expert: another limit makes another case the last, whose stale report   *)
(* then comes from another incident.                                       *)
(***************************************************************************)
EXTENDS SpecialistEvaluation

MCCases == <<"checkout", "ledger", "gateway">>
MCSpecialists == <<"database">>
MCRequiredRoles == [c \in Range(MCCases) |-> {"database"}]

=============================================================================
