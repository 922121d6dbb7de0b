------------------------- MODULE HypothesisGrounding -------------------------
(***************************************************************************)
(* agents/diagnosis/hypotheses.py: what the collected evidence lets a      *)
(* diagnosis claim.  The model cites evidence by id ("E1", "E2", ...); an  *)
(* id outside the timeline is dropped, and the confidence is capped by     *)
(* what is left.                                                           *)
(*                                                                         *)
(* An id stands for the item at its index, so a citation is the item it    *)
(* names with the way the id is spelled: an item that was not collected is *)
(* an index the timeline does not have.  A confidence is a percentage.     *)
(***************************************************************************)
EXTENDS Integers, FiniteSets, Sequences

Uncalibrated == 0
Low == 1
Medium == 2
High == 3
Bands == Uncalibrated .. High

LowConfidenceCap == 40
MediumConfidenceCap == 70

Citation(item, spelling) == [item |-> item, spelling |-> spelling]

Capped(value, ceiling) == IF value <= ceiling THEN value ELSE ceiling

IsReal(item) == item.source # "simulator"

(* The dictionary is keyed by the spelled id: one item cited as "E1" and   *)
(* as "E01" is resolved to two.                                            *)
Resolved(citations, evidence) == {c \in citations : c.item \in evidence}

ResolvedReal(citations, evidence) == {c \in Resolved(citations, evidence) : IsReal(c.item)}

GroundedBySupport(h, evidence) ==   \* mutant: simulated support counts
  LET support == Resolved(h.support, evidence)
      contra == Resolved(h.contra, evidence)
      ceiling == IF support = {} THEN Low
                 ELSE IF Cardinality(support) = 1 \/ contra # {} THEN Medium ELSE High
  IN  [support |-> support, contra |-> contra, band |-> Capped(h.band, ceiling)]

(* One hypothesis of the model, its citations resolved and its band        *)
(* lowered to what its real support justifies.                             *)
Grounded(h, evidence) ==
  LET real == ResolvedReal(h.support, evidence)
      contra == Resolved(h.contra, evidence)
      ceiling == IF real = {} THEN Low
                 ELSE IF Cardinality(real) = 1 \/ contra # {} THEN Medium ELSE High
  IN  [support |-> Resolved(h.support, evidence), contra |-> contra,
       band |-> Capped(h.band, ceiling)]

Lead(g) == Cardinality(g.support) - Cardinality(g.contra)

(* The stable sort by lead, best first, seen from its first place.         *)
First(grounded) ==
  CHOOSE i \in DOMAIN grounded :
    /\ \A j \in DOMAIN grounded : Lead(grounded[j]) <= Lead(grounded[i])
    /\ \A j \in 1 .. (i - 1) : Lead(grounded[j]) < Lead(grounded[i])

(* cap_overall_confidence: the first hypothesis decides.                   *)
OverallConfidence(confidence, grounded, evidence) ==
  IF \/ \A e \in evidence : ~ IsReal(e)
     \/ grounded = << >>
     \/ grounded[First(grounded)].support = {}
     \/ grounded[First(grounded)].band \in {Uncalibrated, Low}
  THEN Capped(confidence, LowConfidenceCap)
  ELSE IF grounded[First(grounded)].band = Medium
       THEN Capped(confidence, MediumConfidenceCap)
       ELSE confidence

=============================================================================
