------------------------------ MODULE RankFusion ------------------------------
(***************************************************************************)
(* How a hybrid search makes one ranking of two or three: the vector leg,  *)
(* the keyword leg and, when it works, the reranker.  An algorithm, with   *)
(* one action: a search that fuses what its legs have returned.            *)
(***************************************************************************)
EXTENDS Naturals, Sequences, FiniteSets

CONSTANTS
  Candidates,    \* the rows a search may find: numbers, in the order of their doc_id
  RerankWeight,  \* rag_rerank_weight; the other legs weigh 1
  PerLegLimit,   \* rows of a leg
  TopK,          \* rag_top_k
  BM25Scores     \* the scores a row may have in the keyword leg

RRF_K == 60

ASSUME FusionAssumption ==
  /\ Candidates \subseteq Nat
  /\ IsFiniteSet(Candidates)
  /\ {RerankWeight, PerLegLimit, TopK} \subseteq Nat \ {0}
  /\ BM25Scores \subseteq Nat

VARIABLES
  legs,        \* the ranked lists of the search, best first
  documented,  \* the rows whose text was found
  fused        \* the references, best first

fusionVars == <<legs, documented, fused>>

Orders(found) == {order \in UNION {[1..n -> found] : n \in 0..Cardinality(found)} :
                    \A i, j \in DOMAIN order : order[i] = order[j] => i = j}

Members(order) == {order[i] : i \in DOMAIN order}

RankIn(order, d) == CHOOSE i \in DOMAIN order : order[i] = d

(* The rows in the order of a set of pairs, which is total on them.        *)
SortedBy(found, before) ==
  [i \in 1..Cardinality(found) |-> CHOOSE d \in found : Cardinality({e \in found : <<e, d>> \in before}) = i - 1]

FirstOf(order, n) == SubSeq(order, 1, IF Len(order) < n THEN Len(order) ELSE n)

-----------------------------------------------------------------------------

(* BM25Corpus.rank: only what scores above zero, ties by doc_id.           *)
ScoresHigher(score, d, e) == score[d] > score[e] \/ (score[d] = score[e] /\ d < e)

KeywordLeg(score) ==
  LET found == {d \in Candidates : score[d] > 0}
      before == {pair \in found \X found : ScoresHigher(score, pair[1], pair[2])}
  IN FirstOf(SortedBy(found, before), PerLegLimit)

Weight(i) == IF i = 3 THEN RerankWeight ELSE 1

(* Reciprocal ranks over their common denominator.                         *)
Denominator ==
  LET product[rank \in 0..Cardinality(Candidates)] ==
        IF rank = 0 THEN 1 ELSE (RRF_K + rank) * product[rank - 1]
  IN product[Cardinality(Candidates)]

ReciprocalRank(list, i, d) ==
  IF d \in Members(list) THEN (Weight(i) * Denominator) \div (RRF_K + RankIn(list, d)) ELSE 0

(* _reciprocal_rank_fusion: each list in turn adds to a row's score.       *)
Fusion(lists, d) ==
  LET score[i \in 0..Len(lists)] == IF i = 0 THEN 0 ELSE score[i - 1] + ReciprocalRank(lists[i], i, d)
  IN score[Len(lists)]

Listing(lists, d) == {i \in DOMAIN lists : d \in Members(lists[i])}

Named(lists) == UNION {Members(lists[i]) : i \in DOMAIN lists}

(* A row comes into the dictionary where the lists first name it.          *)
FirstNamed(lists, d) ==
  LET i == CHOOSE i \in Listing(lists, d) : \A j \in Listing(lists, d) : i <= j
  IN i * (Cardinality(Candidates) + 1) + RankIn(lists[i], d)

(* The sort is stable.                                                     *)
FusesLower(lists, d, e) ==   \* mutant: the sort is not reversed
  \/ Fusion(lists, d) < Fusion(lists, e)
  \/ Fusion(lists, d) = Fusion(lists, e) /\ FirstNamed(lists, d) < FirstNamed(lists, e)

FusesHigher(lists, d, e) ==
  \/ Fusion(lists, d) > Fusion(lists, e)
  \/ Fusion(lists, d) = Fusion(lists, e) /\ FirstNamed(lists, d) < FirstNamed(lists, e)

BestFirst(lists) == {pair \in Named(lists) \X Named(lists) : FusesHigher(lists, pair[1], pair[2])}

ReciprocalRankFusion(lists) == SortedBy(Named(lists), BestFirst(lists))

(* The references: of the best rows those that _get_documents found.       *)
References(lists, found) ==
  SortedBy(Members(FirstOf(ReciprocalRankFusion(lists), TopK)) \cap found, BestFirst(lists))

-----------------------------------------------------------------------------

FusionInit ==
  /\ legs = <<>>
  /\ documented = {}
  /\ fused = <<>>

(* The reranker orders the rows whose text was found, or it has failed, or *)
(* is turned off.                                                          *)
Fuse(vector, keyword, found, reranked) ==
  /\ Len(vector) <= PerLegLimit
  /\ legs' = IF reranked = <<>> THEN <<vector, keyword>> ELSE <<vector, keyword, reranked>>
  /\ documented' = found
  /\ fused' = References(legs', found)

FusionNext ==
  /\ legs = <<>>
  /\ \E vector \in Orders(Candidates), score \in [Candidates -> BM25Scores] :
       \E found \in SUBSET (Members(vector) \cup Members(KeywordLeg(score))) :
         \E reranked \in {<<>>} \cup {order \in Orders(found) : Members(order) = found} :
           Fuse(vector, KeywordLeg(score), found, reranked)

FusionSpec == FusionInit /\ [][FusionNext]_fusionVars

-----------------------------------------------------------------------------

FusionTypeOK ==
  /\ legs \in Seq(Seq(Candidates))
  /\ documented \subseteq Candidates
  /\ fused \in Seq(documented) /\ Len(fused) <= TopK

\* e is not ranked above d by the list: what it does not name comes last.
NotAbove(order, e, d) ==
  e \in Members(order) => d \in Members(order) /\ RankIn(order, d) < RankIn(order, e)

(* A row that no leg ranks below a cited one is cited too, and above it:   *)
(* the weights, the cut to the best and texts that are missing do not turn *)
(* the verdict of the legs around.                                         *)
(* _reciprocal_rank_fusion, search.py:277.                                 *)
FusionRespectsLegs ==
  \A j \in DOMAIN fused : \A d \in documented :
    (d # fused[j] /\ \A i \in DOMAIN legs : NotAbove(legs[i], fused[j], d)) =>
      d \in Members(fused) /\ RankIn(fused, d) < j

=============================================================================
