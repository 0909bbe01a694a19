----------------------------- MODULE Confidence -----------------------------
(***************************************************************************)
(* The status a rule candidate gets from its evidence                      *)
(* (internal/domain/confidence.go), for a candidate whose last evidence is *)
(* of now, so that RecencyFactor is 1.  Without contradictions pHat is 1   *)
(* and WilsonLower(n, n) is n / (n + z^2) with z = 1.28: the confidence    *)
(*   n / (n + 1.6384)  *  scope consistency                                *)
(* is compared with the threshold 0.55 in whole numbers.                   *)
(***************************************************************************)
EXTENDS Naturals

DefaultMinEvidenceCount == 3
DefaultUnderReviewThreshold == 55    \* in percent
WilsonZSquared == 16384              \* times 10^-4

\* Percent, for evidence of `cases` distinct case runs and one tenant: 80, and 10
\* for each case more than one, up to 100.
ScopeConsistencyFactor(cases) ==
  IF cases = 0 THEN 80 ELSE IF cases >= 3 THEN 100 ELSE 70 + 10 * cases

\* CandidateConfidence(n, 0) >= DefaultUnderReviewThreshold.
ConfidentEnough(evidence, cases) ==
  evidence * 10000 * ScopeConsistencyFactor(cases)
    >= DefaultUnderReviewThreshold * (evidence * 10000 + WilsonZSquared)

\* Mutation of CandidateStatus: contradictions are not looked at.
CandidateStatusIgnores(evidence, contradicting, cases) ==
  IF ConfidentEnough(evidence, cases) /\ evidence >= DefaultMinEvidenceCount
    THEN "under_review"
    ELSE "candidate"

CandidateStatus(evidence, contradicting, cases) ==
  IF /\ ConfidentEnough(evidence, cases)
     /\ evidence >= DefaultMinEvidenceCount
     /\ contradicting = 0
    THEN "under_review"
    ELSE "candidate"

\* What that comes to: three corrections of at least two cases, or four.
Earned(evidence, contradicting, cases) ==
  /\ contradicting = 0
  /\ evidence >= 3
  /\ evidence >= 4 \/ cases >= 2
=============================================================================
