---------------------------- MODULE Learning_proofs ----------------------------
(***************************************************************************)
(* Theorems about Confidence, for all counts, and about Learning, for all  *)
(* finite sets of corrections, promotions and cases and any number of      *)
(* failures and of calls in progress.                                      *)
(***************************************************************************)
EXTENDS Learning, FiniteSetTheorems, TLAPS

-----------------------------------------------------------------------------
(* Confidence                                                              *)

\* The score and the threshold ask for exactly what Earned says: the status
\* is decided by three corrections of two cases, or four, and no contradiction.
THEOREM StatusIsEarned ==
  ASSUME NEW n \in Nat, NEW contra \in Nat, NEW k \in Nat
  PROVE  CandidateStatus(n, contra, k) = "under_review" <=> Earned(n, contra, k)
<1> DEFINE S == ScopeConsistencyFactor(k)
<1>1. S \in {80, 90, 100} /\ (k >= 2 <=> S # 80)
  BY DEF ScopeConsistencyFactor
<1>2. ConfidentEnough(n, k) <=> n * 10000 * S >= 550000 * n + 901120
  <2>1. ConfidentEnough(n, k) <=> n * 10000 * S >= 55 * (n * 10000 + 16384)
    BY DEF ConfidentEnough, DefaultUnderReviewThreshold, WilsonZSquared
  <2> QED
    BY <2>1, <1>1
<1>3. CASE n < 3
  BY <1>3 DEF CandidateStatus, Earned, DefaultMinEvidenceCount
<1>4. CASE n >= 3
  <2>1. CASE S = 80
    <3>1. ConfidentEnough(n, k) <=> n >= 4
      BY <1>2, <2>1, <1>4
    <3> QED
      BY <3>1, <1>1, <2>1, <1>4 DEF CandidateStatus, Earned, DefaultMinEvidenceCount
  <2>2. CASE S = 90
    <3>1. ConfidentEnough(n, k)
      BY <1>2, <2>2, <1>4
    <3> QED
      BY <3>1, <1>1, <2>2, <1>4 DEF CandidateStatus, Earned, DefaultMinEvidenceCount
  <2>3. CASE S = 100
    <3>1. ConfidentEnough(n, k)
      BY <1>2, <2>3, <1>4
    <3> QED
      BY <3>1, <1>1, <2>3, <1>4 DEF CandidateStatus, Earned, DefaultMinEvidenceCount
  <2> QED
    BY <1>1, <2>1, <2>2, <2>3
<1> QED
  BY <1>3, <1>4

-----------------------------------------------------------------------------
(* Types                                                                   *)

USE DEF LearningAssumption, vars, merges, promotes, rulebook, Begin, MergerTo,
        PromotionTo, MergeReturns, SaveCandidate, Said, Unsaid, Statuses,
        Rule, NoRule, Skill, NoSkill

LEMMA NoCandidateType == NoCandidate \in Candidate
BY DEF NoCandidate, Candidate

\* A record computed again from some corrections is a candidate.
LEMMA RescoredType ==
  ASSUME NEW S \in SUBSET Corrections, NEW n \in Nat
  PROVE  Rescored(S, n) \in Candidate
BY DEF Rescored, CandidateStatus, Candidate

LEMMA NowType == Now \in Nat
<1>1. IsFiniteSet({q \in Promotions : promotedAt[q] # 0})
  BY LearningAssumption, FS_Subset
<1> QED
  BY <1>1, FS_CardinalityType DEF Now

\* A correction that has begun to be merged says something.
Spoken == \A c \in Corrections : mpc[c] # "new" => what[c] \in Said

Typed == TypeOK /\ Spoken

LEMMA TypedInit == Init => Typed
<1> SUFFICES ASSUME Init
             PROVE  Typed
  OBVIOUS
<1> USE NoCandidateType DEF Init, NoSnapshot
<1>1. 0 \in 0..MaxFailures
  BY LearningAssumption
<1>2. /\ cand \in [Corrections -> Candidate]
      /\ seen \in [Corrections -> [Corrections -> Candidate]]
      /\ copy \in [Promotions -> Candidate]
  OBVIOUS
<1>3. rules \in [Promotions -> Rule] /\ skills \in [Promotions -> Skill]
  OBVIOUS
<1>4. what \in [Corrections -> Said \cup {Unsaid}]
  OBVIOUS
<1>5. Spoken
  BY DEF Spoken
<1> QED
  BY <1>1, <1>2, <1>3, <1>4, <1>5 DEF Typed, TypeOK

LEMMA TypedMerger ==
  ASSUME Typed, NEW c \in Corrections, Merger(c)
  PROVE  Typed'
<1> USE LearningAssumption DEF Typed, TypeOK, Spoken
<1>0. NoSnapshot \in [Corrections -> Candidate]
  BY NoCandidateType DEF NoSnapshot
<1>1. ASSUME NEW w \in Said, ListSiblings(c, w)
      PROVE  Typed'
  <2>1. /\ what' \in [Corrections -> Said \cup {Unsaid}]
        /\ overlapped' \in SUBSET (Corrections \cup Promotions)
        /\ mpc' \in [Corrections -> {"new", "create", "match", "done", "failed"}]
        /\ Spoken'
    <3>1. what' = [what EXCEPT ![c] = w]
      BY <1>1 DEF ListSiblings
    <3>2. mpc' = [mpc EXCEPT ![c] = "create"] \/ mpc' = [mpc EXCEPT ![c] = "match"]
      BY <1>1 DEF ListSiblings
    <3>3. overlapped' \subseteq overlapped \cup InFlight \cup {c}
      BY <1>1 DEF ListSiblings
    <3>4. InFlight \subseteq Corrections \cup Promotions
      BY DEF InFlight, Merging, Promoting
    <3> HIDE DEF Said, Unsaid
    <3> QED
      BY <3>1, <3>2, <3>3, <3>4
  <2>2. seen' \in [Corrections -> [Corrections -> Candidate]]
    <3> DEFINE snap == [x \in Corrections |-> IF x \in Siblings(w.pattern) THEN cand[x]
                                              ELSE NoCandidate]
    <3>1. snap \in [Corrections -> Candidate]
      BY NoCandidateType
    <3>2. seen' = [seen EXCEPT ![c] = snap]
      BY <1>1 DEF ListSiblings
    <3> HIDE DEF snap
    <3> QED
      BY <3>1, <3>2
  <2>s. Siblings(w.pattern) \in SUBSET Corrections
    BY DEF Siblings
  <2>3. match' \in [Corrections -> SUBSET Corrections]
    <3>1. match' = match \/ \E x \in Siblings(w.pattern) : match' = [match EXCEPT ![c] = {x}]
      BY <1>1 DEF ListSiblings
    <3>2. ASSUME NEW x \in Siblings(w.pattern), match' = [match EXCEPT ![c] = {x}]
          PROVE  match' \in [Corrections -> SUBSET Corrections]
      <4>1. {x} \in SUBSET Corrections
        BY <2>s, <3>2
      <4> QED
        BY <3>2, <4>1
    <3> QED
      BY <3>1, <3>2
  <2>4. todo' \in [Corrections -> SUBSET Corrections]
    <3>1. todo' = todo \/ todo' = [todo EXCEPT ![c] = Siblings(w.pattern)]
      BY <1>1 DEF ListSiblings
    <3> QED
      BY <2>s, <3>1
  <2> QED
    BY <1>1, <2>1, <2>2, <2>3, <2>4 DEF ListSiblings
<1>2. CASE SaveConflict(c)
  <2>1. PICK x \in todo[c] : cand' = [cand EXCEPT ![x] = Contradicted(seen[c][x])]
    BY <1>2 DEF SaveConflict
  <2>2. x \in Corrections /\ seen[c][x] \in Candidate
    BY <2>1
  <2>3. Contradicted(seen[c][x]) \in Candidate
    <3>1. seen[c][x].sources \in SUBSET Corrections /\ seen[c][x].contra + 1 \in Nat
      BY <2>2 DEF Candidate
    <3> QED
      BY <3>1, RescoredType DEF Contradicted
  <2>4. cand' \in [Corrections -> Candidate]
    BY <2>1, <2>3
  <2>5. what[c].pattern \in Patterns
    BY <1>2 DEF SaveConflict
  <2>6. todo' \in [Corrections -> SUBSET Corrections]
    BY <1>2 DEF SaveConflict
  <2> QED
    BY <1>2, <2>4, <2>5, <2>6 DEF SaveConflict
<1>3. CASE CreateCandidate(c)
  <2>1. Rescored({c}, 0) \in Candidate
    BY RescoredType
  <2> QED
    BY <1>0, <1>3, <2>1 DEF CreateCandidate
<1>4. CASE AddEvidence(c)
  <2>1. PICK x \in match[c] : cand' = [cand EXCEPT ![x] = WithEvidence(seen[c][x], c)]
    BY <1>4 DEF AddEvidence
  <2>2. WithEvidence(seen[c][x], c) \in Candidate
    <3>1. seen[c][x] \in Candidate
      BY <2>1
    <3> QED
      BY <3>1, RescoredType DEF WithEvidence, Candidate
  <2>3. cand' \in [Corrections -> Candidate]
    BY <2>1, <2>2
  <2> QED
    BY <1>0, <1>4, <2>3 DEF AddEvidence
<1>5. CASE MergeFails(c)
  BY <1>0, <1>5 DEF MergeFails, Merging, Fails
<1> QED
  BY <1>1, <1>2, <1>3, <1>4, <1>5 DEF Merger

LEMMA TypedPromotion ==
  ASSUME Typed, NEW q \in Promotions, Promotion(q)
  PROVE  Typed'
<1> USE LearningAssumption DEF Typed, TypeOK, Spoken
<1>1. CASE PromoteCommand(q)
  <2>1. overlapped' \in SUBSET (Corrections \cup Promotions)
    BY <1>1 DEF PromoteCommand, InFlight, Merging, Promoting
  <2>2. target' \in [Promotions -> SUBSET Corrections]
    BY <1>1 DEF PromoteCommand
  <2> QED
    BY <1>1, <2>1, <2>2 DEF PromoteCommand
<1>2. CASE PromoteRequest(q)
  <2>1. overlapped' \in SUBSET (Corrections \cup Promotions)
    BY <1>2 DEF PromoteRequest, InFlight, Merging, Promoting
  <2> QED
    BY <1>2, <2>1 DEF PromoteRequest
<1>3. CASE GetCandidate(q)
  BY <1>3, NowType DEF GetCandidate
<1>4. CASE DeprecateActiveRule(q)
  <2> DEFINE old == Supersedable(q)
             version == IF old = {} THEN 1
                        ELSE (CHOOSE v \in {rules[t].version : t \in old} : TRUE) + 1
  <2>1. old \in SUBSET Promotions
    BY DEF Supersedable, Newest, ActiveRules
  <2>2. version \in Nat
    <3>1. CASE old = {}
      BY <3>1
    <3>2. CASE old # {}
      <4> DEFINE V == {rules[t].version : t \in old}
      <4>1. version = (CHOOSE v \in V : TRUE) + 1
        BY <3>2
      <4>2. PICK t \in Promotions : t \in old
        BY <2>1, <3>2
      <4>3. rules[t].version \in V
        BY <4>2
      <4>4. V \subseteq Nat
        BY <2>1
      <4> DEFINE v == CHOOSE u \in V : TRUE
      <4> HIDE DEF V
      <4>5. v \in V
        BY <4>3
      <4>6. version = v + 1
        BY <4>1
      <4> HIDE DEF v, version
      <4> QED
        BY <4>4, <4>5, <4>6
    <3> QED
      BY <3>1, <3>2
  <2>3. rules' = [r \in Promotions |->
           IF r \in old THEN [rules[r] EXCEPT !.status = "deprecated"]
           ELSE IF r = q THEN [NoRule EXCEPT !.supersedes = old, !.version = version]
           ELSE rules[r]]
    BY <1>4 DEF DeprecateActiveRule
  <2> HIDE DEF old, version
  <2>4. rules' \in [Promotions -> Rule]
    <3> SUFFICES ASSUME NEW r \in Promotions
                 PROVE  rules'[r] \in Rule
      BY <2>3
    <3>1. rules[r] \in Rule
      OBVIOUS
    <3>2. CASE r \in old
      BY <2>3, <3>1, <3>2
    <3>3. CASE r \notin old /\ r = q
      BY <2>1, <2>2, <2>3, <3>3
    <3>4. CASE r \notin old /\ r # q
      BY <2>3, <3>1, <3>4
    <3> QED
      BY <3>2, <3>3, <3>4
  <2> QED
    BY <1>4, <2>4 DEF DeprecateActiveRule
<1>5. CASE CreateValidatedRule(q)
  <2>1. rules[q] \in Rule
    OBVIOUS
  <2>2. [rules[q] EXCEPT !.status = "active"] \in Rule
    BY <2>1
  <2> QED
    BY <1>5, <2>2 DEF CreateValidatedRule
<1>6. CASE SavePromoted(q)
  <2>1. copy[q] \in Candidate
    OBVIOUS
  <2>2. [copy[q] EXCEPT !.status = "promoted"] \in Candidate
    BY <2>1 DEF Candidate
  <2> QED
    BY <1>6, <2>2, NoCandidateType DEF SavePromoted
<1>7. CASE ActiveSkillVersion(q)
  <2>1. CASE active = {}
    BY <1>7, <2>1 DEF ActiveSkillVersion
  <2>2. CASE active # {}
    <3> DEFINE V == {skills[r].version : r \in active}
    <3>1. \E v \in V : TRUE
      BY <2>2
    <3>2. (CHOOSE v \in V : TRUE) \in V
      BY <3>1
    <3>3. V \subseteq Nat
      OBVIOUS
    <3>4. base' = [base EXCEPT ![q] = 1 + (CHOOSE v \in V : TRUE)]
      BY <1>7, <2>2 DEF ActiveSkillVersion
    <3> HIDE DEF V
    <3> QED
      BY <1>7, <3>2, <3>3, <3>4 DEF ActiveSkillVersion
  <2> QED
    BY <2>1, <2>2
<1>8. CASE ListVisibleRules(q)
  BY <1>8 DEF ListVisibleRules, VisibleRules, ActiveRules
<1>9. CASE CreateSkillVersion(q)
  BY <1>9 DEF CreateSkillVersion
<1>10. CASE PromotionFails(q)
  BY <1>10, NoCandidateType DEF PromotionFails, Fails, Promoting
<1> QED
  BY <1>1, <1>2, <1>3, <1>4, <1>5, <1>6, <1>7, <1>8, <1>9, <1>10 DEF Promotion

LEMMA TypedNext == Typed /\ [Next]_vars => Typed'
<1> SUFFICES ASSUME Typed, [Next]_vars
             PROVE  Typed'
  OBVIOUS
<1>1. CASE UNCHANGED vars
  BY <1>1 DEF Typed, TypeOK, Spoken
<1> QED
  BY <1>1, TypedMerger, TypedPromotion DEF Next

\* Every variable of the learning loop keeps its type.
THEOREM TypeCorrect == Spec => []TypeOK
<1>1. Typed => TypeOK
  BY DEF Typed
<1> QED
  BY TypedInit, TypedNext, <1>1, PTL DEF Spec

-----------------------------------------------------------------------------
(* A status is earned                                                      *)

\* A record r of candidate x, stored or held by a call, when the corrections say
\* w and the mergers are at pc: its sources have begun, agree with x, and earn
\* the status under_review if it has it.
Sound(w, pc, x, r) ==
  /\ r.sources # {} => pc[x] # "new"
  /\ \A s \in r.sources :
       pc[s] # "new" /\ w[s].pattern = w[x].pattern /\ w[s].action = w[x].action
  /\ r.status = "under_review" =>
       /\ r.sources # {}
       /\ Earned(Cardinality(r.sources), r.contra, Cardinality({w[s].case : s \in r.sources}))

\* A correction keeps what it says once it has begun.
Stable(w, pc, w2, pc2) ==
  \A c \in Corrections : pc[c] # "new" => w2[c] = w[c] /\ pc2[c] # "new"

LEMMA SoundStable ==
  ASSUME NEW w, NEW pc, NEW w2, NEW pc2, NEW x \in Corrections, NEW r \in Candidate,
         Stable(w, pc, w2, pc2), Sound(w, pc, x, r)
  PROVE  Sound(w2, pc2, x, r)
<1>1. r.sources \in SUBSET Corrections
  BY DEF Candidate
<1>2. {w2[s].case : s \in r.sources} = {w[s].case : s \in r.sources}
  BY <1>1 DEF Stable, Sound
<1>3. \A s \in r.sources : pc2[s] # "new" /\ w2[s] = w[s]
  BY <1>1 DEF Stable, Sound
<1>4. r.sources # {} => pc2[x] # "new" /\ w2[x] = w[x]
  BY DEF Stable, Sound
<1> QED
  BY <1>2, <1>3, <1>4 DEF Sound

LEMMA SoundNone ==
  ASSUME NEW w, NEW pc, NEW x \in Corrections
  PROVE  Sound(w, pc, x, NoCandidate)
BY DEF Sound, NoCandidate

\* A record computed again from agreeing sources is sound, whatever record it is
\* computed from: the status never outlives the evidence.
LEMMA SoundRescored ==
  ASSUME Typed, NEW x \in Corrections, NEW S \in SUBSET Corrections, NEW n \in Nat,
         S # {} => mpc[x] # "new",
         \A s \in S : /\ mpc[s] # "new" /\ what[s].pattern = what[x].pattern
                      /\ what[s].action = what[x].action
  PROVE  Sound(what, mpc, x, Rescored(S, n))
<1> DEFINE K == {what[s].case : s \in S}
<1>1. IsFiniteSet(S)
  BY LearningAssumption, FS_Subset
<1>2. IsFiniteSet(K)
  <2>1. K \subseteq Cases
    BY DEF Typed, Spoken
  <2> QED
    BY <2>1, LearningAssumption, FS_Subset
<1>3. Cardinality(S) \in Nat /\ Cardinality(K) \in Nat
  BY <1>1, <1>2, FS_CardinalityType
<1>4. Rescored(S, n).status = "under_review" => Earned(Cardinality(S), n, Cardinality(K))
  BY <1>3, StatusIsEarned DEF Rescored
<1>5. Rescored(S, n).sources = S /\ Rescored(S, n).contra = n
  BY DEF Rescored
<1>6. Earned(Cardinality(S), n, Cardinality(K)) => S # {}
  BY <1>3, FS_EmptySet DEF Earned
<1> QED
  BY <1>4, <1>5, <1>6 DEF Sound

\* The candidates in the store and the copies that calls hold are sound.
Records ==
  /\ \A x \in Corrections : Sound(what, mpc, x, cand[x])
  /\ \A c, x \in Corrections : Sound(what, mpc, x, seen[c][x])
  /\ \A q \in Promotions : ppc[q] \in {"deprecate", "create", "save"} =>
       \A x \in target[q] : Sound(what, mpc, x, copy[q])

\* The sibling a merger adds its correction to has the same pattern and action.
Matches ==
  \A c \in Corrections : mpc[c] = "match" =>
    \A x \in match[c] : /\ mpc[x] # "new" /\ what[x].pattern = what[c].pattern
                        /\ what[x].action = what[c].action

\* A promotion has one candidate.
OneTarget == \A q \in Promotions : \A x, y \in target[q] : x = y

EarnedInv == Typed /\ Records /\ Matches /\ OneTarget

LEMMA EarnedInit == Init => EarnedInv
<1> SUFFICES ASSUME Init
             PROVE  EarnedInv
  OBVIOUS
<1>1. Typed
  BY TypedInit
<1>2. Records
  BY SoundNone DEF Init, NoSnapshot, Records
<1>3. Matches /\ OneTarget
  BY DEF Init, Matches, OneTarget
<1> QED
  BY <1>1, <1>2, <1>3 DEF EarnedInv

\* Nothing to show for the records a step leaves alone.
LEMMA RecordsKept ==
  ASSUME EarnedInv, Stable(what, mpc, what', mpc')
  PROVE  /\ \A x \in Corrections : Sound(what', mpc', x, cand[x])
         /\ \A c, x \in Corrections : Sound(what', mpc', x, seen[c][x])
         /\ \A q \in Promotions : ppc[q] \in {"deprecate", "create", "save"} =>
              \A x \in target[q] : Sound(what', mpc', x, copy[q])
<1> USE DEF EarnedInv, Typed, TypeOK, Records
<1>1. \A x \in Corrections : cand[x] \in Candidate
  OBVIOUS
<1>2. \A c, x \in Corrections : seen[c][x] \in Candidate
  OBVIOUS
<1>3. \A q \in Promotions : copy[q] \in Candidate /\ target[q] \in SUBSET Corrections
  OBVIOUS
<1> QED
  BY <1>1, <1>2, <1>3, SoundStable

LEMMA MergerStable ==
  ASSUME Typed, NEW c \in Corrections, Merger(c)
  PROVE  Stable(what, mpc, what', mpc')
<1> USE DEF Typed, TypeOK, Stable
<1>1. ASSUME NEW w \in Said, ListSiblings(c, w)
      PROVE  Stable(what, mpc, what', mpc')
  BY <1>1 DEF ListSiblings
<1> QED
  BY <1>1 DEF Merger, SaveConflict, CreateCandidate, AddEvidence, MergeFails, Merging

LEMMA EarnedMerger ==
  ASSUME EarnedInv, NEW c \in Corrections, Merger(c)
  PROVE  Records' /\ Matches'
<1>t. Typed /\ TypeOK /\ Stable(what, mpc, what', mpc')
  BY MergerStable DEF EarnedInv, Typed
<1>k. /\ \A x \in Corrections : Sound(what', mpc', x, cand[x])
      /\ \A d, x \in Corrections : Sound(what', mpc', x, seen[d][x])
      /\ \A q \in Promotions : ppc[q] \in {"deprecate", "create", "save"} =>
           \A x \in target[q] : Sound(what', mpc', x, copy[q])
  BY <1>t, RecordsKept
<1>n. \A x \in Corrections : Sound(what', mpc', x, NoCandidate)
  BY SoundNone
\* The merger returns and forgets what it read; candidate x becomes r.
<1>r. ASSUME NEW x \in Corrections, NEW r \in Candidate, Sound(what, mpc, x, r),
             cand' = [cand EXCEPT ![x] = r],
             \/ \E step \in {"done", "failed"} : MergeReturns(c, step)
             \/ UNCHANGED <<mpc, seen, match>>,
             UNCHANGED <<what, promotes>>
      PROVE  Records' /\ Matches'
  <2>1. \A y \in Corrections : Sound(what', mpc', y, cand'[y])
    BY <1>k, <1>r, <1>t, SoundStable DEF TypeOK
  <2>2. \A d, y \in Corrections : Sound(what', mpc', y, seen'[d][y])
    BY <1>k, <1>r, <1>t, <1>n DEF TypeOK, NoSnapshot
  <2>3. \A q \in Promotions : ppc'[q] \in {"deprecate", "create", "save"} =>
           \A y \in target'[q] : Sound(what', mpc', y, copy'[q])
    BY <1>k, <1>r
  <2>4. Matches'
    BY <1>r, <1>t DEF EarnedInv, Matches, TypeOK
  <2> QED
    BY <2>1, <2>2, <2>3, <2>4 DEF Records
<1>1. ASSUME NEW w \in Said, ListSiblings(c, w)
      PROVE  Records' /\ Matches'
  <2>0. /\ mpc[c] = "new" /\ what' = [what EXCEPT ![c] = w]
        /\ UNCHANGED <<cand, promotes>>
    BY <1>1 DEF ListSiblings
  <2>1. \A d, x \in Corrections : Sound(what', mpc', x, seen'[d][x])
    <3> DEFINE snap == [x \in Corrections |-> IF x \in Siblings(w.pattern) THEN cand[x]
                                              ELSE NoCandidate]
    <3>1. seen' = [seen EXCEPT ![c] = snap]
      BY <1>1 DEF ListSiblings
    <3>2. \A x \in Corrections : Sound(what', mpc', x, snap[x])
      BY <1>k, <1>n
    <3> HIDE DEF snap
    <3> QED
      BY <3>1, <3>2, <1>k, <1>t DEF TypeOK
  <2>2. Records'
    BY <2>0, <2>1, <1>k DEF Records
  <2>3. \/ match' = match /\ mpc' = [mpc EXCEPT ![c] = "create"]
        \/ \E x \in Siblings(w.pattern) :
             /\ what[x].action = w.action
             /\ match' = [match EXCEPT ![c] = {x}] /\ mpc' = [mpc EXCEPT ![c] = "match"]
    BY <1>1 DEF ListSiblings
  <2>4. ASSUME match' = match, mpc' = [mpc EXCEPT ![c] = "create"]
        PROVE  Matches'
    <3>1. \A d \in Corrections : mpc'[d] = "match" => mpc[d] = "match" /\ d # c
      BY <2>0, <2>4, <1>t DEF TypeOK
    <3>2. \A d \in Corrections : match[d] \in SUBSET Corrections
      BY <1>t DEF TypeOK
    <3>3. \A d \in Corrections : mpc[d] # "new" => what'[d] = what[d] /\ mpc'[d] # "new"
      BY <1>t DEF Stable
    <3> SUFFICES ASSUME NEW d \in Corrections, mpc'[d] = "match", NEW x \in match[d]
                 PROVE  /\ mpc'[x] # "new" /\ what'[x].pattern = what'[d].pattern
                        /\ what'[x].action = what'[d].action
      BY <2>4 DEF Matches
    <3>4. mpc[d] = "match" /\ x \in Corrections
      BY <3>1, <3>2
    <3>5. /\ mpc[x] # "new" /\ what[x].pattern = what[d].pattern
          /\ what[x].action = what[d].action
      BY <3>4 DEF EarnedInv, Matches
    <3> QED
      BY <3>3, <3>4, <3>5
  <2>5. ASSUME NEW x \in Siblings(w.pattern), what[x].action = w.action,
               match' = [match EXCEPT ![c] = {x}], mpc' = [mpc EXCEPT ![c] = "match"]
        PROVE  Matches'
    <3>1. x \in Corrections /\ what[x].pattern = w.pattern /\ cand[x].sources # {}
      BY DEF Siblings, Exists
    <3>2. mpc[x] # "new" /\ x # c
      BY <3>1, <2>0 DEF EarnedInv, Records, Sound
    <3> QED
      BY <3>1, <3>2, <2>0, <2>5, <1>t DEF EarnedInv, Matches, TypeOK
  <2> QED
    BY <2>2, <2>3, <2>4, <2>5
<1>2. CASE SaveConflict(c)
  <2>1. PICK x \in todo[c] : cand' = [cand EXCEPT ![x] = Contradicted(seen[c][x])]
    BY <1>2 DEF SaveConflict
  <2>2. x \in Corrections /\ seen[c][x] \in Candidate
    BY <2>1, <1>t DEF TypeOK
  <2>3. seen[c][x].sources \in SUBSET Corrections /\ seen[c][x].contra + 1 \in Nat
    BY <2>2 DEF Candidate
  <2>4. Sound(what, mpc, x, seen[c][x])
    BY <2>2 DEF EarnedInv, Records
  <2>5. Sound(what, mpc, x, Contradicted(seen[c][x]))
    BY <2>2, <2>3, <2>4, <1>t, SoundRescored DEF Contradicted, Sound
  <2>6. Contradicted(seen[c][x]) \in Candidate
    BY <2>3, RescoredType DEF Contradicted
  <2> QED
    BY <1>2, <1>r, <2>1, <2>2, <2>5, <2>6 DEF SaveConflict
<1>3. CASE CreateCandidate(c)
  <2>1. Sound(what, mpc, c, Rescored({c}, 0))
    BY <1>3, <1>t, SoundRescored DEF CreateCandidate
  <2>2. Rescored({c}, 0) \in Candidate
    BY RescoredType
  <2> QED
    BY <1>3, <1>r, <2>1, <2>2 DEF CreateCandidate
<1>4. CASE AddEvidence(c)
  <2>1. PICK x \in match[c] : cand' = [cand EXCEPT ![x] = WithEvidence(seen[c][x], c)]
    BY <1>4 DEF AddEvidence
  <2>2. x \in Corrections /\ seen[c][x] \in Candidate
    BY <2>1, <1>t DEF TypeOK
  <2> DEFINE S == seen[c][x].sources \cup {c}
  <2>3. S \in SUBSET Corrections /\ seen[c][x].contra \in Nat
    BY <2>2 DEF Candidate
  <2>4. Sound(what, mpc, x, seen[c][x])
    BY <2>2 DEF EarnedInv, Records
  <2>5. /\ mpc[x] # "new" /\ mpc[c] # "new"
        /\ what[x].pattern = what[c].pattern /\ what[x].action = what[c].action
    BY <1>4, <2>1 DEF AddEvidence, EarnedInv, Matches
  <2>6. \A s \in S : /\ mpc[s] # "new" /\ what[s].pattern = what[x].pattern
                     /\ what[s].action = what[x].action
    BY <2>4, <2>5 DEF Sound
  <2> HIDE DEF S
  <2>7. Sound(what, mpc, x, Rescored(S, seen[c][x].contra))
    BY <2>2, <2>3, <2>5, <2>6, <1>t, SoundRescored
  <2>8. Rescored(S, seen[c][x].contra) \in Candidate
    BY <2>3, RescoredType
  <2>9. cand' = [cand EXCEPT ![x] = Rescored(S, seen[c][x].contra)]
    BY <2>1 DEF WithEvidence, S
  <2> QED
    BY <1>4, <1>r, <2>2, <2>7, <2>8, <2>9 DEF AddEvidence
<1>5. CASE MergeFails(c)
  <2>1. \A d, y \in Corrections : Sound(what', mpc', y, seen'[d][y])
    BY <1>k, <1>5, <1>t, <1>n DEF MergeFails, TypeOK, NoSnapshot
  <2>2. Matches'
    BY <1>5, <1>t DEF MergeFails, EarnedInv, Matches, TypeOK
  <2> QED
    BY <1>5, <1>k, <2>1, <2>2 DEF MergeFails, Records
<1> QED
  BY <1>1, <1>2, <1>3, <1>4, <1>5 DEF Merger

LEMMA EarnedPromotion ==
  ASSUME EarnedInv, NEW q \in Promotions, Promotion(q)
  PROVE  Records' /\ Matches' /\ OneTarget'
<1>t. Typed /\ TypeOK
  BY DEF EarnedInv, Typed
<1>s. UNCHANGED <<what, mpc, seen, match>>
  BY DEF Promotion, PromoteCommand, PromoteRequest, GetCandidate, DeprecateActiveRule,
         CreateValidatedRule, SavePromoted, ActiveSkillVersion, ListVisibleRules,
         CreateSkillVersion, PromotionFails
<1>m. Matches' /\ \A c, x \in Corrections : Sound(what', mpc', x, seen'[c][x])
  BY <1>s DEF EarnedInv, Records, Matches
\* A step that saves no candidate and reads none: q holds a copy only if it did.
<1>r. ASSUME cand' = cand,
             \A p \in Promotions : ppc'[p] \in {"deprecate", "create", "save"} =>
               /\ ppc[p] \in {"deprecate", "create", "save"}
               /\ target'[p] = target[p] /\ copy'[p] = copy[p]
      PROVE  Records'
  BY <1>r, <1>s, <1>m DEF EarnedInv, Records
<1>o. target' = target => OneTarget'
  BY DEF EarnedInv, OneTarget
<1>1. CASE PromoteCommand(q)
  <2>1. PICK x \in Corrections : target' = [target EXCEPT ![q] = {x}]
    BY <1>1 DEF PromoteCommand
  <2>2. OneTarget'
    BY <2>1, <1>t DEF EarnedInv, OneTarget, TypeOK
  <2>3. Records'
    BY <1>1, <1>r, <1>t, <2>1 DEF PromoteCommand, TypeOK
  <2> QED
    BY <1>m, <2>2, <2>3
<1>2. CASE PromoteRequest(q)
  <2>1. PICK x \in Corrections : target' = [target EXCEPT ![q] = {x}]
    BY <1>2 DEF PromoteRequest
  <2>2. OneTarget'
    BY <2>1, <1>t DEF EarnedInv, OneTarget, TypeOK
  <2>3. Records'
    BY <1>2, <1>r, <1>t, <2>1 DEF PromoteRequest, TypeOK
  <2> QED
    BY <1>m, <2>2, <2>3
<1>3. CASE GetCandidate(q)
  <2>1. PICK x \in target[q] : copy' = [copy EXCEPT ![q] = cand[x]]
    BY <1>3 DEF GetCandidate
  <2>2. \A y \in target[q] : y = x
    BY <2>1 DEF EarnedInv, OneTarget
  <2>3. Sound(what, mpc, x, cand[x])
    BY <2>1, <1>t DEF EarnedInv, Records, TypeOK
  <2>4. \A p \in Promotions : ppc'[p] \in {"deprecate", "create", "save"} =>
           \A y \in target'[p] : Sound(what', mpc', y, copy'[p])
    BY <1>3, <1>s, <1>t, <2>1, <2>2, <2>3 DEF GetCandidate, EarnedInv, Records, TypeOK
  <2>5. cand' = cand /\ target' = target
    BY <1>3 DEF GetCandidate
  <2> QED
    BY <1>m, <1>s, <2>4, <2>5 DEF EarnedInv, Records, OneTarget
<1>4. CASE DeprecateActiveRule(q)
  BY <1>4, <1>m, <1>o, <1>r, <1>t DEF DeprecateActiveRule, TypeOK
<1>5. CASE CreateValidatedRule(q)
  BY <1>5, <1>m, <1>o, <1>r, <1>t DEF CreateValidatedRule, TypeOK
<1>6. CASE SavePromoted(q)
  <2>1. PICK x \in target[q] : cand' = [cand EXCEPT ![x] = [copy[q] EXCEPT !.status = "promoted"]]
    BY <1>6 DEF SavePromoted
  <2>2. x \in Corrections /\ copy[q] \in Candidate /\ Sound(what, mpc, x, copy[q])
    BY <1>6, <2>1, <1>t DEF SavePromoted, EarnedInv, Records, TypeOK
  <2> DEFINE r == [copy[q] EXCEPT !.status = "promoted"]
  <2>3. r.sources = copy[q].sources /\ r.status = "promoted"
    BY <2>2 DEF Candidate
  <2> HIDE DEF r
  <2>4. Sound(what, mpc, x, r)
    BY <2>2, <2>3 DEF Sound
  <2>5. cand' = [cand EXCEPT ![x] = r]
    BY <2>1 DEF r
  <2>6. \A y \in Corrections : Sound(what', mpc', y, cand'[y])
    BY <1>s, <1>t, <2>4, <2>5 DEF EarnedInv, Records, TypeOK
  <2>7. \A p \in Promotions : ppc'[p] \in {"deprecate", "create", "save"} =>
           \A y \in target'[p] : Sound(what', mpc', y, copy'[p])
    BY <1>6, <1>s, <1>t DEF SavePromoted, EarnedInv, Records, TypeOK
  <2>8. target' = target
    BY <1>6 DEF SavePromoted
  <2> QED
    BY <1>m, <2>6, <2>7, <2>8 DEF EarnedInv, Records, OneTarget
<1>7. CASE ActiveSkillVersion(q)
  BY <1>7, <1>m, <1>o, <1>r, <1>t DEF ActiveSkillVersion, TypeOK
<1>8. CASE ListVisibleRules(q)
  BY <1>8, <1>m, <1>o, <1>r, <1>t DEF ListVisibleRules, TypeOK
<1>9. CASE CreateSkillVersion(q)
  BY <1>9, <1>m, <1>o, <1>r, <1>t DEF CreateSkillVersion, TypeOK
<1>10. CASE PromotionFails(q)
  BY <1>10, <1>m, <1>o, <1>r, <1>t DEF PromotionFails, TypeOK
<1> QED
  BY <1>1, <1>2, <1>3, <1>4, <1>5, <1>6, <1>7, <1>8, <1>9, <1>10 DEF Promotion

LEMMA EarnedNext == EarnedInv /\ [Next]_vars => EarnedInv'
<1> SUFFICES ASSUME EarnedInv, [Next]_vars
             PROVE  EarnedInv'
  OBVIOUS
<1>t. Typed'
  BY TypedNext DEF EarnedInv
<1>1. CASE UNCHANGED vars
  BY <1>1, <1>t DEF EarnedInv, Records, Matches, OneTarget
<1>2. ASSUME NEW c \in Corrections, Merger(c)
      PROVE  EarnedInv'
  <2>1. target' = target
    BY <1>2 DEF Merger, ListSiblings, SaveConflict, CreateCandidate, AddEvidence, MergeFails
  <2> QED
    BY <1>2, <1>t, <2>1, EarnedMerger DEF EarnedInv, OneTarget
<1>3. ASSUME NEW q \in Promotions, Promotion(q)
      PROVE  EarnedInv'
  BY <1>3, <1>t, EarnedPromotion DEF EarnedInv
<1> QED
  BY <1>1, <1>2, <1>3 DEF Next

\* A candidate is under review only on the evidence the threshold asks for,
\* whatever calls overlap and overwrite each other's candidates.
THEOREM UnderReviewEarned == Spec => []UnderReviewIsEarned
<1>1. EarnedInv => UnderReviewIsEarned
  BY DEF EarnedInv, Records, Sound, UnderReviewIsEarned
<1> QED
  BY EarnedInit, EarnedNext, <1>1, PTL DEF Spec

-----------------------------------------------------------------------------
(* Calls, and the copies of candidates they hold                           *)

Holding == {"deprecate", "create", "save"}

\* The copies of candidate y that calls in progress may still save.
Copies(y) ==
  {seen[c][y] : c \in {d \in Corrections : y \in match[d] \cup todo[d]}}
  \cup {copy[q] : q \in {p \in Promotions : ppc[p] \in Holding /\ y \in target[p]}}

\* A call in progress that no other one has overlapped is the only one.
Alone ==
  \A g \in Corrections \cup Promotions : Undisturbed(g) =>
    /\ g \in Merging => Merging = {g} /\ Promoting = {}
    /\ g \in Promoting => Promoting = {g} /\ Merging = {}

\* Candidates are created, and count corrections, by mergers that are done; and
\* mergers in progress and promotions hold candidates that exist.
Done(c) == mpc[c] = "done"

DoneFirst ==
  /\ \A x \in Corrections : Exists(x) => Done(x)
  /\ \A x \in Corrections : \A r \in {cand[x]} \cup Copies(x) : \A s \in r.sources : Done(s)
  /\ \A x \in Corrections : \A r \in Copies(x) : r.sources # {}
  /\ \A c \in Corrections : \A x \in match[c] \cup todo[c] : Exists(x)
  /\ \A q \in Promotions : \A x \in target[q] : Exists(x)
  /\ \A c \in Corrections : c \notin Merging => match[c] = {} /\ todo[c] = {}

CallsInv == EarnedInv /\ Alone /\ DoneFirst

\* Merger c comes to its end: its correction is a source of a candidate now.
Finishes(c) == c \in Merging /\ Done(c)'

\* What one step makes of candidate y: it saves a copy, with another
\* contradiction, with the correction of the merger that finishes or as
\* promoted; or y's own merger creates it.
Evolves(y) ==
  \/ cand'[y] = cand[y]
  \/ \E r \in Copies(y) : cand'[y].sources = r.sources /\ cand'[y].contra >= r.contra
  \/ \E r \in Copies(y), c \in Corrections :
       /\ Finishes(c)
       /\ cand'[y].sources = r.sources \cup {c} /\ cand'[y].contra = r.contra
  \/ Finishes(y) /\ mpc[y] = "create" /\ todo[y] = {} /\ cand'[y].sources = {y}

Stored(y) == {r \in {cand[y]} : Exists(y)}

\* What every step keeps to: done is done, what a correction says stays, copies
\* are made of what is stored, and a merger that finishes changes one candidate.
Steady ==
  /\ \A c \in Corrections : Done(c) => Done(c)'
  /\ \A c \in Corrections : mpc[c] # "new" => what'[c] = what[c]
  /\ \A y \in Corrections : Copies(y)' \subseteq Copies(y) \cup Stored(y)
  /\ \A y \in Corrections : Evolves(y)
  /\ \A c \in Corrections : Done(c)' /\ ~Done(c) =>
       /\ Finishes(c)
       /\ \E x \in Corrections :
            /\ c \in cand'[x].sources
            /\ \A y \in Corrections \ {x} : cand'[y] = cand[y]

LEMMA SteadyMerger ==
  ASSUME CallsInv, NEW c \in Corrections, Merger(c)
  PROVE  Steady
<1> USE DEF Done
<1>t. TypeOK
  BY DEF CallsInv, EarnedInv, Typed
<1>p. UNCHANGED promotes
  BY DEF Merger, ListSiblings, SaveConflict, CreateCandidate, AddEvidence, MergeFails
<1>d. \A d \in Corrections : (Done(d) => Done(d)') /\ (mpc[d] # "new" => what'[d] = what[d])
  <2>1. CASE \E w \in Said : ListSiblings(c, w)
    <3>1. /\ mpc[c] = "new" /\ \E w \in Said : what' = [what EXCEPT ![c] = w]
          /\ \E step \in {"create", "match"} : mpc' = [mpc EXCEPT ![c] = step]
      BY <2>1 DEF ListSiblings
    <3> QED
      BY <1>t, <3>1 DEF TypeOK
  <2>2. CASE ~\E w \in Said : ListSiblings(c, w)
    BY <1>t, <2>2 DEF TypeOK, Merger, SaveConflict, CreateCandidate, AddEvidence, MergeFails, Merging
  <2> QED
    BY <2>1, <2>2
<1>c. ASSUME \A d \in Corrections, y \in Corrections :
               y \in match'[d] \cup todo'[d] =>
                 seen'[d][y] \in Copies(y) \cup Stored(y)
      PROVE  \A y \in Corrections : Copies(y)' \subseteq Copies(y) \cup Stored(y)
  <2> TAKE y \in Corrections
  <2>1. ASSUME NEW d \in Corrections, y \in match'[d] \cup todo'[d]
        PROVE  seen'[d][y] \in Copies(y) \cup Stored(y)
    BY <1>c, <2>1
  <2>2. \A q \in Promotions : ppc[q] \in Holding /\ y \in target[q] => copy[q] \in Copies(y)
    BY DEF Copies
  <2> QED
    BY <1>p, <2>1, <2>2 DEF Copies
<1>s. \A d, y \in Corrections : y \in match[d] \cup todo[d] => seen[d][y] \in Copies(y)
  BY DEF Copies
<1>1. ASSUME NEW w \in Said, ListSiblings(c, w)
      PROVE  Steady
  <2>1. /\ mpc[c] = "new" /\ cand' = cand
        /\ \E step \in {"create", "match"} : mpc' = [mpc EXCEPT ![c] = step]
    BY <1>1 DEF ListSiblings
  <2>2. match[c] = {} /\ todo[c] = {}
    BY <2>1 DEF CallsInv, DoneFirst, Merging
  <2>3. /\ seen' = [seen EXCEPT ![c] = [x \in Corrections |-> IF x \in Siblings(w.pattern) THEN cand[x]
                                                             ELSE NoCandidate]]
        /\ \/ todo' = [todo EXCEPT ![c] = Siblings(w.pattern)] /\ match' = match
           \/ \E x \in Siblings(w.pattern) : match' = [match EXCEPT ![c] = {x}] /\ todo' = todo
    BY <1>1 DEF ListSiblings
  <2>4. \A y \in Corrections : y \in match'[c] \cup todo'[c] => y \in Siblings(w.pattern)
    BY <1>t, <2>2, <2>3 DEF TypeOK
  <2>5. \A d, y \in Corrections : y \in match'[d] \cup todo'[d] =>
           seen'[d][y] \in Copies(y) \cup Stored(y)
    <3> TAKE d, y \in Corrections
    <3>1. CASE d = c
      BY <1>t, <2>3, <2>4, <3>1 DEF TypeOK, Siblings, Stored
    <3>2. CASE d # c
      BY <1>s, <1>t, <2>3, <3>2 DEF TypeOK
    <3> QED
      BY <3>1, <3>2
  <2>6. \A d \in Corrections : ~(Done(d)' /\ ~Done(d))
    BY <1>t, <2>1 DEF TypeOK
  <2> QED
    BY <1>c, <1>d, <2>1, <2>5, <2>6 DEF Steady, Evolves
<1>r. ASSUME \/ \E step \in {"done", "failed"} : MergeReturns(c, step)
             \/ \E x \in todo[c] : UNCHANGED <<mpc, seen, match>> /\ todo' = [todo EXCEPT ![c] = @ \ {x}]
      PROVE  \A y \in Corrections : Copies(y)' \subseteq Copies(y) \cup Stored(y)
  <2>1. \A d, y \in Corrections : y \in match'[d] \cup todo'[d] =>
           y \in match[d] \cup todo[d] /\ seen'[d][y] = seen[d][y]
    <3> TAKE d, y \in Corrections
    <3>1. CASE \E step \in {"done", "failed"} : MergeReturns(c, step)
      <4>1. /\ seen' = [seen EXCEPT ![c] = NoSnapshot]
            /\ match' = [match EXCEPT ![c] = {}] /\ todo' = [todo EXCEPT ![c] = {}]
        BY <3>1
      <4> QED
        BY <1>t, <4>1 DEF TypeOK
    <3>2. CASE \E x \in todo[c] : UNCHANGED <<mpc, seen, match>> /\ todo' = [todo EXCEPT ![c] = @ \ {x}]
      <4>1. PICK x : seen' = seen /\ match' = match /\ todo' = [todo EXCEPT ![c] = @ \ {x}]
        BY <3>2
      <4> QED
        BY <1>t, <4>1 DEF TypeOK
    <3> QED
      BY <1>r, <3>1, <3>2
  <2> QED
    BY <1>c, <1>s, <2>1
<1>2. CASE SaveConflict(c)
  <2>1. PICK x \in todo[c] : /\ cand' = [cand EXCEPT ![x] = Contradicted(seen[c][x])]
                            /\ todo' = [todo EXCEPT ![c] = @ \ {x}]
    BY <1>2 DEF SaveConflict
  <2>2. UNCHANGED <<mpc, seen, match>>
    BY <1>2 DEF SaveConflict
  <2>3. x \in Corrections /\ seen[c][x] \in Copies(x) /\ seen[c][x] \in Candidate
    BY <1>s, <1>t, <2>1 DEF TypeOK
  <2>4. /\ cand'[x].sources = seen[c][x].sources /\ cand'[x].contra = seen[c][x].contra + 1
        /\ \A y \in Corrections \ {x} : cand'[y] = cand[y]
    BY <1>t, <2>1, <2>3 DEF TypeOK, Contradicted, Rescored
  <2>5. \A y \in Corrections : Evolves(y)
    BY <2>3, <2>4 DEF Evolves, Candidate
  <2> QED
    BY <1>d, <1>r, <2>1, <2>2, <2>5 DEF Steady
<1>3. CASE CreateCandidate(c)
  <2>1. /\ mpc[c] = "create" /\ todo[c] = {} /\ MergeReturns(c, "done")
        /\ cand' = [cand EXCEPT ![c] = Rescored({c}, 0)]
    BY <1>3 DEF CreateCandidate
  <2>2. cand'[c].sources = {c} /\ \A y \in Corrections \ {c} : cand'[y] = cand[y]
    BY <1>t, <2>1 DEF TypeOK, Rescored
  <2>3. Finishes(c) /\ \A d \in Corrections \ {c} : Done(d)' <=> Done(d)
    BY <1>t, <2>1 DEF TypeOK, Finishes, Merging
  <2>4. \A y \in Corrections : Evolves(y)
    BY <2>1, <2>2, <2>3 DEF Evolves
  <2> QED
    BY <1>d, <1>r, <2>1, <2>2, <2>3, <2>4 DEF Steady
<1>4. CASE AddEvidence(c)
  <2>1. PICK x \in match[c] : cand' = [cand EXCEPT ![x] = WithEvidence(seen[c][x], c)]
    BY <1>4 DEF AddEvidence
  <2>2. mpc[c] = "match" /\ MergeReturns(c, "done")
    BY <1>4 DEF AddEvidence
  <2>3. x \in Corrections /\ seen[c][x] \in Copies(x)
    BY <1>s, <1>t, <2>1 DEF TypeOK
  <2>4. /\ cand'[x].sources = seen[c][x].sources \cup {c} /\ cand'[x].contra = seen[c][x].contra
        /\ \A y \in Corrections \ {x} : cand'[y] = cand[y]
    BY <1>t, <2>1, <2>3 DEF TypeOK, WithEvidence, Rescored
  <2>5. Finishes(c) /\ \A d \in Corrections \ {c} : Done(d)' <=> Done(d)
    BY <1>t, <2>2 DEF TypeOK, Finishes, Merging
  <2>6. \A y \in Corrections : Evolves(y)
    BY <2>3, <2>4, <2>5 DEF Evolves
  <2> QED
    BY <1>d, <1>r, <2>2, <2>3, <2>4, <2>5, <2>6 DEF Steady
<1>5. CASE MergeFails(c)
  <2>1. MergeReturns(c, "failed") /\ cand' = cand
    BY <1>5 DEF MergeFails
  <2>2. \A d \in Corrections : ~(Done(d)' /\ ~Done(d))
    BY <1>t, <2>1 DEF TypeOK
  <2> QED
    BY <1>d, <1>r, <2>1, <2>2 DEF Steady, Evolves
<1> QED
  BY <1>1, <1>2, <1>3, <1>4, <1>5 DEF Merger

LEMMA SteadyPromotion ==
  ASSUME CallsInv, NEW q \in Promotions, Promotion(q)
  PROVE  Steady
<1>t. TypeOK
  BY DEF CallsInv, EarnedInv, Typed
<1>s. UNCHANGED <<what, mpc, seen, match, todo>>
  BY DEF Promotion, PromoteCommand, PromoteRequest, GetCandidate, DeprecateActiveRule,
         CreateValidatedRule, SavePromoted, ActiveSkillVersion, ListVisibleRules,
         CreateSkillVersion, PromotionFails
<1>c. ASSUME \A p \in Promotions, y \in Corrections : ppc'[p] \in Holding /\ y \in target'[p] =>
               copy'[p] \in Copies(y) \cup Stored(y)
      PROVE  \A y \in Corrections : Copies(y)' \subseteq Copies(y) \cup Stored(y)
  BY <1>c, <1>s DEF Copies
<1>h. \A p \in Promotions, y \in Corrections : ppc[p] \in Holding /\ y \in target[p] =>
        copy[p] \in Copies(y)
  BY DEF Copies
<1>u. (\A y \in Corrections : Evolves(y)) /\ (\A y \in Corrections : Copies(y)' \subseteq Copies(y) \cup Stored(y))
        => Steady
  BY <1>s DEF Steady, Done
<1>1. CASE PromoteCommand(q) \/ PromoteRequest(q)
  <2>1. /\ ppc' = [ppc EXCEPT ![q] = "get"] /\ cand' = cand /\ copy' = copy
        /\ \E x \in Corrections : target' = [target EXCEPT ![q] = {x}]
    BY <1>1 DEF PromoteCommand, PromoteRequest
  <2>2. \A p \in Promotions : ppc'[p] \in Holding => ppc[p] \in Holding /\ target'[p] = target[p]
    BY <1>t, <2>1 DEF TypeOK, Holding
  <2> QED
    BY <1>c, <1>h, <1>u, <2>1, <2>2 DEF Evolves
<1>2. CASE GetCandidate(q)
  <2>1. PICK x \in target[q] : copy' = [copy EXCEPT ![q] = cand[x]]
    BY <1>2 DEF GetCandidate
  <2>2. target' = target /\ cand' = cand /\ \A p \in Promotions \ {q} : ppc'[p] = ppc[p]
    BY <1>2, <1>t DEF GetCandidate, TypeOK
  <2>3. \A y \in target[q] : y = x /\ Exists(y)
    BY <2>1 DEF CallsInv, DoneFirst, EarnedInv, OneTarget
  <2>4. \A p \in Promotions, y \in Corrections : ppc'[p] \in Holding /\ y \in target'[p] =>
           copy'[p] \in Copies(y) \cup Stored(y)
    BY <1>h, <1>t, <2>1, <2>2, <2>3 DEF TypeOK, Stored
  <2> QED
    BY <1>c, <1>u, <2>2, <2>4 DEF Evolves
<1>3. CASE SavePromoted(q)
  <2>1. PICK x \in target[q] : cand' = [cand EXCEPT ![x] = [copy[q] EXCEPT !.status = "promoted"]]
    BY <1>3 DEF SavePromoted
  <2>2. /\ ppc[q] = "save" /\ ppc' = [ppc EXCEPT ![q] = "read"] /\ target' = target
        /\ copy' = [copy EXCEPT ![q] = NoCandidate]
    BY <1>3 DEF SavePromoted
  <2>3. x \in Corrections /\ copy[q] \in Candidate /\ copy[q] \in Copies(x)
    BY <1>h, <1>t, <2>1, <2>2 DEF TypeOK, Holding
  <2>4. /\ cand'[x].sources = copy[q].sources /\ cand'[x].contra = copy[q].contra
        /\ \A y \in Corrections \ {x} : cand'[y] = cand[y]
    BY <1>t, <2>1, <2>3 DEF TypeOK, Candidate
  <2>5. \A y \in Corrections : Evolves(y)
    BY <2>3, <2>4 DEF Evolves, Candidate
  <2>6. \A p \in Promotions : ppc'[p] \in Holding => ppc[p] \in Holding /\ copy'[p] = copy[p]
    BY <1>t, <2>2 DEF TypeOK, Holding
  <2> QED
    BY <1>c, <1>h, <1>u, <2>2, <2>5, <2>6
<1>4. CASE \/ DeprecateActiveRule(q) \/ CreateValidatedRule(q) \/ ActiveSkillVersion(q)
           \/ ListVisibleRules(q) \/ CreateSkillVersion(q) \/ PromotionFails(q)
  <2>1. /\ cand' = cand /\ target' = target
        /\ \A p \in Promotions : ppc'[p] \in Holding => ppc[p] \in Holding /\ copy'[p] = copy[p]
    BY <1>4, <1>t DEF DeprecateActiveRule, CreateValidatedRule, ActiveSkillVersion, ListVisibleRules,
                      CreateSkillVersion, PromotionFails, TypeOK, Holding
  <2> QED
    BY <1>c, <1>h, <1>u, <2>1 DEF Evolves
<1> QED
  BY <1>1, <1>2, <1>3, <1>4 DEF Promotion

\* The calls in progress: a step begins one, which the others overlap, or adds
\* none; and what overlapped once has overlapped.
Begins(g) ==
  /\ overlapped' = IF InFlight = {} THEN overlapped ELSE overlapped \cup InFlight \cup {g}
  /\ \/ g \in Corrections /\ mpc[g] = "new" /\ Merging' = Merging \cup {g} /\ Promoting' = Promoting
     \/ g \in Promotions /\ Promoting' = Promoting \cup {g} /\ Merging' = Merging

BeginsNone ==
  overlapped' = overlapped /\ Merging' \subseteq Merging /\ Promoting' \subseteq Promoting

LEMMA CallsMerger ==
  ASSUME CallsInv, NEW c \in Corrections, Merger(c)
  PROVE  Begins(c) \/ (BeginsNone /\ c \in Merging)
<1>t. TypeOK
  BY DEF CallsInv, EarnedInv, Typed
<1>1. ASSUME NEW w \in Said, ListSiblings(c, w)
      PROVE  Begins(c)
  <2>1. /\ mpc[c] = "new" /\ \E step \in {"create", "match"} : mpc' = [mpc EXCEPT ![c] = step]
        /\ UNCHANGED ppc
        /\ overlapped' = IF InFlight = {} THEN overlapped ELSE overlapped \cup InFlight \cup {c}
    BY <1>1 DEF ListSiblings
  <2> QED
    BY <1>t, <2>1 DEF TypeOK, Begins, Merging, Promoting
<1>2. CASE SaveConflict(c) \/ CreateCandidate(c) \/ AddEvidence(c) \/ MergeFails(c)
  <2>1. /\ c \in Merging /\ UNCHANGED <<ppc, overlapped>>
        /\ mpc' = mpc \/ \E step \in {"done", "failed"} : mpc' = [mpc EXCEPT ![c] = step]
    BY <1>2 DEF SaveConflict, CreateCandidate, AddEvidence, MergeFails, Merging
  <2> QED
    BY <1>t, <2>1 DEF TypeOK, BeginsNone, Merging, Promoting
<1> QED
  BY <1>1, <1>2 DEF Merger

LEMMA CallsPromotion ==
  ASSUME CallsInv, NEW q \in Promotions, Promotion(q)
  PROVE  (Begins(q) /\ ppc[q] = "new") \/ (BeginsNone /\ q \in Promoting)
<1>t. TypeOK
  BY DEF CallsInv, EarnedInv, Typed
<1>1. CASE PromoteCommand(q) \/ PromoteRequest(q)
  <2>1. /\ ppc[q] = "new" /\ ppc' = [ppc EXCEPT ![q] = "get"] /\ UNCHANGED mpc
        /\ overlapped' = IF InFlight = {} THEN overlapped ELSE overlapped \cup InFlight \cup {q}
    BY <1>1 DEF PromoteCommand, PromoteRequest
  <2> QED
    BY <1>t, <2>1 DEF TypeOK, Begins, Merging, Promoting
<1>2. CASE ~(PromoteCommand(q) \/ PromoteRequest(q))
  <2>1. /\ q \in Promoting /\ UNCHANGED <<mpc, overlapped>>
        /\ \E step : ppc' = [ppc EXCEPT ![q] = step]
    BY <1>2 DEF Promotion, GetCandidate, DeprecateActiveRule, CreateValidatedRule, SavePromoted,
                ActiveSkillVersion, ListVisibleRules, CreateSkillVersion, PromotionFails, Promoting
  <2> QED
    BY <1>t, <2>1 DEF TypeOK, BeginsNone, Merging, Promoting
<1> QED
  BY <1>1, <1>2

LEMMA AloneNext ==
  ASSUME Alone, (\E g \in Corrections \cup Promotions : Begins(g)) \/ BeginsNone
  PROVE  Alone'
<1>1. ASSUME NEW g \in Corrections \cup Promotions, Begins(g)
      PROVE  Alone'
  <2>1. CASE InFlight = {}
    BY <1>1, <2>1 DEF Alone, Begins, Undisturbed, InFlight
  <2>2. CASE InFlight # {}
    <3>1. overlapped' = overlapped \cup InFlight \cup {g}
      BY <1>1, <2>2 DEF Begins
    <3>2. Merging' \cup Promoting' \subseteq InFlight \cup {g}
      BY <1>1 DEF Begins, InFlight
    <3> QED
      BY <3>1, <3>2 DEF Alone, Undisturbed
  <2> QED
    BY <2>1, <2>2
<1>2. CASE BeginsNone
  BY <1>2 DEF Alone, BeginsNone, Undisturbed
<1> QED
  BY <1>1, <1>2

LEMMA CallsInit == Init => CallsInv
<1> SUFFICES ASSUME Init
             PROVE  CallsInv
  OBVIOUS
<1>1. Merging = {} /\ Promoting = {}
  BY DEF Init, Merging, Promoting
<1>2. \A x \in Corrections : cand[x].sources = {} /\ Copies(x) = {}
  BY DEF Init, NoSnapshot, NoCandidate, Copies, Holding
<1>3. Alone
  BY <1>1 DEF Alone
<1>4. DoneFirst
  BY <1>2 DEF DoneFirst, Exists, Init
<1> QED
  BY <1>3, <1>4, EarnedInit DEF CallsInv

\* A candidate that is held exists; one that exists stays.
LEMMA HeldExists ==
  ASSUME CallsInv, NEW y \in Corrections, Copies(y) # {}
  PROVE  Exists(y)
BY DEF CallsInv, DoneFirst, Copies

LEMMA ExistsStays ==
  ASSUME CallsInv, Steady, NEW y \in Corrections, Exists(y)
  PROVE  Exists(y)'
<1>1. \A r \in Copies(y) : r.sources # {}
  BY DEF CallsInv, DoneFirst
<1> QED
  BY <1>1 DEF Steady, Evolves, Exists

LEMMA DoneFirstNext ==
  ASSUME CallsInv, Steady,
         (\E c \in Corrections : Merger(c)) \/ (\E q \in Promotions : Promotion(q))
  PROVE  DoneFirst'
<1>t. TypeOK
  BY DEF CallsInv, EarnedInv, Typed
<1>1. \A x \in Corrections : Exists(x)' => Done(x)'
  <2> TAKE x \in Corrections
  <2>1. CASE cand'[x] = cand[x]
    BY <2>1 DEF CallsInv, DoneFirst, Steady, Exists
  <2>2. CASE Copies(x) # {}
    BY <2>2, HeldExists DEF CallsInv, DoneFirst, Steady
  <2>3. CASE Finishes(x)
    BY <2>3 DEF Finishes
  <2> QED
    BY <2>1, <2>2, <2>3 DEF Steady, Evolves
<1>2. \A x \in Corrections : \A r \in {cand'[x]} \cup Copies(x)' : \A s \in r.sources : Done(s)'
  <2> TAKE x \in Corrections
  <2>1. \A r \in {cand[x]} \cup Copies(x) : \A s \in r.sources : s \in Corrections /\ Done(s)'
    <3>1. \A r \in {cand[x]} \cup Copies(x) : r \in Candidate
      BY <1>t DEF TypeOK, Copies
    <3>2. \A r \in {cand[x]} \cup Copies(x) : \A s \in r.sources : s \in Corrections /\ Done(s)
      BY <3>1 DEF CallsInv, DoneFirst, Candidate
    <3> QED
      BY <3>2 DEF Steady
  <2>2. \A s \in cand'[x].sources : Done(s)'
    BY <2>1 DEF Steady, Evolves, Finishes
  <2> QED
    BY <2>1, <2>2 DEF Steady, Stored
<1>5. \A x \in Corrections : \A r \in Copies(x)' : r.sources # {}
  BY DEF CallsInv, DoneFirst, Steady, Stored, Exists
<1>3. /\ \A c \in Corrections : \A x \in match'[c] \cup todo'[c] : Exists(x)'
      /\ \A c \in Corrections : c \notin Merging' => match'[c] = {} /\ todo'[c] = {}
  <2>d. \A c \in Corrections : \A x \in match[c] \cup todo[c] : x \in Corrections /\ Exists(x)'
    BY <1>t, ExistsStays DEF CallsInv, DoneFirst, TypeOK
  <2>e. \A c \in Corrections : c \notin Merging => match[c] = {} /\ todo[c] = {}
    BY DEF CallsInv, DoneFirst
  <2>1. ASSUME NEW c \in Corrections, NEW w \in Said, ListSiblings(c, w)
        PROVE  /\ \A d \in Corrections : \A x \in match'[d] \cup todo'[d] : Exists(x)'
               /\ \A d \in Corrections : d \notin Merging' => match'[d] = {} /\ todo'[d] = {}
    <3>1. \A x \in Siblings(w.pattern) : x \in Corrections /\ Exists(x)'
      BY ExistsStays DEF Siblings
    <3>2. \/ todo' = [todo EXCEPT ![c] = Siblings(w.pattern)] /\ match' = match
          \/ \E x \in Siblings(w.pattern) : match' = [match EXCEPT ![c] = {x}] /\ todo' = todo
      BY <2>1 DEF ListSiblings
    <3>3. Merging' = Merging \cup {c}
      BY <1>t, <2>1 DEF ListSiblings, Merging, TypeOK
    <3>4. \A d \in Corrections : \A x \in match'[d] \cup todo'[d] : Exists(x)'
      <4> TAKE d \in Corrections
      <4>1. todo'[d] = todo[d] \/ todo'[d] = Siblings(w.pattern)
        BY <1>t, <3>2 DEF TypeOK
      <4>2. match'[d] = match[d] \/ \E x \in Siblings(w.pattern) : match'[d] = {x}
        BY <1>t, <3>2 DEF TypeOK
      <4> QED
        BY <2>d, <3>1, <4>1, <4>2
    <3>5. \A d \in Corrections : d \notin Merging' => match'[d] = {} /\ todo'[d] = {}
      <4>1. \A d \in Corrections \ {c} : match'[d] = match[d] /\ todo'[d] = todo[d]
        BY <1>t, <3>2 DEF TypeOK
      <4> QED
        BY <2>e, <3>3, <4>1
    <3> QED
      BY <3>4, <3>5
  <2>2. ASSUME NEW c \in Corrections,
               SaveConflict(c) \/ CreateCandidate(c) \/ AddEvidence(c) \/ MergeFails(c)
        PROVE  /\ \A d \in Corrections : \A x \in match'[d] \cup todo'[d] : Exists(x)'
               /\ \A d \in Corrections : d \notin Merging' => match'[d] = {} /\ todo'[d] = {}
    <3>1. /\ \A d \in Corrections : match'[d] \subseteq match[d] /\ todo'[d] \subseteq todo[d]
          /\ \A d \in Corrections : d \notin Merging' =>
               d \notin Merging \/ (match'[d] = {} /\ todo'[d] = {})
      <4>1. CASE SaveConflict(c)
        <5>1. /\ match' = match /\ mpc' = mpc
              /\ \E x \in todo[c] : todo' = [todo EXCEPT ![c] = @ \ {x}]
          BY <4>1 DEF SaveConflict
        <5>2. \A d \in Corrections : todo'[d] \subseteq todo[d]
          BY <1>t, <5>1 DEF TypeOK
        <5> QED
          BY <5>1, <5>2 DEF Merging
      <4>2. CASE \E step \in {"done", "failed"} : MergeReturns(c, step)
        <5>1. /\ match' = [match EXCEPT ![c] = {}] /\ todo' = [todo EXCEPT ![c] = {}]
              /\ \E step \in {"done", "failed"} : mpc' = [mpc EXCEPT ![c] = step]
          BY <4>2
        <5>2. \A d \in Corrections \ {c} :
                match'[d] = match[d] /\ todo'[d] = todo[d] /\ mpc'[d] = mpc[d]
          BY <1>t, <5>1 DEF TypeOK
        <5>3. match'[c] = {} /\ todo'[c] = {}
          BY <1>t, <5>1 DEF TypeOK
        <5>4. \A d \in Corrections \ {c} : d \in Merging' <=> d \in Merging
          BY <5>2 DEF Merging
        <5> QED
          BY <5>2, <5>3, <5>4
      <4> QED
        BY <2>2, <4>1, <4>2 DEF CreateCandidate, AddEvidence, MergeFails
    <3>2. \A d \in Corrections : \A x \in match'[d] \cup todo'[d] : Exists(x)'
      BY <2>d, <3>1
    <3>3. ASSUME NEW d \in Corrections, d \notin Merging'
          PROVE  match'[d] = {} /\ todo'[d] = {}
      <4>1. match'[d] \subseteq match[d] /\ todo'[d] \subseteq todo[d]
        BY <3>1
      <4>2. CASE d \notin Merging
        BY <2>e, <4>1, <4>2
      <4> QED
        BY <3>1, <3>3, <4>2
    <3> QED
      BY <3>2, <3>3
  <2>3. ASSUME NEW q \in Promotions, Promotion(q)
        PROVE  UNCHANGED <<mpc, match, todo>>
    BY <2>3 DEF Promotion, PromoteCommand, PromoteRequest, GetCandidate, DeprecateActiveRule,
                CreateValidatedRule, SavePromoted, ActiveSkillVersion, ListVisibleRules,
                CreateSkillVersion, PromotionFails
  <2>4. CASE \E c \in Corrections : Merger(c)
    BY <2>1, <2>2, <2>4 DEF Merger
  <2>5. CASE \E q \in Promotions : Promotion(q)
    <3>1. match' = match /\ todo' = todo /\ Merging' = Merging
      BY <2>3, <2>5 DEF Merging
    <3> QED
      BY <2>d, <2>e, <3>1
  <2> QED
    BY <2>4, <2>5
<1>4. \A q \in Promotions : \A x \in target'[q] : Exists(x)'
  <2>1. \A q \in Promotions : \A x \in target[q] : Exists(x)'
    BY <1>t, ExistsStays DEF CallsInv, DoneFirst, TypeOK
  <2>2. ASSUME NEW q \in Promotions, PromoteCommand(q) \/ PromoteRequest(q)
        PROVE  \A p \in Promotions : \A x \in target'[p] : Exists(x)'
    <3>1. PICK x \in Corrections : Exists(x) /\ target' = [target EXCEPT ![q] = {x}]
      BY <2>2 DEF PromoteCommand, PromoteRequest
    <3>2. Exists(x)'
      BY <3>1, ExistsStays
    <3> QED
      BY <1>t, <2>1, <3>1, <3>2 DEF TypeOK
  <2>3. ASSUME NEW q \in Promotions, Promotion(q), ~(PromoteCommand(q) \/ PromoteRequest(q))
        PROVE  target' = target
    BY <2>3 DEF Promotion, GetCandidate, DeprecateActiveRule, CreateValidatedRule, SavePromoted,
                ActiveSkillVersion, ListVisibleRules, CreateSkillVersion, PromotionFails
  <2>4. ASSUME NEW c \in Corrections, Merger(c)
        PROVE  target' = target
    BY <2>4 DEF Merger, ListSiblings, SaveConflict, CreateCandidate, AddEvidence, MergeFails
  <2> QED
    BY <2>1, <2>2, <2>3, <2>4
<1> QED
  BY <1>1, <1>2, <1>3, <1>4, <1>5 DEF DoneFirst

\* A step begins one call or none.
Overlaps == (\E g \in Corrections \cup Promotions : Begins(g)) \/ BeginsNone

LEMMA CallsNext ==
  CallsInv /\ [Next]_vars =>
    /\ CallsInv'
    /\ (Steady /\ Overlaps) \/ UNCHANGED vars
<1> SUFFICES ASSUME CallsInv, [Next]_vars
             PROVE  CallsInv' /\ ((Steady /\ Overlaps) \/ UNCHANGED vars)
  OBVIOUS
<1>e. EarnedInv'
  BY EarnedNext DEF CallsInv
<1>1. CASE Next
  <2>1. Steady
    BY <1>1, SteadyMerger, SteadyPromotion DEF Next
  <2>2. DoneFirst'
    BY <1>1, <2>1, DoneFirstNext DEF Next
  <2>3. Overlaps
    BY <1>1, CallsMerger, CallsPromotion DEF Next, Overlaps
  <2>4. Alone'
    BY <2>3, AloneNext DEF CallsInv, Overlaps
  <2> QED
    BY <1>e, <2>1, <2>2, <2>3, <2>4 DEF CallsInv
<1>2. CASE UNCHANGED vars
  BY <1>e, <1>2 DEF CallsInv, Alone, DoneFirst, Undisturbed, Merging, Promoting, Exists, Done,
                    Copies, Holding
<1> QED
  BY <1>1, <1>2

\* A merger that finishes undisturbed was alone, and leaves no copies.
LEMMA AloneEnds ==
  ASSUME CallsInv, CallsInv', Overlaps,
         NEW c \in Corrections, Finishes(c), Undisturbed(c)'
  PROVE  /\ BeginsNone /\ Undisturbed(c) /\ Merging = {c} /\ Promoting = {}
         /\ \A y \in Corrections : Copies(y)' = {}
<1>1. c \in Merging /\ c \notin Merging'
  BY DEF Finishes, Done, Merging
<1>2. BeginsNone
  BY <1>1 DEF Overlaps, Begins, InFlight, Undisturbed
<1>3. Undisturbed(c) /\ Merging = {c} /\ Promoting = {}
  BY <1>1, <1>2 DEF BeginsNone, Undisturbed, CallsInv, Alone
<1>4. Merging' = {} /\ Promoting' = {}
  BY <1>1, <1>2, <1>3 DEF BeginsNone
<1>5. \A d \in Corrections : match'[d] = {} /\ todo'[d] = {}
  BY <1>4 DEF CallsInv, DoneFirst
<1>6. \A p \in Promotions : ppc'[p] \notin Holding
  BY <1>4 DEF Promoting, Holding
<1> QED
  BY <1>2, <1>3, <1>5, <1>6 DEF Copies

-----------------------------------------------------------------------------
(* Evidence                                                                *)

\* x is the candidate that counts correction c, in the store and in every copy.
KeptIn(c, x) ==
  \A y \in Corrections : \A r \in {cand[y]} \cup Copies(y) : c \in r.sources <=> y = x

Kept == \A c \in Corrections : Done(c) /\ Undisturbed(c) => \E x \in Corrections : KeptIn(c, x)

LEMMA KeptNext ==
  ASSUME CallsInv, CallsInv', Kept, Steady, Overlaps
  PROVE  Kept'
<1> SUFFICES ASSUME NEW c \in Corrections, Done(c)', Undisturbed(c)'
             PROVE  \E x \in Corrections : KeptIn(c, x)'
  BY DEF Kept
<1>1. CASE Done(c)
  <2>1. Undisturbed(c)
    BY DEF Overlaps, Begins, BeginsNone, Undisturbed
  <2>2. PICK x \in Corrections : KeptIn(c, x)
    BY <1>1, <2>1 DEF Kept
  <2>3. ~Finishes(c)
    BY <1>1 DEF Finishes, Done, Merging
  <2>4. ~Finishes(x)
    <3>1. Exists(x)
      BY <2>2 DEF KeptIn, Exists
    <3> QED
      BY <3>1 DEF CallsInv, DoneFirst, Finishes, Done, Merging
  <2>5. ASSUME NEW y \in Corrections
        PROVE  c \in cand'[y].sources <=> y = x
    BY <2>2, <2>3, <2>4 DEF KeptIn, Steady, Evolves
  <2>6. ASSUME NEW y \in Corrections, NEW r \in Copies(y)'
        PROVE  c \in r.sources <=> y = x
    BY <2>2 DEF KeptIn, Steady, Stored
  <2> QED
    BY <2>5, <2>6 DEF KeptIn
<1>2. CASE ~Done(c)
  <2>1. /\ Finishes(c)
        /\ \E x \in Corrections : /\ c \in cand'[x].sources
                                 /\ \A y \in Corrections \ {x} : cand'[y] = cand[y]
    BY <1>2 DEF Steady
  <2>2. PICK x \in Corrections : /\ c \in cand'[x].sources
                                /\ \A y \in Corrections \ {x} : cand'[y] = cand[y]
    BY <2>1
  <2>3. \A y \in Corrections : Copies(y)' = {}
    BY <2>1, AloneEnds
  <2>4. \A y \in Corrections : c \notin cand[y].sources
    BY <1>2 DEF CallsInv, DoneFirst
  <2> QED
    BY <2>2, <2>3, <2>4 DEF KeptIn
<1> QED
  BY <1>1, <1>2

\* Evidence is lost only to a call that ran at the same time.
THEOREM EvidenceStays == Spec => []EvidenceKept
<1>1. Init => Kept
  BY DEF Init, Kept, Done
<1>2. CallsInv /\ Kept /\ [Next]_vars => Kept'
  <2> SUFFICES ASSUME CallsInv, Kept, [Next]_vars
               PROVE  Kept'
    OBVIOUS
  <2>1. CallsInv' /\ ((Steady /\ Overlaps) \/ UNCHANGED vars)
    BY CallsNext
  <2>2. CASE UNCHANGED vars
    BY <2>2 DEF Kept, KeptIn, Done, Undisturbed, Copies, Holding
  <2> QED
    BY <2>1, <2>2, KeptNext
<1>3. Kept => EvidenceKept
  <2> SUFFICES ASSUME Kept, NEW c \in Corrections, mpc[c] = "done", Undisturbed(c)
               PROVE  Cardinality({x \in Corrections : c \in cand[x].sources}) = 1
    BY DEF EvidenceKept
  <2>1. PICK x \in Corrections : KeptIn(c, x)
    BY DEF Kept, Done
  <2>2. {y \in Corrections : c \in cand[y].sources} = {x}
    BY <2>1 DEF KeptIn
  <2> QED
    BY <2>2, FS_Singleton
<1> QED
  BY CallsInit, CallsNext, <1>1, <1>2, <1>3, PTL DEF Spec

-----------------------------------------------------------------------------
(* Contradictions                                                          *)

\* Candidate x carries a contradiction, in the store and in every copy.
Marked(x) == \A r \in {cand[x]} \cup Copies(x) : r.contra > 0

Opposed(x, y) ==
  /\ Undisturbed(x) /\ Undisturbed(y)
  /\ what[x].pattern = what[y].pattern /\ what[x].action # what[y].action

\* One of two opposed candidates is marked; and a merger that creates a
\* candidate undisturbed has marked its siblings or will.
Noted ==
  /\ \A x, y \in Corrections :
       Exists(x) /\ Exists(y) /\ Opposed(x, y) => Marked(x) \/ Marked(y)
  /\ \A c, y \in Corrections :
       /\ mpc[c] = "create" /\ Undisturbed(c)
       /\ Exists(y) /\ what[y].pattern = what[c].pattern
       => y \in todo[c] \/ cand[y].contra > 0

LEMMA MarkedStays ==
  ASSUME CallsInv, CallsInv', Steady, NEW x \in Corrections, Exists(x), Marked(x)
  PROVE  Marked(x)'
<1>1. ~Finishes(x)
  BY DEF CallsInv, DoneFirst, Finishes, Done, Merging
<1>2. \A r \in {cand[x]} \cup Copies(x) : r \in Candidate
  BY DEF CallsInv, EarnedInv, Typed, TypeOK, Copies
<1>3. cand'[x].contra > 0
  <2>1. CASE cand'[x] = cand[x]
    BY <2>1 DEF Marked
  <2>2. ASSUME NEW r \in Copies(x), cand'[x].contra >= r.contra
        PROVE  cand'[x].contra > 0
    <3>1. r.contra > 0 /\ r.contra \in Nat
      BY <1>2 DEF Marked, Candidate
    <3>2. cand'[x].contra \in Nat
      BY DEF CallsInv, EarnedInv, Typed, TypeOK, Candidate
    <3> QED
      BY <2>2, <3>1, <3>2
  <2>3. ASSUME NEW r \in Copies(x), cand'[x].contra = r.contra
        PROVE  cand'[x].contra > 0
    BY <2>3 DEF Marked
  <2> QED
    BY <1>1, <2>1, <2>2, <2>3 DEF Steady, Evolves
<1> QED
  BY <1>3 DEF Marked, Steady, Stored

\* A candidate that is new was created by its own merger.
LEMMA NewIsCreated ==
  ASSUME CallsInv, Steady, NEW x \in Corrections, ~Exists(x), Exists(x)'
  PROVE  /\ Finishes(x) /\ mpc[x] = "create" /\ todo[x] = {}
         /\ \A y \in Corrections \ {x} : cand'[y] = cand[y]
<1>1. Copies(x) = {}
  BY HeldExists
<1>2. cand'[x] # cand[x]
  BY DEF Exists
<1>3. Finishes(x) /\ mpc[x] = "create" /\ todo[x] = {}
  BY <1>1, <1>2 DEF Steady, Evolves
<1>4. Done(x)' /\ ~Done(x)
  BY <1>3 DEF Finishes, Done
<1> QED
  BY <1>2, <1>3, <1>4 DEF Steady

LEMMA NotedNext ==
  ASSUME CallsInv, CallsInv', Noted, Steady, Overlaps, Next
  PROVE  Noted'
<1>t. TypeOK
  BY DEF CallsInv, EarnedInv, Typed
<1>o. \A g : Undisturbed(g)' => Undisturbed(g)
  BY DEF Overlaps, Begins, BeginsNone, Undisturbed
<1>d. \A x \in Corrections : Exists(x) => Done(x) /\ what'[x] = what[x]
  BY DEF CallsInv, DoneFirst, Steady, Done
<1>1. ASSUME NEW x \in Corrections, NEW y \in Corrections,
             Exists(x)', Exists(y)', Opposed(x, y)', ~Exists(x)
      PROVE  Marked(y)'
  <2>1. /\ Finishes(x) /\ mpc[x] = "create" /\ todo[x] = {}
        /\ \A z \in Corrections \ {x} : cand'[z] = cand[z]
    BY <1>1, NewIsCreated
  <2>2. Undisturbed(x) /\ \A z \in Corrections : Copies(z)' = {}
    BY <1>1, <2>1, AloneEnds DEF Opposed
  <2>3. x # y
    BY <1>1 DEF Opposed
  <2>4. Exists(y)
    BY <1>1, <2>1, <2>3 DEF Exists
  <2>5. what[y].pattern = what[x].pattern
    <3>1. what'[x] = what[x]
      BY <2>1 DEF Steady
    <3> QED
      BY <1>1, <1>d, <2>4, <3>1 DEF Opposed
  <2>6. cand[y].contra > 0
    BY <2>1, <2>2, <2>4, <2>5 DEF Noted
  <2> QED
    BY <2>1, <2>2, <2>3, <2>6 DEF Marked
<1>2. ASSUME NEW x \in Corrections, NEW y \in Corrections,
             Exists(x)', Exists(y)', Opposed(x, y)'
      PROVE  Marked(x)' \/ Marked(y)'
  <2>1. CASE ~Exists(x)
    BY <1>1, <1>2, <2>1
  <2>2. CASE ~Exists(y)
    <3>1. Opposed(y, x)'
      BY <1>2 DEF Opposed
    <3> QED
      BY <1>1, <1>2, <2>2, <3>1
  <2>3. CASE Exists(x) /\ Exists(y)
    <3>1. Opposed(x, y)
      BY <1>2, <1>d, <1>o, <2>3 DEF Opposed
    <3> QED
      BY <2>3, <3>1, MarkedStays DEF Noted
  <2> QED
    BY <2>1, <2>2, <2>3
<1>3. ASSUME NEW c \in Corrections, NEW y \in Corrections,
             mpc'[c] = "create", Undisturbed(c)', Exists(y)', what'[y].pattern = what'[c].pattern
      PROVE  y \in todo'[c] \/ cand'[y].contra > 0
  <2>1. CASE mpc[c] = "create"
    <3>1. c \in Merging /\ Undisturbed(c)
      BY <1>3, <1>o, <2>1 DEF Merging
    <3>2. Merging = {c} /\ Promoting = {}
      BY <3>1 DEF CallsInv, Alone
    <3>3. Merger(c)
      <4>1. ASSUME NEW d \in Corrections, Merger(d)
            PROVE  d = c
        <5>1. ~Begins(d)
          BY <1>3, <3>1 DEF Begins, InFlight, Undisturbed
        <5> QED
          BY <3>2, <4>1, <5>1, CallsMerger
      <4>2. ASSUME NEW q \in Promotions, Promotion(q)
            PROVE  FALSE
        <5>1. ~Begins(q)
          BY <1>3, <3>1 DEF Begins, InFlight, Undisturbed
        <5> QED
          BY <3>2, <4>2, <5>1, CallsPromotion
      <4> QED
        BY <4>1, <4>2 DEF Next
    <3>4. SaveConflict(c)
      <4>1. \A step \in {"done", "failed"} : ~MergeReturns(c, step)
        BY <1>3, <1>t DEF TypeOK
      <4>2. \A w \in Said : ~ListSiblings(c, w)
        BY <2>1 DEF ListSiblings
      <4> QED
        BY <3>3, <4>1, <4>2 DEF Merger, CreateCandidate, AddEvidence, MergeFails
    <3>5. PICK x \in todo[c] : /\ cand' = [cand EXCEPT ![x] = Contradicted(seen[c][x])]
                              /\ todo' = [todo EXCEPT ![c] = @ \ {x}]
      BY <3>4 DEF SaveConflict
    <3>6. x \in Corrections /\ seen[c][x].contra \in Nat
      BY <1>t, <3>5 DEF TypeOK, Candidate
    <3>7. CASE y = x
      <4>1. cand'[y].contra = seen[c][x].contra + 1
        BY <1>t, <3>5, <3>7 DEF TypeOK, Contradicted, Rescored
      <4> QED
        BY <3>6, <4>1
    <3>8. CASE y # x
      <4>1. cand'[y] = cand[y] /\ todo'[c] = todo[c] \ {x}
        BY <1>t, <3>5, <3>8 DEF TypeOK
      <4>2. Exists(y) /\ what' = what
        BY <1>3, <3>4, <4>1 DEF Exists, SaveConflict
      <4> QED
        BY <1>3, <2>1, <3>1, <3>8, <4>1, <4>2 DEF Noted
    <3> QED
      BY <3>7, <3>8
  <2>2. CASE mpc[c] # "create"
    <3>1. PICK w \in Said : ListSiblings(c, w)
      <4>1. ASSUME NEW d \in Corrections, NEW w \in Said, ListSiblings(d, w)
            PROVE  d = c
        <5>1. \E step \in {"create", "match"} : mpc' = [mpc EXCEPT ![d] = step]
          BY <4>1 DEF ListSiblings
        <5> QED
          BY <1>3, <1>t, <2>2, <5>1 DEF TypeOK
      <4>2. ASSUME NEW d \in Corrections,
                   SaveConflict(d) \/ CreateCandidate(d) \/ AddEvidence(d) \/ MergeFails(d)
            PROVE  FALSE
        <5>1. mpc' = mpc \/ \E step \in {"done", "failed"} : mpc' = [mpc EXCEPT ![d] = step]
          BY <4>2 DEF SaveConflict, CreateCandidate, AddEvidence, MergeFails
        <5> QED
          BY <1>3, <1>t, <2>2, <5>1 DEF TypeOK
      <4>3. ASSUME NEW q \in Promotions, Promotion(q)
            PROVE  FALSE
        <5>1. mpc' = mpc
          BY <4>3 DEF Promotion, PromoteCommand, PromoteRequest, GetCandidate,
                DeprecateActiveRule, CreateValidatedRule, SavePromoted, ActiveSkillVersion,
                ListVisibleRules, CreateSkillVersion, PromotionFails
        <5> QED
          BY <1>3, <2>2, <5>1
      <4> QED
        BY <4>1, <4>2, <4>3 DEF Next, Merger
    <3>2. /\ mpc[c] = "new" /\ cand' = cand /\ what' = [what EXCEPT ![c] = w]
          /\ todo' = [todo EXCEPT ![c] = Siblings(w.pattern)]
      <4>1. ~MergerTo(c, "match")
        BY <1>3, <1>t DEF TypeOK
      <4> QED
        BY <3>1, <4>1 DEF ListSiblings
    <3>3. Exists(y) /\ y # c
      BY <1>3, <1>d, <3>2 DEF Exists, Done
    <3>4. what[y].pattern = w.pattern
      BY <1>3, <1>t, <3>2, <3>3 DEF TypeOK
    <3>5. y \in todo'[c]
      BY <1>t, <3>2, <3>3, <3>4 DEF TypeOK, Siblings
    <3> QED
      BY <3>5
  <2> QED
    BY <2>1, <2>2
<1> QED
  BY <1>2, <1>3 DEF Noted

\* Of two candidates that contradict each other, created with no other call
\* running, one carries the contradiction for good.
THEOREM ContradictionStays == Spec => []ContradictionNoticed
<1>1. Init => Noted
  BY DEF Init, Noted, Exists, NoSnapshot, NoCandidate
<1>2. CallsInv /\ Noted /\ [Next]_vars => Noted'
  <2> SUFFICES ASSUME CallsInv, Noted, [Next]_vars
               PROVE  Noted'
    OBVIOUS
  <2>1. CallsInv' /\ ((Steady /\ Overlaps) \/ UNCHANGED vars)
    BY CallsNext
  <2>2. CASE UNCHANGED vars
    BY <2>2 DEF Noted, Marked, Opposed, Exists, Undisturbed, Copies, Holding
  <2> QED
    BY <2>1, <2>2, NotedNext
<1>3. CallsInv /\ Noted => ContradictionNoticed
  <2> SUFFICES ASSUME CallsInv, Noted, NEW x \in Corrections, NEW y \in Corrections,
                      Exists(x), Exists(y), Opposed(x, y)
               PROVE  cand[x].contra + cand[y].contra > 0
    BY DEF ContradictionNoticed, Opposed
  <2>1. cand[x].contra \in Nat /\ cand[y].contra \in Nat
    BY DEF CallsInv, EarnedInv, Typed, TypeOK, Candidate
  <2>2. cand[x].contra > 0 \/ cand[y].contra > 0
    BY DEF Noted, Marked
  <2> QED
    BY <2>1, <2>2
<1> QED
  BY CallsInit, CallsNext, <1>1, <1>2, <1>3, PTL DEF Spec

-----------------------------------------------------------------------------
(* Rules                                                                   *)

Sequential == Promotions \cap overlapped = {}

\* Conditions have one active rule, none while a promotion is about to create
\* it; and the rule of a promotion is active after that step of it only.
OneRule ==
  /\ \A q, r \in ActiveRules : SamePattern(q, r) => q = r
  /\ \A q \in Promotions : ppc[q] = "create" => \A r \in ActiveRules : ~SamePattern(q, r)

ActiveLate == \A q \in ActiveRules : ppc[q] \notin {"new", "get", "deprecate", "create"}

RulesInv == ActiveLate /\ (Sequential => OneRule)

\* What a step other than DeprecateActiveRule and CreateValidatedRule does.
LEMMA RulesStay ==
  ASSUME Typed, NEW q \in Promotions, Promotion(q),
         ~DeprecateActiveRule(q), ~CreateValidatedRule(q)
  PROVE  /\ rules' = rules
         /\ \A r \in Promotions \ {q} : ppc'[r] = ppc[r]
         /\ \/ ppc'[q] = "get" /\ ppc[q] = "new"
            \/ ppc'[q] = "deprecate" /\ ppc[q] = "get" /\ target' = target
            \/ /\ ppc'[q] \in {"read", "list", "publish", "done", "failed"}
               /\ target' = target
         /\ \A r \in Promotions \ {q} : target'[r] = target[r]
<1>1. CASE PromoteCommand(q) \/ PromoteRequest(q)
  <2>1. /\ ppc[q] = "new" /\ ppc' = [ppc EXCEPT ![q] = "get"] /\ rules' = rules
        /\ \E x \in Corrections : target' = [target EXCEPT ![q] = {x}]
    BY <1>1 DEF PromoteCommand, PromoteRequest
  <2> QED
    BY <2>1 DEF Typed, TypeOK
<1>2. CASE GetCandidate(q)
  BY <1>2 DEF GetCandidate, Typed, TypeOK
<1>3. CASE ~(PromoteCommand(q) \/ PromoteRequest(q)) /\ ~GetCandidate(q)
  <2>1. /\ rules' = rules /\ target' = target
        /\ \E step \in {"read", "list", "publish", "done", "failed"} : PromotionTo(q, step)
    BY <1>3 DEF Promotion, SavePromoted, ActiveSkillVersion, ListVisibleRules,
                CreateSkillVersion, PromotionFails
  <2> QED
    BY <2>1 DEF Typed, TypeOK
<1> QED
  BY <1>1, <1>2, <1>3

\* What the conditions of two rules are does not change after they are chosen.
LEMMA SamePatternStays ==
  ASSUME CallsInv, Steady, NEW q \in Promotions, NEW r \in Promotions,
         target'[q] = target[q], target'[r] = target[r]
  PROVE  SamePattern(q, r)' <=> SamePattern(q, r)
<1>1. \A p \in Promotions : \A x \in target[p] : x \in Corrections /\ mpc[x] # "new"
  BY DEF CallsInv, DoneFirst, Done, EarnedInv, Typed, TypeOK
<1>2. \A x \in target[q] \cup target[r] : what'[x] = what[x]
  BY <1>1 DEF Steady
<1> QED
  BY <1>2 DEF SamePattern

LEMMA SamePatternTransitive ==
  ASSUME CallsInv, NEW q \in Promotions, NEW r \in Promotions, NEW t \in Promotions,
         SamePattern(q, r), SamePattern(q, t)
  PROVE  SamePattern(r, t)
BY DEF CallsInv, EarnedInv, OneTarget, SamePattern

LEMMA RulesNext ==
  ASSUME CallsInv, RulesInv, Steady, Overlaps, Next
  PROVE  RulesInv'
<1>t. Typed
  BY DEF CallsInv, EarnedInv
<1>s. Sequential' => Sequential
  BY DEF Overlaps, Begins, BeginsNone, Sequential
<1>a. ActiveRules \subseteq Promotions /\ ActiveRules' \subseteq Promotions
  BY DEF ActiveRules
<1>1. ASSUME NEW c \in Corrections, Merger(c)
      PROVE  RulesInv'
  <2>1. UNCHANGED <<rules, ppc, target>> /\ ActiveRules' = ActiveRules
    BY <1>1 DEF Merger, ListSiblings, SaveConflict, CreateCandidate, AddEvidence, MergeFails,
                ActiveRules
  <2>2. \A q, r \in Promotions : SamePattern(q, r)' <=> SamePattern(q, r)
    BY <2>1, SamePatternStays
  <2>3. ActiveLate'
    BY <2>1 DEF RulesInv, ActiveLate
  <2>4. OneRule => OneRule'
    BY <1>a, <2>1, <2>2 DEF OneRule
  <2> QED
    BY <1>s, <2>3, <2>4 DEF RulesInv
<1>2. ASSUME NEW q \in Promotions, Promotion(q), ~DeprecateActiveRule(q), ~CreateValidatedRule(q)
      PROVE  RulesInv'
  <2>1. /\ rules' = rules /\ ActiveRules' = ActiveRules
        /\ \A r \in Promotions \ {q} : ppc'[r] = ppc[r]
        /\ \/ ppc'[q] = "get" /\ ppc[q] = "new"
           \/ ppc'[q] = "deprecate" /\ ppc[q] = "get" /\ target' = target
           \/ ppc'[q] \in {"read", "list", "publish", "done", "failed"} /\ target' = target
        /\ \A r \in Promotions \ {q} : target'[r] = target[r]
    BY <1>t, <1>2, RulesStay DEF ActiveRules
  <2>2. ActiveLate'
    BY <1>a, <2>1 DEF RulesInv, ActiveLate
  <2>3. \A r \in ActiveRules : target'[r] = target[r]
    BY <1>a, <2>1 DEF RulesInv, ActiveLate
  <2>4. \A p \in Promotions : ppc'[p] = "create" => ppc[p] = "create" /\ target'[p] = target[p]
    BY <2>1
  <2>5. \A p, r \in Promotions : target'[p] = target[p] /\ target'[r] = target[r] =>
           (SamePattern(p, r)' <=> SamePattern(p, r))
    BY SamePatternStays
  <2>6. OneRule => OneRule'
    <3> SUFFICES ASSUME OneRule
                 PROVE  OneRule'
      OBVIOUS
    <3>1. \A p, r \in ActiveRules' : SamePattern(p, r)' => p = r
      BY <1>a, <2>1, <2>3, <2>5 DEF OneRule
    <3>2. \A p \in Promotions : ppc'[p] = "create" => \A r \in ActiveRules' : ~SamePattern(p, r)'
      BY <1>a, <2>1, <2>3, <2>4, <2>5 DEF OneRule
    <3> QED
      BY <3>1, <3>2 DEF OneRule
  <2> QED
    BY <1>s, <2>2, <2>6 DEF RulesInv
<1>3. ASSUME NEW q \in Promotions, DeprecateActiveRule(q) \/ CreateValidatedRule(q)
      PROVE  /\ \A p, r \in Promotions : SamePattern(p, r)' <=> SamePattern(p, r)
             /\ Sequential' => \A p \in Promotions : ppc'[p] = "create" => p = q
  <2>1. target' = target
    BY <1>3 DEF DeprecateActiveRule, CreateValidatedRule
  <2>2. ASSUME Sequential', NEW p \in Promotions, ppc'[p] = "create"
        PROVE  p = q
    <3>1. q \in Promoting
      BY <1>3 DEF DeprecateActiveRule, CreateValidatedRule, Promoting
    <3>2. Promoting = {q}
      BY <1>s, <2>2, <3>1 DEF CallsInv, Alone, Sequential, Undisturbed
    <3>3. p # q => ppc'[p] = ppc[p]
      BY <1>3, <1>t DEF DeprecateActiveRule, CreateValidatedRule, Typed, TypeOK
    <3> QED
      BY <2>2, <3>2, <3>3 DEF Promoting
  <2> QED
    BY <2>1, <2>2, SamePatternStays
<1>4. ASSUME NEW q \in Promotions, DeprecateActiveRule(q)
      PROVE  RulesInv'
  <2>1. /\ ppc[q] = "deprecate" /\ ppc'[q] = "create"
        /\ \A r \in Promotions \ {q} : ppc'[r] = ppc[r]
    BY <1>4, <1>t DEF DeprecateActiveRule, Typed, TypeOK
  <2>2. q \notin ActiveRules
    BY <2>1 DEF RulesInv, ActiveLate
  <2>3. ActiveRules' = ActiveRules \ Supersedable(q)
    <3>1. \A r \in Promotions :
            /\ r \in Supersedable(q) => rules'[r].status = "deprecated"
            /\ r \notin Supersedable(q) /\ r = q => rules'[r].status = "none"
            /\ r \notin Supersedable(q) /\ r # q => rules'[r] = rules[r]
      <4> DEFINE old == Supersedable(q)
                 number == IF old = {} THEN 1
                           ELSE (CHOOSE v \in {rules[t].version : t \in old} : TRUE) + 1
      <4>1. rules' = [r \in Promotions |->
               IF r \in old THEN [rules[r] EXCEPT !.status = "deprecated"]
               ELSE IF r = q THEN [NoRule EXCEPT !.supersedes = old, !.version = number]
               ELSE rules[r]]
        BY <1>4 DEF DeprecateActiveRule
      <4>2. \A r \in Promotions : rules[r] \in Rule
        BY <1>t DEF Typed, TypeOK
      <4> HIDE DEF old, number
      <4>3. \A r \in Promotions :
              /\ r \in old => rules'[r].status = "deprecated"
              /\ r \notin old /\ r = q => rules'[r].status = "none"
              /\ r \notin old /\ r # q => rules'[r] = rules[r]
        BY <4>1, <4>2
      <4> QED
        BY <4>3 DEF old
    <3> QED
      BY <2>2, <3>1 DEF ActiveRules
  <2>4. ActiveLate'
    BY <1>a, <2>1, <2>2, <2>3 DEF RulesInv, ActiveLate
  <2>5. ASSUME Sequential'
        PROVE  OneRule'
    <3>1. OneRule
      BY <1>s, <2>5 DEF RulesInv
    <3>2. \A p, r \in ActiveRules' : SamePattern(p, r)' => p = r
      BY <1>3, <1>4, <1>a, <2>3, <3>1 DEF OneRule
    <3>3. ASSUME NEW r \in ActiveRules', SamePattern(q, r)
          PROVE  FALSE
      <4> DEFINE S == {t \in ActiveRules : SamePattern(q, t)}
      <4>1. r \in S
        BY <2>3, <3>3
      <4>2. \A t \in S : t = r
        BY <1>a, <3>1, <4>1, SamePatternTransitive DEF OneRule
      <4>3. promotedAt[r] \in Nat
        BY <1>a, <1>t DEF Typed, TypeOK
      <4>4. r \in Newest(S)
        BY <4>1, <4>2, <4>3 DEF Newest
      <4> QED
        BY <2>3, <3>3, <4>4 DEF Supersedable
    <3> QED
      BY <1>3, <1>4, <1>a, <2>5, <3>2, <3>3 DEF OneRule
  <2> QED
    BY <2>4, <2>5 DEF RulesInv
<1>5. ASSUME NEW q \in Promotions, CreateValidatedRule(q)
      PROVE  RulesInv'
  <2>1. /\ ppc[q] = "create" /\ ppc'[q] = "save"
        /\ \A r \in Promotions \ {q} : ppc'[r] = ppc[r]
    BY <1>5, <1>t DEF CreateValidatedRule, Typed, TypeOK
  <2>2. ActiveRules' = ActiveRules \cup {q}
    <3>1. rules' = [rules EXCEPT ![q].status = "active"]
      BY <1>5 DEF CreateValidatedRule
    <3>2. /\ rules[q] \in Rule
          /\ rules'[q] = [rules[q] EXCEPT !.status = "active"]
          /\ \A r \in Promotions \ {q} : rules'[r] = rules[r]
      BY <1>t, <3>1 DEF Typed, TypeOK
    <3>3. rules'[q].status = "active"
      BY <3>2
    <3> QED
      BY <3>2, <3>3 DEF ActiveRules
  <2>3. ActiveLate'
    BY <1>a, <2>1, <2>2 DEF RulesInv, ActiveLate
  <2>4. ASSUME Sequential'
        PROVE  OneRule'
    <3>1. OneRule
      BY <1>s, <2>4 DEF RulesInv
    <3>2. \A r \in ActiveRules : ~SamePattern(q, r) /\ ~SamePattern(r, q)
      BY <2>1, <3>1 DEF OneRule, SamePattern
    <3>3. \A p, r \in ActiveRules' : SamePattern(p, r)' => p = r
      BY <1>3, <1>5, <1>a, <2>2, <3>1, <3>2 DEF OneRule
    <3>4. \A p \in Promotions : ppc'[p] # "create"
      BY <1>3, <1>5, <2>1, <2>4
    <3> QED
      BY <3>3, <3>4 DEF OneRule
  <2> QED
    BY <2>3, <2>4 DEF RulesInv
<1> QED
  BY <1>1, <1>2, <1>4, <1>5 DEF Next

\* Without promotions that overlap, conditions have at most one active rule,
\* also when promotions are cut short.
THEOREM OneRuleAlways == Spec => []OneActiveRule
<1>1. Init => RulesInv
  BY DEF Init, RulesInv, ActiveLate, OneRule, ActiveRules
<1>2. CallsInv /\ RulesInv /\ [Next]_vars => RulesInv'
  <2> SUFFICES ASSUME CallsInv, RulesInv, [Next]_vars
               PROVE  RulesInv'
    OBVIOUS
  <2>1. CallsInv' /\ ((Steady /\ Overlaps) \/ UNCHANGED vars)
    BY CallsNext
  <2>2. CASE UNCHANGED vars
    BY <2>2 DEF RulesInv, ActiveLate, Sequential, OneRule, ActiveRules, SamePattern
  <2> QED
    BY <2>1, <2>2, RulesNext
<1>3. RulesInv => OneActiveRule
  BY DEF RulesInv, Sequential, OneRule, OneActiveRule
<1> QED
  BY CallsInit, CallsNext, <1>1, <1>2, <1>3, PTL DEF Spec

-----------------------------------------------------------------------------
(* Manifests                                                               *)

\* Promotions are numbered as they read their candidates; the active skill
\* version is of one that is done.
Clock ==
  /\ \A q \in Promotions : ppc[q] \in {"new", "get"} => promotedAt[q] = 0
  /\ \A q \in Promotions : promotedAt[q] <= Now
  /\ \A q \in active : ppc[q] = "done"

\* An undisturbed promotion publishes the active rules, and they are the same
\* until another one has read its candidate.
Published ==
  /\ \A q \in Promotions :
       ppc[q] = "publish" /\ Undisturbed(q) => skills[q].manifest = ActiveRules
  /\ \A q \in Promotions :
       ppc[q] = "done" /\ Undisturbed(q) /\ promotedAt[q] = Now =>
         /\ \A r \in Promoting : ppc[r] = "get"
         /\ skills[q].manifest = ActiveRules

LEMMA NowAdvances ==
  ASSUME Typed, NEW q \in Promotions, promotedAt[q] = 0,
         promotedAt' = [promotedAt EXCEPT ![q] = Now + 1]
  PROVE  Now' = Now + 1
<1> DEFINE S == {p \in Promotions : promotedAt[p] # 0}
<1>1. IsFiniteSet(S)
  BY LearningAssumption, FS_Subset
<1>2. Now + 1 # 0
  BY NowType
<1>3. {p \in Promotions : promotedAt'[p] # 0} = S \cup {q}
  BY <1>2 DEF Typed, TypeOK
<1>4. Cardinality(S \cup {q}) = Cardinality(S) + 1
  BY <1>1, FS_AddElement
<1> QED
  BY <1>3, <1>4 DEF Now

LEMMA ManifestNext ==
  ASSUME CallsInv, Clock, Published, Overlaps, Next
  PROVE  Clock' /\ Published'
<1>t. Typed /\ TypeOK
  BY DEF CallsInv, EarnedInv, Typed
<1>o. \A g : Undisturbed(g)' => Undisturbed(g)
  BY DEF Overlaps, Begins, BeginsNone, Undisturbed
<1>n. Now \in Nat /\ \A p \in Promotions : promotedAt[p] \in Nat
  BY <1>t, NowType DEF TypeOK
<1>1. ASSUME NEW c \in Corrections, Merger(c)
      PROVE  Clock' /\ Published'
  <2>1. UNCHANGED <<rules, skills, active, ppc, promotedAt>>
    BY <1>1 DEF Merger, ListSiblings, SaveConflict, CreateCandidate, AddEvidence, MergeFails
  <2>2. Now' = Now /\ ActiveRules' = ActiveRules /\ Promoting' = Promoting
    BY <2>1 DEF Now, ActiveRules, Promoting
  <2> QED
    BY <1>o, <2>1, <2>2 DEF Clock, Published
<1>2. ASSUME NEW q \in Promotions, PromoteCommand(q) \/ PromoteRequest(q)
      PROVE  Clock' /\ Published'
  <2>1. /\ ppc[q] = "new" /\ UNCHANGED <<rules, skills, active, promotedAt>>
        /\ ppc' = [ppc EXCEPT ![q] = "get"]
    BY <1>2 DEF PromoteCommand, PromoteRequest
  <2>2. ppc'[q] = "get" /\ \A p \in Promotions \ {q} : ppc'[p] = ppc[p]
    BY <1>t, <2>1 DEF TypeOK
  <2>3. Now' = Now /\ ActiveRules' = ActiveRules /\ Promoting' = Promoting \cup {q}
    BY <2>1, <2>2 DEF Now, ActiveRules, Promoting
  <2>4. q \notin active /\ active \subseteq Promotions
    BY <1>t, <2>1 DEF Clock, TypeOK
  <2>5. Clock'
    BY <2>1, <2>2, <2>3, <2>4 DEF Clock
  <2>6. ASSUME NEW p \in Promotions, ppc'[p] = "publish", Undisturbed(p)'
        PROVE  skills'[p].manifest = ActiveRules'
    BY <1>o, <2>1, <2>2, <2>3, <2>6 DEF Published
  <2>7. ASSUME NEW p \in Promotions, ppc'[p] = "done", Undisturbed(p)', promotedAt'[p] = Now'
        PROVE  (\A r \in Promoting' : ppc'[r] = "get") /\ skills'[p].manifest = ActiveRules'
    <3>1. (\A r \in Promoting : ppc[r] = "get") /\ skills[p].manifest = ActiveRules
      BY <1>o, <2>1, <2>2, <2>3, <2>7 DEF Published
    <3> QED
      BY <2>1, <2>2, <2>3, <3>1 DEF Promoting
  <2> QED
    BY <2>5, <2>6, <2>7 DEF Published
<1>3. ASSUME NEW q \in Promotions, GetCandidate(q)
      PROVE  Clock' /\ Published'
  <2>1. /\ ppc[q] = "get" /\ UNCHANGED <<rules, skills, active>>
        /\ promotedAt' = [promotedAt EXCEPT ![q] = Now + 1]
        /\ ppc'[q] = "deprecate" /\ \A p \in Promotions \ {q} : ppc'[p] = ppc[p]
    BY <1>3, <1>t DEF GetCandidate, TypeOK
  <2>2. Now' = Now + 1
    BY <1>t, <2>1, NowAdvances DEF Clock
  <2>3. promotedAt'[q] = Now' /\ \A p \in Promotions \ {q} : promotedAt'[p] = promotedAt[p]
    BY <1>t, <2>1, <2>2 DEF TypeOK
  <2>4. \A p \in Promotions \ {q} : promotedAt'[p] < Now'
    BY <1>n, <2>2, <2>3 DEF Clock
  <2>5. q \notin active /\ active \subseteq Promotions
    BY <1>t, <2>1 DEF Clock, TypeOK
  <2>6. \A p \in Promotions : ppc'[p] \in {"new", "get"} => promotedAt'[p] = 0
    BY <2>1, <2>3 DEF Clock
  <2>7. \A p \in Promotions : promotedAt'[p] <= Now'
    BY <1>n, <2>2, <2>3 DEF Clock
  <2>8. Clock'
    BY <2>1, <2>5, <2>6, <2>7 DEF Clock
  <2>9. \A p \in Promotions : ppc'[p] = "done" => promotedAt'[p] # Now'
    <3> SUFFICES ASSUME NEW p \in Promotions, ppc'[p] = "done"
                 PROVE  promotedAt'[p] # Now'
      OBVIOUS
    <3>1. p # q
      BY <2>1
    <3> QED
      BY <1>n, <2>2, <2>3, <3>1 DEF Clock
  <2>10. ActiveRules' = ActiveRules
    BY <2>1 DEF ActiveRules
  <2> QED
    BY <1>o, <2>1, <2>8, <2>9, <2>10 DEF Published
<1>4. ASSUME NEW q \in Promotions, PromotionFails(q)
      PROVE  Clock' /\ Published'
  <2>1. /\ q \in Promoting /\ UNCHANGED <<rules, skills, active, promotedAt>>
        /\ ppc'[q] = "failed" /\ \A p \in Promotions \ {q} : ppc'[p] = ppc[p]
    BY <1>4, <1>t DEF PromotionFails, TypeOK
  <2>2. Now' = Now /\ ActiveRules' = ActiveRules /\ Promoting' = Promoting \ {q}
    BY <2>1 DEF Now, ActiveRules, Promoting
  <2>3. q \notin active /\ active \subseteq Promotions
    BY <1>t, <2>1 DEF Clock, TypeOK, Promoting
  <2>4. Clock'
    BY <2>1, <2>2, <2>3 DEF Clock
  <2>5. Published'
    BY <1>o, <2>1, <2>2 DEF Published, Promoting
  <2> QED
    BY <2>4, <2>5
<1>5. ASSUME NEW q \in Promotions,
             \/ DeprecateActiveRule(q) \/ CreateValidatedRule(q) \/ SavePromoted(q)
             \/ ActiveSkillVersion(q) \/ ListVisibleRules(q) \/ CreateSkillVersion(q)
      PROVE  Clock' /\ Published'
  <2>1. /\ ppc[q] \in {"deprecate", "create", "save", "read", "list", "publish"}
        /\ ppc'[q] \in {"create", "save", "read", "list", "publish", "done"}
        /\ \A p \in Promotions \ {q} : ppc'[p] = ppc[p]
    BY <1>5, <1>t DEF DeprecateActiveRule, CreateValidatedRule, SavePromoted, ActiveSkillVersion,
                      ListVisibleRules, CreateSkillVersion, TypeOK
  <2>2. /\ promotedAt' = promotedAt /\ Now' = Now
        /\ active' = active \/ (ppc'[q] = "done" /\ active' = {q})
    <3>1. promotedAt' = promotedAt
      BY <1>5 DEF DeprecateActiveRule, CreateValidatedRule, SavePromoted, ActiveSkillVersion,
                  ListVisibleRules, CreateSkillVersion
    <3>2. CASE CreateSkillVersion(q)
      BY <1>t, <3>1, <3>2 DEF CreateSkillVersion, TypeOK, Now
    <3>3. CASE ~CreateSkillVersion(q)
      BY <1>5, <3>1, <3>3 DEF DeprecateActiveRule, CreateValidatedRule, SavePromoted,
                              ActiveSkillVersion, ListVisibleRules, Now
    <3> QED
      BY <3>2, <3>3
  <2>3. q \notin active /\ active \subseteq Promotions
    BY <1>t, <2>1 DEF Clock, TypeOK
  <2>4. Clock'
    BY <2>1, <2>2, <2>3 DEF Clock
  <2>5. q \in Promoting
    BY <2>1 DEF Promoting
  <2>6. \A p \in Promotions \ {q} : ~(ppc[p] = "publish" /\ Undisturbed(p))
    BY <2>5 DEF Promoting, CallsInv, Alone
  <2>7. \A p \in Promotions \ {q} : ~(ppc[p] = "done" /\ Undisturbed(p) /\ promotedAt[p] = Now)
    BY <2>1, <2>5 DEF Published
  <2>8. ASSUME ppc'[q] = "publish"
        PROVE  skills'[q].manifest = ActiveRules'
    <3>1. ListVisibleRules(q)
      BY <1>5, <1>t, <2>8 DEF DeprecateActiveRule, CreateValidatedRule, SavePromoted,
                              ActiveSkillVersion, CreateSkillVersion, TypeOK
    <3>2. /\ rules' = rules
          /\ skills' = [skills EXCEPT ![q] = [version |-> base[q], manifest |-> ActiveRules]]
      BY <3>1 DEF ListVisibleRules, VisibleRules
    <3>3. skills'[q].manifest = ActiveRules
      BY <1>t, <3>2 DEF TypeOK
    <3> QED
      BY <3>2, <3>3 DEF ActiveRules
  <2>9. ASSUME ppc'[q] = "done", Undisturbed(q)'
        PROVE  (\A r \in Promoting' : ppc'[r] = "get") /\ skills'[q].manifest = ActiveRules'
    <3>1. CreateSkillVersion(q)
      BY <1>5, <1>t, <2>9 DEF DeprecateActiveRule, CreateValidatedRule, SavePromoted,
                              ActiveSkillVersion, ListVisibleRules, TypeOK
    <3>2. ppc[q] = "publish" /\ rules' = rules /\ skills' = skills
      BY <3>1 DEF CreateSkillVersion
    <3>3. Undisturbed(q) /\ Promoting = {q}
      BY <1>o, <2>5, <2>9 DEF CallsInv, Alone
    <3>4. Promoting' = {}
      BY <2>1, <2>9, <3>3 DEF Promoting
    <3>5. skills[q].manifest = ActiveRules
      BY <3>2, <3>3 DEF Published
    <3> QED
      BY <3>2, <3>4, <3>5 DEF ActiveRules
  <2>10. Published'
    <3>1. ASSUME NEW p \in Promotions, ppc'[p] = "publish", Undisturbed(p)'
          PROVE  skills'[p].manifest = ActiveRules'
      BY <1>o, <2>1, <2>6, <2>8, <3>1
    <3>2. ASSUME NEW p \in Promotions, ppc'[p] = "done", Undisturbed(p)', promotedAt'[p] = Now'
          PROVE  (\A r \in Promoting' : ppc'[r] = "get") /\ skills'[p].manifest = ActiveRules'
      BY <1>o, <2>1, <2>2, <2>7, <2>9, <3>2
    <3> QED
      BY <3>1, <3>2 DEF Published
  <2> QED
    BY <2>4, <2>10
<1> QED
  BY <1>1, <1>2, <1>3, <1>4, <1>5 DEF Next, Promotion

\* A promotion that completes with no other call running publishes every active
\* rule, those an earlier, interrupted promotion left unpublished too.
THEOREM ManifestAlways == Spec => []ManifestIsCurrent
<1>1. Init => Clock /\ Published
  <2> SUFFICES ASSUME Init
               PROVE  Clock /\ Published
    OBVIOUS
  <2>1. \A q \in Promotions : ppc[q] = "new" /\ promotedAt[q] = 0
    BY DEF Init
  <2>2. active = {}
    BY DEF Init
  <2> QED
    BY <2>1, <2>2, NowType DEF Clock, Published
<1>2. CallsInv /\ Clock /\ Published /\ [Next]_vars => Clock' /\ Published'
  <2> SUFFICES ASSUME CallsInv, Clock, Published, [Next]_vars
               PROVE  Clock' /\ Published'
    OBVIOUS
  <2>1. CallsInv' /\ ((Steady /\ Overlaps) \/ UNCHANGED vars)
    BY CallsNext
  <2>2. CASE UNCHANGED vars
    <3>1. Now' = Now /\ ActiveRules' = ActiveRules /\ Promoting' = Promoting
      BY <2>2 DEF Now, ActiveRules, Promoting
    <3>2. Clock'
      BY <2>2, <3>1 DEF Clock
    <3>3. Published'
      BY <2>2, <3>1 DEF Published, Undisturbed
    <3> QED
      BY <3>2, <3>3
  <2> QED
    BY <2>1, <2>2, ManifestNext
<1>3. CallsInv /\ Clock /\ Published => ManifestIsCurrent
  BY DEF CallsInv, EarnedInv, Typed, TypeOK, Clock, Published, ManifestIsCurrent
<1> QED
  BY CallsInit, CallsNext, <1>1, <1>2, <1>3, PTL DEF Spec
===============================================================================
