------------------------------- MODULE Learning -------------------------------
(***************************************************************************)
(* The learning loop of one tenant and one workflow                        *)
(* (internal/app/app.go): mergeCandidate folds operator corrections into   *)
(* rule candidates and PromoteCandidate turns a candidate into a rule of   *)
(* the next skill version.                                                 *)
(*                                                                         *)
(* A correction c is merged by one goroutine, the merger c; a promotion q  *)
(* is one call of PromoteCandidate.  One step is one store call; nothing   *)
(* holds a lock or a transaction across two of them.  The candidate a      *)
(* correction creates, and the rule and the skill version a promotion      *)
(* creates, are named after it.                                            *)
(***************************************************************************)
EXTENDS Confidence, FiniteSets

CONSTANTS Corrections, Promotions,
          Cases,         \* case runs that can be corrected
          Patterns,      \* canonical conditions, by their hash
          Actions,       \* recommended actions
          MaxInFlight,   \* calls in progress at once
          MaxFailures    \* calls that a store error or a crash cuts short

ASSUME LearningAssumption ==
  /\ IsFiniteSet(Corrections) /\ IsFiniteSet(Promotions) /\ IsFiniteSet(Cases)
  /\ MaxInFlight \in Nat \ {0}
  /\ MaxFailures \in Nat

VARIABLES
  \* The store.
  what,        \* what a correction says
  cand,        \* rule_candidates; a record without sources is absent
  rules,       \* validated_rules
  skills,      \* skill_versions: number and rule manifest
  active,      \* active_skill_versions, {} for the provisioned version 1
  \* The mergers.
  mpc,         \* where they are
  seen,        \* the siblings they listed
  match, todo, \* the sibling to add to ({} or a singleton), conflicts to save
  \* The promotions.
  ppc,         \* where they are
  target,      \* the candidate to promote ({} or a singleton)
  copy,        \* the candidate as GetCandidate returned it
  base,        \* the version after the active skill version's
  \* History and bounds.
  promotedAt,  \* when a promotion read its candidate, 0 before that
  overlapped,  \* calls that ran while another call ran
  failures

merges == <<mpc, seen, match, todo>>
promotes == <<ppc, target, copy, base, promotedAt>>
rulebook == <<rules, skills, active>>
vars == <<what, cand, rulebook, merges, promotes, overlapped, failures>>

Said == [case : Cases, pattern : Patterns, action : Actions]
Unsaid == [case |-> "none", pattern |-> "none", action |-> "none"]
Statuses == {"candidate", "under_review", "promoted"}
Candidate == [sources : SUBSET Corrections, contra : Nat, status : Statuses]
NoCandidate == [sources |-> {}, contra |-> 0, status |-> "candidate"]
Rule == [status : {"none", "active", "deprecated"}, version : Nat,
         supersedes : SUBSET Promotions]
NoRule == [status |-> "none", version |-> 0, supersedes |-> {}]
Skill == [version : Nat, manifest : SUBSET Promotions]
NoSkill == [version |-> 0, manifest |-> {}]

TypeOK ==
  /\ what \in [Corrections -> Said \cup {Unsaid}]
  /\ cand \in [Corrections -> Candidate]
  /\ rules \in [Promotions -> Rule]
  /\ skills \in [Promotions -> Skill]
  /\ active \in SUBSET Promotions
  /\ mpc \in [Corrections -> {"new", "create", "match", "done", "failed"}]
  /\ seen \in [Corrections -> [Corrections -> Candidate]]
  /\ match \in [Corrections -> SUBSET Corrections]
  /\ todo \in [Corrections -> SUBSET Corrections]
  /\ ppc \in [Promotions -> {"new", "get", "deprecate", "create", "save",
                             "read", "list", "publish", "done", "failed"}]
  /\ target \in [Promotions -> SUBSET Corrections]
  /\ copy \in [Promotions -> Candidate]
  /\ base \in [Promotions -> Nat]
  /\ promotedAt \in [Promotions -> Nat]
  /\ overlapped \subseteq Corrections \cup Promotions
  /\ failures \in 0..MaxFailures

NoSnapshot == [x \in Corrections |-> NoCandidate]

Init ==
  /\ what = [c \in Corrections |-> Unsaid]
  /\ cand = NoSnapshot
  /\ rules = [q \in Promotions |-> NoRule]
  /\ skills = [q \in Promotions |-> NoSkill]
  /\ active = {}
  /\ mpc = [c \in Corrections |-> "new"]
  /\ seen = [c \in Corrections |-> NoSnapshot]
  /\ match = [c \in Corrections |-> {}]
  /\ todo = [c \in Corrections |-> {}]
  /\ ppc = [q \in Promotions |-> "new"]
  /\ target = [q \in Promotions |-> {}]
  /\ copy = [q \in Promotions |-> NoCandidate]
  /\ base = [q \in Promotions |-> 0]
  /\ promotedAt = [q \in Promotions |-> 0]
  /\ overlapped = {} /\ failures = 0

-----------------------------------------------------------------------------
(* Calls                                                                   *)

Merging == {c \in Corrections : mpc[c] \in {"create", "match"}}
Promoting == {q \in Promotions : ppc[q] \notin {"new", "done", "failed"}}
InFlight == Merging \cup Promoting

\* A call begins; the calls that run at the same time are remembered.
Begin(g) ==
  /\ Cardinality(InFlight) < MaxInFlight
  /\ overlapped' = IF InFlight = {} THEN overlapped
                   ELSE overlapped \cup InFlight \cup {g}

MergerTo(c, step) == mpc' = [mpc EXCEPT ![c] = step]
PromotionTo(q, step) == ppc' = [ppc EXCEPT ![q] = step]

-----------------------------------------------------------------------------
(* Candidates                                                              *)

Exists(x) == cand[x].sources # {}

SaveCandidate(x, r) == cand' = [cand EXCEPT ![x] = r]

\* A record with its confidence and status computed again.  EvidenceCount is
\* the number of sources; SourceCaseRunIDs holds their distinct cases.
Rescored(sources, contra) ==
  [sources |-> sources, contra |-> contra,
   status |-> CandidateStatus(Cardinality(sources), contra,
                              Cardinality({what[s].case : s \in sources}))]

\* ListCandidatesByConditions.
Siblings(pattern) == {x \in Corrections : Exists(x) /\ what[x].pattern = pattern}

-----------------------------------------------------------------------------
(* mergeCandidate                                                          *)

\* The correction says w: list the siblings, look for one with its action.
ListSiblings(c, w) ==
  /\ mpc[c] = "new" /\ Begin(c)
  /\ what' = [what EXCEPT ![c] = w]
  /\ LET siblings == Siblings(w.pattern)
         same == {x \in siblings : what[x].action = w.action}
     IN /\ seen' = [seen EXCEPT ![c] =
                     [x \in Corrections |-> IF x \in siblings THEN cand[x]
                                           ELSE NoCandidate]]
        /\ \/ /\ same = {}
              /\ todo' = [todo EXCEPT ![c] = siblings]
              /\ MergerTo(c, "create") /\ UNCHANGED match
           \/ \E x \in same :
                /\ match' = [match EXCEPT ![c] = {x}]
                /\ MergerTo(c, "match") /\ UNCHANGED todo
  /\ UNCHANGED <<cand, rulebook, promotes, failures>>

MergeReturns(c, step) ==
  /\ MergerTo(c, step)
  /\ seen' = [seen EXCEPT ![c] = NoSnapshot]
  /\ match' = [match EXCEPT ![c] = {}]
  /\ todo' = [todo EXCEPT ![c] = {}]

\* Mutation of Contradicted: the contradiction counts the other way.
ContradictedDown(r) == Rescored(r.sources, r.contra - 1)

\* Mutation of Contradicted: the contradiction is not counted.
ContradictedNot(r) == Rescored(r.sources, r.contra)

Contradicted(r) == Rescored(r.sources, r.contra + 1)

\* A sibling with another action is contradicted; the alert is a message.
SaveConflict(c) ==
  /\ mpc[c] = "create"
  /\ \E x \in todo[c] :
       /\ SaveCandidate(x, Contradicted(seen[c][x]))
       /\ todo' = [todo EXCEPT ![c] = @ \ {x}]
  /\ UNCHANGED <<what, rulebook, mpc, seen, match, promotes, overlapped, failures>>

\* The candidate for the new action.
CreateCandidate(c) ==
  /\ mpc[c] = "create" /\ todo[c] = {}
  /\ SaveCandidate(c, Rescored({c}, 0))
  /\ MergeReturns(c, "done")
  /\ UNCHANGED <<what, rulebook, promotes, overlapped, failures>>

\* Mutation of WithEvidence: the sources are replaced, not appended to.
WithOnlyEvidence(r, c) == Rescored({c}, r.contra)

WithEvidence(r, c) == Rescored(r.sources \cup {c}, r.contra)

\* The sibling with the same action gains the correction.
AddEvidence(c) ==
  /\ mpc[c] = "match"
  /\ \E x \in match[c] : SaveCandidate(x, WithEvidence(seen[c][x], c))
  /\ MergeReturns(c, "done")
  /\ UNCHANGED <<what, rulebook, promotes, overlapped, failures>>

Fails == failures < MaxFailures /\ failures' = failures + 1

\* A store error or a crash; the signal is marked seen, nothing runs it again.
MergeFails(c) ==
  /\ c \in Merging
  /\ MergeReturns(c, "failed") /\ Fails
  /\ UNCHANGED <<what, cand, rulebook, promotes, overlapped>>

Merger(c) ==
  \/ \E w \in Said : ListSiblings(c, w)
  \/ SaveConflict(c)
  \/ CreateCandidate(c)
  \/ AddEvidence(c)
  \/ MergeFails(c)

-----------------------------------------------------------------------------
(* PromoteCandidate                                                        *)

\* The operator's `promote`: any candidate under review stands for the latest.
PromoteCommand(q) ==
  /\ ppc[q] = "new" /\ Begin(q)
  /\ \E x \in Corrections :
       /\ Exists(x) /\ cand[x].status = "under_review"
       /\ target' = [target EXCEPT ![q] = {x}]
  /\ PromotionTo(q, "get")
  /\ UNCHANGED <<what, cand, rulebook, merges, copy, base, promotedAt,
                 failures>>

\* The admin API names any candidate, whatever its status.
PromoteRequest(q) ==
  /\ ppc[q] = "new" /\ Begin(q)
  /\ \E x \in Corrections : Exists(x) /\ target' = [target EXCEPT ![q] = {x}]
  /\ PromotionTo(q, "get")
  /\ UNCHANGED <<what, cand, rulebook, merges, copy, base, promotedAt, failures>>

\* The number of promotions that have read their candidate.
Now == Cardinality({q \in Promotions : promotedAt[q] # 0})

GetCandidate(q) ==
  /\ ppc[q] = "get"
  /\ \E x \in target[q] : copy' = [copy EXCEPT ![q] = cand[x]]
  /\ promotedAt' = [promotedAt EXCEPT ![q] = Now + 1]
  /\ PromotionTo(q, "deprecate")
  /\ UNCHANGED <<what, cand, rulebook, merges, target, base,
                 overlapped, failures>>

SamePattern(q, r) ==
  \E x \in target[q], y \in target[r] : what[x].pattern = what[y].pattern

ActiveRules == {r \in Promotions : rules[r].status = "active"}

Newest(S) == {r \in S : \A t \in S : promotedAt[t] <= promotedAt[r]}

\* Mutation of Supersedable: only the newest of all active rules is looked at.
SupersedableLast(q) == {r \in Newest(ActiveRules) : SamePattern(q, r)}

\* What DeprecateActiveRule selects: the newest active rule with the
\* conditions of the candidate.
Supersedable(q) == Newest({r \in ActiveRules : SamePattern(q, r)})

\* DeprecateActiveRule, one transaction: the rule is no longer active, its
\* version gives the next one.
DeprecateActiveRule(q) ==
  /\ ppc[q] = "deprecate"
  /\ LET old == Supersedable(q)
     IN rules' = [r \in Promotions |->
          IF r \in old THEN [rules[r] EXCEPT !.status = "deprecated"]
          ELSE IF r = q THEN
            [NoRule EXCEPT !.supersedes = old,
                           !.version = IF old = {} THEN 1
                                       ELSE (CHOOSE v \in {rules[t].version : t \in old} : TRUE) + 1]
          ELSE rules[r]]
  /\ PromotionTo(q, "create")
  /\ UNCHANGED <<what, cand, skills, active, merges, target, copy, base,
                 promotedAt, overlapped, failures>>

CreateValidatedRule(q) ==
  /\ ppc[q] = "create"
  /\ rules' = [rules EXCEPT ![q].status = "active"]
  /\ PromotionTo(q, "save")
  /\ UNCHANGED <<what, cand, skills, active, merges, target, copy, base,
                 promotedAt, overlapped, failures>>

\* The candidate is saved as it was read, with its new status.
SavePromoted(q) ==
  /\ ppc[q] = "save"
  /\ \E x \in target[q] : SaveCandidate(x, [copy[q] EXCEPT !.status = "promoted"])
  /\ copy' = [copy EXCEPT ![q] = NoCandidate]
  /\ PromotionTo(q, "read")
  /\ UNCHANGED <<what, rulebook, merges, target, base, promotedAt, overlapped, failures>>

\* createSkillVersion reads the active version ...
ActiveSkillVersion(q) ==
  /\ ppc[q] = "read"
  /\ base' = [base EXCEPT ![q] =
       IF active = {} THEN 2 ELSE 1 + (CHOOSE v \in {skills[r].version : r \in active} : TRUE)]
  /\ PromotionTo(q, "list")
  /\ UNCHANGED <<what, cand, rulebook, merges, target, copy, promotedAt, overlapped, failures>>

\* Mutation of VisibleRules: the rule being promoted is all the manifest has.
VisibleRulesOne(q) == ActiveRules \cap {q}

VisibleRules(q) == ActiveRules

\* ... lists the active rules ...
ListVisibleRules(q) ==
  /\ ppc[q] = "list"
  /\ skills' = [skills EXCEPT ![q] = [version |-> base[q], manifest |-> VisibleRules(q)]]
  /\ PromotionTo(q, "publish")
  /\ UNCHANGED <<what, cand, rules, active, merges, target, copy, base,
                 promotedAt, overlapped, failures>>

\* ... and makes the new skill version the active one, in one transaction.
CreateSkillVersion(q) ==
  /\ ppc[q] = "publish"
  /\ active' = {q}
  /\ PromotionTo(q, "done")
  /\ UNCHANGED <<what, cand, rules, skills, merges, target, copy, base,
                 promotedAt, overlapped, failures>>

\* A store error or a crash; what was done stays done.
PromotionFails(q) ==
  /\ q \in Promoting
  /\ PromotionTo(q, "failed") /\ Fails
  /\ copy' = [copy EXCEPT ![q] = NoCandidate]
  /\ UNCHANGED <<what, cand, rulebook, merges, target, base, promotedAt, overlapped>>

Promotion(q) ==
  \/ PromoteCommand(q)
  \/ PromoteRequest(q)
  \/ GetCandidate(q)
  \/ DeprecateActiveRule(q)
  \/ CreateValidatedRule(q)
  \/ SavePromoted(q)
  \/ ActiveSkillVersion(q)
  \/ ListVisibleRules(q)
  \/ CreateSkillVersion(q)
  \/ PromotionFails(q)

Next ==
  \/ \E c \in Corrections : Merger(c)
  \/ \E q \in Promotions : Promotion(q)

Spec == Init /\ [][Next]_vars

-----------------------------------------------------------------------------
(* Properties                                                              *)

\* A candidate is under review only on three corrections of two cases, or on
\* four, that agree on conditions and action and that nothing contradicts,
\* whatever merges and promotions overwrite (CandidateStatus, mergeCandidate).
UnderReviewIsEarned ==
  \A x \in Corrections : cand[x].status = "under_review" =>
    /\ Earned(Cardinality(cand[x].sources), cand[x].contra,
              Cardinality({what[s].case : s \in cand[x].sources}))
    /\ \A s \in cand[x].sources :
         what[s].pattern = what[x].pattern /\ what[s].action = what[x].action

Undisturbed(g) == g \notin overlapped

\* Evidence is lost only to a call that ran at the same time: a correction
\* merged with no other call running stays a source of exactly one candidate
\* for good, failures and later promotions included.
EvidenceKept ==
  \A c \in Corrections : mpc[c] = "done" /\ Undisturbed(c) =>
    Cardinality({x \in Corrections : c \in cand[x].sources}) = 1

\* Of two candidates that contradict each other, created with no other call
\* running, one carries the contradiction for good: the two are never both
\* under review.
ContradictionNoticed ==
  \A x, y \in Corrections :
    /\ Exists(x) /\ Exists(y) /\ Undisturbed(x) /\ Undisturbed(y)
    /\ what[x].pattern = what[y].pattern /\ what[x].action # what[y].action
    => cand[x].contra + cand[y].contra > 0

\* Without promotions that overlap, conditions have at most one active rule,
\* also when promotions are cut short (PromoteCandidate deprecates first).
OneActiveRule ==
  Promotions \cap overlapped = {} =>
    \A q, r \in ActiveRules : SamePattern(q, r) => q = r

\* A promotion that completes with no other call running publishes every active
\* rule, those an earlier, interrupted promotion left unpublished too; the
\* manifest is exact until the next promotion begins.
ManifestIsCurrent ==
  \A q \in active :
    Undisturbed(q) /\ promotedAt[q] = Now => skills[q].manifest = ActiveRules
===============================================================================
