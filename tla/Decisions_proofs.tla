---------------------------- MODULE Decisions_proofs ----------------------------
(***************************************************************************)
(* Theorems about Decisions, for every set of cases, replays, promotions   *)
(* and sayings and any number of failures.  ReplayIsFaithful holds for any *)
(* evaluation that depends on the manifest and the payload alone; the      *)
(* manifest's order and the rule it picks are expanded for the theorems    *)
(* about learning and about versions.                                      *)
(***************************************************************************)
EXTENDS Decisions, FiniteSetTheorems, WellFoundedInduction, TLAPS

\* A run whose action is among the given ones.
Run(actions) ==
  [payload : Payloads, version : Nat, action : actions,
   by : {"rule", "agent", "default"}, of : SUBSET Runs, pinned : BOOLEAN]

\* What the steps rely on: the variables are functions, versions a sequence.
Shape ==
  /\ Len(versions) > 0 /\ \E S : versions \in Seq(S)
  /\ pc \in [Runs -> {"new", "agent", "store", "done", "failed"}]
  /\ rows \in [Runs -> Nat]
  /\ \E actions : run \in [Runs -> Run(actions)]

\* A run has a decision and a version that exists once it has begun, and rows
\* only once the agent has been asked.
Begun ==
  \A r \in Runs :
    /\ pc[r] # "new" => run[r].version \in DOMAIN versions
    /\ rows[r] > 0 => pc[r] \notin {"new", "agent"}
    /\ pc[r] = "new" => run[r].of = {}
    /\ r \in Cases => run[r].of = {}

\* What did not come from the agent came from the version and the payload.
Decided ==
  \A r \in Runs : pc[r] # "new" /\ run[r].by # "agent" =>
    run[r].action = Evaluate(versions[run[r].version], run[r].payload).action

\* A replay on the own version of a run has its version and its payload.
Pinned ==
  \A r \in Runs : \A c \in run[r].of :
    /\ c \in Runs /\ pc[c] \notin {"new", "agent"} /\ run[r].by # "agent" /\ pc[r] # "new"
    /\ run[r].payload = run[c].payload
    /\ run[r].pinned => run[r].version = run[c].version

ReplayInv == Shape /\ Begun /\ Decided /\ Pinned
-----------------------------------------------------------------------------
(* Lemmas                                                                  *)

LEMMA AppendKeeps ==
  ASSUME NEW S, NEW s \in Seq(S), NEW x
  PROVE  /\ Append(s, x) \in Seq(S \cup {x})
         /\ DOMAIN s = 1..Len(s) /\ Len(s) \in Nat
         /\ DOMAIN Append(s, x) = 1..(Len(s) + 1)
         /\ \A i \in DOMAIN s : Append(s, x)[i] = s[i]
<1>1. s \in Seq(S \cup {x})
  OBVIOUS
<1> QED
  BY <1>1

LEMMA EvaluatedByRuleOrDefault ==
  ASSUME NEW manifest, NEW payload
  PROVE  Evaluate(manifest, payload).by \in {"rule", "default"}
BY DEF Evaluate

LEMMA HasRows ==
  ASSUME Shape, NEW c \in Runs, NEW row, Has(c, row)
  PROVE  rows[c] > 0
BY DEF Shape, Has

LEMMA ReplayInit == Init => ReplayInv
<1> SUFFICES ASSUME Init
             PROVE  ReplayInv
  OBVIOUS
<1>1. Shape
  <2>1. versions \in Seq({<<>>}) /\ Len(versions) > 0
    BY DEF Init
  <2>2. NoRun \in Run({DefaultAction})
    BY DEF NoRun, Run, Payloads
  <2>3. run \in [Runs -> Run({DefaultAction})]
    BY <2>2 DEF Init
  <2>4. rows \in [Runs -> Nat] /\ pc \in [Runs -> {"new", "agent", "store", "done", "failed"}]
    BY DEF Init
  <2> QED
    BY <2>1, <2>3, <2>4 DEF Shape
<1>2. \A r \in Runs : pc[r] = "new" /\ rows[r] = 0 /\ run[r].of = {}
  BY DEF Init, NoRun
<1>3. Begun /\ Decided /\ Pinned
  BY <1>2 DEF Begun, Decided, Pinned
<1> QED
  BY <1>1, <1>3 DEF ReplayInv

\* Steps that leave the runs as they are and take away no version.
LEMMA ReplayKept ==
  ASSUME ReplayInv, UNCHANGED run,
         Len(versions') > 0 /\ \E S : versions' \in Seq(S),
         \A v \in DOMAIN versions : v \in DOMAIN versions' /\ versions'[v] = versions[v],
         pc' \in [Runs -> {"new", "agent", "store", "done", "failed"}],
         rows' \in [Runs -> Nat],
         \A r \in Runs : pc'[r] = "new" <=> pc[r] = "new",
         \A r \in Runs : pc'[r] = "agent" => pc[r] = "agent",
         \A r \in Runs : rows'[r] > 0 => pc[r] \notin {"new", "agent"}
  PROVE  ReplayInv'
<1>1. Shape'
  BY DEF ReplayInv, Shape
<1>2. Begun'
  BY DEF ReplayInv, Begun
<1>3. Decided'
  BY DEF ReplayInv, Begun, Decided
<1>4. Pinned'
  BY DEF ReplayInv, Begun, Pinned
<1> QED
  BY <1>1, <1>2, <1>3, <1>4 DEF ReplayInv

LEMMA ReplayStart ==
  ASSUME ReplayInv, NEW c \in Cases, NEW payload \in Payloads, StartCase(c, payload)
  PROVE  ReplayInv'
<1> USE DEF ReplayInv
<1> DEFINE decided == Evaluate(Last(versions), payload)
           begun == [NoRun EXCEPT !.payload = payload, !.version = Len(versions),
                                  !.action = decided.action, !.by = decided.by]
<1>1. decided.by \in {"rule", "default"}
  BY EvaluatedByRuleOrDefault
<1>2. decided = Evaluate(versions[Len(versions)], payload)
  BY DEF Last
<1> HIDE DEF decided
<1>3. /\ begun.payload = payload /\ begun.version = Len(versions)
      /\ begun.action = decided.action /\ begun.by = decided.by
      /\ begun.of = {} /\ begun.pinned = FALSE
  BY DEF NoRun
<1>4. begun \in Run({decided.action})
  BY <1>1, AppendKeeps DEF NoRun, Run, Shape
<1>5. /\ c \in Runs /\ pc[c] = "new"
      /\ run' = [run EXCEPT ![c] = begun]
      /\ \E next \in {"store", "agent"} : pc' = [pc EXCEPT ![c] = next]
      /\ UNCHANGED <<versions, rows>>
  BY DEF StartCase, decided, promotion, Runs
<1> HIDE DEF begun
<1>6. Shape'
  <2>1. PICK actions : run \in [Runs -> Run(actions)]
    BY DEF Shape
  <2>2. run' \in [Runs -> Run(actions \cup {decided.action})]
    BY <1>4, <1>5, <2>1 DEF Run
  <2> QED
    BY <1>5, <2>2 DEF Shape
<1>7. Begun'
  <2>1. Len(versions) \in DOMAIN versions
    BY AppendKeeps DEF Shape
  <2>2. run'[c] = begun /\ \A s \in Runs \ {c} : run'[s] = run[s] /\ pc'[s] = pc[s]
    BY <1>5 DEF Shape
  <2> QED
    BY <1>3, <1>5, <2>1, <2>2 DEF Begun, Shape
<1>8. Decided'
  BY <1>2, <1>3, <1>5 DEF Decided, Shape
<1>9. Pinned'
  BY <1>3, <1>5 DEF Begun, Pinned, Shape
<1> QED
  BY <1>6, <1>7, <1>8, <1>9

LEMMA ReplayPropose ==
  ASSUME ReplayInv, NEW c \in Cases, Propose(c)
  PROVE  ReplayInv'
<1> USE DEF ReplayInv
<1>1. PICK action \in Actions :
        run' = [run EXCEPT ![c].action = Accepted(action), ![c].by = "agent"]
  BY DEF Propose
<1>2. /\ c \in Runs /\ pc[c] = "agent" /\ pc' = [pc EXCEPT ![c] = "store"]
      /\ UNCHANGED <<versions, rows>>
  BY DEF Propose, promotion, Runs
<1>3. PICK actions : run \in [Runs -> Run(actions)]
  BY DEF Shape
<1>4. DEFINE asked == [run[c] EXCEPT !.action = Accepted(action), !.by = "agent"]
<1>5. run' = [run EXCEPT ![c] = asked]
  BY <1>1, <1>3
<1>6. /\ asked.payload = run[c].payload /\ asked.version = run[c].version
      /\ asked.by = "agent" /\ asked.of = run[c].of /\ asked.pinned = run[c].pinned
      /\ asked \in Run(actions \cup {Accepted(action)})
  <2>1. run[c] \in Run(actions)
    BY <1>2, <1>3
  <2> QED
    BY <2>1 DEF Run
<1> HIDE DEF asked
<1>7. Shape'
  <2>1. run' \in [Runs -> Run(actions \cup {Accepted(action)})]
    BY <1>3, <1>5, <1>6 DEF Run
  <2> QED
    BY <1>2, <2>1 DEF Shape
<1>8. Begun'
  BY <1>2, <1>3, <1>5, <1>6 DEF Begun, Shape
<1>9. Decided'
  BY <1>2, <1>3, <1>5, <1>6 DEF Decided, Shape
<1>10. Pinned'
  BY <1>2, <1>3, <1>5, <1>6 DEF Begun, Pinned, Shape
<1> QED
  BY <1>7, <1>8, <1>9, <1>10

LEMMA ReplayReplay ==
  ASSUME ReplayInv, NEW r \in Replays, NEW c \in Runs, NEW pinned \in BOOLEAN,
         Replay(r, c, pinned)
  PROVE  ReplayInv'
<1> USE DEF ReplayInv
<1>1. /\ pc[r] = "new" /\ r \in Runs /\ rows[c] > 0
      /\ pc' = [pc EXCEPT ![r] = "done"] /\ rows' = [rows EXCEPT ![r] = 1]
      /\ UNCHANGED versions
  BY HasRows DEF Replay, promotion, Runs
<1>2. pc[c] \notin {"new", "agent"} /\ c # r
  BY <1>1 DEF Begun
<1>3. PICK version \in IF pinned THEN {run[c].version} ELSE DOMAIN versions \ {run[c].version} :
        run' = [run EXCEPT ![r] =
                 [NoRun EXCEPT !.payload = run[c].payload, !.version = version,
                               !.action = Evaluate(versions[version], run[c].payload).action,
                               !.by = Evaluate(versions[version], run[c].payload).by,
                               !.of = {c}, !.pinned = pinned]]
  BY DEF Replay, PinnedVersion
<1>4. version \in DOMAIN versions /\ version \in Nat /\ (pinned => version = run[c].version)
  BY <1>2, <1>3, AppendKeeps DEF Begun, Shape
<1>5. PICK actions : run \in [Runs -> Run(actions)]
  BY DEF Shape
<1> DEFINE decided == Evaluate(versions[version], run[c].payload)
           replayed == [NoRun EXCEPT !.payload = run[c].payload, !.version = version,
                                     !.action = decided.action, !.by = decided.by,
                                     !.of = {c}, !.pinned = pinned]
<1>6. run' = [run EXCEPT ![r] = replayed]
  BY <1>3
<1>7. decided.by \in {"rule", "default"}
  BY EvaluatedByRuleOrDefault
<1> HIDE DEF decided
<1>8. /\ replayed.payload = run[c].payload /\ replayed.version = version
      /\ replayed.action = decided.action /\ replayed.by = decided.by
      /\ replayed.of = {c} /\ replayed.pinned = pinned
  BY DEF NoRun
<1>9. replayed \in Run(actions \cup {decided.action})
  BY <1>4, <1>5, <1>7 DEF NoRun, Run
<1> HIDE DEF replayed
<1>10. Shape'
  <2>1. run' \in [Runs -> Run(actions \cup {decided.action})]
    BY <1>5, <1>6, <1>9 DEF Run
  <2> QED
    BY <1>1, <2>1 DEF Shape
<1>11. Begun'
  BY <1>1, <1>2, <1>4, <1>5, <1>6, <1>8, DecisionsAssumption DEF Begun, Shape
<1>12. Decided'
  BY <1>1, <1>5, <1>6, <1>8 DEF Decided, Shape, decided
<1>13. Pinned'
  <2>1. /\ run'[r].of = {c} /\ run'[r].payload = run[c].payload /\ run'[r].by # "agent"
        /\ run'[r].pinned => run'[r].version = run[c].version
    BY <1>1, <1>4, <1>5, <1>6, <1>7, <1>8
  <2>2. \A s \in Runs \ {r} : run'[s] = run[s] /\ pc'[s] = pc[s]
    BY <1>1, <1>5, <1>6 DEF Shape
  <2> QED
    BY <1>1, <1>2, <2>1, <2>2 DEF Pinned, Shape
<1> QED
  BY <1>10, <1>11, <1>12, <1>13

LEMMA ReplayNext == ReplayInv /\ [Next]_vars => ReplayInv'
<1> SUFFICES ASSUME ReplayInv, [Next]_vars
             PROVE  ReplayInv'
  OBVIOUS
<1>1. ASSUME NEW q \in Promotions, NEW c \in Cases, Promote(q, c)
      PROVE  ReplayInv'
  BY <1>1, ReplayKept DEF Promote, case, ReplayInv, Shape, Begun
<1>2. ASSUME NEW q \in Promotions, CreateRule(q)
      PROVE  ReplayInv'
  BY <1>2, ReplayKept DEF CreateRule, case, ReplayInv, Shape, Begun
<1>3. ASSUME NEW q \in Promotions, Publish(q)
      PROVE  ReplayInv'
  <2>1. PICK S : versions \in Seq(S)
    BY DEF ReplayInv, Shape
  <2>2. PICK manifest : versions' = Append(versions, manifest)
    BY <1>3 DEF Publish
  <2>3. /\ versions' \in Seq(S \cup {manifest}) /\ Len(versions') > 0
        /\ \A v \in DOMAIN versions : v \in DOMAIN versions' /\ versions'[v] = versions[v]
    BY <2>1, <2>2, AppendKeeps
  <2> QED
    BY <1>3, <2>3, ReplayKept DEF Publish, case, ReplayInv, Shape, Begun
<1>4. ASSUME NEW q \in Promotions, PromotionFails(q)
      PROVE  ReplayInv'
  BY <1>4, ReplayKept DEF PromotionFails, case, ReplayInv, Shape, Begun
<1>5. ASSUME NEW c \in Cases, NEW payload \in Payloads, StartCase(c, payload)
      PROVE  ReplayInv'
  BY <1>5, ReplayStart
<1>6. ASSUME NEW c \in Cases, Propose(c)
      PROVE  ReplayInv'
  BY <1>6, ReplayPropose
<1>7. ASSUME NEW c \in Cases, AgentUnavailable(c)
      PROVE  ReplayInv'
  BY <1>7, ReplayKept DEF AgentUnavailable, promotion, ReplayInv, Shape, Begun, Runs
<1>8. ASSUME NEW c \in Cases, Store(c)
      PROVE  ReplayInv'
  BY <1>8, ReplayKept DEF Store, promotion, ReplayInv, Shape, Begun, Runs
<1>9. ASSUME NEW c \in Cases, StoreFails(c)
      PROVE  ReplayInv'
  BY <1>9, ReplayKept DEF StoreFails, promotion, ReplayInv, Shape, Begun, Runs
<1>10. ASSUME NEW c \in Cases, Approve(c)
       PROVE  ReplayInv'
  BY <1>10, ReplayKept DEF Approve, promotion, case, ReplayInv, Shape, Begun
<1>11. ASSUME NEW r \in Replays, NEW c \in Runs, NEW pinned \in BOOLEAN, Replay(r, c, pinned)
       PROVE  ReplayInv'
  BY <1>11, ReplayReplay
<1>12. CASE UNCHANGED vars
  BY <1>12, ReplayKept DEF vars, promotion, case, ReplayInv, Shape, Begun
<1> QED
  BY <1>1, <1>2, <1>3, <1>4, <1>5, <1>6, <1>7, <1>8, <1>9, <1>10, <1>11, <1>12 DEF Next

-----------------------------------------------------------------------------
(* Theorems                                                                *)

\* A replay on the own version of a run decides as the run did unless the agent
\* had decided that, for any rules and promotions (ReplayCase, evaluateDecision).
THEOREM ReplayIsFaithful == Spec => []ReplayReproduces
<1>1. ReplayInv => ReplayReproduces
  <2> SUFFICES ASSUME ReplayInv, NEW r \in Replays, NEW c \in run[r].of,
                      run[r].pinned, run[c].by # "agent"
               PROVE  run[r].action = run[c].action
    BY DEF ReplayReproduces
  <2>1. r \in Runs
    BY DEF Runs
  <2>2. /\ c \in Runs /\ pc[c] # "new" /\ pc[r] # "new" /\ run[r].by # "agent"
        /\ run[r].payload = run[c].payload /\ run[r].version = run[c].version
    BY <2>1 DEF ReplayInv, Pinned
  <2> QED
    BY <2>1, <2>2 DEF ReplayInv, Decided
<1> QED
  BY <1>1, ReplayInit, ReplayNext, PTL DEF Spec

\* Only decisions whose case has reached the operator are approved.
ApprovedInv ==
  /\ rows \in [Runs -> Nat]
  /\ approved \subseteq Cases /\ \A c \in approved : Has(c, "packet")

LEMMA HasStays ==
  ASSUME NEW r \in Runs, rows[r] \in Nat, rows'[r] \in Nat, rows'[r] >= rows[r],
         NEW row, Has(r, row)
  PROVE  Has(r, row)'
BY DEF Has, Rows

\* A final write passes the gate only for the bound tenant, the case of the
\* decision itself and after its packet has gone to the operator, for any
\* interleaving of cases, replays, approvals and failures (CallMCPWriteFinal).
THEOREM WritesApproved == Spec => []WritesAreApproved
<1>1. Init => ApprovedInv
  BY DEF Init, ApprovedInv
<1>2. ReplayInv /\ ApprovedInv /\ [Next]_vars => ApprovedInv'
  <2> SUFFICES ASSUME ReplayInv, ApprovedInv, [Next]_vars
               PROVE  ApprovedInv'
    OBVIOUS
  <2>1. rows' \in [Runs -> Nat] /\ \A r \in Runs : rows'[r] >= rows[r]
    <3>1. CASE \E r \in Replays, c \in Runs, pinned \in BOOLEAN : Replay(r, c, pinned)
      <4>1. PICK r \in Replays : pc[r] = "new" /\ rows' = [rows EXCEPT ![r] = 1]
        BY <3>1 DEF Replay
      <4>2. r \in Runs /\ rows[r] = 0
        BY <4>1 DEF ReplayInv, Begun, Runs, ApprovedInv
      <4> QED
        BY <4>1, <4>2 DEF ApprovedInv
    <3>2. CASE \E c \in Cases : Store(c)
      BY <3>2 DEF Store, ApprovedInv, Runs
    <3>3. ASSUME UNCHANGED rows
          PROVE  rows' \in [Runs -> Nat] /\ \A r \in Runs : rows'[r] >= rows[r]
      BY <3>3 DEF ApprovedInv
    <3> QED
      BY <3>1, <3>2, <3>3 DEF Next, vars, case, Promote, CreateRule, Publish,
        PromotionFails, StartCase, Propose, AgentUnavailable, StoreFails, Approve
  <2>2. approved' \subseteq Cases /\ \A c \in approved' \ approved : Has(c, "packet")
    <3>1. ASSUME UNCHANGED approved
          PROVE  approved' \subseteq Cases /\ \A c \in approved' \ approved : Has(c, "packet")
      BY <3>1 DEF ApprovedInv
    <3>2. ASSUME NEW c \in Cases, Approve(c)
          PROVE  approved' \subseteq Cases /\ \A d \in approved' \ approved : Has(d, "packet")
      BY <3>2 DEF Approve, ApprovedInv
    <3> QED
      BY <3>1, <3>2 DEF Next, vars, Promote, CreateRule, Publish, PromotionFails,
        StartCase, Propose, AgentUnavailable, Store, StoreFails, Replay
  <2> QED
    BY <2>1, <2>2, HasStays DEF ApprovedInv, Runs
<1>3. ApprovedInv => WritesAreApproved
  BY DEF ApprovedInv, WritesAreApproved, WriteFinal, HasApprovalAudit
<1> QED
  BY <1>1, <1>2, <1>3, ReplayInit, ReplayNext, PTL DEF Spec

-----------------------------------------------------------------------------
(* Manifests                                                               *)

IsRule(r) == r.id \in Nat \ {0} /\ r.scope \in Scopes /\ r.action \in Actions

\* Rules that can be told apart by their ids.
RuleSet(rules) ==
  /\ IsFiniteSet(rules) /\ \A r \in rules : IsRule(r)
  /\ \A r, s \in rules : r.id = s.id => r = s

Sorted(m) ==
  /\ Len(m) \in Nat /\ DOMAIN m = 1..Len(m)
  /\ \A i, j \in DOMAIN m : i < j => Precedes(m[i], m[j])

\* A set of natural numbers has a least one.
LEMMA LeastNumber ==
  ASSUME NEW T \in SUBSET Nat, T # {}
  PROVE  \E least \in T : \A n \in T : least <= n
<1>1. PICK least \in T : \A n \in T : ~(<<n, least>> \in OpToRel(<, Nat))
  BY NatLessThanWellFounded, WFMin
<1>2. \A n \in T : ~(n < least)
  BY <1>1 DEF OpToRel
<1> QED
  BY <1>2

\* The order of a manifest is a strict total order.
LEMMA PrecedesOrders ==
  ASSUME NEW r, NEW s, NEW t, IsRule(r), IsRule(s), IsRule(t)
  PROVE  /\ ~Precedes(r, r)
         /\ Precedes(r, s) /\ Precedes(s, t) => Precedes(r, t)
         /\ r.id # s.id => Precedes(r, s) \/ Precedes(s, r)
BY DEF IsRule, Precedes, ScopePriority, Scopes

\* A rule's place: one more than the number of the rules that precede it.
LEMMA Places ==
  ASSUME NEW rules, RuleSet(rules)
  PROVE  \E place \in Bijection(rules, 1..Cardinality(rules)) :
           \A r, s \in rules : place[r] < place[s] => Precedes(r, s)
<1> DEFINE n == Cardinality(rules)
           Before(r) == {s \in rules : Precedes(s, r)}
           place == [r \in rules |-> Cardinality(Before(r)) + 1]
<1>1. n \in Nat
  BY FS_CardinalityType DEF RuleSet
<1>2. ASSUME NEW r \in rules
      PROVE  IsFiniteSet(Before(r)) /\ Cardinality(Before(r)) \in 0..(n - 1)
  <2>1. r \notin Before(r)
    BY PrecedesOrders DEF RuleSet
  <2>2. /\ Before(r) \in SUBSET (rules \ {r})
        /\ IsFiniteSet(rules \ {r}) /\ Cardinality(rules \ {r}) = n - 1
    BY <2>1, FS_RemoveElement DEF RuleSet
  <2>3. IsFiniteSet(Before(r)) /\ Cardinality(Before(r)) <= n - 1
    BY <2>2, FS_Subset
  <2>4. Cardinality(Before(r)) \in Nat
    BY <2>3, FS_CardinalityType
  <2> HIDE DEF Before
  <2> QED
    BY <1>1, <2>3, <2>4
<1>3. ASSUME NEW r \in rules, NEW s \in rules, Precedes(r, s)
      PROVE  Cardinality(Before(r)) < Cardinality(Before(s))
  <2>1. r \notin Before(r) /\ Before(r) \cup {r} \in SUBSET Before(s)
    BY <1>3, PrecedesOrders DEF RuleSet
  <2>2. Cardinality(Before(r) \cup {r}) = Cardinality(Before(r)) + 1
    BY <1>2, <2>1, FS_AddElement
  <2>3. Cardinality(Before(r) \cup {r}) <= Cardinality(Before(s))
    BY <1>2, <2>1, FS_Subset
  <2>4. Cardinality(Before(r)) \in Nat /\ Cardinality(Before(s)) \in Nat
    BY <1>2, FS_CardinalityType
  <2> HIDE DEF Before
  <2> QED
    BY <2>2, <2>3, <2>4
<1>4. \A r \in rules : place[r] = Cardinality(Before(r)) + 1 /\ place[r] \in 1..n
  <2> TAKE r \in rules
  <2>1. place[r] = Cardinality(Before(r)) + 1
    OBVIOUS
  <2>2. Cardinality(Before(r)) \in 0..(n - 1)
    BY <1>2
  <2> HIDE DEF Before, place, n
  <2> QED
    BY <1>1, <2>1, <2>2
<1>5. \A r, s \in rules : r # s => Precedes(r, s) \/ Precedes(s, r)
  BY PrecedesOrders DEF RuleSet
<1>6. \A r, s \in rules : Precedes(r, s) => place[r] < place[s]
  <2> TAKE r, s \in rules
  <2> HAVE Precedes(r, s)
  <2>1. Cardinality(Before(r)) < Cardinality(Before(s))
    BY <1>3
  <2>2. Cardinality(Before(r)) \in Nat /\ Cardinality(Before(s)) \in Nat
    BY <1>2
  <2> HIDE DEF Before, place
  <2> QED
    BY <1>4, <2>1, <2>2
<1> DEFINE N == 1..n
<1>7. place \in [rules -> N]
  BY <1>4
<1> HIDE DEF place, Before
<1>8. \A r, s \in rules : place[r] \in Nat /\ (place[r] = place[s] => r = s)
                         /\ (place[r] < place[s] => Precedes(r, s))
  BY <1>1, <1>4, <1>5, <1>6
<1>9. place \in Injection(rules, N)
  BY <1>7, <1>8 DEF Injection, IsInjective
<1>10. IsFiniteSet(N) /\ Cardinality(N) = n
  BY <1>1, FS_Interval
<1>11. place \in Surjection(rules, N)
  BY <1>9, <1>10, FS_Injection
<1> QED
  BY <1>8, <1>9, <1>11 DEF Bijection

\* A manifest has the rules it is made of, each before the ones it precedes.
LEMMA ManifestSorted ==
  ASSUME NEW rules, RuleSet(rules)
  PROVE  Sorted(Manifest(rules)) /\ ToSet(Manifest(rules)) = rules
<1> DEFINE n == Cardinality(rules)
           N == 1..n
           m == Manifest(rules)
<1>1. n \in Nat /\ IsFiniteSet(N) /\ Cardinality(N) = n /\ IsFiniteSet(rules)
  BY FS_CardinalityType, FS_Interval DEF RuleSet
<1>2. \E s \in SetToSeqs(rules) : \A i, j \in DOMAIN s : i < j => Precedes(s[i], s[j])
  <2>1. PICK place \in Bijection(rules, N) :
          \A r, s \in rules : place[r] < place[s] => Precedes(r, s)
    BY Places
  <2>2. /\ place \in [rules -> N]
        /\ \A i \in N : \E r \in rules : place[r] = i
    BY <2>1 DEF Bijection, Injection, Surjection
  <2> DEFINE s == [i \in N |-> CHOOSE r \in rules : place[r] = i]
  <2>3. \A i \in N : s[i] \in rules /\ place[s[i]] = i
    BY <2>2
  <2>4. s \in [N -> rules] /\ DOMAIN s = N
    BY <2>3
  <2> HIDE DEF s
  <2>5. s \in SetToSeqs(rules)
    BY <2>3, <2>4 DEF SetToSeqs
  <2>6. \A i, j \in N : i < j => Precedes(s[i], s[j])
    BY <2>1, <2>3
  <2> QED
    BY <2>4, <2>5, <2>6
<1>3. m \in SetToSeqs(rules) /\ \A i, j \in DOMAIN m : i < j => Precedes(m[i], m[j])
  BY <1>2 DEF Manifest
<1> HIDE DEF m, N
<1>4. m \in [N -> rules] /\ \A i, j \in N : m[i] = m[j] => i = j
  BY <1>3 DEF SetToSeqs, N
<1>5. m \in Injection(N, rules)
  BY <1>4 DEF Injection, IsInjective
<1>6. m \in Surjection(N, rules)
  BY <1>1, <1>5, FS_Injection
<1>7. ToSet(m) = rules
  BY <1>4, <1>6 DEF ToSet, Surjection
<1>8. m \in Seq(rules) /\ Len(m) = n
  BY <1>1, <1>4 DEF N
<1>9. Sorted(m)
  BY <1>1, <1>3, <1>4, <1>8 DEF Sorted, N
<1> QED
  BY <1>7, <1>9 DEF m

\* The evaluation of a manifest takes the best of the rules that match.
LEMMA BestRule ==
  ASSUME NEW m, Sorted(m), \A r \in ToSet(m) : IsRule(r), NEW payload
  PROVE  LET matching == {r \in ToSet(m) : Matches(r, payload)}
             decided == Evaluate(m, payload)
         IN IF matching = {} THEN decided.by = "default" /\ decided.action = DefaultAction
            ELSE /\ decided.by = "rule"
                 /\ \E best \in matching :
                      /\ decided.action = best.action
                      /\ \A s \in matching \ {best} :
                           IF s.scope = best.scope THEN best.id < s.id ELSE best.scope = "case"
<1> DEFINE matching == {r \in ToSet(m) : Matches(r, payload)}
           decided == Evaluate(m, payload)
           first == SelectInSeq(m, LAMBDA r : Matches(r, payload))
           places == {i \in 1..Len(m) : Matches(m[i], payload)}
<1>1. first = IF places # {} THEN Min(places) ELSE 0
  BY DEF SelectInSeq
<1>2. decided = IF first = 0 THEN [action |-> DefaultAction, by |-> "default"]
                ELSE [action |-> m[first].action, by |-> "rule"]
  BY DEF Evaluate
<1>3. matching = {m[i] : i \in places} /\ places \subseteq Nat /\ places \subseteq DOMAIN m
  BY DEF ToSet, Sorted
<1> HIDE DEF first, decided
<1>4. CASE places = {}
  <2>1. matching = {} /\ first = 0
    BY <1>1, <1>3, <1>4
  <2> HIDE DEF places, matching
  <2>2. decided.by = "default" /\ decided.action = DefaultAction
    BY <1>2, <2>1
  <2> QED
    BY <2>1, <2>2 DEF decided, matching
<1>5. CASE places # {}
  <2>1. first \in places /\ \A i \in places : first <= i
    <3> HIDE DEF places
    <3>1. \E least \in places : \A i \in places : least <= i
      BY <1>3, <1>5, LeastNumber
    <3> QED
      BY <1>1, <1>5, <3>1 DEF Min
  <2>2. first # 0 /\ m[first] \in matching
    BY <1>3, <2>1
  <2>3. decided.by = "rule" /\ decided.action = m[first].action
    BY <1>2, <2>2
  <2>4. ASSUME NEW s \in matching \ {m[first]}
        PROVE  IF s.scope = m[first].scope THEN m[first].id < s.id ELSE m[first].scope = "case"
    <3>1. PICK i \in places : s = m[i]
      BY <1>3
    <3>2. first < i /\ first \in DOMAIN m /\ i \in DOMAIN m
      BY <1>3, <2>1, <2>4, <3>1
    <3>3. Precedes(m[first], s)
      BY <3>1, <3>2 DEF Sorted
    <3>4. IsRule(m[first]) /\ IsRule(s)
      BY <2>2
    <3> HIDE DEF places, matching
    <3> QED
      BY <3>3, <3>4 DEF Precedes, ScopePriority, IsRule, Scopes
  <2> HIDE DEF places, matching
  <2>5. /\ matching # {} /\ decided.by = "rule"
        /\ \E best \in matching :
              /\ decided.action = best.action
              /\ \A s \in matching \ {best} :
                   IF s.scope = best.scope THEN best.id < s.id ELSE best.scope = "case"
    BY <2>2, <2>3, <2>4
  <2> QED
    BY <2>5 DEF decided, matching
<1> QED
  BY <1>4, <1>5

-----------------------------------------------------------------------------
(* Rules and versions                                                      *)

\* The rules that promotions have made.
Made == {rule[q] : q \in {p \in Promotions : ppc[p] # "new"}}

\* Rules are not changed once they are made, have ids of their own, and each
\* version is a manifest of some of them.
RulesInv ==
  /\ ppc \in [Promotions -> Steps] /\ rule = [q \in Promotions |-> rule[q]]
  /\ \A q \in Promotions : IF ppc[q] = "new" THEN rule[q].id = 0 ELSE IsRule(rule[q])
  /\ \A p, q \in Promotions : ppc[p] # "new" /\ rule[p].id = rule[q].id => p = q
  /\ \A v \in DOMAIN versions : Sorted(versions[v]) /\ ToSet(versions[v]) \subseteq Made

LEMMA TaughtAction ==
  ASSUME NEW saying \in Sayings, NEW payload
  PROVE  Taught(saying, payload).action \in Actions
BY DecisionsAssumption DEF Taught, Actions, AllowedActions

\* The rules of some promotions can be told apart by their ids.
LEMMA MadeRules ==
  ASSUME RulesInv, NEW made \in SUBSET {p \in Promotions : ppc[p] # "new"}
  PROVE  RuleSet({rule[p] : p \in made})
<1> DEFINE rules == {rule[p] : p \in made}
           made_rule == [p \in made |-> rule[p]]
<1>1. IsFiniteSet(made)
  BY DecisionsAssumption, FS_Subset
<1>2. made_rule \in Surjection(made, rules)
  BY DEF Surjection
<1>3. IsFiniteSet(rules)
  BY <1>1, <1>2, FS_Surjection
<1>4. \A r \in rules : IsRule(r)
  BY DEF RulesInv
<1>5. \A r, s \in rules : r.id = s.id => r = s
  BY DEF RulesInv
<1> QED
  BY <1>3, <1>4, <1>5 DEF RuleSet

\* Steps that make no rule and publish no version.
LEMMA RulesKept ==
  ASSUME RulesInv, UNCHANGED <<rule, versions>>, ppc' \in [Promotions -> Steps],
         \A q \in Promotions : ppc'[q] = "new" <=> ppc[q] = "new"
  PROVE  RulesInv'
<1>1. Made' = Made
  BY DEF Made
<1> QED
  BY <1>1 DEF RulesInv

LEMMA RulesPromote ==
  ASSUME RulesInv, NEW q \in Promotions, NEW c \in Cases, Promote(q, c)
  PROVE  RulesInv'
<1>1. PICK saying \in Sayings, scope \in Scopes, id \in 1..Cardinality(Promotions) :
        /\ \A p \in Promotions : rule[p].id # id
        /\ rule' = [rule EXCEPT ![q] =
                      [id |-> id, scope |-> scope,
                       action |-> Taught(saying, run[c].payload).action,
                       conditions |-> Taught(saying, run[c].payload).conditions]]
        /\ ppc' = [p \in Promotions |->
                     IF p = q THEN "create"
                     ELSE IF p \in Superseded(Taught(saying, run[c].payload).conditions)
                     THEN "deprecated" ELSE ppc[p]]
  BY DEF Promote
<1>2. ppc[q] = "new" /\ UNCHANGED versions
  BY DEF Promote
<1>3. Taught(saying, run[c].payload).action \in Actions
  BY TaughtAction
<1>4. id \in Nat \ {0} /\ rule'[q].id = id /\ IsRule(rule'[q])
  BY <1>1, <1>3 DEF RulesInv, IsRule
<1>5. \A p \in Promotions \ {q} : rule'[p] = rule[p] /\ (ppc'[p] = "new" <=> ppc[p] = "new")
  BY <1>1 DEF RulesInv, Superseded, Active
<1>6. ppc' \in [Promotions -> Steps] /\ ppc'[q] = "create"
  BY <1>1 DEF RulesInv, Steps
<1>7. rule' = [p \in Promotions |-> rule'[p]]
  BY <1>1 DEF RulesInv
<1>8. \A p \in Promotions : IF ppc'[p] = "new" THEN rule'[p].id = 0 ELSE IsRule(rule'[p])
  BY <1>4, <1>5, <1>6 DEF RulesInv
<1>9. \A p, s \in Promotions : ppc'[p] # "new" /\ rule'[p].id = rule'[s].id => p = s
  BY <1>1, <1>4, <1>5, <1>6 DEF RulesInv
<1>10. Made \subseteq Made'
  BY <1>2, <1>5 DEF Made
<1>11. \A v \in DOMAIN versions' : Sorted(versions'[v]) /\ ToSet(versions'[v]) \subseteq Made'
  BY <1>2, <1>10 DEF RulesInv
<1> QED
  BY <1>6, <1>7, <1>8, <1>9, <1>11 DEF RulesInv

LEMMA RulesPublish ==
  ASSUME RulesInv, Shape, NEW q \in Promotions, Publish(q)
  PROVE  /\ RulesInv'
         /\ DOMAIN versions = 1..Len(versions) /\ Len(versions) \in Nat
         /\ DOMAIN versions' = 1..(Len(versions) + 1)
         /\ \A v \in DOMAIN versions : versions'[v] = versions[v]
         /\ ToSet(versions'[Len(versions) + 1]) = {rule[p] : p \in Active}
<1> DEFINE manifest == Manifest({rule[p] : p \in Active})
<1>1. /\ versions' = Append(versions, manifest) /\ UNCHANGED rule /\ ppc[q] = "publish"
      /\ ppc' = [ppc EXCEPT ![q] = "active"]
  BY DEF Publish
<1>2. PICK S : versions \in Seq(S)
  BY DEF Shape
<1>3. Active \in SUBSET {p \in Promotions : ppc[p] # "new"}
  BY DEF Active
<1>4. Sorted(manifest) /\ ToSet(manifest) = {rule[p] : p \in Active}
  BY <1>3, MadeRules, ManifestSorted
<1> HIDE DEF manifest
<1>5. /\ DOMAIN versions = 1..Len(versions) /\ Len(versions) \in Nat
      /\ DOMAIN versions' = 1..(Len(versions) + 1)
      /\ \A v \in DOMAIN versions : versions'[v] = versions[v]
      /\ versions'[Len(versions) + 1] = manifest
  BY <1>1, <1>2, AppendKeeps
<1>6. Made' = Made /\ {rule[p] : p \in Active} \subseteq Made
  BY <1>1, <1>3 DEF Made, RulesInv
<1>7. \A v \in DOMAIN versions' : Sorted(versions'[v]) /\ ToSet(versions'[v]) \subseteq Made'
  <2> TAKE v \in DOMAIN versions'
  <2>1. v \in DOMAIN versions \/ v = Len(versions) + 1
    BY <1>5
  <2> QED
    BY <1>4, <1>5, <1>6, <2>1 DEF RulesInv
<1>8. ppc' \in [Promotions -> Steps] /\ \A p \in Promotions : ppc'[p] = "new" <=> ppc[p] = "new"
  BY <1>1 DEF RulesInv, Steps
<1>9. RulesInv'
  BY <1>1, <1>7, <1>8 DEF RulesInv
<1> QED
  BY <1>4, <1>5, <1>9

LEMMA RulesNext == RulesInv /\ Shape /\ [Next]_vars => RulesInv'
<1> SUFFICES ASSUME RulesInv, Shape, [Next]_vars
             PROVE  RulesInv'
  OBVIOUS
<1>1. ASSUME NEW q \in Promotions, NEW c \in Cases, Promote(q, c)
      PROVE  RulesInv'
  BY <1>1, RulesPromote
<1>2. ASSUME NEW q \in Promotions, CreateRule(q)
      PROVE  RulesInv'
  BY <1>2, RulesKept DEF CreateRule, RulesInv, Steps
<1>3. ASSUME NEW q \in Promotions, Publish(q)
      PROVE  RulesInv'
  BY <1>3, RulesPublish
<1>4. ASSUME NEW q \in Promotions, PromotionFails(q)
      PROVE  RulesInv'
  BY <1>4, RulesKept DEF PromotionFails, InFlight, Active, RulesInv, Steps
<1>5. ASSUME UNCHANGED <<ppc, rule, versions>>
      PROVE  RulesInv'
  BY <1>5, RulesKept DEF RulesInv
<1> QED
  BY <1>1, <1>2, <1>3, <1>4, <1>5 DEF Next, vars, promotion, StartCase, Propose,
     AgentUnavailable, Store, StoreFails, Approve, Replay

-----------------------------------------------------------------------------
(* What has been learned                                                   *)

\* While promotions take turns and none fails, the conditions of every rule a
\* version has are those of a rule that is active or about to be, and of a
\* rule of every later version.
LearnedInv ==
  ~disturbed =>
    /\ \A p, q \in InFlight : p = q
    /\ \A v \in DOMAIN versions : \A r \in ToSet(versions[v]) :
         \E q \in Active \cup InFlight : rule[q].conditions = r.conditions
    /\ \A v, w \in DOMAIN versions : v < w =>
         \A r \in ToSet(versions[v]) : \E s \in ToSet(versions[w]) : s.conditions = r.conditions

LEMMA LearnedPromote ==
  ASSUME RulesInv, LearnedInv, NEW q \in Promotions, NEW c \in Cases, Promote(q, c)
  PROVE  LearnedInv'
<1>1. PICK saying \in Sayings, scope \in Scopes, id \in 1..Cardinality(Promotions) :
        /\ rule' = [rule EXCEPT ![q] =
                      [id |-> id, scope |-> scope,
                       action |-> Taught(saying, run[c].payload).action,
                       conditions |-> Taught(saying, run[c].payload).conditions]]
        /\ ppc' = [p \in Promotions |->
                     IF p = q THEN "create"
                     ELSE IF p \in Superseded(Taught(saying, run[c].payload).conditions)
                     THEN "deprecated" ELSE ppc[p]]
  BY DEF Promote
<1>2. /\ ppc[q] = "new" /\ UNCHANGED versions /\ disturbed' = (disturbed \/ InFlight # {})
  BY DEF Promote
<1> DEFINE conditions == Taught(saying, run[c].payload).conditions
<1> SUFFICES ASSUME ~disturbed'
             PROVE  LearnedInv'
  BY DEF LearnedInv
<1>3. ~disturbed /\ InFlight = {}
  BY <1>2
<1>4. /\ rule'[q].conditions = conditions
      /\ \A p \in Promotions \ {q} : rule'[p] = rule[p]
  BY <1>1 DEF RulesInv
<1>5. /\ ppc'[q] = "create"
      /\ \A p \in Promotions \ {q} :
           ppc'[p] = IF p \in Superseded(conditions) THEN "deprecated" ELSE ppc[p]
  BY <1>1
<1> HIDE DEF conditions
<1>6. InFlight' = {q}
  BY <1>3, <1>5 DEF InFlight
<1>7. \A p \in Active : p # q /\ (p \in Active' \/ rule[p].conditions = conditions)
  BY <1>2, <1>5 DEF Active, Superseded
<1>8. \A p \in Active : \E s \in Active' \cup InFlight' :
        rule'[s].conditions = rule[p].conditions
  <2> TAKE p \in Active
  <2>1. p \in Promotions \ {q}
    BY <1>7 DEF Active
  <2>2. CASE p \in Active'
    BY <1>4, <2>1, <2>2
  <2>3. CASE rule[p].conditions = conditions
    BY <1>4, <1>6, <2>3
  <2> QED
    BY <1>7, <2>2, <2>3
<1>9. \A v \in DOMAIN versions' : \A r \in ToSet(versions'[v]) :
        \E s \in Active' \cup InFlight' : rule'[s].conditions = r.conditions
  BY <1>2, <1>3, <1>8 DEF LearnedInv
<1> QED
  BY <1>2, <1>3, <1>6, <1>9 DEF LearnedInv

LEMMA LearnedPublish ==
  ASSUME RulesInv, Shape, LearnedInv, NEW q \in Promotions, Publish(q)
  PROVE  LearnedInv'
<1>1. /\ ppc[q] = "publish" /\ UNCHANGED <<rule, disturbed>>
      /\ ppc' = [ppc EXCEPT ![q] = "active"]
  BY DEF Publish
<1> SUFFICES ASSUME ~disturbed
             PROVE  LearnedInv'
  BY <1>1 DEF LearnedInv
<1> DEFINE last == Len(versions) + 1
<1>2. /\ DOMAIN versions = 1..Len(versions) /\ Len(versions) \in Nat
      /\ DOMAIN versions' = 1..last
      /\ \A v \in DOMAIN versions : versions'[v] = versions[v]
      /\ ToSet(versions'[last]) = {rule[p] : p \in Active}
  BY RulesPublish
<1>3. InFlight = {q} /\ q \in Active
  BY <1>1 DEF InFlight, Active, LearnedInv
<1>4. InFlight' = {} /\ Active' = Active
  BY <1>1, <1>3 DEF InFlight, Active, RulesInv
<1>5. \A v \in DOMAIN versions : \A r \in ToSet(versions[v]) :
        \E p \in Active : rule[p].conditions = r.conditions
  BY <1>3 DEF LearnedInv
<1>6. \A v \in DOMAIN versions : \A r \in ToSet(versions[v]) :
        \E s \in ToSet(versions'[last]) : s.conditions = r.conditions
  BY <1>2, <1>5
<1>7. ASSUME NEW v \in DOMAIN versions', NEW r \in ToSet(versions'[v])
      PROVE  \E p \in Active' \cup InFlight' : rule'[p].conditions = r.conditions
  <2>1. v \in DOMAIN versions \/ v = last
    BY <1>2
  <2>2. CASE v \in DOMAIN versions
    BY <1>1, <1>2, <1>4, <1>5, <2>2
  <2>3. CASE v = last
    BY <1>1, <1>2, <1>4, <2>3
  <2> QED
    BY <2>1, <2>2, <2>3
<1>8. ASSUME NEW v \in DOMAIN versions', NEW w \in DOMAIN versions', v < w,
             NEW r \in ToSet(versions'[v])
      PROVE  \E s \in ToSet(versions'[w]) : s.conditions = r.conditions
  <2>1. v \in DOMAIN versions /\ (w \in DOMAIN versions \/ w = last)
    BY <1>2, <1>8
  <2>2. versions'[v] = versions[v]
    BY <1>2, <2>1
  <2>3. CASE w \in DOMAIN versions
    BY <1>2, <1>8, <2>1, <2>2, <2>3 DEF LearnedInv
  <2>4. CASE w = last
    BY <1>6, <1>8, <2>1, <2>2, <2>4
  <2> QED
    BY <2>1, <2>3, <2>4
<1> QED
  BY <1>4, <1>7, <1>8 DEF LearnedInv

LEMMA LearnedNext == RulesInv /\ Shape /\ LearnedInv /\ [Next]_vars => LearnedInv'
<1> SUFFICES ASSUME RulesInv, Shape, LearnedInv, [Next]_vars
             PROVE  LearnedInv'
  OBVIOUS
<1>1. ASSUME NEW q \in Promotions, NEW c \in Cases, Promote(q, c)
      PROVE  LearnedInv'
  BY <1>1, LearnedPromote
<1>2. ASSUME NEW q \in Promotions, CreateRule(q)
      PROVE  LearnedInv'
  <2>1. /\ ppc[q] = "create" /\ ppc' = [ppc EXCEPT ![q] = "publish"]
        /\ UNCHANGED <<rule, versions, disturbed>>
    BY <1>2 DEF CreateRule
  <2>2. InFlight' = InFlight /\ Active' = Active \cup {q} /\ q \in InFlight
    BY <2>1 DEF InFlight, Active, RulesInv
  <2>3. Active' \cup InFlight' = Active \cup InFlight
    BY <2>2
  <2> QED
    BY <2>1, <2>2, <2>3 DEF LearnedInv
<1>3. ASSUME NEW q \in Promotions, Publish(q)
      PROVE  LearnedInv'
  BY <1>3, LearnedPublish
<1>4. ASSUME NEW q \in Promotions, PromotionFails(q)
      PROVE  LearnedInv'
  BY <1>4 DEF PromotionFails, LearnedInv
<1>5. ASSUME UNCHANGED <<ppc, rule, versions, disturbed>>
      PROVE  LearnedInv'
  BY <1>5 DEF LearnedInv, InFlight, Active
<1> QED
  BY <1>1, <1>2, <1>3, <1>4, <1>5 DEF Next, vars, promotion, StartCase, Propose,
     AgentUnavailable, Store, StoreFails, Approve, Replay

LEMMA RulesInit == Init => RulesInv /\ LearnedInv
<1> SUFFICES ASSUME Init
             PROVE  RulesInv /\ LearnedInv
  OBVIOUS
<1>1. /\ ppc = [q \in Promotions |-> "new"] /\ rule = [q \in Promotions |-> [id |-> 0]]
      /\ versions = << <<>> >>
  BY DEF Init
<1>2. DOMAIN versions = {1} /\ versions[1] = <<>>
  BY <1>1
<1>3. Sorted(<<>>) /\ ToSet(<<>>) = {}
  BY DEF Sorted, ToSet
<1>4. RulesInv
  BY <1>1, <1>2, <1>3 DEF RulesInv, Steps
<1>5. LearnedInv
  BY <1>1, <1>2, <1>3 DEF LearnedInv, InFlight
<1> QED
  BY <1>4, <1>5

\* A payload that the rules of a version decide is decided by those of every
\* later one, while promotions take turns and none fails.
THEOREM LearningStays == Spec => []LearnedStaysLearned
<1>1. ASSUME RulesInv, LearnedInv
      PROVE  LearnedStaysLearned
  <2> SUFFICES ASSUME ~disturbed, NEW v \in DOMAIN versions, NEW w \in DOMAIN versions,
                      NEW payload \in Payloads, v < w,
                      Evaluate(versions[v], payload).by = "rule"
               PROVE  Evaluate(versions[w], payload).by = "rule"
    BY DEF LearnedStaysLearned
  <2>1. \A u \in DOMAIN versions : Sorted(versions[u]) /\ \A r \in ToSet(versions[u]) : IsRule(r)
    BY <1>1 DEF RulesInv, Made
  <2>2. \E r \in ToSet(versions[v]) : Matches(r, payload)
    BY <2>1, BestRule
  <2>3. \E s \in ToSet(versions[w]) : Matches(s, payload)
    BY <1>1, <2>2 DEF LearnedInv, Matches
  <2> QED
    BY <2>1, <2>3, BestRule
<1> QED
  BY <1>1, RulesInit, RulesNext, LearnedNext, ReplayInit, ReplayNext, PTL
     DEF Spec, ReplayInv

-----------------------------------------------------------------------------
(* Decisions and rows                                                      *)

\* A run has what the evaluation of its version returned, or, where that was
\* the default, what the agent has answered.
Evaluated(r) ==
  LET decided == Evaluate(versions[run[r].version], run[r].payload)
  IN /\ pc[r] = "agent" => run[r].by = "default"
     /\ IF run[r].by = "agent" THEN decided.by = "default" /\ run[r].action \in AllowedActions
        ELSE run[r].by = decided.by /\ run[r].action = decided.action

RunsInv ==
  \A r \in Runs :
    /\ IF pc[r] = "new" THEN run[r].version = 0 ELSE Evaluated(r)
    /\ run[r].action \in Actions

\* A manifest of made rules decides by a rule or by default, with an action of
\* the domain.
LEMMA EvaluatedAction ==
  ASSUME RulesInv, NEW v \in DOMAIN versions, NEW payload
  PROVE  Evaluate(versions[v], payload).action \in Actions
<1>1. Sorted(versions[v]) /\ \A r \in ToSet(versions[v]) : IsRule(r)
  BY DEF RulesInv, Made
<1>2. DefaultAction \in Actions /\ \A r : IsRule(r) => r.action \in Actions
  BY DEF DefaultAction, Actions, AllowedActions, IsRule
<1> QED
  BY <1>1, <1>2, BestRule

\* Steps that leave the runs as they are and take away no version.
LEMMA RunsKept ==
  ASSUME ReplayInv, RunsInv, UNCHANGED run,
         \A v \in DOMAIN versions : v \in DOMAIN versions' /\ versions'[v] = versions[v],
         \A r \in Runs : pc'[r] = "new" <=> pc[r] = "new",
         \A r \in Runs : pc'[r] = "agent" => pc[r] = "agent"
  PROVE  RunsInv'
<1> SUFFICES ASSUME NEW r \in Runs
             PROVE  /\ IF pc'[r] = "new" THEN run'[r].version = 0 ELSE Evaluated(r)'
                    /\ run'[r].action \in Actions
  BY DEF RunsInv
<1>1. CASE pc[r] = "new"
  BY <1>1 DEF RunsInv
<1>2. CASE pc[r] # "new"
  <2>1. versions'[run'[r].version] = versions[run[r].version]
    BY <1>2 DEF ReplayInv, Begun
  <2> QED
    BY <1>2, <2>1 DEF RunsInv, Evaluated
<1> QED
  BY <1>1, <1>2

\* The other runs, where one run is changed.
LEMMA RunsOthers ==
  ASSUME RunsInv, UNCHANGED versions, NEW r \in Runs,
         \A s \in Runs \ {r} : run'[s] = run[s] /\ pc'[s] = pc[s],
         pc'[r] # "new", Evaluated(r)', run'[r].action \in Actions
  PROVE  RunsInv'
BY DEF RunsInv, Evaluated

LEMMA RunsStart ==
  ASSUME ReplayInv, RulesInv, RunsInv, NEW c \in Cases, NEW payload \in Payloads,
         StartCase(c, payload)
  PROVE  RunsInv'
<1> DEFINE decided == Evaluate(versions[Len(versions)], payload)
<1>1. /\ pc[c] = "new" /\ c \in Runs /\ UNCHANGED versions
      /\ run' = [run EXCEPT ![c] =
                   [NoRun EXCEPT !.payload = payload, !.version = Len(versions),
                                 !.action = decided.action, !.by = decided.by]]
      /\ \E next \in {"store"} \cup IF decided.by = "default" THEN {"agent"} ELSE {} :
           pc' = [pc EXCEPT ![c] = next]
  BY DEF StartCase, Last, promotion, Runs
<1>2. decided.by \in {"rule", "default"}
  BY EvaluatedByRuleOrDefault
<1>3. Len(versions) \in DOMAIN versions
  BY AppendKeeps DEF ReplayInv, Shape
<1>4. decided.action \in Actions
  BY <1>3, EvaluatedAction
<1>5. \A s \in Runs \ {c} : run'[s] = run[s] /\ pc'[s] = pc[s]
  BY <1>1 DEF ReplayInv, Shape
<1>6. /\ run'[c].payload = payload /\ run'[c].version = Len(versions)
      /\ run'[c].action = decided.action /\ run'[c].by = decided.by
      /\ pc'[c] \in {"store", "agent"} /\ (pc'[c] = "agent" => decided.by = "default")
  <2> HIDE DEF decided
  <2> QED
    BY <1>1 DEF ReplayInv, Shape, NoRun
<1>7. Evaluated(c)'
  BY <1>1, <1>2, <1>6 DEF Evaluated
<1> HIDE DEF decided
<1> QED
  BY <1>1, <1>4, <1>5, <1>6, <1>7, RunsOthers

LEMMA RunsPropose ==
  ASSUME ReplayInv, RunsInv, NEW c \in Cases, Propose(c)
  PROVE  RunsInv'
<1>1. PICK action \in Actions :
        run' = [run EXCEPT ![c].action = Accepted(action), ![c].by = "agent"]
  BY DEF Propose
<1>2. c \in Runs /\ pc[c] = "agent" /\ pc' = [pc EXCEPT ![c] = "store"] /\ UNCHANGED versions
  BY DEF Propose, promotion, Runs
<1>3. Accepted(action) \in AllowedActions /\ Accepted(action) \in Actions
  BY DEF Accepted, AllowedActions, DefaultAction, Actions
<1>4. /\ run'[c].version = run[c].version /\ run'[c].payload = run[c].payload
      /\ run'[c].action = Accepted(action) /\ run'[c].by = "agent"
  <2>1. PICK actions : run \in [Runs -> Run(actions)]
    BY DEF ReplayInv, Shape
  <2>2. run[c] \in Run(actions)
    BY <1>2, <2>1
  <2> QED
    BY <1>1, <1>2, <2>1, <2>2 DEF Run
<1>5. \A s \in Runs \ {c} : run'[s] = run[s] /\ pc'[s] = pc[s]
  BY <1>1, <1>2 DEF ReplayInv, Shape
<1>6. run[c].by = "default" /\ Evaluated(c)
  BY <1>2 DEF RunsInv, Evaluated
<1>7. pc'[c] = "store"
  BY <1>2 DEF ReplayInv, Shape
<1>8. Evaluated(c)'
  BY <1>2, <1>3, <1>4, <1>6, <1>7 DEF Evaluated
<1> QED
  BY <1>2, <1>3, <1>4, <1>5, <1>7, <1>8, RunsOthers

LEMMA RunsReplay ==
  ASSUME ReplayInv, RulesInv, RunsInv, NEW r \in Replays, NEW c \in Runs,
         NEW pinned \in BOOLEAN, Replay(r, c, pinned)
  PROVE  RunsInv'
<1>1. /\ r \in Runs /\ rows[c] > 0 /\ pc' = [pc EXCEPT ![r] = "done"] /\ UNCHANGED versions
  BY HasRows DEF Replay, promotion, Runs, ReplayInv
<1>2. PICK version \in IF pinned THEN {run[c].version} ELSE DOMAIN versions \ {run[c].version} :
        run' = [run EXCEPT ![r] =
                 [NoRun EXCEPT !.payload = run[c].payload, !.version = version,
                               !.action = Evaluate(versions[version], run[c].payload).action,
                               !.by = Evaluate(versions[version], run[c].payload).by,
                               !.of = {c}, !.pinned = pinned]]
  BY DEF Replay, PinnedVersion
<1>3. version \in DOMAIN versions
  BY <1>1, <1>2 DEF ReplayInv, Begun
<1> DEFINE decided == Evaluate(versions[version], run[c].payload)
<1>4. decided.by \in {"rule", "default"} /\ decided.action \in Actions
  BY <1>3, EvaluatedAction, EvaluatedByRuleOrDefault
<1>5. \A s \in Runs \ {r} : run'[s] = run[s] /\ pc'[s] = pc[s]
  BY <1>1, <1>2 DEF ReplayInv, Shape
<1>6. /\ run'[r].payload = run[c].payload /\ run'[r].version = version
      /\ run'[r].action = decided.action /\ run'[r].by = decided.by /\ pc'[r] = "done"
  <2>1. run' = [run EXCEPT ![r] =
                 [NoRun EXCEPT !.payload = run[c].payload, !.version = version,
                               !.action = decided.action, !.by = decided.by,
                               !.of = {c}, !.pinned = pinned]]
    BY <1>2
  <2> HIDE DEF decided
  <2> QED
    BY <1>1, <2>1 DEF ReplayInv, Shape, NoRun
<1>7. Evaluated(r)'
  BY <1>1, <1>4, <1>6 DEF Evaluated
<1> HIDE DEF decided
<1> QED
  BY <1>1, <1>4, <1>5, <1>6, <1>7, RunsOthers

LEMMA RunsNext == ReplayInv /\ RulesInv /\ RunsInv /\ [Next]_vars => RunsInv'
<1> SUFFICES ASSUME ReplayInv, RulesInv, RunsInv, [Next]_vars
             PROVE  RunsInv'
  OBVIOUS
<1>1. ASSUME NEW q \in Promotions, Publish(q)
      PROVE  RunsInv'
  <2>1. UNCHANGED <<run, pc>> /\ \E manifest : versions' = Append(versions, manifest)
    BY <1>1 DEF Publish, case
  <2>2. \A v \in DOMAIN versions : v \in DOMAIN versions' /\ versions'[v] = versions[v]
    BY <2>1, AppendKeeps DEF ReplayInv, Shape
  <2> QED
    BY <2>1, <2>2, RunsKept
<1>2. CASE \/ \E q \in Promotions : CreateRule(q) \/ PromotionFails(q)
                                    \/ \E c \in Cases : Promote(q, c)
           \/ \E c \in Cases : Approve(c)
           \/ UNCHANGED vars
  BY <1>2, RunsKept DEF CreateRule, PromotionFails, Promote, Approve, vars, promotion, case
<1>3. ASSUME NEW c \in Cases, AgentUnavailable(c) \/ Store(c) \/ StoreFails(c)
      PROVE  RunsInv'
  <2>1. /\ pc[c] \in {"agent", "store"} /\ UNCHANGED <<run, versions>>
        /\ \E next \in {"store", "done", "failed"} : pc' = [pc EXCEPT ![c] = next]
    BY <1>3 DEF AgentUnavailable, Store, StoreFails, promotion
  <2>2. \A r \in Runs : (pc'[r] = "new" <=> pc[r] = "new") /\ (pc'[r] = "agent" => pc[r] = "agent")
    BY <2>1 DEF ReplayInv, Shape
  <2> QED
    BY <2>1, <2>2, RunsKept
<1>4. ASSUME NEW c \in Cases, NEW payload \in Payloads, StartCase(c, payload)
      PROVE  RunsInv'
  BY <1>4, RunsStart
<1>5. ASSUME NEW c \in Cases, Propose(c)
      PROVE  RunsInv'
  BY <1>5, RunsPropose
<1>6. ASSUME NEW r \in Replays, NEW c \in Runs, NEW pinned \in BOOLEAN, Replay(r, c, pinned)
      PROVE  RunsInv'
  BY <1>6, RunsReplay
<1> QED
  BY <1>1, <1>2, <1>3, <1>4, <1>5, <1>6 DEF Next

LEMMA RunsInit == Init => RunsInv
<1> SUFFICES ASSUME Init
             PROVE  RunsInv
  OBVIOUS
<1>1. \A r \in Runs : pc[r] = "new" /\ run[r] = NoRun
  BY DEF Init
<1>2. NoRun.version = 0 /\ NoRun.action \in Actions
  BY DEF NoRun, DefaultAction, Actions, AllowedActions
<1> QED
  BY <1>1, <1>2 DEF RunsInv

\* A stored decision is that of the best rule of the run's own version, for any
\* rules, promotions and failures; where none matches it is the default or an
\* action of the workflow's that the agent has chosen.
THEOREM DecidedByVersion == Spec => []DecidedByItsVersion
<1>1. ASSUME ReplayInv, RulesInv, RunsInv
      PROVE  DecidedByItsVersion
  <2> SUFFICES ASSUME NEW r \in Runs, Has(r, "decision")
               PROVE  LET matching == {s \in ToSet(versions[run[r].version]) :
                                         Matches(s, run[r].payload)}
                      IN IF matching = {}
                         THEN run[r].by # "rule" /\ run[r].action \in AllowedActions
                         ELSE /\ run[r].by = "rule"
                              /\ \E best \in matching :
                                   /\ run[r].action = best.action
                                   /\ \A s \in matching \ {best} :
                                        IF s.scope = best.scope THEN best.id < s.id
                                        ELSE best.scope = "case"
    BY DEF DecidedByItsVersion
  <2> DEFINE m == versions[run[r].version]
             matching == {s \in ToSet(m) : Matches(s, run[r].payload)}
             decided == Evaluate(m, run[r].payload)
  <2>1. pc[r] # "new" /\ run[r].version \in DOMAIN versions
    BY <1>1, HasRows DEF ReplayInv, Begun
  <2>2. Sorted(m) /\ \A s \in ToSet(m) : IsRule(s)
    BY <1>1, <2>1 DEF RulesInv, Made
  <2>3. IF run[r].by = "agent" THEN decided.by = "default" /\ run[r].action \in AllowedActions
        ELSE run[r].by = decided.by /\ run[r].action = decided.action
    BY <1>1, <2>1 DEF RunsInv, Evaluated
  <2>4. IF matching = {} THEN decided.by = "default" /\ decided.action = DefaultAction
        ELSE /\ decided.by = "rule"
             /\ \E best \in matching :
                  /\ decided.action = best.action
                  /\ \A s \in matching \ {best} :
                       IF s.scope = best.scope THEN best.id < s.id ELSE best.scope = "case"
    BY <2>2, BestRule
  <2>5. DefaultAction \in AllowedActions
    BY DEF DefaultAction, AllowedActions
  <2> HIDE DEF decided, matching
  <2>6. IF matching = {} THEN run[r].by # "rule" /\ run[r].action \in AllowedActions
        ELSE /\ run[r].by = "rule"
             /\ \E best \in matching :
                  /\ run[r].action = best.action
                  /\ \A s \in matching \ {best} :
                       IF s.scope = best.scope THEN best.id < s.id ELSE best.scope = "case"
    BY <2>3, <2>4, <2>5
  <2> QED
    BY <2>6 DEF matching
<1> QED
  BY <1>1, ReplayInit, ReplayNext, RulesInit, RulesNext, RunsInit, RunsNext, PTL
     DEF Spec, ReplayInv

\* How many of a run's rows are stored, by where it is; and the rest's types.
RowsInv ==
  /\ rows \in [Runs -> 0..2]
  /\ \A r \in Runs : pc[r] \in {"new", "agent"} => rows[r] = 0
  /\ \A r \in Runs : pc[r] = "store" => rows[r] <= 1
  /\ approved \subseteq Cases
  /\ disturbed \in BOOLEAN /\ failures \in 0..MaxFailures

LEMMA RowsNext == ReplayInv /\ RowsInv /\ [Next]_vars => RowsInv'
<1> SUFFICES ASSUME ReplayInv, RowsInv, [Next]_vars
             PROVE  RowsInv'
  OBVIOUS
<1>t. pc \in [Runs -> {"new", "agent", "store", "done", "failed"}]
  BY DEF ReplayInv, Shape
<1>1. disturbed' \in BOOLEAN /\ failures' \in 0..MaxFailures /\ approved' \subseteq Cases
  <2>1. failures' = failures \/ Fails
    BY DEF Next, vars, promotion, case, Promote, CreateRule, Publish, PromotionFails,
       StartCase, Propose, AgentUnavailable, Store, StoreFails, Approve, Replay
  <2>2. \/ disturbed' = disturbed \/ disturbed' = TRUE
        \/ disturbed' = (disturbed \/ InFlight # {})
    BY DEF Next, vars, promotion, case, Promote, CreateRule, Publish, PromotionFails,
       StartCase, Propose, AgentUnavailable, Store, StoreFails, Approve, Replay
  <2>3. failures' \in 0..MaxFailures
    <3>1. failures \in 0..MaxFailures /\ MaxFailures \in Nat
      BY DecisionsAssumption DEF RowsInv
    <3> QED
      BY <2>1, <3>1 DEF Fails
  <2>4. disturbed' \in BOOLEAN
    BY <2>2 DEF RowsInv
  <2>5. approved' = approved \/ \E c \in Cases : approved' = approved \cup {c}
    BY DEF Next, vars, promotion, case, Promote, CreateRule, Publish, PromotionFails,
       StartCase, Propose, AgentUnavailable, Store, StoreFails, Approve, Replay
  <2>6. approved' \subseteq Cases
    BY <2>5 DEF RowsInv
  <2> QED
    BY <2>3, <2>4, <2>6
<1>2. ASSUME UNCHANGED rows,
             \A r \in Runs : pc'[r] \in {"new", "agent"} => pc[r] \in {"new", "agent"},
             \A r \in Runs : pc'[r] = "store" => pc[r] \in {"new", "agent", "store"}
      PROVE  RowsInv'
  BY <1>1, <1>2 DEF RowsInv
<1>3. ASSUME NEW c \in Cases, Store(c)
      PROVE  RowsInv'
  <2>1. /\ c \in Runs /\ pc[c] = "store" /\ rows' = [rows EXCEPT ![c] = @ + 1]
        /\ pc' = [pc EXCEPT ![c] = IF rows'[c] = 2 THEN "done" ELSE "store"]
    BY <1>3 DEF Store, Runs, Rows
  <2>2. rows[c] \in 0..1 /\ rows'[c] = rows[c] + 1
    BY <2>1 DEF RowsInv
  <2>3. rows' \in [Runs -> 0..2]
    BY <2>1, <2>2 DEF RowsInv
  <2>4. \A r \in Runs \ {c} : pc'[r] = pc[r] /\ rows'[r] = rows[r]
    BY <1>t, <2>1 DEF RowsInv
  <2>5. pc'[c] \in {"done", "store"} /\ (pc'[c] = "store" => rows'[c] <= 1)
    BY <1>t, <2>1, <2>2
  <2> QED
    BY <1>1, <2>3, <2>4, <2>5 DEF RowsInv
<1>4. ASSUME NEW r \in Replays, NEW c \in Runs, NEW pinned \in BOOLEAN, Replay(r, c, pinned)
      PROVE  RowsInv'
  <2>1. /\ r \in Runs /\ rows' = [rows EXCEPT ![r] = 1] /\ pc' = [pc EXCEPT ![r] = "done"]
    BY <1>4 DEF Replay, Runs
  <2> QED
    BY <1>1, <1>t, <2>1 DEF RowsInv
<1>5. ASSUME NEW c \in Cases,
             \/ \E payload \in Payloads : StartCase(c, payload)
             \/ Propose(c) \/ AgentUnavailable(c) \/ StoreFails(c)
      PROVE  RowsInv'
  <2>1. /\ UNCHANGED rows /\ c \in Runs
        /\ \/ pc[c] = "new" /\ \E next \in {"store", "agent"} : pc' = [pc EXCEPT ![c] = next]
           \/ pc[c] = "agent" /\ pc' = [pc EXCEPT ![c] = "store"]
           \/ pc' = [pc EXCEPT ![c] = "failed"]
    BY <1>5 DEF StartCase, Propose, AgentUnavailable, StoreFails, Runs
  <2>2. /\ \A r \in Runs : pc'[r] \in {"new", "agent"} => pc[r] \in {"new", "agent"}
        /\ \A r \in Runs : pc'[r] = "store" => pc[r] \in {"new", "agent", "store"}
    BY <1>t, <2>1
  <2> QED
    BY <1>2, <2>1, <2>2
<1>6. ASSUME UNCHANGED <<rows, pc>>
      PROVE  RowsInv'
  BY <1>2, <1>6
<1> QED
  BY <1>3, <1>4, <1>5, <1>6 DEF Next, vars, case, Promote, CreateRule, Publish,
     PromotionFails, Approve

LEMMA RowsInit == Init => RowsInv
<1> SUFFICES ASSUME Init
             PROVE  RowsInv
  OBVIOUS
<1>1. rows \in [Runs -> 0..2] /\ \A r \in Runs : pc[r] = "new" /\ rows[r] = 0
  BY DEF Init
<1>2. approved \subseteq Cases /\ disturbed \in BOOLEAN
  BY DEF Init
<1>3. failures \in 0..MaxFailures
  <2>1. failures = 0
    BY DEF Init
  <2>2. MaxFailures \in Nat
    BY DecisionsAssumption
  <2> QED
    BY <2>1, <2>2
<1> QED
  BY <1>1, <1>2, <1>3 DEF RowsInv

\* Every variable keeps its type: versions list rules that promotions have made,
\* a run has a version that exists, and no row is stored twice.
THEOREM TypeCorrect == Spec => []TypeOK
<1>1. ASSUME ReplayInv, RulesInv, RunsInv, RowsInv
      PROVE  TypeOK
  <2>1. \A q \in Promotions : ppc[q] # "new" => rule[q].action \in Actions /\ rule[q].scope \in Scopes
    BY <1>1 DEF RulesInv, IsRule
  <2>2. \A v \in DOMAIN versions : \A i \in DOMAIN versions[v] :
          versions[v][i] \in {rule[q] : q \in Promotions}
    <3> TAKE v \in DOMAIN versions
    <3> TAKE i \in DOMAIN versions[v]
    <3>1. versions[v][i] \in ToSet(versions[v]) /\ ToSet(versions[v]) \subseteq Made
      BY <1>1 DEF RulesInv, ToSet
    <3> QED
      BY <3>1 DEF Made
  <2>3. ASSUME NEW r \in Runs
        PROVE  /\ run[r].payload \in Payloads /\ run[r].action \in Actions
               /\ run[r].by \in {"rule", "agent", "default"} /\ run[r].of \subseteq Runs
               /\ IF pc[r] = "new" THEN run[r].version = 0 ELSE run[r].version \in DOMAIN versions
    <3>1. PICK actions : run \in [Runs -> Run(actions)]
      BY <1>1 DEF ReplayInv, Shape
    <3>2. run[r] \in Run(actions)
      BY <3>1
    <3>3. run[r].action \in Actions /\ (pc[r] = "new" => run[r].version = 0)
      BY <1>1 DEF RunsInv
    <3>4. pc[r] # "new" => run[r].version \in DOMAIN versions
      BY <1>1 DEF ReplayInv, Begun
    <3> QED
      BY <3>2, <3>3, <3>4 DEF Run
  <2> QED
    BY <1>1, <2>1, <2>2, <2>3 DEF TypeOK, ReplayInv, Shape, RulesInv, RowsInv
<1> QED
  BY <1>1, ReplayInit, ReplayNext, RulesInit, RulesNext, RunsInit, RunsNext,
     RowsInit, RowsNext, PTL DEF Spec, ReplayInv
=============================================================================
