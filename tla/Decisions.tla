------------------------------- MODULE Decisions -------------------------------
(***************************************************************************)
(* How a case is decided (StartCase, ReplayCase and evaluateDecision in    *)
(* internal/app/app.go, internal/app/rules.go): the first rule that matches*)
(* in the active skill version, or else the agent, or else the workflow's  *)
(* default; next to promotions that publish new versions, to replays and   *)
(* to approvals, which open the gate for final writes.  One tenant owns the*)
(* cases, of the workflow quote_drafting.  A step is a store call or the   *)
(* call of the agent; a promotion's races are in Learning.tla, a message's *)
(* in Ingest.tla and an approval's in Replies.tla.                         *)
(***************************************************************************)
EXTENDS Naturals, Sequences, SequencesExt, FiniteSets

CONSTANTS Cases, Replays,  \* runs of StartCase and of ReplayCase
          Promotions,
          Sayings,         \* what operators say in corrections
          Photos, Clients, \* what fixtures have for photos_complete, client_type
          MaxFailures      \* store errors and crashes

ASSUME DecisionsAssumption ==
  /\ Cases \cap Replays = {} /\ IsFiniteSet(Promotions)
  /\ Sayings \subseteq {"no gst", "commercial template", "go ahead", "repeat", "photos"}
  /\ Photos \subseteq {"true", "false"} /\ Clients \subseteq {"new", "repeat"}
  /\ MaxFailures \in Nat

VARIABLES
  ppc, rule, \* promotions: where they are, and the rule each makes
  versions,  \* the rule manifests of the skill versions; the last is active
  pc, run,   \* where a run is, and what it will store or has stored
  rows,      \* how many of the run's rows are stored
  approved,  \* decisions with an approval_received event
  \* History and bounds.
  disturbed, \* have promotions overlapped, or has one failed?
  failures

promotion == <<ppc, rule, versions, disturbed>>
case == <<pc, run, rows>>
vars == <<promotion, case, approved, failures>>

Runs == Cases \cup Replays

\* allowedActions and workflowDecision.
AllowedActions == {"send_quote", "hold_and_request_more_info", "use_corporate_template"}
DefaultAction == "send_quote"
Actions == AllowedActions \cup {"apply_no_gst"}

\* The fields conditions are about, as text; "" for one the payload lacks.
Payload(photos, client) ==
  [photos_complete |-> photos, client_type |-> client,
   enquiry_type |-> "", supplier_country |-> ""]

\* A customer's message has none of them (payloadFromIngestionEvent); fixtures do.
Payloads == {Payload("", "")} \cup
            {Payload(photos, client) : photos \in Photos, client \in Clients}

Scopes == {"case", "tenant"}

Steps == {"new", "create", "publish", "active", "deprecated", "failed"}

NoRun == [payload |-> Payload("", ""), version |-> 0, action |-> DefaultAction,
          by |-> "default", of |-> {}, pinned |-> FALSE]

TypeOK ==
  /\ ppc \in [Promotions -> Steps]
  /\ \A q \in Promotions : ppc[q] # "new" =>
       rule[q].action \in Actions /\ rule[q].scope \in Scopes
  /\ \A v \in DOMAIN versions : \A i \in DOMAIN versions[v] :
       versions[v][i] \in {rule[q] : q \in Promotions}
  /\ pc \in [Runs -> {"new", "agent", "store", "done", "failed"}]
  /\ rows \in [Runs -> 0..2]
  /\ \A r \in Runs :
       /\ run[r].payload \in Payloads /\ run[r].action \in Actions
       /\ run[r].by \in {"rule", "agent", "default"} /\ run[r].of \subseteq Runs
       /\ IF pc[r] = "new" THEN run[r].version = 0 ELSE run[r].version \in DOMAIN versions
  /\ approved \subseteq Cases
  /\ disturbed \in BOOLEAN /\ failures \in 0..MaxFailures

\* As provisioned: version 1 without rules.
Init ==
  /\ ppc = [q \in Promotions |-> "new"]
  /\ rule = [q \in Promotions |-> [id |-> 0]]
  /\ versions = << <<>> >>
  /\ pc = [r \in Runs |-> "new"]
  /\ run = [r \in Runs |-> NoRun]
  /\ rows = [r \in Runs |-> 0]
  /\ approved = {}
  /\ disturbed = FALSE /\ failures = 0

Fails == failures < MaxFailures /\ failures' = failures + 1

-----------------------------------------------------------------------------
(* Rules                                                                   *)

\* Mutation of Rows: the packet is stored once more.
RowsRepeated == <<"decision", "packet", "packet">>

\* What StartCase stores: the run with its decision, and, after the artifacts,
\* the packet.  The single rows are in Ingest.tla.
Rows == <<"decision", "packet">>
Has(r, row) == \E i \in 1..rows[r] : Rows[i] = row

Is(field, value) == [field |-> field, operator |-> "=", value |-> value]

\* boolValue and stringValue of a field, with what they take a missing one for.
Value(payload, field, fallback) ==
  IF payload[field] = "" THEN fallback ELSE payload[field]

\* structuredRuleFromCorrection: the conditions and the action that a saying
\* about a case stands for.
Taught(saying, payload) ==
  LET photos == Is("photos_complete", Value(payload, "photos_complete", "false"))
      client == Is("client_type", Value(payload, "client_type", "new"))
  IN CASE saying = "no gst" ->
            [action |-> "apply_no_gst",
             conditions |-> {[field |-> "supplier_country", operator |-> "!=", value |-> "AU"]}]
       [] saying = "commercial template" ->
            [action |-> "use_corporate_template",
             conditions |-> {Is("enquiry_type", "commercial")}]
       [] saying = "go ahead" ->
            [action |-> "send_quote", conditions |-> {photos, client}]
       [] saying = "repeat" ->
            [action |-> "send_quote", conditions |-> {photos, Is("client_type", "repeat")}]
       [] saying = "photos" ->
            [action |-> "hold_and_request_more_info",
             conditions |-> {Is("photos_complete", "false"), client}]

\* A field the payload lacks is different from every value.
Holds(condition, payload) ==
  IF condition.operator = "=" THEN payload[condition.field] = condition.value
  ELSE payload[condition.field] # condition.value

\* conditionsMatch.
Matches(r, payload) == \A condition \in r.conditions : Holds(condition, payload)

ScopePriority(scope) == IF scope = "case" THEN 4 ELSE 3

\* Mutation of Precedes: the wider scope comes first.
PrecedesWider(r, s) ==
  \/ ScopePriority(r.scope) < ScopePriority(s.scope)
  \/ r.scope = s.scope /\ r.id < s.id

\* The order of a manifest: priority, then rule id.
Precedes(r, s) ==
  \/ ScopePriority(r.scope) > ScopePriority(s.scope)
  \/ r.scope = s.scope /\ r.id < s.id

Manifest(rules) ==
  CHOOSE s \in SetToSeqs(rules) : \A i, j \in DOMAIN s : i < j => Precedes(s[i], s[j])

\* evaluateDecision: the first rule of the manifest that matches.
Evaluate(manifest, payload) ==
  LET first == SelectInSeq(manifest, LAMBDA r : Matches(r, payload))
  IN IF first = 0 THEN [action |-> DefaultAction, by |-> "default"]
     ELSE [action |-> manifest[first].action, by |-> "rule"]

-----------------------------------------------------------------------------
(* Promotions                                                              *)

InFlight == {q \in Promotions : ppc[q] \in {"create", "publish"}}

Active == {q \in Promotions : ppc[q] \in {"publish", "active"}}

\* Mutation of Superseded: every rule of the decision type.
SupersededAll(conditions) == Active

\* The active rule for the same conditions.
Superseded(conditions) == {p \in Active : rule[p].conditions = conditions}

\* A candidate that corrections of a case have led to is promoted, and
\* DeprecateActiveRule takes its predecessor away.  Rule ids are random: they
\* sort in any order.
Promote(q, c) ==
  /\ ppc[q] = "new" /\ Has(c, "packet")
  /\ \E saying \in Sayings, scope \in Scopes, id \in 1..Cardinality(Promotions) :
       LET taught == Taught(saying, run[c].payload)
       IN /\ \A p \in Promotions : rule[p].id # id
          /\ rule' = [rule EXCEPT ![q] =
                        [id |-> id, scope |-> scope, action |-> taught.action,
                         conditions |-> taught.conditions]]
          /\ ppc' = [p \in Promotions |->
                       IF p = q THEN "create"
                       ELSE IF p \in Superseded(taught.conditions) THEN "deprecated"
                       ELSE ppc[p]]
  /\ disturbed' = (disturbed \/ InFlight # {})
  /\ UNCHANGED <<versions, case, approved, failures>>

\* CreateValidatedRule, and SaveCandidate.
CreateRule(q) ==
  /\ ppc[q] = "create"
  /\ ppc' = [ppc EXCEPT ![q] = "publish"]
  /\ UNCHANGED <<rule, versions, disturbed, case, approved, failures>>

\* createSkillVersion: a new version of the active rules.
Publish(q) ==
  /\ ppc[q] = "publish"
  /\ ppc' = [ppc EXCEPT ![q] = "active"]
  /\ versions' = Append(versions, Manifest({rule[p] : p \in Active}))
  /\ UNCHANGED <<rule, disturbed, case, approved, failures>>

\* What was done stays done: a rule that exists is active.
PromotionFails(q) ==
  /\ q \in InFlight /\ Fails
  /\ ppc' = [ppc EXCEPT ![q] = IF q \in Active THEN "active" ELSE "failed"]
  /\ disturbed' = TRUE
  /\ UNCHANGED <<rule, versions, case, approved>>

-----------------------------------------------------------------------------
(* StartCase and ReplayCase                                                *)

\* The active version is read and the case evaluated; the agent, where there
\* is one, is asked only if no rule matched.
StartCase(c, payload) ==
  LET decided == Evaluate(Last(versions), payload)
  IN /\ pc[c] = "new"
     /\ run' = [run EXCEPT ![c] =
                  [NoRun EXCEPT !.payload = payload, !.version = Len(versions),
                                !.action = decided.action, !.by = decided.by]]
     /\ \E next \in {"store"} \cup IF decided.by = "default" THEN {"agent"} ELSE {} :
          pc' = [pc EXCEPT ![c] = next]
     /\ UNCHANGED <<promotion, rows, approved, failures>>

\* Mutation of Accepted: the agent's action is taken as it is.
AcceptedAny(action) == action

\* An action the workflow does not have is replaced by the default, by toResult
\* in internal/agent/deepseek/agent.go and once more by StartCase.
Accepted(action) == IF action \in AllowedActions THEN action ELSE DefaultAction

Propose(c) ==
  /\ pc[c] = "agent"
  /\ \E action \in Actions :
       run' = [run EXCEPT ![c].action = Accepted(action), ![c].by = "agent"]
  /\ pc' = [pc EXCEPT ![c] = "store"]
  /\ UNCHANGED <<promotion, rows, approved, failures>>

\* The agent fails or takes too long: the default stays.
AgentUnavailable(c) ==
  /\ pc[c] = "agent"
  /\ pc' = [pc EXCEPT ![c] = "store"]
  /\ UNCHANGED <<promotion, run, rows, approved, failures>>

\* Mutation of PinnedVersion: the active one.
PinnedVersionActive(c) == Len(versions)

PinnedVersion(c) == run[c].version

\* ReplayCase of a stored run, on its own version or on another one, with the
\* payload of its snapshot.  A replay has no artifacts and no packet.
Replay(r, c, pinned) ==
  /\ pc[r] = "new" /\ Has(c, "decision")
  /\ \E version \in IF pinned THEN {PinnedVersion(c)}
                   ELSE DOMAIN versions \ {run[c].version} :
       LET decided == Evaluate(versions[version], run[c].payload)
       IN run' = [run EXCEPT ![r] =
                    [NoRun EXCEPT !.payload = run[c].payload, !.version = version,
                                  !.action = decided.action, !.by = decided.by,
                                  !.of = {c}, !.pinned = pinned]]
  /\ rows' = [rows EXCEPT ![r] = 1] /\ pc' = [pc EXCEPT ![r] = "done"]
  /\ UNCHANGED <<promotion, approved, failures>>

Store(c) ==
  /\ pc[c] = "store"
  /\ rows' = [rows EXCEPT ![c] = @ + 1]
  /\ pc' = [pc EXCEPT ![c] = IF rows'[c] = Len(Rows) THEN "done" ELSE "store"]
  /\ UNCHANGED <<promotion, run, approved, failures>>

StoreFails(c) ==
  /\ pc[c] \in {"agent", "store"} /\ Fails
  /\ pc' = [pc EXCEPT ![c] = "failed"]
  /\ UNCHANGED <<promotion, run, rows, approved>>

-----------------------------------------------------------------------------
(* Approvals and final writes                                              *)

\* persistApproval.
Approve(c) ==
  /\ Has(c, "packet")
  /\ approved' = approved \cup {c} /\ approved' # approved
  /\ UNCHANGED <<promotion, case, failures>>

\* draftBodyForAction.
DraftForAction(action) ==
  CASE action = "hold_and_request_more_info" -> "photos needed before a quote"
    [] action = "send_quote" -> "the quote will follow"
    [] action = "use_corporate_template" -> "the corporate team will write"
    [] OTHER -> ""

\* buildReviewPacket: the agent's draft, the template if it is empty, or the
\* template if the agent was not asked or had no answer.
PacketDraft(r) ==
  {DraftForAction(run[r].action)} \cup IF run[r].by = "agent" THEN {"by the agent"} ELSE {}

\* draftBodyForRun, for this workflow: what SendApprovedCustomerReply sends.
Reply(r) == "photos needed to size the quote"

\* Mutation of HasApprovalAudit: an approval of the decision, whatever the case.
HasApprovalAuditOfPoint(tenant, r, point) ==
  tenant = "owner" /\ point \in approved

\* The decision of a run is named after it.
HasApprovalAudit(tenant, r, point) ==
  tenant = "owner" /\ r = point /\ point \in approved

Mode(value) == IF value = "live" THEN "live" ELSE "sandbox"

\* CallMCPWriteFinal answers OK and leaves an event: for the tenant that the
\* caller is bound to, with the modes and the header of the request.
WriteFinal(bound, header, serverMode, mode, r, point) ==
  /\ Mode(serverMode) = "live" /\ Mode(mode) = "live"
  /\ header = bound
  /\ HasApprovalAudit(bound, r, point)

-----------------------------------------------------------------------------
Next ==
  \/ \E q \in Promotions :
       \/ \E c \in Cases : Promote(q, c)
       \/ CreateRule(q)
       \/ Publish(q)
       \/ PromotionFails(q)
  \/ \E c \in Cases :
       \/ \E payload \in Payloads : StartCase(c, payload)
       \/ Propose(c)
       \/ AgentUnavailable(c)
       \/ Store(c)
       \/ StoreFails(c)
       \/ Approve(c)
  \/ \E r \in Replays, c \in Runs, pinned \in BOOLEAN : Replay(r, c, pinned)

Spec == Init /\ [][Next]_vars

-----------------------------------------------------------------------------
(* Properties                                                              *)

\* A stored decision is that of the best rule of the skill version the run is
\* pinned to, by scope and then by id, among those that match its payload,
\* although promotions went on meanwhile; only where none matches has the agent
\* been asked, and then the action is one of the workflow's.
DecidedByItsVersion ==
  \A r \in Runs : Has(r, "decision") =>
    LET matching == {s \in ToSet(versions[run[r].version]) : Matches(s, run[r].payload)}
    IN IF matching = {} THEN run[r].by # "rule" /\ run[r].action \in AllowedActions
       ELSE /\ run[r].by = "rule"
            /\ \E best \in matching :
                 /\ run[r].action = best.action
                 /\ \A s \in matching \ {best} :
                      IF s.scope = best.scope THEN best.id < s.id ELSE best.scope = "case"

\* "A re-run reproduces exactly" (ReplayCase): a replay on the run's own version
\* decides as the run did, unless the agent decided that, also if the run was
\* cut short and whatever has been promoted since.
ReplayReproduces ==
  \A r \in Replays : \A c \in run[r].of :
    run[r].pinned => run[c].by = "agent" \/ run[r].action = run[c].action

\* Learning is not forgotten ("spend falls as Victoria learns"): a payload that
\* the rules of a version decide is decided by the rules of every later one,
\* unless promotions overlapped or failed.
LearnedStaysLearned ==
  ~disturbed =>
    \A v, w \in DOMAIN versions, payload \in Payloads :
      v < w /\ Evaluate(versions[v], payload).by = "rule" =>
        Evaluate(versions[w], payload).by = "rule"

\* A final write is let through only for the owner's run and the decision of
\* that run, once the operator has had its packet: never for a replay, for the
\* decision of another case, or across tenants.
WritesAreApproved ==
  \A bound, header \in {"owner", "other"}, r, point \in Runs :
    WriteFinal(bound, header, "live", "live", r, point) =>
      /\ bound = "owner" /\ header = "owner"
      /\ r = point /\ r \in Cases /\ Has(r, "packet")

\* "The real draft it would send" (buildReviewPacket): what goes out after an
\* approval is the draft the packet showed.
ApprovedDraftIsSent == \A c \in approved : Reply(c) \in PacketDraft(c)
=============================================================================
