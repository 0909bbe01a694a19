-------------------------------- MODULE Replies --------------------------------
(***************************************************************************)
(* An operator's replies to one review packet (Gateway.ReceiveInbound in   *)
(* internal/app/gateway.go, persistSignal, persistApproval,                *)
(* persistCorrection and SendApprovedCustomerReply in app.go).  The channel*)
(* may deliver a message several times and several messages at once; a     *)
(* delivery d is handled by one goroutine, and one step is one store call  *)
(* or one send.  Events that only inform are left out: an error in writing *)
(* one is an error of the step that follows.  What mergeCandidate does     *)
(* with a correction is in Learning.tla.                                   *)
(***************************************************************************)
EXTENDS Naturals, FiniteSets

CONSTANTS Messages,     \* the operator's messages that answer the packet
          Deliveries,   \* deliveries of them
          MaxFailures   \* store errors, failed sends and crashes

ASSUME RepliesAssumption == MaxFailures \in Nat /\ IsFiniteSet(Deliveries)

VARIABLES
  \* What does not change.
  button,      \* a message's action, "correct" for the five correction buttons
  mode,        \* the WhatsApp binding's inbound mode, or no such binding
  \* The store.
  signals,     \* messages whose signal is marked seen
  approval,    \* is the approval_received event of the case there?
  point, case, \* the status of the decision point and of the case run
  corrections, \* messages stored as corrections
  reply,       \* the outbound_to_customer row
  resolved,    \* messages with a correction_resolved_at_gateway event
  \* The deliveries.
  pc, about,   \* where they are, and the message ({} or a singleton)
  expired,     \* is the packet past its ExpiresAt?
  \* History and bounds.
  merges,      \* how often mergeCandidate ran for a message
  sent,        \* how often WhatsApp took the reply to the customer
  latest,      \* the message whose signal was marked last ({} or a singleton)
  overlapped,  \* deliveries that ran while another one ran
  failures

facts == <<button, mode>>
statuses == <<point, case>>
delivery == <<about, expired, overlapped>>
vars == <<facts, signals, approval, statuses, corrections, reply, resolved, pc,
          delivery, merges, sent, latest, failures>>

Steps == {"new", "check", "mark", "audit", "create", "point", "case", "merge",
          "reply", "queue", "send", "sent", "resolve", "done", "failed"}

TypeOK ==
  /\ button \in [Messages -> {"approve", "correct"}]
  /\ mode \in {"read_only", "full_control", "unbound"}
  /\ signals \subseteq Messages /\ corrections \subseteq Messages
  /\ resolved \subseteq Messages /\ latest \subseteq Messages
  /\ approval \in BOOLEAN /\ expired \in BOOLEAN
  /\ point \in {"waiting_for_approval", "approved", "corrected"}
  /\ case \in {"waiting_for_approval", "approved", "corrected"}
  /\ reply \in {"none", "queued", "sent"}
  /\ pc \in [Deliveries -> Steps]
  /\ about \in [Deliveries -> SUBSET Messages]
  /\ merges \in [Messages -> Nat]
  /\ sent \in Nat
  /\ overlapped \subseteq Deliveries
  /\ failures \in 0..MaxFailures

Init ==
  /\ button \in [Messages -> {"approve", "correct"}]
  /\ mode \in {"read_only", "full_control", "unbound"}
  /\ signals = {} /\ corrections = {} /\ resolved = {} /\ latest = {}
  /\ approval = FALSE /\ expired = FALSE
  /\ point = "waiting_for_approval" /\ case = "waiting_for_approval"
  /\ reply = "none"
  /\ pc = [d \in Deliveries |-> "new"]
  /\ about = [d \in Deliveries |-> {}]
  /\ merges = [m \in Messages |-> 0]
  /\ sent = 0 /\ overlapped = {} /\ failures = 0

-----------------------------------------------------------------------------
GoTo(d, step) == pc' = [pc EXCEPT ![d] = step]

InFlight == {d \in Deliveries : pc[d] \notin {"new", "done", "failed"}}

Fails == failures < MaxFailures /\ failures' = failures + 1

Message(d) == CHOOSE m \in Messages : m \in about[d]

\* Mutation of StatusOf: the button is stored for the status.
StatusOfButton(m) == button[m]

StatusOf(m) == IF button[m] = "approve" THEN "approved" ELSE "corrected"

\* Mutation of After: the statuses are set before the approval is recorded.
AfterUnaudited(step, m) ==
  CASE step = "mark" -> IF button[m] = "approve" THEN "point" ELSE "create"
    [] step = "audit" -> "reply"
    [] step = "create" -> "point"
    [] step = "point" -> "case"
    [] step = "case" -> IF button[m] = "approve" THEN "audit" ELSE "merge"
    [] OTHER -> "resolve"

\* Mutation of After: the case run keeps its status.
AfterPointOnly(step, m) ==
  CASE step = "mark" -> IF button[m] = "approve" THEN "audit" ELSE "create"
    [] step \in {"audit", "create"} -> "point"
    [] step = "point" -> IF button[m] = "approve" THEN "reply" ELSE "merge"
    [] OTHER -> "resolve"

\* The order of persistApproval and of persistCorrection.
After(step, m) ==
  CASE step = "mark" -> IF button[m] = "approve" THEN "audit" ELSE "create"
    [] step \in {"audit", "create"} -> "point"
    [] step = "point" -> "case"
    [] step = "case" -> IF button[m] = "approve" THEN "reply" ELSE "merge"
    [] OTHER -> "resolve"

-----------------------------------------------------------------------------
(* ReceiveInbound and persistSignal                                        *)

Receive(d, m) ==
  /\ pc[d] = "new"
  /\ about' = [about EXCEPT ![d] = {m}]
  /\ overlapped' = IF InFlight = {} THEN overlapped
                   ELSE overlapped \cup InFlight \cup {d}
  /\ GoTo(d, IF expired THEN "failed" ELSE "check")
  /\ UNCHANGED <<facts, signals, approval, statuses, corrections, reply,
                 resolved, expired, merges, sent, latest, failures>>

\* Mutation of AlreadySeen: one signal per packet, not one per message.
AlreadySeenAny(d) == signals # {}

\* The signal's id is a hash of the packet, the button and the message.
AlreadySeen(d) == Message(d) \in signals

SeenSignal(d) ==
  /\ pc[d] = "check"
  /\ GoTo(d, IF AlreadySeen(d) THEN "resolve" ELSE "mark")
  /\ UNCHANGED <<facts, signals, approval, statuses, corrections, reply,
                 resolved, delivery, merges, sent, latest, failures>>

MarkSignalSeen(d) ==
  /\ pc[d] = "mark"
  /\ signals' = signals \cup about[d]
  /\ latest' = about[d]
  /\ GoTo(d, After("mark", Message(d)))
  /\ UNCHANGED <<facts, approval, statuses, corrections, reply, resolved,
                 delivery, merges, sent, failures>>

UpdateDecisionPointStatus(d) ==
  /\ pc[d] = "point"
  /\ point' = StatusOf(Message(d))
  /\ GoTo(d, After("point", Message(d)))
  /\ UNCHANGED <<facts, signals, approval, case, corrections, reply, resolved,
                 delivery, merges, sent, latest, failures>>

UpdateCaseRunStatus(d) ==
  /\ pc[d] = "case"
  /\ case' = StatusOf(Message(d))
  /\ GoTo(d, After("case", Message(d)))
  /\ UNCHANGED <<facts, signals, approval, point, corrections, reply, resolved,
                 delivery, merges, sent, latest, failures>>

Resolve(d) ==
  /\ pc[d] = "resolve"
  /\ resolved' = resolved \cup about[d]
  /\ GoTo(d, "done")
  /\ UNCHANGED <<facts, signals, approval, statuses, corrections, reply,
                 delivery, merges, sent, latest, failures>>

-----------------------------------------------------------------------------
(* persistCorrection                                                       *)

\* Mutation of IsDuplicate: a correction is created again.
IsDuplicateNever(d) == FALSE

\* CreateCorrection: one row per message.
IsDuplicate(d) == Message(d) \in corrections

CreateCorrection(d) ==
  /\ pc[d] = "create"
  /\ corrections' = corrections \cup about[d]
  /\ GoTo(d, IF IsDuplicate(d) THEN "resolve" ELSE After("create", Message(d)))
  /\ UNCHANGED <<facts, signals, approval, statuses, reply, resolved, delivery,
                 merges, sent, latest, failures>>

MergeCandidate(d) ==
  /\ pc[d] = "merge"
  /\ merges' = [merges EXCEPT ![Message(d)] = @ + 1]
  /\ GoTo(d, After("merge", Message(d)))
  /\ UNCHANGED <<facts, signals, approval, statuses, corrections, reply,
                 resolved, delivery, sent, latest, failures>>

-----------------------------------------------------------------------------
(* persistApproval and SendApprovedCustomerReply                           *)

\* One approval_received event per case and decision point.
AuditApproval(d) ==
  /\ pc[d] = "audit"
  /\ approval' = TRUE
  /\ GoTo(d, After("audit", Message(d)))
  /\ UNCHANGED <<facts, signals, statuses, corrections, reply, resolved,
                 delivery, merges, sent, latest, failures>>

\* Without a binding there is nothing to send.  In read_only mode the draft
\* goes to the operator, connected or not; its failure is StepFails.
\* In full_control mode the reply needs the approval event.
ChooseReply(d) ==
  /\ pc[d] = "reply"
  /\ GoTo(d, IF mode # "full_control" THEN "resolve"
             ELSE IF approval THEN "queue" ELSE "failed")
  /\ UNCHANGED <<facts, signals, approval, statuses, corrections, reply,
                 resolved, delivery, merges, sent, latest, failures>>

\* Mutation of AlreadySent: the stored row's status is not looked at.
AlreadySentIgnored == FALSE

AlreadySent == reply = "sent"

\* UpsertOutboundToCustomer with status queued, which changes no row.
QueueReply(d) ==
  /\ pc[d] = "queue"
  /\ reply' = IF reply = "none" THEN "queued" ELSE reply
  /\ GoTo(d, IF AlreadySent THEN "resolve" ELSE "send")
  /\ UNCHANGED <<facts, signals, approval, statuses, corrections, resolved,
                 delivery, merges, sent, latest, failures>>

SendReply(d) ==
  /\ pc[d] = "send"
  /\ sent' = sent + 1
  /\ GoTo(d, "sent")
  /\ UNCHANGED <<facts, signals, approval, statuses, corrections, reply,
                 resolved, delivery, merges, latest, failures>>

\* No adapter or no session: the approval succeeds, the row stays queued.
NotConnected(d) ==
  /\ pc[d] = "send"
  /\ GoTo(d, "resolve")
  /\ UNCHANGED <<facts, signals, approval, statuses, corrections, reply,
                 resolved, delivery, merges, sent, latest, failures>>

MarkReplySent(d) ==
  /\ pc[d] = "sent"
  /\ reply' = "sent"
  /\ GoTo(d, "resolve")
  /\ UNCHANGED <<facts, signals, approval, statuses, corrections, resolved,
                 delivery, merges, sent, latest, failures>>

-----------------------------------------------------------------------------
\* A store error or a failed send; the channel may deliver the message again.
StepFails(d) ==
  /\ d \in InFlight /\ Fails
  /\ GoTo(d, "failed")
  /\ UNCHANGED <<facts, signals, approval, statuses, corrections, reply,
                 resolved, delivery, merges, sent, latest>>

\* The process dies with every delivery it was handling.
Crash ==
  /\ InFlight # {} /\ Fails
  /\ pc' = [d \in Deliveries |-> IF d \in InFlight THEN "failed" ELSE pc[d]]
  /\ UNCHANGED <<facts, signals, approval, statuses, corrections, reply,
                 resolved, delivery, merges, sent, latest>>

Expire ==
  /\ ~expired /\ expired' = TRUE
  /\ UNCHANGED <<facts, signals, approval, statuses, corrections, reply,
                 resolved, pc, about, overlapped, merges, sent, latest, failures>>

Delivery(d) ==
  \/ \E m \in Messages : Receive(d, m)
  \/ SeenSignal(d)
  \/ MarkSignalSeen(d)
  \/ UpdateDecisionPointStatus(d)
  \/ UpdateCaseRunStatus(d)
  \/ Resolve(d)
  \/ CreateCorrection(d)
  \/ MergeCandidate(d)
  \/ AuditApproval(d)
  \/ ChooseReply(d)
  \/ QueueReply(d)
  \/ SendReply(d)
  \/ NotConnected(d)
  \/ MarkReplySent(d)
  \/ StepFails(d)

Next == (\E d \in Deliveries : Delivery(d)) \/ Crash \/ Expire

Spec == Init /\ [][Next]_vars

-----------------------------------------------------------------------------
(* Properties                                                              *)

\* Nothing is approved, and nothing is sent to the customer, without the
\* approval event; nothing is corrected without a stored correction, and only
\* a stored correction is learnt from; also after a crash at any point.
EffectsHaveEvidence ==
  /\ "approved" \in {point, case} \/ sent > 0 => approval
  /\ "corrected" \in {point, case} => corrections # {}
  /\ sent > 0 => mode = "full_control"
  /\ reply = "sent" => sent > 0
  /\ \A m \in Messages : merges[m] > 0 => m \in corrections

\* "Correction-level idempotency already prevents the same correction from
\* merging twice", also when deliveries of the message run at the same time and
\* all find its signal unseen.
MergedAtMostOnce == \A m \in Messages : merges[m] <= 1

Handled(m) == \A d \in InFlight : about[d] # {m}

TookEffect(m) ==
  IF button[m] = "approve" THEN approval
                           ELSE m \in corrections /\ merges[m] = 1

\* As long as nothing fails, a message the gateway resolved took effect once no
\* delivery of it runs: no duplicate suppresses the delivery that does the work.
ResolvedTookEffect ==
  failures = 0 => \A m \in resolved : Handled(m) => TookEffect(m)

\* Messages handled one after the other without a failure: the last new one
\* decides the status of the decision point and of the case, in agreement;
\* duplicates of earlier messages change nothing.
LastReplyDecides ==
  overlapped = {} /\ failures = 0 /\ InFlight = {} =>
    \A m \in latest : point = StatusOf(m) /\ case = StatusOf(m)

\* The customer gets the reply once, however many approvals arrive: each further
\* transmission takes a failure between an earlier one and its record, or one
\* more handler that overlaps with others.
ReplySentOnce ==
  sent <= 1 + failures + (IF overlapped = {} THEN 0 ELSE Cardinality(overlapped) - 1)
===============================================================================
