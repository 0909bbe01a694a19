-------------------------------- MODULE Ingest --------------------------------
(***************************************************************************)
(* The ingestion of one customer message (IngestCustomerMessageWithPacket  *)
(* and StartCase in internal/app/app.go), delivered several times by the   *)
(* channel.  A delivery d is handled by one goroutine; one step is one     *)
(* store call, or the hand-over of the review packet to the gateway        *)
(* (OutboundQueue.tla).  The case a delivery starts is named after it.     *)
(***************************************************************************)
EXTENDS Naturals, FiniteSets

CONSTANTS Deliveries,   \* deliveries of the message, the first and the retries
          MaxFailures   \* store errors and crashes

ASSUME IngestAssumption == MaxFailures \in Nat

VARIABLES
  stored,      \* does customer_messages have the row?
  status,      \* its status
  recorded,    \* its case_run_id, {} when empty
  parts,       \* what exists of the case a delivery starts
  audited,     \* the customer_message_received event
  pc,          \* where a delivery is
  answer,      \* the case it returned, {} before that
  overlapped,  \* deliveries that ran while another one ran
  failures

row == <<stored, status, recorded>>
vars == <<row, parts, audited, pc, answer, overlapped, failures>>

\* The rows of a case, in the order StartCase creates them.
Parts == {"run", "decision", "artifact", "snapshot", "packet"}
Starting == Parts
Steps == Starting \cup {"new", "give_up", "record", "audit", "done", "failed"}

TypeOK ==
  /\ stored \in BOOLEAN /\ audited \in BOOLEAN
  /\ status \in {"ingested", "failed"}
  /\ recorded \subseteq Deliveries
  /\ parts \in [Deliveries -> SUBSET Parts]
  /\ pc \in [Deliveries -> Steps]
  /\ answer \in [Deliveries -> SUBSET Deliveries]
  /\ overlapped \subseteq Deliveries
  /\ failures \in 0..MaxFailures

Init ==
  /\ stored = FALSE /\ status = "ingested" /\ recorded = {}
  /\ parts = [d \in Deliveries |-> {}]
  /\ audited = FALSE
  /\ pc = [d \in Deliveries |-> "new"]
  /\ answer = [d \in Deliveries |-> {}]
  /\ overlapped = {} /\ failures = 0

-----------------------------------------------------------------------------
GoTo(d, step) == pc' = [pc EXCEPT ![d] = step]

\* Mutation of Return: the step is returned for the case.
ReturnStep(d, case) ==
  /\ GoTo(d, "done")
  /\ answer' = [answer EXCEPT ![d] = {pc[d]}]

Return(d, case) ==
  /\ GoTo(d, "done")
  /\ answer' = [answer EXCEPT ![d] = case]

InFlight == {d \in Deliveries : pc[d] \notin {"new", "done", "failed"}}

\* A store error, or a crash.
Fails == failures < MaxFailures /\ failures' = failures + 1

\* Mutation of AlreadyIngested: a stored message is never processed again.
AlreadyStored == stored

\* Mutation of AlreadyIngested: a redelivery is processed like the first one.
NeverIngested == FALSE

\* A redelivery of a message whose case was recorded.
AlreadyIngested == stored /\ recorded # {}

\* CreateCustomerMessage, one row per (tenant, channel, source message).  A
\* redelivery is answered with the recorded case; without one, an earlier
\* attempt failed or still runs, and the message is processed again.
Receive(d) ==
  /\ pc[d] = "new"
  /\ overlapped' = IF InFlight = {} THEN overlapped
                   ELSE overlapped \cup InFlight \cup {d}
  /\ stored' = TRUE
  /\ IF AlreadyIngested THEN Return(d, recorded)
                        ELSE GoTo(d, "run") /\ UNCHANGED answer
  /\ UNCHANGED <<status, recorded, parts, audited, failures>>

\* Mutation of After: the case is recorded before its packet is handed over.
AfterUnsent(step) ==
  CASE step = "run" -> "decision"
    [] step = "decision" -> "artifact"
    [] step = "artifact" -> "snapshot"
    [] step = "snapshot" -> "record"
    [] OTHER -> "record"

\* The order of StartCase.
After(step) ==
  CASE step = "run" -> "decision"
    [] step = "decision" -> "artifact"
    [] step = "artifact" -> "snapshot"
    [] step = "snapshot" -> "packet"
    [] OTHER -> "record"

\* StartCase creates the next row of the case, or sends its packet.
StartCase(d) ==
  /\ pc[d] \in Starting
  /\ parts' = [parts EXCEPT ![d] = @ \cup {pc[d]}]
  /\ GoTo(d, After(pc[d]))
  /\ UNCHANGED <<row, audited, answer, overlapped, failures>>

\* It fails there; a packet that was not accepted may still be stored.
StartCaseFails(d) ==
  /\ pc[d] \in Starting /\ Fails
  /\ GoTo(d, "give_up")
  /\ UNCHANGED <<row, parts, audited, answer, overlapped>>

\* UpdateCustomerMessageCase with no case; its error is ignored.
GiveUp(d) ==
  /\ pc[d] = "give_up"
  /\ \/ recorded' = {} /\ status' = "failed" /\ UNCHANGED failures
     \/ Fails /\ UNCHANGED <<recorded, status>>
  /\ GoTo(d, "failed")
  /\ UNCHANGED <<stored, parts, audited, answer, overlapped>>

\* UpdateCustomerMessageCase with the new case.
Record(d) ==
  /\ pc[d] = "record"
  /\ recorded' = {d} /\ status' = "ingested"
  /\ GoTo(d, "audit")
  /\ UNCHANGED <<stored, parts, audited, answer, overlapped, failures>>

\* One customer_message_received event per message.
Audit(d) ==
  /\ pc[d] = "audit"
  /\ audited' = TRUE
  /\ Return(d, {d})
  /\ UNCHANGED <<row, parts, overlapped, failures>>

RecordOrAuditFails(d) ==
  /\ pc[d] \in {"record", "audit"} /\ Fails
  /\ GoTo(d, "failed")
  /\ UNCHANGED <<row, parts, audited, answer, overlapped>>

\* The process dies with every delivery it was handling.
Crash ==
  /\ InFlight # {} /\ Fails
  /\ pc' = [d \in Deliveries |-> IF d \in InFlight THEN "failed" ELSE pc[d]]
  /\ UNCHANGED <<row, parts, audited, answer, overlapped>>

Delivery(d) ==
  \/ Receive(d)
  \/ StartCase(d)
  \/ StartCaseFails(d)
  \/ GiveUp(d)
  \/ Record(d)
  \/ Audit(d)
  \/ RecordOrAuditFails(d)

Next == (\E d \in Deliveries : Delivery(d)) \/ Crash

Spec == Init /\ [][Next]_vars

-----------------------------------------------------------------------------
(* Properties                                                              *)

\* A delivery that succeeds answers with a case that is complete, its packet
\* handed to the gateway, also when it is a retry of one that failed or crashed
\* half-way ("rather than returning an empty id as success").
AnswerIsComplete ==
  \A d \in Deliveries : pc[d] = "done" =>
    \E c \in Deliveries : answer[d] = {c} /\ parts[c] = Parts

Undisturbed(d) == d \notin overlapped

\* Deliveries that ran with no other one running answer with the same case,
\* whatever failed before, between or after them.
AnswersAgree ==
  \A d, e \in Deliveries :
    pc[d] = "done" /\ pc[e] = "done" /\ Undisturbed(d) /\ Undisturbed(e)
      => answer[d] = answer[e]

\* The case that such a delivery recorded is never replaced or erased.
RecordIsKept ==
  [][\A d \in Deliveries : recorded = {d} /\ Undisturbed(d) => recorded' = {d}]_vars
===============================================================================
