---------------------------- MODULE Replies_proofs ----------------------------
(***************************************************************************)
(* Theorems about Replies, for every set of messages and deliveries and    *)
(* any number of failures and crashes.                                     *)
(***************************************************************************)
EXTENDS Replies, FiniteSetTheorems, TLAPS

USE DEF RepliesAssumption, facts, statuses, delivery, vars, GoTo, Steps

-----------------------------------------------------------------------------
(* Types                                                                   *)

\* A delivery in progress is of exactly one message.
OneMessage == \A d \in InFlight : \E m \in Messages : about[d] = {m}

Typed == TypeOK /\ OneMessage

LEMMA MessageOf ==
  ASSUME Typed, NEW d \in InFlight
  PROVE  Message(d) \in Messages /\ about[d] = {Message(d)}
BY DEF Typed, OneMessage, Message, InFlight

LEMMA TypedInit == Init => Typed
<1> SUFFICES ASSUME Init
             PROVE  Typed
  OBVIOUS
<1> USE DEF Init
<1>1. 0 \in 0..MaxFailures
  BY RepliesAssumption
<1>2. pc \in [Deliveries -> Steps] /\ about \in [Deliveries -> SUBSET Messages]
  OBVIOUS
<1>3. OneMessage
  BY DEF OneMessage, InFlight
<1> QED
  BY <1>1, <1>2, <1>3 DEF Typed, TypeOK

\* Only a new delivery begins, and none changes its message afterwards.
LEMMA TypedDelivery ==
  ASSUME Typed, NEW d \in Deliveries, Delivery(d)
  PROVE  Typed'
<1> USE RepliesAssumption DEF Typed, TypeOK, OneMessage, InFlight
<1>1. ASSUME NEW m \in Messages, Receive(d, m)
      PROVE  Typed'
  BY <1>1 DEF Receive
<1>2. CASE SeenSignal(d)
  BY <1>2 DEF SeenSignal
<1>3. CASE MarkSignalSeen(d)
  BY <1>3 DEF MarkSignalSeen, After
<1>4. CASE UpdateDecisionPointStatus(d)
  BY <1>4 DEF UpdateDecisionPointStatus, After, StatusOf
<1>5. CASE UpdateCaseRunStatus(d)
  BY <1>5 DEF UpdateCaseRunStatus, After, StatusOf
<1>6. CASE Resolve(d)
  BY <1>6 DEF Resolve
<1>7. CASE CreateCorrection(d)
  BY <1>7 DEF CreateCorrection, After
<1>8. CASE MergeCandidate(d)
  BY <1>8, MessageOf DEF MergeCandidate, After
<1>9. CASE AuditApproval(d)
  BY <1>9 DEF AuditApproval, After
<1>10. CASE ChooseReply(d)
  BY <1>10 DEF ChooseReply
<1>11. CASE QueueReply(d)
  BY <1>11 DEF QueueReply
<1>12. CASE SendReply(d)
  BY <1>12 DEF SendReply
<1>13. CASE NotConnected(d)
  BY <1>13 DEF NotConnected
<1>14. CASE MarkReplySent(d)
  BY <1>14 DEF MarkReplySent
<1>15. CASE StepFails(d)
  BY <1>15 DEF StepFails, Fails
<1> QED
  BY <1>1, <1>2, <1>3, <1>4, <1>5, <1>6, <1>7, <1>8, <1>9, <1>10, <1>11, <1>12,
     <1>13, <1>14, <1>15 DEF Delivery

LEMMA TypedNext == Typed /\ [Next]_vars => Typed'
<1> SUFFICES ASSUME Typed, [Next]_vars
             PROVE  Typed'
  OBVIOUS
<1>1. ASSUME NEW d \in Deliveries, Delivery(d)
      PROVE  Typed'
  BY <1>1, TypedDelivery
<1>2. CASE Crash
  BY <1>2, RepliesAssumption DEF Crash, Fails, Typed, TypeOK, OneMessage, InFlight
<1>3. CASE Expire
  BY <1>3 DEF Expire, Typed, TypeOK, OneMessage, InFlight
<1>4. CASE UNCHANGED vars
  BY <1>4 DEF Typed, TypeOK, OneMessage, InFlight
<1> QED
  BY <1>1, <1>2, <1>3, <1>4 DEF Next

\* Every variable of the reply handling keeps its type.
THEOREM TypeCorrect == Spec => []TypeOK
<1>1. Typed => TypeOK
  BY DEF Typed
<1> QED
  BY TypedInit, TypedNext, <1>1, PTL DEF Spec

-----------------------------------------------------------------------------
(* Evidence                                                                *)

\* What a delivery d of m has behind it when it is at a step: an approval its
\* event, a correction its row, a reply to the customer the right mode too.
StepHasEvidence(d, m) ==
  /\ pc[d] \in {"create", "merge"} => button[m] = "correct"
  /\ pc[d] = "audit" => button[m] = "approve"
  /\ pc[d] \in {"point", "case"} =>
       IF button[m] = "approve" THEN approval ELSE m \in corrections
  /\ pc[d] = "merge" => m \in corrections
  /\ pc[d] = "reply" => approval
  /\ pc[d] \in {"queue", "send", "sent"} => approval /\ mode = "full_control"
  /\ pc[d] = "sent" => sent > 0

Evidence ==
  \A d \in Deliveries, m \in Messages : about[d] = {m} => StepHasEvidence(d, m)

EvidenceInv == Typed /\ Evidence /\ EffectsHaveEvidence

LEMMA EvidenceInit == Init => EvidenceInv
BY TypedInit DEF Init, EvidenceInv, Evidence, StepHasEvidence, EffectsHaveEvidence

LEMMA EvidenceDelivery ==
  ASSUME EvidenceInv, NEW d \in Deliveries, Delivery(d)
  PROVE  Evidence' /\ EffectsHaveEvidence'
<1> USE DEF EvidenceInv, Typed, TypeOK, Evidence, StepHasEvidence, EffectsHaveEvidence
<1> DEFINE m == Message(d)
<1>m. ASSUME d \in InFlight
      PROVE  m \in Messages /\ about[d] = {m}
  BY <1>m, MessageOf
<1>t. Typed'
  BY TypedDelivery
<1>1. ASSUME NEW n \in Messages, Receive(d, n)
      PROVE  Evidence' /\ EffectsHaveEvidence'
  BY <1>1 DEF Receive
<1> HIDE DEF m
<1>2. CASE SeenSignal(d)
  BY <1>2 DEF SeenSignal
<1>3. CASE MarkSignalSeen(d)
  <2>1. m \in Messages /\ about[d] = {m}
    BY <1>3, <1>m DEF MarkSignalSeen, InFlight
  <2> QED
    BY <1>3, <2>1 DEF MarkSignalSeen, After, m
<1>4. CASE UpdateDecisionPointStatus(d)
  <2>1. m \in Messages /\ about[d] = {m}
    BY <1>4, <1>m DEF UpdateDecisionPointStatus, InFlight
  <2> QED
    BY <1>4, <2>1 DEF UpdateDecisionPointStatus, After, StatusOf, m
<1>5. CASE UpdateCaseRunStatus(d)
  <2>1. m \in Messages /\ about[d] = {m}
    BY <1>5, <1>m DEF UpdateCaseRunStatus, InFlight
  <2> QED
    BY <1>5, <2>1 DEF UpdateCaseRunStatus, After, StatusOf, m
<1>6. CASE Resolve(d)
  BY <1>6 DEF Resolve
<1>7. CASE CreateCorrection(d)
  <2>1. m \in Messages /\ about[d] = {m}
    BY <1>7, <1>m DEF CreateCorrection, InFlight
  <2> QED
    BY <1>7, <2>1 DEF CreateCorrection, After, m
<1>8. CASE MergeCandidate(d)
  <2>1. m \in Messages /\ about[d] = {m}
    BY <1>8, <1>m DEF MergeCandidate, InFlight
  <2> QED
    BY <1>8, <2>1 DEF MergeCandidate, After, m
<1>9. CASE AuditApproval(d)
  BY <1>9 DEF AuditApproval, After
<1>10. CASE ChooseReply(d)
  BY <1>10 DEF ChooseReply
<1>11. CASE QueueReply(d)
  BY <1>11 DEF QueueReply, AlreadySent
<1>12. CASE SendReply(d)
  <2>1. m \in Messages /\ about[d] = {m}
    BY <1>12, <1>m DEF SendReply, InFlight
  <2> QED
    BY <1>12, <2>1 DEF SendReply
<1>13. CASE NotConnected(d)
  BY <1>13 DEF NotConnected
<1>14. CASE MarkReplySent(d)
  <2>1. m \in Messages /\ about[d] = {m}
    BY <1>14, <1>m DEF MarkReplySent, InFlight
  <2> QED
    BY <1>14, <2>1 DEF MarkReplySent
<1>15. CASE StepFails(d)
  BY <1>15 DEF StepFails
<1> QED
  BY <1>1, <1>2, <1>3, <1>4, <1>5, <1>6, <1>7, <1>8, <1>9, <1>10, <1>11, <1>12,
     <1>13, <1>14, <1>15 DEF Delivery

LEMMA EvidenceNext == EvidenceInv /\ [Next]_vars => EvidenceInv'
<1> SUFFICES ASSUME EvidenceInv, [Next]_vars
             PROVE  EvidenceInv'
  OBVIOUS
<1>t. Typed'
  BY TypedNext DEF EvidenceInv
<1>1. ASSUME NEW d \in Deliveries, Delivery(d)
      PROVE  EvidenceInv'
  BY <1>1, <1>t, EvidenceDelivery DEF EvidenceInv
<1> USE DEF EvidenceInv, Typed, TypeOK, Evidence, StepHasEvidence, EffectsHaveEvidence
<1>2. CASE Crash
  BY <1>2, <1>t DEF Crash
<1>3. CASE Expire
  BY <1>3, <1>t DEF Expire
<1>4. CASE UNCHANGED vars
  BY <1>4, <1>t
<1> QED
  BY <1>1, <1>2, <1>3, <1>4 DEF Next

\* No status, no reply to the customer and no merge without the event or the row
\* it rests on, however deliveries interleave and wherever one is cut short.
THEOREM EffectsEvidenced == Spec => []EffectsHaveEvidence
<1>1. EvidenceInv => EffectsHaveEvidence
  BY DEF EvidenceInv
<1> QED
  BY EvidenceInit, EvidenceNext, <1>1, PTL DEF Spec

-----------------------------------------------------------------------------
(* One merge per correction                                                *)

\* Between the insert of the correction of m and its merge.
Works(d, m) ==
  about[d] = {m} /\ button[m] = "correct" /\ pc[d] \in {"point", "case", "merge"}

\* The insert admits one delivery of m: while it works the correction is not
\* merged, and no second one gets past the insert.
OneWorker ==
  \A m \in Messages :
    /\ m \notin corrections => merges[m] = 0
    /\ \A d \in Deliveries : Works(d, m) => m \in corrections /\ merges[m] = 0
    /\ \A d, e \in Deliveries : Works(d, m) /\ Works(e, m) => d = e

MergeInv == EvidenceInv /\ OneWorker /\ MergedAtMostOnce

LEMMA MergeInit == Init => MergeInv
BY EvidenceInit DEF Init, MergeInv, OneWorker, Works, MergedAtMostOnce

LEMMA MergeDelivery ==
  ASSUME MergeInv, NEW d \in Deliveries, Delivery(d)
  PROVE  OneWorker' /\ MergedAtMostOnce'
<1> USE DEF MergeInv, OneWorker, Works, MergedAtMostOnce
<1>y. TypeOK /\ Typed
  BY DEF EvidenceInv, Typed
<1> USE <1>y DEF TypeOK
<1>m. ASSUME d \in InFlight
      PROVE  Message(d) \in Messages /\ about[d] = {Message(d)}
  BY <1>m, MessageOf
<1>1. ASSUME NEW n \in Messages, Receive(d, n)
      PROVE  OneWorker' /\ MergedAtMostOnce'
  BY <1>1 DEF Receive
<1>2. CASE SeenSignal(d)
  BY <1>2 DEF SeenSignal
<1>3. CASE MarkSignalSeen(d)
  BY <1>3 DEF MarkSignalSeen, After
<1>4. CASE UpdateDecisionPointStatus(d)
  BY <1>4 DEF UpdateDecisionPointStatus, After
<1>5. CASE UpdateCaseRunStatus(d)
  BY <1>5 DEF UpdateCaseRunStatus, After
<1>6. CASE Resolve(d)
  BY <1>6 DEF Resolve
<1>7. CASE CreateCorrection(d)
  <2>1. Message(d) \in Messages /\ about[d] = {Message(d)}
    BY <1>7, <1>m DEF CreateCorrection, InFlight
  <2>2. CASE IsDuplicate(d)
    BY <1>7, <2>1, <2>2 DEF CreateCorrection, IsDuplicate
  <2>3. CASE ~IsDuplicate(d)
    <3>1. /\ corrections' = corrections \cup {Message(d)} /\ Message(d) \notin corrections
          /\ pc' = [pc EXCEPT ![d] = "point"]
          /\ about' = about /\ button' = button /\ merges' = merges
      BY <1>7, <2>1, <2>3 DEF CreateCorrection, IsDuplicate, After
    <3>2. \A e \in Deliveries : ~Works(e, Message(d))
      BY <3>1, <2>1
    <3>3. \A e \in Deliveries, n \in Messages :
             Works(e, n)' => Works(e, n) \/ (e = d /\ n = Message(d))
      BY <3>1, <2>1
    <3>4. merges[Message(d)] = 0
      BY <3>1, <2>1
    <3> HIDE DEF Works
    <3> QED
      BY <3>1, <3>2, <3>3, <3>4, <2>1
  <2> QED
    BY <2>2, <2>3
<1>8. CASE MergeCandidate(d)
  <2>1. Message(d) \in Messages /\ about[d] = {Message(d)}
    BY <1>8, <1>m DEF MergeCandidate, InFlight
  <2>2. button[Message(d)] = "correct"
    BY <1>8, <2>1 DEF MergeCandidate, EvidenceInv, Evidence, StepHasEvidence
  <2> QED
    BY <1>8, <2>1, <2>2 DEF MergeCandidate, After
<1>9. CASE AuditApproval(d)
  <2>1. Message(d) \in Messages /\ about[d] = {Message(d)}
    BY <1>9, <1>m DEF AuditApproval, InFlight
  <2>2. button[Message(d)] = "approve"
    BY <1>9, <2>1 DEF AuditApproval, EvidenceInv, Evidence, StepHasEvidence
  <2> QED
    BY <1>9, <2>1, <2>2 DEF AuditApproval, After
<1>10. CASE ChooseReply(d)
  BY <1>10 DEF ChooseReply
<1>11. CASE QueueReply(d)
  BY <1>11 DEF QueueReply
<1>12. CASE SendReply(d)
  BY <1>12 DEF SendReply
<1>13. CASE NotConnected(d)
  BY <1>13 DEF NotConnected
<1>14. CASE MarkReplySent(d)
  BY <1>14 DEF MarkReplySent
<1>15. CASE StepFails(d)
  BY <1>15 DEF StepFails
<1> QED
  BY <1>1, <1>2, <1>3, <1>4, <1>5, <1>6, <1>7, <1>8, <1>9, <1>10, <1>11, <1>12,
     <1>13, <1>14, <1>15 DEF Delivery

LEMMA MergeNext == MergeInv /\ [Next]_vars => MergeInv'
<1> SUFFICES ASSUME MergeInv, [Next]_vars
             PROVE  MergeInv'
  OBVIOUS
<1>e. EvidenceInv'
  BY EvidenceNext DEF MergeInv
<1>1. ASSUME NEW d \in Deliveries, Delivery(d)
      PROVE  MergeInv'
  BY <1>1, <1>e, MergeDelivery DEF MergeInv
<1> USE DEF MergeInv, OneWorker, Works, MergedAtMostOnce
<1>2. CASE Crash
  BY <1>2, <1>e DEF Crash, EvidenceInv, Typed, TypeOK
<1>3. CASE Expire
  BY <1>3, <1>e DEF Expire
<1>4. CASE UNCHANGED vars
  BY <1>4, <1>e
<1> QED
  BY <1>1, <1>2, <1>3, <1>4 DEF Next

\* A correction is merged into the candidates at most once, whatever deliveries
\* of its message overlap: the unique insert, not the signal, is what decides.
THEOREM MergedOnce == Spec => []MergedAtMostOnce
<1>1. MergeInv => MergedAtMostOnce
  BY DEF MergeInv
<1> QED
  BY MergeInit, MergeNext, <1>1, PTL DEF Spec

-----------------------------------------------------------------------------
(* Deliveries that overlap                                                 *)

\* A delivery in progress that no other one has overlapped is the only one.
Alone == \A d \in InFlight : d \notin overlapped => InFlight = {d}

\* What a step of delivery d does to the deliveries in progress.
LEMMA FlightDelivery ==
  ASSUME Typed, NEW d \in Deliveries, Delivery(d)
  PROVE  /\ \A e \in Deliveries \ {d} : pc'[e] = pc[e] /\ about'[e] = about[e]
         /\ \/ /\ pc[d] = "new" /\ pc'[d] \in {"check", "failed"}
               /\ overlapped' = IF InFlight = {} THEN overlapped
                                ELSE overlapped \cup InFlight \cup {d}
               /\ failures' = failures
            \/ /\ d \in InFlight /\ about' = about /\ overlapped' = overlapped
               /\ failures' = failures \/ (failures' = failures + 1 /\ pc'[d] = "failed")
<1> USE DEF Typed, TypeOK
<1>1. ASSUME NEW m \in Messages, Receive(d, m)
      PROVE  /\ \A e \in Deliveries \ {d} : pc'[e] = pc[e] /\ about'[e] = about[e]
             /\ pc[d] = "new" /\ pc'[d] \in {"check", "failed"}
             /\ overlapped' = IF InFlight = {} THEN overlapped
                              ELSE overlapped \cup InFlight \cup {d}
             /\ failures' = failures
  BY <1>1 DEF Receive
<1>2. CASE ~\E m \in Messages : Receive(d, m)
  <2>1. /\ d \in InFlight /\ about' = about /\ overlapped' = overlapped
        /\ \A e \in Deliveries \ {d} : pc'[e] = pc[e]
    BY <1>2 DEF Delivery, SeenSignal, MarkSignalSeen, UpdateDecisionPointStatus,
                UpdateCaseRunStatus, Resolve, CreateCorrection, MergeCandidate, AuditApproval,
                ChooseReply, QueueReply, SendReply, NotConnected, MarkReplySent, StepFails,
                InFlight
  <2>2. failures' = failures \/ (failures' = failures + 1 /\ pc'[d] = "failed")
    BY <1>2 DEF Delivery, SeenSignal, MarkSignalSeen, UpdateDecisionPointStatus,
                UpdateCaseRunStatus, Resolve, CreateCorrection, MergeCandidate, AuditApproval,
                ChooseReply, QueueReply, SendReply, NotConnected, MarkReplySent, StepFails,
                InFlight, Fails
  <2> QED
    BY <2>1, <2>2
<1> QED
  BY <1>1, <1>2

LEMMA AloneNext == Typed /\ Alone /\ [Next]_vars => Alone'
<1> SUFFICES ASSUME Typed, Alone, [Next]_vars
             PROVE  Alone'
  OBVIOUS
<1>1. ASSUME NEW d \in Deliveries, Delivery(d)
      PROVE  Alone'
  <2>1. InFlight' \subseteq InFlight \cup {d}
    BY <1>1, FlightDelivery DEF InFlight
  <2>2. CASE d \in InFlight /\ overlapped' = overlapped
    BY <2>1, <2>2 DEF Alone
  <2>3. CASE overlapped' = IF InFlight = {} THEN overlapped ELSE overlapped \cup InFlight \cup {d}
    <3>1. CASE InFlight = {}
      BY <2>1, <3>1 DEF Alone
    <3>2. CASE InFlight # {}
      BY <2>1, <2>3, <3>2 DEF Alone
    <3> QED
      BY <3>1, <3>2
  <2> QED
    BY <1>1, <2>2, <2>3, FlightDelivery
<1>2. CASE Crash
  <2>1. InFlight' = {}
    BY <1>2 DEF Crash, InFlight, Typed, TypeOK
  <2> QED
    BY <2>1 DEF Alone
<1>3. CASE Expire \/ UNCHANGED vars
  BY <1>3 DEF Expire, Alone, InFlight
<1> QED
  BY <1>1, <1>2, <1>3 DEF Next

LEMMA AloneInit == Init => Alone
BY DEF Init, Alone, InFlight

-----------------------------------------------------------------------------
(* The reply to the customer                                               *)

\* The overlapped deliveries that may have transmitted the reply.
Spent == {d \in overlapped : pc[d] \in {"sent", "resolve", "done", "failed"}}
Used == Cardinality(Spent)

\* A delivery that ran alone does not transmit what is recorded as sent.
AloneSends == \A d \in Deliveries : pc[d] = "send" /\ d \notin overlapped => reply # "sent"

\* No delivery that ran alone has transmitted what it has yet to record, and a
\* reply that is recorded is only transmitted again by one that overlapped.
Settled ==
  /\ reply # "sent" \/ \E d \in Deliveries : pc[d] = "send"
  /\ \A d \in Deliveries : pc[d] = "sent" => d \in overlapped

\* Every transmission so far has failed before it was recorded.
Unrecorded == reply # "sent" /\ \A d \in Deliveries : pc[d] # "sent"

\* Each delivery transmits once.  Of those that ran alone, all but the last
\* have failed before they recorded it; and a failure, or the record, ends what
\* the overlapped ones can add.
Budget ==
  /\ AloneSends
  /\ sent <= failures + 1 \/ sent <= failures + Used
  /\ Settled => sent <= failures + Used
  /\ Unrecorded => sent <= failures \/ sent + 1 <= failures + Used

\* What the steps below need of numbers: s transmissions, f failures, and u
\* deliveries spent before the step, w after it.
LEMMA Sums ==
  \A s, f, u, w \in Nat :
    /\ u <= w /\ s <= f + u => s <= f + w
    /\ u <= w /\ s + 1 <= f + u => s + 1 <= f + w
    /\ u + 1 <= w /\ (s <= f + 1 \/ s <= f + u) => s <= f + w
    /\ u + 1 <= w /\ s <= f + u => s + 1 <= f + w
    /\ s <= f => s + 1 <= f + 1
    /\ u <= w /\ (s <= f + 1 \/ s <= f + u) =>
         s <= (f + 1) + w /\ (s <= f + 1 \/ s + 1 <= (f + 1) + w)
    /\ s <= f + u => s <= f + 1 \/ s <= f + u
OBVIOUS

LEMMA UsedType ==
  ASSUME Typed
  PROVE  IsFiniteSet(Spent) /\ Used \in Nat
<1>1. Spent \subseteq Deliveries
  BY DEF Typed, TypeOK, Spent
<1> QED
  BY <1>1, RepliesAssumption, FS_Subset, FS_CardinalityType DEF Used

\* A delivery that is spent stays so.
LEMMA UsedGrows ==
  ASSUME Typed, Typed', Spent \subseteq Spent'
  PROVE  Used \in Nat /\ Used' \in Nat /\ Used <= Used'
<1>1. Used \in Nat
  BY UsedType
<1>2. IsFiniteSet(Spent') /\ Used' \in Nat
  <2>1. Spent' \subseteq Deliveries
    BY DEF Typed, TypeOK, Spent
  <2> QED
    BY <2>1, RepliesAssumption, FS_Subset, FS_CardinalityType DEF Used
<1>3. Cardinality(Spent) <= Cardinality(Spent')
  BY <1>2, FS_Subset
<1> QED
  BY <1>1, <1>2, <1>3 DEF Used

LEMMA UsedAdds ==
  ASSUME Typed, Typed', NEW d, d \notin Spent, Spent \cup {d} \subseteq Spent'
  PROVE  Used \in Nat /\ Used' \in Nat /\ Used + 1 <= Used'
<1>1. IsFiniteSet(Spent) /\ Used \in Nat
  BY UsedType
<1>2. IsFiniteSet(Spent') /\ Used' \in Nat
  <2>1. Spent' \subseteq Deliveries
    BY DEF Typed, TypeOK, Spent
  <2> QED
    BY <2>1, RepliesAssumption, FS_Subset, FS_CardinalityType DEF Used
<1>3. Cardinality(Spent \cup {d}) = Cardinality(Spent) + 1
  BY <1>1, FS_AddElement
<1>4. Cardinality(Spent \cup {d}) <= Cardinality(Spent')
  BY <1>2, FS_Subset
<1> QED
  BY <1>1, <1>2, <1>3, <1>4 DEF Used

LEMMA BudgetDelivery ==
  ASSUME Typed, Typed', Alone, Budget, NEW d \in Deliveries, Delivery(d)
  PROVE  Budget'
<1>t. /\ pc \in [Deliveries -> Steps] /\ sent \in Nat /\ failures \in Nat
      /\ overlapped \subseteq Deliveries
  BY RepliesAssumption DEF Typed, TypeOK
<1>f. /\ \A e \in Deliveries \ {d} : pc'[e] = pc[e]
      /\ \/ /\ pc[d] = "new" /\ pc'[d] \in {"check", "failed"}
            /\ overlapped' = IF InFlight = {} THEN overlapped
                             ELSE overlapped \cup InFlight \cup {d}
            /\ failures' = failures
         \/ /\ d \in InFlight /\ overlapped' = overlapped
            /\ failures' = failures \/ (failures' = failures + 1 /\ pc'[d] = "failed")
  BY FlightDelivery
<1>s. /\ \A e \in Deliveries : pc[e] \in {"sent", "resolve", "done", "failed"} =>
                              pc'[e] \in {"sent", "resolve", "done", "failed"}
      /\ Spent \subseteq Spent'
  <2>1. pc[d] \in {"sent", "resolve", "done", "failed"} =>
          pc'[d] \in {"sent", "resolve", "done", "failed"}
    BY <1>t DEF Delivery, Receive, SeenSignal, MarkSignalSeen, UpdateDecisionPointStatus,
           UpdateCaseRunStatus, Resolve, CreateCorrection, MergeCandidate, AuditApproval,
           ChooseReply, QueueReply, SendReply, NotConnected, MarkReplySent, StepFails
  <2>2. overlapped \subseteq overlapped'
    BY <1>f
  <2> QED
    BY <1>f, <1>t, <2>1, <2>2 DEF Spent
<1>u. Used \in Nat /\ Used' \in Nat /\ Used <= Used'
  BY <1>s, UsedGrows
<1>1. ASSUME NEW m \in Messages, Receive(d, m)
      PROVE  Budget'
  <2>1. /\ pc[d] = "new" /\ pc'[d] \in {"check", "failed"}
        /\ sent' = sent /\ reply' = reply /\ failures' = failures
        /\ overlapped' = IF InFlight = {} THEN overlapped ELSE overlapped \cup InFlight \cup {d}
    BY <1>1, <1>t DEF Receive
  <2>2. \A e \in Deliveries : /\ pc'[e] = "send" <=> pc[e] = "send"
                              /\ pc'[e] = "sent" <=> pc[e] = "sent"
    BY <1>f, <2>1
  <2>3. overlapped \subseteq overlapped'
    BY <2>1
  <2>4. ASSUME NEW e \in Deliveries, pc[e] = "sent", e \notin overlapped
        PROVE  Used + 1 <= Used'
    <3>1. e \in InFlight /\ e # d
      BY <2>1, <2>4 DEF InFlight
    <3>2. e \in Spent' /\ e \notin Spent
      BY <1>s, <2>1, <2>4, <3>1 DEF Spent
    <3> QED
      BY <1>s, <3>2, UsedAdds
  <2>5. AloneSends'
    BY <2>1, <2>2, <2>3 DEF Budget, AloneSends
  <2>6. Unrecorded' => Unrecorded
    BY <2>1, <2>2 DEF Unrecorded
  <2>7. Settled' => Settled \/ Used + 1 <= Used'
    BY <2>1, <2>2, <2>4 DEF Settled
  <2> QED
    BY <1>t, <1>u, <2>1, <2>5, <2>6, <2>7, Sums DEF Budget
<1>2. CASE SendReply(d)
  <2>1. /\ pc[d] = "send" /\ pc'[d] = "sent" /\ sent' = sent + 1
        /\ UNCHANGED <<reply, failures, overlapped>>
    BY <1>2, <1>t DEF SendReply
  <2>2. d \in InFlight
    BY <2>1 DEF InFlight
  <2>3. CASE d \in overlapped
    <3>1. \A e \in Deliveries : pc[e] = "sent" => e \in overlapped
      <4> SUFFICES ASSUME NEW e \in Deliveries, pc[e] = "sent", e \notin overlapped
                   PROVE  FALSE
        OBVIOUS
      <4>1. e \in InFlight
        BY DEF InFlight
      <4> QED
        BY <2>1, <2>2, <4>1 DEF Alone
    <3>2. sent <= failures + Used
      BY <2>1, <3>1 DEF Budget, Settled
    <3>3. d \notin Spent /\ d \in Spent'
      BY <2>1, <2>3 DEF Spent
    <3>4. Used + 1 <= Used'
      BY <1>s, <3>3, UsedAdds
    <3>5. AloneSends' /\ ~Unrecorded'
      BY <1>f, <2>1 DEF Budget, AloneSends, Unrecorded
    <3> QED
      BY <1>t, <1>u, <2>1, <3>2, <3>4, <3>5, Sums DEF Budget
  <2>4. CASE d \notin overlapped
    <3>1. InFlight = {d}
      BY <2>2, <2>4 DEF Alone
    <3>2. \A e \in Deliveries : pc[e] # "sent"
      BY <2>1, <3>1 DEF InFlight
    <3>3. reply # "sent"
      BY <2>1, <2>4 DEF Budget, AloneSends
    <3>4. sent <= failures \/ sent + 1 <= failures + Used
      BY <3>2, <3>3 DEF Budget, Unrecorded
    <3>5. AloneSends' /\ ~Unrecorded' /\ ~Settled'
      BY <1>f, <2>1, <2>4, <3>3 DEF AloneSends, Unrecorded, Settled
    <3> QED
      BY <1>t, <1>u, <2>1, <3>4, <3>5, Sums DEF Budget
  <2> QED
    BY <2>3, <2>4
<1>3. CASE MarkReplySent(d)
  <2>1. /\ pc[d] = "sent" /\ pc'[d] = "resolve" /\ sent' = sent /\ reply' = "sent"
        /\ UNCHANGED <<failures, overlapped>>
    BY <1>3, <1>t DEF MarkReplySent
  <2>2. ASSUME NEW e \in Deliveries, pc'[e] = "send"
        PROVE  e \in overlapped /\ d \in overlapped /\ pc[e] = "send"
    <3>1. e # d /\ e \in InFlight /\ d \in InFlight /\ pc[e] = "send"
      BY <1>f, <2>1, <2>2 DEF InFlight
    <3> QED
      BY <3>1 DEF Alone
  <2>3. ASSUME NEW e \in Deliveries, pc'[e] = "send", NEW g \in Deliveries, pc[g] = "sent"
        PROVE  g \in overlapped
    <3>1. e # g /\ e \in InFlight /\ g \in InFlight
      BY <2>2, <2>3 DEF InFlight
    <3> QED
      BY <3>1 DEF Alone
  <2>4. ASSUME NEW e \in Deliveries, pc'[e] = "send"
        PROVE  sent <= failures + Used
    BY <2>2, <2>3, <2>4 DEF Budget, Settled
  <2>5. AloneSends' /\ ~Unrecorded'
    BY <2>1, <2>2 DEF AloneSends, Unrecorded
  <2>6. Settled' => sent <= failures + Used
    BY <2>1, <2>4 DEF Settled
  <2> QED
    BY <1>t, <1>u, <2>1, <2>5, <2>6, Sums DEF Budget
<1>4. CASE QueueReply(d)
  <2>1. /\ pc[d] = "queue" /\ pc'[d] \in {"send", "resolve"} /\ sent' = sent
        /\ reply' = "sent" <=> reply = "sent"
        /\ pc'[d] = "send" => reply # "sent"
        /\ UNCHANGED <<failures, overlapped>>
    BY <1>4, <1>t DEF QueueReply, AlreadySent
  <2>2. /\ \A e \in Deliveries : pc'[e] = "sent" <=> pc[e] = "sent"
        /\ \A e \in Deliveries \ {d} : pc'[e] = "send" <=> pc[e] = "send"
    BY <1>f, <2>1
  <2>3. AloneSends'
    BY <2>1, <2>2 DEF Budget, AloneSends
  <2>4. (Unrecorded' => Unrecorded) /\ (Settled' => Settled)
    BY <2>1, <2>2 DEF Unrecorded, Settled
  <2> QED
    BY <1>t, <1>u, <2>1, <2>3, <2>4, Sums DEF Budget
<1>5. CASE StepFails(d)
  <2>1. /\ pc'[d] = "failed" /\ sent' = sent /\ reply' = reply
        /\ failures' = failures + 1 /\ overlapped' = overlapped
    BY <1>5, <1>t DEF StepFails, Fails
  <2>2. \A e \in Deliveries : pc'[e] = "send" => pc[e] = "send"
    BY <1>f, <2>1
  <2>3. AloneSends'
    BY <2>1, <2>2 DEF Budget, AloneSends
  <2> QED
    BY <1>t, <1>u, <2>1, <2>3, Sums DEF Budget
<1>6. CASE \/ SeenSignal(d) \/ MarkSignalSeen(d) \/ UpdateDecisionPointStatus(d)
           \/ UpdateCaseRunStatus(d) \/ Resolve(d) \/ CreateCorrection(d) \/ MergeCandidate(d)
           \/ AuditApproval(d) \/ ChooseReply(d) \/ NotConnected(d)
  <2>1. /\ sent' = sent /\ reply' = reply /\ UNCHANGED <<failures, overlapped>>
        /\ pc[d] # "sent" /\ pc'[d] \notin {"send", "sent"}
    BY <1>6, <1>t DEF SeenSignal, MarkSignalSeen, UpdateDecisionPointStatus,
                UpdateCaseRunStatus, Resolve, CreateCorrection, MergeCandidate, AuditApproval,
                ChooseReply, NotConnected, After
  <2>2. \A e \in Deliveries : /\ pc'[e] = "sent" <=> pc[e] = "sent"
                              /\ pc'[e] = "send" => pc[e] = "send"
    BY <1>f, <2>1
  <2>3. AloneSends'
    BY <2>1, <2>2 DEF Budget, AloneSends
  <2>4. (Unrecorded' => Unrecorded) /\ (Settled' => Settled)
    BY <2>1, <2>2 DEF Unrecorded, Settled
  <2> QED
    BY <1>t, <1>u, <2>1, <2>3, <2>4, Sums DEF Budget
<1> QED
  BY <1>1, <1>2, <1>3, <1>4, <1>5, <1>6 DEF Delivery

LEMMA BudgetNext == Typed /\ Alone /\ Budget /\ [Next]_vars => Budget'
<1> SUFFICES ASSUME Typed, Alone, Budget, [Next]_vars
             PROVE  Budget'
  OBVIOUS
<1>t. Typed'
  BY TypedNext
<1>1. ASSUME NEW d \in Deliveries, Delivery(d)
      PROVE  Budget'
  BY <1>1, <1>t, BudgetDelivery
<1>2. CASE Crash
  <2>1. /\ sent' = sent /\ reply' = reply /\ failures' = failures + 1 /\ overlapped' = overlapped
        /\ \A d \in Deliveries : pc'[d] = IF d \in InFlight THEN "failed" ELSE pc[d]
    BY <1>2 DEF Crash, Fails
  <2>2. sent \in Nat /\ failures \in Nat /\ overlapped \subseteq Deliveries
    BY RepliesAssumption DEF Typed, TypeOK
  <2>3. Spent \subseteq Spent'
    BY <2>1, <2>2 DEF Spent
  <2>4. \A d \in Deliveries : pc'[d] # "send"
    BY <2>1 DEF InFlight
  <2>5. Used \in Nat /\ Used' \in Nat /\ Used <= Used'
    BY <1>t, <2>3, UsedGrows
  <2>6. AloneSends'
    BY <2>4 DEF AloneSends
  <2> QED
    BY <2>1, <2>2, <2>5, <2>6, Sums DEF Budget
<1>3. CASE Expire \/ UNCHANGED vars
  BY <1>3 DEF Expire, Budget, AloneSends, Settled, Unrecorded, Used, Spent
<1> QED
  BY <1>1, <1>2, <1>3 DEF Next

\* The customer gets the reply once, however many approvals arrive: each further
\* transmission takes a failure, or one more handler that overlaps with others.
THEOREM ReplyOnce == Spec => []ReplySentOnce
<1>1. Init => Budget
  <2> SUFFICES ASSUME Init
               PROVE  Budget
    OBVIOUS
  <2>1. Spent = {} /\ sent = 0 /\ failures = 0 /\ \A d \in Deliveries : pc[d] = "new"
    BY DEF Init, Spent
  <2> QED
    BY <2>1, FS_EmptySet DEF Budget, AloneSends, Used
<1>2. Typed /\ Budget => ReplySentOnce
  <2> SUFFICES ASSUME Typed, Budget
               PROVE  ReplySentOnce
    OBVIOUS
  <2>1. /\ sent \in Nat /\ failures \in Nat /\ IsFiniteSet(overlapped)
    BY RepliesAssumption, FS_Subset DEF Typed, TypeOK
  <2>2. Used \in Nat /\ Cardinality(overlapped) \in Nat /\ Used <= Cardinality(overlapped)
    BY <2>1, UsedType, FS_Subset, FS_CardinalityType DEF Used, Spent
  <2>3. overlapped = {} <=> Cardinality(overlapped) = 0
    BY <2>1, FS_EmptySet
  <2> QED
    BY <2>1, <2>2, <2>3 DEF Budget, ReplySentOnce
<1> QED
  BY TypedInit, TypedNext, AloneInit, AloneNext, BudgetNext, <1>1, <1>2, PTL DEF Spec

-----------------------------------------------------------------------------
(* The last reply decides                                                  *)

\* The steps between the mark of a message's signal and the last status it sets.
Writing == {"audit", "create", "point", "case"}

\* One message after the other: the one being written is the last one marked and
\* has no correction yet, so that no duplicate ends its writing halfway; nobody
\* else writes, and after the writing both statuses are the message's.
Decided ==
  overlapped = {} /\ failures = 0 =>
    /\ corrections \subseteq signals
    /\ \A d \in Deliveries :
         /\ pc[d] = "mark" => about[d] \cap signals = {}
         /\ pc[d] = "create" => about[d] \cap corrections = {}
         /\ pc[d] \in Writing => latest = about[d] /\ about[d] \subseteq signals
         /\ pc[d] = "case" => \A m \in latest : point = StatusOf(m)
    /\ (\A d \in Deliveries : pc[d] \notin Writing) =>
         \A m \in latest : point = StatusOf(m) /\ case = StatusOf(m)

LEMMA DecidedDelivery ==
  ASSUME Typed, Typed', Alone, Decided, NEW d \in Deliveries, Delivery(d)
  PROVE  Decided'
<1> SUFFICES ASSUME overlapped' = {}, failures' = 0
             PROVE  Decided'
  BY DEF Decided
<1>t. /\ pc \in [Deliveries -> Steps] /\ about \in [Deliveries -> SUBSET Messages]
      /\ failures \in Nat
  BY RepliesAssumption DEF Typed, TypeOK
<1>a. /\ overlapped = {} /\ failures = 0
      /\ \A e \in Deliveries \ {d} : /\ pc[e] \in {"new", "done", "failed"}
                                     /\ pc'[e] = pc[e] /\ about'[e] = about[e]
  <2>1. CASE pc[d] = "new" /\ overlapped' = IF InFlight = {} THEN overlapped
                                            ELSE overlapped \cup InFlight \cup {d}
    <3>1. InFlight = {} /\ overlapped = {}
      BY <2>1
    <3> QED
      BY <3>1, <2>1, <1>t, FlightDelivery DEF InFlight
  <2>2. CASE d \in InFlight /\ overlapped' = overlapped
    <3>1. InFlight = {d}
      BY <2>2 DEF Alone
    <3> QED
      BY <3>1, <2>2, <1>t, FlightDelivery DEF InFlight
  <2> QED
    BY <2>1, <2>2, FlightDelivery
<1>i. /\ corrections \subseteq signals
      /\ pc[d] = "mark" => about[d] \cap signals = {}
      /\ pc[d] = "create" => about[d] \cap corrections = {}
      /\ pc[d] \in Writing => latest = about[d] /\ about[d] \subseteq signals
      /\ pc[d] = "case" => \A m \in latest : point = StatusOf(m)
      /\ pc[d] \notin Writing =>
           \A m \in latest : point = StatusOf(m) /\ case = StatusOf(m)
  BY <1>a DEF Decided, Writing
<1>g. SUFFICES
        /\ corrections' \subseteq signals'
        /\ pc'[d] = "mark" => about'[d] \cap signals' = {}
        /\ pc'[d] = "create" => about'[d] \cap corrections' = {}
        /\ pc'[d] \in Writing => latest' = about'[d] /\ about'[d] \subseteq signals'
        /\ pc'[d] = "case" => \A m \in latest' : point' = StatusOf(m)'
        /\ pc'[d] \notin Writing =>
             \A m \in latest' : point' = StatusOf(m)' /\ case' = StatusOf(m)'
  BY <1>a DEF Decided, Writing
<1>m. ASSUME d \in InFlight
      PROVE  Message(d) \in Messages /\ about[d] = {Message(d)}
  BY <1>m, MessageOf
<1> USE DEF Writing
<1>1. CASE \E n \in Messages : Receive(d, n)
  BY <1>1, <1>t, <1>i DEF Receive, StatusOf
<1>2. CASE SeenSignal(d)
  BY <1>2, <1>t, <1>i, <1>m DEF SeenSignal, AlreadySeen, StatusOf, InFlight
<1>3. CASE MarkSignalSeen(d)
  BY <1>3, <1>t, <1>i, <1>m DEF MarkSignalSeen, After, StatusOf, InFlight
<1>4. CASE UpdateDecisionPointStatus(d)
  BY <1>4, <1>t, <1>i, <1>m DEF UpdateDecisionPointStatus, After, StatusOf, InFlight
<1>5. CASE UpdateCaseRunStatus(d)
  BY <1>5, <1>t, <1>i, <1>m DEF UpdateCaseRunStatus, After, StatusOf, InFlight
<1>6. CASE CreateCorrection(d)
  BY <1>6, <1>t, <1>i, <1>m DEF CreateCorrection, IsDuplicate, After, StatusOf, InFlight
<1>7. CASE AuditApproval(d)
  BY <1>7, <1>t, <1>i, <1>m DEF AuditApproval, After, StatusOf, InFlight
<1>8. CASE StepFails(d)
  BY <1>8, <1>t, <1>a DEF StepFails, Fails
<1>9. CASE \/ Resolve(d) \/ MergeCandidate(d) \/ ChooseReply(d) \/ QueueReply(d)
           \/ SendReply(d) \/ NotConnected(d) \/ MarkReplySent(d)
  <2>1. /\ pc[d] \in {"resolve", "merge", "reply", "queue", "send", "sent"}
        /\ pc'[d] \in {"done", "resolve", "queue", "failed", "send", "sent"}
        /\ UNCHANGED <<signals, corrections, point, case, latest, button>>
    BY <1>9, <1>t DEF Resolve, MergeCandidate, After, ChooseReply, QueueReply, SendReply,
                     NotConnected, MarkReplySent
  <2> QED
    BY <2>1, <1>i DEF StatusOf
<1> QED
  BY <1>1, <1>2, <1>3, <1>4, <1>5, <1>6, <1>7, <1>8, <1>9 DEF Delivery

LEMMA DecidedNext == Typed /\ Alone /\ Decided /\ [Next]_vars => Decided'
<1> SUFFICES ASSUME Typed, Alone, Decided, [Next]_vars
             PROVE  Decided'
  OBVIOUS
<1>1. ASSUME NEW d \in Deliveries, Delivery(d)
      PROVE  Decided'
  BY <1>1, TypedNext, DecidedDelivery
<1>2. CASE Crash
  BY <1>2, RepliesAssumption DEF Crash, Fails, Decided, Typed, TypeOK
<1>3. CASE Expire \/ UNCHANGED vars
  BY <1>3 DEF Expire, Decided, StatusOf
<1> QED
  BY <1>1, <1>2, <1>3 DEF Next

\* Replies handled one after the other without a failure: the last new one is
\* what the decision point and the case say, duplicates change neither.
THEOREM LastReplyStands == Spec => []LastReplyDecides
<1>1. Init => Decided
  BY DEF Init, Decided
<1>2. Decided => LastReplyDecides
  BY DEF Decided, LastReplyDecides, InFlight, Writing
<1> QED
  BY TypedInit, TypedNext, AloneInit, AloneNext, DecidedNext, <1>1, <1>2, PTL DEF Spec

-----------------------------------------------------------------------------
(* What was resolved took effect                                           *)

\* The steps of a delivery whose message's signal is marked.
Marked == {"audit", "create", "point", "case", "merge", "reply", "queue", "send",
           "sent", "resolve"}

\* Without a failure: of a marked message the work is done, or a delivery of it
\* is on the way to do it; only a marked message is resolved.
Owed(m) ==
  /\ m \in signals /\ button[m] = "approve" =>
       approval \/ \E d \in Deliveries : about[d] = {m} /\ pc[d] = "audit"
  /\ m \in signals /\ button[m] = "correct" =>
       m \in corrections \/ \E d \in Deliveries : about[d] = {m} /\ pc[d] = "create"
  /\ m \in corrections /\ button[m] = "correct" =>
       merges[m] = 1 \/ \E d \in Deliveries : Works(d, m)

Followed ==
  failures = 0 =>
    /\ resolved \subseteq signals
    /\ \A d \in Deliveries : pc[d] \in Marked => about[d] \subseteq signals
    /\ \A m \in Messages : Owed(m)

LEMMA FollowedDelivery ==
  ASSUME MergeInv, Typed', Followed, NEW d \in Deliveries, Delivery(d)
  PROVE  Followed'
<1> SUFFICES ASSUME failures' = 0
             PROVE  Followed'
  BY DEF Followed
<1>y. Typed /\ Evidence /\ OneWorker
  BY DEF MergeInv, EvidenceInv
<1>t. /\ pc \in [Deliveries -> Steps] /\ about \in [Deliveries -> SUBSET Messages]
      /\ failures \in Nat /\ merges \in [Messages -> Nat]
      /\ button \in [Messages -> {"approve", "correct"}]
  BY <1>y, RepliesAssumption DEF Typed, TypeOK
<1>f. /\ failures = 0
      /\ \A e \in Deliveries \ {d} : pc'[e] = pc[e] /\ about'[e] = about[e]
  BY <1>y, <1>t, FlightDelivery
<1>i. /\ resolved \subseteq signals
      /\ \A e \in Deliveries : pc[e] \in Marked => about[e] \subseteq signals
      /\ \A m \in Messages : Owed(m)
  BY <1>f DEF Followed
<1>b. button' = button
  BY DEF Delivery, Receive, SeenSignal, MarkSignalSeen, UpdateDecisionPointStatus,
         UpdateCaseRunStatus, Resolve, CreateCorrection, MergeCandidate, AuditApproval,
         ChooseReply, QueueReply, SendReply, NotConnected, MarkReplySent, StepFails
<1>m. ASSUME d \in InFlight
      PROVE  Message(d) \in Messages /\ about[d] = {Message(d)} /\ StepHasEvidence(d, Message(d))
  BY <1>m, <1>y, MessageOf DEF Evidence, InFlight
\* It is enough to look at the delivery that moves and at what it is about.
<1>k. ASSUME UNCHANGED <<signals, approval, corrections, merges>>,
             pc[d] \notin {"audit", "create", "point", "case", "merge"}
      PROVE  \A m \in Messages : Owed(m)'
  <2> SUFFICES ASSUME NEW m \in Messages
               PROVE  Owed(m)'
    OBVIOUS
  <2>1. Owed(m)
    BY <1>i
  <2>2. ASSUME NEW e \in Deliveries, pc[e] \in {"audit", "create", "point", "case", "merge"}
        PROVE  pc'[e] = pc[e] /\ about'[e] = about[e]
    BY <1>k, <2>2, <1>f
  <2> QED
    BY <1>k, <1>b, <2>1, <2>2 DEF Owed, Works
<1>1. CASE \E n \in Messages : Receive(d, n)
  <2>1. /\ pc[d] = "new" /\ pc'[d] \in {"check", "failed"}
        /\ UNCHANGED <<signals, approval, corrections, merges, resolved>>
    BY <1>1, <1>t DEF Receive
  <2> QED
    BY <2>1, <1>f, <1>i, <1>k DEF Followed, Marked
<1>2. CASE SeenSignal(d)
  <2>1. /\ pc[d] = "check" /\ about' = about
        /\ pc'[d] = "mark" \/ (pc'[d] = "resolve" /\ Message(d) \in signals)
        /\ UNCHANGED <<signals, approval, corrections, merges, resolved>>
    BY <1>2, <1>t DEF SeenSignal, AlreadySeen
  <2> QED
    BY <2>1, <1>f, <1>i, <1>k, <1>m DEF Followed, Marked, InFlight
<1>3. CASE MarkSignalSeen(d)
  <2>1. /\ pc[d] = "mark" /\ about' = about /\ signals' = signals \cup {Message(d)}
        /\ pc'[d] = IF button[Message(d)] = "approve" THEN "audit" ELSE "create"
        /\ UNCHANGED <<approval, corrections, merges, resolved>>
        /\ Message(d) \in Messages /\ about[d] = {Message(d)}
    BY <1>3, <1>t, <1>m DEF MarkSignalSeen, After, InFlight
  <2>2. ASSUME NEW m \in Messages
        PROVE  Owed(m)'
    <3>1. Owed(m)
      BY <1>i
    <3> QED
      BY <2>1, <1>f, <1>b, <3>1 DEF Owed, Works
  <2> QED
    BY <2>1, <2>2, <1>f, <1>i DEF Followed, Marked
<1>4. CASE UpdateDecisionPointStatus(d) \/ UpdateCaseRunStatus(d)
  <2>1. /\ pc[d] \in {"point", "case"} /\ about' = about
        /\ pc'[d] \in {"case", "reply", "merge"}
        /\ button[Message(d)] = "correct" => pc'[d] \in {"case", "merge"}
        /\ UNCHANGED <<signals, approval, corrections, merges, resolved>>
        /\ Message(d) \in Messages /\ about[d] = {Message(d)}
    BY <1>4, <1>t, <1>m DEF UpdateDecisionPointStatus, UpdateCaseRunStatus, After, InFlight
  <2>2. ASSUME NEW m \in Messages
        PROVE  Owed(m)'
    <3>1. Owed(m)
      BY <1>i
    <3>2. \A e \in Deliveries : Works(e, m) => Works(e, m)'
      BY <2>1, <1>f, <1>b DEF Works
    <3> QED
      BY <2>1, <1>f, <1>b, <3>1, <3>2 DEF Owed
  <2> QED
    BY <2>1, <2>2, <1>f, <1>i DEF Followed, Marked
<1>5. CASE Resolve(d)
  <2>1. /\ pc[d] = "resolve" /\ about' = about /\ pc'[d] = "done"
        /\ resolved' = resolved \cup about[d]
        /\ UNCHANGED <<signals, approval, corrections, merges>>
    BY <1>5, <1>t DEF Resolve
  <2> QED
    BY <2>1, <1>f, <1>i, <1>k DEF Followed, Marked
<1>6. CASE CreateCorrection(d)
  <2>1. /\ pc[d] = "create" /\ about' = about
        /\ corrections' = corrections \cup {Message(d)}
        /\ Message(d) \notin corrections => pc'[d] = "point"
        /\ pc'[d] \in {"point", "resolve"}
        /\ UNCHANGED <<signals, approval, merges, resolved>>
        /\ Message(d) \in Messages /\ about[d] = {Message(d)}
        /\ button[Message(d)] = "correct"
    BY <1>6, <1>t, <1>m DEF CreateCorrection, IsDuplicate, After, InFlight, StepHasEvidence
  <2>2. ASSUME NEW m \in Messages
        PROVE  Owed(m)'
    <3>1. Owed(m)
      BY <1>i
    <3>2. \A e \in Deliveries : Works(e, m) => Works(e, m)'
      BY <2>1, <1>f, <1>b DEF Works
    <3>3. m = Message(d) /\ m \notin corrections => Works(d, m)'
      BY <2>1, <1>b DEF Works
    <3>4. \A e \in Deliveries :
            /\ about[e] = {m} /\ pc[e] = "audit" => about'[e] = {m} /\ pc'[e] = "audit"
            /\ about[e] = {m} /\ pc[e] = "create" =>
                 m \in corrections' \/ (about'[e] = {m} /\ pc'[e] = "create")
      BY <2>1, <1>f
    <3> QED
      BY <2>1, <1>b, <3>1, <3>2, <3>3, <3>4 DEF Owed
  <2> QED
    BY <2>1, <2>2, <1>f, <1>i DEF Followed, Marked
<1>7. CASE MergeCandidate(d)
  <2>1. /\ pc[d] = "merge" /\ about' = about /\ pc'[d] = "resolve"
        /\ merges' = [merges EXCEPT ![Message(d)] = @ + 1]
        /\ UNCHANGED <<signals, approval, corrections, resolved>>
        /\ Message(d) \in Messages /\ about[d] = {Message(d)}
        /\ button[Message(d)] = "correct"
    BY <1>7, <1>t, <1>m DEF MergeCandidate, After, InFlight, StepHasEvidence
  <2>w. Works(d, Message(d))
    BY <2>1 DEF Works
  <2>z. merges'[Message(d)] = 1
    BY <2>w, <2>1, <1>t, <1>y DEF OneWorker
  <2>2. ASSUME NEW m \in Messages
        PROVE  Owed(m)'
    <3>1. Owed(m)
      BY <1>i
    <3>2. \A e \in Deliveries : Works(e, m) /\ m # Message(d) => Works(e, m)'
      BY <2>1, <1>f, <1>b DEF Works
    <3>3. m # Message(d) => merges'[m] = merges[m]
      BY <2>1, <1>t
    <3>4. \A e \in Deliveries :
            /\ about[e] = {m} /\ pc[e] = "audit" => about'[e] = {m} /\ pc'[e] = "audit"
            /\ about[e] = {m} /\ pc[e] = "create" => about'[e] = {m} /\ pc'[e] = "create"
      BY <2>1, <1>f
    <3> QED
      BY <2>1, <2>z, <1>b, <3>1, <3>2, <3>3, <3>4 DEF Owed
  <2> QED
    BY <2>1, <2>2, <1>f, <1>i DEF Followed, Marked
<1>8. CASE AuditApproval(d)
  <2>1. /\ pc[d] = "audit" /\ about' = about /\ pc'[d] = "point" /\ approval'
        /\ UNCHANGED <<signals, corrections, merges, resolved>>
    BY <1>8, <1>t DEF AuditApproval, After
  <2>2. ASSUME NEW m \in Messages
        PROVE  Owed(m)'
    <3>1. Owed(m)
      BY <1>i
    <3>2. \A e \in Deliveries : Works(e, m) => Works(e, m)'
      BY <2>1, <1>f, <1>b DEF Works
    <3>3. \A e \in Deliveries :
            about[e] = {m} /\ pc[e] = "create" => about'[e] = {m} /\ pc'[e] = "create"
      BY <2>1, <1>f
    <3> QED
      BY <2>1, <1>b, <3>1, <3>2, <3>3 DEF Owed
  <2> QED
    BY <2>1, <2>2, <1>f, <1>i DEF Followed, Marked
<1>9. CASE StepFails(d)
  BY <1>9, <1>t, <1>f DEF StepFails, Fails
<1>10. CASE ChooseReply(d) \/ QueueReply(d) \/ SendReply(d) \/ NotConnected(d) \/ MarkReplySent(d)
  <2>1. /\ pc[d] \in {"reply", "queue", "send", "sent"} /\ about' = about
        /\ UNCHANGED <<signals, approval, corrections, merges, resolved>>
    BY <1>10 DEF ChooseReply, QueueReply, SendReply, NotConnected, MarkReplySent
  <2> QED
    BY <2>1, <1>f, <1>i, <1>k DEF Followed, Marked
<1> QED
  BY <1>1, <1>2, <1>3, <1>4, <1>5, <1>6, <1>7, <1>8, <1>9, <1>10 DEF Delivery

LEMMA FollowedNext == MergeInv /\ Followed /\ [Next]_vars => Followed'
<1> SUFFICES ASSUME MergeInv, Followed, [Next]_vars
             PROVE  Followed'
  OBVIOUS
<1>y. Typed
  BY DEF MergeInv, EvidenceInv
<1>1. ASSUME NEW d \in Deliveries, Delivery(d)
      PROVE  Followed'
  BY <1>1, <1>y, TypedNext, FollowedDelivery
<1>2. CASE Crash
  BY <1>2, <1>y, RepliesAssumption DEF Crash, Fails, Followed, Typed, TypeOK
<1>3. CASE Expire \/ UNCHANGED vars
  BY <1>3 DEF Expire, Followed, Owed, Works
<1> QED
  BY <1>1, <1>2, <1>3 DEF Next

\* As long as nothing fails, what the gateway has resolved has taken effect once
\* no delivery of the message runs: a duplicate that resolves it early never
\* takes the work from the delivery that does it.
THEOREM ResolvedWithEffect == Spec => []ResolvedTookEffect
<1>1. Init => Followed
  BY DEF Init, Followed, Marked, Owed
<1>2. MergeInv /\ Followed => ResolvedTookEffect
  <2> SUFFICES ASSUME MergeInv, Followed, failures = 0,
                      NEW m \in resolved, Handled(m)
               PROVE  TookEffect(m)
    BY DEF ResolvedTookEffect
  <2>1. m \in Messages /\ m \in signals /\ Owed(m) /\ button[m] \in {"approve", "correct"}
    BY DEF Followed, MergeInv, EvidenceInv, Typed, TypeOK
  <2>2. \A d \in Deliveries :
          about[d] = {m} => pc[d] \notin {"audit", "create", "point", "case", "merge"}
    BY DEF Handled, InFlight
  <2> QED
    BY <2>1, <2>2 DEF Owed, Works, TookEffect
<1> QED
  BY MergeInit, MergeNext, FollowedNext, <1>1, <1>2, PTL DEF Spec
===============================================================================
