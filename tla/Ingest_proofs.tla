----------------------------- MODULE Ingest_proofs -----------------------------
(***************************************************************************)
(* Theorems about Ingest, for every set of deliveries and any number of    *)
(* failures and crashes.                                                   *)
(***************************************************************************)
EXTENDS Ingest, TLAPS

USE DEF IngestAssumption, vars, row, GoTo, Return, Starting, Steps, Parts

-----------------------------------------------------------------------------
(* Types                                                                   *)

LEMMA TypeInit == Init => TypeOK
<1> SUFFICES ASSUME Init
             PROVE  TypeOK
  OBVIOUS
<1> USE DEF Init
<1>1. 0 \in 0..MaxFailures
  BY IngestAssumption
<1>2. parts \in [Deliveries -> SUBSET Parts] /\ answer \in [Deliveries -> SUBSET Deliveries]
  OBVIOUS
<1>3. pc \in [Deliveries -> Steps]
  OBVIOUS
<1> QED
  BY <1>1, <1>2, <1>3 DEF TypeOK

LEMMA TypeNext == TypeOK /\ [Next]_vars => TypeOK'
<1> SUFFICES ASSUME TypeOK, [Next]_vars
             PROVE  TypeOK'
  OBVIOUS
<1> USE IngestAssumption DEF TypeOK
<1>1. ASSUME NEW d \in Deliveries, Receive(d)
      PROVE  TypeOK'
  BY <1>1 DEF Receive, InFlight
<1>2. ASSUME NEW d \in Deliveries, StartCase(d)
      PROVE  TypeOK'
  BY <1>2 DEF StartCase, After
<1>3. ASSUME NEW d \in Deliveries, StartCaseFails(d)
      PROVE  TypeOK'
  BY <1>3 DEF StartCaseFails, Fails
<1>4. ASSUME NEW d \in Deliveries, GiveUp(d)
      PROVE  TypeOK'
  BY <1>4 DEF GiveUp, Fails
<1>5. ASSUME NEW d \in Deliveries, Record(d)
      PROVE  TypeOK'
  BY <1>5 DEF Record
<1>6. ASSUME NEW d \in Deliveries, Audit(d)
      PROVE  TypeOK'
  BY <1>6 DEF Audit
<1>7. ASSUME NEW d \in Deliveries, RecordOrAuditFails(d)
      PROVE  TypeOK'
  BY <1>7 DEF RecordOrAuditFails, Fails
<1>8. CASE Crash
  BY <1>8 DEF Crash, Fails, InFlight
<1>9. CASE UNCHANGED vars
  BY <1>9
<1> QED
  BY <1>1, <1>2, <1>3, <1>4, <1>5, <1>6, <1>7, <1>8, <1>9 DEF Next, Delivery

\* Every variable of the ingestion keeps its type.
THEOREM TypeCorrect == Spec => []TypeOK
BY TypeInit, TypeNext, PTL DEF Spec

-----------------------------------------------------------------------------
(* A successful answer is a complete case                                  *)

\* The parts a delivery has created when it is at a step of StartCase.
Before(step) ==
  CASE step = "run" -> {}
    [] step = "decision" -> {"run"}
    [] step = "artifact" -> {"run", "decision"}
    [] step = "snapshot" -> {"run", "decision", "artifact"}
    [] step = "packet" -> {"run", "decision", "artifact", "snapshot"}
    [] step \in {"record", "audit"} -> Parts
    [] OTHER -> {}

\* StartCase creates the parts in order, and only a complete case is recorded:
\* the record is what a redelivery answers with.
Complete(c) == parts[c] = Parts

InOrder == \A d \in Deliveries : Before(pc[d]) \subseteq parts[d]

RecordIsComplete ==
  recorded # {} => \E c \in Deliveries : recorded = {c} /\ Complete(c)

CompleteInv == TypeOK /\ InOrder /\ RecordIsComplete /\ AnswerIsComplete

LEMMA CompleteInit == Init => CompleteInv
BY TypeInit DEF Init, CompleteInv, InOrder, Before, RecordIsComplete, AnswerIsComplete

LEMMA CompleteNext == CompleteInv /\ [Next]_vars => CompleteInv'
<1> SUFFICES ASSUME CompleteInv, [Next]_vars
             PROVE  CompleteInv'
  OBVIOUS
<1> USE DEF CompleteInv, Complete
<1>t. TypeOK'
  BY TypeNext
\* No step takes a part away, so a complete case stays complete.
<1>g. \A c \in Deliveries : parts[c] \subseteq parts'[c] /\ parts'[c] \subseteq Parts
  BY <1>t DEF Next, Delivery, Receive, StartCase, StartCaseFails, GiveUp, Record,
              Audit, RecordOrAuditFails, Crash, TypeOK
<1>1. ASSUME NEW d \in Deliveries, Receive(d)
      PROVE  CompleteInv'
  <2>1. InOrder'
    BY <1>1 DEF Receive, InOrder, Before, TypeOK
  <2>2. RecordIsComplete'
    BY <1>1 DEF Receive, RecordIsComplete
  <2>3. AnswerIsComplete'
    <3>1. CASE AlreadyIngested
      <4>1. PICK c \in Deliveries : recorded = {c} /\ Complete(c)
        BY <3>1 DEF AlreadyIngested, RecordIsComplete
      <4>2. parts' = parts /\ answer' = [answer EXCEPT ![d] = {c}] /\ pc' = [pc EXCEPT ![d] = "done"]
        BY <1>1, <3>1, <4>1 DEF Receive
      <4> QED
        BY <4>1, <4>2 DEF AnswerIsComplete, TypeOK
    <3>2. CASE ~AlreadyIngested
      BY <1>1, <3>2 DEF Receive, AnswerIsComplete, TypeOK
    <3> QED
      BY <3>1, <3>2
  <2> QED
    BY <1>t, <2>1, <2>2, <2>3
<1>2. ASSUME NEW d \in Deliveries, StartCase(d)
      PROVE  CompleteInv'
  <2>1. InOrder'
    <3> SUFFICES ASSUME NEW e \in Deliveries
                 PROVE  Before(pc'[e]) \subseteq parts'[e]
      BY DEF InOrder
    <3>1. CASE e = d
      BY <1>2, <3>1 DEF StartCase, After, InOrder, Before, TypeOK
    <3>2. CASE e # d
      BY <1>2, <3>2 DEF StartCase, InOrder, TypeOK
    <3> QED
      BY <3>1, <3>2
  <2>2. RecordIsComplete'
    BY <1>2, <1>g DEF StartCase, RecordIsComplete
  <2>3. \A e \in Deliveries : pc'[e] = "done" => pc[e] = "done"
    BY <1>2 DEF StartCase, After, TypeOK
  <2>4. AnswerIsComplete'
    BY <1>2, <1>g, <2>3 DEF StartCase, AnswerIsComplete
  <2> QED
    BY <1>t, <2>1, <2>2, <2>4
<1>3. ASSUME NEW d \in Deliveries, StartCaseFails(d)
      PROVE  CompleteInv'
  BY <1>3, <1>t DEF StartCaseFails, InOrder, Before, RecordIsComplete,
                    AnswerIsComplete, TypeOK
<1>4. ASSUME NEW d \in Deliveries, GiveUp(d)
      PROVE  CompleteInv'
  BY <1>4, <1>t DEF GiveUp, InOrder, Before, RecordIsComplete, AnswerIsComplete, TypeOK
<1>5. ASSUME NEW d \in Deliveries, Record(d)
      PROVE  CompleteInv'
  BY <1>5, <1>t DEF Record, InOrder, Before, RecordIsComplete, AnswerIsComplete, TypeOK
<1>6. ASSUME NEW d \in Deliveries, Audit(d)
      PROVE  CompleteInv'
  <2>1. Complete(d)
    BY <1>6 DEF Audit, InOrder, Before, TypeOK
  <2>2. InOrder' /\ RecordIsComplete'
    BY <1>6 DEF Audit, InOrder, Before, RecordIsComplete, TypeOK
  <2>3. AnswerIsComplete'
    BY <1>6, <2>1 DEF Audit, AnswerIsComplete, TypeOK
  <2> QED
    BY <1>t, <2>2, <2>3
<1>7. ASSUME NEW d \in Deliveries, RecordOrAuditFails(d)
      PROVE  CompleteInv'
  BY <1>7, <1>t DEF RecordOrAuditFails, InOrder, Before, RecordIsComplete,
                    AnswerIsComplete, TypeOK
<1>8. CASE Crash
  BY <1>8, <1>t DEF Crash, InOrder, Before, RecordIsComplete, AnswerIsComplete, TypeOK
<1>9. CASE UNCHANGED vars
  BY <1>9, <1>t DEF InOrder, RecordIsComplete, AnswerIsComplete
<1> QED
  BY <1>1, <1>2, <1>3, <1>4, <1>5, <1>6, <1>7, <1>8, <1>9 DEF Next, Delivery

\* A delivery that succeeds answers with a complete case, whatever deliveries
\* overlapped, failed or were killed before it.
THEOREM AnswersComplete == Spec => []AnswerIsComplete
<1>1. CompleteInv => AnswerIsComplete
  BY DEF CompleteInv
<1> QED
  BY CompleteInit, CompleteNext, <1>1, PTL DEF Spec

-----------------------------------------------------------------------------
(* One case for deliveries that ran alone                                  *)

\* A delivery in flight that nothing has overlapped is the only one in flight.
Alone == \A d \in InFlight : Undisturbed(d) => InFlight = {d}

\* The message has a row once a delivery has begun.
RowComesFirst == (recorded # {} => stored) /\ \A d \in Deliveries : pc[d] # "new" => stored

\* Once a delivery that ran alone has recorded its case or has answered, no
\* other delivery is in flight, and the next ones find the record.
Settled ==
  \A d \in Deliveries : Undisturbed(d) =>
    /\ pc[d] = "audit" => recorded = {d}
    /\ pc[d] = "done" => InFlight = {} /\ recorded # {} /\ answer[d] = recorded
    /\ recorded = {d} => InFlight \subseteq {d} /\ pc[d] \in {"audit", "done", "failed"}

SettledInv == TypeOK /\ Alone /\ RowComesFirst /\ Settled

LEMMA SettledInit == Init => SettledInv
BY TypeInit DEF Init, SettledInv, Alone, RowComesFirst, Settled, InFlight

\* The delivery begins, and is answered at once when the case is recorded.
LEMMA SettledReceive ==
  ASSUME SettledInv, NEW d \in Deliveries, Receive(d)
  PROVE  Alone' /\ RowComesFirst' /\ Settled' /\ recorded' = recorded
<1> USE DEF SettledInv, TypeOK
<1>1. /\ pc[d] = "new" /\ stored' = TRUE /\ recorded' = recorded
      /\ overlapped' = IF InFlight = {} THEN overlapped
                       ELSE overlapped \cup InFlight \cup {d}
  BY DEF Receive
<1>2. RowComesFirst'
  BY <1>1 DEF RowComesFirst
<1>3. CASE AlreadyIngested
  <2>1. pc' = [pc EXCEPT ![d] = "done"] /\ answer' = [answer EXCEPT ![d] = recorded]
    BY <1>3 DEF Receive
  <2>2. InFlight' = InFlight /\ recorded # {}
    BY <1>1, <1>3, <2>1 DEF InFlight, AlreadyIngested
  <2>3. CASE InFlight = {}
    <3>1. Alone'
      BY <2>2, <2>3 DEF Alone
    <3>2. overlapped' = overlapped
      BY <1>1, <2>3
    <3>3. Settled'
      <4> SUFFICES ASSUME NEW e \in Deliveries, e \notin overlapped'
                   PROVE  /\ pc'[e] = "audit" => recorded' = {e}
                          /\ pc'[e] = "done" => /\ InFlight' = {} /\ recorded' # {}
                                               /\ answer'[e] = recorded'
                          /\ recorded' = {e} => /\ InFlight' \subseteq {e}
                                               /\ pc'[e] \in {"audit", "done", "failed"}
        BY DEF Settled, Undisturbed
      <4>1. CASE e = d
        BY <1>1, <2>1, <2>2, <2>3, <4>1
      <4>2. CASE e # d
        <5>1. pc'[e] = pc[e] /\ answer'[e] = answer[e] /\ e \notin overlapped
          BY <2>1, <3>2, <4>2
        <5> QED
          BY <1>1, <2>2, <2>3, <5>1 DEF Settled, Undisturbed
      <4> QED
        BY <4>1, <4>2
    <3> QED
      BY <1>1, <1>2, <3>1, <3>3
  <2>4. CASE InFlight # {}
    <3>1. overlapped' = overlapped \cup InFlight \cup {d}
      BY <1>1, <2>4
    <3>2. Alone'
      BY <2>2, <3>1 DEF Alone, Undisturbed
    <3>3. \A e \in Deliveries : Undisturbed(e)' =>
             e # d /\ e \notin InFlight /\ Undisturbed(e) /\ pc'[e] = pc[e] /\ answer'[e] = answer[e]
      BY <2>1, <3>1 DEF Undisturbed
    <3>4. Settled'
      BY <1>1, <2>2, <3>3 DEF Settled
    <3> QED
      BY <1>1, <1>2, <3>2, <3>4
  <2> QED
    BY <1>1, <1>2, <2>3, <2>4
<1>4. CASE ~AlreadyIngested
  <2>1. pc' = [pc EXCEPT ![d] = "run"] /\ answer' = answer
    BY <1>4 DEF Receive
  <2>2. InFlight' = InFlight \cup {d}
    BY <2>1 DEF InFlight
  <2>3. recorded = {}
    BY <1>4 DEF AlreadyIngested, RowComesFirst
  <2>4. \A e \in Deliveries : Undisturbed(e) => pc[e] \notin {"audit", "done"}
    BY <2>3 DEF Settled
  <2>5. Alone'
    BY <1>1, <2>2 DEF Alone, Undisturbed
  <2>6. Settled'
    BY <1>1, <2>1, <2>3, <2>4 DEF Settled, Undisturbed
  <2> QED
    BY <1>1, <1>2, <2>5, <2>6
<1> QED
  BY <1>3, <1>4

\* The other steps of a delivery: it is in flight, so whoever ran alone and has
\* answered or recorded is that delivery.
LEMMA SettledStep ==
  ASSUME SettledInv, NEW d \in Deliveries,
         \/ StartCase(d) \/ StartCaseFails(d) \/ GiveUp(d) \/ Record(d) \/ Audit(d)
         \/ RecordOrAuditFails(d)
  PROVE  /\ Alone' /\ RowComesFirst' /\ Settled'
         /\ \A e \in Deliveries : recorded = {e} /\ Undisturbed(e) => recorded' = {e}
<1> USE DEF SettledInv, TypeOK
<1>1. /\ d \in InFlight /\ overlapped' = overlapped /\ stored' = stored /\ stored
      /\ \E step \in Steps \ {"new"} : pc' = [pc EXCEPT ![d] = step]
  BY DEF StartCase, StartCaseFails, GiveUp, Record, Audit, RecordOrAuditFails, After,
         InFlight, RowComesFirst
<1>2. InFlight' \subseteq InFlight
  BY <1>1 DEF InFlight
<1>3. Alone' /\ RowComesFirst'
  BY <1>1, <1>2 DEF Alone, RowComesFirst, Undisturbed
<1>4. \A e \in Deliveries : Undisturbed(e) /\ (recorded = {e} \/ pc[e] \in {"audit", "done"}) =>
         e = d /\ pc[d] = "audit" /\ recorded = {d}
  BY <1>1 DEF Settled, Alone, InFlight
<1>5. \A e \in Deliveries : recorded = {e} /\ Undisturbed(e) => recorded' = {e}
  BY <1>4 DEF StartCase, StartCaseFails, GiveUp, Record, Audit, RecordOrAuditFails
<1>6. CASE Audit(d)
  <2>1. /\ pc[d] = "audit" /\ recorded' = recorded
        /\ pc' = [pc EXCEPT ![d] = "done"] /\ answer' = [answer EXCEPT ![d] = {d}]
    BY <1>6 DEF Audit
  <2>2. Undisturbed(d) => InFlight' = {}
    BY <1>1, <2>1 DEF Alone, InFlight
  <2> QED
    BY <1>1, <1>3, <1>4, <1>5, <2>1, <2>2 DEF Settled, Undisturbed, InFlight
<1>7. CASE Record(d)
  <2>1. pc[d] = "record" /\ recorded' = {d} /\ pc' = [pc EXCEPT ![d] = "audit"]
    BY <1>7 DEF Record
  <2>2. Undisturbed(d) => InFlight' \subseteq {d}
    BY <1>1, <1>2 DEF Alone
  <2> QED
    BY <1>1, <1>3, <1>4, <1>5, <2>1, <2>2 DEF Settled, Undisturbed
<1>8. CASE ~Audit(d) /\ ~Record(d)
  <2>1. /\ \E step \in Steps : pc' = [pc EXCEPT ![d] = step] /\ step \notin {"audit", "done"}
        /\ recorded' = recorded \/ recorded' = {}
        /\ recorded' = recorded \/ pc[d] = "give_up"
        /\ pc[d] = "audit" => pc'[d] = "failed"
    BY <1>8 DEF StartCase, StartCaseFails, GiveUp, RecordOrAuditFails, After
  <2> QED
    BY <1>1, <1>2, <1>3, <1>4, <1>5, <2>1 DEF Settled, Undisturbed
<1> QED
  BY <1>6, <1>7, <1>8

LEMMA SettledNext ==
  SettledInv /\ [Next]_vars =>
    /\ SettledInv'
    /\ \A e \in Deliveries : recorded = {e} /\ Undisturbed(e) => recorded' = {e}
<1> SUFFICES ASSUME SettledInv, [Next]_vars
             PROVE  /\ SettledInv'
                    /\ \A e \in Deliveries : recorded = {e} /\ Undisturbed(e) => recorded' = {e}
  OBVIOUS
<1>t. TypeOK'
  BY TypeNext DEF SettledInv
<1>1. ASSUME NEW d \in Deliveries, Delivery(d)
      PROVE  /\ Alone' /\ RowComesFirst' /\ Settled'
             /\ \A e \in Deliveries : recorded = {e} /\ Undisturbed(e) => recorded' = {e}
  BY <1>1, SettledReceive, SettledStep DEF Delivery
<1>2. CASE Crash
  <2>1. /\ pc' = [d \in Deliveries |-> IF d \in InFlight THEN "failed" ELSE pc[d]]
        /\ UNCHANGED <<row, answer, overlapped>>
    BY <1>2 DEF Crash
  <2>2. InFlight' = {}
    BY <2>1 DEF InFlight
  <2>3. Alone' /\ RowComesFirst'
    BY <2>1, <2>2 DEF SettledInv, Alone, RowComesFirst, InFlight
  <2>4. Settled'
    BY <2>1, <2>2 DEF SettledInv, Settled, Undisturbed, InFlight, TypeOK
  <2> QED
    BY <1>t, <2>1, <2>3, <2>4 DEF SettledInv
<1>3. CASE UNCHANGED vars
  BY <1>3, <1>t DEF SettledInv, Alone, RowComesFirst, Settled, Undisturbed, InFlight
<1> QED
  BY <1>t, <1>1, <1>2, <1>3 DEF Next, SettledInv

\* Deliveries of a message that ran with no other one running answer with the
\* same case, whatever other deliveries, failures and crashes there were.
THEOREM AnswersAgreeAlways == Spec => []AnswersAgree
<1>1. SettledInv => AnswersAgree
  BY DEF SettledInv, Settled, AnswersAgree
<1> QED
  BY SettledInit, SettledNext, <1>1, PTL DEF Spec

\* The case that such a delivery recorded is never replaced or erased, not by a
\* later delivery that fails either (UpdateCustomerMessageCase with no case).
THEOREM RecordKept == Spec => RecordIsKept
<1>1. SettledInv /\ [Next]_vars =>
        [\A d \in Deliveries : recorded = {d} /\ Undisturbed(d) => recorded' = {d}]_vars
  BY SettledNext
<1> QED
  BY SettledInit, SettledNext, <1>1, PTL DEF Spec, RecordIsKept
===============================================================================
