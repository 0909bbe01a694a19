------------------------ MODULE OutboundQueue_proofs ------------------------
(***************************************************************************)
(* Theorems about OutboundQueue, for every number of packets and drainers, *)
(* every cap, and any number of crashes and store faults.                  *)
(***************************************************************************)
EXTENDS OutboundQueue, FiniteSetTheorems, TLAPS

USE DEF ConstantsAssumption, vars, store, packets, binding, gateway, senders, drainers, loops,
        sends, history, bounds, GoTo, Return, Run, SenderSteps, DrainerSteps,
        Outcomes, SessionStatuses, StoreFault, MarkReviewPacketDelivered,
        EnqueueOutbound, DeleteOutboundQueueEntry,
        DeleteOldestOutboundQueueEntry

-----------------------------------------------------------------------------
(* Types                                                                   *)

\* A sender past its first step has a packet row.
SendersCreated == InFlight \subseteq created

Typed == TypeOK /\ SendersCreated

LEMMA NoNoteType == NoNote \in Notes
BY DEF Notes, NoNote

LEMMA TypedInit == Init => Typed
<1> SUFFICES ASSUME Init
             PROVE  Typed
  OBVIOUS
<1> USE DEF Init
<1>1. spc \in [Packets -> SenderSteps] /\ outcome \in [Packets -> Outcomes]
  OBVIOUS
<1>2. dpc \in [Drainers -> DrainerSteps] /\ note \in [Drainers -> Notes]
  BY NoNoteType
<1>3. /\ batch \in [Drainers -> SUBSET created]
      /\ todo \in [Drainers -> SUBSET created]
      /\ cur \in [Drainers -> SUBSET created]
  OBVIOUS
<1>4. at \in [Packets -> Nat] /\ clock \in Nat
  OBVIOUS
<1>5. crashes \in 0..MaxCrashes /\ faults \in 0..MaxStoreFaults
  BY ConstantsAssumption
<1>6. SendersCreated
  BY DEF SendersCreated, InFlight
<1> QED
  BY <1>1, <1>2, <1>3, <1>4, <1>5, <1>6 DEF Typed, TypeOK

LEMMA TypedSender ==
  ASSUME Typed, NEW p \in Packets, Sender(p)
  PROVE  Typed'
<1> USE ConstantsAssumption DEF Typed, TypeOK, SendersCreated, InFlight
<1>1. CASE Submit(p)
  BY <1>1 DEF Submit
<1>2. CASE CheckRecipient(p)
  BY <1>2 DEF CheckRecipient
<1>3. CASE CheckSession(p)
  BY <1>3 DEF CheckSession
<1>4. CASE Send(p)
  BY <1>4 DEF Send, Transmitted, NotTransmitted
<1>5. CASE Mark(p)
  BY <1>5 DEF Mark
<1>6. CASE ReadDepth(p)
  BY <1>6 DEF ReadDepth, Stamp
<1>7. CASE Evict(p)
  BY <1>7 DEF Evict, Stamp
<1>8. CASE Insert(p)
  BY <1>8 DEF Insert
<1>9. CASE EnqueueFails(p)
  BY <1>9 DEF EnqueueFails
<1> QED
  BY <1>1, <1>2, <1>3, <1>4, <1>5, <1>6, <1>7, <1>8, <1>9 DEF Sender

LEMMA TypedDrainer ==
  ASSUME Typed, NEW d \in Drainers, Drainer(d)
  PROVE  Typed'
<1> USE ConstantsAssumption DEF Typed, TypeOK, SendersCreated, InFlight
<1>1. ASSUME NEW s \in {"active", "disconnected"}, SessionEvent(d, s)
      PROVE  Typed'
  BY <1>1 DEF SessionEvent, StartsDrain, Notes
<1>2. CASE Persist(d)
  BY <1>2 DEF Persist, Notes, NoNote
<1>3. CASE RegisterOperator(d)
  BY <1>3 DEF RegisterOperator
<1>4. CASE CheckDrain(d)
  BY <1>4 DEF CheckDrain
<1>5. CASE ListQueue(d)
  BY <1>5 DEF ListQueue
<1>6. CASE FetchEntry(d)
  BY <1>6 DEF FetchEntry
<1>7. CASE EndDrain(d)
  BY <1>7 DEF EndDrain
<1>8. CASE DiscardExpired(d)
  BY <1>8 DEF DiscardExpired
<1>9. CASE DrainSend(d)
  BY <1>9 DEF DrainSend, AbortDrain, Transmitted, NotTransmitted
<1>10. CASE DrainMark(d)
  BY <1>10 DEF DrainMark, AbortDrain
<1>11. CASE DeleteEntry(d)
  BY <1>11 DEF DeleteEntry
<1> QED
  BY <1>1, <1>2, <1>3, <1>4, <1>5, <1>6, <1>7, <1>8, <1>9, <1>10, <1>11
  DEF Drainer

LEMMA TypedCrash ==
  ASSUME Typed, Crash
  PROVE  Typed'
<1> USE DEF Crash, Typed, TypeOK
<1>1. /\ spc' \in [Packets -> SenderSteps]
      /\ dpc' \in [Drainers -> DrainerSteps]
  OBVIOUS
<1>2. note' \in [Drainers -> Notes]
  BY NoNoteType
<1>3. /\ batch' \in [Drainers -> SUBSET created']
      /\ todo' \in [Drainers -> SUBSET created']
      /\ cur' \in [Drainers -> SUBSET created']
  OBVIOUS
<1>4. crashes' \in 0..MaxCrashes
  BY ConstantsAssumption
<1>5. SendersCreated'
  BY DEF SendersCreated, InFlight
<1> QED
  BY <1>1, <1>2, <1>3, <1>4, <1>5

LEMMA TypedNext == Typed /\ [Next]_vars => Typed'
<1> SUFFICES ASSUME Typed, [Next]_vars
             PROVE  Typed'
  OBVIOUS
<1>1. ASSUME NEW p \in Packets, Sender(p)
      PROVE  Typed'
  BY <1>1, TypedSender
<1>2. ASSUME NEW p \in Packets, Expire(p)
      PROVE  Typed'
  BY <1>2 DEF Expire, Typed, TypeOK, SendersCreated, InFlight
<1>3. ASSUME NEW d \in Drainers, Drainer(d)
      PROVE  Typed'
  BY <1>3, TypedDrainer
<1>4. CASE RegisterAdapter
  BY <1>4 DEF RegisterAdapter, Typed, TypeOK, SendersCreated, InFlight
<1>5. CASE Crash
  BY <1>5, TypedCrash
<1>6. CASE UNCHANGED vars
  BY <1>6 DEF Typed, TypeOK, SendersCreated, InFlight
<1> QED
  BY <1>1, <1>2, <1>3, <1>4, <1>5, <1>6 DEF Next

\* Every variable keeps its type, whatever the senders, drains, faults and
\* crashes of the gateway do.
THEOREM TypeCorrect == Spec => []TypeOK
<1>1. Spec => []Typed
  BY TypedInit, TypedNext, PTL DEF Spec
<1>2. Typed => TypeOK
  BY DEF Typed
<1> QED
  BY <1>1, <1>2, PTL

-----------------------------------------------------------------------------
(* No accepted packet is lost                                              *)

\* The drain deletes a row after a delivery only when it has marked its packet.
DeletesDelivered == \A d \in Drainers : dpc[d] = "delete" => cur[d] \subseteq delivered

LossInv == LossIsAccounted /\ DeletesDelivered

LEMMA LossInit == Init => LossInv
BY DEF Init, LossInv, LossIsAccounted, DeletesDelivered

LEMMA LossSender ==
  ASSUME Typed, LossInv, NEW p \in Packets, Sender(p)
  PROVE  LossInv'
<1> USE DEF Typed, TypeOK, LossInv, LossIsAccounted, DeletesDelivered
<1>1. CASE Submit(p)
  BY <1>1 DEF Submit
<1>2. CASE CheckRecipient(p)
  BY <1>2 DEF CheckRecipient
<1>3. CASE CheckSession(p)
  BY <1>3 DEF CheckSession
<1>4. CASE Send(p)
  BY <1>4 DEF Send
<1>5. CASE Mark(p)
  BY <1>5 DEF Mark
<1>6. CASE ReadDepth(p)
  BY <1>6 DEF ReadDepth
<1>7. CASE Evict(p)
  BY <1>7 DEF Evict
<1>8. CASE Insert(p)
  BY <1>8 DEF Insert
<1>9. CASE EnqueueFails(p)
  BY <1>9 DEF EnqueueFails
<1> QED
  BY <1>1, <1>2, <1>3, <1>4, <1>5, <1>6, <1>7, <1>8, <1>9 DEF Sender

LEMMA LossDrainer ==
  ASSUME Typed, LossInv, NEW d \in Drainers, Drainer(d)
  PROVE  LossInv'
<1> USE DEF Typed, TypeOK, LossInv, LossIsAccounted, DeletesDelivered
<1>1. ASSUME NEW s \in {"active", "disconnected"}, SessionEvent(d, s)
      PROVE  LossInv'
  BY <1>1 DEF SessionEvent
<1>2. CASE Persist(d)
  BY <1>2 DEF Persist
<1>3. CASE RegisterOperator(d)
  BY <1>3 DEF RegisterOperator
<1>4. CASE CheckDrain(d)
  BY <1>4 DEF CheckDrain
<1>5. CASE ListQueue(d)
  BY <1>5 DEF ListQueue
<1>6. CASE FetchEntry(d)
  BY <1>6 DEF FetchEntry
<1>7. CASE EndDrain(d)
  BY <1>7 DEF EndDrain
<1>8. CASE DiscardExpired(d)
  BY <1>8 DEF DiscardExpired
<1>9. CASE DrainSend(d)
  BY <1>9 DEF DrainSend, AbortDrain
<1>10. CASE DrainMark(d)
  BY <1>10 DEF DrainMark, AbortDrain
<1>11. CASE DeleteEntry(d)
  BY <1>11 DEF DeleteEntry
<1> QED
  BY <1>1, <1>2, <1>3, <1>4, <1>5, <1>6, <1>7, <1>8, <1>9, <1>10, <1>11
  DEF Drainer

LEMMA LossNext == Typed /\ LossInv /\ [Next]_vars => LossInv'
<1> SUFFICES ASSUME Typed, LossInv, [Next]_vars
             PROVE  LossInv'
  OBVIOUS
<1> USE DEF LossInv, LossIsAccounted, DeletesDelivered
<1>1. ASSUME NEW p \in Packets, Sender(p) \/ Expire(p)
      PROVE  LossInv'
  BY <1>1, LossSender DEF Expire
<1>2. ASSUME NEW d \in Drainers, Drainer(d)
      PROVE  LossInv'
  BY <1>2, LossDrainer
<1>3. CASE RegisterAdapter
  BY <1>3 DEF RegisterAdapter
<1>4. CASE Crash
  BY <1>4 DEF Crash
<1>5. CASE UNCHANGED vars
  BY <1>5
<1> QED
  BY <1>1, <1>2, <1>3, <1>4, <1>5 DEF Next

\* A packet whose SendApprovalPacket succeeded is on the queue, was delivered,
\* or left the queue by overflow, expiry or a read error, for any number of
\* senders, drains, crashes and store faults.
THEOREM LossAccounted == Spec => []LossIsAccounted
<1>1. Spec => []Typed
  BY TypedInit, TypedNext, PTL DEF Spec
<1>2. Spec => []LossInv
  BY <1>1, LossInit, LossNext, PTL DEF Spec
<1>3. LossInv => LossIsAccounted
  BY DEF LossInv
<1> QED
  BY <1>2, <1>3, PTL

-----------------------------------------------------------------------------
(* The size of the queue                                                   *)

LEMMA Shrink ==
  ASSUME NEW S, NEW T, IsFiniteSet(S), T \subseteq S
  PROVE  IsFiniteSet(T) /\ Cardinality(T) <= Cardinality(S)
BY FS_Subset

LEMMA Grow ==
  ASSUME NEW S, NEW T, NEW x, IsFiniteSet(S), T \subseteq S \cup {x}
  PROVE  IsFiniteSet(T) /\ Cardinality(T) <= Cardinality(S) + 1
<1>1. Cardinality(S) \in Nat
  BY FS_CardinalityType
<1>2. /\ IsFiniteSet(S \cup {x})
      /\ \/ Cardinality(S \cup {x}) = Cardinality(S)
         \/ Cardinality(S \cup {x}) = Cardinality(S) + 1
  BY FS_AddElement
<1>3. IsFiniteSet(T) /\ Cardinality(T) <= Cardinality(S \cup {x})
  BY <1>2, Shrink
<1>4. Cardinality(T) \in Nat
  BY <1>3, FS_CardinalityType
<1> QED
  BY <1>1, <1>2, <1>3, <1>4

SendersBound == Cardinality(InFlight) <= MaxInFlight

BoundInv == QueueBound /\ SendersBound

LEMMA CardinalitiesKnown ==
  ASSUME Typed
  PROVE  /\ IsFiniteSet(queue) /\ Cardinality(queue) \in Nat
         /\ IsFiniteSet(Inserting) /\ Cardinality(Inserting) \in Nat
         /\ IsFiniteSet(InFlight) /\ Cardinality(InFlight) \in Nat
         /\ Cardinality(Inserting) <= Cardinality(InFlight)
<1>1. IsFiniteSet(Packets)
  BY ConstantsAssumption
<1>2. /\ queue \subseteq Packets
      /\ Inserting \subseteq InFlight
      /\ InFlight \subseteq Packets
  BY DEF Typed, TypeOK, Inserting, InFlight
<1> QED
  BY <1>1, <1>2, Shrink, FS_CardinalityType

LEMMA BoundInit == Init => BoundInv
<1> SUFFICES ASSUME Init
             PROVE  BoundInv
  OBVIOUS
<1>1. queue = {} /\ Inserting = {} /\ InFlight = {}
  BY DEF Init, Inserting, InFlight
<1> QED
  BY <1>1, FS_EmptySet, ConstantsAssumption
  DEF BoundInv, QueueBound, SendersBound

\* A step that adds no row and no sender about to insert one.
LEMMA BoundCalm ==
  ASSUME Typed, BoundInv, Typed',
         queue' \subseteq queue, Inserting' \subseteq Inserting,
         InFlight' \subseteq InFlight
  PROVE  BoundInv'
<1>1. /\ Cardinality(queue') <= Cardinality(queue)
      /\ Cardinality(Inserting') <= Cardinality(Inserting)
      /\ Cardinality(InFlight') <= Cardinality(InFlight)
  BY CardinalitiesKnown, Shrink
<1>2. /\ Cardinality(queue') \in Nat /\ Cardinality(Inserting') \in Nat
      /\ Cardinality(InFlight') \in Nat
  BY CardinalitiesKnown, Shrink, FS_CardinalityType
<1> QED
  BY <1>1, <1>2, CardinalitiesKnown, ConstantsAssumption
  DEF BoundInv, QueueBound, SendersBound

LEMMA BoundSubmit ==
  ASSUME Typed, BoundInv, Typed', NEW p \in Packets, Submit(p)
  PROVE  BoundInv'
<1>1. queue' = queue /\ Inserting' \subseteq Inserting
  BY DEF Submit, Inserting, Typed, TypeOK
<1>2. InFlight' \subseteq InFlight \cup {p}
  BY DEF Submit, InFlight, Typed, TypeOK
<1>3. Cardinality(InFlight) < MaxInFlight
  BY DEF Submit
<1>4. Cardinality(InFlight') <= MaxInFlight
  <2>1. /\ IsFiniteSet(InFlight')
        /\ Cardinality(InFlight') <= Cardinality(InFlight) + 1
    BY <1>2, Grow, CardinalitiesKnown
  <2>2. Cardinality(InFlight') \in Nat /\ Cardinality(InFlight) \in Nat
    BY <2>1, CardinalitiesKnown, FS_CardinalityType
  <2> QED
    BY <1>3, <2>1, <2>2, ConstantsAssumption
<1>5. Cardinality(Inserting') <= Cardinality(Inserting)
  BY <1>1, CardinalitiesKnown, Shrink
<1>6. Cardinality(Inserting') \in Nat
  BY <1>1, CardinalitiesKnown, Shrink, FS_CardinalityType
<1> QED
  BY <1>1, <1>4, <1>5, <1>6, CardinalitiesKnown, ConstantsAssumption
  DEF BoundInv, QueueBound, SendersBound

LEMMA BoundReadDepth ==
  ASSUME Typed, BoundInv, Typed', NEW p \in Packets, ReadDepth(p)
  PROVE  BoundInv'
<1>1. queue' = queue /\ InFlight' = InFlight
  BY DEF ReadDepth, InFlight, Typed, TypeOK
<1>2. CASE QueueFull
  <2>1. Inserting' = Inserting
    BY <1>2 DEF ReadDepth, Inserting, Typed, TypeOK
  <2> QED
    BY <1>1, <2>1, BoundCalm
<1>3. CASE ~QueueFull
  <2>1. Cardinality(queue) < OutboundQueueMax
    BY <1>3, CardinalitiesKnown, ConstantsAssumption DEF QueueFull
  <2>2. Inserting' \subseteq InFlight
    BY DEF ReadDepth, Inserting, InFlight, Typed, TypeOK
  <2>3. /\ Cardinality(Inserting') <= Cardinality(InFlight)
        /\ Cardinality(Inserting') \in Nat
    BY <2>2, CardinalitiesKnown, Shrink, FS_CardinalityType
  <2> QED
    BY <1>1, <2>1, <2>3, CardinalitiesKnown, ConstantsAssumption
    DEF BoundInv, QueueBound, SendersBound
<1> QED
  BY <1>2, <1>3

LEMMA BoundEvict ==
  ASSUME Typed, BoundInv, Typed', NEW p \in Packets, Evict(p)
  PROVE  BoundInv'
<1>1. InFlight' = InFlight
  BY DEF Evict, InFlight, Typed, TypeOK
<1>2. Inserting' \subseteq Inserting \cup {p}
  BY DEF Evict, Inserting, Typed, TypeOK
<1>3. /\ Cardinality(Inserting') <= Cardinality(Inserting) + 1
      /\ Cardinality(Inserting') \in Nat
  BY <1>2, Grow, CardinalitiesKnown, FS_CardinalityType
<1>4. CASE queue = {}
  <2>1. queue' = {} /\ Inserting' \subseteq InFlight
    BY <1>4 DEF Evict, Inserting, InFlight, Typed, TypeOK
  <2>2. Cardinality(Inserting') <= Cardinality(InFlight)
    BY <2>1, CardinalitiesKnown, Shrink
  <2> QED
    BY <1>1, <1>3, <2>1, <2>2, FS_EmptySet, CardinalitiesKnown, ConstantsAssumption
    DEF BoundInv, QueueBound, SendersBound
<1>5. CASE queue # {}
  <2>1. PICK old \in queue : queue' = queue \ {old}
    BY <1>5 DEF Evict
  <2>2. Cardinality(queue') = Cardinality(queue) - 1
    BY <2>1, CardinalitiesKnown, FS_RemoveElement
  <2>3. Cardinality(queue') \in Nat
    BY <2>1, CardinalitiesKnown, FS_RemoveElement, FS_CardinalityType
  <2> QED
    BY <1>1, <1>3, <2>2, <2>3, CardinalitiesKnown, ConstantsAssumption
    DEF BoundInv, QueueBound, SendersBound
<1> QED
  BY <1>4, <1>5

LEMMA BoundInsert ==
  ASSUME Typed, BoundInv, Typed', NEW p \in Packets, Insert(p)
  PROVE  BoundInv'
<1>1. InFlight' \subseteq InFlight /\ queue' = queue \cup {p}
  BY DEF Insert, InFlight, Typed, TypeOK
<1>2. p \in Inserting /\ Inserting' = Inserting \ {p}
  BY DEF Insert, Inserting, Typed, TypeOK
<1>3. /\ Cardinality(Inserting') = Cardinality(Inserting) - 1
      /\ Cardinality(Inserting') \in Nat
  BY <1>2, CardinalitiesKnown, FS_RemoveElement, FS_CardinalityType
<1>4. /\ Cardinality(queue') <= Cardinality(queue) + 1
      /\ Cardinality(queue') \in Nat
  BY <1>1, CardinalitiesKnown, Grow, FS_CardinalityType
<1>5. Cardinality(InFlight') <= Cardinality(InFlight) /\ Cardinality(InFlight') \in Nat
  BY <1>1, CardinalitiesKnown, Shrink, FS_CardinalityType
<1> QED
  BY <1>3, <1>4, <1>5, CardinalitiesKnown, ConstantsAssumption
  DEF BoundInv, QueueBound, SendersBound

LEMMA BoundNext == Typed /\ BoundInv /\ Typed' /\ [Next]_vars => BoundInv'
<1> SUFFICES ASSUME Typed, BoundInv, Typed', [Next]_vars
             PROVE  BoundInv'
  OBVIOUS
<1>1. ASSUME NEW p \in Packets, Sender(p)
      PROVE  BoundInv'
  <2>1. CASE \/ CheckRecipient(p) \/ CheckSession(p) \/ Send(p) \/ Mark(p)
             \/ EnqueueFails(p)
    <3>1. queue' = queue
      BY <2>1 DEF CheckRecipient, CheckSession, Send, Mark, EnqueueFails
    <3>2. Inserting' \subseteq Inserting /\ InFlight' \subseteq InFlight
      BY <2>1 DEF CheckRecipient, CheckSession, Send, Mark, EnqueueFails,
                  Inserting, InFlight, Typed, TypeOK
    <3> QED
      BY <3>1, <3>2, BoundCalm
  <2> QED
    BY <1>1, <2>1, BoundSubmit, BoundReadDepth, BoundEvict, BoundInsert
    DEF Sender
<1>2. ASSUME NEW d \in Drainers, Drainer(d)
      PROVE  queue' \subseteq queue /\ spc' = spc
  BY <1>2 DEF Drainer, SessionEvent, Persist, RegisterOperator, CheckDrain,
              ListQueue, FetchEntry, EndDrain, DiscardExpired, DrainSend,
              DrainMark, DeleteEntry
<1>3. ASSUME NEW p \in Packets, Expire(p)
      PROVE  queue' \subseteq queue /\ spc' = spc
  BY <1>3 DEF Expire
<1>4. CASE RegisterAdapter \/ Crash \/ UNCHANGED vars
  <2>1. queue' = queue /\ Inserting' \subseteq Inserting /\ InFlight' \subseteq InFlight
    BY <1>4 DEF RegisterAdapter, Crash, Inserting, InFlight, Typed, TypeOK
  <2> QED
    BY <2>1, BoundCalm
<1>5. ASSUME queue' \subseteq queue, spc' = spc
      PROVE  BoundInv'
  BY <1>5, BoundCalm DEF Inserting, InFlight
<1> QED
  BY <1>1, <1>2, <1>3, <1>4, <1>5 DEF Next

\* The queue never holds more than OutboundQueueMax rows plus the concurrent
\* senders less one, the inserts under way included, whatever their number.
THEOREM QueueBounded == Spec => []QueueBound
<1>1. Spec => []Typed
  BY TypedInit, TypedNext, PTL DEF Spec
<1>2. Spec => []BoundInv
  BY <1>1, BoundInit, BoundNext, PTL DEF Spec
<1>3. BoundInv => QueueBound
  BY DEF BoundInv
<1> QED
  BY <1>2, <1>3, PTL

-----------------------------------------------------------------------------
(* The rows and the loops                                                  *)

\* A sender answers once; what is or was on the queue was accepted.
Answered ==
  /\ \A p \in Packets : spc[p] # "idle" => outcome[p] = "none"
  /\ \A p \in queue \cup dropped \cup vanished : outcome[p] = "accepted"
  /\ \A d \in Drainers : \A p \in batch[d] : outcome[p] = "accepted"

\* The loop of a drain is at one row at most, one of those it listed.
Looping ==
  \A d \in Drainers :
    /\ todo[d] \subseteq batch[d] /\ cur[d] \subseteq batch[d]
    /\ cur[d] \cap todo[d] = {}
    /\ \A p, q \in cur[d] : p = q
    /\ dpc[d] \notin {"send", "mark", "delete", "discard"} => cur[d] = {}

RowsInv == Answered /\ Looping

LEMMA RowsInit == Init => RowsInv
BY DEF Init, RowsInv, Answered, Looping

LEMMA RowsSender ==
  ASSUME Typed, RowsInv, NEW p \in Packets, Sender(p)
  PROVE  RowsInv'
<1> USE DEF Typed, TypeOK, RowsInv
<1>l. Looping'
  <2>1. UNCHANGED <<dpc, batch, todo, cur>>
    BY DEF Sender, Submit, CheckRecipient, CheckSession, Send, Mark, ReadDepth, Evict, Insert,
           EnqueueFails
  <2> QED
    BY <2>1 DEF Looping
<1> USE DEF Answered
<1>1. CASE Submit(p)
  BY <1>1, <1>l DEF Submit
<1>2. CASE CheckRecipient(p)
  BY <1>2, <1>l DEF CheckRecipient
<1>3. CASE CheckSession(p)
  BY <1>3, <1>l DEF CheckSession
<1>4. CASE Send(p)
  BY <1>4, <1>l DEF Send
<1>5. CASE Mark(p)
  BY <1>5, <1>l DEF Mark
<1>6. CASE ReadDepth(p)
  BY <1>6, <1>l DEF ReadDepth
<1>7. CASE Evict(p)
  BY <1>7, <1>l DEF Evict
<1>8. CASE Insert(p)
  BY <1>8, <1>l DEF Insert
<1>9. CASE EnqueueFails(p)
  BY <1>9, <1>l DEF EnqueueFails
<1> QED
  BY <1>1, <1>2, <1>3, <1>4, <1>5, <1>6, <1>7, <1>8, <1>9 DEF Sender

LEMMA RowsDrainer ==
  ASSUME Typed, RowsInv, NEW d \in Drainers, Drainer(d)
  PROVE  RowsInv'
<1> USE DEF Typed, TypeOK, RowsInv, Answered, Looping
<1>1. ASSUME NEW s \in {"active", "disconnected"}, SessionEvent(d, s)
      PROVE  RowsInv'
  BY <1>1 DEF SessionEvent
<1>2. CASE Persist(d)
  BY <1>2 DEF Persist
<1>3. CASE RegisterOperator(d)
  BY <1>3 DEF RegisterOperator
<1>4. CASE CheckDrain(d)
  BY <1>4 DEF CheckDrain
<1>5. CASE ListQueue(d)
  BY <1>5 DEF ListQueue
<1>6. CASE FetchEntry(d)
  BY <1>6 DEF FetchEntry
<1>7. CASE EndDrain(d)
  BY <1>7 DEF EndDrain
<1>8. CASE DiscardExpired(d)
  BY <1>8 DEF DiscardExpired
<1>9. CASE DrainSend(d)
  BY <1>9 DEF DrainSend, AbortDrain
<1>10. CASE DrainMark(d)
  BY <1>10 DEF DrainMark, AbortDrain
<1>11. CASE DeleteEntry(d)
  BY <1>11 DEF DeleteEntry
<1> QED
  BY <1>1, <1>2, <1>3, <1>4, <1>5, <1>6, <1>7, <1>8, <1>9, <1>10, <1>11
  DEF Drainer

LEMMA RowsNext == Typed /\ RowsInv /\ [Next]_vars => RowsInv'
<1> SUFFICES ASSUME Typed, RowsInv, [Next]_vars
             PROVE  RowsInv'
  OBVIOUS
<1> USE DEF RowsInv, Answered, Looping
<1>1. ASSUME NEW p \in Packets, Sender(p) \/ Expire(p)
      PROVE  RowsInv'
  BY <1>1, RowsSender DEF Expire
<1>2. ASSUME NEW d \in Drainers, Drainer(d)
      PROVE  RowsInv'
  BY <1>2, RowsDrainer
<1>3. CASE RegisterAdapter
  BY <1>3 DEF RegisterAdapter
<1>4. CASE Crash
  BY <1>4 DEF Crash
<1>5. CASE UNCHANGED vars
  BY <1>5
<1> QED
  BY <1>1, <1>2, <1>3, <1>4, <1>5 DEF Next

-----------------------------------------------------------------------------
(* The order of a drain                                                    *)

\* A row the loop is done with was delivered, has expired or is gone.
Gone(p) == p \in delivered \cup expired \/ p \notin queue

Ordered ==
  \A d \in Drainers :
    /\ \A p \in batch[d] \ (todo[d] \cup cur[d]) : Gone(p)
    /\ \A q \in cur[d], p \in todo[d] : at[q] <= at[p]
    /\ dpc[d] = "discard" => cur[d] \subseteq expired

OrderedInv == DeletesDelivered /\ Ordered

LEMMA OrderedSender ==
  ASSUME Typed, RowsInv, OrderedInv, NEW p \in Packets, Sender(p)
  PROVE  OrderedInv'
<1>1. UNCHANGED <<dpc, batch, todo, cur, expired>>
  BY DEF Sender, Submit, CheckRecipient, CheckSession, Send, Mark, ReadDepth, Evict, Insert,
         EnqueueFails
<1>2. delivered \subseteq delivered'
  BY DEF Sender, Submit, CheckRecipient, CheckSession, Send, Mark, ReadDepth, Evict, Insert,
         EnqueueFails
<1>3. \A d \in Drainers : p \notin batch[d]
  BY DEF Sender, Submit, CheckRecipient, CheckSession, Send, Mark, ReadDepth, Evict, Insert,
         EnqueueFails, RowsInv, Answered
<1>4. queue' \subseteq queue \cup {p}
  BY DEF Sender, Submit, CheckRecipient, CheckSession, Send, Mark, ReadDepth, Evict, Insert,
         EnqueueFails
<1>5. \A q \in Packets \ {p} : at'[q] = at[q]
  BY DEF Sender, Submit, CheckRecipient, CheckSession, Send, Mark, ReadDepth, Evict, Insert,
         EnqueueFails, Stamp, Typed, TypeOK
<1>6. \A d \in Drainers : /\ batch[d] \subseteq Packets \ {p}
                          /\ cur[d] \subseteq batch[d] /\ todo[d] \subseteq batch[d]
  BY <1>3 DEF RowsInv, Looping, Typed, TypeOK
<1>7. DeletesDelivered'
  BY <1>1, <1>2 DEF OrderedInv, DeletesDelivered
<1>8. \A q \in Packets \ {p} : Gone(q) => Gone(q)'
  BY <1>1, <1>2, <1>4 DEF Gone
<1>9. Ordered'
  BY <1>1, <1>5, <1>6, <1>8 DEF OrderedInv, Ordered
<1> QED
  BY <1>7, <1>9 DEF OrderedInv

LEMMA OrderedDrainer ==
  ASSUME Typed, RowsInv, OrderedInv, NEW d \in Drainers, Drainer(d)
  PROVE  OrderedInv'
<1> USE DEF Typed, TypeOK, RowsInv, Looping, OrderedInv, DeletesDelivered, Ordered, Gone
<1>1. ASSUME NEW s \in {"active", "disconnected"}, SessionEvent(d, s)
      PROVE  OrderedInv'
  BY <1>1 DEF SessionEvent
<1>2. CASE Persist(d)
  BY <1>2 DEF Persist
<1>3. CASE RegisterOperator(d)
  BY <1>3 DEF RegisterOperator
<1>4. CASE CheckDrain(d)
  BY <1>4 DEF CheckDrain
<1>5. CASE ListQueue(d)
  BY <1>5 DEF ListQueue
<1>6. CASE FetchEntry(d)
  BY <1>6 DEF FetchEntry, IsOldest
<1>7. CASE EndDrain(d)
  BY <1>7 DEF EndDrain
<1>8. CASE DiscardExpired(d)
  BY <1>8 DEF DiscardExpired
<1>9. CASE DrainSend(d)
  BY <1>9 DEF DrainSend, AbortDrain
<1>10. CASE DrainMark(d)
  BY <1>10 DEF DrainMark, AbortDrain
<1>11. CASE DeleteEntry(d)
  BY <1>11 DEF DeleteEntry
<1> QED
  BY <1>1, <1>2, <1>3, <1>4, <1>5, <1>6, <1>7, <1>8, <1>9, <1>10, <1>11
  DEF Drainer

LEMMA OrderedNext == Typed /\ RowsInv /\ OrderedInv /\ [Next]_vars => OrderedInv'
<1> SUFFICES ASSUME Typed, RowsInv, OrderedInv, [Next]_vars
             PROVE  OrderedInv'
  OBVIOUS
<1> USE DEF OrderedInv, DeletesDelivered, Ordered, Gone
<1>1. ASSUME NEW p \in Packets, Sender(p) \/ Expire(p)
      PROVE  OrderedInv'
  BY <1>1, OrderedSender DEF Expire
<1>2. ASSUME NEW d \in Drainers, Drainer(d)
      PROVE  OrderedInv'
  BY <1>2, OrderedDrainer
<1>3. CASE RegisterAdapter
  BY <1>3 DEF RegisterAdapter
<1>4. CASE Crash
  BY <1>4 DEF Crash
<1>5. CASE UNCHANGED vars
  BY <1>5
<1> QED
  BY <1>1, <1>2, <1>3, <1>4, <1>5 DEF Next

\* A drain delivers in FIFO order, whatever other drains, evictions, failed
\* sends and store errors do at the same time.
THEOREM DrainsInOrder == Spec => []DrainInOrder
<1>1. Init => OrderedInv
  BY DEF Init, OrderedInv, DeletesDelivered, Ordered
<1>2. Typed /\ RowsInv /\ OrderedInv => DrainInOrder
  <2> SUFFICES ASSUME Typed, RowsInv, OrderedInv, NEW d \in Drainers,
                      NEW q \in cur[d], NEW p \in batch[d], at[p] < at[q]
               PROVE  Gone(p)
    BY DEF DrainInOrder, Gone
  <2>1. p \in Packets /\ q \in Packets /\ at[p] \in Nat /\ at[q] \in Nat
    BY DEF Typed, TypeOK
  <2>2. p \notin todo[d]
    BY <2>1 DEF OrderedInv, Ordered
  <2>3. p \notin cur[d]
    BY <2>1 DEF RowsInv, Looping
  <2> QED
    BY <2>2, <2>3 DEF OrderedInv, Ordered
<1> QED
  BY TypedInit, TypedNext, RowsInit, RowsNext, OrderedNext, <1>1, <1>2, PTL DEF Spec

-----------------------------------------------------------------------------
(* What the operator gets twice                                            *)

Steady == crashes = 0 /\ faults = 0

\* A packet that is still to be sent, by its sender or by a drain, has not been
\* sent, and one that was sent is on the queue only until its drain deletes the
\* row; but for packets that two drains have ahead of them at once.
Unsent ==
  /\ resent \subseteq shared
  /\ \A p \in Packets : spc[p] \notin {"idle", "mark"} => p \notin sent
  /\ \A p \in (queue \cap sent) \ shared :
       \E d \in Drainers : p \in cur[d] /\ dpc[d] \in {"mark", "delete"}
  /\ \A d \in Drainers :
       /\ todo[d] \cap sent \subseteq shared
       /\ dpc[d] = "send" => cur[d] \cap sent \subseteq shared
  /\ \A d, e \in Drainers : d # e => Ahead(d) \cap Ahead(e) \subseteq shared

UnsentInv == Steady => Unsent

LEMMA UnsentSender ==
  ASSUME Typed, RowsInv, UnsentInv, NEW p \in Packets, Sender(p)
  PROVE  UnsentInv'
<1> SUFFICES ASSUME Steady'
             PROVE  Unsent'
  BY DEF UnsentInv
<1>s. Steady /\ Unsent /\ ~StoreFault
  <2>1. faults \in Nat /\ faults' \in {faults, faults + 1} /\ crashes' = crashes
    BY DEF Typed, TypeOK, Sender, Submit, CheckRecipient, CheckSession, Send, Mark, ReadDepth,
           Evict, Insert, EnqueueFails
  <2> QED
    BY <2>1 DEF Steady, UnsentInv, Typed, TypeOK
<1>i. /\ spc[p] # "idle" => p \notin queue /\ \A d \in Drainers : p \notin batch[d]
      /\ \A d \in Drainers : todo[d] \subseteq batch[d] /\ cur[d] \subseteq batch[d]
  BY DEF RowsInv, Answered, Looping
<1>u. UNCHANGED <<dpc, batch, todo, cur, shared>>
  BY DEF Sender, Submit, CheckRecipient, CheckSession, Send, Mark, ReadDepth, Evict, Insert,
         EnqueueFails
<1>a. \A d \in Drainers : Ahead(d)' = Ahead(d)
  BY <1>u DEF Ahead
<1> USE DEF Typed, TypeOK
<1>1. CASE Submit(p)
  <2>1. p \notin sent /\ UNCHANGED <<queue, sent, resent>>
    BY <1>1 DEF Submit
  <2>2. \A q \in Packets : spc'[q] \notin {"idle", "mark"} => q \notin sent
    BY <1>1, <1>s, <2>1 DEF Submit, Unsent
  <2> QED
    BY <1>a, <1>s, <1>u, <2>1, <2>2 DEF Unsent
<1>2. CASE \/ CheckRecipient(p) \/ CheckSession(p) \/ Mark(p) \/ ReadDepth(p) \/ Evict(p)
           \/ Insert(p)
  <2>1. sent' = sent /\ resent' = resent /\ queue' \subseteq queue \cup {p}
    BY <1>2 DEF CheckRecipient, CheckSession, Mark, ReadDepth, Evict, Insert
  <2>2. \A q \in Packets : spc'[q] \notin {"idle", "mark"} => q \notin sent
    BY <1>2, <1>s DEF CheckRecipient, CheckSession, Mark, ReadDepth, Evict, Insert, Unsent
  <2>3. p \in queue' /\ p \notin queue => p \notin sent
    BY <1>2, <1>s DEF CheckRecipient, CheckSession, Mark, ReadDepth, Evict, Insert, Unsent
  <2> QED
    BY <1>a, <1>s, <1>u, <2>1, <2>2, <2>3 DEF Unsent
<1>3. CASE Send(p)
  <2>1. /\ spc[p] = "send" /\ queue' = queue
        /\ \/ resent' = resent \cup (sent \cap {p}) /\ sent' = sent \cup {p} /\ GoTo(p, "mark")
           \/ resent' = resent /\ sent' = sent /\ (GoTo(p, "mark") \/ GoTo(p, "depth"))
    BY <1>3 DEF Send, Transmitted, NotTransmitted
  <2>2. p \notin sent
    BY <1>s, <2>1 DEF Unsent
  <2>3. resent' \subseteq resent
    BY <2>1, <2>2
  <2>4. sent' \subseteq sent \cup {p}
    BY <2>1
  <2>5. \A q \in Packets : spc'[q] \notin {"idle", "mark"} => q \notin sent'
    BY <1>s, <2>1, <2>2 DEF Unsent
  <2>6. p \notin queue /\ \A d \in Drainers : p \notin todo[d] /\ p \notin cur[d]
    BY <1>i, <2>1
  <2>7. /\ queue' \cap sent' \subseteq queue \cap sent
        /\ \A d \in Drainers : /\ todo'[d] \cap sent' \subseteq todo[d] \cap sent
                              /\ cur'[d] \cap sent' \subseteq cur[d] \cap sent
    BY <1>u, <2>1, <2>4, <2>6
  <2> QED
    BY <1>a, <1>s, <1>u, <2>3, <2>5, <2>7 DEF Unsent
<1>4. CASE EnqueueFails(p)
  BY <1>4, <1>s DEF EnqueueFails
<1> QED
  BY <1>1, <1>2, <1>3, <1>4 DEF Sender

LEMMA UnsentDrainer ==
  ASSUME Typed, RowsInv, NEW d \in Drainers, Drainer(d), ~StoreFault, Unsent
  PROVE  Unsent'
<1>t. /\ created \subseteq Packets /\ todo \in [Drainers -> SUBSET created]
      /\ cur \in [Drainers -> SUBSET created] /\ batch \in [Drainers -> SUBSET created]
      /\ dpc \in [Drainers -> DrainerSteps]
  BY DEF Typed, TypeOK
<1>u. spc' = spc
  BY DEF Drainer, SessionEvent, Persist, RegisterOperator, CheckDrain, ListQueue, FetchEntry,
         EndDrain, DiscardExpired, DrainSend, DrainMark, DeleteEntry
<1>r. /\ cur[d] \cap todo[d] = {} /\ \A p, q \in cur[d] : p = q
      /\ dpc[d] \notin {"send", "mark", "delete", "discard"} => cur[d] = {}
      /\ \A p \in Packets : spc[p] # "idle" => p \notin cur[d]
  BY DEF RowsInv, Looping, Answered
<1> USE DEF Unsent, Ahead
<1>1. CASE \/ \E s \in {"active", "disconnected"} : SessionEvent(d, s)
           \/ Persist(d) \/ RegisterOperator(d) \/ CheckDrain(d) \/ EndDrain(d)
  <2>1. /\ UNCHANGED <<queue, sent, resent, shared, todo, cur>>
        /\ dpc[d] \notin {"mark", "delete", "send"}
        /\ \E step \in {"persist", "list", "idle", "check"} : Run(d, step)
    BY <1>1 DEF SessionEvent, Persist, RegisterOperator, CheckDrain, EndDrain
  <2>2. dpc'[d] # "send" /\ \A e \in Drainers \ {d} : dpc'[e] = dpc[e]
    BY <1>t, <2>1
  <2> QED
    BY <1>u, <2>1, <2>2
<1>2. CASE ListQueue(d)
  <2>1. /\ UNCHANGED <<queue, sent, resent, cur>> /\ dpc[d] = "list"
        /\ todo' = [todo EXCEPT ![d] = queue] /\ Run(d, "next")
        /\ shared' = shared \cup (queue \cap UNION {Ahead(e) : e \in Drainers \ {d}})
    BY <1>2 DEF ListQueue
  <2>2. /\ todo'[d] = queue /\ cur[d] = {} /\ dpc'[d] = "next"
        /\ \A e \in Drainers \ {d} : todo'[e] = todo[e] /\ dpc'[e] = dpc[e]
    BY <1>r, <1>t, <2>1
  <2>3. shared \subseteq shared' /\ \A e \in Drainers \ {d} : queue \cap Ahead(e) \subseteq shared'
    BY <2>1
  <2>4. queue \cap sent \subseteq shared'
    <3> SUFFICES ASSUME NEW p \in queue \cap sent, p \notin shared
                 PROVE  p \in shared'
      BY <2>3
    <3>1. PICK e \in Drainers : p \in cur[e] /\ dpc[e] \in {"mark", "delete"}
      OBVIOUS
    <3> QED
      BY <2>1, <2>3, <3>1
  <2>5. \A e \in Drainers : todo'[e] \cap sent \subseteq shared'
    BY <2>2, <2>3, <2>4
  <2>6. \A e \in Drainers : dpc'[e] = "send" => cur[e] \cap sent \subseteq shared'
    BY <2>2, <2>3
  <2>7. \A e, f \in Drainers : e # f => Ahead(e)' \cap Ahead(f)' \subseteq shared'
    <3> SUFFICES ASSUME NEW e \in Drainers, NEW f \in Drainers, e # f
                 PROVE  Ahead(e)' \cap Ahead(f)' \subseteq shared'
      OBVIOUS
    <3>1. CASE e = d \/ f = d
      BY <2>1, <2>2, <2>3, <3>1
    <3>2. CASE e # d /\ f # d
      BY <2>1, <2>2, <2>3, <3>2
    <3> QED
      BY <3>1, <3>2
  <2> QED
    BY <1>u, <2>1, <2>3, <2>4, <2>5, <2>6, <2>7
<1>3. CASE FetchEntry(d)
  <2>1. PICK p \in todo[d] : /\ todo' = [todo EXCEPT ![d] = @ \ {p}]
                            /\ cur' = [cur EXCEPT ![d] = {p}]
    BY <1>3 DEF FetchEntry
  <2>2. UNCHANGED <<queue, sent, resent, shared>> /\ dpc[d] = "next"
    BY <1>3 DEF FetchEntry
  <2>3. /\ todo'[d] = todo[d] \ {p} /\ cur'[d] = {p} /\ cur[d] = {}
        /\ \A e \in Drainers \ {d} : todo'[e] = todo[e] /\ cur'[e] = cur[e] /\ dpc'[e] = dpc[e]
    BY <1>3, <1>r, <1>t, <2>1, <2>2 DEF FetchEntry
  <2>4. \A e \in Drainers : Ahead(e)' \subseteq Ahead(e)
    BY <2>3
  <2> QED
    BY <1>u, <2>2, <2>3, <2>4
<1>4. CASE DiscardExpired(d) \/ DeleteEntry(d)
  <2>1. /\ queue' = queue \ cur[d] /\ UNCHANGED <<sent, resent, shared, todo>>
        /\ cur' = [cur EXCEPT ![d] = {}] /\ Run(d, "next")
    BY <1>4 DEF DiscardExpired, DeleteEntry
  <2>2. /\ cur'[d] = {} /\ dpc'[d] = "next"
        /\ \A e \in Drainers \ {d} : cur'[e] = cur[e] /\ dpc'[e] = dpc[e]
    BY <1>t, <2>1
  <2> QED
    BY <1>u, <2>1, <2>2
<1>5. CASE DrainSend(d)
  <2>1. PICK p \in cur[d] :
          \/ /\ resent' = resent \cup (sent \cap {p}) /\ sent' = sent \cup {p}
             /\ Run(d, "mark") /\ UNCHANGED loops
          \/ resent' = resent /\ sent' = sent /\ Run(d, "mark") /\ UNCHANGED loops
          \/ resent' = resent /\ sent' = sent /\ AbortDrain(d)
    BY <1>5 DEF DrainSend, Transmitted, NotTransmitted
  <2>2. dpc[d] = "send" /\ UNCHANGED <<queue, shared>>
    BY <1>5 DEF DrainSend
  <2>3. /\ p \notin todo[d] /\ p \in Packets /\ spc[p] = "idle" /\ cur[d] = {p}
        /\ p \in sent => p \in shared
        /\ \A e \in Drainers \ {d} : p \in Ahead(e) => p \in shared
    BY <1>r, <1>t, <2>2
  <2>4. \A e \in Drainers \ {d} :
          /\ UNCHANGED <<todo[e], cur[e]>> /\ dpc'[e] = dpc[e]
          /\ cur[e] \cap {p} \subseteq shared /\ todo[e] \cap {p} \subseteq shared
    BY <1>t, <2>1, <2>3 DEF AbortDrain
  <2>5. CASE UNCHANGED loops /\ Run(d, "mark")
    BY <1>t, <1>u, <2>1, <2>2, <2>3, <2>4, <2>5
  <2>6. CASE resent' = resent /\ sent' = sent /\ AbortDrain(d)
    <3>1. todo'[d] = {} /\ cur'[d] = {} /\ dpc'[d] = "idle"
      BY <1>t, <2>6 DEF AbortDrain
    <3> QED
      BY <1>u, <2>2, <2>4, <2>6, <3>1
  <2> QED
    BY <2>1, <2>5, <2>6
<1>6. CASE DrainMark(d)
  <2>1. /\ UNCHANGED <<queue, sent, resent, shared, todo, cur>> /\ Run(d, "delete")
        /\ dpc[d] = "mark"
    BY <1>6 DEF DrainMark
  <2>2. dpc'[d] = "delete" /\ \A e \in Drainers \ {d} : dpc'[e] = dpc[e]
    BY <1>t, <2>1
  <2> QED
    BY <1>u, <2>1, <2>2
<1> QED
  BY <1>1, <1>2, <1>3, <1>4, <1>5, <1>6 DEF Drainer

\* Without a crash or a failed store call the operator gets a packet twice only
\* when two drains had its row ahead of them at once, whatever sends fail.
THEOREM SentOnce == Spec => []SentAtMostOnce
<1>1. Init => UnsentInv
  BY DEF Init, UnsentInv, Unsent, Ahead
<1>2. Typed /\ RowsInv /\ UnsentInv /\ [Next]_vars => UnsentInv'
  <2> SUFFICES ASSUME Typed, RowsInv, UnsentInv, [Next]_vars
               PROVE  UnsentInv'
    OBVIOUS
  <2>1. ASSUME NEW p \in Packets, Sender(p)
        PROVE  UnsentInv'
    BY <2>1, UnsentSender
  <2>2. ASSUME NEW d \in Drainers, Drainer(d)
        PROVE  UnsentInv'
    <3> SUFFICES ASSUME Steady'
                 PROVE  Unsent'
      BY DEF UnsentInv
    <3>1. crashes' = crashes /\ faults' \in {faults, faults + 1} /\ faults \in Nat
      BY <2>2 DEF Typed, TypeOK, Drainer, SessionEvent, Persist, RegisterOperator, CheckDrain,
           ListQueue, FetchEntry, EndDrain, DiscardExpired, DrainSend, DrainMark, DeleteEntry
    <3>2. Steady /\ ~StoreFault
      BY <3>1 DEF Steady
    <3> QED
      BY <2>2, <3>2, UnsentDrainer DEF UnsentInv
  <2>3. CASE (\E p \in Packets : Expire(p)) \/ RegisterAdapter \/ UNCHANGED vars
    BY <2>3 DEF Expire, RegisterAdapter, UnsentInv, Unsent, Steady, Ahead
  <2>4. CASE Crash
    BY <2>4 DEF Crash, UnsentInv, Steady, Typed, TypeOK
  <2> QED
    BY <2>1, <2>2, <2>3, <2>4 DEF Next
<1>3. UnsentInv => SentAtMostOnce
  BY DEF UnsentInv, Steady, Unsent, SentAtMostOnce
<1> QED
  BY TypedInit, TypedNext, RowsInit, RowsNext, <1>1, <1>2, <1>3, PTL DEF Spec

-----------------------------------------------------------------------------
(* What is marked delivered                                                *)

\* No drain finds rows before the adapter is registered.
NoBootWindow == Channel = "telegram" \/ MaxCrashes = 0

Given ==
  /\ delivered \subseteq sent
  /\ ~registered => /\ \A p \in Packets : spc[p] = "idle"
                    /\ Channel = "telegram" => \A d \in Drainers : dpc[d] = "idle"
                    /\ MaxCrashes = 0 => created = {}
  /\ \A p \in Packets : spc[p] = "mark" => p \in sent
  /\ \A d \in Drainers : dpc[d] \in {"mark", "delete"} => cur[d] \subseteq sent

\* A packet marked delivered was given to the adapter: always on Telegram, and
\* on WhatsApp in a process that has not restarted.
THEOREM DeliveredIsSent ==
  ASSUME NoBootWindow
  PROVE  Spec => []DeliveredWasSent
<1>1. Init => Given
  BY DEF Init, Given
<1>2. Typed /\ RowsInv /\ Given /\ [Next]_vars => Given'
  <2> SUFFICES ASSUME Typed, RowsInv, Given, [Next]_vars
               PROVE  Given'
    OBVIOUS
  <2> USE DEF Typed, TypeOK, Given, NoBootWindow
  <2>1. ASSUME NEW p \in Packets, Sender(p)
        PROVE  Given'
    <3>1. registered' = registered /\ UNCHANGED <<dpc, cur>> /\ registered
      BY <2>1 DEF Sender, Submit, CheckRecipient, CheckSession, Send, Mark, ReadDepth, Evict,
                  Insert, EnqueueFails
    <3>2. CASE Send(p)
      BY <3>1, <3>2 DEF Send, Transmitted, NotTransmitted
    <3>3. CASE Mark(p)
      BY <3>1, <3>3 DEF Mark
    <3>4. CASE \/ Submit(p) \/ CheckRecipient(p) \/ CheckSession(p) \/ ReadDepth(p) \/ Evict(p)
               \/ Insert(p) \/ EnqueueFails(p)
      BY <3>1, <3>4 DEF Submit, CheckRecipient, CheckSession, ReadDepth, Evict, Insert,
                        EnqueueFails
    <3> QED
      BY <2>1, <3>2, <3>3, <3>4 DEF Sender
  <2>2. ASSUME NEW d \in Drainers, Drainer(d)
        PROVE  Given'
    <3>1. CASE \/ \E s \in {"active", "disconnected"} : SessionEvent(d, s)
               \/ Persist(d) \/ RegisterOperator(d) \/ CheckDrain(d) \/ ListQueue(d)
               \/ FetchEntry(d) \/ EndDrain(d) \/ DiscardExpired(d) \/ DeleteEntry(d)
      BY <3>1 DEF SessionEvent, Persist, RegisterOperator, CheckDrain, ListQueue, FetchEntry,
                  EndDrain, DiscardExpired, DeleteEntry
    <3>2. CASE DrainSend(d)
      <4>1. registered
        BY <3>2 DEF DrainSend
      <4> QED
        BY <3>2, <4>1 DEF DrainSend, AbortDrain, Transmitted, NotTransmitted, RowsInv, Looping
    <3>3. CASE DrainMark(d)
      BY <3>3 DEF DrainMark, AbortDrain
    <3> QED
      BY <2>2, <3>1, <3>2, <3>3 DEF Drainer
  <2>3. CASE (\E p \in Packets : Expire(p)) \/ RegisterAdapter \/ UNCHANGED vars
    BY <2>3 DEF Expire, RegisterAdapter
  <2>4. CASE Crash
    BY <2>4 DEF Crash
  <2> QED
    BY <2>1, <2>2, <2>3, <2>4 DEF Next
<1>3. Given => DeliveredWasSent
  BY DEF Given, DeliveredWasSent
<1> QED
  BY TypedInit, TypedNext, RowsInit, RowsNext, <1>1, <1>2, <1>3, PTL DEF Spec

-----------------------------------------------------------------------------
(* The outbox                                                              *)

\* Where packet p stands, and the moves the outbox allows.
Moves(from, to) ==
  \/ from = "new" /\ to \in {"offered", "refused"}
  \/ from = "offered" /\ to \in {"refused", "owed", "delivered"}
  \/ from = "owed" /\ to \in {"dropped", "delivered"}
  \/ from = "dropped" /\ to = "delivered"

\* A step that leaves every packet but p where it stands, and moves p as the
\* outbox allows or not at all, is a step of the outbox or a stutter.
LEMMA OneMoves ==
  ASSUME NEW p \in Packets, \A q \in Packets \ {p} : Fate'[q] = Fate[q],
         Fate'[p] = Fate[p] \/ Moves(Fate[p], Fate'[p])
  PROVE  [Abstract!Next]_Fate
<1> DEFINE F == Fate
           G == Fate'
<1>1. F = [q \in Packets |-> F[q]] /\ G = [q \in Packets |-> G[q]]
  BY DEF Fate
<1>2. CASE G[p] = F[p]
  <2>1. \A q \in Packets : G[q] = F[q]
    BY <1>2
  <2> HIDE DEF F, G
  <2>2. G = F
    BY <1>1, <2>1
  <2> QED
    BY <2>2 DEF F, G
<1>3. CASE Moves(F[p], G[p])
  <2>1. \A q \in Packets \ {p} : G[q] = F[q]
    OBVIOUS
  <2> HIDE DEF F, G
  <2>2. G = [F EXCEPT ![p] = G[p]]
    BY <1>1, <2>1
  <2>3. \/ F[p] = "new" /\ (G[p] = "offered" \/ G[p] = "refused")
        \/ F[p] = "offered" /\ (G[p] = "refused" \/ G[p] = "owed" \/ G[p] = "delivered")
        \/ F[p] = "owed" /\ (G[p] = "dropped" \/ G[p] = "delivered")
        \/ F[p] = "dropped" /\ G[p] = "delivered"
    BY <1>3 DEF Moves
  <2>4. ASSUME NEW from, NEW to, F[p] \in from, G[p] = to
        PROVE  Abstract!Move(p, from, to)
    BY <2>2, <2>4 DEF F, G, Abstract!Move
  <2>5. \/ Abstract!Offer(p) \/ Abstract!Refuse(p) \/ Abstract!Owe(p) \/ Abstract!Drop(p)
        \/ Abstract!Deliver(p)
    BY <2>3, <2>4 DEF Abstract!Offer, Abstract!Refuse, Abstract!Owe, Abstract!Drop,
                      Abstract!Deliver
  <2> QED
    BY <2>5 DEF Abstract!Next
<1> QED
  BY <1>2, <1>3

LEMMA FateKept ==
  ASSUME UNCHANGED <<delivered, dropped, vanished, queue, outcome, created>>
  PROVE  [Abstract!Next]_Fate
BY DEF Fate

LEMMA OutboxSender ==
  ASSUME Typed, RowsInv, NEW p \in Packets, Sender(p)
  PROVE  [Abstract!Next]_Fate
<1> USE DEF Typed, TypeOK
<1>1. CASE Submit(p)
  <2>1. /\ p \notin created /\ outcome[p] = "none"
        /\ UNCHANGED <<delivered, dropped, vanished, queue>>
        /\ \A q \in Packets \ {p} : /\ outcome'[q] = outcome[q]
                                    /\ q \in created' <=> q \in created
        /\ \/ p \in created' /\ outcome'[p] = "none"
           \/ outcome'[p] = "refused"
    BY <1>1 DEF Submit
  <2>2. Fate[p] = "new" /\ Fate'[p] \in {"offered", "refused"}
    BY <2>1 DEF Fate
  <2>3. \A q \in Packets \ {p} : Fate'[q] = Fate[q]
    BY <2>1 DEF Fate
  <2> QED
    BY <2>2, <2>3, OneMoves DEF Moves
<1>2. CASE CheckRecipient(p) \/ CheckSession(p) \/ Send(p) \/ ReadDepth(p)
  BY <1>2, FateKept DEF CheckRecipient, CheckSession, Send, ReadDepth
<1>3. CASE Mark(p)
  <2>1. /\ outcome[p] = "none" /\ p \in created
        /\ UNCHANGED <<dropped, vanished, queue, created>>
        /\ \A q \in Packets \ {p} : /\ outcome'[q] = outcome[q]
                                    /\ q \in delivered' <=> q \in delivered
        /\ \/ p \in delivered'
           \/ outcome'[p] = outcome[p] /\ delivered' = delivered
    BY <1>3 DEF Mark, RowsInv, Answered, SendersCreated, InFlight
  <2>2. Fate'[p] = Fate[p] \/ Moves(Fate[p], Fate'[p])
    BY <2>1 DEF Fate, Moves
  <2>3. \A q \in Packets \ {p} : Fate'[q] = Fate[q]
    BY <2>1 DEF Fate
  <2> QED
    BY <2>2, <2>3, OneMoves
<1>4. CASE Evict(p)
  <2>1. CASE queue' = queue /\ dropped' = dropped
    BY <1>4, <2>1, FateKept DEF Evict
  <2>2. CASE \E old \in queue : queue' = queue \ {old} /\ dropped' = dropped \cup {old}
    <3>1. PICK old \in queue : queue' = queue \ {old} /\ dropped' = dropped \cup {old}
      BY <2>2
    <3>2. UNCHANGED <<delivered, vanished, outcome, created>> /\ old \in Packets
      BY <1>4 DEF Evict
    <3>3. Fate'[old] = Fate[old] \/ Moves(Fate[old], Fate'[old])
      BY <3>1, <3>2 DEF Fate, Moves
    <3>4. \A q \in Packets \ {old} : Fate'[q] = Fate[q]
      BY <3>1, <3>2 DEF Fate
    <3> QED
      BY <3>2, <3>3, <3>4, OneMoves
  <2> QED
    BY <1>4, <2>1, <2>2 DEF Evict
<1>5. CASE Insert(p)
  <2>1. /\ outcome[p] = "none" /\ p \in created /\ queue' = queue \cup {p}
        /\ UNCHANGED <<delivered, dropped, vanished, created>>
        /\ outcome'[p] = "accepted" /\ \A q \in Packets \ {p} : outcome'[q] = outcome[q]
    BY <1>5 DEF Insert, RowsInv, Answered, SendersCreated, InFlight
  <2>2. Fate'[p] = Fate[p] \/ Moves(Fate[p], Fate'[p])
    BY <2>1 DEF Fate, Moves
  <2>3. \A q \in Packets \ {p} : Fate'[q] = Fate[q]
    BY <2>1 DEF Fate
  <2> QED
    BY <2>2, <2>3, OneMoves
<1>6. CASE EnqueueFails(p)
  <2>1. /\ outcome[p] = "none" /\ p \in created
        /\ UNCHANGED <<delivered, dropped, vanished, queue, created>>
        /\ outcome'[p] = "refused" /\ \A q \in Packets \ {p} : outcome'[q] = outcome[q]
    BY <1>6 DEF EnqueueFails, RowsInv, Answered, SendersCreated, InFlight
  <2>2. Fate'[p] = Fate[p] \/ Moves(Fate[p], Fate'[p])
    BY <2>1 DEF Fate, Moves
  <2>3. \A q \in Packets \ {p} : Fate'[q] = Fate[q]
    BY <2>1 DEF Fate
  <2> QED
    BY <2>2, <2>3, OneMoves
<1> QED
  BY <1>1, <1>2, <1>3, <1>4, <1>5, <1>6 DEF Sender

LEMMA OutboxDrainer ==
  ASSUME Typed, RowsInv, DeletesDelivered, NEW d \in Drainers, Drainer(d)
  PROVE  [Abstract!Next]_Fate
<1> USE DEF Typed, TypeOK
<1>1. CASE \/ \E s \in {"active", "disconnected"} : SessionEvent(d, s)
           \/ Persist(d) \/ RegisterOperator(d) \/ CheckDrain(d) \/ ListQueue(d) \/ EndDrain(d)
           \/ DrainSend(d)
  BY <1>1, FateKept DEF SessionEvent, Persist, RegisterOperator, CheckDrain, ListQueue, EndDrain,
                        DrainSend
<1>2. CASE FetchEntry(d)
  <2>1. PICK p \in todo[d] :
          \/ UNCHANGED <<queue, vanished>>
          \/ queue' = queue \ {p} /\ vanished' = vanished \cup (queue \cap {p})
    BY <1>2 DEF FetchEntry
  <2>2. UNCHANGED <<delivered, dropped, outcome, created>> /\ p \in Packets
    BY <1>2 DEF FetchEntry
  <2>3. Fate'[p] = Fate[p] \/ Moves(Fate[p], Fate'[p])
    BY <2>1, <2>2 DEF Fate, Moves
  <2>4. \A q \in Packets \ {p} : Fate'[q] = Fate[q]
    BY <2>1, <2>2 DEF Fate
  <2> QED
    BY <2>2, <2>3, <2>4, OneMoves
<1>c. \A p \in cur[d] : /\ p \in Packets /\ p \in created /\ cur[d] = {p}
                        /\ outcome[p] = "accepted"
  BY DEF RowsInv, Looping, Answered
<1>3. CASE DiscardExpired(d)
  <2>1. CASE cur[d] = {}
    <3>1. UNCHANGED <<queue, dropped>>
      BY <1>3, <2>1 DEF DiscardExpired
    <3> QED
      BY <1>3, <3>1, FateKept DEF DiscardExpired
  <2>2. CASE cur[d] # {}
    <3>1. PICK p \in cur[d] : TRUE
      BY <2>2
    <3>2. /\ UNCHANGED <<delivered, vanished, outcome, created>>
          /\ \/ UNCHANGED <<queue, dropped>>
             \/ queue' = queue \ {p} /\ dropped' = dropped \cup (queue \cap {p})
      BY <1>3, <1>c, <3>1 DEF DiscardExpired
    <3>3. Fate'[p] = Fate[p] \/ Moves(Fate[p], Fate'[p])
      BY <1>c, <3>2 DEF Fate, Moves
    <3>4. \A q \in Packets \ {p} : Fate'[q] = Fate[q]
      BY <3>2 DEF Fate
    <3> QED
      BY <1>c, <3>3, <3>4, OneMoves
  <2> QED
    BY <2>1, <2>2
<1>4. CASE DrainMark(d)
  <2>1. CASE cur[d] = {}
    <3>1. delivered' = delivered
      BY <1>4, <2>1 DEF DrainMark
    <3> QED
      BY <1>4, <3>1, FateKept DEF DrainMark
  <2>2. CASE cur[d] # {}
    <3>1. PICK p \in cur[d] : TRUE
      BY <2>2
    <3>2. /\ UNCHANGED <<queue, dropped, vanished, outcome, created>>
          /\ delivered' = delivered \/ delivered' = delivered \cup {p}
      BY <1>4, <1>c, <3>1 DEF DrainMark
    <3>3. Fate'[p] = Fate[p] \/ Moves(Fate[p], Fate'[p])
      BY <1>c, <3>2 DEF Fate, Moves
    <3>4. \A q \in Packets \ {p} : Fate'[q] = Fate[q]
      BY <3>2 DEF Fate
    <3> QED
      BY <1>c, <3>3, <3>4, OneMoves
  <2> QED
    BY <2>1, <2>2
<1>5. CASE DeleteEntry(d)
  <2>1. cur[d] \subseteq delivered
    BY <1>5 DEF DeleteEntry, DeletesDelivered
  <2>2. /\ UNCHANGED <<delivered, dropped, vanished, outcome, created>>
        /\ \A q \in Packets : q \in delivered \/ (q \in queue' <=> q \in queue)
    BY <1>5, <2>1 DEF DeleteEntry
  <2>3. Fate' = Fate
    BY <2>2 DEF Fate
  <2> QED
    BY <2>3
<1> QED
  BY <1>1, <1>2, <1>3, <1>4, <1>5 DEF Drainer

\* The gateway implements the outbox: a packet it has answered for stays owed
\* until it is delivered or dropped, through every interleaving of senders,
\* drains, store errors and crashes.
THEOREM OutboxImplemented == Spec => ImplementsOutbox
<1>1. Init => Abstract!Init
  BY DEF Init, Abstract!Init, Fate
<1>2. Typed /\ RowsInv /\ LossInv /\ [Next]_vars => [Abstract!Next]_Fate
  <2> SUFFICES ASSUME Typed, RowsInv, LossInv, [Next]_vars
               PROVE  [Abstract!Next]_Fate
    OBVIOUS
  <2>1. ASSUME NEW p \in Packets, Sender(p)
        PROVE  [Abstract!Next]_Fate
    BY <2>1, OutboxSender
  <2>2. ASSUME NEW d \in Drainers, Drainer(d)
        PROVE  [Abstract!Next]_Fate
    BY <2>2, OutboxDrainer DEF LossInv
  <2>3. CASE (\E p \in Packets : Expire(p)) \/ RegisterAdapter \/ Crash \/ UNCHANGED vars
    BY <2>3, FateKept DEF Expire, RegisterAdapter, Crash
  <2> QED
    BY <2>1, <2>2, <2>3 DEF Next
<1>3. Spec => [](Typed /\ RowsInv /\ LossInv)
  BY TypedInit, TypedNext, RowsInit, RowsNext, LossInit, LossNext, PTL DEF Spec
<1> QED
  BY <1>1, <1>2, <1>3, PTL DEF Spec, ImplementsOutbox, Abstract!Spec
=============================================================================
