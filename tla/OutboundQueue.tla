---------------------------- MODULE OutboundQueue ----------------------------
(***************************************************************************)
(* The durable outbound queue of the gateway (internal/app/gateway.go) for *)
(* one tenant and one channel.                                             *)
(*                                                                         *)
(* A packet p is sent by one goroutine, the sender p, that runs            *)
(* SendApprovalPacket once.  A drainer is a goroutine that reports a       *)
(* session transition (NotifySessionStatus) or that has just registered an *)
(* operator (DrainQueue).  One step is one store call, one adapter call or *)
(* one access to the gateway's own memory, so that every interleaving of   *)
(* the goroutines is a behaviour.  The queue rows, the packet rows and the *)
(* channel binding survive a crash; the gateway's session map, its adapter *)
(* registry and the goroutines do not.                                     *)
(***************************************************************************)
EXTENDS Naturals, FiniteSets

CONSTANTS Packets,         \* review packets, each with an ID of its own
          Drainers,        \* goroutines that can run a drain
          Channel,         \* what preferredChannel resolves the tenant to
          OutboundQueueMax,
          MaxInFlight,     \* SendApprovalPacket calls in progress at once
          MaxCrashes,      \* process crashes
          MaxStoreFaults,  \* store calls that return an error
          SendMayFail      \* may the adapter refuse a send?

ASSUME ConstantsAssumption ==
  /\ IsFiniteSet(Packets)
  /\ Channel \in {"whatsapp", "telegram"}
  /\ OutboundQueueMax \in Nat \ {0}
  /\ MaxInFlight \in Nat \ {0}
  /\ MaxCrashes \in Nat
  /\ MaxStoreFaults \in Nat
  /\ SendMayFail \in BOOLEAN

VARIABLES
  \* The store.
  created,        \* packets with a review_packets row
  expired,        \* packets whose ExpiresAt is in the past
  delivered,      \* packets whose row says Delivered
  queue,          \* packets with an outbound_queue row
  at,             \* EnqueuedAt of the row of a packet
  identity,       \* does the binding name an operator to send to?
  bindingStatus,  \* SessionStatus of the channel binding
  \* The gateway.
  status,         \* tenantStatus, "none" when the map has no entry
  registered,     \* is the channel's adapter in the registry?
  \* The goroutines.
  spc, outcome,   \* of the senders: where they are, what the call returned
  dpc, note,      \* of the drainers: where they are, the transition reported,
  batch, todo,    \* the rows ListOutboundQueue returned, those still ahead,
  cur,            \* and the one the loop is at ({} or a singleton)
  \* History and bounds.
  sent, resent,   \* packets the adapter accepted once, more than once
  shared,         \* packets that two drains had ahead of them at once
  dropped,        \* packets removed from the queue by overflow or expiry
  vanished,       \* packets removed because they could not be read
  clock,          \* the time, advanced when it is read
  crashes, faults

packets == <<created, expired>>
binding == <<identity, bindingStatus>>
store == <<packets, delivered, queue, at, binding>>
gateway == <<status, registered>>
senders == <<spc, outcome>>
loops == <<batch, todo, cur>>
drainers == <<dpc, note, loops>>
sends == <<sent, resent>>
history == <<sends, shared, dropped, vanished>>
bounds == <<clock, crashes, faults>>
vars == <<store, gateway, senders, drainers, history, bounds>>

-----------------------------------------------------------------------------
(* Types                                                                   *)

SessionStatuses == {"none", "active", "disconnected"}
SenderSteps == {"idle", "recipient", "gate", "send", "mark", "depth", "evict",
                "insert"}
DrainerSteps == {"idle", "persist", "check", "list", "next", "send", "mark",
                 "delete", "discard"}
Outcomes == {"none", "accepted", "refused"}
Notes == [to : SessionStatuses, drains : BOOLEAN]
NoNote == [to |-> "none", drains |-> FALSE]

TypeOK ==
  /\ created \subseteq Packets
  /\ expired \subseteq created
  /\ delivered \subseteq created
  /\ queue \subseteq created
  /\ at \in [Packets -> Nat]
  /\ identity \in BOOLEAN
  /\ bindingStatus \in SessionStatuses
  /\ status \in SessionStatuses
  /\ registered \in BOOLEAN
  /\ spc \in [Packets -> SenderSteps]
  /\ outcome \in [Packets -> Outcomes]
  /\ dpc \in [Drainers -> DrainerSteps]
  /\ note \in [Drainers -> Notes]
  /\ batch \in [Drainers -> SUBSET created]
  /\ todo \in [Drainers -> SUBSET created]
  /\ cur \in [Drainers -> SUBSET created]
  /\ sent \subseteq created
  /\ resent \subseteq sent
  /\ shared \subseteq created
  /\ dropped \subseteq created
  /\ vanished \subseteq created
  /\ clock \in Nat
  /\ crashes \in 0..MaxCrashes
  /\ faults \in 0..MaxStoreFaults

Init ==
  /\ created = {} /\ expired = {} /\ delivered = {} /\ queue = {}
  /\ at = [p \in Packets |-> 0]
  /\ identity \in BOOLEAN
  /\ bindingStatus = "none"
  /\ status = "none" /\ registered = FALSE
  /\ spc = [p \in Packets |-> "idle"]
  /\ outcome = [p \in Packets |-> "none"]
  /\ dpc = [d \in Drainers |-> "idle"]
  /\ note = [d \in Drainers |-> NoNote]
  /\ batch = [d \in Drainers |-> {}]
  /\ todo = [d \in Drainers |-> {}]
  /\ cur = [d \in Drainers |-> {}]
  /\ sent = {} /\ resent = {} /\ shared = {} /\ dropped = {} /\ vanished = {}
  /\ clock = 0 /\ crashes = 0 /\ faults = 0

\* canDeliverNow: a Telegram session that was never reported counts as ready.
CanDeliverNow ==
  \/ status = "active"
  \/ status = "none" /\ Channel = "telegram"

-----------------------------------------------------------------------------
(* The store calls (internal/store/postgres; the in-memory store agrees)   *)

MarkReviewPacketDelivered(S) == delivered' = delivered \cup S

EnqueueOutbound(p) == queue' = queue \cup {p}

DeleteOutboundQueueEntry(S) == queue' = queue \ S

\* ListOutboundQueue orders the rows by EnqueuedAt.
IsOldest(p, S) == p \in S /\ \A q \in S : at[p] <= at[q]

DeleteOldestOutboundQueueEntry ==
  \/ queue = {} /\ UNCHANGED <<queue, dropped>>
  \/ \E old \in queue :
       /\ IsOldest(old, queue)
       /\ DeleteOutboundQueueEntry({old})
       /\ dropped' = dropped \cup {old}

\* A store call that returns an error.
StoreFault == faults < MaxStoreFaults /\ faults' = faults + 1

-----------------------------------------------------------------------------
(* The adapter, the clock and the goroutines                               *)

\* Mutation of Transmitted: the adapter's error is swallowed.
TransmittedOrNot(p) ==
  \/ registered /\ identity /\ sent' = sent \cup {p} /\ UNCHANGED resent
  \/ SendMayFail /\ UNCHANGED <<sent, resent>>

\* The adapter part of deliverPacket returned no error for packet p.  With no
\* adapter in the registry the code skips the send and carries on.
Transmitted(p) ==
  \/ /\ registered /\ identity
     /\ sent' = sent \cup {p}
     /\ resent' = resent \cup (sent \cap {p})
  \/ /\ ~registered
     /\ UNCHANGED <<sent, resent>>

\* The adapter part of deliverPacket returns an error: no operator to send to,
\* or a send (or the binding lookup before it) that fails.
NotTransmitted ==
  /\ registered
  /\ SendMayFail \/ ~identity
  /\ UNCHANGED <<sent, resent>>

GoTo(p, step) == spc' = [spc EXCEPT ![p] = step]
Return(p, result) ==
  /\ GoTo(p, "idle")
  /\ outcome' = [outcome EXCEPT ![p] = result]

Run(d, step) == dpc' = [dpc EXCEPT ![d] = step]

\* Mutation of Stamp: the row is dated before the time it was made.
StampEarly(p) == at' = [at EXCEPT ![p] = clock - 1] /\ clock' = clock + 1

\* The clock is read when the row to insert is built.
Stamp(p) ==
  /\ at' = [at EXCEPT ![p] = clock]
  /\ clock' = clock + 1

-----------------------------------------------------------------------------
(* SendApprovalPacket                                                      *)

InFlight == {p \in Packets : spc[p] # "idle"}

\* CreateReviewPacket.  The HTTP server starts after the adapters are
\* registered, so no packet is sent before that.
Submit(p) ==
  /\ registered
  /\ spc[p] = "idle" /\ outcome[p] = "none" /\ p \notin created
  /\ Cardinality(InFlight) < MaxInFlight
  /\ \/ /\ created' = created \cup {p}
        /\ GoTo(p, "recipient")
        /\ UNCHANGED <<outcome, faults>>
     \/ StoreFault /\ Return(p, "refused") /\ UNCHANGED created
  /\ UNCHANGED <<expired, delivered, queue, at, binding, gateway, drainers,
                 history, clock, crashes>>

\* hasOperatorRecipient; a binding that cannot be read counts as having one.
CheckRecipient(p) ==
  /\ spc[p] = "recipient"
  /\ \/ GoTo(p, IF identity THEN "gate" ELSE "depth") /\ UNCHANGED faults
     \/ StoreFault /\ GoTo(p, "gate")
  /\ UNCHANGED <<store, gateway, outcome, drainers, history, clock, crashes>>

CheckSession(p) ==
  /\ spc[p] = "gate"
  /\ GoTo(p, IF CanDeliverNow THEN "send" ELSE "depth")
  /\ UNCHANGED <<store, gateway, outcome, drainers, history, bounds>>

\* deliverPacket up to the adapter's answer; a refusal falls back to the queue.
Send(p) ==
  /\ spc[p] = "send"
  /\ \/ Transmitted(p) /\ GoTo(p, "mark")
     \/ NotTransmitted /\ GoTo(p, "depth")
  /\ UNCHANGED <<store, gateway, outcome, drainers, shared, dropped, vanished,
                 bounds>>

\* MarkReviewPacketDelivered and the packet_sent audit; an error of either
\* makes the caller queue the packet it has just sent.
Mark(p) ==
  /\ spc[p] = "mark"
  /\ \/ MarkReviewPacketDelivered({p}) /\ Return(p, "accepted") /\ UNCHANGED faults
     \/ StoreFault /\ GoTo(p, "depth") /\ UNCHANGED <<delivered, outcome>>
     \/ StoreFault /\ GoTo(p, "depth") /\ MarkReviewPacketDelivered({p})
        /\ UNCHANGED outcome
  /\ UNCHANGED <<packets, queue, at, binding, gateway, drainers, history,
                 clock, crashes>>

\* Mutation of QueueFull: room is made one row too late.
QueueFullLate == Cardinality(queue) > OutboundQueueMax

QueueFull == Cardinality(queue) >= OutboundQueueMax

\* enqueuePacket reads the depth of the queue ...
ReadDepth(p) ==
  /\ spc[p] = "depth"
  /\ IF QueueFull
       THEN GoTo(p, "evict") /\ UNCHANGED <<at, clock>>
       ELSE GoTo(p, "insert") /\ Stamp(p)
  /\ UNCHANGED <<packets, delivered, queue, binding, gateway, outcome,
                 drainers, history, crashes, faults>>

\* ... makes room by deleting the oldest row, if there still is one ...
Evict(p) ==
  /\ spc[p] = "evict"
  /\ DeleteOldestOutboundQueueEntry
  /\ GoTo(p, "insert") /\ Stamp(p)
  /\ UNCHANGED <<packets, delivered, binding, gateway, outcome, drainers,
                 sends, shared, vanished, crashes, faults>>

\* ... and inserts the row.
Insert(p) ==
  /\ spc[p] = "insert"
  /\ EnqueueOutbound(p)
  /\ Return(p, "accepted")
  /\ UNCHANGED <<packets, delivered, at, binding, gateway, drainers, history,
                 bounds>>

\* Any of the three calls of enqueuePacket fails: the caller gets the error.
EnqueueFails(p) ==
  /\ spc[p] \in {"depth", "evict", "insert"}
  /\ StoreFault /\ Return(p, "refused")
  /\ UNCHANGED <<store, gateway, drainers, history, clock, crashes>>

Sender(p) ==
  \/ Submit(p)
  \/ CheckRecipient(p)
  \/ CheckSession(p)
  \/ Send(p)
  \/ Mark(p)
  \/ ReadDepth(p)
  \/ Evict(p)
  \/ Insert(p)
  \/ EnqueueFails(p)

-----------------------------------------------------------------------------
(* NotifySessionStatus, DrainQueue and the drain they share                *)

\* Mutation of StartsDrain: only the first activation drains.
StartsDrainOnce(s) == s = "active" /\ status = "none"

StartsDrain(s) == s = "active" /\ status # "active"

\* NotifySessionStatus swaps the in-memory status.  Telegram reports no
\* transition before its adapter is registered; WhatsApp's Restore does.
SessionEvent(d, s) ==
  /\ dpc[d] = "idle"
  /\ registered \/ Channel = "whatsapp"
  /\ status' = s
  /\ note' = [note EXCEPT ![d] = [to |-> s, drains |-> StartsDrain(s)]]
  /\ Run(d, "persist")
  /\ UNCHANGED <<store, registered, senders, loops, history, bounds>>

\* UpdateChannelSessionStatus, whose error is ignored; then drain or not.
Persist(d) ==
  /\ dpc[d] = "persist"
  /\ \/ bindingStatus' = note[d].to /\ UNCHANGED faults
     \/ StoreFault /\ UNCHANGED bindingStatus
  /\ Run(d, IF note[d].drains THEN "list" ELSE "idle")
  /\ note' = [note EXCEPT ![d] = NoNote]
  /\ UNCHANGED <<packets, delivered, queue, at, identity, gateway, senders,
                 loops, history, clock, crashes>>

\* `register me as operator`: the binding gets an operator to send to.
RegisterOperator(d) ==
  /\ dpc[d] = "idle" /\ registered /\ ~identity /\ Channel = "whatsapp"
  /\ identity' = TRUE
  /\ Run(d, "check")
  /\ UNCHANGED <<packets, delivered, queue, at, bindingStatus, gateway,
                 senders, note, loops, history, bounds>>

\* DrainQueue gives up when the session is not active.
CheckDrain(d) ==
  /\ dpc[d] = "check"
  /\ Run(d, IF CanDeliverNow THEN "list" ELSE "idle")
  /\ UNCHANGED <<store, gateway, senders, note, loops, history, bounds>>

\* The rows a drain has listed and not yet done with.
Ahead(d) == todo[d] \cup cur[d]

\* The drain works on the rows of one ListOutboundQueue call; another drain may
\* be at work on some of them.
ListQueue(d) ==
  /\ dpc[d] = "list"
  /\ \/ /\ batch' = [batch EXCEPT ![d] = queue]
        /\ todo' = [todo EXCEPT ![d] = queue]
        /\ shared' = shared \cup (queue \cap UNION {Ahead(e) : e \in Drainers \ {d}})
        /\ Run(d, "next") /\ UNCHANGED faults
     \/ StoreFault /\ Run(d, "idle") /\ UNCHANGED <<batch, todo, shared>>
  /\ UNCHANGED <<store, gateway, senders, note, cur, sends, dropped, vanished,
                 clock, crashes>>

\* The head of the loop: the oldest listed row left, and its packet.  When the
\* packet cannot be read, whatever the error, the row is deleted.
FetchEntry(d) ==
  /\ dpc[d] = "next"
  /\ \E p \in todo[d] :
       /\ IsOldest(p, todo[d])
       /\ todo' = [todo EXCEPT ![d] = @ \ {p}]
       /\ \/ /\ cur' = [cur EXCEPT ![d] = {p}]
             /\ Run(d, IF p \in expired THEN "discard" ELSE "send")
             /\ UNCHANGED <<queue, vanished, faults>>
          \/ /\ StoreFault
             /\ DeleteOutboundQueueEntry({p})
             /\ vanished' = vanished \cup (queue \cap {p})
             /\ UNCHANGED <<cur, dpc>>
  /\ UNCHANGED <<packets, delivered, at, binding, gateway, senders, note,
                 batch, sends, shared, dropped, clock, crashes>>

EndDrain(d) ==
  /\ dpc[d] = "next" /\ todo[d] = {}
  /\ Run(d, "idle")
  /\ batch' = [batch EXCEPT ![d] = {}]
  /\ UNCHANGED <<store, gateway, senders, note, todo, cur, history, bounds>>

\* Mutation of AbortDrain: the loop skips the row and goes on.
SkipEntry(d) ==
  /\ Run(d, "next")
  /\ cur' = [cur EXCEPT ![d] = {}]
  /\ UNCHANGED <<batch, todo>>

\* An error ends the drain and leaves the row where it is.
AbortDrain(d) ==
  /\ Run(d, "idle")
  /\ batch' = [batch EXCEPT ![d] = {}]
  /\ todo' = [todo EXCEPT ![d] = {}]
  /\ cur' = [cur EXCEPT ![d] = {}]

\* An expired packet loses its row (packet_tombstoned, expired_in_queue).
DiscardExpired(d) ==
  /\ dpc[d] = "discard"
  /\ \/ /\ DeleteOutboundQueueEntry(cur[d])
        /\ dropped' = dropped \cup (queue \cap cur[d])
        /\ UNCHANGED faults
     \/ StoreFault /\ UNCHANGED <<queue, dropped>>
  /\ Run(d, "next")
  /\ cur' = [cur EXCEPT ![d] = {}]
  /\ UNCHANGED <<packets, delivered, at, binding, gateway, senders, note,
                 batch, todo, sends, shared, vanished, clock, crashes>>

\* Mutation of DrainSend: the row is deleted whatever the adapter says.
DrainSendIgnores(d) ==
  /\ dpc[d] = "send"
  /\ \E p \in cur[d] : Transmitted(p) \/ NotTransmitted
  /\ Run(d, "delete")
  /\ UNCHANGED <<store, gateway, senders, note, loops, shared, dropped, vanished,
                 bounds>>

\* deliverPacket inside the loop: an error ends the drain, the row stays.
DrainSend(d) ==
  /\ dpc[d] = "send"
  /\ \E p \in cur[d] :
       \/ Transmitted(p) /\ Run(d, "mark") /\ UNCHANGED loops
       \/ NotTransmitted /\ AbortDrain(d)
  /\ UNCHANGED <<store, gateway, senders, note, shared, dropped, vanished, bounds>>

DrainMark(d) ==
  /\ dpc[d] = "mark"
  /\ \/ /\ MarkReviewPacketDelivered(cur[d])
        /\ Run(d, "delete") /\ UNCHANGED <<loops, faults>>
     \/ StoreFault /\ AbortDrain(d) /\ UNCHANGED delivered
     \/ StoreFault /\ AbortDrain(d) /\ MarkReviewPacketDelivered(cur[d])
  /\ UNCHANGED <<packets, queue, at, binding, gateway, senders, note,
                 history, clock, crashes>>

\* Mutation of DeleteEntry: a delivered packet keeps its row.
KeepEntry(d) ==
  /\ dpc[d] = "delete"
  /\ Run(d, "next")
  /\ cur' = [cur EXCEPT ![d] = {}]
  /\ UNCHANGED <<store, gateway, senders, note, batch, todo, history,
                 bounds>>

\* DeleteOutboundQueueEntry after a delivery; its error is ignored.
DeleteEntry(d) ==
  /\ dpc[d] = "delete"
  /\ \/ DeleteOutboundQueueEntry(cur[d]) /\ UNCHANGED faults
     \/ StoreFault /\ UNCHANGED queue
  /\ Run(d, "next")
  /\ cur' = [cur EXCEPT ![d] = {}]
  /\ UNCHANGED <<packets, delivered, at, binding, gateway, senders, note,
                 batch, todo, history, clock, crashes>>

Drainer(d) ==
  \/ \E s \in {"active", "disconnected"} : SessionEvent(d, s)
  \/ Persist(d)
  \/ RegisterOperator(d)
  \/ CheckDrain(d)
  \/ ListQueue(d)
  \/ FetchEntry(d)
  \/ EndDrain(d)
  \/ DiscardExpired(d)
  \/ DrainSend(d)
  \/ DrainMark(d)
  \/ DeleteEntry(d)

-----------------------------------------------------------------------------
(* The process and the time                                                *)

\* main registers the channel's adapter after it has restored the sessions.
RegisterAdapter ==
  /\ ~registered
  /\ registered' = TRUE
  /\ UNCHANGED <<store, status, senders, drainers, history, bounds>>

\* The process dies and starts again.
Crash ==
  /\ crashes < MaxCrashes
  /\ crashes' = crashes + 1
  /\ status' = "none" /\ registered' = FALSE
  /\ spc' = [p \in Packets |-> "idle"]
  /\ dpc' = [d \in Drainers |-> "idle"]
  /\ note' = [d \in Drainers |-> NoNote]
  /\ batch' = [d \in Drainers |-> {}]
  /\ todo' = [d \in Drainers |-> {}]
  /\ cur' = [d \in Drainers |-> {}]
  /\ UNCHANGED <<store, outcome, history, clock, faults>>

\* ExpiresAt of a packet passes.
Expire(p) ==
  /\ p \in created \ expired
  /\ expired' = expired \cup {p}
  /\ UNCHANGED <<created, delivered, queue, at, binding, gateway, senders,
                 drainers, history, bounds>>

Next ==
  \/ \E p \in Packets : Sender(p) \/ Expire(p)
  \/ \E d \in Drainers : Drainer(d)
  \/ RegisterAdapter
  \/ Crash

Spec == Init /\ [][Next]_vars

\* Goroutines that have work to do run.  Nothing makes a session event, an
\* operator's registration, a crash or an expiry happen.
FairSpec ==
  /\ Spec
  /\ WF_vars(RegisterAdapter)
  /\ \A p \in Packets : WF_vars(spc[p] # "idle" /\ Sender(p))
  /\ \A d \in Drainers : WF_vars(dpc[d] # "idle" /\ Drainer(d))

\* Besides, the session is lost and re-established again and again and the
\* adapter does not refuse every send of a drain.
ReconnectingSpec ==
  /\ FairSpec
  /\ \A d \in Drainers :
       /\ SF_vars(SessionEvent(d, "active") /\ status # "active")
       /\ SF_vars(SessionEvent(d, "disconnected"))
       /\ SF_vars(DrainSend(d) /\ dpc'[d] = "mark")
       /\ SF_vars(RegisterOperator(d))

-----------------------------------------------------------------------------
(* Properties                                                              *)

\* A packet whose SendApprovalPacket succeeded is on the queue, was delivered,
\* or left the queue by overflow, expiry or a read error of the drain, whatever
\* the senders, the drains, failed sends, store errors and crashes do.
LossIsAccounted ==
  \A p \in Packets : outcome[p] = "accepted" =>
    p \in queue \cup delivered \cup dropped \cup vanished

\* A packet marked delivered was given to the adapter (deliverPacket).
DeliveredWasSent == delivered \subseteq sent

\* A drain delivers in FIFO order: when it sends a row, every row it listed
\* ahead of it has been delivered, has expired or is gone from the queue, also
\* when sends fail and other drains and evictions run at the same time.
DrainInOrder ==
  \A d \in Drainers : dpc[d] \in {"send", "mark", "delete"} =>
    \A q \in cur[d], p \in batch[d] :
      at[p] < at[q] => p \in delivered \cup expired \/ p \notin queue

\* Senders that are past the depth check and have not inserted yet.
Inserting == {p \in Packets : spc[p] = "insert"}

\* The cap is exceeded by at most the number of concurrent senders less one,
\* the inserts still to come included (enqueuePacket checks, then inserts).
QueueBound ==
  Cardinality(queue) + Cardinality(Inserting) <= OutboundQueueMax + MaxInFlight - 1

\* Without a crash or a failed store call the operator gets a packet twice only
\* if two drains, of a reconnect and a registration, worked on its row at once:
\* a failed send is retried, a good one is not.
SentAtMostOnce == crashes = 0 /\ faults = 0 => resent \subseteq shared

\* A queued packet leaves the queue, by delivery or by a drop, as long as the
\* session keeps coming back ("the next reconnect retries it").
QueueEventuallyDrains ==
  \A p \in Packets : p \in queue ~> p \notin queue

\* Where each packet stands in the abstract outbox.
Fate ==
  [p \in Packets |->
     IF p \in delivered THEN "delivered"
     ELSE IF p \in dropped \cup vanished THEN "dropped"
     ELSE IF p \in queue THEN "owed"
     ELSE IF outcome[p] = "refused" THEN "refused"
     ELSE IF p \in created THEN "offered"
     ELSE "new"]

Abstract == INSTANCE Outbox WITH fate <- Fate

\* The gateway implements the outbox of Outbox.tla.
ImplementsOutbox == Abstract!Spec
=============================================================================
