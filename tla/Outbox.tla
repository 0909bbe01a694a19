------------------------------- MODULE Outbox -------------------------------
(***************************************************************************)
(* What the gateway promises about review packets, with no queue, session  *)
(* or goroutine in sight: a packet the gateway has taken responsibility    *)
(* for stays owed to the operator until it is delivered or dropped         *)
(* (overflow, expiry, or a packet that cannot be read).  OutboundQueue.tla *)
(* is shown to implement this.                                             *)
(***************************************************************************)
CONSTANT Packets

VARIABLE fate

Fates == {"new", "offered", "refused", "owed", "dropped", "delivered"}

Init == fate = [p \in Packets |-> "new"]

Move(p, from, to) ==
  /\ fate[p] \in from
  /\ fate' = [fate EXCEPT ![p] = to]

\* The packet is persisted; its sender has not answered yet.
Offer(p) == Move(p, {"new"}, "offered")

\* The sender reports an error: the caller knows the packet is not queued.
Refuse(p) == Move(p, {"new", "offered"}, "refused")

\* The packet is put on the durable queue.
Owe(p) == Move(p, {"offered"}, "owed")

\* Overflow, expiry or a read error removes an owed packet.
Drop(p) == Move(p, {"owed"}, "dropped")

\* A drain that had already picked the packet up may still deliver it.
Deliver(p) == Move(p, {"offered", "owed", "dropped"}, "delivered")

Next == \E p \in Packets :
          \/ Offer(p)
          \/ Refuse(p)
          \/ Owe(p)
          \/ Drop(p)
          \/ Deliver(p)

Spec == Init /\ [][Next]_fate
=============================================================================
