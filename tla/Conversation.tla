----------------------------- MODULE Conversation -----------------------------
(***************************************************************************)
(* The conversation with a tenant's operators over WhatsApp: what becomes  *)
(* of a message (dispatchInbound in internal/channel/whatsapp/adapter.go,  *)
(* HandleWhatsAppInbound and what it calls in internal/app/app.go), next to*)
(* the API calls that change the binding (Binding.tla) or start cases.     *)
(* WhatsApp hands over one message at a time; the handler takes a step for *)
(* every access to the binding, to the packets and to the network.  A      *)
(* message is written when its handler reads the binding.  How a reply is  *)
(* recorded is in Replies.tla, how a packet is queued and drained in       *)
(* OutboundQueue.tla, a case in Ingest.tla; here each is one step.         *)
(***************************************************************************)
EXTENDS Binding, FiniteSetsExt

CONSTANTS MaxPackets,
          RingSize,   \* the IDs a client remembers, newSentIDs(64)
          MaxEvents   \* messages written, calls and crashes

ASSUME ConversationAssumption ==
  MaxPackets \in Nat /\ RingSize \in Nat \ {0} /\ MaxEvents \in Nat

VARIABLES
  packet,    \* where each review packet is; they are created in order
  followup,  \* gateway.pendingFollowups[tenant]: {} or a singleton
  pc,        \* where the message handler is
  msg, copy, \* its message and the row it has read
  decision,  \* what it is about to record
  again,     \* a message that will be delivered again: {} or a singleton
  ring,      \* tenantClient.recentSent, oldest first; 0 is another ID or none
  \* History and bounds.
  later,     \* how many IDs the client recorded after a packet's, if it did that
  question,  \* the question put to the operators last and not answered
  events

handler == <<pc, msg, copy, decision>>
sent == <<ring, later>>
conversationVars == <<packet, followup, handler, again, sent, question, events>>
vars == <<bindingVars, conversationVars>>

Packets == 1..MaxPackets
Latest == Cardinality({p \in Packets : packet[p] # "none"})
Shown == {p \in Packets : packet[p] = "shown"}

Commands == {"register", "add", "remove", "pause", "resume"}
Replies == {"yes", "no", "reason", "promote", "approve_tap", "fix_tap"}
Actions == {"approve", "wrong_action", "fix"}

\* A decision about packet 0 has no packet yet.
Decision == [packet : 0..MaxPackets, action : Actions]
NoDecision == [packet |-> 0, action |-> "approve"]

\* arg is the person or number of a command, ref the packet that is tagged in a
\* text or whose button is tapped.  The history: the question that is open and
\* the packets shown when the message is written, and whether anything it
\* depends on has changed since; of an echo, whether the client that hears it
\* has not recorded the ID or has recorded RingSize others since.
NoMessage == [author |-> Owner, text |-> "promote", arg |-> 0, ref |-> 0,
              question |-> {}, seen |-> {}, moved |-> FALSE, late |-> FALSE]

TypeOK ==
  /\ row \in [mode : Modes, operators : {row.operators}, customers : SUBSET People,
              number : 0..MaxNumbers, consumed : BOOLEAN, paused : BOOLEAN]
  /\ IsInjective(row.operators)
  /\ \A i \in DOMAIN row.operators : row.operators[i] \in People \cup {Owner}
  /\ \A r \in Requests : request[r].pc \in {"idle", "write", "done"}
  /\ packet \in [Packets -> {"none", "shown", "queued"}]
  /\ followup \subseteq Decision /\ Cardinality(followup) <= 1
  /\ pc \in {"idle", "routed", "write", "ingest", "record", "reply", "guard",
             "send", "ack"}
  /\ msg.author \in People \cup {Owner}
  /\ msg.text \in Commands \cup Replies \cup {"echo"}
  /\ msg.ref \in 0..MaxPackets /\ msg.seen \subseteq Packets
  /\ decision \in Decision
  /\ ring \in Seq(0..MaxPackets) /\ Len(ring) = RingSize
  /\ later \in [Packets -> 0..RingSize]
  /\ pc \in {"record", "reply"} => decision.packet \in 1..Latest
  /\ issued \in 0..MaxNumbers /\ stale \in BOOLEAN
  /\ events \in 0..MaxEvents

\* newSentIDs.
EmptyRing == [i \in 1..RingSize |-> 0]

Init ==
  /\ BindingInit
  /\ packet = [p \in Packets |-> "none"]
  /\ followup = {} /\ again = {} /\ question = {}
  /\ ring = EmptyRing /\ later = [p \in Packets |-> RingSize]
  /\ pc = "idle" /\ msg = NoMessage /\ copy = ProvisionedRow
  /\ decision = NoDecision
  /\ events = 0

-----------------------------------------------------------------------------
Operators(b) == {b.operators[i] : i \in DOMAIN b.operators}

IsOperator(who, b) == who = Owner \/ who \in Operators(b)

\* operatorRecipient: nobody, in full control, before an operator has registered.
OperatorRecipient(b) ==
  IF b.mode = "read_only" THEN {Owner}
  ELSE {b.operators[i] : i \in DOMAIN b.operators \cap {1}}

Event == events < MaxEvents /\ events' = events + 1

\* A message of which the properties ask no more what it meant.
Spent(m) == [m EXCEPT !.question = {}, !.seen = {}, !.moved = TRUE]

\* Something the handler's message may depend on changes.
Moves == msg' = IF pc = "idle" THEN msg ELSE Spent(msg)

Become(step) == pc' = step /\ UNCHANGED <<msg, copy, decision>>

\* The handler returns; what it has read and decided is gone.
Finish ==
  /\ pc' = "ack" /\ msg' = Spent(msg)
  /\ copy' = ProvisionedRow /\ decision' = NoDecision

-----------------------------------------------------------------------------
(* Calls of the API                                                        *)

Call(r) ==
  /\ Consent(r) \/ ChangeCustomer(r) \/ Reissue(r)
  /\ Event
  /\ UNCHANGED <<packet, followup, handler, again, sent, question>>

CallWrites(r) ==
  /\ Write(r)
  /\ Moves
  /\ UNCHANGED <<packet, followup, pc, copy, decision, again, sent, question, events>>

\* StartCase and SendApprovalPacket: the packet is sent, or queued without a
\* recipient, without a session and when the send fails.
Create(p, b) ==
  /\ packet[p] = "none" /\ p = Latest + 1
  /\ \E place \in {"queued"} \cup {"shown" : to \in OperatorRecipient(b)} :
       packet' = [packet EXCEPT ![p] = place]

StartCase(p) ==
  /\ Create(p, row)
  /\ Moves
  /\ UNCHANGED <<bindingVars, followup, pc, copy, decision, again, sent, question, events>>

Drained(b) ==
  [p \in Packets |-> IF packet[p] = "queued" /\ OperatorRecipient(b) # {}
                     THEN "shown" ELSE packet[p]]

\* A drain of the queue when the session becomes active.
Drain ==
  /\ packet' = Drained(row) /\ packet' # packet
  /\ UNCHANGED <<bindingVars, followup, handler, again, sent, question, events>>

-----------------------------------------------------------------------------
(* The IDs of sent messages                                                *)

\* sentIDs.add: the ring loses its oldest ID.
Remember(id) ==
  /\ ring' = Append(Tail(ring), id)
  /\ later' = [p \in Packets |-> IF p = id THEN 0
                                 ELSE IF later[p] < RingSize THEN later[p] + 1
                                 ELSE RingSize]

Forget == ring' = EmptyRing /\ later' = [p \in Packets |-> RingSize]

\* Mutation of Filtered: only a tag in the body is looked for.
FilteredByTag(p) == FALSE

\* sentIDs.has.
Filtered(p) == Contains(ring, p)

\* SendMessage has returned for a packet, the first or a further time.
RecordSent(p) ==
  /\ packet[p] = "shown" /\ ~Filtered(p)
  /\ Remember(p)
  /\ UNCHANGED <<bindingVars, packet, followup, handler, again, question, events>>

\* The same for a prompt, a notice or a customer's reply.
RecordOther ==
  /\ Remember(0)
  /\ UNCHANGED <<bindingVars, packet, followup, handler, again, question, events>>

\* BeginPairing installs a client that has recorded nothing.
PairAgain ==
  /\ Forget
  /\ UNCHANGED <<bindingVars, packet, followup, handler, again, question, events>>

-----------------------------------------------------------------------------
(* Messages                                                                *)

\* HandleWhatsAppInbound is called with a message and reads the binding.
Deliver(m) ==
  /\ pc = "idle"
  /\ pc' = "routed" /\ msg' = m /\ copy' = row
  /\ UNCHANGED decision

Hand(m) == Deliver(m) /\ Event

\* In which chat a message was written the code does not look at.
Written(author, text, arg, ref) ==
  [author |-> author, text |-> text, arg |-> arg, ref |-> ref,
   question |-> question, seen |-> Shown, moved |-> FALSE, late |-> FALSE]

\* People do not know numbers that have not been issued; texts have tags, and
\* lists can be tapped, of packets that have been shown.
Command(author) ==
  /\ \/ \E number \in 0..issued : Hand(Written(author, "register", number, 0))
     \/ \E text \in {"add", "remove"}, person \in People :
          Hand(Written(author, text, person, 0))
     \/ \E text \in {"pause", "resume"} : Hand(Written(author, text, 0, 0))
  /\ UNCHANGED <<bindingVars, packet, followup, again, sent, question>>

Reply(author) ==
  /\ \/ \E text \in {"no", "reason", "promote"} : Hand(Written(author, text, 0, 0))
     \/ \E tag \in Shown \cup {0} : Hand(Written(author, "yes", 0, tag))
     \/ \E p \in Shown, tap \in {"approve_tap", "fix_tap"} :
          author # Owner /\ Hand(Written(author, tap, 0, p))
  /\ UNCHANGED <<bindingVars, packet, followup, again, sent, question>>

\* A packet comes back as a message from the account itself, in the client
\* that is installed by then.
Echo(p) ==
  /\ pc = "idle" /\ packet[p] = "shown"
  /\ ~Filtered(p)
  /\ Hand([Written(Owner, "echo", 0, 0) EXCEPT !.late = (later[p] = RingSize)])
  /\ UNCHANGED <<bindingVars, packet, followup, again, sent, question>>

-----------------------------------------------------------------------------
(* handleWhatsAppCommand                                                   *)

Handled(b) ==
  msg.text = "register" \/ (msg.text \in Commands /\ IsOperator(msg.author, b))

RegisterRejected ==
  /\ pc = "routed" /\ msg.text = "register" /\ ~Accepts(copy, msg.arg)
  /\ Finish
  /\ UNCHANGED <<bindingVars, packet, followup, again, sent, question, events>>

\* The registration, and the drain for the new operator.
Register ==
  /\ pc = "routed" /\ msg.text = "register" /\ Accepts(copy, msg.arg)
  /\ WriteRow([kind |-> "register", who |-> msg.author], copy)
  /\ packet' = Drained(row')
  /\ Finish
  /\ UNCHANGED <<request, issued, followup, again, sent, question, events>>

\* AddWhatsAppCustomer and RemoveWhatsAppCustomer read the row themselves.
ReadAgain ==
  /\ pc = "routed" /\ msg.text \in {"add", "remove"} /\ Handled(copy)
  /\ copy' = row /\ pc' = "write"
  /\ UNCHANGED <<bindingVars, packet, followup, msg, decision, again, sent, question, events>>

ChangeByCommand ==
  /\ \/ pc = "write"
     \/ pc = "routed" /\ msg.text \in {"pause", "resume"} /\ Handled(copy)
  /\ WriteRow([kind |-> msg.text, who |-> msg.arg], copy)
  /\ Finish
  /\ UNCHANGED <<request, issued, packet, followup, again, sent, question, events>>

-----------------------------------------------------------------------------
(* Whose message it is                                                     *)

\* Mutation of Role: everybody who writes is a customer.
RoleOpen(who, b) ==
  CASE b.mode = "read_only" -> IF who = Owner THEN "operator" ELSE "customer"
    [] who = Owner -> "nobody"
    [] OTHER -> IF who \in Operators(b) THEN "operator" ELSE "customer"

Role(who, b) ==
  CASE b.mode = "read_only" /\ who = Owner -> "operator"
    [] b.mode = "read_only" -> IF who \in b.customers THEN "customer" ELSE "nobody"
    [] who = Owner -> "nobody"
    [] OTHER -> IF who \in Operators(b) THEN "operator" ELSE "customer"

Routed(role) == pc = "routed" /\ ~Handled(copy) /\ Role(msg.author, copy) = role

Ignore ==
  /\ Routed("nobody") \/ (Routed("customer") /\ copy.paused)
  /\ Finish
  /\ UNCHANGED <<bindingVars, packet, followup, again, sent, question, events>>

\* routeWhatsAppCustomerMessage.
Customer ==
  /\ Routed("customer") /\ ~copy.paused
  /\ Become("ingest")
  /\ UNCHANGED <<bindingVars, packet, followup, again, sent, question, events>>

Ingest(p) ==
  /\ pc = "ingest" /\ Create(p, row)
  /\ Finish
  /\ UNCHANGED <<bindingVars, followup, again, sent, question, events>>

\* The message has a case already, or the store fails.
IngestNothing ==
  /\ pc = "ingest"
  /\ Finish
  /\ UNCHANGED <<bindingVars, packet, followup, again, sent, question, events>>

-----------------------------------------------------------------------------
(* An operator's answer                                                    *)

\* extractPacketReference, which finds nothing in a tap, or LatestReviewPacket.
PacketMeant == IF msg.text = "yes" /\ msg.ref # 0 THEN msg.ref ELSE Latest

\* The action of classifyIntent for a text that decides.
Intent(text) == IF text = "yes" THEN "approve" ELSE "wrong_action"

\* Mutation of Ask: a tapped action is not carried through the turn.
AskGeneric(action) ==
  /\ followup' = {[packet |-> PacketMeant, action |-> "wrong_action"]}
  /\ question' = {[packet |-> PacketMeant, action |-> action, asked |-> msg.author]}

\* SetPendingFollowupAction, and the prompt.
Ask(action) ==
  /\ followup' = {[packet |-> PacketMeant, action |-> action]}
  /\ question' = {[packet |-> PacketMeant, action |-> action, asked |-> msg.author]}

AskBack ==
  /\ Routed("operator")
  /\ \/ msg.text = "fix_tap" /\ Ask("fix")
     \/ msg.text = "no" /\ followup = {} /\ Ask("wrong_action")
  /\ Finish
  /\ UNCHANGED <<bindingVars, packet, again, sent, events>>

\* Mutation of Decide: a message without a packet is not held back.
DecideAlways(p, action) ==
  /\ decision' = [packet |-> p, action |-> action]
  /\ pc' = "record"
  /\ UNCHANGED <<msg, copy>>

\* dispatchInbound: without a packet the message goes to the dead letters.
Decide(p, action) ==
  /\ IF p = 0 THEN Finish
     ELSE /\ decision' = [packet |-> p, action |-> action]
          /\ pc' = "record"
          /\ UNCHANGED <<msg, copy>>

\* ConsumePendingFollowup: the message is the reason that was asked for.
FollowUp ==
  /\ Routed("operator") /\ msg.text \notin {"approve_tap", "fix_tap"}
  /\ \E f \in followup :
       Decide(IF f.packet = 0 THEN PacketMeant ELSE f.packet, f.action)
  /\ followup' = {} /\ question' = {}
  /\ UNCHANGED <<bindingVars, packet, again, sent, events>>

Answer ==
  /\ Routed("operator")
  /\ \/ msg.text = "approve_tap" /\ Decide(PacketMeant, "approve")
     \/ /\ msg.text \notin {"approve_tap", "fix_tap", "no", "promote"} /\ followup = {}
        /\ Decide(PacketMeant, Intent(msg.text))
  /\ UNCHANGED <<bindingVars, packet, followup, again, sent, question, events>>

\* handlePromoteCommand is in Learning.tla.
Promote ==
  /\ Routed("operator") /\ msg.text = "promote" /\ followup = {}
  /\ Finish
  /\ UNCHANGED <<bindingVars, packet, followup, again, sent, question, events>>

\* ReceiveOperatorReply, and the reply to the customer after an approval.
Record ==
  /\ pc = "record"
  /\ IF decision.action = "approve" THEN Become("reply") ELSE Finish
  /\ UNCHANGED <<bindingVars, packet, followup, again, sent, question, events>>

RecordFails ==
  /\ pc = "record"
  /\ Finish
  /\ UNCHANGED <<bindingVars, packet, followup, again, sent, question, events>>

-----------------------------------------------------------------------------
(* SendApprovedCustomerReply                                               *)

\* In read only the draft goes to the operator.
ReplyRead ==
  /\ pc = "reply"
  /\ IF row.mode = "read_only" THEN Finish
     ELSE pc' = "guard" /\ copy' = row /\ UNCHANGED <<msg, decision>>
  /\ UNCHANGED <<bindingVars, packet, followup, again, sent, question, events>>

\* Mutation of Guarded: the guard looks at the binding read before.
GuardedCopy == copy.mode = "read_only"

\* EnforceA0OutboundGuard, for a recipient that is a customer.
Guarded == row.mode = "read_only"

\* SendOutbound reads the binding once more.
Guard ==
  /\ pc = "guard"
  /\ IF Guarded THEN Finish
     ELSE pc' = "send" /\ msg' = [msg EXCEPT !.moved = FALSE] /\ UNCHANGED <<copy, decision>>
  /\ UNCHANGED <<bindingVars, packet, followup, again, sent, question, events>>

\* The customer gets the reply, or the send fails.
Send ==
  /\ pc = "send"
  /\ Finish
  /\ UNCHANGED <<bindingVars, packet, followup, again, sent, question, events>>

\* The message is acknowledged.
Acknowledge ==
  /\ pc = "ack"
  /\ pc' = "idle" /\ msg' = NoMessage
  /\ UNCHANGED <<bindingVars, packet, followup, copy, decision, again, sent, question, events>>

-----------------------------------------------------------------------------
(* Time and crashes                                                        *)

\* The follow-up's time to live has passed.
Expire ==
  /\ followup # {}
  /\ followup' = {} /\ question' = {}
  /\ Moves
  /\ UNCHANGED <<bindingVars, packet, pc, copy, decision, again, sent, events>>

\* The follow-up and the IDs of sent messages are in memory.  A message that
\* was not acknowledged may be delivered again.
Crash ==
  /\ Event
  /\ request' = RequestsEnd
  /\ followup' = {} /\ question' = {}
  /\ Forget
  /\ again' \in SUBSET (again \cup IF pc = "idle" THEN {}
                                   ELSE {Spent(msg)})
  /\ pc' = "idle" /\ msg' = NoMessage /\ copy' = ProvisionedRow
  /\ decision' = NoDecision
  /\ UNCHANGED <<row, issued, used, said, stale, packet>>

Redeliver ==
  /\ \E m \in again : Deliver(m) /\ again' = again \ {m}
  /\ UNCHANGED <<bindingVars, packet, followup, sent, question, events>>

-----------------------------------------------------------------------------
HandlerStep ==
  \/ RegisterRejected
  \/ Register
  \/ ReadAgain
  \/ ChangeByCommand
  \/ Ignore
  \/ Customer
  \/ \E p \in Packets : Ingest(p)
  \/ IngestNothing
  \/ AskBack
  \/ FollowUp
  \/ Answer
  \/ Promote
  \/ Record
  \/ RecordFails
  \/ ReplyRead
  \/ Guard
  \/ Send
  \/ Acknowledge

Next ==
  \/ \E r \in Requests : Call(r) \/ CallWrites(r)
  \/ \E p \in Packets : StartCase(p) \/ RecordSent(p) \/ Echo(p)
  \/ Drain
  \/ RecordOther
  \/ PairAgain
  \/ \E author \in People \cup {Owner} : Command(author) \/ Reply(author)
  \/ HandlerStep
  \/ Expire
  \/ Crash
  \/ Redeliver

Spec == Init /\ [][Next]_vars

-----------------------------------------------------------------------------
(* Properties                                                              *)

\* A message becomes a case only as that of a customer: in read only of one
\* whom the last change of the list has added, in full control of nobody who
\* has registered, never of the account itself; unless the binding changed
\* while it was handled, or had been overwritten with an older one.
OnlyCustomersEnter ==
  pc = "ingest" /\ ~stale /\ ~msg.moved =>
    /\ msg.author # Owner /\ ~row.paused
    /\ IF row.mode = "read_only" THEN msg.author \in said
       ELSE msg.author \notin {u[2] : u \in used}

\* Decisions are those of the account's owner in read only and of people who
\* have registered in full control, whatever calls run meanwhile; Victoria's
\* own words are one only when the client that hears their echo never recorded
\* their ID (the echo overtook the record, or the client is new), or has sent
\* RingSize other messages since.
OnlyOperatorsDecide ==
  pc = "record" =>
    /\ IF copy.mode = "read_only" THEN msg.author = Owner
       ELSE msg.author \in {u[2] : u \in used}
    /\ msg.text = "echo" => msg.late

\* What is recorded is what the operator meant: the answer to the question
\* that operator was asked last, with its packet and its action; without one
\* the decision the text says, about the packet it names or the newest one.
\* Nothing is said when the newest packet has not been shown, when something
\* changed while the message was handled, when a question put to somebody else
\* is open, or of taps.
RecordedAsMeant ==
  pc = "record" /\ ~msg.moved /\ msg.text \in {"yes", "no", "reason", "promote"} =>
    \/ \E q \in msg.question : q.asked # msg.author
    \/ \E q \in msg.question :
         decision.action = q.action /\ q.packet \in {decision.packet, 0}
    \/ /\ msg.question = {}
       /\ decision.action = Intent(msg.text)
       /\ \/ Latest \notin msg.seen
          \/ decision.packet = IF msg.ref = 0 THEN Max(msg.seen) ELSE msg.ref

\* A reply goes to a customer only while the binding says full control, unless
\* it changed after the guard had read it.
A0Contained == pc = "send" /\ ~msg.moved => row.mode = "full_control"

\* "The packet tag is embedded in the description so inbound reply parsing can
\* route the operator's selection back to the right packet" (the comment of
\* buildOutboundMessage): an approval that is tapped is one of its own packet.
TapsReachTheirPacket ==
  pc = "record" /\ msg.text = "approve_tap" => decision.packet = msg.ref
=============================================================================
