# A verification project for Victoria

Victoria is a Go service that handles the customer messages of small businesses
with a human in the loop: it opens a case for a message, asks the operator to
approve or correct its proposal on WhatsApp or Telegram, sends approved replies,
learns rules from corrections, and publishes promoted rules in versions of a
skill. This directory holds TLA+ models of that behaviour, the TLC
configurations that check them and TLAPS proofs about them. Paths and line
numbers are relative to the repository; `app.go` and `gateway.go` are
`internal/app/app.go` and `internal/app/gateway.go`.

To check a run: `tlc -config OutboundQueueDrains.cfg MCOutboundQueue.tla`. To
check proofs: `tlapm OutboundQueue_proofs.tla`. PROJECT.json lists runs,
mutations, the map from definitions to source lines, hazards and theorems.

## 1. Inventory

Every handler runs in a goroutine of its own: an HTTP request, an event of a
WhatsApp client, or a drain started by one of these. Goroutines share a store
(PostgreSQL or in memory) and a little process memory. **No operation holds a
lock or a transaction across two store calls**, except `DeprecateActiveRule` and
`CreateSkillVersion`, which are one transaction each. So the unit of atomicity
is a store call, and that is where the behaviour gets hard.

| component | state | operations | interacts with |
|---|---|---|---|
| outbound gateway (`gateway.go`) | rows of `outbound_queue`, delivered marks, `tenantStatus` map, adapter registry | `SendApprovalPacket`, `deliverPacket`, `enqueuePacket`, `NotifySessionStatus`, `DrainQueue` | adapters, store, session manager, `main` |
| ingestion (`app.go:307-467`) | `customer_messages`, case run, decision point, artifact, snapshot, packet | `IngestCustomerMessageWithPacket`, `StartCase` | gateway (sends the packet), agent |
| operator replies (`gateway.go:355-433`, `app.go:1119-1163`, `1295-1342`) | seen signals, corrections, statuses of decision point and case, audit events | `ReceiveInbound`, `persistSignal`, `persistApproval`, `persistCorrection` | learning, customer replies |
| customer replies (`app.go:1165-1293`) | `outbound_to_customer` | `SendApprovedCustomerReply` | WhatsApp adapter |
| learning (`app.go:1344-1459`, `internal/domain/confidence.go`) | `rule_candidates` | `mergeCandidate` | replies |
| promotion (`app.go:796-823`, `966-1016`, `1562-1619`) | `validated_rules`, `skill_versions`, `active_skill_versions` | `PromoteCandidate`, `createSkillVersion` | learning |
| conversation (`app.go:562-932`) | pending follow-up per tenant, in memory; a ring of 64 ids of sent messages per client | `HandleWhatsAppInbound`, `handleWhatsAppCommand`, `classifyIntent`, `dispatchInbound` | replies, ingestion, binding |
| channel binding (`app.go:150-293`, `699-772`) | one `channel_bindings` row | consent, registration, its number, customer list, pause | every channel component |
| WhatsApp sessions (`internal/channel/whatsapp/adapter.go`) | client map, QR codes, status of a client | `BeginPairing`, `abortPairing`, `Restore`, `Logout`, `handleEvent`, `publish` | gateway, binding |
| decisions (`app.go:384-525`, `1562-1675`, `internal/app/rules.go`) | runs with their decision and skill version, manifests | `StartCase`, `ReplayCase`, `evaluateDecision`, `createSkillVersion` | promotion, agent |
| MCP gate (`app.go:1072-1108`) | none of its own | `CallMCPWriteFinal` | approval event |
| PRIV-2 sweeper (`priv2sweeper.go`) | cadence | periodic purge of device tables | third-party tables |
| vertical aggregates (`app.go:1031-1070`) | none | `BuildVerticalAggregates` | active rules |
| provisioning, HTTP API, DeepSeek agent, Telegram adapter, stores | rows, tokens | inserts, decoding, one external call | all |

Hard behaviours and what makes each component correct:

- *Gateway*: senders, drains, session events, failed sends, failed store calls,
  expiry, a cap with eviction, and restarts interleave. Correct when no accepted
  packet vanishes, a drain is FIFO, the cap is honoured up to concurrency,
  "delivered" means sent, packets are not repeated without cause, and the queue
  empties when sessions come back.
- *Ingestion*: channels redeliver; an attempt can fail half-way. Correct when
  a success always names a complete case, and attempts agree on it.
- *Replies*: duplicate and contradictory replies, a signal marked seen before its
  effect, a crash in between. Correct when effects have evidence, a correction is
  learnt once, a duplicate suppresses only what was done, and the customer is
  written to once.
- *Learning and promotion*: read-modify-write of candidates by concurrent merges,
  promotions of a stale copy, six calls without a transaction. Correct when
  review is earned, evidence and contradictions stay, conditions have one active
  rule, and the published manifest is what is active.
- *Conversation*: what a message means depends on the row, the packets, the
  follow-up and who writes it, all of which calls change while it is handled; its
  own packets come back as messages. Correct when only customers become cases, only
  operators decide, what is recorded is what was meant, and nothing goes to a
  customer in read only.
- *Channel binding*: whole rows are read, changed and written back. Correct when no
  call undoes another one and a number registers one operator.
- *WhatsApp sessions*: pairing, logout, restore, timeouts and the events of several
  clients overlap, and a QR pump outlives its client's disconnection. Correct when no
  connected client is lost from the map and the gateway, the row and the client agree on
  the status.
- *Decisions*: versions are published while cases are decided and replayed. Correct
  when a decision is that of the version it names, a replay repeats it, learning
  stays learned, and final writes are of approved cases.

## 2. The modules

| module | models | checked by | proofs |
|---|---|---|---|
| `Outbox` | what the gateway promises: the life of a packet as a small state machine | refined by `OutboundQueue` | |
| `OutboundQueue` | gateway and queue of one tenant and one channel | `MCOutboundQueue`, 3 configurations | `OutboundQueue_proofs` |
| `Confidence` | `confidence.go`, in whole numbers | through `Learning` | `Learning_proofs` |
| `Learning` | candidates, rules and skill versions of one tenant and workflow | `MCLearning`, 2 configurations | `Learning_proofs` |
| `Ingest` | one customer message, delivered several times | `MCIngest` | `Ingest_proofs` |
| `Replies` | the operator's replies to one packet, with the customer's reply | `MCReplies` | `Replies_proofs` |
| `Binding` | the WhatsApp binding of a tenant and the calls that change it | through `Conversation` | `Conversation_proofs` |
| `Conversation` | the handler of messages, composed with `Binding` | `MCConversation`, 2 configurations | `Conversation_proofs` |
| `WhatsAppSession` | clients, QR pumps, requests and the status of one tenant's session | `MCWhatsAppSession` | `WhatsAppSession_proofs` |
| `Decisions` | cases, replays, promotions and the gate for final writes | `MCDecisions`, 2 configurations | `Decisions_proofs` |

The `MC` modules add the symmetry sets; the constants are in the `.cfg` files.
A definition whose comment starts with "Mutation of" is not part of the model:
it is a plausible bug in the definition below it, used to see that a property
can fail.

Common to all modules: a goroutine has a program counter (`spc`, `dpc`, `mpc`,
`ppc`, `pc`), one step is one store call, one send, or one access to shared
memory, local values a goroutine carries from one step to the next are variables
of its own, and a crash ends the goroutines and clears the memory of the process
while the store stays. Store errors, failed sends and crashes are bounded in
number (`MaxFailures`, `MaxStoreFaults`, `MaxCrashes`).

### OutboundQueue
A packet has one sender, which runs `SendApprovalPacket`: `Submit` (the packet
row), `CheckRecipient` (`hasOperatorRecipient`), `CheckSession`
(`canDeliverNow`), `Send` and `Mark` (`deliverPacket`), and `ReadDepth`, `Evict`,
`Insert` (`enqueuePacket`). A drainer reports a session transition
(`SessionEvent` swaps the status under the lock, `Persist` writes it,
`StartsDrain` is the condition "into active") or registers an operator, and runs
the loop `ListQueue`, `FetchEntry`, `DiscardExpired`, `DrainSend`, `DrainMark`,
`DeleteEntry`. A drain's listing, the row it is at and the rows ahead of it are
kept, as the Go slice does. `RegisterAdapter` is `main.go:95`, after the sessions
are restored; until then `deliverPacket` sends nothing. `Fate` maps a state to the
abstract outbox.

### Learning
Correction `c` is merged by one goroutine: `ListSiblings` reads all candidates of
its conditions, `SaveConflict` and `CreateCandidate`, or `AddEvidence`, write back
copies of what was read. Promotion `q`: `PromoteCommand` or `PromoteRequest`,
`GetCandidate`, `DeprecateActiveRule`, `CreateValidatedRule`, `SavePromoted` (the
copy, with a new status), `ActiveSkillVersion`, `ListVisibleRules`,
`CreateSkillVersion`. `MergeFails` and `PromotionFails` can end a call before any
of its steps. Candidates are named after the correction that created them, so
"same action" and "same conditions" are read from what that correction said.

### Ingest
`Receive` is `CreateCustomerMessage` with the redelivery answer (`app.go:353`),
`StartCase` creates the rows of a case in order, `GiveUp` is the update to
"failed" with an empty case id, `Record` and `Audit` end a good delivery.

### Replies
`Receive` is `ReceiveInbound` up to the expiry check, `SeenSignal` and
`MarkSignalSeen` are `persistSignal`, then an approval runs `AuditApproval`,
`UpdateDecisionPointStatus`, `UpdateCaseRunStatus`, `ChooseReply`, `QueueReply`,
`SendReply`, `MarkReplySent`, and a correction runs `CreateCorrection`, the two
updates and `MergeCandidate`. `Resolve` writes `correction_resolved_at_gateway`.
The order is the operator `After`. A message has one button, so two messages can
contradict each other. Every step of a delivery can fail.

### Binding and Conversation
Every change of the row is a read and, later, a write of the whole copy: API calls
are `ReadRow` (in `Consent`, `ChangeCustomer`, `Reissue`) and `Write`, a registration
is `Register`, the commands of operators are `ReadAgain` and `ChangeByCommand`. A
registration number is a natural number, and a new number a new one.

A message is handed over one at a time (`Hand`), with the row as read then. The
handler's step is `pc`: `routed` is decided by `Handled` and `Role`; a customer's
message goes to `ingest`; an operator's answer is `AskBack` (a prompt, and the
follow-up set), `FollowUp` (the follow-up consumed), `Answer` or `Promote`;
`Decide` picks packet and action, `Record` stands for `Replies`, and an approval goes
through `ReplyRead`, `Guard` and `Send`, each of which reads the row by itself. A packet
is shown to the operator when it has been sent, and comes back as a message (`Echo`) at any
time, also more than once, unless its id is in the client's ring (`Filtered`). `ring` is
`sentIDs`: `RecordSent` and, for everything else that is sent, `RecordOther` add an id and
evict the oldest, and `PairAgain` installs a client with an empty one.
`Crash` loses the follow-up and the ids, and a message that was not acknowledged may come
again (`Redeliver`). The history variables `question`, `later`, `said`, `used`, `stale` and
the fields `question`, `seen`, `moved` and `late` of a message are what the properties
compare with; no guard reads them.

### WhatsAppSession
A request (`Calls`) runs `BeginPairing`, `Connect`, `PublishCode`, or gives up (`GiveUp`,
`Disconnect`), or `Logout`, `DeleteDevice`, `PublishLogout`. A client has a socket and a QR
pump, which shows codes (`Code`) until its channel ends: with a pairing (`PumpSuccess`),
with one of the three kinds of event the code gives up on (`PumpError`, and `PumpPublish` as
a step of its own), or with an event the code ignores (`PumpSilent`, which leaves the code
shown). Nothing in the program closes the socket then, and `Disconnect` and `DeleteDevice`
do not end the pump. Events of the connection are `PairSuccess`, `Connected`,
`Disconnected` and `LoggedOut`. `Publish` sets the client's status under its lock and starts
a report, which `Notify` (the gateway's lock) and `Persist` finish, in any order with other
reports. The calls of `Binding` write back the status they have read (`ReadRow`,
`WriteRow`). `Restart` is a stop at any point with `Restore`, whose client is connected
before `Install` puts it in the map. When the library calls back is taken from how the
adapter uses it, and stated in the module's head. The history: `contested` are clients one
request took out of the map while another was at work on them; `heard` is the client the
gateway's status came from; `stale` says that a status was written back over a newer one;
`raced` that the last publication overlapped another, under way or already decided on, or
failed to be persisted, which the next one that does neither ends.

### Decisions
`StartCase` reads the active version and evaluates, `Propose` and `AgentUnavailable` are the
agent, `Store` the rows, `Replay` is `ReplayCase`. A promotion is `Promote` (with
`DeprecateActiveRule`), `CreateRule` and `Publish`; a rule is what `Taught` makes of an
operator's saying about a case. `Evaluate`, `Matches`, `Precedes` are the pure
functions of the code; `WriteFinal` is the gate as a predicate.

### Abstractions
- The store reads of `preferredChannel` do not fail; `EnqueuedAt` stamps are
  distinct.
- Audit events that only inform are left out; an error in writing one is an error
  of the step after it. Events the code ignores the errors of are left out.
- `DeprecateActiveRule` follows the PostgreSQL store: one transaction with a row
  lock.
- `promote` may pick any candidate under review, the code picks the latest; this
  only adds behaviours.
- `EvidenceCount` is the number of sources, since `mergeCandidate` runs once per
  correction (`MergedAtMostOnce` of `Replies`). The last evidence is of now, so
  `RecencyFactor` is 1: the code computes the status only when evidence arrives.
- The inbound mode of a binding is fixed during a behaviour of `Replies`; it changes in
  `Conversation`. Drafts sent to the operator are not counted; a customer reply sent again
  carries the same WhatsApp message id, so `sent` counts transmissions and not what the
  customer sees.
- In `Conversation` recording a reply, starting a case and draining the queue are one
  step each; their own steps are in `Replies`, `Ingest` and `OutboundQueue`. A drain
  shows all queued packets; one cut short is left to `OutboundQueue`.
- A text is one of the kinds `classifyIntent` tells apart; notes are left out.
- Messages have no chat in `Conversation`, as the handler looks at none (`app.go:573-592`): in
  read only whatever the owner writes to anybody is an answer. `doc/whatsapp-setup.md:157`
  reads as if replies in a different chat did not arrive.
- Echoes in `Conversation` are those of packets; those of prompts and notices are handled
  alike, and appear as ids that fill the ring.
- In `Decisions` the fields of a payload are those the rules speak of, and only the
  workflow `quote_drafting` is modelled.

## 3. Properties and runs

### The gateway
`outbound_recovery` (2 senders at once, 1 drainer, cap 1, 1 crash, 1 failed store call,
failing sends, expiry), under `ReconnectingSpec`:
- `LossIsAccounted`: an accepted packet is queued, delivered, or left the queue by
  overflow, expiry or a failed read.
- `ImplementsOutbox`: the gateway refines `Outbox`.
- `QueueEventuallyDrains`, a liveness property: every queued packet leaves the queue,
  whatever crash, failed call or failed send cut its drain short.

`outbound_drains` (3 senders of which 2 at once, 2 drainers, cap 1, failing sends, expiry;
neither crash nor failed store call): two drains are started by a reconnect and a
registration, or by two reconnects, and nothing keeps them apart.
- `QueueBound`: depth check and insert are not atomic, so the cap can be exceeded,
  but by at most the senders in flight less one.
- `DrainInOrder`: when a drain sends a row, no row it listed ahead of it is still
  waiting.
- `SentAtMostOnce`: without a crash or a failed store call the operator gets a packet twice
  only if both drains had its row ahead of them at once (`shared`, recorded by `ListQueue`).
- `DeliveredWasSent`: what is marked delivered was given to the adapter.

A cap of one is enough for a sender to evict another one's row and for a drain to meet rows
that vanish under it, three senders for two of them to overshoot the cap with another's row
in the queue, and two drains for one to list what the other is sending; a crash at every
point and one failed call cover each recovery path once.

Where the code does not do what its tests say:
- `outbound_boot_window`, `DeliveredWasSent` fails: after a restart `main` restores
  the sessions (`cmd/victoria/main.go:92`) before it registers the adapter
  (`:95`); a drain in between sends nothing, marks the packet delivered and deletes
  its row, against "WA-INV-3: no silent loss" (`app_test.go:1563`).

### Learning and promotion
`learning_merge` (4 corrections, 2 cases, 2 actions, one set of conditions, 1
promotion, 2 calls at once, 1 failure). Four corrections are the least that reach
review on one case and the least that reach it on two with a disagreement:
- `UnderReviewIsEarned`: a candidate under review has three agreeing corrections of
  two cases, or four, and no contradiction, whatever is overwritten.
- `EvidenceKept`: a correction merged alone stays a source of exactly one candidate,
  whatever fails or is promoted later.
- `ContradictionNoticed`: of two contradicting candidates created without overlap,
  one carries the contradiction for good.

`learning_promote` (2 corrections, 2 sets of conditions, 3 promotions, 2 at once, 1
failure): `OneActiveRule` and `ManifestIsCurrent`, also after a promotion that was
cut short; both speak of promotions that did not overlap, since the code does not
hold for others.

### Ingestion
`ingest` (4 deliveries, 2 failures: enough for a failure, a retry that fails too,
a third attempt and a duplicate after it):
- `AnswerIsComplete`: a delivery that succeeds names a complete case.
- `AnswersAgree`: deliveries that did not overlap agree on it.
- `RecordIsKept`: a case recorded by such a delivery is never replaced or erased.

### Replies
`replies` (2 messages, 3 deliveries, 1 failure, so that a message can be delivered
twice while another one disagrees):
- `EffectsHaveEvidence`: no approval, correction, learning or customer reply without
  its evidence in the store, at every crash point.
- `MergedAtMostOnce`: overlapping deliveries that all found the signal unseen merge a
  correction once.
- `ResolvedTookEffect`: without a failure a resolved message took effect. (With one it
  need not: the signal is marked before the effect, and the redelivery of a message
  whose effect failed is answered as a duplicate.)
- `LastReplyDecides`: in sequence the last new message decides both statuses, and a
  duplicate of an earlier one changes nothing.
- `ReplySentOnce`: repeated approvals write to the customer once; each further
  transmission takes a failure or one more overlapping handler.

### Conversation and binding
`conversation` (the account's owner and two people, each of whom can be customer, operator or
stranger in turn; one API call, one reissued number, 2 packets, a ring of 2 ids, 3 messages,
calls and crashes; failed records, expiries, redeliveries, other sends and new pairings as
often as they can happen): with two packets an answer can miss its packet, a question takes two
messages and the third event can be a call whose write overlaps them, a second operator's
message, or a crash after which a message is delivered again.
- `OnlyCustomersEnter`: only messages of customers become cases.
- `OnlyOperatorsDecide`: only the owner in read only, and only people who have registered
  in full control, decide, whatever calls run meanwhile; Victoria's own words do only when
  the client that hears their echo has not recorded their id (the echo overtook the record,
  or the client was installed after the send), or has recorded a ring's length of others
  since. A ring of 2 evicts an id by two other sends and keeps the order of two.
- `RecordedAsMeant`: what is recorded answers the question that was asked last, or else
  is what the text says about the packet it names or the newest one shown.
- `A0Contained`: a reply goes to a customer only in full control, unless the row
  changed after the guard had read it.
- `NumberUsedOnce` and `ListsAsSaid`: a number makes one operator, and customers and
  operators are those of the last changes, unless a stale row was written back. The
  exception is real: the code has no transaction around the read and the write.

- `conversation_taps`, `TapsReachTheirPacket` fails: a tap on an older packet's button
  decides the newest packet, against the comment of `buildOutboundMessage`
  (`adapter.go:705`).

### WhatsApp sessions
`session` (2 clients, 2 requests, 2 publications under way, and one event that is a lost
connection, a removed device, a failed write, a call that holds a copy of the row, or a
restart): two requests are the least that overlap, a second client replaces the first one, and
two publications overlap. Combinations of two such events are left to the theorems, which have
no bounds.
- `NoOrphanSession`: a connected client is in the map, or held by the request or the
  `Restore` that is installing or removing it: whatever times out, is aborted, logged out or
  restored. Two exceptions are real. Requests do not exclude each other: a `BeginPairing`
  takes the map's entry from one that is still waiting for its code, although the comment at
  `adapter.go:296` says it cannot. And a client whose pump gave up
  (`err-scanned-without-multidevice`) stays connected without a code and unpaired, so the
  next `BeginPairing` replaces it.
- `StatusesAgree`: when no publication is under way and the last one overlapped none, the
  binding has the gateway's status, unless an older one was written back since, and the
  client that status is about, if it is in the map, has it too and is logged in exactly if
  it says active. A disagreement that overlapping publications leave ends with the next one
  that overlaps none.

### Decisions
`decisions` (2 cases, 1 replay, 2 promotions of rules with an inequality or an
equality, either scope, 1 failure): two cases for a decision of one and the approval of
the other, two promotions for one rule to replace or precede the other one.
- `DecidedByItsVersion`: a stored decision is that of the best rule of the version it names
  (compared with a definition of "best" by quantifiers), or of the agent, or the default.
- `ReplayReproduces`: a replay on the run's own version decides as the run did.
- `LearnedStaysLearned`: what the rules of a version decide, those of later versions do,
  unless promotions overlapped or failed. An interrupted promotion does lose a rule.
- `WritesAreApproved`: a final write is of the owner's case, its own decision, and a
  packet the operator had.

- `decisions_draft`, `ApprovedDraftIsSent` fails: the customer is sent a text that
  depends on the workflow alone, and not the "real draft" of the packet
  (`app.go:1713-1714`).

### Seen in the models, and accepted by the properties
Each of these follows from the source; the properties name them as exceptions or do
not speak of them.
- Any error of `GetReviewPacket` in a drain deletes the row (`gateway.go:332`); the
  comment there speaks of a vanished packet. `LossIsAccounted` counts it.
- Victoria's plain text in the owner's own chat is handled as the owner's when its id is not
  in the client's ring: an echo before the record, one in a client installed later, one
  after 64 other sends, while a drain sends up to 100. `CHANGELOG.md:60` says it is "no
  longer mistaken for new operator input".
- The pump of an aborted, replaced or logged out client goes on until its channel ends, and
  can report the tenant disconnected over the status of a newer client (`adapter.go:380`);
  the gateway shows that until the newer client's next event.
- A channel that ends with an event the pump ignores leaves the dead code shown, and every
  `BeginPairing` answers with it until a logout or a restart.
- Every call that changes the binding writes the status back that it has read
  (`postgres/store.go:286`), so the row can say disconnected while the gateway says active.
- Two drains that overlap, of a reconnect and of a registration, both send the rows both
  have listed; `SentAtMostOnce` allows no others.
- An operator who registers between a sender's check of the recipient and its insert
  leaves the packet waiting for the next transition of the session.
- Two promotions before there is a rule to lock number both rules alike; the alert at
  `app.go:1531` says neither of two contradicting rules will be promoted, and `promote`
  picks the newer one.
- Overlapping deliveries of one customer message both start a case.
- Taught equalities on fields that a customer's message lacks (`rules.go:175`) never
  match such a message; an inequality matches all of them.
- A pending follow-up overrides a tag and any text; approving by tap does not consume
  it; a failed record or a crash loses the answer while the prompt stays visible.
- A failed `Connect` deletes the tenant's map entry whosever client it is
  (`adapter.go:339`, `:345`), and `publish` of a first code that comes late can follow
  that of the connection.
- An approval's event stays when a correction follows, and the gate for final writes
  still finds it; the mode the gate looks at is the request's.

## 4. Deadlock, symmetry and fairness
The gateway's runs check deadlock. The other models end when every call has
returned, as the program does when nothing arrives, so their configurations do not
check it. Symmetry is used for sets of model values in runs of safety properties
only.

`FairSpec` assumes weak fairness of each goroutine with work to do (the Go
scheduler) and of the registration of the adapter (`main` goes on). Nothing is
assumed of session events, failures or registrations. `ReconnectingSpec` adds
strong fairness: the session is lost and comes back again and again, an operator
eventually registers, and the adapter does not refuse every send of a drain. This
is the environment of the comment "next session-active transition retries it"
(`gateway.go:347`); without it nothing drains a queue.

## 5. Proofs
Every safety invariant, action property and refinement of section 3 that passes is a
theorem, for every value of the constants that satisfies the assumption named in the
module: finite sets, naturals, positive bounds. The properties say themselves when they
exclude overlap or failures; `DeliveredIsSent` has a hypothesis of its own, stated below.
The proofs follow one pattern: the types first, then what a call in progress knows, then
the property with what its steps need.

- **OutboundQueue_proofs.**
  - `TypeCorrect`, with the fact that a sender past its first step has a packet row.
  - `LossAccounted`: `LossIsAccounted` is strengthened with `DeletesDelivered` (a drain
    about to delete a row has marked its packet), since the deletion is only then
    accounted for.
  - `QueueBounded`: the depth and the inserts still to come are counted together and the
    senders in flight are bounded by `MaxInFlight`; a sender reaches the insert either by
    seeing room or by evicting a row, and the depth it saw may be old.
  - `DrainsInOrder`, for any number of drains: the row a drain is at is not younger than
    those ahead of it, and a row of its list that it has left behind is delivered, expired
    or gone (`Ordered`); the snapshot itself may be as old as it likes.
  - `SentOnce`, for any number of drains: but for packets two drains have ahead of them
    (`shared`), one that has been sent is on the queue only while a drain is between its send
    and its deletion, and neither a sender nor a drain still has to send it (`Unsent`, as long
    as nothing crashed or failed).
  - `DeliveredIsSent`, *if the channel is Telegram or there is no restart*
    (`NoBootWindow`): nothing runs before the adapter is registered (`Given`).
    `outbound_boot_window` shows the case it leaves out.
  - `OutboxImplemented`: `ImplementsOutbox`, step by step. Each action moves the fate of at
    most one packet (`OneMoves`, `FateKept`), along a move that `Outbox` allows
    (`OutboxSender`, `OutboxDrainer`); that a row was accepted before it is dropped comes
    from `RowsInv`, that a deleted one was delivered from `LossInv`.
- **Learning_proofs.**
  - `StatusIsEarned`: the arithmetic of the confidence threshold, for all counts, comes to
    "three corrections of two cases, or four". `TypeCorrect`.
  - `UnderReviewEarned`: a merge writes back what it read some time ago, so the invariant
    `Sound` is asserted of *every* copy of a candidate record, stored, listed by a merger or
    read by a promotion (`Records`), with `Matches` (a merger adds its correction to a
    candidate of its own conditions and action) and `OneTarget`. It is stable because a
    correction that has begun never changes what it says.
  - `EvidenceStays` and `ContradictionStays`: a call that nothing has overlapped was alone
    (`Alone`), so when it ends no call holds a copy without what it wrote; afterwards every
    copy is made of a stored record that has it (`Steady`, `Evolves`). `Kept` and `Noted`
    say that of *every* copy, which is why a later overwrite does no harm.
  - `OneRuleAlways`: the rule of a promotion is active only after its step
    (`ActiveLate`), and one that is about to create its rule has left no active one
    (`OneRule`). `ManifestAlways`: `promotedAt` orders the promotions (`Clock`), and what an
    undisturbed one publishes stays the set of active rules until the next has read its
    candidate (`Published`).
- **Ingest_proofs.** `TypeCorrect`. `AnswersComplete`: a delivery at a step has the parts
  before it (`InOrder`), and a recorded case is complete (`RecordIsComplete`).
  `AnswersAgreeAlways` and `RecordKept`: when a delivery that ran alone has recorded its
  case nobody else is in flight, so whoever comes later finds the record (`Settled`).
- **Replies_proofs.**
  - `TypeCorrect`. `EffectsEvidenced`: each step that has an effect is reached only with the
    evidence stored (`StepHasEvidence`). `MergedOnce`: the insertion of the correction lets
    one delivery of a message past (`OneWorker`).
  - `ReplyOnce` counts: each transmission is charged to a failure or to one of the
    overlapping handlers that are spent (`Budget`). The invariant has to say that one charge
    is to spare while no transmission has been recorded, and that the record ends what a
    delivery that runs alone can add.
  - `LastReplyStands`: of a message that is being written nothing was marked before, and
    between the two writes the decision point is the message's already (`Decided`).
    `ResolvedWithEffect`: a delivery of every marked message still owes the effect until it
    has been done (`Owed`).
- **Conversation_proofs.**
  - `NumbersAreUsedOnce` and `ListsAreAsSaid`: `BindingInv` says of *every* copy of the row,
    stored, read by a call or by the handler (`Known`), that its number has been issued and
    is not one still to be written and that its operators have registered; numbers still to
    be written are unused and different (`Unwritten`), and the row knows whether its number
    has been used (`Consumed`). `OperatorsDecide`, `RepliesAreContained` and
    `CustomersEnter` add what the handler's step knows of its message and its copy
    (`HandlerInv`). They need that `Owner` is not one of `People`. For the echoes
    `OperatorsDecide` has to know the ring: a packet's id stands as far from its end as ids
    were recorded after it (`RingInv`), through evictions from a ring of any size, so one
    that is not found was never recorded or long ago (`HeardLate`).
  - `TypeCorrect`: packets are created in order (`PacketsInv`), and no copy of the row lists
    anybody twice (`RowsInv`). `RecordsWhatIsMeant`: the pending follow-up of the process and
    the question the operator has open are the same thing in every state (`Asked`), and a
    message that waits speaks of packets that exist (`Formed`).
- **WhatsAppSession_proofs.** `SessionsAreHeld`: a connected client that is neither paired
  nor shows a code is still waiting for its first one, unless its pump has given up on it
  (`Kept`), so the one a pairing replaces is closed or in a request's hands, and contested
  then; a request's client that is not contested is the one in the map until the request
  gives up (`Held`). This holds with any number of overlapping requests. `TypeCorrect` needs
  that the paired devices are finitely many, since `Restore` takes one of them.
  `StatusIsTrue`: without a race one publication is under way at a time, what it says of its
  client is true, and nothing that is due, a pump's or a request's, is of a client that has
  logged in (`Truth`), so the publication that ends a race leaves the truth behind it.
  `SessionAssumption` says that no request is called "handler" or "pump", the names of the
  other two that report.
- **Decisions_proofs.**
  - `ReplayIsFaithful`: versions are only appended to, and a decision without the agent is
    what `Evaluate` gives for the version and payload of the run (`Decided`, `Pinned`);
    `Evaluate` itself is not expanded, so the theorem holds for any rules.
    `WritesApproved`: approvals are of cases with a packet, and runs are never given
    another run's decision.
  - `DecidedByVersion`: `Manifest` is a choice among the orderings of the rules, so that one
    is sorted has to be proved. `Precedes` is a strict order, total on rules with ids of
    their own (`PrecedesOrders`); the number of rules before a rule is its place, which
    makes the places a bijection (`Places`), and the first match of a sorted manifest is the
    least matching rule (`BestRule`, with the least-number principle `LeastNumber`). That the
    ids differ is `RulesInv`.
  - `LearningStays`: while promotions take turns and none fails, the conditions of every
    rule of a version are those of an active rule, or of the one under way, and of a rule of
    each later version (`LearnedInv`); a payload that matches the one matches the other.
  - `TypeCorrect`: how many rows of a run are stored follows from where it is (`RowsInv`).

Only model-checked: `QueueEventuallyDrains`. Liveness under fairness and `ENABLED` are
beyond the prover. Induction over data and recursive operators are too, but nothing here
needs them: no module uses `RECURSIVE`, and a manifest's order is reasoned about by counting.
`OutboxImplemented` is about safety, as `Outbox` states no fairness.

## 6. Not modelled, and why
The sweeper is SQL over third-party tables. Aggregates are one pass that writes
nothing. The Telegram adapter is a stub, and `HandleTelegramInbound`, which only tests
call, follows `HandleWhatsAppInbound`. Provisioning appears through what it leaves behind; a
failure between its inserts, after which a retry with the same provider number is
refused, is not modelled. The HTTP API's decoding, authentication and error mapping, the
prompt and the HTTP call of the DeepSeek agent, and the text of notifications and packets
are not looked at. Tenants are independent but for the number a binding is keyed by
(`UpsertChannelBinding` on a conflict of the provider number), which is left out.

## 7. What could come next
1. An abstract specification for ingestion (a message has one case) and for replies (a
   packet has one decision), implemented while deliveries do not overlap.
2. `Conversation` composed with `Replies`, so that the row of a customer's reply meets a
   mode that changes; `WhatsAppSession` composed with `OutboundQueue` in place of its free
   session events.
3. The other workflows and scopes in `Decisions`.
