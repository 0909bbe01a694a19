-------------------------------- MODULE Binding --------------------------------
(***************************************************************************)
(* The WhatsApp channel binding of one tenant, one row of channel_bindings,*)
(* and the calls that change it (internal/app/app.go): consent, the list of*)
(* customers and the operators' number from the API, and the commands that *)
(* arrive as WhatsApp messages.  Each reads the whole row, changes its copy*)
(* and writes the whole row back, without a transaction around the two; so *)
(* a change is a read and, later, a write.  A registration number (the     *)
(* command secret) is a natural number; a pause ends with a resume.        *)
(***************************************************************************)
EXTENDS Naturals, Sequences, SequencesExt, FiniteSets

CONSTANTS People,      \* people on WhatsApp: operators, customers, strangers
          Owner,       \* the account that is paired
          Requests,    \* calls of the API
          MaxNumbers   \* registration numbers issued

ASSUME BindingAssumption == Owner \notin People /\ MaxNumbers \in Nat

VARIABLES
  row,       \* the row
  request,   \* the API calls: what they do and the row they have read
  issued,    \* registration numbers so far
  \* History.
  used,      \* pairs <<number, person>>: registrations written
  said,      \* the people the last written change about them has added
  stale      \* has a row read earlier replaced a different one?

bindingVars == <<row, request, issued, used, said, stale>>

Modes == {"read_only", "full_control"}

Row == [mode : Modes, operators : Seq(People \cup {Owner}), customers : SUBSET People,
        number : Nat, consumed : BOOLEAN, paused : BOOLEAN]

\* ProvisionTenant: read only, nobody listed, a first number.
ProvisionedRow ==
  [mode |-> "read_only", operators |-> <<>>, customers |-> {}, number |-> 0,
   consumed |-> FALSE, paused |-> FALSE]

\* As provisioned; or in full control with the first operator, who has used
\* the first number.
BindingInit ==
  /\ \/ row = ProvisionedRow /\ used = {}
     \/ \E person \in People :
          /\ row = [ProvisionedRow EXCEPT !.mode = "full_control", !.consumed = TRUE,
                                         !.operators = <<person>>]
          /\ used = {<<0, person>>}
  /\ request = [r \in Requests |-> [pc |-> "idle"]]
  /\ issued = 0 /\ said = {} /\ stale = FALSE

\* appendIfMissing.
WithMember(list, person) ==
  IF Contains(list, person) THEN list ELSE Append(list, person)

\* Mutation of Changed: the number stays valid after a registration.
ChangedUnconsumed(change, b) ==
  CASE change.kind = "consent" -> [b EXCEPT !.mode = change.mode]
    [] change.kind = "add"      -> [b EXCEPT !.customers = @ \cup {change.who}]
    [] change.kind = "remove"   -> [b EXCEPT !.customers = @ \ {change.who}]
    [] change.kind = "reissue"  -> [b EXCEPT !.number = change.number, !.consumed = FALSE]
    [] change.kind = "register" -> [b EXCEPT !.operators = WithMember(@, change.who)]
    [] change.kind = "pause"    -> [b EXCEPT !.paused = TRUE]
    [] change.kind = "resume"   -> [b EXCEPT !.paused = FALSE]

\* Mutation of Changed: consent starts the lists afresh.
ChangedAnew(change, b) ==
  CASE change.kind = "consent"  -> [ProvisionedRow EXCEPT !.mode = change.mode,
                                    !.number = b.number, !.consumed = b.consumed]
    [] change.kind = "add"      -> [b EXCEPT !.customers = @ \cup {change.who}]
    [] change.kind = "remove"   -> [b EXCEPT !.customers = @ \ {change.who}]
    [] change.kind = "reissue"  -> [b EXCEPT !.number = change.number, !.consumed = FALSE]
    [] change.kind = "register" -> [b EXCEPT !.operators = WithMember(@, change.who),
                                             !.consumed = TRUE]
    [] change.kind = "pause"    -> [b EXCEPT !.paused = TRUE]
    [] change.kind = "resume"   -> [b EXCEPT !.paused = FALSE]

\* What each call does to its copy of the row.
Changed(change, b) ==
  CASE change.kind = "consent"  -> [b EXCEPT !.mode = change.mode]
    [] change.kind = "add"      -> [b EXCEPT !.customers = @ \cup {change.who}]
    [] change.kind = "remove"   -> [b EXCEPT !.customers = @ \ {change.who}]
    [] change.kind = "reissue"  -> [b EXCEPT !.number = change.number, !.consumed = FALSE]
    [] change.kind = "register" -> [b EXCEPT !.operators = WithMember(@, change.who),
                                             !.consumed = TRUE]
    [] change.kind = "pause"    -> [b EXCEPT !.paused = TRUE]
    [] change.kind = "resume"   -> [b EXCEPT !.paused = FALSE]

\* Does a registration succeed against the row that was read?
Accepts(b, number) == ~b.consumed /\ b.number = number

\* UpsertChannelBinding of a changed copy, and what it is remembered for.
WriteRow(change, copy) ==
  /\ row' = Changed(change, copy)
  /\ stale' = (stale \/ copy # row)
  /\ used' = IF change.kind = "register"
             THEN used \cup {<<copy.number, change.who>>} ELSE used
  /\ said' = CASE change.kind = "add" -> said \cup {change.who}
               [] change.kind = "remove" -> said \ {change.who}
               [] OTHER -> said

-----------------------------------------------------------------------------
(* AcknowledgeWhatsAppConsent, AddWhatsAppCustomer, RemoveWhatsAppCustomer *)
(* and ReissueWhatsAppCommandSecret called through the API                 *)

ReadRow(r, change) ==
  /\ request[r].pc = "idle"
  /\ request' = [request EXCEPT ![r] =
                   [pc |-> "write", change |-> change, copy |-> row]]

Consent(r) ==
  /\ \E mode \in Modes : ReadRow(r, [kind |-> "consent", mode |-> mode])
  /\ UNCHANGED <<row, issued, used, said, stale>>

ChangeCustomer(r) ==
  /\ \E kind \in {"add", "remove"}, person \in People :
       ReadRow(r, [kind |-> kind, who |-> person])
  /\ UNCHANGED <<row, issued, used, said, stale>>

Reissue(r) ==
  /\ issued < MaxNumbers /\ issued' = issued + 1
  /\ ReadRow(r, [kind |-> "reissue", number |-> issued'])
  /\ UNCHANGED <<row, used, said, stale>>

Write(r) ==
  /\ request[r].pc = "write"
  /\ WriteRow(request[r].change, request[r].copy)
  /\ request' = [request EXCEPT ![r] = [pc |-> "done"]]
  /\ UNCHANGED issued

\* The process ends: calls that have not written do not.
RequestsEnd ==
  [r \in Requests |-> IF request[r].pc = "idle" THEN request[r] ELSE [pc |-> "done"]]

-----------------------------------------------------------------------------
(* Properties                                                              *)

\* Each registration number makes one operator at most, unless a call wrote
\* back a row it had read before another one changed it.
NumberUsedOnce ==
  ~stale => \A u, v \in used : u[1] = v[1] => u = v

\* The customers are those the last change of each says, and the operators
\* those who registered: no call undoes what it is not about, unless a row
\* read earlier has been written over a change.
ListsAsSaid ==
  ~stale => /\ row.customers = said
            /\ {row.operators[i] : i \in DOMAIN row.operators} = {u[2] : u \in used}
=============================================================================
