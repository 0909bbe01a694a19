-------------------------- MODULE Conversation_proofs --------------------------
(***************************************************************************)
(* Theorems about Conversation and the channel binding it works on, for    *)
(* all sets of people and requests and all bounds.                         *)
(***************************************************************************)
EXTENDS Conversation, FiniteSetTheorems, TLAPS

Accounts == People \cup {Owner}

\* The changes the calls and the commands make.
Changes ==
  [kind : {"consent"}, mode : Modes] \cup [kind : {"add", "remove"}, who : People]
    \cup [kind : {"reissue"}, number : Nat] \cup [kind : {"register"}, who : Accounts]
    \cup [kind : {"pause", "resume"}, who : People \cup Nat]

Registered == {u[2] : u \in used}

Writing(r) == request[r].pc = "write"
Reissuing(r) == Writing(r) /\ request[r].change.kind = "reissue"

\* A copy of the row, of whatever time: its number has been issued and is not
\* one that still has to be written, and its operators have registered.
Known(b) ==
  /\ b \in Row /\ b.number <= issued
  /\ Operators(b) \subseteq Registered
  /\ \A r \in Requests : Reissuing(r) => request[r].change.number # b.number

\* Numbers still to be written are unused and different from each other.
Unwritten ==
  \A r \in Requests : Reissuing(r) =>
    /\ request[r].change.number \in 1..issued
    /\ \A u \in used : u[1] # request[r].change.number
    /\ \A s \in Requests : Reissuing(s) /\ s # r =>
         request[s].change.number # request[r].change.number

\* The number of the row has been used only if the row says so.
Consumed ==
  ~stale => \A u \in used : u[1] = row.number => row.consumed

BindingInv ==
  /\ issued \in Nat /\ used \subseteq Nat \X Accounts
  /\ request = [r \in Requests |-> request[r]]
  /\ \A r \in Requests : Writing(r) => request[r].change \in Changes /\
       request[r].change.kind # "register" /\ Known(request[r].copy)
  /\ Known(row) /\ Known(copy)
  /\ \A u \in used : u[1] <= issued
  /\ Unwritten /\ Consumed /\ NumberUsedOnce /\ ListsAsSaid

-----------------------------------------------------------------------------
(* The row                                                                 *)

\* What a change does to the parts of the row that registrations are about.
LEMMA ChangedRow ==
  ASSUME NEW b \in Row, NEW change \in Changes
  PROVE  /\ Changed(change, b) \in Row
         /\ Changed(change, b).number =
              IF change.kind = "reissue" THEN change.number ELSE b.number
         /\ change.kind \notin {"register", "reissue"} =>
              Changed(change, b).consumed = b.consumed
         /\ change.kind = "register" => Changed(change, b).consumed
         /\ Operators(Changed(change, b)) =
              IF change.kind = "register" THEN Operators(b) \cup {change.who} ELSE Operators(b)
         /\ Changed(change, b).customers =
              CASE change.kind = "add" -> b.customers \cup {change.who}
                [] change.kind = "remove" -> b.customers \ {change.who}
                [] OTHER -> b.customers
<1> USE DEF Changes
<1>1. CASE change.kind = "consent"
  BY <1>1 DEF Changed, Row, Operators
<1>2. CASE change.kind = "add"
  BY <1>2 DEF Changed, Row, Operators
<1>3. CASE change.kind = "remove"
  BY <1>3 DEF Changed, Row, Operators
<1>4. CASE change.kind = "reissue"
  BY <1>4 DEF Changed, Row, Operators
<1>5. CASE change.kind = "register"
  <2> DEFINE list == WithMember(b.operators, change.who)
  <2>1. b.operators \in Seq(Accounts) /\ change.who \in Accounts
    BY <1>5 DEF Row, Accounts
  <2>2. /\ list \in Seq(Accounts)
        /\ \A i \in DOMAIN list : list[i] = change.who \/ \E j \in DOMAIN b.operators : list[i] = b.operators[j]
        /\ \A j \in DOMAIN b.operators : \E i \in DOMAIN list : list[i] = b.operators[j]
        /\ \E i \in DOMAIN list : list[i] = change.who
    <3>1. CASE Contains(b.operators, change.who)
      BY <2>1, <3>1 DEF WithMember, Contains
    <3>2. CASE ~Contains(b.operators, change.who)
      <4>1. list = Append(b.operators, change.who)
        BY <3>2 DEF WithMember
      <4>2. /\ list \in Seq(Accounts) /\ DOMAIN list = DOMAIN b.operators \cup {Len(b.operators) + 1}
            /\ list[Len(b.operators) + 1] = change.who
            /\ \A j \in DOMAIN b.operators : list[j] = b.operators[j]
        BY <2>1, <4>1
      <4> QED
        BY <4>2
    <3> QED
      BY <3>1, <3>2
  <2> HIDE DEF list
  <2>3. Changed(change, b) = [b EXCEPT !.operators = list, !.consumed = TRUE]
    BY <1>5 DEF Changed, list
  <2> DEFINE c == [b EXCEPT !.operators = list, !.consumed = TRUE]
  <2>4. /\ c.operators = list /\ c.consumed = TRUE /\ c.number = b.number
        /\ c.customers = b.customers
        /\ c \in [mode : Modes, operators : Seq(Accounts), customers : SUBSET People,
                  number : Nat, consumed : BOOLEAN, paused : BOOLEAN]
    BY <2>2 DEF Row, Accounts
  <2> HIDE DEF c
  <2>5. Operators(c) = Operators(b) \cup {change.who}
    BY <2>2, <2>4 DEF Operators
  <2> QED
    BY <1>5, <2>3, <2>4, <2>5 DEF Row, Accounts, c
<1>6. CASE change.kind = "pause"
  BY <1>6 DEF Changed, Row, Operators
<1>7. CASE change.kind = "resume"
  BY <1>7 DEF Changed, Row, Operators
<1> QED
  BY <1>1, <1>2, <1>3, <1>4, <1>5, <1>6, <1>7

LEMMA ProvisionedIsRow ==
  /\ ProvisionedRow \in Row /\ ProvisionedRow.number = 0
  /\ ProvisionedRow.mode = "read_only" /\ Operators(ProvisionedRow) = {}
  /\ ProvisionedRow.customers = {}
<1>1. <<>> \in Seq(People \cup {Owner}) /\ DOMAIN <<>> = {}
  OBVIOUS
<1>2. ProvisionedRow \in Row /\ ProvisionedRow.number = 0 /\ ProvisionedRow.operators = <<>>
      /\ ProvisionedRow.mode = "read_only" /\ ProvisionedRow.customers = {}
  BY <1>1 DEF ProvisionedRow, Row, Modes
<1> QED
  BY <1>1, <1>2 DEF Operators

\* A row in full control whose operators have registered.
LEMMA RegisteredRow ==
  ASSUME NEW b \in Row, NEW list \in Seq(People \cup {Owner})
  PROVE  LET c == [b EXCEPT !.mode = "full_control", !.consumed = TRUE, !.operators = list]
         IN  c \in Row /\ c.number = b.number /\ c.consumed = TRUE /\ c.operators = list
             /\ c.customers = b.customers
<1> DEFINE c == [b EXCEPT !.mode = "full_control", !.consumed = TRUE, !.operators = list]
<1>1. /\ c.number = b.number /\ c.consumed = TRUE /\ c.operators = list
      /\ c.customers = b.customers
      /\ c \in [mode : Modes, operators : Seq(People \cup {Owner}),
                customers : SUBSET People, number : Nat, consumed : BOOLEAN, paused : BOOLEAN]
  BY DEF Row, Modes
<1> HIDE DEF c
<1>2. c \in Row /\ c.number = b.number /\ c.consumed = TRUE /\ c.operators = list
      /\ c.customers = b.customers
  BY <1>1 DEF Row
<1> QED
  BY <1>2, Zenon DEF c

LEMMA BindingStart == Init => BindingInv
<1> SUFFICES ASSUME Init
             PROVE  BindingInv
  OBVIOUS
<1>1. /\ issued = 0 /\ stale = FALSE /\ said = {} /\ copy = ProvisionedRow
      /\ request = [r \in Requests |-> [pc |-> "idle"]]
  BY DEF Init, BindingInit
<1>2. \A r \in Requests : ~Writing(r) /\ ~Reissuing(r)
  BY <1>1 DEF Writing, Reissuing
<1>3. Known(ProvisionedRow)
  <2>1. ProvisionedRow.number <= issued
    BY <1>1, ProvisionedIsRow
  <2> QED
    BY <1>2, <2>1, ProvisionedIsRow DEF Known
<1>4. CASE row = ProvisionedRow /\ used = {}
  BY <1>1, <1>2, <1>3, <1>4, ProvisionedIsRow
     DEF BindingInv, Unwritten, Consumed, NumberUsedOnce, ListsAsSaid, Operators
<1>5. ASSUME NEW person \in People, used = {<<0, person>>},
             row \in Row, row.number = 0, row.consumed = TRUE, Operators(row) = {person},
             row.customers = {}
      PROVE  BindingInv
  <2>1. Registered = {person}
    BY <1>5 DEF Registered
  <2>2. Known(row)
    BY <1>1, <1>2, <1>5, <2>1 DEF Known
  <2> QED
    BY <1>1, <1>2, <1>3, <1>5, <2>2
       DEF BindingInv, Unwritten, Consumed, NumberUsedOnce, ListsAsSaid, Operators, Accounts
<1>6. CASE \E person \in People :
             /\ row = [ProvisionedRow EXCEPT !.mode = "full_control", !.consumed = TRUE,
                                             !.operators = <<person>>]
             /\ used = {<<0, person>>}
  <2>1. PICK person \in People :
          /\ row = [ProvisionedRow EXCEPT !.mode = "full_control", !.consumed = TRUE,
                                          !.operators = <<person>>]
          /\ used = {<<0, person>>}
    BY <1>6, Zenon
  <2>2. used = {<<0, person>>}
    BY <2>1, Zenon
  <2>3. <<person>> \in Seq(People \cup {Owner})
    OBVIOUS
  <2>4. row \in Row /\ row.number = 0 /\ row.consumed = TRUE /\ row.operators = <<person>>
        /\ row.customers = {}
    BY <2>1, <2>3, ProvisionedIsRow, RegisteredRow, Zenon
  <2>5. Operators(row) = {person}
    BY <2>4 DEF Operators
  <2> QED
    BY <1>5, <2>2, <2>4, <2>5
<1> QED
  BY <1>4, <1>6, Zenon DEF Init, BindingInit

-----------------------------------------------------------------------------
(* Steps of the binding                                                    *)

\* The invariant survives when the row stays, calls only end, and the handler
\* keeps, drops or renews its copy.
LEMMA BindingKept ==
  ASSUME BindingInv, UNCHANGED <<row, issued, used, said, stale>>,
         request' = [r \in Requests |-> request'[r]],
         \A r \in Requests : request'[r] = request[r] \/ request'[r].pc # "write",
         copy' \in {copy, row, ProvisionedRow}
  PROVE  BindingInv'
<1> USE DEF BindingInv
<1>1. \A r \in Requests :
        /\ Reissuing(r)' => Reissuing(r) /\ request'[r] = request[r]
        /\ Writing(r)' => Writing(r) /\ request'[r] = request[r]
  BY DEF Writing, Reissuing
<1>2. Registered' = Registered
  BY DEF Registered
<1>3. ASSUME NEW b, Known(b)
      PROVE  /\ b \in Row /\ b.number <= issued' /\ Operators(b) \subseteq Registered'
             /\ \A r \in Requests : Reissuing(r)' => request'[r].change.number # b.number
  BY <1>1, <1>2, <1>3 DEF Known
<1>4. Known(ProvisionedRow)
  <2>1. \A r \in Requests : Reissuing(r) => request[r].change.number # 0
    BY DEF Unwritten
  <2> QED
    BY <2>1, ProvisionedIsRow DEF Known
<1>5. Known(row)' /\ Known(copy)'
  BY <1>3, <1>4 DEF Known
<1>6. \A r \in Requests : Writing(r)' => request'[r].change \in Changes /\
        request'[r].change.kind # "register" /\ Known(request[r].copy)'
  BY <1>1, <1>3 DEF Known
<1>7. Unwritten'
  BY <1>1 DEF Unwritten
<1>8. Consumed' /\ NumberUsedOnce' /\ ListsAsSaid'
  BY DEF Consumed, NumberUsedOnce, ListsAsSaid
<1> QED
  BY <1>5, <1>6, <1>7, <1>8

\* It survives the write of a copy that has been read at any time.
LEMMA BindingWritten ==
  ASSUME BindingInv, NEW b, Known(b), NEW change \in Changes, WriteRow(change, b),
         change.kind = "register" => ~b.consumed,
         change.kind = "reissue" =>
           \E r \in Requests : /\ Reissuing(r) /\ request'[r].pc # "write"
                              /\ request[r].change.number = change.number,
         UNCHANGED issued, request' = [r \in Requests |-> request'[r]],
         \A r \in Requests : request'[r] = request[r] \/ request'[r].pc # "write",
         copy' \in {copy, ProvisionedRow}
  PROVE  BindingInv'
<1> USE DEF BindingInv
<1>1. \A r \in Requests :
        /\ Reissuing(r)' => Reissuing(r) /\ request'[r] = request[r]
        /\ Writing(r)' => Writing(r) /\ request'[r] = request[r]
  BY DEF Writing, Reissuing
<1>2. /\ row' = Changed(change, b) /\ stale' = (stale \/ b # row)
      /\ used' = IF change.kind = "register" THEN used \cup {<<b.number, change.who>>} ELSE used
  BY DEF WriteRow
<1>3. b \in Row /\ b.number \in Nat
  BY DEF Known, Row
<1>4. /\ row' \in Row
      /\ row'.number = IF change.kind = "reissue" THEN change.number ELSE b.number
      /\ change.kind \notin {"register", "reissue"} => row'.consumed = b.consumed
      /\ change.kind = "register" => row'.consumed
      /\ Operators(row') =
           IF change.kind = "register" THEN Operators(b) \cup {change.who} ELSE Operators(b)
      /\ row'.customers = CASE change.kind = "add" -> b.customers \cup {change.who}
                            [] change.kind = "remove" -> b.customers \ {change.who}
                            [] OTHER -> b.customers
  BY <1>2, <1>3, ChangedRow
<1>5. change.kind = "register" => change.who \in Accounts
  BY DEF Changes
<1>6. Registered' = Registered \cup (IF change.kind = "register" THEN {change.who} ELSE {})
  <2>1. CASE change.kind = "register"
    <3> DEFINE v == <<b.number, change.who>>
    <3>1. used' = used \cup {v} /\ v[2] = change.who
      BY <1>2, <2>1
    <3> HIDE DEF v
    <3>2. \A x : x \in Registered' <=> x \in Registered \/ x = change.who
      BY <3>1, Zenon DEF Registered
    <3> QED
      BY <2>1, <3>2
  <2>2. CASE change.kind # "register"
    BY <1>2, <2>2 DEF Registered
  <2> QED
    BY <2>1, <2>2
<1>7. used' \subseteq Nat \X Accounts /\ \A u \in used' : u[1] <= issued'
  BY <1>2, <1>3, <1>5 DEF Known
<1>8. ASSUME NEW c, Known(c)
      PROVE  /\ c \in Row /\ c.number <= issued' /\ Operators(c) \subseteq Registered'
             /\ \A r \in Requests : Reissuing(r)' => request'[r].change.number # c.number
  BY <1>1, <1>6, <1>8 DEF Known
<1>9. Known(ProvisionedRow)
  <2>1. \A r \in Requests : Reissuing(r) => request[r].change.number # 0
    BY DEF Unwritten
  <2> QED
    BY <2>1, ProvisionedIsRow DEF Known
<1>10. Known(copy)'
  BY <1>8, <1>9 DEF Known
<1>11. Known(row)'
  <2>1. Operators(row') \subseteq Registered'
    BY <1>4, <1>6 DEF Known
  <2>2. CASE change.kind = "reissue"
    <3>1. PICK r \in Requests : /\ Reissuing(r) /\ request'[r].pc # "write"
                               /\ request[r].change.number = change.number
      BY <2>2
    <3>2. row'.number <= issued'
      BY <1>4, <2>2, <3>1 DEF Unwritten
    <3>3. ~Reissuing(r)'
      BY <3>1 DEF Reissuing, Writing
    <3>4. \A s \in Requests : Reissuing(s)' => request'[s].change.number # row'.number
      BY <1>1, <1>4, <2>2, <3>1, <3>3 DEF Unwritten
    <3> QED
      BY <1>4, <2>1, <3>2, <3>4 DEF Known
  <2>3. CASE change.kind # "reissue"
    BY <1>1, <1>4, <2>1, <2>3 DEF Known
  <2> QED
    BY <2>2, <2>3
<1>12. \A r \in Requests : Writing(r)' => request'[r].change \in Changes /\
         request'[r].change.kind # "register" /\ Known(request[r].copy)'
  BY <1>1, <1>8 DEF Known
<1>13. Unwritten'
  <2>1. \A r \in Requests, u \in used' : Reissuing(r)' => u[1] # request'[r].change.number
    BY <1>1, <1>2, <1>3 DEF Unwritten, Known
  <2> QED
    BY <1>1, <2>1 DEF Unwritten
<1>14. Consumed'
  <2> SUFFICES ASSUME ~stale', NEW u \in used', u[1] = row'.number
               PROVE  row'.consumed
    BY DEF Consumed
  <2>1. b = row /\ ~stale
    BY <1>2
  <2>2. CASE change.kind = "reissue"
    BY <1>2, <1>4, <2>2 DEF Unwritten
  <2>3. CASE change.kind = "register"
    BY <1>4, <2>3
  <2>4. CASE change.kind \notin {"register", "reissue"}
    <3>1. u \in used /\ u[1] = row.number
      BY <1>2, <1>4, <2>1, <2>4
    <3> QED
      BY <1>4, <2>1, <2>4, <3>1 DEF Consumed
  <2> QED
    BY <2>2, <2>3, <2>4
<1>15. NumberUsedOnce'
  <2> SUFFICES ASSUME ~stale', NEW u \in used', NEW v \in used', u[1] = v[1]
               PROVE  u = v
    BY DEF NumberUsedOnce
  <2>1. b = row /\ ~stale
    BY <1>2
  <2>2. CASE change.kind = "register"
    <3>1. \A w \in used : w[1] # row.number
      BY <2>1, <2>2 DEF Consumed
    <3> QED
      BY <1>2, <2>1, <2>2, <3>1 DEF NumberUsedOnce
  <2>3. CASE change.kind # "register"
    BY <1>2, <2>1, <2>3 DEF NumberUsedOnce
  <2> QED
    BY <2>2, <2>3
<1>16. ListsAsSaid'
  <2> SUFFICES ASSUME ~stale'
               PROVE  row'.customers = said' /\ Operators(row') = Registered'
    BY DEF ListsAsSaid, Operators, Registered
  <2>1. b = row /\ row.customers = said /\ Operators(row) = Registered
    BY <1>2 DEF ListsAsSaid, Operators, Registered
  <2>2. row'.customers = said'
    BY <1>4, <2>1 DEF WriteRow
  <2>3. Operators(row') = Registered'
    BY <1>4, <1>6, <2>1
  <2> QED
    BY <2>2, <2>3
<1> QED
  BY <1>7, <1>10, <1>11, <1>12, <1>13, <1>14, <1>15, <1>16

\* A call that has read the row.
LEMMA BindingRead ==
  ASSUME BindingInv, NEW r \in Requests, NEW change \in Changes, ReadRow(r, change),
         UNCHANGED <<row, used, said, stale, copy>>,
         IF change.kind = "reissue"
         THEN issued' = issued + 1 /\ change.number = issued'
         ELSE UNCHANGED issued,
         change.kind # "register"
  PROVE  BindingInv'
<1> USE DEF BindingInv
<1>1. /\ request' = [s \in Requests |-> request'[s]]
      /\ request'[r] = [pc |-> "write", change |-> change, copy |-> row]
      /\ \A s \in Requests : s # r => request'[s] = request[s]
  BY DEF ReadRow
<1>2. \A s \in Requests : s # r =>
        /\ Reissuing(s)' => Reissuing(s)
        /\ Writing(s)' => Writing(s)
  BY <1>1 DEF Reissuing, Writing
<1>3. /\ Writing(r)' /\ (Reissuing(r)' => change.kind = "reissue")
      /\ request'[r].change = change /\ request'[r].copy = row
  BY <1>1 DEF Reissuing, Writing
<1>4. issued' \in Nat /\ issued <= issued' /\ (change.kind = "reissue" => issued < issued')
  OBVIOUS
<1>5. Registered' = Registered
  BY DEF Registered
<1>6. ASSUME NEW b, Known(b)
      PROVE  /\ b \in Row /\ b.number <= issued' /\ Operators(b) \subseteq Registered'
             /\ \A s \in Requests : Reissuing(s)' => request'[s].change.number # b.number
  <2>1. b \in Row /\ b.number \in Nat /\ b.number <= issued
    BY <1>6 DEF Known, Row
  <2>2. \A s \in Requests : Reissuing(s)' => request'[s].change.number # b.number
    <3>1. ASSUME NEW s \in Requests, s # r, Reissuing(s)'
          PROVE  request'[s].change.number # b.number
      BY <1>1, <1>2, <1>6, <3>1 DEF Known
    <3>2. Reissuing(r)' => request'[r].change.number # b.number
      BY <1>3, <1>4, <2>1
    <3> QED
      BY <3>1, <3>2
  <2> QED
    BY <1>4, <1>5, <1>6, <2>1, <2>2 DEF Known
<1>7. Known(row)' /\ Known(copy)'
  BY <1>6 DEF Known
<1>8. \A s \in Requests : Writing(s)' => request'[s].change \in Changes /\
        request'[s].change.kind # "register" /\ Known(request[s].copy)'
  BY <1>1, <1>2, <1>3, <1>6, <1>7 DEF Known
<1>9. \A u \in used' : u[1] <= issued'
  BY <1>4
<1>10. Unwritten'
  <2>1. \A s \in Requests : s # r /\ Reissuing(s)' =>
          /\ request'[s].change = request[s].change
          /\ request[s].change.number \in 1..issued /\ request[s].change.number \in 1..issued'
          /\ \A u \in used : u[1] # request[s].change.number
    BY <1>1, <1>2, <1>4 DEF Unwritten
  <2>2. Reissuing(r)' =>
          /\ request'[r].change.number = issued' /\ issued' = issued + 1
          /\ \A u \in used : u[1] # issued'
    BY <1>3, <1>4
  <2>3. \A s \in Requests : s # r /\ Reissuing(s)' /\ Reissuing(r)' =>
          request'[s].change.number # request'[r].change.number
    BY <2>1, <2>2
  <2>4. \A s, t \in Requests : s # r /\ t # r /\ Reissuing(s)' /\ Reissuing(t)' /\ s # t =>
          request'[s].change.number # request'[t].change.number
    BY <1>2, <2>1 DEF Unwritten
  <2>5. \A s \in Requests : Reissuing(s)' =>
          /\ request'[s].change.number \in 1..issued'
          /\ \A u \in used : u[1] # request'[s].change.number
    BY <1>4, <2>1, <2>2
  <2>6. \A s, t \in Requests : Reissuing(s)' /\ Reissuing(t)' /\ s # t =>
          request'[s].change.number # request'[t].change.number
    BY <2>3, <2>4
  <2> QED
    BY <2>5, <2>6 DEF Unwritten
<1>11. Consumed' /\ NumberUsedOnce' /\ ListsAsSaid'
  BY DEF Consumed, NumberUsedOnce, ListsAsSaid
<1> QED
  BY <1>4, <1>1, <1>7, <1>8, <1>9, <1>10, <1>11

-----------------------------------------------------------------------------
(* The message handler                                                     *)

Message(m) ==
  /\ DOMAIN m = {"author", "text", "arg", "ref", "question", "seen", "moved", "late"}
  /\ m.author \in Accounts /\ m.arg \in People \cup Nat
  /\ m.text \in {"add", "remove"} => m.arg \in People

MayDecide(m, b) ==
  IF b.mode = "read_only" THEN m.author = Owner ELSE m.author \in Registered

HandlerInv ==
  /\ Message(msg)
  /\ \A m \in again : Message(m) /\ (m.text = "echo" => m.late)
  /\ msg.text = "echo" => msg.late
  /\ pc = "write" => msg.text \in {"add", "remove"}
  /\ pc = "record" => MayDecide(msg, copy)
  /\ pc \in {"routed", "ingest"} /\ ~msg.moved => copy = row
  /\ pc = "ingest" => ~copy.paused /\ Role(msg.author, copy) = "customer"
  /\ A0Contained

Inv == BindingInv /\ HandlerInv

LEMMA SpentMessage ==
  ASSUME NEW m, Message(m)
  PROVE  /\ Message(Spent(m)) /\ Spent(m).author = m.author /\ Spent(m).text = m.text
         /\ Spent(m).arg = m.arg /\ Spent(m).moved = TRUE /\ Spent(m).late = m.late
<1>1. /\ DOMAIN Spent(m) = DOMAIN m /\ Spent(m).author = m.author /\ Spent(m).text = m.text
      /\ Spent(m).arg = m.arg /\ Spent(m).moved = TRUE /\ Spent(m).late = m.late
  BY DEF Message, Spent
<1> QED
  BY <1>1 DEF Message

LEMMA NoMessageIsMessage == Message(NoMessage) /\ NoMessage.text = "promote"
BY DEF Message, NoMessage, Accounts

\* The handler returns.
LEMMA Finished ==
  ASSUME Inv, BindingInv', Finish, UNCHANGED again
  PROVE  Inv'
<1>1. pc' = "ack" /\ msg' = Spent(msg)
  BY DEF Finish
<1>2. Message(msg') /\ msg'.moved /\ (msg'.text = "echo" => msg'.late)
  BY <1>1, SpentMessage DEF Inv, HandlerInv
<1>3. \A m \in again' : Message(m) /\ (m.text = "echo" => m.late)
  BY DEF Inv, HandlerInv
<1> QED
  BY <1>1, <1>2, <1>3 DEF Inv, HandlerInv, A0Contained, Message

\* The handler gets a message.
LEMMA Handed ==
  ASSUME Inv, NEW m, Message(m), m.text = "echo" => m.late, Deliver(m),
         UNCHANGED bindingVars, again' \subseteq again
  PROVE  Inv'
<1>1. pc' = "routed" /\ msg' = m /\ copy' = row
  BY DEF Deliver
<1>2. BindingInv'
  BY <1>1, BindingKept DEF Inv, BindingInv, bindingVars
<1> QED
  BY <1>1, <1>2 DEF Inv, HandlerInv, A0Contained, Message, bindingVars

\* The message of the handler is spent, and nothing else of it changes.
LEMMA Moved ==
  ASSUME Inv, BindingInv', Moves, UNCHANGED <<pc, copy, again>>, used \subseteq used'
  PROVE  Inv'
<1>1. Registered \subseteq Registered'
  BY DEF Registered
<1>2. CASE pc = "idle"
  <2>1. msg' = msg
    BY <1>2 DEF Moves
  <2> QED
    BY <1>2, <2>1 DEF Inv, HandlerInv, A0Contained, Message
<1>3. CASE pc # "idle"
  <2>1. msg' = Spent(msg)
    BY <1>3 DEF Moves
  <2>2. /\ Message(msg') /\ msg'.moved /\ msg'.author = msg.author
        /\ msg'.text = msg.text /\ msg'.late = msg.late
    BY <2>1, SpentMessage DEF Inv, HandlerInv
  <2> QED
    BY <1>1, <2>2 DEF Inv, HandlerInv, A0Contained, Message, MayDecide, Role, Operators
<1> QED
  BY <1>2, <1>3

\* An operator by the row that was read is one who may decide.
LEMMA OperatorMayDecide ==
  ASSUME BindingInv, Role(msg.author, copy) = "operator"
  PROVE  MayDecide(msg, copy)
BY DEF BindingInv, Known, Role, MayDecide

-----------------------------------------------------------------------------

(* The IDs of sent messages                                                *)

\* A packet's ID is as far from the end of the ring as IDs were recorded later.
RingInv ==
  /\ ring \in Seq(0..MaxPackets) /\ Len(ring) = RingSize
  /\ later \in [Packets -> 0..RingSize]
  /\ \A p \in Packets : later[p] < RingSize => ring[RingSize - later[p]] = p

LEMMA RingEmpty ==
  /\ EmptyRing \in Seq(0..MaxPackets) /\ Len(EmptyRing) = RingSize
BY ConversationAssumption DEF EmptyRing

LEMMA RingForgotten ==
  ASSUME ring' = EmptyRing, later' = [p \in Packets |-> RingSize]
  PROVE  RingInv'
BY RingEmpty, ConversationAssumption DEF RingInv

LEMMA RingStart == Init => RingInv
BY RingEmpty, ConversationAssumption DEF Init, RingInv

\* The ring moves up by one.
LEMMA RingRemembers ==
  ASSUME RingInv, NEW id \in 0..MaxPackets, Remember(id)
  PROVE  RingInv'
<1>t. /\ RingSize \in Nat \ {0} /\ ring \in Seq(0..MaxPackets)
      /\ Len(ring) = RingSize /\ later \in [Packets -> 0..RingSize]
  BY ConversationAssumption DEF RingInv
<1>1. /\ later' \in [Packets -> 0..RingSize]
      /\ \A p \in Packets : later'[p] < RingSize =>
           IF p = id THEN later'[p] = 0
           ELSE later'[p] = later[p] + 1 /\ later[p] < RingSize
  BY <1>t DEF Remember
<1>2. /\ ring' \in Seq(0..MaxPackets) /\ Len(ring') = RingSize
      /\ ring'[RingSize] = id
      /\ \A i \in 1..(RingSize - 1) : ring'[i] = ring[i + 1]
  <2>1. ring' = Append(Tail(ring), id) /\ ring # <<>>
    BY <1>t DEF Remember
  <2>2. /\ Tail(ring) \in Seq(0..MaxPackets) /\ Len(Tail(ring)) = RingSize - 1
        /\ \A i \in 1..(RingSize - 1) : Tail(ring)[i] = ring[i + 1]
    BY <1>t, <2>1
  <2> QED
    BY <1>t, <2>1, <2>2
<1>3. ASSUME NEW p \in Packets, later'[p] < RingSize
      PROVE  ring'[RingSize - later'[p]] = p
  <2>1. CASE p = id
    BY <1>t, <1>1, <1>2, <1>3, <2>1
  <2>2. CASE p # id
    <3>1. later'[p] = later[p] + 1 /\ later[p] < RingSize /\ later[p] \in Nat
      BY <1>t, <1>1, <1>3, <2>2
    <3>2. ring[RingSize - later[p]] = p
      BY <3>1 DEF RingInv
    <3>3. /\ RingSize - later'[p] \in 1..(RingSize - 1)
          /\ RingSize - later'[p] + 1 = RingSize - later[p]
      BY <1>t, <1>3, <3>1
    <3> QED
      BY <1>2, <3>2, <3>3
  <2> QED
    BY <2>1, <2>2
<1> QED
  BY <1>1, <1>2, <1>3 DEF RingInv

LEMMA RingNext == RingInv /\ [Next]_vars => RingInv'
<1> SUFFICES ASSUME RingInv, [Next]_vars
             PROVE  RingInv'
  OBVIOUS
<1>1. CASE UNCHANGED sent
  BY <1>1 DEF sent, RingInv
<1>2. CASE Crash \/ PairAgain
  BY <1>2, RingForgotten DEF Crash, PairAgain, Forget
<1>3. CASE RecordOther \/ \E p \in Packets : RecordSent(p)
  <2>1. \E id \in 0..MaxPackets : Remember(id)
    BY <1>3, ConversationAssumption DEF RecordOther, RecordSent, Packets
  <2> QED
    BY <2>1, RingRemembers
<1>4. CASE HandlerStep
  <2>1. UNCHANGED sent
    BY <1>4 DEF HandlerStep, RegisterRejected, Register, ReadAgain, ChangeByCommand, Ignore,
       Customer, Ingest, IngestNothing, AskBack, FollowUp, Answer, Promote, Record,
       RecordFails, ReplyRead, Guard, Send, Acknowledge
  <2> QED
    BY <1>1, <2>1
<1>5. CASE ~HandlerStep /\ ~Crash /\ ~PairAgain /\ ~RecordOther
           /\ ~\E p \in Packets : RecordSent(p)
  <2>1. UNCHANGED sent
    BY <1>5 DEF Next, Call, CallWrites, StartCase, Echo, Drain, Command, Reply, Expire,
       Redeliver, vars, conversationVars
  <2> QED
    BY <1>1, <2>1
<1> QED
  BY <1>2, <1>3, <1>4, <1>5

\* What is not filtered has not been recorded, or too long ago.
LEMMA HeardLate ==
  ASSUME RingInv, NEW p \in Packets, ~Filtered(p)
  PROVE  later[p] = RingSize
<1>1. RingSize \in Nat /\ later[p] \in 0..RingSize /\ Len(ring) = RingSize
  BY ConversationAssumption DEF RingInv
<1>2. later[p] < RingSize => \E i \in 1..Len(ring) : ring[i] = p
  BY <1>1 DEF RingInv
<1> QED
  BY <1>1, <1>2 DEF Filtered, Contains

-----------------------------------------------------------------------------

LEMMA InvStart == Init => Inv /\ RingInv
<1> SUFFICES ASSUME Init
             PROVE  Inv /\ RingInv
  OBVIOUS
<1>1. pc = "idle" /\ msg = NoMessage /\ again = {}
  BY DEF Init
<1> QED
  BY <1>1, BindingStart, NoMessageIsMessage, RingStart DEF Inv, HandlerInv, A0Contained

\* A step of a call of the API.
LEMMA CallStep ==
  ASSUME Inv, NEW r \in Requests, Call(r) \/ CallWrites(r)
  PROVE  Inv'
<1>1. CASE Call(r)
  <2>1. /\ UNCHANGED <<row, used, said, stale, handler, again>>
        /\ Consent(r) \/ ChangeCustomer(r) \/ Reissue(r)
    BY <1>1 DEF Call, Consent, ChangeCustomer, Reissue
  <2>2. ASSUME Consent(r) PROVE BindingInv'
    <3>1. PICK mode \in Modes : ReadRow(r, [kind |-> "consent", mode |-> mode])
      BY <2>2 DEF Consent
    <3> DEFINE change == [kind |-> "consent", mode |-> mode]
    <3>2. change \in Changes /\ change.kind = "consent" /\ issued' = issued
      BY <2>2 DEF Changes, Consent
    <3> HIDE DEF change
    <3>3. ReadRow(r, change)
      BY <3>1 DEF change
    <3> QED
      BY <2>1, <3>2, <3>3, BindingRead DEF Inv, handler
  <2>3. ASSUME ChangeCustomer(r) PROVE BindingInv'
    <3>1. PICK kind \in {"add", "remove"}, who \in People : ReadRow(r, [kind |-> kind, who |-> who])
      BY <2>3 DEF ChangeCustomer
    <3> DEFINE change == [kind |-> kind, who |-> who]
    <3>2. change \in Changes /\ change.kind \in {"add", "remove"} /\ issued' = issued
      BY <2>3 DEF Changes, ChangeCustomer
    <3> HIDE DEF change
    <3>3. ReadRow(r, change)
      BY <3>1 DEF change
    <3> QED
      BY <2>1, <3>2, <3>3, BindingRead DEF Inv, handler
  <2>4. ASSUME Reissue(r) PROVE BindingInv'
    <3> DEFINE change == [kind |-> "reissue", number |-> issued + 1]
    <3>1. issued' = issued + 1 /\ ReadRow(r, change)
      BY <2>4 DEF Reissue
    <3>2. change \in Changes /\ change.kind = "reissue" /\ change.number = issued'
      BY <3>1 DEF Changes, Inv, BindingInv
    <3> HIDE DEF change
    <3> QED
      BY <2>1, <3>1, <3>2, BindingRead DEF Inv, handler
  <2>5. BindingInv'
    BY <2>1, <2>2, <2>3, <2>4 DEF Inv
  <2>6. HandlerInv'
    BY <2>1 DEF Inv, HandlerInv, A0Contained, MayDecide, Role, Operators, Registered, handler, Message
  <2> QED
    BY <2>5, <2>6 DEF Inv
<1>2. CASE CallWrites(r)
  <2>1. /\ Writing(r) /\ WriteRow(request[r].change, request[r].copy)
        /\ request' = [request EXCEPT ![r] = [pc |-> "done"]]
        /\ issued' = issued /\ Moves /\ UNCHANGED <<pc, copy, again>>
    BY <1>2 DEF CallWrites, Write, Writing
  <2>2. /\ request' = [s \in Requests |-> request'[s]]
        /\ request'[r].pc # "write"
        /\ \A s \in Requests : request'[s] = request[s] \/ request'[s].pc # "write"
    BY <2>1 DEF Inv, BindingInv
  <2>3. /\ request[r].change \in Changes /\ request[r].change.kind # "register"
        /\ Known(request[r].copy)
    BY <2>1 DEF Inv, BindingInv
  <2>4. request[r].change.kind = "reissue" => Reissuing(r)
    BY <2>1 DEF Reissuing
  <2>5. BindingInv'
    BY <2>1, <2>2, <2>3, <2>4, BindingWritten DEF Inv
  <2>6. used \subseteq used'
    BY <2>1 DEF WriteRow
  <2> QED
    BY <2>1, <2>5, <2>6, Moved
<1> QED
  BY <1>1, <1>2

LEMMA WrittenMessage ==
  ASSUME NEW author \in Accounts, NEW text, NEW arg \in People \cup Nat, NEW ref,
         text \in {"add", "remove"} => arg \in People
  PROVE  Message(Written(author, text, arg, ref)) /\ Written(author, text, arg, ref).text = text
BY DEF Message, Written

\* The binding and the messages to come again stay, and the handler's copy is
\* the one it has or one it has just read.
LEMMA HandlerOnly ==
  ASSUME Inv, UNCHANGED bindingVars, copy' \in {copy, row, ProvisionedRow}
  PROVE  BindingInv' /\ Registered' = Registered
<1>1. BindingInv'
  BY BindingKept DEF Inv, BindingInv, bindingVars
<1>2. Registered' = Registered
  BY DEF bindingVars, Registered
<1> QED
  BY <1>1, <1>2

LEMMA FinishedOnly ==
  ASSUME Inv, UNCHANGED bindingVars, Finish, UNCHANGED again
  PROVE  Inv'
<1>1. BindingInv'
  BY HandlerOnly DEF Finish
<1> QED
  BY <1>1, Finished

\* A message that arrives is one that somebody has written, the echo of a
\* packet whose ID is not remembered, or one that comes again.
LEMMA ArrivalStep ==
  ASSUME Inv, RingInv,
         \/ \E author \in Accounts : Command(author) \/ Reply(author)
         \/ \E p \in Packets : Echo(p)
         \/ Redeliver
  PROVE  Inv'
<1>1. ASSUME NEW author \in Accounts, Command(author)
      PROVE  Inv'
  <2>1. UNCHANGED <<bindingVars, again>>
    BY <1>1 DEF Command
  <2>2. ASSUME NEW text, NEW arg \in People \cup Nat, text # "echo",
               text \in {"add", "remove"} => arg \in People,
               Hand(Written(author, text, arg, 0))
        PROVE  Inv'
    BY <2>1, <2>2, WrittenMessage, Handed DEF Hand
  <2>3. issued \in Nat
    BY DEF Inv, BindingInv
  <2> QED
    BY <1>1, <2>2, <2>3 DEF Command
<1>2. ASSUME NEW author \in Accounts, Reply(author)
      PROVE  Inv'
  <2>1. UNCHANGED <<bindingVars, again>>
    BY <1>2 DEF Reply
  <2>2. ASSUME NEW text, NEW ref, text \notin {"echo", "add", "remove"},
               Hand(Written(author, text, 0, ref))
        PROVE  Inv'
    BY <2>1, <2>2, WrittenMessage, Handed DEF Hand
  <2> QED
    BY <1>2, <2>2 DEF Reply
<1>3. ASSUME NEW p \in Packets, Echo(p)
      PROVE  Inv'
  <2> DEFINE echo == Written(Owner, "echo", 0, 0)
             m == [echo EXCEPT !.late = (later[p] = RingSize)]
  <2>1. UNCHANGED <<bindingVars, again>> /\ Hand(m) /\ later[p] = RingSize
    BY <1>3, HeardLate DEF Echo
  <2>2. Message(echo) /\ echo.text = "echo"
    BY WrittenMessage DEF Accounts
  <2> HIDE DEF echo
  <2>3. Message(m) /\ m.late
    BY <2>1, <2>2 DEF Message
  <2> HIDE DEF m
  <2> QED
    BY <2>1, <2>3, Handed DEF Hand
<1>4. CASE Redeliver
  BY <1>4, Handed DEF Redeliver, Inv, HandlerInv
<1> QED
  BY <1>1, <1>2, <1>3, <1>4

\* Commands that change the row.
LEMMA CommandStep ==
  ASSUME Inv, Register \/ ReadAgain \/ ChangeByCommand
  PROVE  Inv'
<1>1. /\ Message(msg) /\ msg.author \in Accounts /\ Known(copy)
      /\ request = [r \in Requests |-> request[r]]
  BY DEF Inv, BindingInv, HandlerInv, Message
<1>2. CASE Register
  <2> DEFINE change == [kind |-> "register", who |-> msg.author]
  <2>1. /\ WriteRow(change, copy) /\ ~copy.consumed /\ Finish
        /\ UNCHANGED <<request, issued, again>>
    BY <1>2 DEF Register, Accepts
  <2>2. change \in Changes /\ change.kind = "register"
    BY <1>1 DEF Changes
  <2> HIDE DEF change
  <2>3. copy' = ProvisionedRow
    BY <2>1 DEF Finish
  <2>4. BindingInv'
    BY <1>1, <2>1, <2>2, <2>3, BindingWritten DEF Inv
  <2> QED
    BY <2>1, <2>4, Finished
<1>3. CASE ReadAgain
  <2>1. /\ UNCHANGED <<bindingVars, msg, again>> /\ copy' = row /\ pc' = "write" /\ pc # "send"
        /\ msg.text \in {"add", "remove"}
    BY <1>3 DEF ReadAgain
  <2>2. BindingInv'
    BY <2>1, HandlerOnly
  <2> QED
    BY <2>1, <2>2 DEF Inv, HandlerInv, A0Contained, Message
<1>4. CASE ChangeByCommand
  <2> DEFINE change == [kind |-> msg.text, who |-> msg.arg]
  <2>1. /\ WriteRow(change, copy) /\ Finish /\ UNCHANGED <<request, issued, again>>
        /\ pc = "write" \/ msg.text \in {"pause", "resume"}
    BY <1>4 DEF ChangeByCommand
  <2>2. change \in Changes /\ change.kind \notin {"register", "reissue"}
    BY <1>1, <2>1 DEF Changes, Inv, HandlerInv, Message
  <2> HIDE DEF change
  <2>3. copy' = ProvisionedRow
    BY <2>1 DEF Finish
  <2>4. BindingInv'
    BY <1>1, <2>1, <2>2, <2>3, BindingWritten DEF Inv
  <2> QED
    BY <2>1, <2>4, Finished
<1> QED
  BY <1>2, <1>3, <1>4

\* A decision is made by an operator.
LEMMA DecisionStep ==
  ASSUME Inv, FollowUp \/ Answer
  PROVE  Inv'
<1>1. /\ UNCHANGED <<bindingVars, again>> /\ Routed("operator")
      /\ \E p, action : Decide(p, action)
  BY DEF FollowUp, Answer
<1>2. MayDecide(msg, copy) /\ pc = "routed"
  BY <1>1, OperatorMayDecide DEF Routed, Inv
<1>3. PICK p, action : Decide(p, action)
  BY <1>1
<1>4. CASE Finish
  BY <1>1, <1>4, FinishedOnly
<1>5. CASE pc' = "record" /\ UNCHANGED <<msg, copy>>
  <2>1. BindingInv' /\ Registered' = Registered
    BY <1>1, <1>5, HandlerOnly
  <2> QED
    BY <1>1, <1>2, <1>5, <2>1 DEF Inv, HandlerInv, A0Contained, MayDecide, Message
<1> QED
  BY <1>3, <1>4, <1>5 DEF Decide

\* The reply to the customer: the guard has found full control.
LEMMA ReplyStep ==
  ASSUME Inv, Record \/ ReplyRead \/ Guard \/ Send
  PROVE  Inv'
<1>1. UNCHANGED <<bindingVars, again>>
  BY DEF Record, ReplyRead, Guard, Send
<1>2. CASE Finish
  BY <1>1, <1>2, FinishedOnly
<1>3. CASE pc # "send" /\ pc' \in {"reply", "guard"} /\ msg' = msg /\ copy' \in {copy, row}
  <2>1. BindingInv'
    BY <1>1, <1>3, HandlerOnly
  <2> QED
    BY <1>1, <1>3, <2>1 DEF Inv, HandlerInv, A0Contained, Message
<1>4. CASE pc' = "send" /\ row.mode # "read_only" /\ msg' = [msg EXCEPT !.moved = FALSE]
           /\ copy' = copy
  <2>1. BindingInv'
    BY <1>1, <1>4, HandlerOnly
  <2>2. row.mode = "full_control" /\ row' = row
    BY <1>1, <1>4 DEF Inv, BindingInv, Known, Row, Modes, bindingVars
  <2>3. Message(msg')
    BY <1>4 DEF Inv, HandlerInv, Message
  <2>4. \A m \in again' : Message(m) /\ (m.text = "echo" => m.late)
    BY <1>1 DEF Inv, HandlerInv
  <2> QED
    BY <1>4, <2>1, <2>2, <2>3, <2>4 DEF Inv, HandlerInv, A0Contained, Message
<1> QED
  BY <1>2, <1>3, <1>4 DEF Record, ReplyRead, Guard, Guarded, Send, Become

LEMMA HandlerStepKeeps ==
  ASSUME Inv, HandlerStep
  PROVE  Inv'
<1>1. CASE Register \/ ReadAgain \/ ChangeByCommand
  BY <1>1, CommandStep
<1>2. CASE FollowUp \/ Answer
  BY <1>2, DecisionStep
<1>3. CASE Record \/ ReplyRead \/ Guard \/ Send
  BY <1>3, ReplyStep
<1>4. CASE RegisterRejected \/ Ignore \/ (\E p \in Packets : Ingest(p)) \/ IngestNothing
             \/ AskBack \/ Promote \/ RecordFails
  <2>1. UNCHANGED bindingVars /\ Finish /\ UNCHANGED again
    BY <1>4 DEF RegisterRejected, Ignore, Ingest, IngestNothing, AskBack, Promote, RecordFails
  <2> QED
    BY <2>1, FinishedOnly
<1>5. CASE Customer
  <2>1. /\ UNCHANGED <<bindingVars, msg, copy, again>> /\ pc = "routed" /\ pc' = "ingest"
        /\ ~copy.paused /\ Role(msg.author, copy) = "customer"
    BY <1>5 DEF Customer, Routed, Become
  <2>2. BindingInv'
    BY <2>1, HandlerOnly
  <2> QED
    BY <2>1, <2>2 DEF Inv, HandlerInv, A0Contained, Message, Role, Operators, bindingVars
<1>6. CASE Acknowledge
  <2>1. UNCHANGED <<bindingVars, copy, again>> /\ pc' = "idle" /\ msg' = NoMessage
    BY <1>6 DEF Acknowledge
  <2>2. BindingInv'
    BY <2>1, HandlerOnly
  <2> QED
    BY <2>1, <2>2, NoMessageIsMessage DEF Inv, HandlerInv, A0Contained, Message
<1> QED
  BY <1>1, <1>2, <1>3, <1>4, <1>5, <1>6 DEF HandlerStep

\* A crash, and what happens beside the handler.
LEMMA OtherStep ==
  ASSUME Inv,
         \/ \E p \in Packets : StartCase(p) \/ RecordSent(p)
         \/ RecordOther \/ PairAgain \/ Drain \/ Expire \/ Crash \/ UNCHANGED vars
  PROVE  Inv'
<1>1. CASE (\E p \in Packets : StartCase(p)) \/ Expire
  <2>1. UNCHANGED <<bindingVars, pc, copy, again>> /\ Moves
    BY <1>1 DEF StartCase, Expire
  <2>2. BindingInv'
    BY <2>1, HandlerOnly
  <2> QED
    BY <2>1, <2>2, Moved DEF bindingVars
<1>2. CASE (\E p \in Packets : RecordSent(p)) \/ RecordOther \/ PairAgain \/ Drain
           \/ UNCHANGED vars
  <2>1. UNCHANGED <<bindingVars, pc, msg, copy, again>>
    BY <1>2 DEF RecordSent, RecordOther, PairAgain, Drain, handler, vars, conversationVars
  <2>2. BindingInv' /\ Registered' = Registered
    BY <2>1, HandlerOnly
  <2> QED
    BY <2>1, <2>2 DEF Inv, HandlerInv, A0Contained, MayDecide, bindingVars, Message
<1>3. CASE Crash
  <2>1. /\ UNCHANGED <<row, issued, used, said, stale>> /\ copy' = ProvisionedRow
        /\ request' = RequestsEnd /\ pc' = "idle" /\ msg' = NoMessage
        /\ \A m \in again' : m \in again \/ m = Spent(msg)
    BY <1>3 DEF Crash
  <2>2. \A r \in Requests : request'[r] = request[r] \/ request'[r].pc # "write"
    BY <2>1 DEF RequestsEnd
  <2>3. request' = [r \in Requests |-> request'[r]]
    BY <2>1 DEF RequestsEnd
  <2>4. BindingInv'
    BY <2>1, <2>2, <2>3, BindingKept DEF Inv
  <2>5. \A m \in again' : Message(m) /\ (m.text = "echo" => m.late)
    BY <2>1, SpentMessage DEF Inv, HandlerInv
  <2> QED
    BY <2>1, <2>4, <2>5, NoMessageIsMessage DEF Inv, HandlerInv, A0Contained, Message
<1> QED
  BY <1>1, <1>2, <1>3

LEMMA InvStep == Inv /\ RingInv /\ [Next]_vars => Inv' /\ RingInv'
<1> SUFFICES ASSUME Inv, RingInv, [Next]_vars
             PROVE  Inv' /\ RingInv'
  OBVIOUS
<1> QED
  BY CallStep, ArrivalStep, HandlerStepKeeps, OtherStep, RingNext DEF Next, Accounts

-----------------------------------------------------------------------------
(* Theorems                                                                *)

\* Whatever calls of the API run meanwhile, only the account's owner decides
\* in read only and only people who have registered decide in full control,
\* and Victoria's own words only when the client that hears them has not
\* recorded their ID, or RingSize others since.
THEOREM OperatorsDecide == Spec => []OnlyOperatorsDecide
<1>1. Inv => OnlyOperatorsDecide
  BY DEF Inv, HandlerInv, OnlyOperatorsDecide, MayDecide, Registered
<1> QED
  BY <1>1, InvStart, InvStep, PTL DEF Spec

\* A reply goes to a customer only in full control, unless the binding changed
\* between the guard and the send.
THEOREM RepliesAreContained == Spec => []A0Contained
<1>1. Inv => A0Contained
  BY DEF Inv, HandlerInv
<1> QED
  BY <1>1, InvStart, InvStep, PTL DEF Spec

\* A registration number makes one operator at most, while no call writes a
\* row back that has been changed since it was read.
THEOREM NumbersAreUsedOnce == Spec => []NumberUsedOnce
<1>1. Inv => NumberUsedOnce
  BY DEF Inv, BindingInv
<1> QED
  BY <1>1, InvStart, InvStep, PTL DEF Spec

\* The customers are those the last changes say and the operators those who have
\* registered, while no call writes a row back that has been changed since.
THEOREM ListsAreAsSaid == Spec => []ListsAsSaid
<1>1. Inv => ListsAsSaid
  BY DEF Inv, BindingInv
<1> QED
  BY <1>1, InvStart, InvStep, PTL DEF Spec

\* A message that enters as a case is one of a customer: in read only of one on
\* the list, in full control of nobody who has registered.
THEOREM CustomersEnter == Spec => []OnlyCustomersEnter
<1>1. ASSUME Inv, pc = "ingest", ~stale, ~msg.moved
      PROVE  /\ msg.author # Owner /\ ~row.paused
             /\ IF row.mode = "read_only" THEN msg.author \in said
                ELSE msg.author \notin Registered
  <2>1. copy = row /\ ~row.paused /\ Role(msg.author, row) = "customer" /\ row \in Row
    BY <1>1 DEF Inv, BindingInv, HandlerInv, Known
  <2>2. row.customers = said /\ Operators(row) = Registered
    BY <1>1 DEF Inv, BindingInv, ListsAsSaid, Operators, Registered
  <2>3. row.customers \subseteq People
    BY <2>1 DEF Row
  <2> QED
    BY <2>1, <2>2, <2>3, BindingAssumption DEF Role
<1>2. Inv => OnlyCustomersEnter
  BY <1>1 DEF OnlyCustomersEnter, Registered
<1> QED
  BY <1>2, InvStart, InvStep, PTL DEF Spec

-----------------------------------------------------------------------------
(* The packets                                                             *)

Started == {p \in Packets : packet[p] # "none"}

\* Packets are created in order.
PacketsInv ==
  /\ packet \in [Packets -> {"none", "shown", "queued"}]
  /\ Started = 1..Latest /\ Latest \in 0..MaxPackets

\* What a step does to the packets: it creates the next one, or none.
LEMMA PacketsNext ==
  ASSUME PacketsInv, [Next]_vars
  PROVE  /\ PacketsInv' /\ Started \subseteq Started'
         /\ \/ Latest' = Latest
            \/ Latest' = Latest + 1 /\ \E p \in Packets : StartCase(p) \/ Ingest(p)
<1>t. packet \in [Packets -> {"none", "shown", "queued"}]
      /\ Started = 1..Latest /\ Latest \in Nat /\ Latest \in 0..MaxPackets
  BY ConversationAssumption DEF PacketsInv
<1>l. Latest = Cardinality(Started) /\ Latest' = Cardinality(Started')
  BY DEF Latest, Started
<1>1. ASSUME packet' \in [Packets -> {"none", "shown", "queued"}],
             \A p \in Packets : packet'[p] = "none" <=> packet[p] = "none"
      PROVE  PacketsInv' /\ Started' = Started /\ Latest' = Latest
  <2>1. Started' = Started
    BY <1>1 DEF Started
  <2> QED
    BY <1>1, <1>t, <1>l, <2>1 DEF PacketsInv
<1>2. ASSUME NEW p \in Packets, StartCase(p) \/ Ingest(p)
      PROVE  PacketsInv' /\ Started \subseteq Started' /\ Latest' = Latest + 1
  <2>1. /\ p = Latest + 1 /\ packet[p] = "none"
        /\ \E place \in {"queued", "shown"} : packet' = [packet EXCEPT ![p] = place]
    BY <1>2 DEF StartCase, Ingest, Create
  <2>2. packet' \in [Packets -> {"none", "shown", "queued"}]
        /\ Started' = Started \cup {p}
    BY <1>t, <2>1 DEF Started
  <2>3. Started' = 1..(Latest + 1) /\ Latest + 1 \in 0..MaxPackets
    BY <1>t, <2>1, <2>2, ConversationAssumption DEF Packets
  <2>4. Cardinality(1..(Latest + 1)) = Latest + 1
    BY <1>t, FS_Interval
  <2> QED
    BY <1>l, <2>2, <2>3, <2>4 DEF PacketsInv
<1>3. CASE ~\E p \in Packets : StartCase(p) \/ Ingest(p)
  <2>1. \/ packet' = packet \/ packet' = Drained(row) \/ packet' = Drained(row')
    <3>1. CASE HandlerStep
      BY <1>3, <3>1 DEF HandlerStep, RegisterRejected, Register, ReadAgain, ChangeByCommand,
         Ignore, Customer, IngestNothing, AskBack, FollowUp, Answer, Promote, Record,
         RecordFails, ReplyRead, Guard, Send, Acknowledge
    <3>2. CASE ~HandlerStep
      BY <1>3, <3>2 DEF Next, Call, CallWrites, RecordSent, RecordOther, PairAgain, Echo, Drain,
         Command, Reply, Expire, Crash, Redeliver, vars, conversationVars
    <3> QED
      BY <3>1, <3>2
  <2>2. /\ packet' \in [Packets -> {"none", "shown", "queued"}]
        /\ \A p \in Packets : packet'[p] = "none" <=> packet[p] = "none"
    BY <1>t, <2>1 DEF Drained
  <2> QED
    BY <1>1, <2>2
<1> QED
  BY <1>2, <1>3

-----------------------------------------------------------------------------
(* The list of operators                                                   *)

\* Nobody is listed twice, in the row or in a copy that may be written back.
RowsInv ==
  /\ issued <= MaxNumbers /\ stale \in BOOLEAN
  /\ \A r \in Requests : request[r].pc \in {"idle", "write", "done"}
  /\ IsInjective(row.operators) /\ IsInjective(copy.operators)
  /\ \A r \in Requests : Writing(r) => IsInjective(request[r].copy.operators)

LEMMA MemberOnce ==
  ASSUME NEW list \in Seq(Accounts), IsInjective(list), NEW who
  PROVE  IsInjective(WithMember(list, who))
<1>1. CASE Contains(list, who)
  BY <1>1 DEF WithMember
<1>2. CASE ~Contains(list, who)
  <2>1. WithMember(list, who) = Append(list, who)
    BY <1>2 DEF WithMember
  <2>2. /\ DOMAIN Append(list, who) = 1..(Len(list) + 1) /\ Len(list) \in Nat
        /\ \A i \in 1..Len(list) : Append(list, who)[i] = list[i] /\ list[i] # who
        /\ Append(list, who)[Len(list) + 1] = who
        /\ \A i, j \in 1..Len(list) : list[i] = list[j] => i = j
    BY <1>2 DEF Contains, IsInjective
  <2> QED
    BY <2>1, <2>2 DEF IsInjective
<1> QED
  BY <1>1, <1>2

LEMMA ChangedOnce ==
  ASSUME NEW b \in Row, NEW change \in Changes, IsInjective(b.operators)
  PROVE  IsInjective(Changed(change, b).operators)
<1>1. Changed(change, b).operators =
        IF change.kind = "register" THEN WithMember(b.operators, change.who) ELSE b.operators
  BY DEF Changed, Changes, Row
<1>2. b.operators \in Seq(Accounts)
  BY DEF Row, Accounts
<1> QED
  BY <1>1, <1>2, MemberOnce

LEMMA ProvisionedOnce == IsInjective(ProvisionedRow.operators)
BY DEF ProvisionedRow, IsInjective

LEMMA RowsNext == Inv /\ RowsInv /\ [Next]_vars => RowsInv'
<1> SUFFICES ASSUME Inv, RowsInv, [Next]_vars
             PROVE  RowsInv'
  OBVIOUS
<1>t. /\ request = [r \in Requests |-> request[r]] /\ issued \in Nat
      /\ \A r \in Requests : Writing(r) => request[r].change \in Changes /\ request[r].copy \in Row
      /\ copy \in Row /\ msg.author \in Accounts
  BY DEF Inv, BindingInv, Known, HandlerInv, Message
<1>1. ASSUME UNCHANGED <<row, request, issued, stale>>, copy' \in {copy, row, ProvisionedRow}
      PROVE  RowsInv'
  BY <1>1, ProvisionedOnce DEF RowsInv, Writing
<1>2. ASSUME NEW change \in Changes, WriteRow(change, copy), UNCHANGED <<request, issued>>,
             copy' = ProvisionedRow
      PROVE  RowsInv'
  BY <1>t, <1>2, ProvisionedOnce, ChangedOnce DEF RowsInv, Writing, WriteRow
<1>3. ASSUME NEW r \in Requests, Call(r)
      PROVE  RowsInv'
  <2>1. /\ UNCHANGED <<row, stale, copy>> /\ (issued' = issued \/ (issued' = issued + 1 /\ issued < MaxNumbers))
        /\ \E change : request' = [request EXCEPT ![r] = [pc |-> "write", change |-> change, copy |-> row]]
    BY <1>3 DEF Call, Consent, ChangeCustomer, Reissue, ReadRow, handler
  <2>2. PICK change : request' = [request EXCEPT ![r] = [pc |-> "write", change |-> change, copy |-> row]]
    BY <2>1
  <2>3. /\ request'[r].pc = "write" /\ request'[r].copy = row
        /\ \A s \in Requests : s # r => request'[s] = request[s]
    BY <1>t, <2>2
  <2>4. issued' <= MaxNumbers
    BY <1>t, <2>1, BindingAssumption DEF RowsInv
  <2> QED
    BY <2>1, <2>3, <2>4 DEF RowsInv, Writing
<1>4. ASSUME NEW r \in Requests, CallWrites(r)
      PROVE  RowsInv'
  <2>1. /\ Writing(r) /\ WriteRow(request[r].change, request[r].copy)
        /\ UNCHANGED <<issued, copy>>
        /\ \A s \in Requests : request'[s] = IF s = r THEN [pc |-> "done"] ELSE request[s]
    BY <1>4, <1>t DEF CallWrites, Write, Writing
  <2>2. IsInjective(row'.operators) /\ stale' \in BOOLEAN
    BY <1>t, <2>1, ChangedOnce DEF WriteRow, RowsInv
  <2> QED
    BY <2>1, <2>2 DEF RowsInv, Writing
<1>5. CASE Register
  <2> DEFINE change == [kind |-> "register", who |-> msg.author]
  <2>1. change \in Changes
    BY <1>t DEF Changes
  <2>2. WriteRow(change, copy) /\ UNCHANGED <<request, issued>> /\ copy' = ProvisionedRow
    BY <1>5 DEF Register, Finish
  <2> QED
    BY <1>2, <2>1, <2>2
<1>6. CASE ChangeByCommand
  <2> DEFINE change == [kind |-> msg.text, who |-> msg.arg]
  <2>1. change \in Changes
    BY <1>6 DEF ChangeByCommand, Changes, Inv, HandlerInv, Message
  <2>2. WriteRow(change, copy) /\ UNCHANGED <<request, issued>> /\ copy' = ProvisionedRow
    BY <1>6 DEF ChangeByCommand, Finish
  <2> QED
    BY <1>2, <2>1, <2>2
<1>7. CASE HandlerStep /\ ~Register /\ ~ChangeByCommand
  <2>1. UNCHANGED bindingVars
    BY <1>7 DEF HandlerStep, RegisterRejected, ReadAgain, Ignore, Customer, Ingest,
       IngestNothing, AskBack, FollowUp, Answer, Promote, Record, RecordFails, ReplyRead, Guard,
       Send, Acknowledge
  <2>2. copy' \in {copy, row, ProvisionedRow}
    BY <1>7 DEF HandlerStep, RegisterRejected, ReadAgain, Ignore, Customer, Ingest,
       IngestNothing, AskBack, FollowUp, Answer, Promote, Record, RecordFails, ReplyRead, Guard,
       Send, Acknowledge, Finish, Become, Decide
  <2> QED
    BY <1>1, <2>1, <2>2 DEF bindingVars
<1>8. CASE Crash
  BY <1>8, ProvisionedOnce DEF Crash, RequestsEnd, RowsInv, Writing
<1>9. CASE \/ \E p \in Packets : StartCase(p) \/ RecordSent(p) \/ Echo(p)
           \/ RecordOther \/ PairAgain \/ Drain \/ Expire \/ Redeliver \/ UNCHANGED vars
           \/ \E author \in People \cup {Owner} : Command(author) \/ Reply(author)
  <2>1. UNCHANGED bindingVars /\ copy' \in {copy, row}
    BY <1>9 DEF StartCase, RecordSent, RecordOther, PairAgain, Echo, Drain, Expire, Redeliver,
       Command, Reply, Hand, Deliver, handler, vars, conversationVars
  <2> QED
    BY <1>1, <2>1 DEF bindingVars
<1> QED
  BY <1>3, <1>4, <1>5, <1>6, <1>7, <1>8, <1>9 DEF Next

-----------------------------------------------------------------------------
(* The answer                                                              *)

\* A message names and has seen packets that have been created.
Formed(m, created) ==
  /\ m.text \in Commands \cup Replies \cup {"echo"}
  /\ m.ref \in created \cup {0}
  /\ m.ref # 0 => m.text \in {"yes", "approve_tap", "fix_tap"}
  /\ m.seen \subseteq created

\* The question that is open is what the next answer is taken for.
Asked ==
  \/ followup = {} /\ question = {}
  \/ \E p \in 0..Latest, action \in Actions, who \in Accounts :
       /\ followup = {[packet |-> p, action |-> action]}
       /\ question = {[packet |-> p, action |-> action, asked |-> who]}

AnswerInv ==
  /\ pc \in {"idle", "routed", "write", "ingest", "record", "reply", "guard", "send", "ack"}
  /\ events \in 0..MaxEvents
  /\ Formed(msg, Started)
  /\ \A m \in again : Formed(m, Started) /\ m.moved
  /\ Asked
  /\ decision \in Decision
  /\ pc \in {"record", "reply"} => decision.packet \in 1..Latest
  /\ pc = "routed" /\ ~msg.moved => msg.question = question
  /\ RecordedAsMeant

LEMMA SpentFormed ==
  ASSUME NEW m, Message(m), NEW created, Formed(m, created)
  PROVE  Formed(Spent(m), created)
<1>1. /\ Spent(m).text = m.text /\ Spent(m).ref = m.ref /\ Spent(m).seen = {}
  BY DEF Message, Spent
<1> QED
  BY <1>1 DEF Formed

LEMMA FormedLater ==
  ASSUME NEW m, NEW created, NEW more, created \subseteq more, Formed(m, created)
  PROVE  Formed(m, more)
BY DEF Formed

LEMMA NoMessageFormed == ASSUME NEW created PROVE Formed(NoMessage, created)
BY DEF Formed, NoMessage, Replies

LEMMA WrittenFormed ==
  ASSUME NEW author, NEW text \in Commands \cup Replies \cup {"echo"}, NEW arg,
         NEW ref \in Shown \cup {0}, ref # 0 => text \in {"yes", "approve_tap", "fix_tap"}
  PROVE  /\ Formed(Written(author, text, arg, ref), Started)
         /\ Written(author, text, arg, ref).question = question
<1>1. Shown \subseteq Started
  BY DEF Shown, Started
<1> QED
  BY <1>1 DEF Formed, Written

\* A decision about no packet yet is one about a packet number, too.
LEMMA DecisionTyped ==
  ASSUME PacketsInv, NEW p \in 0..Latest, NEW action \in Actions
  PROVE  [packet |-> p, action |-> action] \in Decision
<1>1. p \in 0..MaxPackets
  BY ConversationAssumption DEF PacketsInv
<1> QED
  BY <1>1 DEF Decision

\* The packet a message means is one that has been created, if there is one.
LEMMA MeantPacket ==
  ASSUME PacketsInv, Formed(msg, Started)
  PROVE  PacketMeant \in 0..Latest /\ Latest \in Nat
<1>1. Latest \in Nat /\ Started = 1..Latest
  BY ConversationAssumption DEF PacketsInv
<1> QED
  BY <1>1 DEF PacketMeant, Formed

\* What an answer does to the question when it is not answered: it may get
\* more packets, never fewer.
LEMMA AskedLater ==
  ASSUME Asked, PacketsInv, Latest' = Latest \/ Latest' = Latest + 1,
         UNCHANGED <<followup, question>>
  PROVE  Asked'
<1>1. Latest \in Nat /\ 0..Latest \subseteq 0..Latest'
  BY ConversationAssumption DEF PacketsInv
<1> QED
  BY <1>1 DEF Asked

\* The handler returns.
LEMMA AnswerFinished ==
  ASSUME HandlerInv, AnswerInv, Started \subseteq Started', Asked', Finish,
         UNCHANGED again, events' \in 0..MaxEvents
  PROVE  AnswerInv'
<1>1. pc' = "ack" /\ msg' = Spent(msg) /\ decision' = NoDecision
  BY DEF Finish
<1>2. Formed(msg', Started')
  BY <1>1, SpentFormed, FormedLater DEF AnswerInv, HandlerInv
<1>3. \A m \in again' : Formed(m, Started') /\ m.moved
  BY FormedLater DEF AnswerInv
<1>4. decision' \in Decision
  BY <1>1, ConversationAssumption DEF NoDecision, Decision, Actions
<1> QED
  BY <1>1, <1>2, <1>3, <1>4 DEF AnswerInv, RecordedAsMeant

\* The handler and its message stay, or the message is spent.
LEMMA AnswerKept ==
  ASSUME HandlerInv, AnswerInv, Started \subseteq Started',
         Latest \in Nat, Latest' = Latest \/ Latest' = Latest + 1, Asked',
         UNCHANGED <<pc, decision>>, again' \subseteq again, events' \in 0..MaxEvents,
         \/ Moves
         \/ msg' = msg /\ Latest' = Latest /\ question' = question
         \/ msg' = msg /\ pc \notin {"routed", "record"}
  PROVE  AnswerInv'
<1>1. \A m \in again' : Formed(m, Started') /\ m.moved
  BY FormedLater DEF AnswerInv
<1>2. pc' \in {"record", "reply"} => decision'.packet \in 1..Latest'
  BY DEF AnswerInv
<1>3. CASE Moves /\ pc # "idle"
  <2>1. msg' = Spent(msg)
    BY <1>3 DEF Moves
  <2>2. Formed(msg', Started') /\ msg'.moved
    BY <2>1, SpentFormed, SpentMessage, FormedLater DEF AnswerInv, HandlerInv
  <2> QED
    BY <1>1, <1>2, <2>2 DEF AnswerInv, RecordedAsMeant
<1>4. CASE msg' = msg /\ pc \notin {"routed", "record"}
  <2>1. Formed(msg', Started')
    BY <1>4, FormedLater DEF AnswerInv
  <2> QED
    BY <1>1, <1>2, <1>4, <2>1 DEF AnswerInv, RecordedAsMeant
<1>5. CASE msg' = msg /\ Latest' = Latest /\ question' = question
  <2>1. Formed(msg', Started')
    BY <1>5, FormedLater DEF AnswerInv
  <2>2. RecordedAsMeant'
    BY <1>5 DEF AnswerInv, RecordedAsMeant
  <2> QED
    BY <1>1, <1>2, <1>5, <2>1, <2>2 DEF AnswerInv
<1>6. CASE Moves /\ pc = "idle"
  <2>1. msg' = msg
    BY <1>6 DEF Moves
  <2> QED
    BY <1>4, <1>6, <2>1
<1> QED
  BY <1>3, <1>4, <1>5, <1>6

\* The handler gets a message.
LEMMA AnswerHanded ==
  ASSUME AnswerInv, Started \subseteq Started', Asked', NEW m, Formed(m, Started), Deliver(m),
         events' = events \/ Event, m.moved \/ (m.question = question /\ question' = question), again' \subseteq again
  PROVE  AnswerInv'
<1>1. pc' = "routed" /\ msg' = m /\ UNCHANGED decision
  BY DEF Deliver
<1>2. events' \in 0..MaxEvents
  BY ConversationAssumption DEF AnswerInv, Event
<1>3. \A n \in again' : Formed(n, Started') /\ n.moved
  BY FormedLater DEF AnswerInv
<1>4. Formed(msg', Started')
  BY <1>1, FormedLater
<1> QED
  BY <1>1, <1>2, <1>3, <1>4 DEF AnswerInv, RecordedAsMeant

\* People write, packets come back, messages are delivered again.
LEMMA AnswerArrives ==
  ASSUME HandlerInv, PacketsInv, AnswerInv, Started \subseteq Started', Asked',
         \/ \E p \in Packets : Echo(p)
         \/ \E author \in People \cup {Owner} : Command(author) \/ Reply(author)
         \/ Redeliver
  PROVE  AnswerInv'
<1>1. ASSUME NEW author \in Accounts, Command(author)
      PROVE  AnswerInv'
  <2>1. /\ UNCHANGED <<again, question>>
        /\ \E text \in Commands : \E arg : Hand(Written(author, text, arg, 0))
    BY <1>1 DEF Command, Commands
  <2>2. PICK text \in Commands : \E arg : Hand(Written(author, text, arg, 0))
    BY <2>1
  <2>3. PICK arg : Hand(Written(author, text, arg, 0))
    BY <2>2
  <2> DEFINE m == Written(author, text, arg, 0)
  <2>4. Formed(m, Started) /\ m.question = question
    BY WrittenFormed
  <2>5. Hand(m)
    BY <2>3
  <2> HIDE DEF m
  <2> QED
    BY <2>1, <2>4, <2>5, AnswerHanded DEF Hand
<1>2. ASSUME NEW author \in Accounts, Reply(author)
      PROVE  AnswerInv'
  <2>1. /\ UNCHANGED <<again, question>>
        /\ \E text \in Replies, ref \in Shown \cup {0} :
             /\ ref # 0 => text \in {"yes", "approve_tap", "fix_tap"}
             /\ Hand(Written(author, text, 0, ref))
    BY <1>2 DEF Reply, Replies
  <2>2. PICK text \in Replies, ref \in Shown \cup {0} :
             /\ ref # 0 => text \in {"yes", "approve_tap", "fix_tap"}
             /\ Hand(Written(author, text, 0, ref))
    BY <2>1
  <2> DEFINE m == Written(author, text, 0, ref)
  <2>3. Formed(m, Started) /\ m.question = question
    BY <2>2, WrittenFormed
  <2>4. Hand(m)
    BY <2>2
  <2> HIDE DEF m
  <2> QED
    BY <2>1, <2>3, <2>4, AnswerHanded DEF Hand
<1>3. ASSUME NEW p \in Packets, Echo(p)
      PROVE  AnswerInv'
  <2> DEFINE w == Written(Owner, "echo", 0, 0)
             m == [w EXCEPT !.late = (later[p] = RingSize)]
  <2>1. UNCHANGED <<again, question>> /\ Hand(m)
    BY <1>3 DEF Echo
  <2>2. Formed(w, Started) /\ w.question = question
    BY WrittenFormed
  <2>3. Formed(m, Started) /\ m.question = question
    BY <2>2 DEF Formed, Written
  <2> HIDE DEF m
  <2> QED
    BY <2>1, <2>3, AnswerHanded DEF Hand
<1>4. CASE Redeliver
  <2>1. PICK m \in again : Deliver(m) /\ again' = again \ {m} /\ UNCHANGED events
    BY <1>4 DEF Redeliver
  <2>2. Formed(m, Started) /\ m.moved
    BY DEF AnswerInv
  <2> QED
    BY <2>1, <2>2, AnswerHanded
<1> QED
  BY <1>1, <1>2, <1>3, <1>4 DEF Accounts

\* An operator decides: as the answer to the question, or by the text.
LEMMA AnswerDecides ==
  ASSUME HandlerInv, PacketsInv, AnswerInv, Started \subseteq Started', Asked',
         FollowUp \/ Answer
  PROVE  AnswerInv'
<1>t. /\ PacketMeant \in 0..Latest /\ Latest \in Nat /\ Started = 1..Latest
      /\ Formed(msg, Started) /\ UNCHANGED <<packet, again, events>> /\ pc = "routed"
      /\ events \in 0..MaxEvents /\ Latest' = Latest /\ Started' = Started
  BY MeantPacket DEF AnswerInv, PacketsInv, FollowUp, Answer, Routed, Latest, Started
<1>1. CASE Finish
  BY <1>1, <1>t, AnswerFinished
<1>2. ASSUME NEW p \in 0..Latest, NEW action \in Actions, p # 0, Decide(p, action),
             RecordedAsMeant'
      PROVE  AnswerInv'
  <2>1. decision' = [packet |-> p, action |-> action] /\ pc' = "record" /\ msg' = msg
    BY <1>2 DEF Decide
  <2>2. decision' \in Decision
    BY <2>1, DecisionTyped
  <2>3. decision'.packet \in 1..Latest'
    BY <1>t, <1>2, <2>1
  <2>4. Formed(msg', Started') /\ \A m \in again' : Formed(m, Started') /\ m.moved
    BY <1>t, <2>1 DEF AnswerInv
  <2> QED
    BY <1>t, <1>2, <2>1, <2>2, <2>3, <2>4 DEF AnswerInv
<1>3. CASE FollowUp
  <2>1. PICK f \in followup : Decide(IF f.packet = 0 THEN PacketMeant ELSE f.packet, f.action)
    BY <1>3 DEF FollowUp
  <2>2. PICK p \in 0..Latest, action \in Actions, who \in Accounts :
               /\ followup = {[packet |-> p, action |-> action]}
               /\ question = {[packet |-> p, action |-> action, asked |-> who]}
    BY DEF AnswerInv, Asked
  <2>3. f.packet = p /\ f.action = action
    BY <2>2
  <2> DEFINE q == IF p = 0 THEN PacketMeant ELSE p
  <2>4. Decide(q, action) /\ q \in 0..Latest
    BY <1>t, <2>1, <2>3
  <2>5. CASE q = 0
    BY <1>1, <2>4, <2>5 DEF Decide
  <2>6. CASE q # 0
    <3>1. decision' = [packet |-> q, action |-> action] /\ msg' = msg
      BY <2>4, <2>6 DEF Decide
    <3>2. ~msg.moved => msg.question = question
      BY <1>t DEF AnswerInv
    <3>3. RecordedAsMeant'
      <4>1. ASSUME ~msg'.moved
            PROVE  \E r \in msg'.question :
                      decision'.action = r.action /\ r.packet \in {decision'.packet, 0}
        <5>1. msg'.question = {[packet |-> p, action |-> action, asked |-> who]}
          BY <2>2, <3>1, <3>2, <4>1
        <5> QED
          BY <3>1, <5>1
      <4> QED
        BY <4>1 DEF RecordedAsMeant
    <3> HIDE DEF q
    <3> QED
      BY <1>2, <2>4, <2>6, <3>3
  <2> QED
    BY <2>5, <2>6
<1>4. CASE Answer
  <2>1. \/ msg.text = "approve_tap" /\ Decide(PacketMeant, "approve")
        \/ /\ msg.text \notin {"approve_tap", "fix_tap", "no", "promote"} /\ followup = {}
           /\ Decide(PacketMeant, Intent(msg.text))
    BY <1>4 DEF Answer
  <2>2. PICK action \in Actions :
               /\ Decide(PacketMeant, action)
               /\ \/ msg.text = "approve_tap"
                  \/ /\ msg.text \notin {"approve_tap", "fix_tap", "no", "promote"}
                     /\ followup = {} /\ action = Intent(msg.text)
    BY <2>1 DEF Actions, Intent
  <2>3. CASE PacketMeant = 0
    BY <1>1, <2>2, <2>3 DEF Decide
  <2>4. CASE PacketMeant # 0
    <3>1. decision' = [packet |-> PacketMeant, action |-> action] /\ msg' = msg
      BY <2>2, <2>4 DEF Decide
    <3>2. RecordedAsMeant'
      <4>1. SUFFICES ASSUME ~msg.moved, msg.text \in {"yes", "no", "reason", "promote"}
                     PROVE  /\ msg.question = {} /\ decision'.action = Intent(msg.text)
                            /\ \/ Latest \notin msg.seen
                               \/ decision'.packet = IF msg.ref = 0 THEN Max(msg.seen)
                                                     ELSE msg.ref
        BY <1>t, <3>1 DEF RecordedAsMeant
      <4>2. followup = {} /\ action = Intent(msg.text)
        BY <2>2, <4>1
      <4>3. msg.question = {}
        BY <1>t, <4>1, <4>2 DEF AnswerInv, Asked
      <4>4. CASE msg.ref # 0
        <5>1. msg.text = "yes"
          BY <1>t, <4>1, <4>4 DEF Formed
        <5> QED
          BY <3>1, <4>2, <4>3, <4>4, <5>1 DEF PacketMeant
      <4>5. CASE msg.ref = 0 /\ Latest \in msg.seen
        <5>1. \A s \in msg.seen : s \in Nat /\ s <= Latest
          BY <1>t DEF Formed
        <5>2. Max(msg.seen) = Latest
          BY <1>t, <4>5, <5>1 DEF Max
        <5> QED
          BY <3>1, <4>2, <4>3, <4>5, <5>2 DEF PacketMeant
      <4>6. CASE Latest \notin msg.seen /\ msg.ref = 0
        BY <3>1, <4>2, <4>3, <4>6
      <4> QED
        BY <4>4, <4>5, <4>6
    <3> QED
      BY <1>2, <1>t, <2>2, <2>4, <3>2
  <2> QED
    BY <2>3, <2>4
<1> QED
  BY <1>3, <1>4

\* An operator is asked.
LEMMA AnswerAsked ==
  ASSUME HandlerInv, PacketsInv, AnswerInv, Started \subseteq Started', AskBack
  PROVE  AnswerInv'
<1>1. /\ PacketMeant \in 0..Latest /\ msg.author \in Accounts
      /\ Finish /\ UNCHANGED <<packet, again, events>>
      /\ \E action \in Actions : Ask(action)
  BY MeantPacket DEF AskBack, Actions, AnswerInv, HandlerInv, Message
<1>2. Latest' = Latest
  BY <1>1 DEF Latest
<1>3. Asked'
  BY <1>1, <1>2 DEF Ask, Asked
<1>4. events' \in 0..MaxEvents
  BY <1>1 DEF AnswerInv
<1> QED
  BY <1>1, <1>3, <1>4, AnswerFinished

LEMMA AnswerHandler ==
  ASSUME HandlerInv, PacketsInv, AnswerInv, Started \subseteq Started',
         Latest' = Latest \/ Latest' = Latest + 1, HandlerStep
  PROVE  AnswerInv'
<1>t. Latest \in Nat /\ events \in 0..MaxEvents /\ MaxEvents \in Nat
  BY ConversationAssumption DEF PacketsInv, AnswerInv
<1>a. ASSUME UNCHANGED <<followup, question>>
      PROVE  Asked'
  BY <1>a, AskedLater DEF AnswerInv
<1>1. CASE Finish /\ UNCHANGED <<followup, again, question, events>>
  BY <1>a, <1>t, <1>1, AnswerFinished
<1>2. CASE Register \/ ChangeByCommand
  BY <1>1, <1>2 DEF Register, ChangeByCommand
<1>3. CASE ReadAgain \/ Customer
  <2>1. /\ pc' \in {"write", "ingest"} /\ msg' = msg
        /\ UNCHANGED <<followup, decision, again, question, events>>
    BY <1>3 DEF ReadAgain, Customer, Become
  <2>2. Formed(msg', Started') /\ \A m \in again' : Formed(m, Started') /\ m.moved
    BY <2>1, FormedLater DEF AnswerInv
  <2> QED
    BY <1>a, <2>1, <2>2 DEF AnswerInv, RecordedAsMeant
<1>4. CASE FollowUp
  <2>1. Asked'
    BY <1>4 DEF FollowUp, Asked
  <2> QED
    BY <1>4, <2>1, AnswerDecides
<1>5. CASE Answer
  BY <1>5, <1>a, AnswerDecides DEF Answer
<1>6. CASE AskBack
  BY <1>6, AnswerAsked
<1>7. CASE Record /\ ~Finish
  <2>1. /\ pc = "record" /\ pc' = "reply" /\ msg' = msg
        /\ UNCHANGED <<packet, followup, decision, again, question, events>>
    BY <1>7 DEF Record, Become
  <2>2. Latest' = Latest
    BY <2>1 DEF Latest
  <2>3. Formed(msg', Started') /\ \A m \in again' : Formed(m, Started') /\ m.moved
    BY <2>1, FormedLater DEF AnswerInv
  <2> QED
    BY <1>a, <2>1, <2>2, <2>3 DEF AnswerInv, RecordedAsMeant
<1>8. CASE (ReplyRead \/ Guard) /\ ~Finish
  <2>1. /\ pc' \in {"guard", "send"} /\ msg' \in {msg, [msg EXCEPT !.moved = FALSE]}
        /\ UNCHANGED <<followup, decision, again, question, events>>
    BY <1>8 DEF ReplyRead, Guard
  <2>2. Formed(msg, Started') /\ \A m \in again' : Formed(m, Started') /\ m.moved
    BY <2>1, FormedLater DEF AnswerInv
  <2>3. Formed([msg EXCEPT !.moved = FALSE], Started')
    BY <2>2 DEF Formed, HandlerInv, Message
  <2>4. Formed(msg', Started')
    BY <2>1, <2>2, <2>3
  <2> QED
    BY <1>a, <2>1, <2>2, <2>4 DEF AnswerInv, RecordedAsMeant
<1>9. CASE (Record \/ ReplyRead \/ Guard) /\ Finish
  BY <1>1, <1>9 DEF Record, ReplyRead, Guard
<1>10. CASE RegisterRejected \/ Ignore \/ (\E p \in Packets : Ingest(p)) \/ IngestNothing
              \/ Promote \/ RecordFails \/ Send
  <2>1. Finish /\ UNCHANGED <<followup, again, question, events>>
    BY <1>10 DEF RegisterRejected, Ignore, Ingest, IngestNothing, Promote, RecordFails, Send
  <2> QED
    BY <1>1, <2>1
<1>11. CASE Acknowledge
  <2>1. /\ pc' = "idle" /\ msg' = NoMessage
        /\ UNCHANGED <<followup, decision, again, question, events>>
    BY <1>11 DEF Acknowledge
  <2>2. Formed(msg', Started') /\ \A m \in again' : Formed(m, Started') /\ m.moved
    BY <2>1, NoMessageFormed, FormedLater DEF AnswerInv
  <2> QED
    BY <1>a, <2>1, <2>2 DEF AnswerInv, RecordedAsMeant
<1> QED
  BY <1>2, <1>3, <1>4, <1>5, <1>6, <1>7, <1>8, <1>9, <1>10, <1>11 DEF HandlerStep

\* A crash forgets the question, and spends the message that comes again.
LEMMA AnswerCrash ==
  ASSUME HandlerInv, PacketsInv, AnswerInv, Started \subseteq Started', Crash
  PROVE  AnswerInv'
<1>1. /\ followup' = {} /\ question' = {} /\ pc' = "idle" /\ msg' = NoMessage
      /\ decision' = NoDecision /\ events < MaxEvents /\ events' = events + 1
      /\ \A m \in again' : m \in again \/ m = Spent(msg)
  BY DEF Crash, Event
<1>2. \A m \in again' : Formed(m, Started') /\ m.moved
  <2>1. Formed(Spent(msg), Started) /\ Spent(msg).moved
    BY SpentFormed, SpentMessage DEF AnswerInv, HandlerInv
  <2>2. \A m \in again : Formed(m, Started) /\ m.moved
    BY DEF AnswerInv
  <2> QED
    BY <1>1, <2>1, <2>2, FormedLater
<1>3. decision' \in Decision /\ events' \in 0..MaxEvents
  BY <1>1, ConversationAssumption DEF NoDecision, Decision, Actions, AnswerInv
<1>4. Formed(msg', Started')
  BY <1>1, NoMessageFormed
<1> QED
  BY <1>1, <1>2, <1>3, <1>4 DEF AnswerInv, RecordedAsMeant, Asked

LEMMA AnswerNext ==
  ASSUME Inv, PacketsInv, AnswerInv, [Next]_vars
  PROVE  AnswerInv'
<1>p. Started \subseteq Started' /\ (Latest' = Latest \/ Latest' = Latest + 1)
  BY PacketsNext
<1>h. HandlerInv /\ Latest \in Nat /\ events \in 0..MaxEvents /\ MaxEvents \in Nat
  BY ConversationAssumption DEF Inv, PacketsInv, AnswerInv
<1>a. ASSUME UNCHANGED <<followup, question>>
      PROVE  Asked'
  BY <1>a, <1>p, AskedLater DEF AnswerInv
<1>1. ASSUME NEW r \in Requests, Call(r) \/ CallWrites(r)
      PROVE  AnswerInv'
  <2>1. /\ UNCHANGED <<packet, followup, pc, decision, again, question>>
        /\ msg' = msg \/ Moves
        /\ events' = events \/ Event
    BY <1>1 DEF Call, CallWrites, handler
  <2>2. Latest' = Latest
    BY <2>1 DEF Latest
  <2>3. events' \in 0..MaxEvents
    BY <1>h, <2>1 DEF Event
  <2> QED
    BY <1>a, <1>h, <1>p, <2>1, <2>2, <2>3, AnswerKept
<1>2. ASSUME NEW p \in Packets, StartCase(p)
      PROVE  AnswerInv'
  <2>1. UNCHANGED <<followup, pc, decision, again, question, events>> /\ Moves
    BY <1>2 DEF StartCase
  <2> QED
    BY <1>a, <1>h, <1>p, <2>1, AnswerKept
<1>3. CASE (\E p \in Packets : RecordSent(p)) \/ RecordOther \/ PairAgain \/ Drain
           \/ UNCHANGED vars
  <2>1. UNCHANGED <<followup, pc, msg, decision, again, question, events>>
    BY <1>3 DEF RecordSent, RecordOther, PairAgain, Drain, handler, vars, conversationVars
  <2>2. \A p \in Packets : packet'[p] = "none" <=> packet[p] = "none"
    BY <1>3 DEF PacketsInv, RecordSent, RecordOther, PairAgain, Drain, Drained, vars,
       conversationVars
  <2>3. Latest' = Latest
    BY <2>2 DEF Latest
  <2> QED
    BY <1>a, <1>h, <1>p, <2>1, <2>3, AnswerKept
<1>4. CASE \/ \E p \in Packets : Echo(p)
           \/ \E author \in People \cup {Owner} : Command(author) \/ Reply(author)
           \/ Redeliver
  <2>1. UNCHANGED <<followup, question>>
    BY <1>4 DEF Echo, Command, Reply, Redeliver
  <2> QED
    BY <1>4, <1>a, <1>h, <1>p, <2>1, AnswerArrives
<1>5. CASE HandlerStep
  BY <1>5, <1>h, <1>p, AnswerHandler
<1>6. CASE Expire
  <2>1. /\ UNCHANGED <<packet, pc, decision, again, events>> /\ Moves
        /\ followup' = {} /\ question' = {}
    BY <1>6 DEF Expire
  <2>2. Asked'
    BY <2>1 DEF Asked
  <2> QED
    BY <1>h, <1>p, <2>1, <2>2, AnswerKept
<1>7. CASE Crash
  BY <1>7, <1>h, <1>p, AnswerCrash
<1> QED
  BY <1>1, <1>2, <1>3, <1>4, <1>5, <1>6, <1>7 DEF Next

LEMMA AnswerStart == Init => PacketsInv /\ RowsInv /\ AnswerInv
<1> SUFFICES ASSUME Init
             PROVE  PacketsInv /\ RowsInv /\ AnswerInv
  OBVIOUS
<1>1. Started = {} /\ Latest = 0
  BY FS_EmptySet DEF Init, Started, Latest
<1>2. PacketsInv
  BY <1>1, ConversationAssumption DEF Init, PacketsInv
<1>3. IsInjective(row.operators)
  <2>1. CASE row = ProvisionedRow
    BY <2>1, ProvisionedOnce
  <2>2. CASE \E person \in People :
               row = [ProvisionedRow EXCEPT !.mode = "full_control", !.consumed = TRUE,
                                            !.operators = <<person>>]
    <3>1. PICK person \in People :
                 row = [ProvisionedRow EXCEPT !.mode = "full_control", !.consumed = TRUE,
                                              !.operators = <<person>>]
      BY <2>2, Zenon
    <3>2. <<person>> \in Seq(People \cup {Owner})
      OBVIOUS
    <3>3. row.operators = <<person>>
      BY <3>1, <3>2, ProvisionedIsRow, RegisteredRow, Zenon
    <3> QED
      BY <3>3 DEF IsInjective
  <2> QED
    BY <2>1, <2>2, Zenon DEF Init, BindingInit
<1>4. RowsInv
  <2>1. /\ copy = ProvisionedRow /\ issued = 0 /\ stale = FALSE
        /\ request = [r \in Requests |-> [pc |-> "idle"]]
    BY DEF Init, BindingInit
  <2>2. \A r \in Requests : request[r].pc = "idle"
    BY <2>1
  <2>3. issued <= MaxNumbers
    BY <2>1, BindingAssumption
  <2>4. IsInjective(copy.operators)
    BY <2>1, ProvisionedOnce, Zenon
  <2> QED
    BY <1>3, <2>1, <2>2, <2>3, <2>4 DEF RowsInv, Writing
<1>5. Formed(msg, Started) /\ decision \in Decision
  BY NoMessageFormed, ConversationAssumption DEF Init, NoDecision, Decision, Actions
<1>6. AnswerInv
  BY <1>5, ConversationAssumption DEF Init, AnswerInv, Asked, RecordedAsMeant
<1> QED
  BY <1>2, <1>4, <1>6

LEMMA AnswerStep ==
  Inv /\ PacketsInv /\ RowsInv /\ AnswerInv /\ [Next]_vars
    => PacketsInv' /\ RowsInv' /\ AnswerInv'
BY PacketsNext, RowsNext, AnswerNext

LEMMA Typed == Inv /\ RingInv /\ PacketsInv /\ RowsInv /\ AnswerInv => TypeOK
<1> SUFFICES ASSUME Inv, RingInv, PacketsInv, RowsInv, AnswerInv
             PROVE  TypeOK
  OBVIOUS
<1>1. /\ row \in Row /\ row.number <= issued /\ issued \in Nat /\ issued <= MaxNumbers
      /\ Message(msg)
  BY DEF Inv, BindingInv, Known, HandlerInv, RowsInv
<1>2. row \in [mode : Modes, operators : {row.operators}, customers : SUBSET People,
              number : 0..MaxNumbers, consumed : BOOLEAN, paused : BOOLEAN]
  <2>1. row.number \in 0..MaxNumbers
    BY <1>1, BindingAssumption DEF Row
  <2> QED
    BY <1>1, <2>1 DEF Row
<1>3. \A i \in DOMAIN row.operators : row.operators[i] \in People \cup {Owner}
  BY <1>1 DEF Row
<1>4. followup \subseteq Decision /\ Cardinality(followup) <= 1
  <2>1. CASE followup = {}
    BY <2>1, FS_EmptySet
  <2>2. CASE followup # {}
    <3>1. PICK p \in 0..Latest, action \in Actions :
                 followup = {[packet |-> p, action |-> action]}
      BY <2>2 DEF AnswerInv, Asked
    <3>2. QED
      <4>1. followup \subseteq Decision
        BY <3>1, DecisionTyped
      <4>2. Cardinality(followup) = 1
        BY <3>1, FS_Singleton
      <4> QED
        BY <4>1, <4>2
  <2> QED
    BY <2>1, <2>2
<1>5. msg.ref \in 0..MaxPackets /\ msg.seen \subseteq Packets
      /\ msg.text \in Commands \cup Replies \cup {"echo"}
  BY ConversationAssumption DEF AnswerInv, Formed, Started, Packets
<1>6. issued \in 0..MaxNumbers
  BY <1>1, BindingAssumption
<1> QED
  BY <1>1, <1>2, <1>3, <1>4, <1>5, <1>6
     DEF TypeOK, AnswerInv, PacketsInv, RowsInv, RingInv, Message, Accounts

\* Every variable keeps its type: nobody is listed twice as an operator, one
\* follow-up at most is pending, and what is recorded is about a packet that
\* has been created.
THEOREM TypeCorrect == Spec => []TypeOK
<1> QED
  BY InvStart, InvStep, AnswerStart, AnswerStep, Typed, PTL DEF Spec

\* What is recorded is what the operator meant, whoever else writes, whatever
\* calls run and whatever expires or is delivered again meanwhile.
THEOREM RecordsWhatIsMeant == Spec => []RecordedAsMeant
<1>1. AnswerInv => RecordedAsMeant
  BY DEF AnswerInv
<1> QED
  BY <1>1, InvStart, InvStep, AnswerStart, AnswerStep, PTL DEF Spec
=============================================================================
