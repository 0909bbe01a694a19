---------------------------- MODULE WhatsAppSession ----------------------------
(***************************************************************************)
(* The WhatsApp sessions of one tenant: the Manager in                     *)
(* internal/channel/whatsapp/adapter.go, whose map holds the tenant's      *)
(* client, the requests that pair and log out (whatsappInit and            *)
(* whatsappLogout in internal/httpapi/server.go), and the path of a        *)
(* session's status to the gateway and to the channel binding.  A step is  *)
(* what happens under one lock, or one call of whatsmeow.  A client stands *)
(* for its device too: after a restart the device gets a client again.     *)
(*                                                                         *)
(* From whatsmeow: it calls the handler of a client for one event at a     *)
(* time, tells the QR pump before or after the handler of a pairing, has   *)
(* no more codes for a device that has its ID, and does not connect again  *)
(* by itself after Disconnect or without an ID.  Disconnect does not end   *)
(* the QR channel, and the channel may end with the socket open or closed. *)
(***************************************************************************)
EXTENDS Naturals, FiniteSets

CONSTANTS Clients,      \* the clients that may be created
          Calls,        \* requests, each one of BeginPairing and Logout
          MaxEvents,    \* lost or removed connections, restarts, other calls
          MaxReports    \* publications under way

\* "handler" and "pump" name who reports besides the requests.
ASSUME SessionAssumption ==
  /\ {MaxEvents, MaxReports} \subseteq Nat
  /\ Calls \cap {"handler", "pump"} = {}

VARIABLES
  current,    \* m.clients[tenant]: {} or a singleton
  socket,     \* "new" before NewClient, "open" once connected, "up" logged in
  paired,     \* clients whose device has an ID
  coded, qr,  \* clients that had a code, and those whose currentQR is set
  pump,       \* the goroutine that reads the QR channel of a client
  status,     \* tc.status
  pc, own,    \* the requests: where they are, and the client they work on
  reports,    \* publications under way
  gateway,    \* the gateway's tenantStatus
  persisted,  \* the status in the channel binding
  copies,     \* its values in the bindings that other calls will write back
  restoring,  \* the client Restore has connected and not installed
  \* History and bounds.
  contested,  \* clients taken out of the map under another request's hands
  heard,      \* the client whose report the gateway took last
  stale,      \* was another status written back over the last report's?
  raced,      \* have publications overlapped, and was the last one late?
  events

clients == <<socket, paired, coded, qr, pump>>
requests == <<pc, own, contested>>
told == <<gateway, heard>>
row == <<persisted, copies, stale>>
outside == <<told, row, restoring, events>>
reporting == <<reports, raced, outside>>
vars == <<current, clients, status, requests, reporting>>

Statuses ==
  {"unknown", "qr_needed", "connecting", "active", "disconnected", "suspended"}

Sources == Calls \cup {"handler", "pump"}

Report == [client : Clients, source : Sources, status : Statuses,
           stage : {"notify", "persist"}]

TypeOK ==
  /\ current \subseteq Clients /\ Cardinality(current) <= 1
  /\ socket \in [Clients -> {"new", "closed", "open", "up"}]
  /\ paired \subseteq Clients /\ coded \subseteq Clients /\ qr \subseteq coded
  /\ pump \in [Clients -> {"none", "running", "success", "expired",
                       "failed", "ended"}]
  /\ status \in [Clients -> Statuses]
  /\ pc \in [Calls -> {"idle", "connect", "wait", "abort", "logout", "gone",
                       "report", "done"}]
  /\ own \in [Calls -> SUBSET Clients]
  /\ reports \subseteq Report
  /\ gateway \in Statuses /\ persisted \in Statuses
  /\ copies \subseteq Statuses
  /\ restoring \subseteq Clients /\ contested \subseteq Clients
  /\ heard \subseteq Clients /\ stale \in BOOLEAN /\ raced \in BOOLEAN
  /\ events \in 0..MaxEvents

\* The binding as ProvisionTenant creates it, a manager without clients.
Init ==
  /\ current = {} /\ paired = {} /\ coded = {} /\ qr = {}
  /\ socket = [c \in Clients |-> "new"]
  /\ pump = [c \in Clients |-> "none"]
  /\ status = [c \in Clients |-> "unknown"]
  /\ pc = [k \in Calls |-> "idle"]
  /\ own = [k \in Calls |-> {}]
  /\ reports = {} /\ restoring = {} /\ copies = {}
  /\ gateway = "unknown" /\ persisted = "qr_needed"
  /\ contested = {} /\ heard = {} /\ stale = FALSE /\ raced = FALSE
  /\ events = 0

-----------------------------------------------------------------------------
GoTo(k, step) == pc' = [pc EXCEPT ![k] = step]

Done(k) == GoTo(k, "done") /\ own' = [own EXCEPT ![k] = {}]

\* The clients requests are at work on.
AtWork == UNION {own[k] : k \in Calls}

Starts(k) == pc[k] = "idle" /\ restoring = {}

\* Publications decided on and not begun: of a pump whose codes have run out,
\* and of a request that has its code.
Due == {<<c, "pump">> : c \in {d \in Clients : pump[d] = "expired"}}
       \cup {w \in coded \X Calls : w[1] \in own[w[2]] /\ pc[w[2]] = "wait"}

Begun(c, source, s) ==
  [client |-> c, source |-> source, status |-> s, stage |-> "notify"]

Races(c, source) == reports # {} \/ Due \ {<<c, source>>} # {}

\* A publication that was not due when others overlapped puts things right.
Raced(c, source) == Races(c, source) \/ (raced /\ <<c, source>> \in Due)

\* Mutation of Publish: the client's own status is not set.
PublishOutside(c, source, s) ==
  /\ Cardinality(reports) < MaxReports
  /\ reports' = reports \cup {Begun(c, source, s)}
  /\ raced' = Raced(c, source)
  /\ UNCHANGED status

\* publish, up to OnSession: the status changes under the client's lock.
Publish(c, source, s) ==
  /\ Cardinality(reports) < MaxReports
  /\ reports' = reports \cup {Begun(c, source, s)}
  /\ raced' = Raced(c, source)
  /\ status' = [status EXCEPT ![c] = s]

\* The handler of a client is not called again before it has returned.
HandlerFree(c) == \A r \in reports : ~(r.client = c /\ r.source = "handler")

-----------------------------------------------------------------------------
(* BeginPairing                                                            *)

\* Mutation of Replaceable: only the code is looked at.
ReplaceableUncoded == current \cap qr = {}

\* No client, or one that is neither paired nor shows a code.
Replaceable == current \cap (paired \cup qr) = {}

\* Already paired is an error; a code that is shown is the answer.
BeginPairingAnswers(k) ==
  /\ Starts(k) /\ ~Replaceable
  /\ Done(k)
  /\ UNCHANGED <<current, clients, status, contested, reporting>>

BeginPairing(k, c) ==
  /\ Starts(k) /\ Replaceable
  /\ socket[c] = "new"
  /\ current' = {c}
  /\ contested' = contested \cup (current \cap AtWork)
  /\ socket' = [socket EXCEPT ![c] = "closed"]
  /\ status' = [status EXCEPT ![c] = "qr_needed"]
  /\ own' = [own EXCEPT ![k] = {c}]
  /\ GoTo(k, "connect")
  /\ UNCHANGED <<paired, coded, qr, pump, reporting>>

\* GetQRChannel or Connect fails: the map's entry is deleted, whosever it is.
ConnectFails(k) ==
  /\ pc[k] = "connect"
  /\ current' = {}
  /\ contested' = contested \cup (current \ own[k])
  /\ Done(k)
  /\ UNCHANGED <<clients, status, reporting>>

Connect(k) ==
  /\ pc[k] = "connect"
  /\ socket' = [c \in Clients |-> IF c \in own[k] THEN "open" ELSE socket[c]]
  /\ pump' = [c \in Clients |-> IF c \in own[k] THEN "running" ELSE pump[c]]
  /\ GoTo(k, "wait")
  /\ UNCHANGED <<current, paired, coded, qr, status, own, contested,
                 reporting>>

\* The first code has come.
PublishCode(k) ==
  /\ pc[k] = "wait" /\ own[k] \subseteq coded
  /\ \E c \in own[k] : Publish(c, k, "qr_needed")
  /\ GoTo(k, "report")
  /\ UNCHANGED <<current, clients, own, contested, outside>>

\* No code for 15 seconds, or the caller is gone: abortPairing.  When a code
\* is there too the choice is random.
GiveUp(k) ==
  /\ pc[k] = "wait"
  /\ current' = current \ own[k]
  /\ GoTo(k, "abort")
  /\ UNCHANGED <<clients, status, own, contested, reporting>>

Closed(cs) == [c \in Clients |-> IF c \in cs THEN "closed" ELSE socket[c]]

\* Whatever has come of the pairing meanwhile; the pump goes on.
Disconnect(k) ==
  /\ pc[k] = "abort"
  /\ socket' = Closed(own[k])
  /\ Done(k)
  /\ UNCHANGED <<current, paired, coded, qr, pump, status, contested, reporting>>

-----------------------------------------------------------------------------
(* The QR pump and the scan on the phone                                   *)

\* Mutation of Code: the request is not told.
CodeUntold(c) ==
  /\ pump[c] = "running"
  /\ qr' = qr \cup {c}
  /\ UNCHANGED <<current, socket, paired, coded, pump, status, requests,
                 reporting>>

\* The code is shown, and is the request's answer if it is the first.  Codes
\* come until the channel ends, whether or not the client is still connected.
Code(c) ==
  /\ pump[c] = "running"
  /\ coded' = coded \cup {c} /\ qr' = qr \cup {c}
  /\ UNCHANGED <<current, socket, paired, pump, status, requests, reporting>>

\* The device gets its ID, and a pump still running its last event; the code
\* is still shown.
Scan(c) ==
  /\ c \in coded \ paired /\ socket[c] = "open"
  /\ paired' = paired \cup {c}
  /\ pump' = [pump EXCEPT ![c] = IF @ = "running" THEN "success" ELSE @]
  /\ UNCHANGED <<current, socket, coded, qr, status, requests, reporting>>

\* handleEvent of PairSuccess.
PairSuccess(c) ==
  /\ c \in paired \cap qr /\ HandlerFree(c)
  /\ qr' = qr \ {c}
  /\ UNCHANGED <<current, socket, paired, coded, pump, status, requests,
                 reporting>>

PumpSuccess(c) ==
  /\ pump[c] = "success"
  /\ qr' = qr \ {c}
  /\ pump' = [pump EXCEPT ![c] = "ended"]
  /\ UNCHANGED <<current, socket, paired, coded, status, requests, reporting>>

\* Whatsmeow may close the socket with the channel; the program does not.
ChannelEnds(c) ==
  /\ pump[c] = "running"
  /\ socket' \in {socket, Closed({c})}
  /\ UNCHANGED <<current, paired, coded, status, requests, reporting>>

\* The codes have run out, or WhatsApp refuses the client or the phone: the
\* three kinds of event the pump gives up on.
PumpError(c) ==
  /\ ChannelEnds(c)
  /\ pump' = [pump EXCEPT ![c] = "expired"]
  /\ qr' = qr \ {c}

PumpPublish(c) ==
  /\ pump[c] = "expired"
  /\ pump' = [pump EXCEPT ![c] = "failed"]
  /\ Publish(c, "pump", "disconnected")
  /\ UNCHANGED <<current, socket, paired, coded, qr, requests, outside>>

\* The channel ends with a kind of event the pump ignores: the code it showed
\* last stays, and nobody is told.
PumpSilent(c) ==
  /\ ChannelEnds(c)
  /\ pump' = [pump EXCEPT ![c] = "ended"]
  /\ UNCHANGED qr

-----------------------------------------------------------------------------
(* Events of the connection                                                *)

Connected(c) ==
  /\ socket[c] = "open" /\ c \in paired \ qr /\ HandlerFree(c)
  /\ socket' = [socket EXCEPT ![c] = "up"]
  /\ Publish(c, "handler", "active")
  /\ UNCHANGED <<current, paired, coded, qr, pump, requests, outside>>

Event == events < MaxEvents /\ events' = events + 1

\* The connection is lost; whatsmeow connects a paired device again.
Disconnected(c) ==
  /\ socket[c] \in {"open", "up"} /\ HandlerFree(c) /\ Event
  /\ socket' = [socket EXCEPT ![c] = IF c \in paired THEN "open" ELSE "closed"]
  /\ Publish(c, "handler", "disconnected")
  /\ UNCHANGED <<current, paired, coded, qr, pump, requests, told, row,
                 restoring>>

\* The phone removed the device, whose ID is gone; the client stays in the map.
LoggedOut(c) ==
  /\ socket[c] = "up" /\ HandlerFree(c) /\ Event
  /\ socket' = Closed({c})
  /\ paired' = paired \ {c}
  /\ Publish(c, "handler", "suspended")
  /\ UNCHANGED <<current, coded, qr, pump, requests, told, row, restoring>>

-----------------------------------------------------------------------------
(* Logout                                                                  *)

LogoutNobody(k) ==
  /\ Starts(k) /\ current = {}
  /\ Done(k)
  /\ UNCHANGED <<current, clients, status, contested, reporting>>

Logout(k) ==
  /\ Starts(k) /\ current # {}
  /\ current' = {}
  /\ contested' = contested \cup (current \cap AtWork)
  /\ own' = [own EXCEPT ![k] = current]
  /\ GoTo(k, "logout")
  /\ UNCHANGED <<clients, status, reporting>>

\* cli.Logout, Disconnect and DeleteDevice; a pump still running goes on.
DeleteDevice(k) ==
  /\ pc[k] = "logout"
  /\ socket' = Closed(own[k])
  /\ paired' = paired \ own[k]
  /\ GoTo(k, "gone")
  /\ UNCHANGED <<current, coded, qr, pump, status, own, contested, reporting>>

PublishLogout(k) ==
  /\ pc[k] = "gone"
  /\ \E c \in own[k] : Publish(c, k, "suspended")
  /\ GoTo(k, "report")
  /\ UNCHANGED <<current, clients, own, contested, outside>>

-----------------------------------------------------------------------------
(* NotifySessionStatus in internal/app/gateway.go, called by OnSession     *)

\* The status changes under the gateway's lock.
Notify(r) ==
  /\ r \in reports /\ r.stage = "notify"
  /\ gateway' = r.status /\ heard' = {r.client}
  /\ reports' = (reports \ {r}) \cup {[r EXCEPT !.stage = "persist"]}
  /\ UNCHANGED <<current, clients, status, requests, row, restoring, raced,
                 events>>

\* publish returns to the request that called it.
Ends(r) ==
  /\ r \in reports /\ r.stage = "persist"
  /\ reports' = reports \ {r}
  /\ IF r.source \in Calls THEN Done(r.source) ELSE UNCHANGED <<pc, own>>

\* UpdateChannelSessionStatus, one transaction.
Persist(r) ==
  /\ Ends(r)
  /\ persisted' = r.status /\ stale' = FALSE
  /\ UNCHANGED <<current, clients, status, contested, told, copies,
                 restoring, raced, events>>

\* Its error is ignored; for the properties it counts as a race.
PersistFails(r) ==
  /\ Ends(r) /\ Event
  /\ raced' = TRUE
  /\ UNCHANGED <<current, clients, status, contested, told, row, restoring>>

\* The calls that change the binding otherwise (consent, customers, operators,
\* secrets, pauses) read it first and write all of it back, its status too.
ReadRow ==
  /\ Event
  /\ copies' = copies \cup {persisted}
  /\ UNCHANGED <<current, clients, status, requests, reports, raced, told,
                 persisted, stale, restoring>>

WriteRow(s) ==
  /\ s \in copies /\ copies' \in {copies, copies \ {s}}
  /\ persisted' = s
  /\ stale' = (stale \/ s # persisted)
  /\ UNCHANGED <<current, clients, status, requests, reports, raced, told,
                 restoring, events>>

-----------------------------------------------------------------------------
(* Close or a crash, and Restore                                           *)

\* Restore takes a paired device with the binding's number and connects it;
\* it gives up on one that does not connect.
Restart(restored) ==
  /\ Event
  /\ restored \subseteq paired /\ Cardinality(restored) <= 1
  /\ restoring' = restored
  /\ current' = {} /\ coded' = {} /\ qr' = {} /\ reports' = {}
  /\ copies' = {}
  /\ socket' = [c \in Clients |-> IF c \in restored THEN "open"
                                  ELSE IF socket[c] = "new" THEN "new" ELSE "closed"]
  /\ pump' = [c \in Clients |-> IF socket[c] = "new" THEN "none" ELSE "ended"]
  /\ status' = [c \in Clients |-> IF c \in restored THEN "connecting" ELSE "unknown"]
  /\ pc' = [k \in Calls |-> IF pc[k] = "idle" THEN "idle" ELSE "done"]
  /\ own' = [k \in Calls |-> {}]
  /\ gateway' = "unknown"
  /\ contested' = {} /\ heard' = {} /\ stale' = FALSE /\ raced' = FALSE
  /\ UNCHANGED <<paired, persisted>>

\* The client is put into the map after Connect has returned.
Install ==
  /\ restoring # {}
  /\ current' = restoring /\ restoring' = {}
  /\ UNCHANGED <<clients, status, requests, reports, raced, told, row, events>>

-----------------------------------------------------------------------------
Request(k) ==
  \/ BeginPairingAnswers(k)
  \/ \E c \in Clients : BeginPairing(k, c)
  \/ ConnectFails(k)
  \/ Connect(k)
  \/ PublishCode(k)
  \/ GiveUp(k)
  \/ Disconnect(k)
  \/ LogoutNobody(k)
  \/ Logout(k)
  \/ DeleteDevice(k)
  \/ PublishLogout(k)

ClientStep(c) ==
  \/ Code(c)
  \/ Scan(c)
  \/ PairSuccess(c)
  \/ PumpSuccess(c)
  \/ PumpError(c)
  \/ PumpPublish(c)
  \/ PumpSilent(c)
  \/ Connected(c)
  \/ Disconnected(c)
  \/ LoggedOut(c)

Next ==
  \/ \E k \in Calls : Request(k)
  \/ \E c \in Clients : ClientStep(c)
  \/ \E r \in reports : Notify(r) \/ Persist(r) \/ PersistFails(r)
  \/ ReadRow
  \/ \E s \in copies : WriteRow(s)
  \/ \E restored \in SUBSET Clients : Restart(restored)
  \/ Install

Spec == Init /\ [][Next]_vars

-----------------------------------------------------------------------------
(* Properties                                                              *)

\* Every connected client is in the map, or is held by the request or by the
\* Restore that is installing or removing it: a timed out, aborted, replaced or
\* logged out session is not left connected, receiving messages where nothing
\* can send or log out.  Two ways to lose one are left: a request takes it out
\* of the map while another is at work on it, and its pump gives up on it
\* without closing it.
NoOrphanSession ==
  \A c \in Clients : socket[c] \in {"open", "up"} =>
    \/ c \in current \cup restoring \cup AtWork
    \/ c \in contested
    \/ pump[c] \in {"expired", "failed"}

\* When no publication is under way, and the last one did not overlap another,
\* the binding has the gateway's status, unless a call has written back an
\* older one, and the client it is about, if it is in the map, has it too, and
\* is logged in exactly if it says active.
StatusesAgree ==
  reports = {} /\ ~raced /\ gateway # "unknown" =>
    /\ gateway = persisted \/ stale
    /\ \A c \in heard \cap current :
         /\ status[c] = gateway
         /\ gateway = "active" <=> socket[c] = "up"
===============================================================================
