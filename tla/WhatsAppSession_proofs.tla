------------------------- MODULE WhatsAppSession_proofs -------------------------
(***************************************************************************)
(* Theorems about WhatsAppSession, for all sets of clients and requests    *)
(* and all bounds.                                                         *)
(***************************************************************************)
EXTENDS WhatsAppSession, FiniteSetTheorems, TLAPS

Open(c) == socket[c] \in {"open", "up"}

InHand == current \cup restoring

Types ==
  /\ socket \in [Clients -> {"new", "closed", "open", "up"}]
  /\ pump \in [Clients -> {"none", "running", "success", "expired", "failed",
                           "ended"}]
  /\ pc \in [Calls -> {"idle", "connect", "wait", "abort", "logout", "gone",
                       "report", "done"}]
  /\ own \in [Calls -> SUBSET Clients]
  /\ current \subseteq Clients /\ restoring \subseteq Clients
  /\ reports \subseteq Report

\* Where clients and requests stand.  A client is new until a request has made
\* it, has no ID while codes may still come, and never returns to the map once
\* it is contested.
Shape ==
  /\ restoring # {} => current = {} /\ \A k \in Calls : pc[k] \in {"idle", "done"}
  /\ \A k \in Calls : pc[k] \in {"idle", "done"} => own[k] = {}
  /\ \A c \in Clients : socket[c] = "new" =>
       /\ c \notin coded \cup paired \cup InHand \cup AtWork \cup contested \cup heard
       /\ pump[c] = "none"
       /\ \A r \in reports : r.client # c
  /\ \A c \in Clients :
       /\ pump[c] = "running" => c \notin paired
       /\ socket[c] = "up" => c \in paired
  /\ contested \cap InHand = {}
  /\ \A k \in Calls : pc[k] = "connect" =>
       \A c \in own[k] : /\ socket[c] = "closed" /\ pump[c] = "none"
                         /\ c \notin coded \cup paired
                         /\ \A l \in Calls : c \in own[l] /\ pc[l] = "connect" => l = k

\* A request that publishes waits for its one report.
Voices ==
  \A r \in reports : r.source \in Calls =>
    /\ pc[r.source] = "report"
    /\ \A q \in reports : q.source = r.source => q = r

\* What a request may rely on, as long as the client it is at work on is not
\* contested: the one it pairs is in the map, the one it removes is not.
Held(k) ==
  \A c \in own[k] :
    /\ pc[k] \in {"abort", "logout", "gone"} => c \notin current
    /\ c \notin contested =>
         /\ pc[k] \in {"connect", "wait"} => c \in current
         /\ pc[k] = "gone" => ~Open(c)
         /\ pc[k] = "report" /\ Open(c) => c \in current

\* Somebody holds the client; and one that is neither paired nor shows a code,
\* so that another pairing may replace it, is still waiting for its first code.
Kept(c) ==
  /\ c \in InHand \cup AtWork
  /\ c \in coded => c \in qr \cup paired
  /\ pump[c] = "success" => c \in paired
  /\ c \in qr \cup paired \/ \E k \in Calls : pc[k] \in {"wait", "abort"} /\ c \in own[k]

Separate == \A k, l \in Calls : k # l => own[k] \cap own[l] \subseteq contested

Holding == \A k \in Calls : Held(k)

Keeping ==
  \A c \in Clients :
    Open(c) /\ c \notin contested /\ pump[c] \notin {"expired", "failed"} => Kept(c)

Inv == Types /\ Shape /\ Voices /\ Separate /\ Holding /\ Keeping

-----------------------------------------------------------------------------

LEMMA InvStart == Init => Inv
BY DEF Init, Inv, Types, Shape, Voices, Separate, Holding, Keeping, Held, Kept, Open, InHand, AtWork

\* A publication adds one report, of a client that is not new.
LEMMA Reported ==
  ASSUME Types, NEW c \in Clients, NEW source \in Sources, NEW s \in Statuses,
         Publish(c, source, s)
  PROVE  /\ reports' = reports \cup {Begun(c, source, s)}
         /\ reports' \subseteq Report
         /\ Begun(c, source, s).client = c /\ Begun(c, source, s).source = source
BY DEF Publish, Types, Begun, Report


\* The steps of a request.
LEMMA RequestStep ==
  ASSUME Inv, NEW k \in Calls, Request(k)
  PROVE  Inv'
<1>i. Types /\ Shape /\ Voices /\ Separate /\ Holding /\ Keeping
  BY DEF Inv
<1>p. \A r \in reports : /\ r.client \in Clients
                         /\ r.source = k => pc[k] = "report"
  BY <1>i DEF Types, Report, Voices
<1> USE DEF Types, Shape, Held, Kept, Open, InHand, AtWork, GoTo, Done, Starts
<1>1. CASE BeginPairingAnswers(k) \/ LogoutNobody(k)
  <2>1. /\ pc[k] = "idle" /\ pc' = [pc EXCEPT ![k] = "done"] /\ own' = [own EXCEPT ![k] = {}]
        /\ UNCHANGED <<current, socket, paired, coded, qr, pump, contested, reports, heard, restoring>>
    BY <1>1 DEF BeginPairingAnswers, LogoutNobody, clients, reporting, outside, told
  <2>2. own' = own
    BY <2>1, <1>i
  <2>3. Types' /\ Shape' /\ Separate' /\ Holding'
    BY <2>1, <2>2, <1>i DEF Separate, Holding
  <2>4. Voices'
    BY <2>1, <1>i, <1>p DEF Voices
  <2>5. Keeping'
    BY <2>1, <2>2, <1>i DEF Keeping
  <2> QED
    BY <2>3, <2>4, <2>5 DEF Inv
<1>2. ASSUME NEW c \in Clients, BeginPairing(k, c)
      PROVE  Inv'
  <2>1. /\ pc[k] = "idle" /\ restoring = {} /\ current \cap (paired \cup qr) = {} /\ socket[c] = "new"
        /\ current' = {c} /\ contested' = contested \cup (current \cap AtWork)
        /\ socket' = [socket EXCEPT ![c] = "closed"]
        /\ own' = [own EXCEPT ![k] = {c}] /\ pc' = [pc EXCEPT ![k] = "connect"]
        /\ UNCHANGED <<paired, coded, qr, pump, reports, heard, restoring>>
    BY <1>2 DEF BeginPairing, Replaceable, reporting, outside, told
  <2>2. /\ own[k] = {} /\ pump[c] = "none" 
        /\ c \notin coded \cup paired \cup InHand \cup AtWork \cup contested
    BY <2>1, <1>i
  <2>3. Types' /\ Shape' /\ Separate'
    BY <2>1, <2>2, <1>i DEF Separate
  <2>4. Voices'
    BY <2>1, <1>i, <1>p DEF Voices
  <2>5. Holding'
    BY <2>1, <2>2, <1>i DEF Holding
  <2>6. Keeping'
    BY <2>1, <2>2, <1>i DEF Keeping
  <2> QED
    BY <2>3, <2>4, <2>5, <2>6 DEF Inv
<1>3. CASE ConnectFails(k)
  <2>1. /\ pc[k] = "connect" /\ current' = {} /\ contested' = contested \cup (current \ own[k])
        /\ pc' = [pc EXCEPT ![k] = "done"] /\ own' = [own EXCEPT ![k] = {}]
        /\ UNCHANGED <<socket, paired, coded, qr, pump, reports, heard, restoring>>
    BY <1>3 DEF ConnectFails, clients, reporting, outside, told
  <2>3. Types' /\ Shape' /\ Separate'
    BY <2>1, <1>i DEF Separate
  <2>4. Voices'
    BY <2>1, <1>i, <1>p DEF Voices
  <2>5. Holding'
    BY <2>1, <1>i DEF Holding, Separate
  <2>6. Keeping'
    BY <2>1, <1>i DEF Keeping
  <2> QED
    BY <2>3, <2>4, <2>5, <2>6 DEF Inv
<1>4. CASE Connect(k)
  <2>1. /\ pc[k] = "connect" /\ pc' = [pc EXCEPT ![k] = "wait"]
        /\ socket' = [c \in Clients |-> IF c \in own[k] THEN "open" ELSE socket[c]]
        /\ pump' = [c \in Clients |-> IF c \in own[k] THEN "running" ELSE pump[c]]
        /\ UNCHANGED <<current, paired, coded, qr, own, contested, reports, heard, restoring>>
    BY <1>4 DEF Connect, reporting, outside, told
  <2>3. Types' /\ Shape' /\ Separate'
    BY <2>1, <1>i DEF Separate
  <2>4. Voices'
    BY <2>1, <1>i, <1>p DEF Voices
  <2>5. Holding'
    BY <2>1, <1>i DEF Holding, Separate
  <2>6. Keeping'
    BY <2>1, <1>i DEF Keeping
  <2> QED
    BY <2>3, <2>4, <2>5, <2>6 DEF Inv
<1>5. CASE PublishCode(k) \/ PublishLogout(k)
  <2>1. /\ pc[k] \in {"wait", "gone"} /\ pc' = [pc EXCEPT ![k] = "report"]
        /\ pc[k] = "wait" => own[k] \subseteq coded
        /\ UNCHANGED <<current, socket, paired, coded, qr, pump, own, contested, heard, restoring>>
    BY <1>5 DEF PublishCode, PublishLogout, clients, outside, told
  <2>2. PICK c \in own[k], s \in {"qr_needed", "suspended"} : Publish(c, k, s)
    BY <1>5 DEF PublishCode, PublishLogout
  <2>r. /\ reports' = reports \cup {Begun(c, k, s)} /\ reports' \subseteq Report
        /\ Begun(c, k, s).client = c /\ Begun(c, k, s).source = k
    BY <2>2, <1>i, Reported DEF Sources, Statuses
  <2>3. Types' /\ Shape' /\ Separate'
    BY <2>1, <2>r, <1>i DEF Separate
  <2>4. Voices'
    BY <2>1, <2>r, <1>i, <1>p DEF Voices
  <2>5. Holding'
    BY <2>1, <1>i DEF Holding, Separate
  <2>6. Keeping'
    BY <2>1, <1>i DEF Keeping, Holding
  <2> QED
    BY <2>3, <2>4, <2>5, <2>6 DEF Inv
<1>6. CASE GiveUp(k)
  <2>1. /\ pc[k] = "wait" /\ current' = current \ own[k] /\ pc' = [pc EXCEPT ![k] = "abort"]
        /\ UNCHANGED <<socket, paired, coded, qr, pump, own, contested, reports, heard, restoring>>
    BY <1>6 DEF GiveUp, clients, reporting, outside, told
  <2>3. Types' /\ Shape' /\ Separate'
    BY <2>1, <1>i DEF Separate
  <2>4. Voices'
    BY <2>1, <1>i, <1>p DEF Voices
  <2>5. Holding'
    BY <2>1, <1>i DEF Holding, Separate
  <2>6. Keeping'
    BY <2>1, <1>i DEF Keeping
  <2> QED
    BY <2>3, <2>4, <2>5, <2>6 DEF Inv
<1>7. CASE Disconnect(k)
  <2>1. /\ pc[k] = "abort" /\ pc' = [pc EXCEPT ![k] = "done"] /\ own' = [own EXCEPT ![k] = {}]
        /\ socket' = [c \in Clients |-> IF c \in own[k] THEN "closed" ELSE socket[c]]
        /\ UNCHANGED <<current, paired, coded, qr, pump, contested, reports, heard, restoring>>
    BY <1>7 DEF Disconnect, Closed, reporting, outside, told
  <2>3. Types' /\ Shape' /\ Separate'
    BY <2>1, <1>i DEF Separate
  <2>4. Voices'
    BY <2>1, <1>i, <1>p DEF Voices
  <2>5. Holding'
    BY <2>1, <1>i DEF Holding, Separate
  <2>6. Keeping'
    BY <2>1, <1>i DEF Keeping
  <2> QED
    BY <2>3, <2>4, <2>5, <2>6 DEF Inv
<1>8. CASE Logout(k)
  <2>1. /\ pc[k] = "idle" /\ restoring = {} /\ current' = {} /\ own' = [own EXCEPT ![k] = current]
        /\ contested' = contested \cup (current \cap AtWork)
        /\ pc' = [pc EXCEPT ![k] = "logout"]
        /\ UNCHANGED <<socket, paired, coded, qr, pump, reports, heard, restoring>>
    BY <1>8 DEF Logout, clients, reporting, outside, told
  <2>2. own[k] = {}
    BY <2>1, <1>i
  <2>3. Types' /\ Shape' /\ Separate'
    BY <2>1, <2>2, <1>i DEF Separate
  <2>4. Voices'
    BY <2>1, <1>i, <1>p DEF Voices
  <2>5. Holding'
    BY <2>1, <2>2, <1>i DEF Holding
  <2>6. Keeping'
    BY <2>1, <2>2, <1>i DEF Keeping
  <2> QED
    BY <2>3, <2>4, <2>5, <2>6 DEF Inv
<1>9. CASE DeleteDevice(k)
  <2>1. /\ pc[k] = "logout" /\ pc' = [pc EXCEPT ![k] = "gone"]
        /\ socket' = [c \in Clients |-> IF c \in own[k] THEN "closed" ELSE socket[c]]
        /\ paired' = paired \ own[k]
        /\ UNCHANGED <<current, coded, qr, pump, own, contested, reports, heard, restoring>>
    BY <1>9 DEF DeleteDevice, Closed, reporting, outside, told
  <2>3. Types' /\ Shape' /\ Separate'
    BY <2>1, <1>i DEF Separate
  <2>4. Voices'
    BY <2>1, <1>i, <1>p DEF Voices
  <2>5. Holding'
    BY <2>1, <1>i DEF Holding, Separate
  <2>6. Keeping'
    BY <2>1, <1>i DEF Keeping
  <2> QED
    BY <2>3, <2>4, <2>5, <2>6 DEF Inv
<1> QED
  BY <1>1, <1>2, <1>3, <1>4, <1>5, <1>6, <1>7, <1>8, <1>9 DEF Request

\* The steps of a client: its codes, the scan, its pump and its connection.
LEMMA ClientStepKeeps ==
  ASSUME Inv, NEW c \in Clients, ClientStep(c)
  PROVE  Inv'
<1>i. Types /\ Shape /\ Voices /\ Separate /\ Holding /\ Keeping
  BY DEF Inv
<1>u. UNCHANGED <<current, restoring, pc, own, contested, heard>>
  BY DEF ClientStep, Code, Scan, PairSuccess, PumpSuccess, PumpError, PumpSilent, ChannelEnds,
     PumpPublish, Connected, Disconnected, LoggedOut, requests, reporting, outside, told
<1>s. Separate'
  BY <1>i, <1>u DEF Separate
<1>r. ASSUME \E source \in {"handler", "pump"}, s \in {"active", "disconnected", "suspended"} :
               Publish(c, source, s)
      PROVE  /\ reports' \subseteq Report
             /\ \A r \in reports' : r \in reports \/ (r.client = c /\ r.source \notin Calls)
  <2>1. PICK source \in {"handler", "pump"}, s \in {"active", "disconnected", "suspended"} :
               Publish(c, source, s)
    BY <1>r
  <2>2. source \in Sources /\ s \in Statuses /\ source \notin Calls
    BY SessionAssumption DEF Sources, Statuses
  <2>3. /\ reports' = reports \cup {Begun(c, source, s)} /\ reports' \subseteq Report
        /\ Begun(c, source, s).client = c /\ Begun(c, source, s).source = source
    BY <2>1, <2>2, <1>i, Reported
  <2> QED
    BY <2>2, <2>3
<1>v. ASSUME reports' = reports \/ \E source \in {"handler", "pump"},
             s \in {"active", "disconnected", "suspended"} : Publish(c, source, s)
      PROVE  /\ reports' \subseteq Report
             /\ \A r \in reports' : r \in reports \/ r.client = c
             /\ Voices'
  BY <1>v, <1>r, <1>i, <1>u DEF Voices, Types
<1> USE DEF Types, Shape, Held, Kept, Open, InHand, AtWork
<1>1. CASE Code(c) \/ Scan(c) \/ PairSuccess(c) \/ PumpSuccess(c)
  <2>1. /\ reports' = reports /\ socket' = socket
        /\ Code(c) \/ coded' = coded
        /\ Scan(c) \/ paired' = paired
    BY <1>1 DEF Code, Scan, PairSuccess, PumpSuccess, reporting
  <2>2. Types' /\ Shape'
    BY <1>1, <2>1, <1>i, <1>u DEF Code, Scan, PairSuccess, PumpSuccess
  <2>3. Holding'
    BY <2>1, <1>i, <1>u DEF Holding
  <2>4. Keeping'
    BY <1>1, <2>1, <1>i, <1>u DEF Keeping, Code, Scan, PairSuccess, PumpSuccess
  <2> QED
    BY <2>1, <2>2, <2>3, <2>4, <1>s, <1>v DEF Inv
<1>2. CASE PumpError(c) \/ PumpSilent(c) \/ PumpPublish(c)
  <2>1. /\ pump[c] \in {"running", "expired"} /\ qr' \in {qr, qr \ {c}}
        /\ \/ qr' = qr /\ pump' = [pump EXCEPT ![c] = "ended"] /\ pump[c] = "running"
           \/ qr' = qr /\ pump' = [pump EXCEPT ![c] = "failed"]
           \/ pump' = [pump EXCEPT ![c] = "expired"]
        /\ \A d \in Clients \ {c} : socket'[d] = socket[d]
        /\ socket' \in [Clients -> {"new", "closed", "open", "up"}]
        /\ socket'[c] \in {socket[c], "closed"}
        /\ UNCHANGED <<coded, paired>>
        /\ reports' = reports \/ Publish(c, "pump", "disconnected")
    BY <1>2, <1>i DEF PumpError, PumpSilent, PumpPublish, ChannelEnds, Closed, reporting
  <2>2. Types' /\ Shape'
    BY <2>1, <1>i, <1>u, <1>v
  <2>3. Holding'
    BY <2>1, <1>i, <1>u DEF Holding
  <2>4. Keeping'
    BY <2>1, <1>i, <1>u DEF Keeping
  <2> QED
    BY <2>1, <2>2, <2>3, <2>4, <1>s, <1>v DEF Inv
<1>3. CASE Connected(c) \/ Disconnected(c) \/ LoggedOut(c)
  <2>1. /\ Open(c) /\ UNCHANGED <<coded, qr, pump>>
        /\ \A d \in Clients \ {c} : socket'[d] = socket[d] /\ (d \in paired' <=> d \in paired)
        /\ socket' \in [Clients -> {"new", "closed", "open", "up"}]
        /\ \/ socket'[c] = "closed" /\ (c \in paired' => c \in paired)
           \/ c \in paired /\ c \in paired' /\ socket'[c] \in {"open", "up"}
        /\ \E s \in {"active", "disconnected", "suspended"} : Publish(c, "handler", s)
    BY <1>3, <1>i DEF Connected, Disconnected, LoggedOut, Closed
  <2>2. Types' /\ Shape'
    BY <2>1, <1>i, <1>u, <1>v
  <2>3. Holding'
    BY <2>1, <1>i, <1>u DEF Holding
  <2>4. Keeping'
    <3>1. ASSUME NEW d \in Clients, Open(d)', d \notin contested',
                 pump'[d] \notin {"expired", "failed"}
          PROVE  Kept(d)'
      <4>1. Open(d) /\ Kept(d) /\ (d \in paired' <=> d \in paired)
        <5>1. Open(d) /\ (d \in paired' <=> d \in paired)
          BY <3>1, <2>1
        <5>2. d \notin contested /\ pump[d] \notin {"expired", "failed"}
          BY <3>1, <2>1, <1>u
        <5>3. Kept(d)
          BY <5>1, <5>2, <1>i DEF Keeping
        <5> QED
          BY <5>1, <5>3
      <4> QED
        BY <4>1, <2>1, <1>u
    <3> QED
      BY <3>1 DEF Keeping
  <2> QED
    BY <2>1, <2>2, <2>3, <2>4, <1>s, <1>v DEF Inv
<1> QED
  BY <1>1, <1>2, <1>3 DEF ClientStep

\* The process ends, whatever is under way, and restores a paired device.
LEMMA RestartStep ==
  ASSUME Inv, NEW restored \in SUBSET Clients, Restart(restored)
  PROVE  Inv'
<1>1. /\ restored \subseteq paired /\ paired' = paired /\ restoring' = restored
      /\ current' = {} /\ coded' = {} /\ reports' = {} /\ contested' = {} /\ heard' = {}
      /\ socket' = [c \in Clients |-> IF c \in restored THEN "open"
                                      ELSE IF socket[c] = "new" THEN "new" ELSE "closed"]
      /\ pump' = [c \in Clients |-> IF socket[c] = "new" THEN "none" ELSE "ended"]
      /\ pc' = [k \in Calls |-> IF pc[k] = "idle" THEN "idle" ELSE "done"]
      /\ own' = [k \in Calls |-> {}]
  BY DEF Restart
<1>2. Types' /\ Shape'
  BY <1>1 DEF Inv, Types, Shape, InHand, AtWork
<1>3. Voices' /\ Separate' /\ Holding'
  BY <1>1 DEF Voices, Separate, Holding, Held
<1>4. Keeping'
  BY <1>1 DEF Keeping, Open, Kept, InHand, AtWork
<1> QED
  BY <1>2, <1>3, <1>4 DEF Inv

\* What a report's own steps leave to the requests.
LEMMA ReportStep ==
  ASSUME Inv, NEW r \in reports, Notify(r) \/ Persist(r) \/ PersistFails(r)
  PROVE  Inv'
<1>i. Types /\ Shape /\ Voices /\ Separate /\ Holding /\ Keeping
  BY DEF Inv
<1>u. UNCHANGED <<current, restoring, socket, paired, coded, qr, pump, contested>>
  BY DEF Notify, Persist, PersistFails, clients, requests
<1>r. r \in Report /\ r.client \in Clients /\ socket[r.client] # "new"
  BY <1>i DEF Types, Shape, Report
<1> USE DEF Types, Shape, Held, Kept, Open, InHand, AtWork
<1>1. CASE Notify(r)
  <2>1. /\ UNCHANGED <<pc, own>> /\ heard' = {r.client}
        /\ reports' = (reports \ {r}) \cup {[r EXCEPT !.stage = "persist"]}
    BY <1>1 DEF Notify, requests
  <2>2. /\ [r EXCEPT !.stage = "persist"] \in Report
        /\ [r EXCEPT !.stage = "persist"].client = r.client
        /\ [r EXCEPT !.stage = "persist"].source = r.source
    BY <1>r DEF Report
  <2>n. \A q \in reports' : q \in reports \ {r} \/ q = [r EXCEPT !.stage = "persist"]
    BY <2>1
  <2>c. reports' \subseteq Report /\ \A q \in reports' : \E p \in reports : p.client = q.client
    BY <2>n, <2>2, <1>i
  <2>3. Types' /\ Shape'
    <3>1. Types'
      BY <2>1, <2>c, <1>i, <1>u
    <3>2. ASSUME NEW d \in Clients, socket'[d] = "new"
          PROVE  d \notin heard' /\ \A q \in reports' : q.client # d
      BY <3>2, <2>1, <2>c, <1>i, <1>u, <1>r
    <3> QED
      BY <3>1, <3>2, <2>1, <1>i, <1>u
  <2>4. Voices'
    <3>1. ASSUME NEW q \in reports', q.source \in Calls, NEW p \in reports', p.source = q.source
          PROVE  pc'[q.source] = "report" /\ p = q
      <4>1. CASE q \in reports \ {r} /\ p \in reports \ {r}
        BY <4>1, <3>1, <2>1, <1>i DEF Voices
      <4>2. CASE q = [r EXCEPT !.stage = "persist"] /\ p = [r EXCEPT !.stage = "persist"]
        BY <4>2, <3>1, <2>1, <2>2, <1>i DEF Voices
      <4>3. CASE (q \in reports \ {r} /\ p = [r EXCEPT !.stage = "persist"])
                 \/ (p \in reports \ {r} /\ q = [r EXCEPT !.stage = "persist"])
        <5>1. r.source = q.source /\ (p \in reports \ {r} \/ q \in reports \ {r})
          BY <4>3, <3>1, <2>2
        <5> QED
          BY <5>1, <3>1, <1>i DEF Voices
      <4> QED
        BY <4>1, <4>2, <4>3, <2>n
    <3> QED
      BY <3>1 DEF Voices
  <2>5. Separate' /\ Holding' /\ Keeping'
    BY <2>1, <1>i, <1>u DEF Separate, Holding, Keeping
  <2> QED
    BY <2>3, <2>4, <2>5 DEF Inv
<1>2. CASE Persist(r) \/ PersistFails(r)
  <2>1. /\ reports' = reports \ {r} /\ heard' = heard
        /\ IF r.source \in Calls
             THEN /\ pc' = [pc EXCEPT ![r.source] = "done"]
                  /\ own' = [own EXCEPT ![r.source] = {}] /\ pc[r.source] = "report"
             ELSE UNCHANGED <<pc, own>>
    BY <1>2, <1>i DEF Persist, PersistFails, Ends, Done, GoTo, told, Voices
  <2>2. Types' /\ Shape'
    BY <2>1, <1>i, <1>u
  <2>3. Voices'
    BY <2>1, <1>i DEF Voices
  <2>4. Separate' /\ Holding'
    BY <2>1, <1>i, <1>u DEF Separate, Holding
  <2>5. Keeping'
    BY <2>1, <1>i, <1>u DEF Keeping, Holding
  <2> QED
    BY <2>2, <2>3, <2>4, <2>5 DEF Inv
<1> QED
  BY <1>1, <1>2

LEMMA InvStep == Inv /\ [Next]_vars => Inv'
<1> SUFFICES ASSUME Inv, [Next]_vars
             PROVE  Inv'
  OBVIOUS
<1> USE DEF Inv, Types, Shape, Voices, Separate, Holding, Keeping, Held, Kept, Open, InHand, AtWork
<1>1. CASE ReadRow \/ (\E s \in copies : WriteRow(s)) \/ UNCHANGED vars
  <2>1. UNCHANGED <<current, clients, requests, reports, heard, restoring>>
    BY <1>1 DEF ReadRow, WriteRow, vars, reporting, outside, told
  <2> QED
    BY <2>1 DEF clients, requests
<1>2. CASE Install
  <2>1. /\ restoring # {} /\ current' = restoring /\ restoring' = {}
        /\ UNCHANGED <<clients, requests, reports, heard>>
    BY <1>2 DEF Install, told
  <2> QED
    BY <2>1 DEF clients, requests
<1> QED
  BY <1>1, <1>2, ReportStep, RequestStep, ClientStepKeeps, RestartStep DEF Next

-----------------------------------------------------------------------------

\* Every connected client is in the map, or held by the request or the Restore
\* at work on it, or was taken out of the map under another request's hands, or
\* its pump has given up on it: there is no other way to lose a session.
THEOREM SessionsAreHeld == Spec => []NoOrphanSession
<1>1. Inv => NoOrphanSession
  BY DEF Inv, Keeping, NoOrphanSession, Open, Kept, InHand
<1> QED
  BY <1>1, InvStart, InvStep, PTL DEF Spec

-----------------------------------------------------------------------------
(* Types                                                                   *)

One(S) == \A x, y \in S : x = y

\* A set with at most one member is finite, and what its cardinality says.
LEMMA OneIsSmall ==
  ASSUME NEW S
  PROVE  /\ One(S) => IsFiniteSet(S) /\ Cardinality(S) <= 1
         /\ IsFiniteSet(S) /\ Cardinality(S) <= 1 => One(S)
<1>1. CASE S = {}
  BY <1>1, FS_EmptySet DEF One
<1>2. CASE S # {}
  <2>1. PICK x : x \in S
    BY <1>2
  <2>2. One(S) => S = {x}
    BY <2>1 DEF One
  <2>3. IsFiniteSet({x}) /\ Cardinality({x}) = 1
    BY FS_Singleton
  <2>4. ASSUME IsFiniteSet(S), Cardinality(S) <= 1
        PROVE  One(S)
    <3>1. Cardinality(S) \in Nat /\ Cardinality(S) # 0
      BY <2>4, <1>2, FS_CardinalityType, FS_EmptySet
    <3>2. Cardinality(S) = 1
      BY <2>4, <3>1
    <3>3. \E y : S = {y}
      BY <2>4, <3>2, FS_Singleton
    <3> QED
      BY <3>3 DEF One
  <2> QED
    BY <2>2, <2>3, <2>4
<1> QED
  BY <1>1, <1>2

\* The types without the sizes, which One bounds: of the paired devices, always
\* finitely many, Restore takes at most one.
Fields ==
  /\ paired \subseteq Clients /\ coded \subseteq Clients /\ qr \subseteq coded
  /\ status \in [Clients -> Statuses]
  /\ {gateway, persisted} \cup copies \subseteq Statuses
  /\ contested \subseteq Clients /\ heard \subseteq Clients
  /\ stale \in BOOLEAN /\ raced \in BOOLEAN
  /\ events \in 0..MaxEvents

Sizes == IsFiniteSet(paired) /\ One(current) /\ One(restoring)

LEMMA FieldsInit == Init => Fields
<1>1. 0 \in 0..MaxEvents
  BY SessionAssumption
<1>2. Init => status \in [Clients -> Statuses] /\ {gateway, persisted} \cup copies \subseteq Statuses
  BY DEF Init, Statuses
<1> QED
  BY <1>1, <1>2 DEF Init, Fields

LEMMA RequestFields ==
  ASSUME Inv, Fields, NEW k \in Calls, Request(k)
  PROVE  Fields'
<1>t. own \in [Calls -> SUBSET Clients] /\ current \subseteq Clients
  BY DEF Inv, Types
<1>1. /\ UNCHANGED <<told, row, events, coded, qr>>
      /\ paired' \subseteq paired /\ contested' \subseteq contested \cup current
  BY DEF Request, BeginPairingAnswers, LogoutNobody, BeginPairing, ConnectFails, Connect,
     PublishCode, GiveUp, Disconnect, Logout, DeleteDevice, PublishLogout, clients, reporting,
     outside
<1>2. raced' \in BOOLEAN /\ status' \in [Clients -> Statuses]
  <2>1. \/ UNCHANGED <<status, raced>>
        \/ \E c \in Clients : status' = [status EXCEPT ![c] = "qr_needed"] /\ raced' = raced
        \/ \E c \in own[k], s \in {"qr_needed", "suspended"} : Publish(c, k, s)
    BY DEF Request, BeginPairingAnswers, LogoutNobody, BeginPairing, ConnectFails, Connect,
       PublishCode, GiveUp, Disconnect, Logout, DeleteDevice, PublishLogout, reporting
  <2> QED
    BY <2>1 DEF Fields, Publish, Raced, Races, Statuses
<1> QED
  BY <1>1, <1>2, <1>t DEF Fields, told, row

LEMMA ClientFields ==
  ASSUME Inv, Fields, NEW c \in Clients, ClientStep(c)
  PROVE  Fields'
<1>1. /\ UNCHANGED <<told, row, contested>>
      /\ paired' \subseteq paired \cup {c} /\ coded' \subseteq coded \cup {c}
      /\ qr' \subseteq qr \/ (qr' = qr \cup {c} /\ c \in coded') 
      /\ coded \subseteq coded'
  BY DEF ClientStep, Code, Scan, PairSuccess, PumpSuccess, PumpError, PumpSilent, ChannelEnds,
     PumpPublish, Connected, Disconnected, LoggedOut, requests, reporting, outside
<1>2. raced' \in BOOLEAN /\ status' \in [Clients -> Statuses]
  <2>1. \/ UNCHANGED <<status, raced>>
        \/ \E s \in {"active", "disconnected", "suspended"}, source \in {"handler", "pump"} :
             Publish(c, source, s)
    BY DEF ClientStep, Code, Scan, PairSuccess, PumpSuccess, PumpError, PumpSilent, ChannelEnds,
       PumpPublish, Connected, Disconnected, LoggedOut, reporting
  <2> QED
    BY <2>1 DEF Fields, Publish, Raced, Races, Statuses
<1>3. events' \in 0..MaxEvents
  <2>1. events' = events \/ Event
    BY DEF ClientStep, Code, Scan, PairSuccess, PumpSuccess, PumpError, PumpSilent, ChannelEnds,
       PumpPublish, Connected, Disconnected, LoggedOut, reporting, outside
  <2> QED
    BY <2>1, SessionAssumption DEF Event, Fields
<1> QED
  BY <1>1, <1>2, <1>3 DEF Fields, told, row

LEMMA ReportFields ==
  ASSUME Inv, Fields, NEW r \in reports, Notify(r) \/ Persist(r) \/ PersistFails(r)
  PROVE  Fields'
<1>1. r.status \in Statuses /\ r.client \in Clients
  BY DEF Inv, Types, Report
<1>2. /\ events' = events \/ Event
      /\ UNCHANGED <<clients, status, contested, copies>>
      /\ gateway' \in {gateway, r.status} /\ persisted' \in {persisted, r.status}
      /\ heard' \in {heard, {r.client}} /\ stale' \in {stale, FALSE} /\ raced' \in {raced, TRUE}
  BY DEF Notify, Persist, PersistFails, requests, told, row
<1>3. events' \in 0..MaxEvents
  BY <1>2, SessionAssumption DEF Fields, Event
<1> QED
  BY <1>1, <1>2, <1>3 DEF Fields, clients

LEMMA FieldsNext == Inv /\ Fields /\ [Next]_vars => Fields'
<1> SUFFICES ASSUME Inv, Fields, [Next]_vars
             PROVE  Fields'
  OBVIOUS
<1>1. ASSUME NEW restored \in SUBSET Clients, Restart(restored)
      PROVE  Fields'
  <2>1. events' \in 0..MaxEvents
    BY <1>1, SessionAssumption DEF Restart, Event, Fields
  <2> QED
    BY <1>1, <2>1 DEF Restart, Fields, Statuses
<1>2. CASE Install \/ UNCHANGED vars
  BY <1>2 DEF Install, Fields, clients, requests, told, row, vars, reporting, outside
<1>3. CASE ReadRow \/ \E s \in copies : WriteRow(s)
  <2>1. /\ UNCHANGED <<clients, status, contested, told, raced>>
        /\ events' = events \/ Event
        /\ copies' \subseteq copies \cup {persisted} /\ persisted' \in {persisted} \cup copies
        /\ stale' \in BOOLEAN
    BY <1>3 DEF ReadRow, WriteRow, requests, Fields
  <2> QED
    BY <2>1, SessionAssumption DEF Fields, clients, told, Event
<1> QED
  BY <1>1, <1>2, <1>3, RequestFields, ClientFields, ReportFields DEF Next

LEMMA SizesNext == Inv /\ Fields /\ Sizes /\ [Next]_vars => Sizes'
<1> SUFFICES ASSUME Inv, Fields, Sizes, [Next]_vars
             PROVE  Sizes'
  OBVIOUS
<1>1. IsFiniteSet(paired')
  <2>1. paired' \subseteq paired \/ \E c \in Clients : paired' = paired \cup {c}
    BY DEF Next, Request, ClientStep, BeginPairingAnswers, LogoutNobody, BeginPairing,
       ConnectFails, Connect, PublishCode, GiveUp, Disconnect, Logout, DeleteDevice,
       PublishLogout, Code, Scan, PairSuccess, PumpSuccess, PumpError, PumpSilent, ChannelEnds, PumpPublish,
       Connected, Disconnected, LoggedOut, Notify, Persist, PersistFails, ReadRow, WriteRow, Restart, Install,
       vars, clients
  <2> QED
    BY <2>1, FS_Subset, FS_AddElement DEF Sizes
<1>2. One(current') /\ One(restoring')
  <2>1. ASSUME NEW restored \in SUBSET Clients, Restart(restored)
        PROVE  One(current') /\ One(restoring')
    <3>1. /\ restored \subseteq paired /\ Cardinality(restored) <= 1
          /\ restoring' = restored /\ current' = {}
      BY <2>1 DEF Restart
    <3>2. IsFiniteSet(restored)
      BY <3>1, FS_Subset DEF Sizes
    <3> QED
      BY <3>1, <3>2, OneIsSmall DEF One
  <2>2. CASE Install
    BY <2>2 DEF Install, Sizes, One
  <2>3. CASE ~Install /\ ~\E restored \in SUBSET Clients : Restart(restored)
    <3>1. /\ restoring' = restoring
          /\ current' \subseteq current \/ \E c \in Clients : current' = {c}
      BY <2>3 DEF Next, Request, ClientStep, BeginPairingAnswers, LogoutNobody, BeginPairing,
         ConnectFails, Connect, PublishCode, GiveUp, Disconnect, Logout, DeleteDevice,
         PublishLogout, Code, Scan, PairSuccess, PumpSuccess, PumpError, PumpSilent, ChannelEnds, PumpPublish,
         Connected, Disconnected, LoggedOut, Notify, Persist, PersistFails, ReadRow, WriteRow,
         vars, reporting, outside
    <3> QED
      BY <3>1 DEF Sizes, One
  <2> QED
    BY <2>1, <2>2, <2>3
<1> QED
  BY <1>1, <1>2 DEF Sizes

\* Every variable keeps its type, and the map has at most one client.
THEOREM TypeCorrect == Spec => []TypeOK
<1>1. Init => Inv /\ Fields /\ Sizes
  BY InvStart, FieldsInit, FS_EmptySet DEF Init, Sizes, One
<1>2. Inv /\ Fields /\ Sizes /\ [Next]_vars => (Inv /\ Fields /\ Sizes)'
  BY InvStep, FieldsNext, SizesNext
<1>3. Inv /\ Fields /\ Sizes => TypeOK
  BY OneIsSmall DEF Inv, Types, Fields, Sizes, TypeOK
<1> QED
  BY <1>1, <1>2, <1>3, PTL DEF Spec

-----------------------------------------------------------------------------
(* What the statuses say                                                   *)

\* Of a client in the map or being restored, s says whether it is logged in.
Tells(c, s) == c \in InHand => (s = "active" <=> socket[c] = "up")

\* Without a race one publication is under way at a time, its client has its
\* status, and what it says is true; the gateway and the binding take it over.
\* What is due is not of a client that is logged in.
Truth ==
  ~raced =>
    /\ \A q, r \in reports : q = r
    /\ \A r \in reports :
         /\ status[r.client] = r.status /\ Tells(r.client, r.status)
         /\ r.stage = "persist" => gateway = r.status /\ heard = {r.client}
    /\ reports = {} /\ gateway # "unknown" => gateway = persisted \/ stale
    /\ reports = {} => \A c \in heard :
         c \in InHand => status[c] = gateway /\ Tells(c, gateway)
    /\ \A w \in Due : socket[w[1]] # "up"

Sound == Inv /\ Fields /\ Truth

\* A publication that does not race finds nothing under way, and nothing else
\* due; one that was not due puts an earlier race right.
LEMMA PublishAlone ==
  ASSUME NEW c \in Clients, NEW source, NEW s, Publish(c, source, s), ~raced'
  PROVE  /\ reports = {} /\ reports' = {Begun(c, source, s)}
         /\ Due \subseteq {<<c, source>>} /\ (<<c, source>> \in Due => ~raced)
         /\ status' = [status EXCEPT ![c] = s]
BY DEF Publish, Raced, Races

\* After a publication that says the truth, statuses do.
LEMMA PublishTells ==
  ASSUME Sound, NEW c \in Clients, NEW source, NEW s \in Statuses, Publish(c, source, s), 
         ~raced', Tells(c, s)', Due' \subseteq Due, \A w \in Due' : socket'[w[1]] # "up"
  PROVE  Truth'
<1>1. /\ reports' = {Begun(c, source, s)} /\ status' = [status EXCEPT ![c] = s]
      /\ Begun(c, source, s).client = c /\ Begun(c, source, s).status = s
      /\ Begun(c, source, s).stage = "notify"
  BY PublishAlone DEF Begun
<1>2. status'[c] = s
  BY <1>1 DEF Sound, Fields
<1> QED
  BY <1>1, <1>2 DEF Truth

\* A step that tells nobody anything leaves the truth alone, if it logs no
\* client in or out that is in the map or due.
LEMMA TruthLeft ==
  ASSUME Sound, UNCHANGED <<reporting>>,
         \A c \in InHand' : c \in heard \/ (\E r \in reports : r.client = c) =>
           /\ c \in InHand /\ status'[c] = status[c]
           /\ socket'[c] = "up" <=> socket[c] = "up",
         \A r \in reports : status'[r.client] = status[r.client],
         \A w \in Due' : socket'[w[1]] # "up"
  PROVE  Truth'
BY DEF Sound, Truth, Tells, reporting, outside, told, row

LEMMA TruthRequest ==
  ASSUME Sound, NEW k \in Calls, Request(k)
  PROVE  Truth'
<1> SUFFICES ASSUME ~raced'
             PROVE  Truth'
  BY DEF Truth
<1>i. Types /\ Shape /\ Holding /\ Fields /\ Truth
  BY DEF Sound, Inv
<1>h. \A r \in reports : r.client \in Clients /\ socket[r.client] # "new"
  BY <1>i DEF Types, Shape, Report
<1>c. \A c \in heard : socket[c] # "new"
  BY <1>i DEF Shape, Fields
<1>d. ~raced => \A w \in Due : socket[w[1]] # "up"
  BY <1>i DEF Truth
<1> USE DEF GoTo, Done, Starts, InHand
<1>1. CASE BeginPairingAnswers(k) \/ LogoutNobody(k) \/ ConnectFails(k) \/ GiveUp(k) \/ Logout(k)
  <2>1. /\ UNCHANGED <<clients, status, reporting>> /\ current' \subseteq current
        /\ \A l \in Calls : pc'[l] = "wait" => pc[l] = "wait" /\ own'[l] = own[l]
    BY <1>1, <1>i DEF BeginPairingAnswers, LogoutNobody, ConnectFails, GiveUp, Logout, Types
  <2>2. Due' \subseteq Due
    BY <2>1 DEF Due, clients
  <2> QED
    BY <2>1, <2>2, <1>d, TruthLeft DEF clients, reporting, outside
<1>2. ASSUME NEW c \in Clients, BeginPairing(k, c)
      PROVE  Truth'
  <2>1. /\ socket[c] = "new" /\ current' = {c} /\ UNCHANGED <<coded, pump, reporting>>
        /\ socket' = [socket EXCEPT ![c] = "closed"] /\ status' = [status EXCEPT ![c] = "qr_needed"]
        /\ \A l \in Calls : pc'[l] = "wait" => pc[l] = "wait" /\ own'[l] = own[l]
    BY <1>2, <1>i DEF BeginPairing, Types
  <2>2. Due' \subseteq Due
    BY <2>1 DEF Due
  <2>3. restoring = {}
    BY <1>2 DEF BeginPairing
  <2>4. \A w \in Due' : socket'[w[1]] # "up"
    BY <2>1, <2>2, <1>d, <1>i DEF reporting, Types
  <2> QED
    BY <2>1, <2>3, <2>4, <1>h, <1>c, <1>i, TruthLeft DEF Fields, Types, reporting, outside
<1>3. CASE Connect(k)
  <2>1. /\ pc[k] = "connect" /\ pc' = [pc EXCEPT ![k] = "wait"]
        /\ socket' = [c \in Clients |-> IF c \in own[k] THEN "open" ELSE socket[c]]
        /\ pump' = [c \in Clients |-> IF c \in own[k] THEN "running" ELSE pump[c]]
        /\ UNCHANGED <<current, coded, own, status, reporting>>
    BY <1>3 DEF Connect
  <2>2. \A c \in own[k] : socket[c] = "closed" /\ c \notin coded
    BY <2>1, <1>i DEF Shape
  <2>3. Due' \subseteq Due
    BY <2>1, <2>2, <1>i DEF Due, Types
  <2>4. \A c \in Clients : socket'[c] = "up" <=> socket[c] = "up"
    BY <2>1, <2>2
  <2>5. \A w \in Due : w[1] \in Clients
    BY <1>i DEF Due, Fields
  <2> QED
    BY <2>1, <2>3, <2>4, <2>5, <1>d, <1>i, TruthLeft DEF Types, reporting, outside
<1>4. CASE Disconnect(k) \/ DeleteDevice(k)
  <2>1. /\ pc[k] \in {"abort", "logout"}
        /\ socket' = [c \in Clients |-> IF c \in own[k] THEN "closed" ELSE socket[c]]
        /\ UNCHANGED <<current, coded, pump, status, reporting>>
        /\ \A l \in Calls : pc'[l] = "wait" => pc[l] = "wait" /\ own'[l] = own[l]
    BY <1>4, <1>i DEF Disconnect, DeleteDevice, Closed, Types
  <2>2. \A c \in own[k] : c \notin current
    BY <2>1, <1>i DEF Holding, Held
  <2>3. restoring = {}
    BY <2>1, <1>i DEF Shape
  <2>4. Due' \subseteq Due /\ \A w \in Due : w[1] \in Clients
    BY <2>1, <1>i DEF Due, Fields
  <2> QED
    BY <2>1, <2>2, <2>3, <2>4, <1>d, <1>i, TruthLeft DEF Types, reporting, outside
<1>5. CASE PublishCode(k)
  <2>1. PICK c \in own[k] : Publish(c, k, "qr_needed")
    BY <1>5 DEF PublishCode
  <2>2. /\ pc[k] = "wait" /\ own[k] \subseteq coded /\ pc' = [pc EXCEPT ![k] = "report"]
        /\ UNCHANGED <<current, restoring, clients, own>>
    BY <1>5 DEF PublishCode, outside
  <2>3. c \in Clients /\ <<c, k>> \in Due /\ Due' \subseteq Due
    BY <2>1, <2>2, <1>i DEF Due, Types, clients
  <2>4. ~raced
    BY <2>1, <2>3, PublishAlone
  <2>5. Tells(c, "qr_needed")'
    BY <2>2, <2>3, <2>4, <1>d DEF Tells, clients
  <2>6. \A w \in Due' : socket'[w[1]] # "up"
    BY <2>2, <2>3, <2>4, <1>d DEF clients
  <2> QED
    BY <2>1, <2>3, <2>5, <2>6, PublishTells DEF Statuses
<1>6. CASE PublishLogout(k)
  <2>1. PICK c \in own[k] : Publish(c, k, "suspended")
    BY <1>6 DEF PublishLogout
  <2>2. /\ pc[k] = "gone" /\ pc' = [pc EXCEPT ![k] = "report"]
        /\ UNCHANGED <<current, restoring, clients, own>>
    BY <1>6 DEF PublishLogout, outside
  <2>3. c \in Clients /\ Due' \subseteq Due
    BY <2>1, <2>2, <1>i DEF Due, Types, clients
  <2>4. c \notin InHand'
    BY <2>1, <2>2, <1>i DEF Shape, Holding, Held
  <2>5. \A w \in Due' : socket'[w[1]] # "up"
    <3>1. Due \subseteq {<<c, k>>} /\ <<c, k>> \notin Due
      BY <2>1, <2>2, <2>3, PublishAlone, SessionAssumption DEF Due
    <3> QED
      BY <3>1, <2>3
  <2> QED
    BY <2>1, <2>3, <2>4, <2>5, PublishTells DEF Statuses, Tells
<1> QED
  BY <1>1, <1>2, <1>3, <1>4, <1>5, <1>6 DEF Request

LEMMA TruthClient ==
  ASSUME Sound, NEW c \in Clients, ClientStep(c)
  PROVE  Truth'
<1> SUFFICES ASSUME ~raced'
             PROVE  Truth'
  BY DEF Truth
<1>i. Types /\ Shape /\ Fields /\ Truth
  BY DEF Sound, Inv
<1>u. UNCHANGED <<current, restoring, pc, own>> /\ InHand' = InHand
  BY DEF ClientStep, Code, Scan, PairSuccess, PumpSuccess, PumpError, PumpSilent, ChannelEnds,
     PumpPublish, Connected, Disconnected, LoggedOut, requests, reporting, outside, told, InHand
<1>d. ~raced => \A w \in Due : socket[w[1]] # "up"
  BY <1>i DEF Truth
<1>w. \A w \in Due : w[1] \in Clients
  BY <1>i DEF Due, Fields
<1>1. CASE Code(c) \/ Scan(c) \/ PairSuccess(c) \/ PumpSuccess(c) \/ PumpError(c) \/ PumpSilent(c)
  <2>1. /\ UNCHANGED <<status, reporting>>
        /\ \A d \in Clients : socket'[d] = "up" <=> socket[d] = "up"
    BY <1>1, <1>i DEF Code, Scan, PairSuccess, PumpSuccess, PumpError, PumpSilent, ChannelEnds,
                      Closed, Types, Shape
  <2>2. \A w \in Due' : w \in Due \/ (w[1] = c /\ pump[c] = "running")
    BY <1>1, <1>i, <1>u DEF Code, Scan, PairSuccess, PumpSuccess, PumpError, PumpSilent,
                      ChannelEnds, Types, Due
  <2>3. pump[c] = "running" => socket[c] # "up"
    BY <1>i DEF Shape
  <2>4. \A w \in Due' : socket'[w[1]] # "up"
    BY <2>1, <2>2, <2>3, <1>d, <1>w DEF reporting
  <2>5. InHand' \subseteq Clients
    BY <1>u, <1>i DEF InHand, Types
  <2> QED
    BY <2>1, <2>4, <2>5, <1>u, TruthLeft
<1>2. CASE PumpPublish(c)
  <2>1. /\ pump[c] = "expired" /\ pump' = [pump EXCEPT ![c] = "failed"]
        /\ Publish(c, "pump", "disconnected") /\ UNCHANGED <<socket, coded>>
    BY <1>2 DEF PumpPublish
  <2>2. <<c, "pump">> \in Due /\ Due' \subseteq Due
    BY <2>1, <1>i, <1>u DEF Due, Types
  <2>3. ~raced
    BY <2>1, <2>2, PublishAlone
  <2> QED
    BY <2>1, <2>2, <2>3, <1>d, PublishTells DEF Statuses, Tells
<1>3. CASE Connected(c) \/ Disconnected(c) \/ LoggedOut(c)
  <2>1. PICK s \in {"active", "disconnected", "suspended"} :
          Publish(c, "handler", s) /\ (s = "active" <=> socket'[c] = "up")
    BY <1>3, <1>i DEF Connected, Disconnected, LoggedOut, Closed, Types
  <2>2. UNCHANGED <<coded, pump>>
    BY <1>3 DEF Connected, Disconnected, LoggedOut
  <2>3. Due' = Due
    BY <2>2, <1>u DEF Due
  <2>4. Due = {}
    <3>1. <<c, "handler">> \notin Due
      BY SessionAssumption DEF Due
    <3> QED
      BY <2>1, <3>1, PublishAlone
  <2> QED
    BY <2>1, <2>3, <2>4, PublishTells DEF Statuses, Tells
<1> QED
  BY <1>1, <1>2, <1>3 DEF ClientStep

LEMMA TruthReport ==
  ASSUME Sound, NEW r \in reports, Notify(r) \/ Persist(r) \/ PersistFails(r)
  PROVE  Truth'
<1> SUFFICES ASSUME ~raced'
             PROVE  Truth'
  BY DEF Truth
<1>1. UNCHANGED <<current, restoring, clients, status, raced>> /\ ~raced /\ ~PersistFails(r)
  BY DEF Notify, Persist, PersistFails
<1>2. /\ reports = {r} /\ status[r.client] = r.status /\ Tells(r.client, r.status)
      /\ r.stage = "persist" => gateway = r.status /\ heard = {r.client}
  BY <1>1 DEF Sound, Truth
<1>3. \A s, d : Tells(d, s)' <=> Tells(d, s)
  BY <1>1 DEF Tells, InHand, clients
<1>4. \A w \in Due' : socket'[w[1]] # "up"
  <2>1. \A k \in Calls : pc'[k] = "wait" => pc[k] = "wait" /\ own'[k] = own[k]
    BY DEF Sound, Inv, Types, Notify, Persist, PersistFails, Ends, Done, GoTo, requests
  <2>2. Due' \subseteq Due
    BY <2>1, <1>1 DEF Due, clients
  <2> QED
    BY <2>2, <1>1 DEF Sound, Truth, clients
<1>5. CASE Notify(r)
  <2>1. /\ reports' = {[r EXCEPT !.stage = "persist"]} /\ gateway' = r.status
        /\ heard' = {r.client}
    BY <1>5, <1>2 DEF Notify
  <2>2. /\ [r EXCEPT !.stage = "persist"].client = r.client
        /\ [r EXCEPT !.stage = "persist"].status = r.status
    BY DEF Sound, Inv, Types, Report
  <2> QED
    BY <2>1, <2>2, <1>1, <1>2, <1>3, <1>4 DEF Truth
<1>6. CASE Persist(r)
  <2>1. /\ reports' = {} /\ persisted' = gateway /\ UNCHANGED told
        /\ gateway = r.status /\ heard = {r.client}
    BY <1>6, <1>2 DEF Persist, Ends
  <2> QED
    BY <2>1, <1>1, <1>2, <1>3, <1>4 DEF Truth, told
<1> QED
  BY <1>1, <1>5, <1>6

LEMMA TruthNext == Sound /\ [Next]_vars => Truth'
<1> SUFFICES ASSUME Sound, [Next]_vars
             PROVE  Truth'
  OBVIOUS
<1>1. ASSUME NEW restored \in SUBSET Clients, Restart(restored)
      PROVE  Truth'
  <2>1. /\ reports' = {} /\ gateway' = "unknown" /\ heard' = {}
        /\ \A k \in Calls : pc'[k] # "wait"
        /\ \A c \in Clients : pump'[c] # "expired"
    BY <1>1 DEF Restart
  <2> QED
    BY <2>1 DEF Truth, Due
<1>2. CASE Install \/ UNCHANGED vars
  <2>1. /\ InHand' = InHand
        /\ UNCHANGED <<clients, requests, status, reports, gateway, heard, persisted, stale, raced>>
    BY <1>2 DEF Install, Sound, Inv, Shape, InHand, told, row, vars, reporting, outside
  <2> QED
    BY <2>1 DEF Sound, Truth, Tells, Due, clients, requests
<1>3. CASE ReadRow \/ \E s \in copies : WriteRow(s)
  <2>1. /\ UNCHANGED <<current, restoring, clients, requests, status, reports, gateway, heard, raced>>
        /\ stale' = TRUE \/ UNCHANGED <<persisted, stale>>
    BY <1>3 DEF ReadRow, WriteRow, told, Sound, Fields
  <2> QED
    BY <2>1 DEF Sound, Truth, Tells, InHand, Due, clients, requests
<1> QED
  BY <1>1, <1>2, <1>3, TruthRequest, TruthClient, TruthReport DEF Next

\* When no publication is under way and the last one did not overlap another,
\* the binding has the gateway's status or an older one written back, and the
\* client it is about, if it is in the map, has it and is logged in exactly if
\* it says active.
THEOREM StatusIsTrue == Spec => []StatusesAgree
<1>1. Init => Sound
  <2>1. Init => Truth
    BY DEF Init, Truth, Due
  <2> QED
    BY <2>1, InvStart, FieldsInit DEF Sound
<1>2. Sound /\ [Next]_vars => Sound'
  BY InvStep, FieldsNext, TruthNext DEF Sound
<1>3. Sound => StatusesAgree
  BY DEF Sound, Truth, Tells, InHand, StatusesAgree
<1> QED
  BY <1>1, <1>2, <1>3, PTL DEF Spec
===============================================================================
