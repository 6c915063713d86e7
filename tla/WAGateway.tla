----------------------------- MODULE WAGateway -----------------------------
(***************************************************************************)
(* The WhatsApp gateway, seen from one tenant (tenants share nothing): the *)
(* session that the map holds, the sockets that were made for it, the      *)
(* credentials on disk, the reconnect timers and the requests that connect *)
(* and send.  The server of WhatsApp and the library's socket are the      *)
(* environment: they show a code to scan, open, and close.                 *)
(***************************************************************************)
EXTENDS Naturals, Sequences, FiniteSets

CONSTANTS
    Connects, Sends,    \* requests that connect and that send, each made at most once
    Messages,           \* request that sends -> the number of its messages: one, or a bulk
    MaxCloses           \* bound: sockets that close

ASSUME GatewayAssumption == MaxCloses \in Nat /\ Messages \in [Sends -> Nat \ {0}]

VARIABLES
    creds,      \* the credentials on disk are of a device that is registered
    current,    \* the session in the map: the number of its socket, 0 for none
    sockets,    \* the sockets made, in order, each with its session
    creating,   \* creations under way: for a request or a session's timer, with the credentials read
    requests,   \* request -> where it is
    closes      \* sockets closed so far

gatewayVars == <<creds, current, sockets, creating, requests, closes>>

Requests == Connects \cup Sends
Timer == "timer"
Statuses == {"connected", "connecting", "needs_qr", "disconnected"}
NewRequest == [pc |-> "idle", on |-> 0, left |-> 0, status |-> "none"]

GatewayInit ==
    /\ creds \in BOOLEAN /\ current = 0 /\ sockets = <<>> /\ creating = {} /\ closes = 0
    /\ requests = [r \in Requests |-> NewRequest]

GatewayTypeOK ==
    /\ creds \in BOOLEAN /\ current \in 0..Len(sockets) /\ closes \in 0..MaxCloses
    /\ \A i \in DOMAIN sockets :
          sockets[i] \in [phase : {"dialing", "open", "dead"}, registered : BOOLEAN, status : Statuses,
                          qr : BOOLEAN, armed : BOOLEAN, timers : Nat]
    /\ \A r \in Requests : requests[r].on \in 0..Len(sockets) /\ requests[r].left \in Nat

\* What the gateway says of the tenant: a code that is held comes first.
Status == IF current = 0 THEN "disconnected"
          ELSE IF sockets[current].qr THEN "needs_qr" ELSE sockets[current].status

-----------------------------------------------------------------------------
\* A creation reads the credentials, and ends with a socket and a session in the map, or
\* fails and leaves the map alone.
Creation(by, of) == [by |-> by, of |-> of, registered |-> creds]
NewSocket(c) ==
    [phase |-> "dialing", registered |-> c.registered, status |-> "connecting", qr |-> FALSE,
     armed |-> FALSE, timers |-> 0]

Ended(r, pc) == requests' = [requests EXCEPT ![r].pc = pc]

\* Where a request goes once there is a session.  Sending needs it connected.
Continues(r, n, status, qr) ==
    requests' = [requests EXCEPT ![r] =
        CASE r \in Connects /\ (qr \/ status = "connected") -> [@ EXCEPT !.pc = "done"]
          [] r \in Connects /\ ~qr /\ status # "connected" -> [@ EXCEPT !.pc = "wait", !.on = n]
          [] r \notin Connects /\ status # "connected" -> [@ EXCEPT !.pc = "refused"]
          [] r \notin Connects /\ status = "connected" -> [@ EXCEPT !.pc = "sending", !.on = n, !.left = Messages[r]]]

\* A request that finds a session goes on with it, one that finds none creates one, and
\* nothing tells a second request that a creation is under way.
EnsureSession(r) ==
    /\ requests[r].pc = "idle"
    /\ IF current # 0
       THEN Continues(r, current, Status, sockets[current].qr) /\ UNCHANGED creating
       ELSE Ended(r, "creating") /\ creating' = creating \cup {Creation(r, 0)}
    /\ UNCHANGED <<creds, current, sockets, closes>>

\* Mutant: a timer is set although one is.
ArmedAgain(socks, n) ==
    IF n = 0 THEN socks ELSE [socks EXCEPT ![n].armed = TRUE, ![n].timers = @ + 1]
Armed(socks, n) ==
    IF n = 0 \/ socks[n].armed THEN socks ELSE [socks EXCEPT ![n].armed = TRUE, ![n].timers = @ + 1]

CreateSession(c) ==
    /\ c \in creating /\ creating' = creating \ {c}
    /\ sockets' = Append(sockets, NewSocket(c)) /\ current' = Len(sockets')
    /\ IF c.by = Timer THEN UNCHANGED requests
       ELSE IF requests[c.by].pc = "creating" THEN Continues(c.by, current', "connecting", FALSE)
       ELSE requests' = [requests EXCEPT ![c.by].pc = "rewait", ![c.by].on = current']
    /\ UNCHANGED <<creds, closes>>

\* The timer's handler tries again through the session in the map, which it has removed.
CreateFails(c) ==
    /\ c \in creating /\ creating' = creating \ {c}
    /\ sockets' = (IF c.by = Timer THEN Armed(sockets, current) ELSE sockets)
    /\ IF c.by = Timer THEN UNCHANGED requests ELSE Ended(c.by, "failed")
    /\ UNCHANGED <<creds, current, closes>>

-----------------------------------------------------------------------------
\* The connection's events.  A code wakes the requests that wait for one.
QrShown(n) ==
    /\ sockets[n].phase = "dialing" /\ ~sockets[n].registered
    /\ sockets' = [sockets EXCEPT ![n].qr = TRUE, ![n].status = "needs_qr"]
    /\ requests' = [r \in Requests |->
          IF requests[r].pc \in {"wait", "rewait"} /\ requests[r].on = n THEN [requests[r] EXCEPT !.pc = "done"]
          ELSE requests[r]]
    /\ UNCHANGED <<creds, current, creating, closes>>

\* The code is scanned: the new credentials are saved, whichever socket they come from.
Scanned(n) ==
    /\ sockets[n].phase = "dialing" /\ sockets[n].qr /\ ~sockets[n].registered
    /\ sockets' = [sockets EXCEPT ![n].registered = TRUE] /\ creds' = TRUE
    /\ UNCHANGED <<current, creating, requests, closes>>

Opened(n) ==
    /\ sockets[n].phase = "dialing" /\ sockets[n].registered
    /\ sockets' = [sockets EXCEPT ![n].phase = "open", ![n].status = "connected", ![n].qr = FALSE]
    /\ UNCHANGED <<creds, current, creating, requests, closes>>

\* Logged out, the credentials go; otherwise the session in the map is set to reconnect,
\* and it need not be the one of this socket.
Closed(n, loggedOut) ==
    /\ sockets[n].phase # "dead" /\ closes < MaxCloses /\ closes' = closes + 1
    /\ LET dead == [sockets EXCEPT ![n].phase = "dead", ![n].qr = @ /\ ~loggedOut,
                       ![n].status = IF loggedOut \/ sockets[n].qr THEN "needs_qr" ELSE "disconnected"]
       IN sockets' = IF loggedOut THEN dead ELSE Armed(dead, current)
    /\ creds' = (creds /\ ~loggedOut)
    /\ UNCHANGED <<current, creating, requests>>

\* The timer drops whatever session the map holds.
TimerFires(n) ==
    /\ sockets[n].timers > 0 /\ sockets' = [sockets EXCEPT ![n].timers = @ - 1, ![n].armed = FALSE]
    /\ current' = 0 /\ creating' = creating \cup {Creation(Timer, n)}
    /\ UNCHANGED <<creds, requests, closes>>

-----------------------------------------------------------------------------
\* A wait for a code ends after ten seconds.  Mutant: only once there is a code.
WaitEndsWithCode(r) == requests[r].pc \in {"wait", "rewait"} /\ sockets[requests[r].on].qr
WaitEnds(r) == requests[r].pc \in {"wait", "rewait"}

\* Ten seconds without a code: the session is reset, once.  Whether it is connected was
\* read before the wait.
ResetSession(r) ==
    /\ WaitEnds(r) /\ requests[r].pc = "wait" /\ ~sockets[requests[r].on].qr
    /\ sockets' = (IF current # 0 THEN [sockets EXCEPT ![current].timers = 0] ELSE sockets)
    /\ current' = 0 /\ creds' = FALSE /\ Ended(r, "recreating")
    /\ creating' = creating \cup {[by |-> r, of |-> 0, registered |-> FALSE]}
    /\ UNCHANGED closes

WaitIsOver(r) ==
    /\ WaitEnds(r) /\ (requests[r].pc = "rewait" \/ sockets[requests[r].on].qr) /\ Ended(r, "done")
    /\ UNCHANGED <<creds, current, sockets, creating, closes>>

\* Messages go out one after the other, a pause between them, on the socket that was there
\* at the beginning; each is answered on its own.
SendMessage(r) ==
    /\ requests[r].pc = "sending"
    /\ requests' = [requests EXCEPT ![r].left = @ - 1, ![r].pc = IF requests[r].left = 1 THEN "done" ELSE @]
    /\ UNCHANGED <<creds, current, sockets, creating, closes>>

-----------------------------------------------------------------------------
CreationEnds == \E c \in creating : CreateSession(c) \/ CreateFails(c)
RequestEnds(r) == ResetSession(r) \/ WaitIsOver(r) \/ SendMessage(r)

GatewayNext ==
    \/ \E r \in Requests : EnsureSession(r) \/ RequestEnds(r)
    \/ CreationEnds
    \/ \E n \in DOMAIN sockets :
          QrShown(n) \/ Scanned(n) \/ Opened(n) \/ TimerFires(n) \/ \E out \in BOOLEAN : Closed(n, out)

\* Timers run out and what is awaited settles; nobody has to scan a code, and the server
\* has to open or close nothing.
GatewayFairness ==
    /\ WF_gatewayVars(CreationEnds)
    /\ \A r \in Requests : WF_gatewayVars(RequestEnds(r))

GatewaySpec == GatewayInit /\ [][GatewayNext]_gatewayVars /\ GatewayFairness

-----------------------------------------------------------------------------
\* A session has at most one timer, though sockets that it has replaced close too and each
\* of them sets the timer of the session in the map.
OneTimerPerSession == \A n \in DOMAIN sockets : sockets[n].timers <= 1

\* A request that has begun is answered, with a code or without one, through resets,
\* reconnections and creations that fail.
RequestsAreAnswered ==
    \A r \in Requests : requests[r].pc # "idle" ~> requests[r].pc \in {"done", "refused", "failed"}

\* server.ts:43 "If we still don't have a QR and we're not connected, the stored creds may
\* be broken": the reset is made on the status of before the wait, so a session that has
\* connected meanwhile, from good credentials, loses them.
ResetOnlyUnconnected ==
    [][\A r \in Requests : requests[r].pc = "wait" /\ requests'[r].pc = "recreating" => Status # "connected"]_gatewayVars

\* sessionManager.ts:149 "Keep trying": fails, a reconnection that fails is the last one.
KeepsTrying ==
    [][\A c \in creating : c.by = Timer /\ c \notin creating' /\ Len(sockets') = Len(sockets)
          => \E n \in DOMAIN sockets' : sockets'[n].timers > 0]_gatewayVars

\* Fails: two requests create a session each, a reset leaves the old socket open, and a
\* timer drops a session that is connected.
OneSocketLives == Cardinality({n \in DOMAIN sockets : sockets[n].phase # "dead"}) <= 1

\* Fails: a bulk request goes on with a socket that has been replaced.
SendsOnCurrent == \A r \in Requests : requests[r].pc = "sending" => requests[r].on = current
=============================================================================
