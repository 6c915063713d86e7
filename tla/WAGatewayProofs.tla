---------------------------- MODULE WAGatewayProofs ----------------------------
(***************************************************************************)
(* Theorems about WAGateway, for any number of requests, messages and      *)
(* closes.  Sockets are only appended, and every step changes at most one  *)
(* of them: TimerOK is kept one session at a time (OneSocket), and the     *)
(* requests one request at a time (OneRequest).                            *)
(***************************************************************************)
EXTENDS WAGateway, SequenceTheorems, TLAPS

\* A session with its socket: GatewayTypeOK's set of records, named.
Socket == [phase : {"dialing", "open", "dead"}, registered : BOOLEAN, status : Statuses,
           qr : BOOLEAN, armed : BOOLEAN, timers : Nat]

\* A session that has a timer is armed, so that no second one is set.
TimerOK(s) == s \in Socket /\ s.timers <= 1 /\ (s.timers = 1 => s.armed)

\* What holds of a request while len sockets have been made: it is on one of them, and it
\* sends only while it has a message left.
RequestOK(q, len) == q.on \in 0..len /\ q.left \in Nat /\ (q.pc = "sending" => q.left # 0)
\* The places a request can be at.
Places == {"idle", "creating", "wait", "rewait", "recreating", "sending", "done", "refused", "failed"}
\* A request: where it is, on which socket, and how many messages it has left.
Request == [pc : Places, on : Nat, left : Nat, status : {"none"}]

\* The sockets made so far, each with a session in order.
SocketsOK == sockets \in Seq(Socket) /\ \A n \in 1..Len(sockets) : TimerOK(sockets[n])

\* The inductive invariant.  That a session has at most one timer is kept by a close only if
\* a session whose timer is set is armed, and by the sequence only if its elements are typed.
IInv ==
    /\ creds \in BOOLEAN /\ current \in 0..Len(sockets) /\ closes \in 0..MaxCloses
    /\ SocketsOK
    /\ requests \in [Requests -> Request]
    /\ \A r \in Requests : RequestOK(requests[r], Len(sockets))
    /\ \A c \in creating : c.registered \in BOOLEAN /\ c.by \in Requests \cup {Timer}

-----------------------------------------------------------------------------
\* One session changes and keeps its timers in order.
LEMMA OneSocket ==
    ASSUME NEW socks \in Seq(Socket), NEW n \in 1..Len(socks), NEW s,
           TimerOK(s), \A i \in 1..Len(socks) : TimerOK(socks[i])
    PROVE  LET t == [socks EXCEPT ![n] = s] IN
           t \in Seq(Socket) /\ Len(t) = Len(socks) /\ \A i \in 1..Len(t) : TimerOK(t[i])
<1> DEFINE t == [socks EXCEPT ![n] = s]
<1>1. s \in Socket
  BY DEF TimerOK
<1>2. t \in Seq(Socket) /\ Len(t) = Len(socks) /\ \A i \in 1..Len(socks) : t[i] = IF i = n THEN s ELSE socks[i]
  BY <1>1, ExceptSeq
<1> HIDE DEF t
<1>3. \A i \in 1..Len(t) : TimerOK(t[i])
  BY <1>2
<1> QED BY <1>2, <1>3 DEF t

\* Armed sets a timer on a session that has none, so that one is all it has.
LEMMA ArmedOK ==
    ASSUME NEW socks \in Seq(Socket), \A i \in 1..Len(socks) : TimerOK(socks[i]), NEW n \in 0..Len(socks)
    PROVE  Armed(socks, n) \in Seq(Socket) /\ Len(Armed(socks, n)) = Len(socks)
           /\ \A i \in 1..Len(socks) : TimerOK(Armed(socks, n)[i])
<1>1. CASE n = 0 \/ socks[n].armed
  BY <1>1 DEF Armed
<1>2. CASE ~(n = 0 \/ socks[n].armed)
  <2> DEFINE s == [socks[n] EXCEPT !.armed = TRUE, !.timers = 1]
  <2>1. n \in 1..Len(socks) /\ TimerOK(socks[n])
    BY <1>2
  <2>2. socks[n].timers = 0
    BY <1>2, <2>1 DEF TimerOK, Socket
  <2>3. Armed(socks, n) = [socks EXCEPT ![n] = s]
    BY <1>2, <2>1, <2>2 DEF Armed, TimerOK, Socket
  <2>4. TimerOK(s)
    <3>1. socks[n] \in Socket
      BY <2>1 DEF TimerOK
    <3>2. s \in Socket /\ s.timers = 1 /\ s.armed = TRUE
      BY <3>1 DEF Socket
    <3> QED BY <3>2 DEF TimerOK
  <2> HIDE DEF s
  <2> QED BY <2>1, <2>3, <2>4, OneSocket
<1> QED BY <1>1, <1>2

\* A request that moves on keeps its types.
LEMMA OneRequest ==
    ASSUME IInv, NEW r \in Requests, NEW q \in Request, NEW len \in Nat, Len(sockets) <= len, RequestOK(q, len),
           requests' = [requests EXCEPT ![r] = q]
    PROVE  requests' \in [Requests -> Request] /\ \A p \in Requests : RequestOK(requests'[p], len)
BY DEF IInv, RequestOK, SocketsOK

\* A request that ends, or that waits for a creation, keeps its socket.
LEMMA EndedOK ==
    ASSUME IInv, NEW r \in Requests, NEW pc \in Places \ {"sending"}, Ended(r, pc)
    PROVE  requests' \in [Requests -> Request] /\ \A p \in Requests : RequestOK(requests'[p], Len(sockets))
<1> DEFINE q == [requests[r] EXCEPT !.pc = pc]
<1>1. requests[r] \in Request /\ RequestOK(requests[r], Len(sockets)) /\ Len(sockets) \in Nat
  BY DEF IInv, SocketsOK
<1>2. requests' = [requests EXCEPT ![r] = q]
  BY DEF Ended
<1>3. q \in Request /\ q.pc = pc /\ q.on = requests[r].on /\ q.left = requests[r].left
  BY <1>1 DEF Request, Places
<1>5. Len(sockets) <= Len(sockets)
  BY <1>1
<1>4. RequestOK(q, Len(sockets))
  BY <1>1, <1>3 DEF RequestOK
<1> HIDE DEF q
<1> QED BY <1>1, <1>2, <1>3, <1>4, <1>5, OneRequest

\* A request that goes on with socket n is well-formed wherever it goes.
LEMMA ContinuesOK ==
    ASSUME IInv, NEW r \in Requests, NEW len \in Nat, Len(sockets) <= len, NEW n \in 0..len, NEW status,
           NEW qr \in BOOLEAN, Continues(r, n, status, qr)
    PROVE  requests' \in [Requests -> Request] /\ \A p \in Requests : RequestOK(requests'[p], len)
<1> DEFINE old == requests[r]
<1>1. old \in Request /\ RequestOK(old, len) /\ n \in Nat
  BY DEF IInv, SocketsOK, RequestOK
<1>2. CASE r \in Connects /\ (qr \/ status = "connected")
  <2> DEFINE q == [old EXCEPT !.pc = "done"]
  <2>1. requests' = [requests EXCEPT ![r] = q]
    BY <1>2 DEF Continues
  <2>2. q \in Request /\ q.pc = "done" /\ q.on = old.on /\ q.left = old.left
    BY <1>1 DEF Request, Places
  <2>3. RequestOK(q, len)
    BY <1>1, <2>2 DEF RequestOK
  <2> HIDE DEF q
  <2> QED BY <2>1, <2>2, <2>3, OneRequest
<1>3. CASE r \in Connects /\ ~qr /\ status # "connected"
  <2> DEFINE q == [old EXCEPT !.pc = "wait", !.on = n]
  <2>1. requests' = [requests EXCEPT ![r] = q]
    BY <1>3 DEF Continues
  <2>2. q \in Request /\ q.pc = "wait" /\ q.on = n /\ q.left = old.left
    BY <1>1 DEF Request, Places
  <2>3. RequestOK(q, len)
    BY <1>1, <2>2 DEF RequestOK
  <2> HIDE DEF q
  <2> QED BY <2>1, <2>2, <2>3, OneRequest
<1>4. CASE r \notin Connects /\ status # "connected"
  <2> DEFINE q == [old EXCEPT !.pc = "refused"]
  <2>1. requests' = [requests EXCEPT ![r] = q]
    BY <1>4 DEF Continues
  <2>2. q \in Request /\ q.pc = "refused" /\ q.on = old.on /\ q.left = old.left
    BY <1>1 DEF Request, Places
  <2>3. RequestOK(q, len)
    BY <1>1, <2>2 DEF RequestOK
  <2> HIDE DEF q
  <2> QED BY <2>1, <2>2, <2>3, OneRequest
<1>5. CASE r \notin Connects /\ status = "connected"
  <2> DEFINE q == [old EXCEPT !.pc = "sending", !.on = n, !.left = Messages[r]]
  <2>0. Messages[r] \in Nat \ {0}
    BY <1>5, GatewayAssumption DEF Requests
  <2>1. requests' = [requests EXCEPT ![r] = q]
    BY <1>5 DEF Continues
  <2>2. q \in Request /\ q.on = n /\ q.left = Messages[r]
    BY <1>1, <2>0 DEF Request, Places
  <2>3. RequestOK(q, len)
    BY <2>0, <2>2 DEF RequestOK
  <2> HIDE DEF q
  <2> QED BY <2>1, <2>2, <2>3, OneRequest
<1> QED BY <1>2, <1>3, <1>4, <1>5

-----------------------------------------------------------------------------
\* The invariant holds before the first request.
LEMMA InitInv == GatewayInit => IInv
<1> SUFFICES ASSUME GatewayInit PROVE IInv
  OBVIOUS
<1>1. NewRequest \in Request /\ RequestOK(NewRequest, 0)
  BY DEF NewRequest, Request, Places, RequestOK
<1>2. sockets \in Seq(Socket) /\ Len(sockets) = 0
  BY DEF GatewayInit
<1>3. SocketsOK
  BY <1>2 DEF SocketsOK
<1>4. 0 \in 0..MaxCloses
  BY GatewayAssumption
<1> QED BY <1>1, <1>2, <1>3, <1>4 DEF GatewayInit, IInv

\* The parts of the invariant that a step which makes no socket has to keep.
LEMMA Assemble ==
    ASSUME IInv, creds' \in BOOLEAN, current' \in {0, current}, closes' \in 0..MaxCloses,
           sockets' \in Seq(Socket), Len(sockets') = Len(sockets),
           \A i \in 1..Len(sockets) : TimerOK(sockets'[i]),
           requests' \in [Requests -> Request], \A p \in Requests : RequestOK(requests'[p], Len(sockets)),
           \A c \in creating' : c.registered \in BOOLEAN /\ c.by \in Requests \cup {Timer}
    PROVE  IInv'
<1>1. SocketsOK'
  BY DEF SocketsOK
<1>2. current' \in 0..Len(sockets)
  BY DEF IInv, SocketsOK
<1> QED BY <1>1, <1>2 DEF IInv

\* A request that looks for a session changes no session.
LEMMA EnsureSessionInv ==
    ASSUME IInv, NEW r \in Requests, EnsureSession(r)
    PROVE  IInv'
<1>1. requests' \in [Requests -> Request] /\ \A p \in Requests : RequestOK(requests'[p], Len(sockets))
  <2>1. CASE current # 0
    <3>1. current \in 0..Len(sockets) /\ Len(sockets) \in Nat /\ Len(sockets) <= Len(sockets)
      BY DEF IInv, SocketsOK
    <3>2. sockets[current].qr \in BOOLEAN
      BY <2>1, <3>1 DEF IInv, SocketsOK, TimerOK, Socket
    <3>3. Continues(r, current, Status, sockets[current].qr)
      BY <2>1 DEF EnsureSession
    <3> QED BY <3>1, <3>2, <3>3, ContinuesOK
  <2>2. CASE current = 0
    BY <2>2, EndedOK DEF EnsureSession, Places
  <2> QED BY <2>1, <2>2
<1>2. \A c \in creating' : c.registered \in BOOLEAN /\ c.by \in Requests \cup {Timer}
  BY DEF EnsureSession, Creation, IInv
<1> QED BY <1>1, <1>2, Assemble DEF EnsureSession, IInv, SocketsOK

\* A request's own steps: the reset is the only one that changes a session, whose timers it drops.
LEMMA RequestEndsInv ==
    ASSUME IInv, NEW r \in Requests, RequestEnds(r)
    PROVE  IInv'
<1>1. CASE ResetSession(r)
  <2>1. requests' \in [Requests -> Request] /\ \A p \in Requests : RequestOK(requests'[p], Len(sockets))
    BY <1>1, EndedOK DEF ResetSession, Places
  <2>2. \A c \in creating' : c.registered \in BOOLEAN /\ c.by \in Requests \cup {Timer}
    <3>1. creating' = creating \cup {[by |-> r, of |-> 0, registered |-> FALSE]}
      BY <1>1 DEF ResetSession
    <3>2. ASSUME NEW c, c = [by |-> r, of |-> 0, registered |-> FALSE] PROVE c.registered \in BOOLEAN /\ c.by = r
      BY <3>2
    <3> QED BY <3>1, <3>2 DEF IInv
  <2>3. sockets' \in Seq(Socket) /\ Len(sockets') = Len(sockets) /\ \A i \in 1..Len(sockets) : TimerOK(sockets'[i])
    <3>1. CASE current = 0
      BY <1>1, <3>1 DEF ResetSession, IInv, SocketsOK
    <3>2. CASE current # 0
      <4> DEFINE s == [sockets[current] EXCEPT !.timers = 0]
      <4>1. current \in 1..Len(sockets) /\ TimerOK(sockets[current]) /\ sockets \in Seq(Socket)
        BY <3>2 DEF IInv, SocketsOK
      <4>2. sockets' = [sockets EXCEPT ![current] = s]
        BY <1>1, <3>2, <4>1 DEF ResetSession
      <4>3. s \in Socket /\ s.timers = 0
        BY <4>1 DEF TimerOK, Socket
      <4>4. TimerOK(s)
        BY <4>3 DEF TimerOK
      <4> HIDE DEF s
      <4> QED BY <4>1, <4>2, <4>4, OneSocket DEF IInv, SocketsOK
    <3> QED BY <3>1, <3>2
  <2> QED BY <1>1, <2>1, <2>2, <2>3, Assemble DEF ResetSession, IInv
<1>2. CASE WaitIsOver(r)
  <2>1. requests' \in [Requests -> Request] /\ \A p \in Requests : RequestOK(requests'[p], Len(sockets))
    BY <1>2, EndedOK DEF WaitIsOver, Places
  <2> QED BY <1>2, <2>1, Assemble DEF WaitIsOver, IInv, SocketsOK
<1>3. CASE SendMessage(r)
  <2> DEFINE old == requests[r]
             n == old.left - 1
             pc == IF old.left = 1 THEN "done" ELSE "sending"
             q == [old EXCEPT !.left = n, !.pc = pc]
  <2>1. old \in Request /\ RequestOK(old, Len(sockets)) /\ old.pc = "sending"
        /\ Len(sockets) \in Nat /\ Len(sockets) <= Len(sockets)
    BY <1>3 DEF SendMessage, IInv, SocketsOK
  <2>2. old.left \in Nat \ {0}
    BY <2>1 DEF RequestOK
  <2>3. requests' = [requests EXCEPT ![r] = q]
    BY <1>3, <2>1 DEF SendMessage, IInv, Request
  <2>n. n \in Nat /\ pc \in Places /\ (pc = "sending" => n # 0)
    BY <2>1, <2>2 DEF Places
  <2> HIDE DEF n, pc
  <2>4. q \in Request /\ q.left = n /\ q.on = old.on /\ q.pc = pc
    BY <2>1, <2>n DEF Request
  <2>5. RequestOK(q, Len(sockets))
    BY <2>1, <2>n, <2>4 DEF RequestOK
  <2> HIDE DEF q, old
  <2>6. requests' \in [Requests -> Request] /\ \A p \in Requests : RequestOK(requests'[p], Len(sockets))
    BY <2>1, <2>3, <2>4, <2>5, OneRequest
  <2> QED BY <1>3, <2>6, Assemble DEF SendMessage, IInv, SocketsOK
<1> QED BY <1>1, <1>2, <1>3 DEF RequestEnds

\* A creation that ends: the new session has no timer.
LEMMA CreationEndsInv ==
    ASSUME IInv, NEW c \in creating, CreateSession(c) \/ CreateFails(c)
    PROVE  IInv'
<1>1. /\ c.registered \in BOOLEAN /\ c.by \in Requests \cup {Timer}
      /\ sockets \in Seq(Socket) /\ Len(sockets) \in Nat /\ current \in 0..Len(sockets)
      /\ \A i \in 1..Len(sockets) : TimerOK(sockets[i])
  BY DEF IInv, SocketsOK
<1>2. \A d \in creating' : d.registered \in BOOLEAN /\ d.by \in Requests \cup {Timer}
  BY DEF CreateSession, CreateFails, IInv
<1>3. CASE CreateSession(c)
  <2> DEFINE s == NewSocket(c)
  <2>1. s \in Socket /\ s.timers = 0
    BY <1>1 DEF NewSocket, Socket, Statuses
  <2>2. sockets' = Append(sockets, s) /\ current' = Len(sockets')
    BY <1>3 DEF CreateSession
  <2> HIDE DEF s
  <2>3. /\ sockets' \in Seq(Socket) /\ Len(sockets') = Len(sockets) + 1 /\ sockets'[Len(sockets) + 1] = s
        /\ \A i \in 1..Len(sockets) : sockets'[i] = sockets[i]
    BY <1>1, <2>1, <2>2, AppendProperties
  <2>4. SocketsOK'
    <3>1. TimerOK(s)
      BY <2>1 DEF TimerOK
    <3>2. ASSUME NEW i \in 1..(Len(sockets) + 1) PROVE TimerOK(sockets'[i])
      <4>1. CASE i \in 1..Len(sockets)
        BY <1>1, <2>3, <4>1
      <4>2. CASE i = Len(sockets) + 1
        BY <2>3, <3>1, <4>2
      <4> QED BY <1>1, <4>1, <4>2
    <3> QED BY <2>3, <3>2 DEF SocketsOK
  <2>5. requests' \in [Requests -> Request] /\ \A p \in Requests : RequestOK(requests'[p], Len(sockets'))
    <3>0. Len(sockets') \in Nat /\ Len(sockets) <= Len(sockets') /\ current' \in 0..Len(sockets') /\ current' \in Nat
      BY <1>1, <2>2, <2>3
    <3>1. CASE c.by = Timer
      BY <1>1, <1>3, <3>0, <3>1 DEF CreateSession, IInv, RequestOK
    <3>2. CASE c.by # Timer /\ requests[c.by].pc = "creating"
      <4>1. Continues(c.by, current', "connecting", FALSE) /\ c.by \in Requests
        BY <1>1, <1>3, <3>2 DEF CreateSession
      <4> QED BY <3>0, <4>1, ContinuesOK
    <3>3. CASE c.by # Timer /\ requests[c.by].pc # "creating"
      <4> DEFINE r == c.by
                 q == [requests[r] EXCEPT !.pc = "rewait", !.on = current']
      <4>1. r \in Requests /\ requests[r] \in Request /\ RequestOK(requests[r], Len(sockets))
        BY <1>1, <3>3 DEF IInv
      <4>2. requests' = [requests EXCEPT ![r] = q]
        BY <1>3, <3>3, <4>1 DEF CreateSession, IInv, Request
      <4>3. q \in Request /\ q.pc = "rewait" /\ q.on = current' /\ q.left = requests[r].left
        BY <3>0, <4>1 DEF Request, Places
      <4>4. RequestOK(q, Len(sockets'))
        BY <3>0, <4>1, <4>3 DEF RequestOK
      <4> HIDE DEF q, r
      <4> QED BY <3>0, <4>1, <4>2, <4>3, <4>4, OneRequest
    <3> QED BY <3>1, <3>2, <3>3
  <2>6. creds' \in BOOLEAN /\ closes' \in 0..MaxCloses /\ current' \in 0..Len(sockets')
    BY <1>1, <1>3, <2>2, <2>3 DEF CreateSession, IInv
  <2> QED BY <1>2, <2>4, <2>5, <2>6 DEF IInv
<1>4. CASE CreateFails(c)
  <2>1. requests' \in [Requests -> Request] /\ \A p \in Requests : RequestOK(requests'[p], Len(sockets))
    <3>1. CASE c.by = Timer
      BY <1>4, <3>1 DEF CreateFails, IInv
    <3>2. CASE c.by # Timer
      BY <1>1, <1>4, <3>2, EndedOK DEF CreateFails, Places
    <3> QED BY <3>1, <3>2
  <2>2. sockets' \in Seq(Socket) /\ Len(sockets') = Len(sockets) /\ \A i \in 1..Len(sockets) : TimerOK(sockets'[i])
    BY <1>1, <1>4, ArmedOK DEF CreateFails
  <2> QED BY <1>2, <1>4, <2>1, <2>2, Assemble DEF CreateFails, IInv
<1> QED BY <1>3, <1>4

\* A session's events: only a close sets a timer, and only one that is not set.
LEMMA EventInv ==
    ASSUME IInv, NEW n \in DOMAIN sockets, NEW out \in BOOLEAN,
           QrShown(n) \/ Scanned(n) \/ Opened(n) \/ TimerFires(n) \/ Closed(n, out)
    PROVE  IInv'
<1> DEFINE old == sockets[n]
<1>1. /\ sockets \in Seq(Socket) /\ Len(sockets) \in Nat /\ current \in 0..Len(sockets)
      /\ n \in 1..Len(sockets) /\ TimerOK(old) /\ old \in Socket
      /\ \A i \in 1..Len(sockets) : TimerOK(sockets[i])
  BY DEF IInv, SocketsOK, TimerOK
<1>2. CASE QrShown(n)
  <2> DEFINE s == [old EXCEPT !.qr = TRUE, !.status = "needs_qr"]
  <2>1. sockets' = [sockets EXCEPT ![n] = s]
    BY <1>1, <1>2 DEF QrShown, Socket
  <2>2. s \in Socket /\ s.timers = old.timers /\ s.armed = old.armed
    BY <1>1 DEF Socket, Statuses
  <2>3. TimerOK(s)
    BY <1>1, <2>2 DEF TimerOK
  <2>4. ASSUME NEW p \in Requests PROVE requests'[p] \in Request /\ RequestOK(requests'[p], Len(sockets))
    <3> DEFINE q == [requests[p] EXCEPT !.pc = "done"]
    <3>1. requests[p] \in Request /\ RequestOK(requests[p], Len(sockets))
      BY DEF IInv
    <3>2. q \in Request /\ q.pc = "done" /\ q.on = requests[p].on /\ q.left = requests[p].left
      BY <3>1 DEF Request, Places
    <3>3. RequestOK(q, Len(sockets))
      BY <3>1, <3>2 DEF RequestOK
    <3>4. requests'[p] = q \/ requests'[p] = requests[p]
      BY <1>2 DEF QrShown
    <3> QED BY <3>1, <3>2, <3>3, <3>4
  <2>5. requests' \in [Requests -> Request]
    BY <1>2, <2>4 DEF QrShown
  <2> HIDE DEF s
  <2>6. sockets' \in Seq(Socket) /\ Len(sockets') = Len(sockets) /\ \A i \in 1..Len(sockets) : TimerOK(sockets'[i])
    BY <1>1, <2>1, <2>3, OneSocket
  <2> QED BY <1>2, <2>4, <2>5, <2>6, Assemble DEF QrShown, IInv
<1>3. CASE Scanned(n)
  <2> DEFINE s == [old EXCEPT !.registered = TRUE]
  <2>1. sockets' = [sockets EXCEPT ![n] = s]
    BY <1>1, <1>3 DEF Scanned
  <2>2. s \in Socket /\ s.timers = old.timers /\ s.armed = old.armed
    BY <1>1 DEF Socket
  <2>3. TimerOK(s)
    BY <1>1, <2>2 DEF TimerOK
  <2> HIDE DEF s
  <2>6. sockets' \in Seq(Socket) /\ Len(sockets') = Len(sockets) /\ \A i \in 1..Len(sockets) : TimerOK(sockets'[i])
    BY <1>1, <2>1, <2>3, OneSocket
  <2> QED BY <1>3, <2>6, Assemble DEF Scanned, IInv
<1>4. CASE Opened(n)
  <2> DEFINE s == [old EXCEPT !.phase = "open", !.status = "connected", !.qr = FALSE]
  <2>1. sockets' = [sockets EXCEPT ![n] = s]
    BY <1>1, <1>4 DEF Opened, Socket
  <2>2. s \in Socket /\ s.timers = old.timers /\ s.armed = old.armed
    BY <1>1 DEF Socket, Statuses
  <2>3. TimerOK(s)
    BY <1>1, <2>2 DEF TimerOK
  <2> HIDE DEF s
  <2>6. sockets' \in Seq(Socket) /\ Len(sockets') = Len(sockets) /\ \A i \in 1..Len(sockets) : TimerOK(sockets'[i])
    BY <1>1, <2>1, <2>3, OneSocket
  <2> QED BY <1>4, <2>6, Assemble DEF Opened, IInv
<1>5. CASE TimerFires(n)
  <2> DEFINE n0 == old.timers - 1
             s == [old EXCEPT !.timers = n0, !.armed = FALSE]
  <2>0. n0 = 0 /\ n0 \in Nat
    BY <1>1, <1>5 DEF TimerFires, TimerOK, Socket
  <2>1. sockets' = [sockets EXCEPT ![n] = s]
    BY <1>1, <1>5 DEF TimerFires, Socket
  <2> HIDE DEF n0
  <2>2. s \in Socket /\ s.timers = n0
    BY <1>1, <2>0 DEF Socket
  <2>3. TimerOK(s)
    BY <2>0, <2>2 DEF TimerOK
  <2> HIDE DEF s
  <2>4. sockets' \in Seq(Socket) /\ Len(sockets') = Len(sockets) /\ \A i \in 1..Len(sockets) : TimerOK(sockets'[i])
    BY <1>1, <2>1, <2>3, OneSocket
  <2>5. \A c \in creating' : c.registered \in BOOLEAN /\ c.by \in Requests \cup {Timer}
    BY <1>5 DEF TimerFires, Creation, IInv
  <2> QED BY <1>5, <2>4, <2>5, Assemble DEF TimerFires, IInv
<1>6. CASE Closed(n, out)
  <2> DEFINE st == IF out \/ old.qr THEN "needs_qr" ELSE "disconnected"
             q == old.qr /\ ~out
             s == [old EXCEPT !.phase = "dead", !.qr = q, !.status = st]
             dead == [sockets EXCEPT ![n] = s]
  <2>0. st \in Statuses /\ q \in BOOLEAN
    BY <1>1 DEF Statuses, Socket
  <2>1. sockets' = IF out THEN dead ELSE Armed(dead, current)
    BY <1>1, <1>6 DEF Closed, Socket
  <2> HIDE DEF st, q
  <2>2. s \in Socket /\ s.timers = old.timers /\ s.armed = old.armed
    BY <1>1, <2>0 DEF Socket
  <2>3. TimerOK(s)
    BY <1>1, <2>2 DEF TimerOK
  <2> HIDE DEF s
  <2>4. dead \in Seq(Socket) /\ Len(dead) = Len(sockets) /\ \A i \in 1..Len(dead) : TimerOK(dead[i])
    BY <1>1, <2>3, OneSocket
  <2> HIDE DEF dead
  <2>5. sockets' \in Seq(Socket) /\ Len(sockets') = Len(sockets) /\ \A i \in 1..Len(sockets) : TimerOK(sockets'[i])
    BY <1>1, <2>1, <2>4, ArmedOK
  <2>6. closes' \in 0..MaxCloses
    BY <1>6, GatewayAssumption DEF Closed, IInv
  <2> QED BY <1>6, <2>5, <2>6, Assemble DEF Closed, IInv
<1> QED BY <1>2, <1>3, <1>4, <1>5, <1>6

\* Every step keeps the invariant.
LEMMA NextInv == IInv /\ [GatewayNext]_gatewayVars => IInv'
<1> SUFFICES ASSUME IInv, [GatewayNext]_gatewayVars PROVE IInv'
  OBVIOUS
<1>1. CASE UNCHANGED gatewayVars
  BY <1>1 DEF gatewayVars, IInv, SocketsOK
<1> QED
  BY <1>1, EnsureSessionInv, RequestEndsInv, CreationEndsInv, EventInv DEF GatewayNext, CreationEnds

\* The invariant always holds.
LEMMA Invariance == GatewaySpec => []IInv
BY InitInv, NextInv, PTL DEF GatewaySpec

-----------------------------------------------------------------------------
\* The variables have their types: the session in the map is a socket that was made, and no
\* request is on one that was not.
THEOREM GatewayTypes == GatewaySpec => []GatewayTypeOK
<1>1. IInv => GatewayTypeOK
  BY DEF IInv, SocketsOK, TimerOK, Socket, RequestOK, GatewayTypeOK
<1> QED BY <1>1, Invariance, PTL

\* A session has at most one reconnect timer, however many replaced sockets close and set it
\* for the session in the map, however creations and resets interleave with them.
THEOREM SessionsHaveOneTimer == GatewaySpec => []OneTimerPerSession
<1>1. IInv => OneTimerPerSession
  BY DEF IInv, SocketsOK, TimerOK, OneTimerPerSession
<1> QED BY <1>1, Invariance, PTL
================================================================================
