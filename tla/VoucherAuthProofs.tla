--------------------------- MODULE VoucherAuthProofs ---------------------------
(***************************************************************************)
(* Proofs about VoucherAuth, for any number of requests, any duration and   *)
(* any bound on the clock.                                                 *)
(*                                                                         *)
(* The first three results are about stale writes: MarkExpired writes back  *)
(* a row it read earlier, so what they rest on is that the earlier row was  *)
(* over when it was read and time has only gone on since (StaleIsOver).     *)
(* The rest are about accounting, by itself (AcctSpec) and beside the       *)
(* vouchers (AccountingIsPart).                                            *)
(***************************************************************************)
EXTENDS VoucherAuth, TLAPS

\* The part of TypeOK these proofs need: the shape of the voucher's own state.
VoucherType ==
  /\ now \in Nat
  /\ status \in {"active", "used", "expired", "revoked", "deleted"}
  /\ expires \in Nat
  /\ auth \in [Session -> AuthState]
  /\ toggle \in [Toggle -> {"idle", "revoke", "activate", "done"}]

\* The row a request is about to write back as expired is over.
StaleIsOver ==
  \A a \in Session : auth[a].pc = "expire" => auth[a].expires # 0 /\ auth[a].expires < now

IInv == VoucherType /\ StaleIsOver /\ ExpiredIsOver

-----------------------------------------------------------------------------
\* A step that leaves the voucher and moves one request, not to "expire".
LEMMA MovePreserves ==
  ASSUME IInv, NEW a \in Session, NEW l \in {"rejected", "inuse", "password", "consume",
                                             "online"},
         Goto(a, l), UNCHANGED <<now, status, expires, toggle>>
  PROVE  IInv'
<1>1. VoucherType'
  BY DEF IInv, VoucherType, AuthState, AuthDone, Goto
<1>2. StaleIsOver'
  BY DEF IInv, VoucherType, StaleIsOver, Goto
<1>3. ExpiredIsOver'
  BY DEF IInv, ExpiredIsOver, Over
<1> QED BY <1>1, <1>2, <1>3 DEF IInv

\* The invariant holds initially.
LEMMA InitEstablishes ==
  ASSUME Init PROVE IInv
BY DEF Init, IInv, VoucherType, AuthState, StaleIsOver, ExpiredIsOver

\* A step that leaves the voucher, the clock and the requests alone.
LEMMA FramePreserves ==
  ASSUME IInv, UNCHANGED <<now, voucher, auth, toggle>> PROVE IInv'
BY DEF IInv, VoucherType, StaleIsOver, ExpiredIsOver, Over, voucher

\* The invariant is preserved by every step of a request.
LEMMA RequestPreserves ==
  ASSUME IInv, NEW a \in Session, AuthStep(a) \/ Abort(a) \/ Connect(a)
  PROVE  IInv'
<1> USE DEF IInv
<1>1. CASE ReadVoucher(a)
  <2>1. CASE status = "deleted"
    BY <1>1, <2>1, MovePreserves DEF ReadVoucher, voucher
  <2>2. CASE status # "deleted"
    BY <1>1, <2>2 DEF ReadVoucher, VoucherType, AuthState, AuthDone, StaleIsOver,
                      ExpiredIsOver, Over, voucher
  <2> QED BY <2>1, <2>2
<1>2. CASE CheckVoucher(a)
  <2>1. CASE auth[a].expires # 0 /\ now > auth[a].expires
    <3>1. Goto(a, "expire") /\ UNCHANGED <<now, status, expires, toggle>>
      BY <1>2, <2>1 DEF CheckVoucher, voucher
    <3>2. VoucherType'
      BY <3>1 DEF VoucherType, AuthState, AuthDone, Goto
    <3>3. StaleIsOver'
      BY <2>1, <3>1 DEF VoucherType, AuthState, StaleIsOver, Goto
    <3> QED BY <3>1, <3>2, <3>3 DEF ExpiredIsOver, Over
  <2>2. CASE ~(auth[a].expires # 0 /\ now > auth[a].expires)
    BY <1>2, <2>2, MovePreserves DEF CheckVoucher, voucher
  <2> QED BY <2>1, <2>2
<1>3. CASE MarkExpired(a)
  <2>1. auth[a].expires \in Nat /\ auth[a].expires # 0 /\ auth[a].expires < now
    BY <1>3 DEF MarkExpired, VoucherType, AuthState, StaleIsOver
  <2>2. VoucherType'
    BY <1>3, <2>1 DEF MarkExpired, VoucherType, AuthState, AuthDone, Goto, voucher
  <2>3. StaleIsOver'
    BY <1>3 DEF MarkExpired, VoucherType, AuthState, StaleIsOver, Goto
  <2>4. ExpiredIsOver'
    BY <1>3, <2>1 DEF MarkExpired, VoucherType, ExpiredIsOver, Over, voucher
  <2> QED BY <2>2, <2>3, <2>4
<1>4. CASE CheckInUse(a)
  BY <1>4, MovePreserves DEF CheckInUse, voucher
<1>5. CASE CheckPassword(a)
  BY <1>5, MovePreserves DEF CheckPassword, voucher
<1>6. CASE ReadAgain(a)
  <2>1. CASE status = "active" \/ (status = "used" /\ ~Over(expires))
    <3>1. PICK e \in NewExpiry :
            auth' = [auth EXCEPT ![a].pc = "update", ![a].expires = e]
      BY <1>6, <2>1 DEF ReadAgain
    <3>2. e \in Nat
      BY VoucherAssumption DEF NewExpiry, VoucherType
    <3> QED
      BY <1>6, <3>1, <3>2 DEF ReadAgain, VoucherType, AuthState, AuthDone, StaleIsOver,
                              ExpiredIsOver, Over, voucher
  <2>2. CASE ~(status = "active" \/ (status = "used" /\ ~Over(expires)))
    BY <1>6, <2>2, MovePreserves DEF ReadAgain, voucher
  <2> QED BY <2>1, <2>2
<1>7. CASE Consume(a)
  <2>1. CASE status \in {"used", "active"} /\ ~Over(expires)
    BY <1>7, <2>1 DEF Consume, Goto, VoucherType, AuthState, AuthDone, StaleIsOver,
                      ExpiredIsOver
  <2>2. CASE ~(status \in {"used", "active"} /\ ~Over(expires))
    BY <1>7, <2>2, MovePreserves DEF Consume, voucher
  <2> QED BY <2>1, <2>2
<1>8. CASE Abort(a)
  BY <1>8, MovePreserves DEF Abort, voucher
<1>9. CASE Connect(a)
  BY <1>9, MovePreserves DEF Connect, voucher
<1> QED
  BY <1>1, <1>2, <1>3, <1>4, <1>5, <1>6, <1>7, <1>8, <1>9 DEF AuthStep

\* The invariant is preserved by every step.
LEMMA StepPreserves ==
  ASSUME IInv, [Next]_vars PROVE IInv'
<1>1. ASSUME NEW a \in Session, AuthStep(a) \/ Abort(a) \/ Connect(a) PROVE IInv'
  BY <1>1, RequestPreserves
<1>2. ASSUME NEW t \in Toggle, ReadToggle(t) PROVE IInv'
  <2>1. VoucherType'
    BY <1>2 DEF ReadToggle, IInv, VoucherType, voucher
  <2> QED
    BY <1>2, <2>1 DEF ReadToggle, IInv, StaleIsOver, ExpiredIsOver, Over, voucher
<1>3. ASSUME NEW t \in Toggle, WriteToggle(t) PROVE IInv'
  BY <1>3 DEF WriteToggle, IInv, VoucherType, StaleIsOver, ExpiredIsOver, Over
<1>4. CASE DeleteVoucher
  BY <1>4 DEF DeleteVoucher, IInv, VoucherType, StaleIsOver, ExpiredIsOver, Over
<1>5. CASE Tick
  BY <1>5 DEF Tick, IInv, VoucherType, AuthState, StaleIsOver, ExpiredIsOver, Over, voucher
<1>6. CASE Account
  BY <1>6, FramePreserves DEF Account
<1>7. CASE TimeOver \/ UNCHANGED vars
  BY <1>7, FramePreserves DEF TimeOver, vars
<1> QED
  BY <1>1, <1>2, <1>3, <1>4, <1>5, <1>6, <1>7 DEF Next

\* So it holds always.
LEMMA Invariance == Spec => []IInv
<1>1. Init => IInv
  BY InitEstablishes
<1>2. IInv /\ [Next]_vars => IInv'
  BY StepPreserves
<1> QED BY <1>1, <1>2, PTL DEF Spec

-----------------------------------------------------------------------------
\* A voucher is marked expired only when its row's expiry has passed, although
\* ValidateVoucherForAuth writes the mark from an earlier read.
THEOREM ExpiredVouchersAreOver == Spec => []ExpiredIsOver
BY Invariance, PTL DEF IInv

\* No login and no stale write prolongs a voucher whose time is over.
THEOREM OverVouchersStayOver == Spec => OverIsOver
<1>1. ASSUME IInv, [Next]_vars PROVE [Over(expires) => Over(expires')]_vars
  <2> SUFFICES ASSUME Over(expires), Next PROVE Over(expires')
    BY <1>1
  <2>1. ASSUME NEW a \in Session, MarkExpired(a) PROVE Over(expires')
    BY <1>1, <2>1 DEF MarkExpired, IInv, VoucherType, AuthState, StaleIsOver, Over, voucher
  <2>2. ASSUME NEW a \in Session, Consume(a) PROVE Over(expires')
    BY <2>2 DEF Consume, voucher
  <2>3. CASE UNCHANGED expires
    BY <2>3 DEF Over
  <2> QED
    BY <2>1, <2>2, <2>3 DEF Next, AuthStep, ReadVoucher, CheckVoucher, CheckInUse,
       CheckPassword, ReadAgain, Abort, Connect, ReadToggle, WriteToggle, DeleteVoucher,
       Tick, Account, TimeOver, vars, voucher
<1> QED BY <1>1, Invariance, PTL DEF Spec, OverIsOver

\* Once a voucher is revoked, expired or deleted, nobody gets in with it, not even
\* a request that was validated before, until an operator's toggle is written.
THEOREM ClosedVouchersStayClosed == Spec => ClosedUntilToggled
<1>1. ASSUME IInv, [Next]_vars
      PROVE  [(Closed /\ toggle' = toggle) => (Closed' /\ accepted' = accepted)]_vars
  <2> SUFFICES ASSUME Closed, toggle' = toggle, Next
               PROVE  Closed' /\ accepted' = accepted
    BY <1>1
  <2>1. ASSUME NEW a \in Session, MarkExpired(a) PROVE Closed' /\ accepted' = accepted
    BY <2>1 DEF MarkExpired, Closed, voucher
  <2>2. ASSUME NEW a \in Session, Consume(a) PROVE Closed' /\ accepted' = accepted
    BY <2>2 DEF Consume, Closed, voucher
  <2>3. ASSUME NEW t \in Toggle, WriteToggle(t) PROVE FALSE
    BY <1>1, <2>3 DEF WriteToggle, IInv, VoucherType
  <2>4. CASE DeleteVoucher
    BY <2>4 DEF DeleteVoucher, Closed
  <2>5. CASE UNCHANGED <<status, accepted>>
    BY <2>5 DEF Closed
  <2> QED
    BY <2>1, <2>2, <2>3, <2>4, <2>5 DEF Next, AuthStep, ReadVoucher, CheckVoucher,
       CheckInUse, CheckPassword, ReadAgain, Abort, Connect, ReadToggle, Tick, Account,
       TimeOver, vars, voucher
<1> QED BY <1>1, Invariance, PTL DEF Spec, ClosedUntilToggled

-----------------------------------------------------------------------------
(***************************************************************************)
(* Accounting, with reports in any order, more than once, or lost.         *)
(***************************************************************************)

\* A Stop, under way or written last, is of a session that has ended, and tells all it
\* transferred.
TellsTheTruth(s) ==
  /\ \A m \in net[s] : m.type = "Stop" => nas[s] = "ended" /\ m.octets = octets[s]
  /\ row[s].status = "stopped" => nas[s] = "ended" /\ row[s].octets = octets[s]

\* The types of accounting's state.
AcctShape ==
  /\ nas \in [Session -> {"off", "on", "ended"}] /\ octets \in [Session -> Nat]
  /\ net \in [Session -> SUBSET Report] /\ row \in [Session -> Row]

\* The inductive invariant.
AcctInv == AcctShape /\ \A s \in Session : TellsTheTruth(s)

\* It holds before the first login.
LEMMA AcctInitEstablishes ==
  ASSUME AcctInit PROVE AcctInv
BY DEF AcctInit, AcctInv, AcctShape, TellsTheTruth, Row, NoRow

\* The NAS's side: nothing is reported of a session after its Stop.
LEMMA NasPreserves ==
  ASSUME AcctInv, NEW s \in Session, Login(s) \/ Traffic(s) \/ Logout(s)
  PROVE  AcctInv'
<1> USE DEF AcctInv, AcctShape, TellsTheTruth
<1>1. CASE Login(s)
  BY <1>1 DEF Login, Send, Report
<1>2. CASE Traffic(s)
  BY <1>2 DEF Traffic, Send, Report
<1>3. CASE Logout(s)
  BY <1>3 DEF Logout, Send, Report
<1> QED BY <1>1, <1>2, <1>3

\* What handling a report does to the row, and to what is under way.
LEMMA AcctRow ==
  ASSUME AcctInv, NEW s \in Session, NEW m \in net[s], Acct(s, m)
  PROVE  /\ row' \in [Session -> Row] /\ net' \in [Session -> SUBSET Report]
         /\ row'[s].status = IF m.type = "Stop" THEN "stopped" ELSE "active"
         /\ row'[s].octets = m.octets
         /\ row'[s].started = IF row[s] = NoRow THEN m.type = "Start" ELSE row[s].started
         /\ \A q \in Session \ {s} : row'[q] = row[q]
         /\ \A q \in Session : net'[q] \subseteq net[q]
<1>1. m \in Report /\ row[s] \in Row
  BY DEF AcctInv, AcctShape
<1> DEFINE new == Upsert(row[s], m)
<1>2. row' = [row EXCEPT ![s] = new]
  BY DEF Acct
<1>3. /\ new.status = IF m.type = "Stop" THEN "stopped" ELSE "active"
      /\ new.octets = m.octets
      /\ new.started = IF row[s] = NoRow THEN m.type = "Start" ELSE row[s].started
  BY DEF Upsert
<1>4. new \in Row
  BY <1>1 DEF Upsert, Row, NoRow, Report
<1>5. net' \in [Session -> SUBSET Report] /\ \A q \in Session : net'[q] \subseteq net[q]
  BY DEF Acct, Answered, AcctInv, AcctShape
<1> HIDE DEF new
<1> QED BY <1>2, <1>3, <1>4, <1>5 DEF AcctInv, AcctShape

\* The server handles any report that is under way.
LEMMA AcctPreserves ==
  ASSUME AcctInv, NEW s \in Session, NEW m \in net[s], Acct(s, m)
  PROVE  AcctInv'
<1>1. UNCHANGED <<nas, octets>>
  BY DEF Acct
<1>2. AcctShape'
  BY <1>1, AcctRow DEF AcctInv, AcctShape
<1>3. TellsTheTruth(s)'
  BY <1>1, AcctRow DEF AcctInv, TellsTheTruth
<1>4. ASSUME NEW q \in Session \ {s} PROVE TellsTheTruth(q)'
  BY <1>1, AcctRow DEF AcctInv, TellsTheTruth
<1> QED BY <1>2, <1>3, <1>4 DEF AcctInv

\* Every step of accounting keeps it.
LEMMA AcctNextPreserves ==
  ASSUME AcctInv, [AcctNext]_acctVars PROVE AcctInv'
<1>1. CASE UNCHANGED acctVars
  BY <1>1 DEF acctVars, AcctInv, AcctShape, TellsTheTruth
<1>2. ASSUME NEW s \in Session, Login(s) \/ Traffic(s) \/ Logout(s) PROVE AcctInv'
  BY <1>2, NasPreserves
<1>3. ASSUME NEW s \in Session, Lose(s) PROVE AcctInv'
  BY <1>3 DEF Lose, AcctInv, AcctShape, TellsTheTruth
<1>4. ASSUME NEW s \in Session, NEW m \in net[s], Acct(s, m) PROVE AcctInv'
  BY <1>4, AcctPreserves
<1> QED BY <1>1, <1>2, <1>3, <1>4 DEF AcctNext, AcctOver

\* A Stop that is handled again writes what a stopped row says already.
LEMMA SettledRowStays ==
  ASSUME AcctInv, [AcctNext]_acctVars, NEW s \in Session,
         row[s].status = "stopped", \A m \in net[s] : m.type = "Stop"
  PROVE  row'[s] = row[s]
<1>1. ASSUME NEW q \in Session, NEW m \in net[q], Acct(q, m) PROVE row'[s] = row[s]
  <2>1. CASE q = s
    <3>1. /\ row' \in [Session -> Row] /\ m.type = "Stop"
          /\ row'[s].status = "stopped" /\ row'[s].octets = m.octets
          /\ row'[s].started = IF row[s] = NoRow THEN m.type = "Start" ELSE row[s].started
      BY <1>1, <2>1, AcctRow
    <3>2. m.octets = octets[s] /\ row[s].octets = octets[s]
      BY <2>1, <3>1 DEF AcctInv, TellsTheTruth
    <3>3. row[s] \in Row /\ row[s] # NoRow
      BY DEF AcctInv, AcctShape, NoRow
    <3>4. row'[s] \in Row /\ row'[s] # NoRow
      BY <3>1 DEF NoRow
    <3> QED BY <3>1, <3>2, <3>3, <3>4 DEF Row
  <2>2. CASE q # s
    BY <1>1, <2>2, AcctRow
  <2> QED BY <2>1, <2>2
<1>2. CASE row' = row
  BY <1>2
<1> QED BY <1>1, <1>2 DEF AcctNext, AcctOver, Login, Traffic, Logout, Lose, acctVars

\* So it holds of accounting.
LEMMA AcctInvariance == AcctSpec => []AcctInv
<1>1. AcctInit => AcctInv
  BY AcctInitEstablishes
<1>2. AcctInv /\ [AcctNext]_acctVars => AcctInv'
  BY AcctNextPreserves
<1> QED BY <1>1, <1>2, PTL DEF AcctSpec

\* A row that is stopped is of a session that has ended and says all it transferred,
\* whatever the order of its reports, how often they are handled and which are lost.
THEOREM StoppedRowsTellTheTruth == AcctSpec => []StoppedIsTrue
<1>1. AcctInv => StoppedIsTrue
  BY DEF AcctInv, TellsTheTruth, StoppedIsTrue
<1> QED BY <1>1, AcctInvariance, PTL

\* Once no report of a session but its Stop is under way, a stopped row never changes
\* again, however often the Stop is handled.
THEOREM SettledRowsAreFinal == AcctSpec => SettledIsFinal
<1>1. AcctInv /\ [AcctNext]_acctVars =>
        [\A s \in Session : (row[s].status = "stopped" /\ \A m \in net[s] : m.type = "Stop")
                            => row'[s] = row[s]]_acctVars
  BY SettledRowStays
<1> QED BY <1>1, AcctInvariance, PTL DEF AcctSpec, SettledIsFinal

\* Beside the vouchers, whose logins are the NAS's, accounting does what it does
\* alone: VoucherAuth implements RadiusAccounting.
THEOREM AccountingIsPart == Spec => AcctSpec
<1>1. Init => AcctInit
  BY DEF Init
<1>2. [Next]_vars => [AcctNext]_acctVars
  <2> SUFFICES ASSUME Next PROVE AcctNext \/ UNCHANGED acctVars
    BY DEF vars
  <2>1. ASSUME NEW a \in Session, Connect(a) PROVE AcctNext
    BY <2>1 DEF Connect, AcctNext
  <2>2. CASE Account
    BY <2>2 DEF Account, AcctNext
  <2>3. CASE UNCHANGED acctVars
    BY <2>3
  <2> QED
    BY <2>1, <2>2, <2>3 DEF Next, AuthStep, ReadVoucher, CheckVoucher, MarkExpired, CheckInUse, CheckPassword,
       ReadAgain, Consume, Abort, ReadToggle, WriteToggle, DeleteVoucher, Tick, TimeOver, vars
<1> QED BY <1>1, <1>2, PTL DEF Spec, AcctSpec

\* So what holds of the table holds in the composed system too.
THEOREM AccountingHolds == Spec => SettledIsFinal /\ []StoppedIsTrue
BY AccountingIsPart, SettledRowsAreFinal, StoppedRowsTellTheTruth, PTL

=============================================================================
