------------------------------ MODULE VoucherAuth ------------------------------
(***************************************************************************)
(* Logging in with a voucher: RadiusHandler.Auth, which validates a voucher *)
(* and then consumes it, beside accounting (RadiusAccounting), the switches *)
(* of an operator and the clock.  One voucher: vouchers share nothing.      *)
(*                                                                         *)
(* Every request has a goroutine of its own.  Validation and consumption    *)
(* read the voucher separately; only the last UPDATE checks and writes in   *)
(* one statement.  An accepted request is the session that bears its name. *)
(***************************************************************************)
EXTENDS RadiusAccounting

CONSTANTS
  Toggle,         \* POST /vouchers/{id}/toggle-status requests
  Duration,       \* the ticks of the package's duration_hours; 0: none
  MaxTime         \* bound on the clock

ASSUME VoucherAssumption == Duration \in Nat /\ MaxTime \in Nat \ {0}

VARIABLES
  now,       \* the clock
  status,    \* vouchers.status, or "deleted"
  expires,   \* vouchers.expires_at, 0 for NULL
  auth,      \* the local state of the login requests
  toggle,    \* the local state of the toggle requests
  granted,   \* history: the expiry the last accepted request was given
  accepted   \* history: the requests that consumed the voucher

voucher == <<status, expires>>
vars == <<acctVars, now, voucher, auth, toggle, granted, accepted>>

AuthDone == {"rejected", "accepted", "online"}
AuthState ==
  [ pc      : {"idle", "check", "expire", "inuse", "password", "consume", "update"}
                \union AuthDone,
    status  : {"none", "active", "used", "expired", "revoked"},  \* as read
    expires : Nat,                                     \* as read, or as computed
    wrong   : BOOLEAN ]                                \* does it send a wrong password?

Init ==
  /\ AcctInit
  /\ now = 1
  /\ status \in {"active", "revoked"}
  /\ expires = 0
  /\ \E wrong \in [Session -> BOOLEAN] :
       auth = [a \in Session |->
                 [pc |-> "idle", status |-> "none", expires |-> 0, wrong |-> wrong[a]]]
  /\ toggle = [t \in Toggle |-> "idle"]
  /\ granted = 0
  /\ accepted = {}

-----------------------------------------------------------------------------
(***************************************************************************)
(* Auth                                                                    *)
(***************************************************************************)

\* What a request has read it forgets with its next step, but for the row it is
\* going to write back.
Goto(a, label) ==
  auth' = [auth EXCEPT ![a] =
             [ pc      |-> label,
               status  |-> "none",
               expires |-> IF label = "expire" THEN auth[a].expires ELSE 0,
               wrong   |-> auth[a].wrong ]]

Over(e) == e # 0 /\ e <= now

-----------------------------------------------------------------------------
(***************************************************************************)
(* Mutants: steps with a plausible bug in each.                            *)
(***************************************************************************)

\* The UPDATE trusts the validation: no condition on the row.
ConsumeUnchecked(a) ==
  /\ auth[a].pc = "update"
  /\ IF status # "deleted"
     THEN /\ status' = "used"
          /\ expires' = IF auth[a].expires = 0 THEN expires ELSE auth[a].expires
          /\ granted' = expires'
          /\ accepted' = accepted \union {a}
          /\ Goto(a, "accepted")
     ELSE Goto(a, "rejected") /\ UNCHANGED <<voucher, granted, accepted>>
  /\ UNCHANGED <<acctVars, now, toggle>>

\* Only the status is written: the row keeps an expiry that others prolonged.
MarkExpiredOnly(a) ==
  /\ auth[a].pc = "expire"
  /\ IF status = "deleted" THEN UNCHANGED voucher
                           ELSE status' = "expired" /\ UNCHANGED expires
  /\ Goto(a, "rejected")
  /\ UNCHANGED <<acctVars, now, toggle, granted, accepted>>

-----------------------------------------------------------------------------
\* ValidateVoucherForAuth: GetVoucherByCode ...
ReadVoucher(a) ==
  /\ auth[a].pc = "idle"
  /\ IF status = "deleted"
     THEN Goto(a, "rejected")
     ELSE auth' = [auth EXCEPT ![a].pc = "check", ![a].status = status, ![a].expires = expires]
  /\ UNCHANGED <<acctVars, now, voucher, toggle, granted, accepted>>

\* ... the expiry first, then the status, of what was read ...
CheckVoucher(a) ==
  /\ auth[a].pc = "check"
  /\ Goto(a, IF auth[a].expires # 0 /\ now > auth[a].expires THEN "expire"
             ELSE IF auth[a].status = "used" THEN "inuse"
             ELSE IF auth[a].status = "active" THEN "password" ELSE "rejected")
  /\ UNCHANGED <<acctVars, now, voucher, toggle, granted, accepted>>

\* ... UpdateVoucher writes the whole row that was read, as expired ...
MarkExpired(a) ==
  /\ auth[a].pc = "expire"
  /\ IF status = "deleted"
     THEN UNCHANGED voucher
     ELSE status' = "expired" /\ expires' = auth[a].expires
  /\ Goto(a, "rejected")
  /\ UNCHANGED <<acctVars, now, toggle, granted, accepted>>

\* ... HasActiveSession.
CheckInUse(a) ==
  /\ auth[a].pc = "inuse"
  /\ Goto(a, IF \E s \in Session : IsActive(s) THEN "rejected" ELSE "password")
  /\ UNCHANGED <<acctVars, now, voucher, toggle, granted, accepted>>

CheckPassword(a) ==
  /\ auth[a].pc = "password"
  /\ Goto(a, IF auth[a].wrong THEN "rejected" ELSE "consume")
  /\ UNCHANGED <<acctVars, now, voucher, toggle, granted, accepted>>

\* The new expiry.  A package without a duration has none; nor does a request
\* whose read of the package fails, for that error is ignored.
NewExpiry == {0} \union (IF Duration = 0 THEN {} ELSE {now + Duration})

\* ConsumeVoucherForAuth reads the voucher again and computes its new expiry ...
ReadAgain(a) ==
  /\ auth[a].pc = "consume"
  /\ IF status = "active" \/ (status = "used" /\ ~Over(expires))
     THEN \E e \in NewExpiry :
            auth' = [auth EXCEPT ![a].pc = "update", ![a].expires = e]
     ELSE Goto(a, "rejected")
  /\ UNCHANGED <<acctVars, now, voucher, toggle, granted, accepted>>

\* ... ConsumeVoucherAtomic.
Consume(a) ==
  /\ auth[a].pc = "update"
  /\ IF status \in {"used", "active"} /\ ~Over(expires)
     THEN /\ status' = "used"
          /\ expires' = IF auth[a].expires = 0 THEN expires ELSE auth[a].expires
          /\ granted' = expires'
          /\ accepted' = accepted \union {a}
          /\ Goto(a, "accepted")
     ELSE Goto(a, "rejected") /\ UNCHANGED <<voucher, granted, accepted>>
  /\ UNCHANGED <<acctVars, now, toggle>>

\* A statement fails, or the answer does not reach the NAS.
Abort(a) ==
  /\ auth[a].pc \notin {"idle", "rejected", "online"}
  /\ Goto(a, "rejected")
  /\ UNCHANGED <<acctVars, now, voucher, toggle, granted, accepted>>

\* The NAS lets the user in.
Connect(a) ==
  /\ auth[a].pc = "accepted"
  /\ Goto(a, "online")
  /\ Login(a)
  /\ UNCHANGED <<now, voucher, toggle, granted, accepted>>

-----------------------------------------------------------------------------
(***************************************************************************)
(* The operator and the clock.                                             *)
(***************************************************************************)

\* ToggleVoucherStatus reads the voucher ...
ReadToggle(t) ==
  /\ toggle[t] = "idle"
  /\ toggle' = [toggle EXCEPT ![t] = CASE status = "active"  -> "revoke"
                                       [] status = "revoked" -> "activate"
                                       [] OTHER              -> "done"]
  /\ UNCHANGED <<acctVars, now, voucher, auth, granted, accepted>>

\* ... and writes the other status, whatever the row's is by now.
WriteToggle(t) ==
  /\ toggle[t] \in {"revoke", "activate"}
  /\ status' = IF status = "deleted" THEN status
               ELSE IF toggle[t] = "revoke" THEN "revoked" ELSE "active"
  /\ toggle' = [toggle EXCEPT ![t] = "done"]
  /\ UNCHANGED <<acctVars, now, expires, auth, granted, accepted>>

DeleteVoucher ==
  /\ status # "deleted"
  /\ status' = "deleted"
  /\ UNCHANGED <<acctVars, now, expires, auth, toggle, granted, accepted>>

Tick ==
  /\ now < MaxTime
  /\ now' = now + 1
  /\ UNCHANGED <<acctVars, voucher, auth, toggle, granted, accepted>>

\* Accounting goes on as it does by itself; its logins are Connect's.
Account ==
  /\ \E s \in Session :
       \/ Traffic(s) \/ Logout(s) \/ Lose(s)
       \/ \E m \in net[s] : Acct(s, m)
  /\ UNCHANGED <<now, voucher, auth, toggle, granted, accepted>>

\* The time considered is over.
TimeOver == now = MaxTime /\ UNCHANGED vars

AuthStep(a) ==
  \/ ReadVoucher(a)
  \/ CheckVoucher(a)
  \/ MarkExpired(a)
  \/ CheckInUse(a)
  \/ CheckPassword(a)
  \/ ReadAgain(a)
  \/ Consume(a)

Next ==
  \/ \E a \in Session : AuthStep(a) \/ Abort(a) \/ Connect(a)
  \/ \E t \in Toggle : ReadToggle(t) \/ WriteToggle(t)
  \/ DeleteVoucher
  \/ Tick
  \/ Account
  \/ TimeOver

Spec == Init /\ [][Next]_vars

-----------------------------------------------------------------------------
(***************************************************************************)
(* Properties.                                                             *)
(***************************************************************************)

TypeOK ==
  /\ AcctTypeOK
  /\ now \in 1..MaxTime
  /\ status \in {"active", "used", "expired", "revoked", "deleted"}
  /\ expires \in Nat
  /\ auth \in [Session -> AuthState]
  /\ toggle \in [Toggle -> {"idle", "revoke", "activate", "done"}]
  /\ granted \in Nat
  /\ accepted \subseteq Session

\* A voucher that is revoked, expired or deleted lets nobody in and stays so
\* until an operator's toggle is written: a request that was validated before
\* does not get through, and no stale write reopens it (ConsumeVoucherAtomic).
Closed == status \in {"expired", "revoked", "deleted"}
ClosedUntilToggled ==
  [][(Closed /\ toggle' = toggle) => (Closed' /\ accepted' = accepted)]_vars

\* Once the voucher's time is over nothing prolongs it: neither a request that
\* was validated while it still ran nor a stale write of an earlier row
\* (ConsumeVoucherAtomic, UpdateVoucher).
OverIsOver == [][Over(expires) => Over(expires')]_vars

\* A voucher is marked expired only when the expiry in its row has passed,
\* although the mark is written from an earlier read (ValidateVoucherForAuth).
ExpiredIsOver == status = "expired" => Over(expires)

\* "prevent burning voucher on wrong password": a voucher gets an expiry, or is
\* used, only by a request that sent the right one.
OnlyAcceptedBurn ==
  /\ \A a \in accepted : ~auth[a].wrong
  /\ (status = "used" \/ expires # 0) => accepted # {}

-----------------------------------------------------------------------------
(***************************************************************************)
(* What the code says of itself and does not guarantee.                    *)
(***************************************************************************)

\* voucher_service.go: "voucher is currently in use".  Refuted by two requests
\* that both validate before either's session is reported.
OneUserAtATime == \A r, s \in Session : nas[r] = "on" /\ nas[s] = "on" => r = s

\* voucher_service.go: "Cannot toggle used or expired vouchers".  Refuted by a
\* login between the toggle's read and its write.
UsedIsNotToggled ==
  [][(status \in {"used", "expired"}) => status' \notin {"active", "revoked"}]_vars

\* radius_handler.go: "COMMIT POINT - voucher is marked as used here".  The time
\* an accepted request was given is the voucher's until it is over.  Refuted by
\* a request that read the row before, finds that expiry over, and writes its
\* whole row back.
CommitIsKept == (status = "expired" /\ granted # 0) => Over(granted)

=============================================================================
