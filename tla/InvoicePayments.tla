--------------------------- MODULE InvoicePayments ---------------------------
(***************************************************************************)
(* Payments against invoices: BillingService.RecordPayment and             *)
(* BillingService.CancelInvoice over the tables "invoices" and "payments". *)
(*                                                                         *)
(* Every HTTP request runs in a goroutine of its own and nothing serialises *)
(* two of them: RecordPayment is five database statements, each committed  *)
(* by itself (no transaction, no row lock), so each statement is an action *)
(* here.  A statement that fails, a browser that hangs up (the request's   *)
(* context is passed to the driver) and a crash of the server all leave    *)
(* the request where it was: the action Abort.                             *)
(*                                                                         *)
(* Rows of "payments" are only ever inserted, so of that table the model   *)
(* keeps what the program reads back, the SUM(amount) of an invoice, and   *)
(* which requests have their row there.  MarkInvoiceAsOverdue has no        *)
(* caller and nothing writes 'draft': the statuses are the three an        *)
(* invoice really reaches.                                                 *)
(***************************************************************************)
EXTENDS Integers

CONSTANTS
  Invoice,   \* invoices of the tenant, created before the requests arrive
  Request,   \* POST /billing/payments requests, each used once
  Total,     \* total_amount of an invoice: subtotal + tax - discount, any sign
  Amount     \* amounts a request may carry

ASSUME TotalAssumption  == Total \in [Invoice -> Int]
ASSUME AmountAssumption == Amount \subseteq Nat \ {0}

VARIABLES
  status,      \* invoices.status
  paidAmount,  \* invoices.paid_amount
  paidAt,      \* is invoices.paid_at set?
  ledger,      \* SUM(amount) of the invoice's rows of "payments"
  recorded,    \* the requests whose row is in "payments"
  req,         \* the local state of each request
  late         \* history: the requests that arrived at a closed invoice

db   == <<status, paidAmount, paidAt, ledger, recorded>>
vars == <<status, paidAmount, paidAt, ledger, recorded, req, late>>

InvoiceStatus == {"pending", "paid", "cancelled"}

(***************************************************************************)
(* The program counter of a request names the statement it runs next;      *)
(* "created" is the 201 reply, "refused" and "failed" are error replies    *)
(* (or no reply at all) before and after the request passed its checks.    *)
(***************************************************************************)
InFlight == {"read", "insert", "sum", "settle", "update"}
Answered == {"created", "refused", "failed"}

RequestState ==
  [ pc       : {"idle"} \union InFlight \union Answered,
    invoice  : Invoice,
    amount   : Amount,
    seen     : Int ]   \* totalPaid, as read by GetTotalByInvoice

Init ==
  /\ status     = [i \in Invoice |-> "pending"]
  /\ paidAmount = [i \in Invoice |-> 0]
  /\ paidAt     = [i \in Invoice |-> FALSE]
  /\ ledger     = [i \in Invoice |-> 0]
  /\ recorded   = {}
  /\ req \in [Request -> [pc : {"idle"}, invoice : Invoice, amount : Amount, seen : {0}]]
  /\ late       = {}

-----------------------------------------------------------------------------
(***************************************************************************)
(* RecordPayment, statement by statement.                                  *)
(***************************************************************************)

Closed(i) == status[i] \in {"paid", "cancelled"}

Covers(s, i) == s >= Total[i]

-----------------------------------------------------------------------------
(***************************************************************************)
(* Mutants: what the steps would be with a plausible bug in each.          *)
(***************************************************************************)

\* Adds to the invoice's paid_amount instead of summing the rows.
InsertPaymentAndAdd(r) ==
  /\ req[r].pc = "insert"
  /\ LET i == req[r].invoice
         s == paidAmount[i] + req[r].amount
     IN /\ ledger' = [ledger EXCEPT ![i] = @ + req[r].amount]
        /\ req' = [req EXCEPT ![r].seen = s,
                              ![r].pc = IF Covers(s, i) THEN "settle" ELSE "update"]
  /\ recorded' = recorded \union {r}
  /\ UNCHANGED <<status, paidAmount, paidAt, late>>

\* Counts the payment it has just inserted twice.
SumPaymentsTwice(r) ==
  /\ req[r].pc = "sum"
  /\ LET i == req[r].invoice
         s == ledger[i] + req[r].amount
     IN req' = [req EXCEPT ![r].seen = s,
                           ![r].pc = IF Covers(s, i) THEN "settle" ELSE "update"]
  /\ UNCHANGED <<db, late>>

\* Compares with > instead of >=.
SumPaymentsStrict(r) ==
  /\ req[r].pc = "sum"
  /\ LET i == req[r].invoice IN
       req' = [req EXCEPT ![r].seen = ledger[i],
                          ![r].pc = IF ledger[i] > Total[i] THEN "settle" ELSE "update"]
  /\ UNCHANGED <<db, late>>

\* Adds the sum to paid_amount instead of replacing it.
UpdatePaidAmountAdds(r) ==
  /\ req[r].pc = "update"
  /\ LET i == req[r].invoice IN
       /\ paidAmount' = [paidAmount EXCEPT ![i] = @ + req[r].seen]
       /\ paidAt' = [paidAt EXCEPT ![i] = Covers(req[r].seen, i)]
  /\ req' = [req EXCEPT ![r].pc = "created"]
  /\ UNCHANGED <<status, ledger, recorded, late>>

-----------------------------------------------------------------------------
\* The handler has checked that the amount is positive and calls the service.
Arrive(r) ==
  /\ req[r].pc = "idle"
  /\ req' = [req EXCEPT ![r].pc = "read"]
  /\ late' = IF Closed(req[r].invoice) THEN late \union {r} ELSE late
  /\ UNCHANGED db

\* invoiceRepo.GetByID and the two checks on the status that was read.
ReadInvoice(r) ==
  /\ req[r].pc = "read"
  /\ req' = [req EXCEPT ![r].pc = IF Closed(req[r].invoice) THEN "refused"
                                                            ELSE "insert"]
  /\ UNCHANGED <<db, late>>

\* paymentRepo.Create
InsertPayment(r) ==
  /\ req[r].pc = "insert"
  /\ ledger' = [ledger EXCEPT ![req[r].invoice] = @ + req[r].amount]
  /\ recorded' = recorded \union {r}
  /\ req' = [req EXCEPT ![r].pc = "sum"]
  /\ UNCHANGED <<status, paidAmount, paidAt, late>>

\* paymentRepo.GetTotalByInvoice, and the comparison with the total.
SumPayments(r) ==
  /\ req[r].pc = "sum"
  /\ LET i == req[r].invoice IN
       req' = [req EXCEPT ![r].seen = ledger[i],
                          ![r].pc = IF Covers(ledger[i], i) THEN "settle"
                                                            ELSE "update"]
  /\ UNCHANGED <<db, late>>

\* invoiceRepo.UpdateStatus(paid): no condition on the status it overwrites.
SettleInvoice(r) ==
  /\ req[r].pc = "settle"
  /\ status' = [status EXCEPT ![req[r].invoice] = "paid"]
  /\ req' = [req EXCEPT ![r].pc = "update"]
  /\ UNCHANGED <<paidAmount, paidAt, ledger, recorded, late>>

\* invoiceRepo.UpdatePaidAmount: writes the sum that was read, and paid_at or NULL.
UpdatePaidAmount(r) ==
  /\ req[r].pc = "update"
  /\ LET i == req[r].invoice IN
       /\ paidAmount' = [paidAmount EXCEPT ![i] = req[r].seen]
       /\ paidAt' = [paidAt EXCEPT ![i] = Covers(req[r].seen, i)]
  /\ req' = [req EXCEPT ![r].pc = "created"]
  /\ UNCHANGED <<status, ledger, recorded, late>>

\* The statement the request is at fails, its context is cancelled, or the
\* server dies: what was committed stays, the rest never happens.
Abort(r) ==
  /\ req[r].pc \in InFlight
  /\ req' = [req EXCEPT ![r].pc = "failed"]
  /\ UNCHANGED <<db, late>>

\* CancelInvoice: one unconditional UPDATE.
CancelInvoice(i) ==
  /\ status' = [status EXCEPT ![i] = "cancelled"]
  /\ UNCHANGED <<paidAmount, paidAt, ledger, recorded, req, late>>

RecordPayment(r) ==
  \/ ReadInvoice(r)
  \/ InsertPayment(r)
  \/ SumPayments(r)
  \/ SettleInvoice(r)
  \/ UpdatePaidAmount(r)

Next ==
  \/ \E r \in Request : Arrive(r) \/ RecordPayment(r) \/ Abort(r)
  \/ \E i \in Invoice : CancelInvoice(i)

Spec == Init /\ [][Next]_vars

\* The Go scheduler runs every goroutine that can run: a request that was
\* accepted takes its next statement or aborts.  Arrivals, cancellations and
\* failures are up to the environment.
Fairness == \A r \in Request : WF_vars(RecordPayment(r))

FairSpec == Spec /\ Fairness

-----------------------------------------------------------------------------
(***************************************************************************)
(* Properties.                                                             *)
(***************************************************************************)

TypeOK ==
  /\ status \in [Invoice -> InvoiceStatus]
  /\ paidAmount \in [Invoice -> Int]
  /\ paidAt \in [Invoice -> BOOLEAN]
  /\ ledger \in [Invoice -> Int]
  /\ recorded \subseteq Request
  /\ req \in [Request -> RequestState]
  /\ late \subseteq Request

\* An invoice is marked paid only on the strength of money that is in the
\* ledger: whatever requests interleave, abort or are cancelled, a paid
\* invoice has payment rows that cover its total (RecordPayment,
\* UpdateStatus(paid)).
PaidIsCovered ==
  \A i \in Invoice : status[i] = "paid" => Covers(ledger[i], i)

\* The paid_amount shown on an invoice is never more than was received for
\* it, although concurrent requests overwrite each other's value
\* (UpdatePaidAmount).
PaidAmountIsBacked ==
  \A i \in Invoice : paidAmount[i] <= ledger[i]

\* A request that has its row in the ledger but has not acted on the sum yet,
\* or never will because it aborted there.
Unsettled(r) == r \in recorded /\ req[r].pc \in {"sum", "settle", "failed"}

\* However two or more payers interleave, the last one to insert sees all
\* rows: once every payment of an invoice was processed without a failure and
\* the rows cover the total, the invoice is no longer pending.  This is what
\* the order "insert, then sum, then compare" of RecordPayment is for.
CoveredIsSettled ==
  \A i \in Invoice :
    (/\ Covers(ledger[i], i)
     /\ \E r \in recorded : req[r].invoice = i
     /\ \A r \in Request : req[r].invoice = i => ~Unsettled(r))
    => status[i] # "pending"

\* An invoice that was paid or cancelled when a request arrived takes no
\* money from that request ("invoice is already paid", "cannot pay cancelled
\* invoice"): neither other requests nor cancellations can reopen it.
ClosedTakesNoMoney == late \intersect recorded = {}

\* Money that covers an invoice gets it out of "pending" eventually, unless a
\* request that recorded a payment of it failed.
CoveredEventuallySettled ==
  \A i \in Invoice :
    (ledger[i] > 0 /\ Covers(ledger[i], i))
      ~> \/ status[i] # "pending"
         \/ \E r \in Request : req[r].invoice = i /\ Unsettled(r) /\ req[r].pc = "failed"

\* The tables, seen without the requests, are an invoice account.
Account == INSTANCE InvoiceAccount WITH received <- ledger, displayed <- paidAmount

\* Refinement: every step of every request is a step of the account, or
\* changes nothing it shows.
ImplementsAccount == Account!Spec

-----------------------------------------------------------------------------
(***************************************************************************)
(* What the repository says of invoices and payments and the code does not *)
(* guarantee.  Each has a configuration that finds a counterexample.       *)
(***************************************************************************)

\* No request for the invoice is running.
Quiet(i) == \A r \in Request : req[r].invoice = i => req[r].pc \notin InFlight

\* No request for the invoice is running, and none failed.
Clean(i) == Quiet(i) /\ \A r \in Request : req[r].invoice = i => req[r].pc # "failed"

\* cross_module/data_consistency.go: "Total payments exceed invoice amount"
\* is an error.  Refuted by two requests that both passed the checks (and,
\* already one at a time, by an amount above what remains: no code compares).
PaymentsDoNotExceedTotal ==
  \A i \in Invoice : ledger[i] <= Total[i] \/ ledger[i] = 0

\* cross_module/data_consistency.go: "Invoice should be marked as paid" when
\* the payments cover it.  Refuted by a request that aborts after its insert.
CoveredIsMarkedPaid ==
  \A i \in Invoice :
    (Quiet(i) /\ ledger[i] > 0 /\ Covers(ledger[i], i)) => status[i] \in {"paid", "cancelled"}

\* integration/database_consistency_test.go: a paid invoice has a paid_at.
\* Refuted by a request that read a smaller sum and writes it last.
PaidHasPaidAt ==
  \A i \in Invoice : (Clean(i) /\ status[i] = "paid") => paidAt[i]

\* billing_service.go: "cannot pay cancelled invoice".  Refuted by a request
\* that read the invoice before it was cancelled.
CancelledIsNeverPaid ==
  [][\A i \in Invoice : status[i] = "cancelled" => status'[i] # "paid"]_vars

=============================================================================
