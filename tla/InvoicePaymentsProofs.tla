------------------------ MODULE InvoicePaymentsProofs ------------------------
(***************************************************************************)
(* Proofs about InvoicePayments, for any invoices, totals, amounts and any *)
(* number of requests.                                                     *)
(***************************************************************************)
EXTENDS InvoicePayments, TLAPS

-----------------------------------------------------------------------------
(***************************************************************************)
(* Type correctness.                                                       *)
(***************************************************************************)

LEMMA InitType == Init => TypeOK
BY DEF Init, TypeOK, RequestState, InvoiceStatus

\* Each action keeps the types of the tables and of the requests.
LEMMA NextType == TypeOK /\ [Next]_vars => TypeOK'
<1> SUFFICES ASSUME TypeOK, [Next]_vars PROVE TypeOK'
  OBVIOUS
<1> USE TotalAssumption, AmountAssumption
    DEF TypeOK, RequestState, InvoiceStatus, InFlight, Answered, db
<1>1. ASSUME NEW r \in Request, Arrive(r) PROVE TypeOK'
  BY <1>1 DEF Arrive
<1>2. ASSUME NEW r \in Request, ReadInvoice(r) PROVE TypeOK'
  BY <1>2 DEF ReadInvoice
<1>3. ASSUME NEW r \in Request, InsertPayment(r) PROVE TypeOK'
  BY <1>3 DEF InsertPayment
<1>4. ASSUME NEW r \in Request, SumPayments(r) PROVE TypeOK'
  BY <1>4 DEF SumPayments
<1>5. ASSUME NEW r \in Request, SettleInvoice(r) PROVE TypeOK'
  BY <1>5 DEF SettleInvoice
<1>6. ASSUME NEW r \in Request, UpdatePaidAmount(r) PROVE TypeOK'
  BY <1>6 DEF UpdatePaidAmount, Covers
<1>7. ASSUME NEW r \in Request, Abort(r) PROVE TypeOK'
  BY <1>7 DEF Abort
<1>8. ASSUME NEW i \in Invoice, CancelInvoice(i) PROVE TypeOK'
  BY <1>8 DEF CancelInvoice
<1>9. CASE UNCHANGED vars
  BY <1>9 DEF vars
<1>10. QED
  BY <1>1, <1>2, <1>3, <1>4, <1>5, <1>6, <1>7, <1>8, <1>9 DEF Next, RecordPayment

\* The tables and the requests keep their types.
THEOREM TypeCorrect == Spec => []TypeOK
<1>1. QED
  BY InitType, NextType, PTL DEF Spec

-----------------------------------------------------------------------------
(***************************************************************************)
(* The money.  PaidIsCovered and PaidAmountIsBacked are not inductive: what *)
(* a request is about to write comes from the sum it read earlier, so the  *)
(* sums in flight must be backed by the ledger as well.                    *)
(***************************************************************************)

\* The ledger is never negative, the sum a request holds was in the ledger,
\* and a request about to settle holds a sum that covers its invoice.
SumsAreBacked ==
  /\ \A i \in Invoice : ledger[i] >= 0
  /\ \A r \in Request : req[r].pc = "sum" => ledger[req[r].invoice] >= 1
  /\ \A r \in Request : req[r].pc \in {"settle", "update"} =>
       /\ 1 <= req[r].seen
       /\ req[r].seen <= ledger[req[r].invoice]
  /\ \A r \in Request : req[r].pc = "settle" => Covers(req[r].seen, req[r].invoice)

MoneyInv == SumsAreBacked /\ PaidIsCovered /\ PaidAmountIsBacked

LEMMA InitMoney == Init => MoneyInv
BY TotalAssumption DEF Init, MoneyInv, SumsAreBacked, PaidIsCovered, PaidAmountIsBacked

\* The ledger only grows.
LEMMA LedgerGrows ==
  ASSUME TypeOK, [Next]_vars
  PROVE  \A i \in Invoice : ledger'[i] >= ledger[i]
<1>1. ASSUME NEW r \in Request, InsertPayment(r)
      PROVE  \A i \in Invoice : ledger'[i] >= ledger[i]
  BY <1>1, AmountAssumption DEF InsertPayment, TypeOK, RequestState
<1>2. CASE UNCHANGED ledger
  BY <1>2 DEF TypeOK
<1>3. QED
  BY <1>1, <1>2 DEF Next, RecordPayment, Arrive, ReadInvoice, SumPayments,
     SettleInvoice, UpdatePaidAmount, Abort, CancelInvoice, vars, db

LEMMA NextMoney == TypeOK /\ MoneyInv /\ [Next]_vars => MoneyInv'
<1> SUFFICES ASSUME TypeOK, MoneyInv, [Next]_vars PROVE MoneyInv'
  OBVIOUS
<1> USE TotalAssumption, AmountAssumption
    DEF TypeOK, RequestState, MoneyInv, SumsAreBacked, PaidIsCovered,
        PaidAmountIsBacked, Covers, db
<1>1. ASSUME NEW r \in Request, Arrive(r) PROVE MoneyInv'
  BY <1>1 DEF Arrive
<1>2. ASSUME NEW r \in Request, ReadInvoice(r) PROVE MoneyInv'
  BY <1>2 DEF ReadInvoice
<1>3. ASSUME NEW r \in Request, InsertPayment(r) PROVE MoneyInv'
  <2>1. /\ UNCHANGED <<status, paidAmount>>
        /\ \A q \in Request \ {r} : req'[q] = req[q]
        /\ req'[r].pc = "sum" /\ req'[r].invoice = req[r].invoice
    BY <1>3 DEF InsertPayment
  <2>2. \A i \in Invoice : ledger'[i] \in Int /\ ledger'[i] >= ledger[i]
    BY <1>3 DEF InsertPayment
  <2>3. ledger'[req[r].invoice] >= 1
    <3>1. req[r].invoice \in Invoice /\ req[r].amount \in Amount
      OBVIOUS
    <3>2. ledger'[req[r].invoice] = ledger[req[r].invoice] + req[r].amount
      BY <1>3, <3>1 DEF InsertPayment
    <3>3. req[r].amount \in Nat /\ req[r].amount # 0
      BY <3>1, AmountAssumption
    <3>4. ledger[req[r].invoice] \in Int /\ ledger[req[r].invoice] >= 0
      BY <3>1
    <3>5. QED
      BY <3>2, <3>3, <3>4
  <2>4. QED
    BY <2>1, <2>2, <2>3
<1>4. ASSUME NEW r \in Request, SumPayments(r) PROVE MoneyInv'
  BY <1>4 DEF SumPayments
<1>5. ASSUME NEW r \in Request, SettleInvoice(r) PROVE MoneyInv'
  BY <1>5 DEF SettleInvoice
<1>6. ASSUME NEW r \in Request, UpdatePaidAmount(r) PROVE MoneyInv'
  BY <1>6 DEF UpdatePaidAmount
<1>7. ASSUME NEW r \in Request, Abort(r) PROVE MoneyInv'
  BY <1>7 DEF Abort
<1>8. ASSUME NEW i \in Invoice, CancelInvoice(i) PROVE MoneyInv'
  BY <1>8 DEF CancelInvoice
<1>9. CASE UNCHANGED vars
  BY <1>9 DEF vars
<1>10. QED
  BY <1>1, <1>2, <1>3, <1>4, <1>5, <1>6, <1>7, <1>8, <1>9 DEF Next, RecordPayment

LEMMA MoneyAlways == Spec => [](TypeOK /\ MoneyInv)
<1>1. Init => TypeOK /\ MoneyInv
  BY InitType, InitMoney
<1>2. (TypeOK /\ MoneyInv) /\ [Next]_vars => (TypeOK /\ MoneyInv)'
  BY NextType, NextMoney
<1>3. QED
  BY <1>1, <1>2, PTL DEF Spec

\* An invoice marked paid has payments that cover it, whatever requests
\* interleave, fail or are cancelled.
THEOREM PaidInvoicesAreCovered == Spec => []PaidIsCovered
<1>1. MoneyInv => PaidIsCovered
  BY DEF MoneyInv
<1>2. QED
  BY <1>1, MoneyAlways, PTL

\* The displayed paid_amount never exceeds what was received.
THEOREM DisplayedAmountsAreBacked == Spec => []PaidAmountIsBacked
<1>1. MoneyInv => PaidAmountIsBacked
  BY DEF MoneyInv
<1>2. QED
  BY <1>1, MoneyAlways, PTL

-----------------------------------------------------------------------------
(***************************************************************************)
(* Settlement.  CoveredIsSettled is inductive once the types are known: an *)
(* insertion leaves its request unsettled, and the request stops being     *)
(* unsettled only by reading a sum that does not cover the invoice or by   *)
(* marking it paid.                                                        *)
(***************************************************************************)

LEMMA InitSettled == Init => CoveredIsSettled
BY DEF Init, CoveredIsSettled

LEMMA NextSettled == TypeOK /\ CoveredIsSettled /\ [Next]_vars => CoveredIsSettled'
<1> SUFFICES ASSUME TypeOK, CoveredIsSettled, [Next]_vars,
                    NEW i \in Invoice,
                    Covers(ledger'[i], i),
                    NEW w \in recorded', req'[w].invoice = i,
                    \A q \in Request : req'[q].invoice = i => ~Unsettled(q)'
             PROVE  status'[i] # "pending"
  BY DEF CoveredIsSettled
<1> USE DEF TypeOK, RequestState, Unsettled, db
\* A step that leaves i and its payments alone and settles no request.
<1>1. ASSUME status'[i] = status[i], ledger'[i] = ledger[i], w \in recorded,
             \A q \in Request : req'[q].invoice = req[q].invoice,
             \A q \in Request : req[q].invoice = i /\ Unsettled(q) => Unsettled(q)'
      PROVE  status'[i] # "pending"
  BY <1>1 DEF CoveredIsSettled
<1>2. ASSUME NEW r \in Request, Arrive(r) PROVE status'[i] # "pending"
  BY <1>1, <1>2 DEF Arrive
<1>3. ASSUME NEW r \in Request, ReadInvoice(r) PROVE status'[i] # "pending"
  BY <1>1, <1>3 DEF ReadInvoice
<1>4. ASSUME NEW r \in Request, InsertPayment(r) PROVE status'[i] # "pending"
  <2>1. req'[r].invoice = req[r].invoice /\ req'[r].pc = "sum" /\ r \in recorded'
    BY <1>4 DEF InsertPayment
  <2>2. req[r].invoice # i
    BY <2>1
  <2>3. QED
    BY <1>1, <1>4, <2>1, <2>2 DEF InsertPayment
<1>5. ASSUME NEW r \in Request, SumPayments(r) PROVE status'[i] # "pending"
  <2>1. CASE Covers(ledger[req[r].invoice], req[r].invoice)
    <3>1. req' = [req EXCEPT ![r].seen = ledger[req[r].invoice], ![r].pc = "settle"]
      BY <1>5, <2>1 DEF SumPayments
    <3>2. QED
      BY <1>1, <1>5, <3>1 DEF SumPayments
  <2>2. CASE ~Covers(ledger[req[r].invoice], req[r].invoice)
    <3>1. req[r].invoice # i
      BY <1>5, <2>2 DEF SumPayments
    <3>2. QED
      BY <1>1, <1>5, <3>1 DEF SumPayments
  <2>3. QED
    BY <2>1, <2>2
<1>6. ASSUME NEW r \in Request, SettleInvoice(r) PROVE status'[i] # "pending"
  <2>1. CASE req[r].invoice = i
    BY <1>6, <2>1 DEF SettleInvoice
  <2>2. CASE req[r].invoice # i
    BY <1>1, <1>6, <2>2 DEF SettleInvoice
  <2>3. QED
    BY <2>1, <2>2
<1>7. ASSUME NEW r \in Request, UpdatePaidAmount(r) PROVE status'[i] # "pending"
  BY <1>1, <1>7 DEF UpdatePaidAmount
<1>8. ASSUME NEW r \in Request, Abort(r) PROVE status'[i] # "pending"
  BY <1>1, <1>8 DEF Abort
<1>9. ASSUME NEW j \in Invoice, CancelInvoice(j) PROVE status'[i] # "pending"
  <2>1. CASE j = i
    BY <1>9, <2>1 DEF CancelInvoice
  <2>2. CASE j # i
    BY <1>1, <1>9, <2>2 DEF CancelInvoice
  <2>3. QED
    BY <2>1, <2>2
<1>10. CASE UNCHANGED vars
  BY <1>1, <1>10 DEF vars
<1>11. QED
  BY <1>2, <1>3, <1>4, <1>5, <1>6, <1>7, <1>8, <1>9, <1>10 DEF Next, RecordPayment

\* However payers interleave: when every payment of an invoice was processed
\* without a failure and they cover it, it is not pending any more.
THEOREM CoveredInvoicesAreSettled == Spec => []CoveredIsSettled
<1>1. Init => TypeOK /\ CoveredIsSettled
  BY InitType, InitSettled
<1>2. (TypeOK /\ CoveredIsSettled) /\ [Next]_vars => (TypeOK /\ CoveredIsSettled)'
  BY NextType, NextSettled
<1>3. QED
  BY <1>1, <1>2, PTL DEF Spec

-----------------------------------------------------------------------------
(***************************************************************************)
(* Closed invoices.  A request that arrives at a closed invoice can only   *)
(* be refused or fail, because no step reopens an invoice.                 *)
(***************************************************************************)

LateIsOut ==
  /\ \A r \in Request : req[r].pc \in {"idle", "read", "insert"} => r \notin recorded
  /\ \A r \in late :
       /\ Closed(req[r].invoice)
       /\ req[r].pc \in {"read", "refused", "failed"}
       /\ r \notin recorded

LEMMA InitLate == Init => LateIsOut
BY DEF Init, LateIsOut

LEMMA NextLate == TypeOK /\ LateIsOut /\ [Next]_vars => LateIsOut'
<1> SUFFICES ASSUME TypeOK, LateIsOut, [Next]_vars PROVE LateIsOut'
  OBVIOUS
<1> USE DEF TypeOK, RequestState, InvoiceStatus, LateIsOut, Closed, InFlight, db
<1>1. ASSUME NEW r \in Request, Arrive(r) PROVE LateIsOut'
  BY <1>1 DEF Arrive
<1>2. ASSUME NEW r \in Request, ReadInvoice(r) PROVE LateIsOut'
  BY <1>2 DEF ReadInvoice
<1>3. ASSUME NEW r \in Request, InsertPayment(r) PROVE LateIsOut'
  BY <1>3 DEF InsertPayment
<1>4. ASSUME NEW r \in Request, SumPayments(r) PROVE LateIsOut'
  BY <1>4 DEF SumPayments
<1>5. ASSUME NEW r \in Request, SettleInvoice(r) PROVE LateIsOut'
  BY <1>5 DEF SettleInvoice
<1>6. ASSUME NEW r \in Request, UpdatePaidAmount(r) PROVE LateIsOut'
  BY <1>6 DEF UpdatePaidAmount
<1>7. ASSUME NEW r \in Request, Abort(r) PROVE LateIsOut'
  BY <1>7 DEF Abort
<1>8. ASSUME NEW i \in Invoice, CancelInvoice(i) PROVE LateIsOut'
  BY <1>8 DEF CancelInvoice
<1>9. CASE UNCHANGED vars
  BY <1>9 DEF vars
<1>10. QED
  BY <1>1, <1>2, <1>3, <1>4, <1>5, <1>6, <1>7, <1>8, <1>9 DEF Next, RecordPayment

\* A request that arrives at a paid or cancelled invoice never adds money.
THEOREM ClosedInvoicesTakeNoMoney == Spec => []ClosedTakesNoMoney
<1>1. Init => TypeOK /\ LateIsOut
  BY InitType, InitLate
<1>2. (TypeOK /\ LateIsOut) /\ [Next]_vars => (TypeOK /\ LateIsOut)'
  BY NextType, NextLate
<1>3. LateIsOut => ClosedTakesNoMoney
  BY DEF LateIsOut, ClosedTakesNoMoney
<1>4. QED
  BY <1>1, <1>2, <1>3, PTL DEF Spec

-----------------------------------------------------------------------------
(***************************************************************************)
(* Refinement: the tables implement InvoiceAccount.                        *)
(***************************************************************************)

LEMMA InitAccount == Init => Account!Init
BY DEF Init, Account!Init

LEMMA NextAccount == TypeOK /\ MoneyInv /\ [Next]_vars => [Account!Next]_(Account!acct)
<1> SUFFICES ASSUME TypeOK, MoneyInv, [Next]_vars PROVE [Account!Next]_(Account!acct)
  OBVIOUS
<1> USE DEF TypeOK, RequestState, Account!Next, Account!acct, db
<1>1. ASSUME NEW r \in Request, InsertPayment(r) PROVE [Account!Next]_(Account!acct)
  <2>1. Account!Receive(req[r].invoice, req[r].amount)
    BY <1>1 DEF InsertPayment, Account!Receive
  <2>2. req[r].invoice \in Invoice /\ req[r].amount \in Amount
    OBVIOUS
  <2>3. QED
    BY <2>1, <2>2
<1>2. ASSUME NEW r \in Request, SettleInvoice(r) PROVE [Account!Next]_(Account!acct)
  <2>1. ledger[req[r].invoice] >= Total[req[r].invoice]
    <3>1. /\ req[r].seen <= ledger[req[r].invoice]
          /\ req[r].seen >= Total[req[r].invoice]
      BY <1>2 DEF SettleInvoice, MoneyInv, SumsAreBacked, Covers
    <3>2. req[r].seen \in Int /\ req[r].invoice \in Invoice
      OBVIOUS
    <3>3. ledger[req[r].invoice] \in Int /\ Total[req[r].invoice] \in Int
      BY <3>2, TotalAssumption
    <3>4. QED
      BY <3>1, <3>2, <3>3
  <2>2. Account!Settle(req[r].invoice)
    BY <1>2, <2>1 DEF SettleInvoice, Account!Settle
  <2>3. QED
    BY <2>2
<1>3. ASSUME NEW r \in Request, UpdatePaidAmount(r) PROVE [Account!Next]_(Account!acct)
  <2>1. req[r].seen \in 1..ledger[req[r].invoice]
    BY <1>3 DEF UpdatePaidAmount, MoneyInv, SumsAreBacked
  <2>2. Account!Display(req[r].invoice)
    BY <1>3, <2>1 DEF UpdatePaidAmount, Account!Display
  <2>3. QED
    BY <2>2
<1>4. ASSUME NEW i \in Invoice, CancelInvoice(i) PROVE [Account!Next]_(Account!acct)
  <2>1. Account!Cancel(i)
    BY <1>4 DEF CancelInvoice, Account!Cancel
  <2>2. QED
    BY <2>1
<1>5. CASE UNCHANGED <<status, ledger, paidAmount>>
  BY <1>5
<1>6. QED
  BY <1>1, <1>2, <1>3, <1>4, <1>5
     DEF Next, RecordPayment, Arrive, ReadInvoice, SumPayments, Abort, vars

\* Every interleaving of requests is a behaviour of the account.
THEOREM Refinement == Spec => ImplementsAccount
<1>1. QED
  BY MoneyAlways, InitAccount, NextAccount, PTL DEF Spec, ImplementsAccount, Account!Spec

=============================================================================
