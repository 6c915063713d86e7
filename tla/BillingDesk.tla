----------------------------- MODULE BillingDesk -----------------------------
(***************************************************************************)
(* The billing and finance pages over billingStore: the lists of invoices   *)
(* and payments with their filters, the page of an invoice, the recording   *)
(* of a payment and the cancellation of an invoice.                         *)
(*                                                                          *)
(* One flag, loading, is set and reset by every request of the store, and   *)
(* the two list fetches are skipped while it is set.                        *)
(***************************************************************************)
EXTENDS Naturals, FiniteSets

CONSTANTS
    Accounts,       \* invoices
    MaxDeskPages,   \* bound: pages of a list
    MaxDeskPayments, \* bound: payments recorded from the page of an invoice
    MaxDeskAsked    \* bound: requests waited for when a list is fetched

ASSUME DeskAssumption ==
    MaxDeskPages \in Nat \ {0} /\ MaxDeskPayments \in Nat /\ MaxDeskAsked \in Nat /\ {"none", "dashboard", "invoices", "payments"} \cap Accounts = {}

Lists == {"invoices", "payments"}
Queries == [filter : {"all", "some"}, page : 1..MaxDeskPages]
FirstQuery == [filter |-> "all", page |-> 1]
NoRows == [filter |-> "all", page |-> 0]

VARIABLES
    desk,           \* the page the lists are on: billing or finance
    deskPage,       \* the tab of a list, the dashboard, or an invoice
    deskLoading,    \* billingStore.loading
    deskError,      \* billingStore.error is set
    query,          \* filters and page of each list
    rowsOf,         \* the query the rows of a list answer, NoRows when it is empty
    listing,        \* list fetches in flight: list and query
    overdueAsked,   \* fetchOverdueInvoices in flight
    invoice,        \* billingStore.invoice
    invoiceAsked,   \* fetchInvoice in flight, from the page of an invoice
    cancelling,     \* cancelInvoice in flight
    formOpen,       \* the page shows the payment form
    paymentLoading, \* the page waits for a payment
    paying,         \* recordPayment in flight
    paid,           \* the server: payments recorded for an invoice
    submitted       \* payments submitted so far (numbers the requests)

deskVars == <<desk, deskPage, deskLoading, deskError, query, rowsOf, listing, overdueAsked, invoice, invoiceAsked,
          cancelling, formOpen, paymentLoading, paying, paid, submitted>>
lists == <<desk, query, rowsOf, listing, overdueAsked>>
detail == <<invoice, invoiceAsked, formOpen, paymentLoading>>
payment == <<paying, paid, submitted>>

DeskInit ==
    /\ desk \in {"billing", "finance"} /\ deskPage = "invoices" /\ deskLoading = FALSE /\ deskError = FALSE
    /\ query = [l \in Lists |-> FirstQuery] /\ rowsOf = [l \in Lists |-> NoRows]
    /\ listing = {} /\ overdueAsked = FALSE /\ invoice = "none" /\ invoiceAsked = {}
    /\ cancelling = {} /\ formOpen = FALSE /\ paymentLoading = FALSE
    /\ paying = {} /\ paid = [i \in Accounts |-> 0] /\ submitted = 0

Asked == Cardinality(listing) + Cardinality(invoiceAsked) + Cardinality(cancelling) + Cardinality(paying)
            + (IF overdueAsked THEN 1 ELSE 0)
MayAsk == Asked <= MaxDeskAsked

-----------------------------------------------------------------------------
(* The lists *)

\* fetchInvoices, fetchPayments: skipped while the store is loading.
FetchList(l, q) ==
    listing' = IF deskLoading THEN listing ELSE listing \cup {<<l, q>>}

\* The invoices' tab fetches the overdue ones as well, which is not skipped; that
\* of finance not when only the filters have changed.
OverdueToo(l, q) ==
    l = "invoices" /\ (desk = "billing" \/ deskPage # l \/ q.page # query[l].page)

FetchForTab(l, q) ==
    /\ MayAsk /\ FetchList(l, q) /\ query' = [query EXCEPT ![l] = q]
    /\ overdueAsked' = (overdueAsked \/ OverdueToo(l, q))
    /\ deskLoading' = TRUE /\ deskError' = FALSE

\* The page of an invoice forgets it when it is left.
LeaveInvoice ==
    /\ invoice' = "none" /\ formOpen' = FALSE /\ paymentLoading' = FALSE
    /\ paying' = {[p EXCEPT !.mounted = FALSE] : p \in paying}

ShowList(l) ==
    /\ deskPage # l /\ deskPage' = l
    /\ FetchForTab(l, query[l])
    /\ LeaveInvoice
    /\ UNCHANGED <<desk, rowsOf, invoiceAsked, cancelling, paid, submitted>>

\* The dashboard of finance fetches both lists at once: the store is loading the
\* invoices when the payments are asked for.
OpenDashboard ==
    /\ deskPage # "dashboard" /\ MayAsk
    /\ deskPage' = "dashboard" /\ desk' = "finance"
    /\ FetchList("invoices", query["invoices"])
    /\ deskLoading' = TRUE /\ deskError' = FALSE
    /\ LeaveInvoice
    /\ UNCHANGED <<query, rowsOf, overdueAsked, invoiceAsked, cancelling, paid, submitted>>

\* The lists of which the dashboard shows the first rows; the other figures are
\* the summary's, and examples.
DashboardShows(l) == deskPage = "dashboard" /\ rowsOf[l] # NoRows

\* The alert on overdue invoices leads to the billing page, filtered.
ShowOverdue ==
    /\ deskPage = "invoices" /\ ~deskError
    /\ FetchForTab("invoices", [filter |-> "some", page |-> 1]) /\ desk' = "billing"
    /\ UNCHANGED <<deskPage, rowsOf, detail, cancelling, payment>>

\* A new filter begins at the first page.  The filters stay reachable while the
\* list is loading, but not when an error replaces the page.
SetFilters(l, f) ==
    /\ deskPage = l /\ ~deskError
    /\ FetchForTab(l, [filter |-> f, page |-> 1])
    /\ UNCHANGED <<desk, deskPage, rowsOf, detail, cancelling, payment>>

\* The button that should empty the filters merges nothing into them.
ClearFilters(l) == SetFilters(l, query[l].filter)

MayTurn(l, p) == ~deskLoading /\ p \in 1..MaxDeskPages
SetPagination(l, p) ==
    /\ deskPage = l /\ ~deskError /\ p # query[l].page /\ MayTurn(l, p)
    /\ FetchForTab(l, [query[l] EXCEPT !.page = p])
    /\ UNCHANGED <<desk, deskPage, rowsOf, detail, cancelling, payment>>

ListArrives(l, q, ok) ==
    /\ <<l, q>> \in listing /\ listing' = listing \ {<<l, q>>}
    /\ rowsOf' = [rowsOf EXCEPT ![l] = IF ok THEN q ELSE NoRows]
    /\ deskLoading' = FALSE /\ deskError' = (deskError \/ ~ok)
    /\ UNCHANGED <<desk, deskPage, query, overdueAsked, detail, cancelling, payment>>

OverdueArrive(ok) ==
    /\ overdueAsked /\ overdueAsked' = FALSE
    /\ deskLoading' = FALSE /\ deskError' = (deskError \/ ~ok)
    /\ UNCHANGED <<desk, deskPage, query, rowsOf, listing, detail, cancelling, payment>>

\* The table, with its buttons, is not shown while the store is loading.
RowsShown(l) == deskPage = l /\ ~deskLoading /\ ~deskError /\ rowsOf[l] # NoRows

CancelInvoice(i) ==
    /\ MayAsk /\ RowsShown("invoices")
    /\ cancelling' = cancelling \cup {i} /\ deskLoading' = TRUE
    /\ UNCHANGED <<deskPage, deskError, lists, detail, payment>>

Cancelled(i, ok) ==
    /\ i \in cancelling /\ cancelling' = cancelling \ {i}
    /\ deskLoading' = FALSE /\ deskError' = (deskError \/ ~ok)
    /\ UNCHANGED <<deskPage, lists, detail, payment>>

-----------------------------------------------------------------------------
(* The page of an invoice *)

OnInvoice == deskPage \in Accounts /\ ~deskLoading /\ ~deskError /\ invoice # "none"

OpenInvoice(i) ==
    /\ \E l \in Lists : RowsShown(l)
    /\ deskPage' = i /\ deskLoading' = TRUE
    /\ invoiceAsked' = invoiceAsked \cup {i}
    /\ UNCHANGED <<deskError, lists, invoice, cancelling, formOpen, paymentLoading, payment>>

\* Whatever page is shown by then.
FetchInvoiceDetail(i, ok) ==
    /\ i \in invoiceAsked /\ invoiceAsked' = invoiceAsked \ {i}
    /\ invoice' = IF ok THEN i ELSE invoice
    /\ deskLoading' = FALSE /\ deskError' = (deskError \/ ~ok)
    /\ UNCHANGED <<deskPage, lists, cancelling, formOpen, paymentLoading, payment>>

\* Offered for a pending invoice that is not covered.
OpenPaymentForm ==
    /\ OnInvoice /\ ~formOpen /\ paid[invoice] = 0 /\ formOpen' = TRUE
    /\ UNCHANGED <<deskPage, deskLoading, deskError, lists, invoice, invoiceAsked, cancelling, paymentLoading, payment>>

\* The form's buttons.
MayTouchForm == OnInvoice /\ formOpen /\ ~paymentLoading

ClosePaymentForm ==
    /\ MayTouchForm /\ formOpen' = FALSE
    /\ UNCHANGED <<deskPage, deskLoading, deskError, lists, invoice, invoiceAsked, cancelling, paymentLoading, payment>>

SubmitPayment ==
    /\ MayTouchForm /\ submitted < MaxDeskPayments
    /\ submitted' = submitted + 1 /\ paymentLoading' = TRUE /\ deskLoading' = TRUE
    /\ paying' = paying \cup {[n |-> submitted + 1, of |-> invoice, page |-> deskPage, step |-> "record", mounted |-> TRUE]}
    /\ UNCHANGED <<deskPage, deskError, lists, invoice, invoiceAsked, cancelling, formOpen, paid>>

\* The handler goes on to its next step, or ends.  After the recording it hides
\* the form; when it ends the page does not wait any more.
GoesOn(p, step) ==
    /\ paying' = (paying \ {p}) \cup {[p EXCEPT !.step = step]}
    /\ formOpen' = (formOpen /\ ~(step = "show" /\ p.mounted))
    /\ deskLoading' = TRUE /\ deskError' = FALSE /\ UNCHANGED paymentLoading
Ends(p, ok) ==
    /\ paying' = paying \ {p}
    /\ paymentLoading' = (paymentLoading /\ ~p.mounted)
    /\ deskLoading' = FALSE /\ deskError' = (deskError \/ ~ok) /\ UNCHANGED formOpen

\* recordPayment: the invoice the store holds is fetched again when it is the
\* one that was paid.
RecordPayment(p, stored, ok) ==
    /\ p \in paying /\ p.step = "record" /\ (ok => stored)
    /\ paid' = IF stored THEN [paid EXCEPT ![p.of] = @ + 1] ELSE paid
    /\ IF ok THEN GoesOn(p, IF invoice = p.of THEN "reload" ELSE "show") ELSE Ends(p, FALSE)
    /\ UNCHANGED <<deskPage, lists, invoice, invoiceAsked, cancelling, submitted>>

\* The failure of this fetch is reported as one of the recording.
ReloadPaid(p, ok) ==
    /\ p \in paying /\ p.step = "reload"
    /\ invoice' = IF ok THEN p.of ELSE invoice
    /\ IF ok THEN GoesOn(p, "show") ELSE Ends(p, FALSE)
    /\ UNCHANGED <<deskPage, lists, invoiceAsked, cancelling, paid, submitted>>

\* The page fetches its own invoice once more, and the payments.
ShowPaid(p, ok) ==
    /\ p \in paying /\ p.step = "show"
    /\ invoice' = IF ok THEN p.page ELSE invoice
    /\ Ends(p, ok)
    /\ UNCHANGED <<deskPage, lists, invoiceAsked, cancelling, paid, submitted>>

-----------------------------------------------------------------------------
DeskNext ==
    \/ \E l \in Lists : ShowList(l) \/ ClearFilters(l)
    \/ ShowOverdue \/ OpenDashboard
    \/ \E l \in Lists, f \in {"all", "some"} : SetFilters(l, f)
    \/ \E l \in Lists, p \in 1..MaxDeskPages : SetPagination(l, p)
    \/ \E e \in listing, ok \in BOOLEAN : ListArrives(e[1], e[2], ok)
    \/ \E ok \in BOOLEAN : OverdueArrive(ok)
    \/ \E i \in Accounts : CancelInvoice(i) \/ OpenInvoice(i)
    \/ \E i \in Accounts, ok \in BOOLEAN : Cancelled(i, ok) \/ FetchInvoiceDetail(i, ok)
    \/ OpenPaymentForm \/ ClosePaymentForm \/ SubmitPayment
    \/ \E p \in paying, stored, ok \in BOOLEAN : RecordPayment(p, stored, ok)
    \/ \E p \in paying, ok \in BOOLEAN : ReloadPaid(p, ok) \/ ShowPaid(p, ok)

DeskSpec == DeskInit /\ [][DeskNext]_deskVars

-----------------------------------------------------------------------------
(* Properties *)

\* The page of an invoice has at most one payment under way, whatever other
\* requests of the store end meanwhile and remove the spinner that hides the
\* form (InvoiceDetailPage.handleRecordPayment).
OnePaymentAtATime == Cardinality({p \in paying : p.mounted}) <= 1

\* Once nothing is being fetched, the rows of the list shown answer its filters
\* and its page.
RowsAnswerQuery ==
    deskPage \in Lists /\ listing = {} /\ ~deskError => rowsOf[deskPage] \in {query[deskPage], NoRows}

\* The dashboard shows recent payments once nothing is being fetched.
DashboardIsComplete == deskPage = "dashboard" /\ Asked = 0 /\ ~deskError => DashboardShows("payments")

\* The page of an invoice shows that invoice.
PageShowsItsInvoice == OnInvoice => invoice = deskPage

\* A payment that is reported as failed was not recorded.
FailureIsFailure == [][\A p \in paying \ paying' : deskError' => (p.step = "record" /\ paid[p.of] = paid'[p.of])]_deskVars
=============================================================================
