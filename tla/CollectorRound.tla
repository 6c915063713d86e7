--------------------------- MODULE CollectorRound ---------------------------
(***************************************************************************)
(* A collector's round: the marks of the client list (paid in full, not at  *)
(* home, a partial payment), the deposit of what was collected, and the     *)
(* payments of the month shown.  The marks and the deposits are kept in     *)
(* collectorStore only; a partial payment is recorded on the server.        *)
(***************************************************************************)
EXTENDS Naturals, FiniteSets, FiniteSetsExt

CONSTANTS
    Customers,      \* clients on the round
    Owed,           \* what each of them owes, from its service package
    Months,         \* months the list can be set to
    MaxRoundPosts,  \* bound: recordings of payments at one time
    MaxDeposits     \* bound: deposits submitted

ASSUME RoundAssumption ==
    /\ Owed \in Nat \ {0} /\ MaxRoundPosts \in Nat /\ MaxDeposits \in Nat
    /\ IsFiniteSet(Customers) /\ "nobody" \notin Customers

VARIABLES
    roundPage,      \* "clients" (the list) or "collector" (the overview)
    paidFullClients, notHomeClients,    \* collectorStore
    partialPayments,    \* collectorStore: client -> amount, 0 for none
    partialModal,       \* collectorStore.partialPaymentModal.clientId
    depositModal,       \* collectorStore.depositModal.open
    todayDeposits,      \* collectorStore: the amounts deposited and the clients they are said to be of
    recording,      \* recordPayment in flight: client, amount, and whether its dialog still waits for it
    received,       \* the server: partial payments recorded
    packagesLoaded, \* the component shown has the service packages, and so the prices
    selectedMonth,  \* collectorStore.selectedDate
    asking,         \* months whose payments are being fetched
    paymentsOf      \* the month collectorStore.payments is of

round == <<roundPage, paidFullClients, notHomeClients, partialPayments, partialModal, depositModal,
           todayDeposits, recording, received, packagesLoaded, selectedMonth, asking, paymentsOf>>
money == <<todayDeposits, depositModal>>
shownMonth == <<selectedMonth, asking, paymentsOf>>
marks == <<paidFullClients, notHomeClients, partialPayments>>

RoundInit ==
    /\ roundPage = "clients" /\ paidFullClients = {} /\ notHomeClients = {}
    /\ partialPayments = [c \in Customers |-> 0] /\ partialModal = "nobody" /\ depositModal = FALSE
    /\ todayDeposits = {} /\ recording = {} /\ received = {} /\ packagesLoaded = FALSE
    /\ selectedMonth = (CHOOSE m \in Months : TRUE) /\ asking = {} /\ paymentsOf = selectedMonth

-----------------------------------------------------------------------------
(* Amounts *)

\* calculateTotal: nothing while the packages are not there.
CalculateTotal(c) == IF packagesLoaded THEN Owed ELSE 0

\* totalCollectedToday and depositAmount.
TotalCollected ==
    MapThenSumSet(CalculateTotal, paidFullClients)
        + MapThenSumSet(LAMBDA c : partialPayments[c], Customers)

-----------------------------------------------------------------------------
(* The marks of a client: setting one clears the others, taking it back clears
   only itself. *)

\* A dialog covers the list.
ListInFront == roundPage = "clients" /\ partialModal = "nobody"
MayToggleFull(c) == c \notin notHomeClients
MayToggleHome(c) == c \notin paidFullClients
MayOpenPartial(c) == c \notin paidFullClients \cup notHomeClients /\ partialPayments[c] = 0

MarkClientPaidFull(c) ==
    /\ ListInFront /\ MayToggleFull(c)
    /\ \/ /\ c \in paidFullClients /\ paidFullClients' = paidFullClients \ {c}
          /\ UNCHANGED <<notHomeClients, partialPayments>>
       \/ /\ c \notin paidFullClients /\ paidFullClients' = paidFullClients \cup {c}
          /\ notHomeClients' = notHomeClients \ {c}
          /\ partialPayments' = [partialPayments EXCEPT ![c] = 0]
    /\ UNCHANGED <<roundPage, partialModal, recording, received, packagesLoaded, money, shownMonth>>

MarkClientNotHome(c) ==
    /\ ListInFront /\ MayToggleHome(c)
    /\ \/ /\ c \in notHomeClients /\ notHomeClients' = notHomeClients \ {c}
          /\ UNCHANGED <<paidFullClients, partialPayments>>
       \/ /\ c \notin notHomeClients /\ notHomeClients' = notHomeClients \cup {c}
          /\ paidFullClients' = paidFullClients \ {c}
          /\ partialPayments' = [partialPayments EXCEPT ![c] = 0]
    /\ UNCHANGED <<roundPage, partialModal, recording, received, packagesLoaded, money, shownMonth>>

\* The mark goes; the payment that was recorded stays.
RemovePartialPayment(c) ==
    /\ ListInFront /\ partialPayments[c] > 0
    /\ partialPayments' = [partialPayments EXCEPT ![c] = 0]
    /\ UNCHANGED <<roundPage, paidFullClients, notHomeClients, partialModal, recording, received,
                   packagesLoaded, money, shownMonth>>

OpenPartialPayment(c) ==
    /\ ListInFront /\ MayOpenPartial(c)
    /\ partialModal' = c
    /\ UNCHANGED <<roundPage, marks, recording, received, packagesLoaded, money, shownMonth>>

-----------------------------------------------------------------------------
(* The dialog of a partial payment *)

IsSubmitting == \E r \in recording : r.waiting
DialogInFront == roundPage = "clients" /\ partialModal # "nobody" /\ ~IsSubmitting

ClosePartialPayment ==
    /\ DialogInFront /\ partialModal' = "nobody"
    /\ UNCHANGED <<roundPage, marks, recording, received, packagesLoaded, money, shownMonth>>

\* handleSubmit: less than the total, which is 0 until the packages are there.
MayRecord(c, amount) == amount > 0 /\ amount < CalculateTotal(c)

SubmitPartialPayment(amount) ==
    /\ DialogInFront /\ MayRecord(partialModal, amount) /\ Cardinality(recording) < MaxRoundPosts
    /\ recording' = recording \cup {[client |-> partialModal, amount |-> amount, waiting |-> TRUE]}
    /\ UNCHANGED <<roundPage, marks, partialModal, received, packagesLoaded, money, shownMonth>>

\* addPartialPayment, once the server has answered; onClose closes whatever
\* dialog is open.  Mutant: the mark is set although the recording failed.
PartialAfterAlways(r, ok) == [partialPayments EXCEPT ![r.client] = r.amount]
PartialAfter(r, ok) ==
    IF ok THEN [partialPayments EXCEPT ![r.client] = r.amount] ELSE partialPayments

\* A recording may fail, also after the server has stored it.
AddPartialPayment(r, stored, ok) ==
    /\ r \in recording /\ (ok => stored)
    /\ recording' = recording \ {r}
    /\ received' = IF stored THEN received \cup {<<r.client, r.amount>>} ELSE received
    /\ partialPayments' = PartialAfter(r, ok)
    /\ partialModal' = IF ok THEN "nobody" ELSE partialModal
    /\ UNCHANGED <<roundPage, paidFullClients, notHomeClients, packagesLoaded, money, shownMonth>>

-----------------------------------------------------------------------------
(* The overview and the deposit *)

GoTo(p) ==
    /\ roundPage # p /\ roundPage' = p /\ packagesLoaded' = FALSE
    /\ recording' = {[r EXCEPT !.waiting = FALSE] : r \in recording}
    /\ UNCHANGED <<marks, partialModal, received, money, shownMonth>>

\* servicePackageService.list has answered; when it fails the prices stay 0.
OwedArrive ==
    /\ ~packagesLoaded /\ packagesLoaded' = TRUE
    /\ UNCHANGED <<roundPage, marks, partialModal, recording, received, money, shownMonth>>

\* The dialog loads the packages for itself.
OpenDeposit ==
    /\ roundPage = "collector" /\ ~depositModal /\ paidFullClients # {}
    /\ depositModal' = TRUE /\ packagesLoaded' = FALSE
    /\ UNCHANGED <<roundPage, marks, partialModal, todayDeposits, recording, received, shownMonth>>

\* submitDeposit takes the amount as shown; the marks stay.
SubmitDeposit ==
    /\ roundPage = "collector" /\ depositModal /\ TotalCollected > 0
    /\ Cardinality(todayDeposits) < MaxDeposits
    /\ todayDeposits' = todayDeposits \cup {[amount |-> TotalCollected, of |-> paidFullClients]}
    /\ depositModal' = FALSE
    /\ UNCHANGED <<roundPage, marks, partialModal, recording, received, packagesLoaded, shownMonth>>

CloseDeposit ==
    /\ roundPage = "collector" /\ depositModal /\ depositModal' = FALSE
    /\ UNCHANGED <<roundPage, marks, partialModal, todayDeposits, recording, received, packagesLoaded, shownMonth>>

-----------------------------------------------------------------------------
(* The month shown *)

\* Both pages fetch the payments of the new month.
SetSelectedDate(m) ==
    /\ m # selectedMonth /\ selectedMonth' = m /\ asking' = asking \cup {m}
    /\ UNCHANGED <<roundPage, marks, partialModal, recording, received, packagesLoaded, money, paymentsOf>>

\* fetchPaymentsForDate: the last answer wins.
FetchPaymentsForDate(m) ==
    /\ m \in asking /\ asking' = asking \ {m} /\ paymentsOf' = m
    /\ UNCHANGED <<roundPage, marks, partialModal, recording, received, packagesLoaded, money, selectedMonth>>

-----------------------------------------------------------------------------
RoundNext ==
    \/ \E c \in Customers :
          \/ MarkClientPaidFull(c) \/ MarkClientNotHome(c)
          \/ RemovePartialPayment(c) \/ OpenPartialPayment(c)
    \/ ClosePartialPayment \/ \E a \in 1..Owed : SubmitPartialPayment(a)
    \/ \E r \in recording, stored, ok \in BOOLEAN : AddPartialPayment(r, stored, ok)
    \/ \E p \in {"clients", "collector"} : GoTo(p)
    \/ OwedArrive \/ OpenDeposit \/ SubmitDeposit \/ CloseDeposit
    \/ \E m \in Months : SetSelectedDate(m) \/ FetchPaymentsForDate(m)

RoundSpec == RoundInit /\ [][RoundNext]_round

-----------------------------------------------------------------------------
(* Properties *)

\* What the list shows as a partial payment is less than what the client owes,
\* and the server has recorded it (collectorStore.addPartialPayment; payments may
\* fail, and dialogs be left and opened again, in any order).
PartialIsBacked ==
    \A c \in Customers : partialPayments[c] > 0 =>
        partialPayments[c] < Owed /\ <<c, partialPayments[c]>> \in received

\* A client is paid in full, or not at home, or has paid a part, and is counted
\* once in the total.
MarksExclude ==
    /\ paidFullClients \cap notHomeClients = {}
    /\ \A c \in Customers : partialPayments[c] > 0 => c \notin paidFullClients \cup notHomeClients

\* A deposit holds what every client it names has paid.
DepositIsComplete == \A d \in todayDeposits : d.amount >= Owed * Cardinality(d.of)

\* Once nothing is being fetched, the payments are those of the month selected.
MonthIsShown == asking = {} => paymentsOf = selectedMonth
=============================================================================
