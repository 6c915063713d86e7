----------------------------- MODULE Settlement -----------------------------
(***************************************************************************)
(* The settlement and deposit pages: the overview with its dialog that      *)
(* decides on a settlement, the history, the collector's submission, and    *)
(* finance's list of deposits.  Their requests are timers for now: every    *)
(* handler waits, and then works with the state it was started in.          *)
(***************************************************************************)
EXTENDS Naturals, FiniteSets

CONSTANTS
    Settlements,    \* settlements listed in the overview
    Deposits,       \* deposits waiting for finance
    MaxClosing      \* bound: timers that will close the dialog

ASSUME SettlementAssumption == MaxClosing \in Nat /\ "none" \notin Settlements

VARIABLES
    settlementRole, \* the role of the user
    settlementTab,  \* the tab in front, or "deposits" for finance's page
    historyShows,   \* HistoryTab: dateTo and statusFilter
    viewing,        \* HistoryTab.selectedSettlement
    dialogOf,       \* OverviewTab.selectedSettlementId, "none" while the dialog is closed
    dialogLoading,  \* VerifySettlementDialog.loading
    verdictPanel,          \* VerifySettlementDialog.action
    filledIn,       \* the panel's reason or amount is given
    verifying,      \* VerifySettlementDialog.verifying
    settlementStatus,   \* VerifySettlementDialog.settlement.status
    decidedFor,     \* the settlements the dialog was about when a decision was confirmed
    deciding,       \* handlers waiting for their request: the decision and what it was about
    closing,        \* timers that will close the dialog
    approving,      \* OverviewTab.approving
    approvals,      \* quick approvals waiting for their request
    scanMode,       \* SubmitSettlementTab.mode
    submitting,     \* its submissions waiting
    pendingDeposits, depositHistory,    \* DepositsTab
    confirming      \* its handlers waiting, with the lists they will replace

settle == <<settlementRole, settlementTab, historyShows, viewing, dialogOf, dialogLoading, verdictPanel, filledIn, verifying, settlementStatus, decidedFor,
            deciding, closing, approving, approvals, scanMode, submitting, pendingDeposits, depositHistory, confirming>>
office == <<settlementRole, settlementTab, historyShows, viewing>>
dialog == <<dialogOf, dialogLoading, verdictPanel, filledIn, verifying, settlementStatus, decidedFor, deciding, closing>>
quick == <<approving, approvals>>
submit == <<scanMode, submitting>>
finance == <<pendingDeposits, depositHistory, confirming>>

Verdict(action) ==
    CASE action = "approve" -> "verified" [] action = "reject" -> "rejected"
      [] action = "mismatch" -> "verified_with_discrepancy"
Actions == {"approve", "reject", "mismatch"}

\* A settlement of the history, by day and time of day: midnight is 0.
MockHistory ==
    { [id |-> 1, collector |-> "collector-1", status |-> "verified", day |-> 30, time |-> 1],
      [id |-> 2, collector |-> "collector-2", status |-> "verified", day |-> 30, time |-> 1],
      [id |-> 3, collector |-> "collector-3", status |-> "verified_with_discrepancy", day |-> 30, time |-> 1],
      [id |-> 4, collector |-> "collector-1", status |-> "rejected", day |-> 23, time |-> 1] }
Today == 30
NoneViewed == [id |-> 0, collector |-> "", status |-> "", day |-> 0, time |-> 0]

\* The tabs of a role and the one it starts with.
TabsOf(role) == IF role \in {"admin", "owner", "finance"} THEN {"overview", "history"} ELSE {"submit", "history"}
DefaultTab(role) == IF "overview" \in TabsOf(role) THEN "overview" ELSE "submit"

SettlementInit ==
    /\ settlementRole \in {"finance", "collector"} /\ settlementTab = DefaultTab(settlementRole)
    /\ historyShows = [to |-> Today, status |-> ""] /\ viewing = NoneViewed
    /\ dialogOf = "none" /\ dialogLoading = FALSE /\ verdictPanel = "none" /\ filledIn = FALSE /\ verifying = FALSE
    /\ settlementStatus = "pending" /\ decidedFor = {} /\ deciding = {} /\ closing = 0
    /\ approving = "none" /\ approvals = {} /\ scanMode = "idle" /\ submitting = 0
    /\ pendingDeposits = Deposits /\ depositHistory = {} /\ confirming = {}

-----------------------------------------------------------------------------
(* The overview *)

OnOverview == settlementTab = "overview" /\ dialogOf = "none"

OpenSettlement(s) ==
    /\ OnOverview
    /\ dialogOf' = s /\ dialogLoading' = TRUE
    /\ UNCHANGED <<office, verdictPanel, filledIn, verifying, settlementStatus, decidedFor, deciding, closing,
                   quick, submit, finance>>

\* Only the row of the approval begun last is disabled.
QuickApprove(s) ==
    /\ OnOverview /\ approving # s
    /\ approving' = s /\ approvals' = approvals \cup {s}
    /\ UNCHANGED <<office, dialog, submit, finance>>

QuickApproved(s) ==
    /\ s \in approvals /\ approvals' = approvals \ {s} /\ approving' = "none"
    /\ UNCHANGED <<office, dialog, submit, finance>>

-----------------------------------------------------------------------------
(* The dialog.  It stays mounted, with its state, while it is closed. *)

DialogShown == settlementTab = "overview" /\ dialogOf # "none" /\ ~dialogLoading

DialogLoaded ==
    /\ dialogLoading /\ dialogLoading' = FALSE
    /\ UNCHANGED <<office, dialogOf, verdictPanel, filledIn, verifying, settlementStatus, decidedFor, deciding,
                   closing, quick, submit, finance>>

\* The buttons are there for a pending settlement without a panel, and not for
\* reading.
MayDecide(readOnly) == ~readOnly /\ settlementStatus = "pending" /\ verdictPanel = "none"
ChooseAction(a) ==
    /\ DialogShown /\ MayDecide(FALSE) /\ verdictPanel' = a
    /\ UNCHANGED <<office, dialogOf, dialogLoading, filledIn, verifying, settlementStatus, decidedFor,
                   deciding, closing, quick, submit, finance>>

\* The reason of a rejection, the amount of a mismatch.
FillIn ==
    /\ DialogShown /\ verdictPanel \in {"reject", "mismatch"} /\ ~filledIn /\ filledIn' = TRUE
    /\ UNCHANGED <<office, dialogOf, dialogLoading, verdictPanel, verifying, settlementStatus, decidedFor,
                   deciding, closing, quick, submit, finance>>

CancelPanel ==
    /\ DialogShown /\ verdictPanel # "none" /\ ~verifying /\ verdictPanel' = "none"
    /\ UNCHANGED <<office, dialogOf, dialogLoading, filledIn, verifying, settlementStatus, decidedFor,
                   deciding, closing, quick, submit, finance>>

\* The confirming button of the panel.
MayConfirm == ~verifying /\ (verdictPanel = "approve" \/ (verdictPanel # "none" /\ filledIn))

ConfirmVerdict ==
    /\ DialogShown /\ MayConfirm
    /\ verifying' = TRUE
    /\ deciding' = deciding \cup {[verdict |-> Verdict(verdictPanel), of |-> dialogOf]}
    /\ UNCHANGED <<office, dialogOf, dialogLoading, verdictPanel, filledIn, settlementStatus, decidedFor, closing,
                   quick, submit, finance>>

\* handleApprove, handleReject, handleMarkMismatch after their wait.
Decided(d) ==
    /\ d \in deciding /\ closing < MaxClosing
    /\ deciding' = deciding \ {d} /\ settlementStatus' = d.verdict /\ verifying' = FALSE /\ verdictPanel' = "none"
    /\ filledIn' = (d.verdict = "verified" /\ filledIn)
    /\ decidedFor' = {d.of} /\ closing' = closing + 1
    /\ UNCHANGED <<office, dialogOf, dialogLoading, quick, submit, finance>>

\* handleClose: also while a request is waited for.
CloseVerification ==
    /\ settlementTab = "overview" /\ dialogOf # "none"
    /\ dialogOf' = "none" /\ verdictPanel' = "none" /\ filledIn' = FALSE
    /\ UNCHANGED <<office, dialogLoading, verifying, settlementStatus, decidedFor, deciding, closing, quick,
                   submit, finance>>

\* The timer closes whatever is open by then.
TimedClose ==
    /\ closing > 0 /\ closing' = closing - 1 /\ dialogOf' = "none"
    /\ UNCHANGED <<office, dialogLoading, verdictPanel, filledIn, verifying, settlementStatus, decidedFor, deciding,
                   quick, submit, finance>>

-----------------------------------------------------------------------------
(* The history; its dialog is for reading only.  The default of 30 days ends
   at the midnight with which today begins. *)

HistoryRows(own) ==
    {s \in MockHistory :
        /\ own => s.collector = "collector-1"
        /\ historyShows.status \in {"", s.status}
        /\ s.day < historyShows.to \/ (s.day = historyShows.to /\ s.time = 0)}

FilterHistory(to, status) ==
    /\ settlementTab = "history" /\ viewing = NoneViewed
    /\ historyShows' = [to |-> to, status |-> status]
    /\ UNCHANGED <<settlementRole, settlementTab, viewing, dialog, quick, submit, finance>>

ViewHistory(s) ==
    /\ settlementTab = "history" /\ viewing = NoneViewed /\ s \in HistoryRows(settlementRole = "collector")
    /\ viewing' = s
    /\ UNCHANGED <<settlementRole, settlementTab, historyShows, dialog, quick, submit, finance>>

CloseHistory ==
    /\ viewing # NoneViewed /\ viewing' = NoneViewed
    /\ UNCHANGED <<settlementRole, settlementTab, historyShows, dialog, quick, submit, finance>>

\* A tab or page that is left loses its state, and its waiting handlers change
\* nothing any more.
ChangeTab(t) ==
    /\ t \in TabsOf(settlementRole) \cup (IF settlementRole = "finance" THEN {"deposits"} ELSE {})
    /\ t # settlementTab /\ settlementTab' = t
    /\ historyShows' = [to |-> Today, status |-> ""] /\ viewing' = NoneViewed
    /\ dialogOf' = "none" /\ dialogLoading' = FALSE /\ verdictPanel' = "none" /\ filledIn' = FALSE /\ verifying' = FALSE
    /\ settlementStatus' = "pending" /\ decidedFor' = {} /\ deciding' = {} /\ closing' = 0
    /\ approving' = "none" /\ approvals' = {} /\ scanMode' = "idle" /\ submitting' = 0
    /\ pendingDeposits' = Deposits /\ depositHistory' = {} /\ confirming' = {}
    /\ UNCHANGED settlementRole

-----------------------------------------------------------------------------
(* The collector's submission.  The camera is asked for, but the mode would
   change only if the video element, which the mode shows, were there already:
   an uploaded picture is the only way. *)

Buttons(mode) ==
    CASE mode = "idle" -> {"scan", "upload"} [] mode = "scanning" -> {"stop"}
      [] mode = "uploading" -> {} [] mode = "success" -> {"submit", "retry"} [] mode = "error" -> {"retry"}

FileUpload ==
    /\ settlementTab = "submit" /\ "upload" \in Buttons(scanMode) /\ scanMode' = "uploading"
    /\ UNCHANGED <<office, dialog, quick, submitting, finance>>

FileRead ==
    /\ scanMode = "uploading" /\ scanMode' = "success"
    /\ UNCHANGED <<office, dialog, quick, submitting, finance>>

\* Nothing says that a submission is under way.
SubmitSettlement ==
    /\ settlementTab = "submit" /\ "submit" \in Buttons(scanMode) /\ submitting < MaxClosing
    /\ submitting' = submitting + 1
    /\ UNCHANGED <<office, dialog, quick, scanMode, finance>>

Submitted ==
    /\ submitting > 0 /\ submitting' = submitting - 1 /\ scanMode' = "idle"
    /\ UNCHANGED <<office, dialog, quick, finance>>

RetryScan ==
    /\ settlementTab = "submit" /\ "retry" \in Buttons(scanMode) /\ scanMode' = "idle"
    /\ UNCHANGED <<office, dialog, quick, submitting, finance>>

-----------------------------------------------------------------------------
(* Finance's deposits.  A handler replaces the lists by what it makes of those
   it was started with. *)

\* The table is not shown while a handler waits.  Mutant: it is.
MayDecideDepositAny(d) == d \in pendingDeposits
MayDecideDeposit(d) == d \in pendingDeposits /\ confirming = {}

DecideDeposit(d, confirmed) ==
    /\ settlementTab = "deposits" /\ MayDecideDeposit(d)
    /\ confirming' = confirming \cup
          {[pending |-> pendingDeposits \ {d},
            history |-> depositHistory \cup (IF confirmed THEN {d} ELSE {}), confirmed |-> confirmed]}
    /\ UNCHANGED <<office, dialog, quick, submit, pendingDeposits, depositHistory>>

DepositDecided(h) ==
    /\ h \in confirming /\ confirming' = confirming \ {h}
    /\ pendingDeposits' = h.pending
    /\ depositHistory' = IF h.confirmed THEN h.history ELSE depositHistory
    /\ UNCHANGED <<office, dialog, quick, submit>>

-----------------------------------------------------------------------------
SettlementNext ==
    \/ \E s \in Settlements : OpenSettlement(s) \/ QuickApprove(s) \/ QuickApproved(s)
    \/ \E to \in {Today - 1, Today, Today + 1}, st \in {"", "rejected"} : FilterHistory(to, st)
    \/ \E s \in MockHistory : ViewHistory(s)
    \/ CloseHistory \/ \E t \in {"overview", "history", "submit", "deposits"} : ChangeTab(t)
    \/ \E a \in Actions : ChooseAction(a)
    \/ \E d \in deciding : Decided(d)
    \/ DialogLoaded \/ FillIn \/ CancelPanel \/ ConfirmVerdict \/ CloseVerification \/ TimedClose
    \/ FileUpload \/ FileRead \/ SubmitSettlement \/ Submitted \/ RetryScan
    \/ \E d \in Deposits, c \in BOOLEAN : DecideDeposit(d, c)
    \/ \E h \in confirming : DepositDecided(h)

SettlementSpec == SettlementInit /\ [][SettlementNext]_settle

-----------------------------------------------------------------------------
(* Properties *)

\* A settlement that was decided in the dialog is not decided again, and a
\* deposit that was confirmed stays confirmed, although the handlers work with
\* the state of when they were started and the dialog can be closed and opened
\* again meanwhile (VerifySettlementDialog.handleApprove, DepositsTab).  It is
\* said of one tab: its decisions are the page's own state, and a change of tab
\* loses them.  A quick approval of the overview decides nothing in them, and a
\* settlement approved both ways is outside it.
DecisionsAreFinal ==
    [][settlementTab' = settlementTab =>
       /\ settlementStatus # "pending" => settlementStatus' = settlementStatus
       /\ depositHistory \subseteq depositHistory']_settle

\* The dialog shows the verdict of the settlement it is open for.
VerdictIsItsOwn == dialogOf # "none" /\ settlementStatus # "pending" => dialogOf \in decidedFor

\* The collector submits what was scanned once.
SubmittedOnce == submitting <= 1

\* The history, as it is opened, lists today's settlements.
TodayIsListed ==
    settlementTab = "history" /\ historyShows.to = Today /\ historyShows.status = "" =>
        \A s \in MockHistory : s.day = Today /\ settlementRole = "finance" => s \in HistoryRows(FALSE)
=============================================================================
