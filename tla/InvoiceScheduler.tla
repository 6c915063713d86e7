--------------------------- MODULE InvoiceScheduler ---------------------------
(***************************************************************************)
(* The daily invoice job (InvoiceScheduler.StartDailyScheduler) and the     *)
(* monthly invoices it generates (BillingService.GenerateMonthlyInvoice),   *)
(* from day to day.                                                        *)
(*                                                                         *)
(* One goroutine runs the job once when the server starts, then sleeps     *)
(* until the next 00:05.  A day has two parts, before 00:05 ("early") and   *)
(* after it; a job started by the timer ends on its day, the one run at     *)
(* startup may begin just before midnight and end on the next day.  An      *)
(* operator may generate a client's invoice by hand at any time.           *)
(*                                                                         *)
(* Concurrency between two generators is in InvoiceGeneration; here each    *)
(* invoice is generated in one step.  All clients and tenants are active.   *)
(***************************************************************************)
EXTENDS DueDates

CONSTANTS
  Client,
  DueDay,      \* payment_due_day of a client
  Template,    \* clients whose payment_tempo_option is 'template'
  Created,     \* the day a client was created
  FirstDays,   \* the days considered: from one of FirstDays
  LastDays,    \*   to the next of LastDays
  MaxFaults,   \* bound on crashes and on clients the job fails for
  MaxManual    \* bound on invoices generated by hand

ASSUME ClientAssumption ==
  /\ DueDay \in [Client -> 1..31]
  /\ Template \subseteq Client
  /\ Created \in [Client -> Dates]
ASSUME DayAssumption == FirstDays \subseteq Dates /\ LastDays \subseteq Dates

VARIABLES
  today,      \* the date
  early,      \* is it before 00:05?
  sched,      \* the scheduler goroutine
  nextRun,    \* the day its timer is set to
  tomorrow,   \* the job's "tomorrow", computed when it begins
  todo,       \* clients due tomorrow the job has still to handle
  invoices,   \* the invoices of each client
  examined,   \* history: the last "tomorrow" a job handled the client for
  faults,
  manuals

clock    == <<today, early>>
goroutine == <<sched, nextRun, tomorrow, todo>>
vars     == <<clock, goroutine, invoices, examined, faults, manuals>>

Invoice == [period : Dates, due : Dates, made : Dates]

\* A day that never comes: no job has handled the client yet.
Never == Day(0, 1, 0)

Init ==
  /\ today \in FirstDays
  /\ early = TRUE
  /\ sched = "down"
  /\ nextRun = today
  /\ tomorrow = today
  /\ todo = {}
  /\ invoices = [c \in Client |-> {}]
  /\ examined = [c \in Client |-> Never]
  /\ faults = 0
  /\ manuals = 0

-----------------------------------------------------------------------------
(***************************************************************************)
(* GenerateMonthlyInvoice                                                  *)
(***************************************************************************)

\* A template client's first invoice is due on the day it was created.
DueDateOf(c) ==
  IF c \in Template /\ invoices[c] = {} THEN Created[c]
                                        ELSE ComputeClientDueDate(today, DueDay[c])

ExistsForPeriod(c, period) == \E inv \in invoices[c] : inv.period = period

\* The existing invoice of the due date's period is returned, or one is created.
GenerateMonthlyInvoice(c) ==
  LET due == DueDateOf(c)
      inv == [period |-> PeriodOf(due), due |-> due, made |-> today]
  IN invoices' = IF ExistsForPeriod(c, inv.period)
                 THEN invoices
                 ELSE [invoices EXCEPT ![c] = @ \union {inv}]

\* POST /billing/invoices/generate/{client_id}
GenerateByHand(c) ==
  /\ sched # "down"
  /\ GenerateMonthlyInvoice(c)
  /\ manuals' = IF invoices' = invoices THEN manuals ELSE manuals + 1
  /\ manuals' <= MaxManual
  /\ UNCHANGED <<clock, goroutine, examined, faults>>

-----------------------------------------------------------------------------
(***************************************************************************)
(* The scheduler goroutine.                                                *)
(***************************************************************************)

BeginJob ==
  /\ tomorrow' = NextDay(today)
  /\ todo' = {c \in Client : IsDueOn(NextDay(today), DueDay[c])}
  /\ UNCHANGED <<clock, nextRun, invoices, examined, faults, manuals>>

\* The server starts and the goroutine runs the job at once.
Startup == sched = "down" /\ sched' = "starting" /\ BeginJob

TimerDue == sched = "waiting" /\ today = nextRun /\ ~early

TimerFires == TimerDue /\ sched' = "running" /\ BeginJob

Working == sched \in {"starting", "running"}

\* Mutant: clients that have any invoice are skipped.
HandleClientOnce(c) ==
  /\ Working /\ c \in todo
  /\ IF invoices[c] # {} THEN UNCHANGED invoices ELSE GenerateMonthlyInvoice(c)
  /\ todo' = todo \ {c}
  /\ examined' = [examined EXCEPT ![c] = tomorrow]
  /\ UNCHANGED <<clock, sched, nextRun, tomorrow, faults, manuals>>

\* The job handles a client that is due tomorrow.
HandleClient(c) ==
  /\ Working /\ c \in todo
  /\ IF ExistsForPeriod(c, PeriodOf(tomorrow))
     THEN UNCHANGED invoices
     ELSE GenerateMonthlyInvoice(c)
  /\ todo' = todo \ {c}
  /\ examined' = [examined EXCEPT ![c] = tomorrow]
  /\ UNCHANGED <<clock, sched, nextRun, tomorrow, faults, manuals>>

\* A statement fails for a client: it is logged and the job goes on.
FailClient(c) ==
  /\ Working /\ c \in todo
  /\ faults < MaxFaults
  /\ faults' = faults + 1
  /\ todo' = todo \ {c}
  /\ UNCHANGED <<clock, sched, nextRun, tomorrow, invoices, examined, manuals>>

\* The job is done: sleep until the next 00:05 that is still to come.
EndJob ==
  /\ Working /\ todo = {}
  /\ sched' = "waiting"
  /\ nextRun' = IF early THEN today ELSE NextDay(today)
  /\ UNCHANGED <<clock, tomorrow, todo, invoices, examined, faults, manuals>>

Crash ==
  /\ sched # "down"
  /\ faults < MaxFaults
  /\ faults' = faults + 1
  /\ sched' = "down"
  /\ todo' = {}
  /\ UNCHANGED <<clock, nextRun, tomorrow, invoices, examined, manuals>>

-----------------------------------------------------------------------------
\* Time does not pass a timer that is due nor a job the timer started; a job
\* run at startup may see one midnight.
MayPass ==
  \/ sched = "down"
  \/ sched = "waiting" /\ ~TimerDue
  \/ sched = "starting" /\ (early \/ tomorrow = NextDay(today))

Tick ==
  /\ MayPass
  /\ \/ early /\ early' = FALSE /\ UNCHANGED today
     \/ ~early /\ today \notin LastDays /\ early' = TRUE /\ today' = NextDay(today)
  /\ UNCHANGED <<goroutine, invoices, examined, faults, manuals>>

\* The window of days considered is over.
WindowOver == today \in LastDays /\ ~early /\ UNCHANGED vars

Next ==
  \/ Startup
  \/ TimerFires
  \/ \E c \in Client : HandleClient(c) \/ FailClient(c) \/ GenerateByHand(c)
  \/ EndJob
  \/ Crash
  \/ Tick
  \/ WindowOver

Spec == Init /\ [][Next]_vars

-----------------------------------------------------------------------------
(***************************************************************************)
(* Properties.                                                             *)
(***************************************************************************)

TypeOK ==
  /\ today \in Dates
  /\ early \in BOOLEAN
  /\ sched \in {"down", "starting", "running", "waiting"}
  /\ nextRun \in Dates
  /\ tomorrow \in Dates
  /\ todo \subseteq Client
  /\ invoices \in [Client -> SUBSET Invoice]
  /\ examined \in [Client -> Dates \union {Never}]
  /\ faults \in Nat
  /\ manuals \in Nat

\* computeClientDueDate finds the first due day from today on, whatever the
\* due day and the month, unless today does not exist in the next month.
ComputesNextDueDate ==
  ~Overflows(today) =>
    \A dueDay \in 1..31 : ComputeClientDueDate(today, dueDay) = NextDueDate(today, dueDay)

\* Even then, what it finds is not over: no generated invoice was past its due
\* date when it was made, but for the first one of a template client.
NotOverdueWhenMade ==
  \A c \in Client : \A inv \in invoices[c] :
    \/ ~Before(inv.due, inv.made)
    \/ c \in Template /\ inv.due = Created[c]

\* When a client's due day comes and the job handled the client the day
\* before, there is an invoice of that period and it is due on that day -
\* across crashes in the middle of a job, restarts on the same day, manual
\* invoices made in between and the ends of months.  For due day 1 it fails
\* after a month that is longer: see InvoicedADayBefore.
InvoicedBeforeDueDay ==
  \A c \in Client \ Template :
    (/\ examined[c] = today
     /\ IsDueOn(today, DueDay[c])
     /\ DueDay[c] > 1 \/ ~FollowsLongerMonth(today))
    => \E inv \in invoices[c] : inv.period = PeriodOf(today) /\ inv.due = today

\* A template client that has any invoice has the one of the day it was
\* created, however the later ones are interleaved with it (GenerateMonthlyInvoice).
TemplateStartsAtCreation ==
  \A c \in Template :
    invoices[c] # {} => \E inv \in invoices[c] : inv.due = Created[c]

-----------------------------------------------------------------------------
(***************************************************************************)
(* What the comments say and the code does not guarantee.                  *)
(***************************************************************************)

\* main.go: "daily invoice scheduler (H-1 before due date)".  Refuted by due
\* day 1: on January 31 the due date is computed from March.
InvoicedADayBefore ==
  \A c \in Client \ Template :
    (examined[c] = today /\ IsDueOn(today, DueDay[c]))
    => \E inv \in invoices[c] : inv.period = PeriodOf(today)

\* billing_invoice_scheduler.go: "runs the invoice generation job daily at
\* 00:05".  A goroutine that sleeps past today's 00:05 has run a job that began
\* today.  Refuted by a startup job that begins before midnight and ends after
\* 00:05: the timer is set from the end of the job.
RunsDaily ==
  (sched = "waiting" /\ ~early /\ nextRun # today) => tomorrow = NextDay(today)

=============================================================================
