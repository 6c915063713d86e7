-------------------------- MODULE InvoiceGeneration --------------------------
(***************************************************************************)
(* Creating invoices concurrently: BillingService.GenerateMonthlyInvoice    *)
(* and CreateInvoice, called by the scheduler's goroutine and by HTTP       *)
(* requests, over one tenant's invoices of one calendar month (numbers      *)
(* start again every month, with a prefix of their own).                   *)
(*                                                                         *)
(* Each database statement is a step.  The table has UNIQUE(tenant_id,      *)
(* invoice_number) and no constraint on client and period.  The clients'   *)
(* weekly clean-up takes their invoices with it (ON DELETE CASCADE); its   *)
(* 28 days of retention fit in one month.                                  *)
(***************************************************************************)
EXTENDS Integers, FiniteSets

CONSTANTS
  Client,
  Period,     \* billing periods, calendar months
  Request,    \* calls that create an invoice, each used once
  Kind,       \* of a request: "job", "hand" or "form"
  ClientOf,   \* its client
  PeriodIn,   \* the period of its form, or of the due date it computes
  Template,   \* clients whose payment_tempo_option is 'template'
  Creation    \* the period a client was created in

ASSUME RequestAssumption ==
  /\ Kind \in [Request -> {"job", "hand", "form"}]
  /\ ClientOf \in [Request -> Client]
  /\ PeriodIn \in [Request -> Period]
ASSUME ClientAssumption == Template \subseteq Client /\ Creation \in [Client -> Period]

VARIABLES
  client,     \* state of each row of "clients"
  invoice,    \* the rows of "invoices", by their number
  pc,         \* the next statement of each request
  period,     \* the period a request has settled on
  number,     \* the number a request has generated
  purged,     \* history: did a clean-up remove an invoice?
  late        \* history: requests that began when their invoice existed

requests == <<pc, period, number>>
vars     == <<client, invoice, requests, purged, late>>

InFlight == {"job", "client", "due", "exists", "count", "insert"}
Done     == {"created", "existing", "skipped", "failed", "conflict"}

Row == [client : Client, period : Period]

Init ==
  /\ client = [c \in Client |-> "present"]
  /\ invoice = [n \in {} |-> n]
  /\ pc = [r \in Request |-> "idle"]
  /\ period = PeriodIn
  /\ number = [r \in Request |-> 0]
  /\ purged = FALSE
  /\ late = {}

-----------------------------------------------------------------------------
(***************************************************************************)
(* The repository's queries.                                               *)
(***************************************************************************)

Numbers == DOMAIN invoice

HasAnyInvoiceForClient(c) == \E n \in Numbers : invoice[n].client = c

ExistsForClientPeriod(c, p) == \E n \in Numbers : invoice[n] = [client |-> c, period |-> p]

\* SELECT COUNT(*) + 1
GenerateInvoiceNumber == Cardinality(Numbers) + 1

-----------------------------------------------------------------------------
(***************************************************************************)
(* The requests.                                                           *)
(***************************************************************************)

Goto(r, label) == pc' = [pc EXCEPT ![r] = label]

\* The scheduler reaches the client, or a handler calls the service.
Arrive(r) ==
  /\ pc[r] = "idle"
  /\ Goto(r, CASE Kind[r] = "job"  -> "job"
               [] Kind[r] = "hand" -> "client"
               [] Kind[r] = "form" -> "count")
  /\ late' = IF Kind[r] # "form" /\ ExistsForClientPeriod(ClientOf[r], PeriodIn[r])
             THEN late \union {r} ELSE late
  /\ UNCHANGED <<client, invoice, period, number, purged>>

\* The scheduler's own check for the upcoming period.
JobChecks(r) ==
  /\ pc[r] = "job"
  /\ Goto(r, IF ExistsForClientPeriod(ClientOf[r], PeriodIn[r]) THEN "skipped" ELSE "client")
  /\ UNCHANGED <<client, invoice, period, number, purged, late>>

\* clientRepo.GetByID does not see a deleted client.
ReadClient(r) ==
  /\ pc[r] = "client"
  /\ Goto(r, IF client[ClientOf[r]] # "present" THEN "failed"
             ELSE IF ClientOf[r] \in Template THEN "due" ELSE "exists")
  /\ UNCHANGED <<client, invoice, period, number, purged, late>>

\* HasAnyInvoiceForClient: a template client's first invoice is of the period
\* the client was created in.
ChooseDueDate(r) ==
  /\ pc[r] = "due"
  /\ Goto(r, "exists")
  /\ period' = [period EXCEPT ![r] = IF HasAnyInvoiceForClient(ClientOf[r])
                                     THEN @ ELSE Creation[ClientOf[r]]]
  /\ UNCHANGED <<client, invoice, number, purged, late>>

\* Mutant: the result of the check is not looked at.
CheckNothing(r) ==
  /\ pc[r] = "exists"
  /\ Goto(r, "count")
  /\ UNCHANGED <<client, invoice, period, number, purged, late>>

\* ExistsForClientPeriod: the existing invoice is returned.
CheckExists(r) ==
  /\ pc[r] = "exists"
  /\ Goto(r, IF ExistsForClientPeriod(ClientOf[r], period[r]) THEN "existing" ELSE "count")
  /\ UNCHANGED <<client, invoice, period, number, purged, late>>

\* Mutant: numbers are reserved, one for every request about to insert.
ReserveNumber(r) ==
  /\ pc[r] = "count"
  /\ Goto(r, "insert")
  /\ number' = [number EXCEPT ![r] =
       GenerateInvoiceNumber + Cardinality({q \in Request : pc[q] = "insert"})]
  /\ UNCHANGED <<client, invoice, period, purged, late>>

\* CreateInvoice: the number ...
CountInvoices(r) ==
  /\ pc[r] = "count"
  /\ Goto(r, "insert")
  /\ number' = [number EXCEPT ![r] = GenerateInvoiceNumber]
  /\ UNCHANGED <<client, invoice, period, purged, late>>

\* Mutant of the insertion: the constraint is on client and period.
InsertUniquePerPeriod(r) ==
  /\ pc[r] = "insert"
  /\ IF ExistsForClientPeriod(ClientOf[r], period[r]) \/ client[ClientOf[r]] = "gone"
     THEN Goto(r, "conflict") /\ UNCHANGED invoice
     ELSE /\ Goto(r, "created")
          /\ invoice' = [n \in Numbers \union {number[r]} |->
                           IF n = number[r]
                           THEN [client |-> ClientOf[r], period |-> period[r]]
                           ELSE invoice[n]]
  /\ UNCHANGED <<client, period, number, purged, late>>

\* ... and the row: refused when the number is taken or the client is gone.
InsertInvoice(r) ==
  /\ pc[r] = "insert"
  /\ IF number[r] \in Numbers \/ client[ClientOf[r]] = "gone"
     THEN Goto(r, "conflict") /\ UNCHANGED invoice
     ELSE /\ Goto(r, "created")
          /\ invoice' = [n \in Numbers \union {number[r]} |->
                           IF n = number[r]
                           THEN [client |-> ClientOf[r], period |-> period[r]]
                           ELSE invoice[n]]
  /\ UNCHANGED <<client, period, number, purged, late>>

\* A statement fails, the caller hangs up, the server dies.
Abort(r) ==
  /\ pc[r] \in InFlight
  /\ Goto(r, "failed")
  /\ UNCHANGED <<client, invoice, period, number, purged, late>>

-----------------------------------------------------------------------------
(***************************************************************************)
(* Deleting clients.                                                       *)
(***************************************************************************)

SoftDelete(c) ==
  /\ client[c] = "present"
  /\ client' = [client EXCEPT ![c] = "deleted"]
  /\ UNCHANGED <<invoice, requests, purged, late>>

\* HardDeleteOldSoftDeleted, for the clients C whose 28 days are over.
HardDelete(C) ==
  /\ C # {} /\ \A c \in C : client[c] = "deleted"
  /\ client' = [c \in Client |-> IF c \in C THEN "gone" ELSE client[c]]
  /\ invoice' = [n \in {m \in Numbers : invoice[m].client \notin C} |-> invoice[n]]
  /\ purged' = (purged \/ \E n \in Numbers : invoice[n].client \in C)
  /\ UNCHANGED <<requests, late>>

\* The statements a request that has arrived runs.
Step(r) ==
  \/ JobChecks(r)
  \/ ReadClient(r)
  \/ ChooseDueDate(r)
  \/ CheckExists(r)
  \/ CountInvoices(r)
  \/ InsertInvoice(r)

AllDone ==
  /\ \A r \in Request : pc[r] \in Done
  /\ \A c \in Client : client[c] = "gone"
  /\ UNCHANGED vars

Next ==
  \/ \E r \in Request : Arrive(r) \/ Step(r) \/ Abort(r)
  \/ \E c \in Client : SoftDelete(c)
  \/ \E C \in SUBSET Client : HardDelete(C)
  \/ AllDone

Spec == Init /\ [][Next]_vars

-----------------------------------------------------------------------------
(***************************************************************************)
(* Properties.                                                             *)
(***************************************************************************)

TypeOK ==
  /\ client \in [Client -> {"present", "deleted", "gone"}]
  /\ Numbers \subseteq Nat
  /\ \A n \in Numbers : invoice[n] \in Row
  /\ pc \in [Request -> {"idle"} \union InFlight \union Done]
  /\ period \in [Request -> Period]
  /\ number \in [Request -> Nat]
  /\ purged \in BOOLEAN
  /\ late \subseteq Request

\* The numbers of a month are 1, 2, 3, ... without a gap, as long as no
\* clean-up removed an invoice: losers of a race and aborted requests leave
\* no hole (GenerateInvoiceNumber with the UNIQUE constraint).
NumbersAreDense ==
  ~purged => Numbers = 1..Cardinality(Numbers)

\* A period is billed twice only by requests that overlap: one that begins when
\* its client has an invoice of the period makes no other, whatever is inserted
\* or deleted beside it, and whether or not it reads that a template client has
\* invoices - unless a clean-up took invoices away (HasAnyInvoiceForClient and
\* ExistsForClientPeriod in GenerateMonthlyInvoice; the form has no check).
NoRegeneration ==
  \A r \in late : purged \/ pc[r] # "created"

\* A template client's first invoice is of its creation period, even when the
\* scheduler and a request generate its first two at the same time.
TemplateStartsAtCreation ==
  \A c \in Template :
    (\A r \in Request : ClientOf[r] = c => Kind[r] # "form")
    => \A n \in Numbers : invoice[n].client = c =>
         purged \/ ExistsForClientPeriod(c, Creation[c])

\* Without a clean-up, a request loses its insert only to another that got
\* the number it had counted.
ConflictHasWinner ==
  \A r \in Request :
    (pc[r] = "conflict" /\ ~purged /\ client[ClientOf[r]] # "gone")
    => \E q \in Request : pc[q] = "created" /\ number[q] = number[r]

\* No invoice outlives its client's row, in particular none is inserted after
\* the clean-up (the foreign key).
NoOrphans ==
  \A n \in Numbers : client[invoice[n].client] # "gone"

-----------------------------------------------------------------------------
(***************************************************************************)
(* What the comments say and the code does not guarantee.                  *)
(***************************************************************************)

\* billing_service.go: "Check if invoice already exists for this client+period
\* to prevent duplicates".  Refuted by two requests that both check before
\* either inserts.
OneInvoicePerPeriod ==
  \A m, n \in Numbers :
    (invoice[m] = invoice[n] /\ \A r \in Request : Kind[r] # "form") => m = n

=============================================================================
