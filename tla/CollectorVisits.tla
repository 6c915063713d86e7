--------------------------- MODULE CollectorVisits ---------------------------
(***************************************************************************)
(* The collector's visit to a client: the page of one invoice, its three    *)
(* phases, and the assignments of collectorStore, which exist in the        *)
(* browser only.                                                            *)
(*                                                                          *)
(* fetchAssignments keeps two things from before its requests: the          *)
(* assignments it will merge, and the billing store's lists, which are      *)
(* those of the state object it took then and not the ones it fetched.      *)
(***************************************************************************)
EXTENDS Naturals, FiniteSets

CONSTANTS
    Bills,          \* invoices
    MaxVisitFetches \* bound: fetchAssignments running at one time

ASSUME VisitsAssumption == MaxVisitFetches \in Nat /\ "collector" \notin Bills

VARIABLES
    visitPage,      \* the page shown: "collector" (the overview) or the invoice it is about
    phaseOf,        \* that page's own copy of the assignment: its workflow status
    workflow,       \* collectorStore.assignments: invoice -> workflow_status, "none" when absent
    billsHeld,         \* useBillingStore: invoices and overdueInvoices
    collectible,    \* the server: invoices pending or overdue
    collecting,     \* fetchAssignments in flight: what it kept, and what follows it
    looking         \* fetchInvoice in flight for the page shown

visits == <<visitPage, phaseOf, workflow, billsHeld, collectible, collecting, looking>>

WorkflowStatus == {"assigned", "visit_success", "visit_failed", "deposited"}
NoWork == [i \in Bills |-> "none"]

VisitsTypeOK ==
    /\ visitPage \in Bills \cup {"collector"} /\ phaseOf \in WorkflowStatus \cup {"none"}
    /\ workflow \in [Bills -> WorkflowStatus \cup {"none"}]
    /\ billsHeld \subseteq Bills /\ collectible \subseteq Bills /\ looking \in BOOLEAN
    /\ collecting \subseteq [existing : [Bills -> WorkflowStatus \cup {"none"}],
                             pending : SUBSET Bills, then : {"show", "reload", "nothing"}]

VisitsInit ==
    /\ visitPage = "collector" /\ phaseOf = "none" /\ workflow = NoWork
    /\ billsHeld = {} /\ collectible = Bills /\ collecting = {} /\ looking = FALSE

-----------------------------------------------------------------------------
(* fetchAssignments *)

\* What the store will hold: marks that exist are kept, also of invoices that
\* are no longer collectible; the others start as "assigned".
MergedWork(existing, pending) ==
    [i \in Bills |-> IF existing[i] = "none" /\ i \in pending THEN "assigned" ELSE existing[i]]

Fetching(work, lists, then) == [existing |-> work, pending |-> lists, then |-> then]

\* The page follows the store: the effect on assignments.
Follows(page, own, work) ==
    IF page \in Bills /\ work[page] # "none" THEN work[page] ELSE own

\* The two lists arrive, or a request fails and its list is emptied.
BillsArrive ==
    /\ collecting # {}
    /\ billsHeld' \in {collectible, {}}
    /\ UNCHANGED <<visitPage, phaseOf, workflow, collectible, collecting, looking>>

\* The page of an invoice the store does not have asks for the invoice itself.
FetchAssignments(f) ==
    LET work == MergedWork(f.existing, f.pending) IN
    /\ f.then \in {"show", "nothing"}
    /\ collecting' = collecting \ {f}
    /\ workflow' = work
    /\ phaseOf' = Follows(visitPage, phaseOf, work)
    /\ looking' = (looking \/ (f.then = "show" /\ work[visitPage] = "none"))
    /\ UNCHANGED <<visitPage, billsHeld, collectible>>

\* The handlers of the phases reload the window when the fetch has ended: the
\* stores start empty and a page of an invoice is opened anew.
ReloadAfter(f) ==
    /\ f.then = "reload"
    /\ workflow' = NoWork /\ billsHeld' = {} /\ looking' = FALSE /\ phaseOf' = "none"
    /\ collecting' = IF visitPage = "collector" THEN {} ELSE {Fetching(NoWork, {}, "show")}
    /\ UNCHANGED <<visitPage, collectible>>

\* The invoice is shown as a new assignment, which the store does not have, or
\* the collector is sent back.
FetchInvoice ==
    /\ looking /\ looking' = FALSE
    /\ \/ visitPage \in collectible /\ phaseOf' = "assigned" /\ UNCHANGED <<visitPage, collecting>>
       \/ /\ visitPage' = "collector" /\ phaseOf' = "none"
          /\ collecting' = {[f EXCEPT !.then = IF @ = "show" THEN "nothing" ELSE @] : f \in collecting}
    /\ UNCHANGED <<workflow, billsHeld, collectible>>

-----------------------------------------------------------------------------
(* The page of an invoice *)

\* An address is typed: everything is loaded anew.
OpenVisit(i) ==
    /\ visitPage = "collector"
    /\ visitPage' = i /\ phaseOf' = "none" /\ workflow' = NoWork /\ billsHeld' = {} /\ looking' = FALSE
    /\ collecting' = {Fetching(NoWork, {}, "show")}
    /\ UNCHANGED collectible

LeaveVisit ==
    /\ visitPage # "collector"
    /\ visitPage' = "collector" /\ phaseOf' = "none" /\ looking' = FALSE
    /\ collecting' = {[f EXCEPT !.then = IF @ = "show" THEN "nothing" ELSE @] : f \in collecting}
    /\ UNCHANGED <<workflow, billsHeld, collectible>>

\* The browser's history leads back without a load.
ReturnToVisit(i) ==
    /\ visitPage = "collector" /\ Cardinality(collecting) < MaxVisitFetches
    /\ visitPage' = i /\ phaseOf' = workflow[i]
    /\ collecting' = collecting \cup {Fetching(workflow, billsHeld, "show")}
    /\ UNCHANGED <<workflow, billsHeld, collectible, looking>>

\* renderWorkflowPhase: what the phases offer.
Offers(status) ==
    CASE status = "assigned" -> {"visit_success", "visit_failed"}
      [] status = "visit_success" -> {"deposited"}
      [] OTHER -> {}

\* The store's own conditions.
MayMark(work, i, to) == work[i] # "none" /\ (to = "deposited" => work[i] = "visit_success")

Marked(to) ==
    /\ visitPage \in Bills /\ to \in Offers(phaseOf)
    /\ \/ /\ ~MayMark(workflow, visitPage, to)      \* "Assignment not found"
          /\ UNCHANGED <<phaseOf, workflow, collecting>>
       \/ /\ MayMark(workflow, visitPage, to) /\ Cardinality(collecting) < MaxVisitFetches
          /\ workflow' = [workflow EXCEPT ![visitPage] = to]
          /\ phaseOf' = Follows(visitPage, phaseOf, workflow')
          /\ collecting' = collecting \cup {Fetching(workflow', billsHeld, "reload")}
    /\ UNCHANGED <<visitPage, billsHeld, collectible, looking>>

MarkVisitSuccess == Marked("visit_success")
MarkVisitFailed == Marked("visit_failed")
SubmitDepositReport == Marked("deposited")

\* The server: an invoice is paid elsewhere, or is due again.
Collected(i) ==
    /\ collectible' \in {collectible \ {i}, collectible \cup {i}} \ {collectible}
    /\ UNCHANGED <<visitPage, phaseOf, workflow, billsHeld, collecting, looking>>

VisitsNext ==
    \/ BillsArrive \/ FetchInvoice \/ LeaveVisit
    \/ MarkVisitSuccess \/ MarkVisitFailed \/ SubmitDepositReport
    \/ \E f \in collecting : FetchAssignments(f) \/ ReloadAfter(f)
    \/ \E i \in Bills : OpenVisit(i) \/ ReturnToVisit(i) \/ Collected(i)

VisitsSpec == VisitsInit /\ [][VisitsNext]_visits

-----------------------------------------------------------------------------
(* Properties *)

\* The page of an invoice offers the phase the store has for it (the page keeps
\* a copy of the assignment).
PhaseIsCurrent ==
    visitPage \in Bills /\ workflow[visitPage] # "none" => phaseOf = workflow[visitPage]

\* A visit that was marked stays marked ("You can now proceed to submit deposit
\* report."): the assignment does not go back to where the visit is due.
MarksStay ==
    [][\A i \in Bills : workflow[i] \in {"visit_success", "deposited"} =>
                            workflow'[i] \in {"visit_success", "deposited"}]_visits
=============================================================================
