---------------------------- MODULE BillingViews ----------------------------
(***************************************************************************)
(* The parts of the billing pages that keep their state to themselves: the  *)
(* matrix of payments by month, the templates of due days, the columns of   *)
(* the invoices' table and the reports.                                     *)
(***************************************************************************)
EXTENDS Naturals, FiniteSets

CONSTANTS
    Years,          \* years the matrix can be asked for
    DataYears,      \* years the tenant has invoices of
    MaxTemplates,   \* bound: templates on the server
    MaxMatrixAsked  \* bound: requests for the matrix at one time

ASSUME ViewsAssumption ==
    /\ Years \subseteq Nat /\ DataYears \subseteq Years /\ DataYears # {}
    /\ MaxTemplates \in Nat /\ MaxMatrixAsked \in Nat

VARIABLES
    matrixQuery,    \* year and filters of the matrix
    matrixLoading, matrixError,
    matrixRows,     \* the query the entries answer, as a set; empty when there are none
    matrixAsked,    \* requests in flight, and whether their effect is still alive
    templates,      \* the server's templates: number -> due day
    templateList,   \* the templates the page lists
    templateDialog, \* Closed, New or the template that is edited
    templateForm,   \* the form: whether it has a name, and the due day
    saving,         \* saves and deletions in flight
    columns,        \* columns of the invoices' table that are shown
    storedColumns,  \* localStorage: the columns, as a set that is empty when nothing is stored
    reporting       \* a report is being generated

matrix == <<matrixQuery, matrixLoading, matrixError, matrixRows, matrixAsked>>
tempoVars == <<templates, templateList, templateDialog, templateForm, saving>>
table == <<columns, storedColumns>>
views == <<matrixQuery, matrixLoading, matrixError, matrixRows, matrixAsked,
           templates, templateList, templateDialog, templateForm, saving, columns, storedColumns, reporting>>

MatrixFilters == {"none", "late"}
Columns == {"contact", "group"}
DueDays == {0, 1, 31, 32}
Closed == 0
New == MaxTemplates + 1
EmptyForm == [named |-> FALSE, day |-> 1]
LatestYear == CHOOSE y \in DataYears : \A z \in DataYears : z <= y

\* The first query is that of this year, which has begun to be asked for.
FirstMatrix == [year |-> CHOOSE y \in Years : \A z \in Years : z <= y, filter |-> "none"]

ViewsInit ==
    /\ matrixQuery = FirstMatrix
    /\ matrixLoading = TRUE /\ matrixError = FALSE /\ matrixRows = {}
    /\ matrixAsked = {[query |-> matrixQuery, alive |-> TRUE]}
    /\ templates = <<>> /\ templateList = {} /\ templateDialog = Closed /\ templateForm = EmptyForm /\ saving = {}
    /\ columns = Columns /\ storedColumns = {} /\ reporting = FALSE

-----------------------------------------------------------------------------
(* The matrix *)

\* The effect of a new query: the cleanup of the earlier one, and a request.
CleanedUp(asked) == {[r EXCEPT !.alive = FALSE] : r \in asked}

AskMatrix(q) ==
    /\ matrixQuery' = q /\ matrixLoading' = TRUE /\ matrixError' = FALSE
    /\ matrixAsked' = CleanedUp(matrixAsked) \cup {[query |-> q, alive |-> TRUE]}

ChangeMatrixQuery(q) ==
    /\ ~matrixLoading /\ ~matrixError /\ q # matrixQuery /\ Cardinality(matrixAsked) < MaxMatrixAsked
    /\ AskMatrix(q)
    /\ UNCHANGED <<matrixRows, tempoVars, table, reporting>>

\* Leaving the tab and coming back begins anew, with requests still in flight.
ReopenMatrix ==
    /\ Cardinality(matrixAsked) < MaxMatrixAsked
    /\ AskMatrix(FirstMatrix) /\ matrixRows' = {}
    /\ UNCHANGED <<tempoVars, table, reporting>>

\* The server answers for a year it has.
AnsweredYear(y) == IF y \in DataYears THEN y ELSE LatestYear

\* The matrix moves to the year answered, which asks again.
\* Mutant: it stays at the year asked for.
StaysAt(q, answer) == q
MovesTo(q, answer) == [q EXCEPT !.year = answer.year]

MatrixArrives(r, ok) ==
    /\ r \in matrixAsked
    /\ LET answer == [r.query EXCEPT !.year = AnsweredYear(@)]
           next == MovesTo(matrixQuery, answer)
           rest == matrixAsked \ {r} IN
       \/ /\ ~r.alive
          /\ matrixAsked' = rest /\ UNCHANGED <<matrixQuery, matrixLoading, matrixError, matrixRows>>
       \/ /\ r.alive /\ ~ok
          /\ matrixAsked' = rest /\ matrixRows' = {} /\ matrixLoading' = FALSE /\ matrixError' = TRUE
          /\ UNCHANGED matrixQuery
       \/ /\ r.alive /\ ok /\ next = matrixQuery
          /\ matrixAsked' = rest /\ matrixRows' = {answer} /\ matrixLoading' = FALSE
          /\ UNCHANGED <<matrixQuery, matrixError>>
       \/ /\ r.alive /\ ok /\ next # matrixQuery
          /\ matrixRows' = {answer} /\ matrixQuery' = next /\ matrixLoading' = TRUE /\ matrixError' = FALSE
          /\ matrixAsked' = CleanedUp(rest) \cup {[query |-> next, alive |-> TRUE]}
    /\ UNCHANGED <<tempoVars, table, reporting>>

-----------------------------------------------------------------------------
(* The templates of due days *)

OpenTemplate(t) ==
    /\ templateDialog = Closed /\ t \in templateList \cup {New}
    /\ templateDialog' = t
    /\ templateForm' = IF t = New THEN EmptyForm
                       ELSE [named |-> TRUE, day |-> IF t \in DOMAIN templates THEN templates[t] ELSE 1]
    /\ UNCHANGED <<matrix, templates, templateList, saving, table, reporting>>

CloseTemplate ==
    /\ templateDialog # Closed /\ templateDialog' = Closed /\ templateForm' = EmptyForm
    /\ UNCHANGED <<matrix, templates, templateList, saving, table, reporting>>

\* parseInt(...) || 1: an empty or zero day becomes 1.
FillTemplate(day) ==
    /\ templateDialog # Closed
    /\ templateForm' = [named |-> TRUE, day |-> IF day = 0 THEN 1 ELSE day]
    /\ UNCHANGED <<matrix, templates, templateList, templateDialog, saving, table, reporting>>

\* validate
TemplateValid == templateForm.named /\ templateForm.day \in 1..31

\* Nothing disables the button while a save is under way.
SaveTempo ==
    /\ templateDialog # Closed /\ TemplateValid /\ Cardinality(saving) < 2
    /\ saving' = saving \cup {[to |-> templateDialog, day |-> templateForm.day, n |-> Cardinality(saving)]}
    /\ UNCHANGED <<matrix, templates, templateList, templateDialog, templateForm, table, reporting>>

DeleteTempo(t) ==
    /\ templateDialog = Closed /\ t \in templateList /\ saving = {}
    /\ saving' = {[to |-> t, day |-> 0, n |-> 0]}
    /\ UNCHANGED <<matrix, templates, templateList, templateDialog, templateForm, table, reporting>>

Without(f, k) == [x \in DOMAIN f \ {k} |-> f[x]]
With(f, k, v) == [x \in DOMAIN f \cup {k} |-> IF x = k THEN v ELSE f[x]]
WithTempo(s) ==
    CASE s.to = New -> IF Cardinality(DOMAIN templates) < MaxTemplates
                         THEN With(templates, CHOOSE t \in 1..MaxTemplates : t \notin DOMAIN templates, s.day)
                         ELSE templates
      [] s.day = 0 -> Without(templates, s.to)
      [] OTHER -> IF s.to \in DOMAIN templates THEN With(templates, s.to, s.day) ELSE templates

\* The save, the reload of the list, and the closing of the dialog.
TempoSaved(s, ok) ==
    /\ s \in saving /\ saving' = saving \ {s}
    /\ IF ok
       THEN /\ templates' = WithTempo(s) /\ templateList' = DOMAIN templates'
            /\ templateDialog' = IF s.day = 0 THEN templateDialog ELSE Closed
            /\ templateForm' = IF s.day = 0 THEN templateForm ELSE EmptyForm
       ELSE UNCHANGED <<templates, templateList, templateDialog, templateForm>>
    /\ UNCHANGED <<matrix, table, reporting>>

-----------------------------------------------------------------------------
(* The columns of the invoices' table; reports *)

SetColumn(c) ==
    /\ columns' = IF c \in columns THEN columns \ {c} ELSE columns \cup {c}
    /\ storedColumns' \in {{columns'}, storedColumns}      \* storing may fail, silently
    /\ UNCHANGED <<matrix, tempoVars, reporting>>

ReopenTable ==
    /\ columns' = IF storedColumns = {} THEN Columns ELSE UNION storedColumns
    /\ UNCHANGED <<matrix, tempoVars, storedColumns, reporting>>

GenerateReport ==
    /\ reporting' = ~reporting
    /\ UNCHANGED <<matrix, tempoVars, table>>

-----------------------------------------------------------------------------
MatrixNext ==
    \/ \E y \in Years, f \in MatrixFilters : ChangeMatrixQuery([year |-> y, filter |-> f])
    \/ \E r \in matrixAsked, ok \in BOOLEAN : MatrixArrives(r, ok)
    \/ ReopenMatrix

TemplateNext ==
    \/ \E t \in templateList \cup {New} : OpenTemplate(t)
    \/ \E t \in templateList : DeleteTempo(t)
    \/ \E d \in DueDays : FillTemplate(d)
    \/ \E s \in saving, ok \in BOOLEAN : TempoSaved(s, ok)
    \/ CloseTemplate \/ SaveTempo

TableNext == ReopenTable \/ GenerateReport \/ \E c \in Columns : SetColumn(c)

\* A user works in one of them at a time: the others are as they were opened.
AtRest(part) ==
    CASE part = "tempo" -> templates = <<>> /\ templateDialog = Closed /\ saving = {}
      [] part = "table" -> columns = Columns /\ storedColumns = {} /\ ~reporting
      [] part = "matrix" -> matrixRows = {} /\ Cardinality(matrixAsked) = 1 /\ matrixLoading

ViewsNext ==
    \/ MatrixNext /\ AtRest("tempo") /\ AtRest("table")
    \/ TemplateNext /\ AtRest("matrix") /\ AtRest("table")
    \/ TableNext /\ AtRest("matrix") /\ AtRest("tempo")

ViewsSpec == ViewsInit /\ [][ViewsNext]_views

-----------------------------------------------------------------------------
(* Properties *)

\* When the matrix is not loading, its entries answer the year and the filters
\* shown, whatever the order of the answers and also when the server answered
\* for another year (PaymentsMatrixView, the alive flag).
MatrixIsCurrent == ~matrixLoading /\ ~matrixError => matrixRows = {matrixQuery}

\* A save makes one template.
OneSaveAtATime == Cardinality(saving) <= 1
=============================================================================
