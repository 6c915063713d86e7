----------------------------- MODULE ClientDesk -----------------------------
(***************************************************************************)
(* The list of clients with its filters and pages, and the page of a client *)
(* with its status and deletion, over clientStore: one flag, loading, that  *)
(* every request sets and resets, and that makes a list fetch be skipped.   *)
(***************************************************************************)
EXTENDS Naturals, FiniteSets

CONSTANTS
    Clients,        \* clients
    Totals,         \* numbers of pages a list can have
    MaxClientAsked  \* bound: requests in flight when another one is begun

ASSUME ClientDeskAssumption ==
    Totals \subseteq Nat /\ MaxClientAsked \in Nat /\ "list" \notin Clients /\ "none" \notin Clients

VARIABLES
    technician,     \* the user's role
    place,          \* the list or the client whose page is shown
    storeLoading, storeError,
    filters,        \* clientStore.filters: filter and page
    listPage,       \* clientStore.page
    totalPages,     \* clientStore.totalPages
    listRows,       \* the query the rows answer
    rowStatus,      \* the status the rows show, a function on the clients listed
    listAsked,      \* list fetches in flight: query, and whether it was given
    clientAsked,    \* fetchClient in flight
    selected,       \* clientStore.selectedClient: client and status
    status,         \* the server's status of a client, "deleted" when it is gone
    changing,       \* status changes in flight: client, status and where from
    deleting        \* deletions in flight

clientDesk == <<technician, place, storeLoading, storeError, filters, listPage, totalPages, listRows, rowStatus,
                listAsked, clientAsked, selected, status, changing, deleting>>
listVars == <<filters, listPage, totalPages, listRows, rowStatus, listAsked>>
serverVars == <<status, changing, deleting>>

Statuses == {"active", "isolir", "deleted"}
FiltersOf(t) == IF t THEN {"active", "active in group"} ELSE {"all", "some"}
FirstFilter(t) == IF t THEN "active" ELSE "all"
None == [of |-> "none", status |-> "none"]
NoQuery == [filter |-> "none", page |-> 0]

\* A technician's list is filtered from the start; the first fetch has begun.
ClientDeskInit ==
    /\ technician \in BOOLEAN /\ place = "list" /\ storeLoading = TRUE /\ storeError = FALSE
    /\ filters = [filter |-> FirstFilter(technician), page |-> 1] /\ listPage = 1 /\ totalPages = 0
    /\ listRows = NoQuery /\ rowStatus = <<>> /\ listAsked = {[q |-> filters, given |-> TRUE]}
    /\ clientAsked = {} /\ selected = None
    /\ status = [c \in Clients |-> "active"] /\ changing = {} /\ deleting = {}

Requests == Cardinality(listAsked) + Cardinality(clientAsked) + Cardinality(changing) + Cardinality(deleting)
MayRequest == Requests <= MaxClientAsked

-----------------------------------------------------------------------------
(* The list *)

\* fetchClients: skipped while the store is loading.
FetchClients(q, given) ==
    /\ listAsked' = IF storeLoading THEN listAsked ELSE listAsked \cup {[q |-> q, given |-> given]}
    /\ storeLoading' = TRUE /\ storeError' = (storeError /\ storeLoading)

\* The rows, the page and, when the filters were given with the call, also the
\* filters become those of the request.
ClientsArrive(r, total, ok) ==
    /\ r \in listAsked /\ listAsked' = listAsked \ {r} /\ storeLoading' = FALSE
    /\ IF ok
       THEN /\ listRows' = r.q /\ listPage' = r.q.page /\ totalPages' = total
            /\ rowStatus' = [c \in {x \in Clients : status[x] # "deleted"} |-> status[c]]
            /\ filters' = IF r.given THEN r.q ELSE filters
            /\ UNCHANGED storeError
       ELSE storeError' = TRUE /\ UNCHANGED <<filters, listPage, totalPages, listRows, rowStatus>>
    /\ UNCHANGED <<technician, place, clientAsked, selected, serverVars>>

\* The list fetches anew when it is shown again.
ShowClients ==
    /\ place # "list" /\ MayRequest /\ place' = "list" /\ selected' = None
    /\ FetchClients([filter |-> FirstFilter(technician), page |-> 1], TRUE)
    /\ filters' = IF technician THEN [filter |-> "active", page |-> 1] ELSE filters
    /\ listPage' = IF technician THEN 1 ELSE listPage
    /\ UNCHANGED <<technician, totalPages, listRows, rowStatus, clientAsked, serverVars>>

ChangeFilter(f) ==
    /\ place = "list" /\ MayRequest /\ f \in FiltersOf(technician)
    /\ filters' = [filter |-> f, page |-> 1] /\ listPage' = 1
    /\ FetchClients([filter |-> f, page |-> 1], TRUE)
    /\ UNCHANGED <<technician, place, totalPages, listRows, rowStatus, clientAsked, selected, serverVars>>

\* The numbers of the pagination: all of them, or five around the page.
\* Mutant: the window stops moving one page too late.
PageNumbersShifted ==
    CASE totalPages <= 5 \/ listPage <= 3 -> 1..(IF totalPages < 5 THEN totalPages ELSE 5)
      [] listPage > 3 /\ totalPages > 5 /\ listPage >= totalPages -> (totalPages - 4)..totalPages
      [] OTHER -> (listPage - 2)..(listPage + 2)
PageNumbers ==
    CASE totalPages <= 5 \/ listPage <= 3 -> 1..(IF totalPages < 5 THEN totalPages ELSE 5)
      [] listPage > 3 /\ totalPages > 5 /\ listPage >= totalPages - 2 -> (totalPages - 4)..totalPages
      [] OTHER -> (listPage - 2)..(listPage + 2)

\* The pages a button leads to; none is shown for a single page.
PagesOffered ==
    IF totalPages <= 1 THEN {}
    ELSE PageNumbers \cup (IF listPage = 1 THEN {} ELSE {listPage - 1})
                     \cup (IF listPage = totalPages THEN {} ELSE {listPage + 1})

ChangePage(n) ==
    /\ place = "list" /\ MayRequest /\ n \in PagesOffered
    /\ listPage' = n /\ FetchClients([filters EXCEPT !.page = n], TRUE)
    /\ UNCHANGED <<technician, place, filters, totalPages, listRows, rowStatus, clientAsked, selected, serverVars>>

-----------------------------------------------------------------------------
(* Status and deletion *)

Other(s) == IF s = "active" THEN "isolir" ELSE "active"

\* A row's button: only for those who manage clients, and not while loading.
Offered(c) ==
    IF place = "list" THEN ~storeLoading /\ ~technician /\ c \in DOMAIN rowStatus
    ELSE ~storeLoading /\ ~storeError /\ ~technician /\ selected.of = c /\ selected.status # "none"
           /\ {x \in changing : x.from = place} = {}

ShownStatus(c) == IF place = "list" THEN rowStatus[c] ELSE selected.status

ChangeStatus(c) ==
    /\ MayRequest /\ Offered(c)
    /\ changing' = changing \cup {[of |-> c, to |-> Other(ShownStatus(c)), from |-> place]}
    /\ UNCHANGED <<technician, place, storeLoading, storeError, listVars, clientAsked, selected, status, deleting>>

\* The list is fetched again with the store's filters, the page of a client
\* fetches the client.
StatusChanged(x, ok) ==
    /\ x \in changing /\ changing' = changing \ {x}
    /\ ok => status[x.of] # "deleted"
    /\ status' = IF ok THEN [status EXCEPT ![x.of] = x.to] ELSE status
    /\ IF ok /\ x.from = "list" THEN FetchClients([filters EXCEPT !.page = filters.page], FALSE) /\ UNCHANGED clientAsked
       ELSE IF ok THEN /\ clientAsked' = clientAsked \cup {x.from} /\ storeLoading' = TRUE /\ storeError' = FALSE
                       /\ UNCHANGED listAsked
       ELSE UNCHANGED <<listAsked, clientAsked, storeLoading, storeError>>
    /\ UNCHANGED <<technician, place, filters, listPage, totalPages, listRows, rowStatus, selected, deleting>>

OpenClient(c) ==
    /\ place = "list" /\ MayRequest /\ ~storeLoading /\ c \in DOMAIN rowStatus
    /\ place' = c /\ clientAsked' = clientAsked \cup {c} /\ storeLoading' = TRUE /\ storeError' = FALSE
    /\ UNCHANGED <<technician, listVars, selected, serverVars>>

\* Whatever is shown by then.
ClientArrives(c, ok) ==
    /\ c \in clientAsked /\ clientAsked' = clientAsked \ {c} /\ storeLoading' = FALSE
    /\ IF ok /\ status[c] # "deleted"
       THEN selected' = [of |-> c, status |-> status[c]] /\ UNCHANGED storeError
       ELSE storeError' = TRUE /\ UNCHANGED selected
    /\ UNCHANGED <<technician, place, listVars, serverVars>>

DeleteClient(c) ==
    /\ MayRequest /\ place = c /\ Offered(c) /\ c \notin deleting /\ deleting' = deleting \cup {c}
    /\ UNCHANGED <<technician, place, storeLoading, storeError, listVars, clientAsked, selected, status, changing>>

\* A success leads to the list.
ClientDeleted(c, ok) ==
    /\ c \in deleting /\ deleting' = deleting \ {c}
    /\ status' = IF ok THEN [status EXCEPT ![c] = "deleted"] ELSE status
    /\ IF ok /\ place # "list"
       THEN /\ place' = "list" /\ selected' = None
            /\ FetchClients([filter |-> FirstFilter(technician), page |-> 1], TRUE)
       ELSE UNCHANGED <<place, selected, listAsked, storeLoading, storeError>>
    /\ UNCHANGED <<technician, filters, listPage, totalPages, listRows, rowStatus, clientAsked, changing>>

-----------------------------------------------------------------------------
ClientDeskNext ==
    \/ \E r \in listAsked, n \in Totals, ok \in BOOLEAN : ClientsArrive(r, n, ok)
    \/ ShowClients
    \/ \E f \in FiltersOf(technician) : ChangeFilter(f)
    \/ \E n \in PagesOffered : ChangePage(n)
    \/ \E c \in Clients : ChangeStatus(c) \/ OpenClient(c) \/ DeleteClient(c)
    \/ \E x \in changing, ok \in BOOLEAN : StatusChanged(x, ok)
    \/ \E c \in Clients, ok \in BOOLEAN : ClientArrives(c, ok) \/ ClientDeleted(c, ok)

ClientDeskSpec == ClientDeskInit /\ [][ClientDeskNext]_clientDesk

-----------------------------------------------------------------------------
(* Properties *)

\* The numbered pages exist, and the current page is among them when it exists
\* itself (ClientPagination).
PagesOfferedExist ==
    totalPages > 1 => /\ PageNumbers \subseteq 1..totalPages
                      /\ listPage <= totalPages => listPage \in PageNumbers

\* The next page is offered only when there is one.
NextPageExists == PagesOffered \subseteq 1..totalPages

\* Once nothing is loading and nothing has failed, the rows answer the filters
\* that are shown.
RowsAnswerFilters ==
    place = "list" /\ ~storeLoading /\ ~storeError /\ listRows # NoQuery => listRows.filter = filters.filter

\* The page of a client shows that client.
ClientShownIsIts == place \in Clients /\ ~storeLoading /\ ~storeError => selected.of \in {place, "none"}
=============================================================================
