----------------------------- MODULE RouterDesk -----------------------------
(***************************************************************************)
(* The pages of routers and network profiles over one store: a list and    *)
(* the one shown for each of the two kinds, a flag for each list and one   *)
(* flag and one error for everything else.                                 *)
(***************************************************************************)
EXTENDS Naturals, Sequences, FiniteSets

CONSTANTS
    Devices,            \* routers
    Profiles,           \* network profiles
    Existing,           \* those the server has at the start
    MaxNetworkAsked     \* bound: requests that a user makes

ASSUME NetworkAssumption ==
    Devices \cap Profiles = {} /\ Existing \subseteq Devices \cup Profiles /\ MaxNetworkAsked \in Nat

VARIABLES
    network,        \* the server: item -> "none" or its status
    itemsHeld,         \* kind -> the items held by the list, with their status
    itemHeld,          \* kind -> the one item held, with its status, Unshown
    itemsLoading,        \* kinds whose list is being loaded, as the store knows
    busy,           \* the flag of everything
    refused,        \* an error is held
    routerPage,          \* the page: "home", "list", "one", "edit", "new", its kind and item
    formOf,         \* on the page of an edition: the item whose values fill the form, "none" for no form
    toDelete,       \* kind -> the item in the dialog of its table, "none"
    deletingItem,   \* kinds whose dialog is deleting
    testing, disconnecting,     \* the router whose button is disabled, "none"
    lostAt,         \* kind -> the requests made when its table was last taken away, with its state
    networkCalls,   \* handlers: kind, item, the page that runs it, the requests left, the answer
    networkAsked    \* requests of users so far (numbers calls)

storeVars == <<itemsHeld, itemHeld, itemsLoading, busy, refused>>
tableVars == <<toDelete, deletingItem, testing, disconnecting, lostAt>>
routersVars == <<network, storeVars, tableVars, routerPage, formOf, networkCalls, networkAsked>>

DeviceKinds == {"router", "profile"}
ItemsOf(k) == IF k = "router" THEN Devices ELSE Profiles
Unshown == [id |-> "none", status |-> "none"]
Unanswered == {[id |-> "unanswered", status |-> "none"]}
At(page, k, i) == [page |-> page, kind |-> k, id |-> i]
RowsOf(k) == {[id |-> i, status |-> network[i]] : i \in {j \in ItemsOf(k) : network[j] # "none"}}

RoutersInit ==
    /\ \E s \in {"provisioning", "online"} :
          network = [i \in Devices \cup Profiles |->
                       IF i \notin Existing THEN "none" ELSE IF i \in Devices THEN s ELSE "offline"]
    /\ itemsHeld = [k \in DeviceKinds |-> {}] /\ itemHeld = [k \in DeviceKinds |-> Unshown]
    /\ itemsLoading = {} /\ busy = FALSE /\ refused = FALSE
    /\ routerPage = At("away", "router", "none") /\ formOf = "none"
    /\ toDelete = [k \in DeviceKinds |-> "none"] /\ deletingItem = {} /\ testing = "none" /\ disconnecting = "none"
    /\ lostAt = [k \in DeviceKinds |-> 0] /\ networkCalls = {} /\ networkAsked = 0

User == networkAsked < MaxNetworkAsked /\ networkAsked' = networkAsked + 1
Call(k, i, steps) ==
    [kind |-> k, id |-> i, op |-> Head(steps), steps |-> steps, got |-> Unanswered, at |-> routerPage'.page, n |-> networkAsked']

\* A list that is being loaded is not asked for again.
MayList(k) == k \notin itemsLoading

\* What a page asks for on arrival.
FetchLists(calls, kinds) ==
    LET asked == {k \in kinds : MayList(k)} IN
    /\ networkCalls' = calls \cup {Call(k, "none", <<"list">>) : k \in asked} /\ itemsLoading' = itemsLoading \cup asked
    /\ busy' = (busy \/ asked # {}) /\ refused' = (refused /\ asked = {})
FetchOne(calls, k, i) ==
    /\ networkCalls' = calls \cup {Call(k, i, <<"one">>)} /\ busy' = TRUE /\ refused' = FALSE /\ UNCHANGED itemsLoading

Arrives(calls, p) ==
    CASE p.page = "home" -> FetchLists(calls, DeviceKinds)
      [] p.page = "list" -> FetchLists(calls, {p.kind})
      [] p.page \in {"one", "edit"} -> FetchOne(calls, p.kind, p.id)
      [] OTHER -> networkCalls' = calls /\ UNCHANGED <<itemsLoading, busy, refused>>

\* A table that is taken away loses its dialog and its buttons' state; the handlers it has
\* started go on without it.
Keeping(lost, deleting, tested, disconnected) ==
    /\ toDelete' = [k \in DeviceKinds |-> IF k \in lost THEN "none" ELSE toDelete[k]]
    /\ deletingItem' = deleting \ lost
    /\ testing' = (IF "router" \in lost THEN "none" ELSE tested)
    /\ disconnecting' = (IF "router" \in lost THEN "none" ELSE disconnected)
    /\ lostAt' = [k \in DeviceKinds |-> IF k \in lost THEN networkAsked' ELSE lostAt[k]]

\* A spinner takes the place of a table on the page of both, an error on the page of a list.
Lost ==
    {k \in DeviceKinds : \/ routerPage'.page = "home" /\ k \in itemsLoading'
                         \/ routerPage'.page = "list" /\ routerPage'.kind = k /\ refused'}

\* A page starts without dialogs; the pages of one item drop it when they are left.
NewPage(p) == routerPage' = p /\ Keeping(DeviceKinds, {}, "none", "none")
LeftBehind(held) == IF routerPage.page \in {"one", "edit"} THEN [held EXCEPT ![routerPage.kind] = Unshown] ELSE held

\* Every other request: the flag is set and the error dropped.
Starts(k, i, steps) ==
    /\ User /\ UNCHANGED <<network, itemsHeld, itemHeld, itemsLoading, routerPage>>
    /\ networkCalls' = networkCalls \cup {Call(k, i, steps)} /\ busy' = TRUE /\ refused' = FALSE

-----------------------------------------------------------------------------
\* Of the tables one page shows both, the pages of a list one each.  A spinner hides them
\* while their list is loaded: on the page of a list, by the flag of everything.  A table
\* without rows shows no dialog either.
TableShown(k) ==
    /\ itemsHeld[k] # {}
    /\ \/ routerPage.page = "home" /\ k \notin itemsLoading
       \/ routerPage.page = "list" /\ routerPage.kind = k /\ ~busy /\ ~refused
\* A dialog that is shown covers the page.
NoDialogShown == \A k \in DeviceKinds : TableShown(k) => toDelete[k] = "none"
InTable(k, i) == TableShown(k) /\ NoDialogShown /\ \E r \in itemsHeld[k] : r.id = i

Go(page, k, i) ==
    /\ User /\ NewPage(At(page, k, i)) /\ Arrives(networkCalls, routerPage') /\ itemHeld' = LeftBehind(itemHeld)
    /\ UNCHANGED <<network, itemsHeld>>

GoHome == routerPage.page \in {"away", "list"} /\ Go("home", "router", "none")
GoToList(k) == routerPage.page \in {"away", "home", "one", "new"} /\ Go("list", k, "none")
GoToNew(k) == routerPage.page \in {"home", "list"} /\ Go("new", k, "none")
GoToItem(k, i, page) == InTable(k, i) /\ Go(page, k, i)
BackToItem == routerPage.page = "edit" /\ Go("one", routerPage.kind, routerPage.id)

Refresh ==
    /\ routerPage.page = "home" /\ NoDialogShown /\ itemsLoading = {} /\ User
    /\ UNCHANGED <<network, itemsHeld, itemHeld, routerPage>>
    /\ FetchLists(networkCalls, DeviceKinds) /\ Keeping(Lost, deletingItem, testing, disconnecting)

\* The form of a profile is filled again when another one is held, that of a router is not.
KeepsValues(k) == k = "router" /\ formOf # "none" /\ routerPage' = routerPage

\* The form of an edition appears with the item that is held; a spinner or an error takes
\* it away.
FormRendered ==
    formOf' = IF routerPage'.page = "edit" /\ ~busy' /\ ~refused' /\ itemHeld'[routerPage'.kind] # Unshown
              THEN IF KeepsValues(routerPage'.kind) THEN formOf ELSE itemHeld'[routerPage'.kind].id
              ELSE "none"

\* Its values go to the item of the address.
UpdateItem == formOf # "none" /\ Starts(routerPage.kind, routerPage.id, <<"update">>) /\ UNCHANGED tableVars

CreateItem(i) ==
    /\ routerPage.page = "new" /\ ~busy /\ network[i] = "none" /\ i \in ItemsOf(routerPage.kind)
    /\ Starts(routerPage.kind, i, <<"create">>) /\ UNCHANGED tableVars

DeleteShown ==
    /\ routerPage.page = "one" /\ ~busy /\ ~refused /\ itemHeld[routerPage.kind] # Unshown
    /\ Starts(routerPage.kind, itemHeld[routerPage.kind].id, <<"delete">>) /\ UNCHANGED tableVars

-----------------------------------------------------------------------------
\* The tables.  A router that is being provisioned is only shown, edited or deleted.
Ready(i) == \E r \in itemsHeld["router"] : r.id = i /\ r.status # "provisioning"

TestConnection(i) ==
    /\ InTable("router", i) /\ Ready(i) /\ testing # i /\ testing' = i
    /\ Starts("router", i, <<"test", "one", "list">>) /\ UNCHANGED <<toDelete, deletingItem, disconnecting, lostAt>>

Disconnect(i) ==
    /\ InTable("router", i) /\ Ready(i) /\ disconnecting # i /\ disconnecting' = i
    /\ Starts("router", i, <<"disconnect", "one", "list">>) /\ UNCHANGED <<toDelete, deletingItem, testing, lostAt>>

AskDelete(k, i) ==
    /\ InTable(k, i) /\ toDelete' = [toDelete EXCEPT ![k] = i]
    /\ UNCHANGED <<network, storeVars, deletingItem, testing, disconnecting, lostAt, routerPage, networkCalls, networkAsked>>

\* Nothing closes the dialog while it deletes.  Mutant: the cancel button does.
MayCancelAlways(k) == TableShown(k) /\ toDelete[k] # "none"
MayCancel(k) == TableShown(k) /\ toDelete[k] # "none" /\ k \notin deletingItem

CancelDelete(k) ==
    /\ MayCancel(k) /\ toDelete' = [toDelete EXCEPT ![k] = "none"]
    /\ UNCHANGED <<network, storeVars, deletingItem, testing, disconnecting, lostAt, routerPage, networkCalls, networkAsked>>

DeleteItem(k) ==
    /\ TableShown(k) /\ toDelete[k] # "none" /\ k \notin deletingItem /\ deletingItem' = deletingItem \cup {k}
    /\ Starts(k, toDelete[k], <<"delete">>) /\ UNCHANGED <<toDelete, testing, disconnecting, lostAt>>

-----------------------------------------------------------------------------
\* The server: what each request does to it, and what it answers.
StatusesAfter(c) ==
    CASE Head(c.steps) = "delete" -> {"none"}
      [] Head(c.steps) \in {"create", "disconnect"} -> {"offline"}
      [] Head(c.steps) = "test" -> {"online", "offline"}
      [] Head(c.steps) = "update" -> {network[c.id], "offline"}
      [] OTHER -> {network[i] : i \in {c.id} \ {"none"}}

\* What does not exist is refused.
Serves(c) ==
    /\ c \in networkCalls /\ c.got = Unanswered
    /\ Head(c.steps) # "list" => (network[c.id] = "none") = (Head(c.steps) = "create")
    /\ IF Head(c.steps) = "list" THEN UNCHANGED network
       ELSE \E s \in StatusesAfter(c) : network' = [network EXCEPT ![c.id] = s]
    /\ networkCalls' = (networkCalls \ {c}) \cup
         {[c EXCEPT !.got = IF Head(c.steps) = "list" THEN RowsOf(c.kind) ELSE {[id |-> c.id, status |-> network'[c.id]]}]}
    /\ UNCHANGED <<storeVars, tableVars, routerPage, networkAsked>>

TheRow(c) == CHOOSE r \in c.got : TRUE
Replaced(rows, c) == {IF r.id = c.id THEN TheRow(c) ELSE r : r \in rows}

\* The table that started a handler is still the one there is.
StillThere(c) == c.at # "one" /\ c.n > lostAt[c.kind]

\* The end of a handler: its table enables the button again.
TableAfter(c) ==
    Keeping(Lost, IF c.op = "delete" /\ StillThere(c) THEN deletingItem \ {c.kind} ELSE deletingItem,
            IF c.op = "test" /\ StillThere(c) THEN "none" ELSE testing,
            IF c.op = "disconnect" /\ StillThere(c) THEN "none" ELSE disconnecting)

\* What is left of a handler begins, or nothing; a list that is being loaded is skipped.
StepsOn(c) ==
    LET left == Tail(c.steps)
        rest == networkCalls \ {c}
        next == [c EXCEPT !.steps = left, !.got = Unanswered]
    IN IF left = <<>> \/ (Head(left) = "list" /\ ~MayList(c.kind))
       THEN /\ networkCalls' = rest /\ busy' = (c.op = "list" /\ itemsLoading \ {c.kind} # {})
            /\ itemsLoading' = (IF Head(c.steps) = "list" THEN itemsLoading \ {c.kind} ELSE itemsLoading)
            /\ UNCHANGED <<refused, routerPage>> /\ TableAfter(c)
       ELSE /\ networkCalls' = rest \cup {next} /\ busy' = TRUE /\ refused' = FALSE
            /\ itemsLoading' = (IF Head(left) = "list" THEN itemsLoading \cup {c.kind} ELSE itemsLoading)
            /\ UNCHANGED routerPage /\ Keeping(Lost, deletingItem, testing, disconnecting)

\* A failure ends the handler with the error; of a list it empties the list.
Fails(c) ==
    /\ networkCalls' = networkCalls \ {c} /\ refused' = TRUE
    /\ busy' = (c.op = "list" /\ itemsLoading \ {c.kind} # {})
    /\ IF Head(c.steps) = "list"
       THEN itemsLoading' = itemsLoading \ {c.kind} /\ itemsHeld' = [itemsHeld EXCEPT ![c.kind] = {}]
       ELSE UNCHANGED <<itemsLoading, itemsHeld>>
    /\ UNCHANGED <<itemHeld, routerPage>> /\ TableAfter(c)

ItemsArrive(c) ==
    /\ Head(c.steps) = "list" /\ itemsHeld' = [itemsHeld EXCEPT ![c.kind] = c.got] /\ StepsOn(c) /\ UNCHANGED itemHeld

OneArrives(c) ==
    /\ Head(c.steps) = "one" /\ itemHeld' = [itemHeld EXCEPT ![c.kind] = TheRow(c)] /\ StepsOn(c) /\ UNCHANGED itemsHeld

Acted(c) == Head(c.steps) \in {"test", "disconnect"} /\ StepsOn(c) /\ UNCHANGED <<itemsHeld, itemHeld>>

\* An update or a creation takes the user to the item or the list, wherever he is by then.
Moves(c, page, i, held) ==
    IF <<routerPage.page, routerPage.kind, routerPage.id>> = <<page, c.kind, i>>
    THEN /\ networkCalls' = networkCalls \ {c} /\ busy' = FALSE /\ itemHeld' = held
         /\ UNCHANGED <<itemsLoading, refused, tableVars, routerPage>>
    ELSE NewPage(At(page, c.kind, i)) /\ Arrives(networkCalls \ {c}, routerPage') /\ itemHeld' = LeftBehind(held)

UpdateArrives(c) ==
    /\ Head(c.steps) = "update" /\ itemsHeld' = [itemsHeld EXCEPT ![c.kind] = Replaced(@, c)]
    /\ Moves(c, "one", c.id, [itemHeld EXCEPT ![c.kind] = IF @.id = c.id THEN TheRow(c) ELSE @])

CreateArrives(c) ==
    /\ Head(c.steps) = "create" /\ itemsHeld' = [itemsHeld EXCEPT ![c.kind] = @ \cup c.got]
    /\ Moves(c, "list", "none", itemHeld)

DeleteArrives(c) ==
    /\ Head(c.steps) = "delete" /\ itemsHeld' = [itemsHeld EXCEPT ![c.kind] = {r \in @ : r.id # c.id}]
    /\ LET held == [itemHeld EXCEPT ![c.kind] = IF @.id = c.id THEN Unshown ELSE @] IN
       IF c.at = "one" THEN Moves(c, "list", "none", held)
       ELSE /\ itemHeld' = held /\ busy' = FALSE /\ networkCalls' = networkCalls \ {c}
            /\ IF StillThere(c)
               THEN deletingItem' = deletingItem \ {c.kind} /\ toDelete' = [toDelete EXCEPT ![c.kind] = "none"]
               ELSE UNCHANGED <<deletingItem, toDelete>>
            /\ UNCHANGED <<itemsLoading, refused, testing, disconnecting, lostAt, routerPage>>

CallEnds(c) ==
    /\ c \in networkCalls /\ UNCHANGED <<network, networkAsked>>
    /\ \/ Fails(c)
       \/ /\ c.got # Unanswered
          /\ \/ ItemsArrive(c) \/ OneArrives(c) \/ Acted(c)
             \/ UpdateArrives(c) \/ CreateArrives(c) \/ DeleteArrives(c)

-----------------------------------------------------------------------------
RoutersNext ==
    /\ \/ GoHome \/ Refresh \/ BackToItem \/ UpdateItem \/ DeleteShown
       \/ \E k \in DeviceKinds : GoToList(k) \/ GoToNew(k) \/ CancelDelete(k) \/ DeleteItem(k)
       \/ \E k \in DeviceKinds, i \in Devices \cup Profiles, page \in {"one", "edit"} : GoToItem(k, i, page)
       \/ \E k \in DeviceKinds, i \in Devices \cup Profiles : AskDelete(k, i)
       \/ \E i \in Devices : TestConnection(i) \/ Disconnect(i)
       \/ \E i \in Devices \cup Profiles : CreateItem(i)
       \/ \E c \in networkCalls : Serves(c) \/ CallEnds(c)
    /\ FormRendered

RoutersSpec == RoutersInit /\ [][RoutersNext]_routersVars

-----------------------------------------------------------------------------
\* The list of a kind is loaded once at a time, through the pages that ask for it and the
\* handlers that ask for it after a test: an earlier list never replaces a later one.
OneListAtATime == \A k \in DeviceKinds : Cardinality({c \in networkCalls : c.kind = k /\ Head(c.steps) = "list"}) <= 1

\* The dialog of a table names what is being deleted, with its buttons disabled, until that
\* has ended or the table has been taken away, whatever ends or reloads meanwhile.
DialogNamesItsItem ==
    \A c \in networkCalls : c.op = "delete" /\ StillThere(c) => toDelete[c.kind] = c.id /\ c.kind \in deletingItem

\* Fails: a page that is left, or on the page of both tables the list that a test reloads,
\* takes the dialog that deletes away, and the item can be deleted once more meanwhile.
OneDeletionPerItem ==
    LET deleting == {c \in networkCalls : c.op = "delete" /\ c.at # "one"}
    IN \A c, d \in deleting : c.id = d.id => c = d

\* Fails: the answer for one item may come while the page of another one waits, and the
\* form takes its values, which the save writes over those of the other.
FormIsItsItem == formOf # "none" => formOf = routerPage.id

\* Fails: a list that was read before a deletion arrives after it.
DeletedStaysOut ==
    networkCalls = {} /\ ~refused => \A k \in DeviceKinds : \A r \in itemsHeld[k] : network[r.id] # "none"
=============================================================================
