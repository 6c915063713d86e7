---------------------------- MODULE TechnicianOwn ----------------------------
(***************************************************************************)
(* What a technician asks for himself: reimbursements and days off (two    *)
(* pages of one shape), clients he proposes, payslips, and the attendance  *)
(* of the day.  Each page keeps its own state and loses it when it is      *)
(* left; what it has asked goes on.                                        *)
(***************************************************************************)
EXTENDS Naturals, FiniteSets

CONSTANTS
    OwnItems,       \* items of a page: requests, proposals or payslips
    OwnStatuses,    \* their statuses, by which a list may be filtered
    MaxOwnAsked     \* bound: requests begun

ASSUME TechnicianOwnAssumption ==
    OwnItems \subseteq Nat \ {0} /\ "pending" \in OwnStatuses /\ "all" \notin OwnStatuses /\ "none" \notin OwnStatuses /\ MaxOwnAsked \in Nat

VARIABLES
    ownOpened,      \* the page he has opened by its address, to which the browser leads back
    ownPage,        \* the page: requests, proposals, propose, payslips or attendance
    ownSince,       \* the number of requests begun before the page was
    ownFilter, ownRows, ownLoading, ownError,
    ownForm,        \* the form: closed, empty, or filled
    ownFile,        \* a file is attached in it
    ownSubmitting,
    ownDetail,      \* the item whose details are shown, 0 for none
    ownDownloading, \* the payslip whose button is disabled, 0 for none
    ownToday,       \* the attendance of today as shown: none, in, out or leave
    ownPlace,       \* where the technician is: unknown, asked, known or refused
    ownCalls,       \* requests, and questions to the browser for the place
    ownKept, ownDay,\* the server: the status of each item, the attendance of today
    ownAsked        \* requests begun so far

ownListVars == <<ownFilter, ownRows, ownLoading, ownError>>
ownFormVars == <<ownForm, ownFile, ownSubmitting>>
ownDayVars == <<ownToday, ownPlace>>
ownServer == <<ownKept, ownDay>>
ownVars == <<ownOpened, ownPage, ownSince, ownListVars, ownFormVars, ownDetail, ownDownloading, ownDayVars, ownCalls, ownServer, ownAsked>>

Matching(f) == {i \in OwnItems : ownKept[i] # "none" /\ (f = "all" \/ ownKept[i] = f)}
OwnCall(op, x, i) == [op |-> op, of |-> x, id |-> i, n |-> ownAsked]

\* A page begins empty, and asks for its list or for the attendance of the day and of the month.
FirstCalls(page, n) ==
    CASE page = "attendance" -> {[op |-> "today", of |-> "none", id |-> 0, n |-> n], [op |-> "month", of |-> "none", id |-> 0, n |-> n + 1]}
      [] page = "propose" -> {}
      [] OTHER -> {[op |-> "list", of |-> "all", id |-> 0, n |-> n]}

OwnInit ==
    /\ ownOpened \in {"requests", "proposals", "payslips", "attendance"} /\ ownPage = ownOpened /\ ownSince = 0
    /\ ownFilter = "all" /\ ownRows = {} /\ ownLoading = TRUE /\ ownError = FALSE
    /\ ownForm = "closed" /\ ownFile = FALSE /\ ownSubmitting = FALSE /\ ownDetail = 0 /\ ownDownloading = 0
    /\ ownToday = "none" /\ ownPlace = "unknown"
    /\ ownKept \in [OwnItems -> OwnStatuses \cup {"none"}] /\ ownDay \in {"none", "in", "out", "leave"}
    /\ ownCalls = FirstCalls(ownPage, 0) /\ ownAsked = Cardinality(ownCalls)

OwnVisit(page, under) ==
    LET first == FirstCalls(page, ownAsked) IN
    /\ ownAsked + Cardinality(first) <= MaxOwnAsked /\ ownAsked' = ownAsked + Cardinality(first)
    /\ ownPage' = page /\ ownSince' = ownAsked /\ ownCalls' = under \cup first
    /\ ownFilter' = "all" /\ ownRows' = {} /\ ownLoading' = (first # {}) /\ ownError' = FALSE
    /\ ownForm' = (IF page = "propose" THEN "empty" ELSE "closed") /\ ownFile' = FALSE /\ ownSubmitting' = FALSE
    /\ ownDetail' = 0 /\ ownDownloading' = 0 /\ ownToday' = "none" /\ ownPlace' = "unknown"
    /\ UNCHANGED ownOpened

\* By the dashboard, which leads to the attendance, or the browser's history.
OwnByMenu(page) == page # ownPage /\ page # "propose" /\ OwnVisit(page, ownCalls) /\ UNCHANGED ownServer

OwnSend(c) == ownAsked < MaxOwnAsked /\ ownAsked' = ownAsked + 1 /\ ownCalls' = ownCalls \cup {c}

-----------------------------------------------------------------------------
(* Lists: each change of the filter asks for the list anew, and nothing waits for the last one. *)

\* An error takes the place of the page when there is nothing else to show.
OwnPageUp == ~(ownError /\ ownRows = {}) /\ ownPage \in {"requests", "proposals", "payslips"}
OwnShown == {i \in ownRows : ownFilter = "all" \/ ownKept[i] = ownFilter}
NoOwnDialog == ownForm = "closed" /\ ownDetail = 0

ChooseFilter(f) ==
    /\ OwnPageUp /\ ownPage # "payslips" /\ NoOwnDialog /\ f # ownFilter
    /\ OwnSend(OwnCall("list", f, 0)) /\ ownFilter' = f /\ ownLoading' = TRUE /\ ownError' = FALSE
    /\ UNCHANGED <<ownOpened, ownPage, ownSince, ownRows, ownFormVars, ownDetail, ownDownloading, ownDayVars, ownServer>>

ViewOwn(i) ==
    /\ OwnPageUp /\ ownPage # "proposals" /\ NoOwnDialog /\ i \in OwnShown /\ OwnSend(OwnCall("one", "none", i))
    /\ UNCHANGED <<ownOpened, ownPage, ownSince, ownListVars, ownFormVars, ownDetail, ownDownloading, ownDayVars, ownServer>>

CloseDetail ==
    /\ ownDetail # 0 /\ ownDetail' = 0
    /\ UNCHANGED <<ownOpened, ownPage, ownSince, ownListVars, ownFormVars, ownDownloading, ownDayVars, ownCalls, ownServer, ownAsked>>

\* The button of a payslip is disabled while it is the last one asked for.
Download(i) ==
    /\ OwnPageUp /\ ownPage = "payslips" /\ i \in OwnShown /\ ownDetail \in {0, i} /\ ownDownloading # i
    /\ OwnSend(OwnCall("file", "none", i)) /\ ownDownloading' = i
    /\ UNCHANGED <<ownOpened, ownPage, ownSince, ownListVars, ownFormVars, ownDetail, ownDayVars, ownServer>>

-----------------------------------------------------------------------------
(* The form to ask for something, a dialog of its page or a page of its own. *)

SetForm(form, file) ==
    /\ ownForm' = form /\ ownFile' = file
    /\ UNCHANGED <<ownOpened, ownPage, ownSince, ownListVars, ownSubmitting, ownDetail, ownDownloading, ownDayVars, ownCalls, ownServer, ownAsked>>

OpenOwnForm ==
    \/ OwnPageUp /\ ownPage = "requests" /\ NoOwnDialog /\ SetForm("empty", FALSE)
    \/ OwnPageUp /\ ownPage = "proposals" /\ OwnVisit("propose", ownCalls) /\ UNCHANGED ownServer

FillOwnForm == ownForm = "empty" /\ SetForm("filled", ownFile)
Attach == ownForm # "closed" /\ SetForm(ownForm, ~ownFile)

\* Cancel is disabled while the form is sent; what closes the dialog otherwise is not.
CloseOwnForm ==
    \/ ownPage = "requests" /\ ownForm # "closed" /\ SetForm("closed", FALSE)
    \/ ownPage = "propose" /\ ~ownSubmitting /\ OwnVisit("proposals", ownCalls) /\ UNCHANGED ownServer

MaySubmitOwn == ~ownSubmitting

SubmitOwn ==
    /\ ownForm = "filled" /\ MaySubmitOwn /\ OwnSend(OwnCall(IF ownPage = "propose" THEN "propose" ELSE "create", ownFilter, 0)) /\ ownSubmitting' = TRUE
    /\ UNCHANGED <<ownOpened, ownPage, ownSince, ownListVars, ownForm, ownFile, ownDetail, ownDownloading, ownDayVars, ownServer>>

\* The place may also be asked for in the form of a proposal.
AskPlace ==
    /\ ownPage = "propose" /\ ownPlace \in {"unknown", "refused"} /\ OwnSend(OwnCall("place", "form", 0)) /\ ownPlace' = "asked"
    /\ UNCHANGED <<ownOpened, ownPage, ownSince, ownListVars, ownFormVars, ownDetail, ownDownloading, ownToday, ownServer>>

-----------------------------------------------------------------------------
(* Attendance: the place is asked for first, once, and the day goes on without it. *)

Check(op) ==
    /\ ownPage = "attendance" /\ ~ownLoading /\ ~(ownError /\ ownToday = "none") /\ ownPlace # "asked"
    /\ ownToday = (IF op = "in" THEN "none" ELSE "in")
    /\ IF ownPlace = "unknown" THEN OwnSend(OwnCall("place", op, 0)) /\ ownPlace' = "asked" ELSE OwnSend(OwnCall(op, op, 0)) /\ UNCHANGED ownPlace
    /\ UNCHANGED <<ownOpened, ownPage, ownSince, ownListVars, ownFormVars, ownDetail, ownDownloading, ownToday, ownServer>>

-----------------------------------------------------------------------------
(* Answers; those to a page that was left change nothing but where the user is. *)

Still(c) == c.n >= ownSince
OwnAnswered(c) == c \in ownCalls /\ ownCalls' = ownCalls \ {c} /\ UNCHANGED <<ownOpened, ownPage, ownSince, ownFilter, ownAsked>>

\* The place, known or refused, of a check is sent with it.
PlaceHere(c) ==
    /\ c \in ownCalls /\ c.op = "place" /\ ownPlace' \in (IF Still(c) THEN {"known", "refused"} ELSE {ownPlace})
    /\ ownCalls' = (ownCalls \ {c}) \cup (IF c.of = "form" THEN {} ELSE {[c EXCEPT !.op = c.of]})
    /\ UNCHANGED <<ownOpened, ownPage, ownSince, ownListVars, ownFormVars, ownDetail, ownDownloading, ownToday, ownServer, ownAsked>>

OwnListHere(c) ==
    /\ c.op = "list" /\ OwnAnswered(c)
    /\ IF Still(c) THEN ownRows' = Matching(c.of) /\ ownLoading' = FALSE ELSE UNCHANGED <<ownRows, ownLoading>>
    /\ UNCHANGED <<ownError, ownFormVars, ownDetail, ownDownloading, ownDayVars, ownServer>>

OwnOneHere(c) ==
    /\ c.op \in {"one", "file"} /\ OwnAnswered(c)
    /\ ownDetail' = (IF c.op = "one" /\ Still(c) THEN c.id ELSE ownDetail)
    /\ ownDownloading' = (IF c.op = "file" /\ Still(c) THEN 0 ELSE ownDownloading)
    /\ UNCHANGED <<ownRows, ownLoading, ownError, ownFormVars, ownDayVars, ownServer>>

TodayHere(c) ==
    /\ c.op \in {"today", "month"} /\ OwnAnswered(c)
    /\ IF c.op = "today" /\ Still(c) THEN ownToday' = ownDay /\ ownLoading' = FALSE ELSE UNCHANGED <<ownToday, ownLoading>>
    /\ UNCHANGED <<ownRows, ownError, ownFormVars, ownDetail, ownDownloading, ownPlace, ownServer>>

\* A request that is made closes its dialog and asks for the list, under the filter of the moment
\* it was sent; only the end of that ends the submission.
NewItem == \E i \in OwnItems : ownKept[i] = "none" /\ ownKept' = [ownKept EXCEPT ![i] = "pending"]

CreatedHere(c) ==
    /\ c \in ownCalls /\ c.op = "create" /\ NewItem
    /\ ownCalls' = (ownCalls \ {c}) \cup {[c EXCEPT !.op = "after"]}
    /\ IF Still(c) THEN ownForm' = "closed" /\ ownFile' = FALSE /\ ownLoading' = TRUE /\ ownError' = FALSE
       ELSE UNCHANGED <<ownForm, ownFile, ownLoading, ownError>>
    /\ UNCHANGED <<ownOpened, ownPage, ownSince, ownFilter, ownRows, ownSubmitting, ownDetail, ownDownloading, ownDayVars, ownDay, ownAsked>>

SubmissionEnds(c) ==
    /\ c.op = "after" /\ OwnAnswered(c)
    /\ \E ok \in BOOLEAN :
         IF Still(c)
         THEN /\ ownRows' = (IF ok THEN Matching(c.of) ELSE {}) /\ ownLoading' = FALSE /\ ownSubmitting' = FALSE
              /\ ownError' = (ownError \/ ~ok)
         ELSE UNCHANGED <<ownRows, ownLoading, ownSubmitting, ownError>>
    /\ UNCHANGED <<ownForm, ownFile, ownDetail, ownDownloading, ownDayVars, ownServer>>

\* A proposal leads to the list of proposals, wherever the user has gone.
ProposedHere(c) ==
    /\ c \in ownCalls /\ c.op = "propose" /\ NewItem
    /\ OwnVisit("proposals", ownCalls \ {c}) /\ UNCHANGED ownDay

\* Nobody is checked in twice, or out who is not in; what is checked is shown, and the month asked for.
CheckedHere(c) ==
    /\ c \in ownCalls /\ c.op \in {"in", "out"} /\ ownDay = (IF c.op = "in" THEN "none" ELSE "in") /\ ownDay' = c.op
    /\ ownCalls' = (ownCalls \ {c}) \cup {[c EXCEPT !.op = "month"]} /\ ownToday' = (IF Still(c) THEN c.op ELSE ownToday)
    /\ UNCHANGED <<ownOpened, ownPage, ownSince, ownListVars, ownFormVars, ownDetail, ownDownloading, ownPlace, ownKept, ownAsked>>

\* A list that fails is emptied, but for that of the proposals.  What was to be done may be done.
OwnFails(c) ==
    /\ c.op \notin {"after", "place"} /\ OwnAnswered(c)
    /\ ownError' = (ownError \/ (Still(c) /\ c.op \in {"list", "today"}))
    /\ ownRows' = (IF Still(c) /\ c.op = "list" /\ ownPage # "proposals" THEN {} ELSE ownRows)
    /\ ownLoading' = (ownLoading /\ ~(Still(c) /\ c.op \in {"list", "today"}))
    /\ ownSubmitting' = (ownSubmitting /\ ~(Still(c) /\ c.op \in {"create", "propose"}))
    /\ ownDownloading' = (IF Still(c) /\ c.op = "file" THEN 0 ELSE ownDownloading)
    /\ \/ UNCHANGED ownServer
       \/ c.op \in {"create", "propose"} /\ NewItem /\ UNCHANGED ownDay
       \/ c.op \in {"in", "out"} /\ ownDay = (IF c.op = "in" THEN "none" ELSE "in") /\ ownDay' = c.op /\ UNCHANGED ownKept
    /\ UNCHANGED <<ownForm, ownFile, ownDetail, ownDayVars>>

OwnAnswer(c) ==
    \/ PlaceHere(c) \/ OwnListHere(c) \/ OwnOneHere(c) \/ TodayHere(c) \/ CreatedHere(c)
    \/ SubmissionEnds(c) \/ ProposedHere(c) \/ CheckedHere(c) \/ OwnFails(c)

OwnNext ==
    \/ CloseDetail \/ OpenOwnForm \/ FillOwnForm \/ Attach \/ CloseOwnForm \/ SubmitOwn \/ AskPlace
    \/ \E page \in {"attendance", ownOpened} : OwnByMenu(page)
    \/ \E f \in OwnStatuses \cup {"all"} : ChooseFilter(f)
    \/ \E i \in OwnItems : ViewOwn(i) \/ Download(i)
    \/ \E op \in {"in", "out"} : Check(op)
    \/ \E c \in ownCalls : OwnAnswer(c)

OwnSpec == OwnInit /\ [][OwnNext]_ownVars

-----------------------------------------------------------------------------
\* A visit to a page sends one request to create at a time, though its dialog is closed and opened
\* again, and answers to lists come and go, while the request is under way.
OneSubmissionPerVisit ==
    \A c, d \in ownCalls : c.op \in {"create", "propose"} /\ d.op \in {"create", "propose"} /\ Still(c) /\ Still(d) => c = d

\* Fails: the button is enabled again as soon as the place is known, and a check-in sent twice.
CheckedInOnce == \A c, d \in ownCalls : c.op = "in" /\ d.op = "in" => c = d

\* Fails: the list of an earlier filter comes last.
OwnListIsWhole == OwnPageUp /\ ~ownLoading /\ ~ownError => OwnShown = Matching(ownFilter)

\* Fails: answers come in the other order, and another file's arrival enables the button again.
OneFileAtATime == \A c, d \in ownCalls : c.op = "file" /\ d.op = "file" /\ c.id = d.id /\ Still(c) /\ Still(d) => c = d
=============================================================================
