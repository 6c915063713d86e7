--------------------------- MODULE TechnicianTasks ---------------------------
(***************************************************************************)
(* The pages of the technicians' tasks: the list, a task, the forms to     *)
(* change it, to complete it and to make one, and the log of activities.   *)
(* One store holds the list, one task, one log and a single flag for every *)
(* request but the summary's.  The technician's first task is his own, the *)
(* others are his colleagues'.                                             *)
(***************************************************************************)
EXTENDS Naturals, FiniteSets

CONSTANTS
    TaskIds,        \* tasks there may be
    OwnTasks,       \* those assigned to the user, when he is a technician
    MaxTaskAsked    \* bound: requests begun

ASSUME TechnicianTasksAssumption ==
    /\ TaskIds \subseteq Nat \ {0} /\ OwnTasks \subseteq TaskIds /\ MaxTaskAsked \in Nat

VARIABLES
    tkTechnician,   \* the user is a technician, or else an administrator
    tkOpened,       \* the page he has opened by its address, to which the browser leads back
    tkAt, tkGoing,  \* the page, and the one that was pushed last and is not there yet
    tkSince,        \* the number of requests begun before the page was
    tkModal,        \* the dialog to log an activity: closed, fresh, or filled
    tkRows,         \* the store: the list, each task with the status it had
    tkTask,         \* the task that is held
    tkLogs,         \* the task whose log is held, 0 for that of all tasks
    tkLoading, tkError,
    tkCalls,        \* requests: what, of which task, asked at whose page, for the technician alone
    tkKept,         \* the server: the status of each task, "none" when there is no such task
    tkAsked         \* requests begun so far

tkWho == <<tkTechnician, tkOpened>>
tkPageVars == <<tkAt, tkGoing, tkSince, tkModal>>
tkHeld == <<tkRows, tkTask, tkLogs>>
tkCallVars == <<tkLoading, tkError, tkCalls, tkAsked>>
taskVars == <<tkWho, tkPageVars, tkHeld, tkCallVars, tkKept>>

TaskPage(page, i) == [page |-> page, id |-> i]
NoPage == TaskPage("none", 0)
\* The pages an address leads to; to the list a link does as well.
TaskPages == {TaskPage("tasks", 0), TaskPage("activities", 0)} \cup {TaskPage("edit", i) : i \in TaskIds}
NoTask == [id |-> 0, status |-> "none"]
TasksThere == {i \in TaskIds : tkKept[i] # "none"}
Listed(ids) == {[id |-> i, status |-> tkKept[i]] : i \in ids}

TasksInit ==
    /\ tkTechnician \in BOOLEAN /\ tkKept \in [TaskIds -> {"none", "pending", "in_progress"}]
    /\ tkAt = NoPage /\ tkOpened \in TaskPages /\ tkGoing = tkOpened /\ tkSince = 0 /\ tkModal = "closed"
    /\ tkRows = {} /\ tkTask = NoTask /\ tkLogs = 0
    /\ tkLoading = FALSE /\ tkError = FALSE /\ tkCalls = {} /\ tkAsked = 0

TaskRequest(op, i, own) == [op |-> op, id |-> i, page |-> tkAt.id, own |-> own, n |-> tkAsked]

\* The summary leaves the flag alone; every request clears the error.
Send(c) ==
    /\ tkAsked < MaxTaskAsked /\ tkAsked' = tkAsked + 1 /\ tkError' = FALSE /\ tkLoading' = TRUE
    /\ tkCalls' = tkCalls \cup {c}

SendTwo(c, d) ==
    /\ tkAsked + 1 < MaxTaskAsked /\ tkAsked' = tkAsked + 2 /\ tkError' = FALSE /\ tkLoading' = TRUE
    /\ tkCalls' = tkCalls \cup {c, [d EXCEPT !.n = tkAsked + 1]}

-----------------------------------------------------------------------------
(* Pages. *)

\* The list, and the log of all tasks, are not asked for while anything is; the summary always.
AskList(own) ==
    IF tkLoading
    THEN /\ tkAsked < MaxTaskAsked /\ tkAsked' = tkAsked + 1 /\ tkError' = FALSE /\ UNCHANGED tkLoading
         /\ tkCalls' = tkCalls \cup {TaskRequest("summary", 0, own)}
    ELSE SendTwo(TaskRequest("list", 0, own), TaskRequest("summary", 0, own))

AskAllLogs(own) == IF tkLoading THEN UNCHANGED tkCallVars ELSE Send(TaskRequest("allLogs", 0, own))

ReachPage ==
    /\ tkGoing # NoPage /\ tkAt' = tkGoing /\ tkGoing' = NoPage /\ tkSince' = tkAsked /\ tkModal' = "closed"
    /\ tkTask' = (IF tkAt.page \in {"task", "edit", "complete"} THEN NoTask ELSE tkTask)
    /\ CASE tkGoing.page = "tasks" -> AskList(tkTechnician)
         [] tkGoing.page = "activities" -> AskAllLogs(tkTechnician)
         [] tkGoing.page = "task" -> SendTwo(TaskRequest("one", tkGoing.id, FALSE), TaskRequest("logs", tkGoing.id, FALSE))
         [] tkGoing.page \in {"edit", "complete"} -> Send(TaskRequest("one", tkGoing.id, FALSE))
         [] OTHER -> UNCHANGED tkCallVars
    /\ UNCHANGED <<tkWho, tkRows, tkLogs, tkKept>>

PushTask(p) == tkGoing' = p /\ UNCHANGED <<tkWho, tkAt, tkSince, tkModal, tkHeld, tkCallVars, tkKept>>

\* By the menu or the browser's history.
ByMenu(p) == tkGoing = NoPage /\ tkAt # p /\ PushTask(p)

RowsUp == tkAt.page = "tasks" /\ ~tkLoading /\ ~tkError
TaskUp == tkAt.page \in {"task", "edit", "complete"} /\ ~tkLoading /\ ~tkError /\ tkTask # NoTask

\* A card leads to its task, or to its completion.
FromCard(r) ==
    /\ RowsUp /\ r \in tkRows
    /\ \E page \in {"task"} \cup (IF r.status \in {"pending", "in_progress"} THEN {"complete"} ELSE {}) :
         PushTask(TaskPage(page, r.id))

NewTask == RowsUp /\ PushTask(TaskPage("new", 0))

\* The page of a task leads to its completion under its own address, to its change under the
\* address of the task that is held, which only administrators may.
FromTask ==
    /\ TaskUp /\ tkAt.page = "task" /\ tkModal = "closed"
    /\ \/ tkTask.status \in {"pending", "in_progress"} /\ PushTask(TaskPage("complete", tkAt.id))
       \/ ~tkTechnician /\ PushTask(TaskPage("edit", tkTask.id))

BackFromForm ==
    /\ ~tkLoading
    /\ \/ TaskUp /\ tkAt.page \in {"edit", "complete"} /\ PushTask(TaskPage("task", tkAt.id))
       \/ tkAt.page = "new" /\ PushTask(TaskPage("tasks", 0))

-----------------------------------------------------------------------------
(* What is asked of the server. *)

Asks(c) == Send(c) /\ UNCHANGED <<tkWho, tkPageVars, tkHeld, tkKept>>

StartCard(r) == RowsUp /\ r \in tkRows /\ r.status = "pending" /\ Asks(TaskRequest("startCard", r.id, FALSE))

OnTask(op) ==
    /\ TaskUp /\ tkAt.page = "task" /\ tkModal = "closed"
    /\ op = "start" => tkTask.status = "pending"
    /\ op \in {"cancel", "delete"} => ~tkTechnician
    /\ Asks(TaskRequest(op, tkTask.id, FALSE))

\* The forms send to the address of the page; a technician has no form to change a task.
SubmitTask ==
    \/ TaskUp /\ tkAt.page = "complete" /\ Asks(TaskRequest("complete", tkAt.id, FALSE))
    \/ TaskUp /\ tkAt.page = "edit" /\ ~tkTechnician /\ Asks(TaskRequest("update", tkAt.id, FALSE))
    \/ tkAt.page = "new" /\ ~tkLoading /\ Asks(TaskRequest("create", 0, tkTechnician))

\* The dialog is part of the page: a spinner in place of the task's page loses what was typed.
LogsUp == (tkAt.page = "task" /\ TaskUp) \/ (tkAt.page = "activities" /\ ~tkError)
ModalThere == tkModal # "closed" /\ LogsUp
KeepModal == tkModal' = (IF tkModal = "filled" /\ ~LogsUp' THEN "fresh" ELSE tkModal)

OpenLog ==
    /\ LogsUp /\ tkModal = "closed" /\ tkModal' = "fresh"
    /\ UNCHANGED <<tkWho, tkAt, tkGoing, tkSince, tkHeld, tkCallVars, tkKept>>
FillLog ==
    /\ ModalThere /\ tkModal' = "filled"
    /\ UNCHANGED <<tkWho, tkAt, tkGoing, tkSince, tkHeld, tkCallVars, tkKept>>
CloseLog ==
    /\ ModalThere /\ tkModal' = "closed"
    /\ UNCHANGED <<tkWho, tkAt, tkGoing, tkSince, tkHeld, tkCallVars, tkKept>>

SubmitLog ==
    /\ ModalThere /\ tkModal = "filled" /\ ~tkLoading
    /\ Send(TaskRequest("log", IF tkAt.page = "task" THEN tkTask.id ELSE 0, tkTechnician))
    /\ UNCHANGED <<tkWho, tkAt, tkGoing, tkSince, tkHeld, tkKept>> /\ KeepModal

-----------------------------------------------------------------------------
(* Answers: the flag is lowered, whatever else is under way, and what a page awaited goes on. *)

\* Mutant: a failure leaves the flag up.
DownOnSuccess(c, ok) == (c.op = "summary" \/ ~ok) /\ tkLoading

Down(c, ok) == c.op = "summary" /\ tkLoading

TaskAnswered(c, ok, more) ==
    /\ c \in tkCalls /\ tkCalls' = (tkCalls \ {c}) \cup more
    /\ tkAsked + Cardinality(more) <= MaxTaskAsked /\ tkAsked' = tkAsked + Cardinality(more)
    /\ tkLoading' = ((\E d \in more : d.op # "summary") \/ Down(c, ok))
    /\ tkError' = (more = {} /\ (tkError \/ ~ok))
    /\ UNCHANGED <<tkWho, tkAt, tkSince>>

ListHere(c) ==
    /\ c.op = "list" /\ TaskAnswered(c, TRUE, {}) /\ tkRows' = Listed(IF c.own THEN TasksThere \cap OwnTasks ELSE TasksThere)
    /\ UNCHANGED <<tkGoing, tkTask, tkLogs, tkKept>> /\ KeepModal

OneHere(c) ==
    /\ c.op = "one" /\ c.id \in TasksThere /\ TaskAnswered(c, TRUE, {}) /\ tkTask' = [id |-> c.id, status |-> tkKept[c.id]]
    /\ UNCHANGED <<tkGoing, tkRows, tkLogs, tkKept>> /\ KeepModal

LogsHere(c) ==
    /\ c.op \in {"logs", "allLogs"} /\ TaskAnswered(c, TRUE, {}) /\ tkLogs' = c.id
    /\ UNCHANGED <<tkGoing, tkRows, tkTask, tkKept>> /\ KeepModal

\* A completion goes on when its summary is answered, well or not.
SummaryHere(c) ==
    /\ c.op = "summary" /\ (\E ok \in BOOLEAN : TaskAnswered(c, ok, {}))
    /\ tkGoing' = (IF c.id # 0 THEN TaskPage("task", c.page) ELSE tkGoing) /\ UNCHANGED <<tkHeld, tkKept>> /\ KeepModal

\* The server: who may start and complete a task, and in which status; the rest is not restricted.
CanStart(i) == tkKept[i] = "pending"
CanComplete(i) == tkKept[i] \in {"pending", "in_progress"}
IsAssigned(i) == tkTechnician /\ i \in OwnTasks
Permitted(c) ==
    /\ c.id \in TasksThere
    /\ \/ c.op \in {"start", "startCard"} /\ IsAssigned(c.id) /\ CanStart(c.id)
       \/ c.op = "complete" /\ IsAssigned(c.id) /\ CanComplete(c.id)
       \/ c.op \in {"cancel", "delete", "update"}
TaskStatusAfter(c) ==
    CASE c.op \in {"start", "startCard"} -> "in_progress" [] c.op = "complete" -> "completed"
      [] c.op = "cancel" -> "cancelled" [] c.op = "delete" -> "none" [] OTHER -> tkKept[c.id]

\* The row, and the task that is held when it is the same, take what the server has answered.
Mapped(i, s) ==
    /\ tkRows' = {[r EXCEPT !.status = IF r.id = i THEN s ELSE @] : r \in {q \in tkRows : s # "none" \/ q.id # i}}
    /\ tkTask' = (IF tkTask.id # i THEN tkTask ELSE IF s = "none" THEN NoTask ELSE [tkTask EXCEPT !.status = s])

\* After a start the page asks again, the list for everybody's tasks; a completion asks for the summary.
AsksNext(c) ==
    CASE c.op = "startCard" -> {[c EXCEPT !.op = "list", !.id = 0, !.n = tkAsked]}
      [] c.op = "start" -> {[c EXCEPT !.op = "one", !.id = c.page, !.n = tkAsked]}
      [] c.op = "complete" -> {[c EXCEPT !.op = "summary", !.n = tkAsked]}
      [] OTHER -> {}

TaskChanged(c) ==
    /\ Permitted(c) /\ TaskAnswered(c, TRUE, AsksNext(c)) /\ Mapped(c.id, TaskStatusAfter(c))
    /\ tkKept' = [tkKept EXCEPT ![c.id] = TaskStatusAfter(c)]
    /\ tkGoing' = (CASE c.op \in {"cancel", "delete"} -> TaskPage("tasks", 0)
                     [] c.op = "update" -> TaskPage("task", c.page) [] OTHER -> tkGoing)
    /\ UNCHANGED tkLogs /\ KeepModal

TaskCreated(c) ==
    /\ c.op = "create" /\ TaskAnswered(c, TRUE, {}) /\ tkGoing' = TaskPage("tasks", 0)
    /\ \E i \in (IF c.own THEN OwnTasks ELSE TaskIds) \ TasksThere :
         tkKept' = [tkKept EXCEPT ![i] = "pending"] /\ tkRows' = tkRows \cup {[id |-> i, status |-> "pending"]}
    /\ UNCHANGED <<tkTask, tkLogs>> /\ KeepModal

\* The dialog is closed, if its page is still the same, and the log asked for again.
ActivityLogged(c) ==
    /\ c.op = "log"
    /\ TaskAnswered(c, TRUE, {[c EXCEPT !.op = IF c.page # 0 THEN "logs" ELSE "allLogs", !.id = c.page, !.n = tkAsked]})
    /\ UNCHANGED <<tkGoing, tkHeld, tkKept>>
    /\ IF tkSince <= c.n THEN tkModal' = "closed" ELSE KeepModal

\* A list that fails is emptied; a change may fail after the server has made it.
RequestFails(c) ==
    /\ c.op # "summary" /\ TaskAnswered(c, FALSE, {}) /\ tkRows' = (IF c.op = "list" THEN {} ELSE tkRows)
    /\ tkLogs' = (IF c.op \in {"logs", "allLogs"} THEN 0 ELSE tkLogs)
    /\ tkKept' \in {tkKept} \cup {[tkKept EXCEPT ![i] = TaskStatusAfter(c)] : i \in {j \in {c.id} : Permitted(c)}}
    /\ UNCHANGED <<tkGoing, tkTask>> /\ KeepModal

TaskAnswer(c) ==
    \/ ListHere(c) \/ OneHere(c) \/ LogsHere(c) \/ SummaryHere(c)
    \/ TaskChanged(c) \/ TaskCreated(c) \/ ActivityLogged(c) \/ RequestFails(c)

TasksNext ==
    \/ ReachPage \/ NewTask \/ FromTask \/ BackFromForm \/ SubmitTask \/ OpenLog \/ FillLog \/ CloseLog \/ SubmitLog
    \/ \E p \in {TaskPage("tasks", 0), tkOpened} : ByMenu(p)
    \/ \E r \in tkRows : FromCard(r) \/ StartCard(r)
    \/ \E op \in {"start", "cancel", "delete"} : OnTask(op)
    \/ \E c \in tkCalls : TaskAnswer(c)

TasksSpec == TasksInit /\ [][TasksNext]_taskVars

-----------------------------------------------------------------------------
\* No page of the technician's spins for ever: while the flag is up some request that lowers it
\* is under way, however many answers, failures and questions that were skipped came between.
SpinnerHasARequest == tkLoading => \E c \in tkCalls : c.op # "summary"

\* Fails: after a start from a card the list is asked for without the technician's name.
TechnicianSeesHisOwn == tkTechnician => \A r \in tkRows : r.id \in OwnTasks

\* Fails: the task of a page that was left arrives on the next one, and is shown under its address.
TaskShownIsThePages == TaskUp => tkTask.id = tkAt.id

\* Fails: a list that is reached while another request is under way is not asked for at all.
ListIsAskedFor == RowsUp /\ tkCalls = {} => {r.id : r \in tkRows} = (IF tkTechnician THEN TasksThere \cap OwnTasks ELSE TasksThere)

\* Fails: a filled dialog disappears, and nothing has been sent or cancelled.
TypedLogStays == [][tkModal = "filled" /\ tkAt' = tkAt /\ tkModal' # "filled" => tkModal' = "closed"]_taskVars
=============================================================================
