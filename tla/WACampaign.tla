------------------------------ MODULE WACampaign ------------------------------
(***************************************************************************)
(* A WhatsApp campaign: WACampaignService.CreateAndEnqueue and RetryFailed, *)
(* the Asynq queue, and WACampaignWorker.handleSend in the worker           *)
(* processes.                                                              *)
(*                                                                         *)
(* Every statement is a step.  TenantLimiter(1) admits one handler of a     *)
(* tenant at a time in each process; a handler that still waits has done    *)
(* nothing, so its task is still in the queue here.  A handler whose        *)
(* process dies, or whose 30 s are over (its context is cancelled and every *)
(* later statement fails), leaves its task to be delivered again, at most   *)
(* MaxRetry times.  handleSend always returns nil.                         *)
(***************************************************************************)
EXTENDS Integers, FiniteSets

CONSTANTS
  Recipient,
  Retry,       \* POST /wa-campaigns/{id}/retry-failed requests
  Create,      \* the POST /wa-campaigns request
  Worker,      \* worker processes
  MaxRetry,    \* asynq.MaxRetry
  ListLimit,   \* how many failed recipients a retry lists: 5000
  MaxTrouble   \* bound on retries and failures of any kind together

ASSUME CampaignAssumption ==
  /\ IsFiniteSet(Recipient) /\ Recipient # {}
  /\ IsFiniteSet(Retry) /\ IsFiniteSet(Worker)
  /\ Create \notin Retry
  /\ MaxRetry \in Nat /\ MaxTrouble \in Nat /\ ListLimit \in Nat \ {0}

Request == Retry \union {Create}

VARIABLES
  status,     \* wa_campaigns.status, "none" before there is a row
  sent,       \* wa_campaigns.sent
  failed,     \* wa_campaigns.failed
  recipient,  \* wa_campaign_recipients.status of each recipient
  call,       \* the local state of the requests
  queue,      \* tasks that wait
  tries,      \* how often a task was delivered again
  job,        \* what each worker process is doing
  delivered,  \* history: how often a recipient got the message
  faults,
  hit,        \* history: recipients a failure of the system got in the way of,
  again,      \*   those a retry enqueues though another had reset them,
  missed,     \*   those reset by a retry that had not listed them,
  early       \*   and those reset before their failure was counted

campaign == <<status, sent, failed>>
mishaps  == <<hit, again, missed, early>>
vars == <<campaign, recipient, call, queue, tries, job, delivered, faults, mishaps>>

Task == [by : Request, to : Recipient]

CallState == [pc : {"idle", "insert", "reset", "enqueue", "done"}, todo : SUBSET Recipient]

NoTask   == [by |-> Create, to |-> CHOOSE r \in Recipient : TRUE]
Idle     == [pc |-> "idle", task |-> NoTask, ok |-> FALSE]
JobState == [pc : {"idle", "send", "mark", "count", "complete"}, task : Task, ok : BOOLEAN]

Total == Cardinality(Recipient)

Init ==
  /\ status = "none"
  /\ sent = 0
  /\ failed = 0
  /\ recipient = [r \in Recipient |-> "none"]
  /\ call = [q \in Request |-> [pc |-> "idle", todo |-> {}]]
  /\ queue = {}
  /\ tries = [t \in Task |-> 0]
  /\ job = [w \in Worker |-> Idle]
  /\ delivered = [r \in Recipient |-> 0]
  /\ faults = 0
  /\ hit = {} /\ again = {} /\ missed = {} /\ early = {}

Trouble == faults + Cardinality({q \in Retry : call[q].pc # "idle"})

Fault == Trouble < MaxTrouble /\ faults' = faults + 1

-----------------------------------------------------------------------------
(***************************************************************************)
(* The requests.                                                           *)
(***************************************************************************)

CreateCampaign ==
  /\ call[Create].pc = "idle"
  /\ status' = "queued"
  /\ call' = [call EXCEPT ![Create].pc = "insert"]
  /\ UNCHANGED <<sent, failed, recipient, queue, tries, job, delivered, faults, mishaps>>

\* One batch: all recipients or none.
InsertRecipients ==
  /\ call[Create].pc = "insert"
  /\ recipient' = [r \in Recipient |-> "pending"]
  /\ call' = [call EXCEPT ![Create] = [pc |-> "enqueue", todo |-> Recipient]]
  /\ UNCHANGED <<campaign, queue, tries, job, delivered, faults, mishaps>>

Failed == {r \in Recipient : recipient[r] = "failed"}

\* RetryFailed: GetCampaign and ListFailedRecipients, any ListLimit of them when
\* there are more (the rows of a batch have one created_at).
ListFailed(q) ==
  /\ call[q].pc = "idle"
  /\ status # "none" /\ Trouble < MaxTrouble
  /\ \E list \in SUBSET Failed :
       /\ list = Failed \/ Cardinality(list) = ListLimit
       /\ Cardinality(list) <= ListLimit
       /\ call' = [call EXCEPT ![q] =
            [pc |-> IF list = {} THEN "done" ELSE "reset", todo |-> list]]
  /\ UNCHANGED <<campaign, recipient, queue, tries, job, delivered, faults, mishaps>>

\* A failed recipient whose failure is not counted yet.
Uncounted == {job[w].task.to : w \in {v \in Worker : job[v].pc = "count"}}

\* What has changed since a retry read its list, and what it takes back too soon.
Remember(q) ==
  /\ again' = again \union (call[q].todo \ Failed)
  /\ missed' = missed \union (Failed \ call[q].todo)
  /\ early' = early \union (Failed \intersect Uncounted)
  /\ UNCHANGED hit

MaxOf(a, b) == IF a >= b THEN a ELSE b

\* Mutant of the reset: the status is left.
ResetKeepsStatus(q) ==
  /\ call[q].pc = "reset"
  /\ recipient' = [r \in Recipient |-> IF r \in Failed THEN "pending" ELSE recipient[r]]
  /\ failed' = MaxOf(failed - Cardinality(Failed), 0)
  /\ Remember(q)
  /\ call' = [call EXCEPT ![q].pc = "enqueue"]
  /\ UNCHANGED <<status, sent, queue, tries, job, delivered, faults>>

\* ResetFailedRecipients, a transaction without a limit: whoever is failed by now
\* is pending.
ResetFailed(q) ==
  /\ call[q].pc = "reset"
  /\ recipient' = [r \in Recipient |-> IF r \in Failed THEN "pending" ELSE recipient[r]]
  /\ failed' = MaxOf(failed - Cardinality(Failed), 0)
  /\ status' = IF Failed = {} THEN status ELSE "running"
  /\ Remember(q)
  /\ call' = [call EXCEPT ![q].pc = "enqueue"]
  /\ UNCHANGED <<sent, queue, tries, job, delivered, faults>>

\* Mutant: the tasks are for all recipients.
EnqueueAll(q) ==
  /\ call[q].pc = "enqueue"
  /\ queue' = queue \union {[by |-> q, to |-> r] : r \in Recipient}
  /\ call' = [call EXCEPT ![q] = [pc |-> "done", todo |-> {}]]
  /\ UNCHANGED <<campaign, recipient, tries, job, delivered, faults, mishaps>>

\* asynqClient.Enqueue for the recipients of the request's own list.
Enqueue(q) ==
  /\ call[q].pc = "enqueue"
  /\ \E r \in call[q].todo :
       /\ queue' = queue \union {[by |-> q, to |-> r]}
       /\ call' = [call EXCEPT ![q] =
            [pc |-> IF @.todo = {r} THEN "done" ELSE "enqueue", todo |-> @.todo \ {r}]]
  /\ UNCHANGED <<campaign, recipient, tries, job, delivered, faults, mishaps>>

Hits(R) == hit' = hit \union R /\ UNCHANGED <<again, missed, early>>

\* A statement or Redis fails, or the browser hangs up.
AbortCall(q) ==
  /\ call[q].pc \notin {"idle", "done"}
  /\ Fault
  /\ Hits(IF call[q].pc = "enqueue" THEN call[q].todo ELSE {})
  /\ call' = [call EXCEPT ![q] = [pc |-> "done", todo |-> {}]]
  /\ UNCHANGED <<campaign, recipient, queue, tries, job, delivered>>

-----------------------------------------------------------------------------
(***************************************************************************)
(* handleSend                                                              *)
(***************************************************************************)

Take(w) ==
  /\ job[w].pc = "idle"
  /\ \E t \in queue :
       /\ queue' = queue \ {t}
       /\ job' = [job EXCEPT ![w] = [pc |-> "send", task |-> t, ok |-> FALSE]]
  /\ UNCHANGED <<campaign, recipient, call, tries, delivered, faults, mishaps>>

\* wa.Send: the gateway sends the message and says so, or does not send it, or
\* its answer is lost.
Send(w) ==
  /\ job[w].pc = "send"
  /\ \E ok \in BOOLEAN : job' = [job EXCEPT ![w] = [@ EXCEPT !.pc = "mark", !.ok = ok]]
  /\ \/ delivered' = [delivered EXCEPT ![job[w].task.to] = @ + 1]
        /\ IF job'[w].ok THEN UNCHANGED <<faults, mishaps>>
                         ELSE Fault /\ Hits({job[w].task.to})
     \/ ~job'[w].ok /\ UNCHANGED <<delivered, faults, mishaps>>
  /\ UNCHANGED <<campaign, recipient, call, queue, tries>>

\* Mutant: a send that fails is not marked.
MarkSentOnly(w) ==
  /\ job[w].pc = "mark"
  /\ IF job[w].ok
     THEN /\ recipient' = [recipient EXCEPT ![job[w].task.to] = "sent"]
          /\ job' = [job EXCEPT ![w].pc = "count"]
     ELSE job' = [job EXCEPT ![w] = Idle] /\ UNCHANGED recipient
  /\ UNCHANGED <<campaign, call, queue, tries, delivered, faults, mishaps>>

\* MarkRecipientSent and MarkRecipientFailed: the recipient ...
MarkRecipient(w) ==
  /\ job[w].pc = "mark"
  /\ recipient' = [recipient EXCEPT ![job[w].task.to] = IF job[w].ok THEN "sent" ELSE "failed"]
  /\ job' = [job EXCEPT ![w].pc = "count"]
  /\ UNCHANGED <<campaign, call, queue, tries, delivered, faults, mishaps>>

\* ... the counter ...
Count(w) ==
  /\ job[w].pc = "count"
  /\ IF job[w].ok THEN sent' = sent + 1 /\ UNCHANGED failed
                  ELSE failed' = failed + 1 /\ UNCHANGED sent
  /\ status' = "running"
  /\ job' = [job EXCEPT ![w].pc = "complete"]
  /\ UNCHANGED <<recipient, call, queue, tries, delivered, faults, mishaps>>

\* Mutant: failed recipients do not count for completion.
CompleteAllSent(w) ==
  /\ job[w].pc = "complete"
  /\ status' = IF sent >= Total THEN "completed" ELSE status
  /\ job' = [job EXCEPT ![w] = Idle]
  /\ UNCHANGED <<sent, failed, recipient, call, queue, tries, delivered, faults, mishaps>>

\* ... and the completion.
Complete(w) ==
  /\ job[w].pc = "complete"
  /\ status' = IF sent + failed >= Total /\ status \in {"queued", "running"}
               THEN "completed" ELSE status
  /\ job' = [job EXCEPT ![w] = Idle]
  /\ UNCHANGED <<sent, failed, recipient, call, queue, tries, delivered, faults, mishaps>>

\* A statement of a mark fails: after the first nothing follows, after the
\* others the handler goes on as if it had succeeded.  No error is returned.
FailStatement(w) ==
  /\ job[w].pc \in {"mark", "count", "complete"}
  /\ Fault
  /\ job' = [job EXCEPT ![w] =
       IF @.pc = "count" THEN [@ EXCEPT !.pc = "complete"] ELSE Idle]
  /\ Hits({job[w].task.to})
  /\ UNCHANGED <<campaign, recipient, call, queue, tries, delivered>>

\* The process dies or the handler's time is over.  The queue delivers the task
\* again, unless it has done so MaxRetry times.
LoseHandler(w) ==
  /\ job[w].pc # "idle"
  /\ Fault
  /\ job' = [job EXCEPT ![w] = Idle]
  /\ LET t == job[w].task IN
       IF tries[t] < MaxRetry
       THEN queue' = queue \union {t} /\ tries' = [tries EXCEPT ![t] = @ + 1]
       ELSE UNCHANGED <<queue, tries>>
  /\ Hits({job[w].task.to})
  /\ UNCHANGED <<campaign, recipient, call, delivered>>

-----------------------------------------------------------------------------
CallStep(q) ==
  \/ q = Create /\ (CreateCampaign \/ InsertRecipients)
  \/ q \in Retry /\ ResetFailed(q)
  \/ Enqueue(q)

WorkerStep(w) == Take(w) \/ Send(w) \/ MarkRecipient(w) \/ Count(w) \/ Complete(w)

\* Nothing is left to do.
Quiet ==
  /\ call[Create].pc = "done" /\ \A q \in Retry : call[q].pc \in {"idle", "done"}
  /\ queue = {}
  /\ \A w \in Worker : job[w].pc = "idle"

AllDone == Quiet /\ UNCHANGED vars

Next ==
  \/ \E q \in Request : CallStep(q) \/ AbortCall(q)
  \/ \E q \in Retry : ListFailed(q)
  \/ \E w \in Worker : WorkerStep(w) \/ FailStatement(w) \/ LoseHandler(w)
  \/ AllDone

Spec == Init /\ [][Next]_vars

\* A request that was accepted goes on, and so does a handler; Asynq hands its
\* tasks to idle workers.  Whether anybody retries is up to the users.
Fairness ==
  /\ \A q \in Request : WF_vars(CallStep(q))
  /\ \A w \in Worker : WF_vars(WorkerStep(w))

FairSpec == Spec /\ Fairness

-----------------------------------------------------------------------------
(***************************************************************************)
(* Properties.                                                             *)
(***************************************************************************)

TypeOK ==
  /\ status \in {"none", "queued", "running", "completed"}
  /\ sent \in Nat /\ failed \in Nat
  /\ recipient \in [Recipient -> {"none", "pending", "sent", "failed"}]
  /\ call \in [Request -> CallState]
  /\ queue \subseteq Task
  /\ tries \in [Task -> 0..MaxRetry]
  /\ job \in [Worker -> JobState]
  /\ delivered \in [Recipient -> Nat]
  /\ faults \in 0..MaxTrouble
  /\ hit \subseteq Recipient /\ again \subseteq Recipient
  /\ missed \subseteq Recipient /\ early \subseteq Recipient

\* A campaign that is shown as completed has a result for each recipient: three
\* statements of each mark, of several workers, and the resets of retries add up.
\* Not so once a recipient is counted twice: when its task is delivered again, when
\* two retries enqueue it, or when it is reset before its failure is counted.
CompletedIsDone ==
  (status = "completed" /\ hit = {} /\ again = {} /\ early = {})
  => \A r \in Recipient : recipient[r] \in {"sent", "failed"}

\* Who gets the message twice is one whose own task met a failure of the system,
\* or whom a retry had listed before another one reset it.  Nobody else does,
\* whatever happens to the others and however often the campaign is retried.
SentOnce == \A r \in Recipient \ (hit \union again) : delivered[r] <= 1

\* A recipient that is pending and that nobody will send to.
Stranded(r) ==
  /\ recipient[r] = "pending"
  /\ \A q \in Request : r \notin call[q].todo
  /\ \A t \in queue : t.to # r
  /\ \A w \in Worker : job[w].pc \in {"send", "mark"} => job[w].task.to # r

\* Who is left pending is one whose own task met a failure of the system, or who
\* was reset by a retry that had not listed it: it failed since, or was beyond the
\* limit of the list.  Nobody else is.
NobodyIsStranded == \A r \in Recipient \ (hit \union missed) : ~Stranded(r)

\* A campaign whose tasks were enqueued is shown as completed in the end, however
\* often it is retried: the last of several workers sees all counters.
CampaignCompletes ==
  (call[Create].pc = "done")
    ~> (status = "completed" \/ faults > 0 \/ \E r \in Recipient : Stranded(r))

-----------------------------------------------------------------------------
(***************************************************************************)
(* What the user is told and the code does not guarantee.                  *)
(***************************************************************************)

\* CampaignsTab.tsx: "Queued retry for ${res.retried} failed recipients."  The
\* number is that of the rows reset; the tasks are for the rows listed before.
\* Refuted by a recipient that fails in between, or is beyond the list's limit.
ResetIsQueued == faults = 0 => \A r \in Recipient : ~Stranded(r)

\* A completed campaign has a result for each recipient.  Refuted by a handler
\* that dies between counting its recipient and answering the queue.
CompletedMeansDone ==
  status = "completed" => \A r \in Recipient : recipient[r] \in {"sent", "failed"}

\* Nobody gets the message twice.  Refuted by two retries that both list the
\* recipient before either resets it.
NobodyTwice == faults = 0 => \A r \in Recipient : delivered[r] <= 1

=============================================================================
