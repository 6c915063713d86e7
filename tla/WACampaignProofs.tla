--------------------------- MODULE WACampaignProofs ---------------------------
(***************************************************************************)
(* Theorems about WACampaign, for any recipients, retries and worker        *)
(* processes.                                                              *)
(*                                                                         *)
(* The invariants are stated for one recipient at a time: whatever failures *)
(* and overlapping retries do to others, a recipient they leave alone has   *)
(* at most one task.  It is in the list of one request that enqueues, in    *)
(* the queue or in the hands of one worker, and the recipient is pending    *)
(* meanwhile.  Only the counters are about all recipients together.         *)
(***************************************************************************)
EXTENDS WACampaign, FiniteSetTheorems, TLAPS

Sending(w) == job[w].pc \in {"send", "mark"}

To(w) == job[w].task.to

Enqueuing(q) == call[q].pc = "enqueue"

\* Only requests that have a list hold recipients.
Lists == \A q \in Request : call[q].pc \in {"idle", "insert", "done"} => call[q].todo = {}

\* Until there are recipients nothing else happens.
Before ==
  call[Create].pc \in {"idle", "insert"} =>
    /\ recipient = [r \in Recipient |-> "none"]
    /\ queue = {}
    /\ \A w \in Worker : job[w].pc = "idle"
    /\ \A q \in Retry : call[q].pc \in {"idle", "done"}

Pending(r) ==
  /\ \A t \in queue : t.to = r => recipient[r] = "pending"
  /\ \A w \in Worker : Sending(w) /\ To(w) = r => recipient[r] = "pending"
  /\ \A q \in Request : Enqueuing(q) /\ r \in call[q].todo => recipient[r] = "pending"

OneTask(r) ==
  /\ \A t, u \in queue : t.to = r /\ u.to = r => t = u
  /\ \A v, w \in Worker : Sending(v) /\ Sending(w) /\ To(v) = r /\ To(w) = r => v = w
  /\ \A p, q \in Request :
       Enqueuing(p) /\ Enqueuing(q) /\ r \in call[p].todo /\ r \in call[q].todo => p = q
  /\ \A t \in queue : \A w \in Worker : t.to = r /\ Sending(w) => To(w) # r
  /\ \A t \in queue : \A q \in Request : t.to = r /\ Enqueuing(q) => r \notin call[q].todo
  /\ \A w \in Worker : \A q \in Request :
       Sending(w) /\ To(w) = r /\ Enqueuing(q) => r \notin call[q].todo

\* A failure that is not counted yet is still there to be counted.
FailureStays(r) ==
  \A w \in Worker : job[w].pc = "count" /\ ~job[w].ok /\ To(w) = r => recipient[r] = "failed"

\* Who got the message is marked as sent or is about to be.
Delivery(r) ==
  /\ delivered[r] <= 1
  /\ delivered[r] # 0 =>
       \/ recipient[r] = "sent"
       \/ \E w \in Worker : job[w].pc = "mark" /\ job[w].ok /\ To(w) = r

Tasks(r) ==
  /\ Pending(r)
  /\ OneTask(r)
  /\ Delivery(r)
  /\ r \notin early => FailureStays(r)

\* A pending recipient has a task or is about to be enqueued.
Held(r) ==
  recipient[r] = "pending" =>
    \/ \E q \in Request : Enqueuing(q) /\ r \in call[q].todo
    \/ \E t \in queue : t.to = r
    \/ \E w \in Worker : Sending(w) /\ To(w) = r

Inv ==
  /\ TypeOK
  /\ Before
  /\ Lists
  /\ \A r \in Recipient \ (hit \union again) : Tasks(r)

-----------------------------------------------------------------------------
(***************************************************************************)
(* Types.                                                                  *)
(***************************************************************************)

LEMMA TotalType == Total \in Nat
  BY CampaignAssumption, FS_CardinalityType DEF Total

LEMMA FailedType == TypeOK => IsFiniteSet(Failed) /\ Cardinality(Failed) \in Nat
  <1> IsFiniteSet(Failed)
    BY CampaignAssumption, FS_Subset DEF Failed
  <1> QED
    BY FS_CardinalityType

LEMMA FaultType ==
  ASSUME TypeOK, Fault
  PROVE  faults' \in 0..MaxTrouble /\ faults' > 0
  <1> DEFINE Retrying == {q \in Retry : call[q].pc # "idle"}
  <1>1. Cardinality(Retrying) \in Nat
    BY CampaignAssumption, FS_Subset, FS_CardinalityType
  <1> QED
    BY <1>1, CampaignAssumption DEF TypeOK, Fault, Trouble

\* The sets of the history only grow.
LEMMA MishapsGrow ==
  ASSUME [Next]_vars
  PROVE  hit \subseteq hit' /\ again \subseteq again' /\ missed \subseteq missed' /\ early \subseteq early'
  <1> USE DEF mishaps, Hits
  <1>1. ASSUME NEW q \in Request, CallStep(q) PROVE UNCHANGED mishaps \/ ResetFailed(q)
    BY <1>1 DEF CallStep, CreateCampaign, InsertRecipients, Enqueue
  <1>2. ASSUME NEW q \in Request, ResetFailed(q)
        PROVE  again \subseteq again' /\ missed \subseteq missed' /\ early \subseteq early' /\ hit' = hit
    BY <1>2 DEF ResetFailed, Remember
  <1>3. ASSUME NEW q \in Request, AbortCall(q)
        PROVE  hit \subseteq hit' /\ UNCHANGED <<again, missed, early>>
    BY <1>3 DEF AbortCall
  <1>4. ASSUME NEW q \in Retry, ListFailed(q) PROVE UNCHANGED mishaps
    BY <1>4 DEF ListFailed
  <1>5. ASSUME NEW w \in Worker, WorkerStep(w) PROVE UNCHANGED mishaps \/ Send(w)
    BY <1>5 DEF WorkerStep, Take, MarkRecipient, Count, Complete
  <1>6. ASSUME NEW w \in Worker, Send(w) \/ FailStatement(w) \/ LoseHandler(w)
        PROVE  hit \subseteq hit' /\ UNCHANGED <<again, missed, early>>
    BY <1>6 DEF Send, FailStatement, LoseHandler
  <1>7. CASE UNCHANGED vars
    BY <1>7 DEF vars
  <1> QED
    BY <1>1, <1>2, <1>3, <1>4, <1>5, <1>6, <1>7 DEF Next, AllDone

LEMMA SendHits ==
  ASSUME NEW w \in Worker, Send(w)
  PROVE  /\ hit' \in {hit, hit \union {job[w].task.to}} /\ UNCHANGED <<again, missed, early>>
         /\ faults' = faults \/ Fault
         /\ delivered' = delivered \/ delivered' = [delivered EXCEPT ![job[w].task.to] = @ + 1]
  <1>1. UNCHANGED mishaps \/ Hits({job[w].task.to})
    BY DEF Send
  <1>2. hit' \in {hit, hit \union {job[w].task.to}} /\ UNCHANGED <<again, missed, early>>
    BY <1>1 DEF Hits, mishaps
  <1>3. faults' = faults \/ Fault
    BY DEF Send
  <1>4. delivered' = delivered \/ delivered' = [delivered EXCEPT ![job[w].task.to] = @ + 1]
    BY DEF Send
  <1> QED
    BY <1>2, <1>3, <1>4

LEMMA RedeliveryType ==
  ASSUME TypeOK, NEW t \in Task, tries[t] < MaxRetry
  PROVE  [tries EXCEPT ![t] = @ + 1] \in [Task -> 0..MaxRetry]
  BY CampaignAssumption DEF TypeOK

LEMMA IdleType == Idle \in JobState
  <1>1. (CHOOSE r \in Recipient : TRUE) \in Recipient
    BY CampaignAssumption
  <1> QED
    BY <1>1 DEF Idle, NoTask, JobState, Task, Request

LEMMA InitType == Init => TypeOK
  <1> SUFFICES ASSUME Init PROVE TypeOK
    OBVIOUS
  <1>1. job \in [Worker -> JobState]
    BY IdleType DEF Init
  <1>2. call \in [Request -> CallState]
    BY DEF Init, CallState
  <1> QED
    <2>1. tries \in [Task -> 0..MaxRetry] /\ faults \in 0..MaxTrouble
      BY CampaignAssumption DEF Init
    <2>2. recipient \in [Recipient -> {"none", "pending", "sent", "failed"}] /\ delivered \in [Recipient -> Nat]
      BY DEF Init
    <2>. QED
      BY <1>1, <1>2, <2>1, <2>2 DEF Init, TypeOK

LEMMA NextType == TypeOK /\ [Next]_vars => TypeOK'
  <1> SUFFICES ASSUME TypeOK, [Next]_vars PROVE TypeOK'
    OBVIOUS
  <1> USE CampaignAssumption
  <1> USE DEF TypeOK, campaign, mishaps, Request, CallState, Task, JobState
  <1>1. CASE CreateCampaign
    BY <1>1 DEF CreateCampaign
  <1>2. CASE InsertRecipients
    BY <1>2 DEF InsertRecipients
  <1>3. ASSUME NEW q \in Retry, ListFailed(q) PROVE TypeOK'
    BY <1>3 DEF ListFailed, Failed, mishaps
  <1>4. ASSUME NEW q \in Retry, ResetFailed(q) PROVE TypeOK'
    <2>1. MaxOf(failed - Cardinality(Failed), 0) \in Nat
      BY FailedType DEF MaxOf
    <2>2. IsFiniteSet(Failed)
      BY FailedType
    <2>3. again' \subseteq Recipient /\ missed' \subseteq Recipient /\ early' \subseteq Recipient
      BY <1>4 DEF ResetFailed, Remember, Failed
    <2>. QED
      BY <1>4, <2>1, <2>3 DEF ResetFailed, Remember
  <1>5. ASSUME NEW q \in Request, Enqueue(q) PROVE TypeOK'
    BY <1>5 DEF Enqueue
  <1>6. ASSUME NEW q \in Request, AbortCall(q) PROVE TypeOK'
    BY <1>6, FaultType DEF AbortCall, Hits
  <1>7. ASSUME NEW w \in Worker, Take(w) PROVE TypeOK'
    BY <1>7 DEF Take
  <1>8. ASSUME NEW w \in Worker, Send(w) PROVE TypeOK'
    <2>1. PICK ok \in BOOLEAN : job' = [job EXCEPT ![w] = [@ EXCEPT !.pc = "mark", !.ok = ok]]
      BY <1>8 DEF Send
    <2>2. job' \in [Worker -> JobState]
      BY <2>1
    <2>3. faults' \in 0..MaxTrouble /\ delivered' \in [Recipient -> Nat]
      <3>1. faults' = faults \/ Fault
        BY <1>8, SendHits
      <3>2. delivered' = delivered \/ delivered' = [delivered EXCEPT ![job[w].task.to] = @ + 1]
        BY <1>8, SendHits
      <3>3. delivered' \in [Recipient -> Nat]
        BY <3>2
      <3>4. Fault => faults' \in 0..MaxTrouble
        BY FaultType
      <3>5. faults' \in 0..MaxTrouble
        BY <3>1, <3>4
      <3> QED
        BY <3>3, <3>5
    <2>4. hit' \in {hit, hit \union {job[w].task.to}} /\ UNCHANGED <<again, missed, early>>
      BY <1>8, SendHits
    <2>5. hit' \subseteq Recipient
      BY <2>4
    <2>. QED
      BY <1>8, <2>2, <2>3, <2>4, <2>5 DEF Send
  <1>9. ASSUME NEW w \in Worker, MarkRecipient(w) PROVE TypeOK'
    BY <1>9 DEF MarkRecipient
  <1>10. ASSUME NEW w \in Worker, Count(w) PROVE TypeOK'
    BY <1>10 DEF Count
  <1>11. ASSUME NEW w \in Worker, Complete(w) PROVE TypeOK'
    BY <1>11, IdleType DEF Complete
  <1>12. ASSUME NEW w \in Worker, FailStatement(w) PROVE TypeOK'
    BY <1>12, FaultType, IdleType DEF FailStatement, Hits
  <1>13. ASSUME NEW w \in Worker, LoseHandler(w) PROVE TypeOK'
    <2>1. job[w].task \in Task
      OBVIOUS
    <2>2. job' \in [Worker -> JobState]
      BY <1>13, IdleType DEF LoseHandler
    <2>3. queue' \subseteq Task /\ tries' \in [Task -> 0..MaxRetry]
      <3>1. CASE tries[job[w].task] < MaxRetry
        <4>1. queue' = queue \union {job[w].task} /\ tries' = [tries EXCEPT ![job[w].task] = @ + 1]
          BY <1>13, <3>1 DEF LoseHandler
        <4>2. tries' \in [Task -> 0..MaxRetry]
          BY <2>1, <3>1, <4>1, RedeliveryType
        <4>. QED
          BY <2>1, <4>1, <4>2
      <3>2. CASE ~(tries[job[w].task] < MaxRetry)
        BY <1>13, <3>2 DEF LoseHandler
      <3>. QED
        BY <3>1, <3>2
    <2>. QED
      BY <1>13, <2>2, <2>3, FaultType DEF LoseHandler, Hits
  <1>14. CASE UNCHANGED vars
    BY <1>14 DEF vars
  <1> QED
    BY <1>1, <1>2, <1>3, <1>4, <1>5, <1>6, <1>7, <1>8, <1>9, <1>10, <1>11, <1>12, <1>13, <1>14
    DEF Next, CallStep, WorkerStep, AllDone

\* Types of the campaign, its recipients, the queue, the requests and the workers,
\* whatever fails.
THEOREM TypeCorrect == Spec => []TypeOK
  BY InitType, NextType, PTL DEF Spec

-----------------------------------------------------------------------------
(***************************************************************************)
(* One task for each recipient that nothing got in the way of.             *)
(***************************************************************************)

LEMMA InitInv == Init => Inv
  <1> SUFFICES ASSUME Init PROVE Inv
    OBVIOUS
  <1>1. Before /\ Lists
    BY DEF Init, Before, Lists, Idle, Request
  <1>2. ASSUME NEW r \in Recipient PROVE Tasks(r)
    BY DEF Init, Tasks, Pending, OneTask, FailureStays, Delivery, Sending, Enqueuing, Idle
  <1> QED
    BY <1>1, <1>2, InitType DEF Inv

LEMMA BeforeStep == TypeOK /\ Before /\ Lists /\ [Next]_vars => Before' /\ Lists'
  <1> SUFFICES ASSUME TypeOK, Before, Lists, [Next]_vars PROVE Before' /\ Lists'
    OBVIOUS
  <1> USE CampaignAssumption DEF TypeOK, Before, Lists, Request, CallState, campaign, mishaps
  <1>1. CASE CreateCampaign
    BY <1>1 DEF CreateCampaign
  <1>2. CASE InsertRecipients
    BY <1>2 DEF InsertRecipients
  <1>3. ASSUME NEW q \in Retry, ListFailed(q) PROVE Before' /\ Lists'
    BY <1>3 DEF ListFailed, Failed
  <1>4. ASSUME NEW q \in Retry, ResetFailed(q) PROVE Before' /\ Lists'
    BY <1>4 DEF ResetFailed
  <1>5. ASSUME NEW q \in Request, Enqueue(q) PROVE Before' /\ Lists'
    BY <1>5 DEF Enqueue
  <1>6. ASSUME NEW q \in Request, AbortCall(q) PROVE Before' /\ Lists'
    BY <1>6 DEF AbortCall
  <1>7. ASSUME NEW w \in Worker, Take(w) PROVE Before' /\ Lists'
    BY <1>7 DEF Take
  <1>8. ASSUME NEW w \in Worker, Send(w) PROVE Before' /\ Lists'
    BY <1>8 DEF Send
  <1>9. ASSUME NEW w \in Worker, MarkRecipient(w) PROVE Before' /\ Lists'
    BY <1>9 DEF MarkRecipient
  <1>10. ASSUME NEW w \in Worker, Count(w) \/ Complete(w) PROVE Before' /\ Lists'
    BY <1>10 DEF Count, Complete
  <1>11. ASSUME NEW w \in Worker, FailStatement(w) PROVE Before' /\ Lists'
    BY <1>11 DEF FailStatement
  <1>12. ASSUME NEW w \in Worker, LoseHandler(w) PROVE Before' /\ Lists'
    BY <1>12 DEF LoseHandler
  <1>13. CASE UNCHANGED vars
    BY <1>13 DEF vars
  <1> QED
    BY <1>1, <1>2, <1>3, <1>4, <1>5, <1>6, <1>7, <1>8, <1>9, <1>10, <1>11, <1>12, <1>13
    DEF Next, CallStep, WorkerStep, AllDone

LEMMA TasksStep ==
  ASSUME TypeOK, Before, Lists, NEW r \in Recipient, Tasks(r),
         r \notin hit', r \notin again', [Next]_vars
  PROVE  Tasks(r)'
  <1> USE CampaignAssumption
  <1> USE DEF TypeOK, Before, Request, CallState, Task, JobState, campaign, mishaps
  <1> USE DEF Tasks, Pending, OneTask, FailureStays, Delivery, Sending, Enqueuing, To
  <1>1. CASE CreateCampaign
    BY <1>1 DEF CreateCampaign
  <1>2. CASE InsertRecipients
    BY <1>2 DEF InsertRecipients
  <1>3. ASSUME NEW q \in Retry, ListFailed(q) PROVE Tasks(r)'
    BY <1>3 DEF ListFailed
  <1>4. ASSUME NEW q \in Retry, ResetFailed(q) PROVE Tasks(r)'
    <2>1. r \in call[q].todo => recipient[r] = "failed"
      BY <1>4 DEF ResetFailed, Remember, Failed
    <2>2. /\ recipient'[r] = IF recipient[r] = "failed" THEN "pending" ELSE recipient[r]
          /\ call' = [call EXCEPT ![q].pc = "enqueue"]
          /\ UNCHANGED <<queue, job, delivered>>
      BY <1>4 DEF ResetFailed, Failed
    <2>3. Pending(r)' /\ OneTask(r)'
      BY <2>1, <2>2
    <2>4. Delivery(r)'
      BY <2>2
    <2>5. r \notin early' => FailureStays(r)'
      <3>1. early' = early \union (Failed \intersect Uncounted)
        BY <1>4 DEF ResetFailed, Remember
      <3>2. ASSUME r \notin early', NEW w \in Worker, job[w].pc = "count", ~job[w].ok, To(w) = r
            PROVE  FALSE
        <4>1. recipient[r] = "failed"
          BY <3>1, <3>2
        <4>2. r \in Failed /\ r \in Uncounted
          BY <3>2, <4>1 DEF Failed, Uncounted
        <4> QED
          BY <3>1, <3>2, <4>2
      <3> QED
        BY <2>2, <3>2
    <2> QED
      BY <2>3, <2>4, <2>5
  <1>5. ASSUME NEW q \in Request, Enqueue(q) PROVE Tasks(r)'
    BY <1>5 DEF Enqueue
  <1>6. ASSUME NEW q \in Request, AbortCall(q) PROVE Tasks(r)'
    BY <1>6 DEF AbortCall, Hits
  <1>7. ASSUME NEW w \in Worker, Take(w) PROVE Tasks(r)'
    BY <1>7 DEF Take
  <1>8. ASSUME NEW w \in Worker, Send(w) PROVE Tasks(r)'
    <2>1. PICK ok \in BOOLEAN : job' = [job EXCEPT ![w] = [@ EXCEPT !.pc = "mark", !.ok = ok]]
      BY <1>8 DEF Send
    <2>2. /\ job[w].pc = "send" /\ job'[w].ok = ok
          /\ UNCHANGED <<recipient, call, queue, early>>
      BY <1>8, <2>1 DEF Send, Hits
    <2>3. \/ ok /\ delivered' = [delivered EXCEPT ![To(w)] = @ + 1]
          \/ delivered'[r] = delivered[r]
      BY <1>8, <2>2 DEF Send, Hits
    <2>4. Pending(r)' /\ OneTask(r)' /\ (r \notin early' => FailureStays(r)')
      BY <2>1, <2>2
    <2>5. Delivery(r)'
      <3>1. CASE delivered'[r] = delivered[r]
        BY <2>1, <2>2, <3>1
      <3>2. CASE ok /\ delivered' = [delivered EXCEPT ![To(w)] = @ + 1] /\ To(w) = r
        <4>1. delivered[r] = 0
          BY <2>2, <3>2
        <4> QED
          BY <2>1, <3>2, <4>1
      <3> QED
        BY <2>3, <3>1, <3>2
    <2> QED
      BY <2>4, <2>5
  <1>9. ASSUME NEW w \in Worker, MarkRecipient(w) PROVE Tasks(r)'
    BY <1>9 DEF MarkRecipient
  <1>10. ASSUME NEW w \in Worker, Count(w) PROVE Tasks(r)'
    BY <1>10 DEF Count
  <1>11. ASSUME NEW w \in Worker, Complete(w) PROVE Tasks(r)'
    BY <1>11 DEF Complete, Idle
  <1>12. ASSUME NEW w \in Worker, FailStatement(w) PROVE Tasks(r)'
    BY <1>12 DEF FailStatement, Hits, Idle
  <1>13. ASSUME NEW w \in Worker, LoseHandler(w) PROVE Tasks(r)'
    <2>1. To(w) # r /\ job' = [job EXCEPT ![w] = Idle]
      BY <1>13 DEF LoseHandler, Hits
    <2>2. \A t \in queue' : t.to = r => t \in queue
      BY <1>13, <2>1 DEF LoseHandler
    <2>3. UNCHANGED <<recipient, call, delivered, early>>
      BY <1>13 DEF LoseHandler, Hits
    <2> QED
      BY <2>1, <2>2, <2>3 DEF Idle
  <1>14. CASE UNCHANGED vars
    BY <1>14 DEF vars
  <1> QED
    BY <1>1, <1>2, <1>3, <1>4, <1>5, <1>6, <1>7, <1>8, <1>9, <1>10, <1>11, <1>12, <1>13, <1>14
    DEF Next, CallStep, WorkerStep, AllDone

LEMMA InvStep == Inv /\ [Next]_vars => Inv'
  <1> SUFFICES ASSUME Inv, [Next]_vars PROVE Inv'
    OBVIOUS
  <1>1. TypeOK' /\ Before' /\ Lists'
    BY NextType, BeforeStep DEF Inv
  <1>2. ASSUME NEW r \in Recipient, r \notin hit', r \notin again' PROVE Tasks(r)'
    BY <1>2, MishapsGrow, TasksStep DEF Inv
  <1> QED
    BY <1>1, <1>2 DEF Inv

LEMMA Invariance == Spec => []Inv
  BY InitInv, InvStep, PTL DEF Spec

-----------------------------------------------------------------------------
(***************************************************************************)
(* The counters.                                                           *)
(***************************************************************************)

SentOnes == {r \in Recipient : recipient[r] = "sent"}

\* Handlers that have marked their recipient and not counted it yet.
CountingSent   == {w \in Worker : job[w].pc = "count" /\ job[w].ok}
CountingFailed == {w \in Worker : job[w].pc = "count" /\ ~job[w].ok}

Counters ==
  /\ sent + Cardinality(CountingSent) = Cardinality(SentOnes)
  /\ failed + Cardinality(CountingFailed) = Cardinality(Failed)

\* No recipient was hit, enqueued twice or reset before it was counted.
Undisturbed == hit = {} /\ again = {} /\ early = {}

LEMMA SetsAreFinite ==
  /\ IsFiniteSet(SentOnes) /\ Cardinality(SentOnes) \in Nat
  /\ IsFiniteSet(Failed) /\ Cardinality(Failed) \in Nat
  /\ IsFiniteSet(CountingSent) /\ Cardinality(CountingSent) \in Nat
  /\ IsFiniteSet(CountingFailed) /\ Cardinality(CountingFailed) \in Nat
  <1>1. IsFiniteSet(SentOnes) /\ IsFiniteSet(Failed)
    BY CampaignAssumption, FS_Subset DEF SentOnes, Failed
  <1>2. IsFiniteSet(CountingSent) /\ IsFiniteSet(CountingFailed)
    BY CampaignAssumption, FS_Subset DEF CountingSent, CountingFailed
  <1> QED
    BY <1>1, <1>2, FS_CardinalityType

\* Steps that leave recipients, counters and the handlers that count alone.
LEMMA CountersKept ==
  ASSUME Counters, UNCHANGED <<sent, failed, recipient>>,
         CountingSent' = CountingSent, CountingFailed' = CountingFailed
  PROVE  Counters'
  BY DEF Counters, SentOnes, Failed

LEMMA MarkCounters ==
  ASSUME TypeOK, Counters, NEW w \in Worker, Tasks(To(w)), MarkRecipient(w)
  PROVE  Counters'
  <1> USE SetsAreFinite
  <1> USE DEF TypeOK, JobState, Task, MarkRecipient, campaign
  <1>1. recipient[To(w)] = "pending" /\ To(w) \in Recipient
    BY DEF Tasks, Pending, Sending, To
  <1>2. recipient' = [recipient EXCEPT ![To(w)] = IF job[w].ok THEN "sent" ELSE "failed"]
    BY DEF To
  <1>3. job' = [job EXCEPT ![w] = [@ EXCEPT !.pc = "count"]] /\ job[w].ok \in BOOLEAN
    OBVIOUS
  <1>4. CASE job[w].ok
    <2>1. SentOnes' = SentOnes \union {To(w)} /\ To(w) \notin SentOnes /\ Failed' = Failed
      BY <1>1, <1>2, <1>4 DEF SentOnes, Failed
    <2>2. /\ CountingSent' = CountingSent \union {w} /\ w \notin CountingSent
          /\ CountingFailed' = CountingFailed
      BY <1>3, <1>4 DEF CountingSent, CountingFailed
    <2>3. Cardinality(SentOnes') = Cardinality(SentOnes) + 1
      BY <2>1, FS_AddElement
    <2>4. Cardinality(CountingSent') = Cardinality(CountingSent) + 1
      BY <2>2, FS_AddElement
    <2>5. UNCHANGED <<sent, failed>>
      OBVIOUS
    <2> QED
      BY <2>1, <2>2, <2>3, <2>4, <2>5 DEF Counters
  <1>5. CASE ~job[w].ok
    <2>1. Failed' = Failed \union {To(w)} /\ To(w) \notin Failed /\ SentOnes' = SentOnes
      BY <1>1, <1>2, <1>5 DEF SentOnes, Failed
    <2>2. /\ CountingFailed' = CountingFailed \union {w} /\ w \notin CountingFailed
          /\ CountingSent' = CountingSent
      BY <1>3, <1>5 DEF CountingSent, CountingFailed
    <2>3. Cardinality(Failed') = Cardinality(Failed) + 1
      BY <2>1, FS_AddElement
    <2>4. Cardinality(CountingFailed') = Cardinality(CountingFailed) + 1
      BY <2>2, FS_AddElement
    <2>5. UNCHANGED <<sent, failed>>
      OBVIOUS
    <2> QED
      BY <2>1, <2>2, <2>3, <2>4, <2>5 DEF Counters
  <1> QED
    BY <1>4, <1>5

LEMMA CountCounters ==
  ASSUME TypeOK, Counters, NEW w \in Worker, Count(w)
  PROVE  Counters'
  <1> USE SetsAreFinite
  <1> USE DEF TypeOK, JobState, Count
  <1>1. job' = [job EXCEPT ![w] = [@ EXCEPT !.pc = "complete"]] /\ job[w].ok \in BOOLEAN
    OBVIOUS
  <1>2. SentOnes' = SentOnes /\ Failed' = Failed
    BY DEF SentOnes, Failed
  <1>3. CASE job[w].ok
    <2>1. /\ CountingSent' = CountingSent \ {w} /\ w \in CountingSent
          /\ CountingFailed' = CountingFailed
      BY <1>1, <1>3 DEF CountingSent, CountingFailed
    <2>2. Cardinality(CountingSent') = Cardinality(CountingSent) - 1
      BY <2>1, FS_RemoveElement
    <2>3. sent' = sent + 1 /\ failed' = failed
      BY <1>3
    <2> QED
      BY <1>2, <2>1, <2>2, <2>3 DEF Counters
  <1>4. CASE ~job[w].ok
    <2>1. /\ CountingFailed' = CountingFailed \ {w} /\ w \in CountingFailed
          /\ CountingSent' = CountingSent
      BY <1>1, <1>4 DEF CountingSent, CountingFailed
    <2>2. Cardinality(CountingFailed') = Cardinality(CountingFailed) - 1
      BY <2>1, FS_RemoveElement
    <2>3. failed' = failed + 1 /\ sent' = sent
      BY <1>4
    <2> QED
      BY <1>2, <2>1, <2>2, <2>3 DEF Counters
  <1> QED
    BY <1>3, <1>4

LEMMA ResetCounters ==
  ASSUME TypeOK, Undisturbed', \A r \in Recipient : Tasks(r), Undisturbed, Counters,
         NEW q \in Retry, ResetFailed(q)
  PROVE  Counters'
  <1> USE SetsAreFinite
  <1> USE DEF TypeOK, ResetFailed
  <1>1. Failed \intersect Uncounted = {}
    BY DEF Remember, Undisturbed
  <1>2. CountingFailed = {} /\ UNCHANGED job
    <2>1. ASSUME NEW w \in CountingFailed PROVE FALSE
      <3>1. To(w) \in Recipient /\ job[w].pc = "count" /\ ~job[w].ok /\ w \in Worker
        BY DEF CountingFailed, To, JobState, Task
      <3>2. recipient[To(w)] = "failed"
        BY <3>1 DEF Tasks, FailureStays, Undisturbed
      <3>3. To(w) \in Failed /\ To(w) \in Uncounted
        BY <3>1, <3>2 DEF Failed, Uncounted, To
      <3> QED
        BY <1>1, <3>3
    <2> QED
      BY <2>1
  <1>3. Cardinality(CountingFailed) = 0 /\ Cardinality({}) = 0
    BY <1>2, FS_EmptySet
  <1>4. failed = Cardinality(Failed)
    BY <1>3 DEF Counters
  <1>5. failed' = 0 /\ sent' = sent
    BY <1>4 DEF MaxOf
  <1>6. Failed' = {} /\ SentOnes' = SentOnes
    BY DEF Failed, SentOnes
  <1>7. CountingSent' = CountingSent /\ CountingFailed' = {}
    BY <1>2 DEF CountingSent, CountingFailed
  <1> QED
    BY <1>3, <1>5, <1>6, <1>7 DEF Counters

LEMMA CountersStep ==
  ASSUME Inv, Undisturbed => Counters, Undisturbed', [Next]_vars
  PROVE  Counters'
  <1> USE DEF campaign
  <1>1. Undisturbed /\ TypeOK /\ Before /\ \A r \in Recipient : Tasks(r)
    BY MishapsGrow DEF Undisturbed, Inv
  <1>2. Counters
    BY <1>1
  <1>3. CASE CreateCampaign
    BY <1>2, <1>3, CountersKept DEF CreateCampaign, CountingSent, CountingFailed
  <1>4. CASE InsertRecipients
    <2>1. SentOnes' = SentOnes
      BY <1>1, <1>4 DEF InsertRecipients, Before, SentOnes
    <2>2. Failed' = Failed
      BY <1>1, <1>4 DEF InsertRecipients, Before, Failed
    <2>3. CountingSent' = CountingSent /\ CountingFailed' = CountingFailed /\ UNCHANGED <<sent, failed>>
      BY <1>4 DEF InsertRecipients, CountingSent, CountingFailed
    <2> QED
      BY <1>2, <2>1, <2>2, <2>3 DEF Counters
  <1>5. ASSUME NEW q \in Retry, ListFailed(q) PROVE Counters'
    BY <1>2, <1>5, CountersKept DEF ListFailed, CountingSent, CountingFailed
  <1>6. ASSUME NEW q \in Retry, ResetFailed(q) PROVE Counters'
    BY <1>1, <1>2, <1>6, ResetCounters
  <1>7. ASSUME NEW q \in Request, Enqueue(q) \/ AbortCall(q) PROVE Counters'
    BY <1>2, <1>7, CountersKept DEF Enqueue, AbortCall, CountingSent, CountingFailed
  <1>8. ASSUME NEW w \in Worker, Take(w) PROVE Counters'
    BY <1>1, <1>2, <1>8, CountersKept DEF Take, CountingSent, CountingFailed, TypeOK
  <1>9. ASSUME NEW w \in Worker, Send(w) PROVE Counters'
    <2>1. PICK ok \in BOOLEAN : job' = [job EXCEPT ![w] = [@ EXCEPT !.pc = "mark", !.ok = ok]]
      BY <1>9 DEF Send
    <2>2. job[w].pc = "send" /\ UNCHANGED <<sent, failed, recipient>>
      BY <1>9 DEF Send
    <2>3. CountingSent' = CountingSent /\ CountingFailed' = CountingFailed
      BY <1>1, <2>1, <2>2 DEF CountingSent, CountingFailed, TypeOK, JobState
    <2> QED
      BY <1>2, <2>2, <2>3, CountersKept
  <1>10. ASSUME NEW w \in Worker, MarkRecipient(w) PROVE Counters'
    <2>1. To(w) \in Recipient
      BY <1>1 DEF To, TypeOK, JobState, Task
    <2> QED
      BY <1>1, <1>2, <1>10, <2>1, MarkCounters
  <1>11. ASSUME NEW w \in Worker, Count(w) PROVE Counters'
    BY <1>1, <1>2, <1>11, CountCounters
  <1>12. ASSUME NEW w \in Worker, Complete(w) PROVE Counters'
    BY <1>1, <1>2, <1>12, CountersKept DEF Complete, CountingSent, CountingFailed, Idle, TypeOK
  <1>13. ASSUME NEW w \in Worker, FailStatement(w) \/ LoseHandler(w) PROVE FALSE
    BY <1>13 DEF FailStatement, LoseHandler, Hits, Undisturbed
  <1>14. CASE UNCHANGED vars
    BY <1>2, <1>14, CountersKept DEF vars, CountingSent, CountingFailed
  <1> QED
    BY <1>3, <1>4, <1>5, <1>6, <1>7, <1>8, <1>9, <1>10, <1>11, <1>12, <1>13, <1>14
    DEF Next, CallStep, WorkerStep, AllDone

LEMMA CountersAreTheRecipients == Spec => [](Undisturbed => Counters)
  <1> DEFINE I == Undisturbed => Counters
  <1>1. Init => I
    <2> SUFFICES ASSUME Init PROVE Counters
      OBVIOUS
    <2>1. SentOnes = {} /\ Failed = {} /\ CountingSent = {} /\ CountingFailed = {}
      BY DEF Init, SentOnes, Failed, CountingSent, CountingFailed, Idle
    <2> QED
      BY <2>1, FS_EmptySet DEF Init, Counters
  <1>2. Inv /\ I /\ [Next]_vars => I'
    BY CountersStep
  <1> HIDE DEF I
  <1>3. Spec => []I
    BY <1>1, <1>2, Invariance, PTL DEF Spec
  <1> QED
    BY <1>3 DEF I

-----------------------------------------------------------------------------
(***************************************************************************)
(* Completion, messages and pending recipients.                            *)
(***************************************************************************)

\* As many results as recipients are one for each of them.
LEMMA AllHaveResults ==
  ASSUME TypeOK, Counters, sent + failed >= Total, NEW r \in Recipient
  PROVE  recipient[r] \in {"sent", "failed"}
  <1> USE SetsAreFinite
  <1> DEFINE Done == SentOnes \union Failed
  <1>1. SentOnes \intersect Failed = {} /\ Done \subseteq Recipient
    BY DEF SentOnes, Failed
  <1>2. Cardinality(Done) = Cardinality(SentOnes) + Cardinality(Failed) - Cardinality({})
    BY <1>1, FS_Union
  <1>3. Cardinality({}) = 0
    BY FS_EmptySet
  <1>4. Cardinality(Done) <= Cardinality(Recipient) /\ Cardinality(Recipient) \in Nat
    BY <1>1, CampaignAssumption, FS_Subset, FS_CardinalityType
  <1>5. Cardinality(Done) >= Cardinality(Recipient) /\ Cardinality(Done) \in Nat
    <2> HIDE DEF Done
    <2> QED
      BY <1>2, <1>3, <1>4 DEF Counters, TypeOK, Total
  <1>6. Done = Recipient
    <2>1. Cardinality(Done) = Cardinality(Recipient)
      BY <1>4, <1>5
    <2> QED
      BY <1>1, <2>1, CampaignAssumption, FS_Subset
  <1> QED
    BY <1>6 DEF SentOnes, Failed

LEMMA CompletedStep ==
  ASSUME Inv, Undisturbed => Counters, CompletedIsDone, [Next]_vars
  PROVE  CompletedIsDone'
  <1> SUFFICES ASSUME status' = "completed", Undisturbed'
               PROVE  \A r \in Recipient : recipient'[r] \in {"sent", "failed"}
    BY DEF CompletedIsDone, Undisturbed
  <1> USE DEF campaign
  <1>1. Undisturbed /\ TypeOK /\ Before
    BY MishapsGrow DEF Undisturbed, Inv
  <1>2. status = "completed" => \A r \in Recipient : recipient[r] \in {"sent", "failed"}
    BY <1>1 DEF CompletedIsDone, Undisturbed
  <1>3. CASE UNCHANGED <<status, recipient>>
    BY <1>2, <1>3
  <1>4. ASSUME NEW q \in Request, CallStep(q) PROVE UNCHANGED <<status, recipient>>
    <2>1. ~CreateCampaign
      BY DEF CreateCampaign
    <2>2. ~InsertRecipients
      <3>1. PICK r \in Recipient : TRUE
        BY CampaignAssumption
      <3>2. ASSUME InsertRecipients PROVE status = "completed" /\ recipient[r] = "none"
        BY <1>1, <3>2 DEF InsertRecipients, Before
      <3> QED
        BY <1>2, <3>1, <3>2
    <2>3. ASSUME ResetFailed(q) PROVE UNCHANGED <<status, recipient>>
      <3>1. Failed = {} /\ UNCHANGED status
        BY <2>3 DEF ResetFailed
      <3> QED
        BY <1>1, <2>3, <3>1 DEF ResetFailed, TypeOK
    <2> QED
      BY <1>4, <2>1, <2>2, <2>3 DEF CallStep, Enqueue
  <1>5. ASSUME NEW q \in Retry, ListFailed(q) PROVE UNCHANGED <<status, recipient>>
    BY <1>5 DEF ListFailed
  <1>6. ASSUME NEW q \in Request, AbortCall(q) PROVE UNCHANGED <<status, recipient>>
    BY <1>6 DEF AbortCall
  <1>7. ASSUME NEW w \in Worker, Take(w) \/ Send(w) \/ FailStatement(w) \/ LoseHandler(w)
        PROVE  UNCHANGED <<status, recipient>>
    BY <1>7 DEF Take, Send, FailStatement, LoseHandler
  <1>8. ASSUME NEW w \in Worker, MarkRecipient(w)
        PROVE  \A r \in Recipient : recipient'[r] \in {"sent", "failed"}
    BY <1>1, <1>2, <1>8 DEF MarkRecipient, TypeOK
  <1>9. ASSUME NEW w \in Worker PROVE ~Count(w)
    BY DEF Count
  <1>10. ASSUME NEW w \in Worker, Complete(w)
         PROVE  \A r \in Recipient : recipient'[r] \in {"sent", "failed"}
    <2>1. UNCHANGED recipient
      BY <1>10 DEF Complete
    <2>2. status = "completed" \/ sent + failed >= Total
      BY <1>10 DEF Complete
    <2> QED
      BY <1>1, <1>2, <2>1, <2>2, AllHaveResults
  <1> QED
    BY <1>3, <1>4, <1>5, <1>6, <1>7, <1>8, <1>9, <1>10 DEF Next, WorkerStep, AllDone, vars

\* A campaign shown as completed has a result for each recipient, as long as no
\* recipient was met by a failure, enqueued by a retry though another had reset it,
\* or reset before its failure was counted: then the counters are the recipients.
THEOREM CompletedCampaignsAreDone == Spec => []CompletedIsDone
  <1> DEFINE I == Undisturbed => Counters
  <1>1. Init => CompletedIsDone
    BY DEF Init, CompletedIsDone
  <1>2. Inv /\ I /\ CompletedIsDone /\ [Next]_vars => CompletedIsDone'
    BY CompletedStep
  <1>3. Spec => []I
    BY CountersAreTheRecipients
  <1> HIDE DEF I
  <1> QED
    BY <1>1, <1>2, <1>3, Invariance, PTL DEF Spec

\* Nobody gets the message twice but those whose own task met a failure and those
\* whom a retry enqueues though another one had reset them, whatever happens to the
\* others: a recipient left alone has one task at a time.
THEOREM MessagesAreSentOnce == Spec => []SentOnce
  <1>1. Inv => SentOnce
    BY DEF Inv, Tasks, Delivery, SentOnce
  <1> QED
    BY <1>1, Invariance, PTL

LEMMA HeldStep ==
  ASSUME TypeOK, Before, NEW r \in Recipient, Held(r),
         r \notin hit', r \notin missed', [Next]_vars
  PROVE  Held(r)'
  <1> USE DEF TypeOK, CallState, JobState, Task, Request, campaign, mishaps
  <1> USE DEF Held, Enqueuing, Sending, To
  <1>1. CASE CreateCampaign
    BY <1>1 DEF CreateCampaign, Before
  <1>2. CASE InsertRecipients
    BY <1>2 DEF InsertRecipients
  <1>3. ASSUME NEW q \in Retry, ListFailed(q) PROVE Held(r)'
    BY <1>3 DEF ListFailed
  <1>4. ASSUME NEW q \in Retry, ResetFailed(q) PROVE Held(r)'
    <2>1. r \in Failed => r \in call[q].todo
      BY <1>4 DEF ResetFailed, Remember
    <2>2. /\ call' = [call EXCEPT ![q].pc = "enqueue"] /\ q \in Request
          /\ recipient'[r] = IF r \in Failed THEN "pending" ELSE recipient[r]
          /\ UNCHANGED <<queue, job>>
      BY <1>4 DEF ResetFailed
    <2> QED
      BY <2>1, <2>2
  <1>5. ASSUME NEW q \in Request, Enqueue(q) PROVE Held(r)'
    <2>1. PICK x \in call[q].todo :
            /\ queue' = queue \union {[by |-> q, to |-> x]}
            /\ call' = [call EXCEPT ![q] =
                 [pc |-> IF @.todo = {x} THEN "done" ELSE "enqueue", todo |-> @.todo \ {x}]]
      BY <1>5 DEF Enqueue
    <2>2. call[q].pc = "enqueue" /\ UNCHANGED <<recipient, job>>
      BY <1>5 DEF Enqueue
    <2>3. CASE x = r
      <3>1. [by |-> q, to |-> r] \in queue' /\ [by |-> q, to |-> r].to = r
        BY <2>1, <2>3
      <3> QED
        BY <3>1
    <2>4. CASE x # r
      <3>1. r \in call[q].todo => Enqueuing(q)' /\ r \in call'[q].todo
        BY <2>1, <2>4
      <3>2. \A p \in Request : p # q => call'[p] = call[p]
        BY <2>1
      <3>3. \A t \in queue : t \in queue'
        BY <2>1
      <3> QED
        BY <2>2, <3>1, <3>2, <3>3
    <2> QED
      BY <2>3, <2>4
  <1>6. ASSUME NEW q \in Request, AbortCall(q) PROVE Held(r)'
    BY <1>6 DEF AbortCall, Hits
  <1>7. ASSUME NEW w \in Worker, Take(w) PROVE Held(r)'
    BY <1>7 DEF Take
  <1>8. ASSUME NEW w \in Worker, Send(w) PROVE Held(r)'
    BY <1>8 DEF Send
  <1>9. ASSUME NEW w \in Worker, MarkRecipient(w) PROVE Held(r)'
    BY <1>9 DEF MarkRecipient
  <1>10. ASSUME NEW w \in Worker, Count(w) PROVE Held(r)'
    BY <1>10 DEF Count
  <1>11. ASSUME NEW w \in Worker, Complete(w) PROVE Held(r)'
    BY <1>11 DEF Complete, Idle
  <1>12. ASSUME NEW w \in Worker, FailStatement(w) PROVE Held(r)'
    BY <1>12 DEF FailStatement, Hits, Idle
  <1>13. ASSUME NEW w \in Worker, LoseHandler(w) PROVE Held(r)'
    <2>1. To(w) # r /\ job' = [job EXCEPT ![w] = Idle]
      BY <1>13 DEF LoseHandler, Hits
    <2>2. \A t \in queue : t \in queue'
      BY <1>13 DEF LoseHandler
    <2>3. UNCHANGED <<recipient, call>>
      BY <1>13 DEF LoseHandler
    <2> QED
      BY <2>1, <2>2, <2>3
  <1>14. CASE UNCHANGED vars
    BY <1>14 DEF vars
  <1> QED
    BY <1>1, <1>2, <1>3, <1>4, <1>5, <1>6, <1>7, <1>8, <1>9, <1>10, <1>11, <1>12, <1>13, <1>14
    DEF Next, CallStep, WorkerStep, AllDone

\* Nobody is left pending but those whose own task met a failure and those reset by
\* a retry that had not listed them: anybody else has a task or is being enqueued,
\* also while retries overlap.
THEOREM PendingRecipientsHaveTasks == Spec => []NobodyIsStranded
  <1> DEFINE I == \A r \in Recipient \ (hit \union missed) : Held(r)
  <1>1. Init => I
    BY DEF Init, Held
  <1>2. Inv /\ I /\ [Next]_vars => I'
    <2> SUFFICES ASSUME Inv, I, [Next]_vars, NEW r \in Recipient, r \notin hit', r \notin missed'
                 PROVE  Held(r)'
      OBVIOUS
    <2>1. r \notin hit /\ r \notin missed
      BY MishapsGrow
    <2> QED
      BY <2>1, HeldStep DEF Inv
  <1>3. I => NobodyIsStranded
    BY DEF NobodyIsStranded, Stranded, Held, Sending, Enqueuing, To
  <1> HIDE DEF I
  <1> QED
    BY <1>1, <1>2, <1>3, Invariance, PTL DEF Spec

=============================================================================
