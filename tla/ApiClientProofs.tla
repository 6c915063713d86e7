---------------------------- MODULE ApiClientProofs ----------------------------
(***************************************************************************)
(* Theorems about ApiClient, for any number of page requests, tokens and   *)
(* logins.  The calls are taken one record at a time (JobOK), the flag by  *)
(* who may hold it (OneOwner): each action is one of four moves of the     *)
(* flag and one of seven changes of a record.                              *)
(***************************************************************************)
EXTENDS ApiClient, FiniteSetTheorems, TLAPS

\* TypeOK's set of calls, named.
Pcs == {"idle", "start", "csrf", "flight", "sleep", "woken", "done"} \cup Waiting \cup Refreshing \cup Settling
Calls == {"none", "get", "dash", "post", "refresh", "login", "logout"}
JobState ==
    [pc : Pcs, call : Calls, tok : Tokens \cup {None}, once : BOOLEAN, again : BOOLEAN,
     retries : 0..MaxRetries, sends : Nat, executed : Nat]

\* What a call has used of the ways to be sent again.
Extra(r) == (IF r.once THEN 1 ELSE 0) + (IF r.again THEN 1 ELSE 0) + r.retries

\* What holds of the call r of process q whatever the others do.  A write is executed
\* at most once per sending that was lost; a call is sent once, and once more for each way used.
JobOK(q, r) ==
    /\ r \in JobState
    /\ r.pc = "csrf" => r.call = "post"
    /\ q = Refresh => r.call \in {"none", "refresh", "logout"}
    /\ q \in Requests /\ r.pc # "done" => r.executed <= r.retries
    /\ q \in Requests => r.executed <= 1 + MaxRetries
    /\ r.sends <= Extra(r) + (IF r.pc = "flight" THEN 1 ELSE 0)

\* The user and the refresh are two processes, and no page request.
LEMMA Names == Refresh \in Processes \ Requests /\ User \in Processes \ Requests /\ Refresh # User
BY ApiAssumption DEF Processes, Refresh, User

\* What the actions do to the record of one call.
Moved(r, t, x) == [r EXCEPT !.tok = t, !.pc = x]
MovedTo(r, x) == [r EXCEPT !.pc = x]
Sent(r, t) == [r EXCEPT !.tok = t, !.pc = "flight", !.sends = @ + 1]
Resent(r, t) == [r EXCEPT !.once = TRUE, !.pc = "start", !.tok = t]
Seen(r, x) == [[r EXCEPT !.once = TRUE, !.again = TRUE] EXCEPT !.pc = x]
Asleep(r, n) == [[r EXCEPT !.executed = n] EXCEPT !.pc = "sleep", !.retries = @ + 1]
Done(n) == [Idle EXCEPT !.pc = "done", !.executed = n]

\* A process that makes no call satisfies JobOK.
LEMMA IdleOK == ASSUME NEW q \in Processes PROVE JobOK(q, Idle)
<1>1. Idle \in JobState
  BY DEF Idle, JobState, Pcs, Calls, MaxRetries
<1> QED
BY <1>1 DEF JobOK, Idle, Extra, MaxRetries

\* A call that starts satisfies JobOK; the refresh process makes refreshes and logouts.
LEMMA CallOK ==
    ASSUME NEW q \in Processes, NEW c \in Calls, q = Refresh => c \in {"refresh", "logout"}
    PROVE  JobOK(q, Call(c)) /\ Call(c).pc = "start"
<1>1. Idle \in JobState /\ ~Idle.once /\ ~Idle.again /\ Idle.retries = 0 /\ Idle.sends = 0 /\ Idle.executed = 0
  BY IdleOK DEF Idle, JobOK
<1>2. "start" \in Pcs
  BY DEF Pcs
<1>3. /\ Call(c) \in JobState /\ Call(c).pc = "start" /\ Call(c).call = c /\ ~Call(c).once /\ ~Call(c).again 
      /\ Call(c).retries = 0 /\ Call(c).sends = 0 /\ Call(c).executed = 0
  BY <1>1, <1>2 DEF Call, JobState
<1> QED
  BY <1>3 DEF JobOK, Extra, MaxRetries

\* A call that waits, sleeps or is looked at, and gets a header, satisfies JobOK.
LEMMA MoveOK ==
    ASSUME NEW q \in Processes, NEW r, JobOK(q, r), r.pc \notin {"flight", "done"},
           NEW x \in Pcs \ {"flight", "done"}, NEW t \in Tokens \cup {None}, x = "csrf" => r.call = "post"
    PROVE  /\ JobOK(q, Moved(r, t, x))
           /\ Moved(r, t, x).pc = x /\ Moved(r, t, x).tok = t
<1> DEFINE s == [r EXCEPT !.tok = t, !.pc = x]
<1>1. r \in JobState
  BY DEF JobOK
<1>2. s \in JobState /\ s.pc = x /\ s.tok = t /\ s.call = r.call /\ s.once = r.once /\ s.again = r.again
  BY <1>1 DEF JobState
<1>3. s.retries = r.retries /\ s.sends = r.sends /\ s.executed = r.executed
  BY <1>1 DEF JobState
<1> HIDE DEF s
<1>4. Extra(s) = Extra(r)
  BY <1>2, <1>3 DEF Extra
<1>5. JobOK(q, s)
  BY <1>1, <1>2, <1>3, <1>4 DEF JobOK
<1> QED BY <1>2, <1>5 DEF Moved, s

\* The same when the header stays.
LEMMA MovePcOK ==
    ASSUME NEW q \in Processes, NEW r, JobOK(q, r), r.pc \notin {"flight", "done"},
           NEW x \in Pcs \ {"flight", "done", "csrf"}
    PROVE  JobOK(q, MovedTo(r, x)) /\ MovedTo(r, x).pc = x
<1> DEFINE s == [r EXCEPT !.pc = x]
<1>1. r \in JobState
  BY DEF JobOK
<1>2. s \in JobState /\ s.pc = x /\ s.call = r.call /\ s.once = r.once /\ s.again = r.again
  BY <1>1 DEF JobState
<1>3. s.retries = r.retries /\ s.sends = r.sends /\ s.executed = r.executed
  BY <1>1 DEF JobState
<1> HIDE DEF s
<1>4. Extra(s) = Extra(r)
  BY <1>2, <1>3 DEF Extra
<1>5. JobOK(q, s)
  BY <1>1, <1>2, <1>3, <1>4 DEF JobOK
<1> QED BY <1>2, <1>5 DEF MovedTo, s

\* Sending it once more is the sending its flags allow.
LEMMA SendOK ==
    ASSUME NEW q \in Processes, NEW r, JobOK(q, r), r.pc \notin {"flight", "done"}, NEW t \in Tokens \cup {None}
    PROVE  /\ JobOK(q, Sent(r, t))
           /\ Sent(r, t).pc = "flight"
<1> DEFINE n == r.sends + 1
<1> DEFINE s == [r EXCEPT !.tok = t, !.pc = "flight", !.sends = n]
<1>1. r \in JobState /\ n \in Nat /\ "flight" \in Pcs /\ n = r.sends + 1
  BY DEF JobOK, JobState, Pcs
<1> HIDE DEF n
<1>2. s \in JobState /\ s.pc = "flight" /\ s.tok = t /\ s.call = r.call /\ s.once = r.once /\ s.again = r.again
  BY <1>1 DEF JobState
<1>3. s.retries = r.retries /\ s.sends = n /\ s.executed = r.executed
  BY <1>1 DEF JobState
<1> HIDE DEF s
<1>4. JobOK(q, s)
  <2>1. r.sends \in Nat /\ r.retries \in Nat /\ Extra(s) = Extra(r) /\ Extra(r) \in Nat
    <3>1. r.sends \in Nat /\ r.retries \in Nat
      BY <1>1 DEF JobState, MaxRetries
    <3>2. Extra(s) = Extra(r)
      BY <1>2, <1>3 DEF Extra
    <3> QED BY <3>1, <3>2 DEF Extra
  <2>2. r.sends <= Extra(r)
    BY <2>1 DEF JobOK
  <2>3. s.sends <= Extra(s) + 1
    BY <1>1, <1>3, <2>1, <2>2
  <2>4. s.pc = "flight" /\ s.pc # "csrf" /\ r.pc # "done"
    BY <1>2
  <2> QED BY <1>1, <1>2, <1>3, <2>3, <2>4 DEF JobOK
<1> QED BY <1>2, <1>4 DEF Sent, s, n

\* The resend with the store's token uses up `once'.
LEMMA ResendOK ==
    ASSUME NEW q \in Processes, NEW r, JobOK(q, r), r.pc = "flight", ~r.once, NEW t \in Tokens \cup {None}
    PROVE  /\ JobOK(q, Resent(r, t))
           /\ Resent(r, t).pc = "start"
<1> DEFINE s == [r EXCEPT !.once = TRUE, !.pc = "start", !.tok = t]
<1>1. r \in JobState /\ "start" \in Pcs
  BY DEF JobOK, Pcs
<1>2. s \in JobState /\ s.pc = "start" /\ s.call = r.call /\ s.once /\ s.again = r.again
  BY <1>1 DEF JobState
<1>3. s.retries = r.retries /\ s.sends = r.sends /\ s.executed = r.executed
  BY <1>1 DEF JobState
<1> HIDE DEF s
<1>4. r.sends \in Nat /\ r.retries \in Nat
  BY <1>1 DEF JobState, MaxRetries
<1>5. s.sends <= Extra(s)
  BY <1>2, <1>3, <1>4 DEF JobOK, Extra
<1>6. JobOK(q, s)
  <2>1. Extra(s) \in Nat
    BY <1>3, <1>4 DEF Extra
  <2> QED BY <1>1, <1>2, <1>3, <1>5, <2>1 DEF JobOK
<1> QED BY <1>2, <1>6 DEF Resent, s

\* The pass through the refresh uses up `again'.
LEMMA SeenOK ==
    ASSUME NEW q \in Processes, NEW r, JobOK(q, r), r.pc = "flight", ~r.again, NEW x \in {"reWait", "reRefresh"}
    PROVE  /\ JobOK(q, Seen(r, x))
           /\ Seen(r, x).pc = x
<1> DEFINE u == [r EXCEPT !.once = TRUE, !.again = TRUE]
<1> DEFINE s == [u EXCEPT !.pc = x]
<1>1. r \in JobState /\ x \in Pcs
  BY DEF JobOK, Pcs, Waiting, Refreshing
<1>2. u \in JobState /\ u.call = r.call /\ u.once /\ u.again /\ u.retries = r.retries /\ u.sends = r.sends /\ u.executed = r.executed
  BY <1>1 DEF JobState
<1> HIDE DEF u
<1>3. s \in JobState /\ s.pc = x /\ s.call = r.call /\ s.once /\ s.again
  BY <1>1, <1>2 DEF JobState
<1>4. s.retries = r.retries /\ s.sends = r.sends /\ s.executed = r.executed
  BY <1>1, <1>2 DEF JobState
<1> HIDE DEF s
<1>5. r.sends \in Nat /\ r.retries \in Nat
  BY <1>1 DEF JobState, MaxRetries
<1>6. s.sends <= Extra(s)
  BY <1>3, <1>4, <1>5 DEF JobOK, Extra
<1>7. JobOK(q, s)
  <2>1. Extra(s) \in Nat
    BY <1>4, <1>5 DEF Extra
  <2> QED BY <1>1, <1>3, <1>4, <1>6, <2>1 DEF JobOK
<1> QED BY <1>3, <1>7 DEF Seen, s, u

\* A retry is counted, and pays for the execution that was lost.
LEMMA BackoffOK ==
    ASSUME NEW q \in Processes, NEW r, JobOK(q, r), r.pc = "flight", r.retries < MaxRetries,
           NEW n \in Nat, n \in {r.executed, r.executed + 1}
    PROVE  /\ JobOK(q, Asleep(r, n))
           /\ Asleep(r, n).pc = "sleep"
<1> DEFINE m == r.retries + 1
<1> DEFINE u == [r EXCEPT !.executed = n]
<1> DEFINE s == [u EXCEPT !.pc = "sleep", !.retries = m]
<1>1. r \in JobState /\ "sleep" \in Pcs
  BY DEF JobOK, Pcs
<1>2. m \in 0..MaxRetries /\ m = r.retries + 1 /\ r.retries \in Nat /\ r.sends \in Nat /\ r.executed \in Nat
  BY <1>1 DEF JobState, MaxRetries
<1>3. u \in JobState /\ u.call = r.call /\ u.once = r.once /\ u.again = r.again /\ u.retries = r.retries /\ u.sends = r.sends /\ u.executed = n
  BY <1>1 DEF JobState
<1> HIDE DEF u, m
<1>4. s \in JobState /\ s.pc = "sleep" /\ s.call = r.call /\ s.once = r.once /\ s.again = r.again
  BY <1>1, <1>2, <1>3 DEF JobState
<1>5. s.retries = m /\ s.sends = r.sends /\ s.executed = n
  BY <1>1, <1>2, <1>3 DEF JobState
<1> HIDE DEF s
<1>6. s.sends <= Extra(s) /\ Extra(s) \in Nat
  BY <1>2, <1>4, <1>5 DEF JobOK, Extra
<1>7. JobOK(q, s)
  BY <1>1, <1>2, <1>4, <1>5, <1>6 DEF JobOK, MaxRetries
<1> QED BY <1>2, <1>3, <1>4, <1>7 DEF Asleep, s, u, m

\* A page request that is done keeps how often it was executed.
LEMMA DoneOK ==
    ASSUME NEW q \in Requests, NEW n \in Nat, n <= 1 + MaxRetries
    PROVE  /\ JobOK(q, Done(n))
           /\ Done(n).pc = "done"
<1> DEFINE s == [Idle EXCEPT !.pc = "done", !.executed = n]
<1>1. Idle \in JobState /\ "done" \in Pcs /\ ~Idle.once /\ ~Idle.again /\ Idle.retries = 0 /\ Idle.sends = 0
  BY IdleOK, Names DEF Idle, JobOK, Pcs, Processes
<1>2. s \in JobState /\ s.pc = "done" /\ ~s.once /\ ~s.again /\ s.retries = 0 /\ s.sends = 0 /\ s.executed = n
  BY <1>1 DEF JobState
<1> HIDE DEF s
<1>3. q # Refresh
  BY Names
<1>4. JobOK(q, s)
  BY <1>2, <1>3 DEF JobOK, Extra
<1> QED BY <1>2, <1>4 DEF Done, s

-----------------------------------------------------------------------------
\* The functions `job' can be, and the places a call holds isRefreshing at.
Jobs == {j \in [Processes -> JobState] : \A q \in Processes : JobOK(q, j[q])}
Owning == Refreshing \cup Settling

\* The header of a call is a token or none.
LEMMA HeaderType ==
    ASSUME job \in Jobs, NEW p \in Processes, NEW cur \in Tokens \cup {None}
    PROVE  Header(p, cur) \in Tokens \cup {None}
BY DEF Header, Jobs, JobState

\* Dispatch sends one call or makes it wait for the CSRF token.
LEMMA DispatchJobs ==
    ASSUME job \in Jobs, NEW j \in Jobs, NEW p \in Processes, NEW cur \in Tokens \cup {None},
           j[p] = job[p], job[p].pc \notin {"flight", "done"}
    PROVE  /\ Dispatch(j, p, cur) \in Jobs
           /\ Dispatch(j, p, cur)[p].pc \in {"csrf", "flight"}
           /\ \A q \in Processes \ {p} : Dispatch(j, p, cur)[q] = j[q]
<1> DEFINE r == IF LacksCSRF(p) THEN Moved(j[p], Header(p, cur), "csrf") ELSE Sent(j[p], Header(p, cur))
<1>1. Header(p, cur) \in Tokens \cup {None} /\ JobOK(p, j[p])
  BY HeaderType DEF Jobs
<1>2. "csrf" \in Pcs \ {"flight", "done"} /\ (LacksCSRF(p) => j[p].call = "post")
  BY DEF LacksCSRF, Pcs
<1>3. JobOK(p, r) /\ r.pc \in {"csrf", "flight"}
  BY <1>1, <1>2, MoveOK, SendOK
<1>4. Dispatch(j, p, cur) = [j EXCEPT ![p] = r]
  BY DEF Dispatch, Moved, Sent
<1> HIDE DEF r
<1> QED BY <1>3, <1>4 DEF Jobs, JobOK

\* WakeSubscribers moves the waiting calls and no other.
LEMMA WakeJobs ==
    ASSUME job \in Jobs
    PROVE  /\ WakeSubscribers(job) \in Jobs
           /\ \A q \in Processes :
                 IF job[q].pc \in Waiting THEN WakeSubscribers(job)[q].pc \in {"woken", "start"}
                 ELSE WakeSubscribers(job)[q] = job[q]
<1>1. ASSUME NEW q \in Processes
      PROVE  /\ JobOK(q, WakeSubscribers(job)[q])
             /\ IF job[q].pc \in Waiting THEN WakeSubscribers(job)[q].pc \in {"woken", "start"}
                ELSE WakeSubscribers(job)[q] = job[q]
  <2>1. JobOK(q, job[q])
    BY DEF Jobs
  <2>2. WakeSubscribers(job)[q] = IF job[q].pc = "preWait" THEN MovedTo(job[q], "woken")
                                  ELSE IF job[q].pc = "reWait" THEN MovedTo(job[q], "start") ELSE job[q]
    BY DEF WakeSubscribers, MovedTo
  <2>3. {"woken", "start"} \subseteq Pcs \ {"flight", "done", "csrf"}
    BY DEF Pcs
  <2> QED BY <2>1, <2>2, <2>3, MovePcOK DEF Waiting
<1>2. WakeSubscribers(job) \in [Processes -> JobState]
  BY <1>1 DEF WakeSubscribers, JobOK
<1> QED BY <1>1, <1>2 DEF Jobs

\* RefreshSettled idles the refresh and moves its caller on.
LEMMA RefreshSettledJobs ==
    ASSUME job \in Jobs
    PROVE  /\ RefreshSettled(job) \in Jobs
           /\ RefreshSettled(job)[Refresh] = Idle
           /\ \A q \in Processes \ {Refresh} :
                 IF job[q].pc \in Refreshing THEN RefreshSettled(job)[q].pc \in Settling
                 ELSE RefreshSettled(job)[q] = job[q]
<1>1. ASSUME NEW q \in Processes \ {Refresh}
      PROVE  /\ JobOK(q, RefreshSettled(job)[q])
             /\ IF job[q].pc \in Refreshing THEN RefreshSettled(job)[q].pc \in Settling
                ELSE RefreshSettled(job)[q] = job[q]
  <2>1. JobOK(q, job[q])
    BY DEF Jobs
  <2>2. RefreshSettled(job)[q] = IF job[q].pc = "preRefresh" THEN MovedTo(job[q], "preSettle")
                                 ELSE IF job[q].pc = "reRefresh" THEN MovedTo(job[q], "reSettle") ELSE job[q]
    BY DEF RefreshSettled, MovedTo
  <2>3. Settling \subseteq Pcs \ {"flight", "done", "csrf"} /\ Settling = {"preSettle", "reSettle"}
    BY DEF Pcs, Settling
  <2> QED BY <2>1, <2>2, <2>3, MovePcOK DEF Refreshing
<1>2. RefreshSettled(job)[Refresh] = Idle /\ JobOK(Refresh, Idle)
  BY Names, IdleOK DEF RefreshSettled
<1>3. RefreshSettled(job) \in [Processes -> JobState]
  BY <1>1, <1>2 DEF RefreshSettled, JobOK
<1> QED BY <1>1, <1>2, <1>3 DEF Jobs

\* Settle ends the call of a page request, and idles the user.
LEMMA SettleJobs ==
    ASSUME job \in Jobs, NEW p \in Processes, job[p].pc \in {"flight", "csrf"}, NEW ran \in BOOLEAN
    PROVE  /\ Settle(Executed(job, p, ran), p) \in Jobs
           /\ Settle(Executed(job, p, ran), p)[p].pc \in {"idle", "done"}
           /\ \A q \in Processes \ {p} : Settle(Executed(job, p, ran), p)[q] = job[q]
<1> DEFINE j == Executed(job, p, ran)
           n == IF ran THEN job[p].executed + 1 ELSE job[p].executed
           r == IF p \in Requests THEN Done(n) ELSE Idle
<1>1. JobOK(p, job[p]) /\ job[p].executed \in Nat /\ job[p].retries \in 0..MaxRetries
  BY DEF Jobs, JobOK, JobState
<1>2. n \in Nat /\ (p \in Requests => n <= 1 + MaxRetries)
  BY <1>1 DEF JobOK, MaxRetries
<1>3. j[p].executed = n /\ \A q \in Processes \ {p} : j[q] = job[q]
  BY DEF Executed, Jobs, JobState
<1>4. j \in [Processes -> JobState]
  BY <1>1, <1>2 DEF Executed, Jobs, JobState
<1> HIDE DEF n, j
<1>5. JobOK(p, r) /\ r.pc \in {"idle", "done"}
  BY <1>2, IdleOK, DoneOK DEF Idle
<1>6. Settle(j, p) = [j EXCEPT ![p] = r]
  BY <1>3 DEF Settle, Done
<1> HIDE DEF r
<1>7. /\ Settle(j, p) \in Jobs
      /\ Settle(j, p)[p].pc \in {"idle", "done"}
      /\ \A q \in Processes \ {p} : Settle(j, p)[q] = job[q]
  BY <1>3, <1>4, <1>5, <1>6 DEF Jobs, JobOK
<1> QED BY <1>7 DEF j

\* StartRefresh starts the call of POST /auth/refresh.
LEMMA StartRefreshJobs ==
    ASSUME NEW j \in [Processes -> JobState], NEW p \in Processes \ {Refresh}, NEW pc \in Refreshing,
           JobOK(p, MovedTo(j[p], pc)), MovedTo(j[p], pc).pc = pc,
           \A q \in Processes \ {p} : JobOK(q, j[q])
    PROVE  /\ StartRefresh(j, p, pc) \in Jobs
           /\ StartRefresh(j, p, pc)[p].pc = pc
           /\ StartRefresh(j, p, pc)[Refresh].pc = "start"
           /\ \A q \in Processes \ {p, Refresh} : StartRefresh(j, p, pc)[q] = j[q]
<1> DEFINE c == Call("refresh")
           r == MovedTo(j[p], pc)
<1>1. JobOK(Refresh, c) /\ c.pc = "start"
  BY Names, CallOK DEF Calls
<1>2. StartRefresh(j, p, pc) = [j EXCEPT ![p] = r, ![Refresh] = c]
  BY DEF StartRefresh, MovedTo
<1> HIDE DEF c, r
<1>3. JobOK(p, r) /\ r.pc = pc
  BY DEF r
<1> QED BY <1>1, <1>2, <1>3, Names DEF Jobs, JobOK

-----------------------------------------------------------------------------
(***************************************************************************)
(* Who holds isRefreshing.                                                 *)
(***************************************************************************)

\* The flag is up exactly while one process holds it, which is never the refresh itself,
\* and the refresh is under way exactly while its caller awaits it.
OneOwner ==
    /\ isRefreshing => \E p \in Processes : job[p].pc \in Owning
    /\ \A p, q \in Processes : job[p].pc \in Owning /\ job[q].pc \in Owning => p = q
    /\ \A p \in Processes : job[p].pc \in Owning => isRefreshing /\ p # Refresh
    /\ job[Refresh].pc # "idle" <=> \E p \in Processes : job[p].pc \in Refreshing

\* A step in which no process takes or frees the flag.
LEMMA LocalMoves ==
    ASSUME OneOwner, WaitersHaveAWaker, isRefreshing' = isRefreshing,
           \A q \in Processes :
               \/ job'[q].pc = job[q].pc
               \/ /\ job[q].pc \notin Owning /\ job'[q].pc \notin Owning
                  /\ job'[q].pc \in Waiting => isRefreshing
                  /\ q = Refresh => job[q].pc # "idle" /\ job'[q].pc # "idle"
    PROVE  OneOwner' /\ WaitersHaveAWaker'
<1>1. \A q \in Processes : job'[q].pc \in Owning => job'[q].pc = job[q].pc
  OBVIOUS
<1>2. \A q \in Processes : job[q].pc \in Owning => job'[q].pc = job[q].pc
  OBVIOUS
<1>3. job'[Refresh].pc # "idle" <=> job[Refresh].pc # "idle"
  BY Names
<1> QED BY <1>1, <1>2, <1>3 DEF OneOwner, WaitersHaveAWaker, Owning

\* A step in which p takes the flag and starts the refresh.
LEMMA RefreshStarts ==
    ASSUME OneOwner, ~isRefreshing, isRefreshing', NEW p \in Processes \ {Refresh},
           job'[p].pc \in Refreshing, job'[Refresh].pc = "start",
           \A q \in Processes \ {p, Refresh} : job'[q].pc = job[q].pc
    PROVE  OneOwner' /\ WaitersHaveAWaker'
<1>1. \A q \in Processes : job'[q].pc \in Owning <=> q = p
  BY DEF OneOwner, Owning, Refreshing, Settling
<1> QED BY <1>1, Names DEF OneOwner, WaitersHaveAWaker, Owning

\* A step in which the refresh settles: its caller still holds the flag.
LEMMA RefreshEnds ==
    ASSUME OneOwner, WaitersHaveAWaker, isRefreshing' = isRefreshing, job[Refresh].pc # "idle",
           job'[Refresh].pc = "idle",
           \A q \in Processes \ {Refresh} :
               IF job[q].pc \in Refreshing THEN job'[q].pc \in Settling ELSE job'[q].pc = job[q].pc
    PROVE  OneOwner' /\ WaitersHaveAWaker'
<1>1. Refreshing \cap Settling = {} /\ Waiting \cap Owning = {}
  BY DEF Refreshing, Settling, Waiting, Owning
<1>2. \A q \in Processes : job'[q].pc \in Owning <=> job[q].pc \in Owning
  BY Names DEF OneOwner, Owning, Refreshing, Settling
<1>3. \A q \in Processes : job'[q].pc \notin Refreshing
  BY <1>1, <1>2 DEF OneOwner, Owning, Refreshing, Settling
<1>4. \A q \in Processes : job'[q].pc \in Waiting => job[q].pc \in Waiting
  BY <1>1 DEF Owning, Waiting
<1> QED BY <1>2, <1>3, <1>4, Names DEF OneOwner, WaitersHaveAWaker

\* A step in which the holder p frees the flag and wakes whoever waits.
LEMMA OwnerLetsGo ==
    ASSUME OneOwner, isRefreshing' = FALSE, NEW p \in Processes, job[p].pc \in Settling,
           job'[p].pc \notin Owning \cup Waiting,
           \A q \in Processes \ {p} :
               IF job[q].pc \in Waiting THEN job'[q].pc \in {"woken", "start"} ELSE job'[q].pc = job[q].pc
    PROVE  OneOwner' /\ WaitersHaveAWaker'
<1>1. \A q \in Processes : job[q].pc \in Owning => q = p
  BY DEF OneOwner, Owning
<1>2. Refreshing \cap Settling = {} /\ {"woken", "start", "idle"} \cap (Owning \cup Waiting) = {}
  BY DEF Refreshing, Settling, Waiting, Owning
<1>3. job[Refresh].pc = "idle" /\ Refresh # p
  BY <1>1, <1>2, Names DEF OneOwner, Owning
<1>4. \A q \in Processes : job'[q].pc \notin Owning \cup Waiting
  BY <1>1, <1>2
<1>5. job'[Refresh].pc = "idle"
  BY <1>2, <1>3, Names
<1> QED BY <1>3, <1>4, <1>5 DEF OneOwner, WaitersHaveAWaker, Owning

-----------------------------------------------------------------------------
(***************************************************************************)
(* Every step keeps the calls well formed and the flag owned.              *)
(***************************************************************************)

\* The part of the inductive invariant that is about the calls.
CallInv == job \in Jobs /\ OneOwner /\ WaitersHaveAWaker
TokensOK ==
    /\ store \in [token : Tokens \cup {None}, refresh : BOOLEAN]
    /\ accessToken \in Tokens \cup {None}

\* What a step makes of one call that neither holds the flag nor takes it.
LEMMA MoveOne ==
    ASSUME CallInv, NEW p \in Processes, NEW r, JobOK(p, r), job' = [job EXCEPT ![p] = r],
           isRefreshing' = isRefreshing,
           job[p].pc \notin Owning, r.pc \notin Owning, r.pc \in Waiting => isRefreshing,
           p = Refresh => job[p].pc # "idle" /\ r.pc # "idle"
    PROVE  CallInv'
<1>1. job' \in Jobs
  BY DEF CallInv, Jobs, JobOK
<1>2. job'[p] = r /\ \A q \in Processes \ {p} : job'[q] = job[q]
  BY DEF CallInv, Jobs
<1>3. OneOwner' /\ WaitersHaveAWaker'
  BY <1>2, LocalMoves DEF CallInv
<1> QED BY <1>1, <1>3 DEF CallInv

\* The places of a call, spelled out.
LEMMA PcSets ==
    /\ Owning = {"preRefresh", "reRefresh", "preSettle", "reSettle"}
    /\ Waiting = {"preWait", "reWait"} /\ Refreshing = {"preRefresh", "reRefresh"} /\ Settling = {"preSettle", "reSettle"}
    /\ Pcs = {"idle", "start", "csrf", "flight", "sleep", "woken", "done", "preWait", "reWait",
              "preRefresh", "reRefresh", "preSettle", "reSettle"}
BY DEF Owning, Waiting, Refreshing, Settling, Pcs

\* The request interceptor keeps it: it refreshes, waits, or sends.
LEMMA InterceptInv ==
    ASSUME CallInv, TokensOK, NEW p \in Processes, Intercept(p)
    PROVE  CallInv'
<1> DEFINE cur == IF store.token # None THEN store.token ELSE accessToken
<1>1. cur \in Tokens \cup {None} /\ job \in Jobs /\ JobOK(p, job[p]) /\ job[p].pc = "start"
  BY DEF TokensOK, Intercept, CallInv, Jobs
<1>h. Header(p, cur) \in Tokens \cup {None}
  BY <1>1, HeaderType
<1>2. CASE MayRefresh /\ isRefreshing' = TRUE /\ job' = StartRefresh([job EXCEPT ![p].tok = Header(p, cur)], p, "preRefresh")
  <2> DEFINE j == [job EXCEPT ![p].tok = Header(p, cur)]
  <2>1. ~isRefreshing /\ p # Refresh
    BY <1>1, <1>2 DEF MayRefresh, CallInv, OneOwner, Owning
  <2>2. MovedTo(j[p], "preRefresh") = Moved(job[p], Header(p, cur), "preRefresh")
    BY <1>1 DEF MovedTo, Moved, Jobs, JobState
  <2>3. JobOK(p, MovedTo(j[p], "preRefresh")) /\ MovedTo(j[p], "preRefresh").pc = "preRefresh"
    BY <1>1, <1>h, <2>2, MoveOK, PcSets
  <2>4. j \in [Processes -> JobState] /\ \A q \in Processes \ {p} : j[q] = job[q]
    BY <1>1, <1>h DEF Jobs, JobState
  <2>j. job' = StartRefresh(j, p, "preRefresh")
    BY <1>2
  <2> HIDE DEF j
  <2>5. \A q \in Processes \ {p} : JobOK(q, j[q])
    BY <1>1, <2>4 DEF Jobs
  <2>6. /\ job' \in Jobs /\ job'[p].pc = "preRefresh" /\ job'[Refresh].pc = "start"
        /\ \A q \in Processes \ {p, Refresh} : job'[q] = job[q]
    BY <2>j, <2>1, <2>3, <2>4, <2>5, StartRefreshJobs, PcSets
  <2>7. OneOwner' /\ WaitersHaveAWaker'
    BY <1>2, <2>1, <2>6, RefreshStarts, PcSets DEF CallInv
  <2> QED BY <2>6, <2>7 DEF CallInv
<1>3. CASE isRefreshing /\ isRefreshing' = isRefreshing
           /\ job' = [job EXCEPT ![p] = [@ EXCEPT !.pc = "preWait", !.tok = Header(p, cur)]]
  <2> DEFINE r == Moved(job[p], Header(p, cur), "preWait")
  <2>1. job' = [job EXCEPT ![p] = r]
    BY <1>3 DEF Moved
  <2>2. JobOK(p, r) /\ r.pc = "preWait"
    BY <1>1, <1>h, MoveOK, PcSets
  <2> HIDE DEF r
  <2> QED BY <1>1, <1>3, <2>1, <2>2, MoveOne, PcSets
<1>4. CASE isRefreshing' = isRefreshing /\ job' = Dispatch(job, p, cur)
  <2>1. /\ job' \in Jobs /\ job'[p].pc \in {"csrf", "flight"} /\ \A q \in Processes \ {p} : job'[q] = job[q]
    BY <1>1, <1>4, DispatchJobs
  <2>2. OneOwner' /\ WaitersHaveAWaker'
    BY <1>1, <1>4, <2>1, LocalMoves, PcSets DEF CallInv
  <2> QED BY <2>1, <2>2 DEF CallInv
<1> QED BY <1>2, <1>3, <1>4 DEF Intercept

\* A waiter that goes on keeps it.
LEMMA ResumeInv ==
    ASSUME CallInv, TokensOK, NEW p \in Processes, Resume(p)
    PROVE  CallInv'
<1>1. job \in Jobs /\ job[p].pc = "woken" /\ Reread(p) \in Tokens \cup {None}
  BY DEF TokensOK, Resume, CallInv, Jobs, JobState, Reread
<1>2. /\ job' \in Jobs /\ job'[p].pc \in {"csrf", "flight"} /\ \A q \in Processes \ {p} : job'[q] = job[q]
  BY <1>1, DispatchJobs DEF Resume
<1>3. OneOwner' /\ WaitersHaveAWaker'
  BY <1>1, <1>2, LocalMoves, PcSets DEF CallInv, Resume
<1> QED BY <1>2, <1>3 DEF CallInv

\* Both ends of a refresh, the interceptor's and the error handler's, keep it.
LEMMA FinishInv ==
    ASSUME CallInv, TokensOK, TokensOK', NEW p \in Processes, FinishProactive(p) \/ FinishReactive(p)
    PROVE  CallInv'
<1> DEFINE w == WakeSubscribers(job)
<1>1. job \in Jobs /\ job[p].pc \in Settling /\ Reread(p) \in Tokens \cup {None} /\ isRefreshing' = FALSE
  BY PcSets DEF TokensOK, FinishProactive, FinishReactive, CallInv, Jobs, JobState, Reread
<1>2. /\ w \in Jobs /\ w[p] = job[p]
      /\ \A q \in Processes : IF job[q].pc \in Waiting THEN w[q].pc \in {"woken", "start"} ELSE w[q] = job[q]
  BY <1>1, WakeJobs, PcSets
<1>3. /\ job' \in Jobs /\ job'[p].pc \in {"csrf", "flight", "start"} /\ \A q \in Processes \ {p} : job'[q] = w[q]
  <2>1. CASE FinishProactive(p)
    BY <1>1, <1>2, <2>1, DispatchJobs, PcSets DEF FinishProactive
  <2>2. CASE FinishReactive(p)
    <3> DEFINE r == Moved(w[p], Header(p, accessToken'), "start")
    <3>1. job' = [w EXCEPT ![p] = r]
      BY <2>2 DEF FinishReactive, Moved
    <3>2. JobOK(p, w[p]) /\ w[p].pc \in Settling /\ Header(p, accessToken') \in Tokens \cup {None}
      BY <1>1, <1>2, HeaderType DEF Jobs, TokensOK
    <3>3. JobOK(p, r) /\ r.pc = "start"
      BY <3>2, MoveOK, PcSets
    <3> HIDE DEF r, w
    <3> QED BY <1>2, <3>1, <3>3 DEF Jobs, JobOK
  <2> QED BY <2>1, <2>2
<1>4. OneOwner' /\ WaitersHaveAWaker'
  BY <1>1, <1>2, <1>3, OwnerLetsGo, PcSets DEF CallInv
<1> QED BY <1>3, <1>4 DEF CallInv

\* The end of a call, good or bad; `ran' is whether the server has executed it.
LEMMA EndInv ==
    ASSUME CallInv, NEW p \in Processes, job[p].pc = "flight", isRefreshing' = isRefreshing, NEW ran \in BOOLEAN,
           job' = IF p = Refresh THEN RefreshSettled(job) ELSE Settle(Executed(job, p, ran), p)
    PROVE  CallInv'
<1>1. CASE p = Refresh
  <2>1. /\ job' \in Jobs /\ job'[Refresh].pc = "idle"
        /\ \A q \in Processes \ {Refresh} :
              IF job[q].pc \in Refreshing THEN job'[q].pc \in Settling ELSE job'[q] = job[q]
    BY <1>1, RefreshSettledJobs DEF CallInv, Idle
  <2>2. OneOwner' /\ WaitersHaveAWaker'
    BY <1>1, <2>1, RefreshEnds DEF CallInv
  <2> QED BY <2>1, <2>2 DEF CallInv
<1>2. CASE p # Refresh
  <2>1. job' \in Jobs /\ job'[p].pc \in {"idle", "done"} /\ \A q \in Processes \ {p} : job'[q] = job[q]
    BY <1>2, SettleJobs DEF CallInv
  <2>2. OneOwner' /\ WaitersHaveAWaker'
    BY <1>2, <2>1, LocalMoves, PcSets DEF CallInv
  <2> QED BY <2>1, <2>2 DEF CallInv
<1> QED BY <1>1, <1>2

\* A call that fails for good keeps it.
LEMMA FailInv ==
    ASSUME CallInv, NEW p \in Processes, job[p].pc = "flight", isRefreshing' = isRefreshing, Fail(p)
    PROVE  CallInv'
BY EndInv DEF Fail, Executed

\* A success keeps it.
LEMMA AnswerOKInv ==
    ASSUME CallInv, NEW p \in Processes, AnswerOK(p)
    PROVE  CallInv'
<1> DEFINE ran == job[p].call = "post"
<1>1. ran \in BOOLEAN /\ job[p].pc = "flight" /\ isRefreshing' = isRefreshing
      /\ job' = IF p = Refresh THEN RefreshSettled(job) ELSE Settle(Executed(job, p, ran), p)
  BY DEF AnswerOK
<1> HIDE DEF ran
<1> QED BY <1>1, EndInv

\* A lost answer keeps it, retried or given up.
LEMMA AnswerTransientInv ==
    ASSUME CallInv, NEW p \in Processes, AnswerTransient(p)
    PROVE  CallInv'
<1>1. PICK ran \in {FALSE, job[p].call = "post" /\ Valid(job[p].tok)} :
        job' = IF MayRetry(p) THEN Backoff(Executed(job, p, ran), p)
               ELSE IF p = Refresh THEN RefreshSettled(Executed(job, p, ran)) ELSE Settle(Executed(job, p, ran), p)
  BY DEF AnswerTransient
<1>2. job \in Jobs /\ JobOK(p, job[p]) /\ job[p].executed \in Nat /\ ran \in BOOLEAN /\ job[p].pc = "flight"
  BY DEF CallInv, Jobs, JobState, AnswerTransient
<1>3. isRefreshing' = isRefreshing
  BY DEF AnswerTransient
<1>4. CASE MayRetry(p)
  <2> DEFINE n == IF ran THEN job[p].executed + 1 ELSE job[p].executed
             r == Asleep(job[p], n)
  <2>1. n \in Nat /\ n \in {job[p].executed, job[p].executed + 1} /\ job[p].retries < MaxRetries
    BY <1>2, <1>4 DEF MayRetry
  <2>2. job' = [job EXCEPT ![p] = r]
    BY <1>1, <1>2, <1>4 DEF Backoff, Executed, Asleep, Jobs, JobState
  <2> HIDE DEF n
  <2>3. JobOK(p, r) /\ r.pc = "sleep"
    BY <1>2, <2>1, BackoffOK
  <2> HIDE DEF r
  <2> QED BY <1>2, <1>3, <2>2, <2>3, MoveOne, PcSets
<1>5. CASE ~MayRetry(p)
  <2>1. p = Refresh => ran = FALSE
    BY <1>2 DEF JobOK
  <2>2. job' = IF p = Refresh THEN RefreshSettled(job) ELSE Settle(Executed(job, p, ran), p)
    BY <1>1, <1>5, <2>1 DEF Executed
  <2> QED BY <1>2, <1>3, <2>2, EndInv
<1> QED BY <1>4, <1>5

\* The circuit breaker's logout keeps it.
LEMMA AnswerBreakerInv ==
    ASSUME CallInv, NEW p \in Processes, AnswerBreaker(p)
    PROVE  CallInv'
<1> DEFINE r == Call("logout")
<1>1. job' = [job EXCEPT ![p] = r] /\ isRefreshing' = isRefreshing /\ job[p].pc = "flight"
  BY DEF AnswerBreaker, Rejected
<1>2. JobOK(p, r) /\ r.pc = "start"
  BY CallOK DEF Calls
<1> HIDE DEF r
<1> QED BY <1>1, <1>2, MoveOne, PcSets

\* The resend after a first 401 keeps it.
LEMMA AnswerResendInv ==
    ASSUME CallInv, TokensOK, NEW p \in Processes, AnswerResend(p)
    PROVE  CallInv'
<1> DEFINE r == Resent(job[p], Header(p, store.token))
<1>1. job' = [job EXCEPT ![p] = r] /\ isRefreshing' = isRefreshing /\ job[p].pc = "flight"
  BY DEF AnswerResend, Rejected, Resent
<1>2. Header(p, store.token) \in Tokens \cup {None} /\ JobOK(p, job[p]) /\ ~job[p].once
  BY HeaderType DEF CallInv, TokensOK, AnswerResend, Resends, Jobs
<1>3. JobOK(p, r) /\ r.pc = "start"
  BY <1>1, <1>2, ResendOK
<1> HIDE DEF r
<1> QED BY <1>1, <1>3, MoveOne, PcSets

\* The refresh after a second 401 keeps it, started or waited for.
LEMMA AnswerRefreshInv ==
    ASSUME CallInv, NEW p \in Processes, AnswerRefresh(p)
    PROVE  CallInv'
<1> DEFINE seen == [job EXCEPT ![p] = [@ EXCEPT !.once = TRUE, !.again = TRUE]]
<1>1. job \in Jobs /\ JobOK(p, job[p]) /\ job[p].pc = "flight" /\ ~job[p].again
  BY DEF AnswerRefresh, Rejected, CallInv, Jobs
<1>2. seen \in [Processes -> JobState] /\ \A q \in Processes \ {p} : seen[q] = job[q]
  BY <1>1 DEF Jobs, JobState
<1>3. CASE MayRefresh /\ isRefreshing' = TRUE /\ job' = StartRefresh(seen, p, "reRefresh")
  <2>1. ~isRefreshing /\ p # Refresh
    BY <1>1, <1>3 DEF MayRefresh, CallInv, OneOwner, Owning
  <2>2. MovedTo(seen[p], "reRefresh") = Seen(job[p], "reRefresh")
    BY <1>1 DEF MovedTo, Seen, Jobs
  <2>3. JobOK(p, MovedTo(seen[p], "reRefresh")) /\ MovedTo(seen[p], "reRefresh").pc = "reRefresh"
    BY <1>1, <2>2, SeenOK
  <2>4. job' = StartRefresh(seen, p, "reRefresh")
    BY <1>3
  <2> HIDE DEF seen
  <2>5. \A q \in Processes \ {p} : JobOK(q, seen[q])
    BY <1>1, <1>2 DEF Jobs
  <2>6. /\ job' \in Jobs /\ job'[p].pc = "reRefresh" /\ job'[Refresh].pc = "start"
        /\ \A q \in Processes \ {p, Refresh} : job'[q] = job[q]
    BY <1>2, <2>1, <2>3, <2>4, <2>5, StartRefreshJobs, PcSets
  <2>7. OneOwner' /\ WaitersHaveAWaker'
    BY <1>3, <2>1, <2>6, RefreshStarts, PcSets DEF CallInv
  <2> QED BY <2>6, <2>7 DEF CallInv
<1>4. CASE isRefreshing /\ isRefreshing' = isRefreshing /\ job' = [seen EXCEPT ![p].pc = "reWait"]
  <2> DEFINE r == Seen(job[p], "reWait")
  <2>1. job' = [job EXCEPT ![p] = r]
    BY <1>1, <1>4 DEF Seen, Jobs
  <2>2. JobOK(p, r) /\ r.pc = "reWait"
    BY <1>1, SeenOK
  <2> HIDE DEF r
  <2> QED BY <1>1, <1>4, <2>1, <2>2, MoveOne, PcSets
<1> QED BY <1>3, <1>4 DEF AnswerRefresh

\* The end of the back-off keeps it.
LEMMA RetryInv ==
    ASSUME CallInv, NEW p \in Processes, Retry(p)
    PROVE  CallInv'
<1> DEFINE r == MovedTo(job[p], "start")
<1>1. job' = [job EXCEPT ![p] = r] /\ isRefreshing' = isRefreshing /\ job[p].pc = "sleep" /\ JobOK(p, job[p])
  BY DEF Retry, MovedTo, CallInv, Jobs
<1>2. JobOK(p, r) /\ r.pc = "start"
  BY <1>1, MovePcOK, PcSets
<1> HIDE DEF r
<1> QED BY <1>1, <1>2, MoveOne, PcSets

\* A page's new request keeps it.
LEMMA BeginInv ==
    ASSUME CallInv, NEW p \in Requests, Begin(p)
    PROVE  CallInv'
<1> DEFINE r == Call(CallOf[p])
<1>1. job' = [job EXCEPT ![p] = r] /\ isRefreshing' = isRefreshing /\ job[p].pc = "idle" /\ p \in Processes /\ p # Refresh
  BY Names DEF Begin, Processes
<1>2. JobOK(p, r) /\ r.pc = "start"
  BY <1>1, CallOK, ApiAssumption DEF Calls
<1> HIDE DEF r
<1> QED BY <1>1, <1>2, MoveOne, PcSets

\* A login or a logout keeps it.
LEMMA UserActsInv ==
    ASSUME CallInv, UserActs
    PROVE  CallInv'
<1>1. PICK c \in {"login", "logout"} : job' = [job EXCEPT ![User] = Call(c)]
  BY DEF UserActs
<1> DEFINE r == Call(c)
<1>2. job' = [job EXCEPT ![User] = r] /\ isRefreshing' = isRefreshing /\ job[User].pc = "idle" /\ User \in Processes /\ User # Refresh
  BY <1>1, Names DEF UserActs
<1>3. JobOK(User, r) /\ r.pc = "start"
  BY <1>2, CallOK DEF Calls
<1> HIDE DEF r
<1> QED BY <1>2, <1>3, MoveOne, PcSets

\* The CSRF fetch, which moves every request that waits for it, keeps it.
LEMMA CSRFFetchedInv ==
    ASSUME CallInv, CSRFFetched
    PROVE  CallInv'
<1>1. PICK got \in BOOLEAN :
        job' = [p \in Processes |->
                  IF job[p].pc # "csrf" THEN job[p]
                  ELSE IF got THEN [job[p] EXCEPT !.pc = "flight", !.sends = @ + 1]
                  ELSE Settle(job, p)[p]]
  BY DEF CSRFFetched
<1>2. ASSUME NEW q \in Processes
      PROVE  /\ JobOK(q, job'[q])
             /\ job[q].pc # "csrf" => job'[q] = job[q]
             /\ job[q].pc = "csrf" => job'[q].pc \in {"flight", "idle", "done"} /\ q # Refresh
  <2>1. JobOK(q, job[q]) /\ job[q].tok \in Tokens \cup {None}
    BY DEF CallInv, Jobs, JobState
  <2>2. CASE job[q].pc # "csrf"
    BY <1>1, <2>1, <2>2
  <2>3. CASE job[q].pc = "csrf" /\ got
    <3>1. job'[q] = Sent(job[q], job[q].tok)
      BY <1>1, <2>1, <2>3 DEF Sent, JobOK, JobState
    <3> QED BY <2>1, <2>3, <3>1, SendOK DEF JobOK
  <2>4. CASE job[q].pc = "csrf" /\ ~got
    <3>1. job'[q] = Settle(Executed(job, q, FALSE), q)[q]
      BY <1>1, <2>4 DEF Executed
    <3>2. Settle(Executed(job, q, FALSE), q) \in Jobs /\ job'[q].pc \in {"idle", "done"}
      BY <2>4, <3>1, SettleJobs DEF CallInv
    <3> QED BY <2>1, <2>4, <3>1, <3>2 DEF JobOK, Jobs
  <2> QED BY <2>2, <2>3, <2>4
<1>3. job' \in Jobs
  BY <1>1, <1>2 DEF Jobs, JobOK
<1>4. OneOwner' /\ WaitersHaveAWaker'
  BY <1>2, LocalMoves, PcSets DEF CallInv, CSRFFetched
<1> QED BY <1>3, <1>4 DEF CallInv

-----------------------------------------------------------------------------
(***************************************************************************)
(* The three homes of the token.                                           *)
(***************************************************************************)

\* The tokens' part and the rest of the inductive invariant.
TokenInv ==
    /\ store \in [token : Tokens \cup {None}, refresh : BOOLEAN]
    /\ TokensAgree

RestOK ==
    /\ isRefreshing \in BOOLEAN /\ failures \in Nat /\ csrf \in BOOLEAN /\ csrfFetching \in BOOLEAN
    /\ age \in [Tokens -> {"unissued", "fresh", "expiring", "expired"}]
    /\ honoured \in BOOLEAN
    /\ acts \in 0..MaxLogins

IInv == CallInv /\ TokenInv /\ RestOK

\* authStore writes all three homes at once.
LEMMA SetSessionInv ==
    ASSUME NEW t \in Tokens \cup {None}, SetSession(t)
    PROVE  TokenInv'
BY DEF SetSession, Session, TokenInv, TokensAgree

\* A failed call leaves the session or clears it whole.
LEMMA FailTokens ==
    ASSUME TokenInv, NEW p \in Processes, Fail(p)
    PROVE  TokenInv'
<1>1. CASE job[p].call \in {"refresh", "logout"}
  BY <1>1, SetSessionInv DEF Fail
<1>2. CASE job[p].call \notin {"refresh", "logout"}
  BY <1>2 DEF Fail, session, TokenInv, TokensAgree
<1> QED BY <1>1, <1>2

\* No step of a call lets the homes part.
LEMMA StepTokens ==
    ASSUME TokenInv, NEW p \in Processes, Step(p)
    PROVE  TokenInv'
<1>1. CASE Intercept(p) \/ Resume(p) \/ FinishProactive(p) \/ FinishReactive(p)
  <2>1. store' = store /\ persisted' = persisted
    BY <1>1 DEF Intercept, Resume, FinishProactive, FinishReactive
  <2>2. accessToken' = accessToken
    BY <1>1 DEF Intercept, Resume, FinishProactive, FinishReactive, TokenInv, TokensAgree
  <2> QED BY <2>1, <2>2 DEF TokenInv, TokensAgree
<1>2. CASE AnswerOK(p)
  <2>1. CASE job[p].call \in {"login", "refresh"}
    BY <1>2, <2>1, SetSessionInv DEF AnswerOK
  <2>2. CASE job[p].call = "logout"
    BY <1>2, <2>2, SetSessionInv DEF AnswerOK
  <2>3. CASE job[p].call \notin {"login", "refresh", "logout"}
    BY <1>2, <2>3 DEF AnswerOK, session, TokenInv, TokensAgree
  <2> QED BY <2>1, <2>2, <2>3
<1>3. CASE AnswerBreaker(p) \/ AnswerResend(p) \/ AnswerRefresh(p) \/ Retry(p)
  BY <1>3 DEF AnswerBreaker, AnswerResend, AnswerRefresh, Retry, Rejected, session, TokenInv, TokensAgree
<1>4. CASE AnswerUnauthorized(p) \/ AnswerError(p)
  BY <1>4, FailTokens DEF AnswerUnauthorized, AnswerError
<1>5. CASE AnswerTransient(p)
  <2>1. UNCHANGED session \/ SetSession(None)
    BY <1>5 DEF AnswerTransient
  <2>2. CASE UNCHANGED session
    BY <2>2 DEF session, TokenInv, TokensAgree
  <2> QED BY <2>1, <2>2, SetSessionInv
<1> QED BY <1>1, <1>2, <1>3, <1>4, <1>5 DEF Step

\* The remaining variables keep their types.
LEMMA StepRest ==
    ASSUME RestOK, NEW p \in Processes, Step(p)
    PROVE  RestOK'
<1> USE DEF RestOK
<1>1. CASE Intercept(p) \/ Resume(p) \/ FinishProactive(p)
  BY <1>1 DEF Intercept, Resume, FinishProactive, FetchesCSRF
<1>2. CASE FinishReactive(p) \/ Retry(p) \/ AnswerTransient(p) \/ AnswerError(p)
  BY <1>2 DEF FinishReactive, Retry, AnswerTransient, AnswerError
<1>3. CASE AnswerOK(p)
  <2>1. age' \in [Tokens -> {"unissued", "fresh", "expiring", "expired"}]
    BY <1>3 DEF AnswerOK, Issue
  <2> QED BY <1>3, <2>1 DEF AnswerOK, KeepCSRF
<1>4. CASE AnswerBreaker(p) \/ AnswerResend(p) \/ AnswerRefresh(p) \/ AnswerUnauthorized(p)
  <2>1. /\ failures' = Counted(p) /\ KeepCSRF(p)
        /\ UNCHANGED <<csrfFetching, age, honoured, acts>>
    BY <1>4 DEF AnswerBreaker, AnswerResend, AnswerRefresh, AnswerUnauthorized, Rejected
  <2>2. isRefreshing' \in BOOLEAN
    BY <1>4 DEF AnswerBreaker, AnswerResend, AnswerRefresh, AnswerUnauthorized
  <2> QED BY <2>1, <2>2 DEF Counted, KeepCSRF
<1> QED BY <1>1, <1>2, <1>3, <1>4 DEF Step

-----------------------------------------------------------------------------
\* The inductive invariant holds when the module is loaded.
LEMMA InitInv == Init => IInv
<1> SUFFICES ASSUME Init PROVE IInv
  OBVIOUS
<1>1. PICK t \in {None, 1}, a \in {"fresh", "expiring", "expired"} : Hydrate(t, a)
  BY DEF Init
<1>2. t \in Tokens \cup {None}
  BY ApiAssumption DEF Tokens
<1>3. \A q \in Processes : job[q] = Idle
  BY DEF Init
<1>4. job \in Jobs
  BY <1>3, IdleOK DEF Init, Jobs, JobOK
<1>5. Idle.pc \notin Owning \cup Waiting /\ Idle.pc = "idle"
  BY DEF Idle, Owning, Waiting, Refreshing, Settling
<1>6. OneOwner /\ WaitersHaveAWaker
  BY <1>3, <1>5, Names DEF Init, OneOwner, WaitersHaveAWaker, Owning
<1>7. TokenInv
  BY <1>1, <1>2 DEF Hydrate, Session, TokenInv, TokensAgree
<1>8. age \in [Tokens -> {"unissued", "fresh", "expiring", "expired"}]
  BY <1>1 DEF Hydrate
<1>9. RestOK
  <2>1. acts \in 0..MaxLogins
    BY ApiAssumption DEF Init
  <2>2. csrf \in BOOLEAN /\ honoured \in BOOLEAN /\ isRefreshing \in BOOLEAN /\ failures \in Nat /\ csrfFetching \in BOOLEAN
    BY DEF Init
  <2> QED BY <1>8, <2>1, <2>2 DEF RestOK
<1> QED BY <1>4, <1>6, <1>7, <1>9 DEF IInv, CallInv

\* Every step of the client, the server, the user and the clock keeps it.
LEMMA NextInv == IInv /\ [Next]_vars => IInv'
<1> SUFFICES ASSUME IInv, [Next]_vars PROVE IInv'
  OBVIOUS
<1>t. TokensOK
  BY DEF IInv, TokenInv, TokensAgree, TokensOK
<1>1. ASSUME NEW p \in Processes, Step(p) PROVE IInv'
  <2>1. TokenInv' /\ RestOK'
    BY <1>1, StepTokens, StepRest DEF IInv
  <2>2. TokensOK'
    BY <2>1 DEF TokenInv, TokensAgree, TokensOK
  <2>3. CallInv'
    <3>1. CASE Intercept(p)
      BY <1>t, <3>1, InterceptInv DEF IInv
    <3>2. CASE Resume(p)
      BY <1>t, <3>2, ResumeInv DEF IInv
    <3>3. CASE FinishProactive(p) \/ FinishReactive(p)
      BY <1>t, <2>2, <3>3, FinishInv DEF IInv
    <3>4. CASE AnswerOK(p)
      BY <3>4, AnswerOKInv DEF IInv
    <3>5. CASE AnswerBreaker(p)
      BY <3>5, AnswerBreakerInv DEF IInv
    <3>6. CASE AnswerResend(p)
      BY <1>t, <3>6, AnswerResendInv DEF IInv
    <3>7. CASE AnswerRefresh(p)
      BY <3>7, AnswerRefreshInv DEF IInv
    <3>8. CASE AnswerUnauthorized(p) \/ AnswerError(p)
      BY <3>8, FailInv DEF IInv, AnswerUnauthorized, AnswerError
    <3>9. CASE AnswerTransient(p)
      BY <3>9, AnswerTransientInv DEF IInv
    <3>10. CASE Retry(p)
      BY <3>10, RetryInv DEF IInv
    <3> QED BY <1>1, <3>1, <3>2, <3>3, <3>4, <3>5, <3>6, <3>7, <3>8, <3>9, <3>10 DEF Step
  <2> QED BY <2>1, <2>3 DEF IInv
<1>2. ASSUME NEW r \in Requests, Begin(r) PROVE IInv'
  <2>1. CallInv'
    BY <1>2, BeginInv DEF IInv
  <2> QED BY <1>2, <2>1 DEF Begin, session, IInv, TokenInv, TokensAgree, RestOK
<1>3. CASE CSRFFetched
  <2>1. CallInv'
    BY <1>3, CSRFFetchedInv DEF IInv
  <2> QED BY <1>3, <2>1 DEF CSRFFetched, session, IInv, TokenInv, TokensAgree, RestOK
<1>4. CASE UserActs
  <2>1. CallInv'
    BY <1>4, UserActsInv DEF IInv
  <2>2. acts' \in 0..MaxLogins
    BY <1>4, ApiAssumption DEF UserActs, IInv, RestOK
  <2> QED BY <1>4, <2>1, <2>2 DEF UserActs, session, IInv, TokenInv, TokensAgree, RestOK
<1>5. CASE Expire
  <2>1. age' \in [Tokens -> {"unissued", "fresh", "expiring", "expired"}]
    BY <1>5 DEF Expire, IInv, RestOK
  <2> QED
    BY <1>5, <2>1 DEF Expire, session, IInv, CallInv, OneOwner, WaitersHaveAWaker, Jobs, JobOK, TokenInv, TokensAgree, RestOK
<1>6. CASE UNCHANGED vars
  BY <1>6 DEF vars, IInv, CallInv, OneOwner, WaitersHaveAWaker, Jobs, JobOK, TokenInv, TokensAgree, RestOK
<1> QED BY <1>1, <1>2, <1>3, <1>4, <1>5, <1>6 DEF Next

\* So it holds always.
LEMMA Invariance == Spec => []IInv
BY InitInv, NextInv, PTL DEF Spec

\* The inductive invariant implies the properties.
LEMMA InvIsEnough == IInv => TypeOK /\ RefreshHasOneOwner /\ WaitersHaveAWaker /\ TokensAgree /\ WriteAtMostTwice /\ BoundedSends
<1> SUFFICES ASSUME IInv
             PROVE  TypeOK /\ RefreshHasOneOwner /\ WaitersHaveAWaker /\ TokensAgree /\ WriteAtMostTwice /\ BoundedSends
  OBVIOUS
<1>1. TypeOK
  BY DEF IInv, CallInv, TokenInv, TokensAgree, RestOK, TypeOK, Jobs, JobState, Pcs, Calls
<1>2. RefreshHasOneOwner
  <2> DEFINE owners == {p \in Processes : job[p].pc \in Refreshing \cup Settling}
  <2>1. CASE isRefreshing
    <3>1. PICK p \in Processes : owners = {p}
      BY <2>1 DEF IInv, CallInv, OneOwner, Owning
    <3>2. Cardinality(owners) = 1
      BY <3>1, FS_Singleton
    <3> QED BY <2>1, <3>2 DEF RefreshHasOneOwner, IInv, CallInv, OneOwner
  <2>2. CASE ~isRefreshing
    <3>1. owners = {}
      BY <2>2 DEF IInv, CallInv, OneOwner, Owning
    <3>2. Cardinality(owners) = 0
      BY <3>1, FS_EmptySet
    <3> QED BY <2>2, <3>2 DEF RefreshHasOneOwner, IInv, CallInv, OneOwner
  <2> QED BY <2>1, <2>2
<1>3. WriteAtMostTwice
  BY DEF IInv, CallInv, Jobs, JobOK, WriteAtMostTwice, Processes
<1>4. ASSUME NEW p \in Processes PROVE job[p].sends <= 4
  <2>1. JobOK(p, job[p]) /\ job[p].retries \in 0..1 /\ job[p].sends \in Nat
    BY DEF IInv, CallInv, Jobs, JobState, MaxRetries
  <2> QED BY <2>1 DEF JobOK, Extra
<1> QED BY <1>1, <1>2, <1>3, <1>4 DEF IInv, CallInv, TokenInv, BoundedSends

-----------------------------------------------------------------------------
(***************************************************************************)
(* The theorems.                                                           *)
(***************************************************************************)

\* Every variable of the session keeps its type.
THEOREM TypeCorrect == Spec => []TypeOK
BY Invariance, InvIsEnough, PTL

\* However 401s, refreshes, lost answers and logouts interleave, isRefreshing
\* is held by exactly one request, and freed by it.
THEOREM OneRefreshAtATime == Spec => []RefreshHasOneOwner
BY Invariance, InvIsEnough, PTL

\* A request that waits for a refresh waits for one that somebody will end.
THEOREM NoLostWakeUp == Spec => []WaitersHaveAWaker
BY Invariance, InvIsEnough, PTL

\* The client's copy of the token, the store's and localStorage's agree.
THEOREM TokensAgreeAlways == Spec => []TokensAgree
BY Invariance, InvIsEnough, PTL

\* A write that is sent again because its answer was lost is executed twice at most.
THEOREM WritesAreBounded == Spec => []WriteAtMostTwice
BY Invariance, InvIsEnough, PTL

\* No authentication loop: one call goes over the wire at most four times.
THEOREM SendsAreBounded == Spec => []BoundedSends
BY Invariance, InvIsEnough, PTL
=============================================================================
