------------------------------ MODULE ApiClient ------------------------------
(***************************************************************************)
(* The web client's HTTP session: the axios instance with its request and  *)
(* response interceptors (fe/src/lib/api/apiClient.ts) and the store that  *)
(* owns the tokens (fe/src/stores/authStore.ts).                           *)
(*                                                                         *)
(* JavaScript runs one piece of code at a time, so an action is the code   *)
(* between two awaits that can be outrun by an answer, a timer or a user.  *)
(* A process is a call of apiClient: one per page request, one for the     *)
(* user (login, logout) and one for POST /auth/refresh.  Every one of them *)
(* goes through the same interceptors, the refresh included.               *)
(***************************************************************************)
EXTENDS Naturals, FiniteSets

CONSTANTS
    Requests,    \* the calls the pages make
    CallOf,      \* [Requests -> {"get", "dash", "post"}]
    MaxTokens,   \* bound: access tokens the server ever issues
    MaxLogins    \* bound: logins and logouts the user makes

None == 0                       \* no access token
Tokens == 1..MaxTokens
User == "user"
Refresh == "refresh"
Processes == Requests \cup {User, Refresh}
MaxAuthFailures == 3            \* MAX_AUTH_FAILURES
MaxRetries == 1                 \* MAX_RETRIES

ASSUME ApiAssumption ==
    /\ Requests \cap {User, Refresh} = {}
    /\ CallOf \in [Requests -> {"get", "dash", "post"}]
    /\ MaxTokens \in Nat \ {0}
    /\ MaxLogins \in Nat

VARIABLES
    store,        \* authStore: the access token and whether there is a refresh token
    persisted,    \* the same two in localStorage
    accessToken,  \* apiClient's own copy of the token
    isRefreshing, \* a refresh is under way
    failures,     \* consecutiveAuthFailures
    csrf,         \* a CSRF token is in sessionStorage
    csrfFetching, \* csrfTokenInitInProgress
    job,          \* per process, the call it makes and where the call stands
    age,          \* per issued token: "fresh", "expiring" (under two minutes) or "expired"
    honoured,     \* the server still accepts the refresh token
    acts          \* logins and logouts made

vars == <<store, persisted, accessToken, isRefreshing, failures, csrf,
          csrfFetching, job, age, honoured, acts>>
session == <<store, persisted, accessToken>>

Waiting == {"preWait", "reWait"}                \* in refreshSubscribers
Refreshing == {"preRefresh", "reRefresh"}       \* awaits refreshTokenCallback
Settling == {"preSettle", "reSettle"}           \* the 100 ms after it
Idle == [pc |-> "idle", call |-> "none", tok |-> None, once |-> FALSE,
         again |-> FALSE, retries |-> 0, sends |-> 0, executed |-> 0]
Call(c) == [Idle EXCEPT !.pc = "start", !.call = c]

Issued == {t \in Tokens : age[t] # "unissued"}
Expiring(t) == t # None /\ age[t] = "expiring"
Valid(t) == t # None /\ age[t] \in {"fresh", "expiring"}
Session(t) == [token |-> t, refresh |-> t # None]

TypeOK ==
    /\ store \in [token : Tokens \cup {None}, refresh : BOOLEAN]
    /\ persisted \in [token : Tokens \cup {None}, refresh : BOOLEAN]
    /\ accessToken \in Tokens \cup {None}
    /\ isRefreshing \in BOOLEAN
    /\ failures \in Nat
    /\ csrf \in BOOLEAN /\ csrfFetching \in BOOLEAN
    /\ job \in [Processes ->
         [pc : {"idle", "start", "csrf", "flight", "sleep", "woken", "done"}
                 \cup Waiting \cup Refreshing \cup Settling,
          call : {"none", "get", "dash", "post", "refresh", "login", "logout"},
          tok : Tokens \cup {None}, once : BOOLEAN, again : BOOLEAN,
          retries : 0..MaxRetries, sends : Nat, executed : Nat]]
    /\ age \in [Tokens -> {"unissued", "fresh", "expiring", "expired"}]
    /\ honoured \in BOOLEAN
    /\ acts \in 0..MaxLogins

(* Module load: the store and apiClient are filled from localStorage, which
   holds a whole session or none.  (It never holds a refresh token alone, so
   authStore is "ready" at once, and AuthProvider has nothing to refresh.) *)
Hydrate(t, a) ==
    /\ persisted = Session(t)
    /\ store = persisted
    /\ accessToken = store.token
    /\ age = [u \in Tokens |-> IF u = t THEN a ELSE "unissued"]

Init ==
    /\ \E t \in {None, 1}, a \in {"fresh", "expiring", "expired"} : Hydrate(t, a)
    /\ isRefreshing = FALSE
    /\ failures = 0
    /\ csrf \in BOOLEAN
    /\ csrfFetching = FALSE
    /\ job = [p \in Processes |-> Idle]
    /\ honoured \in BOOLEAN
    /\ acts = 0

-----------------------------------------------------------------------------
(* Helpers on the job function: each is one piece of an interceptor. *)

\* The current token is put in the header when there is one; a resent request
\* keeps the header it had when there is none.  (The server does not look at the
\* header of a login, a refresh or a logout.)
Header(p, cur) == IF job[p].call \notin {"get", "dash", "post"} THEN None
                  ELSE IF cur # None THEN cur ELSE job[p].tok

\* The end of the request interceptor: headers, CSRF, and out it goes.
LacksCSRF(p) == job[p].call = "post" /\ ~csrf     \* the rest are GETs or exempt
Dispatch(j, p, cur) ==
    [j EXCEPT ![p] = IF LacksCSRF(p)
                     THEN [j[p] EXCEPT !.tok = Header(p, cur), !.pc = "csrf"]
                     ELSE [j[p] EXCEPT !.tok = Header(p, cur), !.pc = "flight", !.sends = @ + 1]]
FetchesCSRF(p) == csrfFetching' = (csrfFetching \/ LacksCSRF(p))

\* store.refresh(), called only when there is a refresh token.
StartRefresh(j, p, pc) ==
    [j EXCEPT ![p] = [@ EXCEPT !.pc = pc], ![Refresh] = Call("refresh")]

\* onTokenRefreshed: a request of the interceptor resolves, one of the error
\* handler is sent anew.
WakeNobody(j) == j              \* mutant
WakeSubscribers(j) ==
    [q \in Processes |->
        CASE j[q].pc = "preWait" -> [j[q] EXCEPT !.pc = "woken"]
          [] j[q].pc = "reWait"  -> [j[q] EXCEPT !.pc = "start"]
          [] OTHER -> j[q]]

\* The store's token, or what the request had when the store has none.
Reread(p) == IF store.token # None THEN store.token ELSE job[p].tok

\* The promise of the call settles: a page request is done, the user may act
\* again, and a settled logout or refresh goes on in authStore (below).
Settle(j, p) ==
    [j EXCEPT ![p] = IF p \in Requests
                     THEN [Idle EXCEPT !.pc = "done", !.executed = j[p].executed]
                     ELSE Idle]

\* Mutant: a refresh starts beside the one that runs.
MayRefreshUnguarded == store.refresh
MayRefresh == store.refresh /\ ~isRefreshing

\* A request is resent once, and retried a few times.
Resends(p) == ~job[p].once /\ store.token # None
MayRetry(p) == job[p].retries < MaxRetries
\* Mutant: a retry is not counted.
BackoffUncounted(j, p) == [j EXCEPT ![p] = [@ EXCEPT !.pc = "sleep"]]
Backoff(j, p) == [j EXCEPT ![p] = [j[p] EXCEPT !.pc = "sleep", !.retries = @ + 1]]

-----------------------------------------------------------------------------
(* The request interceptor *)

\* AuthGuard shows a page, which makes its requests, only with a token.
Begin(r) ==
    /\ job[r].pc = "idle"
    /\ store.token # None
    /\ job' = [job EXCEPT ![r] = Call(CallOf[r])]
    /\ UNCHANGED <<session, isRefreshing, failures, csrf, csrfFetching, age, honoured, acts>>

\* Take the store's token; refresh it first when it is about to expire, or wait
\* for the refresh that runs.
Intercept(p) ==
    LET cur == IF store.token # None THEN store.token ELSE accessToken IN
    /\ job[p].pc = "start"
    /\ accessToken' = cur
    /\ \/ /\ Expiring(cur) /\ MayRefresh
          /\ isRefreshing' = TRUE
          /\ job' = StartRefresh([job EXCEPT ![p].tok = Header(p, cur)], p, "preRefresh")
          /\ UNCHANGED csrfFetching
       \/ /\ Expiring(cur) /\ isRefreshing
          /\ job' = [job EXCEPT ![p] = [@ EXCEPT !.pc = "preWait", !.tok = Header(p, cur)]]
          /\ UNCHANGED <<isRefreshing, csrfFetching>>
       \/ /\ ~Expiring(cur) \/ (~store.refresh /\ ~isRefreshing)
          /\ job' = Dispatch(job, p, cur)
          /\ FetchesCSRF(p)
          /\ UNCHANGED isRefreshing
    /\ UNCHANGED <<store, persisted, failures, csrf, age, honoured, acts>>

\* A waiter of the interceptor goes on with the token the store has by now.
Resume(p) ==
    /\ job[p].pc = "woken"
    /\ accessToken' = IF store.token # None THEN store.token ELSE accessToken
    /\ job' = Dispatch(job, p, Reread(p))
    /\ FetchesCSRF(p)
    /\ UNCHANGED <<store, persisted, isRefreshing, failures, csrf, age, honoured, acts>>

\* 100 ms after the proactive refresh: the request goes on, the flag is cleared
\* and the waiters are woken, whatever came of the refresh.
FinishProactive(p) ==
    /\ job[p].pc = "preSettle"
    /\ accessToken' = IF store.token # None THEN store.token ELSE accessToken
    /\ isRefreshing' = FALSE
    /\ job' = Dispatch(WakeSubscribers(job), p, Reread(p))
    /\ FetchesCSRF(p)
    /\ UNCHANGED <<store, persisted, failures, csrf, age, honoured, acts>>

\* The one CSRF fetch that runs settles: every request that waits for it is
\* sent, or every one is rejected with 403.
CSRFFetched ==
    /\ csrfFetching
    /\ csrfFetching' = FALSE
    /\ \E got \in BOOLEAN :
         /\ csrf' = (csrf \/ got)
         /\ job' = [p \in Processes |->
              IF job[p].pc # "csrf" THEN job[p]
              ELSE IF got THEN [job[p] EXCEPT !.pc = "flight", !.sends = @ + 1]
              ELSE Settle(job, p)[p]]
    /\ UNCHANGED <<session, isRefreshing, failures, age, honoured, acts>>

-----------------------------------------------------------------------------
(* authStore *)

\* Where the caller of store.refresh stands once it has settled.
RefreshSettled(j) ==
    [q \in Processes |->
        CASE q = Refresh -> Idle
          [] q # Refresh /\ j[q].pc = "preRefresh" -> [j[q] EXCEPT !.pc = "preSettle"]
          [] q # Refresh /\ j[q].pc = "reRefresh"  -> [j[q] EXCEPT !.pc = "reSettle"]
          [] OTHER -> j[q]]

\* Mutant: the tokens of a refresh are not persisted.
SetSessionUnpersisted(t) ==
    /\ store' = Session(t)
    /\ persisted' = IF t = None THEN Session(t) ELSE persisted
    /\ accessToken' = t
SetSession(t) ==
    /\ store' = Session(t)
    /\ persisted' = Session(t)
    /\ accessToken' = t

Issue(t) == t \in Tokens \ Issued /\ age' = [age EXCEPT ![t] = "fresh"]

\* A call fails for good: a login leaves the session, a refresh clears it and
\* does not throw, a logout clears it whatever became of the call.
Fail(p) ==
    /\ IF job[p].call \in {"refresh", "logout"} THEN SetSession(None) ELSE UNCHANGED session
    /\ job' = IF p = Refresh THEN RefreshSettled(job) ELSE Settle(job, p)

\* The user logs in or out; the pages' requests run on meanwhile.
UserActs ==
    /\ acts < MaxLogins
    /\ job[User].pc = "idle"
    /\ acts' = acts + 1
    /\ \E c \in {"login", "logout"} :
         /\ (c = "login") <=> (store.token = None)
         /\ job' = [job EXCEPT ![User] = Call(c)]
    /\ UNCHANGED <<session, isRefreshing, failures, csrf, csrfFetching, age, honoured>>

-----------------------------------------------------------------------------
(* The answer: the server's, or the 10 s timeout's *)

\* What the server accepts: a live token, a live refresh token, the right
\* password; a logout always.
Accepts(p) ==
    LET c == job[p].call IN
    \/ c \in {"get", "dash", "post"} /\ Valid(job[p].tok)
    \/ c = "refresh" /\ honoured /\ Issued # Tokens
    \/ c = "login" /\ Issued # Tokens
    \/ c = "logout"
Rejects(p) ==
    LET c == job[p].call IN
    \/ c \in {"get", "dash", "post"} /\ ~Valid(job[p].tok)
    \/ c = "refresh" /\ (~honoured \/ Issued = Tokens)
    \/ c = "login"

\* The server puts a CSRF token in the answer to a GET, an error included.
KeepCSRF(p) == csrf' = (csrf \/ job[p].call \in {"get", "dash"})
Executed(j, p, ran) == IF ran THEN [j EXCEPT ![p].executed = @ + 1] ELSE j

\* Success: the failure counter is reset, a CSRF token is kept, and authStore
\* stores what a login or a refresh brought.
AnswerOK(p) ==
    /\ job[p].pc = "flight" /\ Accepts(p)
    /\ failures' = 0
    /\ KeepCSRF(p)
    /\ IF job[p].call \in {"login", "refresh"}
       THEN \E t \in Tokens : Issue(t) /\ SetSession(t)
       ELSE /\ UNCHANGED age
            /\ IF job[p].call = "logout" THEN SetSession(None) ELSE UNCHANGED session
    /\ honoured' = (honoured \/ job[p].call = "login")
    /\ job' = IF p = Refresh THEN RefreshSettled(job)
              ELSE Settle(Executed(job, p, job[p].call = "post"), p)
    /\ UNCHANGED <<isRefreshing, csrfFetching, acts>>

Counted(p) == failures + IF job[p].call = "dash" THEN 0 ELSE 1
Trips(p) == job[p].call # "dash" /\ Counted(p) >= MaxAuthFailures

Rejected(p) ==
    /\ job[p].pc = "flight" /\ Rejects(p)
    /\ failures' = Counted(p)
    /\ KeepCSRF(p)
    /\ UNCHANGED <<persisted, csrfFetching, age, honoured, acts>>

\* 401, the third in a row: log out, by a call through this same client, then
\* reject.
AnswerBreaker(p) ==
    /\ Rejected(p) /\ Trips(p)
    /\ job' = [job EXCEPT ![p] = Call("logout")]
    /\ UNCHANGED <<store, accessToken, isRefreshing>>

\* 401, the first of this request: send it once more with the store's token.
AnswerResend(p) ==
    /\ Rejected(p) /\ ~Trips(p)
    /\ Resends(p)
    /\ job' = [job EXCEPT ![p] = [@ EXCEPT !.once = TRUE, !.pc = "start", !.tok = Header(p, store.token)]]
    /\ accessToken' = store.token
    /\ UNCHANGED <<store, isRefreshing>>

\* 401 again: refresh, or wait for the refresh that runs; a request that has
\* been through this once, or has no refresh token, fails.
AnswerRefresh(p) ==
    LET seen == [job EXCEPT ![p] = [@ EXCEPT !.once = TRUE, !.again = TRUE]] IN
    /\ Rejected(p) /\ ~Trips(p)
    /\ ~Resends(p)
    /\ ~job[p].again
    /\ \/ /\ MayRefresh
          /\ isRefreshing' = TRUE
          /\ job' = StartRefresh(seen, p, "reRefresh")
       \/ /\ isRefreshing
          /\ job' = [seen EXCEPT ![p].pc = "reWait"]
          /\ UNCHANGED isRefreshing
    /\ UNCHANGED <<store, accessToken>>

AnswerUnauthorized(p) ==
    /\ job[p].pc = "flight" /\ Rejects(p) /\ ~Trips(p)
    /\ ~Resends(p)
    /\ job[p].again \/ (~store.refresh /\ ~isRefreshing)
    /\ failures' = Counted(p)
    /\ KeepCSRF(p)
    /\ Fail(p)
    /\ UNCHANGED <<isRefreshing, csrfFetching, age, honoured, acts>>

\* 100 ms after the reactive refresh: the request is sent anew with the token
\* there is, the flag is cleared and the waiters are woken.
FinishReactive(p) ==
    /\ job[p].pc = "reSettle"
    /\ accessToken' = IF store.token # None THEN store.token ELSE accessToken
    /\ isRefreshing' = FALSE
    /\ job' = [WakeSubscribers(job) EXCEPT
                 ![p] = [@ EXCEPT !.pc = "start", !.tok = Header(p, accessToken')]]
    /\ UNCHANGED <<store, persisted, failures, csrf, csrfFetching, age, honoured, acts>>

\* isRetryableError: no answer, or 408, 502, 503, 504 (a read also 500).
\* The server may have executed the request all the same.
AnswerTransient(p) ==
    /\ job[p].pc = "flight"
    /\ \E ran \in {FALSE, job[p].call = "post" /\ Valid(job[p].tok)} :
         LET j == Executed(job, p, ran) IN
         IF MayRetry(p)
         THEN /\ job' = Backoff(j, p)
              /\ UNCHANGED session
         ELSE /\ IF job[p].call \in {"refresh", "logout"} THEN SetSession(None) ELSE UNCHANGED session
              /\ job' = IF p = Refresh THEN RefreshSettled(j) ELSE Settle(j, p)
    /\ UNCHANGED <<isRefreshing, failures, csrf, csrfFetching, age, honoured, acts>>

\* Any other error (4xx, 429, a write's 500) is passed on as an ApiError.
AnswerError(p) ==
    /\ job[p].pc = "flight"
    /\ Fail(p)
    /\ UNCHANGED <<isRefreshing, failures, csrf, csrfFetching, age, honoured, acts>>

Retry(p) ==
    /\ job[p].pc = "sleep"
    /\ job' = [job EXCEPT ![p].pc = "start"]
    /\ UNCHANGED <<session, isRefreshing, failures, csrf, csrfFetching, age, honoured, acts>>

-----------------------------------------------------------------------------
(* The clock and the server *)

InUse == ({store.token} \cup {job[p].tok : p \in Processes}) \ {None}
Expire ==
    /\ \E t \in InUse :
         \/ age[t] = "fresh" /\ age' = [age EXCEPT ![t] = "expiring"]
         \/ age[t] = "expiring" /\ age' = [age EXCEPT ![t] = "expired"]
    /\ UNCHANGED <<session, isRefreshing, failures, csrf, csrfFetching, job, honoured, acts>>

Step(p) ==
    \/ Intercept(p) \/ Resume(p) \/ FinishProactive(p) \/ FinishReactive(p)
    \/ AnswerOK(p) \/ AnswerBreaker(p) \/ AnswerResend(p) \/ AnswerRefresh(p)
    \/ AnswerUnauthorized(p) \/ AnswerTransient(p) \/ AnswerError(p) \/ Retry(p)

Next ==
    \/ \E r \in Requests : Begin(r)
    \/ \E p \in Processes : Step(p)
    \/ CSRFFetched
    \/ UserActs
    \/ Expire

\* An answer, a timeout or a timer comes for whatever waits for one; nothing
\* makes the user act, a page ask, or a token expire.
Fairness == WF_vars(CSRFFetched) /\ \A p \in Processes : WF_vars(Step(p))

Spec == Init /\ [][Next]_vars /\ Fairness
-----------------------------------------------------------------------------
(* Properties *)

\* isRefreshing is held by exactly one request, from before its refresh starts
\* until after the waiters are woken, and never leaks: not on a failed refresh,
\* not when the circuit breaker logs out in the middle of one.
RefreshHasOneOwner ==
    LET owners == {p \in Processes : job[p].pc \in Refreshing \cup Settling} IN
    /\ Cardinality(owners) = (IF isRefreshing THEN 1 ELSE 0)
    /\ (job[Refresh].pc # "idle") <=> \E p \in owners : job[p].pc \in Refreshing

\* No lost wake-up: a request is in refreshSubscribers only while somebody holds
\* isRefreshing, who will call onTokenRefreshed.
WaitersHaveAWaker ==
    \A p \in Processes : job[p].pc \in Waiting => isRefreshing

\* The token has three homes; whenever a request can read them they agree, so
\* none is sent with a token of an older session than the page reload would use.
TokensAgree == accessToken = store.token /\ persisted = store

\* No authentication loop: however 401s, lost answers, refreshes and logouts
\* interleave, one call goes over the wire at most four times (itself, the
\* resend with the store's token, the one after a refresh, a transient retry).
BoundedSends == \A p \in Processes : job[p].sends <= 4

\* A write is executed twice at most: only an answer that was lost makes
\* the client send a write again that the server has executed.
WriteAtMostTwice ==
    \A r \in Requests : job[r].executed <= 1 + MaxRetries

Stuck == job[Refresh].pc \in Waiting   \* the refresh waits for itself to finish

\* Every call settles, unless the refresh call has been put in the queue of the
\* requests that wait for the refresh.
SettlesUnlessStuck ==
    \A p \in Processes :
        job[p].pc \notin {"idle", "done"} ~> (job[p].pc \in {"idle", "done"} \/ Stuck)

\* What apiClient.ts promises where it waits ("If refresh is in progress, wait
\* for it to complete"): the refresh completes, and every call settles.
EveryCallSettles ==
    \A p \in Processes : job[p].pc \notin {"idle", "done"} ~> job[p].pc \in {"idle", "done"}

\* What authStore.ts says of logout ("no auth, but state is clear"): only a login
\* authenticates again.
LogoutSticks ==
    [][(store.token = None /\ store'.token # None) => job[User].call = "login"]_vars
=============================================================================
