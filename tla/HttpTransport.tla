---------------------------- MODULE HttpTransport ----------------------------
(***************************************************************************)
(* One request through the shared axios instance of                        *)
(* src/http/http-client.ts: its request interceptors, its dispatch, and    *)
(* the response interceptor that retries it.                               *)
(*                                                                         *)
(* Request interceptors run in the reverse of the order they are registered *)
(* in: the token is fetched first, then the rate limiter is asked, then the *)
(* observer is told, then the request is sent.  A retry is                 *)
(* instance.request(config) with the config of the attempt that failed: the *)
(* same interceptors run again, and what the config carries (the count of  *)
(* retries, the mark of a 401, the observer's capture) is carried along.   *)
(*                                                                         *)
(* Requests share nothing here but the token and the limiter, which        *)
(* modules AuthManager and RateLimiter model; to this one they either let  *)
(* the attempt go on or throw.  Durations are whole numbers of some unit.  *)
(***************************************************************************)
EXTENDS Integers, Sequences, FiniteSets, FiniteSetsExt

CONSTANTS
    Policies,       \* RetryPolicy values: [maxAttempts, baseDelay, maxDelay]
    RetryAfters,    \* what a Retry-After header may ask for
    MaxRetryAfter   \* MAX_RETRY_AFTER_MS: the longest wait a 429 may ask for

ASSUME ConstantsAssumption ==
    /\ Policies \subseteq [maxAttempts : Nat \ {0}, baseDelay : Nat, maxDelay : Nat]
    /\ RetryAfters \subseteq Nat
    /\ MaxRetryAfter \in Nat

NoHeader == -1      \* no Retry-After header, or one that does not parse
NoResponse == 0     \* the status of a network error or a timeout

\* What an attempt can end in: a status and what the header asks for.  blockText
\* tells a 403 whose body speaks of a block, or that has a Retry-After header
\* which does not parse, from one that is an ordinary refusal.
Responses ==
    [status : {NoResponse, 200, 401, 404, 500}, retryAfter : {NoHeader},
     blockText : {FALSE}]
        \cup [status : {429}, retryAfter : RetryAfters \cup {NoHeader},
              blockText : {FALSE}]
        \cup [status : {403}, retryAfter : RetryAfters \cup {NoHeader},
              blockText : BOOLEAN]

VARIABLES
    policy,     \* the RetryPolicy in force
    hook,       \* is onUnauthorized configured?
    pc,         \* where the request is
    retryCount, \* config.__dattoRetryCount
    retried401, \* config.__dattoUnauthorizedRetried
    stash,      \* config.__dattoObserverCapture: the attempt captured, or 0
    response,   \* the response being handled
    wait,       \* what the sleep before the next attempt was set to
    result,     \* what the caller receives
    slept,      \* history: the sum of the sleeps
    answers,    \* history: the responses received
    log         \* history: the steps of each attempt, in order

config == <<retryCount, retried401, stash>>
vars == <<policy, hook, pc, config, response, wait, result, slept, answers, log>>

Attempts == Cardinality({i \in DOMAIN log : log[i].step = "request"})
Logged(step, attempt) == log' = Append(log, [step |-> step, attempt |-> attempt])

NoResult == [status |-> 0, code |-> "none", retryAfter |-> NoHeader]
Result(status, code, retryAfter) ==
    [status |-> status, code |-> code, retryAfter |-> retryAfter]

\* An error the caller receives that no response was mapped to.
OfItsOwn(res) == res.code \in {"not-dispatched", "logger-threw"}

-----------------------------------------------------------------------------
(* The request interceptors *)

\* A rejection that is not an AxiosError: handleResponseError lets it pass, and
\* the observer is not told, for nothing was dispatched.
\* (Mutant: the observer is told of it, by whatever capture the config has.)
Rethrow_Observed ==
    /\ pc' = "failed"
    /\ result' = Result(0, "not-dispatched", NoHeader)
    /\ IF stash # 0 THEN Logged("terminal", stash) ELSE UNCHANGED log
    /\ UNCHANGED <<config, answers>>
Rethrow ==
    /\ pc' = "failed"
    /\ result' = Result(0, "not-dispatched", NoHeader)
    /\ UNCHANGED <<config, answers, log>>

\* AuthManager's Bearer interceptor; the grant behind it may fail.
GetToken ==
    /\ pc = "token"
    /\ \/ /\ Logged("token", Attempts + 1)
          /\ pc' = "slot"
          /\ UNCHANGED <<config, result, answers>>
       \/ Rethrow
    /\ UNCHANGED <<policy, hook, response, wait, slept>>

\* The rate-limit interceptor; acquire throws if the caller's logger does.
AcquireSlot ==
    /\ pc = "slot"
    /\ \/ /\ Logged("slot", Attempts + 1)
          /\ pc' = "observe"
          /\ UNCHANGED <<config, result, answers>>
       \/ Rethrow
    /\ UNCHANGED <<policy, hook, response, wait, slept>>

\* The observer's interceptor overwrites the capture a retry brings along, and
\* tells the observer; the request is sent.
\* (Mutant: the capture is made only if the config has none.)
Dispatch_KeepsStash ==
    /\ pc = "observe"
    /\ stash' = IF stash = 0 THEN Attempts + 1 ELSE stash
    /\ Logged("request", Attempts + 1)
    /\ pc' = "sent"
    /\ UNCHANGED <<policy, hook, retryCount, retried401, response, wait, result,
                   slept, answers>>
Dispatch ==
    /\ pc = "observe"
    /\ stash' = Attempts + 1
    /\ Logged("request", Attempts + 1)
    /\ pc' = "sent"
    /\ UNCHANGED <<policy, hook, retryCount, retried401, response, wait, result,
                   slept, answers>>

\* The server answers, or the socket fails or times out.
Receive ==
    /\ pc = "sent"
    /\ \E r \in Responses :
          /\ response' = r
          /\ answers' = Append(answers, r)
    /\ pc' = "answered"
    /\ UNCHANGED <<policy, hook, config, wait, result, slept, log>>

-----------------------------------------------------------------------------
(* The response interceptor *)

FailedAttempt == retryCount + 1

\* calculateBackoffDelayMs
Backoff(n) == Min({policy.baseDelay * 2 ^ (n - 1), policy.maxDelay})

End(state, res) ==
    /\ pc' = state
    /\ result' = res
    /\ UNCHANGED <<config, wait>>

Sleep(duration) ==
    /\ pc' = "sleeping"
    /\ wait' = duration
    /\ UNCHANGED <<config, result>>

Succeed ==
    /\ response.status = 200
    /\ End("done", Result(200, "none", NoHeader))

\* build403Error: never retried.  It is a block by its header or by its text.
\* (Mutant: the wait its header asks for is not passed on.)
Forbidden_NoWait ==
    /\ response.status = 403
    /\ LET block == response.retryAfter # NoHeader \/ response.blockText
       IN  End("failed", Result(403, IF block THEN "ip-block" ELSE "forbidden",
                                NoHeader))
Forbidden ==
    /\ response.status = 403
    /\ LET block == response.retryAfter # NoHeader \/ response.blockText
       IN  End("failed", Result(403, IF block THEN "ip-block" ELSE "forbidden",
                                response.retryAfter))

\* A first 401: the cached token is discarded and the request made again, with
\* no pause and without counting as a retry.
\* (Mutant: the mark that it has happened is not made.)
Unauthorized_Unmarked ==
    /\ response.status = 401
    /\ hook
    /\ ~retried401
    /\ pc' = "token"
    /\ UNCHANGED <<config, wait, result>>
Unauthorized ==
    /\ response.status = 401
    /\ hook
    /\ ~retried401
    /\ retried401' = TRUE
    /\ pc' = "token"
    /\ UNCHANGED <<retryCount, stash, wait, result>>

\* A 429: the wait is what the server asks for, else the backoff.
\* (Mutant: a 429 with no header has no wait to fall back on.)
RateLimitWait_NoFallback == response.retryAfter
RateLimitWait ==
    IF response.retryAfter # NoHeader THEN response.retryAfter
                                      ELSE Backoff(FailedAttempt)

\* (Mutant: the ceiling on the wait is lost.)
RateLimitHopeless_NoCeiling == FailedAttempt >= policy.maxAttempts
RateLimitHopeless ==
    RateLimitWait > MaxRetryAfter \/ FailedAttempt >= policy.maxAttempts

RateLimited ==
    /\ response.status = 429
    /\ \/ RateLimitHopeless /\ End("failed", Result(429, "none", RateLimitWait))
       \/ ~RateLimitHopeless /\ Sleep(RateLimitWait)

\* A network error, a timeout or a 5xx, with attempts left.
Retryable ==
    /\ response.status \in {NoResponse, 500}
    /\ FailedAttempt < policy.maxAttempts

TransportError ==
    /\ Retryable
    /\ Sleep(Backoff(FailedAttempt))

\* DattoApiError.fromAxiosError: whatever is left, and what is out of attempts.
\* (Mutant: a 5xx or a network error that is out of attempts is not thrown.)
OtherError_NotExhausted ==
    /\ response.status \notin {200, 403, 429, 500, NoResponse}
    /\ ~(response.status = 401 /\ hook /\ ~retried401)
    /\ End("failed", Result(response.status, "none", NoHeader))
OtherError ==
    /\ response.status \notin {200, 403, 429}
    /\ ~(response.status = 401 /\ hook /\ ~retried401)
    /\ ~Retryable
    /\ End("failed", Result(response.status, "none", NoHeader))

\* Before it retries, and before it gives up on a 429, the handler logs; what the
\* caller's logger throws then goes to the caller in place of the response.
LoggerThrows ==
    /\ \/ response.status = 401 /\ hook /\ ~retried401
       \/ response.status = 429
       \/ Retryable
    /\ End("failed", Result(0, "logger-threw", NoHeader))

\* The observer is told of the end of the attempt, by the capture the config
\* has, before anything else is done with the response.
Handle ==
    /\ pc = "answered"
    /\ Logged("terminal", stash)
    /\ \/ Succeed
       \/ Forbidden
       \/ Unauthorized
       \/ RateLimited
       \/ TransportError
       \/ OtherError
       \/ LoggerThrows
    /\ UNCHANGED <<policy, hook, response, slept, answers>>

\* The sleep is over: the attempt is counted and the request made again.
\* (Mutant: the count is not carried along.)
Resume_Uncounted ==
    /\ pc = "sleeping"
    /\ slept' = slept + wait
    /\ pc' = "token"
    /\ UNCHANGED <<policy, hook, config, response, wait, result, answers, log>>
Resume ==
    /\ pc = "sleeping"
    /\ retryCount' = FailedAttempt
    /\ slept' = slept + wait
    /\ pc' = "token"
    /\ UNCHANGED <<policy, hook, retried401, stash, response, wait, result,
                   answers, log>>

Finished == pc \in {"done", "failed"} /\ UNCHANGED vars

-----------------------------------------------------------------------------

Init ==
    /\ policy \in Policies
    /\ hook \in BOOLEAN
    /\ pc = "token"
    /\ retryCount = 0
    /\ retried401 = FALSE
    /\ stash = 0
    /\ response = [status |-> NoResponse, retryAfter |-> NoHeader, blockText |-> FALSE]
    /\ wait = 0
    /\ result = NoResult
    /\ slept = 0
    /\ answers = <<>>
    /\ log = <<>>

Next ==
    \/ GetToken
    \/ AcquireSlot
    \/ Dispatch
    \/ Receive
    \/ Handle
    \/ Resume
    \/ Finished

\* Every step is the program's own or a timer's, but for the answer, which the
\* request's timeout bounds.
Spec == Init /\ [][Next]_vars
FairSpec == Spec /\ WF_vars(Next)

-----------------------------------------------------------------------------
(* Properties *)

\* Every variable has its type.
TypeOK ==
    /\ policy \in Policies
    /\ hook \in BOOLEAN
    /\ pc \in {"token", "slot", "observe", "sent", "answered", "sleeping",
               "done", "failed"}
    /\ retryCount \in Nat
    /\ retried401 \in BOOLEAN
    /\ stash \in Nat
    /\ response \in Responses
    /\ wait \in Nat
    /\ result \in [status : Nat,
                   code : {"none", "not-dispatched", "logger-threw", "ip-block",
                           "forbidden"},
                   retryAfter : Nat \cup {NoHeader}]
    /\ slept \in Nat
    /\ answers \in Seq(Responses)
    /\ log \in Seq([step : {"token", "slot", "request", "terminal"}, attempt : Nat])

\* Attempt after attempt, and never out of turn: a token looked up, a slot
\* taken, the observer told of the request, the observer told of its end.
\* No attempt goes out on the token or the slot of another; each is observed
\* exactly once from either side, and its end under its own capture.  (The
\* client is configured with an httpObserver.)
AttemptsWhole ==
    \A i \in DOMAIN log :
        log[i] = [step    |-> <<"token", "slot", "request", "terminal">>[((i - 1) % 4) + 1],
                  attempt |-> ((i - 1) \div 4) + 1]

\* The request is sent at most maxAttempts times, and once more if it was
\* refused its token, which the documented cap on attempts (README.md, Rate
\* limiting & retries) leaves out.
AttemptsBounded ==
    Attempts <= policy.maxAttempts + (IF retried401 THEN 1 ELSE 0)

\* A request is made again only after an answer that may be followed by a
\* better one: never after a 403 or another 4xx, never after a success, and
\* not after a second 401.
OnlyRetriesRetryable ==
    /\ \A i \in 1 .. Attempts - 1 :
          answers[i].status \in {NoResponse, 401, 429, 500}
    /\ Cardinality({i \in 1 .. Attempts - 1 : answers[i].status = 401}) <= 1

\* The caller waits, over all the retries of a request, no longer than a
\* bounded wait per retry, whatever the server asks for.
SleepBounded ==
    slept <= (policy.maxAttempts - 1) * Max({MaxRetryAfter, policy.maxDelay})

\* What the caller receives is the end of the last attempt, as the server
\* reported it, the wait it asked for included; unless the last attempt was
\* not dispatched, or its logger threw.
ResultIsLastAnswer ==
    pc \in {"done", "failed"} /\ ~OfItsOwn(result) =>
        LET last == answers[Len(answers)]
        IN  /\ result.status = last.status
            /\ pc = "done" <=> last.status = 200
            /\ last.status \in {403, 429} /\ last.retryAfter # NoHeader =>
                  result.retryAfter = last.retryAfter

\* The request ends, however it is answered.
RequestEnds == <>(pc \in {"done", "failed"})
=============================================================================
