-------------------------- MODULE HttpTransportProofs --------------------------
(***************************************************************************)
(* What is proved of a request through the shared instance, for every      *)
(* retry policy, every Retry-After and every sequence of answers: how often *)
(* it is sent, how long it makes its caller wait, and that each attempt    *)
(* takes its steps in order and is observed as itself.                     *)
(*                                                                         *)
(* None of this is visible in one pass through the interceptors.  The      *)
(* invariant counts: the attempts made so far are the counted retries, the *)
(* one retry a 401 is granted, and the attempt under way; each counted     *)
(* retry has paid for one bounded sleep; and an attempt has left four      *)
(* steps in the log, or as many of the four as its place allows.           *)
(***************************************************************************)
EXTENDS HttpTransport, FiniteSetTheorems, TLAPS

\* How a result may be marked.
Codes == {"none", "not-dispatched", "logger-threw", "ip-block", "forbidden"}

\* The retry a 401 is granted, if it has been taken.
UncountedRetries == IF retried401 THEN 1 ELSE 0

\* Attempts are counted retries, the uncounted one, and the one under way.
Counted ==
    /\ retryCount < policy.maxAttempts
    /\ pc \in {"token", "slot", "observe"} =>
          Attempts = retryCount + UncountedRetries
    /\ pc \in {"sent", "answered", "sleeping", "done"} =>
          Attempts = retryCount + UncountedRetries + 1
    /\ pc = "failed" => Attempts <= retryCount + UncountedRetries + 1
    /\ pc = "sleeping" => retryCount + 1 < policy.maxAttempts

\* The longest one sleep can be.
Ceiling == Max({MaxRetryAfter, policy.maxDelay})

\* Each counted retry has slept once, no longer than the ceiling.
Slept ==
    /\ slept <= retryCount * Ceiling
    /\ pc = "sleeping" => wait <= Ceiling

\* How far the log is in the attempt under way.
LogFollows ==
    /\ AttemptsWhole
    /\ pc \in {"token", "sleeping", "done"} => Len(log) = 4 * Attempts
    /\ pc = "slot" => Len(log) = 4 * Attempts + 1
    /\ pc = "observe" => Len(log) = 4 * Attempts + 2
    /\ pc \in {"sent", "answered"} => Len(log) = 4 * Attempts - 1 /\ stash = Attempts

IInv == TypeOK /\ Counted /\ Slept /\ LogFollows

-----------------------------------------------------------------------------
(* Arithmetic and counting *)

\* A power of two is a natural number.
LEMMA PowerOfTwo == ASSUME NEW n \in Nat PROVE 2 ^ n \in Nat
<1>1. IsFiniteSet(1 .. n) /\ Cardinality(1 .. n) = n
    BY FS_Interval
<1>2. /\ IsFiniteSet(SUBSET (1 .. n))
      /\ Cardinality(SUBSET (1 .. n)) = 2 ^ n
    BY <1>1, FS_SUBSET
<1> QED BY <1>2, FS_CardinalityType

\* The least and the greatest of two numbers.
LEMMA MinMax ==
    ASSUME NEW a \in Nat, NEW b \in Nat
    PROVE  /\ Min({a, b}) \in Nat
           /\ Min({a, b}) <= b
           /\ Max({a, b}) \in Nat
           /\ a <= Max({a, b})
           /\ b <= Max({a, b})
BY DEF Min, Max

\* One more retry, one more sleep.
LEMMA OneMore ==
    ASSUME NEW n \in Nat, NEW m \in Nat, NEW s \in Nat, NEW w \in Nat,
           s <= n * m, w <= m
    PROVE  s + w <= (n + 1) * m
OBVIOUS

\* The product of naturals grows with its factor.
LEMMA MoreRetries ==
    ASSUME NEW a \in Nat, NEW b \in Nat, NEW m \in Nat, a <= b
    PROVE  a * m <= b * m
OBVIOUS

\* The policy in force is one the configuration allows.
LEMMA PolicyType ==
    ASSUME TypeOK
    PROVE  /\ policy.maxAttempts \in Nat /\ policy.maxAttempts >= 1
           /\ policy.baseDelay \in Nat
           /\ policy.maxDelay \in Nat
           /\ Ceiling \in Nat
           /\ MaxRetryAfter <= Ceiling
           /\ policy.maxDelay <= Ceiling
<1>1. policy \in [maxAttempts : Nat \ {0}, baseDelay : Nat, maxDelay : Nat]
    BY ConstantsAssumption DEF TypeOK
<1>2. MaxRetryAfter \in Nat
    BY ConstantsAssumption
<1>3. policy.maxDelay \in Nat
    BY <1>1
<1> QED BY <1>1, <1>2, <1>3, MinMax DEF Ceiling

\* A backoff is no longer than the policy's longest delay.
LEMMA BackoffBounded ==
    ASSUME TypeOK
    PROVE  /\ Backoff(FailedAttempt) \in Nat
           /\ Backoff(FailedAttempt) <= policy.maxDelay
<1>1. FailedAttempt - 1 = retryCount /\ retryCount \in Nat
    BY DEF TypeOK, FailedAttempt
<1>2. 2 ^ (FailedAttempt - 1) \in Nat
    BY <1>1, PowerOfTwo
<1>3. policy.baseDelay * 2 ^ (FailedAttempt - 1) \in Nat
    BY <1>2, PolicyType
<1> HIDE DEF FailedAttempt
<1> QED BY <1>3, PolicyType, MinMax DEF Backoff

\* The response has a status, and a wait if it asks for one.
LEMMA ResponseType ==
    ASSUME NEW r \in Responses
    PROVE  /\ r.status \in {NoResponse, 200, 401, 403, 404, 429, 500}
           /\ r.retryAfter \in Nat \cup {NoHeader}
<1> DEFINE Waits == RetryAfters \cup {NoHeader}
<1>1. NoHeader \in Waits /\ Waits \subseteq Nat \cup {NoHeader}
    BY ConstantsAssumption
<1> DEFINE Plain == [status : {NoResponse, 200, 401, 404, 500},
                     retryAfter : {NoHeader}, blockText : {FALSE}]
           Limited == [status : {429}, retryAfter : Waits, blockText : {FALSE}]
           Refused == [status : {403}, retryAfter : Waits, blockText : BOOLEAN]
<1>2. Responses = Plain \cup Limited \cup Refused
    BY DEF Responses
<1> HIDE DEF Waits
<1>3. r \in Plain => r.status \in {NoResponse, 200, 401, 404, 500} /\ r.retryAfter = NoHeader
    OBVIOUS
<1>4. r \in Limited => r.status = 429 /\ r.retryAfter \in Waits
    OBVIOUS
<1>5. r \in Refused => r.status = 403 /\ r.retryAfter \in Waits
    OBVIOUS
<1> HIDE DEF Plain, Limited, Refused
<1>6. r \in Plain \/ r \in Limited \/ r \in Refused
    BY <1>2
<1>7. r.retryAfter \in Waits
    BY ONLY <1>1, <1>3, <1>4, <1>5, <1>6
<1>8. r.retryAfter \in Nat \cup {NoHeader}
    BY ONLY <1>1, <1>7
<1>9. r.status \in {NoResponse, 200, 401, 403, 404, 429, 500}
    <2>1. CASE r \in Plain
        BY ONLY <2>1, <1>3
    <2>2. CASE r \in Limited
        BY ONLY <2>2, <1>4
    <2>3. CASE r \in Refused
        BY ONLY <2>3, <1>5
    <2> QED BY ONLY <2>1, <2>2, <2>3, <1>6
<1> QED BY ONLY <1>8, <1>9

\* A 429 is waited for no longer than the ceiling.
LEMMA RateLimitWaitBounded ==
    ASSUME TypeOK
    PROVE  /\ RateLimitWait \in Nat
           /\ ~RateLimitHopeless => RateLimitWait <= Ceiling
<1>1. response.retryAfter # NoHeader => response.retryAfter \in Nat
    BY ResponseType DEF TypeOK
<1>2. RateLimitWait \in Nat
    BY <1>1, BackoffBounded DEF RateLimitWait
<1>3. MaxRetryAfter \in Nat
    BY ConstantsAssumption
<1> QED BY <1>2, <1>3, PolicyType DEF RateLimitHopeless

\* The attempts so far are a number.
LEMMA AttemptsType ==
    ASSUME TypeOK
    PROVE  Attempts \in Nat /\ Len(log) \in Nat
<1>1. Len(log) \in Nat /\ DOMAIN log = 1 .. Len(log)
    BY DEF TypeOK
<1>2. /\ IsFiniteSet(1 .. Len(log))
      /\ {i \in DOMAIN log : log[i].step = "request"} \subseteq 1 .. Len(log)
    BY <1>1, FS_Interval
<1> QED BY <1>1, <1>2, FS_Subset, FS_CardinalityType DEF Attempts

\* Sets with the same elements are the same.
LEMMA SetEqual == ASSUME NEW A, NEW B, \A i : i \in A <=> i \in B PROVE A = B
BY Zenon

\* A step is logged; the attempts are the requests among them.
LEMMA LogGrows ==
    ASSUME TypeOK,
           NEW step \in {"token", "slot", "request", "terminal"},
           NEW attempt \in Nat,
           Logged(step, attempt)
    PROVE  /\ Attempts \in Nat
           /\ Len(log) \in Nat
           /\ Attempts' = IF step = "request" THEN Attempts + 1 ELSE Attempts
           /\ log' \in Seq([step : {"token", "slot", "request", "terminal"},
                            attempt : Nat])
           /\ Len(log') = Len(log) + 1
           /\ \A i \in 1 .. Len(log) : log'[i] = log[i]
           /\ log'[Len(log) + 1] = [step |-> step, attempt |-> attempt]
<1> DEFINE R(l) == {i \in DOMAIN l : l[i].step = "request"}
           e == [step |-> step, attempt |-> attempt]
<1>1. /\ log' = Append(log, e)
      /\ e \in [step : {"token", "slot", "request", "terminal"}, attempt : Nat]
    BY DEF Logged
<1>2. /\ log' \in Seq([step : {"token", "slot", "request", "terminal"}, attempt : Nat])
      /\ Len(log') = Len(log) + 1
      /\ \A i \in 1 .. Len(log) : log'[i] = log[i]
      /\ log'[Len(log) + 1] = e
      /\ Len(log) \in Nat
      /\ DOMAIN log = 1 .. Len(log)
      /\ DOMAIN log' = (1 .. Len(log)) \cup {Len(log) + 1}
    BY <1>1 DEF TypeOK
<1>3. IsFiniteSet(R(log)) /\ Cardinality(R(log)) \in Nat
    <2>1. IsFiniteSet(1 .. Len(log)) /\ R(log) \subseteq 1 .. Len(log)
        BY <1>2, FS_Interval
    <2> QED BY <2>1, FS_Subset, FS_CardinalityType
<1> HIDE DEF e
<1> DEFINE n == Len(log) + 1
<1>n. /\ \A i \in DOMAIN log : log'[i] = log[i]
      /\ log'[n] = e
      /\ \A i : i \in DOMAIN log' <=> i \in DOMAIN log \/ i = n
    BY ONLY <1>2, Zenon
<1> HIDE DEF n
<1>p. \A i : i \in R(log') <=> i \in R(log) \/ (i = n /\ e.step = "request")
    BY ONLY <1>n, Zenon
<1> USE DEF n
<1>4. Len(log) + 1 \notin R(log)
    BY <1>2
<1>5. CASE step = "request"
    <2>1. e.step = "request"
        BY <1>5 DEF e
    <2>2. R(log') = R(log) \cup {Len(log) + 1}
        <3> HIDE DEF R
        <3>1. \A i : i \in R(log') <=> i \in R(log) \cup {Len(log) + 1}
            BY ONLY <1>p, <2>1, Zenon DEF n
        <3> QED BY ONLY <3>1, SetEqual
    <2>3. Cardinality(R(log) \cup {Len(log) + 1}) = Cardinality(R(log)) + 1
        <3> HIDE DEF R
        <3> QED BY ONLY <1>3, <1>4, FS_AddElement
    <2>4. Attempts = Cardinality(R(log)) /\ Attempts' = Cardinality(R(log'))
        BY DEF Attempts
    <2> HIDE DEF R
    <2>5. Attempts' = Attempts + 1 /\ Attempts \in Nat
        BY ONLY <1>3, <2>2, <2>3, <2>4
    <2> QED BY ONLY <2>5, <1>2, <1>5 DEF e
<1>6. CASE step # "request"
    <2>1. e.step # "request"
        BY <1>6 DEF e
    <2>2. R(log') = R(log)
        <3> HIDE DEF R
        <3>1. \A i : i \in R(log') <=> i \in R(log)
            BY ONLY <1>p, <2>1, Zenon
        <3> QED BY ONLY <3>1, SetEqual
    <2>4. Attempts = Cardinality(R(log)) /\ Attempts' = Cardinality(R(log'))
        BY DEF Attempts
    <2> HIDE DEF R
    <2>5. Attempts' = Attempts /\ Attempts \in Nat
        BY ONLY <1>3, <2>2, <2>4
    <2> QED BY ONLY <2>5, <1>2, <1>6 DEF e
<1> QED BY <1>5, <1>6

\* An appended step keeps the log in turn if it is the one whose turn it is.
LEMMA NextInTurn ==
    ASSUME TypeOK, AttemptsWhole,
           NEW step \in {"token", "slot", "request", "terminal"},
           NEW attempt \in Nat,
           Logged(step, attempt),
           step = <<"token", "slot", "request", "terminal">>[(Len(log) % 4) + 1],
           attempt = (Len(log) \div 4) + 1
    PROVE  AttemptsWhole'
<1>1. /\ Len(log) \in Nat
      /\ DOMAIN log' = 1 .. Len(log) + 1
      /\ DOMAIN log = 1 .. Len(log)
      /\ \A i \in 1 .. Len(log) : log'[i] = log[i]
      /\ log'[Len(log) + 1] = [step |-> step, attempt |-> attempt]
    BY LogGrows DEF TypeOK
<1>2. ASSUME NEW i \in 1 .. Len(log) + 1
      PROVE  log'[i] = [step    |-> <<"token", "slot", "request", "terminal">>[((i - 1) % 4) + 1],
                        attempt |-> ((i - 1) \div 4) + 1]
    <2>1. CASE i \in 1 .. Len(log)
        BY <2>1, <1>1 DEF AttemptsWhole
    <2>2. CASE i = Len(log) + 1
        <3>1. i - 1 = Len(log)
            BY <2>2, <1>1
        <3> QED BY <3>1, <2>2, <1>1
    <2> QED BY <2>1, <2>2, <1>1
<1> QED BY <1>1, <1>2 DEF AttemptsWhole

-----------------------------------------------------------------------------
(* The steps of a request *)

\* The invariant holds of a request that has not begun.
LEMMA InitHolds == Init => IInv
<1> SUFFICES ASSUME Init PROVE IInv
    OBVIOUS
<1>1. TypeOK
    <2>1. response \in Responses
        BY DEF Init, Responses
    <2>2. answers \in Seq(Responses)
        BY DEF Init
    <2>3. log \in Seq([step : {"token", "slot", "request", "terminal"}, attempt : Nat])
        BY DEF Init
    <2>4. /\ policy \in Policies /\ hook \in BOOLEAN /\ retried401 \in BOOLEAN
          /\ retryCount \in Nat /\ stash \in Nat /\ wait \in Nat /\ slept \in Nat
          /\ pc = "token"
        BY DEF Init
    <2>5. result \in [status : Nat,
                      code : Codes,
                      retryAfter : Nat \cup {NoHeader}]
        BY DEF Init, NoResult, Codes
    <2> QED BY <2>1, <2>2, <2>3, <2>4, <2>5 DEF TypeOK, Codes
<1>2. Attempts = 0
    <2>1. {i \in DOMAIN log : log[i].step = "request"} = {}
        BY DEF Init
    <2> QED BY <2>1, FS_EmptySet DEF Attempts
<1>3. Counted
    BY <1>1, <1>2, PolicyType DEF Init, Counted, UncountedRetries
<1>4. Slept
    BY <1>1, PolicyType DEF Init, Slept
<1>5. LogFollows
    BY <1>2 DEF Init, LogFollows, AttemptsWhole
<1> QED BY <1>1, <1>3, <1>4, <1>5 DEF IInv

\* A rejection before the dispatch leaves the request failed, and no trace.
LEMMA RethrowPreserves ==
    ASSUME IInv, Rethrow, pc \in {"token", "slot"},
           UNCHANGED <<policy, hook, response, wait, slept>>
    PROVE  IInv'
<1>1. /\ pc' = "failed"
      /\ result' = Result(0, "not-dispatched", NoHeader)
      /\ UNCHANGED <<policy, hook, retryCount, retried401, stash, response, wait,
                     slept, answers, log>>
    BY DEF Rethrow, config
<1>2. TypeOK'
    BY <1>1 DEF IInv, TypeOK, Result
<1>3. Attempts' = Attempts /\ Attempts = retryCount + UncountedRetries
    BY <1>1 DEF Attempts, IInv, Counted
<1>4. Counted'
    BY <1>1, <1>3 DEF IInv, TypeOK, Counted, UncountedRetries
<1>5. Slept' /\ LogFollows'
    BY <1>1 DEF IInv, Slept, Ceiling, LogFollows, AttemptsWhole
<1> QED BY <1>2, <1>4, <1>5 DEF IInv

\* A token or a slot is a step of the attempt about to be made.
LEMMA ReadyPreserves ==
    ASSUME IInv, NEW step \in {"token", "slot"}, pc = step,
           Logged(step, Attempts + 1),
           pc' = IF step = "token" THEN "slot" ELSE "observe",
           UNCHANGED <<policy, hook, config, response, wait, result, slept, answers>>
    PROVE  IInv'
<1>1. TypeOK /\ Attempts \in Nat /\ Len(log) \in Nat
    BY AttemptsType DEF IInv
<1>2. Attempts + 1 \in Nat
    BY <1>1
<1>3. /\ Attempts' = Attempts
      /\ Len(log') = Len(log) + 1
      /\ log' \in Seq([step : {"token", "slot", "request", "terminal"}, attempt : Nat])
    BY <1>1, <1>2, LogGrows
<1>4. TypeOK'
    BY <1>1, <1>3 DEF TypeOK, config
<1>5. Counted'
    BY <1>1, <1>3 DEF IInv, Counted, UncountedRetries, config
<1>6. Slept'
    BY DEF IInv, Slept, Ceiling, config
<1>7. Len(log) = IF step = "token" THEN 4 * Attempts ELSE 4 * Attempts + 1
    BY DEF IInv, LogFollows
<1>8. AttemptsWhole'
    <2>1. /\ step = <<"token", "slot", "request", "terminal">>[(Len(log) % 4) + 1]
          /\ Attempts + 1 = (Len(log) \div 4) + 1
        BY <1>1, <1>7
    <2> QED BY <2>1, <1>1, <1>2, NextInTurn DEF IInv, LogFollows
<1>9. LogFollows'
    BY <1>1, <1>3, <1>7, <1>8 DEF LogFollows
<1> QED BY <1>4, <1>5, <1>6, <1>9 DEF IInv

\* The token is looked up, or its grant fails.
LEMMA GetTokenPreserves == IInv /\ GetToken => IInv'
<1> SUFFICES ASSUME IInv, GetToken PROVE IInv'
    OBVIOUS
<1>1. CASE Rethrow
    BY <1>1, RethrowPreserves DEF GetToken
<1>2. CASE ~Rethrow
    BY <1>2, ReadyPreserves DEF GetToken
<1> QED BY <1>1, <1>2

\* The slot is taken, or acquire throws.
LEMMA AcquireSlotPreserves == IInv /\ AcquireSlot => IInv'
<1> SUFFICES ASSUME IInv, AcquireSlot PROVE IInv'
    OBVIOUS
<1>1. CASE Rethrow
    BY <1>1, RethrowPreserves DEF AcquireSlot
<1>2. CASE ~Rethrow
    BY <1>2, ReadyPreserves DEF AcquireSlot
<1> QED BY <1>1, <1>2

\* The dispatch makes the attempt, and its capture is its own.
LEMMA DispatchPreserves == IInv /\ Dispatch => IInv'
<1> SUFFICES ASSUME IInv, Dispatch PROVE IInv'
    OBVIOUS
<1>1. /\ TypeOK /\ Attempts \in Nat /\ Len(log) \in Nat
      /\ pc = "observe" /\ pc' = "sent"
      /\ stash' = Attempts + 1
      /\ Logged("request", Attempts + 1)
      /\ UNCHANGED <<policy, hook, retryCount, retried401, response, wait, result,
                     slept, answers>>
    BY AttemptsType DEF IInv, Dispatch
<1>2. Attempts + 1 \in Nat
    BY <1>1
<1>3. /\ Attempts' = Attempts + 1
      /\ Len(log') = Len(log) + 1
      /\ log' \in Seq([step : {"token", "slot", "request", "terminal"}, attempt : Nat])
    BY <1>1, <1>2, LogGrows
<1>4. TypeOK'
    BY <1>1, <1>2, <1>3 DEF TypeOK
<1>5. Counted'
    BY <1>1, <1>3 DEF IInv, Counted, UncountedRetries
<1>6. Slept'
    BY <1>1 DEF IInv, Slept, Ceiling
<1>7. Len(log) = 4 * Attempts + 2
    BY <1>1 DEF IInv, LogFollows
<1>8. AttemptsWhole'
    <2>1. /\ "request" = <<"token", "slot", "request", "terminal">>[(Len(log) % 4) + 1]
          /\ Attempts + 1 = (Len(log) \div 4) + 1
        BY <1>1, <1>7
    <2> QED BY <2>1, <1>1, <1>2, NextInTurn DEF IInv, LogFollows
<1>9. LogFollows'
    BY <1>1, <1>3, <1>7, <1>8 DEF LogFollows
<1> QED BY <1>4, <1>5, <1>6, <1>9 DEF IInv

\* An answer changes nothing that the invariant counts.
LEMMA ReceivePreserves == IInv /\ Receive => IInv'
<1> SUFFICES ASSUME IInv, Receive PROVE IInv'
    OBVIOUS
<1>1. PICK r \in Responses : response' = r /\ answers' = Append(answers, r)
    BY DEF Receive
<1>2. /\ pc = "sent" /\ pc' = "answered"
      /\ UNCHANGED <<policy, hook, retryCount, retried401, stash, wait, result,
                     slept, log>>
    BY DEF Receive, config
<1>3. Attempts' = Attempts
    BY <1>2 DEF Attempts
<1>4. TypeOK'
    <2>1. answers' \in Seq(Responses)
        BY <1>1 DEF IInv, TypeOK
    <2> QED BY <2>1, <1>1, <1>2 DEF IInv, TypeOK
<1>5. Counted'
    BY <1>2, <1>3 DEF IInv, Counted, UncountedRetries
<1>6. Slept' /\ LogFollows'
    BY <1>2, <1>3 DEF IInv, Slept, Ceiling, LogFollows, AttemptsWhole
<1> QED BY <1>4, <1>5, <1>6 DEF IInv

\* The end of the attempt is logged under its own capture.
LEMMA TerminalInTurn ==
    ASSUME IInv, pc = "answered", Logged("terminal", stash)
    PROVE  /\ Attempts \in Nat
           /\ Attempts' = Attempts
           /\ Len(log') = 4 * Attempts
           /\ log' \in Seq([step : {"token", "slot", "request", "terminal"},
                            attempt : Nat])
           /\ AttemptsWhole'
<1>1. TypeOK /\ stash \in Nat /\ Attempts \in Nat /\ Len(log) \in Nat
    BY AttemptsType DEF IInv, TypeOK
<1>2. Len(log) = 4 * Attempts - 1 /\ stash = Attempts
    BY DEF IInv, LogFollows
<1>3. /\ Attempts' = Attempts
      /\ Len(log') = Len(log) + 1
      /\ log' \in Seq([step : {"token", "slot", "request", "terminal"}, attempt : Nat])
    BY <1>1, LogGrows
<1>4. AttemptsWhole'
    <2>1. /\ "terminal" = <<"token", "slot", "request", "terminal">>[(Len(log) % 4) + 1]
          /\ stash = (Len(log) \div 4) + 1
        BY <1>1, <1>2
    <2> QED BY <2>1, <1>1, NextInTurn DEF IInv, LogFollows
<1> QED BY <1>1, <1>2, <1>3, <1>4

\* The request ends with the attempt.
LEMMA EndPreserves ==
    ASSUME IInv, pc = "answered", Logged("terminal", stash),
           NEW state \in {"done", "failed"},
           NEW res \in [status : Nat,
                        code : Codes,
                        retryAfter : Nat \cup {NoHeader}],
           End(state, res),
           UNCHANGED <<policy, hook, response, slept, answers>>
    PROVE  IInv'
<1>1. /\ Attempts \in Nat /\ Attempts' = Attempts
      /\ Len(log') = 4 * Attempts
      /\ log' \in Seq([step : {"token", "slot", "request", "terminal"}, attempt : Nat])
      /\ AttemptsWhole'
    BY TerminalInTurn
<1>2. /\ pc' = state /\ result' = res
      /\ UNCHANGED <<policy, hook, retryCount, retried401, stash, response, wait,
                     slept, answers>>
    BY DEF End, config
<1>3. TypeOK'
    BY <1>1, <1>2 DEF IInv, TypeOK, Codes
<1>4. Counted'
    BY <1>1, <1>2 DEF IInv, TypeOK, Counted, UncountedRetries
<1>5. Slept' /\ LogFollows'
    BY <1>1, <1>2 DEF IInv, Slept, Ceiling, LogFollows
<1> QED BY <1>3, <1>4, <1>5 DEF IInv

\* The request sleeps before another, counted attempt.
LEMMA SleepPreserves ==
    ASSUME IInv, pc = "answered", Logged("terminal", stash),
           NEW duration \in Nat,
           duration <= Ceiling,
           FailedAttempt < policy.maxAttempts,
           Sleep(duration),
           UNCHANGED <<policy, hook, response, slept, answers>>
    PROVE  IInv'
<1>1. /\ Attempts \in Nat /\ Attempts' = Attempts
      /\ Len(log') = 4 * Attempts
      /\ log' \in Seq([step : {"token", "slot", "request", "terminal"}, attempt : Nat])
      /\ AttemptsWhole'
    BY TerminalInTurn
<1>2. /\ pc' = "sleeping" /\ wait' = duration
      /\ UNCHANGED <<policy, hook, retryCount, retried401, stash, response, result,
                     slept, answers>>
    BY DEF Sleep, config
<1>3. TypeOK'
    BY <1>1, <1>2 DEF IInv, TypeOK
<1>4. Counted'
    BY <1>1, <1>2 DEF IInv, Counted, UncountedRetries, FailedAttempt
<1>5. Slept' /\ LogFollows'
    BY <1>1, <1>2 DEF IInv, Slept, Ceiling, LogFollows
<1> QED BY <1>3, <1>4, <1>5 DEF IInv

\* A first 401 leads to an attempt that no retry is counted for.
LEMMA UnauthorizedPreserves ==
    ASSUME IInv, pc = "answered", Logged("terminal", stash), Unauthorized,
           UNCHANGED <<policy, hook, response, slept, answers>>
    PROVE  IInv'
<1>1. /\ Attempts \in Nat /\ Attempts' = Attempts
      /\ Len(log') = 4 * Attempts
      /\ log' \in Seq([step : {"token", "slot", "request", "terminal"}, attempt : Nat])
      /\ AttemptsWhole'
    BY TerminalInTurn
<1>2. /\ pc' = "token" /\ retried401 = FALSE /\ retried401' = TRUE
      /\ UNCHANGED <<policy, hook, retryCount, stash, response, wait, result, slept,
                     answers>>
    BY DEF Unauthorized
<1>3. TypeOK'
    BY <1>1, <1>2 DEF IInv, TypeOK
<1>4. Counted'
    <2>1. retryCount \in Nat
        BY DEF IInv, TypeOK
    <2> QED BY <2>1, <1>1, <1>2 DEF IInv, Counted, UncountedRetries
<1>5. Slept' /\ LogFollows'
    BY <1>1, <1>2 DEF IInv, Slept, Ceiling, LogFollows
<1> QED BY <1>3, <1>4, <1>5 DEF IInv

\* However the response is handled, the request ends, sleeps or goes again.
LEMMA HandlePreserves == IInv /\ Handle => IInv'
<1> SUFFICES ASSUME IInv, Handle PROVE IInv'
    OBVIOUS
<1>1. /\ pc = "answered" /\ Logged("terminal", stash)
      /\ UNCHANGED <<policy, hook, response, slept, answers>>
    BY DEF Handle
<1>2. /\ response.status \in {NoResponse, 200, 401, 403, 404, 429, 500}
      /\ response.retryAfter \in Nat \cup {NoHeader}
      /\ response.status \in Nat
      /\ TypeOK
    BY ResponseType DEF IInv, TypeOK, NoResponse
<1>3. CASE Succeed
    <2> DEFINE res == Result(200, "none", NoHeader)
    <2>1. res \in [status : Nat,
                   code : Codes,
                   retryAfter : Nat \cup {NoHeader}]
        BY DEF Result, Codes
    <2>2. End("done", res)
        BY <1>3 DEF Succeed
    <2> HIDE DEF res
    <2> QED BY <2>1, <2>2, <1>1, EndPreserves
<1>4. CASE Forbidden
    <2> DEFINE block == response.retryAfter # NoHeader \/ response.blockText
               res == Result(403, IF block THEN "ip-block" ELSE "forbidden",
                             response.retryAfter)
    <2>1. (IF block THEN "ip-block" ELSE "forbidden") \in {"ip-block", "forbidden"}
        OBVIOUS
    <2> HIDE DEF block
    <2>2. res \in [status : Nat,
                   code : Codes,
                   retryAfter : Nat \cup {NoHeader}]
        BY <2>1, <1>2 DEF Result, Codes
    <2>3. End("failed", res)
        BY <1>4 DEF Forbidden, block
    <2> HIDE DEF res
    <2> QED BY <2>2, <2>3, <1>1, EndPreserves
<1>5. CASE Unauthorized
    BY <1>1, <1>5, UnauthorizedPreserves
<1>6. CASE RateLimited /\ RateLimitHopeless
    <2> DEFINE res == Result(429, "none", RateLimitWait)
    <2>1. res \in [status : Nat,
                   code : Codes,
                   retryAfter : Nat \cup {NoHeader}]
        BY <1>2, RateLimitWaitBounded DEF Result, Codes
    <2>2. End("failed", res)
        BY <1>6 DEF RateLimited
    <2> HIDE DEF res
    <2> QED BY <2>1, <2>2, <1>1, EndPreserves
<1>7. CASE RateLimited /\ ~RateLimitHopeless
    <2>1. RateLimitWait \in Nat /\ RateLimitWait <= Ceiling
        BY <1>2, <1>7, RateLimitWaitBounded
    <2>2. FailedAttempt < policy.maxAttempts
        BY <1>2, <1>7, PolicyType DEF RateLimitHopeless, FailedAttempt, TypeOK
    <2> QED BY <2>1, <2>2, <1>1, <1>7, SleepPreserves DEF RateLimited
<1>8. CASE TransportError
    <2>1. /\ Backoff(FailedAttempt) \in Nat
          /\ Backoff(FailedAttempt) <= policy.maxDelay
        BY <1>2, BackoffBounded
    <2>2. Backoff(FailedAttempt) <= Ceiling
        BY <2>1, <1>2, PolicyType
    <2>3. FailedAttempt < policy.maxAttempts /\ Sleep(Backoff(FailedAttempt))
        BY <1>8 DEF TransportError, Retryable
    <2> QED BY <2>1, <2>2, <2>3, <1>1, SleepPreserves
<1>9. CASE OtherError
    <2> DEFINE res == Result(response.status, "none", NoHeader)
    <2>1. res \in [status : Nat,
                   code : Codes,
                   retryAfter : Nat \cup {NoHeader}]
        BY <1>2 DEF Result, Codes
    <2>2. End("failed", res)
        BY <1>9 DEF OtherError
    <2> HIDE DEF res
    <2> QED BY <2>1, <2>2, <1>1, EndPreserves
<1>10. CASE LoggerThrows
    <2> DEFINE res == Result(0, "logger-threw", NoHeader)
    <2>1. res \in [status : Nat, code : Codes, retryAfter : Nat \cup {NoHeader}]
        BY DEF Result, Codes
    <2>2. End("failed", res)
        BY <1>10 DEF LoggerThrows
    <2> HIDE DEF res
    <2> QED BY <2>1, <2>2, <1>1, EndPreserves
<1> QED BY <1>3, <1>4, <1>5, <1>6, <1>7, <1>8, <1>9, <1>10 DEF Handle

\* A sleep paid for, a retry counted.
LEMMA ResumePreserves == IInv /\ Resume => IInv'
<1> SUFFICES ASSUME IInv, Resume PROVE IInv'
    OBVIOUS
<1>1. /\ pc = "sleeping" /\ pc' = "token"
      /\ retryCount' = retryCount + 1
      /\ slept' = slept + wait
      /\ UNCHANGED <<policy, hook, retried401, stash, response, wait, result,
                     answers, log>>
    BY DEF Resume, FailedAttempt
<1>2. /\ TypeOK /\ retryCount \in Nat /\ slept \in Nat /\ wait \in Nat
      /\ Attempts' = Attempts
    BY <1>1 DEF IInv, TypeOK, Attempts
<1>3. TypeOK'
    BY <1>1, <1>2 DEF TypeOK
<1>4. Counted'
    <2>1. UncountedRetries' = UncountedRetries /\ UncountedRetries \in Nat
        BY <1>1 DEF UncountedRetries
    <2>2. Attempts = retryCount + UncountedRetries + 1
        BY <1>1 DEF IInv, Counted
    <2>3. retryCount + 1 < policy.maxAttempts
        BY <1>1 DEF IInv, Counted
    <2> QED BY <2>1, <2>2, <2>3, <1>1, <1>2 DEF Counted
<1>5. Slept'
    <2>1. Ceiling' = Ceiling /\ Ceiling \in Nat
        BY <1>1, <1>2, PolicyType DEF Ceiling
    <2>2. slept <= retryCount * Ceiling /\ wait <= Ceiling
        BY <1>1 DEF IInv, Slept
    <2>3. slept + wait <= (retryCount + 1) * Ceiling
        BY <2>1, <2>2, <1>2, OneMore
    <2> QED BY <2>1, <2>3, <1>1 DEF Slept
<1>6. LogFollows'
    BY <1>1, <1>2 DEF IInv, LogFollows, AttemptsWhole
<1> QED BY <1>3, <1>4, <1>5, <1>6 DEF IInv

\* Every step of the request preserves the invariant.
LEMMA NextPreserves == IInv /\ [Next]_vars => IInv'
<1> SUFFICES ASSUME IInv, [Next]_vars PROVE IInv'
    OBVIOUS
<1>1. CASE UNCHANGED vars
    <2>1. UNCHANGED <<policy, hook, pc, retryCount, retried401, stash, response, wait,
                      result, slept, answers, log>>
        BY <1>1 DEF vars, config
    <2> QED BY <2>1 DEF IInv, TypeOK, Counted, UncountedRetries, Attempts, Slept,
                        Ceiling, LogFollows, AttemptsWhole
<1> QED BY <1>1, GetTokenPreserves, AcquireSlotPreserves, DispatchPreserves,
           ReceivePreserves, HandlePreserves, ResumePreserves DEF Next, Finished

-----------------------------------------------------------------------------
(* The theorems *)

\* The invariant holds of every reachable state.
THEOREM Invariance == Spec => []IInv
BY InitHolds, NextPreserves, PTL DEF Spec

\* Every variable keeps its type.
THEOREM TypeCorrect == Spec => []TypeOK
<1>1. IInv => TypeOK
    BY DEF IInv
<1> QED BY <1>1, Invariance, PTL

\* A request is sent at most maxAttempts times, and once more if a 401 was
\* retried, whatever the server answers.
THEOREM SendsBounded == Spec => []AttemptsBounded
<1>1. IInv => AttemptsBounded
    <2> SUFFICES ASSUME IInv PROVE AttemptsBounded
        OBVIOUS
    <2>1. /\ TypeOK /\ Attempts \in Nat
          /\ retryCount \in Nat /\ policy.maxAttempts \in Nat
        BY AttemptsType, PolicyType DEF IInv, TypeOK
    <2>2. UncountedRetries \in Nat
        BY DEF UncountedRetries
    <2>3. Attempts <= retryCount + UncountedRetries + 1
        BY <2>1, <2>2 DEF IInv, TypeOK, Counted
    <2>4. retryCount < policy.maxAttempts
        BY DEF IInv, Counted
    <2> QED BY <2>1, <2>2, <2>3, <2>4 DEF AttemptsBounded, UncountedRetries
<1> QED BY <1>1, Invariance, PTL

\* The sleeps of a request come to no more than one ceiling for each retry that
\* the policy allows, whatever the server asks for.
THEOREM WaitBounded == Spec => []SleepBounded
<1>1. IInv => SleepBounded
    <2> SUFFICES ASSUME IInv PROVE SleepBounded
        OBVIOUS
    <2>1. /\ TypeOK /\ retryCount \in Nat /\ slept \in Nat
          /\ policy.maxAttempts \in Nat /\ Ceiling \in Nat
        BY PolicyType DEF IInv, TypeOK
    <2>2. retryCount <= policy.maxAttempts - 1 /\ policy.maxAttempts - 1 \in Nat
        BY <2>1, PolicyType DEF IInv, Counted
    <2>3. retryCount * Ceiling <= (policy.maxAttempts - 1) * Ceiling
        BY <2>1, <2>2, MoreRetries
    <2>4. slept <= retryCount * Ceiling
        BY DEF IInv, Slept
    <2>5. retryCount * Ceiling \in Nat /\ (policy.maxAttempts - 1) * Ceiling \in Nat
        BY <2>1, <2>2
    <2>6. slept <= (policy.maxAttempts - 1) * Ceiling
        BY <2>1, <2>3, <2>4, <2>5
    <2> QED BY <2>6 DEF SleepBounded, Ceiling
<1> QED BY <1>1, Invariance, PTL

\* Each attempt looks up its token, takes its slot, is observed as it is sent
\* and as it ends, in this order and before the next one begins.
THEOREM AttemptsInTurn == Spec => []AttemptsWhole
<1>1. IInv => AttemptsWhole
    BY DEF IInv, LogFollows
<1> QED BY <1>1, Invariance, PTL

-----------------------------------------------------------------------------
(***************************************************************************)
(* What is proved of a request and the answers it met, for every policy    *)
(* and every sequence of answers: it is made again only after one that may *)
(* be followed by a better one, and its caller is told of the last.        *)
(*                                                                         *)
(* Neither property is inductive: which answers were followed by another   *)
(* attempt is not in the program's state.  The invariant ties the history  *)
(* to it: there is one answer for each attempt that is not under way; all  *)
(* but the one being handled were retryable; and at most one of these was  *)
(* a 401, which left its mark.                                             *)
(***************************************************************************)

\* The answers that led, or are about to lead, to another attempt.
Passed ==
    1 .. (IF pc \in {"answered", "done", "failed"} THEN Len(answers) - 1
                                                   ELSE Len(answers))

\* One answer for each attempt, the one under way excepted.
OneAnswerEach ==
    /\ pc = "sent" => Len(answers) = Attempts - 1
    /\ pc # "sent" => Len(answers) = Attempts

\* The answer being handled is the last.
Handled ==
    pc = "answered" => Len(answers) > 0 /\ response = answers[Len(answers)]

\* Every answer that was passed was retryable, and a 401 left its mark.
PassedWell ==
    /\ \A i \in Passed : answers[i].status \in {NoResponse, 401, 429, 500}
    /\ \A i \in Passed : answers[i].status = 401 => retried401
    /\ \A i, j \in Passed :
          answers[i].status = 401 /\ answers[j].status = 401 => i = j

\* The result, when there is one, is of the last answer.
Told ==
    pc \in {"done", "failed"} /\ ~OfItsOwn(result) =>
        Len(answers) > 0 /\ ResultIsLastAnswer

AInv == OneAnswerEach /\ Handled /\ PassedWell /\ Told

\* The histories are a sequence and a count.
LEMMA AnswersType ==
    ASSUME IInv
    PROVE  /\ Len(answers) \in Nat /\ Attempts \in Nat
           /\ DOMAIN answers = 1 .. Len(answers)
           /\ \A i \in 1 .. Len(answers) : answers[i] \in Responses
BY AttemptsType DEF IInv, TypeOK

\* A request that has not begun has met no answer.
LEMMA AInvInit == Init => AInv
<1> SUFFICES ASSUME Init PROVE AInv
    OBVIOUS
<1>1. Attempts = 0
    <2>1. {i \in DOMAIN log : log[i].step = "request"} = {}
        BY DEF Init
    <2> QED BY <2>1, FS_EmptySet DEF Attempts
<1> QED BY <1>1 DEF Init, AInv, OneAnswerEach, Handled, PassedWell, Passed, Told

\* A step on the way to the dispatch passes no answer and meets none.
LEMMA Approach ==
    ASSUME IInv, AInv, pc \in {"token", "slot", "sleeping"},
           pc' \in {"token", "slot", "observe"},
           Attempts' = Attempts,
           UNCHANGED <<answers, retried401>>
    PROVE  AInv'
BY DEF AInv, OneAnswerEach, Handled, PassedWell, Passed, Told

\* A request rejected before its dispatch is told of no answer.
LEMMA RejectedTold ==
    ASSUME IInv, AInv, pc \in {"token", "slot"}, Rethrow
    PROVE  AInv'
<1>1. /\ pc' = "failed" /\ result'.code = "not-dispatched"
      /\ UNCHANGED <<answers, retried401, log>>
    BY DEF Rethrow, Result, config
<1>2. Attempts' = Attempts
    BY <1>1 DEF Attempts
<1>3. Len(answers) \in Nat /\ Passed' \subseteq Passed
    BY <1>1, AnswersType DEF Passed
<1>4. PassedWell'
    BY <1>1, <1>3 DEF AInv, PassedWell
<1> QED BY <1>1, <1>2, <1>4 DEF AInv, OneAnswerEach, Handled, Told, OfItsOwn

\* The dispatch makes an attempt that has no answer yet.
LEMMA DispatchAnswers ==
    ASSUME IInv, AInv, Dispatch
    PROVE  AInv'
<1>1. /\ pc = "observe" /\ pc' = "sent"
      /\ UNCHANGED <<answers, retried401>>
      /\ Logged("request", Attempts + 1)
    BY DEF Dispatch
<1>2. Attempts' = Attempts + 1
    <2>1. Attempts + 1 \in Nat /\ TypeOK
        BY AnswersType DEF IInv
    <2> QED BY <2>1, <1>1, LogGrows
<1>3. Len(answers) = Attempts /\ Attempts \in Nat
    BY <1>1, AnswersType DEF AInv, OneAnswerEach
<1>4. Passed' = Passed
    BY <1>1 DEF Passed
<1>5. PassedWell'
    BY <1>1, <1>4 DEF AInv, PassedWell
<1> QED BY <1>1, <1>2, <1>3, <1>5 DEF AInv, OneAnswerEach, Handled, Told

\* The answer is the last, and is handled next.
LEMMA ReceiveAnswers ==
    ASSUME IInv, AInv, Receive
    PROVE  AInv'
<1>1. PICK r \in Responses : response' = r /\ answers' = Append(answers, r)
    BY DEF Receive
<1>2. /\ pc = "sent" /\ pc' = "answered"
      /\ UNCHANGED <<retried401, log>>
    BY DEF Receive, config
<1>3. /\ Len(answers) \in Nat /\ Attempts \in Nat
      /\ Len(answers') = Len(answers) + 1
      /\ answers'[Len(answers) + 1] = r
      /\ \A i \in 1 .. Len(answers) : answers'[i] = answers[i]
    BY <1>1, AnswersType DEF IInv, TypeOK
<1>4. Attempts' = Attempts /\ Len(answers) = Attempts - 1
    BY <1>2 DEF Attempts, AInv, OneAnswerEach
<1>5. Passed' = 1 .. Len(answers) /\ Passed = 1 .. Len(answers)
    BY <1>2, <1>3 DEF Passed
<1>6. PassedWell'
    BY <1>2, <1>3, <1>5 DEF AInv, PassedWell
<1> QED BY <1>1, <1>2, <1>3, <1>4, <1>6 DEF AInv, OneAnswerEach, Handled, Told

\* The end of the attempt is logged, and is no attempt.
LEMMA TerminalNoAttempt ==
    ASSUME IInv, pc = "answered", Logged("terminal", stash)
    PROVE  Attempts' = Attempts
BY TerminalInTurn

\* A response that is handled becomes the result as the server reported it.
LEMMA EndAnswers ==
    ASSUME IInv, AInv, pc = "answered", Attempts' = Attempts,
           NEW state \in {"done", "failed"}, NEW res,
           End(state, res),
           OfItsOwn(res) \/
              /\ res.status = response.status
              /\ state = "done" <=> response.status = 200
              /\ response.status \in {403, 429} /\ response.retryAfter # NoHeader
                    => res.retryAfter = response.retryAfter,
           UNCHANGED <<response, answers>>
    PROVE  AInv'
<1>1. /\ pc' = state /\ result' = res
      /\ UNCHANGED <<answers, retried401>>
    BY DEF End, config
<1>2. Len(answers) > 0 /\ response = answers[Len(answers)]
    BY DEF AInv, Handled
<1>3. Passed' = Passed
    BY <1>1 DEF Passed
<1>4. PassedWell'
    BY <1>1, <1>3 DEF AInv, PassedWell
<1>5. Told'
    BY <1>1, <1>2 DEF Told, ResultIsLastAnswer
<1>6. OneAnswerEach'
    BY <1>1 DEF AInv, OneAnswerEach
<1> QED BY <1>1, <1>4, <1>5, <1>6 DEF AInv, Handled

\* A response that may be followed by a better one is passed, and a 401 only
\* if it is the first.
LEMMA RetryAnswers ==
    ASSUME IInv, AInv, pc = "answered", Attempts' = Attempts,
           pc' \in {"token", "sleeping"},
           \/ response.status \in {NoResponse, 429, 500} /\ UNCHANGED retried401
           \/ response.status = 401 /\ ~retried401 /\ retried401',
           UNCHANGED <<response, answers>>
    PROVE  AInv'
<1>1. /\ Len(answers) \in Nat /\ Len(answers) > 0
      /\ response = answers[Len(answers)]
    BY AnswersType DEF AInv, Handled
<1>2. Passed' = 1 .. Len(answers) /\ Passed = 1 .. Len(answers) - 1
    BY DEF Passed
<1>3. PassedWell'
    <2>1. /\ \A i \in Passed : answers[i].status \in {NoResponse, 401, 429, 500}
          /\ \A i \in Passed : answers[i].status = 401 => retried401
          /\ \A i, j \in Passed :
                answers[i].status = 401 /\ answers[j].status = 401 => i = j
        BY DEF AInv, PassedWell
    <2>2. \A i \in Passed' : i \in Passed \/ i = Len(answers)
        BY <1>1, <1>2
    <2>3. NoResponse # 401
        BY DEF NoResponse
    <2>4. CASE response.status \in {NoResponse, 429, 500} /\ UNCHANGED retried401
        BY <1>1, <2>1, <2>2, <2>3, <2>4 DEF PassedWell
    <2>5. CASE response.status = 401 /\ ~retried401 /\ retried401'
        BY <1>1, <2>1, <2>2, <2>5 DEF PassedWell
    <2> QED BY <2>4, <2>5
<1> QED BY <1>3 DEF AInv, OneAnswerEach, Handled, Told

\* However the response is handled, it ends the request or may be passed.
LEMMA HandleAnswers ==
    ASSUME IInv, AInv, Handle
    PROVE  AInv'
<1>1. /\ pc = "answered" /\ Logged("terminal", stash)
      /\ UNCHANGED <<response, answers>>
    BY DEF Handle
<1>2. Attempts' = Attempts
    BY <1>1, TerminalNoAttempt
<1>3. CASE Succeed
    BY <1>1, <1>2, <1>3, EndAnswers DEF Succeed, Result
<1>4. CASE Forbidden
    <2> DEFINE res == Result(403,
                             IF response.retryAfter # NoHeader \/ response.blockText
                             THEN "ip-block" ELSE "forbidden",
                             response.retryAfter)
    <2>1. End("failed", res) /\ response.status = 403
        BY <1>4 DEF Forbidden
    <2>2. res.status = 403 /\ res.retryAfter = response.retryAfter
        BY DEF Result
    <2> HIDE DEF res
    <2> QED BY <2>1, <2>2, <1>1, <1>2, EndAnswers
<1>5. CASE Unauthorized
    BY <1>1, <1>2, <1>5, RetryAnswers DEF Unauthorized
<1>6. CASE RateLimited
    <2>1. CASE RateLimitHopeless /\ End("failed", Result(429, "none", RateLimitWait))
        <3> DEFINE res == Result(429, "none", RateLimitWait)
        <3>1. response.status = 429 /\ res.status = 429 /\ res.retryAfter = RateLimitWait
            BY <1>6 DEF RateLimited, Result
        <3>2. response.retryAfter # NoHeader => RateLimitWait = response.retryAfter
            BY DEF RateLimitWait
        <3>3. End("failed", res)
            BY <2>1
        <3> HIDE DEF res
        <3> QED BY <3>1, <3>2, <3>3, <1>1, <1>2, EndAnswers
    <2>2. CASE Sleep(RateLimitWait)
        BY <1>1, <1>2, <1>6, <2>2, RetryAnswers DEF RateLimited, Sleep, config
    <2> QED BY <1>6, <2>1, <2>2 DEF RateLimited
<1>7. CASE TransportError
    BY <1>1, <1>2, <1>7, RetryAnswers DEF TransportError, Retryable, Sleep, config
<1>8. CASE OtherError
    BY <1>1, <1>2, <1>8, EndAnswers DEF OtherError, Result
<1>9. CASE LoggerThrows
    BY <1>1, <1>2, <1>9, EndAnswers DEF LoggerThrows, Result, OfItsOwn
<1> QED BY <1>1, <1>3, <1>4, <1>5, <1>6, <1>7, <1>8, <1>9 DEF Handle

\* Every step of the request keeps the history tied to its state.
LEMMA AInvNext == IInv /\ AInv /\ [Next]_vars => AInv'
<1> SUFFICES ASSUME IInv, AInv, [Next]_vars PROVE AInv'
    OBVIOUS
<1>1. CASE GetToken \/ AcquireSlot
    <2>1. CASE Rethrow
        BY <1>1, <2>1, RejectedTold DEF GetToken, AcquireSlot
    <2>2. CASE ~Rethrow
        <3>1. PICK step \in {"token", "slot"} : Logged(step, Attempts + 1)
            BY <1>1, <2>2 DEF GetToken, AcquireSlot
        <3>2. Attempts + 1 \in Nat /\ TypeOK
            BY AnswersType DEF IInv
        <3>3. Attempts' = Attempts
            BY <3>1, <3>2, LogGrows
        <3> QED BY <1>1, <2>2, <3>3, Approach DEF GetToken, AcquireSlot, config
    <2> QED BY <2>1, <2>2
<1>2. CASE Resume
    <2>1. Attempts' = Attempts
        BY <1>2 DEF Resume, Attempts
    <2> QED BY <1>2, <2>1, Approach DEF Resume
<1>3. CASE UNCHANGED vars
    <2>1. UNCHANGED <<pc, retried401, response, result, answers, log>>
        BY <1>3 DEF vars, config
    <2> QED BY <2>1 DEF AInv, OneAnswerEach, Attempts, Handled, PassedWell,
                        Passed, Told, ResultIsLastAnswer
<1> QED BY <1>1, <1>2, <1>3, DispatchAnswers, ReceiveAnswers, HandleAnswers
        DEF Next, Finished

-----------------------------------------------------------------------------
(* The theorems *)

\* The history is tied to the state in every reachable one.
THEOREM AnswersTied == Spec => [](IInv /\ AInv)
BY InitHolds, NextPreserves, AInvInit, AInvNext, PTL DEF Spec

\* A request is made again only after a network error, a 429, a 5xx or its
\* first 401.
THEOREM RetriesJustified == Spec => []OnlyRetriesRetryable
<1>1. IInv /\ AInv => OnlyRetriesRetryable
    <2> SUFFICES ASSUME IInv, AInv PROVE OnlyRetriesRetryable
        OBVIOUS
    <2> DEFINE refused == {i \in 1 .. Attempts - 1 : answers[i].status = 401}
    <2>1. 1 .. Attempts - 1 \subseteq Passed
        BY AnswersType DEF AInv, OneAnswerEach, Passed
    <2>2. \A i \in 1 .. Attempts - 1 :
             answers[i].status \in {NoResponse, 401, 429, 500}
        BY <2>1 DEF AInv, PassedWell
    <2>3. \A i, j \in refused : i = j
        BY <2>1 DEF AInv, PassedWell
    <2> HIDE DEF refused
    <2>4. Cardinality(refused) <= 1
        <3>1. CASE refused = {}
            BY <3>1, FS_EmptySet
        <3>2. CASE refused # {}
            <4>1. PICK i \in refused : TRUE
                BY <3>2
            <4>2. refused = {i}
                BY <4>1, <2>3
            <4> QED BY <4>2, FS_Singleton
        <3> QED BY <3>1, <3>2
    <2> QED BY <2>2, <2>4 DEF OnlyRetriesRetryable, refused
<1> QED BY <1>1, AnswersTied, PTL

\* What the caller receives is the end of the last attempt, with the wait the
\* server asked for.
THEOREM ResultTold == Spec => []ResultIsLastAnswer
<1>1. AInv => ResultIsLastAnswer
    BY DEF AInv, Told, ResultIsLastAnswer
<1> QED BY <1>1, AnswersTied, PTL
=============================================================================
