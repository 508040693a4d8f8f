----------------------------- MODULE RateLimiter -----------------------------
(***************************************************************************)
(* The client-side throttle: src/rate-limit/rate-limiter.ts with the limit *)
(* table of src/rate-limit/rate-limits.ts.                                 *)
(*                                                                         *)
(* A request to the API calls MultiWindowRateLimiter.acquire and goes on   *)
(* when the promise resolves.  acquire runs without interruption up to its *)
(* `await sleep(waitMs)`, so one action is one pass of its loop: look at   *)
(* the windows the request draws on, then either record it in all of them  *)
(* or go to sleep until the tightest has room, and look again.  Other      *)
(* requests run in between; nothing queues them, so a late caller may take *)
(* the slot a sleeper was waiting for.                                     *)
(*                                                                         *)
(* The clock is Date.now(), taken to be monotone.  A timer fires at its    *)
(* deadline or later, by at most Slack.                                    *)
(***************************************************************************)
EXTENDS Integers, Sequences, FiniteSets, SequencesExt

CONSTANTS
    Callers,              \* the acquire calls of a run, one per request attempt
    OpKeys,               \* the operation keys writes are made under
    Undefined,            \* a write without an operation key
    ListedLimits,         \* WRITE_LIMITS: a function from listed keys to limits
    DefaultWriteLimit,    \* DEFAULT_WRITE_LIMIT, for a key WRITE_LIMITS lacks
    ReadLimit,            \* READ_LIMIT or its override
    WriteAggregateLimit,  \* WRITE_AGGREGATE_LIMIT or its override
    Window,               \* windowMs
    LastCall,             \* bound: no acquire is called after this time
    Slack,                \* bound: how late a timer may fire
    Horizon               \* bound: the clock stops here

Unspecified == "(unspecified)"

ASSUME ConstantsAssumption ==
    /\ OpKeys \cap {"read", "aggregate", Unspecified} = {}
    /\ Undefined \notin OpKeys
    /\ ListedLimits \in [DOMAIN ListedLimits -> Nat \ {0}]
    /\ DefaultWriteLimit \in Nat \ {0}
    /\ ReadLimit \in Nat \ {0}
    /\ WriteAggregateLimit \in Nat \ {0}
    /\ Window \in Nat \ {0}
    /\ LastCall \in Nat
    /\ Slack \in Nat
    /\ Horizon \in Nat

\* The key a write's own window is kept under: opKey ?? "(unspecified)".
WriteKeys == OpKeys \cup {Unspecified}
KeyOf(opKey) == IF opKey = Undefined THEN Unspecified ELSE opKey

\* The read window, the aggregate write window and a window per write key.
Windows == {"read", "aggregate"} \cup WriteKeys

\* The limit each SlidingWindow is constructed with.
LimitOf(b) ==
    CASE b = "read"                -> ReadLimit
      [] b = "aggregate"           -> WriteAggregateLimit
      [] b \in WriteKeys -> IF b \in OpKeys \cap DOMAIN ListedLimits
                              THEN ListedLimits[b]
                              ELSE DefaultWriteLimit

Descriptors ==
    [kind : {"read"}, opKey : {Undefined}]
        \cup [kind : {"write"}, opKey : OpKeys \cup {Undefined}]

VARIABLES
    now,        \* Date.now()
    descriptor, \* [Callers -> Descriptors]: what each caller asks for
    pc,         \* [Callers -> {"idle", "sleeping", "granted"}]
    wakeAt,     \* [Callers -> Nat]: deadline of a sleeping caller's timer
    created,    \* the keys of writeWindows, which is filled on demand
    stamps,     \* [Windows -> Seq(Nat)]: the timestamps each window keeps
    granted     \* history: when each window recorded a request, never pruned

vars == <<now, descriptor, pc, wakeAt, created, stamps, granted>>

-----------------------------------------------------------------------------
(* One window *)

\* Prune(s, t) drops the timestamps at the head of s that have left the window
\* ending at t; it stops at the first one still inside.
Prune(s, t) ==
    LET first == SelectInSeq(s, LAMBDA ts : ts > t - Window)
    IN  IF first = 0 THEN <<>> ELSE SubSeq(s, first, Len(s))

\* How long until a pruned window s with limit n has room at time t.
\* (Mutant: waits for the newest request to leave, not the oldest.)
TimeUntilRoom_Newest(s, n, t) == IF Len(s) < n THEN 0 ELSE s[Len(s)] + Window - t
TimeUntilRoom(s, n, t) == IF Len(s) < n THEN 0 ELSE s[1] + Window - t

-----------------------------------------------------------------------------
(* acquire *)

\* The windows a request draws on.
WindowsOf(d) ==
    IF d.kind = "read" THEN {"read"} ELSE {"aggregate", KeyOf(d.opKey)}

\* writeWindowFor: the key's window is created, empty, on the first write to it.
Missing(d) == WindowsOf(d) \ ({"read", "aggregate"} \cup created)
\* (Mutant: a new window on every write, the test for an existing one lost.)
Opened_Always(d) ==
    [b \in Windows |-> IF b \in WindowsOf(d) \ {"read", "aggregate"}
                         THEN <<>> ELSE stamps[b]]
Opened(d) == [b \in Windows |-> IF b \in Missing(d) THEN <<>> ELSE stamps[b]]

\* Every window the request draws on is pruned, whether or not it goes ahead.
Pruned(d, ws) ==
    [b \in Windows |-> IF b \in WindowsOf(d) THEN Prune(ws[b], now) ELSE ws[b]]

Waits(d, ws) == {TimeUntilRoom(ws[b], LimitOf(b), now) : b \in WindowsOf(d)}

\* (Mutants: the request is recorded in the first of its windows only; the
\* start of the window is recorded in place of the time.)
Record_First(d, seqs) ==
    [b \in Windows |->
        IF b \in WindowsOf(d) \cap {"read", "aggregate"}
          THEN Append(seqs[b], now) ELSE seqs[b]]
Record_WindowStart(d, seqs) ==
    [b \in Windows |->
        IF b \in WindowsOf(d) THEN Append(seqs[b], now - Window) ELSE seqs[b]]
Record(d, seqs) ==
    [b \in Windows |->
        IF b \in WindowsOf(d) THEN Append(seqs[b], now) ELSE seqs[b]]

\* No window makes the request wait: it is recorded in all of them, at once.
Admit(c, ws) ==
    LET d == descriptor[c]
        pruned == Pruned(d, ws)
    IN  /\ \A w \in Waits(d, pruned) : w <= 0
        /\ stamps' = Record(d, pruned)
        /\ granted' = Record(d, granted)
        /\ pc' = [pc EXCEPT ![c] = "granted"]
        /\ UNCHANGED wakeAt

\* Some window is full: sleep for the longest of the waits.
\* (Mutant: the look itself is counted, as if it were a request let through.)
Throttle_Counted(c, ws) ==
    LET d == descriptor[c]
        pruned == Pruned(d, ws)
    IN  \E wait \in Waits(d, pruned) :
          /\ wait > 0
          /\ \A w \in Waits(d, pruned) : w <= wait
          /\ stamps' = Record(d, pruned)
          /\ pc' = [pc EXCEPT ![c] = "sleeping"]
          /\ wakeAt' = [wakeAt EXCEPT ![c] = now + wait]
          /\ UNCHANGED granted
Throttle(c, ws) ==
    LET d == descriptor[c]
        pruned == Pruned(d, ws)
    IN  \E wait \in Waits(d, pruned) :
          /\ wait > 0
          /\ \A w \in Waits(d, pruned) : w <= wait
          /\ stamps' = pruned
          /\ pc' = [pc EXCEPT ![c] = "sleeping"]
          /\ wakeAt' = [wakeAt EXCEPT ![c] = now + wait]
          /\ UNCHANGED granted

\* The call, up to its first await.
Call(c) ==
    /\ pc[c] = "idle"
    /\ now <= LastCall
    /\ created' = created \cup Missing(descriptor[c])
    /\ \/ Admit(c, Opened(descriptor[c]))
       \/ Throttle(c, Opened(descriptor[c]))
    /\ UNCHANGED <<now, descriptor>>

\* The timer has fired: the loop looks at the windows again.
\* (Mutant: the request goes ahead after its sleep without looking.)
Wake_NoSecondLook(c) ==
    /\ pc[c] = "sleeping"
    /\ wakeAt[c] <= now
    /\ stamps' = Record(descriptor[c], Pruned(descriptor[c], stamps))
    /\ granted' = Record(descriptor[c], granted)
    /\ pc' = [pc EXCEPT ![c] = "granted"]
    /\ UNCHANGED <<now, descriptor, created, wakeAt>>
Wake(c) ==
    /\ pc[c] = "sleeping"
    /\ wakeAt[c] <= now
    /\ Admit(c, stamps) \/ Throttle(c, stamps)
    /\ UNCHANGED <<now, descriptor, created>>

Tick ==
    /\ now < Horizon
    /\ \A c \in Callers : pc[c] = "sleeping" => now < wakeAt[c] + Slack
    /\ now' = now + 1
    /\ UNCHANGED <<descriptor, pc, wakeAt, created, stamps, granted>>

\* The program has nothing left to do once no caller sleeps.
Finished ==
    /\ \A c \in Callers : pc[c] # "sleeping"
    /\ UNCHANGED vars

Init ==
    /\ now = 0
    /\ descriptor \in [Callers -> Descriptors]
    /\ pc = [c \in Callers |-> "idle"]
    /\ wakeAt = [c \in Callers |-> 0]
    /\ created = {}
    /\ stamps = [b \in Windows |-> <<>>]
    /\ granted = [b \in Windows |-> <<>>]

Next ==
    \/ Tick
    \/ \E c \in Callers : Call(c)
    \/ \E c \in Callers : Wake(c)
    \/ Finished

Spec == Init /\ [][Next]_vars

\* Time passes, and a timer that is due is run by the event loop.  Nothing
\* obliges the application to make a request.
FairSpec == Spec /\ WF_vars(Tick) /\ \A c \in Callers : WF_vars(Wake(c))

-----------------------------------------------------------------------------
(* Properties *)

\* Every variable has its type; a window keeps instants.
TypeOK ==
    /\ now \in Nat
    /\ descriptor \in [Callers -> Descriptors]
    /\ pc \in [Callers -> {"idle", "sleeping", "granted"}]
    /\ wakeAt \in [Callers -> Nat]
    /\ created \subseteq WriteKeys
    /\ stamps \in [Windows -> Seq(Nat)]
    /\ granted \in [Windows -> Seq(Nat)]

\* In no stretch of time as long as the window, wherever it begins, are more
\* requests let through than the read, the aggregate or the operation's own
\* budget allows, whatever the callers woke up to and in which order.
WithinBudget ==
    \A b \in Windows : \A t \in 0 .. now :
        Cardinality({i \in DOMAIN granted[b] :
                        /\ t <= granted[b][i]
                        /\ granted[b][i] < t + Window}) <= LimitOf(b)

\* A request is counted once in each window it draws on, and only when it goes
\* ahead: a caller that looks, sleeps and looks again leaves no mark meanwhile.
CountedOnce ==
    \A b \in Windows :
        Len(granted[b]) =
            Cardinality({c \in Callers : /\ pc[c] = "granted"
                                         /\ b \in WindowsOf(descriptor[c])})

\* A caller is never made to sleep longer than it must: at each instant before
\* its deadline some window it draws on is full, by the whole history.
NoOversleep ==
    \A c \in Callers : pc[c] = "sleeping" =>
        \A t \in now .. wakeAt[c] - 1 : \E b \in WindowsOf(descriptor[c]) :
            LimitOf(b) <= Cardinality({i \in DOMAIN granted[b] :
                                          granted[b][i] > t - Window})

\* The pruned windows decide exactly as the unpruned history would.
Budget == INSTANCE RateBudget WITH
              Budgets <- Windows,
              Limit   <- [b \in Windows |-> LimitOf(b)],
              Demands <- {WindowsOf(d) : d \in Descriptors}

\* acquire implements the budget: pruning, sleeping and looking again never
\* let a request through that counting the whole history would have held back,
\* and count it in every window it draws on in the one step.
ImplementsBudget == Budget!Spec

\* Of finitely many requests none is starved: a throttled caller is admitted,
\* although callers that arrive later may be admitted before it.
SleeperAdmitted ==
    \A c \in Callers : (pc[c] = "sleeping") ~> (pc[c] = "granted")
=============================================================================
