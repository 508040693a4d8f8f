----------------------------- MODULE RateBudget -----------------------------
(***************************************************************************)
(* What the rate limiter promises, with none of its mechanism: a clock, and *)
(* for each request budget the history of the requests let through.  A     *)
(* request names the budgets it draws on; it is let through only when each *)
(* of them has room, and it is then counted in all of them in one step.    *)
(*                                                                         *)
(* Nothing here waits, prunes or remembers less than the whole history:    *)
(* module RateLimiter, which does all three, is shown to implement this.   *)
(***************************************************************************)
EXTENDS Integers, Sequences, FiniteSets

CONSTANTS
    Budgets,    \* the budgets that are metered
    Limit,      \* [Budgets -> Nat]: requests a budget allows per window
    Demands,    \* the sets of budgets one request may draw on
    Window      \* the length of the sliding window, in clock ticks

VARIABLES
    now,        \* the clock
    granted     \* [Budgets -> Seq(Nat)]: when each request was let through

vars == <<now, granted>>

\* How many requests budget b has let through within the window ending now.
Recent(b) ==
    Cardinality({i \in DOMAIN granted[b] : granted[b][i] > now - Window})

Init ==
    /\ now = 0
    /\ granted = [b \in Budgets |-> <<>>]

Grant(demand) ==
    /\ \A b \in demand : Recent(b) < Limit[b]
    /\ granted' = [b \in Budgets |->
                     IF b \in demand THEN Append(granted[b], now) ELSE granted[b]]
    /\ UNCHANGED now

Tick ==
    /\ now' = now + 1
    /\ UNCHANGED granted

Next == Tick \/ \E demand \in Demands : Grant(demand)

Spec == Init /\ [][Next]_vars
=============================================================================
