------------------------------- MODULE Client -------------------------------
(***************************************************************************)
(* A client at work: calls of its methods, which share one rate limiter,   *)
(* one token cache and one server (src/client/datto-rmm-client.ts wires    *)
(* them).  A call validates its body, and then, for every request it makes *)
(* (the first, a retry, the retry after a 401, the next page), looks up a  *)
(* token, waits for a slot and sends; the server carries a write out or    *)
(* not, whatever it answers, and the answer is validated.                  *)
(*                                                                         *)
(* The parts are taken at their promises: the limiter is RateBudget, which *)
(* RateLimiter implements; the cache hands out a token with its margin,    *)
(* or a new one (AuthManager); the response handler repeats a request as   *)
(* HttpTransport does, the pauses left to the clock.  A token is refused   *)
(* here for its age only; revoked tokens are in AuthManager.               *)
(***************************************************************************)
EXTENDS Operations, Sequences

CONSTANTS
    Calls,          \* the calls the application makes
    Mixes,          \* [Calls -> <<namespace, method>>], the calls made
                    \* together; Unused where there is none
    ReadLimit,      \* requests per window: reads,
    AggregateLimit, \* all writes,
    WriteLimit,     \* and the writes of one operation
    Window,         \* the length of the window, in clock ticks
    MaxAttempts,    \* retry.maxAttempts
    TokenLife,      \* expires_in of every token, in clock ticks
    RefreshPct,     \* tokenRefreshPct
    MaxPages,       \* bound: the longest collection
    Horizon         \* bound: the last instant

ASSUME ClientAssumption ==
    /\ ReadLimit \in Nat \ {0}
    /\ AggregateLimit \in Nat \ {0}
    /\ WriteLimit \in Nat \ {0}
    /\ Window \in Nat \ {0}
    /\ MaxAttempts \in Nat \ {0}
    /\ TokenLife \in Nat \ {0}
    /\ RefreshPct \in 0 .. 100
    /\ MaxPages \in Nat \ {0}
    /\ Horizon \in Nat

VARIABLES
    now,        \* the clock
    granted,    \* the limiter: when each budget let requests through
    cache,      \* when the cached token expires; NoToken if there is none
    call        \* [Calls -> the state of the call]

vars == <<now, granted, cache, call>>

NoToken == 0
Unused == <<"none", "none">>

\* The methods by name, and what each calls.
Names == {<<m.ns, m.method>> : m \in Methods}
CallsOf ==
    [name \in Names |->
       (CHOOSE m \in Methods : <<m.ns, m.method>> = name).calls]

ASSUME MixesAssumption == Mixes \subseteq [Calls -> Names \cup {Unused}]

\* The method the table names for a route.
MethodAt(verb, path) ==
    LET e == CHOOSE e \in OPERATION_MAP : e.verb = verb /\ e.path = path
    IN  <<e.ns, e.method>>

Writes(name) == CallsOf[name].verb # "get"

\* The budgets a call draws on.
Budgets == {"read", "aggregate"} \cup WRITE_LIMITS
LimitOf ==
    [b \in Budgets |-> CASE b = "read" -> ReadLimit
                         [] b = "aggregate" -> AggregateLimit
                         [] OTHER -> WriteLimit]
DemandOf(name) ==
    IF CallsOf[name].opKey = NoKey THEN {"read"}
                                   ELSE {"aggregate", CallsOf[name].opKey}

Limiter == INSTANCE RateBudget WITH
               Limit <- LimitOf, Demands <- {DemandOf(name) : name \in Names}

NoAnswer == [status |-> "none", form |-> "none", more |-> FALSE]

\* A call: where it is, its method, whether its body said nothing; of the
\* request under way the retries, whether it was refused a token, the token it
\* holds and since when; and for the properties, how often it was sent, what
\* the server carried out, how many attempts ended in no answer or a 5xx,
\* whether a token was refused that had not been held for its margin, and the
\* forms of what was lost.
Idle ==
    [pc |-> "idle", name |-> Unused, blank |-> FALSE, page |-> 1,
     retries |-> 0, refused |-> FALSE, token |-> NoToken, since |-> 0,
     answer |-> NoAnswer, result |-> "none",
     sends |-> 0, did |-> <<>>, silent |-> 0, early |-> FALSE,
     lost |-> {}]

-----------------------------------------------------------------------------
(* The call *)

Set(c, record) == call' = [call EXCEPT ![c] = record]

\* A request starts: a page, or the call's only one.
Request(record) ==
    [record EXCEPT !.pc = "token", !.retries = 0, !.refused = FALSE,
                   !.answer = NoAnswer]

\* The request is made again, under a token looked up anew.
Again(record) == [record EXCEPT !.pc = "token", !.answer = NoAnswer]

Ended(record, result) ==
    [record EXCEPT !.pc = "done", !.result = result, !.retries = 0,
                   !.refused = FALSE, !.answer = NoAnswer]

\* The application calls a method.  A body that does not validate ends the
\* call before anything is sent.
Begin(c) ==
    /\ call[c].pc = "idle"
    /\ call[c].name # Unused
    /\ LET schema == CallsOf[call[c].name].body
       IN  IF schema = NoBody THEN Set(c, Request(call[c]))
           ELSE \E body \in Bodies(schema) :
                   LET given == [call[c] EXCEPT !.blank = body.given = {}]
                   IN  Set(c, IF validateRequest(body, schema)
                              THEN Request(given)
                              ELSE Ended(given, "request"))
    /\ UNCHANGED <<now, granted, cache>>

\* getToken: the cached token if enough of its life is left, else a new one.
\* (Mutant: a cached token is good until it is refused.)
Usable_Cached(token) == token # NoToken
Usable(token) ==
    token # NoToken /\ (token - now) * 100 >= RefreshPct * TokenLife

LookUpToken(c) ==
    /\ call[c].pc = "token"
    /\ \/ /\ Usable(cache)
          /\ Set(c, [call[c] EXCEPT !.pc = "slot", !.token = cache,
                                    !.since = now])
          /\ UNCHANGED cache
       \/ /\ ~Usable(cache)
          /\ cache' = now + TokenLife
          /\ Set(c, [call[c] EXCEPT !.pc = "slot", !.token = now + TokenLife,
                                    !.since = now])
       \/ /\ ~Usable(cache)
          /\ Set(c, Ended(call[c], "no token"))
          /\ UNCHANGED cache
    /\ UNCHANGED <<now, granted>>

Sent(record) == [record EXCEPT !.pc = "sent", !.sends = @ + 1]

\* The limiter lets the request through, and it is sent.
Send(c) ==
    /\ call[c].pc = "slot"
    /\ Limiter!Grant(DemandOf(call[c].name))
    /\ Set(c, Sent(call[c]))
    /\ UNCHANGED cache

-----------------------------------------------------------------------------
(* The server *)

Answered(record, status, form, more) ==
    [record EXCEPT !.pc = "answered", !.token = NoToken, !.since = 0,
                   !.answer = [status |-> status, form |-> form,
                               more |-> more]]

\* A token past its life is refused.
Refuse(c) ==
    /\ call[c].pc = "sent"
    /\ call[c].token <= now
    /\ LET early == (now - call[c].since) * 100 < RefreshPct * TokenLife
           seen == [call[c] EXCEPT !.early = @ \/ early]
       IN  Set(c, Answered(seen, "unauthorized", "none", FALSE))
    /\ UNCHANGED <<now, granted, cache>>

\* What the route is for is done.
Done(c) ==
    LET calls == CallsOf[call[c].name]
    IN  IF Writes(call[c].name)
        THEN [call[c] EXCEPT !.did = Append(@, MethodAt(calls.verb, calls.path))]
        ELSE call[c]

\* ... and answered as documented, or with a value of the wrong type in it.
Serve(c) ==
    /\ call[c].pc = "sent"
    /\ call[c].token > now
    /\ LET calls == CallsOf[call[c].name]
           entity == AnswerAt(calls.verb, calls.path).entity
       IN  \E form \in Forms(entity) \cup {"wrong"}, more \in BOOLEAN :
              /\ more => calls.reads = "pages" /\ call[c].page < MaxPages
              /\ Set(c, Answered(Done(c), "ok", form, more))
    /\ UNCHANGED <<now, granted, cache>>

\* ... or not done: refused for another reason, or for the server's own count
\* of requests.
Decline(c) ==
    /\ call[c].pc = "sent"
    /\ call[c].token > now
    /\ \E status \in {"declined", "limited"} :
          Set(c, Answered(call[c], status, "none", FALSE))
    /\ UNCHANGED <<now, granted, cache>>

\* ... or the answer is a 5xx, or is lost, or comes after the timeout: done or
\* not, the client cannot tell.
Fail(c) ==
    /\ call[c].pc = "sent"
    /\ \E record \in {call[c], Done(c)} :
          /\ record = call[c] \/ call[c].token > now
          /\ Set(c, Answered([record EXCEPT !.silent = @ + 1], "failed",
                             "none", FALSE))
    /\ UNCHANGED <<now, granted, cache>>

-----------------------------------------------------------------------------
(* The answer *)

\* A 2xx: the value is validated; a page that has a next one is followed by
\* its request, anything else ends the call.
\* (Mutant: an answer that does not validate is taken for a failed attempt.)
Accept_RetryInvalid(c) ==
    LET record == call[c]
        calls == CallsOf[record.name]
        form == record.answer.form
        reading == Reading(calls, AnswerAt(calls.verb, calls.path), form)
        read == IF reading = "whole" THEN record
                                     ELSE [record EXCEPT !.lost = @ \cup {form}]
    IN  /\ record.answer.status = "ok"
        /\ Set(c, IF reading = "rejected"
                  THEN IF record.retries + 1 < MaxAttempts
                       THEN Again([read EXCEPT !.retries = @ + 1])
                       ELSE Ended(read, "response")
                  ELSE IF record.answer.more
                  THEN Request([read EXCEPT !.page = @ + 1])
                  ELSE Ended(read, "ok"))
        /\ UNCHANGED cache
Accept(c) ==
    LET record == call[c]
        calls == CallsOf[record.name]
        form == record.answer.form
        reading == Reading(calls, AnswerAt(calls.verb, calls.path), form)
        read == IF reading = "whole" THEN record
                                     ELSE [record EXCEPT !.lost = @ \cup {form}]
    IN  /\ record.answer.status = "ok"
        /\ Set(c, IF reading = "rejected" THEN Ended(read, "response")
                  ELSE IF record.answer.more
                  THEN Request([read EXCEPT !.page = @ + 1])
                  ELSE Ended(read, "ok"))
        /\ UNCHANGED cache

\* A 401: the cache is emptied and the request made again, once.
Unauthorized(c) ==
    /\ call[c].answer.status = "unauthorized"
    /\ IF call[c].refused
       THEN /\ Set(c, Ended(call[c], "unauthorized"))
            /\ UNCHANGED cache
       ELSE /\ Set(c, Again([call[c] EXCEPT !.refused = TRUE]))
            /\ cache' = NoToken

\* A 429, a 5xx or no answer: the request is made again while it has attempts
\* left.  Whether it is a write makes no difference.
\* (Mutants: the first attempt is not counted as one; a retry does not carry
\* the mark of the 401 on.)
RetryOrGiveUp_OnceMore(c) ==
    /\ call[c].answer.status \in {"limited", "failed"}
    /\ Set(c, IF call[c].retries < MaxAttempts
              THEN Again([call[c] EXCEPT !.retries = @ + 1])
              ELSE Ended(call[c], call[c].answer.status))
    /\ UNCHANGED cache
RetryOrGiveUp_Unmarked(c) ==
    /\ call[c].answer.status \in {"limited", "failed"}
    /\ Set(c, IF call[c].retries + 1 < MaxAttempts
              THEN Again([call[c] EXCEPT !.retries = @ + 1, !.refused = FALSE])
              ELSE Ended(call[c], call[c].answer.status))
    /\ UNCHANGED cache
RetryOrGiveUp(c) ==
    /\ call[c].answer.status \in {"limited", "failed"}
    /\ Set(c, IF call[c].retries + 1 < MaxAttempts
              THEN Again([call[c] EXCEPT !.retries = @ + 1])
              ELSE Ended(call[c], call[c].answer.status))
    /\ UNCHANGED cache

\* Another 4xx ends the call.
Declined(c) ==
    /\ call[c].answer.status = "declined"
    /\ Set(c, Ended(call[c], "declined"))
    /\ UNCHANGED cache

Handle(c) ==
    /\ call[c].pc = "answered"
    /\ Accept(c) \/ Unauthorized(c) \/ RetryOrGiveUp(c) \/ Declined(c)
    /\ UNCHANGED <<now, granted>>

-----------------------------------------------------------------------------

Tick ==
    /\ now < Horizon
    /\ Limiter!Tick
    /\ UNCHANGED <<cache, call>>

\* The calls are over, or the bound on the clock keeps them waiting.
Rest ==
    /\ now = Horizon \/ \A c \in Calls : call[c].pc = "done"
                                         \/ call[c].name = Unused
    /\ UNCHANGED vars

Init ==
    /\ Limiter!Init
    /\ cache = NoToken
    /\ \E mix \in Mixes : call = [c \in Calls |-> [Idle EXCEPT !.name = mix[c]]]

Next ==
    \/ \E c \in Calls :
          \/ Begin(c)
          \/ LookUpToken(c)
          \/ Send(c)
          \/ Refuse(c)
          \/ Serve(c)
          \/ Decline(c)
          \/ Fail(c)
          \/ Handle(c)
    \/ Tick
    \/ Rest

Spec == Init /\ [][Next]_vars

-----------------------------------------------------------------------------
(* Properties *)

Results ==
    {"none", "ok", "request", "response", "no token", "unauthorized",
     "declined", "limited", "failed"}

\* Every variable has its type.
TypeOK ==
    /\ now \in 0 .. Horizon
    /\ granted \in [Budgets -> Seq(0 .. Horizon)]
    /\ cache \in 0 .. Horizon + TokenLife
    /\ call \in
         [Calls ->
            [pc : {"idle", "token", "slot", "sent", "answered", "done"},
             name : Names \cup {Unused}, blank : BOOLEAN,
             page : 1 .. MaxPages, retries : 0 .. MaxAttempts - 1,
             refused : BOOLEAN, token : 0 .. Horizon + TokenLife,
             since : 0 .. Horizon,
             answer : [status : {"none", "ok", "unauthorized", "declined",
                                 "limited", "failed"},
                       form : {"none", "wrong", "plain", "offset", "member",
                               "udf", "context"},
                       more : BOOLEAN],
             result : Results, sends : Nat, did : Seq(Names), silent : Nat,
             early : BOOLEAN,
             lost : SUBSET {"wrong", "plain", "offset", "member", "udf",
                            "context"}]]

\* The server does nothing but what the method is for.
ItsOwnEffect ==
    \A c \in Calls : \A i \in DOMAIN call[c].did :
        call[c].did[i] = call[c].name

\* A call that returned, or whose answer did not validate.
WasAnswered(record) == record.result \in {"ok", "response"}

\* It is done again only after an attempt that ended without an answer or in a
\* 5xx: no answer the client could read is followed by a second attempt.
RepeatedOnlyInSilence ==
    \A c \in Calls : call[c].pc = "done" =>
        Len(call[c].did) <=
            call[c].silent + (IF WasAnswered(call[c]) THEN 1 ELSE 0)

\* A write that was answered was carried out.
DoneIfAnswered ==
    \A c \in Calls :
        WasAnswered(call[c]) /\ Writes(call[c].name) => call[c].did # <<>>

\* A call whose body did not validate was never sent, and a write that says
\* nothing is none that validates: it takes no slot of the write budgets.
RefusedUnsent ==
    \A c \in Calls :
        call[c].result = "request" \/ call[c].blank => call[c].sends = 0

\* What a caller may conclude of a write, by how the call ended.
EffectTold ==
    /\ ItsOwnEffect
    /\ RepeatedOnlyInSilence
    /\ DoneIfAnswered
    /\ RefusedUnsent

\* What a call takes of the budgets its neighbours draw on: for each page it
\* asked for at most MaxAttempts requests, and one more if that page was
\* refused its token.  The count of retries and the mark of the 401 are the
\* page's own, and start anew with the next.
SendsBounded ==
    \A c \in Calls : call[c].sends <= call[c].page * (MaxAttempts + 1)

\* A token that was not revoked is refused only to a request that waited for
\* its slot as long as the margin its token had left when it was looked up:
\* with a margin longer than a wait, no request fails for its token's age.
RefusedOnlyAfterWait == \A c \in Calls : ~call[c].early

\* What the server documents reaches the caller, the items of a page and the
\* fields of each included, in whatever documented form: no schema written by
\* hand, no correction and no method's choice of one loses any of it.  But a
\* filter whose dates have an offset is lost: filterSchema takes none.
DocumentedKept ==
    \A c \in Calls :
        LET lost == call[c].lost \ {"wrong"}
        IN  lost # {} =>
              /\ lost = {"offset"}
              /\ CallsOf[call[c].name].response.key = "filters"
=============================================================================
