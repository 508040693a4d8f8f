----------------------------- MODULE AuthManager -----------------------------
(***************************************************************************)
(* The life of the OAuth2 token: src/auth/auth-manager.ts over the one-slot *)
(* cache of src/auth/token-store.ts, with what drives it: requests that ask *)
(* for a token, are judged by the server under it, and on a first 401      *)
(* discard the cached token and ask again (src/http/http-client.ts).       *)
(*                                                                         *)
(* getToken reads the cache and, if that will not do, joins the refresh in *)
(* flight or starts one.  It does so without interruption, but the grant it *)
(* waits for is a round trip during which other requests run, time passes, *)
(* tokens expire and 401s arrive.  A token is named by its grant.          *)
(*                                                                         *)
(* The promise in pendingRefresh is settled by performRefresh, then cleared *)
(* by its `finally`, and only then seen by those who wait for it.  These   *)
(* are microtasks: they all run before the next response is looked at.     *)
(***************************************************************************)
EXTENDS Integers, Sequences, FiniteSets

CONSTANTS
    Requests,       \* the requests made under the shared token
    RefreshPct,     \* tokenRefreshPct: refresh below this share of the lifetime
    Lifetimes,      \* the values of expires_in the server may answer with
    Horizon         \* bound: the clock stops here

ASSUME ConstantsAssumption ==
    /\ RefreshPct \in 0 .. 100
    /\ Lifetimes \subseteq Nat \ {0}
    /\ Horizon \in Nat

None == 0

VARIABLES
    now,        \* Date.now(), taken to agree with the server's clock
    grants,     \* every grant round trip so far, in the order posted
    pending,    \* pendingRefresh: the grant it stands for, or None
    store,      \* InMemoryTokenStore: the grant whose token is cached, or None
    revoked,    \* the grants whose token the server has revoked
    pc,         \* [Requests -> states]: where each request is
    token,      \* [Requests -> grants or None]: the grant it waits for or holds
    rejected    \* [Requests -> grants or None]: the token its first 401 was for

vars == <<now, grants, pending, store, revoked, pc, token, rejected>>

GrantIds == 1 .. Len(grants)

\* A grant as it is posted: nothing minted by the server, nothing answered.
Posted == [postedAt |-> now, mintedAt |-> 0, lifetime |-> 0,
           expiresAt |-> 0, outcome |-> "posted"]

InFlight(g) == grants[g].outcome = "posted"
Minted(g) == grants[g].lifetime # 0

\* TokenInfo.issuedAt: read from the clock before the grant is posted.
\* (Mutant: read once the answer is there.)
IssuedAt_Answer(g) == now
IssuedAt(g) == grants[g].postedAt

-----------------------------------------------------------------------------
(* getToken *)

\* Less than RefreshPct of the token's lifetime is left.
NeedsRefresh(g) ==
    \/ grants[g].lifetime <= 0
    \/ 100 * (grants[g].expiresAt - now) < RefreshPct * grants[g].lifetime

Usable == store # None /\ ~NeedsRefresh(store)

\* The cached token is returned at once.
FromCache(r) ==
    /\ Usable
    /\ token' = [token EXCEPT ![r] = store]
    /\ pc' = [pc EXCEPT ![r] = "holding"]
    /\ UNCHANGED <<grants, pending>>

\* refreshToken, with a refresh in flight: the promise is shared.
JoinRefresh(r) ==
    /\ ~Usable
    /\ pending # None
    /\ token' = [token EXCEPT ![r] = pending]
    /\ pc' = [pc EXCEPT ![r] = "waiting"]
    /\ UNCHANGED <<grants, pending>>

\* refreshToken, with none: a grant is posted.
\* (Mutants: a grant for every caller; pendingRefresh set to no round trip.)
StartRefresh_Unshared(r) ==
    /\ ~Usable
    /\ grants' = Append(grants, Posted)
    /\ pending' = Len(grants) + 1
    /\ token' = [token EXCEPT ![r] = Len(grants) + 1]
    /\ pc' = [pc EXCEPT ![r] = "waiting"]
StartRefresh_NotPosted(r) ==
    /\ ~Usable
    /\ pending = None
    /\ pending' = Len(grants) + 1
    /\ token' = [token EXCEPT ![r] = Len(grants) + 1]
    /\ pc' = [pc EXCEPT ![r] = "waiting"]
    /\ UNCHANGED grants
StartRefresh(r) ==
    /\ ~Usable
    /\ pending = None
    /\ grants' = Append(grants, Posted)
    /\ pending' = Len(grants) + 1
    /\ token' = [token EXCEPT ![r] = Len(grants) + 1]
    /\ pc' = [pc EXCEPT ![r] = "waiting"]

GetToken(r) ==
    /\ pc[r] = "asking"
    /\ FromCache(r) \/ JoinRefresh(r) \/ StartRefresh(r)
    /\ UNCHANGED <<now, store, revoked, rejected>>

-----------------------------------------------------------------------------
(* The grant round trip *)

\* No promise has settled that someone is still to hear of.
MicrotasksDone ==
    /\ pending # None => InFlight(pending)
    /\ \A r \in Requests : pc[r] = "waiting" => InFlight(token[r])

\* The server handles the posted grant: the token's lifetime begins.
Mint ==
    \E g \in GrantIds : \E l \in Lifetimes :
        /\ InFlight(g) /\ ~Minted(g)
        /\ grants' = [grants EXCEPT ![g].mintedAt = now, ![g].lifetime = l]
        /\ UNCHANGED <<now, pending, store, revoked, pc, token, rejected>>

\* A well-formed answer: the token is dated and cached.
GrantSucceeds(g) ==
    /\ Minted(g)
    /\ grants' = [grants EXCEPT ![g].outcome = "ok",
                                ![g].expiresAt = IssuedAt(g) + grants[g].lifetime]
    /\ store' = g

\* A 2xx answer without a usable token, or no answer, or an error, or the
\* 30 s timeout: the refresh throws and the cache is left alone.
GrantFails(g) ==
    /\ grants' = [grants EXCEPT ![g].outcome = "failed"]
    /\ UNCHANGED store

\* performRefresh goes on after its await.
Settle ==
    \E g \in GrantIds :
        /\ InFlight(g)
        /\ MicrotasksDone
        /\ GrantSucceeds(g) \/ GrantFails(g)
        /\ UNCHANGED <<now, pending, revoked, pc, token, rejected>>

\* The `finally` of the refresh, whether it succeeded or failed.
\* (Mutant: the field is cleared on success only.)
ClearPending_OnSuccess ==
    /\ pending # None
    /\ grants[pending].outcome = "ok"
    /\ pending' = None
    /\ UNCHANGED <<now, grants, store, revoked, pc, token, rejected>>
ClearPending ==
    /\ pending # None
    /\ ~InFlight(pending)
    /\ pending' = None
    /\ UNCHANGED <<now, grants, store, revoked, pc, token, rejected>>

\* A request goes on with the token it has, or ends and lets go of it.
GoOn(r, state) ==
    /\ pc' = [pc EXCEPT ![r] = state]
    /\ UNCHANGED <<token, rejected>>
End(r, state) ==
    /\ pc' = [pc EXCEPT ![r] = state]
    /\ token' = [token EXCEPT ![r] = None]
    /\ rejected' = [rejected EXCEPT ![r] = None]

\* A request that awaited the refresh receives its token or its error.
Deliver(r) ==
    /\ pc[r] = "waiting"
    /\ ~InFlight(token[r])
    /\ pending # token[r]
    /\ \/ grants[token[r]].outcome = "ok" /\ GoOn(r, "holding")
       \/ grants[token[r]].outcome = "failed" /\ End(r, "failed")
    /\ UNCHANGED <<now, grants, pending, store, revoked>>

-----------------------------------------------------------------------------
(* The requests and the server *)

\* The application makes a request; it asks for a token first of all.
Begin(r) ==
    /\ pc[r] = "idle"
    /\ pc' = [pc EXCEPT ![r] = "asking"]
    /\ UNCHANGED <<now, grants, pending, store, revoked, token, rejected>>

\* The server honours a token it minted, has not revoked, and whose lifetime,
\* counted from when it minted it, is not over.
Honoured(g) ==
    /\ Minted(g)
    /\ g \notin revoked
    /\ now < grants[g].mintedAt + grants[g].lifetime

\* The server judges the request by its token.  The answer is on its way.
Judge(r) ==
    /\ pc[r] = "holding"
    /\ \/ Honoured(token[r]) /\ End(r, "served")
       \/ ~Honoured(token[r]) /\ GoOn(r, "refused")
    /\ UNCHANGED <<now, grants, pending, store, revoked>>

\* The 401 arrives.  The first one discards whatever token is cached, with
\* AuthManager.invalidate, and the request asks again; the second one fails it.
\* (Mutants: the refresh in flight is dropped with the cached token; the
\* cached token is not dropped.)
Retry(r) ==
    /\ rejected[r] = None
    /\ rejected' = [rejected EXCEPT ![r] = token[r]]
    /\ pc' = [pc EXCEPT ![r] = "asking"]
    /\ UNCHANGED token
Discard_Pending(r) == Retry(r) /\ store' = None /\ pending' = None
Discard_Nothing(r) == Retry(r) /\ UNCHANGED <<store, pending>>
Discard(r) == Retry(r) /\ store' = None /\ UNCHANGED pending

GiveUp(r) ==
    /\ rejected[r] # None
    /\ End(r, "failed")
    /\ UNCHANGED <<store, pending>>

Unauthorized(r) ==
    /\ pc[r] = "refused"
    /\ MicrotasksDone
    /\ Discard(r) \/ GiveUp(r)
    /\ UNCHANGED <<now, grants, revoked>>

Revoke ==
    \E g \in GrantIds \ revoked :
        /\ Minted(g)
        /\ revoked' = revoked \cup {g}
        /\ UNCHANGED <<now, grants, pending, store, pc, token, rejected>>

Tick ==
    /\ now < Horizon
    /\ now' = now + 1
    /\ UNCHANGED <<grants, pending, store, revoked, pc, token, rejected>>

\* Every request made has ended.
Finished ==
    /\ \A r \in Requests : pc[r] \in {"idle", "served", "failed"}
    /\ UNCHANGED vars

-----------------------------------------------------------------------------

Init ==
    /\ now = 0
    /\ grants = <<>>
    /\ pending = None
    /\ store = None
    /\ revoked = {}
    /\ pc = [r \in Requests |-> "idle"]
    /\ token = [r \in Requests |-> None]
    /\ rejected = [r \in Requests |-> None]

Next ==
    \/ Mint
    \/ Settle
    \/ ClearPending
    \/ Revoke
    \/ Tick
    \/ \E r \in Requests : Begin(r)
    \/ \E r \in Requests : GetToken(r)
    \/ \E r \in Requests : Deliver(r)
    \/ \E r \in Requests : Judge(r)
    \/ \E r \in Requests : Unauthorized(r)
    \/ Finished

Spec == Init /\ [][Next]_vars

\* The grant is answered or times out, the program's own continuations run,
\* and the server answers what it is sent.  It need not grant a token, nor
\* does time have to pass, nor the application make a request.
FairSpec ==
    /\ Spec
    /\ WF_vars(Settle)
    /\ WF_vars(ClearPending)
    /\ \A r \in Requests :
          /\ WF_vars(GetToken(r))
          /\ WF_vars(Deliver(r))
          /\ WF_vars(Judge(r))
          /\ WF_vars(Unauthorized(r))

-----------------------------------------------------------------------------
(* Properties *)

\* Every variable has its type.
TypeOK ==
    /\ now \in Nat
    /\ grants \in Seq([postedAt : Nat, mintedAt : Nat, lifetime : {0} \cup Lifetimes,
                       expiresAt : Nat, outcome : {"posted", "ok", "failed"}])
    /\ pending \in {None} \cup GrantIds
    /\ store \in {None} \cup GrantIds
    /\ revoked \subseteq GrantIds
    /\ pc \in [Requests -> {"idle", "asking", "waiting", "holding",
                            "refused", "served", "failed"}]
    /\ token \in [Requests -> {None} \cup GrantIds]
    /\ rejected \in [Requests -> {None} \cup GrantIds]

\* However many requests find the cache empty or stale at once, and whatever
\* 401s arrive meanwhile, one grant round trip is under way at most.
SingleFlight == \A g, h \in GrantIds : InFlight(g) /\ InFlight(h) => g = h

\* The cache never goes back: no answer that comes late replaces a token by
\* one older than a request already holds.
CacheNewest ==
    \A r \in Requests :
        pc[r] \in {"holding", "refused"} /\ store # None => token[r] <= store

\* The retry after a 401 is never made under the token that was refused, nor
\* under an older one.
RetryGetsNewToken ==
    \A r \in Requests :
        rejected[r] # None /\ pc[r] \in {"waiting", "holding"}
            => token[r] > rejected[r]

\* A token taken from the cache has, by the server's own reckoning, at least
\* RefreshPct of its lifetime left: the answer's latency is never counted as
\* lifetime.
CachedTokenHasMargin ==
    [][\A r \in Requests :
         pc[r] = "asking" /\ pc'[r] = "holding" =>
           LET g == grants[token'[r]]
           IN  100 * (g.mintedAt + g.lifetime - now) >= RefreshPct * g.lifetime]_vars

\* A request that asked for a token ends, served or failed: the refresh it
\* waits for is answered, and its answer reaches everyone who joined it.
RequestEnds ==
    \A r \in Requests : pc[r] = "asking" ~> pc[r] \in {"served", "failed"}

\* A refresh is let go of in the end, also one that failed: the requests that
\* come later post a grant of their own and are not given its rejection.
RefreshForgotten == pending # None ~> pending = None

\* No request hangs on a refresh, and no refresh outlives its answer.
NothingHangs == RequestEnds /\ RefreshForgotten

\* "a 401 on the shared instance means the cached token was rejected
\* server-side" (auth-manager.ts, AuthManager.invalidate): the cached token
\* is discarded only if a request was refused under it.
DiscardsOnlyRefused ==
    [][store # None /\ store' = None =>
         \E r \in Requests : pc[r] = "refused" /\ token[r] = store]_vars
=============================================================================
