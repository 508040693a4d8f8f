--------------------------- MODULE AuthManagerProofs ---------------------------
(***************************************************************************)
(* What is proved of the token's life, for any number of requests, any     *)
(* refresh threshold, any lifetimes and any length of time: one grant at a *)
(* time, no late answer that takes the cache back, no retry under the token *)
(* that was refused, and no latency taken for lifetime.                    *)
(*                                                                         *)
(* The argument turns on one fact: pendingRefresh, when it is set, stands  *)
(* for the last grant posted, and no other grant is in flight.  So an      *)
(* answer is always newer than every token anyone holds, and a refresh     *)
(* that a refused request joins was posted after the token it was refused  *)
(* for had been answered.                                                  *)
(***************************************************************************)
EXTENDS AuthManager, TLAPS

Grant == [postedAt : Nat, mintedAt : Nat, lifetime : {0} \cup Lifetimes,
          expiresAt : Nat, outcome : {"posted", "ok", "failed"}]

\* pendingRefresh stands for the last grant, and it alone can be in flight.
LastIsPending ==
    /\ pending \in {None, Len(grants)}
    /\ \A g \in GrantIds : InFlight(g) => pending = g

\* A token that is cached, held or was refused is one a grant has brought.
Answered(g) == grants[g].outcome = "ok"
TokensAnswered ==
    /\ store # None => Answered(store)
    /\ \A r \in Requests :
          /\ pc[r] = "idle" => rejected[r] = None
          /\ pc[r] = "waiting" => token[r] # None
          /\ pc[r] \in {"holding", "refused"} => token[r] # None /\ Answered(token[r])
          /\ rejected[r] # None => Answered(rejected[r])

\* No token anyone has, or is about to have, is newer than the cached one.
StoreNewest ==
    store # None =>
        /\ pending # None /\ Answered(pending) => pending <= store
        /\ \A r \in Requests :
              token[r] # None /\ Answered(token[r]) => token[r] <= store

\* What a refused request can still be given is newer than what it was refused
\* for.
RefusedMovesOn ==
    \A r \in Requests : rejected[r] # None =>
        /\ pc[r] = "asking" =>
              /\ store # None => store > rejected[r]
              /\ pending # None => pending > rejected[r]
        /\ pc[r] \in {"waiting", "holding", "refused"} => token[r] > rejected[r]

\* A token's lifetime is counted from no later than the server counts it.
Dated ==
    \A g \in GrantIds :
        /\ grants[g].postedAt <= now
        /\ Minted(g) => grants[g].postedAt <= grants[g].mintedAt
        /\ Answered(g) => grants[g].expiresAt = grants[g].postedAt + grants[g].lifetime

IInv ==
    /\ TypeOK
    /\ LastIsPending
    /\ TokensAnswered
    /\ StoreNewest
    /\ RefusedMovesOn
    /\ Dated

-----------------------------------------------------------------------------

\* What is posted is a grant.
LEMMA PostedType ==
    ASSUME TypeOK
    PROVE  /\ Posted \in Grant
           /\ Posted.postedAt = now
           /\ Posted.lifetime = 0
           /\ Posted.outcome = "posted"
BY DEF Posted, Grant, TypeOK

\* Lifetimes are natural numbers.
LEMMA LifetimeType == ASSUME NEW l \in {0} \cup Lifetimes PROVE l \in Nat
<1>1. Lifetimes \subseteq Nat
    BY ConstantsAssumption
<1> QED BY ONLY <1>1, l \in {0} \cup Lifetimes

\* The fields of a grant are numbers, and so is its identifier.
LEMMA GrantType ==
    ASSUME TypeOK, NEW g \in GrantIds
    PROVE  /\ grants[g] \in Grant
           /\ grants[g].postedAt \in Nat
           /\ grants[g].mintedAt \in Nat
           /\ grants[g].lifetime \in Nat
           /\ grants[g].expiresAt \in Nat
           /\ g \in Nat /\ g # None
           /\ Len(grants) \in Nat /\ g <= Len(grants)
<1>2. grants \in Seq(Grant)
    BY DEF TypeOK, Grant
<1>3. grants[g] \in Grant /\ g \in 1 .. Len(grants)
    BY <1>2 DEF GrantIds
<1>4. g \in Nat /\ g # None /\ Len(grants) \in Nat /\ g <= Len(grants)
    BY <1>2, <1>3 DEF None
<1>5. /\ grants[g].postedAt \in Nat
      /\ grants[g].mintedAt \in Nat
      /\ grants[g].expiresAt \in Nat
      /\ grants[g].lifetime \in {0} \cup Lifetimes
    BY <1>3 DEF Grant
<1>6. grants[g].lifetime \in Nat
    BY ONLY <1>5, LifetimeType
<1> QED BY <1>3, <1>4, <1>5, <1>6

\* The invariant holds before the first request.
LEMMA InitHolds == Init => IInv
<1> SUFFICES ASSUME Init PROVE IInv
    OBVIOUS
<1>1. GrantIds = {}
    BY DEF Init, GrantIds
<1>2. TypeOK
    BY <1>1 DEF Init, TypeOK
<1> QED BY <1>1, <1>2 DEF Init, IInv, LastIsPending, TokensAnswered, StoreNewest,
                          RefusedMovesOn, Dated

-----------------------------------------------------------------------------
(* getToken *)

\* A cached token is as new as any.
LEMMA FromCachePreserves ==
    ASSUME IInv, NEW r \in Requests, pc[r] = "asking", FromCache(r),
           UNCHANGED <<now, store, revoked, rejected>>
    PROVE  IInv'
<1>1. /\ store # None
      /\ token' = [token EXCEPT ![r] = store]
      /\ pc' = [pc EXCEPT ![r] = "holding"]
      /\ UNCHANGED <<grants, pending>>
    BY DEF FromCache, Usable
<1>2. TypeOK'
    BY <1>1 DEF IInv, TypeOK, GrantIds
<1>3. LastIsPending' /\ Dated'
    BY <1>1 DEF IInv, LastIsPending, Dated, GrantIds, InFlight, Minted, Answered
<1>4. TokensAnswered'
    BY <1>1 DEF IInv, TypeOK, TokensAnswered, Answered
<1>5. StoreNewest'
    <2>1. store \in Nat
        BY <1>1, GrantType DEF IInv, TypeOK
    <2>2. /\ token \in [Requests -> {None} \cup GrantIds]
          /\ StoreNewest
        BY DEF IInv, TypeOK
    <2>3. ASSUME NEW s \in Requests, token'[s] # None, Answered(token'[s])
          PROVE  token'[s] <= store
        <3>1. CASE s = r
            BY ONLY <3>1, <2>1, <2>2, <1>1
        <3>2. CASE s # r
            <4>1. token'[s] = token[s]
                BY ONLY <3>2, <2>2, <1>1, s \in Requests
            <4> QED BY ONLY <4>1, <2>2, <2>3, <1>1 DEF StoreNewest
        <3> QED BY <3>1, <3>2
    <2>4. \A g : Answered(g)' <=> Answered(g)
        BY ONLY <1>1 DEF Answered
    <2>5. pending' # None /\ Answered(pending') => pending' <= store
        BY ONLY <1>1, <2>2 DEF StoreNewest
    <2>6. store' = store
        OBVIOUS
    <2> QED BY ONLY <2>3, <2>4, <2>5, <2>6 DEF StoreNewest
<1>6. RefusedMovesOn'
    BY <1>1 DEF IInv, TypeOK, RefusedMovesOn
<1> QED BY <1>2, <1>3, <1>4, <1>5, <1>6 DEF IInv

\* The refresh joined is newer than the token refused.
LEMMA JoinPreserves ==
    ASSUME IInv, NEW r \in Requests, pc[r] = "asking", JoinRefresh(r),
           UNCHANGED <<now, store, revoked, rejected>>
    PROVE  IInv'
<1>1. /\ pending # None
      /\ token' = [token EXCEPT ![r] = pending]
      /\ pc' = [pc EXCEPT ![r] = "waiting"]
      /\ UNCHANGED <<grants, pending>>
    BY DEF JoinRefresh
<1>2. TypeOK'
    BY <1>1 DEF IInv, TypeOK, GrantIds
<1>3. LastIsPending' /\ Dated'
    BY <1>1 DEF IInv, LastIsPending, Dated, GrantIds, InFlight, Minted, Answered
<1>4. TokensAnswered'
    BY <1>1 DEF IInv, TypeOK, TokensAnswered, Answered
<1>5. StoreNewest'
    BY <1>1 DEF IInv, TypeOK, StoreNewest, Answered
<1>6. RefusedMovesOn'
    BY <1>1 DEF IInv, TypeOK, RefusedMovesOn
<1> QED BY <1>2, <1>3, <1>4, <1>5, <1>6 DEF IInv

\* A grant that is posted is newer than all there is.
LEMMA StartPreserves ==
    ASSUME IInv, NEW r \in Requests, pc[r] = "asking", StartRefresh(r),
           UNCHANGED <<now, store, revoked, rejected>>
    PROVE  IInv'
<1>1. /\ pending = None
      /\ grants' = Append(grants, Posted)
      /\ pending' = Len(grants) + 1
      /\ token' = [token EXCEPT ![r] = Len(grants) + 1]
      /\ pc' = [pc EXCEPT ![r] = "waiting"]
    BY DEF StartRefresh
<1>2. /\ Posted \in Grant
      /\ Posted.postedAt = now
      /\ Posted.lifetime = 0
      /\ Posted.outcome = "posted"
      /\ grants \in Seq(Grant)
    BY PostedType DEF IInv, TypeOK, Grant
<1> DEFINE posted == Posted
<1> HIDE DEF posted
<1>3. /\ grants' \in Seq(Grant)
      /\ Len(grants) \in Nat
      /\ Len(grants') = Len(grants) + 1
      /\ GrantIds = 1 .. Len(grants)
      /\ GrantIds' = 1 .. Len(grants) + 1
      /\ \A g \in GrantIds : grants'[g] = grants[g]
      /\ grants'[Len(grants) + 1] = Posted
    BY <1>1, <1>2 DEF GrantIds
<1>4. /\ store \in {None} \cup GrantIds
      /\ \A s \in Requests : /\ token[s] \in {None} \cup GrantIds
                             /\ rejected[s] \in {None} \cup GrantIds
    BY DEF IInv, TypeOK
<1>5. TypeOK'
    <2>1. pending' \in {None} \cup GrantIds' /\ store' \in {None} \cup GrantIds'
        BY <1>1, <1>3, <1>4
    <2>2. GrantIds \subseteq GrantIds' /\ Len(grants) + 1 \in GrantIds'
        BY <1>3
    <2>3. token' \in [Requests -> {None} \cup GrantIds']
        BY <2>2, <1>1 DEF IInv, TypeOK
    <2>4. rejected' \in [Requests -> {None} \cup GrantIds']
        BY <2>2 DEF IInv, TypeOK
    <2>5. revoked' \subseteq GrantIds'
        BY <2>2 DEF IInv, TypeOK
    <2>6. pc' \in [Requests -> {"idle", "asking", "waiting", "holding",
                                "refused", "served", "failed"}]
        BY <1>1 DEF IInv, TypeOK
    <2>7. now' \in Nat
        BY DEF IInv, TypeOK
    <2> QED BY <2>1, <2>3, <2>4, <2>5, <2>6, <2>7, <1>3 DEF TypeOK, Grant
<1>6. LastIsPending'
    <2>1. \A g \in GrantIds : ~InFlight(g)
        <3>1. \A g \in GrantIds : g # None
            BY ONLY <1>3 DEF None
        <3>2. LastIsPending
            BY DEF IInv
        <3> QED BY ONLY <3>1, <3>2, <1>1, Zenon DEF LastIsPending
    <2> QED BY <2>1, <1>1, <1>3 DEF LastIsPending, InFlight
<1>7. TokensAnswered'
    <2>1. \A g \in GrantIds : Answered(g)' <=> Answered(g)
        BY ONLY <1>3 DEF Answered
    <2>2. TokensAnswered /\ token \in [Requests -> {None} \cup GrantIds]
          /\ pc \in [Requests -> {"idle", "asking", "waiting", "holding",
                                  "refused", "served", "failed"}]
        BY DEF IInv, TypeOK
    <2>3. Len(grants) + 1 # None
        BY ONLY <1>3 DEF None
    <2>4. store' = store /\ rejected' = rejected
        OBVIOUS
    <2>5. \A s \in Requests : s # r => pc'[s] = pc[s] /\ token'[s] = token[s]
        BY ONLY <1>1, <2>2
    <2>6. pc'[r] = "waiting" /\ token'[r] # None
        BY ONLY <1>1, <2>2, <2>3, r \in Requests
    <2> QED BY ONLY <2>1, <2>2, <2>4, <2>5, <2>6, <1>4 DEF TokensAnswered
<1>8. StoreNewest'
    <2>1. \A g \in GrantIds : Answered(g)' <=> Answered(g)
        BY ONLY <1>3 DEF Answered
    <2>2. grants'[Len(grants) + 1].outcome # "ok"
        BY ONLY <1>2, <1>3
    <2>3. StoreNewest /\ token \in [Requests -> {None} \cup GrantIds]
        BY DEF IInv, TypeOK
    <2>4. \A s \in Requests : token'[s] = Len(grants) + 1 \/ token'[s] = token[s]
        BY ONLY <1>1, <2>3
    <2>5. store' = store /\ pending' = Len(grants) + 1
        BY <1>1
    <2>6. ~Answered(pending)'
        BY ONLY <2>2, <2>5 DEF Answered
    <2>7. ASSUME NEW s \in Requests, store # None, token'[s] # None, Answered(token[s])'
          PROVE  token'[s] <= store
        <3>1. token'[s] = token[s]
            BY ONLY <2>2, <2>4, <2>7, s \in Requests, Zenon DEF Answered
        <3>2. Answered(token[s]) /\ token[s] # None
            BY ONLY <3>1, <2>1, <2>7, <1>4, s \in Requests
        <3> QED BY ONLY <3>1, <3>2, <2>3, <2>7, s \in Requests, Zenon DEF StoreNewest
    <2> QED BY ONLY <2>5, <2>6, <2>7 DEF StoreNewest
<1>9. RefusedMovesOn'
    <2>1. \A s \in Requests : rejected[s] # None => Len(grants) + 1 > rejected[s]
        BY <1>3, <1>4
    <2> QED BY <2>1, <1>1 DEF IInv, TypeOK, RefusedMovesOn
<1>10. Dated'
    <2> SUFFICES ASSUME NEW g \in GrantIds'
                 PROVE  /\ grants'[g].postedAt <= now
                        /\ grants'[g].lifetime # 0 =>
                              grants'[g].postedAt <= grants'[g].mintedAt
                        /\ grants'[g].outcome = "ok" =>
                              grants'[g].expiresAt =
                                grants'[g].postedAt + grants'[g].lifetime
        BY DEF Dated, Minted, Answered
    <2>1. CASE g \in GrantIds
        BY <2>1, <1>3 DEF IInv, Dated, Minted, Answered
    <2>2. CASE g = Len(grants) + 1
        <3>1. now \in Nat
            BY DEF IInv, TypeOK
        <3> QED BY <3>1, <2>2, <1>2, <1>3
    <2> QED BY <2>1, <2>2, <1>3
<1> QED BY <1>5, <1>6, <1>7, <1>8, <1>9, <1>10 DEF IInv

\* getToken takes, joins or starts.
LEMMA GetTokenPreserves == IInv /\ (\E r \in Requests : GetToken(r)) => IInv'
<1> SUFFICES ASSUME IInv, NEW r \in Requests, GetToken(r) PROVE IInv'
    OBVIOUS
<1> QED BY FromCachePreserves, JoinPreserves, StartPreserves DEF GetToken

-----------------------------------------------------------------------------
(* The grant round trip *)

\* Replacing one grant replaces no other.
LEMMA GrantReplaced ==
    ASSUME NEW s \in Seq(Grant), NEW t, NEW g \in 1 .. Len(s), NEW x \in Grant,
           t = [s EXCEPT ![g] = x]
    PROVE  /\ t \in Seq(Grant)
           /\ Len(t) = Len(s)
           /\ t[g] = x
           /\ \A h \in 1 .. Len(s) : h # g => t[h] = s[h]
<1>1. Len(s) \in Nat /\ s \in [1 .. Len(s) -> Grant]
    OBVIOUS
<1>2. t \in [1 .. Len(s) -> Grant]
    BY <1>1
<1>3. t \in Seq(Grant) /\ Len(t) = Len(s)
    BY <1>1, <1>2
<1> QED BY <1>1, <1>3

\* The server mints; the program does not know yet.
LEMMA MintPreserves == IInv /\ Mint => IInv'
<1> SUFFICES ASSUME IInv, NEW g \in GrantIds, NEW l \in Lifetimes,
                    InFlight(g), ~Minted(g),
                    grants' = [grants EXCEPT ![g].mintedAt = now, ![g].lifetime = l],
                    UNCHANGED <<now, pending, store, revoked, pc, token, rejected>>
             PROVE  IInv'
    BY DEF Mint
<1>1. /\ grants \in Seq(Grant) /\ now \in Nat /\ l \in {0} \cup Lifetimes
      /\ grants[g] \in Grant
    BY GrantType DEF IInv, TypeOK, Grant
<1>2. /\ grants' \in Seq(Grant)
      /\ Len(grants') = Len(grants)
      /\ GrantIds' = GrantIds
      /\ \A h \in GrantIds : /\ grants'[h].outcome = grants[h].outcome
                             /\ grants'[h].postedAt = grants[h].postedAt
                             /\ grants'[h].expiresAt = grants[h].expiresAt
                             /\ h # g => grants'[h] = grants[h]
      /\ grants'[g].mintedAt = now
    <2> DEFINE minted == [[grants[g] EXCEPT !.mintedAt = now] EXCEPT !.lifetime = l]
    <2>1. /\ minted \in Grant
          /\ minted.outcome = grants[g].outcome
          /\ minted.postedAt = grants[g].postedAt
          /\ minted.expiresAt = grants[g].expiresAt
          /\ minted.mintedAt = now
        BY <1>1 DEF Grant
    <2>2. grants' = [grants EXCEPT ![g] = minted]
        BY <1>1
    <2> HIDE DEF minted
    <2>3. /\ grants' \in Seq(Grant)
          /\ Len(grants') = Len(grants)
          /\ grants'[g] = minted
          /\ \A h \in 1 .. Len(grants) : h # g => grants'[h] = grants[h]
        <3>1. g \in 1 .. Len(grants) /\ grants \in Seq(Grant) /\ minted \in Grant
            BY <1>1, <2>1 DEF GrantIds
        <3> QED BY ONLY <3>1, <2>2, GrantReplaced
    <2> QED BY <2>1, <2>3 DEF GrantIds
<1>3. TypeOK'
    BY <1>2 DEF IInv, TypeOK, Grant
<1>4. LastIsPending'
    BY <1>2 DEF IInv, LastIsPending, InFlight
<1>5. TokensAnswered' /\ StoreNewest'
    <2>1. \A h \in GrantIds : Answered(h)' <=> Answered(h)
        BY <1>2 DEF Answered
    <2>2. /\ store \in {None} \cup GrantIds /\ pending \in {None} \cup GrantIds
          /\ \A s \in Requests : /\ token[s] \in {None} \cup GrantIds
                                 /\ rejected[s] \in {None} \cup GrantIds
        BY DEF IInv, TypeOK
    <2>3. TokensAnswered'
        BY <2>1, <2>2 DEF IInv, TokensAnswered
    <2>4. StoreNewest'
        BY <2>1, <2>2 DEF IInv, StoreNewest
    <2> QED BY <2>3, <2>4
<1>6. RefusedMovesOn'
    BY DEF IInv, RefusedMovesOn
<1>7. Dated'
    <2>1. grants[g].outcome # "ok" /\ grants[g].postedAt <= now
        BY DEF InFlight, IInv, Dated
    <2>2. \A h \in GrantIds :
             /\ grants'[h].postedAt <= now
             /\ grants'[h].lifetime # 0 => grants'[h].postedAt <= grants'[h].mintedAt
             /\ grants'[h].outcome = "ok" =>
                   grants'[h].expiresAt = grants'[h].postedAt + grants'[h].lifetime
        <3>1. ASSUME NEW h \in GrantIds, h # g
              PROVE  /\ grants[h].postedAt <= now
                     /\ grants'[h] = grants[h]
                     /\ grants[h].lifetime # 0 => grants[h].postedAt <= grants[h].mintedAt
                     /\ grants[h].outcome = "ok" =>
                           grants[h].expiresAt = grants[h].postedAt + grants[h].lifetime
            BY <3>1, <1>2 DEF IInv, Dated, Minted, Answered
        <3>2. /\ grants'[g].postedAt <= now
              /\ grants'[g].postedAt <= grants'[g].mintedAt
              /\ grants'[g].outcome # "ok"
            BY ONLY <2>1, <1>2, g \in GrantIds
        <3> QED BY ONLY <3>1, <3>2
    <2> QED BY <2>2, <1>2 DEF Dated, Minted, Answered
<1> QED BY <1>3, <1>4, <1>5, <1>6, <1>7 DEF IInv

\* An answer is newer than every token there is.
LEMMA SucceedPreserves ==
    ASSUME IInv, NEW g \in GrantIds, InFlight(g), GrantSucceeds(g),
           UNCHANGED <<now, pending, revoked, pc, token, rejected>>
    PROVE  IInv'
<1> DEFINE answer == [[grants[g] EXCEPT !.outcome = "ok"]
                         EXCEPT !.expiresAt = grants[g].postedAt + grants[g].lifetime]
<1>1. /\ grants \in Seq(Grant) /\ grants[g] \in Grant /\ g \in 1 .. Len(grants)
      /\ grants[g].postedAt \in Nat /\ grants[g].lifetime \in Nat
    BY GrantType DEF IInv, TypeOK, Grant, GrantIds
<1>2. grants[g].postedAt + grants[g].lifetime \in Nat
    BY <1>1
<1>3. /\ answer \in Grant
      /\ answer.outcome = "ok"
      /\ answer.postedAt = grants[g].postedAt
      /\ answer.mintedAt = grants[g].mintedAt
      /\ answer.lifetime = grants[g].lifetime
      /\ answer.expiresAt = grants[g].postedAt + grants[g].lifetime
    BY <1>1, <1>2 DEF Grant
<1>4. grants' = [grants EXCEPT ![g] = answer] /\ store' = g /\ grants[g].lifetime # 0
    BY <1>1 DEF GrantSucceeds, IssuedAt, Minted
<1> HIDE DEF answer
<1>5. /\ grants' \in Seq(Grant)
      /\ Len(grants') = Len(grants)
      /\ grants'[g] = answer
      /\ \A h \in 1 .. Len(grants) : h # g => grants'[h] = grants[h]
    BY ONLY <1>1, <1>3, <1>4, GrantReplaced
<1>6. GrantIds = 1 .. Len(grants) /\ GrantIds' = GrantIds
    BY <1>5 DEF GrantIds
<1>7. pending = g /\ g = Len(grants) /\ Len(grants) \in Nat /\ g # None
    BY GrantType DEF IInv, LastIsPending
<1>8. /\ \A s \in Requests : /\ token[s] \in {None} \cup GrantIds
                             /\ rejected[s] \in {None} \cup GrantIds
      /\ \A s \in Requests : token[s] \in Nat /\ token[s] <= g
    BY <1>6, <1>7 DEF IInv, TypeOK, None
<1>9. /\ Answered(g)'
      /\ \A h \in GrantIds : Answered(h) => Answered(h)'
    BY <1>3, <1>5, <1>6 DEF Answered
<1>10. TypeOK'
    BY <1>4, <1>5, <1>6 DEF IInv, TypeOK, Grant
<1>11. LastIsPending'
    BY <1>3, <1>5, <1>6, <1>7 DEF IInv, LastIsPending, InFlight
<1>12. TokensAnswered'
    BY <1>4, <1>8, <1>9 DEF IInv, TokensAnswered
<1>13. StoreNewest'
    BY <1>4, <1>7, <1>8 DEF StoreNewest
<1>14. RefusedMovesOn'
    BY <1>4, <1>7 DEF IInv, RefusedMovesOn
<1>15. Dated'
    <2>1. \A h \in GrantIds :
             /\ grants'[h].postedAt <= now
             /\ grants'[h].lifetime # 0 => grants'[h].postedAt <= grants'[h].mintedAt
             /\ grants'[h].outcome = "ok" =>
                   grants'[h].expiresAt = grants'[h].postedAt + grants'[h].lifetime
        BY <1>3, <1>5, <1>6 DEF IInv, Dated, Minted, Answered
    <2> QED BY <2>1, <1>6 DEF Dated, Minted, Answered
<1> QED BY <1>10, <1>11, <1>12, <1>13, <1>14, <1>15 DEF IInv

\* A refresh that fails leaves the tokens as they are.
LEMMA FailPreserves ==
    ASSUME IInv, NEW g \in GrantIds, InFlight(g), GrantFails(g),
           UNCHANGED <<now, pending, revoked, pc, token, rejected>>
    PROVE  IInv'
<1> DEFINE answer == [grants[g] EXCEPT !.outcome = "failed"]
<1>1. /\ grants \in Seq(Grant) /\ grants[g] \in Grant /\ g \in 1 .. Len(grants)
    BY GrantType DEF IInv, TypeOK, Grant, GrantIds
<1>2. /\ answer \in Grant
      /\ answer.outcome = "failed"
      /\ answer.postedAt = grants[g].postedAt
      /\ answer.mintedAt = grants[g].mintedAt
      /\ answer.lifetime = grants[g].lifetime
    BY <1>1 DEF Grant
<1>3. grants' = [grants EXCEPT ![g] = answer] /\ UNCHANGED store
    BY DEF GrantFails
<1> HIDE DEF answer
<1>4. /\ grants' \in Seq(Grant)
      /\ Len(grants') = Len(grants)
      /\ grants'[g] = answer
      /\ \A h \in 1 .. Len(grants) : h # g => grants'[h] = grants[h]
    BY ONLY <1>1, <1>2, <1>3, GrantReplaced
<1>5. GrantIds = 1 .. Len(grants) /\ GrantIds' = GrantIds
    BY <1>4 DEF GrantIds
<1>6. \A h \in GrantIds : Answered(h)' <=> Answered(h)
    BY <1>2, <1>4, <1>5 DEF Answered, InFlight
<1>7. /\ store \in {None} \cup GrantIds /\ pending \in {None} \cup GrantIds
      /\ \A s \in Requests : /\ token[s] \in {None} \cup GrantIds
                             /\ rejected[s] \in {None} \cup GrantIds
    BY DEF IInv, TypeOK
<1>8. TypeOK'
    BY <1>3, <1>4, <1>5 DEF IInv, TypeOK, Grant
<1>9. LastIsPending'
    BY <1>2, <1>4, <1>5 DEF IInv, LastIsPending, InFlight
<1>10. TokensAnswered'
    BY <1>3, <1>6, <1>7 DEF IInv, TokensAnswered
<1>11. StoreNewest'
    BY <1>3, <1>6, <1>7 DEF IInv, StoreNewest
<1>12. RefusedMovesOn'
    BY <1>3 DEF IInv, RefusedMovesOn
<1>13. Dated'
    <2>1. \A h \in GrantIds :
             /\ grants'[h].postedAt <= now
             /\ grants'[h].lifetime # 0 => grants'[h].postedAt <= grants'[h].mintedAt
             /\ grants'[h].outcome = "ok" =>
                   grants'[h].expiresAt = grants'[h].postedAt + grants'[h].lifetime
        BY <1>2, <1>4, <1>5 DEF IInv, Dated, Minted, Answered
    <2> QED BY <2>1, <1>5 DEF Dated, Minted, Answered
<1> QED BY <1>8, <1>9, <1>10, <1>11, <1>12, <1>13 DEF IInv

\* The refresh settles.
LEMMA SettlePreserves == IInv /\ Settle => IInv'
<1> SUFFICES ASSUME IInv, NEW g \in GrantIds, InFlight(g),
                    GrantSucceeds(g) \/ GrantFails(g),
                    UNCHANGED <<now, pending, revoked, pc, token, rejected>>
             PROVE  IInv'
    BY DEF Settle
<1> QED BY SucceedPreserves, FailPreserves

\* pendingRefresh is cleared once nothing is in flight.
LEMMA ClearPendingPreserves == IInv /\ ClearPending => IInv'
<1> SUFFICES ASSUME IInv, ClearPending PROVE IInv'
    OBVIOUS
<1>1. /\ pending # None /\ ~InFlight(pending) /\ pending' = None
      /\ UNCHANGED <<now, grants, store, revoked, pc, token, rejected>>
    BY DEF ClearPending
<1>2. TypeOK'
    BY <1>1 DEF IInv, TypeOK, GrantIds
<1>3. LastIsPending'
    BY <1>1 DEF IInv, LastIsPending, GrantIds, InFlight
<1>4. TokensAnswered' /\ StoreNewest' /\ RefusedMovesOn' /\ Dated'
    BY <1>1 DEF IInv, TokensAnswered, StoreNewest, RefusedMovesOn, Dated, GrantIds,
                Minted, Answered
<1> QED BY <1>2, <1>3, <1>4 DEF IInv

-----------------------------------------------------------------------------
(* The requests *)

\* A request changes what it has and where it is, and may discard the cached
\* token; what it has does not get older, and what is new to it was answered.
LEMMA RequestPreserves ==
    ASSUME IInv, NEW r \in Requests,
           NEW state \in {"idle", "asking", "waiting", "holding", "refused",
                          "served", "failed"},
           NEW t \in {None, token[r]}, NEW x \in {None, rejected[r], token[r]},
           pc' = [pc EXCEPT ![r] = state],
           token' = [token EXCEPT ![r] = t],
           rejected' = [rejected EXCEPT ![r] = x],
           store' \in {None, store},
           UNCHANGED <<now, grants, pending, revoked>>,
           state = "idle" => x = None,
           state = "waiting" => t # None,
           state \in {"holding", "refused"} => t # None /\ Answered(t),
           x # None => Answered(x),
           x # None /\ state = "asking" =>
               /\ store' # None => store' > x
               /\ pending # None => pending > x,
           x # None /\ state \in {"waiting", "holding", "refused"} => t > x
    PROVE  IInv'
<1>1. TypeOK'
    <2>1. token[r] \in {None} \cup GrantIds /\ rejected[r] \in {None} \cup GrantIds
        BY DEF IInv, TypeOK
    <2>2. GrantIds' = GrantIds
        BY DEF GrantIds
    <2> QED BY <2>1, <2>2 DEF IInv, TypeOK
<1>2. LastIsPending' /\ Dated'
    BY DEF IInv, LastIsPending, Dated, GrantIds, InFlight, Minted, Answered
<1>3. TokensAnswered'
    BY DEF IInv, TypeOK, TokensAnswered, Answered
<1>4. StoreNewest'
    BY DEF IInv, TypeOK, StoreNewest, Answered
<1>5. RefusedMovesOn'
    BY DEF IInv, TypeOK, RefusedMovesOn
<1> QED BY <1>1, <1>2, <1>3, <1>4, <1>5 DEF IInv

\* A function is what it is.
LEMMA SameToken ==
    ASSUME TypeOK, NEW r \in Requests
    PROVE  /\ token = [token EXCEPT ![r] = token[r]]
           /\ rejected = [rejected EXCEPT ![r] = rejected[r]]
BY DEF TypeOK

\* A request goes on with the token it has.
LEMMA GoOnPreserves ==
    ASSUME IInv, NEW r \in Requests, NEW state \in {"holding", "refused"},
           pc[r] \in {"waiting", "holding"}, Answered(token[r]), GoOn(r, state),
           UNCHANGED <<now, grants, pending, store, revoked>>
    PROVE  IInv'
<1>1. /\ pc' = [pc EXCEPT ![r] = state]
      /\ token' = [token EXCEPT ![r] = token[r]]
      /\ rejected' = [rejected EXCEPT ![r] = rejected[r]]
    BY SameToken DEF GoOn, IInv
<1>2. /\ token[r] # None
      /\ rejected[r] # None => Answered(rejected[r])
      /\ rejected[r] # None => token[r] > rejected[r]
    BY DEF IInv, TokensAnswered, RefusedMovesOn
<1>3. state \in {"idle", "asking", "waiting", "holding", "refused", "served", "failed"}
    OBVIOUS
<1> QED BY <1>1, <1>2, <1>3, RequestPreserves

\* A request ends and lets go of its token.
LEMMA EndPreserves ==
    ASSUME IInv, NEW r \in Requests, NEW state \in {"served", "failed"},
           End(r, state),
           UNCHANGED <<now, grants, pending, store, revoked>>
    PROVE  IInv'
<1>1. /\ pc' = [pc EXCEPT ![r] = state]
      /\ token' = [token EXCEPT ![r] = None]
      /\ rejected' = [rejected EXCEPT ![r] = None]
    BY DEF End
<1>2. state \in {"idle", "asking", "waiting", "holding", "refused", "served", "failed"}
    OBVIOUS
<1> QED BY <1>1, <1>2, RequestPreserves

\* Those who waited are told.
LEMMA DeliverPreserves == IInv /\ (\E r \in Requests : Deliver(r)) => IInv'
<1> SUFFICES ASSUME IInv, NEW r \in Requests, Deliver(r) PROVE IInv'
    OBVIOUS
<1>1. pc[r] = "waiting" /\ UNCHANGED <<now, grants, pending, store, revoked>>
    BY DEF Deliver
<1>2. CASE grants[token[r]].outcome = "ok" /\ GoOn(r, "holding")
    BY <1>1, <1>2, GoOnPreserves DEF Answered
<1>3. CASE End(r, "failed")
    BY <1>1, <1>3, EndPreserves
<1> QED BY <1>2, <1>3 DEF Deliver

\* A request begins.
LEMMA BeginPreserves == IInv /\ (\E r \in Requests : Begin(r)) => IInv'
<1> SUFFICES ASSUME IInv, NEW r \in Requests, Begin(r) PROVE IInv'
    OBVIOUS
<1>1. /\ pc' = [pc EXCEPT ![r] = "asking"]
      /\ token' = [token EXCEPT ![r] = token[r]]
      /\ rejected' = [rejected EXCEPT ![r] = rejected[r]]
      /\ UNCHANGED <<now, grants, pending, store, revoked>>
    BY SameToken DEF Begin, IInv
<1>2. rejected[r] = None
    BY DEF Begin, IInv, TokensAnswered
<1> QED BY <1>1, <1>2, RequestPreserves

\* The server's judgement is on its way.
LEMMA JudgePreserves == IInv /\ (\E r \in Requests : Judge(r)) => IInv'
<1> SUFFICES ASSUME IInv, NEW r \in Requests, Judge(r) PROVE IInv'
    OBVIOUS
<1>1. /\ pc[r] = "holding" /\ Answered(token[r])
      /\ UNCHANGED <<now, grants, pending, store, revoked>>
    BY DEF Judge, IInv, TokensAnswered
<1>2. CASE End(r, "served")
    BY <1>1, <1>2, EndPreserves
<1>3. CASE GoOn(r, "refused")
    BY <1>1, <1>3, GoOnPreserves
<1> QED BY <1>2, <1>3 DEF Judge

\* The refresh in flight when a 401 is handled was posted after the token that
\* was refused had been answered.
LEMMA DiscardPreserves ==
    ASSUME IInv, NEW r \in Requests, pc[r] = "refused", MicrotasksDone, Discard(r),
           UNCHANGED <<now, grants, revoked>>
    PROVE  IInv'
<1>1. /\ pc' = [pc EXCEPT ![r] = "asking"]
      /\ token' = [token EXCEPT ![r] = token[r]]
      /\ rejected' = [rejected EXCEPT ![r] = token[r]]
      /\ store' = None
      /\ UNCHANGED <<now, grants, pending, revoked>>
    BY SameToken DEF Discard, Retry, IInv
<1>2. token[r] # None /\ Answered(token[r])
    BY DEF IInv, TokensAnswered
<1>3. pending # None => pending > token[r]
    <2>1. token[r] \in GrantIds
        BY <1>2 DEF IInv, TypeOK
    <2>2. token[r] \in Nat /\ token[r] <= Len(grants) /\ Len(grants) \in Nat
        BY <2>1, GrantType DEF IInv
    <2>3. pending # None => pending = Len(grants) /\ InFlight(pending)
        BY DEF IInv, LastIsPending, MicrotasksDone
    <2>4. ~InFlight(token[r])
        BY <1>2 DEF Answered, InFlight
    <2> QED BY <2>2, <2>3, <2>4
<1> QED BY <1>1, <1>2, <1>3, RequestPreserves

\* A 401 arrives.
LEMMA UnauthorizedPreserves == IInv /\ (\E r \in Requests : Unauthorized(r)) => IInv'
<1> SUFFICES ASSUME IInv, NEW r \in Requests, Unauthorized(r) PROVE IInv'
    OBVIOUS
<1>1. CASE Discard(r)
    BY <1>1, DiscardPreserves DEF Unauthorized
<1>2. CASE GiveUp(r)
    BY <1>2, EndPreserves DEF Unauthorized, GiveUp
<1> QED BY <1>1, <1>2 DEF Unauthorized

\* The program does not learn of a revocation.
LEMMA RevokePreserves == IInv /\ Revoke => IInv'
<1> SUFFICES ASSUME IInv, Revoke PROVE IInv'
    OBVIOUS
<1>1. /\ revoked' \subseteq GrantIds
      /\ UNCHANGED <<now, grants, pending, store, pc, token, rejected>>
    BY DEF Revoke, IInv, TypeOK
<1> QED BY <1>1 DEF IInv, TypeOK, LastIsPending, TokensAnswered, StoreNewest,
                    RefusedMovesOn, Dated, GrantIds, InFlight, Minted, Answered

\* The clock only moves on.
LEMMA TickPreserves == IInv /\ Tick => IInv'
<1> SUFFICES ASSUME IInv, Tick PROVE IInv'
    OBVIOUS
<1>1. /\ now \in Nat /\ now' = now + 1
      /\ UNCHANGED <<grants, pending, store, revoked, pc, token, rejected>>
    BY DEF Tick, IInv, TypeOK
<1>2. TypeOK'
    BY <1>1 DEF IInv, TypeOK, GrantIds
<1>3. LastIsPending' /\ TokensAnswered' /\ StoreNewest' /\ RefusedMovesOn'
    BY <1>1 DEF IInv, LastIsPending, TokensAnswered, StoreNewest, RefusedMovesOn,
                GrantIds, InFlight, Answered
<1>4. Dated'
    <2>1. \A g \in GrantIds : grants[g].postedAt \in Nat /\ grants[g].postedAt <= now
        BY GrantType DEF IInv, Dated
    <2> QED BY <2>1, <1>1 DEF IInv, Dated, GrantIds, Minted, Answered
<1> QED BY <1>2, <1>3, <1>4 DEF IInv

\* Every step preserves the invariant.
LEMMA NextPreserves == IInv /\ [Next]_vars => IInv'
<1> SUFFICES ASSUME IInv, [Next]_vars PROVE IInv'
    OBVIOUS
<1>1. CASE UNCHANGED vars
    BY <1>1 DEF vars, IInv, TypeOK, LastIsPending, TokensAnswered, StoreNewest,
                RefusedMovesOn, Dated, GrantIds, InFlight, Minted, Answered
<1> QED BY <1>1, MintPreserves, SettlePreserves, ClearPendingPreserves,
           RevokePreserves, TickPreserves, BeginPreserves, GetTokenPreserves,
           DeliverPreserves, JudgePreserves, UnauthorizedPreserves
        DEF Next, Finished

-----------------------------------------------------------------------------
(* The theorems *)

\* The invariant holds of every reachable state.
THEOREM Invariance == Spec => []IInv
BY InitHolds, NextPreserves, PTL DEF Spec

\* Every variable keeps its type.
THEOREM TypeCorrect == Spec => []TypeOK
<1>1. IInv => TypeOK
    BY DEF IInv
<1> QED BY <1>1, Invariance, PTL

\* Of any number of requests that need a token, none posts a grant while
\* another's is in flight.
THEOREM OneGrantAtATime == Spec => []SingleFlight
<1>1. IInv => SingleFlight
    BY DEF IInv, LastIsPending, SingleFlight
<1> QED BY <1>1, Invariance, PTL

\* No answer, however late, leaves the cache older than a token in use.
THEOREM CacheNeverGoesBack == Spec => []CacheNewest
<1>1. IInv => CacheNewest
    BY DEF IInv, TokensAnswered, StoreNewest, CacheNewest
<1> QED BY <1>1, Invariance, PTL

\* A request refused its token is never made again under that token or an
\* older one.
THEOREM RetryIsFresh == Spec => []RetryGetsNewToken
<1>1. IInv => RetryGetsNewToken
    BY DEF IInv, RefusedMovesOn, RetryGetsNewToken
<1> QED BY <1>1, Invariance, PTL

\* Only the cache turns a request that asks into one that holds a token.
LEMMA HeldFromCache ==
    ASSUME TypeOK, Next, NEW r \in Requests, pc[r] = "asking", pc'[r] = "holding"
    PROVE  Usable /\ token'[r] = store
<1> USE DEF TypeOK
<1>1. CASE \E s \in Requests : GetToken(s)
    <2>1. PICK s \in Requests : GetToken(s)
        BY <1>1
    <2>2. s = r /\ FromCache(s)
        BY <2>1 DEF GetToken, FromCache, JoinRefresh, StartRefresh
    <2> QED BY <2>2 DEF FromCache
<1>2. CASE \E s \in Requests : Begin(s)
    BY <1>2 DEF Begin
<1>3. CASE \E s \in Requests : Deliver(s)
    BY <1>3 DEF Deliver, GoOn, End
<1>4. CASE \E s \in Requests : Judge(s)
    BY <1>4 DEF Judge, GoOn, End
<1>5. CASE \E s \in Requests : Unauthorized(s)
    BY <1>5 DEF Unauthorized, Discard, Retry, GiveUp, End
<1>6. CASE Mint \/ Settle \/ ClearPending \/ Revoke \/ Tick \/ Finished
    BY <1>6 DEF Mint, Settle, ClearPending, Revoke, Tick, Finished, vars
<1> QED BY <1>1, <1>2, <1>3, <1>4, <1>5, <1>6 DEF Next

\* A cached token is answered, so its date is the one it was posted at.
LEMMA UsableHasMargin ==
    ASSUME IInv, Usable
    PROVE  100 * (grants[store].mintedAt + grants[store].lifetime - now)
               >= RefreshPct * grants[store].lifetime
<1>1. store # None /\ store \in GrantIds /\ Answered(store)
    BY DEF Usable, IInv, TypeOK, TokensAnswered
<1> DEFINE posted == grants[store].postedAt
           minted == grants[store].mintedAt
           life == grants[store].lifetime
           expires == grants[store].expiresAt
           least == RefreshPct * life
<1>2. posted \in Nat /\ minted \in Nat /\ life \in Nat /\ expires \in Nat /\ now \in Nat
    BY <1>1, GrantType DEF IInv, TypeOK
<1>3. life # 0 /\ ~(100 * (expires - now) < least)
    BY <1>2 DEF Usable, NeedsRefresh
<1>4. posted <= minted /\ expires = posted + life
    BY <1>1, <1>3 DEF IInv, Dated, Minted
<1>5. least \in Int
    BY <1>2, ConstantsAssumption
<1> HIDE DEF posted, minted, life, expires, least
<1>6. 100 * (minted + life - now) >= least
    BY <1>2, <1>3, <1>4, <1>5
<1> QED BY <1>6 DEF minted, life, least

\* A token taken from the cache has the configured share of its lifetime left,
\* by the server's reckoning.
THEOREM MarginKept == Spec => CachedTokenHasMargin
<1>1. ASSUME IInv, [Next]_vars
      PROVE  [\A r \in Requests :
                pc[r] = "asking" /\ pc'[r] = "holding" =>
                  LET g == grants[token'[r]]
                  IN  100 * (g.mintedAt + g.lifetime - now) >= RefreshPct * g.lifetime]_vars
    <2>1. CASE Next
        <3> SUFFICES ASSUME NEW r \in Requests, pc[r] = "asking", pc'[r] = "holding"
                     PROVE  100 * (grants[token'[r]].mintedAt + grants[token'[r]].lifetime - now)
                                >= RefreshPct * grants[token'[r]].lifetime
            OBVIOUS
        <3>1. Usable /\ token'[r] = store
            BY <1>1, <2>1, HeldFromCache DEF IInv
        <3> QED BY <1>1, <3>1, UsableHasMargin
    <2>2. CASE UNCHANGED vars
        BY <2>2
    <2> QED BY <1>1, <2>1, <2>2
<1> QED BY <1>1, Invariance, PTL DEF Spec, CachedTokenHasMargin
=============================================================================
