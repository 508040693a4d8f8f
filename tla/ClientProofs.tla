------------------------------ MODULE ClientProofs ------------------------------
(***************************************************************************)
(* What is proved of the calls of a client at work, for every number of    *)
(* calls, every mix of methods, every limit, retry count, token life and   *)
(* length of a walk: what a caller may conclude from how its call ended,   *)
(* when a token can be refused for its age, how often a call is sent, and  *)
(* that what is documented of an answer reaches the caller.                *)
(*                                                                         *)
(* The invariant speaks of one call at a time: how often the server did    *)
(* what was asked, against how often an attempt ended in silence, at each  *)
(* place a call can be.  What it needs of the table of methods is little:  *)
(* no write is led to a next page, and no body schema takes an empty body. *)
(* Two strengthenings follow it: what a call that ended well has had done  *)
(* once for each page, and how often it was sent, against its pages, its   *)
(* retries and the mark of the 401.                                        *)
(***************************************************************************)
EXTENDS Client, DataInduction, TLAPS

-----------------------------------------------------------------------------
(* The methods *)

\* Only a read may be led to a next page, and a body, where there is one, has
\* to say something.
Sound(primitive) ==
    /\ primitive.reads = "pages" => primitive.verb = "get"
    /\ primitive.body # NoBody =>
          primitive.body.required # {} \/ primitive.body.some

\* A primitive without a body is sound, and one with a body if its schema is.
LEMMA PrimitivesSound ==
    ASSUME NEW path, NEW body, NEW response, NEW key
    PROVE  /\ Sound(httpGet(path, response))
           /\ Sound(httpGetArray(path, response))
           /\ Sound(paginate(path, key, response))
           /\ Sound(httpPost(path, NoBody, response, key))
           /\ Sound(httpPut(path, NoBody, response, key))
           /\ Sound(httpDelete(path, key))
           /\ body.required # {} \/ body.some =>
                 Sound(httpPost(path, body, response, key))
                   /\ Sound(httpPut(path, body, response, key))
BY DEF Sound, Primitive, httpGet, httpGetArray, paginate, httpPost, httpPut,
       httpDelete

\* A method is as sound as what it calls.
LEMMA MethodSound ==
    ASSUME NEW ns, NEW method, NEW primitive, Sound(primitive)
    PROVE  Sound(Method(ns, method, primitive).calls)
BY DEF Method

\* Every body schema asks for a field.
LEMMA BodiesSaySomething ==
    \A schema \in {siteCreateBodySchema, siteUpdateBodySchema,
                   deviceJobCreateBodySchema, udfWriteBodySchema,
                   warrantyWriteBodySchema, createSiteVariableWriteBodySchema,
                   updateSiteVariableWriteBodySchema,
                   createAccountVariableWriteBodySchema,
                   updateAccountVariableWriteBodySchema,
                   updateProxyWriteBodySchema} :
        schema.required # {} \/ schema.some
<1> DEFINE Says(schema) == schema.required # {} \/ schema.some
<1>1. \A required, optional :
        /\ StrictObject(required, optional).required = required
        /\ requireSomeField(StrictObject(required, optional)).some
        /\ "name" \in RequireName(StrictObject(required, optional)).required
    BY DEF StrictObject, requireSomeField, RequireName
<1>2. Says(siteCreateBodySchema)
    BY <1>1 DEF siteCreateBodySchema, CreateBody
<1>3. Says(siteUpdateBodySchema)
    BY <1>1 DEF siteUpdateBodySchema, UpdateBody
<1>4. Says(deviceJobCreateBodySchema)
    BY <1>1 DEF deviceJobCreateBodySchema, CreateQuickJobBody
<1>5. Says(udfWriteBodySchema)
    BY <1>1 DEF udfWriteBodySchema, SetUdfFieldsBody
<1>6. Says(warrantyWriteBodySchema)
    BY DEF warrantyWriteBodySchema, SetWarrantyDataBody, StrictObject
<1>7. Says(createSiteVariableWriteBodySchema)
    BY <1>1 DEF createSiteVariableWriteBodySchema, CreateSiteVariableBody
<1>8. Says(updateSiteVariableWriteBodySchema)
    BY <1>1 DEF updateSiteVariableWriteBodySchema, UpdateSiteVariableBody
<1>9. Says(createAccountVariableWriteBodySchema)
    BY <1>1 DEF createAccountVariableWriteBodySchema, CreateAccountVariableBody
<1>10. Says(updateAccountVariableWriteBodySchema)
    BY <1>1 DEF updateAccountVariableWriteBodySchema, UpdateAccountVariableBody
<1>11. Says(updateProxyWriteBodySchema)
    BY <1>1 DEF updateProxyWriteBodySchema, UpdateProxyBody
<1> QED BY <1>2, <1>3, <1>4, <1>5, <1>6, <1>7, <1>8, <1>9, <1>10, <1>11

\* The methods of every namespace are sound.
LEMMA MethodsSound == \A m \in Methods : Sound(m.calls)
<1> USE PrimitivesSound, MethodSound, BodiesSaySomething
<1>1. \A m \in AccountResource : Sound(m.calls)
    <2> SUFFICES ASSUME NEW m \in AccountResource PROVE Sound(m.calls)
        OBVIOUS
    <2> QED BY DEF AccountResource
<1>2. \A m \in ActivityLogResource : Sound(m.calls)
    <2> SUFFICES ASSUME NEW m \in ActivityLogResource PROVE Sound(m.calls)
        OBVIOUS
    <2> QED BY DEF ActivityLogResource
<1>3. \A m \in AlertResource : Sound(m.calls)
    <2> SUFFICES ASSUME NEW m \in AlertResource PROVE Sound(m.calls)
        OBVIOUS
    <2> QED BY DEF AlertResource
<1>4. \A m \in AuditResource : Sound(m.calls)
    <2> SUFFICES ASSUME NEW m \in AuditResource PROVE Sound(m.calls)
        OBVIOUS
    <2> QED BY DEF AuditResource
<1>5. \A m \in DeviceResource : Sound(m.calls)
    <2> SUFFICES ASSUME NEW m \in DeviceResource PROVE Sound(m.calls)
        OBVIOUS
    <2> QED BY DEF DeviceResource
<1>6. \A m \in FilterResource : Sound(m.calls)
    <2> SUFFICES ASSUME NEW m \in FilterResource PROVE Sound(m.calls)
        OBVIOUS
    <2> QED BY DEF FilterResource
<1>7. \A m \in JobResource : Sound(m.calls)
    <2> SUFFICES ASSUME NEW m \in JobResource PROVE Sound(m.calls)
        OBVIOUS
    <2> QED BY DEF JobResource
<1>8. \A m \in SiteResource : Sound(m.calls)
    <2> SUFFICES ASSUME NEW m \in SiteResource PROVE Sound(m.calls)
        OBVIOUS
    <2> QED BY DEF SiteResource
<1>9. \A m \in SystemResource : Sound(m.calls)
    <2> SUFFICES ASSUME NEW m \in SystemResource PROVE Sound(m.calls)
        OBVIOUS
    <2> QED BY DEF SystemResource
<1>10. \A m \in UserResource : Sound(m.calls)
    <2> SUFFICES ASSUME NEW m \in UserResource PROVE Sound(m.calls)
        OBVIOUS
    <2> QED BY DEF UserResource
<1> QED BY <1>1, <1>2, <1>3, <1>4, <1>5, <1>6, <1>7, <1>8, <1>9, <1>10 DEF Methods

\* What the client calls by a name is what a method of that name calls.
LEMMA CallsSound == \A name \in Names : Sound(CallsOf[name])
<1> SUFFICES ASSUME NEW name \in Names PROVE Sound(CallsOf[name])
    OBVIOUS
<1>1. \E m \in Methods : <<m.ns, m.method>> = name
    BY DEF Names
<1>2. (CHOOSE m \in Methods : <<m.ns, m.method>> = name) \in Methods
    BY <1>1
<1>3. CallsOf[name] =
        (CHOOSE m \in Methods : <<m.ns, m.method>> = name).calls
    BY DEF CallsOf
<1> QED BY <1>2, <1>3, MethodsSound

-----------------------------------------------------------------------------
(* A call *)

\* What the server may record as done.
Effects == {MethodAt(CallsOf[n].verb, CallsOf[n].path) : n \in Names}

\* As much of a call's type as the proofs need.
IsCall(r) ==
    /\ DOMAIN r = {"pc", "name", "blank", "page", "retries", "refused",
                   "token", "since", "answer", "result", "sends", "did",
                   "silent", "early", "lost"}
    /\ r.name \in Names \cup {Unused}
    /\ r.token \in Nat
    /\ r.since \in Nat
    /\ r.sends \in Nat
    /\ r.silent \in Nat
    /\ r.did \in Seq(Effects)

\* A call asks for something, and says so once it is under way.
Asks(r) ==
    /\ r.pc # "idle" => r.name \in Names
    /\ r.pc # "done" => ~r.blank /\ r.result = "none"
    /\ r.pc = "idle" \/ r.blank \/ r.result = "request" => r.sends = 0

\* The token it holds had its margin when it was looked up, and no token was
\* refused that had not been held for as long.
Holds(r, t) ==
    /\ r.pc \in {"slot", "sent"} =>
          /\ r.since <= t
          /\ (r.token - r.since) * 100 >= RefreshPct * TokenLife
    /\ ~r.early

\* The server did no more than silences hide, but for the request that was
\* answered last.
Effective(r) ==
    /\ r.pc \in {"idle", "token", "slot", "sent"} => Len(r.did) <= r.silent
    /\ r.pc = "answered" =>
          IF r.answer.status = "ok" /\ ~r.answer.more
          THEN Len(r.did) <= r.silent + 1
          ELSE Len(r.did) <= r.silent
    /\ r.pc = "done" =>
          Len(r.did) <= r.silent + (IF WasAnswered(r) THEN 1 ELSE 0)
    /\ (r.pc = "answered" /\ r.answer.status = "ok") \/ WasAnswered(r) =>
          (Writes(r.name) => r.did # <<>>)

Good(r, t) == IsCall(r) /\ Asks(r) /\ Holds(r, t) /\ Effective(r)

IInv ==
    /\ now \in Nat
    /\ cache \in Nat
    /\ DOMAIN call = Calls
    /\ \A c \in Calls : Good(call[c], now)

-----------------------------------------------------------------------------
(* The steps *)

\* A step of one call disturbs no other.
LEMMA OneCall ==
    ASSUME IInv, NEW c \in Calls, NEW r, Set(c, r), UNCHANGED now,
           cache' \in Nat, Good(r, now)
    PROVE  IInv'
<1>1. \A d \in Calls : Good(call'[d], now)
    BY DEF Set, IInv
<1> QED BY <1>1 DEF Set, IInv, Good, IsCall, Asks, Holds, Effective,
                    WasAnswered, Writes

\* The request starts, or starts again.
LEMMA RequestGood ==
    ASSUME NEW r, NEW t, IsCall(r), Asks(r), ~r.early, r.pc # "done",
           r.name \in Names, Len(r.did) <= r.silent
    PROVE  Good(Request(r), t) /\ Good(Again(r), t)
BY DEF Good, IsCall, Asks, Holds, Effective, Request, Again, WasAnswered

\* The call ends.
LEMMA EndedGood ==
    ASSUME NEW r, NEW t, NEW result, IsCall(r), ~r.early, r.name \in Names,
           r.blank \/ result = "request" => r.sends = 0,
           IF result \in {"ok", "response"}
           THEN /\ Len(r.did) <= r.silent + 1
                /\ Writes(r.name) => r.did # <<>>
           ELSE Len(r.did) <= r.silent
    PROVE  Good(Ended(r, result), t)
<1>1. Len(r.did) \in Nat
    BY DEF IsCall
<1> QED BY <1>1 DEF Good, IsCall, Asks, Holds, Effective, Ended, WasAnswered

\* What an effect more makes of the record of them.
LEMMA AppendGrows ==
    ASSUME NEW S, NEW s \in Seq(S), NEW e \in S
    PROVE  /\ Append(s, e) \in Seq(S)
           /\ Len(Append(s, e)) = Len(s) + 1
           /\ Append(s, e) # <<>>
           /\ Len(s) \in Nat
<1>1. /\ Append(s, e) \in Seq(S)
      /\ Len(Append(s, e)) = Len(s) + 1
      /\ Len(s) \in Nat
    OBVIOUS
<1>2. Len(<<>>) = 0
    OBVIOUS
<1>3. Append(s, e) # <<>>
    BY <1>1, <1>2
<1> QED BY <1>1, <1>3

\* What was asked is done.
LEMMA DoneEffect ==
    ASSUME IInv, NEW c \in Calls, call[c].pc = "sent"
    PROVE  /\ IsCall(Done(c)) /\ Asks(Done(c)) /\ ~Done(c).early
           /\ Done(c).pc = "sent" /\ Done(c).name = call[c].name
           /\ Done(c).silent = call[c].silent
           /\ Len(Done(c).did) <= call[c].silent + 1
           /\ Writes(call[c].name) => Done(c).did # <<>>
           /\ ~Writes(call[c].name) => Done(c) = call[c]
<1> DEFINE r == call[c]
           effect == MethodAt(CallsOf[r.name].verb, CallsOf[r.name].path)
<1>1. Good(r, now) /\ r.name \in Names
    BY DEF IInv, Good, Asks
<1>2. CASE ~Writes(r.name)
    <2>1. Done(c) = r
        BY <1>2 DEF Done
    <2>2. Len(r.did) \in Nat /\ r.silent \in Nat
        BY <1>1 DEF Good, IsCall
    <2> QED BY <1>1, <1>2, <2>1, <2>2 DEF Good, Effective, Holds
<1>3. CASE Writes(r.name)
    <2>1. Done(c) = [r EXCEPT !.did = Append(@, effect)]
        BY <1>3 DEF Done
    <2>2. effect \in Effects
        BY <1>1 DEF Effects
    <2> HIDE DEF effect, r
    <2>3. /\ Append(r.did, effect) \in Seq(Effects)
          /\ Len(Append(r.did, effect)) = Len(r.did) + 1
          /\ Append(r.did, effect) # <<>>
          /\ Len(r.did) \in Nat
        BY <1>1, <2>2, AppendGrows DEF Good, IsCall
    <2>4. Done(c).did = Append(r.did, effect)
        BY <1>1, <2>1 DEF Good, IsCall
    <2>5. Len(r.did) <= r.silent
        BY <1>1 DEF Good, Effective, r
    <2> QED BY <1>1, <1>3, <2>1, <2>3, <2>4, <2>5
            DEF Good, IsCall, Asks, Holds, r
<1> QED BY <1>2, <1>3

\* An attempt is over.
LEMMA AnsweredGood ==
    ASSUME NEW r, NEW t, NEW status, NEW form, NEW more \in BOOLEAN,
           IsCall(r), Asks(r), ~r.early, r.pc = "sent", r.name \in Names,
           IF status = "ok" /\ ~more THEN Len(r.did) <= r.silent + 1
                                     ELSE Len(r.did) <= r.silent,
           status = "ok" => (Writes(r.name) => r.did # <<>>)
    PROVE  Good(Answered(r, status, form, more), t)
BY DEF Good, IsCall, Asks, Holds, Effective, Answered, NoToken, WasAnswered

-----------------------------------------------------------------------------
(* What each action leaves good *)

\* No client has a call before it begins one.
LEMMA InitGood == Init => IInv
<1> SUFFICES ASSUME Init PROVE IInv
    OBVIOUS
<1>1. PICK mix \in Mixes : call = [c \in Calls |-> [Idle EXCEPT !.name = mix[c]]]
    BY DEF Init
<1>2. \A c \in Calls : mix[c] \in Names \cup {Unused}
    BY <1>1, MixesAssumption
<1>3. \A c \in Calls : Good(call[c], 0)
    <2> SUFFICES ASSUME NEW c \in Calls PROVE Good(call[c], 0)
        OBVIOUS
    <2>1. call[c] = [Idle EXCEPT !.name = mix[c]]
        BY <1>1
    <2>2. <<>> \in Seq(Effects) /\ Len(<<>>) = 0
        OBVIOUS
    <2> QED BY <1>2, <2>1, <2>2
            DEF Idle, Good, IsCall, Asks, Holds, Effective, NoToken, NoAnswer,
                WasAnswered
<1>4. now = 0 /\ cache = 0
    BY DEF Init, Limiter!Init, NoToken
<1> QED BY <1>1, <1>3, <1>4 DEF IInv

LEMMA BeginGood ==
    ASSUME IInv, NEW c \in Calls, Begin(c)
    PROVE  IInv'
<1> DEFINE r == call[c]
           schema == CallsOf[r.name].body
<1>1. Good(r, now) /\ r.pc = "idle" /\ r.name \in Names
    BY DEF IInv, Good, IsCall, Begin
<1>2. UNCHANGED now /\ cache' \in Nat
    BY DEF Begin, IInv
<1>3. Len(r.did) <= r.silent
    BY <1>1 DEF Good, Effective
<1>4. CASE schema = NoBody
    <2>1. Set(c, Request(r))
        BY <1>4 DEF Begin
    <2>2. Good(Request(r), now)
        BY <1>1, <1>3, RequestGood DEF Good, Holds
    <2> QED BY <1>2, <2>1, <2>2, OneCall
<1>5. CASE schema # NoBody
    <2>1. PICK body \in Bodies(schema) :
             LET given == [r EXCEPT !.blank = body.given = {}]
             IN  Set(c, IF validateRequest(body, schema)
                        THEN Request(given) ELSE Ended(given, "request"))
        BY <1>5 DEF Begin
    <2> DEFINE given == [r EXCEPT !.blank = body.given = {}]
    <2>2. given.pc = "idle" /\ given.sends = 0 /\ given.name \in Names
        BY <1>1 DEF Good, IsCall, Asks
    <2>3. IsCall(given) /\ ~given.early /\ Len(given.did) <= given.silent
        BY <1>1, <1>3 DEF Good, IsCall, Holds
    <2>4. CASE validateRequest(body, schema)
        <3>1. body.given # {}
            <4>1. schema.required # {} \/ schema.some
                BY <1>1, <1>5, CallsSound DEF Sound
            <4> QED BY <2>4, <4>1 DEF validateRequest
        <3>2. Asks(given)
            BY <1>1, <3>1 DEF Good, IsCall, Asks
        <3>3. Good(Request(given), now)
            BY <2>2, <2>3, <3>2, RequestGood
        <3> QED BY <1>2, <2>1, <2>4, <3>3, OneCall
    <2>5. CASE ~validateRequest(body, schema)
        <3>1. Good(Ended(given, "request"), now)
            BY <2>2, <2>3, EndedGood
        <3> QED BY <1>2, <2>1, <2>5, <3>1, OneCall
    <2> QED BY <2>4, <2>5
<1> QED BY <1>4, <1>5

\* A new token has its margin: the margin is a share of its life.
LEMMA NewTokenUsable == TokenLife * 100 >= RefreshPct * TokenLife
BY ClientAssumption

LEMMA LookUpTokenGood ==
    ASSUME IInv, NEW c \in Calls, LookUpToken(c)
    PROVE  IInv'
<1> DEFINE r == call[c]
           Holding(token) ==
               [r EXCEPT !.pc = "slot", !.token = token, !.since = now]
<1>1. Good(r, now) /\ r.pc = "token" /\ r.name \in Names /\ now \in Nat
    BY DEF IInv, Good, Asks, LookUpToken
<1>2. UNCHANGED now
    BY DEF LookUpToken
<1>3. ASSUME NEW token \in Nat, (token - now) * 100 >= RefreshPct * TokenLife
      PROVE  Good(Holding(token), now)
    <2> DEFINE h == Holding(token)
    <2>1. /\ h.pc = "slot" /\ h.token = token /\ h.since = now
          /\ h.early = r.early /\ h.did = r.did /\ h.silent = r.silent
          /\ h.sends = r.sends /\ h.name = r.name /\ h.blank = r.blank
          /\ h.result = r.result /\ DOMAIN h = DOMAIN r
        BY <1>1 DEF Good, IsCall
    <2> HIDE DEF h
    <2>2. (h.token - h.since) * 100 >= RefreshPct * TokenLife
        BY <1>3, <2>1
    <2> QED BY <1>1, <2>1, <2>2
            DEF Good, IsCall, Asks, Holds, Effective, WasAnswered
<1>4. CASE Usable(cache) /\ Set(c, Holding(cache)) /\ UNCHANGED cache
    <2>1. cache \in Nat
        BY DEF IInv
    <2>2. Good(Holding(cache), now)
        BY <1>3, <1>4, <2>1 DEF Usable
    <2> QED BY <1>2, <1>4, <2>1, <2>2, OneCall
<1>5. CASE /\ cache' = now + TokenLife
           /\ Set(c, Holding(now + TokenLife))
    <2> DEFINE fresh == now + TokenLife
    <2>1. fresh \in Nat /\ fresh - now = TokenLife
        BY <1>1, ClientAssumption
    <2>2. cache' = fresh /\ Set(c, Holding(fresh))
        BY <1>5
    <2> HIDE DEF fresh
    <2>3. (fresh - now) * 100 >= RefreshPct * TokenLife
        BY <2>1, NewTokenUsable
    <2> HIDE DEF Holding
    <2>4. Good(Holding(fresh), now)
        BY <1>3, <2>1, <2>3
    <2> QED BY <1>2, <2>1, <2>2, <2>4, OneCall
<1>6. CASE Set(c, Ended(r, "no token")) /\ UNCHANGED cache
    <2>1. Good(Ended(r, "no token"), now)
        BY <1>1, EndedGood DEF Good, Asks, Holds, Effective
    <2>2. cache' \in Nat
        BY <1>6 DEF IInv
    <2> QED BY <1>2, <1>6, <2>1, <2>2, OneCall
<1> QED BY <1>4, <1>5, <1>6 DEF LookUpToken

LEMMA SendGood ==
    ASSUME IInv, NEW c \in Calls, Send(c)
    PROVE  IInv'
<1> DEFINE r == call[c]
           s == Sent(r)
<1>1. Good(r, now) /\ r.pc = "slot" /\ Set(c, s)
    BY DEF IInv, Send
<1>2. /\ s.pc = "sent" /\ s.sends = r.sends + 1 /\ s.name = r.name
      /\ s.token = r.token /\ s.since = r.since /\ s.early = r.early
      /\ s.did = r.did /\ s.silent = r.silent /\ s.blank = r.blank
      /\ s.result = r.result /\ DOMAIN s = DOMAIN r
    BY <1>1 DEF Sent, Good, IsCall
<1> HIDE DEF s
<1>3. Good(s, now)
    BY <1>1, <1>2 DEF Good, IsCall, Asks, Holds, Effective, WasAnswered
<1>4. UNCHANGED now /\ cache' \in Nat
    BY DEF Send, Limiter!Grant, IInv
<1> QED BY <1>1, <1>3, <1>4, OneCall

\* A token is refused for its age only after its margin has gone by.
LEMMA RefuseGood ==
    ASSUME IInv, NEW c \in Calls, Refuse(c)
    PROVE  IInv'
<1> DEFINE r == call[c]
           early == (now - r.since) * 100 < RefreshPct * TokenLife
           seen == [r EXCEPT !.early = @ \/ early]
<1>1. Good(r, now) /\ r.pc = "sent" /\ r.name \in Names /\ now \in Nat
    BY DEF IInv, Good, Asks, Refuse
<1>2. r.token <= now /\ Set(c, Answered(seen, "unauthorized", "none", FALSE))
    BY DEF Refuse
<1>3. ~early
    <2> DEFINE margin == RefreshPct * TokenLife
    <2>1. margin \in Int
        BY ClientAssumption
    <2>2. /\ r.token \in Nat /\ r.since \in Nat
          /\ (r.token - r.since) * 100 >= margin
        BY <1>1 DEF Good, IsCall, Holds
    <2> HIDE DEF margin, r
    <2>3. (now - r.since) * 100 >= margin
        BY <1>1, <1>2, <2>1, <2>2
    <2> QED BY <1>1, <2>1, <2>2, <2>3 DEF margin
<1> HIDE DEF early
<1>4. /\ seen.pc = "sent" /\ seen.name = r.name /\ ~seen.early
      /\ seen.did = r.did /\ seen.silent = r.silent /\ seen.sends = r.sends
      /\ seen.token = r.token /\ seen.since = r.since /\ seen.blank = r.blank
      /\ seen.result = r.result /\ DOMAIN seen = DOMAIN r
    BY <1>1, <1>3 DEF Good, IsCall, Holds
<1> HIDE DEF seen
<1>5. IsCall(seen) /\ Asks(seen) /\ ~seen.early /\ Len(seen.did) <= seen.silent
    BY <1>1, <1>4 DEF Good, IsCall, Asks, Holds, Effective
<1>6. Good(Answered(seen, "unauthorized", "none", FALSE), now)
    BY <1>1, <1>4, <1>5, AnsweredGood
<1>7. UNCHANGED now /\ cache' \in Nat
    BY DEF Refuse, IInv
<1> QED BY <1>2, <1>6, <1>7, OneCall

\* A request that is answered as documented did what it is for.
LEMMA ServeGood ==
    ASSUME IInv, NEW c \in Calls, Serve(c)
    PROVE  IInv'
<1> DEFINE r == call[c]
<1>1. Good(r, now) /\ r.pc = "sent" /\ r.name \in Names
    BY DEF IInv, Good, Asks, Serve
<1>2. PICK form \in Forms(AnswerAt(CallsOf[r.name].verb,
                                    CallsOf[r.name].path).entity)
                       \cup {"wrong"},
            more \in BOOLEAN :
         /\ more => CallsOf[r.name].reads = "pages"
         /\ Set(c, Answered(Done(c), "ok", form, more))
    BY DEF Serve
<1>3. more => ~Writes(r.name)
    BY <1>1, <1>2, CallsSound DEF Sound, Writes
<1>4. more => Len(Done(c).did) <= Done(c).silent
    BY <1>1, <1>3, DoneEffect DEF Good, Effective
<1>5. Good(Answered(Done(c), "ok", form, more), now)
    BY <1>1, <1>4, DoneEffect, AnsweredGood
<1>6. UNCHANGED now /\ cache' \in Nat
    BY DEF Serve, IInv
<1> QED BY <1>2, <1>5, <1>6, OneCall

LEMMA DeclineGood ==
    ASSUME IInv, NEW c \in Calls, Decline(c)
    PROVE  IInv'
<1> DEFINE r == call[c]
<1>1. Good(r, now) /\ r.pc = "sent" /\ r.name \in Names
    BY DEF IInv, Good, Asks, Decline
<1>2. PICK status \in {"declined", "limited"} :
         Set(c, Answered(r, status, "none", FALSE))
    BY DEF Decline
<1>3. Good(Answered(r, status, "none", FALSE), now)
    BY <1>1, <1>2, AnsweredGood DEF Good, Holds, Effective
<1>4. UNCHANGED now /\ cache' \in Nat
    BY DEF Decline, IInv
<1> QED BY <1>2, <1>3, <1>4, OneCall

\* What is done in silence is counted as a silence.
LEMMA FailGood ==
    ASSUME IInv, NEW c \in Calls, Fail(c)
    PROVE  IInv'
<1> DEFINE r == call[c]
           Silent(record) == [record EXCEPT !.silent = @ + 1]
<1>1. Good(r, now) /\ r.pc = "sent" /\ r.name \in Names
    BY DEF IInv, Good, Asks, Fail
<1>2. PICK record \in {r, Done(c)} :
         Set(c, Answered(Silent(record), "failed", "none", FALSE))
    BY DEF Fail
<1>3. /\ IsCall(record) /\ Asks(record) /\ ~record.early
      /\ record.pc = "sent" /\ record.name \in Names
      /\ Len(record.did) <= record.silent + 1
    <2>1. Len(r.did) <= r.silent /\ Len(r.did) \in Nat /\ r.silent \in Nat
        BY <1>1 DEF Good, IsCall, Effective
    <2> QED BY <1>1, <1>2, <2>1, DoneEffect DEF Good, Holds
<1> DEFINE s == Silent(record)
<1>4. /\ s.silent = record.silent + 1 /\ s.pc = "sent" /\ s.did = record.did
      /\ s.name = record.name /\ s.early = record.early
      /\ s.sends = record.sends /\ s.token = record.token
      /\ s.since = record.since /\ s.blank = record.blank
      /\ s.result = record.result /\ DOMAIN s = DOMAIN record
    BY <1>3 DEF IsCall
<1>5. Set(c, Answered(s, "failed", "none", FALSE))
    BY <1>2
<1> HIDE DEF s
<1>6. Good(Answered(s, "failed", "none", FALSE), now)
    <2>1. IsCall(s) /\ Asks(s) /\ ~s.early /\ Len(s.did) <= s.silent
        BY <1>3, <1>4 DEF IsCall, Asks
    <2> QED BY <1>3, <1>4, <2>1, AnsweredGood
<1>7. UNCHANGED now /\ cache' \in Nat
    BY DEF Fail, IInv
<1> QED BY <1>5, <1>6, <1>7, OneCall

\* What the client makes of an answer.
LEMMA HandleGood ==
    ASSUME IInv, NEW c \in Calls, Handle(c)
    PROVE  IInv'
<1> DEFINE r == call[c]
<1>1. Good(r, now) /\ r.pc = "answered" /\ r.name \in Names /\ ~r.blank
    BY DEF IInv, Good, Asks, Handle
<1>2. UNCHANGED now
    BY DEF Handle
<1>3. CASE Accept(c)
    <2> DEFINE form == r.answer.form
               reading == Reading(CallsOf[r.name],
                                  AnswerAt(CallsOf[r.name].verb,
                                           CallsOf[r.name].path), form)
               read == IF reading = "whole" THEN r
                       ELSE [r EXCEPT !.lost = @ \cup {form}]
               next == [read EXCEPT !.page = @ + 1]
    <2>1. /\ read.pc = "answered" /\ read.name = r.name /\ read.did = r.did
          /\ read.early = r.early /\ read.silent = r.silent
          /\ read.sends = r.sends /\ read.token = r.token
          /\ read.since = r.since /\ read.blank = r.blank
          /\ read.result = r.result /\ DOMAIN read = DOMAIN r
        BY <1>1 DEF Good, IsCall
    <2>2. /\ r.answer.status = "ok" /\ cache' = cache
          /\ Set(c, IF reading = "rejected" THEN Ended(read, "response")
                    ELSE IF r.answer.more THEN Request(next)
                    ELSE Ended(read, "ok"))
        BY <1>3 DEF Accept
    <2>3. cache' \in Nat
        BY <2>2 DEF IInv
    <2> HIDE DEF read, reading
    <2>4. ASSUME NEW result \in {"ok", "response"}
          PROVE  Good(Ended(read, result), now)
        <3>1. /\ Len(r.did) <= r.silent + 1
              /\ Writes(r.name) => r.did # <<>>
            BY <1>1, <2>2 DEF Good, IsCall, Effective
        <3>2. IsCall(read) /\ ~read.early
            BY <1>1, <2>1 DEF Good, IsCall, Holds
        <3> QED BY <1>1, <2>1, <3>1, <3>2, EndedGood
    <2>5. CASE reading # "rejected" /\ r.answer.more
        <3>1. /\ next.pc = "answered" /\ next.name = r.name
              /\ next.did = r.did /\ next.early = r.early
              /\ next.silent = r.silent /\ next.sends = r.sends
              /\ next.token = r.token /\ next.since = r.since
              /\ next.blank = r.blank /\ next.result = r.result
              /\ DOMAIN next = DOMAIN r
            BY <1>1, <2>1 DEF Good, IsCall
        <3>2. Set(c, Request(next))
            BY <2>2, <2>5
        <3> HIDE DEF next
        <3>3. Len(next.did) <= next.silent
            BY <1>1, <2>5, <3>1 DEF Good, Effective
        <3>4. IsCall(next) /\ Asks(next) /\ ~next.early
            BY <1>1, <3>1 DEF Good, IsCall, Asks, Holds
        <3>5. Good(Request(next), now)
            BY <1>1, <3>1, <3>3, <3>4, RequestGood
        <3> QED BY <1>2, <2>3, <3>2, <3>5, OneCall
    <2>6. CASE reading = "rejected" \/ ~r.answer.more
        <3>1. \E result \in {"ok", "response"} : Set(c, Ended(read, result))
            BY <2>2, <2>6
        <3> QED BY <1>2, <2>3, <2>4, <3>1, OneCall
    <2> QED BY <2>5, <2>6
<1>4. ASSUME r.answer.status # "ok"
      PROVE  Len(r.did) <= r.silent
    BY <1>1, <1>4 DEF Good, Effective
<1>5. ASSUME r.answer.status # "ok", NEW result,
             result \notin {"ok", "response", "request"}
      PROVE  Good(Ended(r, result), now)
    BY <1>1, <1>4, <1>5, EndedGood DEF Good, Holds
<1>6. CASE Unauthorized(c)
    <2> DEFINE s == [r EXCEPT !.refused = TRUE]
    <2>1. r.answer.status = "unauthorized"
        BY <1>6 DEF Unauthorized
    <2>2. CASE r.refused
        <3>1. Set(c, Ended(r, "unauthorized")) /\ cache' \in Nat
            BY <1>6, <2>2 DEF Unauthorized, IInv
        <3>2. Good(Ended(r, "unauthorized"), now)
            BY <1>5, <2>1
        <3> QED BY <1>2, <3>1, <3>2, OneCall
    <2>3. CASE ~r.refused
        <3>1. Set(c, Again(s)) /\ cache' \in Nat
            BY <1>6, <2>3 DEF Unauthorized, NoToken
        <3>2. IsCall(s) /\ Asks(s) /\ ~s.early /\ s.pc = "answered"
                /\ s.name \in Names /\ Len(s.did) <= s.silent
            BY <1>1, <1>4, <2>1 DEF Good, IsCall, Asks, Holds
        <3>3. Good(Again(s), now)
            BY <3>2, RequestGood
        <3> QED BY <1>2, <3>1, <3>3, OneCall
    <2> QED BY <2>2, <2>3
<1>7. CASE RetryOrGiveUp(c)
    <2> DEFINE s == [r EXCEPT !.retries = @ + 1]
    <2>1. /\ r.answer.status \in {"limited", "failed"}
          /\ Set(c, IF r.retries + 1 < MaxAttempts THEN Again(s)
                    ELSE Ended(r, r.answer.status))
          /\ cache' \in Nat
        BY <1>7 DEF RetryOrGiveUp, IInv
    <2>2. IsCall(s) /\ Asks(s) /\ ~s.early /\ s.pc = "answered"
            /\ s.name \in Names /\ Len(s.did) <= s.silent
        BY <1>1, <1>4, <2>1 DEF Good, IsCall, Asks, Holds
    <2>3. Good(Again(s), now)
        BY <2>2, RequestGood
    <2>4. Good(Ended(r, r.answer.status), now)
        BY <1>5, <2>1
    <2> QED BY <1>2, <2>1, <2>3, <2>4, OneCall
<1>8. CASE Declined(c)
    <2>1. /\ r.answer.status = "declined" /\ cache' \in Nat
          /\ Set(c, Ended(r, "declined"))
        BY <1>8 DEF Declined, IInv
    <2>2. Good(Ended(r, "declined"), now)
        BY <1>5, <2>1
    <2> QED BY <1>2, <2>1, <2>2, OneCall
<1> QED BY <1>3, <1>6, <1>7, <1>8 DEF Handle

LEMMA TickGood == IInv /\ (Tick \/ UNCHANGED vars) => IInv'
<1> SUFFICES ASSUME IInv, Tick \/ UNCHANGED vars PROVE IInv'
    OBVIOUS
<1>1. /\ now' \in Nat /\ now' >= now /\ UNCHANGED <<cache, call>>
    BY DEF Tick, Limiter!Tick, vars, IInv
<1>2. \A c \in Calls : Good(call[c], now')
    BY <1>1 DEF IInv, Good, IsCall, Holds
<1> QED BY <1>1, <1>2 DEF IInv, Good, IsCall, Asks, Holds, Effective,
                          WasAnswered, Writes

-----------------------------------------------------------------------------
(* The theorems *)

\* The invariant holds in every reachable state, whatever the calls are.
THEOREM CallsGood == Spec => []IInv
<1>1. IInv /\ [Next]_vars => IInv'
    <2> SUFFICES ASSUME IInv, [Next]_vars PROVE IInv'
        OBVIOUS
    <2> QED BY BeginGood, LookUpTokenGood, SendGood, RefuseGood, ServeGood,
               DeclineGood, FailGood, HandleGood, TickGood DEF Next, Rest
<1> QED BY <1>1, InitGood, PTL DEF Spec

\* A token that was not revoked is refused only to a request that waited for
\* its slot as long as the margin its token had left when it was looked up.
THEOREM AgeNeedsWait == Spec => []RefusedOnlyAfterWait
<1>1. IInv => RefusedOnlyAfterWait
    BY DEF IInv, Good, Holds, RefusedOnlyAfterWait
<1> QED BY <1>1, CallsGood, PTL

\* A write is done again only after an attempt that ended in silence, a write
\* that was answered was done, and one that does not validate was never sent.
THEOREM WritesTold ==
    Spec => [](RepeatedOnlyInSilence /\ DoneIfAnswered /\ RefusedUnsent)
<1>1. IInv => RepeatedOnlyInSilence /\ DoneIfAnswered /\ RefusedUnsent
    BY DEF IInv, Good, Asks, Effective, RepeatedOnlyInSilence,
           DoneIfAnswered, RefusedUnsent
<1> QED BY <1>1, CallsGood, PTL

-----------------------------------------------------------------------------
(* The table of operations *)

\* If two entries of the table are for the same route, they are the same.
Agree(e, f) == e.verb = f.verb /\ e.path = f.path => e = f

LEMMA EntriesAgree ==
    ASSUME NEW verb, NEW path, NEW ns, NEW method,
           NEW v, NEW p, NEW n, NEW m,
           verb # v \/ path # p \/ (ns = n /\ method = m)
    PROVE  Agree(Entry(verb, path, ns, method), Entry(v, p, n, m))
BY DEF Agree, Entry

LEMMA AccountRoutes == \A e \in AccountOperations : \A f \in OPERATION_MAP : Agree(e, f)
<1> SUFFICES ASSUME NEW e \in AccountOperations, NEW f \in OPERATION_MAP
             PROVE  Agree(e, f)
    OBVIOUS
<1>1. CASE f \in AccountOperations
    BY <1>1, EntriesAgree DEF AccountOperations
<1>2. CASE f \in ActivityLogOperations
    BY <1>2, EntriesAgree DEF AccountOperations, ActivityLogOperations
<1>3. CASE f \in AlertOperations
    BY <1>3, EntriesAgree DEF AccountOperations, AlertOperations
<1>4. CASE f \in AuditOperations
    BY <1>4, EntriesAgree DEF AccountOperations, AuditOperations
<1>5. CASE f \in DeviceOperations
    BY <1>5, EntriesAgree DEF AccountOperations, DeviceOperations
<1>6. CASE f \in FilterOperations
    BY <1>6, EntriesAgree DEF AccountOperations, FilterOperations
<1>7. CASE f \in JobOperations
    BY <1>7, EntriesAgree DEF AccountOperations, JobOperations
<1>8. CASE f \in SiteOperations
    BY <1>8, EntriesAgree DEF AccountOperations, SiteOperations
<1>9. CASE f \in SystemOperations
    BY <1>9, EntriesAgree DEF AccountOperations, SystemOperations
<1>10. CASE f \in UserOperations
    BY <1>10, EntriesAgree DEF AccountOperations, UserOperations
<1> QED BY <1>1, <1>2, <1>3, <1>4, <1>5, <1>6, <1>7, <1>8, <1>9, <1>10 DEF OPERATION_MAP

LEMMA AlertRoutes == \A e \in AlertOperations : \A f \in OPERATION_MAP : Agree(e, f)
<1> SUFFICES ASSUME NEW e \in AlertOperations, NEW f \in OPERATION_MAP
             PROVE  Agree(e, f)
    OBVIOUS
<1>1. CASE f \in AccountOperations
    BY <1>1, EntriesAgree DEF AlertOperations, AccountOperations
<1>2. CASE f \in ActivityLogOperations
    BY <1>2, EntriesAgree DEF AlertOperations, ActivityLogOperations
<1>3. CASE f \in AlertOperations
    BY <1>3, EntriesAgree DEF AlertOperations
<1>4. CASE f \in AuditOperations
    BY <1>4, EntriesAgree DEF AlertOperations, AuditOperations
<1>5. CASE f \in DeviceOperations
    BY <1>5, EntriesAgree DEF AlertOperations, DeviceOperations
<1>6. CASE f \in FilterOperations
    BY <1>6, EntriesAgree DEF AlertOperations, FilterOperations
<1>7. CASE f \in JobOperations
    BY <1>7, EntriesAgree DEF AlertOperations, JobOperations
<1>8. CASE f \in SiteOperations
    BY <1>8, EntriesAgree DEF AlertOperations, SiteOperations
<1>9. CASE f \in SystemOperations
    BY <1>9, EntriesAgree DEF AlertOperations, SystemOperations
<1>10. CASE f \in UserOperations
    BY <1>10, EntriesAgree DEF AlertOperations, UserOperations
<1> QED BY <1>1, <1>2, <1>3, <1>4, <1>5, <1>6, <1>7, <1>8, <1>9, <1>10 DEF OPERATION_MAP

LEMMA DeviceRoutes == \A e \in DeviceOperations : \A f \in OPERATION_MAP : Agree(e, f)
<1> SUFFICES ASSUME NEW e \in DeviceOperations, NEW f \in OPERATION_MAP
             PROVE  Agree(e, f)
    OBVIOUS
<1>1. CASE f \in AccountOperations
    BY <1>1, EntriesAgree DEF DeviceOperations, AccountOperations
<1>2. CASE f \in ActivityLogOperations
    BY <1>2, EntriesAgree DEF DeviceOperations, ActivityLogOperations
<1>3. CASE f \in AlertOperations
    BY <1>3, EntriesAgree DEF DeviceOperations, AlertOperations
<1>4. CASE f \in AuditOperations
    BY <1>4, EntriesAgree DEF DeviceOperations, AuditOperations
<1>5. CASE f \in DeviceOperations
    BY <1>5, EntriesAgree DEF DeviceOperations
<1>6. CASE f \in FilterOperations
    BY <1>6, EntriesAgree DEF DeviceOperations, FilterOperations
<1>7. CASE f \in JobOperations
    BY <1>7, EntriesAgree DEF DeviceOperations, JobOperations
<1>8. CASE f \in SiteOperations
    BY <1>8, EntriesAgree DEF DeviceOperations, SiteOperations
<1>9. CASE f \in SystemOperations
    BY <1>9, EntriesAgree DEF DeviceOperations, SystemOperations
<1>10. CASE f \in UserOperations
    BY <1>10, EntriesAgree DEF DeviceOperations, UserOperations
<1> QED BY <1>1, <1>2, <1>3, <1>4, <1>5, <1>6, <1>7, <1>8, <1>9, <1>10 DEF OPERATION_MAP

LEMMA SiteRoutes == \A e \in SiteOperations : \A f \in OPERATION_MAP : Agree(e, f)
<1> SUFFICES ASSUME NEW e \in SiteOperations, NEW f \in OPERATION_MAP
             PROVE  Agree(e, f)
    OBVIOUS
<1>1. CASE f \in AccountOperations
    BY <1>1, EntriesAgree DEF SiteOperations, AccountOperations
<1>2. CASE f \in ActivityLogOperations
    BY <1>2, EntriesAgree DEF SiteOperations, ActivityLogOperations
<1>3. CASE f \in AlertOperations
    BY <1>3, EntriesAgree DEF SiteOperations, AlertOperations
<1>4. CASE f \in AuditOperations
    BY <1>4, EntriesAgree DEF SiteOperations, AuditOperations
<1>5. CASE f \in DeviceOperations
    BY <1>5, EntriesAgree DEF SiteOperations, DeviceOperations
<1>6. CASE f \in FilterOperations
    BY <1>6, EntriesAgree DEF SiteOperations, FilterOperations
<1>7. CASE f \in JobOperations
    BY <1>7, EntriesAgree DEF SiteOperations, JobOperations
<1>8. CASE f \in SiteOperations
    BY <1>8, EntriesAgree, ZenonT(30) DEF SiteOperations
<1>9. CASE f \in SystemOperations
    BY <1>9, EntriesAgree DEF SiteOperations, SystemOperations
<1>10. CASE f \in UserOperations
    BY <1>10, EntriesAgree DEF SiteOperations, UserOperations
<1> QED BY <1>1, <1>2, <1>3, <1>4, <1>5, <1>6, <1>7, <1>8, <1>9, <1>10 DEF OPERATION_MAP

LEMMA UserRoutes == \A e \in UserOperations : \A f \in OPERATION_MAP : Agree(e, f)
<1> SUFFICES ASSUME NEW e \in UserOperations, NEW f \in OPERATION_MAP
             PROVE  Agree(e, f)
    OBVIOUS
<1>1. CASE f \in AccountOperations
    BY <1>1, EntriesAgree DEF UserOperations, AccountOperations
<1>2. CASE f \in ActivityLogOperations
    BY <1>2, EntriesAgree DEF UserOperations, ActivityLogOperations
<1>3. CASE f \in AlertOperations
    BY <1>3, EntriesAgree DEF UserOperations, AlertOperations
<1>4. CASE f \in AuditOperations
    BY <1>4, EntriesAgree DEF UserOperations, AuditOperations
<1>5. CASE f \in DeviceOperations
    BY <1>5, EntriesAgree DEF UserOperations, DeviceOperations
<1>6. CASE f \in FilterOperations
    BY <1>6, EntriesAgree DEF UserOperations, FilterOperations
<1>7. CASE f \in JobOperations
    BY <1>7, EntriesAgree DEF UserOperations, JobOperations
<1>8. CASE f \in SiteOperations
    BY <1>8, EntriesAgree DEF UserOperations, SiteOperations
<1>9. CASE f \in SystemOperations
    BY <1>9, EntriesAgree DEF UserOperations, SystemOperations
<1>10. CASE f \in UserOperations
    BY <1>10, EntriesAgree DEF UserOperations
<1> QED BY <1>1, <1>2, <1>3, <1>4, <1>5, <1>6, <1>7, <1>8, <1>9, <1>10 DEF OPERATION_MAP

\* An entry for a write is the only one for its route.
WriteRoutes ==
    UNION {AccountOperations, AlertOperations, DeviceOperations,
           SiteOperations, UserOperations}

LEMMA RouteNamesOne ==
    ASSUME NEW verb, NEW path, NEW ns, NEW method,
           Entry(verb, path, ns, method) \in WriteRoutes
    PROVE  MethodAt(verb, path) = <<ns, method>>
<1> DEFINE e == Entry(verb, path, ns, method)
           named == CHOOSE f \in OPERATION_MAP : f.verb = verb /\ f.path = path
<1>1. e.verb = verb /\ e.path = path /\ e.ns = ns /\ e.method = method
    BY DEF Entry
<1>2. e \in WriteRoutes
    OBVIOUS
<1> HIDE DEF e
<1>3. e \in OPERATION_MAP /\ \A f \in OPERATION_MAP : Agree(e, f)
    BY <1>2, AccountRoutes, AlertRoutes, DeviceRoutes, SiteRoutes, UserRoutes
       DEF WriteRoutes, OPERATION_MAP
<1>4. named \in OPERATION_MAP /\ named.verb = verb /\ named.path = path
    BY <1>1, <1>3
<1>5. named = e
    BY <1>1, <1>3, <1>4 DEF Agree
<1> QED BY <1>1, <1>5 DEF MethodAt

\* The table names a method for the route it writes to.
Routed(m) ==
    m.calls.verb # "get" =>
        Entry(m.calls.verb, m.calls.path, m.ns, m.method) \in WriteRoutes

LEMMA MethodRouted ==
    ASSUME NEW ns, NEW method, NEW path, NEW body, NEW response, NEW key
    PROVE  /\ Routed(Method(ns, method, httpGet(path, response)))
           /\ Routed(Method(ns, method, httpGetArray(path, response)))
           /\ Routed(Method(ns, method, paginate(path, key, response)))
           /\ Entry("post", path, ns, method) \in WriteRoutes =>
                 Routed(Method(ns, method, httpPost(path, body, response, key)))
           /\ Entry("put", path, ns, method) \in WriteRoutes =>
                 Routed(Method(ns, method, httpPut(path, body, response, key)))
           /\ Entry("delete", path, ns, method) \in WriteRoutes =>
                 Routed(Method(ns, method, httpDelete(path, key)))
BY DEF Routed, Method, httpGet, httpGetArray, paginate, httpPost, httpPut,
       httpDelete, Primitive

\* It does so for the methods of every namespace.
LEMMA MethodsRouted == \A m \in Methods : Routed(m)
<1> SUFFICES ASSUME NEW m \in Methods PROVE Routed(m)
    OBVIOUS
<1>1. /\ AccountOperations \subseteq WriteRoutes
      /\ AlertOperations \subseteq WriteRoutes
      /\ DeviceOperations \subseteq WriteRoutes
      /\ SiteOperations \subseteq WriteRoutes
      /\ UserOperations \subseteq WriteRoutes
    BY DEF WriteRoutes
<1>2. CASE m \in AccountResource
    BY <1>1, <1>2, MethodRouted DEF AccountResource, AccountOperations
<1>3. CASE m \in AlertResource
    BY <1>1, <1>3, MethodRouted DEF AlertResource, AlertOperations
<1>4. CASE m \in DeviceResource
    BY <1>1, <1>4, MethodRouted DEF DeviceResource, DeviceOperations
<1>5. CASE m \in SiteResource
    BY <1>1, <1>5, MethodRouted DEF SiteResource, SiteOperations
<1>6. CASE m \in UserResource
    BY <1>1, <1>6, MethodRouted DEF UserResource, UserOperations
<1>7. CASE m \in ActivityLogResource \cup FilterResource \cup SystemResource
    BY <1>7, MethodRouted DEF ActivityLogResource, FilterResource, SystemResource
<1>8. CASE m \in AuditResource
    BY <1>8, MethodRouted DEF AuditResource
<1>9. CASE m \in JobResource
    BY <1>9, MethodRouted DEF JobResource
<1> QED BY <1>2, <1>3, <1>4, <1>5, <1>6, <1>7, <1>8, <1>9 DEF Methods

\* A method writes to the route the table names it for, and to no other.
LEMMA OwnRoute ==
    \A name \in Names :
        Writes(name) => MethodAt(CallsOf[name].verb, CallsOf[name].path) = name
<1> SUFFICES ASSUME NEW name \in Names, Writes(name)
             PROVE  MethodAt(CallsOf[name].verb, CallsOf[name].path) = name
    OBVIOUS
<1> DEFINE m == CHOOSE m \in Methods : <<m.ns, m.method>> = name
<1>1. \E x \in Methods : <<x.ns, x.method>> = name
    BY DEF Names
<1>2. m \in Methods /\ <<m.ns, m.method>> = name
    BY <1>1
<1>3. CallsOf[name] = m.calls
    BY DEF CallsOf
<1> HIDE DEF m
<1>4. Entry(m.calls.verb, m.calls.path, m.ns, m.method) \in WriteRoutes
    BY <1>2, <1>3, MethodsRouted DEF Writes, Routed
<1> QED BY <1>2, <1>3, <1>4, RouteNamesOne

-----------------------------------------------------------------------------
(* What a call is *)

AnswerForms == {"wrong", "plain", "offset", "member", "udf", "context"}

\* Every answer a call may hold, and every state it may be in.
AnswerType ==
    [status : {"none", "ok", "unauthorized", "declined", "limited", "failed"},
     form : {"none"} \cup AnswerForms,
     more : BOOLEAN]
CallType ==
    [pc : {"idle", "token", "slot", "sent", "answered", "done"},
     name : Names \cup {Unused}, blank : BOOLEAN,
     page : 1 .. MaxPages, retries : 0 .. MaxAttempts - 1,
     refused : BOOLEAN, token : 0 .. Horizon + TokenLife,
     since : 0 .. Horizon, answer : AnswerType, result : Results,
     sends : Nat, did : Seq(Names), silent : Nat, early : BOOLEAN,
     lost : SUBSET AnswerForms]

\* What the route a call is for may answer it.
FormsFor(r) ==
    LET calls == CallsOf[r.name]
    IN  Forms(AnswerAt(calls.verb, calls.path).entity) \cup {"wrong"}

\* How a call reads an answer in a form.
ReadingOf(r, form) ==
    LET calls == CallsOf[r.name]
    IN  Reading(calls, AnswerAt(calls.verb, calls.path), form)

\* An answer has a form the route documents, or a wrong value; it leads on to
\* no page past the bound; what was lost was lost once under way; and what was
\* done is what the method is for.
Told(r) ==
    /\ r.pc = "answered" /\ r.answer.status = "ok" =>
          /\ r.answer.form \in FormsFor(r)
          /\ r.answer.more => r.page < MaxPages
    /\ \A form \in r.lost : form \in FormsFor(r) /\ ReadingOf(r, form) # "whole"
    /\ r.pc = "idle" => r.lost = {}
    /\ \A i \in DOMAIN r.did : r.did[i] = r.name

Full(r) == r \in CallType /\ Told(r)

FullInv ==
    /\ now \in 0 .. Horizon
    /\ cache \in 0 .. Horizon + TokenLife
    /\ call \in [Calls -> CallType]
    /\ \A c \in Calls : Told(call[c])

\* The forms a route documents are forms.
LEMMA FormsTyped == \A r : FormsFor(r) \subseteq AnswerForms
BY DEF FormsFor, Forms, AnswerForms

LEMMA OneFull ==
    ASSUME FullInv, NEW c \in Calls, NEW r, Set(c, r), UNCHANGED now,
           cache' \in 0 .. Horizon + TokenLife, Full(r)
    PROVE  FullInv'
<1>1. call' \in [Calls -> CallType]
    BY DEF Set, FullInv, Full
<1>2. \A d \in Calls : Told(call'[d])
    BY DEF Set, FullInv, Full
<1> QED BY <1>1, <1>2 DEF FullInv, Told, FormsFor, ReadingOf

\* The parts of a call the lemma is about change, the others stay.
LEMMA RequestFull ==
    ASSUME NEW r, Full(r)
    PROVE  Full(Request(r)) /\ Full(Again(r))
<1>1. NoAnswer \in AnswerType /\ NoAnswer.status = "none"
    BY DEF NoAnswer, AnswerType
<1>2. 0 \in 0 .. MaxAttempts - 1
    BY ClientAssumption
<1>3. Request(r) \in CallType /\ Again(r) \in CallType
    BY <1>1, <1>2 DEF Full, CallType, Request, Again
<1>4. /\ Request(r).pc = "token" /\ Again(r).pc = "token"
      /\ Request(r).name = r.name /\ Again(r).name = r.name
      /\ Request(r).lost = r.lost /\ Again(r).lost = r.lost
      /\ Request(r).did = r.did /\ Again(r).did = r.did
    BY DEF Full, CallType, Request, Again
<1> QED BY <1>3, <1>4 DEF Full, Told, FormsFor, ReadingOf

LEMMA EndedFull ==
    ASSUME NEW r, Full(r), NEW result \in Results
    PROVE  Full(Ended(r, result))
<1>1. NoAnswer \in AnswerType /\ NoAnswer.status = "none"
    BY DEF NoAnswer, AnswerType
<1>2. 0 \in 0 .. MaxAttempts - 1 /\ 1 \in 1 .. MaxPages
    BY ClientAssumption
<1>3. Ended(r, result) \in CallType
    BY <1>1, <1>2 DEF Full, CallType, Ended
<1>4. /\ Ended(r, result).pc = "done" /\ Ended(r, result).name = r.name
      /\ Ended(r, result).lost = r.lost /\ Ended(r, result).did = r.did
    BY DEF Full, CallType, Ended
<1> QED BY <1>3, <1>4 DEF Full, Told, FormsFor, ReadingOf

LEMMA AnsweredFull ==
    ASSUME NEW r, Full(r), NEW status \in {"ok", "unauthorized", "declined",
                                           "limited", "failed"},
           NEW form \in {"none"} \cup AnswerForms, NEW more \in BOOLEAN,
           status = "ok" => /\ form \in FormsFor(r)
                            /\ more => r.page < MaxPages
    PROVE  Full(Answered(r, status, form, more))
<1> DEFINE a == [status |-> status, form |-> form, more |-> more]
           s == Answered(r, status, form, more)
<1>1. a \in AnswerType
    BY DEF AnswerType
<1>2. NoToken \in 0 .. Horizon + TokenLife /\ 0 \in 0 .. Horizon
    BY ClientAssumption DEF NoToken
<1>3. s = [r EXCEPT !.pc = "answered", !.token = NoToken, !.since = 0, !.answer = a]
    BY DEF Answered
<1>4. a.status = status /\ a.form = form /\ a.more = more
    OBVIOUS
<1> HIDE DEF a, s
<1>5. s \in CallType
    BY <1>1, <1>2, <1>3 DEF Full, CallType
<1>6. /\ s.pc = "answered" /\ s.name = r.name /\ s.answer = a
      /\ s.lost = r.lost /\ s.did = r.did /\ s.page = r.page
    BY <1>3 DEF Full, CallType
<1>7. Told(s)
    BY <1>4, <1>6 DEF Full, Told, FormsFor, ReadingOf
<1> QED BY <1>5, <1>7 DEF Full, s

LEMMA InitFull == Init => FullInv
<1> SUFFICES ASSUME Init PROVE FullInv
    OBVIOUS
<1>1. PICK mix \in Mixes : call = [c \in Calls |-> [Idle EXCEPT !.name = mix[c]]]
    BY DEF Init
<1>2. \A c \in Calls : mix[c] \in Names \cup {Unused}
    BY <1>1, MixesAssumption
<1>3. ASSUME NEW name \in Names \cup {Unused} PROVE Full([Idle EXCEPT !.name = name])
    <2>1. NoAnswer \in AnswerType /\ NoAnswer.status = "none"
        BY DEF NoAnswer, AnswerType
    <2>2. /\ 0 \in 0 .. MaxAttempts - 1 /\ 1 \in 1 .. MaxPages
          /\ 0 \in 0 .. Horizon /\ NoToken \in 0 .. Horizon + TokenLife
        BY ClientAssumption DEF NoToken
    <2>3. <<>> \in Seq(Names) /\ DOMAIN <<>> = {}
        OBVIOUS
    <2>4. [Idle EXCEPT !.name = name] \in CallType
        BY <2>1, <2>2, <2>3 DEF Idle, CallType, Results
    <2> QED BY <2>3, <2>4 DEF Idle, Full, Told
<1>4. now \in 0 .. Horizon /\ cache \in 0 .. Horizon + TokenLife
    BY ClientAssumption DEF Init, Limiter!Init, NoToken
<1>5. \A c \in Calls : Full(call[c])
    BY <1>1, <1>2, <1>3
<1>6. call = [c \in Calls |-> call[c]]
    BY <1>1
<1> QED BY <1>4, <1>5, <1>6 DEF Full, FullInv

LEMMA BeginFull ==
    ASSUME IInv, FullInv, NEW c \in Calls, Begin(c)
    PROVE  FullInv'
<1> DEFINE r == call[c]
<1>1. Full(r) /\ UNCHANGED now /\ cache' \in 0 .. Horizon + TokenLife
    BY DEF FullInv, Full, Begin
<1>2. PICK given \in {r, [r EXCEPT !.blank = TRUE], [r EXCEPT !.blank = FALSE]} :
         Set(c, Request(given)) \/ Set(c, Ended(given, "request"))
    BY DEF Begin
<1>3. given \in CallType
    BY <1>1, <1>2, ZenonT(30) DEF Full, CallType
<1>4. /\ given.pc = r.pc /\ given.name = r.name /\ given.answer = r.answer
      /\ given.lost = r.lost /\ given.did = r.did /\ given.page = r.page
    BY <1>1, <1>2 DEF Full, CallType
<1>5. Full(given)
    BY <1>1, <1>3, <1>4 DEF Full, Told, FormsFor, ReadingOf
<1>6. Full(Request(given)) /\ Full(Ended(given, "request"))
    BY <1>5, RequestFull, EndedFull DEF Results
<1> QED BY <1>1, <1>2, <1>6, OneFull

LEMMA LookUpTokenFull ==
    ASSUME IInv, FullInv, NEW c \in Calls, LookUpToken(c)
    PROVE  FullInv'
<1> DEFINE r == call[c]
           Holding(token) ==
               [r EXCEPT !.pc = "slot", !.token = token, !.since = now]
<1>1. Full(r) /\ UNCHANGED now /\ now \in 0 .. Horizon
    BY DEF FullInv, Full, LookUpToken
<1>2. ASSUME NEW token \in 0 .. Horizon + TokenLife PROVE Full(Holding(token))
    <2>1. Holding(token) \in CallType
        BY <1>1 DEF Full, CallType
    <2>2. /\ Holding(token).pc = "slot" /\ Holding(token).name = r.name
          /\ Holding(token).lost = r.lost /\ Holding(token).did = r.did
        BY <1>1 DEF Full, CallType
    <2> QED BY <1>1, <2>1, <2>2 DEF Full, Told, FormsFor, ReadingOf
<1>3. now + TokenLife \in 0 .. Horizon + TokenLife
    BY <1>1, ClientAssumption
<1>4. cache \in 0 .. Horizon + TokenLife
    BY DEF FullInv
<1>5. CASE cache' = cache /\ Set(c, Holding(cache))
    BY <1>1, <1>2, <1>4, <1>5, OneFull
<1>6. CASE cache' = now + TokenLife /\ Set(c, Holding(now + TokenLife))
    BY <1>1, <1>2, <1>3, <1>6, OneFull
<1>7. CASE cache' = cache /\ Set(c, Ended(r, "no token"))
    BY <1>1, <1>4, <1>7, EndedFull, OneFull DEF Results
<1> QED BY <1>5, <1>6, <1>7 DEF LookUpToken

LEMMA SendFull ==
    ASSUME IInv, FullInv, NEW c \in Calls, Send(c)
    PROVE  FullInv'
<1> DEFINE r == call[c]
           s == Sent(r)
<1>1. Full(r) /\ UNCHANGED now /\ cache' \in 0 .. Horizon + TokenLife
    BY DEF FullInv, Full, Send, Limiter!Grant
<1>2. s \in CallType
    <2>1. r \in CallType /\ r.sends \in Nat
        BY <1>1 DEF Full, CallType
    <2>2. r.sends + 1 \in Nat /\ s = [r EXCEPT !.pc = "sent", !.sends = r.sends + 1]
        BY <2>1 DEF Sent
    <2> HIDE DEF s, r
    <2> DEFINE n == r.sends + 1
    <2>3. n \in Nat /\ s = [r EXCEPT !.pc = "sent", !.sends = n]
        BY <2>2
    <2> HIDE DEF n
    <2> QED BY <2>1, <2>3 DEF CallType
<1>3. s.pc = "sent" /\ s.name = r.name /\ s.lost = r.lost /\ s.did = r.did
    BY <1>1 DEF Sent, Full, CallType
<1>4. Full(s)
    BY <1>1, <1>2, <1>3 DEF Full, Told, FormsFor, ReadingOf
<1> QED BY <1>1, <1>4, OneFull DEF Send

\* What the server does for a write is what the table names the method for.
LEMMA DoneFull ==
    ASSUME IInv, FullInv, NEW c \in Calls, call[c].pc = "sent"
    PROVE  /\ Full(Done(c)) /\ Done(c).pc = "sent"
           /\ Done(c).name = call[c].name /\ Done(c).page = call[c].page
<1> DEFINE r == call[c]
           effect == MethodAt(CallsOf[r.name].verb, CallsOf[r.name].path)
<1>1. Full(r) /\ r.name \in Names
    BY DEF FullInv, Full, IInv, Good, Asks
<1>2. CASE ~Writes(r.name)
    BY <1>1, <1>2 DEF Done
<1>3. CASE Writes(r.name)
    <2>1. effect = r.name
        BY <1>1, <1>3, OwnRoute
    <2>2. Done(c) = [r EXCEPT !.did = Append(r.did, effect)]
        BY <1>3 DEF Done
    <2> HIDE DEF effect
    <2>3. r.did \in Seq(Names)
        BY <1>1 DEF Full, CallType
    <2> DEFINE did == Append(r.did, r.name)
    <2>4. did \in Seq(Names) /\ \A i \in DOMAIN did : did[i] = r.name
        <3>1. \A i \in DOMAIN r.did : r.did[i] = r.name
            BY <1>1 DEF Full, Told
        <3> QED BY <1>1, <2>3, <3>1
    <2>5. Done(c) = [r EXCEPT !.did = did]
        BY <2>1, <2>2
    <2> HIDE DEF did
    <2>6. Done(c) \in CallType
        BY <1>1, <2>4, <2>5 DEF Full, CallType
    <2>7. /\ Done(c).did = did /\ Done(c).pc = "sent" /\ Done(c).name = r.name
          /\ Done(c).page = r.page /\ Done(c).lost = r.lost
        BY <1>1, <2>5 DEF Full, CallType
    <2> QED BY <1>1, <2>4, <2>6, <2>7 DEF Full, Told, FormsFor, ReadingOf
<1> QED BY <1>2, <1>3

LEMMA ServerFull ==
    ASSUME IInv, FullInv, NEW c \in Calls,
           Refuse(c) \/ Serve(c) \/ Decline(c) \/ Fail(c)
    PROVE  FullInv'
<1> DEFINE r == call[c]
<1>1. /\ Full(r) /\ UNCHANGED now /\ cache' \in 0 .. Horizon + TokenLife
      /\ r.pc = "sent"
    BY DEF FullInv, Full, Refuse, Serve, Decline, Fail
<1>2. "none" \in {"none"} \cup AnswerForms /\ FALSE \in BOOLEAN
    OBVIOUS
<1>3. CASE Refuse(c)
    <2>1. PICK seen \in {r, [r EXCEPT !.early = TRUE], [r EXCEPT !.early = FALSE]} :
             Set(c, Answered(seen, "unauthorized", "none", FALSE))
        <3> DEFINE early == (now - r.since) * 100 < RefreshPct * TokenLife
        <3>1. Set(c, Answered([r EXCEPT !.early = @ \/ early], "unauthorized",
                              "none", FALSE))
            BY <1>3 DEF Refuse
        <3> HIDE DEF early
        <3>2. \/ [r EXCEPT !.early = @ \/ early] = [r EXCEPT !.early = TRUE]
              \/ [r EXCEPT !.early = @ \/ early] = [r EXCEPT !.early = FALSE]
            BY <1>1 DEF Full, CallType
        <3> QED BY <3>1, <3>2
    <2>2. seen \in CallType
        BY <1>1, <2>1, ZenonT(30) DEF Full, CallType
    <2>3. /\ seen.pc = r.pc /\ seen.name = r.name /\ seen.answer = r.answer
          /\ seen.lost = r.lost /\ seen.did = r.did /\ seen.page = r.page
        BY <1>1, <2>1 DEF Full, CallType
    <2>4. Full(seen)
        BY <1>1, <2>2, <2>3 DEF Full, Told, FormsFor, ReadingOf
    <2>5. Full(Answered(seen, "unauthorized", "none", FALSE))
        BY <1>2, <2>4, AnsweredFull
    <2> QED BY <1>1, <2>1, <2>5, OneFull
<1>4. CASE Serve(c)
    <2>1. PICK form \in FormsFor(r), more \in BOOLEAN :
             /\ more => r.page < MaxPages
             /\ Set(c, Answered(Done(c), "ok", form, more))
        BY <1>4 DEF Serve, FormsFor
    <2>2. form \in {"none"} \cup AnswerForms
        BY <2>1, FormsTyped
    <2>3. /\ Full(Done(c)) /\ form \in FormsFor(Done(c))
          /\ more => Done(c).page < MaxPages
        BY <1>1, <2>1, DoneFull DEF FormsFor
    <2>4. Full(Answered(Done(c), "ok", form, more))
        BY <2>2, <2>3, AnsweredFull
    <2> QED BY <1>1, <2>1, <2>4, OneFull
<1>5. CASE Decline(c)
    <2>1. PICK status \in {"declined", "limited"} :
             Set(c, Answered(r, status, "none", FALSE))
        BY <1>5 DEF Decline
    <2>2. Full(Answered(r, status, "none", FALSE))
        BY <1>1, <1>2, <2>1, AnsweredFull
    <2> QED BY <1>1, <2>1, <2>2, OneFull
<1>6. CASE Fail(c)
    <2>1. PICK record \in {r, Done(c)} :
             Set(c, Answered([record EXCEPT !.silent = @ + 1], "failed", "none", FALSE))
        BY <1>6 DEF Fail
    <2> DEFINE s == [record EXCEPT !.silent = @ + 1]
    <2>2. Full(record)
        BY <1>1, <2>1, DoneFull
    <2>3. s \in CallType
        BY <2>2 DEF Full, CallType
    <2>4. /\ s.pc = record.pc /\ s.name = record.name /\ s.answer = record.answer
          /\ s.lost = record.lost /\ s.did = record.did /\ s.page = record.page
        BY <2>2 DEF Full, CallType
    <2> HIDE DEF s
    <2>5. Full(s)
        BY <2>2, <2>3, <2>4 DEF Full, Told, FormsFor, ReadingOf
    <2>6. Full(Answered(s, "failed", "none", FALSE))
        BY <1>2, <2>5, AnsweredFull
    <2>7. Set(c, Answered(s, "failed", "none", FALSE))
        BY <2>1 DEF s
    <2> QED BY <1>1, <2>6, <2>7, OneFull
<1> QED BY <1>3, <1>4, <1>5, <1>6

LEMMA HandleFull ==
    ASSUME IInv, FullInv, NEW c \in Calls, Handle(c)
    PROVE  FullInv'
<1> DEFINE r == call[c]
<1>1. Full(r) /\ UNCHANGED now /\ r.pc = "answered"
    BY DEF FullInv, Full, Handle
<1>2. cache' \in 0 .. Horizon + TokenLife
    BY ClientAssumption DEF Handle, Accept, Unauthorized, RetryOrGiveUp, Declined,
          FullInv, NoToken
<1>3. r.retries \in 0 .. MaxAttempts - 1 /\ r.answer \in AnswerType
    BY <1>1 DEF Full, CallType
<1>4. CASE Accept(c)
    <2> DEFINE form == r.answer.form
               reading == ReadingOf(r, form)
               read == IF reading = "whole" THEN r
                       ELSE [r EXCEPT !.lost = @ \cup {form}]
               next == [read EXCEPT !.page = @ + 1]
    <2>1. /\ r.answer.status = "ok"
          /\ Set(c, IF reading = "rejected" THEN Ended(read, "response")
                    ELSE IF r.answer.more THEN Request(next)
                    ELSE Ended(read, "ok"))
        BY <1>4 DEF Accept, ReadingOf
    <2>2. form \in FormsFor(r) /\ form \in AnswerForms
        BY <1>1, <2>1, FormsTyped DEF Full, Told
    <2>3. Full(read)
        <3>1. CASE reading = "whole"
            BY <1>1, <3>1
        <3>2. CASE reading # "whole"
            <4> DEFINE s == [r EXCEPT !.lost = @ \cup {form}]
            <4> HIDE DEF form, reading
            <4>1. s \in CallType
                BY <1>1, <2>2 DEF Full, CallType
            <4>2. /\ s.pc = r.pc /\ s.name = r.name /\ s.answer = r.answer
                  /\ s.lost = r.lost \cup {form} /\ s.did = r.did /\ s.page = r.page
                BY <1>1 DEF Full, CallType
            <4>3. read = s
                BY <3>2
            <4>4. ReadingOf(r, form) # "whole"
                BY <3>2 DEF reading
            <4> HIDE DEF s, read
            <4>5. Told(s)
                BY <1>1, <2>2, <4>2, <4>4 DEF Full, Told, FormsFor, ReadingOf
            <4> QED BY <4>1, <4>3, <4>5 DEF Full
        <3> QED BY <3>1, <3>2
    <2>4. read.page = r.page /\ read.pc = "answered" /\ read.answer = r.answer
        BY <1>1 DEF Full, CallType
    <2> HIDE DEF read, reading, form
    <2>5. Full(Ended(read, "response")) /\ Full(Ended(read, "ok"))
        BY <2>3, EndedFull DEF Results
    <2>6. ASSUME r.answer.more PROVE Full(Request(next))
        <3>1. r.page < MaxPages
            BY <1>1, <2>1, <2>6 DEF Full, Told
        <3>2. next \in CallType
            <4> DEFINE n == read.page + 1
            <4>1. read \in CallType /\ read.page \in 1 .. MaxPages
                BY <2>3 DEF Full, CallType
            <4>2. n \in 1 .. MaxPages /\ next = [read EXCEPT !.page = n]
                BY <2>4, <3>1, <4>1, ClientAssumption
            <4> HIDE DEF n, next
            <4> QED BY <4>1, <4>2 DEF CallType
        <3>3. /\ next.pc = "answered" /\ next.name = read.name
              /\ next.lost = read.lost /\ next.did = read.did
            BY <2>3, <2>4 DEF Full, CallType
        <3> DEFINE again == Request(next)
        <3>4. /\ NoAnswer \in AnswerType /\ 0 \in 0 .. MaxAttempts - 1
            BY ClientAssumption DEF NoAnswer, AnswerType
        <3> HIDE DEF next
        <3>5. again \in CallType
            BY <3>2, <3>4 DEF CallType, Request
        <3>6. /\ again.pc = "token" /\ again.name = next.name
              /\ again.lost = next.lost /\ again.did = next.did
            BY <3>2 DEF CallType, Request
        <3> HIDE DEF again
        <3>7. Told(again)
            BY <2>3, <3>3, <3>6 DEF Full, Told, FormsFor, ReadingOf
        <3> QED BY <3>5, <3>7 DEF Full, again
    <2>7. \/ Set(c, Ended(read, "response"))
          \/ Set(c, Ended(read, "ok"))
          \/ r.answer.more /\ Set(c, Request(next))
        BY <2>1
    <2> QED BY <1>1, <1>2, <2>5, <2>6, <2>7, OneFull
<1>5. CASE Unauthorized(c)
    <2> DEFINE s == [r EXCEPT !.refused = TRUE]
    <2>1. s \in CallType
        BY <1>1 DEF Full, CallType
    <2>2. /\ s.pc = r.pc /\ s.name = r.name /\ s.answer = r.answer
          /\ s.lost = r.lost /\ s.did = r.did /\ s.page = r.page
        BY <1>1 DEF Full, CallType
    <2>3. Set(c, Ended(r, "unauthorized")) \/ Set(c, Again(s))
        BY <1>5 DEF Unauthorized
    <2> HIDE DEF s
    <2>4. Full(s)
        BY <1>1, <2>1, <2>2 DEF Full, Told, FormsFor, ReadingOf
    <2>5. Full(Ended(r, "unauthorized")) /\ Full(Again(s))
        BY <1>1, <2>4, EndedFull, RequestFull DEF Results
    <2> QED BY <1>1, <1>2, <2>3, <2>5, OneFull
<1>6. CASE RetryOrGiveUp(c)
    <2> DEFINE s == [r EXCEPT !.retries = @ + 1]
    <2>1. /\ r.answer.status \in {"limited", "failed"}
          /\ Set(c, IF r.retries + 1 < MaxAttempts THEN Again(s)
                    ELSE Ended(r, r.answer.status))
        BY <1>6 DEF RetryOrGiveUp
    <2>2. Full(Ended(r, r.answer.status))
        BY <1>1, <2>1, EndedFull DEF Results
    <2>3. ASSUME r.retries + 1 < MaxAttempts PROVE Full(Again(s))
        <3>1. s \in CallType
            <4> DEFINE n == r.retries + 1
            <4>1. n \in 0 .. MaxAttempts - 1 /\ s = [r EXCEPT !.retries = n]
                BY <1>3, <2>3, ClientAssumption
            <4> HIDE DEF n, s
            <4> QED BY <1>1, <4>1 DEF Full, CallType
        <3>2. /\ s.pc = r.pc /\ s.name = r.name /\ s.answer = r.answer
              /\ s.lost = r.lost /\ s.did = r.did /\ s.page = r.page
            BY <1>1 DEF Full, CallType
        <3> HIDE DEF s
        <3>3. Full(s)
            BY <1>1, <3>1, <3>2 DEF Full, Told, FormsFor, ReadingOf
        <3> QED BY <3>3, RequestFull
    <2>4. \/ r.retries + 1 < MaxAttempts /\ Set(c, Again(s))
          \/ Set(c, Ended(r, r.answer.status))
        BY <2>1
    <2> HIDE DEF s
    <2> QED BY <1>1, <1>2, <2>2, <2>3, <2>4, OneFull
<1>7. CASE Declined(c)
    <2>1. Set(c, Ended(r, "declined"))
        BY <1>7 DEF Declined
    <2>2. Full(Ended(r, "declined"))
        BY <1>1, EndedFull DEF Results
    <2> QED BY <1>1, <1>2, <2>1, <2>2, OneFull
<1> QED BY <1>4, <1>5, <1>6, <1>7 DEF Handle

LEMMA TickFull == FullInv /\ (Tick \/ UNCHANGED vars) => FullInv'
<1> SUFFICES ASSUME FullInv, Tick \/ UNCHANGED vars PROVE FullInv'
    OBVIOUS
<1>1. now' \in 0 .. Horizon /\ UNCHANGED <<cache, call>>
    BY ClientAssumption DEF Tick, Limiter!Tick, vars, FullInv
<1> QED BY <1>1 DEF FullInv, Told, FormsFor, ReadingOf

\* Every call of every reachable state is one, and what it holds has its cause.
THEOREM CallsFull == Spec => [](IInv /\ FullInv)
<1>1. IInv /\ FullInv /\ [Next]_vars => FullInv'
    <2> SUFFICES ASSUME IInv, FullInv, [Next]_vars PROVE FullInv'
        OBVIOUS
    <2> QED BY BeginFull, LookUpTokenFull, SendFull, ServerFull, HandleFull, TickFull
            DEF Next, Rest
<1> QED BY <1>1, InitFull, CallsGood, PTL DEF Spec

Granted == granted \in [Budgets -> Seq(0 .. Horizon)]

\* Every variable has its type, in a client with any calls and any limits.
THEOREM ClientTyped == Spec => []TypeOK
<1>1. Init => Granted
    BY DEF Init, Limiter!Init, Granted
<1>2. FullInv /\ Granted /\ [Next]_vars => Granted'
    <2> SUFFICES ASSUME FullInv, Granted, [Next]_vars PROVE Granted'
        OBVIOUS
    <2>1. ASSUME NEW c \in Calls, Send(c) PROVE Granted'
        <3>1. now \in 0 .. Horizon
            BY DEF FullInv
        <3>2. granted' = [b \in Budgets |->
                            IF b \in DemandOf(call[c].name)
                            THEN Append(granted[b], now) ELSE granted[b]]
            BY <2>1 DEF Send, Limiter!Grant
        <3>3. ASSUME NEW b \in Budgets
              PROVE  Append(granted[b], now) \in Seq(0 .. Horizon)
            <4>1. granted[b] \in Seq(0 .. Horizon)
                BY DEF Granted
            <4> QED BY <3>1, <4>1
        <3> QED BY <3>2, <3>3 DEF Granted
    <2>2. ASSUME UNCHANGED granted PROVE Granted'
        BY <2>2 DEF Granted
    <2> QED BY <2>1, <2>2 DEF Next, Begin, LookUpToken, Refuse, Serve, Decline,
               Fail, Handle, Rest, vars, Tick, Limiter!Tick
<1>3. FullInv /\ Granted => TypeOK
    BY DEF FullInv, Granted, TypeOK, CallType, AnswerType, AnswerForms
<1> QED BY <1>1, <1>2, <1>3, CallsFull, PTL DEF Spec

\* What the server did for a call is what its method is for; a write is done
\* again only after an attempt that ended in silence; one that was answered was
\* done; and one that does not validate was never sent.
THEOREM EffectsTold == Spec => []EffectTold
<1>1. IInv /\ FullInv => EffectTold
    <2> SUFFICES ASSUME IInv, FullInv PROVE EffectTold
        OBVIOUS
    <2>1. ItsOwnEffect
        BY DEF FullInv, Told, ItsOwnEffect
    <2>2. RepeatedOnlyInSilence /\ DoneIfAnswered /\ RefusedUnsent
        BY DEF IInv, Good, Asks, Effective, RepeatedOnlyInSilence,
               DoneIfAnswered, RefusedUnsent
    <2> QED BY <2>1, <2>2 DEF EffectTold
<1> QED BY <1>1, CallsFull, PTL

-----------------------------------------------------------------------------
(* How often a call is sent *)

\* What the pages asked for so far allow, and what of it the request under way
\* has used: an attempt for each retry, one for a 401, and the one that is out.
Allowed(pages) == pages * (MaxAttempts + 1)
Spent(r) ==
    r.retries + (IF r.refused THEN 1 ELSE 0)
              + (IF r.pc \in {"sent", "answered"} THEN 1 ELSE 0)

\* A call under way was sent as often as the pages before allow, and for this
\* one what its retries and its 401 account for.
Paced(r) ==
    IF r.pc = "done" THEN r.sends <= Allowed(r.page)
                     ELSE r.sends <= Allowed(r.page - 1) + Spent(r)

AllPaced == \A c \in Calls : Paced(call[c])

\* A page adds MaxAttempts + 1, and a request never spends more.
LEMMA PageAllows ==
    ASSUME NEW r \in CallType
    PROVE  /\ Allowed(r.page - 1) \in Nat
           /\ Allowed(r.page) = Allowed(r.page - 1) + MaxAttempts + 1
           /\ Allowed(r.page + 1 - 1) = Allowed(r.page)
           /\ Spent(r) \in 0 .. MaxAttempts + 1
<1>1. r.page \in Nat /\ r.page >= 1 /\ MaxAttempts \in Nat
    BY ClientAssumption DEF CallType
<1>2. \A p, m \in Nat : p >= 1 =>
         (p - 1) * (m + 1) \in Nat /\ p * (m + 1) = (p - 1) * (m + 1) + m + 1
    OBVIOUS
<1>3. r.page + 1 - 1 = r.page
    BY <1>1
<1>4. Spent(r) \in 0 .. MaxAttempts + 1
    BY <1>1 DEF Spent, CallType
<1> QED BY <1>1, <1>2, <1>3, <1>4 DEF Allowed

\* Two calls that differ in nothing that counts.
SameCount(r, s) ==
    /\ s.sends = r.sends /\ s.page = r.page
    /\ s.retries = r.retries /\ s.refused = r.refused

\* The call goes on, or the request is made again, or the call ends.
LEMMA GoesOnPaced ==
    ASSUME NEW r, NEW s, Paced(r), SameCount(r, s), s.pc # "done", r.pc # "done",
           s.pc \in {"sent", "answered"} <=> r.pc \in {"sent", "answered"}
    PROVE  Paced(s)
BY DEF Paced, Spent, SameCount

LEMMA EndedPaced ==
    ASSUME NEW r \in CallType, Paced(r), r.pc # "done", NEW result
    PROVE  Paced(Ended(r, result))
<1>1. /\ Ended(r, result).pc = "done" /\ Ended(r, result).sends = r.sends
      /\ Ended(r, result).page = r.page
    BY DEF Ended, CallType
<1>2. r.sends \in Nat /\ r.sends <= Allowed(r.page - 1) + Spent(r)
    BY DEF Paced, CallType
<1> QED BY <1>1, <1>2, PageAllows, ClientAssumption DEF Paced

LEMMA RequestPaced ==
    ASSUME NEW r \in CallType, r.sends <= Allowed(r.page - 1)
    PROVE  Paced(Request(r))
<1>1. /\ Request(r).pc = "token" /\ Request(r).sends = r.sends
      /\ Request(r).page = r.page
      /\ Request(r).retries = 0 /\ Request(r).refused = FALSE
    BY DEF Request, CallType
<1>2. Spent(Request(r)) = 0
    BY <1>1 DEF Spent
<1>3. r.sends \in Nat /\ Allowed(r.page - 1) \in Nat
    BY PageAllows DEF CallType
<1> QED BY <1>1, <1>2, <1>3 DEF Paced

\* The attempt that was out is accounted for by one retry more, or by the 401.
LEMMA AgainPaced ==
    ASSUME NEW r \in CallType, Paced(r), r.pc = "answered", NEW s,
           s.page = r.page, s.sends = r.sends,
           \/ s.retries = r.retries + 1 /\ s.refused = r.refused
           \/ s.retries = r.retries /\ s.refused = TRUE /\ r.refused = FALSE,
           DOMAIN s = DOMAIN r
    PROVE  Paced(Again(s))
<1> DEFINE a == Again(s)
<1>1. {"pc", "page", "sends", "retries", "refused", "answer"} \subseteq DOMAIN s
    BY DEF CallType
<1>2. /\ a.pc = "token" /\ a.page = s.page /\ a.sends = s.sends
      /\ a.retries = s.retries /\ a.refused = s.refused
    BY <1>1 DEF Again
<1>3. r.retries \in Nat /\ r.refused \in BOOLEAN
    BY DEF CallType
<1> HIDE DEF a
<1>4. Spent(a) = Spent(r)
    BY <1>2, <1>3 DEF Spent
<1> QED BY <1>2, <1>4 DEF Paced, a

LEMMA OnePaced ==
    ASSUME FullInv, AllPaced, NEW c \in Calls, NEW r, Set(c, r), Paced(r)
    PROVE  AllPaced'
<1>1. \A d \in Calls : call'[d] = IF d = c THEN r ELSE call[d]
    BY DEF Set, FullInv
<1> QED BY <1>1 DEF AllPaced, Paced, Spent, Allowed

LEMMA BeginPaced ==
    ASSUME IInv, FullInv, AllPaced, NEW c \in Calls, Begin(c)
    PROVE  AllPaced'
<1> DEFINE r == call[c]
<1>1. r \in CallType /\ r.pc = "idle" /\ r.sends = 0
    BY DEF FullInv, Begin, IInv, Good, Asks
<1>2. PICK given \in {r, [r EXCEPT !.blank = TRUE], [r EXCEPT !.blank = FALSE]} :
         Set(c, Request(given)) \/ Set(c, Ended(given, "request"))
    BY DEF Begin
<1>3. given \in CallType /\ given.pc = "idle" /\ SameCount(r, given)
    <2>1. given \in CallType
        <3>1. r \in CallType
            BY <1>1
        <3> HIDE DEF r
        <3>2. \A b \in BOOLEAN : [r EXCEPT !.blank = b] \in CallType
            BY <3>1 DEF CallType
        <3> QED BY <1>2, <3>1, <3>2
    <2>2. given.pc = "idle" /\ SameCount(r, given)
        BY <1>1, <1>2 DEF CallType, SameCount
    <2> QED BY <2>1, <2>2
<1>4. Paced(given) /\ given.sends <= Allowed(given.page - 1)
    <2>1. given.sends = 0 /\ given.sends <= Allowed(given.page - 1)
        BY <1>1, <1>3, PageAllows DEF SameCount
    <2> QED BY <1>1, <1>3, <2>1, GoesOnPaced DEF AllPaced
<1>5. Paced(Request(given)) /\ Paced(Ended(given, "request"))
    BY <1>3, <1>4, RequestPaced, EndedPaced
<1> QED BY <1>2, <1>5, OnePaced

LEMMA LookUpTokenPaced ==
    ASSUME FullInv, AllPaced, NEW c \in Calls, LookUpToken(c)
    PROVE  AllPaced'
<1> DEFINE r == call[c]
           Holding(token) == [r EXCEPT !.pc = "slot", !.token = token, !.since = now]
<1>1. r \in CallType /\ Paced(r) /\ r.pc = "token"
    BY DEF FullInv, AllPaced, LookUpToken
<1>2. PICK token : Set(c, Holding(token)) \/ Set(c, Ended(r, "no token"))
    BY DEF LookUpToken
<1>3. SameCount(r, Holding(token)) /\ Holding(token).pc = "slot"
    BY <1>1 DEF CallType, SameCount
<1>4. Paced(Holding(token)) /\ Paced(Ended(r, "no token"))
    BY <1>1, <1>3, GoesOnPaced, EndedPaced
<1> QED BY <1>2, <1>4, OnePaced

LEMMA SendPaced ==
    ASSUME FullInv, AllPaced, NEW c \in Calls, Send(c)
    PROVE  AllPaced'
<1> DEFINE r == call[c]
           s == Sent(r)
<1>1. r \in CallType /\ Paced(r) /\ r.pc = "slot" /\ Set(c, s)
    BY DEF FullInv, AllPaced, Send
<1>2. /\ s.pc = "sent" /\ s.sends = r.sends + 1 /\ s.page = r.page
      /\ s.retries = r.retries /\ s.refused = r.refused
    BY <1>1 DEF Sent, CallType
<1>3. r.retries \in Nat /\ r.sends \in Nat /\ Allowed(r.page - 1) \in Nat
    BY <1>1, PageAllows DEF CallType
<1> HIDE DEF s
<1>4. Spent(s) = Spent(r) + 1
    BY <1>1, <1>2, <1>3 DEF Spent
<1>5. Paced(s)
    BY <1>1, <1>2, <1>3, <1>4, PageAllows DEF Paced
<1> QED BY <1>1, <1>5, OnePaced

LEMMA ServerPaced ==
    ASSUME IInv, FullInv, AllPaced, NEW c \in Calls,
           Refuse(c) \/ Serve(c) \/ Decline(c) \/ Fail(c)
    PROVE  AllPaced'
<1> DEFINE r == call[c]
<1>1. r \in CallType /\ Paced(r) /\ r.pc = "sent"
    BY DEF FullInv, AllPaced, Refuse, Serve, Decline, Fail
<1>2. ASSUME NEW s, DOMAIN s = DOMAIN r, SameCount(r, s),
             NEW status, NEW form, NEW more
      PROVE  Paced(Answered(s, status, form, more))
    <2> DEFINE a == Answered(s, status, form, more)
    <2>1. {"pc", "page", "sends", "retries", "refused"} \subseteq DOMAIN s
        BY <1>1, <1>2 DEF CallType
    <2>2. a.pc = "answered" /\ SameCount(s, a)
        BY <2>1 DEF Answered, SameCount
    <2>3. SameCount(r, a)
        BY <1>2, <2>2 DEF SameCount
    <2> QED BY <1>1, <2>2, <2>3, GoesOnPaced
<1>3. DOMAIN Done(c) = DOMAIN r /\ SameCount(r, Done(c)) /\ Done(c) \in CallType
    <2>1. Done(c) \in CallType
        BY <1>1, DoneFull DEF Full
    <2> QED BY <1>1, <2>1 DEF Done, CallType, SameCount
<1>4. CASE Refuse(c)
    <2>1. PICK early : Set(c, Answered([r EXCEPT !.early = r.early \/ early],
                                       "unauthorized", "none", FALSE))
        BY <1>4 DEF Refuse
    <2> DEFINE s == [r EXCEPT !.early = r.early \/ early]
    <2>2. DOMAIN s = DOMAIN r /\ SameCount(r, s)
        BY <1>1 DEF CallType, SameCount
    <2> HIDE DEF s
    <2>3. Set(c, Answered(s, "unauthorized", "none", FALSE))
        BY <2>1 DEF s
    <2> QED BY <1>2, <2>2, <2>3, OnePaced
<1>5. CASE Serve(c)
    BY <1>2, <1>3, <1>5, OnePaced DEF Serve
<1>6. CASE Decline(c)
    <2>1. SameCount(r, r)
        BY DEF SameCount
    <2> QED BY <1>2, <1>6, <2>1, OnePaced DEF Decline
<1>7. CASE Fail(c)
    <2>1. PICK record \in {r, Done(c)} :
             Set(c, Answered([record EXCEPT !.silent = @ + 1], "failed", "none", FALSE))
        BY <1>7 DEF Fail
    <2> DEFINE s == [record EXCEPT !.silent = @ + 1]
    <2>2. DOMAIN s = DOMAIN r /\ SameCount(r, s)
        BY <1>1, <1>3, <2>1 DEF CallType, SameCount
    <2> HIDE DEF s
    <2>3. Set(c, Answered(s, "failed", "none", FALSE))
        BY <2>1 DEF s
    <2> QED BY <1>2, <2>2, <2>3, OnePaced
<1> QED BY <1>4, <1>5, <1>6, <1>7

LEMMA HandlePaced ==
    ASSUME IInv, FullInv, AllPaced, NEW c \in Calls, Handle(c)
    PROVE  AllPaced'
<1> DEFINE r == call[c]
<1>1. r \in CallType /\ Paced(r) /\ r.pc = "answered"
    BY DEF FullInv, AllPaced, Handle
<1>2. r.sends \in Nat /\ r.sends <= Allowed(r.page)
    <2>1. r.sends \in Nat /\ r.sends <= Allowed(r.page - 1) + Spent(r)
        BY <1>1 DEF Paced, CallType
    <2> QED BY <1>1, <2>1, PageAllows, ClientAssumption
<1>3. CASE Accept(c)
    <2>1. PICK read \in {r, [r EXCEPT !.lost = @ \cup {r.answer.form}]} :
             \/ \E result : Set(c, Ended(read, result))
             \/ r.answer.more /\ Set(c, Request([read EXCEPT !.page = @ + 1]))
        <3> DEFINE reading == ReadingOf(r, r.answer.form)
                   lossy == [r EXCEPT !.lost = @ \cup {r.answer.form}]
                   read == IF reading = "whole" THEN r ELSE lossy
        <3>1. Set(c, IF reading = "rejected" THEN Ended(read, "response")
                     ELSE IF r.answer.more
                     THEN Request([read EXCEPT !.page = @ + 1])
                     ELSE Ended(read, "ok"))
            BY <1>3 DEF Accept, ReadingOf
        <3>2. read \in {r, lossy}
            OBVIOUS
        <3> HIDE DEF read, reading, lossy
        <3>3. \/ Set(c, Ended(read, "response"))
              \/ Set(c, Ended(read, "ok"))
              \/ r.answer.more /\ Set(c, Request([read EXCEPT !.page = @ + 1]))
            BY <3>1
        <3> QED BY <3>2, <3>3 DEF lossy
    <2>2. /\ r.answer.status = "ok" /\ r.answer.form \in AnswerForms
        BY <1>1, <1>3, FormsTyped DEF Accept, FullInv, Told
    <2>3. /\ read \in CallType /\ read.pc = "answered" /\ SameCount(r, read)
        <3> DEFINE form == r.answer.form
                   lossy == [r EXCEPT !.lost = @ \cup {form}]
        <3> HIDE DEF form
        <3>1. form \in AnswerForms
            BY <2>2 DEF form
        <3>2. /\ lossy \in CallType /\ lossy.pc = "answered"
              /\ SameCount(r, lossy)
            BY <1>1, <3>1 DEF CallType, SameCount
        <3>3. read \in {r, lossy}
            BY <2>1 DEF form
        <3> HIDE DEF lossy
        <3> QED BY <1>1, <3>2, <3>3 DEF SameCount
    <2>4. Paced(read)
        BY <1>1, <2>3, GoesOnPaced
    <2>5. \A result : Paced(Ended(read, result))
        BY <2>3, <2>4, EndedPaced
    <2>6. ASSUME r.answer.more
          PROVE  Paced(Request([read EXCEPT !.page = @ + 1]))
        <3> DEFINE n == read.page + 1
                   next == [read EXCEPT !.page = n]
        <3>1. r.page < MaxPages /\ r.page \in 1 .. MaxPages /\ read.page = r.page
            BY <1>1, <2>2, <2>3, <2>6 DEF FullInv, Told, CallType, SameCount
        <3>2. n \in 1 .. MaxPages /\ n - 1 = r.page
            BY <3>1, ClientAssumption
        <3>3. next = [read EXCEPT !.page = @ + 1]
            OBVIOUS
        <3> HIDE DEF n
        <3>4. next \in CallType
            BY <2>3, <3>2 DEF CallType
        <3>5. next.page = n /\ next.sends = r.sends
            BY <2>3 DEF CallType, SameCount
        <3> HIDE DEF next
        <3>6. next.sends <= Allowed(next.page - 1)
            BY <1>2, <3>2, <3>5
        <3> QED BY <3>3, <3>4, <3>6, RequestPaced
    <2> QED BY <2>1, <2>5, <2>6, OnePaced
<1>4. CASE Unauthorized(c)
    <2> DEFINE s == [r EXCEPT !.refused = TRUE]
    <2>1. \/ Set(c, Ended(r, "unauthorized"))
          \/ r.refused = FALSE /\ Set(c, Again(s))
        BY <1>1, <1>4 DEF Unauthorized, CallType
    <2>2. /\ s.page = r.page /\ s.sends = r.sends /\ s.retries = r.retries
          /\ s.refused = TRUE /\ DOMAIN s = DOMAIN r
        BY <1>1 DEF CallType
    <2> HIDE DEF s
    <2>3. r.refused = FALSE => Paced(Again(s))
        BY <1>1, <2>2, AgainPaced
    <2> QED BY <1>1, <2>1, <2>3, EndedPaced, OnePaced
<1>5. CASE RetryOrGiveUp(c)
    <2> DEFINE s == [r EXCEPT !.retries = @ + 1]
    <2>1. Set(c, Again(s)) \/ Set(c, Ended(r, r.answer.status))
        BY <1>5 DEF RetryOrGiveUp
    <2>2. /\ s.page = r.page /\ s.sends = r.sends /\ s.retries = r.retries + 1
          /\ s.refused = r.refused /\ DOMAIN s = DOMAIN r
        BY <1>1 DEF CallType
    <2> HIDE DEF s
    <2>3. Paced(Again(s))
        BY <1>1, <2>2, AgainPaced
    <2> QED BY <1>1, <2>1, <2>3, EndedPaced, OnePaced
<1>6. CASE Declined(c)
    BY <1>1, <1>6, EndedPaced, OnePaced DEF Declined
<1> QED BY <1>3, <1>4, <1>5, <1>6 DEF Handle

\* However the server answers, a call takes no more of the shared budgets than
\* MaxAttempts requests for each page it asked for, and one more for each page
\* that was refused its token.
THEOREM SendsWithinBound == Spec => []SendsBounded
<1>1. Init => AllPaced
    <2> SUFFICES ASSUME Init, NEW c \in Calls PROVE Paced(call[c])
        BY DEF AllPaced
    <2>1. PICK mix \in Mixes : call = [d \in Calls |-> [Idle EXCEPT !.name = mix[d]]]
        BY DEF Init
    <2>2. call[c].pc = "idle" /\ call[c].sends = 0
        BY <2>1 DEF Idle
    <2>3. call[c] \in CallType
        BY InitFull DEF FullInv
    <2> QED BY <2>2, <2>3, PageAllows DEF Paced
<1>2. IInv /\ FullInv /\ AllPaced /\ [Next]_vars => AllPaced'
    <2> SUFFICES ASSUME IInv, FullInv, AllPaced, [Next]_vars PROVE AllPaced'
        OBVIOUS
    <2>1. CASE Tick \/ Rest \/ UNCHANGED vars
        BY <2>1 DEF Tick, Rest, vars, AllPaced, Paced, Spent, Allowed
    <2> QED BY <2>1, BeginPaced, LookUpTokenPaced, SendPaced, ServerPaced, HandlePaced
            DEF Next
<1>3. FullInv /\ AllPaced => SendsBounded
    <2> SUFFICES ASSUME FullInv, AllPaced, NEW c \in Calls
                 PROVE  call[c].sends <= Allowed(call[c].page)
        BY DEF SendsBounded, Allowed
    <2>1. call[c] \in CallType /\ Paced(call[c])
        BY DEF FullInv, AllPaced
    <2>2. call[c].sends \in Nat
        BY <2>1 DEF CallType
    <2> QED BY <2>1, <2>2, PageAllows, ClientAssumption DEF Paced
<1> QED BY <1>1, <1>2, <1>3, CallsFull, PTL DEF Spec

-----------------------------------------------------------------------------
(* What is documented, and what the client reads of it *)

\* A schema fits a documented entity: it takes every form of it, and keeps all
\* of its fields and of an alert's context.  Dates are apart from the rest.
FitsEntity(schema, entity) ==
    /\ entity.fields \subseteq schema.fields
    /\ entity.udf # "none" => schema.udf # "text"
    /\ entity.context # "none" => schema.context = "open"
FitsDates(schema, entity) == entity.dates # "none" => schema.dates # "utc"

\* A response fits what the route answers; of a list of filters the dates are
\* left out.
Fit(response, answer) ==
    \/ response.shape \in {"unknown", "void"}
    \/ /\ response.shape = answer.shape
       /\ response.key = answer.key
       /\ FitsEntity(response.entity, answer.entity)
       /\ response.key = "filters" \/ FitsDates(response.entity, answer.entity)

\* Of an answer that fits nothing is lost, but for a filter with an offset in
\* a date.
LEMMA FitReads ==
    ASSUME NEW primitive, NEW answer, NEW form,
           Fit(primitive.response, answer), form \in Forms(answer.entity),
           Reading(primitive, answer, form) # "whole"
    PROVE  form = "offset" /\ primitive.response.key = "filters"
<1>1. primitive.response.shape \notin {"unknown", "void"}
    BY DEF Reading
<1>2. /\ <<primitive.response.shape, primitive.response.key>>
            = <<answer.shape, answer.key>>
      /\ FitsEntity(primitive.response.entity, answer.entity)
      /\ primitive.response.key = "filters"
           \/ FitsDates(primitive.response.entity, answer.entity)
    BY <1>1 DEF Fit
<1>3. Keeps(primitive.response.entity, answer.entity, form)
    BY <1>2 DEF Keeps, FitsEntity, Forms
<1>4. ~Takes(primitive.response.entity, form)
    BY <1>1, <1>2, <1>3 DEF Reading
<1>5. form # "wrong" /\ (form = "udf" => primitive.response.entity.udf # "text")
    BY <1>2 DEF FitsEntity, Forms
<1>6. form = "offset" /\ primitive.response.entity.dates = "utc"
    BY <1>4, <1>5 DEF Takes
<1>7. answer.entity.dates # "none"
    BY <1>6 DEF Forms
<1> QED BY <1>2, <1>6, <1>7 DEF FitsDates

\* An entity that has neither a udf nor an alert's context fits itself.
LEMMA EntityFits ==
    ASSUME NEW fields, NEW traits, "udf" \notin traits, "context" \notin traits
    PROVE  /\ FitsEntity(Entity(fields, traits), Entity(fields, traits))
           /\ FitsDates(Entity(fields, traits), Entity(fields, traits))
BY DEF FitsEntity, FitsDates, Entity

LEMMA EntitiesFit ==
    \A e \in {Account, Variable, AuthUser, Site, DnetSiteMapping, Component,
              ActivityLog, PrinterAudit, EsxiHostAudit, DeviceAudit, Software,
              QuickJob, Filter, Job, JobResults, JobStdData, JobComponent,
              SiteSettings, DeviceNetworkInterface, Status, RateStatus,
              PaginationConfiguration, AuthUserKey} :
        FitsEntity(e, e) /\ FitsDates(e, e)
BY EntityFits
   DEF Account, Variable, AuthUser, Site, DnetSiteMapping, Component,
       ActivityLog, PrinterAudit, EsxiHostAudit, DeviceAudit, Software,
       QuickJob, Filter, Job, JobResults, JobStdData, JobComponent,
       SiteSettings, DeviceNetworkInterface, Status, RateStatus,
       PaginationConfiguration, AuthUserKey

\* The schemas written by hand have the entities of the generated ones, but
\* for the dates of a filter; the corrected ones take what the server sends.
LEMMA OverridesFit ==
    /\ variableSchema.entity = Variable
    /\ componentSchema.entity = Component
    /\ dnetSiteMappingSchema.entity = DnetSiteMapping
    /\ deviceNetworkInterfaceSchema.entity = DeviceNetworkInterface
    /\ softwareSchema.entity = Software
    /\ jobComponentSchema.entity = JobComponent
    /\ authUserSchema.entity = AuthUser
    /\ activityLogSchema.entity = ActivityLog
    /\ FitsEntity(filterSchema.entity, Filter)
    /\ FitsEntity(deviceResponseSchema.entity, Device)
    /\ FitsDates(deviceResponseSchema.entity, Device)
    /\ deviceResponseSchema = Object(deviceResponseSchema.entity)
    /\ FitsEntity(alertResponseSchema.entity, Alert)
    /\ FitsDates(alertResponseSchema.entity, Alert)
    /\ alertResponseSchema = Object(alertResponseSchema.entity)
<1>1. \A e : Object(e).entity = e
    BY DEF Object, Response
<1>2. /\ variableSchema.entity = Variable
      /\ componentSchema.entity = Component
      /\ dnetSiteMappingSchema.entity = DnetSiteMapping
      /\ deviceNetworkInterfaceSchema.entity = DeviceNetworkInterface
      /\ softwareSchema.entity = Software
      /\ jobComponentSchema.entity = JobComponent
      /\ authUserSchema.entity = AuthUser
      /\ activityLogSchema.entity = ActivityLog
    BY <1>1 DEF variableSchema, Variable, componentSchema, Component,
           dnetSiteMappingSchema, DnetSiteMapping,
           deviceNetworkInterfaceSchema, DeviceNetworkInterface,
           softwareSchema, Software, jobComponentSchema, JobComponent,
           authUserSchema, AuthUser, activityLogSchema, ActivityLog
<1>3. FitsEntity(filterSchema.entity, Filter)
    BY <1>1 DEF filterSchema, Filter, Entity, FitsEntity
<1>4. \A shape, key, e :
        /\ [Response(shape, key, e) EXCEPT !.entity.udf = "any"]
             = Response(shape, key, [e EXCEPT !.udf = "any"])
        /\ [Response(shape, key, e) EXCEPT !.entity.context = "open"]
             = Response(shape, key, [e EXCEPT !.context = "open"])
    BY DEF Response
<1>5. /\ FitsEntity(deviceResponseSchema.entity, Device)
      /\ FitsDates(deviceResponseSchema.entity, Device)
      /\ deviceResponseSchema = Object(deviceResponseSchema.entity)
    <2>1. deviceResponseSchema = Object([Device EXCEPT !.udf = "any"])
        BY <1>4 DEF deviceResponseSchema, GetByUidResponse, Object
    <2>2. /\ FitsEntity([Device EXCEPT !.udf = "any"], Device)
          /\ FitsDates([Device EXCEPT !.udf = "any"], Device)
        BY DEF Device, Entity, FitsEntity, FitsDates
    <2> QED BY <1>1, <2>1, <2>2
<1>6. /\ FitsEntity(alertResponseSchema.entity, Alert)
      /\ FitsDates(alertResponseSchema.entity, Alert)
      /\ alertResponseSchema = Object(alertResponseSchema.entity)
    <2>1. alertResponseSchema = Object([Alert EXCEPT !.context = "open"])
        BY <1>4 DEF alertResponseSchema, GetAlertResponse, Object
    <2>2. /\ FitsEntity([Alert EXCEPT !.context = "open"], Alert)
          /\ FitsDates([Alert EXCEPT !.context = "open"], Alert)
        BY DEF Alert, Entity, FitsEntity, FitsDates
    <2> QED BY <1>1, <2>1, <2>2
<1> QED BY <1>2, <1>3, <1>5, <1>6

\* Responses of one shape fit if their entities do.
LEMMA SameFits ==
    ASSUME NEW e, NEW f, NEW key, FitsEntity(e, f)
    PROVE  /\ key = "filters" \/ FitsDates(e, f) =>
                 Fit(PageOf(key, e), PageOf(key, f))
           /\ FitsDates(e, f) => /\ Fit(Object(e), Object(f))
                                 /\ Fit(ArrayOf(Object(e)), ArrayOf(Object(f)))
BY DEF Fit, PageOf, Object, ArrayOf, Response

LEMMA ObjectHas == \A e : Object(e).entity = e
BY DEF Object, Response

LEMMA CorrectedFit ==
    /\ Fit(deviceResponseSchema, Object(Device))
    /\ Fit(ArrayOf(deviceResponseSchema), ArrayOf(Object(Device)))
    /\ Fit(alertResponseSchema, Object(Alert))
<1> DEFINE device == deviceResponseSchema.entity
           alert == alertResponseSchema.entity
<1>1. /\ FitsEntity(device, Device) /\ FitsDates(device, Device)
      /\ FitsEntity(alert, Alert) /\ FitsDates(alert, Alert)
    BY OverridesFit
<1>2. /\ deviceResponseSchema = Object(device)
      /\ alertResponseSchema = Object(alert)
    BY OverridesFit
<1> HIDE DEF device, alert
<1>3. /\ Fit(Object(device), Object(Device))
      /\ Fit(ArrayOf(Object(device)), ArrayOf(Object(Device)))
      /\ Fit(Object(alert), Object(Alert))
    BY <1>1, SameFits
<1> QED BY <1>2, <1>3

\* What one entry of the documented routes says of a route.
Answers(d, verb, path, answer) ==
    d[1] = verb /\ d[2] = path => d[3] = answer

LEMMA AnswerOfOne ==
    ASSUME NEW v, NEW p, NEW a, NEW verb, NEW path, NEW answer,
           verb # v \/ path # p \/ answer = a
    PROVE  Answers(<<v, p, a>>, verb, path, answer)
BY DEF Answers

\* What a documented route answers, if no other entry says otherwise.
LEMMA AnswerIs ==
    ASSUME NEW verb, NEW path, NEW answer,
           <<verb, path, answer>> \in Documented,
           \A d \in Documented : Answers(d, verb, path, answer)
    PROVE  AnswerAt(verb, path) = answer
BY DEF AnswerAt, Answers

(* What the routes of each namespace answer, and that the schemas chosen for *)
(* them fit it.  A route whose answer is not read needs none.                *)

LEMMA AccountFits ==
    /\ Fit(GetUserAccountResponse, AnswerAt("get", "/v2/account"))
    /\ Fit(PageOf("devices", deviceResponseSchema.entity),
           AnswerAt("get", "/v2/account/devices"))
    /\ Fit(PageOf("variables", variableSchema.entity),
           AnswerAt("get", "/v2/account/variables"))
    /\ Fit(PageOf("components", componentSchema.entity),
           AnswerAt("get", "/v2/account/components"))
    /\ Fit(PageOf("dnetSiteMappings", dnetSiteMappingSchema.entity),
           AnswerAt("get", "/v2/account/dnet-site-mappings"))
<1>1. ASSUME NEW d \in Documented
      PROVE  /\ Answers(d, "get", "/v2/account", GetUserAccountResponse)
             /\ Answers(d, "get", "/v2/account/devices",
                        GetUserAccountDevicesResponse)
             /\ Answers(d, "get", "/v2/account/variables",
                        GetAccountVariablesResponse)
             /\ Answers(d, "get", "/v2/account/components",
                        GetComponentsResponse)
             /\ Answers(d, "get", "/v2/account/dnet-site-mappings",
                        GetDnetSiteMappingsResponse)
    BY AnswerOfOne DEF Documented
<1>2. /\ <<"get", "/v2/account", GetUserAccountResponse>> \in Documented
      /\ <<"get", "/v2/account/devices",
           GetUserAccountDevicesResponse>> \in Documented
      /\ <<"get", "/v2/account/variables",
           GetAccountVariablesResponse>> \in Documented
      /\ <<"get", "/v2/account/components",
           GetComponentsResponse>> \in Documented
      /\ <<"get", "/v2/account/dnet-site-mappings",
           GetDnetSiteMappingsResponse>> \in Documented
    BY DEF Documented
<1>3. /\ AnswerAt("get", "/v2/account") = GetUserAccountResponse
      /\ AnswerAt("get", "/v2/account/devices") = GetUserAccountDevicesResponse
      /\ AnswerAt("get", "/v2/account/variables") = GetAccountVariablesResponse
      /\ AnswerAt("get", "/v2/account/components") = GetComponentsResponse
      /\ AnswerAt("get", "/v2/account/dnet-site-mappings")
             = GetDnetSiteMappingsResponse
    BY <1>1, <1>2, AnswerIs
<1>4. /\ Fit(GetUserAccountResponse, GetUserAccountResponse)
      /\ Fit(PageOf("devices", deviceResponseSchema.entity),
             GetUserAccountDevicesResponse)
      /\ Fit(PageOf("variables", variableSchema.entity),
             GetAccountVariablesResponse)
      /\ Fit(PageOf("components", componentSchema.entity),
             GetComponentsResponse)
      /\ Fit(PageOf("dnetSiteMappings", dnetSiteMappingSchema.entity),
             GetDnetSiteMappingsResponse)
    BY EntitiesFit, OverridesFit, SameFits, ObjectHas DEF
           GetUserAccountResponse, GetUserAccountDevicesResponse,
           GetAccountVariablesResponse, GetComponentsResponse,
           GetDnetSiteMappingsResponse
<1> QED BY <1>3, <1>4

LEMMA ActivityLogFits ==
    /\ Fit(PageOf("activities", activityLogSchema.entity),
           AnswerAt("get", "/v2/activity-logs"))
<1>1. ASSUME NEW d \in Documented
      PROVE  /\ Answers(d, "get", "/v2/activity-logs", GetActivitiesResponse)
    BY AnswerOfOne DEF Documented
<1>2. /\ <<"get", "/v2/activity-logs", GetActivitiesResponse>> \in Documented
    BY DEF Documented
<1>3. /\ AnswerAt("get", "/v2/activity-logs") = GetActivitiesResponse
    BY <1>1, <1>2, AnswerIs
<1>4. /\ Fit(PageOf("activities", activityLogSchema.entity),
             GetActivitiesResponse)
    BY EntitiesFit, OverridesFit, SameFits, ObjectHas DEF
           GetActivitiesResponse
<1> QED BY <1>3, <1>4

LEMMA AlertFits ==
    /\ Fit(alertResponseSchema, AnswerAt("get", "/v2/alert/{}"))
    /\ Fit(PageOf("alerts", alertResponseSchema.entity),
           AnswerAt("get", "/v2/account/alerts/open"))
    /\ Fit(PageOf("alerts", alertResponseSchema.entity),
           AnswerAt("get", "/v2/account/alerts/resolved"))
    /\ Fit(PageOf("alerts", alertResponseSchema.entity),
           AnswerAt("get", "/v2/site/{}/alerts/open"))
    /\ Fit(PageOf("alerts", alertResponseSchema.entity),
           AnswerAt("get", "/v2/site/{}/alerts/resolved"))
    /\ Fit(PageOf("alerts", alertResponseSchema.entity),
           AnswerAt("get", "/v2/device/{}/alerts/open"))
    /\ Fit(PageOf("alerts", alertResponseSchema.entity),
           AnswerAt("get", "/v2/device/{}/alerts/resolved"))
<1>1. ASSUME NEW d \in Documented
      PROVE  /\ Answers(d, "get", "/v2/alert/{}", GetAlertResponse)
             /\ Answers(d, "get", "/v2/account/alerts/open",
                        GetUserAccountOpenAlertsResponse)
             /\ Answers(d, "get", "/v2/account/alerts/resolved",
                        GetUserAccountClosedAlertsResponse)
             /\ Answers(d, "get", "/v2/site/{}/alerts/open",
                        GetSiteOpenAlertsResponse)
             /\ Answers(d, "get", "/v2/site/{}/alerts/resolved",
                        GetSiteResolvedAlertsResponse)
             /\ Answers(d, "get", "/v2/device/{}/alerts/open",
                        GetDeviceOpenAlertsResponse)
             /\ Answers(d, "get", "/v2/device/{}/alerts/resolved",
                        GetDeviceResolvedAlertsResponse)
    BY AnswerOfOne DEF Documented
<1>2. /\ <<"get", "/v2/alert/{}", GetAlertResponse>> \in Documented
      /\ <<"get", "/v2/account/alerts/open",
           GetUserAccountOpenAlertsResponse>> \in Documented
      /\ <<"get", "/v2/account/alerts/resolved",
           GetUserAccountClosedAlertsResponse>> \in Documented
      /\ <<"get", "/v2/site/{}/alerts/open",
           GetSiteOpenAlertsResponse>> \in Documented
      /\ <<"get", "/v2/site/{}/alerts/resolved",
           GetSiteResolvedAlertsResponse>> \in Documented
      /\ <<"get", "/v2/device/{}/alerts/open",
           GetDeviceOpenAlertsResponse>> \in Documented
      /\ <<"get", "/v2/device/{}/alerts/resolved",
           GetDeviceResolvedAlertsResponse>> \in Documented
    BY DEF Documented
<1>3. /\ AnswerAt("get", "/v2/alert/{}") = GetAlertResponse
      /\ AnswerAt("get", "/v2/account/alerts/open")
             = GetUserAccountOpenAlertsResponse
      /\ AnswerAt("get", "/v2/account/alerts/resolved")
             = GetUserAccountClosedAlertsResponse
      /\ AnswerAt("get", "/v2/site/{}/alerts/open") = GetSiteOpenAlertsResponse
      /\ AnswerAt("get", "/v2/site/{}/alerts/resolved")
             = GetSiteResolvedAlertsResponse
      /\ AnswerAt("get", "/v2/device/{}/alerts/open")
             = GetDeviceOpenAlertsResponse
      /\ AnswerAt("get", "/v2/device/{}/alerts/resolved")
             = GetDeviceResolvedAlertsResponse
    BY <1>1, <1>2, AnswerIs
<1>4. /\ Fit(alertResponseSchema, GetAlertResponse)
      /\ Fit(PageOf("alerts", alertResponseSchema.entity),
             GetUserAccountOpenAlertsResponse)
      /\ Fit(PageOf("alerts", alertResponseSchema.entity),
             GetUserAccountClosedAlertsResponse)
      /\ Fit(PageOf("alerts", alertResponseSchema.entity),
             GetSiteOpenAlertsResponse)
      /\ Fit(PageOf("alerts", alertResponseSchema.entity),
             GetSiteResolvedAlertsResponse)
      /\ Fit(PageOf("alerts", alertResponseSchema.entity),
             GetDeviceOpenAlertsResponse)
      /\ Fit(PageOf("alerts", alertResponseSchema.entity),
             GetDeviceResolvedAlertsResponse)
    BY EntitiesFit, CorrectedFit, OverridesFit, SameFits, ObjectHas DEF
           GetAlertResponse, GetUserAccountOpenAlertsResponse,
           GetUserAccountClosedAlertsResponse, GetSiteOpenAlertsResponse,
           GetSiteResolvedAlertsResponse, GetDeviceOpenAlertsResponse,
           GetDeviceResolvedAlertsResponse
<1> QED BY <1>3, <1>4

LEMMA AuditFits ==
    /\ Fit(GetPrinterAuditResponse, AnswerAt("get", "/v2/audit/printer/{}"))
    /\ Fit(GetEsxiHostAuditResponse, AnswerAt("get", "/v2/audit/esxihost/{}"))
    /\ Fit(GetDeviceAuditResponse, AnswerAt("get", "/v2/audit/device/{}"))
    /\ Fit(PageOf("software", softwareSchema.entity),
           AnswerAt("get", "/v2/audit/device/{}/software"))
    /\ Fit(ArrayOf(GetDeviceAuditByMacAddressResponseItem),
           AnswerAt("get", "/v2/audit/device/macAddress/{}"))
<1>1. ASSUME NEW d \in Documented
      PROVE  /\ Answers(d, "get", "/v2/audit/printer/{}",
                        GetPrinterAuditResponse)
             /\ Answers(d, "get", "/v2/audit/esxihost/{}",
                        GetEsxiHostAuditResponse)
             /\ Answers(d, "get", "/v2/audit/device/{}",
                        GetDeviceAuditResponse)
             /\ Answers(d, "get", "/v2/audit/device/{}/software",
                        GetDeviceAuditSoftwareResponse)
             /\ Answers(d, "get", "/v2/audit/device/macAddress/{}",
                        GetDeviceAuditByMacAddressResponse)
    BY AnswerOfOne DEF Documented
<1>2. /\ <<"get", "/v2/audit/printer/{}",
           GetPrinterAuditResponse>> \in Documented
      /\ <<"get", "/v2/audit/esxihost/{}",
           GetEsxiHostAuditResponse>> \in Documented
      /\ <<"get", "/v2/audit/device/{}",
           GetDeviceAuditResponse>> \in Documented
      /\ <<"get", "/v2/audit/device/{}/software",
           GetDeviceAuditSoftwareResponse>> \in Documented
      /\ <<"get", "/v2/audit/device/macAddress/{}",
           GetDeviceAuditByMacAddressResponse>> \in Documented
    BY DEF Documented
<1>3. /\ AnswerAt("get", "/v2/audit/printer/{}") = GetPrinterAuditResponse
      /\ AnswerAt("get", "/v2/audit/esxihost/{}") = GetEsxiHostAuditResponse
      /\ AnswerAt("get", "/v2/audit/device/{}") = GetDeviceAuditResponse
      /\ AnswerAt("get", "/v2/audit/device/{}/software")
             = GetDeviceAuditSoftwareResponse
      /\ AnswerAt("get", "/v2/audit/device/macAddress/{}")
             = GetDeviceAuditByMacAddressResponse
    BY <1>1, <1>2, AnswerIs
<1>4. /\ Fit(GetPrinterAuditResponse, GetPrinterAuditResponse)
      /\ Fit(GetEsxiHostAuditResponse, GetEsxiHostAuditResponse)
      /\ Fit(GetDeviceAuditResponse, GetDeviceAuditResponse)
      /\ Fit(PageOf("software", softwareSchema.entity),
             GetDeviceAuditSoftwareResponse)
      /\ Fit(ArrayOf(GetDeviceAuditByMacAddressResponseItem),
             GetDeviceAuditByMacAddressResponse)
    BY EntitiesFit, OverridesFit, SameFits, ObjectHas DEF
           GetPrinterAuditResponse, GetEsxiHostAuditResponse,
           GetDeviceAuditResponse, GetDeviceAuditSoftwareResponse,
           GetDeviceAuditByMacAddressResponseItem,
           GetDeviceAuditByMacAddressResponse
<1> QED BY <1>3, <1>4

LEMMA DeviceFits ==
    /\ Fit(deviceResponseSchema, AnswerAt("get", "/v2/device/{}"))
    /\ Fit(deviceResponseSchema, AnswerAt("get", "/v2/device/id/{}"))
    /\ Fit(ArrayOf(deviceResponseSchema),
           AnswerAt("get", "/v2/device/macAddress/{}"))
    /\ Fit(CreateQuickJobResponse, AnswerAt("put", "/v2/device/{}/quickjob"))
<1>1. ASSUME NEW d \in Documented
      PROVE  /\ Answers(d, "get", "/v2/device/{}", GetByUidResponse)
             /\ Answers(d, "get", "/v2/device/id/{}", GetByIdResponse)
             /\ Answers(d, "get", "/v2/device/macAddress/{}",
                        GetByMacAddressResponse)
             /\ Answers(d, "put", "/v2/device/{}/quickjob",
                        CreateQuickJobResponse)
    BY AnswerOfOne DEF Documented
<1>2. /\ <<"get", "/v2/device/{}", GetByUidResponse>> \in Documented
      /\ <<"get", "/v2/device/id/{}", GetByIdResponse>> \in Documented
      /\ <<"get", "/v2/device/macAddress/{}",
           GetByMacAddressResponse>> \in Documented
      /\ <<"put", "/v2/device/{}/quickjob",
           CreateQuickJobResponse>> \in Documented
    BY DEF Documented
<1>3. /\ AnswerAt("get", "/v2/device/{}") = GetByUidResponse
      /\ AnswerAt("get", "/v2/device/id/{}") = GetByIdResponse
      /\ AnswerAt("get", "/v2/device/macAddress/{}") = GetByMacAddressResponse
      /\ AnswerAt("put", "/v2/device/{}/quickjob") = CreateQuickJobResponse
    BY <1>1, <1>2, AnswerIs
<1>4. /\ Fit(deviceResponseSchema, GetByUidResponse)
      /\ Fit(deviceResponseSchema, GetByIdResponse)
      /\ Fit(ArrayOf(deviceResponseSchema), GetByMacAddressResponse)
      /\ Fit(CreateQuickJobResponse, CreateQuickJobResponse)
    BY EntitiesFit, CorrectedFit, OverridesFit, SameFits, ObjectHas DEF
           GetByUidResponse, GetByIdResponse, GetByMacAddressResponseItem,
           GetByMacAddressResponse, CreateQuickJobResponse
<1> QED BY <1>3, <1>4

LEMMA FilterFits ==
    /\ Fit(PageOf("filters", filterSchema.entity),
           AnswerAt("get", "/v2/filter/default-filters"))
    /\ Fit(PageOf("filters", filterSchema.entity),
           AnswerAt("get", "/v2/filter/custom-filters"))
<1>1. ASSUME NEW d \in Documented
      PROVE  /\ Answers(d, "get", "/v2/filter/default-filters",
                        GetDefaultsFiltersResponse)
             /\ Answers(d, "get", "/v2/filter/custom-filters",
                        GetCustomFiltersResponse)
    BY AnswerOfOne DEF Documented
<1>2. /\ <<"get", "/v2/filter/default-filters",
           GetDefaultsFiltersResponse>> \in Documented
      /\ <<"get", "/v2/filter/custom-filters",
           GetCustomFiltersResponse>> \in Documented
    BY DEF Documented
<1>3. /\ AnswerAt("get", "/v2/filter/default-filters")
             = GetDefaultsFiltersResponse
      /\ AnswerAt("get", "/v2/filter/custom-filters")
             = GetCustomFiltersResponse
    BY <1>1, <1>2, AnswerIs
<1>4. /\ Fit(PageOf("filters", filterSchema.entity),
             GetDefaultsFiltersResponse)
      /\ Fit(PageOf("filters", filterSchema.entity), GetCustomFiltersResponse)
    BY EntitiesFit, OverridesFit, SameFits, ObjectHas DEF
           GetDefaultsFiltersResponse, GetCustomFiltersResponse
<1> QED BY <1>3, <1>4

LEMMA JobFits ==
    /\ Fit(Get1Response, AnswerAt("get", "/v2/job/{}"))
    /\ Fit(GetJobResultsResponse, AnswerAt("get", "/v2/job/{}/results/{}"))
    /\ Fit(ArrayOf(GetStdOutResponseItem),
           AnswerAt("get", "/v2/job/{}/results/{}/stdout"))
    /\ Fit(ArrayOf(GetStdErrResponseItem),
           AnswerAt("get", "/v2/job/{}/results/{}/stderr"))
    /\ Fit(PageOf("jobComponents", jobComponentSchema.entity),
           AnswerAt("get", "/v2/job/{}/components"))
<1>1. ASSUME NEW d \in Documented
      PROVE  /\ Answers(d, "get", "/v2/job/{}", Get1Response)
             /\ Answers(d, "get", "/v2/job/{}/results/{}",
                        GetJobResultsResponse)
             /\ Answers(d, "get", "/v2/job/{}/results/{}/stdout",
                        GetStdOutResponse)
             /\ Answers(d, "get", "/v2/job/{}/results/{}/stderr",
                        GetStdErrResponse)
             /\ Answers(d, "get", "/v2/job/{}/components",
                        GetJobComponentsResponse)
    BY AnswerOfOne DEF Documented
<1>2. /\ <<"get", "/v2/job/{}", Get1Response>> \in Documented
      /\ <<"get", "/v2/job/{}/results/{}",
           GetJobResultsResponse>> \in Documented
      /\ <<"get", "/v2/job/{}/results/{}/stdout",
           GetStdOutResponse>> \in Documented
      /\ <<"get", "/v2/job/{}/results/{}/stderr",
           GetStdErrResponse>> \in Documented
      /\ <<"get", "/v2/job/{}/components",
           GetJobComponentsResponse>> \in Documented
    BY DEF Documented
<1>3. /\ AnswerAt("get", "/v2/job/{}") = Get1Response
      /\ AnswerAt("get", "/v2/job/{}/results/{}") = GetJobResultsResponse
      /\ AnswerAt("get", "/v2/job/{}/results/{}/stdout") = GetStdOutResponse
      /\ AnswerAt("get", "/v2/job/{}/results/{}/stderr") = GetStdErrResponse
      /\ AnswerAt("get", "/v2/job/{}/components") = GetJobComponentsResponse
    BY <1>1, <1>2, AnswerIs
<1>4. /\ Fit(Get1Response, Get1Response)
      /\ Fit(GetJobResultsResponse, GetJobResultsResponse)
      /\ Fit(ArrayOf(GetStdOutResponseItem), GetStdOutResponse)
      /\ Fit(ArrayOf(GetStdErrResponseItem), GetStdErrResponse)
      /\ Fit(PageOf("jobComponents", jobComponentSchema.entity),
             GetJobComponentsResponse)
    BY EntitiesFit, OverridesFit, SameFits, ObjectHas DEF Get1Response,
           GetJobResultsResponse, GetStdOutResponseItem, GetStdOutResponse,
           GetStdErrResponseItem, GetStdErrResponse, GetJobComponentsResponse
<1> QED BY <1>3, <1>4

LEMMA SiteFits ==
    /\ Fit(PageOf("sites", GetSiteResponse.entity),
           AnswerAt("get", "/v2/account/sites"))
    /\ Fit(GetSiteResponse, AnswerAt("get", "/v2/site/{}"))
    /\ Fit(GetSiteResponse, AnswerAt("put", "/v2/site"))
    /\ Fit(GetSiteResponse, AnswerAt("post", "/v2/site/{}"))
    /\ Fit(PageOf("devices", deviceResponseSchema.entity),
           AnswerAt("get", "/v2/site/{}/devices"))
    /\ Fit(PageOf("devices", deviceNetworkInterfaceSchema.entity),
           AnswerAt("get", "/v2/site/{}/devices/network-interface"))
    /\ Fit(PageOf("variables", variableSchema.entity),
           AnswerAt("get", "/v2/site/{}/variables"))
    /\ Fit(GetSiteSettingsResponse, AnswerAt("get", "/v2/site/{}/settings"))
    /\ Fit(PageOf("filters", filterSchema.entity),
           AnswerAt("get", "/v2/site/{}/filters"))
    /\ Fit(UpdateProxyResponse, AnswerAt("post", "/v2/site/{}/settings/proxy"))
<1>1. ASSUME NEW d \in Documented
      PROVE  /\ Answers(d, "get", "/v2/account/sites", GetSitesResponse)
             /\ Answers(d, "get", "/v2/site/{}", GetSiteResponse)
             /\ Answers(d, "put", "/v2/site", CreateResponse)
             /\ Answers(d, "post", "/v2/site/{}", UpdateResponse)
             /\ Answers(d, "get", "/v2/site/{}/devices",
                        GetSiteDevicesResponse)
             /\ Answers(d, "get", "/v2/site/{}/devices/network-interface",
                        GetSiteDevicesWithNetworkInterfaceResponse)
             /\ Answers(d, "get", "/v2/site/{}/variables",
                        GetSiteVariablesResponse)
             /\ Answers(d, "get", "/v2/site/{}/settings",
                        GetSiteSettingsResponse)
             /\ Answers(d, "get", "/v2/site/{}/filters",
                        GetSiteDeviceFiltersResponse)
             /\ Answers(d, "post", "/v2/site/{}/settings/proxy",
                        UpdateProxyResponse)
    BY AnswerOfOne DEF Documented
<1>2. /\ <<"get", "/v2/account/sites", GetSitesResponse>> \in Documented
      /\ <<"get", "/v2/site/{}", GetSiteResponse>> \in Documented
      /\ <<"put", "/v2/site", CreateResponse>> \in Documented
      /\ <<"post", "/v2/site/{}", UpdateResponse>> \in Documented
      /\ <<"get", "/v2/site/{}/devices",
           GetSiteDevicesResponse>> \in Documented
      /\ <<"get", "/v2/site/{}/devices/network-interface",
           GetSiteDevicesWithNetworkInterfaceResponse>> \in Documented
      /\ <<"get", "/v2/site/{}/variables",
           GetSiteVariablesResponse>> \in Documented
      /\ <<"get", "/v2/site/{}/settings",
           GetSiteSettingsResponse>> \in Documented
      /\ <<"get", "/v2/site/{}/filters",
           GetSiteDeviceFiltersResponse>> \in Documented
      /\ <<"post", "/v2/site/{}/settings/proxy",
           UpdateProxyResponse>> \in Documented
    BY DEF Documented
<1>3. /\ AnswerAt("get", "/v2/account/sites") = GetSitesResponse
      /\ AnswerAt("get", "/v2/site/{}") = GetSiteResponse
      /\ AnswerAt("put", "/v2/site") = CreateResponse
      /\ AnswerAt("post", "/v2/site/{}") = UpdateResponse
      /\ AnswerAt("get", "/v2/site/{}/devices") = GetSiteDevicesResponse
      /\ AnswerAt("get", "/v2/site/{}/devices/network-interface")
             = GetSiteDevicesWithNetworkInterfaceResponse
      /\ AnswerAt("get", "/v2/site/{}/variables") = GetSiteVariablesResponse
      /\ AnswerAt("get", "/v2/site/{}/settings") = GetSiteSettingsResponse
      /\ AnswerAt("get", "/v2/site/{}/filters") = GetSiteDeviceFiltersResponse
      /\ AnswerAt("post", "/v2/site/{}/settings/proxy") = UpdateProxyResponse
    BY <1>1, <1>2, AnswerIs
<1>4. /\ Fit(PageOf("sites", GetSiteResponse.entity), GetSitesResponse)
      /\ Fit(GetSiteResponse, GetSiteResponse)
      /\ Fit(GetSiteResponse, CreateResponse)
      /\ Fit(GetSiteResponse, UpdateResponse)
      /\ Fit(PageOf("devices", deviceResponseSchema.entity),
             GetSiteDevicesResponse)
      /\ Fit(PageOf("devices", deviceNetworkInterfaceSchema.entity),
             GetSiteDevicesWithNetworkInterfaceResponse)
      /\ Fit(PageOf("variables", variableSchema.entity),
             GetSiteVariablesResponse)
      /\ Fit(GetSiteSettingsResponse, GetSiteSettingsResponse)
      /\ Fit(PageOf("filters", filterSchema.entity),
             GetSiteDeviceFiltersResponse)
      /\ Fit(UpdateProxyResponse, UpdateProxyResponse)
    BY EntitiesFit, OverridesFit, SameFits, ObjectHas DEF GetSiteResponse,
           GetSitesResponse, CreateResponse, UpdateResponse,
           GetSiteDevicesResponse, GetSiteDevicesWithNetworkInterfaceResponse,
           GetSiteVariablesResponse, GetSiteSettingsResponse,
           GetSiteDeviceFiltersResponse, UpdateProxyResponse
<1> QED BY <1>3, <1>4

LEMMA SystemFits ==
    /\ Fit(GetStatusResponse, AnswerAt("get", "/v2/system/status"))
    /\ Fit(GetResponse, AnswerAt("get", "/v2/system/request_rate"))
    /\ Fit(GetPaginationConfigurationsResponse,
           AnswerAt("get", "/v2/system/pagination"))
<1>1. ASSUME NEW d \in Documented
      PROVE  /\ Answers(d, "get", "/v2/system/status", GetStatusResponse)
             /\ Answers(d, "get", "/v2/system/request_rate", GetResponse)
             /\ Answers(d, "get", "/v2/system/pagination",
                        GetPaginationConfigurationsResponse)
    BY AnswerOfOne DEF Documented
<1>2. /\ <<"get", "/v2/system/status", GetStatusResponse>> \in Documented
      /\ <<"get", "/v2/system/request_rate", GetResponse>> \in Documented
      /\ <<"get", "/v2/system/pagination",
           GetPaginationConfigurationsResponse>> \in Documented
    BY DEF Documented
<1>3. /\ AnswerAt("get", "/v2/system/status") = GetStatusResponse
      /\ AnswerAt("get", "/v2/system/request_rate") = GetResponse
      /\ AnswerAt("get", "/v2/system/pagination")
             = GetPaginationConfigurationsResponse
    BY <1>1, <1>2, AnswerIs
<1>4. /\ Fit(GetStatusResponse, GetStatusResponse)
      /\ Fit(GetResponse, GetResponse)
      /\ Fit(GetPaginationConfigurationsResponse,
             GetPaginationConfigurationsResponse)
    BY EntitiesFit, OverridesFit, SameFits, ObjectHas DEF GetStatusResponse,
           GetResponse, GetPaginationConfigurationsResponse
<1> QED BY <1>3, <1>4

LEMMA UserFits ==
    /\ Fit(PageOf("users", authUserSchema.entity),
           AnswerAt("get", "/v2/account/users"))
    /\ Fit(ResetApiKeysResponse, AnswerAt("post", "/v2/user/resetApiKeys"))
<1>1. ASSUME NEW d \in Documented
      PROVE  /\ Answers(d, "get", "/v2/account/users", GetUsersResponse)
             /\ Answers(d, "post", "/v2/user/resetApiKeys",
                        ResetApiKeysResponse)
    BY AnswerOfOne DEF Documented
<1>2. /\ <<"get", "/v2/account/users", GetUsersResponse>> \in Documented
      /\ <<"post", "/v2/user/resetApiKeys",
           ResetApiKeysResponse>> \in Documented
    BY DEF Documented
<1>3. /\ AnswerAt("get", "/v2/account/users") = GetUsersResponse
      /\ AnswerAt("post", "/v2/user/resetApiKeys") = ResetApiKeysResponse
    BY <1>1, <1>2, AnswerIs
<1>4. /\ Fit(PageOf("users", authUserSchema.entity), GetUsersResponse)
      /\ Fit(ResetApiKeysResponse, ResetApiKeysResponse)
    BY EntitiesFit, OverridesFit, SameFits, ObjectHas DEF GetUsersResponse,
           ResetApiKeysResponse
<1> QED BY <1>3, <1>4
\* The answer a method validates against fits what its route answers.
KeptBy(m) == Fit(m.calls.response, AnswerAt(m.calls.verb, m.calls.path))

LEMMA MethodKept ==
    ASSUME NEW ns, NEW method, NEW path, NEW body, NEW response, NEW key,
           NEW opKey
    PROVE  /\ Fit(response, AnswerAt("get", path)) =>
                 KeptBy(Method(ns, method, httpGet(path, response)))
           /\ Fit(ArrayOf(response), AnswerAt("get", path)) =>
                 KeptBy(Method(ns, method, httpGetArray(path, response)))
           /\ Fit(PageOf(key, response.entity), AnswerAt("get", path)) =>
                 KeptBy(Method(ns, method, paginate(path, key, response)))
           /\ Fit(response, AnswerAt("post", path)) =>
                 KeptBy(Method(ns, method,
                               httpPost(path, body, response, opKey)))
           /\ Fit(response, AnswerAt("put", path)) =>
                 KeptBy(Method(ns, method,
                               httpPut(path, body, response, opKey)))
           /\ KeptBy(Method(ns, method, httpDelete(path, opKey)))
BY DEF KeptBy, Method, Primitive, httpGet, httpGetArray, paginate, httpPost,
       httpPut, httpDelete, Fit, Void, Response

LEMMA VoidFits == \A answer : Fit(voidResponseSchema, answer)
BY DEF Fit, voidResponseSchema, Unknown, Response

\* It does so for the methods of every namespace.
LEMMA MethodsKept == \A m \in Methods : KeptBy(m)
<1> SUFFICES ASSUME NEW m \in Methods PROVE KeptBy(m)
    OBVIOUS
<1> USE MethodKept, VoidFits
<1>1. CASE m \in AccountResource
    BY <1>1, AccountFits DEF AccountResource
<1>2. CASE m \in ActivityLogResource
    BY <1>2, ActivityLogFits DEF ActivityLogResource
<1>3. CASE m \in AlertResource
    BY <1>3, AlertFits DEF AlertResource
<1>4. CASE m \in AuditResource
    BY <1>4, AuditFits DEF AuditResource
<1>5. CASE m \in DeviceResource
    BY <1>5, DeviceFits DEF DeviceResource
<1>6. CASE m \in FilterResource
    BY <1>6, FilterFits DEF FilterResource
<1>7. CASE m \in JobResource
    BY <1>7, JobFits DEF JobResource
<1>8. CASE m \in SiteResource
    BY <1>8, SiteFits DEF SiteResource
<1>9. CASE m \in SystemResource
    BY <1>9, SystemFits DEF SystemResource
<1>10. CASE m \in UserResource
    BY <1>10, UserFits DEF UserResource
<1> QED BY <1>1, <1>2, <1>3, <1>4, <1>5, <1>6, <1>7, <1>8, <1>9, <1>10
       DEF Methods

\* No method of a name is led to an answer its schema does not fit.
LEMMA NamesKept ==
    \A name \in Names :
        Fit(CallsOf[name].response,
            AnswerAt(CallsOf[name].verb, CallsOf[name].path))
<1> SUFFICES ASSUME NEW name \in Names
             PROVE  Fit(CallsOf[name].response,
                        AnswerAt(CallsOf[name].verb, CallsOf[name].path))
    OBVIOUS
<1> DEFINE m == CHOOSE m \in Methods : <<m.ns, m.method>> = name
<1>1. \E x \in Methods : <<x.ns, x.method>> = name
    BY DEF Names
<1>2. m \in Methods
    BY <1>1
<1>3. CallsOf[name] = m.calls
    BY DEF CallsOf
<1> HIDE DEF m
<1> QED BY <1>2, <1>3, MethodsKept DEF KeptBy

\* What the server documents reaches the caller, in whatever documented form,
\* but for a filter whose dates have an offset: whichever calls are made
\* together, and however often their requests are made again.
THEOREM DocumentedReaches == Spec => []DocumentedKept
<1>1. IInv /\ FullInv => DocumentedKept
    <2> SUFFICES ASSUME IInv, FullInv, NEW c \in Calls,
                        NEW lost, lost = call[c].lost \ {"wrong"}, lost # {}
                 PROVE  /\ lost = {"offset"}
                        /\ CallsOf[call[c].name].response.key = "filters"
        BY DEF DocumentedKept
    <2> DEFINE calls == CallsOf[call[c].name]
               answer == AnswerAt(calls.verb, calls.path)
    <2>1. call[c].lost # {}
        OBVIOUS
    <2>2. call[c].name \in Names
        BY <2>1 DEF FullInv, Told, IInv, Good, Asks
    <2>3. Fit(calls.response, answer)
        BY <2>2, NamesKept
    <2>4. ASSUME NEW form \in lost
          PROVE  form = "offset" /\ calls.response.key = "filters"
        <3>1. form \in Forms(answer.entity) /\ Reading(calls, answer, form) # "whole"
            BY DEF FullInv, Told, FormsFor, ReadingOf
        <3> QED BY <2>3, <3>1, FitReads
    <2> QED BY <2>4
<1> QED BY <1>1, CallsFull, PTL

===============================================================================
