-------------------------- MODULE BaseResourceProofs --------------------------
(***************************************************************************)
(* What is proved of BaseResource: of the walk along the pages of a list   *)
(* (Pagination), and of the validation of each answer (Leniency).          *)
(*                                                                         *)
(* Pagination, for every set of paths, every server and every limit: a     *)
(* walk asks for no more pages than the limit, for none twice, and for     *)
(* those the server's cursors lead to; it throws only for a cause; and     *)
(* what it returns is every item of every page of the chain, in order.     *)
(*                                                                         *)
(* That the walk is bounded needs both guards of its head and a fact       *)
(* neither states: visitedUrls has as many members as requests were made.  *)
(* The limit compares with the size of a set, and the set would stop       *)
(* growing if a path could be requested again.                             *)
(*                                                                         *)
(* Leniency, for every schema of the node kinds in use, every body that    *)
(* fits it and every drift from it: only a wrong value costs the caller    *)
(* something; what the caller gets is what was sent, less the undocumented *)
(* keys; and the lines logged are those due, counts and totals included.   *)
(*                                                                         *)
(* None of this says anything of the states in between.  The invariant     *)
(* does: at each moment of the walk, what has been kept, recorded and      *)
(* examined is what the positions it has finished give, and the calls      *)
(* still to be made are for the others, no two for the same one.           *)
(***************************************************************************)
EXTENDS Pagination, Leniency, DataInduction, FiniteSetTheorems, TLAPS

-----------------------------------------------------------------------------
\* The walk along the pages.

\* What has a type, as far as the proof needs one.
Typed ==
    /\ pc \in {"looping", "requested", "returned", "thrown"}
    /\ url \in Urls \cup {Null}
    /\ params \in BOOLEAN
    /\ visited \subseteq Urls
    /\ sent \in Seq([url : Urls, params : BOOLEAN])
    /\ answered \in Seq(Pages)

\* visitedUrls is the set of paths requested, one for each request.
VisitedIsSent ==
    /\ visited = {sent[i].url : i \in DOMAIN sent}
    /\ IsFiniteSet(visited)
    /\ Cardinality(visited) = Len(sent)

\* One page is outstanding while a request is; none at the head of the loop,
\* where the path to request next is the last cursor.
OnePageAhead ==
    /\ Len(answered) <= Len(sent)
    /\ pc = "looping" =>
          /\ Len(answered) = Len(sent)
          /\ sent = <<>> => url = StartPath
          /\ sent # <<>> => /\ ~params
                            /\ url # Null => url = answered[Len(answered)].cursor
    /\ pc = "requested" => Len(sent) = Len(answered) + 1

IInv ==
    /\ Typed
    /\ VisitedIsSent
    /\ OnePageAhead
    /\ PagesBounded
    /\ FollowsChain

\* The invariant holds before the first request.
LEMMA InitHolds == Init => IInv
<1> SUFFICES ASSUME Init PROVE IInv
    OBVIOUS
<1>1. Typed
    BY ConstantsAssumption DEF Init, Typed
<1>2. VisitedIsSent
    <2>1. {sent[i].url : i \in DOMAIN sent} = {}
        BY DEF Init
    <2> QED BY <2>1, FS_EmptySet DEF Init, VisitedIsSent
<1>3. OnePageAhead
    BY DEF Init, OnePageAhead
<1>4. PagesBounded
    BY ConstantsAssumption DEF Init, PagesBounded
<1>5. FollowsChain
    BY DEF Init, FollowsChain
<1> QED BY <1>1, <1>2, <1>3, <1>4, <1>5 DEF IInv

\* A request appends a path that is new to visitedUrls, and was the last cursor.
LEMMA RequestPreserves ==
    ASSUME IInv, pc = "looping", Request, UNCHANGED <<url, params, items, answered>>
    PROVE  IInv'
<1> DEFINE r == [url |-> url, params |-> params]
<1>1. Typed /\ VisitedIsSent /\ OnePageAhead /\ PagesBounded /\ FollowsChain
    BY DEF IInv
<1>2. /\ url \in Urls
      /\ url \notin visited
      /\ Cardinality(visited) < MaxPages
      /\ visited' = visited \cup {url}
      /\ pc' = "requested"
    <2>1. Cardinality(visited) \in Nat
        BY <1>1 DEF VisitedIsSent, Typed
    <2> QED BY <1>1, <2>1, ConstantsAssumption
            DEF Request, Cyclic, TooLong, Typed
<1>3. sent \in Seq([url : Urls, params : BOOLEAN]) /\ r \in [url : Urls, params : BOOLEAN]
    BY <1>1, <1>2 DEF Typed
<1>4. sent' = Append(sent, r)
    BY DEF Request
<1> HIDE DEF r
<1>5. /\ sent' \in Seq([url : Urls, params : BOOLEAN])
      /\ Len(sent') = Len(sent) + 1
      /\ \A i \in 1 .. Len(sent) : sent'[i] = sent[i]
      /\ sent'[Len(sent) + 1] = r
      /\ Len(sent) \in Nat
    BY ONLY <1>3, <1>4
<1>6. DOMAIN sent = 1 .. Len(sent) /\ DOMAIN sent' = 1 .. Len(sent) + 1
    BY ONLY <1>3, <1>5
<1>7. r.url = url /\ r.params = params
    BY DEF r
<1>8. \A i \in 1 .. Len(sent) : sent'[i].url = sent[i].url /\ sent'[i].params = sent[i].params
    BY ONLY <1>5
<1>9. Typed'
    <2>1. visited' \subseteq Urls
        BY <1>1, <1>2 DEF Typed
    <2>2. url' \in Urls \cup {Null} /\ params' \in BOOLEAN /\ answered' \in Seq(Pages)
        BY ONLY <1>1, UNCHANGED <<url, params, items, answered>> DEF Typed
    <2> QED BY ONLY <2>1, <2>2, <1>2, <1>5 DEF Typed
<1>10. VisitedIsSent'
    <2>1. visited = {sent[i].url : i \in 1 .. Len(sent)}
        BY ONLY <1>1, <1>6, Zenon DEF VisitedIsSent
    <2>2. visited' = {sent'[i].url : i \in DOMAIN sent'}
        <3>1. DOMAIN sent' = (1 .. Len(sent)) \cup {Len(sent) + 1}
            BY ONLY <1>5, <1>6
        <3>2. ASSUME NEW u \in visited' PROVE \E i \in DOMAIN sent' : u = sent'[i].url
            <4>1. u \in visited \/ u = url
                BY ONLY u \in visited', <1>2, Zenon
            <4>2. CASE u = url
                <5>1. Len(sent) + 1 \in DOMAIN sent'
                    BY ONLY <3>1, Zenon
                <5>2. u = sent'[Len(sent) + 1].url
                    BY ONLY <4>2, <1>5, <1>7, Zenon
                <5> QED BY ONLY <5>1, <5>2, Zenon
            <4>3. CASE u \in visited
                <5>1. PICK i \in 1 .. Len(sent) : u = sent[i].url
                    BY ONLY <4>3, <2>1, Zenon
                <5>2. i \in DOMAIN sent' /\ u = sent'[i].url
                    BY ONLY <5>1, <3>1, <1>8, Zenon
                <5> QED BY ONLY <5>2, Zenon
            <4> QED BY ONLY <4>1, <4>2, <4>3, Zenon
        <3>3. ASSUME NEW i \in DOMAIN sent' PROVE sent'[i].url \in visited'
            <4>1. i \in 1 .. Len(sent) \/ i = Len(sent) + 1
                BY ONLY i \in DOMAIN sent', <3>1, Zenon
            <4>2. CASE i = Len(sent) + 1
                BY ONLY <4>2, <1>2, <1>5, <1>7, Zenon
            <4>3. CASE i \in 1 .. Len(sent)
                <5>1. sent'[i].url = sent[i].url
                    BY ONLY <4>3, <1>8, Zenon
                <5>2. sent[i].url \in visited
                    BY ONLY <4>3, <2>1, Zenon
                <5> QED BY ONLY <5>1, <5>2, <1>2, Zenon
            <4> QED BY ONLY <4>1, <4>2, <4>3, Zenon
        <3> QED BY ONLY <3>2, <3>3, Zenon
    <2>3. IsFiniteSet(visited) /\ Cardinality(visited) = Len(sent)
        BY <1>1 DEF VisitedIsSent
    <2>4. IsFiniteSet(visited') /\ Cardinality(visited') = Cardinality(visited) + 1
        BY ONLY <1>2, <2>3, FS_AddElement
    <2> QED BY ONLY <2>2, <2>3, <2>4, <1>5 DEF VisitedIsSent
<1>11. OnePageAhead'
    <2>1. Len(answered) \in Nat /\ Len(answered) = Len(sent) /\ answered' = answered
        BY <1>1 DEF Typed, OnePageAhead
    <2> QED BY ONLY <2>1, <1>2, <1>5 DEF OnePageAhead
<1>12. PagesBounded'
    <2>1. Len(sent') <= MaxPages
        BY ONLY <1>1, <1>2, <1>5, ConstantsAssumption DEF VisitedIsSent
    <2>2. \A i \in 1 .. Len(sent) : sent[i].url # url
        <3>1. visited = {sent[i].url : i \in 1 .. Len(sent)}
            BY ONLY <1>1, <1>6, Zenon DEF VisitedIsSent
        <3> QED BY ONLY <3>1, <1>2, Zenon
    <2>3. ASSUME NEW i \in DOMAIN sent', NEW j \in DOMAIN sent', sent'[i].url = sent'[j].url
          PROVE  i = j
        <3>1. CASE i \in 1 .. Len(sent) /\ j \in 1 .. Len(sent)
            BY ONLY <3>1, <2>3, <1>1, <1>6, <1>8 DEF PagesBounded
        <3>2. CASE i = Len(sent) + 1 /\ j \in 1 .. Len(sent)
            BY ONLY <3>2, <2>2, <2>3, <1>5, <1>7, <1>8
        <3>3. CASE i \in 1 .. Len(sent) /\ j = Len(sent) + 1
            BY ONLY <3>3, <2>2, <2>3, <1>5, <1>7, <1>8
        <3>4. i \in 1 .. Len(sent) + 1 /\ j \in 1 .. Len(sent) + 1
            BY ONLY <1>6, <2>3, i \in DOMAIN sent', j \in DOMAIN sent'
        <3> QED BY ONLY <3>1, <3>2, <3>3, <3>4, <1>5
    <2> QED BY ONLY <2>1, <2>3 DEF PagesBounded
<1>13. FollowsChain'
    <2>1. answered' = answered
        OBVIOUS
    <2>2. ASSUME NEW i \in 1 .. Len(sent)
          PROVE  IF i = 1 THEN sent'[i].url = StartPath
                 ELSE sent'[i].url = answered'[i - 1].cursor /\ ~sent'[i].params
        BY ONLY <1>1, <1>6, <1>8, <2>1, i \in 1 .. Len(sent) DEF FollowsChain
    <2>3. CASE sent = <<>>
        <3>1. url = StartPath /\ Len(sent) = 0
            BY <2>3, <1>1 DEF OnePageAhead
        <3>2. \A i \in DOMAIN sent' : i = 1
            BY ONLY <3>1, <1>6
        <3>3. sent'[1].url = StartPath
            BY ONLY <3>1, <1>5, <1>7
        <3> QED BY ONLY <3>2, <3>3 DEF FollowsChain
    <2>4. CASE sent # <<>>
        <3>1. Len(sent) # 0
            BY ONLY <2>4, <1>3
        <3>2. r.url = answered[Len(sent)].cursor /\ ~r.params
            BY <2>4, <1>1, <1>2, <1>7, UrlsAssumption DEF OnePageAhead, Ends
        <3>3. ASSUME NEW i \in DOMAIN sent'
              PROVE  IF i = 1 THEN sent'[i].url = StartPath
                     ELSE sent'[i].url = answered'[i - 1].cursor /\ ~sent'[i].params
            <4>1. CASE i \in 1 .. Len(sent)
                BY ONLY <4>1, <2>2
            <4>2. CASE i = Len(sent) + 1
                BY ONLY <4>2, <3>1, <3>2, <2>1, <1>5
            <4> QED BY ONLY <4>1, <4>2, <1>5, <1>6, i \in DOMAIN sent'
        <3> QED BY ONLY <3>3 DEF FollowsChain
    <2> QED BY <2>3, <2>4
<1> QED BY <1>9, <1>10, <1>11, <1>12, <1>13 DEF IInv

\* The head of the loop returns, throws or sends the next request.
LEMMA LoopPreserves == IInv /\ Loop => IInv'
<1> SUFFICES ASSUME IInv, Loop PROVE IInv'
    OBVIOUS
<1>1. CASE Return
    BY <1>1 DEF Loop, Return, IInv, Typed, VisitedIsSent, OnePageAhead,
                PagesBounded, FollowsChain
<1>2. CASE Guarded
    BY <1>2 DEF Loop, Guarded, Throw, IInv, Typed, VisitedIsSent, OnePageAhead,
                PagesBounded, FollowsChain
<1>3. CASE Request
    BY <1>3, RequestPreserves DEF Loop
<1> QED BY <1>1, <1>2, <1>3 DEF Loop

\* A page's cursor is the next path, the end, or the end of the walk.
LEMMA AnswerPreserves == IInv /\ Answer => IInv'
<1> SUFFICES ASSUME IInv, Answer PROVE IInv'
    OBVIOUS
<1> USE DEF IInv
<1>1. PICK page \in Pages : /\ answered' = Append(answered, page)
                            /\ Accept(page) \/ Reject(page)
    BY DEF Answer
<1>2. pc = "requested" /\ UNCHANGED <<visited, sent>>
    BY DEF Answer
<1>3. /\ answered' \in Seq(Pages)
      /\ Len(answered') = Len(answered) + 1
      /\ \A i \in 1 .. Len(answered) : answered'[i] = answered[i]
      /\ answered'[Len(answered) + 1] = page
      /\ Len(answered) \in Nat /\ Len(sent) \in Nat
      /\ DOMAIN sent = 1 .. Len(sent)
    BY <1>1 DEF Typed
<1>4. Len(sent) = Len(answered')
    BY <1>2, <1>3 DEF OnePageAhead
<1>5. FollowsChain'
    BY <1>2, <1>3, <1>4 DEF FollowsChain
<1>6. VisitedIsSent' /\ PagesBounded'
    BY <1>2 DEF VisitedIsSent, PagesBounded
<1>7. CASE pc' = "looping"
    <2>1. page.cursor \in Cursors
        BY DEF Pages
    <2>2. /\ url' = Follow(page.cursor)
          /\ params' = FALSE
          /\ page.cursor \notin {Malformed, Foreign}
        BY <1>1, <1>7 DEF Accept, Reject, Throw
    <2>3. url' \in Urls \cup {Null} /\ (url' # Null => url' = page.cursor)
        BY <2>1, <2>2 DEF Follow, Cursors, Ends
    <2>4. sent # <<>>
        BY <1>3, <1>4
    <2>5. Typed'
        BY <2>2, <2>3, <1>2, <1>3, <1>7 DEF Typed
    <2>6. OnePageAhead'
        BY <2>2, <2>3, <2>4, <1>2, <1>3, <1>4, <1>7 DEF OnePageAhead
    <2> QED BY <2>5, <2>6, <1>5, <1>6
<1>8. CASE pc' # "looping"
    <2>1. pc' = "thrown" /\ UNCHANGED <<url, params>>
        BY <1>1, <1>8 DEF Accept, Reject, Throw
    <2>2. Typed'
        BY <2>1, <1>2, <1>3 DEF Typed
    <2>3. OnePageAhead'
        BY <2>1, <1>2, <1>3, <1>4 DEF OnePageAhead
    <2> QED BY <2>2, <2>3, <1>5, <1>6
<1> QED BY <1>7, <1>8

\* Every step of the walk preserves the invariant.
LEMMA NextPreserves == IInv /\ [Next]_vars => IInv'
<1> SUFFICES ASSUME IInv, [Next]_vars PROVE IInv'
    OBVIOUS
<1>1. CASE Loop
    BY <1>1, LoopPreserves
<1>2. CASE Answer
    BY <1>2, AnswerPreserves
<1>3. CASE Fail
    BY <1>3 DEF Fail, Throw, IInv, Typed, VisitedIsSent, OnePageAhead,
                PagesBounded, FollowsChain
<1>4. CASE UNCHANGED vars
    BY <1>4 DEF vars, IInv, Typed, VisitedIsSent, OnePageAhead,
                PagesBounded, FollowsChain
<1> QED BY <1>1, <1>2, <1>3, <1>4 DEF Next, Finished

\* The invariant holds of every reachable state.
THEOREM Invariance == Spec => []IInv
BY InitHolds, NextPreserves, PTL DEF Spec

\* Whatever the server answers, a walk asks for at most MaxPages pages and for
\* no path twice.
THEOREM WalkBounded == Spec => []PagesBounded
<1>1. IInv => PagesBounded
    BY DEF IInv
<1> QED BY <1>1, Invariance, PTL

\* The requests of a walk are the chain of the server's cursors, and only the
\* first carries the query parameters.
THEOREM ChainFollowed == Spec => []FollowsChain
<1>1. IInv => FollowsChain
    BY DEF IInv
<1> QED BY <1>1, Invariance, PTL
-----------------------------------------------------------------------------
(* Why a walk throws *)

\* A walk that is about to be led back, or led too far, has fetched a page.
LEMMA FetchedBefore ==
    ASSUME IInv, pc = "looping", url # Null, Cyclic \/ TooLong
    PROVE  /\ sent # <<>>
           /\ Len(answered) = Len(sent)
           /\ answered[Len(answered)].cursor = url
           /\ url \in Urls
<1>1. Typed /\ VisitedIsSent /\ OnePageAhead
    BY DEF IInv
<1>2. MaxPages \in Nat /\ MaxPages >= 1
    BY ConstantsAssumption
<1>3. sent # <<>>
    <2> SUFFICES ASSUME sent = <<>> PROVE FALSE
        OBVIOUS
    <2>1. DOMAIN sent = {} /\ Len(sent) = 0
        OBVIOUS
    <2>2. visited = {} /\ Cardinality(visited) = 0
        BY <2>1, <1>1 DEF VisitedIsSent
    <2> QED BY <2>2, <1>2 DEF Cyclic, TooLong
<1> QED BY <1>1, <1>3 DEF OnePageAhead, Typed

\* The head of the loop throws at a path already fetched, or at the limit.
LEMMA GuardedForCause ==
    ASSUME IInv, pc = "looping", Guarded, UNCHANGED <<url, params, items, answered>>
    PROVE  ThrowsForCause'
<1>1. /\ url # Null /\ pc' = "thrown"
      /\ UNCHANGED <<visited, sent, answered>>
      /\ \/ Cyclic /\ reason' = "cyclic"
         \/ ~Cyclic /\ TooLong /\ reason' = "too-long"
    BY DEF Guarded, Throw
<1>2. /\ Len(answered) = Len(sent)
      /\ answered[Len(answered)].cursor = url
      /\ url \in Urls
    BY <1>1, FetchedBefore
<1>3. visited = {sent[i].url : i \in DOMAIN sent}
    BY DEF IInv, VisitedIsSent
<1>4. Len(sent) \in Nat
    BY DEF IInv, Typed
<1>5. TooLong => Len(sent) = MaxPages
    BY <1>4, ConstantsAssumption DEF IInv, VisitedIsSent, PagesBounded, TooLong
<1> QED BY <1>1, <1>2, <1>3, <1>4, <1>5 DEF ThrowsForCause, Cyclic

\* A page throws at a cursor that is malformed or foreign, and at no other.
LEMMA AnswerForCause ==
    ASSUME IInv, Answer
    PROVE  ThrowsForCause'
<1>1. PICK page \in Pages : /\ answered' = Append(answered, page)
                            /\ Accept(page) \/ Reject(page)
    BY DEF Answer
<1>2. pc = "requested" /\ UNCHANGED <<visited, sent>>
    BY DEF Answer
<1>3. /\ Len(answered) \in Nat /\ Len(sent) = Len(answered) + 1
      /\ Len(answered') = Len(answered) + 1
      /\ answered'[Len(answered')] = page
    BY <1>1, <1>2 DEF IInv, Typed, OnePageAhead
<1>4. pc' = "thrown" => \/ page.cursor = Malformed /\ reason' = "malformed"
                        \/ page.cursor = Foreign /\ reason' = "foreign"
    BY <1>1 DEF Accept, Reject, Throw
<1> QED BY <1>2, <1>3, <1>4 DEF ThrowsForCause

\* A walk throws for the cause it gives: its request failed, or the server's
\* last cursor is malformed, foreign, a path already fetched, or one too many.
THEOREM ThrownForCause == Spec => []ThrowsForCause
<1>1. Init => ThrowsForCause
    BY DEF Init, ThrowsForCause
<1>2. IInv /\ ThrowsForCause /\ [Next]_vars => ThrowsForCause'
    <2> SUFFICES ASSUME IInv, ThrowsForCause, [Next]_vars PROVE ThrowsForCause'
        OBVIOUS
    <2>1. CASE Loop /\ Return
        BY <2>1 DEF Loop, Return, ThrowsForCause
    <2>2. CASE Loop /\ Guarded
        BY <2>2, GuardedForCause DEF Loop
    <2>3. CASE Loop /\ Request
        BY <2>3 DEF Loop, Request, ThrowsForCause
    <2>4. CASE Answer
        BY <2>4, AnswerForCause
    <2>5. CASE Fail
        <3>1. Len(answered) < Len(sent)
            BY <2>5 DEF Fail, IInv, Typed, OnePageAhead
        <3> QED BY <3>1, <2>5 DEF Fail, Throw, ThrowsForCause
    <2>6. CASE UNCHANGED vars
        BY <2>6 DEF vars, ThrowsForCause
    <2> QED BY <2>1, <2>2, <2>3, <2>4, <2>5, <2>6 DEF Next, Loop, Finished
<1> QED BY <1>1, <1>2, Invariance, PTL DEF Spec
-----------------------------------------------------------------------------
(* What a page adds *)

Rows == Nat \X Nat

\* The row a was fetched before the row b.
Before(a, b) ==
    \/ a[1] < b[1]
    \/ a[1] = b[1] /\ a[2] < b[2]

InOrder(rows) == \A i, j \in DOMAIN rows : i < j => Before(rows[i], rows[j])

\* rows are the valid ones of the first k of a page's, the n-th page's, in order.
KeptUpto(rows, page, n, k) ==
    /\ rows \in Seq(Rows)
    /\ \A i \in DOMAIN rows :
          rows[i][1] = n /\ rows[i][2] \in ValidRows(page) /\ rows[i][2] <= k
    /\ \A l \in ValidRows(page) : l <= k => \E i \in DOMAIN rows : rows[i] = <<n, l>>
    /\ InOrder(rows)

\* The row after the first k is kept if it is valid.
LEMMA KeptGrows ==
    ASSUME NEW page \in Pages, NEW n \in Nat, NEW k \in 1 .. Len(page.rows),
           NEW rows, KeptUpto(rows, page, n, k - 1)
    PROVE  KeptUpto(IF page.rows[k] THEN Append(rows, <<n, k>>) ELSE rows, page, n, k)
<1>1. page.rows \in Seq(BOOLEAN)
    BY ConstantsAssumption DEF Pages
<1>2. ValidRows(page) \subseteq Nat
    BY <1>1 DEF ValidRows
<1>3. rows \in Seq(Rows)
    BY DEF KeptUpto
<1>4. CASE ~page.rows[k]
    <2>1. \A l \in ValidRows(page) : l <= k => l <= k - 1
        BY <1>1, <1>2, <1>4 DEF ValidRows
    <2>2. \A i \in DOMAIN rows : rows[i][2] <= k
        BY <1>2 DEF KeptUpto
    <2> QED BY <1>4, <2>1, <2>2 DEF KeptUpto
<1>5. CASE page.rows[k]
    <2> DEFINE row == <<n, k>>
               more == Append(rows, row)
    <2>1. row \in Rows /\ row[1] = n /\ row[2] = k
        BY DEF Rows
    <2>2. k \in ValidRows(page)
        BY <1>1, <1>5 DEF ValidRows
    <2> HIDE DEF row
    <2>3. /\ more \in Seq(Rows)
          /\ Len(rows) \in Nat
          /\ DOMAIN rows = 1 .. Len(rows)
          /\ DOMAIN more = 1 .. Len(rows) + 1
          /\ \A i \in 1 .. Len(rows) : more[i] = rows[i]
          /\ more[Len(rows) + 1] = row
        BY <1>3, <2>1
    <2> HIDE DEF more
    <2>4. ASSUME NEW i \in DOMAIN more
          PROVE  more[i][1] = n /\ more[i][2] \in ValidRows(page) /\ more[i][2] <= k
        <3>1. CASE i \in 1 .. Len(rows)
            BY <1>2, <2>3, <3>1 DEF KeptUpto
        <3>2. CASE i = Len(rows) + 1
            BY <2>1, <2>2, <2>3, <3>2
        <3> QED BY <2>3, <3>1, <3>2
    <2>5. ASSUME NEW l \in ValidRows(page), l <= k
          PROVE  \E i \in DOMAIN more : more[i] = <<n, l>>
        <3>1. CASE l = k
            BY <2>3, <3>1 DEF row
        <3>2. CASE l <= k - 1
            <4>1. PICK i \in DOMAIN rows : rows[i] = <<n, l>>
                BY <3>2 DEF KeptUpto
            <4> QED BY <4>1, <2>3
        <3> QED BY <1>2, <2>5, <3>1, <3>2
    <2>6. ASSUME NEW i \in DOMAIN more, NEW j \in DOMAIN more, i < j
          PROVE  Before(more[i], more[j])
        <3>1. i \in 1 .. Len(rows)
            BY <2>3, <2>6
        <3>2. CASE j \in 1 .. Len(rows)
            BY <2>3, <2>6, <3>1, <3>2 DEF KeptUpto, InOrder
        <3>3. CASE j = Len(rows) + 1
            <4>1. rows[i][1] = n /\ rows[i][2] \in Nat /\ rows[i][2] <= k - 1
                BY <1>2, <2>3, <3>1 DEF KeptUpto
            <4> QED BY <2>1, <2>3, <3>1, <3>3, <4>1 DEF Before
        <3> QED BY <2>3, <3>2, <3>3
    <2>7. KeptUpto(more, page, n, k)
        BY <2>3, <2>4, <2>5, <2>6 DEF KeptUpto, InOrder
    <2> QED BY <1>5, <2>7 DEF more, row
<1> QED BY <1>4, <1>5

\* validateArrayResponse keeps the valid rows, all of them and in their order.
LEMMA KeptRows ==
    ASSUME NEW page \in Pages, NEW n \in Nat
    PROVE  KeptUpto(Kept(page, n), page, n, Len(page.rows))
<1> DEFINE m == Len(page.rows)
           Row(k, rest) == IF page.rows[k] THEN Append(rest, <<n, k>>) ELSE rest
           step == [p \in (1 .. m) \X Seq(Rows) |-> Row(p[1], p[2])]
           upto == CHOOSE f : f = [k \in 0 .. m |->
                        IF k = 0 THEN <<>>
                        ELSE IF page.rows[k] THEN Append(f[k - 1], <<n, k>>)
                        ELSE f[k - 1]]
           Good == {k \in Nat : k <= m => KeptUpto(upto[k], page, n, k)}
<1>1. page.rows \in Seq(BOOLEAN) /\ m \in Nat
    BY ConstantsAssumption DEF Pages
<1>2. step \in [(1 .. m) \X Seq(Rows) -> Seq(Rows)]
    <2>1. ASSUME NEW k \in 1 .. m, NEW rest \in Seq(Rows) PROVE Row(k, rest) \in Seq(Rows)
        <3>1. <<n, k>> \in Rows
            BY <1>1 DEF Rows
        <3> QED BY <3>1
    <2> HIDE DEF Row
    <2> QED BY <2>1
<1>3. <<>> \in Seq(Rows)
    OBVIOUS
<1> HIDE DEF step, m
<1>4. PICK f \in [0 .. m -> Seq(Rows)] :
         /\ f[0] = <<>>
         /\ \A k \in 1 .. m : f[k] = step[<<k, f[k - 1]>>]
    <2>1. \E f : IsRecursive(f, m, Seq(Rows), <<>>, step)
        BY ONLY <1>1, <1>2, <1>3, RecursionExists DEF m
    <2> QED BY <2>1, Zenon DEF IsRecursive
<1>5. \A k \in 1 .. m : f[k] = Row(k, f[k - 1])
    <2> TAKE k \in 1 .. m
    <2>1. f[k - 1] \in Seq(Rows)
        BY <1>1
    <2> QED BY <1>4, <2>1 DEF step
<1>6. f = [k \in 0 .. m |->
              IF k = 0 THEN <<>>
              ELSE IF page.rows[k] THEN Append(f[k - 1], <<n, k>>)
              ELSE f[k - 1]]
    <2>1. f = [k \in 0 .. m |-> f[k]]
        BY <1>4
    <2>2. ASSUME NEW k \in 0 .. m
          PROVE  f[k] = IF k = 0 THEN <<>>
                        ELSE IF page.rows[k] THEN Append(f[k - 1], <<n, k>>)
                        ELSE f[k - 1]
        <3>1. k = 0 \/ k \in 1 .. m
            BY <1>1
        <3> QED BY <1>4, <1>5, <3>1
    <2> QED BY <2>1, <2>2, Zenon
<1>7. upto = [k \in 0 .. m |->
                IF k = 0 THEN <<>>
                ELSE IF page.rows[k] THEN Append(upto[k - 1], <<n, k>>)
                ELSE upto[k - 1]]
    BY <1>6, Zenon DEF m
<1> HIDE DEF upto
<1>8. upto[0] = <<>> /\ \A k \in 1 .. m : upto[k] = Row(k, upto[k - 1])
    <2>1. 0 \in 0 .. m /\ \A k \in 1 .. m : k \in 0 .. m /\ k # 0
        BY <1>1 DEF m
    <2>2. \A k \in 0 .. m : upto[k] = IF k = 0 THEN <<>>
                                      ELSE IF page.rows[k] THEN Append(upto[k - 1], <<n, k>>)
                                      ELSE upto[k - 1]
        BY <1>7, Zenon
    <2> QED BY <2>1, <2>2
<1>9. 0 \in Good
    <2>1. ValidRows(page) \subseteq Nat \ {0}
        BY <1>1 DEF ValidRows
    <2>2. KeptUpto(<<>>, page, n, 0)
        BY <1>3, <2>1 DEF KeptUpto, InOrder
    <2> QED BY <1>8, <2>2
<1>10. ASSUME NEW k \in Nat, k \in Good PROVE k + 1 \in Good
    <2> SUFFICES ASSUME k + 1 <= m PROVE KeptUpto(upto[k + 1], page, n, k + 1)
        OBVIOUS
    <2>1. KeptUpto(upto[k], page, n, k)
        BY <1>1, <1>10
    <2>2. k + 1 \in 1 .. m /\ (k + 1) - 1 = k
        BY <1>1
    <2>3. upto[k + 1] = Row(k + 1, upto[k])
        BY <1>8, <2>2
    <2>4. KeptUpto(Row(k + 1, upto[k]), page, n, k + 1)
        <3>1. KeptUpto(upto[k], page, n, (k + 1) - 1) /\ k + 1 \in 1 .. Len(page.rows)
            BY <2>1, <2>2 DEF m
        <3> QED BY <3>1, KeptGrows, Zenon
    <2> QED BY <2>3, <2>4
<1> HIDE DEF Good
<1>11. m \in Good
    BY <1>1, <1>9, <1>10, NatSetInduction
<1>12. Kept(page, n) = upto[m]
    BY Zenon DEF Kept, upto, m
<1>13. KeptUpto(upto[m], page, n, m)
    BY <1>1, <1>11 DEF Good, m
<1> QED BY <1>12, <1>13, Zenon DEF m
-----------------------------------------------------------------------------
(* What a walk returns *)

\* items are valid rows of the pages received, in order, and all of them while
\* no page has failed.
ItemsAreRows ==
    /\ items \in Seq(Rows)
    /\ \A i \in DOMAIN items :
          /\ items[i][1] \in DOMAIN answered
          /\ items[i][2] \in ValidRows(answered[items[i][1]])
    /\ InOrder(items)
    /\ pc # "thrown" =>
          \A n \in DOMAIN answered : \A k \in ValidRows(answered[n]) :
             \E i \in DOMAIN items : items[i] = <<n, k>>

\* The path is Null at the end of the chain, never before a page was received,
\* and not while a request is out.
EndOfChain ==
    /\ pc \in {"looping", "returned"} /\ url = Null =>
          /\ Len(answered) # 0
          /\ answered[Len(answered)].cursor \in {Null, Empty}
    /\ pc = "requested" => url # Null
    /\ pc = "returned" => url = Null

Reasoned == reason \in {"none", "cyclic", "too-long", "foreign", "malformed", "transport"}

WholeInv == ItemsAreRows /\ EndOfChain /\ Reasoned

\* A page's rows come after those of the pages before it.
LEMMA PageAppended ==
    ASSUME IInv, ItemsAreRows, NEW page \in Pages,
           answered' = Append(answered, page), pc # "thrown",
           items' = items \o Kept(page, Len(answered) + 1)
    PROVE  ItemsAreRows'
<1> DEFINE n == Len(answered) + 1
           more == Kept(page, n)
<1>1. /\ Len(answered) \in Nat /\ n \in Nat
      /\ DOMAIN answered = 1 .. Len(answered)
      /\ DOMAIN answered' = 1 .. n
      /\ \A i \in 1 .. Len(answered) : answered'[i] = answered[i]
      /\ answered'[n] = page
    BY DEF IInv, Typed
<1>2. KeptUpto(more, page, n, Len(page.rows))
    BY <1>1, KeptRows
<1>3. \A k \in ValidRows(page) : k \in Nat /\ k <= Len(page.rows)
    <2>1. page.rows \in Seq(BOOLEAN)
        BY ConstantsAssumption DEF Pages
    <2> QED BY <2>1 DEF ValidRows
<1> HIDE DEF more, n
<1>4. /\ more \in Seq(Rows)
      /\ \A i \in DOMAIN more : more[i][1] = n /\ more[i][2] \in ValidRows(page)
      /\ \A k \in ValidRows(page) : \E i \in DOMAIN more : more[i] = <<n, k>>
      /\ InOrder(more)
    BY <1>2, <1>3 DEF KeptUpto
<1>5. items \in Seq(Rows)
    BY DEF ItemsAreRows
<1>6. items' = items \o more
    BY DEF more, n
<1>7. /\ items' \in Seq(Rows)
      /\ Len(items) \in Nat /\ Len(more) \in Nat
      /\ DOMAIN items = 1 .. Len(items) /\ DOMAIN more = 1 .. Len(more)
      /\ DOMAIN items' = 1 .. Len(items) + Len(more)
      /\ \A i \in 1 .. Len(items) : items'[i] = items[i]
      /\ \A i \in 1 .. Len(more) : items'[Len(items) + i] = more[i]
    BY ONLY <1>4, <1>5, <1>6
<1>8. ASSUME NEW i \in DOMAIN items', i \notin 1 .. Len(items)
      PROVE  /\ i - Len(items) \in DOMAIN more
             /\ items'[i] = more[i - Len(items)]
             /\ i > Len(items)
    <2>1. i - Len(items) \in 1 .. Len(more) /\ Len(items) + (i - Len(items)) = i
        BY ONLY <1>7, <1>8
    <2>2. i > Len(items)
        BY ONLY <1>7, <1>8
    <2>3. items'[Len(items) + (i - Len(items))] = more[i - Len(items)]
        BY ONLY <1>7, <2>1
    <2> QED BY <1>7, <2>1, <2>2, <2>3
<1>9. \A i \in 1 .. Len(items) : items[i][1] \in 1 .. Len(answered)
    BY <1>1, <1>7 DEF ItemsAreRows
<1>10. Len(answered) < n
    BY <1>1 DEF n
<1>11. ASSUME NEW i \in DOMAIN items'
       PROVE  /\ items'[i][1] \in DOMAIN answered'
              /\ items'[i][2] \in ValidRows(answered'[items'[i][1]])
    <2>1. CASE i \in 1 .. Len(items)
        <3>1. /\ items'[i] = items[i]
              /\ items[i][1] \in 1 .. Len(answered)
              /\ items[i][2] \in ValidRows(answered[items[i][1]])
            BY <1>7, <1>9, <2>1 DEF ItemsAreRows
        <3>2. answered'[items[i][1]] = answered[items[i][1]]
            BY <1>1, <3>1
        <3> QED BY <1>1, <1>10, <3>1, <3>2
    <2>2. CASE i \notin 1 .. Len(items)
        <3>1. items'[i][1] = n /\ items'[i][2] \in ValidRows(page)
            BY <1>4, <1>8, <2>2
        <3> QED BY <1>1, <1>10, <3>1
    <2> QED BY <2>1, <2>2
<1>12. ASSUME NEW i \in DOMAIN items', NEW j \in DOMAIN items', i < j
       PROVE  Before(items'[i], items'[j])
    <2>1. i \in Nat /\ j \in Nat
        BY <1>7
    <2>2. CASE j \in 1 .. Len(items)
        <3>1. i \in 1 .. Len(items)
            BY <1>7, <1>12, <2>2
        <3> QED BY <1>7, <1>12, <2>2, <3>1 DEF ItemsAreRows, InOrder
    <2>3. CASE i \in 1 .. Len(items) /\ j \notin 1 .. Len(items)
        <3>1. items'[i] = items[i] /\ items[i][1] \in 1 .. Len(answered)
            BY <1>7, <1>9, <2>3
        <3>2. items'[j][1] = n
            BY <1>4, <1>8, <2>3
        <3>3. items'[i][1] < items'[j][1]
            BY <1>1, <1>10, <3>1, <3>2
        <3> QED BY <3>3, Zenon DEF Before
    <2>4. CASE i \notin 1 .. Len(items) /\ j \notin 1 .. Len(items)
        <3>1. /\ items'[i] = more[i - Len(items)] /\ i - Len(items) \in DOMAIN more
              /\ items'[j] = more[j - Len(items)] /\ j - Len(items) \in DOMAIN more
            BY <1>8, <2>4
        <3>2. i - Len(items) < j - Len(items)
            BY <1>7, <1>12, <2>1
        <3>3. Before(more[i - Len(items)], more[j - Len(items)])
            BY ONLY <1>4, <3>1, <3>2 DEF InOrder
        <3> QED BY <3>1, <3>3, Zenon
    <2>5. i \notin 1 .. Len(items) => j \notin 1 .. Len(items)
        BY <1>7, <1>12, <2>1
    <2> QED BY <2>2, <2>3, <2>4, <2>5
<1>13. ASSUME NEW p \in DOMAIN answered', NEW k \in ValidRows(answered'[p])
       PROVE  \E i \in DOMAIN items' : items'[i] = <<p, k>>
    <2>1. CASE p \in 1 .. Len(answered)
        <3>1. k \in ValidRows(answered[p]) /\ p \in DOMAIN answered
            BY <1>1, <2>1
        <3>2. PICK i \in DOMAIN items : items[i] = <<p, k>>
            BY <3>1 DEF ItemsAreRows
        <3>3. i \in DOMAIN items' /\ items'[i] = items[i]
            BY <1>7, <3>2
        <3> QED BY <3>2, <3>3, Zenon
    <2>2. CASE p = n
        <3>1. k \in ValidRows(page)
            BY <1>1, <2>2
        <3>2. PICK i \in DOMAIN more : more[i] = <<n, k>>
            BY <1>4, <3>1
        <3>3. Len(items) + i \in DOMAIN items' /\ items'[Len(items) + i] = more[i]
            BY ONLY <1>7, <3>2
        <3>4. items'[Len(items) + i] = <<p, k>>
            BY ONLY <2>2, <3>2, <3>3
        <3> QED BY ONLY <3>3, <3>4
    <2>3. p \in 1 .. Len(answered) \/ p = n
        BY <1>1 DEF n
    <2> QED BY <2>1, <2>2, <2>3
<1> QED BY <1>7, <1>11, <1>12, <1>13 DEF ItemsAreRows, InOrder

\* So do the rows of a page whose cursor throws, and a page that is malformed
\* adds none.
LEMMA AnswerKeepsWhole == IInv /\ WholeInv /\ Answer => WholeInv'
<1> SUFFICES ASSUME IInv, WholeInv, Answer PROVE WholeInv'
    OBVIOUS
<1>1. PICK page \in Pages : /\ answered' = Append(answered, page)
                            /\ Accept(page) \/ Reject(page)
    BY DEF Answer
<1>2. pc = "requested" /\ UNCHANGED <<visited, sent>>
    BY DEF Answer
<1>3. /\ Len(answered) \in Nat /\ Len(sent) = Len(answered) + 1
      /\ Len(answered') = Len(answered) + 1
      /\ answered'[Len(answered')] = page
      /\ DOMAIN answered = 1 .. Len(answered)
      /\ DOMAIN answered' = 1 .. Len(answered) + 1
      /\ \A i \in DOMAIN answered : answered'[i] = answered[i]
    BY <1>1, <1>2 DEF IInv, Typed, OnePageAhead
<1>4. CASE Accept(page)
    <2>1. ItemsAreRows'
        BY <1>1, <1>2, <1>3, <1>4, PageAppended DEF Accept, WholeInv
    <2>2. EndOfChain'
        <3>1. CASE page.cursor = Foreign
            BY <1>4, <3>1 DEF Accept, EndOfChain, Throw
        <3>2. CASE page.cursor # Foreign
            <4>1. pc' = "looping" /\ url' = Follow(page.cursor)
                BY <1>4, <3>2 DEF Accept
            <4>2. url' = Null => page.cursor \in {Null, Empty}
                BY <4>1 DEF Follow
            <4>3. Len(answered') # 0
                BY <1>3
            <4> QED BY <1>3, <4>1, <4>2, <4>3 DEF EndOfChain
        <3> QED BY <3>1, <3>2
    <2>3. Reasoned'
        BY <1>4 DEF Accept, Throw, WholeInv, Reasoned
    <2> QED BY <2>1, <2>2, <2>3 DEF WholeInv
<1>5. CASE Reject(page)
    <2>1. pc' = "thrown" /\ items' = items /\ reason' = "malformed"
        BY <1>5 DEF Reject, Throw
    <2>2. ItemsAreRows'
        <3>1. \A i \in DOMAIN items :
                 /\ items[i][1] \in DOMAIN answered'
                 /\ items[i][2] \in ValidRows(answered'[items[i][1]])
            BY <1>3 DEF WholeInv, ItemsAreRows
        <3> QED BY <2>1, <3>1 DEF WholeInv, ItemsAreRows
    <2> QED BY <2>1, <2>2 DEF WholeInv, EndOfChain, Reasoned
<1> QED BY <1>1, <1>4, <1>5

\* No other step adds a row or receives a page.
LEMMA WholeInvariance == Spec => [](IInv /\ WholeInv)
<1>1. Init => WholeInv
    <2> SUFFICES ASSUME Init PROVE WholeInv
        OBVIOUS
    <2>1. StartPath # Null
        BY ConstantsAssumption, UrlsAssumption DEF Ends
    <2>2. DOMAIN answered = {} /\ DOMAIN items = {} /\ items \in Seq(Rows)
        BY DEF Init
    <2>3. ItemsAreRows
        BY <2>2 DEF ItemsAreRows, InOrder
    <2> QED BY <2>1, <2>3 DEF Init, WholeInv, EndOfChain, Reasoned
<1>2. IInv /\ WholeInv /\ [Next]_vars => WholeInv'
    <2> SUFFICES ASSUME IInv, WholeInv, [Next]_vars PROVE WholeInv'
        OBVIOUS
    <2>1. CASE Loop
        <3>1. UNCHANGED <<url, items, answered>> /\ pc = "looping"
            BY <2>1 DEF Loop
        <3>2. ItemsAreRows'
            BY <3>1 DEF WholeInv, ItemsAreRows
        <3>3. EndOfChain' /\ Reasoned'
            BY <2>1, <3>1 DEF Loop, Return, Guarded, Request, Throw, WholeInv, EndOfChain, Reasoned
        <3> QED BY <3>2, <3>3 DEF WholeInv
    <2>2. CASE Answer
        BY <2>2, AnswerKeepsWhole
    <2>3. CASE Fail
        BY <2>3 DEF Fail, Throw, WholeInv, ItemsAreRows, EndOfChain, Reasoned
    <2>4. CASE UNCHANGED vars
        BY <2>4 DEF vars, WholeInv, ItemsAreRows, EndOfChain, Reasoned
    <2> QED BY <2>1, <2>2, <2>3, <2>4 DEF Next, Finished
<1>3. IInv /\ [Next]_vars => IInv'
    BY NextPreserves
<1> QED BY <1>1, <1>2, Invariance, PTL DEF Spec

\* Every variable of a walk has its type, whatever the server answers.
THEOREM WalkTyped == Spec => []TypeOK
<1>1. IInv /\ WholeInv => TypeOK
    BY DEF IInv, Typed, WholeInv, ItemsAreRows, Reasoned, Rows, TypeOK
<1> QED BY <1>1, WholeInvariance, PTL

\* A walk that returns has seen the end of the chain and gives every valid row
\* of every page, in order, once; for pages of any length, and any number of them.
THEOREM ReturnsTheWhole == Spec => []ReturnsWhole
<1>1. IInv /\ WholeInv => ReturnsWhole
    <2> SUFFICES ASSUME IInv, WholeInv, pc = "returned"
                 PROVE  /\ answered[Len(answered)].cursor \in {Null, Empty}
                        /\ ToSet(items) = UNION {{<<n, k>> : k \in ValidRows(answered[n])} :
                                                  n \in DOMAIN answered}
                        /\ InOrder(items)
        BY DEF ReturnsWhole, InOrder, Before
    <2>1. answered[Len(answered)].cursor \in {Null, Empty}
        BY DEF WholeInv, EndOfChain
    <2>2. \A i \in DOMAIN items : items[i] = <<items[i][1], items[i][2]>>
        <3>1. \A i \in DOMAIN items : items[i] \in Rows
            BY DEF WholeInv, ItemsAreRows
        <3> QED BY <3>1 DEF Rows
    <2>3. ToSet(items) \subseteq UNION {{<<n, k>> : k \in ValidRows(answered[n])} :
                                         n \in DOMAIN answered}
        BY <2>2 DEF ToSet, WholeInv, ItemsAreRows
    <2>4. ASSUME NEW n \in DOMAIN answered, NEW k \in ValidRows(answered[n])
          PROVE  <<n, k>> \in ToSet(items)
        BY DEF ToSet, WholeInv, ItemsAreRows
    <2> QED BY <2>1, <2>3, <2>4 DEF WholeInv, ItemsAreRows
<1> QED BY <1>1, WholeInvariance, PTL

-----------------------------------------------------------------------------
\* Positions: one is the empty one, or ends in a step after another.

\* A position that is not empty is all but its last step, and that step.
LEMMA FrontOf ==
  ASSUME NEW p \in Positions, p # <<>>
  PROVE  /\ Front(p) \in Positions /\ Last(p) \in Steps
         /\ Len(Front(p)) = Len(p) - 1 /\ Len(p) \in Nat /\ Len(p) # 0
         /\ \A i \in 1 .. Len(p) - 1 : Front(p)[i] = p[i]
         /\ p = Append(Front(p), Last(p))
<1>1. Len(p) \in Nat /\ Len(p) # 0
  BY DEF Positions
<1> DEFINE m == Len(p) - 1
           r == SubSeq(p, 1, m)
<1>2. m \in Nat /\ m \in 0 .. Len(p) /\ Len(p) = m + 1
  BY <1>1
<1> HIDE DEF m
<1>3. r \in Seq(Steps) /\ Len(r) = m /\ \A i \in 1 .. m : r[i] = p[i]
  BY <1>2 DEF Positions
<1>4. p[m + 1] \in Steps
  BY <1>2 DEF Positions
<1> HIDE DEF r
<1> DEFINE s == Append(r, p[m + 1])
<1>5. s \in Seq(Steps) /\ Len(s) = m + 1 /\ \A i \in 1 .. m + 1 : s[i] = p[i]
  BY <1>2, <1>3, <1>4
<1> HIDE DEF s
<1>6. s = p
  BY <1>2, <1>5 DEF Positions
<1>7. Front(p) = r /\ Last(p) = p[m + 1]
  BY <1>2 DEF Front, Last, r, m
<1> QED BY <1>1, <1>2, <1>3, <1>4, <1>6, <1>7 DEF s, m, Positions

\* A position and a step make a position, whose parts they are.
LEMMA AppendTo ==
  ASSUME NEW p \in Positions, NEW x \in Steps
  PROVE  /\ Append(p, x) \in Positions /\ Append(p, x) # <<>>
         /\ Front(Append(p, x)) = p /\ Last(Append(p, x)) = x
         /\ Len(Append(p, x)) = Len(p) + 1 /\ Len(p) \in Nat
<1> DEFINE q == Append(p, x)
<1>1. q \in Positions /\ q # <<>> /\ Len(q) = Len(p) + 1 /\ Len(p) \in Nat
      /\ (\A i \in 1 .. Len(p) : q[i] = p[i]) /\ q[Len(p) + 1] = x
  BY DEF Positions
<1> HIDE DEF q
<1>2. Last(q) = x
  BY <1>1 DEF Last
<1>3. /\ Front(q) \in Positions /\ Len(Front(q)) = Len(q) - 1
      /\ \A i \in 1 .. Len(q) - 1 : Front(q)[i] = q[i]
  BY <1>1, FrontOf
<1>4. Front(q) = p
  <2>1. Len(Front(q)) = Len(p) /\ \A i \in 1 .. Len(p) : Front(q)[i] = p[i]
    BY <1>1, <1>3
  <2> QED BY <1>3, <2>1 DEF Positions
<1> QED BY <1>1, <1>2, <1>4 DEF q

\* Induction over positions: what holds of the empty one, and of each when it
\* holds of all but its last step, holds of all.
LEMMA PositionInduction ==
  ASSUME NEW F, <<>> \in F,
         \A p \in Positions : p # <<>> /\ Front(p) \in F => p \in F
  PROVE  Positions \subseteq F
BY SequenceInduction, Zenon DEF Front, Positions

\* A prefix is no longer, and has the same steps as far as it goes.
LEMMA PrefixIs ==
  ASSUME NEW p \in Positions, NEW q \in Positions
  PROVE  IsPrefix(p, q) <=> Len(p) <= Len(q) /\ \A i \in 1 .. Len(p) : p[i] = q[i]
<1>1. Len(p) \in Nat /\ Len(q) \in Nat
  BY DEF Positions
<1>2. SubSeq(p, 1, Len(p)) = p
  BY DEF Positions
<1> SUFFICES ASSUME Len(p) <= Len(q)
             PROVE  SubSeq(p, 1, Len(p)) = SubSeq(q, 1, Len(p))
                      <=> \A i \in 1 .. Len(p) : p[i] = q[i]
  BY DEF IsPrefix
<1> DEFINE r == SubSeq(q, 1, Len(p))
<1>3. r \in Seq(Steps) /\ Len(r) = Len(p) /\ \A i \in 1 .. Len(p) : r[i] = q[i]
  BY <1>1 DEF Positions
<1> HIDE DEF r
<1>4. p = r <=> \A i \in 1 .. Len(p) : p[i] = r[i]
  BY <1>1, <1>3 DEF Positions
<1> QED BY <1>2, <1>3, <1>4 DEF r

\* Being a prefix is reflexive and antisymmetric, and the empty position is one
\* of all.
LEMMA PrefixFacts ==
  ASSUME NEW p \in Positions, NEW q \in Positions
  PROVE  /\ IsPrefix(p, p) /\ IsPrefix(<<>>, p)
         /\ IsPrefix(p, <<>>) => p = <<>>
         /\ IsPrefix(p, q) /\ Len(q) <= Len(p) => p = q
         /\ IsPrefix(p, q) => Len(p) <= Len(q)
         /\ Len(p) \in Nat /\ Len(q) \in Nat
<1>0. <<>> \in Positions /\ Len(<<>>) = 0
  BY DEF Positions
<1>1. Len(p) \in Nat /\ Len(q) \in Nat
  BY DEF Positions
<1>2. IsPrefix(p, p) /\ IsPrefix(<<>>, p)
  BY <1>0, <1>1, PrefixIs
<1>3. IsPrefix(p, q) => Len(p) <= Len(q)
  BY PrefixIs
<1>4. IsPrefix(p, q) /\ Len(q) <= Len(p) => p = q
  <2> SUFFICES ASSUME IsPrefix(p, q), Len(q) <= Len(p) PROVE p = q
    OBVIOUS
  <2>1. Len(p) = Len(q) /\ \A i \in 1 .. Len(p) : p[i] = q[i]
    BY <1>1, <1>3, PrefixIs
  <2> QED BY <2>1 DEF Positions
<1>5. IsPrefix(p, <<>>) => p = <<>>
  <2> SUFFICES ASSUME IsPrefix(p, <<>>) PROVE p = <<>>
    OBVIOUS
  <2>1. Len(p) <= 0
    BY <1>0, PrefixIs
  <2> QED BY <1>1, <2>1 DEF Positions
<1> QED BY <1>1, <1>2, <1>3, <1>4, <1>5

\* Being a prefix is transitive.
LEMMA PrefixTransitive ==
  ASSUME NEW p \in Positions, NEW q \in Positions, NEW r \in Positions,
         IsPrefix(p, q), IsPrefix(q, r)
  PROVE  IsPrefix(p, r)
<1>1. Len(p) \in Nat /\ Len(q) \in Nat /\ Len(r) \in Nat
  BY DEF Positions
<1>2. Len(p) <= Len(q) /\ Len(q) <= Len(r)
      /\ (\A i \in 1 .. Len(p) : p[i] = q[i]) /\ (\A i \in 1 .. Len(q) : q[i] = r[i])
  BY PrefixIs
<1>3. Len(p) <= Len(r) /\ \A i \in 1 .. Len(p) : p[i] = r[i]
  BY <1>1, <1>2
<1> QED BY <1>3, PrefixIs

\* A prefix of a position is that position, or one of all but its last step.
LEMMA PrefixOfFront ==
  ASSUME NEW p \in Positions, NEW q \in Positions, q # <<>>
  PROVE  IsPrefix(p, q) <=> p = q \/ IsPrefix(p, Front(q))
<1>1. /\ Front(q) \in Positions /\ Len(Front(q)) = Len(q) - 1
      /\ \A i \in 1 .. Len(q) - 1 : Front(q)[i] = q[i]
  BY FrontOf
<1>2. Len(p) \in Nat /\ Len(q) \in Nat
  BY DEF Positions
<1>3. IsPrefix(p, Front(q)) <=> Len(p) <= Len(q) - 1 /\ \A i \in 1 .. Len(p) : p[i] = Front(q)[i]
  BY <1>1, PrefixIs
<1>4. ASSUME IsPrefix(p, q), p # q PROVE IsPrefix(p, Front(q))
  <2>1. Len(p) <= Len(q) /\ \A i \in 1 .. Len(p) : p[i] = q[i]
    BY <1>4, PrefixIs
  <2>2. ~(Len(q) <= Len(p))
    BY <1>4, PrefixFacts
  <2>3. Len(p) <= Len(q) - 1
    BY <1>2, <2>1, <2>2
  <2> QED BY <1>1, <1>2, <1>3, <2>1, <2>3
<1>5. ASSUME IsPrefix(p, Front(q)) PROVE IsPrefix(p, q)
  <2>1. Len(p) <= Len(q) - 1 /\ \A i \in 1 .. Len(p) : p[i] = Front(q)[i]
    BY <1>3, <1>5
  <2>2. Len(p) <= Len(q) /\ \A i \in 1 .. Len(p) : p[i] = q[i]
    BY <1>1, <1>2, <2>1
  <2> QED BY <2>2, PrefixIs
<1> QED BY <1>4, <1>5, PrefixFacts

\* Two prefixes of one position are one a prefix of the other.
LEMMA PrefixChain ==
  ASSUME NEW p \in Positions, NEW q \in Positions, NEW r \in Positions,
         IsPrefix(p, r), IsPrefix(q, r)
  PROVE  IsPrefix(p, q) \/ IsPrefix(q, p)
<1>1. Len(p) \in Nat /\ Len(q) \in Nat /\ Len(r) \in Nat
  BY DEF Positions
<1>2. Len(p) <= Len(r) /\ Len(q) <= Len(r)
      /\ (\A i \in 1 .. Len(p) : p[i] = r[i]) /\ (\A i \in 1 .. Len(q) : q[i] = r[i])
  BY PrefixIs
<1>3. CASE Len(p) <= Len(q)
  <2>1. \A i \in 1 .. Len(p) : p[i] = q[i]
    BY <1>1, <1>2, <1>3
  <2> QED BY <1>3, <2>1, PrefixIs
<1>4. CASE Len(q) <= Len(p)
  <2>1. \A i \in 1 .. Len(q) : q[i] = p[i]
    BY <1>1, <1>2, <1>4
  <2> QED BY <1>4, <2>1, PrefixIs
<1> QED BY <1>1, <1>3, <1>4

\* What lies strictly below a position lies below one that is a step further.
LEMMA StepTowards ==
  ASSUME NEW p \in Positions, NEW q \in Positions, IsPrefix(p, q), p # q
  PROVE  \E r \in Positions : r # <<>> /\ Front(r) = p /\ IsPrefix(r, q)
<1> DEFINE F == {r \in Positions : IsPrefix(p, r) /\ p # r =>
                   \E s \in Positions : s # <<>> /\ Front(s) = p /\ IsPrefix(s, r)}
<1>1. <<>> \in F
  <2>1. <<>> \in Positions
    BY DEF Positions
  <2> QED BY <2>1, PrefixFacts
<1>2. ASSUME NEW r \in Positions, r # <<>>, Front(r) \in F PROVE r \in F
  <2> SUFFICES ASSUME IsPrefix(p, r), p # r
               PROVE  \E s \in Positions : s # <<>> /\ Front(s) = p /\ IsPrefix(s, r)
    BY <1>2
  <2>1. IsPrefix(p, Front(r)) /\ Front(r) \in Positions
    BY <1>2, PrefixOfFront, FrontOf
  <2>2. CASE Front(r) = p
    BY <1>2, <2>2, PrefixFacts
  <2>3. CASE Front(r) # p
    <3>1. PICK s \in Positions : s # <<>> /\ Front(s) = p /\ IsPrefix(s, Front(r))
      BY <1>2, <2>1, <2>3
    <3> QED BY <1>2, <3>1, PrefixOfFront
  <2> QED BY <2>2, <2>3
<1> HIDE DEF F
<1>3. q \in F
  BY <1>1, <1>2, PositionInduction
<1> QED BY <1>3 DEF F

-----------------------------------------------------------------------------
\* The functions of positions that are defined by recursion have the values
\* their definitions give them.

\* What is assumed of the schemas, in one place.
LEMMA Nodes ==
  /\ \A s \in Schemas : IsNode(s)
  /\ Unknown \in Schemas /\ Never \in Schemas
  /\ Unknown.type = "unknown" /\ Never.type = "never" /\ Unknown # Never
  /\ \A e \in Endpoints : Whole(e) \in Schemas /\ Whole(e) # Never
                          /\ SchemaOf[e] \in Schemas /\ SchemaOf[e] # Never
BY SchemasAssumption DEF Unknown, Never, Plain

\* A step leads from a schema in use to a schema in use.
LEMMA InnerSchema ==
  ASSUME NEW s \in Schemas, NEW x \in Steps
  PROVE  Inner(s, x) \in Schemas
<1>1. IsNode(s) /\ Unknown \in Schemas /\ Never \in Schemas
  BY Nodes
<1>2. s.type = "object" => /\ \A k \in DOMAIN s.shape : s.shape[k] \in Schemas
                           /\ s.catchall \in Schemas
  BY <1>1 DEF IsNode
<1>3. s.type = "record" => s.value \in Schemas
  BY <1>1 DEF IsNode
<1>4. s.type = "array" => s.element \in Schemas
  BY <1>1 DEF IsNode
<1>5. CASE s.type = "object"
  BY <1>1, <1>2, <1>5 DEF Inner
<1>6. CASE s.type = "record"
  BY <1>1, <1>3, <1>6 DEF Inner
<1>7. CASE s.type = "array"
  BY <1>1, <1>4, <1>7 DEF Inner
<1>8. CASE s.type \notin {"object", "record", "array"}
  BY <1>1, <1>8 DEF Inner
<1> QED BY <1>5, <1>6, <1>7, <1>8

\* Declared: the whole at the empty position, and a step inside at each other.
LEMMA DeclaredIs ==
  ASSUME NEW e \in Endpoints
  PROVE  /\ Declared(e) \in [Positions -> Schemas]
         /\ Declared(e)[<<>>] = Whole(e)
         /\ \A p \in Positions : p # <<>> =>
              Declared(e)[p] = Inner(Declared(e)[Front(p)], Last(p))
<1> DEFINE step == [vq \in Schemas \X Seq(Steps) |->
                      IF vq[2] = <<>> THEN Whole(e) ELSE Inner(vq[1], Last(vq[2]))]
           Is(f) == f = [p \in Positions |->
                           IF p = <<>> THEN Whole(e) ELSE Inner(f[Front(p)], Last(p))]
<1>1. Whole(e) \in Schemas
  BY SchemasAssumption
<1>2. step \in [Schemas \X Seq(Steps) -> Schemas]
  <2> SUFFICES ASSUME NEW v \in Schemas, NEW q \in Seq(Steps)
               PROVE  (IF q = <<>> THEN Whole(e) ELSE Inner(v, Last(q))) \in Schemas
    OBVIOUS
  <2>1. q # <<>> => Last(q) \in Steps
    BY FrontOf DEF Positions
  <2> QED BY <1>1, <2>1, InnerSchema
<1>3. \A v \in Schemas, q \in Positions :
        step[<<v, q>>] = IF q = <<>> THEN Whole(e) ELSE Inner(v, Last(q))
  BY DEF Positions
<1> HIDE DEF step
<1>4. PICK f : IsDescent(f, Steps, Schemas, Whole(e), step)
  BY <1>1, <1>2, DescentExists
<1>5. /\ f \in [Positions -> Schemas] /\ f[<<>>] = Whole(e)
      /\ \A q \in Positions : q # <<>> => f[q] = step[<<f[Front(q)], q>>]
  BY <1>4 DEF IsDescent, Positions, Front
<1>6. \A q \in Positions : q # <<>> => f[q] = Inner(f[Front(q)], Last(q))
  BY <1>3, <1>5, FrontOf
<1>7. Is(f)
  BY <1>5, <1>6
<1>8. Is(Declared(e))
  <2>1. Declared(e) = CHOOSE g : Is(g)
    BY DEF Declared
  <2> HIDE DEF Is
  <2> QED BY <1>7, <2>1
<1> DEFINE d == Declared(e)
<1>9. Is(d)
  BY <1>8
<1> HIDE DEF d
<1>10. d[<<>>] = Whole(e)
  <2>1. <<>> \in Positions
    BY DEF Positions
  <2> QED BY <1>9, <2>1
<1>11. \A p \in Positions : p # <<>> => d[p] = Inner(d[Front(p)], Last(p))
  BY <1>9
<1>12. d \in [Positions -> Schemas]
  <2> DEFINE F == {p \in Positions : d[p] \in Schemas}
  <2>1. <<>> \in F
    BY <1>1, <1>10 DEF Positions
  <2>2. \A p \in Positions : p # <<>> /\ Front(p) \in F => p \in F
    BY <1>11, FrontOf, InnerSchema
  <2> HIDE DEF F
  <2>3. Positions \subseteq F
    BY <2>1, <2>2, PositionInduction
  <2>4. \A p \in Positions : d[p] \in Schemas
    BY <2>3 DEF F
  <2>5. d = [p \in Positions |-> d[p]]
    BY <1>9
  <2> QED BY <2>4, <2>5
<1> QED BY <1>10, <1>11, <1>12 DEF d

\* Append, of a sequence over a set and a member of it.
LEMMA AppendIn ==
  ASSUME NEW S, NEW v \in Seq(S), NEW x \in S
  PROVE  Append(v, x) \in Seq(S)
OBVIOUS

\* PathOf: a position's path is that of all but its last step, and the key of
\* that step if it has one.
LEMMA PathOfIs ==
  /\ PathOf \in [Positions -> Seq(Texts)]
  /\ PathOf[<<>>] = <<>>
  /\ \A p \in Positions : p # <<>> =>
       PathOf[p] = IF Last(p).index # 0 THEN PathOf[Front(p)]
                   ELSE Append(PathOf[Front(p)], Last(p).key)
<1> DEFINE Paths == Seq(Texts)
           Then(v, q) == IF q = <<>> THEN <<>>
                         ELSE IF Last(q).index # 0 THEN v
                         ELSE Append(v, Last(q).key)
           step  == [vq \in Paths \X Seq(Steps) |-> Then(vq[1], vq[2])]
           Is(f) == f = [p \in Positions |-> 
                           IF p = <<>> THEN <<>>
                           ELSE IF Last(p).index # 0 THEN f[Front(p)]
                           ELSE Append(f[Front(p)], Last(p).key)]
<1>1. <<>> \in Paths /\ \A v \in Paths, k \in Texts : Append(v, k) \in Paths
  <2>1. <<>> \in Paths
    OBVIOUS
  <2>2. ASSUME NEW v \in Paths, NEW k \in Texts PROVE Append(v, k) \in Paths
    BY AppendIn
  <2> HIDE DEF Paths
  <2> QED BY <2>1, <2>2
<1> HIDE DEF Paths
<1>2. \A q \in Positions : q # <<>> => Last(q).key \in Texts
  BY FrontOf DEF Steps
<1>3. step \in [Paths \X Seq(Steps) -> Paths]
  <2> SUFFICES ASSUME NEW v \in Paths, NEW q \in Seq(Steps)
               PROVE  Then(v, q) \in Paths
    OBVIOUS
  <2> QED BY <1>1, <1>2 DEF Positions
<1>4. \A v \in Paths, q \in Positions : step[<<v, q>>] = Then(v, q)
  BY DEF Positions
<1> HIDE DEF step
<1>5. PICK f : IsDescent(f, Steps, Paths, <<>>, step)
  BY <1>1, <1>3, DescentExists
<1>6. /\ f \in [Positions -> Paths] /\ f[<<>>] = <<>>
      /\ \A q \in Positions : q # <<>> => f[q] = step[<<f[Front(q)], q>>]
  BY <1>5 DEF IsDescent, Positions, Front
<1>7. \A q \in Positions : q # <<>> =>
        f[q] = IF Last(q).index # 0 THEN f[Front(q)] ELSE Append(f[Front(q)], Last(q).key)
  BY <1>4, <1>6, FrontOf
<1>8. Is(f)
  BY <1>6, <1>7
<1>9. Is(PathOf)
  <2>1. PathOf = CHOOSE g : Is(g)
    BY DEF PathOf
  <2> HIDE DEF Is
  <2> QED BY <1>8, <2>1
<1>10. PathOf[<<>>] = <<>>
  <2>1. <<>> \in Positions
    BY DEF Positions
  <2> QED BY <1>9, <2>1
<1>11. \A p \in Positions : p # <<>> =>
         PathOf[p] = IF Last(p).index # 0 THEN PathOf[Front(p)]
                     ELSE Append(PathOf[Front(p)], Last(p).key)
  BY <1>9
<1>12. PathOf \in [Positions -> Paths]
  <2> DEFINE F == {p \in Positions : PathOf[p] \in Paths}
  <2>1. <<>> \in F
    BY <1>1, <1>10 DEF Positions
  <2>2. \A p \in Positions : p # <<>> /\ Front(p) \in F => p \in F
    BY <1>1, <1>2, <1>11
  <2> HIDE DEF F
  <2>3. Positions \subseteq F
    BY <2>1, <2>2, PositionInduction
  <2>4. \A p \in Positions : PathOf[p] \in Paths
    BY <2>3 DEF F
  <2>5. PathOf = [p \in Positions |-> PathOf[p]]
    BY <1>9
  <2> QED BY <2>4, <2>5
<1> QED BY <1>10, <1>11, <1>12 DEF Paths

\* ItemOf: a step to an item is the nearest; under a key it is the one above.
LEMMA ItemOfIs ==
  /\ ItemOf \in [Positions -> Positions]
  /\ ItemOf[<<>>] = <<>>
  /\ \A p \in Positions : p # <<>> =>
       ItemOf[p] = IF Last(p).index # 0 THEN p ELSE ItemOf[Front(p)]
<1> DEFINE Then(v, q) == IF q = <<>> \/ Last(q).index # 0 THEN q ELSE v
           step  == [vq \in Positions \X Seq(Steps) |-> Then(vq[1], vq[2])]
           Is(f) == f = [p \in Positions |-> 
                           IF p = <<>> \/ Last(p).index # 0 THEN p ELSE f[Front(p)]]
<1>1. <<>> \in Positions
  BY DEF Positions
<1>2. step \in [Positions \X Seq(Steps) -> Positions]
  BY DEF Positions
<1>3. \A v \in Positions, q \in Positions : step[<<v, q>>] = Then(v, q)
  BY DEF Positions
<1> HIDE DEF step
<1>4. PICK f : IsDescent(f, Steps, Positions, <<>>, step)
  BY <1>1, <1>2, DescentExists
<1>5. /\ f \in [Positions -> Positions] /\ f[<<>>] = <<>>
      /\ \A q \in Positions : q # <<>> => f[q] = step[<<f[Front(q)], q>>]
  BY <1>4 DEF IsDescent, Positions, Front
<1>6. ASSUME NEW q \in Positions, q # <<>>
      PROVE  f[q] = IF Last(q).index # 0 THEN q ELSE f[Front(q)]
  <2>1. f[Front(q)] \in Positions
    BY <1>5, <1>6, FrontOf
  <2>2. f[q] = Then(f[Front(q)], q)
    BY <1>3, <1>5, <1>6, <2>1
  <2> QED BY <1>6, <2>2
<1>7. Is(f)
  BY <1>5, <1>6
<1>8. Is(ItemOf)
  <2>1. ItemOf = CHOOSE g : Is(g)
    BY DEF ItemOf
  <2> HIDE DEF Is
  <2> QED BY <1>7, <2>1
<1>9. ItemOf[<<>>] = <<>>
  BY <1>1, <1>8
<1>10. \A p \in Positions : p # <<>> =>
         ItemOf[p] = IF Last(p).index # 0 THEN p ELSE ItemOf[Front(p)]
  BY <1>8
<1>11. ItemOf \in [Positions -> Positions]
  <2> DEFINE F == {p \in Positions : ItemOf[p] \in Positions}
  <2>1. <<>> \in F
    BY <1>1, <1>9
  <2>2. \A p \in Positions : p # <<>> /\ Front(p) \in F => p \in F
    BY <1>10
  <2> HIDE DEF F
  <2>3. Positions \subseteq F
    BY <2>1, <2>2, PositionInduction
  <2>4. \A p \in Positions : ItemOf[p] \in Positions
    BY <2>3 DEF F
  <2>5. ItemOf = [p \in Positions |-> ItemOf[p]]
    BY <1>8
  <2> QED BY <2>4, <2>5
<1> QED BY <1>9, <1>10, <1>11

\* A listing goes on number by number.
LEMMA ListingIs ==
  ASSUME NEW S, NEW m \in Nat
  PROVE  /\ Listing(S, m) \in [0 .. m -> Seq(Nat)]
         /\ Listing(S, m)[0] = <<>>
         /\ \A n \in 1 .. m : Listing(S, m)[n] =
              IF n \in S THEN Append(Listing(S, m)[n - 1], n) ELSE Listing(S, m)[n - 1]
<1> DEFINE Then(n, v) == IF n \in S THEN Append(v, n) ELSE v
           step  == [nv \in (1 .. m) \X Seq(Nat) |-> Then(nv[1], nv[2])]
           Is(f) == f = [n \in 0 .. m |-> IF n = 0 THEN <<>>
                                          ELSE IF n \in S THEN Append(f[n - 1], n)
                                          ELSE f[n - 1]]
<1>1. <<>> \in Seq(Nat)
  OBVIOUS
<1>2. step \in [(1 .. m) \X Seq(Nat) -> Seq(Nat)]
  <2> SUFFICES ASSUME NEW n \in 1 .. m, NEW v \in Seq(Nat) PROVE Then(n, v) \in Seq(Nat)
    OBVIOUS
  <2>1. n \in Nat
    OBVIOUS
  <2> QED BY <2>1, AppendIn
<1>3. \A n \in 1 .. m, v \in Seq(Nat) : step[<<n, v>>] = Then(n, v)
  OBVIOUS
<1> HIDE DEF step
<1>4. PICK f : IsRecursive(f, m, Seq(Nat), <<>>, step)
  BY <1>1, <1>2, RecursionExists
<1>5. /\ f \in [0 .. m -> Seq(Nat)] /\ f[0] = <<>>
      /\ \A n \in 1 .. m : f[n] = step[<<n, f[n - 1]>>]
  BY <1>4 DEF IsRecursive
<1>6. ASSUME NEW n \in 1 .. m PROVE f[n] = Then(n, f[n - 1])
  <2>1. f[n - 1] \in Seq(Nat)
    <3>1. n - 1 \in 0 .. m
      OBVIOUS
    <3> QED BY <1>5, <3>1
  <2> QED BY <1>3, <1>5, <2>1
<1>7. Is(f)
  <2>1. ASSUME NEW n \in 0 .. m
        PROVE  f[n] = IF n = 0 THEN <<>> ELSE Then(n, f[n - 1])
    <3>1. CASE n = 0
      BY <1>5, <3>1
    <3>2. CASE n # 0
      <4>1. n \in 1 .. m
        BY <3>2
      <4> QED BY <1>6, <3>2, <4>1
    <3> QED BY <3>1, <3>2
  <2> QED BY <1>5, <2>1
<1>8. Is(Listing(S, m))
  <2>1. Listing(S, m) = CHOOSE g : Is(g)
    BY DEF Listing
  <2> HIDE DEF Is
  <2> QED BY <1>7, <2>1
<1> DEFINE l == Listing(S, m)
<1>9. Is(l)
  BY <1>8
<1> HIDE DEF l
<1>10. l[0] = <<>> /\ \A n \in 1 .. m : l[n] = Then(n, l[n - 1])
  <2>1. 0 \in 0 .. m /\ \A n \in 1 .. m : n \in 0 .. m /\ n # 0
    OBVIOUS
  <2> QED BY <1>9, <2>1
<1>11. l \in [0 .. m -> Seq(Nat)]
  <2> DEFINE F == {n \in Nat : n <= m => l[n] \in Seq(Nat)}
  <2>1. 0 \in F
    BY <1>1, <1>10
  <2>2. ASSUME NEW n \in Nat, n \in F PROVE n + 1 \in F
    <3> SUFFICES ASSUME n + 1 <= m PROVE l[n + 1] \in Seq(Nat)
      OBVIOUS
    <3>1. n + 1 \in 1 .. m /\ (n + 1) - 1 = n /\ n <= m
      OBVIOUS
    <3>2. l[n + 1] = Then(n + 1, l[n]) /\ l[n] \in Seq(Nat)
      BY <1>10, <2>2, <3>1
    <3> QED BY <3>2, AppendIn
  <2> HIDE DEF F
  <2>3. Nat \subseteq F
    BY <2>1, <2>2, NatSetInduction
  <2>4. \A n \in 0 .. m : l[n] \in Seq(Nat)
    BY <2>3 DEF F
  <2>5. l = [n \in 0 .. m |-> l[n]]
    BY <1>9
  <2> QED BY <2>4, <2>5
<1> QED BY <1>10, <1>11 DEF l

-----------------------------------------------------------------------------
\* Bodies: what stands at a position stands on what its prefixes lead to.

\* Items and fields are steps, and are told apart by their index.
LEMMA StepsAre ==
  /\ \A i \in Nat : Item(i) \in Steps /\ Item(i).index = i
  /\ \A k \in Texts : Field(k) \in Steps /\ Field(k).index = 0 /\ Field(k).key = k
  /\ \A x \in Steps : x.index \in Nat /\ x.key \in Texts
<1>1. \A i \in Nat : Item(i) \in Steps /\ Item(i).index = i
  BY BodiesAssumption DEF Item, Steps
<1>2. \A k \in Texts : Field(k) \in Steps /\ Field(k).index = 0 /\ Field(k).key = k
  BY DEF Field, Steps
<1>3. \A x \in Steps : x.index \in Nat /\ x.key \in Texts
  BY DEF Steps
<1> QED BY <1>1, <1>2, <1>3

\* What stands in a body: its value, its items, and what it stands in.
LEMMA BodyAt ==
  ASSUME NEW t, IsBody(t), NEW p \in DOMAIN t
  PROVE  /\ p \in Positions /\ t[p] \in Values
         /\ t[p].kind = "array" => \A i \in 1 .. t[p].size : Append(p, Item(i)) \in DOMAIN t
         /\ p # <<>> => /\ Front(p) \in DOMAIN t /\ Front(p) \in Positions
                        /\ \/ t[Front(p)].kind = "object" /\ Last(p).index = 0
                           \/ /\ t[Front(p)].kind = "array"
                              /\ \E i \in 1 .. t[Front(p)].size : Last(p) = Item(i)
BY FrontOf DEF IsBody

\* A body holds, with a position, all that lead to it.
LEMMA BodyPrefix ==
  ASSUME NEW t, IsBody(t), NEW p \in DOMAIN t, NEW q \in Positions, IsPrefix(q, p)
  PROVE  q \in DOMAIN t
<1> DEFINE F == {r \in Positions : r \in DOMAIN t /\ IsPrefix(q, r) => q \in DOMAIN t}
<1>1. <<>> \in F
  <2>1. <<>> \in Positions
    BY DEF Positions
  <2> QED BY <2>1, PrefixFacts
<1>2. ASSUME NEW r \in Positions, r # <<>>, Front(r) \in F PROVE r \in F
  <2> SUFFICES ASSUME r \in DOMAIN t, IsPrefix(q, r), q # r PROVE q \in DOMAIN t
    BY <1>2
  <2>1. IsPrefix(q, Front(r))
    BY <1>2, PrefixOfFront
  <2>2. Front(r) \in DOMAIN t
    BY <1>2, BodyAt
  <2> QED BY <1>2, <2>1, <2>2
<1> HIDE DEF F
<1>3. p \in F
  BY <1>1, <1>2, PositionInduction, BodyAt
<1> QED BY <1>3 DEF F

\* From a position of a body towards one below it, the next one is there.
LEMMA BodyStepTowards ==
  ASSUME NEW t, IsBody(t), NEW q \in Positions, NEW p \in DOMAIN t, IsPrefix(q, p), p # q
  PROVE  \E r \in DOMAIN t : r # <<>> /\ Front(r) = q /\ IsPrefix(r, p)
<1>1. p \in Positions
  BY BodyAt
<1>2. PICK r \in Positions : r # <<>> /\ Front(r) = q /\ IsPrefix(r, p)
  BY <1>1, StepTowards
<1>3. r \in DOMAIN t
  BY <1>2, BodyPrefix
<1> QED BY <1>2, <1>3

\* A value with nothing inside: the drift puts no others into a body.
IsLeaf(v) == v.kind \notin {"object", "array"} \/ (v.kind = "array" /\ v.size = 0)

\* Nothing lies below such a value.
LEMMA NothingBelowLeaf ==
  ASSUME NEW t, IsBody(t), NEW q \in DOMAIN t, IsLeaf(t[q]),
         NEW p \in DOMAIN t, IsPrefix(q, p)
  PROVE  p = q
<1> SUFFICES ASSUME p # q PROVE FALSE
  OBVIOUS
<1>1. q \in Positions
  BY BodyAt
<1>2. PICK r \in DOMAIN t : r # <<>> /\ Front(r) = q /\ IsPrefix(r, p)
  BY <1>1, BodyStepTowards
<1>3. \/ t[q].kind = "object"
      \/ t[q].kind = "array" /\ \E i \in 1 .. t[q].size : Last(r) = Item(i)
  BY <1>2, BodyAt
<1> QED BY <1>3 DEF IsLeaf

\* Where a value may be put: in the place of one, or under an object.
MayStand(t, at) ==
  /\ at \in Positions
  /\ \/ at \in DOMAIN t
     \/ /\ at # <<>> /\ Front(at) \in DOMAIN t
        /\ t[Front(at)].kind = "object" /\ Last(at).index = 0

\* What a body u has become of t.
HasPut(u, t, at, v) ==
  /\ IsBody(u)
  /\ DOMAIN u = (DOMAIN t \ Below(t, at)) \cup {at}
  /\ u[at] = v
  /\ \A p \in DOMAIN u : p # at => p \in DOMAIN t /\ u[p] = t[p]
  /\ \A p \in DOMAIN t : ~IsPrefix(at, p) => p \in DOMAIN u

\* What a body u has left of t.
HasLost(u, t, at) ==
  /\ IsBody(u)
  /\ DOMAIN u = DOMAIN t \ Below(t, at)
  /\ \A p \in DOMAIN u : p \in DOMAIN t /\ u[p] = t[p]
  /\ at \notin DOMAIN u

\* A value that is put into a body replaces what lay there, and no more.
LEMMA PutBody ==
  ASSUME NEW t, IsBody(t), NEW at, MayStand(t, at), NEW v \in Values, IsLeaf(v)
  PROVE  HasPut(Put(t, at, v), t, at, v)
<1> DEFINE u == Put(t, at, v)
<1>1. /\ DOMAIN u = (DOMAIN t \ Below(t, at)) \cup {at}
      /\ u[at] = v
      /\ \A p \in DOMAIN u : p # at => p \in DOMAIN t /\ u[p] = t[p] /\ ~IsPrefix(at, p)
      /\ \A p \in DOMAIN t : ~IsPrefix(at, p) => p \in DOMAIN u
  BY DEF Put, Below
<1>u. u = [p \in DOMAIN u |-> u[p]]
  BY DEF Put
<1> HIDE DEF u
<1>2. at \in Positions /\ IsPrefix(at, at)
  BY PrefixFacts DEF MayStand
<1>3. IsFiniteSet(DOMAIN u)
  <2>1. IsFiniteSet(DOMAIN t \ Below(t, at))
    BY FS_Subset DEF IsBody
  <2> QED BY <1>1, <2>1, FS_AddElement
<1>4. DOMAIN u \subseteq Positions
  BY <1>1, <1>2 DEF IsBody
<1>5. <<>> \in DOMAIN u
  <2>1. CASE at = <<>>
    BY <1>1, <2>1
  <2>2. CASE at # <<>>
    BY <1>1, <1>2, <2>2, PrefixFacts DEF IsBody
  <2> QED BY <2>1, <2>2
<1>6. ASSUME NEW p \in DOMAIN u, u[p].kind = "array", NEW i \in 1 .. u[p].size
      PROVE  Append(p, Item(i)) \in DOMAIN u
  <2>1. p # at
    BY <1>1, <1>6 DEF IsLeaf
  <2>2. p \in DOMAIN t /\ u[p] = t[p] /\ ~IsPrefix(at, p) /\ p \in Positions
    BY <1>1, <1>4, <2>1
  <2>3. Append(p, Item(i)) \in DOMAIN t
    BY <1>6, <2>2, BodyAt
  <2> DEFINE q == Append(p, Item(i))
  <2>4. q \in Positions /\ q # <<>> /\ Front(q) = p
    <3>1. t[p] \in Values
      BY <2>2, BodyAt
    <3>2. Item(i) \in Steps
      <4>1. t[p].size \in Nat
        BY <3>1 DEF Values
      <4> QED BY <2>2, <4>1, StepsAre
    <3> QED BY <2>2, <3>2, AppendTo
  <2> HIDE DEF q
  <2>5. CASE q = at
    BY <1>1, <2>5 DEF q
  <2>6. CASE q # at
    <3>1. ~IsPrefix(at, q)
      BY <1>2, <2>2, <2>4, <2>6, PrefixOfFront
    <3> QED BY <1>1, <2>3, <3>1 DEF q
  <2> QED BY <2>5, <2>6
<1>7. ASSUME NEW p \in DOMAIN u, p # <<>>
      PROVE  /\ Front(p) \in DOMAIN u
             /\ \/ u[Front(p)].kind = "object" /\ Last(p).index = 0
                \/ /\ u[Front(p)].kind = "array"
                   /\ \E i \in 1 .. u[Front(p)].size : Last(p) = Item(i)
  <2>1. /\ Front(p) \in DOMAIN t /\ Front(p) \in Positions
        /\ \/ t[Front(p)].kind = "object" /\ Last(p).index = 0
           \/ /\ t[Front(p)].kind = "array"
              /\ \E i \in 1 .. t[Front(p)].size : Last(p) = Item(i)
    <3>1. CASE p \in DOMAIN t
      BY <1>7, <3>1, BodyAt
    <3>2. CASE p \notin DOMAIN t
      <4>1. p = at
        BY <1>1, <3>2
      <4> QED BY <1>7, <3>2, <4>1, FrontOf DEF MayStand
    <3> QED BY <3>1, <3>2
  <2>2. ~IsPrefix(at, Front(p))
    <3>1. CASE p = at
      BY <1>2, <1>7, <2>1, <3>1, FrontOf, PrefixFacts
    <3>2. CASE p # at
      BY <1>1, <1>2, <1>4, <1>7, <3>2, PrefixOfFront
    <3> QED BY <3>1, <3>2
  <2>3. Front(p) # at
    BY <1>2, <2>2
  <2> QED BY <1>1, <2>1, <2>2, <2>3
<1>8. \A p \in DOMAIN u : u[p] \in Values
  BY <1>1, BodyAt
<1>f. u \in [DOMAIN u -> Values]
  BY <1>8, <1>u
<1>9. IsBody(u)
  BY <1>3, <1>4, <1>5, <1>6, <1>7, <1>f DEF IsBody
<1>10. HasPut(u, t, at, v)
  BY <1>1, <1>9 DEF HasPut
<1> QED BY <1>10 DEF u

\* A field that is taken out of a body goes with all below it, and no more.
LEMMA WithoutBody ==
  ASSUME NEW t, IsBody(t), NEW at \in DOMAIN t, at # <<>>, t[Front(at)].kind = "object"
  PROVE  HasLost(Without(t, at), t, at)
<1> DEFINE u == Without(t, at)
<1>1. /\ DOMAIN u = DOMAIN t \ Below(t, at)
      /\ \A p \in DOMAIN u : p \in DOMAIN t /\ u[p] = t[p] /\ ~IsPrefix(at, p)
      /\ \A p \in DOMAIN t : ~IsPrefix(at, p) => p \in DOMAIN u
  BY DEF Without, Below
<1>u. u = [p \in DOMAIN u |-> u[p]]
  BY DEF Without
<1> HIDE DEF u
<1>2. at \in Positions /\ IsPrefix(at, at)
  BY BodyAt, PrefixFacts
<1>3. IsFiniteSet(DOMAIN u)
  BY <1>1, FS_Subset DEF IsBody
<1>4. DOMAIN u \subseteq Positions
  BY <1>1 DEF IsBody
<1>5. <<>> \in DOMAIN u
  BY <1>1, <1>2, PrefixFacts DEF IsBody
<1>6. ASSUME NEW p \in DOMAIN u, u[p].kind = "array", NEW i \in 1 .. u[p].size
      PROVE  Append(p, Item(i)) \in DOMAIN u
  <2>2. p \in DOMAIN t /\ u[p] = t[p] /\ ~IsPrefix(at, p) /\ p \in Positions
    BY <1>1, <1>4
  <2> DEFINE q == Append(p, Item(i))
  <2>3. q \in DOMAIN t
    BY <1>6, <2>2, BodyAt
  <2>4. q \in Positions /\ q # <<>> /\ Front(q) = p
    <3>1. t[p] \in Values
      BY <2>2, BodyAt
    <3>2. Item(i) \in Steps
      <4>1. t[p].size \in Nat
        BY <3>1 DEF Values
      <4> QED BY <2>2, <4>1, StepsAre
    <3> QED BY <2>2, <3>2, AppendTo
  <2> HIDE DEF q
  <2>5. q # at
    BY <1>6, <2>2, <2>4
  <2>6. ~IsPrefix(at, q)
    BY <1>2, <2>2, <2>4, <2>5, PrefixOfFront
  <2> QED BY <1>1, <2>3, <2>6 DEF q
<1>7. ASSUME NEW p \in DOMAIN u, p # <<>>
      PROVE  /\ Front(p) \in DOMAIN u
             /\ \/ u[Front(p)].kind = "object" /\ Last(p).index = 0
                \/ /\ u[Front(p)].kind = "array"
                   /\ \E i \in 1 .. u[Front(p)].size : Last(p) = Item(i)
  <2>1. /\ Front(p) \in DOMAIN t /\ Front(p) \in Positions
        /\ \/ t[Front(p)].kind = "object" /\ Last(p).index = 0
           \/ /\ t[Front(p)].kind = "array"
              /\ \E i \in 1 .. t[Front(p)].size : Last(p) = Item(i)
    BY <1>1, <1>7, BodyAt
  <2>2. ~IsPrefix(at, Front(p))
    BY <1>1, <1>2, <1>4, <1>7, PrefixOfFront
  <2> QED BY <1>1, <2>1, <2>2
<1>8. \A p \in DOMAIN u : u[p] \in Values
  BY <1>1, BodyAt
<1>f. u \in [DOMAIN u -> Values]
  BY <1>8, <1>u
<1>9. IsBody(u)
  BY <1>3, <1>4, <1>5, <1>6, <1>7, <1>f DEF IsBody
<1>10. HasLost(u, t, at)
  BY <1>1, <1>2, <1>9 DEF HasLost
<1> QED BY <1>10 DEF u

-----------------------------------------------------------------------------
\* Schemas: what lies under an open one is open.

\* Below what a schema leaves open, everything is open.
LEMMA BelowUnknown ==
  ASSUME NEW e \in Endpoints, NEW p \in Positions, Declared(e)[p] = Unknown,
         NEW q \in Positions, IsPrefix(p, q)
  PROVE  Declared(e)[q] = Unknown
<1> DEFINE F == {r \in Positions : IsPrefix(p, r) => Declared(e)[r] = Unknown}
<1>1. <<>> \in F
  <2>1. <<>> \in Positions
    BY DEF Positions
  <2> QED BY <2>1, PrefixFacts
<1>2. ASSUME NEW r \in Positions, r # <<>>, Front(r) \in F PROVE r \in F
  <2> SUFFICES ASSUME IsPrefix(p, r), p # r PROVE Declared(e)[r] = Unknown
    BY <1>2
  <2>1. Declared(e)[Front(r)] = Unknown
    BY <1>2, PrefixOfFront
  <2>2. Declared(e)[r] = Inner(Unknown, Last(r))
    BY <1>2, <2>1, DeclaredIs
  <2> QED BY <2>2 DEF Inner, Unknown, Plain
<1> HIDE DEF F
<1>3. q \in F
  BY <1>1, <1>2, PositionInduction
<1> QED BY <1>3 DEF F

-----------------------------------------------------------------------------
\* The drift: what a deviation did to the body, and to nothing else of it.

\* A value that no leniency covers.
IsMisfit(e, p, v) ==
  \/ Unmatched(e, p)
  \/ /\ Declared(e)[p] \notin {Unknown, Never}
     /\ v.kind \notin KindsOf(Declared(e)[p])
     /\ v.kind = "null" => ~Declared(e)[p].nullable /\ ~Named(e, p)

\* The records that the drift keeps of what it did.
Deviation == [kind : {"stripped", "extra", "widened", "null", "absent", "wrong"},
              at : Positions, text : UnlistedMembers \cup {""}]

\* The deviation d as it shows in the body t.
Shows(e, t, d) ==
  /\ d \in Deviation
  /\ d.kind = "absent" => d.at \notin DOMAIN t
  /\ d.kind # "absent" => d.at \in DOMAIN t /\ IsLeaf(t[d.at]) /\ t[d.at].size = 0
  /\ d.kind \notin {"absent", "wrong"} => ~Unmatched(e, d.at)
  /\ d.kind = "stripped" => Declared(e)[d.at] = Never /\ d.text = ""
  /\ d.kind = "extra" => Declared(e)[d.at] = Unknown
  /\ d.kind = "widened" => /\ Declared(e)[d.at].type = "enum"
                           /\ t[d.at].kind = "string" /\ t[d.at].text = d.text
                           /\ d.text \notin Declared(e)[d.at].members
  /\ d.kind = "null" => Named(e, d.at) /\ t[d.at].kind = "null"
  /\ d.kind = "wrong" => IsMisfit(e, d.at, t[d.at])

\* The body without the keys that are to be stripped.
Promise(t, ds) ==
  [p \in {q \in DOMAIN t : \A d \in ds : d.kind = "stripped" => d.at # q} |-> t[p]]

\* The body is a fitting one but for its deviations, one at a place; what was
\* promised is the body without the keys that are to be stripped.
Drifted(e, t, ds, pr) ==
  /\ IsBody(t)
  /\ \A d \in ds : Shows(e, t, d)
  /\ \A c, d \in ds : c.at = d.at => c = d
  /\ \A p \in DOMAIN t : (\A d \in ds : d.at # p) =>
       Fits(Declared(e)[p], t[p]) /\ ~Unmatched(e, p)
  /\ pr = Promise(t, ds)

\* The promise has the body's values, at the positions that are not stripped.
LEMMA PromiseIs ==
  ASSUME NEW t, NEW ds
  PROVE  /\ DOMAIN Promise(t, ds) = {q \in DOMAIN t : \A d \in ds : d.kind = "stripped" => d.at # q}
         /\ \A p \in DOMAIN Promise(t, ds) : Promise(t, ds)[p] = t[p]
         /\ Promise(t, ds) = [p \in DOMAIN Promise(t, ds) |-> Promise(t, ds)[p]]
BY DEF Promise

\* A deviation goes on showing while its own place stays as it was.
LEMMA ShowsStill ==
  ASSUME NEW e, NEW t, NEW u, NEW d, Shows(e, t, d),
         d.at \in DOMAIN t <=> d.at \in DOMAIN u,
         d.at \in DOMAIN u => u[d.at] = t[d.at]
  PROVE  Shows(e, u, d)
BY DEF Shows

\* A value put where nothing has drifted is one more deviation.
LEMMA DriftPut ==
  ASSUME NEW e \in Endpoints, NEW t, NEW ds, NEW pr, Drifted(e, t, ds, pr),
         NEW at, MayStand(t, at), NEW v \in Values, IsLeaf(v),
         \A d \in ds : ~IsPrefix(at, d.at),
         NEW dev, dev.at = at, Shows(e, Put(t, at, v), dev),
         NEW qr, dev.kind = "stripped" => at \notin DOMAIN t /\ qr = pr,
         dev.kind # "stripped" => qr = Put(pr, at, v)
  PROVE  Drifted(e, Put(t, at, v), ds \cup {dev}, qr)
<1> DEFINE u == Put(t, at, v)
           es == ds \cup {dev}
<1>1. /\ IsBody(t) /\ \A d \in ds : Shows(e, t, d)
      /\ \A c, d \in ds : c.at = d.at => c = d
      /\ \A p \in DOMAIN t : (\A d \in ds : d.at # p) =>
           Fits(Declared(e)[p], t[p]) /\ ~Unmatched(e, p)
      /\ pr = Promise(t, ds)
  BY DEF Drifted
<1>2. /\ IsBody(u)
      /\ DOMAIN u = (DOMAIN t \ Below(t, at)) \cup {at}
      /\ u[at] = v
      /\ \A p \in DOMAIN u : p # at => p \in DOMAIN t /\ u[p] = t[p]
      /\ \A p \in DOMAIN t : ~IsPrefix(at, p) => p \in DOMAIN u
  <2>1. IsBody(t)
    BY <1>1
  <2>2. HasPut(u, t, at, v)
    BY <2>1, PutBody, Zenon
  <2> HIDE DEF u
  <2> QED BY <2>2 DEF HasPut
<1>3. at \in Positions /\ IsPrefix(at, at)
  BY PrefixFacts DEF MayStand
<1>4. Shows(e, u, dev)
  OBVIOUS
<1>u. u = [p \in (DOMAIN t \ Below(t, at)) \cup {at} |-> IF p = at THEN v ELSE t[p]]
  BY DEF Put
<1> HIDE DEF u
<1>5. ASSUME NEW d \in ds PROVE d.at # at /\ Shows(e, u, d)
  <2>1. d.at # at /\ ~IsPrefix(at, d.at)
    BY <1>3
  <2> QED BY <1>1, <1>2, <2>1, ShowsStill
<1>6. \A d \in es : Shows(e, u, d)
  BY <1>4, <1>5
<1>7. \A c, d \in es : c.at = d.at => c = d
  BY <1>1, <1>5
<1>8. \A p \in DOMAIN u : (\A d \in es : d.at # p) =>
        Fits(Declared(e)[p], u[p]) /\ ~Unmatched(e, p)
  BY <1>1, <1>2
<1>9. qr = Promise(u, es)
  <2> DEFINE old == {q \in DOMAIN t : \A d \in ds : d.kind = "stripped" => d.at # q}
             new == {q \in DOMAIN u : \A d \in es : d.kind = "stripped" => d.at # q}
  <2>1. pr = [p \in old |-> t[p]]
    BY <1>1 DEF Promise
  <2>2. Promise(u, es) = [p \in new |-> u[p]]
    BY DEF Promise
  <2>3. CASE dev.kind = "stripped"
    <3>1. Below(t, at) = {}
      <4>1. \A p \in DOMAIN t : ~IsPrefix(at, p)
        BY <1>1, <1>3, <2>3, BodyPrefix
      <4> QED BY <4>1 DEF Below
    <3>2. new = old
      BY <1>2, <1>5, <2>3, <3>1
    <3>3. \A p \in old : u[p] = t[p]
      BY <1>2, <2>3, <3>2
    <3> HIDE DEF old, new
    <3> QED BY <2>1, <2>2, <2>3, <3>2, <3>3
  <2>4. CASE dev.kind # "stripped"
    <3>1. new = (old \ Below(t, at)) \cup {at}
      BY <1>2, <1>5, <2>4
    <3>2. qr = [p \in (DOMAIN pr \ Below(pr, at)) \cup {at} |-> IF p = at THEN v ELSE pr[p]]
      BY <2>4 DEF Put
    <3>3. DOMAIN pr \ Below(pr, at) = old \ Below(t, at)
      BY <2>1 DEF Below
    <3>4. \A p \in new : u[p] = IF p = at THEN v ELSE t[p]
      BY <1>2
    <3>5. \A p \in new : p # at => pr[p] = t[p]
      <4>1. \A p \in new : p # at => p \in old
        BY <3>1
      <4> HIDE DEF old, new
      <4> QED BY <2>1, <4>1
    <3> HIDE DEF old, new
    <3>6. qr = [p \in new |-> IF p = at THEN v ELSE pr[p]]
      BY <3>1, <3>2, <3>3
    <3> QED BY <2>2, <3>4, <3>5, <3>6
  <2> QED BY <2>3, <2>4
<1> HIDE DEF es
<1>10. Drifted(e, u, es, qr)
  BY <1>2, <1>6, <1>7, <1>8, <1>9 DEF Drifted
<1> QED BY <1>10 DEF u, es

\* So is a field taken out there.
LEMMA DriftWithout ==
  ASSUME NEW e \in Endpoints, NEW t, NEW ds, NEW pr, Drifted(e, t, ds, pr),
         NEW at \in DOMAIN t, at # <<>>, t[Front(at)].kind = "object",
         \A d \in ds : ~IsPrefix(at, d.at),
         NEW dev \in Deviation, dev.at = at, dev.kind = "absent"
  PROVE  Drifted(e, Without(t, at), ds \cup {dev}, Without(pr, at))
<1> DEFINE u == Without(t, at)
           es == ds \cup {dev}
           qr == Without(pr, at)
<1>1. /\ IsBody(t) /\ \A d \in ds : Shows(e, t, d)
      /\ \A c, d \in ds : c.at = d.at => c = d
      /\ \A p \in DOMAIN t : (\A d \in ds : d.at # p) =>
           Fits(Declared(e)[p], t[p]) /\ ~Unmatched(e, p)
      /\ pr = Promise(t, ds)
  BY DEF Drifted
<1>2. /\ IsBody(u)
      /\ DOMAIN u = DOMAIN t \ Below(t, at)
      /\ \A p \in DOMAIN u : p \in DOMAIN t /\ u[p] = t[p]
      /\ at \notin DOMAIN u
  <2>1. IsBody(t)
    BY <1>1
  <2>2. HasLost(u, t, at)
    BY <2>1, WithoutBody, Zenon
  <2> HIDE DEF u
  <2> QED BY <2>2 DEF HasLost
<1>3. at \in Positions /\ IsPrefix(at, at)
  BY <1>1, BodyAt, PrefixFacts
<1>q. qr = [p \in DOMAIN pr \ Below(pr, at) |-> pr[p]]
  BY DEF Without
<1> HIDE DEF u, qr
<1>4. Shows(e, u, dev)
  BY <1>2 DEF Shows
<1>5. ASSUME NEW d \in ds PROVE d.at # at /\ Shows(e, u, d)
  <2>1. d.at # at /\ ~IsPrefix(at, d.at)
    BY <1>3
  <2>2. d.at \in DOMAIN t => d.at \in DOMAIN u
    BY <1>2, <2>1 DEF Below
  <2> QED BY <1>1, <1>2, <2>1, <2>2, ShowsStill
<1>6. \A d \in es : Shows(e, u, d)
  BY <1>4, <1>5
<1>7. \A c, d \in es : c.at = d.at => c = d
  BY <1>1, <1>5
<1>8. \A p \in DOMAIN u : (\A d \in es : d.at # p) =>
        Fits(Declared(e)[p], u[p]) /\ ~Unmatched(e, p)
  BY <1>1, <1>2
<1>9. qr = Promise(u, es)
  <2> DEFINE old == {q \in DOMAIN t : \A d \in ds : d.kind = "stripped" => d.at # q}
             new == {q \in DOMAIN u : \A d \in es : d.kind = "stripped" => d.at # q}
  <2>1. pr = [p \in old |-> t[p]]
    BY <1>1 DEF Promise
  <2>2. Promise(u, es) = [p \in new |-> u[p]]
    BY DEF Promise
  <2>3. new = old \ Below(t, at)
    BY <1>2
  <2>4. DOMAIN pr \ Below(pr, at) = old \ Below(t, at)
    BY <2>1 DEF Below
  <2>5. \A p \in new : u[p] = t[p] /\ pr[p] = t[p]
    <3>1. \A p \in new : p \in old /\ u[p] = t[p]
      BY <1>2, <2>3
    <3> HIDE DEF old, new
    <3> QED BY <2>1, <3>1
  <2> HIDE DEF old, new
  <2> QED BY <1>q, <2>2, <2>3, <2>4, <2>5
<1> HIDE DEF es
<1>10. Drifted(e, u, es, qr)
  BY <1>2, <1>6, <1>7, <1>8, <1>9 DEF Drifted
<1> QED BY <1>10 DEF u, es, qr

-----------------------------------------------------------------------------
\* The server's side of the state, in every step.

\* The server's side of the invariant: whatever the drift did to the body is on
\* record in deviations, at the place where it shows.
DriftInv ==
  /\ stage \in {"idle", "answering", "parsing", "cleaning", "validated"}
  /\ endpoint \in Endpoints
  /\ IsFiniteSet(deviations) /\ Cardinality(deviations) <= MaxDeviations
  /\ stage = "idle" => deviations = {}
  /\ stage # "idle" => Drifted(endpoint, body, deviations, promised)

\* The bounds are numbers.
LEMMA Limits == MaxDeviations \in Nat /\ MaxReportedDropErrors \in Nat
BY BodiesAssumption

\* The keys and members the drift uses are texts.
LEMMA Bounds ==
  /\ "" \in Texts /\ "undocumented" \in Texts
  /\ UndocumentedKeys \subseteq Texts /\ UnlistedMembers \subseteq Texts
BY BodiesAssumption

\* The values the drift puts have nothing inside.
LEMMA Misfitted ==
  /\ \A v \in Misfits \cup {NullValue, Undocumented} : v \in Values /\ IsLeaf(v) /\ v.size = 0
  /\ \A m \in UnlistedMembers : String(m) \in Values /\ IsLeaf(String(m)) /\ String(m).size = 0
                                /\ String(m).kind = "string" /\ String(m).text = m
  /\ NullValue.kind = "null" /\ Undocumented.kind = "string"
<1>1. NullValue \in Values /\ IsLeaf(NullValue) /\ NullValue.size = 0 /\ NullValue.kind = "null"
  BY Bounds DEF NullValue, Value, Values, IsLeaf
<1>2. /\ Undocumented \in Values /\ IsLeaf(Undocumented) /\ Undocumented.size = 0
      /\ Undocumented.kind = "string"
  BY Bounds DEF Undocumented, String, Value, Values, IsLeaf
<1>3. Number \in Values /\ IsLeaf(Number) /\ Number.size = 0
  BY Bounds DEF Number, Value, Values, IsLeaf
<1>4. Items(0) \in Values /\ IsLeaf(Items(0)) /\ Items(0).size = 0
  BY Bounds DEF Items, Value, Values, IsLeaf
<1>5. \A m \in UnlistedMembers : String(m) \in Values /\ IsLeaf(String(m)) /\ String(m).size = 0
                                 /\ String(m).kind = "string" /\ String(m).text = m
  BY Bounds DEF String, Value, Values, IsLeaf
<1> QED BY <1>1, <1>2, <1>3, <1>4, <1>5 DEF Misfits

\* A drift is one more deviation, at a place that had none.
LEMMA OneMore ==
  ASSUME DriftInv, stage = "answering", NEW kind, NEW at, NEW text, Drift(kind, at, text),
         Drifted(endpoint, body', deviations \cup {[kind |-> kind, at |-> at, text |-> text]},
                 promised')
  PROVE  DriftInv'
<1> DEFINE dev == [kind |-> kind, at |-> at, text |-> text]
<1>1. /\ Cardinality(deviations) < MaxDeviations
      /\ deviations' = deviations \cup {dev}
      /\ stage' = stage /\ endpoint' = endpoint
  BY DEF Drift
<1>2. IsFiniteSet(deviations) /\ endpoint \in Endpoints
  BY DEF DriftInv
<1> HIDE DEF dev
<1>3. /\ IsFiniteSet(deviations \cup {dev})
      /\ Cardinality(deviations \cup {dev}) <= Cardinality(deviations) + 1
  <2>1. Cardinality(deviations) \in Nat
    BY <1>2, FS_CardinalityType
  <2>2. /\ IsFiniteSet(deviations \cup {dev})
        /\ Cardinality(deviations \cup {dev}) =
             IF dev \in deviations THEN Cardinality(deviations) ELSE Cardinality(deviations) + 1
    BY <1>2, FS_AddElement
  <2> QED BY <2>1, <2>2
<1>4. Cardinality(deviations \cup {dev}) <= MaxDeviations
  <2>1. Cardinality(deviations) \in Nat /\ Cardinality(deviations \cup {dev}) \in Nat
    BY <1>2, <1>3, FS_CardinalityType
  <2> QED BY <1>1, <1>3, <2>1, Limits
<1>5. Drifted(endpoint', body', deviations', promised')
  BY <1>1 DEF dev
<1> QED BY <1>1, <1>2, <1>3, <1>4, <1>5 DEF DriftInv

\* A value that the body and the promise both take on is one more deviation.
LEMMA Becoming ==
  ASSUME DriftInv, stage = "answering", NEW kind, NEW at, NEW text, Drift(kind, at, text),
         NEW v \in Values, IsLeaf(v), MayStand(body, at), kind # "stripped", Becomes(at, v),
         Shows(endpoint, Put(body, at, v), [kind |-> kind, at |-> at, text |-> text])
  PROVE  DriftInv'
<1> DEFINE dev == [kind |-> kind, at |-> at, text |-> text]
<1>1. Drifted(endpoint, body, deviations, promised) /\ endpoint \in Endpoints
  BY DEF DriftInv
<1>2. \A d \in deviations : ~IsPrefix(at, d.at)
  BY DEF Drift, Untouched
<1>3. body' = Put(body, at, v) /\ promised' = Put(promised, at, v)
  BY DEF Becomes
<1>4. dev.at = at /\ dev.kind # "stripped" /\ Shows(endpoint, Put(body, at, v), dev)
  OBVIOUS
<1> HIDE DEF dev
<1>5. Drifted(endpoint, Put(body, at, v), deviations \cup {dev}, Put(promised, at, v))
  BY <1>1, <1>2, <1>4, DriftPut, Zenon
<1>6. Drifted(endpoint, body', deviations \cup {dev}, promised')
  BY <1>3, <1>5
<1> QED BY <1>6, OneMore DEF dev

\* A key under an object is a place where a value may be put.
LEMMA KeyOf ==
  ASSUME NEW t, IsBody(t), NEW p \in DOMAIN t, NEW k \in Texts
  PROVE  /\ Append(p, Field(k)) \in Positions /\ Append(p, Field(k)) # <<>>
         /\ Front(Append(p, Field(k))) = p /\ Last(Append(p, Field(k))) = Field(k)
         /\ t[p].kind = "object" => MayStand(t, Append(p, Field(k)))
<1>1. p \in Positions /\ Field(k) \in Steps /\ Field(k).index = 0
  BY BodyAt, StepsAre
<1> DEFINE at == Append(p, Field(k))
<1>2. at \in Positions /\ at # <<>> /\ Front(at) = p /\ Last(at) = Field(k)
  BY <1>1, AppendTo
<1> HIDE DEF at
<1>3. t[p].kind = "object" => MayStand(t, at)
  BY <1>1, <1>2 DEF MayStand
<1> QED BY <1>2, <1>3 DEF at

\* What Put puts is there.
LEMMA PutAt ==
  ASSUME NEW t, NEW at, NEW v
  PROVE  at \in DOMAIN Put(t, at, v) /\ Put(t, at, v)[at] = v
BY DEF Put

\* A key the schema does not list keeps the server's side in order: stripped
\* where there is no catchall, part of the promise where there is one.
LEMMA UndocumentedKeyDrifts ==
  ASSUME DriftInv, stage = "answering", NEW p \in DOMAIN body, NEW k \in UndocumentedKeys,
         UndocumentedKey(p, k)
  PROVE  DriftInv'
<1> DEFINE s  == Declared(endpoint)[p]
           at == Append(p, Field(k))
<1>1. /\ Drifted(endpoint, body, deviations, promised) /\ endpoint \in Endpoints
      /\ IsBody(body)
  BY DEF DriftInv, Drifted
<1>2. /\ s.type = "object" /\ body[p].kind = "object" /\ k \notin DOMAIN s.shape
      /\ \/ /\ s.catchall = Never
            /\ Drift("stripped", at, "")
            /\ body' = Put(body, at, Undocumented)
            /\ UNCHANGED promised
         \/ /\ s.catchall # Never
            /\ Drift("extra", at, "")
            /\ Becomes(at, Undocumented)
  BY DEF UndocumentedKey
<1>3. k \in Texts /\ Field(k).index = 0 /\ Field(k).key = k /\ p \in Positions
  BY <1>1, BodiesAssumption, StepsAre, BodyAt
<1>4. /\ at \in Positions /\ at # <<>> /\ Front(at) = p /\ Last(at) = Field(k)
      /\ MayStand(body, at)
  BY <1>1, <1>2, <1>3, KeyOf
<1>5. s \in Schemas
  BY <1>1, <1>3, DeclaredIs
<1>6. s.catchall \in {Unknown, Never}
  BY <1>2, <1>5, Nodes DEF IsNode
<1>7. Declared(endpoint)[at] = s.catchall
  <2>1. Declared(endpoint)[at] = Inner(s, Field(k))
    BY <1>1, <1>4, DeclaredIs
  <2> QED BY <1>2, <1>3, <2>1 DEF Inner
<1>8. ~Unmatched(endpoint, at)
  BY <1>2, <1>4 DEF Unmatched
<1>9. Undocumented \in Values /\ IsLeaf(Undocumented) /\ Undocumented.size = 0
  BY Misfitted
<1> DEFINE u == Put(body, at, Undocumented)
<1>10. at \in DOMAIN u /\ u[at] = Undocumented
  BY PutAt
<1> HIDE DEF s, at, u
<1>11. CASE s.catchall = Never /\ Drift("stripped", at, "") /\ body' = u /\ UNCHANGED promised
  <2> DEFINE dev == [kind |-> "stripped", at |-> at, text |-> ""]
  <2>1. dev.at = at /\ dev.kind = "stripped" /\ dev \in Deviation /\ dev.text = ""
    BY <1>4 DEF Deviation
  <2> HIDE DEF dev
  <2>2. Shows(endpoint, u, dev)
    BY <1>7, <1>8, <1>9, <1>10, <1>11, <2>1 DEF Shows
  <2>3. \A d \in deviations : ~IsPrefix(at, d.at)
    BY <1>11 DEF Drift, Untouched
  <2>4. at \notin DOMAIN body
    <3> SUFFICES ASSUME at \in DOMAIN body PROVE FALSE
      OBVIOUS
    <3>1. \A d \in deviations : d.at # at
      BY <1>4, <2>3, PrefixFacts
    <3>2. Fits(Never, body[at])
      BY <1>1, <1>7, <1>11, <3>1 DEF Drifted
    <3>3. body[at].kind # "never"
      BY <1>1, BodyAt DEF Values
    <3> QED BY <3>2, <3>3 DEF Fits, Never, Plain, KindsOf, KindOf
  <2>5. Drifted(endpoint, u, deviations \cup {dev}, promised)
    <3>1. Shows(endpoint, Put(body, at, Undocumented), dev)
      BY <2>2 DEF u
    <3>2. Drifted(endpoint, Put(body, at, Undocumented), deviations \cup {dev}, promised)
      BY <1>1, <1>4, <1>9, <2>1, <2>3, <2>4, <3>1, DriftPut
    <3> QED BY <3>2 DEF u
  <2>6. Drifted(endpoint, body', deviations \cup {dev}, promised')
    BY <1>11, <2>5
  <2> QED BY <1>11, <2>6, OneMore DEF dev
<1>12. CASE s.catchall # Never /\ Drift("extra", at, "") /\ Becomes(at, Undocumented)
  <2> DEFINE dev == [kind |-> "extra", at |-> at, text |-> ""]
  <2>1. dev.at = at /\ dev.kind = "extra" /\ dev \in Deviation /\ dev.text = ""
    BY <1>4 DEF Deviation
  <2> HIDE DEF dev
  <2>2. Shows(endpoint, u, dev)
    BY <1>6, <1>7, <1>8, <1>9, <1>10, <1>12, <2>1 DEF Shows
  <2> QED BY <1>4, <1>9, <1>12, <2>2, Becoming DEF dev, u
<1> QED BY <1>2, <1>11, <1>12 DEF s, at, u

\* A record's key outside its pattern keeps it in order.
LEMMA UnmatchedKeyDrifts ==
  ASSUME DriftInv, stage = "answering", NEW p \in DOMAIN body, NEW k \in UndocumentedKeys,
         UnmatchedKey(p, k)
  PROVE  DriftInv'
<1> DEFINE at == Append(p, Field(k))
           u  == Put(body, at, Undocumented)
           dev == [kind |-> "wrong", at |-> at, text |-> ""]
<1>1. IsBody(body)
  BY DEF DriftInv, Drifted
<1>2. /\ body[p].kind = "object" /\ Unmatched(endpoint, at)
      /\ Drift("wrong", at, "") /\ Becomes(at, Undocumented)
  BY DEF UnmatchedKey
<1>3. k \in Texts
  BY BodiesAssumption
<1>4. at \in Positions /\ MayStand(body, at)
  BY <1>1, <1>2, <1>3, KeyOf
<1>5. Undocumented \in Values /\ IsLeaf(Undocumented) /\ Undocumented.size = 0
  BY Misfitted
<1>6. at \in DOMAIN u /\ u[at] = Undocumented
  BY PutAt
<1> HIDE DEF at, u
<1>7. dev.at = at /\ dev.kind = "wrong" /\ dev \in Deviation
  BY <1>4 DEF Deviation
<1> HIDE DEF dev
<1>8. Shows(endpoint, u, dev)
  BY <1>2, <1>5, <1>6, <1>7 DEF Shows, IsMisfit
<1> QED BY <1>2, <1>4, <1>5, <1>8, Becoming DEF u, dev

\* An unlisted member, a null and a value of the wrong kind keep it in order.
LEMMA ValueDrifts ==
  ASSUME DriftInv, stage = "answering", NEW p \in DOMAIN body,
         (\E m \in UnlistedMembers : UnlistedMember(p, m)) \/ NullField(p)
           \/ \E v \in Misfits : WrongValue(p, v)
  PROVE  DriftInv'
<1>1. /\ IsBody(body) /\ endpoint \in Endpoints
      /\ \A q \in DOMAIN body : (\A d \in deviations : d.at # q) => ~Unmatched(endpoint, q)
  BY DEF DriftInv, Drifted
<1>2. p \in Positions /\ MayStand(body, p)
  BY <1>1, BodyAt DEF MayStand
<1>3. ASSUME NEW kind, NEW text, Drift(kind, p, text) PROVE ~Unmatched(endpoint, p)
  <2>1. \A d \in deviations : d.at # p
    BY <1>2, <1>3, PrefixFacts DEF Drift, Untouched
  <2> QED BY <1>1, <2>1
<1>4. ASSUME NEW m \in UnlistedMembers, UnlistedMember(p, m) PROVE DriftInv'
  <2> DEFINE v == String(m)
             u == Put(body, p, v)
             dev == [kind |-> "widened", at |-> p, text |-> m]
  <2>1. /\ Declared(endpoint)[p].type = "enum" /\ m \notin Declared(endpoint)[p].members
        /\ Drift("widened", p, m) /\ Becomes(p, v)
    BY <1>4 DEF UnlistedMember
  <2>2. v \in Values /\ IsLeaf(v) /\ v.size = 0 /\ v.kind = "string" /\ v.text = m
    BY Misfitted
  <2> HIDE DEF v
  <2>3. p \in DOMAIN u /\ u[p] = v
    BY PutAt
  <2> HIDE DEF u
  <2>4. dev.at = p /\ dev.kind = "widened" /\ dev.text = m /\ dev \in Deviation
    BY <1>2 DEF Deviation
  <2> HIDE DEF dev
  <2>5. ~Unmatched(endpoint, p)
    BY <1>3, <2>1
  <2>6. Shows(endpoint, u, dev)
    BY <2>1, <2>2, <2>3, <2>4, <2>5 DEF Shows
  <2> QED BY <1>2, <2>1, <2>2, <2>6, Becoming DEF u, dev
<1>5. ASSUME NullField(p) PROVE DriftInv'
  <2> DEFINE v == NullValue
             u == Put(body, p, v)
             dev == [kind |-> "null", at |-> p, text |-> ""]
  <2>1. Named(endpoint, p) /\ Drift("null", p, "") /\ Becomes(p, v)
    BY <1>5 DEF NullField
  <2>2. v \in Values /\ IsLeaf(v) /\ v.size = 0 /\ v.kind = "null"
    BY Misfitted
  <2> HIDE DEF v
  <2>3. p \in DOMAIN u /\ u[p] = v
    BY PutAt
  <2> HIDE DEF u
  <2>4. dev.at = p /\ dev.kind = "null" /\ dev \in Deviation
    BY <1>2 DEF Deviation
  <2> HIDE DEF dev
  <2>5. ~Unmatched(endpoint, p)
    BY <1>3, <2>1
  <2>6. Shows(endpoint, u, dev)
    BY <2>1, <2>2, <2>3, <2>4, <2>5 DEF Shows
  <2> QED BY <1>2, <2>1, <2>2, <2>6, Becoming DEF u, dev
<1>6. ASSUME NEW v \in Misfits, WrongValue(p, v) PROVE DriftInv'
  <2> DEFINE u == Put(body, p, v)
             dev == [kind |-> "wrong", at |-> p, text |-> ""]
  <2>1. /\ Declared(endpoint)[p] \notin {Unknown, Never}
        /\ v.kind \notin KindsOf(Declared(endpoint)[p])
        /\ v.kind = "null" => ~Declared(endpoint)[p].nullable /\ ~Named(endpoint, p)
        /\ Drift("wrong", p, "") /\ Becomes(p, v)
    BY <1>6 DEF WrongValue
  <2>2. v \in Values /\ IsLeaf(v) /\ v.size = 0
    BY Misfitted
  <2>3. p \in DOMAIN u /\ u[p] = v
    BY PutAt
  <2> HIDE DEF u
  <2>4. dev.at = p /\ dev.kind = "wrong" /\ dev \in Deviation
    BY <1>2 DEF Deviation
  <2> HIDE DEF dev
  <2>5. IsMisfit(endpoint, p, u[p])
    BY <2>1, <2>3 DEF IsMisfit
  <2>6. Shows(endpoint, u, dev)
    BY <2>2, <2>3, <2>4, <2>5 DEF Shows
  <2> QED BY <1>2, <2>1, <2>2, <2>6, Becoming DEF u, dev
<1> QED BY <1>4, <1>5, <1>6

\* A field left out keeps it in order.
LEMMA AbsentFieldDrifts ==
  ASSUME DriftInv, stage = "answering", NEW p \in DOMAIN body, AbsentField(p)
  PROVE  DriftInv'
<1> DEFINE dev == [kind |-> "absent", at |-> p, text |-> ""]
<1>1. Drifted(endpoint, body, deviations, promised) /\ endpoint \in Endpoints /\ IsBody(body)
  BY DEF DriftInv, Drifted
<1>2. /\ Named(endpoint, p) /\ Drift("absent", p, "")
      /\ body' = Without(body, p) /\ promised' = Without(promised, p)
  BY DEF AbsentField
<1>3. p # <<>> /\ Last(p).index = 0 /\ p \in Positions
  BY <1>1, <1>2, BodyAt DEF Named
<1>4. body[Front(p)].kind = "object"
  <2> SUFFICES ASSUME body[Front(p)].kind # "object" PROVE FALSE
    OBVIOUS
  <2>1. Front(p) \in DOMAIN body /\ \E i \in 1 .. body[Front(p)].size : Last(p) = Item(i)
    BY <1>1, <1>3, BodyAt
  <2>2. body[Front(p)].size \in Nat
    BY <1>1, <2>1, BodyAt DEF Values
  <2> QED BY <1>3, <2>1, <2>2, StepsAre
<1>5. dev.at = p /\ dev.kind = "absent" /\ dev \in Deviation
  BY <1>3 DEF Deviation
<1>6. \A d \in deviations : ~IsPrefix(p, d.at)
  BY <1>2 DEF Drift, Untouched
<1> HIDE DEF dev
<1>7. Drifted(endpoint, Without(body, p), deviations \cup {dev}, Without(promised, p))
  BY <1>1, <1>3, <1>4, <1>5, <1>6, DriftWithout, Zenon
<1>8. Drifted(endpoint, body', deviations \cup {dev}, promised')
  BY <1>2, <1>7
<1> QED BY <1>2, <1>8, OneMore DEF dev

\* A call starts from a body with no deviation.
LEMMA CallDrifts ==
  ASSUME DriftInv, NEW e \in Endpoints, Call(e)
  PROVE  DriftInv'
<1> DEFINE t == BodyOf[e]
<1>1. /\ stage = "idle" /\ stage' = "answering" /\ endpoint' = e
      /\ body' = t /\ promised' = t /\ deviations' = deviations
  BY DEF Call
<1>2. deviations = {}
  BY <1>1 DEF DriftInv
<1>3. IsBody(t) /\ \A p \in DOMAIN t : Fits(Declared(e)[p], t[p]) /\ ~Unmatched(e, p)
  BY BodiesAssumption DEF Fitting
<1>4. t = Promise(t, {})
  <2>1. t = [p \in DOMAIN t |-> t[p]]
    BY <1>3 DEF IsBody
  <2> QED BY <2>1 DEF Promise
<1> HIDE DEF t
<1>5. Drifted(e, t, {}, t)
  BY <1>3, <1>4 DEF Drifted
<1> QED BY <1>1, <1>2, <1>5 DEF DriftInv

\* The server's side is in order before the first call.
LEMMA DriftInvInit == LeniencyInit => DriftInv
<1> SUFFICES ASSUME LeniencyInit PROVE DriftInv
  OBVIOUS
<1>1. stage = "idle" /\ endpoint \in Endpoints /\ deviations = {}
  BY DEF LeniencyInit
<1>2. IsFiniteSet({}) /\ Cardinality({}) = 0
  BY FS_EmptySet
<1> QED BY <1>1, <1>2, Limits DEF DriftInv

\* Every step keeps the server's side in order.
LEMMA DriftInvNext == DriftInv /\ [LeniencyNext]_leniencyVars => DriftInv'
<1> SUFFICES ASSUME DriftInv, [LeniencyNext]_leniencyVars PROVE DriftInv'
  OBVIOUS
<1>1. ASSUME UNCHANGED <<endpoint, body, promised, deviations>>, stage # "idle",
             stage' \in {"parsing", "cleaning", "validated"}
      PROVE  DriftInv'
  BY <1>1 DEF DriftInv
<1>2. ASSUME NEW e \in Endpoints, Call(e) PROVE DriftInv'
  BY <1>2, CallDrifts
<1>3. CASE Drifts
  BY <1>3, UndocumentedKeyDrifts, UnmatchedKeyDrifts, ValueDrifts, AbsentFieldDrifts DEF Drifts
<1>4. CASE Validate \/ Parse \/ Succeed \/ ThrowInvalid \/ DropItem \/ Report
  BY <1>1, <1>4 DEF Validate, Parse, Succeed, ThrowInvalid, DropItem, Report, serverVars
<1>5. CASE CleanAndDiagnose
  BY <1>1, <1>5 DEF CleanAndDiagnose, serverVars
<1>6. CASE HandOver
  <2>1. stage' = "idle" /\ deviations' = {} /\ endpoint' = endpoint
    BY <1>6 DEF HandOver
  <2>2. IsFiniteSet({}) /\ Cardinality({}) = 0
    BY FS_EmptySet
  <2> QED BY <2>1, <2>2, Limits DEF DriftInv
<1>7. CASE UNCHANGED leniencyVars
  BY <1>7 DEF DriftInv, leniencyVars
<1> QED BY <1>2, <1>3, <1>4, <1>5, <1>6, <1>7 DEF LeniencyNext

-----------------------------------------------------------------------------
\* What the permissive copy accepts.

\* A node of the copy speaks of the same kinds, in any text.
LEMMA Copied ==
  ASSUME NEW s \in Schemas
  PROVE  /\ AddCatchall(s).nullable = s.nullable /\ KindsOf(AddCatchall(s)) = KindsOf(s)
         /\ AddCatchall(s).type # "enum"
         /\ s # Unknown => AddCatchall(s).type # "unknown"
         /\ s = Unknown => AddCatchall(s) = Unknown
         /\ DOMAIN AddCatchall(s) = DOMAIN s
         /\ AddCatchall(s).type = "union" => AddCatchall(s) = s
         /\ s.type \notin {"object", "enum"} => AddCatchall(s) = s
<1>1. IsNode(s)
  BY Nodes
<1>2. CASE s.type = "object"
  <2> DEFINE c == [s EXCEPT !.catchall = Unknown]
  <2>1. AddCatchall(s) = c
    BY <1>2 DEF AddCatchall
  <2>2. c.type = "object" /\ c.nullable = s.nullable /\ DOMAIN c = DOMAIN s
    BY <1>1, <1>2 DEF IsNode
  <2> HIDE DEF c
  <2>3. s # Unknown
    BY <1>2 DEF Unknown, Plain
  <2> QED BY <1>2, <2>1, <2>2, <2>3 DEF KindsOf, KindOf
<1>3. CASE s.type = "enum"
  <2> DEFINE c == [s EXCEPT !.type = "string"]
  <2>1. AddCatchall(s) = c
    BY <1>3 DEF AddCatchall
  <2>2. c.type = "string" /\ c.nullable = s.nullable /\ DOMAIN c = DOMAIN s
    BY <1>1, <1>3 DEF IsNode
  <2> HIDE DEF c
  <2>3. s # Unknown
    BY <1>3 DEF Unknown, Plain
  <2> QED BY <1>3, <2>1, <2>2, <2>3 DEF KindsOf, KindOf
<1>4. CASE s.type \notin {"object", "enum"}
  <2>1. AddCatchall(s) = s
    BY <1>4 DEF AddCatchall
  <2>2. s # Unknown => s.type # "unknown"
    BY <1>1 DEF IsNode
  <2> QED BY <1>4, <2>1, <2>2
<1> QED BY <1>2, <1>3, <1>4

\* A field of the copy may be null or absent, and is otherwise what it was.
LEMMA CopiedField ==
  ASSUME NEW s \in Schemas
  PROVE  LET l == LenientField(AddCatchall(s))
         IN  /\ l.nullable = TRUE /\ l.optional = TRUE
             /\ KindsOf(l) = KindsOf(s) /\ l.type = AddCatchall(s).type
<1> DEFINE c == AddCatchall(s)
           l == [c EXCEPT !.optional = TRUE, !.nullable = TRUE]
<1>1. IsNode(s)
  BY Nodes
<1>2. /\ DOMAIN c = DOMAIN s /\ KindsOf(c) = KindsOf(s)
      /\ c.type = "union" => c = s
  BY Copied
<1> HIDE DEF c
<1>3. "type" \in DOMAIN c /\ "optional" \in DOMAIN c /\ "nullable" \in DOMAIN c
  BY <1>1, <1>2 DEF IsNode
<1>4. l.type = c.type /\ l.optional = TRUE /\ l.nullable = TRUE
  BY <1>3
<1>5. c.type = "union" => l.options = c.options
  <2> SUFFICES ASSUME c.type = "union" PROVE l.options = c.options
    OBVIOUS
  <2>1. "options" \in DOMAIN c
    BY <1>1, <1>2 DEF IsNode
  <2> QED BY <2>1
<1> HIDE DEF l
<1>6. KindsOf(l) = KindsOf(c)
  BY <1>4, <1>5 DEF KindsOf, KindOf
<1> QED BY <1>2, <1>4, <1>6 DEF LenientField, l, c

\* Inside a node of the copy is what is inside the original, but nothing is
\* refused.
LEMMA InsideCopy ==
  ASSUME NEW s \in Schemas, NEW x \in Steps
  PROVE  Inner(AddCatchall(s), x) = IF Inner(s, x) = Never THEN Unknown ELSE Inner(s, x)
<1>1. IsNode(s) /\ Unknown # Never
  BY Nodes
<1>2. CASE s.type = "object"
  <2> DEFINE c == [s EXCEPT !.catchall = Unknown]
  <2>1. AddCatchall(s) = c
    BY <1>2 DEF AddCatchall
  <2>2. c.type = "object" /\ c.shape = s.shape /\ c.catchall = Unknown
    BY <1>1, <1>2 DEF IsNode
  <2> HIDE DEF c
  <2>3. /\ \A k \in DOMAIN s.shape : s.shape[k] # Never
        /\ s.catchall \in {Unknown, Never}
    BY <1>1, <1>2 DEF IsNode
  <2>4. CASE x.index = 0 /\ x.key \in DOMAIN s.shape
    BY <1>2, <2>1, <2>2, <2>3, <2>4 DEF Inner
  <2>5. CASE x.index = 0 /\ x.key \notin DOMAIN s.shape
    <3>1. Inner(AddCatchall(s), x) = Unknown
      BY <2>1, <2>2, <2>5 DEF Inner
    <3>2. Inner(s, x) = s.catchall
      BY <1>2, <2>5 DEF Inner
    <3> QED BY <2>3, <3>1, <3>2
  <2>6. CASE x.index # 0
    BY <1>1, <1>2, <2>1, <2>2, <2>6 DEF Inner
  <2> QED BY <2>4, <2>5, <2>6
<1>3. CASE s.type = "enum"
  <2> DEFINE c == [s EXCEPT !.type = "string"]
  <2>1. AddCatchall(s) = c
    BY <1>3 DEF AddCatchall
  <2>2. c.type = "string"
    BY <1>1 DEF IsNode
  <2> HIDE DEF c
  <2> QED BY <1>1, <1>3, <2>1, <2>2 DEF Inner
<1>4. CASE s.type \notin {"object", "enum"}
  <2>1. AddCatchall(s) = s
    BY <1>4 DEF AddCatchall
  <2>2. Inner(s, x) # Never
    <3>1. s.type = "record" => s.value # Never
      BY <1>1 DEF IsNode
    <3>2. s.type = "array" => s.element # Never
      BY <1>1 DEF IsNode
    <3> QED BY <1>1, <1>4, <3>1, <3>2 DEF Inner
  <2> QED BY <2>1, <2>2
<1> QED BY <1>2, <1>3, <1>4

\* The node of the copy for a position: open where the original is open or
\* refuses, and otherwise of the same kinds.
Opened(e, p) == Declared(e)[p] \in {Unknown, Never}

\* The copy at each position: open where the original is open or refuses, and
\* elsewhere of the same kinds, a named field nullable and optional besides.
LEMMA PermissiveIs ==
  ASSUME NEW e \in Endpoints, NEW p \in Positions
  PROVE  /\ Opened(e, p) => Permissive(e, p).type = "unknown"
         /\ ~Opened(e, p) =>
              /\ Permissive(e, p).type \notin {"unknown", "enum"}
              /\ KindsOf(Permissive(e, p)) = KindsOf(Declared(e)[p])
              /\ Named(e, p) => Permissive(e, p).nullable = TRUE
              /\ ~Named(e, p) => Permissive(e, p).nullable = Declared(e)[p].nullable
         /\ Named(e, p) => Permissive(e, p).optional = TRUE
<1> DEFINE D == Declared(e)[p]
           E == IF D = Never THEN Unknown ELSE D
<1>0. D \in Schemas /\ Unknown \in Schemas /\ Never \in Schemas /\ Unknown # Never
  BY DeclaredIs, Nodes
<1>1. E \in Schemas
  BY <1>0
<1>2. Permissive(e, p) = IF Named(e, p) THEN LenientField(AddCatchall(E)) ELSE AddCatchall(E)
  <2>1. CASE p = <<>>
    <3>1. D = Whole(e) /\ D # Never /\ ~Named(e, p)
      BY <2>1, DeclaredIs, Nodes DEF Named
    <3> QED BY <2>1, <3>1 DEF Permissive
  <2>2. CASE p # <<>>
    <3>1. /\ D = Inner(Declared(e)[Front(p)], Last(p)) /\ Declared(e)[Front(p)] \in Schemas
          /\ Last(p) \in Steps
      BY <2>2, DeclaredIs, FrontOf
    <3>2. Inner(AddCatchall(Declared(e)[Front(p)]), Last(p)) = E
      BY <3>1, InsideCopy
    <3> HIDE DEF E, D
    <3> QED BY <2>2, <3>2 DEF Permissive
  <2> QED BY <2>1, <2>2
<1> DEFINE c == AddCatchall(E)
           l == LenientField(c)
<1>3. /\ c.nullable = E.nullable /\ KindsOf(c) = KindsOf(E) /\ c.type # "enum"
      /\ E # Unknown => c.type # "unknown"
      /\ E = Unknown => c = Unknown
  BY <1>1, Copied
<1>4. /\ l.nullable = TRUE /\ l.optional = TRUE
      /\ KindsOf(l) = KindsOf(E) /\ l.type = c.type
  BY <1>1, CopiedField
<1>5. Opened(e, p) <=> E = Unknown
  BY <1>0 DEF Opened
<1>6. ~Opened(e, p) => E = D
  BY <1>5 DEF Opened
<1>7. Permissive(e, p) = IF Named(e, p) THEN l ELSE c
  BY <1>2
<1> HIDE DEF c, l, E
<1>8. Unknown.type = "unknown"
  BY Nodes
<1> HIDE DEF D
<1>9. CASE Named(e, p)
  BY <1>3, <1>4, <1>5, <1>6, <1>7, <1>8, <1>9 DEF D
<1>10. CASE ~Named(e, p)
  BY <1>3, <1>5, <1>6, <1>7, <1>8, <1>10 DEF D
<1> QED BY <1>9, <1>10

\* The values it accepts at a position.
LEMMA PermissiveFits ==
  ASSUME NEW e \in Endpoints, NEW p \in Positions, NEW v
  PROVE  Fits(Permissive(e, p), v) <=>
           \/ Opened(e, p)
           \/ v.kind \in KindsOf(Declared(e)[p])
           \/ v.kind = "null" /\ (Declared(e)[p].nullable \/ Named(e, p))
<1> DEFINE P == Permissive(e, p)
           D == Declared(e)[p]
<1>1. /\ Opened(e, p) => P.type = "unknown"
      /\ ~Opened(e, p) =>
           /\ P.type \notin {"unknown", "enum"}
           /\ KindsOf(P) = KindsOf(D)
           /\ Named(e, p) => P.nullable = TRUE
           /\ ~Named(e, p) => P.nullable = D.nullable
  BY PermissiveIs
<1> HIDE DEF P, D
<1>2. CASE Opened(e, p)
  BY <1>1, <1>2 DEF Fits, P
<1>3. CASE ~Opened(e, p)
  <2>1. Fits(P, v) <=> (P.nullable /\ v.kind = "null") \/ v.kind \in KindsOf(D)
    BY <1>1, <1>3 DEF Fits
  <2>2. CASE Named(e, p)
    BY <1>1, <1>3, <2>1, <2>2 DEF P, D
  <2>3. CASE ~Named(e, p)
    BY <1>1, <1>3, <2>1, <2>3 DEF P, D
  <2> QED BY <2>2, <2>3
<1> QED BY <1>2, <1>3

\* safeParse refuses just what holds a wrong value.
LEMMA AcceptsUnlessWrong ==
  ASSUME NEW e \in Endpoints, NEW t, NEW ds, NEW pr, Drifted(e, t, ds, pr),
         NEW r \in Positions
  PROVE  Accepts(e, t, r) <=> \A d \in ds : IsPrefix(r, d.at) => d.kind # "wrong"
<1>1. /\ IsBody(t) /\ \A d \in ds : Shows(e, t, d)
      /\ \A p \in DOMAIN t : (\A d \in ds : d.at # p) =>
           Fits(Declared(e)[p], t[p]) /\ ~Unmatched(e, p)
  BY DEF Drifted
<1>2. ASSUME Accepts(e, t, r), NEW d \in ds, IsPrefix(r, d.at), d.kind = "wrong"
      PROVE  FALSE
  <2>1. d.at \in DOMAIN t /\ IsMisfit(e, d.at, t[d.at])
    BY <1>1, <1>2 DEF Shows
  <2>2. d.at \in Positions
    BY <1>1, <2>1, BodyAt
  <2>3. Fits(Permissive(e, d.at), t[d.at]) /\ ~Unmatched(e, d.at)
    BY <1>2, <2>1 DEF Accepts, Below
  <2>4. /\ ~Opened(e, d.at) /\ t[d.at].kind \notin KindsOf(Declared(e)[d.at])
        /\ t[d.at].kind = "null" => ~Declared(e)[d.at].nullable /\ ~Named(e, d.at)
    BY <2>1, <2>3 DEF IsMisfit, Opened
  <2> QED BY <2>2, <2>3, <2>4, PermissiveFits
<1>3. ASSUME \A d \in ds : IsPrefix(r, d.at) => d.kind # "wrong" PROVE Accepts(e, t, r)
  <2> SUFFICES ASSUME NEW p \in DOMAIN t, IsPrefix(r, p)
               PROVE  /\ Fits(Permissive(e, p), t[p])
                      /\ ~Unmatched(e, p)
                      /\ Declared(e)[p].type = "object" /\ t[p].kind = "object" =>
                           \A k \in DOMAIN Declared(e)[p].shape :
                              \/ Append(p, Field(k)) \in DOMAIN t
                              \/ Permissive(e, Append(p, Field(k))).optional
    BY DEF Accepts, Below
  <2>1. p \in Positions /\ Declared(e)[p] \in Schemas
    BY <1>1, BodyAt, DeclaredIs
  <2>2. Fits(Permissive(e, p), t[p]) /\ ~Unmatched(e, p)
    <3>1. CASE \A d \in ds : d.at # p
      <4>1. Fits(Declared(e)[p], t[p]) /\ ~Unmatched(e, p)
        BY <1>1, <3>1
      <4>2. Declared(e)[p].type = "unknown" => Declared(e)[p] = Unknown
        BY <2>1, Nodes DEF IsNode
      <4>3. \/ Opened(e, p)
            \/ t[p].kind \in KindsOf(Declared(e)[p])
            \/ t[p].kind = "null" /\ (Declared(e)[p].nullable \/ Named(e, p))
        BY <4>1, <4>2 DEF Fits, Opened
      <4> QED BY <2>1, <4>1, <4>3, PermissiveFits
    <3>2. ASSUME NEW d \in ds, d.at = p PROVE Fits(Permissive(e, p), t[p]) /\ ~Unmatched(e, p)
      <4>1. Shows(e, t, d) /\ d.kind # "wrong" /\ d.kind # "absent"
        BY <1>1, <1>3, <3>2 DEF Shows
      <4>2. d.kind \in {"stripped", "extra", "widened", "null"}
        BY <4>1 DEF Shows, Deviation
      <4>3. ~Unmatched(e, p)
        BY <3>2, <4>1 DEF Shows
      <4>4. \/ Opened(e, p)
            \/ t[p].kind \in KindsOf(Declared(e)[p])
            \/ t[p].kind = "null" /\ Named(e, p)
        <5>1. CASE d.kind = "stripped" \/ d.kind = "extra"
          BY <3>2, <4>1, <5>1 DEF Shows, Opened
        <5>2. CASE d.kind = "null"
          BY <3>2, <4>1, <5>2 DEF Shows
        <5>3. CASE d.kind = "widened"
          <6>1. Declared(e)[p].type = "enum" /\ t[p].kind = "string"
            BY <3>2, <4>1, <5>3 DEF Shows
          <6> QED BY <6>1 DEF KindsOf, KindOf
        <5> QED BY <4>2, <5>1, <5>2, <5>3
      <4> QED BY <2>1, <4>3, <4>4, PermissiveFits
    <3> QED BY <3>1, <3>2
  <2>3. ASSUME Declared(e)[p].type = "object", NEW k \in DOMAIN Declared(e)[p].shape
        PROVE  Permissive(e, Append(p, Field(k))).optional
    <3>1. k \in Texts
      BY <2>1, <2>3, Nodes DEF IsNode
    <3> DEFINE q == Append(p, Field(k))
    <3>2. q \in Positions /\ q # <<>> /\ Front(q) = p /\ Last(q) = Field(k)
      BY <1>1, <3>1, KeyOf
    <3> HIDE DEF q
    <3>3. Field(k).index = 0 /\ Field(k).key = k
      BY <3>1, StepsAre
    <3>4. Named(e, q)
      BY <2>3, <3>2, <3>3 DEF Named
    <3>5. Permissive(e, q).optional = TRUE
      BY <3>2, <3>4, PermissiveIs
    <3> QED BY <3>5 DEF q
  <2> QED BY <2>2, <2>3
<1> QED BY <1>2, <1>3

-----------------------------------------------------------------------------
\* The branch of a union that is meant.

\* A set of numbers that is not empty has a least one.
LEMMA LeastExists ==
  ASSUME NEW S \in SUBSET Nat, S # {}
  PROVE  \E i \in S : \A j \in S : i <= j
<1> SUFFICES ASSUME \A i \in S : \E j \in S : j < i PROVE FALSE
  OBVIOUS
<1> DEFINE F == {n \in Nat : \A m \in Nat : m <= n => m \notin S}
<1>1. 0 \in F
  OBVIOUS
<1>2. ASSUME NEW n \in Nat, n \in F PROVE n + 1 \in F
  <2>1. n + 1 \notin S
    <3> SUFFICES ASSUME n + 1 \in S PROVE FALSE
      OBVIOUS
    <3>1. PICK j \in S : j < n + 1
      OBVIOUS
    <3> QED BY <1>2, <3>1
  <2> QED BY <1>2, <2>1
<1> HIDE DEF F
<1>3. Nat \subseteq F
  BY <1>1, <1>2, NatSetInduction
<1>4. PICK x \in S : TRUE
  OBVIOUS
<1>5. x \in F /\ x \in Nat /\ x <= x
  BY <1>3
<1> QED BY <1>4, <1>5 DEF F

\* The branch is one of the options, or the union itself when none will do; for
\* an array, where there is an option for one, it is such an option.
LEMMA BranchIs ==
  ASSUME NEW s \in Schemas, s.type = "union", NEW kind, NEW keys
  PROVE  /\ \/ BranchFor(s, kind, keys) = s
            \/ \E i \in DOMAIN s.options : BranchFor(s, kind, keys) = s.options[i]
         /\ kind = "array" /\ "array" \in KindsOf(s) =>
              BranchFor(s, kind, keys).type = "array"
<1> DEFINE Having(type) == {i \in DOMAIN s.options : s.options[i].type = type}
           Full == {i \in Having("object") : DOMAIN s.options[i].shape \subseteq keys}
           Breadth(i) == Cardinality(DOMAIN s.options[i].shape)
           Widest == {i \in Full : \A j \in Full : Breadth(j) <= Breadth(i)}
           Found == CASE kind = "array"  -> Having("array")
                      [] kind = "object" -> IF Full # {} THEN Widest ELSE Having("record")
                      [] OTHER           -> {}
           least == CHOOSE i \in Found : \A j \in Found : i <= j
<1>1. BranchFor(s, kind, keys) = IF Found = {} THEN s ELSE s.options[least]
  BY DEF BranchFor
<1>2. Found \subseteq DOMAIN s.options
  OBVIOUS
<1>3. kind = "array" => Found = Having("array")
  OBVIOUS
<1>4. DOMAIN s.options \subseteq Nat
  <2>1. s.options \in Seq(Schemas)
    BY Nodes DEF IsNode
  <2> QED BY <2>1
<1> HIDE DEF Found
<1>5. Found # {} => least \in Found
  <2> SUFFICES ASSUME Found # {} PROVE least \in Found
    OBVIOUS
  <2>1. \E i \in Found : \A j \in Found : i <= j
    BY <1>2, <1>4, LeastExists
  <2> QED BY <2>1
<1> HIDE DEF least
<1>6. ASSUME kind = "array", "array" \in KindsOf(s)
      PROVE  BranchFor(s, kind, keys).type = "array"
  <2>1. PICK i \in DOMAIN s.options : KindOf(s.options[i]) = "array"
    BY <1>6 DEF KindsOf
  <2>2. s.options[i].type = "array"
    BY <2>1 DEF KindOf
  <2>3. i \in Found
    BY <1>3, <1>6, <2>2
  <2> QED BY <1>1, <1>3, <1>5, <1>6, <2>3
<1> QED BY <1>1, <1>2, <1>5, <1>6

\* A union leaves open what is inside the value, whatever the branch.
LEMMA MeantIs ==
  ASSUME NEW f, f.schema \in Schemas
  PROVE  /\ f.schema.type # "union" => Meant(f) = f.schema
         /\ f.schema.type = "union" =>
              /\ Meant(f).type \in {"union", "string", "number", "array", "record"}
              /\ Meant(f).type = "array" => Meant(f).element = Unknown
              /\ Meant(f).type = "record" => Meant(f).value = Unknown
              /\ body[f.pos].kind = "array" /\ "array" \in KindsOf(f.schema) =>
                   Meant(f).type = "array"
<1>1. f.schema.type # "union" => Meant(f) = f.schema
  BY DEF Meant
<1>2. ASSUME f.schema.type = "union"
      PROVE  /\ Meant(f).type \in {"union", "string", "number", "array", "record"}
             /\ Meant(f).type = "array" => Meant(f).element = Unknown
             /\ Meant(f).type = "record" => Meant(f).value = Unknown
             /\ body[f.pos].kind = "array" /\ "array" \in KindsOf(f.schema) =>
                  Meant(f).type = "array"
  <2> DEFINE s == f.schema
             keys == {Last(p).key : p \in Children(f.pos)}
             m == BranchFor(s, body[f.pos].kind, keys)
  <2>1. Meant(f) = m
    BY <1>2 DEF Meant
  <2> HIDE DEF keys
  <2>2. /\ m = s \/ \E i \in DOMAIN s.options : m = s.options[i]
        /\ body[f.pos].kind = "array" /\ "array" \in KindsOf(s) => m.type = "array"
    BY <1>2, BranchIs
  <2> HIDE DEF m
  <2>3. ASSUME NEW i \in DOMAIN s.options, m = s.options[i]
        PROVE  /\ m.type \in {"string", "number", "array", "record"}
               /\ m.type = "array" => m.element = Unknown
               /\ m.type = "record" => m.value = Unknown
    <3>1. \/ m.type \in {"string", "number"}
          \/ m.type = "array"  /\ m.element = Unknown
          \/ m.type = "record" /\ m.value = Unknown
      BY <1>2, <2>3, Nodes DEF IsNode
    <3> QED BY <3>1
  <2> QED BY <1>2, <2>1, <2>2, <2>3
<1> QED BY <1>1, <1>2

-----------------------------------------------------------------------------
\* The calls still to be made, and what they leave finished.

\* What stands one step below a position.
ChildrenIn(t, pos) == {p \in DOMAIN t : p # <<>> /\ Front(p) = pos}

\* The path of the nearest item around a position, in a singleton, if there is one.
Around(r, p) == IF ItemOf[p] = r THEN {} ELSE {PathOf[ItemOf[p]]}

\* The call that the schema and the path of a position ask for.
FrameAt(e, r, p) == Frame(Declared(e)[p], p, PathOf[p], Around(r, p))

\* Each call is for what the schema says of its position, and no call is for
\* a part of what another is for.
Pending(e, t, r, fs) ==
  /\ \A f \in fs : f.pos \in Below(t, r) /\ f = FrameAt(e, r, f.pos)
  /\ \A f, g \in fs : IsPrefix(f.pos, g.pos) => f = g

\* What no call is still to be made for.
Passed(t, r, fs) == {p \in Below(t, r) : \A f \in fs : ~IsPrefix(f.pos, p)}

\* The parts of such a call.
LEMMA FrameFields ==
  ASSUME NEW e, NEW r, NEW p
  PROVE  /\ FrameAt(e, r, p).pos = p /\ FrameAt(e, r, p).schema = Declared(e)[p]
         /\ FrameAt(e, r, p).path = PathOf[p] /\ FrameAt(e, r, p).within = Around(r, p)
BY DEF FrameAt, Frame

\* What lies below a position of the value lies below the value.
LEMMA BelowIs ==
  ASSUME NEW t, IsBody(t), NEW r \in Positions, NEW q \in Below(t, r)
  PROVE  /\ q \in DOMAIN t /\ q \in Positions /\ IsPrefix(r, q) /\ q \in Below(t, q)
         /\ Below(t, q) \subseteq Below(t, r)
         /\ ChildrenIn(t, q) \subseteq Below(t, q) \ {q}
<1>1. q \in DOMAIN t /\ q \in Positions /\ IsPrefix(r, q) /\ q \in Below(t, q)
  BY BodyAt, PrefixFacts DEF Below
<1>2. ASSUME NEW p \in Below(t, q) PROVE p \in Below(t, r)
  <2>1. p \in DOMAIN t /\ p \in Positions /\ IsPrefix(q, p)
    BY <1>2, BodyAt DEF Below
  <2>2. IsPrefix(r, p)
    BY <1>1, <2>1, PrefixTransitive
  <2> QED BY <2>1, <2>2 DEF Below
<1>3. ASSUME NEW p \in ChildrenIn(t, q) PROVE p \in Below(t, q) \ {q}
  <2>1. p \in DOMAIN t /\ p \in Positions /\ p # <<>> /\ Front(p) = q
    BY <1>3, BodyAt DEF ChildrenIn
  <2>2. IsPrefix(q, p)
    BY <1>1, <2>1, PrefixOfFront, PrefixFacts
  <2>3. p # q
    BY <1>1, <2>1, FrontOf
  <2> QED BY <2>1, <2>2, <2>3 DEF Below
<1> QED BY <1>1, <1>2, <1>3

\* What two calls are for do not meet.
LEMMA Apart ==
  ASSUME NEW e, NEW t, IsBody(t), NEW r \in Positions, NEW fs, Pending(e, t, r, fs),
         NEW f \in fs, NEW g \in fs, f # g, NEW p \in Below(t, f.pos)
  PROVE  ~IsPrefix(g.pos, p)
<1>1. f.pos \in Positions /\ g.pos \in Positions
  BY BelowIs DEF Pending
<1>2. p \in Positions /\ IsPrefix(f.pos, p)
  BY BodyAt DEF Below
<1>3. ~IsPrefix(f.pos, g.pos) /\ ~IsPrefix(g.pos, f.pos)
  BY DEF Pending
<1> QED BY <1>1, <1>2, <1>3, PrefixChain

\* A call returns with all of what it was for.
LEMMA StepOver ==
  ASSUME NEW e, NEW t, IsBody(t), NEW r \in Positions, NEW fs, Pending(e, t, r, fs),
         NEW f \in fs
  PROVE  /\ Pending(e, t, r, fs \ {f})
         /\ Passed(t, r, fs \ {f}) = Passed(t, r, fs) \cup Below(t, f.pos)
         /\ Passed(t, r, fs) \cap Below(t, f.pos) = {}
<1>1. f.pos \in Below(t, r)
  BY DEF Pending
<1>2. Below(t, f.pos) \subseteq Below(t, r)
  BY <1>1, BelowIs
<1>3. \A p \in Below(t, f.pos) : IsPrefix(f.pos, p)
  BY DEF Below
<1>4. \A p \in Below(t, f.pos) : \A g \in fs \ {f} : ~IsPrefix(g.pos, p)
  BY Apart
<1>5. \A p \in Below(t, r) : ~IsPrefix(f.pos, p) => p \notin Below(t, f.pos)
  BY <1>3
<1>6. \A p \in Below(t, r) : IsPrefix(f.pos, p) => p \in Below(t, f.pos)
  BY DEF Below
<1>7. Passed(t, r, fs \ {f}) = Passed(t, r, fs) \cup Below(t, f.pos)
  BY <1>2, <1>4, <1>6 DEF Passed
<1>8. Passed(t, r, fs) \cap Below(t, f.pos) = {}
  BY <1>3 DEF Passed
<1> QED BY <1>7, <1>8 DEF Pending

\* A call keeps its own value, and leaves what is inside to further calls.
LEMMA StepInside ==
  ASSUME NEW e, NEW t, IsBody(t), NEW r \in Positions, NEW fs, Pending(e, t, r, fs),
         NEW f \in fs
  PROVE  LET gs == (fs \ {f}) \cup {FrameAt(e, r, p) : p \in ChildrenIn(t, f.pos)}
         IN  /\ Pending(e, t, r, gs)
             /\ Passed(t, r, gs) = Passed(t, r, fs) \cup {f.pos}
             /\ f.pos \notin Passed(t, r, fs)
<1> DEFINE q  == f.pos
           cs == {FrameAt(e, r, p) : p \in ChildrenIn(t, q)}
           gs == (fs \ {f}) \cup cs
<1>1. /\ q \in Below(t, r) /\ q \in DOMAIN t /\ q \in Positions /\ q \in Below(t, q)
      /\ Below(t, q) \subseteq Below(t, r)
      /\ ChildrenIn(t, q) \subseteq Below(t, q) \ {q}
  <2>1. q \in Below(t, r)
    BY DEF Pending
  <2> QED BY <2>1, BelowIs
<1>2. \A p \in DOMAIN t : p \in Positions
  BY BodyAt
<1>3. \A c \in cs : /\ c.pos \in ChildrenIn(t, q) /\ c = FrameAt(e, r, c.pos)
                    /\ c.pos \in Below(t, q) /\ c.pos # q /\ c.pos \in Positions
                    /\ IsPrefix(q, c.pos)
  <2> SUFFICES ASSUME NEW p \in ChildrenIn(t, q)
               PROVE  /\ FrameAt(e, r, p).pos = p
                      /\ p \in Below(t, q) /\ p # q /\ p \in Positions /\ IsPrefix(q, p)
    OBVIOUS
  <2> QED BY <1>1, <1>2, FrameFields DEF Below
<1>4. \A g \in fs \ {f} : ~IsPrefix(g.pos, q)
  BY <1>1, Apart
<1>5. \A g \in fs \ {f} : \A c \in cs : ~IsPrefix(g.pos, c.pos) /\ ~IsPrefix(c.pos, g.pos)
  <2> SUFFICES ASSUME NEW g \in fs \ {f}, NEW c \in cs
               PROVE  ~IsPrefix(g.pos, c.pos) /\ ~IsPrefix(c.pos, g.pos)
    OBVIOUS
  <2>1. ~IsPrefix(g.pos, c.pos)
    BY <1>3, Apart
  <2>2. g.pos \in Positions /\ g.pos \in Below(t, r)
    BY BelowIs DEF Pending
  <2>3. ~IsPrefix(q, g.pos)
    BY DEF Pending
  <2>4. ~IsPrefix(c.pos, g.pos)
    BY <1>1, <1>3, <2>2, <2>3, PrefixTransitive
  <2> QED BY <2>1, <2>4
<1>6. ASSUME NEW c \in cs, NEW d \in cs, IsPrefix(c.pos, d.pos) PROVE c = d
  <2>1. /\ c.pos \in Positions /\ c.pos # <<>> /\ Front(c.pos) = q
        /\ d.pos \in Positions /\ d.pos # <<>> /\ Front(d.pos) = q
    BY <1>3 DEF ChildrenIn
  <2>2. Len(c.pos) - 1 = Len(d.pos) - 1 /\ Len(c.pos) \in Nat /\ Len(d.pos) \in Nat
    BY <2>1, FrontOf
  <2>3. c.pos = d.pos
    BY <1>6, <2>1, <2>2, PrefixFacts
  <2> QED BY <1>3, <2>3
<1>7. \A g \in fs : g.pos \in Below(t, r) /\ g = FrameAt(e, r, g.pos)
  BY DEF Pending
<1>8. \A g, h \in fs : IsPrefix(g.pos, h.pos) => g = h
  BY DEF Pending
<1> HIDE DEF cs, q
<1>9. Pending(e, t, r, gs)
  <2>1. \A g \in gs : g.pos \in Below(t, r) /\ g = FrameAt(e, r, g.pos)
    BY <1>1, <1>3, <1>7
  <2>2. ASSUME NEW g \in gs, NEW h \in gs, IsPrefix(g.pos, h.pos) PROVE g = h
    <3>1. CASE g \in fs \ {f} /\ h \in fs \ {f}
      BY <1>8, <2>2, <3>1
    <3>2. CASE g \in cs /\ h \in cs
      BY <1>6, <2>2, <3>2
    <3>3. CASE g \in fs \ {f} /\ h \in cs
      BY <1>5, <2>2, <3>3
    <3>4. CASE g \in cs /\ h \in fs \ {f}
      BY <1>5, <2>2, <3>4
    <3> QED BY <3>1, <3>2, <3>3, <3>4
  <2> HIDE DEF gs
  <2> QED BY <2>1, <2>2 DEF Pending
<1>10. Passed(t, r, gs) = Passed(t, r, fs) \cup {q}
  <2>1. \A p \in Below(t, r) : IsPrefix(q, p) /\ p # q => \E c \in cs : IsPrefix(c.pos, p)
    <3> SUFFICES ASSUME NEW p \in Below(t, r), IsPrefix(q, p), p # q
                 PROVE  \E c \in cs : IsPrefix(c.pos, p)
      OBVIOUS
    <3>1. p \in DOMAIN t
      BY DEF Below
    <3>2. PICK s \in DOMAIN t : s # <<>> /\ Front(s) = q /\ IsPrefix(s, p)
      BY <1>1, <3>1, BodyStepTowards
    <3>3. FrameAt(e, r, s) \in cs /\ FrameAt(e, r, s).pos = s
      BY <3>2, FrameFields DEF cs, ChildrenIn
    <3> QED BY <3>2, <3>3
  <2>2. \A c \in cs : ~IsPrefix(c.pos, q)
    BY <1>1, <1>3, PrefixFacts
  <2>3. \A c \in cs : \A p \in Below(t, r) : IsPrefix(c.pos, p) => IsPrefix(q, p)
    <3> SUFFICES ASSUME NEW c \in cs, NEW p \in Below(t, r), IsPrefix(c.pos, p)
                 PROVE  IsPrefix(q, p)
      OBVIOUS
    <3>1. p \in Positions
      BY <1>2 DEF Below
    <3> QED BY <1>1, <1>3, <3>1, PrefixTransitive
  <2>4. \A p \in Below(t, r) : p \in Passed(t, r, fs) <=> \A g \in fs : ~IsPrefix(g.pos, p)
    BY DEF Passed
  <2>5. \A p \in Below(t, r) : p \in Passed(t, r, gs) <=> \A g \in gs : ~IsPrefix(g.pos, p)
    BY DEF Passed
  <2>6. Passed(t, r, fs) \subseteq Below(t, r) /\ Passed(t, r, gs) \subseteq Below(t, r)
    BY DEF Passed
  <2>7. q = f.pos
    BY DEF q
  <2>8. q \in Passed(t, r, gs)
    BY <1>1, <1>4, <2>2, <2>5
  <2>9. ASSUME NEW p \in Below(t, r), p # q
        PROVE  p \in Passed(t, r, gs) <=> p \in Passed(t, r, fs)
    <3>1. CASE IsPrefix(q, p)
      BY <2>1, <2>4, <2>5, <2>7, <2>9, <3>1
    <3>2. CASE ~IsPrefix(q, p)
      BY <2>3, <2>4, <2>5, <2>7, <2>9, <3>2
    <3> QED BY <3>1, <3>2
  <2> HIDE DEF gs
  <2> QED BY <1>1, <2>6, <2>8, <2>9
<1>11. q \notin Passed(t, r, fs)
  <2>1. IsPrefix(f.pos, q)
    BY <1>1, PrefixFacts DEF q
  <2> QED BY <2>1 DEF Passed
<1> QED BY <1>9, <1>10, <1>11 DEF q, cs

\* The calls for what is inside are those the schema gives.
LEMMA ChildFrame ==
  ASSUME NEW e \in Endpoints, NEW t, IsBody(t), NEW r \in Positions, NEW q \in Below(t, r),
         NEW p \in ChildrenIn(t, q)
  PROVE  /\ p \in Positions /\ Last(p) \in Steps
         /\ Declared(e)[p] = Inner(Declared(e)[q], Last(p))
         /\ t[q].kind = "object" => /\ Last(p).index = 0
                                    /\ PathOf[p] = Append(PathOf[q], Last(p).key)
                                    /\ Around(r, p) = Around(r, q)
         /\ t[q].kind = "array"  => /\ Last(p).index # 0
                                    /\ \E i \in 1 .. t[q].size : Last(p) = Item(i)
                                    /\ PathOf[p] = PathOf[q]
                                    /\ Around(r, p) = {PathOf[q]}
<1>1. p \in DOMAIN t /\ p # <<>> /\ Front(p) = q /\ p \in Positions /\ Last(p) \in Steps
  BY BodyAt, FrontOf DEF ChildrenIn
<1>2. Declared(e)[p] = Inner(Declared(e)[q], Last(p))
  BY <1>1, DeclaredIs
<1>3. \/ t[q].kind = "object" /\ Last(p).index = 0
      \/ t[q].kind = "array" /\ \E i \in 1 .. t[q].size : Last(p) = Item(i)
  BY <1>1, BodyAt
<1>4. ASSUME t[q].kind = "object"
      PROVE  /\ Last(p).index = 0
             /\ PathOf[p] = Append(PathOf[q], Last(p).key)
             /\ Around(r, p) = Around(r, q)
  <2>1. Last(p).index = 0
    BY <1>3, <1>4
  <2>2. PathOf[p] = Append(PathOf[q], Last(p).key) /\ ItemOf[p] = ItemOf[q]
    BY <1>1, <2>1, PathOfIs, ItemOfIs
  <2> QED BY <2>1, <2>2 DEF Around
<1>5. ASSUME t[q].kind = "array"
      PROVE  /\ Last(p).index # 0
             /\ \E i \in 1 .. t[q].size : Last(p) = Item(i)
             /\ PathOf[p] = PathOf[q]
             /\ Around(r, p) = {PathOf[q]}
  <2>1. PICK i \in 1 .. t[q].size : Last(p) = Item(i)
    BY <1>3, <1>5
  <2>2. t[q].size \in Nat
    BY <1>1, BodyAt DEF Values, Below
  <2>3. Last(p).index # 0
    BY <2>1, <2>2, StepsAre
  <2>4. PathOf[p] = PathOf[q] /\ ItemOf[p] = p
    BY <1>1, <2>3, PathOfIs, ItemOfIs
  <2>5. p # r
    <3>1. IsPrefix(r, q) /\ q \in Positions
      BY BelowIs
    <3>2. Len(r) <= Len(q) /\ Len(q) = Len(p) - 1 /\ Len(p) \in Nat /\ Len(r) \in Nat
      BY <1>1, <3>1, FrontOf, PrefixFacts
    <3> QED BY <3>2
  <2> QED BY <2>1, <2>3, <2>4, <2>5 DEF Around
<1> QED BY <1>1, <1>2, <1>4, <1>5

-----------------------------------------------------------------------------
\* What the walk has kept, recorded and examined, once the positions F are
\* finished.

\* Kept: of the positions finished, those of the promise, with their values.
Cleared(t, pr, F, cl) == cl = [p \in F \cap DOMAIN pr |-> t[p]]

\* What is to be told of the positions F.
ToldIn(ds, F) == {d \in ds : d.kind \in {"stripped", "widened"} /\ d.at \in F}

\* Recorded: a group for each kind, path and text to be told, counting all of
\* them, with the path around one of them (GroupAround: around every one).
Logged(ds, r, F, gs) ==
  /\ DOMAIN gs = {GroupOf(d) : d \in ToldIn(ds, F)}
  /\ \A g \in DOMAIN gs :
       /\ gs[g].count = Cardinality({d \in ToldIn(ds, F) : GroupOf(d) = g})
       /\ \E d \in ToldIn(ds, F) : GroupOf(d) = g /\ gs[g].within = Around(r, d.at)

\* An array that the schema takes for one.
IsArray(e, t, p) == t[p].kind = "array" /\ Declared(e)[p].type \in {"array", "union"}

\* The items of such arrays at a path, once the arrays are finished.
DoneItems(e, t, r, F, path) ==
  {p \in Below(t, r) \ {r} :
     /\ Last(p).index # 0
     /\ Declared(e)[Front(p)].type \in {"array", "union"}
     /\ PathOf[p] = path
     /\ Front(p) \in F}

\* Examined: for each path at which an array was finished, how many items the
\* arrays at that path have, all told.
Counts(e, t, r, F, ex) ==
  /\ DOMAIN ex = {PathOf[p] : p \in {q \in F : IsArray(e, t, q)}}
  /\ \A path \in DOMAIN ex : ex[path] = Cardinality(DoneItems(e, t, r, F, path))

\* Nothing to tell, and nothing to examine, in what has been added.
LEMMA LoggedSame ==
  ASSUME NEW ds, NEW r, NEW F, NEW gs, Logged(ds, r, F, gs), NEW X, ToldIn(ds, X) = {}
  PROVE  Logged(ds, r, F \cup X, gs)
<1>1. ToldIn(ds, F \cup X) = ToldIn(ds, F)
  BY DEF ToldIn
<1> QED BY <1>1 DEF Logged

\* What Counted makes of the groups.
CountsOne(gs, group, within, hs) ==
  hs = [g \in DOMAIN gs \cup {group} |->
          IF g # group THEN gs[g]
          ELSE IF g \in DOMAIN gs
               THEN [count |-> gs[g].count + 1, within |-> gs[g].within]
               ELSE [count |-> 1, within |-> within]]

\* One thing to tell in what has been added: one more group, or one more in it.
LEMMA LoggedOne ==
  ASSUME NEW ds, IsFiniteSet(ds), NEW r, NEW F, NEW gs, Logged(ds, r, F, gs),
         NEW X, NEW d \in ds, ToldIn(ds, X) = {d}, d.at \notin F,
         NEW hs, CountsOne(gs, GroupOf(d), Around(r, d.at), hs)
  PROVE  Logged(ds, r, F \cup X, hs)
<1> DEFINE T == ToldIn(ds, F)
           U == ToldIn(ds, F \cup X)
           of(S, g) == {x \in S : GroupOf(x) = g}
           D == GroupOf(d)
<1>0. hs = [g \in DOMAIN gs \cup {D} |->
              IF g # D THEN gs[g]
              ELSE IF g \in DOMAIN gs
                   THEN [count |-> gs[g].count + 1, within |-> gs[g].within]
                   ELSE [count |-> 1, within |-> Around(r, d.at)]]
  BY DEF CountsOne
<1>1. U = T \cup {d} /\ d \notin T /\ T \subseteq ds
  <2>1. U = T \cup ToldIn(ds, X)
    BY DEF ToldIn
  <2> QED BY <2>1 DEF ToldIn
<1>2. /\ DOMAIN gs = {GroupOf(x) : x \in T}
      /\ \A g \in DOMAIN gs : /\ gs[g].count = Cardinality(of(T, g))
                              /\ \E x \in T : GroupOf(x) = g /\ gs[g].within = Around(r, x.at)
  BY DEF Logged
<1> HIDE DEF T, U, D
<1>3. DOMAIN hs = {GroupOf(x) : x \in U}
  BY <1>0, <1>1, <1>2 DEF D
<1>4. ASSUME NEW g \in DOMAIN hs, g # D
      PROVE  /\ hs[g].count = Cardinality(of(U, g))
             /\ \E x \in U : GroupOf(x) = g /\ hs[g].within = Around(r, x.at)
  <2>1. g \in DOMAIN gs /\ hs[g] = gs[g]
    BY <1>0, <1>4
  <2>2. of(U, g) = of(T, g)
    BY <1>1, <1>4 DEF D
  <2> HIDE DEF of
  <2>3. hs[g].count = Cardinality(of(U, g))
    BY <1>2, <2>1, <2>2
  <2>4. PICK x \in T : GroupOf(x) = g /\ gs[g].within = Around(r, x.at)
    BY <1>2, <2>1
  <2> QED BY <1>1, <2>1, <2>3, <2>4
<1>5. /\ hs[D].count = Cardinality(of(U, D))
      /\ \E x \in U : GroupOf(x) = D /\ hs[D].within = Around(r, x.at)
  <2>1. of(U, D) = of(T, D) \cup {d} /\ d \notin of(T, D) /\ of(T, D) \subseteq ds
    BY <1>1 DEF D
  <2> HIDE DEF of
  <2>2. IsFiniteSet(of(T, D))
    BY <2>1, FS_Subset
  <2>3. Cardinality(of(U, D)) = Cardinality(of(T, D)) + 1
    BY <2>1, <2>2, FS_AddElement
  <2>4. CASE D \in DOMAIN gs
    <3>1. hs[D] = [count |-> gs[D].count + 1, within |-> gs[D].within]
      BY <1>0, <2>4
    <3>2. hs[D].count = gs[D].count + 1 /\ hs[D].within = gs[D].within
      BY <3>1
    <3>3. PICK x \in T : GroupOf(x) = D /\ gs[D].within = Around(r, x.at)
      BY <1>2, <2>4
    <3>4. gs[D].count = Cardinality(of(T, D))
      BY <1>2, <2>4
    <3> QED BY <1>1, <2>3, <3>2, <3>3, <3>4
  <2>5. CASE D \notin DOMAIN gs
    <3>1. hs[D] = [count |-> 1, within |-> Around(r, d.at)]
      BY <1>0, <2>5
    <3>2. hs[D].count = 1 /\ hs[D].within = Around(r, d.at)
      BY <3>1
    <3>3. of(T, D) = {}
      BY <1>2, <2>5 DEF of
    <3>4. Cardinality(of(U, D)) = 1
      BY <2>3, <3>3, FS_EmptySet
    <3> QED BY <1>1, <3>2, <3>4 DEF D
  <2> QED BY <2>4, <2>5
<1>6. \A g \in DOMAIN hs : /\ hs[g].count = Cardinality(of(U, g))
                           /\ \E x \in U : GroupOf(x) = g /\ hs[g].within = Around(r, x.at)
  BY <1>4, <1>5
<1> QED BY <1>3, <1>6 DEF Logged, U

\* An item counted stands in the body, in an array at the path.
LEMMA ItemsIn ==
  ASSUME NEW e, NEW t, IsBody(t), NEW r \in Positions, NEW F, NEW path,
         NEW p \in DoneItems(e, t, r, F, path)
  PROVE  /\ p \in DOMAIN t /\ p \in Positions /\ p # <<>> /\ Front(p) \in F
         /\ IsArray(e, t, Front(p)) /\ PathOf[Front(p)] = path /\ p \in ChildrenIn(t, Front(p))
<1>1. /\ p \in DOMAIN t /\ p \in Positions /\ IsPrefix(r, p) /\ p # r
      /\ Last(p).index # 0 /\ Declared(e)[Front(p)].type \in {"array", "union"}
      /\ PathOf[p] = path /\ Front(p) \in F
  BY BodyAt DEF DoneItems, Below
<1>2. p # <<>>
  BY <1>1, PrefixFacts
<1>3. t[Front(p)].kind = "array"
  BY <1>1, <1>2, BodyAt
<1>4. PathOf[Front(p)] = path
  BY <1>1, <1>2, PathOfIs
<1> QED BY <1>1, <1>2, <1>3, <1>4 DEF IsArray, ChildrenIn

\* No array in what has been added: the sizes stand.
LEMMA CountsSame ==
  ASSUME NEW e, NEW t, IsBody(t), NEW r \in Positions, NEW F, NEW ex, Counts(e, t, r, F, ex),
         NEW X, \A p \in X : ~IsArray(e, t, p)
  PROVE  Counts(e, t, r, F \cup X, ex)
<1>1. {q \in F \cup X : IsArray(e, t, q)} = {q \in F : IsArray(e, t, q)}
  OBVIOUS
<1>2. ASSUME NEW path
      PROVE  DoneItems(e, t, r, F \cup X, path) = DoneItems(e, t, r, F, path)
  <2>1. ASSUME NEW p \in DoneItems(e, t, r, F \cup X, path)
        PROVE  p \in DoneItems(e, t, r, F, path)
    <3>1. Front(p) \in F \cup X /\ IsArray(e, t, Front(p))
      BY ItemsIn
    <3>2. Front(p) \in F
      BY <3>1
    <3> QED BY <3>2 DEF DoneItems
  <2>2. DoneItems(e, t, r, F, path) \subseteq DoneItems(e, t, r, F \cup X, path)
    BY DEF DoneItems
  <2> QED BY <2>1, <2>2
<1> QED BY <1>1, <1>2 DEF Counts

\* An array has as many items as its size says.
LEMMA ChildrenCount ==
  ASSUME NEW t, IsBody(t), NEW q \in DOMAIN t, t[q].kind = "array"
  PROVE  IsFiniteSet(ChildrenIn(t, q)) /\ Cardinality(ChildrenIn(t, q)) = t[q].size
<1> DEFINE n == t[q].size
           S == 1 .. n
           T == ChildrenIn(t, q)
           f == [i \in S |-> Append(q, Item(i))]
<1>1. n \in Nat /\ q \in Positions /\ \A i \in S : Item(i) \in Steps /\ Item(i).index = i
  <2>1. n \in Nat /\ q \in Positions
    BY BodyAt DEF Values
  <2> QED BY <2>1, StepsAre
<1>2. \A i \in S : /\ f[i] \in DOMAIN t /\ f[i] \in Positions /\ f[i] # <<>>
                   /\ Front(f[i]) = q /\ Last(f[i]) = Item(i)
  <2> SUFFICES ASSUME NEW i \in S
               PROVE  LET p == Append(q, Item(i))
                      IN  /\ p \in DOMAIN t /\ p \in Positions /\ p # <<>>
                          /\ Front(p) = q /\ Last(p) = Item(i)
    OBVIOUS
  <2>1. Append(q, Item(i)) \in DOMAIN t
    BY BodyAt
  <2> QED BY <1>1, <2>1, AppendTo
<1>3. ASSUME NEW p \in T PROVE \E i \in S : f[i] = p
  <2>1. p \in DOMAIN t /\ p \in Positions /\ p # <<>> /\ Front(p) = q
    BY BodyAt DEF ChildrenIn
  <2>2. PICK i \in S : Last(p) = Item(i)
    BY <2>1, BodyAt
  <2>3. p = Append(q, Item(i))
    BY <2>1, <2>2, FrontOf
  <2> QED BY <2>3
<1>4. f \in [S -> T]
  BY <1>2 DEF ChildrenIn
<1> HIDE DEF f, T
<1>5. f \in Injection(S, T)
  <2>1. \A i, j \in S : f[i] = f[j] => i = j
    <3> SUFFICES ASSUME NEW i \in S, NEW j \in S, f[i] = f[j] PROVE i = j
      OBVIOUS
    <3>1. Item(i) = Item(j)
      BY <1>2
    <3> QED BY <1>1, <3>1
  <2> QED BY <1>4, <2>1 DEF Injection, IsInjective
<1>6. f \in Surjection(S, T)
  BY <1>3, <1>4 DEF Surjection
<1>7. ExistsBijection(S, T)
  BY <1>5, <1>6 DEF ExistsBijection, Bijection
<1>8. IsFiniteSet(S) /\ Cardinality(S) = n
  <2>1. /\ IsFiniteSet(1 .. n)
        /\ Cardinality(1 .. n) = IF 1 > n THEN 0 ELSE n - 1 + 1
    <3>1. 1 \in Int /\ n \in Int
      BY <1>1
    <3> HIDE DEF n
    <3> QED BY <3>1, FS_Interval, Zenon
  <2>2. n = IF 1 > n THEN 0 ELSE n - 1 + 1
    BY <1>1
  <2> QED BY <2>1, <2>2
<1>9. IsFiniteSet(T) /\ Cardinality(T) = n
  BY <1>7, <1>8, FS_Bijection
<1> QED BY <1>9 DEF T

\* One array more: its size is added at its path.
LEMMA CountsArray ==
  ASSUME NEW e \in Endpoints, NEW t, IsBody(t), NEW r \in Positions,
         NEW F, NEW ex, Counts(e, t, r, F, ex),
         NEW q \in Below(t, r), q \notin F, IsArray(e, t, q),
         NEW fx, fx = [p \in DOMAIN ex \cup {PathOf[q]} |->
                         IF p # PathOf[q] THEN ex[p]
                         ELSE t[q].size + IF p \in DOMAIN ex THEN ex[p] ELSE 0]
  PROVE  Counts(e, t, r, F \cup {q}, fx)
<1> DEFINE P == PathOf[q]
           C == ChildrenIn(t, q)
           G == F \cup {q}
           was(path) == DoneItems(e, t, r, F, path)
           now(path) == DoneItems(e, t, r, G, path)
<1>1. /\ DOMAIN ex = {PathOf[p] : p \in {x \in F : IsArray(e, t, x)}}
      /\ \A path \in DOMAIN ex : ex[path] = Cardinality(was(path))
  BY DEF Counts
<1>2. q \in DOMAIN t /\ q \in Positions
  BY BelowIs
<1>3. IsFiniteSet(C) /\ Cardinality(C) = t[q].size /\ t[q].size \in Nat
  <2>1. t[q].kind = "array" /\ t[q].size \in Nat
    BY <1>2, BodyAt DEF IsArray, Values
  <2> QED BY <1>2, <2>1, ChildrenCount
<1>4. ASSUME NEW path PROVE IsFiniteSet(was(path))
  <2>1. was(path) \subseteq DOMAIN t
    BY DEF DoneItems, Below
  <2>2. IsFiniteSet(DOMAIN t)
    BY DEF IsBody
  <2> QED BY <2>1, <2>2, FS_Subset
<1>5. ASSUME NEW path, path # P PROVE now(path) = was(path)
  <2>1. ASSUME NEW p \in now(path) PROVE p \in was(path)
    <3>1. Front(p) \in G /\ PathOf[Front(p)] = path
      BY ItemsIn
    <3>2. Front(p) \in F
      BY <1>5, <3>1
    <3> QED BY <3>2 DEF DoneItems
  <2>2. was(path) \subseteq now(path)
    BY DEF DoneItems
  <2> QED BY <2>1, <2>2
<1>6. now(P) = was(P) \cup C /\ was(P) \cap C = {}
  <2>1. ASSUME NEW p \in now(P) PROVE p \in was(P) \cup C
    <3>1. Front(p) \in G /\ p \in ChildrenIn(t, Front(p))
      BY ItemsIn
    <3>2. CASE Front(p) = q
      BY <3>1, <3>2
    <3>3. CASE Front(p) \in F
      BY <3>3 DEF DoneItems
    <3> QED BY <3>1, <3>2, <3>3
  <2>2. was(P) \subseteq now(P)
    BY DEF DoneItems
  <2>3. ASSUME NEW p \in C PROVE p \in now(P)
    <3>1. t[q].kind = "array" /\ Declared(e)[q].type \in {"array", "union"}
      BY DEF IsArray
    <3>2. Last(p).index # 0 /\ PathOf[p] = P
      BY <3>1, ChildFrame
    <3>3. p \in Below(t, q) /\ p # q /\ Below(t, q) \subseteq Below(t, r) /\ Front(p) = q
      BY BelowIs DEF ChildrenIn
    <3>4. p # r
      <4>1. p \in Positions /\ p # <<>> /\ IsPrefix(r, q)
        BY <1>2, BelowIs, BodyAt DEF ChildrenIn
      <4>2. Len(q) = Len(p) - 1 /\ Len(p) \in Nat /\ Len(r) <= Len(q) /\ Len(r) \in Nat
        BY <1>2, <3>3, <4>1, FrontOf, PrefixFacts
      <4> QED BY <4>2
    <3> QED BY <3>1, <3>2, <3>3, <3>4 DEF DoneItems
  <2>4. \A p \in was(P) : Front(p) # q
    BY DEF DoneItems
  <2>5. \A p \in C : Front(p) = q
    BY DEF ChildrenIn
  <2> HIDE DEF now, was, C
  <2> QED BY <2>1, <2>2, <2>3, <2>4, <2>5
<1>7. P \notin DOMAIN ex => was(P) = {}
  <2> SUFFICES ASSUME NEW p \in was(P) PROVE P \in DOMAIN ex
    OBVIOUS
  <2>1. Front(p) \in F /\ IsArray(e, t, Front(p)) /\ PathOf[Front(p)] = P
    BY ItemsIn
  <2> QED BY <1>1, <2>1
<1>8. Cardinality(now(P)) = t[q].size + Cardinality(was(P)) /\ Cardinality(was(P)) \in Nat
  <2>1. IsFiniteSet(was(P)) /\ Cardinality(was(P)) \in Nat
    BY <1>4, FS_CardinalityType
  <2> HIDE DEF now, was, C
  <2>2. Cardinality(now(P)) = Cardinality(was(P)) + Cardinality(C) - Cardinality(was(P) \cap C)
    BY <1>3, <1>6, <2>1, FS_Union
  <2>3. Cardinality(was(P) \cap C) = 0
    BY <1>6, FS_EmptySet
  <2> QED BY <1>3, <2>1, <2>2, <2>3
<1>9. DOMAIN fx = {PathOf[p] : p \in {x \in G : IsArray(e, t, x)}}
  BY <1>1
<1> HIDE DEF P, now, was, G
<1>10. \A path \in DOMAIN fx : path # P => fx[path] = Cardinality(now(path))
  BY <1>1, <1>5 DEF P
<1>11. fx[P] = Cardinality(now(P))
  <2>1. CASE P \in DOMAIN ex
    <3>1. fx[P] = t[q].size + ex[P] /\ ex[P] = Cardinality(was(P))
      BY <1>1, <2>1 DEF P
    <3> QED BY <1>8, <3>1
  <2>2. CASE P \notin DOMAIN ex
    <3>1. fx[P] = t[q].size + 0 /\ Cardinality(was(P)) = 0
      BY <1>7, <2>2, FS_EmptySet DEF P
    <3> QED BY <1>8, <3>1
  <2> QED BY <2>1, <2>2
<1>12. \A path \in DOMAIN fx : fx[path] = Cardinality(now(path))
  BY <1>10, <1>11
<1> QED BY <1>9, <1>12 DEF Counts, now, G

-----------------------------------------------------------------------------
\* The calls of cleanAndDiagnoseResponse, each.

\* A walk partway: the calls still to be made are apart from one another, and
\* what is kept, recorded and examined is what the finished positions give.
WalkOf(e, t, ds, pr, r, fs, cl, gs, ex) ==
  /\ Pending(e, t, r, fs)
  /\ Cleared(t, pr, Passed(t, r, fs), cl)
  /\ Logged(ds, r, Passed(t, r, fs), gs)
  /\ Counts(e, t, r, Passed(t, r, fs), ex)

\* A body that was accepted, and how it drifted.
Sound(e, t, ds, pr, r) ==
  /\ e \in Endpoints /\ r \in Positions /\ IsFiniteSet(ds)
  /\ Drifted(e, t, ds, pr) /\ Accepts(e, t, r)

\* What there is of such a body.
LEMMA SoundBody ==
  ASSUME NEW e, NEW t, NEW ds, NEW pr, NEW r, Sound(e, t, ds, pr, r)
  PROVE  /\ e \in Endpoints /\ r \in Positions /\ IsFiniteSet(ds) /\ IsBody(t)
         /\ \A d \in ds : Shows(e, t, d)
         /\ \A c, d \in ds : c.at = d.at => c = d
BY DEF Sound, Drifted

\* What stands at a position of it.
Stands(e, t, ds, pr, p) ==
  /\ p \in DOMAIN t /\ p \in Positions /\ Declared(e)[p] \in Schemas
  /\ Declared(e)[p] = Never =>
       IsLeaf(t[p]) /\ \E d \in ds : d.at = p /\ d.kind = "stripped" /\ d.text = ""
  /\ Declared(e)[p].type = "enum" /\ t[p].kind = "string"
       /\ t[p].text \notin Declared(e)[p].members =>
       \E d \in ds : d.at = p /\ d.kind = "widened" /\ d.text = t[p].text
  /\ Declared(e)[p] # Never <=> p \in DOMAIN pr
  /\ Declared(e)[p] \notin {Unknown, Never} /\ t[p].kind # "null" =>
       t[p].kind \in KindsOf(Declared(e)[p])

\* Each position of an accepted value stands in this way: what misfits it can
\* only be stripped or widened.
LEMMA SoundAt ==
  ASSUME NEW e, NEW t, NEW ds, NEW pr, NEW r, Sound(e, t, ds, pr, r), NEW p \in Below(t, r)
  PROVE  Stands(e, t, ds, pr, p)
<1>1. /\ e \in Endpoints /\ r \in Positions /\ IsBody(t)
      /\ \A d \in ds : Shows(e, t, d)
      /\ \A q \in DOMAIN t : (\A d \in ds : d.at # q) => Fits(Declared(e)[q], t[q])
      /\ pr = Promise(t, ds) /\ Accepts(e, t, r)
  BY DEF Sound, Drifted
<1>2. p \in DOMAIN t /\ p \in Positions /\ IsPrefix(r, p) /\ t[p] \in Values
  BY <1>1, BelowIs, BodyAt
<1> DEFINE D == Declared(e)[p]
<1>3. D \in Schemas /\ IsNode(D)
  BY <1>1, <1>2, DeclaredIs, Nodes
<1>4. ~Unmatched(e, p) /\ Fits(Permissive(e, p), t[p])
  BY <1>1 DEF Accepts
<1>5. D = Never => ~Fits(D, t[p])
  <2>1. t[p].kind # "never"
    BY <1>2 DEF Values
  <2> QED BY <2>1 DEF Fits, Never, Plain, KindsOf, KindOf
<1>6. D.type = "enum" /\ t[p].kind = "string" /\ t[p].text \notin D.members => ~Fits(D, t[p])
  BY DEF Fits
<1>7. Never # Unknown /\ Never.type = "never" /\ Unknown.type = "unknown"
  BY Nodes
<1> HIDE DEF D
<1>8. ASSUME NEW d \in ds, d.at = p
      PROVE  /\ d.kind \in {"stripped", "extra", "widened", "null"}
             /\ d.kind = "stripped" => D = Never /\ d.text = ""
             /\ d.kind = "extra" => D = Unknown
             /\ d.kind = "widened" => D.type = "enum" /\ d.text = t[p].text
             /\ d.kind = "null" => Named(e, p) /\ t[p].kind = "null"
             /\ IsLeaf(t[p])
  <2>1. Shows(e, t, d)
    BY <1>1
  <2>2. d.kind # "wrong"
    <3>1. Drifted(e, t, ds, pr)
      BY DEF Sound
    <3> QED BY <1>1, <1>2, <1>8, <3>1, AcceptsUnlessWrong
  <2>3. d.kind \in {"stripped", "extra", "widened", "null", "absent", "wrong"}
    BY <2>1 DEF Shows, Deviation
  <2>4. d.kind # "absent"
    BY <1>2, <1>8, <2>1 DEF Shows
  <2>5. IsLeaf(t[p])
    BY <1>8, <2>1, <2>4 DEF Shows
  <2>6. /\ d.kind = "stripped" => D = Never /\ d.text = ""
        /\ d.kind = "extra" => D = Unknown
        /\ d.kind = "widened" => D.type = "enum" /\ d.text = t[p].text
        /\ d.kind = "null" => Named(e, p) /\ t[p].kind = "null"
    BY <1>8, <2>1 DEF Shows, D
  <2> QED BY <2>2, <2>3, <2>4, <2>5, <2>6
<1>9. Named(e, p) => D # Never
  <2> SUFFICES ASSUME Named(e, p) PROVE D # Never
    OBVIOUS
  <2> DEFINE S == Declared(e)[Front(p)]
  <2>1. /\ p # <<>> /\ Last(p).index = 0 /\ S.type = "object" /\ Last(p).key \in DOMAIN S.shape
    BY DEF Named
  <2>2. S \in Schemas /\ D = Inner(S, Last(p))
    BY <1>1, <1>2, <2>1, DeclaredIs, FrontOf DEF D
  <2>3. S.shape[Last(p).key] # Never
    BY <2>1, <2>2, Nodes DEF IsNode
  <2> HIDE DEF S
  <2> QED BY <2>1, <2>2, <2>3 DEF Inner
<1>10. D = Never => IsLeaf(t[p]) /\ \E d \in ds : d.at = p /\ d.kind = "stripped" /\ d.text = ""
  <2> SUFFICES ASSUME D = Never
               PROVE  IsLeaf(t[p]) /\ \E d \in ds : d.at = p /\ d.kind = "stripped" /\ d.text = ""
    OBVIOUS
  <2>1. PICK d \in ds : d.at = p
    <3>1. ~Fits(Declared(e)[p], t[p])
      BY <1>5 DEF D
    <3> QED BY <1>1, <1>2, <3>1
  <2>2. d.kind = "stripped"
    BY <1>7, <1>8, <1>9, <2>1
  <2> QED BY <1>8, <2>1, <2>2
<1>11. D.type = "enum" /\ t[p].kind = "string" /\ t[p].text \notin D.members =>
         \E d \in ds : d.at = p /\ d.kind = "widened" /\ d.text = t[p].text
  <2> SUFFICES ASSUME D.type = "enum", t[p].kind = "string", t[p].text \notin D.members
               PROVE  \E d \in ds : d.at = p /\ d.kind = "widened" /\ d.text = t[p].text
    OBVIOUS
  <2>1. PICK d \in ds : d.at = p
    <3>1. ~Fits(Declared(e)[p], t[p])
      BY <1>6 DEF D
    <3> QED BY <1>1, <1>2, <3>1
  <2>2. d.kind = "widened"
    BY <1>7, <1>8, <2>1
  <2> QED BY <1>8, <2>1, <2>2
<1>12. DOMAIN pr = {q \in DOMAIN t : \A d \in ds : d.kind = "stripped" => d.at # q}
  <2>1. pr = Promise(t, ds)
    BY <1>1
  <2> QED BY <2>1 DEF Promise
<1>13. D # Never => p \in DOMAIN pr
  BY <1>2, <1>8, <1>12
<1>14. D = Never => p \notin DOMAIN pr
  <2> SUFFICES ASSUME D = Never, p \in DOMAIN pr PROVE FALSE
    OBVIOUS
  <2>1. PICK d \in ds : d.at = p /\ d.kind = "stripped"
    BY <1>10
  <2> QED BY <1>12, <2>1
<1>15. ASSUME D \notin {Unknown, Never}, t[p].kind # "null" PROVE t[p].kind \in KindsOf(D)
  <2>1. ~Opened(e, p)
    BY <1>15 DEF Opened, D
  <2> QED BY <1>1, <1>2, <1>4, <1>15, <2>1, PermissiveFits DEF D
<1> QED BY <1>2, <1>3, <1>10, <1>11, <1>13, <1>14, <1>15 DEF D, Stands

\* What there is to tell of it lies at what a schema refuses, or at an enum.
LEMMA ToldAt ==
  ASSUME NEW e, NEW t, NEW ds, NEW pr, NEW r, Sound(e, t, ds, pr, r), NEW X,
         NEW d \in ToldIn(ds, X)
  PROVE  /\ d \in ds /\ d.at \in X /\ d.at \in DOMAIN t
         /\ d.kind = "stripped" => Declared(e)[d.at] = Never
         /\ d.kind = "widened" => /\ Declared(e)[d.at].type = "enum"
                                  /\ t[d.at].kind = "string"
                                  /\ t[d.at].text \notin Declared(e)[d.at].members
         /\ Declared(e)[d.at].type \in {"never", "enum"}
<1>1. d \in ds /\ d.at \in X /\ d.kind \in {"stripped", "widened"} /\ Shows(e, t, d)
  BY SoundBody DEF ToldIn
<1>2. Never.type = "never"
  BY Nodes
<1> QED BY <1>1, <1>2 DEF Shows

\* A call adds to what is kept.
Adds(t, cl, Y, dl) == dl = [p \in DOMAIN cl \cup Y |-> IF p \in Y THEN t[p] ELSE cl[p]]

\* What a call adds of the promise, and no other, is kept with the rest.
LEMMA ClearedMore ==
  ASSUME NEW t, NEW pr, NEW F, NEW cl, Cleared(t, pr, F, cl), NEW X, NEW Y,
         Y = X \cap DOMAIN pr, NEW dl, Adds(t, cl, Y, dl)
  PROVE  Cleared(t, pr, F \cup X, dl)
<1>0. dl = [p \in DOMAIN cl \cup Y |-> IF p \in Y THEN t[p] ELSE cl[p]]
  BY DEF Adds
<1>1. cl = [p \in F \cap DOMAIN pr |-> t[p]]
  BY DEF Cleared
<1>2. DOMAIN cl \cup Y = (F \cup X) \cap DOMAIN pr
  BY <1>1
<1>3. \A p \in DOMAIN cl : cl[p] = t[p]
  BY <1>1
<1>4. dl = [p \in DOMAIN cl \cup Y |-> t[p]]
  BY <1>0, <1>3
<1>5. dl = [p \in (F \cup X) \cap DOMAIN pr |-> t[p]]
  BY <1>2, <1>4
<1> QED BY <1>5 DEF Cleared

-----------------------------------------------------------------------------
\* Each call of the walk takes it one step on.

\* A call that finishes nothing of the promise keeps nothing more.
LEMMA ClearedSame ==
  ASSUME NEW t, NEW pr, NEW F, NEW cl, Cleared(t, pr, F, cl), NEW X, X \cap DOMAIN pr = {}
  PROVE  Cleared(t, pr, F \cup X, cl)
<1>1. (F \cup X) \cap DOMAIN pr = F \cap DOMAIN pr
  OBVIOUS
<1> QED BY <1>1 DEF Cleared

\* The walk of the state, for the value at r.
Walking(r, fs, cl, gs, ex) ==
  /\ Sound(endpoint, body, deviations, promised, r)
  /\ WalkOf(endpoint, body, deviations, promised, r, fs, cl, gs, ex)

\* The call under way.
LEMMA FrameIs ==
  ASSUME NEW r, Walking(r, frames, cleaned, groups, examined), NEW f \in frames
  PROVE  /\ endpoint \in Endpoints /\ r \in Positions /\ IsBody(body)
         /\ f.pos \in Below(body, r) /\ f.pos \in DOMAIN body /\ f.pos \in Positions
         /\ f.schema = Declared(endpoint)[f.pos] /\ f.schema \in Schemas
         /\ f.path = PathOf[f.pos] /\ f.within = Around(r, f.pos)
         /\ Stands(endpoint, body, deviations, promised, f.pos)
<1>1. /\ endpoint \in Endpoints /\ r \in Positions /\ IsBody(body)
      /\ Sound(endpoint, body, deviations, promised, r)
  BY SoundBody DEF Walking
<1>2. f.pos \in Below(body, r) /\ f = FrameAt(endpoint, r, f.pos)
  BY DEF Walking, WalkOf, Pending
<1>3. /\ f.schema = Declared(endpoint)[f.pos]
      /\ f.path = PathOf[f.pos] /\ f.within = Around(r, f.pos)
  BY <1>2, FrameFields
<1>4. Stands(endpoint, body, deviations, promised, f.pos)
  BY <1>1, <1>2, SoundAt, Zenon
<1> QED BY <1>1, <1>2, <1>3, <1>4 DEF Stands

\* A call has returned with what is in X: the three parts of what follows.
LEMMA WalkedOn ==
  ASSUME NEW r, NEW F, NEW X,
         Sound(endpoint, body, deviations, promised, r),
         Pending(endpoint, body, r, frames'), Passed(body, r, frames') = F \cup X,
         Cleared(body, promised, F \cup X, cleaned'),
         Logged(deviations, r, F \cup X, groups'),
         Counts(endpoint, body, r, F \cup X, examined')
  PROVE  Walking(r, frames', cleaned', groups', examined')
BY DEF Walking, WalkOf

\* Its parts.
LEMMA WalkIs ==
  ASSUME NEW r, Walking(r, frames, cleaned, groups, examined)
  PROVE  /\ Sound(endpoint, body, deviations, promised, r)
         /\ Pending(endpoint, body, r, frames)
         /\ Cleared(body, promised, Passed(body, r, frames), cleaned)
         /\ Logged(deviations, r, Passed(body, r, frames), groups)
         /\ Counts(endpoint, body, r, Passed(body, r, frames), examined)
         /\ endpoint \in Endpoints /\ r \in Positions /\ IsBody(body)
         /\ IsFiniteSet(deviations)
<1>1. Sound(endpoint, body, deviations, promised, r)
  BY DEF Walking
<1> QED BY <1>1, SoundBody DEF Walking, WalkOf

\* One more group, or one more in it.
LEMMA RecordedOne ==
  ASSUME NEW r, Walking(r, frames, cleaned, groups, examined), NEW q,
         NEW d \in deviations, d.at = q, d.kind \in {"stripped", "widened"},
         NEW F, Logged(deviations, r, F, groups), q \notin F,
         RecordEvent(d.kind, PathOf[q], d.text, Around(r, q))
  PROVE  Logged(deviations, r, F \cup {q}, groups')
<1>1. GroupOf(d) = Group(d.kind, PathOf[q], d.text)
  BY DEF GroupOf
<1>2. CountsOne(groups, GroupOf(d), Around(r, d.at), groups')
  BY <1>1 DEF RecordEvent, Counted, CountsOne
<1>3. Sound(endpoint, body, deviations, promised, r) /\ IsFiniteSet(deviations)
  BY WalkIs
<1>4. \A c \in deviations : c.at = d.at => c = d
  BY <1>3, SoundBody
<1>5. ToldIn(deviations, {q}) = {d} /\ d.at \notin F
  BY <1>4 DEF ToldIn
<1>6. Logged(deviations, r, F \cup {q}, groups')
  BY <1>2, <1>3, <1>5, LoggedOne, Zenon
<1> QED BY <1>6

\* A key that is stripped is recorded, and not kept.
LEMMA StripStep ==
  ASSUME NEW r, Walking(r, frames, cleaned, groups, examined), NEW f \in frames, Strip(f)
  PROVE  Walking(r, frames', cleaned', groups', examined')
<1> DEFINE q == f.pos
           F == Passed(body, r, frames)
<1>1. /\ Sound(endpoint, body, deviations, promised, r)
      /\ Pending(endpoint, body, r, frames) /\ Cleared(body, promised, F, cleaned)
      /\ Logged(deviations, r, F, groups) /\ Counts(endpoint, body, r, F, examined)
      /\ endpoint \in Endpoints /\ r \in Positions /\ IsBody(body)
  BY WalkIs
<1>2. /\ q \in Below(body, r) /\ q \in DOMAIN body /\ q \in Positions
      /\ f.schema = Declared(endpoint)[q] /\ f.path = PathOf[q] /\ f.within = Around(r, q)
      /\ Stands(endpoint, body, deviations, promised, q)
  BY FrameIs
<1>3. /\ f.schema = Never /\ RecordEvent("stripped", PathOf[q], "", Around(r, q))
      /\ frames' = frames \ {f} /\ cleaned' = cleaned /\ examined' = examined
  BY <1>2 DEF Strip
<1>4. IsLeaf(body[q]) /\ q \notin DOMAIN promised
  BY <1>2, <1>3 DEF Stands
<1>5. PICK d \in deviations : d.at = q /\ d.kind = "stripped" /\ d.text = ""
  BY <1>2, <1>3 DEF Stands
<1>6. Below(body, q) = {q}
  <2>1. q \in Below(body, q)
    BY <1>1, <1>2, BelowIs
  <2> QED BY <1>1, <1>2, <1>4, <2>1, NothingBelowLeaf DEF Below
<1>7. /\ Pending(endpoint, body, r, frames')
      /\ Passed(body, r, frames') = F \cup {q} /\ F \cap {q} = {}
  <2>1. /\ Pending(endpoint, body, r, frames \ {f})
        /\ Passed(body, r, frames \ {f}) = F \cup Below(body, q) /\ F \cap Below(body, q) = {}
    BY <1>1, StepOver, Zenon
  <2> QED BY <1>3, <1>6, <2>1
<1> HIDE DEF F, q
<1>8. Cleared(body, promised, F \cup {q}, cleaned')
  <2>1. {q} \cap DOMAIN promised = {}
    BY <1>4
  <2> QED BY <1>1, <1>3, <2>1, ClearedSame
<1>9. Logged(deviations, r, F \cup {q}, groups')
  <2>1. q \notin F
    BY <1>7
  <2>2. RecordEvent(d.kind, PathOf[q], d.text, Around(r, q))
    BY <1>3, <1>5
  <2> QED BY <1>1, <1>5, <2>1, <2>2, RecordedOne
<1>10. Counts(endpoint, body, r, F \cup {q}, examined')
  <2>1. ~IsArray(endpoint, body, q)
    <3>1. Never.type = "never"
      BY Nodes
    <3> QED BY <1>2, <1>3, <3>1 DEF IsArray
  <2>2. \A p \in {q} : ~IsArray(endpoint, body, p)
    BY <2>1
  <2> QED BY <1>1, <1>3, <2>2, CountsSame
<1> QED BY <1>1, <1>7, <1>8, <1>9, <1>10, WalkedOn

\* An unlisted member is recorded, and kept.
LEMMA WidenStep ==
  ASSUME NEW r, Walking(r, frames, cleaned, groups, examined), NEW f \in frames, Widen(f)
  PROVE  Walking(r, frames', cleaned', groups', examined')
<1> DEFINE q == f.pos
           F == Passed(body, r, frames)
<1>1. /\ Sound(endpoint, body, deviations, promised, r)
      /\ Pending(endpoint, body, r, frames) /\ Cleared(body, promised, F, cleaned)
      /\ Logged(deviations, r, F, groups) /\ Counts(endpoint, body, r, F, examined)
      /\ endpoint \in Endpoints /\ r \in Positions /\ IsBody(body)
  BY WalkIs
<1>2. /\ q \in Below(body, r) /\ q \in DOMAIN body /\ q \in Positions
      /\ f.schema = Declared(endpoint)[q] /\ f.path = PathOf[q] /\ f.within = Around(r, q)
      /\ f.schema \in Schemas /\ Stands(endpoint, body, deviations, promised, q)
  BY FrameIs
<1>3. /\ Unlisted(f) /\ RecordEvent("widened", PathOf[q], body[q].text, Around(r, q))
      /\ Keeps(f, {q}, {}) /\ examined' = examined
  BY <1>2 DEF Widen
<1>4. /\ f.schema.type = "enum" /\ body[q].kind = "string"
      /\ body[q].text \notin f.schema.members
  <2>1. Meant(f).type = "enum" /\ body[q].kind = "string" /\ body[q].text \notin Meant(f).members
    BY <1>3 DEF Unlisted
  <2>2. Meant(f) = f.schema
    BY <1>2, <2>1, MeantIs
  <2> QED BY <2>1, <2>2
<1>5. PICK d \in deviations : d.at = q /\ d.kind = "widened" /\ d.text = body[q].text
  BY <1>2, <1>4 DEF Stands
<1>6. Below(body, q) = {q}
  <2>1. q \in Below(body, q)
    BY <1>1, <1>2, BelowIs
  <2>2. IsLeaf(body[q])
    BY <1>4 DEF IsLeaf
  <2> QED BY <1>1, <1>2, <2>1, <2>2, NothingBelowLeaf DEF Below
<1>7. /\ Pending(endpoint, body, r, frames \ {f})
      /\ Passed(body, r, frames \ {f}) = F \cup {q} /\ F \cap {q} = {}
  <2>1. /\ Pending(endpoint, body, r, frames \ {f})
        /\ Passed(body, r, frames \ {f}) = F \cup Below(body, q) /\ F \cap Below(body, q) = {}
    BY <1>1, StepOver, Zenon
  <2> QED BY <1>6, <2>1
<1>8. frames' = frames \ {f}
      /\ Adds(body, cleaned, {q}, cleaned')
  BY <1>3 DEF Keeps, Adds
<1>9. q \in DOMAIN promised
  <2>1. Declared(endpoint)[q] # Never
    BY <1>2, <1>4 DEF Never, Plain
  <2> QED BY <1>2, <2>1 DEF Stands
<1> HIDE DEF F, q
<1>10. Cleared(body, promised, F \cup {q}, cleaned')
  <2>1. {q} = {q} \cap DOMAIN promised
    BY <1>9
  <2> QED BY <1>1, <1>8, <2>1, ClearedMore, Zenon
<1>11. Logged(deviations, r, F \cup {q}, groups')
  <2>1. q \notin F
    BY <1>7
  <2>2. RecordEvent(d.kind, PathOf[q], d.text, Around(r, q))
    BY <1>3, <1>5
  <2> QED BY <1>1, <1>5, <2>1, <2>2, RecordedOne
<1>12. Counts(endpoint, body, r, F \cup {q}, examined')
  <2>1. ~IsArray(endpoint, body, q)
    BY <1>4 DEF IsArray
  <2>2. \A p \in {q} : ~IsArray(endpoint, body, p)
    BY <2>1
  <2> QED BY <1>1, <1>3, <2>2, CountsSame
<1>13. Pending(endpoint, body, r, frames') /\ Passed(body, r, frames') = F \cup {q}
  BY <1>7, <1>8
<1> QED BY <1>1, <1>10, <1>11, <1>12, <1>13, WalkedOn

\* A call keeps its own value and calls for what is inside.
LEMMA InsideStep ==
  ASSUME NEW r, Walking(r, frames, cleaned, groups, examined), NEW f \in frames,
         f.schema # Never,
         Keeps(f, {f.pos}, {FrameAt(endpoint, r, p) : p \in ChildrenIn(body, f.pos)})
  PROVE  /\ Pending(endpoint, body, r, frames')
         /\ Passed(body, r, frames') = Passed(body, r, frames) \cup {f.pos}
         /\ f.pos \notin Passed(body, r, frames)
         /\ Cleared(body, promised, Passed(body, r, frames) \cup {f.pos}, cleaned')
<1> DEFINE q == f.pos
           F == Passed(body, r, frames)
           cs == {FrameAt(endpoint, r, p) : p \in ChildrenIn(body, q)}
<1>1. /\ Sound(endpoint, body, deviations, promised, r)
      /\ Pending(endpoint, body, r, frames) /\ Cleared(body, promised, F, cleaned)
      /\ endpoint \in Endpoints /\ r \in Positions /\ IsBody(body)
  BY WalkIs
<1>2. /\ q \in Below(body, r) /\ f.schema = Declared(endpoint)[q]
      /\ Stands(endpoint, body, deviations, promised, q)
  BY FrameIs
<1>3. /\ Pending(endpoint, body, r, (frames \ {f}) \cup cs)
      /\ Passed(body, r, (frames \ {f}) \cup cs) = F \cup {q}
      /\ q \notin F
  BY <1>1, StepInside
<1>4. /\ frames' = (frames \ {f}) \cup cs
      /\ Adds(body, cleaned, {q}, cleaned')
  BY DEF Keeps, Adds
<1>5. q \in DOMAIN promised
  BY <1>2 DEF Stands
<1> HIDE DEF F, q, cs
<1>6. Cleared(body, promised, F \cup {q}, cleaned')
  <2>1. {q} = {q} \cap DOMAIN promised
    BY <1>5
  <2> QED BY <1>1, <1>4, <2>1, ClearedMore, Zenon
<1> QED BY <1>3, <1>4, <1>6 DEF F, q

\* What a schema says of a position that opens.
LEMMA OpensIs ==
  ASSUME NEW r, Walking(r, frames, cleaned, groups, examined), NEW f \in frames, Opens(f)
  PROVE  /\ f.schema # Never /\ ToldIn(deviations, {f.pos}) = {}
         /\ Meant(f).type \in {"object", "record"} =>
              Meant(f) = f.schema /\ body[f.pos].kind = "object"
         /\ Meant(f).type = "array" =>
              /\ body[f.pos].kind = "array" /\ f.schema.type \in {"array", "union"}
              /\ Meant(f) = f.schema \/ Meant(f).element = Unknown
<1>1. /\ f.schema = Declared(endpoint)[f.pos] /\ f.schema \in Schemas
      /\ Sound(endpoint, body, deviations, promised, r)
  BY FrameIs, WalkIs
<1>2. /\ body[f.pos].kind = KindOf(Meant(f))
      /\ \/ Meant(f).type \in {"object", "array"}
         \/ Meant(f).type = "record" /\ Meant(f).value.type # "unknown"
  BY DEF Opens
<1>3. f.schema.type = "union" => Meant(f).type = "array" /\ Meant(f).element = Unknown
  BY <1>1, <1>2, MeantIs DEF Unknown, Plain
<1>4. f.schema.type # "union" => Meant(f) = f.schema
  BY <1>1, MeantIs
<1>5. f.schema.type \in {"union", "object", "array", "record"}
  BY <1>2, <1>4
<1>6. f.schema # Never
  BY <1>5 DEF Never, Plain
<1>7. ToldIn(deviations, {f.pos}) = {}
  <2> SUFFICES ASSUME NEW d \in ToldIn(deviations, {f.pos}) PROVE FALSE
    OBVIOUS
  <2>1. d.at = f.pos /\ Declared(endpoint)[d.at].type \in {"never", "enum"}
    BY <1>1, ToldAt
  <2> QED BY <1>1, <1>5, <2>1
<1> QED BY <1>2, <1>3, <1>4, <1>5, <1>6, <1>7 DEF KindOf

\* A call on an object or a record takes the walk inside, with nothing to tell.
LEMMA InsideObjectStep ==
  ASSUME NEW r, Walking(r, frames, cleaned, groups, examined), NEW f \in frames,
         Opens(f), Meant(f).type \in {"object", "record"},
         Keeps(f, {f.pos}, {FrameAt(endpoint, r, p) : p \in ChildrenIn(body, f.pos)}),
         UNCHANGED <<groups, examined>>
  PROVE  Walking(r, frames', cleaned', groups', examined')
<1> DEFINE q == f.pos
           F == Passed(body, r, frames)
<1>1. /\ Sound(endpoint, body, deviations, promised, r)
      /\ Logged(deviations, r, F, groups) /\ Counts(endpoint, body, r, F, examined)
      /\ r \in Positions /\ IsBody(body)
  BY WalkIs
<1>2. f.schema # Never /\ ToldIn(deviations, {q}) = {} /\ body[q].kind = "object"
  BY OpensIs
<1>3. /\ Pending(endpoint, body, r, frames') /\ Passed(body, r, frames') = F \cup {q}
      /\ Cleared(body, promised, F \cup {q}, cleaned')
  BY <1>2, InsideStep
<1> HIDE DEF F, q
<1>4. Logged(deviations, r, F \cup {q}, groups')
  <2>1. Logged(deviations, r, F \cup {q}, groups)
    BY <1>1, <1>2, LoggedSame
  <2> QED BY <2>1
<1>5. Counts(endpoint, body, r, F \cup {q}, examined')
  <2>1. \A p \in {q} : ~IsArray(endpoint, body, p)
    BY <1>2 DEF IsArray
  <2>2. Counts(endpoint, body, r, F \cup {q}, examined)
    BY <1>1, <2>1, CountsSame
  <2> QED BY <2>2
<1> QED BY <1>1, <1>3, <1>4, <1>5, WalkedOn

\* A call on an object takes the walk on: a catchall of Never is what makes an
\* unlisted key one to strip.
LEMMA WalkObjectStep ==
  ASSUME NEW r, Walking(r, frames, cleaned, groups, examined), NEW f \in frames, WalkObject(f)
  PROVE  Walking(r, frames', cleaned', groups', examined')
<1> DEFINE q == f.pos
           s == Meant(f)
           OfKey(k) == IF k \in DOMAIN s.shape THEN s.shape[k]
                       ELSE IF ObjectCatchall(s) THEN s.catchall ELSE Never
           calls == {Frame(OfKey(Last(p).key), p, Append(f.path, Last(p).key), f.within)
                       : p \in Children(q)}
<1>1. /\ Opens(f) /\ s.type = "object" /\ Keeps(f, {q}, calls)
      /\ UNCHANGED <<groups, examined>>
  BY DEF WalkObject
<1>2. /\ endpoint \in Endpoints /\ r \in Positions /\ IsBody(body)
      /\ q \in Below(body, r)
      /\ f.schema = Declared(endpoint)[q] /\ f.schema \in Schemas
      /\ f.path = PathOf[q] /\ f.within = Around(r, q)
  BY FrameIs
<1>3. s = f.schema /\ body[q].kind = "object"
  BY <1>1, OpensIs
<1>4. s.catchall \in {Unknown, Never}
  BY <1>1, <1>2, <1>3, Nodes DEF IsNode
<1>5. Children(q) = ChildrenIn(body, q)
  BY DEF Children, ChildrenIn
<1>6. ASSUME NEW p \in ChildrenIn(body, q)
      PROVE  Frame(OfKey(Last(p).key), p, Append(f.path, Last(p).key), f.within)
               = FrameAt(endpoint, r, p)
  <2>1. /\ Declared(endpoint)[p] = Inner(Declared(endpoint)[q], Last(p))
        /\ Last(p).index = 0 /\ PathOf[p] = Append(PathOf[q], Last(p).key)
        /\ Around(r, p) = Around(r, q)
    BY <1>2, <1>3, ChildFrame
  <2>2. Inner(s, Last(p)) = IF Last(p).key \in DOMAIN s.shape THEN s.shape[Last(p).key]
                            ELSE s.catchall
    BY <1>1, <2>1 DEF Inner
  <2>3. ~ObjectCatchall(s) => s.catchall = Never
    <3>1. Unknown.type # "never"
      BY Nodes
    <3> HIDE DEF s
    <3> QED BY <1>4, <3>1 DEF ObjectCatchall
  <2>4. OfKey(Last(p).key) = Declared(endpoint)[p]
    BY <1>2, <1>3, <2>1, <2>2, <2>3
  <2> HIDE DEF OfKey
  <2> QED BY <1>2, <2>1, <2>4 DEF FrameAt
<1> HIDE DEF OfKey
<1>7. calls = {FrameAt(endpoint, r, p) : p \in ChildrenIn(body, q)}
  BY <1>5, <1>6
<1> QED BY <1>1, <1>7, InsideObjectStep

\* A call on a record takes the walk on.
LEMMA WalkRecordStep ==
  ASSUME NEW r, Walking(r, frames, cleaned, groups, examined), NEW f \in frames, WalkRecord(f)
  PROVE  Walking(r, frames', cleaned', groups', examined')
<1> DEFINE q == f.pos
           s == Meant(f)
           calls == {Frame(s.value, p, Append(f.path, Last(p).key), f.within)
                       : p \in Children(q)}
<1>1. /\ Opens(f) /\ s.type = "record" /\ Keeps(f, {q}, calls)
      /\ UNCHANGED <<groups, examined>>
  BY DEF WalkRecord
<1>2. /\ endpoint \in Endpoints /\ r \in Positions /\ IsBody(body)
      /\ q \in Below(body, r)
      /\ f.schema = Declared(endpoint)[q] /\ f.schema \in Schemas
      /\ f.path = PathOf[q] /\ f.within = Around(r, q)
  BY FrameIs
<1>3. s = f.schema /\ body[q].kind = "object"
  BY <1>1, OpensIs
<1>5. Children(q) = ChildrenIn(body, q)
  BY DEF Children, ChildrenIn
<1>6. ASSUME NEW p \in ChildrenIn(body, q)
      PROVE  Frame(s.value, p, Append(f.path, Last(p).key), f.within)
               = FrameAt(endpoint, r, p)
  <2>1. /\ Declared(endpoint)[p] = Inner(Declared(endpoint)[q], Last(p))
        /\ Last(p).index = 0 /\ PathOf[p] = Append(PathOf[q], Last(p).key)
        /\ Around(r, p) = Around(r, q)
    BY <1>2, <1>3, ChildFrame
  <2>2. Inner(s, Last(p)) = s.value
    BY <1>1, <2>1 DEF Inner
  <2>3. s.value = Declared(endpoint)[p]
    BY <1>2, <1>3, <2>1, <2>2
  <2> QED BY <1>2, <2>1, <2>3 DEF FrameAt
<1>7. calls = {FrameAt(endpoint, r, p) : p \in ChildrenIn(body, q)}
  BY <1>5, <1>6
<1> QED BY <1>1, <1>7, InsideObjectStep

\* A call on an array takes the walk on, and adds its size to those examined.
LEMMA WalkArrayStep ==
  ASSUME NEW r, Walking(r, frames, cleaned, groups, examined), NEW f \in frames, WalkArray(f)
  PROVE  Walking(r, frames', cleaned', groups', examined')
<1> DEFINE q == f.pos
           F == Passed(body, r, frames)
           s == Meant(f)
           calls == {Frame(s.element, p, f.path, {f.path}) : p \in Children(q)}
<1>1. /\ Opens(f) /\ s.type = "array" /\ Keeps(f, {q}, calls)
      /\ TrackExamined(f.path, body[q].size) /\ groups' = groups
  BY DEF WalkArray
<1>2. /\ endpoint \in Endpoints /\ r \in Positions /\ IsBody(body)
      /\ q \in Below(body, r)
      /\ f.schema = Declared(endpoint)[q] /\ f.schema \in Schemas
      /\ f.path = PathOf[q] /\ f.within = Around(r, q)
  BY FrameIs
<1>3. /\ body[q].kind = "array" /\ f.schema.type \in {"array", "union"}
      /\ s = f.schema \/ s.element = Unknown
      /\ f.schema # Never /\ ToldIn(deviations, {q}) = {}
  BY <1>1, OpensIs
<1>4. /\ Sound(endpoint, body, deviations, promised, r)
      /\ Logged(deviations, r, F, groups) /\ Counts(endpoint, body, r, F, examined)
  BY WalkIs
<1>5. Children(q) = ChildrenIn(body, q)
  BY DEF Children, ChildrenIn
<1>6. ASSUME NEW p \in ChildrenIn(body, q)
      PROVE  Frame(s.element, p, f.path, {f.path}) = FrameAt(endpoint, r, p)
  <2>1. /\ Declared(endpoint)[p] = Inner(Declared(endpoint)[q], Last(p))
        /\ Last(p).index # 0 /\ PathOf[p] = PathOf[q] /\ Around(r, p) = {PathOf[q]}
    BY <1>2, <1>3, ChildFrame
  <2>2. Inner(f.schema, Last(p)) = IF f.schema.type = "array" THEN f.schema.element ELSE Unknown
    BY <1>3, <2>1 DEF Inner
  <2>3. s.element = Declared(endpoint)[p]
    <3>1. CASE f.schema.type = "array"
      <4>1. s = f.schema
        BY <1>2, <3>1, MeantIs
      <4> QED BY <1>2, <2>1, <2>2, <3>1, <4>1
    <3>2. CASE f.schema.type = "union"
      <4>1. s.element = Unknown
        BY <1>1, <1>2, <3>2, MeantIs
      <4> QED BY <1>2, <2>1, <2>2, <3>2, <4>1
    <3> QED BY <1>3, <3>1, <3>2
  <2> QED BY <1>2, <2>1, <2>3 DEF FrameAt
<1>7. calls = {FrameAt(endpoint, r, p) : p \in ChildrenIn(body, q)}
  BY <1>5, <1>6
<1>8. /\ Pending(endpoint, body, r, frames') /\ Passed(body, r, frames') = F \cup {q}
      /\ q \notin F /\ Cleared(body, promised, F \cup {q}, cleaned')
  BY <1>1, <1>3, <1>7, InsideStep
<1> HIDE DEF F, q, s, calls
<1>9. Logged(deviations, r, F \cup {q}, groups')
  <2>1. Logged(deviations, r, F \cup {q}, groups)
    BY <1>3, <1>4, LoggedSame
  <2> QED BY <1>1, <2>1
<1>10. Counts(endpoint, body, r, F \cup {q}, examined')
  <2>1. IsArray(endpoint, body, q)
    BY <1>2, <1>3 DEF IsArray
  <2>2. examined' = [p \in DOMAIN examined \cup {PathOf[q]} |->
                       IF p # PathOf[q] THEN examined[p]
                       ELSE body[q].size + IF p \in DOMAIN examined THEN examined[p] ELSE 0]
    BY <1>1, <1>2 DEF TrackExamined
  <2> QED BY <1>2, <1>4, <1>8, <2>1, <2>2, CountsArray
<1> QED BY <1>4, <1>8, <1>9, <1>10, WalkedOn

\* What is inside a value that passes as it is, no schema speaks of.
LEMMA PassesOpen ==
  ASSUME NEW r, Walking(r, frames, cleaned, groups, examined), NEW f \in frames,
         f.schema # Never, ~Opens(f), NEW p \in Below(body, f.pos), p # f.pos
  PROVE  Declared(endpoint)[p] = Unknown
<1> DEFINE q == f.pos
           D == f.schema
<1>1. /\ endpoint \in Endpoints /\ r \in Positions /\ IsBody(body)
      /\ q \in Below(body, r) /\ q \in DOMAIN body /\ q \in Positions
      /\ D = Declared(endpoint)[q] /\ D \in Schemas
      /\ Stands(endpoint, body, deviations, promised, q)
  BY FrameIs
<1>2. p \in DOMAIN body /\ p \in Positions /\ IsPrefix(q, p)
  BY <1>1, BodyAt DEF Below
<1>3. PICK c \in DOMAIN body : c # <<>> /\ Front(c) = q /\ IsPrefix(c, p)
  BY <1>1, <1>2, BodyStepTowards
<1>4. c \in Positions /\ Last(c) \in Steps /\ Declared(endpoint)[c] = Inner(D, Last(c))
  BY <1>1, <1>3, BodyAt, FrontOf, DeclaredIs
<1>5. body[q].kind \in {"object", "array"}
  BY <1>1, <1>3, BodyAt
<1>6. IsNode(D)
  BY <1>1, Nodes
<1>7. Inner(D, Last(c)) = Unknown
  <2>1. CASE D = Unknown
    BY <2>1 DEF Inner, Unknown, Plain
  <2>2. CASE D.type = "union"
    BY <2>2 DEF Inner
  <2>3. CASE D # Unknown /\ D.type # "union"
    <3>1. body[q].kind \in KindsOf(D)
      BY <1>1, <1>5, <2>3 DEF Stands
    <3>2. body[q].kind = KindOf(D)
      BY <2>3, <3>1 DEF KindsOf
    <3>3. Meant(f) = D
      BY <1>1, <2>3, MeantIs
    <3>4. D.type \notin {"object", "array"} /\ ~(D.type = "record" /\ D.value.type # "unknown")
      BY <3>2, <3>3 DEF Opens
    <3>5. D.type = "record"
      BY <1>5, <3>2, <3>4 DEF KindOf
    <3>6. D.value \in Schemas
      BY <1>6, <3>5 DEF IsNode
    <3>7. D.value = Unknown
      BY <3>4, <3>5, <3>6, Nodes DEF IsNode
    <3> QED BY <3>5, <3>7 DEF Inner
  <2> QED BY <2>1, <2>2, <2>3
<1> QED BY <1>1, <1>2, <1>3, <1>4, <1>7, BelowUnknown

\* A value passed as it is leaves nothing to tell and nothing to count inside.
LEMMA PassAsIsStep ==
  ASSUME NEW r, Walking(r, frames, cleaned, groups, examined), NEW f \in frames, PassAsIs(f)
  PROVE  Walking(r, frames', cleaned', groups', examined')
<1> DEFINE q == f.pos
           F == Passed(body, r, frames)
           X == Below(body, q)
<1>1. /\ Sound(endpoint, body, deviations, promised, r)
      /\ Pending(endpoint, body, r, frames) /\ Cleared(body, promised, F, cleaned)
      /\ Logged(deviations, r, F, groups) /\ Counts(endpoint, body, r, F, examined)
      /\ endpoint \in Endpoints /\ r \in Positions /\ IsBody(body)
  BY WalkIs
<1>2. /\ q \in Below(body, r) /\ q \in DOMAIN body /\ q \in Positions
      /\ f.schema = Declared(endpoint)[q] /\ f.schema \in Schemas
      /\ Stands(endpoint, body, deviations, promised, q)
  BY FrameIs
<1>3. /\ f.schema # Never /\ ~Opens(f) /\ ~Unlisted(f) /\ Keeps(f, X, {})
      /\ groups' = groups /\ examined' = examined
  BY DEF PassAsIs
<1>4. \A p \in X : p # q => Declared(endpoint)[p] = Unknown
  BY <1>3, PassesOpen
<1>5. \A p \in X : p \in DOMAIN promised
  <2> SUFFICES ASSUME NEW p \in X PROVE p \in DOMAIN promised
    OBVIOUS
  <2>1. p \in Below(body, r)
    BY <1>1, <1>2, BelowIs
  <2>2. Stands(endpoint, body, deviations, promised, p)
    BY <1>1, <2>1, SoundAt, Zenon
  <2>3. Declared(endpoint)[p] # Never
    BY <1>2, <1>3, <1>4, Nodes
  <2> QED BY <2>2, <2>3 DEF Stands
<1>6. ToldIn(deviations, X) = {}
  <2> SUFFICES ASSUME NEW d \in ToldIn(deviations, X) PROVE FALSE
    OBVIOUS
  <2>1. /\ d \in deviations /\ d.at \in X
        /\ d.kind = "stripped" => Declared(endpoint)[d.at] = Never
        /\ d.kind = "widened" => /\ Declared(endpoint)[d.at].type = "enum"
                                 /\ body[d.at].kind = "string"
                                 /\ body[d.at].text \notin Declared(endpoint)[d.at].members
        /\ Declared(endpoint)[d.at].type \in {"never", "enum"}
    BY <1>1, ToldAt
  <2>2. d.at = q
    BY <1>4, <2>1, Nodes
  <2>3. d.kind = "widened"
    BY <1>2, <1>3, <2>1, <2>2 DEF ToldIn
  <2>4. f.schema.type = "enum" /\ body[q].kind = "string" /\ body[q].text \notin f.schema.members
    BY <1>2, <2>1, <2>2, <2>3
  <2>5. Meant(f) = f.schema
    BY <1>2, <2>4, MeantIs
  <2> QED BY <1>3, <2>4, <2>5 DEF Unlisted
<1>7. \A p \in X : ~IsArray(endpoint, body, p)
  <2> SUFFICES ASSUME NEW p \in X, IsArray(endpoint, body, p) PROVE FALSE
    OBVIOUS
  <2>1. p = q
    BY <1>4, Nodes DEF IsArray
  <2>2. body[q].kind = "array" /\ f.schema.type \in {"array", "union"}
    BY <1>2, <2>1 DEF IsArray
  <2>3. Meant(f).type = "array"
    <3>1. CASE f.schema.type = "array"
      BY <1>2, <3>1, MeantIs
    <3>2. CASE f.schema.type = "union"
      <4>1. f.schema # Unknown
        BY <3>2, Nodes
      <4>2. body[q].kind \in KindsOf(f.schema)
        BY <1>2, <1>3, <2>2, <4>1 DEF Stands
      <4> QED BY <1>2, <2>2, <3>2, <4>2, MeantIs
    <3> QED BY <2>2, <3>1, <3>2
  <2> QED BY <1>3, <2>2, <2>3 DEF Opens, KindOf
<1>8. /\ Pending(endpoint, body, r, frames \ {f})
      /\ Passed(body, r, frames \ {f}) = F \cup X
  <2>1. /\ Pending(endpoint, body, r, frames \ {f})
        /\ Passed(body, r, frames \ {f}) = F \cup X
        /\ F \cap X = {}
    BY <1>1, StepOver, Zenon
  <2> QED BY <2>1
<1>9. frames' = frames \ {f} /\ Adds(body, cleaned, X, cleaned')
  BY <1>3 DEF Keeps, Adds
<1> HIDE DEF F, X
<1>10. Cleared(body, promised, F \cup X, cleaned')
  <2>1. X = X \cap DOMAIN promised
    BY <1>5
  <2> QED BY <1>1, <1>9, <2>1, ClearedMore, Zenon
<1>11. Logged(deviations, r, F \cup X, groups')
  <2>1. Logged(deviations, r, F \cup X, groups)
    BY <1>1, <1>6, LoggedSame
  <2> QED BY <1>3, <2>1
<1>12. Counts(endpoint, body, r, F \cup X, examined')
  <2>1. Counts(endpoint, body, r, F \cup X, examined)
    BY <1>1, <1>7, CountsSame
  <2> QED BY <1>3, <2>1
<1>13. Pending(endpoint, body, r, frames') /\ Passed(body, r, frames') = F \cup X
  BY <1>8, <1>9
<1> QED BY <1>1, <1>10, <1>11, <1>12, <1>13, WalkedOn

\* Every call of cleanAndDiagnoseResponse takes the walk one step on.
LEMMA WalkStep ==
  ASSUME NEW r, Walking(r, frames, cleaned, groups, examined), CleanAndDiagnose
  PROVE  Walking(r, frames', cleaned', groups', examined')
<1>1. PICK f \in frames : \/ Strip(f) \/ WalkObject(f) \/ WalkRecord(f) \/ WalkArray(f)
                          \/ Widen(f) \/ PassAsIs(f)
  BY DEF CleanAndDiagnose
<1> QED BY <1>1, StripStep, WalkObjectStep, WalkRecordStep, WalkArrayStep, WidenStep,
           PassAsIsStep

-----------------------------------------------------------------------------
\* The walk begins with one call, and ends when none is left.

\* The walk begins with one call, and nothing kept.
LEMMA WalkBegins ==
  ASSUME NEW e, NEW t, NEW ds, NEW pr, NEW r, Sound(e, t, ds, pr, r), r \in DOMAIN t,
         NEW f, f = FrameAt(e, r, r), NEW cl, cl = Nothing
  PROVE  WalkOf(e, t, ds, pr, r, {f}, cl, cl, cl)
<1>1. r \in Positions /\ IsBody(t) /\ IsFiniteSet(ds) /\ f.pos = r
  BY SoundBody, FrameFields
<1>2. r \in Below(t, r)
  BY <1>1, PrefixFacts DEF Below
<1>3. Passed(t, r, {f}) = {}
  BY <1>1 DEF Passed, Below
<1>4. Pending(e, t, r, {f})
  BY <1>1, <1>2 DEF Pending
<1>5. cl = [x \in {} |-> x] /\ DOMAIN cl = {}
  BY DEF Nothing
<1>6. Cleared(t, pr, {}, cl)
  <2>1. [x \in {} |-> x] = [p \in {} \cap DOMAIN pr |-> t[p]]
    <3>1. {} \cap DOMAIN pr = {}
      OBVIOUS
    <3> QED BY <3>1
  <2> QED BY <1>5, <2>1 DEF Cleared
<1>7. ToldIn(ds, {}) = {}
  BY DEF ToldIn
<1>8. Logged(ds, r, {}, cl)
  BY <1>5, <1>7 DEF Logged
<1>9. Counts(e, t, r, {}, cl)
  BY <1>5 DEF Counts
<1> QED BY <1>3, <1>4, <1>6, <1>8, <1>9 DEF WalkOf

\* When no call is left, what was kept is the promised part of the value, and
\* all of it is recorded and counted.
LEMMA WalkEnds ==
  ASSUME NEW e, NEW t, NEW ds, NEW pr, NEW r, NEW cl, NEW gs, NEW ex,
         Sound(e, t, ds, pr, r), WalkOf(e, t, ds, pr, r, {}, cl, gs, ex)
  PROVE  /\ cl = Part(pr, r)
         /\ Logged(ds, r, Below(t, r), gs)
         /\ Counts(e, t, r, Below(t, r), ex)
<1>1. Passed(t, r, {}) = Below(t, r)
  BY DEF Passed
<1>2. pr = Promise(t, ds)
  BY DEF Sound, Drifted
<1>3. /\ DOMAIN pr \subseteq DOMAIN t
      /\ \A p \in DOMAIN pr : pr[p] = t[p]
  <2>1. /\ DOMAIN Promise(t, ds) \subseteq DOMAIN t
        /\ \A p \in DOMAIN Promise(t, ds) : Promise(t, ds)[p] = t[p]
    BY DEF Promise
  <2> QED BY <1>2, <2>1
<1>4. Below(t, r) \cap DOMAIN pr = Below(pr, r)
  BY <1>3 DEF Below
<1>5. cl = [p \in Below(pr, r) |-> t[p]]
  BY <1>1, <1>4 DEF WalkOf, Cleared
<1>6. \A p \in Below(pr, r) : t[p] = pr[p]
  BY <1>3 DEF Below
<1> QED BY <1>1, <1>5, <1>6 DEF WalkOf, Part

-----------------------------------------------------------------------------
\* A path is one place of a schema: positions with the same keys, that the
\* schema speaks of, have the same node, inside the same arrays.

\* An item inside the value at r, as opposed to a field.
IsItemOf(r, p) == p # r /\ Last(p).index # 0

\* A position of which the schema says something.
Described(e, r, p) == p \in Positions /\ IsPrefix(r, p) /\ Declared(e)[p] # Unknown

\* A position a validation begins at: the whole, or an item of it.
IsStart(r) == r \in Positions /\ PathOf[r] = <<>> /\ ItemOf[r] = r

\* The positions above a described one are described.
LEMMA DescribedAbove ==
  ASSUME NEW e \in Endpoints, NEW r \in Positions, NEW p, Described(e, r, p),
         NEW q \in Positions, IsPrefix(r, q), IsPrefix(q, p)
  PROVE  Described(e, r, q)
BY BelowUnknown DEF Described

\* What a described position is described by.
LEMMA DescribedStep ==
  ASSUME NEW e \in Endpoints, NEW r \in Positions, NEW p, Described(e, r, p), p # r
  PROVE  /\ p \in Positions /\ p # <<>> /\ Last(p) \in Steps /\ Described(e, r, Front(p))
         /\ Front(p) \in Positions /\ Declared(e)[Front(p)] \in Schemas
         /\ Declared(e)[p] = Inner(Declared(e)[Front(p)], Last(p))
         /\ IsItemOf(r, p) => Declared(e)[Front(p)].type = "array"
                              /\ Declared(e)[p] = Declared(e)[Front(p)].element
                              /\ Declared(e)[p].type # "array"
         /\ ~IsItemOf(r, p) => Declared(e)[Front(p)].type \in {"object", "record"}
<1>1. p \in Positions /\ IsPrefix(r, p) /\ Declared(e)[p] # Unknown
  BY DEF Described
<1>2. p # <<>>
  BY <1>1, PrefixFacts
<1>3. Front(p) \in Positions /\ Last(p) \in Steps
  BY <1>1, <1>2, FrontOf
<1>4. IsPrefix(r, Front(p)) /\ IsPrefix(Front(p), p)
  BY <1>1, <1>2, <1>3, PrefixOfFront, PrefixFacts
<1>5. Described(e, r, Front(p))
  BY <1>3, <1>4, DescribedAbove
<1> DEFINE S == Declared(e)[Front(p)]
<1>6. S \in Schemas /\ Declared(e)[p] = Inner(S, Last(p)) /\ IsNode(S)
  BY <1>1, <1>2, <1>3, DeclaredIs, Nodes
<1> HIDE DEF S
<1>7. IsItemOf(r, p) => S.type = "array" /\ Declared(e)[p] = S.element /\ Declared(e)[p].type # "array"
  <2> SUFFICES ASSUME IsItemOf(r, p)
               PROVE  S.type = "array" /\ Declared(e)[p] = S.element
                        /\ Declared(e)[p].type # "array"
    OBVIOUS
  <2>1. Last(p).index # 0
    BY DEF IsItemOf
  <2>2. S.type = "array" /\ Declared(e)[p] = S.element
    BY <1>1, <1>6, <2>1 DEF Inner
  <2> QED BY <1>6, <2>2 DEF IsNode
<1>8. ~IsItemOf(r, p) => S.type \in {"object", "record"}
  <2> SUFFICES ASSUME ~IsItemOf(r, p) PROVE S.type \in {"object", "record"}
    OBVIOUS
  <2>1. Last(p).index = 0
    BY DEF IsItemOf
  <2> QED BY <1>1, <1>6, <2>1 DEF Inner
<1> QED BY <1>1, <1>2, <1>3, <1>5, <1>6, <1>7, <1>8 DEF S

\* A step to an item leaves the path as it is, a step to a field lengthens it.
LEMMA PathStep ==
  ASSUME NEW r, IsStart(r), NEW p \in Positions, IsPrefix(r, p)
  PROVE  /\ p = r => PathOf[p] = <<>> /\ Around(r, p) = {}
         /\ IsItemOf(r, p) => PathOf[p] = PathOf[Front(p)] /\ Around(r, p) = {PathOf[p]}
         /\ p # r /\ ~IsItemOf(r, p) =>
              /\ PathOf[p] = Append(PathOf[Front(p)], Last(p).key)
              /\ Around(r, p) = Around(r, Front(p)) /\ Last(p).index = 0
<1>1. p # r => p # <<>>
  BY PrefixFacts DEF IsStart
<1>2. ItemOf[r] = r /\ PathOf[r] = <<>>
  BY DEF IsStart
<1>3. ASSUME IsItemOf(r, p)
      PROVE  PathOf[p] = PathOf[Front(p)] /\ Around(r, p) = {PathOf[p]}
  <2>1. p # r /\ p # <<>> /\ Last(p).index # 0
    BY <1>1, <1>3 DEF IsItemOf
  <2>2. PathOf[p] = PathOf[Front(p)] /\ ItemOf[p] = p
    BY <2>1, PathOfIs, ItemOfIs
  <2> QED BY <2>1, <2>2 DEF Around
<1>4. ASSUME p # r, ~IsItemOf(r, p)
      PROVE  /\ PathOf[p] = Append(PathOf[Front(p)], Last(p).key)
             /\ Around(r, p) = Around(r, Front(p)) /\ Last(p).index = 0
  <2>1. p # <<>> /\ Last(p).index = 0
    BY <1>1, <1>4 DEF IsItemOf
  <2>2. PathOf[p] = Append(PathOf[Front(p)], Last(p).key) /\ ItemOf[p] = ItemOf[Front(p)]
    BY <2>1, PathOfIs, ItemOfIs
  <2> QED BY <2>1, <2>2 DEF Around
<1>5. p = r => PathOf[p] = <<>> /\ Around(r, p) = {}
  BY <1>2 DEF Around
<1> QED BY <1>3, <1>4, <1>5

\* Sequences with one element more are equal when both parts are.
LEMMA AppendApart ==
  ASSUME NEW S, NEW u \in Seq(S), NEW v \in Seq(S), NEW x \in S, NEW y \in S
  PROVE  /\ Append(u, x) # <<>>
         /\ Append(u, x) = Append(v, y) => u = v /\ x = y
<1>1. Append(u, x) # <<>>
  OBVIOUS
<1>2. ASSUME Append(u, x) = Append(v, y) PROVE u = v /\ x = y
  <2> DEFINE a == Append(u, x)
             b == Append(v, y)
  <2>1. Len(a) = Len(u) + 1 /\ Len(b) = Len(v) + 1 /\ a = b
    BY <1>2
  <2>2. Len(u) = Len(v) /\ Len(u) \in Nat
    BY <2>1
  <2>3. a[Len(u) + 1] = x /\ b[Len(v) + 1] = y
    OBVIOUS
  <2>4. \A i \in 1 .. Len(u) : a[i] = u[i] /\ b[i] = v[i]
    BY <2>2
  <2> HIDE DEF a, b
  <2>5. x = y
    BY <2>1, <2>2, <2>3
  <2>6. u = v
    BY <2>1, <2>2, <2>4
  <2> QED BY <2>5, <2>6
<1> QED BY <1>1, <1>2

\* What two positions with one path have in common: the node and the arrays
\* around; or one is an item and the other the array it stands in.
Agree(e, r, p, q) ==
  PathOf[p] = PathOf[q] =>
    /\ (IsItemOf(r, p) <=> IsItemOf(r, q)) =>
         Declared(e)[p] = Declared(e)[q] /\ Around(r, p) = Around(r, q)
    /\ IsItemOf(r, p) /\ ~IsItemOf(r, q) => Declared(e)[q] = Declared(e)[Front(p)]
    /\ ~IsItemOf(r, p) /\ IsItemOf(r, q) => Declared(e)[p] = Declared(e)[Front(q)]

\* Two described positions with one path agree.
LEMMA OnePlace ==
  ASSUME NEW e \in Endpoints, NEW r, IsStart(r), NEW p, Described(e, r, p),
         NEW q, Described(e, r, q)
  PROVE  Agree(e, r, p, q)
<1> DEFINE F == {x \in Positions : Described(e, r, x) =>
                   \A y \in Positions : Described(e, r, y) => Agree(e, r, x, y)}
<1>0. r \in Positions
  BY DEF IsStart
<1>1. ASSUME NEW x \in Positions, Described(e, r, x), x # r => Front(x) \in F
      PROVE  \A y \in Positions : Described(e, r, y) => Agree(e, r, x, y)
  <2>0. ASSUME NEW y \in Positions, Described(e, r, y)
        PROVE  IsPrefix(r, y)
    BY <2>0 DEF Described
  <2>1. ASSUME NEW y \in Positions, Described(e, r, y), PathOf[x] = PathOf[y],
               ~IsItemOf(r, x), ~IsItemOf(r, y)
        PROVE  Declared(e)[x] = Declared(e)[y] /\ Around(r, x) = Around(r, y)
    <3>1. ASSUME NEW z \in Positions, Described(e, r, z), z # r, ~IsItemOf(r, z)
          PROVE  PathOf[z] # <<>>
      <4>1. PathOf[z] = Append(PathOf[Front(z)], Last(z).key)
        BY <2>0, <3>1, PathStep
      <4>2. Front(z) \in Positions /\ Last(z) \in Steps
        BY <1>0, <3>1, DescribedStep
      <4>3. PathOf[Front(z)] \in Seq(Texts) /\ Last(z).key \in Texts
        BY <4>2, PathOfIs, StepsAre
      <4> QED BY <4>1, <4>3, AppendApart
    <3>2. CASE x = r
      <4>1. PathOf[x] = <<>>
        BY <3>2 DEF IsStart
      <4>2. y = r
        BY <2>1, <3>1, <4>1
      <4> QED BY <3>2, <4>2
    <3>3. CASE x # r
      <4>1. y # r
        <5>1. PathOf[x] # <<>>
          BY <1>1, <2>1, <3>1, <3>3
        <5> QED BY <2>1, <5>1 DEF IsStart
      <4> DEFINE a == Front(x)
                 b == Front(y)
      <4>2. /\ a \in Positions /\ Described(e, r, a) /\ Last(x) \in Steps
            /\ Declared(e)[x] = Inner(Declared(e)[a], Last(x))
            /\ Declared(e)[a].type \in {"object", "record"}
        BY <1>0, <1>1, <2>1, <3>3, DescribedStep
      <4>3. /\ b \in Positions /\ Described(e, r, b) /\ Last(y) \in Steps
            /\ Declared(e)[y] = Inner(Declared(e)[b], Last(y))
            /\ Declared(e)[b].type \in {"object", "record"}
        BY <1>0, <2>1, <4>1, DescribedStep
      <4>4. /\ PathOf[x] = Append(PathOf[a], Last(x).key) /\ Last(x).index = 0
            /\ Around(r, x) = Around(r, a)
        BY <1>1, <2>0, <2>1, <3>3, PathStep
      <4>5. /\ PathOf[y] = Append(PathOf[b], Last(y).key) /\ Last(y).index = 0
            /\ Around(r, y) = Around(r, b)
        BY <2>0, <2>1, <4>1, PathStep
      <4>6. PathOf[a] = PathOf[b] /\ Last(x).key = Last(y).key
        <5>1. /\ PathOf[a] \in Seq(Texts) /\ PathOf[b] \in Seq(Texts)
              /\ Last(x).key \in Texts /\ Last(y).key \in Texts
          BY <4>2, <4>3, PathOfIs, StepsAre
        <5>2. Append(PathOf[a], Last(x).key) = Append(PathOf[b], Last(y).key)
          BY <2>1, <4>4, <4>5
        <5> HIDE DEF a, b
        <5> QED BY <5>1, <5>2, AppendApart
      <4>7. Agree(e, r, a, b)
        BY <1>1, <3>3, <4>2, <4>3
      <4> HIDE DEF a, b
      <4>8. IsItemOf(r, a) <=> IsItemOf(r, b)
        <5>1. ASSUME NEW c, Described(e, r, c), IsItemOf(r, c)
              PROVE  Declared(e)[Front(c)].type = "array"
          BY <1>0, <5>1, DescribedStep DEF IsItemOf
        <5>2. ~(IsItemOf(r, a) /\ ~IsItemOf(r, b))
          BY <4>2, <4>3, <4>6, <4>7, <5>1 DEF Agree
        <5>3. ~(~IsItemOf(r, a) /\ IsItemOf(r, b))
          BY <4>2, <4>3, <4>6, <4>7, <5>1 DEF Agree
        <5> QED BY <5>2, <5>3
      <4>9. Declared(e)[a] = Declared(e)[b] /\ Around(r, a) = Around(r, b)
        BY <4>6, <4>7, <4>8 DEF Agree
      <4>10. Last(x) = Last(y)
        BY <4>2, <4>3, <4>4, <4>5, <4>6 DEF Steps
      <4> QED BY <4>2, <4>3, <4>4, <4>5, <4>9, <4>10
    <3> QED BY <3>2, <3>3
  <2>2. ASSUME NEW y \in Positions, Described(e, r, y), IsItemOf(r, y)
        PROVE  /\ y # r /\ Front(y) \in Positions /\ Described(e, r, Front(y))
               /\ ~IsItemOf(r, Front(y)) /\ PathOf[Front(y)] = PathOf[y]
               /\ Declared(e)[y] = Declared(e)[Front(y)].element
               /\ Around(r, y) = {PathOf[y]}
    <3>1. y # r
      BY <2>2 DEF IsItemOf
    <3>2. /\ Front(y) \in Positions /\ Described(e, r, Front(y))
          /\ Declared(e)[y] = Declared(e)[Front(y)].element
          /\ Declared(e)[Front(y)].type = "array"
      BY <1>0, <2>2, <3>1, DescribedStep
    <3>3. PathOf[Front(y)] = PathOf[y] /\ Around(r, y) = {PathOf[y]}
      BY <2>0, <2>2, PathStep
    <3>4. ~IsItemOf(r, Front(y))
      BY <1>0, <3>2, DescribedStep DEF IsItemOf
    <3> QED BY <3>1, <3>2, <3>3, <3>4
  <2>3. ASSUME NEW y \in Positions, Described(e, r, y), PathOf[x] = PathOf[y],
               ~IsItemOf(r, x), IsItemOf(r, y)
        PROVE  Declared(e)[x] = Declared(e)[Front(y)]
    <3>1. /\ Front(y) \in Positions /\ Described(e, r, Front(y))
          /\ ~IsItemOf(r, Front(y)) /\ PathOf[Front(y)] = PathOf[y]
      BY <2>2, <2>3
    <3> QED BY <2>1, <2>3, <3>1
  <2>4. ASSUME NEW y \in Positions, Described(e, r, y), PathOf[x] = PathOf[y], IsItemOf(r, x)
        PROVE  /\ ~IsItemOf(r, y) => Declared(e)[y] = Declared(e)[Front(x)]
               /\ IsItemOf(r, y) => Declared(e)[x] = Declared(e)[y] /\ Around(r, x) = Around(r, y)
    <3>1. /\ x # r /\ Front(x) \in Positions /\ Described(e, r, Front(x))
          /\ ~IsItemOf(r, Front(x)) /\ PathOf[Front(x)] = PathOf[x]
          /\ Declared(e)[x] = Declared(e)[Front(x)].element
          /\ Around(r, x) = {PathOf[x]}
      BY <1>1, <2>2, <2>4
    <3>2. \A z \in Positions : Described(e, r, z) => Agree(e, r, Front(x), z)
      BY <1>1, <3>1
    <3>3. ASSUME ~IsItemOf(r, y) PROVE Declared(e)[y] = Declared(e)[Front(x)]
      <4>1. Agree(e, r, Front(x), y)
        BY <2>4, <3>2
      <4> QED BY <2>4, <3>1, <3>3, <4>1 DEF Agree
    <3>4. ASSUME IsItemOf(r, y)
          PROVE  Declared(e)[x] = Declared(e)[y] /\ Around(r, x) = Around(r, y)
      <4>1. /\ Front(y) \in Positions /\ Described(e, r, Front(y))
            /\ ~IsItemOf(r, Front(y)) /\ PathOf[Front(y)] = PathOf[y]
            /\ Declared(e)[y] = Declared(e)[Front(y)].element
            /\ Around(r, y) = {PathOf[y]}
        BY <2>2, <2>4, <3>4
      <4>2. Agree(e, r, Front(x), Front(y))
        BY <3>2, <4>1
      <4>3. Declared(e)[Front(x)] = Declared(e)[Front(y)]
        BY <2>4, <3>1, <4>1, <4>2 DEF Agree
      <4> QED BY <2>4, <3>1, <4>1, <4>3
    <3> QED BY <3>3, <3>4
  <2> SUFFICES ASSUME NEW y \in Positions, Described(e, r, y), PathOf[x] = PathOf[y]
               PROVE  /\ (IsItemOf(r, x) <=> IsItemOf(r, y)) =>
                           Declared(e)[x] = Declared(e)[y] /\ Around(r, x) = Around(r, y)
                      /\ IsItemOf(r, x) /\ ~IsItemOf(r, y) => Declared(e)[y] = Declared(e)[Front(x)]
                      /\ ~IsItemOf(r, x) /\ IsItemOf(r, y) => Declared(e)[x] = Declared(e)[Front(y)]
    BY DEF Agree
  <2>5. CASE IsItemOf(r, x)
    BY <2>4, <2>5
  <2>6. CASE ~IsItemOf(r, x)
    BY <2>1, <2>3, <2>6
  <2> QED BY <2>5, <2>6
<1>2. <<>> \in F
  <2>1. <<>> \in Positions
    BY DEF Positions
  <2>2. Described(e, r, <<>>) => <<>> = r
    BY <1>0, PrefixFacts DEF Described
  <2> QED BY <1>1, <2>1, <2>2
<1>3. \A x \in Positions : x # <<>> /\ Front(x) \in F => x \in F
  BY <1>1
<1> HIDE DEF F
<1>4. p \in F /\ p \in Positions /\ q \in Positions
  BY <1>2, <1>3, PositionInduction DEF Described
<1> QED BY <1>4 DEF F

-----------------------------------------------------------------------------
\* What is told of an item's field: the item and the path name the field.

\* The nearest item around a position leads to it, by a shorter path unless it
\* is the position itself.
LEMMA ItemAbove ==
  ASSUME NEW p \in Positions
  PROVE  /\ ItemOf[p] \in Positions /\ IsPrefix(ItemOf[p], p)
         /\ ItemOf[p] # <<>> => Last(ItemOf[p]).index # 0
         /\ ItemOf[p] = p => PathOf[p] = PathOf[ItemOf[p]]
         /\ ItemOf[p] # p => Len(PathOf[ItemOf[p]]) < Len(PathOf[p])
<1> DEFINE F == {x \in Positions :
                   /\ IsPrefix(ItemOf[x], x)
                   /\ ItemOf[x] # <<>> => Last(ItemOf[x]).index # 0
                   /\ ItemOf[x] # x => Len(PathOf[ItemOf[x]]) < Len(PathOf[x])}
<1>1. <<>> \in F
  <2>1. <<>> \in Positions /\ ItemOf[<<>>] = <<>>
    BY ItemOfIs DEF Positions
  <2>2. IsPrefix(<<>>, <<>>)
    BY <2>1, PrefixFacts
  <2> QED BY <2>1, <2>2
<1>2. ASSUME NEW x \in Positions, x # <<>>, Front(x) \in F PROVE x \in F
  <2>1. CASE Last(x).index # 0
    <3>1. ItemOf[x] = x
      BY <1>2, <2>1, ItemOfIs
    <3> QED BY <2>1, <3>1, PrefixFacts
  <2>2. CASE Last(x).index = 0
    <3> DEFINE f == Front(x)
    <3>1. f \in Positions /\ Last(x) \in Steps
      BY <1>2, FrontOf
    <3>2. /\ ItemOf[x] = ItemOf[f] /\ ItemOf[f] \in Positions
          /\ PathOf[x] = Append(PathOf[f], Last(x).key)
      BY <1>2, <2>2, <3>1, ItemOfIs, PathOfIs
    <3>3. PathOf[f] \in Seq(Texts) /\ PathOf[ItemOf[f]] \in Seq(Texts)
      BY <3>1, <3>2, PathOfIs
    <3>4. Len(PathOf[x]) = Len(PathOf[f]) + 1 /\ Len(PathOf[f]) \in Nat
          /\ Len(PathOf[ItemOf[f]]) \in Nat
      BY <3>2, <3>3
    <3>5. /\ IsPrefix(ItemOf[f], f) /\ (ItemOf[f] # <<>> => Last(ItemOf[f]).index # 0)
          /\ (ItemOf[f] # f => Len(PathOf[ItemOf[f]]) < Len(PathOf[f]))
      BY <1>2
    <3>6. IsPrefix(ItemOf[f], x)
      BY <1>2, <3>2, <3>5, PrefixOfFront
    <3>7. Len(PathOf[ItemOf[f]]) <= Len(PathOf[f])
      BY <3>4, <3>5
    <3>8. Len(PathOf[ItemOf[x]]) < Len(PathOf[x])
      BY <3>2, <3>4, <3>7
    <3> QED BY <3>2, <3>5, <3>6, <3>8
  <2>3. Last(x).index = 0 \/ Last(x).index # 0
    OBVIOUS
  <2> QED BY <2>1, <2>2, <2>3
<1> HIDE DEF F
<1>3. p \in F
  BY <1>1, <1>2, PositionInduction
<1> QED BY <1>3, ItemOfIs DEF F

\* One item and one path are one position.
LEMMA SameItem ==
  ASSUME NEW p \in Positions, NEW q \in Positions,
         ItemOf[p] = ItemOf[q], PathOf[p] = PathOf[q]
  PROVE  p = q
<1> DEFINE F == {x \in Positions : \A y \in Positions :
                   ItemOf[x] = ItemOf[y] /\ PathOf[x] = PathOf[y] => x = y}
<1>0. ASSUME NEW x \in Positions, NEW y \in Positions,
             ItemOf[x] = ItemOf[y], PathOf[x] = PathOf[y], ItemOf[x] = x
      PROVE  x = y
  <2>1. ItemOf[y] # y => Len(PathOf[ItemOf[y]]) < Len(PathOf[y])
    BY ItemAbove
  <2>2. PathOf[ItemOf[y]] = PathOf[y]
    BY <1>0
  <2>3. PathOf[y] \in Seq(Texts)
    BY PathOfIs
  <2>4. Len(PathOf[y]) \in Nat
    BY <2>3
  <2> QED BY <1>0, <2>1, <2>2, <2>4
<1>1. <<>> \in F
  <2>1. <<>> \in Positions /\ ItemOf[<<>>] = <<>>
    BY ItemOfIs DEF Positions
  <2> QED BY <1>0, <2>1
<1>2. ASSUME NEW x \in Positions, x # <<>>, Front(x) \in F PROVE x \in F
  <2> SUFFICES ASSUME NEW y \in Positions, ItemOf[x] = ItemOf[y], PathOf[x] = PathOf[y],
                      ItemOf[x] # x, ItemOf[y] # y
               PROVE  x = y
    BY <1>0, <1>2
  <2>1. /\ Last(x).index = 0 /\ ItemOf[x] = ItemOf[Front(x)]
        /\ PathOf[x] = Append(PathOf[Front(x)], Last(x).key)
    BY <1>2, ItemOfIs, PathOfIs
  <2>2. y # <<>>
    BY ItemOfIs
  <2>3. /\ Last(y).index = 0 /\ ItemOf[y] = ItemOf[Front(y)]
        /\ PathOf[y] = Append(PathOf[Front(y)], Last(y).key)
    BY <2>2, ItemOfIs, PathOfIs
  <2>4. /\ Front(x) \in Positions /\ Last(x) \in Steps /\ x = Append(Front(x), Last(x))
        /\ Front(y) \in Positions /\ Last(y) \in Steps /\ y = Append(Front(y), Last(y))
    BY <1>2, <2>2, FrontOf
  <2> DEFINE a == Front(x)
             b == Front(y)
             k == Last(x)
             l == Last(y)
  <2>5. PathOf[a] \in Seq(Texts) /\ PathOf[b] \in Seq(Texts) /\ k.key \in Texts /\ l.key \in Texts
    BY <2>4, PathOfIs, StepsAre
  <2>6. Append(PathOf[a], k.key) = Append(PathOf[b], l.key)
    BY <2>1, <2>3
  <2>7. a \in F /\ b \in Positions /\ ItemOf[a] = ItemOf[b] /\ k.index = 0 /\ l.index = 0
        /\ k \in Steps /\ l \in Steps /\ x = Append(a, k) /\ y = Append(b, l)
    BY <1>2, <2>1, <2>3, <2>4
  <2> HIDE DEF a, b, k, l
  <2>8. PathOf[a] = PathOf[b] /\ k.key = l.key
    BY <2>5, <2>6, AppendApart
  <2>9. a = b
    BY <2>7, <2>8
  <2>10. k = l
    BY <2>7, <2>8 DEF Steps
  <2> QED BY <2>7, <2>9, <2>10
<1> HIDE DEF F
<1>3. p \in F
  BY <1>1, <1>2, PositionInduction
<1> QED BY <1>3 DEF F

-----------------------------------------------------------------------------
\* What the collector logs once the walk of an accepted value is over.

\* The items counted together with the one around a position.
Together(e, t, r, at) == DoneItems(e, t, r, Below(t, r), PathOf[ItemOf[at]])
DueTotal(e, t, r, at) == IF ItemOf[at] = r THEN 1 ELSE Cardinality(Together(e, t, r, at))

\* A told deviation, the item around it and the array that one is in.
LEMMA ToldItem ==
  ASSUME NEW e, NEW t, NEW ds, NEW pr, NEW r, Sound(e, t, ds, pr, r), IsStart(r),
         NEW d \in ToldIn(ds, Below(t, r))
  PROVE  /\ Described(e, r, d.at) /\ d.at \in Positions
         /\ Declared(e)[d.at].type \in {"never", "enum"}
         /\ ItemOf[d.at] # r =>
              /\ ItemOf[d.at] \in Together(e, t, r, d.at)
              /\ Front(ItemOf[d.at]) \in Below(t, r)
              /\ IsArray(e, t, Front(ItemOf[d.at]))
              /\ PathOf[Front(ItemOf[d.at])] = PathOf[ItemOf[d.at]]
<1>0. e \in Endpoints /\ r \in Positions /\ IsBody(t)
  BY SoundBody
<1>1. /\ d.at \in Below(t, r) /\ d.at \in DOMAIN t
      /\ Declared(e)[d.at].type \in {"never", "enum"}
  BY ToldAt
<1>2. d.at \in Positions /\ IsPrefix(r, d.at)
  BY <1>0, <1>1, BelowIs
<1>3. Described(e, r, d.at)
  BY <1>1, <1>2, Nodes DEF Described
<1> DEFINE p == ItemOf[d.at]
<1>4. ASSUME p # r
      PROVE  /\ p \in Together(e, t, r, d.at) /\ Front(p) \in Below(t, r)
             /\ IsArray(e, t, Front(p)) /\ PathOf[Front(p)] = PathOf[p]
  <2>1. p \in Positions /\ IsPrefix(p, d.at) /\ (p # <<>> => Last(p).index # 0)
    BY <1>2, ItemAbove
  <2>2. IsPrefix(r, p)
    <3> DEFINE F == {x \in Positions : IsPrefix(r, x) => IsPrefix(r, ItemOf[x])}
    <3>1. r = ItemOf[r]
      BY DEF IsStart
    <3>2. <<>> \in F
      BY <1>0, ItemOfIs DEF Positions
    <3>3. ASSUME NEW x \in Positions, x # <<>>, Front(x) \in F PROVE x \in F
      <4> SUFFICES ASSUME IsPrefix(r, x) PROVE IsPrefix(r, ItemOf[x])
        OBVIOUS
      <4>1. CASE x = r
        BY <1>0, <3>1, <4>1, PrefixFacts
      <4>2. CASE x # r
        <5>1. IsPrefix(r, Front(x))
          BY <1>0, <3>3, <4>2, PrefixOfFront
        <5>2. IsPrefix(r, ItemOf[Front(x)])
          BY <3>3, <5>1
        <5>3. ItemOf[x] = x \/ ItemOf[x] = ItemOf[Front(x)]
          BY <3>3, ItemOfIs
        <5> QED BY <5>2, <5>3
      <4> QED BY <4>1, <4>2
    <3> HIDE DEF F
    <3>4. d.at \in F
      BY <1>2, <3>2, <3>3, PositionInduction
    <3> QED BY <1>2, <3>4 DEF F
  <2> HIDE DEF p
  <2>3. p # <<>>
    BY <1>0, <1>4, <2>2, PrefixFacts
  <2>4. p \in DOMAIN t
    BY <1>0, <1>1, <2>1, BodyPrefix
  <2>5. Described(e, r, p) /\ IsItemOf(r, p)
    BY <1>0, <1>2, <1>3, <1>4, <2>1, <2>2, <2>3, DescribedAbove DEF IsItemOf
  <2>6. Declared(e)[Front(p)].type = "array"
    BY <1>0, <1>4, <2>5, DescribedStep
  <2>7. Front(p) \in DOMAIN t /\ Front(p) \in Positions /\ t[Front(p)].kind = "array"
    BY <1>0, <2>1, <2>3, <2>4, BodyAt
  <2>8. IsPrefix(r, Front(p))
    BY <1>0, <1>4, <2>1, <2>2, <2>3, PrefixOfFront
  <2>9. Front(p) \in Below(t, r) /\ p \in Below(t, r)
    BY <2>2, <2>4, <2>7, <2>8 DEF Below
  <2>10. PathOf[Front(p)] = PathOf[p]
    BY <2>1, <2>3, PathOfIs
  <2>11. IsArray(e, t, Front(p))
    BY <2>6, <2>7 DEF IsArray
  <2>12. p \in DoneItems(e, t, r, Below(t, r), PathOf[p])
    BY <1>4, <2>1, <2>3, <2>6, <2>9 DEF DoneItems
  <2> QED BY <2>9, <2>10, <2>11, <2>12 DEF Together, p
<1> QED BY <1>1, <1>2, <1>3, <1>4

\* The total of a line is the number of items looked at around what it tells of.
LEMMA TotalIs ==
  ASSUME NEW e, NEW t, NEW ds, NEW pr, NEW r, Sound(e, t, ds, pr, r), IsStart(r),
         Counts(e, t, r, Below(t, r), examined), NEW d \in ToldIn(ds, Below(t, r))
  PROVE  TotalOf(Around(r, d.at)) = DueTotal(e, t, r, d.at)
<1>1. CASE ItemOf[d.at] = r
  BY <1>1 DEF Around, TotalOf, DueTotal
<1>2. CASE ItemOf[d.at] # r
  <2> DEFINE path == PathOf[ItemOf[d.at]]
  <2>1. /\ Front(ItemOf[d.at]) \in Below(t, r) /\ IsArray(e, t, Front(ItemOf[d.at]))
        /\ PathOf[Front(ItemOf[d.at])] = path
    BY <1>2, ToldItem
  <2>2. path \in DOMAIN examined
    BY <2>1 DEF Counts
  <2>3. examined[path] = Cardinality(Together(e, t, r, d.at))
    BY <2>2 DEF Counts, Together
  <2>4. Around(r, d.at) = {path}
    BY <1>2 DEF Around
  <2> HIDE DEF path
  <2>5. TotalOf({path}) = examined[path]
    <3>1. {path} # {} /\ (CHOOSE x \in {path} : TRUE) = path
      OBVIOUS
    <3> QED BY <2>2, <3>1 DEF TotalOf
  <2> QED BY <1>2, <2>3, <2>4, <2>5 DEF DueTotal
<1> QED BY <1>1, <1>2

\* Deviations of one group lie inside the same arrays.
LEMMA GroupAround ==
  ASSUME NEW e, NEW t, NEW ds, NEW pr, NEW r, Sound(e, t, ds, pr, r), IsStart(r),
         NEW c \in ToldIn(ds, Below(t, r)), NEW d \in ToldIn(ds, Below(t, r)),
         GroupOf(c) = GroupOf(d)
  PROVE  Around(r, c.at) = Around(r, d.at) /\ PathOf[c.at] = PathOf[d.at]
<1>0. e \in Endpoints /\ r \in Positions
  BY SoundBody
<1>1. PathOf[c.at] = PathOf[d.at]
  BY DEF GroupOf, Group
<1>2. /\ Described(e, r, c.at) /\ Declared(e)[c.at].type \in {"never", "enum"}
      /\ Described(e, r, d.at) /\ Declared(e)[d.at].type \in {"never", "enum"}
  BY ToldItem
<1>3. Agree(e, r, c.at, d.at)
  BY <1>0, <1>2, OnePlace
<1>4. ASSUME NEW p, Described(e, r, p), IsItemOf(r, p)
      PROVE  Declared(e)[Front(p)].type = "array"
  BY <1>0, <1>4, DescribedStep DEF IsItemOf
<1>5. IsItemOf(r, c.at) <=> IsItemOf(r, d.at)
  BY <1>1, <1>2, <1>3, <1>4 DEF Agree
<1> QED BY <1>1, <1>3, <1>5 DEF Agree

\* What is told in one group.
OfGroup(ds, F, g) == {d \in ToldIn(ds, F) : GroupOf(d) = g}

\* No more of a group than items it lies in, and one at least.
LEMMA CountWithinTotal ==
  ASSUME NEW e, NEW t, NEW ds, NEW pr, NEW r, Sound(e, t, ds, pr, r), IsStart(r),
         NEW d \in ToldIn(ds, Below(t, r))
  PROVE  /\ Cardinality(OfGroup(ds, Below(t, r), GroupOf(d))) \in 1 .. DueTotal(e, t, r, d.at)
         /\ DueTotal(e, t, r, d.at) \in Nat
<1>0. /\ e \in Endpoints /\ r \in Positions /\ IsBody(t) /\ IsFiniteSet(ds)
      /\ \A b, c \in ds : b.at = c.at => b = c
  BY SoundBody
<1> DEFINE G == OfGroup(ds, Below(t, r), GroupOf(d))
           I == Together(e, t, r, d.at)
<1>1. d \in G /\ G \subseteq ds /\ G \subseteq ToldIn(ds, Below(t, r))
  BY DEF OfGroup, ToldIn
<1>2. \A x \in G : /\ Around(r, x.at) = Around(r, d.at) /\ PathOf[x.at] = PathOf[d.at]
                   /\ x.at \in Positions
                   /\ ItemOf[x.at] # r => ItemOf[x.at] \in Together(e, t, r, x.at)
  <2>1. ASSUME NEW x \in ToldIn(ds, Below(t, r)), GroupOf(x) = GroupOf(d)
        PROVE  Around(r, x.at) = Around(r, d.at) /\ PathOf[x.at] = PathOf[d.at]
    BY <2>1, GroupAround
  <2>2. ASSUME NEW x \in ToldIn(ds, Below(t, r))
        PROVE  /\ x.at \in Positions
               /\ ItemOf[x.at] # r => ItemOf[x.at] \in Together(e, t, r, x.at)
    BY <2>2, ToldItem
  <2> QED BY <2>1, <2>2 DEF OfGroup
<1>3. IsFiniteSet(I)
  <2>1. I \subseteq DOMAIN t /\ IsFiniteSet(DOMAIN t)
    BY <1>0 DEF Together, DoneItems, Below, IsBody
  <2> QED BY <2>1, FS_Subset
<1> HIDE DEF G, I
<1>4. IsFiniteSet(G) /\ Cardinality(G) \in Nat /\ Cardinality(G) # 0 /\ Cardinality(I) \in Nat
  <2>1. IsFiniteSet(G)
    BY <1>0, <1>1, FS_Subset
  <2>2. Cardinality(G) # 0
    BY <1>1, <2>1, FS_EmptySet
  <2> QED BY <1>3, <2>1, <2>2, FS_CardinalityType
<1>5. CASE ItemOf[d.at] = r
  <2>1. \A x \in G : ItemOf[x.at] = r
    BY <1>2, <1>5 DEF Around
  <2>2. \A x \in G : x = d
    <3> SUFFICES ASSUME NEW x \in G PROVE x = d
      OBVIOUS
    <3>1. x.at = d.at
      BY <1>1, <1>2, <1>5, <2>1, SameItem
    <3> QED BY <1>0, <1>1, <3>1
  <2>3. G = {d}
    BY <1>1, <2>2
  <2>4. Cardinality(G) = 1
    BY <2>3, FS_Singleton
  <2>5. DueTotal(e, t, r, d.at) = 1
    BY <1>5 DEF DueTotal
  <2> QED BY <2>4, <2>5 DEF G
<1>6. CASE ItemOf[d.at] # r
  <2>1. \A x \in G : ItemOf[x.at] \in I
    <3> SUFFICES ASSUME NEW x \in G PROVE ItemOf[x.at] \in I
      OBVIOUS
    <3>1. ItemOf[x.at] # r /\ PathOf[ItemOf[x.at]] = PathOf[ItemOf[d.at]]
      BY <1>2, <1>6 DEF Around
    <3>2. ItemOf[x.at] \in Together(e, t, r, x.at)
      BY <1>2, <3>1
    <3> QED BY <3>1, <3>2 DEF Together, I
  <2> DEFINE h == [x \in G |-> ItemOf[x.at]]
  <2>2. h \in Injection(G, I)
    <3>1. h \in [G -> I]
      BY <2>1
    <3>2. ASSUME NEW x \in G, NEW y \in G, h[x] = h[y] PROVE x = y
      <4>1. ItemOf[x.at] = ItemOf[y.at] /\ PathOf[x.at] = PathOf[y.at]
        BY <1>2, <3>2
      <4>2. x.at = y.at
        BY <1>2, <4>1, SameItem
      <4> QED BY <1>0, <1>1, <4>2
    <3> HIDE DEF h
    <3> QED BY <3>1, <3>2 DEF Injection, IsInjective
  <2>3. Cardinality(G) <= Cardinality(I)
    <3> HIDE DEF h
    <3> QED BY <1>3, <2>2, FS_Injection
  <2>4. DueTotal(e, t, r, d.at) = Cardinality(I)
    BY <1>6 DEF DueTotal, I
  <2> QED BY <1>4, <2>3, <2>4 DEF G
<1> QED BY <1>5, <1>6

-----------------------------------------------------------------------------
\* The calls of parseLenient, one after another: what the first n have given.

\* The value of the i-th call, the number of calls, those that hold a wrong
\* value, what the first n calls keep and drop, and the rows of what is kept.
Start(e, i)  == IF e \in PerItem THEN <<Item(i)>> ELSE <<>>
SizeOf(e, t) == IF e \in PerItem THEN t[<<>>].size ELSE 1
SpoiltIn(e, t, ds) ==
  {i \in 1 .. SizeOf(e, t) : \E d \in ds : IsPrefix(Start(e, i), d.at) /\ d.kind = "wrong"}
KeptUp(e, t, ds, n) == Listing((1 .. SizeOf(e, t)) \ SpoiltIn(e, t, ds), SizeOf(e, t))[n]
DroppedUp(e, t, ds, n) == Listing(SpoiltIn(e, t, ds), SizeOf(e, t))[n]
RowsOf(e, pr, K) == [n \in DOMAIN K |-> Part(pr, Start(e, K[n]))]

\* The lines due for the i-th call, and for the first n.
DueOf(e, t, ds, i) ==
  {Line(i, GroupOf(d), Cardinality(OfGroup(ds, Below(t, Start(e, i)), GroupOf(d))),
        DueTotal(e, t, Start(e, i), d.at)) : d \in ToldIn(ds, Below(t, Start(e, i)))}

DueUp(e, t, ds, n) == UNION {DueOf(e, t, ds, i) : i \in (1 .. n) \ SpoiltIn(e, t, ds)}

\* The result with these parts.
Result(threw, rows, dropped, lines) ==
  [threw |-> threw, rows |-> rows, dropped |-> dropped, lines |-> lines]

\* The result of the first n calls.
Gained(e, t, ds, pr, n) ==
  Result(FALSE, RowsOf(e, pr, KeptUp(e, t, ds, n)), DroppedUp(e, t, ds, n), DueUp(e, t, ds, n))

\* Where a validation begins.
LEMMA StartIs ==
  ASSUME NEW e \in Endpoints, NEW i \in Nat, i # 0
  PROVE  /\ IsStart(Start(e, i)) /\ Start(e, i) \in Positions
         /\ Declared(e)[Start(e, i)] = SchemaOf[e]
         /\ Frame(SchemaOf[e], Start(e, i), <<>>, {}) = FrameAt(e, Start(e, i), Start(e, i))
<1> DEFINE r == Start(e, i)
<1>0. /\ <<>> \in Positions /\ Declared(e)[<<>>] = Whole(e)
      /\ PathOf[<<>>] = <<>> /\ ItemOf[<<>>] = <<>>
  BY DeclaredIs, PathOfIs, ItemOfIs DEF Positions
<1>1. CASE e \notin PerItem
  <2>1. r = <<>> /\ Whole(e) = SchemaOf[e]
    BY <1>1 DEF Start, Whole
  <2>2. IsStart(r) /\ r \in Positions /\ Declared(e)[r] = SchemaOf[e]
    BY <1>0, <2>1 DEF IsStart
  <2> QED BY <2>2 DEF IsStart, FrameAt, Around
<1>2. CASE e \in PerItem
  <2>1. r = Append(<<>>, Item(i)) /\ Item(i) \in Steps /\ Item(i).index # 0
    <3>1. r = <<Item(i)>> /\ Item(i) \in Steps /\ Item(i).index # 0
      BY <1>2, StepsAre DEF Start
    <3> QED BY <3>1
  <2>2. r \in Positions /\ r # <<>> /\ Front(r) = <<>> /\ Last(r) = Item(i)
    BY <1>0, <2>1, AppendTo
  <2>3. PathOf[r] = <<>> /\ ItemOf[r] = r
    BY <1>0, <2>1, <2>2, PathOfIs, ItemOfIs
  <2>4. Declared(e)[r] = Inner(Whole(e), Item(i))
    BY <1>0, <2>2, DeclaredIs
  <2>5. Whole(e).type = "array" /\ Whole(e).element = SchemaOf[e]
    BY <1>2 DEF Whole, ArrayOf
  <2>6. Inner(Whole(e), Item(i)) = SchemaOf[e]
    BY <2>1, <2>5 DEF Inner
  <2>7. IsStart(r)
    BY <2>2, <2>3 DEF IsStart
  <2> QED BY <2>2, <2>3, <2>4, <2>6, <2>7 DEF FrameAt, Around
<1> QED BY <1>1, <1>2

\* There is a value for each call.
LEMMA SizeIs ==
  ASSUME NEW e \in Endpoints, NEW t, IsBody(t)
  PROVE  /\ SizeOf(e, t) \in Nat
         /\ e \notin PerItem \/ t[<<>>].kind = "array" =>
              \A i \in 1 .. SizeOf(e, t) : Start(e, i) \in DOMAIN t
<1>1. <<>> \in DOMAIN t /\ t[<<>>] \in Values
  BY BodyAt DEF IsBody
<1>2. SizeOf(e, t) \in Nat
  <2>1. t[<<>>].size \in Nat
    BY <1>1 DEF Values
  <2> QED BY <2>1 DEF SizeOf
<1>3. ASSUME e \notin PerItem PROVE \A i \in 1 .. SizeOf(e, t) : Start(e, i) \in DOMAIN t
  BY <1>1, <1>3 DEF Start
<1>4. ASSUME e \in PerItem, t[<<>>].kind = "array"
      PROVE  \A i \in 1 .. SizeOf(e, t) : Start(e, i) \in DOMAIN t
  <2>1. \A i \in 1 .. t[<<>>].size : Append(<<>>, Item(i)) \in DOMAIN t
    BY <1>1, <1>4, BodyAt
  <2>2. \A i : Append(<<>>, Item(i)) = <<Item(i)>>
    OBVIOUS
  <2> QED BY <1>4, <2>1, <2>2 DEF Start, SizeOf
<1> QED BY <1>2, <1>3, <1>4

\* A body that should be an array is none exactly when it is wrong itself.
LEMMA NoArray ==
  ASSUME NEW e \in Endpoints, NEW t, NEW ds, NEW pr, Drifted(e, t, ds, pr), e \in PerItem
  PROVE  /\ t[<<>>].kind # "array" <=> \E d \in ds : d.kind = "wrong" /\ d.at = <<>>
         /\ t[<<>>].kind # "array" => SizeOf(e, t) = 0
<1>1. /\ IsBody(t) /\ <<>> \in DOMAIN t /\ \A d \in ds : Shows(e, t, d)
      /\ (\A d \in ds : d.at # <<>>) => Fits(Declared(e)[<<>>], t[<<>>])
  BY DEF Drifted, IsBody
<1>2. Declared(e)[<<>>] = Whole(e) /\ Whole(e) \notin {Unknown, Never}
  <2>1. Whole(e).type = "array"
    BY DEF Whole, ArrayOf
  <2> QED BY <2>1, DeclaredIs, Nodes
<1>3. Whole(e).type = "array" /\ Whole(e).nullable = FALSE /\ KindsOf(Whole(e)) = {"array"}
  <2>1. Whole(e).type = "array" /\ Whole(e).nullable = FALSE
    BY DEF Whole, ArrayOf
  <2> QED BY <2>1 DEF KindsOf, KindOf
<1>4. ~Unmatched(e, <<>>) /\ ~Named(e, <<>>)
  BY DEF Unmatched, Named
<1> HIDE DEF Whole
<1>5. ASSUME t[<<>>].kind # "array"
      PROVE  \E d \in ds : d.kind = "wrong" /\ d.at = <<>> /\ t[<<>>].size = 0
  <2>1. ~Fits(Whole(e), t[<<>>])
    BY <1>3, <1>5 DEF Fits
  <2>2. PICK d \in ds : d.at = <<>>
    BY <1>1, <1>2, <2>1
  <2>3. Shows(e, t, d)
    BY <1>1
  <2>4. d.kind # "stripped" /\ d.kind # "extra"
    BY <1>2, <2>2, <2>3 DEF Shows
  <2>5. d.kind # "widened" /\ d.kind # "null" /\ d.kind # "absent"
    <3>1. /\ d.kind = "widened" => Declared(e)[d.at].type = "enum"
          /\ d.kind = "null" => Named(e, d.at)
          /\ d.kind = "absent" => d.at \notin DOMAIN t
      BY <2>3 DEF Shows
    <3> QED BY <1>1, <1>2, <1>3, <1>4, <2>2, <3>1
  <2>6. d.kind \in {"stripped", "extra", "widened", "null", "absent", "wrong"}
    BY <2>3 DEF Shows, Deviation
  <2>7. d.kind = "wrong"
    BY <2>4, <2>5, <2>6
  <2>8. t[<<>>].size = 0
    <3>1. d.kind # "absent" => t[d.at].size = 0
      BY <2>3 DEF Shows
    <3> QED BY <2>2, <2>7, <3>1
  <2> QED BY <2>2, <2>7, <2>8
<1>6. ASSUME NEW d \in ds, d.kind = "wrong", d.at = <<>> PROVE t[<<>>].kind # "array"
  <2>1. IsMisfit(e, <<>>, t[<<>>])
    <3>1. Shows(e, t, d)
      BY <1>1
    <3>2. IsMisfit(e, d.at, t[d.at])
      BY <1>6, <3>1 DEF Shows
    <3> QED BY <1>6, <3>2
  <2> QED BY <1>2, <1>3, <1>4, <2>1 DEF IsMisfit
<1> QED BY <1>5, <1>6 DEF SizeOf

\* A value is accepted unless it is spoilt.
LEMMA SpoiltIs ==
  ASSUME NEW e \in Endpoints, NEW t, NEW ds, NEW pr, Drifted(e, t, ds, pr), IsFiniteSet(ds),
         NEW i \in 1 .. SizeOf(e, t)
  PROVE  /\ Accepts(e, t, Start(e, i)) <=> i \notin SpoiltIn(e, t, ds)
         /\ i \notin SpoiltIn(e, t, ds) => Sound(e, t, ds, pr, Start(e, i))
<1>1. IsBody(t)
  BY DEF Drifted
<1>2. i \in Nat /\ i # 0
  BY <1>1, SizeIs
<1>3. Start(e, i) \in Positions
  BY <1>2, StartIs
<1>4. Accepts(e, t, Start(e, i)) <=>
        \A d \in ds : IsPrefix(Start(e, i), d.at) => d.kind # "wrong"
  BY <1>3, AcceptsUnlessWrong
<1>5. Accepts(e, t, Start(e, i)) <=> i \notin SpoiltIn(e, t, ds)
  BY <1>4 DEF SpoiltIn
<1> QED BY <1>3, <1>5 DEF Sound

\* Of the first n numbers, a listing has n at the most.
LEMMA ListingLength ==
  ASSUME NEW S, NEW m \in Nat, NEW n \in 0 .. m
  PROVE  Listing(S, m)[n] \in Seq(Nat) /\ Len(Listing(S, m)[n]) <= n
<1> DEFINE l == Listing(S, m)
           F == {k \in Nat : k <= m => Len(l[k]) <= k}
<1>1. /\ l \in [0 .. m -> Seq(Nat)] /\ l[0] = <<>>
      /\ \A k \in 1 .. m : l[k] = IF k \in S THEN Append(l[k - 1], k) ELSE l[k - 1]
  BY ListingIs
<1> HIDE DEF l
<1>2. 0 \in F
  BY <1>1
<1>3. ASSUME NEW k \in Nat, k \in F PROVE k + 1 \in F
  <2> SUFFICES ASSUME k + 1 <= m PROVE Len(l[k + 1]) <= k + 1
    OBVIOUS
  <2>1. k + 1 \in 1 .. m /\ (k + 1) - 1 = k /\ k \in 0 .. m /\ Len(l[k]) <= k
    BY <1>3
  <2>2. l[k] \in Seq(Nat)
    BY <1>1, <2>1
  <2>3. l[k + 1] = l[k] \/ l[k + 1] = Append(l[k], k + 1)
    BY <1>1, <2>1
  <2>4. Len(Append(l[k], k + 1)) = Len(l[k]) + 1 /\ Len(l[k]) \in Nat
    BY <2>2
  <2> QED BY <2>1, <2>3, <2>4
<1> HIDE DEF F
<1>4. n \in F
  BY <1>2, <1>3, NatSetInduction
<1> QED BY <1>1, <1>4 DEF F, l

\* One more item: kept, or dropped.
LEMMA ListedIs ==
  ASSUME NEW e \in Endpoints, NEW t, IsBody(t), NEW ds, NEW i \in 1 .. SizeOf(e, t)
  PROVE  /\ KeptUp(e, t, ds, i) = IF i \in SpoiltIn(e, t, ds) THEN KeptUp(e, t, ds, i - 1)
                                  ELSE Append(KeptUp(e, t, ds, i - 1), i)
         /\ DroppedUp(e, t, ds, i) = IF i \in SpoiltIn(e, t, ds)
                                     THEN Append(DroppedUp(e, t, ds, i - 1), i)
                                     ELSE DroppedUp(e, t, ds, i - 1)
         /\ KeptUp(e, t, ds, i - 1) \in Seq(Nat)
<1>1. SizeOf(e, t) \in Nat
  BY SizeIs
<1>2. i - 1 \in 0 .. SizeOf(e, t)
  BY <1>1
<1> DEFINE X == SpoiltIn(e, t, ds)
           N == SizeOf(e, t)
<1> HIDE DEF X, N
<1>3. /\ Listing((1 .. N) \ X, N)[i] =
           IF i \in (1 .. N) \ X THEN Append(Listing((1 .. N) \ X, N)[i - 1], i)
           ELSE Listing((1 .. N) \ X, N)[i - 1]
      /\ Listing(X, N)[i] = IF i \in X THEN Append(Listing(X, N)[i - 1], i)
                            ELSE Listing(X, N)[i - 1]
      /\ Listing((1 .. N) \ X, N)[i - 1] \in Seq(Nat)
  <2>1. N \in Nat
    BY <1>1 DEF N
  <2>2. i \in 1 .. N /\ i - 1 \in 0 .. N
    BY <1>2 DEF N
  <2>3. ASSUME NEW S
        PROVE  /\ Listing(S, N)[i] = IF i \in S THEN Append(Listing(S, N)[i - 1], i)
                                     ELSE Listing(S, N)[i - 1]
               /\ Listing(S, N)[i - 1] \in Seq(Nat)
    BY <2>1, <2>2, ListingIs
  <2> QED BY <2>3
<1>4. i \in 1 .. N
  BY DEF N
<1> QED BY <1>3, <1>4 DEF KeptUp, DroppedUp, X, N

\* One more kept is one more row.
LEMMA RowsMore ==
  ASSUME NEW e, NEW pr, NEW K \in Seq(Nat), NEW i \in Nat
  PROVE  RowsOf(e, pr, Append(K, i)) = Append(RowsOf(e, pr, K), Part(pr, Start(e, i)))
<1> DEFINE P(k) == Part(pr, Start(e, k))
           V == {P(k) : k \in Nat}
           R == RowsOf(e, pr, K)
           L == Append(K, i)
<1>1. R = [n \in DOMAIN K |-> P(K[n])] /\ RowsOf(e, pr, L) = [n \in DOMAIN L |-> P(L[n])]
  BY DEF RowsOf
<1>2. /\ DOMAIN K = 1 .. Len(K) /\ Len(K) \in Nat
      /\ \A n \in DOMAIN K : K[n] \in Nat
  OBVIOUS
<1>3. /\ DOMAIN L = 1 .. Len(K) + 1 /\ L[Len(K) + 1] = i
      /\ \A n \in 1 .. Len(K) : L[n] = K[n]
  OBVIOUS
<1>4. P(i) \in V /\ \A n \in DOMAIN K : P(K[n]) \in V
  BY <1>2
<1> HIDE DEF P, V, L
<1>5. R \in [1 .. Len(K) -> V]
  BY <1>1, <1>2, <1>4
<1> DEFINE v == P(i)
           A == Append(R, v)
<1>6. v \in V
  BY <1>4
<1> HIDE DEF R, v
<1>7. R \in Seq(V) /\ Len(R) = Len(K)
  <2>1. R \in Seq(V)
    BY <1>2, <1>5
  <2>2. Len(R) \in Nat /\ \A n \in Nat : n \in 1 .. Len(R) <=> n \in 1 .. Len(K)
    BY <1>5, <2>1
  <2> QED BY <1>2, <2>1, <2>2
<1>8. /\ A \in Seq(V) /\ DOMAIN A = 1 .. Len(R) + 1 /\ A[Len(R) + 1] = v
      /\ \A n \in 1 .. Len(R) : A[n] = R[n]
  <2>1. A \in Seq(V)
    BY <1>6, <1>7, AppendIn
  <2>2. DOMAIN A = 1 .. Len(R) + 1 /\ A[Len(R) + 1] = v
    BY <1>6, <1>7
  <2>3. \A n \in 1 .. Len(R) : A[n] = R[n]
    BY <1>6, <1>7
  <2> QED BY <2>1, <2>2, <2>3
<1> HIDE DEF A
<1>9. A = [n \in DOMAIN A |-> A[n]]
  <2>1. A \in [1 .. Len(A) -> V]
    BY <1>8
  <2> QED BY <2>1
<1>10. \A n \in DOMAIN A : A[n] = P(L[n])
  <2> SUFFICES ASSUME NEW n \in DOMAIN A PROVE A[n] = P(L[n])
    OBVIOUS
  <2>1. CASE n = Len(K) + 1
    BY <1>3, <1>7, <1>8, <2>1 DEF v
  <2>2. CASE n \in 1 .. Len(K)
    BY <1>1, <1>2, <1>3, <1>7, <1>8, <2>2 DEF R
  <2>3. n = Len(K) + 1 \/ n \in 1 .. Len(K)
    BY <1>2, <1>7, <1>8
  <2> QED BY <2>1, <2>2, <2>3
<1>11. A = [n \in DOMAIN L |-> P(L[n])]
  BY <1>3, <1>7, <1>8, <1>9, <1>10
<1> QED BY <1>1, <1>11 DEF A, v, P, R, L

\* Before the first call nothing is gained.
LEMMA GainedNothing ==
  ASSUME NEW e \in Endpoints, NEW t, IsBody(t), NEW ds, NEW pr
  PROVE  Gained(e, t, ds, pr, 0) = NoResult
<1>1. KeptUp(e, t, ds, 0) = <<>> /\ DroppedUp(e, t, ds, 0) = <<>>
  BY SizeIs, ListingIs DEF KeptUp, DroppedUp
<1>2. RowsOf(e, pr, <<>>) = <<>>
  BY DEF RowsOf
<1>3. DueUp(e, t, ds, 0) = {}
  BY DEF DueUp
<1> QED BY <1>1, <1>2, <1>3 DEF Gained, NoResult, Result

\* The fields of a result.
ResultFields == {"threw", "rows", "dropped", "lines"}

\* A result with these parts, field by field.
IsResult(g, threw, rows, dropped, lines) ==
  /\ g = [f \in ResultFields |-> g[f]]
  /\ g.threw = threw /\ g.rows = rows /\ g.dropped = dropped /\ g.lines = lines

\* The two say the same, one way
LEMMA ResultIs ==
  ASSUME NEW threw, NEW rows, NEW dropped, NEW lines
  PROVE  IsResult(Result(threw, rows, dropped, lines), threw, rows, dropped, lines)
BY DEF Result, IsResult, ResultFields

\* and the other.
LEMMA OneResult ==
  ASSUME NEW threw, NEW rows, NEW dropped, NEW lines,
         NEW g, IsResult(g, threw, rows, dropped, lines)
  PROVE  g = Result(threw, rows, dropped, lines)
<1> DEFINE h == Result(threw, rows, dropped, lines)
<1>1. IsResult(h, threw, rows, dropped, lines)
  BY ResultIs
<1> HIDE DEF h
<1>2. g = h
  BY <1>1 DEF IsResult, ResultFields
<1> QED BY <1>2 DEF h

\* What the i-th call adds: a row and its lines, or one more dropped.
LEMMA GainedOne ==
  ASSUME NEW e \in Endpoints, NEW t, IsBody(t), NEW ds, NEW pr,
         NEW i \in 1 .. SizeOf(e, t)
  PROVE  /\ i \notin SpoiltIn(e, t, ds) =>
              Gained(e, t, ds, pr, i) =
                Result(FALSE,
                       Append(RowsOf(e, pr, KeptUp(e, t, ds, i - 1)), Part(pr, Start(e, i))),
                       DroppedUp(e, t, ds, i - 1),
                       DueUp(e, t, ds, i - 1) \cup DueOf(e, t, ds, i))
         /\ i \in SpoiltIn(e, t, ds) =>
              Gained(e, t, ds, pr, i) =
                Result(FALSE, RowsOf(e, pr, KeptUp(e, t, ds, i - 1)),
                       Append(DroppedUp(e, t, ds, i - 1), i), DueUp(e, t, ds, i - 1))
<1>0. i \in Nat /\ (1 .. i) = (1 .. i - 1) \cup {i}
  BY SizeIs
<1> DEFINE X == SpoiltIn(e, t, ds)
<1>1. ASSUME i \notin X
      PROVE  Gained(e, t, ds, pr, i) =
                Result(FALSE,
                       Append(RowsOf(e, pr, KeptUp(e, t, ds, i - 1)), Part(pr, Start(e, i))),
                       DroppedUp(e, t, ds, i - 1),
                       DueUp(e, t, ds, i - 1) \cup DueOf(e, t, ds, i))
  <2>1. /\ KeptUp(e, t, ds, i) = Append(KeptUp(e, t, ds, i - 1), i)
        /\ DroppedUp(e, t, ds, i) = DroppedUp(e, t, ds, i - 1)
        /\ KeptUp(e, t, ds, i - 1) \in Seq(Nat)
    BY <1>1, ListedIs
  <2>2. RowsOf(e, pr, KeptUp(e, t, ds, i)) =
          Append(RowsOf(e, pr, KeptUp(e, t, ds, i - 1)), Part(pr, Start(e, i)))
    BY <1>0, <2>1, RowsMore
  <2>3. DueUp(e, t, ds, i) = DueUp(e, t, ds, i - 1) \cup DueOf(e, t, ds, i)
    <3>1. \A n, x : x \in DueUp(e, t, ds, n) <=>
            \E j \in (1 .. n) \ SpoiltIn(e, t, ds) : x \in DueOf(e, t, ds, j)
      BY DEF DueUp
    <3>2. \A j : j \in (1 .. i) \ SpoiltIn(e, t, ds) <=>
                 j \in (1 .. i - 1) \ SpoiltIn(e, t, ds) \/ j = i
      BY <1>0, <1>1
    <3>3. \A x : x \in DueUp(e, t, ds, i) <=>
                 x \in DueUp(e, t, ds, i - 1) \/ x \in DueOf(e, t, ds, i)
      BY <3>1, <3>2
    <3> QED BY <3>3
  <2> HIDE DEF X
  <2> QED BY <2>1, <2>2, <2>3 DEF Gained
<1>2. ASSUME i \in X
      PROVE  Gained(e, t, ds, pr, i) =
                Result(FALSE, RowsOf(e, pr, KeptUp(e, t, ds, i - 1)),
                       Append(DroppedUp(e, t, ds, i - 1), i), DueUp(e, t, ds, i - 1))
  <2>1. /\ KeptUp(e, t, ds, i) = KeptUp(e, t, ds, i - 1)
        /\ DroppedUp(e, t, ds, i) = Append(DroppedUp(e, t, ds, i - 1), i)
    BY <1>2, ListedIs
  <2>2. DueUp(e, t, ds, i) = DueUp(e, t, ds, i - 1)
    <3> HIDE DEF X
    <3>1. (1 .. i) \ X = (1 .. i - 1) \ X
      BY <1>0, <1>2
    <3> QED BY <3>1 DEF DueUp, X
  <2> HIDE DEF X
  <2> QED BY <2>1, <2>2 DEF Gained
<1> QED BY <1>1, <1>2

-----------------------------------------------------------------------------
\* The lines that are logged, and those that are due.

\* A group's count and total, once the walk is over.
LEMMA LineOf ==
  ASSUME NEW e, NEW t, NEW ds, NEW pr, NEW r, Sound(e, t, ds, pr, r), IsStart(r),
         Logged(ds, r, Below(t, r), groups), Counts(e, t, r, Below(t, r), examined),
         NEW d \in ToldIn(ds, Below(t, r))
  PROVE  /\ GroupOf(d) \in DOMAIN groups
         /\ groups[GroupOf(d)].count = Cardinality(OfGroup(ds, Below(t, r), GroupOf(d)))
         /\ TotalOf(groups[GroupOf(d)].within) = DueTotal(e, t, r, d.at)
<1> DEFINE g == GroupOf(d)
<1>1. g \in DOMAIN groups
  BY DEF Logged
<1>2. groups[g].count = Cardinality(OfGroup(ds, Below(t, r), g))
  BY <1>1 DEF Logged, OfGroup
<1>3. \E c \in ToldIn(ds, Below(t, r)) : GroupOf(c) = g /\ groups[g].within = Around(r, c.at)
  BY <1>1 DEF Logged
<1>4. ASSUME NEW c \in ToldIn(ds, Below(t, r)), GroupOf(c) = GroupOf(d)
      PROVE  Around(r, c.at) = Around(r, d.at)
  BY <1>4, GroupAround
<1>5. groups[g].within = Around(r, d.at)
  BY <1>3, <1>4
<1>6. TotalOf(Around(r, d.at)) = DueTotal(e, t, r, d.at)
  BY TotalIs
<1> QED BY <1>1, <1>2, <1>5, <1>6

\* What flush logs are the lines due.
LEMMA FlushIs ==
  ASSUME NEW e, NEW t, NEW ds, NEW pr, NEW i, Sound(e, t, ds, pr, Start(e, i)),
         IsStart(Start(e, i)), Logged(ds, Start(e, i), Below(t, Start(e, i)), groups),
         Counts(e, t, Start(e, i), Below(t, Start(e, i)), examined)
  PROVE  Flush(i) = DueOf(e, t, ds, i)
<1> DEFINE r == Start(e, i)
           T == ToldIn(ds, Below(t, r))
           F(g) == Line(i, g, groups[g].count, TotalOf(groups[g].within))
           G(d) == Line(i, GroupOf(d), Cardinality(OfGroup(ds, Below(t, r), GroupOf(d))),
                        DueTotal(e, t, r, d.at))
<1>1. DOMAIN groups = {GroupOf(d) : d \in T}
  BY DEF Logged
<1>2. ASSUME NEW d \in T PROVE F(GroupOf(d)) = G(d)
  <2>1. /\ groups[GroupOf(d)].count = Cardinality(OfGroup(ds, Below(t, r), GroupOf(d)))
        /\ TotalOf(groups[GroupOf(d)].within) = DueTotal(e, t, r, d.at)
    BY LineOf
  <2> QED BY <2>1
<1>3. Flush(i) = {F(g) : g \in DOMAIN groups}
  BY DEF Flush
<1>4. DueOf(e, t, ds, i) = {G(d) : d \in T}
  BY DEF DueOf
<1> HIDE DEF F, G, T
<1>5. {F(g) : g \in DOMAIN groups} = {G(d) : d \in T}
  BY <1>1, <1>2
<1> QED BY <1>3, <1>4, <1>5

\* The reference's lines are those: what is told of stands in the body.
LEMMA DueIs ==
  ASSUME Drifted(endpoint, body, deviations, promised), endpoint \in Endpoints,
         NEW i \in Nat, i # 0
  PROVE  LinesDue(i) = DueOf(endpoint, body, deviations, i)
<1> DEFINE r == Start(endpoint, i)
           T == ToldIn(deviations, Below(body, r))
<1>0. /\ IsBody(body) /\ r \in Positions /\ Root(i) = r
      /\ \A d \in deviations : Shows(endpoint, body, d)
  BY StartIs DEF Drifted, Root, Start
<1>1. Told(i) = T
  <2>1. ASSUME NEW d \in deviations, d.kind \in {"stripped", "widened"}
        PROVE  d.at \in DOMAIN body
    <3>1. Shows(endpoint, body, d)
      BY <1>0
    <3> QED BY <2>1, <3>1 DEF Shows
  <2> QED BY <1>0, <2>1 DEF Told, Under, ToldIn, Below
<1>2. ASSUME NEW path
      PROVE  ItemsAt(i, path) = DoneItems(endpoint, body, r, Below(body, r), path)
  <2>1. ASSUME NEW p \in Below(body, r) \ {r} PROVE Front(p) \in Below(body, r)
    <3>1. p \in DOMAIN body /\ p \in Positions /\ IsPrefix(r, p) /\ p # r
      BY <1>0, <2>1, BelowIs
    <3>2. p # <<>>
      BY <1>0, <3>1, PrefixFacts
    <3>3. Front(p) \in DOMAIN body
      BY <1>0, <3>1, <3>2, BodyAt
    <3>4. IsPrefix(r, Front(p))
      BY <1>0, <3>1, <3>2, PrefixOfFront
    <3> QED BY <3>3, <3>4 DEF Below
  <2> QED BY <1>0, <2>1 DEF ItemsAt, DoneItems
<1>3. ASSUME NEW at PROVE ItemsAround(i, at) = DueTotal(endpoint, body, r, at)
  BY <1>0, <1>2 DEF ItemsAround, DueTotal, Together
<1> HIDE DEF r, T
<1>4. LinesDue(i) =
        {Line(i, GroupOf(d), Cardinality({e \in T : GroupOf(e) = GroupOf(d)}),
              DueTotal(endpoint, body, r, d.at)) : d \in T}
  BY <1>1, <1>3 DEF LinesDue
<1> QED BY <1>4 DEF DueOf, OfGroup, r, T

\* A line counts no more than was looked at.
LEMMA DueCounts ==
  ASSUME NEW e \in Endpoints, NEW t, NEW ds, NEW pr, Drifted(e, t, ds, pr), IsFiniteSet(ds),
         NEW i \in (1 .. SizeOf(e, t)) \ SpoiltIn(e, t, ds), NEW l \in DueOf(e, t, ds, i)
  PROVE  l.count \in 1 .. l.total
<1> DEFINE r == Start(e, i)
<1>1. i \in Nat /\ i # 0
  <2>1. IsBody(t)
    BY DEF Drifted
  <2> QED BY <2>1, SizeIs
<1>2. IsStart(r) /\ Sound(e, t, ds, pr, r)
  BY <1>1, StartIs, SpoiltIs
<1>3. PICK d \in ToldIn(ds, Below(t, r)) :
        l = Line(i, GroupOf(d), Cardinality(OfGroup(ds, Below(t, r), GroupOf(d))),
                 DueTotal(e, t, r, d.at))
  BY DEF DueOf
<1> HIDE DEF r
<1>4. Cardinality(OfGroup(ds, Below(t, r), GroupOf(d))) \in 1 .. DueTotal(e, t, r, d.at)
  BY <1>2, CountWithinTotal
<1>5. /\ l.count = Cardinality(OfGroup(ds, Below(t, r), GroupOf(d)))
      /\ l.total = DueTotal(e, t, r, d.at)
  BY <1>3 DEF Line
<1> QED BY <1>4, <1>5

-----------------------------------------------------------------------------
\* The client's side of the state, in every step: what the calls of
\* parseLenient made so far have given, and where the one under way is.

\* The first i - 1 calls are over, and none of a single value has failed.
Partway(e, t, ds, pr, i, res) ==
  /\ e \in PerItem => t[<<>>].kind = "array"
  /\ i \in 1 .. SizeOf(e, t) + 1
  /\ e \notin PerItem => SpoiltIn(e, t, ds) \cap (1 .. i - 1) = {}
  /\ res = Gained(e, t, ds, pr, i - 1)

\* The warning for what was dropped, if anything was.
DropWarning(e, t, ds) ==
  LET D == DroppedUp(e, t, ds, SizeOf(e, t))
  IN  IF D = <<>> THEN {} ELSE {Warning("dropped", Len(D), SizeOf(e, t), Reported(D))}

\* The three ways to end: no array at all,
NotAnArray(e, t, res) ==
  /\ e \in PerItem /\ t[<<>>].kind # "array"
  /\ res = Result(FALSE, <<>>, <<>>, {Warning("not an array", 1, 1, <<>>)})

\* a single value that is refused,
Refused(e, t, ds, res) ==
  /\ e \notin PerItem /\ 1 \in SpoiltIn(e, t, ds)
  /\ res = Result(TRUE, <<>>, <<>>, {})

\* and rows, with the lines for all of the calls.
Returned(e, t, ds, pr, res) ==
  /\ e \in PerItem => t[<<>>].kind = "array"
  /\ e \notin PerItem => SpoiltIn(e, t, ds) = {}
  /\ res = Result(FALSE, RowsOf(e, pr, KeptUp(e, t, ds, SizeOf(e, t))),
                  DroppedUp(e, t, ds, SizeOf(e, t)),
                  DueUp(e, t, ds, SizeOf(e, t)) \cup DropWarning(e, t, ds))

Complete(e, t, ds, pr, res) ==
  NotAnArray(e, t, res) \/ Refused(e, t, ds, res) \/ Returned(e, t, ds, pr, res)

\* The walk of the i-th value is under way.
Underway(e, t, ds, pr, i, fs, cl, gs, ex) ==
  /\ i \in (1 .. SizeOf(e, t)) \ SpoiltIn(e, t, ds)
  /\ WalkOf(e, t, ds, pr, Start(e, i), fs, cl, gs, ex)

\* The client's side of the invariant.
ParseInv ==
  /\ stage \in {"idle", "answering"} => index = 1 /\ result = NoResult
  /\ stage # "cleaning" =>
       frames = {} /\ cleaned = Nothing /\ groups = Nothing /\ examined = Nothing
  /\ stage \in {"parsing", "cleaning"} =>
       Partway(endpoint, body, deviations, promised, index, result)
  /\ stage = "cleaning" =>
       Underway(endpoint, body, deviations, promised, index, frames, cleaned, groups, examined)
  /\ stage = "validated" => Complete(endpoint, body, deviations, promised, result)

\* The invariant: both sides.
LeniencyInv == DriftInv /\ ParseInv

\* What the server's side gives once there is a body.
LEMMA DriftInvIs ==
  ASSUME DriftInv, stage # "idle"
  PROVE  /\ endpoint \in Endpoints /\ IsFiniteSet(deviations) /\ IsBody(body)
         /\ Drifted(endpoint, body, deviations, promised)
         /\ SizeOf(endpoint, body) \in Nat
<1>1. /\ endpoint \in Endpoints /\ IsFiniteSet(deviations)
      /\ Drifted(endpoint, body, deviations, promised)
  BY DEF DriftInv
<1>2. IsBody(body)
  BY <1>1 DEF Drifted
<1> QED BY <1>1, <1>2, SizeIs

\* Nothing has been parsed before the first call.
LEMMA ParseInvInit ==
  ASSUME LeniencyInit
  PROVE  ParseInv
BY DEF LeniencyInit, ParseInv

\* A call of the client keeps the client's side in order.
LEMMA CallPreserves ==
  ASSUME LeniencyInv, NEW e \in Endpoints, Call(e)
  PROVE  ParseInv'
BY DEF LeniencyInv, ParseInv, Call, walkVars

\* So does the drift, which is over before the parse begins.
LEMMA DriftsPreserves ==
  ASSUME LeniencyInv, Drifts
  PROVE  ParseInv'
<1>1. stage = "answering" /\ UNCHANGED <<stage, index, walkVars, result>>
  BY DEF Drifts, UndocumentedKey, UnmatchedKey, UnlistedMember, NullField, AbsentField,
         WrongValue, Drift
<1> QED BY <1>1 DEF LeniencyInv, ParseInv, walkVars

\* So does the body's arrival: no array, or no call made yet.
LEMMA ValidatePreserves ==
  ASSUME LeniencyInv, Validate
  PROVE  ParseInv'
<1>1. /\ stage = "answering" /\ index = 1 /\ result = NoResult
      /\ frames = {} /\ cleaned = Nothing /\ groups = Nothing /\ examined = Nothing
  BY DEF LeniencyInv, ParseInv, Validate
<1>2. UNCHANGED <<serverVars, index, walkVars>>
  BY DEF Validate
<1>3. /\ endpoint \in Endpoints /\ IsBody(body) /\ SizeOf(endpoint, body) \in Nat
  BY <1>1, DriftInvIs DEF LeniencyInv
<1>4. CASE endpoint \in PerItem /\ body[<<>>].kind # "array"
  <2>1. /\ stage' = "validated"
        /\ result' = [result EXCEPT !.lines = {Warning("not an array", 1, 1, <<>>)}]
    BY <1>4 DEF Validate
  <2>2. result' = Result(FALSE, <<>>, <<>>, {Warning("not an array", 1, 1, <<>>)})
    BY <1>1, <2>1 DEF NoResult, Result
  <2>3. NotAnArray(endpoint, body, result')
    BY <1>4, <2>2 DEF NotAnArray
  <2> QED BY <1>1, <1>2, <2>1, <2>3 DEF ParseInv, Complete, serverVars, walkVars
<1>5. CASE ~(endpoint \in PerItem /\ body[<<>>].kind # "array")
  <2>1. stage' = "parsing" /\ result' = NoResult
    BY <1>1, <1>5 DEF Validate
  <2>2. NoResult = Gained(endpoint, body, deviations, promised, 1 - 1)
    BY <1>3, GainedNothing
  <2>3. 1 \in 1 .. SizeOf(endpoint, body) + 1 /\ (1 .. 1 - 1) = {}
    BY <1>3
  <2>4. Partway(endpoint, body, deviations, promised, 1, NoResult)
    BY <1>5, <2>2, <2>3 DEF Partway
  <2> QED BY <1>1, <1>2, <2>1, <2>4 DEF ParseInv, serverVars, walkVars
<1> QED BY <1>4, <1>5

\* What a call of parseLenient finds.
LEMMA ParsingIs ==
  ASSUME LeniencyInv, stage = "parsing", index <= Size
  PROVE  /\ endpoint \in Endpoints /\ IsBody(body) /\ index \in 1 .. SizeOf(endpoint, body)
         /\ Drifted(endpoint, body, deviations, promised) /\ IsFiniteSet(deviations)
         /\ Partway(endpoint, body, deviations, promised, index, result)
         /\ Root(index) = Start(endpoint, index) /\ IsStart(Start(endpoint, index))
         /\ Accepts(endpoint, body, Root(index))
              <=> index \notin SpoiltIn(endpoint, body, deviations)
         /\ frames = {} /\ cleaned = Nothing /\ groups = Nothing /\ examined = Nothing
<1>1. /\ endpoint \in Endpoints /\ IsFiniteSet(deviations) /\ IsBody(body)
      /\ Drifted(endpoint, body, deviations, promised)
      /\ SizeOf(endpoint, body) \in Nat
  BY DriftInvIs DEF LeniencyInv
<1>2. /\ Partway(endpoint, body, deviations, promised, index, result)
      /\ frames = {} /\ cleaned = Nothing /\ groups = Nothing /\ examined = Nothing
  BY DEF LeniencyInv, ParseInv
<1>3. index \in 1 .. SizeOf(endpoint, body)
  <2>1. Size = SizeOf(endpoint, body)
    BY DEF Size, SizeOf
  <2>2. index \in 1 .. SizeOf(endpoint, body) + 1
    BY <1>2 DEF Partway
  <2> QED BY <1>1, <2>1, <2>2
<1>4. Root(index) = Start(endpoint, index)
  BY DEF Root, Start
<1>5. index \in Nat /\ index # 0
  BY <1>1, <1>3
<1>6. IsStart(Start(endpoint, index))
  BY <1>1, <1>5, StartIs
<1>7. Accepts(endpoint, body, Start(endpoint, index))
        <=> index \notin SpoiltIn(endpoint, body, deviations)
  BY <1>1, <1>3, SpoiltIs
<1> QED BY <1>1, <1>2, <1>3, <1>4, <1>6, <1>7

\* So does the start of a walk.
LEMMA ParsePreserves ==
  ASSUME LeniencyInv, Parse
  PROVE  ParseInv'
<1>1. /\ stage = "parsing" /\ index <= Size /\ Accepts(endpoint, body, Root(index))
      /\ stage' = "cleaning" /\ frames' = {Frame(SchemaOf[endpoint], Root(index), <<>>, {})}
      /\ UNCHANGED <<serverVars, index, cleaned, groups, examined, result>>
  BY DEF Parse
<1> DEFINE r == Start(endpoint, index)
<1>2. /\ endpoint \in Endpoints /\ IsBody(body) /\ index \in 1 .. SizeOf(endpoint, body)
      /\ Drifted(endpoint, body, deviations, promised) /\ IsFiniteSet(deviations)
      /\ Partway(endpoint, body, deviations, promised, index, result)
      /\ Root(index) = r /\ index \notin SpoiltIn(endpoint, body, deviations)
      /\ cleaned = Nothing /\ groups = Nothing /\ examined = Nothing
  BY <1>1, ParsingIs
<1>3. Sound(endpoint, body, deviations, promised, r)
  BY <1>2, SpoiltIs
<1>4. r \in DOMAIN body
  BY <1>2, SizeIs DEF Partway
<1>5. Frame(SchemaOf[endpoint], r, <<>>, {}) = FrameAt(endpoint, r, r)
  <2>1. index \in Nat /\ index # 0
    BY <1>2, SizeIs
  <2> QED BY <1>2, <2>1, StartIs
<1> DEFINE f == FrameAt(endpoint, r, r)
<1>6. WalkOf(endpoint, body, deviations, promised, r, {f}, cleaned, groups, examined)
  <2>1. WalkOf(endpoint, body, deviations, promised, r, {f}, cleaned, cleaned, cleaned)
    BY <1>2, <1>3, <1>4, WalkBegins, Zenon
  <2> QED BY <1>2, <2>1
<1>7. frames' = {f}
  BY <1>1, <1>2, <1>5
<1>8. Underway(endpoint, body, deviations, promised, index, {f}, cleaned, groups, examined)
  BY <1>2, <1>6 DEF Underway
<1> HIDE DEF f, r
<1> QED BY <1>1, <1>2, <1>7, <1>8 DEF ParseInv, serverVars

\* So does each call of the walk.
LEMMA CleanPreserves ==
  ASSUME LeniencyInv, CleanAndDiagnose
  PROVE  ParseInv'
<1> DEFINE r == Start(endpoint, index)
<1>1. stage = "cleaning" /\ UNCHANGED <<stage, serverVars, index, result>>
  BY DEF CleanAndDiagnose
<1>2. /\ Partway(endpoint, body, deviations, promised, index, result)
      /\ Underway(endpoint, body, deviations, promised, index, frames, cleaned, groups, examined)
  BY <1>1 DEF LeniencyInv, ParseInv
<1>3. /\ index \in (1 .. SizeOf(endpoint, body)) \ SpoiltIn(endpoint, body, deviations)
      /\ WalkOf(endpoint, body, deviations, promised, r, frames, cleaned, groups, examined)
  BY <1>2 DEF Underway
<1>4. Sound(endpoint, body, deviations, promised, r)
  BY <1>1, <1>3, DriftInvIs, SpoiltIs DEF LeniencyInv
<1> HIDE DEF r
<1>5. Walking(r, frames', cleaned', groups', examined')
  BY <1>3, <1>4, WalkStep DEF Walking
<1>6. Underway(endpoint, body, deviations, promised, index,
               frames', cleaned', groups', examined')
  BY <1>3, <1>5 DEF Underway, Walking, r
<1> QED BY <1>1, <1>2, <1>6 DEF ParseInv, serverVars

\* So does the end of a walk: the result gains the value's row and its lines.
LEMMA SucceedPreserves ==
  ASSUME LeniencyInv, Succeed
  PROVE  ParseInv'
<1> DEFINE r == Start(endpoint, index)
           part == Part(promised, r)
           due == DueOf(endpoint, body, deviations, index)
           g == Gained(endpoint, body, deviations, promised, index - 1)
<1>1. /\ stage = "cleaning" /\ frames = {} /\ stage' = "parsing" /\ index' = index + 1
      /\ cleaned' = Nothing /\ groups' = Nothing /\ examined' = Nothing
      /\ UNCHANGED <<serverVars, frames>>
      /\ result' = [result EXCEPT !.rows = Append(@, cleaned), !.lines = @ \cup Flush(index)]
  BY DEF Succeed
<1>2. /\ endpoint \in Endpoints /\ IsFiniteSet(deviations) /\ IsBody(body)
      /\ Drifted(endpoint, body, deviations, promised)
      /\ SizeOf(endpoint, body) \in Nat
  BY <1>1, DriftInvIs DEF LeniencyInv
<1>3. /\ Partway(endpoint, body, deviations, promised, index, result)
      /\ Underway(endpoint, body, deviations, promised, index, frames, cleaned, groups, examined)
  BY <1>1 DEF LeniencyInv, ParseInv
<1>4. /\ index \in (1 .. SizeOf(endpoint, body)) \ SpoiltIn(endpoint, body, deviations)
      /\ WalkOf(endpoint, body, deviations, promised, r, {}, cleaned, groups, examined)
  BY <1>1, <1>3 DEF Underway
<1>5. index \in Nat /\ index # 0 /\ index \in 1 .. SizeOf(endpoint, body)
  BY <1>2, <1>4
<1>6. IsStart(r) /\ Sound(endpoint, body, deviations, promised, r)
  BY <1>2, <1>4, <1>5, StartIs, SpoiltIs
<1>7. /\ cleaned = part
      /\ Logged(deviations, r, Below(body, r), groups)
      /\ Counts(endpoint, body, r, Below(body, r), examined)
  BY <1>4, <1>6, WalkEnds
<1>8. Flush(index) = due
  BY <1>6, <1>7, FlushIs
<1>9. result = g
  BY <1>3 DEF Partway
<1>10. result' = Gained(endpoint, body, deviations, promised, index)
  <2> DEFINE R == RowsOf(endpoint, promised, KeptUp(endpoint, body, deviations, index - 1))
             D == DroppedUp(endpoint, body, deviations, index - 1)
             L == DueUp(endpoint, body, deviations, index - 1)
             h == result'
  <2>1. Gained(endpoint, body, deviations, promised, index) =
          Result(FALSE, Append(R, part), D, L \cup due)
    BY <1>2, <1>4, <1>5, GainedOne
  <2>2. result = Result(FALSE, R, D, L)
    BY <1>9 DEF Gained
  <2> HIDE DEF g, part, due, R, D, L
  <2>3. IsResult(result, FALSE, R, D, L)
    BY <2>2, ResultIs
  <2>4. DOMAIN result = ResultFields
    BY <2>3 DEF IsResult
  <2>5. h = [result EXCEPT !.rows = Append(@, part), !.lines = @ \cup due]
    BY <1>1, <1>7, <1>8
  <2> HIDE DEF h
  <2>6. IsResult(h, FALSE, Append(R, part), D, L \cup due)
    BY <2>3, <2>4, <2>5 DEF IsResult, ResultFields
  <2>7. h = Result(FALSE, Append(R, part), D, L \cup due)
    BY <2>6, OneResult
  <2> QED BY <2>1, <2>7 DEF h
<1>11. Partway(endpoint, body, deviations, promised, index + 1, result')
  <2>1. index + 1 \in 1 .. SizeOf(endpoint, body) + 1 /\ (index + 1) - 1 = index
    BY <1>2, <1>5
  <2>2. endpoint \notin PerItem =>
          SpoiltIn(endpoint, body, deviations) \cap (1 .. (index + 1) - 1) = {}
    <3>1. (1 .. (index + 1) - 1) = (1 .. index - 1) \cup {index}
      BY <1>5
    <3>2. endpoint \notin PerItem =>
            SpoiltIn(endpoint, body, deviations) \cap (1 .. index - 1) = {}
      BY <1>3 DEF Partway
    <3> QED BY <1>4, <3>1, <3>2
  <2>3. endpoint \in PerItem => body[<<>>].kind = "array"
    BY <1>3 DEF Partway
  <2> QED BY <1>10, <2>1, <2>2, <2>3 DEF Partway
<1> QED BY <1>1, <1>11 DEF ParseInv, serverVars

\* So does the refusal of a single value, which is spoilt.
LEMMA ThrowPreserves ==
  ASSUME LeniencyInv, ThrowInvalid
  PROVE  ParseInv'
<1>1. /\ stage = "parsing" /\ index <= Size /\ endpoint \notin PerItem
      /\ ~Accepts(endpoint, body, Root(index))
      /\ result' = [result EXCEPT !.threw = TRUE] /\ stage' = "validated"
      /\ UNCHANGED <<serverVars, index, walkVars>>
  BY DEF ThrowInvalid
<1>2. /\ endpoint \in Endpoints /\ IsBody(body) /\ index \in 1 .. SizeOf(endpoint, body)
      /\ Partway(endpoint, body, deviations, promised, index, result)
      /\ index \in SpoiltIn(endpoint, body, deviations)
      /\ frames = {} /\ cleaned = Nothing /\ groups = Nothing /\ examined = Nothing
  BY <1>1, ParsingIs
<1>3. index = 1
  BY <1>1, <1>2 DEF SizeOf
<1>4. result = NoResult
  <2>1. result = Gained(endpoint, body, deviations, promised, 0)
    BY <1>2, <1>3 DEF Partway
  <2> QED BY <1>2, <2>1, GainedNothing
<1>5. result' = Result(TRUE, <<>>, <<>>, {})
  BY <1>1, <1>4 DEF NoResult, Result
<1>6. Complete(endpoint, body, deviations, promised, result')
  BY <1>1, <1>2, <1>3, <1>5 DEF Complete, Refused
<1> QED BY <1>1, <1>2, <1>6 DEF ParseInv, serverVars, walkVars

\* So does the drop of an item, which is spoilt.
LEMMA DropPreserves ==
  ASSUME LeniencyInv, DropItem
  PROVE  ParseInv'
<1> DEFINE g == Gained(endpoint, body, deviations, promised, index - 1)
<1>1. /\ stage = "parsing" /\ index <= Size /\ endpoint \in PerItem
      /\ ~Accepts(endpoint, body, Root(index))
      /\ result' = [result EXCEPT !.dropped = Append(@, index)] /\ index' = index + 1
      /\ UNCHANGED <<stage, serverVars, walkVars>>
  BY DEF DropItem
<1>2. /\ endpoint \in Endpoints /\ IsBody(body) /\ index \in 1 .. SizeOf(endpoint, body)
      /\ Partway(endpoint, body, deviations, promised, index, result)
      /\ index \in SpoiltIn(endpoint, body, deviations)
      /\ frames = {} /\ cleaned = Nothing /\ groups = Nothing /\ examined = Nothing
  BY <1>1, ParsingIs
<1>3. result = g
  BY <1>2 DEF Partway
<1>4. result' = Gained(endpoint, body, deviations, promised, index)
  <2> DEFINE R == RowsOf(endpoint, promised, KeptUp(endpoint, body, deviations, index - 1))
             D == DroppedUp(endpoint, body, deviations, index - 1)
             L == DueUp(endpoint, body, deviations, index - 1)
  <2>1. Gained(endpoint, body, deviations, promised, index) =
          Result(FALSE, R, Append(D, index), L)
    BY <1>2, GainedOne
  <2>2. result = Result(FALSE, R, D, L)
    BY <1>3 DEF Gained
  <2> HIDE DEF g, R, D, L
  <2>3. result' = Result(FALSE, R, Append(D, index), L)
    BY <1>1, <2>2 DEF Result
  <2> QED BY <2>1, <2>3
<1>5. Partway(endpoint, body, deviations, promised, index + 1, result')
  <2>1. index + 1 \in 1 .. SizeOf(endpoint, body) + 1 /\ (index + 1) - 1 = index
    BY <1>2, SizeIs
  <2>2. body[<<>>].kind = "array"
    BY <1>1, <1>2 DEF Partway
  <2> QED BY <1>1, <1>4, <2>1, <2>2 DEF Partway
<1> QED BY <1>1, <1>2, <1>5 DEF ParseInv, serverVars, walkVars

\* So does the report, after the last call.
LEMMA ReportPreserves ==
  ASSUME LeniencyInv, Report
  PROVE  ParseInv'
<1> DEFINE N == SizeOf(endpoint, body)
           R == RowsOf(endpoint, promised, KeptUp(endpoint, body, deviations, N))
           D == DroppedUp(endpoint, body, deviations, N)
           L == DueUp(endpoint, body, deviations, N)
           W == DropWarning(endpoint, body, deviations)
<1>1. /\ stage = "parsing" /\ index > Size /\ stage' = "validated"
      /\ UNCHANGED <<serverVars, index, walkVars>>
      /\ result' = [result EXCEPT !.lines = @ \cup
           IF result.dropped = <<>> THEN {}
           ELSE {Warning("dropped", Len(result.dropped), Size, Reported(result.dropped))}]
  BY DEF Report
<1>2. /\ endpoint \in Endpoints /\ IsFiniteSet(deviations) /\ IsBody(body)
      /\ Drifted(endpoint, body, deviations, promised) /\ N \in Nat
  BY <1>1, DriftInvIs DEF LeniencyInv
<1>3. /\ Partway(endpoint, body, deviations, promised, index, result)
      /\ frames = {} /\ cleaned = Nothing /\ groups = Nothing /\ examined = Nothing
  BY <1>1 DEF LeniencyInv, ParseInv
<1>4. Size = N
  BY DEF Size, SizeOf
<1>5. index - 1 = N
  <2>1. index \in 1 .. N + 1
    BY <1>3 DEF Partway
  <2> HIDE DEF N
  <2> QED BY <1>1, <1>2, <1>4, <2>1
<1>6. result = Result(FALSE, R, D, L)
  BY <1>3, <1>5 DEF Partway, Gained
<1>7. W = IF D = <<>> THEN {} ELSE {Warning("dropped", Len(D), N, Reported(D))}
  BY DEF DropWarning
<1> HIDE DEF N, R, D, L, W
<1>8. result' = Result(FALSE, R, D, L \cup W)
  <2>1. result.dropped = D
    BY <1>6 DEF Result
  <2>2. result' = [result EXCEPT !.lines = @ \cup W]
    BY <1>1, <1>4, <1>7, <2>1
  <2> QED BY <1>6, <2>2 DEF Result
<1>9. endpoint \notin PerItem => SpoiltIn(endpoint, body, deviations) = {}
  <2>1. SpoiltIn(endpoint, body, deviations) \subseteq 1 .. N
    BY DEF SpoiltIn, N
  <2>2. endpoint \notin PerItem =>
          SpoiltIn(endpoint, body, deviations) \cap (1 .. N) = {}
    BY <1>3, <1>5 DEF Partway
  <2> QED BY <2>1, <2>2
<1>10. Complete(endpoint, body, deviations, promised, result')
  <2>1. endpoint \in PerItem => body[<<>>].kind = "array"
    BY <1>3 DEF Partway
  <2>2. Returned(endpoint, body, deviations, promised, result')
    BY <1>8, <1>9, <2>1 DEF Returned, N, R, D, L, W
  <2> QED BY <2>2 DEF Complete
<1> QED BY <1>1, <1>3, <1>10 DEF ParseInv, serverVars, walkVars

\* So does the return to the caller.
LEMMA HandOverPreserves ==
  ASSUME LeniencyInv, HandOver
  PROVE  ParseInv'
<1>1. /\ stage = "validated" /\ stage' = "idle" /\ index' = 1 /\ result' = NoResult
      /\ UNCHANGED walkVars
  BY DEF HandOver
<1>2. frames = {} /\ cleaned = Nothing /\ groups = Nothing /\ examined = Nothing
  BY <1>1 DEF LeniencyInv, ParseInv
<1> QED BY <1>1, <1>2 DEF ParseInv, walkVars

\* Every step keeps both sides in order.
LEMMA LeniencyInvNext == LeniencyInv /\ [LeniencyNext]_leniencyVars => LeniencyInv'
<1> SUFFICES ASSUME LeniencyInv, [LeniencyNext]_leniencyVars PROVE LeniencyInv'
  OBVIOUS
<1>1. DriftInv'
  BY DriftInvNext DEF LeniencyInv
<1>2. ASSUME NEW e \in Endpoints, Call(e) PROVE ParseInv'
  BY <1>2, CallPreserves
<1>3. ASSUME Drifts PROVE ParseInv'
  BY <1>3, DriftsPreserves
<1>4. ASSUME Validate PROVE ParseInv'
  BY <1>4, ValidatePreserves
<1>5. ASSUME Parse PROVE ParseInv'
  BY <1>5, ParsePreserves
<1>6. ASSUME CleanAndDiagnose PROVE ParseInv'
  BY <1>6, CleanPreserves
<1>7. ASSUME Succeed PROVE ParseInv'
  BY <1>7, SucceedPreserves
<1>8. ASSUME ThrowInvalid PROVE ParseInv'
  BY <1>8, ThrowPreserves
<1>9. ASSUME DropItem PROVE ParseInv'
  BY <1>9, DropPreserves
<1>10. ASSUME Report PROVE ParseInv'
  BY <1>10, ReportPreserves
<1>11. ASSUME HandOver PROVE ParseInv'
  BY <1>11, HandOverPreserves
<1>12. ASSUME UNCHANGED leniencyVars PROVE ParseInv'
  BY <1>12 DEF LeniencyInv, ParseInv, leniencyVars
<1>13. ParseInv'
  BY <1>2, <1>3, <1>4, <1>5, <1>6, <1>7, <1>8, <1>9, <1>10, <1>11, <1>12 DEF LeniencyNext
<1> QED BY <1>1, <1>13 DEF LeniencyInv

\* In every state the server's drift is on record, and the client has kept,
\* recorded and examined what the finished part of the answer gives: both sides
\* of the invariant hold throughout every validation.
THEOREM LeniencyInvariance == LeniencySpec => []LeniencyInv
<1>1. LeniencyInit => LeniencyInv
  BY DriftInvInit, ParseInvInit DEF LeniencyInv
<1> QED BY <1>1, LeniencyInvNext, PTL DEF LeniencySpec

-----------------------------------------------------------------------------
\* What the invariant gives.

\* The reference of the properties is that of the invariant.
LEMMA ReferenceIs ==
  /\ Size = SizeOf(endpoint, body) /\ Spoilt = SpoiltIn(endpoint, body, deviations)
  /\ Calls = 1 .. SizeOf(endpoint, body) /\ \A i : Root(i) = Start(endpoint, i)
  /\ KeptItems = KeptUp(endpoint, body, deviations, SizeOf(endpoint, body))
  /\ DroppedItems = DroppedUp(endpoint, body, deviations, SizeOf(endpoint, body))
<1>1. Size = SizeOf(endpoint, body) /\ \A i : Root(i) = Start(endpoint, i)
  BY DEF Size, SizeOf, Root, Start
<1>2. Calls = 1 .. SizeOf(endpoint, body)
  BY <1>1 DEF Calls
<1>3. Spoilt = SpoiltIn(endpoint, body, deviations)
  BY <1>1, <1>2 DEF Spoilt, Under, SpoiltIn
<1> QED BY <1>1, <1>2, <1>3 DEF KeptItems, DroppedItems, KeptUp, DroppedUp

\* A body that is no array has nothing in it to validate.
LEMMA NoItems ==
  ASSUME LeniencyInv, stage = "validated", NotAnArray(endpoint, body, result)
  PROVE  /\ KeptItems = <<>> /\ DroppedItems = <<>> /\ Calls = {} /\ WholeIsWrong
         /\ result.threw = FALSE /\ result.rows = <<>>
         /\ result.lines = {Warning("not an array", 1, 1, <<>>)}
<1>1. /\ endpoint \in Endpoints /\ Drifted(endpoint, body, deviations, promised)
      /\ endpoint \in PerItem /\ body[<<>>].kind # "array"
  BY DriftInvIs DEF LeniencyInv, NotAnArray
<1>2. SizeOf(endpoint, body) = 0 /\ \E d \in deviations : d.kind = "wrong" /\ d.at = <<>>
  BY <1>1, NoArray
<1>3. KeptUp(endpoint, body, deviations, 0) = <<>> /\ DroppedUp(endpoint, body, deviations, 0) = <<>>
  <2>1. \A S : Listing(S, 0)[0] = <<>>
    BY ListingIs
  <2> QED BY <1>2, <2>1 DEF KeptUp, DroppedUp
<1>4. result = Result(FALSE, <<>>, <<>>, {Warning("not an array", 1, 1, <<>>)})
  BY DEF NotAnArray
<1>5. /\ result.threw = FALSE /\ result.rows = <<>>
      /\ result.lines = {Warning("not an array", 1, 1, <<>>)}
  BY <1>4 DEF Result
<1>6. KeptItems = <<>> /\ DroppedItems = <<>> /\ Calls = {}
  BY <1>2, <1>3, ReferenceIs
<1> QED BY <1>2, <1>5, <1>6 DEF WholeIsWrong

\* There is a row for each that is kept.
LEMMA KeptLength ==
  ASSUME NEW e, NEW pr, NEW K \in Seq(Nat)
  PROVE  Len(RowsOf(e, pr, K)) = Len(K)
<1> DEFINE P(k) == Part(pr, Start(e, k))
           V == {P(k) : k \in Nat}
           R == RowsOf(e, pr, K)
<1>1. R = [n \in DOMAIN K |-> P(K[n])]
  BY DEF RowsOf
<1>2. DOMAIN K = 1 .. Len(K) /\ Len(K) \in Nat /\ \A n \in DOMAIN K : K[n] \in Nat
  OBVIOUS
<1>3. \A n \in DOMAIN K : P(K[n]) \in V
  BY <1>2
<1> HIDE DEF P, V
<1>4. R \in [1 .. Len(K) -> V]
  BY <1>1, <1>2, <1>3
<1> HIDE DEF R
<1>5. R \in Seq(V)
  BY <1>2, <1>4
<1>6. Len(R) \in Nat /\ \A n \in Nat : n \in 1 .. Len(R) <=> n \in 1 .. Len(K)
  BY <1>4, <1>5
<1>7. Len(R) = Len(K)
  BY <1>2, <1>6
<1> QED BY <1>7 DEF R

\* What is returned, when something is.
LEMMA ReturnedIs ==
  ASSUME LeniencyInv, stage = "validated", Returned(endpoint, body, deviations, promised, result)
  PROVE  /\ result.threw = FALSE /\ KeptItems \in Seq(Nat)
         /\ result.rows = RowsOf(endpoint, promised, KeptItems)
         /\ result.dropped = DroppedItems
         /\ result.lines = DueUp(endpoint, body, deviations, SizeOf(endpoint, body))
                           \cup DropWarning(endpoint, body, deviations)
         /\ endpoint \in PerItem => ~WholeIsWrong
         /\ endpoint \notin PerItem => Spoilt = {}
<1>1. /\ endpoint \in Endpoints /\ Drifted(endpoint, body, deviations, promised)
      /\ SizeOf(endpoint, body) \in Nat
  BY DriftInvIs DEF LeniencyInv
<1>2. /\ endpoint \in PerItem => body[<<>>].kind = "array"
      /\ endpoint \notin PerItem => SpoiltIn(endpoint, body, deviations) = {}
  BY DEF Returned
<1>3. result = Result(FALSE, RowsOf(endpoint, promised, KeptItems), DroppedItems,
                      DueUp(endpoint, body, deviations, SizeOf(endpoint, body))
                        \cup DropWarning(endpoint, body, deviations))
  BY ReferenceIs DEF Returned
<1>4. KeptItems \in Seq(Nat)
  <2>1. \A S : Listing(S, SizeOf(endpoint, body))[SizeOf(endpoint, body)] \in Seq(Nat)
    <3>1. SizeOf(endpoint, body) \in 0 .. SizeOf(endpoint, body)
      BY <1>1
    <3> QED BY <1>1, <3>1, ListingIs
  <2> QED BY <2>1, ReferenceIs DEF KeptUp
<1>5. endpoint \in PerItem => ~WholeIsWrong
  BY <1>1, <1>2, NoArray DEF WholeIsWrong
<1>6. /\ result.threw = FALSE /\ result.rows = RowsOf(endpoint, promised, KeptItems)
      /\ result.dropped = DroppedItems
      /\ result.lines = DueUp(endpoint, body, deviations, SizeOf(endpoint, body))
                        \cup DropWarning(endpoint, body, deviations)
  BY <1>3 DEF Result
<1> QED BY <1>2, <1>4, <1>5, <1>6, ReferenceIs

\* What there is when a single value is refused.
LEMMA RefusedIs ==
  ASSUME LeniencyInv, stage = "validated", Refused(endpoint, body, deviations, result)
  PROVE  /\ result.threw = TRUE /\ result.lines = {} /\ endpoint \notin PerItem
         /\ Calls = {1} /\ Spoilt = {1}
<1>1. endpoint \notin PerItem /\ result = Result(TRUE, <<>>, <<>>, {})
      /\ 1 \in SpoiltIn(endpoint, body, deviations)
  BY DEF Refused
<1>2. result.threw = TRUE /\ result.lines = {}
  BY <1>1 DEF Result
<1>3. SizeOf(endpoint, body) = 1
  BY <1>1 DEF SizeOf
<1>4. Calls = {1}
  BY <1>3, ReferenceIs
<1>5. Spoilt = {1}
  BY <1>1, <1>4, ReferenceIs DEF Spoilt
<1> QED BY <1>1, <1>2, <1>4, <1>5

\* A validation that is over has ended in one of the three ways.
LEMMA ValidatedIs ==
  ASSUME LeniencyInv, stage = "validated"
  PROVE  \/ NotAnArray(endpoint, body, result)
         \/ Refused(endpoint, body, deviations, result)
         \/ Returned(endpoint, body, deviations, promised, result)
BY DEF LeniencyInv, ParseInv, Complete

\* The invariant gives that only wrong values cost the caller something,
LEMMA InvRefusesOnlyWrong == LeniencyInv => RefusesOnlyWrong
<1> SUFFICES ASSUME LeniencyInv, stage = "validated"
             PROVE  IF endpoint \in PerItem
                    THEN ~result.threw /\ Len(result.rows) = Len(KeptItems)
                    ELSE result.threw <=> Spoilt # {}
  BY DEF RefusesOnlyWrong
<1>1. CASE NotAnArray(endpoint, body, result)
  <2>1. endpoint \in PerItem
    BY <1>1 DEF NotAnArray
  <2> QED BY <1>1, <2>1, NoItems
<1>2. CASE Refused(endpoint, body, deviations, result)
  BY <1>2, RefusedIs
<1>3. CASE Returned(endpoint, body, deviations, promised, result)
  <2>1. /\ result.threw = FALSE /\ KeptItems \in Seq(Nat)
        /\ result.rows = RowsOf(endpoint, promised, KeptItems)
        /\ endpoint \notin PerItem => Spoilt = {}
    BY <1>3, ReturnedIs
  <2>2. Len(result.rows) = Len(KeptItems)
    BY <2>1, KeptLength
  <2> QED BY <2>1, <2>2
<1> QED BY <1>1, <1>2, <1>3, ValidatedIs

\* that the rows are the promised parts of what was sent,
LEMMA InvStripsOnlyUndocumented == LeniencyInv => StripsOnlyUndocumented
<1> SUFFICES ASSUME LeniencyInv, stage = "validated", ~result.threw
             PROVE  result.rows = [n \in DOMAIN KeptItems |-> Part(promised, Root(KeptItems[n]))]
  BY DEF StripsOnlyUndocumented
<1>1. CASE NotAnArray(endpoint, body, result)
  <2>1. result.rows = <<>> /\ KeptItems = <<>>
    BY <1>1, NoItems
  <2> QED BY <2>1
<1>2. CASE Refused(endpoint, body, deviations, result)
  BY <1>2, RefusedIs
<1>3. CASE Returned(endpoint, body, deviations, promised, result)
  <2>1. result.rows = RowsOf(endpoint, promised, KeptItems)
    BY <1>3, ReturnedIs
  <2>2. \A i : Root(i) = Start(endpoint, i)
    BY ReferenceIs
  <2> QED BY <2>1, <2>2 DEF RowsOf
<1> QED BY <1>1, <1>2, <1>3, ValidatedIs

\* that the lines are those due,
LEMMA InvTellsWhatItTolerated == LeniencyInv => TellsWhatItTolerated
<1> SUFFICES ASSUME LeniencyInv, stage = "validated"
             PROVE  result.lines =
                      (UNION {LinesDue(i) : i \in Calls \ Spoilt})
                      \cup (IF endpoint \in PerItem /\ WholeIsWrong
                            THEN {Warning("not an array", 1, 1, <<>>)} ELSE {})
                      \cup (IF endpoint \in PerItem /\ DroppedItems # <<>>
                            THEN {Warning("dropped", Len(DroppedItems), Size,
                                          Reported(DroppedItems))}
                            ELSE {})
  BY DEF TellsWhatItTolerated
<1> DEFINE Due == UNION {LinesDue(i) : i \in Calls \ Spoilt}
           N == SizeOf(endpoint, body)
           WholeWarning == IF endpoint \in PerItem /\ WholeIsWrong
                           THEN {Warning("not an array", 1, 1, <<>>)} ELSE {}
           ItemsWarning ==
             IF endpoint \in PerItem /\ DroppedItems # <<>>
             THEN {Warning("dropped", Len(DroppedItems), Size, Reported(DroppedItems))} ELSE {}
<1> SUFFICES result.lines = Due \cup WholeWarning \cup ItemsWarning
  OBVIOUS
<1>1. CASE NotAnArray(endpoint, body, result)
  <2>1. /\ Calls = {} /\ WholeIsWrong /\ DroppedItems = <<>>
        /\ result.lines = {Warning("not an array", 1, 1, <<>>)}
    BY <1>1, NoItems
  <2>2. endpoint \in PerItem
    BY <1>1 DEF NotAnArray
  <2>3. Due = {}
    BY <2>1
  <2>4. WholeWarning = {Warning("not an array", 1, 1, <<>>)} /\ ItemsWarning = {}
    BY <2>1, <2>2
  <2> HIDE DEF Due, WholeWarning, ItemsWarning
  <2> QED BY <2>1, <2>3, <2>4
<1>2. CASE Refused(endpoint, body, deviations, result)
  <2>1. /\ result.lines = {} /\ endpoint \notin PerItem /\ Calls \ Spoilt = {}
    BY <1>2, RefusedIs
  <2>2. Due = {} /\ WholeWarning = {} /\ ItemsWarning = {}
    BY <2>1
  <2> HIDE DEF Due, WholeWarning, ItemsWarning
  <2> QED BY <2>1, <2>2
<1>3. CASE Returned(endpoint, body, deviations, promised, result)
  <2>1. /\ result.lines = DueUp(endpoint, body, deviations, N)
                           \cup DropWarning(endpoint, body, deviations)
        /\ endpoint \in PerItem => ~WholeIsWrong
        /\ endpoint \notin PerItem => Spoilt = {}
    BY <1>3, ReturnedIs
  <2>2. /\ endpoint \in Endpoints /\ Drifted(endpoint, body, deviations, promised) /\ N \in Nat
    BY DriftInvIs DEF LeniencyInv
  <2>3. Due = DueUp(endpoint, body, deviations, N)
    <3>1. ASSUME NEW i \in 1 .. N PROVE LinesDue(i) = DueOf(endpoint, body, deviations, i)
      <4>1. i \in Nat /\ i # 0
        BY <2>2
      <4> QED BY <2>2, <4>1, DueIs
    <3>2. Calls \ Spoilt = (1 .. N) \ SpoiltIn(endpoint, body, deviations)
      BY ReferenceIs
    <3> HIDE DEF N
    <3>3. {LinesDue(i) : i \in Calls \ Spoilt} =
            {DueOf(endpoint, body, deviations, i)
               : i \in (1 .. N) \ SpoiltIn(endpoint, body, deviations)}
      BY <3>1, <3>2
    <3> QED BY <3>3 DEF DueUp
  <2>4. WholeWarning = {}
    BY <2>1
  <2>5. ItemsWarning = DropWarning(endpoint, body, deviations)
    <3>1. Size = N /\ DroppedItems = DroppedUp(endpoint, body, deviations, N)
      BY ReferenceIs
    <3>2. endpoint \notin PerItem => DroppedItems = <<>>
      <4> SUFFICES ASSUME endpoint \notin PerItem PROVE DroppedItems = <<>>
        OBVIOUS
      <4>1. Spoilt = {} /\ N = 1 /\ SpoiltIn(endpoint, body, deviations) = {}
        BY <2>1, ReferenceIs DEF SizeOf
      <4>2. Listing({}, 1)[1] = <<>>
        <5>1. 1 \in 1 .. 1 /\ 1 - 1 = 0
          OBVIOUS
        <5>2. Listing({}, 1)[1] = Listing({}, 1)[1 - 1] /\ Listing({}, 1)[0] = <<>>
          BY <5>1, ListingIs
        <5> QED BY <5>1, <5>2
      <4> QED BY <3>1, <4>1, <4>2 DEF DroppedUp
    <3> HIDE DEF N
    <3> QED BY <3>1, <3>2 DEF DropWarning, N
  <2> HIDE DEF Due, WholeWarning, ItemsWarning
  <2> QED BY <2>1, <2>3, <2>4, <2>5
<1> QED BY <1>1, <1>2, <1>3, ValidatedIs

\* that a line counts at most its total,
LEMMA LinesCount == LeniencyInv => \A l \in result.lines : l.count \in 1 .. l.total
<1> SUFFICES ASSUME LeniencyInv, NEW l \in result.lines PROVE l.count \in 1 .. l.total
  OBVIOUS
<1>1. CASE stage \in {"idle", "answering"}
  <2>1. result = NoResult
    BY <1>1 DEF LeniencyInv, ParseInv
  <2> QED BY <2>1 DEF NoResult
<1>2. CASE stage \in {"parsing", "cleaning", "validated"}
  <2>1. /\ endpoint \in Endpoints /\ IsFiniteSet(deviations) /\ IsBody(body)
        /\ Drifted(endpoint, body, deviations, promised)
        /\ SizeOf(endpoint, body) \in Nat
    BY <1>2, DriftInvIs DEF LeniencyInv
  <2>2. ASSUME NEW n \in 0 .. SizeOf(endpoint, body), l \in DueUp(endpoint, body, deviations, n)
        PROVE  l.count \in 1 .. l.total
    <3>1. PICK i \in (1 .. n) \ SpoiltIn(endpoint, body, deviations) :
            l \in DueOf(endpoint, body, deviations, i)
      BY <2>2 DEF DueUp
    <3>2. i \in (1 .. SizeOf(endpoint, body)) \ SpoiltIn(endpoint, body, deviations)
      BY <2>1
    <3> QED BY <2>1, <3>1, <3>2, DueCounts
  <2>3. CASE stage # "validated"
    <3>1. Partway(endpoint, body, deviations, promised, index, result)
      BY <1>2, <2>3 DEF LeniencyInv, ParseInv
    <3>2. result = Gained(endpoint, body, deviations, promised, index - 1)
          /\ index \in 1 .. SizeOf(endpoint, body) + 1
      BY <3>1 DEF Partway
    <3>3. result.lines = DueUp(endpoint, body, deviations, index - 1)
      BY <3>2 DEF Gained, Result
    <3>4. index - 1 \in 0 .. SizeOf(endpoint, body)
      BY <2>1, <3>2
    <3> QED BY <2>2, <3>3, <3>4
  <2>4. CASE stage = "validated"
    <3>1. CASE NotAnArray(endpoint, body, result)
      <4>1. l = Warning("not an array", 1, 1, <<>>)
        BY <2>4, <3>1, NoItems
      <4>2. l.count = 1 /\ l.total = 1
        BY <4>1 DEF Warning
      <4> QED BY <4>2
    <3>2. CASE Refused(endpoint, body, deviations, result)
      BY <2>4, <3>2, RefusedIs
    <3>3. CASE Returned(endpoint, body, deviations, promised, result)
      <4> DEFINE D == DroppedUp(endpoint, body, deviations, SizeOf(endpoint, body))
                 N == SizeOf(endpoint, body)
      <4>1. l \in DueUp(endpoint, body, deviations, N) \/ l \in DropWarning(endpoint, body, deviations)
        BY <2>4, <3>3, ReturnedIs
      <4>2. N \in 0 .. N
        BY <2>1
      <4>3. ASSUME l \in DropWarning(endpoint, body, deviations) PROVE l.count \in 1 .. l.total
        <5>1. D # <<>> /\ l = Warning("dropped", Len(D), N, Reported(D))
          BY <4>3 DEF DropWarning
        <5>2. D \in Seq(Nat) /\ Len(D) <= N
          BY <2>1, <4>2, ListingLength DEF DroppedUp
        <5> HIDE DEF D, N
        <5>3. Len(D) \in 1 .. N
          BY <2>1, <5>1, <5>2 DEF N
        <5>4. l.count = Len(D) /\ l.total = N
          BY <5>1 DEF Warning
        <5> QED BY <5>3, <5>4
      <4> QED BY <2>2, <4>1, <4>2, <4>3
    <3> QED BY <2>4, <3>1, <3>2, <3>3, ValidatedIs
  <2> QED BY <2>3, <2>4
<1>3. stage \in {"idle", "answering", "parsing", "cleaning", "validated"}
  BY DEF LeniencyInv, DriftInv
<1> QED BY <1>1, <1>2, <1>3

\* and that every variable has its type.
LEMMA InvLeniencyTypeOK == LeniencyInv => LeniencyTypeOK
<1> SUFFICES ASSUME LeniencyInv PROVE LeniencyTypeOK
  OBVIOUS
<1>1. /\ stage \in {"idle", "answering", "parsing", "cleaning", "validated"}
      /\ endpoint \in Endpoints
      /\ IsFiniteSet(deviations) /\ Cardinality(deviations) <= MaxDeviations
      /\ stage = "idle" => deviations = {}
  BY DEF LeniencyInv, DriftInv
<1>2. stage = "answering" => IsBody(body)
  BY DriftInvIs DEF LeniencyInv
<1>3. ASSUME NEW d \in deviations
      PROVE  /\ d.kind \in {"stripped", "extra", "widened", "null", "absent", "wrong"}
             /\ d.text \in UnlistedMembers \cup {""}
  <2>1. stage # "idle"
    BY <1>1, <1>3
  <2>2. Drifted(endpoint, body, deviations, promised)
    BY <2>1, DriftInvIs DEF LeniencyInv
  <2>3. Shows(endpoint, body, d)
    BY <1>3, <2>2 DEF Drifted
  <2>4. d \in Deviation
    BY <2>3 DEF Shows
  <2> QED BY <2>4 DEF Deviation
<1>4. frames # {} => stage = "cleaning"
  BY DEF LeniencyInv, ParseInv
<1>5. ASSUME NEW f \in frames PROVE f.pos \in DOMAIN body /\ f.schema \in Schemas
  <2> DEFINE r == Start(endpoint, index)
  <2>1. stage = "cleaning"
    BY <1>4, <1>5
  <2>2. /\ endpoint \in Endpoints /\ IsFiniteSet(deviations)
        /\ Drifted(endpoint, body, deviations, promised)
    BY <2>1, DriftInvIs DEF LeniencyInv
  <2>3. Underway(endpoint, body, deviations, promised, index, frames, cleaned, groups, examined)
    BY <2>1 DEF LeniencyInv, ParseInv
  <2>4. /\ index \in (1 .. SizeOf(endpoint, body)) \ SpoiltIn(endpoint, body, deviations)
        /\ WalkOf(endpoint, body, deviations, promised, r, frames, cleaned, groups, examined)
    BY <2>3 DEF Underway
  <2>5. Sound(endpoint, body, deviations, promised, r)
    BY <2>2, <2>4, SpoiltIs
  <2>6. Walking(r, frames, cleaned, groups, examined)
    BY <2>4, <2>5 DEF Walking
  <2> HIDE DEF r
  <2> QED BY <1>5, <2>6, FrameIs
<1>6. result.threw \in BOOLEAN
  <2>1. CASE stage \in {"idle", "answering"}
    <3>1. result = NoResult
      BY <2>1 DEF LeniencyInv, ParseInv
    <3> QED BY <3>1 DEF NoResult
  <2>2. CASE stage \in {"parsing", "cleaning"}
    <3>1. result = Gained(endpoint, body, deviations, promised, index - 1)
      BY <2>2 DEF LeniencyInv, ParseInv, Partway
    <3> QED BY <3>1 DEF Gained, Result
  <2>3. CASE stage = "validated"
    BY <2>3, NoItems, RefusedIs, ReturnedIs, ValidatedIs
  <2> QED BY <1>1, <2>1, <2>2, <2>3
<1> QED BY <1>1, <1>2, <1>3, <1>4, <1>5, <1>6, LinesCount DEF LeniencyTypeOK

\* Every variable has its type, and no line logged counts more than it examined.
THEOREM LeniencyTyped == LeniencySpec => []LeniencyTypeOK
BY LeniencyInvariance, InvLeniencyTypeOK, PTL

\* For every schema, body and drift: a single value is refused, and an item
\* dropped, exactly when a wrong value lies in it (parseLenient's safeParse of the
\* permissive copy, and the two primitives of BaseResource).
THEOREM OnlyWrongRefused == LeniencySpec => []RefusesOnlyWrong
BY LeniencyInvariance, InvRefusesOnlyWrong, PTL

\* For every schema, body and drift: the caller gets what was sent, in order,
\* less just the undocumented keys of objects that declare no catchall
\* (cleanAndDiagnoseResponse).
THEOREM OnlyUndocumentedStripped == LeniencySpec => []StripsOnlyUndocumented
BY LeniencyInvariance, InvStripsOnlyUndocumented, PTL

\* For every schema, body and drift: the lines logged are those due, with the
\* counts and totals there were (DiagnosticsCollector), and one warning for what
\* was dropped or was no array.
THEOREM ToleratedTold == LeniencySpec => []TellsWhatItTolerated
BY LeniencyInvariance, InvTellsWhatItTolerated, PTL

===============================================================================
