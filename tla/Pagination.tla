------------------------------ MODULE Pagination ------------------------------
(***************************************************************************)
(* One walk over a paginated collection: BaseResource.paginate of          *)
(* src/client/resources/base-resource.ts, with the validation of a page's  *)
(* rows (validateArrayResponse), the strict cursor of                      *)
(* src/schema-overrides/pagination.ts and the resolution of nextPageUrl.   *)
(*                                                                         *)
(* The server is free: it may answer every request with any page, so the   *)
(* collection may change under the walk, shrink, or lead it in circles.    *)
(* Each get is a request through the shared instance (module               *)
(* HttpTransport); here it answers or it throws.                           *)
(***************************************************************************)
EXTENDS Integers, Sequences, FiniteSets, SequencesExt

CONSTANTS
    Urls,       \* the paths, with their query, a cursor may resolve to
    StartPath,  \* the path of the first request
    RowLists,   \* the row lists of a page: sequences of TRUE (valid) and FALSE
    MaxPages    \* MAX_PAGINATION_PAGES

ASSUME ConstantsAssumption ==
    /\ StartPath \in Urls
    /\ RowLists \subseteq Seq(BOOLEAN)
    /\ MaxPages \in Nat \ {0}

\* What pageDetails.nextPageUrl can be besides a URL of the configured origin.
Null == "null"              \* null: the end
Empty == "empty"            \* the empty string: the end as well
Malformed == "malformed"    \* pageDetails missing or not of its schema
Foreign == "foreign"        \* a URL of another origin, or none at all
Ends == {Null, Empty, Malformed, Foreign}
Cursors == Urls \cup Ends

ASSUME UrlsAssumption == Urls \cap Ends = {}

\* A page.  One without an array under the array's key counts as one without
\* rows, but for a warning.
Pages == [cursor : Cursors, rows : RowLists]

VARIABLES
    pc,         \* "looping", "requested", "returned" or "thrown"
    url,        \* the path to request next; Null ends the walk
    params,     \* are the query parameters still to be sent?
    visited,    \* visitedUrls
    items,      \* what is accumulated: each row by its page and its place there
    reason,     \* why it threw
    sent,       \* history: the requests, as [url, params]
    answered    \* history: the pages received

vars == <<pc, url, params, visited, items, reason, sent, answered>>

-----------------------------------------------------------------------------
(* The loop's head *)

Throw(why) == pc' = "thrown" /\ reason' = why

Return ==
    /\ url = Null
    /\ pc' = "returned"
    /\ UNCHANGED <<visited, reason, sent>>

\* (Mutant: the repeated URL goes unnoticed.)
Cyclic_Unnoticed == FALSE
Cyclic == url \in visited

TooLong == Cardinality(visited) >= MaxPages

Guarded ==
    /\ url # Null
    /\ \/ Cyclic /\ Throw("cyclic")
       \/ ~Cyclic /\ TooLong /\ Throw("too-long")
    /\ UNCHANGED <<visited, sent>>

Request ==
    /\ url # Null
    /\ ~Cyclic
    /\ ~TooLong
    /\ visited' = visited \cup {url}
    /\ sent' = Append(sent, [url |-> url, params |-> params])
    /\ pc' = "requested"
    /\ UNCHANGED reason

Loop ==
    /\ pc = "looping"
    /\ Return \/ Guarded \/ Request
    /\ UNCHANGED <<url, params, items, answered>>

-----------------------------------------------------------------------------
(* A page *)

\* validateArrayResponse: the valid rows are kept, in their order; the n-th
\* page's k-th row is <<n, k>>.
\* (Mutant: one invalid row fails the page.)
Kept_AllOrNothing(page, n) ==
    IF \E k \in DOMAIN page.rows : ~page.rows[k] THEN <<>>
    ELSE [k \in DOMAIN page.rows |-> <<n, k>>]
Kept(page, n) ==
    LET upto[k \in 0 .. Len(page.rows)] ==
            IF k = 0 THEN <<>>
            ELSE IF page.rows[k] THEN Append(upto[k - 1], <<n, k>>)
            ELSE upto[k - 1]
    IN  upto[Len(page.rows)]

\* The path to go on to, or Null at the end.
\* (Mutants: only null is taken for the end, and "" is a path like another,
\* whichever it resolves to, or as it stands.)
Follow_AsIs(cursor) == cursor
Follow_OnlyNull(cursor) ==
    CASE cursor = Null  -> Null
      [] cursor = Empty -> StartPath
      [] OTHER          -> cursor
Follow(cursor) == IF cursor \in {Null, Empty} THEN Null ELSE cursor

\* The rows are accumulated before the next cursor is resolved.
\* (Mutant: the query parameters are sent with every request.)
Accept_ParamsKept(page) ==
    /\ page.cursor \notin {Malformed, Foreign}
    /\ items' = items \o Kept(page, Len(sent))
    /\ url' = Follow(page.cursor)
    /\ pc' = "looping"
    /\ UNCHANGED <<params, reason>>
Accept(page) ==
    /\ page.cursor # Malformed
    /\ items' = items \o Kept(page, Len(sent))
    /\ \/ /\ page.cursor = Foreign
          /\ Throw("foreign")
          /\ UNCHANGED <<url, params>>
       \/ /\ page.cursor # Foreign
          /\ url' = Follow(page.cursor)
          /\ params' = FALSE
          /\ pc' = "looping"
          /\ UNCHANGED reason

Reject(page) ==
    /\ page.cursor = Malformed
    /\ Throw("malformed")
    /\ UNCHANGED <<url, params, items>>

Answer ==
    /\ pc = "requested"
    /\ \E page \in Pages :
          /\ answered' = Append(answered, page)
          /\ Accept(page) \/ Reject(page)
    /\ UNCHANGED <<visited, sent>>

\* The get throws: the request has failed for good.
Fail ==
    /\ pc = "requested"
    /\ Throw("transport")
    /\ UNCHANGED <<url, params, visited, items, sent, answered>>

Finished == pc \in {"returned", "thrown"} /\ UNCHANGED vars

-----------------------------------------------------------------------------

Init ==
    /\ pc = "looping"
    /\ url = StartPath
    /\ params \in BOOLEAN
    /\ visited = {}
    /\ items = <<>>
    /\ reason = "none"
    /\ sent = <<>>
    /\ answered = <<>>

Next == Loop \/ Answer \/ Fail \/ Finished

Spec == Init /\ [][Next]_vars

-----------------------------------------------------------------------------
(* Properties *)

\* Every variable has its type.
TypeOK ==
    /\ pc \in {"looping", "requested", "returned", "thrown"}
    /\ url \in Urls \cup {Null}
    /\ params \in BOOLEAN
    /\ visited \subseteq Urls
    /\ items \in Seq(Nat \X Nat)
    /\ reason \in {"none", "cyclic", "too-long", "foreign", "malformed", "transport"}
    /\ sent \in Seq([url : Urls, params : BOOLEAN])
    /\ answered \in Seq(Pages)

\* However the server leads the walk on, no more than MaxPages pages are asked
\* for and no path twice: neither a circle nor an endless chain can hold it.
PagesBounded ==
    /\ Len(sent) <= MaxPages
    /\ \A i, j \in DOMAIN sent : sent[i].url = sent[j].url => i = j

\* The requests form the chain the server's cursors spell out, from the start
\* path on, and the query parameters go with no request but the first.
FollowsChain ==
    \A i \in DOMAIN sent :
        IF i = 1 THEN sent[i].url = StartPath
        ELSE /\ sent[i].url = answered[i - 1].cursor
             /\ ~sent[i].params

ValidRows(page) == {k \in DOMAIN page.rows : page.rows[k]}

\* A walk that returns has seen the end of the chain, and gives the valid rows
\* of all its pages, in order and without repetition: one bad row costs that
\* row only, and a page that fails costs the whole walk, never a part of it.
ReturnsWhole ==
    pc = "returned" =>
        /\ answered[Len(answered)].cursor \in {Null, Empty}
        /\ ToSet(items) = UNION {{<<n, k>> : k \in ValidRows(answered[n])} :
                                  n \in DOMAIN answered}
        /\ \A i, j \in DOMAIN items : i < j =>
              \/ items[i][1] < items[j][1]
              \/ items[i][1] = items[j][1] /\ items[i][2] < items[j][2]

\* A walk that throws does so for cause: the request failed, or the last cursor
\* is malformed, leaves the origin, leads back to a page already fetched, or
\* asks for one page more than the limit.  It never throws at the end of the chain.
ThrowsForCause ==
    pc = "thrown" =>
        IF Len(answered) < Len(sent) THEN reason = "transport"
        ELSE LET last    == answered[Len(answered)].cursor
                 fetched == {sent[i].url : i \in DOMAIN sent}
             IN  \/ last = Malformed /\ reason = "malformed"
                 \/ last = Foreign /\ reason = "foreign"
                 \/ last \in fetched /\ reason = "cyclic"
                 \/ last \in Urls \ fetched /\ Len(sent) = MaxPages /\ reason = "too-long"
=============================================================================
