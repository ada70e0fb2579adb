-------------------------------- MODULE Api --------------------------------
(***************************************************************************)
(* internal/api: one client that sends requests one after the other and    *)
(* the handlers that answer them, in front of crawls that other clients,   *)
(* runs and restarts change meanwhile in every way CrawlLifecycle allows   *)
(* (which is every way CrawlService can).  Of the middleware, CORS answers *)
(* preflights and Recovery answers for handlers that panic; what is logged *)
(* is left out.                                                            *)
(*                                                                         *)
(* Each statement is a step of its own, so a listing is three of them:     *)
(* CrawlRepository.GetByID, SELECT COUNT, SELECT ... LIMIT ... OFFSET.  *)
(* Any of them may fail.  What the client has been told so far is kept in  *)
(* known and walk, to be compared with what the tables say.                *)
(***************************************************************************)
EXTENDS CrawlLifecycle, Integers, SequencesExt

CONSTANTS
    Order,        \* all pages, in the order of their ids
    RawWebsites,  \* what the body of POST /crawls may say (NoWebsite: nothing)
    Limits,       \* the values of ?limit=
    Offsets,      \* the values of ?offset=
    DefaultLimit, MaxLimit, MaxOffset,
    Missing, NotANumber, NoWebsite, BadId

ASSUME ApiAssumption ==
    /\ Order \in Seq(URLs) /\ Range(Order) = URLs /\ IsInjective(Order)
    /\ MaxLimit \in Nat /\ DefaultLimit \in 1..MaxLimit /\ MaxOffset \in Nat
    /\ Limits \cup Offsets \subseteq Int \cup {Missing, NotANumber}
    /\ BadId \notin Ids

VARIABLES
    at,           \* where the request is
    req,          \* the request
    code,         \* the status code of the response
    body,         \* the envelopes written to it
    total,        \* what SELECT COUNT returned
    slice,        \* what SELECT ... LIMIT ... OFFSET returned
    known,        \* the last the client was told of each crawl
    walk          \* the pages it has listed since it saw a final status

response == <<code, body>>
reads == <<total, slice>>
told == <<known, walk>>
vars == <<status, listing, at, req, code, body, total, slice, known, walk>>

Requests ==
    [route : {"POST /crawls"}, raw : RawWebsites \cup {NoWebsite}]
    \cup [route : {"GET /crawls/:id", "DELETE /crawls/:id"}, id : Ids \cup {BadId}]
    \cup [route : {"GET /crawls/:id/pages"}, id : Ids \cup {BadId},
          limit : Limits, offset : Offsets]
    \cup [route : {"GET /pages/:id"}, id : Ids \cup {BadId}, url : URLs]
    \cup [route : {"GET /health", "OPTIONS"}]

NoRequest == [route |-> "none"]
Envelopes == {"success", "error"}

TypeOK ==
    /\ LifecycleTypeOK
    /\ at \in {"handler", "count", "select", "answered", "done"}
    /\ req \in Requests \cup {NoRequest}
    /\ code \in {200, 201, 202, 204, 400, 404, 500, 503}
    /\ body \in Seq(Envelopes)
    /\ total \in 0..Cardinality(URLs)
    /\ slice \in Seq(URLs)
    /\ known \in [Ids -> Stored \cup {"unknown", "gone"}]
    /\ walk \in [Ids -> Seq(URLs)]

Init ==
    /\ LifecycleInit
    /\ at = "done" /\ req = NoRequest
    /\ code = 204 /\ body = <<>>   \* as after a preflight
    /\ total = 0 /\ slice = <<>>
    /\ known = [i \in Ids |-> "unknown"]
    /\ walk = [i \in Ids |-> <<>>]

\* The rows of a crawl in the order of their ids.
Rows(i) ==
    LET rows[k \in 0..Len(Order)] ==
            IF k = 0 THEN <<>>
            ELSE IF Order[k] \in listing[i] THEN Append(rows[k - 1], Order[k])
                 ELSE rows[k - 1]
    IN  rows[Len(Order)]

-----------------------------------------------------------------------------
(* response.go, the parameters and normalizeWebsite.                         *)

\* gin sends the status with the first body and ignores a later one.
Write(first, envelopes) ==
    /\ code' = first
    /\ body' = envelopes
    /\ at' = "answered"
    /\ UNCHANGED req

Success(c) == Write(c, <<"success">>)
Error(c) == Write(c, <<"error">>)

AboutOneCrawl == {"GET /crawls/:id", "DELETE /crawls/:id", "GET /crawls/:id/pages"}

\* To the client, a crawl it has seen before is gone.
TellMissing(i) ==
    /\ Error(404)
    /\ known' = [known EXCEPT ![i] = IF @ = "unknown" THEN @ ELSE "gone"]
    /\ UNCHANGED <<crawlVars, reads, walk>>

\* parseIntQuery: a number in its range; nothing stands for the default.
Valid(v, min, max) == v = Missing \/ (v # NotANumber /\ v \in min..max)
ValueOf(v, default) == IF v = Missing THEN default ELSE v

ListingIsValid == Valid(req.limit, 1, MaxLimit) /\ Valid(req.offset, 0, MaxOffset)
limit == ValueOf(req.limit, DefaultLimit)
offset == ValueOf(req.offset, 0)

\* A website as spelled by a client: scheme ("none" if it has none), host (with
\* user and port), whether the host has capital letters, whether path or query
\* follow and contain "://", and the tail that survives: a bare "?", a fragment.
Invalid == [scheme |-> "none"]

\* A scheme is put in front only if there is no "://" anywhere; the path and
\* the query are cleared, the rest is printed again as it was, capitals included.
normalizeWebsite(raw) ==
    LET scheme == IF raw.scheme = "none" /\ ~raw.nested THEN "https" ELSE raw.scheme
    IN  IF scheme \in {"http", "https"} /\ raw.host # "none"
        THEN [scheme |-> scheme, host |-> raw.host, capitals |-> raw.capitals,
              path |-> FALSE, nested |-> FALSE, tail |-> raw.tail]
        ELSE Invalid

(* Faulty variants, used only to show that the properties can fail: each is  *)
(* a plausible slip in internal/api or internal/storage.                     *)

\* every error taken for ErrCrawlNotFound
GetCrawlFailsAsMissing ==
    /\ at = "handler" /\ req.route = "GET /crawls/:id" /\ req.id \in Ids
    /\ TellMissing(req.id)

\* SELECT COUNT without its WHERE
CountAllPages ==
    /\ at = "count"
    /\ total' = Cardinality(UNION {{i} \X listing[i] : i \in Ids})
    /\ at' = "select"
    /\ UNCHANGED <<crawlVars, req, response, slice, told>>

\* SELECT without its ORDER BY
SelectUnordered ==
    /\ at = "select"
    /\ LET i == req.id
       IN  \E rows \in {Rows(i), Reverse(Rows(i))} :
              /\ slice' = SubSeq(rows, offset + 1, Min({offset + limit, Len(rows)}))
              /\ walk' = IF known[i] \in Terminal /\ offset = Len(walk[i])
                         THEN [walk EXCEPT ![i] = @ \o slice'] ELSE walk
    /\ Success(200)
    /\ UNCHANGED <<crawlVars, total, known>>

\* return without a response, where the row is missing
CrawlNotFoundUnanswered ==
    /\ at = "handler" /\ req.route \in AboutOneCrawl
    /\ req.id \in Ids /\ status[req.id] \notin Stored
    /\ req.route = "GET /crawls/:id/pages" => ListingIsValid
    /\ at' = "answered"
    /\ UNCHANGED <<crawlVars, req, response, reads, told>>

-----------------------------------------------------------------------------
(* The handlers.  In(route): the request has come through the middleware to  *)
(* its handler.                                                              *)

In(route) == at = "handler" /\ req.route = route

\* CORS answers a preflight itself.
Preflight ==
    /\ In("OPTIONS")
    /\ Write(204, <<>>)
    /\ UNCHANGED <<crawlVars, reads, told>>

\* An unparsable or missing parameter: no statement is run.
Refuse ==
    /\ at = "handler"
    /\ \/ req.route = "POST /crawls" /\ req.raw = NoWebsite
       \/ req.route \in AboutOneCrawl \cup {"GET /pages/:id"} /\ req.id = BadId
       \/ req.route = "GET /crawls/:id/pages" /\ ~ListingIsValid
    /\ Error(400)
    /\ UNCHANGED <<crawlVars, reads, told>>

\* Nothing is returned after BadRequest: the success body follows.
StartInvalid ==
    /\ In("POST /crawls") /\ req.raw # NoWebsite
    /\ normalizeWebsite(req.raw) = Invalid
    /\ Write(400, <<"error", "success">>)
    /\ UNCHANGED <<crawlVars, reads, told>>

Starts == In("POST /crawls") /\ req.raw # NoWebsite /\ normalizeWebsite(req.raw) # Invalid

StartCreates ==
    /\ Starts
    /\ \E i \in Ids : Create(i) /\ known' = [known EXCEPT ![i] = "pending"]
    /\ Success(201)
    /\ UNCHANGED <<reads, walk>>

StartReuses ==
    /\ Starts
    /\ \E i \in Ids : status[i] \in Stored /\ known' = [known EXCEPT ![i] = status[i]]
    /\ Success(202)
    /\ UNCHANGED <<crawlVars, reads, walk>>

\* A statement fails: an error that is not a sentinel is a 500.
Fail ==
    /\ \/ Starts
       \/ at = "handler" /\ req.route \in AboutOneCrawl \cup {"GET /pages/:id"} /\ req.id \in Ids
       \/ at \in {"count", "select"}
    /\ at = "handler" /\ req.route = "GET /crawls/:id/pages" => ListingIsValid
    /\ Error(500)
    /\ UNCHANGED <<crawlVars, reads, told>>

GetCrawl ==
    /\ In("GET /crawls/:id") /\ req.id \in Ids /\ status[req.id] \in Stored
    /\ known' = [known EXCEPT ![req.id] = status[req.id]]
    /\ Success(200)
    /\ UNCHANGED <<crawlVars, reads, walk>>

\* ErrCrawlNotFound from GetByID or Delete.
CrawlNotFound ==
    /\ at = "handler" /\ req.route \in AboutOneCrawl
    /\ req.id \in Ids /\ status[req.id] \notin Stored
    /\ req.route = "GET /crawls/:id/pages" => ListingIsValid
    /\ TellMissing(req.id)

DeleteCrawl ==
    /\ In("DELETE /crawls/:id") /\ req.id \in Ids
    /\ Delete(req.id)
    /\ known' = [known EXCEPT ![req.id] = "gone"]
    /\ Write(204, <<>>)
    /\ UNCHANGED <<reads, walk>>

\* GetCrawlPages: the crawl exists, so go on to its pages.
FindCrawl ==
    /\ In("GET /crawls/:id/pages") /\ req.id \in Ids /\ ListingIsValid
    /\ status[req.id] \in Stored
    /\ at' = "count"
    /\ UNCHANGED <<crawlVars, req, response, reads, told>>

CountPages ==
    /\ at = "count"
    /\ total' = Cardinality(listing[req.id])
    /\ at' = "select"
    /\ UNCHANGED <<crawlVars, req, response, slice, told>>

\* Part of a walk if the client knows the crawl has ended and goes on where
\* the last listing stopped.
SelectPages ==
    /\ at = "select"
    /\ LET i == req.id
       IN  /\ slice' = SubSeq(Rows(i), offset + 1, Min({offset + limit, Len(Rows(i))}))
           /\ walk' = IF known[i] \in Terminal /\ offset = Len(walk[i])
                      THEN [walk EXCEPT ![i] = @ \o slice'] ELSE walk
    /\ Success(200)
    /\ UNCHANGED <<crawlVars, total, known>>

GetPage ==
    /\ In("GET /pages/:id") /\ req.id \in Ids /\ req.url \in listing[req.id]
    /\ Success(200)
    /\ UNCHANGED <<crawlVars, reads, told>>

PageNotFound ==
    /\ In("GET /pages/:id") /\ req.id \in Ids /\ req.url \notin listing[req.id]
    /\ Error(404)
    /\ UNCHANGED <<crawlVars, reads, told>>

\* The health check uses Success for both.
CheckHealth ==
    /\ In("GET /health")
    /\ Success(200) \/ Success(503)
    /\ UNCHANGED <<crawlVars, reads, told>>

-----------------------------------------------------------------------------

\* A handler panics, and Recovery, around everything else, answers.
Panic ==
    /\ at \in {"handler", "count", "select"}
    /\ Error(500)
    /\ UNCHANGED <<crawlVars, reads, told>>

Send ==
    /\ at = "done"
    /\ req' \in Requests
    /\ at' = "handler"
    /\ code' = 200 /\ body' = <<>>
    /\ UNCHANGED <<crawlVars, reads, told>>

\* The response has been sent; the request and its local variables are gone.
Leave ==
    /\ at = "answered"
    /\ at' = "done"
    /\ req' = NoRequest
    /\ total' = 0 /\ slice' = <<>>
    /\ UNCHANGED <<crawlVars, response, told>>

Handle ==
    \/ Preflight \/ Refuse \/ StartInvalid \/ StartCreates \/ StartReuses
    \/ GetCrawl \/ CrawlNotFound \/ DeleteCrawl \/ FindCrawl \/ CountPages \/ SelectPages
    \/ GetPage \/ PageNotFound \/ CheckHealth \/ Leave

Others == LifecycleNext /\ UNCHANGED <<at, req, response, reads, told>>

Next == Send \/ Handle \/ Fail \/ Panic \/ Others

\* Every statement returns and every handler goes on; no statement has to fail,
\* no handler to panic and nobody to send anything.  Ids is a bound: a POST that
\* finds none left has to fail.
OutOfIds == \A i \in Ids : status[i] = "gone"
Spec == Init /\ [][Next]_vars /\ WF_vars(Handle \/ (Starts /\ OutOfIds /\ Fail))

-----------------------------------------------------------------------------

\* What a client was told of a crawl is never taken back by what it is told
\* later: a status is followed by later ones only, a deletion by nothing, and
\* neither a 404 for a crawl it has seen nor a 204 is given while the row exists.
NothingTakenBack ==
    \A i \in Ids :
        /\ known[i] \in Stored => status[i] # "none"
        /\ known[i] = "running" => status[i] # "pending"
        /\ known[i] \in Terminal => status[i] \in {known[i], "gone"}
        /\ known[i] = "gone" => status[i] = "gone"

\* Pagination: a client that has seen a final status and then lists until it
\* has total pages gets every page once and in order, in listings of any size,
\* although COUNT and SELECT are separate statements, and finds each page it
\* was given again by its id, unless the crawl is deleted meanwhile.
WalkIsComplete ==
    \A i \in Ids : known[i] \in Terminal /\ status[i] # "gone" =>
        /\ IsPrefix(walk[i], Rows(i))
        /\ at = "answered" /\ code = 200 /\ req.route = "GET /crawls/:id/pages" /\ req.id = i =>
              /\ total = Len(Rows(i))
              /\ slice = <<>> => offset >= total
        /\ at = "answered" /\ code = 404 /\ req.route = "GET /pages/:id" /\ req.id = i =>
              req.url \notin Range(walk[i])

\* Every request gets an answer from its handler, with a body unless it is a 204,
\* even if no statement fails and nothing panics: no route leaves a combination
\* of parameters and of what other clients and runs did to the crawl open.
EveryRequestIsAnswered ==
    at = "handler" ~> at = "answered" /\ (code = 204 \/ body # <<>>)

-----------------------------------------------------------------------------
(* What the repository says and the code does not do.                        *)

\* response.go: every response has the same top-level keys, those of one
\* Envelope.
OneEnvelope == Len(body) <= 1

\* crawl_service.go: "https://Example.com/" and "example.com" don't get
\* duplicate inflight entries.  Spellings of a website that differ in https://,
\* path, query or the case of the host have one key.
SpellingsShareAKey ==
    LET Plain(r) == r.scheme \in {"none", "https"} /\ ~r.nested /\ r.tail = "none"
    IN  \A raw \in RawWebsites :
          In("POST /crawls") /\ req.raw # NoWebsite /\ Plain(req.raw)
              /\ Plain(raw) /\ raw.host = req.raw.host
            => normalizeWebsite(raw) = normalizeWebsite(req.raw)
=============================================================================
