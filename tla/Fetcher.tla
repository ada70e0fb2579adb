------------------------------ MODULE Fetcher ------------------------------
(***************************************************************************)
(* internal/crawler: one ProcessJob, which is one Fetch with the redirects *)
(* http.Client follows for it, and what becomes of the response.  Fetches  *)
(* share nothing that changes, so one is enough.                           *)
(*                                                                         *)
(* The web answers each URL in one way during a fetch:                     *)
(*   "malformed"    no request can be built for the URL                    *)
(*   "unreachable"  no response: DNS, TCP or TLS fail                      *)
(*   "silent"       connected, but nothing is ever sent                    *)
(*   "redirect"     3xx with a Location                                    *)
(*   "cut"          a response whose body cannot be read to its end        *)
(*   "html", "unparsable", "other"  a response: HTML, HTML the parser      *)
(*                  refuses (nested too deeply), any other content         *)
(***************************************************************************)
EXTENDS Integers

CONSTANTS
    Targets,          \* URLs
    Settings,         \* the values of crawler.max_redirects to try
    HardMaxRedirects  \* hardMaxRedirects

ASSUME FetcherAssumption ==
    /\ Settings \subseteq Int
    /\ HardMaxRedirects \in Nat \ {0}

VARIABLES
    web,            \* how each URL answers
    maxRedirects,   \* the configured value
    phase,          \* where the fetch is
    target,         \* the job's URL
    at,             \* the URL of the current request
    requests,       \* requests sent so far: len(via) when a redirect comes
    timedOut,       \* the request timeout has passed
    result          \* what ProcessJob returns

vars == <<web, maxRedirects, phase, target, at, requests, timedOut, result>>

Codes == {200, 404}   \* 2xx, and everything else that is not a redirect
Documents == {"html", "unparsable", "other"}
Answers ==
    [type : {"malformed", "unreachable", "silent"}]
        \cup [type : {"redirect"}, to : Targets]
        \cup [type : Documents \cup {"cut"}, code : Codes]

\* The pointers of workers.Result; code 0 stands for nil.
Result == [code : Codes \cup {0}, title : BOOLEAN, html : BOOLEAN, error : BOOLEAN]
Failure == [code |-> 0, title |-> FALSE, html |-> FALSE, error |-> TRUE]
ResultOf(a) == [code |-> a.code, title |-> a.type = "html",
                html |-> a.type \in {"html", "unparsable"}, error |-> FALSE]

\* NewFetcher: what is not in 1..HardMaxRedirects becomes HardMaxRedirects.
Limit ==
    IF maxRedirects <= 0 \/ maxRedirects > HardMaxRedirects
    THEN HardMaxRedirects ELSE maxRedirects

TypeOK ==
    /\ web \in [Targets -> Answers]
    /\ maxRedirects \in Settings
    /\ phase \in {"build", "send", "redirect", "body", "done"}
    /\ target \in Targets
    /\ at \in Targets
    /\ requests \in 0..HardMaxRedirects
    /\ timedOut \in BOOLEAN
    /\ result \in Result

Init ==
    /\ web \in [Targets -> Answers]
    /\ maxRedirects \in Settings
    /\ phase = "build"
    /\ target \in Targets
    /\ at = target
    /\ requests = 0
    /\ timedOut = FALSE
    /\ result = Failure

Fail ==
    /\ phase' = "done"
    /\ result' = Failure
    /\ UNCHANGED <<web, maxRedirects, target, at, requests>>

(* Faulty variants, used only to show that the properties can fail: each is *)
(* a plausible slip in fetcher.go or crawler.go; no specification uses it.  *)

\* > instead of >=
FollowOneMore ==
    /\ phase = "redirect"
    /\ requests <= Limit
    /\ web[web[at].to].type # "malformed"
    /\ at' = web[at].to
    /\ phase' = "send"
    /\ UNCHANGED <<web, maxRedirects, target, requests, timedOut, result>>

\* each hop a client.Do of its own, whose requests are counted afresh
FollowByANewCall ==
    /\ phase = "redirect"
    /\ requests < Limit
    /\ web[web[at].to].type # "malformed"
    /\ at' = web[at].to
    /\ requests' = 0
    /\ phase' = "send"
    /\ UNCHANGED <<web, maxRedirects, target, timedOut, result>>

\* the response returned although its body is incomplete
KeepCutBody ==
    /\ phase = "body"
    /\ web[at].type = "cut"
    /\ phase' = "done"
    /\ result' = ResultOf(web[at])
    /\ UNCHANGED <<web, maxRedirects, target, at, requests, timedOut>>

-----------------------------------------------------------------------------

BuildRequest ==
    /\ phase = "build"
    /\ web[at].type # "malformed"
    /\ phase' = "send"
    /\ UNCHANGED <<web, maxRedirects, target, at, requests, timedOut, result>>

BuildFails ==
    /\ phase = "build"
    /\ web[at].type = "malformed"
    /\ Fail
    /\ UNCHANGED timedOut

\* client.Do sends a request and gets the header of a response ...
Respond ==
    /\ phase = "send"
    /\ web[at].type \in Documents \cup {"redirect", "cut"}
    /\ requests' = requests + 1
    /\ phase' = IF web[at].type = "redirect" THEN "redirect" ELSE "body"
    /\ UNCHANGED <<web, maxRedirects, target, at, timedOut, result>>

\* ... or no response.
SendFails ==
    /\ phase = "send"
    /\ web[at].type = "unreachable"
    /\ Fail
    /\ UNCHANGED timedOut

\* CheckRedirect sees the requests sent so far, the first one included.
Follow ==
    /\ phase = "redirect"
    /\ requests < Limit
    /\ web[web[at].to].type # "malformed"
    /\ at' = web[at].to
    /\ phase' = "send"
    /\ UNCHANGED <<web, maxRedirects, target, requests, timedOut, result>>

RefuseRedirect ==
    /\ phase = "redirect"
    /\ requests >= Limit \/ web[web[at].to].type = "malformed"
    /\ Fail
    /\ UNCHANGED timedOut

\* io.ReadAll, then ParseHTML for HTML: a parse failure costs the title only.
ReadBody ==
    /\ phase = "body"
    /\ web[at].type \in Documents
    /\ phase' = "done"
    /\ result' = ResultOf(web[at])
    /\ UNCHANGED <<web, maxRedirects, target, at, requests, timedOut>>

ReadFails ==
    /\ phase = "body"
    /\ web[at].type = "cut"
    /\ Fail
    /\ UNCHANGED timedOut

\* The context of ProcessJob and http.Client.Timeout have the same length and
\* bound everything from the first send to the end of the body.
Timeout ==
    /\ phase \in {"send", "redirect", "body"}
    /\ timedOut' = TRUE
    /\ Fail

Fetch ==
    \/ BuildRequest \/ BuildFails \/ Respond \/ SendFails
    \/ Follow \/ RefuseRedirect \/ ReadBody \/ ReadFails

Next == Fetch \/ Timeout

\* The timeout is left out of the fairness, so that nothing ends thanks to it
\* that the redirect limit should end.
Spec == Init /\ [][Next]_vars /\ WF_vars(Fetch)

-----------------------------------------------------------------------------
(* Where the redirects lead, told without requests.                          *)

After(n) ==
    LET chain[k \in 0..n] ==
            IF k = 0 THEN target
            ELSE LET a == web[chain[k - 1]]
                 IN  IF a.type = "redirect" THEN a.to ELSE chain[k - 1]
    IN  chain[n]

\* A page is reported by what the chain of its redirects ends with, if that is
\* a complete response at most Limit - 1 redirects away: Limit counts the
\* requests, the first one included.  In all other cases, and after a timeout,
\* it is reported as an error with nothing of a response: a page row never
\* mixes the two.
ReportsTheEndOfTheChain ==
    phase = "done" =>
        result = LET a == web[After(Limit - 1)]
                 IN  IF a.type \in Documents /\ ~timedOut
                     THEN ResultOf(a) ELSE Failure

\* Redirects that lead round in circles hold a worker up for at most Limit
\* requests, whatever was configured, be it "unlimited": only a server that
\* says nothing at all is left to the timeout.
RedirectsEnd ==
    (\A t \in Targets : web[t].type # "silent") => <>(phase = "done")
=============================================================================
