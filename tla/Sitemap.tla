------------------------------ MODULE Sitemap ------------------------------
(***************************************************************************)
(* internal/sitemap/discovery.go: Discover reads robots.txt, then walks    *)
(* the sitemaps depth first.  The recursion of resolveSitemap is the list  *)
(* todo of the calls still to make, the children of an index put in front  *)
(* of what their parent's caller has left.                                 *)
(*                                                                         *)
(* A document is what fetch and Parse make of one sitemap URL: a urlset    *)
(* listing pages, an index listing sitemaps, something malformed (not XML, *)
(* another root element) or none (no 2xx answer, an empty body); of        *)
(* robots.txt its Sitemap lines are left.  The web does not change during  *)
(* a discovery, except that fetches, that of robots.txt included, may fail *)
(* (flaky) and all do after the deadline.                                  *)
(***************************************************************************)
EXTENDS Naturals, Sequences, FiniteSets, Functions

CONSTANTS
    Maps,         \* the URLs of sitemaps
    URLs,         \* the URLs of pages
    Documents,    \* the documents a sitemap URL may answer with
    Directives,   \* the lists of "Sitemap:" lines robots.txt may have, <<>>
                  \* also for one that is missing or cannot be parsed
    CommonPaths,  \* commonSitemapPaths, on the website
    MaxDepth,     \* maxRecursionDepth
    HasDeadline   \* can the caller's context expire?

ASSUME SitemapAssumption ==
    /\ IsFiniteSet(Maps)
    /\ Documents \subseteq [type : {"urlset"}, locs : Seq(URLs)]
                      \cup [type : {"index"}, locs : Seq(Maps)]
                      \cup [type : {"none", "malformed"}, locs : {<<>>}]
    /\ Directives \subseteq Seq(Maps)
    /\ CommonPaths \in Seq(Maps)
    /\ MaxDepth \in Nat
    /\ HasDeadline \in BOOLEAN

VARIABLES
    docs,           \* the web: a document for each sitemap URL
    robots,         \* the web: the lines of robots.txt
    flaky,          \* can a fetch fail although the URL has a document?
    phase,          \* where Discover is
    sitemapURLs,    \* where the walk starts
    todo,           \* the calls of resolveSitemap still to make
    reading,        \* the entries of the current urlset still to look at
    seen,           \* the pages found so far
    found,          \* result.URLs
    sitemapsFound,  \* result.SitemapsFound
    errors,         \* len(result.Errors)
    expired         \* the context is done

web == <<docs, robots, flaky>>
vars == <<docs, robots, flaky, phase, sitemapURLs, todo, reading, seen, found,
          sitemapsFound, errors, expired>>

Call == [map : Maps, depth : 0..MaxDepth + 1]

TypeOK ==
    /\ docs \in [Maps -> Documents]
    /\ robots \in Directives
    /\ flaky \in BOOLEAN
    /\ phase \in {"robots", "resolve", "done"}
    /\ sitemapURLs \in Seq(Maps)
    /\ todo \in Seq(Call)
    /\ reading \in Seq(URLs)
    /\ seen \subseteq URLs
    /\ found \in Seq(URLs)
    /\ sitemapsFound \in Nat
    /\ errors \in Nat
    /\ expired \in BOOLEAN

Init ==
    /\ docs \in [Maps -> Documents]
    /\ robots \in Directives
    /\ flaky \in BOOLEAN
    /\ phase = "robots"
    /\ sitemapURLs = <<>>
    /\ todo = <<>>
    /\ reading = <<>>
    /\ seen = {}
    /\ found = <<>>
    /\ sitemapsFound = 0
    /\ errors = 0
    /\ expired = FALSE

Calls(maps, d) == [k \in DOMAIN maps |-> [map |-> maps[k], depth |-> d]]

\* fetch, detectType and Parse, ExtractLocs
Fails(m) == expired \/ flaky \/ docs[m].type = "none"
Reads(m, type) == ~expired /\ docs[m].type = type
Locs(m) == docs[m].locs

Resolving == phase = "resolve" /\ reading = <<>> /\ todo # <<>>
map == Head(todo).map
depth == Head(todo).depth

(* Faulty variants, used only to show that the properties can fail: each is *)
(* a plausible slip in discovery.go, and no specification uses it.          *)

FitsOneMore(d) == d <= MaxDepth + 1

\* the page appended without a look at seen
TakeEveryLoc ==
    /\ reading # <<>>
    /\ reading' = Tail(reading)
    /\ found' = Append(found, Head(reading))
    /\ UNCHANGED <<web, phase, sitemapURLs, todo, seen, sitemapsFound, errors, expired>>

\* no error recorded
GiveUpSilently ==
    /\ todo' = Tail(todo)
    /\ UNCHANGED <<web, phase, sitemapURLs, reading, seen, found,
                   sitemapsFound, errors, expired>>

\* one broken sitemap ends the whole discovery
GiveUpAltogether ==
    /\ todo' = <<>>
    /\ errors' = errors + 1
    /\ UNCHANGED <<web, phase, sitemapURLs, reading, seen, found, sitemapsFound, expired>>

\* depth passed on instead of depth+1
ReadIndexSameDepth ==
    /\ Resolving
    /\ depth <= MaxDepth
    /\ Reads(map, "index")
    /\ todo' = Calls(Locs(map), depth) \o Tail(todo)
    /\ UNCHANGED <<web, phase, sitemapURLs, reading, seen, found,
                   sitemapsFound, errors, expired>>

-----------------------------------------------------------------------------

Begin(maps) ==
    /\ phase = "robots"
    /\ phase' = "resolve"
    /\ sitemapURLs' = maps
    /\ todo' = Calls(maps, 0)
    /\ UNCHANGED <<web, reading, seen, found, sitemapsFound, errors, expired>>

ReadRobots ==
    /\ ~expired
    /\ robots # <<>>
    /\ Begin(robots)

\* robots.txt names no sitemap, or its fetch fails: neither is an error.
GuessCommonPaths ==
    /\ robots = <<>> \/ expired \/ flaky
    /\ Begin(CommonPaths)

Fits(d) == d <= MaxDepth

\* One call of resolveSitemap ends in an error, which is only recorded.
GiveUp ==
    /\ todo' = Tail(todo)
    /\ errors' = errors + 1
    /\ UNCHANGED <<web, phase, sitemapURLs, reading, seen, found, sitemapsFound, expired>>

TooDeep ==
    /\ Resolving
    /\ ~Fits(depth)
    /\ GiveUp

FetchFails ==
    /\ Resolving
    /\ Fits(depth)
    /\ Fails(map)
    /\ GiveUp

ParseFails ==
    /\ Resolving
    /\ Fits(depth)
    /\ Reads(map, "malformed")
    /\ GiveUp

ReadURLSet ==
    /\ Resolving
    /\ Fits(depth)
    /\ Reads(map, "urlset")
    /\ todo' = Tail(todo)
    /\ reading' = Locs(map)
    /\ sitemapsFound' = sitemapsFound + 1
    /\ UNCHANGED <<web, phase, sitemapURLs, seen, found, errors, expired>>

\* One turn of the loop over the entries.
TakeLoc ==
    /\ reading # <<>>
    /\ reading' = Tail(reading)
    /\ IF Head(reading) \in seen
       THEN UNCHANGED <<seen, found>>
       ELSE /\ seen' = seen \cup {Head(reading)}
            /\ found' = Append(found, Head(reading))
    /\ UNCHANGED <<web, phase, sitemapURLs, todo, sitemapsFound, errors, expired>>

\* Nothing remembers which sitemaps were resolved: only the depth bounds it.
ReadIndex ==
    /\ Resolving
    /\ Fits(depth)
    /\ Reads(map, "index")
    /\ todo' = Calls(Locs(map), depth + 1) \o Tail(todo)
    /\ sitemapsFound' = sitemapsFound + 1
    /\ UNCHANGED <<web, phase, sitemapURLs, reading, seen, found, errors, expired>>

Finish ==
    /\ phase = "resolve"
    /\ todo = <<>>
    /\ reading = <<>>
    /\ phase' = "done"
    /\ UNCHANGED <<web, sitemapURLs, todo, reading, seen, found,
                   sitemapsFound, errors, expired>>

Expire ==
    /\ HasDeadline
    /\ ~expired
    /\ phase # "done"
    /\ expired' = TRUE
    /\ UNCHANGED <<web, phase, sitemapURLs, todo, reading, seen, found,
                   sitemapsFound, errors>>

Discover ==
    \/ ReadRobots \/ GuessCommonPaths
    \/ TooDeep \/ FetchFails \/ ParseFails
    \/ ReadURLSet \/ TakeLoc \/ ReadIndex \/ Finish

Next == Discover \/ Expire

\* The goroutine runs; the deadline need not come.
Spec == Init /\ [][Next]_vars /\ WF_vars(Discover)

-----------------------------------------------------------------------------
(* What a discovery should find, by levels instead of by recursion.          *)

Children(m) == IF docs[m].type = "index" THEN Range(docs[m].locs) ELSE {}

Below(maps) == maps \cup UNION {Children(m) : m \in maps}

\* The sitemaps at most n indexes away from some.
Reach(maps, n) ==
    LET level[k \in 0..n] == IF k = 0 THEN maps ELSE Below(level[k - 1])
    IN  level[n]

\* The sitemaps at most n indexes away from where the walk starts, which should
\* be where the website says.
Within(n) == Reach(Range(sitemapURLs), n)
Declared == IF robots = <<>> THEN CommonPaths ELSE robots

Listed(maps) ==
    UNION {Range(docs[m].locs) : m \in {x \in maps : docs[x].type = "urlset"}}

\* The pages go into the table in one COPY under UNIQUE (crawl_id, url): one
\* URL found twice would lose the pages of the whole crawl.
NoDuplicateURLs == Cardinality(Range(found)) = Len(found)

\* One broken sitemap does not lose the URLs of the others: a discovery that
\* met its deadline, on a network that works, has exactly the pages listed
\* within MaxDepth indexes of the sitemaps the website declares, although they
\* may be shared, nested in any order or form cycles.
FindsAllWithinDepth ==
    phase = "done" /\ ~expired /\ ~flaky =>
        Range(found) = Listed(Reach(Range(Declared), MaxDepth))

\* Result.Errors is the only trace of a loss, be it for the depth limit, a
\* broken sitemap or the deadline: a walk without an error has every page its
\* sitemaps lead to, at any depth.  The one loss without a trace is that of a
\* robots.txt that is there and cannot be fetched: the pages only its sitemaps
\* list are missing then.
OnlyRobotsIsLostSilently ==
    phase = "done" /\ errors = 0 =>
        /\ Range(found) = Listed(Within(Cardinality(Maps)))
        /\ \A m \in Within(Cardinality(Maps)) : docs[m].type \in {"urlset", "index"}
        /\ sitemapURLs # Declared => sitemapURLs = CommonPaths /\ (flaky \/ expired)

\* Sitemaps that point at each other or at themselves do not keep the
\* crawler in a loop: what maxRecursionDepth is for.
DiscoveryEnds == <>(phase = "done")
=============================================================================
