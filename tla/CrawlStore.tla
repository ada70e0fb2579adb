----------------------------- MODULE CrawlStore -----------------------------
(***************************************************************************)
(* The two tables of the database (migrations/001_initial_schema.sql)      *)
(* and the statements internal/storage runs on them.  Ids are never reused *)
(* (BIGSERIAL), so the row a request creates bears the request's name.     *)
(*                                                                         *)
(* A statement is atomic, and one that is executed is so before its caller *)
(* goes on.  Its outcome is "ok", or one of Faults:                        *)
(*   "error"    not executed, and the caller gets an error                 *)
(*   "lost"     executed, but the reply is lost: the caller gets an error  *)
(*   "timeout"  not executed, the caller's deadline has passed             *)
(*   "late"     executed, but the reply comes after the deadline           *)
(* The last two differ from the first two only where the caller uses the   *)
(* same deadline again, which is in persistAndFinalize.                    *)
(***************************************************************************)
EXTENDS Naturals, FiniteSets

CONSTANTS
    Ids,          \* crawls.id
    URLs,         \* the pages a website may list
    Faults        \* the ways a statement may fail

ASSUME StoreAssumption ==
    /\ IsFiniteSet(URLs)
    /\ Faults \subseteq {"error", "lost", "timeout", "late"}

VARIABLES
    crawls,       \* the table crawls: a row for each id, NoRow if there is none
    pages         \* the table pages: a set of rows

store == <<crawls, pages>>

\* How a fetch ended, as far as the tables and the tallies can tell:
\*   "ok"          2xx
\*   "status"      a response outside 2xx
\*   "error"       no response
\*   "okUnstorable", "statusUnstorable"
\*                 a response with text PostgreSQL refuses (a NUL, invalid UTF-8)
Unstorable == {"okUnstorable", "statusUnstorable"}
Kinds == {"ok", "status", "error"} \cup Unstorable
Page == [crawl : Ids, url : URLs, kind : Kinds]

Open == {"pending", "running"}
Terminal == {"completed", "failed"}   \* CrawlStatus.IsTerminal
Row == [status : Open \cup Terminal \cup {"absent"},
        total : Nat, success : Nat, failed : Nat, finished : BOOLEAN]

Fresh(status) ==
    [status |-> status, total |-> 0, success |-> 0, failed |-> 0, finished |-> FALSE]
NoRow == Fresh("absent")

Exists(i) == crawls[i].status # "absent"
PagesOf(i) == {p \in pages : p.crawl = i}

StoreTypeOK ==
    /\ crawls \in [Ids -> Row]
    /\ pages \subseteq Page

StoreInit ==
    /\ crawls = [i \in Ids |-> NoRow]
    /\ pages = {}

Outcomes == {"ok"} \cup Faults
\* the outcomes that matter to a statement whose deadline nobody uses again
Undated == Outcomes \ {"timeout", "late"}
Executed(o) == o \in {"ok", "lost", "late"}

(* Faulty variants, used only to show that the properties can fail. *)

\* Complete without its SET status
CompleteCountsOnly(i, status, total, success, failed, o) ==
    /\ crawls' = IF Executed(o) /\ Exists(i)
                 THEN [crawls EXCEPT ![i] =
                         [status |-> @.status, total |-> total, success |-> success,
                          failed |-> failed, finished |-> TRUE]]
                 ELSE crawls
    /\ UNCHANGED pages

\* one INSERT for each page instead of one COPY
InsertEach(rows, o) ==
    /\ pages' = IF Executed(o)
                THEN pages \cup {p \in rows : Exists(p.crawl) /\ p.kind \notin Unstorable}
                ELSE pages
    /\ UNCHANGED crawls

\* no foreign key on pages.crawl_id
InsertOrphans(rows, o) ==
    /\ pages' = IF Executed(o) /\ \A p \in rows : p.kind \notin Unstorable
                THEN pages \cup rows ELSE pages
    /\ UNCHANGED crawls

(* The statements. *)

\* CrawlRepository.Create, GetByID, UpdateStatus, Complete, Delete.  An UPDATE
\* that finds no row reports ErrCrawlNotFound, an error like any other.
InsertCrawl(i, o) ==
    /\ crawls' = IF Executed(o) THEN [crawls EXCEPT ![i] = Fresh("pending")] ELSE crawls
    /\ UNCHANGED pages

Updates(i, o) == o = "ok" /\ Exists(i)

UpdateStatus(i, status, o) ==
    /\ crawls' = IF Executed(o) /\ Exists(i)
                 THEN [crawls EXCEPT ![i].status = status] ELSE crawls
    /\ UNCHANGED pages

CompleteCrawl(i, status, total, success, failed, o) ==
    /\ crawls' = IF Executed(o) /\ Exists(i)
                 THEN [crawls EXCEPT ![i] =
                         [status |-> status, total |-> total, success |-> success,
                          failed |-> failed, finished |-> TRUE]]
                 ELSE crawls
    /\ UNCHANGED pages

\* pages go with the crawl: ON DELETE CASCADE
DeleteRow(i) ==
    /\ crawls' = [crawls EXCEPT ![i] = NoRow]
    /\ pages' = pages \ PagesOf(i)

\* PageRepository.BulkInsert is one COPY: the foreign key, the unique
\* constraint on (crawl_id, url) or one row with bad text rejects all of it.
Accepts(rows) ==
    /\ \A p \in rows : Exists(p.crawl) /\ p.kind \notin Unstorable
    /\ \A p, q \in pages \cup rows :
          p.crawl = q.crawl /\ p.url = q.url => p = q
    /\ rows \cap pages = {}

BulkInsert(rows, o) ==
    /\ pages' = IF Executed(o) /\ Accepts(rows) THEN pages \cup rows ELSE pages
    /\ UNCHANGED crawls
=============================================================================
