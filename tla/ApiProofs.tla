----------------------------- MODULE ApiProofs -----------------------------
(***************************************************************************)
(* What a client is told, for any crawls, pages, websites and parameters:  *)
(* that it is never taken back, that walking through the pages of a crawl  *)
(* is complete.  Others change the crawls between any two statements.      *)
(***************************************************************************)
EXTENDS Api, DataLemmas, FiniteSetTheorems, SequenceTheorems, TLAPS

ToldInv ==
    /\ status \in [Ids -> Stored \cup {"none", "gone"}]
    /\ known \in [Ids -> Stored \cup {"unknown", "gone"}]
    /\ NothingTakenBack

(* Whatever others do to a crawl follows what the client knows of it.        *)
LEMMA OthersTakeNothingBack ==
    ASSUME ToldInv, LifecycleNext, known' = known
    PROVE  ToldInv'
  <1> USE DEF ToldInv, NothingTakenBack, Stored, Open, Terminal, Becomes
  <1>1. ASSUME NEW i \in Ids, Create(i) \/ Start(i) \/ Publish(i) PROVE ToldInv'
    BY <1>1 DEF Create, Start, Publish
  <1>2. ASSUME NEW i \in Ids, Finish(i) PROVE ToldInv'
    BY <1>2 DEF Finish
  <1>3. ASSUME NEW i \in Ids, Delete(i) PROVE ToldInv'
    BY <1>3 DEF Delete
  <1>4. ASSUME NEW S \in SUBSET Ids, Discard(S) PROVE ToldInv'
    BY <1>4 DEF Discard
  <1> QED
    BY <1>1, <1>2, <1>3, <1>4 DEF LifecycleNext

(* A 404 says that the row is gone, or nothing of a crawl never seen.        *)
LEMMA MissingIsGone ==
    ASSUME ToldInv, NEW i \in Ids, status[i] \notin Stored, TellMissing(i)
    PROVE  ToldInv'
  BY DEF ToldInv, NothingTakenBack, TellMissing, Stored, Open, Terminal, crawlVars

\* No step, of this client or of others, takes back what was told.
LEMMA NextToldInv ==
    ASSUME ToldInv, [Next]_vars
    PROVE  ToldInv'
  <1> USE DEF ToldInv, NothingTakenBack
  <1>1. ASSUME UNCHANGED <<status, known>> PROVE ToldInv'
    BY <1>1
  <1>2. Preflight \/ Refuse \/ StartInvalid \/ Fail \/ FindCrawl \/ CountPages
          \/ SelectPages \/ GetPage \/ PageNotFound \/ CheckHealth \/ Send \/ Leave
          \/ Panic \/ UNCHANGED vars
        => UNCHANGED <<status, known>>
    BY DEF Preflight, Refuse, StartInvalid, Fail, FindCrawl, CountPages, SelectPages,
           GetPage, PageNotFound, CheckHealth, Send, Leave, Panic, crawlVars,
           told, vars
  <1>3. CASE StartCreates
    <2>1. PICK i \in Ids : Create(i) /\ known' = [known EXCEPT ![i] = "pending"]
      BY <1>3 DEF StartCreates
    <2> QED
      BY <2>1 DEF Create, Becomes, Stored, Open, Terminal
  <1>4. CASE StartReuses
    <2>1. PICK i \in Ids : status[i] \in Stored /\ known' = [known EXCEPT ![i] = status[i]]
      BY <1>4 DEF StartReuses
    <2> QED
      BY <1>4, <2>1 DEF StartReuses, crawlVars, Stored, Open, Terminal
  <1>5. CASE GetCrawl
    BY <1>5 DEF GetCrawl, crawlVars, Stored, Open, Terminal
  <1>6. CASE CrawlNotFound
    BY <1>6, MissingIsGone DEF CrawlNotFound
  <1>7. CASE DeleteCrawl
    BY <1>7 DEF DeleteCrawl, Delete, Becomes, Stored, Open, Terminal
  <1>8. CASE Others
    BY <1>8, OthersTakeNothingBack DEF Others, told
  <1> QED
    BY <1>1, <1>2, <1>3, <1>4, <1>5, <1>6, <1>7, <1>8 DEF Next, Handle

(* The steps that write the answer to a request.                             *)
Answering ==
    \/ Preflight \/ Refuse \/ StartInvalid \/ StartCreates \/ StartReuses \/ Fail
    \/ GetCrawl \/ CrawlNotFound \/ DeleteCrawl \/ SelectPages
    \/ GetPage \/ PageNotFound \/ CheckHealth \/ Panic

Codes == {200, 201, 202, 204, 400, 404, 500, 503}

\* An answer is written while a request is handled, with one of the codes and
\* with envelopes only.
LEMMA AnswersWrite ==
    ASSUME Answering
    PROVE  /\ at \in {"handler", "count", "select"}
           /\ \E c \in Codes, b \in Seq(Envelopes) : Write(c, b)
  <1> DEFINE Writes == \E c \in Codes, b \in Seq(Envelopes) : Write(c, b)
  <1>1. /\ <<>> \in Seq(Envelopes) /\ <<"success">> \in Seq(Envelopes)
        /\ <<"error">> \in Seq(Envelopes) /\ <<"error", "success">> \in Seq(Envelopes)
    BY DEF Envelopes
  <1>2. /\ 200 \in Codes /\ 201 \in Codes /\ 202 \in Codes /\ 204 \in Codes
        /\ 400 \in Codes /\ 404 \in Codes /\ 500 \in Codes /\ 503 \in Codes
    BY DEF Codes
  <1>3. ASSUME NEW c \in Codes, Success(c) \/ Error(c) PROVE Writes
    BY <1>1, <1>3 DEF Success, Error
  <1>4. Write(204, <<>>) \/ Write(400, <<"error", "success">>) => Writes
    BY <1>1, <1>2
  <1>5. at \in {"handler", "count", "select"}
    BY DEF Answering, Preflight, Refuse, StartInvalid, StartCreates, StartReuses, Fail,
           Starts, GetCrawl, CrawlNotFound, DeleteCrawl, SelectPages, GetPage,
           PageNotFound, CheckHealth, Panic, In
  <1>6. \/ \E c \in {200, 201, 202, 400, 404, 500, 503} : Success(c) \/ Error(c)
        \/ Write(204, <<>>) \/ Write(400, <<"error", "success">>)
    <2>1. Preflight \/ DeleteCrawl => Write(204, <<>>)
      BY DEF Preflight, DeleteCrawl
    <2>2. StartInvalid => Write(400, <<"error", "success">>)
      BY DEF StartInvalid
    <2>3. Refuse => Error(400)
      BY DEF Refuse
    <2>4. StartCreates => Success(201)
      BY DEF StartCreates
    <2>5. StartReuses => Success(202)
      BY DEF StartReuses
    <2>6. Fail \/ Panic => Error(500)
      BY DEF Fail, Panic
    <2>7. GetCrawl \/ SelectPages \/ GetPage => Success(200)
      BY DEF GetCrawl, SelectPages, GetPage
    <2>8. CrawlNotFound \/ PageNotFound => Error(404)
      BY DEF CrawlNotFound, TellMissing, PageNotFound
    <2>9. CheckHealth => Success(200) \/ Success(503)
      BY DEF CheckHealth
    <2> QED
      BY <2>1, <2>2, <2>3, <2>4, <2>5, <2>6, <2>7, <2>8, <2>9 DEF Answering
  <1> HIDE DEF Writes
  <1>7. Writes
    BY <1>2, <1>3, <1>4, <1>6
  <1> QED
    BY <1>5, <1>7 DEF Writes

-----------------------------------------------------------------------------

\* A client is never told of a crawl what contradicts the tables or what it was
\* told before, whatever others do to the crawls between any two statements.
THEOREM ToldForGood == Spec => []NothingTakenBack
  <1>1. Init => ToldInv
    BY DEF Init, LifecycleInit, ToldInv, NothingTakenBack, Stored, Open, Terminal
  <1>2. ToldInv /\ [Next]_vars => ToldInv'
    BY NextToldInv
  <1> QED
    BY <1>1, <1>2, PTL DEF Spec, ToldInv

-----------------------------------------------------------------------------
(* The rows of a crawl: what the recursion of Rows computes.                 *)

IsRows(g, i, n) ==
    g = [k \in 0..n |->
            IF k = 0 THEN <<>>
            ELSE IF Order[k] \in listing[i] THEN Append(g[k - 1], Order[k]) ELSE g[k - 1]]

\* There are rows for every part of the pages.
LEMMA RowsExist ==
    ASSUME NEW i, NEW n \in Nat
    PROVE  \E g : IsRows(g, i, n)
  <1> DEFINE P(k) == \E g : IsRows(g, i, k)
             T == {k \in Nat : P(k)}
  <1>1. P(0)
    <2>1. IsRows([k \in 0..0 |-> <<>>], i, 0)
      BY DEF IsRows
    <2> QED
      BY <2>1
  <1>2. ASSUME NEW m \in Nat, P(m) PROVE P(m + 1)
    <2>1. PICK g : IsRows(g, i, m)
      BY <1>2
    <2> DEFINE row == IF Order[m + 1] \in listing[i] THEN Append(g[m], Order[m + 1]) ELSE g[m]
               h == [k \in 0..m + 1 |-> IF k = m + 1 THEN row ELSE g[k]]
    <2>2. \A k \in 0..m : g[k] = IF k = 0 THEN <<>>
                                 ELSE IF Order[k] \in listing[i]
                                      THEN Append(g[k - 1], Order[k]) ELSE g[k - 1]
      BY <2>1 DEF IsRows
    <2>3. h = [k \in 0..m + 1 |->
                  IF k = 0 THEN <<>>
                  ELSE IF Order[k] \in listing[i] THEN Append(h[k - 1], Order[k]) ELSE h[k - 1]]
      BY <2>2
    <2>4. IsRows(h, i, m + 1)
      BY <2>3 DEF IsRows
    <2> HIDE DEF h
    <2> QED
      BY <2>4
  <1> HIDE DEF P
  <1>3. T \in SUBSET Nat /\ 0 \in T /\ \A k \in T : k + 1 \in T
    BY <1>1, <1>2
  <1> HIDE DEF T
  <1>4. T = Nat
    BY <1>3, Induct
  <1>5. P(n)
    BY <1>4 DEF T
  <1> QED
    BY <1>5 DEF P

\* The pages are finitely many, each with one place in the order.
LEMMA OrderFacts ==
    /\ Order \in Seq(URLs) /\ Len(Order) \in Nat
    /\ \A k \in 1..Len(Order) : Order[k] \in URLs
    /\ \A u \in URLs : \E k \in 1..Len(Order) : Order[k] = u
    /\ \A k, l \in 1..Len(Order) : Order[k] = Order[l] => k = l
  <1>1. /\ Order \in Seq(URLs) /\ Range(Order) = URLs /\ IsInjective(Order)
        /\ DOMAIN Order = 1..Len(Order) /\ Len(Order) \in Nat
    BY ApiAssumption, LenProperties
  <1> QED
    BY <1>1, ElementOfSeq DEF Range, IsInjective

\* The rows of a crawl are its pages, each once.
LEMMA RowsFacts ==
    ASSUME NEW i, listing[i] \in SUBSET URLs
    PROVE  /\ Rows(i) \in Seq(URLs)
           /\ Range(Rows(i)) = listing[i]
           /\ IsFiniteSet(listing[i]) /\ Cardinality(listing[i]) = Len(Rows(i))
  <1> DEFINE N == Len(Order)
             First(k) == {u \in listing[i] : \E l \in 1..k : u = Order[l]}
  <1>1. IsRows(CHOOSE g : IsRows(g, i, N), i, N)
    BY RowsExist, OrderFacts, Zenon
  <1>2. Rows(i) = (CHOOSE g : IsRows(g, i, N))[N]
    BY DEF Rows, IsRows
  <1>3. PICK g : IsRows(g, i, N) /\ Rows(i) = g[N]
    BY <1>1, <1>2
  <1> DEFINE P(k) == k <= N => /\ g[k] \in Seq(URLs) /\ Range(g[k]) = First(k)
                               /\ IsFiniteSet(First(k)) /\ Cardinality(First(k)) = Len(g[k])
             T == {k \in Nat : P(k)}
  <1>4. \A k \in 0..N : g[k] = IF k = 0 THEN <<>>
                               ELSE IF Order[k] \in listing[i]
                                    THEN Append(g[k - 1], Order[k]) ELSE g[k - 1]
    BY <1>3 DEF IsRows
  <1>5. P(0)
    <2>1. g[0] = <<>> /\ First(0) = {}
      BY <1>4, OrderFacts
    <2>2. Range(<<>>) = {} /\ <<>> \in Seq(URLs) /\ Len(<<>>) = 0
      BY EmptySeq DEF Range
    <2> QED
      BY <2>1, <2>2, FS_EmptySet
  <1>6. ASSUME NEW k \in Nat, P(k) PROVE P(k + 1)
    <2> SUFFICES ASSUME k + 1 <= N
                 PROVE  /\ g[k + 1] \in Seq(URLs) /\ Range(g[k + 1]) = First(k + 1)
                        /\ IsFiniteSet(First(k + 1))
                        /\ Cardinality(First(k + 1)) = Len(g[k + 1])
      OBVIOUS
    <2> DEFINE u == Order[k + 1]
    <2>1. k <= N /\ k + 1 \in 1..N /\ k + 1 \in 0..N /\ (k + 1) - 1 = k
      BY OrderFacts
    <2>2. g[k + 1] = IF u \in listing[i] THEN Append(g[k], u) ELSE g[k]
      BY <1>4, <2>1
    <2>3. u \in URLs /\ u \notin First(k)
      <3>1. ASSUME NEW l \in 1..k, u = Order[l] PROVE FALSE
        <4>0. N \in Nat /\ l \in 1..k
          BY OrderFacts
        <4>1. l \in 1..N /\ l # k + 1
          BY <2>1, <4>0
        <4> QED
          BY <2>1, <3>1, <4>1, OrderFacts
      <3> QED
        BY <2>1, <3>1, OrderFacts
    <2>4. First(k + 1) = IF u \in listing[i] THEN First(k) \cup {u} ELSE First(k)
      <3>1. \A l : l \in 1..k + 1 <=> l \in 1..k \/ l = k + 1
        BY <2>1
      <3>2. \A x : x \in First(k + 1) <=>
                     x \in listing[i] /\ (x = u \/ \E l \in 1..k : x = Order[l])
        BY <3>1
      <3> QED
        BY <3>2
    <2>5. /\ g[k] \in Seq(URLs) /\ Range(g[k]) = First(k)
          /\ IsFiniteSet(First(k)) /\ Cardinality(First(k)) = Len(g[k])
      BY <1>6, <2>1
    <2> HIDE DEF u, First
    <2>6. CASE u \in listing[i]
      <3>1. Append(g[k], u) \in Seq(URLs) /\ Len(Append(g[k], u)) = Len(g[k]) + 1
        BY <2>3, <2>5, AppendProperties
      <3>2. Range(Append(g[k], u)) = Range(g[k]) \cup {u}
        BY <2>3, <2>5, RangeOfAppend
      <3>3. /\ IsFiniteSet(First(k) \cup {u})
            /\ Cardinality(First(k) \cup {u}) = Cardinality(First(k)) + 1
        BY <2>3, <2>5, FS_AddElement
      <3> QED
        BY <2>2, <2>4, <2>5, <2>6, <3>1, <3>2, <3>3
    <2>7. CASE u \notin listing[i]
      BY <2>2, <2>4, <2>5, <2>7
    <2> QED
      BY <2>6, <2>7
  <1>7. First(N) = listing[i]
    BY OrderFacts
  <1> HIDE DEF P
  <1>8. T \in SUBSET Nat /\ 0 \in T /\ \A k \in T : k + 1 \in T
    BY <1>5, <1>6
  <1> HIDE DEF T
  <1>9. T = Nat
    BY <1>8, Induct
  <1>10. N \in Nat /\ N <= N
    BY OrderFacts
  <1>11. P(N)
    BY <1>9, <1>10 DEF T
  <1> HIDE DEF First, N
  <1> QED
    BY <1>3, <1>7, <1>10, <1>11 DEF P

-----------------------------------------------------------------------------

(* A request that is being handled is one that was sent, and only a listing  *)
(* with valid parameters gets to its statements.                             *)
RequestInv ==
    /\ at # "done" => req \in Requests
    /\ at \in {"count", "select"} =>
          req.route = "GET /crawls/:id/pages" /\ req.id \in Ids /\ ListingIsValid

(* Nothing is walked before the end of a crawl is known, and from then on    *)
(* the count is that of the rows the client walks through.                   *)
WalkInv ==
    /\ \A i \in Ids : known[i] \in Open \cup {"unknown"} => walk[i] = <<>>
    /\ \A i \in Ids :
          at = "select" /\ req.id = i /\ known[i] \in Terminal /\ status[i] # "gone" =>
              total = Len(Rows(i))
    /\ WalkIsComplete

\* The parameters of a listing that is executed are in their ranges.
LEMMA Parameters ==
    ASSUME ListingIsValid
    PROVE  limit \in Nat /\ limit >= 1 /\ offset \in Nat
  <1>1. MaxLimit \in Nat /\ DefaultLimit \in 1..MaxLimit /\ MaxOffset \in Nat
    BY ApiAssumption
  <1> QED
    BY <1>1 DEF ListingIsValid, Valid, limit, offset, ValueOf

\* The smaller of two numbers.
LEMMA MinOfTwo ==
    ASSUME NEW a \in Nat, NEW b \in Nat
    PROVE  Min({a, b}) = IF a <= b THEN a ELSE b
  <1> DEFINE m == IF a <= b THEN a ELSE b
  <1>1. m \in {a, b} /\ \A y \in {a, b} : m =< y
    OBVIOUS
  <1>2. \A x \in {a, b} : (\A y \in {a, b} : x =< y) => x = m
    OBVIOUS
  <1> HIDE DEF m
  <1> QED
    BY <1>1, <1>2 DEF Min, m

\* The page of n rows that follow the first o of some rows is empty only beyond
\* their end, and goes on where the rows before it stop.
LEMMA Slices ==
    ASSUME NEW rows \in Seq(URLs), NEW o \in Nat, NEW n \in Nat, n >= 1
    PROVE  LET page == SubSeq(rows, o + 1, Min({o + n, Len(rows)}))
           IN  /\ page \in Seq(URLs)
               /\ page = <<>> => o >= Len(rows)
               /\ o <= Len(rows) =>
                    /\ o + Len(page) <= Len(rows)
                    /\ SubSeq(rows, 1, o) \o page = SubSeq(rows, 1, o + Len(page))
  <1> DEFINE first == o + 1
             last == Min({o + n, Len(rows)})
             page == SubSeq(rows, first, last)
  <1>1. Len(rows) \in Nat /\ \A k \in 1..Len(rows) : rows[k] \in URLs
    BY LenProperties, ElementOfSeq
  <1>2. last = IF o + n <= Len(rows) THEN o + n ELSE Len(rows)
    BY <1>1, MinOfTwo
  <1> HIDE DEF last
  <1>3. /\ first \in Int /\ last \in Nat /\ last <= Len(rows)
        /\ last < first => o >= Len(rows)
    BY <1>1, <1>2
  <1>4. \A k \in first..last : rows[k] \in URLs
    BY <1>1, <1>3
  <1> HIDE DEF first
  <1>5. /\ page \in Seq(URLs)
        /\ Len(page) = IF first <= last THEN last - first + 1 ELSE 0
    BY <1>3, <1>4, SubSeqProperties
  <1> HIDE DEF page
  <1>6. Len(page) = IF o + 1 <= last THEN last - o ELSE 0
    BY <1>3, <1>5 DEF first
  <1>7. page = <<>> => o >= Len(rows)
    <2>1. ASSUME page = <<>> PROVE last < first
      <3>1. Len(page) = 0
        BY <2>1, EmptySeq
      <3> QED
        BY <1>3, <1>5, <3>1
    <2> QED
      BY <1>3, <2>1
  <1>8. ASSUME o <= Len(rows)
        PROVE  /\ o + Len(page) <= Len(rows)
               /\ SubSeq(rows, 1, o) \o page = SubSeq(rows, 1, o + Len(page))
    <2>1. last >= o /\ o + Len(page) = last
      BY <1>1, <1>2, <1>6, <1>8
    <2>2. /\ 1 \in 1..Len(rows) + 1 /\ o \in 1 - 1..Len(rows)
          /\ last \in o..Len(rows)
      BY <1>1, <1>3, <1>8, <2>1
    <2>3. SubSeq(rows, 1, o) \o SubSeq(rows, o + 1, last) = SubSeq(rows, 1, last)
      BY <2>2, ConcatAdjacentSubSeq
    <2> QED
      BY <1>3, <2>1, <2>3 DEF page, first
  <1> QED
    BY <1>5, <1>7, <1>8 DEF page, first, last

\* What others do to the crawls keeps their types.
LEMMA LifecycleTypes ==
    ASSUME LifecycleTypeOK, LifecycleNext
    PROVE  LifecycleTypeOK'
  <1> USE DEF LifecycleTypeOK, Stored, Open, Terminal, Becomes
  <1>1. ASSUME NEW i \in Ids, Create(i) \/ Start(i) \/ Finish(i) PROVE LifecycleTypeOK'
    BY <1>1 DEF Create, Start, Finish
  <1>2. ASSUME NEW i \in Ids, Publish(i) PROVE LifecycleTypeOK'
    BY <1>2 DEF Publish
  <1>3. ASSUME NEW i \in Ids, Delete(i) PROVE LifecycleTypeOK'
    BY <1>3 DEF Delete
  <1>4. ASSUME NEW S \in SUBSET Ids, Discard(S) PROVE LifecycleTypeOK'
    BY <1>4 DEF Discard
  <1> QED
    BY <1>1, <1>2, <1>3, <1>4 DEF LifecycleNext

\* Only a sent request is handled, and a listing is read only if it is valid.
LEMMA NextRequestInv ==
    ASSUME RequestInv, [Next]_vars
    PROVE  RequestInv'
  <1>1. CASE Answering
    <2>1. PICK c \in Codes, b \in Seq(Envelopes) : Write(c, b)
      BY <1>1, AnswersWrite
    <2>2. at' = "answered" /\ req' = req /\ at # "done"
      BY <1>1, <2>1, AnswersWrite DEF Write
    <2> QED
      BY <2>2 DEF RequestInv
  <1>2. CASE Leave
    BY <1>2 DEF Leave, RequestInv
  <1>3. CASE Send
    BY <1>3 DEF Send, RequestInv
  <1>4. CASE FindCrawl
    <2>1. at' = "count" /\ req' = req /\ at = "handler"
      BY <1>4 DEF FindCrawl, In
    <2>2. req.route = "GET /crawls/:id/pages" /\ req.id \in Ids /\ ListingIsValid
      BY <1>4 DEF FindCrawl, In
    <2> QED
      BY <2>1, <2>2 DEF RequestInv, ListingIsValid
  <1>5. CASE CountPages
    <2>1. at = "count" /\ at' = "select" /\ req' = req
      BY <1>5 DEF CountPages
    <2> QED
      BY <2>1 DEF RequestInv, ListingIsValid
  <1>6. CASE Others \/ UNCHANGED vars
    <2>1. at' = at /\ req' = req
      BY <1>6 DEF Others, vars
    <2> QED
      BY <2>1 DEF RequestInv, ListingIsValid
  <1> QED
    BY <1>1, <1>2, <1>3, <1>4, <1>5, <1>6 DEF Next, Handle, Answering

\* There are finitely many pages.
LEMMA PagesAreFinite == IsFiniteSet(URLs) /\ Cardinality(URLs) \in Nat
  <1>1. Order \in Surjection(1..Len(Order), URLs)
    BY OrderFacts, LenProperties DEF Surjection
  <1>2. IsFiniteSet(1..Len(Order))
    BY OrderFacts, FS_Interval
  <1>3. IsFiniteSet(URLs)
    BY <1>1, <1>2, FS_Surjection
  <1> QED
    BY <1>3, FS_CardinalityType

\* The request and its answer keep their types.
LEMMA NextRequestTypes ==
    ASSUME TypeOK, [Next]_vars
    PROVE  /\ at' \in {"handler", "count", "select", "answered", "done"}
           /\ req' \in Requests \cup {NoRequest}
           /\ code' \in Codes
           /\ body' \in Seq(Envelopes)
  <1> DEFINE Goal == /\ at' \in {"handler", "count", "select", "answered", "done"}
                     /\ req' \in Requests \cup {NoRequest}
                     /\ code' \in Codes
                     /\ body' \in Seq(Envelopes)
  <1> SUFFICES Goal
    OBVIOUS
  <1>1. /\ at \in {"handler", "count", "select", "answered", "done"}
        /\ req \in Requests \cup {NoRequest}
        /\ code \in Codes
        /\ body \in Seq(Envelopes)
    BY DEF TypeOK, Codes
  <1>2. /\ 200 \in Codes /\ 500 \in Codes
        /\ <<>> \in Seq(Envelopes) /\ <<"error">> \in Seq(Envelopes)
    BY DEF Codes, Envelopes
  <1>3. CASE Answering
    <2>1. PICK c \in Codes, b \in Seq(Envelopes) : Write(c, b)
      BY <1>3, AnswersWrite
    <2>2. at' = "answered" /\ req' = req /\ code' = c /\ body' = b
      BY <2>1 DEF Write
    <2> QED
      BY <1>1, <2>1, <2>2
  <1>4. CASE Leave
    <2>1. at' = "done" /\ req' = NoRequest /\ code' = code /\ body' = body
      BY <1>4 DEF Leave, response
    <2> QED
      BY <1>1, <2>1
  <1>5. CASE Send
    <2>1. at' = "handler" /\ req' \in Requests /\ code' = 200 /\ body' = <<>>
      BY <1>5 DEF Send
    <2> QED
      BY <1>2, <2>1
  <1>6. CASE FindCrawl \/ CountPages \/ Others \/ UNCHANGED vars
    <2>1. at' \in {at, "count", "select"} /\ req' = req /\ code' = code /\ body' = body
      BY <1>6 DEF FindCrawl, CountPages, Others, vars, response
    <2> QED
      BY <1>1, <2>1
  <1> HIDE DEF Goal
  <1> QED
    BY <1>3, <1>4, <1>5, <1>6 DEF Next, Handle, Answering

\* The crawls and what the client knows of them keep their types.
LEMMA NextCrawlTypes ==
    ASSUME TypeOK, [Next]_vars
    PROVE  /\ LifecycleTypeOK'
           /\ known' \in [Ids -> Stored \cup {"unknown", "gone"}]
  <1> DEFINE KnownOK == known' \in [Ids -> Stored \cup {"unknown", "gone"}]
  <1>1. LifecycleTypeOK /\ known \in [Ids -> Stored \cup {"unknown", "gone"}]
    BY DEF TypeOK
  <1>2. CASE UNCHANGED crawlVars /\ known' = known
    BY <1>1, <1>2 DEF crawlVars, LifecycleTypeOK
  <1>3. Preflight \/ Refuse \/ StartInvalid \/ Fail \/ FindCrawl \/ CountPages
          \/ SelectPages \/ GetPage \/ PageNotFound \/ CheckHealth \/ Send \/ Leave
          \/ Panic \/ UNCHANGED vars
        => UNCHANGED crawlVars /\ known' = known
    BY DEF Preflight, Refuse, StartInvalid, Fail, FindCrawl, CountPages, SelectPages,
           GetPage, PageNotFound, CheckHealth, Send, Leave, Panic, crawlVars,
           told, vars
  <1>4. CASE StartCreates
    <2>1. PICK i \in Ids : Create(i) /\ known' = [known EXCEPT ![i] = "pending"]
      BY <1>4 DEF StartCreates
    <2>2. KnownOK
      BY <1>1, <2>1 DEF Stored, Open
    <2>3. LifecycleNext
      BY <2>1 DEF LifecycleNext
    <2> QED
      BY <1>1, <2>2, <2>3, LifecycleTypes
  <1>5. CASE StartReuses
    <2>1. /\ \E i \in Ids : status[i] \in Stored /\ known' = [known EXCEPT ![i] = status[i]]
          /\ UNCHANGED crawlVars
      BY <1>5 DEF StartReuses
    <2>2. KnownOK
      BY <1>1, <2>1
    <2> QED
      BY <1>1, <2>1, <2>2 DEF crawlVars, LifecycleTypeOK
  <1>6. CASE GetCrawl \/ CrawlNotFound
    <2>1. UNCHANGED crawlVars /\ KnownOK
      BY <1>1, <1>6 DEF GetCrawl, CrawlNotFound, TellMissing
    <2> QED
      BY <1>1, <2>1 DEF crawlVars, LifecycleTypeOK
  <1>7. CASE DeleteCrawl
    <2>1. req.id \in Ids /\ Delete(req.id) /\ known' = [known EXCEPT ![req.id] = "gone"]
      BY <1>7 DEF DeleteCrawl
    <2>2. KnownOK
      BY <1>1, <2>1
    <2>3. LifecycleNext
      BY <2>1 DEF LifecycleNext
    <2> QED
      BY <1>1, <2>2, <2>3, LifecycleTypes
  <1>8. CASE Others
    <2>1. LifecycleNext /\ known' = known
      BY <1>8 DEF Others, told
    <2> QED
      BY <1>1, <2>1, LifecycleTypes
  <1> HIDE DEF KnownOK
  <1> QED
    BY <1>2, <1>3, <1>4, <1>5, <1>6, <1>7, <1>8 DEF Next, Handle

\* What the statements of a listing return keeps its types.
LEMMA NextReadTypes ==
    ASSUME TypeOK, RequestInv, [Next]_vars
    PROVE  /\ total' \in 0..Cardinality(URLs)
           /\ slice' \in Seq(URLs)
           /\ walk' \in [Ids -> Seq(URLs)]
  <1> DEFINE Goal == /\ total' \in 0..Cardinality(URLs)
                     /\ slice' \in Seq(URLs)
                     /\ walk' \in [Ids -> Seq(URLs)]
  <1> SUFFICES Goal
    OBVIOUS
  <1>1. /\ total \in 0..Cardinality(URLs) /\ slice \in Seq(URLs)
        /\ walk \in [Ids -> Seq(URLs)]
        /\ \A i \in Ids : listing[i] \in SUBSET URLs
    BY DEF TypeOK, LifecycleTypeOK
  <1>2. Preflight \/ Refuse \/ StartInvalid \/ StartCreates \/ StartReuses \/ Fail
          \/ GetCrawl \/ CrawlNotFound \/ DeleteCrawl \/ FindCrawl \/ GetPage
          \/ PageNotFound \/ CheckHealth \/ Send \/ Panic \/ Others \/ UNCHANGED vars
        => UNCHANGED <<total, slice, walk>>
    BY DEF Preflight, Refuse, StartInvalid, StartCreates, StartReuses, Fail, GetCrawl,
           CrawlNotFound, TellMissing, DeleteCrawl, FindCrawl, GetPage, PageNotFound,
           CheckHealth, Send, Panic, Others, reads, told, vars
  <1>3. CASE Leave
    <2>1. total' = 0 /\ slice' = <<>> /\ walk' = walk
      BY <1>3 DEF Leave, told
    <2> QED
      BY <1>1, <2>1, PagesAreFinite
  <1>4. CASE CountPages
    <2>1. /\ at = "count" /\ total' = Cardinality(listing[req.id])
          /\ slice' = slice /\ walk' = walk
      BY <1>4 DEF CountPages, told
    <2>2. req.id \in Ids
      BY <2>1 DEF RequestInv
    <2>3. listing[req.id] \in SUBSET URLs
      BY <1>1, <2>2
    <2>4. Cardinality(listing[req.id]) \in 0..Cardinality(URLs)
      <3>1. /\ IsFiniteSet(listing[req.id])
            /\ Cardinality(listing[req.id]) <= Cardinality(URLs)
        BY <2>3, PagesAreFinite, FS_Subset
      <3>2. Cardinality(listing[req.id]) \in Nat
        BY <3>1, FS_CardinalityType
      <3> QED
        BY <3>1, <3>2, PagesAreFinite
    <2> QED
      BY <1>1, <2>1, <2>4
  <1>5. CASE SelectPages
    <2> DEFINE i == req.id
               page == SubSeq(Rows(i), offset + 1, Min({offset + limit, Len(Rows(i))}))
    <2>1. /\ at = "select" /\ slice' = page /\ total' = total
          /\ walk' \in {walk, [walk EXCEPT ![i] = @ \o slice']}
      BY <1>5 DEF SelectPages
    <2>2. i \in Ids /\ ListingIsValid
      BY <2>1 DEF RequestInv
    <2>3. Rows(i) \in Seq(URLs)
      BY <1>1, <2>2, RowsFacts
    <2>4. page \in Seq(URLs)
      BY <2>2, <2>3, Parameters, Slices
    <2>5. walk[i] \in Seq(URLs)
      BY <1>1, <2>2
    <2> HIDE DEF page, i
    <2>6. walk[i] \o slice' \in Seq(URLs)
      BY <2>1, <2>4, <2>5, ConcatProperties
    <2>7. walk' \in [Ids -> Seq(URLs)]
      BY <1>1, <2>1, <2>6
    <2> QED
      BY <1>1, <2>1, <2>4, <2>7
  <1>6. CASE UNCHANGED <<total, slice, walk>>
    BY <1>1, <1>6
  <1> HIDE DEF Goal
  <1> QED
    BY <1>2, <1>3, <1>4, <1>5, <1>6 DEF Next, Handle

\* Every step keeps the types.
LEMMA NextTypeOK ==
    ASSUME TypeOK, RequestInv, [Next]_vars
    PROVE  TypeOK'
  <1>1. /\ at' \in {"handler", "count", "select", "answered", "done"}
        /\ req' \in Requests \cup {NoRequest}
        /\ code' \in Codes
        /\ body' \in Seq(Envelopes)
    BY NextRequestTypes
  <1>2. LifecycleTypeOK' /\ known' \in [Ids -> Stored \cup {"unknown", "gone"}]
    BY NextCrawlTypes
  <1>3. /\ total' \in 0..Cardinality(URLs)
        /\ slice' \in Seq(URLs)
        /\ walk' \in [Ids -> Seq(URLs)]
    BY NextReadTypes
  <1> QED
    BY <1>1, <1>2, <1>3 DEF TypeOK, Codes, Requests

\* At the start nothing is stored, nothing was sent and nothing was told.
LEMMA InitTypes == Init => TypeOK /\ RequestInv
  <1> SUFFICES ASSUME Init PROVE TypeOK /\ RequestInv
    OBVIOUS
  <1>1. LifecycleTypeOK
    BY DEF Init, LifecycleInit, LifecycleTypeOK
  <1>2. total \in 0..Cardinality(URLs)
    BY PagesAreFinite DEF Init
  <1>3. body \in Seq(Envelopes) /\ slice \in Seq(URLs) /\ walk \in [Ids -> Seq(URLs)]
    BY DEF Init
  <1>4. known \in [Ids -> Stored \cup {"unknown", "gone"}]
    BY DEF Init
  <1> QED
    BY <1>1, <1>2, <1>3, <1>4 DEF Init, TypeOK, RequestInv

\* The rows, the requests, what was answered, counted, read and told always
\* have their types.
THEOREM TypesAreKept == Spec => []TypeOK
  <1>1. TypeOK /\ RequestInv /\ [Next]_vars => TypeOK' /\ RequestInv'
    BY NextTypeOK, NextRequestInv
  <1> QED
    BY <1>1, InitTypes, PTL DEF Spec

-----------------------------------------------------------------------------
(* Pagination.                                                               *)

\* The client and the others together change the crawls as CrawlLifecycle says.
LEMMA CrawlsFollowTheLifecycle ==
    ASSUME [Next]_vars
    PROVE  [LifecycleNext]_crawlVars
  <1>1. Preflight \/ Refuse \/ StartInvalid \/ StartReuses \/ Fail \/ GetCrawl
          \/ CrawlNotFound \/ FindCrawl \/ CountPages \/ SelectPages \/ GetPage
          \/ PageNotFound \/ CheckHealth \/ Send \/ Leave \/ Panic \/ UNCHANGED vars
        => UNCHANGED crawlVars
    BY DEF Preflight, Refuse, StartInvalid, StartReuses, Fail, GetCrawl, CrawlNotFound,
           TellMissing, FindCrawl, CountPages, SelectPages, GetPage, PageNotFound,
           CheckHealth, Send, Leave, Panic, crawlVars, vars
  <1>2. StartCreates => LifecycleNext
    BY DEF StartCreates, LifecycleNext
  <1>3. DeleteCrawl => LifecycleNext
    BY DEF DeleteCrawl, LifecycleNext
  <1>4. Others => LifecycleNext
    BY DEF Others
  <1> QED
    BY <1>1, <1>2, <1>3, <1>4 DEF Next, Handle

\* A crawl that has ended keeps its status and its pages until it is deleted,
\* and a deleted one stays deleted.
LEMMA EndIsFinal ==
    ASSUME LifecycleTypeOK, [LifecycleNext]_crawlVars, NEW i \in Ids
    PROVE  /\ status[i] = "gone" => status'[i] = "gone"
           /\ status[i] \in Terminal /\ status'[i] # "gone" =>
                 status'[i] = status[i] /\ listing'[i] = listing[i]
  <1> USE DEF LifecycleTypeOK, Stored, Open, Terminal, Becomes
  <1>1. CASE UNCHANGED crawlVars
    BY <1>1 DEF crawlVars
  <1>2. ASSUME NEW j \in Ids, Create(j) \/ Start(j) \/ Finish(j) \/ Publish(j)
        PROVE  /\ i # j \/ status[i] \notin Terminal \cup {"gone"}
               /\ i # j => status'[i] = status[i] /\ listing'[i] = listing[i]
    BY <1>2 DEF Create, Start, Finish, Publish
  <1>3. ASSUME NEW j \in Ids, Delete(j)
        PROVE  /\ status'[j] = "gone"
               /\ i # j => status'[i] = status[i] /\ listing'[i] = listing[i]
    BY <1>3 DEF Delete
  <1>4. ASSUME NEW S \in SUBSET Ids, Discard(S)
        PROVE  /\ i \in S => status[i] = "none"
               /\ i \notin S => status'[i] = status[i]
               /\ listing'[i] = listing[i]
    BY <1>4 DEF Discard
  <1> QED
    BY <1>1, <1>2, <1>3, <1>4 DEF LifecycleNext

\* What a client learns of a crawl is its status now, or that it is gone.
LEMMA Learns ==
    ASSUME [Next]_vars
    PROVE  \/ known' = known
           \/ /\ walk' = walk
              /\ \E j \in Ids : \E s :
                    /\ known' = [known EXCEPT ![j] = s]
                    /\ \/ status[j] = "none" /\ s = "pending"
                       \/ status[j] \in Stored /\ s = status[j] /\ UNCHANGED crawlVars
                       \/ s \in {known[j], "gone"}
  <1>1. Preflight \/ Refuse \/ StartInvalid \/ Fail \/ FindCrawl \/ CountPages
          \/ SelectPages \/ GetPage \/ PageNotFound \/ CheckHealth \/ Send \/ Leave
          \/ Panic \/ Others \/ UNCHANGED vars
        => known' = known
    BY DEF Preflight, Refuse, StartInvalid, Fail, FindCrawl, CountPages, SelectPages,
           GetPage, PageNotFound, CheckHealth, Send, Leave, Panic, Others,
           told, vars
  <1>2. CASE StartCreates
    <2>1. walk' = walk /\ \E i \in Ids : Create(i) /\ known' = [known EXCEPT ![i] = "pending"]
      BY <1>2 DEF StartCreates
    <2> QED
      BY <2>1 DEF Create
  <1>3. CASE StartReuses
    BY <1>3 DEF StartReuses
  <1>4. CASE GetCrawl
    BY <1>4 DEF GetCrawl
  <1>5. CASE CrawlNotFound
    <2>1. /\ walk' = walk /\ req.id \in Ids
          /\ known' = [known EXCEPT ![req.id] = IF @ = "unknown" THEN @ ELSE "gone"]
      BY <1>5 DEF CrawlNotFound, TellMissing
    <2> QED
      BY <2>1
  <1>6. CASE DeleteCrawl
    BY <1>6 DEF DeleteCrawl
  <1> QED
    BY <1>1, <1>2, <1>3, <1>4, <1>5, <1>6 DEF Next, Handle

\* As long as the pages of a crawl are the same, so are its rows.
LEMMA SameRows ==
    ASSUME NEW i \in Ids, listing'[i] = listing[i]
    PROVE  Rows(i)' = Rows(i)
  BY DEF Rows

\* The rows walked are the first of all of them.
LEMMA PrefixMeans ==
    ASSUME NEW rows \in Seq(URLs), NEW w \in Seq(URLs)
    PROVE  IsPrefix(w, rows) <=> Len(w) <= Len(rows) /\ w = SubSeq(rows, 1, Len(w))
  <1>1. SubSeq(w, 1, Len(w)) = w
    BY SubSeqFull
  <1> QED
    BY <1>1, Zenon DEF IsPrefix

\* No rows are the first of any.
LEMMA NoneIsPrefix ==
    ASSUME NEW rows \in Seq(URLs)
    PROVE  IsPrefix(<<>>, rows)
  <1>1. <<>> \in Seq(URLs) /\ Len(<<>>) = 0 /\ 0 <= Len(rows)
    BY EmptySeq, LenProperties
  <1>2. SubSeq(rows, 1, 0) = <<>>
    BY SubSeqEmpty
  <1> QED
    BY <1>1, <1>2, PrefixMeans

\* One more listing from where the walk stopped gives the next rows of it.
LEMMA WalksOn ==
    ASSUME NEW rows \in Seq(URLs), NEW w \in Seq(URLs), IsPrefix(w, rows),
           NEW n \in Nat, n >= 1
    PROVE  IsPrefix(w \o SubSeq(rows, Len(w) + 1, Min({Len(w) + n, Len(rows)})), rows)
  <1> DEFINE o == Len(w)
             page == SubSeq(rows, o + 1, Min({o + n, Len(rows)}))
             m == o + Len(page)
  <1>1. o \in Nat /\ o <= Len(rows) /\ w = SubSeq(rows, 1, o) /\ Len(rows) \in Nat
    BY PrefixMeans, LenProperties
  <1>2. /\ page \in Seq(URLs)
        /\ o + Len(page) <= Len(rows)
        /\ SubSeq(rows, 1, o) \o page = SubSeq(rows, 1, o + Len(page))
    BY <1>1, Slices
  <1> HIDE DEF page, o
  <1>3. w \o page \in Seq(URLs) /\ Len(w \o page) = m
    BY <1>2, ConcatProperties DEF o
  <1>4. w \o page = SubSeq(rows, 1, m) /\ m <= Len(rows)
    BY <1>1, <1>2
  <1>5. IsPrefix(w \o page, rows)
    BY <1>3, <1>4, PrefixMeans
  <1> QED
    BY <1>5 DEF page, o

\* The first rows of a crawl are rows of it.
LEMMA PrefixRange ==
    ASSUME NEW rows \in Seq(URLs), NEW w \in Seq(URLs), IsPrefix(w, rows)
    PROVE  Range(w) \subseteq Range(rows)
  <1>1. /\ Len(w) \in Nat /\ Len(rows) \in Nat /\ Len(w) <= Len(rows)
        /\ w = SubSeq(rows, 1, Len(w))
        /\ DOMAIN w = 1..Len(w) /\ DOMAIN rows = 1..Len(rows)
    BY PrefixMeans, LenProperties
  <1>2. \A k \in 1..Len(w) : rows[k] \in URLs
    BY <1>1, ElementOfSeq
  <1> DEFINE m == Len(w)
  <1>3. \A k \in 1..(m - 1 + 1) : SubSeq(rows, 1, m)[k] = rows[1 + k - 1]
    <2> HIDE DEF m
    <2>1. m \in Int /\ 1 \in Int /\ \A k \in 1..m : rows[k] \in URLs
      BY <1>1, <1>2 DEF m
    <2> QED
      BY <2>1, SubSeqProperties
  <1>4. ASSUME NEW k \in 1..Len(w) PROVE k \in 1..Len(rows) /\ w[k] = rows[k]
    <2>1. k \in 1..(m - 1 + 1) /\ 1 + k - 1 = k /\ k \in 1..Len(rows)
      BY <1>1
    <2> QED
      BY <1>1, <1>3, <2>1
  <1> QED
    BY <1>1, <1>4 DEF Range

\* Only SELECT moves a walk, that of a crawl known to have ended, from where it
\* stopped.
LEMMA Walks ==
    ASSUME [Next]_vars
    PROVE  \/ walk' = walk
           \/ /\ at = "select" /\ known' = known
              /\ known[req.id] \in Terminal /\ offset = Len(walk[req.id])
              /\ walk' = [walk EXCEPT ![req.id] = @ \o SubSeq(Rows(req.id),
                             offset + 1, Min({offset + limit, Len(Rows(req.id))}))]
  <1>1. Preflight \/ Refuse \/ StartInvalid \/ StartCreates \/ StartReuses \/ Fail
          \/ GetCrawl \/ CrawlNotFound \/ DeleteCrawl \/ FindCrawl \/ CountPages
          \/ GetPage \/ PageNotFound \/ CheckHealth \/ Send \/ Leave \/ Panic \/ Others
          \/ UNCHANGED vars
        => walk' = walk
    BY DEF Preflight, Refuse, StartInvalid, StartCreates, StartReuses, Fail, GetCrawl,
           CrawlNotFound, TellMissing, DeleteCrawl, FindCrawl, CountPages, GetPage,
           PageNotFound, CheckHealth, Send, Leave, Panic, Others, told, vars
  <1> DEFINE page == SubSeq(Rows(req.id), offset + 1,
                            Min({offset + limit, Len(Rows(req.id))}))
  <1>2. ASSUME SelectPages, walk' # walk
        PROVE  /\ at = "select" /\ known' = known
               /\ known[req.id] \in Terminal /\ offset = Len(walk[req.id])
               /\ walk' = [walk EXCEPT ![req.id] = @ \o page]
    <2>1. /\ at = "select" /\ known' = known /\ slice' = page
          /\ walk' = IF known[req.id] \in Terminal /\ offset = Len(walk[req.id])
                     THEN [walk EXCEPT ![req.id] = @ \o slice'] ELSE walk
      BY <1>2 DEF SelectPages
    <2> HIDE DEF page
    <2> QED
      BY <1>2, <2>1
  <1> QED
    BY <1>1, <1>2 DEF Next, Handle

\* Nothing is walked before the end is known; then the walk is along the rows.
LEMMA NextWalk ==
    ASSUME TypeOK, NothingTakenBack, RequestInv, WalkInv, [Next]_vars, NEW i \in Ids
    PROVE  /\ known'[i] \in Open \cup {"unknown"} => walk'[i] = <<>>
           /\ known'[i] \in Terminal /\ status'[i] # "gone" =>
                 IsPrefix(walk'[i], Rows(i)')
  <1>1. /\ status[i] = "gone" => status'[i] = "gone"
        /\ status[i] \in Terminal /\ status'[i] # "gone" => listing'[i] = listing[i]
    BY CrawlsFollowTheLifecycle, EndIsFinal DEF TypeOK
  <1>2. /\ known \in [Ids -> Stored \cup {"unknown", "gone"}]
        /\ walk \in [Ids -> Seq(URLs)] /\ Rows(i) \in Seq(URLs)
    BY RowsFacts DEF TypeOK, LifecycleTypeOK
  <1>3. /\ known[i] \in Stored => status[i] # "none"
        /\ known[i] \in Terminal => status[i] \in {known[i], "gone"}
        /\ known[i] = "gone" => status[i] = "gone"
    BY DEF NothingTakenBack
  <1>4. /\ known[i] \in Open \cup {"unknown"} => walk[i] = <<>>
        /\ known[i] \in Terminal /\ status[i] # "gone" => IsPrefix(walk[i], Rows(i))
    BY DEF WalkInv, WalkIsComplete
  <1>5. CASE walk' = walk /\ known'[i] = known[i]
    <2>1. CASE known[i] \in Terminal /\ status'[i] # "gone"
      <3>1. status[i] # "gone" /\ Rows(i)' = Rows(i)
        BY <1>1, <1>3, <2>1, SameRows
      <3> QED
        BY <1>4, <1>5, <2>1, <3>1 DEF Open, Terminal
    <2> QED
      BY <1>4, <1>5, <2>1
  <1>6. CASE walk' = walk /\ known'[i] # known[i]
    <2>1. \/ status[i] = "none" /\ known'[i] = "pending"
          \/ status[i] \in Stored /\ known'[i] = status[i] /\ UNCHANGED crawlVars
          \/ known'[i] = "gone"
      BY <1>2, <1>6, Learns
    <2>2. CASE known'[i] = "gone"
      BY <2>2 DEF Open, Terminal
    <2>3. CASE known'[i] # "gone"
      <3>1. known[i] \in Open \cup {"unknown"}
        BY <1>2, <1>3, <1>6, <2>1, <2>3 DEF Stored, Open, Terminal
      <3>2. walk'[i] = <<>>
        BY <1>4, <1>6, <3>1
      <3>3. ASSUME known'[i] \in Terminal PROVE Rows(i)' = Rows(i)
        BY <2>1, <2>3, <3>3, SameRows DEF crawlVars, Terminal
      <3>4. IsPrefix(<<>>, Rows(i))
        BY <1>2, NoneIsPrefix
      <3> QED
        BY <3>2, <3>3, <3>4
    <2> QED
      BY <2>2, <2>3
  <1>7. CASE walk' # walk
    <2> DEFINE page == SubSeq(Rows(req.id), offset + 1,
                              Min({offset + limit, Len(Rows(req.id))}))
    <2>1. /\ at = "select" /\ known' = known
          /\ known[req.id] \in Terminal /\ offset = Len(walk[req.id])
          /\ walk' = [walk EXCEPT ![req.id] = @ \o page]
      BY <1>7, Walks
    <2>2. req.id \in Ids /\ limit \in Nat /\ limit >= 1
      BY <2>1, Parameters DEF RequestInv
    <2>3. CASE i # req.id
      <3>1. walk'[i] = walk[i] /\ known'[i] = known[i]
        BY <1>2, <2>1, <2>2, <2>3
      <3>2. CASE known[i] \in Terminal /\ status'[i] # "gone"
        <4>1. status[i] # "gone" /\ Rows(i)' = Rows(i)
          BY <1>1, <1>3, <3>2, SameRows
        <4> QED
          BY <1>4, <3>1, <3>2, <4>1 DEF Open, Terminal
      <3> QED
        BY <1>4, <3>1, <3>2
    <2>4. CASE i = req.id /\ status'[i] # "gone"
      <3>1. status[i] # "gone" /\ Rows(i)' = Rows(i)
        BY <1>1, <1>3, <2>1, <2>4, SameRows
      <3>2. IsPrefix(walk[i], Rows(i))
        BY <1>4, <2>1, <2>4, <3>1
      <3>3. IsPrefix(walk[i] \o SubSeq(Rows(i), Len(walk[i]) + 1,
                                Min({Len(walk[i]) + limit, Len(Rows(i))})), Rows(i))
        BY <1>2, <2>2, <3>2, WalksOn
      <3>4. walk'[i] = walk[i] \o page
        BY <1>2, <2>1, <2>2, <2>4
      <3>5. walk'[i] = walk[i] \o SubSeq(Rows(i), Len(walk[i]) + 1,
                                Min({Len(walk[i]) + limit, Len(Rows(i))}))
        BY <2>1, <2>4, <3>4
      <3> HIDE DEF page
      <3> QED
        BY <2>1, <2>4, <3>1, <3>3, <3>5 DEF Open, Terminal
    <2>5. CASE i = req.id /\ status'[i] = "gone"
      BY <2>1, <2>5 DEF Open, Terminal
    <2> QED
      BY <2>3, <2>4, <2>5
  <1> QED
    BY <1>5, <1>6, <1>7

\* The count of a listing is that of the rows it will select from, although it
\* is the count of an earlier statement.
LEMMA NextCount ==
    ASSUME TypeOK, NothingTakenBack, RequestInv, WalkInv, [Next]_vars, NEW i \in Ids,
           at' = "select", req'.id = i, known'[i] \in Terminal, status'[i] # "gone"
    PROVE  total' = Len(Rows(i)')
  <1>1. CASE CountPages
    <2>1. req' = req /\ total' = Cardinality(listing[req.id]) /\ UNCHANGED crawlVars
      BY <1>1 DEF CountPages
    <2>2. Rows(i)' = Rows(i)
      BY <2>1, SameRows DEF crawlVars
    <2>3. Cardinality(listing[i]) = Len(Rows(i))
      BY RowsFacts DEF TypeOK, LifecycleTypeOK
    <2> QED
      BY <2>1, <2>2, <2>3
  <1>2. CASE Others \/ UNCHANGED vars
    <2>1. at = "select" /\ req' = req /\ known' = known /\ total' = total
      BY <1>2 DEF Others, vars, told, reads
    <2>2. /\ status[i] # "gone"
          /\ status[i] \in Terminal => listing'[i] = listing[i]
      BY CrawlsFollowTheLifecycle, EndIsFinal DEF TypeOK
    <2>3. status[i] \in Terminal
      BY <2>1, <2>2 DEF NothingTakenBack
    <2>4. Rows(i)' = Rows(i)
      BY <2>2, <2>3, SameRows
    <2>5. total = Len(Rows(i))
      BY <2>1, <2>2 DEF WalkInv
    <2> QED
      BY <2>1, <2>4, <2>5
  <1>3. CASE Answering
    <2>1. PICK c \in Codes, b \in Seq(Envelopes) : Write(c, b)
      BY <1>3, AnswersWrite
    <2> QED
      BY <2>1 DEF Write
  <1>4. CASE FindCrawl \/ Send \/ Leave
    BY <1>4 DEF FindCrawl, Send, Leave
  <1> QED
    BY <1>1, <1>2, <1>3, <1>4 DEF Next, Handle, Answering

\* Only SELECT answers a listing with 200 and only a page that is not there is
\* answered with 404.
LEMMA AnswersOfOthers ==
    ASSUME \/ Preflight \/ Refuse \/ StartInvalid \/ StartCreates \/ StartReuses \/ Fail
           \/ GetCrawl \/ CrawlNotFound \/ DeleteCrawl \/ GetPage \/ CheckHealth \/ Panic
    PROVE  /\ req' = req
           /\ code' = 200 => req.route # "GET /crawls/:id/pages"
           /\ code' = 404 => req.route # "GET /pages/:id"
  <1>1. ASSUME NEW c, NEW b, Write(c, b) PROVE code' = c /\ req' = req
    BY <1>1 DEF Write
  <1>2. ASSUME NEW c, Success(c) \/ Error(c)
        PROVE  code' = c /\ req' = req
    BY <1>1, <1>2 DEF Success, Error
  <1>3. CASE Preflight \/ DeleteCrawl
    <2>1. Write(204, <<>>)
      BY <1>3 DEF Preflight, DeleteCrawl
    <2>2. req' = req /\ code' # 200 /\ code' # 404
      BY <1>1, <2>1
    <2> QED
      BY <2>2
  <1>4. CASE StartInvalid
    <2>1. Write(400, <<"error", "success">>)
      BY <1>4 DEF StartInvalid
    <2>2. req' = req /\ code' = 400
      BY <1>1, <2>1
    <2>3. code' # 200 /\ code' # 404
      BY <2>2
    <2> QED
      BY <2>2, <2>3
  <1>5. CASE Refuse \/ StartCreates \/ StartReuses \/ Fail \/ Panic
    <2>1. Error(400) \/ Success(201) \/ Success(202) \/ Error(500)
      BY <1>5 DEF Refuse, StartCreates, StartReuses, Fail, Panic
    <2>2. req' = req /\ code' # 200 /\ code' # 404
      BY <1>2, <2>1
    <2> QED
      BY <2>2
  <1>6. CASE GetCrawl \/ GetPage \/ CheckHealth
    <2>1. req.route \in {"GET /crawls/:id", "GET /pages/:id", "GET /health"}
      BY <1>6 DEF GetCrawl, GetPage, CheckHealth, In
    <2>2. Success(200) \/ Success(503)
      BY <1>6 DEF GetCrawl, GetPage, CheckHealth
    <2>3. req' = req /\ code' # 404
      BY <1>2, <2>2
    <2>4. req.route # "GET /crawls/:id/pages"
      BY <2>1
    <2> QED
      BY <2>3, <2>4
  <1>7. CASE CrawlNotFound
    <2>1. req.route # "GET /pages/:id" /\ Error(404)
      BY <1>7 DEF CrawlNotFound, AboutOneCrawl, TellMissing
    <2>2. Error(404)
      BY <2>1
    <2>3. req' = req /\ code' # 200
      BY <1>2, <2>2
    <2> QED
      BY <2>1, <2>3
  <1> QED
    BY <1>3, <1>4, <1>5, <1>6, <1>7

\* What the client reads of a walk when it has listed or looked up a page.
WalkAnswers(i) ==
    /\ at = "answered" /\ code = 200 /\ req.route = "GET /crawls/:id/pages" /\ req.id = i =>
          /\ total = Len(Rows(i))
          /\ slice = <<>> => offset >= total
    /\ at = "answered" /\ code = 404 /\ req.route = "GET /pages/:id" /\ req.id = i =>
          req.url \notin Range(walk[i])

\* A listing has the right total and is empty only at the end, and a page that
\* is not found is none of those listed before.
LEMMA NextAnswers ==
    ASSUME TypeOK, NothingTakenBack, RequestInv, WalkInv, [Next]_vars,
           NEW i \in Ids, known'[i] \in Terminal, status'[i] # "gone"
    PROVE  WalkAnswers(i)'
  <1>0. /\ known \in [Ids -> Stored \cup {"unknown", "gone"}]
        /\ walk \in [Ids -> Seq(URLs)] /\ Rows(i) \in Seq(URLs)
        /\ Range(Rows(i)) = listing[i]
    BY RowsFacts DEF TypeOK, LifecycleTypeOK
  <1>1. known[i] \in Terminal /\ known' = known =>
            /\ status[i] # "gone" /\ Rows(i)' = Rows(i)
            /\ IsPrefix(walk[i], Rows(i)) /\ WalkAnswers(i)
    <2> HAVE known[i] \in Terminal /\ known' = known
    <2>1. status[i] # "gone" /\ status[i] \in {known[i], "gone"}
      BY CrawlsFollowTheLifecycle, EndIsFinal DEF TypeOK, NothingTakenBack
    <2>2. listing'[i] = listing[i]
      BY <2>1, CrawlsFollowTheLifecycle, EndIsFinal DEF TypeOK
    <2> QED
      BY <2>1, <2>2, SameRows DEF WalkInv, WalkIsComplete, WalkAnswers
  <1>2. CASE SelectPages
    <2> DEFINE page == SubSeq(Rows(i), offset + 1, Min({offset + limit, Len(Rows(i))}))
    <2>1. /\ at = "select" /\ known' = known /\ total' = total
          /\ req' = req /\ at' = "answered" /\ code' = 200
          /\ req.id = i => slice' = page
      BY <1>2 DEF SelectPages, Success, Write
    <2>2. req.route = "GET /crawls/:id/pages" /\ ListingIsValid
      BY <2>1 DEF RequestInv
    <2>3. offset' = offset
      BY <2>1 DEF offset
    <2>4. CASE req.id = i
      <3>1. known[i] \in Terminal /\ Rows(i)' = Rows(i) /\ status[i] # "gone"
        BY <1>1, <2>1
      <3>2. total = Len(Rows(i))
        BY <2>1, <2>4, <3>1 DEF WalkInv
      <3>3. page = <<>> => offset >= Len(Rows(i))
        BY <1>0, <2>2, Parameters, Slices
      <3> HIDE DEF page
      <3>4. /\ total' = Len(Rows(i)')
            /\ slice' = <<>> => offset' >= total'
        BY <2>1, <2>3, <2>4, <3>1, <3>2, <3>3
      <3> QED
        BY <2>1, <2>2, <3>4 DEF WalkAnswers
    <2>5. CASE req.id # i
      BY <2>1, <2>5 DEF WalkAnswers
    <2> QED
      BY <2>4, <2>5
  <1>3. CASE PageNotFound
    <2>1. /\ req.url \notin listing[req.id] /\ req.route = "GET /pages/:id"
          /\ known' = known /\ walk' = walk /\ req' = req /\ code' = 404
      BY <1>3 DEF PageNotFound, In, told, Error, Write
    <2>2. Range(walk[i]) \subseteq listing[i]
      BY <1>0, <1>1, <2>1, PrefixRange
    <2> QED
      BY <2>1, <2>2 DEF WalkAnswers
  <1>4. CASE \/ Preflight \/ Refuse \/ StartInvalid \/ StartCreates \/ StartReuses \/ Fail
              \/ GetCrawl \/ CrawlNotFound \/ DeleteCrawl \/ GetPage \/ CheckHealth \/ Panic
    BY <1>4, AnswersOfOthers DEF WalkAnswers
  <1>5. CASE FindCrawl \/ CountPages \/ Send \/ Leave
    BY <1>5 DEF FindCrawl, CountPages, Send, Leave, WalkAnswers
  <1>6. CASE Others \/ UNCHANGED vars
    <2>1. UNCHANGED <<at, req, code, total, slice, known, walk>>
      BY <1>6 DEF Others, vars, response, reads, told
    <2>2. Rows(i)' = Rows(i) /\ WalkAnswers(i)
      BY <1>1, <2>1
    <2> QED
      BY <2>1, <2>2 DEF WalkAnswers, offset
  <1> QED
    BY <1>2, <1>3, <1>4, <1>5, <1>6 DEF Next, Handle, Answering

\* Every step keeps what is known of the walks.
LEMMA NextWalkInv ==
    ASSUME TypeOK, NothingTakenBack, RequestInv, WalkInv, [Next]_vars
    PROVE  WalkInv'
  <1>1. \A i \in Ids : known'[i] \in Open \cup {"unknown"} => walk'[i] = <<>>
    BY NextWalk
  <1>2. ASSUME NEW i \in Ids, at' = "select", req'.id = i, known'[i] \in Terminal,
               status'[i] # "gone"
        PROVE  total' = Len(Rows(i)')
    BY <1>2, NextCount
  <1>3. ASSUME NEW i \in Ids, known'[i] \in Terminal, status'[i] # "gone"
        PROVE  IsPrefix(walk'[i], Rows(i)') /\ WalkAnswers(i)'
    BY <1>3, NextWalk, NextAnswers
  <1>4. WalkIsComplete'
    BY <1>3 DEF WalkIsComplete, WalkAnswers
  <1> QED
    BY <1>1, <1>2, <1>4 DEF WalkInv

\* A client that has seen a final status and lists on from where it stopped gets
\* every page once and in order, with the right total, and finds each of them
\* again, in listings of any size and whatever others do, until the crawl is
\* deleted.
THEOREM PaginationIsComplete == Spec => []WalkIsComplete
  <1> DEFINE Inv == TypeOK /\ ToldInv /\ RequestInv /\ WalkInv
  <1>1. Init => Inv
    <2> SUFFICES ASSUME Init PROVE Inv
      OBVIOUS
    <2>1. TypeOK /\ RequestInv
      BY InitTypes
    <2>2. ToldInv
      BY DEF Init, LifecycleInit, ToldInv, NothingTakenBack, Stored, Open, Terminal
    <2>3. WalkInv
      BY DEF Init, WalkInv, WalkIsComplete, Open, Terminal
    <2> QED
      BY <2>1, <2>2, <2>3
  <1>2. Inv /\ [Next]_vars => Inv'
    <2> SUFFICES ASSUME TypeOK, ToldInv, RequestInv, WalkInv, [Next]_vars
                 PROVE  TypeOK' /\ ToldInv' /\ RequestInv' /\ WalkInv'
      OBVIOUS
    <2>1. NothingTakenBack
      BY DEF ToldInv
    <2> QED
      BY <2>1, NextTypeOK, NextToldInv, NextRequestInv, NextWalkInv
  <1>3. Inv => WalkIsComplete
    BY DEF WalkInv
  <1> QED
    BY <1>1, <1>2, <1>3, PTL DEF Spec

=============================================================================
