--------------------------- MODULE FetcherProofs ---------------------------
(***************************************************************************)
(* Fetcher for any web, any settings and any hard limit: how many requests *)
(* a fetch may send, and what it reports.                                  *)
(***************************************************************************)
EXTENDS Fetcher, DataLemmas, TLAPS

(* One more request may be sent only while there are fewer than Limit.       *)
RequestsInv ==
    /\ requests <= Limit
    /\ phase = "build" => requests = 0
    /\ phase = "send" => requests < Limit
    /\ phase = "redirect" => web[at].type = "redirect"

\* NewFetcher makes a limit within the hard one of every setting.
LEMMA LimitType ==
    ASSUME maxRedirects \in Settings
    PROVE  Limit \in 1..HardMaxRedirects
  BY FetcherAssumption DEF Limit

\* What a final answer is reported as is a result.
LEMMA Results ==
    ASSUME NEW a \in Answers, a.type \in Documents \cup {"cut"}
    PROVE  ResultOf(a) \in Result
  BY DEF Answers, Documents, ResultOf, Result, Codes

\* A redirect names a target.
LEMMA Redirects ==
    ASSUME NEW a \in Answers, a.type = "redirect"
    PROVE  a.to \in Targets
  BY DEF Answers, Documents

\* Every step keeps the types and the number of requests within the limit.
LEMMA NextFetcher ==
    ASSUME TypeOK, RequestsInv, [Next]_vars
    PROVE  TypeOK' /\ RequestsInv'
  <1> USE DEF TypeOK, RequestsInv
  <1>0. Limit \in 1..HardMaxRedirects
    BY LimitType
  <1>1. Failure \in Result
    BY DEF Failure, Result, Codes
  <1>2. CASE BuildRequest
    BY <1>0, <1>2 DEF BuildRequest, Limit
  <1>3. CASE BuildFails \/ SendFails \/ RefuseRedirect \/ ReadFails \/ Timeout
    BY <1>0, <1>1, <1>3 DEF BuildFails, SendFails, RefuseRedirect, ReadFails, Timeout,
                            Fail, Limit
  <1>4. CASE Respond
    BY <1>0, <1>4, FetcherAssumption DEF Respond, Limit
  <1>5. CASE Follow
    <2>1. web[at].to \in Targets
      BY <1>5, Redirects DEF Follow
    <2> QED
      BY <1>0, <1>5, <2>1 DEF Follow, Limit
  <1>6. CASE ReadBody
    <2>1. ResultOf(web[at]) \in Result
      BY <1>6, Results DEF ReadBody
    <2> QED
      BY <1>0, <1>6, <2>1 DEF ReadBody, Limit
  <1>7. CASE UNCHANGED vars
    BY <1>7 DEF vars, Limit
  <1> QED
    BY <1>2, <1>3, <1>4, <1>5, <1>6, <1>7 DEF Next, Fetch

(* A fetch keeps its types and counts its requests within the limit.         *)
THEOREM FetcherInvariance == Spec => [](TypeOK /\ RequestsInv)
  <1>1. Init => TypeOK /\ RequestsInv
    <2> SUFFICES ASSUME Init PROVE TypeOK /\ RequestsInv
      OBVIOUS
    <2>1. Limit \in 1..HardMaxRedirects
      BY LimitType DEF Init
    <2>2. Failure \in Result
      BY DEF Failure, Result
    <2>3. TypeOK
      <3>1. requests \in 0..HardMaxRedirects
        BY FetcherAssumption DEF Init
      <3>2. timedOut \in BOOLEAN /\ at \in Targets
        BY DEF Init
      <3> QED
        BY <2>2, <3>1, <3>2 DEF Init, TypeOK
    <2>4. RequestsInv
      BY <2>1 DEF Init, RequestsInv
    <2> QED
      BY <2>3, <2>4
  <1>2. TypeOK /\ RequestsInv /\ [Next]_vars => TypeOK' /\ RequestsInv'
    BY NextFetcher
  <1> QED
    BY <1>1, <1>2, PTL DEF Spec

-----------------------------------------------------------------------------

\* The variables of a fetch keep their types.
THEOREM FetcherTypeCorrect == Spec => []TypeOK
  BY FetcherInvariance, PTL

\* Whatever max_redirects is set to, be it zero, negative or too large, and
\* however the redirects lead, a page costs at most Limit requests.
THEOREM RequestsWithinLimit == Spec => [](requests <= Limit)
  BY FetcherInvariance, PTL DEF RequestsInv

-----------------------------------------------------------------------------
(* Where redirects lead: what the recursion of After computes.               *)

Hop(t) == IF web[t].type = "redirect" THEN web[t].to ELSE t

IsChain(g, n) == g = [k \in 0..n |-> IF k = 0 THEN target ELSE Hop(g[k - 1])]

\* Two chains agree as far as both go.
LEMMA ChainsAgree ==
    ASSUME NEW n \in Nat, NEW m \in Nat, NEW g, NEW h, IsChain(g, n), IsChain(h, m)
    PROVE  \A k \in Nat : k <= n /\ k <= m => g[k] = h[k]
  <1> DEFINE T == {k \in Nat : k <= n /\ k <= m => g[k] = h[k]}
  <1>1. /\ \A k \in 0..n : g[k] = IF k = 0 THEN target ELSE Hop(g[k - 1])
        /\ \A k \in 0..m : h[k] = IF k = 0 THEN target ELSE Hop(h[k - 1])
    BY DEF IsChain
  <1>2. 0 \in T
    BY <1>1
  <1>3. ASSUME NEW k \in T PROVE k + 1 \in T
    <2> SUFFICES ASSUME k + 1 <= n, k + 1 <= m PROVE g[k + 1] = h[k + 1]
      OBVIOUS
    <2>1. g[k] = h[k]
      OBVIOUS
    <2>2. /\ g[k + 1] = Hop(g[(k + 1) - 1])
          /\ h[k + 1] = Hop(h[(k + 1) - 1])
      BY <1>1
    <2>3. (k + 1) - 1 = k
      OBVIOUS
    <2> QED
      BY <2>1, <2>2, <2>3
  <1>4. T \in SUBSET Nat
    OBVIOUS
  <1> HIDE DEF T
  <1>5. T = Nat
    BY <1>2, <1>3, <1>4, Induct
  <1> QED
    BY <1>5 DEF T

\* There is a chain of every length.
LEMMA ChainExists ==
    ASSUME NEW n \in Nat
    PROVE  \E g : IsChain(g, n)
  <1> DEFINE T == {k \in Nat : \E g : IsChain(g, k)}
  <1>1. 0 \in T
    <2>1. IsChain([k \in 0..0 |-> target], 0)
      BY DEF IsChain
    <2> QED
      BY <2>1
  <1>2. ASSUME NEW m \in T PROVE m + 1 \in T
    <2>1. PICK g : IsChain(g, m)
      OBVIOUS
    <2> DEFINE h == [k \in 0..m + 1 |-> IF k = m + 1 THEN Hop(g[m]) ELSE g[k]]
    <2>2. \A k \in 0..m : g[k] = IF k = 0 THEN target ELSE Hop(g[k - 1])
      BY <2>1 DEF IsChain
    <2>3. h = [k \in 0..m + 1 |-> IF k = 0 THEN target ELSE Hop(h[k - 1])]
      BY <2>2
    <2>4. IsChain(h, m + 1)
      BY <2>3 DEF IsChain
    <2> HIDE DEF h
    <2> QED
      BY <2>4
  <1>3. T \in SUBSET Nat
    OBVIOUS
  <1> HIDE DEF T
  <1>4. T = Nat
    BY <1>1, <1>2, <1>3, Induct
  <1> QED
    BY <1>4 DEF T

\* After(n) is the end of the chain of length n.
LEMMA AfterChain ==
    ASSUME NEW n \in Nat
    PROVE  \E g : IsChain(g, n) /\ After(n) = g[n]
  <1>1. IsChain(CHOOSE g : IsChain(g, n), n)
    BY ChainExists, Zenon
  <1>2. After(n) = (CHOOSE g : IsChain(g, n))[n]
    BY DEF After, IsChain, Hop
  <1> QED
    BY <1>1, <1>2

\* The chain begins at the page's URL, and each link is one redirect further.
LEMMA AfterSteps ==
    /\ After(0) = target
    /\ \A n \in Nat : After(n + 1) = Hop(After(n))
  <1>1. After(0) = target
    <2>1. PICK g : IsChain(g, 0) /\ After(0) = g[0]
      BY AfterChain
    <2> QED
      BY <2>1 DEF IsChain
  <1>2. ASSUME NEW n \in Nat PROVE After(n + 1) = Hop(After(n))
    <2>1. PICK g : IsChain(g, n) /\ After(n) = g[n]
      BY AfterChain
    <2>2. PICK h : IsChain(h, n + 1) /\ After(n + 1) = h[n + 1]
      BY AfterChain
    <2>3. h[n] = g[n]
      BY <2>1, <2>2, ChainsAgree
    <2>4. h[n + 1] = Hop(h[(n + 1) - 1])
      BY <2>2 DEF IsChain
    <2> QED
      BY <2>1, <2>2, <2>3, <2>4
  <1> QED
    BY <1>1, <1>2

\* What does not redirect is the end of the chain, however far one looks.
LEMMA AfterTheEnd ==
    ASSUME NEW k \in Nat, web[After(k)].type # "redirect"
    PROVE  \A n \in Nat : n >= k => After(n) = After(k)
  <1> DEFINE T == {n \in Nat : After(k + n) = After(k)}
  <1>1. 0 \in T
    OBVIOUS
  <1>2. ASSUME NEW n \in T PROVE n + 1 \in T
    <2>1. After(k + n) = After(k) /\ k + n \in Nat
      OBVIOUS
    <2>2. After((k + n) + 1) = Hop(After(k + n))
      BY <2>1, AfterSteps
    <2>3. k + (n + 1) = (k + n) + 1
      OBVIOUS
    <2> QED
      BY <2>1, <2>2, <2>3 DEF Hop
  <1>3. T \in SUBSET Nat
    OBVIOUS
  <1> HIDE DEF T
  <1>4. T = Nat
    BY <1>1, <1>2, <1>3, Induct
  <1> SUFFICES ASSUME NEW n \in Nat, n >= k PROVE After(n) = After(k)
    OBVIOUS
  <1>5. n - k \in Nat /\ k + (n - k) = n
    OBVIOUS
  <1>6. After(k + (n - k)) = After(k)
    BY <1>4, <1>5 DEF T
  <1> QED
    BY <1>5, <1>6

(* A fetch is as far along the chain as it has sent requests.                *)
ChainInv ==
    /\ phase \in {"build", "send"} => at = After(requests)
    /\ phase \in {"redirect", "body"} => requests >= 1 /\ at = After(requests - 1)
    /\ phase = "body" => web[at].type \in Documents \cup {"cut"}
    /\ phase # "done" => ~timedOut
    /\ ReportsTheEndOfTheChain

\* The web and the page stay, so what a step relates to the chain is the same
\* before and after it.
LEMMA SameChain ==
    ASSUME [Next]_vars
    PROVE  /\ UNCHANGED <<web, target, maxRedirects>>
           /\ Limit' = Limit
           /\ \A n : After(n)' = After(n)
  <1>1. UNCHANGED <<web, target, maxRedirects>>
    BY DEF Next, Fetch, BuildRequest, BuildFails, Respond, SendFails, Follow,
           RefuseRedirect, ReadBody, ReadFails, Timeout, Fail, vars
  <1> QED
    BY <1>1 DEF Limit, After

\* An answer other than a redirect, found within Limit requests, is the one that
\* is reported.
LEMMA EndWithinLimit ==
    ASSUME TypeOK, NEW k \in Nat, k < Limit, web[After(k)].type # "redirect"
    PROVE  After(Limit - 1) = After(k)
  <1>1. Limit \in Nat /\ Limit - 1 \in Nat /\ Limit - 1 >= k
    BY LimitType, FetcherAssumption DEF TypeOK
  <1> QED
    BY <1>1, AfterTheEnd

\* Every step goes along the chain, and a last one reports its end.
LEMMA NextChainInv ==
    ASSUME TypeOK, RequestsInv, ChainInv, [Next]_vars
    PROVE  ChainInv'
  <1> USE DEF ChainInv
  <1>0. /\ requests \in Nat /\ requests <= Limit
        /\ Limit \in Nat /\ Limit >= 1
    BY LimitType, FetcherAssumption DEF TypeOK, RequestsInv
  <1> DEFINE last == web[After(Limit - 1)]
  <1>1. ASSUME phase' = "done", result' = Failure,
               timedOut' \/ last.type \notin Documents
        PROVE  ChainInv'
    BY <1>1, SameChain DEF ReportsTheEndOfTheChain
  <1>2. ASSUME NEW k \in Nat, k < Limit, at = After(k),
               web[at].type \notin Documents \cup {"redirect"}
        PROVE  last.type \notin Documents
    BY <1>2, EndWithinLimit
  <1>3. CASE BuildRequest
    BY <1>3, SameChain DEF BuildRequest, ReportsTheEndOfTheChain
  <1>4. CASE BuildFails \/ SendFails
    <2>1. /\ phase' = "done" /\ result' = Failure
          /\ at = After(requests) /\ requests < Limit
          /\ web[at].type \notin Documents \cup {"redirect"}
      BY <1>0, <1>4 DEF BuildFails, SendFails, Fail, RequestsInv, Documents
    <2> QED
      BY <1>0, <1>1, <1>2, <2>1
  <1>5. CASE Respond
    <2>1. /\ phase' \in {"redirect", "body"} /\ UNCHANGED <<at, timedOut>>
          /\ requests' = requests + 1
          /\ phase = "send"
          /\ phase' = "body" => web[at].type \in Documents \cup {"cut"}
      BY <1>5 DEF Respond
    <2>2. requests' >= 1 /\ requests' - 1 = requests
      BY <1>0, <2>1
    <2> QED
      BY <2>1, <2>2, SameChain DEF ReportsTheEndOfTheChain
  <1>6. CASE Follow
    <2>1. /\ phase = "redirect" /\ phase' = "send" /\ UNCHANGED <<requests, timedOut>>
          /\ at' = web[at].to
      BY <1>6 DEF Follow
    <2>2. requests - 1 \in Nat /\ (requests - 1) + 1 = requests
      BY <1>0, <2>1
    <2>3. After(requests) = web[at].to
      BY <2>1, <2>2, AfterSteps DEF Hop, RequestsInv
    <2> QED
      BY <2>1, <2>3, SameChain DEF ReportsTheEndOfTheChain
  <1>7. CASE RefuseRedirect
    <2>1. /\ phase = "redirect" /\ phase' = "done" /\ result' = Failure
          /\ requests >= Limit \/ web[web[at].to].type = "malformed"
      BY <1>7 DEF RefuseRedirect, Fail
    <2>2. /\ requests - 1 \in Nat /\ (requests - 1) + 1 = requests
          /\ at = After(requests - 1) /\ web[at].type = "redirect"
      BY <1>0, <2>1 DEF RequestsInv
    <2>3. CASE requests >= Limit
      <3>1. requests = Limit
        BY <1>0, <2>3
      <3> QED
        BY <1>1, <2>1, <2>2, <3>1 DEF Documents
    <2>4. CASE requests < Limit
      <3>1. After(requests) = web[at].to
        BY <2>2, AfterSteps DEF Hop
      <3>2. web[After(requests)].type = "malformed"
        BY <1>0, <2>1, <2>4, <3>1
      <3>3. After(Limit - 1) = After(requests)
        BY <1>0, <2>4, <3>2, EndWithinLimit
      <3> QED
        BY <1>1, <2>1, <3>2, <3>3 DEF Documents
    <2> QED
      BY <1>0, <2>3, <2>4
  <1>8. CASE ReadBody \/ ReadFails
    <2>1. /\ phase = "body" /\ phase' = "done" /\ UNCHANGED <<at, timedOut>>
          /\ ~timedOut
      BY <1>8 DEF ReadBody, ReadFails, Fail
    <2>2. /\ requests - 1 \in Nat /\ requests - 1 < Limit
          /\ at = After(requests - 1) /\ web[at].type \in Documents \cup {"cut"}
      BY <1>0, <2>1
    <2>3. After(Limit - 1) = at
      BY <2>2, EndWithinLimit DEF Documents
    <2>4. CASE ReadBody
      <3>1. result' = ResultOf(web[at]) /\ web[at].type \in Documents
        BY <2>4 DEF ReadBody
      <3>2. ResultOf(web[at])' = ResultOf(web[at])
        BY <2>1, SameChain DEF ResultOf
      <3> QED
        BY <2>1, <2>3, <3>1, <3>2, SameChain DEF ReportsTheEndOfTheChain, ResultOf
    <2>5. CASE ReadFails
      BY <1>1, <2>1, <2>3, <2>5 DEF ReadFails, Fail, Documents
    <2> QED
      BY <1>8, <2>4, <2>5
  <1>9. CASE Timeout
    BY <1>1, <1>9 DEF Timeout, Fail
  <1>10. CASE UNCHANGED vars
    BY <1>10, SameChain DEF vars, ReportsTheEndOfTheChain, ResultOf
  <1> QED
    BY <1>3, <1>4, <1>5, <1>6, <1>7, <1>8, <1>9, <1>10 DEF Next, Fetch

-----------------------------------------------------------------------------

\* What is reported of a page is the complete response at the end of its
\* redirects, if that is at most Limit - 1 of them away, and otherwise an error
\* with nothing of a response: on any web, with chains and circles of any length.
THEOREM ReportsAreRight == Spec => []ReportsTheEndOfTheChain
  <1>1. Init => ChainInv
    BY AfterSteps DEF Init, ChainInv, ReportsTheEndOfTheChain
  <1>2. TypeOK /\ RequestsInv /\ ChainInv /\ [Next]_vars => ChainInv'
    BY NextChainInv
  <1>3. ChainInv => ReportsTheEndOfTheChain
    BY DEF ChainInv
  <1> QED
    BY <1>1, <1>2, <1>3, FetcherInvariance, PTL DEF Spec
=============================================================================
