--------------------------- MODULE SitemapProofs ---------------------------
(***************************************************************************)
(* Sitemap for any web, any robots.txt and any depth limit: its variables  *)
(* keep their types, no page is found twice, none within the depth bound   *)
(* is left out, and only a robots.txt that cannot be fetched costs pages   *)
(* without an error.                                                       *)
(***************************************************************************)
EXTENDS Sitemap, DataLemmas, FiniteSetTheorems, SequenceTheorems, TLAPS

(* seen is the set of the pages found, and each of them is found once.       *)
SeenInv ==
    /\ Range(found) = seen
    /\ IsFiniteSet(seen)
    /\ Cardinality(seen) = Len(found)

(* A document's entries are pages or sitemaps, as its type says.             *)
LEMMA Entries ==
    ASSUME TypeOK, NEW m \in Maps
    PROVE  /\ docs[m].type = "urlset" => Locs(m) \in Seq(URLs)
           /\ docs[m].type = "index" => Locs(m) \in Seq(Maps)
  <1>1. docs[m] \in [type : {"urlset"}, locs : Seq(URLs)]
                    \cup [type : {"index"}, locs : Seq(Maps)]
                    \cup [type : {"none", "malformed"}, locs : {<<>>}]
    BY SitemapAssumption DEF TypeOK
  <1> QED
    BY <1>1 DEF Locs

(* The calls for a list of sitemaps.                                         *)
LEMMA CallsType ==
    ASSUME NEW maps \in Seq(Maps), NEW d \in 0..MaxDepth + 1
    PROVE  Calls(maps, d) \in Seq(Call)
  <1>1. DOMAIN maps = 1..Len(maps) /\ Len(maps) \in Nat
    BY LenProperties
  <1>2. \A k \in DOMAIN maps : maps[k] \in Maps
    BY <1>1, ElementOfSeq
  <1>3. Calls(maps, d) \in [1..Len(maps) -> Call]
    BY <1>1, <1>2 DEF Calls, Call
  <1> QED
    BY <1>1, <1>3, SeqDef

(* The call being resolved.                                                  *)
LEMMA CurrentCall ==
    ASSUME TypeOK, Resolving
    PROVE  /\ map \in Maps /\ depth \in 0..MaxDepth + 1
           /\ Tail(todo) \in Seq(Call)
  <1>1. Head(todo) \in Call /\ Tail(todo) \in Seq(Call)
    BY HeadTailProperties DEF TypeOK, Resolving
  <1> QED
    BY <1>1 DEF map, depth, Call

\* Every step keeps the types.
LEMMA NextTypeOK ==
    ASSUME TypeOK, [Next]_vars
    PROVE  TypeOK'
  <1> USE DEF TypeOK, web
  <1>1. ASSUME NEW maps \in Seq(Maps), Begin(maps) PROVE TypeOK'
    <2>1. Calls(maps, 0) \in Seq(Call)
      BY CallsType, SitemapAssumption
    <2> QED
      BY <1>1, <2>1 DEF Begin
  <1>2. ASSUME ReadRobots \/ GuessCommonPaths
        PROVE  \E maps \in Seq(Maps) : Begin(maps)
    BY <1>2, SitemapAssumption DEF ReadRobots, GuessCommonPaths
  <1>3. CASE TooDeep \/ FetchFails \/ ParseFails
    <2>1. Resolving /\ GiveUp
      BY <1>3 DEF TooDeep, FetchFails, ParseFails
    <2> QED
      BY <2>1, CurrentCall DEF GiveUp
  <1>4. CASE ReadURLSet
    <2>1. Resolving /\ Reads(map, "urlset")
      BY <1>4 DEF ReadURLSet
    <2>2. Locs(map) \in Seq(URLs)
      BY <2>1, CurrentCall, Entries DEF Reads
    <2> QED
      BY <1>4, <2>1, <2>2, CurrentCall DEF ReadURLSet
  <1>5. CASE TakeLoc
    <2>1. Head(reading) \in URLs /\ Tail(reading) \in Seq(URLs)
      BY <1>5, HeadTailProperties DEF TakeLoc
    <2>2. Append(found, Head(reading)) \in Seq(URLs)
      BY <2>1, AppendProperties
    <2> QED
      BY <1>5, <2>1, <2>2 DEF TakeLoc
  <1>6. CASE ReadIndex
    <2>1. Resolving /\ Reads(map, "index") /\ depth <= MaxDepth
      BY <1>6 DEF ReadIndex, Fits
    <2>2. Locs(map) \in Seq(Maps)
      BY <2>1, CurrentCall, Entries DEF Reads
    <2>3. depth + 1 \in 0..MaxDepth + 1
      BY <2>1, CurrentCall, SitemapAssumption
    <2>4. Calls(Locs(map), depth + 1) \in Seq(Call)
      BY <2>2, <2>3, CallsType
    <2>5. todo' \in Seq(Call)
      BY <1>6, <2>1, <2>4, CurrentCall, ConcatProperties DEF ReadIndex
    <2> QED
      BY <1>6, <2>5 DEF ReadIndex
  <1>7. CASE Finish \/ Expire
    BY <1>7 DEF Finish, Expire
  <1>8. CASE UNCHANGED vars
    BY <1>8 DEF vars
  <1> QED
    BY <1>1, <1>2, <1>3, <1>4, <1>5, <1>6, <1>7, <1>8 DEF Next, Discover

\* Every step keeps seen equal to what was found, each page once.
LEMMA NextSeenInv ==
    ASSUME TypeOK, SeenInv, [Next]_vars
    PROVE  SeenInv'
  <1> USE DEF SeenInv
  <1>1. ASSUME TakeLoc, Head(reading) \notin seen PROVE SeenInv'
    <2> DEFINE u == Head(reading)
    <2>1. u \in URLs
      BY <1>1, HeadTailProperties DEF TakeLoc, TypeOK
    <2> HIDE DEF u
    <2>2. seen' = seen \cup {u} /\ found' = Append(found, u)
      BY <1>1 DEF TakeLoc, u
    <2>3. found \in Seq(URLs) /\ Len(found') = Len(found) + 1
      BY <2>1, <2>2, AppendProperties DEF TypeOK
    <2>4. Range(found') = seen'
      BY <2>1, <2>2, <2>3, RangeOfAppend
    <2>5. IsFiniteSet(seen') /\ Cardinality(seen') = Cardinality(seen) + 1
      BY <1>1, <2>2, FS_AddElement DEF u
    <2> QED
      BY <2>3, <2>4, <2>5
  <1>2. CASE UNCHANGED <<seen, found>>
    BY <1>2
  <1>3. TakeLoc /\ Head(reading) \in seen => UNCHANGED <<seen, found>>
    BY DEF TakeLoc
  <1>4. UNCHANGED vars => UNCHANGED <<seen, found>>
    BY DEF vars
  <1>5. Next /\ ~TakeLoc => UNCHANGED <<seen, found>>
    BY DEF Next, Discover, ReadRobots, GuessCommonPaths, Begin, TooDeep, FetchFails,
           ParseFails, GiveUp, ReadURLSet, ReadIndex, Finish, Expire
  <1> QED
    BY <1>1, <1>2, <1>3, <1>4, <1>5

(* A discovery keeps its types and remembers each page it has found.         *)
THEOREM SitemapInvariance == Spec => [](TypeOK /\ SeenInv)
  <1>1. Init => TypeOK /\ SeenInv
    <2> SUFFICES ASSUME Init PROVE TypeOK /\ SeenInv
      OBVIOUS
    <2>1. TypeOK
      BY EmptySeq DEF Init, TypeOK
    <2>2. Range(found) = {} /\ Len(found) = 0
      BY EmptySeq DEF Init, Range
    <2>3. SeenInv
      BY <2>2, FS_EmptySet DEF Init, SeenInv
    <2> QED
      BY <2>1, <2>3
  <1>2. TypeOK /\ SeenInv /\ [Next]_vars => TypeOK' /\ SeenInv'
    BY NextTypeOK, NextSeenInv
  <1> QED
    BY <1>1, <1>2, PTL DEF Spec

-----------------------------------------------------------------------------

\* The variables of a discovery keep their types: no call goes deeper than one
\* beyond the limit, where it is refused, whatever the web looks like.
THEOREM SitemapTypeCorrect == Spec => []TypeOK
  BY SitemapInvariance, PTL

\* No page is found twice, on any web and up to any depth: the COPY of a crawl
\* never meets its own unique constraint because of discovery.
THEOREM FindsEachPageOnce == Spec => []NoDuplicateURLs
  <1>1. SeenInv => NoDuplicateURLs
    BY DEF SeenInv, NoDuplicateURLs
  <1> QED
    BY <1>1, SitemapInvariance, PTL

-----------------------------------------------------------------------------
(* Levels of sitemaps: what the recursion of Reach computes.                 *)

IsLevels(g, maps, n) ==
    g = [k \in 0..n |-> IF k = 0 THEN maps ELSE Below(g[k - 1])]

\* Levels from the same sitemaps agree as far as both go.
LEMMA LevelsAgree ==
    ASSUME NEW maps, NEW n \in Nat, NEW m \in Nat, NEW g, NEW h,
           IsLevels(g, maps, n), IsLevels(h, maps, m)
    PROVE  \A k \in Nat : k <= n /\ k <= m => g[k] = h[k]
  <1> DEFINE T == {k \in Nat : k <= n /\ k <= m => g[k] = h[k]}
  <1>1. /\ \A k \in 0..n : g[k] = IF k = 0 THEN maps ELSE Below(g[k - 1])
        /\ \A k \in 0..m : h[k] = IF k = 0 THEN maps ELSE Below(h[k - 1])
    BY DEF IsLevels
  <1>2. 0 \in T
    BY <1>1
  <1>3. ASSUME NEW k \in T PROVE k + 1 \in T
    <2> SUFFICES ASSUME k + 1 <= n, k + 1 <= m PROVE g[k + 1] = h[k + 1]
      OBVIOUS
    <2>1. g[k + 1] = Below(g[(k + 1) - 1]) /\ h[k + 1] = Below(h[(k + 1) - 1])
      BY <1>1
    <2>2. (k + 1) - 1 = k /\ g[k] = h[k]
      OBVIOUS
    <2> QED
      BY <2>1, <2>2
  <1>4. T \in SUBSET Nat
    OBVIOUS
  <1> HIDE DEF T
  <1>5. T = Nat
    BY <1>2, <1>3, <1>4, Induct
  <1> QED
    BY <1>5 DEF T

\* There are levels of every depth.
LEMMA LevelsExist ==
    ASSUME NEW maps, NEW n \in Nat
    PROVE  \E g : IsLevels(g, maps, n)
  <1> DEFINE T == {k \in Nat : \E g : IsLevels(g, maps, k)}
  <1>1. 0 \in T
    <2>1. IsLevels([k \in 0..0 |-> maps], maps, 0)
      BY DEF IsLevels
    <2> QED
      BY <2>1
  <1>2. ASSUME NEW m \in T PROVE m + 1 \in T
    <2>1. PICK g : IsLevels(g, maps, m)
      OBVIOUS
    <2> DEFINE h == [k \in 0..m + 1 |-> IF k = m + 1 THEN Below(g[m]) ELSE g[k]]
    <2>2. \A k \in 0..m : g[k] = IF k = 0 THEN maps ELSE Below(g[k - 1])
      BY <2>1 DEF IsLevels
    <2>3. h = [k \in 0..m + 1 |-> IF k = 0 THEN maps ELSE Below(h[k - 1])]
      BY <2>2
    <2>4. IsLevels(h, maps, m + 1)
      BY <2>3 DEF IsLevels
    <2> HIDE DEF h
    <2> QED
      BY <2>4
  <1>3. T \in SUBSET Nat
    OBVIOUS
  <1> HIDE DEF T
  <1>4. T = Nat
    BY <1>1, <1>2, <1>3, Induct
  <1> QED
    BY <1>4 DEF T

\* Reach(maps, n) is the last of the levels.
LEMMA ReachLevels ==
    ASSUME NEW maps, NEW n \in Nat
    PROVE  \E g : IsLevels(g, maps, n) /\ Reach(maps, n) = g[n]
  <1>1. IsLevels(CHOOSE g : IsLevels(g, maps, n), maps, n)
    BY LevelsExist, Zenon
  <1>2. Reach(maps, n) = (CHOOSE g : IsLevels(g, maps, n))[n]
    BY DEF Reach, IsLevels
  <1> QED
    BY <1>1, <1>2

\* Each level adds what the indexes of the one before list.
LEMMA ReachSteps ==
    ASSUME NEW maps
    PROVE  /\ Reach(maps, 0) = maps
           /\ \A n \in Nat : Reach(maps, n + 1) = Below(Reach(maps, n))
  <1>1. Reach(maps, 0) = maps
    <2>1. PICK g : IsLevels(g, maps, 0) /\ Reach(maps, 0) = g[0]
      BY ReachLevels
    <2> QED
      BY <2>1 DEF IsLevels
  <1>2. ASSUME NEW n \in Nat PROVE Reach(maps, n + 1) = Below(Reach(maps, n))
    <2>1. PICK g : IsLevels(g, maps, n) /\ Reach(maps, n) = g[n]
      BY ReachLevels
    <2>2. PICK h : IsLevels(h, maps, n + 1) /\ Reach(maps, n + 1) = h[n + 1]
      BY ReachLevels
    <2>3. h[n] = g[n]
      BY <2>1, <2>2, LevelsAgree
    <2>4. h[n + 1] = Below(h[(n + 1) - 1])
      BY <2>2 DEF IsLevels
    <2> QED
      BY <2>1, <2>2, <2>3, <2>4
  <1> QED
    BY <1>1, <1>2

\* What is at most one level below some sitemaps.
LEMMA InBelow ==
    ASSUME NEW maps, NEW x
    PROVE  x \in Below(maps) <=> x \in maps \/ \E m \in maps : x \in Children(m)
  BY DEF Below

\* What some sitemaps reach is what each of them reaches.
LEMMA ReachOfEach ==
    ASSUME NEW maps, NEW n \in Nat
    PROVE  \A x : x \in Reach(maps, n) <=> \E m \in maps : x \in Reach({m}, n)
  <1> DEFINE P(k) == \A x : x \in Reach(maps, k) <=> \E m \in maps : x \in Reach({m}, k)
             T == {k \in Nat : P(k)}
  <1>1. P(0)
    <2>1. Reach(maps, 0) = maps /\ \A m : Reach({m}, 0) = {m}
      BY ReachSteps
    <2> QED
      BY <2>1
  <1>2. ASSUME NEW k \in Nat, P(k) PROVE P(k + 1)
    <2>1. Reach(maps, k + 1) = Below(Reach(maps, k))
      BY ReachSteps
    <2>2. \A m : Reach({m}, k + 1) = Below(Reach({m}, k))
      BY ReachSteps
    <2>3. ASSUME NEW x
          PROVE  x \in Below(Reach(maps, k)) <=> \E m \in maps : x \in Below(Reach({m}, k))
      BY <1>2, InBelow
    <2> QED
      BY <2>1, <2>2, <2>3
  <1> HIDE DEF P
  <1>3. T \in SUBSET Nat /\ 0 \in T /\ \A k \in T : k + 1 \in T
    BY <1>1, <1>2
  <1> HIDE DEF T
  <1>4. T = Nat
    BY <1>3, Induct
  <1>5. P(n)
    BY <1>4 DEF T
  <1> QED
    BY <1>5 DEF P

\* Deeper levels only add.
LEMMA ReachGrows ==
    ASSUME NEW maps, NEW n \in Nat
    PROVE  /\ maps \subseteq Reach(maps, n)
           /\ \A k \in Nat : k <= n => Reach(maps, k) \subseteq Reach(maps, n)
  <1>0. \A S : S \subseteq Below(S)
    BY DEF Below
  <1> DEFINE P(j) == \A k \in Nat : k <= j => Reach(maps, k) \subseteq Reach(maps, j)
             T == {j \in Nat : P(j)}
  <1>1. P(0)
    OBVIOUS
  <1>2. ASSUME NEW j \in Nat, P(j) PROVE P(j + 1)
    <2>1. Reach(maps, j) \subseteq Reach(maps, j + 1)
      BY <1>0, ReachSteps
    <2> SUFFICES ASSUME NEW k \in Nat, k <= j + 1
                 PROVE  Reach(maps, k) \subseteq Reach(maps, j + 1)
      OBVIOUS
    <2>2. CASE k = j + 1
      BY <2>2
    <2>3. CASE k <= j
      BY <1>2, <2>1, <2>3
    <2> QED
      BY <2>2, <2>3
  <1> HIDE DEF P
  <1>3. T \in SUBSET Nat /\ 0 \in T /\ \A k \in T : k + 1 \in T
    BY <1>1, <1>2
  <1> HIDE DEF T
  <1>4. T = Nat
    BY <1>3, Induct
  <1>5. P(n)
    BY <1>4 DEF T
  <1>6. Reach(maps, 0) = maps
    BY ReachSteps
  <1> QED
    BY <1>5, <1>6 DEF P

\* One level more is a sitemap itself and what its entries reach.
LEMMA ReachThroughChildren ==
    ASSUME NEW m, NEW n \in Nat
    PROVE  \A x : x \in Reach({m}, n + 1) <=>
                    x = m \/ \E c \in Children(m) : x \in Reach({c}, n)
  <1> DEFINE C == Children(m)
             P(k) == \A x : x \in Reach({m}, k + 1) <=> x = m \/ x \in Reach(C, k)
             T == {k \in Nat : P(k)}
  <1>1. P(0)
    <2>1. Reach({m}, 0 + 1) = Below({m}) /\ Reach(C, 0) = C
      <3>1. Reach({m}, 0 + 1) = Below(Reach({m}, 0))
        BY ReachSteps
      <3> QED
        BY <3>1, ReachSteps
    <2> QED
      BY <2>1, InBelow
  <1>2. ASSUME NEW k \in Nat, P(k) PROVE P(k + 1)
    <2>0. k + 1 \in Nat
      OBVIOUS
    <2>1. Reach({m}, (k + 1) + 1) = Below(Reach({m}, k + 1))
      BY <2>0, ReachSteps
    <2>2. Reach(C, k + 1) = Below(Reach(C, k))
      BY ReachSteps
    <2>3. C \subseteq Reach(C, k + 1)
      BY <2>0, ReachGrows
    <2>4. ASSUME NEW x
          PROVE  x \in Below(Reach({m}, k + 1)) <=> x = m \/ x \in C \/ x \in Below(Reach(C, k))
      BY <1>2, InBelow
    <2> HIDE DEF C
    <2> QED
      BY <2>1, <2>2, <2>3, <2>4
  <1> HIDE DEF P
  <1>3. T \in SUBSET Nat /\ 0 \in T /\ \A k \in T : k + 1 \in T
    BY <1>1, <1>2
  <1> HIDE DEF T
  <1>4. T = Nat
    BY <1>3, Induct
  <1>5. P(n)
    BY <1>4 DEF T
  <1> QED
    BY <1>5, ReachOfEach DEF P

\* All that sitemaps reach are sitemaps.
LEMMA ReachInMaps ==
    ASSUME TypeOK, NEW maps \in SUBSET Maps, NEW n \in Nat
    PROVE  Reach(maps, n) \in SUBSET Maps
  <1>1. ASSUME NEW m \in Maps PROVE Children(m) \subseteq Maps
    BY Entries, RangeOfSeq DEF Children, Locs
  <1> DEFINE P(k) == Reach(maps, k) \subseteq Maps
             T == {k \in Nat : P(k)}
  <1>2. P(0)
    BY ReachSteps
  <1>3. ASSUME NEW k \in Nat, P(k) PROVE P(k + 1)
    BY <1>1, <1>3, ReachSteps DEF Below
  <1> HIDE DEF P
  <1>4. T \in SUBSET Nat /\ 0 \in T /\ \A k \in T : k + 1 \in T
    BY <1>2, <1>3
  <1> HIDE DEF T
  <1>5. T = Nat
    BY <1>4, Induct
  <1>6. P(n)
    BY <1>5 DEF T
  <1> QED
    BY <1>6 DEF P

\* A level that adds nothing is the last that could, and each one before it adds
\* a sitemap: after as many levels as there are sitemaps, all are reached.
LEMMA ReachStops ==
    ASSUME TypeOK, NEW maps \in SUBSET Maps
    PROVE  \A n \in Nat : Reach(maps, n) \subseteq Reach(maps, Cardinality(Maps))
  <1> DEFINE N == Cardinality(Maps)
             R(k) == Reach(maps, k)
             P(k) == R(k + 1) = R(k) \/ Cardinality(R(k)) >= k
             S == {k \in Nat : P(k)}
             Q(k) == R(N + k) = R(N)
             T == {k \in Nat : Q(k)}
  <1>0. IsFiniteSet(Maps) /\ N \in Nat
    BY SitemapAssumption, FS_CardinalityType
  <1>1. ASSUME NEW k \in Nat
        PROVE  /\ R(k + 1) = Below(R(k)) /\ R(k) \subseteq R(k + 1)
               /\ IsFiniteSet(R(k)) /\ Cardinality(R(k)) \in Nat
               /\ Cardinality(R(k)) <= N
               /\ Cardinality(R(k)) = N => R(k) = Maps
               /\ R(k) \subseteq Maps
    BY <1>0, ReachSteps, ReachGrows, ReachInMaps, FS_Subset, FS_CardinalityType
  <1> HIDE DEF R, N
  <1>2. P(0)
    BY <1>1
  <1>3. ASSUME NEW k \in Nat, P(k) PROVE P(k + 1)
    <2>1. CASE R(k + 1) = R(k)
      <3>1. R((k + 1) + 1) = R(k + 1)
        BY <1>1, <2>1
      <3> QED
        BY <3>1
    <2>2. CASE R(k + 1) # R(k) /\ Cardinality(R(k)) >= k
      <3>0. k + 1 \in Nat
        OBVIOUS
      <3>1. R(k) \subseteq R(k + 1) /\ IsFiniteSet(R(k + 1))
        BY <1>1, <3>0
      <3>2. /\ Cardinality(R(k)) <= Cardinality(R(k + 1))
            /\ Cardinality(R(k)) # Cardinality(R(k + 1))
        BY <2>2, <3>1, FS_Subset
      <3>3. Cardinality(R(k)) \in Nat /\ Cardinality(R(k + 1)) \in Nat
        BY <1>1, <3>0
      <3>4. Cardinality(R(k + 1)) >= k + 1
        BY <2>2, <3>2, <3>3
      <3> QED
        BY <3>4
    <2> QED
      BY <1>3, <2>1, <2>2
  <1>4. P(N)
    <2> HIDE DEF P
    <2>1. S \in SUBSET Nat /\ 0 \in S /\ \A k \in S : k + 1 \in S
      BY <1>2, <1>3
    <2> HIDE DEF S
    <2>2. S = Nat
      BY <2>1, Induct
    <2> QED
      BY <1>0, <2>2 DEF S
  <1>5. R(N + 1) = R(N)
    <2>1. N + 1 \in Nat
      BY <1>0
    <2>2. /\ R(N) \subseteq R(N + 1) /\ R(N + 1) \subseteq Maps
          /\ Cardinality(R(N)) \in Nat /\ Cardinality(R(N)) <= N
          /\ Cardinality(R(N)) = N => R(N) = Maps
      BY <1>0, <1>1, <2>1
    <2>3. CASE Cardinality(R(N)) >= N
      <3>1. Cardinality(R(N)) = N
        BY <1>0, <2>2, <2>3
      <3> QED
        BY <2>2, <3>1
    <2> QED
      BY <1>4, <2>3
  <1>6. Q(0)
    BY <1>0
  <1>7. ASSUME NEW k \in Nat, Q(k) PROVE Q(k + 1)
    <2>1. /\ N + k \in Nat /\ N + (k + 1) = (N + k) + 1
          /\ N + 0 = N
      BY <1>0
    <2> QED
      BY <1>0, <1>1, <1>5, <1>7, <2>1
  <1> HIDE DEF Q
  <1>8. T \in SUBSET Nat /\ 0 \in T /\ \A k \in T : k + 1 \in T
    BY <1>6, <1>7
  <1> HIDE DEF T
  <1>9. T = Nat
    BY <1>8, Induct
  <1>10. ASSUME NEW n \in Nat PROVE R(n) \subseteq R(N)
    <2>1. N + n \in Nat /\ n <= N + n
      BY <1>0
    <2>2. R(n) \subseteq R(N + n)
      BY <2>1, ReachGrows DEF R
    <2>3. R(N + n) = R(N)
      BY <1>9 DEF T, Q
    <2> QED
      BY <2>2, <2>3
  <1> QED
    BY <1>10 DEF R, N

-----------------------------------------------------------------------------
(* Where each page is on its way into the result, while the walk goes on.    *)

(* The pages a call still to make will find, if nothing fails.               *)
Pending(c) ==
    IF c.depth <= MaxDepth THEN Listed(Reach({c.map}, MaxDepth - c.depth)) ELSE {}

(* The pages found, being looked at and still to come.                       *)
Account == seen \cup Range(reading) \cup UNION {Pending(c) : c \in Range(todo)}

(* Nothing gets into the account on the way; nothing is lost from it either, *)
(* as long as nothing fails.                                                 *)
AccountInv ==
    /\ phase = "robots" => seen = {} /\ reading = <<>> /\ todo = <<>>
    /\ phase = "done" => reading = <<>> /\ todo = <<>>
    /\ phase # "robots" =>
          /\ Account \subseteq Listed(Within(MaxDepth))
          /\ ~expired /\ ~flaky => Listed(Within(MaxDepth)) \subseteq Account

(* A sitemap is done with, or some call still to make reaches it.            *)
Covered(m) ==
    \/ docs[m].type = "index"
    \/ docs[m].type = "urlset" /\ Range(docs[m].locs) \subseteq seen \cup Range(reading)
    \/ \E c \in Range(todo) : m \in Reach({c.map}, Cardinality(Maps))

(* Without an error, no sitemap is left behind, however deep it is.          *)
CoverInv ==
    phase # "robots" /\ errors = 0 => \A m \in Within(Cardinality(Maps)) : Covered(m)

\* The calls for a list of sitemaps are one for each.
LEMMA RangeOfCalls ==
    ASSUME NEW maps, NEW d
    PROVE  Range(Calls(maps, d)) = {[map |-> m, depth |-> d] : m \in Range(maps)}
  BY DEF Calls, Range

\* The pages listed by some sitemaps.
LEMMA InListed ==
    ASSUME NEW maps, NEW u
    PROVE  u \in Listed(maps) <=>
             \E m \in maps : docs[m].type = "urlset" /\ u \in Range(Locs(m))
  BY DEF Listed, Locs

\* What is no index reaches itself only.
LEMMA ReachOfLeaf ==
    ASSUME NEW m, docs[m].type # "index", NEW n \in Nat
    PROVE  Reach({m}, n) = {m}
  <1>1. CASE n = 0
    BY <1>1, ReachSteps
  <1>2. CASE n # 0
    <2>1. n - 1 \in Nat /\ (n - 1) + 1 = n
      BY <1>2
    <2>2. \A x : x \in Reach({m}, (n - 1) + 1) <=> x = m
      BY <2>1, ReachThroughChildren DEF Children
    <2> QED
      BY <2>1, <2>2
  <1> QED
    BY <1>1, <1>2

\* A call for what is no index finds the pages listed there, if any.
LEMMA PendingOfLeaf ==
    ASSUME NEW c, c.depth \in Nat, c.depth <= MaxDepth, docs[c.map].type # "index"
    PROVE  Pending(c) = IF docs[c.map].type = "urlset" THEN Range(Locs(c.map)) ELSE {}
  <1>1. MaxDepth - c.depth \in Nat
    BY SitemapAssumption
  <1>2. Reach({c.map}, MaxDepth - c.depth) = {c.map}
    BY <1>1, ReachOfLeaf
  <1> QED
    BY <1>2, InListed DEF Pending

\* A call for an index finds what the calls for its entries find.
LEMMA PendingOfIndex ==
    ASSUME NEW c, c.depth \in Nat, c.depth <= MaxDepth, docs[c.map].type = "index"
    PROVE  \A u : u \in Pending(c) <=>
                    \E e \in Range(Calls(Locs(c.map), c.depth + 1)) : u \in Pending(e)
  <1> DEFINE m == c.map
             n == MaxDepth - c.depth
  <1>1. n \in Nat
    BY SitemapAssumption
  <1>2. Pending(c) = Listed(Reach({m}, n))
    BY DEF Pending
  <1>3. Children(m) = Range(Locs(m))
    BY DEF Children, Locs
  <1>4. CASE n = 0
    <2>1. Pending(c) = {}
      <3>1. Reach({m}, n) = {m}
        BY <1>4, ReachSteps
      <3> QED
        BY <1>2, <3>1, InListed
    <2>2. ~(c.depth + 1 <= MaxDepth)
      BY <1>4, SitemapAssumption
    <2>3. \A e \in Range(Calls(Locs(m), c.depth + 1)) : Pending(e) = {}
      BY <2>2, RangeOfCalls DEF Pending
    <2> QED
      BY <2>1, <2>3
  <1>5. CASE n # 0
    <2>1. /\ n - 1 \in Nat /\ (n - 1) + 1 = n
          /\ c.depth + 1 <= MaxDepth /\ MaxDepth - (c.depth + 1) = n - 1
      BY <1>1, <1>5, SitemapAssumption
    <2> DEFINE E(x) == [map |-> x, depth |-> c.depth + 1]
    <2>2. \A x : Pending(E(x)) = Listed(Reach({x}, n - 1))
      BY <2>1 DEF Pending
    <2>3. \A x : x \in Reach({m}, n) <=> x = m \/ \E y \in Range(Locs(m)) : x \in Reach({y}, n - 1)
      BY <1>3, <2>1, ReachThroughChildren
    <2> HIDE DEF n
    <2>4. \A u : u \in Listed(Reach({m}, n)) <=>
                   \E y \in Range(Locs(m)) : u \in Listed(Reach({y}, n - 1))
      BY <2>3, InListed
    <2>5. \A e : e \in Range(Calls(Locs(m), c.depth + 1)) <=>
                   \E y \in Range(Locs(m)) : e = E(y)
      BY RangeOfCalls
    <2> HIDE DEF E
    <2>6. ASSUME NEW u
          PROVE  u \in Pending(c) <=> \E y \in Range(Locs(m)) : u \in Pending(E(y))
      BY <1>2, <2>2, <2>4
    <2> QED
      BY <2>5, <2>6
  <1> QED
    BY <1>4, <1>5

\* The web stays, and with it what reaches and lists what.
LEMMA SameWeb ==
    ASSUME [Next]_vars
    PROVE  /\ docs' = docs /\ flaky' = flaky /\ Declared' = Declared
           /\ \A maps, n : Reach(maps, n)' = Reach(maps, n)
           /\ \A maps : Listed(maps)' = Listed(maps)
           /\ \A c : Pending(c)' = Pending(c)
  <1>1. docs' = docs /\ flaky' = flaky /\ robots' = robots
    BY DEF Next, Discover, ReadRobots, GuessCommonPaths, Begin, TooDeep, FetchFails,
           ParseFails, GiveUp, ReadURLSet, TakeLoc, ReadIndex, Finish, Expire, web, vars
  <1>2. \A maps, n : Reach(maps, n)' = Reach(maps, n)
    BY <1>1 DEF Reach, Below, Children
  <1>3. \A maps : Listed(maps)' = Listed(maps)
    BY <1>1 DEF Listed
  <1> QED
    BY <1>1, <1>2, <1>3 DEF Pending, Declared

\* A step of the walk takes nothing into the account, and nothing out of it
\* unless something fails.
LEMMA AccountKept ==
    ASSUME TypeOK, [Next]_vars, ~ReadRobots, ~GuessCommonPaths
    PROVE  /\ Account' \subseteq Account
           /\ ~expired /\ ~flaky => Account \subseteq Account'
  <1> DEFINE In(u, s, r, t) == u \in s \/ u \in r \/ \E c \in t : u \in Pending(c)
  <1>1. /\ \A u : u \in Account <=> In(u, seen, Range(reading), Range(todo))
        /\ \A u : u \in Account' <=> In(u, seen', Range(reading'), Range(todo'))
    BY SameWeb DEF Account
  <1>2. CASE TooDeep \/ FetchFails \/ ParseFails
    <2>1. Resolving /\ GiveUp
      BY <1>2 DEF TooDeep, FetchFails, ParseFails
    <2>2. /\ UNCHANGED <<seen, reading>>
          /\ Range(todo) = {Head(todo)} \cup Range(todo')
      BY <2>1, RangeOfHeadAndTail DEF GiveUp, Resolving, TypeOK
    <2>3. ~expired /\ ~flaky => Pending(Head(todo)) = {}
      <3>1. CASE TooDeep
        BY <3>1 DEF TooDeep, Fits, Pending, depth
      <3>2. CASE ~TooDeep /\ ~expired /\ ~flaky
        <4>1. /\ depth <= MaxDepth /\ depth \in Nat
              /\ docs[map].type \in {"none", "malformed"}
          BY <1>2, <2>1, <3>2, CurrentCall
             DEF TooDeep, FetchFails, ParseFails, Fits, Fails, Reads
        <4> QED
          BY <4>1, PendingOfLeaf DEF map, depth
      <3> QED
        BY <3>1, <3>2
    <2> QED
      BY <1>1, <2>2, <2>3
  <1>3. CASE ReadURLSet
    <2>1. /\ Resolving /\ UNCHANGED seen /\ reading = <<>>
          /\ depth <= MaxDepth /\ docs[map].type = "urlset"
          /\ reading' = Locs(map) /\ todo' = Tail(todo)
      BY <1>3 DEF ReadURLSet, Resolving, Fits, Reads
    <2>2. Range(todo) = {Head(todo)} \cup Range(todo')
      BY <2>1, RangeOfHeadAndTail DEF Resolving, TypeOK
    <2>3. Pending(Head(todo)) = Range(Locs(map))
      BY <2>1, CurrentCall, PendingOfLeaf DEF map, depth
    <2>4. Range(reading) = {}
      BY <2>1, EmptySeq DEF Range
    <2> QED
      BY <1>1, <2>1, <2>2, <2>3, <2>4
  <1>4. CASE TakeLoc
    <2>1. Range(reading) = {Head(reading)} \cup Range(reading')
      BY <1>4, RangeOfHeadAndTail DEF TakeLoc, TypeOK
    <2>2. seen' = seen \cup {Head(reading)} /\ UNCHANGED todo
      BY <1>4 DEF TakeLoc
    <2> QED
      BY <1>1, <2>1, <2>2
  <1>5. CASE ReadIndex
    <2>1. /\ Resolving /\ UNCHANGED <<seen, reading>>
          /\ depth <= MaxDepth /\ docs[map].type = "index"
          /\ todo' = Calls(Locs(map), depth + 1) \o Tail(todo)
      BY <1>5 DEF ReadIndex, Fits, Reads
    <2>2. Range(todo) = {Head(todo)} \cup Range(Tail(todo))
      BY <2>1, RangeOfHeadAndTail DEF Resolving, TypeOK
    <2>3. Range(todo') = Range(Calls(Locs(map), depth + 1)) \cup Range(Tail(todo))
      <3>1. Locs(map) \in Seq(Maps) /\ depth + 1 \in 0..MaxDepth + 1
        BY <2>1, CurrentCall, Entries, SitemapAssumption
      <3>2. Calls(Locs(map), depth + 1) \in Seq(Call) /\ Tail(todo) \in Seq(Call)
        BY <2>1, <3>1, CallsType, CurrentCall
      <3> QED
        BY <2>1, <3>2, RangeConcatenation
    <2>4. \A u : u \in Pending(Head(todo)) <=>
                   \E e \in Range(Calls(Locs(map), depth + 1)) : u \in Pending(e)
      BY <2>1, CurrentCall, PendingOfIndex DEF map, depth
    <2> QED
      BY <1>1, <2>1, <2>2, <2>3, <2>4
  <1>6. CASE Finish \/ Expire \/ UNCHANGED vars
    BY <1>1, <1>6 DEF Finish, Expire, vars
  <1> QED
    BY <1>2, <1>3, <1>4, <1>5, <1>6 DEF Next, Discover

\* A step that meets no error leaves what was covered covered.
LEMMA CoverKept ==
    ASSUME TypeOK, [Next]_vars, ~ReadRobots, ~GuessCommonPaths, errors' = 0
    PROVE  errors = 0 /\ \A m : Covered(m) => Covered(m)'
  <1> DEFINE N == Cardinality(Maps)
             Cov(m, s, r, t) ==
                \/ docs[m].type = "index"
                \/ docs[m].type = "urlset" /\ Range(docs[m].locs) \subseteq s \cup r
                \/ \E c \in t : m \in Reach({c.map}, N)
  <1>0. N \in Nat
    BY SitemapAssumption, FS_CardinalityType
  <1>1. /\ \A m : Covered(m) <=> Cov(m, seen, Range(reading), Range(todo))
        /\ \A m : Covered(m)' <=> Cov(m, seen', Range(reading'), Range(todo'))
    BY SameWeb DEF Covered
  <1> HIDE DEF N
  <1>2. ~TooDeep /\ ~FetchFails /\ ~ParseFails
    BY DEF TooDeep, FetchFails, ParseFails, GiveUp, TypeOK
  <1>3. CASE ReadURLSet
    <2>1. /\ Resolving /\ UNCHANGED <<seen, errors>> /\ reading = <<>>
          /\ docs[map].type = "urlset"
          /\ reading' = Locs(map) /\ todo' = Tail(todo)
      BY <1>3 DEF ReadURLSet, Resolving, Reads
    <2>2. Range(todo) = {Head(todo)} \cup Range(todo')
      BY <2>1, RangeOfHeadAndTail DEF Resolving, TypeOK
    <2>3. Reach({map}, N) = {map}
      BY <1>0, <2>1, ReachOfLeaf
    <2>4. Range(reading) = {}
      BY <2>1, EmptySeq DEF Range
    <2> QED
      BY <1>1, <2>1, <2>2, <2>3, <2>4 DEF map, Locs
  <1>4. CASE TakeLoc
    <2>1. Range(reading) = {Head(reading)} \cup Range(reading')
      BY <1>4, RangeOfHeadAndTail DEF TakeLoc, TypeOK
    <2>2. seen' = seen \cup {Head(reading)} /\ UNCHANGED <<todo, errors>>
      BY <1>4 DEF TakeLoc
    <2> QED
      BY <1>1, <2>1, <2>2
  <1>5. CASE ReadIndex
    <2>1. /\ Resolving /\ UNCHANGED <<seen, reading, errors>>
          /\ depth <= MaxDepth /\ docs[map].type = "index"
          /\ todo' = Calls(Locs(map), depth + 1) \o Tail(todo)
      BY <1>5 DEF ReadIndex, Fits, Reads
    <2>2. Range(todo) = {Head(todo)} \cup Range(Tail(todo))
      BY <2>1, RangeOfHeadAndTail DEF Resolving, TypeOK
    <2>3. Range(todo') = Range(Calls(Locs(map), depth + 1)) \cup Range(Tail(todo))
      <3>1. Locs(map) \in Seq(Maps) /\ depth + 1 \in 0..MaxDepth + 1
        BY <2>1, CurrentCall, Entries, SitemapAssumption
      <3>2. Calls(Locs(map), depth + 1) \in Seq(Call) /\ Tail(todo) \in Seq(Call)
        BY <2>1, <3>1, CallsType, CurrentCall
      <3> QED
        BY <2>1, <3>2, RangeConcatenation
    <2>4. \A m : m \in Reach({map}, N) =>
                   \/ m = map
                   \/ \E e \in Range(Calls(Locs(map), depth + 1)) : m \in Reach({e.map}, N)
      <3>1. N + 1 \in Nat /\ N <= N + 1
        BY <1>0
      <3>2. Reach({map}, N) \subseteq Reach({map}, N + 1)
        BY <1>0, <3>1, ReachGrows
      <3>3. Children(map) = Range(Locs(map))
        BY <2>1 DEF Children, Locs
      <3>4. \A x \in Children(map) :
               \E e \in Range(Calls(Locs(map), depth + 1)) : e.map = x
        <4>1. ASSUME NEW x \in Children(map)
              PROVE  [map |-> x, depth |-> depth + 1] \in Range(Calls(Locs(map), depth + 1))
          BY <3>3, RangeOfCalls
        <4>2. \A x : [map |-> x, depth |-> depth + 1].map = x
          OBVIOUS
        <4> QED
          BY <4>1, <4>2
      <3> QED
        BY <1>0, <3>2, <3>4, ReachThroughChildren
    <2> QED
      BY <1>1, <2>1, <2>2, <2>3, <2>4 DEF map
  <1>6. CASE Finish \/ Expire \/ UNCHANGED vars
    BY <1>1, <1>6 DEF Finish, Expire, vars
  <1> QED
    BY <1>2, <1>3, <1>4, <1>5, <1>6 DEF Next, Discover

\* Every step keeps the books of the walk.
LEMMA NextBooks ==
    ASSUME TypeOK, AccountInv, CoverInv, [Next]_vars
    PROVE  AccountInv' /\ CoverInv'
  <1>1. ASSUME NEW maps \in Seq(Maps), Begin(maps) PROVE AccountInv' /\ CoverInv'
    <2> DEFINE N == Cardinality(Maps)
               S == Range(maps)
    <2>0. N \in Nat /\ MaxDepth \in Nat
      BY SitemapAssumption, FS_CardinalityType
    <2>1. /\ phase' = "resolve" /\ seen' = {} /\ reading' = <<>>
          /\ sitemapURLs' = maps /\ todo' = Calls(maps, 0)
      BY <1>1 DEF Begin, AccountInv
    <2>2. \A c : c \in Range(todo') <=> \E m \in S : c = [map |-> m, depth |-> 0]
      BY <2>1, RangeOfCalls
    <2>3. /\ Within(MaxDepth)' = Reach(S, MaxDepth)
          /\ Within(N)' = Reach(S, N)
      BY <2>1, SameWeb DEF Within
    <2>4. Range(reading') = {}
      BY <2>1 DEF Range
    <2> HIDE DEF N, S
    <2>5. \A u : u \in Account' <=> \E m \in S : u \in Pending([map |-> m, depth |-> 0])
      <3>1. \A u : u \in Account' <=>
                     \/ u \in seen' \/ u \in Range(reading')
                     \/ \E c \in Range(todo') : u \in Pending(c)
        BY SameWeb DEF Account
      <3> QED
        BY <2>1, <2>2, <2>4, <3>1
    <2>6. \A m : Pending([map |-> m, depth |-> 0]) = Listed(Reach({m}, MaxDepth))
      <3>1. MaxDepth - 0 = MaxDepth /\ 0 <= MaxDepth
        BY <2>0
      <3> QED
        BY <3>1 DEF Pending
    <2>7. \A u : u \in Listed(Reach(S, MaxDepth)) <=>
                   \E m \in S : u \in Listed(Reach({m}, MaxDepth))
      <3>1. \A x : x \in Reach(S, MaxDepth) <=> \E m \in S : x \in Reach({m}, MaxDepth)
        BY <2>0, ReachOfEach
      <3> QED
        BY <3>1, InListed
    <2>8. Account' = Listed(Reach(S, MaxDepth))
      <3>1. ASSUME NEW u PROVE u \in Account' <=> u \in Listed(Reach(S, MaxDepth))
        <4>1. \A m : u \in Pending([map |-> m, depth |-> 0])
                       <=> u \in Listed(Reach({m}, MaxDepth))
          BY <2>6
        <4>2. u \in Account' <=> \E m \in S : u \in Listed(Reach({m}, MaxDepth))
          BY <2>5, <4>1
        <4> QED
          BY <2>7, <4>2
      <3> QED
        BY <3>1
    <2>9. Listed(Within(MaxDepth))' = Listed(Reach(S, MaxDepth))
      BY <2>3, SameWeb
    <2>10. ASSUME NEW m \in Reach(S, N) PROVE Covered(m)'
      <3>1. PICK x \in S : m \in Reach({x}, N)
        BY <2>0, <2>10, ReachOfEach
      <3>2. [map |-> x, depth |-> 0] \in Range(todo')
        BY <2>2
      <3>3. [map |-> x, depth |-> 0].map = x
        OBVIOUS
      <3>4. m \in Reach({x}, N)'
        BY <3>1, SameWeb
      <3> QED
        BY <3>2, <3>3, <3>4 DEF Covered, N
    <2> QED
      BY <2>1, <2>3, <2>8, <2>9, <2>10 DEF AccountInv, CoverInv, N
  <1>2. ASSUME ReadRobots \/ GuessCommonPaths
        PROVE  \E maps \in Seq(Maps) : Begin(maps)
    BY <1>2, SitemapAssumption DEF ReadRobots, GuessCommonPaths, TypeOK
  <1>3. ASSUME ~ReadRobots, ~GuessCommonPaths PROVE AccountInv' /\ CoverInv'
    <2>1. phase' # "robots" <=> phase # "robots"
      <3>1. CASE Finish
        BY <3>1 DEF Finish
      <3>2. CASE ~Finish
        <4>1. UNCHANGED phase
          BY <1>3, <3>2 DEF Next, Discover, TooDeep, FetchFails, ParseFails, GiveUp,
                            ReadURLSet, TakeLoc, ReadIndex, Expire, vars
        <4> QED
          BY <4>1
      <3> QED
        BY <3>1, <3>2
    <2>2. UNCHANGED sitemapURLs /\ (expired => expired')
      <3>1. CASE Expire
        BY <3>1 DEF Expire
      <3>2. CASE ~Expire
        <4>1. UNCHANGED <<sitemapURLs, expired>>
          BY <1>3, <3>2 DEF Next, Discover, TooDeep, FetchFails, ParseFails, GiveUp,
                            ReadURLSet, TakeLoc, ReadIndex, Finish, vars
        <4> QED
          BY <4>1
      <3> QED
        BY <3>1, <3>2
    <2>3. /\ phase' = "robots" => UNCHANGED <<seen, reading, todo>>
          /\ phase' = "done" => reading' = <<>> /\ todo' = <<>>
      <3>1. CASE Finish \/ Expire \/ UNCHANGED vars
        BY <3>1 DEF Finish, Expire, vars, AccountInv
      <3>2. CASE ~Finish /\ ~Expire /\ ~UNCHANGED vars
        <4>1. /\ phase' = phase
              /\ phase # "done"
              /\ phase # "robots"
          <5>1. CASE TakeLoc
            BY <5>1 DEF TakeLoc, AccountInv
          <5>2. CASE TooDeep \/ FetchFails \/ ParseFails \/ ReadURLSet \/ ReadIndex
            BY <5>2 DEF TooDeep, FetchFails, ParseFails, GiveUp, ReadURLSet, ReadIndex,
                        Resolving, AccountInv
          <5> QED
            BY <1>3, <3>2, <5>1, <5>2 DEF Next, Discover
        <4> QED
          BY <4>1
      <3> QED
        BY <3>1, <3>2
    <2>4. \A n : Within(n)' = Within(n) /\ Listed(Within(n))' = Listed(Within(n))
      BY <2>2, SameWeb DEF Within
    <2>5. AccountInv'
      BY <1>3, <2>1, <2>2, <2>3, <2>4, AccountKept, SameWeb DEF AccountInv
    <2>6. CoverInv'
      BY <1>3, <2>1, <2>4, CoverKept DEF CoverInv
    <2> QED
      BY <2>5, <2>6
  <1> QED
    BY <1>1, <1>2, <1>3

(* The walk starts where the website says, or robots.txt was not fetched.    *)
StartInv ==
    phase # "robots" /\ sitemapURLs # Declared =>
        sitemapURLs = CommonPaths /\ (flaky \/ expired)

\* Every step keeps the start of the walk the right one.
LEMMA NextStartInv ==
    ASSUME StartInv, [Next]_vars
    PROVE  StartInv'
  <1>1. CASE ReadRobots
    BY <1>1, SameWeb DEF ReadRobots, Begin, StartInv, Declared
  <1>2. CASE GuessCommonPaths
    BY <1>2, SameWeb DEF GuessCommonPaths, Begin, StartInv, Declared
  <1>3. CASE Expire
    BY <1>3, SameWeb DEF Expire, StartInv
  <1>4. CASE ~ReadRobots /\ ~GuessCommonPaths /\ ~Expire
    <2>1. UNCHANGED <<sitemapURLs, expired>> /\ (phase = "robots" => phase' = "robots")
      BY <1>4 DEF Next, Discover, TooDeep, FetchFails, ParseFails, GiveUp, Resolving,
                  ReadURLSet, TakeLoc, ReadIndex, Finish, vars
    <2> QED
      BY <2>1, SameWeb DEF StartInv
  <1> QED
    BY <1>1, <1>2, <1>3, <1>4

(* The books are right from the start to the end of a discovery.             *)
THEOREM BooksInvariance == Spec => [](AccountInv /\ CoverInv /\ StartInv)
  <1>1. Init => AccountInv /\ CoverInv /\ StartInv
    BY DEF Init, AccountInv, CoverInv, StartInv
  <1>2. TypeOK /\ AccountInv /\ CoverInv /\ [Next]_vars => AccountInv' /\ CoverInv'
    BY NextBooks
  <1>3. StartInv /\ [Next]_vars => StartInv'
    BY NextStartInv
  <1> QED
    BY <1>1, <1>2, <1>3, SitemapInvariance, PTL DEF Spec

-----------------------------------------------------------------------------

\* A discovery on a network that works, which met its deadline, has exactly the
\* pages listed at most MaxDepth indexes away from what the website declares,
\* however the sitemaps are nested, shared or broken, and whatever cycles they
\* form.
THEOREM FindsAll == Spec => []FindsAllWithinDepth
  <1>1. SeenInv /\ AccountInv /\ StartInv => FindsAllWithinDepth
    <2> SUFFICES ASSUME SeenInv, AccountInv, StartInv, phase = "done", ~expired, ~flaky
                 PROVE  Range(found) = Listed(Reach(Range(Declared), MaxDepth))
      BY DEF FindsAllWithinDepth
    <2>0. sitemapURLs = Declared
      BY DEF StartInv
    <2>1. reading = <<>> /\ todo = <<>> /\ Account = Listed(Within(MaxDepth))
      BY DEF AccountInv
    <2>2. Range(reading) = {} /\ Range(todo) = {}
      BY <2>1 DEF Range
    <2>3. Account = seen
      BY <2>2 DEF Account
    <2> QED
      BY <2>0, <2>1, <2>3 DEF SeenInv, Within
  <1> QED
    BY <1>1, SitemapInvariance, BooksInvariance, PTL

\* A walk without an error has every page any chain of indexes leads to, for
\* webs of any size and every depth limit, and after a deadline too; it started
\* from what the website declares, unless robots.txt could not be fetched.
THEOREM LosesNothingElseSilently == Spec => []OnlyRobotsIsLostSilently
  <1>1. TypeOK /\ SeenInv /\ AccountInv /\ CoverInv /\ StartInv
            => OnlyRobotsIsLostSilently
    <2> SUFFICES ASSUME TypeOK, SeenInv, AccountInv, CoverInv, StartInv,
                        phase = "done", errors = 0
                 PROVE  /\ Range(found) = Listed(Within(Cardinality(Maps)))
                        /\ \A m \in Within(Cardinality(Maps)) :
                              docs[m].type \in {"urlset", "index"}
      BY DEF OnlyRobotsIsLostSilently, StartInv
    <2> DEFINE N == Cardinality(Maps)
    <2>1. /\ reading = <<>> /\ todo = <<>> /\ Account \subseteq Listed(Within(MaxDepth))
          /\ \A m \in Within(N) : Covered(m)
      BY DEF AccountInv, CoverInv
    <2>2. Range(reading) = {} /\ Range(todo) = {}
      BY <2>1 DEF Range
    <2>3. Account = seen /\ Range(found) = seen
      BY <2>2 DEF Account, SeenInv
    <2>4. Within(MaxDepth) \subseteq Within(N)
      <3>1. Range(sitemapURLs) \in SUBSET Maps
        BY RangeOfSeq DEF TypeOK
      <3> QED
        BY <3>1, ReachStops, SitemapAssumption DEF Within
    <2>5. seen \subseteq Listed(Within(N))
      BY <2>1, <2>3, <2>4, InListed
    <2>6. \A m \in Within(N) :
             \/ docs[m].type = "index"
             \/ docs[m].type = "urlset" /\ Range(docs[m].locs) \subseteq seen
      BY <2>1, <2>2 DEF Covered
    <2>7. Listed(Within(N)) \subseteq seen
      BY <2>6 DEF Listed
    <2> QED
      BY <2>3, <2>5, <2>6, <2>7
  <1> QED
    BY <1>1, SitemapInvariance, BooksInvariance, PTL
=============================================================================
