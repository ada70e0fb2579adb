----------------------------- MODULE DataLemmas -----------------------------
(***************************************************************************)
(* What the proofs about data need and the library does not have:          *)
(* induction over numbers, stated about sets of numbers, and what adding   *)
(* to and taking from a sequence does to its range.                        *)
(***************************************************************************)
EXTENDS Integers, Sequences, Functions, WellFoundedInduction, SequenceTheorems, TLAPS

\* A set of numbers that is not empty has a smallest member.
LEMMA Least ==
    ASSUME NEW T \in SUBSET Nat, T # {}
    PROVE  \E m \in T : \A k \in T : m <= k
  <1>1. PICK m \in T : \A k \in T : <<k, m>> \notin OpToRel(<, Nat)
    BY NatLessThanWellFounded, WFMin
  <1>2. \A k \in T : ~(k < m)
    BY <1>1 DEF OpToRel
  <1> QED
    BY <1>2

\* A set of numbers with 0 that has the successors of its members has them all.
LEMMA Induct ==
    ASSUME NEW T \in SUBSET Nat, 0 \in T, \A n \in T : n + 1 \in T
    PROVE  T = Nat
  <1> SUFFICES ASSUME Nat \ T # {} PROVE FALSE
    OBVIOUS
  <1>1. PICK m \in Nat \ T : \A k \in Nat \ T : m <= k
    BY Least
  <1>2. m # 0 /\ m - 1 \in Nat /\ m - 1 \in T
    BY <1>1
  <1>3. (m - 1) + 1 \in T
    BY <1>2
  <1> QED
    BY <1>1, <1>2, <1>3

-----------------------------------------------------------------------------

\* Appending an element adds it to the range.
LEMMA RangeOfAppend ==
    ASSUME NEW S, NEW seq \in Seq(S), NEW e \in S
    PROVE  Range(Append(seq, e)) = Range(seq) \cup {e}
  <1>1. /\ DOMAIN seq = 1..Len(seq) /\ Len(seq) \in Nat
        /\ DOMAIN Append(seq, e) = 1..Len(seq) + 1
        /\ \A k \in 1..Len(seq) : Append(seq, e)[k] = seq[k]
        /\ Append(seq, e)[Len(seq) + 1] = e
    BY LenProperties, AppendProperties
  <1>2. 1..Len(seq) + 1 = 1..Len(seq) \cup {Len(seq) + 1}
    BY <1>1
  <1> QED
    BY <1>1, <1>2 DEF Range

\* The first of a list and the others are the list.
LEMMA RangeOfHeadAndTail ==
    ASSUME NEW S, NEW seq \in Seq(S), seq # <<>>
    PROVE  Range(seq) = {Head(seq)} \cup Range(Tail(seq))
  <1>1. /\ Len(seq) \in Nat \ {0} /\ DOMAIN seq = 1..Len(seq)
        /\ Head(seq) = seq[1]
        /\ Tail(seq) \in Seq(S) /\ Len(Tail(seq)) = Len(seq) - 1
        /\ \A k \in 1..Len(seq) - 1 : Tail(seq)[k] = seq[k + 1]
    BY HeadTailProperties, LenProperties, EmptySeq
  <1>2. DOMAIN Tail(seq) = 1..Len(seq) - 1
    BY <1>1, LenProperties
  <1>3. \A k \in 1..Len(seq) - 1 : k + 1 \in 1..Len(seq)
    BY <1>1
  <1>4. ASSUME NEW x \in Range(seq) PROVE x \in {Head(seq)} \cup Range(Tail(seq))
    <2>1. PICK k \in 1..Len(seq) : x = seq[k]
      BY <1>1, <1>4 DEF Range
    <2>2. CASE k = 1
      BY <1>1, <2>1, <2>2
    <2>3. CASE k # 1
      <3>1. /\ k - 1 \in 1..Len(seq) - 1
            /\ Tail(seq)[k - 1] = seq[(k - 1) + 1] /\ (k - 1) + 1 = k
        BY <1>1, <2>3
      <3> QED
        BY <1>2, <2>1, <3>1 DEF Range
    <2> QED
      BY <2>2, <2>3
  <1>5. ASSUME NEW x \in {Head(seq)} \cup Range(Tail(seq)) PROVE x \in Range(seq)
    <2>1. CASE x = Head(seq)
      BY <1>1, <2>1 DEF Range
    <2>2. CASE x \in Range(Tail(seq))
      <3>1. PICK k \in 1..Len(seq) - 1 : x = Tail(seq)[k]
        BY <1>2, <2>2 DEF Range
      <3> QED
        BY <1>1, <1>3, <3>1 DEF Range
    <2> QED
      BY <1>5, <2>1, <2>2
  <1> QED
    BY <1>4, <1>5
=============================================================================
