----------------------- MODULE StackEventMonitorProofs -----------------------
(***************************************************************************)
(* Proofs about StackEventMonitor, for any nested stacks, page size and    *)
(* number of events and reads: its two readers exclude each other, and the *)
(* invariant MonitorInv, of which its types, the completeness of the       *)
(* records, the list of stacks and the order of the prints follow.         *)
(***************************************************************************)
EXTENDS StackEventMonitor, SequenceTheorems, FiniteSetTheorems, WellFoundedInduction,
        TLAPS

\* The final poll begins after stop() has silenced the timer for good.
ReadersInv ==
  /\ reads["tick"].state \in {"idle", "reading", "read"}
  /\ reads["final"].state \in {"idle", "reading", "read"}
  /\ DOMAIN reads = Readers
  /\ \A r \in Readers : DOMAIN reads[r] = DOMAIN Idle
  /\ active => stop = "no"
  /\ reads["final"].state # "idle" => stop = "final" /\ reads["tick"].state # "reading"
  /\ stop = "final" => reads["tick"].state # "reading"

\* The monitor starts with no read under way.
LEMMA ReadersInit == Init => ReadersInv
  BY DEF Init, ReadersInv, Readers, Idle

\* Taking a page leaves a read in progress or ends it.
LEMMA PageKeepsReaders ==
  ASSUME ReadersInv, NEW r \in Readers, TakesPage(r), UNCHANGED <<active, stop>>
  PROVE  ReadersInv'
<1> DEFINE top == reads[r].at
           s == reads[r].stack
           st == IF Finished(s, top) THEN "read" ELSE reads[r].state
<1>1. reads[r].state = "reading"
  BY DEF TakesPage
<1>2. reads' = [reads EXCEPT ![r].at = PageFrom(s, top) - 1,
                             ![r].batch = @ \cup (OwnOf(s) \cap (PageFrom(s, top)..top)),
                             ![r].state = IF Finished(s, top) THEN "read" ELSE @]
  BY DEF TakesPage
<1>3. /\ DOMAIN reads' = Readers
      /\ \A q \in Readers : DOMAIN reads'[q] = DOMAIN Idle
      /\ reads'[r].state = st
      /\ \A q \in Readers : q # r => reads'[q] = reads[q]
  <2>1. \A q \in Readers : q # r => reads'[q] = reads[q]
    BY <1>2 DEF ReadersInv
  <2>2. DOMAIN reads' = Readers
    BY <1>2 DEF ReadersInv
  <2>3. reads'[r].state = st /\ DOMAIN reads'[r] = DOMAIN Idle
    BY <1>2 DEF ReadersInv, Idle
  <2> QED BY <2>1, <2>2, <2>3 DEF ReadersInv
<1>4. st \in {"reading", "read"}
  BY <1>1
<1> HIDE DEF st
<1> QED BY <1>1, <1>3, <1>4 DEF ReadersInv, Readers

\* Every step keeps the readers apart.
LEMMA ReadersStep == ReadersInv /\ [Next]_vars => ReadersInv'
<1> SUFFICES ASSUME ReadersInv, [Next]_vars PROVE ReadersInv'
  OBVIOUS
<1>1. CASE UNCHANGED vars
  BY <1>1 DEF ReadersInv, vars, cfnVars, monVars
<1>2. ASSUME NEW s \in Stacks, ResourceEvent(s) PROVE ReadersInv'
  BY <1>2 DEF ResourceEvent, Writes, monVars, ReadersInv
<1>3. ASSUME NEW n \in Nested, NestedBegins(n) \/ NestedEnds(n) \/ NestedEndSeen(n)
      PROVE  ReadersInv'
  BY <1>3 DEF NestedBegins, NestedEnds, NestedEndSeen, Writes, monVars, ReadersInv
<1>4. CASE RootEnds
  BY <1>4 DEF RootEnds, Writes, monVars, ReadersInv
<1>5. ASSUME NEW r \in Readers, PageOfMany(r) \/ LastPage(r) PROVE ReadersInv'
  BY <1>5, PageKeepsReaders DEF PageOfMany, LastPage
<1>6. ASSUME NEW r \in Readers, Throttled(r) PROVE ReadersInv'
  BY <1>6 DEF Throttled, ReadersInv, Readers, Idle
<1>7. ASSUME NEW r \in Readers, Dies(r) PROVE ReadersInv'
  BY <1>7 DEF Dies, ReadersInv, Readers, Idle
<1>8. CASE Tick
  BY <1>8 DEF Tick, ReadBegins, ReadersInv, Readers, Idle
<1>9. CASE TickEnds
  BY <1>9 DEF TickEnds, ReadersInv, Readers, Idle
<1>10. CASE Stop
  BY <1>10 DEF Stop, ReadersInv
<1>11. CASE FinalPoll
  BY <1>11 DEF FinalPoll, TickIsDone, ReadBegins, ReadersInv, Readers, Idle
<1>12. CASE FinalPrint
  BY <1>12 DEF FinalPrint, ReadersInv, Readers, Idle
<1> QED
  BY <1>1, <1>2, <1>3, <1>4, <1>5, <1>6, <1>7, <1>8, <1>9, <1>10, <1>11, <1>12 DEF Next

\* tick's read and the final one, which share the list, the round and the
\* records of the events, never overlap (stack-event-monitor.ts:186-192).
THEOREM OneReader == Spec => []SingleReader
<1>1. ReadersInv => SingleReader
  BY DEF ReadersInv, SingleReader, Readers
<1> QED BY <1>1, ReadersInit, ReadersStep, PTL DEF Spec

-----------------------------------------------------------------------------
(* Numbers and sequences *)

\* A non-empty set of numbers has a least one.
LEMMA LeastNumber ==
  ASSUME NEW T \in SUBSET Nat, T # {}
  PROVE  \E n \in T : \A k \in T : ~(k < n)
<1> DEFINE less == OpToRel(<, Nat)
<1>1. IsWellFoundedOn(less, Nat)
  BY NatLessThanWellFounded
<1>2. PICK n \in T : \A k \in T : ~(<<k, n>> \in less)
  <2> HIDE DEF less
  <2> QED BY <1>1, WFMin
<1>3. \A k \in T : k < n => <<k, n>> \in less
  BY DEF OpToRel
<1> QED BY <1>2, <1>3

\* The Max of the library is the greatest number of a bounded set.
LEMMA MaxOfPlaces ==
  ASSUME NEW S \in SUBSET Nat, S # {}, NEW b \in Nat, \A x \in S : x <= b
  PROVE  Max(S) \in S /\ \A x \in S : x <= Max(S)
<1> DEFINE T == {k \in Nat : \A x \in S : x <= k}
<1>1. PICK k \in T : \A j \in T : ~(j < k)
  <2>1. T \in SUBSET Nat /\ b \in T
    OBVIOUS
  <2> HIDE DEF T
  <2> QED BY <2>1, LeastNumber
<1>2. k \in S
  <2> SUFFICES ASSUME k \notin S PROVE FALSE
    OBVIOUS
  <2>1. k \in Nat /\ \A x \in S : x <= k - 1
    OBVIOUS
  <2>2. k - 1 \in Nat
    <3>1. PICK x \in S : TRUE
      OBVIOUS
    <3>2. x \in Nat /\ x <= k - 1
      BY <2>1
    <3> QED BY <2>1, <3>2
  <2>3. k - 1 \in T
    BY <2>1, <2>2
  <2> QED BY <2>1, <2>3, <1>1
<1>3. \E x \in S : \A y \in S : x >= y
  <2>1. \A y \in S : k >= y
    OBVIOUS
  <2> QED BY <1>2, <2>1
<1>4. Max(S) \in S /\ \A y \in S : Max(S) >= y
  BY <1>3 DEF Max
<1> QED BY <1>4

\* The Min of the library is the least number of a set.
LEMMA MinOfPlaces ==
  ASSUME NEW S \in SUBSET Nat, S # {}
  PROVE  Min(S) \in S
<1>1. \E x \in S : \A y \in S : x =< y
  <2>1. PICK x \in S : \A y \in S : ~(y < x)
    BY LeastNumber
  <2> QED BY <2>1
<1> QED BY <1>1 DEF Min

\* Places can be put in ascending order.
LEMMA PlacesAscend ==
  ASSUME NEW b \in Nat, NEW S \in SUBSET (1..b)
  PROVE  /\ Cardinality(S) \in Nat
         /\ Ascending(S) \in [1..Cardinality(S) -> S]
         /\ \A i, j \in 1..Cardinality(S) : i < j => Ascending(S)[i] < Ascending(S)[j]
<1> DEFINE Rises(q, n) == \A i, j \in 1..n : i < j => q[i] < q[j]
           Bad(P, n) == Cardinality(P) = n /\ ~\E q \in [1..n -> P] : Rises(q, n)
           T == {n \in Nat : \E P \in SUBSET (1..b) : Bad(P, n)}
<1>1. \A P \in SUBSET (1..b) : IsFiniteSet(P) /\ Cardinality(P) \in Nat
  <2>1. IsFiniteSet(1..b)
    BY FS_Interval
  <2> QED BY <2>1, FS_Subset, FS_CardinalityType
<1>2. T = {}
  <2> SUFFICES ASSUME T # {} PROVE FALSE
    OBVIOUS
  <2>1. PICK n \in T : \A k \in T : ~(k < n)
    <3>1. T \in SUBSET Nat
      OBVIOUS
    <3> HIDE DEF T
    <3> QED BY <3>1, LeastNumber
  <2>2. n \in Nat
    OBVIOUS
  <2>3. PICK P \in SUBSET (1..b) : Bad(P, n)
    OBVIOUS
  <2>4. n # 0
    <3> SUFFICES ASSUME n = 0 PROVE FALSE
      OBVIOUS
    <3>1. [i \in 1..0 |-> 0] \in [1..0 -> P] /\ Rises([i \in 1..0 |-> 0], 0)
      OBVIOUS
    <3> QED BY <3>1, <2>3
  <2>5. P # {}
    BY <2>3, <2>4, FS_EmptySet
  <2> DEFINE x == Max(P)
             R == P \ {x}
  <2>6. x \in P /\ \A y \in P : y <= x
    <3>1. P \in SUBSET Nat /\ \A y \in P : y <= b
      OBVIOUS
    <3> QED BY <2>5, <3>1, MaxOfPlaces
  <2> HIDE DEF x
  <2>7. R \in SUBSET (1..b) /\ Cardinality(R) = n - 1 /\ n - 1 \in Nat
    <3>1. Cardinality(R) = Cardinality(P) - 1
      BY <1>1, <2>6, FS_RemoveElement
    <3>2. R \in SUBSET (1..b)
      OBVIOUS
    <3>3. Cardinality(P) = n
      BY <2>3
    <3> HIDE DEF R, T
    <3> QED BY <3>1, <3>2, <3>3, <2>2, <2>4
  <2>8. n - 1 \notin T
    BY <2>1, <2>2, <2>7
  <2>9. PICK q \in [1..n - 1 -> R] : Rises(q, n - 1)
    BY <2>7, <2>8
  <2> DEFINE p == [i \in 1..n |-> IF i = n THEN x ELSE q[i]]
  <2>10. p \in [1..n -> P]
    BY <2>2, <2>4, <2>6, <2>9
  <2>11. ASSUME NEW i \in 1..n, NEW j \in 1..n, i < j
         PROVE  p[i] < p[j]
    <3>1. i \in 1..n - 1 /\ p[i] = q[i] /\ q[i] \in R
      BY <2>2, <2>11, <2>9
    <3>2. CASE j = n
      <4>1. q[i] \in 1..b /\ q[i] # x /\ q[i] <= x /\ x \in 1..b
        BY <3>1, <2>6
      <4> QED BY <3>1, <3>2, <4>1
    <3>3. CASE j # n
      <4>1. j \in 1..n - 1 /\ p[j] = q[j]
        BY <2>2, <3>3
      <4> QED BY <2>9, <2>11, <3>1, <4>1
    <3> QED BY <3>2, <3>3
  <2>12. \E g \in [1..n -> P] : Rises(g, n)
    <3> HIDE DEF p
    <3> QED BY <2>10, <2>11
  <2> QED BY <2>3, <2>12
<1> DEFINE c == Cardinality(S)
<1>3. c \in Nat /\ c \notin T
  BY <1>1, <1>2
<1>4. \E q \in [1..c -> S] : Rises(q, c)
  BY <1>3
<1> QED BY <1>3, <1>4 DEF Ascending

\* The sequence of places that HandsOver gives the printer.
LEMMA AscendingSequence ==
  ASSUME NEW b \in Nat, NEW S \in SUBSET (1..b)
  PROVE  /\ Ascending(S) \in Seq(Nat)
         /\ IsInjective(Ascending(S))
         /\ \A i \in DOMAIN Ascending(S) : Ascending(S)[i] \in S
<1> DEFINE q == Ascending(S)
           c == Cardinality(S)
<1>1. /\ c \in Nat
      /\ q \in [1..c -> S]
      /\ \A i, j \in 1..c : i < j => q[i] < q[j]
  BY PlacesAscend
<1> HIDE DEF q, c
<1>2. q \in [1..c -> Nat]
  <2>1. S \subseteq Nat
    OBVIOUS
  <2> QED BY <1>1, <2>1
<1>3. q \in Seq(Nat)
  BY <1>1, <1>2, IsASeq
<1>4. IsInjective(q)
  <2> SUFFICES ASSUME NEW i \in 1..c, NEW j \in 1..c, q[i] = q[j] PROVE i = j
    BY <1>1 DEF IsInjective
  <2>1. q[i] \in Nat /\ q[j] \in Nat
    BY <1>2
  <2> QED BY <2>1, <1>1
<1> QED BY <1>1, <1>3, <1>4 DEF q

-----------------------------------------------------------------------------
(* Histories and the list *)

\* The places at which history h speaks of stack s, and the last that it says.
About(h, s) == {i \in DOMAIN h : h[i].of = s /\ h[i].kind # "own"}
Says(h, s) == IF About(h, s) = {} THEN "nothing" ELSE h[Max(About(h, s))].kind

\* The last place at which a history speaks of a stack.
LEMMA LastPlace ==
  ASSUME NEW h \in Seq(Event), NEW s, About(h, s) # {}
  PROVE  Max(About(h, s)) \in About(h, s) /\ \A i \in About(h, s) : i <= Max(About(h, s))
<1> DEFINE S == About(h, s)
           n == Len(h)
<1>1. S \in SUBSET Nat /\ n \in Nat /\ \A i \in S : i <= n
  BY DEF About
<1> HIDE DEF S, n
<1>2. Max(S) \in S /\ \A i \in S : i <= Max(S)
  BY <1>1, MaxOfPlaces DEF S
<1> QED BY <1>2 DEF S

\* What Says tells of a history.
LEMMA SaysFacts ==
  ASSUME NEW h \in Seq(Event), NEW s \in Stacks
  PROVE  /\ Says(h, s) = "nothing" => ~Contains(h, Ends(s))
         /\ Says(h, s) = "ends" => Contains(h, Ends(s))
<1>1. CASE About(h, s) = {}
  <2>1. ~Contains(h, Ends(s))
    BY <1>1 DEF About, Contains, Ends
  <2> QED BY <1>1, <2>1 DEF Says
<1>2. CASE About(h, s) # {}
  <2>1. PICK i \in About(h, s) : i = Max(About(h, s))
    BY <1>2, LastPlace
  <2>2. Says(h, s) = h[i].kind /\ h[i] \in Event /\ h[i].of = s /\ h[i].kind # "own"
    BY <1>2, <2>1 DEF Says, About
  <2>3. h[i].kind \in {"begins", "ends"} /\ h[i] = [kind |-> h[i].kind, of |-> s]
    BY <2>2 DEF Event, Kinds
  <2>4. i \in 1..Len(h)
    BY <2>1 DEF About
  <2> QED BY <2>2, <2>3, <2>4 DEF Contains, Ends
<1> QED BY <1>1, <1>2

\* What an appended event adds to a history.
LEMMA AppendTells ==
  ASSUME NEW h \in Seq(Event), NEW e \in Event
  PROVE  /\ Append(h, e) \in Seq(Event)
         /\ Len(Append(h, e)) = Len(h) + 1
         /\ \A i \in 1..Len(h) : Append(h, e)[i] = h[i]
         /\ Append(h, e)[Len(h) + 1] = e
         /\ \A f : Contains(Append(h, e), f) <=> (Contains(h, f) \/ f = e)
<1>1. /\ Append(h, e) \in Seq(Event)
      /\ Len(Append(h, e)) = Len(h) + 1
      /\ \A i \in 1..Len(h) : Append(h, e)[i] = h[i]
      /\ Append(h, e)[Len(h) + 1] = e
  BY AppendProperties
<1> DEFINE a == Append(h, e)
           n == Len(h)
<1> HIDE DEF a, n
<1>2. n \in Nat /\ 1..n + 1 = (1..n) \cup {n + 1}
  BY DEF n
<1>3. \A f : (\E i \in 1..n + 1 : a[i] = f) <=> ((\E i \in 1..n : h[i] = f) \/ f = e)
  BY <1>1, <1>2 DEF a, n
<1> QED BY <1>1, <1>3 DEF Contains, a, n

\* The event that a history speaks of a stack with last.
LEMMA AppendSays ==
  ASSUME NEW h \in Seq(Event), NEW e \in Event, NEW s \in Stacks
  PROVE  /\ e.of = s /\ e.kind # "own" => Says(Append(h, e), s) = e.kind
         /\ e.of # s \/ e.kind = "own" => Says(Append(h, e), s) = Says(h, s)
<1> DEFINE a == Append(h, e)
           n == Len(h)
<1>1. /\ a \in Seq(Event) /\ Len(a) = n + 1 /\ a[n + 1] = e /\ n \in Nat
      /\ \A i \in 1..n : a[i] = h[i]
  BY AppendProperties
<1> HIDE DEF a, n
<1>2. DOMAIN a = (1..n) \cup {n + 1} /\ DOMAIN h = 1..n
  BY <1>1 DEF n
<1>3. CASE e.of = s /\ e.kind # "own"
  <2>1. n + 1 \in About(a, s)
    BY <1>1, <1>2, <1>3 DEF About
  <2>2. PICK i \in About(a, s) : i = Max(About(a, s))
    BY <1>1, <2>1, LastPlace
  <2>3. n + 1 <= i
    BY <1>1, <2>1, <2>2, LastPlace
  <2>4. i \in (1..n) \cup {n + 1}
    BY <1>2 DEF About
  <2>5. i = n + 1
    BY <1>1, <2>3, <2>4
  <2>6. Says(a, s) = e.kind
    BY <1>1, <2>1, <2>2, <2>5 DEF Says
  <2> QED BY <1>3, <2>6 DEF a
<1>4. CASE e.of # s \/ e.kind = "own"
  <2>1. About(a, s) = About(h, s)
    BY <1>1, <1>2, <1>4 DEF About
  <2>2. CASE About(h, s) = {}
    BY <2>1, <2>2, <1>4 DEF Says, a
  <2>3. CASE About(h, s) # {}
    <3>1. PICK i \in About(h, s) : i = Max(About(h, s))
      BY <2>3, LastPlace
    <3>2. i \in 1..n
      BY <1>2 DEF About
    <3>3. Says(a, s) = a[i].kind /\ Says(h, s) = h[i].kind
      BY <2>1, <2>3, <3>1 DEF Says
    <3> QED BY <1>1, <1>4, <3>2, <3>3 DEF a
  <2> QED BY <2>2, <2>3
<1> QED BY <1>3, <1>4

\* Taking the first e out of a list takes out nothing else.
LEMMA RemovedKeepsOthers ==
  ASSUME NEW S, NEW l \in Seq(S), NEW e, Contains(l, e)
  PROVE  /\ RemoveFirst(l, e) \in Seq(S)
         /\ \A x : x # e /\ Contains(l, x) => Contains(RemoveFirst(l, e), x)
<1> DEFINE P == {i \in 1..Len(l) : l[i] = e}
           p == Min(P)
           n == Len(l)
           left == SubSeq(l, 1, p - 1)
           right == SubSeq(l, p + 1, n)
<1>1. p \in P
  <2>1. P \in SUBSET Nat /\ P # {}
    BY DEF Contains
  <2> HIDE DEF P
  <2> QED BY <2>1, MinOfPlaces
<1>2. p \in 1..n /\ l[p] = e /\ n \in Nat
  BY <1>1
<1>3. RemoveFirst(l, e) = left \o right
  <2>1. SelectInSeq(l, LAMBDA v : v = e) = p
    BY <1>1 DEF SelectInSeq
  <2> QED BY <1>2, <2>1 DEF RemoveFirst, RemoveAt
<1> HIDE DEF p, P
<1>4. left \in Seq(S) /\ Len(left) = p - 1 /\ \A i \in 1..p - 1 : left[i] = l[i]
  <2>1. p - 1 \in Nat /\ 1..p - 1 \subseteq 1..n
    BY <1>2
  <2> QED BY <1>2, <2>1, SubSeqProperties
<1>5. right \in Seq(S) /\ Len(right) = n - p /\ \A i \in 1..n - p : right[i] = l[p + i]
  <2>1. \A i \in p + 1..n : i \in 1..n
    BY <1>2
  <2>2. right \in Seq(S)
    BY <1>2
  <2>3. Len(right) = n - p /\ \A i \in 1..n - p : right[i] = l[p + i]
    BY <1>2
  <2> QED BY <2>2, <2>3
<1> HIDE DEF left, right, n
<1>6. /\ left \o right \in Seq(S)
      /\ Len(left \o right) = Len(left) + Len(right)
      /\ \A i \in 1..Len(left) + Len(right) :
           (left \o right)[i] = IF i <= Len(left) THEN left[i] ELSE right[i - Len(left)]
  BY <1>4, <1>5, ConcatProperties, Zenon
<1>7. ASSUME NEW x, x # e, Contains(l, x)
      PROVE  Contains(left \o right, x)
  <2>1. PICK i \in 1..n : l[i] = x
    BY <1>7 DEF Contains, n
  <2>2. i # p
    BY <1>2, <1>7, <2>1
  <2> DEFINE j == IF i < p THEN i ELSE i - 1
  <2>3. j \in 1..Len(left) + Len(right)
    BY <1>2, <1>4, <1>5, <2>2
  <2>4. (left \o right)[j] = x
    <3>1. CASE i < p
      <4>1. j = i /\ i \in 1..p - 1 /\ i <= Len(left)
        BY <1>2, <1>4, <3>1
      <4>2. (left \o right)[j] = left[i]
        BY <1>6, <2>3, <4>1
      <4> QED BY <1>4, <2>1, <4>1, <4>2
    <3>2. CASE p < i
      <4>1. j = i - 1 /\ ~(j <= p - 1) /\ j - (p - 1) = i - p /\ i - p \in 1..n - p /\ p + (i - p) = i
        BY <1>2, <3>2
      <4>2. (left \o right)[j] = right[i - p]
        BY <1>4, <1>6, <2>3, <4>1
      <4>3. right[i - p] = l[p + (i - p)]
        BY <1>5, <4>1
      <4>4. l[p + (i - p)] = l[i]
        BY <4>1
      <4> QED BY <2>1, <4>2, <4>3, <4>4
    <3>3. i < p \/ p < i
      BY <1>2, <2>1, <2>2
    <3> QED BY <3>1, <3>2, <3>3
  <2> HIDE DEF j
  <2> QED BY <1>6, <2>3, <2>4 DEF Contains
<1> QED BY <1>3, <1>6, <1>7

-----------------------------------------------------------------------------
(* A page goes through processNestedStack *)

\* The list and the completed stacks keep their types, and Name its place.
Sound(m) ==
  /\ m \in [list : Seq(Stacks \cup {Name}), done : SUBSET Stacks]
  /\ Contains(m.list, Name)
  /\ \A n \in Nested : n \in m.done => Contains(log[n], Ends(n))

\* Nested stack n is on the list, unless its own history tells of its end.
Has(m, n) == Contains(m.list, n) \/ Contains(log[n], Ends(n))

\* Appending to a list keeps what it contains.
LEMMA AppendContains ==
  ASSUME NEW S, NEW l \in Seq(S), NEW x \in S
  PROVE  /\ Append(l, x) \in Seq(S)
         /\ Contains(Append(l, x), x)
         /\ \A y : Contains(l, y) => Contains(Append(l, x), y)
<1> DEFINE a == Append(l, x)
           n == Len(l)
<1>1. /\ a \in Seq(S) /\ Len(a) = n + 1 /\ a[n + 1] = x /\ n \in Nat
      /\ \A i \in 1..n : a[i] = l[i]
  BY AppendProperties
<1> HIDE DEF a, n
<1>2. n + 1 \in 1..n + 1 /\ \A i \in 1..n : i \in 1..n + 1
  BY <1>1
<1>3. \A y : Contains(l, y) => Contains(a, y)
  BY <1>1, <1>2 DEF Contains, n
<1>4. Contains(a, x)
  BY <1>1, <1>2 DEF Contains
<1> QED BY <1>1, <1>3, <1>4 DEF a

\* processNestedStack keeps the list sound, loses a nested stack only at its end
\* and has one that begins on the list, unless it has ended.
LEMMA ProcessedKeeps ==
  ASSUME NEW m, Sound(m), NEW e \in Event,
         \A n \in Nested : e = Ends(n) => Contains(log[n], Ends(n))
  PROVE  /\ Sound(Processed(m, e))
         /\ \A n \in Nested : Has(m, n) => Has(Processed(m, e), n)
         /\ \A n \in Nested : e = Begins(n) => Has(Processed(m, e), n)
<1> DEFINE l == m.list
           d == m.done
           S == Stacks \cup {Name}
<1>1. m = [list |-> l, done |-> d] /\ l \in Seq(S) /\ d \in SUBSET Stacks
  BY DEF Sound
<1>2. Contains(l, Name) /\ \A n \in Nested : n \in d => Contains(log[n], Ends(n))
  BY DEF Sound
<1>3. e.kind \in Kinds /\ e.of \in Stacks /\ e = [kind |-> e.kind, of |-> e.of]
  BY DEF Event
<1>4. Name \notin Stacks /\ Name \notin Nested
  BY NamesDiffer DEF Stacks, Name, Root
<1>5. CASE e.kind = "ends" /\ Contains(l, e.of)
  <2> DEFINE k == RemoveFirst(l, e.of)
  <2>1. k \in Seq(S) /\ \A x : x # e.of /\ Contains(l, x) => Contains(k, x)
    BY <1>1, <1>5, RemovedKeepsOthers
  <2>2. Processed(m, e) = [list |-> k, done |-> d \cup {e.of}]
    BY <1>1, <1>5 DEF Processed
  <2> HIDE DEF k, l, d
  <2>3. Contains(k, Name)
    BY <1>2, <1>3, <1>4, <2>1
  <2>4. \A n \in Nested : n \in d \cup {e.of} => Contains(log[n], Ends(n))
    BY <1>2, <1>3, <1>5 DEF Ends
  <2>5. \A n \in Nested : Contains(l, n) => Contains(k, n) \/ Contains(log[n], Ends(n))
    BY <2>1, <2>4
  <2>6. \A n \in Nested : e # Begins(n)
    BY <1>5 DEF Begins
  <2>7. Sound(Processed(m, e))
    BY <1>1, <1>3, <2>1, <2>2, <2>3, <2>4 DEF Sound
  <2> QED BY <2>2, <2>5, <2>6, <2>7 DEF Has, l
<1>6. CASE ~(e.kind = "ends" /\ Contains(l, e.of)) /\ e.of \notin d
  <2> DEFINE k == Append(l, e.of)
  <2>1. k \in Seq(S) /\ Contains(k, e.of) /\ \A x : Contains(l, x) => Contains(k, x)
    BY <1>1, <1>3, AppendContains
  <2>2. Processed(m, e) = [list |-> k, done |-> d]
    BY <1>1, <1>6 DEF Processed
  <2> HIDE DEF k, l, d
  <2>3. \A n \in Nested : e = Begins(n) => Contains(k, n)
    BY <2>1 DEF Begins
  <2>4. Sound(Processed(m, e))
    BY <1>1, <1>2, <2>1, <2>2 DEF Sound
  <2> QED BY <2>1, <2>2, <2>3, <2>4 DEF Has, l
<1>7. CASE ~(e.kind = "ends" /\ Contains(l, e.of)) /\ e.of \in d
  <2>1. Processed(m, e) = m
    BY <1>1, <1>7 DEF Processed
  <2>2. \A n \in Nested : e = Begins(n) => Contains(log[n], Ends(n))
    BY <1>2, <1>7 DEF Begins
  <2> QED BY <2>1, <2>2 DEF Has
<1> QED BY <1>5, <1>6, <1>7

\* What a page of events does to the list and the completed stacks.
LEMMA PageProcessed ==
  ASSUME NEW page \in Seq(Event), Sound([list |-> list, done |-> done]),
         \A i \in 1..Len(page), n \in Nested : page[i] = Ends(n) => Contains(log[n], Ends(n))
  PROVE  /\ Sound(AfterEvents(page))
         /\ \A n \in Nested : Contains(list, n) => Has(AfterEvents(page), n)
         /\ \A i \in 1..Len(page), n \in Nested :
              page[i] = Begins(n) => Has(AfterEvents(page), n)
<1> DEFINE c == [list |-> list, done |-> done]
           N == Len(page)
           Runs(f, k) == [j \in 0..k |->
             IF j = 0 THEN c
             ELSE IF page[j].kind = "own" THEN f[j - 1] ELSE Processed(f[j - 1], page[j])]
           m == CHOOSE f : f = Runs(f, N)
           Good(k) == /\ Sound(m[k])
                      /\ \A n \in Nested : Has(c, n) => Has(m[k], n)
                      /\ \A i \in 1..k, n \in Nested : page[i] = Begins(n) => Has(m[k], n)
<1>1. AfterEvents(page) = m[N] /\ N \in Nat
  BY DEF AfterEvents
<1>2. \E f : f = Runs(f, N)
  <2> DEFINE T == {k \in Nat : ~\E f : f = Runs(f, k)}
  <2>1. SUFFICES ASSUME T # {} PROVE FALSE
    BY <1>1
  <2>2. PICK k \in T : \A j \in T : ~(j < k)
    <3>1. T \in SUBSET Nat
      OBVIOUS
    <3> HIDE DEF T
    <3> QED BY <2>1, <3>1, LeastNumber
  <2>3. k \in Nat /\ ~\E f : f = Runs(f, k)
    OBVIOUS
  <2>4. k # 0
    <3> SUFFICES ASSUME k = 0 PROVE FALSE
      OBVIOUS
    <3> DEFINE g == [j \in 0..0 |-> c]
    <3>1. g = Runs(g, 0)
      OBVIOUS
    <3> QED BY <2>3, <3>1
  <2>5. k - 1 \in Nat /\ k - 1 < k
    BY <2>3, <2>4
  <2>6. k - 1 \notin T
    BY <2>2, <2>5
  <2>7. PICK f : f = Runs(f, k - 1)
    BY <2>5, <2>6
  <2> DEFINE g == [j \in 0..k |->
               IF j = 0 THEN c
               ELSE IF page[j].kind = "own" THEN f[j - 1] ELSE Processed(f[j - 1], page[j])]
  <2>8. ASSUME NEW j \in 0..k - 1
        PROVE  g[j] = f[j]
    BY <2>5, <2>7
  <2>9. ASSUME NEW j \in 0..k
        PROVE  g[j] = Runs(g, k)[j]
    <3>1. CASE j = 0
      BY <3>1
    <3>2. CASE j # 0
      <4>1. j - 1 \in 0..k - 1
        BY <2>3, <3>2
      <4>2. g[j - 1] = f[j - 1]
        BY <4>1, <2>8
      <4> DEFINE u == g[j - 1]
                 v == f[j - 1]
      <4>3. g[j] = IF page[j].kind = "own" THEN v ELSE Processed(v, page[j])
        BY <3>2
      <4>4. Runs(g, k)[j] = IF page[j].kind = "own" THEN u ELSE Processed(u, page[j])
        <5> HIDE DEF g
        <5> QED BY <3>2
      <4> QED BY <4>2, <4>3, <4>4
    <3> QED BY <3>1, <3>2
  <2>10. g = Runs(g, k)
    <3>1. DOMAIN g = 0..k /\ DOMAIN Runs(g, k) = 0..k
      OBVIOUS
    <3> DEFINE h == Runs(g, k)
    <3>2. h = [j \in 0..k |-> h[j]] /\ g = [j \in 0..k |-> g[j]]
      OBVIOUS
    <3> HIDE DEF g, h, Runs
    <3> QED BY <2>9, <3>2 DEF h
  <2> QED BY <2>3, <2>10
<1>3. m = Runs(m, N)
  <2> HIDE DEF Runs
  <2> QED BY <1>2
<1> HIDE DEF m
<1>4. \A j \in 0..N : m[j] = IF j = 0 THEN c
                              ELSE IF page[j].kind = "own" THEN m[j - 1]
                              ELSE Processed(m[j - 1], page[j])
  BY <1>3
<1> HIDE DEF Runs
<1>5. Good(0)
  <2>1. m[0] = c
    BY <1>1, <1>4
  <2> QED BY <2>1
<1>6. ASSUME NEW k \in 1..N, Good(k - 1)
      PROVE  Good(k)
  <2>1. k - 1 \in 0..N /\ k \in 0..N /\ k # 0 /\ \A i \in 1..k : i \in 1..k - 1 \/ i = k
    BY <1>1
  <2> DEFINE e == page[k]
             x == m[k - 1]
  <2>2. e \in Event
    BY <1>1
  <2>3. CASE e.kind = "own"
    <3>1. m[k] = x
      BY <1>4, <2>1, <2>3
    <3>2. \A n \in Nested : e # Begins(n)
      BY <2>3 DEF Begins
    <3> QED BY <1>6, <2>1, <3>1, <3>2
  <2>4. CASE e.kind # "own"
    <3>1. m[k] = Processed(x, e)
      BY <1>4, <2>1, <2>4
    <3> HIDE DEF e, x
    <3>2. Sound(x) /\ \A n \in Nested : e = Ends(n) => Contains(log[n], Ends(n))
      BY <1>6 DEF e, x
    <3>3. /\ Sound(m[k])
          /\ \A n \in Nested : Has(x, n) => Has(m[k], n)
          /\ \A n \in Nested : e = Begins(n) => Has(m[k], n)
      BY <2>2, <3>1, <3>2, ProcessedKeeps
    <3> QED BY <1>6, <2>1, <3>3 DEF e, x
  <2> QED BY <2>3, <2>4
<1>7. Good(N)
  <2> DEFINE T == {k \in 0..N : ~Good(k)}
  <2>1. SUFFICES ASSUME T # {} PROVE FALSE
    BY <1>1
  <2>2. PICK k \in T : \A j \in T : ~(j < k)
    <3>1. T \in SUBSET Nat
      BY <1>1
    <3> HIDE DEF T
    <3> QED BY <2>1, <3>1, LeastNumber
  <2>3. k \in 0..N /\ ~Good(k)
    OBVIOUS
  <2> HIDE DEF Good
  <2>4. k \in 1..N /\ k - 1 \in 0..N /\ k - 1 < k
    BY <1>1, <1>5, <2>3
  <2>5. Good(k - 1)
    BY <2>2, <2>4
  <2> QED BY <1>6, <2>3, <2>4, <2>5
<1> QED BY <1>1, <1>7 DEF Has

-----------------------------------------------------------------------------
(* The invariant *)

\* The types; Name never leaves the list and no tick is due while one reads.
Monitoring ==
  /\ log \in [Stacks -> Seq(Event)] /\ hit \subseteq Faults
  /\ active \in BOOLEAN /\ timer \in BOOLEAN
  /\ list \in Seq(Stacks \cup {Name}) /\ Contains(list, Name)
  /\ cur \in Nat /\ polls \in Nat /\ cur <= polls /\ polls <= MaxPolls
  /\ done \subseteq Stacks
  /\ seen \in [Stacks -> SUBSET Nat] /\ \A s \in Stacks : seen[s] \subseteq OwnOf(s)
  /\ reads \in [Readers -> [state : {"idle", "reading", "read"}, stack : Stacks,
                            at : Nat, batch : SUBSET Nat]]
  /\ timer => reads["tick"].state = "idle"
  /\ stop \in {"no", "waiting", "final", "over", "died"}
  /\ buffer \in [Stacks -> Seq(Nat)] /\ shown \in [Stacks -> Seq(Nat)]

\* Reader r is reading the history of stack s.
Reads(r, s) == reads[r].state = "reading" /\ reads[r].stack = s

\* A read comes down from the end of the history: it has recorded all that is
\* recorded above the place that it is at.
Downwards ==
  \A r \in Readers :
    /\ reads[r].at <= Len(log[reads[r].stack])
    /\ reads[r].batch \subseteq seen[reads[r].stack]
    /\ \A i \in seen[reads[r].stack] :
         reads[r].state = "reading" => (i \in reads[r].batch <=> reads[r].at < i)

\* Whatever speaks of the end of a nested stack, its own history does; only a
\* rerun follows that.
Endings ==
  \A n \in Nested :
    /\ \A t \in Stacks : Contains(log[t], Ends(n)) => Contains(log[n], Ends(n))
    /\ n \in done => Contains(log[n], Ends(n))
    /\ "rerun" \notin hit /\ Contains(log[n], Ends(n)) => Says(log[n], n) = "ends"

\* The event at place j of stack s has been dealt with.
Passed(s, j) ==
  /\ log[s][j].kind = "own" => j \in seen[s]
  /\ \A n \in Nested :
       log[s][j] = Begins(n) => Contains(list, n) \/ Contains(log[n], Ends(n))

\* ... or is still to come in the read that recorded the one at place i.
ToCome(s, j, i) ==
  \E r \in Readers : Reads(r, s) /\ j <= reads[r].at /\ i \in reads[r].batch

\* Nothing that comes before a recorded event is forgotten.
Covered ==
  {"throttle", "error"} \cap hit = {} =>
    \A s \in Stacks : \A i \in seen[s], j \in Nat \ {0} :
      j <= i => Passed(s, j) \/ ToCome(s, j, i)

InPrinter(s) == Range(shown[s]) \cup Range(buffer[s])

\* What the printer has to print of a stack is newer than what it has printed;
\* it has neither from the read in progress.
Printing ==
  \A s \in Stacks :
    /\ IsInjective(buffer[s])
    /\ \A i \in Range(shown[s]), j \in Range(buffer[s]) : i < j
    /\ \A i \in InPrinter(s) : /\ i \in seen[s]
                               /\ \A r \in Readers : Reads(r, s) => i \notin reads[r].batch

MonitorInv == ReadersInv /\ Monitoring /\ Downwards /\ Endings /\ Covered /\ Printing

\* The monitor starts with nothing recorded.
LEMMA MonitorInit == Init => MonitorInv
<1> SUFFICES ASSUME Init PROVE MonitorInv
  OBVIOUS
<1>1. Name \notin Stacks /\ Name \notin Nested /\ Root \notin Nested
  BY NamesDiffer DEF Stacks, Name, Root
<1>2. Begins(Root) \in Event /\ Root \in Stacks
  BY DEF Begins, Event, Kinds, Stacks
<1>3. log \in [Stacks -> Seq(Event)]
  BY <1>2 DEF Init
<1>4. Contains(list, Name) /\ list \in Seq(Stacks \cup {Name})
  BY DEF Init, Contains
<1>5. reads \in [Readers -> [state : {"idle", "reading", "read"}, stack : Stacks,
                             at : Nat, batch : SUBSET Nat]]
  BY <1>2 DEF Init, Idle
<1>6. \A r \in Readers : reads[r] = Idle
  BY DEF Init
<1>7. Monitoring
  BY <1>3, <1>4, <1>5, <1>6, MonitorAssumption DEF Init, Monitoring, Readers, Idle
<1>8. Downwards
  BY <1>2, <1>3, <1>6 DEF Downwards, Init, Idle
<1>9. \A n \in Nested, t \in Stacks : ~Contains(log[t], Ends(n))
  BY DEF Init, Contains, Ends, Begins
<1>10. Endings
  BY <1>9 DEF Endings, Init, Stacks
<1>11. Covered
  BY DEF Covered, Init
<1>12. \A s \in Stacks : buffer[s] = <<>> /\ shown[s] = <<>>
  BY DEF Init
<1>13. \A s \in Stacks : Range(shown[s]) = {} /\ Range(buffer[s]) = {}
  BY <1>12 DEF Range
<1>14. Printing
  BY <1>12, <1>13 DEF Printing, InPrinter, IsInjective
<1> QED BY <1>7, <1>8, <1>10, <1>11, <1>14, ReadersInit DEF MonitorInv

-----------------------------------------------------------------------------
(* CloudFormation writes *)

\* What the histories gain at their ends disturbs nothing that the monitor knows.
LEMMA HistoryGrows ==
  ASSUME MonitorInv, UNCHANGED monVars, hit \subseteq hit', hit' \subseteq Faults,
         log' \in [Stacks -> Seq(Event)],
         \A t \in Stacks : /\ Len(log[t]) <= Len(log'[t])
                           /\ \A j \in 1..Len(log[t]) : log'[t][j] = log[t][j]
  PROVE  Monitoring' /\ Downwards' /\ Covered' /\ Printing'
<1>1. \A t \in Stacks : log[t] \in Seq(Event) /\ Len(log[t]) \in Nat /\ Len(log'[t]) \in Nat
  BY DEF MonitorInv, Monitoring
<1>2. UNCHANGED <<active, timer, list, cur, done, seen, reads, stop, buffer, shown, polls>>
  BY DEF monVars
<1>3. \A t \in Stacks : OwnOf(t) \subseteq OwnOf(t)'
  <2> SUFFICES ASSUME NEW t \in Stacks, NEW i \in OwnOf(t) PROVE i \in OwnOf(t)'
    OBVIOUS
  <2>1. i \in 1..Len(log[t]) /\ log[t][i].kind = "own"
    BY <1>1 DEF OwnOf
  <2>2. i \in 1..Len(log'[t]) /\ log'[t][i].kind = "own"
    BY <1>1, <2>1
  <2> QED BY <2>2 DEF OwnOf
<1>4. Monitoring'
  BY <1>2, <1>3 DEF MonitorInv, Monitoring
<1>5. Downwards'
  <2> SUFFICES ASSUME NEW r \in Readers
               PROVE  reads[r].at <= Len(log'[reads[r].stack])
    BY <1>2 DEF MonitorInv, Downwards
  <2>1. reads[r].stack \in Stacks /\ reads[r].at \in Nat /\ reads[r].at <= Len(log[reads[r].stack])
    BY DEF MonitorInv, Monitoring, Downwards
  <2> QED BY <2>1, <1>1
<1>6. \A t \in Stacks : \A e : Contains(log[t], e) => Contains(log'[t], e)
  BY <1>1 DEF Contains
<1>7. Covered'
  <2> SUFFICES ASSUME {"throttle", "error"} \cap hit' = {}, NEW s \in Stacks,
                      NEW i \in seen[s], NEW j \in Nat \ {0}, j <= i
               PROVE  Passed(s, j)' \/ ToCome(s, j, i)'
    BY <1>2 DEF Covered
  <2>1. Passed(s, j) \/ ToCome(s, j, i)
    BY DEF MonitorInv, Covered
  <2>2. ToCome(s, j, i)' <=> ToCome(s, j, i)
    BY <1>2 DEF ToCome, Reads
  <2>3. j \in 1..Len(log[s])
    <3>1. i \in OwnOf(s)
      BY DEF MonitorInv, Monitoring
    <3>2. i \in 1..Len(log[s])
      BY <1>1, <3>1 DEF OwnOf
    <3> QED BY <3>2, <1>1
  <2>4. Passed(s, j) => Passed(s, j)'
    BY <1>2, <1>6, <2>3 DEF Passed, Stacks
  <2> QED BY <2>1, <2>2, <2>4
<1>8. Printing'
  BY <1>2 DEF MonitorInv, Printing, InPrinter, Reads
<1> QED BY <1>4, <1>5, <1>7, <1>8

\* An event is written at the end of a history.
LEMMA WriteKeeps ==
  ASSUME MonitorInv, NEW s \in Stacks, NEW e \in Event, Writes(s, e), Endings'
  PROVE  Monitoring' /\ Downwards' /\ Endings' /\ Covered' /\ Printing'
<1>1. log \in [Stacks -> Seq(Event)] /\ hit \subseteq Faults
  BY DEF MonitorInv, Monitoring
<1>2. log' = [log EXCEPT ![s] = Append(@, e)] /\ UNCHANGED hit /\ UNCHANGED monVars
  BY DEF Writes
<1>3. /\ Append(log[s], e) \in Seq(Event)
      /\ Len(Append(log[s], e)) = Len(log[s]) + 1
      /\ \A i \in 1..Len(log[s]) : Append(log[s], e)[i] = log[s][i]
  BY <1>1, AppendTells
<1>4. log' \in [Stacks -> Seq(Event)]
  BY <1>1, <1>2, <1>3
<1>5. \A t \in Stacks : /\ Len(log[t]) <= Len(log'[t])
                        /\ \A j \in 1..Len(log[t]) : log'[t][j] = log[t][j]
  <2> SUFFICES ASSUME NEW t \in Stacks
               PROVE  /\ Len(log[t]) <= Len(log'[t])
                      /\ \A j \in 1..Len(log[t]) : log'[t][j] = log[t][j]
    OBVIOUS
  <2>1. CASE t = s
    <3>1. log'[t] = Append(log[s], e)
      BY <1>1, <1>2, <2>1
    <3>2. Len(log[s]) \in Nat
      BY <1>1
    <3> QED BY <1>3, <2>1, <3>1, <3>2
  <2>2. CASE t # s
    <3>1. log'[t] = log[t] /\ Len(log[t]) \in Nat
      BY <1>1, <1>2, <2>2
    <3> QED BY <3>1
  <2> QED BY <2>1, <2>2
<1> QED BY <1>1, <1>2, <1>4, <1>5, HistoryGrows

\* An event of a resource or of the root stack says nothing of nested stacks.
LEMMA OthersKeepEndings ==
  ASSUME MonitorInv, NEW s \in Stacks, NEW e \in Event, Writes(s, e),
         e.kind = "own" \/ e.of = Root
  PROVE  Endings'
<1>1. log \in [Stacks -> Seq(Event)]
  BY DEF MonitorInv, Monitoring
<1>2. log' = [log EXCEPT ![s] = Append(@, e)] /\ UNCHANGED <<hit, done>>
  BY DEF Writes, monVars
<1>3. \A n \in Nested : e # Ends(n) /\ (e.of # n \/ e.kind = "own") /\ n \in Stacks
  BY NamesDiffer DEF Ends, Stacks
<1>4. ASSUME NEW n \in Nested, NEW t \in Stacks
      PROVE  Contains(log'[t], Ends(n)) <=> Contains(log[t], Ends(n))
  <2>1. CASE t = s
    <3>1. log'[t] = Append(log[s], e)
      BY <1>1, <1>2, <2>1
    <3>2. \A f : Contains(Append(log[s], e), f) <=> (Contains(log[s], f) \/ f = e)
      BY <1>1, AppendTells
    <3> QED BY <1>3, <2>1, <3>1, <3>2
  <2>2. CASE t # s
    BY <1>1, <1>2, <2>2
  <2> QED BY <2>1, <2>2
<1>5. ASSUME NEW n \in Nested
      PROVE  Says(log'[n], n) = Says(log[n], n)
  <2>1. n \in Stacks /\ (e.of # n \/ e.kind = "own")
    BY <1>3
  <2>2. CASE n = s
    <3>1. log'[n] = Append(log[n], e)
      BY <1>1, <1>2, <2>1, <2>2
    <3>2. log[n] \in Seq(Event)
      BY <1>1, <2>1
    <3>3. Says(Append(log[n], e), n) = Says(log[n], n)
      BY <2>1, <3>2, AppendSays
    <3> QED BY <3>1, <3>3
  <2>3. CASE n # s
    BY <1>1, <1>2, <2>1, <2>3
  <2> QED BY <2>2, <2>3
<1>6. Endings
  BY DEF MonitorInv
<1> QED BY <1>2, <1>3, <1>4, <1>5, <1>6 DEF Endings

\* LastSaid in terms of the history.
LEMMA LastSaidSays ==
  ASSUME NEW t, NEW s
  PROVE  LastSaid(t, s) = Says(log[t], s)
BY DEF LastSaid, Says, About

\* A nested stack ends, in its own history or later in the root stack's.
LEMMA EndsKeepsEndings ==
  ASSUME MonitorInv, NEW m \in Nested, NEW s \in {m, Root}, Writes(s, Ends(m)),
         s = Root => Contains(log[m], Ends(m))
  PROVE  Endings'
<1>1. log \in [Stacks -> Seq(Event)]
  BY DEF MonitorInv, Monitoring
<1>2. log' = [log EXCEPT ![s] = Append(@, Ends(m))] /\ UNCHANGED <<hit, done>>
  BY DEF Writes, monVars
<1>3. s \in Stacks /\ m \in Stacks /\ m # Root /\ \A n \in Nested : n \in Stacks
  BY NamesDiffer DEF Stacks
<1>4. Ends(m) \in Event /\ Ends(m).of = m /\ Ends(m).kind = "ends"
  BY <1>3 DEF Ends, Event, Kinds
<1>5. ASSUME NEW n \in Nested, NEW t \in Stacks
      PROVE  Contains(log'[t], Ends(n)) <=> Contains(log[t], Ends(n)) \/ (t = s /\ n = m)
  <2>1. Ends(n) = Ends(m) <=> n = m
    BY DEF Ends
  <2>2. CASE t = s
    <3>1. log'[t] = Append(log[s], Ends(m))
      BY <1>1, <1>2, <2>2
    <3>2. \A f : Contains(Append(log[s], Ends(m)), f) <=> (Contains(log[s], f) \/ f = Ends(m))
      BY <1>1, <1>3, <1>4, AppendTells
    <3> QED BY <2>1, <2>2, <3>1, <3>2
  <2>3. CASE t # s
    BY <1>1, <1>2, <2>3
  <2> QED BY <2>2, <2>3
<1>6. ASSUME NEW n \in Nested
      PROVE  Says(log'[n], n) = Says(log[n], n) \/ (n = m /\ Says(log'[n], n) = "ends")
  <2>1. n \in Stacks
    BY <1>3
  <2>2. CASE n # s
    BY <1>1, <1>2, <2>1, <2>2
  <2>3. CASE n = s
    <3>1. n = m
      BY <2>3, NamesDiffer
    <3>2. log'[n] = Append(log[n], Ends(m)) /\ log[n] \in Seq(Event)
      BY <1>1, <1>2, <2>1, <2>3
    <3>3. Says(Append(log[n], Ends(m)), n) = "ends"
      BY <1>4, <2>1, <3>1, <3>2, AppendSays
    <3> QED BY <3>1, <3>2, <3>3
  <2> QED BY <2>2, <2>3
<1>7. Endings
  BY DEF MonitorInv
<1>8. \A n \in Nested : Contains(log[n], Ends(n)) => Contains(log'[n], Ends(n))
  BY <1>3, <1>5
<1>9. Contains(log'[m], Ends(m))
  BY <1>3, <1>5
<1>10. ASSUME NEW n \in Nested
       PROVE  /\ \A t \in Stacks : Contains(log'[t], Ends(n)) => Contains(log'[n], Ends(n))
              /\ n \in done' => Contains(log'[n], Ends(n))
              /\ "rerun" \notin hit' /\ Contains(log'[n], Ends(n)) => Says(log'[n], n) = "ends"
  <2>1. \A t \in Stacks : Contains(log'[t], Ends(n)) => Contains(log'[n], Ends(n))
    BY <1>5, <1>7, <1>8, <1>9 DEF Endings
  <2>2. n \in done' => Contains(log'[n], Ends(n))
    BY <1>2, <1>7, <1>8 DEF Endings
  <2>3. ASSUME "rerun" \notin hit', Contains(log'[n], Ends(n))
        PROVE  Says(log'[n], n) = "ends"
    <3>1. CASE Contains(log[n], Ends(n))
      <4>1. Says(log[n], n) = "ends"
        BY <1>2, <1>7, <2>3, <3>1 DEF Endings
      <4> QED BY <1>6, <4>1
    <3>2. CASE n = s /\ n = m
      <4>1. log'[n] = Append(log[n], Ends(m)) /\ log[n] \in Seq(Event)
        BY <1>1, <1>2, <1>3, <3>2
      <4>2. Says(Append(log[n], Ends(m)), n) = "ends"
        BY <1>3, <1>4, <3>2, <4>1, AppendSays
      <4> QED BY <4>1, <4>2
    <3> QED BY <1>3, <1>5, <2>3, <3>1, <3>2
  <2> QED BY <2>1, <2>2, <2>3
<1> QED BY <1>10 DEF Endings

\* A nested stack begins, in its own history and in the root stack's.
LEMMA NestedBeginsKeeps ==
  ASSUME MonitorInv, NEW m \in Nested, NestedBegins(m)
  PROVE  Monitoring' /\ Downwards' /\ Endings' /\ Covered' /\ Printing'
<1> DEFINE e == Begins(m)
<1>1. log \in [Stacks -> Seq(Event)] /\ hit \subseteq Faults /\ Endings
  BY DEF MonitorInv, Monitoring
<1>2. m \in Stacks /\ Root \in Stacks /\ m # Root /\ \A n \in Nested : n \in Stacks /\ n # Root
  BY NamesDiffer DEF Stacks
<1>3. e \in Event /\ \A n \in Nested : e # Ends(n)
  BY <1>2 DEF Begins, Ends, Event, Kinds
<1>4. /\ log' = [log EXCEPT ![m] = Append(@, e), ![Root] = Append(@, e)]
      /\ UNCHANGED monVars
  BY DEF NestedBegins
<1>5. /\ hit \subseteq hit' /\ hit' \subseteq Faults
      /\ LastSaid(m, m) = "nothing" \/ "rerun" \in hit'
  BY <1>1 DEF NestedBegins, MayHappen
<1> HIDE DEF e
<1>6. \A t \in Stacks : log'[t] = IF t \in {m, Root} THEN Append(log[t], e) ELSE log[t]
  BY <1>1, <1>2, <1>4
<1>7. ASSUME NEW t \in Stacks
      PROVE  /\ log'[t] \in Seq(Event)
             /\ Len(log[t]) <= Len(log'[t])
             /\ \A j \in 1..Len(log[t]) : log'[t][j] = log[t][j]
             /\ \A n \in Nested : Contains(log'[t], Ends(n)) <=> Contains(log[t], Ends(n))
  <2>1. log[t] \in Seq(Event) /\ Len(log[t]) \in Nat
    BY <1>1
  <2>2. CASE t \in {m, Root}
    <3>1. log'[t] = Append(log[t], e)
      BY <1>6, <2>2
    <3>2. /\ Append(log[t], e) \in Seq(Event)
          /\ Len(Append(log[t], e)) = Len(log[t]) + 1
          /\ \A i \in 1..Len(log[t]) : Append(log[t], e)[i] = log[t][i]
      BY <1>3, <2>1, AppendTells
    <3>3. \A f : Contains(Append(log[t], e), f) <=> (Contains(log[t], f) \/ f = e)
      BY <1>3, <2>1, AppendTells
    <3> QED BY <1>3, <2>1, <3>1, <3>2, <3>3
  <2>3. CASE t \notin {m, Root}
    BY <1>6, <2>1, <2>3
  <2> QED BY <2>2, <2>3
<1>8. log' \in [Stacks -> Seq(Event)]
  <2>1. log' = [t \in Stacks |-> log'[t]]
    BY <1>1, <1>4
  <2> QED BY <1>7, <2>1
<1>9. Monitoring' /\ Downwards' /\ Covered' /\ Printing'
  <2>1. \A t \in Stacks : /\ Len(log[t]) <= Len(log'[t])
                          /\ \A j \in 1..Len(log[t]) : log'[t][j] = log[t][j]
    BY <1>7
  <2> QED BY <1>4, <1>5, <1>8, <2>1, HistoryGrows
<1>10. ASSUME NEW n \in Nested, "rerun" \notin hit', Contains(log'[n], Ends(n))
       PROVE  Says(log'[n], n) = "ends"
  <2>1. Contains(log[n], Ends(n)) /\ log[n] \in Seq(Event)
    BY <1>1, <1>2, <1>7, <1>10
  <2>2. Says(log[n], n) = "ends"
    BY <1>1, <1>5, <1>10, <2>1 DEF Endings
  <2>3. n # m
    <3> SUFFICES ASSUME n = m PROVE FALSE
      OBVIOUS
    <3>1. Says(log[m], m) = "nothing"
      BY <1>5, <1>10, LastSaidSays
    <3> QED BY <2>2, <3>1
  <2>4. log'[n] = log[n]
    BY <1>2, <1>6, <2>3
  <2> QED BY <2>2, <2>4
<1>11. done' = done
  BY <1>4 DEF monVars
<1>12. Endings'
  BY <1>1, <1>2, <1>7, <1>10, <1>11 DEF Endings
<1> QED BY <1>9, <1>12

\* Every write of CloudFormation keeps the invariant.
LEMMA WritesKeep ==
  ASSUME MonitorInv,
         \/ \E s \in Stacks : ResourceEvent(s)
         \/ \E n \in Nested : NestedBegins(n) \/ NestedEnds(n) \/ NestedEndSeen(n)
         \/ RootEnds
  PROVE  Monitoring' /\ Downwards' /\ Endings' /\ Covered' /\ Printing'
<1>1. log \in [Stacks -> Seq(Event)] /\ Root \in Stacks /\ \A n \in Nested : n \in Stacks
  BY DEF MonitorInv, Monitoring, Stacks
<1>2. \A s \in Stacks : Own(s) \in Event /\ Ends(s) \in Event
  BY DEF Own, Ends, Event, Kinds
<1>3. ASSUME NEW s \in Stacks, ResourceEvent(s)
      PROVE  Monitoring' /\ Downwards' /\ Endings' /\ Covered' /\ Printing'
  <2>1. Writes(s, Own(s)) /\ Own(s).kind = "own" /\ Own(s) \in Event
    BY <1>2, <1>3 DEF ResourceEvent, Own
  <2>2. Endings'
    BY <2>1, OthersKeepEndings
  <2> QED BY <2>1, <2>2, WriteKeeps
<1>4. ASSUME NEW n \in Nested, NestedEnds(n)
      PROVE  Monitoring' /\ Downwards' /\ Endings' /\ Covered' /\ Printing'
  <2>1. Writes(n, Ends(n)) /\ Ends(n) \in Event /\ n \in Stacks /\ n \in {n, Root} /\ n # Root
    BY <1>1, <1>2, <1>4, NamesDiffer DEF NestedEnds
  <2>2. Endings'
    BY <2>1, EndsKeepsEndings
  <2> QED BY <2>1, <2>2, WriteKeeps
<1>5. ASSUME NEW n \in Nested, NestedEndSeen(n)
      PROVE  Monitoring' /\ Downwards' /\ Endings' /\ Covered' /\ Printing'
  <2>1. Writes(Root, Ends(n)) /\ Ends(n) \in Event /\ Root \in {n, Root} /\ n \in Stacks
    BY <1>1, <1>2, <1>5 DEF NestedEndSeen
  <2>2. Contains(log[n], Ends(n))
    <3>1. Says(log[n], n) = "ends" /\ log[n] \in Seq(Event)
      BY <1>1, <1>5, LastSaidSays DEF NestedEndSeen
    <3> QED BY <2>1, <3>1, SaysFacts
  <2>3. Endings'
    BY <2>1, <2>2, EndsKeepsEndings
  <2> QED BY <1>1, <2>1, <2>3, WriteKeeps
<1>6. CASE RootEnds
  <2>1. Writes(Root, Ends(Root)) /\ Ends(Root).of = Root /\ Ends(Root) \in Event
    BY <1>1, <1>2, <1>6 DEF RootEnds, Ends
  <2>2. Endings'
    BY <1>1, <2>1, OthersKeepEndings
  <2> QED BY <1>1, <2>1, <2>2, WriteKeeps
<1> QED BY <1>3, <1>4, <1>5, <1>6, NestedBeginsKeeps

-----------------------------------------------------------------------------
(* A page is taken *)

\* The page lies between the end of what is left to read and a recorded event,
\* or the beginning of the history, if the read finishes with it.
LEMMA PageLies ==
  ASSUME MonitorInv, NEW s \in Stacks, NEW top \in 0..Len(log[s])
  PROVE  /\ PageFrom(s, top) \in 1..top + 1
         /\ \A i \in seen[s] : i <= top => i < PageFrom(s, top)
         /\ Finished(s, top) => PageFrom(s, top) = 1 \/ PageFrom(s, top) - 1 \in seen[s]
<1> DEFINE K == Known(s, top)
           p == top - PageSize + 1
           from == PageFrom(s, top)
<1>1. /\ seen[s] \in SUBSET Nat /\ PageSize \in Nat \ {0} /\ top \in Nat
      /\ seen[s] \subseteq 1..Len(log[s]) /\ Len(log[s]) \in Nat
  BY MonitorAssumption DEF MonitorInv, Monitoring, OwnOf
<1>2. \A i \in seen[s] : i \in Nat \ {0}
  BY <1>1
<1>3. K = {i \in seen[s] : top - PageSize < i /\ i <= top}
  BY DEF Known
<1>4. CASE K # {}
  <2>1. K \in SUBSET Nat /\ \A i \in K : i <= top
    BY <1>1, <1>3
  <2> HIDE DEF K
  <2>2. Max(K) \in K /\ \A i \in K : i <= Max(K)
    BY <1>1, <1>4, <2>1, MaxOfPlaces
  <2>3. PICK x \in K : x = Max(K)
    BY <2>2
  <2>4. from = x + 1
    BY <1>4, <2>3 DEF PageFrom, K
  <2> HIDE DEF from
  <2>5. x \in seen[s] /\ top - PageSize < x /\ x <= top /\ x \in Nat \ {0}
    BY <1>2, <1>3, <2>3
  <2>6. \A i \in seen[s] : i <= top => i <= x
    <3> SUFFICES ASSUME NEW i \in seen[s], i <= top PROVE i <= x
      OBVIOUS
    <3>1. CASE i \in K
      BY <2>2, <2>3, <3>1
    <3>2. CASE i \notin K
      BY <1>1, <1>2, <1>3, <2>5, <3>2
    <3> QED BY <3>1, <3>2
  <2>7. from \in 1..top + 1
    BY <1>1, <2>4, <2>5
  <2>8. \A i \in seen[s] : i <= top => i < from
    BY <1>2, <2>4, <2>5, <2>6
  <2>9. from - 1 \in seen[s]
    BY <2>4, <2>5
  <2> QED BY <2>7, <2>8, <2>9 DEF from
<1>5. CASE K = {}
  <2>1. from = Max({1, p})
    BY <1>5 DEF PageFrom
  <2>2. p \in Int
    BY <1>1
  <2>3. /\ p <= 1 => Max({1, p}) = 1
        /\ 1 < p => Max({1, p}) = p
    <3> HIDE DEF p
    <3>1. CASE p <= 1
      <4>1. \E x \in {1, p} : \A y \in {1, p} : x >= y
        BY <2>2, <3>1
      <4>2. Max({1, p}) \in {1, p} /\ \A y \in {1, p} : Max({1, p}) >= y
        BY <4>1 DEF Max
      <4> QED BY <2>2, <3>1, <4>2
    <3>2. CASE 1 < p
      <4>1. \E x \in {1, p} : \A y \in {1, p} : x >= y
        BY <2>2, <3>2
      <4>2. Max({1, p}) \in {1, p} /\ \A y \in {1, p} : Max({1, p}) >= y
        BY <4>1 DEF Max
      <4> QED BY <2>2, <3>2, <4>2
    <3> QED BY <2>2, <3>1, <3>2
  <2>4. \A i \in seen[s] : i <= top => i <= top - PageSize
    <3> SUFFICES ASSUME NEW i \in seen[s], i <= top PROVE i <= top - PageSize
      OBVIOUS
    <3>1. i \notin K /\ i \in Nat
      BY <1>2, <1>5
    <3> QED BY <1>1, <1>3, <3>1
  <2>5. Finished(s, top) => p <= 1
    BY <1>1, <1>5 DEF Finished
  <2> HIDE DEF from
  <2>6. CASE p <= 1
    <3>1. from = 1
      BY <2>1, <2>3, <2>6
    <3>2. \A i \in seen[s] : i <= top => i < 1
      BY <1>1, <1>2, <2>4, <2>6
    <3> QED BY <1>1, <3>1, <3>2 DEF from
  <2>7. CASE 1 < p
    <3>1. from = p
      BY <2>1, <2>3, <2>7
    <3>2. \A i \in seen[s] : i <= top => i < p
      BY <1>1, <1>2, <2>4
    <3> QED BY <1>1, <2>5, <2>7, <3>1, <3>2 DEF from
  <2> QED BY <2>2, <2>6, <2>7
<1> QED BY <1>4, <1>5

\* What reader r takes from the history: the places of its next page, and those
\* of them that are recorded.
PagePlaces(r) == PageFrom(reads[r].stack, reads[r].at)..reads[r].at
Fresh(r) == OwnOf(reads[r].stack) \cap PagePlaces(r)

\* A reader that is reading is the only one.
LEMMA OnlyReader ==
  ASSUME MonitorInv, NEW r \in Readers, reads[r].state = "reading"
  PROVE  \A q \in Readers : q # r => reads[q].state # "reading"
BY DEF MonitorInv, ReadersInv, Readers

\* The types of a read.
LEMMA ReadTyped ==
  ASSUME MonitorInv, NEW r \in Readers
  PROVE  /\ reads[r].stack \in Stacks
         /\ reads[r].at \in 0..Len(log[reads[r].stack])
         /\ reads[r].batch \in SUBSET Nat
         /\ reads[r].batch \subseteq seen[reads[r].stack]
         /\ seen[reads[r].stack] \subseteq OwnOf(reads[r].stack)
         /\ log[reads[r].stack] \in Seq(Event)
         /\ reads[r] = [state |-> reads[r].state, stack |-> reads[r].stack,
                        at |-> reads[r].at, batch |-> reads[r].batch]
<1>1. reads[r] \in [state : {"idle", "reading", "read"}, stack : Stacks,
                    at : Nat, batch : SUBSET Nat]
  BY DEF MonitorInv, Monitoring
<1>2. reads[r].at <= Len(log[reads[r].stack]) /\ reads[r].batch \subseteq seen[reads[r].stack]
  BY DEF MonitorInv, Downwards
<1>3. \A s \in Stacks : log[s] \in Seq(Event) /\ seen[s] \subseteq OwnOf(s)
  BY DEF MonitorInv, Monitoring
<1>4. Len(log[reads[r].stack]) \in Nat
  BY <1>1, <1>3
<1> QED BY <1>1, <1>2, <1>3, <1>4

\* What a page does to the records and to the read.
LEMMA PageRecords ==
  ASSUME MonitorInv, NEW r \in Readers, TakesPage(r)
  PROVE  /\ reads[r].state = "reading"
         /\ seen' = [seen EXCEPT ![reads[r].stack] = @ \cup Fresh(r)]
         /\ \E st \in {"reading", "read"} :
              /\ reads' = [reads EXCEPT ![r] =
                   [state |-> st, stack |-> reads[r].stack,
                    at |-> PageFrom(reads[r].stack, reads[r].at) - 1,
                    batch |-> reads[r].batch \cup Fresh(r)]]
              /\ st = "read" => Finished(reads[r].stack, reads[r].at)
<1> DEFINE s == reads[r].stack
           top == reads[r].at
           st == IF Finished(s, top) THEN "read" ELSE reads[r].state
           R == [state |-> st, stack |-> s, at |-> PageFrom(s, top) - 1,
                 batch |-> reads[r].batch \cup Fresh(r)]
<1>1. reads[r].state = "reading" /\ seen' = [seen EXCEPT ![s] = @ \cup Fresh(r)]
  BY DEF TakesPage, Recorded, Fresh, PagePlaces
<1>2. reads' = [reads EXCEPT ![r].at = PageFrom(s, top) - 1,
                             ![r].batch = @ \cup Fresh(r),
                             ![r].state = IF Finished(s, top) THEN "read" ELSE @]
  BY DEF TakesPage, Fresh, PagePlaces
<1>3. DOMAIN reads = Readers
  BY DEF MonitorInv, ReadersInv
<1>4. reads[r] = [state |-> reads[r].state, stack |-> s, at |-> top, batch |-> reads[r].batch]
  BY ReadTyped
<1>5. reads' = [q \in Readers |-> IF q = r
         THEN [reads[r] EXCEPT !.at = PageFrom(s, top) - 1, !.batch = @ \cup Fresh(r),
                               !.state = IF Finished(s, top) THEN "read" ELSE @]
         ELSE reads[q]]
  BY <1>2, <1>3
<1>6. [reads[r] EXCEPT !.at = PageFrom(s, top) - 1, !.batch = @ \cup Fresh(r),
                       !.state = IF Finished(s, top) THEN "read" ELSE @] = R
  <2>1. PICK x : x = reads[r]
    OBVIOUS
  <2>2. PICK p : p = PageFrom(s, top) - 1
    OBVIOUS
  <2>3. PICK f : f = Fresh(r)
    OBVIOUS
  <2>4. PICK y : y = [x EXCEPT !.at = p, !.batch = @ \cup f]
    OBVIOUS
  <2>5. x = [state |-> x.state, stack |-> x.stack, at |-> x.at, batch |-> x.batch]
    BY <1>4, <2>1
  <2>6. y = [state |-> x.state, stack |-> x.stack, at |-> p, batch |-> x.batch \cup f]
    BY <2>4, <2>5
  <2>7. \A w : [y EXCEPT !.state = w]
                 = [state |-> w, stack |-> x.stack, at |-> p, batch |-> x.batch \cup f]
    BY <2>6
  <2>8. y.state = x.state
    BY <2>6
  <2> QED BY <2>1, <2>2, <2>3, <2>4, <2>7, <2>8
<1> HIDE DEF R
<1>7. reads' = [reads EXCEPT ![r] = R]
  BY <1>3, <1>5, <1>6
<1>8. st \in {"reading", "read"} /\ (st = "read" => Finished(s, top))
  BY <1>1
<1> HIDE DEF st
<1> QED BY <1>1, <1>7, <1>8 DEF R

\* What a page does to the list and the completed stacks.
LEMMA PageLists ==
  ASSUME MonitorInv, NEW r \in Readers, TakesPage(r)
  PROVE  /\ list' \in Seq(Stacks \cup {Name}) /\ Contains(list', Name)
         /\ done' \subseteq Stacks
         /\ \A n \in Nested :
              /\ n \in done' => Contains(log[n], Ends(n))
              /\ Contains(list, n) => Contains(list', n) \/ Contains(log[n], Ends(n))
              /\ \A j \in PagePlaces(r) : log[reads[r].stack][j] = Begins(n) =>
                   Contains(list', n) \/ Contains(log[n], Ends(n))
<1> DEFINE s == reads[r].stack
           top == reads[r].at
           from == PageFrom(s, top)
           part == SubSeq(log[s], from, top)
           page == Reverse(part)
           m == AfterEvents(page)
           L == Len(page)
<1>1. s \in Stacks /\ top \in 0..Len(log[s]) /\ log[s] \in Seq(Event) /\ Len(log[s]) \in Nat
  <2>1. s \in Stacks /\ top \in 0..Len(log[s]) /\ log[s] \in Seq(Event)
    BY ReadTyped
  <2> HIDE DEF s, top
  <2> QED BY <2>1
<1>2. from \in 1..top + 1
  <2> HIDE DEF s, top
  <2> QED BY <1>1, PageLies
<1>3. list' = m.list /\ done' = m.done
  BY DEF TakesPage
<1>4. PagePlaces(r) = from..top
  BY DEF PagePlaces
<1> HIDE DEF s, top, from
<1>5. /\ part \in Seq(Event) /\ Len(part) = top - from + 1
      /\ \A i \in 1..top - from + 1 : part[i] = log[s][from + i - 1]
  <2>1. \A i \in from..top : i \in 1..Len(log[s])
    BY <1>1, <1>2
  <2>2. part \in Seq(Event)
    BY <1>1, <1>2
  <2>3. Len(part) = top - from + 1 /\ \A i \in 1..top - from + 1 : part[i] = log[s][from + i - 1]
    BY <1>1, <1>2
  <2> QED BY <2>2, <2>3
<1> HIDE DEF part
<1>6. /\ page \in Seq(Event) /\ L = top - from + 1
      /\ \A i \in 1..L : page[i] = log[s][top - i + 1] /\ top - i + 1 \in from..top
  <2>1. top - from + 1 \in Nat
    BY <1>1, <1>2
  <2>2. page = [i \in 1..Len(part) |-> part[(Len(part) - i) + 1]]
    BY DEF Reverse
  <2>3. \A i \in 1..top - from + 1 : /\ (top - from + 1 - i) + 1 \in 1..top - from + 1
                                     /\ from + ((top - from + 1 - i) + 1) - 1 = top - i + 1
                                     /\ top - i + 1 \in from..top
    BY <1>1, <1>2
  <2>4. \A i \in 1..top - from + 1 : page[i] = log[s][top - i + 1] /\ page[i] \in Event
    <3> SUFFICES ASSUME NEW i \in 1..top - from + 1
                 PROVE  page[i] = log[s][top - i + 1] /\ page[i] \in Event
      OBVIOUS
    <3>1. page[i] = part[(top - from + 1 - i) + 1]
      <4>1. i \in 1..Len(part)
        BY <1>5
      <4>2. page[i] = part[(Len(part) - i) + 1]
        BY <2>2, <4>1
      <4>3. Len(part) = top - from + 1
        BY <1>5
      <4> HIDE DEF page
      <4> QED BY <1>1, <1>2, <4>2, <4>3
    <3> HIDE DEF page
    <3>2. PICK k \in 1..top - from + 1 :
            k = (top - from + 1 - i) + 1 /\ from + k - 1 = top - i + 1
      BY <2>3
    <3>3. part[k] = log[s][from + k - 1] /\ part[k] \in Event
      BY <1>5, <3>2
    <3> QED BY <3>1, <3>2, <3>3
  <2>5. page \in [1..top - from + 1 -> Event]
    <3>1. page = [i \in 1..Len(part) |-> page[i]]
      BY <2>2
    <3> HIDE DEF page
    <3> QED BY <1>5, <2>4, <3>1
  <2>6. page \in Seq(Event)
    <3> HIDE DEF page
    <3> QED BY <2>1, <2>5, IsASeq
  <2>7. L = top - from + 1
    <3> HIDE DEF page
    <3> QED BY <2>1, <2>5, <2>6
  <2> HIDE DEF page
  <2> QED BY <2>3, <2>4, <2>6, <2>7
<1> HIDE DEF page, m
<1>7. Sound([list |-> list, done |-> done])
  BY DEF MonitorInv, Monitoring, Endings, Sound
<1>8. ASSUME NEW i \in 1..L, NEW n \in Nested, page[i] = Ends(n)
      PROVE  Contains(log[n], Ends(n))
  <2>1. top - i + 1 \in 1..Len(log[s]) /\ log[s][top - i + 1] = Ends(n)
    BY <1>1, <1>2, <1>6, <1>8
  <2>2. Contains(log[s], Ends(n))
    BY <2>1 DEF Contains
  <2> QED BY <1>1, <2>2 DEF MonitorInv, Endings
<1>9. Sound(m)
  BY <1>6, <1>7, <1>8, PageProcessed DEF m
<1>10. \A n \in Nested : Contains(list, n) => Has(m, n)
  BY <1>6, <1>7, <1>8, PageProcessed DEF m
<1>11. \A i \in 1..L, n \in Nested : page[i] = Begins(n) => Has(m, n)
  BY <1>6, <1>7, <1>8, PageProcessed DEF m
<1>12. ASSUME NEW n \in Nested, NEW j \in from..top, log[s][j] = Begins(n)
       PROVE  Has(m, n)
  <2>1. PICK i \in 1..L : i = top - j + 1 /\ top - i + 1 = j
    <3>1. top - j + 1 \in 1..top - from + 1 /\ top - (top - j + 1) + 1 = j
      BY <1>1, <1>2
    <3> QED BY <1>6, <3>1
  <2>2. page[i] = Begins(n)
    BY <1>6, <1>12, <2>1
  <2> QED BY <1>11, <2>2
<1>13. m.list \in Seq(Stacks \cup {Name}) /\ Contains(m.list, Name) /\ m.done \subseteq Stacks
       /\ \A n \in Nested : n \in m.done => Contains(log[n], Ends(n))
  BY <1>9 DEF Sound
<1> QED BY <1>3, <1>4, <1>10, <1>12, <1>13 DEF Has, s

\* Where the page lies between what was recorded before the read and what the
\* read has recorded.
LEMMA PageBetween ==
  ASSUME MonitorInv, NEW r \in Readers, reads[r].state = "reading"
  PROVE  /\ PageFrom(reads[r].stack, reads[r].at) \in 1..reads[r].at + 1
         /\ \A i \in seen[reads[r].stack] :
              i \notin reads[r].batch => i < PageFrom(reads[r].stack, reads[r].at)
         /\ \A i \in reads[r].batch \cup Fresh(r) :
              PageFrom(reads[r].stack, reads[r].at) <= i /\ i \in 1..Len(log[reads[r].stack])
         /\ Finished(reads[r].stack, reads[r].at) =>
              \/ PageFrom(reads[r].stack, reads[r].at) = 1
              \/ /\ PageFrom(reads[r].stack, reads[r].at) - 1 \in seen[reads[r].stack]
                 /\ PageFrom(reads[r].stack, reads[r].at) - 1 \notin reads[r].batch
<1> DEFINE s == reads[r].stack
           top == reads[r].at
           from == PageFrom(s, top)
<1>1. /\ s \in Stacks /\ top \in 0..Len(log[s]) /\ log[s] \in Seq(Event)
      /\ reads[r].batch \subseteq seen[s] /\ seen[s] \subseteq OwnOf(s)
  BY ReadTyped
<1>2. \A i \in seen[s] : i \in reads[r].batch <=> top < i
  BY DEF MonitorInv, Downwards
<1>3. Fresh(r) = OwnOf(s) \cap (from..top)
  BY DEF Fresh, PagePlaces
<1> HIDE DEF s, top, from
<1>4. /\ from \in 1..top + 1
      /\ \A i \in seen[s] : i <= top => i < from
      /\ Finished(s, top) => from = 1 \/ from - 1 \in seen[s]
  BY <1>1, PageLies DEF from
<1>5. OwnOf(s) \subseteq 1..Len(log[s]) /\ Len(log[s]) \in Nat
  BY <1>1 DEF OwnOf
<1>6. \A i \in seen[s] : i \in Nat
  BY <1>1, <1>5
<1>7. \A i \in seen[s] : i \notin reads[r].batch => i < from
  BY <1>1, <1>2, <1>4, <1>6
<1>8. \A i \in reads[r].batch : from <= i /\ i \in 1..Len(log[s])
  BY <1>1, <1>2, <1>4, <1>5
<1>9. \A i \in Fresh(r) : from <= i /\ i \in 1..Len(log[s])
  BY <1>1, <1>3, <1>4, <1>5
<1>10. from - 1 \notin reads[r].batch
  BY <1>1, <1>4, <1>8, <1>5
<1> QED BY <1>4, <1>7, <1>8, <1>9, <1>10 DEF s, top, from

\* A page keeps the records in order, whatever it gives the printer.
LEMMA PageKeeps ==
  ASSUME MonitorInv, NEW r \in Readers, TakesPage(r),
         UNCHANGED <<cfnVars, active, timer, cur, stop, shown, polls>>,
         buffer' \in [Stacks -> Seq(Nat)]
  PROVE  Monitoring' /\ Downwards' /\ Endings' /\ Covered'
<1> DEFINE s == reads[r].stack
           top == reads[r].at
           from == PageFrom(s, top)
           B == reads[r].batch \cup Fresh(r)
<1>1. /\ s \in Stacks /\ top \in 0..Len(log[s]) /\ log[s] \in Seq(Event)
      /\ reads[r].batch \subseteq seen[s] /\ seen[s] \subseteq OwnOf(s)
  BY ReadTyped
<1>2. reads[r].state = "reading"
  BY PageRecords
<1>3. seen' = [seen EXCEPT ![s] = @ \cup Fresh(r)]
  BY PageRecords
<1>4. PICK st \in {"reading", "read"} :
        /\ reads' = [reads EXCEPT ![r] = [state |-> st, stack |-> s, at |-> from - 1, batch |-> B]]
        /\ st = "read" => Finished(s, top)
  BY PageRecords
<1>5. \A q \in Readers : q # r => reads[q].state # "reading"
  BY <1>2, OnlyReader
<1>6. from \in 1..top + 1
  BY <1>2, PageBetween
<1>7. \A i \in seen[s] : i \notin reads[r].batch => i < from
  BY <1>2, PageBetween
<1>8. \A i \in B : from <= i /\ i \in 1..Len(log[s])
  BY <1>2, PageBetween
<1>9. Finished(s, top) => from = 1 \/ (from - 1 \in seen[s] /\ from - 1 \notin reads[r].batch)
  BY <1>2, PageBetween
<1>10. Fresh(r) = OwnOf(s) \cap (from..top) /\ PagePlaces(r) = from..top
  BY DEF Fresh, PagePlaces
<1>11. /\ list' \in Seq(Stacks \cup {Name}) /\ Contains(list', Name)
       /\ done' \subseteq Stacks
  BY PageLists
<1>12. ASSUME NEW n \in Nested
       PROVE  /\ n \in done' => Contains(log[n], Ends(n))
              /\ Contains(list, n) => Contains(list', n) \/ Contains(log[n], Ends(n))
              /\ \A j \in from..top : log[s][j] = Begins(n) =>
                   Contains(list', n) \/ Contains(log[n], Ends(n))
  BY <1>10, PageLists
<1>13. /\ reads \in [Readers -> [state : {"idle", "reading", "read"}, stack : Stacks,
                                 at : Nat, batch : SUBSET Nat]]
       /\ seen \in [Stacks -> SUBSET Nat]
  BY DEF MonitorInv, Monitoring
<1>14. Len(log[s]) \in Nat /\ B \in SUBSET Nat
  BY <1>1, <1>8
<1>15. Fresh(r) \subseteq B /\ B \subseteq seen[s] \cup Fresh(r)
  BY <1>1
<1>16. UNCHANGED <<log, hit, active, timer, cur, stop, shown, polls>>
  BY DEF cfnVars
<1> HIDE DEF s, top, from, B
<1>17. reads'[r] = [state |-> st, stack |-> s, at |-> from - 1, batch |-> B]
       /\ \A q \in Readers : q # r => reads'[q] = reads[q]
  BY <1>4, <1>13
<1>18. seen'[s] = seen[s] \cup Fresh(r) /\ \A t \in Stacks : t # s => seen'[t] = seen[t]
  BY <1>1, <1>3, <1>13
<1>19. Monitoring'
  <2>1. reads' \in [Readers -> [state : {"idle", "reading", "read"}, stack : Stacks,
                                at : Nat, batch : SUBSET Nat]]
    <3>1. from - 1 \in Nat
      BY <1>1, <1>6, <1>14
    <3> QED BY <1>1, <1>4, <1>13, <1>14, <3>1
  <2>2. seen' \in [Stacks -> SUBSET Nat]
    BY <1>1, <1>3, <1>13, <1>14, <1>15
  <2>3. \A t \in Stacks : OwnOf(t)' = OwnOf(t)
    BY <1>16 DEF OwnOf
  <2>4. \A t \in Stacks : seen'[t] \subseteq OwnOf(t)'
    <3>1. \A t \in Stacks : seen[t] \subseteq OwnOf(t)
      BY DEF MonitorInv, Monitoring
    <3> QED BY <1>10, <1>18, <2>3, <3>1
  <2>5. timer' => reads'["tick"].state = "idle"
    <3>1. timer => reads["tick"].state = "idle"
      BY DEF MonitorInv, Monitoring
    <3> QED BY <1>2, <1>16, <1>17, <3>1 DEF Readers
  <2> QED BY <1>11, <1>16, <2>1, <2>2, <2>4, <2>5 DEF MonitorInv, Monitoring
<1>20. Downwards'
  <2> SUFFICES ASSUME NEW q \in Readers
               PROVE  /\ reads'[q].at <= Len(log[reads'[q].stack])
                      /\ reads'[q].batch \subseteq seen'[reads'[q].stack]
                      /\ \A i \in seen'[reads'[q].stack] :
                           reads'[q].state = "reading" => (i \in reads'[q].batch <=> reads'[q].at < i)
    BY <1>16 DEF Downwards
  <2>1. CASE q = r
    <3>1. from - 1 <= Len(log[s])
      BY <1>1, <1>6, <1>14
    <3>2. \A i \in seen[s] \cup Fresh(r) : i \in B <=> from - 1 < i
      <4>1. \A i \in seen[s] \cup Fresh(r) : i \in Nat
        BY <1>13, <1>14, <1>15, <1>1
      <4>2. \A i \in seen[s] \cup Fresh(r) : i \notin B => i < from
        BY <1>7, <1>15 DEF B
      <4> QED BY <1>6, <1>8, <4>1, <4>2
    <3> QED BY <1>15, <1>17, <1>18, <2>1, <3>1, <3>2
  <2>2. CASE q # r
    <3>1. reads'[q] = reads[q] /\ reads[q].state # "reading" /\ reads[q].stack \in Stacks
      BY <1>5, <1>13, <1>17, <2>2
    <3>2. seen[reads[q].stack] \subseteq seen'[reads[q].stack]
      BY <1>18, <3>1
    <3>3. reads[q].at <= Len(log[reads[q].stack]) /\ reads[q].batch \subseteq seen[reads[q].stack]
      BY DEF MonitorInv, Downwards
    <3> QED BY <3>1, <3>2, <3>3
  <2> QED BY <2>1, <2>2
<1>21. Endings'
  BY <1>12, <1>16 DEF MonitorInv, Endings
<1>22. Covered'
  <2> SUFFICES ASSUME {"throttle", "error"} \cap hit = {}, NEW t \in Stacks,
                      NEW i \in seen'[t], NEW j \in Nat \ {0}, j <= i
               PROVE  Passed(t, j)' \/ ToCome(t, j, i)'
    BY <1>16 DEF Covered
  <2>1. Passed(t, j) => Passed(t, j)'
    <3>1. seen[t] \subseteq seen'[t]
      BY <1>18
    <3> QED BY <1>12, <1>16, <3>1 DEF Passed
  <2>2. ASSUME NEW k \in seen[t], j <= k
        PROVE  Passed(t, j) \/ ToCome(t, j, k)
    BY <2>2 DEF MonitorInv, Covered
  <2>3. CASE t # s
    <3>1. i \in seen[t] /\ ~ToCome(t, j, i)
      BY <1>5, <1>18, <2>3 DEF ToCome, Reads, s
    <3> QED BY <2>1, <2>2, <3>1
  <2>4. CASE t = s
    <3>1. CASE j \in from..top
      <4>1. log[s][j].kind = "own" => j \in seen'[s]
        <5>1. j \in 1..Len(log[s])
          BY <1>1, <1>6, <1>14, <3>1
        <5>2. log[s][j].kind = "own" => j \in OwnOf(s)
          BY <1>1, <5>1 DEF OwnOf
        <5> QED BY <1>10, <1>18, <3>1, <5>2 DEF s, from, top
      <4> QED BY <1>12, <1>16, <2>4, <3>1, <4>1 DEF Passed
    <3>2. CASE j <= from - 1
      <4>1. CASE i \in B /\ st = "reading"
        <5>1. Reads(r, t)' /\ j <= reads'[r].at /\ i \in reads'[r].batch
          BY <1>17, <2>4, <3>2, <4>1 DEF Reads
        <5> QED BY <5>1 DEF ToCome
      <4>2. CASE i \in B /\ st = "read"
        <5>1. from - 1 \in seen[s] /\ from - 1 \notin reads[r].batch
          BY <1>1, <1>4, <1>6, <1>9, <1>14, <3>2, <4>2
        <5>2. Passed(t, j) \/ ToCome(t, j, from - 1)
          BY <2>2, <2>4, <3>2, <5>1
        <5>3. ~ToCome(t, j, from - 1)
          BY <1>5, <5>1 DEF ToCome, Reads
        <5> QED BY <2>1, <5>2, <5>3
      <4>3. CASE i \notin B
        <5>1. i \in seen[s] /\ i \notin reads[r].batch
          BY <1>15, <1>18, <2>4, <4>3 DEF B
        <5>2. ~ToCome(t, j, i)
          BY <1>5, <5>1 DEF ToCome, Reads
        <5> QED BY <2>1, <2>2, <2>4, <5>1, <5>2
      <4> QED BY <1>4, <4>1, <4>2, <4>3
    <3>3. CASE ~(j <= from - 1) /\ j \notin from..top
      <4>1. top < j
        BY <1>1, <1>6, <1>14, <3>3
      <4>2. i \in seen[s]
        BY <1>1, <1>10, <1>14, <1>18, <2>4, <4>1
      <4>3. ~ToCome(t, j, i)
        <5>1. ~(j <= top)
          BY <1>1, <1>14, <4>1
        <5> QED BY <1>5, <5>1 DEF ToCome, Reads, top
      <4> QED BY <2>1, <2>2, <2>4, <4>2, <4>3
    <3> QED BY <3>1, <3>2, <3>3
  <2> QED BY <2>3, <2>4
<1> QED BY <1>19, <1>20, <1>21, <1>22

-----------------------------------------------------------------------------
(* The printer *)

\* Two sequences of places one after the other.
LEMMA JoinedPlaces ==
  ASSUME NEW a \in Seq(Nat), NEW b \in Seq(Nat)
  PROVE  /\ a \o b \in Seq(Nat)
         /\ Range(a \o b) = Range(a) \cup Range(b)
         /\ IsInjective(a) /\ IsInjective(b) /\ Range(a) \cap Range(b) = {}
              => IsInjective(a \o b)
<1> DEFINE c == a \o b
           n == Len(a)
           k == Len(b)
<1>1. /\ c \in Seq(Nat) /\ Len(c) = n + k
      /\ \A i \in 1..n + k : c[i] = IF i <= n THEN a[i] ELSE b[i - n]
  BY ConcatProperties, Zenon
<1>2. n \in Nat /\ k \in Nat /\ DOMAIN a = 1..n /\ DOMAIN b = 1..k
  OBVIOUS
<1> HIDE DEF c, n, k
<1>3. DOMAIN c = 1..n + k
  BY <1>1
<1>4. /\ \A i \in 1..n : i \in 1..n + k /\ c[i] = a[i]
      /\ \A i \in 1..k : n + i \in 1..n + k /\ c[n + i] = b[i]
      /\ \A i \in 1..n + k : i \in 1..n \/ (i - n \in 1..k /\ c[i] = b[i - n])
  <2>1. \A i \in 1..n : i \in 1..n + k /\ i <= n
    BY <1>2
  <2>2. \A i \in 1..k : n + i \in 1..n + k /\ ~(n + i <= n) /\ n + i - n = i
    BY <1>2
  <2>3. \A i \in 1..n + k : i \in 1..n \/ (i - n \in 1..k /\ ~(i <= n))
    BY <1>2
  <2>4. \A i \in 1..k : c[n + i] = b[i]
    <3> SUFFICES ASSUME NEW i \in 1..k PROVE c[n + i] = b[i]
      OBVIOUS
    <3>1. PICK j : j = n + i
      OBVIOUS
    <3>2. j \in 1..n + k /\ ~(j <= n) /\ j - n = i
      BY <1>2, <3>1
    <3>3. c[j] = b[j - n]
      BY <1>1, <3>2
    <3> QED BY <3>1, <3>2, <3>3
  <2>5. \A i \in 1..n : c[i] = a[i]
    BY <1>1, <2>1
  <2>6. \A i \in 1..n + k : ~(i <= n) => c[i] = b[i - n]
    BY <1>1
  <2> QED BY <2>1, <2>2, <2>3, <2>4, <2>5, <2>6
<1>5. Range(c) = Range(a) \cup Range(b)
  <2>1. Range(c) \subseteq Range(a) \cup Range(b)
    <3> SUFFICES ASSUME NEW i \in 1..n + k PROVE c[i] \in Range(a) \cup Range(b)
      BY <1>3 DEF Range
    <3> QED BY <1>2, <1>4 DEF Range
  <2>2. Range(a) \subseteq Range(c)
    BY <1>2, <1>3, <1>4 DEF Range
  <2>3. Range(b) \subseteq Range(c)
    <3> SUFFICES ASSUME NEW i \in 1..k PROVE b[i] \in Range(c)
      BY <1>2 DEF Range
    <3>1. n + i \in DOMAIN c /\ c[n + i] = b[i]
      BY <1>3, <1>4
    <3> QED BY <3>1 DEF Range
  <2> QED BY <2>1, <2>2, <2>3
<1>6. ASSUME IsInjective(a), IsInjective(b), Range(a) \cap Range(b) = {}
      PROVE  IsInjective(c)
  <2> SUFFICES ASSUME NEW i \in 1..n + k, NEW j \in 1..n + k, c[i] = c[j]
               PROVE  i = j
    BY <1>3 DEF IsInjective
  <2>1. \A x \in 1..n, y \in 1..k : a[x] # b[y]
    BY <1>2, <1>6 DEF Range
  <2>2. CASE i \in 1..n /\ j \in 1..n
    BY <1>2, <1>4, <1>6, <2>2 DEF IsInjective
  <2>3. CASE i \notin 1..n /\ j \notin 1..n
    <3>1. i - n \in 1..k /\ j - n \in 1..k /\ b[i - n] = b[j - n]
      BY <1>4, <2>3
    <3>2. i - n = j - n
      BY <1>2, <1>6, <3>1 DEF IsInjective
    <3> QED BY <1>2, <3>2
  <2> QED BY <1>4, <2>1, <2>2, <2>3
<1> QED BY <1>1, <1>5, <1>6 DEF c

\* A sequence of places the other way round.
LEMMA ReversedPlaces ==
  ASSUME NEW a \in Seq(Nat)
  PROVE  /\ Reverse(a) \in Seq(Nat)
         /\ Range(Reverse(a)) = Range(a)
         /\ IsInjective(a) => IsInjective(Reverse(a))
<1> DEFINE c == Reverse(a)
           n == Len(a)
<1>1. n \in Nat /\ DOMAIN a = 1..n /\ c = [i \in 1..n |-> a[(n - i) + 1]]
  BY DEF Reverse
<1> HIDE DEF c, n
<1>2. \A i \in 1..n : (n - i) + 1 \in 1..n /\ (n - ((n - i) + 1)) + 1 = i
  BY <1>1
<1>3. DOMAIN c = 1..n /\ \A i \in 1..n : c[i] = a[(n - i) + 1]
  BY <1>1
<1>4. \A i \in 1..n : c[(n - i) + 1] = a[i]
  <2> SUFFICES ASSUME NEW i \in 1..n PROVE c[(n - i) + 1] = a[i]
    OBVIOUS
  <2>1. PICK j \in 1..n : j = (n - i) + 1 /\ (n - j) + 1 = i
    BY <1>2
  <2>2. c[j] = a[(n - j) + 1]
    BY <1>3
  <2> QED BY <2>1, <2>2
<1>5. \A i \in 1..n : a[i] \in Nat
  BY <1>1
<1>6. c \in [1..n -> Nat]
  BY <1>1, <1>2, <1>5
<1>7. c \in Seq(Nat)
  BY <1>1, <1>6, IsASeq
<1>8. Range(c) = Range(a)
  <2>1. Range(c) \subseteq Range(a)
    BY <1>1, <1>2, <1>3 DEF Range
  <2>2. Range(a) \subseteq Range(c)
    <3> SUFFICES ASSUME NEW i \in 1..n PROVE a[i] \in Range(c)
      BY <1>1 DEF Range
    <3>1. (n - i) + 1 \in DOMAIN c /\ c[(n - i) + 1] = a[i]
      BY <1>2, <1>3, <1>4
    <3> QED BY <3>1 DEF Range
  <2> QED BY <2>1, <2>2
<1>9. ASSUME IsInjective(a) PROVE IsInjective(c)
  <2> SUFFICES ASSUME NEW i \in 1..n, NEW j \in 1..n, c[i] = c[j] PROVE i = j
    BY <1>3 DEF IsInjective
  <2>1. a[(n - i) + 1] = a[(n - j) + 1]
    BY <1>3
  <2>2. (n - i) + 1 = (n - j) + 1
    BY <1>1, <1>2, <1>9, <2>1 DEF IsInjective
  <2> QED BY <1>1, <2>2
<1> QED BY <1>7, <1>8, <1>9 DEF c

\* The events of a finished read are newer than all that the printer has had.
LEMMA HandedOver ==
  ASSUME MonitorInv, NEW s \in Stacks, NEW b \in Nat, NEW B \in SUBSET (1..b),
         HandsOver(s, B), shown' = shown,
         \A t \in Stacks : seen[t] \subseteq seen'[t],
         B \subseteq seen'[s],
         \A i \in InPrinter(s), k \in B : i < k,
         \A q \in Readers : reads'[q].state # "reading"
  PROVE  buffer' \in [Stacks -> Seq(Nat)] /\ Printing'
<1> DEFINE a == Ascending(B)
<1>1. a \in Seq(Nat) /\ IsInjective(a) /\ Range(a) \subseteq B
  <2>1. /\ a \in Seq(Nat) /\ IsInjective(a)
        /\ \A i \in DOMAIN a : a[i] \in B
    BY AscendingSequence
  <2> QED BY <2>1 DEF Range
<1>2. buffer' = [buffer EXCEPT ![s] = @ \o a] /\ buffer \in [Stacks -> Seq(Nat)]
  BY DEF HandsOver, MonitorInv, Monitoring
<1> HIDE DEF a
<1>3. Printing
  BY DEF MonitorInv
<1>4. InPrinter(s) \subseteq Nat /\ B \subseteq Nat
  <2>1. InPrinter(s) \subseteq seen[s] /\ seen[s] \in SUBSET Nat
    BY <1>3 DEF Printing, MonitorInv, Monitoring
  <2> QED BY <2>1
<1>5. InPrinter(s) \cap Range(a) = {}
  BY <1>1, <1>4
<1>6. /\ buffer[s] \o a \in Seq(Nat)
      /\ Range(buffer[s] \o a) = Range(buffer[s]) \cup Range(a)
  BY <1>1, <1>2, JoinedPlaces
<1>7. IsInjective(buffer[s] \o a)
  <2>1. IsInjective(buffer[s]) /\ Range(buffer[s]) \cap Range(a) = {}
    BY <1>3, <1>5 DEF Printing, InPrinter
  <2> QED BY <1>1, <1>2, <2>1, JoinedPlaces
<1>8. buffer' \in [Stacks -> Seq(Nat)]
  BY <1>2, <1>6
<1>9. ASSUME NEW t \in Stacks
      PROVE  /\ IsInjective(buffer'[t])
             /\ \A i \in Range(shown'[t]), j \in Range(buffer'[t]) : i < j
             /\ \A i \in Range(shown'[t]) \cup Range(buffer'[t]) : i \in seen'[t]
  <2>1. CASE t = s
    <3>1. buffer'[t] = buffer[s] \o a
      BY <1>2, <2>1
    <3>2. Range(buffer'[t]) = Range(buffer[s]) \cup Range(a)
      BY <1>6, <3>1
    <3>3. \A i \in Range(shown[s]), j \in Range(buffer[s]) : i < j
      BY <1>3 DEF Printing
    <3>4. \A i \in Range(shown[s]), j \in Range(a) : i < j
      BY <1>1 DEF InPrinter
    <3>5. \A i \in InPrinter(s) : i \in seen'[s]
      BY <1>3 DEF Printing
    <3>6. \A i \in Range(a) : i \in seen'[s]
      BY <1>1
    <3> QED BY <1>7, <2>1, <3>1, <3>2, <3>3, <3>4, <3>5, <3>6 DEF InPrinter
  <2>2. CASE t # s
    <3>1. buffer'[t] = buffer[t]
      BY <1>2, <2>2
    <3> QED BY <1>3, <3>1 DEF Printing, InPrinter
  <2> QED BY <2>1, <2>2
<1>10. Printing'
  BY <1>9 DEF Printing, InPrinter, Reads
<1> QED BY <1>8, <1>10

\* What print adds is what the printer holds, the other way round.
LEMMA PrintAdds ==
  ASSUME MonitorInv, Prints, NEW s \in Stacks
  PROVE  /\ shown'[s] \in Seq(Nat)
         /\ Range(shown'[s]) = Range(shown[s]) \cup Range(buffer[s])
         /\ SubSeq(shown'[s], Len(shown[s]) + 1, Len(shown'[s])) = Reverse(buffer[s])
<1> DEFINE a == Reverse(buffer[s])
           p == shown[s]
<1>1. p \in Seq(Nat) /\ buffer[s] \in Seq(Nat)
  BY DEF MonitorInv, Monitoring
<1>2. shown'[s] = p \o a
  BY DEF Prints
<1>3. a \in Seq(Nat) /\ Range(a) = Range(buffer[s])
  BY <1>1, ReversedPlaces
<1> HIDE DEF a, p
<1>4. p \o a \in Seq(Nat) /\ Range(p \o a) = Range(p) \cup Range(a)
  BY <1>1, <1>3, JoinedPlaces
<1>5. Len(p \o a) = Len(p) + Len(a)
  BY <1>1, <1>3, ConcatProperties
<1>6. SubSeq(p \o a, Len(p) + 1, Len(p) + Len(a)) = a
  BY <1>1, <1>3
<1> QED BY <1>2, <1>3, <1>4, <1>5, <1>6 DEF a, p

\* After a print the printer holds nothing, and has printed what is recorded.
LEMMA PrintKeeps ==
  ASSUME MonitorInv, Prints, seen' = seen, \A q \in Readers, t \in Stacks : Reads(q, t)' =>
           Reads(q, t) /\ reads'[q].batch = reads[q].batch
  PROVE  /\ buffer' \in [Stacks -> Seq(Nat)] /\ shown' \in [Stacks -> Seq(Nat)]
         /\ Printing'
<1>1. \A t \in Stacks : buffer'[t] = <<>> /\ Range(buffer'[t]) = {}
  BY DEF Prints, Range
<1>2. buffer' \in [Stacks -> Seq(Nat)]
  BY DEF Prints
<1>3. shown' \in [Stacks -> Seq(Nat)]
  <2>1. \A t \in Stacks : shown'[t] \in Seq(Nat)
    BY PrintAdds
  <2>2. shown' = [t \in Stacks |-> shown'[t]]
    BY DEF Prints
  <2> QED BY <2>1, <2>2
<1>4. \A t \in Stacks : InPrinter(t)' = InPrinter(t)
  <2>1. \A t \in Stacks : Range(shown'[t]) = Range(shown[t]) \cup Range(buffer[t])
    BY PrintAdds
  <2> QED BY <1>1, <2>1 DEF InPrinter
<1>5. \A t \in Stacks : IsInjective(buffer'[t])
  BY <1>1 DEF IsInjective
<1>6. ASSUME NEW t \in Stacks, NEW i \in InPrinter(t)
      PROVE  i \in seen[t] /\ \A r \in Readers : Reads(r, t)' => i \notin reads'[r].batch
  BY <1>6 DEF MonitorInv, Printing
<1> QED BY <1>1, <1>2, <1>3, <1>4, <1>5, <1>6 DEF Printing

-----------------------------------------------------------------------------
(* The steps of the monitor *)

\* A page of a read keeps the invariant, and hands the printer what it finished.
LEMMA PagesKeep ==
  ASSUME MonitorInv, NEW r \in Readers, PageOfMany(r) \/ LastPage(r)
  PROVE  Monitoring' /\ Downwards' /\ Endings' /\ Covered' /\ Printing'
<1> DEFINE s == reads[r].stack
           from == PageFrom(s, reads[r].at)
           B == reads[r].batch \cup Fresh(r)
<1>1. TakesPage(r) /\ UNCHANGED <<cfnVars, active, timer, cur, stop, shown, polls>>
  BY DEF PageOfMany, LastPage
<1>2. /\ s \in Stacks /\ log[s] \in Seq(Event) /\ Len(log[s]) \in Nat
      /\ reads[r].batch \subseteq seen[s]
  <2>1. s \in Stacks /\ log[s] \in Seq(Event) /\ reads[r].batch \subseteq seen[s]
    BY ReadTyped
  <2> HIDE DEF s
  <2> QED BY <2>1
<1>3. reads[r].state = "reading" /\ seen' = [seen EXCEPT ![s] = @ \cup Fresh(r)]
  BY <1>1, PageRecords
<1>4. PICK st \in {"reading", "read"} :
        reads' = [reads EXCEPT ![r] = [state |-> st, stack |-> s, at |-> from - 1, batch |-> B]]
  BY <1>1, PageRecords
<1>5. \A q \in Readers : q # r => reads[q].state # "reading"
  BY <1>3, OnlyReader
<1>6. \A i \in seen[s] : i \notin reads[r].batch => i < from
  BY <1>3, PageBetween
<1>7. from \in 1..reads[r].at + 1 /\ \A i \in B : from <= i /\ i \in 1..Len(log[s])
  BY <1>3, PageBetween
<1>8. /\ DOMAIN reads = Readers /\ seen \in [Stacks -> SUBSET Nat] /\ Printing
      /\ buffer \in [Stacks -> Seq(Nat)] /\ reads[r].at \in Nat
  BY DEF MonitorInv, Monitoring
<1> HIDE DEF s, from, B
<1>9. /\ reads'[r] = [state |-> st, stack |-> s, at |-> from - 1, batch |-> B]
      /\ \A q \in Readers : q # r => reads'[q] = reads[q]
  BY <1>4, <1>8
<1>10. /\ seen'[s] = seen[s] \cup Fresh(r)
       /\ \A t \in Stacks : seen[t] \subseteq seen'[t]
  BY <1>2, <1>3, <1>8
<1>11. \A i \in InPrinter(s) : i \in seen[s] /\ i < from
  <2>1. Reads(r, s)
    BY <1>3 DEF Reads, s
  <2>2. \A i \in InPrinter(s) : i \in seen[s] /\ i \notin reads[r].batch
    BY <1>2, <1>8, <2>1 DEF Printing
  <2> QED BY <1>6, <2>2
<1>12. \A i \in InPrinter(s), k \in B : i < k
  <2> SUFFICES ASSUME NEW i \in InPrinter(s), NEW k \in B PROVE i < k
    OBVIOUS
  <2>1. i \in Nat /\ i < from
    BY <1>2, <1>8, <1>11
  <2>2. from <= k /\ k \in Nat /\ from \in Nat
    BY <1>2, <1>7, <1>8
  <2> QED BY <2>1, <2>2
<1>13. CASE PageOfMany(r)
  <2>1. buffer' = buffer /\ shown' = shown
    BY <1>13 DEF PageOfMany
  <2>2. ASSUME NEW t \in Stacks, NEW i \in InPrinter(t), NEW q \in Readers, Reads(q, t)'
        PROVE  i \notin reads'[q].batch
    <3>1. q = r /\ t = s
      BY <1>5, <1>9, <2>2 DEF Reads
    <3>2. i \notin B
      BY <1>12, <3>1, <1>2, <1>8, <1>11
    <3> QED BY <1>9, <3>1, <3>2
  <2>3. \A t \in Stacks : InPrinter(t)' = InPrinter(t)
    BY <2>1 DEF InPrinter
  <2>4. \A t \in Stacks : \A i \in InPrinter(t) : i \in seen'[t]
    BY <1>8, <1>10 DEF Printing
  <2>5. Printing'
    BY <1>8, <2>1, <2>2, <2>3, <2>4 DEF Printing
  <2> QED BY <1>1, <1>8, <2>1, <2>5, PageKeeps
<1>14. CASE LastPage(r)
  <2>1. HandsOver(s, B) /\ shown' = shown /\ st = "read"
    BY <1>9, <1>14 DEF LastPage, s
  <2>2. \A q \in Readers : reads'[q].state # "reading"
    BY <1>5, <1>9, <2>1
  <2>3. B \in SUBSET (1..Len(log[s])) /\ B \subseteq seen'[s]
    BY <1>2, <1>7, <1>10 DEF B
  <2>4. buffer' \in [Stacks -> Seq(Nat)] /\ Printing'
    BY <1>2, <1>10, <1>12, <2>1, <2>2, <2>3, HandedOver
  <2> QED BY <1>1, <2>4, PageKeeps
<1> QED BY <1>13, <1>14

\* A throttled read hands over what it has, and its gap is allowed for.
LEMMA ThrottledKeeps ==
  ASSUME MonitorInv, NEW r \in Readers, Throttled(r)
  PROVE  Monitoring' /\ Downwards' /\ Endings' /\ Covered' /\ Printing'
<1> DEFINE s == reads[r].stack
           B == reads[r].batch
<1>1. /\ s \in Stacks /\ log[s] \in Seq(Event) /\ Len(log[s]) \in Nat
      /\ B \subseteq seen[s] /\ seen[s] \subseteq OwnOf(s) /\ reads[r].at \in Nat
  <2>1. /\ s \in Stacks /\ log[s] \in Seq(Event)
        /\ B \subseteq seen[s] /\ seen[s] \subseteq OwnOf(s)
    BY ReadTyped
  <2>2. reads[r].at \in Nat
    BY DEF MonitorInv, Monitoring
  <2> HIDE DEF s, B
  <2> QED BY <2>1, <2>2
<1>2. reads[r].state = "reading" /\ hit' = hit \cup {"throttle"} /\ "throttle" \in Faults
  BY DEF Throttled, MayHappen
<1>3. reads' = [reads EXCEPT ![r] = [@ EXCEPT !.state = "read"]]
  BY DEF Throttled
<1>4. /\ HandsOver(s, B)
      /\ UNCHANGED <<log, active, timer, list, cur, done, seen, stop, shown, polls>>
  BY DEF Throttled
<1>5. \A q \in Readers : q # r => reads[q].state # "reading"
  BY <1>2, OnlyReader
<1>6. /\ reads \in [Readers -> [state : {"idle", "reading", "read"}, stack : Stacks,
                                at : Nat, batch : SUBSET Nat]]
      /\ Printing /\ Downwards /\ Monitoring /\ Endings
  BY DEF MonitorInv, Monitoring
<1>7. /\ reads'[r] = [reads[r] EXCEPT !.state = "read"]
      /\ \A q \in Readers : q # r => reads'[q] = reads[q]
  BY <1>3, <1>6
<1>8. ASSUME NEW q \in Readers
      PROVE  /\ reads'[q].at = reads[q].at /\ reads'[q].stack = reads[q].stack
             /\ reads'[q].batch = reads[q].batch /\ reads'[q].state # "reading"
             /\ reads'[q] \in [state : {"idle", "reading", "read"}, stack : Stacks,
                               at : Nat, batch : SUBSET Nat]
  <2>1. reads[q] \in [state : {"idle", "reading", "read"}, stack : Stacks,
                      at : Nat, batch : SUBSET Nat]
    BY <1>6
  <2>2. CASE q = r
    BY <1>7, <2>1, <2>2
  <2>3. CASE q # r
    BY <1>5, <1>7, <2>1, <2>3
  <2> QED BY <2>2, <2>3
<1>9. \A i \in InPrinter(s), k \in B : i < k
  <2> SUFFICES ASSUME NEW i \in InPrinter(s), NEW k \in B PROVE i < k
    OBVIOUS
  <2>1. Reads(r, s)
    BY <1>2 DEF Reads
  <2>2. i \in seen[s] /\ i \notin B
    BY <1>1, <1>6, <2>1 DEF Printing
  <2>3. \A j \in seen[s] : j \in B <=> reads[r].at < j
    BY <1>2, <1>6 DEF Downwards
  <2>4. \A j \in seen[s] : j \in Nat
    BY <1>1 DEF OwnOf
  <2> QED BY <1>1, <2>2, <2>3, <2>4
<1>10. B \in SUBSET (1..Len(log[s]))
  <2>1. OwnOf(s) \subseteq 1..Len(log[s])
    BY <1>1 DEF OwnOf
  <2> QED BY <1>1, <2>1
<1> HIDE DEF s, B
<1>11. buffer' \in [Stacks -> Seq(Nat)] /\ Printing'
  BY <1>1, <1>4, <1>8, <1>9, <1>10, HandedOver
<1>12. Monitoring'
  <2>1. reads' \in [Readers -> [state : {"idle", "reading", "read"}, stack : Stacks,
                                at : Nat, batch : SUBSET Nat]]
    <3>1. reads' = [q \in Readers |-> reads'[q]]
      BY <1>3, <1>6
    <3> QED BY <1>8, <3>1
  <2>2. \A t \in Stacks : OwnOf(t)' = OwnOf(t)
    BY <1>4 DEF OwnOf
  <2>3. timer' => reads'["tick"].state = "idle"
    BY <1>2, <1>4, <1>6, <1>7 DEF Monitoring, Readers
  <2>4. hit' \subseteq Faults
    BY <1>2, <1>6 DEF Monitoring
  <2> QED BY <1>4, <1>6, <1>11, <2>1, <2>2, <2>3, <2>4 DEF Monitoring
<1>13. Downwards'
  BY <1>4, <1>6, <1>8 DEF Downwards
<1>14. Endings'
  BY <1>2, <1>4, <1>6 DEF Endings
<1>15. Covered'
  BY <1>2 DEF Covered
<1> QED BY <1>11, <1>12, <1>13, <1>14, <1>15

\* The process dies of any other error, and nothing is read any more.
LEMMA DiesKeeps ==
  ASSUME MonitorInv, NEW r \in Readers, Dies(r)
  PROVE  Monitoring' /\ Downwards' /\ Endings' /\ Covered' /\ Printing'
<1>1. /\ hit' = hit \cup {"error"} /\ "error" \in Faults
      /\ reads' = [q \in Readers |-> Idle]
      /\ stop' = "died" /\ active' = FALSE /\ timer' = FALSE
      /\ UNCHANGED <<log, list, cur, done, seen, buffer, shown, polls>>
  BY DEF Dies, MayHappen
<1>2. Monitoring /\ Downwards /\ Endings /\ Printing
  BY DEF MonitorInv
<1>3. \A q \in Readers : reads'[q] = Idle
  BY <1>1
<1>4. Root \in Stacks /\ log[Root] \in Seq(Event) /\ Len(log[Root]) \in Nat
  BY <1>2 DEF Monitoring, Stacks
<1>5. Monitoring'
  <2>1. reads' \in [Readers -> [state : {"idle", "reading", "read"}, stack : Stacks,
                                at : Nat, batch : SUBSET Nat]]
    BY <1>1, <1>4 DEF Idle
  <2>2. \A t \in Stacks : OwnOf(t)' = OwnOf(t)
    BY <1>1 DEF OwnOf
  <2>3. hit' \subseteq Faults
    BY <1>1, <1>2 DEF Monitoring
  <2>4. active' \in BOOLEAN /\ timer' \in BOOLEAN /\ ~timer' /\ stop' = "died"
    BY <1>1
  <2> QED BY <1>1, <1>2, <2>1, <2>2, <2>3, <2>4 DEF Monitoring
<1>6. Downwards'
  BY <1>1, <1>3, <1>4 DEF Downwards, Idle
<1>7. Endings'
  BY <1>1, <1>2 DEF Endings
<1>8. Covered'
  BY <1>1 DEF Covered
<1>9. Printing'
  BY <1>1, <1>2, <1>3 DEF Printing, InPrinter, Reads, Idle
<1> QED BY <1>5, <1>6, <1>7, <1>8, <1>9

\* The next stack of the round is there to be read.
LEMMA ReadStarts ==
  ASSUME MonitorInv, NEW r \in Readers, ReadBegins(r)
  PROVE  /\ polls' = polls + 1 /\ polls < MaxPolls
         /\ cur' \in Nat /\ cur' <= polls'
         /\ \E s \in Stacks :
              reads' = [reads EXCEPT ![r] =
                [state |-> "reading", stack |-> s, at |-> Len(log[s]), batch |-> {}]]
<1> DEFINE n == Len(list)
<1>1. /\ list \in Seq(Stacks \cup {Name}) /\ Contains(list, Name)
      /\ cur \in Nat /\ polls \in Nat /\ cur <= polls
  BY DEF MonitorInv, Monitoring
<1>2. n \in Nat \ {0}
  BY <1>1 DEF Contains
<1>3. polls' = polls + 1 /\ polls < MaxPolls /\ cur' = (cur + 1) % n
  BY DEF ReadBegins
<1> HIDE DEF n
<1>4. (cur + 1) % n \in 0..n - 1 /\ (cur + 1) % n <= cur + 1
  BY <1>1, <1>2
<1>5. cur' \in Nat /\ cur' <= polls' /\ cur' + 1 \in 1..n
  <2>1. PICK c : c = cur'
    OBVIOUS
  <2>2. c \in 0..n - 1 /\ c <= cur + 1
    BY <1>3, <1>4, <2>1
  <2>3. c \in Nat /\ c <= polls + 1 /\ c + 1 \in 1..n
    BY <1>1, <1>2, <2>2
  <2> QED BY <1>3, <2>1, <2>3
<1>6. list[cur' + 1] \in Stacks \cup {Name}
  BY <1>1, <1>5 DEF n
<1>7. History(list[cur' + 1]) \in Stacks
  BY <1>6 DEF History, Stacks
<1> QED BY <1>3, <1>5, <1>7 DEF ReadBegins

\* A read begins at the end of a history, with nothing recorded above.
LEMMA ReadBeginsKeeps ==
  ASSUME MonitorInv, NEW r \in Readers, ReadBegins(r), reads[r].state # "reading",
         UNCHANGED <<cfnVars, list, done, seen, buffer, shown>>,
         active' \in BOOLEAN, timer' \in BOOLEAN, timer' => timer /\ r # "tick",
         stop' \in {"no", "waiting", "final", "over", "died"}
  PROVE  Monitoring' /\ Downwards' /\ Endings' /\ Covered' /\ Printing'
<1>1. PICK s \in Stacks : reads' = [reads EXCEPT ![r] =
                [state |-> "reading", stack |-> s, at |-> Len(log[s]), batch |-> {}]]
  BY ReadStarts
<1>2. polls' = polls + 1 /\ polls < MaxPolls /\ cur' \in Nat /\ cur' <= polls'
  BY ReadStarts
<1>3. Monitoring /\ Downwards /\ Endings /\ Covered /\ Printing
  BY DEF MonitorInv
<1>4. /\ reads \in [Readers -> [state : {"idle", "reading", "read"}, stack : Stacks,
                                at : Nat, batch : SUBSET Nat]]
      /\ log[s] \in Seq(Event) /\ Len(log[s]) \in Nat /\ polls \in Nat
      /\ seen[s] \subseteq OwnOf(s)
  BY <1>3 DEF Monitoring
<1>5. /\ reads'[r] = [state |-> "reading", stack |-> s, at |-> Len(log[s]), batch |-> {}]
      /\ \A q \in Readers : q # r => reads'[q] = reads[q]
  BY <1>1, <1>4
<1>6. UNCHANGED <<log, hit, list, done, seen, buffer, shown>>
  BY DEF cfnVars
<1>7. Monitoring'
  <2>1. reads' \in [Readers -> [state : {"idle", "reading", "read"}, stack : Stacks,
                                at : Nat, batch : SUBSET Nat]]
    BY <1>1, <1>4
  <2>2. \A t \in Stacks : OwnOf(t)' = OwnOf(t)
    BY <1>6 DEF OwnOf
  <2>3. polls' \in Nat /\ polls' <= MaxPolls
    BY <1>2, <1>4, MonitorAssumption
  <2>4. timer' => reads'["tick"].state = "idle"
    BY <1>3, <1>5 DEF Monitoring, Readers
  <2> QED BY <1>2, <1>3, <1>6, <2>1, <2>2, <2>3, <2>4 DEF Monitoring
<1>8. Downwards'
  <2> SUFFICES ASSUME NEW q \in Readers
               PROVE  /\ reads'[q].at <= Len(log[reads'[q].stack])
                      /\ reads'[q].batch \subseteq seen[reads'[q].stack]
                      /\ \A i \in seen[reads'[q].stack] :
                           reads'[q].state = "reading" => (i \in reads'[q].batch <=> reads'[q].at < i)
    BY <1>6 DEF Downwards
  <2>1. CASE q = r
    <3>1. \A i \in seen[s] : i \in 1..Len(log[s])
      BY <1>4 DEF OwnOf
    <3>2. \A i \in seen[s] : ~(Len(log[s]) < i)
      BY <1>4, <3>1
    <3> QED BY <1>4, <1>5, <2>1, <3>2
  <2>2. CASE q # r
    BY <1>3, <1>5, <2>2 DEF Downwards
  <2> QED BY <2>1, <2>2
<1>9. Endings'
  BY <1>3, <1>6 DEF Endings
<1>10. Covered'
  <2>1. ASSUME NEW t \in Stacks, NEW j, NEW i, ToCome(t, j, i)
        PROVE  ToCome(t, j, i)'
    <3>1. PICK q \in Readers : Reads(q, t) /\ j <= reads[q].at /\ i \in reads[q].batch
      BY <2>1 DEF ToCome
    <3>2. q # r
      BY <3>1 DEF Reads
    <3> QED BY <1>5, <3>1, <3>2 DEF ToCome, Reads
  <2>2. \A t \in Stacks : \A j : Passed(t, j)' <=> Passed(t, j)
    BY <1>6 DEF Passed
  <2> QED BY <1>3, <1>6, <2>1, <2>2 DEF Covered
<1>11. Printing'
  <2>1. \A t \in Stacks, q \in Readers : Reads(q, t)' =>
          reads'[q].batch = {} \/ (Reads(q, t) /\ reads'[q].batch = reads[q].batch)
    BY <1>5 DEF Reads
  <2>2. ASSUME NEW t \in Stacks, NEW i \in InPrinter(t), NEW q \in Readers, Reads(q, t)'
        PROVE  i \notin reads'[q].batch
    BY <1>3, <2>1, <2>2 DEF Printing
  <2>3. \A t \in Stacks : InPrinter(t)' = InPrinter(t)
    BY <1>6 DEF InPrinter
  <2> QED BY <1>3, <1>6, <2>2, <2>3 DEF Printing
<1> QED BY <1>7, <1>8, <1>9, <1>10, <1>11

\* The end of a read that is over, with a print or without.
LEMMA ReadEndsKeeps ==
  ASSUME MonitorInv, NEW r \in Readers, reads[r].state = "read",
         reads' = [reads EXCEPT ![r] = Idle],
         UNCHANGED <<cfnVars, active, list, cur, done, seen, polls>>,
         Prints \/ UNCHANGED <<buffer, shown>>,
         timer' \in BOOLEAN, timer' => timer \/ r = "tick",
         stop' \in {"no", "waiting", "final", "over", "died"}
  PROVE  Monitoring' /\ Downwards' /\ Endings' /\ Covered' /\ Printing'
<1>1. Monitoring /\ Downwards /\ Endings /\ Covered /\ Printing
  BY DEF MonitorInv
<1>2. /\ reads \in [Readers -> [state : {"idle", "reading", "read"}, stack : Stacks,
                                at : Nat, batch : SUBSET Nat]]
      /\ log \in [Stacks -> Seq(Event)] /\ Root \in Stacks /\ Len(log[Root]) \in Nat
  BY <1>1 DEF Monitoring, Stacks
<1>3. reads'[r] = Idle /\ \A q \in Readers : q # r => reads'[q] = reads[q]
  BY <1>2
<1>4. UNCHANGED <<log, hit, active, list, cur, done, seen, polls>>
  BY DEF cfnVars
<1>5. \A q \in Readers, t \in Stacks :
        Reads(q, t)' <=> Reads(q, t)
  BY <1>3 DEF Reads, Idle
<1>6. \A q \in Readers, t \in Stacks : Reads(q, t) =>
        reads'[q].batch = reads[q].batch /\ reads'[q].at = reads[q].at
  BY <1>3 DEF Reads
<1>7. /\ buffer' \in [Stacks -> Seq(Nat)] /\ shown' \in [Stacks -> Seq(Nat)]
      /\ Printing'
  <2>1. CASE Prints
    BY <1>4, <1>5, <1>6, <2>1, PrintKeeps
  <2>2. CASE UNCHANGED <<buffer, shown>>
    <3>1. \A t \in Stacks : InPrinter(t)' = InPrinter(t)
      BY <2>2 DEF InPrinter
    <3>2. Printing'
      BY <1>1, <1>4, <1>5, <1>6, <2>2, <3>1 DEF Printing
    <3> QED BY <1>1, <2>2, <3>2 DEF Monitoring
  <2> QED BY <2>1, <2>2
<1>8. Monitoring'
  <2>1. reads' \in [Readers -> [state : {"idle", "reading", "read"}, stack : Stacks,
                                at : Nat, batch : SUBSET Nat]]
    BY <1>2 DEF Idle
  <2>2. \A t \in Stacks : OwnOf(t)' = OwnOf(t)
    BY <1>4 DEF OwnOf
  <2>3. timer' => reads'["tick"].state = "idle"
    BY <1>1, <1>3 DEF Monitoring, Readers, Idle
  <2>4. /\ log' \in [Stacks -> Seq(Event)] /\ hit' \subseteq Faults
        /\ active' \in BOOLEAN /\ list' \in Seq(Stacks \cup {Name}) /\ Contains(list', Name)
        /\ cur' \in Nat /\ polls' \in Nat /\ cur' <= polls' /\ polls' <= MaxPolls
        /\ done' \subseteq Stacks
    BY <1>1, <1>4 DEF Monitoring
  <2>5. seen' \in [Stacks -> SUBSET Nat] /\ \A t \in Stacks : seen'[t] \subseteq OwnOf(t)'
    BY <1>1, <1>4, <2>2 DEF Monitoring
  <2> QED BY <1>7, <2>1, <2>3, <2>4, <2>5 DEF Monitoring
<1>9. Downwards'
  <2> SUFFICES ASSUME NEW q \in Readers
               PROVE  /\ reads'[q].at <= Len(log[reads'[q].stack])
                      /\ reads'[q].batch \subseteq seen[reads'[q].stack]
                      /\ \A i \in seen[reads'[q].stack] :
                           reads'[q].state = "reading" => (i \in reads'[q].batch <=> reads'[q].at < i)
    BY <1>4 DEF Downwards
  <2>1. CASE q = r
    BY <1>2, <1>3, <2>1 DEF Idle
  <2>2. CASE q # r
    BY <1>1, <1>3, <2>2 DEF Downwards
  <2> QED BY <2>1, <2>2
<1>10. Endings'
  BY <1>1, <1>4 DEF Endings
<1>11. Covered'
  <2>1. \A t \in Stacks : \A j, i : ToCome(t, j, i) => ToCome(t, j, i)'
    BY <1>5, <1>6 DEF ToCome
  <2>2. \A t \in Stacks : \A j : Passed(t, j)' <=> Passed(t, j)
    BY <1>4 DEF Passed
  <2> QED BY <1>1, <1>4, <2>1, <2>2 DEF Covered
<1> QED BY <1>7, <1>8, <1>9, <1>10, <1>11

\* What leaves histories, list, records, reads and printer alone.
LEMMA QuietKeeps ==
  ASSUME MonitorInv,
         UNCHANGED <<cfnVars, list, cur, done, seen, reads, buffer, shown, polls>>,
         active' \in BOOLEAN, timer' \in BOOLEAN, timer' => timer,
         stop' \in {"no", "waiting", "final", "over", "died"}
  PROVE  Monitoring' /\ Downwards' /\ Endings' /\ Covered' /\ Printing'
<1>1. UNCHANGED <<log, hit, list, cur, done, seen, reads, buffer, shown, polls>>
  BY DEF cfnVars
<1>2. Monitoring /\ Downwards /\ Endings /\ Covered /\ Printing
  BY DEF MonitorInv
<1>3. Monitoring'
  <2>1. \A t \in Stacks : OwnOf(t)' = OwnOf(t)
    BY <1>1 DEF OwnOf
  <2> QED BY <1>1, <1>2, <2>1 DEF Monitoring
<1>4. Downwards' /\ Endings'
  BY <1>1, <1>2 DEF Downwards, Endings
<1>5. Covered'
  BY <1>1, <1>2 DEF Covered, Passed, ToCome, Reads
<1>6. Printing'
  BY <1>1, <1>2 DEF Printing, InPrinter, Reads
<1> QED BY <1>3, <1>4, <1>5, <1>6

\* Every step keeps the invariant.
LEMMA MonitorStep == MonitorInv /\ [Next]_vars => MonitorInv'
<1> DEFINE Rest == Monitoring /\ Downwards /\ Endings /\ Covered /\ Printing
<1> SUFFICES ASSUME MonitorInv, [Next]_vars PROVE Rest'
  BY ReadersStep DEF MonitorInv
<1>1. Monitoring /\ ReadersInv
  BY DEF MonitorInv
<1>2. CASE UNCHANGED vars
  BY <1>1, <1>2, QuietKeeps DEF vars, cfnVars, monVars, Monitoring
<1>3. ASSUME \/ \E s \in Stacks : ResourceEvent(s)
             \/ \E n \in Nested : NestedBegins(n) \/ NestedEnds(n) \/ NestedEndSeen(n)
             \/ RootEnds
      PROVE  Rest'
  BY <1>3, WritesKeep
<1>4. ASSUME NEW r \in Readers, PageOfMany(r) \/ LastPage(r) PROVE Rest'
  BY <1>4, PagesKeep
<1>5. ASSUME NEW r \in Readers, Throttled(r) PROVE Rest'
  BY <1>5, ThrottledKeeps
<1>6. ASSUME NEW r \in Readers, Dies(r) PROVE Rest'
  BY <1>6, DiesKeeps
<1>7. CASE Tick
  <2>1. "tick" \in Readers /\ reads["tick"].state # "reading"
    BY <1>1, <1>7 DEF Tick, Monitoring, Readers
  <2>2. active' \in BOOLEAN /\ timer' = FALSE /\ timer' \in BOOLEAN
        /\ stop' \in {"no", "waiting", "final", "over", "died"}
    BY <1>1, <1>7 DEF Tick, Monitoring
  <2>3. ReadBegins("tick") /\ UNCHANGED <<cfnVars, list, done, seen, buffer, shown>>
    BY <1>7 DEF Tick
  <2> QED BY <2>1, <2>2, <2>3, ReadBeginsKeeps
<1>8. CASE FinalPoll
  <2>1. "final" \in Readers /\ reads["final"].state # "reading"
    BY <1>1, <1>8 DEF FinalPoll, ReadersInv, Readers
  <2>2. active' \in BOOLEAN /\ stop' \in {"no", "waiting", "final", "over", "died"}
    BY <1>1, <1>8 DEF FinalPoll, Monitoring
  <2>3. ReadBegins("final") /\ UNCHANGED <<cfnVars, list, done, seen, buffer, shown>>
    BY <1>8 DEF FinalPoll
  <2>4. timer' = timer /\ timer \in BOOLEAN /\ "final" # "tick"
    BY <1>1, <1>8 DEF FinalPoll, Monitoring
  <2> QED BY <2>1, <2>2, <2>3, <2>4, ReadBeginsKeeps
<1>9. CASE TickEnds
  <2>1. "tick" \in Readers /\ reads["tick"].state = "read" /\ reads' = [reads EXCEPT !["tick"] = Idle]
    BY <1>9 DEF TickEnds, Readers
  <2>2. /\ UNCHANGED <<cfnVars, active, list, cur, done, seen, polls>>
        /\ Prints \/ UNCHANGED <<buffer, shown>>
        /\ timer' \in BOOLEAN
        /\ stop' \in {"no", "waiting", "final", "over", "died"}
    BY <1>1, <1>9 DEF TickEnds, Monitoring
  <2> QED BY <2>1, <2>2, ReadEndsKeeps
<1>10. CASE FinalPrint
  <2>1. "final" \in Readers /\ reads["final"].state = "read" /\ reads' = [reads EXCEPT !["final"] = Idle]
    BY <1>10 DEF FinalPrint, Readers
  <2>2. /\ UNCHANGED <<cfnVars, active, list, cur, done, seen, polls>>
        /\ Prints /\ timer' = timer /\ timer \in BOOLEAN
        /\ stop' \in {"no", "waiting", "final", "over", "died"}
    BY <1>1, <1>10 DEF FinalPrint, Monitoring
  <2> QED BY <2>1, <2>2, ReadEndsKeeps
<1>11. CASE Stop
  BY <1>1, <1>11, QuietKeeps DEF Stop
<1> QED
  BY <1>2, <1>3, <1>4, <1>5, <1>6, <1>7, <1>8, <1>9, <1>10, <1>11 DEF Next

-----------------------------------------------------------------------------
(* The properties *)

\* Between two steps the monitor, the printer and the histories agree.
THEOREM MonitorCorrect == Spec => []MonitorInv
BY MonitorInit, MonitorStep, PTL DEF Spec

\* The types of the model's variables hold throughout.
THEOREM MonitorTyped == Spec => []TypeOK
<1>1. MonitorInv => TypeOK
  <2> SUFFICES ASSUME MonitorInv PROVE TypeOK
    OBVIOUS
  <2>1. Monitoring /\ Downwards /\ Printing
    BY DEF MonitorInv
  <2>2. \A s \in Stacks : log[s] \in Seq(Event) /\ OwnOf(s) \subseteq DOMAIN log[s]
    BY <2>1 DEF Monitoring, OwnOf
  <2>3. \A s \in Stacks : seen[s] \subseteq DOMAIN log[s]
    BY <2>1, <2>2 DEF Monitoring
  <2>4. ASSUME NEW r \in Readers
        PROVE  /\ reads[r].state \in {"idle", "reading", "read"}
               /\ reads[r].at \in 0..Len(log[reads[r].stack])
               /\ reads[r].batch \subseteq seen[reads[r].stack]
    <3>1. reads[r].state \in {"idle", "reading", "read"}
      BY <2>1 DEF Monitoring
    <3> QED BY <3>1, ReadTyped
  <2>5. \A s \in Stacks : Range(buffer[s]) \cup Range(shown[s]) \subseteq seen[s]
    BY <2>1 DEF Printing, InPrinter
  <2>6. cur \in 0..MaxPolls /\ polls \in 0..MaxPolls
    BY <2>1, MonitorAssumption DEF Monitoring
  <2> QED BY <2>1, <2>3, <2>4, <2>5, <2>6 DEF Monitoring, TypeOK
<1> QED BY <1>1, MonitorCorrect, PTL

\* Between two reads no event that is recorded has an unrecorded one before it:
\* the pages of a read meet what is recorded already (stack-event-monitor.ts:90).
THEOREM NothingMissed == Spec => []NoGaps
<1>1. MonitorInv => NoGaps
  <2> SUFFICES ASSUME MonitorInv, BetweenReads, "throttle" \notin hit,
                      NEW s \in Stacks, NEW i \in seen[s], NEW j \in OwnOf(s) \cap (1..i)
               PROVE  j \in seen[s]
    BY DEF NoGaps
  <2>1. i \in Nat /\ j \in Nat \ {0} /\ j <= i
    BY DEF MonitorInv, Monitoring
  <2>2. {"throttle", "error"} \cap hit = {} /\ \A r \in Readers : reads[r].state # "reading"
    BY DEF BetweenReads
  <2>3. Passed(s, j)
    BY <2>1, <2>2 DEF MonitorInv, Covered, ToCome, Reads
  <2> QED BY <2>3 DEF Passed, OwnOf
<1> QED BY <1>1, MonitorCorrect, PTL

\* A nested stack that runs is on the list of stacks from the read on that came
\* past its beginning (processNestedStack, stack-event-monitor.ts:166-177).
THEOREM RunningMonitored == Spec => []RunningIsMonitored
<1>1. MonitorInv => RunningIsMonitored
  <2> SUFFICES ASSUME MonitorInv, BetweenReads, hit = {}, NEW n \in Nested, Running(n),
                      NEW i \in seen[Root], NEW j \in 1..Len(log[Root]),
                      j < i, log[Root][j] = Begins(n)
               PROVE  Contains(list, n)
    BY DEF RunningIsMonitored
  <2>1. Root \in Stacks /\ n \in Stacks /\ n # Root
    BY NamesDiffer DEF Stacks
  <2>2. i \in Nat /\ j \in Nat \ {0} /\ j <= i
    BY <2>1 DEF MonitorInv, Monitoring
  <2>3. \A r \in Readers : reads[r].state # "reading"
    BY DEF BetweenReads
  <2>4. Passed(Root, j)
    BY <2>1, <2>2, <2>3 DEF MonitorInv, Covered, ToCome, Reads
  <2>5. Contains(list, n) \/ Contains(log[n], Ends(n))
    BY <2>4 DEF Passed
  <2>6. Says(log[n], n) = "begins"
    BY <2>1, LastSaidSays DEF Running
  <2>7. ~Contains(log[n], Ends(n))
    BY <2>6 DEF MonitorInv, Endings
  <2> QED BY <2>5, <2>7
<1> QED BY <1>1, MonitorCorrect, PTL

\* What a print adds is newer, stack by stack, than all that was printed before
\* (addEventActivity and print, stack-progress-printer.ts:127-161).
THEOREM PrintsOnlyNewer == Spec => ShowsOnlyNewer
<1> DEFINE Newer ==
      \A s \in Stacks :
        LET added == SubSeq(shown'[s], Len(shown[s]) + 1, Len(shown'[s]))
        IN IsInjective(added) /\ \A i \in Range(shown[s]), j \in Range(added) : i < j
<1>1. MonitorInv /\ [Next]_vars => [Newer]_shown
  <2> SUFFICES ASSUME MonitorInv, [Next]_vars, shown' # shown PROVE Newer
    OBVIOUS
  <2>1. Prints
    BY DEF Next, ResourceEvent, NestedBegins, NestedEnds, NestedEndSeen, RootEnds, Writes,
           PageOfMany, LastPage, Throttled, Dies, Tick, TickEnds, Stop, FinalPoll, FinalPrint,
           vars, monVars
  <2> SUFFICES ASSUME NEW s \in Stacks
               PROVE  LET added == SubSeq(shown'[s], Len(shown[s]) + 1, Len(shown'[s]))
                      IN /\ IsInjective(added)
                         /\ \A i \in Range(shown[s]), j \in Range(added) : i < j
    OBVIOUS
  <2>2. SubSeq(shown'[s], Len(shown[s]) + 1, Len(shown'[s])) = Reverse(buffer[s])
    BY <2>1, PrintAdds
  <2>3. /\ buffer[s] \in Seq(Nat) /\ IsInjective(buffer[s])
        /\ \A i \in Range(shown[s]), j \in Range(buffer[s]) : i < j
    BY DEF MonitorInv, Monitoring, Printing
  <2>4. IsInjective(Reverse(buffer[s])) /\ Range(Reverse(buffer[s])) = Range(buffer[s])
    BY <2>3, ReversedPlaces
  <2> QED BY <2>2, <2>3, <2>4
<1>2. Spec => [][Newer]_shown
  <2> HIDE DEF Newer
  <2> QED BY <1>1, MonitorCorrect, PTL DEF Spec
<1> QED BY <1>2 DEF ShowsOnlyNewer
=============================================================================
