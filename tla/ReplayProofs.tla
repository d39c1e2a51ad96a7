---------------------------- MODULE ReplayProofs ----------------------------
(***************************************************************************)
(* What Replay guarantees for every buffer: a replay that meets no break   *)
(* and applies at least one event leaves exactly the updates up to the id  *)
(* it ends at; and what it says of a replay is what the loop of            *)
(* on_snapshot computes.  No bound on ids or lengths.                      *)
(***************************************************************************)
EXTENDS Replay, WellFoundedInduction, FiniteSetTheorems, TLAPS

(* A nonempty set of naturals has a least element. *)
LEMMA LeastExists ==
  ASSUME NEW S \in SUBSET Nat, S # {}
  PROVE  \E m \in S : \A k \in S : m <= k
<1>1. PICK m \in S : \A k \in S : ~(<<k, m>> \in OpToRel(<, Nat))
  BY WFMin, NatLessThanWellFounded
<1>2. \A k \in S : ~(k < m)
  BY <1>1 DEF OpToRel
<1> QED
  BY <1>2

(* So has a nonempty bounded one a greatest. *)
LEMMA GreatestExists ==
  ASSUME NEW n \in Nat, NEW S \in SUBSET (1..n), S # {}
  PROVE  \E m \in S : \A k \in S : k <= m
<1> DEFINE T == {n - k : k \in S}
<1>1. T \in SUBSET Nat /\ T # {}
  <2>1. T \in SUBSET Nat
    OBVIOUS
  <2>2. PICK k \in S : TRUE
    OBVIOUS
  <2>3. n - k \in T
    OBVIOUS
  <2> QED
    BY <2>1, <2>3
<1>2. PICK t \in T : \A k \in T : t <= k
  BY <1>1, LeastExists
<1>3. PICK m \in S : t = n - m
  OBVIOUS
<1>4. \A k \in S : n - m <= n - k
  BY <1>2, <1>3
<1> QED
  BY <1>4

(* Max, as Replay uses it, is that element. *)
LEMMA MaxIsGreatest ==
  ASSUME NEW n \in Nat, NEW S \in SUBSET (1..n), S # {}
  PROVE  Max(S) \in S /\ \A k \in S : k <= Max(S)
<1>1. \E m \in S : \A k \in S : k <= m
  BY GreatestExists
<1> QED
  BY <1>1 DEF Max

(* So is it of a finite set of naturals.  Of the nonempty subsets without  *)
(* a greatest element take a smallest: without one of its elements it has  *)
(* a greatest, and the larger of the two is the greatest of it.            *)
LEMMA FiniteMaxIsGreatest ==
  ASSUME NEW S \in SUBSET Nat, IsFiniteSet(S), S # {}
  PROVE  Max(S) \in S /\ \A k \in S : k <= Max(S)
<1> DEFINE HasGreatest(T) == \E m \in T : \A k \in T : k <= m
           Bad == {T \in SUBSET S : T # {} /\ ~HasGreatest(T)}
           Sizes == {Cardinality(T) : T \in Bad}
<1>1. \A T \in SUBSET S : IsFiniteSet(T) /\ Cardinality(T) \in Nat
  BY FS_Subset, FS_CardinalityType
<1>2. HasGreatest(S)
  <2>1. SUFFICES ASSUME Bad # {} PROVE FALSE
    OBVIOUS
  <2>2. Sizes \in SUBSET Nat /\ Sizes # {}
    BY <1>1, <2>1
  <2>3. PICK size \in Sizes : \A k \in Sizes : size <= k
    <3> HIDE DEF Sizes
    <3> QED
      BY <2>2, LeastExists
  <2>4. PICK T \in Bad : size = Cardinality(T)
    OBVIOUS
  <2>5. PICK x \in T : TRUE
    OBVIOUS
  <2> DEFINE Rest == T \ {x}
  <2>6. Rest \in SUBSET S /\ Cardinality(Rest) = Cardinality(T) - 1
    BY <1>1, FS_RemoveElement
  <2>7. Rest \notin Bad
    <3>1. SUFFICES ASSUME Rest \in Bad PROVE FALSE
      OBVIOUS
    <3>2. Cardinality(Rest) \in Sizes
      BY <3>1
    <3>3. Cardinality(T) <= Cardinality(Rest) /\ Cardinality(T) \in Nat
      BY <1>1, <2>3, <2>4, <3>2
    <3> QED
      BY <2>6, <3>3
  <2>8. x \in Nat /\ T \in SUBSET Nat
    BY <2>5
  <2>9. CASE Rest = {}
    BY <2>4, <2>8, <2>9
  <2>10. CASE HasGreatest(Rest)
    <3>1. PICK m \in Rest : \A k \in Rest : k <= m
      BY <2>10
    <3>2. CASE x <= m
      BY <2>4, <2>8, <3>1, <3>2
    <3>3. CASE m <= x
      BY <2>4, <2>5, <2>8, <3>1, <3>3
    <3> QED
      BY <2>8, <3>1, <3>2, <3>3
  <2> QED
    BY <2>6, <2>7, <2>9, <2>10
<1> QED
  BY <1>2 DEF Max

(* Every element of K but the first has one just before it. *)
LEMMA PredecessorExists ==
  ASSUME NEW n \in Nat, NEW K \in SUBSET (1..n), NEW j \in K,
         NEW i \in K, i < j
  PROVE  \E p \in K : Adjacent(K, p, j)
<1> DEFINE S == {k \in K : k < j}
<1>1. S \in SUBSET (1..n) /\ S # {}
  OBVIOUS
<1>2. PICK p \in S : \A k \in S : k <= p
  BY <1>1, GreatestExists
<1>3. p < j /\ \A k \in K : k <= p \/ j <= k
  BY <1>2
<1> QED
  BY <1>3 DEF Adjacent

(* The buffered events a snapshot leaves to replay are some of the buffer. *)
LEMMA ReplayableType ==
  ASSUME NEW E, NEW buf \in Seq(E), NEW lui
  PROVE  /\ Len(buf) \in Nat
         /\ Replayable(buf, lui) \in SUBSET (1..Len(buf))
         /\ Replayed(buf, lui) \subseteq Replayable(buf, lui)
         /\ \A i \in Replayable(buf, lui) : buf[i] \in E /\ buf[i].u >= lui
BY DEF Replayable, Replayed

(* The ids of a stream event are naturals, in order. *)
LEMMA StreamEventIds ==
  ASSUME NEW ev \in StreamEvent
  PROVE  /\ ev.u \in Nat /\ ev.pu \in Nat /\ ev.U \in Nat \ {0}
         /\ ev.U = ev.pu + 1 /\ ev.U <= ev.u
BY DEF StreamEvent

(* A replay ends at a natural id: that of an event it applied if there is  *)
(* one, else the snapshot's.                                               *)
LEMMA ReplayedToNatural ==
  ASSUME NEW E, NEW buf \in Seq(E), \A e \in E : e.u \in Nat, NEW lui \in Nat
  PROVE  ReplayedTo(buf, lui) \in Nat
<1> DEFINE n == Len(buf)
           R == Replayed(buf, lui)
<1>1. /\ n \in Nat /\ R \in SUBSET (1..n)
      /\ \A i \in R : buf[i] \in E
  BY ReplayableType
<1>2. ReplayedTo(buf, lui) = IF R = {} THEN lui ELSE buf[Max(R)].u
  BY DEF ReplayedTo
<1> HIDE DEF n, R
<1>3. CASE R # {}
  <2>1. Max(R) \in R
    BY <1>1, <1>3, MaxIsGreatest
  <2> QED
    BY <1>1, <1>2, <1>3, <2>1
<1> QED
  BY <1>2, <1>3

(* So it does for the venue's events.                                      *)
LEMMA ReplayedToType ==
  ASSUME NEW buf \in Seq(StreamEvent), NEW lui \in Nat
  PROVE  ReplayedTo(buf, lui) \in Nat
BY ReplayedToNatural, StreamEventIds

(* The replayed events chain: the first starts at or before the snapshot,  *)
(* each later one right after its predecessor.                             *)
LEMMA ReplayChains ==
  ASSUME NEW buf \in Seq(StreamEvent), NEW lui \in Nat,
         Breaks(buf, lui) = {}
  PROVE  LET K == Replayable(buf, lui) IN
         /\ Replayed(buf, lui) = K
         /\ \A j \in K : (\A i \in K : j <= i) => buf[j].U <= lui
         /\ \A i, j \in K : Adjacent(K, i, j) => buf[j].U = buf[i].u + 1
<1> DEFINE K == Replayable(buf, lui)
<1>1. Replayed(buf, lui) = K
  BY DEF Replayed
<1>2. K \subseteq 1..Len(buf) /\ \A i \in K : buf[i] \in StreamEvent
  BY ReplayableType
<1>3. \A j \in K : ~((\A i \in K : j <= i) /\ buf[j].U > lui)
  BY DEF Breaks
<1>4. \A j \in K : ~(\E i \in K : Adjacent(K, i, j) /\ buf[j].pu # buf[i].u)
  BY DEF Breaks
<1>5. \A j \in K : /\ buf[j].U \in Nat
                    /\ buf[j].U = buf[j].pu + 1
  BY <1>2, StreamEventIds
<1> HIDE DEF K
<1>6. \A j \in K : (\A i \in K : j <= i) => buf[j].U <= lui
  BY <1>3, <1>5
<1>7. \A i, j \in K : Adjacent(K, i, j) => buf[j].U = buf[i].u + 1
  BY <1>4, <1>5
<1> QED
  BY <1>1, <1>6, <1>7 DEF K

(* Later events of an unbroken replay end later, if every event ends after *)
(* the one it names.                                                       *)
LEMMA ReplayAscends ==
  ASSUME NEW E, \A e \in E : e.u \in Nat /\ e.pu \in Nat /\ e.pu < e.u,
         NEW buf \in Seq(E), NEW lui,
         Breaks(buf, lui) = {},
         NEW i \in Replayable(buf, lui), NEW m \in Replayable(buf, lui), i <= m
  PROVE  buf[i].u <= buf[m].u
<1> DEFINE n == Len(buf)
           K == Replayable(buf, lui)
           T == {j \in K : i <= j /\ buf[j].u < buf[i].u}
<1>1. n \in Nat /\ K \in SUBSET (1..n) /\ \A j \in K : buf[j] \in E
  BY ReplayableType
<1>2. \A p, j \in K : Adjacent(K, p, j) => buf[j].pu = buf[p].u
  <2>1. \A j \in K : j \notin Breaks(buf, lui)
    OBVIOUS
  <2> QED
    BY <2>1 DEF Breaks
<1>3. i \in K /\ m \in K
  OBVIOUS
<1> HIDE DEF n, K
<1>4. \A j \in K : j \in Nat /\ buf[j].u \in Nat /\ buf[j].pu \in Nat /\ buf[j].pu < buf[j].u
  BY <1>1
<1>5. SUFFICES ASSUME T # {} PROVE FALSE
  BY <1>3, <1>4
<1>6. PICK j \in T : \A k \in T : j <= k
  <2>1. T \in SUBSET Nat
    BY <1>4
  <2> HIDE DEF T
  <2> QED
    BY <1>5, <2>1, LeastExists
<1>7. j \in K /\ i < j
  BY <1>3, <1>4, <1>6
<1>8. PICK p \in K : Adjacent(K, p, j)
  BY <1>1, <1>3, <1>7, PredecessorExists
<1>9. i <= p /\ p < j
  BY <1>3, <1>4, <1>7, <1>8 DEF Adjacent
<1>10. buf[p].u >= buf[i].u
  BY <1>3, <1>4, <1>6, <1>9
<1>11. buf[j].pu = buf[p].u
  BY <1>2, <1>7, <1>8
<1>12. /\ buf[j].u < buf[i].u /\ buf[j].pu < buf[j].u
       /\ buf[i].u \in Nat /\ buf[j].u \in Nat /\ buf[j].pu \in Nat /\ buf[p].u \in Nat
  BY <1>3, <1>4, <1>6, <1>7, <1>8
<1>13. \A a, b, c, d \in Nat : ~(c < a /\ d < c /\ d = b /\ b >= a)
  OBVIOUS
<1> QED
  BY <1>10, <1>11, <1>12, <1>13

(* After an unbroken replay the book is past everything that was buffered: *)
(* what was not replayed was in the snapshot.                              *)
LEMMA UnbrokenIsPast ==
  ASSUME NEW E, \A e \in E : e.u \in Nat /\ e.pu \in Nat /\ e.pu < e.u,
         NEW buf \in Seq(E), NEW lui \in Nat,
         Breaks(buf, lui) = {},
         NEW i \in 1..Len(buf)
  PROVE  buf[i].u <= ReplayedTo(buf, lui)
<1> DEFINE K == Replayable(buf, lui)
<1>1. Len(buf) \in Nat /\ K \in SUBSET (1..Len(buf)) /\ Replayed(buf, lui) = K
  BY ReplayableType DEF Replayed
<1>2. i \in K \/ buf[i].u < lui
  BY DEF Replayable
<1>3. \A j \in 1..Len(buf) : buf[j].u \in Nat
  OBVIOUS
<1>4. ReplayedTo(buf, lui) = IF K = {} THEN lui ELSE buf[Max(K)].u
  BY <1>1 DEF ReplayedTo
<1>5. \A j \in K : buf[j].u >= lui
  BY ReplayableType
<1>6. CASE K = {}
  <2>1. i \notin K
    BY <1>6
  <2> QED
    BY <1>2, <1>3, <1>4, <1>6, <2>1
<1>7. CASE K # {}
  <2> DEFINE top == Max(K)
  <2>1. top \in K /\ \A k \in K : k <= top
    <3> HIDE DEF K
    <3> QED
      BY <1>1, <1>7, MaxIsGreatest
  <2>2. ReplayedTo(buf, lui) = buf[top].u
    BY <1>4, <1>7
  <2> HIDE DEF top
  <2>3. CASE i \in K
    <3>1. i <= top
      BY <2>1, <2>3
    <3> QED
      BY <2>1, <2>2, <2>3, <3>1, ReplayAscends
  <2>4. CASE buf[i].u < lui
    BY <1>1, <1>3, <1>5, <2>1, <2>2, <2>4
  <2> QED
    BY <1>2, <2>3, <2>4
<1> QED
  BY <1>6, <1>7

(* An unbroken replay of at least one event leaves exactly the updates up  *)
(* to the id the book ends at: no hole between snapshot and stream, and    *)
(* nothing beyond (on_snapshot's bridge and pu checks).                    *)
THEOREM ReplayComplete ==
  ASSUME NEW buf \in Seq(StreamEvent), NEW lui \in Nat,
         Breaks(buf, lui) = {}, Replayed(buf, lui) # {}
  PROVE  (1..lui) \cup UNION {Covered(buf[i]) : i \in Replayed(buf, lui)}
           = 1..ReplayedTo(buf, lui)
<1> DEFINE n == Len(buf)
           K == Replayable(buf, lui)
           m == Max(K)
           last == buf[m].u
<1>1. /\ n \in Nat /\ K \in SUBSET (1..n)
      /\ \A i \in K : buf[i] \in StreamEvent /\ buf[i].u >= lui
  BY ReplayableType
<1>2. Replayed(buf, lui) = K /\ K # {}
  BY ReplayChains
<1>3. /\ \A j \in K : (\A i \in K : j <= i) => buf[j].U <= lui
      /\ \A i, j \in K : Adjacent(K, i, j) => buf[j].U = buf[i].u + 1
  BY ReplayChains
<1>4. \A i, j \in K : i <= j => buf[i].u <= buf[j].u
  <2>1. \A ev \in StreamEvent : ev.u \in Nat /\ ev.pu \in Nat /\ ev.pu < ev.u
    BY DEF StreamEvent
  <2> QED
    BY <2>1, ReplayAscends
<1>5. ReplayedTo(buf, lui) = last
  BY <1>2 DEF ReplayedTo
<1> HIDE DEF n, K
<1>6. m \in K /\ \A i \in K : i <= m
  BY <1>1, <1>2, MaxIsGreatest
<1>7. \A i \in K : /\ i \in Nat /\ buf[i].u \in Nat /\ buf[i].U \in Nat \ {0}
                    /\ buf[i].U <= buf[i].u /\ lui <= buf[i].u
  BY <1>1 DEF StreamEvent
<1> HIDE DEF m
<1>8. last \in Nat /\ lui <= last
  BY <1>6, <1>7
<1>9. \A i \in K : Covered(buf[i]) \subseteq 1..last
  <2> TAKE i \in K
  <2>1. buf[i].u <= last
    BY <1>4, <1>6
  <2> QED
    BY <1>7, <1>8, <2>1 DEF Covered
<1>10. ASSUME NEW x \in 1..last, ~(x \in 1..lui)
       PROVE  \E i \in K : x \in Covered(buf[i])
  <2> DEFINE S == {i \in K : buf[i].u >= x}
  <2>1. S \in SUBSET Nat /\ m \in S
    BY <1>6, <1>7, <1>8
  <2>2. PICK i \in S : \A k \in S : i <= k
    <3> HIDE DEF S
    <3> QED
      BY <2>1, LeastExists
  <2>3. i \in K /\ x <= buf[i].u /\ lui < x
    BY <1>7, <1>8, <1>10, <2>2
  <2>4. CASE \A k \in K : i <= k
    <3>1. buf[i].U <= lui
      BY <1>3, <2>3, <2>4
    <3> QED
      BY <1>7, <1>8, <2>3, <3>1 DEF Covered
  <2>5. CASE \E k \in K : k < i
    <3>1. PICK p \in K : Adjacent(K, p, i)
      BY <1>1, <2>3, <2>5, PredecessorExists
    <3>2. buf[i].U = buf[p].u + 1
      BY <1>3, <2>3, <3>1
    <3>3. p \notin S
      BY <1>7, <2>2, <2>3, <3>1 DEF Adjacent
    <3>4. buf[p].u < x
      BY <1>7, <1>8, <3>3
    <3> QED
      BY <1>7, <1>8, <2>3, <3>2, <3>4 DEF Covered
  <2> QED
    BY <1>7, <2>3, <2>4, <2>5
<1> DEFINE Levels == (1..lui) \cup UNION {Covered(buf[i]) : i \in K}
<1>11. 1..lui \subseteq 1..last
  BY <1>8
<1>12. Levels \subseteq 1..last
  BY <1>9, <1>11
<1>13. 1..last \subseteq Levels
  BY <1>10
<1> QED
  BY <1>2, <1>5, <1>12, <1>13

(* A replay looks at nothing but the update ids. *)
LEMMA SameIdsReplayAlike ==
  ASSUME NEW E, NEW a \in Seq(E), NEW F, NEW b \in Seq(F), Len(a) = Len(b),
         \A i \in 1..Len(a) : b[i].U = a[i].U /\ b[i].u = a[i].u /\ b[i].pu = a[i].pu,
         NEW lui
  PROVE  /\ Breaks(b, lui) = Breaks(a, lui)
         /\ Replayed(b, lui) = Replayed(a, lui)
         /\ ReplayedTo(b, lui) = ReplayedTo(a, lui)
<1> DEFINE n == Len(a)
           K == Replayable(a, lui)
<1>1. n \in Nat /\ DOMAIN a = 1..n /\ DOMAIN b = 1..n
  OBVIOUS
<1>2. Replayable(b, lui) = K /\ K \in SUBSET (1..n)
  BY <1>1 DEF Replayable
<1>3. Breaks(b, lui) = Breaks(a, lui)
  <2> HIDE DEF K
  <2>1. \A j \in K : b[j].U = a[j].U /\ b[j].u = a[j].u /\ b[j].pu = a[j].pu
    BY <1>2
  <2>2. Breaks(a, lui) =
          {j \in K : \/ (\A i \in K : j <= i) /\ a[j].U > lui
                     \/ \E i \in K : Adjacent(K, i, j) /\ a[j].pu # a[i].u}
    BY DEF Breaks, K
  <2>3. Breaks(b, lui) =
          {j \in K : \/ (\A i \in K : j <= i) /\ b[j].U > lui
                     \/ \E i \in K : Adjacent(K, i, j) /\ b[j].pu # b[i].u}
    BY <1>2 DEF Breaks
  <2> QED
    BY <2>1, <2>2, <2>3
<1>4. Replayed(b, lui) = Replayed(a, lui)
  BY <1>2, <1>3 DEF Replayed
<1>5. CASE Replayed(a, lui) # {}
  <2>1. Replayed(a, lui) \in SUBSET (1..n)
    BY <1>2 DEF Replayed
  <2>2. Max(Replayed(a, lui)) \in 1..n
    BY <1>1, <1>5, <2>1, MaxIsGreatest
  <2> QED
    BY <1>3, <1>4, <1>5, <2>2 DEF ReplayedTo
<1> QED
  BY <1>3, <1>4, <1>5 DEF ReplayedTo

(* buffer_push keeps a sequence of the same events and never exceeds       *)
(* BUFFER_MAX.                                                             *)
LEMMA PushType ==
  ASSUME NEW E, NEW buf \in Seq(E), NEW ev \in E
  PROVE  /\ Push(buf, ev) \in Seq(E)
         /\ Len(buf) <= BufferMax => Len(Push(buf, ev)) <= BufferMax
BY BufferMaxAssumption DEF Push

-----------------------------------------------------------------------------
(* Where the loop is after the first i events, without a loop: what it *)
(* has applied, whether it is still live, and the id it has reached.       *)
AppliedBy(buf, lui, i) == {j \in Replayed(buf, lui) : j <= i}

UnbrokenBy(buf, lui, i) == \A b \in Breaks(buf, lui) : i < b
StartedBy(buf, lui, i) == AppliedBy(buf, lui, i) # {}
ReachedBy(buf, lui, i) ==
  IF StartedBy(buf, lui, i) THEN buf[Max(AppliedBy(buf, lui, i))].u ELSE lui

AfterPrefix(buf, lui, i) ==
  [live |-> UnbrokenBy(buf, lui, i), last |-> ReachedBy(buf, lui, i),
   any |-> StartedBy(buf, lui, i)]

(* The events of a buffer have integer ids.                                *)
EventIds == [U : Int, u : Int, pu : Int]

(* A finite function that satisfies the equations of the loop is the loop: *)
(* the recursive function of Loop is some function that satisfies them,    *)
(* and two of them that differ would differ first somewhere.               *)
LEMMA LoopIsUnique ==
  ASSUME NEW n \in Nat, NEW buf, Len(buf) = n, NEW lui, NEW s,
         s = [i \in 0..n |-> s[i]],
         s[0] = [live |-> TRUE, last |-> lui, any |-> FALSE],
         \A i \in 1..n : s[i] = Iteration(s[i - 1], buf[i], lui)
  PROVE  Loop(buf, lui) = s[n]
<1> DEFINE First == [live |-> TRUE, last |-> lui, any |-> FALSE]
           Body(f) == [i \in 0..Len(buf) |->
                         IF i = 0 THEN First ELSE Iteration(f[i - 1], buf[i], lui)]
           after[i \in 0..Len(buf)] ==
             IF i = 0 THEN First ELSE Iteration(after[i - 1], buf[i], lui)
           Differ == {i \in 0..n : after[i] # s[i]}
<1>1. Loop(buf, lui) = after[n]
  BY DEF Loop
<1>2. s = Body(s)
  <2>1. \A i \in 0..n : i = 0 \/ i \in 1..n
    OBVIOUS
  <2>2. \A i \in 0..n : s[i] = IF i = 0 THEN First ELSE Iteration(s[i - 1], buf[i], lui)
    BY <2>1
  <2> HIDE DEF First
  <2> QED
    BY <2>2
<1>3. \E f : f = Body(f)
  BY <1>2
<1>4. after = Body(after)
  BY <1>3
<1> HIDE DEF after
<1>5. /\ after[0] = s[0]
      /\ \A i \in 1..n : after[i] = Iteration(after[i - 1], buf[i], lui)
  <2>1. \A i \in 0..n : after[i] = IF i = 0 THEN First
                                   ELSE Iteration(after[i - 1], buf[i], lui)
    BY <1>4
  <2>2. 0 \in 0..n
    OBVIOUS
  <2>4. after[0] = First
    BY <2>1, <2>2
  <2>3. ASSUME NEW i \in 1..n
        PROVE  after[i] = Iteration(after[i - 1], buf[i], lui)
    BY <2>1
  <2> QED
    BY <2>3, <2>4
<1>6. SUFFICES ASSUME Differ # {} PROVE FALSE
  BY <1>1
<1>7. PICK m \in Differ : \A k \in Differ : m <= k
  <2>1. Differ \in SUBSET Nat
    OBVIOUS
  <2> HIDE DEF Differ
  <2> QED
    BY <1>6, <2>1, LeastExists
<1>8. m \in 1..n /\ m - 1 \in 0..n /\ m - 1 \notin Differ
  BY <1>5, <1>7
<1>9. after[m - 1] = s[m - 1]
  BY <1>8
<1>10. after[m] = s[m]
  BY <1>5, <1>8, <1>9
<1> QED
  BY <1>7, <1>10

(* Before the first break everything the loop reaches is applied.          *)
LEMMA AppliedBeforeBreak ==
  ASSUME NEW n \in Nat, NEW buf \in Seq(EventIds), Len(buf) = n, NEW lui \in Int,
         NEW i \in 1..n, \A b \in Breaks(buf, lui) : i <= b
  PROVE  AppliedBy(buf, lui, i - 1) = {k \in Replayable(buf, lui) : k < i}
<1>1. Replayable(buf, lui) \in SUBSET (1..n) /\ Breaks(buf, lui) \subseteq Replayable(buf, lui)
  BY DEF Replayable, Breaks
<1> QED
  BY <1>1 DEF AppliedBy, Replayed

(* Once it has given up nothing is.                                        *)
LEMMA AppliedAfterBreak ==
  ASSUME NEW n \in Nat, NEW buf \in Seq(EventIds), Len(buf) = n, NEW lui \in Int,
         NEW i \in 1..n, NEW b \in Breaks(buf, lui), b <= i
  PROVE  AppliedBy(buf, lui, i) = AppliedBy(buf, lui, i - 1)
<1>1. Replayable(buf, lui) \in SUBSET (1..n) /\ Breaks(buf, lui) \subseteq Replayable(buf, lui)
  BY DEF Replayable, Breaks
<1> QED
  BY <1>1 DEF AppliedBy, Replayed

(* An event the loop reaches is a break, or it is applied.                 *)
LEMMA BreakOrApplied ==
  ASSUME NEW n \in Nat, NEW buf \in Seq(EventIds), Len(buf) = n, NEW lui \in Int,
         NEW i \in Replayable(buf, lui), \A b \in Breaks(buf, lui) : i <= b
  PROVE  LET before == AppliedBy(buf, lui, i - 1) IN
         i \in Breaks(buf, lui) <=>
           IF before # {} THEN buf[i].pu # buf[Max(before)].u ELSE buf[i].U > lui
<1> DEFINE K == Replayable(buf, lui)
           before == {k \in K : k < i}
<1>1. K \in SUBSET (1..n) /\ i \in 1..n
  BY DEF Replayable
<1>2. AppliedBy(buf, lui, i - 1) = before
  BY <1>1, AppliedBeforeBreak
<1>3. i \in Breaks(buf, lui) <=>
        \/ (\A k \in K : i <= k) /\ buf[i].U > lui
        \/ \E k \in K : Adjacent(K, k, i) /\ buf[i].pu # buf[k].u
  BY DEF Breaks
<1> HIDE DEF K
<1>4. CASE before = {}
  <2>1. (\A k \in K : i <= k) /\ ~(\E k \in K : Adjacent(K, k, i))
    BY <1>1, <1>4 DEF Adjacent
  <2> QED
    BY <1>2, <1>3, <1>4, <2>1
<1>5. CASE before # {}
  <2>1. before \in SUBSET (1..n)
    BY <1>1
  <2>2. PICK p \in before : p = Max(before) /\ \A k \in before : k <= p
    <3> HIDE DEF before
    <3> QED
      BY <1>5, <2>1, MaxIsGreatest
  <2>3. p \in K /\ p \in 1..n /\ p < i
    BY <1>1
  <2>4. ~(\A k \in K : i <= k) /\ Adjacent(K, p, i)
    BY <1>1, <2>2, <2>3 DEF Adjacent
  <2>5. ASSUME NEW k \in K, Adjacent(K, k, i) PROVE k = p
    <3>1. k < i /\ (p <= k \/ i <= p) /\ k \in 1..n
      BY <1>1, <2>3, <2>5 DEF Adjacent
    <3>2. k <= p
      BY <2>2, <3>1
    <3> QED
      BY <1>1, <2>3, <3>1, <3>2
  <2>6. i \in Breaks(buf, lui) <=> buf[i].pu # buf[p].u
    BY <1>3, <2>3, <2>4, <2>5
  <2> QED
    BY <1>2, <1>5, <2>2, <2>6
<1> QED
  BY <1>4, <1>5

(* The loop, one event on.                                                 *)
LEMMA PrefixIterates ==
  ASSUME NEW n \in Nat, NEW buf \in Seq(EventIds), Len(buf) = n, NEW lui \in Int,
         NEW i \in 1..n
  PROVE  AfterPrefix(buf, lui, i) = Iteration(AfterPrefix(buf, lui, i - 1), buf[i], lui)
<1> DEFINE K == Replayable(buf, lui)
           B == Breaks(buf, lui)
           R == AppliedBy(buf, lui, i)
           S == AppliedBy(buf, lui, i - 1)
           ev == buf[i]
           before == AfterPrefix(buf, lui, i - 1)
           after == AfterPrefix(buf, lui, i)
<1>1. /\ K \in SUBSET (1..n) /\ B \subseteq K
      /\ i \in K <=> ~(ev.u < lui)
  <2>1. ev \in EventIds /\ ev.u \in Int
    <3>1. buf[i] \in EventIds
      OBVIOUS
    <3> QED
      BY <3>1 DEF EventIds
  <2>2. K \in SUBSET (1..n) /\ (i \in K <=> ev.u >= lui)
    BY DEF Replayable
  <2>3. B \subseteq K
    BY DEF Breaks
  <2> QED
    BY <2>1, <2>2, <2>3
<1>2. /\ S \subseteq R /\ \A j \in R : j \in S \/ j = i
      /\ R \in SUBSET (1..i) /\ i \notin S
      /\ i \in R <=> i \in K /\ \A b \in B : i < b
  BY <1>1 DEF AppliedBy, Replayed
<1>3. /\ before.live = UnbrokenBy(buf, lui, i - 1)
      /\ before.last = ReachedBy(buf, lui, i - 1)
      /\ before.any = StartedBy(buf, lui, i - 1)
  BY DEF AfterPrefix
<1>4. /\ UnbrokenBy(buf, lui, i - 1) <=> \A b \in B : i - 1 < b
      /\ UnbrokenBy(buf, lui, i) <=> \A b \in B : i < b
      /\ UnbrokenBy(buf, lui, i - 1) \in BOOLEAN /\ UnbrokenBy(buf, lui, i) \in BOOLEAN
  BY DEF UnbrokenBy
<1>5. /\ StartedBy(buf, lui, i - 1) <=> S # {}
      /\ StartedBy(buf, lui, i) <=> R # {}
      /\ StartedBy(buf, lui, i - 1) \in BOOLEAN /\ StartedBy(buf, lui, i) \in BOOLEAN
  BY DEF StartedBy
<1>6. /\ S # {} => ReachedBy(buf, lui, i - 1) = buf[Max(S)].u
      /\ R # {} => ReachedBy(buf, lui, i) = buf[Max(R)].u
  BY DEF ReachedBy, StartedBy
<1>7. R = S => /\ StartedBy(buf, lui, i) = StartedBy(buf, lui, i - 1)
               /\ ReachedBy(buf, lui, i) = ReachedBy(buf, lui, i - 1)
  BY DEF ReachedBy, StartedBy
<1>8. ASSUME \A b \in B : i <= b, i \in K
      PROVE  i \in B <=> IF S # {} THEN ev.pu # buf[Max(S)].u ELSE ev.U > lui
  BY <1>8, BreakOrApplied
<1>9. SUFFICES after = Iteration(before, ev, lui)
  OBVIOUS
<1>10. /\ before = [live |-> UnbrokenBy(buf, lui, i - 1),
                    last |-> ReachedBy(buf, lui, i - 1),
                    any |-> StartedBy(buf, lui, i - 1)]
       /\ after = [live |-> UnbrokenBy(buf, lui, i), last |-> ReachedBy(buf, lui, i),
                   any |-> StartedBy(buf, lui, i)]
  BY DEF AfterPrefix
<1> HIDE DEF K, B, R, S, ev, before, after
<1>11. CASE \E b \in B : b < i
  <2>1. PICK b \in B : b < i /\ b \in 1..n
    BY <1>1, <1>11
  <2>2. ~(i < b) /\ ~(i - 1 < b)
    BY <2>1
  <2>3. ~UnbrokenBy(buf, lui, i) /\ ~UnbrokenBy(buf, lui, i - 1) /\ i \notin R
    BY <1>2, <1>4, <2>2
  <2>4. R = S
    BY <1>2, <2>3
  <2>5. Iteration(before, ev, lui) = before
    BY <1>3, <2>3 DEF Iteration
  <2> QED
    BY <1>4, <1>7, <1>10, <2>3, <2>4, <2>5
<1>12. CASE (\A b \in B : i <= b) /\ i \notin K
  <2>1. UnbrokenBy(buf, lui, i) /\ UnbrokenBy(buf, lui, i - 1)
    <3>1. ASSUME NEW b \in B PROVE i < b /\ i - 1 < b
      BY <1>1, <1>12
    <3> QED
      BY <1>4, <3>1
  <2>2. R = S
    BY <1>2, <1>12
  <2>3. Iteration(before, ev, lui) = before
    BY <1>1, <1>12 DEF Iteration
  <2> QED
    BY <1>4, <1>7, <1>10, <2>1, <2>2, <2>3
<1>13. CASE (\A b \in B : i <= b) /\ i \in B
  <2>1. ~UnbrokenBy(buf, lui, i) /\ i \notin R
    BY <1>2, <1>4, <1>13
  <2>2. UnbrokenBy(buf, lui, i - 1)
    <3>1. ASSUME NEW b \in B PROVE i - 1 < b
      BY <1>1, <1>13
    <3> QED
      BY <1>4, <3>1
  <2>3. R = S
    BY <1>2, <2>1
  <2>4. i \in K /\ IF S # {} THEN ev.pu # buf[Max(S)].u ELSE ev.U > lui
    BY <1>1, <1>8, <1>13
  <2>5. Iteration(before, ev, lui) =
          [live |-> FALSE, last |-> before.last, any |-> before.any]
    BY <1>1, <1>3, <1>5, <1>6, <2>2, <2>4 DEF Iteration
  <2> QED
    BY <1>3, <1>4, <1>7, <1>10, <2>1, <2>3, <2>5
<1>14. CASE (\A b \in B : i <= b) /\ i \in K /\ i \notin B
  <2>1. UnbrokenBy(buf, lui, i) /\ UnbrokenBy(buf, lui, i - 1)
    <3>1. ASSUME NEW b \in B PROVE i < b /\ i - 1 < b
      BY <1>1, <1>14
    <3> QED
      BY <1>4, <3>1
  <2>2. i \in R
    BY <1>2, <1>4, <1>14, <2>1
  <2>3. Max(R) = i
    <3>1. i \in Nat /\ R \in SUBSET (1..i) /\ R # {}
      BY <1>2, <2>2
    <3>2. Max(R) \in R /\ \A j \in R : j <= Max(R)
      BY <3>1, MaxIsGreatest
    <3>3. Max(R) \in 1..i /\ i <= Max(R)
      BY <2>2, <3>1, <3>2
    <3> QED
      BY <3>3
  <2>4. StartedBy(buf, lui, i) /\ ReachedBy(buf, lui, i) = ev.u
    <3>1. ev = buf[i]
      BY DEF ev
    <3> QED
      BY <1>5, <1>6, <2>2, <2>3, <3>1
  <2>5. ~(IF S # {} THEN ev.pu # buf[Max(S)].u ELSE ev.U > lui)
    BY <1>8, <1>14
  <2>6. Iteration(before, ev, lui) = [live |-> TRUE, last |-> ev.u, any |-> TRUE]
    BY <1>1, <1>3, <1>5, <1>6, <1>14, <2>1, <2>5 DEF Iteration
  <2> QED
    BY <1>4, <1>5, <1>10, <2>1, <2>4, <2>6
<1> QED
  BY <1>1, <1>11, <1>12, <1>13, <1>14

(* Replay says what the loop of on_snapshot computes, for every buffer and *)
(* every snapshot: how far it gets, whether it gives up, and whether it    *)
(* applies an event.                                                       *)
THEOREM ReplayIsLoop ==
  ASSUME NEW buf \in Seq(EventIds), NEW lui \in Int
  PROVE  Loop(buf, lui) = [live |-> Breaks(buf, lui) = {},
                           last |-> ReplayedTo(buf, lui),
                           any |-> Replayed(buf, lui) # {}]
<1> DEFINE n == Len(buf)
           s == [i \in 0..n |-> AfterPrefix(buf, lui, i)]
<1>1. /\ n \in Nat /\ Replayable(buf, lui) \in SUBSET (1..n)
      /\ Breaks(buf, lui) \subseteq Replayable(buf, lui)
      /\ Replayed(buf, lui) \subseteq Replayable(buf, lui)
  BY DEF Replayable, Breaks, Replayed
<1> HIDE DEF n
<1>2. AfterPrefix(buf, lui, 0) = [live |-> TRUE, last |-> lui, any |-> FALSE]
  <2>1. AppliedBy(buf, lui, 0) = {} /\ \A b \in Breaks(buf, lui) : 0 < b
    BY <1>1 DEF AppliedBy
  <2>2. /\ UnbrokenBy(buf, lui, 0) = TRUE /\ StartedBy(buf, lui, 0) = FALSE
        /\ ReachedBy(buf, lui, 0) = lui
    BY <2>1 DEF UnbrokenBy, StartedBy, ReachedBy
  <2> QED
    BY <2>2 DEF AfterPrefix
<1>3. AfterPrefix(buf, lui, n) = [live |-> Breaks(buf, lui) = {},
                                  last |-> ReplayedTo(buf, lui),
                                  any |-> Replayed(buf, lui) # {}]
  <2>1. AppliedBy(buf, lui, n) = Replayed(buf, lui)
    BY <1>1 DEF AppliedBy
  <2>2. (\A b \in Breaks(buf, lui) : n < b) <=> Breaks(buf, lui) = {}
    BY <1>1
  <2>3. /\ UnbrokenBy(buf, lui, n) = (Breaks(buf, lui) = {})
        /\ StartedBy(buf, lui, n) = (Replayed(buf, lui) # {})
        /\ ReachedBy(buf, lui, n) = ReplayedTo(buf, lui)
    BY <2>1, <2>2 DEF UnbrokenBy, StartedBy, ReachedBy, ReplayedTo
  <2> QED
    BY <2>3 DEF AfterPrefix
<1>4. /\ s[0] = [live |-> TRUE, last |-> lui, any |-> FALSE]
      /\ s[n] = AfterPrefix(buf, lui, n)
      /\ s = [i \in 0..n |-> s[i]]
  BY <1>1, <1>2
<1>5. ASSUME NEW i \in 1..n PROVE s[i] = Iteration(s[i - 1], buf[i], lui)
  <2>1. s[i] = AfterPrefix(buf, lui, i) /\ s[i - 1] = AfterPrefix(buf, lui, i - 1)
    BY <1>1
  <2> QED
    BY <1>1, <2>1, PrefixIterates DEF n
<1> HIDE DEF s
<1>6. Loop(buf, lui) = s[n]
  BY <1>1, <1>4, <1>5, LoopIsUnique DEF n
<1> QED
  BY <1>3, <1>4, <1>6
=============================================================================
