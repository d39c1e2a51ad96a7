--------------------------- MODULE UniverseProofs ---------------------------
(***************************************************************************)
(* Universe for every set of symbols, every volumes, caps and shard size:  *)
(* the ranks are a numbering by liquidity, the selection is what was asked *)
(* for, and the shards depend on the tracked symbols only.                 *)
(***************************************************************************)
EXTENDS Universe, FiniteSetTheorems, TLAPS

(* R orders S, totally and without ties. *)
Orders(S, R) ==
  /\ \A a \in S : <<a, a>> \notin R
  /\ \A a, b, c \in S : <<a, b>> \in R /\ <<b, c>> \in R => <<a, c>> \in R
  /\ \A a, b \in S : a # b => <<a, b>> \in R \/ <<b, a>> \in R

(* How many come before each. *)
Places(S, R) == [s \in S |-> Cardinality({r \in S : <<r, s>> \in R})]

(* f numbers S from 0 on, in the order R. *)
Numbers(S, R, f) ==
  /\ Cardinality(S) \in Nat /\ f \in [S -> 0..Cardinality(S) - 1]
  /\ \A a, b \in S : <<a, b>> \in R => f[a] < f[b]
  /\ \A a, b \in S : f[a] = f[b] => a = b
  /\ \A k \in 0..Cardinality(S) - 1 : \E s \in S : f[s] = k

(* The places of a finite set are a numbering of it. *)
LEMMA PlacesNumber ==
  ASSUME NEW S, IsFiniteSet(S), NEW R, Orders(S, R)
  PROVE  Numbers(S, R, Places(S, R))
<1> DEFINE place == Places(S, R)
           B(s) == {r \in S : <<r, s>> \in R}
           n == Cardinality(S)
<1>0. place = [s \in S |-> Cardinality(B(s))]
  BY DEF Places
<1> HIDE DEF place
<1>1. n \in Nat
  BY FS_CardinalityType
<1>2. ASSUME NEW s \in S
      PROVE  /\ IsFiniteSet(B(s)) /\ Cardinality(B(s)) \in 0..n - 1
             /\ place[s] = Cardinality(B(s))
  <2>1. B(s) \subseteq S \ {s}
    BY DEF Orders
  <2>2. IsFiniteSet(S \ {s}) /\ Cardinality(S \ {s}) = n - 1
    BY FS_RemoveElement
  <2>3. /\ IsFiniteSet(B(s)) /\ Cardinality(B(s)) <= Cardinality(S \ {s})
        /\ Cardinality(B(s)) \in Nat
    <3> HIDE DEF B
    <3> QED
      BY <2>1, <2>2, FS_Subset, FS_CardinalityType
  <2>4. place[s] = Cardinality(B(s))
    BY <1>0
  <2> HIDE DEF n
  <2> QED
    BY <1>1, <2>2, <2>3, <2>4
<1>3. ASSUME NEW a \in S, NEW b \in S, <<a, b>> \in R
      PROVE  place[a] < place[b]
  <2>1. B(a) \subseteq B(b) /\ a \in B(b) /\ a \notin B(a)
    BY <1>3 DEF Orders
  <2>2. B(a) # B(b)
    BY <2>1
  <2>3. /\ Cardinality(B(a)) <= Cardinality(B(b))
        /\ Cardinality(B(b)) = Cardinality(B(a)) => B(b) = B(a)
    <3>1. IsFiniteSet(B(b))
      BY <1>2
    <3> HIDE DEF B
    <3> QED
      BY <2>1, <3>1, FS_Subset
  <2>4. /\ Cardinality(B(a)) \in 0..n - 1 /\ Cardinality(B(b)) \in 0..n - 1
        /\ place[a] = Cardinality(B(a)) /\ place[b] = Cardinality(B(b))
    BY <1>2
  <2> HIDE DEF B, n
  <2> QED
    BY <1>1, <2>2, <2>3, <2>4
<1>4. place \in [S -> 0..n - 1]
  BY <1>0, <1>2
<1>5. ASSUME NEW a \in S, NEW b \in S, place[a] = place[b]
      PROVE  a = b
  <2>1. place[a] \in Nat /\ place[b] \in Nat
    BY <1>1, <1>4
  <2>2. ~(place[a] < place[b]) /\ ~(place[b] < place[a])
    BY <1>5, <2>1
  <2>3. a # b => <<a, b>> \in R \/ <<b, a>> \in R
    BY DEF Orders
  <2> QED
    BY <1>3, <2>2, <2>3
<1>6. \A k \in 0..n - 1 : \E s \in S : place[s] = k
  <2>1. place \in Injection(S, 0..n - 1)
    BY <1>4, <1>5 DEF Injection, IsInjective
  <2>2. IsFiniteSet(0..n - 1) /\ Cardinality(0..n - 1) = n
    BY SMTT(30), <1>1, FS_Interval
  <2>3. place \in Surjection(S, 0..n - 1)
    BY <2>1, <2>2, FS_Injection
  <2> QED
    BY <2>3 DEF Surjection
<1> QED
  BY <1>1, <1>3, <1>4, <1>5, <1>6 DEF Numbers, place

(* Sorted puts each symbol at its place, and nothing else. *)
LEMMA SortedIsSort ==
  ASSUME NEW S \in SUBSET Nat, IsFiniteSet(S)
  PROVE  /\ Cardinality(S) \in Nat /\ Sorted(S) \in [1..Cardinality(S) -> S]
         /\ Sorted(S) \in Seq(S) /\ Len(Sorted(S)) = Cardinality(S)
         /\ \A i, j \in 1..Cardinality(S) : Sorted(S)[i] = Sorted(S)[j] => i = j
         /\ ToSet(Sorted(S)) = S
<1> DEFINE R == {p \in S \X S : p[1] < p[2]}
           place == Places(S, R)
           n == Cardinality(S)
           sorted == Sorted(S)
<1>1. \A a, b \in S : <<a, b>> \in R <=> a < b
  OBVIOUS
<1> HIDE DEF R
<1>2. \A s \in S : place[s] = Cardinality({r \in S : r < s})
  <2> SUFFICES ASSUME NEW s \in S PROVE place[s] = Cardinality({r \in S : r < s})
    OBVIOUS
  <2>1. {r \in S : <<r, s>> \in R} = {r \in S : r < s}
    BY <1>1
  <2> QED
    BY <2>1 DEF Places
<1>3. /\ n \in Nat /\ place \in [S -> 0..n - 1]
      /\ \A a, b \in S : place[a] = place[b] => a = b
      /\ \A k \in 0..n - 1 : \E s \in S : place[s] = k
  <2>1. Orders(S, R)
    BY <1>1 DEF Orders
  <2>2. Numbers(S, R, place)
    BY <2>1, PlacesNumber
  <2> HIDE DEF place
  <2> QED
    BY <2>2 DEF Numbers
<1> HIDE DEF place
<1>4. ASSUME NEW i \in 1..n
      PROVE  sorted[i] \in S /\ place[sorted[i]] = i - 1
  <2>1. i - 1 \in 0..n - 1
    BY <1>3
  <2>2. \E s \in S : Cardinality({r \in S : r < s}) = i - 1
    BY <1>2, <1>3, <2>1
  <2>3. sorted[i] = CHOOSE s \in S : Cardinality({r \in S : r < s}) = i - 1
    BY DEF Sorted
  <2> QED
    BY <1>2, <2>2, <2>3
<1>5. sorted \in [1..n -> S]
  <2> DEFINE at(i) == CHOOSE s \in S : Cardinality({r \in S : r < s}) = i - 1
  <2>1. sorted = [i \in 1..n |-> at(i)]
    BY DEF Sorted
  <2> HIDE DEF sorted, n, at
  <2>2. \A i \in 1..n : at(i) \in S
    BY <1>4, <2>1
  <2> QED
    BY <2>1, <2>2
<1>6. sorted \in Seq(S) /\ Len(sorted) = n /\ DOMAIN sorted = 1..n
  BY <1>3, <1>5
<1> HIDE DEF sorted, n
<1>7. ASSUME NEW i \in 1..n, NEW j \in 1..n, sorted[i] = sorted[j]
      PROVE  i = j
  BY <1>3, <1>4, <1>7
<1>8. ToSet(sorted) = S
  <2>1. ToSet(sorted) \subseteq S
    BY <1>4, <1>6 DEF ToSet
  <2>2. ASSUME NEW s \in S PROVE s \in ToSet(sorted)
    <3>1. place[s] \in 0..n - 1
      BY <1>3
    <3>2. place[s] + 1 \in 1..n /\ (place[s] + 1) - 1 = place[s]
      BY <1>3, <3>1
    <3>3. sorted[place[s] + 1] \in S /\ place[sorted[place[s] + 1]] = place[s]
      BY <1>4, <3>2
    <3>4. sorted[place[s] + 1] = s
      BY <1>3, <3>3
    <3> QED
      BY <1>6, <3>2, <3>4 DEF ToSet
  <2> QED
    BY <2>1, <2>2
<1> QED
  BY <1>3, <1>5, <1>6, <1>7, <1>8 DEF sorted, n

(* A volume is a number. *)
LEMMA VolumeType ==
  ASSUME NEW v \in Tickers, NEW s
  PROVE  Volume(v, s) \in Nat
BY UniverseAssumption DEF UniverseAssumption, Volume

(* rank_by_volume numbers the symbols by liquidity. *)
LEMMA RankIsPlace ==
  ASSUME NEW S \in SUBSET Nat, IsFiniteSet(S), NEW v \in Tickers
  PROVE  /\ Cardinality(S) \in Nat /\ RankByVolume(S, v) \in [S -> 0..Cardinality(S) - 1]
         /\ \A a, b \in S : MoreLiquid(v, a, b) => RankByVolume(S, v)[a] < RankByVolume(S, v)[b]
         /\ \A a, b \in S : RankByVolume(S, v)[a] = RankByVolume(S, v)[b] => a = b
         /\ \A k \in 0..Cardinality(S) - 1 : \E s \in S : RankByVolume(S, v)[s] = k
<1> DEFINE R == {p \in S \X S : MoreLiquid(v, p[1], p[2])}
           rank == RankByVolume(S, v)
<1>1. \A a, b \in S : <<a, b>> \in R <=> MoreLiquid(v, a, b)
  OBVIOUS
<1> HIDE DEF R
<1>2. \A s \in S : Volume(v, s) \in Nat
  BY VolumeType
<1>3. /\ \A a \in S : ~MoreLiquid(v, a, a)
      /\ \A a, b, c \in S : MoreLiquid(v, a, b) /\ MoreLiquid(v, b, c) => MoreLiquid(v, a, c)
      /\ \A a, b \in S : a # b => MoreLiquid(v, a, b) \/ MoreLiquid(v, b, a)
  BY <1>2 DEF MoreLiquid
<1>4. rank = Places(S, R)
  <2>1. \A s \in S : {r \in S : <<r, s>> \in R} = {r \in S : MoreLiquid(v, r, s)}
    BY <1>1
  <2> QED
    BY <2>1 DEF RankByVolume, Places
<1>5. Orders(S, R)
  BY <1>1, <1>3 DEF Orders
<1>6. Numbers(S, R, rank)
  BY <1>4, <1>5, PlacesNumber
<1> QED
  BY <1>1, <1>6 DEF Numbers

(* The n most liquid, in the order of names. *)
LEMMA PickedIsTop ==
  ASSUME NEW S \in SUBSET Nat, IsFiniteSet(S), NEW v \in Tickers, NEW n \in Nat,
         n < Cardinality(S)
  PROVE  \E T \in SUBSET S :
           /\ PickTopByVolume(S, v, n) = Sorted(T) /\ Cardinality(T) = n
           /\ \A s \in T, r \in S \ T : Volume(v, s) >= Volume(v, r)
<1> DEFINE rank == RankByVolume(S, v)
           T == {s \in S : rank[s] < n}
<1>1. PickTopByVolume(S, v, n) = Sorted(T) /\ T \in SUBSET S
  BY DEF PickTopByVolume
<1>2. /\ Cardinality(S) \in Nat /\ rank \in [S -> 0..Cardinality(S) - 1]
      /\ \A a, b \in S : MoreLiquid(v, a, b) => rank[a] < rank[b]
      /\ \A a, b \in S : rank[a] = rank[b] => a = b
      /\ \A k \in 0..Cardinality(S) - 1 : \E s \in S : rank[s] = k
  BY RankIsPlace
<1> HIDE DEF rank
<1>3. Cardinality(T) = n
  <2> DEFINE f == [s \in T |-> rank[s]]
  <2>0. \A s \in S : rank[s] \in Nat
    BY <1>2
  <2>1. f \in [T -> 0..n - 1]
    <3>1. \A s \in T : rank[s] \in 0..n - 1
      BY <2>0
    <3> HIDE DEF T
    <3> QED
      BY <3>1
  <2>2. \A a, b \in T : f[a] = f[b] => a = b
    BY <1>2
  <2>3. \A k \in 0..n - 1 : \E s \in T : f[s] = k
    <3> SUFFICES ASSUME NEW k \in 0..n - 1 PROVE \E s \in T : f[s] = k
      OBVIOUS
    <3>1. k \in 0..Cardinality(S) - 1
      BY <1>2
    <3>2. PICK s \in S : rank[s] = k
      BY <1>2, <3>1
    <3> QED
      BY <3>2
  <2> HIDE DEF f, T
  <2>4. f \in Bijection(T, 0..n - 1)
    BY <2>1, <2>2, <2>3 DEF Bijection, Injection, Surjection, IsInjective
  <2>5. IsFiniteSet(T) /\ IsFiniteSet(0..n - 1) /\ Cardinality(0..n - 1) = n
    <3>1. T \in SUBSET S
      BY <1>1
    <3>2. IsFiniteSet(T)
      BY <3>1, FS_Subset
    <3>3. 0 \in Int /\ n - 1 \in Int
      OBVIOUS
    <3>4. IsFiniteSet(0..n - 1) /\ Cardinality(0..n - 1) = IF 0 > n - 1 THEN 0 ELSE (n - 1) - 0 + 1
      BY <3>3, FS_Interval
    <3>5. Cardinality(0..n - 1) = n
      BY <3>4
    <3> QED
      BY <3>2, <3>4, <3>5
  <2>6. ExistsBijection(T, 0..n - 1)
    BY <2>4, Zenon DEF ExistsBijection
  <2>7. Cardinality(0..n - 1) = Cardinality(T)
    BY <2>5, <2>6, FS_Bijection, Zenon
  <2> QED
    BY <2>5, <2>7
<1>4. ASSUME NEW s \in T, NEW r \in S \ T
      PROVE  Volume(v, s) >= Volume(v, r)
  <2>1. ~MoreLiquid(v, r, s)
    BY <1>2
  <2>2. Volume(v, s) \in Nat /\ Volume(v, r) \in Nat
    BY VolumeType
  <2> QED
    BY <2>1, <2>2 DEF MoreLiquid
<1> QED
  BY <1>1, <1>3, <1>4

(* Min of two numbers is the lesser. *)
LEMMA MinOfTwo ==
  ASSUME NEW a \in Nat, NEW b \in Nat, a <= b
  PROVE  Min({a, b}) = a /\ Min({b, a}) = a
<1>1. /\ a \in {a, b} /\ \A y \in {a, b} : a =< y
      /\ \A x \in {a, b} : (\A y \in {a, b} : x =< y) => x = a
  OBVIOUS
<1>2. Min({a, b}) = a
  BY <1>1 DEF Min
<1>3. {b, a} = {a, b}
  OBVIOUS
<1> QED
  BY <1>2, <1>3

(* What Capped leaves of a universe. *)
LEMMA CappedIsTop ==
  ASSUME NEW S \in SUBSET Nat, IsFiniteSet(S), NEW v \in Tickers,
         max_symbols \in Nat \cup {NoCap}
  PROVE  \E T \in SUBSET S :
           /\ Capped(S, v) = Sorted(T)
           /\ explicit # <<>> \/ max_symbols = NoCap => T = S
           /\ explicit = <<>> /\ max_symbols # NoCap =>
                /\ Cardinality(T) = Min({max_symbols, Cardinality(S)})
                /\ \A s \in T, r \in S \ T : Volume(v, s) >= Volume(v, r)
<1>1. Cardinality(S) \in Nat
  BY FS_CardinalityType
<1>2. CASE explicit = <<>> /\ max_symbols # NoCap /\ max_symbols < Cardinality(S)
  <2>1. max_symbols \in Nat
    BY <1>2
  <2>2. PICK T \in SUBSET S :
          /\ PickTopByVolume(S, v, max_symbols) = Sorted(T) /\ Cardinality(T) = max_symbols
          /\ \A s \in T, r \in S \ T : Volume(v, s) >= Volume(v, r)
    BY <1>2, <2>1, PickedIsTop
  <2>3. Min({max_symbols, Cardinality(S)}) = max_symbols
    BY <1>1, <1>2, <2>1, MinOfTwo
  <2> QED
    BY <1>2, <2>2, <2>3 DEF Capped
<1>3. CASE ~(explicit = <<>> /\ max_symbols # NoCap /\ max_symbols < Cardinality(S))
  <2>1. Capped(S, v) = Sorted(S)
    BY <1>3 DEF Capped
  <2>2. explicit = <<>> /\ max_symbols # NoCap =>
          Cardinality(S) = Min({max_symbols, Cardinality(S)})
    <3> SUFFICES ASSUME explicit = <<>>, max_symbols # NoCap
                 PROVE  Cardinality(S) = Min({max_symbols, Cardinality(S)})
      OBVIOUS
    <3>1. max_symbols \in Nat /\ Cardinality(S) <= max_symbols
      BY <1>1, <1>3
    <3> QED
      BY <1>1, <3>1, MinOfTwo
  <2> QED
    BY <2>1, <2>2
<1> QED
  BY <1>2, <1>3

(* Multiples of a number are at least that number apart. *)
LEMMA MultiplesApart ==
  ASSUME NEW a \in Nat, NEW b \in Nat, NEW P \in Nat, a < b
  PROVE  a * P + P <= b * P /\ a * P \in Nat /\ b * P \in Nat
<1>1. b = a + 1 + (b - a - 1) /\ b - a - 1 \in Nat
  OBVIOUS
<1>2. \A d \in Nat : (a + 1 + d) * P = a * P + P + d * P /\ d * P \in Nat /\ a * P \in Nat
  OBVIOUS
<1> QED
  BY <1>1, <1>2

(* The number of chunks: enough for all, and none to spare. *)
LEMMA Ceiling ==
  ASSUME NEW n \in Nat, NEW P \in Nat \ {0}, NEW C, C = (n + P - 1) \div P
  PROVE  C \in Nat /\ n <= C * P /\ C * P < n + P
<1> DEFINE m == n + P - 1
<1>1. m \in Nat
  OBVIOUS
<1>2. \A k \in Nat : k \div P \in Int /\ k \div P >= 0
  OBVIOUS
<1>3. \A k \in Nat : P * (k \div P) <= k /\ P * (k \div P) + P > k
  OBVIOUS
<1>4. /\ C \in Nat /\ P * C <= m /\ P * C + P > m
      /\ P * C = C * P /\ P * C \in Nat
  <2> HIDE DEF m
  <2>1. C \in Nat
    BY <1>1, <1>2 DEF m
  <2>2. P * C <= m /\ P * C + P > m
    BY <1>1, <1>3 DEF m
  <2> QED
    BY <2>1, <2>2
<1> DEFINE p == P * C
<1>5. p \in Nat /\ p <= n + P - 1 /\ p + P > n + P - 1
  BY <1>4
<1> HIDE DEF p
<1>6. n <= p /\ p < n + P
  BY <1>5
<1> QED
  BY <1>4, <1>6 DEF p

(* Of n places, those of chunk k. *)
From(k) == (k - 1) * PerShard
Upto(n, k) == Min({k * PerShard, n})
Many(n) == (n + PerShard - 1) \div PerShard

(* Chunks are full but for the last, and none is empty. *)
LEMMA Spans ==
  ASSUME NEW n \in Nat
  PROVE  /\ Many(n) \in Nat
         /\ \A k \in 1..Many(n) :
              /\ From(k) \in Nat /\ Upto(n, k) \in Nat
              /\ Upto(n, k) <= n /\ Upto(n, k) - From(k) \in 1..PerShard
              /\ Upto(n, k) = n \/ Upto(n, k) - From(k) = PerShard
<1> DEFINE C == Many(n)
<1>1. PerShard \in Nat \ {0}
  BY UniverseAssumption DEF UniverseAssumption
<1>2. C \in Nat /\ n <= C * PerShard /\ C * PerShard < n + PerShard
  BY <1>1, Ceiling DEF Many
<1> HIDE DEF C
<1>3. ASSUME NEW k \in 1..C
      PROVE  /\ From(k) \in Nat /\ Upto(n, k) \in Nat
             /\ Upto(n, k) <= n /\ Upto(n, k) - From(k) \in 1..PerShard
             /\ Upto(n, k) = n \/ Upto(n, k) - From(k) = PerShard
  <2> DEFINE b == k * PerShard
             e == C * PerShard
  <2>1. k \in Nat /\ k - 1 \in Nat /\ k - 1 < C
    BY <1>2
  <2>2. From(k) + PerShard <= e /\ From(k) \in Nat /\ e \in Nat
    BY <1>1, <1>2, <2>1, MultiplesApart DEF From
  <2>3. b = From(k) + PerShard
    BY <1>1, <2>1 DEF From
  <2> HIDE DEF b, e
  <2>4. From(k) < n /\ b \in Nat
    BY <1>1, <1>2, <2>2, <2>3 DEF e
  <2>5. /\ b <= n => Upto(n, k) = b
        /\ n <= b => Upto(n, k) = n
    BY <2>4, MinOfTwo DEF Upto, b
  <2> QED
    BY <1>1, <2>2, <2>3, <2>4, <2>5
<1> QED
  BY <1>2, <1>3 DEF C

(* seq[a+1], ..., seq[b]. *)
IsSlice(slice, seq, a, b, S) ==
  /\ slice \in Seq(S) /\ Len(slice) = b - a
  /\ \A i \in 1..b - a : slice[i] = seq[a + i]

(* SubSeq cuts slices. *)
LEMMA Slice ==
  ASSUME NEW S, NEW seq, NEW a \in Nat, NEW b \in Nat, a < b,
         \A i \in a + 1..b : seq[i] \in S
  PROVE  IsSlice(SubSeq(seq, a + 1, b), seq, a, b, S)
<1> DEFINE m == a + 1
           slice == SubSeq(seq, m, b)
<1>1. m \in Int /\ b \in Int /\ m <= b /\ b - m + 1 = b - a
  OBVIOUS
<1>2. \A i \in 1..b - a : m + i - 1 = a + i
  OBVIOUS
<1>3. \A i \in m..b : seq[i] \in S
  OBVIOUS
<1> HIDE DEF m
<1>4. /\ slice \in Seq(S) /\ Len(slice) = b - m + 1
      /\ \A i \in 1..b - m + 1 : slice[i] = seq[m + i - 1]
  BY <1>1, <1>3
<1> HIDE DEF slice
<1>5. Len(slice) = b - a
  BY <1>1, <1>4
<1>6. ASSUME NEW i \in 1..b - a
      PROVE  slice[i] = seq[a + i]
  <2>1. i \in 1..b - m + 1
    BY <1>1
  <2>2. slice[i] = seq[m + i - 1]
    BY <1>4, <2>1
  <2> QED
    BY <1>2, <2>2
<1> QED
  BY <1>4, <1>5, <1>6 DEF slice, m, IsSlice

(* What Chunks makes of a sequence. *)
LEMMA ChunksCut ==
  ASSUME NEW S, NEW seq \in Seq(S)
  PROVE  /\ Len(Chunks(seq)) = Many(Len(seq)) /\ DOMAIN Chunks(seq) = 1..Many(Len(seq))
         /\ \A k \in DOMAIN Chunks(seq) :
              IsSlice(Chunks(seq)[k], seq, From(k), Upto(Len(seq), k), S)
<1> DEFINE n == Len(seq)
<1>1. n \in Nat /\ DOMAIN seq = 1..n /\ \A i \in 1..n : seq[i] \in S
  OBVIOUS
<1>2. Chunks(seq) = [k \in 1..Many(n) |-> SubSeq(seq, From(k) + 1, Upto(n, k))]
  BY DEF Chunks, Many, From, Upto
<1> HIDE DEF n
<1>3. Many(n) \in Nat
  BY <1>1, Spans
<1>4. Len(Chunks(seq)) = Many(n) /\ DOMAIN Chunks(seq) = 1..Many(n)
  BY <1>2, <1>3
<1>5. ASSUME NEW k \in 1..Many(n)
      PROVE  IsSlice(Chunks(seq)[k], seq, From(k), Upto(n, k), S)
  <2> DEFINE lo == From(k)
             hi == Upto(n, k)
  <2>1. /\ lo \in Nat /\ hi \in Nat /\ hi <= n /\ lo < hi
    <3>1. PerShard \in Nat
      BY UniverseAssumption DEF UniverseAssumption
    <3>2. /\ lo \in Nat /\ hi \in Nat /\ hi <= n /\ hi - lo \in 1..PerShard
      BY <1>1, Spans
    <3> QED
      BY <3>1, <3>2
  <2>2. Chunks(seq)[k] = SubSeq(seq, lo + 1, hi)
    BY <1>2
  <2> HIDE DEF lo, hi
  <2>3. \A i \in lo + 1..hi : seq[i] \in S
    BY <1>1, <2>1
  <2>4. IsSlice(Chunks(seq)[k], seq, lo, hi, S)
    BY <2>1, <2>2, <2>3, Slice
  <2> QED
    BY <2>4 DEF lo, hi
<1> QED
  BY <1>4, <1>5 DEF n

(* Every place is in a chunk. *)
LEMMA EveryPlace ==
  ASSUME NEW n \in Nat, NEW j \in 1..n
  PROVE  \E k \in 1..Many(n) : j - From(k) \in 1..Upto(n, k) - From(k)
<1>1. PerShard \in Nat \ {0}
  BY UniverseAssumption DEF UniverseAssumption
<1>2. /\ Many(j) \in Nat /\ j <= Many(j) * PerShard /\ Many(j) * PerShard < j + PerShard
      /\ Many(n) \in Nat /\ n <= Many(n) * PerShard
  <2>1. j \in Nat /\ Many(j) = (j + PerShard - 1) \div PerShard
        /\ Many(n) = (n + PerShard - 1) \div PerShard
    BY DEF Many
  <2>2. Many(j) \in Nat /\ j <= Many(j) * PerShard /\ Many(j) * PerShard < j + PerShard
    BY <1>1, <2>1, Ceiling
  <2>3. Many(n) \in Nat /\ n <= Many(n) * PerShard
    BY <1>1, <2>1, Ceiling
  <2> QED
    BY <2>2, <2>3
<1> DEFINE k == Many(j)
<1>3. k \in Nat /\ k # 0
  BY <1>1, <1>2
<1>4. k <= Many(n)
  <2> SUFFICES ASSUME Many(n) < k PROVE FALSE
    BY <1>2, <1>3
  <2>1. Many(n) * PerShard + PerShard <= k * PerShard
    BY <1>1, <1>2, MultiplesApart
  <2> QED
    BY <1>1, <1>2, <2>1
<1>5. k * PerShard = From(k) + PerShard /\ From(k) \in Nat
  BY <1>1, <1>3 DEF From
<1>6. From(k) < j /\ j <= From(k) + PerShard
  BY <1>1, <1>2, <1>5
<1>7. Upto(n, k) \in Nat /\ (Upto(n, k) = n \/ Upto(n, k) - From(k) = PerShard)
  BY <1>3, <1>4, Spans
<1> HIDE DEF k
<1>8. j - From(k) \in 1..Upto(n, k) - From(k)
  BY <1>1, <1>5, <1>6, <1>7
<1> QED
  BY <1>2, <1>3, <1>4, <1>8

(* And no place is in two. *)
LEMMA PlaceOnce ==
  ASSUME NEW k \in Nat \ {0}, NEW l \in Nat \ {0},
         NEW h \in 1..PerShard, NEW i \in 1..PerShard,
         From(k) + h = From(l) + i
  PROVE  k = l /\ h = i
<1>1. PerShard \in Nat \ {0}
  BY UniverseAssumption DEF UniverseAssumption
<1>2. ASSUME NEW a \in Nat \ {0}, NEW b \in Nat \ {0},
             NEW x \in 1..PerShard, NEW y \in 1..PerShard,
             From(a) + x = From(b) + y, a < b
      PROVE  FALSE
  <2>1. From(a) + PerShard <= From(b) /\ From(a) \in Nat /\ From(b) \in Nat
    BY <1>1, <1>2, MultiplesApart DEF From
  <2> QED
    BY <1>1, <1>2, <2>1
<1>3. ~(k < l) /\ ~(l < k)
  BY <1>2
<1>4. k = l
  BY <1>3
<1>5. From(k) \in Nat
  BY <1>1 DEF From
<1> QED
  BY <1>1, <1>4, <1>5

-----------------------------------------------------------------------------
(* What a process was asked to track. *)
Asked == IF explicit = <<>> THEN listed ELSE ToSet(explicit)

Typed ==
  /\ phase \in {"down", "started", "listed", "up", "failed"}
  /\ explicit \in Seq(Names) /\ max_symbols \in Nat \cup {NoCap}
  /\ listed \subseteq Names

(* How far resolve_universe has come with it. *)
Resolved ==
  /\ phase \in {"listed", "up"} => Asked \subseteq listed
  /\ phase = "listed" => symbols = Sorted(Asked)
  /\ phase = "up" =>
       /\ volumes \in Tickers
       /\ symbols = Capped(Asked, volumes)
       /\ snapshot_rank = RankByVolume(ToSet(symbols), volumes)
       /\ shards = Chunks(symbols)

(* The start before came to its shards in the same way. *)
Remembered ==
  \E S \in SUBSET Names : earlier = [symbols |-> Sorted(S), shards |-> Chunks(Sorted(S))]

IInv == Typed /\ Resolved /\ Remembered

(* Whatever is named is a finite set of naturals. *)
LEMMA NamesFinite ==
  ASSUME NEW S \in SUBSET Names
  PROVE  IsFiniteSet(S) /\ S \in SUBSET Nat
<1>1. Names \subseteq Nat /\ IsFiniteSet(Names)
  BY UniverseAssumption DEF UniverseAssumption
<1> QED
  BY <1>1, FS_Subset

(* Nobody asks for what has no name. *)
LEMMA AskedIsNamed ==
  ASSUME Typed
  PROVE  Asked \in SUBSET Names
<1>1. ToSet(explicit) \subseteq Names
  BY DEF Typed, ToSet
<1> QED
  BY <1>1 DEF Typed, Asked

(* Nothing is tracked on no shards. *)
LEMMA NothingIsSorted ==
  Nothing = [symbols |-> Sorted({}), shards |-> Chunks(Sorted({}))]
<1>1. Cardinality({}) = 0
  BY FS_EmptySet
<1>2. Sorted({}) = <<>>
  BY <1>1 DEF Sorted
<1>3. PerShard \in Nat \ {0}
  BY UniverseAssumption DEF UniverseAssumption
<1>4. (0 + PerShard - 1) \div PerShard = 0
  BY <1>3
<1>5. Chunks(<<>>) = <<>>
  BY <1>4 DEF Chunks
<1> QED
  BY <1>2, <1>5 DEF Nothing

(* What an up process tracks, in the order of names, is the top of what it *)
(* was asked for.                                                          *)
LEMMA UpTracks ==
  ASSUME Typed, Resolved, phase = "up"
  PROVE  \E T \in SUBSET Names :
           /\ T \subseteq Asked /\ symbols = Sorted(T) /\ ToSet(symbols) = T
           /\ explicit # <<>> \/ max_symbols = NoCap => T = Asked
           /\ explicit = <<>> /\ max_symbols # NoCap =>
                /\ Cardinality(T) = Min({max_symbols, Cardinality(Asked)})
                /\ \A s \in T, r \in Asked \ T : Volume(volumes, s) >= Volume(volumes, r)
<1>1. Asked \in SUBSET Names /\ IsFiniteSet(Asked) /\ Asked \in SUBSET Nat
  BY AskedIsNamed, NamesFinite
<1>2. /\ volumes \in Tickers /\ symbols = Capped(Asked, volumes)
      /\ max_symbols \in Nat \cup {NoCap}
  BY DEF Typed, Resolved
<1>3. PICK T \in SUBSET Asked :
           /\ Capped(Asked, volumes) = Sorted(T)
           /\ explicit # <<>> \/ max_symbols = NoCap => T = Asked
           /\ explicit = <<>> /\ max_symbols # NoCap =>
                /\ Cardinality(T) = Min({max_symbols, Cardinality(Asked)})
                /\ \A s \in T, r \in Asked \ T : Volume(volumes, s) >= Volume(volumes, r)
  BY <1>1, <1>2, CappedIsTop
<1>4. T \in SUBSET Names
  BY <1>1
<1>5. IsFiniteSet(T) /\ T \in SUBSET Nat
  BY <1>4, NamesFinite
<1>6. ToSet(Sorted(T)) = T
  BY <1>5, SortedIsSort
<1> QED
  BY <1>2, <1>3, <1>4, <1>6

(* A process that is down has promised nothing. *)
LEMMA InitHolds == Init => IInv
<1> SUFFICES ASSUME Init PROVE IInv
  OBVIOUS
<1>1. Typed
  BY DEF Init, Typed
<1>2. Resolved
  BY DEF Init, Resolved
<1>3. Remembered
  BY NothingIsSorted DEF Init, Remembered
<1> QED
  BY <1>1, <1>2, <1>3 DEF IInv

(* Each step of resolve_universe takes what was asked for one step on. *)
LEMMA StepHolds == IInv /\ [Next]_vars => IInv'
<1> SUFFICES ASSUME IInv, [Next]_vars PROVE IInv'
  OBVIOUS
<1> USE DEF IInv
<1>1. CASE Start
  <2>1. Typed'
    BY <1>1, UniverseAssumption DEF Start, Typed, UniverseAssumption
  <2>2. Resolved' /\ Remembered'
    BY <1>1 DEF Start, Resolved, Remembered
  <2> QED
    BY <2>1, <2>2
<1>2. CASE List
  <2>1. Typed'
    BY <1>2 DEF List, Typed
  <2>2. Resolved'
    <3>1. phase' \in {"listed", "failed"}
      BY <1>2 DEF List
    <3>2. ASSUME phase' = "listed"
          PROVE  Asked' \subseteq listed' /\ symbols' = Sorted(Asked)'
      BY <1>2, <3>2 DEF List, Asked
    <3> QED
      BY <3>1, <3>2 DEF Resolved
  <2>3. Remembered'
    BY <1>2 DEF List, Remembered
  <2> QED
    BY <2>1, <2>2, <2>3
<1>3. CASE Rank
  <2>1. Typed'
    BY <1>3 DEF Rank, Typed
  <2>2. Asked \subseteq listed /\ symbols = Sorted(Asked) /\ Asked' = Asked /\ listed' = listed
    BY <1>3 DEF Rank, Resolved, Asked
  <2>3. ToSet(symbols) = Asked
    <3>1. IsFiniteSet(Asked) /\ Asked \in SUBSET Nat
      BY AskedIsNamed, NamesFinite
    <3> QED
      BY <2>2, <3>1, SortedIsSort
  <2>4. symbols' = Capped(Asked, volumes)'
    BY <1>3, <2>2, <2>3 DEF Rank, Capped
  <2>5. Resolved'
    BY <1>3, <2>2, <2>4 DEF Rank, Resolved
  <2>6. Remembered'
    BY <1>3 DEF Rank, Remembered
  <2> QED
    BY <2>1, <2>5, <2>6
<1>4. CASE Fail
  BY <1>4 DEF Fail, Typed, Resolved, Remembered, universe
<1>5. CASE Exit
  <2>1. Typed'
    BY <1>5 DEF Exit, Typed
  <2>2. Resolved'
    BY <1>5 DEF Exit, Resolved
  <2>3. Remembered'
    <3>1. CASE phase = "up"
      <4>1. PICK T \in SUBSET Names : symbols = Sorted(T)
        BY <3>1, UpTracks
      <4>2. shards = Chunks(symbols)
        BY <3>1 DEF Resolved
      <4> QED
        BY <1>5, <3>1, <4>1, <4>2 DEF Exit, Remembered
    <3>2. CASE phase # "up"
      BY <1>5, <3>2 DEF Exit, Remembered
    <3> QED
      BY <3>1, <3>2
  <2> QED
    BY <2>1, <2>2, <2>3
<1>6. CASE UNCHANGED vars
  BY <1>6 DEF vars, universe, Typed, Resolved, Remembered, Asked, Capped, PickTopByVolume
<1> QED
  BY <1>1, <1>2, <1>3, <1>4, <1>5, <1>6 DEF Next

(* IInv holds of every reachable state. *)
LEMMA Invariant == Spec => []IInv
BY InitHolds, StepHolds, PTL DEF Spec

-----------------------------------------------------------------------------
(* What an up process tracks is exactly what it was asked for, all that    *)
(* trades, or the most liquid of it (resolve_universe).                    *)
THEOREM TracksAsked == Spec => []TracksWhatWasAsked
<1>1. IInv => TracksWhatWasAsked
  <2> SUFFICES ASSUME IInv, Up PROVE TracksWhatWasAsked
    BY DEF TracksWhatWasAsked
  <2>1. Typed /\ Resolved /\ phase = "up"
    BY DEF IInv, Up
  <2>2. PICK T \in SUBSET Names :
           /\ T \subseteq Asked /\ symbols = Sorted(T) /\ ToSet(symbols) = T
           /\ explicit # <<>> \/ max_symbols = NoCap => T = Asked
           /\ explicit = <<>> /\ max_symbols # NoCap =>
                /\ Cardinality(T) = Min({max_symbols, Cardinality(Asked)})
                /\ \A s \in T, r \in Asked \ T : Volume(volumes, s) >= Volume(volumes, r)
    BY <2>1, UpTracks
  <2>3. Asked \subseteq listed
    BY <2>1 DEF Resolved
  <2>4. CASE explicit = <<>>
    BY <2>2, <2>3, <2>4 DEF TracksWhatWasAsked, Asked
  <2>5. CASE explicit # <<>>
    BY <2>2, <2>3, <2>5 DEF TracksWhatWasAsked, Asked
  <2> QED
    BY <2>4, <2>5
<1> QED
  BY <1>1, Invariant, PTL

(* The snapshot ranks of an up process number its symbols, the more liquid *)
(* first (rank_by_volume).                                                 *)
THEOREM RankedByLiquidity == Spec => []RanksFollowLiquidity
<1>1. IInv => RanksFollowLiquidity
  <2> SUFFICES ASSUME IInv, Up PROVE RanksFollowLiquidity
    BY DEF RanksFollowLiquidity
  <2> DEFINE T == ToSet(symbols)
  <2>1. Typed /\ Resolved /\ phase = "up"
    BY DEF IInv, Up
  <2>2. T \in SUBSET Names
    BY <2>1, UpTracks
  <2>3. volumes \in Tickers /\ snapshot_rank = RankByVolume(T, volumes)
    BY <2>1 DEF Resolved
  <2>4. IsFiniteSet(T) /\ T \in SUBSET Nat
    BY <2>2, NamesFinite
  <2> HIDE DEF T
  <2>5. /\ snapshot_rank \in [T -> 0..Cardinality(T) - 1]
        /\ \A a, b \in T : MoreLiquid(volumes, a, b) => snapshot_rank[a] < snapshot_rank[b]
        /\ \A a, b \in T : snapshot_rank[a] = snapshot_rank[b] => a = b
    BY <2>3, <2>4, RankIsPlace
  <2>6. \A a, b \in T : Volume(volumes, a) > Volume(volumes, b) => MoreLiquid(volumes, a, b)
    BY DEF MoreLiquid
  <2> QED
    BY <2>5, <2>6 DEF RanksFollowLiquidity, T
<1> QED
  BY <1>1, Invariant, PTL

(* Every tracked symbol is on one connection, at one place, and none has   *)
(* more than it may (run).                                                 *)
THEOREM EachOnOneShard == Spec => []ShardsPartition
<1>1. IInv => ShardsPartition
  <2> SUFFICES ASSUME IInv, Up PROVE ShardsPartition
    BY DEF ShardsPartition
  <2>1. Typed /\ Resolved /\ phase = "up"
    BY DEF IInv, Up
  <2>2. PICK T \in SUBSET Names : symbols = Sorted(T) /\ ToSet(symbols) = T
    BY <2>1, UpTracks
  <2>3. shards = Chunks(symbols)
    BY <2>1 DEF Resolved
  <2> DEFINE n == Cardinality(T)
  <2>4. /\ n \in Nat /\ symbols \in Seq(T) /\ Len(symbols) = n /\ symbols \in [1..n -> T]
        /\ \A i, j \in 1..n : symbols[i] = symbols[j] => i = j
    BY <2>2, NamesFinite, SortedIsSort
  <2> HIDE DEF n
  <2>5. /\ Many(n) \in Nat /\ DOMAIN shards = 1..Many(n)
        /\ \A k \in 1..Many(n) : IsSlice(shards[k], symbols, From(k), Upto(n, k), T)
    BY <2>3, <2>4, ChunksCut, Spans
  <2>6. /\ PerShard \in Nat \ {0}
        /\ \A k \in 1..Many(n) :
             /\ From(k) \in Nat /\ Upto(n, k) \in Nat
             /\ Upto(n, k) <= n /\ Upto(n, k) - From(k) \in 1..PerShard
    BY <2>4, Spans, UniverseAssumption DEF UniverseAssumption
  <2>7. ASSUME NEW k \in 1..Many(n)
        PROVE  /\ Len(shards[k]) \in 1..PerShard /\ ToSet(shards[k]) \subseteq T
               /\ DOMAIN shards[k] = 1..Upto(n, k) - From(k)
               /\ \A i \in DOMAIN shards[k] :
                    i \in 1..PerShard /\ From(k) + i \in 1..n
                    /\ shards[k][i] = symbols[From(k) + i]
    <3>1. shards[k] \in Seq(T) /\ Len(shards[k]) = Upto(n, k) - From(k)
          /\ \A i \in 1..Upto(n, k) - From(k) : shards[k][i] = symbols[From(k) + i]
      BY <2>5 DEF IsSlice
    <3>2. From(k) \in Nat /\ Upto(n, k) \in Nat /\ Upto(n, k) <= n
          /\ Upto(n, k) - From(k) \in 1..PerShard
      BY <2>6
    <3>3. DOMAIN shards[k] = 1..Upto(n, k) - From(k)
      BY <3>1
    <3>4. \A i \in 1..Upto(n, k) - From(k) : i \in 1..PerShard /\ From(k) + i \in 1..n
      BY <2>4, <2>6, <3>2
    <3>5. ToSet(shards[k]) \subseteq T
      BY <3>1 DEF ToSet
    <3> QED
      BY <3>1, <3>2, <3>3, <3>4, <3>5
  <2>8. ASSUME NEW s \in T
        PROVE  Cardinality({at \in (DOMAIN shards) \X (1..PerShard) :
                              at[2] \in DOMAIN shards[at[1]] /\ shards[at[1]][at[2]] = s}) = 1
    <3> DEFINE At == {at \in (DOMAIN shards) \X (1..PerShard) :
                        at[2] \in DOMAIN shards[at[1]] /\ shards[at[1]][at[2]] = s}
    <3>1. PICK j \in 1..n : symbols[j] = s
      BY <2>2, <2>4 DEF ToSet
    <3>2. PICK k \in 1..Many(n) : j - From(k) \in 1..Upto(n, k) - From(k)
      BY <2>4, EveryPlace
    <3> DEFINE i == j - From(k)
    <3>3. From(k) + i = j /\ i \in DOMAIN shards[k] /\ i \in 1..PerShard /\ shards[k][i] = s
      <4>1. From(k) + i = j /\ i \in 1..Upto(n, k) - From(k)
        BY <2>6, <3>2
      <4> HIDE DEF i
      <4> QED
        BY <2>7, <3>1, <4>1
    <3> HIDE DEF i
    <3>4. <<k, i>> \in At
      BY <2>5, <3>3
    <3>5. ASSUME NEW l \in DOMAIN shards, NEW h \in 1..PerShard,
                 h \in DOMAIN shards[l], shards[l][h] = s
          PROVE  l = k /\ h = i
      <4>1. From(l) + h \in 1..n /\ symbols[From(l) + h] = s
        BY <2>5, <2>7, <3>5
      <4>2. From(l) + h = j
        BY <2>4, <3>1, <4>1
      <4>3. l \in Nat \ {0} /\ k \in Nat \ {0}
        BY <2>5
      <4> QED
        BY <3>3, <4>2, <4>3, PlaceOnce
    <3>6. \A at \in At : at = <<k, i>>
      BY <3>5
    <3>7. At = {<<k, i>>}
      BY <3>4, <3>6
    <3> HIDE DEF At
    <3>8. Cardinality(At) = 1
      BY <3>7, FS_Singleton
    <3> QED
      BY <3>8 DEF At
  <2> QED
    BY <2>2, <2>5, <2>7, <2>8 DEF ShardsPartition
<1> QED
  BY <1>1, Invariant, PTL

(* Whoever tracks the same symbols as the start before has them on the     *)
(* same shards, whatever their volumes are now (run).                      *)
THEOREM SameAfterRestart == Spec => []StableAcrossRestarts
<1>1. IInv => StableAcrossRestarts
  <2> SUFFICES ASSUME IInv, Up, ToSet(symbols) = ToSet(earlier.symbols)
               PROVE  shards = earlier.shards
    BY DEF StableAcrossRestarts
  <2>1. Typed /\ Resolved /\ phase = "up" /\ Remembered
    BY DEF IInv, Up
  <2>2. PICK T \in SUBSET Names : symbols = Sorted(T) /\ ToSet(symbols) = T
    BY <2>1, UpTracks
  <2>3. PICK S \in SUBSET Names : earlier = [symbols |-> Sorted(S), shards |-> Chunks(Sorted(S))]
    BY <2>1 DEF Remembered
  <2>4. ToSet(Sorted(S)) = S
    BY NamesFinite, SortedIsSort
  <2>5. S = T
    BY <2>2, <2>3, <2>4
  <2>6. shards = Chunks(symbols)
    BY <2>1 DEF Resolved
  <2> QED
    BY <2>2, <2>3, <2>5, <2>6
<1> QED
  BY <1>1, Invariant, PTL
=============================================================================
