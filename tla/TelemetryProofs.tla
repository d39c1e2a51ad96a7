--------------------------- MODULE TelemetryProofs ---------------------------
(***************************************************************************)
(* Proofs about what is reported: however the shards, the sync tasks and   *)
(* the sweeper go on while a report is filled in, its figures fit together *)
(* and those of the next report do not go back.                            *)
(***************************************************************************)
EXTENDS Telemetry, FiniteSetTheorems, TLAPS

(* The constants are as assumed. *)
LEMMA Constants ==
  /\ IsFiniteSet(Shards) /\ IsFiniteSet(Symbols)
  /\ ShardOf \in [Symbols -> Shards] /\ Nobody \notin Gatherers
BY TelemetryAssumption DEF TelemetryAssumption

(* The fields in the order in which they are loaded. *)
LEMMA Fields ==
  /\ Len(Loads) = 5 /\ DOMAIN Loads = 1..5
  /\ Loads[1] = "bbo_published" /\ Loads[2] = "book_published" /\ Loads[3] = "snapshots"
  /\ Loads[4] = "bbo_dropped" /\ Loads[5] = "book_dropped"
  /\ Atomic = {"bbo_published", "book_published", "snapshots", "bbo_dropped", "book_dropped"}
<1>1. /\ Len(Loads) = 5 /\ DOMAIN Loads = 1..5
      /\ Loads[1] = "bbo_published" /\ Loads[2] = "book_published" /\ Loads[3] = "snapshots"
      /\ Loads[4] = "bbo_dropped" /\ Loads[5] = "book_dropped"
  BY DEF Loads
<1>2. 1..5 = {1, 2, 3, 4, 5}
  OBVIOUS
<1>3. Atomic = {Loads[1], Loads[2], Loads[3], Loads[4], Loads[5]}
  BY <1>1, <1>2 DEF Atomic
<1> QED
  BY <1>1, <1>3

-----------------------------------------------------------------------------
(* The sum over the books. *)

Marks(count, y) == {y} \X (1..count[y])
AllMarks(count) == UNION {Marks(count, y) : y \in Symbols}

(* The marks of a book are those of its count. *)
LEMMA MarkOf ==
  ASSUME NEW count, NEW p
  PROVE  p \in AllMarks(count) <=>
           \E y \in Symbols : \E i \in 1..count[y] : p = <<y, i>>
BY DEF AllMarks, Marks

(* There are finitely many. *)
LEMMA MarksFinite ==
  ASSUME NEW count \in [Symbols -> Nat]
  PROVE  /\ IsFiniteSet(AllMarks(count))
         /\ Total(count) = Cardinality(AllMarks(count)) /\ Total(count) \in Nat
<1> DEFINE f == [y \in Symbols |-> Marks(count, y)]
           F == {Marks(count, y) : y \in Symbols}
<1>1. IsFiniteSet(Symbols)
  BY Constants
<1>2. f \in Surjection(Symbols, F)
  <2>1. f \in [Symbols -> F]
    OBVIOUS
  <2>2. \A T \in F : \E y \in Symbols : f[y] = T
    OBVIOUS
  <2> QED
    BY <2>1, <2>2 DEF Surjection
<1> HIDE DEF f
<1>3. IsFiniteSet(F)
  <2> HIDE DEF F
  <2> QED
    BY <1>1, <1>2, FS_Surjection
<1>4. ASSUME NEW y \in Symbols
      PROVE  IsFiniteSet(Marks(count, y))
  <2>1. count[y] \in Nat
    OBVIOUS
  <2>2. IsFiniteSet(1..count[y])
    BY <2>1, FS_Interval
  <2>3. IsFiniteSet({y})
    BY FS_Singleton
  <2> QED
    BY <2>2, <2>3, FS_Product DEF Marks
<1>5. \A T \in F : IsFiniteSet(T)
  BY <1>4
<1>6. IsFiniteSet(UNION F)
  <2> HIDE DEF F
  <2> QED
    BY <1>3, <1>5, FS_UNION
<1>7. AllMarks(count) = UNION F
  BY DEF AllMarks
<1>8. Total(count) = Cardinality(AllMarks(count))
  BY DEF Total, AllMarks, Marks
<1> QED
  BY <1>6, <1>7, <1>8, FS_CardinalityType

(* The sum grows with the counts. *)
LEMMA TotalGrows ==
  ASSUME NEW c \in [Symbols -> Nat], NEW d \in [Symbols -> Nat],
         \A y \in Symbols : c[y] <= d[y]
  PROVE  Total(c) <= Total(d)
<1>1. AllMarks(c) \subseteq AllMarks(d)
  <2> SUFFICES ASSUME NEW y \in Symbols, NEW i \in 1..c[y]
               PROVE  <<y, i>> \in AllMarks(d)
    BY MarkOf
  <2>1. i \in 1..d[y]
    OBVIOUS
  <2> QED
    BY <2>1, MarkOf
<1>2. IsFiniteSet(AllMarks(d)) /\ Total(d) = Cardinality(AllMarks(d))
  BY MarksFinite
<1>3. Total(c) = Cardinality(AllMarks(c))
  BY MarksFinite
<1>4. Cardinality(AllMarks(c)) <= Cardinality(AllMarks(d))
  BY <1>1, <1>2, FS_Subset
<1> QED
  BY <1>2, <1>3, <1>4

(* And by one when a book counts one. *)
LEMMA TotalCounts ==
  ASSUME NEW c \in [Symbols -> Nat], NEW y \in Symbols
  PROVE  Total([c EXCEPT ![y] = c[y] + 1]) = Total(c) + 1
<1> DEFINE d == [c EXCEPT ![y] = c[y] + 1]
<1>1. /\ d \in [Symbols -> Nat] /\ d[y] = c[y] + 1 /\ c[y] \in Nat
      /\ \A z \in Symbols \ {y} : d[z] = c[z]
  OBVIOUS
<1> HIDE DEF d
<1> DEFINE new == <<y, c[y] + 1>>
<1>2. new \notin AllMarks(c)
  <2> SUFFICES ASSUME NEW z \in Symbols, NEW i \in 1..c[z], new = <<z, i>>
               PROVE  FALSE
    BY MarkOf
  <2>1. z = y /\ i = c[y] + 1
    OBVIOUS
  <2>2. i \in 1..c[y]
    BY <2>1
  <2> QED
    BY <1>1, <2>1, <2>2
<1>3. AllMarks(d) = AllMarks(c) \cup {new}
  <2>1. ASSUME NEW p \in AllMarks(d)
        PROVE  p \in AllMarks(c) \cup {new}
    <3>0. PICK z \in Symbols : \E i \in 1..d[z] : p = <<z, i>>
      BY <2>1, MarkOf
    <3>1. PICK i \in 1..d[z] : p = <<z, i>>
      BY <3>0
    <3>2. CASE z = y /\ i = c[y] + 1
      BY <3>1, <3>2
    <3>3. CASE ~ (z = y /\ i = c[y] + 1)
      <4>1. i \in 1..c[z]
        BY <1>1, <3>3
      <4> QED
        BY <3>1, <4>1, MarkOf
    <3> QED
      BY <3>2, <3>3
  <2>2. ASSUME NEW p \in AllMarks(c)
        PROVE  p \in AllMarks(d)
    <3>0. PICK z \in Symbols : \E i \in 1..c[z] : p = <<z, i>>
      BY <2>2, MarkOf
    <3>1. PICK i \in 1..c[z] : p = <<z, i>>
      BY <3>0
    <3>2. i \in 1..d[z]
      BY <1>1
    <3> QED
      BY <3>1, <3>2, MarkOf
  <2>3. new \in AllMarks(d)
    <3>1. c[y] + 1 \in 1..d[y]
      BY <1>1
    <3> QED
      BY <3>1, MarkOf
  <2> QED
    BY <2>1, <2>2, <2>3
<1>4. /\ IsFiniteSet(AllMarks(c)) /\ Total(c) = Cardinality(AllMarks(c))
      /\ Total(d) = Cardinality(AllMarks(d))
  BY <1>1, MarksFinite
<1> HIDE DEF new
<1>5. Cardinality(AllMarks(d)) = Cardinality(AllMarks(c)) + 1
  BY <1>2, <1>3, <1>4, FS_AddElement
<1> QED
  BY <1>4, <1>5 DEF d
-----------------------------------------------------------------------------
(* The types. *)

Field == Counter \cup {"connected", "live"}

(* The fields of a report. *)
LEMMA FieldNames ==
  /\ Atomic \subseteq Counter /\ Counter \subseteq Field
  /\ {"gaps", "snapshots_per_book"} \subseteq Counter
  /\ {"connected", "live"} \subseteq Field
  /\ "gaps" \notin Atomic /\ "snapshots_per_book" \notin Atomic
  /\ "connected" \notin Counter /\ "live" \notin Counter
BY Fields DEF Counter, Field

(* What is surveyed is a report. *)
LEMMA SurveyType ==
  ASSUME TypeOK
  PROVE  /\ Survey \in Report /\ NoReport \in Report
         /\ Survey.live = Live /\ Survey.gaps = Total(gap_count)
         /\ Survey.snapshots_per_book = Total(snapshot_count)
<1> DEFINE k == Cardinality({s \in Shards : connected[s]})
           l == Live
           n == Total(gap_count)
           m == Total(snapshot_count)
<1>1. k \in Nat /\ l \in Nat
  BY Constants, FS_Subset, FS_CardinalityType DEF Live
<1>2. n \in Nat /\ m \in Nat
  BY MarksFinite DEF TypeOK
<1>3. Survey = [NoReport EXCEPT !.connected = k, !.live = l, !.gaps = n,
                                !.snapshots_per_book = m]
  BY DEF Survey
<1> HIDE DEF k, l, n, m
<1>4. NoReport \in [Field -> Nat] /\ DOMAIN NoReport = Field
  BY DEF NoReport, Field
<1>5. {"connected", "live", "gaps", "snapshots_per_book"} \subseteq Field
  BY FieldNames
<1>6. /\ Survey \in [Field -> Nat]
      /\ Survey.live = l /\ Survey.gaps = n /\ Survey.snapshots_per_book = m
  <2> DEFINE r1 == [NoReport EXCEPT !["connected"] = k]
             r2 == [r1 EXCEPT !["live"] = l]
             r3 == [r2 EXCEPT !["gaps"] = n]
             r4 == [r3 EXCEPT !["snapshots_per_book"] = m]
  <2>1. r1 \in [Field -> Nat]
    BY <1>1, <1>4
  <2> HIDE DEF r1
  <2>2. r2 \in [Field -> Nat] /\ r2["live"] = l
    BY <1>1, <1>5, <2>1
  <2> HIDE DEF r2
  <2>3. r3 \in [Field -> Nat] /\ r3["gaps"] = n /\ r3["live"] = l
    BY <1>2, <1>5, <2>2
  <2> HIDE DEF r3
  <2>4. /\ r4 \in [Field -> Nat] /\ r4["snapshots_per_book"] = m
        /\ r4["gaps"] = n /\ r4["live"] = l
    BY <1>2, <1>5, <2>3
  <2>5. Survey = r4
    BY <1>3 DEF r1, r2, r3
  <2> HIDE DEF r4
  <2> QED
    BY <2>4, <2>5
<1> QED
  BY <1>4, <1>6 DEF Report, Field, l, n, m

(* Counting keeps the types. *)
LEMMA IncrementType ==
  ASSUME atomic \in [Atomic -> Nat], NEW f \in Atomic, Increment(f)
  PROVE  /\ atomic' \in [Atomic -> Nat]
         /\ atomic'[f] = atomic[f] + 1 /\ \A g \in Atomic \ {f} : atomic'[g] = atomic[g]
         /\ \A g \in Atomic : atomic[g] <= atomic'[g]
<1>1. atomic' = [atomic EXCEPT ![f] = atomic[f] + 1] /\ atomic[f] \in Nat
  BY DEF Increment
<1>2. /\ atomic' \in [Atomic -> Nat]
      /\ atomic'[f] = atomic[f] + 1 /\ \A g \in Atomic \ {f} : atomic'[g] = atomic[g]
  BY <1>1
<1>3. \A g \in Atomic : atomic[g] \in Nat
  OBVIOUS
<1> QED
  BY <1>2, <1>3

-----------------------------------------------------------------------------
(* What may change while a report is filled in. *)

(* A book counts one, or none does. *)
LEMMA CountUp ==
  ASSUME NEW c \in [Symbols -> Nat], NEW d, NEW y \in Symbols,
         d = c \/ d = [c EXCEPT ![y] = c[y] + 1]
  PROVE  d \in [Symbols -> Nat] /\ \A z \in Symbols : c[z] <= d[z]
<1>1. \A z \in Symbols : c[z] \in Nat
  OBVIOUS
<1>2. CASE d = c
  BY <1>1, <1>2
<1>3. CASE d = [c EXCEPT ![y] = c[y] + 1]
  <2>1. d \in [Symbols -> Nat] /\ d[y] = c[y] + 1 /\ \A z \in Symbols \ {y} : d[z] = c[z]
    BY <1>3
  <2> QED
    BY <1>1, <2>1
<1> QED
  BY <1>2, <1>3

(* The steps that are not a gatherer's. *)
OtherNext ==
  \/ \E s \in Shards : Shard(s)
  \/ \E y \in Symbols : Request(y) \/ Answer(y) \/ Abort(y) \/ Apply(y) \/ TakeStale(y)
  \/ UNCHANGED vars

(* They leave the reports alone and count upwards; while a gatherer holds  *)
(* the books, these and the drops of book events stand.                    *)
LEMMA OtherSteps ==
  ASSUME TypeOK, OtherNext
  PROVE  /\ UNCHANGED <<lock, step, draft, report>>
         /\ connected' \in [Shards -> BOOLEAN]
         /\ shard' \in [Shards -> {"offline", "reading", "publishing", "counted", "ticking",
                                   "resetting"}]
         /\ state' \in [Symbols -> {"uninitialized", "buffering", "live"}]
         /\ sync' \in [Symbols -> {"idle", "asked", "answered"}]
         /\ gap_count' \in [Symbols -> Nat] /\ snapshot_count' \in [Symbols -> Nat]
         /\ atomic' \in [Atomic -> Nat]
         /\ \A f \in Atomic : atomic[f] <= atomic'[f]
         /\ \A y \in Symbols : /\ gap_count[y] <= gap_count'[y]
                               /\ snapshot_count[y] <= snapshot_count'[y]
         /\ lock # Nobody => /\ UNCHANGED <<state, gap_count, snapshot_count>>
                             /\ atomic'["book_dropped"] = atomic["book_dropped"]
<1> DEFINE Goal ==
         /\ UNCHANGED <<lock, step, draft, report>>
         /\ connected' \in [Shards -> BOOLEAN]
         /\ shard' \in [Shards -> {"offline", "reading", "publishing", "counted", "ticking",
                                   "resetting"}]
         /\ state' \in [Symbols -> {"uninitialized", "buffering", "live"}]
         /\ sync' \in [Symbols -> {"idle", "asked", "answered"}]
         /\ gap_count' \in [Symbols -> Nat] /\ snapshot_count' \in [Symbols -> Nat]
         /\ atomic' \in [Atomic -> Nat]
         /\ \A f \in Atomic : atomic[f] <= atomic'[f]
         /\ \A y \in Symbols : /\ gap_count[y] <= gap_count'[y]
                               /\ snapshot_count[y] <= snapshot_count'[y]
         /\ lock # Nobody => /\ UNCHANGED <<state, gap_count, snapshot_count>>
                             /\ atomic'["book_dropped"] = atomic["book_dropped"]
<1>1. /\ \A f \in Atomic : atomic[f] \in Nat /\ atomic[f] <= atomic[f]
      /\ \A y \in Symbols : /\ gap_count[y] \in Nat /\ gap_count[y] <= gap_count[y]
                            /\ snapshot_count[y] \in Nat
                            /\ snapshot_count[y] <= snapshot_count[y]
  BY DEF TypeOK
<1>2. ASSUME NEW f \in Atomic, Increment(f)
      PROVE  /\ atomic' \in [Atomic -> Nat] /\ \A g \in Atomic : atomic[g] <= atomic'[g]
             /\ f # "book_dropped" => atomic'["book_dropped"] = atomic["book_dropped"]
  BY <1>2, IncrementType, Fields DEF TypeOK
<1>3. ASSUME NEW s \in Shards, Connect(s) \/ Disconnect(s)
      PROVE  Goal
  BY <1>1, <1>3 DEF Connect, Disconnect, books, gather, TypeOK
<1>4. ASSUME NEW s \in Shards, CountBook(s) \/ CountBbo(s)
      PROVE  Goal
  <2>1. /\ atomic' \in [Atomic -> Nat] /\ \A g \in Atomic : atomic[g] <= atomic'[g]
        /\ atomic'["book_dropped"] = atomic["book_dropped"]
    BY <1>2, <1>4, Fields DEF CountBook, CountBbo
  <2> QED
    BY <1>1, <1>4, <2>1 DEF CountBook, CountBbo, books, gather, TypeOK
<1>5. ASSUME NEW s \in Shards, PutBook(s) \/ PutBbo(s)
      PROVE  Goal
  <2>1. /\ atomic' \in [Atomic -> Nat] /\ \A g \in Atomic : atomic[g] <= atomic'[g]
        /\ lock # Nobody => atomic'["book_dropped"] = atomic["book_dropped"]
    <3>1. CASE UNCHANGED atomic
      BY <1>1, <3>1 DEF TypeOK
    <3>2. CASE ~ UNCHANGED atomic
      BY <1>2, <1>5, <3>2, Fields DEF PutBook, PutBbo
    <3> QED
      BY <3>1, <3>2
  <2> QED
    BY <1>1, <1>5, <2>1 DEF PutBook, PutBbo, books, gather, TypeOK
<1>6. ASSUME NEW s \in Shards, ResetBooks(s)
      PROVE  Goal
  BY <1>1, <1>6 DEF ResetBooks, gather, TypeOK
<1>7. ASSUME NEW s \in Shards, NEW y \in Symbols, Depth(s, y)
      PROVE  Goal
  <2>1. /\ gap_count' \in [Symbols -> Nat]
        /\ \A z \in Symbols : gap_count[z] <= gap_count'[z]
    <3>1. \/ UNCHANGED gap_count
          \/ gap_count' = [gap_count EXCEPT ![y] = gap_count[y] + 1]
      BY <1>7 DEF Depth
    <3> QED
      BY <3>1, CountUp DEF TypeOK
  <2>2. /\ state' \in [Symbols -> {"uninitialized", "buffering", "live"}]
        /\ shard' \in [Shards -> {"offline", "reading", "publishing", "counted", "ticking",
                                  "resetting"}]
        /\ UNCHANGED <<connected, snapshot_count, sync, atomic, lock, step, draft, report>>
        /\ lock = Nobody
    BY ZenonT(30), <1>7 DEF Depth, gather, TypeOK
  <2> QED
    BY <1>1, <2>1, <2>2 DEF TypeOK
<1>8. ASSUME NEW y \in Symbols, Request(y) \/ Abort(y) \/ TakeStale(y)
      PROVE  Goal
  BY <1>1, <1>8 DEF Request, Abort, TakeStale, books, gather, TypeOK
<1>9. ASSUME NEW y \in Symbols, Answer(y)
      PROVE  Goal
  <2>1. /\ atomic' \in [Atomic -> Nat] /\ \A g \in Atomic : atomic[g] <= atomic'[g]
        /\ atomic'["book_dropped"] = atomic["book_dropped"]
    BY <1>2, <1>9, Fields DEF Answer
  <2> QED
    BY <1>1, <1>9, <2>1 DEF Answer, books, gather, TypeOK
<1>10. ASSUME NEW y \in Symbols, Apply(y)
       PROVE  Goal
  <2>1. /\ snapshot_count' \in [Symbols -> Nat]
        /\ \A z \in Symbols : snapshot_count[z] <= snapshot_count'[z]
    <3>1. \/ UNCHANGED snapshot_count
          \/ snapshot_count' = [snapshot_count EXCEPT ![y] = snapshot_count[y] + 1]
      BY <1>10 DEF Apply
    <3> QED
      BY <3>1, CountUp DEF TypeOK
  <2>2. /\ state' \in [Symbols -> {"uninitialized", "buffering", "live"}]
        /\ sync' \in [Symbols -> {"idle", "asked", "answered"}]
        /\ UNCHANGED <<connected, shard, gap_count, atomic, lock, step, draft, report>>
        /\ lock = Nobody
    BY <1>10 DEF Apply, gather, TypeOK
  <2> QED
    BY <1>1, <2>1, <2>2 DEF TypeOK
<1>11. ASSUME UNCHANGED vars
       PROVE  Goal
  BY <1>1, <1>11 DEF vars, TypeOK
<1> QED
  BY <1>3, <1>4, <1>5, <1>6, <1>7, <1>8, <1>9, <1>10, <1>11 DEF OtherNext, Shard
(* The others keep the types. *)
LEMMA OtherKeepsTypes ==
  ASSUME TypeOK, OtherNext
  PROVE  TypeOK'
BY OtherSteps DEF TypeOK

-----------------------------------------------------------------------------
(* The steps of a gatherer. *)

(* It takes the books. *)
LEMMA LockStep ==
  ASSUME TypeOK, NEW g \in Gatherers, Lock(g)
  PROVE  /\ lock' = g /\ step'[g] = 1 /\ step' \in [Gatherers -> 0..Len(Loads) + 2]
         /\ \A h \in Gatherers \ {g} : step'[h] = 0
         /\ UNCHANGED <<connected, shard, books, sync, atomic, draft, report>>
<1>1. /\ step[g] = 0 /\ lock = Nobody /\ lock' = g /\ step' = [step EXCEPT ![g] = 1]
      /\ UNCHANGED <<connected, shard, books, sync, atomic, draft, report>>
  BY DEF Lock
<1>2. \A h \in Gatherers : step[h] \in 0..7 /\ ~ (step[h] > 0)
  BY <1>1, Constants, Fields DEF TypeOK
<1>3. \A h \in Gatherers : step[h] = 0
  BY <1>2
<1>4. step \in [Gatherers -> 0..7] /\ Len(Loads) + 2 = 7
  BY Fields DEF TypeOK
<1>5. step' \in [Gatherers -> 0..7] /\ step'[g] = 1
  BY <1>1, <1>4
<1>6. \A h \in Gatherers \ {g} : step'[h] = 0
  BY <1>1, <1>3, <1>4
<1> QED
  BY <1>1, <1>4, <1>5, <1>6

(* While one gatherer is at work, the others are not. *)
LEMMA OneGatherer ==
  ASSUME TypeOK, NEW g \in Gatherers, step[g] > 0
  PROVE  /\ lock = g /\ lock # Nobody /\ \A h \in Gatherers \ {g} : step[h] = 0
         /\ step \in [Gatherers -> 0..7]
<1>1. lock = g /\ lock # Nobody
  BY Constants DEF TypeOK
<1>2. step \in [Gatherers -> 0..7]
  BY Fields DEF TypeOK
<1>3. \A h \in Gatherers \ {g} : ~ (step[h] > 0)
  BY <1>1 DEF TypeOK
<1> QED
  BY <1>1, <1>2, <1>3

(* It counts the books. *)
LEMMA CountStep ==
  ASSUME TypeOK, NEW g \in Gatherers, Count(g)
  PROVE  /\ lock = g /\ lock' = g /\ step[g] = 1 /\ step'[g] = 2
         /\ step' \in [Gatherers -> 0..Len(Loads) + 2]
         /\ \A h \in Gatherers \ {g} : step'[h] = 0
         /\ draft' \in [Gatherers -> Report]
         /\ draft'[g] = Survey
         /\ UNCHANGED <<connected, shard, books, sync, atomic, report>>
<1>1. /\ step[g] = 1 /\ step' = [step EXCEPT ![g] = 2]
      /\ draft' = [draft EXCEPT ![g] = Survey]
      /\ UNCHANGED <<connected, shard, books, sync, atomic, lock, report>>
  BY DEF Count
<1>2. /\ lock = g /\ \A h \in Gatherers \ {g} : step[h] = 0
      /\ step \in [Gatherers -> 0..7]
  BY <1>1, OneGatherer
<1>3. draft' \in [Gatherers -> Report] /\ draft'[g] = Survey
  BY <1>1, SurveyType DEF TypeOK
<1>4. /\ step' \in [Gatherers -> 0..7] /\ step'[g] = 2
      /\ \A h \in Gatherers \ {g} : step'[h] = 0
  BY <1>1, <1>2
<1> QED
  BY <1>1, <1>2, <1>3, <1>4, Fields

(* It loads a field, the i-th. *)
LoadsOne(g, i) ==
  /\ lock = g /\ lock' = g /\ step[g] = i + 1 /\ step'[g] = i + 2
  /\ step' \in [Gatherers -> 0..Len(Loads) + 2]
  /\ \A h \in Gatherers \ {g} : step'[h] = 0
  /\ draft' \in [Gatherers -> Report]
  /\ draft'[g][Loads[i]] = atomic[Loads[i]]
  /\ \A f \in Field \ {Loads[i]} : draft'[g][f] = draft[g][f]
  /\ UNCHANGED <<connected, shard, books, sync, atomic, report>>

(* That is what Load does. *)
LEMMA LoadStep ==
  ASSUME TypeOK, NEW g \in Gatherers, Load(g)
  PROVE  \E i \in 1..5 : LoadsOne(g, i)
<1>1. /\ step[g] \in 2..6 /\ step' = [step EXCEPT ![g] = step[g] + 1]
      /\ draft' = [draft EXCEPT ![g] = [draft[g] EXCEPT ![Loads[step[g] - 1]]
                                          = atomic[Loads[step[g] - 1]]]]
      /\ UNCHANGED <<connected, shard, books, sync, atomic, lock, report>>
  <2>1. /\ step[g] \in 2..Len(Loads) + 1 /\ step' = [step EXCEPT ![g] = step[g] + 1]
        /\ draft' = [draft EXCEPT ![g] = [draft[g] EXCEPT ![Loads[step[g] - 1]]
                                            = atomic[Loads[step[g] - 1]]]]
        /\ UNCHANGED <<connected, shard, books, sync, atomic, lock, report>>
    BY DEF Load
  <2>2. 2..Len(Loads) + 1 = 2..6
    BY Fields
  <2> QED
    BY <2>1, <2>2
<1>2. /\ lock = g /\ \A h \in Gatherers \ {g} : step[h] = 0
      /\ step \in [Gatherers -> 0..7]
  BY <1>1, OneGatherer
<1>3. PICK i \in 1..5 : i = step[g] - 1
  BY <1>1
<1>4. step[g] = i + 1 /\ step[g] + 1 = i + 2 /\ i + 2 \in 0..7
  BY <1>1, <1>3
<1>5. /\ step' \in [Gatherers -> 0..7] /\ step'[g] = i + 2
      /\ \A h \in Gatherers \ {g} : step'[h] = 0
  BY <1>1, <1>2, <1>4
<1>6. Loads[i] \in Field /\ Loads[i] \in Atomic
  <2>1. Loads[i] \in Atomic
    BY Fields DEF Atomic
  <2> QED
    BY <2>1, FieldNames
<1> DEFINE r == [draft[g] EXCEPT ![Loads[i]] = atomic[Loads[i]]]
<1>7. draft[g] \in [Field -> Nat] /\ atomic[Loads[i]] \in Nat
  BY <1>6 DEF TypeOK, Report, Field
<1>8. /\ r \in [Field -> Nat] /\ r[Loads[i]] = atomic[Loads[i]]
      /\ \A f \in Field \ {Loads[i]} : r[f] = draft[g][f]
  BY <1>6, <1>7
<1>9. draft' = [draft EXCEPT ![g] = r]
  BY <1>1, <1>3
<1> HIDE DEF r
<1>10. draft' \in [Gatherers -> Report] /\ draft'[g] = r
  BY <1>8, <1>9 DEF TypeOK, Report, Field
<1>11. /\ draft'[g][Loads[i]] = atomic[Loads[i]]
       /\ \A f \in Field \ {Loads[i]} : draft'[g][f] = draft[g][f]
  BY <1>8, <1>10
<1>12. 0..Len(Loads) + 2 = 0..7
  BY Fields
<1>13. /\ lock = g /\ lock' = g
       /\ UNCHANGED <<connected, shard, books, sync, atomic, report>>
  BY <1>1, <1>2
<1>14. LoadsOne(g, i)
  BY <1>4, <1>5, <1>10, <1>11, <1>12, <1>13 DEF LoadsOne
<1> QED
  BY <1>14

(* It returns. *)
LEMMA FinishStep ==
  ASSUME TypeOK, NEW g \in Gatherers, Finish(g)
  PROVE  /\ lock = g /\ lock' = Nobody /\ step[g] = 7
         /\ step' \in [Gatherers -> 0..Len(Loads) + 2]
         /\ \A h \in Gatherers : step'[h] = 0
         /\ draft' \in [Gatherers -> Report]
         /\ report' = draft[g]
         /\ UNCHANGED <<connected, shard, books, sync, atomic>>
<1>1. /\ step[g] = 7 /\ step' = [step EXCEPT ![g] = 0]
      /\ draft' = [draft EXCEPT ![g] = NoReport] /\ report' = draft[g] /\ lock' = Nobody
      /\ UNCHANGED <<connected, shard, books, sync, atomic>>
  BY Fields DEF Finish
<1>2. /\ lock = g /\ \A h \in Gatherers \ {g} : step[h] = 0
      /\ step \in [Gatherers -> 0..7]
  BY <1>1, OneGatherer
<1>3. draft' \in [Gatherers -> Report]
  BY <1>1, SurveyType DEF TypeOK
<1>4. step' \in [Gatherers -> 0..7] /\ \A h \in Gatherers : step'[h] = 0
  BY <1>1, <1>2
<1> QED
  BY <1>1, <1>2, <1>3, <1>4, Fields

(* The next steps, in two kinds. *)
LEMMA NextSteps ==
  ASSUME [Next]_vars
  PROVE  \/ OtherNext
         \/ \E g \in Gatherers : Lock(g) \/ Count(g) \/ Load(g) \/ Finish(g)
BY DEF Next, OtherNext

(* Every step keeps the types. *)
LEMMA NextKeepsTypes ==
  ASSUME TypeOK, [Next]_vars
  PROVE  TypeOK'
<1>1. CASE OtherNext
  BY <1>1, OtherKeepsTypes
<1>2. ASSUME NEW g \in Gatherers, Lock(g)
      PROVE  TypeOK'
  BY <1>2, LockStep DEF books, TypeOK
<1>3. ASSUME NEW g \in Gatherers, Count(g)
      PROVE  TypeOK'
  BY <1>3, CountStep DEF books, TypeOK
<1>4. ASSUME NEW g \in Gatherers, Load(g)
      PROVE  TypeOK'
  <2>1. PICK i \in 1..5 : LoadsOne(g, i)
    BY <1>4, LoadStep
  <2> QED
    BY <2>1 DEF LoadsOne, books, TypeOK
<1>5. ASSUME NEW g \in Gatherers, Finish(g)
      PROVE  TypeOK'
  <2>1. draft[g] \in Report
    BY DEF TypeOK
  <2> QED
    BY <1>5, <2>1, FinishStep DEF books, TypeOK
<1> QED
  BY <1>1, <1>2, <1>3, <1>4, <1>5, NextSteps

(* Initially they are right. *)
LEMMA InitTypes == Init => TypeOK
<1> SUFFICES ASSUME Init
             PROVE  TypeOK
  OBVIOUS
<1>1. NoReport \in Report
  BY DEF NoReport, Report
<1>2. 0 \in 0..Len(Loads) + 2
  BY Fields
<1> QED
  BY <1>1, <1>2 DEF Init, TypeOK

(* Every variable keeps its type, and a report is only filled in by the    *)
(* gatherer that holds the books (Telemetry::gather).                      *)
THEOREM TypeCorrect == Spec => []TypeOK
<1>1. Init => TypeOK
  BY InitTypes
<1>2. TypeOK /\ [Next]_vars => TypeOK'
  BY NextKeepsTypes
<1> QED
  BY <1>1, <1>2, PTL DEF Spec

-----------------------------------------------------------------------------
(* Live books belong to shards that have a connection. *)

(* A shard that reads is connected; a book that is not new has a shard     *)
(* that is not offline.                                                    *)
Connected ==
  \A s \in Shards : shard[s] \in {"reading", "publishing", "counted", "ticking"} => connected[s]

Buffered ==
  \A y \in Symbols : state[y] # "uninitialized" => shard[ShardOf[y]] # "offline"

Kept == Connected /\ Buffered

(* The shards keep it so. *)
LEMMA ShardKeeps ==
  ASSUME TypeOK, Kept, NEW s \in Shards, Shard(s)
  PROVE  Kept'
<1>0. \A y \in Symbols : ShardOf[y] \in Shards
  BY Constants
<1>1. CASE Connect(s)
  <2>1. /\ connected'[s] /\ shard'[s] = "reading" /\ UNCHANGED state
        /\ \A t \in Shards \ {s} : shard'[t] = shard[t] /\ connected'[t] = connected[t]
    BY <1>1 DEF Connect, books, TypeOK
  <2> QED
    BY <1>0, <2>1 DEF Kept, Connected, Buffered
<1>2. CASE CountBook(s) \/ PutBook(s) \/ CountBbo(s) \/ PutBbo(s)
  <2>1. /\ shard[s] \in {"reading", "publishing", "counted", "ticking"}
        /\ shard'[s] \in {"reading", "publishing", "counted", "ticking"}
        /\ UNCHANGED <<connected, state>>
        /\ \A t \in Shards \ {s} : shard'[t] = shard[t]
    BY <1>2 DEF CountBook, PutBook, CountBbo, PutBbo, books, TypeOK
  <2> QED
    BY <1>0, <2>1 DEF Kept, Connected, Buffered
<1>3. CASE Disconnect(s)
  <2>1. /\ shard'[s] = "resetting" /\ UNCHANGED state
        /\ \A t \in Shards \ {s} : shard'[t] = shard[t] /\ connected'[t] = connected[t]
    BY <1>3 DEF Disconnect, books, TypeOK
  <2> QED
    BY <1>0, <2>1 DEF Kept, Connected, Buffered
<1>4. CASE ResetBooks(s)
  <2>1. /\ shard'[s] = "offline" /\ UNCHANGED connected
        /\ \A t \in Shards \ {s} : shard'[t] = shard[t]
        /\ \A y \in Symbols : state'[y] = IF ShardOf[y] = s THEN "uninitialized" ELSE state[y]
    BY <1>4 DEF ResetBooks, TypeOK
  <2> QED
    BY <1>0, <2>1 DEF Kept, Connected, Buffered
<1>5. ASSUME NEW y \in Symbols, Depth(s, y)
      PROVE  Kept'
  <2>1. /\ shard[s] = "reading" /\ ShardOf[y] = s /\ UNCHANGED connected
        /\ shard'[s] \in {"reading", "publishing"}
        /\ \A t \in Shards \ {s} : shard'[t] = shard[t]
        /\ \A z \in Symbols \ {y} : state'[z] = state[z]
    BY <1>5 DEF Depth, TypeOK
  <2> QED
    BY <1>0, <2>1 DEF Kept, Connected, Buffered
<1> QED
  BY <1>1, <1>2, <1>3, <1>4, <1>5 DEF Shard

(* So does everything else. *)
LEMMA NextKeeps ==
  ASSUME TypeOK, Kept, [Next]_vars
  PROVE  Kept'
<1>1. ASSUME NEW s \in Shards, Shard(s)
      PROVE  Kept'
  BY <1>1, ShardKeeps
<1>2. ASSUME NEW y \in Symbols, Request(y) \/ Answer(y) \/ Abort(y) \/ Apply(y) \/ TakeStale(y)
      PROVE  Kept'
  <2>1. /\ UNCHANGED <<connected, shard>>
        /\ \A z \in Symbols : state'[z] = state[z] \/ state[z] # "uninitialized"
    BY <1>2 DEF Request, Answer, Abort, Apply, TakeStale, books, TypeOK
  <2> QED
    BY <2>1 DEF Kept, Connected, Buffered
<1>3. CASE UNCHANGED <<connected, shard, state>>
  BY <1>3 DEF Kept, Connected, Buffered
<1>4. ASSUME NEW g \in Gatherers, Lock(g) \/ Count(g) \/ Load(g) \/ Finish(g)
      PROVE  Kept'
  BY <1>3, <1>4 DEF Lock, Count, Load, Finish, books
<1> QED
  BY <1>1, <1>2, <1>3, <1>4, NextSteps DEF OtherNext, vars

(* No book looks live without a connection, but for the moment before the  *)
(* shard that lost it resets its books (run_shard): /health counts them.   *)
THEOREM NoneLooksLiveOffline == Spec => []NoneLiveOffline
<1>1. Init => TypeOK /\ Kept
  <2>1. Init => Kept
    BY Constants DEF Init, Kept, Connected, Buffered
  <2> QED
    BY <2>1, InitTypes
<1>2. (TypeOK /\ Kept) /\ [Next]_vars => (TypeOK /\ Kept)'
  BY NextKeepsTypes, NextKeeps
<1>3. TypeOK /\ Kept => NoneLiveOffline
  <2> SUFFICES ASSUME TypeOK, Kept, NEW y \in Symbols, state[y] = "live"
               PROVE  /\ shard[ShardOf[y]] # "offline"
                      /\ connected[ShardOf[y]] \/ shard[ShardOf[y]] = "resetting"
    BY DEF NoneLiveOffline
  <2>1. ShardOf[y] \in Shards
    BY Constants
  <2>2. shard[ShardOf[y]] # "offline"
    BY DEF Kept, Buffered
  <2> QED
    BY <2>1, <2>2 DEF Kept, Connected, TypeOK
<1> QED
  BY <1>1, <1>2, <1>3, PTL DEF Spec

-----------------------------------------------------------------------------
(* What is counted first is never behind what is counted later. *)

Produced  == atomic["book_published"]
Shed      == atomic["book_dropped"]
Requested == atomic["snapshots"]
Applied   == Total(snapshot_count)
Gaps      == Total(gap_count)
Unput     == {s \in Shards : shard[s] = "counted"}
Answered  == {y \in Symbols : sync[y] = "answered"}
ToPut     == Cardinality(Unput)
ToApply   == Cardinality(Answered)

(* Every book event that a shard has counted and not yet put may still be  *)
(* shed, every answer that a sync task holds may still be applied.         *)
Promises == Shed + ToPut <= Produced /\ Applied + ToApply <= Requested

(* The numbers are numbers. *)
LEMMA Numbers ==
  ASSUME TypeOK
  PROVE  /\ Produced \in Nat /\ Shed \in Nat /\ Requested \in Nat
         /\ Applied \in Nat /\ Gaps \in Nat /\ Live \in Nat
         /\ ToPut \in Nat /\ ToApply \in Nat
         /\ IsFiniteSet(Unput) /\ IsFiniteSet(Answered)
<1>1. Produced \in Nat /\ Shed \in Nat /\ Requested \in Nat
  BY Fields DEF Produced, Shed, Requested, TypeOK
<1>2. Applied \in Nat /\ Gaps \in Nat
  BY MarksFinite DEF Applied, Gaps, TypeOK
<1>3. IsFiniteSet(Unput) /\ IsFiniteSet(Answered)
  BY Constants, FS_Subset DEF Unput, Answered
<1>4. ToPut \in Nat /\ ToApply \in Nat
  BY <1>3, FS_CardinalityType DEF ToPut, ToApply
<1>5. Live \in Nat
  BY Constants, FS_Subset, FS_CardinalityType DEF Live
<1> QED
  BY <1>1, <1>2, <1>3, <1>4, <1>5

(* What a step may do to them: nothing, or one of five. *)
BooksStand    == UNCHANGED <<Produced, Shed, ToPut>>
RequestsStand == UNCHANGED <<Requested, Applied, ToApply>>

(* Counting a book event promises to put it. *)
LEMMA CountBookPromises ==
  ASSUME TypeOK, NEW s \in Shards, CountBook(s)
  PROVE  Produced' = Produced + 1 /\ Shed' = Shed /\ ToPut' = ToPut + 1 /\ RequestsStand
<1>1. /\ atomic'["book_published"] = atomic["book_published"] + 1
      /\ \A f \in Atomic \ {"book_published"} : atomic'[f] = atomic[f]
  BY IncrementType, Fields DEF CountBook, TypeOK
<1>2. Produced' = Produced + 1 /\ Shed' = Shed /\ Requested' = Requested
  BY <1>1, Fields DEF Produced, Shed, Requested
<1>3. s \notin Unput /\ Unput' = Unput \cup {s}
  BY DEF CountBook, Unput, TypeOK
<1>4. ToPut' = ToPut + 1
  BY <1>3, Numbers, FS_AddElement DEF ToPut
<1>5. Applied' = Applied /\ ToApply' = ToApply
  BY DEF CountBook, books, Applied, ToApply, Answered
<1> QED
  BY <1>2, <1>4, <1>5 DEF RequestsStand

(* Putting it keeps the promise. *)
LEMMA PutBookKeeps ==
  ASSUME TypeOK, NEW s \in Shards, PutBook(s)
  PROVE  /\ Produced' = Produced /\ (Shed' = Shed \/ Shed' = Shed + 1)
         /\ ToPut' = ToPut - 1 /\ RequestsStand
<1>1. UNCHANGED atomic \/ Increment("book_dropped")
  BY DEF PutBook
<1>2. Produced' = Produced /\ (Shed' = Shed \/ Shed' = Shed + 1) /\ Requested' = Requested
  <2>1. CASE UNCHANGED atomic
    BY <2>1 DEF Produced, Shed, Requested
  <2>2. CASE Increment("book_dropped")
    <3>1. /\ atomic'["book_dropped"] = atomic["book_dropped"] + 1
          /\ \A f \in Atomic \ {"book_dropped"} : atomic'[f] = atomic[f]
      BY <2>2, IncrementType, Fields DEF TypeOK
    <3> QED
      BY <3>1, Fields DEF Produced, Shed, Requested
  <2> QED
    BY <1>1, <2>1, <2>2
<1>3. s \in Unput /\ Unput' = Unput \ {s}
  BY DEF PutBook, Unput, TypeOK
<1>4. ToPut' = ToPut - 1
  BY <1>3, Numbers, FS_RemoveElement DEF ToPut
<1>5. Applied' = Applied /\ ToApply' = ToApply
  BY DEF PutBook, books, Applied, ToApply, Answered
<1> QED
  BY <1>2, <1>4, <1>5 DEF RequestsStand

(* A ticker event is counted apart. *)
LEMMA TickersApart ==
  ASSUME TypeOK, NEW s \in Shards, CountBbo(s) \/ PutBbo(s)
  PROVE  BooksStand /\ RequestsStand
<1>1. UNCHANGED atomic \/ Increment("bbo_published") \/ Increment("bbo_dropped")
  BY DEF CountBbo, PutBbo
<1>2. UNCHANGED <<Produced, Shed, Requested>>
  <2>1. CASE UNCHANGED atomic
    BY <2>1 DEF Produced, Shed, Requested
  <2>2. CASE Increment("bbo_published") \/ Increment("bbo_dropped")
    <3>1. \A f \in Atomic \ {"bbo_published", "bbo_dropped"} : atomic'[f] = atomic[f]
      BY <2>2, IncrementType, Fields DEF TypeOK
    <3> QED
      BY <3>1, Fields DEF Produced, Shed, Requested
  <2> QED
    BY <1>1, <2>1, <2>2
<1>3. Unput' = Unput
  BY DEF CountBbo, PutBbo, Unput, TypeOK
<1>4. UNCHANGED <<Applied, ToApply, ToPut>>
  BY <1>3 DEF CountBbo, PutBbo, books, Applied, ToApply, Answered, ToPut
<1> QED
  BY <1>2, <1>4 DEF BooksStand, RequestsStand

(* The other steps of a shard count nothing of it. *)
LEMMA OtherShardSteps ==
  ASSUME TypeOK, NEW s \in Shards,
         \/ Connect(s) \/ Disconnect(s) \/ ResetBooks(s)
         \/ \E y \in Symbols : Depth(s, y)
  PROVE  BooksStand /\ RequestsStand
<1>1. UNCHANGED <<atomic, snapshot_count, sync>>
  BY DEF Connect, Disconnect, ResetBooks, Depth, books
<1>2. Unput' = Unput
  <2>1. /\ shard[s] # "counted" /\ shard'[s] # "counted"
        /\ \A t \in Shards \ {s} : shard'[t] = shard[t]
    BY DEF Connect, Disconnect, ResetBooks, Depth, TypeOK
  <2> QED
    BY <2>1 DEF Unput
<1> QED
  BY <1>1, <1>2 DEF BooksStand, RequestsStand, Produced, Shed, Requested, ToPut, Applied, ToApply,
                    Answered

(* An answer is counted before anyone can apply it. *)
LEMMA AnswerPromises ==
  ASSUME TypeOK, NEW y \in Symbols, Answer(y)
  PROVE  /\ Requested' = Requested + 1 /\ Applied' = Applied
         /\ (ToApply' = ToApply \/ ToApply' = ToApply + 1) /\ BooksStand
<1>1. /\ atomic'["snapshots"] = atomic["snapshots"] + 1
      /\ \A f \in Atomic \ {"snapshots"} : atomic'[f] = atomic[f]
  BY IncrementType, Fields DEF Answer, TypeOK
<1>2. Produced' = Produced /\ Shed' = Shed /\ Requested' = Requested + 1
  BY <1>1, Fields DEF Produced, Shed, Requested
<1>3. y \notin Answered /\ (Answered' = Answered \/ Answered' = Answered \cup {y})
  BY DEF Answer, Answered, TypeOK
<1>4. ToApply' = ToApply \/ ToApply' = ToApply + 1
  BY <1>3, Numbers, FS_AddElement DEF ToApply
<1>5. Applied' = Applied /\ ToPut' = ToPut
  BY DEF Answer, books, Applied, ToPut, Unput
<1> QED
  BY <1>2, <1>4, <1>5 DEF BooksStand

(* It is applied once. *)
LEMMA ApplyKeeps ==
  ASSUME TypeOK, NEW y \in Symbols, Apply(y)
  PROVE  /\ Requested' = Requested /\ (Applied' = Applied \/ Applied' = Applied + 1)
         /\ ToApply' = ToApply - 1 /\ BooksStand
<1>1. y \in Answered /\ Answered' = Answered \ {y}
  BY DEF Apply, Answered, TypeOK
<1>2. ToApply' = ToApply - 1
  BY <1>1, Numbers, FS_RemoveElement DEF ToApply
<1>3. \/ UNCHANGED snapshot_count
      \/ snapshot_count' = [snapshot_count EXCEPT ![y] = snapshot_count[y] + 1]
  BY DEF Apply
<1>4. Applied' = Applied \/ Applied' = Applied + 1
  BY <1>3, TotalCounts DEF Applied, TypeOK
<1>5. UNCHANGED <<atomic, shard>>
  BY DEF Apply
<1> QED
  BY <1>2, <1>4, <1>5 DEF BooksStand, Requested, Produced, Shed, ToPut, Unput

(* Or never. *)
LEMMA OtherSyncSteps ==
  ASSUME TypeOK, NEW y \in Symbols, Request(y) \/ Abort(y) \/ TakeStale(y)
  PROVE  /\ Requested' = Requested /\ Applied' = Applied
         /\ ToApply' \in 0..ToApply /\ BooksStand
<1>1. Answered' \subseteq Answered
  BY DEF Request, Abort, TakeStale, Answered, TypeOK
<1>2. ToApply' \in 0..ToApply
  <2>1. Cardinality(Answered') \in Nat /\ Cardinality(Answered') <= Cardinality(Answered)
    BY <1>1, Numbers, FS_Subset, FS_CardinalityType
  <2> QED
    BY <2>1, Numbers DEF ToApply
<1>3. UNCHANGED <<atomic, shard, snapshot_count>>
  BY DEF Request, Abort, TakeStale, books
<1> QED
  BY <1>2, <1>3 DEF BooksStand, Requested, Produced, Shed, ToPut, Unput, Applied

(* So every step keeps the promises. *)
LEMMA NextPromises ==
  ASSUME TypeOK, Promises, [Next]_vars
  PROVE  Promises'
<1>1. /\ Produced \in Nat /\ Shed \in Nat /\ Requested \in Nat /\ Applied \in Nat
      /\ ToPut \in Nat /\ ToApply \in Nat
  BY Numbers
<1>2. Shed + ToPut <= Produced /\ Applied + ToApply <= Requested
  BY DEF Promises
<1>3. CASE BooksStand /\ RequestsStand
  BY <1>2, <1>3 DEF BooksStand, RequestsStand, Promises
<1>4. ASSUME NEW s \in Shards, Shard(s)
      PROVE  Promises'
  <2>1. CASE CountBook(s)
    <3>1. Produced' = Produced + 1 /\ Shed' = Shed /\ ToPut' = ToPut + 1 /\ RequestsStand
      BY <2>1, CountBookPromises
    <3> QED
      BY <1>1, <1>2, <3>1 DEF RequestsStand, Promises
  <2>2. CASE PutBook(s)
    <3>1. /\ Produced' = Produced /\ (Shed' = Shed \/ Shed' = Shed + 1)
          /\ ToPut' = ToPut - 1 /\ RequestsStand
      BY <2>2, PutBookKeeps
    <3> QED
      BY <1>1, <1>2, <3>1 DEF RequestsStand, Promises
  <2>3. CASE CountBbo(s) \/ PutBbo(s)
    BY <1>3, <2>3, TickersApart
  <2>4. CASE \/ Connect(s) \/ Disconnect(s) \/ ResetBooks(s)
             \/ \E y \in Symbols : Depth(s, y)
    BY <1>3, <2>4, OtherShardSteps
  <2> QED
    BY <1>4, <2>1, <2>2, <2>3, <2>4 DEF Shard
<1>5. ASSUME NEW y \in Symbols, Request(y) \/ Answer(y) \/ Abort(y) \/ Apply(y) \/ TakeStale(y)
      PROVE  Promises'
  <2>1. CASE Answer(y)
    <3>1. /\ Requested' = Requested + 1 /\ Applied' = Applied
          /\ (ToApply' = ToApply \/ ToApply' = ToApply + 1) /\ BooksStand
      BY <2>1, AnswerPromises
    <3> QED
      BY <1>1, <1>2, <3>1 DEF BooksStand, Promises
  <2>2. CASE Apply(y)
    <3>1. /\ Requested' = Requested /\ (Applied' = Applied \/ Applied' = Applied + 1)
          /\ ToApply' = ToApply - 1 /\ BooksStand
      BY <2>2, ApplyKeeps
    <3> QED
      BY <1>1, <1>2, <3>1 DEF BooksStand, Promises
  <2>3. CASE Request(y) \/ Abort(y) \/ TakeStale(y)
    <3>1. /\ Requested' = Requested /\ Applied' = Applied
          /\ ToApply' \in 0..ToApply /\ BooksStand
      BY <2>3, OtherSyncSteps
    <3>2. ToApply' \in Nat /\ ToApply' <= ToApply
      BY <1>1, <3>1
    <3>3. Applied + ToApply' <= Requested
      <4>1. ASSUME NEW a \in Nat, NEW k \in Nat, NEW n \in Nat, NEW r \in Nat,
                   a + n <= r, k <= n
            PROVE  a + k <= r
        BY <4>1
      <4> QED
        BY <1>1, <1>2, <3>2, <4>1
    <3>4. Applied' + ToApply' <= Requested'
      BY <3>1, <3>3
    <3> QED
      BY <1>2, <3>1, <3>4 DEF BooksStand, Promises
  <2> QED
    BY <1>5, <2>1, <2>2, <2>3
<1>6. CASE UNCHANGED <<shard, snapshot_count, sync, atomic>>
  BY <1>3, <1>6 DEF BooksStand, RequestsStand, Produced, Shed, Requested, ToPut, Unput, Applied,
                    ToApply, Answered
<1>7. ASSUME NEW g \in Gatherers, Lock(g) \/ Count(g) \/ Load(g) \/ Finish(g)
      PROVE  Promises'
  BY <1>6, <1>7 DEF Lock, Count, Load, Finish, books
<1> QED
  BY <1>4, <1>5, <1>6, <1>7, NextSteps DEF OtherNext, vars

-----------------------------------------------------------------------------
(* The report being filled in, and the latest. *)

D(g, f) == draft[g][f]
R(f) == report[f]
A(f) == atomic[f]

(* What was counted of the books stays true: the gatherer holds them. *)
Surveyed(g) ==
  step[g] >= 2 =>
    D(g, "live") = Live /\ D(g, "gaps") = Gaps /\ D(g, "snapshots_per_book") = Applied

(* The produced events are loaded before those that were shed, the         *)
(* requests after the snapshots that were applied.                         *)
InOrder(g) ==
  /\ step[g] >= 4 => Shed <= D(g, "book_published")
  /\ step[g] >= 5 => Applied <= D(g, "snapshots")
  /\ step[g] >= 7 => D(g, "book_dropped") <= D(g, "book_published")

(* What is loaded lies between the latest report and the present. *)
Between(g) ==
  \A i \in 1..5 : step[g] >= i + 2 =>
    R(Loads[i]) <= D(g, Loads[i]) /\ D(g, Loads[i]) <= A(Loads[i])

Filling(g) == Surveyed(g) /\ InOrder(g) /\ Between(g)

(* The latest report is of the past. *)
Past ==
  /\ \A f \in Atomic : R(f) <= A(f)
  /\ R("gaps") <= Gaps /\ R("snapshots_per_book") <= Applied

Fits == R("snapshots_per_book") <= R("snapshots") /\ R("book_dropped") <= R("book_published")

Gathering == Past /\ Fits /\ \A g \in Gatherers : Filling(g)

(* The figures are numbers. *)
LEMMA Figures ==
  ASSUME TypeOK
  PROVE  /\ \A f \in Atomic : A(f) \in Nat
         /\ \A f \in Field : R(f) \in Nat
         /\ \A g \in Gatherers : \A f \in Field : D(g, f) \in Nat
         /\ \A i \in 1..5 : Loads[i] \in Atomic /\ Loads[i] \in Field
         /\ \A g \in Gatherers : step[g] \in Nat
<1>1. \A i \in 1..5 : Loads[i] \in Atomic
  BY Fields DEF Atomic
<1>2. \A g \in Gatherers : step[g] \in 0..7
  BY Fields DEF TypeOK
<1>3. Atomic \subseteq Field
  BY FieldNames
<1>4. \A f \in Atomic : A(f) \in Nat
  BY DEF A, TypeOK
<1>5. \A f \in Field : R(f) \in Nat
  BY DEF R, TypeOK, Report, Field
<1>6. \A g \in Gatherers : \A f \in Field : D(g, f) \in Nat
  <2>1. \A g \in Gatherers : draft[g] \in [Field -> Nat]
    BY DEF TypeOK, Report, Field
  <2> QED
    BY <2>1 DEF D
<1>7. \A g \in Gatherers : step[g] \in Nat
  BY <1>2
<1>8. \A i \in 1..5 : Loads[i] \in Field
  BY <1>1, <1>3
<1> QED
  BY <1>1, <1>4, <1>5, <1>6, <1>7, <1>8

(* The figures of the other steps. *)
LEMMA OtherFigures ==
  ASSUME TypeOK, OtherNext
  PROVE  /\ UNCHANGED <<step, lock>>
         /\ \A f \in Field : R(f)' = R(f)
         /\ \A g \in Gatherers : \A f \in Field : D(g, f)' = D(g, f)
         /\ \A f \in Atomic : A(f)' \in Nat /\ A(f) <= A(f)'
         /\ Gaps' \in Nat /\ Applied' \in Nat /\ Gaps <= Gaps' /\ Applied <= Applied'
         /\ lock # Nobody => UNCHANGED <<Live, Gaps, Applied, Shed>>
<1>1. /\ UNCHANGED <<lock, step, draft, report>>
      /\ gap_count' \in [Symbols -> Nat] /\ snapshot_count' \in [Symbols -> Nat]
      /\ atomic' \in [Atomic -> Nat]
      /\ \A f \in Atomic : atomic[f] <= atomic'[f]
      /\ \A y \in Symbols : /\ gap_count[y] <= gap_count'[y]
                            /\ snapshot_count[y] <= snapshot_count'[y]
      /\ lock # Nobody => /\ UNCHANGED <<state, gap_count, snapshot_count>>
                          /\ atomic'["book_dropped"] = atomic["book_dropped"]
  BY OtherSteps
<1>2. gap_count \in [Symbols -> Nat] /\ snapshot_count \in [Symbols -> Nat]
  BY DEF TypeOK
<1>3. /\ Total(gap_count) <= Total(gap_count') /\ Total(gap_count') \in Nat
      /\ Total(snapshot_count) <= Total(snapshot_count') /\ Total(snapshot_count') \in Nat
  BY <1>1, <1>2, TotalGrows, MarksFinite
<1>4. Gaps' \in Nat /\ Applied' \in Nat /\ Gaps <= Gaps' /\ Applied <= Applied'
  BY <1>3 DEF Gaps, Applied
<1>5. lock # Nobody => UNCHANGED <<Live, Gaps, Applied, Shed>>
  BY <1>1 DEF Live, Gaps, Applied, Shed
<1>6. \A f \in Atomic : A(f)' \in Nat /\ A(f) <= A(f)'
  BY <1>1 DEF A
<1>7. /\ \A f \in Field : R(f)' = R(f)
      /\ \A g \in Gatherers : \A f \in Field : D(g, f)' = D(g, f)
  BY <1>1 DEF R, D
<1> QED
  BY <1>1, <1>4, <1>5, <1>6, <1>7

(* They disturb no report. *)
LEMMA OtherGathering ==
  ASSUME TypeOK, Gathering, OtherNext
  PROVE  Gathering'
<1>1. /\ \A f \in Atomic : A(f) \in Nat
      /\ \A f \in Field : R(f) \in Nat
      /\ \A g \in Gatherers : \A f \in Field : D(g, f) \in Nat
      /\ \A i \in 1..5 : Loads[i] \in Atomic /\ Loads[i] \in Field
      /\ \A g \in Gatherers : step[g] \in Nat
  BY Figures
<1>2. Gaps \in Nat /\ Applied \in Nat
  BY Numbers
<1>3. /\ UNCHANGED <<step, lock>>
      /\ \A f \in Field : R(f)' = R(f)
      /\ \A g \in Gatherers : \A f \in Field : D(g, f)' = D(g, f)
      /\ \A f \in Atomic : A(f)' \in Nat /\ A(f) <= A(f)'
      /\ Gaps' \in Nat /\ Applied' \in Nat /\ Gaps <= Gaps' /\ Applied <= Applied'
      /\ lock # Nobody => UNCHANGED <<Live, Gaps, Applied, Shed>>
  BY OtherFigures
<1>4. /\ {"gaps", "snapshots_per_book", "live"} \subseteq Field
      /\ Atomic \subseteq Field
      /\ {"book_published", "snapshots", "book_dropped"} \subseteq Atomic
  BY FieldNames, Fields
<1>5. Past'
  <2>1. \A f \in Atomic : R(f)' <= A(f)'
    <3> SUFFICES ASSUME NEW f \in Atomic
                 PROVE  R(f)' <= A(f)'
      OBVIOUS
    <3>1. R(f)' = R(f) /\ R(f) <= A(f) /\ A(f) <= A(f)'
      BY <1>3, <1>4 DEF Gathering, Past
    <3>2. R(f) \in Nat /\ A(f) \in Nat /\ A(f)' \in Nat
      BY <1>1, <1>3, <1>4
    <3> QED
      BY <3>1, <3>2
  <2>2. R("gaps")' <= Gaps'
    <3>1. R("gaps")' = R("gaps") /\ R("gaps") <= Gaps /\ R("gaps") \in Nat
      BY <1>1, <1>3, <1>4 DEF Gathering, Past
    <3> QED
      BY <1>2, <1>3, <3>1
  <2>3. R("snapshots_per_book")' <= Applied'
    <3>1. /\ R("snapshots_per_book")' = R("snapshots_per_book")
          /\ R("snapshots_per_book") <= Applied /\ R("snapshots_per_book") \in Nat
      BY <1>1, <1>3, <1>4 DEF Gathering, Past
    <3> QED
      BY <1>2, <1>3, <3>1
  <2> QED
    BY <2>1, <2>2, <2>3 DEF Past
<1>6. Fits'
  BY <1>3, <1>4 DEF Gathering, Fits
<1>7. ASSUME NEW g \in Gatherers
      PROVE  Filling(g)'
  <2>1. CASE step[g] = 0
    <3>1. step'[g] = 0
      BY <1>3, <2>1
    <3> QED
      BY <3>1 DEF Filling, Surveyed, InOrder, Between
  <2>2. CASE step[g] # 0
    <3>1. lock # Nobody /\ step'[g] = step[g]
      BY <1>1, <1>3, <2>2, OneGatherer
    <3>2. UNCHANGED <<Live, Gaps, Applied, Shed>>
      BY <1>3, <3>1
    <3>3. Surveyed(g)'
      BY <1>3, <1>4, <3>1, <3>2 DEF Gathering, Filling, Surveyed
    <3>4. InOrder(g)'
      BY <1>3, <1>4, <3>1, <3>2 DEF Gathering, Filling, InOrder
    <3>5. Between(g)'
      <4> SUFFICES ASSUME NEW i \in 1..5, step'[g] >= i + 2
                   PROVE  R(Loads[i])' <= D(g, Loads[i])' /\ D(g, Loads[i])' <= A(Loads[i])'
        BY DEF Between
      <4>1. R(Loads[i]) <= D(g, Loads[i]) /\ D(g, Loads[i]) <= A(Loads[i])
        BY <3>1 DEF Gathering, Filling, Between
      <4>2. R(Loads[i])' = R(Loads[i]) /\ D(g, Loads[i])' = D(g, Loads[i])
        BY <1>1, <1>3
      <4>3. A(Loads[i])' \in Nat /\ A(Loads[i]) <= A(Loads[i])'
        BY <1>1, <1>3
      <4>4. D(g, Loads[i]) \in Nat /\ A(Loads[i]) \in Nat
        BY <1>1
      <4>5. D(g, Loads[i]) <= A(Loads[i])'
        BY <4>1, <4>3, <4>4
      <4> QED
        BY <4>1, <4>2, <4>5
    <3> QED
      BY <3>3, <3>4, <3>5 DEF Filling
  <2> QED
    BY <2>1, <2>2
<1> QED
  BY <1>5, <1>6, <1>7 DEF Gathering

(* The gatherers that are not at work have nothing to show. *)
LEMMA IdleFilling ==
  ASSUME NEW g \in Gatherers, step'[g] = 0
  PROVE  Filling(g)'
BY DEF Filling, Surveyed, InOrder, Between

(* When one takes the books, nothing is counted or loaded. *)
LEMMA LockGathering ==
  ASSUME TypeOK, Gathering, NEW g \in Gatherers, Lock(g)
  PROVE  Gathering'
<1>1. /\ step'[g] = 1 /\ \A h \in Gatherers \ {g} : step'[h] = 0
      /\ UNCHANGED <<books, atomic, draft, report>>
  BY LockStep
<1>2. Past' /\ Fits'
  BY <1>1 DEF Gathering, Past, Fits, R, A, Gaps, Applied, books
<1>3. Filling(g)'
  BY <1>1 DEF Filling, Surveyed, InOrder, Between
<1> QED
  BY <1>1, <1>2, <1>3, IdleFilling DEF Gathering

(* When it counts the books, the report has what they show. *)
LEMMA CountGathering ==
  ASSUME TypeOK, Gathering, NEW g \in Gatherers, Count(g)
  PROVE  Gathering'
<1>1. /\ step'[g] = 2 /\ \A h \in Gatherers \ {g} : step'[h] = 0
      /\ draft'[g] = Survey
      /\ UNCHANGED <<books, atomic, report>>
  BY CountStep
<1>2. Past' /\ Fits'
  BY <1>1 DEF Gathering, Past, Fits, R, A, Gaps, Applied, books
<1>3. Surveyed(g)'
  <2>1. UNCHANGED <<Live, Gaps, Applied>>
    BY <1>1 DEF books, Live, Gaps, Applied
  <2>2. /\ D(g, "live")' = Live /\ D(g, "gaps")' = Gaps
        /\ D(g, "snapshots_per_book")' = Applied
    BY <1>1, SurveyType DEF D, Gaps, Applied
  <2> QED
    BY <2>1, <2>2 DEF Surveyed
<1>4. InOrder(g)' /\ Between(g)'
  BY <1>1 DEF InOrder, Between
<1> QED
  BY <1>1, <1>2, <1>3, <1>4, IdleFilling DEF Gathering, Filling

(* No two loads fill in the same field. *)
LEMMA LoadsDiffer ==
  ASSUME NEW i \in 1..5, NEW j \in 1..5, i # j
  PROVE  Loads[i] # Loads[j]
<1>1. i \in {1, 2, 3, 4, 5} /\ j \in {1, 2, 3, 4, 5}
  OBVIOUS
<1> QED
  BY <1>1, Fields

(* When it loads a counter, that fits what it has. *)
LEMMA LoadGathering ==
  ASSUME TypeOK, Promises, Gathering, NEW g \in Gatherers, NEW i \in 1..5, LoadsOne(g, i)
  PROVE  Gathering'
<1>1. /\ step[g] = i + 1 /\ step'[g] = i + 2 /\ \A h \in Gatherers \ {g} : step'[h] = 0
      /\ draft'[g][Loads[i]] = atomic[Loads[i]]
      /\ \A f \in Field \ {Loads[i]} : draft'[g][f] = draft[g][f]
      /\ UNCHANGED <<books, atomic, report>>
  BY DEF LoadsOne
<1>2. /\ D(g, Loads[i])' = A(Loads[i])
      /\ \A f \in Field \ {Loads[i]} : D(g, f)' = D(g, f)
  BY <1>1 DEF D, A
<1>3. /\ \A f : A(f)' = A(f)
      /\ \A f : R(f)' = R(f)
  BY <1>1 DEF A, R
<1>4. UNCHANGED <<Live, Gaps, Applied, Shed>>
  BY <1>1 DEF books, Live, Gaps, Applied, Shed
<1>5. Past' /\ Fits'
  BY <1>3, <1>4 DEF Gathering, Past, Fits
<1>6. /\ Surveyed(g) /\ InOrder(g) /\ Between(g)
      /\ Loads[i] \in Atomic /\ Atomic \subseteq Field
  BY Figures, FieldNames DEF Gathering, Filling
<1>7. Surveyed(g)'
  <2>1. /\ D(g, "live") = Live /\ D(g, "gaps") = Gaps
        /\ D(g, "snapshots_per_book") = Applied
    BY <1>1, <1>6 DEF Surveyed
  <2>2. \A f \in {"live", "gaps", "snapshots_per_book"} : f \in Field \ {Loads[i]}
    BY <1>6, FieldNames
  <2>3. /\ D(g, "live")' = Live /\ D(g, "gaps")' = Gaps
        /\ D(g, "snapshots_per_book")' = Applied
    BY <1>2, <2>1, <2>2
  <2> QED
    BY <1>4, <2>3 DEF Surveyed
<1>8. InOrder(g)'
  <2>1. Produced = A("book_published") /\ Requested = A("snapshots") /\ Shed = A("book_dropped")
    BY DEF Produced, Requested, Shed, A
  <2>2. Shed <= Produced /\ Applied <= Requested
    BY Numbers DEF Promises
  <2>3. {"book_published", "snapshots", "book_dropped"} \subseteq Field
    BY <1>6, Fields
  <2>4. i \in {1, 2, 3, 4, 5}
    OBVIOUS
  <2>5. CASE i = 1
    <3>1. step'[g] = 3
      BY <1>1, <2>5
    <3> QED
      BY <3>1 DEF InOrder
  <2>6. CASE i = 2
    <3>1. step'[g] = 4 /\ Loads[i] = "book_published"
      BY <1>1, <2>6, Fields
    <3>2. D(g, "book_published")' = A("book_published")
      BY <1>2, <3>1
    <3>3. Shed' <= D(g, "book_published")'
      BY <1>4, <2>1, <2>2, <3>2
    <3> QED
      BY <3>1, <3>3 DEF InOrder
  <2>7. CASE i = 3
    <3>1. step[g] = 4 /\ step'[g] = 5 /\ Loads[i] = "snapshots"
      BY <1>1, <2>7, Fields
    <3>2. /\ D(g, "snapshots")' = A("snapshots")
          /\ D(g, "book_published")' = D(g, "book_published")
      BY <1>2, <2>3, <3>1
    <3>3. Shed <= D(g, "book_published")
      BY <1>6, <3>1 DEF InOrder
    <3>4. Shed' <= D(g, "book_published")' /\ Applied' <= D(g, "snapshots")'
      BY <1>4, <2>1, <2>2, <3>2, <3>3
    <3> QED
      BY <3>1, <3>4 DEF InOrder
  <2>8. CASE i = 4
    <3>1. step[g] = 5 /\ step'[g] = 6 /\ Loads[i] = "bbo_dropped"
      BY <1>1, <2>8, Fields
    <3>2. /\ D(g, "snapshots")' = D(g, "snapshots")
          /\ D(g, "book_published")' = D(g, "book_published")
      BY <1>2, <2>3, <3>1
    <3>3. Shed <= D(g, "book_published") /\ Applied <= D(g, "snapshots")
      BY <1>6, <3>1 DEF InOrder
    <3>4. Shed' <= D(g, "book_published")' /\ Applied' <= D(g, "snapshots")'
      BY <1>4, <3>2, <3>3
    <3> QED
      BY <3>1, <3>4 DEF InOrder
  <2>9. CASE i = 5
    <3>1. step[g] = 6 /\ step'[g] = 7 /\ Loads[i] = "book_dropped"
      BY <1>1, <2>9, Fields
    <3>2. /\ D(g, "snapshots")' = D(g, "snapshots")
          /\ D(g, "book_published")' = D(g, "book_published")
          /\ D(g, "book_dropped")' = Shed
      BY <1>2, <2>1, <2>3, <3>1
    <3>3. Shed <= D(g, "book_published") /\ Applied <= D(g, "snapshots")
      BY <1>6, <3>1 DEF InOrder
    <3>4. /\ Shed' <= D(g, "book_published")' /\ Applied' <= D(g, "snapshots")'
          /\ D(g, "book_dropped")' <= D(g, "book_published")'
      BY <1>4, <3>2, <3>3
    <3> QED
      BY <3>1, <3>4 DEF InOrder
  <2> QED
    BY <2>4, <2>5, <2>6, <2>7, <2>8, <2>9
<1>9. Between(g)'
  <2> SUFFICES ASSUME NEW j \in 1..5, step'[g] >= j + 2
               PROVE  R(Loads[j])' <= D(g, Loads[j])' /\ D(g, Loads[j])' <= A(Loads[j])'
    BY DEF Between
  <2>1. CASE j = i
    <3>1. R(Loads[i]) <= A(Loads[i]) /\ A(Loads[i]) \in Nat
      BY <1>6, Figures DEF Gathering, Past
    <3> QED
      BY <1>2, <1>3, <2>1, <3>1
  <2>2. CASE j # i
    <3>1. j < i
      BY <1>1, <2>2
    <3>2. step[g] >= j + 2
      BY <1>1, <3>1
    <3>3. R(Loads[j]) <= D(g, Loads[j]) /\ D(g, Loads[j]) <= A(Loads[j])
      BY <1>6, <3>2 DEF Between
    <3>4. D(g, Loads[j])' = D(g, Loads[j])
      BY <1>2, <2>2, Figures, LoadsDiffer
    <3> QED
      BY <1>3, <3>3, <3>4
  <2> QED
    BY <2>1, <2>2
<1> QED
  BY <1>1, <1>5, <1>7, <1>8, <1>9, IdleFilling DEF Gathering, Filling

(* A finished report is between the one before it and the present. *)
LEMMA FinishedReport ==
  ASSUME TypeOK, Gathering, NEW g \in Gatherers, Finish(g)
  PROVE  /\ report' = draft[g] /\ UNCHANGED <<books, atomic>>
         /\ Surveyed(g) /\ InOrder(g) /\ step[g] = 7
         /\ \A f \in Atomic : R(f) <= D(g, f) /\ D(g, f) <= A(f)
<1>1. /\ step[g] = 7 /\ report' = draft[g] /\ UNCHANGED <<books, atomic>>
  BY FinishStep
<1>2. Surveyed(g) /\ InOrder(g) /\ Between(g)
  BY DEF Gathering, Filling
<1>3. \A i \in 1..5 : R(Loads[i]) <= D(g, Loads[i]) /\ D(g, Loads[i]) <= A(Loads[i])
  <2> SUFFICES ASSUME NEW i \in 1..5
               PROVE  R(Loads[i]) <= D(g, Loads[i]) /\ D(g, Loads[i]) <= A(Loads[i])
    OBVIOUS
  <2>1. step[g] >= i + 2
    BY <1>1
  <2> QED
    BY <1>2, <2>1 DEF Between
<1>4. Atomic = {Loads[i] : i \in 1..5}
  BY Fields DEF Atomic
<1>5. \A f \in Atomic : R(f) <= D(g, f) /\ D(g, f) <= A(f)
  BY <1>3, <1>4
<1> QED
  BY <1>1, <1>2, <1>5

(* It is the latest then. *)
LEMMA FinishGathering ==
  ASSUME TypeOK, Gathering, NEW g \in Gatherers, Finish(g)
  PROVE  Gathering'
<1>1. /\ report' = draft[g] /\ UNCHANGED <<books, atomic>>
      /\ Surveyed(g) /\ InOrder(g) /\ step[g] = 7
      /\ \A f \in Atomic : R(f) <= D(g, f) /\ D(g, f) <= A(f)
  BY FinishedReport
<1>2. /\ \A f : R(f)' = D(g, f)
      /\ \A f : A(f)' = A(f)
  BY <1>1 DEF R, D, A
<1>3. UNCHANGED <<Gaps, Applied>>
  BY <1>1 DEF books, Gaps, Applied
<1>4. /\ D(g, "gaps") = Gaps /\ D(g, "snapshots_per_book") = Applied
      /\ Applied <= D(g, "snapshots") /\ D(g, "book_dropped") <= D(g, "book_published")
  BY <1>1 DEF Surveyed, InOrder
<1>5. Past'
  BY <1>1, <1>2, <1>3, <1>4, Numbers DEF Past
<1>6. Fits'
  BY <1>2, <1>4 DEF Fits
<1>7. \A h \in Gatherers : step'[h] = 0
  BY FinishStep
<1> QED
  BY <1>5, <1>6, <1>7, IdleFilling DEF Gathering

-----------------------------------------------------------------------------
(* The invariant that the theorems need. *)

Inv == TypeOK /\ Promises /\ Gathering

(* Initially nothing is counted. *)
LEMMA InitInv == Init => Inv
<1> SUFFICES ASSUME Init
             PROVE  Inv
  OBVIOUS
<1>1. TypeOK
  BY InitTypes
<1>2. Produced = 0 /\ Shed = 0 /\ Requested = 0 /\ \A f \in Atomic : A(f) = 0
  BY Fields DEF Init, Produced, Shed, Requested, A
<1>3. Unput = {} /\ Answered = {}
  BY DEF Init, Unput, Answered
<1>4. ToPut = 0 /\ ToApply = 0
  BY <1>3, FS_EmptySet DEF ToPut, ToApply
<1>5. AllMarks([y \in Symbols |-> 0]) = {}
  <2> SUFFICES ASSUME NEW p \in AllMarks([y \in Symbols |-> 0])
               PROVE  FALSE
    OBVIOUS
  <2>1. \E y \in Symbols : \E i \in 1..0 : p = <<y, i>>
    BY MarkOf
  <2> QED
    BY <2>1
<1>6. Total([y \in Symbols |-> 0]) = 0
  BY <1>5, MarksFinite, FS_EmptySet
<1>7. Applied = 0 /\ Gaps = 0
  BY <1>6 DEF Init, Applied, Gaps
<1>8. Promises
  BY <1>2, <1>4, <1>7 DEF Promises
<1>9. \A f \in Field : R(f) = 0
  BY DEF Init, NoReport, R, Field
<1>10. Past
  BY <1>2, <1>7, <1>9, FieldNames DEF Past
<1>11. Fits
  <2>1. {"snapshots_per_book", "snapshots", "book_dropped", "book_published"} \subseteq Field
    BY FieldNames, Fields
  <2> QED
    BY <1>9, <2>1 DEF Fits
<1>12. \A g \in Gatherers : Filling(g)
  BY DEF Init, Filling, Surveyed, InOrder, Between
<1> QED
  BY <1>1, <1>8, <1>10, <1>11, <1>12 DEF Inv, Gathering

(* Every step keeps it. *)
LEMMA NextInv == Inv /\ [Next]_vars => Inv'
<1> SUFFICES ASSUME TypeOK, Promises, Gathering, [Next]_vars
             PROVE  Inv'
  BY DEF Inv
<1>1. TypeOK' /\ Promises'
  BY NextKeepsTypes, NextPromises
<1>2. CASE OtherNext
  BY <1>1, <1>2, OtherGathering DEF Inv
<1>3. ASSUME NEW g \in Gatherers, Lock(g) \/ Count(g) \/ Load(g) \/ Finish(g)
      PROVE  Inv'
  <2>1. CASE Lock(g)
    BY <1>1, <2>1, LockGathering DEF Inv
  <2>2. CASE Count(g)
    BY <1>1, <2>2, CountGathering DEF Inv
  <2>3. CASE Load(g)
    <3>1. PICK i \in 1..5 : LoadsOne(g, i)
      BY <2>3, LoadStep
    <3> QED
      BY <1>1, <3>1, LoadGathering DEF Inv
  <2>4. CASE Finish(g)
    BY <1>1, <2>4, FinishGathering DEF Inv
  <2> QED
    BY <1>3, <2>1, <2>2, <2>3, <2>4
<1> QED
  BY <1>2, <1>3, NextSteps

(* Every snapshot that a report says was applied, it also says was         *)
(* requested (Telemetry::gather sums the books before it loads snapshots,  *)
(* sync_book counts the answer before the book takes it).                  *)
THEOREM AppliedAreRequested == Spec => []AppliedWereRequested
<1>1. Inv => AppliedWereRequested
  BY DEF Inv, Gathering, Fits, R, AppliedWereRequested
<1> QED
  BY <1>1, InitInv, NextInv, PTL DEF Spec

(* No report sheds a book event that it does not count as produced         *)
(* (on_depth counts it before it puts it, under the lock on the books).    *)
THEOREM BookDropsAreProduced == Spec => []BookDropsWereProduced
<1>1. Inv => BookDropsWereProduced
  BY DEF Inv, Gathering, Fits, R, BookDropsWereProduced
<1> QED
  BY <1>1, InitInv, NextInv, PTL DEF Spec

(* Only a gatherer that finishes changes the report. *)
LEMMA ReportChanges ==
  ASSUME Inv, [Next]_vars
  PROVE  UNCHANGED report \/ \E g \in Gatherers : Finish(g)
<1>1. CASE OtherNext
  BY <1>1, OtherSteps DEF Inv
<1>2. ASSUME NEW g \in Gatherers, Lock(g) \/ Count(g) \/ Load(g)
      PROVE  UNCHANGED report
  BY <1>2 DEF Lock, Count, Load
<1> QED
  BY <1>1, <1>2, NextSteps

(* What /metrics declares a counter never goes back from one report to the *)
(* next, whichever endpoint asked, through resets and resyncs.             *)
THEOREM CountersNeverGoBack == Spec => CountersGrow
<1>1. Inv /\ [Next]_vars => [\A f \in Counter : report'[f] >= report[f]]_vars
  <2> SUFFICES ASSUME Inv, [Next]_vars, NEW f \in Counter
               PROVE  report'[f] >= report[f]
    OBVIOUS
  <2>1. f \in Field /\ R(f) \in Nat
    BY Figures, FieldNames DEF Inv
  <2>2. CASE UNCHANGED report
    BY <2>1, <2>2 DEF R
  <2>3. ASSUME NEW g \in Gatherers, Finish(g)
        PROVE  report'[f] >= report[f]
    <3>1. /\ report' = draft[g] /\ Surveyed(g) /\ step[g] = 7
          /\ \A h \in Atomic : R(h) <= D(g, h)
      BY <2>3, FinishedReport DEF Inv
    <3>2. R(f) <= D(g, f)
      <4>1. D(g, "gaps") = Gaps /\ D(g, "snapshots_per_book") = Applied
        BY <3>1 DEF Surveyed
      <4>2. R("gaps") <= Gaps /\ R("snapshots_per_book") <= Applied
        BY DEF Inv, Gathering, Past
      <4> QED
        BY <3>1, <4>1, <4>2 DEF Counter
    <3>3. D(g, f) \in Nat
      BY <2>1, Figures DEF Inv
    <3> QED
      BY <2>1, <3>1, <3>2, <3>3 DEF R, D
  <2> QED
    BY <2>2, <2>3, ReportChanges
<1> QED
  BY <1>1, InitInv, NextInv, PTL DEF Spec, CountersGrow

(* A report of the books is true when it is given, and /health answers 200 *)
(* only if most books really are live then: gather holds the lock on them  *)
(* until it returns.                                                       *)
THEOREM ReportsAreCurrent == Spec => ReportIsCurrent
<1>1. Inv /\ [Next]_vars =>
        [report' # report =>
           /\ report'.live = Live
           /\ report'.gaps = Total(gap_count)
           /\ Healthy(report') => 2 * Live > Cardinality(Symbols)]_vars
  <2> SUFFICES ASSUME Inv, [Next]_vars, report' # report
               PROVE  /\ report'.live = Live
                      /\ report'.gaps = Total(gap_count)
                      /\ Healthy(report') => 2 * Live > Cardinality(Symbols)
    OBVIOUS
  <2>1. PICK g \in Gatherers : Finish(g)
    BY ReportChanges
  <2>2. report' = draft[g] /\ Surveyed(g) /\ step[g] = 7
    BY <2>1, FinishedReport DEF Inv
  <2>3. report'.live = Live /\ report'.gaps = Total(gap_count)
    BY <2>2 DEF Surveyed, D, Gaps
  <2>4. ASSUME Healthy(report')
        PROVE  2 * Live > Cardinality(Symbols)
    <3>1. Live > Cardinality(Symbols) \div 2
      BY <2>3, <2>4 DEF Healthy
    <3>2. Live \in Nat /\ Cardinality(Symbols) \in Nat
      BY Constants, Numbers, FS_CardinalityType DEF Inv
    <3>3. ASSUME NEW l \in Nat, NEW n \in Nat, l > n \div 2
          PROVE  2 * l > n
      BY <3>3
    <3> QED
      BY <3>1, <3>2, <3>3
  <2> QED
    BY <2>3, <2>4
<1> QED
  BY <1>1, InitInv, NextInv, PTL DEF Spec, ReportIsCurrent
==============================================================================
