------------------------------ MODULE Universe ------------------------------
(***************************************************************************)
(* What the program tracks, and in which order and on which connections    *)
(* (resolve_universe and run in rust/src/feed_handler.rs).  At each start  *)
(* it asks the venue for the symbols that trade, and then for their        *)
(* volumes; either request may fail, which ends the process, and the venue *)
(* may have changed by the next start.                                     *)
(*                                                                         *)
(* A name is its place in the alphabet of all names.                       *)
(***************************************************************************)
EXTENDS Integers, FiniteSets, SequencesExt

CONSTANTS Names,            \* the symbols the venue may list, a set of naturals
          Tickers,          \* answers of ticker/24hr: functions from names to volumes
          Explicits,        \* values of --symbols
          Caps,             \* values of --max-symbols
          NoCap,            \* --max-symbols was not given
          PerShard,         \* MAX_SYMBOLS_PER_SHARD
          MaxStarts         \* bound on starts of the process

(* Volumes are numbers: a ticker's text that is none counts as 0, but the  *)
(* text NaN would parse, and compares equal to everything.                 *)
ASSUME UniverseAssumption ==
  /\ Names \subseteq Nat /\ IsFiniteSet(Names)
  /\ \A v \in Tickers : DOMAIN v \subseteq Names /\ \A s \in DOMAIN v : v[s] \in Nat
  /\ \A e \in Explicits : e \in Seq(Names)
  /\ Caps \subseteq Nat \cup {NoCap} /\ NoCap \notin Nat
  /\ PerShard \in Nat \ {0} /\ MaxStarts \in Nat

VARIABLES
  phase,                    \* how far this process has come
  explicit, max_symbols,    \* its arguments
  listed,                   \* the perpetuals that trade, by exchangeInfo
  volumes,                  \* what ticker/24hr answered
  symbols, snapshot_rank,   \* Universe
  shards,                   \* the symbols of each run_shard
  starts,                   \* counted against its bound
  earlier                   \* history: the symbols and shards of the start before

universe == <<symbols, snapshot_rank, shards>>
vars == <<phase, explicit, max_symbols, listed, volumes, universe, starts, earlier>>

Nothing == [symbols |-> <<>>, shards |-> <<>>]

Init ==
  /\ phase = "down" /\ starts = 0
  /\ explicit = <<>> /\ max_symbols = NoCap
  /\ listed = {} /\ volumes = <<>>
  /\ symbols = <<>> /\ snapshot_rank = <<>> /\ shards = <<>>
  /\ earlier = Nothing

-----------------------------------------------------------------------------
(* A sort by a total order puts each element behind those before it. *)
Sorted(S) ==
  [i \in 1..Cardinality(S) |->
     CHOOSE s \in S : Cardinality({r \in S : r < s}) = i - 1]

(* A symbol without a ticker has no volume. *)
Volume(v, s) == IF s \in DOMAIN v THEN v[s] ELSE 0

(* Mutant of MoreLiquid: the comparison is the wrong way round. *)
MoreLiquidReversed(v, a, b) ==
  \/ Volume(v, a) < Volume(v, b)
  \/ Volume(v, a) = Volume(v, b) /\ a < b

MoreLiquid(v, a, b) ==
  \/ Volume(v, a) > Volume(v, b)
  \/ Volume(v, a) = Volume(v, b) /\ a < b

(* rank_by_volume: how many come before in the sort. *)
RankByVolume(S, v) == [s \in S |-> Cardinality({r \in S : MoreLiquid(v, r, s)})]

(* Mutants of PickTopByVolume: the first n by name, which the comment of   *)
(* pick_top_by_volume remembers; and no return to the order of names.      *)
PickTopByName(S, v, n) == SubSeq(Sorted(S), 1, n)

PickTopByVolumeUnsorted(S, v, n) ==
  SubSeq(SetToSortSeq(S, LAMBDA a, b : MoreLiquid(v, a, b)), 1, n)

(* pick_top_by_volume *)
PickTopByVolume(S, v, n) == Sorted({s \in S : RankByVolume(S, v)[s] < n})

(* Mutant of Chunks: the last, shorter chunk is forgotten. *)
ChunksWhole(seq) ==
  [i \in 1..(Len(seq) \div PerShard) |-> SubSeq(seq, (i - 1) * PerShard + 1, i * PerShard)]

Chunks(seq) ==
  [i \in 1..((Len(seq) + PerShard - 1) \div PerShard) |->
     SubSeq(seq, (i - 1) * PerShard + 1, Min({i * PerShard, Len(seq)}))]

-----------------------------------------------------------------------------
Start ==
  /\ phase = "down" /\ starts < MaxStarts
  /\ starts' = starts + 1
  /\ phase' = "started"
  /\ explicit' \in Explicits /\ max_symbols' \in Caps
  /\ UNCHANGED <<listed, volumes, universe, earlier>>

(* exchangeInfo answers; a symbol asked for that does not trade is fatal. *)
List ==
  /\ phase = "started"
  /\ listed' \in SUBSET Names
  /\ IF explicit = <<>>
     THEN phase' = "listed" /\ symbols' = Sorted(listed')
     ELSE IF ToSet(explicit) \subseteq listed'
          THEN phase' = "listed" /\ symbols' = Sorted(ToSet(explicit))
          ELSE phase' = "failed" /\ UNCHANGED symbols
  /\ UNCHANGED <<explicit, max_symbols, volumes, snapshot_rank, shards, starts, earlier>>

(* The cap is for a universe that was not given. *)
Capped(S, v) ==
  IF explicit = <<>> /\ max_symbols # NoCap /\ max_symbols < Cardinality(S)
  THEN PickTopByVolume(S, v, max_symbols)
  ELSE Sorted(S)

(* ticker/24hr answers: cap, rank, and one shard task for each chunk. *)
Rank ==
  /\ phase = "listed"
  /\ volumes' \in Tickers
  /\ symbols' = Capped(ToSet(symbols), volumes')
  /\ snapshot_rank' = RankByVolume(ToSet(symbols'), volumes')
  /\ shards' = Chunks(symbols')
  /\ phase' = "up"
  /\ UNCHANGED <<explicit, max_symbols, listed, starts, earlier>>

(* Either request fails. *)
Fail ==
  /\ phase \in {"started", "listed"}
  /\ phase' = "failed"
  /\ UNCHANGED <<explicit, max_symbols, listed, volumes, universe, starts, earlier>>

(* The process ends, and leaves nothing behind. *)
Exit ==
  /\ phase \in {"up", "failed"}
  /\ phase' = "down"
  /\ earlier' = IF phase = "up" THEN [symbols |-> symbols, shards |-> shards] ELSE earlier
  /\ explicit' = <<>> /\ max_symbols' = NoCap
  /\ listed' = {} /\ volumes' = <<>>
  /\ symbols' = <<>> /\ snapshot_rank' = <<>> /\ shards' = <<>>
  /\ UNCHANGED starts

Next == Start \/ List \/ Rank \/ Fail \/ Exit

Spec == Init /\ [][Next]_vars

-----------------------------------------------------------------------------
Up == phase = "up"

(* What is tracked is what was asked for: exactly the named symbols,       *)
(* whatever the cap; else everything that trades; else as many as the cap  *)
(* allows, and nothing left out is more liquid than anything taken         *)
(* (resolve_universe).                                                     *)
TracksWhatWasAsked ==
  Up =>
    LET tracked == ToSet(symbols) IN
    /\ tracked \subseteq listed
    /\ explicit # <<>> => tracked = ToSet(explicit)
    /\ explicit = <<>> /\ max_symbols = NoCap => tracked = listed
    /\ explicit = <<>> /\ max_symbols # NoCap =>
         /\ Cardinality(tracked) = Min({max_symbols, Cardinality(listed)})
         /\ \A s \in tracked, r \in listed \ tracked : Volume(volumes, s) >= Volume(volumes, r)

(* Snapshot ranks number the tracked symbols from 0 without a gap or a     *)
(* tie, so that the pacer's order is total between symbols, and no symbol  *)
(* comes before a more liquid one (rank_by_volume).                        *)
RanksFollowLiquidity ==
  Up =>
    LET tracked == ToSet(symbols) IN
    /\ snapshot_rank \in [tracked -> 0..Cardinality(tracked) - 1]
    /\ \A a, b \in tracked :
         /\ snapshot_rank[a] = snapshot_rank[b] => a = b
         /\ Volume(volumes, a) > Volume(volumes, b) => snapshot_rank[a] < snapshot_rank[b]

(* Every tracked symbol is on exactly one connection, and no connection    *)
(* has none, or more than the venue may be asked for (run).                *)
ShardsPartition ==
  Up =>
    /\ \A s \in ToSet(symbols) :
         Cardinality({at \in (DOMAIN shards) \X (1..PerShard) :
                        at[2] \in DOMAIN shards[at[1]] /\ shards[at[1]][at[2]] = s}) = 1
    /\ \A k \in DOMAIN shards :
         Len(shards[k]) \in 1..PerShard /\ ToSet(shards[k]) \subseteq ToSet(symbols)

(* "Alphabetical, so shard assignment is deterministic across restarts":   *)
(* a restart that tracks the same symbols puts each on the connection it   *)
(* had, though volumes have changed and arguments came in another order    *)
(* (struct Universe).                                                      *)
StableAcrossRestarts ==
  Up /\ ToSet(symbols) = ToSet(earlier.symbols) => shards = earlier.shards
=============================================================================
