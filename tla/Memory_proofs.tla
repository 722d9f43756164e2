---------------------------- MODULE Memory_proofs ----------------------------
(***************************************************************************)
(* The conversation store, for any chats, contents, limit and bounds: its  *)
(* rows keep their type, and what history reads is what RecentLog says.    *)
(***************************************************************************)
EXTENDS Memory, TurnTable_proofs

USE MemoryAssumption

(* Row i of a table as an entry of a log.                                  *)
TurnAt(table, i) == [role |-> table[i].role, content |-> table[i].content]
Cell(table, i) == [turn |-> TurnAt(table, i), ts |-> table[i].ts]

(* How old row i is among the rows S: the number of older ones.            *)
Rank(table, S, i) == Cardinality(Older(table, S, i))

(* The log of a chat in a table, as InOrder reads it from rows.            *)
Logged(table, c) ==
  [k \in 1 .. Cardinality(RowsOf(table, c)) |-> Cell(table, NthOldest(table, RowsOf(table, c), k))]
-----------------------------------------------------------------------------
(* Ranks                                                                   *)

(* A rank belongs to one row: the k-th oldest row is found by its rank.    *)
LEMMA NthIsRanked ==
  ASSUME NEW table, IsTable(table), NEW S \in SUBSET DOMAIN table,
         NEW k \in 1 .. Cardinality(S)
  PROVE  NthOldest(table, S, k) \in S /\ Rank(table, S, NthOldest(table, S, k)) = k - 1
  <1>1. \E i \in S : Cardinality(Older(table, S, i)) = k - 1
    BY RankOnto
  <1>2. QED
    BY <1>1 DEF NthOldest, Older, Rank

LEMMA RankType ==
  ASSUME NEW table, IsTable(table), NEW S \in SUBSET DOMAIN table, NEW i \in S
  PROVE  Rank(table, S, i) \in 0 .. Cardinality(S) - 1 /\ Cardinality(S) \in Nat
  <1>1. Older(table, S, i) \in SUBSET (S \ {i})
    BY NewerIsTotal DEF Older
  <1>2. IsFiniteSet(S) /\ Cardinality(S) \in Nat
    BY PickedFinite
  <1>3. IsFiniteSet(S \ {i}) /\ Cardinality(S \ {i}) = Cardinality(S) - 1
    BY <1>2, FS_RemoveElement
  <1>4. Cardinality(Older(table, S, i)) \in Nat
        /\ Cardinality(Older(table, S, i)) <= Cardinality(S) - 1
    BY <1>1, <1>3, FS_Subset, FS_CardinalityType
  <1>5. QED
    BY <1>2, <1>4 DEF Rank

LEMMA RankIsUnique ==
  ASSUME NEW table, IsTable(table), NEW S \in SUBSET DOMAIN table,
         NEW i \in S, NEW j \in S, Rank(table, S, i) = Rank(table, S, j)
  PROVE  i = j
  <1>1. Rank(table, S, i) \in Nat
    BY RankType
  <1>2. CASE Newer(table, i, j)
    BY <1>1, <1>2, RankGrows DEF Rank
  <1>3. CASE Newer(table, j, i)
    BY <1>1, <1>3, RankGrows DEF Rank
  <1>4. QED
    BY <1>2, <1>3, NewerIsTotal

LEMMA RankedIsNth ==
  ASSUME NEW table, IsTable(table), NEW S \in SUBSET DOMAIN table, NEW i \in S
  PROVE  /\ Rank(table, S, i) + 1 \in 1 .. Cardinality(S)
         /\ NthOldest(table, S, Rank(table, S, i) + 1) = i
  <1> DEFINE k == Rank(table, S, i) + 1
  <1>1. k \in 1 .. Cardinality(S) /\ k - 1 = Rank(table, S, i)
    BY RankType
  <1>2. NthOldest(table, S, k) \in S /\ Rank(table, S, NthOldest(table, S, k)) = k - 1
    BY <1>1, NthIsRanked
  <1>3. QED
    BY <1>1, <1>2, RankIsUnique

(* A row is newer than those of a lower rank.                              *)
LEMMA LowerRankIsOlder ==
  ASSUME NEW table, IsTable(table), NEW S \in SUBSET DOMAIN table, NEW i \in S
  PROVE  Older(table, S, i) = {j \in S : Rank(table, S, j) < Rank(table, S, i)}
  <1> SUFFICES ASSUME NEW j \in S
               PROVE  Newer(table, i, j) <=> Rank(table, S, j) < Rank(table, S, i)
    BY DEF Older
  <1>1. Rank(table, S, i) \in Nat /\ Rank(table, S, j) \in Nat
    BY RankType
  <1>2. CASE i = j
    BY <1>1, <1>2, NewerIsTotal
  <1>3. CASE Newer(table, i, j)
    BY <1>3, RankGrows DEF Rank
  <1>4. CASE i # j /\ Newer(table, j, i)
    <2>1. Rank(table, S, i) < Rank(table, S, j)
      BY <1>4, RankGrows DEF Rank
    <2>2. ~Newer(table, i, j)
      BY <1>4, NewerIsTotal
    <2>3. QED
      BY <1>1, <2>1, <2>2
  <1>5. QED
    BY <1>2, <1>3, <1>4, NewerIsTotal

(* Two sets without a common element are counted one after the other.      *)
LEMMA SplitCount ==
  ASSUME NEW S, NEW T, IsFiniteSet(S), IsFiniteSet(T), S \intersect T = {}
  PROVE  /\ Cardinality(S \union T) = Cardinality(S) + Cardinality(T)
         /\ IsFiniteSet(S \union T)
         /\ Cardinality(S) \in Nat /\ Cardinality(T) \in Nat
  <1>1. Cardinality(S \intersect T) = 0
    BY FS_EmptySet
  <1>2. Cardinality(S) \in Nat /\ Cardinality(T) \in Nat
    BY FS_CardinalityType
  <1>3. /\ IsFiniteSet(S \union T)
        /\ Cardinality(S \union T)
             = Cardinality(S) + Cardinality(T) - Cardinality(S \intersect T)
    BY FS_Union
  <1>4. QED
    BY <1>1, <1>2, <1>3
-----------------------------------------------------------------------------
(* Reading: the window is the end of the log                               *)

(* What LIMIT leaves out are the oldest rows of the chat.                  *)
LEMMA LimitKeepsNewest ==
  ASSUME NEW table, IsTable(table), NEW c, NEW limit \in Nat \ {0},
         NEW i \in RowsOf(table, c)
  PROVE  LET mine == RowsOf(table, c)
         IN  i \in Picked(table, c, limit) <=> Rank(table, mine, i) + limit >= Cardinality(mine)
  <1> DEFINE mine == RowsOf(table, c)
             older == Older(table, mine, i)
             newer == {j \in mine : Newer(table, j, i)}
  <1>1. mine \in SUBSET DOMAIN table /\ i \in mine
    BY DEF RowsOf
  <1>2. mine \ {i} = older \union newer /\ older \intersect newer = {} /\ i \notin older \union newer
    BY <1>1, NewerIsTotal DEF Older
  <1>3. /\ IsFiniteSet(mine) /\ Cardinality(mine) \in Nat
        /\ IsFiniteSet(older) /\ IsFiniteSet(newer)
        /\ Cardinality(older) \in Nat /\ Cardinality(newer) \in Nat
    BY <1>1, PickedFinite DEF Older
  <1>4. Cardinality(mine \ {i}) = Cardinality(mine) - 1
    BY <1>1, <1>3, FS_RemoveElement
  <1>5. Cardinality(older \union newer) = Cardinality(older) + Cardinality(newer)
    <2> HIDE DEF older, newer
    <2>1. QED
      BY <1>2, <1>3, SplitCount
  <1>6. i \in Picked(table, c, limit) <=> Cardinality(newer) < limit
    BY DEF Picked
  <1> HIDE DEF older, newer, mine
  <1>7. Cardinality(older) + Cardinality(newer) = Cardinality(mine) - 1
    BY <1>2, <1>4, <1>5
  <1>8. i \in Picked(table, c, limit) <=> Cardinality(older) + limit >= Cardinality(mine)
    BY <1>3, <1>6, <1>7
  <1>9. QED
    BY <1>8 DEF Rank, older, mine

(* How many turns of the log LIMIT leaves out.                             *)
Skipped(n, limit) == IF n > limit THEN n - limit ELSE 0

(* The k-th turn of the window is the turn of the log behind the skipped   *)
(* ones.                                                                   *)
LEMMA PickedFromLog ==
  ASSUME NEW table, IsTable(table), NEW c, NEW limit \in Nat \ {0}
  PROVE  LET mine == RowsOf(table, c)
             picked == Picked(table, c, limit)
             off == Skipped(Cardinality(mine), limit)
         IN  /\ Cardinality(mine) \in Nat
             /\ Cardinality(picked) = Cardinality(mine) - off
             /\ \A k \in 1 .. Cardinality(picked) :
                  NthOldest(table, picked, k) = NthOldest(table, mine, k + off)
  <1> DEFINE mine == RowsOf(table, c)
             n == Cardinality(mine)
             picked == Picked(table, c, limit)
             off == Skipped(n, limit)
             cut == {i \in mine : Rank(table, mine, i) < off}
  <1>1. mine \in SUBSET DOMAIN table /\ picked \in SUBSET mine
    BY DEF RowsOf, Picked
  <1>2. IsFiniteSet(mine) /\ n \in Nat /\ IsFiniteSet(picked) /\ IsFiniteSet(cut)
    BY <1>1, PickedFinite, FS_Subset
  <1>3. off \in Nat /\ off <= n /\ (off > 0 => off < n)
    BY <1>2 DEF Skipped
  <1>4. ASSUME NEW k \in 1 .. n
        PROVE  NthOldest(table, mine, k) \in mine /\ Rank(table, mine, NthOldest(table, mine, k)) = k - 1
    BY <1>1, NthIsRanked
  <1>5. cut = mine \ picked
    <2> SUFFICES ASSUME NEW i \in mine
                 PROVE  i \in picked <=> ~(Rank(table, mine, i) < off)
      BY <1>1
    <2>1. i \in picked <=> Rank(table, mine, i) + limit >= n
      BY LimitKeepsNewest
    <2>2. Rank(table, mine, i) \in Nat
      BY <1>1, RankType
    <2> HIDE DEF mine, picked
    <2>3. QED
      BY <1>2, <2>1, <2>2 DEF Skipped
  <1>6. Cardinality(cut) = off
    <2>1. CASE off = 0
      <3>1. cut = {}
        BY <1>1, <2>1, RankType
      <3>2. QED
        BY <2>1, <3>1, FS_EmptySet
    <2>2. CASE off > 0
      <3> DEFINE i == NthOldest(table, mine, off + 1)
      <3>1. off + 1 \in 1 .. n /\ off + 1 - 1 = off
        BY <1>2, <1>3, <2>2
      <3>2. i \in mine /\ Rank(table, mine, i) = off
        <4> HIDE DEF off, mine
        <4>1. Rank(table, mine, i) = off + 1 - 1 /\ i \in mine
          BY <1>4, <1>3, <3>1
        <4>2. QED
          BY <3>1, <4>1
      <3>3. Older(table, mine, i) = cut
        BY <1>1, <3>2, LowerRankIsOlder
      <3>4. QED
        BY <3>2, <3>3 DEF Rank
    <2>3. QED
      BY <1>3, <2>1, <2>2
  <1>7. Cardinality(picked) = n - off /\ Cardinality(picked) \in Nat
    <2>1. picked \intersect cut = {} /\ picked \union cut = mine
      BY <1>1, <1>5
    <2> HIDE DEF picked, cut, mine, off
    <2>2. n = Cardinality(picked) + Cardinality(cut) /\ Cardinality(picked) \in Nat
      BY <1>2, <2>1, SplitCount
    <2>3. QED
      BY <1>3, <1>6, <2>2
  <1>8. ASSUME NEW k \in 1 .. Cardinality(picked)
        PROVE  NthOldest(table, picked, k) = NthOldest(table, mine, k + off)
    <2> DEFINE i == NthOldest(table, mine, k + off)
    <2>1. k + off \in 1 .. n /\ k \in Nat
      <3> HIDE DEF off, mine, picked
      <3>1. QED
        BY <1>2, <1>3, <1>7
    <2>2. i \in mine /\ Rank(table, mine, i) = k + off - 1
      <3> HIDE DEF off, mine
      <3>1. QED
        BY <1>4, <1>3, <2>1
    <2>3. i \in picked
      <3>1. i \notin cut
        BY <1>3, <2>1, <2>2
      <3>2. QED
        BY <1>5, <2>2, <3>1
    <2>4. cut \subseteq Older(table, mine, i)
      BY <1>1, <1>3, <2>1, <2>2, LowerRankIsOlder, RankType
    <2>5. /\ Older(table, mine, i) = Older(table, picked, i) \union cut
          /\ Older(table, picked, i) \intersect cut = {}
      BY <1>1, <1>5, <2>4 DEF Older
    <2>6. IsFiniteSet(Older(table, picked, i))
      BY <1>1, <1>2, FS_Subset DEF Older
    <2>7. Rank(table, picked, i) = k - 1
      <3>1. Cardinality(Older(table, mine, i)) = k + off - 1
        BY <2>2 DEF Rank
      <3> HIDE DEF i, cut, mine, picked, off
      <3>2. /\ Cardinality(Older(table, mine, i)) = Cardinality(Older(table, picked, i)) + off
            /\ Cardinality(Older(table, picked, i)) \in Nat
        BY <1>2, <1>6, <2>5, <2>6, SplitCount
      <3>3. QED
        BY <1>3, <2>1, <3>1, <3>2 DEF Rank
    <2>8. picked \in SUBSET DOMAIN table
      BY <1>1
    <2>9. NthOldest(table, picked, Rank(table, picked, i) + 1) = i
      <3> HIDE DEF i, picked
      <3>1. QED
        BY <2>3, <2>8, RankedIsNth
    <2>10. QED
      BY <2>1, <2>7, <2>9
  <1>9. QED
    BY <1>2, <1>7, <1>8

(* The log of a chat has an entry for each of its rows.                    *)
LEMMA LogEntries ==
  ASSUME NEW table, IsTable(table), NEW c
  PROVE  LET mine == RowsOf(table, c)
             n == Cardinality(mine)
         IN  /\ n \in Nat /\ Len(Logged(table, c)) = n /\ DOMAIN Logged(table, c) = 1 .. n
             /\ Logged(table, c) \in Seq({Cell(table, i) : i \in mine})
             /\ \A k \in 1 .. n : /\ NthOldest(table, mine, k) \in mine
                                  /\ Rank(table, mine, NthOldest(table, mine, k)) = k - 1
                                  /\ Logged(table, c)[k] = Cell(table, NthOldest(table, mine, k))
  <1> DEFINE mine == RowsOf(table, c)
             n == Cardinality(mine)
             log == Logged(table, c)
             T == {Cell(table, i) : i \in mine}
  <1>1. mine \in SUBSET DOMAIN table
    BY DEF RowsOf
  <1>2. n \in Nat
    BY <1>1, PickedFinite
  <1>3. \A k \in 1 .. n : /\ NthOldest(table, mine, k) \in mine
                          /\ Rank(table, mine, NthOldest(table, mine, k)) = k - 1
                          /\ log[k] = Cell(table, NthOldest(table, mine, k))
    BY <1>1, NthIsRanked DEF Logged
  <1>4. log \in [1 .. n -> T]
    BY <1>3 DEF Logged
  <1>5. log \in Seq(T) /\ Len(log) = n /\ DOMAIN log = 1 .. n
    <2> HIDE DEF log, n, T
    <2>1. QED
      BY <1>2, <1>4, FunctionIsSeq
  <1>6. QED
    BY <1>2, <1>3, <1>5

(* What history returns are the last turns of the log (memory.py 48-55).   *)
LEMMA HistoryIsEndOfLog ==
  ASSUME NEW table, IsTable(table), NEW c, NEW limit \in Nat \ {0}
  PROVE  History(table, c, limit) = Log!LastOf(Log!TurnsIn(Logged(table, c)), limit)
  <1> DEFINE mine == RowsOf(table, c)
             n == Cardinality(mine)
             picked == Picked(table, c, limit)
             m == Cardinality(picked)
             off == Skipped(n, limit)
             S == {TurnAt(table, i) : i \in mine}
             turns == Log!TurnsIn(Logged(table, c))
             h == History(table, c, limit)
             w == SubSeq(turns, off + 1, n)
  <1>1. /\ n \in Nat /\ m = n - off
        /\ \A k \in 1 .. m : NthOldest(table, picked, k) = NthOldest(table, mine, k + off)
    BY PickedFromLog
  <1>2. off \in Nat /\ off <= n
    <2> HIDE DEF n
    <2>1. QED
      BY <1>1 DEF Skipped
  <1>3. DOMAIN turns = 1 .. n /\ \A k \in 1 .. n : /\ turns[k] = TurnAt(table, NthOldest(table, mine, k))
                                                   /\ turns[k] \in S
    <2> DEFINE log == Logged(table, c)
    <2>1. /\ DOMAIN log = 1 .. n
          /\ \A k \in 1 .. n : /\ NthOldest(table, mine, k) \in mine
                               /\ log[k] = Cell(table, NthOldest(table, mine, k))
      BY LogEntries
    <2>2. \A i \in mine : Cell(table, i).turn = TurnAt(table, i)
      BY DEF Cell
    <2>3. DOMAIN turns = DOMAIN log /\ \A k \in DOMAIN log : turns[k] = log[k].turn
      BY DEF Log!TurnsIn
    <2> HIDE DEF turns, log, n, mine
    <2>4. QED
      BY <2>1, <2>2, <2>3
  <1>4. turns \in Seq(S) /\ Len(turns) = n
    <2>1. turns \in [1 .. n -> S]
      BY <1>3 DEF Log!TurnsIn
    <2> HIDE DEF turns, S, n
    <2>2. QED
      BY <1>1, <2>1, FunctionIsSeq
  <1>5. Log!LastOf(turns, limit) = w
    <2> HIDE DEF turns, n
    <2>1. QED
      BY <1>1, <1>4 DEF Log!LastOf, Skipped
  <1>6. w \in Seq(S) /\ Len(w) = m /\ \A k \in 1 .. m : w[k] = turns[k + off]
    <2> HIDE DEF turns, n, m, off, S
    <2>1. off + 1 \in Int /\ n \in Int /\ \A k \in off + 1 .. n : turns[k] \in S
      BY <1>1, <1>2, <1>3
    <2>2. /\ w \in Seq(S)
          /\ Len(w) = IF off + 1 <= n THEN n - (off + 1) + 1 ELSE 0
          /\ \A k \in 1 .. n - (off + 1) + 1 : w[k] = turns[off + 1 + k - 1]
      BY <2>1, SubSeqProperties
    <2>3. QED
      BY <1>1, <1>2, <2>2
  <1>7. \A k \in 1 .. m : h[k] = TurnAt(table, NthOldest(table, picked, k))
    BY DEF History, TurnAt
  <1>8. \A k \in 1 .. m : h[k] = w[k] /\ h[k] \in S
    <2> SUFFICES ASSUME NEW k \in 1 .. m PROVE h[k] = w[k] /\ h[k] \in S
      OBVIOUS
    <2>1. h[k] = TurnAt(table, NthOldest(table, mine, k + off))
      BY <1>1, <1>7
    <2>2. k + off \in 1 .. n
      <3> HIDE DEF n, m, off
      <3>1. QED
        BY <1>1, <1>2
    <2> HIDE DEF h, w, turns, n, m, off, S, mine
    <2>3. QED
      BY <1>2, <1>3, <1>6, <2>1, <2>2
  <1>9. h \in Seq(S) /\ Len(h) = m
    <2>1. h \in [1 .. m -> S]
      BY <1>8 DEF History
    <2>2. m \in Nat
      <3> HIDE DEF n, m, off
      <3>1. QED
        BY <1>1, <1>2
    <2> HIDE DEF h, m, S
    <2>3. QED
      BY <2>1, <2>2, FunctionIsSeq
  <1>10. h = w
    <2> HIDE DEF h, w, m, S
    <2>1. QED
      BY <1>6, <1>8, <1>9, SeqEqual
  <1>11. QED
    BY <1>5, <1>10
-----------------------------------------------------------------------------
(* Appending: the new row goes where the clock puts it                     *)

(* Row j is stamped no later than now.                                     *)
UpTo(table, j, now) == table[j].ts <= now

(* What the insert changes for the order of the rows.                      *)
LEMMA InsertedRow ==
  ASSUME NEW R, NEW table \in Seq(R), IsTable(table), NEW c, NEW now \in Int, NEW role, NEW x,
         NEW m, m = Len(table) + 1
  PROVE  LET new == Insert(table, c, now, role, x)
         IN  /\ IsTable(new) /\ m \in DOMAIN new /\ m \notin DOMAIN table
             /\ DOMAIN table \subseteq DOMAIN new
             /\ new[m] = Row(c, now, role, x)
             /\ RowsOf(new, c) = RowsOf(table, c) \union {m}
             /\ \A d : d # c => RowsOf(new, d) = RowsOf(table, d)
             /\ \A i \in DOMAIN table : new[i] = table[i]
             /\ \A i, j \in DOMAIN table : Newer(new, i, j) <=> Newer(table, i, j)
             /\ \A j \in DOMAIN table : /\ Newer(new, m, j) <=> UpTo(table, j, now)
                                        /\ Newer(new, j, m) <=> ~UpTo(table, j, now)
  <1> DEFINE new == Insert(table, c, now, role, x)
             n == Len(table)
             row == Row(c, now, role, x)
  <1>1. n \in Nat /\ m = n + 1 /\ DOMAIN table = 1 .. n /\ \A i \in 1 .. n : table[i].ts \in Int
    BY DEF IsTable
  <1>2. row.ts = now /\ row.chat = c
    BY DEF Row
  <1>3. /\ Len(new) = m /\ DOMAIN new = 1 .. m /\ new[m] = row
        /\ \A i \in 1 .. n : new[i] = table[i]
    <2> DEFINE T == R \union {row}
    <2> HIDE DEF row
    <2>1. table \in Seq(T) /\ row \in T
      OBVIOUS
    <2> HIDE DEF T
    <2>2. QED
      BY <1>1, <2>1 DEF Insert, row
  <1> HIDE DEF new, row, n
  <1>4. \A i \in 1 .. m : new[i].ts \in Int
    BY <1>1, <1>2, <1>3
  <1>5. IsTable(new)
    BY <1>1, <1>3, <1>4 DEF IsTable
  <1>6. RowsOf(new, c) = RowsOf(table, c) \union {m}
    BY <1>1, <1>2, <1>3 DEF RowsOf
  <1>7. \A d : d # c => RowsOf(new, d) = RowsOf(table, d)
    BY <1>1, <1>2, <1>3 DEF RowsOf
  <1>8. \A i, j \in DOMAIN table : Newer(new, i, j) <=> Newer(table, i, j)
    BY <1>1, <1>3 DEF Newer
  <1>9. \A j \in DOMAIN table : /\ Newer(new, m, j) <=> UpTo(table, j, now)
                                /\ Newer(new, j, m) <=> ~UpTo(table, j, now)
    BY <1>1, <1>2, <1>3 DEF Newer, UpTo
  <1>10. QED
    BY <1>1, <1>3, <1>5, <1>6, <1>7, <1>8, <1>9 DEF new, row, n

(* The rows stamped up to now are the oldest of their chat, and first in   *)
(* its log.                                                                *)
LEMMA EarlyComeFirst ==
  ASSUME NEW table, IsTable(table), NEW c, NEW now \in Int
  PROVE  LET mine == RowsOf(table, c)
             log == Logged(table, c)
             early == {j \in mine : UpTo(table, j, now)}
             b == Cardinality(early)
         IN  /\ b \in Nat /\ b <= Cardinality(mine)
             /\ \A i \in mine : UpTo(table, i, now) <=> Rank(table, mine, i) < b
             /\ Cardinality({k \in DOMAIN log : log[k].ts <= now}) = b
  <1> DEFINE mine == RowsOf(table, c)
             n == Cardinality(mine)
             log == Logged(table, c)
             early == {j \in mine : UpTo(table, j, now)}
             b == Cardinality(early)
  <1>1. mine \in SUBSET DOMAIN table /\ early \in SUBSET mine
    BY DEF RowsOf
  <1>2. IsFiniteSet(mine) /\ n \in Nat /\ IsFiniteSet(early) /\ b \in Nat /\ b <= n
    BY <1>1, PickedFinite
  <1>3. ASSUME NEW i \in mine
        PROVE  UpTo(table, i, now) <=> Rank(table, mine, i) < b
    <2>1. Rank(table, mine, i) \in Nat
      BY <1>1, RankType
    <2>2. CASE UpTo(table, i, now)
      <3>1. Older(table, mine, i) \in SUBSET (early \ {i}) /\ i \in early
        BY <1>1, <2>2, NewerIsTotal DEF Older, Newer, IsTable, UpTo
      <3>2. IsFiniteSet(early \ {i}) /\ Cardinality(early \ {i}) = b - 1
        BY <1>2, <3>1, FS_RemoveElement
      <3>3. Cardinality(Older(table, mine, i)) <= b - 1
        BY <3>1, <3>2, FS_Subset
      <3> HIDE DEF b, mine
      <3>4. QED
        BY <1>2, <2>1, <2>2, <3>3 DEF Rank
    <2>3. CASE ~(UpTo(table, i, now))
      <3>1. early \in SUBSET Older(table, mine, i)
        BY <1>1, <2>3 DEF Older, Newer, IsTable, UpTo
      <3>2. IsFiniteSet(Older(table, mine, i))
        BY <1>1, <1>2, FS_Subset DEF Older
      <3>3. b <= Cardinality(Older(table, mine, i))
        BY <3>1, <3>2, FS_Subset
      <3> HIDE DEF b, mine
      <3>4. QED
        BY <1>2, <2>1, <2>3, <3>3 DEF Rank
    <2>4. QED
      BY <2>2, <2>3
  <1>4. Cardinality({k \in DOMAIN log : log[k].ts <= now}) = b
    <2>1. /\ DOMAIN log = 1 .. n
          /\ \A k \in 1 .. n : /\ NthOldest(table, mine, k) \in mine
                               /\ Rank(table, mine, NthOldest(table, mine, k)) = k - 1
                               /\ log[k] = Cell(table, NthOldest(table, mine, k))
      BY LogEntries
    <2>2. \A i \in mine : Cell(table, i).ts <= now <=> UpTo(table, i, now)
      BY DEF Cell, UpTo
    <2> HIDE DEF b, mine, n, log
    <2>3. \A k \in 1 .. n : log[k].ts <= now <=> k <= b
      BY <1>2, <1>3, <2>1, <2>2
    <2>4. {k \in DOMAIN log : log[k].ts <= now} = 1 .. b
      BY <1>2, <2>1, <2>3
    <2>5. Cardinality(1 .. b) = b
      BY <1>2, FS_Interval
    <2>6. QED
      BY <2>4, <2>5
  <1>5. QED
    BY <1>2, <1>3, <1>4

(* A sequence with an entry put behind its first b.                        *)
Placed(s, e, b) == SubSeq(s, 1, b) \o <<e>> \o SubSeq(s, b + 1, Len(s))

LEMMA PlacedEntries ==
  ASSUME NEW T, NEW s \in Seq(T), NEW e \in T, NEW n \in Nat, n = Len(s), NEW b \in 0 .. n
  PROVE  /\ Placed(s, e, b) \in Seq(T) /\ Len(Placed(s, e, b)) = n + 1
         /\ \A k \in 1 .. b : Placed(s, e, b)[k] = s[k]
         /\ Placed(s, e, b)[b + 1] = e
         /\ \A k \in b + 1 .. n : Placed(s, e, b)[k + 1] = s[k]
  <1> DEFINE s1 == SubSeq(s, 1, b)
             s2 == SubSeq(s, b + 1, n)
             q == s1 \o <<e>>
             p == q \o s2
  <1>1. n \in Nat /\ b \in Nat /\ b <= n /\ \A k \in 1 .. n : s[k] \in T
    OBVIOUS
  <1>2. s1 \in Seq(T) /\ Len(s1) = b /\ \A k \in 1 .. b : s1[k] = s[k]
    <2>1. \A k \in 1 .. b : s[k] \in T
      BY <1>1
    <2>2. /\ s1 \in Seq(T) /\ Len(s1) = IF 1 <= b THEN b - 1 + 1 ELSE 0
          /\ \A k \in 1 .. b - 1 + 1 : s1[k] = s[1 + k - 1]
      BY <1>1, <2>1, SubSeqProperties, 1 \in Int, b \in Int
    <2> HIDE DEF s1
    <2>3. QED
      BY <1>1, <2>2
  <1>3. s2 \in Seq(T) /\ Len(s2) = n - b /\ \A k \in 1 .. n - b : s2[k] = s[k + b]
    <2>1. \A k \in b + 1 .. n : s[k] \in T
      BY <1>1
    <2>2. /\ s2 \in Seq(T) /\ Len(s2) = IF b + 1 <= n THEN n - (b + 1) + 1 ELSE 0
          /\ \A k \in 1 .. n - (b + 1) + 1 : s2[k] = s[b + 1 + k - 1]
      BY <1>1, <2>1, SubSeqProperties, b + 1 \in Int, n \in Int
    <2> HIDE DEF s2
    <2>3. QED
      BY <1>1, <2>2
  <1>4. <<e>> \in Seq(T) /\ Len(<<e>>) = 1 /\ <<e>>[1] = e
    OBVIOUS
  <1>5. q \in Seq(T) /\ Len(q) = b + 1 /\ \A k \in 1 .. b + 1 : q[k] = IF k <= b THEN s[k] ELSE e
    <2> HIDE DEF s1
    <2>1. /\ q \in Seq(T) /\ Len(q) = Len(s1) + 1
          /\ \A k \in 1 .. Len(s1) + 1 : q[k] = IF k <= Len(s1) THEN s1[k] ELSE <<e>>[k - Len(s1)]
      BY <1>2, <1>4, ConcatProperties
    <2> HIDE DEF q
    <2>2. QED
      BY <1>1, <1>2, <1>4, <2>1
  <1>6. /\ p \in Seq(T) /\ Len(p) = n + 1
        /\ \A k \in 1 .. n + 1 : p[k] = IF k <= b + 1 THEN q[k] ELSE s2[k - (b + 1)]
    <2> HIDE DEF q, s2
    <2>1. /\ p \in Seq(T) /\ Len(p) = Len(q) + Len(s2)
          /\ \A k \in 1 .. Len(q) + Len(s2) : p[k] = IF k <= Len(q) THEN q[k] ELSE s2[k - Len(q)]
      BY <1>3, <1>5, ConcatProperties
    <2> HIDE DEF p
    <2>2. QED
      BY <1>1, <1>3, <1>5, <2>1
  <1>7. /\ \A k \in 1 .. b : p[k] = s[k]
        /\ p[b + 1] = e
        /\ \A k \in b + 1 .. n : p[k + 1] = s[k]
    <2> HIDE DEF p, q, s2
    <2>1. (\A k \in 1 .. b : p[k] = s[k]) /\ p[b + 1] = e
      BY <1>1, <1>5, <1>6
    <2>2. ASSUME NEW k \in b + 1 .. n PROVE p[k + 1] = s[k]
      <3>1. k + 1 \in 1 .. n + 1 /\ k - b \in 1 .. n - b /\ ~(k + 1 <= b + 1)
            /\ k + 1 - (b + 1) = k - b /\ k - b + b = k
        BY <1>1
      <3>2. p[k + 1] = s2[k - b]
        BY <1>6, <3>1
      <3>3. QED
        BY <1>3, <3>1, <3>2
    <2>3. QED
      BY <2>1, <2>2
  <1>8. p = Placed(s, e, b)
    BY DEF Placed
  <1> HIDE DEF p
  <1>9. QED
    BY <1>6, <1>7, <1>8

(* How old the rows of the chat are once the new one is among them.        *)
LEMMA RanksAfterInsert ==
  ASSUME NEW R, NEW table \in Seq(R), IsTable(table), NEW c, NEW now \in Int, NEW role, NEW x,
         NEW m, m = Len(table) + 1
  PROVE  LET new == Insert(table, c, now, role, x)
             mine == RowsOf(table, c)
             all == RowsOf(new, c)
             b == Cardinality({j \in mine : UpTo(table, j, now)})
         IN  /\ all = mine \union {m} /\ Cardinality(all) = Cardinality(mine) + 1
             /\ Rank(new, all, m) = b
             /\ \A i \in mine : Rank(new, all, i) = IF Rank(table, mine, i) < b THEN Rank(table, mine, i)
                                                    ELSE Rank(table, mine, i) + 1
  <1> DEFINE new == Insert(table, c, now, role, x)
             mine == RowsOf(table, c)
             all == RowsOf(new, c)
             early == {j \in mine : UpTo(table, j, now)}
             b == Cardinality(early)
  <1>1. /\ IsTable(new) /\ m \in DOMAIN new /\ m \notin DOMAIN table /\ all = mine \union {m}
        /\ DOMAIN table \subseteq DOMAIN new
    BY InsertedRow
  <1>2. mine \in SUBSET DOMAIN table
    BY DEF RowsOf
  <1>3. ASSUME NEW i \in mine, NEW j \in mine
        PROVE  Newer(new, i, j) <=> Newer(table, i, j)
    BY <1>2, InsertedRow
  <1>4. ASSUME NEW j \in mine
         PROVE  /\ Newer(new, m, j) <=> j \in early
                /\ Newer(new, j, m) <=> j \notin early
    <2>1. \A k \in DOMAIN table : /\ Newer(new, m, k) <=> UpTo(table, k, now)
                                  /\ Newer(new, k, m) <=> ~UpTo(table, k, now)
      BY InsertedRow
    <2>2. QED
      BY <1>2, <2>1
  <1>5. IsFiniteSet(mine) /\ Cardinality(mine) \in Nat
    BY <1>2, PickedFinite
  <1> HIDE DEF new, mine, all
  <1>6. Cardinality(all) = Cardinality(mine) + 1
    BY <1>1, <1>2, <1>5, FS_AddElement
  <1>7. ~Newer(new, m, m)
    BY <1>1, NewerIsTotal
  <1>8. Rank(new, all, m) = b
    <2>1. ASSUME NEW j \in all PROVE Newer(new, m, j) <=> j \in early
      <3>1. CASE j = m
        BY <1>1, <1>2, <1>7, <3>1
      <3>2. CASE j \in mine
        BY <1>4, <3>2
      <3>3. QED
        BY <1>1, <3>1, <3>2
    <2>2. early \subseteq all
      BY <1>1
    <2> HIDE DEF early
    <2>3. Older(new, all, m) = early
      BY <2>1, <2>2 DEF Older
    <2>4. QED
      BY <2>3 DEF Rank
  <1>9. ASSUME NEW i \in mine
        PROVE  Rank(new, all, i) = IF Rank(table, mine, i) < b THEN Rank(table, mine, i)
                                   ELSE Rank(table, mine, i) + 1
    <2>1. UpTo(table, i, now) <=> Rank(table, mine, i) < b
      BY EarlyComeFirst DEF mine
    <2>2. CASE UpTo(table, i, now)
      <3>1. ASSUME NEW j \in all PROVE Newer(new, i, j) <=> j \in mine /\ Newer(table, i, j)
        <4>1. CASE j = m
          <5>1. ~Newer(new, i, m) /\ m \notin mine
            BY <1>1, <1>2, <1>4, <2>2
          <5>2. QED
            BY <4>1, <5>1
        <4>2. CASE j \in mine
          BY <1>3, <4>2
        <4>3. QED
          BY <1>1, <4>1, <4>2
      <3>2. Older(new, all, i) = Older(table, mine, i)
        BY <1>1, <3>1 DEF Older
      <3>3. QED
        BY <2>1, <2>2, <3>2 DEF Rank
    <2>3. CASE ~UpTo(table, i, now)
      <3>1. Older(new, all, i) = Older(table, mine, i) \union {m} /\ m \notin Older(table, mine, i)
        <4>1. Newer(new, i, m) /\ m \notin mine
          BY <1>1, <1>2, <1>4, <2>3
        <4>2. \A j \in mine : Newer(new, i, j) <=> Newer(table, i, j)
          BY <1>3
        <4>3. QED
          BY <1>1, <4>1, <4>2 DEF Older
      <3>2. IsFiniteSet(Older(table, mine, i))
        BY <1>5, FS_Subset DEF Older
      <3>3. Cardinality(Older(new, all, i)) = Cardinality(Older(table, mine, i)) + 1
        BY <3>1, <3>2, FS_AddElement
      <3>4. QED
        BY <2>1, <2>3, <3>3 DEF Rank
    <2>4. QED
      BY <2>2, <2>3
  <1>10. QED
    BY <1>1, <1>6, <1>8, <1>9 DEF new, mine, all

(* An insert puts its turn into the log of the chat behind all turns that  *)
(* are stamped up to now (memory.py 31-39, 51).                            *)
LEMMA InsertPlaces ==
  ASSUME NEW R, NEW table \in Seq(R), IsTable(table), NEW c, NEW now \in Int, NEW role, NEW x
  PROVE  Logged(Insert(table, c, now, role, x), c)
           = Log!Place(Logged(table, c), [role |-> role, content |-> x], now)
  <1> DEFINE new == Insert(table, c, now, role, x)
             mine == RowsOf(table, c)
             n == Cardinality(mine)
             all == RowsOf(new, c)
             b == Cardinality({j \in mine : UpTo(table, j, now)})
             e == [turn |-> [role |-> role, content |-> x], ts |-> now]
             T == {Cell(table, i) : i \in mine} \union {e}
             log == Logged(table, c)
             placed == Placed(log, e, b)
  <1>0. PICK m : m = Len(table) + 1
    OBVIOUS
  <1>1. /\ IsTable(new) /\ new[m] = Row(c, now, role, x)
        /\ \A i \in DOMAIN table : new[i] = table[i]
    BY <1>0, InsertedRow
  <1>2. /\ all = mine \union {m} /\ Cardinality(all) = n + 1 /\ Rank(new, all, m) = b
        /\ \A i \in mine : Rank(new, all, i) = IF Rank(table, mine, i) < b THEN Rank(table, mine, i)
                                               ELSE Rank(table, mine, i) + 1
    BY <1>0, RanksAfterInsert
  <1>3. mine \in SUBSET DOMAIN table /\ all \in SUBSET DOMAIN new
    BY DEF RowsOf
  <1>4. /\ n \in Nat /\ Len(log) = n /\ log \in Seq({Cell(table, i) : i \in mine})
        /\ \A k \in 1 .. n : /\ NthOldest(table, mine, k) \in mine
                             /\ Rank(table, mine, NthOldest(table, mine, k)) = k - 1
                             /\ log[k] = Cell(table, NthOldest(table, mine, k))
    BY LogEntries
  <1>5. b \in 0 .. n /\ Cardinality({k \in DOMAIN log : log[k].ts <= now}) = b
    <2>1. /\ b \in Nat /\ b <= n
          /\ Cardinality({k \in DOMAIN log : log[k].ts <= now}) = b
      BY EarlyComeFirst
    <2> HIDE DEF b, n
    <2>2. QED
      BY <1>4, <2>1
  <1>6. Log!Place(log, [role |-> role, content |-> x], now) = placed
    <2> DEFINE before == Cardinality({k \in DOMAIN log : log[k].ts <= now})
    <2> HIDE DEF b, log
    <2>1. Log!Place(log, [role |-> role, content |-> x], now)
            = SubSeq(log, 1, before) \o <<e>> \o SubSeq(log, before + 1, Len(log))
      BY DEF Log!Place, Log!Cardinality, Cardinality
    <2>2. before = b
      BY <1>5
    <2> HIDE DEF before
    <2>3. QED
      BY <2>1, <2>2 DEF Placed
  <1>7. /\ \A i \in mine : Cell(new, i) = Cell(table, i)
        /\ Cell(new, m) = e
    BY <1>1, <1>3 DEF Cell, TurnAt, Row
  <1>8. /\ placed \in Seq(T) /\ Len(placed) = n + 1
        /\ \A k \in 1 .. b : placed[k] = log[k]
        /\ placed[b + 1] = e
        /\ \A k \in b + 1 .. n : placed[k + 1] = log[k]
    <2>1. log \in Seq(T) /\ e \in T /\ b \in 0 .. Len(log)
      <3> HIDE DEF log, b, n, mine, e
      <3>1. {Cell(table, i) : i \in mine} \subseteq T
        OBVIOUS
      <3> DEFINE T0 == {Cell(table, i) : i \in mine}
      <3>2. log \in Seq(T0) /\ T0 \subseteq T
        BY <1>4, <3>1
      <3>3. e \in T
        OBVIOUS
      <3> HIDE DEF T0, T
      <3>4. log \in Seq(T)
        BY <3>2
      <3>5. QED
        BY <1>4, <1>5, <3>3, <3>4
    <2> HIDE DEF log, b, n, e, T
    <2>2. n \in Nat /\ n = Len(log) /\ b \in 0 .. n /\ log \in Seq(T) /\ e \in T
      BY <1>4, <1>5, <2>1
    <2>3. placed \in Seq(T) /\ Len(placed) = n + 1
      BY <2>2, PlacedEntries
    <2>4. (\A k \in 1 .. b : placed[k] = log[k]) /\ placed[b + 1] = e
      BY <2>2, PlacedEntries
    <2>5. \A k \in b + 1 .. n : placed[k + 1] = log[k]
      BY <2>2, PlacedEntries
    <2>6. QED
      BY <2>3, <2>4, <2>5
  <1>9. /\ Logged(new, c) \in Seq({Cell(new, i) : i \in all}) /\ Len(Logged(new, c)) = n + 1
        /\ \A k \in 1 .. n + 1 : Logged(new, c)[k] = Cell(new, NthOldest(new, all, k))
    <2> HIDE DEF new
    <2>1. LET l == Cardinality(all)
          IN  /\ Logged(new, c) \in Seq({Cell(new, i) : i \in all}) /\ Len(Logged(new, c)) = l
              /\ \A k \in 1 .. l : Logged(new, c)[k] = Cell(new, NthOldest(new, all, k))
      BY <1>1, LogEntries
    <2>2. Cardinality(all) = n + 1
      BY <1>2
    <2> HIDE DEF all, n
    <2>3. QED
      BY <2>1, <2>2
  <1>10. \A i \in all : NthOldest(new, all, Rank(new, all, i) + 1) = i
    <2> HIDE DEF new
    <2>1. QED
      BY <1>1, <1>3, RankedIsNth
  <1> HIDE DEF new, all, mine, n, b, e, log, placed, T
  <1>11. ASSUME NEW k \in 1 .. n + 1 PROVE Logged(new, c)[k] = placed[k]
    <2>1. CASE k <= b
      <3> DEFINE i == NthOldest(table, mine, k)
      <3>1. k \in 1 .. n
        BY <1>4, <1>5, <2>1
      <3>2. i \in mine /\ Rank(table, mine, i) = k - 1 /\ log[k] = Cell(table, i)
        BY <1>4, <3>1
      <3> HIDE DEF i
      <3>3. Rank(new, all, i) = k - 1
        <4>1. Rank(table, mine, i) < b
          BY <1>4, <1>5, <2>1, <3>2
        <4>2. QED
          BY <1>2, <3>2, <4>1
      <3>4. NthOldest(new, all, k) = i
        <4>1. k - 1 + 1 = k
          BY <1>4
        <4>2. QED
          BY <1>2, <1>10, <3>2, <3>3, <4>1
      <3>5. placed[k] = log[k]
        BY <1>4, <1>5, <1>8, <2>1
      <3>6. QED
        BY <1>7, <1>9, <3>2, <3>4, <3>5
    <2>2. CASE k = b + 1
      <3>1. NthOldest(new, all, k) = m
        BY <1>2, <1>10, <2>2
      <3>2. placed[k] = e
        BY <1>4, <1>5, <1>8, <2>2
      <3>3. QED
        BY <1>7, <1>9, <3>1, <3>2
    <2>3. CASE k > b + 1
      <3> DEFINE i == NthOldest(table, mine, k - 1)
      <3>1. k - 1 \in 1 .. n
        BY <1>4, <1>5, <2>3
      <3>2. i \in mine /\ Rank(table, mine, i) = k - 1 - 1 /\ log[k - 1] = Cell(table, i)
        BY <1>4, <3>1
      <3> HIDE DEF i
      <3>3. Rank(new, all, i) = k - 1
        <4>1. ~(Rank(table, mine, i) < b) /\ Rank(table, mine, i) + 1 = k - 1
          BY <1>4, <1>5, <2>3, <3>2
        <4>2. QED
          BY <1>2, <3>2, <4>1
      <3>4. NthOldest(new, all, k) = i
        <4>1. k - 1 + 1 = k
          BY <1>4
        <4>2. QED
          BY <1>2, <1>10, <3>2, <3>3, <4>1
      <3>5. placed[k] = log[k - 1]
        <4>1. k - 1 \in b + 1 .. n /\ k - 1 + 1 = k
          BY <1>4, <1>5, <2>3
        <4>2. QED
          BY <1>8, <4>1
      <3>6. QED
        BY <1>7, <1>9, <3>2, <3>4, <3>5
    <2>4. QED
      BY <1>4, <1>5, <2>1, <2>2, <2>3
  <1>12. Logged(new, c) \in Seq(T)
    <2>1. \A i \in all : Cell(new, i) \in T
      BY <1>2, <1>7 DEF T
    <2>2. {Cell(new, i) : i \in all} \subseteq T
      BY <2>1
    <2>3. \A k \in 1 .. n + 1 : Logged(new, c)[k] \in T
      BY <1>8, <1>11, <1>4, ElementOfSeq
    <2> DEFINE T0 == {Cell(new, i) : i \in all}
               l == Logged(new, c)
    <2>4. l \in Seq(T0) /\ T0 \subseteq T
      BY <1>9, <2>2
    <2> HIDE DEF T0, l
    <2>5. l \in Seq(T)
      BY <2>4
    <2>6. QED
      BY <2>5 DEF l
  <1>13. Logged(new, c) = placed
    <2> DEFINE l == Logged(new, c)
    <2>1. l \in Seq(T) /\ Len(l) = n + 1 /\ \A k \in 1 .. n + 1 : l[k] = placed[k]
      BY <1>9, <1>11, <1>12
    <2> HIDE DEF l
    <2>2. l = placed
      BY <1>8, <2>1, SeqEqual
    <2>3. QED
      BY <2>2 DEF l
  <1>14. QED
    BY <1>6, <1>13 DEF new, log

(* The logs of the other chats stay.                                       *)
LEMMA OtherLogsStay ==
  ASSUME NEW R, NEW table \in Seq(R), IsTable(table), NEW c, NEW now \in Int, NEW role, NEW x,
         NEW d, d # c
  PROVE  Logged(Insert(table, c, now, role, x), d) = Logged(table, d)
  <1> DEFINE new == Insert(table, c, now, role, x)
             mine == RowsOf(table, d)
             n == Cardinality(mine)
  <1>1. IsTable(new) /\ RowsOf(new, d) = mine /\ DOMAIN table \subseteq DOMAIN new
    <2>1. PICK m : m = Len(table) + 1
      OBVIOUS
    <2>2. QED
      BY <2>1, InsertedRow
  <1>2. /\ \A i \in DOMAIN table : new[i] = table[i]
        /\ \A i, j \in DOMAIN table : Newer(new, i, j) <=> Newer(table, i, j)
    <2>1. PICK m : m = Len(table) + 1
      OBVIOUS
    <2>2. QED
      BY <2>1, InsertedRow
  <1>3. mine \in SUBSET DOMAIN table
    BY DEF RowsOf
  <1> HIDE DEF new
  <1>4. \A i \in mine : Rank(new, mine, i) = Rank(table, mine, i) /\ Cell(new, i) = Cell(table, i)
    <2> SUFFICES ASSUME NEW i \in mine
                 PROVE  Rank(new, mine, i) = Rank(table, mine, i) /\ Cell(new, i) = Cell(table, i)
      OBVIOUS
    <2>1. Older(new, mine, i) = Older(table, mine, i)
      BY <1>2, <1>3 DEF Older
    <2>2. QED
      BY <1>2, <1>3, <2>1 DEF Rank, Cell, TurnAt
  <1>5. \A k \in 1 .. n : Cell(new, NthOldest(new, mine, k)) = Cell(table, NthOldest(table, mine, k))
    <2> SUFFICES ASSUME NEW k \in 1 .. n
                 PROVE  Cell(new, NthOldest(new, mine, k)) = Cell(table, NthOldest(table, mine, k))
      OBVIOUS
    <2>1. /\ NthOldest(table, mine, k) \in mine /\ Rank(table, mine, NthOldest(table, mine, k)) = k - 1
      BY <1>3, NthIsRanked
    <2>2. /\ NthOldest(new, mine, k) \in mine /\ Rank(new, mine, NthOldest(new, mine, k)) = k - 1
      BY <1>1, <1>3, NthIsRanked
    <2>3. NthOldest(new, mine, k) = NthOldest(table, mine, k)
      BY <1>3, <1>4, <2>1, <2>2, RankIsUnique
    <2>4. QED
      BY <1>4, <2>1, <2>3
  <1>6. QED
    BY <1>1, <1>5 DEF Logged, new
-----------------------------------------------------------------------------
(* The refinement                                                          *)

(* InOrder of Memory.tla, of a table that is named.                        *)
InOrderOf(table, c) ==
  LET mine == RowsOf(table, c)
      earlier(j, i) == \/ table[j].ts < table[i].ts
                       \/ table[j].ts = table[i].ts /\ j < i
      nth(k) == CHOOSE i \in mine : Cardinality({j \in mine : earlier(j, i)}) = k - 1
  IN  [k \in 1 .. Cardinality(mine) |->
         [turn |-> [role |-> table[nth(k)].role, content |-> table[nth(k)].content],
          ts |-> table[nth(k)].ts]]

LEMMA InOrderOfRows ==
  ASSUME NEW c
  PROVE  InOrder(c) = InOrderOf(rows, c) /\ InOrder(c)' = InOrderOf(rows', c)
  BY DEF InOrder, InOrderOf, Earlier, Turn, RowsOf

LEMMA InOrderIsLogged ==
  ASSUME NEW table, IsTable(table), NEW c
  PROVE  InOrderOf(table, c) = Logged(table, c)
  <1> DEFINE mine == RowsOf(table, c)
             n == Cardinality(mine)
             earlier(j, i) == \/ table[j].ts < table[i].ts
                              \/ table[j].ts = table[i].ts /\ j < i
             nth(k) == CHOOSE i \in mine : Cardinality({j \in mine : earlier(j, i)}) = k - 1
  <1>1. mine \in SUBSET DOMAIN table
    BY DEF RowsOf
  <1>2. ASSUME NEW i \in mine PROVE {j \in mine : earlier(j, i)} = Older(table, mine, i)
    BY <1>1 DEF Older, Newer, IsTable
  <1>3. ASSUME NEW k \in 1 .. n PROVE nth(k) = NthOldest(table, mine, k)
    <2>1. NthOldest(table, mine, k) \in mine /\ Rank(table, mine, NthOldest(table, mine, k)) = k - 1
      BY <1>1, NthIsRanked
    <2>2. \E i \in mine : Cardinality({j \in mine : earlier(j, i)}) = k - 1
      BY <1>2, <2>1 DEF Rank
    <2>3. nth(k) \in mine /\ Cardinality({j \in mine : earlier(j, nth(k))}) = k - 1
      <3> HIDE DEF mine, earlier
      <3>1. QED
        BY <2>2
    <2> DEFINE i == nth(k)
    <2>4. i \in mine /\ Cardinality({j \in mine : earlier(j, i)}) = k - 1
      BY <2>3
    <2> HIDE DEF i
    <2>5. Rank(table, mine, i) = k - 1
      BY <1>2, <2>4 DEF Rank
    <2>6. i = NthOldest(table, mine, k)
      BY <1>1, <2>1, <2>4, <2>5, RankIsUnique
    <2>7. QED
      BY <2>6 DEF i
  <1>4. InOrderOf(table, c)
          = [k \in 1 .. n |-> [turn |-> [role |-> table[nth(k)].role, content |-> table[nth(k)].content],
                               ts |-> table[nth(k)].ts]]
    BY DEF InOrderOf
  <1> HIDE DEF nth, n
  <1>5. [k \in 1 .. n |-> [turn |-> [role |-> table[nth(k)].role, content |-> table[nth(k)].content],
                           ts |-> table[nth(k)].ts]]
          = [k \in 1 .. n |-> Cell(table, NthOldest(table, mine, k))]
    BY <1>3 DEF Cell, TurnAt
  <1>6. QED
    BY <1>4, <1>5 DEF Logged, n

Stored == [chat : Chats, ts : 0 .. MaxTime, role : Roles, content : Contents]

LEMMA RowsAreTable ==
  ASSUME NEW table \in Seq(Stored)
  PROVE  IsTable(table)
  <1>1. /\ Len(table) \in Nat /\ DOMAIN table = 1 .. Len(table)
        /\ \A i \in DOMAIN table : table[i] \in Stored
    <2> HIDE DEF Stored
    <2>1. QED
      OBVIOUS
  <1>2. \A i \in DOMAIN table : table[i].ts \in Int
    BY <1>1 DEF Stored
  <1>3. QED
    BY <1>1, <1>2 DEF IsTable

LEMMA TypeInit == Init => TypeOK
  <1> SUFFICES ASSUME Init PROVE TypeOK
    OBVIOUS
  <1>1. rows \in Seq(Stored)
    BY EmptySeq DEF Init
  <1>2. QED
    BY <1>1 DEF Init, TypeOK, Stored

LEMMA TypeNext == TypeOK /\ [Next]_vars => TypeOK'
  <1> SUFFICES ASSUME TypeOK, [Next]_vars PROVE TypeOK'
    OBVIOUS
  <1>1. ASSUME NEW c \in Chats, NEW role \in Roles, NEW x \in Contents, AppendTurn(c, role, x)
        PROVE  TypeOK'
    <2>1. Row(c, clock, role, x) \in Stored /\ rows \in Seq(Stored)
      BY DEF TypeOK, Row, Stored
    <2>2. rows' \in Seq(Stored)
      <3> HIDE DEF Stored
      <3>1. QED
        BY <1>1, <2>1 DEF AppendTurn, Insert
    <2>3. QED
      BY <1>1, <2>2 DEF AppendTurn, TypeOK, Stored
  <1>2. CASE Reopen
    BY <1>2 DEF Reopen, OpenTable, TypeOK
  <1>3. CASE Tick \/ SetBack
    BY <1>3 DEF Tick, SetBack, TypeOK
  <1>4. CASE UNCHANGED vars
    BY <1>4 DEF vars, TypeOK
  <1>5. QED
    BY <1>1, <1>2, <1>3, <1>4 DEF Next

(* Every row is a turn of a known chat with a time there was (TypeOK).     *)
THEOREM TypeCorrect == Spec => []TypeOK
  BY TypeInit, TypeNext, PTL DEF Spec

(* A chat's log and window, as Memory's instance of RecentLog takes them.  *)
Logs == [c \in Chats |-> InOrder(c)]
Windows == [c \in Chats |-> History(rows, c, Limit)]
LogsOf(table) == [c \in Chats |-> Logged(table, c)]
WindowsOf(table) == [c \in Chats |-> Log!LastOf(Log!TurnsIn(Logged(table, c)), Limit)]

LEMMA MappingIsOfTable ==
  ASSUME TypeOK, TypeOK'
  PROVE  /\ Logs = LogsOf(rows) /\ Logs' = LogsOf(rows')
         /\ Windows = WindowsOf(rows) /\ Windows' = WindowsOf(rows')
  <1>1. IsTable(rows)
    BY RowsAreTable DEF TypeOK, Stored
  <1>2. IsTable(rows')
    BY RowsAreTable DEF TypeOK, Stored
  <1>3. \A c \in Chats : InOrder(c) = Logged(rows, c) /\ InOrder(c)' = Logged(rows', c)
    BY <1>1, <1>2, InOrderOfRows, InOrderIsLogged
  <1>4. \A c \in Chats : /\ History(rows, c, Limit) = Log!LastOf(Log!TurnsIn(Logged(rows, c)), Limit)
                         /\ History(rows', c, Limit) = Log!LastOf(Log!TurnsIn(Logged(rows', c)), Limit)
    BY <1>1, <1>2, HistoryIsEndOfLog
  <1>5. QED
    BY <1>3, <1>4 DEF Logs, LogsOf, Windows, WindowsOf

LEMMA AppendAdds ==
  ASSUME TypeOK, TypeOK', NEW c \in Chats, NEW role \in Roles, NEW x \in Contents,
         AppendTurn(c, role, x)
  PROVE  Log!Add(c, [role |-> role, content |-> x], clock)
  <1> DEFINE t == [role |-> role, content |-> x]
             place == Log!Place(Logged(rows, c), t, clock)
  <1>1. /\ rows \in Seq(Stored) /\ clock \in Int
        /\ rows' = Insert(rows, c, clock, role, x)
    BY DEF TypeOK, Stored, AppendTurn
  <1>2. IsTable(rows)
    BY <1>1, RowsAreTable
  <1>3. Logged(rows', c) = place
    BY <1>1, <1>2, InsertPlaces
  <1>4. \A d \in Chats : d # c => Logged(rows', d) = Logged(rows, d)
    BY <1>1, <1>2, OtherLogsStay
  <1> HIDE DEF place
  <1>5. LogsOf(rows') = [LogsOf(rows) EXCEPT ![c] = place] /\ LogsOf(rows)[c] = Logged(rows, c)
        /\ LogsOf(rows')[c] = place
    BY <1>3, <1>4 DEF LogsOf
  <1>6. WindowsOf(rows') = [WindowsOf(rows) EXCEPT ![c] = Log!LastOf(Log!TurnsIn(place), Limit)]
    BY <1>3, <1>4 DEF WindowsOf
  <1>7. /\ Logs' = [Logs EXCEPT ![c] = Log!Place(Logs[c], t, clock)]
        /\ Windows' = [Windows EXCEPT ![c] = Log!LastOf(Log!TurnsIn(Logs'[c]), Limit)]
    BY <1>5, <1>6, MappingIsOfTable DEF place
  <1>8. QED
    BY <1>7 DEF Log!Add, Logs, Windows

LEMMA LogInit == Init => Log!Init
  <1> SUFFICES ASSUME Init PROVE Log!Init
    OBVIOUS
  <1>1. rows = <<>> /\ Len(<<>>) = 0
    BY DEF Init
  <1>2. ASSUME NEW c PROVE RowsOf(rows, c) = {} /\ Picked(rows, c, Limit) = {}
    BY <1>1 DEF RowsOf, Picked
  <1>3. Cardinality({}) = 0
    BY FS_EmptySet
  <1>4. ASSUME NEW c PROVE InOrder(c) = <<>> /\ History(rows, c, Limit) = <<>>
    <2>1. rows \in Seq(Stored) /\ IsTable(rows)
      BY <1>1, EmptySeq, RowsAreTable
    <2>2. InOrder(c) = <<>>
      <3> DEFINE l == Logged(rows, c)
                 T == {Cell(rows, i) : i \in RowsOf(rows, c)}
      <3>1. l \in Seq(T) /\ Len(l) = 0
        BY <1>2, <1>3, <2>1, LogEntries
      <3>2. InOrder(c) = l
        BY <2>1, InOrderOfRows, InOrderIsLogged
      <3> HIDE DEF l, T
      <3>3. QED
        BY <3>1, <3>2, EmptySeq
    <2>3. History(rows, c, Limit) = <<>>
      <3> DEFINE h == History(rows, c, Limit)
                 T == [role : Roles, content : Contents]
      <3>1. \A i \in DOMAIN rows : rows[i].role \in Roles /\ rows[i].content \in Contents
        BY <1>1
      <3>2. h \in Seq(T)
        BY <2>1, <3>1, HistoryType
      <3>3. Len(h) = 0
        BY <1>2, <1>3, <2>1, HistoryLength
      <3> HIDE DEF h, T
      <3>4. h = <<>>
        BY <3>2, <3>3, EmptySeq
      <3>5. QED
        BY <3>4 DEF h
    <2>4. QED
      BY <2>2, <2>3
  <1>5. QED
    BY <1>4 DEF Log!Init

LEMMA StepsAdd == TypeOK /\ TypeOK' /\ [Next]_vars => [Log!Next]_<<Logs, Windows>>
  <1> SUFFICES ASSUME TypeOK, TypeOK', [Next]_vars PROVE Log!Next \/ UNCHANGED <<Logs, Windows>>
    OBVIOUS
  <1>1. ASSUME NEW c \in Chats, NEW role \in Roles, NEW x \in Contents, AppendTurn(c, role, x)
        PROVE  Log!Next
    <2>1. [role |-> role, content |-> x] \in [role : Roles, content : Contents] /\ clock \in 0 .. MaxTime
      BY DEF TypeOK
    <2>2. QED
      BY <1>1, <2>1, AppendAdds DEF Log!Next
  <1>2. CASE UNCHANGED rows
    BY <1>2, MappingIsOfTable
  <1>3. QED
    BY <1>1, <1>2 DEF Next, Reopen, OpenTable, Tick, SetBack, vars

(* The table and its query implement RecentLog, for every limit of at      *)
(* least one: an insert puts one turn into the log of its chat, where the  *)
(* clock says, and history's ORDER BY, LIMIT and reverse read the end of   *)
(* that log (memory.py 31-55).                                             *)
THEOREM StoreKeepsRecentLog == Spec => KeepsRecentLog
  <1>1. TypeOK /\ TypeOK' /\ [Next]_vars => [Log!Next]_<<Logs, Windows>>
    BY StepsAdd
  <1>2. QED
    BY <1>1, TypeInit, TypeNext, LogInit, PTL DEF Spec, KeepsRecentLog, Log!Spec, Logs, Windows
=============================================================================
