-------------------------- MODULE TurnTable_proofs --------------------------
(***************************************************************************)
(* Facts about Memory.history as TurnTable.tla defines it, for every       *)
(* table, chat and limit.                                                  *)
(***************************************************************************)
EXTENDS TurnTable, FiniteSetTheorems, SequenceTheorems, TLAPS

(* A table: a finite sequence of rows with integer stamps.                 *)
IsTable(rows) ==
  /\ Len(rows) \in Nat
  /\ DOMAIN rows = 1 .. Len(rows)
  /\ \A i \in DOMAIN rows : rows[i].ts \in Int

Older(rows, S, i) == {j \in S : Newer(rows, i, j)}

(* ORDER BY ts DESC, rowid DESC is a strict total order of the rows        *)
(* (memory.py 51).                                                         *)
LEMMA NewerIsTotal ==
  ASSUME NEW rows, IsTable(rows)
  PROVE  /\ \A i \in DOMAIN rows : ~Newer(rows, i, i)
         /\ \A i, j \in DOMAIN rows : i # j => Newer(rows, i, j) \/ Newer(rows, j, i)
         /\ \A i, j, k \in DOMAIN rows :
              Newer(rows, i, j) /\ Newer(rows, j, k) => Newer(rows, i, k)
  BY DEF IsTable, Newer

(* Sets of rows are finite, so that they can be counted.                  *)
LEMMA PickedFinite ==
  ASSUME NEW rows, IsTable(rows), NEW S \in SUBSET DOMAIN rows
  PROVE  /\ IsFiniteSet(S)
         /\ Cardinality(S) \in Nat
         /\ \A T \in SUBSET S :
              IsFiniteSet(T) /\ Cardinality(T) \in Nat /\ Cardinality(T) <= Cardinality(S)
  <1>1. IsFiniteSet(1 .. Len(rows))
    BY FS_Interval DEF IsTable
  <1>2. IsFiniteSet(S)
    BY <1>1, FS_Subset DEF IsTable
  <1>3. QED
    BY <1>2, FS_Subset, FS_CardinalityType

(* A newer row has more older rows: rows are told apart by how many of     *)
(* the others are older.                                                   *)
LEMMA RankGrows ==
  ASSUME NEW rows, IsTable(rows), NEW S \in SUBSET DOMAIN rows,
         NEW i \in S, NEW j \in S, Newer(rows, i, j)
  PROVE  Cardinality(Older(rows, S, j)) < Cardinality(Older(rows, S, i))
  <1>1. /\ Older(rows, S, j) \cup {j} \in SUBSET Older(rows, S, i)
        /\ j \notin Older(rows, S, j)
    BY NewerIsTotal DEF Older
  <1>2. /\ IsFiniteSet(Older(rows, S, j)) /\ Cardinality(Older(rows, S, j)) \in Nat
        /\ IsFiniteSet(Older(rows, S, i)) /\ Cardinality(Older(rows, S, i)) \in Nat
    BY PickedFinite DEF Older
  <1>3. Cardinality(Older(rows, S, j) \cup {j}) = Cardinality(Older(rows, S, j)) + 1
    BY <1>1, <1>2, FS_AddElement
  <1>4. Cardinality(Older(rows, S, j) \cup {j}) <= Cardinality(Older(rows, S, i))
    BY <1>1, <1>2, FS_Subset
  <1>5. QED
    BY <1>2, <1>3, <1>4

(* Among n rows there is one with exactly k - 1 older ones, for each k of  *)
(* 1 .. n: rows.reverse() yields n entries, each a row that was picked.    *)
LEMMA RankOnto ==
  ASSUME NEW rows, IsTable(rows), NEW S \in SUBSET DOMAIN rows,
         NEW k \in 1 .. Cardinality(S)
  PROVE  \E i \in S : Cardinality(Older(rows, S, i)) = k - 1
  <1> DEFINE n == Cardinality(S)
             rank == [i \in S |-> Cardinality(Older(rows, S, i))]
  <1>1. IsFiniteSet(S) /\ n \in Nat
    BY PickedFinite
  <1>2. rank \in [S -> 0 .. n - 1]
    <2> SUFFICES ASSUME NEW i \in S
                 PROVE  Cardinality(Older(rows, S, i)) \in 0 .. n - 1
      OBVIOUS
    <2>1. Older(rows, S, i) \in SUBSET (S \ {i})
      BY NewerIsTotal DEF Older
    <2>2. IsFiniteSet(S \ {i}) /\ Cardinality(S \ {i}) = n - 1
      BY <1>1, FS_RemoveElement
    <2>3. Cardinality(Older(rows, S, i)) <= n - 1 /\ Cardinality(Older(rows, S, i)) \in Nat
      BY <2>1, <2>2, FS_Subset, FS_CardinalityType
    <2>4. QED
      BY <1>1, <2>3
  <1>3. ASSUME NEW i \in S, NEW j \in S, rank[i] = rank[j]
        PROVE  i = j
    <2>1. CASE Newer(rows, i, j)
      BY <1>2, <1>3, <2>1, RankGrows
    <2>2. CASE Newer(rows, j, i)
      BY <1>2, <1>3, <2>2, RankGrows
    <2>3. QED
      BY <2>1, <2>2, NewerIsTotal
  <1>4. rank \in Injection(S, 0 .. n - 1)
    BY <1>2, <1>3 DEF Injection, IsInjective
  <1>5. IsFiniteSet(0 .. n - 1) /\ Cardinality(0 .. n - 1) = n
    <2>1. ASSUME NEW m \in Nat
          PROVE  IsFiniteSet(0 .. m - 1) /\ Cardinality(0 .. m - 1) = m
      BY FS_Interval, 0 \in Int, m - 1 \in Int
    <2>2. QED
      BY <1>1, <2>1
  <1>6. rank \in Surjection(S, 0 .. n - 1)
    BY <1>4, <1>5, FS_Injection
  <1>7. k - 1 \in 0 .. n - 1
    BY <1>1
  <1>8. PICK i \in S : rank[i] = k - 1
    BY <1>6, <1>7 DEF Surjection
  <1>9. QED
    BY <1>8

(* A function on 1 .. n is a sequence of length n.                         *)
LEMMA FunctionIsSeq ==
  ASSUME NEW T, NEW n \in Nat, NEW f \in [1 .. n -> T]
  PROVE  f \in Seq(T) /\ Len(f) = n
  BY SeqDef

(* What history returns is a sequence of turns that are in the table       *)
(* (memory.py 41-55).                                                      *)
LEMMA HistoryEntries ==
  ASSUME NEW rows, IsTable(rows), NEW chat, NEW limit,
         NEW k \in 1 .. Cardinality(Picked(rows, chat, limit))
  PROVE  LET picked == Picked(rows, chat, limit)
             i == NthOldest(rows, picked, k)
         IN  /\ i \in picked
             /\ Cardinality(Older(rows, picked, i)) = k - 1
  <1> DEFINE picked == Picked(rows, chat, limit)
  <1>1. picked \in SUBSET DOMAIN rows
    BY DEF Picked, RowsOf
  <1>2. \E i \in picked : Cardinality(Older(rows, picked, i)) = k - 1
    BY <1>1, RankOnto
  <1>3. QED
    BY <1>2 DEF NthOldest, Older

(* history returns one turn per picked row (memory.py 48-55).              *)
LEMMA HistoryLength ==
  ASSUME NEW rows, IsTable(rows), NEW chat, NEW limit
  PROVE  Len(History(rows, chat, limit)) = Cardinality(Picked(rows, chat, limit))
  <1> DEFINE n == Cardinality(Picked(rows, chat, limit))
             h == History(rows, chat, limit)
             T == {h[k] : k \in 1 .. n}
  <1>1. Picked(rows, chat, limit) \in SUBSET DOMAIN rows
    BY DEF Picked, RowsOf
  <1>2. n \in Nat
    BY <1>1, PickedFinite
  <1>3. h \in [1 .. n -> T]
    BY DEF History
  <1>4. QED
    <2> HIDE DEF h, n, T
    <2>1. Len(h) = n
      BY <1>2, <1>3, FunctionIsSeq
    <2>2. QED
      BY <2>1 DEF h, n

(* The result of history is a sequence over the role and content of the    *)
(* rows (memory.py 54-55).                                                 *)
THEOREM HistoryType ==
  ASSUME NEW R, NEW C, NEW rows, IsTable(rows), NEW chat, NEW limit,
         \A i \in DOMAIN rows : rows[i].role \in R /\ rows[i].content \in C
  PROVE  /\ History(rows, chat, limit) \in Seq([role : R, content : C])
         /\ Len(History(rows, chat, limit)) = Cardinality(Picked(rows, chat, limit))
  <1> DEFINE picked == Picked(rows, chat, limit)
             entry(k) == [role |-> rows[NthOldest(rows, picked, k)].role,
                          content |-> rows[NthOldest(rows, picked, k)].content]
  <1>1. picked \in SUBSET DOMAIN rows
    BY DEF Picked, RowsOf
  <1>2. Cardinality(picked) \in Nat
    BY <1>1, PickedFinite
  <1>3. \A k \in 1 .. Cardinality(picked) : entry(k) \in [role : R, content : C]
    BY <1>1, HistoryEntries
  <1>4. History(rows, chat, limit) = [k \in 1 .. Cardinality(picked) |-> entry(k)]
    BY DEF History
  <1> HIDE DEF entry, picked
  <1>5. [k \in 1 .. Cardinality(picked) |-> entry(k)] \in [1 .. Cardinality(picked) -> [role : R, content : C]]
    BY <1>3
  <1> DEFINE T == [role : R, content : C]
             h == [k \in 1 .. Cardinality(picked) |-> entry(k)]
  <1>6. h \in [1 .. Cardinality(picked) -> T]
    BY <1>5
  <1>7. History(rows, chat, limit) = h
    BY <1>4
  <1>8. h \in Seq(T) /\ Len(h) = Cardinality(picked)
    <2> HIDE DEF h, T
    <2>1. QED
      BY <1>2, <1>6, FunctionIsSeq
  <1>9. QED
    BY <1>7, <1>8 DEF picked

(* When no row of its chat is stamped later than the last row of the       *)
(* table, that row is the last turn that history returns, for any limit of *)
(* at least one: the LIMIT never cuts off the newest turn (memory.py       *)
(* 48-55).                                                                 *)
THEOREM NewestIsLast ==
  ASSUME NEW rows, IsTable(rows), Len(rows) > 0,
         \A i \in RowsOf(rows, rows[Len(rows)].chat) : rows[i].ts <= rows[Len(rows)].ts,
         NEW limit \in Nat \ {0}
  PROVE  LET last == rows[Len(rows)]
             h == History(rows, last.chat, limit)
         IN  /\ Len(h) > 0
             /\ h[Len(h)] = [role |-> last.role, content |-> last.content]
  <1> DEFINE m == Len(rows)
             chat == rows[m].chat
             picked == Picked(rows, chat, limit)
             n == Cardinality(picked)
             h == History(rows, chat, limit)
  <1>1. picked \in SUBSET DOMAIN rows
    BY DEF Picked, RowsOf
  <1>2. IsFiniteSet(picked) /\ n \in Nat
    BY <1>1, PickedFinite
  <1>3. \A j \in RowsOf(rows, chat) : j # m => Newer(rows, m, j) /\ ~Newer(rows, j, m)
    BY DEF IsTable, Newer, RowsOf
  <1>4. m \in RowsOf(rows, chat) /\ {j \in RowsOf(rows, chat) : Newer(rows, j, m)} = {}
    BY <1>3, NewerIsTotal DEF RowsOf, IsTable
  <1>5. m \in picked
    <2>1. Cardinality({j \in RowsOf(rows, chat) : Newer(rows, j, m)}) = 0
      BY <1>4, FS_EmptySet
    <2>2. QED
      BY <1>4, <2>1 DEF Picked
  <1>6. n > 0
    BY <1>2, <1>5, FS_EmptySet
  <1> DEFINE i == NthOldest(rows, picked, n)
  <1>7. i \in picked /\ Cardinality(Older(rows, picked, i)) = n - 1
    BY <1>2, <1>6, HistoryEntries
  <1>8. i = m
    <2> SUFFICES ASSUME i # m PROVE FALSE
      OBVIOUS
    <2>1. Newer(rows, m, i)
      BY <1>3, <1>7 DEF Picked
    <2>2. Cardinality(Older(rows, picked, i)) < Cardinality(Older(rows, picked, m))
      BY <1>1, <1>5, <1>7, <2>1, RankGrows
    <2>3. Older(rows, picked, m) \in SUBSET (picked \ {m})
      BY <1>1, NewerIsTotal DEF Older
    <2>4. IsFiniteSet(picked \ {m}) /\ Cardinality(picked \ {m}) = n - 1
      BY <1>2, <1>5, FS_RemoveElement
    <2>5. Cardinality(Older(rows, picked, m)) <= n - 1 /\ Cardinality(Older(rows, picked, m)) \in Nat
      BY <2>3, <2>4, FS_Subset, FS_CardinalityType
    <2>6. QED
      BY <1>2, <1>7, <2>2, <2>5
  <1>9. h = [k \in 1 .. n |-> [role |-> rows[NthOldest(rows, picked, k)].role,
                              content |-> rows[NthOldest(rows, picked, k)].content]]
    BY DEF History
  <1>10. h[n] = [role |-> rows[m].role, content |-> rows[m].content]
    BY <1>2, <1>6, <1>8, <1>9
  <1>11. Len(h) = n
    BY HistoryLength
  <1>12. QED
    BY <1>6, <1>10, <1>11
=============================================================================
