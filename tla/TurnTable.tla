----------------------------- MODULE TurnTable -----------------------------
(***************************************************************************)
(* The SQLite table of agent/memory.py as pure operators: a table is the   *)
(* sequence of its rows in rowid order, a row is one conversation turn.    *)
(* Memory.tla and Bot.tla are state machines over such a table.            *)
(***************************************************************************)
EXTENDS Integers, Sequences, FiniteSets

Roles == {"user", "assistant"}

Row(chat, ts, role, content) ==
  [chat |-> chat, ts |-> ts, role |-> role, content |-> content]

(* Mutated form: the time stamp is rounded up instead of truncated. *)
BugInsert(rows, chat, now, role, content) ==
  Append(rows, Row(chat, now + 1, role, content))

(* Memory.append: one committed INSERT.  rowid grows with every insert, so *)
(* the new row is the last one.                                            *)
Insert(rows, chat, now, role, content) ==
  Append(rows, Row(chat, now, role, content))

(* Mutated form: CREATE TABLE without IF NOT EXISTS after dropping it.     *)
BugOpenTable(rows) == <<>>

(* Memory.__init__ / _init_schema: CREATE TABLE IF NOT EXISTS keeps what   *)
(* an earlier process committed.                                           *)
OpenTable(rows) == rows

(* Mutated form: the tie between rows of one second goes to the older.     *)
BugNewer(rows, i, j) ==
  \/ rows[i].ts > rows[j].ts
  \/ rows[i].ts = rows[j].ts /\ i < j

(* ORDER BY ts DESC, rowid DESC: row i comes before row j.                 *)
Newer(rows, i, j) ==
  \/ rows[i].ts > rows[j].ts
  \/ rows[i].ts = rows[j].ts /\ i > j

RowsOf(rows, chat) == {i \in DOMAIN rows : rows[i].chat = chat}

(* WHERE chat_id = ? ORDER BY ts DESC, rowid DESC LIMIT ?                  *)
Picked(rows, chat, limit) ==
  {i \in RowsOf(rows, chat) :
     Cardinality({j \in RowsOf(rows, chat) : Newer(rows, j, i)}) < limit}

(* The k-th picked row from the oldest: rows.reverse() in Python.          *)
NthOldest(rows, picked, k) ==
  CHOOSE i \in picked : Cardinality({j \in picked : Newer(rows, i, j)}) = k - 1

(* Memory.history: what the caller receives, oldest first.                 *)
History(rows, chat, limit) ==
  LET picked == Picked(rows, chat, limit)
      turn(i) == [role |-> rows[i].role, content |-> rows[i].content]
  IN  [k \in 1 .. Cardinality(picked) |-> turn(NthOldest(rows, picked, k))]
=============================================================================
