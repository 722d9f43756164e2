------------------------------- MODULE Memory -------------------------------
(***************************************************************************)
(* agent/memory.py as a state machine: the turns table on disk and the     *)
(* wall clock that append reads.  history is a pure read (TurnTable).      *)
(***************************************************************************)
EXTENDS TurnTable

CONSTANTS
  Chats,      \* chat ids
  Contents,   \* message texts
  Limit,      \* the limit parameter of history
  MaxRows,    \* bound of the model: rows ever inserted
  MaxTime     \* bound of the model: the clock, in whole seconds

ASSUME MemoryAssumption ==
  Limit \in Nat \ {0} /\ MaxRows \in Nat /\ MaxTime \in Nat

VARIABLES
  rows,   \* table turns, in rowid order
  clock   \* int(time.time())

vars == <<rows, clock>>

Init == rows = <<>> /\ clock = 0

AppendTurn(c, role, x) ==
  /\ Len(rows) < MaxRows
  /\ rows' = Insert(rows, c, clock, role, x)
  /\ UNCHANGED clock

(* A new process opens the database file an earlier one wrote.             *)
Reopen == rows' = OpenTable(rows) /\ UNCHANGED clock

(* The host's clock goes on, or is set back.                               *)
Tick == clock < MaxTime /\ clock' = clock + 1 /\ UNCHANGED rows

SetBack == clock' \in 0 .. clock - 1 /\ UNCHANGED rows

Next ==
  \/ \E c \in Chats, role \in Roles, x \in Contents : AppendTurn(c, role, x)
  \/ Reopen
  \/ Tick
  \/ SetBack

Spec == Init /\ [][Next]_vars

-----------------------------------------------------------------------------
(* Every row is a turn of a known chat, stamped with a time there was.     *)
TypeOK ==
  /\ clock \in 0 .. MaxTime
  /\ rows \in Seq([chat : Chats, ts : 0 .. MaxTime, role : Roles, content : Contents])

Turn(i) == [role |-> rows[i].role, content |-> rows[i].content]

Earlier(j, i) ==
  \/ rows[j].ts < rows[i].ts
  \/ rows[j].ts = rows[i].ts /\ j < i

(* The rows of a chat by time stamp and, within one second, by rowid.      *)
InOrder(c) ==
  LET mine == RowsOf(rows, c)
      nth(k) == CHOOSE i \in mine : Cardinality({j \in mine : Earlier(j, i)}) = k - 1
  IN  [k \in 1 .. Cardinality(mine) |-> [turn |-> Turn(nth(k)), ts |-> rows[nth(k)].ts]]

Log == INSTANCE RecentLog WITH
  Turns <- [role : Roles, content : Contents],
  Stamps <- 0 .. MaxTime,
  log <- [c \in Chats |-> InOrder(c)],
  window <- [c \in Chats |-> History(rows, c, Limit)]

(* history's query by time stamp and row id, cut by LIMIT and reversed, is *)
(* a read of the last Limit turns of a log in the order of the clock, for  *)
(* every chat, whatever was appended within one second, whichever process  *)
(* appended it and however often the host's clock was set back             *)
(* (memory.py 31-55).                                                      *)
KeepsRecentLog == Log!Spec

=============================================================================
