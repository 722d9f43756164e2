----------------------------- MODULE RecentLog -----------------------------
(***************************************************************************)
(* What the conversation store promises its caller: every chat has its own *)
(* log, in the order of the clock and, for turns of one second, in the     *)
(* order they came; a turn once added is never changed or dropped; reading *)
(* a chat returns the last Limit turns of its log, oldest first.  On a     *)
(* clock that never steps back the log is in the order of addition; on     *)
(* one that did, a new turn goes below those stamped later.                *)
(***************************************************************************)
EXTENDS Integers, Sequences, FiniteSets

CONSTANTS Chats, Turns, Stamps, Limit

VARIABLES
  log,      \* log[c]: every turn of chat c with its stamp, oldest first
  window    \* window[c]: what a read of chat c returns now

LastOf(s, n) == SubSeq(s, IF Len(s) > n THEN Len(s) - n + 1 ELSE 1, Len(s))
TurnsIn(s) == [i \in DOMAIN s |-> s[i].turn]

Init ==
  /\ log = [c \in Chats |-> <<>>]
  /\ window = [c \in Chats |-> <<>>]

Place(s, t, ts) ==
  LET before == Cardinality({i \in DOMAIN s : s[i].ts <= ts})
  IN  SubSeq(s, 1, before) \o <<[turn |-> t, ts |-> ts]>> \o SubSeq(s, before + 1, Len(s))

Add(c, t, ts) ==
  /\ log' = [log EXCEPT ![c] = Place(@, t, ts)]
  /\ window' = [window EXCEPT ![c] = LastOf(TurnsIn(log'[c]), Limit)]

Next == \E c \in Chats, t \in Turns, ts \in Stamps : Add(c, t, ts)

Spec == Init /\ [][Next]_<<log, window>>
=============================================================================
