------------------------------ MODULE Dialogue ------------------------------
(***************************************************************************)
(* What the bot promises the person it talks to: one exchange at a time.   *)
(* An exchange starts when a message is heard; it is either answered, the  *)
(* answer being recorded before it is said and said at most once, or       *)
(* closed with one apology that is not recorded, or given up.  The record  *)
(* of the conversation only grows, across restarts too.                    *)
(***************************************************************************)
EXTENDS Integers, Sequences

CONSTANTS
  Chats,     \* who talks
  Updates    \* names of what they say

(* A text is known by the update it belongs to and by what it is.          *)
Message(u) == [of |-> u, kind |-> "message"]
Apology(u) == [of |-> u, kind |-> "apology"]
Answers == [of : Updates, kind : {"whole", "cut"}]

VARIABLES
  log,   \* every recorded turn: [chat, role, content]
  said,  \* everything said back, in order
  turn   \* "idle", "heard" or "answered": where the exchange is

vars == <<log, said, turn>>

Latest == log[Len(log)]

Init == log = <<>> /\ said = <<>> /\ turn = "idle"

Hear(c, u) ==
  /\ turn = "idle"
  /\ log' = Append(log, [chat |-> c, role |-> "user", content |-> Message(u)])
  /\ turn' = "heard"
  /\ UNCHANGED said

Answer(a) ==
  /\ turn = "heard"
  /\ a.of = Latest.content.of
  /\ log' = Append(log, [chat |-> Latest.chat, role |-> "assistant", content |-> a])
  /\ turn' = "answered"
  /\ UNCHANGED said

Say ==
  /\ turn = "answered"
  /\ said' = Append(said, Latest.content)
  /\ turn' = "idle"
  /\ UNCHANGED log

Apologise ==
  /\ turn = "heard"
  /\ said' = Append(said, Apology(Latest.content.of))
  /\ turn' = "idle"
  /\ UNCHANGED log

GiveUp == turn # "idle" /\ turn' = "idle" /\ UNCHANGED <<log, said>>

Next ==
  \/ \E c \in Chats, u \in Updates : Hear(c, u)
  \/ \E a \in Answers : Answer(a)
  \/ Say
  \/ Apologise
  \/ GiveUp

Spec == Init /\ [][Next]_vars
=============================================================================
