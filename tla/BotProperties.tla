---------------------------- MODULE BotProperties ----------------------------
(***************************************************************************)
(* What must hold of the running agent (Bot.tla).                          *)
(***************************************************************************)
EXTENDS Bot

Texts == [of : Updates, kind : {"message", "whole", "over", "cut", "apology"}]
Turns == [role : Roles, content : Texts]

(* The values of the variables; a stored row is a message or a reply that  *)
(* fits, and the updater never runs ahead of Telegram.                     *)
TypeOK ==
  /\ posted \in Seq([chat : Chats, form : Forms]) /\ Len(posted) <= MaxUpdates
  /\ up \in {"down", "up", "stopping"}
  /\ confirmed \in 0 .. Len(posted) /\ fetched \in 0 .. Len(posted)
  /\ queue \in Seq(1 .. Len(posted))
  /\ pc \in [Updates -> Running \union {"idle"}]
  /\ hist \in [Updates -> Seq(Turns)]
  /\ attempts \in [Updates -> Seq(Providers)]
  /\ out \in [Updates -> Texts \union {NoText}]
  /\ rows \in Seq([chat : Chats, ts : 0 .. MaxTime, role : Roles, content : Texts])
  /\ clock \in 0 .. MaxTime
  /\ wire \in Seq(Texts)
  /\ outcome \in [Updates -> Outcomes]
  /\ base \in 0 .. Len(rows)
  /\ crashes \in 0 .. MaxCrashes /\ stops \in 0 .. MaxStops

InQueue(u) == \E k \in DOMAIN queue : queue[k] = u
UserRow(u, i) == rows[i].role = "user" /\ rows[i].content = Message(u)
AnswerRow(u, i) == rows[i].role = "assistant" /\ rows[i].content.of = u

(* One exchange at a time: each answer on record directly follows its own  *)
(* question, in the same chat, over any interleaving of the updater, the   *)
(* handlers, kills and restarts (telegram.py 122-149, 198-205).            *)
AnswersPaired ==
  \A i \in DOMAIN rows : rows[i].role = "assistant" =>
    /\ i > 1
    /\ UserRow(rows[i].content.of, i - 1)
    /\ rows[i - 1].chat = rows[i].chat

(* The bot as a whole keeps the abstract dialogue of Dialogue.tla: each    *)
(* step is a step of one exchange (said at most once, after it was         *)
(* recorded) or changes nothing that the person can see; no restart        *)
(* forgets a recorded turn.                                                *)
Exchange ==
  IF \E u \in Updates : pc[u] = "saved" THEN "answered"
  ELSE IF \E u \in Updates : pc[u] \in {"heard", "calling", "exhausted", "answered"}
       THEN "heard"
       ELSE "idle"

Record ==
  [i \in DOMAIN rows |->
     [chat |-> rows[i].chat, role |-> rows[i].role, content |-> rows[i].content]]

Abstract == INSTANCE Dialogue WITH log <- Record, said <- wire, turn <- Exchange

KeepsDialogue == Abstract!Spec

(* What a chat received is on disk in the form it was received: the status *)
(* line never is, a reply is, at no more than 4096 characters and in the   *)
(* update's own chat (telegram.py 128-149).                                *)
WireInMemory ==
  \A k \in DOMAIN wire :
    LET t == wire[k]
        stored == \E i \in DOMAIN rows :
                    /\ rows[i].role = "assistant" /\ rows[i].content = t
                    /\ rows[i].chat = ChatOf(t.of)
    IN  IF t.kind = "apology" THEN ~stored ELSE stored /\ t.kind \in {"whole", "cut"}

(* The turn of u as history hands it on.                                   *)
Question(u) == [role |-> "user", content |-> Message(u)]
EndsWith(h, turn) == h # <<>> /\ h[Len(h)] = turn

(* No turn of u's chat is stamped later than the row stored last: the      *)
(* clock was not set back since.                                           *)
InStampOrder(u) ==
  \A i \in RowsOf(rows, ChatOf(u)) : rows[i].ts <= rows[Len(rows)].ts

(* Read before the await, used after it: while a task waits for any        *)
(* provider of the chain, the history it hands over is what a read would   *)
(* return now; it ends with the task's own question, unless the clock was  *)
(* set back to before a turn of the chat (telegram.py 122-127, memory.py   *)
(* 33, 51).                                                                *)
ContextFresh ==
  \A u \in Updates : pc[u] = "calling" =>
    /\ hist[u] = History(rows, ChatOf(u), Limit)
    /\ InStampOrder(u) => EndsWith(hist[u], Question(u))

(* "Earlier turns first, most recent turn last": what the provider is      *)
(* given ends with the turn stored last, the question, whatever the clock  *)
(* did (docs/impl/PLAN-L3-memory.md 121; memory.py 33, 51).                *)
MostRecentLast ==
  \A u \in Updates : pc[u] = "calling" => EndsWith(hist[u], Question(u))

(* Chats off the allowlist and updates that are no text leave no row, get  *)
(* no message and reach no provider (telegram.py 115-120, 204).            *)
StrangersLeaveNoTrace ==
  \A u \in 1 .. Len(posted) :
    (posted[u].form # "text" \/ posted[u].chat \notin Allowlist) =>
      /\ pc[u] \in {"idle", "received"}
      /\ outcome[u] \in {"none", "dropped"}
      /\ \A i \in DOMAIN rows : rows[i].content.of # u
      /\ \A k \in DOMAIN wire : wire[k].of # u

(* The status line is for a used-up chain only: every provider of it has   *)
(* failed in this handling, in order, once (runtime.py 153-182).           *)
ChainInOrder ==
  \A u \in Updates :
    /\ Len(attempts[u]) <= Len(Chain)
    /\ attempts[u] = SubSeq(Chain, 1, Len(attempts[u]))
    /\ pc[u] = "calling" => Len(attempts[u]) < Len(Chain)
    /\ pc[u] = "exhausted" => attempts[u] = Chain /\ Len(Chain) > 1

(* In total a chat is told something about an update at most once for each *)
(* process life there has been, whatever reply_text raises: nothing is     *)
(* retried (telegram.py 136, 149).                                         *)
SaidOncePerLife ==
  \A u \in Updates :
    Cardinality({k \in DOMAIN wire : wire[k].of = u}) <= 1 + crashes + stops

(* Between two starts of the process, messages enter the record in the     *)
(* order Telegram accepted them (run_polling, one handler at a time).      *)
HeardInOrder ==
  \A i, j \in base + 1 .. Len(rows) :
    (i < j /\ rows[i].role = "user" /\ rows[j].role = "user") =>
      rows[i].content.of < rows[j].content.of

Held(u) == InQueue(u) \/ pc[u] # "idle"
Handled(u) == outcome[u] # "none"

(* Confirmed to Telegram, out of memory and never handled.                 *)
Lost(u) == u <= confirmed /\ up = "up" /\ ~Held(u) /\ ~Handled(u)

(* At Telegram still, in hand, or handled.                                 *)
Safe(u) == u > confirmed \/ Held(u) \/ Handled(u)

(* Only a kill loses messages: no step that is none, graceful stop, drain  *)
(* or restart, takes the last hold of a message that is not handled yet    *)
(* (telegram.py 205).                                                      *)
OnlyCrashesLose ==
  [][crashes' = crashes => \A u \in 1 .. Len(posted) : Safe(u) => Safe(u)']_vars

(* Every message is handled in the end, over graceful stops and restarts,  *)
(* unless a kill lost it after it was confirmed; one failing handler,      *)
(* provider or send never stops the loop (telegram.py 103-107, 152-156,    *)
(* 205).                                                                   *)
EveryUpdateHandled ==
  \A u \in Updates : Posted(u) ~> (Handled(u) \/ (Lost(u) /\ crashes > 0))
=============================================================================
