----------------------------- MODULE ChatCapture -----------------------------
(***************************************************************************)
(* Step 3 of `kayaclaw init`: agent/init/polling.py waits for a message to *)
(* the new bot, and cli.py's _step_chat_id shows whose it is and asks.     *)
(* Telegram's side of getUpdates is modelled from how polling.py uses it:  *)
(* a call may be answered, may fail before or after the server acted on    *)
(* it, and the person and others may write to the bot at any moment.       *)
(***************************************************************************)
EXTENDS Integers, Sequences, FiniteSets

CONSTANTS
  Chats,
  Deadline,     \* timeout_seconds, in units of _NETWORK_RETRY_SLEEP
  Slowest,      \* the longest turn of the loop, in the same units
  MaxUpdates    \* bound of the model: updates ever sent to the bot

ASSUME CaptureAssumption ==
  Deadline \in Nat /\ Slowest \in Nat \ {0} /\ MaxUpdates \in Nat

VARIABLES
  posted,      \* Telegram: every update sent to the bot, [chat, form]
  confirmed,   \* Telegram: updates up to this id are forgotten
  at,          \* where the wizard is
  offset,      \* _step_chat_id's offset
  local,       \* poll_for_chat_id's offset
  spent,       \* time since poll_for_chat_id was called
  shown,       \* updates whose chat id was shown to the person
  chat,        \* the chat id returned, or "none"
  stale,       \* updates sent before clear_backlog ran
  backlog,     \* updates up to this id were dropped by clear_backlog
  cleared      \* clear_backlog was answered

telegram == <<posted, confirmed>>
start == <<stale, backlog, cleared>>
vars == <<posted, confirmed, at, offset, local, spent, shown, chat, stale, backlog, cleared>>

Places == {"clear", "wait", "polling", "confirm", "ask", "manual", "done", "aborted", "crashed"}

Later(a, b) == IF a > b THEN a ELSE b

Init ==
  /\ posted = <<>> /\ confirmed = 0
  /\ at = "clear" /\ offset = 0 /\ local = 0 /\ spent = 0
  /\ shown = <<>> /\ chat = "none"
  /\ stale = 0 /\ backlog = 0 /\ cleared = FALSE

Send(c, form) ==
  /\ Len(posted) < MaxUpdates
  /\ posted' = Append(posted, [chat |-> c, form |-> form])
  /\ UNCHANGED <<confirmed, at, offset, local, spent, shown, chat, start>>
-----------------------------------------------------------------------------
(* clear_backlog: getUpdates(offset = -1) returns the last update and      *)
(* forgets those before it.                                                *)

(* Mutated form: the last update's own id is returned.                     *)
BugOffsetAfter(id) == id

(* The offset that asks for what comes after an update.                    *)
OffsetAfter(id) == id + 1

LeaveClear(to) ==
  /\ at = "clear" /\ at' = to
  /\ stale' = Len(posted)
  /\ UNCHANGED <<posted, local, spent, shown, chat>>

BacklogCleared ==
  /\ LeaveClear("wait")
  /\ cleared' = TRUE
  /\ \/ /\ confirmed < Len(posted)
        /\ confirmed' = Len(posted) - 1
        /\ offset' = OffsetAfter(Len(posted)) /\ backlog' = Len(posted)
     \/ /\ confirmed = Len(posted)
        /\ offset' = 0 /\ backlog' = confirmed /\ UNCHANGED confirmed

(* URLError, or a body that is not an ok answer: polling starts from 0;    *)
(* any other error leaves the wizard.                                      *)
BacklogUnanswered ==
  /\ LeaveClear("wait") \/ LeaveClear("crashed")
  /\ cleared' = FALSE
  /\ offset' = 0
  /\ confirmed' \in {confirmed, Later(confirmed, Len(posted) - 1)}
  /\ backlog' = confirmed'
-----------------------------------------------------------------------------
(* poll_for_chat_id                                                        *)

CallPoll ==
  /\ at = "wait" /\ at' = "polling"
  /\ local' = offset /\ spent' = 0
  /\ UNCHANGED <<telegram, offset, shown, chat, start>>

Acked == Later(confirmed, local - 1)

InTime == at = "polling" /\ spent < Deadline

(* Mutated form: an update that is no message advances the offset twice.   *)
BugAdvanced(u) == IF posted[u].form = "message" THEN u + 1 ELSE u + 2

(* Every update advances the offset.                                       *)
Advanced(u) == OffsetAfter(u)

(* getUpdates(offset = local, limit = 1)                                   *)
Receive ==
  /\ InTime
  /\ confirmed' = Acked /\ confirmed' < Len(posted)
  /\ \E d \in 0 .. Slowest : spent' = spent + d
  /\ LET u == confirmed' + 1
     IN  /\ local' = Advanced(u)
         /\ IF posted[u].form = "message"
            THEN at' = "confirm" /\ offset' = local' /\ shown' = Append(shown, u)
            ELSE UNCHANGED <<at, offset, shown>>
  /\ UNCHANGED <<posted, chat, start>>

(* Mutated form: the deadline is set again in every turn of the loop.      *)
BugPause == \E d \in 0 .. Slowest - 1 : spent' = d

(* sleep_fn(_NETWORK_RETRY_SLEEP), the deadline stays.                     *)
Pause == \E d \in 1 .. Slowest : spent' = spent + d

NothingYet ==
  /\ InTime
  /\ confirmed' = Acked /\ confirmed' = Len(posted)
  /\ Pause
  /\ UNCHANGED <<posted, at, offset, local, shown, chat, start>>

(* URLError, or a body that is not an ok answer.                           *)
NoAnswer ==
  /\ InTime
  /\ confirmed' \in {confirmed, Acked}
  /\ Pause
  /\ UNCHANGED <<posted, at, offset, local, shown, chat, start>>

(* urlopen wraps errors of the connection and the request in URLError, but *)
(* not those of reading the answer: TimeoutError, ConnectionResetError.    *)
AnswerBreaksOff ==
  /\ InTime
  /\ at' = "crashed"
  /\ confirmed' \in {confirmed, Acked}
  /\ UNCHANGED <<posted, offset, local, spent, shown, chat, start>>

PollTimeout ==
  /\ at = "polling" /\ spent >= Deadline
  /\ at' = "ask"
  /\ UNCHANGED <<telegram, offset, local, spent, shown, chat, start>>
-----------------------------------------------------------------------------
(* _step_chat_id                                                           *)

Answered(from, to) ==
  /\ at = from /\ at' = to
  /\ UNCHANGED <<telegram, offset, local, spent, shown, start>>

UseIt == Answered("confirm", "done") /\ chat' = posted[shown[Len(shown)]].chat
Discard == Answered("confirm", "wait") /\ UNCHANGED chat
WaitAgain == Answered("ask", "wait") /\ UNCHANGED chat
EnterManually == Answered("ask", "manual") /\ UNCHANGED chat
Typed(c) == Answered("manual", "done") /\ chat' = c

(* Ctrl-C while polling asks for the id; anywhere else it leaves the       *)
(* wizard through main.                                                    *)
Interrupt ==
  \/ Answered("polling", "ask") /\ UNCHANGED chat
  \/ \E from \in {"clear", "confirm", "ask", "manual"} :
       Answered(from, "aborted") /\ UNCHANGED chat

(* The wizard goes on without this step or has ended; people still write.  *)
Ended == at \in {"done", "aborted", "crashed"} /\ UNCHANGED vars

Turn == Receive \/ NothingYet \/ NoAnswer \/ AnswerBreaksOff \/ PollTimeout

Next ==
  \/ \E c \in Chats, form \in {"message", "other"} : Send(c, form)
  \/ BacklogCleared
  \/ BacklogUnanswered
  \/ CallPoll
  \/ Turn
  \/ UseIt
  \/ Discard
  \/ WaitAgain
  \/ EnterManually
  \/ \E c \in Chats : Typed(c)
  \/ Interrupt
  \/ Ended

Spec == Init /\ [][Next]_vars

(* The loop runs: every call of getUpdates ends, with an answer, an error  *)
(* or the socket's timeout.                                                *)
FairSpec == Spec /\ WF_vars(Turn)
-----------------------------------------------------------------------------
TypeOK ==
  /\ posted \in Seq([chat : Chats, form : {"message", "other"}]) /\ Len(posted) <= MaxUpdates
  /\ confirmed \in 0 .. Len(posted)
  /\ at \in Places
  /\ offset \in 0 .. Len(posted) + 1 /\ local \in 0 .. Len(posted) + 1
  /\ spent \in 0 .. Deadline + Slowest
  /\ shown \in Seq(1 .. Len(posted))
  /\ chat \in Chats \union {"none"}
  /\ stale \in 0 .. Len(posted) /\ backlog \in 0 .. Len(posted)
  /\ cleared \in BOOLEAN

(* A message is offered at most once: a rejected one never comes back,     *)
(* through timeouts, Ctrl-C, lost answers and new calls of                 *)
(* poll_for_chat_id with an older offset (polling.py 88-130, cli.py        *)
(* 316-337).                                                               *)
OfferedOnce == \A i, j \in DOMAIN shown : i < j => shown[i] < shown[j]

(* Telegram forgets no message sent after the backlog was cleared unless   *)
(* its sender was offered (polling.py 121-127).                            *)
NoMessageSkipped ==
  \A u \in DOMAIN posted :
    (at # "clear" /\ backlog < u /\ u <= confirmed /\ posted[u].form = "message") =>
      \E i \in DOMAIN shown : shown[i] = u

(* Once clear_backlog was answered, only messages sent since are offered   *)
(* (polling.py 64-78).                                                     *)
FreshAfterClear == cleared => \A i \in DOMAIN shown : shown[i] > stale

(* Every wait ends, whatever the network does: the deadline is not put off *)
(* by errors or by updates that are no messages (polling.py 106-130).      *)
WaitEnds == at = "polling" ~> at # "polling"

=============================================================================
