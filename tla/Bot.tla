--------------------------------- MODULE Bot ---------------------------------
(***************************************************************************)
(* The running agent: agent/connectors/telegram.py's handler over          *)
(* agent/runtime.py's provider chain and agent/memory.py's table, fed by   *)
(* Telegram's getUpdates through python-telegram-bot's updater, in a       *)
(* process that may be killed, stopped and started again.                  *)
(*                                                                         *)
(* A handler is one task per update with a program counter; what it does   *)
(* between two points where another step (or a kill) can fall is one       *)
(* action.  Updates are numbered in the order Telegram accepts them.       *)
(***************************************************************************)
EXTENDS TurnTable

CONSTANTS
  Chats,       \* chat ids that write to the bot
  Allowlist,   \* ALLOWED_TELEGRAM_CHAT_IDS
  Providers,   \* resolved providers
  Chain,       \* <<primary, fallback, ...>>
  Limit,       \* turns of history given to the LLM
  MaxUpdates,  \* bound of the model: updates ever sent to the bot
  MaxCrashes,  \* bound of the model: kills
  MaxStops,    \* bound of the model: graceful stops
  MaxTime      \* bound of the model: the clock

(* config.py 87-112 rejects a fallback that repeats another entry of the   *)
(* chain; Startup's ChainSound shows it of every agent that serves.        *)
ASSUME BotAssumption ==
  /\ Limit \in Nat \ {0}
  /\ MaxUpdates \in Nat /\ MaxCrashes \in Nat /\ MaxStops \in Nat /\ MaxTime \in Nat
  /\ Chain \in Seq(Providers) /\ Chain # <<>>
  /\ \A i, j \in DOMAIN Chain : Chain[i] = Chain[j] => i = j

VARIABLES
  posted,     \* Telegram: every update sent to the bot, [chat, form]
  confirmed,  \* Telegram: updates up to this id are forgotten
  up,         \* the process: "down", "up" or "stopping"
  fetched,    \* updater: id of the last update received in this life
  queue,      \* update_queue: fetched updates not yet dispatched
  pc,         \* pc[u]: where the task handling update u is
  hist,       \* hist[u]: the local variable history of that task
  attempts,   \* attempts[u]: providers that failed in that task
  out,        \* out[u]: reply_text, then outbound, of that task
  rows,       \* the turns table on disk
  clock,      \* int(time.time())
  wire,       \* everything the chats received
  outcome,    \* outcome[u]: how the last handling of u ended
  base,       \* rows on disk when this life started
  crashes, stops

telegram == <<posted, confirmed>>
updater == <<fetched, queue>>
tasks == <<pc, hist, attempts, out>>
counts == <<base, crashes, stops>>
vars == <<posted, confirmed, up, fetched, queue, pc, hist, attempts, out,
          rows, clock, wire, outcome, base, crashes, stops>>

Updates == 1 .. MaxUpdates
Forms == {"text", "other"}   \* other: a command, a photo, a sticker, ...

(* A text is known by the update it belongs to and by what it is: the      *)
(* user's message; a reply within Telegram's 4096 characters, over them,   *)
(* or cut to them; the status line.                                        *)
Message(u) == [of |-> u, kind |-> "message"]
Reply(u, k) == [of |-> u, kind |-> k]
StatusLine(u) == [of |-> u, kind |-> "apology"]
NoText == [of |-> 0, kind |-> "none"]

ChatOf(u) == posted[u].chat
Posted(u) == u <= Len(posted)

Running == {"received", "heard", "calling", "exhausted", "answered", "saved"}
Outcomes == {"none", "dropped", "replied", "apologised", "failed"}

Init ==
  /\ posted = <<>> /\ confirmed = 0
  /\ up = "down" /\ fetched = 0 /\ queue = <<>>
  /\ pc = [u \in Updates |-> "idle"]
  /\ hist = [u \in Updates |-> <<>>]
  /\ attempts = [u \in Updates |-> <<>>]
  /\ out = [u \in Updates |-> NoText]
  /\ rows = <<>> /\ clock = 0
  /\ wire = <<>> /\ outcome = [u \in Updates |-> "none"]
  /\ base = 0 /\ crashes = 0 /\ stops = 0
-----------------------------------------------------------------------------
(* Telegram and the updater (python-telegram-bot), as run_polling uses     *)
(* them.                                                                   *)

Post(c, form) ==
  /\ Len(posted) < MaxUpdates
  /\ posted' = Append(posted, [chat |-> c, form |-> form])
  /\ UNCHANGED <<confirmed, up, updater, tasks, rows, clock, wire, outcome, counts>>

Later(a, b) == IF a > b THEN a ELSE b

(* getUpdates(offset = fetched + 1): the server forgets what was received  *)
(* in this life and answers with everything after it.  The answer may be   *)
(* lost on the way; the updater then asks again with the same offset.      *)
Ask ==
  /\ up = "up"
  /\ confirmed' = Later(confirmed, fetched)

Poll ==
  /\ Ask
  /\ confirmed' < Len(posted)
  /\ queue' = queue \o [k \in 1 .. Len(posted) - confirmed' |-> confirmed' + k]
  /\ fetched' = Len(posted)
  /\ UNCHANGED <<posted, up, tasks, rows, clock, wire, outcome, counts>>

PollUnanswered ==
  /\ Ask
  /\ UNCHANGED <<posted, up, updater, tasks, rows, clock, wire, outcome, counts>>

(* SIGTERM: the updater stops first, with a last getUpdates that confirms  *)
(* what it received unless the call fails.                                 *)
Stop ==
  /\ up = "up" /\ stops < MaxStops
  /\ up' = "stopping" /\ stops' = stops + 1
  /\ confirmed' \in {confirmed, Later(confirmed, fetched)}
  /\ UNCHANGED <<posted, updater, tasks, rows, clock, wire, outcome, base, crashes>>
-----------------------------------------------------------------------------
(* Process life                                                            *)

(* Mutated form: run_polling(drop_pending_updates=True).                   *)
BugPending == Len(posted)

(* run_polling leaves what Telegram holds for the bot alone.               *)
Pending == confirmed

Boot ==
  /\ up = "down" /\ up' = "up"
  /\ rows' = OpenTable(rows) /\ base' = Len(rows')
  /\ confirmed' = Pending
  /\ UNCHANGED <<posted, updater, tasks, clock, wire, outcome, crashes, stops>>

(* What the process held in memory is gone.                                *)
LoseMemory ==
  /\ up' = "down"
  /\ fetched' = 0 /\ queue' = <<>>
  /\ pc' = [u \in Updates |-> "idle"]
  /\ hist' = [u \in Updates |-> <<>>]
  /\ attempts' = [u \in Updates |-> <<>>]
  /\ out' = [u \in Updates |-> NoText]
  /\ UNCHANGED <<telegram, rows, clock, wire, outcome, base>>

Crash ==
  /\ up # "down" /\ crashes < MaxCrashes
  /\ crashes' = crashes + 1
  /\ LoseMemory
  /\ UNCHANGED stops

NobodyRuns == \A u \in Updates : pc[u] = "idle"

(* Application.stop returns once the queue is empty and its last handler   *)
(* is done; then run_polling and main return.                              *)
Exit ==
  /\ up = "stopping" /\ queue = <<>> /\ NobodyRuns
  /\ LoseMemory
  /\ UNCHANGED <<crashes, stops>>

(* The host's wall clock goes on, or is set to another second.             *)
Tick ==
  /\ clock' \in 0 .. MaxTime /\ clock' # clock
  /\ UNCHANGED <<telegram, up, updater, tasks, rows, wire, outcome, counts>>
-----------------------------------------------------------------------------
(* The handler                                                             *)

(* Mutated form: ApplicationBuilder().concurrent_updates(True).            *)
BugMayDispatch == TRUE

(* The application is built without concurrent_updates: the next update is *)
(* taken when the handler of the one before has returned.                  *)
MayDispatch == NobodyRuns

Dispatch ==
  /\ up # "down" /\ queue # <<>> /\ MayDispatch
  /\ pc' = [pc EXCEPT ![Head(queue)] = "received"]
  /\ queue' = Tail(queue)
  /\ UNCHANGED <<telegram, up, fetched, hist, attempts, out, rows, clock, wire, outcome, counts>>

(* What a step of a task leaves alone.                                     *)
Quiet == UNCHANGED <<telegram, up, updater, clock, counts>>

(* The handler returns: its locals are gone.                               *)
Return(u, how) ==
  /\ pc' = [pc EXCEPT ![u] = "idle"]
  /\ hist' = [hist EXCEPT ![u] = <<>>]
  /\ attempts' = [attempts EXCEPT ![u] = <<>>]
  /\ out' = [out EXCEPT ![u] = NoText]
  /\ outcome' = [outcome EXCEPT ![u] = how]

(* Mutated form: the allowlist is not consulted.                           *)
BugWanted(u) == posted[u].form = "text"

(* filters.TEXT & ~filters.COMMAND, then _is_allowed.                      *)
Wanted(u) == posted[u].form = "text" /\ ChatOf(u) \in Allowlist

Ignore(u) ==
  /\ pc[u] = "received" /\ ~Wanted(u)
  /\ Return(u, "dropped")
  /\ Quiet /\ UNCHANGED <<rows, wire>>

AppendUser(u) ==
  /\ pc[u] = "received" /\ Wanted(u)
  /\ rows' = Insert(rows, ChatOf(u), clock, "user", Message(u))
  /\ pc' = [pc EXCEPT ![u] = "heard"]
  /\ Quiet /\ UNCHANGED <<hist, attempts, out, wire, outcome>>

ReadHistory(u) ==
  /\ pc[u] = "heard"
  /\ hist' = [hist EXCEPT ![u] = History(rows, ChatOf(u), Limit)]
  /\ pc' = [pc EXCEPT ![u] = "calling"]
  /\ Quiet /\ UNCHANGED <<attempts, out, rows, wire, outcome>>

(* reply_with_fallback: the provider being asked.                          *)
Asked(u) == Chain[Len(attempts[u]) + 1]

ProviderReplies(u, kind) ==
  /\ pc[u] = "calling"
  /\ out' = [out EXCEPT ![u] = Reply(u, kind)]
  /\ pc' = [pc EXCEPT ![u] = "answered"]
  /\ Quiet /\ UNCHANGED <<hist, attempts, rows, wire, outcome>>

(* Mutated form: the loop gives up one entry early.                        *)
BugLastAttempt(tried) == Len(tried) + 1 >= Len(Chain)

(* No entry of the chain is left to try.                                   *)
LastAttempt(tried) == Len(tried) = Len(Chain)

(* A failure moves on to the next entry; after the last one,               *)
(* AllProvidersFailed.  Without fallbacks reply's own exception goes       *)
(* through to the handler's except Exception.                              *)
ProviderFails(u) ==
  /\ pc[u] = "calling"
  /\ Quiet /\ UNCHANGED <<rows, wire>>
  /\ LET tried == Append(attempts[u], Asked(u))
     IN  \/ /\ Len(Chain) = 1
            /\ Return(u, "failed")
         \/ /\ Len(Chain) > 1
            /\ attempts' = [attempts EXCEPT ![u] = tried]
            /\ pc' = [pc EXCEPT ![u] = IF LastAttempt(tried) THEN "exhausted" ELSE @]
            /\ UNCHANGED <<hist, out, outcome>>

(* await message.reply_text: the message arrives or not, and apart from    *)
(* that the call returns or raises; it cannot return with nothing sent.    *)
ReplyText(u, text, how) ==
  \/ wire' = Append(wire, text) /\ Return(u, how)
  \/ wire' = Append(wire, text) /\ Return(u, "failed")
  \/ wire' = wire /\ Return(u, "failed")

SendStatus(u) ==
  /\ pc[u] = "exhausted"
  /\ ReplyText(u, StatusLine(u), "apologised")
  /\ Quiet /\ UNCHANGED rows

(* _truncate_for_telegram                                                  *)
Truncate(text) == IF text.kind = "over" THEN [text EXCEPT !.kind = "cut"] ELSE text

(* Mutated form: the full reply is stored, the cut one sent.               *)
BugAppendAssistant(u) ==
  /\ pc[u] = "answered"
  /\ rows' = Insert(rows, ChatOf(u), clock, "assistant", out[u])
  /\ out' = [out EXCEPT ![u] = Truncate(@)]
  /\ pc' = [pc EXCEPT ![u] = "saved"]
  /\ Quiet /\ UNCHANGED <<hist, attempts, wire, outcome>>

AppendAssistant(u) ==
  /\ pc[u] = "answered"
  /\ out' = [out EXCEPT ![u] = Truncate(@)]
  /\ rows' = Insert(rows, ChatOf(u), clock, "assistant", out'[u])
  /\ pc' = [pc EXCEPT ![u] = "saved"]
  /\ Quiet /\ UNCHANGED <<hist, attempts, wire, outcome>>

(* Mutated form: a send that raises is tried again.                        *)
BugSendReply(u) ==
  /\ pc[u] = "saved"
  /\ \/ ReplyText(u, out[u], "replied")
     \/ /\ Len(wire) < 4
        /\ wire' = Append(wire, out[u])
        /\ UNCHANGED <<tasks, outcome>>
  /\ Quiet /\ UNCHANGED rows

SendReply(u) ==
  /\ pc[u] = "saved"
  /\ ReplyText(u, out[u], "replied")
  /\ Quiet /\ UNCHANGED rows

(* sqlite3 raises from append or history (disk full, database locked):     *)
(* logged by the handler's except Exception, the loop goes on.             *)
StoreFails(u) ==
  /\ pc[u] \in {"received", "heard", "answered"}
  /\ pc[u] = "received" => Wanted(u)
  /\ Return(u, "failed")
  /\ Quiet /\ UNCHANGED <<rows, wire>>

Step(u) ==
  \/ Ignore(u)
  \/ AppendUser(u)
  \/ ReadHistory(u)
  \/ \E kind \in {"whole", "over"} : ProviderReplies(u, kind)
  \/ ProviderFails(u)
  \/ SendStatus(u)
  \/ AppendAssistant(u)
  \/ SendReply(u)
  \/ StoreFails(u)

Next ==
  \/ \E c \in Chats, form \in Forms : Post(c, form)
  \/ Poll
  \/ PollUnanswered
  \/ Stop
  \/ Boot
  \/ Crash
  \/ Exit
  \/ Tick
  \/ Dispatch
  \/ \E u \in Updates : Step(u)

Spec == Init /\ [][Next]_vars

(* The event loop keeps running what can run, the call to a provider and   *)
(* the call to Telegram end (their clients time out), and the container is *)
(* started again: by Docker after a kill or when its daemon or host is     *)
(* back, by a person after docker stop, which unless-stopped respects.     *)
(* Nobody has to write, to stop or to kill.                                *)
FairSpec ==
  /\ Spec
  /\ WF_vars(Poll)
  /\ WF_vars(Boot)
  /\ WF_vars(Exit)
  /\ WF_vars(Dispatch)
  /\ \A u \in Updates : WF_vars(Step(u))
=============================================================================
