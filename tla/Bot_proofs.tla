----------------------------- MODULE Bot_proofs -----------------------------
(***************************************************************************)
(* Proofs about the running agent (Bot.tla, BotProperties.tla), for every  *)
(* value of its constants.  Each part states an invariant, shows that it   *)
(* is kept with the help of those before it, and ends in its theorems:     *)
(*   types and the chain; the exchanges on record; delivery; the order of  *)
(*   the questions; chats not on the list; what was said; the dialogue.    *)
(***************************************************************************)
EXTENDS BotProperties, TurnTable_proofs

Rows == [chat : Chats, ts : 0 .. MaxTime, role : Roles, content : Texts]

USE BotAssumption

LEMMA InitType == Init => TypeOK
  BY DEF Init, TypeOK, Updates, Running, Outcomes, Texts, NoText

(* What a returning handler leaves is of the right type.                   *)
LEMMA ReturnType ==
  ASSUME TypeOK, NEW u \in Updates, NEW how \in Outcomes, Return(u, how)
  PROVE  /\ pc' \in [Updates -> Running \union {"idle"}]
         /\ hist' \in [Updates -> Seq(Turns)]
         /\ attempts' \in [Updates -> Seq(Providers)]
         /\ out' \in [Updates -> Texts \union {NoText}]
         /\ outcome' \in [Updates -> Outcomes]
  BY DEF TypeOK, Return

(* Insert keeps the table a table.                                         *)
LEMMA InsertType ==
  ASSUME TypeOK, NEW chat \in Chats, NEW role \in Roles, NEW content \in Texts
  PROVE  /\ Insert(rows, chat, clock, role, content) \in Seq(Rows)
         /\ Len(Insert(rows, chat, clock, role, content)) = Len(rows) + 1
         /\ \A i \in 1 .. Len(rows) : Insert(rows, chat, clock, role, content)[i] = rows[i]
         /\ Insert(rows, chat, clock, role, content)[Len(rows) + 1] = Row(chat, clock, role, content)
  <1>1. rows \in Seq(Rows) /\ Row(chat, clock, role, content) \in Rows
    BY DEF TypeOK, Rows, Row
  <1>2. QED
    <2> HIDE DEF Rows
    <2>1. QED
      BY <1>1 DEF Insert

LEMMA PostType ==
  ASSUME TypeOK, NEW c \in Chats, NEW form \in Forms, Post(c, form)
  PROVE  TypeOK'
  <1>1. /\ posted' \in Seq([chat : Chats, form : Forms])
        /\ Len(posted') = Len(posted) + 1 /\ Len(posted') <= MaxUpdates
    BY DEF Post, TypeOK
  <1>2. queue' \in Seq(1 .. Len(posted'))
    <2>1. 1 .. Len(posted) \subseteq 1 .. Len(posted') /\ queue \in Seq(1 .. Len(posted))
      BY <1>1 DEF TypeOK
    <2>2. queue \in Seq(1 .. Len(posted'))
      BY <2>1, SeqMonotonic
    <2>3. QED
      BY <2>2 DEF Post, updater
  <1>3. confirmed' \in 0 .. Len(posted') /\ fetched' \in 0 .. Len(posted')
    BY <1>1 DEF Post, TypeOK, updater
  <1>4. QED
    BY <1>1, <1>2, <1>3 DEF Post, TypeOK, updater, tasks, counts

LEMMA PollType == TypeOK /\ Poll => TypeOK'
  <1> SUFFICES ASSUME TypeOK, Poll PROVE TypeOK'
    OBVIOUS
  <1>1. /\ posted' = posted /\ confirmed' \in 0 .. Len(posted) /\ confirmed' < Len(posted)
        /\ fetched' = Len(posted) /\ Len(posted) \in Nat
    BY DEF Poll, Ask, Later, TypeOK
  <1> DEFINE S == 1 .. Len(posted)
             n == Len(posted) - confirmed'
             batch == [k \in 1 .. n |-> confirmed' + k]
  <1>2. n \in Nat /\ batch \in [1 .. n -> S]
    BY <1>1
  <1>3. batch \in Seq(S)
    <2> HIDE DEF n, batch, S
    <2>1. QED
      BY <1>2, FunctionIsSeq
  <1>4. queue' \in Seq(S)
    <2>1. queue \in Seq(S) /\ queue' = queue \o batch
      BY DEF TypeOK, Poll
    <2> HIDE DEF S, batch
    <2>2. QED
      BY <1>3, <2>1, ConcatProperties
  <1>5. queue' \in Seq(1 .. Len(posted'))
    BY <1>1, <1>4
  <1>6. confirmed' \in 0 .. Len(posted') /\ fetched' \in 0 .. Len(posted')
    BY <1>1
  <1> HIDE DEF S, n, batch
  <1>7. QED
    BY <1>1, <1>5, <1>6 DEF Poll, TypeOK, tasks, counts

LEMMA OutsideType ==
  TypeOK /\ (PollUnanswered \/ Stop \/ Tick) => TypeOK'
  <1> SUFFICES ASSUME TypeOK, PollUnanswered \/ Stop \/ Tick PROVE TypeOK'
    OBVIOUS
  <1>1. CASE PollUnanswered
    BY <1>1 DEF TypeOK, PollUnanswered, Ask, Later, updater, tasks, counts
  <1>2. CASE Stop
    BY <1>2 DEF TypeOK, Stop, Later, updater, tasks
  <1>3. CASE Tick
    BY <1>3 DEF TypeOK, Tick, telegram, updater, tasks, counts
  <1>4. QED
    BY <1>1, <1>2, <1>3

LEMMA LifeType ==
  TypeOK /\ (Boot \/ Crash \/ Exit) => TypeOK'
  <1> SUFFICES ASSUME TypeOK, Boot \/ Crash \/ Exit PROVE TypeOK'
    OBVIOUS
  <1>1. CASE Boot
    BY <1>1 DEF TypeOK, Boot, OpenTable, Pending, updater, tasks
  <1>2. ASSUME LoseMemory, crashes' \in 0 .. MaxCrashes, stops' \in 0 .. MaxStops
        PROVE  TypeOK'
    BY <1>2 DEF TypeOK, LoseMemory, telegram, NoText
  <1>3. CASE Crash
    BY <1>2, <1>3 DEF Crash, TypeOK
  <1>4. CASE Exit
    BY <1>2, <1>4 DEF Exit, TypeOK
  <1>5. QED
    BY <1>1, <1>3, <1>4

LEMMA DispatchType == TypeOK /\ Dispatch => TypeOK'
  <1> SUFFICES ASSUME TypeOK, Dispatch PROVE TypeOK'
    OBVIOUS
  <1>1. queue \in Seq(1 .. Len(posted)) /\ queue # <<>>
    BY DEF TypeOK, Dispatch
  <1>2. Head(queue) \in 1 .. Len(posted) /\ Tail(queue) \in Seq(1 .. Len(posted))
    BY <1>1, HeadTailProperties
  <1>3. pc' \in [Updates -> Running \union {"idle"}]
    BY <1>2 DEF TypeOK, Dispatch, Updates, Running
  <1>4. QED
    BY <1>2, <1>3 DEF TypeOK, Dispatch, telegram, counts

LEMMA RowsAreTable ==
  ASSUME TypeOK
  PROVE  /\ IsTable(rows)
         /\ rows \in Seq(Rows)
         /\ \A i \in DOMAIN rows : rows[i] \in Rows
  <1>1. rows \in Seq(Rows)
    BY DEF TypeOK, Rows
  <1>2. Len(rows) \in Nat /\ DOMAIN rows = 1 .. Len(rows) /\ \A i \in DOMAIN rows : rows[i] \in Rows
    <2> HIDE DEF Rows
    <2>1. QED
      BY <1>1
  <1>3. \A i \in DOMAIN rows : rows[i].ts \in Int
    BY <1>2 DEF Rows, TypeOK
  <1>4. QED
    BY <1>1, <1>2, <1>3 DEF IsTable

LEMMA ReadHistoryType ==
  ASSUME TypeOK, NEW u \in Updates
  PROVE  History(rows, ChatOf(u), Limit) \in Seq(Turns)
  <1>1. \A i \in DOMAIN rows : rows[i].role \in Roles /\ rows[i].content \in Texts
    BY RowsAreTable DEF Rows
  <1>2. QED
    BY <1>1, RowsAreTable, HistoryType DEF Turns

(* A task runs only for an update that was sent.                           *)
RunningPosted ==
  \A u \in Updates : pc[u] # "idle" => u <= Len(posted)

(* What a task is about to store or send is its own reply.                 *)
OutIsOwnReply ==
  \A u \in Updates :
    /\ pc[u] = "answered" => out[u] \in [of : {u}, kind : {"whole", "over"}]
    /\ pc[u] = "saved" => out[u] \in [of : {u}, kind : {"whole", "cut"}]

(* A task that has not asked a provider yet has no failed attempt.         *)
NoAttemptYet ==
  \A u \in Updates : pc[u] \in {"idle", "received", "heard"} => attempts[u] = <<>>

Typed == TypeOK /\ RunningPosted /\ OutIsOwnReply /\ NoAttemptYet /\ ChainInOrder

LEMMA ChatKnown ==
  ASSUME Typed, NEW u \in Updates, pc[u] # "idle"
  PROVE  u \in 1 .. Len(posted) /\ ChatOf(u) \in Chats
  <1>1. posted \in Seq([chat : Chats, form : Forms])
    BY DEF Typed, TypeOK
  <1>2. u \in 1 .. Len(posted)
    BY <1>1 DEF Typed, TypeOK, RunningPosted, Updates
  <1>3. posted[u] \in [chat : Chats, form : Forms]
    BY <1>1, <1>2, ElementOfSeq
  <1>4. QED
    BY <1>2, <1>3 DEF ChatOf

(* What AppendAssistant stores is a reply that fits.                       *)
LEMMA TruncateFits ==
  ASSUME NEW u, NEW t \in [of : {u}, kind : {"whole", "over"}]
  PROVE  Truncate(t) \in [of : {u}, kind : {"whole", "cut"}]
  BY DEF Truncate

LEMMA AppendAssistantType ==
  ASSUME Typed, NEW u \in Updates, AppendAssistant(u)
  PROVE  TypeOK' /\ out'[u] \in [of : {u}, kind : {"whole", "cut"}]
  <1>1. out[u] \in [of : {u}, kind : {"whole", "over"}]
    BY DEF Typed, OutIsOwnReply, AppendAssistant
  <1>2. out'[u] = Truncate(out[u])
    BY DEF Typed, TypeOK, AppendAssistant
  <1>3. out'[u] \in [of : {u}, kind : {"whole", "cut"}]
    BY <1>1, <1>2, TruncateFits
  <1>4. out'[u] \in Texts /\ ChatOf(u) \in Chats /\ "assistant" \in Roles
    BY <1>3, ChatKnown DEF AppendAssistant, Texts, Roles
  <1>5. rows' \in Seq(Rows) /\ Len(rows') = Len(rows) + 1
    BY <1>4, InsertType DEF AppendAssistant, Typed
  <1>6. out' \in [Updates -> Texts \union {NoText}]
    BY <1>2, <1>4 DEF AppendAssistant, Typed, TypeOK
  <1>7. TypeOK'
    BY <1>5, <1>6 DEF AppendAssistant, Quiet, Typed, TypeOK, telegram, updater, counts, Running, Rows
  <1>8. QED
    BY <1>3, <1>7

LEMMA ProviderFailsType ==
  ASSUME Typed, NEW u \in Updates, ProviderFails(u)
  PROVE  TypeOK'
  <1> DEFINE tried == Append(attempts[u], Asked(u))
  <1>1. CASE Return(u, "failed")
    BY <1>1, ReturnType DEF ProviderFails, Outcomes, Quiet, Typed, TypeOK, telegram, updater, counts
  <1>2. CASE /\ attempts' = [attempts EXCEPT ![u] = tried]
             /\ pc' = [pc EXCEPT ![u] = IF LastAttempt(tried) THEN "exhausted" ELSE @]
             /\ UNCHANGED <<hist, out, outcome>>
    <2>1. tried \in Seq(Providers)
      <3>1. attempts[u] \in Seq(Providers) /\ Len(attempts[u]) < Len(Chain)
        BY DEF Typed, TypeOK, ChainInOrder, ProviderFails
      <3>2. Asked(u) \in Providers
        BY <3>1, ElementOfSeq DEF Asked
      <3>3. QED
        BY <3>1, <3>2
    <2>2. QED
      BY <1>2, <2>1 DEF ProviderFails, Quiet, Typed, TypeOK, telegram, updater, counts, Running
  <1>3. QED
    BY <1>1, <1>2 DEF ProviderFails

LEMMA ReplyTextType ==
  ASSUME TypeOK, NEW u \in Updates, NEW text \in Texts, NEW how \in Outcomes,
         ReplyText(u, text, how), Quiet, UNCHANGED rows
  PROVE  TypeOK'
  <1>1. Return(u, how) \/ Return(u, "failed")
    BY DEF ReplyText
  <1>2. wire \in Seq(Texts) /\ (wire' = Append(wire, text) \/ wire' = wire)
    BY DEF ReplyText, TypeOK
  <1>3. wire' \in Seq(Texts)
    <2>1. Append(wire, text) \in Seq(Texts)
      BY <1>2, AppendProperties
    <2>2. QED
      BY <1>2, <2>1
  <1>4. QED
    BY <1>1, <1>3, ReturnType DEF Outcomes, Quiet, TypeOK, telegram, updater, counts

LEMMA StepType ==
  ASSUME Typed, NEW u \in Updates, Step(u)
  PROVE  TypeOK'
  <1>0. TypeOK
    BY DEF Typed
  <1>1. CASE Ignore(u)
    BY <1>0, <1>1, ReturnType DEF Ignore, Outcomes, Quiet, TypeOK, telegram, updater, counts
  <1>2. CASE AppendUser(u)
    <2>1. Message(u) \in Texts /\ ChatOf(u) \in Chats /\ "user" \in Roles
      BY <1>2, ChatKnown DEF AppendUser, Message, Texts, Roles
    <2>2. rows' \in Seq(Rows) /\ Len(rows') = Len(rows) + 1
      BY <1>0, <1>2, <2>1, InsertType DEF AppendUser
    <2>3. QED
      BY <1>0, <1>2, <2>2 DEF AppendUser, Quiet, TypeOK, telegram, updater, counts, Running, Rows
  <1>3. CASE ReadHistory(u)
    BY <1>0, <1>3, ReadHistoryType DEF ReadHistory, Quiet, TypeOK, telegram, updater, counts, Running
  <1>4. ASSUME NEW kind \in {"whole", "over"}, ProviderReplies(u, kind) PROVE TypeOK'
    BY <1>0, <1>4 DEF ProviderReplies, Reply, Texts, Quiet, TypeOK, telegram, updater, counts, Running
  <1>5. CASE ProviderFails(u)
    BY <1>5, ProviderFailsType
  <1>6. CASE SendStatus(u)
    BY <1>0, <1>6, ReplyTextType DEF SendStatus, StatusLine, Texts, Outcomes
  <1>7. CASE AppendAssistant(u)
    BY <1>7, AppendAssistantType
  <1>8. CASE SendReply(u)
    <2>1. out[u] \in Texts
      BY <1>8 DEF SendReply, Typed, OutIsOwnReply, Texts
    <2>2. QED
      BY <1>0, <1>8, <2>1, ReplyTextType DEF SendReply, Outcomes
  <1>9. CASE StoreFails(u)
    BY <1>0, <1>9, ReturnType DEF StoreFails, Outcomes, Quiet, TypeOK, telegram, updater, counts
  <1>10. QED
    BY <1>1, <1>2, <1>3, <1>4, <1>5, <1>6, <1>7, <1>8, <1>9 DEF Step

-----------------------------------------------------------------------------
(* The locals of the tasks, action by action.                              *)
Locals == RunningPosted /\ OutIsOwnReply /\ NoAttemptYet /\ ChainInOrder

(* A step that touches no task keeps what is known of the tasks.           *)
LEMMA OutsideKeepsLocals ==
  ASSUME Typed, UNCHANGED tasks, Len(posted') >= Len(posted), Len(posted') \in Nat
  PROVE  Locals'
  <1>1. pc' = pc /\ out' = out /\ attempts' = attempts
    BY DEF tasks
  <1>2. Len(posted) \in Nat /\ \A u \in Updates : u \in Nat
    BY DEF Typed, TypeOK, Updates
  <1>3. RunningPosted'
    BY <1>1, <1>2 DEF Typed, RunningPosted
  <1>4. OutIsOwnReply'
    BY <1>1 DEF Typed, OutIsOwnReply
  <1>5. NoAttemptYet'
    BY <1>1 DEF Typed, NoAttemptYet
  <1>6. ChainInOrder'
    BY <1>1 DEF Typed, ChainInOrder
  <1>7. QED
    BY <1>3, <1>4, <1>5, <1>6 DEF Locals

LEMMA NoAttemptIsInOrder ==
  /\ SubSeq(Chain, 1, 0) = <<>>
  /\ Len(<<>>) = 0 /\ 0 < Len(Chain) /\ Len(Chain) \in Nat
  BY SubSeqEmpty, EmptySeq, LenProperties

LEMMA IdleLocals ==
  ASSUME pc = [u \in Updates |-> "idle"], attempts = [u \in Updates |-> <<>>]
  PROVE  Locals
  BY NoAttemptIsInOrder DEF Locals, RunningPosted, OutIsOwnReply, NoAttemptYet, ChainInOrder

(* A step of one task only: what has to be shown of it.                    *)
LEMMA OneTaskKeepsLocals ==
  ASSUME Typed, NEW u \in Updates, UNCHANGED posted, u <= Len(posted),
         \A v \in Updates \ {u} : pc'[v] = pc[v] /\ out'[v] = out[v] /\ attempts'[v] = attempts[v],
         pc'[u] = "answered" => out'[u] \in [of : {u}, kind : {"whole", "over"}],
         pc'[u] = "saved" => out'[u] \in [of : {u}, kind : {"whole", "cut"}],
         pc'[u] \in {"idle", "received", "heard"} => attempts'[u] = <<>>,
         Len(attempts'[u]) <= Len(Chain),
         attempts'[u] = SubSeq(Chain, 1, Len(attempts'[u])),
         pc'[u] = "calling" => Len(attempts'[u]) < Len(Chain),
         pc'[u] = "exhausted" => attempts'[u] = Chain /\ Len(Chain) > 1
  PROVE  Locals'
  <1> SUFFICES ASSUME NEW v \in Updates
               PROVE  /\ pc'[v] # "idle" => v <= Len(posted)
                      /\ pc'[v] = "answered" => out'[v] \in [of : {v}, kind : {"whole", "over"}]
                      /\ pc'[v] = "saved" => out'[v] \in [of : {v}, kind : {"whole", "cut"}]
                      /\ pc'[v] \in {"idle", "received", "heard"} => attempts'[v] = <<>>
                      /\ Len(attempts'[v]) <= Len(Chain)
                      /\ attempts'[v] = SubSeq(Chain, 1, Len(attempts'[v]))
                      /\ pc'[v] = "calling" => Len(attempts'[v]) < Len(Chain)
                      /\ pc'[v] = "exhausted" => attempts'[v] = Chain /\ Len(Chain) > 1
    BY DEF Locals, RunningPosted, OutIsOwnReply, NoAttemptYet, ChainInOrder
  <1>1. CASE v = u
    BY <1>1
  <1>2. CASE v # u
    <2>1. pc'[v] = pc[v] /\ out'[v] = out[v] /\ attempts'[v] = attempts[v]
      BY <1>2
    <2>2. QED
      BY <2>1 DEF Typed, RunningPosted, OutIsOwnReply, NoAttemptYet, ChainInOrder
  <1>3. QED
    BY <1>1, <1>2

LEMMA ReturnLocals ==
  ASSUME Typed, NEW u \in Updates, NEW how, pc[u] # "idle", Return(u, how), UNCHANGED posted
  PROVE  Locals'
  <1>1. /\ pc'[u] = "idle" /\ attempts'[u] = <<>>
        /\ \A v \in Updates \ {u} : pc'[v] = pc[v] /\ out'[v] = out[v] /\ attempts'[v] = attempts[v]
    BY DEF Return, Typed, TypeOK
  <1>2. u <= Len(posted)
    BY DEF Typed, RunningPosted
  <1>3. Len(attempts'[u]) <= Len(Chain) /\ attempts'[u] = SubSeq(Chain, 1, Len(attempts'[u]))
    BY <1>1, NoAttemptIsInOrder
  <1>4. QED
    BY <1>1, <1>2, <1>3, OneTaskKeepsLocals

LEMMA ProviderFailsLocals ==
  ASSUME Typed, NEW u \in Updates, ProviderFails(u)
  PROVE  Locals'
  <1> DEFINE old == attempts[u]
             tried == Append(old, Asked(u))
  <1>1. pc[u] = "calling" /\ UNCHANGED posted /\ u <= Len(posted)
    BY DEF ProviderFails, Quiet, telegram, Typed, RunningPosted
  <1>2. CASE Return(u, "failed")
    BY <1>1, <1>2, ReturnLocals
  <1>3. CASE /\ Len(Chain) > 1
             /\ attempts' = [attempts EXCEPT ![u] = tried]
             /\ pc' = [pc EXCEPT ![u] = IF LastAttempt(tried) THEN "exhausted" ELSE @]
             /\ UNCHANGED <<hist, out, outcome>>
    <2>1. /\ old \in Seq(Providers) /\ Len(old) \in Nat /\ Len(old) < Len(Chain)
          /\ old = SubSeq(Chain, 1, Len(old))
      BY <1>1 DEF Typed, TypeOK, ChainInOrder
    <2>2. Asked(u) = Chain[Len(old) + 1] /\ Asked(u) \in Providers
      BY <2>1, ElementOfSeq DEF Asked
    <2>3. tried \in Seq(Providers) /\ Len(tried) = Len(old) + 1
      BY <2>1, <2>2, AppendProperties
    <2>4. tried = SubSeq(Chain, 1, Len(tried))
      <3>1. SubSeq(Chain, 1, Len(old) + 1) \in Seq(Providers) /\ Len(SubSeq(Chain, 1, Len(old) + 1)) = Len(old) + 1
        BY <2>1
      <3>2. \A i \in 1 .. Len(old) + 1 : tried[i] = SubSeq(Chain, 1, Len(old) + 1)[i]
        BY <2>1, <2>2
      <3>3. QED
        BY <2>3, <3>1, <3>2, SeqEqual
    <2>5. LastAttempt(tried) => tried = Chain
      BY <2>4, SubSeqFull DEF LastAttempt
    <2>6. /\ attempts'[u] = tried
          /\ pc'[u] = IF LastAttempt(tried) THEN "exhausted" ELSE "calling"
          /\ \A v \in Updates \ {u} : pc'[v] = pc[v] /\ out'[v] = out[v] /\ attempts'[v] = attempts[v]
      BY <1>1, <1>3 DEF Typed, TypeOK
    <2>7. Len(tried) <= Len(Chain) /\ (~LastAttempt(tried) => Len(tried) < Len(Chain))
      BY <2>1, <2>3 DEF LastAttempt
    <2> HIDE DEF tried
    <2>8. QED
      BY <1>1, <1>3, <2>4, <2>5, <2>6, <2>7, OneTaskKeepsLocals
  <1>4. QED
    BY <1>2, <1>3 DEF ProviderFails

LEMMA StepLocals ==
  ASSUME Typed, NEW u \in Updates, Step(u)
  PROVE  Locals'
  <1>0. /\ pc[u] # "idle" /\ UNCHANGED posted
        /\ (pc[u] # "idle" => u <= Len(posted))
    BY DEF Step, Ignore, AppendUser, ReadHistory, ProviderReplies, ProviderFails, SendStatus,
           AppendAssistant, SendReply, StoreFails, Quiet, telegram, Typed, RunningPosted
  <1>1. ASSUME NEW how, Return(u, how) PROVE Locals'
    BY <1>0, <1>1, ReturnLocals
  <1>2. CASE AppendUser(u) \/ ReadHistory(u)
    <2>1. /\ pc'[u] \in {"heard", "calling"} /\ attempts[u] = <<>> /\ attempts' = attempts
          /\ \A v \in Updates \ {u} : pc'[v] = pc[v] /\ out'[v] = out[v] /\ attempts'[v] = attempts[v]
      BY <1>2 DEF AppendUser, ReadHistory, Typed, TypeOK, NoAttemptYet
    <2>2. attempts'[u] = <<>>
      BY <2>1
    <2>3. Len(attempts'[u]) < Len(Chain) /\ Len(attempts'[u]) <= Len(Chain)
      BY <2>2, NoAttemptIsInOrder
    <2>4. attempts'[u] = SubSeq(Chain, 1, Len(attempts'[u]))
      BY <2>2, NoAttemptIsInOrder
    <2>5. QED
      BY <1>0, <2>1, <2>2, <2>3, <2>4, OneTaskKeepsLocals
  <1>3. ASSUME NEW kind \in {"whole", "over"}, ProviderReplies(u, kind) PROVE Locals'
    <2>1. /\ pc'[u] = "answered" /\ attempts' = attempts /\ out'[u] = Reply(u, kind)
          /\ \A v \in Updates \ {u} : pc'[v] = pc[v] /\ out'[v] = out[v] /\ attempts'[v] = attempts[v]
      BY <1>3 DEF ProviderReplies, Typed, TypeOK
    <2>2. out'[u] \in [of : {u}, kind : {"whole", "over"}]
      BY <2>1 DEF Reply
    <2>3. Len(attempts[u]) <= Len(Chain) /\ attempts[u] = SubSeq(Chain, 1, Len(attempts[u]))
      BY DEF Typed, ChainInOrder
    <2>4. QED
      BY <1>0, <2>1, <2>2, <2>3, OneTaskKeepsLocals
  <1>4. CASE AppendAssistant(u)
    <2>1. /\ pc'[u] = "saved" /\ attempts' = attempts
          /\ \A v \in Updates \ {u} : pc'[v] = pc[v] /\ out'[v] = out[v] /\ attempts'[v] = attempts[v]
      BY <1>4 DEF AppendAssistant, Typed, TypeOK
    <2>2. Len(attempts[u]) <= Len(Chain) /\ attempts[u] = SubSeq(Chain, 1, Len(attempts[u]))
      BY DEF Typed, ChainInOrder
    <2>3. QED
      BY <1>0, <1>4, <2>1, <2>2, AppendAssistantType, OneTaskKeepsLocals
  <1>5. CASE ProviderFails(u)
    BY <1>5, ProviderFailsLocals
  <1>6. QED
    BY <1>1, <1>2, <1>3, <1>4, <1>5 DEF Step, Ignore, SendStatus, SendReply, ReplyText, StoreFails

LEMMA DispatchLocals ==
  ASSUME Typed, Dispatch, NEW u \in Updates, u = Head(queue), u <= Len(posted)
  PROVE  Locals'
  <1>1. /\ pc'[u] = "received" /\ attempts' = attempts /\ attempts[u] = <<>> /\ UNCHANGED posted
        /\ \A v \in Updates \ {u} : pc'[v] = pc[v] /\ out'[v] = out[v] /\ attempts'[v] = attempts[v]
    BY DEF Dispatch, telegram, Typed, TypeOK, NoAttemptYet, MayDispatch, NobodyRuns
  <1>2. /\ attempts'[u] = <<>>
        /\ Len(attempts'[u]) <= Len(Chain) /\ attempts'[u] = SubSeq(Chain, 1, Len(attempts'[u]))
    BY <1>1, NoAttemptIsInOrder
  <1>3. QED
    BY <1>1, <1>2, OneTaskKeepsLocals

LEMMA QueuedPosted ==
  ASSUME Typed, Dispatch
  PROVE  Head(queue) \in Updates /\ Head(queue) <= Len(posted)
  <1>1. queue \in Seq(1 .. Len(posted)) /\ queue # <<>>
    BY DEF Typed, TypeOK, Dispatch
  <1>2. Head(queue) \in 1 .. Len(posted)
    BY <1>1, HeadTailProperties
  <1>3. QED
    BY <1>2 DEF Typed, TypeOK, Updates

(* Typed is inductive.                                                     *)
LEMMA TypedInit == Init => Typed
  <1>1. Init => Locals
    BY IdleLocals DEF Init
  <1>2. QED
    BY <1>1, InitType DEF Typed, Locals

LEMMA TypedNext == Typed /\ [Next]_vars => Typed'
  <1> SUFFICES ASSUME Typed, [Next]_vars PROVE TypeOK' /\ Locals'
    BY DEF Typed, Locals
  <1>0. TypeOK /\ Len(posted) \in Nat
    BY DEF Typed, TypeOK
  <1>1. CASE \E c \in Chats, form \in Forms : Post(c, form)
    <2>1. UNCHANGED tasks /\ Len(posted') = Len(posted) + 1
      BY <1>0, <1>1 DEF Post, TypeOK
    <2>2. QED
      BY <1>0, <1>1, <2>1, PostType, OutsideKeepsLocals
  <1>2. CASE Poll
    BY <1>0, <1>2, PollType, OutsideKeepsLocals DEF Poll
  <1>3. CASE PollUnanswered \/ Stop \/ Tick
    <2>1. UNCHANGED tasks /\ UNCHANGED posted
      BY <1>3 DEF PollUnanswered, Stop, Tick, telegram
    <2>2. QED
      BY <1>0, <1>3, <2>1, OutsideType, OutsideKeepsLocals
  <1>4. CASE Boot
    BY <1>0, <1>4, LifeType, OutsideKeepsLocals DEF Boot
  <1>5. CASE Crash \/ Exit
    <2>1. pc' = [u \in Updates |-> "idle"] /\ attempts' = [u \in Updates |-> <<>>]
      BY <1>5 DEF Crash, Exit, LoseMemory
    <2>2. Locals'
      BY <2>1, NoAttemptIsInOrder DEF Locals, RunningPosted, OutIsOwnReply, NoAttemptYet, ChainInOrder
    <2>3. QED
      BY <1>0, <1>5, <2>2, LifeType
  <1>6. CASE Dispatch
    BY <1>0, <1>6, DispatchType, QueuedPosted, DispatchLocals
  <1>7. CASE \E u \in Updates : Step(u)
    BY <1>7, StepType, StepLocals
  <1>8. CASE UNCHANGED vars
    <2>1. UNCHANGED tasks /\ UNCHANGED posted /\ TypeOK'
      BY <1>0, <1>8 DEF vars, tasks, TypeOK
    <2>2. QED
      BY <1>0, <2>1, OutsideKeepsLocals
  <1>9. QED
    BY <1>1, <1>2, <1>3, <1>4, <1>5, <1>6, <1>7, <1>8 DEF Next

(* Every variable keeps its type: rows on disk hold turns of known chats,  *)
(* the updater's offset never runs ahead of Telegram (telegram.py 87-205,  *)
(* runtime.py 131-182).                                                    *)
THEOREM TypeCorrect == Spec => []TypeOK
  <1>1. Typed => TypeOK
    BY DEF Typed
  <1>2. QED
    BY <1>1, TypedInit, TypedNext, PTL DEF Spec

(* In every handling the providers are asked in the order of the chain,    *)
(* each at most once, and the status line comes only after all of them     *)
(* failed, whatever else the process is doing (runtime.py 153-182).        *)
THEOREM ChainCorrect == Spec => []ChainInOrder
  <1>1. Typed => ChainInOrder
    BY DEF Typed
  <1>2. QED
    BY <1>1, TypedInit, TypedNext, PTL DEF Spec

-----------------------------------------------------------------------------
(* The exchange: what a running task may rely on.                          *)

OneAtATime ==
  \A u, v \in Updates : pc[u] # "idle" /\ pc[v] # "idle" => u = v

(* Until it stores its reply, the last row of the table is the task's own  *)
(* question; from then until it returns, its own reply.                    *)
OpenExchange ==
  \A u \in Updates :
    /\ pc[u] \in {"heard", "calling", "exhausted", "answered"} =>
         /\ Len(rows) > 0
         /\ UserRow(u, Len(rows)) /\ rows[Len(rows)].chat = ChatOf(u)
    /\ pc[u] = "saved" =>
         /\ Len(rows) > 0
         /\ rows[Len(rows)].role = "assistant" /\ rows[Len(rows)].content = out[u]
         /\ rows[Len(rows)].chat = ChatOf(u)

Exchanges == OneAtATime /\ OpenExchange /\ AnswersPaired /\ ContextFresh

(* Telegram numbers updates once and for all.                              *)
PostedGrows ==
  /\ Len(posted') >= Len(posted)
  /\ \A u \in 1 .. Len(posted) : posted'[u] = posted[u]

(* A step that leaves the table alone and only ends tasks keeps the        *)
(* exchanges in order.                                                     *)
LEMMA EndingKeepsExchanges ==
  ASSUME Typed, Typed', Exchanges, UNCHANGED rows, PostedGrows,
         \A u \in Updates : \/ pc'[u] = "idle"
                            \/ pc'[u] = pc[u] /\ hist'[u] = hist[u] /\ out'[u] = out[u]
  PROVE  Exchanges'
  <1>1. \A u \in Updates : pc[u] # "idle" => ChatOf(u)' = ChatOf(u)
    BY ChatKnown DEF ChatOf, PostedGrows
  <1>2. OneAtATime'
    BY DEF Exchanges, OneAtATime
  <1>3. OpenExchange'
    BY <1>1 DEF Exchanges, OpenExchange, UserRow
  <1>4. AnswersPaired'
    BY DEF Exchanges, AnswersPaired, UserRow
  <1>5. ContextFresh'
    BY <1>1 DEF Exchanges, ContextFresh, InStampOrder, Question, Message
  <1>6. QED
    BY <1>2, <1>3, <1>4, <1>5 DEF Exchanges

LEMMA ReturnEnds ==
  ASSUME Typed, NEW u \in Updates, NEW how, Return(u, how)
  PROVE  /\ pc'[u] = "idle"
         /\ \A v \in Updates : \/ pc'[v] = "idle"
                               \/ pc'[v] = pc[v] /\ hist'[v] = hist[v] /\ out'[v] = out[v]
  BY DEF Return, Typed, TypeOK

LEMMA DispatchExchanges ==
  ASSUME Typed, Exchanges, Dispatch PROVE Exchanges'
  <1>1. /\ \A u \in Updates : pc[u] = "idle" /\ pc'[u] \in {"idle", "received"}
        /\ \A u \in Updates \ {Head(queue)} : pc'[u] = "idle"
        /\ UNCHANGED <<rows, posted, hist, out>>
    BY QueuedPosted DEF Dispatch, MayDispatch, NobodyRuns, telegram, Typed, TypeOK
  <1>2. OneAtATime' /\ OpenExchange' /\ ContextFresh'
    BY <1>1 DEF OneAtATime, OpenExchange, ContextFresh
  <1>3. AnswersPaired'
    BY <1>1 DEF Exchanges, AnswersPaired, UserRow
  <1>4. QED
    BY <1>2, <1>3 DEF Exchanges

(* The table after an insert.                                              *)
LEMMA InsertedRow ==
  ASSUME Typed, NEW chat \in Chats, NEW role \in Roles, NEW content \in Texts,
         rows' = Insert(rows, chat, clock, role, content)
  PROVE  /\ Len(rows) \in Nat /\ Len(rows') = Len(rows) + 1
         /\ DOMAIN rows = 1 .. Len(rows) /\ DOMAIN rows' = 1 .. Len(rows) + 1
         /\ \A i \in 1 .. Len(rows) : rows'[i] = rows[i]
         /\ rows'[Len(rows) + 1].chat = chat
         /\ rows'[Len(rows) + 1].role = role /\ rows'[Len(rows) + 1].content = content
  <1>1. TypeOK
    BY DEF Typed
  <1>2. Len(rows) \in Nat /\ DOMAIN rows = 1 .. Len(rows)
    BY <1>1, RowsAreTable DEF IsTable
  <1>3. rows' \in Seq(Rows)
    BY <1>1, InsertType
  <1>4. DOMAIN rows' = 1 .. Len(rows')
    BY <1>3, LenProperties
  <1>5. /\ Len(rows') = Len(rows) + 1
        /\ \A i \in 1 .. Len(rows) : rows'[i] = rows[i]
        /\ rows'[Len(rows) + 1] = Row(chat, clock, role, content)
    BY <1>1, InsertType
  <1>6. QED
    BY <1>1, <1>2, <1>4, <1>5 DEF Row

LEMMA InsertKeepsPairs ==
  ASSUME Typed, Exchanges, NEW chat \in Chats, NEW role \in Roles, NEW content \in Texts,
         rows' = Insert(rows, chat, clock, role, content)
  PROVE  /\ role = "user" => AnswersPaired'
         /\ (/\ role = "assistant" /\ Len(rows) > 0
             /\ UserRow(content.of, Len(rows)) /\ rows[Len(rows)].chat = chat) => AnswersPaired'
  <1> DEFINE Paired(i) == rows'[i].role = "assistant" =>
                            /\ i > 1
                            /\ rows'[i - 1].role = "user"
                            /\ rows'[i - 1].content = Message(rows'[i].content.of)
                            /\ rows'[i - 1].chat = rows'[i].chat
  <1>1. \A i \in 1 .. Len(rows) : Paired(i)
    <2> SUFFICES ASSUME NEW i \in 1 .. Len(rows) PROVE Paired(i)
      OBVIOUS
    <2>1. rows'[i] = rows[i] /\ (i > 1 => rows'[i - 1] = rows[i - 1])
      BY InsertedRow
    <2>2. rows[i].role = "assistant" =>
            /\ i > 1
            /\ rows[i - 1].role = "user"
            /\ rows[i - 1].content = Message(rows[i].content.of)
            /\ rows[i - 1].chat = rows[i].chat
      BY InsertedRow DEF Exchanges, AnswersPaired, UserRow
    <2>3. QED
      BY <2>1, <2>2
  <1>2. AnswersPaired' <=> \A i \in 1 .. Len(rows) + 1 : Paired(i)
    BY InsertedRow DEF AnswersPaired, UserRow, Message
  <1>3. role = "user" => Paired(Len(rows) + 1)
    BY InsertedRow
  <1>4. (/\ role = "assistant" /\ Len(rows) > 0
         /\ UserRow(content.of, Len(rows)) /\ rows[Len(rows)].chat = chat) => Paired(Len(rows) + 1)
    BY InsertedRow DEF UserRow
  <1> HIDE DEF Paired
  <1>5. QED
    BY <1>1, <1>2, <1>3, <1>4, InsertedRow

(* A step of one task, the only one running.                               *)
LEMMA OnlyTask ==
  ASSUME OneAtATime, NEW u \in Updates, pc[u] # "idle"
  PROVE  \A v \in Updates \ {u} : pc[v] = "idle"
  BY DEF OneAtATime

LEMMA AppendUserExchanges ==
  ASSUME Typed, Exchanges, NEW u \in Updates, AppendUser(u)
  PROVE  Exchanges'
  <1>1. /\ Message(u) \in Texts /\ ChatOf(u) \in Chats /\ "user" \in Roles
        /\ rows' = Insert(rows, ChatOf(u), clock, "user", Message(u))
    BY ChatKnown DEF AppendUser, Message, Texts, Roles
  <1>2. /\ pc'[u] = "heard" /\ \A v \in Updates \ {u} : pc'[v] = "idle"
        /\ UNCHANGED posted
    BY OnlyTask DEF AppendUser, Exchanges, Typed, TypeOK, Quiet, telegram
  <1>3. AnswersPaired'
    BY <1>1, InsertKeepsPairs
  <1>4. OneAtATime' /\ ContextFresh'
    BY <1>2 DEF OneAtATime, ContextFresh
  <1>5. OpenExchange'
    <2>1. /\ Len(rows') > 0 /\ rows'[Len(rows')].chat = ChatOf(u)
          /\ rows'[Len(rows')].role = "user" /\ rows'[Len(rows')].content = Message(u)
      BY <1>1, InsertedRow
    <2>2. ChatOf(u)' = ChatOf(u)
      BY <1>2 DEF ChatOf
    <2>3. QED
      BY <1>2, <2>1, <2>2 DEF OpenExchange, UserRow, Message
  <1>6. QED
    BY <1>3, <1>4, <1>5 DEF Exchanges

LEMMA AppendAssistantExchanges ==
  ASSUME Typed, Exchanges, NEW u \in Updates, AppendAssistant(u)
  PROVE  Exchanges'
  <1>1. /\ out'[u] \in Texts /\ ChatOf(u) \in Chats /\ "assistant" \in Roles
        /\ rows' = Insert(rows, ChatOf(u), clock, "assistant", out'[u])
        /\ out'[u].of = u
    BY ChatKnown, AppendAssistantType DEF AppendAssistant, Texts, Roles
  <1>2. /\ pc'[u] = "saved" /\ \A v \in Updates \ {u} : pc'[v] = "idle"
        /\ UNCHANGED posted
    BY OnlyTask DEF AppendAssistant, Exchanges, Typed, TypeOK, Quiet, telegram
  <1>3. AnswersPaired'
    <2>1. Len(rows) > 0 /\ UserRow(u, Len(rows)) /\ rows[Len(rows)].chat = ChatOf(u)
      BY DEF AppendAssistant, Exchanges, OpenExchange
    <2>2. QED
      BY <1>1, <2>1, InsertKeepsPairs
  <1>4. OneAtATime' /\ ContextFresh'
    BY <1>2 DEF OneAtATime, ContextFresh
  <1>5. OpenExchange'
    <2>1. /\ Len(rows') > 0 /\ rows'[Len(rows')].chat = ChatOf(u)
          /\ rows'[Len(rows')].role = "assistant" /\ rows'[Len(rows')].content = out'[u]
      BY <1>1, InsertedRow
    <2>2. ChatOf(u)' = ChatOf(u)
      BY <1>2 DEF ChatOf
    <2>3. QED
      BY <1>2, <2>1, <2>2 DEF OpenExchange
  <1>6. QED
    BY <1>3, <1>4, <1>5 DEF Exchanges

(* What history returns just after the task stored its question.           *)
LEMMA HistoryEndsWithQuestion ==
  ASSUME Typed, Exchanges, NEW u \in Updates, pc[u] = "heard", InStampOrder(u)
  PROVE  EndsWith(History(rows, ChatOf(u), Limit), Question(u))
  <1> DEFINE h == History(rows, ChatOf(u), Limit)
  <1>1. /\ Len(rows) > 0 /\ rows[Len(rows)].chat = ChatOf(u)
        /\ rows[Len(rows)].role = "user" /\ rows[Len(rows)].content = Message(u)
    BY DEF Exchanges, OpenExchange, UserRow
  <1>2. IsTable(rows) /\ Limit \in Nat \ {0}
    BY RowsAreTable DEF Typed
  <1>3. \A i \in RowsOf(rows, ChatOf(u)) : rows[i].ts <= rows[Len(rows)].ts
    BY DEF InStampOrder
  <1>4. Len(h) > 0 /\ h[Len(h)] = Question(u)
    BY <1>1, <1>2, <1>3, NewestIsLast DEF Question
  <1>5. h # <<>>
    BY <1>4
  <1>6. QED
    BY <1>4, <1>5 DEF EndsWith

LEMMA ReadHistoryExchanges ==
  ASSUME Typed, Exchanges, NEW u \in Updates, ReadHistory(u)
  PROVE  Exchanges'
  <1>1. /\ pc[u] = "heard" /\ pc'[u] = "calling"
        /\ \A v \in Updates \ {u} : pc'[v] = "idle"
        /\ hist'[u] = History(rows, ChatOf(u), Limit)
        /\ UNCHANGED <<rows, posted, out>> /\ ChatOf(u)' = ChatOf(u)
    BY OnlyTask DEF ReadHistory, Exchanges, Typed, TypeOK, Quiet, telegram, ChatOf
  <1>2. OneAtATime'
    BY <1>1 DEF OneAtATime
  <1>3. OpenExchange'
    BY <1>1 DEF Exchanges, OpenExchange, UserRow
  <1>4. AnswersPaired'
    BY <1>1 DEF Exchanges, AnswersPaired, UserRow
  <1>5. ContextFresh'
    BY <1>1, HistoryEndsWithQuestion DEF ContextFresh, InStampOrder, Question, Message
  <1>6. QED
    BY <1>2, <1>3, <1>4, <1>5 DEF Exchanges

(* A provider answers, or fails and leaves others to try.                  *)
LEMMA ProviderExchanges ==
  ASSUME Typed, Exchanges, NEW u \in Updates, pc[u] = "calling",
         pc'[u] \in {"calling", "exhausted", "answered"},
         \A v \in Updates \ {u} : pc'[v] = pc[v],
         UNCHANGED <<rows, posted, hist>>
  PROVE  Exchanges'
  <1>1. \A v \in Updates \ {u} : pc'[v] = "idle"
    BY OnlyTask DEF Exchanges
  <1>2. ChatOf(u)' = ChatOf(u)
    BY DEF ChatOf
  <1>3. OneAtATime'
    BY <1>1 DEF OneAtATime
  <1>4. OpenExchange'
    BY <1>1, <1>2 DEF Exchanges, OpenExchange, UserRow
  <1>5. AnswersPaired'
    BY DEF Exchanges, AnswersPaired, UserRow
  <1>6. ContextFresh'
    BY <1>1, <1>2 DEF Exchanges, ContextFresh, InStampOrder, Question, Message
  <1>7. QED
    BY <1>3, <1>4, <1>5, <1>6 DEF Exchanges

LEMMA StepExchanges ==
  ASSUME Typed, Typed', Exchanges, NEW u \in Updates, Step(u)
  PROVE  Exchanges'
  <1>0. UNCHANGED posted /\ PostedGrows
    <2>1. UNCHANGED posted
      BY DEF Step, Ignore, AppendUser, ReadHistory, ProviderReplies, ProviderFails, SendStatus,
             AppendAssistant, SendReply, StoreFails, Quiet, telegram
    <2>2. Len(posted) \in Nat
      BY DEF Typed, TypeOK
    <2>3. QED
      BY <2>1, <2>2 DEF PostedGrows
  <1>1. ASSUME NEW how, Return(u, how), UNCHANGED rows PROVE Exchanges'
    BY <1>0, <1>1, ReturnEnds, EndingKeepsExchanges
  <1>2. CASE AppendUser(u)
    BY <1>2, AppendUserExchanges
  <1>3. CASE ReadHistory(u)
    BY <1>3, ReadHistoryExchanges
  <1>4. ASSUME NEW kind \in {"whole", "over"}, ProviderReplies(u, kind) PROVE Exchanges'
    <2>1. /\ pc[u] = "calling" /\ pc'[u] = "answered" /\ \A v \in Updates \ {u} : pc'[v] = pc[v]
          /\ UNCHANGED <<rows, posted, hist>>
      BY <1>4 DEF ProviderReplies, Quiet, telegram, Typed, TypeOK
    <2>2. QED
      BY <2>1, ProviderExchanges
  <1>5. CASE ProviderFails(u)
    <2>1. CASE Return(u, "failed")
      BY <1>1, <1>5, <2>1 DEF ProviderFails
    <2>2. CASE ~Return(u, "failed")
      <3>1. /\ pc[u] = "calling" /\ pc'[u] \in {"calling", "exhausted"}
            /\ \A v \in Updates \ {u} : pc'[v] = pc[v]
            /\ UNCHANGED <<rows, posted, hist>>
        BY <1>5, <2>2 DEF ProviderFails, Quiet, telegram, Typed, TypeOK
      <3>2. QED
        BY <3>1, ProviderExchanges
    <2>3. QED
      BY <2>1, <2>2
  <1>6. CASE AppendAssistant(u)
    BY <1>6, AppendAssistantExchanges
  <1>7. CASE Ignore(u) \/ SendStatus(u) \/ SendReply(u) \/ StoreFails(u)
    BY <1>1, <1>7 DEF Ignore, SendStatus, SendReply, ReplyText, StoreFails
  <1>8. QED
    BY <1>2, <1>3, <1>4, <1>5, <1>6, <1>7 DEF Step

(* Typed /\ Exchanges is the inductive invariant of the exchange.          *)
LEMMA ExchangesInit == Init => Exchanges
  BY DEF Init, Exchanges, OneAtATime, OpenExchange, AnswersPaired, ContextFresh

LEMMA ExchangesNext == Typed /\ Exchanges /\ [Next]_vars => Exchanges'
  <1> SUFFICES ASSUME Typed, Exchanges, [Next]_vars PROVE Exchanges'
    OBVIOUS
  <1>0. Typed' /\ TypeOK /\ Len(posted) \in Nat
    <2>1. Typed'
      BY TypedNext
    <2>2. TypeOK
      BY DEF Typed
    <2>3. Len(posted) \in Nat
      BY <2>2 DEF TypeOK
    <2>4. QED
      BY <2>1, <2>2, <2>3
  <1>1. ASSUME UNCHANGED <<rows, posted>>, UNCHANGED <<pc, hist, out>> PROVE Exchanges'
    <2>1. PostedGrows
      BY <1>0, <1>1 DEF PostedGrows
    <2>2. QED
      BY <1>0, <1>1, <2>1, EndingKeepsExchanges
  <1>2. CASE \E c \in Chats, form \in Forms : Post(c, form)
    <2>1. PostedGrows
      BY <1>0, <1>2 DEF Post, PostedGrows, TypeOK
    <2>2. UNCHANGED <<rows, pc, hist, out>>
      BY <1>2 DEF Post, tasks
    <2>3. QED
      BY <1>0, <2>1, <2>2, EndingKeepsExchanges
  <1>3. CASE Poll \/ PollUnanswered \/ Stop \/ Tick \/ Boot
    BY <1>1, <1>3 DEF Poll, PollUnanswered, Stop, Tick, Boot, OpenTable, tasks, telegram
  <1>4. CASE Crash \/ Exit
    <2>1. PostedGrows /\ UNCHANGED rows /\ \A u \in Updates : pc'[u] = "idle"
      BY <1>0, <1>4 DEF Crash, Exit, LoseMemory, PostedGrows, telegram
    <2>2. QED
      BY <1>0, <2>1, EndingKeepsExchanges
  <1>5. CASE Dispatch
    BY <1>5, DispatchExchanges
  <1>6. CASE \E u \in Updates : Step(u)
    BY <1>0, <1>6, StepExchanges
  <1>7. CASE UNCHANGED vars
    BY <1>1, <1>7 DEF vars
  <1>8. QED
    BY <1>2, <1>3, <1>4, <1>5, <1>6, <1>7 DEF Next

(* Over any interleaving of updater, handlers, kills, stops and restarts,  *)
(* every answer on record directly follows its own question in the same    *)
(* chat (telegram.py 122-148, 198).                                        *)
THEOREM AnswersArePaired == Spec => []AnswersPaired
  <1>1. Exchanges => AnswersPaired
    BY DEF Exchanges
  <1>2. QED
    BY <1>1, TypedInit, TypedNext, ExchangesInit, ExchangesNext, PTL DEF Spec

(* While any provider of the chain is awaited, the history read before the *)
(* first call is what history would return now; if no turn of the chat is  *)
(* stamped later than the question, it ends with the question.  The clock  *)
(* may go on or be set back at any step (telegram.py 122-127, memory.py    *)
(* 33, 41-55).                                                             *)
THEOREM ContextIsFresh == Spec => []ContextFresh
  <1>1. Exchanges => ContextFresh
    BY DEF Exchanges
  <1>2. QED
    BY <1>1, TypedInit, TypedNext, ExchangesInit, ExchangesNext, PTL DEF Spec
-----------------------------------------------------------------------------
(* Delivery: which updates the process holds, and in which order.          *)

(* The last update taken from the queue.                                   *)
Taken == fetched - Len(queue)

(* The queue is what was fetched and not taken, without a gap; only the    *)
(* last update taken can be in a handler; a life that has fetched nothing  *)
(* holds nothing.                                                          *)
InLine ==
  /\ \A k \in DOMAIN queue : queue[k] = Taken + k
  /\ \A u \in Updates : pc[u] # "idle" => u = Taken
  /\ fetched = 0 => queue = <<>> /\ NobodyRuns
  /\ fetched # 0 => confirmed <= fetched
  /\ up = "down" => fetched = 0

LEMMA LineTyping ==
  ASSUME Typed
  PROVE  /\ queue \in Seq(1 .. Len(posted)) /\ Len(queue) \in Nat /\ DOMAIN queue = 1 .. Len(queue)
         /\ Len(posted) \in Nat /\ 1 .. Len(posted) \subseteq Updates
         /\ confirmed \in 0 .. Len(posted) /\ fetched \in 0 .. Len(posted) /\ Taken \in Int
         /\ \A u \in Updates : u \in Nat \ {0}
  BY LenProperties DEF Typed, TypeOK, Taken, Updates

(* What a step of a task leaves alone, of the other tasks too.             *)
TaskFrame(u) ==
  /\ pc[u] # "idle" /\ pc'[u] # "received"
  /\ pc'[u] = "idle" => outcome'[u] # "none"
  /\ pc'[u] # "idle" => outcome'[u] = outcome[u]
  /\ \A v \in Updates \ {u} : pc'[v] = pc[v] /\ outcome'[v] = outcome[v]

LEMMA ReturnFrame ==
  ASSUME Typed, NEW u \in Updates, pc[u] # "idle",
         \E how \in {"dropped", "failed", "apologised", "replied"} : Return(u, how)
  PROVE  TaskFrame(u)
  BY DEF Typed, TypeOK, Return, TaskFrame

LEMMA AdvanceFrame ==
  ASSUME Typed, NEW u \in Updates, pc[u] # "idle", UNCHANGED outcome,
         \E to \in {"heard", "calling", "exhausted", "answered", "saved"} : pc' = [pc EXCEPT ![u] = to]
  PROVE  TaskFrame(u)
  BY DEF Typed, TypeOK, TaskFrame

LEMMA StepFrame ==
  ASSUME Typed, NEW u \in Updates, Step(u)
  PROVE  /\ UNCHANGED <<posted, confirmed, up, fetched, queue, clock, base, crashes, stops>>
         /\ TaskFrame(u)
  <1>1. UNCHANGED <<posted, confirmed, up, fetched, queue, clock, base, crashes, stops>>
    BY DEF Step, Ignore, AppendUser, ReadHistory, ProviderReplies, ProviderFails, SendStatus,
           AppendAssistant, SendReply, StoreFails, Quiet, telegram, updater, counts
  <1> SUFFICES TaskFrame(u)
    BY <1>1
  <1>2. CASE Ignore(u) \/ StoreFails(u)
    BY <1>2, ReturnFrame DEF Ignore, StoreFails
  <1>3. CASE SendStatus(u) \/ SendReply(u)
    BY <1>3, ReturnFrame DEF SendStatus, SendReply, ReplyText
  <1>4. CASE AppendUser(u) \/ ReadHistory(u) \/ AppendAssistant(u)
    BY <1>4, AdvanceFrame DEF AppendUser, ReadHistory, AppendAssistant
  <1>5. CASE \E kind \in {"whole", "over"} : ProviderReplies(u, kind)
    BY <1>5, AdvanceFrame DEF ProviderReplies
  <1>6. CASE ProviderFails(u)
    <2>1. CASE Return(u, "failed")
      BY <1>6, <2>1, ReturnFrame DEF ProviderFails
    <2>2. CASE ~Return(u, "failed")
      <3>1. /\ pc[u] = "calling" /\ outcome' = outcome
            /\ \E to \in {"calling", "exhausted"} : pc' = [pc EXCEPT ![u] = to]
        BY <1>6, <2>2 DEF ProviderFails
      <3>2. QED
        BY <3>1, AdvanceFrame
    <2>3. QED
      BY <2>1, <2>2
  <1>7. QED
    BY <1>2, <1>3, <1>4, <1>5, <1>6 DEF Step

(* An answer of getUpdates begins where the last one ended, or after what  *)
(* earlier lives confirmed.                                                *)
LEMMA PollInLine ==
  ASSUME Typed, InLine, Poll
  PROVE  /\ InLine'
         /\ Taken' = IF fetched = 0 THEN confirmed' ELSE Taken
         /\ confirmed' = IF fetched = 0 THEN confirmed ELSE fetched
         /\ \A k \in DOMAIN queue : k \in DOMAIN queue' /\ queue'[k] = queue[k]
  <1> DEFINE n == Len(posted) - confirmed'
             batch == [k \in 1 .. n |-> confirmed' + k]
             S == 1 .. Len(posted)
  <1>1. /\ confirmed' = (IF fetched = 0 THEN confirmed ELSE fetched)
        /\ confirmed' < Len(posted) /\ n \in Nat /\ fetched' = Len(posted)
        /\ UNCHANGED <<posted, up, pc>> /\ up = "up" /\ queue' = queue \o batch
    BY LineTyping DEF InLine, Poll, Ask, Later, tasks
  <1>2. batch \in [1 .. n -> S]
    BY <1>1, LineTyping
  <1>3. /\ batch \in Seq(S) /\ Len(batch) = n
        /\ \A k \in 1 .. n : batch[k] = confirmed' + k
    <2>1. \A k \in 1 .. n : batch[k] = confirmed' + k
      OBVIOUS
    <2> HIDE DEF batch, n, S
    <2>2. QED
      BY <1>1, <1>2, <2>1, FunctionIsSeq
  <1>4. /\ Len(queue') = Len(queue) + n /\ DOMAIN queue' = 1 .. Len(queue) + n
        /\ \A k \in 1 .. Len(queue) : queue'[k] = queue[k]
        /\ \A k \in Len(queue) + 1 .. Len(queue) + n : queue'[k] = batch[k - Len(queue)]
    <2>1. queue \in Seq(S)
      BY LineTyping
    <2> HIDE DEF batch, n, S
    <2>2. queue' \in Seq(S)
      BY <1>1, <1>3, <2>1, ConcatProperties
    <2>3. QED
      BY <1>1, <1>3, <2>1, <2>2, ConcatProperties, LenProperties
  <1>5. Taken' = IF fetched = 0 THEN confirmed' ELSE Taken
    <2>1. Taken' = confirmed' - Len(queue)
      BY <1>1, <1>4, LineTyping DEF Taken
    <2>2. fetched = 0 => Len(queue) = 0
      BY EmptySeq DEF InLine
    <2>3. QED
      BY <1>1, <2>1, <2>2, LineTyping DEF Taken
  <1>6. \A k \in DOMAIN queue' : queue'[k] = Taken' + k
    <2> SUFFICES ASSUME NEW k \in 1 .. Len(queue) + n PROVE queue'[k] = Taken' + k
      BY <1>4
    <2>1. CASE k <= Len(queue)
      <3>1. k \in DOMAIN queue /\ fetched # 0
        BY <2>1, LineTyping, EmptySeq DEF InLine
      <3>2. QED
        BY <1>4, <1>5, <3>1, LineTyping DEF InLine
    <2>2. CASE k > Len(queue)
      <3>1. queue'[k] = confirmed' + (k - Len(queue))
        BY <1>1, <1>3, <1>4, <2>2, LineTyping
      <3>2. Taken' = confirmed' - Len(queue)
        BY <1>1, <1>4, LineTyping DEF Taken
      <3>3. QED
        BY <1>1, <2>2, <3>1, <3>2, LineTyping
    <2>3. QED
      BY <1>1, <2>1, <2>2, LineTyping
  <1>7. \A u \in Updates : pc'[u] # "idle" => u = Taken'
    BY <1>1, <1>5 DEF InLine, NobodyRuns
  <1>8. fetched' # 0 /\ confirmed' <= fetched'
    BY <1>1, LineTyping
  <1>9. InLine'
    BY <1>1, <1>6, <1>7, <1>8 DEF InLine
  <1>10. QED
    BY <1>1, <1>4, <1>5, <1>9, LineTyping

LEMMA DispatchInLine ==
  ASSUME Typed, InLine, Dispatch
  PROVE  /\ InLine' /\ Taken' = Taken + 1 /\ Head(queue) = Taken + 1 /\ Head(queue) \in Updates
         /\ pc'[Head(queue)] = "received" /\ fetched # 0
         /\ \A u \in Updates \ {Head(queue)} : pc[u] = "idle" /\ pc'[u] = "idle"
         /\ \A k \in DOMAIN queue : k = 1 \/ (k - 1 \in DOMAIN queue' /\ queue'[k - 1] = queue[k])
  <1>1. /\ queue # <<>> /\ NobodyRuns /\ up # "down" /\ pc' = [pc EXCEPT ![Head(queue)] = "received"]
        /\ queue' = Tail(queue) /\ UNCHANGED <<posted, confirmed, up, fetched>>
    BY DEF Dispatch, MayDispatch, telegram
  <1>2. /\ Len(queue) > 0 /\ Head(queue) = queue[1] /\ Head(queue) \in Updates
        /\ Len(queue') = Len(queue) - 1 /\ DOMAIN queue' = 1 .. Len(queue) - 1
        /\ \A k \in 1 .. Len(queue) - 1 : queue'[k] = queue[k + 1]
    <2> DEFINE S == 1 .. Len(posted)
    <2>1. queue \in Seq(S) /\ S \subseteq Updates
      BY LineTyping
    <2> HIDE DEF S
    <2>2. queue' \in Seq(S) /\ Head(queue) \in S
      BY <1>1, <2>1, HeadTailProperties
    <2>3. QED
      BY <1>1, <2>1, <2>2, HeadTailProperties, LenProperties, EmptySeq
  <1>3. Taken' = Taken + 1 /\ Head(queue) = Taken + 1 /\ fetched # 0
    <2>1. 1 \in DOMAIN queue
      BY <1>2, LineTyping
    <2>2. queue[1] = Taken + 1
      BY <2>1 DEF InLine
    <2>3. Taken' = fetched - (Len(queue) - 1)
      BY <1>1, <1>2 DEF Taken
    <2>4. QED
      BY <1>1, <1>2, <2>2, <2>3, LineTyping DEF Taken, InLine
  <1>4. \A k \in DOMAIN queue' : queue'[k] = Taken' + k
    <2> SUFFICES ASSUME NEW k \in 1 .. Len(queue) - 1 PROVE queue'[k] = Taken' + k
      BY <1>2
    <2>1. k + 1 \in DOMAIN queue /\ queue'[k] = queue[k + 1]
      BY <1>2, LineTyping
    <2>2. queue[k + 1] = Taken + (k + 1)
      BY <2>1 DEF InLine
    <2>3. QED
      BY <1>3, <2>1, <2>2, LineTyping
  <1>5. /\ pc'[Head(queue)] = "received"
        /\ \A u \in Updates \ {Head(queue)} : pc[u] = "idle" /\ pc'[u] = "idle"
    BY <1>1, <1>2 DEF NobodyRuns, Typed, TypeOK
  <1>6. InLine'
    BY <1>1, <1>3, <1>4, <1>5 DEF InLine
  <1>7. \A k \in DOMAIN queue : k = 1 \/ (k - 1 \in DOMAIN queue' /\ queue'[k - 1] = queue[k])
    <2> SUFFICES ASSUME NEW k \in 1 .. Len(queue), k # 1
                 PROVE  k - 1 \in 1 .. Len(queue) - 1 /\ queue'[k - 1] = queue[k]
      BY <1>2, LineTyping
    <2>1. k - 1 \in 1 .. Len(queue) - 1 /\ (k - 1) + 1 = k
      BY LineTyping
    <2>2. QED
      BY <1>2, <2>1
  <1>8. QED
    BY <1>2, <1>3, <1>5, <1>6, <1>7

LEMMA InLineInit == Init => InLine
  BY EmptySeq DEF Init, InLine, NobodyRuns

LEMMA InLineNext == Typed /\ InLine /\ [Next]_vars => InLine'
  <1> SUFFICES ASSUME Typed, InLine, [Next]_vars PROVE InLine'
    OBVIOUS
  <1>1. ASSUME UNCHANGED <<up, confirmed, fetched, queue, pc>> PROVE InLine'
    BY <1>1 DEF InLine, Taken, NobodyRuns
  <1>2. CASE (\E c \in Chats, form \in Forms : Post(c, form)) \/ Tick \/ UNCHANGED vars
    BY <1>1, <1>2 DEF Post, Tick, vars, telegram, updater, tasks
  <1>3. CASE Poll
    BY <1>3, PollInLine
  <1>4. CASE PollUnanswered \/ Stop
    <2>1. /\ up # "down" /\ up' # "down" /\ UNCHANGED <<fetched, queue, pc>>
          /\ confirmed' \in {confirmed, Later(confirmed, fetched)}
      BY <1>4 DEF PollUnanswered, Stop, Ask, updater, tasks
    <2>2. fetched # 0 => confirmed' <= fetched
      BY <2>1, LineTyping DEF InLine, Later
    <2>3. QED
      BY <2>1, <2>2 DEF InLine, Taken, NobodyRuns
  <1>5. CASE Boot
    BY <1>5 DEF Boot, Pending, updater, tasks, InLine, Taken, NobodyRuns
  <1>6. CASE Crash \/ Exit
    BY <1>6, EmptySeq DEF Crash, Exit, LoseMemory, InLine, NobodyRuns
  <1>7. CASE Dispatch
    BY <1>7, DispatchInLine
  <1>8. ASSUME NEW u \in Updates, Step(u) PROVE InLine'
    <2>1. \A v \in Updates : pc'[v] # "idle" => pc[v] # "idle"
      BY <1>8, StepFrame DEF TaskFrame
    <2>2. QED
      BY <1>8, <2>1, StepFrame DEF InLine, Taken, NobodyRuns
  <1>9. QED
    BY <1>2, <1>3, <1>4, <1>5, <1>6, <1>7, <1>8 DEF Next

-----------------------------------------------------------------------------
(* What was taken in this life and is not confirmed yet was handled, or is *)
(* being handled.                                                          *)
TakenHandled ==
  \A u \in Updates : confirmed < u /\ u <= Taken => pc[u] # "idle" \/ Handled(u)

LEMMA TakenHandledInit == Init => TakenHandled
  <1> SUFFICES ASSUME Init, NEW u \in Updates PROVE ~(u <= Taken)
    BY DEF TakenHandled
  <1>1. Taken = 0
    <2>1. fetched = 0
      BY DEF Init
    <2>2. Len(queue) = 0
      BY EmptySeq DEF Init
    <2>3. QED
      BY <2>1, <2>2 DEF Taken
  <1>2. QED
    BY <1>1 DEF Updates

LEMMA TakenHandledNext == Typed /\ InLine /\ TakenHandled /\ [Next]_vars => TakenHandled'
  <1> SUFFICES ASSUME Typed, InLine, TakenHandled, [Next]_vars PROVE TakenHandled'
    OBVIOUS
  <1>1. ASSUME UNCHANGED <<fetched, queue, pc, outcome>>, confirmed' \in Int, confirmed' >= confirmed
        PROVE  TakenHandled'
    BY <1>1, LineTyping DEF TakenHandled, Taken, Handled
  <1>2. ASSUME NEW n \in Int, n = confirmed \/ n = Later(confirmed, fetched)
        PROVE  n >= confirmed
    BY <1>2, LineTyping DEF Later
  <1>3. confirmed \in Int /\ confirmed >= confirmed /\ Later(confirmed, fetched) \in Int
    BY LineTyping DEF Later
  <1>4. CASE (\E c \in Chats, form \in Forms : Post(c, form)) \/ Tick \/ UNCHANGED vars
    BY <1>1, <1>3, <1>4 DEF Post, Tick, vars, telegram, updater, tasks
  <1>5. CASE PollUnanswered \/ Stop
    BY <1>1, <1>2, <1>3, <1>5 DEF PollUnanswered, Stop, Ask, updater, tasks
  <1>6. CASE Boot
    BY <1>1, <1>3, <1>6 DEF Boot, Pending, updater, tasks
  <1>7. CASE Poll
    <2>1. UNCHANGED <<pc, outcome>>
      BY <1>7 DEF Poll, tasks
    <2>2. CASE fetched = 0
      BY <1>7, <2>2, PollInLine, LineTyping DEF TakenHandled
    <2>3. CASE fetched # 0
      BY <1>7, <2>1, <2>3, PollInLine, LineTyping DEF TakenHandled, Handled, InLine
    <2>4. QED
      BY <2>2, <2>3
  <1>8. CASE Crash \/ Exit
    <2>1. Taken' = 0
      BY <1>8, EmptySeq DEF Crash, Exit, LoseMemory, Taken
    <2>2. QED
      BY <2>1, LineTyping DEF TakenHandled
  <1>9. CASE Dispatch
    <2>1. UNCHANGED <<confirmed, outcome>>
      BY <1>9 DEF Dispatch, telegram
    <2>2. QED
      BY <1>9, <2>1, DispatchInLine, LineTyping DEF TakenHandled, Handled
  <1>10. ASSUME NEW u \in Updates, Step(u) PROVE TakenHandled'
    <2>1. Taken' = Taken /\ confirmed' = confirmed
      BY <1>10, StepFrame DEF Taken
    <2>2. \A v \in Updates : (pc[v] # "idle" \/ outcome[v] # "none")
                            => (pc'[v] # "idle" \/ outcome'[v] # "none")
      BY <1>10, StepFrame DEF TaskFrame
    <2>3. QED
      BY <2>1, <2>2 DEF TakenHandled, Handled
  <1>11. QED
    BY <1>4, <1>5, <1>6, <1>7, <1>8, <1>9, <1>10 DEF Next

(* An update the process fetched and Telegram still keeps is in hand or    *)
(* handled.                                                                *)
LEMMA FetchedSafe ==
  ASSUME Typed, InLine, TakenHandled, NEW u \in 1 .. Len(posted), confirmed < u, u <= fetched
  PROVE  Held(u) \/ Handled(u)
  <1>1. CASE u <= Taken
    BY <1>1, LineTyping DEF TakenHandled, Held
  <1>2. CASE u > Taken
    <2> DEFINE k == u - Taken
    <2>1. k \in DOMAIN queue
      BY <1>2, LineTyping DEF Taken
    <2>2. queue[k] = Taken + k
      BY <2>1 DEF InLine
    <2>3. queue[k] = u
      BY <2>2, LineTyping
    <2>4. QED
      BY <2>1, <2>3 DEF Held, InQueue
  <1>3. QED
    BY <1>1, <1>2, LineTyping

Delivery == InLine /\ TakenHandled

LEMMA NothingLost ==
  ASSUME Typed, Delivery, [Next]_vars, crashes' = crashes,
         NEW u \in 1 .. Len(posted), Safe(u)
  PROVE  Safe(u)'
  <1> USE DEF Delivery
  <1>0. u \in Updates /\ u \in Nat
    BY LineTyping
  <1>1. ASSUME UNCHANGED <<confirmed, queue, pc, outcome>> PROVE Safe(u)'
    BY <1>1 DEF Safe, Held, InQueue, Handled
  <1>2. CASE (\E c \in Chats, form \in Forms : Post(c, form)) \/ Tick \/ Boot \/ UNCHANGED vars
    BY <1>1, <1>2 DEF Post, Tick, Boot, Pending, vars, telegram, updater, tasks
  <1>3. ASSUME confirmed' = confirmed \/ confirmed' = Later(confirmed, fetched),
               UNCHANGED <<pc, outcome>>, InQueue(u) => InQueue(u)'
        PROVE  Safe(u)'
    <2>1. CASE Held(u) \/ Handled(u)
      BY <1>3, <2>1 DEF Safe, Held, Handled
    <2>2. CASE ~(Held(u) \/ Handled(u))
      <3>1. u > confirmed /\ ~(u <= fetched)
        BY <2>2, FetchedSafe, LineTyping DEF Safe
      <3>2. u > confirmed'
        BY <1>3, <3>1, LineTyping DEF Later
      <3>3. QED
        BY <3>2 DEF Safe
    <2>3. QED
      BY <2>1, <2>2
  <1>4. CASE PollUnanswered \/ Stop
    BY <1>3, <1>4 DEF PollUnanswered, Stop, Ask, updater, tasks, InQueue
  <1>5. CASE Poll
    <2>1. InQueue(u) => InQueue(u)'
      BY <1>5, PollInLine DEF InQueue
    <2>2. QED
      BY <1>3, <1>5, <2>1 DEF Poll, Ask, tasks
  <1>6. CASE Crash
    <2>1. crashes \in Nat
      BY DEF Typed, TypeOK
    <2>2. QED
      BY <1>6, <2>1 DEF Crash
  <1>7. CASE Exit
    <2>1. ~Held(u)
      BY <1>0, <1>7, LineTyping, EmptySeq DEF Exit, Held, InQueue, NobodyRuns
    <2>2. UNCHANGED <<confirmed, outcome>>
      BY <1>7 DEF Exit, LoseMemory, telegram
    <2>3. QED
      BY <2>1, <2>2 DEF Safe, Handled
  <1>8. CASE Dispatch
    <2>1. UNCHANGED <<confirmed, outcome>>
      BY <1>8 DEF Dispatch, telegram
    <2>2. Held(u) => Held(u)'
      <3>1. ASSUME InQueue(u) PROVE Held(u)'
        <4>1. PICK k \in DOMAIN queue : queue[k] = u
          BY <3>1 DEF InQueue
        <4>2. CASE k = 1
          <5>1. u = Head(queue)
            BY <1>8, <4>1, <4>2, DispatchInLine, LineTyping DEF InLine
          <5>2. QED
            BY <1>8, <5>1, DispatchInLine DEF Held
        <4>3. CASE k # 1
          BY <1>8, <4>1, <4>3, DispatchInLine DEF Held, InQueue
        <4>4. QED
          BY <4>2, <4>3
      <3>2. pc[u] = "idle"
        BY <1>0, <1>8 DEF Dispatch, MayDispatch, NobodyRuns
      <3>3. QED
        BY <3>1, <3>2 DEF Held
    <2>3. QED
      BY <2>1, <2>2 DEF Safe, Handled
  <1>9. ASSUME NEW v \in Updates, Step(v) PROVE Safe(u)'
    <2>1. UNCHANGED <<confirmed, queue>>
      BY <1>9, StepFrame
    <2>2. (pc[u] # "idle" \/ outcome[u] # "none") => (pc'[u] # "idle" \/ outcome'[u] # "none")
      BY <1>0, <1>9, StepFrame DEF TaskFrame
    <2>3. QED
      BY <2>1, <2>2 DEF Safe, Held, InQueue, Handled
  <1>10. QED
    BY <1>2, <1>4, <1>5, <1>6, <1>7, <1>8, <1>9 DEF Next

LEMMA DeliveryInvariant == Spec => [](Typed /\ Delivery)
  <1>1. Typed /\ Delivery /\ [Next]_vars => (Typed /\ Delivery)'
    BY TypedNext, InLineNext, TakenHandledNext DEF Delivery
  <1>2. Init => Typed /\ Delivery
    BY TypedInit, InLineInit, TakenHandledInit DEF Delivery
  <1>3. QED
    BY <1>1, <1>2, PTL DEF Spec

(* A message whose last hold is taken was lost by a kill: no answer lost   *)
(* on the way, graceful stop, drain, failing handler or restart does it    *)
(* (telegram.py 103-107, 205).                                             *)
THEOREM NoMessageDropped == Spec => OnlyCrashesLose
  <1>1. Typed /\ Delivery /\ [Next]_vars
          => [crashes' = crashes => \A u \in 1 .. Len(posted) : Safe(u) => Safe(u)']_vars
    BY NothingLost
  <1>2. QED
    BY <1>1, DeliveryInvariant, PTL DEF Spec, OnlyCrashesLose

-----------------------------------------------------------------------------
(* The record of this life: it holds questions of updates taken in it, not *)
(* of the one just taken; before the first fetch it is empty.              *)
HeardHere ==
  up # "down" =>
    /\ fetched = 0 => base = Len(rows)
    /\ \A i \in base + 1 .. Len(rows) : rows[i].role = "user" =>
         rows[i].content.of <= Taken /\ pc[rows[i].content.of] # "received"

Heard == HeardHere /\ HeardInOrder

LEMMA RowsTyping ==
  ASSUME Typed
  PROVE  /\ Len(rows) \in Nat /\ DOMAIN rows = 1 .. Len(rows) /\ base \in 0 .. Len(rows)
         /\ \A i \in 1 .. Len(rows) :
              /\ rows[i].content \in Texts /\ rows[i].content.of \in Updates
              /\ rows[i].role \in Roles /\ rows[i].chat \in Chats
  <1>1. IsTable(rows) /\ base \in 0 .. Len(rows) /\ \A i \in DOMAIN rows : rows[i] \in Rows
    BY RowsAreTable DEF Typed, TypeOK
  <1>2. QED
    BY <1>1 DEF IsTable, Rows, Texts

(* Two steps of a task store, and each a row of its own chat.              *)
LEMMA WhoStores ==
  ASSUME NEW u \in Updates, Step(u)
  PROVE  AppendUser(u) \/ AppendAssistant(u) \/ UNCHANGED rows
  BY DEF Step, Ignore, ReadHistory, ProviderReplies, ProviderFails, SendStatus, SendReply, StoreFails

LEMMA Stored ==
  ASSUME Typed, NEW u \in Updates, AppendUser(u) \/ AppendAssistant(u)
  PROVE  /\ Len(rows') = Len(rows) + 1 /\ DOMAIN rows' = 1 .. Len(rows')
         /\ \A i \in 1 .. Len(rows) : rows'[i] = rows[i]
         /\ rows'[Len(rows')].chat = ChatOf(u) /\ rows'[Len(rows')].content.of = u
         /\ AppendUser(u) => /\ rows'[Len(rows')].role = "user"
                             /\ rows'[Len(rows')].content = Message(u)
         /\ AppendAssistant(u) => /\ rows'[Len(rows')].role = "assistant"
                                  /\ rows'[Len(rows')].content = out'[u]
                                  /\ out'[u] \in [of : {u}, kind : {"whole", "cut"}]
  <1>1. CASE AppendUser(u)
    <2>1. /\ Message(u) \in Texts /\ ChatOf(u) \in Chats /\ "user" \in Roles /\ Message(u).of = u
          /\ rows' = Insert(rows, ChatOf(u), clock, "user", Message(u))
      BY <1>1, ChatKnown DEF AppendUser, Message, Texts, Roles
    <2>2. ~AppendAssistant(u)
      BY <1>1 DEF AppendUser, AppendAssistant
    <2>3. QED
      BY <2>1, <2>2, InsertedRow
  <1>2. CASE AppendAssistant(u)
    <2>1. /\ out'[u] \in Texts /\ ChatOf(u) \in Chats /\ "assistant" \in Roles /\ out'[u].of = u
          /\ rows' = Insert(rows, ChatOf(u), clock, "assistant", out'[u])
          /\ out'[u] \in [of : {u}, kind : {"whole", "cut"}]
      BY <1>2, AppendAssistantType, ChatKnown DEF AppendAssistant, Texts, Roles
    <2>2. ~AppendUser(u)
      BY <1>2 DEF AppendUser, AppendAssistant
    <2>3. QED
      BY <2>1, <2>2, InsertedRow
  <1>3. QED
    BY <1>1, <1>2

LEMMA HeardInit == Init => Heard
  <1> SUFFICES ASSUME Init PROVE Heard
    OBVIOUS
  <1>1. up = "down" /\ base = 0 /\ Len(rows) = 0
    BY EmptySeq DEF Init
  <1>2. QED
    BY <1>1 DEF Heard, HeardHere, HeardInOrder

(* A step that stores nothing and takes no update from the queue.          *)
LEMMA QuietKeepsHeard ==
  ASSUME Typed, Heard, UNCHANGED <<rows, base>>,
         up' # "down" => /\ up # "down" /\ Taken' = Taken /\ (fetched' = 0 => fetched = 0)
                         /\ \A u \in Updates : pc'[u] = "received" => pc[u] = "received"
  PROVE  Heard'
  <1>1. HeardInOrder'
    BY DEF Heard, HeardInOrder
  <1>2. HeardHere'
    <2> SUFFICES ASSUME up' # "down" PROVE HeardHere'
      BY DEF HeardHere
    <2>1. \A i \in base + 1 .. Len(rows) : i \in 1 .. Len(rows) /\ rows[i].content.of \in Updates
      BY RowsTyping
    <2>2. QED
      BY <2>1 DEF Heard, HeardHere
  <1>3. QED
    BY <1>1, <1>2 DEF Heard

(* A row more at the end of the table.                                     *)
LEMMA StoreKeepsHeard ==
  ASSUME Typed, InLine, Heard, NEW u \in Updates, Step(u), up # "down",
         Len(rows') = Len(rows) + 1, \A i \in 1 .. Len(rows) : rows'[i] = rows[i],
         rows'[Len(rows')].role = "user" =>
           pc[u] = "received" /\ rows'[Len(rows')].content.of = u /\ pc'[u] # "received"
  PROVE  Heard'
  <1>1. /\ UNCHANGED <<base, up, fetched, queue>> /\ Taken' = Taken /\ u = Taken /\ fetched # 0
        /\ pc'[u] # "received" /\ \A v \in Updates \ {u} : pc'[v] = pc[v]
    BY StepFrame DEF TaskFrame, InLine, Taken, NobodyRuns
  <1>2. \A i \in base + 1 .. Len(rows) :
          /\ i \in 1 .. Len(rows) /\ rows[i].content.of \in Updates /\ rows'[i] = rows[i]
          /\ rows[i].role = "user" => rows[i].content.of <= Taken /\ pc[rows[i].content.of] # "received"
    BY <1>1, RowsTyping DEF Heard, HeardHere
  <1>3. \A i \in base + 1 .. Len(rows) + 1 : i \in base + 1 .. Len(rows) \/ i = Len(rows')
    BY RowsTyping
  <1>4. Taken \in Int /\ \A v \in Updates : v \in Nat
    BY LineTyping
  <1>5. HeardHere'
    BY <1>1, <1>2, <1>3, <1>4 DEF HeardHere
  <1>6. HeardInOrder'
    <2> SUFFICES ASSUME NEW i \in base + 1 .. Len(rows) + 1, NEW j \in base + 1 .. Len(rows) + 1,
                        i < j, rows'[i].role = "user", rows'[j].role = "user"
                 PROVE  rows'[i].content.of < rows'[j].content.of
      BY <1>1 DEF HeardInOrder
    <2>1. i \in base + 1 .. Len(rows)
      BY RowsTyping
    <2>2. CASE j \in base + 1 .. Len(rows)
      BY <1>2, <2>1, <2>2 DEF Heard, HeardInOrder
    <2>3. CASE j = Len(rows')
      BY <1>1, <1>2, <1>4, <2>1, <2>3
    <2>4. QED
      BY <1>3, <2>2, <2>3
  <1>7. QED
    BY <1>5, <1>6 DEF Heard

LEMMA HeardNext == Typed /\ InLine /\ Heard /\ [Next]_vars => Heard'
  <1> SUFFICES ASSUME Typed, InLine, Heard, [Next]_vars PROVE Heard'
    OBVIOUS
  <1>1. CASE \/ \E c \in Chats, form \in Forms : Post(c, form)
             \/ Tick \/ PollUnanswered \/ Stop \/ UNCHANGED vars
    <2>1. UNCHANGED <<rows, base, fetched, queue, pc>> /\ (up' # "down" => up # "down")
      BY <1>1 DEF Post, Tick, PollUnanswered, Stop, Ask, vars, updater, tasks, counts
    <2>2. QED
      BY <2>1, QuietKeepsHeard DEF Taken
  <1>2. CASE Poll
    <2>1. /\ UNCHANGED <<rows, base, pc>> /\ up = "up" /\ up' = "up" /\ fetched' # 0
      BY <1>2, LineTyping DEF Poll, Ask, tasks, counts, Later
    <2>2. CASE fetched # 0
      BY <1>2, <2>1, <2>2, PollInLine, QuietKeepsHeard
    <2>3. CASE fetched = 0
      <3>1. base = Len(rows)
        BY <2>1, <2>3 DEF Heard, HeardHere
      <3>2. QED
        BY <2>1, <3>1, RowsTyping DEF Heard, HeardHere, HeardInOrder
    <2>4. QED
      BY <2>2, <2>3
  <1>3. CASE Boot
    <2>1. rows' = rows /\ base' = Len(rows) /\ Len(rows) \in Nat
      BY <1>3, RowsTyping DEF Boot, OpenTable
    <2>2. QED
      BY <2>1 DEF Heard, HeardHere, HeardInOrder
  <1>4. CASE Crash \/ Exit
    <2>1. UNCHANGED <<rows, base>> /\ up' = "down"
      BY <1>4 DEF Crash, Exit, LoseMemory
    <2>2. QED
      BY <2>1, QuietKeepsHeard
  <1>5. CASE Dispatch
    <2>1. UNCHANGED <<rows, base, up, fetched>>
      BY <1>5 DEF Dispatch, counts
    <2>2. /\ Taken' = Taken + 1 /\ fetched # 0 /\ up # "down"
          /\ \A v \in Updates : pc'[v] = "received" => v = Taken + 1
      BY <1>5, DispatchInLine DEF Dispatch
    <2>3. \A i \in base + 1 .. Len(rows) : i \in 1 .. Len(rows) /\ rows[i].content.of \in Updates
      BY RowsTyping
    <2>4. Taken \in Int /\ \A v \in Updates : v \in Nat
      BY LineTyping
    <2>5. HeardHere'
      BY <2>1, <2>2, <2>3, <2>4 DEF Heard, HeardHere
    <2>6. QED
      BY <2>1, <2>5 DEF Heard, HeardInOrder
  <1>6. ASSUME NEW u \in Updates, Step(u) PROVE Heard'
    <2>0. up # "down" /\ UNCHANGED <<up, fetched, queue, base>>
      BY <1>6, StepFrame DEF TaskFrame, InLine, NobodyRuns
    <2>1. CASE AppendUser(u)
      <3>1. pc[u] = "received" /\ pc'[u] # "received"
        BY <1>6, <2>1, StepFrame DEF AppendUser, TaskFrame
      <3>2. QED
        BY <1>6, <2>0, <2>1, <3>1, Stored, StoreKeepsHeard
    <2>2. CASE AppendAssistant(u)
      <3>1. rows'[Len(rows')].role # "user"
        BY <2>2, Stored
      <3>2. QED
        BY <1>6, <2>0, <2>2, <3>1, Stored, StoreKeepsHeard
    <2>3. CASE UNCHANGED rows
      <3>1. \A v \in Updates : pc'[v] = "received" => pc[v] = "received"
        BY <1>6, StepFrame DEF TaskFrame
      <3>2. QED
        BY <2>0, <2>3, <3>1, QuietKeepsHeard DEF Taken
    <2>4. QED
      BY <1>6, <2>1, <2>2, <2>3, WhoStores
  <1>7. QED
    BY <1>1, <1>2, <1>3, <1>4, <1>5, <1>6 DEF Next

(* Until the next start of the process, questions enter the record in the  *)
(* order Telegram accepted them (telegram.py 198-205).                     *)
THEOREM QuestionsInOrder == Spec => []HeardInOrder
  <1>1. Typed /\ Delivery /\ Heard /\ [Next]_vars => Heard'
    BY HeardNext DEF Delivery
  <1>2. Heard => HeardInOrder
    BY DEF Heard
  <1>3. QED
    BY <1>1, <1>2, HeardInit, DeliveryInvariant, PTL DEF Spec

-----------------------------------------------------------------------------
(* What the chats get, and what is on record of it.                        *)

(* The texts a step of a task sends.                                       *)
LEMMA WhoSends ==
  ASSUME NEW u \in Updates, Step(u)
  PROVE  \/ UNCHANGED wire
         \/ /\ wire' = Append(wire, StatusLine(u)) /\ UNCHANGED rows
            /\ pc[u] = "exhausted" /\ \E how \in Outcomes : Return(u, how)
         \/ /\ wire' = Append(wire, out[u]) /\ UNCHANGED rows
            /\ pc[u] = "saved" /\ \E how \in Outcomes : Return(u, how)
  <1>1. CASE SendStatus(u) \/ SendReply(u)
    BY <1>1 DEF SendStatus, SendReply, ReplyText, Outcomes
  <1>2. CASE ~(SendStatus(u) \/ SendReply(u))
    BY <1>2 DEF Step, Ignore, AppendUser, ReadHistory, ProviderReplies, ProviderFails,
       AppendAssistant, StoreFails
  <1>3. QED
    BY <1>1, <1>2

LEMMA SentText ==
  ASSUME Typed, NEW u \in Updates, NEW t, wire' = Append(wire, t)
  PROVE  /\ Len(wire) \in Nat /\ DOMAIN wire = 1 .. Len(wire) /\ DOMAIN wire' = 1 .. Len(wire) + 1
         /\ \A k \in 1 .. Len(wire) : wire'[k] = wire[k]
         /\ wire'[Len(wire) + 1] = t
  <1>1. wire \in Seq(Texts)
    BY DEF Typed, TypeOK
  <1>2. QED
    BY <1>1, AppendProperties, LenProperties

(* An update is invited if it is a text of a chat on the allowlist.        *)
Invited(u) == u <= Len(posted) /\ Wanted(u)

(* All that outlives a handling is about invited updates.                  *)
Traced ==
  /\ \A u \in Updates : pc[u] \notin {"idle", "received"} => Invited(u)
  /\ \A u \in Updates : outcome[u] \notin {"none", "dropped"} => Invited(u)
  /\ \A i \in DOMAIN rows : Invited(rows[i].content.of)
  /\ \A k \in DOMAIN wire : Invited(wire[k].of)

LEMMA TracedInit == Init => Traced
  BY EmptySeq DEF Init, Traced

LEMMA WireTyping ==
  ASSUME Typed
  PROVE  \A k \in DOMAIN wire : wire[k] \in Texts /\ wire[k].of \in Updates
  <1>1. wire \in Seq(Texts)
    BY DEF Typed, TypeOK
  <1>2. \A k \in DOMAIN wire : wire[k] \in Texts
    <2> HIDE DEF Texts
    <2>1. QED
      BY <1>1, ElementOfSeq
  <1>3. QED
    BY <1>2 DEF Texts

LEMMA InvitedStays ==
  ASSUME Typed, PostedGrows, NEW u \in Updates, Invited(u), Len(posted') \in Nat
  PROVE  Invited(u)'
  <1>1. u \in 1 .. Len(posted) /\ u <= Len(posted')
    BY LineTyping DEF Invited, PostedGrows
  <1>2. QED
    BY <1>1 DEF Invited, Wanted, ChatOf, PostedGrows

LEMMA TracedNext == Typed /\ Typed' /\ Traced /\ [Next]_vars => Traced'
  <1> SUFFICES ASSUME Typed, Typed', Traced, [Next]_vars PROVE Traced'
    OBVIOUS
  <1>0. Len(posted') \in Nat /\ Len(posted) \in Nat
    <2>1. posted' \in Seq([chat : Chats, form : Forms])
      BY DEF Typed, TypeOK
    <2>2. QED
      BY <2>1, LenProperties, LineTyping
  <1>1. ASSUME PostedGrows, UNCHANGED <<rows, wire, outcome>>,
               \A u \in Updates : pc'[u] \in {"idle", "received"} \/ pc'[u] = pc[u]
        PROVE  Traced'
    <2>1. \A u \in Updates : Invited(u) => Invited(u)'
      BY <1>0, <1>1, InvitedStays
    <2>2. \A i \in DOMAIN rows : rows[i].content.of \in Updates
      BY RowsTyping
    <2>3. QED
      BY <1>1, <2>1, <2>2, WireTyping DEF Traced
  <1>2. CASE \E c \in Chats, form \in Forms : Post(c, form)
    <2>1. PostedGrows
      BY <1>0, <1>2 DEF Post, PostedGrows, Typed, TypeOK
    <2>2. QED
      BY <1>1, <1>2, <2>1 DEF Post, tasks
  <1>3. CASE Poll \/ PollUnanswered \/ Stop \/ Tick \/ Boot \/ UNCHANGED vars
    <2>1. UNCHANGED <<posted, rows, wire, outcome, pc>>
      BY <1>3 DEF Poll, PollUnanswered, Stop, Tick, Boot, OpenTable, telegram, tasks, vars
    <2>2. QED
      BY <1>0, <1>1, <2>1 DEF PostedGrows
  <1>4. CASE Crash \/ Exit
    <2>1. UNCHANGED <<posted, rows, wire, outcome>> /\ \A u \in Updates : pc'[u] = "idle"
      BY <1>4 DEF Crash, Exit, LoseMemory, telegram
    <2>2. QED
      BY <1>0, <1>1, <2>1 DEF PostedGrows
  <1>5. CASE Dispatch
    <2>1. UNCHANGED <<posted, rows, wire, outcome>> /\ pc' = [pc EXCEPT ![Head(queue)] = "received"]
      BY <1>5 DEF Dispatch, telegram
    <2>2. \A u \in Updates : pc'[u] \in {"idle", "received"} \/ pc'[u] = pc[u]
      BY <2>1 DEF Typed, TypeOK
    <2>3. QED
      BY <1>0, <1>1, <2>1, <2>2 DEF PostedGrows
  <1>6. ASSUME NEW u \in Updates, Step(u) PROVE Traced'
    <2>1. UNCHANGED posted /\ TaskFrame(u) /\ \A v \in Updates : Invited(v)' <=> Invited(v)
      BY <1>6, StepFrame DEF Invited, Wanted, ChatOf
    <2>2. u <= Len(posted)
      BY <2>1 DEF TaskFrame, Typed, RunningPosted
    <2>3. Invited(u) \/ (Ignore(u) /\ ~Wanted(u))
      <3>1. CASE pc[u] = "received"
        <4>1. Wanted(u) \/ Ignore(u)
          BY <1>6, <3>1 DEF Step, AppendUser, ReadHistory, ProviderReplies, ProviderFails, SendStatus,
             AppendAssistant, SendReply, StoreFails
        <4>2. QED
          BY <2>2, <4>1 DEF Invited
      <3>2. CASE pc[u] # "received"
        BY <2>1, <3>2 DEF TaskFrame, Traced
      <3>3. QED
        BY <3>1, <3>2
    <2>4. CASE Ignore(u)
      <3>1. /\ UNCHANGED <<posted, rows, wire>> /\ pc'[u] = "idle" /\ outcome'[u] = "dropped"
            /\ \A v \in Updates \ {u} : pc'[v] = pc[v] /\ outcome'[v] = outcome[v]
        BY <2>1, <2>4 DEF Ignore, Return, Typed, TypeOK, TaskFrame
      <3>2. \A i \in DOMAIN rows : rows[i].content.of \in Updates
        BY RowsTyping
      <3>3. QED
        BY <2>1, <3>1, <3>2, WireTyping DEF Traced
    <2>5. CASE Invited(u)
      <3>1. \A v \in Updates : /\ pc'[v] \notin {"idle", "received"} => Invited(v)'
                               /\ outcome'[v] \notin {"none", "dropped"} => Invited(v)'
        BY <2>1, <2>5 DEF TaskFrame, Traced
      <3>2. \A i \in DOMAIN rows' : Invited(rows'[i].content.of)
        <4>1. CASE UNCHANGED rows
          BY <4>1 DEF Traced
        <4>2. CASE AppendUser(u) \/ AppendAssistant(u)
          <5>1. \A i \in DOMAIN rows' : i \in 1 .. Len(rows) \/ i = Len(rows')
            BY <4>2, Stored, RowsTyping
          <5>2. \A i \in 1 .. Len(rows) : i \in DOMAIN rows /\ rows'[i] = rows[i]
            BY <4>2, Stored, RowsTyping
          <5>3. rows'[Len(rows')].content.of = u
            BY <4>2, Stored
          <5>4. QED
            BY <2>5, <5>1, <5>2, <5>3 DEF Traced
        <4>3. QED
          BY <1>6, <4>1, <4>2, WhoStores
      <3>3. \A k \in DOMAIN wire' : Invited(wire'[k].of)
        <4>1. CASE UNCHANGED wire
          BY <4>1 DEF Traced
        <4>2. ASSUME NEW t, t.of = u, wire' = Append(wire, t)
              PROVE  \A k \in DOMAIN wire' : Invited(wire'[k].of)
            <5>1. \A k \in DOMAIN wire' : (k \in DOMAIN wire /\ wire'[k] = wire[k]) \/ wire'[k] = t
            BY <4>2, SentText
          <5>2. QED
            BY <2>5, <4>2, <5>1 DEF Traced
        <4>3. StatusLine(u).of = u /\ (pc[u] = "saved" => out[u].of = u)
          BY DEF StatusLine, Typed, OutIsOwnReply
        <4>4. QED
          BY <1>6, <4>1, <4>2, <4>3, WhoSends
      <3>4. QED
        BY <2>1, <3>1, <3>2, <3>3 DEF Traced, Invited, Wanted, ChatOf
    <2>6. QED
      BY <2>3, <2>4, <2>5
  <1>7. QED
    BY <1>2, <1>3, <1>4, <1>5, <1>6 DEF Next

LEMMA TracedInvariant == Spec => [](Typed /\ Traced)
  <1>1. Typed /\ Traced /\ [Next]_vars => (Typed /\ Traced)'
    BY TypedNext, TracedNext
  <1>2. QED
    BY <1>1, TypedInit, TracedInit, PTL DEF Spec

(* A chat off the allowlist, or an update that is no text, gets as far as  *)
(* the filter: nothing is stored, sent or asked for it, in any life        *)
(* (telegram.py 115-120, 204).                                             *)
THEOREM StrangersAreIgnored == Spec => []StrangersLeaveNoTrace
  <1>1. Typed /\ Traced => StrangersLeaveNoTrace
    <2> SUFFICES ASSUME Typed, Traced, NEW u \in 1 .. Len(posted), ~Wanted(u)
                 PROVE  /\ pc[u] \in {"idle", "received"}
                        /\ outcome[u] \in {"none", "dropped"}
                        /\ \A i \in DOMAIN rows : rows[i].content.of # u
                        /\ \A k \in DOMAIN wire : wire[k].of # u
      BY DEF StrangersLeaveNoTrace, Wanted, ChatOf
    <2>1. u \in Updates /\ ~Invited(u)
      BY LineTyping DEF Invited
    <2>2. QED
      BY <2>1 DEF Traced
  <1>2. QED
    BY <1>1, TracedInvariant, PTL

-----------------------------------------------------------------------------
(* A reply is on record, for the chat it answers.                          *)
Kept(t) ==
  \E i \in DOMAIN rows :
    rows[i].role = "assistant" /\ rows[i].content = t /\ rows[i].chat = ChatOf(t.of)

Fits(t) == t.kind \in {"whole", "cut"}

(* Only replies that fit are on record.                                    *)
RowsAsSent == \A i \in DOMAIN rows : rows[i].role = "assistant" => Fits(rows[i].content)

OnRecord ==
  /\ RowsAsSent
  /\ \A k \in DOMAIN wire :
       \/ wire[k].kind = "apology"
       \/ Fits(wire[k]) /\ Kept(wire[k])

LEMMA OnRecordInit == Init => OnRecord
  BY EmptySeq DEF Init, OnRecord, RowsAsSent

(* A step that stores and sends nothing.                                   *)
LEMMA QuietOnRecord ==
  ASSUME Typed, Traced, OnRecord, UNCHANGED <<rows, wire>>, PostedGrows
  PROVE  OnRecord'
  <1>1. \A k \in DOMAIN wire : wire[k].of \in 1 .. Len(posted)
    BY WireTyping, LineTyping DEF Traced, Invited
  <1>2. \A k \in DOMAIN wire : posted'[wire[k].of] = posted[wire[k].of]
    BY <1>1 DEF PostedGrows
  <1>3. RowsAsSent'
    BY DEF OnRecord, RowsAsSent, Fits
  <1>4. QED
    BY <1>2, <1>3 DEF OnRecord, Kept, Fits, ChatOf

LEMMA StepOnRecord ==
  ASSUME Typed, Exchanges, OnRecord, NEW u \in Updates, Step(u)
  PROVE  OnRecord'
  <1>1. UNCHANGED posted
    BY StepFrame
  <1>2. CASE AppendUser(u) \/ AppendAssistant(u)
    <2>1. /\ \A i \in DOMAIN rows' : i \in DOMAIN rows \/ i = Len(rows')
          /\ \A i \in DOMAIN rows : i \in DOMAIN rows' /\ rows'[i] = rows[i]
      BY <1>2, Stored, RowsTyping
    <2>2. rows'[Len(rows')].role = "assistant" => Fits(rows'[Len(rows')].content)
      BY <1>2, Stored DEF Fits
    <2>3. RowsAsSent'
      BY <2>1, <2>2 DEF OnRecord, RowsAsSent, Fits
    <2>4. UNCHANGED wire
      BY <1>2 DEF AppendUser, AppendAssistant
    <2>5. \A t : Kept(t) => Kept(t)'
      BY <1>1, <2>1 DEF Kept, ChatOf
    <2>6. \A k \in DOMAIN wire : wire[k].kind = "apology" \/ (Fits(wire[k]) /\ Kept(wire[k])')
      <3> SUFFICES ASSUME NEW k \in DOMAIN wire, wire[k].kind # "apology"
                   PROVE  Fits(wire[k]) /\ Kept(wire[k])'
        OBVIOUS
      <3>1. Fits(wire[k]) /\ Kept(wire[k])
        BY DEF OnRecord
      <3>2. QED
        BY <1>1, <2>1, <2>4, <3>1 DEF Kept, ChatOf
    <2>7. QED
      BY <2>3, <2>4, <2>6 DEF OnRecord, Fits
  <1>3. CASE UNCHANGED rows
    <2>1. RowsAsSent'
      BY <1>3 DEF OnRecord, RowsAsSent, Fits
    <2>2. ASSUME NEW t, wire' = Append(wire, t), t.kind = "apology" \/ (Fits(t) /\ Kept(t))
          PROVE  OnRecord'
      <3>1. \A k \in DOMAIN wire' : (k \in DOMAIN wire /\ wire'[k] = wire[k]) \/ wire'[k] = t
        BY <2>2, SentText
      <3>2. \A k \in DOMAIN wire' :
              wire'[k].kind = "apology" \/ (Fits(wire'[k]) /\ Kept(wire'[k]))
        BY <2>2, <3>1 DEF OnRecord
      <3>3. QED
        BY <1>1, <1>3, <2>1, <3>2 DEF OnRecord, Kept, Fits, ChatOf
    <2>3. CASE UNCHANGED wire
      BY <1>1, <1>3, <2>1, <2>3 DEF OnRecord, Kept, Fits, ChatOf
    <2>4. StatusLine(u).kind = "apology"
      BY DEF StatusLine
    <2>5. pc[u] = "saved" => Fits(out[u]) /\ Kept(out[u])
      <3> SUFFICES ASSUME pc[u] = "saved" PROVE Fits(out[u]) /\ Kept(out[u])
        OBVIOUS
      <3>1. out[u].of = u /\ Fits(out[u])
        BY DEF Typed, OutIsOwnReply, Fits
      <3>2. Len(rows) \in DOMAIN rows
        BY RowsTyping DEF Exchanges, OpenExchange
      <3>3. QED
        BY <3>1, <3>2 DEF Exchanges, OpenExchange, Kept
    <2>6. QED
      BY <2>2, <2>3, <2>4, <2>5, WhoSends
  <1>4. QED
    BY <1>2, <1>3, WhoStores

LEMMA OnRecordNext == Typed /\ Exchanges /\ Traced /\ OnRecord /\ [Next]_vars => OnRecord'
  <1> SUFFICES ASSUME Typed, Exchanges, Traced, OnRecord, [Next]_vars PROVE OnRecord'
    OBVIOUS
  <1>1. CASE \E u \in Updates : Step(u)
    BY <1>1, StepOnRecord
  <1>2. CASE ~ \E u \in Updates : Step(u)
    <2>1. UNCHANGED <<rows, wire>>
      BY <1>2 DEF Next, Post, Poll, PollUnanswered, Stop, Boot, OpenTable, Crash, Exit, LoseMemory, Tick,
         Dispatch, vars
    <2>2. PostedGrows
      <3>1. CASE \E c \in Chats, form \in Forms : Post(c, form)
        <4>1. posted \in Seq([chat : Chats, form : Forms])
          BY DEF Typed, TypeOK
        <4>2. QED
          BY <3>1, <4>1, AppendProperties DEF Post, PostedGrows, Forms
      <3>2. CASE UNCHANGED posted
        BY <3>2, LineTyping DEF PostedGrows
      <3>3. QED
        BY <1>2, <3>1, <3>2 DEF Next, Poll, PollUnanswered, Stop, Boot, Crash, Exit, LoseMemory, Tick,
           Dispatch, vars, telegram
    <2>3. QED
      BY <2>1, <2>2, QuietOnRecord
  <1>3. QED
    BY <1>1, <1>2

(* What a chat was told is on disk as it was told, for that chat, but for  *)
(* the status line, which is not (telegram.py 128-149).                    *)
THEOREM WhatWasSaidIsStored == Spec => []WireInMemory
  <1>1. Typed /\ Exchanges /\ Traced /\ OnRecord /\ [Next]_vars
          => (Typed /\ Exchanges /\ Traced /\ OnRecord)'
    BY TypedNext, ExchangesNext, TracedNext, OnRecordNext
  <1>2. Init => Typed /\ Exchanges /\ Traced /\ OnRecord
    BY TypedInit, ExchangesInit, TracedInit, OnRecordInit
  <1>3. OnRecord => WireInMemory
    <2> SUFFICES ASSUME OnRecord, NEW k \in DOMAIN wire
                 PROVE  IF wire[k].kind = "apology" THEN ~Kept(wire[k])
                        ELSE Kept(wire[k]) /\ wire[k].kind \in {"whole", "cut"}
      BY DEF WireInMemory, Kept
    <2>1. wire[k].kind = "apology" => ~Kept(wire[k])
      BY DEF OnRecord, RowsAsSent, Kept, Fits
    <2>2. QED
      BY <2>1 DEF OnRecord, Fits
  <1>4. QED
    BY <1>1, <1>2, <1>3, PTL DEF Spec

-----------------------------------------------------------------------------
(* How often an update is spoken about.                                    *)
Said(u) == {k \in DOMAIN wire : wire[k].of = u}
Times(u) == Cardinality(Said(u))

(* Its handling in this life is over.                                      *)
Past(u) == up # "down" /\ u <= Taken /\ pc[u] = "idle"

(* Lives that ended: a stop under way is counted, but has not ended one.   *)
Lives == crashes + stops - (IF up = "stopping" THEN 1 ELSE 0)

SaidThisLife ==
  \A u \in Updates : Times(u) <= Lives + (IF Past(u) THEN 1 ELSE 0)

LEMMA SaidFinite ==
  ASSUME Typed, NEW u
  PROVE  IsFiniteSet(Said(u)) /\ Times(u) \in Nat
  <1>1. wire \in Seq(Texts)
    BY DEF Typed, TypeOK
  <1>2. IsFiniteSet(DOMAIN wire)
    BY <1>1, LenProperties, FS_Interval
  <1>3. IsFiniteSet(Said(u))
    BY <1>2, FS_Subset DEF Said
  <1>4. QED
    BY <1>3, FS_CardinalityType DEF Times

LEMMA LivesTyping ==
  ASSUME Typed
  PROVE  Lives \in Int /\ crashes \in Nat /\ stops \in Nat
  BY DEF Typed, TypeOK, Lives

LEMMA SaidInit == Init => SaidThisLife
  <1> SUFFICES ASSUME Init, NEW u \in Updates PROVE Times(u) <= Lives + (IF Past(u) THEN 1 ELSE 0)
    BY DEF SaidThisLife
  <1>1. Said(u) = {}
    BY EmptySeq DEF Init, Said
  <1>2. Times(u) = 0
    BY <1>1, FS_EmptySet DEF Times
  <1>3. Lives = 0 /\ ~Past(u)
    BY DEF Init, Lives, Past
  <1>4. QED
    BY <1>2, <1>3

(* A step that sends nothing: nothing is forgotten of what is past unless  *)
(* a life ends.                                                            *)
LEMMA SilentKeepsSaid ==
  ASSUME Typed, SaidThisLife, UNCHANGED wire, Lives' \in Int,
         \/ Lives' >= Lives + 1
         \/ Lives' >= Lives /\ \A u \in Updates : Past(u) => Past(u)'
  PROVE  SaidThisLife'
  <1> SUFFICES ASSUME NEW u \in Updates
               PROVE  Times(u)' <= Lives' + (IF Past(u)' THEN 1 ELSE 0)
    BY DEF SaidThisLife
  <1>1. Times(u)' = Times(u) /\ Times(u) \in Nat
    BY SaidFinite DEF Times, Said
  <1>2. Times(u) <= Lives + (IF Past(u) THEN 1 ELSE 0)
    BY DEF SaidThisLife
  <1>3. QED
    BY <1>1, <1>2, LivesTyping

(* A message about the update that is being handled.                       *)
LEMMA SpeakingKeepsSaid ==
  ASSUME Typed, InLine, SaidThisLife, NEW u \in Updates, Step(u),
         NEW t, t.of = u, wire' = Append(wire, t), pc'[u] = "idle"
  PROVE  SaidThisLife'
  <1>1. /\ UNCHANGED <<up, fetched, queue, crashes, stops>> /\ pc[u] # "idle"
        /\ \A v \in Updates \ {u} : pc'[v] = pc[v]
    BY StepFrame DEF TaskFrame
  <1>2. Lives' = Lives /\ Taken' = Taken /\ u = Taken /\ up # "down" /\ Taken \in Int
    BY <1>1, LineTyping DEF Lives, Taken, InLine, NobodyRuns
  <1> SUFFICES ASSUME NEW v \in Updates
               PROVE  Times(v)' <= Lives + (IF Past(v)' THEN 1 ELSE 0)
    BY <1>2 DEF SaidThisLife
  <1>3. Times(v) <= Lives + (IF Past(v) THEN 1 ELSE 0) /\ Times(v) \in Nat
    BY SaidFinite DEF SaidThisLife
  <1>4. CASE v = u
    <2>1. Said(v)' = Said(v) \union {Len(wire) + 1} /\ Len(wire) + 1 \notin Said(v)
      BY <1>4, SentText DEF Said
    <2>2. Times(v)' = Times(v) + 1
      BY <2>1, SaidFinite, FS_AddElement DEF Times
    <2>3. ~Past(v) /\ Past(v)'
      BY <1>1, <1>2, <1>4 DEF Past
    <2>4. QED
      BY <1>3, <2>2, <2>3, LivesTyping
  <1>5. CASE v # u
    <2>1. Said(v)' = Said(v)
      BY <1>5, SentText DEF Said
    <2>2. Past(v)' <=> Past(v)
      BY <1>1, <1>2, <1>5 DEF Past
    <2>3. QED
      BY <1>3, <2>1, <2>2 DEF Times
  <1>6. QED
    BY <1>4, <1>5

LEMMA SaidNext == Typed /\ Typed' /\ InLine /\ SaidThisLife /\ [Next]_vars => SaidThisLife'
  <1> SUFFICES ASSUME Typed, Typed', InLine, SaidThisLife, [Next]_vars PROVE SaidThisLife'
    OBVIOUS
  <1>0. Lives' \in Int /\ Lives \in Int /\ crashes \in Nat /\ stops \in Nat
    <2>1. crashes' \in Nat /\ stops' \in Nat
      BY DEF Typed, TypeOK
    <2>2. Lives' \in Int
      BY <2>1 DEF Lives
    <2>3. QED
      BY <2>2, LivesTyping
  <1>1. CASE \/ \E c \in Chats, form \in Forms : Post(c, form)
             \/ Tick \/ PollUnanswered \/ UNCHANGED vars
    <2>1. UNCHANGED <<wire, up, fetched, queue, pc, crashes, stops>>
      BY <1>1 DEF Post, Tick, PollUnanswered, vars, updater, tasks, counts
    <2>2. QED
      BY <1>0, <2>1, SilentKeepsSaid DEF Lives, Past, Taken
  <1>2. CASE Stop
    <2>1. /\ UNCHANGED <<wire, fetched, queue, pc, crashes>> /\ up = "up" /\ up' = "stopping"
          /\ stops' = stops + 1
      BY <1>2 DEF Stop, updater, tasks
    <2>2. Lives' = Lives /\ \A u \in Updates : Past(u) => Past(u)'
      BY <1>0, <2>1 DEF Lives, Past, Taken
    <2>3. QED
      BY <1>0, <2>1, <2>2, SilentKeepsSaid
  <1>3. CASE Boot
    <2>1. UNCHANGED <<wire, crashes, stops>> /\ up = "down" /\ up' = "up"
      BY <1>3 DEF Boot
    <2>2. QED
      BY <1>0, <2>1, SilentKeepsSaid DEF Lives, Past
  <1>4. CASE Crash
    <2>1. UNCHANGED <<wire, stops>> /\ crashes' = crashes + 1 /\ up' = "down"
      BY <1>4 DEF Crash, LoseMemory
    <2>2. Lives' >= Lives + 1
      BY <1>0, <2>1 DEF Lives
    <2>3. QED
      BY <1>0, <2>1, <2>2, SilentKeepsSaid
  <1>5. CASE Exit
    <2>1. UNCHANGED <<wire, crashes, stops>> /\ up = "stopping" /\ up' = "down"
      BY <1>5 DEF Exit, LoseMemory
    <2>2. Lives' >= Lives + 1
      BY <1>0, <2>1 DEF Lives
    <2>3. QED
      BY <1>0, <2>1, <2>2, SilentKeepsSaid
  <1>6. CASE Poll
    <2>1. UNCHANGED <<wire, up, pc, crashes, stops>>
      BY <1>6 DEF Poll, tasks, counts
    <2>2. Taken' >= Taken /\ Taken' \in Int
      <3>1. fetched = 0 => Taken = 0
        <4> SUFFICES ASSUME fetched = 0 PROVE Taken = 0
          OBVIOUS
        <4>1. Len(queue) = 0
          BY EmptySeq DEF InLine
        <4>2. QED
          BY <4>1 DEF Taken
      <3>2. (confirmed' \in Int /\ confirmed' >= 0) \/ fetched # 0
        BY <1>6, PollInLine, LineTyping
      <3>3. QED
        BY <1>6, <3>1, <3>2, PollInLine, LineTyping
    <2>3. \A u \in Updates : Past(u) => Past(u)'
      BY <2>1, <2>2, LineTyping DEF Past
    <2>4. QED
      BY <1>0, <2>1, <2>3, SilentKeepsSaid DEF Lives
  <1>7. CASE Dispatch
    <2>1. UNCHANGED <<wire, up, crashes, stops>>
      BY <1>7 DEF Dispatch, counts
    <2>2. \A u \in Updates : Past(u) => Past(u)'
      BY <1>7, <2>1, DispatchInLine, LineTyping DEF Past
    <2>3. QED
      BY <1>0, <2>1, <2>2, SilentKeepsSaid DEF Lives
  <1>8. ASSUME NEW u \in Updates, Step(u) PROVE SaidThisLife'
    <2>1. CASE UNCHANGED wire
      <3>1. UNCHANGED <<up, fetched, queue, crashes, stops>>
        BY <1>8, StepFrame
      <3>2. \A v \in Updates : pc[v] = "idle" => pc'[v] = "idle"
        BY <1>8, StepFrame DEF TaskFrame
      <3>3. QED
        BY <1>0, <2>1, <3>1, <3>2, SilentKeepsSaid DEF Lives, Past, Taken
    <2>2. CASE ~UNCHANGED wire
      <3>1. PICK t : wire' = Append(wire, t) /\ t.of = u
        <4>1. StatusLine(u).of = u /\ (pc[u] = "saved" => out[u].of = u)
          BY DEF StatusLine, Typed, OutIsOwnReply
        <4>2. QED
          BY <1>8, <2>2, <4>1, WhoSends
      <3>2. pc'[u] = "idle"
        BY <1>8, <2>2, WhoSends DEF Return, Typed, TypeOK
      <3>3. QED
        BY <1>8, <3>1, <3>2, SpeakingKeepsSaid
    <2>3. QED
      BY <2>1, <2>2
  <1>9. QED
    BY <1>1, <1>2, <1>3, <1>4, <1>5, <1>6, <1>7, <1>8 DEF Next

(* A message of the bot about an update costs a life: within one, nothing  *)
(* is sent twice, whatever reply_text raises and whichever updates the     *)
(* next life is given again (telegram.py 136, 149).                        *)
THEOREM SaidOnce == Spec => []SaidOncePerLife
  <1>1. Typed /\ Delivery /\ SaidThisLife /\ [Next]_vars
          => (Typed /\ Delivery /\ SaidThisLife)'
    BY TypedNext, InLineNext, TakenHandledNext, SaidNext DEF Delivery
  <1>2. Init => Typed /\ Delivery /\ SaidThisLife
    BY TypedInit, InLineInit, TakenHandledInit, SaidInit DEF Delivery
  <1>3. Typed /\ SaidThisLife => SaidOncePerLife
    <2> SUFFICES ASSUME Typed, SaidThisLife, NEW u \in Updates
                 PROVE  Times(u) <= 1 + crashes + stops
      BY DEF SaidOncePerLife, Times, Said
    <2>1. Times(u) \in Nat /\ Times(u) <= Lives + (IF Past(u) THEN 1 ELSE 0)
      BY SaidFinite DEF SaidThisLife
    <2>2. QED
      BY <2>1, LivesTyping DEF Lives
  <1>4. QED
    BY <1>1, <1>2, <1>3, PTL DEF Spec

-----------------------------------------------------------------------------
(* The refinement of Dialogue.tla.                                         *)

(* Exchange and Record as functions of pc and of the table.                *)
Heeded == {"heard", "calling", "exhausted", "answered"}

Stage(f) ==
  IF \E u \in Updates : f[u] = "saved" THEN "answered"
  ELSE IF \E u \in Updates : f[u] \in Heeded THEN "heard" ELSE "idle"

Entry(row) == [chat |-> row.chat, role |-> row.role, content |-> row.content]
Recorded(table) == [i \in DOMAIN table |-> Entry(table[i])]

LEMMA ExchangeIsStage ==
  /\ Exchange = Stage(pc) /\ Record = Recorded(rows)
  /\ Exchange' = Stage(pc') /\ Record' = Recorded(rows')
  BY DEF Exchange, Stage, Heeded, Record, Recorded, Entry

LEMMA StageOfTask ==
  ASSUME NEW f, NEW u \in Updates, \A v \in Updates \ {u} : f[v] \in {"idle", "received"}
  PROVE  /\ f[u] = "saved" => Stage(f) = "answered"
         /\ f[u] \in Heeded => Stage(f) = "heard"
         /\ f[u] \in {"idle", "received"} => Stage(f) = "idle"
  BY DEF Stage, Heeded

LEMMA StageOfNobody ==
  ASSUME NEW f, \A v \in Updates : f[v] \in {"idle", "received"}
  PROVE  Stage(f) = "idle"
  BY DEF Stage, Heeded

LEMMA RecordedLength ==
  ASSUME NEW table, NEW n \in Nat, DOMAIN table = 1 .. n
  PROVE  /\ Len(Recorded(table)) = n
         /\ \A i \in 1 .. n : Recorded(table)[i] = Entry(table[i])
  <1> DEFINE T == {Entry(table[i]) : i \in 1 .. n}
  <1>1. Recorded(table) \in [1 .. n -> T]
    BY DEF Recorded
  <1>2. \A i \in 1 .. n : Recorded(table)[i] = Entry(table[i])
    BY DEF Recorded
  <1> HIDE DEF T
  <1>3. QED
    BY <1>1, <1>2, FunctionIsSeq

(* A row more is an entry more.                                            *)
LEMMA RecordGrows ==
  ASSUME NEW old, NEW new, NEW n \in Nat, DOMAIN old = 1 .. n, DOMAIN new = 1 .. n + 1,
         \A i \in 1 .. n : new[i] = old[i]
  PROVE  Recorded(new) = Append(Recorded(old), Entry(new[n + 1]))
  <1> DEFINE T == {Entry(new[i]) : i \in 1 .. n + 1}
             e == Entry(new[n + 1])
  <1>1. Recorded(new) \in [1 .. n + 1 -> T] /\ Recorded(old) \in [1 .. n -> T] /\ e \in T
    BY DEF Recorded
  <1>2. /\ \A i \in 1 .. n : Recorded(new)[i] = Recorded(old)[i]
        /\ Recorded(new)[n + 1] = e
    BY DEF Recorded
  <1> HIDE DEF T, e
  <1>3. Recorded(new) \in Seq(T) /\ Len(Recorded(new)) = n + 1
    BY <1>1, FunctionIsSeq
  <1>4. Recorded(old) \in Seq(T) /\ Len(Recorded(old)) = n
    BY <1>1, FunctionIsSeq
  <1>5. /\ Append(Recorded(old), e) \in Seq(T) /\ Len(Append(Recorded(old), e)) = n + 1
        /\ \A i \in 1 .. n : Append(Recorded(old), e)[i] = Recorded(old)[i]
        /\ Append(Recorded(old), e)[n + 1] = e
    BY <1>1, <1>4, AppendProperties
  <1>6. \A i \in 1 .. n + 1 : Recorded(new)[i] = Append(Recorded(old), e)[i]
    BY <1>2, <1>5
  <1>7. Recorded(new) = Append(Recorded(old), e)
    BY <1>3, <1>5, <1>6, SeqEqual
  <1>8. QED
    BY <1>7 DEF e

LEMMA DialogueInit == Init => Abstract!Init
  <1> SUFFICES ASSUME Init PROVE Abstract!Init
    OBVIOUS
  <1>1. wire = <<>> /\ Exchange = "idle"
    BY DEF Init, Exchange
  <1>2. Record = <<>>
    BY DEF Init, Record
  <1>3. QED
    BY <1>1, <1>2 DEF Abstract!Init

(* What the exchange of a running task has put last on record.             *)
LEMMA LatestEntry ==
  ASSUME Typed, Exchanges, NEW u \in Updates, pc[u] \in Heeded \union {"saved"}
  PROVE  /\ Abstract!Latest = Entry(rows[Len(rows)])
         /\ Abstract!Latest.chat = ChatOf(u)
         /\ pc[u] \in Heeded => Abstract!Latest.content = Message(u)
         /\ pc[u] = "saved" => Abstract!Latest.content = out[u]
  <1>1. /\ Len(rows) > 0 /\ rows[Len(rows)].chat = ChatOf(u)
        /\ pc[u] \in Heeded => rows[Len(rows)].content = Message(u)
        /\ pc[u] = "saved" => rows[Len(rows)].content = out[u]
    BY DEF Exchanges, OpenExchange, UserRow, Heeded
  <1>2. Len(Record) = Len(rows) /\ Record[Len(rows)] = Entry(rows[Len(rows)])
    BY <1>1, RowsTyping, RecordedLength, ExchangeIsStage
  <1>3. QED
    BY <1>1, <1>2 DEF Abstract!Latest, Entry

(* What the two storing steps do to the record of the conversation.        *)
LEMMA RecordOfStep ==
  ASSUME Typed, NEW u \in Updates, AppendUser(u) \/ AppendAssistant(u)
  PROVE  \E row : /\ Record' = Append(Record, [chat |-> ChatOf(u), role |-> row.role, content |-> row.content])
                  /\ AppendUser(u) => row.role = "user" /\ row.content = Message(u)
                  /\ AppendAssistant(u) => row.role = "assistant" /\ row.content = out'[u]
  <1> DEFINE row == rows'[Len(rows')]
  <1>1. /\ Len(rows) \in Nat /\ Len(rows') = Len(rows) + 1
        /\ DOMAIN rows = 1 .. Len(rows) /\ DOMAIN rows' = 1 .. Len(rows) + 1
        /\ \A i \in 1 .. Len(rows) : rows'[i] = rows[i]
    BY Stored, RowsTyping
  <1>2. Recorded(rows') = Append(Recorded(rows), Entry(rows'[Len(rows) + 1]))
    <2> DEFINE n == Len(rows)
               new == rows'
    <2>1. /\ n \in Nat /\ DOMAIN rows = 1 .. n /\ DOMAIN new = 1 .. n + 1
          /\ \A i \in 1 .. n : new[i] = rows[i]
      BY <1>1
    <2> HIDE DEF n, new
    <2>2. Recorded(new) = Append(Recorded(rows), Entry(new[n + 1]))
      BY <2>1, RecordGrows
    <2>3. QED
      BY <2>2 DEF n, new
  <1>3. rows'[Len(rows) + 1] = row
    BY <1>1
  <1>4. row.chat = ChatOf(u)
    BY Stored
  <1>5. /\ AppendUser(u) => row.role = "user" /\ row.content = Message(u)
        /\ AppendAssistant(u) => row.role = "assistant" /\ row.content = out'[u]
    BY Stored
  <1> HIDE DEF row
  <1>6. Record' = Append(Record, [chat |-> ChatOf(u), role |-> row.role, content |-> row.content])
    BY <1>2, <1>3, <1>4, ExchangeIsStage DEF Entry
  <1>7. QED
    BY <1>5, <1>6

(* A return that sends nothing gives the exchange up, if there was one.    *)
LEMMA EndingIsGivingUp ==
  ASSUME UNCHANGED <<rows, wire>>, Exchange' = "idle"
  PROVE  Abstract!Next \/ UNCHANGED Abstract!vars
  <1>1. UNCHANGED Record
    BY ExchangeIsStage
  <1>2. CASE Exchange = "idle"
    BY <1>1, <1>2 DEF Abstract!vars
  <1>3. CASE Exchange # "idle"
    BY <1>1, <1>3 DEF Abstract!GiveUp, Abstract!Next
  <1>4. QED
    BY <1>2, <1>3

LEMMA StepDialogue ==
  ASSUME Typed, InLine, Exchanges, NEW u \in Updates, Step(u)
  PROVE  Abstract!Next \/ UNCHANGED Abstract!vars
  <1>1. /\ pc[u] # "idle" /\ \A v \in Updates \ {u} : pc[v] = "idle" /\ pc'[v] = "idle"
    BY StepFrame DEF TaskFrame, InLine
  <1>2. /\ pc[u] = "saved" => Exchange = "answered"
        /\ pc[u] \in Heeded => Exchange = "heard"
        /\ pc[u] = "received" => Exchange = "idle"
    BY <1>1, StageOfTask, ExchangeIsStage
  <1>3. /\ pc'[u] = "saved" => Exchange' = "answered"
        /\ pc'[u] \in Heeded => Exchange' = "heard"
        /\ pc'[u] = "idle" => Exchange' = "idle"
    BY <1>1, StageOfTask, ExchangeIsStage
  <1>4. ASSUME UNCHANGED <<rows, wire>>, pc'[u] = "idle" PROVE Abstract!Next \/ UNCHANGED Abstract!vars
    BY <1>3, <1>4, EndingIsGivingUp
  <1>5. CASE AppendUser(u)
    <2>1. /\ pc[u] = "received" /\ pc'[u] \in Heeded /\ UNCHANGED wire
      BY <1>5 DEF AppendUser, Typed, TypeOK, Heeded
    <2>2. Record' = Append(Record, [chat |-> ChatOf(u), role |-> "user", content |-> Message(u)])
      BY <1>5, RecordOfStep
    <2>3. ChatOf(u) \in Chats
      BY <2>1, ChatKnown
    <2>4. Abstract!Hear(ChatOf(u), u)
      BY <1>2, <1>3, <2>1, <2>2 DEF Abstract!Hear, Abstract!Message, Message
    <2>5. QED
      BY <2>3, <2>4 DEF Abstract!Next
  <1>6. CASE AppendAssistant(u)
    <2>1. /\ pc[u] \in Heeded /\ pc'[u] = "saved" /\ UNCHANGED wire
      BY <1>6 DEF AppendAssistant, Typed, TypeOK, Heeded
    <2>2. Record' = Append(Record, [chat |-> ChatOf(u), role |-> "assistant", content |-> out'[u]])
      BY <1>6, RecordOfStep
    <2>3. out'[u] \in Abstract!Answers /\ out'[u].of = u
      BY <1>6, Stored DEF Abstract!Answers
    <2>4. Abstract!Latest.chat = ChatOf(u) /\ Abstract!Latest.content.of = u
      <3>1. Abstract!Latest.chat = ChatOf(u) /\ Abstract!Latest.content = Message(u)
        BY <2>1, LatestEntry
      <3>2. Message(u).of = u
        BY DEF Message
      <3>3. QED
        BY <3>1, <3>2
    <2>5. Abstract!Answer(out'[u])
      BY <1>2, <1>3, <2>1, <2>2, <2>3, <2>4 DEF Abstract!Answer
    <2>6. QED
      BY <2>3, <2>5 DEF Abstract!Next
  <1>7. CASE SendStatus(u)
    <2>1. pc[u] \in Heeded /\ pc'[u] = "idle" /\ UNCHANGED rows
      BY <1>7 DEF SendStatus, ReplyText, Return, Typed, TypeOK, Heeded
    <2>2. CASE UNCHANGED wire
      BY <1>4, <2>1, <2>2
    <2>3. CASE wire' = Append(wire, StatusLine(u))
      <3>1. StatusLine(u) = Abstract!Apology(Abstract!Latest.content.of)
        <4>1. Abstract!Latest.content = Message(u)
          BY <2>1, LatestEntry
        <4>2. Message(u).of = u
          BY DEF Message
        <4>3. Abstract!Latest.content.of = u
          BY <4>1, <4>2
        <4>4. QED
          BY <4>3 DEF StatusLine, Abstract!Apology
      <3>2. Abstract!Apologise
        BY <1>2, <1>3, <2>1, <2>3, <3>1, ExchangeIsStage DEF Abstract!Apologise
      <3>3. QED
        BY <3>2 DEF Abstract!Next
    <2>4. QED
      BY <1>7, <2>2, <2>3 DEF SendStatus, ReplyText
  <1>8. CASE SendReply(u)
    <2>1. pc[u] = "saved" /\ pc'[u] = "idle" /\ UNCHANGED rows
      BY <1>8 DEF SendReply, ReplyText, Return, Typed, TypeOK
    <2>2. CASE UNCHANGED wire
      BY <1>4, <2>1, <2>2
    <2>3. CASE wire' = Append(wire, out[u])
      <3>1. Abstract!Say
        BY <1>2, <1>3, <2>1, <2>3, LatestEntry, ExchangeIsStage DEF Abstract!Say
      <3>2. QED
        BY <3>1 DEF Abstract!Next
    <2>4. QED
      BY <1>8, <2>2, <2>3 DEF SendReply, ReplyText
  <1>9. CASE /\ ~AppendUser(u) /\ ~AppendAssistant(u) /\ ~SendStatus(u) /\ ~SendReply(u)
    <2>1. UNCHANGED <<rows, wire>>
      BY <1>9, WhoStores DEF Step, Ignore, ReadHistory, ProviderReplies, ProviderFails, StoreFails
    <2>2. CASE pc'[u] = "idle"
      BY <1>4, <2>1, <2>2
    <2>3. CASE pc'[u] # "idle"
      <3>1. pc[u] \in Heeded /\ pc'[u] \in Heeded
        BY <1>9, <2>3 DEF Step, Ignore, ReadHistory, ProviderReplies, ProviderFails, StoreFails, Return,
           Typed, TypeOK, Heeded
      <3>2. UNCHANGED Abstract!vars
        BY <1>2, <1>3, <2>1, <3>1, ExchangeIsStage DEF Abstract!vars
      <3>3. QED
        BY <3>2
    <2>4. QED
      BY <2>2, <2>3
  <1>10. QED
    BY <1>5, <1>6, <1>7, <1>8, <1>9

LEMMA NextDialogue ==
  ASSUME Typed, InLine, Exchanges, [Next]_vars
  PROVE  Abstract!Next \/ UNCHANGED Abstract!vars
  <1>1. CASE \E u \in Updates : Step(u)
    BY <1>1, StepDialogue
  <1>2. CASE Crash \/ Exit
    <2>1. UNCHANGED <<rows, wire>> /\ \A u \in Updates : pc'[u] = "idle"
      BY <1>2 DEF Crash, Exit, LoseMemory
    <2>2. Exchange' = "idle"
      BY <2>1, StageOfNobody, ExchangeIsStage
    <2>3. QED
      BY <2>1, <2>2, EndingIsGivingUp
  <1>3. CASE Dispatch
    <2>1. UNCHANGED <<rows, wire>>
      BY <1>3 DEF Dispatch
    <2>2. \A u \in Updates : pc'[u] \in {"idle", "received"}
      BY <1>3, DispatchInLine
    <2>3. QED
      BY <2>1, <2>2, StageOfNobody, ExchangeIsStage, EndingIsGivingUp
  <1>4. CASE UNCHANGED <<rows, wire, pc>>
    BY <1>4, ExchangeIsStage DEF Abstract!vars
  <1>5. QED
    BY <1>1, <1>2, <1>3, <1>4 DEF Next, Post, Poll, PollUnanswered, Stop, Boot, OpenTable, Tick, vars, tasks

(* The bot, with its updater, queue, provider chain, kills and restarts,   *)
(* is one abstract dialogue: each of its steps is a step of an exchange or *)
(* nothing the person can see.                                             *)
THEOREM BotKeepsDialogue == Spec => KeepsDialogue
  <1>1. Typed /\ InLine /\ Exchanges /\ [Next]_vars => (Typed /\ InLine /\ Exchanges)'
    BY TypedNext, InLineNext, ExchangesNext
  <1>2. Init => Typed /\ InLine /\ Exchanges
    BY TypedInit, InLineInit, ExchangesInit
  <1>3. Typed /\ InLine /\ Exchanges /\ [Next]_vars => [Abstract!Next]_Abstract!vars
    BY NextDialogue
  <1>4. QED
    BY <1>1, <1>2, <1>3, DialogueInit, PTL DEF Spec, KeepsDialogue, Abstract!Spec
=============================================================================
