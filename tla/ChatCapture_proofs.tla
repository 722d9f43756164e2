-------------------------- MODULE ChatCapture_proofs --------------------------
(***************************************************************************)
(* Theorems about ChatCapture.tla for any chats, deadline and number of    *)
(* updates: what the wait for a message offers, and what it may forget.    *)
(***************************************************************************)
EXTENDS ChatCapture, SequenceTheorems, TLAPS

Update == [chat : Chats, form : {"message", "other"}]

(* Every message between the backlog and update n was shown.               *)
SeenBefore(n) ==
  \A u \in DOMAIN posted :
    (backlog < u /\ u < n /\ posted[u].form = "message") => \E i \in DOMAIN shown : shown[i] = u

(* Polling goes on after what was shown, and after the backlog if it was   *)
(* cleared.                                                                *)
GoesOn ==
  /\ at = "polling" => offset <= local
  /\ \A i \in DOMAIN shown : shown[i] < offset
  /\ cleared => stale < offset \/ stale <= confirmed

(* What an offset, or Telegram, leaves behind was seen.                    *)
Seen ==
  /\ at # "clear" => SeenBefore(offset) /\ SeenBefore(confirmed + 1)
  /\ at = "polling" => SeenBefore(local)

InPlace ==
  /\ at = "clear" => shown = <<>> /\ confirmed = 0 /\ offset = 0
  /\ at = "confirm" => shown # <<>>

IInv == TypeOK /\ InPlace /\ GoesOn /\ Seen /\ OfferedOnce /\ FreshAfterClear
-----------------------------------------------------------------------------
LEMMA InitHolds == Init => IInv
<1> SUFFICES ASSUME Init PROVE IInv
  OBVIOUS
<1>1. /\ posted = <<>> /\ Len(posted) = 0 /\ confirmed = 0 /\ at = "clear" /\ offset = 0
      /\ local = 0 /\ spent = 0 /\ shown = <<>> /\ DOMAIN shown = {} /\ chat = "none"
      /\ stale = 0 /\ backlog = 0 /\ cleared = FALSE
  BY EmptySeq DEF Init
<1>2. posted \in Seq(Update) /\ shown \in Seq(1 .. Len(posted))
  BY <1>1, EmptySeq
<1>3. TypeOK
  <2>1. Deadline + Slowest \in Nat /\ MaxUpdates \in Nat
    BY CaptureAssumption
  <2>2. /\ confirmed \in 0 .. Len(posted) /\ Len(posted) <= MaxUpdates
        /\ offset \in 0 .. Len(posted) + 1 /\ local \in 0 .. Len(posted) + 1
        /\ spent \in 0 .. Deadline + Slowest
        /\ stale \in 0 .. Len(posted) /\ backlog \in 0 .. Len(posted)
    BY <1>1, <2>1
  <2>3. at \in Places /\ chat \in Chats \union {"none"} /\ cleared \in BOOLEAN
    BY <1>1 DEF Places
  <2>4. QED
    BY <1>2, <2>2, <2>3 DEF TypeOK, Update
<1>4. InPlace /\ GoesOn /\ Seen /\ OfferedOnce /\ FreshAfterClear
  BY <1>1 DEF InPlace, GoesOn, Seen, OfferedOnce, FreshAfterClear
<1>5. QED
  BY <1>3, <1>4 DEF IInv

(* The facts about the sequences of a state that the steps need.           *)
LEMMA Typing ==
  ASSUME TypeOK
  PROVE  /\ posted \in Seq(Update) /\ Len(posted) \in Nat /\ DOMAIN posted = 1 .. Len(posted)
         /\ confirmed \in 0 .. Len(posted)
         /\ offset \in 0 .. Len(posted) + 1 /\ local \in 0 .. Len(posted) + 1
         /\ shown \in Seq(1 .. Len(posted)) /\ Len(shown) \in Nat /\ DOMAIN shown = 1 .. Len(shown)
         /\ \A i \in DOMAIN shown : shown[i] \in 1 .. Len(posted)
         /\ stale \in 0 .. Len(posted) /\ backlog \in 0 .. Len(posted)
BY LenProperties, ElementOfSeq DEF TypeOK, Update

(* A step that only changes the place, the time spent and the answer.      *)
LEMMA AnsweredKeeps ==
  ASSUME IInv, UNCHANGED <<telegram, offset, local, shown, start>>,
         at' \in Places, spent' \in 0 .. Deadline + Slowest, chat' \in Chats \union {"none"},
         at' \in {"clear", "confirm", "polling"} => at' = at,
         at' # "clear" /\ at = "clear" => at' = "aborted"
  PROVE  IInv'
<1>1. UNCHANGED <<posted, confirmed, offset, local, shown, stale, backlog, cleared>>
  BY DEF telegram, start
<1>2. TypeOK' /\ InPlace'
  BY <1>1 DEF IInv, TypeOK, InPlace
<1>3. GoesOn' /\ Seen'
  <2>1. CASE at = "clear" /\ at' = "aborted"
    <3>1. SeenBefore(offset) /\ SeenBefore(confirmed + 1)
      BY <2>1, Typing DEF IInv, InPlace, SeenBefore
    <3>2. QED
      BY <1>1, <2>1, <3>1 DEF IInv, GoesOn, Seen, SeenBefore
  <2>2. CASE ~(at = "clear" /\ at' = "aborted")
    BY <1>1, <2>2 DEF IInv, GoesOn, Seen, SeenBefore
  <2>3. QED
    BY <2>1, <2>2
<1>4. OfferedOnce' /\ FreshAfterClear'
  BY <1>1 DEF IInv, OfferedOnce, FreshAfterClear
<1>5. QED
  BY <1>2, <1>3, <1>4 DEF IInv

(* Somebody writes: what was seen stays so, the new update comes after.    *)
LEMMA SendKeeps ==
  ASSUME IInv, NEW c \in Chats, NEW form \in {"message", "other"}, Send(c, form)
  PROVE  IInv'
<1> DEFINE update == [chat |-> c, form |-> form]
<1>1. UNCHANGED <<confirmed, at, offset, local, spent, shown, chat, stale, backlog, cleared>>
  BY DEF Send, start
<1>2. TypeOK
  BY DEF IInv
<1>3. /\ posted' \in Seq(Update) /\ Len(posted') = Len(posted) + 1
      /\ \A u \in 1 .. Len(posted) : posted'[u] = posted[u]
  <2>1. update \in Update /\ posted' = Append(posted, update) /\ posted \in Seq(Update)
    BY <1>2, Typing DEF Send, Update
  <2> HIDE DEF update, Update
  <2>2. QED
    BY <2>1, AppendProperties
<1>4. DOMAIN posted' = 1 .. Len(posted) + 1
  BY <1>3, LenProperties
<1>5. shown' \in Seq(1 .. Len(posted'))
  <2>1. 1 .. Len(posted) \subseteq 1 .. Len(posted')
    BY <1>2, <1>3, Typing
  <2>2. QED
    BY <1>1, <1>2, <2>1, Typing, SeqMonotonic
<1>6. TypeOK'
  <2>1. Len(posted') <= MaxUpdates
    BY <1>2, <1>3, Typing, CaptureAssumption DEF Send
  <2>2. /\ confirmed' \in 0 .. Len(posted') /\ stale' \in 0 .. Len(posted')
        /\ backlog' \in 0 .. Len(posted') /\ offset' \in 0 .. Len(posted') + 1
        /\ local' \in 0 .. Len(posted') + 1
    BY <1>1, <1>2, <1>3, Typing
  <2>3. QED
    BY <1>1, <1>2, <1>3, <1>5, <2>1, <2>2 DEF TypeOK, Update
<1>7. ASSUME NEW n \in 0 .. Len(posted) + 1, SeenBefore(n) PROVE SeenBefore(n)'
  <2> SUFFICES ASSUME NEW v \in 1 .. Len(posted) + 1, backlog < v, v < n,
                      posted'[v].form = "message"
               PROVE  \E i \in DOMAIN shown : shown[i] = v
    BY <1>1, <1>4 DEF SeenBefore
  <2>1. v \in DOMAIN posted /\ posted'[v] = posted[v]
    BY <1>2, <1>3, Typing
  <2>2. QED
    BY <1>7, <2>1 DEF SeenBefore
<1>8. Seen'
  BY <1>1, <1>2, <1>7, Typing DEF IInv, Seen
<1>9. QED
  BY <1>1, <1>6, <1>8 DEF IInv, InPlace, GoesOn, OfferedOnce, FreshAfterClear

(* Nothing was shown before the backlog is asked for.                      *)
LEMMA LeaveClearKeeps == IInv /\ (BacklogCleared \/ BacklogUnanswered) => IInv'
<1> SUFFICES ASSUME IInv, BacklogCleared \/ BacklogUnanswered PROVE IInv'
  OBVIOUS
<1>1. /\ at = "clear" /\ at' \in {"wait", "crashed"} /\ shown = <<>> /\ shown' = <<>>
      /\ UNCHANGED <<posted, local, spent, chat>> /\ stale' = Len(posted)
  BY DEF BacklogCleared, BacklogUnanswered, LeaveClear, IInv, InPlace
<1>2. TypeOK
  BY DEF IInv
<1>3. /\ confirmed' \in 0 .. Len(posted) /\ backlog' \in 0 .. Len(posted)
      /\ offset' \in 0 .. Len(posted) + 1 /\ cleared' \in BOOLEAN
      /\ confirmed' <= backlog' /\ offset' <= backlog' + 1
      /\ cleared' => Len(posted) < offset' \/ Len(posted) <= confirmed'
  <2>1. CASE BacklogCleared
    BY <1>1, <1>2, <2>1, Typing DEF BacklogCleared, OffsetAfter
  <2>2. CASE BacklogUnanswered
    <3>1. confirmed' \in {confirmed, Later(confirmed, Len(posted) - 1)}
      BY <2>2 DEF BacklogUnanswered
    <3>2. confirmed' \in 0 .. Len(posted)
      BY <1>2, <3>1, Typing DEF Later
    <3>3. offset' = 0 /\ cleared' = FALSE /\ backlog' = confirmed'
      BY <2>2 DEF BacklogUnanswered
    <3>4. Len(posted) \in Nat
      BY <1>2, Typing
    <3>5. offset' \in 0 .. Len(posted) + 1 /\ offset' <= backlog' + 1
      <4>1. \A n \in Nat : \A k \in 0 .. n : 0 \in 0 .. n + 1 /\ 0 <= k + 1
        OBVIOUS
      <4>2. QED
        BY <3>2, <3>3, <3>4, <4>1
    <3>6. confirmed' <= backlog'
      BY <3>2, <3>3, <3>4
    <3>7. QED
      BY <3>2, <3>3, <3>5, <3>6
  <2>3. QED
    BY <2>1, <2>2
<1>4. TypeOK' /\ InPlace'
  BY <1>1, <1>2, <1>3, Typing DEF TypeOK, InPlace, Places
<1>5. GoesOn' /\ Seen'
  BY <1>1, <1>2, <1>3, Typing DEF GoesOn, Seen, SeenBefore
<1>6. QED
  BY <1>1, <1>4, <1>5 DEF IInv, OfferedOnce, FreshAfterClear

LEMMA CallPollKeeps == IInv /\ CallPoll => IInv'
BY Typing, CaptureAssumption DEF IInv, CallPoll, telegram, start, TypeOK, Places, InPlace, GoesOn, Seen, SeenBefore,
   OfferedOnce, FreshAfterClear

(* Telegram forgets up to the local offset: all of that was seen.          *)
LEMMA AckedSeen ==
  ASSUME IInv, at = "polling"
  PROVE  /\ Acked \in 0 .. Len(posted) /\ confirmed <= Acked /\ local <= Acked + 1
         /\ SeenBefore(Acked + 1)
BY Typing DEF IInv, Seen, SeenBefore, Acked, Later

(* A call that brings no update.                                           *)
LEMMA NothingKeeps ==
  ASSUME IInv, NothingYet \/ NoAnswer \/ AnswerBreaksOff
  PROVE  IInv'
<1>1. /\ at = "polling" /\ at' \in {"polling", "crashed"} /\ confirmed' \in {confirmed, Acked}
      /\ UNCHANGED <<posted, offset, local, shown, chat, stale, backlog, cleared>>
  BY DEF NothingYet, NoAnswer, AnswerBreaksOff, InTime, start
<1>2. spent' \in 0 .. Deadline + Slowest
  BY CaptureAssumption DEF NothingYet, NoAnswer, AnswerBreaksOff, InTime, Pause, IInv, TypeOK
<1>3. confirmed' \in 0 .. Len(posted) /\ confirmed <= confirmed'
  BY <1>1, AckedSeen, Typing DEF IInv
<1>4. TypeOK' /\ InPlace' /\ OfferedOnce' /\ FreshAfterClear'
  BY <1>1, <1>2, <1>3 DEF IInv, TypeOK, InPlace, Places, OfferedOnce, FreshAfterClear
<1>5. GoesOn'
  BY <1>1, <1>3, Typing DEF IInv, GoesOn
<1>6. Seen'
  <2>1. SeenBefore(confirmed' + 1)
    BY <1>1, AckedSeen DEF IInv, Seen
  <2>2. QED
    BY <1>1, <2>1 DEF IInv, Seen, SeenBefore
<1>7. QED
  BY <1>4, <1>5, <1>6 DEF IInv

(* The next update: it comes after everything shown and everything the     *)
(* clear dropped; if it is a message it is shown.                          *)
LEMMA ReceiveKeeps == IInv /\ Receive => IInv'
<1> SUFFICES ASSUME IInv, Receive PROVE IInv'
  OBVIOUS
<1> DEFINE u == Acked + 1
           offer == posted[u].form = "message"
           posts == 1 .. Len(posted)
<1>1. /\ at = "polling" /\ confirmed' = Acked /\ Acked < Len(posted) /\ local' = u + 1
      /\ UNCHANGED <<posted, chat, stale, backlog, cleared>>
      /\ offer => at' = "confirm" /\ offset' = u + 1 /\ shown' = Append(shown, u)
      /\ ~offer => UNCHANGED <<at, offset, shown>>
  BY DEF Receive, InTime, start, Advanced, OffsetAfter
<1>2. TypeOK
  BY DEF IInv
<1>3. /\ u \in posts /\ Acked \in 0 .. Len(posted) /\ confirmed <= Acked
      /\ local <= u /\ offset <= u /\ SeenBefore(u) /\ Acked = u - 1
  BY <1>1, <1>2, AckedSeen, Typing DEF IInv, GoesOn
<1>4. shown \in Seq(posts) /\ Len(shown) \in Nat /\ DOMAIN shown = 1 .. Len(shown)
  BY <1>2, Typing
<1>5. \A i \in DOMAIN shown : shown[i] \in posts /\ shown[i] < u
  BY <1>2, <1>3, Typing DEF IInv, GoesOn
<1>6. cleared => stale < u
  BY <1>2, <1>3, Typing DEF IInv, GoesOn
<1>7. spent' \in 0 .. Deadline + Slowest
  BY <1>2, CaptureAssumption DEF Receive, InTime, TypeOK
<1>8. /\ confirmed' \in 0 .. Len(posted) /\ local' \in 0 .. Len(posted) + 1
      /\ u + 1 \in 0 .. Len(posted) + 1 /\ u \in Nat
  BY <1>1, <1>2, <1>3, Typing
<1>9. CASE offer
  <2>1. at' = "confirm" /\ offset' = u + 1 /\ shown' = Append(shown, u)
    BY <1>1, <1>9
  <2> HIDE DEF u, offer, posts
  <2>2. /\ shown' \in Seq(posts) /\ Len(shown') = Len(shown) + 1 /\ shown'[Len(shown) + 1] = u
        /\ \A i \in 1 .. Len(shown) : shown'[i] = shown[i]
    BY <1>3, <1>4, <2>1, AppendProperties
  <2>3. DOMAIN shown' = 1 .. Len(shown) + 1 /\ Len(shown) + 1 \in DOMAIN shown' /\ shown' # <<>>
    BY <1>4, <2>2, LenProperties, EmptySeq
  <2>4. \A i \in DOMAIN shown' : i \in DOMAIN shown \/ i = Len(shown) + 1
    BY <1>4, <2>3
  <2>5. TypeOK' /\ InPlace'
    BY <1>1, <1>2, <1>7, <1>8, <2>1, <2>2, <2>3 DEF TypeOK, Places, InPlace, posts
  <2>6. OfferedOnce'
    BY <1>4, <1>5, <1>8, <2>2, <2>3 DEF IInv, OfferedOnce
  <2>7. FreshAfterClear'
    BY <1>1, <1>4, <1>6, <2>2, <2>4 DEF IInv, FreshAfterClear
  <2>8. GoesOn'
    <3>1. \A i \in DOMAIN shown' : shown'[i] < u + 1
      <4>1. \A i \in DOMAIN shown : shown[i] \in Nat /\ shown'[i] = shown[i]
        BY <1>4, <1>5, <2>2 DEF posts
      <4>2. QED
        BY <1>5, <1>8, <2>2, <2>4, <4>1
    <3>2. stale \in Nat
      BY <1>2, Typing
    <3>3. QED
      BY <1>1, <1>6, <1>8, <2>1, <3>1, <3>2 DEF GoesOn
  <2>9. Seen'
    <3>1. ASSUME NEW v \in DOMAIN posted, backlog < v, v < u + 1, posted[v].form = "message"
          PROVE  \E i \in DOMAIN shown' : shown'[i] = v
      <4>1. CASE v = u
        BY <2>2, <2>3, <4>1
      <4>2. CASE v < u
        <5>1. PICK i \in DOMAIN shown : shown[i] = v
          BY <1>3, <3>1, <4>2 DEF SeenBefore
        <5>2. i \in DOMAIN shown' /\ shown'[i] = v
          BY <1>4, <2>2, <2>3, <5>1
        <5>3. QED
          BY <5>2
      <4>3. v \in Nat
        BY <1>2, Typing
      <4>4. QED
        BY <1>8, <3>1, <4>1, <4>2, <4>3
    <3>2. confirmed' + 1 = u /\ offset' = u + 1
      BY <1>1, <1>3, <1>8, <2>1 DEF posts
    <3>3. \A v \in DOMAIN posted : v < u => v < u + 1
      BY <1>2, <1>8, Typing
    <3>4. SeenBefore(offset)' /\ SeenBefore(confirmed + 1)'
      BY <1>1, <3>1, <3>2, <3>3 DEF SeenBefore
    <3>5. QED
      BY <2>1, <3>4 DEF Seen
  <2>10. QED
    BY <2>5, <2>6, <2>7, <2>8, <2>9 DEF IInv
<1>10. CASE ~offer
  <2>1. UNCHANGED <<at, offset, shown>>
    BY <1>1, <1>10
  <2>2. TypeOK' /\ InPlace' /\ OfferedOnce' /\ FreshAfterClear'
    BY <1>1, <1>2, <1>7, <1>8, <2>1 DEF IInv, TypeOK, InPlace, OfferedOnce, FreshAfterClear
  <2>3. GoesOn'
    BY <1>1, <1>2, <1>3, <1>6, <1>8, <2>1, Typing DEF IInv, GoesOn
  <2>4. SeenBefore(u + 1)
    <3>1. \A v \in DOMAIN posted : v < u + 1 => v < u \/ v = u
      BY <1>2, <1>8, Typing
    <3>2. QED
      BY <1>3, <1>10, <3>1 DEF SeenBefore
  <2>5. Seen'
    <3>1. confirmed' + 1 = u /\ offset' = offset /\ local' = u + 1
      BY <1>1, <1>3, <1>8, <2>1
    <3>2. SeenBefore(offset)
      BY <1>1 DEF IInv, Seen
    <3>3. QED
      BY <1>1, <1>3, <2>1, <2>4, <3>1, <3>2 DEF Seen, SeenBefore
  <2>6. QED
    BY <2>2, <2>3, <2>5 DEF IInv
<1>11. QED
  BY <1>9, <1>10

LEMMA NextKeeps == IInv /\ [Next]_vars => IInv'
<1> SUFFICES ASSUME IInv, [Next]_vars PROVE IInv'
  OBVIOUS
<1>1. CASE \E c \in Chats, form \in {"message", "other"} : Send(c, form)
  BY <1>1, SendKeeps
<1>2. CASE BacklogCleared \/ BacklogUnanswered
  BY <1>2, LeaveClearKeeps
<1>3. CASE CallPoll
  BY <1>3, CallPollKeeps
<1>4. CASE Receive
  BY <1>4, ReceiveKeeps
<1>5. CASE NothingYet \/ NoAnswer \/ AnswerBreaksOff
  BY <1>5, NothingKeeps
<1>6. CASE PollTimeout \/ UseIt \/ Discard \/ WaitAgain \/ EnterManually
           \/ (\E c \in Chats : Typed(c)) \/ Interrupt
  <2>1. UNCHANGED <<telegram, offset, local, spent, shown, start>>
    BY <1>6 DEF PollTimeout, UseIt, Discard, WaitAgain, EnterManually, Typed, Interrupt, Answered
  <2>2. /\ at' \in Places /\ at' \notin {"clear", "confirm", "polling"}
        /\ at = "clear" => at' = "aborted"
    BY <1>6 DEF PollTimeout, UseIt, Discard, WaitAgain, EnterManually, Typed, Interrupt, Answered,
       Places
  <2>3. chat' \in Chats \union {"none"}
    <3>1. CASE UseIt
      <4>1. shown # <<>>
        BY <3>1 DEF UseIt, Answered, IInv, InPlace
      <4>2. Len(shown) \in DOMAIN shown
        BY <4>1, Typing, EmptySeq DEF IInv
      <4>3. shown[Len(shown)] \in DOMAIN posted
        BY <4>2, Typing DEF IInv
      <4>4. posted[shown[Len(shown)]] \in Update
        BY <4>3, Typing, ElementOfSeq DEF IInv
      <4>5. QED
        BY <3>1, <4>4 DEF UseIt, Update
    <3>2. CASE \E c \in Chats : Typed(c)
      BY <3>2 DEF Typed
    <3>3. CASE chat' = chat
      BY <3>3 DEF IInv, TypeOK
    <3>4. QED
      BY <1>6, <3>1, <3>2, <3>3 DEF PollTimeout, Discard, WaitAgain, EnterManually, Interrupt
  <2>4. spent' \in 0 .. Deadline + Slowest
    BY <2>1 DEF IInv, TypeOK
  <2>5. UNCHANGED <<telegram, offset, local, shown, start>>
    BY <2>1
  <2>6. QED
    BY <2>2, <2>3, <2>4, <2>5, AnsweredKeeps
<1>7. CASE UNCHANGED vars
  BY <1>7 DEF vars, start, IInv, TypeOK, InPlace, GoesOn, Seen, SeenBefore, OfferedOnce, FreshAfterClear
<1>8. QED
  BY <1>1, <1>2, <1>3, <1>4, <1>5, <1>6, <1>7 DEF Next, Turn, Ended
-----------------------------------------------------------------------------
LEMMA Invariant == Spec => []IInv
BY InitHolds, NextKeeps, PTL DEF Spec

(* The wizard's offsets stay within one of the last update that exists,    *)
(* the wait within its deadline and one turn, and what was shown are       *)
(* updates that were sent (polling.py 79-130).                             *)
THEOREM TypeCorrect == Spec => []TypeOK
<1>1. IInv => TypeOK
  BY DEF IInv
<1>2. QED
  BY <1>1, Invariant, PTL

(* However often waiting is given up, interrupted or taken up again, and   *)
(* whatever is lost on the way, updates are shown in the order they were   *)
(* sent and none twice.                                                    *)
THEOREM RejectedStayAway == Spec => []OfferedOnce
<1>1. IInv => OfferedOnce
  BY DEF IInv
<1>2. QED
  BY <1>1, Invariant, PTL

(* What Telegram has forgotten was shown, was no message, or was dropped   *)
(* with the backlog: no acknowledgement overtakes a message.               *)
THEOREM EveryMessageIsOffered == Spec => []NoMessageSkipped
<1>1. IInv => NoMessageSkipped
  <2> SUFFICES ASSUME IInv, NEW u \in DOMAIN posted, at # "clear", backlog < u, u <= confirmed,
                      posted[u].form = "message"
               PROVE  \E i \in DOMAIN shown : shown[i] = u
    BY DEF NoMessageSkipped
  <2>1. SeenBefore(confirmed + 1)
    BY DEF IInv, Seen
  <2>2. u < confirmed + 1
    BY Typing DEF IInv
  <2>3. QED
    BY <2>1, <2>2 DEF SeenBefore
<1>2. QED
  BY <1>1, Invariant, PTL

(* Once clear_backlog was answered nothing sent before it is offered.      *)
THEOREM OldMessagesAreNotOffered == Spec => []FreshAfterClear
<1>1. IInv => FreshAfterClear
  BY DEF IInv
<1>2. QED
  BY <1>1, Invariant, PTL
=============================================================================
