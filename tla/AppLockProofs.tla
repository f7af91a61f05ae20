---------------------------- MODULE AppLockProofs ----------------------------
(***************************************************************************)
(* For any life, idle limit and timers, and any number of sign-ins: a      *)
(* locked page leaves no session behind, a token that ended stays ended,   *)
(* one timer watches an idle user, and it logs out nobody else.            *)
(***************************************************************************)
EXTENDS AppLock, TLAPS

\* A sign-in is the last thing the page asks for until it is answered, and the
\* page is locked for so long.
SignInIsLast ==
    /\ \A i \in 1..Len(calls) : calls[i].op = "create" => i = Len(calls) /\ entering
    /\ \A i \in 1..Len(replies) :
          replies[i].op = "create" => i = Len(replies) /\ calls = <<>> /\ entering
    /\ entering => ~unlocked
    /\ ~unlocked => token = 0

\* Calls and answers name tokens that exist; an open page revokes its own.
TokensExist ==
    /\ \A i \in 1..Len(calls) : calls[i].token \in 0..made
    /\ \A i \in 1..Len(replies) : replies[i].token \in 0..made
    /\ unlocked => \A i \in 1..Len(calls) :
          calls[i].op = "revoke" => calls[i].token = token \/ token = 0

\* The sessions that can be used for longer than the page's margin, but for those
\* whose revocation failed.
Lasting == {t \in (1..MaxSession) \ kept : (t \in live \/ t = backup) /\ life[t] > Buffer}

\* There is one such session at most, and somebody holds its token: the page,
\* or the answer to a sign-in.
LastingIsHeld ==
    /\ unlocked => Lasting \subseteq {token}
    /\ unlocked /\ Locked => Lasting = {}
    /\ \A i \in 1..Len(replies) :
          replies[i].op = "create" => Lasting \subseteq {replies[i].token}
    /\ ~unlocked /\ (\A i \in 1..Len(replies) : replies[i].op # "create") => Lasting = {}

\* The timers never run ahead of the user, unless an activity waits to be
\* handled.
TimersWait ==
    throttle = Off =>
        /\ warn # Off => warn + away >= Warn
        /\ logout # Off => logout + away >= Limit

IInv == TypeOK /\ SignInIsLast /\ TokensExist /\ LastingIsHeld /\ TimersWait /\ IdleIsWatched

-----------------------------------------------------------------------------
\* What is left of a queue when its head is taken.
LEMMA TailFacts ==
    ASSUME NEW S, NEW q \in Seq(S), q # <<>>
    PROVE  /\ Len(q) \in Nat /\ Len(q) >= 1
           /\ Head(q) \in S /\ Head(q) = q[1]
           /\ Tail(q) \in Seq(S)
           /\ Len(Tail(q)) = Len(q) - 1
           /\ \A i \in 1..Len(Tail(q)) : Tail(q)[i] = q[i + 1] /\ i + 1 \in 1..Len(q)
           /\ Len(q) = 1 => Tail(q) = <<>>
<1>1. Len(q) \in Nat /\ Len(q) >= 1
    OBVIOUS
<1>2. Head(q) \in S /\ Head(q) = q[1]
    OBVIOUS
<1>3. Tail(q) \in Seq(S) /\ Len(Tail(q)) = Len(q) - 1
    OBVIOUS
<1>4. \A i \in 1..Len(Tail(q)) : Tail(q)[i] = q[i + 1]
    OBVIOUS
<1>5. \A i \in 1..Len(Tail(q)) : i + 1 \in 1..Len(q)
    BY <1>1, <1>3
<1>6. Len(q) = 1 => Tail(q) = <<>>
    <2> DEFINE r == Tail(q)
    <2>1. r \in Seq(S) /\ (Len(q) = 1 => Len(r) = 0)
        BY <1>1, <1>3
    <2> HIDE DEF r
    <2>2. Len(r) = 0 => r = <<>>
        BY <2>1
    <2> QED
        BY <2>1, <2>2 DEF r
<1> QED
    BY <1>1, <1>2, <1>3, <1>4, <1>5, <1>6

\* What a queue holds when something was appended.
LEMMA AppendFacts ==
    ASSUME NEW S, NEW q \in Seq(S), NEW x \in S
    PROVE  /\ Len(q) \in Nat
           /\ Append(q, x) \in Seq(S)
           /\ Len(Append(q, x)) = Len(q) + 1
           /\ \A i \in 1..Len(q) : Append(q, x)[i] = q[i]
           /\ Append(q, x)[Len(q) + 1] = x
           /\ q = <<>> => Len(q) = 0
    OBVIOUS

\* The calls of the page and their answers are well formed.
LEMMA CallIsTyped ==
    ASSUME NEW op \in {"create", "revoke", "use"}, NEW t \in 0..MaxSession
    PROVE  /\ Call(op, t) \in CallType
           /\ Call(op, t).op = op
           /\ Call(op, t).token = t
    BY DEF Call, CallType

-----------------------------------------------------------------------------
\* Asking for something: the page's side of the queue.
LEMMA SendFacts ==
    ASSUME TypeOK, NEW op \in {"create", "revoke", "use"}, NEW t \in 0..MaxSession,
           Send(op, t)
    PROVE  /\ calls' \in Seq(CallType)
           /\ Len(calls) \in Nat /\ Len(calls') = Len(calls) + 1
           /\ \A i \in 1..Len(calls) : calls'[i] = calls[i]
           /\ calls'[Len(calls')].op = op /\ calls'[Len(calls')].token = t
           /\ \A o : Serving(o) => Serving(o)'
<1>1. Call(op, t) \in CallType /\ Call(op, t).op = op /\ Call(op, t).token = t
    BY CallIsTyped
<1> DEFINE x == Call(op, t)
<1>2. calls \in Seq(CallType) /\ calls' = Append(calls, x)
    BY DEF TypeOK, Send
<1> HIDE DEF x
<1>3. x \in CallType /\ x.op = op /\ x.token = t
    BY <1>1 DEF x
<1>4. /\ Len(calls) \in Nat
      /\ calls' \in Seq(CallType)
      /\ Len(calls') = Len(calls) + 1
      /\ \A i \in 1..Len(calls) : calls'[i] = calls[i]
      /\ calls'[Len(calls) + 1] = x
    BY <1>2, <1>3, AppendFacts
<1>5. calls # <<>> => Len(calls) >= 1 /\ Head(calls) = calls[1]
    BY <1>2, TailFacts
<1>6. calls' # <<>> /\ Head(calls') = calls'[1]
    <2>1. calls' # <<>>
        BY <1>2, <1>3
    <2> QED
        BY <2>1, <1>4, TailFacts
<1>7. calls # <<>> => Head(calls') = Head(calls)
    BY <1>4, <1>5, <1>6
<1> QED
    BY <1>3, <1>4, <1>6, <1>7 DEF Serving

\* Answering the call at the head: the worker's side.
LEMMA ReplyFacts ==
    ASSUME TypeOK, calls # <<>>, NEW t \in 0..MaxSession, Reply(t)
    PROVE  /\ calls' \in Seq(CallType) /\ replies' \in Seq(CallType)
           /\ Len(calls) \in Nat /\ Len(calls) >= 1 /\ Len(calls') = Len(calls) - 1
           /\ Head(calls) = calls[1] /\ Head(calls) \in CallType
           /\ \A i \in 1..Len(calls') : calls'[i] = calls[i + 1] /\ i + 1 \in 1..Len(calls)
           /\ Len(calls) = 1 => calls' = <<>>
           /\ Len(replies) \in Nat /\ Len(replies') = Len(replies) + 1
           /\ \A i \in 1..Len(replies) : replies'[i] = replies[i]
           /\ replies'[Len(replies')].op = Head(calls).op
           /\ replies'[Len(replies')].token = t
<1>1. calls \in Seq(CallType) /\ replies \in Seq(CallType)
    BY DEF TypeOK
<1>2. /\ Len(calls) \in Nat /\ Len(calls) >= 1
      /\ Head(calls) \in CallType /\ Head(calls) = calls[1]
      /\ Tail(calls) \in Seq(CallType)
      /\ Len(Tail(calls)) = Len(calls) - 1
      /\ \A i \in 1..Len(Tail(calls)) :
            Tail(calls)[i] = calls[i + 1] /\ i + 1 \in 1..Len(calls)
      /\ Len(calls) = 1 => Tail(calls) = <<>>
    BY <1>1, TailFacts
<1>3. Head(calls).op \in {"create", "revoke", "use"}
    BY <1>2 DEF CallType
<1> DEFINE x == Call(Head(calls).op, t)
<1>4. x \in CallType /\ x.op = Head(calls).op /\ x.token = t
    BY <1>3, CallIsTyped
<1>5. calls' = Tail(calls) /\ replies' = Append(replies, x)
    BY DEF Reply
<1> HIDE DEF x
<1>6. /\ Len(replies) \in Nat
      /\ replies' \in Seq(CallType)
      /\ Len(replies') = Len(replies) + 1
      /\ \A i \in 1..Len(replies) : replies'[i] = replies[i]
      /\ replies'[Len(replies) + 1] = x
    BY <1>1, <1>4, <1>5, AppendFacts
<1> QED
    BY <1>2, <1>4, <1>5, <1>6

\* Taking an answer: the page's side again.
LEMMA AnswerFacts ==
    ASSUME TypeOK, replies # <<>>, replies' = Tail(replies)
    PROVE  /\ replies' \in Seq(CallType)
           /\ Len(replies) \in Nat /\ Len(replies) >= 1 /\ Len(replies') = Len(replies) - 1
           /\ Head(replies) = replies[1] /\ Head(replies) \in CallType
           /\ \A i \in 1..Len(replies') :
                 replies'[i] = replies[i + 1] /\ i + 1 \in 1..Len(replies)
           /\ Len(replies) = 1 => replies' = <<>>
<1>1. replies \in Seq(CallType)
    BY DEF TypeOK
<1> QED
    BY <1>1, TailFacts

-----------------------------------------------------------------------------
\* The values that are assigned are in their ranges.
LEMMA Ranges ==
    /\ 0 \in 0..MaxLife /\ MaxLife \in 0..MaxLife /\ 0 \in 0..MaxIdle + 1
    /\ 0 \in 0..MaxSession /\ 0 \in 0..MaxCalls /\ 0 \in 0..MaxLogout
    /\ Limit \in Nat /\ 0 \in 0..Limit
    /\ Idle \in WorkType
    BY LimitAssumption DEF Limit, Idle, WorkType

LEMMA TimerRanges ==
    /\ Off \in Timer(Warn) /\ Warn \in Timer(Warn)
    /\ Off \in Timer(Grace) /\ Grace \in Timer(Grace)
    /\ Off \in Timer(1) /\ 1 \in Timer(1)
    BY LimitAssumption DEF Timer, Off

LEMMA InitHolds == Init => IInv
<1> SUFFICES ASSUME Init PROVE IInv
    OBVIOUS
<1>1. TypeOK
    <2>1. /\ made \in 0..MaxSession /\ live \subseteq 1..made /\ backup \in 0..made
          /\ token \in 0..made
        BY Ranges DEF Init
    <2>2. life \in [Token -> 0..MaxLife] /\ idle \in [Token -> 0..MaxIdle + 1]
        BY Ranges DEF Init
    <2>3. calls \in Seq(CallType) /\ replies \in Seq(CallType)
        BY DEF Init
    <2> QED
        BY <2>1, <2>2, <2>3, Ranges, TimerRanges DEF Init, TypeOK
<1>2. SignInIsLast /\ TokensExist /\ TimersWait /\ IdleIsWatched
    BY DEF Init, SignInIsLast, TokensExist, TimersWait, IdleIsWatched, Off
<1>3. Lasting = {}
    BY DEF Init, Lasting
<1>4. LastingIsHeld
    BY <1>3 DEF Init, LastingIsHeld
<1> QED
    BY <1>1, <1>2, <1>4 DEF IInv

\* The timers keep their ranges.
LEMMA DownUp ==
    /\ \A top \in Nat : \A x \in Timer(top) : Down(x) \in Timer(top)
    /\ \A top \in Nat : \A x \in 0..top : Down(x) \in 0..top /\ Up(x, top) \in 0..top
    BY DEF Down, Up, Timer, Off

LEMMA TypeStep == ASSUME IInv, Next PROVE TypeOK'
<1> USE DEF IInv
<1>1. CASE CreateSession
    <2>0. calls # <<>> /\ work = Idle
        BY <1>1 DEF CreateSession, Serving
    <2>1. CASE Reply(0) /\ UNCHANGED <<made, life, idle, live, backup>>
        <3>1. calls' \in Seq(CallType) /\ replies' \in Seq(CallType)
            BY <2>0, <2>1, ReplyFacts, LimitAssumption
        <3> QED
            BY <1>1, <2>0, <2>1, <3>1
            DEF CreateSession, page, timers, TypeOK
    <2>2. CASE /\ made < MaxSession
               /\ made' = made + 1
               /\ life' = [life EXCEPT ![made + 1] = MaxLife]
               /\ idle' = [idle EXCEPT ![made + 1] = 0]
               /\ live' = live \cup {made + 1}
               /\ backup' = made + 1
               /\ Reply(made + 1)
        <3>1. made \in 0..MaxSession /\ made + 1 \in 0..MaxSession
            BY <2>2, LimitAssumption DEF TypeOK
        <3>2. calls' \in Seq(CallType) /\ replies' \in Seq(CallType)
            BY <2>0, <2>2, <3>1, ReplyFacts
        <3>3. /\ life' \in [Token -> 0..MaxLife] /\ idle' \in [Token -> 0..MaxIdle + 1]
              /\ live' \subseteq 1..made' /\ backup' \in 0..made' /\ made' \in 0..MaxSession
              /\ token \in 0..made'
            <4>1. life' \in [Token -> 0..MaxLife] /\ idle' \in [Token -> 0..MaxIdle + 1]
                BY <2>2, Ranges DEF TypeOK
            <4>2. live' \subseteq 1..made' /\ backup' \in 0..made' /\ token \in 0..made'
                BY <2>2, <3>1, LimitAssumption DEF TypeOK
            <4> QED
                BY <2>2, <3>1, <4>1, <4>2
        <3> QED
            <4>1. /\ UNCHANGED <<work, away>>
                  /\ UNCHANGED <<token, unlocked, entering, wc>>
                  /\ UNCHANGED <<kept, warn, logout, throttle, shown, leaving, loggedOut>>
                BY <1>1 DEF CreateSession, page, timers
            <4> QED
                BY <2>0, <3>2, <3>3, <4>1 DEF TypeOK
    <2> QED
        BY <1>1, <2>1, <2>2 DEF CreateSession
<1>2. CASE RevokeToken
    <2>0. calls # <<>> /\ work = Idle
        BY <1>2 DEF RevokeToken, Serving
    <2>1. Head(calls).token \in 0..MaxSession
        <3>1. calls \in Seq(CallType)
            BY DEF TypeOK
        <3>2. Head(calls) \in CallType
            BY <2>0, <3>1, TailFacts
        <3> QED
            BY <3>2 DEF CallType
    <2>2. calls' \in Seq(CallType) /\ replies' \in Seq(CallType)
        BY <1>2, <2>0, <2>1, ReplyFacts, LimitAssumption DEF RevokeToken
    <2> QED
        <3>1. /\ UNCHANGED <<made, life, idle, work, away>>
              /\ UNCHANGED <<token, unlocked, entering, wc>>
              /\ UNCHANGED <<warn, logout, throttle, shown, leaving, loggedOut>>
            BY <1>2 DEF RevokeToken, page, timers
        <3>2. live' \subseteq 1..made' /\ backup' \in 0..made' /\ kept' \subseteq 0..MaxSession
            <4>1. live' \subseteq live /\ backup' \in {backup, 0}
                BY <1>2 DEF RevokeToken
            <4>2. kept' \subseteq kept \cup {Head(calls).token}
                BY <1>2 DEF RevokeToken
            <4> QED
                BY <2>1, <3>1, <4>1, <4>2, LimitAssumption DEF TypeOK
        <3> QED
            BY <2>0, <2>2, <3>1, <3>2 DEF TypeOK
<1>3. CASE BeginUse
    BY <1>3 DEF BeginUse, TypeOK, page, timers, WorkType, Serving, Idle
<1>4. CASE Look
    <2>0. work \in WorkType /\ work # Idle
        BY <1>4 DEF Look, TypeOK, Idle
    <2>1. CASE /\ live' = live \ {Head(calls).token}
               /\ work' = Idle
               /\ Reply(0)
        <3>1. calls # <<>>
            BY <2>0 DEF TypeOK, Serving
        <3>2. calls' \in Seq(CallType) /\ replies' \in Seq(CallType)
            BY <2>1, <3>1, ReplyFacts, LimitAssumption
        <3> QED
            BY <1>4, <2>1, <3>2 DEF Look, page, timers, TypeOK, WorkType, Idle
    <2>2. CASE /\ work' = [work EXCEPT !.step = "touch"]
               /\ UNCHANGED <<live, calls, replies>>
        <3>1. work' \in WorkType
            BY <2>0, <2>2 DEF WorkType
        <3> QED
            BY <1>4, <2>0, <2>2, <3>1 DEF Look, page, timers, TypeOK, Serving
    <2> QED
        BY <1>4, <2>1, <2>2 DEF Look
<1>5. CASE Touch
    <2>0. work \in WorkType /\ work # Idle /\ calls # <<>>
        BY <1>5 DEF Touch, TypeOK, Idle, Serving
    <2>1. Head(calls).token \in 0..MaxSession
        <3>1. calls \in Seq(CallType)
            BY DEF TypeOK
        <3>2. Head(calls) \in CallType
            BY <2>0, <3>1, TailFacts
        <3> QED
            BY <3>2 DEF CallType
    <2>2. idle' \in [Token -> 0..MaxIdle + 1] /\ live' = live
        <3>1. idle' = [idle EXCEPT ![Head(calls).token] = 0] /\ live' = live
            BY <1>5 DEF Touch, Touched
        <3> QED
            BY <3>1, Ranges DEF TypeOK
    <2>3. CASE work' = [step |-> "look", round |-> 2] /\ UNCHANGED <<calls, replies>>
        <3>1. /\ UNCHANGED <<made, life, live, backup, kept, calls, replies>>
              /\ UNCHANGED <<token, unlocked, entering, wc>>
              /\ UNCHANGED <<warn, logout, throttle, shown, leaving, loggedOut, away>>
            BY <1>5, <2>2, <2>3 DEF Touch, page, timers
        <3>2. work' \in WorkType
            BY <2>3 DEF WorkType
        <3> QED
            BY <2>0, <2>2, <3>1, <3>2 DEF TypeOK, Serving
    <2>4. CASE work' = Idle /\ Reply(Head(calls).token)
        <3>1. calls' \in Seq(CallType) /\ replies' \in Seq(CallType)
            BY <2>0, <2>1, <2>4, ReplyFacts
        <3> QED
            BY <1>5, <2>2, <2>4, <3>1 DEF Touch, page, timers, TypeOK, WorkType, Idle
    <2> QED
        BY <1>5, <2>3, <2>4 DEF Touch
<1>6. CASE CleanupExpiredSessions
    BY <1>6 DEF CleanupExpiredSessions, page, timers, TypeOK, Serving
<1>7. CASE Timers
    <2>1. UNCHANGED <<manager, calls, replies, page, away>>
        BY <1>7 DEF Timers, HandleActivity, ShowLogoutWarning, LogoutTimer, PerformLogout,
                    LogoutReturns
    <2>2. /\ warn' \in Timer(Warn) /\ logout' \in Timer(Grace) /\ throttle' \in Timer(1)
          /\ shown' \in BOOLEAN /\ leaving' \in 0..MaxLogout /\ loggedOut' \in BOOLEAN
        <3>1. CASE HandleActivity \/ ShowLogoutWarning
            BY <3>1, TimerRanges DEF HandleActivity, ResetTimers, ShowLogoutWarning, TypeOK
        <3>2. CASE LogoutTimer \/ LogoutReturns
            <4>1. leaving' \in 0..MaxLogout
                BY <3>2, LimitAssumption DEF LogoutTimer, PerformLogout, LogoutReturns, TypeOK
            <4> QED
                BY <3>2, <4>1, TimerRanges DEF LogoutTimer, PerformLogout, LogoutReturns, page, TypeOK
        <3> QED
            BY <1>7, <3>1, <3>2 DEF Timers
    <2> QED
        BY <2>1, <2>2 DEF manager, page, TypeOK, Serving
<1>8. CASE UnlockReply
    <2>0. UNCHANGED <<manager, calls, wc>>
        BY <1>8 DEF UnlockReply
    <2>1. replies' \in Seq(CallType)
        BY <1>8, AnswerFacts DEF UnlockReply
    <2>2. token' \in 0..made
        <3>1. Len(replies) >= 1 /\ Len(replies) \in Nat /\ Head(replies) = replies[1]
            BY <1>8, AnswerFacts DEF UnlockReply
        <3> QED
            BY <1>8, <3>1 DEF UnlockReply, TokensExist
    <2>3. /\ unlocked' \in BOOLEAN /\ entering' \in BOOLEAN
          /\ warn' \in Timer(Warn) /\ logout' \in Timer(Grace) /\ throttle' \in Timer(1)
          /\ shown' \in BOOLEAN /\ loggedOut' \in BOOLEAN /\ away' \in 0..Limit
          /\ leaving' \in 0..MaxLogout
        BY <1>8, Ranges, TimerRanges DEF UnlockReply, Mount, timers, TypeOK
    <2> QED
        BY <2>0, <2>1, <2>2, <2>3 DEF manager, TypeOK, Serving
<1>9. CASE LockReply
    <2>1. replies' \in Seq(CallType)
        BY <1>9, AnswerFacts DEF LockReply
    <2> QED
        <3>1. /\ UNCHANGED <<made, life, idle, live, backup, kept, work>>
              /\ UNCHANGED <<calls, entering, wc, leaving, away>>
            BY <1>9 DEF LockReply, Unmount, manager
        <3>2. /\ token' = 0 /\ unlocked' = FALSE /\ shown' = FALSE /\ loggedOut' = FALSE
              /\ warn' = Off /\ logout' = Off /\ throttle' = Off
            BY <1>9 DEF LockReply, Unmount
        <3>3. token' \in 0..made'
            BY <3>1, <3>2, LimitAssumption DEF TypeOK
        <3> QED
            BY <2>1, <3>1, <3>2, <3>3, TimerRanges DEF TypeOK, Serving
<1>10. CASE UseReply
    <2>1. replies' \in Seq(CallType)
        BY <1>10, AnswerFacts DEF UseReply
    <2> QED
        BY <1>10, <2>1 DEF UseReply, manager, page, timers, TypeOK, Serving
<1>11. CASE Unlock
    <2>1. calls' \in Seq(CallType) /\ (Serving("use") => Serving("use")')
        BY <1>11, SendFacts, LimitAssumption DEF Unlock
    <2> QED
        BY <1>11, <2>1 DEF Unlock, manager, timers, TypeOK
<1>12. CASE Activity
    BY <1>12, Ranges, TimerRanges DEF Activity, manager, page, TypeOK, Serving
<1>13. CASE LogoutNow
    BY <1>13, LimitAssumption DEF LogoutNow, PerformLogout, manager, page, TypeOK, Serving
<1>14. CASE ContinueUsing
    <2>1. token \in 0..MaxSession
        BY LimitAssumption DEF TypeOK
    <2>2. UNCHANGED <<manager, replies, wc, away>>
        BY <1>14 DEF ContinueUsing
    <2>3. CASE /\ Send("revoke", token)
               /\ shown' = FALSE /\ logout' = Off
               /\ UNCHANGED <<token, unlocked, entering, warn, throttle, leaving, loggedOut>>
        <3>1. calls' \in Seq(CallType) /\ (Serving("use") => Serving("use")')
            BY <2>1, <2>3, SendFacts
        <3> QED
            BY <2>2, <2>3, <3>1, TimerRanges DEF manager, TypeOK
    <2>4. CASE token = 0 /\ unlocked' = FALSE /\ Unmount /\ UNCHANGED <<token, entering, calls>>
        BY <2>2, <2>4, Ranges, TimerRanges DEF manager, Unmount, TypeOK, Serving
    <2> QED
        BY <1>14, <2>3, <2>4 DEF ContinueUsing, Lock
<1>15. CASE CallApi
    <2>1. token \in 0..MaxSession
        BY LimitAssumption DEF TypeOK
    <2>2. UNCHANGED <<manager, replies, unlocked, entering, wc, timers, away>>
        BY <1>15 DEF CallApi
    <2>3. CASE Send("use", token) /\ UNCHANGED token
        <3>1. calls' \in Seq(CallType) /\ (Serving("use") => Serving("use")')
            BY <2>1, <2>3, SendFacts
        <3> QED
            BY <2>2, <2>3, <3>1 DEF manager, timers, TypeOK
    <2>4. CASE token' = 0 /\ UNCHANGED calls
        BY <2>2, <2>4 DEF manager, timers, TypeOK, Serving
    <2> QED
        BY <1>15, <2>3, <2>4 DEF CallApi
<1>16. CASE Connect \/ DisconnectAll
    BY <1>16 DEF Connect, DisconnectAll, manager, timers, TypeOK, Serving
<1>17. CASE Tick
    <2>1. /\ life' \in [Token -> 0..MaxLife]
          /\ idle' \in [Token -> 0..MaxIdle + 1]
        <3>1. \A t \in Token : Down(life[t]) \in 0..MaxLife
            BY LimitAssumption, DownUp DEF TypeOK
        <3>2. \A t \in Token : Up(idle[t], MaxIdle + 1) \in 0..MaxIdle + 1
            <4>1. MaxIdle + 1 \in Nat
                BY LimitAssumption
            <4> QED
                BY <4>1, DownUp DEF TypeOK
        <3> QED
            BY <1>17, <3>1, <3>2 DEF Tick
    <2>2. /\ warn' \in Timer(Warn) /\ logout' \in Timer(Grace) /\ throttle' \in Timer(1)
          /\ away' \in 0..Limit
        <3>1. 1 \in Nat /\ Warn \in Nat /\ Grace \in Nat /\ Limit \in Nat
            BY LimitAssumption, Ranges
        <3>2. Down(warn) \in Timer(Warn) /\ Down(logout) \in Timer(Grace)
            BY <3>1, DownUp DEF TypeOK
        <3>3. Down(throttle) \in Timer(1) /\ Up(away, Limit) \in 0..Limit
            BY <3>1, DownUp DEF TypeOK
        <3> QED
            BY <1>17, <3>2, <3>3 DEF Tick
    <2> QED
        BY <1>17, <2>1, <2>2 DEF Tick, page, TypeOK, Serving
<1> QED
    BY <1>1, <1>2, <1>3, <1>4, <1>5, <1>6, <1>7, <1>8, <1>9, <1>10, <1>11, <1>12, <1>13,
       <1>14, <1>15, <1>16, <1>17 DEF Next, Serve, Replies, User
-----------------------------------------------------------------------------
\* Nothing of the queue or of the page's own state moves.
Quiet == UNCHANGED <<made, calls, replies, token, unlocked, entering>>

LEMMA QuietSteps ==
    ASSUME BeginUse \/ CleanupExpiredSessions \/ Timers \/ Activity \/ LogoutNow
               \/ Connect \/ DisconnectAll \/ Tick
    PROVE  Quiet
    BY DEF Quiet, BeginUse, CleanupExpiredSessions, Timers, HandleActivity, ResetTimers,
        ShowLogoutWarning, LogoutTimer, PerformLogout, LogoutReturns, Activity, LogoutNow,
        Connect, DisconnectAll, Tick, manager, page

\* The worker answers what was asked first.
LEMMA ReplyKeepsOrder ==
    ASSUME IInv, calls # <<>>, NEW t \in 0..MaxSession, Reply(t), t \in 0..made',
           made' \in Nat, made' >= made, UNCHANGED <<token, unlocked, entering>>
    PROVE  SignInIsLast' /\ TokensExist'
<1>1. TypeOK /\ SignInIsLast /\ TokensExist /\ made \in Nat
    BY LimitAssumption DEF IInv, TypeOK
<1>2. /\ Len(calls) \in Nat /\ Len(calls) >= 1 /\ Len(calls') = Len(calls) - 1
      /\ Head(calls) = calls[1]
      /\ \A i \in 1..Len(calls') : calls'[i] = calls[i + 1] /\ i + 1 \in 1..Len(calls)
      /\ Len(calls) = 1 => calls' = <<>>
      /\ Len(replies) \in Nat /\ Len(replies') = Len(replies) + 1
      /\ \A i \in 1..Len(replies) : replies'[i] = replies[i]
      /\ replies'[Len(replies')].op = Head(calls).op
      /\ replies'[Len(replies')].token = t
    BY <1>1, ReplyFacts
<1>3. \A i \in 1..Len(calls') : calls'[i].op = "create" => i = Len(calls') /\ entering'
    <2> SUFFICES ASSUME NEW i \in 1..Len(calls'), calls'[i].op = "create"
                 PROVE  i = Len(calls') /\ entering'
        OBVIOUS
    <2>1. i + 1 \in 1..Len(calls) /\ calls[i + 1].op = "create"
        BY <1>2
    <2>2. i + 1 = Len(calls) /\ entering
        BY <1>1, <2>1 DEF SignInIsLast
    <2> QED
        BY <1>2, <2>2
<1>4. \A i \in 1..Len(replies') :
          replies'[i].op = "create" => i = Len(replies') /\ calls' = <<>> /\ entering'
    <2> SUFFICES ASSUME NEW i \in 1..Len(replies'), replies'[i].op = "create"
                 PROVE  i = Len(replies') /\ calls' = <<>> /\ entering'
        OBVIOUS
    <2>1. CASE i = Len(replies')
        <3>1. calls[1].op = "create" /\ 1 \in 1..Len(calls)
            BY <1>2, <2>1
        <3> QED
            BY <1>1, <1>2, <2>1, <3>1 DEF SignInIsLast
    <2>2. CASE i # Len(replies')
        <3>1. i \in 1..Len(replies) /\ replies[i].op = "create"
            BY <1>2, <2>2
        <3> QED
            BY <1>1, <3>1 DEF SignInIsLast
    <2> QED
        BY <2>1, <2>2
<1>5. \A i \in 1..Len(calls') : calls'[i].token \in 0..made'
    <2> SUFFICES ASSUME NEW i \in 1..Len(calls') PROVE calls'[i].token \in 0..made'
        OBVIOUS
    <2>1. calls'[i] = calls[i + 1] /\ i + 1 \in 1..Len(calls)
        BY <1>2
    <2>2. calls[i + 1].token \in 0..made
        BY <1>1, <2>1 DEF TokensExist
    <2> QED
        BY <1>1, <2>1, <2>2
<1>6. \A i \in 1..Len(replies') : replies'[i].token \in 0..made'
    <2> SUFFICES ASSUME NEW i \in 1..Len(replies') PROVE replies'[i].token \in 0..made'
        OBVIOUS
    <2>1. CASE i \in 1..Len(replies)
        BY <1>1, <1>2, <2>1 DEF TokensExist
    <2>2. CASE i = Len(replies')
        BY <1>2, <2>2
    <2> QED
        BY <1>2, <2>1, <2>2
<1>7. unlocked' => \A i \in 1..Len(calls') :
          calls'[i].op = "revoke" => calls'[i].token = token' \/ token' = 0
    BY <1>1, <1>2 DEF TokensExist
<1> QED
    BY <1>1, <1>3, <1>4, <1>5, <1>6, <1>7 DEF SignInIsLast, TokensExist

\* The page takes an answer.
LEMMA AnswerKeepsOrder ==
    ASSUME IInv, replies # <<>>, replies' = Tail(replies), UNCHANGED <<made, calls>>
    PROVE  /\ \A i \in 1..Len(replies') :
                 replies'[i].op = "create" =>
                    i = Len(replies') /\ calls' = <<>> /\ entering /\ Head(replies).op # "create"
           /\ \A i \in 1..Len(replies') : replies'[i].token \in 0..made'
           /\ Head(replies).token \in 0..made
           /\ Head(replies).op = "create" => Len(replies) = 1 /\ calls = <<>> /\ entering
<1>1. TypeOK /\ SignInIsLast /\ TokensExist
    BY DEF IInv
<1>2. /\ Len(replies) \in Nat /\ Len(replies) >= 1 /\ Len(replies') = Len(replies) - 1
      /\ Head(replies) = replies[1]
      /\ \A i \in 1..Len(replies') : replies'[i] = replies[i + 1] /\ i + 1 \in 1..Len(replies)
    BY <1>1, AnswerFacts
<1>3. 1 \in 1..Len(replies)
    BY <1>2
<1>4. \A i \in 1..Len(replies') :
          replies'[i].op = "create" => i = Len(replies') /\ calls' = <<>> /\ entering
    <2> SUFFICES ASSUME NEW i \in 1..Len(replies'), replies'[i].op = "create"
                 PROVE  i = Len(replies') /\ calls' = <<>> /\ entering
        OBVIOUS
    <2>1. i + 1 \in 1..Len(replies) /\ replies[i + 1].op = "create"
        BY <1>2
    <2>2. i + 1 = Len(replies) /\ calls = <<>> /\ entering
        BY <1>1, <2>1 DEF SignInIsLast
    <2> DEFINE n == Len(replies)
               m == Len(replies')
    <2>3. n \in Nat /\ m = n - 1 /\ i + 1 = n /\ i \in 1..m
        BY <1>2, <2>2
    <2> HIDE DEF n, m
    <2>4. i = m
        BY <2>3
    <2> QED
        BY <2>2, <2>4 DEF m
<1>5. Head(replies).op = "create" => Len(replies) = 1 /\ calls = <<>> /\ entering
    BY <1>1, <1>2, <1>3 DEF SignInIsLast
<1>6. \A i \in 1..Len(replies') : replies'[i].token \in 0..made'
    BY <1>1, <1>2 DEF TokensExist
<1>7. Head(replies).token \in 0..made
    BY <1>1, <1>2, <1>3 DEF TokensExist
<1>8. (\E i \in 1..Len(replies') : TRUE) => Head(replies).op # "create"
    BY <1>2, <1>5
<1> QED
    BY <1>4, <1>5, <1>6, <1>7, <1>8

\* The page asks for something.
LEMMA SendKeepsOrder ==
    ASSUME IInv, NEW op \in {"create", "revoke", "use"}, NEW t \in 0..made, Send(op, t),
           ~entering, UNCHANGED <<made, replies, token>>,
           op = "create" <=> entering',
           entering' => ~unlocked',
           unlocked' = unlocked,
           op = "revoke" => t = token
    PROVE  SignInIsLast' /\ TokensExist'
<1>1. TypeOK /\ SignInIsLast /\ TokensExist
    BY DEF IInv
<1>2. t \in 0..MaxSession
    BY <1>1, LimitAssumption DEF TypeOK
<1>3. /\ Len(calls) \in Nat /\ Len(calls') = Len(calls) + 1
      /\ \A i \in 1..Len(calls) : calls'[i] = calls[i]
      /\ calls'[Len(calls')].op = op /\ calls'[Len(calls')].token = t
    BY <1>1, <1>2, SendFacts
<1>4. \A i \in 1..Len(calls') : i \in 1..Len(calls) \/ i = Len(calls')
    BY <1>3
<1>5. \A i \in 1..Len(calls) : calls[i].op # "create"
    BY <1>1 DEF SignInIsLast
<1>6. \A i \in 1..Len(calls') : calls'[i].op = "create" => i = Len(calls') /\ entering'
    BY <1>3, <1>4, <1>5
<1>7. \A i \in 1..Len(replies') : replies'[i].op # "create"
    BY <1>1 DEF SignInIsLast
<1>8. \A i \in 1..Len(calls') : calls'[i].token \in 0..made'
    BY <1>1, <1>3, <1>4 DEF TokensExist
<1>9. \A i \in 1..Len(replies') : replies'[i].token \in 0..made'
    BY <1>1 DEF TokensExist
<1>10. unlocked' => \A i \in 1..Len(calls') :
          calls'[i].op = "revoke" => calls'[i].token = token' \/ token' = 0
    BY <1>1, <1>3, <1>4 DEF TokensExist
<1> QED
    BY <1>1, <1>6, <1>7, <1>8, <1>9, <1>10 DEF SignInIsLast, TokensExist

LEMMA OrderStep == ASSUME IInv, Next PROVE SignInIsLast' /\ TokensExist'
<1>0. /\ TypeOK /\ SignInIsLast /\ TokensExist /\ made \in Nat /\ token \in 0..made
      /\ 0 \in 0..made
    BY LimitAssumption DEF IInv, TypeOK
<1>1. CASE Quiet
    BY <1>0, <1>1 DEF Quiet, SignInIsLast, TokensExist
<1>2. CASE CreateSession
    <2>1. calls # <<>> /\ UNCHANGED <<token, unlocked, entering>>
        BY <1>2 DEF CreateSession, Serving, page
    <2>2. CASE Reply(0) /\ UNCHANGED made
        BY <1>0, <2>1, <2>2, LimitAssumption, ReplyKeepsOrder
    <2>3. CASE made < MaxSession /\ made' = made + 1 /\ Reply(made + 1)
        <3>1. made + 1 \in 0..MaxSession /\ made + 1 \in 0..made' /\ made' \in Nat
              /\ made' >= made
            BY <1>0, <2>3, LimitAssumption
        <3> QED
            BY <2>1, <2>3, <3>1, ReplyKeepsOrder
    <2> QED
        BY <1>2, <2>2, <2>3 DEF CreateSession
<1>3. CASE calls # <<>> /\ Reply(Head(calls).token)
             /\ UNCHANGED <<made, token, unlocked, entering>>
    <2>1. calls \in Seq(CallType)
        BY <1>0 DEF TypeOK
    <2>2. Len(calls) \in Nat /\ Len(calls) >= 1 /\ Head(calls) = calls[1]
        BY <1>3, <2>1, TailFacts
    <2>3. Head(calls).token \in 0..made
        BY <1>0, <2>2 DEF TokensExist
    <2>4. Head(calls).token \in 0..MaxSession /\ made' >= made
        BY <1>0, <1>3, <2>3, LimitAssumption DEF TypeOK
    <2> QED
        BY <1>0, <1>3, <2>3, <2>4, ReplyKeepsOrder
<1>4. CASE calls # <<>> /\ Reply(0) /\ UNCHANGED <<made, token, unlocked, entering>>
    BY <1>0, <1>4, LimitAssumption, ReplyKeepsOrder
<1>5. CASE UnlockReply
    <2>0. UNCHANGED <<made, calls>> /\ replies # <<>> /\ replies' = Tail(replies)
          /\ Head(replies).op = "create" /\ token' = Head(replies).token /\ ~entering'
        BY <1>5 DEF UnlockReply, manager
    <2>1. calls' = <<>> /\ Len(replies) = 1 /\ entering /\ Head(replies).token \in 0..made
        BY <2>0, AnswerKeepsOrder
    <2>2. replies' = <<>> /\ Len(replies') = 0 /\ Len(calls') = 0
        BY <1>0, <2>0, <2>1, AnswerFacts
    <2>3. ~unlocked' => token' = 0
        BY <1>0, <1>5, <2>0, <2>1 DEF UnlockReply, SignInIsLast
    <2>4. (\A i \in 1..Len(replies') : FALSE) /\ (\A i \in 1..Len(calls') : FALSE)
        BY <2>2
    <2> QED
        BY <2>0, <2>3, <2>4 DEF SignInIsLast, TokensExist
<1>6. CASE LockReply
    <2>0. UNCHANGED <<made, calls, entering>> /\ replies # <<>> /\ replies' = Tail(replies)
          /\ token' = 0 /\ ~unlocked'
        BY <1>6 DEF LockReply, manager
    <2>1. \A i \in 1..Len(replies') :
              replies'[i].op = "create" => i = Len(replies') /\ calls' = <<>> /\ entering
        BY <2>0, AnswerKeepsOrder
    <2>2. \A i \in 1..Len(replies') : replies'[i].token \in 0..made'
        BY <2>0, AnswerKeepsOrder
    <2> QED
        BY <1>0, <2>0, <2>1, <2>2 DEF SignInIsLast, TokensExist
<1>7. CASE UseReply
    <2>0. UNCHANGED <<made, calls, entering, token, unlocked>> /\ replies # <<>>
          /\ replies' = Tail(replies)
        BY <1>7 DEF UseReply, manager, page
    <2>1. \A i \in 1..Len(replies') :
              replies'[i].op = "create" => i = Len(replies') /\ calls' = <<>> /\ entering
        BY <2>0, AnswerKeepsOrder
    <2>2. \A i \in 1..Len(replies') : replies'[i].token \in 0..made'
        BY <2>0, AnswerKeepsOrder
    <2> QED
        BY <1>0, <2>0, <2>1, <2>2 DEF SignInIsLast, TokensExist
<1>8. CASE Unlock
    <2>1. /\ Send("create", 0) /\ ~entering /\ entering' = TRUE /\ ~unlocked
          /\ UNCHANGED <<made, replies, token, unlocked>>
        BY <1>8 DEF Unlock, manager
    <2> QED
        BY <1>0, <2>1, SendKeepsOrder
<1>9. CASE ContinueUsing
    <2>1. unlocked /\ ~entering /\ UNCHANGED <<made, replies>>
        BY <1>0, <1>9 DEF ContinueUsing, manager, SignInIsLast
    <2>2. CASE Send("revoke", token) /\ UNCHANGED <<token, unlocked, entering>>
        BY <1>0, <2>1, <2>2, SendKeepsOrder
    <2>3. CASE token = 0 /\ unlocked' = FALSE /\ UNCHANGED <<token, entering, calls>>
        BY <1>0, <2>1, <2>3 DEF SignInIsLast, TokensExist
    <2> QED
        BY <1>9, <2>2, <2>3 DEF ContinueUsing, Lock
<1>10. CASE CallApi
    <2>1. unlocked /\ ~entering /\ UNCHANGED <<made, replies, unlocked, entering>>
        BY <1>0, <1>10 DEF CallApi, manager, SignInIsLast
    <2>2. CASE Send("use", token) /\ UNCHANGED token
        BY <1>0, <2>1, <2>2, SendKeepsOrder
    <2>3. CASE token' = 0 /\ UNCHANGED calls
        BY <1>0, <2>1, <2>3 DEF SignInIsLast, TokensExist
    <2> QED
        BY <1>10, <2>2, <2>3 DEF CallApi
<1>11. CASE RevokeToken
    <2>1. calls # <<>> /\ (Reply(Head(calls).token) \/ Reply(0))
          /\ UNCHANGED <<made, token, unlocked, entering>>
        BY <1>11 DEF RevokeToken, Serving, page
    <2> QED
        BY <2>1, <1>3, <1>4
<1>12. CASE Look
    <2>0. calls # <<>> /\ UNCHANGED <<made, token, unlocked, entering>>
        BY <1>0, <1>12 DEF Look, page, TypeOK, Serving, Idle
    <2>1. CASE Reply(0)
        BY <1>4, <2>0, <2>1
    <2>2. CASE UNCHANGED <<calls, replies>>
        BY <1>1, <2>0, <2>2 DEF Quiet
    <2> QED
        BY <1>12, <2>1, <2>2 DEF Look
<1>13. CASE Touch
    <2>0. calls # <<>> /\ UNCHANGED <<made, token, unlocked, entering>>
        BY <1>0, <1>13 DEF Touch, page, TypeOK, Serving, Idle
    <2>1. CASE Reply(Head(calls).token)
        BY <1>3, <2>0, <2>1
    <2>2. CASE UNCHANGED <<calls, replies>>
        BY <1>1, <2>0, <2>2 DEF Quiet
    <2> QED
        BY <1>13, <2>1, <2>2 DEF Touch
<1> QED
    BY <1>1, <1>2, <1>5, <1>6, <1>7, <1>8, <1>9, <1>10, <1>11, <1>12, <1>13, QuietSteps
    DEF Next, Serve, Replies, User
-----------------------------------------------------------------------------
\* Sessions only lose what they have left, but for a sign-in.
LEMMA LastingShrinks ==
    ASSUME TypeOK, life' \in [Token -> Int], live' \subseteq live, backup' \in {backup, 0},
           kept \subseteq kept',
           \A t \in Token : life'[t] <= life[t]
    PROVE  Lasting' \subseteq Lasting
<1> SUFFICES ASSUME NEW t \in Lasting' PROVE t \in Lasting
    OBVIOUS
<1>1. t \in Token /\ t # 0 /\ t \notin kept /\ (t \in live' \/ t = backup') /\ life'[t] > Buffer
    BY LimitAssumption DEF Lasting, Token
<1>2. t \in live \/ t = backup
    BY <1>1
<1>3. life[t] \in Int /\ life'[t] \in Int /\ life'[t] <= life[t]
    BY <1>1, LimitAssumption DEF TypeOK
<1>4. life[t] > Buffer
    BY <1>1, <1>3, LimitAssumption
<1> QED
    BY <1>1, <1>2, <1>4 DEF Lasting, Token

LEMMA SameLifeShrinks ==
    ASSUME TypeOK, live' \subseteq live, backup' \in {backup, 0}, UNCHANGED life,
           kept \subseteq kept'
    PROVE  Lasting' \subseteq Lasting
<1>1. life' \in [Token -> Int] /\ \A t \in Token : life'[t] <= life[t]
    BY LimitAssumption DEF TypeOK
<1> QED
    BY <1>1, LastingShrinks

LEMMA NobodysIsNone == ASSUME Lasting \subseteq {0} PROVE Lasting = {}
    BY LimitAssumption DEF Lasting

\* The worker only answers the page once it has asked, and so a sign-in under
\* way means that no earlier one waits to be taken.
LEMMA ServingMeansUntaken ==
    ASSUME IInv, calls # <<>>
    PROVE  /\ \A i \in 1..Len(replies) : replies[i].op # "create"
           /\ Head(calls).op = "create" => ~unlocked /\ entering
<1>1. TypeOK /\ SignInIsLast
    BY DEF IInv
<1>2. calls \in Seq(CallType)
    BY <1>1 DEF TypeOK
<1>3. Head(calls) = calls[1] /\ 1 \in 1..Len(calls)
    BY <1>2, TailFacts
<1> QED
    BY <1>1, <1>3 DEF SignInIsLast

\* An answer that opens nothing disturbs nothing.
LEMMA UseServedKeeps ==
    ASSUME IInv, calls # <<>>, Head(calls).op = "use", NEW t \in 0..MaxSession, Reply(t),
           Lasting' \subseteq Lasting, UNCHANGED <<token, unlocked>>
    PROVE  LastingIsHeld'
<1>1. TypeOK /\ LastingIsHeld
    BY DEF IInv
<1>2. /\ Len(replies) \in Nat /\ Len(replies') = Len(replies) + 1
      /\ \A i \in 1..Len(replies) : replies'[i] = replies[i]
      /\ replies'[Len(replies')].op = "use"
    BY <1>1, ReplyFacts
<1>3. \A i \in 1..Len(replies') : i \in 1..Len(replies) \/ i = Len(replies')
    BY <1>2
<1>4. \A i \in 1..Len(replies) : replies[i].op # "create"
    BY ServingMeansUntaken
<1>5. \A i \in 1..Len(replies') : replies'[i].op # "create"
    BY <1>2, <1>3, <1>4
<1>6. Locked' => Locked
    BY <1>2, <1>3 DEF Locked
<1> QED
    BY <1>1, <1>4, <1>5, <1>6 DEF LastingIsHeld

LEMMA QuietKeepsLasting ==
    ASSUME IInv, Quiet, Lasting' \subseteq Lasting
    PROVE  LastingIsHeld'
    BY DEF IInv, Quiet, LastingIsHeld, Locked

LEMMA LastingStep == ASSUME IInv, Next PROVE LastingIsHeld'
<1>0. /\ TypeOK /\ SignInIsLast /\ TokensExist /\ LastingIsHeld
      /\ made \in Nat /\ token \in 0..made
    BY LimitAssumption DEF IInv, TypeOK
<1>1. CASE Tick
    <2>1. life' \in [Token -> Int] /\ \A t \in Token : life'[t] <= life[t]
        <3>1. \A t \in Token : life[t] \in Int /\ Down(life[t]) \in Int
                                  /\ Down(life[t]) <= life[t]
            BY <1>0, LimitAssumption DEF TypeOK, Down
        <3> QED
            BY <1>1, <3>1 DEF Tick
    <2>2. Lasting' \subseteq Lasting
        BY <1>0, <1>1, <2>1, LastingShrinks DEF Tick
    <2> QED
        BY <1>1, <2>2, QuietSteps, QuietKeepsLasting
<1>2. CASE BeginUse \/ CleanupExpiredSessions \/ Timers \/ Activity \/ LogoutNow
              \/ Connect \/ DisconnectAll
    <2>1. live' \subseteq live /\ UNCHANGED <<backup, life, kept>>
        BY <1>2 DEF BeginUse, CleanupExpiredSessions, Timers, HandleActivity, ResetTimers,
            ShowLogoutWarning, LogoutTimer, PerformLogout, LogoutReturns, Activity, LogoutNow,
            Connect, DisconnectAll, manager
    <2>2. Lasting' \subseteq Lasting
        BY <1>0, <2>1, SameLifeShrinks
    <2> QED
        BY <1>2, <2>2, QuietSteps, QuietKeepsLasting
<1>3. CASE CreateSession
    <2>0. calls # <<>> /\ Head(calls).op = "create" /\ UNCHANGED <<token, unlocked, kept>>
        BY <1>3 DEF CreateSession, Serving, page
    <2>1. /\ ~unlocked
          /\ \A i \in 1..Len(replies) : replies[i].op # "create"
          /\ Lasting = {}
        BY <1>0, <2>0, ServingMeansUntaken DEF LastingIsHeld
    <2>2. CASE Reply(0) /\ UNCHANGED <<made, life, idle, live, backup>>
        <3>1. Lasting' = {}
            BY <1>0, <2>0, <2>1, <2>2, SameLifeShrinks
        <3> QED
            BY <2>0, <2>1, <3>1 DEF LastingIsHeld
    <2>3. CASE /\ made < MaxSession
               /\ life' = [life EXCEPT ![made + 1] = MaxLife]
               /\ live' = live \cup {made + 1}
               /\ backup' = made + 1
               /\ Reply(made + 1)
        <3>1. made + 1 \in 0..MaxSession
            BY <1>0, <2>3, LimitAssumption
        <3>2. /\ Len(replies) \in Nat /\ Len(replies') = Len(replies) + 1
              /\ \A i \in 1..Len(replies) : replies'[i] = replies[i]
              /\ replies'[Len(replies')].op = "create"
              /\ replies'[Len(replies')].token = made + 1
            BY <1>0, <2>0, <2>3, <3>1, ReplyFacts
        <3>3. Lasting' \subseteq {made + 1}
            <4> SUFFICES ASSUME NEW t \in Lasting', t # made + 1 PROVE FALSE
                OBVIOUS
            <4>1. t \in 1..MaxSession /\ t \in live /\ t \notin kept /\ life'[t] > Buffer
                BY <2>0, <2>3 DEF Lasting
            <4>2. life'[t] = life[t]
                BY <1>0, <2>3, <4>1 DEF TypeOK, Token
            <4> QED
                BY <2>1, <4>1, <4>2 DEF Lasting
        <3>4. \A i \in 1..Len(replies') : i \in 1..Len(replies) \/ i = Len(replies')
            BY <3>2
        <3>5. \A i \in 1..Len(replies') : replies'[i].op = "create" =>
                  Lasting' \subseteq {replies'[i].token}
            BY <2>1, <3>2, <3>3, <3>4
        <3>6. Len(replies') \in 1..Len(replies')
            BY <3>2
        <3> QED
            BY <2>0, <2>1, <3>2, <3>5, <3>6 DEF LastingIsHeld
    <2> QED
        BY <1>3, <2>2, <2>3 DEF CreateSession
<1>4. CASE RevokeToken
    <2>0. /\ calls # <<>> /\ Head(calls).op = "revoke"
          /\ live' \subseteq live /\ backup' \in {backup, 0} /\ kept \subseteq kept'
          /\ \/ live' = live \ {Head(calls).token} /\ backup' = 0
             \/ Head(calls).token \in kept'
          /\ UNCHANGED <<token, unlocked, life>>
        BY <1>4 DEF RevokeToken, Serving, page
    <2>1. calls \in Seq(CallType)
        BY <1>0 DEF TypeOK
    <2>2. Head(calls) = calls[1] /\ 1 \in 1..Len(calls) /\ Head(calls) \in CallType
        BY <2>0, <2>1, TailFacts
    <2>3. \A i \in 1..Len(replies) : replies[i].op # "create"
        BY <2>0, ServingMeansUntaken
    <2>4. Lasting' \subseteq Lasting
        BY <1>0, <2>0, SameLifeShrinks
    <2>5. Head(calls).token \notin Lasting'
        BY <2>0, LimitAssumption DEF Lasting
    <2>6. unlocked => Head(calls).token = token \/ token = 0
        BY <1>0, <2>0, <2>2 DEF TokensExist
    <2>7. Lasting' = {}
        <3>1. CASE ~unlocked
            BY <1>0, <2>3, <2>4, <3>1 DEF LastingIsHeld
        <3>2. CASE unlocked /\ token = 0
            BY <1>0, <2>4, <3>2, NobodysIsNone DEF LastingIsHeld
        <3>3. CASE unlocked /\ Head(calls).token = token
            BY <1>0, <2>4, <2>5, <3>3 DEF LastingIsHeld
        <3> QED
            BY <2>6, <3>1, <3>2, <3>3
    <2> QED
        BY <2>7 DEF LastingIsHeld
<1>5. CASE Look \/ Touch
    <2>0. work # Idle /\ UNCHANGED <<made, token, unlocked, entering, life, backup, kept>>
          /\ live' \subseteq live
        BY <1>5 DEF Look, Touch, Touched, page, Idle
    <2>1. calls # <<>> /\ Head(calls).op = "use"
        BY <1>0, <2>0 DEF TypeOK, Serving
    <2>2. Lasting' \subseteq Lasting
        BY <1>0, <2>0, SameLifeShrinks
    <2>3. calls \in Seq(CallType)
        BY <1>0 DEF TypeOK
    <2>4. Head(calls) \in CallType
        BY <2>1, <2>3, TailFacts
    <2>5. Head(calls).token \in 0..MaxSession /\ 0 \in 0..MaxSession
        BY <2>4, LimitAssumption DEF CallType
    <2>6. CASE Reply(0) \/ Reply(Head(calls).token)
        BY <2>0, <2>1, <2>2, <2>5, <2>6, UseServedKeeps
    <2>7. CASE UNCHANGED <<calls, replies>>
        BY <2>0, <2>2, <2>7, QuietKeepsLasting DEF Quiet
    <2> QED
        BY <1>5, <2>6, <2>7 DEF Look, Touch
<1>6. CASE UnlockReply
    <2>0. /\ UNCHANGED <<made, life, live, backup, kept, calls>>
          /\ replies # <<>> /\ replies' = Tail(replies)
          /\ Head(replies).op = "create" /\ token' = Head(replies).token
          /\ token' # 0 => unlocked' = TRUE
          /\ token' = 0 => UNCHANGED unlocked
        BY <1>6 DEF UnlockReply, manager
    <2>1. Len(replies) = 1 /\ entering
        BY <2>0, AnswerKeepsOrder
    <2>2. Head(replies) = replies[1] /\ 1 \in 1..Len(replies) /\ Len(replies') = 0
        BY <1>0, <2>0, <2>1, AnswerFacts
    <2>3. Lasting' \subseteq {token'}
        BY <1>0, <2>0, <2>2, SameLifeShrinks DEF LastingIsHeld
    <2>4. ~unlocked
        BY <1>0, <2>1 DEF SignInIsLast
    <2>5. Lasting \subseteq {0} => Lasting' = {}
        BY <1>0, <2>0, NobodysIsNone, SameLifeShrinks
    <2>6. ~unlocked' => Lasting' = {}
        BY <1>0, <2>0, <2>2, <2>4, <2>5 DEF LastingIsHeld
    <2>7. \A i \in 1..Len(replies') : FALSE
        BY <2>2
    <2> QED
        BY <2>3, <2>6, <2>7 DEF LastingIsHeld, Locked
<1>7. CASE LockReply
    <2>0. /\ UNCHANGED <<made, life, live, backup, kept, calls>>
          /\ replies # <<>> /\ replies' = Tail(replies)
          /\ Head(replies).op = "revoke" /\ ~unlocked'
        BY <1>7 DEF LockReply, manager
    <2>1. /\ Len(replies) \in Nat /\ Len(replies) >= 1 /\ Len(replies') = Len(replies) - 1
          /\ Head(replies) = replies[1]
          /\ \A i \in 1..Len(replies') : replies'[i] = replies[i + 1] /\ i + 1 \in 1..Len(replies)
        BY <1>0, <2>0, AnswerFacts
    <2>2. Lasting' \subseteq Lasting
        BY <1>0, <2>0, SameLifeShrinks
    <2>3. \A i \in 1..Len(replies') :
              replies'[i].op = "create" => Lasting' \subseteq {replies'[i].token}
        BY <1>0, <2>1, <2>2 DEF LastingIsHeld
    <2>4. Locked
        BY <2>0, <2>1 DEF Locked
    <2>5. ASSUME \A i \in 1..Len(replies') : replies'[i].op # "create"
          PROVE  \A i \in 1..Len(replies) : replies[i].op # "create"
        <3> SUFFICES ASSUME NEW i \in 1..Len(replies), replies[i].op = "create" PROVE FALSE
            OBVIOUS
        <3>1. i # 1
            BY <2>0, <2>1
        <3>2. i - 1 \in 1..Len(replies') /\ replies'[i - 1] = replies[i]
            BY <2>1, <3>1
        <3> QED
            BY <2>5, <3>2
    <2>6. (\A i \in 1..Len(replies') : replies'[i].op # "create") => Lasting' = {}
        BY <1>0, <2>2, <2>4, <2>5 DEF LastingIsHeld
    <2> QED
        BY <2>0, <2>3, <2>6 DEF LastingIsHeld
<1>8. CASE UseReply
    <2>0. /\ UNCHANGED <<made, life, live, backup, kept, calls, token, unlocked>>
          /\ replies # <<>> /\ replies' = Tail(replies) /\ Head(replies).op = "use"
        BY <1>8 DEF UseReply, manager, page
    <2>1. /\ Len(replies) \in Nat /\ Len(replies) >= 1 /\ Len(replies') = Len(replies) - 1
          /\ Head(replies) = replies[1]
          /\ \A i \in 1..Len(replies') : replies'[i] = replies[i + 1] /\ i + 1 \in 1..Len(replies)
        BY <1>0, <2>0, AnswerFacts
    <2>2. Lasting' \subseteq Lasting
        BY <1>0, <2>0, SameLifeShrinks
    <2>3. \A i \in 1..Len(replies') :
              replies'[i].op = "create" => Lasting' \subseteq {replies'[i].token}
        BY <1>0, <2>1, <2>2 DEF LastingIsHeld
    <2>4. Locked' => Locked
        BY <2>1 DEF Locked
    <2>5. ASSUME \A i \in 1..Len(replies') : replies'[i].op # "create"
          PROVE  \A i \in 1..Len(replies) : replies[i].op # "create"
        <3> SUFFICES ASSUME NEW i \in 1..Len(replies), replies[i].op = "create" PROVE FALSE
            OBVIOUS
        <3>1. i # 1
            BY <2>0, <2>1
        <3>2. i - 1 \in 1..Len(replies') /\ replies'[i - 1] = replies[i]
            BY <2>1, <3>1
        <3> QED
            BY <2>5, <3>2
    <2>6. ~unlocked' /\ (\A i \in 1..Len(replies') : replies'[i].op # "create")
              => Lasting' = {}
        BY <1>0, <2>0, <2>2, <2>5 DEF LastingIsHeld
    <2> QED
        BY <1>0, <2>0, <2>2, <2>3, <2>4, <2>6 DEF LastingIsHeld
<1>9. CASE Unlock
    <2>1. UNCHANGED <<live, life, backup, kept, replies, token, unlocked>>
        BY <1>9 DEF Unlock, manager
    <2>2. Lasting' \subseteq Lasting
        BY <1>0, <2>1, SameLifeShrinks
    <2> QED
        BY <1>0, <2>1, <2>2 DEF LastingIsHeld, Locked
<1>10. CASE ContinueUsing
    <2>1. UNCHANGED <<live, life, backup, kept, replies>> /\ unlocked
        BY <1>10 DEF ContinueUsing, manager
    <2>2. Lasting' \subseteq Lasting
        BY <1>0, <2>1, SameLifeShrinks
    <2>3. CASE UNCHANGED <<token, unlocked>>
        BY <1>0, <2>1, <2>2, <2>3 DEF LastingIsHeld, Locked
    <2>4. CASE token = 0 /\ unlocked' = FALSE /\ UNCHANGED token
        <3>1. Lasting' = {}
            BY <1>0, <2>1, <2>2, <2>4, NobodysIsNone DEF LastingIsHeld
        <3> QED
            BY <2>4, <3>1 DEF LastingIsHeld
    <2> QED
        BY <1>10, <2>3, <2>4 DEF ContinueUsing, Lock
<1>11. CASE CallApi
    <2>1. UNCHANGED <<live, life, backup, kept, replies, unlocked>> /\ unlocked /\ token # 0
        BY <1>11 DEF CallApi, manager
    <2>2. Lasting' \subseteq Lasting
        BY <1>0, <2>1, SameLifeShrinks
    <2>3. CASE UNCHANGED token
        BY <1>0, <2>1, <2>2, <2>3 DEF LastingIsHeld, Locked
    <2>4. CASE ~Usable /\ token' = 0
        <3>1. token \notin Lasting
            BY <2>1, <2>4 DEF Usable, Lasting
        <3>2. Lasting' = {}
            BY <1>0, <2>1, <2>2, <3>1 DEF LastingIsHeld
        <3> QED
            BY <3>2 DEF LastingIsHeld
    <2> QED
        BY <1>11, <2>3, <2>4 DEF CallApi
<1> QED
    BY <1>1, <1>2, <1>3, <1>4, <1>5, <1>6, <1>7, <1>8, <1>9, <1>10, <1>11
    DEF Next, Serve, Replies, User
-----------------------------------------------------------------------------
\* A revocation that was asked for does not vanish before its answer is taken.
LEMMA RevocationRemains ==
    ASSUME TypeOK, calls # <<>>, NEW t \in 0..MaxSession, Reply(t), Locking \/ Locked
    PROVE  Locking' \/ Locked'
<1>1. /\ Len(calls) \in Nat /\ Len(calls) >= 1 /\ Len(calls') = Len(calls) - 1
      /\ Head(calls) = calls[1]
      /\ \A i \in 1..Len(calls') : calls'[i] = calls[i + 1] /\ i + 1 \in 1..Len(calls)
      /\ Len(replies) \in Nat /\ Len(replies') = Len(replies) + 1
      /\ \A i \in 1..Len(replies) : replies'[i] = replies[i]
      /\ replies'[Len(replies')].op = Head(calls).op
    BY ReplyFacts
<1>2. CASE Locked
    BY <1>1, <1>2 DEF Locked
<1>3. CASE Locking
    <2>1. PICK i \in 1..Len(calls) : calls[i].op = "revoke"
        BY <1>3 DEF Locking
    <2>2. CASE i = 1
        BY <1>1, <2>1, <2>2 DEF Locked
    <2>3. CASE i # 1
        <3>1. i - 1 \in 1..Len(calls') /\ calls'[i - 1] = calls[i]
            BY <1>1, <2>3
        <3> QED
            BY <2>1, <3>1 DEF Locking
    <2> QED
        BY <2>2, <2>3
<1> QED
    BY <1>2, <1>3

LEMMA WatchStep == ASSUME IInv, Next PROVE IdleIsWatched'
<1>0. TypeOK /\ SignInIsLast /\ IdleIsWatched
    BY DEF IInv
<1> SUFFICES ASSUME unlocked', leaving' = 0, ~loggedOut', ~Locking', ~Locked'
             PROVE  (warn' = Off) <=> ~(logout' = Off)
    BY DEF IdleIsWatched
<1>1. ASSUME unlocked, leaving = 0, ~loggedOut, ~Locking, ~Locked
      PROVE  (warn = Off) <=> ~(logout = Off)
    BY <1>0, <1>1 DEF IdleIsWatched
<1>2. Warn # Off /\ Grace # Off
    BY LimitAssumption DEF Off
<1>3. CASE HandleActivity
    BY <1>2, <1>3 DEF HandleActivity, ResetTimers
<1>4. CASE ShowLogoutWarning
    BY <1>2, <1>4 DEF ShowLogoutWarning
<1>5. CASE LogoutTimer \/ LogoutNow
    BY <1>0, <1>5, LimitAssumption DEF LogoutTimer, LogoutNow, PerformLogout, TypeOK
<1>17. CASE LogoutReturns
    BY <1>17 DEF LogoutReturns, page
<1>6. CASE Tick
    <2>1. warn \in Timer(Warn) /\ logout \in Timer(Grace)
        BY <1>0 DEF TypeOK
    <2>2. (Down(warn) = Off <=> warn = Off) /\ (Down(logout) = Off <=> logout = Off)
        BY <2>1, LimitAssumption DEF Timer, Off, Down
    <2>3. UNCHANGED <<unlocked, leaving, loggedOut, calls, replies>>
          /\ warn' = Down(warn) /\ logout' = Down(logout)
        BY <1>6 DEF Tick, page
    <2> QED
        BY <1>1, <2>2, <2>3 DEF Locking, Locked
<1>7. CASE UNCHANGED <<unlocked, leaving, loggedOut, warn, logout, calls, replies>>
    BY <1>1, <1>7 DEF Locking, Locked
<1>8. ASSUME calls # <<>>, UNCHANGED <<unlocked, leaving, loggedOut, warn, logout>>,
             NEW t \in 0..MaxSession, Reply(t)
      PROVE  (warn' = Off) <=> ~(logout' = Off)
    <2>1. ~Locking /\ ~Locked
        BY <1>0, <1>8, RevocationRemains
    <2> QED
        BY <1>1, <1>8, <2>1
<1>9. CASE Serve
    <2>1. UNCHANGED <<unlocked, leaving, loggedOut, warn, logout>>
        BY <1>9 DEF Serve, CreateSession, RevokeToken, BeginUse, Look, Touch, page, timers
    <2>2. CASE UNCHANGED <<calls, replies>>
        BY <1>7, <2>1, <2>2
    <2>3. CASE \E t \in 0..MaxSession : calls # <<>> /\ Reply(t)
        BY <1>8, <2>1, <2>3
    <2>4. calls # <<>> => Head(calls).token \in 0..MaxSession
        <3>1. calls \in Seq(CallType)
            BY <1>0 DEF TypeOK
        <3>2. calls # <<>> => Head(calls) \in CallType
            BY <3>1, TailFacts
        <3> QED
            BY <3>2 DEF CallType
    <2>5. 0 \in 0..MaxSession /\ (made < MaxSession => made + 1 \in 0..MaxSession)
        BY <1>0, LimitAssumption DEF TypeOK
    <2>6. BeginUse \/ calls # <<>>
        BY <1>0, <1>9 DEF Serve, CreateSession, RevokeToken, Look, Touch, Serving, TypeOK, Idle
    <2> QED
        BY <1>9, <2>2, <2>3, <2>4, <2>5, <2>6
        DEF Serve, CreateSession, RevokeToken, BeginUse, Look, Touch
<1>10. CASE UnlockReply
    <2>1. replies # <<>> /\ replies' = Tail(replies) /\ UNCHANGED <<made, calls>>
          /\ Head(replies).op = "create"
        BY <1>10 DEF UnlockReply, manager
    <2>2. ~unlocked
        BY <1>0, <2>1, AnswerKeepsOrder DEF SignInIsLast
    <2> QED
        BY <1>2, <1>10, <2>2 DEF UnlockReply, Mount
<1>11. CASE LockReply
    BY <1>11 DEF LockReply
<1>12. CASE UseReply
    <2>1. /\ UNCHANGED <<unlocked, leaving, loggedOut, warn, logout, calls>>
          /\ replies # <<>> /\ replies' = Tail(replies) /\ Head(replies).op = "use"
        BY <1>12 DEF UseReply, manager, page, timers
    <2>2. /\ Len(replies) \in Nat /\ Len(replies') = Len(replies) - 1
          /\ Head(replies) = replies[1]
          /\ \A i \in 1..Len(replies') : replies'[i] = replies[i + 1] /\ i + 1 \in 1..Len(replies)
        BY <1>0, <2>1, AnswerFacts
    <2>3. ASSUME NEW i \in 1..Len(replies), replies[i].op = "revoke"
          PROVE  FALSE
        <3>1. i # 1
            BY <2>1, <2>2, <2>3
        <3>2. i - 1 \in 1..Len(replies') /\ replies'[i - 1] = replies[i]
            BY <2>2, <3>1
        <3> QED
            BY <2>3, <3>2 DEF Locked
    <2> QED
        BY <1>1, <2>1, <2>3 DEF Locking, Locked
<1>13. CASE Unlock
    BY <1>13 DEF Unlock
<1>14. CASE ContinueUsing
    <2>1. CASE Send("revoke", token)
        <3>1. token \in 0..MaxSession
            BY <1>0, LimitAssumption DEF TypeOK
        <3>2. Len(calls) \in Nat /\ Len(calls') = Len(calls) + 1
              /\ calls'[Len(calls')].op = "revoke"
            BY <1>0, <2>1, <3>1, SendFacts
        <3> QED
            BY <3>2 DEF Locking
    <2> QED
        BY <1>14, <2>1 DEF ContinueUsing, Lock
<1>15. CASE CallApi
    <2>1. UNCHANGED <<unlocked, leaving, loggedOut, warn, logout, replies>>
        BY <1>15 DEF CallApi, timers
    <2>2. CASE UNCHANGED calls
        BY <1>7, <2>1, <2>2
    <2>3. CASE Send("use", token)
        <3>1. token \in 0..MaxSession
            BY <1>0, LimitAssumption DEF TypeOK
        <3>2. Len(calls) \in Nat /\ Len(calls') = Len(calls) + 1
              /\ \A i \in 1..Len(calls) : calls'[i] = calls[i]
            BY <1>0, <2>3, <3>1, SendFacts
        <3>3. Locking => Locking'
            BY <3>2 DEF Locking
        <3> QED
            BY <1>1, <2>1, <3>3 DEF Locked
    <2> QED
        BY <1>15, <2>2, <2>3 DEF CallApi
<1>16. CASE CleanupExpiredSessions \/ Activity \/ Connect \/ DisconnectAll
    BY <1>7, <1>16 DEF CleanupExpiredSessions, Activity, Connect, DisconnectAll, page, timers
<1> QED
    BY <1>3, <1>4, <1>5, <1>6, <1>9, <1>10, <1>11, <1>12, <1>13, <1>14, <1>15, <1>16, <1>17
    DEF Next, Timers, Replies, User

-----------------------------------------------------------------------------
LEMMA WaitStep == ASSUME IInv, Next PROVE TimersWait'
<1>0. /\ TimersWait /\ warn \in Timer(Warn) /\ logout \in Timer(Grace)
      /\ throttle \in Timer(1) /\ away \in 0..Limit
    BY DEF IInv, TypeOK
<1> USE LimitAssumption
<1>1. CASE UNCHANGED <<warn, logout, throttle, away>>
    BY <1>0, <1>1 DEF TimersWait
<1>2. CASE Activity
    BY <1>0, <1>2 DEF Activity, TimersWait, Off
<1>3. CASE HandleActivity
    BY <1>0, <1>3 DEF HandleActivity, ResetTimers, TimersWait, Off, Limit
<1>4. CASE ShowLogoutWarning
    BY <1>0, <1>4 DEF ShowLogoutWarning, TimersWait, Off, Limit, Timer
<1>5. CASE LogoutTimer
    BY <1>0, <1>5 DEF LogoutTimer, PerformLogout, TimersWait
<1>6. CASE LogoutNow \/ LogoutReturns
    BY <1>0, <1>6 DEF LogoutNow, LogoutReturns, PerformLogout, TimersWait
<1>7. CASE UnlockReply
    <2>1. CASE away' = 0 /\ Mount
        BY <2>1 DEF Mount, TimersWait, Off
    <2>2. CASE UNCHANGED <<away, timers>>
        BY <1>1, <2>2 DEF timers
    <2> QED
        BY <1>7, <2>1, <2>2 DEF UnlockReply
<1>8. CASE LockReply
    BY <1>8 DEF LockReply, Unmount, TimersWait
<1>9. CASE ContinueUsing
    <2>1. CASE logout' = Off /\ UNCHANGED <<warn, throttle, away>>
        BY <1>0, <2>1 DEF TimersWait
    <2>2. CASE Unmount
        BY <2>2 DEF Unmount, TimersWait
    <2> QED
        BY <1>9, <2>1, <2>2 DEF ContinueUsing, Lock
<1>10. CASE Tick
    <2>1. warn' = Down(warn) /\ logout' = Down(logout) /\ throttle' = Down(throttle)
          /\ away' = Up(away, Limit)
        BY <1>10 DEF Tick
    <2>2. throttle' = Off => throttle = Off
        BY <1>0, <2>1 DEF Timer, Off, Down
    <2>3. warn' # Off /\ throttle = Off => warn' + away' >= Warn
        BY <1>0, <2>1 DEF TimersWait, Timer, Off, Down, Up, Limit
    <2>4. logout' # Off /\ throttle = Off => logout' + away' >= Limit
        BY <1>0, <2>1 DEF TimersWait, Timer, Off, Down, Up, Limit
    <2> QED
        BY <2>2, <2>3, <2>4 DEF TimersWait
<1>11. CASE Serve \/ CleanupExpiredSessions \/ UseReply \/ Unlock \/ CallApi \/ Connect
               \/ DisconnectAll
    BY <1>1, <1>11
    DEF Serve, CreateSession, RevokeToken, BeginUse, Look, Touch, CleanupExpiredSessions,
        UseReply, Unlock, CallApi, Connect, DisconnectAll, timers
<1> QED
    BY <1>2, <1>3, <1>4, <1>5, <1>6, <1>7, <1>8, <1>9, <1>10, <1>11
    DEF Next, Timers, Replies, User

-----------------------------------------------------------------------------
LEMMA StutterKeeps == ASSUME IInv, UNCHANGED vars PROVE IInv'
<1> USE DEF vars, manager, page, timers, IInv
<1>1. TypeOK'
    BY DEF TypeOK, Serving
<1>2. SignInIsLast' /\ TokensExist'
    BY DEF SignInIsLast, TokensExist
<1>3. LastingIsHeld'
    BY DEF LastingIsHeld, Lasting, Locked
<1>4. TimersWait' /\ IdleIsWatched'
    BY DEF TimersWait, IdleIsWatched, Locking, Locked
<1> QED
    BY <1>1, <1>2, <1>3, <1>4

THEOREM Invariant == Spec => []IInv
<1>1. Init => IInv
    BY InitHolds
<1>2. IInv /\ [Next]_vars => IInv'
    <2> SUFFICES ASSUME IInv, [Next]_vars PROVE IInv'
        OBVIOUS
    <2>1. CASE Next
        <3>1. TypeOK' /\ SignInIsLast' /\ TokensExist'
            BY <2>1, TypeStep, OrderStep
        <3>2. LastingIsHeld' /\ TimersWait' /\ IdleIsWatched'
            BY <2>1, LastingStep, WaitStep, WatchStep
        <3> QED
            BY <3>1, <3>2 DEF IInv
    <2>2. CASE UNCHANGED vars
        BY <2>2, StutterKeeps
    <2> QED
        BY <2>1, <2>2
<1> QED
    BY <1>1, <1>2, PTL DEF Spec

\* The state of the manager, the queue, the page and the timers is well formed.
THEOREM TypeCorrect == Spec => []TypeOK
<1>1. IInv => TypeOK
    BY DEF IInv
<1> QED
    BY <1>1, Invariant, PTL

\* A locked page holds no token and leaves no session that lasts but one whose
\* revocation failed, for any life of a session, any margin of the page, and
\* whatever calls were under way when it was locked.
THEOREM LockRevokes == Spec => []LockedIsRevoked
<1>1. IInv => LockedIsRevoked
    <2> SUFFICES ASSUME IInv, ~unlocked, ~entering PROVE
                 /\ token = 0
                 /\ \A t \in live \cup ({backup} \ {0}) : life[t] <= Buffer \/ t \in kept
        BY DEF LockedIsRevoked
    <2>1. TypeOK /\ SignInIsLast /\ LastingIsHeld
        BY DEF IInv
    <2>2. token = 0
        BY <2>1 DEF SignInIsLast
    <2>3. Lasting = {}
        BY <2>1 DEF SignInIsLast, LastingIsHeld
    <2>4. ASSUME NEW t \in live \cup ({backup} \ {0}), t \notin kept PROVE life[t] <= Buffer
        <3>1. t \in 1..MaxSession
            BY <2>1, LimitAssumption DEF TypeOK
        <3>2. life[t] \in Int
            BY <2>1, <3>1, LimitAssumption DEF TypeOK, Token
        <3>3. ~(life[t] > Buffer)
            BY <2>3, <2>4, <3>1 DEF Lasting
        <3> QED
            BY <3>2, <3>3, LimitAssumption
    <2> QED
        BY <2>2, <2>4
<1> QED
    BY <1>1, Invariant, PTL

\* While the page is open one timer, and only one, leads to the logout.
THEOREM OneTimerWatches == Spec => []IdleIsWatched
<1>1. IInv => IdleIsWatched
    BY DEF IInv
<1> QED
    BY <1>1, Invariant, PTL

\* A token that left the manager's map never comes back, although its session is
\* written to after the lock was given up.
THEOREM TokensDieOnce == Spec => EndedStaysEnded
<1>1. IInv /\ [Next]_vars => [\A t \in 1..made : t \notin live => t \notin live']_vars
    <2> SUFFICES ASSUME IInv, Next, NEW t \in 1..made, t \notin live, t \in live'
                 PROVE  FALSE
        OBVIOUS
    <2>1. made \in Nat
        BY LimitAssumption DEF IInv, TypeOK
    <2>2. live' \subseteq live \cup {made + 1}
        BY DEF Next, Serve, CreateSession, RevokeToken, BeginUse, Look, Touch, Touched,
            CleanupExpiredSessions, Timers, HandleActivity, ShowLogoutWarning, LogoutTimer,
            PerformLogout, LogoutReturns, Replies, UnlockReply, LockReply, UseReply, User,
            Unlock, Activity,
            LogoutNow, ContinueUsing, CallApi, Connect, DisconnectAll, Tick, manager
    <2> QED
        BY <2>1, <2>2
<1> QED
    BY <1>1, Invariant, PTL DEF Spec, EndedStaysEnded

\* The timer never logs out a user who touched the page during the whole time it
\* allows, whatever the times are.
THEOREM OnlyIdleUsersLogOut == Spec => LogoutOnlyWhenIdle
<1>1. IInv /\ [Next]_vars =>
          [leaving' > leaving /\ logout' # logout => throttle # Off \/ away >= Limit]_vars
    <2> SUFFICES ASSUME IInv, Next, leaving' > leaving, logout' # logout, throttle = Off
                 PROVE  away >= Limit
        OBVIOUS
    <2>0. leaving \in Nat
        BY LimitAssumption DEF IInv, TypeOK
    <2>1. LogoutTimer
        BY <2>0 DEF Next, Serve, CreateSession, RevokeToken, BeginUse, Look, Touch,
            CleanupExpiredSessions, Timers, HandleActivity, ShowLogoutWarning, LogoutReturns,
            Replies, UnlockReply, LockReply, UseReply, User, Unlock, Activity, Mount, Unmount,
            LogoutNow, ContinueUsing, Lock, CallApi, Connect, DisconnectAll, Tick, timers
    <2>2. logout = 0 /\ logout # Off
        BY <2>1 DEF LogoutTimer, Off
    <2>3. logout + away >= Limit /\ away \in Nat
        BY <2>2, LimitAssumption DEF IInv, TimersWait, TypeOK, Limit
    <2> QED
        BY <2>2, <2>3, LimitAssumption DEF Limit
<1> QED
    BY <1>1, Invariant, PTL DEF Spec, LogoutOnlyWhenIdle

=============================================================================
