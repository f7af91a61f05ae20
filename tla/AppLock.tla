------------------------------- MODULE AppLock -------------------------------
(***************************************************************************)
(* Signing in to the app, the session token that stands for it, and the    *)
(* ways it ends: the lock button of the inactivity dialog, the logout      *)
(* timer, the end of its life and its idle limit.                          *)
(*                                                                         *)
(* Three parties keep a part of this state: the Go SessionManager with its *)
(* hourly cleaner, the Rust commands, and the page (session store, unlock  *)
(* state, the timers of useInactivityLogout).  Calls go through the FFI    *)
(* queue, which serves one at a time; answers reach the page later.        *)
(***************************************************************************)
EXTENDS Integers, Sequences, FiniteSets

CONSTANTS
    MaxSession,  \* bound on the sign-ins of a run
    MaxCalls,    \* bound on the calls and answers under way
    MaxLogout,   \* bound on the logouts under way
    MaxLife,     \* life of a session, 24 h in the code
    MaxIdle,     \* idle limit of a session, 2 h
    Buffer,      \* the page gives a token up this long before its end, 1 min
    Warn,        \* inactivity until the dialog, 14 min
    Grace        \* from the dialog to the logout, 1 min

ASSUME LimitAssumption ==
    /\ MaxSession \in Nat /\ MaxCalls \in Nat /\ MaxLogout \in Nat
    /\ MaxLife \in Nat /\ MaxIdle \in Nat /\ Buffer \in Nat
    /\ Warn \in Nat /\ Grace \in Nat

VARIABLES
    made,      \* tokens created so far; a token is named by its number
    life,      \* token -> time left until its ExpiresAt
    idle,      \* token -> time since its LastUsed
    live,      \* tokens in the manager's map
    backup,    \* the token in the Rust state, 0 for none
    kept,      \* history: tokens whose revocation failed
    work,      \* the lookup of a token that the FFI worker is in
    calls,     \* calls in the FFI queue
    replies,   \* answers on their way to the page
    token,     \* the token in the session store, 0 for none
    unlocked,  \* isUnlocked
    entering,  \* unlock() is under way
    warn, logout, throttle,  \* timers: time to go, or Off
    shown,     \* showWarning
    leaving,   \* performLogout under way, that often
    loggedOut, \* performLogout ended and no activity was handled since
    away,      \* time since the user last touched the page
    wc         \* whether a dApp is connected

manager == <<made, life, idle, live, backup, kept, work>>
timers == <<warn, logout, throttle, shown, leaving, loggedOut>>
page == <<token, unlocked, entering, wc>>
vars == <<manager, calls, replies, page, timers, away>>

-----------------------------------------------------------------------------
Token == 1..MaxSession
Off == -1
Limit == Warn + Grace

Call(op, t) == [op |-> op, token |-> t]
CallType == [op : {"create", "revoke", "use"}, token : 0..MaxSession]

Idle == [step |-> "idle", round |-> 0]
WorkType == [step : {"idle", "look", "touch"}, round : 0..2]

Init ==
    /\ made = 0
    /\ life = [t \in Token |-> 0]
    /\ idle = [t \in Token |-> 0]
    /\ live = {}
    /\ backup = 0
    /\ kept = {}
    /\ work = Idle
    /\ calls = <<>>
    /\ replies = <<>>
    /\ token = 0
    /\ unlocked = FALSE /\ entering = FALSE /\ wc = FALSE
    /\ warn = Off /\ logout = Off /\ throttle = Off
    /\ shown = FALSE /\ leaving = 0 /\ loggedOut = FALSE
    /\ away = 0

Room == Len(calls) + Len(replies) < MaxCalls

Send(op, t) == Room /\ calls' = Append(calls, Call(op, t))

\* The worker is done with the call at the head of the queue.
Reply(t) ==
    /\ calls' = Tail(calls)
    /\ replies' = Append(replies, Call(Head(calls).op, t))

Serving(op) == calls # <<>> /\ Head(calls).op = op

-----------------------------------------------------------------------------
(***************************************************************************)
(* The Go manager, and the Rust command around each call.                  *)
(***************************************************************************)
\* CreateSession checks the password against the stick and may fail there.
CreateSession ==
    /\ Serving("create")
    /\ work = Idle
    /\ \/ /\ made < MaxSession
          /\ made' = made + 1
          /\ life' = [life EXCEPT ![made + 1] = MaxLife]
          /\ idle' = [idle EXCEPT ![made + 1] = 0]
          /\ live' = live \cup {made + 1}
          /\ backup' = made + 1
          /\ Reply(made + 1)
       \/ /\ Reply(0)
          /\ UNCHANGED <<made, life, idle, live, backup>>
    /\ UNCHANGED <<kept, work, page, timers, away>>

\* The call fails when the library panics or the queue does not reach it; the
\* session and its copy in the Rust state stay then.
RevokeToken ==
    /\ Serving("revoke")
    /\ work = Idle
    /\ LET t == Head(calls).token
       IN  \/ /\ live' = live \ {t}
              /\ backup' = 0
              /\ Reply(t)
              /\ UNCHANGED kept
           \/ /\ kept' = kept \cup {t}
              /\ Reply(0)
              /\ UNCHANGED <<live, backup>>
    /\ UNCHANGED <<made, life, idle, work, page, timers, away>>

\* A call that carries a token has it validated twice: for the check of the
\* stick's path, then again by GetProviderKey.
BeginUse ==
    /\ Serving("use")
    /\ work = Idle
    /\ work' = [step |-> "look", round |-> 1]
    /\ UNCHANGED <<made, life, idle, live, backup, kept, calls, replies, page, timers, away>>

Over(t) == life[t] = 0 \/ idle[t] > MaxIdle

\* ValidateToken up to its last lock: a token that is over is revoked.
Look ==
    /\ work.step = "look"
    /\ LET t == Head(calls).token
       IN  \/ /\ t \notin live \/ Over(t)
              /\ live' = live \ {t}
              /\ work' = Idle
              /\ Reply(0)
           \/ /\ t \in live /\ ~Over(t)
              /\ work' = [work EXCEPT !.step = "touch"]
              /\ UNCHANGED <<live, calls, replies>>
    /\ UNCHANGED <<made, life, idle, backup, kept, page, timers, away>>

\* Mutant: the session is stored again.
TouchedStored == live \cup {Head(calls).token}

\* The end of ValidateToken.  The cleaner may have run since Look.
Touched == live

Touch ==
    /\ work.step = "touch"
    /\ idle' = [idle EXCEPT ![Head(calls).token] = 0]
    /\ live' = Touched
    /\ \/ /\ work.round = 1
          /\ work' = [step |-> "look", round |-> 2]
          /\ UNCHANGED <<calls, replies>>
       \/ /\ work.round = 2
          /\ work' = Idle
          /\ Reply(Head(calls).token)
    /\ UNCHANGED <<made, life, backup, kept, page, timers, away>>

\* The cleaner holds the manager's lock; it looks at the end of life only.
CleanupExpiredSessions ==
    /\ \E t \in live : life[t] = 0
    /\ live' = {t \in live : life[t] > 0}
    /\ UNCHANGED <<made, life, idle, backup, kept, work, calls, replies, page, timers, away>>

-----------------------------------------------------------------------------
(***************************************************************************)
(* The timers of useInactivityLogout.  The dashboard is mounted while the  *)
(* app is unlocked; its effect starts the first timer, its cleanup stops   *)
(* all of them.                                                            *)
(***************************************************************************)
Mount ==
    /\ warn' = Warn /\ logout' = Off /\ throttle' = Off
    /\ shown' = FALSE /\ loggedOut' = FALSE
    /\ UNCHANGED leaving

Unmount ==
    /\ warn' = Off /\ logout' = Off /\ throttle' = Off
    /\ shown' = FALSE /\ loggedOut' = FALSE
    /\ UNCHANGED leaving

Activity ==
    /\ unlocked
    /\ away' = 0
    /\ throttle' = IF throttle = Off THEN 1 ELSE throttle
    /\ UNCHANGED <<manager, calls, replies, page, warn, logout, shown, leaving, loggedOut>>

\* Mutant: the timer that logs out is not stopped.
ResetTimersKeeping == warn' = Warn /\ UNCHANGED <<logout, shown>>

\* Mutant: activity under the warning is ignored.
ResetTimersUnwarned ==
    \/ logout = Off /\ warn' = Warn /\ UNCHANGED <<logout, shown>>
    \/ logout # Off /\ UNCHANGED <<warn, logout, shown>>

\* resetTimers belongs to the first render, where no warning is shown, so the
\* line that hides the dialog does nothing.
ResetTimers == warn' = Warn /\ logout' = Off /\ UNCHANGED shown

HandleActivity ==
    /\ throttle = 0
    /\ throttle' = Off
    /\ ResetTimers
    /\ loggedOut' = FALSE
    /\ UNCHANGED <<manager, calls, replies, page, leaving, away>>

ShowLogoutWarning ==
    /\ warn = 0
    /\ warn' = Off
    /\ shown' = TRUE
    /\ logout' = Grace
    /\ UNCHANGED <<manager, calls, replies, page, throttle, leaving, loggedOut, away>>

\* performLogout has the backend clear its memory and waits for that.
PerformLogout ==
    /\ leaving < MaxLogout
    /\ leaving' = leaving + 1
    /\ UNCHANGED <<manager, calls, replies, page, warn, throttle, shown, loggedOut, away>>

\* Answer or error, it empties the dashboard's store and goes to the list of
\* wallets; neither the session nor the unlock state is touched, and a page that
\* is locked by then has nothing to leave.
LogoutReturns ==
    /\ leaving > 0
    /\ leaving' = leaving - 1
    /\ loggedOut' = unlocked
    /\ UNCHANGED <<manager, calls, replies, page, warn, logout, throttle, shown, away>>

\* Mutant: the countdown starts over.
LogoutTimerAgain ==
    /\ logout = 0
    /\ logout' = Grace
    /\ UNCHANGED <<manager, calls, replies, page, warn, throttle, shown, leaving, loggedOut, away>>

LogoutTimer ==
    /\ logout = 0
    /\ logout' = Off
    /\ PerformLogout

LogoutNow ==
    /\ shown
    /\ PerformLogout
    /\ UNCHANGED logout

-----------------------------------------------------------------------------
(***************************************************************************)
(* The page: AppPasswordContext, the session store, WalletConnect.         *)
(***************************************************************************)
Unlock ==
    /\ ~unlocked /\ ~entering
    /\ Send("create", 0)
    /\ entering' = TRUE
    /\ UNCHANGED <<manager, replies, token, unlocked, wc, timers, away>>

UnlockReply ==
    /\ replies # <<>> /\ Head(replies).op = "create"
    /\ replies' = Tail(replies)
    /\ token' = Head(replies).token
    /\ entering' = FALSE
    /\ \/ /\ Head(replies).token # 0
          /\ unlocked' = TRUE
          /\ away' = 0
          /\ Mount
       \/ /\ Head(replies).token = 0
          /\ UNCHANGED <<unlocked, away, timers>>
    /\ UNCHANGED <<manager, calls, wc>>

\* Mutant: the store is cleared and nobody is told.
LockLocally ==
    /\ token' = 0
    /\ unlocked' = FALSE
    /\ Unmount
    /\ UNCHANGED <<calls, entering>>

\* lock(): revokeSession waits for the backend if the store has a token.
Lock ==
    \/ /\ token # 0
       /\ Send("revoke", token)
       /\ shown' = FALSE /\ logout' = Off
       /\ UNCHANGED <<token, unlocked, entering, warn, throttle, leaving, loggedOut>>
    \/ /\ token = 0
       /\ unlocked' = FALSE
       /\ Unmount
       /\ UNCHANGED <<token, entering, calls>>

ContinueUsing ==
    /\ unlocked /\ shown
    /\ Lock
    /\ UNCHANGED <<manager, replies, wc, away>>

\* The token is dropped and the page locked whether the revocation succeeded or
\* not.
LockReply ==
    /\ replies # <<>> /\ Head(replies).op = "revoke"
    /\ replies' = Tail(replies)
    /\ token' = 0
    /\ unlocked' = FALSE
    /\ Unmount
    /\ UNCHANGED <<manager, calls, entering, wc, away>>

Usable == token # 0 /\ life[token] > Buffer

\* Whatever needs the token asks isSessionValid first, which drops a token
\* that is about to end.
CallApi ==
    /\ unlocked /\ token # 0
    /\ \/ Usable /\ Send("use", token) /\ UNCHANGED token
       \/ ~Usable /\ token' = 0 /\ UNCHANGED calls
    /\ UNCHANGED <<manager, replies, unlocked, entering, wc, timers, away>>

UseReply ==
    /\ replies # <<>> /\ Head(replies).op = "use"
    /\ replies' = Tail(replies)
    /\ UNCHANGED <<manager, calls, page, timers, away>>

Connect ==
    /\ unlocked /\ Usable /\ ~wc
    /\ wc' = TRUE
    /\ UNCHANGED <<manager, calls, replies, token, unlocked, entering, timers, away>>

\* The effect of App on isUnlocked.
DisconnectAll ==
    /\ ~unlocked /\ wc
    /\ wc' = FALSE
    /\ UNCHANGED <<manager, calls, replies, token, unlocked, entering, timers, away>>

Down(x) == IF x > 0 THEN x - 1 ELSE x
Up(x, top) == IF x < top THEN x + 1 ELSE x

Tick ==
    /\ life' = [t \in Token |-> Down(life[t])]
    /\ idle' = [t \in Token |-> Up(idle[t], MaxIdle + 1)]
    /\ warn' = Down(warn) /\ logout' = Down(logout) /\ throttle' = Down(throttle)
    /\ away' = Up(away, Limit)
    /\ UNCHANGED <<made, live, backup, kept, work, calls, replies, page, shown, leaving, loggedOut>>

Serve == CreateSession \/ RevokeToken \/ BeginUse \/ Look \/ Touch
Timers == HandleActivity \/ ShowLogoutWarning \/ LogoutTimer \/ LogoutReturns
Replies == UnlockReply \/ LockReply \/ UseReply
User == Unlock \/ Activity \/ LogoutNow \/ ContinueUsing \/ CallApi \/ Connect

Next ==
    \/ Serve \/ CleanupExpiredSessions
    \/ Timers \/ Replies \/ User \/ DisconnectAll \/ Tick

Spec == Init /\ [][Next]_vars

\* Time passes, due timers fire, the worker and the event loop go on, effects
\* run.  The user and the hourly cleaner owe nothing.
FairSpec ==
    /\ Spec
    /\ WF_vars(Tick) /\ WF_vars(Serve) /\ WF_vars(Replies)
    /\ WF_vars(HandleActivity) /\ WF_vars(ShowLogoutWarning) /\ WF_vars(LogoutTimer)
    /\ WF_vars(LogoutReturns)
    /\ WF_vars(DisconnectAll)

-----------------------------------------------------------------------------
Timer(top) == Off..top

TypeOK ==
    /\ made \in 0..MaxSession
    /\ life \in [Token -> 0..MaxLife]
    /\ idle \in [Token -> 0..MaxIdle + 1]
    /\ live \subseteq 1..made
    /\ backup \in 0..made
    /\ kept \subseteq 0..MaxSession
    /\ work \in WorkType /\ (work # Idle => Serving("use"))
    /\ calls \in Seq(CallType)
    /\ replies \in Seq(CallType)
    /\ token \in 0..made
    /\ unlocked \in BOOLEAN /\ entering \in BOOLEAN /\ wc \in BOOLEAN
    /\ warn \in Timer(Warn) /\ logout \in Timer(Grace) /\ throttle \in Timer(1)
    /\ shown \in BOOLEAN /\ leaving \in 0..MaxLogout /\ loggedOut \in BOOLEAN
    /\ away \in 0..Limit

\* When the page is locked it holds no token, and no session of an earlier
\* sign-in can still be used, but for the last minute of one the page had given
\* up, and for one whose revocation failed: that one stays with the manager, and
\* with the Rust state until the next sign-in.
LockedIsRevoked ==
    ~unlocked /\ ~entering =>
        /\ token = 0
        /\ \A t \in live \cup ({backup} \ {0}) : life[t] <= Buffer \/ t \in kept

\* A token that was revoked or has run out is never accepted again, although
\* ValidateToken writes to the session after it let go of the lock.
EndedStaysEnded == [][\A t \in 1..made : t \notin live => t \notin live']_vars

Locking == \E i \in 1..Len(calls) : calls[i].op = "revoke"
Locked == \E i \in 1..Len(replies) : replies[i].op = "revoke"

\* While the user is in and no logout is under way, exactly one timer runs that
\* leads to the logout: without one an idle app would stay open, with two an
\* active user would be thrown out.
IdleIsWatched ==
    unlocked /\ leaving = 0 /\ ~loggedOut /\ ~Locking /\ ~Locked => (warn = Off) # (logout = Off)

\* The timer begins a logout only for a user who did nothing for the whole time,
\* but for the second in which activity is gathered; what the user does while
\* the backend clears its memory comes too late.
LogoutOnlyWhenIdle ==
    [][leaving' > leaving /\ logout' # logout => throttle # Off \/ away >= Limit]_vars

\* A user who stays away is logged out or locked.
AwayIsLoggedOut == (unlocked /\ away >= Limit) ~> (loggedOut \/ ~unlocked \/ away = 0)

(***************************************************************************)
(* What comments and docs of the repository say, and the code does not do. *)
(***************************************************************************)
\* "Let countdown reach 0. Application locks": nothing does.
AutoLogoutLocks == [][~loggedOut /\ loggedOut' => ~unlocked' \/ calls' # calls]_vars

\* "Hide warning if shown": activity that is handled leaves no warning.
ActivityHidesWarning == [][throttle = 0 /\ throttle' = Off => ~shown']_vars

\* "Disconnect WalletConnect sessions when app session expires".
ExpiryDisconnects == (unlocked /\ token = 0) ~> ~wc
=============================================================================
