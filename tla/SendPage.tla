------------------------------ MODULE SendPage ------------------------------
(***************************************************************************)
(* Sending coins: the SendTransaction page, the review hook it shares with *)
(* the other signing screens (useSignReview), and the backend gate that    *)
(* every signature passes (signgate, txguard, the blacklist).              *)
(*                                                                         *)
(* Every backend call is awaited and nothing is cancelled when the user    *)
(* moves on: the header's Back works at any time, the form stays open      *)
(* while a transaction is built, and a page can be closed and reopened     *)
(* while a signature made by its predecessor is still on its way out.      *)
(***************************************************************************)
EXTENDS Integers

CONSTANTS
    Token,      \* what the user can send; a coin of a chain or an ERC-20 of it
    Chain,
    ChainOf,    \* token -> chain
    Erc20,      \* the tokens whose transfer is a contract call
    Recipient,
    Amount,
    Seed,       \* recipients on the embedded blacklist
    Feed,       \* recipients that the online update adds
    Job,        \* signatures that can be in progress at once
    None

VARIABLES
    step,      \* what the page shows; "closed" when it is not mounted
    token,     \* selectedToken
    form,      \* toAddress and amount
    unsigned,  \* unsignedTx
    loading,   \* isLoading
    build,     \* the build_transaction call in progress
    check,     \* the security check in progress, by the key it was started for
    report,    \* useSignReview: security, with the key it is about
    ack,       \* useSignReview: acknowledged
    consent,   \* history: what the tick in the box was given for
    job,       \* signing and broadcasting, which outlive the page
    blacklist

page == <<step, token, form, unsigned, loading, build>>
review == <<check, report, ack, consent>>
vars == <<page, review, job, blacklist>>

Step == {"closed", "select", "input", "review", "password", "signing", "broadcasting", "error"}

Form == [to : Recipient, amount : Amount]

\* What the backend builds from a token and a form.
Tx == [token : Token, to : Recipient, amount : Amount]

\* What identifies a transaction to useSignReview: the chain of the selected
\* token, the recipient and the call data.  A coin transfer has no call data,
\* an ERC-20 transfer has its amount in it.
Key == [chain : Chain, to : Recipient, data : Amount \cup {None}]

KeyOf(u, t) ==
    IF u = None \/ t = None THEN None
    ELSE [chain |-> ChainOf[t], to |-> u.to,
          data |-> IF u.token \in Erc20 THEN u.amount ELSE None]

Report == [of : Key, danger : BOOLEAN]

\* A tick: the request the page had, and whether the finding on screen was about
\* that request or, before the check of it had answered, about an earlier one.
Consent == [of : Key, shown : {"its own", "an earlier one", "none of it"}]

\* own: the page that started the job is still mounted; chain: the chainId the
\* page sent along.
JobState ==
    [step : {"none", "sign", "broadcast"}, own : BOOLEAN, tx : Tx \cup {None},
     chain : Chain \cup {None}, ack : BOOLEAN, consent : Consent \cup {None}]

NoJob ==
    [step |-> "none", own |-> FALSE, tx |-> None, chain |-> None, ack |-> FALSE,
     consent |-> None]

Init ==
    /\ step = "closed"
    /\ token = None
    /\ form = None
    /\ unsigned = None
    /\ loading = FALSE
    /\ build = None
    /\ check = None
    /\ report = None
    /\ ack = FALSE
    /\ consent = None
    /\ job = [j \in Job |-> NoJob]
    /\ blacklist = Seed

-----------------------------------------------------------------------------
(***************************************************************************)
(* The review hook.  Its effect runs when the key changes: the box is      *)
(* unticked, the old check is cancelled and a new one started; the old     *)
(* report stays until the new one arrives.                                 *)
(***************************************************************************)
\* Mutant: the tick outlives the request it was given for.
ReviewedOnce(u, t) ==
    LET old == KeyOf(unsigned, token)
        new == KeyOf(u, t)
    IN  /\ ack' = (ack /\ new # None)
        /\ consent' = IF new = None THEN None ELSE consent
        /\ check' = IF new = old THEN check ELSE new
        /\ report' = IF new = None THEN None ELSE report

\* Mutant: the check under way is not cancelled, and no other is started.
ReviewedWaits(u, t) ==
    LET old == KeyOf(unsigned, token)
        new == KeyOf(u, t)
    IN  /\ ack' = (ack /\ new = old)
        /\ consent' = IF new = old THEN consent ELSE None
        /\ check' = IF new = old \/ check # None THEN check ELSE new
        /\ report' = IF new = None THEN None ELSE report

Reviewed(u, t) ==
    LET old == KeyOf(unsigned, token)
        new == KeyOf(u, t)
    IN  /\ ack' = (ack /\ new = old)
        /\ consent' = IF new = old THEN consent ELSE None
        /\ check' = IF new = old THEN check ELSE new
        /\ report' = IF new = None THEN None ELSE report

\* guard.Check: the blacklist decides; simulation only adds a warning.
CheckReturns ==
    /\ check # None
    /\ report' \in {None, [of |-> check, danger |-> check.to \in blacklist]}
    /\ check' = None
    /\ UNCHANGED <<page, ack, consent, job, blacklist>>

RequiresAcknowledge == report # None /\ report.danger

\* The box is there when the report asks for it: any report on screen, also the
\* one of the request before while the check of this one is out.
Tick ==
    /\ step = "password"
    /\ RequiresAcknowledge
    /\ ack' = ~ack
    /\ consent' = IF ack THEN None
                  ELSE [of |-> KeyOf(unsigned, token),
                        shown |-> CASE report.of = KeyOf(unsigned, token) -> "its own"
                                    [] report.of # KeyOf(unsigned, token) /\ check # None -> "an earlier one"
                                    [] OTHER -> "none of it"]
    /\ UNCHANGED <<page, check, report, job, blacklist>>

-----------------------------------------------------------------------------
(***************************************************************************)
(* The page.                                                               *)
(***************************************************************************)
Fresh(s) ==
    /\ step' = s
    /\ token' = None
    /\ form' = None
    /\ unsigned' = None
    /\ Reviewed(None, None)

Open ==
    /\ step = "closed"
    /\ step' = "select"
    /\ UNCHANGED <<token, form, unsigned, loading, build, review, job, blacklist>>

\* The component is unmounted, by its parent's Back or by the lock of the app.
\* What it awaits goes on without it.
Unmount ==
    /\ Fresh("closed")
    /\ loading' = FALSE
    /\ build' = None

Close ==
    /\ step # "closed"
    /\ Unmount
    /\ job' = [j \in Job |-> [job[j] EXCEPT !.own = FALSE]]
    /\ UNCHANGED blacklist

SelectToken(t) ==
    /\ step = "select"
    /\ token' = t
    /\ step' = "input"
    /\ Reviewed(unsigned, t)
    /\ UNCHANGED <<form, unsigned, loading, build, job, blacklist>>

\* Nothing disables the form, not even a build in progress.
Edit(f) ==
    /\ step = "input"
    /\ form' = f
    /\ UNCHANGED <<step, token, unsigned, loading, build, review, job, blacklist>>

\* Mutant: the button is not disabled while a call is awaited.
ContinueAnyway ==
    /\ step = "input"
    /\ form # None
    /\ loading' = TRUE
    /\ build' = [token |-> token, to |-> form.to, amount |-> form.amount]
    /\ UNCHANGED <<step, token, form, unsigned, review, job, blacklist>>

Continue ==
    /\ step = "input"
    /\ ~loading
    /\ form # None
    /\ loading' = TRUE
    /\ build' = [token |-> token, to |-> form.to, amount |-> form.amount]
    /\ UNCHANGED <<step, token, form, unsigned, review, job, blacklist>>

Built ==
    /\ build # None
    /\ unsigned' = build
    /\ step' = "review"
    /\ Reviewed(build, token)
    /\ loading' = FALSE
    /\ build' = None
    /\ UNCHANGED <<token, form, job, blacklist>>

BuildFails ==
    /\ build # None
    /\ loading' = FALSE
    /\ build' = None
    /\ UNCHANGED <<step, token, form, unsigned, review, job, blacklist>>

\* Edit, Confirm, Back of the password step; Back of the header.
Turn(from, to) ==
    /\ step \in from
    /\ step' = to
    /\ UNCHANGED <<token, form, unsigned, loading, build, review, job, blacklist>>

GoBack == Turn(Step \ {"closed", "select"}, "select")

Navigate ==
    \/ Turn({"review"}, "input")
    \/ Turn({"review"}, "password")
    \/ Turn({"password"}, "review")
    \/ GoBack

\* Try Again, after an error.
Reset ==
    /\ step = "error"
    /\ Fresh("select")
    /\ UNCHANGED <<loading, build, job, blacklist>>

-----------------------------------------------------------------------------
(***************************************************************************)
(* Signing.  The page sends what it built; the backend gate reads the      *)
(* blacklist again, and the adapter refuses a transaction of some other    *)
(* chain than the one it is asked to sign for.                             *)
(***************************************************************************)
SignTransaction(j) ==
    /\ step = "password"
    /\ ~(RequiresAcknowledge /\ ~ack)
    /\ unsigned # None
    /\ token # None
    /\ job[j].step = "none"
    /\ job' = [job EXCEPT ![j] =
          [step |-> "sign", own |-> TRUE, tx |-> unsigned, chain |-> ChainOf[token],
           ack |-> ack, consent |-> consent]]
    /\ step' = "signing"
    /\ loading' = TRUE
    /\ UNCHANGED <<token, form, unsigned, build, review, blacklist>>

Authorize(j) == job[j].tx.to \in blacklist => job[j].ack

ChainMatches(j) == ChainOf[job[j].tx.token] = job[j].chain

Signed(j) ==
    /\ job[j].step = "sign"
    /\ Authorize(j)
    /\ ChainMatches(j)
    /\ job' = [job EXCEPT ![j].step = "broadcast"]
    /\ step' = IF job[j].own THEN "broadcasting" ELSE step
    /\ loading' = (loading \/ job[j].own)
    /\ UNCHANGED <<token, form, unsigned, build, review, blacklist>>

\* The continuation of a page that is gone changes nothing.
Ended(j, s) ==
    /\ job' = [job EXCEPT ![j] = NoJob]
    /\ step' = IF job[j].own THEN s ELSE step
    /\ loading' = (loading /\ ~job[j].own)
    /\ UNCHANGED <<token, form, unsigned, build, review, blacklist>>

\* Refused, a wrong password, or too many attempts.
SignFails(j) ==
    /\ job[j].step = "sign"
    /\ Ended(j, "password")

\* Mutant: the error does not change the step.
BroadcastFailsQuietly(j) ==
    /\ job[j].step = "broadcast"
    /\ Ended(j, step)

BroadcastFails(j) ==
    /\ job[j].step = "broadcast"
    /\ Ended(j, "error")

\* onSuccess makes the parent take the page away, also one that was opened
\* after the page that signed was closed.
Broadcasted(j) ==
    /\ job[j].step = "broadcast"
    /\ Unmount
    /\ job' = [i \in Job |-> IF i = j THEN NoJob ELSE [job[i] EXCEPT !.own = FALSE]]
    /\ UNCHANGED blacklist

\* The background update, once per run of the program.
Update ==
    /\ blacklist # Seed \cup Feed
    /\ blacklist' = Seed \cup Feed
    /\ UNCHANGED <<page, review, job>>

Backend ==
    \/ CheckReturns \/ Built \/ BuildFails
    \/ \E j \in Job : Signed(j) \/ SignFails(j) \/ BroadcastFails(j) \/ Broadcasted(j)

Next ==
    \/ Open \/ Close \/ Continue \/ Navigate \/ Reset \/ Tick \/ Update \/ Backend
    \/ \E t \in Token : SelectToken(t)
    \/ \E f \in Form : Edit(f)
    \/ \E j \in Job : SignTransaction(j)

Spec == Init /\ [][Next]_vars

\* The FFI worker answers the calls in their order, and it answers each.
FairSpec ==
    /\ Spec
    /\ WF_vars(CheckReturns)
    /\ WF_vars(Built \/ BuildFails)
    /\ \A j \in Job :
          WF_vars(Signed(j) \/ SignFails(j) \/ BroadcastFails(j) \/ Broadcasted(j))

-----------------------------------------------------------------------------
TypeOK ==
    /\ step \in Step
    /\ token \in Token \cup {None}
    /\ form \in Form \cup {None}
    /\ unsigned \in Tx \cup {None}
    /\ loading \in BOOLEAN
    /\ build \in Tx \cup {None}
    /\ check \in Key \cup {None}
    /\ report \in Report \cup {None}
    /\ ack \in BOOLEAN
    /\ consent \in Consent \cup {None}
    /\ job \in [Job -> JobState]
    /\ blacklist \in SUBSET Recipient
    /\ step \in {"review", "password", "signing"} => unsigned # None /\ form # None /\ token # None

\* The page waits for one call at a time and its spinner turns exactly while it
\* does: isLoading, which four handlers set and reset, keeps a second build or
\* signature from starting although Back never waits.
Awaited(j) == job[j].step # "none" /\ job[j].own

OneRequestAtATime ==
    /\ loading <=> build # None \/ \E j \in Job : Awaited(j)
    /\ \A i, j \in Job : Awaited(i) /\ Awaited(j) => i = j
    /\ \A j \in Job : Awaited(j) => build = None

\* A finding on screen is about the request the page has, unless the check of
\* that request is still out: builds, token changes and late answers never
\* leave the finding of another request standing.
FindingIsCurrent ==
    report # None => report.of = KeyOf(unsigned, token) \/ check = KeyOf(unsigned, token)

\* Nothing goes to a recipient that is on the blacklist when it is signed,
\* unless the user ticked the box for that very request, chain included, and
\* under a finding about it - or, before its own check had answered, under the
\* finding of the request before, which the page still shows by then.
DangerIsConsented ==
    [][\A j \in Job :
          LET key == KeyOf(job[j].tx, job[j].tx.token) IN
          /\ job[j].step = "sign"
          /\ job'[j].step = "broadcast"
          /\ job[j].tx.to \in blacklist
          => /\ job[j].ack
             /\ job[j].consent.of = key
             /\ job[j].consent.shown \in {"its own", "an earlier one"}]_vars

\* No spinner turns for ever: whatever a call returns ends it.
SpinnerStops ==
    /\ loading ~> ~loading
    /\ step \in {"signing", "broadcasting"} ~> step \notin {"signing", "broadcasting"}

(***************************************************************************)
(* What comments and docs of the repository say, and the code does not do. *)
(***************************************************************************)
\* "Review transaction details": what is signed is what the review step showed.
Shown == [token |-> token, to |-> form.to, amount |-> form.amount]

SignedIsReviewed ==
    [][\A j \in Job : job[j].step = "none" /\ job'[j].step = "sign" => unsigned = Shown]_vars

\* "resets the ack on each new request": a transaction that was just built is
\* not acknowledged yet.
AckIsReset == [][unsigned' # unsigned => ~ack']_vars
=============================================================================
