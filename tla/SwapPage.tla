------------------------------ MODULE SwapPage ------------------------------
(***************************************************************************)
(* The swap page (useSwapFlow): choosing two tokens and an amount, the     *)
(* quote, the transaction the aggregator builds, the approval an ERC-20    *)
(* needs before it, and the two signatures.                                *)
(*                                                                         *)
(* Every call is awaited by a handler that goes on to set the page's step, *)
(* whatever the user has done since: only the buttons are disabled while   *)
(* isLoading, not the fields, the pickers or the header's Back.            *)
(***************************************************************************)
EXTENDS Integers, FiniteSets

CONSTANTS
    Asset,     \* tokens of one chain
    Coin,      \* those that are the chain's coin and need no approval
    Amount,
    Flagged,   \* tokens whose swap the backend gate wants acknowledged
    MaxCalls,  \* bound on the calls in progress at once
    None

VARIABLES
    step,      \* what the page shows; "closed" when it is not mounted
    form,      \* fromToken, toToken and amount
    quote,     \* the request the shown quote answers
    swapTx,    \* the request the built transaction answers
    approval,  \* approvalTxData: the token its calldata approves
    warned,    \* useSignReview of the swap asks for the box
    ack,       \* and the box is ticked
    loading,   \* isLoading
    calls,     \* backend calls in progress
    allowed,   \* tokens the router may spend, on the chain
    consent,   \* history: the transaction for which the user ticked the box
    crossed    \* history: the form changed or a step was left under a call, or
               \* the swap of a page that is gone was not over

page == <<step, form, quote, swapTx, approval>>
review == <<warned, ack, consent>>
vars == <<page, review, loading, calls, allowed, crossed>>

Step == {"closed", "selectFrom", "selectTo", "input", "approve", "approvalPassword",
         "approving", "password", "signing", "broadcasting", "error"}

Form == [from : Asset \cup {None}, to : Asset \cup {None}, amount : Amount \cup {None}]
Blank == [from |-> None, to |-> None, amount |-> None]

\* A request to the aggregator: a complete form.
Deal == {f \in Form : None \notin {f.from, f.to, f.amount} /\ f.from # f.to}

\* signed: the transaction of the call has passed the gate; shown: the form on
\* the page when a swap was confirmed; own: the page that made it is mounted;
\* host: so is the wallet's page around it.
Call == [kind : {"quote", "build", "fetch", "approve", "swap"}, deal : Form, shown : Form,
         signed : BOOLEAN, ack : BOOLEAN, consent : Deal \cup {None}, own : BOOLEAN, host : BOOLEAN]

Init ==
    /\ step = "closed"
    /\ form = Blank
    /\ quote = None
    /\ swapTx = None
    /\ approval = None
    /\ warned = FALSE
    /\ ack = FALSE
    /\ loading = FALSE
    /\ calls = {}
    /\ allowed = Coin
    /\ consent = None
    /\ crossed = FALSE

Now(kind, deal) ==
    LET signs == kind = "swap"
    IN  [kind |-> kind, deal |-> deal, shown |-> IF signs THEN form ELSE Blank, signed |-> FALSE,
         ack |-> signs /\ ack, consent |-> IF signs THEN consent ELSE None,
         own |-> TRUE, host |-> TRUE]

\* A handler that sets isLoading and awaits the backend.
Ask(kind, deal) ==
    /\ Cardinality(calls) < MaxCalls
    /\ calls' = calls \cup {Now(kind, deal)}
    /\ loading' = TRUE

\* Its finally block.
Answered(c) ==
    /\ calls' = calls \ {c}
    /\ loading' = FALSE

\* The quote view is rendered for two tokens.
Entering == step = "input" /\ form.from # None /\ form.to # None

\* The user moves on while a call that will set the step is in progress.
Moves == crossed' = (crossed \/ \E c \in calls : c.own /\ c.kind # "quote")

-----------------------------------------------------------------------------
(***************************************************************************)
(* The form.                                                               *)
(***************************************************************************)
\* The hook's state is created when the page is mounted.
Open ==
    /\ step = "closed"
    /\ step' = "selectFrom"
    /\ form' = Blank
    /\ quote' = None
    /\ swapTx' = None
    /\ approval' = None
    /\ ack' = FALSE
    /\ warned' = FALSE
    /\ consent' = None
    /\ loading' = FALSE
    /\ crossed' = (\E c \in calls : c.kind = "swap")
    /\ UNCHANGED <<calls, allowed>>

\* What is left when the page goes away: nothing is cancelled, what was asked
\* for a signature gets it.
Unmounted(left, host) ==
    /\ step' = "closed"
    /\ form' = Blank
    /\ quote' = None
    /\ swapTx' = None
    /\ approval' = None
    /\ ack' = FALSE
    /\ warned' = FALSE
    /\ consent' = None
    /\ loading' = FALSE
    /\ crossed' = FALSE
    /\ calls' = {[c EXCEPT !.own = FALSE, !.host = c.host /\ host] :
                 c \in {d \in left : d.kind \in {"approve", "swap"}}}

\* onBack of selectFrom and error.
Close ==
    /\ step \in {"selectFrom", "error"}
    /\ Unmounted(calls, TRUE)
    /\ UNCHANGED allowed

\* Another view takes the page's place, or the wallet's page goes with it.
Unmount(host) ==
    /\ step # "closed" \/ ~host
    /\ Unmounted(calls, host)
    /\ UNCHANGED allowed

HandleSelectFromToken(a) ==
    /\ step = "selectFrom"
    /\ form' = [from |-> a, to |-> None, amount |-> None]
    /\ quote' = None
    /\ step' = "selectTo"
    /\ Moves
    /\ UNCHANGED <<swapTx, approval, review, loading, calls, allowed>>

\* getDestinationTokens: the registry's and the wallet's, without the source.
HandleSelectToToken(a) ==
    /\ step = "selectTo" /\ form.from # None
    /\ a # form.from
    /\ form' = [form EXCEPT !.to = a]
    /\ step' = "input"
    /\ Moves
    /\ UNCHANGED <<quote, swapTx, approval, review, loading, calls, allowed>>

\* The field, Max, Half; emptying it leaves the quote.
SetAmount(n) ==
    /\ Entering
    /\ n # form.amount
    /\ form' = [form EXCEPT !.amount = n]
    /\ Moves
    /\ UNCHANGED <<step, quote, swapTx, approval, review, loading, calls, allowed>>

\* The two selectors of the quote view.
Reselect(s) ==
    /\ Entering
    /\ s \in {"selectFrom", "selectTo"}
    /\ step' = s
    /\ Moves
    /\ UNCHANGED <<form, quote, swapTx, approval, review, loading, calls, allowed>>

\* The arrow between them.
OnSwapTokens ==
    /\ Entering
    /\ form' = [from |-> form.to, to |-> form.from, amount |-> None]
    /\ quote' = None
    /\ Moves
    /\ UNCHANGED <<step, swapTx, approval, review, loading, calls, allowed>>

\* fetchQuote, 500 ms after the form was complete.  Its cleanup stops the
\* timer, not a call; the answer is not compared with the form.
FetchQuote ==
    /\ step = "input"
    /\ form \in Deal
    /\ quote # form
    /\ ~\E c \in calls : c.kind = "quote" /\ c.deal = form
    /\ Ask("quote", form)
    /\ UNCHANGED <<page, review, allowed, crossed>>

QuoteReturns(c) ==
    /\ c.kind = "quote"
    /\ quote' \in {None, c.deal}
    /\ Answered(c)
    /\ UNCHANGED <<step, form, swapTx, approval, review, allowed, crossed>>

-----------------------------------------------------------------------------
(***************************************************************************)
(* The transaction and its review.                                         *)
(***************************************************************************)
\* Mutant: the box stays ticked for the next transaction.
ReviewedOnce(tx) ==
    /\ ack' = (ack /\ tx # None)
    /\ consent' = IF tx = swapTx THEN consent ELSE None
    /\ warned' = (warned /\ tx # None)

\* useSignReview: another transaction unticks the box; what the old check
\* reported stays until the new one returns.
Reviewed(tx) ==
    /\ ack' = (ack /\ tx = swapTx)
    /\ consent' = IF tx = swapTx THEN consent ELSE None
    /\ warned' = (warned /\ tx # None)

CheckReturns ==
    /\ swapTx # None
    /\ \E answered \in BOOLEAN : warned' = (answered /\ swapTx.from \in Flagged)
    /\ warned' # warned
    /\ UNCHANGED <<page, ack, consent, loading, calls, allowed, crossed>>

Tick ==
    /\ step = "password"
    /\ warned
    /\ ~ack
    /\ ack' = TRUE
    /\ consent' = swapTx
    /\ UNCHANGED <<page, warned, loading, calls, allowed, crossed>>

HandleBuildSwapTx ==
    /\ Entering
    /\ ~loading
    /\ form \in Deal
    /\ quote # None
    /\ Ask("build", form)
    /\ UNCHANGED <<page, review, allowed, crossed>>

\* The allowance is read after the build; a read that fails asks for an approval.
BuildReturns(c) ==
    /\ c.kind = "build"
    /\ \E needs \in BOOLEAN :
         /\ c.deal.from \notin allowed => needs
         /\ c.deal.from \in Coin => ~needs
         /\ step' = IF needs THEN "approve" ELSE "password"
    /\ swapTx' = c.deal
    /\ Reviewed(c.deal)
    /\ Answered(c)
    /\ UNCHANGED <<form, quote, approval, allowed, crossed>>

HandleApprove ==
    /\ step = "approve"
    /\ ~loading
    /\ form.from # None /\ quote # None /\ swapTx # None
    /\ Ask("fetch", [Blank EXCEPT !.from = form.from])
    /\ UNCHANGED <<page, review, allowed, crossed>>

FetchReturns(c) ==
    /\ c.kind = "fetch"
    /\ approval' = c.deal.from
    /\ step' = "approvalPassword"
    /\ Answered(c)
    /\ UNCHANGED <<form, quote, swapTx, review, allowed, crossed>>

\* A build or an approval's calldata that failed: the page stays.
CallFails(c) ==
    /\ c.kind \in {"build", "fetch"}
    /\ Answered(c)
    /\ UNCHANGED <<page, review, allowed, crossed>>

-----------------------------------------------------------------------------
(***************************************************************************)
(* Signing.                                                                *)
(***************************************************************************)
\* The box of the approval's own review is ticked when its report asks for it.
HandleExecuteApproval ==
    /\ step = "approvalPassword"
    /\ ~loading
    /\ form.from # None /\ quote # None /\ approval # None
    /\ step' = "approving"
    /\ Ask("approve", [Blank EXCEPT !.from = approval])
    /\ UNCHANGED <<form, quote, swapTx, approval, review, allowed, crossed>>

\* The gate gets no acknowledgedRisk from executeApproval.
ApprovalConfirmed(c) ==
    /\ c.kind = "approve"
    /\ c.deal.from \notin Flagged
    /\ allowed' = allowed \cup {c.deal.from}
    /\ IF c.own THEN /\ approval' = None /\ step' = "password" /\ Answered(c)
                ELSE /\ calls' = calls \ {c} /\ UNCHANGED <<approval, step, loading>>
    /\ UNCHANGED <<form, quote, swapTx, review, crossed>>

\* Refused, reverted, or still unconfirmed after twenty polls: an approval
\* the page gave up may be on the chain.
ApprovalFails(c) ==
    /\ c.kind = "approve"
    /\ allowed' \in {allowed, allowed \cup ({c.deal.from} \ Flagged)}
    /\ IF c.own THEN step' = "approve" /\ Answered(c)
                ELSE calls' = calls \ {c} /\ UNCHANGED <<step, loading>>
    /\ UNCHANGED <<form, quote, swapTx, approval, review, crossed>>

HandleSignAndBroadcast ==
    /\ step = "password"
    /\ ~loading
    /\ warned => ack
    /\ swapTx # None /\ form.from # None /\ form.to # None
    /\ step' = "signing"
    /\ Ask("swap", swapTx)
    /\ UNCHANGED <<form, quote, swapTx, approval, review, allowed, crossed>>

\* signTransaction: the gate computes the risk again.  Then onProgress.
BackendSigns(c) ==
    /\ c.kind = "swap"
    /\ ~c.signed
    /\ c.deal.from \in Flagged => c.ack
    /\ calls' = (calls \ {c}) \cup {[c EXCEPT !.signed = TRUE]}
    /\ step' = IF c.own THEN "broadcasting" ELSE step
    /\ UNCHANGED <<form, quote, swapTx, approval, review, loading, allowed, crossed>>

\* The router spends what it was allowed.  onSuccess, of a page that is gone
\* too, closes the wallet's swap page.
SwapSucceeds(c) ==
    /\ c.kind = "swap"
    /\ c.signed
    /\ allowed' \in {allowed, allowed \ ({c.deal.from} \ Coin)}
    /\ IF step # "closed" /\ c.host THEN Unmounted(calls \ {c}, TRUE)
       ELSE calls' = calls \ {c} /\ UNCHANGED <<page, review, loading, crossed>>

\* Mutant: the failure is reported, the step is left.
SwapFailsQuietly(c) ==
    /\ c.kind = "swap"
    /\ calls' = calls \ {c}
    /\ loading' = (loading /\ ~c.own)
    /\ UNCHANGED <<page, review, allowed, crossed>>

SwapFails(c) ==
    /\ c.kind = "swap"
    /\ IF c.own THEN step' = "error" /\ Answered(c)
                ELSE calls' = calls \ {c} /\ UNCHANGED <<step, loading>>
    /\ UNCHANGED <<form, quote, swapTx, approval, review, allowed, crossed>>

-----------------------------------------------------------------------------
(***************************************************************************)
(* Leaving a step.                                                         *)
(***************************************************************************)
\* getBackHandler, the steps before a signature; Cancel does the same, when
\* no call is in progress.
Back ==
    /\ Moves
    /\ \/ /\ step = "selectTo"
          /\ step' = "selectFrom"
          /\ form' = [form EXCEPT !.from = None]
       \/ /\ step = "input"
          /\ step' = "selectTo"
          /\ form' = [form EXCEPT !.to = None]
       \/ /\ step \in {"approve", "password"}
          /\ step' = "input"
          /\ UNCHANGED form
       \/ /\ step = "approvalPassword"
          /\ step' = "approve"
          /\ UNCHANGED form
    /\ UNCHANGED <<quote, swapTx, approval, review, loading, calls, allowed>>

\* Back at the other steps, Start Over.
HandleReset ==
    /\ step \in {"approving", "signing", "broadcasting", "error"}
    /\ step' = "selectFrom"
    /\ form' = Blank
    /\ quote' = None
    /\ swapTx' = None
    /\ approval' = None
    /\ Reviewed(None)
    /\ Moves
    /\ UNCHANGED <<loading, calls, allowed>>

TryAgain ==
    /\ step = "error"
    /\ step' = "input"
    /\ Moves
    /\ UNCHANGED <<form, quote, swapTx, approval, review, loading, calls, allowed>>

-----------------------------------------------------------------------------
Returns(c) ==
    \/ QuoteReturns(c) \/ BuildReturns(c) \/ FetchReturns(c) \/ CallFails(c)
    \/ ApprovalConfirmed(c) \/ ApprovalFails(c)
    \/ BackendSigns(c) \/ SwapSucceeds(c) \/ SwapFails(c)

\* What the page does while it is there, and the calls it leaves behind.
Steps ==
    \/ \E a \in Asset : HandleSelectFromToken(a) \/ HandleSelectToToken(a)
    \/ \E n \in Amount \cup {None} : SetAmount(n)
    \/ \E s \in Step : Reselect(s)
    \/ OnSwapTokens \/ FetchQuote \/ HandleBuildSwapTx \/ CheckReturns \/ Tick
    \/ HandleApprove \/ HandleExecuteApproval \/ HandleSignAndBroadcast
    \/ Back \/ HandleReset \/ TryAgain
    \/ \E c \in calls : Returns(c)

Next ==
    \/ Open \/ Close
    \/ \E host \in BOOLEAN : Unmount(host)
    \/ Steps

Spec == Init /\ [][Next]_vars

-----------------------------------------------------------------------------
TypeOK ==
    /\ step \in Step
    /\ form \in Form
    /\ {quote, swapTx} \subseteq Deal \cup {None}
    /\ approval \in Asset \cup {None}
    /\ {warned, ack, loading, crossed} \subseteq BOOLEAN
    /\ calls \subseteq Call
    /\ Coin \subseteq allowed /\ allowed \subseteq Asset
    /\ consent \in Deal \cup {None}

\* A swap the backend flags is signed only if the user ticked the box for that
\* very transaction.
DangerIsConsented ==
    \A c \in calls : c.signed /\ c.deal.from \in Flagged => c.consent = c.deal

\* The page shows a signature or an approval in progress only while one is:
\* a late answer to one call never hides the end of another.
BusyHasCall ==
    /\ step \in {"signing", "broadcasting"} => \E c \in calls : c.kind = "swap" /\ c.own
    /\ step = "approving" => \E c \in calls : c.kind = "approve" /\ c.own

\* A user who waits for each call, also before opening the page anew, signs the
\* swap the form shows, of a token whose approval is on the chain.
WaitedIsConfirmed ==
    \A c \in calls : c.kind = "swap" /\ c.own /\ ~crossed =>
        c.shown = c.deal /\ c.deal.from \in allowed

\* The confirmation shows the amount and the tokens of the form, and the quote
\* "from the built swap tx": they are of one request.
ConfirmedIsBuilt == \A c \in calls : c.kind = "swap" => c.shown = c.deal
=============================================================================
