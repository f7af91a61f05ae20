----------------------------- MODULE WalletPage -----------------------------
(***************************************************************************)
(* The page of one wallet (WalletDetail, useWalletData): its password, its *)
(* passphrase, the balances, and the views it shows in their place, one at *)
(* a time, with the swap page, the staking page and the approvals tab      *)
(* composed into it.                                                       *)
(*                                                                         *)
(* An unlock is one async function.  Leaving the page throws away what it  *)
(* sets on the page, not what it does elsewhere: the wallet's session, and *)
(* the wallet that signs for WalletConnect.                                *)
(***************************************************************************)
EXTENDS Integers, FiniteSets

CONSTANTS
    Wallet,
    Hidden,     \* the wallets with a BIP39 passphrase
    MaxUnlocks, \* bound on the unlocks in progress at once
    None,
    Asset, Coin, Amount, Flagged, MaxCalls,     \* SwapPage
    Option, Enough, Listed, MaxStakes,          \* StakingPage
    Entry, Network, NetworkOf, Red, Banned, All \* TokenApprovals

ASSUME WalletAssumption ==
    /\ Hidden \subseteq Wallet
    /\ MaxUnlocks \in Nat
    /\ None \notin Wallet

ASSUME SwapAssumption ==
    /\ Coin \subseteq Asset
    /\ Flagged \subseteq Asset
    /\ MaxCalls \in Nat
    /\ None \notin Asset \cup Amount

ASSUME StakingAssumption ==
    /\ Enough \in [Option -> SUBSET Amount]
    /\ Listed \subseteq Option
    /\ MaxStakes \in Nat
    /\ None \notin Option \cup Amount

ASSUME ApprovalsAssumption ==
    /\ NetworkOf \in [Entry -> Network]
    /\ Red \subseteq Entry
    /\ Banned \subseteq Entry
    /\ None \notin Entry
    /\ All \notin Network

VARIABLES
    wallet,     \* the wallet whose page is open
    askPassword, askPassphrase,     \* the two prompts
    password,   \* passwordRef holds the password
    validated,  \* validatedPassphrase
    loading, validating, refreshing,
    sub,        \* the view shown in place of the assets
    tab,        \* activeTab
    tasks,      \* unlocks, passphrase validations and refreshes in progress
    context,    \* wc_wallet_id
    opened,     \* walletSessionStore: wallets with a session token
    proven,     \* history: wallets whose secrets the backend has accepted
    swapStep, swapForm, swapQuote, swapTx, swapApproval, swapWarned, swapAck, swapLoading,
    swapCalls, swapAllowed, swapConsent, swapCrossed,
    stakeStep, stakeOption, stakeAmount, stakeEstimate, stakeLoading, stakeWarned, stakeAck,
    stakeConsent, stakes, stakeCrossed,
    appOpen, granted, list, loads, filter, selected, panel, batch, batchAck, revoking, run,
    orphans, confirmed, acked

Swap == INSTANCE SwapPage WITH
    step <- swapStep, form <- swapForm, quote <- swapQuote, approval <- swapApproval,
    warned <- swapWarned, ack <- swapAck, loading <- swapLoading, calls <- swapCalls,
    allowed <- swapAllowed, consent <- swapConsent, crossed <- swapCrossed

Staking == INSTANCE StakingPage WITH
    step <- stakeStep, option <- stakeOption, amount <- stakeAmount,
    estimate <- stakeEstimate, loading <- stakeLoading, warned <- stakeWarned,
    ack <- stakeAck, consent <- stakeConsent, crossed <- stakeCrossed

Approvals == INSTANCE TokenApprovals WITH open <- appOpen, Flagged <- Banned

prompts == <<askPassword, askPassphrase, password, validated>>
busy == <<loading, validating, refreshing>>
local == <<wallet, prompts, busy, sub, tab>>
global == <<context, opened, proven>>
swapVars == <<swapStep, swapForm, swapQuote, swapTx, swapApproval, swapWarned, swapAck,
    swapLoading, swapCalls, swapAllowed, swapConsent, swapCrossed>>
stakeVars == <<stakeStep, stakeOption, stakeAmount, stakeEstimate, stakeLoading, stakeWarned,
    stakeAck, stakeConsent, stakes, stakeCrossed>>
appVars == <<appOpen, granted, list, loads, filter, selected, panel, batch, batchAck, revoking,
    run, orphans, confirmed, acked>>
pages == <<swapVars, stakeVars, appVars>>
vars == <<local, tasks, global, pages>>

View == {"assets", "history", "addressBook", "send", "swap", "staking"}

\* passphrase: whether the unlock still has to ask for it, as the closure saw
\* it when it started; own: the page that started it is mounted.
Task == [of : Wallet, does : {"session", "addresses", "balances", "passphrase", "funds", "refresh"},
         passphrase : BOOLEAN, own : BOOLEAN]

Init ==
    /\ wallet = None
    /\ askPassword = TRUE /\ askPassphrase = FALSE
    /\ password = FALSE /\ validated = FALSE
    /\ loading = FALSE /\ validating = FALSE /\ refreshing = FALSE
    /\ sub = "assets" /\ tab = "crypto"
    /\ tasks = {}
    /\ context = None
    /\ opened = {} /\ proven = {}
    /\ Swap!Init /\ Staking!Init /\ Approvals!Init

-----------------------------------------------------------------------------
(***************************************************************************)
(* What is rendered: the prompts hide everything else, and what is hidden  *)
(* is unmounted.                                                           *)
(***************************************************************************)
Shown(v) == wallet # None /\ ~askPassword /\ ~askPassphrase /\ sub = v

\* here: the wallet's page itself stays.
Render(here) ==
    /\ IF Shown("swap")' THEN IF swapStep = "closed" THEN Swap!Open ELSE UNCHANGED swapVars
       ELSE IF swapStep # "closed" \/ ~here THEN Swap!Unmount(here) ELSE UNCHANGED swapVars
    /\ IF Shown("staking")'
       THEN IF stakeStep = "closed" THEN Staking!Open ELSE UNCHANGED stakeVars
       ELSE IF stakeStep # "closed" THEN Staking!Unmount ELSE UNCHANGED stakeVars
    /\ IF (Shown("assets") /\ tab = "approvals")'
       THEN IF ~appOpen THEN Approvals!Mount ELSE UNCHANGED appVars
       ELSE IF appOpen THEN Approvals!Unmount ELSE UNCHANGED appVars

Reset(w) ==
    /\ wallet' = w
    /\ askPassword' = TRUE /\ askPassphrase' = FALSE
    /\ password' = FALSE /\ validated' = FALSE
    /\ loading' = FALSE /\ validating' = FALSE /\ refreshing' = FALSE
    /\ sub' = "assets" /\ tab' = "crypto"
    /\ tasks' = {[k EXCEPT !.own = FALSE] : k \in {t \in tasks : t.does # "refresh"}}
    /\ UNCHANGED global
    /\ Render(FALSE)

\* Dashboard mounts a page of its own for each visit.
OpenWallet(w) == wallet = None /\ Reset(w)

\* Back to the wallets; a lock unmounts the page wherever it is.
OnBack ==
    /\ wallet # None
    /\ askPassword \/ askPassphrase \/ sub = "assets"
    /\ Reset(None)

Lock == wallet # None /\ Reset(None)

-----------------------------------------------------------------------------
(***************************************************************************)
(* Unlocking.                                                              *)
(***************************************************************************)
Start(does) ==
    /\ Cardinality(tasks) < MaxUnlocks
    /\ tasks' = tasks \cup
         {[of |-> wallet, does |-> does, own |-> TRUE,
           passphrase |-> wallet \in Hidden /\ ~validated]}

\* The button waits for isLoading; Enter in the field does not.
HandleLoadBalances ==
    /\ wallet # None /\ askPassword
    /\ loading' = TRUE
    /\ Start("session")
    /\ UNCHANGED <<wallet, prompts, validating, refreshing, sub, tab, global, pages>>

Goes(k, does) == tasks' = (tasks \ {k}) \cup {[k EXCEPT !.does = does]}

\* createWalletSession: the backend has accepted the password.
SessionCreated(k) ==
    /\ k.does = "session"
    /\ Goes(k, "addresses")
    /\ opened' = opened \cup {k.of}
    /\ proven' = IF k.of \in Hidden THEN proven ELSE proven \cup {k.of}
    /\ password' = (password \/ k.own)
    /\ UNCHANGED <<wallet, askPassword, askPassphrase, validated, busy, sub, tab, context, pages>>

\* loadAddresses.  A passphrase is asked for before anything is shown.
AddressesLoaded(k) ==
    /\ k.does = "addresses"
    /\ IF k.passphrase
       THEN /\ tasks' = tasks \ {k}
            /\ askPassword' = (askPassword /\ ~k.own)
            /\ askPassphrase' = (askPassphrase \/ k.own)
            /\ loading' = (loading /\ ~k.own)
       ELSE Goes(k, "balances") /\ UNCHANGED <<askPassword, askPassphrase, loading>>
    /\ UNCHANGED <<wallet, password, validated, validating, refreshing, sub, tab, global>>
    /\ Render(TRUE)

\* getTokenBalances, then setWalletContext, which is not the page's.
BalancesLoaded(k) ==
    /\ k.does = "balances"
    /\ tasks' = tasks \ {k}
    /\ askPassword' = (askPassword /\ ~k.own)
    /\ loading' = (loading /\ ~k.own)
    /\ context' = k.of
    /\ UNCHANGED <<wallet, askPassphrase, password, validated, validating, refreshing, sub, tab,
                   opened, proven>>
    /\ Render(TRUE)

UnlockFails(k) ==
    /\ k.does \in {"session", "addresses", "balances"}
    /\ tasks' = tasks \ {k}
    /\ loading' = (loading /\ ~k.own)
    /\ UNCHANGED <<wallet, prompts, validating, refreshing, sub, tab, global, pages>>

HandleValidatePassphrase ==
    /\ wallet # None /\ ~askPassword /\ askPassphrase
    /\ validating' = TRUE
    /\ Start("passphrase")
    /\ UNCHANGED <<wallet, prompts, loading, refreshing, sub, tab, global, pages>>

\* The derived address is the stored one.  The prompt goes before the balances
\* come; when they do not, the assets are empty.
PassphraseValid(k) ==
    /\ k.does = "passphrase"
    /\ Goes(k, "funds")
    /\ proven' = proven \cup {k.of}
    /\ validated' = (validated \/ k.own)
    /\ askPassphrase' = (askPassphrase /\ ~k.own)
    /\ loading' = (loading \/ k.own)
    /\ UNCHANGED <<wallet, askPassword, password, validating, refreshing, sub, tab, context, opened>>
    /\ Render(TRUE)

FundsLoaded(k) ==
    /\ k.does = "funds"
    /\ k.own => password
    /\ context' = k.of
    /\ tasks' = tasks \ {k}
    /\ loading' = (loading /\ ~k.own)
    /\ validating' = (validating /\ ~k.own)
    /\ UNCHANGED <<wallet, prompts, refreshing, sub, tab, opened, proven, pages>>

\* Mutant: the context is set in the finally block.
ValidationFailsSigning(k) ==
    /\ k.does \in {"passphrase", "funds"}
    /\ tasks' = tasks \ {k}
    /\ loading' = (loading /\ ~k.own)
    /\ validating' = (validating /\ ~k.own)
    /\ context' = k.of
    /\ UNCHANGED <<wallet, prompts, refreshing, sub, tab, opened, proven, pages>>

ValidationFails(k) ==
    /\ k.does \in {"passphrase", "funds"}
    /\ tasks' = tasks \ {k}
    /\ loading' = (loading /\ ~k.own)
    /\ validating' = (validating /\ ~k.own)
    /\ UNCHANGED <<wallet, prompts, refreshing, sub, tab, global, pages>>

BackToPassword ==
    /\ wallet # None /\ ~askPassword /\ askPassphrase
    /\ askPassphrase' = FALSE
    /\ askPassword' = TRUE
    /\ password' = FALSE
    /\ UNCHANGED <<wallet, validated, busy, sub, tab, tasks, global, pages>>

-----------------------------------------------------------------------------
(***************************************************************************)
(* The assets and what replaces them.                                      *)
(***************************************************************************)
\* Send and Swap need a token, History an address; Staking asks for nothing.
OpenView(v) ==
    /\ Shown("assets")
    /\ sub' = v
    /\ UNCHANGED <<wallet, prompts, busy, tab, tasks, global>>
    /\ Render(TRUE)

\* onBack of the views that are not composed here, onSuccess of Send.
LeaveView ==
    /\ \E v \in {"history", "addressBook", "send"} : Shown(v)
    /\ sub' = "assets"
    /\ UNCHANGED <<wallet, prompts, busy, tab, tasks, global>>
    /\ Render(TRUE)

SetActiveTab(t) ==
    /\ Shown("assets")
    /\ tab' = t
    /\ UNCHANGED <<wallet, prompts, busy, sub, tasks, global>>
    /\ Render(TRUE)

HandleRefreshBalances ==
    /\ Shown("assets") /\ password /\ ~refreshing
    /\ refreshing' = TRUE
    /\ Start("refresh")
    /\ UNCHANGED <<wallet, prompts, loading, validating, sub, tab, global, pages>>

RefreshReturns(k) ==
    /\ k.does = "refresh"
    /\ tasks' = tasks \ {k}
    /\ refreshing' = FALSE
    /\ UNCHANGED <<wallet, prompts, loading, validating, sub, tab, global, pages>>

\* The WalletConnect entry of the menu, and the modal it opens.
ConnectWallet ==
    /\ Shown("assets")
    /\ context' = wallet
    /\ UNCHANGED <<local, tasks, opened, proven, pages>>

-----------------------------------------------------------------------------
(***************************************************************************)
(* The pages.  A page that closes itself gives the assets back; a swap     *)
(* that succeeds does, and refreshes the balances.                         *)
(***************************************************************************)
Returned(v, steps) ==
    /\ sub' = IF sub = v /\ steps THEN "assets" ELSE sub
    /\ UNCHANGED <<wallet, prompts, busy, tab, tasks, global>>
    /\ IF (Shown("assets") /\ tab = "approvals")' /\ ~appOpen THEN Approvals!Mount
       ELSE UNCHANGED appVars

SwapMoves ==
    /\ Swap!Steps \/ Swap!Close
    /\ Returned("swap", swapStep # "closed" /\ swapStep' = "closed")
    /\ UNCHANGED stakeVars

StakingMoves ==
    /\ Staking!Steps \/ Staking!Close
    /\ Returned("staking", stakeStep # "closed" /\ stakeStep' = "closed")
    /\ UNCHANGED swapVars

ApprovalsMoves ==
    /\ Approvals!Steps
    /\ UNCHANGED <<local, tasks, global, swapVars, stakeVars>>

-----------------------------------------------------------------------------
TaskReturns ==
    \E k \in tasks :
        \/ SessionCreated(k) \/ AddressesLoaded(k) \/ BalancesLoaded(k) \/ UnlockFails(k)
        \/ PassphraseValid(k) \/ FundsLoaded(k) \/ ValidationFails(k)

Next ==
    \/ \E w \in Wallet : OpenWallet(w)
    \/ OnBack \/ Lock
    \/ HandleLoadBalances \/ HandleValidatePassphrase \/ BackToPassword
    \/ TaskReturns
    \/ \E v \in View : OpenView(v)
    \/ LeaveView
    \/ \E t \in {"crypto", "approvals"} : SetActiveTab(t)
    \/ HandleRefreshBalances
    \/ \E k \in tasks : RefreshReturns(k)
    \/ ConnectWallet
    \/ SwapMoves \/ StakingMoves \/ ApprovalsMoves

Spec == Init /\ [][Next]_vars

-----------------------------------------------------------------------------
TypeOK ==
    /\ wallet \in Wallet \cup {None}
    /\ {askPassword, askPassphrase, password, validated} \subseteq BOOLEAN
    /\ {loading, validating, refreshing} \subseteq BOOLEAN
    /\ sub \in View
    /\ tab \in {"crypto", "approvals"}
    /\ tasks \subseteq Task
    /\ context \in Wallet \cup {None}
    /\ opened \subseteq Wallet /\ proven \subseteq Wallet
    /\ Swap!TypeOK /\ Staking!TypeOK /\ Approvals!TypeOK

\* What is behind the prompts is shown only for a wallet whose password, and
\* whose passphrase if it has one, the backend has accepted on this page.
ShownIsValidated ==
    wallet # None /\ ~askPassword /\ ~askPassphrase =>
        wallet \in proven /\ (wallet \in Hidden => validated)

\* The wallet that signs for dApps is one whose secrets have been accepted,
\* however late the answers come.
ContextIsProven == context # None => context \in proven

\* A page is mounted exactly while it is what the wallet shows.
MountedIsShown ==
    /\ swapStep # "closed" <=> Shown("swap")
    /\ stakeStep # "closed" <=> Shown("staking")
    /\ appOpen <=> Shown("assets") /\ tab = "approvals"

\* A spinner turns only while a call of this page will stop it, though two
\* unlocks can run at once and each stops both.
SpinnerHasTask ==
    loading \/ validating =>
        \E k \in tasks : k.own /\ k.does # "refresh"

\* No late answer, of whatever call, shows or uses a wallet that was not opened
\* with its own secrets.
WalletIsProven == ShownIsValidated /\ ContextIsProven

\* However prompts, locks and late answers open and close the pages under their
\* own calls, a page is there exactly while it is shown, and nothing turns that
\* no call will stop.
PagesAreServed == TypeOK /\ MountedIsShown /\ SpinnerHasTask /\ Swap!BusyHasCall

\* What a swap or a deposit signs is what the user confirmed, if the user
\* waits for the calls, and its danger was acknowledged for it in any case.
PaymentIsAgreed ==
    /\ Swap!DangerIsConsented /\ Swap!WaitedIsConfirmed
    /\ Staking!ListedIsConsented /\ Staking!StakeIsEnough

\* What is revoked was confirmed, and every red entry of a batch acknowledged,
\* however list, filter and selection change while the batch runs.
RevocationIsAgreed == Approvals!RedIsAcknowledged /\ Approvals!RevokedIsConfirmed
=============================================================================
