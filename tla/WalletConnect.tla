---------------------------- MODULE WalletConnect ----------------------------
(***************************************************************************)
(* dApps connected through WalletConnect: pairing, the sessions the SDK    *)
(* keeps and those the page lists, their copy on the stick, the requests   *)
(* of the dApps with the dialog that asks for a password, and what locking *)
(* the app does to all of it.                                              *)
(*                                                                         *)
(* The page's listeners are registered once and stay; a lock unmounts the  *)
(* dialogs but neither the context nor the calls under way.  The SDK and   *)
(* the relay are external: they deliver proposals and requests, and their  *)
(* calls can fail.                                                         *)
(***************************************************************************)
EXTENDS Integers, FiniteSets

CONSTANTS
    Topic,      \* sessions, named from their proposal on
    Wallet,     \* wallets of the stick, each with its EVM address
    Hidden,     \* the wallets whose addresses need a BIP39 passphrase
    Req,        \* requests of dApps, each sent once
    TopicOf,    \* request -> session
    Risky,      \* requests the backend gate wants acknowledged
    MaxLogin,   \* bound on the sign-ins
    MaxFaults,  \* bound on the calls to the relay that fail and on restarts
    Gone,       \* the wallet of a session that has ended
    None

Method == {"tx", "message", "typed", "chain"}

ASSUME RequestAssumption ==
    /\ TopicOf \in [Req -> Topic]
    /\ Risky \subseteq Req
    /\ Hidden \subseteq Wallet
    /\ MaxLogin \in Nat
    /\ MaxFaults \in Nat
    /\ {None, Gone} \cap (Topic \cup Wallet \cup Req) = {}
    /\ None # Gone

VARIABLES
    unlocked,   \* the app is unlocked and has a session token
    login,      \* the number of sign-ins; the token of the latest
    walletId,   \* wc_wallet_id, the wallet opened last
    client,     \* the SDK client: "none", "starting" or "ready"
    live,       \* the SDK's sessions: the wallet each was approved for, or Gone
    shown,      \* the page's list of sessions
    usb,        \* the sign-in whose token wc_sessions.json is encrypted with, 0: no file
    modal,      \* the pairing modal: closed, open, or its link being paired
    address,    \* currentAddress
    proposal,   \* sessionProposal
    deciding,   \* approvals and rejections of proposals in progress
    loading,    \* the proposal whose call the mounted dialog waits for
    leaving,    \* disconnections the user asked for
    sweep,      \* disconnectAllSessions, one for each sign-in that ended
    recovering, \* recoverSessions in progress, by the sign-in whose token it has
    req,        \* the requests
    pending,    \* pendingSignRequestRef, written at once
    dialog,     \* signRequest as it was set last
    drawn,      \* signRequest as it was rendered last, while the app is unlocked
    stale,      \* the effect on signRequest, which unticks the box, has not run yet
    ack,        \* the dialog's box
    refused,    \* history: sessions whose disconnection failed
    faults

app == <<unlocked, login, walletId>>
conn == <<client, live, shown, usb, leaving, sweep, recovering, refused>>
pair == <<modal, address, proposal, deciding, loading>>
screen == <<drawn, stale, ack>>
ask == <<req, dialog, pending, screen>>
vars == <<app, conn, pair, ask, faults>>

Live == {t \in Topic : live[t] \in Wallet}

NoDecision == [does |-> "no", wallet |-> None]
Decision == [does : {"no", "approve", "save", "reject"}, wallet : Wallet \cup {None}]

NoSweep == [left |-> {}, all |-> {}, on |-> FALSE]
Sweep == [left : SUBSET Topic, all : SUBSET Topic, on : BOOLEAN]

\* account: whose key the backend derives for the session's address in the
\* wallet that was open when the request came; warned: the report that came
\* back asks for the box; ack: the box as the handler sends it; consent: the
\* box was ticked for this request; early: the click that answered it fell
\* before the dialog had caught up with it.  A request that was answered
\* leaves nothing but its phase.
Phase == {"unsent", "checking", "asking", "signing", "signed", "granted", "refused", "told", "lost"}
Account == {"owner", "hidden", "absent"}
Request ==
    [phase : Phase, method : Method, account : Account,
     warned : BOOLEAN, ack : BOOLEAN, consent : BOOLEAN, early : BOOLEAN]
Plain(phase) ==
    [phase |-> phase, method |-> "chain", account |-> "absent",
     warned |-> FALSE, ack |-> FALSE, consent |-> FALSE, early |-> FALSE]

Init ==
    /\ unlocked = FALSE
    /\ login = 0
    /\ walletId = None
    /\ client = "none"
    /\ live = [t \in Topic |-> None]
    /\ shown = {}
    /\ usb = 0
    /\ modal = "closed"
    /\ address = None
    /\ proposal = None
    /\ deciding = [t \in Topic |-> NoDecision]
    /\ loading = None
    /\ leaving = {}
    /\ sweep = [n \in 1..MaxLogin |-> NoSweep]
    /\ recovering = {}
    /\ req = [r \in Req |-> Plain("unsent")]
    /\ dialog = None
    /\ pending = None
    /\ drawn = None
    /\ stale = FALSE
    /\ ack = FALSE
    /\ refused = {}
    /\ faults = 0

\* A call to the relay fails, within the bound.
Fault ==
    /\ faults < MaxFaults
    /\ faults' = faults + 1

-----------------------------------------------------------------------------
(***************************************************************************)
(* The app: unlocking, opening a wallet, locking.                          *)
(***************************************************************************)
\* The client is started when it is not there, the recovery of the sessions when
\* it is; a request that still waits is drawn with the app.
Unlock ==
    /\ ~unlocked
    /\ login < MaxLogin
    /\ unlocked' = TRUE
    /\ login' = login + 1
    /\ client' = IF client = "none" THEN "starting" ELSE client
    /\ recovering' = IF client = "ready" THEN recovering \cup {login + 1} ELSE recovering
    /\ drawn' = dialog
    /\ UNCHANGED <<walletId, live, shown, usb, leaving, sweep, refused, pair, req, dialog, pending,
                   stale, ack, faults>>

\* recoverSessions goes on, whatever the user did meanwhile: the file was read
\* with the token of that sign-in.  A file of an earlier one fails its HMAC, a
\* token may be gone by then, and the list is left as it is.
RecoverReturns(n) ==
    /\ n \in recovering
    /\ recovering' = recovering \ {n}
    /\ \/ shown' = shown
       \/ /\ usb = 0 \/ usb >= n
          /\ Live # {}
          /\ shown' = Live
    /\ UNCHANGED <<app, client, live, usb, leaving, sweep, refused, pair, ask, faults>>

\* useWalletData sets the context when a wallet's balances have loaded.
SetWalletContext(w) ==
    /\ unlocked
    /\ walletId # w
    /\ walletId' = w
    /\ UNCHANGED <<unlocked, login, conn, pair, ask, faults>>

\* lock() has revoked the token; the dialogs are unmounted; the effect on
\* isUnlocked disconnects what the page lists.
Lock ==
    /\ unlocked
    /\ unlocked' = FALSE
    /\ drawn' = None
    /\ stale' = FALSE
    /\ ack' = FALSE
    /\ loading' = None
    /\ modal' = IF modal = "pairing" THEN "open" ELSE modal
    /\ sweep' = IF client = "ready" /\ shown # {} /\ Live # {}
                THEN [sweep EXCEPT ![login] = [left |-> Live, all |-> Live, on |-> TRUE]]
                ELSE sweep
    /\ UNCHANGED <<login, walletId, client, live, shown, usb, leaving, recovering, refused,
                   address, proposal, deciding, req, dialog, pending, faults>>

\* The app is closed and started again.  The SDK and localStorage keep the
\* sessions and the wallet; every call under way is lost.
Restart ==
    /\ login > 0
    /\ Fault
    /\ unlocked' = FALSE
    /\ client' = "none"
    /\ shown' = {}
    /\ modal' = "closed"
    /\ address' = None
    /\ proposal' = None
    /\ deciding' = [t \in Topic |-> NoDecision]
    /\ loading' = None
    /\ leaving' = {}
    /\ sweep' = [n \in 1..MaxLogin |-> NoSweep]
    /\ recovering' = {}
    /\ req' = [r \in Req |->
          IF req[r].phase \in {"unsent", "told"} THEN req[r] ELSE Plain("lost")]
    /\ dialog' = None
    /\ pending' = None
    /\ drawn' = None
    /\ stale' = FALSE
    /\ ack' = FALSE
    /\ UNCHANGED <<login, walletId, live, usb, refused>>

\* init(): on success the page lists what the SDK restored and registers its
\* listeners; on failure the effect of App tries again.
InitReturns ==
    /\ client = "starting"
    /\ client' = "ready"
    /\ shown' = Live
    /\ recovering' = IF unlocked THEN recovering \cup {login} ELSE recovering
    /\ UNCHANGED <<app, live, usb, leaving, sweep, refused, pair, ask, faults>>

-----------------------------------------------------------------------------
(***************************************************************************)
(* Pairing.                                                                *)
(***************************************************************************)
\* From the menu of an open wallet, with the wallet's EVM address.
OpenPairingModal(w) ==
    /\ unlocked
    /\ walletId = w
    /\ modal = "closed"
    /\ modal' = "open"
    /\ address' = w
    /\ UNCHANGED <<app, conn, proposal, deciding, loading, ask, faults>>

ClosePairingModal ==
    /\ unlocked
    /\ modal = "open"
    /\ modal' = "closed"
    /\ UNCHANGED <<app, conn, address, proposal, deciding, loading, ask, faults>>

\* A link is pasted: a dApp's link starts with wc:, another one is not tried.
Pair ==
    /\ unlocked
    /\ client = "ready"
    /\ modal = "open"
    /\ modal' = "pairing"
    /\ UNCHANGED <<app, conn, address, proposal, deciding, loading, ask, faults>>

\* pair() returns; the modal stays, with an error when the link was refused.
PairReturns ==
    /\ modal = "pairing"
    /\ modal' = "open"
    /\ UNCHANGED <<app, conn, address, proposal, deciding, loading, ask, faults>>

\* The dApp whose link was pasted answers: session_proposal.
SessionProposal(t) ==
    /\ client = "ready"
    /\ address # None
    /\ live[t] = None
    /\ deciding[t].does = "no"
    /\ proposal # t
    /\ proposal' = t
    /\ modal' = "closed"
    /\ UNCHANGED <<app, conn, address, deciding, loading, ask, faults>>

\* The dialog's buttons work when it is shown and waits for none of its calls.
CanDecide ==
    /\ unlocked
    /\ proposal # None
    /\ loading = None
    /\ deciding[proposal].does = "no"

ApproveSession ==
    /\ CanDecide
    /\ address # None
    /\ deciding' = [deciding EXCEPT ![proposal] = [does |-> "approve", wallet |-> address]]
    /\ loading' = proposal
    /\ UNCHANGED <<app, conn, modal, address, proposal, ask, faults>>

RejectSession ==
    /\ CanDecide
    /\ deciding' = [deciding EXCEPT ![proposal] = [does |-> "reject", wallet |-> None]]
    /\ loading' = proposal
    /\ UNCHANGED <<app, conn, modal, address, proposal, ask, faults>>

\* client.approve(): the session is there and listed; its copy is saved when
\* there is a token.
ApproveReturns(t) ==
    /\ deciding[t].does = "approve"
    /\ live' = [live EXCEPT ![t] = deciding[t].wallet]
    /\ shown' = Live \cup {t}
    /\ deciding' = [deciding EXCEPT ![t].does = "save"]
    /\ UNCHANGED <<app, client, usb, leaving, sweep, recovering, refused, modal, address, proposal, loading,
                   ask, faults>>

\* The proposal is cleared whichever it is by now.
SaveReturns(t) ==
    /\ deciding[t].does = "save"
    /\ usb' \in IF unlocked THEN {login, usb} ELSE {usb}
    /\ deciding' = [deciding EXCEPT ![t] = NoDecision]
    /\ proposal' = None
    /\ address' = None
    /\ loading' = IF loading = t THEN None ELSE loading
    /\ UNCHANGED <<app, client, live, shown, leaving, sweep, recovering, refused, modal, ask, faults>>

RejectReturns(t) ==
    /\ deciding[t].does = "reject"
    /\ deciding' = [deciding EXCEPT ![t] = NoDecision]
    /\ proposal' = None
    /\ loading' = IF loading = t THEN None ELSE loading
    /\ UNCHANGED <<app, conn, modal, address, ask, faults>>

DecisionFails(t) ==
    /\ deciding[t].does \in {"approve", "reject"}
    /\ Fault
    /\ deciding' = [deciding EXCEPT ![t] = NoDecision]
    /\ loading' = IF loading = t THEN None ELSE loading
    /\ UNCHANGED <<app, conn, modal, address, proposal, ask>>

-----------------------------------------------------------------------------
(***************************************************************************)
(* The end of sessions.  Their copies on the stick follow when there is a  *)
(* token; nothing is read from a copy but the token it was made with.      *)
(***************************************************************************)
Disconnect(t) ==
    /\ unlocked
    /\ client = "ready"
    /\ t \in shown \ leaving
    /\ leaving' = leaving \cup {t}
    /\ UNCHANGED <<app, client, live, shown, usb, sweep, recovering, refused, pair, ask, faults>>

\* Mutant: the list is not refreshed.
DisconnectQuietly(t) ==
    /\ t \in leaving
    /\ leaving' = leaving \ {t}
    /\ live' = [live EXCEPT ![t] = Gone]
    /\ UNCHANGED <<app, client, shown, usb, sweep, recovering, refused, pair, ask, faults>>

DisconnectReturns(t) ==
    /\ t \in leaving
    /\ leaving' = leaving \ {t}
    /\ live' = [live EXCEPT ![t] = Gone]
    /\ shown' = Live \ {t}
    /\ UNCHANGED <<app, client, usb, sweep, recovering, refused, pair, ask, faults>>

DisconnectFails(t) ==
    /\ t \in leaving
    /\ Fault
    /\ leaving' = leaving \ {t}
    /\ refused' = refused \cup {t}
    /\ UNCHANGED <<app, client, live, shown, usb, sweep, recovering, pair, ask>>

\* Mutant: the first failure ends the loop.
SweepUntilFailure(n, t) ==
    /\ t \in sweep[n].left
    /\ \/ /\ sweep' = [sweep EXCEPT ![n].left = @ \ {t}]
          /\ live' = [live EXCEPT ![t] = Gone]
          /\ UNCHANGED <<refused, faults>>
       \/ /\ Fault
          /\ sweep' = [sweep EXCEPT ![n].left = {}]
          /\ refused' = refused \cup {t}
          /\ UNCHANGED live
    /\ UNCHANGED <<app, client, shown, usb, leaving, recovering, pair, ask>>

\* One step of the loop of disconnectAllSessions.
SweepOne(n, t) ==
    /\ t \in sweep[n].left
    /\ sweep' = [sweep EXCEPT ![n].left = @ \ {t}]
    /\ \/ /\ live' = [live EXCEPT ![t] = Gone]
          /\ UNCHANGED <<refused, faults>>
       \/ /\ Fault
          /\ refused' = refused \cup {t}
          /\ UNCHANGED live
    /\ UNCHANGED <<app, client, shown, usb, leaving, recovering, pair, ask>>

\* The list and the wallet are cleared, and the user may have signed in again
\* meanwhile.
SweepEnds(n) ==
    /\ sweep[n].on
    /\ sweep[n].left = {}
    /\ sweep' = [sweep EXCEPT ![n] = NoSweep]
    /\ shown' = {}
    /\ walletId' = None
    /\ UNCHANGED <<unlocked, login, client, live, usb, leaving, recovering, refused, pair, ask, faults>>

\* The dApp ends the session: session_delete.
SessionDelete(t) ==
    /\ client = "ready"
    /\ t \in Live
    /\ live' = [live EXCEPT ![t] = Gone]
    /\ shown' = Live \ {t}
    /\ UNCHANGED <<app, client, usb, leaving, sweep, recovering, refused, pair, ask, faults>>

-----------------------------------------------------------------------------
(***************************************************************************)
(* Requests.                                                               *)
(***************************************************************************)
Put(r, rec) == req' = [req EXCEPT ![r] = rec]

\* Whose key the backend derives for the address of a session of wallet owner:
\* the address must be in the open wallet's book, and the passphrase the page
\* sends is always empty.
AccountIn(w, owner) ==
    IF w # owner THEN "absent" ELSE IF w \in Hidden THEN "hidden" ELSE "owner"

\* handleSessionRequest reads session, wallet and token when the request
\* comes, and refuses it without one of them or for another method.
SessionRequest(r) ==
    LET owner == live[TopicOf[r]] IN
    /\ client = "ready"
    /\ req[r].phase = "unsent"
    /\ owner \in Wallet
    /\ IF walletId # None /\ unlocked
       THEN \/ \E m \in Method :
                  Put(r, [Plain("checking") EXCEPT !.method = m,
                                                   !.account = AccountIn(walletId, owner)])
            \/ Put(r, Plain("refused"))
       ELSE Put(r, Plain("refused"))
    /\ UNCHANGED <<app, conn, pair, dialog, pending, screen, faults>>

\* The handlers of wallet_switchEthereumChain and wallet_addEthereumChain
\* answer at once: nothing of the wallet changes.
SwitchChain(r) ==
    /\ req[r].phase = "checking"
    /\ req[r].method = "chain"
    /\ \E phase \in {"granted", "refused"} : Put(r, Plain(phase))
    /\ UNCHANGED <<app, conn, pair, dialog, pending, screen, faults>>

\* Parameters that do not parse, or another address than the session's.
RefuseParams(r) ==
    /\ req[r].phase = "checking"
    /\ req[r].method # "chain"
    /\ Put(r, Plain("refused"))
    /\ UNCHANGED <<app, conn, pair, dialog, pending, screen, faults>>

\* The request takes the dialog whatever is there: its resolver at once, the
\* screen with the next render.
RequestSignature(r, warned) ==
    /\ Put(r, [req[r] EXCEPT !.phase = "asking", !.warned = warned])
    /\ pending' = r
    /\ dialog' = r
    /\ UNCHANGED <<app, conn, pair, screen, faults>>

\* The report of the security check; a check that fails leaves none, and no box.
Warnings(r) == {FALSE} \cup {x \in {TRUE} : r \in Risky}

\* eth_sendTransaction: the calldata is decoded and the transaction checked.
AskTransaction(r) ==
    /\ req[r].phase = "checking"
    /\ req[r].method = "tx"
    /\ \E warned \in Warnings(r) : RequestSignature(r, warned)

\* personal_sign
AskMessage(r) ==
    /\ req[r].phase = "checking"
    /\ req[r].method = "message"
    /\ \E warned \in Warnings(r) : RequestSignature(r, warned)

\* eth_signTypedData_v4
AskTypedData(r) ==
    /\ req[r].phase = "checking"
    /\ req[r].method = "typed"
    /\ \E warned \in Warnings(r) : RequestSignature(r, warned)

\* React renders what was set; the effects of the render before come first.
Draw ==
    /\ unlocked
    /\ drawn # dialog
    /\ drawn' = dialog
    /\ stale' = TRUE
    /\ ack' = (ack /\ ~stale)
    /\ UNCHANGED <<app, conn, pair, req, dialog, pending, faults>>

\* Mutant: no effect unticks the box.
KeepBox ==
    /\ stale
    /\ stale' = FALSE
    /\ UNCHANGED <<app, conn, pair, req, dialog, pending, drawn, ack, faults>>

\* The effect on the request that is drawn.
ResetBox ==
    /\ stale
    /\ stale' = FALSE
    /\ ack' = FALSE
    /\ UNCHANGED <<app, conn, pair, req, dialog, pending, drawn, faults>>

DialogShown == drawn # None

\* The box is there when the report asks for it.  A tick before the effect of
\* the render has run is undone by it.
Acknowledge ==
    /\ DialogShown
    /\ req[drawn].warned
    /\ ack' = (~ack /\ ~stale)
    /\ stale' = FALSE
    /\ Put(drawn, [req[drawn] EXCEPT !.consent = ack'])
    /\ UNCHANGED <<app, conn, pair, dialog, pending, drawn, faults>>

\* The resolver in the reference is resolved, whatever the dialog shows, and the
\* dialog closed; a click is rendered with its effects before the next one.
Resolve(rec) ==
    /\ IF pending = None THEN UNCHANGED req ELSE Put(pending, rec)
    /\ pending' = None
    /\ dialog' = None
    /\ drawn' = None
    /\ stale' = FALSE
    /\ ack' = FALSE

ApproveSignRequest ==
    /\ DialogShown
    /\ req[drawn].warned => ack
    /\ Resolve([req[pending] EXCEPT !.phase = "signing", !.ack = ack,
                                    !.early = drawn # pending \/ stale])
    /\ UNCHANGED <<app, conn, pair, faults>>

\* Mutant: Reject closes the dialog and nothing else.
RejectCloses ==
    /\ DialogShown
    /\ dialog' = None
    /\ drawn' = None
    /\ stale' = FALSE
    /\ ack' = FALSE
    /\ UNCHANGED <<app, conn, pair, req, pending, faults>>

RejectSignRequest ==
    /\ DialogShown
    /\ Resolve(Plain("refused"))
    /\ UNCHANGED <<app, conn, pair, faults>>

\* The gate of the backend, the wallet's address book, and for transactions
\* the derived address.
BackendSigns(r) ==
    /\ r \in Risky => req[r].ack
    /\ req[r].account # "absent"
    /\ req[r].method = "tx" => req[r].account = "owner"

\* A wrong password, a refusal of the gate, a build that fails.
SignFails(r) ==
    /\ req[r].phase = "signing"
    /\ Put(r, Plain("refused"))
    /\ UNCHANGED <<app, conn, pair, dialog, pending, screen, faults>>

\* sign_message and sign_typed_data.
SignMessage(r) ==
    /\ req[r].phase = "signing"
    /\ req[r].method \in {"message", "typed"}
    /\ BackendSigns(r)
    /\ Put(r, [req[r] EXCEPT !.phase = "signed"])
    /\ UNCHANGED <<app, conn, pair, dialog, pending, screen, faults>>

\* build_transaction, sign_transaction, then broadcast_transaction.
SignTransaction(r) ==
    /\ req[r].phase = "signing"
    /\ req[r].method = "tx"
    /\ BackendSigns(r)
    /\ Put(r, [req[r] EXCEPT !.phase = "signed"])
    /\ UNCHANGED <<app, conn, pair, dialog, pending, screen, faults>>

BroadcastFails(r) ==
    /\ req[r].phase = "signed"
    /\ req[r].method = "tx"
    /\ Put(r, Plain("refused"))
    /\ UNCHANGED <<app, conn, pair, dialog, pending, screen, faults>>

\* respondSessionRequest throws when the session has gone, and then there is
\* no notification either.
Respond(r) ==
    /\ req[r].phase \in {"signed", "granted", "refused"}
    /\ Put(r, Plain(IF TopicOf[r] \in Live THEN "told" ELSE "lost"))
    /\ UNCHANGED <<app, conn, pair, dialog, pending, screen, faults>>

-----------------------------------------------------------------------------
UserDecides == ApproveSession \/ RejectSession
UserAnswers == ApproveSignRequest \/ RejectSignRequest

Continues(r) ==
    \/ SwitchChain(r) \/ RefuseParams(r)
    \/ AskTransaction(r) \/ AskMessage(r) \/ AskTypedData(r)
    \/ SignFails(r) \/ SignMessage(r) \/ SignTransaction(r) \/ BroadcastFails(r)
    \/ Respond(r)
SweepGoesOn(n) == SweepEnds(n) \/ \E t \in Topic : SweepOne(n, t)

Next ==
    \/ Unlock \/ Lock \/ Restart \/ InitReturns
    \/ \E n \in 1..MaxLogin : RecoverReturns(n)
    \/ \E w \in Wallet : SetWalletContext(w) \/ OpenPairingModal(w)
    \/ ClosePairingModal \/ Pair \/ PairReturns
    \/ UserDecides
    \/ \E t \in Topic :
          \/ SessionProposal(t) \/ ApproveReturns(t) \/ SaveReturns(t) \/ RejectReturns(t)
          \/ DecisionFails(t) \/ Disconnect(t) \/ DisconnectReturns(t) \/ DisconnectFails(t)
          \/ SessionDelete(t)
    \/ \E n \in 1..MaxLogin : SweepGoesOn(n)
    \/ Draw \/ ResetBox \/ Acknowledge \/ UserAnswers
    \/ \E r \in Req : SessionRequest(r) \/ Continues(r)

Spec == Init /\ [][Next]_vars

\* The page's continuations run, it renders, and the relay answers or fails; a
\* user who is shown a dialog answers it.  Nobody has to unlock, lock or send
\* anything.
Fairness ==
    /\ WF_vars(Draw)
    /\ WF_vars(UserAnswers)
    /\ \A r \in Req : WF_vars(Continues(r))
    /\ \A n \in 1..MaxLogin : WF_vars(SweepGoesOn(n))

FairSpec == Spec /\ Fairness

-----------------------------------------------------------------------------
(***************************************************************************)
(* Properties.                                                             *)
(***************************************************************************)
\* The type of every variable.
TypeOK ==
    /\ unlocked \in BOOLEAN
    /\ login \in 0..MaxLogin
    /\ walletId \in Wallet \cup {None}
    /\ client \in {"none", "starting", "ready"}
    /\ live \in [Topic -> Wallet \cup {None, Gone}]
    /\ shown \subseteq Topic
    /\ usb \in 0..MaxLogin
    /\ modal \in {"closed", "open", "pairing"}
    /\ address \in Wallet \cup {None}
    /\ proposal \in Topic \cup {None}
    /\ deciding \in [Topic -> Decision]
    /\ loading \in Topic \cup {None}
    /\ leaving \subseteq Topic
    /\ sweep \in [1..MaxLogin -> Sweep]
    /\ recovering \subseteq 1..MaxLogin
    /\ req \in [Req -> Request]
    /\ dialog \in Req \cup {None}
    /\ pending \in Req \cup {None}
    /\ drawn \in Req \cup {None}
    /\ stale \in BOOLEAN
    /\ ack \in BOOLEAN
    /\ refused \subseteq Topic
    /\ faults \in 0..MaxFaults

\* A request the backend finds risky is signed only when the user ticked the
\* box while this very request was on the screen: a tick given to one request
\* is not inherited by the next one that takes its place.  The code lets one
\* slip: a click between the call that puts a request into the dialog and the
\* effect of its render.
DangerIsAcknowledged ==
    \A r \in Risky : req[r].phase = "signed" => req[r].consent \/ req[r].early

\* Whatever wallet is open when a request comes, a signature is made with the
\* key of the address the dApp was given; messages of wallets with a
\* passphrase are the exception (see SignedByShownAddress).
KeyIsOwners ==
    \A r \in Req :
        req[r].phase = "signed" =>
            \/ req[r].account = "owner"
            \/ req[r].account = "hidden" /\ req[r].method # "tx"

\* Whatever was put into the one dialog before it, a request is signed with its
\* own acknowledgement, but for an early click, and with its own key.
SignatureIsConsented == TypeOK /\ DangerIsAcknowledged /\ KeyIsOwners

\* The page lists only sessions the SDK has, or is about to lose at the hand
\* of a sweep that a lock began: approvals, disconnections, recoveries and
\* sweeps finish in any order.
ListedIsConnected ==
    client = "ready" =>
        shown \subseteq Live \cup UNION {sweep[n].all : n \in 1..MaxLogin}

\* A session that was connected when the app locked is disconnected, or its
\* disconnection was tried and failed: one failure does not keep the rest.
\* Closing the app ends the sweep.
LockSweeps ==
    \A t \in Topic :
        (\E n \in 1..MaxLogin : t \in sweep[n].all)
            ~> (live[t] = Gone \/ t \in refused \/ client # "ready")

\* The handler of a request whose place in the dialog another one has taken
\* waits for ever: nobody holds its resolver.
Superseded(r) == req[r].phase = "asking" /\ pending # r

\* Every request that came in is answered in the end, or its session has gone by
\* then - but for one that another request supersedes, and while the app stays
\* locked over the one in the dialog.
AskedIsSettled ==
    \A r \in Req :
        (req[r].phase # "unsent")
            ~> \/ req[r].phase \in {"told", "lost"}
               \/ Superseded(r)
               \/ dialog = r /\ ~unlocked

\* A signature that is reported as signed by the address of the session is
\* that address's: "BIP39 passphrase (empty string if not used)".
SignedByShownAddress ==
    \A r \in Req : req[r].phase = "signed" => req[r].account = "owner"

\* "This prevents dApps from continuing to interact with the wallet after
\* logout": a request is signed only while its session is there.
SignedHasSession ==
    \A r \in Req : req[r].phase = "signed" => TopicOf[r] \in Live

=============================================================================
