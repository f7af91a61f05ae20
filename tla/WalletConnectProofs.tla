------------------------ MODULE WalletConnectProofs ------------------------
(***************************************************************************)
(* Proofs for WalletConnect, for any number of sessions, wallets, requests *)
(* and sign-ins.                                                           *)
(***************************************************************************)
EXTENDS WalletConnect, TLAPS

-----------------------------------------------------------------------------
(***************************************************************************)
(* The inductive invariant.                                                *)
(***************************************************************************)
\* The request in the dialog holds the resolver and waits; so does the one that
\* is drawn, unless another has taken its place, and a dialog that is not drawn
\* has no box.
DialogWaits ==
    /\ dialog = pending
    /\ dialog # None => req[dialog].phase = "asking"
    /\ drawn # None => unlocked /\ dialog # None /\ req[drawn].phase = "asking"
    /\ drawn = None => ~ack /\ ~stale

\* Once the effect of the render has run, the box is ticked only for the request
\* that is drawn.
BoxIsConsent == ack /\ drawn # None /\ ~stale => req[drawn].consent

\* What is sent to the backend as acknowledged was ticked for this request, or
\* by a click that fell before the effect.
SentIsConsent ==
    \A r \in Req :
        req[r].phase \in {"signing", "signed"} /\ req[r].ack => req[r].consent \/ req[r].early

\* What the backend signed, it found acknowledged and in the wallet's book.
SignedIsAllowed ==
    \A r \in Req :
        req[r].phase = "signed" =>
            /\ r \in Risky => req[r].ack
            /\ req[r].account # "absent"
            /\ req[r].method = "tx" => req[r].account = "owner"

AskInv == DialogWaits /\ BoxIsConsent /\ SentIsConsent /\ SignedIsAllowed

\* An unlocked app has signed in.
UnlockedHasLogin == unlocked => login > 0

\* A sweep begins when its sign-in ends.
SweepsHaveBegun ==
    \A n \in 1..MaxLogin :
        n > login \/ (n = login /\ unlocked) => sweep[n].left = {} /\ sweep[n].all = {}

\* A sweep has left only what it began with.
SweepsShrink == \A n \in 1..MaxLogin : sweep[n].left \subseteq sweep[n].all

\* A session is approved for a wallet.
ApprovedForWallet ==
    \A t \in Topic : deciding[t].does \in {"approve", "save"} => deciding[t].wallet \in Wallet

ConnInv ==
    /\ UnlockedHasLogin
    /\ SweepsHaveBegun
    /\ SweepsShrink
    /\ ApprovedForWallet
    /\ ListedIsConnected

IInv == TypeOK /\ AskInv /\ ConnInv

LEMMA Start == Init => IInv
<1> SUFFICES ASSUME Init PROVE IInv
    OBVIOUS
<1> USE RequestAssumption DEF Init
<1>1. TypeOK
    <2>1. /\ Plain("unsent") \in Request
          /\ NoDecision \in Decision
          /\ NoSweep \in Sweep
        BY DEF NoDecision, Decision, NoSweep, Sweep, Plain, Request, Phase, Account, Method
    <2>2. /\ live \in [Topic -> Wallet \cup {None, Gone}]
          /\ deciding \in [Topic -> Decision]
          /\ sweep \in [1..MaxLogin -> Sweep]
          /\ req \in [Req -> Request]
        BY <2>1
    <2>3. login \in 0..MaxLogin /\ usb \in 0..MaxLogin /\ faults \in 0..MaxFaults
        OBVIOUS
    <2> QED
        BY <2>2, <2>3 DEF TypeOK
<1>2. AskInv
    BY DEF AskInv, DialogWaits, BoxIsConsent, SentIsConsent, SignedIsAllowed, Plain
<1>3. ConnInv
    BY DEF ConnInv, UnlockedHasLogin, SweepsHaveBegun, SweepsShrink, ApprovedForWallet,
           ListedIsConnected, NoDecision, NoSweep
<1> QED
    BY <1>1, <1>2, <1>3 DEF IInv

-----------------------------------------------------------------------------
(***************************************************************************)
(* Types.                                                                  *)
(***************************************************************************)
LEMMA PlainIsRequest == \A phase \in Phase : Plain(phase) \in Request
    BY DEF Plain, Request, Method, Account

\* Putting a request in a request's place.
LEMMA PutKeepsType ==
    ASSUME req \in [Req -> Request], NEW r \in Req, NEW rec \in Request, Put(r, rec)
    PROVE  req' \in [Req -> Request]
    BY DEF Put

LEMMA AppTypes ==
    ASSUME TypeOK, UnlockedHasLogin,
           \/ Unlock \/ Lock \/ Restart \/ InitReturns
           \/ \E w \in Wallet : SetWalletContext(w)
           \/ \E n \in 1..MaxLogin : RecoverReturns(n)
    PROVE  TypeOK'
<1> USE RequestAssumption
<1>1. CASE Unlock
    <2>1. login + 1 \in 1..MaxLogin
        BY <1>1 DEF TypeOK, Unlock
    <2>2. recovering' \subseteq 1..MaxLogin
        BY <1>1, <2>1 DEF TypeOK, Unlock
    <2> QED
        BY <1>1, <2>1, <2>2 DEF TypeOK, Unlock, pair
<1>2. CASE Lock
    <2>1. sweep' \in [1..MaxLogin -> Sweep]
        BY <1>2 DEF TypeOK, Lock, Live, Sweep
    <2> QED
        BY <1>2, <2>1 DEF TypeOK, Lock
<1>3. CASE Restart
    <2>1. req' \in [Req -> Request]
        BY <1>3, PlainIsRequest DEF TypeOK, Restart, Phase
    <2>2. sweep' \in [1..MaxLogin -> Sweep] /\ deciding' \in [Topic -> Decision]
        BY <1>3 DEF Restart, NoSweep, Sweep, NoDecision, Decision
    <2>3. faults' \in 0..MaxFaults
        BY <1>3 DEF TypeOK, Restart, Fault
    <2> QED
        BY <1>3, <2>1, <2>2, <2>3 DEF TypeOK, Restart
<1>4. CASE InitReturns
    <2>1. recovering' \subseteq 1..MaxLogin
        BY <1>4 DEF TypeOK, InitReturns, UnlockedHasLogin
    <2> QED
        BY <1>4, <2>1 DEF TypeOK, InitReturns, Live, app, pair, ask, screen
<1>5. ASSUME NEW w \in Wallet, SetWalletContext(w) PROVE TypeOK'
    BY <1>5 DEF TypeOK, SetWalletContext, conn, pair, ask, screen
<1>6. ASSUME NEW n \in 1..MaxLogin, RecoverReturns(n) PROVE TypeOK'
    BY <1>6 DEF TypeOK, RecoverReturns, Live, app, pair, ask, screen
<1> QED
    BY <1>1, <1>2, <1>3, <1>4, <1>5, <1>6

PairingStep(t) ==
    \/ SessionProposal(t) \/ ApproveReturns(t) \/ SaveReturns(t) \/ RejectReturns(t)
    \/ DecisionFails(t)

EndStep(t) == Disconnect(t) \/ DisconnectReturns(t) \/ DisconnectFails(t) \/ SessionDelete(t)

\* A step of pairing that leaves the app, the sessions and the requests alone.
LEMMA PairKeepsType ==
    ASSUME TypeOK, UNCHANGED <<app, conn, ask>>,
           modal' \in {"closed", "open", "pairing"},
           address' \in Wallet \cup {None},
           proposal' \in Topic \cup {None},
           deciding' \in [Topic -> Decision],
           loading' \in Topic \cup {None},
           faults' \in 0..MaxFaults
    PROVE  TypeOK'
    BY DEF TypeOK, app, conn, ask, screen

LEMMA PairingTypes ==
    ASSUME TypeOK,
           \/ \E w \in Wallet : OpenPairingModal(w)
           \/ ClosePairingModal \/ Pair \/ PairReturns \/ UserDecides
           \/ \E t \in Topic : PairingStep(t)
    PROVE  TypeOK'
<1> USE RequestAssumption
<1>1. ASSUME NEW w \in Wallet, OpenPairingModal(w) PROVE TypeOK'
    BY <1>1 DEF TypeOK, OpenPairingModal, app, conn, ask, screen
<1>2. CASE ClosePairingModal \/ Pair \/ PairReturns
    BY <1>2 DEF TypeOK, ClosePairingModal, Pair, PairReturns, app, conn, ask, screen
<1>3. CASE UserDecides
    <2>1. proposal \in Topic
        BY <1>3 DEF TypeOK, UserDecides, ApproveSession, RejectSession, CanDecide
    <2>2. deciding' \in [Topic -> Decision]
        <3>1. CASE ApproveSession
            <4>1. [does |-> "approve", wallet |-> address] \in Decision
                BY <3>1 DEF TypeOK, Decision
            <4> QED
                BY <3>1, <4>1 DEF TypeOK, ApproveSession
        <3>2. CASE RejectSession
            <4>1. [does |-> "reject", wallet |-> None] \in Decision
                BY DEF Decision
            <4> QED
                BY <3>2, <4>1 DEF TypeOK, RejectSession
        <3> QED
            BY <1>3, <3>1, <3>2 DEF UserDecides
    <2> QED
        BY <1>3, <2>1, <2>2, PairKeepsType DEF TypeOK, UserDecides, ApproveSession, RejectSession
<1>4. ASSUME NEW t \in Topic, PairingStep(t) PROVE TypeOK'
    <2>1. deciding[t] \in Decision
        BY DEF TypeOK
    <2>2. deciding' \in [Topic -> Decision]
        BY <1>4, <2>1 DEF TypeOK, PairingStep, SessionProposal, ApproveReturns, SaveReturns,
           RejectReturns, DecisionFails, Decision, NoDecision
    <2>3. CASE ApproveReturns(t)
        <3>1. live' \in [Topic -> Wallet \cup {None, Gone}]
            BY <2>1, <2>3 DEF TypeOK, ApproveReturns, Decision
        <3> QED
            BY <2>2, <2>3, <3>1 DEF TypeOK, ApproveReturns, Live, app, ask, screen
    <2>4. CASE SessionProposal(t) \/ RejectReturns(t)
        <3>1. UNCHANGED <<app, conn, ask, faults>>
            BY <2>4 DEF SessionProposal, RejectReturns
        <3>2. /\ modal' \in {"closed", "open", "pairing"} /\ address' \in Wallet \cup {None}
              /\ proposal' \in Topic \cup {None} /\ loading' \in Topic \cup {None}
              /\ faults' \in 0..MaxFaults
            BY <2>4 DEF TypeOK, SessionProposal, RejectReturns
        <3> QED
            BY <2>2, <3>1, <3>2, PairKeepsType
    <2>5. CASE SaveReturns(t)
        BY <2>2, <2>5 DEF TypeOK, SaveReturns, app, ask, screen
    <2>6. CASE DecisionFails(t)
        BY <2>2, <2>6 DEF TypeOK, DecisionFails, Fault, app, conn, ask, screen
    <2> QED
        BY <1>4, <2>3, <2>4, <2>5, <2>6 DEF PairingStep
<1> QED
    BY <1>1, <1>2, <1>3, <1>4

LEMMA EndTypes ==
    ASSUME TypeOK,
           \/ \E t \in Topic : EndStep(t)
           \/ \E n \in 1..MaxLogin : SweepGoesOn(n)
    PROVE  TypeOK'
<1> USE RequestAssumption
<1>1. ASSUME NEW t \in Topic, EndStep(t) PROVE TypeOK'
    <2>1. UNCHANGED <<app, pair, ask, client, usb, sweep, recovering>>
        BY <1>1 DEF EndStep, Disconnect, DisconnectReturns, DisconnectFails, SessionDelete
    <2>2. /\ live' \in [Topic -> Wallet \cup {None, Gone}]
          /\ shown' \subseteq Topic /\ leaving' \subseteq Topic /\ refused' \subseteq Topic
          /\ faults' \in 0..MaxFaults
        BY <1>1 DEF TypeOK, EndStep, Disconnect, DisconnectReturns, DisconnectFails, SessionDelete,
                    Live, Fault
    <2> QED
        BY <2>1, <2>2 DEF TypeOK, app, pair, ask, screen
<1>2. ASSUME NEW n \in 1..MaxLogin, SweepEnds(n) PROVE TypeOK'
    BY <1>2 DEF TypeOK, SweepEnds, NoSweep, Sweep, pair, ask, screen
<1>3. ASSUME NEW n \in 1..MaxLogin, NEW t \in Topic, SweepOne(n, t) PROVE TypeOK'
    <2>1. sweep' \in [1..MaxLogin -> Sweep]
        <3>1. sweep[n] \in Sweep
            BY DEF TypeOK
        <3>2. [sweep[n] EXCEPT !.left = @ \ {t}] \in Sweep
            BY <3>1 DEF Sweep
        <3> QED
            BY <1>3, <3>2 DEF TypeOK, SweepOne
    <2> QED
        BY <1>3, <2>1 DEF TypeOK, SweepOne, Fault, app, pair, ask, screen
<1> QED
    BY <1>1, <1>2, <1>3 DEF SweepGoesOn

\* What a step changes of a request, and what it keeps.
LEMMA RequestUpdates ==
    ASSUME NEW q \in Request
    PROVE  /\ \A b \in BOOLEAN :
                 LET rec == [q EXCEPT !.consent = b] IN
                 rec \in Request /\ rec.phase = q.phase /\ rec.consent = b
           /\ \A b \in BOOLEAN :
                 \A e \in BOOLEAN :
                    LET rec == [q EXCEPT !.phase = "signing", !.ack = b, !.early = e] IN
                    /\ rec \in Request /\ rec.phase = "signing"
                    /\ rec.ack = b /\ rec.early = e /\ rec.consent = q.consent
           /\ \A b \in BOOLEAN :
                 LET rec == [q EXCEPT !.phase = "asking", !.warned = b] IN
                 rec \in Request /\ rec.phase = "asking"
           /\ LET rec == [q EXCEPT !.phase = "signed"] IN
              /\ rec \in Request /\ rec.phase = "signed"
              /\ rec.ack = q.ack /\ rec.consent = q.consent /\ rec.early = q.early
              /\ rec.account = q.account /\ rec.method = q.method
    BY DEF Request, Phase

\* The steps of requests and of their dialog.
AskStep ==
    \/ Draw \/ ResetBox \/ Acknowledge \/ UserAnswers
    \/ \E r \in Req : SessionRequest(r) \/ Continues(r)

LEMMA AskTypes ==
    ASSUME TypeOK, AskStep
    PROVE  TypeOK' /\ UNCHANGED <<app, conn, pair, faults>>
<1> USE RequestAssumption
<1> DEFINE Asked == /\ UNCHANGED <<app, conn, pair, faults>>
                    /\ req' \in [Req -> Request]
                    /\ dialog' \in Req \cup {None}
                    /\ pending' \in Req \cup {None}
                    /\ drawn' \in Req \cup {None}
                    /\ stale' \in BOOLEAN
                    /\ ack' \in BOOLEAN
<1>0. ASSUME Draw \/ ResetBox PROVE Asked
    BY <1>0 DEF TypeOK, Draw, ResetBox
<1>1. ASSUME Acknowledge PROVE Asked
    <2>1. drawn \in Req /\ ack' \in BOOLEAN
        BY <1>1 DEF TypeOK, Acknowledge, DialogShown
    <2>2. [req[drawn] EXCEPT !.consent = ack'] \in Request
        BY <2>1, RequestUpdates DEF TypeOK
    <2> QED
        BY <1>1, <2>1, <2>2 DEF TypeOK, Acknowledge, Put
<1>2. ASSUME UserAnswers PROVE Asked
    <2>1. ASSUME pending # None
          PROVE  [req[pending] EXCEPT !.phase = "signing", !.ack = ack,
                                      !.early = drawn # pending \/ stale] \in Request
        <3>1. req[pending] \in Request /\ ack \in BOOLEAN /\ (drawn # pending \/ stale) \in BOOLEAN
            BY <2>1 DEF TypeOK
        <3> QED
            BY <3>1, RequestUpdates
    <2>2. Plain("refused") \in Request
        BY PlainIsRequest DEF Phase
    <2>3. req' \in [Req -> Request]
        BY <1>2, <2>1, <2>2 DEF TypeOK, UserAnswers, ApproveSignRequest, RejectSignRequest, Resolve, Put
    <2> QED
        BY <1>2, <2>3 DEF TypeOK, UserAnswers, ApproveSignRequest, RejectSignRequest, Resolve
<1>3. ASSUME NEW r \in Req, SessionRequest(r) PROVE Asked
    <2>1. \A m \in Method :
             [Plain("checking") EXCEPT !.method = m,
                 !.account = AccountIn(walletId, live[TopicOf[r]])] \in Request
        BY DEF Plain, AccountIn, Request, Phase, Account
    <2>2. Plain("refused") \in Request
        BY PlainIsRequest DEF Phase
    <2>3. req' \in [Req -> Request]
        <3>1. PICK rec \in Request : Put(r, rec)
            BY <1>3, <2>1, <2>2 DEF SessionRequest
        <3> QED
            BY <3>1 DEF TypeOK, Put
    <2> QED
        BY <1>3, <2>3 DEF TypeOK, SessionRequest, screen
<1>4. ASSUME NEW r \in Req, Continues(r) PROVE Asked
    <2>1. \A phase \in Phase : Plain(phase) \in Request
        BY PlainIsRequest
    <2>2. \A warned \in BOOLEAN : [req[r] EXCEPT !.phase = "asking", !.warned = warned] \in Request
        BY RequestUpdates DEF TypeOK
    <2>3. [req[r] EXCEPT !.phase = "signed"] \in Request
        BY RequestUpdates DEF TypeOK
    <2>4. CASE SwitchChain(r) \/ RefuseParams(r) \/ SignFails(r) \/ BroadcastFails(r) \/ Respond(r)
        BY <2>1, <2>4 DEF TypeOK, Phase, SwitchChain, RefuseParams, SignFails, BroadcastFails,
                          Respond, Put, screen
    <2>5. CASE AskTransaction(r) \/ AskMessage(r) \/ AskTypedData(r)
        <3>1. PICK warned \in BOOLEAN : RequestSignature(r, warned)
            BY <2>5 DEF AskTransaction, AskMessage, AskTypedData, Warnings
        <3> QED
            BY <2>2, <3>1 DEF TypeOK, RequestSignature, Put, screen
    <2>6. CASE SignMessage(r) \/ SignTransaction(r)
        BY <2>3, <2>6 DEF TypeOK, SignMessage, SignTransaction, Put, screen
    <2> QED
        BY <1>4, <2>4, <2>5, <2>6 DEF Continues
<1>5. Asked
    BY <1>0, <1>1, <1>2, <1>3, <1>4 DEF AskStep
<1> QED
    BY <1>5 DEF TypeOK, app, conn, pair

LEMMA TypeStep ==
    ASSUME TypeOK, UnlockedHasLogin, [Next]_vars
    PROVE  TypeOK'
<1>1. CASE UNCHANGED vars
    BY <1>1 DEF TypeOK, vars, app, conn, pair, ask, screen
<1>2. CASE Next
    BY <1>2, AppTypes, PairingTypes, EndTypes, AskTypes DEF Next, PairingStep, EndStep, AskStep
<1> QED
    BY <1>1, <1>2

-----------------------------------------------------------------------------
(***************************************************************************)
(* Requests and their dialog.                                              *)
(***************************************************************************)
LEMMA AskUnchanged ==
    ASSUME AskInv, UNCHANGED <<unlocked, ask>>
    PROVE  AskInv'
    BY DEF AskInv, DialogWaits, BoxIsConsent, SentIsConsent, SignedIsAllowed, ask, screen

\* Only these steps do anything to a request or to the dialog.
LEMMA OthersLeaveRequests ==
    ASSUME Next
    PROVE  Unlock \/ Lock \/ Restart \/ AskStep \/ UNCHANGED <<unlocked, ask>>
<1>0. ASSUME NEW n \in 1..MaxLogin, RecoverReturns(n) PROVE UNCHANGED <<unlocked, ask>>
    BY <1>0 DEF RecoverReturns, app
<1>1. InitReturns => UNCHANGED <<unlocked, ask>>
    BY DEF InitReturns, app
<1>2. ASSUME NEW w \in Wallet, SetWalletContext(w) \/ OpenPairingModal(w) PROVE UNCHANGED <<unlocked, ask>>
    BY <1>2 DEF SetWalletContext, OpenPairingModal, app
<1>3. ClosePairingModal \/ Pair \/ PairReturns \/ UserDecides => UNCHANGED <<unlocked, ask>>
    BY DEF ClosePairingModal, Pair, PairReturns, UserDecides, ApproveSession, RejectSession, app
<1>4. ASSUME NEW t \in Topic, PairingStep(t) PROVE UNCHANGED <<unlocked, ask>>
    BY <1>4 DEF PairingStep, SessionProposal, ApproveReturns, SaveReturns, RejectReturns, DecisionFails, app
<1>5. ASSUME NEW t \in Topic, EndStep(t) PROVE UNCHANGED <<unlocked, ask>>
    BY <1>5 DEF EndStep, Disconnect, DisconnectReturns, DisconnectFails, SessionDelete, app
<1>6. ASSUME NEW n \in 1..MaxLogin, SweepGoesOn(n) PROVE UNCHANGED <<unlocked, ask>>
    BY <1>6 DEF SweepGoesOn, SweepEnds, SweepOne, app
<1> QED
    BY <1>0, <1>1, <1>2, <1>3, <1>4, <1>5, <1>6 DEF Next, PairingStep, EndStep, AskStep

\* A step that puts a request in the place of one that is not in the dialog.
LEMMA PutBesideDialog ==
    ASSUME TypeOK, AskInv, NEW r \in Req, NEW rec \in Request, Put(r, rec),
           req[r].phase # "asking", UNCHANGED <<unlocked, dialog, pending, screen>>,
           rec.phase \in {"signing", "signed"} /\ rec.ack => rec.consent \/ rec.early,
           rec.phase = "signed" =>
               /\ r \in Risky => rec.ack
               /\ rec.account # "absent"
               /\ rec.method = "tx" => rec.account = "owner"
    PROVE  AskInv'
<1>1. dialog # r /\ drawn # r
    BY RequestAssumption DEF AskInv, DialogWaits
<1>2. req' = [req EXCEPT ![r] = rec] /\ \A s \in Req : req'[s] = IF s = r THEN rec ELSE req[s]
    BY DEF Put, TypeOK
<1>3. (dialog # None => dialog \in Req) /\ (drawn # None => drawn \in Req)
    BY DEF TypeOK
<1>4. (DialogWaits /\ BoxIsConsent)'
    BY <1>1, <1>2, <1>3 DEF AskInv, DialogWaits, BoxIsConsent, screen
<1>5. (SentIsConsent /\ SignedIsAllowed)'
    BY <1>2 DEF AskInv, SentIsConsent, SignedIsAllowed
<1> QED
    BY <1>4, <1>5 DEF AskInv

LEMMA AskInvStep ==
    ASSUME TypeOK, AskInv, [Next]_vars
    PROVE  AskInv'
<1> USE RequestAssumption
<1>1. CASE UNCHANGED <<unlocked, ask>>
    BY <1>1, AskUnchanged
<1>2. CASE Unlock \/ Lock
    <2>1. /\ UNCHANGED <<req, dialog, pending>>
          /\ stale' = FALSE /\ ack' = FALSE
          /\ drawn' \in {None, dialog}
          /\ drawn' # None => unlocked'
        <3>1. CASE Lock
            BY <3>1 DEF Lock
        <3>2. CASE Unlock
            <4>1. drawn = None
                BY <3>2 DEF Unlock, AskInv, DialogWaits
            <4> QED
                BY <3>2, <4>1 DEF Unlock, AskInv, DialogWaits
        <3> QED
            BY <1>2, <3>1, <3>2
    <2> QED
        BY <2>1 DEF AskInv, DialogWaits, BoxIsConsent, SentIsConsent, SignedIsAllowed
<1>3. CASE Restart
    <2>1. \A r \in Req : req'[r].phase \notin {"signing", "signed"}
        BY <1>3 DEF Restart, Plain
    <2> QED
        BY <1>3, <2>1 DEF Restart, AskInv, DialogWaits, BoxIsConsent, SentIsConsent, SignedIsAllowed
<1>4. CASE Draw \/ ResetBox
    BY <1>4 DEF Draw, ResetBox, app, AskInv, DialogWaits, BoxIsConsent, SentIsConsent, SignedIsAllowed
<1>5. CASE Acknowledge
    <2>1. drawn \in Req /\ req[drawn].phase = "asking" /\ ack' \in BOOLEAN
        BY <1>5 DEF Acknowledge, DialogShown, AskInv, DialogWaits, TypeOK
    <2>2. /\ \A r \in Req : r # drawn => req'[r] = req[r]
          /\ req'[drawn].phase = "asking"
          /\ req'[drawn].consent = ack'
        <3>1. req' = [req EXCEPT ![drawn] = [req[drawn] EXCEPT !.consent = ack']]
            BY <1>5 DEF Acknowledge, Put
        <3> QED
            BY <2>1, <3>1 DEF TypeOK, Request
    <2>3. UNCHANGED <<unlocked, dialog, pending, drawn>> /\ stale' = FALSE
        BY <1>5 DEF Acknowledge, app
    <2>4. dialog # None => dialog \in Req
        BY DEF TypeOK
    <2> QED
        BY <2>1, <2>2, <2>3, <2>4 DEF AskInv, DialogWaits, BoxIsConsent, SentIsConsent, SignedIsAllowed
<1>6. CASE UserAnswers
    <2>1. pending \in Req /\ pending = dialog /\ req[pending].phase = "asking"
        BY <1>6 DEF UserAnswers, ApproveSignRequest, RejectSignRequest, DialogShown, AskInv,
                    DialogWaits, TypeOK
    <2>2. /\ dialog' = None /\ pending' = None /\ drawn' = None
          /\ stale' = FALSE /\ ack' = FALSE
        BY <1>6 DEF UserAnswers, ApproveSignRequest, RejectSignRequest, Resolve
    <2>3. \A r \in Req : r # pending => req'[r] = req[r]
        BY <1>6 DEF UserAnswers, ApproveSignRequest, RejectSignRequest, Resolve, Put, TypeOK
    <2>4. /\ req'[pending].phase # "signed"
          /\ req'[pending].phase = "signing" /\ req'[pending].ack
                => req'[pending].consent \/ req'[pending].early
        <3>1. CASE ApproveSignRequest
            <4> DEFINE late == drawn # pending \/ stale
            <4>1. req' = [req EXCEPT ![pending] =
                             [req[pending] EXCEPT !.phase = "signing", !.ack = ack, !.early = late]]
                BY <2>1, <3>1, RequestAssumption DEF ApproveSignRequest, Resolve, Put
            <4>2. req[pending] \in Request /\ ack \in BOOLEAN /\ late \in BOOLEAN
                BY <2>1 DEF TypeOK
            <4>3. /\ req'[pending].phase = "signing"
                  /\ req'[pending].ack = ack
                  /\ req'[pending].early = late
                  /\ req'[pending].consent = req[pending].consent
                <5> HIDE DEF late
                <5> QED
                    BY <2>1, <4>1, <4>2 DEF TypeOK, Request
            <4>4. ack /\ ~late => req[pending].consent
                BY <2>1, <3>1 DEF AskInv, BoxIsConsent, ApproveSignRequest, DialogShown
            <4> QED
                BY <4>3, <4>4
        <3>2. CASE RejectSignRequest
            BY <2>1, <3>2 DEF RejectSignRequest, Resolve, Put, Plain, TypeOK
        <3> QED
            BY <1>6, <3>1, <3>2 DEF UserAnswers
    <2> QED
        BY <2>1, <2>2, <2>3, <2>4 DEF AskInv, DialogWaits, BoxIsConsent, SentIsConsent, SignedIsAllowed
<1>7. ASSUME NEW r \in Req, SessionRequest(r) PROVE AskInv'
    <2>1. PICK rec \in Request : Put(r, rec) /\ rec.phase \in {"checking", "refused"}
        <3>1. \A m \in Method :
                 LET rec == [Plain("checking") EXCEPT !.method = m,
                                 !.account = AccountIn(walletId, live[TopicOf[r]])]
                 IN  rec \in Request /\ rec.phase = "checking"
            BY DEF Plain, AccountIn, Request, Phase, Account
        <3>2. Plain("refused") \in Request /\ Plain("refused").phase = "refused"
            BY PlainIsRequest DEF Phase, Plain
        <3> QED
            BY <1>7, <3>1, <3>2 DEF SessionRequest
    <2> QED
        BY <1>7, <2>1, PutBesideDialog DEF SessionRequest, app
<1>8. ASSUME NEW r \in Req, Continues(r) PROVE AskInv'
    <2>1. \A phase \in Phase : Plain(phase) \in Request /\ Plain(phase).phase = phase
        BY PlainIsRequest DEF Plain
    <2>2. CASE SwitchChain(r) \/ RefuseParams(r) \/ SignFails(r) \/ BroadcastFails(r) \/ Respond(r)
        <3>1. PICK phase \in {"granted", "refused", "told", "lost"} : Put(r, Plain(phase))
            BY <2>2 DEF SwitchChain, RefuseParams, SignFails, BroadcastFails, Respond
        <3>2. req[r].phase # "asking" /\ UNCHANGED <<unlocked, dialog, pending, screen>>
            BY <2>2 DEF SwitchChain, RefuseParams, SignFails, BroadcastFails, Respond, app
        <3>3. Plain(phase) \in Request /\ Plain(phase).phase \notin {"signing", "signed"}
            BY <2>1 DEF Phase
        <3> QED
            BY <3>1, <3>2, <3>3, PutBesideDialog
    <2>3. CASE AskTransaction(r) \/ AskMessage(r) \/ AskTypedData(r)
        <3>1. PICK warned \in BOOLEAN : RequestSignature(r, warned)
            BY <2>3 DEF AskTransaction, AskMessage, AskTypedData, Warnings
        <3>2. /\ \A s \in Req : s # r => req'[s] = req[s]
              /\ req'[r].phase = "asking"
            BY <3>1 DEF RequestSignature, Put, TypeOK, Request
        <3>3. UNCHANGED unlocked /\ dialog' = r /\ pending' = r /\ UNCHANGED screen /\ req[r].phase = "checking"
            BY <2>3, <3>1 DEF RequestSignature, AskTransaction, AskMessage, AskTypedData, app
        <3>4. drawn # None => drawn \in Req /\ drawn # r
            BY <3>3 DEF TypeOK, AskInv, DialogWaits
        <3> QED
            BY <3>2, <3>3, <3>4 DEF screen, AskInv, DialogWaits, BoxIsConsent, SentIsConsent, SignedIsAllowed
    <2>4. CASE SignMessage(r) \/ SignTransaction(r)
        <3> DEFINE rec == [req[r] EXCEPT !.phase = "signed"]
        <3>1. /\ rec \in Request
              /\ rec.ack = req[r].ack /\ rec.consent = req[r].consent /\ rec.early = req[r].early
              /\ rec.account = req[r].account /\ rec.method = req[r].method
            BY RequestUpdates DEF TypeOK
        <3>2. Put(r, rec) /\ req[r].phase = "signing" /\ BackendSigns(r)
            BY <2>4 DEF SignMessage, SignTransaction
        <3>3. UNCHANGED <<unlocked, dialog, pending, screen>>
            BY <2>4 DEF SignMessage, SignTransaction, app
        <3>4. rec.ack => rec.consent \/ rec.early
            BY <3>1, <3>2 DEF AskInv, SentIsConsent
        <3> HIDE DEF rec
        <3> QED
            BY <3>1, <3>2, <3>3, <3>4, PutBesideDialog DEF BackendSigns
    <2> QED
        BY <1>8, <2>2, <2>3, <2>4 DEF Continues
<1> QED
    BY <1>1, <1>2, <1>3, <1>4, <1>5, <1>6, <1>7, <1>8, OthersLeaveRequests DEF AskStep, vars, app

-----------------------------------------------------------------------------
(***************************************************************************)
(* Sessions and sweeps.                                                    *)
(***************************************************************************)
LEMMA ConnUnchanged ==
    ASSUME ConnInv, UNCHANGED <<unlocked, login, conn, deciding>>
    PROVE  ConnInv'
    BY DEF ConnInv, UnlockedHasLogin, SweepsHaveBegun, SweepsShrink, ApprovedForWallet,
           ListedIsConnected, Live, conn

\* A step of pairing adds a session or leaves all of them.
LEMMA PairingConn ==
    ASSUME TypeOK, ConnInv, NEW t \in Topic, PairingStep(t)
    PROVE  ConnInv'
<1> USE RequestAssumption
<1>1. UNCHANGED <<unlocked, login, sweep, client>>
    BY DEF PairingStep, SessionProposal, ApproveReturns, SaveReturns, RejectReturns, DecisionFails,
           app, conn
<1>2. ApprovedForWallet'
    BY DEF ConnInv, ApprovedForWallet, TypeOK, Decision, PairingStep, SessionProposal, ApproveReturns,
           SaveReturns, RejectReturns, DecisionFails, NoDecision
<1>3. ListedIsConnected'
    <2>1. CASE ApproveReturns(t)
        <3>1. deciding[t].wallet \in Wallet
            BY <2>1 DEF ConnInv, ApprovedForWallet, ApproveReturns
        <3>2. Live' = Live \cup {t} /\ shown' = Live \cup {t}
            BY <2>1, <3>1 DEF ApproveReturns, Live, TypeOK
        <3> QED
            BY <3>2 DEF ListedIsConnected
    <2>2. CASE UNCHANGED <<live, shown>>
        BY <1>1, <2>2 DEF ConnInv, ListedIsConnected, Live
    <2>3. SessionProposal(t) \/ SaveReturns(t) \/ RejectReturns(t) \/ DecisionFails(t)
            => UNCHANGED <<live, shown>>
        BY DEF SessionProposal, SaveReturns, RejectReturns, DecisionFails, conn
    <2> QED
        BY <2>1, <2>2, <2>3 DEF PairingStep
<1> QED
    BY <1>1, <1>2, <1>3 DEF ConnInv, UnlockedHasLogin, SweepsHaveBegun, SweepsShrink

\* The end of a session takes it from the list, which is read again.
LEMMA EndConn ==
    ASSUME TypeOK, ConnInv, NEW t \in Topic, EndStep(t)
    PROVE  ConnInv'
<1> USE RequestAssumption
<1>1. UNCHANGED <<unlocked, login, sweep, client, deciding>>
    BY DEF EndStep, Disconnect, DisconnectReturns, DisconnectFails, SessionDelete, app, pair
<1>2. ListedIsConnected'
    <2>1. CASE DisconnectReturns(t) \/ SessionDelete(t)
        <3>1. Live' = Live \ {t} /\ shown' = Live \ {t}
            BY <2>1 DEF DisconnectReturns, SessionDelete, Live, TypeOK
        <3> QED
            BY <3>1 DEF ListedIsConnected
    <2>2. CASE Disconnect(t) \/ DisconnectFails(t)
        BY <1>1, <2>2 DEF Disconnect, DisconnectFails, ConnInv, ListedIsConnected, Live
    <2> QED
        BY <2>1, <2>2 DEF EndStep
<1> QED
    BY <1>1, <1>2 DEF ConnInv, UnlockedHasLogin, SweepsHaveBegun, SweepsShrink, ApprovedForWallet

\* What a step of a sweep takes from the SDK is in what the sweep began with.
LEMMA SweepConn ==
    ASSUME TypeOK, ConnInv, NEW n \in 1..MaxLogin, SweepGoesOn(n)
    PROVE  ConnInv'
<1> USE RequestAssumption
<1>1. CASE SweepEnds(n)
    <2>1. \A m \in 1..MaxLogin : sweep'[m] = IF m = n THEN NoSweep ELSE sweep[m]
        BY <1>1 DEF SweepEnds, TypeOK
    <2>2. UNCHANGED <<unlocked, login, deciding>> /\ shown' = {}
        BY <1>1 DEF SweepEnds, pair
    <2> QED
        BY <2>1, <2>2 DEF ConnInv, UnlockedHasLogin, SweepsHaveBegun, SweepsShrink, ApprovedForWallet,
                          ListedIsConnected, NoSweep
<1>2. ASSUME NEW t \in Topic, SweepOne(n, t) PROVE ConnInv'
    <2>1. /\ \A m \in 1..MaxLogin : sweep'[m].all = sweep[m].all /\ sweep'[m].left \subseteq sweep[m].left
          /\ t \in sweep[n].left
        BY <1>2 DEF SweepOne, TypeOK, Sweep
    <2>2. UNCHANGED <<unlocked, login, client, shown, deciding>>
        BY <1>2 DEF SweepOne, app, pair
    <2>3. Live \subseteq Live' \cup {t}
        BY <1>2 DEF SweepOne, Live, TypeOK
    <2>4. t \in sweep'[n].all
        BY <2>1 DEF ConnInv, SweepsShrink
    <2>5. ListedIsConnected'
        BY <2>1, <2>2, <2>3, <2>4 DEF ConnInv, ListedIsConnected
    <2>6. (SweepsHaveBegun /\ SweepsShrink)'
        BY <2>1, <2>2 DEF ConnInv, SweepsHaveBegun, SweepsShrink
    <2> QED
        BY <2>2, <2>5, <2>6 DEF ConnInv, UnlockedHasLogin, ApprovedForWallet
<1> QED
    BY <1>1, <1>2 DEF SweepGoesOn

LEMMA ConnInvStep ==
    ASSUME TypeOK, ConnInv, [Next]_vars
    PROVE  ConnInv'
<1> USE RequestAssumption
<1>1. CASE Unlock
    <2>1. /\ ~unlocked /\ unlocked' /\ login' = login + 1 /\ login \in Nat
          /\ UNCHANGED <<sweep, live, deciding>>
        BY <1>1 DEF Unlock, pair, TypeOK
    <2>2. (UnlockedHasLogin /\ SweepsHaveBegun /\ SweepsShrink /\ ApprovedForWallet)'
        BY <2>1 DEF ConnInv, UnlockedHasLogin, SweepsHaveBegun, SweepsShrink, ApprovedForWallet
    <2>3. client' = "ready" => client = "ready" /\ shown' = shown
        BY <1>1 DEF Unlock
    <2>4. ListedIsConnected'
        BY <2>1, <2>3 DEF ConnInv, ListedIsConnected, Live
    <2> QED
        BY <2>2, <2>4 DEF ConnInv
<1>2. CASE Lock
    <2>1. /\ unlocked /\ ~unlocked' /\ login \in 1..MaxLogin
          /\ UNCHANGED <<login, live, shown, client, deciding>>
        BY <1>2 DEF Lock, ConnInv, UnlockedHasLogin, TypeOK
    <2>2. sweep[login].left = {} /\ sweep[login].all = {}
        BY <2>1 DEF ConnInv, SweepsHaveBegun
    <2>3. \/ UNCHANGED sweep
          \/ \A m \in 1..MaxLogin :
                IF m = login THEN sweep'[m].left = Live /\ sweep'[m].all = Live
                             ELSE sweep'[m] = sweep[m]
        BY <1>2 DEF Lock, TypeOK
    <2>4. SweepsHaveBegun' /\ SweepsShrink'
        BY <2>1, <2>3 DEF ConnInv, SweepsHaveBegun, SweepsShrink, TypeOK
    <2>5. ListedIsConnected'
        <3>1. \A m \in 1..MaxLogin : sweep[m].all \subseteq sweep'[m].all
            BY <2>2, <2>3
        <3> QED
            BY <2>1, <3>1 DEF ConnInv, ListedIsConnected, Live
    <2> QED
        BY <2>1, <2>4, <2>5 DEF ConnInv, UnlockedHasLogin, ApprovedForWallet
<1>3. CASE Restart
    BY <1>3 DEF Restart, ConnInv, UnlockedHasLogin, SweepsHaveBegun, SweepsShrink, ApprovedForWallet,
                ListedIsConnected, NoSweep, NoDecision
<1>4. CASE InitReturns
    BY <1>4 DEF InitReturns, ConnInv, UnlockedHasLogin, SweepsHaveBegun, SweepsShrink,
                ApprovedForWallet, ListedIsConnected, Live, app, pair
<1>5. ASSUME NEW w \in Wallet, SetWalletContext(w) \/ OpenPairingModal(w) PROVE ConnInv'
    BY <1>5, ConnUnchanged DEF SetWalletContext, OpenPairingModal, app, pair
<1>6. CASE ClosePairingModal \/ Pair \/ PairReturns
    BY <1>6, ConnUnchanged DEF ClosePairingModal, Pair, PairReturns, app
<1>7. CASE UserDecides
    <2>1. UNCHANGED <<unlocked, login, conn>>
        BY <1>7 DEF UserDecides, ApproveSession, RejectSession, app
    <2>2. ApprovedForWallet'
        <3>1. deciding \in [Topic -> Decision] /\ ApprovedForWallet
            BY DEF TypeOK, ConnInv
        <3>2. CASE ApproveSession
            <4>1. address \in Wallet /\ proposal \in Topic
                BY <3>2 DEF ApproveSession, CanDecide, TypeOK
            <4>2. \A t \in Topic :
                    deciding'[t] = IF t = proposal THEN [does |-> "approve", wallet |-> address]
                                                   ELSE deciding[t]
                BY <3>1, <3>2 DEF ApproveSession
            <4> QED
                BY <3>1, <4>1, <4>2 DEF ApprovedForWallet
        <3>3. CASE RejectSession
            BY <3>1, <3>3 DEF RejectSession, ApprovedForWallet
        <3> QED
            BY <1>7, <3>2, <3>3 DEF UserDecides
    <2> QED
        BY <2>1, <2>2 DEF ConnInv, UnlockedHasLogin, SweepsHaveBegun, SweepsShrink, ListedIsConnected,
                          Live, conn
<1>8. CASE AskStep
    BY <1>8, AskTypes, ConnUnchanged DEF app, pair
<1>9. CASE UNCHANGED vars
    BY <1>9, ConnUnchanged DEF vars, app, pair
<1>10. ASSUME NEW n \in 1..MaxLogin, RecoverReturns(n) PROVE ConnInv'
    <2>1. UNCHANGED <<unlocked, login, client, live, sweep, deciding>> /\ shown' \in {shown, Live}
        BY <1>10 DEF RecoverReturns, app, pair
    <2> QED
        BY <2>1 DEF ConnInv, UnlockedHasLogin, SweepsHaveBegun, SweepsShrink, ApprovedForWallet,
                    ListedIsConnected, Live
<1> QED
    BY <1>1, <1>2, <1>3, <1>4, <1>5, <1>6, <1>7, <1>8, <1>9, <1>10, PairingConn, EndConn, SweepConn
       DEF Next, PairingStep, EndStep, AskStep

-----------------------------------------------------------------------------
(***************************************************************************)
(* Theorems.                                                               *)
(***************************************************************************)
\* The inductive invariant holds in every behaviour of the context, the SDK,
\* the dialogs and the lock around them.
THEOREM Invariant == Spec => []IInv
<1>1. IInv /\ [Next]_vars => IInv'
    BY TypeStep, AskInvStep, ConnInvStep DEF IInv, ConnInv
<1> QED
    BY Start, <1>1, PTL DEF Spec

\* Every variable has its type.
THEOREM TypeCorrect == Spec => []TypeOK
<1>1. IInv => TypeOK
    BY DEF IInv
<1> QED
    BY Invariant, <1>1, PTL

\* No request is signed with a tick given to another one, unless the click that
\* answered it came before the dialog had caught up, nor with the key of another
\* wallet's address.
THEOREM SignaturesAreConsented == Spec => []SignatureIsConsented
<1>1. IInv => SignatureIsConsented
    <2> SUFFICES ASSUME IInv PROVE SignatureIsConsented
        OBVIOUS
    <2>1. DangerIsAcknowledged
        BY RequestAssumption DEF IInv, AskInv, SentIsConsent, SignedIsAllowed, DangerIsAcknowledged
    <2>2. KeyIsOwners
        BY DEF IInv, TypeOK, AskInv, SignedIsAllowed, KeyIsOwners, Request, Account
    <2> QED
        BY <2>1, <2>2 DEF IInv, SignatureIsConsented
<1> QED
    BY Invariant, <1>1, PTL

\* The page lists a session that is not connected only while the sweep of a
\* lock that had it connected goes on.
THEOREM ListIsConnected == Spec => []ListedIsConnected
<1>1. IInv => ListedIsConnected
    BY DEF IInv, ConnInv
<1> QED
    BY Invariant, <1>1, PTL
=============================================================================
