-------------------------- MODULE WalletPageProofs --------------------------
(***************************************************************************)
(* Proofs about the page of a wallet with its flows, for any wallets,      *)
(* tokens, staking options, approvals and bounds; and about the page that  *)
(* sends coins, for any tokens, chains, recipients and signatures in       *)
(* progress.                                                               *)
(***************************************************************************)
EXTENDS WalletPage, MCSendPage, TLAPS

-----------------------------------------------------------------------------
(***************************************************************************)
(* The swap page.                                                          *)
(***************************************************************************)
\* The box is ticked for the transaction the page has.
SwapBox == swapAck => swapConsent = swapTx

\* A call carries what it was made for, and what is signed was let through.
CallOk(c) ==
    /\ c \in Swap!Call
    /\ c.own => c.host
    /\ c.kind \in {"quote", "build", "swap"} => c.deal \in Swap!Deal
    /\ c.kind \in {"fetch", "approve"} =>
         c.deal.from \in Asset /\ c.deal = [Swap!Blank EXCEPT !.from = c.deal.from]
    /\ c.kind # "swap" => c.shown = Swap!Blank /\ c.consent = None /\ ~c.ack /\ ~c.signed
    /\ c.ack => c.consent = c.deal
    /\ c.signed => (c.deal.from \in Flagged => c.ack)

\* A page that is gone waits for nothing, and left signatures only.
GoneIsLeft ==
    /\ swapStep = "closed" => \A c \in swapCalls : ~c.own
    /\ \A c \in swapCalls : c.own \/ c.kind \in {"approve", "swap"}

\* A call that will set the step.
Awaited(c) == c.own /\ c.kind # "quote"

\* For a user who waits: past the quote the transaction is the form's, ...
Paying == {"approve", "approvalPassword", "approving", "password", "signing", "broadcasting"}

FormIsBuilt ==
    ~swapCrossed =>
        /\ swapStep \in Paying => swapTx = swapForm
        /\ swapStep \in {"approvalPassword", "approving"} => swapApproval = swapForm.from
        /\ swapStep \in {"password", "signing", "broadcasting"} => swapForm.from \in swapAllowed

\* ... the page shows the step of the one call it waits for, ...
CallIsShown(c) ==
    /\ c.kind = "build" => swapStep = "input" /\ c.deal = swapForm
    /\ c.kind = "fetch" => swapStep = "approve" /\ c.deal.from = swapForm.from
    /\ c.kind = "approve" => swapStep = "approving" /\ c.deal.from = swapForm.from
    /\ c.kind = "swap" => /\ swapStep \in {"signing", "broadcasting"}
                          /\ c.deal = swapForm /\ c.shown = c.deal

OneIsAwaited ==
    ~swapCrossed =>
        /\ \A c \in swapCalls : Awaited(c) => CallIsShown(c)
        /\ \A c, d \in swapCalls : Awaited(c) /\ Awaited(d) => c = d

\* ... and no swap of an earlier page spends what was allowed.
SwapsAreOwn ==
    ~swapCrossed /\ swapStep # "closed" => \A c \in swapCalls : c.kind = "swap" => c.own

SwapInv ==
    /\ Swap!TypeOK
    /\ \A c \in swapCalls : CallOk(c)
    /\ SwapBox /\ GoneIsLeft /\ FormIsBuilt /\ OneIsAwaited /\ SwapsAreOwn
    /\ Swap!BusyHasCall

SwapPromise == Swap!DangerIsConsented /\ Swap!WaitedIsConfirmed

LEMMA SwapSafe == SwapInv => SwapPromise
<1> SUFFICES ASSUME SwapInv PROVE SwapPromise
    OBVIOUS
<1>1. Swap!DangerIsConsented
    BY DEF SwapInv, CallOk, Swap!DangerIsConsented
<1>2. Swap!WaitedIsConfirmed
    BY DEF SwapInv, FormIsBuilt, OneIsAwaited, CallIsShown, Awaited, Swap!WaitedIsConfirmed
<1> QED
    BY <1>1, <1>2 DEF SwapPromise

-----------------------------------------------------------------------------
\* An empty form is a form, and so is one token of it.
LEMMA FormFacts ==
    /\ Swap!Blank \in Swap!Form
    /\ \A a \in Asset : [Swap!Blank EXCEPT !.from = a] \in Swap!Form
                        /\ [Swap!Blank EXCEPT !.from = a].from = a
    /\ Swap!Deal \subseteq Swap!Form
    /\ \A f \in Swap!Form : f.from \in Asset \cup {None} /\ f.to \in Asset \cup {None}
BY DEF Swap!Blank, Swap!Form, Swap!Deal

\* A page that goes leaves its signatures behind, and nothing else.
LEMMA LeftKeeps ==
    ASSUME NEW c, CallOk(c), NEW host \in BOOLEAN, c.kind \in {"approve", "swap"}
    PROVE  LET m == [c EXCEPT !.own = FALSE, !.host = c.host /\ host]
           IN  CallOk(m) /\ ~m.own /\ m.kind = c.kind
BY DEF CallOk, Swap!Call

LEMMA GateKeeps ==
    ASSUME NEW c, CallOk(c), c.kind = "swap", c.deal.from \in Flagged => c.ack
    PROVE  LET m == [c EXCEPT !.signed = TRUE]
           IN  CallOk(m) /\ m.own = c.own /\ m.host = c.host /\ m.kind = c.kind
               /\ m.deal = c.deal /\ m.shown = c.shown
BY DEF CallOk, Swap!Call

LEMMA SwapUnmounted ==
    ASSUME SwapInv, NEW host \in BOOLEAN, NEW left \in SUBSET swapCalls,
           Swap!Unmounted(left, host), Coin \subseteq swapAllowed', swapAllowed' \subseteq Asset
    PROVE  SwapInv' /\ swapStep' = "closed"
<1>1. swapStep' = "closed" /\ swapForm' = Swap!Blank /\ swapQuote' = None /\ swapTx' = None
      /\ swapApproval' = None /\ swapAck' = FALSE /\ swapWarned' = FALSE /\ swapConsent' = None
      /\ swapLoading' = FALSE /\ swapCrossed' = FALSE
      /\ swapCalls' = {[c EXCEPT !.own = FALSE, !.host = c.host /\ host] :
                       c \in {d \in left : d.kind \in {"approve", "swap"}}}
    BY DEF Swap!Unmounted
<1>2. \A m \in swapCalls' : CallOk(m) /\ ~m.own /\ m.kind \in {"approve", "swap"}
    <2> SUFFICES ASSUME NEW m \in swapCalls'
                 PROVE  CallOk(m) /\ ~m.own /\ m.kind \in {"approve", "swap"}
        OBVIOUS
    <2>1. PICK c \in left : /\ c.kind \in {"approve", "swap"}
                            /\ m = [c EXCEPT !.own = FALSE, !.host = c.host /\ host]
        BY <1>1
    <2>2. CallOk(c)
        BY DEF SwapInv
    <2> QED
        BY <2>1, <2>2, LeftKeeps
<1>3. swapCalls' \subseteq Swap!Call
    BY <1>2 DEF CallOk
<1>4. Swap!TypeOK'
    BY <1>1, <1>3, FormFacts DEF Swap!TypeOK, Swap!Step
<1>5. SwapBox' /\ GoneIsLeft' /\ FormIsBuilt' /\ OneIsAwaited' /\ SwapsAreOwn' /\ Swap!BusyHasCall'
    BY <1>1, <1>2 DEF SwapBox, GoneIsLeft, FormIsBuilt, Paying, OneIsAwaited, Awaited, SwapsAreOwn,
                      Swap!BusyHasCall
<1> QED
    BY <1>1, <1>2, <1>4, <1>5 DEF SwapInv

LEMMA SwapOpens ==
    ASSUME SwapInv, Swap!Open
    PROVE  SwapInv' /\ swapStep' # "closed"
<1>1. swapStep = "closed" /\ swapStep' = "selectFrom" /\ swapForm' = Swap!Blank
      /\ swapQuote' = None /\ swapTx' = None /\ swapApproval' = None /\ swapAck' = FALSE
      /\ swapWarned' = FALSE /\ swapConsent' = None /\ swapLoading' = FALSE
      /\ swapCrossed' = (\E c \in swapCalls : c.kind = "swap")
      /\ swapCalls' = swapCalls /\ swapAllowed' = swapAllowed
    BY DEF Swap!Open
<1>2. Swap!TypeOK'
    BY <1>1, FormFacts DEF SwapInv, Swap!TypeOK, Swap!Step
<1>3. SwapBox' /\ GoneIsLeft' /\ FormIsBuilt' /\ OneIsAwaited' /\ SwapsAreOwn' /\ Swap!BusyHasCall'
    BY <1>1 DEF SwapInv, SwapBox, GoneIsLeft, FormIsBuilt, Paying, OneIsAwaited, Awaited,
                SwapsAreOwn,
                Swap!BusyHasCall
<1> QED
    BY <1>1, <1>2, <1>3 DEF SwapInv, CallOk

LEMMA SwapInit == Swap!Init => SwapInv /\ swapStep = "closed"
<1> SUFFICES ASSUME Swap!Init PROVE SwapInv /\ swapStep = "closed"
    OBVIOUS
<1>1. Swap!TypeOK
    BY FormFacts, SwapAssumption DEF Swap!Init, Swap!TypeOK, Swap!Step
<1> QED
    BY <1>1 DEF Swap!Init, SwapInv, SwapBox, GoneIsLeft, FormIsBuilt, Paying, OneIsAwaited, Awaited,
                SwapsAreOwn, Swap!BusyHasCall

-----------------------------------------------------------------------------
\* The hook's review: what stays ticked is the same transaction.
LEMMA SwapReviewed ==
    ASSUME SwapInv, Swap!Reviewed(swapTx')
    PROVE  SwapBox' /\ {swapWarned, swapAck}' \subseteq BOOLEAN
           /\ swapConsent' \in Swap!Deal \cup {None}
BY DEF SwapInv, SwapBox, Swap!TypeOK, Swap!Reviewed

\* What the fields of a form may become.
LEMMA FormChanges ==
    ASSUME NEW f \in Swap!Form
    PROVE  /\ \A a \in Asset : [from |-> a, to |-> None, amount |-> None] \in Swap!Form
           /\ \A a \in Asset : [f EXCEPT !.to = a] \in Swap!Form
           /\ \A n \in Amount \cup {None} : [f EXCEPT !.amount = n] \in Swap!Form
           /\ [from |-> f.to, to |-> f.from, amount |-> None] \in Swap!Form
           /\ [f EXCEPT !.from = None] \in Swap!Form
           /\ [f EXCEPT !.to = None] \in Swap!Form
BY DEF Swap!Form

\* The user moves over the form: whoever does so under a call has not waited.
LEMMA SwapForms ==
    ASSUME SwapInv,
           \/ \E a \in Asset : Swap!HandleSelectFromToken(a) \/ Swap!HandleSelectToToken(a)
           \/ \E n \in Amount \cup {None} : Swap!SetAmount(n)
           \/ \E s \in Swap!Step : Swap!Reselect(s)
           \/ Swap!OnSwapTokens \/ Swap!Back \/ Swap!HandleReset \/ Swap!TryAgain
    PROVE  SwapInv' /\ swapStep # "closed" /\ swapStep' # "closed"
<1> USE DEF Swap!HandleSelectFromToken, Swap!HandleSelectToToken,
           Swap!SetAmount, Swap!Reselect, Swap!OnSwapTokens, Swap!Back,
           Swap!HandleReset, Swap!TryAgain, Swap!Entering, Swap!Moves
<1>1. /\ swapCalls' = swapCalls /\ swapAllowed' = swapAllowed /\ swapLoading' = swapLoading
      /\ swapCrossed' = (swapCrossed \/ \E c \in swapCalls : Awaited(c))
    BY DEF Awaited
<1>2. /\ swapStep # "closed"
      /\ swapStep' \in {"selectFrom", "selectTo", "input", "approve", "approvalPassword"}
    OBVIOUS
<1>3. swapStep' \in Paying =>
        swapStep' = "approve" /\ swapStep = "approvalPassword" /\ UNCHANGED <<swapForm, swapTx>>
    BY DEF Paying
<1>4. swapForm' \in Swap!Form
    BY FormChanges, FormFacts DEF SwapInv, Swap!TypeOK
<1>5. /\ {swapQuote, swapTx}' \subseteq Swap!Deal \cup {None}
      /\ swapApproval' \in Asset \cup {None}
    BY DEF SwapInv, Swap!TypeOK, Swap!page
<1>6. SwapBox' /\ {swapWarned, swapAck}' \subseteq BOOLEAN
      /\ swapConsent' \in Swap!Deal \cup {None}
    <2>1. CASE Swap!HandleReset
        <3>1. Swap!Reviewed(swapTx')
            BY <2>1 DEF Swap!Reviewed
        <3> QED
            BY <3>1, SwapReviewed
    <2>2. CASE swapTx' = swapTx /\ UNCHANGED Swap!review
        BY <2>2 DEF SwapInv, SwapBox, Swap!TypeOK, Swap!review
    <2> QED
        BY <2>1, <2>2
<1> HIDE DEF Swap!HandleSelectFromToken, Swap!HandleSelectToToken,
           Swap!SetAmount, Swap!Reselect, Swap!OnSwapTokens, Swap!Back,
           Swap!HandleReset, Swap!TryAgain, Swap!Entering, Swap!Moves
<1>7. Swap!TypeOK'
    BY <1>1, <1>2, <1>4, <1>5, <1>6 DEF SwapInv, Swap!TypeOK, Swap!Step
<1>8. GoneIsLeft' /\ Swap!BusyHasCall'
    BY <1>1, <1>2 DEF SwapInv, GoneIsLeft, Swap!BusyHasCall
<1>9. FormIsBuilt'
    BY <1>1, <1>2, <1>3 DEF SwapInv, FormIsBuilt, Paying
<1>10. OneIsAwaited'
    BY <1>1 DEF OneIsAwaited, Awaited
<1>11. SwapsAreOwn'
    BY <1>1, <1>2 DEF SwapInv, SwapsAreOwn
<1>12. \A c \in swapCalls' : CallOk(c)
    BY <1>1 DEF SwapInv
<1> QED
    BY <1>2, <1>6, <1>7, <1>8, <1>9, <1>10, <1>11, <1>12 DEF SwapInv

\* The check of the transaction returns, the box is ticked.
LEMMA SwapReviews ==
    ASSUME SwapInv, Swap!CheckReturns \/ Swap!Tick
    PROVE  SwapInv' /\ swapStep' = swapStep
<1>1. UNCHANGED <<swapStep, swapForm, swapQuote, swapTx, swapApproval, swapLoading, swapCalls,
                  swapAllowed, swapCrossed>>
    BY DEF Swap!CheckReturns, Swap!Tick, Swap!page
<1>2. SwapBox' /\ {swapWarned, swapAck}' \subseteq BOOLEAN /\ swapConsent' \in Swap!Deal \cup {None}
    <2>1. CASE Swap!CheckReturns
        <3>1. swapWarned' \in BOOLEAN /\ UNCHANGED <<swapAck, swapConsent, swapTx>>
            BY <2>1 DEF Swap!CheckReturns, Swap!page
        <3> QED
            BY <3>1 DEF SwapInv, SwapBox, Swap!TypeOK
    <2>2. CASE Swap!Tick
        BY <2>2 DEF SwapInv, SwapBox, Swap!TypeOK, Swap!Tick, Swap!page
    <2> QED
        BY <2>1, <2>2
<1>3. Swap!TypeOK'
    BY <1>1, <1>2 DEF SwapInv, Swap!TypeOK
<1> QED
    BY <1>1, <1>2, <1>3 DEF SwapInv, CallOk, GoneIsLeft, FormIsBuilt, OneIsAwaited, Awaited,
                            CallIsShown, SwapsAreOwn, Swap!BusyHasCall

-----------------------------------------------------------------------------
\* What a handler asks for is a whole call, with the box of its transaction.
LEMMA NowOk ==
    ASSUME SwapInv, NEW k \in {"quote", "build", "fetch", "approve", "swap"}, NEW f \in Swap!Form,
           k \in {"quote", "build", "swap"} => f \in Swap!Deal,
           k \in {"fetch", "approve"} =>
               f.from \in Asset /\ f = [Swap!Blank EXCEPT !.from = f.from],
           k = "swap" => f = swapTx
    PROVE  LET m == Swap!Now(k, f)
           IN  CallOk(m) /\ m.own /\ m.host /\ m.kind = k /\ m.deal = f
               /\ (k = "swap" => m.shown = swapForm)
<1> DEFINE signs == k = "swap"
           m == Swap!Now(k, f)
<1>1. m = [kind |-> k, deal |-> f, shown |-> IF signs THEN swapForm ELSE Swap!Blank,
           signed |-> FALSE, ack |-> signs /\ swapAck,
           consent |-> IF signs THEN swapConsent ELSE None, own |-> TRUE, host |-> TRUE]
    BY DEF Swap!Now
<1>2. /\ swapForm \in Swap!Form /\ Swap!Blank \in Swap!Form
      /\ swapConsent \in Swap!Deal \cup {None} /\ (signs /\ swapAck) \in BOOLEAN
    BY FormFacts DEF SwapInv, Swap!TypeOK
<1>3. swapAck => swapConsent = swapTx
    BY DEF SwapInv, SwapBox
<1> HIDE DEF m
<1>4. m \in Swap!Call
    BY <1>1, <1>2 DEF Swap!Call
<1>5. CallOk(m)
    BY <1>1, <1>3, <1>4 DEF CallOk
<1> QED
    BY <1>1, <1>5 DEF m

\* The same build or calldata asked for again is the same call.
LEMMA EqualCalls ==
    ASSUME NEW c, CallOk(c), c.own, c.kind \in {"build", "fetch"}
    PROVE  c = Swap!Now(c.kind, c.deal)
BY DEF CallOk, Swap!Call, Swap!Now

\* A call that sets no step.
LEMMA SwapQuotes ==
    ASSUME SwapInv, Swap!FetchQuote
    PROVE  SwapInv' /\ swapStep' = swapStep
<1> DEFINE m == Swap!Now("quote", swapForm)
<1>1. /\ swapStep = "input" /\ swapForm \in Swap!Deal
      /\ swapCalls' = swapCalls \cup {m} /\ swapLoading' = TRUE
      /\ UNCHANGED <<swapStep, swapForm, swapQuote, swapTx, swapApproval, swapWarned, swapAck,
                     swapConsent, swapAllowed, swapCrossed>>
    BY DEF Swap!FetchQuote, Swap!Ask, Swap!page, Swap!review
<1>2. CallOk(m) /\ m.own /\ m.kind = "quote"
    BY <1>1, NowOk, FormFacts
<1> HIDE DEF m
<1>3. \A c \in swapCalls' : CallOk(c)
    BY <1>1, <1>2 DEF SwapInv
<1>4. Swap!TypeOK'
    BY <1>1, <1>3 DEF SwapInv, Swap!TypeOK, CallOk
<1>5. GoneIsLeft' /\ SwapBox' /\ FormIsBuilt'
    BY <1>1, <1>2 DEF SwapInv, SwapBox, GoneIsLeft, FormIsBuilt
<1>6. OneIsAwaited' /\ SwapsAreOwn' /\ Swap!BusyHasCall'
    BY <1>1, <1>2 DEF SwapInv, OneIsAwaited, Awaited, CallIsShown, SwapsAreOwn, Swap!BusyHasCall
<1> QED
    BY <1>1, <1>3, <1>4, <1>5, <1>6 DEF SwapInv

\* A call for a transaction or an approval's calldata, asked for twice or once.
LEMMA SwapBuilds ==
    ASSUME SwapInv, Swap!HandleBuildSwapTx \/ Swap!HandleApprove
    PROVE  SwapInv' /\ swapStep' = swapStep
<1>1. PICK k \in {"build", "fetch"}, f \in Swap!Form :
        /\ swapCalls' = swapCalls \cup {Swap!Now(k, f)} /\ swapLoading' = TRUE
        /\ k = "build" => swapStep = "input" /\ f = swapForm /\ f \in Swap!Deal
        /\ k = "fetch" => /\ swapStep = "approve" /\ f.from = swapForm.from /\ f.from \in Asset
                          /\ f = [Swap!Blank EXCEPT !.from = f.from]
        /\ UNCHANGED <<swapStep, swapForm, swapQuote, swapTx, swapApproval, swapWarned, swapAck,
                       swapConsent, swapAllowed, swapCrossed>>
    <2>1. CASE Swap!HandleBuildSwapTx
        <3>1. /\ swapCalls' = swapCalls \cup {Swap!Now("build", swapForm)} /\ swapLoading' = TRUE
              /\ swapStep = "input" /\ swapForm \in Swap!Deal
              /\ UNCHANGED <<swapStep, swapForm, swapQuote, swapTx, swapApproval, swapWarned,
                             swapAck, swapConsent, swapAllowed, swapCrossed>>
            BY <2>1 DEF Swap!HandleBuildSwapTx, Swap!Entering, Swap!Ask, Swap!page, Swap!review
        <3>2. swapForm \in Swap!Form
            BY DEF SwapInv, Swap!TypeOK
        <3> QED
            BY <3>1, <3>2
    <2>2. CASE Swap!HandleApprove
        <3>1. swapForm.from \in Asset
            BY <2>2, FormFacts DEF SwapInv, Swap!TypeOK, Swap!HandleApprove
        <3> DEFINE f == [Swap!Blank EXCEPT !.from = swapForm.from]
        <3>2. f \in Swap!Form /\ f.from = swapForm.from
            BY <3>1, FormFacts
        <3>3. /\ swapCalls' = swapCalls \cup {Swap!Now("fetch", f)} /\ swapLoading' = TRUE
              /\ swapStep = "approve"
              /\ UNCHANGED <<swapStep, swapForm, swapQuote, swapTx, swapApproval, swapWarned,
                             swapAck, swapConsent, swapAllowed, swapCrossed>>
            BY <2>2 DEF Swap!HandleApprove, Swap!Ask, Swap!page, Swap!review
        <3>4. f = [Swap!Blank EXCEPT !.from = f.from]
            BY <3>2
        <3> HIDE DEF f
        <3> QED
            BY <3>1, <3>2, <3>3, <3>4
    <2> QED
        BY <2>1, <2>2
<1> DEFINE m == Swap!Now(k, f)
<1>2. CallOk(m) /\ m.own /\ m.kind = k /\ m.deal = f
    BY <1>1, NowOk
<1>3. \A c \in swapCalls : ~swapCrossed /\ Awaited(c) => c = m
    <2> SUFFICES ASSUME NEW c \in swapCalls, ~swapCrossed, Awaited(c) PROVE c = m
        OBVIOUS
    <2>1. CallOk(c) /\ CallIsShown(c) /\ c.own
        BY DEF SwapInv, OneIsAwaited, Awaited
    <2>2. c.kind \in {"build", "fetch", "approve", "swap"}
        BY <2>1 DEF CallOk, Swap!Call, Awaited
    <2>3. c.kind = k
        BY <1>1, <2>1, <2>2 DEF CallIsShown
    <2>4. c.deal = f
        BY <1>1, <2>1, <2>3 DEF CallIsShown, CallOk
    <2> QED
        BY <2>1, <2>3, <2>4, EqualCalls
<1>4. swapCalls' = swapCalls \cup {m}
    BY <1>1
<1> HIDE DEF m
<1>5. \A c \in swapCalls' : CallOk(c)
    BY <1>2, <1>4 DEF SwapInv
<1>6. Swap!TypeOK'
    BY <1>1, <1>5 DEF SwapInv, Swap!TypeOK, CallOk
<1>7. GoneIsLeft' /\ SwapBox' /\ FormIsBuilt'
    BY <1>1, <1>2, <1>4 DEF SwapInv, SwapBox, GoneIsLeft, FormIsBuilt
<1>8. SwapsAreOwn' /\ Swap!BusyHasCall'
    BY <1>1, <1>2, <1>4 DEF SwapInv, SwapsAreOwn, Swap!BusyHasCall
<1>9. OneIsAwaited'
    BY <1>1, <1>2, <1>3, <1>4 DEF SwapInv, OneIsAwaited, Awaited, CallIsShown
<1> QED
    BY <1>1, <1>5, <1>6, <1>7, <1>8, <1>9 DEF SwapInv

\* A confirmation: for a user who waited, of the form and as the only call.
LEMMA SwapConfirms ==
    ASSUME SwapInv, Swap!HandleExecuteApproval \/ Swap!HandleSignAndBroadcast
    PROVE  SwapInv' /\ swapStep # "closed" /\ swapStep' # "closed"
<1>1. PICK k \in {"approve", "swap"}, f \in Swap!Form :
        /\ swapCalls' = swapCalls \cup {Swap!Now(k, f)} /\ swapLoading' = TRUE
        /\ k = "approve" => /\ swapStep = "approvalPassword" /\ swapStep' = "approving"
                            /\ f.from = swapApproval /\ f.from \in Asset
                            /\ f = [Swap!Blank EXCEPT !.from = f.from]
        /\ k = "swap" => /\ swapStep = "password" /\ swapStep' = "signing"
                         /\ f = swapTx /\ f \in Swap!Deal
        /\ UNCHANGED <<swapForm, swapQuote, swapTx, swapApproval, swapWarned, swapAck,
                       swapConsent, swapAllowed, swapCrossed>>
    <2>1. CASE Swap!HandleSignAndBroadcast
        <3>1. swapTx \in Swap!Deal /\ swapTx \in Swap!Form
            BY <2>1, FormFacts DEF SwapInv, Swap!TypeOK, Swap!HandleSignAndBroadcast
        <3> QED
            BY <2>1, <3>1 DEF Swap!HandleSignAndBroadcast, Swap!Ask, Swap!review
    <2>2. CASE Swap!HandleExecuteApproval
        <3>1. swapApproval \in Asset
            BY <2>2 DEF SwapInv, Swap!TypeOK, Swap!HandleExecuteApproval
        <3> DEFINE f == [Swap!Blank EXCEPT !.from = swapApproval]
        <3>2. f \in Swap!Form /\ f.from = swapApproval
            BY <3>1, FormFacts
        <3>3. /\ swapCalls' = swapCalls \cup {Swap!Now("approve", f)} /\ swapLoading' = TRUE
              /\ swapStep = "approvalPassword" /\ swapStep' = "approving"
              /\ UNCHANGED <<swapForm, swapQuote, swapTx, swapApproval, swapWarned,
                             swapAck, swapConsent, swapAllowed, swapCrossed>>
            BY <2>2 DEF Swap!HandleExecuteApproval, Swap!Ask, Swap!review
        <3>4. f = [Swap!Blank EXCEPT !.from = f.from]
            BY <3>2
        <3> HIDE DEF f
        <3> QED
            BY <3>1, <3>2, <3>3, <3>4
    <2> QED
        BY <2>1, <2>2
<1> DEFINE m == Swap!Now(k, f)
<1>2. CallOk(m) /\ m.own /\ m.kind = k /\ m.deal = f /\ (k = "swap" => m.shown = swapForm)
    BY <1>1, NowOk
<1>3. \A c \in swapCalls : ~swapCrossed => ~Awaited(c)
    <2> SUFFICES ASSUME NEW c \in swapCalls, ~swapCrossed, Awaited(c) PROVE FALSE
        OBVIOUS
    <2>1. CallOk(c) /\ CallIsShown(c)
        BY DEF SwapInv, OneIsAwaited
    <2>2. c.kind \in {"build", "fetch", "approve", "swap"}
        BY <2>1 DEF CallOk, Swap!Call, Awaited
    <2> QED
        BY <1>1, <2>1, <2>2 DEF CallIsShown
<1>4. swapCalls' = swapCalls \cup {m}
    BY <1>1
<1> HIDE DEF m
<1>5. \A c \in swapCalls' : CallOk(c)
    BY <1>2, <1>4 DEF SwapInv
<1>6. Swap!TypeOK'
    BY <1>1, <1>5 DEF SwapInv, Swap!TypeOK, CallOk, Swap!Step
<1>7. GoneIsLeft' /\ SwapBox'
    BY <1>1, <1>2, <1>4 DEF SwapInv, SwapBox, GoneIsLeft
<1>8. FormIsBuilt'
    BY <1>1 DEF SwapInv, FormIsBuilt, Paying
<1>9. SwapsAreOwn' /\ Swap!BusyHasCall'
    BY <1>1, <1>2, <1>4 DEF SwapInv, SwapsAreOwn, Swap!BusyHasCall
<1>10. \A c : c = m /\ ~swapCrossed => CallIsShown(c)'
    BY <1>1, <1>2 DEF SwapInv, FormIsBuilt, Paying, CallIsShown
<1>11. OneIsAwaited'
    BY <1>1, <1>3, <1>4, <1>10 DEF OneIsAwaited, Awaited
<1> QED
    BY <1>1, <1>5, <1>6, <1>7, <1>8, <1>9, <1>11 DEF SwapInv

-----------------------------------------------------------------------------
\* When the awaited call ends, a user who waited for it waits for no other.
LEMMA AwaitedEnds ==
    ASSUME SwapInv, NEW c \in swapCalls, Awaited(c), swapCalls' = swapCalls \ {c},
           swapCrossed' = swapCrossed
    PROVE  /\ swapStep # "closed"
           /\ ~swapCrossed => CallIsShown(c)
           /\ OneIsAwaited'
           /\ \A d \in swapCalls' : CallOk(d)
           /\ \A d \in swapCalls' : d.own \/ d.kind \in {"approve", "swap"}
<1>1. swapStep # "closed"
    BY DEF SwapInv, GoneIsLeft, Awaited
<1>2. OneIsAwaited' /\ (~swapCrossed => CallIsShown(c))
    BY DEF SwapInv, OneIsAwaited, Awaited
<1> QED
    BY <1>1, <1>2 DEF SwapInv, GoneIsLeft

\* A quote comes, for whatever form it was asked.
LEMMA QuoteComes ==
    ASSUME SwapInv, NEW c \in swapCalls, Swap!QuoteReturns(c)
    PROVE  SwapInv' /\ swapStep' = swapStep
<1>1. /\ c.kind = "quote" /\ swapQuote' \in {None, c.deal} /\ swapCalls' = swapCalls \ {c}
      /\ swapLoading' = FALSE
      /\ UNCHANGED <<swapStep, swapForm, swapTx, swapApproval, swapWarned, swapAck, swapConsent,
                     swapAllowed, swapCrossed>>
    BY DEF Swap!QuoteReturns, Swap!Answered, Swap!review
<1>2. c.deal \in Swap!Deal
    BY <1>1 DEF SwapInv, CallOk
<1>3. Swap!TypeOK'
    BY <1>1, <1>2 DEF SwapInv, Swap!TypeOK
<1>4. SwapBox' /\ GoneIsLeft' /\ FormIsBuilt'
    BY <1>1 DEF SwapInv, SwapBox, GoneIsLeft, FormIsBuilt
<1>5. OneIsAwaited' /\ SwapsAreOwn' /\ Swap!BusyHasCall'
    BY <1>1 DEF SwapInv, OneIsAwaited, Awaited, CallIsShown, SwapsAreOwn, Swap!BusyHasCall
<1> QED
    BY <1>1, <1>3, <1>4, <1>5 DEF SwapInv

\* The transaction comes, and with it the approval or the password.
LEMMA BuildComes ==
    ASSUME SwapInv, NEW c \in swapCalls, Swap!BuildReturns(c)
    PROVE  SwapInv' /\ swapStep # "closed" /\ swapStep' # "closed"
<1>1. /\ c.kind = "build" /\ swapTx' = c.deal /\ swapCalls' = swapCalls \ {c}
      /\ swapStep' \in {"approve", "password"} /\ swapLoading' = FALSE
      /\ swapStep' = "password" => c.deal.from \in swapAllowed
      /\ UNCHANGED <<swapForm, swapQuote, swapApproval, swapAllowed, swapCrossed>>
    BY DEF Swap!BuildReturns, Swap!Answered
<1>2. Awaited(c) /\ c.deal \in Swap!Deal
    BY <1>1 DEF SwapInv, CallOk, GoneIsLeft, Awaited
<1>3. SwapBox' /\ {swapWarned, swapAck}' \subseteq BOOLEAN /\ swapConsent' \in Swap!Deal \cup {None}
    <2>1. Swap!Reviewed(swapTx')
        BY <1>1 DEF Swap!BuildReturns
    <2> QED
        BY <2>1, SwapReviewed
<1>4. /\ swapStep # "closed" /\ OneIsAwaited' /\ (~swapCrossed => CallIsShown(c))
      /\ \A d \in swapCalls' : CallOk(d)
      /\ \A d \in swapCalls' : d.own \/ d.kind \in {"approve", "swap"}
    BY <1>1, <1>2, AwaitedEnds
<1>5. Swap!TypeOK'
    BY <1>1, <1>2, <1>3 DEF SwapInv, Swap!TypeOK, Swap!Step
<1>6. GoneIsLeft' /\ Swap!BusyHasCall'
    BY <1>1, <1>4 DEF GoneIsLeft, Swap!BusyHasCall
<1>7. FormIsBuilt'
    BY <1>1, <1>4 DEF FormIsBuilt, Paying, CallIsShown
<1>8. SwapsAreOwn'
    BY <1>1, <1>4 DEF SwapInv, SwapsAreOwn
<1> QED
    BY <1>1, <1>3, <1>4, <1>5, <1>6, <1>7, <1>8 DEF SwapInv

\* The calldata of the approval comes, or a call fails.
LEMMA FetchComes ==
    ASSUME SwapInv, NEW c \in swapCalls, Swap!FetchReturns(c) \/ Swap!CallFails(c)
    PROVE  SwapInv' /\ swapStep # "closed" /\ swapStep' # "closed"
<1>1. /\ c.kind \in {"build", "fetch"} /\ swapCalls' = swapCalls \ {c} /\ swapLoading' = FALSE
      /\ UNCHANGED <<swapForm, swapQuote, swapTx, swapWarned, swapAck, swapConsent, swapAllowed,
                     swapCrossed>>
      /\ \/ swapStep' = swapStep /\ swapApproval' = swapApproval
         \/ c.kind = "fetch" /\ swapStep' = "approvalPassword" /\ swapApproval' = c.deal.from
    BY DEF Swap!FetchReturns, Swap!CallFails, Swap!Answered, Swap!page, Swap!review
<1>2. Awaited(c) /\ (c.kind = "fetch" => c.deal.from \in Asset)
    BY <1>1 DEF SwapInv, CallOk, GoneIsLeft, Awaited
<1>3. /\ swapStep # "closed" /\ OneIsAwaited' /\ (~swapCrossed => CallIsShown(c))
      /\ \A d \in swapCalls' : CallOk(d)
      /\ \A d \in swapCalls' : d.own \/ d.kind \in {"approve", "swap"}
    BY <1>1, <1>2, AwaitedEnds
<1>4. Swap!TypeOK'
    BY <1>1, <1>2 DEF SwapInv, Swap!TypeOK, Swap!Step
<1>5. GoneIsLeft' /\ SwapBox' /\ Swap!BusyHasCall'
    BY <1>1, <1>3 DEF SwapInv, GoneIsLeft, SwapBox, Swap!BusyHasCall
<1>6. FormIsBuilt'
    BY <1>1, <1>3 DEF SwapInv, FormIsBuilt, Paying, CallIsShown
<1>7. SwapsAreOwn'
    BY <1>1, <1>3 DEF SwapInv, SwapsAreOwn
<1> QED
    BY <1>1, <1>3, <1>4, <1>5, <1>6, <1>7 DEF SwapInv

-----------------------------------------------------------------------------
\* A call of a page that is gone ends: nothing here turns for it.
LEMMA LeftEnds ==
    ASSUME SwapInv, NEW c \in swapCalls, ~c.own, swapCalls' = swapCalls \ {c},
           UNCHANGED <<swapStep, swapForm, swapQuote, swapTx, swapApproval, swapWarned, swapAck,
                       swapConsent, swapLoading, swapCrossed>>,
           Coin \subseteq swapAllowed', swapAllowed' \subseteq Asset,
           swapAllowed \subseteq swapAllowed' \/ c.kind = "swap"
    PROVE  SwapInv' /\ swapStep' = swapStep
<1>1. Swap!TypeOK'
    BY DEF SwapInv, Swap!TypeOK
<1>2. SwapBox' /\ GoneIsLeft' /\ SwapsAreOwn' /\ Swap!BusyHasCall'
    BY DEF SwapInv, SwapBox, GoneIsLeft, SwapsAreOwn, Swap!BusyHasCall
<1>3. FormIsBuilt'
    BY DEF SwapInv, FormIsBuilt, Paying, SwapsAreOwn
<1>4. OneIsAwaited'
    BY DEF SwapInv, OneIsAwaited, Awaited, CallIsShown
<1> QED
    BY <1>1, <1>2, <1>3, <1>4 DEF SwapInv

\* An approval ends, mined or not.
LEMMA ApprovalEnds ==
    ASSUME SwapInv, NEW c \in swapCalls, Swap!ApprovalConfirmed(c) \/ Swap!ApprovalFails(c)
    PROVE  SwapInv' /\ (swapStep = "closed" <=> swapStep' = "closed")
<1>1. /\ c.kind = "approve" /\ swapCalls' = swapCalls \ {c}
      /\ UNCHANGED <<swapForm, swapQuote, swapTx, swapWarned, swapAck, swapConsent, swapCrossed>>
      /\ swapAllowed' \in {swapAllowed, swapAllowed \cup {c.deal.from}}
    BY DEF Swap!ApprovalConfirmed, Swap!ApprovalFails, Swap!Answered, Swap!review
<1>2. c.deal.from \in Asset /\ Coin \subseteq swapAllowed' /\ swapAllowed' \subseteq Asset
      /\ swapAllowed \subseteq swapAllowed'
    <2>1. c.deal.from \in Asset
        BY <1>1 DEF SwapInv, CallOk
    <2> QED
        BY <1>1, <2>1 DEF SwapInv, Swap!TypeOK
<1>3. CASE ~c.own
    <2>1. UNCHANGED <<swapStep, swapApproval, swapLoading>>
        BY <1>3 DEF Swap!ApprovalConfirmed, Swap!ApprovalFails
    <2> QED
        BY <1>1, <1>2, <1>3, <2>1, LeftEnds
<1>4. CASE c.own
    <2>1. /\ swapLoading' = FALSE
          /\ \/ swapStep' = "password" /\ swapApproval' = None /\ c.deal.from \in swapAllowed'
             \/ swapStep' = "approve" /\ swapApproval' = swapApproval
        BY <1>4 DEF Swap!ApprovalConfirmed, Swap!ApprovalFails, Swap!Answered
    <2>2. Awaited(c)
        BY <1>1, <1>4 DEF Awaited
    <2>3. /\ swapStep # "closed" /\ OneIsAwaited' /\ (~swapCrossed => CallIsShown(c))
          /\ \A d \in swapCalls' : CallOk(d)
          /\ \A d \in swapCalls' : d.own \/ d.kind \in {"approve", "swap"}
        BY <1>1, <2>2, AwaitedEnds
    <2>4. Swap!TypeOK'
        BY <1>1, <1>2, <2>1 DEF SwapInv, Swap!TypeOK, Swap!Step
    <2>5. GoneIsLeft' /\ SwapBox' /\ Swap!BusyHasCall'
        BY <1>1, <2>1, <2>3 DEF SwapInv, GoneIsLeft, SwapBox, Swap!BusyHasCall
    <2>6. FormIsBuilt'
        BY <1>1, <2>1, <2>3 DEF SwapInv, FormIsBuilt, Paying, CallIsShown
    <2>7. SwapsAreOwn'
        BY <1>1, <2>3 DEF SwapInv, SwapsAreOwn
    <2> QED
        BY <2>1, <2>3, <2>4, <2>5, <2>6, <2>7 DEF SwapInv
<1> QED
    BY <1>3, <1>4

\* The gate lets a swap through, with the acknowledgement it came with.
LEMMA SwapSigned ==
    ASSUME SwapInv, NEW c \in swapCalls, Swap!BackendSigns(c)
    PROVE  SwapInv' /\ (swapStep = "closed" <=> swapStep' = "closed")
<1> DEFINE m == [c EXCEPT !.signed = TRUE]
<1>1. /\ c.kind = "swap" /\ (c.deal.from \in Flagged => c.ack)
      /\ swapCalls' = (swapCalls \ {c}) \cup {m}
      /\ swapStep' = IF c.own THEN "broadcasting" ELSE swapStep
      /\ UNCHANGED <<swapForm, swapQuote, swapTx, swapApproval, swapWarned, swapAck, swapConsent,
                     swapLoading, swapAllowed, swapCrossed>>
    BY DEF Swap!BackendSigns, Swap!review
<1>2. CallOk(m) /\ m.own = c.own /\ m.kind = "swap" /\ m.deal = c.deal /\ m.shown = c.shown
    BY <1>1, GateKeeps DEF SwapInv
<1> HIDE DEF m
<1>3. \A d \in swapCalls' : CallOk(d)
    BY <1>1, <1>2 DEF SwapInv
<1>4. Swap!TypeOK'
    BY <1>1, <1>3 DEF SwapInv, Swap!TypeOK, Swap!Step, CallOk
<1>5. SwapBox' /\ GoneIsLeft' /\ SwapsAreOwn' /\ (swapStep = "closed" <=> swapStep' = "closed")
    BY <1>1, <1>2 DEF SwapInv, SwapBox, GoneIsLeft, SwapsAreOwn
<1>6. Swap!BusyHasCall'
    BY <1>1, <1>2 DEF SwapInv, Swap!BusyHasCall
<1>7. c.own /\ ~swapCrossed => CallIsShown(c) /\ swapStep \in {"signing", "broadcasting"}
    BY <1>1 DEF SwapInv, OneIsAwaited, Awaited, CallIsShown
<1>8. FormIsBuilt'
    BY <1>1, <1>7 DEF SwapInv, FormIsBuilt, Paying
<1>9. OneIsAwaited'
    <2> SUFFICES ASSUME ~swapCrossed' PROVE OneIsAwaited'
        BY DEF OneIsAwaited
    <2>1. ASSUME NEW d \in swapCalls', Awaited(d) PROVE CallIsShown(d)'
        <3>1. CASE d = m
            BY <1>1, <1>2, <1>7, <2>1, <3>1 DEF Awaited, CallIsShown
        <3>2. CASE d # m
            BY <1>1, <2>1, <3>2 DEF SwapInv, OneIsAwaited, Awaited, CallIsShown
        <3> QED
            BY <3>1, <3>2
    <2>2. \A d, e \in swapCalls' : Awaited(d) /\ Awaited(e) => d = e
        BY <1>1, <1>2 DEF SwapInv, OneIsAwaited, Awaited
    <2> QED
        BY <2>1, <2>2 DEF OneIsAwaited
<1> QED
    BY <1>3, <1>4, <1>5, <1>6, <1>8, <1>9 DEF SwapInv

\* A swap ends: success closes the page of the wallet that made it.
LEMMA SwapEnds ==
    ASSUME SwapInv, NEW c \in swapCalls, Swap!SwapSucceeds(c) \/ Swap!SwapFails(c)
    PROVE  SwapInv' /\ (swapStep = "closed" => swapStep' = "closed")
<1>1. c.kind = "swap" /\ c.deal \in Swap!Deal /\ (c.own => c.host /\ swapStep # "closed")
    BY DEF SwapInv, CallOk, GoneIsLeft, Swap!SwapSucceeds, Swap!SwapFails
<1>2. CASE Swap!SwapSucceeds(c)
    <2>1. Coin \subseteq swapAllowed' /\ swapAllowed' \subseteq Asset
        BY <1>2 DEF SwapInv, Swap!TypeOK, Swap!SwapSucceeds
    <2>2. CASE swapStep # "closed" /\ c.host
        <3>1. Swap!Unmounted(swapCalls \ {c}, TRUE)
            BY <1>2, <2>2 DEF Swap!SwapSucceeds
        <3> QED
            BY <2>1, <3>1, SwapUnmounted
    <2>3. CASE ~(swapStep # "closed" /\ c.host)
        <3>1. swapCalls' = swapCalls \ {c} /\ ~c.own
              /\ UNCHANGED <<swapStep, swapForm, swapQuote, swapTx, swapApproval, swapWarned,
                             swapAck, swapConsent, swapLoading, swapCrossed>>
            BY <1>1, <1>2, <2>3 DEF Swap!SwapSucceeds, Swap!page, Swap!review
        <3> QED
            BY <1>1, <2>1, <3>1, LeftEnds
    <2> QED
        BY <2>2, <2>3
<1>3. CASE Swap!SwapFails(c) /\ ~c.own
    <2>1. swapCalls' = swapCalls \ {c} /\ swapAllowed' = swapAllowed
          /\ UNCHANGED <<swapStep, swapForm, swapQuote, swapTx, swapApproval, swapWarned,
                         swapAck, swapConsent, swapLoading, swapCrossed>>
        BY <1>3 DEF Swap!SwapFails, Swap!review
    <2>2. Coin \subseteq swapAllowed' /\ swapAllowed' \subseteq Asset
        BY <2>1 DEF SwapInv, Swap!TypeOK
    <2> QED
        BY <1>3, <2>1, <2>2, LeftEnds
<1>4. CASE Swap!SwapFails(c) /\ c.own
    <2>1. /\ swapCalls' = swapCalls \ {c} /\ swapStep' = "error" /\ swapLoading' = FALSE
          /\ UNCHANGED <<swapForm, swapQuote, swapTx, swapApproval, swapWarned, swapAck,
                         swapConsent, swapAllowed, swapCrossed>>
        BY <1>4 DEF Swap!SwapFails, Swap!Answered, Swap!review
    <2>2. Awaited(c)
        BY <1>1, <1>4 DEF Awaited
    <2>3. /\ swapStep # "closed" /\ OneIsAwaited'
          /\ \A d \in swapCalls' : CallOk(d)
          /\ \A d \in swapCalls' : d.own \/ d.kind \in {"approve", "swap"}
        BY <2>1, <2>2, AwaitedEnds
    <2>4. Swap!TypeOK'
        BY <2>1 DEF SwapInv, Swap!TypeOK, Swap!Step
    <2>5. GoneIsLeft' /\ SwapBox' /\ Swap!BusyHasCall' /\ FormIsBuilt'
        BY <2>1, <2>3 DEF SwapInv, GoneIsLeft, SwapBox, Swap!BusyHasCall, FormIsBuilt, Paying
    <2>6. SwapsAreOwn'
        BY <2>1, <2>3 DEF SwapInv, SwapsAreOwn
    <2> QED
        BY <2>3, <2>4, <2>5, <2>6 DEF SwapInv
<1> QED
    BY <1>2, <1>3, <1>4

LEMMA SwapSteps ==
    ASSUME SwapInv, Swap!Steps
    PROVE  SwapInv' /\ (swapStep = "closed" => swapStep' = "closed")
<1>1. CASE \E c \in swapCalls : Swap!Returns(c)
    <2>1. PICK c \in swapCalls : Swap!Returns(c)
        BY <1>1
    <2> QED
        BY <2>1, QuoteComes, BuildComes, FetchComes, ApprovalEnds, SwapSigned, SwapEnds
           DEF Swap!Returns
<1>2. CASE Swap!FetchQuote \/ Swap!HandleBuildSwapTx \/ Swap!HandleApprove
    BY <1>2, SwapQuotes, SwapBuilds
<1>3. CASE Swap!HandleExecuteApproval \/ Swap!HandleSignAndBroadcast
    BY <1>3, SwapConfirms
<1>4. CASE Swap!CheckReturns \/ Swap!Tick
    BY <1>4, SwapReviews
<1>5. CASE \/ \E a \in Asset : Swap!HandleSelectFromToken(a) \/ Swap!HandleSelectToToken(a)
           \/ \E n \in Amount \cup {None} : Swap!SetAmount(n)
           \/ \E s \in Swap!Step : Swap!Reselect(s)
           \/ Swap!OnSwapTokens \/ Swap!Back \/ Swap!HandleReset \/ Swap!TryAgain
    BY <1>5, SwapForms
<1> QED
    BY <1>1, <1>2, <1>3, <1>4, <1>5 DEF Swap!Steps

\* The page is left, by itself or with what is around it.
LEMMA SwapGoes ==
    ASSUME SwapInv, Swap!Close \/ Swap!Unmount(TRUE) \/ Swap!Unmount(FALSE)
    PROVE  SwapInv' /\ swapStep' = "closed"
<1>1. Coin \subseteq swapAllowed' /\ swapAllowed' \subseteq Asset
    BY DEF SwapInv, Swap!TypeOK, Swap!Close, Swap!Unmount
<1>2. PICK host \in BOOLEAN : Swap!Unmounted(swapCalls, host)
    BY DEF Swap!Close, Swap!Unmount
<1> QED
    BY <1>1, <1>2, SwapUnmounted

-----------------------------------------------------------------------------
(***************************************************************************)
(* The staking page.                                                       *)
(***************************************************************************)
\* A deposit in progress has the consent it was confirmed with, and an amount
\* that was valid if the form was left alone.
StakeOk(k) ==
    /\ k \in Staking!Stake
    /\ k.ack => k.consent = k.option
    /\ k.signed /\ k.option \in Listed => k.ack
    /\ ~k.crossed => k.amount \in Enough[k.option]

\* The box belongs to the option whose review asked for it.
StakeBox ==
    /\ stakeWarned => stakeOption # None /\ stakeAmount # None
    /\ stakeAck => stakeOption # None /\ stakeAmount # None /\ stakeConsent = stakeOption

\* A page that is closed waits for nothing.
StakeClosed == stakeStep = "closed" => ~stakeEstimate /\ \A k \in stakes : ~k.own

\* What is estimated or reviewed is valid unless the form was changed meanwhile.
Estimated ==
    ~stakeCrossed /\ (stakeEstimate \/ stakeStep \in {"review", "password"}) => Staking!Valid

StakingInv ==
    /\ Staking!TypeOK
    /\ \A k \in stakes : StakeOk(k)
    /\ StakeBox /\ StakeClosed /\ Estimated

StakingPromise == Staking!ListedIsConsented /\ Staking!StakeIsEnough

LEMMA StakingSafe == StakingInv => StakingPromise
BY DEF StakingInv, StakingPromise, StakeOk, Staking!ListedIsConsented, Staking!StakeIsEnough

\* The answer of the gate, and the page that goes, change one field of it.
LEMMA StakeKeeps ==
    ASSUME NEW k, StakeOk(k)
    PROVE  /\ LET m == [k EXCEPT !.own = FALSE] IN StakeOk(m) /\ ~m.own
           /\ (k.option \in Listed => k.ack) =>
                LET m == [k EXCEPT !.signed = TRUE] IN StakeOk(m) /\ m.own = k.own
BY DEF StakeOk, Staking!Stake

\* The review's hook: a box that stays ticked stays with its option.
LEMMA StakeReviewed ==
    ASSUME StakingInv, stakeOption' \in Option \cup {None}, stakeAmount' \in Amount \cup {None},
           Staking!Reviewed(stakeOption', stakeAmount')
    PROVE  StakeBox' /\ {stakeWarned, stakeAck}' \subseteq BOOLEAN
           /\ stakeConsent' \in Option \cup {None}
BY DEF StakingInv, StakeBox, Staking!TypeOK, Staking!Reviewed

LEMMA StakingFresh ==
    ASSUME StakingInv, NEW s \in {"closed", "selectOption"}, Staking!Fresh(s)
    PROVE  StakingInv' /\ stakeStep' = s
<1>1. stakeStep' = s /\ stakeOption' = None /\ stakeAmount' = None /\ stakeEstimate' = FALSE
      /\ stakeLoading' = FALSE /\ stakeCrossed' = FALSE
      /\ stakes' = {[k EXCEPT !.own = FALSE] : k \in stakes}
    BY DEF Staking!Fresh
<1>2. StakeBox' /\ {stakeWarned, stakeAck}' \subseteq BOOLEAN
      /\ stakeConsent' \in Option \cup {None}
    <2>1. Staking!Reviewed(stakeOption', stakeAmount')
        BY <1>1 DEF Staking!Fresh, Staking!Reviewed
    <2> QED
        BY <1>1, <2>1, StakeReviewed
<1>3. \A m \in stakes' : StakeOk(m) /\ ~m.own
    <2> SUFFICES ASSUME NEW m \in stakes' PROVE StakeOk(m) /\ ~m.own
        OBVIOUS
    <2>1. PICK k \in stakes : m = [k EXCEPT !.own = FALSE]
        BY <1>1
    <2>2. StakeOk(k)
        BY DEF StakingInv
    <2> QED
        BY <2>1, <2>2, StakeKeeps
<1>4. stakes' \subseteq Staking!Stake
    BY <1>3 DEF StakeOk
<1>5. Staking!TypeOK'
    BY <1>1, <1>2, <1>4 DEF Staking!TypeOK, Staking!Step
<1>6. StakeClosed' /\ Estimated'
    BY <1>1, <1>3 DEF StakeClosed, Estimated
<1> QED
    BY <1>1, <1>2, <1>3, <1>5, <1>6 DEF StakingInv, StakeOk

\* A step of the form: deposits and estimate are left alone.
LEMMA StakingForm ==
    ASSUME StakingInv,
           \/ Staking!ChangeOption
           \/ \E o \in Option : Staking!HandleSelectOption(o)
           \/ \E n \in Amount \cup {None} : Staking!SetAmount(n)
    PROVE  StakingInv' /\ stakeStep # "closed" /\ stakeStep' # "closed"
<1>1. /\ stakeStep \in {"input", "selectOption"} /\ stakeStep' \in {"input", "selectOption"}
      /\ stakeOption' \in Option \cup {None} /\ stakeAmount' \in Amount \cup {None}
      /\ Staking!Reviewed(stakeOption', stakeAmount')
      /\ stakeCrossed' = (stakeCrossed \/ stakeEstimate)
      /\ UNCHANGED <<stakeEstimate, stakeLoading, stakes>>
    BY DEF StakingInv, Staking!TypeOK, Staking!ChangeOption, Staking!HandleSelectOption,
           Staking!SetAmount
<1>2. StakeBox' /\ {stakeWarned, stakeAck}' \subseteq BOOLEAN
      /\ stakeConsent' \in Option \cup {None}
    BY <1>1, StakeReviewed
<1>3. Staking!TypeOK'
    BY <1>1, <1>2 DEF StakingInv, Staking!TypeOK, Staking!Step
<1> QED
    BY <1>1, <1>2, <1>3 DEF StakingInv, StakeOk, StakeClosed, Estimated, Staking!TypeOK

LEMMA StakingRest ==
    ASSUME StakingInv,
           \/ Staking!HandleReview \/ Staking!HandleProceedToPassword \/ Staking!GoBack
           \/ Staking!Tick \/ Staking!CheckReturns \/ Staking!EstimateReturns
    PROVE  StakingInv' /\ (stakeStep = "closed" <=> stakeStep' = "closed")
<1>1. stakes' = stakes /\ stakeOption' = stakeOption /\ stakeAmount' = stakeAmount
    BY DEF Staking!HandleReview, Staking!HandleProceedToPassword, Staking!GoBack,
           Staking!Tick, Staking!CheckReturns, Staking!EstimateReturns
<1>2. Staking!TypeOK'
    BY <1>1 DEF StakingInv, Staking!TypeOK, Staking!Step, Staking!HandleReview,
                Staking!HandleProceedToPassword, Staking!GoBack,
           Staking!Tick, Staking!CheckReturns, Staking!EstimateReturns
<1>3. StakeBox'
    BY <1>1 DEF StakingInv, StakeBox, Staking!TypeOK, Staking!HandleReview,
                Staking!HandleProceedToPassword, Staking!GoBack,
           Staking!Tick, Staking!CheckReturns, Staking!EstimateReturns
<1>4. StakeClosed' /\ (stakeStep = "closed" <=> stakeStep' = "closed")
    BY <1>1 DEF StakingInv, StakeClosed, Staking!TypeOK, Staking!HandleReview,
                Staking!HandleProceedToPassword, Staking!GoBack,
           Staking!Tick, Staking!CheckReturns, Staking!EstimateReturns
<1>5. Estimated'
    BY <1>1 DEF StakingInv, Estimated, Staking!Valid, Staking!TypeOK, Staking!HandleReview,
                Staking!HandleProceedToPassword, Staking!GoBack,
           Staking!Tick, Staking!CheckReturns, Staking!EstimateReturns
<1> QED
    BY <1>1, <1>2, <1>3, <1>4, <1>5 DEF StakingInv, StakeOk

\* A deposit is confirmed, signed, and ends.
LEMMA StakingDeposits ==
    ASSUME StakingInv,
           \/ Staking!HandleExecuteStaking
           \/ \E k \in stakes : Staking!BackendSigns(k) \/ Staking!StakeEnds(k)
    PROVE  StakingInv' /\ (stakeStep = "closed" <=> stakeStep' = "closed")
<1>1. CASE Staking!HandleExecuteStaking
    <2> DEFINE k == [option |-> stakeOption, amount |-> stakeAmount, ack |-> stakeAck,
                     consent |-> stakeConsent, signed |-> FALSE, own |-> TRUE,
                     crossed |-> stakeCrossed]
    <2>1. StakeOk(k)
        BY <1>1 DEF StakingInv, Staking!TypeOK, StakeOk, StakeBox, Estimated, Staking!Valid,
                    Staking!Stake, Staking!HandleExecuteStaking
    <2>2. stakes' = stakes \cup {k}
        BY <1>1 DEF Staking!HandleExecuteStaking
    <2>3. \A m \in stakes' : StakeOk(m)
        BY <2>1, <2>2 DEF StakingInv
    <2>4. Staking!TypeOK'
        BY <1>1, <2>3 DEF StakingInv, StakeOk, Staking!TypeOK, Staking!Step,
                          Staking!HandleExecuteStaking
    <2>5. StakeBox' /\ StakeClosed' /\ Estimated' /\ stakeStep # "closed" /\ stakeStep' # "closed"
        BY <1>1 DEF StakingInv, StakeBox, StakeClosed, Estimated, Staking!Valid,
                    Staking!HandleExecuteStaking
    <2> QED
        BY <2>3, <2>4, <2>5 DEF StakingInv, StakeOk
<1>2. CASE \E k \in stakes : Staking!BackendSigns(k) \/ Staking!StakeEnds(k)
    <2>1. PICK k \in stakes : Staking!BackendSigns(k) \/ Staking!StakeEnds(k)
        BY <1>2
    <2>2. \A m \in stakes' : StakeOk(m) /\ (m \in stakes \/ m.own = k.own)
        <3>1. StakeOk(k)
            BY <2>1 DEF StakingInv
        <3>2. CASE Staking!BackendSigns(k)
            <4> DEFINE m == [k EXCEPT !.signed = TRUE]
            <4>1. stakes' = (stakes \ {k}) \cup {m} /\ StakeOk(m) /\ m.own = k.own
                BY <3>1, <3>2, StakeKeeps DEF Staking!BackendSigns
            <4> QED
                BY <4>1 DEF StakingInv
        <3>3. CASE Staking!StakeEnds(k)
            BY <3>3 DEF StakingInv, Staking!StakeEnds
        <3> QED
            BY <2>1, <3>2, <3>3
    <2>3. k \in Staking!Stake
        BY <2>1 DEF StakingInv, StakeOk
    <2>4. stakeStep' \in {stakeStep, "broadcasting", "success", "error"}
          /\ (~k.own => stakeStep' = stakeStep)
          /\ stakeLoading' \in BOOLEAN
          /\ UNCHANGED <<stakeOption, stakeAmount, stakeEstimate, stakeWarned, stakeAck,
                         stakeConsent, stakeCrossed>>
        BY <2>1, <2>3 DEF StakingInv, Staking!TypeOK, Staking!BackendSigns, Staking!StakeEnds
    <2>5. Staking!TypeOK'
        BY <2>2, <2>4 DEF StakingInv, StakeOk, Staking!TypeOK, Staking!Step
    <2>6. StakeBox' /\ Estimated'
        BY <2>4 DEF StakingInv, StakeBox, Estimated, Staking!Valid
    <2>7. StakeClosed' /\ (stakeStep = "closed" <=> stakeStep' = "closed")
        BY <2>1, <2>2, <2>4 DEF StakingInv, StakeClosed
    <2> QED
        BY <2>2, <2>5, <2>6, <2>7 DEF StakingInv, StakeOk
<1> QED
    BY <1>1, <1>2

LEMMA StakingSteps ==
    ASSUME StakingInv, Staking!Steps
    PROVE  StakingInv' /\ (stakeStep = "closed" <=> stakeStep' = "closed")
BY StakingForm, StakingRest, StakingDeposits DEF Staking!Steps, Staking!Returns

LEMMA StakingInit == Staking!Init => StakingInv /\ stakeStep = "closed"
BY DEF Staking!Init, StakingInv, Staking!TypeOK, Staking!Step, StakeOk, StakeBox, StakeClosed,
       Estimated

\* The page is mounted and goes.
LEMMA StakingMounts ==
    ASSUME StakingInv
    PROVE  /\ Staking!Open => StakingInv' /\ stakeStep' # "closed"
           /\ Staking!Close \/ Staking!Unmount =>
                  StakingInv' /\ stakeStep # "closed" /\ stakeStep' = "closed"
BY StakingFresh DEF Staking!Open, Staking!Close, Staking!Unmount

-----------------------------------------------------------------------------
(***************************************************************************)
(* The approvals tab.                                                      *)
(***************************************************************************)
\* What a running batch has left was in its panel, whose red entries the user
\* acknowledged; everything a flow will revoke was confirmed.
BatchIsAcknowledged ==
    /\ run \subseteq batch
    /\ batchAck \/ run # {} => batch \cap Red \subseteq acked

FlowsAreConfirmed ==
    /\ run \subseteq confirmed /\ orphans \subseteq confirmed
    /\ revoking # None => revoking \in confirmed

ApprovalsInv ==
    /\ Approvals!TypeOK
    /\ BatchIsAcknowledged /\ FlowsAreConfirmed /\ Approvals!RevokedIsConfirmed

LEMMA ApprovalsSafe == ApprovalsInv => RevocationIsAgreed
BY DEF ApprovalsInv, BatchIsAcknowledged, RevocationIsAgreed, Approvals!RedIsAcknowledged,
       Approvals!RevokedIsConfirmed

LEMMA ApprovalsInit == Approvals!Init => ApprovalsInv /\ ~appOpen
BY DEF Approvals!Init, ApprovalsInv, Approvals!TypeOK, BatchIsAcknowledged, FlowsAreConfirmed,
       Approvals!RevokedIsConfirmed

LEMMA ApprovalsMounts ==
    ASSUME ApprovalsInv, Approvals!Mount
    PROVE  ApprovalsInv' /\ appOpen'
BY DEF Approvals!Mount, ApprovalsInv, Approvals!TypeOK, BatchIsAcknowledged, FlowsAreConfirmed,
       Approvals!RevokedIsConfirmed

LEMMA ApprovalsUnmounts ==
    ASSUME ApprovalsInv, Approvals!Unmount
    PROVE  ApprovalsInv' /\ ~appOpen'
<1>1. Approvals!TypeOK'
    BY DEF Approvals!Unmount, ApprovalsInv, Approvals!TypeOK
<1>2. BatchIsAcknowledged' /\ FlowsAreConfirmed' /\ Approvals!RevokedIsConfirmed' /\ ~appOpen'
    BY DEF Approvals!Unmount, ApprovalsInv, BatchIsAcknowledged, FlowsAreConfirmed,
           Approvals!RevokedIsConfirmed
<1> QED
    BY <1>1, <1>2 DEF ApprovalsInv

\* What the user reads, filters and selects touches no flow.
LEMMA ApprovalsViewed ==
    ASSUME ApprovalsInv,
           \/ Approvals!Refresh
           \/ \E n \in Network \cup {All} : Approvals!SetFilter(n)
           \/ \E s \in SUBSET Entry : Approvals!Select(s)
           \/ \E e \in Entry : Approvals!HandleRevoke(e)
           \/ Approvals!CancelRevoke
           \/ \E l \in loads : Approvals!LoadReturns(l)
    PROVE  ApprovalsInv' /\ appOpen' = appOpen
<1>1. UNCHANGED <<appOpen, granted, batch, batchAck, revoking, run, orphans, confirmed, acked>>
    BY DEF Approvals!Refresh, Approvals!SetFilter, Approvals!Select, Approvals!HandleRevoke,
           Approvals!CancelRevoke, Approvals!LoadReturns, Approvals!view
<1>2. Approvals!TypeOK'
    BY <1>1 DEF Approvals!Refresh, Approvals!SetFilter, Approvals!Select, Approvals!HandleRevoke,
           Approvals!CancelRevoke, Approvals!LoadReturns, Approvals!view, ApprovalsInv,
           Approvals!TypeOK
<1> QED
    BY <1>1, <1>2 DEF ApprovalsInv, BatchIsAcknowledged, FlowsAreConfirmed,
           Approvals!RevokedIsConfirmed

\* One revocation, of a panel or of a tab that is gone.
LEMMA ApprovalsRevoke ==
    ASSUME ApprovalsInv,
           \/ Approvals!ConfirmRevoke \/ Approvals!RevokeEnds
           \/ \E e \in orphans : Approvals!OrphanEnds(e)
    PROVE  ApprovalsInv' /\ appOpen' = appOpen
<1>1. UNCHANGED <<appOpen, batch, batchAck, run, acked>>
    BY DEF Approvals!ConfirmRevoke, Approvals!RevokeEnds, Approvals!OrphanEnds, Approvals!view
<1>2. Approvals!TypeOK'
    BY DEF Approvals!ConfirmRevoke, Approvals!RevokeEnds, Approvals!OrphanEnds, Approvals!view,
           ApprovalsInv, Approvals!TypeOK
<1>3. FlowsAreConfirmed'
    BY DEF Approvals!ConfirmRevoke, Approvals!RevokeEnds, Approvals!OrphanEnds, Approvals!view,
           ApprovalsInv, FlowsAreConfirmed
<1>4. Approvals!RevokedIsConfirmed'
    BY DEF Approvals!ConfirmRevoke, Approvals!RevokeEnds, Approvals!OrphanEnds, Approvals!view,
           ApprovalsInv, FlowsAreConfirmed, Approvals!RevokedIsConfirmed
<1> QED
    BY <1>1, <1>2, <1>3, <1>4 DEF ApprovalsInv, BatchIsAcknowledged

LEMMA ApprovalsBatch ==
    ASSUME ApprovalsInv,
           \/ Approvals!HandleBatchRevoke \/ Approvals!CancelBatch \/ Approvals!TickBatch
           \/ Approvals!ExecuteBatchRevoke
           \/ \E e \in run : Approvals!BatchStep(e)
    PROVE  ApprovalsInv' /\ appOpen' = appOpen
<1>1. appOpen' = appOpen /\ revoking' = revoking /\ orphans' = orphans
    BY DEF Approvals!HandleBatchRevoke, Approvals!CancelBatch, Approvals!TickBatch,
           Approvals!ExecuteBatchRevoke, Approvals!BatchStep, Approvals!view
<1>2. Approvals!TypeOK'
    <2>1. CASE \E e \in run : Approvals!BatchStep(e)
        BY <2>1 DEF Approvals!BatchStep, ApprovalsInv, Approvals!TypeOK
    <2>2. CASE Approvals!TickBatch
        BY <2>2 DEF Approvals!TickBatch, ApprovalsInv, Approvals!TypeOK
    <2>3. CASE Approvals!HandleBatchRevoke \/ Approvals!CancelBatch
        BY <2>3 DEF Approvals!HandleBatchRevoke, Approvals!CancelBatch, Approvals!Visible,
                    ApprovalsInv, Approvals!TypeOK
    <2>4. CASE Approvals!ExecuteBatchRevoke
        BY <2>4 DEF Approvals!ExecuteBatchRevoke, Approvals!view, ApprovalsInv, Approvals!TypeOK
    <2> QED
        BY <2>1, <2>2, <2>3, <2>4
<1>3. BatchIsAcknowledged'
    BY DEF Approvals!HandleBatchRevoke, Approvals!CancelBatch, Approvals!TickBatch,
           Approvals!ExecuteBatchRevoke, Approvals!BatchStep, Approvals!view,
           Approvals!BatchRequiresAcknowledge, ApprovalsInv, Approvals!TypeOK,
           BatchIsAcknowledged
<1>4. FlowsAreConfirmed' /\ Approvals!RevokedIsConfirmed'
    BY DEF Approvals!HandleBatchRevoke, Approvals!CancelBatch, Approvals!TickBatch,
           Approvals!ExecuteBatchRevoke, Approvals!BatchStep, Approvals!view,
           ApprovalsInv, FlowsAreConfirmed, Approvals!RevokedIsConfirmed
<1> QED
    BY <1>1, <1>2, <1>3, <1>4 DEF ApprovalsInv

LEMMA ApprovalsSteps ==
    ASSUME ApprovalsInv, Approvals!Steps
    PROVE  ApprovalsInv' /\ appOpen' = appOpen
BY ApprovalsViewed, ApprovalsRevoke, ApprovalsBatch DEF Approvals!Steps, Approvals!Returns

-----------------------------------------------------------------------------
(***************************************************************************)
(* The page of the wallet.                                                 *)
(***************************************************************************)
\* An unlock in progress: whose it is, and what the backend has accepted for it.
TaskOk(k) ==
    /\ k \in Task
    /\ k.own => k.of = wallet
    /\ k.passphrase => k.of \in Hidden
    /\ k.does \in {"addresses", "balances"} /\ k.of \notin Hidden => k.of \in proven
    /\ k.does = "balances" => ~k.passphrase
    /\ ~k.passphrase /\ k.of \in Hidden => k.of \in proven /\ (k.own => validated)
    /\ k.does = "funds" => k.of \in proven

\* The types of what is the page's own.
LocalTypes ==
    /\ wallet \in Wallet \cup {None}
    /\ {askPassword, askPassphrase, password, validated} \subseteq BOOLEAN
    /\ {loading, validating, refreshing} \subseteq BOOLEAN
    /\ sub \in View
    /\ tab \in {"crypto", "approvals"}
    /\ tasks \subseteq Task
    /\ context \in Wallet \cup {None}
    /\ opened \subseteq Wallet /\ proven \subseteq Wallet

\* Each spinner has a call of this page that stops it, and stops it whenever it ends.
SpinnersHaveTasks ==
    /\ loading => \E k \in tasks : k.own /\ k.does # "refresh"
    /\ validating => \E k \in tasks : k.own /\ k.does \in {"passphrase", "funds"}

ValidatedIsProven == validated => wallet # None /\ wallet \in proven

LocalInv ==
    /\ LocalTypes
    /\ \A k \in tasks : TaskOk(k)
    /\ ValidatedIsProven /\ WalletIsProven /\ SpinnersHaveTasks

FlowInv == SwapInv /\ StakingInv /\ ApprovalsInv /\ MountedIsShown

-----------------------------------------------------------------------------
\* A task outlives what only adds to what is proven.
LEMMA TaskStays ==
    ASSUME NEW k, TaskOk(k), wallet' = wallet, proven \subseteq proven', validated => validated'
    PROVE  TaskOk(k)'
BY DEF TaskOk

\* The wallet is left or entered: its prompts start anew, its calls go on.
LEMMA LocalReset ==
    ASSUME LocalInv, NEW w \in Wallet \cup {None}, Reset(w)
    PROVE  LocalInv'
<1>1. /\ wallet' = w /\ askPassword' = TRUE /\ askPassphrase' = FALSE
      /\ password' = FALSE /\ validated' = FALSE
      /\ loading' = FALSE /\ validating' = FALSE /\ refreshing' = FALSE
      /\ sub' = "assets" /\ tab' = "crypto"
      /\ tasks' = {[k EXCEPT !.own = FALSE] : k \in {t \in tasks : t.does # "refresh"}}
      /\ UNCHANGED <<context, opened, proven>>
    BY DEF Reset, global
<1>2. \A m \in tasks' : TaskOk(m)'
    <2> SUFFICES ASSUME NEW m \in tasks' PROVE TaskOk(m)'
        OBVIOUS
    <2>1. PICK k \in tasks : m = [k EXCEPT !.own = FALSE]
        BY <1>1
    <2>2. TaskOk(k)
        BY DEF LocalInv
    <2> QED
        BY <1>1, <2>1, <2>2 DEF TaskOk, Task
<1>3. LocalTypes'
    BY <1>1, <1>2 DEF LocalInv, LocalTypes, View, TaskOk
<1>4. ValidatedIsProven' /\ WalletIsProven' /\ SpinnersHaveTasks'
    BY <1>1 DEF LocalInv, ValidatedIsProven, WalletIsProven, ShownIsValidated, ContextIsProven,
                SpinnersHaveTasks
<1> QED
    BY <1>1, <1>2, <1>3, <1>4 DEF LocalInv

\* Another view, another tab: nothing of the wallet changes.
LEMMA LocalViews ==
    ASSUME LocalInv, UNCHANGED <<wallet, prompts, busy, tasks, global>>,
           sub' \in View, tab' \in {"crypto", "approvals"}
    PROVE  LocalInv'
<1>1. UNCHANGED <<wallet, askPassword, askPassphrase, password, validated, loading, validating,
                  refreshing, tasks, context, opened, proven>>
    BY DEF prompts, busy, global
<1>2. LocalTypes'
    BY <1>1 DEF LocalInv, LocalTypes
<1> QED
    BY <1>1, <1>2 DEF LocalInv, TaskOk, ValidatedIsProven, WalletIsProven, ShownIsValidated,
                      ContextIsProven, SpinnersHaveTasks

\* A call is made: for the wallet that is open, with what has been asked of it.
LEMMA LocalStarts ==
    ASSUME LocalInv, HandleLoadBalances \/ HandleValidatePassphrase \/ HandleRefreshBalances
    PROVE  LocalInv'
<1> DEFINE t(does) == [of |-> wallet, does |-> does, own |-> TRUE,
                       passphrase |-> wallet \in Hidden /\ ~validated]
<1>1. PICK does \in {"session", "passphrase", "refresh"} :
        /\ tasks' = tasks \cup {t(does)}
        /\ loading' = (loading \/ does = "session")
        /\ validating' = (validating \/ does = "passphrase")
        /\ refreshing' \in BOOLEAN
        /\ wallet # None
    <2>1. CASE HandleLoadBalances
        BY <2>1 DEF HandleLoadBalances, Start, LocalInv, LocalTypes
    <2>2. CASE HandleValidatePassphrase
        BY <2>2 DEF HandleValidatePassphrase, Start, LocalInv, LocalTypes
    <2>3. CASE HandleRefreshBalances
        BY <2>3 DEF HandleRefreshBalances, Shown, Start, LocalInv, LocalTypes
    <2> QED
        BY <2>1, <2>2, <2>3
<1>2. UNCHANGED <<wallet, askPassword, askPassphrase, password, validated, sub, tab, context,
                  opened, proven>>
    BY DEF HandleLoadBalances, HandleValidatePassphrase, HandleRefreshBalances, prompts, global
<1>3. /\ TaskOk(t(does)) /\ t(does).own /\ t(does).does = does
    <2>1. wallet \in Wallet /\ does \in {"session", "passphrase", "refresh"}
        BY <1>1 DEF LocalInv, LocalTypes
    <2>2. t(does) \in Task
        BY <2>1 DEF Task
    <2> QED
        BY <2>1, <2>2 DEF LocalInv, TaskOk, ValidatedIsProven
<1>4. PICK m : m = t(does)
    OBVIOUS
<1>5. tasks' = tasks \cup {m} /\ TaskOk(m) /\ m.own /\ m.does = does
    BY <1>1, <1>3, <1>4
<1> HIDE DEF t
<1>6. \A k \in tasks' : TaskOk(k)'
    BY <1>2, <1>5, TaskStays DEF LocalInv
<1>7. LocalTypes'
    BY <1>1, <1>2, <1>5 DEF LocalInv, LocalTypes, TaskOk
<1>8. ValidatedIsProven' /\ WalletIsProven'
    BY <1>2 DEF LocalInv, ValidatedIsProven, WalletIsProven, ShownIsValidated, ContextIsProven
<1>9. SpinnersHaveTasks'
    BY <1>1, <1>5 DEF LocalInv, SpinnersHaveTasks
<1> QED
    BY <1>6, <1>7, <1>8, <1>9 DEF LocalInv

\* A call that ends stops the spinners of its page, which another call may turn still.
LEMMA SpinnersStop ==
    ASSUME SpinnersHaveTasks, NEW k \in tasks, tasks' = tasks \ {k},
           loading' => loading /\ (k.does = "refresh" \/ ~k.own),
           validating' => validating /\ (k.does \notin {"passphrase", "funds"} \/ ~k.own)
    PROVE  SpinnersHaveTasks'
<1>1. \A j \in tasks : j \notin tasks' => j = k
    OBVIOUS
<1> QED
    BY <1>1 DEF SpinnersHaveTasks

\* A call that goes on goes on turning them.
LEMMA SpinnersTurn ==
    ASSUME SpinnersHaveTasks, NEW k \in tasks, NEW does \in {"addresses", "balances", "funds"},
           k \in Task, Goes(k, does), k.does # "funds", k.does = "passphrase" => does = "funds",
           loading' => loading \/ k.own,
           validating' => validating
    PROVE  SpinnersHaveTasks'
<1> DEFINE m == [k EXCEPT !.does = does]
<1>1. tasks' = (tasks \ {k}) \cup {m} /\ m.own = k.own /\ m.does = does
    BY DEF Goes, Task
<1> HIDE DEF m
<1>2. \A j \in tasks : j \notin tasks' => j = k
    BY <1>1
<1>3. m \in tasks'
    BY <1>1
<1>4. (\E j \in tasks : j.own /\ j.does # "refresh") => \E j \in tasks' : j.own /\ j.does # "refresh"
    BY <1>1, <1>2, <1>3
<1>5. (\E j \in tasks : j.own /\ j.does \in {"passphrase", "funds"}) =>
          \E j \in tasks' : j.own /\ j.does \in {"passphrase", "funds"}
    BY <1>1, <1>2, <1>3
<1>6. k.own => \E j \in tasks' : j.own /\ j.does # "refresh"
    BY <1>1, <1>3
<1> QED
    BY <1>4, <1>5, <1>6 DEF SpinnersHaveTasks

LEMMA LocalSession ==
    ASSUME LocalInv, NEW k \in tasks, SessionCreated(k)
    PROVE  LocalInv'
<1> DEFINE m == [k EXCEPT !.does = "addresses"]
<1>1. /\ k.does = "session" /\ tasks' = (tasks \ {k}) \cup {m} /\ Goes(k, "addresses")
      /\ opened' = opened \cup {k.of}
      /\ proven' = IF k.of \in Hidden THEN proven ELSE proven \cup {k.of}
      /\ password' = (password \/ k.own)
      /\ UNCHANGED <<wallet, askPassword, askPassphrase, validated, loading, validating,
                     refreshing, sub, tab, context>>
    BY DEF SessionCreated, Goes, busy
<1>2. TaskOk(k) /\ k \in Task /\ k.of \in Wallet
    BY DEF LocalInv, TaskOk, Task
<1>3. TaskOk(m)'
    BY <1>1, <1>2 DEF TaskOk, Task
<1>4. \A j \in tasks' : TaskOk(j)'
    <2>1. \A j \in tasks : TaskOk(j)'
        BY <1>1, TaskStays DEF LocalInv
    <2>2. \A j : j = m => TaskOk(j)'
        BY <1>3
    <2> QED
        BY <1>1, <2>1, <2>2
<1>5. LocalTypes'
    BY <1>1, <1>2, <1>4 DEF LocalInv, LocalTypes, TaskOk
<1>6. ValidatedIsProven' /\ WalletIsProven'
    BY <1>1 DEF LocalInv, ValidatedIsProven, WalletIsProven, ShownIsValidated, ContextIsProven
<1>7. SpinnersHaveTasks'
    BY <1>1, <1>2, SpinnersTurn DEF LocalInv
<1> QED
    BY <1>4, <1>5, <1>6, <1>7 DEF LocalInv

LEMMA LocalAddresses ==
    ASSUME LocalInv, NEW k \in tasks, AddressesLoaded(k)
    PROVE  LocalInv'
<1>1. /\ k.does = "addresses"
      /\ UNCHANGED <<wallet, password, validated, validating, refreshing, sub, tab, context,
                     opened, proven>>
    BY DEF AddressesLoaded, global
<1>2. TaskOk(k) /\ k \in Task
    BY DEF LocalInv, TaskOk
<1>3. \A j \in tasks : TaskOk(j)'
    BY <1>1, TaskStays DEF LocalInv
<1>4. CASE k.passphrase
    <2>1. /\ tasks' = tasks \ {k}
          /\ askPassword' = (askPassword /\ ~k.own)
          /\ askPassphrase' = (askPassphrase \/ k.own)
          /\ loading' = (loading /\ ~k.own)
        BY <1>4 DEF AddressesLoaded
    <2>2. LocalTypes'
        BY <1>1, <1>2, <2>1 DEF LocalInv, LocalTypes, Task
    <2>3. ValidatedIsProven' /\ WalletIsProven'
        BY <1>1, <1>2, <2>1 DEF LocalInv, LocalTypes, Task, ValidatedIsProven, WalletIsProven,
                                ShownIsValidated, ContextIsProven
    <2>4. SpinnersHaveTasks'
        BY <1>1, <2>1, SpinnersStop DEF LocalInv
    <2> QED
        BY <1>3, <2>1, <2>2, <2>3, <2>4 DEF LocalInv
<1>5. CASE ~k.passphrase
    <2> DEFINE m == [k EXCEPT !.does = "balances"]
    <2>1. /\ tasks' = (tasks \ {k}) \cup {m} /\ Goes(k, "balances")
          /\ UNCHANGED <<askPassword, askPassphrase, loading>>
        BY <1>5 DEF AddressesLoaded, Goes
    <2>2. TaskOk(m)'
        BY <1>1, <1>2, <1>5, <2>1 DEF TaskOk, Task
    <2>3. \A j \in tasks' : TaskOk(j)'
        <3>1. \A j : j = m => TaskOk(j)'
            BY <2>2
        <3> QED
            BY <1>3, <2>1, <3>1
    <2>4. LocalTypes'
        BY <1>1, <2>1, <2>3 DEF LocalInv, LocalTypes, TaskOk
    <2>5. ValidatedIsProven' /\ WalletIsProven'
        BY <1>1, <2>1 DEF LocalInv, ValidatedIsProven, WalletIsProven, ShownIsValidated,
                          ContextIsProven
    <2>6. SpinnersHaveTasks'
        BY <1>1, <1>2, <2>1, SpinnersTurn DEF LocalInv
    <2> QED
        BY <2>3, <2>4, <2>5, <2>6 DEF LocalInv
<1> QED
    BY <1>4, <1>5

\* The last answer of an unlock that needs no passphrase, or had one.
LEMMA LocalBalances ==
    ASSUME LocalInv, NEW k \in tasks, BalancesLoaded(k)
    PROVE  LocalInv'
<1>1. /\ k.does = "balances" /\ tasks' = tasks \ {k}
      /\ askPassword' = (askPassword /\ ~k.own)
      /\ loading' = (loading /\ ~k.own)
      /\ context' = k.of
      /\ UNCHANGED <<wallet, askPassphrase, password, validated, validating, refreshing, sub, tab,
                     opened, proven>>
    BY DEF BalancesLoaded
<1>2. /\ k \in Task /\ k.of \in Wallet /\ k.of \in proven
      /\ k.own => k.of = wallet /\ (k.of \in Hidden => validated)
    BY <1>1 DEF LocalInv, TaskOk, Task
<1>3. \A j \in tasks' : TaskOk(j)'
    BY <1>1, TaskStays DEF LocalInv
<1>4. LocalTypes'
    BY <1>1, <1>2 DEF LocalInv, LocalTypes, Task
<1>5. ValidatedIsProven' /\ WalletIsProven'
    BY <1>1, <1>2 DEF LocalInv, LocalTypes, Task, ValidatedIsProven, WalletIsProven,
                      ShownIsValidated, ContextIsProven
<1>6. SpinnersHaveTasks'
    BY <1>1, SpinnersStop DEF LocalInv
<1> QED
    BY <1>3, <1>4, <1>5, <1>6 DEF LocalInv

LEMMA LocalPassphrase ==
    ASSUME LocalInv, NEW k \in tasks, PassphraseValid(k)
    PROVE  LocalInv'
<1> DEFINE m == [k EXCEPT !.does = "funds"]
<1>1. /\ k.does = "passphrase" /\ tasks' = (tasks \ {k}) \cup {m} /\ Goes(k, "funds")
      /\ proven' = proven \cup {k.of}
      /\ validated' = (validated \/ k.own)
      /\ askPassphrase' = (askPassphrase /\ ~k.own)
      /\ loading' = (loading \/ k.own)
      /\ UNCHANGED <<wallet, askPassword, password, validating, refreshing, sub, tab, context,
                     opened>>
    BY DEF PassphraseValid, Goes
<1>2. /\ TaskOk(k) /\ k \in Task /\ k.of \in Wallet /\ {k.own} \subseteq BOOLEAN
      /\ k.own => k.of = wallet /\ wallet # None
    BY WalletAssumption DEF LocalInv, TaskOk, Task
<1>3. TaskOk(m)'
    BY <1>1, <1>2 DEF TaskOk, Task
<1>4. \A j \in tasks' : TaskOk(j)'
    <2>1. \A j \in tasks : TaskOk(j)'
        BY <1>1, TaskStays DEF LocalInv
    <2>2. \A j : j = m => TaskOk(j)'
        BY <1>3
    <2> QED
        BY <1>1, <2>1, <2>2
<1>5. LocalTypes'
    BY <1>1, <1>2, <1>4 DEF LocalInv, LocalTypes, TaskOk
<1>6. ValidatedIsProven' /\ WalletIsProven'
    BY <1>1, <1>2 DEF LocalInv, LocalTypes, ValidatedIsProven, WalletIsProven, ShownIsValidated,
                      ContextIsProven
<1>7. SpinnersHaveTasks'
    BY <1>1, <1>2, SpinnersTurn DEF LocalInv
<1> QED
    BY <1>4, <1>5, <1>6, <1>7 DEF LocalInv

\* The other ends: of the balances behind a passphrase, of failures, of a refresh.
LEMMA LocalEnds ==
    ASSUME LocalInv, NEW k \in tasks,
           UnlockFails(k) \/ FundsLoaded(k) \/ ValidationFails(k) \/ RefreshReturns(k)
    PROVE  LocalInv'
<1>1. /\ tasks' = tasks \ {k}
      /\ UNCHANGED <<wallet, askPassword, askPassphrase, password, validated, sub, tab, opened,
                     proven>>
      /\ context' = context \/ (k.does = "funds" /\ context' = k.of)
    BY DEF UnlockFails, FundsLoaded, ValidationFails, RefreshReturns, prompts, global
<1>2. /\ loading' => loading /\ (k.does = "refresh" \/ ~k.own)
      /\ validating' => validating /\ (k.does \notin {"passphrase", "funds"} \/ ~k.own)
      /\ {loading, validating, refreshing}' \subseteq BOOLEAN
    <2>1. CASE UnlockFails(k)
        BY <2>1 DEF UnlockFails, LocalInv, LocalTypes
    <2>2. CASE FundsLoaded(k)
        BY <2>2 DEF FundsLoaded, LocalInv, LocalTypes
    <2>3. CASE ValidationFails(k)
        BY <2>3 DEF ValidationFails, LocalInv, LocalTypes
    <2>4. CASE RefreshReturns(k)
        BY <2>4 DEF RefreshReturns, LocalInv, LocalTypes
    <2> QED
        BY <2>1, <2>2, <2>3, <2>4
<1>3. k \in Task /\ k.of \in Wallet /\ (k.does = "funds" => k.of \in proven)
    BY DEF LocalInv, TaskOk, Task
<1>4. \A j \in tasks' : TaskOk(j)'
    BY <1>1, TaskStays DEF LocalInv
<1>5. LocalTypes'
    BY <1>1, <1>2, <1>3 DEF LocalInv, LocalTypes, Task
<1>6. ValidatedIsProven' /\ WalletIsProven'
    BY <1>1, <1>3 DEF LocalInv, ValidatedIsProven, WalletIsProven, ShownIsValidated,
                      ContextIsProven
<1>7. SpinnersHaveTasks'
    BY <1>1, <1>2, SpinnersStop DEF LocalInv
<1> QED
    BY <1>4, <1>5, <1>6, <1>7 DEF LocalInv

\* Back at the passphrase, and the wallet that is chosen to sign.
LEMMA LocalChoices ==
    ASSUME LocalInv, BackToPassword \/ ConnectWallet
    PROVE  LocalInv'
<1>1. UNCHANGED <<wallet, validated, loading, validating, refreshing, sub, tab, tasks, opened,
                  proven>>
    BY DEF BackToPassword, ConnectWallet, local, prompts, busy, global
<1>2. \/ askPassword' = TRUE /\ askPassphrase' = FALSE /\ password' = FALSE /\ context' = context
      \/ /\ UNCHANGED <<askPassword, askPassphrase, password>>
         /\ context' = wallet /\ wallet # None /\ ~askPassword /\ ~askPassphrase
    BY DEF BackToPassword, ConnectWallet, Shown, local, prompts, global
<1>3. LocalTypes'
    BY <1>1, <1>2 DEF LocalInv, LocalTypes
<1>4. ValidatedIsProven' /\ WalletIsProven' /\ SpinnersHaveTasks'
    BY <1>1, <1>2 DEF LocalInv, ValidatedIsProven, WalletIsProven, ShownIsValidated,
                      ContextIsProven, SpinnersHaveTasks
<1>5. \A j \in tasks' : TaskOk(j)'
    BY <1>1, TaskStays DEF LocalInv
<1> QED
    BY <1>3, <1>4, <1>5 DEF LocalInv

-----------------------------------------------------------------------------
\* A page that nobody touches keeps what it has.
LEMMA SwapStutters == SwapInv /\ UNCHANGED swapVars => SwapInv' /\ swapStep' = swapStep
BY DEF swapVars, SwapInv, Swap!TypeOK, CallOk, SwapBox, GoneIsLeft, FormIsBuilt, OneIsAwaited,
       Awaited, CallIsShown, SwapsAreOwn, Swap!BusyHasCall

LEMMA StakingStutters == StakingInv /\ UNCHANGED stakeVars => StakingInv' /\ stakeStep' = stakeStep
BY DEF stakeVars, StakingInv, Staking!TypeOK, StakeOk, StakeBox, StakeClosed, Estimated,
       Staking!Valid

LEMMA ApprovalsStutter == ApprovalsInv /\ UNCHANGED appVars => ApprovalsInv' /\ appOpen' = appOpen
BY DEF appVars, ApprovalsInv, Approvals!TypeOK, BatchIsAcknowledged, FlowsAreConfirmed,
       Approvals!RevokedIsConfirmed

\* Rendering mounts what is shown and unmounts what is not.
LEMMA Rendered ==
    ASSUME FlowInv, NEW here \in BOOLEAN, Render(here)
    PROVE  FlowInv'
<1>1. SwapInv' /\ (swapStep' # "closed" <=> Shown("swap")')
    <2>1. CASE Shown("swap")' /\ swapStep = "closed"
        BY <2>1, SwapOpens DEF Render, FlowInv
    <2>2. CASE Shown("swap")' /\ swapStep # "closed"
        BY <2>2, SwapStutters DEF Render, FlowInv
    <2>3. CASE ~Shown("swap")' /\ (swapStep # "closed" \/ ~here)
        BY <2>3, SwapGoes DEF Render, FlowInv
    <2>4. CASE ~Shown("swap")' /\ ~(swapStep # "closed" \/ ~here)
        BY <2>4, SwapStutters DEF Render, FlowInv
    <2> QED
        BY <2>1, <2>2, <2>3, <2>4
<1>2. StakingInv' /\ (stakeStep' # "closed" <=> Shown("staking")')
    <2>1. CASE Shown("staking")' /\ stakeStep = "closed"
        BY <2>1, StakingMounts DEF Render, FlowInv
    <2>2. CASE Shown("staking")' /\ stakeStep # "closed"
        BY <2>2, StakingStutters DEF Render, FlowInv
    <2>3. CASE ~Shown("staking")' /\ stakeStep # "closed"
        BY <2>3, StakingMounts DEF Render, FlowInv
    <2>4. CASE ~Shown("staking")' /\ stakeStep = "closed"
        BY <2>4, StakingStutters DEF Render, FlowInv
    <2> QED
        BY <2>1, <2>2, <2>3, <2>4
<1>3. ApprovalsInv' /\ (appOpen' <=> (Shown("assets") /\ tab = "approvals")')
    <2>1. CASE (Shown("assets") /\ tab = "approvals")' /\ ~appOpen
        BY <2>1, ApprovalsMounts DEF Render, FlowInv
    <2>2. CASE (Shown("assets") /\ tab = "approvals")' /\ appOpen
        BY <2>2, ApprovalsStutter DEF Render, FlowInv
    <2>3. CASE ~(Shown("assets") /\ tab = "approvals")' /\ appOpen
        BY <2>3, ApprovalsUnmounts DEF Render, FlowInv
    <2>4. CASE ~(Shown("assets") /\ tab = "approvals")' /\ ~appOpen
        BY <2>4, ApprovalsStutter DEF Render, FlowInv
    <2> QED
        BY <2>1, <2>2, <2>3, <2>4
<1> QED
    BY <1>1, <1>2, <1>3 DEF FlowInv, MountedIsShown

\* What renders nothing anew leaves the pages where they are.
LEMMA FlowStays ==
    ASSUME FlowInv, UNCHANGED pages, UNCHANGED <<wallet, sub, tab>>,
           \/ UNCHANGED <<askPassword, askPassphrase>>
           \/ askPassphrase /\ askPassword'
    PROVE  FlowInv'
<1>1. SwapInv' /\ StakingInv' /\ ApprovalsInv'
      /\ UNCHANGED <<swapStep, stakeStep, appOpen>>
    BY SwapStutters, StakingStutters, ApprovalsStutter DEF FlowInv, pages
<1>2. MountedIsShown'
    BY <1>1 DEF FlowInv, MountedIsShown, Shown
<1> QED
    BY <1>1, <1>2 DEF FlowInv

\* A page that closes itself gives its place to the assets.
LEMMA FlowReturns ==
    ASSUME FlowInv, NEW v \in {"swap", "staking"}, NEW steps \in BOOLEAN, Returned(v, steps),
           SwapInv', StakingInv', steps => sub = v,
           v = "swap" => /\ stakeStep' = stakeStep
                         /\ swapStep = "closed" => swapStep' = "closed"
                         /\ steps <=> swapStep # "closed" /\ swapStep' = "closed",
           v = "staking" => /\ swapStep' = swapStep
                            /\ stakeStep = "closed" => stakeStep' = "closed"
                            /\ steps <=> stakeStep # "closed" /\ stakeStep' = "closed"
    PROVE  FlowInv'
<1>1. /\ sub' = IF sub = v /\ steps THEN "assets" ELSE sub
      /\ UNCHANGED <<wallet, askPassword, askPassphrase, tab>>
      /\ IF (Shown("assets") /\ tab = "approvals")' /\ ~appOpen THEN Approvals!Mount
         ELSE UNCHANGED appVars
    BY DEF Returned, prompts
<1>2. ApprovalsInv' /\ (appOpen' <=> (Shown("assets") /\ tab = "approvals")')
    <2>1. CASE (Shown("assets") /\ tab = "approvals")' /\ ~appOpen
        BY <1>1, <2>1, ApprovalsMounts DEF FlowInv
    <2>2. CASE ~((Shown("assets") /\ tab = "approvals")' /\ ~appOpen)
        <3>1. ApprovalsInv' /\ appOpen' = appOpen
            BY <1>1, <2>2, ApprovalsStutter DEF FlowInv
        <3>2. appOpen => (Shown("assets") /\ tab = "approvals")'
            BY <1>1 DEF FlowInv, MountedIsShown, Shown
        <3> QED
            BY <2>2, <3>1, <3>2
    <2> QED
        BY <2>1, <2>2
<1>3. (swapStep' # "closed" <=> Shown("swap")') /\ (stakeStep' # "closed" <=> Shown("staking")')
    BY <1>1 DEF FlowInv, MountedIsShown, Shown
<1> QED
    BY <1>2, <1>3 DEF FlowInv, MountedIsShown

LEMMA FlowMoves ==
    ASSUME FlowInv, SwapMoves \/ StakingMoves \/ ApprovalsMoves
    PROVE  FlowInv'
<1>1. CASE SwapMoves
    <2> DEFINE steps == swapStep # "closed" /\ swapStep' = "closed"
    <2>1. SwapInv' /\ (swapStep = "closed" => swapStep' = "closed")
        BY <1>1, SwapSteps, SwapGoes DEF SwapMoves, FlowInv
    <2>2. StakingInv' /\ stakeStep' = stakeStep
        BY <1>1, StakingStutters DEF SwapMoves, FlowInv
    <2>3. steps => sub = "swap"
        BY DEF FlowInv, MountedIsShown, Shown
    <2>4. Returned("swap", steps) /\ steps \in BOOLEAN
        BY <1>1 DEF SwapMoves
    <2> QED
        BY <2>1, <2>2, <2>3, <2>4, FlowReturns
<1>2. CASE StakingMoves
    <2> DEFINE steps == stakeStep # "closed" /\ stakeStep' = "closed"
    <2>1. StakingInv' /\ (stakeStep = "closed" => stakeStep' = "closed")
        BY <1>2, StakingSteps, StakingMounts DEF StakingMoves, FlowInv
    <2>2. SwapInv' /\ swapStep' = swapStep
        BY <1>2, SwapStutters DEF StakingMoves, FlowInv
    <2>3. steps => sub = "staking"
        BY DEF FlowInv, MountedIsShown, Shown
    <2>4. Returned("staking", steps) /\ steps \in BOOLEAN
        BY <1>2 DEF StakingMoves
    <2> QED
        BY <2>1, <2>2, <2>3, <2>4, FlowReturns
<1>3. CASE ApprovalsMoves
    <2>1. ApprovalsInv' /\ appOpen' = appOpen
        BY <1>3, ApprovalsSteps DEF ApprovalsMoves, FlowInv
    <2>2. SwapInv' /\ StakingInv' /\ swapStep' = swapStep /\ stakeStep' = stakeStep
        BY <1>3, SwapStutters, StakingStutters DEF ApprovalsMoves, FlowInv
    <2>3. UNCHANGED <<wallet, askPassword, askPassphrase, sub, tab>>
        BY <1>3 DEF ApprovalsMoves, local, prompts
    <2> QED
        BY <2>1, <2>2, <2>3 DEF FlowInv, MountedIsShown, Shown
<1> QED
    BY <1>1, <1>2, <1>3

-----------------------------------------------------------------------------
\* The inductive invariant of the wallet's page and what it shows.
WalletInv == LocalInv /\ FlowInv

LEMMA WalletInit == Init => WalletInv
<1> SUFFICES ASSUME Init PROVE WalletInv
    OBVIOUS
<1>1. LocalInv
    BY DEF Init, LocalInv, LocalTypes, View, ValidatedIsProven, WalletIsProven, ShownIsValidated,
           ContextIsProven, SpinnersHaveTasks
<1>2. FlowInv
    BY SwapInit, StakingInit, ApprovalsInit DEF Init, FlowInv, MountedIsShown, Shown
<1> QED
    BY <1>1, <1>2 DEF WalletInv

LEMMA WalletNext ==
    ASSUME WalletInv, [Next]_vars
    PROVE  WalletInv'
<1>a. LocalInv /\ FlowInv
    BY DEF WalletInv
<1>1. CASE \E w \in Wallet : OpenWallet(w)
    <2>1. PICK w \in Wallet \cup {None} : Reset(w)
        BY <1>1 DEF OpenWallet
    <2> QED
        BY <1>a, <2>1, LocalReset, Rendered DEF Reset, WalletInv
<1>2. CASE OnBack \/ Lock
    BY <1>a, <1>2, LocalReset, Rendered DEF OnBack, Lock, Reset, WalletInv
<1>3. CASE HandleLoadBalances \/ HandleValidatePassphrase \/ HandleRefreshBalances
    <2>1. UNCHANGED pages /\ UNCHANGED <<wallet, askPassword, askPassphrase, sub, tab>>
        BY <1>3 DEF HandleLoadBalances, HandleValidatePassphrase, HandleRefreshBalances, prompts
    <2> QED
        BY <1>a, <1>3, <2>1, LocalStarts, FlowStays DEF WalletInv
<1>4. CASE BackToPassword \/ ConnectWallet
    <2>1. /\ UNCHANGED pages /\ UNCHANGED <<wallet, sub, tab>>
          /\ \/ UNCHANGED <<askPassword, askPassphrase>>
             \/ askPassphrase /\ askPassword'
        BY <1>4 DEF BackToPassword, ConnectWallet, local, prompts
    <2> QED
        BY <1>a, <1>4, <2>1, LocalChoices, FlowStays DEF WalletInv
<1>5. CASE \E k \in tasks : AddressesLoaded(k) \/ BalancesLoaded(k) \/ PassphraseValid(k)
    <2>1. PICK k \in tasks : AddressesLoaded(k) \/ BalancesLoaded(k) \/ PassphraseValid(k)
        BY <1>5
    <2>2. LocalInv'
        BY <1>a, <2>1, LocalAddresses, LocalBalances, LocalPassphrase
    <2>3. Render(TRUE)
        BY <2>1 DEF AddressesLoaded, BalancesLoaded, PassphraseValid
    <2> QED
        BY <1>a, <2>2, <2>3, Rendered DEF WalletInv
<1>6. CASE \E k \in tasks : \/ SessionCreated(k) \/ UnlockFails(k) \/ FundsLoaded(k)
                            \/ ValidationFails(k) \/ RefreshReturns(k)
    <2>1. PICK k \in tasks : \/ SessionCreated(k) \/ UnlockFails(k) \/ FundsLoaded(k)
                             \/ ValidationFails(k) \/ RefreshReturns(k)
        BY <1>6
    <2>2. LocalInv'
        BY <1>a, <2>1, LocalSession, LocalEnds
    <2>3. UNCHANGED pages /\ UNCHANGED <<wallet, askPassword, askPassphrase, sub, tab>>
        BY <2>1 DEF SessionCreated, UnlockFails, FundsLoaded, ValidationFails, RefreshReturns,
                    prompts
    <2> QED
        BY <1>a, <2>2, <2>3, FlowStays DEF WalletInv
<1>7. CASE (\E v \in View : OpenView(v)) \/ LeaveView
           \/ \E t \in {"crypto", "approvals"} : SetActiveTab(t)
    <2>1. /\ UNCHANGED <<wallet, prompts, busy, tasks, global>> /\ Render(TRUE)
          /\ sub' \in View /\ tab' \in {"crypto", "approvals"}
        BY <1>a, <1>7 DEF OpenView, LeaveView, SetActiveTab, View, LocalInv, LocalTypes
    <2> QED
        BY <1>a, <2>1, LocalViews, Rendered DEF WalletInv
<1>8. CASE SwapMoves \/ StakingMoves \/ ApprovalsMoves
    <2>1. /\ UNCHANGED <<wallet, prompts, busy, tasks, global>>
          /\ sub' \in View /\ tab' \in {"crypto", "approvals"}
        BY <1>a, <1>8 DEF SwapMoves, StakingMoves, ApprovalsMoves, Returned, local, View, LocalInv,
                          LocalTypes
    <2> QED
        BY <1>a, <1>8, <2>1, LocalViews, FlowMoves DEF WalletInv
<1>9. CASE UNCHANGED vars
    <2>1. /\ UNCHANGED <<wallet, prompts, busy, tasks, global>> /\ UNCHANGED pages
          /\ UNCHANGED <<wallet, askPassword, askPassphrase, sub, tab>>
          /\ sub' \in View /\ tab' \in {"crypto", "approvals"}
        BY <1>a, <1>9 DEF vars, local, prompts, LocalInv, LocalTypes
    <2> QED
        BY <1>a, <2>1, LocalViews, FlowStays DEF WalletInv
<1> QED
    BY <1>1, <1>2, <1>3, <1>4, <1>5, <1>6, <1>7, <1>8, <1>9 DEF Next, TaskReturns

\* All flows may be open in turn, with any number of calls left behind: the
\* scenes of the model-checked instance are some of these behaviours.
LEMMA WalletAlways == Spec => []WalletInv
<1>1. Init => WalletInv
    BY WalletInit
<1>2. WalletInv /\ [Next]_vars => WalletInv'
    BY WalletNext
<1> QED
    BY <1>1, <1>2, PTL DEF Spec

\* No late answer, of whatever call, shows the assets of a wallet or makes it
\* the one that signs for dApps, unless the backend has accepted its password
\* and, if it has one, its passphrase (WalletDetail, useWalletData).
THEOREM WalletsAreProven == Spec => []WalletIsProven
<1>1. WalletInv => WalletIsProven
    BY DEF WalletInv, LocalInv
<1> QED
    BY <1>1, WalletAlways, PTL

\* A page is mounted exactly while it is shown, every spinner has a call that
\* will stop it, and the swap page shows a signature or an approval in progress
\* only while one is.
THEOREM PagesKeepUp == Spec => []PagesAreServed
<1>1. WalletInv => PagesAreServed
    <2>1. LocalInv => SpinnerHasTask
        BY DEF LocalInv, SpinnersHaveTasks, SpinnerHasTask
    <2>2. WalletInv => TypeOK
        BY DEF WalletInv, LocalInv, FlowInv, LocalTypes, SwapInv, StakingInv, ApprovalsInv, TypeOK
    <2> QED
        BY <2>1, <2>2 DEF WalletInv, FlowInv, SwapInv, PagesAreServed
<1> QED
    BY <1>1, WalletAlways, PTL

\* A swap or a deposit the gate flags is signed only with a box ticked for that
\* very transaction; for a user who waits for the calls it is the one the form
\* shows, of an amount the balance allows and a token whose approval is given.
THEOREM PaymentsAreAgreed == Spec => []PaymentIsAgreed
<1>1. WalletInv => PaymentIsAgreed
    BY SwapSafe, StakingSafe DEF WalletInv, FlowInv, SwapPromise, StakingPromise, PaymentIsAgreed
<1> QED
    BY <1>1, WalletAlways, PTL

\* An approval leaves the chain only after the user confirmed its revocation,
\* and a batch goes on only over red entries whose box was ticked.
THEOREM RevocationsAreAgreed == Spec => []RevocationIsAgreed
<1>1. WalletInv => RevocationIsAgreed
    BY ApprovalsSafe DEF WalletInv, FlowInv
<1> QED
    BY <1>1, WalletAlways, PTL

-----------------------------------------------------------------------------
(***************************************************************************)
(* The page that sends coins.                                              *)
(***************************************************************************)
LEMMA SendFacts ==
    /\ ChainOf \in [Token -> Chain]
    /\ Erc20 \subseteq Token /\ Seed \subseteq Recipient /\ Feed \subseteq Recipient
    /\ Nil \notin Token /\ Nil \notin SendAmount
    /\ Nil \notin Send!Form \cup Send!Tx \cup Send!Key
BY SendAssumption

\* While a transaction is built the user can only be on the first two steps.
BuildIsBehind ==
    build # Nil => sendStep \in {"select", "input"} /\ form # Nil /\ token # Nil

\* The form is there for a token.
FormHasToken == sendStep = "input" => token # Nil

\* These steps are reached, and stay, without a call.
IdleSteps == sendStep \in {"closed", "review", "password", "error"} => ~sendLoading

\* What a call of this page came from is still there when it returns.
AwaitedIsKept == \A j \in Job : Send!Awaited(j) => unsigned # Nil /\ form # Nil /\ token # Nil

\* The box is ticked, the check under way and the finding shown for the request
\* the page has.
ReviewIsCurrent ==
    /\ ack =>
        /\ consent.of = Send!KeyOf(unsigned, token)
        /\ consent.shown \in {"its own", "an earlier one"}
    /\ check # Nil => check = Send!KeyOf(unsigned, token)
    /\ Send!FindingIsCurrent

\* The key a job's consent must be of: its transaction, on the chain sent.
JobKey(j) ==
    [chain |-> job[j].chain, to |-> job[j].tx.to,
     data |-> IF job[j].tx.token \in Erc20 THEN job[j].tx.amount ELSE Nil]

\* A job carries its transaction and the consent given for it.
JobIsConsented ==
    \A j \in Job : job[j].step # "none" =>
        /\ job[j].tx # Nil
        /\ job[j].ack =>
            /\ job[j].consent.of = JobKey(j)
            /\ job[j].consent.shown \in {"its own", "an earlier one"}

SendInv ==
    /\ Send!TypeOK /\ Send!OneRequestAtATime
    /\ BuildIsBehind /\ FormHasToken /\ IdleSteps /\ AwaitedIsKept
    /\ ReviewIsCurrent /\ JobIsConsented

-----------------------------------------------------------------------------
\* The key of a request is a key, or there is none.
LEMMA KeyType ==
    ASSUME NEW u \in Send!Tx \cup {Nil}, NEW t \in Token \cup {Nil}
    PROVE  /\ Send!KeyOf(u, t) \in Send!Key \cup {Nil}
           /\ u # Nil /\ t # Nil => Send!KeyOf(u, t) \in Send!Key
<1>1. CASE u = Nil \/ t = Nil
    BY <1>1 DEF Send!KeyOf
<1>2. CASE u # Nil /\ t # Nil
    <2>1. ChainOf[t] \in Chain /\ u.to \in Recipient /\ u.amount \in SendAmount
        BY <1>2, SendFacts DEF Send!Tx
    <2> QED
        BY <1>2, <2>1 DEF Send!KeyOf, Send!Key
<1> QED
    BY <1>1, <1>2

\* The effect of the review hook keeps its types, and a tick for the request
\* the page goes on with.
LEMMA ReviewedKeeps ==
    ASSUME Send!TypeOK, ReviewIsCurrent,
           NEW u \in Send!Tx \cup {Nil}, NEW t \in Token \cup {Nil},
           Send!Reviewed(u, t), unsigned' = u, token' = t
    PROVE  /\ ack' \in BOOLEAN
           /\ consent' \in Send!Consent \cup {Nil}
           /\ check' \in Send!Key \cup {Nil}
           /\ report' \in Send!Report \cup {Nil}
           /\ ReviewIsCurrent'
<1> DEFINE old == Send!KeyOf(unsigned, token)
           new == Send!KeyOf(u, t)
<1>1. old \in Send!Key \cup {Nil} /\ new \in Send!Key \cup {Nil}
    BY KeyType DEF Send!TypeOK
<1>2. Send!KeyOf(unsigned', token') = new
    OBVIOUS
<1>3. /\ ack' = (ack /\ new = old)
      /\ consent' = IF new = old THEN consent ELSE Nil
      /\ check' = IF new = old THEN check ELSE new
      /\ report' = IF new = Nil THEN Nil ELSE report
    BY DEF Send!Reviewed
<1>4. /\ ack => consent.of = old /\ consent.shown \in {"its own", "an earlier one"}
      /\ check # Nil => check = old
      /\ report # Nil => report.of = old \/ check = old
    BY DEF ReviewIsCurrent, Send!FindingIsCurrent
<1>5. /\ ack' =>
          /\ consent'.of = Send!KeyOf(unsigned', token')
          /\ consent'.shown \in {"its own", "an earlier one"}
      /\ check' # Nil => check' = Send!KeyOf(unsigned', token')
      /\ report' # Nil =>
          report'.of = Send!KeyOf(unsigned', token') \/ check' = Send!KeyOf(unsigned', token')
    <2> HIDE DEF old, new
    <2> QED
        BY <1>2, <1>3, <1>4
<1>6. ReviewIsCurrent'
    BY <1>5 DEF ReviewIsCurrent, Send!FindingIsCurrent
<1> HIDE DEF old, new
<1>7. ack' \in BOOLEAN
    BY <1>3
<1> QED
    BY <1>1, <1>3, <1>6, <1>7 DEF Send!TypeOK

\* A job that is over, or not begun.
LEMMA NoJobType == Send!NoJob \in Send!JobState /\ Send!NoJob.step = "none" /\ ~Send!NoJob.own
    BY DEF Send!NoJob, Send!JobState

LEMMA SendInit == ASSUME Send!Init PROVE SendInv
<1>1. Send!TypeOK
    BY NoJobType, SendFacts DEF Send!Init, Send!TypeOK, Send!Step
<1>2. \A j \in Job : job[j].step = "none"
    BY NoJobType DEF Send!Init
<1>3. Send!OneRequestAtATime
    BY <1>2 DEF Send!Init, Send!OneRequestAtATime, Send!Awaited
<1>5. BuildIsBehind /\ FormHasToken /\ IdleSteps /\ ReviewIsCurrent
    BY DEF Send!Init, BuildIsBehind, FormHasToken, IdleSteps, ReviewIsCurrent,
           Send!FindingIsCurrent
<1>6. AwaitedIsKept /\ JobIsConsented
    BY <1>2 DEF AwaitedIsKept, JobIsConsented, Send!Awaited
<1> QED
    BY <1>1, <1>3, <1>5, <1>6 DEF SendInv

-----------------------------------------------------------------------------
\* What the invariant says of the jobs and of the page, apart.
LEMMA JobsAreKept ==
    ASSUME JobIsConsented, job' = job
    PROVE  JobIsConsented'
    BY DEF JobIsConsented, JobKey

LEMMA OpenKeeps == ASSUME SendInv, Send!Open PROVE SendInv'
<1>1. UNCHANGED <<token, form, unsigned, sendLoading, build, check, report, ack, consent, job,
                  blacklist>>
    BY DEF Send!Open, Send!review
<1>2. sendStep = "closed" /\ sendStep' = "select"
    BY DEF Send!Open
<1>3. Send!TypeOK' /\ Send!OneRequestAtATime'
    BY <1>1, <1>2 DEF SendInv, Send!TypeOK, Send!Step, Send!OneRequestAtATime, Send!Awaited
<1>4. BuildIsBehind' /\ FormHasToken' /\ IdleSteps' /\ AwaitedIsKept' /\ ReviewIsCurrent'
    BY <1>1, <1>2 DEF SendInv, BuildIsBehind, FormHasToken, IdleSteps, AwaitedIsKept,
                      Send!Awaited, ReviewIsCurrent, Send!FindingIsCurrent,
        Send!KeyOf
<1> QED
    BY <1>1, <1>3, <1>4, JobsAreKept DEF SendInv

LEMMA SelectTokenKeeps == ASSUME SendInv, NEW t \in Token, Send!SelectToken(t)
    PROVE SendInv'
<1>1. UNCHANGED <<form, unsigned, sendLoading, build, job, blacklist>> /\ token' = t
    BY DEF Send!SelectToken
<1>2. sendStep = "select" /\ sendStep' = "input"
    BY DEF Send!SelectToken
<1>3. /\ ack' \in BOOLEAN /\ consent' \in Send!Consent \cup {Nil} /\ check' \in Send!Key \cup {Nil}
      /\ report' \in Send!Report \cup {Nil} /\ ReviewIsCurrent'
    BY <1>1, ReviewedKeeps DEF Send!SelectToken, SendInv, Send!TypeOK
<1>4. Send!TypeOK' /\ Send!OneRequestAtATime'
    BY <1>1, <1>2, <1>3 DEF SendInv, Send!TypeOK, Send!Step, Send!OneRequestAtATime, Send!Awaited
<1>5. BuildIsBehind' /\ FormHasToken' /\ IdleSteps' /\ AwaitedIsKept'
    BY <1>1, <1>2, SendFacts DEF SendInv, BuildIsBehind, FormHasToken, IdleSteps, AwaitedIsKept,
                                 Send!Awaited
<1> QED
    BY <1>1, <1>3, <1>4, <1>5, JobsAreKept DEF SendInv

LEMMA EditKeeps == ASSUME SendInv, NEW f \in Send!Form, Send!Edit(f) PROVE SendInv'
<1>1. UNCHANGED <<sendStep, token, unsigned, sendLoading, build, check, report, ack, consent, job,
                  blacklist>>
    BY DEF Send!Edit, Send!review
<1>2. sendStep = "input" /\ form' = f
    BY DEF Send!Edit
<1>3. Send!TypeOK' /\ Send!OneRequestAtATime'
    BY <1>1, <1>2 DEF SendInv, Send!TypeOK, Send!OneRequestAtATime, Send!Awaited
<1>4. BuildIsBehind' /\ FormHasToken' /\ IdleSteps' /\ AwaitedIsKept' /\ ReviewIsCurrent'
    BY <1>1, <1>2, SendFacts
    DEF SendInv, BuildIsBehind, FormHasToken, IdleSteps, AwaitedIsKept, Send!Awaited,
        ReviewIsCurrent, Send!FindingIsCurrent,
        Send!KeyOf
<1> QED
    BY <1>1, <1>3, <1>4, JobsAreKept DEF SendInv

LEMMA ContinueKeeps == ASSUME SendInv, Send!Continue PROVE SendInv'
<1>1. UNCHANGED <<sendStep, token, form, unsigned, check, report, ack, consent, job, blacklist>>
    BY DEF Send!Continue, Send!review
<1>2. /\ sendStep = "input" /\ ~sendLoading /\ form # Nil /\ sendLoading' = TRUE
      /\ build' = [token |-> token, to |-> form.to, amount |-> form.amount]
    BY DEF Send!Continue
<1>3. token \in Token /\ token # Nil /\ form \in Send!Form
    BY <1>2 DEF SendInv, Send!TypeOK, FormHasToken
<1>4. build' \in Send!Tx /\ build' # Nil
    BY <1>2, <1>3, SendFacts DEF Send!Tx, Send!Form
<1>5. build = Nil /\ \A j \in Job : ~Send!Awaited(j)
    BY <1>2 DEF SendInv, Send!OneRequestAtATime
<1>6. Send!TypeOK' /\ Send!OneRequestAtATime'
    BY <1>1, <1>2, <1>4, <1>5 DEF SendInv, Send!TypeOK, Send!OneRequestAtATime, Send!Awaited
<1>7. BuildIsBehind' /\ FormHasToken' /\ IdleSteps' /\ AwaitedIsKept' /\ ReviewIsCurrent'
    BY <1>1, <1>2, <1>3
    DEF SendInv, BuildIsBehind, FormHasToken, IdleSteps, AwaitedIsKept, Send!Awaited,
        ReviewIsCurrent, Send!FindingIsCurrent,
        Send!KeyOf
<1> QED
    BY <1>1, <1>6, <1>7, JobsAreKept DEF SendInv

LEMMA NavigateKeeps == ASSUME SendInv, Send!Navigate PROVE SendInv'
<1>1. UNCHANGED <<token, form, unsigned, sendLoading, build, check, report, ack, consent, job,
                  blacklist>>
    BY DEF Send!Navigate, Send!GoBack, Send!Turn, Send!review
<1>2. \/ sendStep = "review" /\ sendStep' \in {"input", "password"}
      \/ sendStep = "password" /\ sendStep' = "review"
      \/ sendStep' = "select"
    BY DEF Send!Navigate, Send!GoBack, Send!Turn
<1>3. Send!TypeOK' /\ Send!OneRequestAtATime'
    BY <1>1, <1>2 DEF SendInv, Send!TypeOK, Send!Step, Send!OneRequestAtATime, Send!Awaited
<1>4. BuildIsBehind' /\ FormHasToken' /\ IdleSteps' /\ AwaitedIsKept' /\ ReviewIsCurrent'
    BY <1>1, <1>2
    DEF SendInv, Send!TypeOK, BuildIsBehind, FormHasToken, IdleSteps, AwaitedIsKept, Send!Awaited,
        ReviewIsCurrent, Send!FindingIsCurrent,
        Send!KeyOf
<1> QED
    BY <1>1, <1>3, <1>4, JobsAreKept DEF SendInv

LEMMA BuiltKeeps == ASSUME SendInv, Send!Built PROVE SendInv'
<1>1. UNCHANGED <<token, form, job, blacklist>>
    BY DEF Send!Built
<1>2. /\ build # Nil /\ unsigned' = build /\ sendStep' = "review"
      /\ sendLoading' = FALSE /\ build' = Nil /\ Send!Reviewed(build, token)
    BY DEF Send!Built
<1>3. /\ ack' \in BOOLEAN /\ consent' \in Send!Consent \cup {Nil} /\ check' \in Send!Key \cup {Nil}
      /\ report' \in Send!Report \cup {Nil} /\ ReviewIsCurrent'
    BY <1>1, <1>2, ReviewedKeeps DEF SendInv, Send!TypeOK
<1>4. form # Nil /\ token # Nil /\ \A j \in Job : ~Send!Awaited(j)
    BY <1>2 DEF SendInv, BuildIsBehind, Send!OneRequestAtATime
<1>5. Send!TypeOK' /\ Send!OneRequestAtATime'
    BY <1>1, <1>2, <1>3, <1>4 DEF SendInv, Send!TypeOK, Send!Step, Send!OneRequestAtATime,
                                  Send!Awaited
<1>6. BuildIsBehind' /\ FormHasToken' /\ IdleSteps' /\ AwaitedIsKept'
    BY <1>1, <1>2, <1>4 DEF SendInv, BuildIsBehind, FormHasToken, IdleSteps, AwaitedIsKept,
                            Send!Awaited
<1> QED
    BY <1>1, <1>3, <1>5, <1>6, JobsAreKept DEF SendInv

LEMMA BuildFailsKeeps == ASSUME SendInv, Send!BuildFails PROVE SendInv'
<1>1. UNCHANGED <<sendStep, token, form, unsigned, check, report, ack, consent, job, blacklist>>
    BY DEF Send!BuildFails, Send!review
<1>2. build # Nil /\ sendLoading' = FALSE /\ build' = Nil
    BY DEF Send!BuildFails
<1>3. \A j \in Job : ~Send!Awaited(j)
    BY <1>2 DEF SendInv, Send!OneRequestAtATime
<1>4. Send!TypeOK' /\ Send!OneRequestAtATime'
    BY <1>1, <1>2, <1>3 DEF SendInv, Send!TypeOK, Send!OneRequestAtATime, Send!Awaited
<1>5. BuildIsBehind' /\ FormHasToken' /\ IdleSteps' /\ AwaitedIsKept' /\ ReviewIsCurrent'
    BY <1>1, <1>2
    DEF SendInv, BuildIsBehind, FormHasToken, IdleSteps, AwaitedIsKept, Send!Awaited,
        ReviewIsCurrent, Send!FindingIsCurrent,
        Send!KeyOf
<1> QED
    BY <1>1, <1>4, <1>5, JobsAreKept DEF SendInv

\* The box and the answers to the checks.
LEMMA ReviewKeeps == ASSUME SendInv, Send!Tick \/ Send!CheckReturns PROVE SendInv'
<1>1. UNCHANGED <<sendStep, token, form, unsigned, sendLoading, build, job, blacklist>>
    BY DEF Send!Tick, Send!CheckReturns, Send!page
<1>2. ASSUME Send!Tick PROVE Send!TypeOK' /\ ReviewIsCurrent'
    <2>1. ack' = ~ack /\ check' = check /\ report' = report
        BY <1>2 DEF Send!Tick
    <2>2. /\ consent' = IF ack THEN Nil
                          ELSE [of |-> Send!KeyOf(unsigned, token),
                                shown |-> CASE report.of = Send!KeyOf(unsigned, token) -> "its own"
                                            [] /\ report.of # Send!KeyOf(unsigned, token)
                                               /\ check # Nil -> "an earlier one"
                                            [] OTHER -> "none of it"]
          /\ report # Nil /\ sendStep = "password"
        BY <1>2 DEF Send!Tick, Send!RequiresAcknowledge
    <2>3. unsigned # Nil /\ token # Nil /\ Send!KeyOf(unsigned, token) \in Send!Key
        BY <2>2, KeyType DEF SendInv, Send!TypeOK
    <2>6. ack \/ consent' \in Send!Consent
        BY <2>2, <2>3 DEF Send!Consent
    <2>4. Send!TypeOK'
        BY <1>1, <2>1, <2>2, <2>6 DEF SendInv, Send!TypeOK
    <2>7. Send!KeyOf(unsigned, token)' = Send!KeyOf(unsigned, token)
        BY <1>1 DEF Send!KeyOf
    <2>8. Send!KeyOf(unsigned, token) # Nil
        BY <2>3, SendFacts
    <2>9. report.of = Send!KeyOf(unsigned, token) \/ check # Nil
        BY <2>2, <2>8 DEF SendInv, ReviewIsCurrent, Send!FindingIsCurrent
    <2>10. ~ack =>
               /\ consent'.of = Send!KeyOf(unsigned, token)
               /\ consent'.shown \in {"its own", "an earlier one"}
        BY <2>2, <2>9
    <2>5. ReviewIsCurrent'
        BY <2>1, <2>7, <2>10 DEF SendInv, ReviewIsCurrent, Send!FindingIsCurrent
    <2> QED
        BY <2>4, <2>5
<1>3. ASSUME Send!CheckReturns PROVE Send!TypeOK' /\ ReviewIsCurrent'
    <2>1. ack' = ack /\ consent' = consent /\ check' = Nil
        BY <1>3 DEF Send!CheckReturns
    <2>2. check \in Send!Key /\ (check.to \in blacklist) \in BOOLEAN
        BY <1>3 DEF Send!CheckReturns, SendInv, Send!TypeOK
    <2>5. [of |-> check, danger |-> check.to \in blacklist] \in Send!Report
        BY <2>2 DEF Send!Report
    <2>3. report' \in Send!Report \cup {Nil}
        BY <1>3, <2>5 DEF Send!CheckReturns
    <2>4. Send!TypeOK'
        BY <1>1, <2>1, <2>3 DEF SendInv, Send!TypeOK
    <2>6. Send!KeyOf(unsigned, token)' = Send!KeyOf(unsigned, token)
        BY <1>1 DEF Send!KeyOf
    <2>7. check = Send!KeyOf(unsigned, token)
        BY <1>3 DEF SendInv, ReviewIsCurrent, Send!CheckReturns
    <2>8. report' = Nil \/ report'.of = check
        BY <1>3 DEF Send!CheckReturns
    <2>9. ReviewIsCurrent'
        BY <2>1, <2>6, <2>7, <2>8 DEF SendInv, ReviewIsCurrent, Send!FindingIsCurrent
    <2> QED
        BY <2>4, <2>9
<1>4. Send!OneRequestAtATime' /\ BuildIsBehind' /\ FormHasToken' /\ IdleSteps' /\ AwaitedIsKept'
    BY <1>1
    DEF SendInv, Send!OneRequestAtATime, BuildIsBehind, FormHasToken, IdleSteps, AwaitedIsKept,
        Send!Awaited
<1> QED
    BY <1>1, <1>2, <1>3, <1>4, JobsAreKept DEF SendInv

LEMMA ResetKeeps == ASSUME SendInv, Send!Reset PROVE SendInv'
<1>1. UNCHANGED <<sendLoading, build, job, blacklist>>
    BY DEF Send!Reset
<1>2. /\ sendStep = "error" /\ sendStep' = "select" /\ token' = Nil /\ form' = Nil
      /\ unsigned' = Nil /\ Send!Reviewed(Nil, Nil)
    BY DEF Send!Reset, Send!Fresh
<1>3. /\ ack' \in BOOLEAN /\ consent' \in Send!Consent \cup {Nil} /\ check' \in Send!Key \cup {Nil}
      /\ report' \in Send!Report \cup {Nil} /\ ReviewIsCurrent'
    BY <1>2, ReviewedKeeps DEF SendInv, Send!TypeOK
<1>4. build = Nil /\ \A j \in Job : ~Send!Awaited(j)
    BY <1>2 DEF SendInv, IdleSteps, Send!OneRequestAtATime
<1>5. Send!TypeOK' /\ Send!OneRequestAtATime'
    BY <1>1, <1>2, <1>3, <1>4 DEF SendInv, Send!TypeOK, Send!Step, Send!OneRequestAtATime,
                                  Send!Awaited
<1>6. BuildIsBehind' /\ FormHasToken' /\ IdleSteps' /\ AwaitedIsKept'
    BY <1>1, <1>2, <1>4 DEF SendInv, BuildIsBehind, FormHasToken, IdleSteps, AwaitedIsKept,
                            Send!Awaited
<1> QED
    BY <1>1, <1>3, <1>5, <1>6, JobsAreKept DEF SendInv

LEMMA UpdateKeeps == ASSUME SendInv, Send!Update PROVE SendInv'
<1>1. UNCHANGED <<sendStep, token, form, unsigned, sendLoading, build, check, report, ack,
                  consent, job>>
    BY DEF Send!Update, Send!page, Send!review
<1>2. blacklist' \in SUBSET Recipient
    BY SendFacts DEF Send!Update
<1>3. Send!TypeOK' /\ Send!OneRequestAtATime'
    BY <1>1, <1>2 DEF SendInv, Send!TypeOK, Send!OneRequestAtATime, Send!Awaited
<1>4. BuildIsBehind' /\ FormHasToken' /\ IdleSteps' /\ AwaitedIsKept' /\ ReviewIsCurrent'
    BY <1>1
    DEF SendInv, BuildIsBehind, FormHasToken, IdleSteps, AwaitedIsKept, Send!Awaited,
        ReviewIsCurrent, Send!FindingIsCurrent,
        Send!KeyOf
<1> QED
    BY <1>1, <1>3, <1>4, JobsAreKept DEF SendInv

-----------------------------------------------------------------------------
\* The page is taken away, by its parent or by a broadcast that succeeded:
\* jobs go on, disowned, but for those that end with it.
LEMMA UnmountKeeps ==
    ASSUME SendInv, Send!Unmount, blacklist' = blacklist, NEW over \in SUBSET Job,
           job' = [i \in Job |-> IF i \in over THEN Send!NoJob ELSE [job[i] EXCEPT !.own = FALSE]]
    PROVE  SendInv'
<1>1. /\ sendStep' = "closed" /\ token' = Nil /\ form' = Nil /\ unsigned' = Nil
      /\ sendLoading' = FALSE /\ build' = Nil /\ Send!Reviewed(Nil, Nil)
    BY DEF Send!Unmount, Send!Fresh
<1>2. /\ ack' \in BOOLEAN /\ consent' \in Send!Consent \cup {Nil} /\ check' \in Send!Key \cup {Nil}
      /\ report' \in Send!Report \cup {Nil} /\ ReviewIsCurrent'
    BY <1>1, ReviewedKeeps DEF SendInv, Send!TypeOK
<1>3. \A i \in Job : [job[i] EXCEPT !.own = FALSE] \in Send!JobState
    BY DEF SendInv, Send!TypeOK, Send!JobState
<1>4. job' \in [Job -> Send!JobState]
    BY <1>3, NoJobType
<1>5. \A i \in Job : ~job'[i].own
    BY NoJobType DEF SendInv, Send!TypeOK, Send!JobState
<1>6. Send!TypeOK'
    BY <1>1, <1>2, <1>4 DEF SendInv, Send!TypeOK, Send!Step
<1>7. Send!OneRequestAtATime' /\ BuildIsBehind' /\ FormHasToken' /\ IdleSteps' /\ AwaitedIsKept'
    BY <1>1, <1>5 DEF Send!OneRequestAtATime, BuildIsBehind, FormHasToken, IdleSteps,
                      AwaitedIsKept, Send!Awaited
<1>8. ASSUME NEW i \in Job, job'[i].step # "none"
      PROVE  /\ job'[i].step = job[i].step /\ job'[i].tx = job[i].tx /\ job'[i].chain = job[i].chain
             /\ job'[i].ack = job[i].ack /\ job'[i].consent = job[i].consent
    BY <1>8, NoJobType DEF SendInv, Send!TypeOK, Send!JobState
<1>9. JobIsConsented'
    <2> SUFFICES ASSUME NEW i \in Job, job'[i].step # "none"
                 PROVE  /\ job'[i].tx # Nil
                        /\ job'[i].ack =>
                            /\ job'[i].consent.of = JobKey(i)'
                            /\ job'[i].consent.shown \in {"its own", "an earlier one"}
        BY DEF JobIsConsented
    <2>1. JobKey(i)' = JobKey(i)
        BY <1>8 DEF JobKey
    <2>2. /\ job[i].tx # Nil
          /\ job[i].ack =>
              /\ job[i].consent.of = JobKey(i)
              /\ job[i].consent.shown \in {"its own", "an earlier one"}
        BY <1>8 DEF SendInv, JobIsConsented
    <2> QED
        BY <1>8, <2>1, <2>2
<1> QED
    BY <1>2, <1>6, <1>7, <1>9 DEF SendInv

LEMMA CloseKeeps == ASSUME SendInv, Send!Close PROVE SendInv'
<1>1. job' = [i \in Job |-> IF i \in {} THEN Send!NoJob ELSE [job[i] EXCEPT !.own = FALSE]]
    BY DEF Send!Close
<1>2. {} \in SUBSET Job
    OBVIOUS
<1>3. Send!Unmount /\ blacklist' = blacklist
    BY DEF Send!Close
<1> QED
    BY <1>1, <1>2, <1>3, UnmountKeeps

LEMMA BroadcastedKeeps == ASSUME SendInv, NEW j \in Job, Send!Broadcasted(j)
    PROVE SendInv'
<1>1. job' = [i \in Job |-> IF i \in {j} THEN Send!NoJob ELSE [job[i] EXCEPT !.own = FALSE]]
    BY DEF Send!Broadcasted
<1> QED
    BY <1>1, UnmountKeeps DEF Send!Broadcasted

-----------------------------------------------------------------------------
\* A signature is asked for.
LEMMA SignTransactionKeeps == ASSUME SendInv, NEW j \in Job, Send!SignTransaction(j)
    PROVE SendInv'
<1> DEFINE new == [step |-> "sign", own |-> TRUE, tx |-> unsigned, chain |-> ChainOf[token],
                   ack |-> ack, consent |-> consent]
<1>1. UNCHANGED <<token, form, unsigned, build, check, report, ack, consent, blacklist>>
    BY DEF Send!SignTransaction, Send!review
<1>2. /\ sendStep = "password" /\ sendStep' = "signing" /\ sendLoading' = TRUE
      /\ unsigned # Nil /\ token # Nil /\ job[j].step = "none"
      /\ job' = [job EXCEPT ![j] = new]
    BY DEF Send!SignTransaction
<1>3. new \in Send!JobState
    <2>1. /\ unsigned \in Send!Tx /\ ChainOf[token] \in Chain /\ ack \in BOOLEAN
          /\ consent \in Send!Consent \cup {Nil}
        BY <1>2, SendFacts DEF SendInv, Send!TypeOK
    <2> QED
        BY <2>1 DEF Send!JobState
<1>4. /\ new.step = "sign" /\ new.own /\ new.tx = unsigned /\ new.chain = ChainOf[token]
      /\ new.consent = consent
    OBVIOUS
<1>5. new.ack => ack
    OBVIOUS
<1> HIDE DEF new
<1>6. job' \in [Job -> Send!JobState] /\ job'[j] = new /\ \A i \in Job : i # j => job'[i] = job[i]
    BY <1>2, <1>3 DEF SendInv, Send!TypeOK
<1>7. build = Nil /\ form # Nil /\ \A i \in Job : ~Send!Awaited(i)
    BY <1>2 DEF SendInv, Send!TypeOK, IdleSteps, Send!OneRequestAtATime
<1>8. Send!TypeOK'
    BY <1>1, <1>2, <1>6, <1>7 DEF SendInv, Send!TypeOK, Send!Step
<1>9. Send!Awaited(j)' /\ \A i \in Job : i # j => ~Send!Awaited(i)'
    BY <1>4, <1>6, <1>7 DEF Send!Awaited
<1>10. Send!OneRequestAtATime'
    BY <1>1, <1>2, <1>7, <1>9 DEF Send!OneRequestAtATime
<1>11. BuildIsBehind' /\ FormHasToken' /\ IdleSteps' /\ AwaitedIsKept' /\ ReviewIsCurrent'
    BY <1>1, <1>2, <1>7
    DEF SendInv, BuildIsBehind, FormHasToken, IdleSteps, AwaitedIsKept, ReviewIsCurrent, Send!FindingIsCurrent,
        Send!KeyOf
<1>13. new.ack =>
           /\ new.consent.of =
                  [chain |-> new.chain, to |-> new.tx.to,
                   data |-> IF new.tx.token \in Erc20 THEN new.tx.amount ELSE Nil]
           /\ new.consent.shown \in {"its own", "an earlier one"}
    BY <1>2, <1>4, <1>5 DEF SendInv, ReviewIsCurrent, Send!FindingIsCurrent,
        Send!KeyOf
<1>14. JobIsConsented'
    BY <1>2, <1>4, <1>6, <1>13 DEF SendInv, JobIsConsented, JobKey
<1> QED
    BY <1>8, <1>10, <1>11, <1>14 DEF SendInv

LEMMA SendSignedKeeps == ASSUME SendInv, NEW j \in Job, Send!Signed(j)
    PROVE SendInv'
<1> DEFINE new == [job[j] EXCEPT !.step = "broadcast"]
<1>1. UNCHANGED <<token, form, unsigned, build, check, report, ack, consent, blacklist>>
    BY DEF Send!Signed, Send!review
<1>2. /\ job[j].step = "sign" /\ ChainOf[job[j].tx.token] = job[j].chain
      /\ job' = [job EXCEPT ![j] = new]
      /\ sendStep' = IF job[j].own THEN "broadcasting" ELSE sendStep
      /\ sendLoading' = (sendLoading \/ job[j].own)
    BY DEF Send!Signed, Send!ChainMatches
<1>3. job[j] \in Send!JobState
    BY DEF SendInv, Send!TypeOK
<1>4. new \in Send!JobState
    BY <1>3 DEF Send!JobState
<1>5. /\ new.step = "broadcast" /\ new.tx = job[j].tx /\ new.chain = job[j].chain
      /\ new.consent = job[j].consent
    BY <1>3 DEF Send!JobState
<1>6. (new.own <=> job[j].own) /\ (new.ack <=> job[j].ack)
    BY <1>3 DEF Send!JobState
<1> HIDE DEF new
<1>7. job' \in [Job -> Send!JobState] /\ job'[j] = new /\ \A i \in Job : i # j => job'[i] = job[i]
    BY <1>2, <1>4 DEF SendInv, Send!TypeOK
<1>8. \A i \in Job : Send!Awaited(i)' <=> Send!Awaited(i)
    BY <1>2, <1>5, <1>6, <1>7 DEF Send!Awaited
<1>9. job[j].own => sendLoading /\ build = Nil /\ Send!Awaited(j)
    BY <1>2 DEF SendInv, Send!OneRequestAtATime, Send!Awaited
<1>10. sendLoading' <=> sendLoading
    BY <1>2, <1>9
<1>11. sendLoading' \in BOOLEAN
    BY <1>2
<1>12. Send!TypeOK'
    BY <1>1, <1>2, <1>7, <1>11 DEF SendInv, Send!TypeOK, Send!Step
<1>13. Send!OneRequestAtATime'
    BY <1>1, <1>8, <1>10 DEF SendInv, Send!OneRequestAtATime
<1>14. BuildIsBehind' /\ FormHasToken' /\ IdleSteps'
    BY <1>1, <1>2, <1>9, <1>10 DEF SendInv, BuildIsBehind, FormHasToken, IdleSteps
<1>15. AwaitedIsKept' /\ ReviewIsCurrent'
    BY <1>1, <1>8 DEF SendInv, AwaitedIsKept, ReviewIsCurrent, Send!FindingIsCurrent,
        Send!KeyOf
<1>17. JobIsConsented'
    BY <1>2, <1>5, <1>6, <1>7 DEF SendInv, JobIsConsented, JobKey
<1> QED
    BY <1>12, <1>13, <1>14, <1>15, <1>17 DEF SendInv

\* A signature or a broadcast that fails.
LEMMA EndedKeeps ==
    ASSUME SendInv, NEW j \in Job, NEW s \in {"password", "error"},
           job[j].step # "none", Send!Ended(j, s)
    PROVE  SendInv'
<1>1. UNCHANGED <<token, form, unsigned, build, check, report, ack, consent, blacklist>>
    BY DEF Send!Ended, Send!review
<1>2. /\ job' = [job EXCEPT ![j] = Send!NoJob]
      /\ sendStep' = IF job[j].own THEN s ELSE sendStep
      /\ sendLoading' = (sendLoading /\ ~job[j].own)
    BY DEF Send!Ended
<1>3. job' \in [Job -> Send!JobState] /\ job'[j] = Send!NoJob /\ \A i \in Job : i # j => job'[i] = job[i]
    BY <1>2, NoJobType DEF SendInv, Send!TypeOK
<1>4. ~Send!Awaited(j)' /\ \A i \in Job : i # j => (Send!Awaited(i)' <=> Send!Awaited(i))
    BY <1>3, NoJobType DEF Send!Awaited
<1>5. job[j].own =>
          /\ sendLoading /\ build = Nil /\ unsigned # Nil /\ form # Nil /\ token # Nil
          /\ \A i \in Job : i # j => ~Send!Awaited(i)
    BY DEF SendInv, Send!OneRequestAtATime, AwaitedIsKept, Send!Awaited
<1>6. sendLoading' \in BOOLEAN
    BY <1>2
<1>7. Send!TypeOK'
    BY <1>1, <1>2, <1>3, <1>5, <1>6 DEF SendInv, Send!TypeOK, Send!Step
<1>8. Send!OneRequestAtATime'
    <2>1. CASE job[j].own
        BY <1>1, <1>2, <1>4, <1>5, <2>1 DEF Send!OneRequestAtATime
    <2>2. CASE ~job[j].own
        <3>1. ~Send!Awaited(j)
            BY <2>2 DEF Send!Awaited
        <3> QED
            BY <1>1, <1>2, <1>4, <2>2, <3>1 DEF SendInv, Send!OneRequestAtATime
    <2> QED
        BY <2>1, <2>2
<1>9. BuildIsBehind' /\ FormHasToken' /\ IdleSteps'
    BY <1>1, <1>2, <1>5 DEF SendInv, BuildIsBehind, FormHasToken, IdleSteps
<1>10. AwaitedIsKept' /\ ReviewIsCurrent'
    BY <1>1, <1>4 DEF SendInv, AwaitedIsKept, ReviewIsCurrent, Send!FindingIsCurrent,
        Send!KeyOf
<1>11. JobIsConsented'
    BY <1>3, NoJobType DEF SendInv, JobIsConsented, JobKey
<1> QED
    BY <1>7, <1>8, <1>9, <1>10, <1>11 DEF SendInv

LEMMA IdleKeeps == ASSUME SendInv, UNCHANGED Send!vars PROVE SendInv'
<1>1. UNCHANGED <<sendStep, token, form, unsigned, sendLoading, build, check, report, ack,
                  consent, job,
                  blacklist>>
    BY DEF Send!vars, Send!page, Send!review
<1>2. Send!TypeOK' /\ Send!OneRequestAtATime'
    BY <1>1 DEF SendInv, Send!TypeOK, Send!OneRequestAtATime, Send!Awaited
<1>3. BuildIsBehind' /\ FormHasToken' /\ IdleSteps' /\ AwaitedIsKept' /\ ReviewIsCurrent'
    BY <1>1
    DEF SendInv, BuildIsBehind, FormHasToken, IdleSteps, AwaitedIsKept, Send!Awaited,
        ReviewIsCurrent, Send!FindingIsCurrent,
        Send!KeyOf
<1> QED
    BY <1>1, <1>2, <1>3, JobsAreKept DEF SendInv

\* No step leaves the invariant.
LEMMA SendNext == ASSUME SendInv, [Send!Next]_(Send!vars) PROVE SendInv'
<1>1. ASSUME NEW t \in Token, Send!SelectToken(t) PROVE SendInv'
    BY <1>1, SelectTokenKeeps
<1>2. ASSUME NEW f \in Send!Form, Send!Edit(f) PROVE SendInv'
    BY <1>2, EditKeeps
<1>3. ASSUME NEW j \in Job, Send!SignTransaction(j) PROVE SendInv'
    BY <1>3, SignTransactionKeeps
<1>4. ASSUME NEW j \in Job, Send!Signed(j) PROVE SendInv'
    BY <1>4, SendSignedKeeps
<1>5. ASSUME NEW j \in Job, Send!SignFails(j) \/ Send!BroadcastFails(j) PROVE SendInv'
    BY <1>5, EndedKeeps DEF Send!SignFails, Send!BroadcastFails
<1>6. ASSUME NEW j \in Job, Send!Broadcasted(j) PROVE SendInv'
    BY <1>6, BroadcastedKeeps
<1>7. CASE Send!Open \/ Send!Close \/ Send!Continue \/ Send!Navigate \/ Send!Reset \/ Send!Tick \/ Send!Update
    BY <1>7, OpenKeeps, CloseKeeps, ContinueKeeps, NavigateKeeps, ResetKeeps, ReviewKeeps,
       UpdateKeeps
<1>8. CASE Send!CheckReturns \/ Send!Built \/ Send!BuildFails
    BY <1>8, ReviewKeeps, BuiltKeeps, BuildFailsKeeps
<1>9. CASE UNCHANGED Send!vars
    BY <1>9, IdleKeeps
<1> QED
    BY <1>1, <1>2, <1>3, <1>4, <1>5, <1>6, <1>7, <1>8, <1>9 DEF Send!Next, Send!Backend

LEMMA SendAlways == SendSpec => []SendInv
<1>1. Send!Init => SendInv
    BY SendInit
<1>2. SendInv /\ [Send!Next]_(Send!vars) => SendInv'
    BY SendNext
<1> QED
    BY <1>1, <1>2, PTL DEF SendSpec, Send!Spec

-----------------------------------------------------------------------------
\* Every variable of the page, its review hook and its jobs keeps its type
\* (SendTransaction.tsx, useSignReview.ts).
THEOREM TypeCorrect == SendSpec => []Send!TypeOK
<1>1. SendInv => Send!TypeOK
    BY DEF SendInv
<1> QED
    BY <1>1, SendAlways, PTL

\* isLoading is set exactly while the page waits for one build or for one
\* signature (SendTransaction.tsx:391-514).
THEOREM OneRequest == SendSpec => []OneRequestAtATime
<1>1. SendInv => OneRequestAtATime
    BY DEF SendInv, OneRequestAtATime
<1> QED
    BY <1>1, SendAlways, PTL

\* A finding on screen is about the request the page has, or the check of that
\* request is still out (useSignReview.ts:48-77, SendTransaction.tsx:322-341).
THEOREM FindingCurrent == SendSpec => []FindingIsCurrent
<1>1. SendInv => FindingIsCurrent
    BY DEF SendInv, ReviewIsCurrent, FindingIsCurrent
<1> QED
    BY <1>1, SendAlways, PTL

\* The gate signs for a recipient that is on the blacklist by then only with a
\* tick given for this very request, on its chain, under the finding about it or
\* before its own check had answered (useSignReview.ts:48-77, signgate.go:44-75,
\* adapter.go:505-530).
THEOREM DangerConsented == SendSpec => DangerIsConsented
<1> DEFINE A == \A j \in Job :
          /\ job[j].step = "sign"
          /\ job'[j].step = "broadcast"
          /\ job[j].tx.to \in blacklist
          => /\ job[j].ack
             /\ job[j].consent.of = Send!KeyOf(job[j].tx, job[j].tx.token)
             /\ job[j].consent.shown \in {"its own", "an earlier one"}
<1>1. ASSUME SendInv, [Send!Next]_(Send!vars) PROVE [A]_(Send!vars)
    <2> SUFFICES ASSUME NEW j \in Job, job[j].step = "sign", job'[j].step = "broadcast",
                        job[j].tx.to \in blacklist
                 PROVE  /\ job[j].ack
                        /\ job[j].consent.of = Send!KeyOf(job[j].tx, job[j].tx.token)
                        /\ job[j].consent.shown \in {"its own", "an earlier one"}
        OBVIOUS
    <2>0. job \in [Job -> Send!JobState]
        BY <1>1 DEF SendInv, Send!TypeOK
    <2>1. Send!Signed(j)
        <3>1. ASSUME job' = job PROVE FALSE
            BY <3>1
        <3>2. ASSUME NEW i \in Job, Send!SignTransaction(i) PROVE FALSE
            BY <2>0, <3>2 DEF Send!SignTransaction
        <3>3. ASSUME NEW i \in Job, Send!Signed(i), i # j PROVE FALSE
            BY <2>0, <3>3 DEF Send!Signed
        <3>4. ASSUME NEW i \in Job, Send!SignFails(i) \/ Send!BroadcastFails(i) PROVE FALSE
            BY <2>0, <3>4, NoJobType DEF Send!SignFails, Send!BroadcastFails, Send!Ended
        <3>5. ASSUME NEW i \in Job, Send!Broadcasted(i) PROVE FALSE
            BY <2>0, <3>5, NoJobType DEF Send!Broadcasted, Send!JobState
        <3>6. ASSUME Send!Close PROVE FALSE
            BY <2>0, <3>6 DEF Send!Close, Send!JobState
        <3>7. CASE \/ Send!Open \/ Send!Continue \/ Send!Navigate \/ Send!Reset \/ Send!Tick
                   \/ Send!Update \/ Send!CheckReturns
                   \/ Send!Built \/ Send!BuildFails \/ UNCHANGED Send!vars
                   \/ \E t \in Token : Send!SelectToken(t)
                   \/ \E f \in Send!Form : Send!Edit(f)
            <4>1. job' = job
                BY <3>7 DEF Send!Open, Send!Continue, Send!Navigate, Send!GoBack, Send!Turn,
                            Send!Reset, Send!Tick, Send!Update, Send!CheckReturns,
                    Send!Built, Send!BuildFails, Send!vars, Send!SelectToken, Send!Edit
            <4> QED
                BY <3>1, <4>1
        <3> QED
            BY <1>1, <3>2, <3>3, <3>4, <3>5, <3>6, <3>7 DEF Send!Next, Send!Backend
    <2>2. job[j].ack
        BY <2>1 DEF Send!Signed, Send!Authorize
    <2>6. ChainOf[job[j].tx.token] = job[j].chain
        BY <2>1 DEF Send!Signed, Send!ChainMatches
    <2>3. /\ job[j].tx # Nil /\ job[j].consent.of = JobKey(j)
          /\ job[j].consent.shown \in {"its own", "an earlier one"}
        BY <1>1, <2>2 DEF SendInv, JobIsConsented
    <2>4. job[j].tx.token # Nil
        BY <2>0, <2>3, SendFacts DEF Send!JobState, Send!Tx
    <2>5. Send!KeyOf(job[j].tx, job[j].tx.token) =
              [chain |-> ChainOf[job[j].tx.token], to |-> job[j].tx.to,
               data |-> IF job[j].tx.token \in Erc20 THEN job[j].tx.amount ELSE Nil]
        BY <2>3, <2>4 DEF Send!KeyOf
    <2> QED
        BY <2>2, <2>3, <2>5, <2>6 DEF JobKey
<1> QED
    BY <1>1, SendAlways, PTL DEF SendSpec, Send!Spec, DangerIsConsented, Send!DangerIsConsented
=============================================================================
