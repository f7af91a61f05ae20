--------------------------- MODULE BroadcastProofs ---------------------------
(***************************************************************************)
(* For any endpoints, thresholds, payments and faults: what was recorded   *)
(* is not sent again and leaves no gap in the nonces, and a call fails     *)
(* only when every endpoint failed in it.                                  *)
(***************************************************************************)
EXTENDS Broadcast, FiniteSetTheorems, TLAPS

\* The pages agree with the call that is under way and with the store.
PagesFollow ==
    /\ call # None /\ call.kind = "quote" => page[call.of].tx \in Tx
    /\ \A p \in Payment :
          /\ page[p].step \in {"built", "sending", "sent"} => page[p].tx \in Tx
          /\ page[p].step = "sent" => page[p].tx \in store
          /\ page[p].step = "sending" =>
                /\ call # None /\ call.kind = "send" /\ call.of = p
                /\ page[p].tx \notin store
    /\ call # None /\ call.kind = "send" => page[call.of].step = "sending"
    /\ call # None /\ call.kind = "nonce" => page[call.of].step = "building"

\* A nonce is asked for only while one is left.
NonceLeft == call # None /\ call.kind = "nonce" => \E n \in Nonce : ~Taken(n)

\* An answer that counts as sent came from a node with that nonce.
AnswerIsTrue ==
    call # None /\ call.kind = "send" /\ last \in {"known", "underpriced"}
        => Taken(page[call.of].tx.nonce)

IInv == TypeOK /\ PagesFollow /\ NonceLeft /\ AnswerIsTrue /\ NonceIsTaken

-----------------------------------------------------------------------------
(***************************************************************************)
(* The client.                                                             *)
(***************************************************************************)
LEMMA NoneIsNothing == None \notin Endpoint /\ None \notin Call /\ None \notin Error
    BY NoneAssumption, CallAssumption

LEMMA RotationStays == ASSUME NEW e \in Endpoint PROVE (e + 1) % N \in Endpoint
    BY FailoverAssumption DEF Endpoint

LEMMA AskKeeps == ASSUME FailoverTypeOK, Ask PROVE FailoverTypeOK'
<1>1. PICK e \in Endpoint : AskHealthy(e) \/ AskUnhealthy(e)
    BY DEF Ask
<1>2. CASE AskHealthy(e)
    BY <1>2, RotationStays DEF AskHealthy, health, FailoverTypeOK
<1>3. CASE AskUnhealthy(e)
    BY <1>3 DEF AskUnhealthy, health, FailoverTypeOK
<1> QED
    BY <1>1, <1>2, <1>3

LEMMA SucceedKeeps == ASSUME FailoverTypeOK, Succeed PROVE FailoverTypeOK'
<1>1. asked \in Endpoint
    BY DEF Succeed, FailoverTypeOK
<1>2. lead[asked] \in -Bound .. Bound
    BY <1>1 DEF FailoverTypeOK
<1>3. AtLeast(lead[asked] - 1, -Bound) \in -Bound .. Bound
    BY <1>2, FailoverAssumption DEF AtLeast
<1>4. lead' \in [Endpoint -> -Bound .. Bound]
    BY <1>1, <1>3 DEF Succeed, RecordSuccess, FailoverTypeOK
<1>5. circuit' \in [Endpoint -> {"closed", "open", "expired"}]
    BY <1>1 DEF Succeed, RecordSuccess, FailoverTypeOK
<1> QED
    BY <1>4, <1>5 DEF Succeed, FailoverTypeOK

LEMMA FailKeeps == ASSUME FailoverTypeOK, Fail PROVE FailoverTypeOK'
<1>1. asked \in Endpoint
    BY DEF Fail, FailoverTypeOK
<1>2. lead[asked] \in -Bound .. Bound
    BY <1>1 DEF FailoverTypeOK
<1>3. AtMost(lead[asked] + 1, Bound) \in -Bound .. Bound
    BY <1>2, FailoverAssumption DEF AtMost
<1>4. lead' \in [Endpoint -> -Bound .. Bound]
    BY <1>1, <1>3 DEF Fail, RecordFailure, FailoverTypeOK
<1>5. circuit' \in [Endpoint -> {"closed", "open", "expired"}]
    BY <1>1 DEF Fail, RecordFailure, FailoverTypeOK
<1> QED
    BY <1>4, <1>5 DEF Fail, FailoverTypeOK

LEMMA GiveUpKeeps == ASSUME FailoverTypeOK, GiveUp PROVE FailoverTypeOK'
    BY DEF GiveUp, health, Exhausted, FailoverTypeOK

LEMMA WindowKeeps ==
    ASSUME FailoverTypeOK, NEW e \in Endpoint, WindowPasses(e)
    PROVE  FailoverTypeOK'
    BY DEF WindowPasses, client, FailoverTypeOK

LEMMA StartKeeps ==
    ASSUME FailoverTypeOK, UNCHANGED <<client, health>>
    PROVE  FailoverTypeOK'
    BY DEF client, health, FailoverTypeOK

LEMMA FailoverStarts ==
    /\ FailoverInit => FailoverTypeOK
    /\ 0 \in Endpoint
<1>1. 0 \in Endpoint /\ 0 \in -Bound .. Bound
    BY FailoverAssumption DEF Endpoint
<1> QED
    BY <1>1 DEF FailoverInit, FailoverTypeOK

-----------------------------------------------------------------------------
(***************************************************************************)
(* The nodes.                                                              *)
(***************************************************************************)
\* A node with a free nonce names a nonce.
LEMMA PendingIsNonce ==
    ASSUME NEW e \in Endpoint, \E n \in Nonce : ~Taken(n)
    PROVE  Pending(e) \in Nonce
<1> DEFINE S == {n \in Nonce : \A m \in 0 .. n : Has(e, m)}
<1>1. PICK n \in Nonce : ~Has(e, n)
    BY DEF Taken
<1>2. n \in 0 .. n
    BY PaymentAssumption DEF Nonce
<1>3. S \in SUBSET Nonce /\ S # Nonce
    BY <1>1, <1>2
<1>4. IsFiniteSet(Nonce) /\ Cardinality(Nonce) = MaxNonce + 1
    BY FS_Interval, PaymentAssumption DEF Nonce
<1>5. Cardinality(S) <= MaxNonce + 1 /\ Cardinality(S) # MaxNonce + 1
    BY <1>3, <1>4, FS_Subset
<1>6. Cardinality(S) \in Nat
    BY <1>3, <1>4, FS_Subset, FS_CardinalityType
<1> QED
    BY <1>5, <1>6, PaymentAssumption DEF Pending, Nonce

\* The network as a whole forgets no nonce.
LEMMA TakenStays ==
    ASSUME TypeOK, pool' \in [Endpoint -> SUBSET Tx], UNCHANGED mined,
           \A e \in Endpoint : pool[e] \subseteq pool'[e],
           NEW n \in Nonce, Taken(n)
    PROVE  Taken(n)'
    BY DEF Taken, Has

LEMMA MineKeepsTaken ==
    ASSUME TypeOK, NEW e \in Endpoint, NEW x \in Tx, Mine(e, x), NEW n \in Nonce
    PROVE  Taken(n)' <=> Taken(n)
<1>1. Len(mined) \in Nat /\ n \in Nat /\ x.nonce = Len(mined) /\ x \in pool[e]
    BY PaymentAssumption DEF TypeOK, Mine, Nonce
<1>2. x.content \in Content
    BY DEF Tx
<1>3. mined \in Seq(Content) /\ mined' = Append(mined, x.content)
    BY DEF TypeOK, Mine
<1>4. Len(mined') = Len(mined) + 1
    BY <1>2, <1>3
<1>5. \A f \in Endpoint : pool'[f] = {y \in pool[f] : y.nonce # x.nonce}
    BY DEF Mine
<1>6. ASSUME Taken(n) PROVE Taken(n)'
    <2>1. PICK f \in Endpoint : Has(f, n)
        BY <1>6 DEF Taken
    <2>2. CASE n < Len(mined) \/ n = x.nonce
        BY <1>1, <1>4, <2>2 DEF Taken, Has
    <2>3. CASE n # x.nonce /\ \E y \in pool[f] : y.nonce = n
        BY <1>5, <2>3 DEF Taken, Has
    <2> QED
        BY <2>1, <2>2, <2>3 DEF Has
<1>7. ASSUME Taken(n)' PROVE Taken(n)
    <2>1. PICK f \in Endpoint : Has(f, n)'
        BY <1>7 DEF Taken
    <2>2. CASE n < Len(mined')
        <3>1. n < Len(mined) \/ n = x.nonce
            BY <1>1, <1>4, <2>2
        <3> QED
            BY <1>1, <3>1 DEF Taken, Has
    <2>3. CASE \E y \in pool'[f] : y.nonce = n
        BY <1>5, <2>3 DEF Taken, Has
    <2> QED
        BY <2>1, <2>2, <2>3 DEF Has
<1> QED
    BY <1>6, <1>7
-----------------------------------------------------------------------------
(***************************************************************************)
(* One lemma for each kind of step.                                        *)
(***************************************************************************)
LEMMA InitHolds == Init => IInv
<1> SUFFICES ASSUME Init PROVE IInv
    OBVIOUS
<1>1. TypeOK
    <2>1. page \in [Payment -> Page]
        BY DEF Init, Page
    <2>2. pool \in [Endpoint -> SUBSET Tx] /\ mined \in Seq(Content)
        BY DEF Init
    <2>3. faults \in 0 .. MaxFaults
        BY PaymentAssumption DEF Init
    <2> QED
        BY <2>1, <2>2, <2>3, FailoverStarts DEF Init, FailoverInit, TypeOK
<1>2. PagesFollow /\ NonceLeft /\ AnswerIsTrue /\ NonceIsTaken
    BY DEF Init, PagesFollow, NonceLeft, AnswerIsTrue, NonceIsTaken
<1> QED
    BY <1>1, <1>2 DEF IInv

\* What a call is, while there is one.
LEMMA CallFacts ==
    ASSUME TypeOK, call # None
    PROVE  /\ call \in Call
           /\ call.kind \in {"nonce", "quote", "send", "read"}
           /\ call.kind # "read" => call.of \in Payment
    BY DEF TypeOK, Call

LEMMA StartReadKeeps == ASSUME IInv, StartRead PROVE IInv'
<1> DEFINE c == [kind |-> "read", of |-> None]
<1>1. c \in Call /\ c.kind = "read" /\ c # None
    BY NoneIsNothing DEF Call
<1>2. /\ call = None /\ call' = c
      /\ UNCHANGED <<client, health, page, last, missed, store, doubtful, pool, mined, faults>>
    BY DEF StartRead, Start, network
<1> HIDE DEF c
<1>3. TypeOK'
    BY <1>1, <1>2, StartKeeps DEF IInv, TypeOK
<1>4. PagesFollow' /\ NonceLeft' /\ AnswerIsTrue'
    BY <1>1, <1>2 DEF IInv, PagesFollow, NonceLeft, AnswerIsTrue
<1>5. NonceIsTaken'
    BY <1>2 DEF IInv, NonceIsTaken, Taken, Has
<1> QED
    BY <1>3, <1>4, <1>5 DEF IInv

LEMMA StartBuildKeeps == ASSUME IInv, NEW p \in Payment, StartBuild(p) PROVE IInv'
<1> DEFINE c == [kind |-> "nonce", of |-> p]
           new == [step |-> "building", tx |-> None]
<1>1. c \in Call /\ c.kind = "nonce" /\ c.of = p /\ c # None
    BY NoneIsNothing DEF Call
<1>2. /\ call = None /\ call' = c
      /\ UNCHANGED <<client, health, last, missed, store, doubtful, pool, mined, faults>>
      /\ page' = [page EXCEPT ![p] = new]
      /\ \E n \in Nonce : ~Taken(n)
    BY DEF StartBuild, Start, network
<1>3. new \in Page /\ new.step = "building"
    BY DEF Page
<1> HIDE DEF c, new
<1>4. page' \in [Payment -> Page] /\ page'[p] = new
      /\ \A q \in Payment : q # p => page'[q] = page[q]
    BY <1>2, <1>3 DEF IInv, TypeOK
<1>5. TypeOK'
    BY <1>1, <1>2, <1>4, StartKeeps DEF IInv, TypeOK
<1>6. PagesFollow'
    BY <1>1, <1>2, <1>3, <1>4 DEF IInv, PagesFollow
<1>7. NonceLeft' /\ AnswerIsTrue' /\ NonceIsTaken'
    BY <1>1, <1>2 DEF IInv, NonceLeft, AnswerIsTrue, NonceIsTaken, Taken, Has
<1> QED
    BY <1>5, <1>6, <1>7 DEF IInv

LEMMA StartSendKeeps == ASSUME IInv, NEW p \in Payment, StartSend(p) PROVE IInv'
<1> DEFINE c == [kind |-> "send", of |-> p]
           new == [page[p] EXCEPT !.step = "sending"]
<1>1. c \in Call /\ c.kind = "send" /\ c.of = p /\ c # None
    BY NoneIsNothing DEF Call
<1>2. /\ call = None /\ call' = c
      /\ UNCHANGED <<client, health, last, missed, store, doubtful, pool, mined, faults>>
      /\ page[p].step = "built" /\ page[p].tx \notin store
      /\ page' = [page EXCEPT ![p] = new]
    BY DEF StartSend, Start, network
<1>3. new \in Page /\ new.step = "sending" /\ new.tx = page[p].tx
    BY DEF IInv, TypeOK, Page
<1>4. new.tx \in Tx /\ new.tx \notin store /\ last = None
    BY <1>2, <1>3 DEF IInv, PagesFollow, TypeOK
<1> HIDE DEF c, new
<1>5. page' \in [Payment -> Page] /\ page'[p] = new
      /\ \A q \in Payment : q # p => page'[q] = page[q]
    BY <1>2, <1>3 DEF IInv, TypeOK
<1>6. TypeOK'
    BY <1>1, <1>2, <1>5, StartKeeps DEF IInv, TypeOK
<1>7. PagesFollow'
    BY <1>1, <1>2, <1>3, <1>4, <1>5 DEF IInv, PagesFollow
<1>8. NonceLeft' /\ AnswerIsTrue' /\ NonceIsTaken'
    BY <1>1, <1>2, <1>4, NoneIsNothing
    DEF IInv, NonceLeft, AnswerIsTrue, NonceIsTaken, Taken, Has, Error
<1> QED
    BY <1>6, <1>7, <1>8 DEF IInv

LEMMA ReturnReceiptKeeps == ASSUME IInv, NEW p \in Payment, ReturnReceipt(p) PROVE IInv'
<1> DEFINE new == [page[p] EXCEPT !.step = "sent"]
<1>1. /\ UNCHANGED <<client, health, call, last, missed, store, doubtful, pool, mined, faults>>
      /\ page[p].step = "built" /\ page[p].tx \in store /\ call = None
      /\ page' = [page EXCEPT ![p] = new]
    BY DEF ReturnReceipt, network
<1>2. new \in Page /\ new.step = "sent" /\ new.tx = page[p].tx
    BY DEF IInv, TypeOK, Page
<1> HIDE DEF new
<1>3. page' \in [Payment -> Page] /\ page'[p] = new
      /\ \A q \in Payment : q # p => page'[q] = page[q]
    BY <1>1, <1>2 DEF IInv, TypeOK
<1>4. TypeOK'
    <2>1. FailoverTypeOK'
        BY <1>1, StartKeeps DEF IInv, TypeOK
    <2>2. tried' = tried /\ asked' = asked
        BY <1>1 DEF client
    <2> QED
        BY <1>1, <1>3, <2>1, <2>2 DEF IInv, TypeOK
<1>5. PagesFollow'
    BY <1>1, <1>2, <1>3 DEF IInv, PagesFollow
<1>6. NonceLeft' /\ AnswerIsTrue' /\ NonceIsTaken'
    BY <1>1 DEF IInv, NonceLeft, AnswerIsTrue, NonceIsTaken, Taken, Has
<1> QED
    BY <1>4, <1>5, <1>6 DEF IInv

LEMMA AskNextKeeps == ASSUME IInv, AskNext PROVE IInv'
<1>1. /\ Ask /\ call # None
      /\ UNCHANGED <<page, call, last, missed, store, doubtful, pool, mined, faults>>
    BY DEF AskNext, work, network
<1>2. TypeOK'
    BY <1>1, AskKeeps DEF IInv, TypeOK
<1>3. PagesFollow'
    BY <1>1 DEF IInv, PagesFollow
<1>4. NonceLeft' /\ AnswerIsTrue' /\ NonceIsTaken'
    BY <1>1 DEF IInv, NonceLeft, AnswerIsTrue, NonceIsTaken, Taken, Has
<1> QED
    BY <1>2, <1>3, <1>4 DEF IInv

\* The call ends, and its page moves on.
LEMMA ReturnFacts ==
    ASSUME IInv, call # None, call.kind # "read",
           NEW s \in {"built", "sent", "failed"}, Return(call.of, s)
    PROVE  /\ call.of \in Payment /\ call' = None /\ last' = None /\ missed' = {}
           /\ page' \in [Payment -> Page]
           /\ page'[call.of].step = s /\ page'[call.of].tx = page[call.of].tx
           /\ \A q \in Payment : q # call.of => page'[q] = page[q] /\ page[q].step # "sending"
<1> DEFINE new == [page[call.of] EXCEPT !.step = s]
<1>1. call.of \in Payment
    BY CallFacts DEF IInv
<1>2. page[call.of] \in Page
    BY <1>1 DEF IInv, TypeOK
<1>3. new \in Page /\ new.step = s /\ new.tx = page[call.of].tx
    BY <1>2 DEF Page
<1>4. call' = None /\ last' = None /\ missed' = {} /\ page' = [page EXCEPT ![call.of] = new]
    BY DEF Return
<1> HIDE DEF new
<1>5. page' \in [Payment -> Page] /\ page'[call.of] = new
      /\ \A q \in Payment : q # call.of => page'[q] = page[q]
    BY <1>1, <1>3, <1>4 DEF IInv, TypeOK
<1>6. \A q \in Payment : q # call.of => page[q].step # "sending"
    BY DEF IInv, PagesFollow
<1> QED
    BY <1>1, <1>3, <1>4, <1>5, <1>6

\* Succeeding and giving up leave the client at rest.
LEMMA EndsAtRest ==
    ASSUME Succeed \/ GiveUp PROVE tried' = {} /\ asked' = None
    BY DEF Succeed, GiveUp, Exhausted

LEMMA EndedCallKeeps ==
    ASSUME IInv, call # None, call.kind # "read", Succeed \/ GiveUp,
           NEW s \in {"built", "sent", "failed"}, Return(call.of, s),
           store' \in SUBSET Tx, store \subseteq store', doubtful' \in SUBSET Tx,
           s \in {"built", "sent"} => page[call.of].tx \in Tx,
           s = "sent" => page[call.of].tx \in store',
           pool' \in [Endpoint -> SUBSET Tx], UNCHANGED <<mined, faults>>,
           NonceIsTaken'
    PROVE  IInv'
<1>1. /\ call.of \in Payment /\ call' = None /\ last' = None /\ missed' = {}
      /\ page' \in [Payment -> Page]
      /\ page'[call.of].step = s /\ page'[call.of].tx = page[call.of].tx
      /\ \A q \in Payment : q # call.of => page'[q] = page[q] /\ page[q].step # "sending"
    BY ReturnFacts
<1>2. FailoverTypeOK'
    BY SucceedKeeps, GiveUpKeeps DEF IInv, TypeOK
<1>3. tried' = {} /\ asked' = None
    BY EndsAtRest
<1>4. TypeOK'
    BY <1>1, <1>2, <1>3 DEF IInv, TypeOK
<1>5. PagesFollow'
    BY <1>1 DEF IInv, PagesFollow
<1>6. NonceLeft' /\ AnswerIsTrue'
    BY <1>1 DEF NonceLeft, AnswerIsTrue
<1> QED
    BY <1>4, <1>5, <1>6 DEF IInv

LEMMA ReadEndsKeeps == ASSUME IInv, ReadServed \/ ReadExhausted PROVE IInv'
<1>1. /\ Succeed \/ GiveUp
      /\ call # None /\ call.kind = "read" /\ call' = None /\ last' = None /\ missed' = {}
      /\ UNCHANGED <<page, store, doubtful, pool, mined, faults>>
    BY DEF ReadServed, ReadExhausted, network
<1>2. FailoverTypeOK'
    BY <1>1, SucceedKeeps, GiveUpKeeps DEF IInv, TypeOK
<1>3. tried' = {} /\ asked' = None
    BY <1>1, EndsAtRest
<1>4. TypeOK'
    BY <1>1, <1>2, <1>3 DEF IInv, TypeOK
<1>5. PagesFollow'
    BY <1>1 DEF IInv, PagesFollow
<1>6. NonceLeft' /\ AnswerIsTrue' /\ NonceIsTaken'
    BY <1>1 DEF IInv, NonceLeft, AnswerIsTrue, NonceIsTaken, Taken, Has
<1> QED
    BY <1>4, <1>5, <1>6 DEF IInv

LEMMA NonceServedKeeps == ASSUME IInv, NonceServed PROVE IInv'
<1>1. /\ call # None /\ call.kind = "nonce" /\ asked # None
      /\ call' = [call EXCEPT !.kind = "quote"] /\ last' = None /\ missed' = {}
      /\ Succeed
      /\ UNCHANGED <<store, doubtful, pool, mined, faults>>
    BY DEF NonceServed, network
<1>2. PICK c \in Content :
          page' = [page EXCEPT ![call.of].tx = [nonce |-> Pending(asked), content |-> c]]
    BY DEF NonceServed
<1>3. call.of \in Payment /\ call \in Call
    BY <1>1, CallFacts DEF IInv
<1>4. asked \in Endpoint
    BY <1>1 DEF IInv, TypeOK, FailoverTypeOK
<1>5. Pending(asked) \in Nonce
    BY <1>1, <1>4, PendingIsNonce DEF IInv, NonceLeft
<1> DEFINE tx == [nonce |-> Pending(asked), content |-> c]
           new == [page[call.of] EXCEPT !.tx = tx]
<1>6. tx \in Tx
    BY <1>5 DEF Tx
<1>7. page' = [page EXCEPT ![call.of] = new]
    BY <1>2
<1> HIDE DEF tx
<1>8. new \in Page /\ new.step = page[call.of].step /\ new.tx = tx
    BY <1>3, <1>6 DEF IInv, TypeOK, Page
<1> HIDE DEF new
<1>9. page' \in [Payment -> Page] /\ page'[call.of] = new
      /\ \A q \in Payment : q # call.of => page'[q] = page[q]
    BY <1>3, <1>7, <1>8 DEF IInv, TypeOK
<1>10. call' \in Call /\ call'.kind = "quote" /\ call'.of = call.of
    BY <1>1, <1>3 DEF Call
<1>11. call' # None
    BY <1>10, NoneIsNothing
<1>12. TypeOK'
    BY <1>1, <1>9, <1>10, <1>11, SucceedKeeps DEF IInv, TypeOK
<1>13. \A q \in Payment : page[q].step # "sending"
    BY <1>1 DEF IInv, PagesFollow
<1>15. page[call.of].step = "building"
    BY <1>1 DEF IInv, PagesFollow
<1>16. PagesFollow'
    BY <1>1, <1>3, <1>6, <1>8, <1>9, <1>10, <1>11, <1>13, <1>15 DEF IInv, PagesFollow
<1>17. NonceLeft' /\ AnswerIsTrue' /\ NonceIsTaken'
    BY <1>1, <1>10 DEF IInv, NonceLeft, AnswerIsTrue, NonceIsTaken, Taken, Has
<1> QED
    BY <1>12, <1>16, <1>17 DEF IInv
LEMMA QuoteServedKeeps == ASSUME IInv, QuoteServed PROVE IInv'
<1>1. /\ call # None /\ call.kind = "quote" /\ Succeed /\ Return(call.of, "built")
      /\ UNCHANGED <<store, doubtful, pool, mined, faults>>
    BY DEF QuoteServed, network
<1>2. page[call.of].tx \in Tx
    BY <1>1 DEF IInv, PagesFollow
<1>3. NonceIsTaken'
    BY <1>1 DEF IInv, NonceIsTaken, Taken, Has
<1> QED
    BY <1>1, <1>2, <1>3, EndedCallKeeps DEF IInv, TypeOK

LEMMA BuildExhaustedKeeps == ASSUME IInv, BuildExhausted PROVE IInv'
<1>1. /\ call # None /\ call.kind # "read" /\ GiveUp /\ Return(call.of, "failed")
      /\ UNCHANGED <<store, doubtful, pool, mined, faults>>
    BY DEF BuildExhausted, network
<1>2. NonceIsTaken'
    BY <1>1 DEF IInv, NonceIsTaken, Taken, Has
<1> QED
    BY <1>1, <1>2, EndedCallKeeps DEF IInv, TypeOK

\* What a send works on.
LEMMA SendFacts ==
    ASSUME IInv, call # None, call.kind = "send"
    PROVE  call.of \in Payment /\ page[call.of].tx \in Tx /\ page[call.of].tx.nonce \in Nonce
<1>1. call.of \in Payment
    BY CallFacts DEF IInv
<1>2. page[call.of].tx \in Tx
    BY <1>1 DEF IInv, PagesFollow
<1> QED
    BY <1>1, <1>2 DEF Tx

\* A node accepts what is sent: its nonce is taken now.
LEMMA AcceptedIsTaken ==
    ASSUME IInv, NEW x \in Tx, NEW e \in Endpoint, UNCHANGED mined,
           pool' = [pool EXCEPT ![e] = @ \cup {x}]
    PROVE  /\ pool' \in [Endpoint -> SUBSET Tx]
           /\ Taken(x.nonce)'
           /\ \A n \in Nonce : Taken(n) => Taken(n)'
<1>1. pool' \in [Endpoint -> SUBSET Tx] /\ x \in pool'[e]
      /\ \A f \in Endpoint : pool[f] \subseteq pool'[f]
    BY DEF IInv, TypeOK
<1>2. Taken(x.nonce)'
    BY <1>1 DEF Taken, Has
<1>3. \A n \in Nonce : Taken(n) => Taken(n)'
    BY <1>1, TakenStays DEF IInv
<1> QED
    BY <1>1, <1>2, <1>3

LEMMA RecordedNonces == ASSUME IInv PROVE \A x \in store : x.nonce \in Nonce
    BY DEF IInv, TypeOK, Tx

LEMMA SendServedKeeps == ASSUME IInv, SendServed PROVE IInv'
<1>1. /\ call # None /\ call.kind = "send" /\ asked # None
      /\ pool' = [pool EXCEPT ![asked] = @ \cup {page[call.of].tx}]
      /\ Return(call.of, "sent") /\ Succeed
      /\ store' = store \cup {page[call.of].tx}
      /\ UNCHANGED <<doubtful, mined, faults>>
    BY DEF SendServed
<1>2. PICK x \in Tx : x = page[call.of].tx
    BY <1>1, SendFacts
<1>3. PICK e \in Endpoint : e = asked
    BY <1>1 DEF IInv, TypeOK, FailoverTypeOK
<1>4. /\ pool' \in [Endpoint -> SUBSET Tx]
      /\ Taken(x.nonce)'
      /\ \A n \in Nonce : Taken(n) => Taken(n)'
    BY <1>1, <1>2, <1>3, AcceptedIsTaken
<1>5. NonceIsTaken'
    BY <1>1, <1>2, <1>4, RecordedNonces DEF IInv, NonceIsTaken
<1>6. store' \in SUBSET Tx /\ store \subseteq store' /\ doubtful' \in SUBSET Tx
    BY <1>1, <1>2 DEF IInv, TypeOK
<1> QED
    BY <1>1, <1>2, <1>4, <1>5, <1>6, EndedCallKeeps

LEMMA SendExhaustedKeeps == ASSUME IInv, SendExhausted PROVE IInv'
<1>1. /\ call # None /\ call.kind = "send" /\ GiveUp
      /\ UNCHANGED <<pool, mined, faults>>
    BY DEF SendExhausted, network
<1>2. \A n : Taken(n)' <=> Taken(n)
    BY <1>1 DEF Taken, Has
<1>3. CASE TreatedAsSent(last) /\ MarkSent
    <2> DEFINE tx == page[call.of].tx
    <2>1. /\ Return(call.of, "sent") /\ store' = store \cup {tx}
          /\ doubtful' = IF last = "untrusted" THEN doubtful \cup {tx} ELSE doubtful
        BY <1>3 DEF MarkSent
    <2>2. tx \in Tx
        BY <1>1, SendFacts
    <2>3. last # "untrusted" => Taken(tx.nonce)
        BY <1>1, <1>3 DEF TreatedAsSent, IInv, AnswerIsTrue
    <2> HIDE DEF tx
    <2>4. NonceIsTaken'
        BY <1>2, <2>1, <2>3 DEF IInv, NonceIsTaken
    <2>5. store' \in SUBSET Tx /\ store \subseteq store' /\ doubtful' \in SUBSET Tx
          /\ tx \in store'
        BY <2>1, <2>2 DEF IInv, TypeOK
    <2>6. pool' \in [Endpoint -> SUBSET Tx]
        BY <1>1 DEF IInv, TypeOK
    <2> QED
        BY <1>1, <2>1, <2>2, <2>4, <2>5, <2>6, EndedCallKeeps DEF tx
<1>4. CASE Return(call.of, "failed") /\ UNCHANGED <<store, doubtful>>
    <2>1. NonceIsTaken'
        BY <1>2, <1>4 DEF IInv, NonceIsTaken
    <2> QED
        BY <1>1, <1>4, <2>1, EndedCallKeeps DEF IInv, TypeOK
<1> QED
    BY <1>3, <1>4 DEF SendExhausted

LEMMA SendRefusedKeeps == ASSUME IInv, SendRefused PROVE IInv'
<1>1. /\ call # None /\ call.kind = "send" /\ asked # None
      /\ last' = Verdict(asked, page[call.of].tx) /\ last' # "accepted"
      /\ Fail
      /\ UNCHANGED <<page, call, missed, store, doubtful, pool, mined, faults>>
    BY DEF SendRefused, network
<1>2. asked \in Endpoint
    BY <1>1 DEF IInv, TypeOK, FailoverTypeOK
<1>3. last' \in Error /\ (last' \in {"known", "underpriced"} => Taken(page[call.of].tx.nonce))
    BY <1>1, <1>2 DEF Verdict, Error, Taken, Has
<1>4. TypeOK'
    BY <1>1, <1>3, FailKeeps DEF IInv, TypeOK
<1>5. PagesFollow'
    BY <1>1 DEF IInv, PagesFollow
<1>6. NonceLeft' /\ AnswerIsTrue' /\ NonceIsTaken'
    BY <1>1, <1>3 DEF IInv, NonceLeft, AnswerIsTrue, NonceIsTaken, Taken, Has
<1> QED
    BY <1>4, <1>5, <1>6 DEF IInv

LEMMA LostKeeps == ASSUME IInv, NEW err \in {"lost", "untrusted"}, Lost(err) PROVE IInv'
<1>1. /\ call # None /\ faults < MaxFaults /\ faults' = faults + 1 /\ last' = err /\ Fail
      /\ missed' = missed \cup {asked}
      /\ UNCHANGED <<page, call, store, doubtful, mined>>
    BY DEF Lost
<1>2. asked \in Endpoint
    BY <1>1 DEF Fail, IInv, TypeOK, FailoverTypeOK
<1>3. last' \in Error /\ last' \notin {"known", "underpriced"} /\ faults' \in 0 .. MaxFaults
      /\ missed' \in SUBSET Endpoint
    BY <1>1, <1>2, PaymentAssumption DEF Error, IInv, TypeOK
<1>4. PagesFollow' /\ AnswerIsTrue'
    BY <1>1, <1>3 DEF IInv, PagesFollow, AnswerIsTrue
<1>5. CASE UNCHANGED pool
    <2>1. TypeOK'
        BY <1>1, <1>3, <1>5, FailKeeps DEF IInv, TypeOK
    <2>2. NonceLeft' /\ NonceIsTaken'
        BY <1>1, <1>5 DEF IInv, NonceLeft, NonceIsTaken, Taken, Has
    <2> QED
        BY <1>4, <2>1, <2>2 DEF IInv
<1>6. CASE /\ call.kind = "send"
           /\ pool' = [pool EXCEPT ![asked] = @ \cup {page[call.of].tx}]
    <2>1. page[call.of].tx \in Tx
        BY <1>1, <1>6, SendFacts
    <2>2. pool' \in [Endpoint -> SUBSET Tx] /\ \A n \in Nonce : Taken(n) => Taken(n)'
        BY <1>1, <1>2, <1>6, <2>1, AcceptedIsTaken
    <2>3. TypeOK'
        BY <1>1, <1>3, <2>2, FailKeeps DEF IInv, TypeOK
    <2>4. NonceLeft'
        BY <1>1, <1>6 DEF NonceLeft
    <2>5. NonceIsTaken'
        BY <1>1, <2>2, RecordedNonces DEF IInv, NonceIsTaken
    <2> QED
        BY <1>4, <2>3, <2>4, <2>5 DEF IInv
<1> QED
    BY <1>5, <1>6 DEF Lost

LEMMA RestartKeeps == ASSUME IInv, Restart PROVE IInv'
<1>1. FailoverInit'
    BY DEF Restart, FailoverInit
<1>2. FailoverTypeOK'
    <2>1. 0 \in Endpoint /\ 0 \in -Bound .. Bound
        BY FailoverAssumption DEF Endpoint
    <2> QED
        BY <1>1, <2>1 DEF FailoverInit, FailoverTypeOK
<1>3. /\ page' = [p \in Payment |-> [step |-> "idle", tx |-> None]]
      /\ call' = None /\ last' = None /\ missed' = {} /\ store' = {} /\ doubtful' = {}
      /\ tried' = {} /\ asked' = None
      /\ faults < MaxFaults /\ faults' = faults + 1 /\ UNCHANGED <<pool, mined>>
    BY DEF Restart, network
<1>4. page' \in [Payment -> Page] /\ faults' \in 0 .. MaxFaults
    BY <1>3, PaymentAssumption DEF IInv, TypeOK, Page
<1>5. TypeOK'
    BY <1>2, <1>3, <1>4 DEF IInv, TypeOK
<1>6. PagesFollow' /\ NonceLeft' /\ AnswerIsTrue' /\ NonceIsTaken'
    BY <1>3 DEF PagesFollow, NonceLeft, AnswerIsTrue, NonceIsTaken
<1> QED
    BY <1>5, <1>6 DEF IInv

LEMMA WindowPassesKeeps ==
    ASSUME IInv, NEW e \in Endpoint, WindowPasses(e), UNCHANGED <<work, network, faults>>
    PROVE  IInv'
<1>1. UNCHANGED <<page, call, last, missed, store, doubtful, pool, mined, faults, tried, asked>>
    BY DEF WindowPasses, work, network, client
<1>2. TypeOK'
    BY <1>1, WindowKeeps DEF IInv, TypeOK
<1>3. PagesFollow'
    BY <1>1 DEF IInv, PagesFollow
<1>4. NonceLeft' /\ AnswerIsTrue' /\ NonceIsTaken'
    BY <1>1 DEF IInv, NonceLeft, AnswerIsTrue, NonceIsTaken, Taken, Has
<1> QED
    BY <1>2, <1>3, <1>4 DEF IInv

\* Transactions move between nodes, or into a block; no nonce is freed or taken.
LEMMA NetworkKeeps ==
    ASSUME IInv, UNCHANGED <<client, health, work, faults>>,
           pool' \in [Endpoint -> SUBSET Tx], mined' \in Seq(Content),
           \A n \in Nonce : Taken(n)' <=> Taken(n)
    PROVE  IInv'
<1>1. UNCHANGED <<page, call, last, missed, store, doubtful, tried, asked>>
    BY DEF work, client
<1>2. TypeOK'
    BY <1>1, StartKeeps DEF IInv, TypeOK
<1>3. PagesFollow'
    BY <1>1 DEF IInv, PagesFollow
<1>4. NonceLeft'
    BY <1>1 DEF IInv, NonceLeft
<1>5. AnswerIsTrue'
    BY <1>1, SendFacts DEF IInv, AnswerIsTrue
<1>6. NonceIsTaken'
    BY <1>1, RecordedNonces DEF IInv, NonceIsTaken
<1> QED
    BY <1>2, <1>3, <1>4, <1>5, <1>6 DEF IInv

LEMMA GossipKeeps ==
    ASSUME IInv, NEW e \in Endpoint, NEW f \in Endpoint, NEW x \in Tx, Gossip(e, f, x)
    PROVE  IInv'
<1>1. /\ x \in pool[e] /\ pool' = [pool EXCEPT ![f] = @ \cup {x}]
      /\ UNCHANGED <<client, health, work, mined, faults>>
    BY DEF Gossip
<1>2. pool' \in [Endpoint -> SUBSET Tx] /\ \A n \in Nonce : Taken(n) => Taken(n)'
    BY <1>1, AcceptedIsTaken
<1>3. \A g \in Endpoint : pool'[g] \subseteq pool[g] \cup {x}
    BY <1>1 DEF IInv, TypeOK
<1>4. \A n \in Nonce : Taken(n)' => Taken(n)
    BY <1>1, <1>3 DEF Taken, Has
<1>5. mined' \in Seq(Content)
    BY <1>1 DEF IInv, TypeOK
<1> QED
    BY <1>1, <1>2, <1>4, <1>5, NetworkKeeps

LEMMA MineKeeps ==
    ASSUME IInv, NEW e \in Endpoint, NEW x \in Tx, Mine(e, x)
    PROVE  IInv'
<1>1. \A n \in Nonce : Taken(n)' <=> Taken(n)
    BY MineKeepsTaken DEF IInv
<1>2. pool' \in [Endpoint -> SUBSET Tx]
    BY DEF IInv, TypeOK, Mine
<1>3. mined' \in Seq(Content)
    <2>1. x.content \in Content
        BY DEF Tx
    <2> QED
        BY <2>1 DEF IInv, TypeOK, Mine
<1>4. UNCHANGED <<client, health, work, faults>>
    BY DEF Mine
<1> QED
    BY <1>1, <1>2, <1>3, <1>4, NetworkKeeps

LEMMA StutterKeeps == ASSUME IInv, UNCHANGED vars PROVE IInv'
<1>1. UNCHANGED <<client, health, work, faults, pool, mined>>
    BY DEF vars, network
<1>2. \A n \in Nonce : Taken(n)' <=> Taken(n)
    BY <1>1 DEF Taken, Has
<1> QED
    BY <1>1, <1>2, NetworkKeeps DEF IInv, TypeOK

-----------------------------------------------------------------------------
THEOREM Invariant == Spec => []IInv
<1>1. Init => IInv
    BY InitHolds
<1>2. IInv /\ [Next]_vars => IInv'
    <2> SUFFICES ASSUME IInv, [Next]_vars PROVE IInv'
        OBVIOUS
    <2>1. CASE StartRead \/ AskNext \/ Served \/ Ended \/ Restart
        BY <2>1, StartReadKeeps, AskNextKeeps, ReadEndsKeeps, NonceServedKeeps,
           QuoteServedKeeps, SendServedKeeps, SendRefusedKeeps, SendExhaustedKeeps,
           BuildExhaustedKeeps, RestartKeeps DEF Served, Ended
    <2>2. ASSUME NEW p \in Payment, StartBuild(p) \/ StartSend(p) \/ ReturnReceipt(p)
          PROVE  IInv'
        BY <2>2, StartBuildKeeps, StartSendKeeps, ReturnReceiptKeeps
    <2>3. ASSUME NEW err \in {"lost", "untrusted"}, Lost(err) PROVE IInv'
        BY <2>3, LostKeeps
    <2>4. ASSUME NEW e \in Endpoint, WindowPasses(e) /\ UNCHANGED <<work, network, faults>>
          PROVE  IInv'
        BY <2>4, WindowPassesKeeps
    <2>5. ASSUME NEW e \in Endpoint, NEW f \in Endpoint, NEW x \in Tx,
                 Gossip(e, f, x) \/ Mine(e, x)
          PROVE  IInv'
        BY <2>5, GossipKeeps, MineKeeps
    <2>6. CASE UNCHANGED vars
        BY <2>6, StutterKeeps
    <2> QED
        BY <2>1, <2>2, <2>3, <2>4, <2>5, <2>6 DEF Next
<1> QED
    BY <1>1, <1>2, PTL DEF Spec

\* The state of the client, the pages, the store and the nodes is well formed: a
\* payment never gets a nonce out of range, whatever nodes it asks.
THEOREM TypeCorrect == Spec => []TypeOK
<1>1. IInv => TypeOK
    BY DEF IInv
<1> QED
    BY <1>1, Invariant, PTL

\* What one page reported as sent no other page is sending, for any number of
\* payments, nodes, lost messages and restarts.
THEOREM NothingIsResent == Spec => []RecordedIsNotResent
<1>1. IInv => RecordedIsNotResent
    BY DEF IInv, PagesFollow, RecordedIsNotResent
<1> QED
    BY <1>1, Invariant, PTL

\* Whatever was recorded without a certificate error has its nonce taken on some
\* node, so no later payment waits for it.
THEOREM NoGapInNonces == Spec => []NonceIsTaken
<1>1. IInv => NonceIsTaken
    BY DEF IInv
<1> QED
    BY <1>1, Invariant, PTL

-----------------------------------------------------------------------------
(***************************************************************************)
(* Why payments fail.  What the history of the running call says: outside  *)
(* of a broadcast every endpoint that is through lost a message; an error  *)
(* is remembered; and a nonce that was refused as stale is used up.        *)
(***************************************************************************)
RoundIsTrue ==
    /\ call # None /\ call.kind # "send" => tried \subseteq missed \cup {asked}
    /\ call # None /\ asked = None /\ tried # {} => last # None
    /\ call # None /\ last = "stale" =>
          call.kind = "send" /\ page[call.of].tx.nonce < Len(mined)

\* A step that ends a call, or its first half, leaves nothing to explain.
LEMMA RestIsTrue ==
    ASSUME tried' = {}, last' = None PROVE RoundIsTrue'
    BY NoneIsNothing DEF RoundIsTrue, Error

LEMMA RoundKeeps == IInv /\ RoundIsTrue /\ [Next]_vars => RoundIsTrue'
<1> SUFFICES ASSUME IInv, RoundIsTrue, [Next]_vars PROVE RoundIsTrue'
    OBVIOUS
<1>1. CASE StartRead \/ \E p \in Payment : StartBuild(p) \/ StartSend(p)
    <2>1. call = None /\ last' = last /\ tried' = tried
        BY <1>1 DEF StartRead, StartBuild, StartSend, Start, client
    <2> QED
        BY <2>1, RestIsTrue DEF IInv, TypeOK
<1>2. ASSUME NEW p \in Payment, ReturnReceipt(p) PROVE RoundIsTrue'
    <2>1. call = None /\ last' = last /\ tried' = tried
        BY <1>2 DEF ReturnReceipt, client
    <2> QED
        BY <2>1, RestIsTrue DEF IInv, TypeOK
<1>3. CASE AskNext
    <2>1. UNCHANGED <<page, call, last, missed, mined>>
        BY <1>3 DEF AskNext, work, network
    <2>2. PICK e \in Endpoint : asked = None /\ asked' = e /\ tried' = tried \cup {e}
        BY <1>3 DEF AskNext, Ask, AskHealthy, AskUnhealthy
    <2>3. e # None
        BY NoneIsNothing
    <2> QED
        BY <2>1, <2>2, <2>3, NoneIsNothing DEF RoundIsTrue, IInv, TypeOK, FailoverTypeOK
<1>4. CASE ReadServed \/ NonceServed \/ QuoteServed \/ SendServed
    BY <1>4, RestIsTrue DEF ReadServed, NonceServed, QuoteServed, SendServed, Succeed, Return
<1>5. CASE Ended \/ Restart
    BY <1>5, RestIsTrue
    DEF Ended, SendExhausted, BuildExhausted, ReadExhausted, GiveUp, MarkSent, Return, Restart
<1>6. CASE SendRefused
    <2>1. /\ call # None /\ call.kind = "send" /\ UNCHANGED <<page, call, mined>>
          /\ last' = Verdict(asked, page[call.of].tx) /\ last' # "accepted"
        BY <1>6 DEF SendRefused, network
    <2>2. last' # None
        BY <2>1, NoneIsNothing DEF Verdict, Error
    <2>3. last' = "stale" => page[call.of].tx.nonce < Len(mined)
        BY <2>1 DEF Verdict
    <2> QED
        BY <2>1, <2>2, <2>3 DEF RoundIsTrue
<1>7. ASSUME NEW err \in {"lost", "untrusted"}, Lost(err) PROVE RoundIsTrue'
    <2>1. /\ asked # None /\ asked' = None /\ tried' = tried
          /\ last' = err /\ missed' = missed \cup {asked} /\ UNCHANGED <<page, call, mined>>
        BY <1>7 DEF Lost, Fail
    <2>2. err # None /\ err # "stale"
        BY NoneIsNothing DEF Error
    <2> QED
        BY <2>1, <2>2 DEF RoundIsTrue
<1>8. ASSUME NEW e \in Endpoint, WindowPasses(e) /\ UNCHANGED <<work, network, faults>>
      PROVE  RoundIsTrue'
    BY <1>8 DEF WindowPasses, work, network, client, RoundIsTrue
<1>9. ASSUME NEW e \in Endpoint, NEW f \in Endpoint, NEW x \in Tx, Gossip(e, f, x)
      PROVE  RoundIsTrue'
    BY <1>9 DEF Gossip, work, client, RoundIsTrue
<1>10. ASSUME NEW e \in Endpoint, NEW x \in Tx, Mine(e, x) PROVE RoundIsTrue'
    <2>1. UNCHANGED <<page, call, last, missed, tried, asked>>
        BY <1>10 DEF Mine, work, client
    <2>2. Len(mined) \in Nat /\ Len(mined') = Len(mined) + 1
        BY <1>10 DEF Mine, Tx, IInv, TypeOK
    <2>3. call # None /\ call.kind = "send" => page[call.of].tx.nonce \in Nat
        BY SendFacts, PaymentAssumption DEF Nonce
    <2> QED
        BY <2>1, <2>2, <2>3 DEF RoundIsTrue
<1>11. CASE UNCHANGED vars
    BY <1>11 DEF vars, work, network, client, RoundIsTrue
<1> QED
    BY <1>1, <1>2, <1>3, <1>4, <1>5, <1>6, <1>7, <1>8, <1>9, <1>10, <1>11
    DEF Next, Served

\* For any endpoints, thresholds, payments and faults, a payment fails only when
\* every endpoint lost a message of the call, when the last answer was lost, or
\* when its nonce is used up by a block.
THEOREM FailuresAreExplained == Spec => FailureIsExplained
<1>1. Init => RoundIsTrue
    BY DEF Init, RoundIsTrue
<1>2. IInv /\ RoundIsTrue /\ [Next]_vars =>
        [\A p \in Payment :
            page[p].step # "failed" /\ page'[p].step = "failed"
            => \/ missed = Endpoint
               \/ page[p].step = "sending" /\ last = "lost"
               \/ page[p].step = "sending" /\ page[p].tx.nonce < Len(mined)]_vars
    <2> SUFFICES ASSUME IInv, RoundIsTrue, Next, NEW p \in Payment,
                        page[p].step # "failed", page'[p].step = "failed"
                 PROVE  \/ missed = Endpoint
                        \/ page[p].step = "sending" /\ last = "lost"
                        \/ page[p].step = "sending" /\ page[p].tx.nonce < Len(mined)
        OBVIOUS
    <2>1. page \in [Payment -> Page]
        BY DEF IInv, TypeOK
    <2>2. ASSUME NEW q \in Payment, NEW v, page' = [page EXCEPT ![q] = v]
          PROVE  q = p /\ v.step = "failed"
        BY <2>1, <2>2
    <2>3. BuildExhausted \/ SendExhausted
        <3>1. page' # page
            OBVIOUS
        <3>2. ~(StartRead \/ AskNext \/ ReadServed \/ SendRefused \/ ReadExhausted)
            BY <3>1 DEF StartRead, AskNext, work, ReadServed, SendRefused, ReadExhausted
        <3>3. ASSUME NEW q \in Payment, StartBuild(q) PROVE FALSE
            <4> DEFINE new == [step |-> "building", tx |-> None]
            <4>1. page' = [page EXCEPT ![q] = new] /\ new.step # "failed"
                BY <3>3 DEF StartBuild
            <4> HIDE DEF new
            <4> QED
                BY <2>2, <4>1
        <3>4. ~(\E q \in Payment : StartSend(q) \/ ReturnReceipt(q))
            BY <2>1, <2>2 DEF StartSend, ReturnReceipt, Page
        <3>5. ~NonceServed
            BY <2>1 DEF NonceServed, Page
        <3>6. ~(QuoteServed \/ SendServed)
            BY <2>1 DEF QuoteServed, SendServed, Return, Page
        <3>7. ~Restart
            BY DEF Restart
        <3>8. ~(\E err \in {"lost", "untrusted"} : Lost(err))
            BY <3>1 DEF Lost
        <3>9. ~(\E e \in Endpoint : WindowPasses(e) /\ UNCHANGED <<work, network, faults>>)
            BY <3>1 DEF work
        <3>10. ~(\E e, f \in Endpoint, x \in Tx : Gossip(e, f, x))
            BY <3>1 DEF Gossip, work
        <3>11. ~(\E e \in Endpoint, x \in Tx : Mine(e, x))
            BY <3>1 DEF Mine, work
        <3>12. ~(Served \/ ReadExhausted)
            BY <3>2, <3>5, <3>6 DEF Served
        <3>13. ~(\E q \in Payment : StartBuild(q) \/ StartSend(q) \/ ReturnReceipt(q))
            BY <3>3, <3>4
        <3>14. Ended
            BY <3>2, <3>7, <3>8, <3>9, <3>10, <3>11, <3>12, <3>13 DEF Next
        <3> QED
            BY <3>12, <3>14 DEF Ended
    <2>4. /\ call # None /\ asked = None /\ tried = Endpoint /\ missed \subseteq Endpoint
          /\ 0 \in Endpoint
        <3>1. call # None /\ asked = None /\ Endpoint \ tried = {}
            BY <2>3 DEF BuildExhausted, SendExhausted, GiveUp, Exhausted, Left
        <3>2. tried \subseteq Endpoint /\ missed \subseteq Endpoint
            BY DEF IInv, TypeOK, FailoverTypeOK
        <3>3. 0 \in Endpoint
            BY FailoverAssumption DEF Endpoint
        <3> QED
            BY <3>1, <3>2, <3>3
    <2>5. CASE BuildExhausted
        <3>1. tried \subseteq missed \cup {asked}
            BY <2>5 DEF BuildExhausted, RoundIsTrue
        <3> QED
            BY <2>4, <3>1, NoneIsNothing
    <2>6. CASE SendExhausted
        <3>1. call.kind = "send" /\ call.of \in Payment /\ page[call.of].step = "sending"
            BY <2>6, SendFacts DEF SendExhausted, IInv, PagesFollow
        <3>2. ~TreatedAsSent(last) /\ page' = [page EXCEPT ![call.of].step = "failed"]
            BY <2>1, <2>6 DEF SendExhausted, MarkSent, Return, Page
        <3>3. call.of = p
            BY <2>1, <3>2
        <3>4. last \in {"lost", "stale"}
            BY <2>4, <3>2 DEF RoundIsTrue, IInv, TypeOK, Error, TreatedAsSent
        <3> QED
            BY <2>4, <3>1, <3>3, <3>4 DEF RoundIsTrue
    <2> QED
        BY <2>3, <2>5, <2>6
<1>3. Spec => []RoundIsTrue
    BY <1>1, RoundKeeps, Invariant, PTL DEF Spec
<1> QED
    BY <1>2, <1>3, Invariant, PTL DEF Spec, FailureIsExplained

=============================================================================
