------------------------------ MODULE Broadcast ------------------------------
(***************************************************************************)
(* Payments on their way to an EVM network: EthereumAdapter.Build takes a  *)
(* nonce from a node, and EthereumAdapter.Broadcast hands the signed       *)
(* transaction to one, both through the failing-over client of module      *)
(* Failover; a store remembers what was broadcast, until the program ends. *)
(*                                                                         *)
(* The nodes are no part of this program: they pass transactions on to     *)
(* each other late, lose requests and answers, and refuse a transaction    *)
(* they have or whose nonce is taken.                                      *)
(***************************************************************************)
EXTENDS Failover, Sequences, FiniteSets

CONSTANTS
    Payment,
    Content,     \* what a payment can say: recipient, amount, fee
    MaxNonce,
    MaxFaults    \* lost messages, failed handshakes and restarts, together

ASSUME PaymentAssumption ==
    /\ MaxNonce \in Nat
    /\ MaxFaults \in Nat

VARIABLES
    page,     \* per payment: how far it is, and its transaction
    call,     \* what the FFI worker is busy with
    last,     \* the last error of the running call
    missed,   \* history: the endpoints that lost a message of the running call
    store,    \* the transactions that MemoryTxStore has
    doubtful, \* history: those recorded on a certificate error
    pool,     \* per node: the pending transactions
    mined,    \* the contents of the mined transactions, by nonce
    faults

work == <<page, call, last, missed, store, doubtful>>
network == <<pool, mined>>
vars == <<client, health, work, network, faults>>

Nonce == 0 .. MaxNonce
Tx == [nonce : Nonce, content : Content]
Error == {"lost", "untrusted", "stale", "known", "underpriced"}
Call == [kind : {"nonce", "quote", "send"}, of : Payment] \cup [kind : {"read"}, of : {None}]

ASSUME CallAssumption == None \notin Call \cup Error

Page == [step : {"idle", "building", "built", "sending", "sent", "failed"}, tx : Tx \cup {None}]

Init ==
    /\ FailoverInit
    /\ page = [p \in Payment |-> [step |-> "idle", tx |-> None]]
    /\ call = None
    /\ last = None
    /\ missed = {}
    /\ store = {}
    /\ doubtful = {}
    /\ pool = [e \in Endpoint |-> {}]
    /\ mined = <<>>
    /\ faults = 0

TypeOK ==
    /\ FailoverTypeOK
    /\ page \in [Payment -> Page]
    /\ call \in Call \cup {None}
    /\ last \in Error \cup {None}
    /\ missed \in SUBSET Endpoint
    /\ store \in SUBSET Tx
    /\ doubtful \in SUBSET Tx
    /\ pool \in [Endpoint -> SUBSET Tx]
    /\ mined \in Seq(Content)
    /\ faults \in 0 .. MaxFaults
    /\ call = None => tried = {} /\ asked = None /\ last = None /\ missed = {}

-----------------------------------------------------------------------------
(***************************************************************************)
(* The nodes.                                                              *)
(***************************************************************************)
Has(e, n) == n < Len(mined) \/ \E x \in pool[e] : x.nonce = n

\* eth_getTransactionCount with "pending": how many nonces from the first on the
\* node has a transaction for, mined or not.
Pending(e) == Cardinality({n \in Nonce : \A m \in 0 .. n : Has(e, m)})

\* eth_sendRawTransaction.
Verdict(e, x) ==
    IF x.nonce < Len(mined) THEN "stale"
    ELSE IF x \in pool[e] THEN "known"
    ELSE IF Has(e, x.nonce) THEN "underpriced"
    ELSE "accepted"

Gossip(e, f, x) ==
    /\ x \in pool[e]
    /\ ~Has(f, x.nonce)
    /\ pool' = [pool EXCEPT ![f] = @ \cup {x}]
    /\ UNCHANGED <<client, health, work, mined, faults>>

Mine(e, x) ==
    /\ x \in pool[e]
    /\ x.nonce = Len(mined)
    /\ mined' = Append(mined, x.content)
    /\ pool' = [f \in Endpoint |-> {y \in pool[f] : y.nonce # x.nonce}]
    /\ UNCHANGED <<client, health, work, faults>>

Taken(n) == \E e \in Endpoint : Has(e, n)

-----------------------------------------------------------------------------
(***************************************************************************)
(* The calls, one at a time.                                               *)
(***************************************************************************)
Start(c) ==
    /\ call = None
    /\ call' = c
    /\ UNCHANGED <<client, health, last, missed, doubtful, network, faults>>

\* Balances, fees, confirmations: requests that only move the client.
StartRead ==
    /\ Start([kind |-> "read", of |-> None])
    /\ UNCHANGED <<page, store>>

\* A payment is built, or built anew after it failed or was looked at.
StartBuild(p) ==
    /\ page[p].step \in {"idle", "built", "failed"}
    /\ \E n \in Nonce : ~Taken(n)
    /\ Start([kind |-> "nonce", of |-> p])
    /\ page' = [page EXCEPT ![p] = [step |-> "building", tx |-> None]]
    /\ UNCHANGED store

StartSend(p) ==
    /\ page[p].step = "built"
    /\ page[p].tx \notin store
    /\ Start([kind |-> "send", of |-> p])
    /\ page' = [page EXCEPT ![p].step = "sending"]
    /\ UNCHANGED store

\* A recorded transaction is not sent: its receipt is returned.
ReturnReceipt(p) ==
    /\ page[p].step = "built"
    /\ call = None
    /\ page[p].tx \in store
    /\ page' = [page EXCEPT ![p].step = "sent"]
    /\ UNCHANGED <<client, health, call, last, missed, store, doubtful, network, faults>>

AskNext ==
    /\ call # None
    /\ Ask
    /\ UNCHANGED <<work, network, faults>>

\* The call is over, and p is where it leads.
Return(p, s) ==
    /\ call' = None
    /\ last' = None
    /\ missed' = {}
    /\ page' = [page EXCEPT ![p].step = s]

\* Mutant: an answer "already known" is not recorded.
MarkSentUnrecorded ==
    /\ Return(call.of, "sent")
    /\ UNCHANGED <<store, doubtful>>

MarkSent ==
    /\ Return(call.of, "sent")
    /\ store' = store \cup {page[call.of].tx}
    /\ doubtful' = IF last = "untrusted" THEN doubtful \cup {page[call.of].tx} ELSE doubtful

ReadServed ==
    /\ call # None
    /\ call.kind = "read"
    /\ Succeed
    /\ call' = None
    /\ last' = None
    /\ missed' = {}
    /\ UNCHANGED <<page, store, doubtful, network, faults>>

\* The nonce is read first; gas and fees are asked for next.
\* Payments that say the same and have the same nonce are the same transaction.
NonceServed ==
    /\ call # None
    /\ call.kind = "nonce"
    /\ asked # None
    /\ \E c \in Content :
          page' = [page EXCEPT ![call.of].tx = [nonce |-> Pending(asked), content |-> c]]
    /\ call' = [call EXCEPT !.kind = "quote"]
    /\ last' = None
    /\ missed' = {}
    /\ Succeed
    /\ UNCHANGED <<store, doubtful, network, faults>>

QuoteServed ==
    /\ call # None
    /\ call.kind = "quote"
    /\ Return(call.of, "built")
    /\ Succeed
    /\ UNCHANGED <<store, doubtful, network, faults>>

SendServed ==
    /\ call # None
    /\ call.kind = "send"
    /\ asked # None
    /\ Verdict(asked, page[call.of].tx) = "accepted"
    /\ pool' = [pool EXCEPT ![asked] = @ \cup {page[call.of].tx}]
    /\ Return(call.of, "sent")
    /\ store' = store \cup {page[call.of].tx}
    /\ Succeed
    /\ UNCHANGED <<doubtful, mined, faults>>

\* The node refuses; the client asks the next one.
SendRefused ==
    /\ call # None
    /\ call.kind = "send"
    /\ asked # None
    /\ Verdict(asked, page[call.of].tx) # "accepted"
    /\ last' = Verdict(asked, page[call.of].tx)
    /\ Fail
    /\ UNCHANGED <<page, call, missed, store, doubtful, network, faults>>

\* The request or its answer is lost, or no trusted connection is made.  What
\* was sent may have arrived.
Lost(err) ==
    /\ call # None
    /\ faults < MaxFaults
    /\ faults' = faults + 1
    /\ last' = err
    /\ missed' = missed \cup {asked}
    /\ Fail
    /\ \/ UNCHANGED pool
       \/ /\ err = "lost"
          /\ call.kind = "send"
          /\ Verdict(asked, page[call.of].tx) = "accepted"
          /\ pool' = [pool EXCEPT ![asked] = @ \cup {page[call.of].tx}]
    /\ UNCHANGED <<page, call, store, doubtful, mined>>

\* Mutant: only a node that has this very transaction makes it sent.
TreatedAsSentIfKnown(err) == err \in {"known", "untrusted"}

\* Mutant: a timeout counts as sent.
TreatedAsSentOnTimeout(err) == err \in {"known", "underpriced", "untrusted", "lost"}

\* What SendRawTransaction calls "already broadcast", and any text with
\* "already" or "known" in it: "signed by unknown authority", too.
TreatedAsSent(err) == err \in {"known", "underpriced", "untrusted"}

\* Every endpoint failed; the last error decides.
SendExhausted ==
    /\ call # None
    /\ call.kind = "send"
    /\ GiveUp
    /\ IF TreatedAsSent(last)
       THEN MarkSent
       ELSE Return(call.of, "failed") /\ UNCHANGED <<store, doubtful>>
    /\ UNCHANGED <<network, faults>>

BuildExhausted ==
    /\ call # None
    /\ call.kind \in {"nonce", "quote"}
    /\ GiveUp
    /\ Return(call.of, "failed")
    /\ UNCHANGED <<store, doubtful, network, faults>>

ReadExhausted ==
    /\ call # None
    /\ call.kind = "read"
    /\ GiveUp
    /\ call' = None
    /\ last' = None
    /\ missed' = {}
    /\ UNCHANGED <<page, store, doubtful, network, faults>>

\* The program ends and starts again, also in the middle of a call.
Restart ==
    /\ faults < MaxFaults
    /\ faults' = faults + 1
    /\ page' = [p \in Payment |-> [step |-> "idle", tx |-> None]]
    /\ call' = None
    /\ last' = None
    /\ missed' = {}
    /\ store' = {}
    /\ doubtful' = {}
    /\ currentIndex' = 0
    /\ tried' = {}
    /\ asked' = None
    /\ lead' = [e \in Endpoint |-> 0]
    /\ circuit' = [e \in Endpoint |-> "closed"]
    /\ UNCHANGED network

Served == ReadServed \/ NonceServed \/ QuoteServed \/ SendServed \/ SendRefused
Ended == SendExhausted \/ BuildExhausted \/ ReadExhausted

Next ==
    \/ StartRead \/ AskNext \/ Served \/ Ended \/ Restart
    \/ \E p \in Payment : StartBuild(p) \/ StartSend(p) \/ ReturnReceipt(p)
    \/ \E err \in {"lost", "untrusted"} : Lost(err)
    \/ \E e \in Endpoint : WindowPasses(e) /\ UNCHANGED <<work, network, faults>>
    \/ \E e, f \in Endpoint, x \in Tx : Gossip(e, f, x)
    \/ \E e \in Endpoint, x \in Tx : Mine(e, x)

Spec == Init /\ [][Next]_vars

\* The client goes on, and every request has a timeout.
FairSpec ==
    /\ Spec
    /\ WF_vars(AskNext)
    /\ WF_vars(Served \/ Lost("lost"))
    /\ WF_vars(Ended)

-----------------------------------------------------------------------------
\* The store makes a broadcast idempotent: what one page reported as sent no
\* other one sends again, also when two pages arrive at the same transaction
\* because a node gave both the same nonce.
RecordedIsNotResent ==
    \A p, q \in Payment :
        page[p].step = "sent" /\ page[q].step = "sending" => page[p].tx # page[q].tx

\* What is recorded as broadcast leaves no gap: some node has a transaction
\* with this nonce, whatever was lost, refused and asked again, so that a later
\* payment never waits behind it.  Certificate errors are the exception.
NonceIsTaken == \A x \in store \ doubtful : Taken(x.nonce)

\* When the user is told that a payment failed, it is for one of three reasons:
\* every endpoint lost a message of the one call, those behind an open circuit
\* included; the call's last answer was lost, so that nothing is known; or the
\* payment's nonce is used up by a block, so that sending it again is hopeless.
\* No mixture of refusals, circuits, gossip and earlier calls adds a fourth.
FailureIsExplained ==
    [][\A p \in Payment :
          page[p].step # "failed" /\ page'[p].step = "failed"
          => \/ missed = Endpoint
             \/ page[p].step = "sending" /\ last = "lost"
             \/ page[p].step = "sending" /\ page[p].tx.nonce < Len(mined)]_vars

\* The rotation starves no healthy endpoint, and the round of a call over the
\* endpoints comes to an end, whatever circuits open and close meanwhile.
RotationServes == FairRotation /\ (call # None ~> call = None)

(***************************************************************************)
(* What comments and docs of the repository say, and the code does not do. *)
(***************************************************************************)
Reached(x) ==
    \/ \E e \in Endpoint : x \in pool[e]
    \/ x.nonce < Len(mined) /\ mined[x.nonce + 1] = x.content

\* "Transaction already broadcast, treat as success": a payment that is
\* reported as sent is on its way.
SuccessReachedNetwork ==
    [][\A p \in Payment :
          page[p].step # "sent" /\ page'[p].step = "sent" => Reached(page[p].tx)']_vars
=============================================================================
