---------------------------- MODULE MCWalletPage ----------------------------
(***************************************************************************)
(* Four small instances in one: the prompts of two wallets, one of them    *)
(* with a passphrase; the swap page; the staking page; the approvals tab.  *)
(* The pages are those of the wallet without a passphrase.  The coin is    *)
(* what the gate flags, so that the other token's approval can succeed.    *)
(***************************************************************************)
EXTENDS WalletPage

CONSTANTS w1, w2, lido, ankr, weth, wbnb

VARIABLE scene  \* which of the instances

MCEnough == [o \in Option |-> IF o = lido THEN Amount ELSE {"some"}]
MCNetworkOf == [e \in Entry |-> IF e = weth THEN "ethereum" ELSE "bnb"]

Plain ==
    /\ wallet \in {None, w1} /\ context \in {None, w1}
    /\ Cardinality(tasks) <= 1 /\ ~refreshing
    /\ \A k \in tasks : k.own

\* One call at most is left behind by a swap page that is gone; meanwhile the
\* next page asks for no approval and keeps the form of what it has built.
OneLeft ==
    LET left == {c \in swapCalls : ~c.own}
    IN  /\ Cardinality(left) <= 1
        /\ left # {} => swapApproval = None /\ swapTx \in {None, swapForm}

Scene ==
    \/ scene = "prompts" /\ sub \in {"assets", "history"} /\ tab = "crypto"
    \/ scene = "swap" /\ Plain /\ OneLeft /\ sub \in {"assets", "swap"} /\ tab = "crypto"
    \/ scene = "staking" /\ Plain /\ sub \in {"assets", "staking"} /\ tab = "crypto"
    \/ scene = "revoke" /\ Plain /\ sub = "assets"

MCInit == Init /\ scene \in {"prompts", "swap", "staking", "revoke"}
MCNext == Next /\ UNCHANGED scene /\ Scene'
MCSpec == MCInit /\ [][MCNext]_<<vars, scene>>

-----------------------------------------------------------------------------
\* The confirmation of the swap page, as the wallet's page runs it.
SwapConfirmedIsBuilt == Swap!ConfirmedIsBuilt
=============================================================================
