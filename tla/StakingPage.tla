----------------------------- MODULE StakingPage -----------------------------
(***************************************************************************)
(* The staking page: one option (a chain's coin and a provider), an        *)
(* amount, a fee estimate, and the deposit that is signed with the wallet  *)
(* password.  The fields stay open while the estimate is on its way, and   *)
(* its answer moves the page to the review whatever they hold by then.     *)
(***************************************************************************)
EXTENDS Integers, FiniteSets

CONSTANTS
    Option,
    Amount,    \* what the user can type
    Enough,    \* option -> amounts the balance and the minimum allow
    Listed,    \* options whose contract is on the backend's blacklist
    MaxStakes, \* bound on the deposits in progress
    None

VARIABLES
    step,     \* what the page shows; "closed" when it is not mounted
    option,   \* selectedOption
    amount,   \* None: the field is empty
    estimate, \* the fee estimate is in progress
    loading,  \* isLoading
    warned,   \* useSignReview asks for the box
    ack,      \* and it is ticked
    consent,  \* history: the option whose deposit the user ticked it for
    stakes,   \* deposits being built, signed and broadcast
    crossed   \* history: the form changed under an estimate

vars == <<step, option, amount, estimate, loading, warned, ack, consent, stakes, crossed>>

Step == {"closed", "selectOption", "input", "review", "password", "signing",
         "broadcasting", "success", "error"}

\* The deposit's calldata holds no amount: the review's key is the option.
Stake == [option : Option, amount : Amount \cup {None}, ack : BOOLEAN,
          consent : Option \cup {None}, signed : BOOLEAN, own : BOOLEAN, crossed : BOOLEAN]

Init ==
    /\ step = "closed"
    /\ option = None
    /\ amount = None
    /\ estimate = FALSE
    /\ loading = FALSE
    /\ warned = FALSE
    /\ ack = FALSE
    /\ consent = None
    /\ stakes = {}
    /\ crossed = FALSE

\* gateParams need an option and an amount; another key unticks the box.
Reviewed(o, n) ==
    LET key == IF n = None THEN None ELSE o
        old == IF amount = None THEN None ELSE option
    IN  /\ ack' = (ack /\ key = old)
        /\ consent' = IF key = old THEN consent ELSE None
        /\ warned' = (warned /\ key # None)

-----------------------------------------------------------------------------
Fresh(s) ==
    /\ step' = s
    /\ option' = None
    /\ amount' = None
    /\ estimate' = FALSE
    /\ loading' = FALSE
    /\ Reviewed(None, None)
    /\ crossed' = FALSE
    /\ stakes' = {[k EXCEPT !.own = FALSE] : k \in stakes}

Open == step = "closed" /\ Fresh("selectOption")

\* onBack: Go back, Cancel, Done.
Close ==
    /\ step \in {"selectOption", "input", "success", "error"}
    /\ Fresh("closed")

\* The app locks, or its session token is gone.
Unmount == step # "closed" /\ Fresh("closed")

HandleSelectOption(o) ==
    /\ step = "selectOption"
    /\ step' = "input"
    /\ option' = o
    /\ amount' = None
    /\ Reviewed(o, None)
    /\ crossed' = (crossed \/ estimate)
    /\ UNCHANGED <<estimate, loading, stakes>>

ChangeOption ==
    /\ step = "input"
    /\ step' = "selectOption"
    /\ option' = None
    /\ Reviewed(None, amount)
    /\ crossed' = (crossed \/ estimate)
    /\ UNCHANGED <<amount, estimate, loading, stakes>>

SetAmount(n) ==
    /\ step = "input"
    /\ n # amount
    /\ amount' = n
    /\ Reviewed(option, n)
    /\ crossed' = (crossed \/ estimate)
    /\ UNCHANGED <<step, option, estimate, loading, stakes>>

CheckReturns ==
    /\ option # None /\ amount # None
    /\ \E answered \in BOOLEAN : warned' = (answered /\ option \in Listed)
    /\ warned' # warned
    /\ UNCHANGED <<step, option, amount, estimate, loading, ack, consent, stakes, crossed>>

Valid == option # None /\ amount \in Enough[option]

\* isValidAmount, then estimateFee.
HandleReview ==
    /\ step = "input"
    /\ Valid /\ ~loading
    /\ estimate' = TRUE
    /\ loading' = TRUE
    /\ crossed' = FALSE
    /\ UNCHANGED <<step, option, amount, warned, ack, consent, stakes>>

EstimateReturns ==
    /\ estimate
    /\ estimate' = FALSE
    /\ loading' = FALSE
    /\ step' \in {step, "review"}
    /\ UNCHANGED <<option, amount, warned, ack, consent, stakes, crossed>>

HandleProceedToPassword ==
    /\ step = "review"
    /\ step' = "password"
    /\ UNCHANGED <<option, amount, estimate, loading, warned, ack, consent, stakes, crossed>>

\* Go back, and the retry of a failure: the form and the box are kept.
GoBack ==
    /\ \/ step = "review" /\ step' = "input"
       \/ step = "password" /\ step' = "review"
       \/ step = "error" /\ step' = "input"
    /\ UNCHANGED <<option, amount, estimate, loading, warned, ack, consent, stakes, crossed>>

Tick ==
    /\ step = "password"
    /\ warned /\ ~ack
    /\ ack' = TRUE
    /\ consent' = option
    /\ UNCHANGED <<step, option, amount, estimate, loading, warned, stakes, crossed>>

HandleExecuteStaking ==
    /\ step = "password"
    /\ warned => ack
    /\ option # None /\ ~loading
    /\ Cardinality(stakes) < MaxStakes
    /\ step' = "signing"
    /\ loading' = TRUE
    /\ stakes' = stakes \cup
         {[option |-> option, amount |-> amount, ack |-> ack, consent |-> consent,
           signed |-> FALSE, own |-> TRUE, crossed |-> crossed]}
    /\ UNCHANGED <<option, amount, estimate, warned, ack, consent, crossed>>

\* The gate computes the risk again, whatever the page was told.
BackendSigns(k) ==
    /\ ~k.signed
    /\ k.option \in Listed => k.ack
    /\ stakes' = (stakes \ {k}) \cup {[k EXCEPT !.signed = TRUE]}
    /\ step' = IF k.own THEN "broadcasting" ELSE step
    /\ UNCHANGED <<option, amount, estimate, loading, warned, ack, consent, crossed>>

StakeEnds(k) ==
    /\ stakes' = stakes \ {k}
    /\ \/ k.signed /\ step' = IF k.own THEN "success" ELSE step
       \/ step' = IF k.own THEN "error" ELSE step
    /\ loading' = (loading /\ ~k.own)
    /\ UNCHANGED <<option, amount, estimate, warned, ack, consent, crossed>>

-----------------------------------------------------------------------------
Returns ==
    \/ EstimateReturns
    \/ \E k \in stakes : BackendSigns(k) \/ StakeEnds(k)

Steps ==
    \/ ChangeOption
    \/ \E o \in Option : HandleSelectOption(o)
    \/ \E n \in Amount \cup {None} : SetAmount(n)
    \/ HandleReview \/ HandleProceedToPassword \/ GoBack \/ Tick \/ HandleExecuteStaking
    \/ CheckReturns
    \/ Returns

Next == Open \/ Close \/ Unmount \/ Steps

Spec == Init /\ [][Next]_vars

-----------------------------------------------------------------------------
TypeOK ==
    /\ step \in Step
    /\ option \in Option \cup {None}
    /\ amount \in Amount \cup {None}
    /\ {estimate, loading, warned, ack, crossed} \subseteq BOOLEAN
    /\ consent \in Option \cup {None}
    /\ stakes \subseteq Stake

\* A deposit to a listed contract is signed only if the user ticked the box
\* for that contract.
ListedIsConsented == \A k \in stakes : k.signed /\ k.option \in Listed => k.consent = k.option

\* The amount of a deposit is what the balance and the minimum allow, for a
\* user who leaves the form alone while the fee is estimated.
StakeIsEnough == \A k \in stakes : ~k.crossed => k.amount \in Enough[k.option]
=============================================================================
