----------------------------- MODULE MCSendPage -----------------------------
(***************************************************************************)
(* The page that sends coins under names of its own, so that it can stand  *)
(* beside the page of the wallet: an instance with an ERC-20 of one chain  *)
(* and the coin of another.                                                *)
(***************************************************************************)
EXTENDS TLC

CONSTANTS Token, Chain, ChainOf, Erc20, Recipient, SendAmount, Seed, Feed, Job, Nil,
          j1, j2

VARIABLES sendStep, token, form, unsigned, sendLoading, build, check, report, ack, consent, job,
          blacklist

Send == INSTANCE SendPage WITH
    Amount <- SendAmount, None <- Nil, step <- sendStep, loading <- sendLoading

ASSUME SendAssumption ==
    /\ ChainOf \in [Token -> Chain]
    /\ Erc20 \subseteq Token
    /\ Seed \subseteq Recipient
    /\ Feed \subseteq Recipient
    /\ Nil \notin Token /\ Nil \notin SendAmount
    /\ Nil \notin Send!Form \cup Send!Tx \cup Send!Key

MCChainOf == ("usdt" :> "ethereum") @@ ("bnb" :> "bnb")

SendSpec == Send!Spec
FairSendSpec == Send!FairSpec

-----------------------------------------------------------------------------
\* Back, Edit and token changes never bring the page to a second signature or
\* broadcast beside one under way, nor leave its spinner without a call.
OneRequestAtATime == Send!OneRequestAtATime

\* The finding on screen is about the request the page has, or its own check is
\* still out.
FindingIsCurrent == Send!FindingIsCurrent

\* What the gate flags is signed only with a tick given for that request, under
\* the finding on screen.
DangerIsConsented == Send!DangerIsConsented

\* Every spinner of the page stops.
SpinnerStops == Send!SpinnerStops

\* "Review transaction details" (SendTransaction.tsx:70): what is signed is what
\* the review step showed.
SignedIsReviewed == Send!SignedIsReviewed
=============================================================================
