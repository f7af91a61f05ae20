--------------------------- MODULE MCWalletConnect ---------------------------
(***************************************************************************)
(* Three small instances in one: two sessions, no requests, and a fault;   *)
(* one request and two sign-ins; a transaction and a message, one sign-in. *)
(* Recoveries cross approvals and sweeps in the first, a request in the    *)
(* second.  The second wallet has a passphrase.                            *)
(***************************************************************************)
EXTENDS WalletConnect

CONSTANTS s1, s2, w1, w2, r1, r2

VARIABLE scene  \* which of the instances

MCTopicOf == [r \in Req |-> s1]

Sent == {r \in Req : req[r].phase # "unsent"}

OneSession ==
    /\ proposal # s2
    /\ refused = {}
    /\ Sent # {} => modal = "closed" /\ address = None /\ \A t \in Topic : deciding[t] = NoDecision

Scene == [
    sessions |->
        /\ Sent = {}
        /\ modal # "pairing"
        /\ recovering # {} => modal = "closed" /\ \A t \in Topic : deciding[t].does # "save"
        /\ \A t \in Topic : w2 \notin {live[t], address, walletId},
    signIns  |->
        /\ OneSession
        /\ Sent \subseteq {r1}
        /\ recovering # {} => modal = "closed" /\ address = None,
    requests |->
        /\ OneSession
        /\ login < 2 /\ faults = 0
        /\ Sent # {} => recovering = {}
        /\ \A r \in Req : req[r].phase = "checking" => req[r].method # "chain"
        /\ req[r1].method \in {"tx", "chain"}
        /\ req[r2].method \in {"message", "chain"}]

MCInit == Init /\ scene \in DOMAIN Scene
MCNext == Next /\ UNCHANGED scene /\ Scene[scene]'
MCSpec == MCInit /\ [][MCNext]_<<vars, scene>>
MCFairSpec == MCSpec /\ Fairness
=============================================================================
