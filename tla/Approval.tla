------------------------------ MODULE Approval ------------------------------
(***************************************************************************)
(* What the desktop app promises a program that asks it for a signature:   *)
(* each request gets at most one answer, and a success is a signature the  *)
(* user agreed to, of a request that carries the same id.  Ids are all     *)
(* that ties an answer to its request, so another client that numbers its  *)
(* requests alike may be given what was agreed to for the first.  The      *)
(* queue, the polling page and the locks that get there are WsConfirm.     *)
(***************************************************************************)
CONSTANTS
    Req,
    ReqId  \* request -> its id

VARIABLES
    verdict,  \* request -> what its caller was told
    agreed    \* requests the user approved and the wallet signed

avars == <<verdict, agreed>>

\* A success carries the signed transaction, named by the request it signs.
Refusals == {"refused", "cancelled", "timedout"}

AInit ==
    /\ verdict = [r \in Req |-> "unasked"]
    /\ agreed = {}

Ask(r) ==
    /\ verdict[r] = "unasked"
    /\ verdict' = [verdict EXCEPT ![r] = "waiting"]
    /\ UNCHANGED agreed

Agree(r) ==
    /\ agreed' = agreed \cup {r}
    /\ UNCHANGED verdict

Grant(r, s) ==
    /\ verdict[r] = "waiting"
    /\ s \in agreed
    /\ ReqId[s] = ReqId[r]
    /\ verdict' = [verdict EXCEPT ![r] = s]
    /\ UNCHANGED agreed

Refuse(r, why) ==
    /\ verdict[r] = "waiting"
    /\ verdict' = [verdict EXCEPT ![r] = why]
    /\ UNCHANGED agreed

ANext ==
    \E r \in Req :
        \/ Ask(r) \/ Agree(r)
        \/ \E s \in Req : Grant(r, s)
        \/ \E why \in Refusals : Refuse(r, why)

ASpec == AInit /\ [][ANext]_avars
=============================================================================
