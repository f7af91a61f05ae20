---------------------------- MODULE MCWsConfirm ----------------------------
(***************************************************************************)
(* WsConfirm on two requests of two connections, in three scenes: two      *)
(* polls that overlap, over requests that carry the same id; two approvals *)
(* or rejections that overlap, over requests of different ids; and a poll  *)
(* and an approval while the user goes from page to page.                  *)
(***************************************************************************)
EXTENDS WsConfirm, TLC

CONSTANTS r1, r2, r3, p1, p2, j1, j2

VARIABLE scene  \* which of the three

\* A client numbers its requests 1, 2, ...; both clients begin with 1.
MCReqId == (r1 :> 1 @@ r2 :> 1 @@ r3 :> 2)
MCConnOf == (r1 :> "a" @@ r2 :> "b" @@ r3 :> "a")

\* What a scene leaves to the others: rejecting in the dialog and leaving
\* DeveloperMode (both begin a cooldown), the settings, or the second job.
Scene ==
    \/ /\ scene = "polls"
       /\ verdict[r3] = "unasked" /\ job[j2] = NoJob
       /\ ~cooldown /\ view # "settings"
    \/ /\ scene = "jobs"
       /\ verdict[r1] = "unasked" /\ poll[p2] = NoPoll
       /\ cooldown => job[j1] = NoJob
       /\ view # "settings"
    \/ /\ scene = "pages"
       /\ verdict[r1] = "unasked" /\ poll[p2] = NoPoll /\ job[j2] = NoJob
       /\ view = "settings" => \E r \in {r2, r3} : verdict[r] = "unasked"

MCInit == Init /\ scene \in {"polls", "jobs", "pages"}
MCNext == Next /\ UNCHANGED scene /\ Scene'

\* The second poll and the second job are no party to Fairness where a scene
\* has only one: the interval and the user need one of them.
MCSpec == MCInit /\ [][MCNext]_<<vars, scene>> /\ Fairness
=============================================================================
