-------------------------------- MODULE Vault --------------------------------
(***************************************************************************)
(* What the wallet files on the stick promise: a wallet comes into being   *)
(* at once, can be opened with its password from then on, and goes only    *)
(* after a deletion of it was authorised; and what an answer says is so.   *)
(***************************************************************************)
CONSTANT Wallet

VARIABLES
    state,   \* wallet -> how far it is
    reply,   \* the answer to the request in service, with its wallets
    steady   \* the stick has been where the request looks for it

vvars == <<state, reply, steady>>

State == {"new", "kept", "doomed", "gone"}
In(states) == {w \in Wallet : state[w] \in states}
NoReply == [do |-> "none", ws |-> {}]

VInit == state = [w \in Wallet |-> "new"] /\ reply = NoReply /\ steady = FALSE

Become(w, from, to) ==
    /\ state[w] = from
    /\ state' = [state EXCEPT ![w] = to]

\* Steps that nobody is told of yet, and the last one of a request, which is
\* answered with what is so after it.
Keep(w) == Become(w, "new", "kept")
Doom(w) == Become(w, "kept", "doomed")
Erase(w) == Become(w, "doomed", "gone")
Change == UNCHANGED state \/ \E w \in Wallet : Keep(w) \/ Doom(w) \/ Erase(w)

IsSo(do, ws) ==
    LET Now(states) == {w \in Wallet : state'[w] \in states}
        Held == Now({"kept", "doomed"})
    IN  CASE do = "add"    -> ws # {} /\ ws \subseteq Now({"kept"})
          [] do = "open"   -> ws \subseteq Held
          [] do = "list"   -> ws \subseteq Held /\ (steady => Now({"kept"}) \subseteq ws)
          [] do = "delete" -> steady => ws \subseteq Now({"gone"})
          [] OTHER         -> FALSE

Silent == Change /\ reply' = NoReply
Answer(do, ws) == Change /\ IsSo(do, ws) /\ reply' = [do |-> do, ws |-> ws]

VNext ==
    \/ Silent
    \/ UNCHANGED steady /\ \E do \in {"add", "open", "list", "delete"}, ws \in SUBSET Wallet : Answer(do, ws)
    \/ UNCHANGED <<state, reply>>

VSpec == VInit /\ [][VNext]_vvars
=============================================================================
