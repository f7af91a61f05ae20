------------------------------ MODULE WsPairing ------------------------------
(***************************************************************************)
(* The pairing gate of the WebSocket server (websocket/server.rs and       *)
(* pairing.rs): what a connection must do before its requests are served.  *)
(* A page asks for a code, the desktop app shows it, the user types it     *)
(* into the page.  Each connection is a task of its own; they share only   *)
(* the channel of prompts and the one dialog the app shows them in.        *)
(***************************************************************************)
EXTENDS Integers, Sequences

CONSTANTS
    Page,         \* connections of clients that know the pairing handshake
    Plugin,       \* connections of the Hardhat plugin's client
    TTL,          \* lifetime of a code, 60 s in the code
    MaxAttempts,  \* 3 in the code
    MaxCode,      \* bound on the codes generated
    MaxOpen,      \* bound on the connections a client opens
    MaxTime       \* bound on the clock

Conn == Page \cup Plugin

ASSUME BoundAssumption ==
    /\ Page \cap Plugin = {}
    /\ TTL \in Nat /\ MaxAttempts \in Nat \ {0}
    /\ MaxCode \in Nat /\ MaxOpen \in Nat /\ MaxTime \in Nat

VARIABLES
    now,      \* the clock
    open,     \* connections that are up
    turn,     \* connection -> how often it was opened
    pairing,  \* connection -> its PairingState
    gate,     \* connection -> its `paired` flag
    answer,   \* connection -> whether its last request was served
    made,     \* codes generated so far; a code is named by its number
    owner,    \* code -> connection and turn it was generated for
    prompts,  \* codes on their way to the app
    shown,    \* code in the app's dialog, 0 for none
    seen,     \* codes the app has shown
    wrong     \* code -> how often it was missed (history)

vars == <<now, open, turn, pairing, gate, answer, made, owner, prompts, shown, seen, wrong>>

-----------------------------------------------------------------------------
State == [code : 0..MaxCode, at : Nat, attempts : 0..MaxAttempts,
          paired : BOOLEAN, locked : BOOLEAN]

NoState == [code |-> 0, at |-> 0, attempts |-> 0, paired |-> FALSE, locked |-> FALSE]

Answers == {"none", "served", "unpaired"}

Init ==
    /\ now = 0
    /\ open = {}
    /\ turn = [c \in Conn |-> 0]
    /\ pairing = [c \in Conn |-> NoState]
    /\ gate = [c \in Conn |-> FALSE]
    /\ answer = [c \in Conn |-> "none"]
    /\ made = 0
    /\ owner = <<>>
    /\ prompts = <<>>
    /\ shown = 0
    /\ seen = {}
    /\ wrong = [k \in 1..MaxCode |-> 0]

IsExpired(s) == now - s.at > TTL

\* Mutant: the state of the last connection is kept.
ConnectKeeping(c) ==
    /\ c \notin open
    /\ turn[c] < MaxOpen
    /\ open' = open \cup {c}
    /\ turn' = [turn EXCEPT ![c] = @ + 1]
    /\ UNCHANGED <<now, pairing, gate, answer, made, owner, prompts, shown, seen, wrong>>

\* A new connection of an admissible origin starts unpaired.
Connect(c) ==
    /\ c \notin open
    /\ turn[c] < MaxOpen
    /\ open' = open \cup {c}
    /\ turn' = [turn EXCEPT ![c] = @ + 1]
    /\ pairing' = [pairing EXCEPT ![c] = NoState]
    /\ gate' = [gate EXCEPT ![c] = FALSE]
    /\ answer' = [answer EXCEPT ![c] = "none"]
    /\ UNCHANGED <<now, made, owner, prompts, shown, seen, wrong>>

Disconnect(c) ==
    /\ c \in open
    /\ open' = open \ {c}
    /\ UNCHANGED <<now, turn, pairing, gate, answer, made, owner, prompts, shown, seen, wrong>>

\* A code that is neither expired nor locked is reused without a prompt.
NeedNew(s) == s.code = 0 \/ IsExpired(s) \/ s.locked

\* Mutant: a code that is reused gets a new budget.
RequestPairingRenewing(c) ==
    /\ c \in open \cap Page
    /\ \/ /\ NeedNew(pairing[c])
          /\ made < MaxCode
          /\ made' = made + 1
          /\ owner' = Append(owner, <<c, turn[c]>>)
          /\ pairing' = [pairing EXCEPT ![c] = [NoState EXCEPT !.code = made + 1, !.at = now]]
          /\ prompts' = Append(prompts, made + 1)
       \/ /\ ~NeedNew(pairing[c])
          /\ pairing' = [pairing EXCEPT ![c].attempts = 0]
          /\ UNCHANGED <<made, owner, prompts>>
    /\ UNCHANGED <<now, open, turn, gate, answer, shown, seen, wrong>>

RequestPairing(c) ==
    /\ c \in open \cap Page
    /\ \/ /\ NeedNew(pairing[c])
          /\ made < MaxCode
          /\ made' = made + 1
          /\ owner' = Append(owner, <<c, turn[c]>>)
          /\ pairing' = [pairing EXCEPT ![c] = [NoState EXCEPT !.code = made + 1, !.at = now]]
          /\ prompts' = Append(prompts, made + 1)
       \/ /\ ~NeedNew(pairing[c])
          /\ UNCHANGED <<made, owner, pairing, prompts>>
    /\ UNCHANGED <<now, open, turn, gate, answer, shown, seen, wrong>>

-----------------------------------------------------------------------------
(***************************************************************************)
(* PairingState::verify: the new state.  The order of the tests matters: a  *)
(* paired state stays paired after its lifetime, a locked one stays locked. *)
(***************************************************************************)
WrongAttempt(s) == [s EXCEPT !.attempts = @ + 1, !.locked = s.attempts + 1 >= MaxAttempts]

Verified(s, code) ==
    IF s.code = 0 \/ s.paired \/ s.locked \/ IsExpired(s) THEN s
    ELSE IF s.code = code THEN [s EXCEPT !.paired = TRUE]
    ELSE WrongAttempt(s)

\* The page sends what the user typed: a code the app showed, or a slip (0).
VerifyPairing(c, code) ==
    /\ c \in open \cap Page
    /\ pairing' = [pairing EXCEPT ![c] = Verified(@, code)]
    /\ gate' = [gate EXCEPT ![c] = pairing'[c].paired]
    /\ wrong' = IF pairing'[c] = pairing[c] \/ pairing'[c].paired THEN wrong
                ELSE [wrong EXCEPT ![pairing[c].code] = @ + 1]
    /\ UNCHANGED <<now, open, turn, answer, made, owner, prompts, shown, seen>>

\* Any method but ping and the handshake.
Request(c) ==
    /\ c \in open
    /\ answer' = [answer EXCEPT ![c] = IF gate[c] THEN "served" ELSE "unpaired"]
    /\ UNCHANGED <<now, open, turn, pairing, gate, made, owner, prompts, shown, seen, wrong>>

-----------------------------------------------------------------------------
(***************************************************************************)
(* The app: Dashboard polls for prompts and shows the last one it got.     *)
(***************************************************************************)
PollPrompt ==
    /\ prompts # <<>>
    /\ shown' = Head(prompts)
    /\ seen' = seen \cup {Head(prompts)}
    /\ prompts' = Tail(prompts)
    /\ UNCHANGED <<now, open, turn, pairing, gate, answer, made, owner, wrong>>

CloseDialog ==
    /\ shown # 0
    /\ shown' = 0
    /\ UNCHANGED <<now, open, turn, pairing, gate, answer, made, owner, prompts, seen, wrong>>

Tick ==
    /\ now < MaxTime
    /\ now' = now + 1
    /\ UNCHANGED <<open, turn, pairing, gate, answer, made, owner, prompts, shown, seen, wrong>>

Next ==
    \/ \E c \in Conn :
          \/ Connect(c) \/ Disconnect(c) \/ RequestPairing(c) \/ Request(c)
          \/ \E code \in seen \cup {0} : VerifyPairing(c, code)
    \/ PollPrompt \/ CloseDialog \/ Tick

Spec == Init /\ [][Next]_vars

-----------------------------------------------------------------------------
TypeOK ==
    /\ now \in Nat
    /\ open \subseteq Conn
    /\ turn \in [Conn -> 0..MaxOpen]
    /\ pairing \in [Conn -> State]
    /\ gate \in [Conn -> BOOLEAN]
    /\ answer \in [Conn -> Answers]
    /\ made \in 0..MaxCode
    /\ owner \in Seq(Conn \X (0..MaxOpen)) /\ Len(owner) = made
    /\ prompts \in Seq(1..made)
    /\ shown \in 0..made
    /\ seen \subseteq 1..made
    /\ wrong \in [1..MaxCode -> Nat]

\* A connection is let through only after the app showed the user a code that
\* was generated for this very connection, not for an earlier one of the same
\* client nor for another client whose prompt replaced it in the dialog.
OpenGateWasShown ==
    \A c \in Conn : gate[c] => \E k \in seen : owner[k] = <<c, turn[c]>>

\* However often a page asks again for its code, lets it expire or connects
\* anew, nobody misses a code more often than its budget allows, and a code that
\* was missed that often pairs nobody any more.
BudgetIsKept ==
    /\ \A k \in 1..made : wrong[k] <= MaxAttempts
    /\ \A c \in Conn : pairing[c].paired => wrong[pairing[c].code] < MaxAttempts

(***************************************************************************)
(* What comments and docs of the repository say, and the code does not do. *)
(***************************************************************************)
\* "once `paired` is true we stop calling `verify`": a paired connection stays
\* paired while it is up.
PairedStays ==
    [][\A c \in Conn : gate[c] /\ c \in open \cap open' => gate'[c]]_vars

\* "You'll see output like: Connected to ArcSign, Available accounts": the
\* plugin's requests are not refused for want of pairing.
PluginIsServed == \A c \in Plugin : answer[c] # "unpaired"
=============================================================================
