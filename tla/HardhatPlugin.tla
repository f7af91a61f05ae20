---------------------------- MODULE HardhatPlugin ----------------------------
(***************************************************************************)
(* The Hardhat plugin: the ArcSignClient of the provider, which the        *)
(* signers it hands out share, and its WebSocket connections to the        *)
(* dashboard.  The plugin's second client only asks for explorer keys.     *)
(*                                                                         *)
(* The handlers of a socket act on the fields of the client, whichever     *)
(* socket those are about by then: this.ws, connectPromise and the map of  *)
(* pending requests.  An event runs to its end, and so do the             *)
(* continuations of the promises it settles, before the next event.        *)
(***************************************************************************)
EXTENDS Integers, FiniteSets

CONSTANTS
    Caller,      \* scripts that run at the same time
    Socket,
    MaxRequest,  \* bound on the requests of the client
    None

VARIABLES
    sock,     \* readyState of every WebSocket that was made
    ws,       \* this.ws
    promise,  \* connectPromise, by its socket
    timers,   \* sockets whose ten seconds to connect are running
    lastId,   \* requestId
    pending,  \* pendingRequests
    wire,     \* requests and answers on their way
    script,   \* what every script waits for
    cached,   \* accounts of the provider: some are known
    gated,    \* the dashboard serves only paired connections, which the
              \*   plugin cannot make
    node,     \* scripts whose transaction the network knows
    crossed   \* history: a handler acted on the connection of another socket

vars == <<sock, ws, promise, timers, lastId, pending, wire, script, cached, gated, node, crossed>>
connection == <<sock, ws, promise, timers, crossed>>

Want == {"probe", "open", "ping", "accounts", "again", "sign"}
Result == {"ok", "empty", "hash", "signed", "fail"}

\* own: the answer is the one to the script's own request (history).
Script == [at : {"idle", "connect", "connected", "wait", "answered", "ready", "poll", "done", "failed", "out"},
           want : Want \cup {None}, on : Socket \cup {None}, id : 0..MaxRequest,
           res : Result \cup {None}, own : BOOLEAN]
Request == [id : 1..MaxRequest, s : Socket, c : Caller, want : Want, res : Result \cup {None}]

Idle == [at |-> "idle", want |-> None, on |-> None, id |-> 0, res |-> None, own |-> TRUE]

Init ==
    /\ sock = [s \in Socket |-> "none"]
    /\ ws = None /\ promise = None
    /\ timers = {}
    /\ lastId = 0 /\ pending = {} /\ wire = {}
    /\ script = [c \in Caller |-> Idle]
    /\ cached = FALSE
    /\ gated \in BOOLEAN
    /\ node = {}
    /\ crossed = FALSE

IsConnected == ws # None /\ sock[ws] = "open"
Quiet == \A c \in Caller : script[c].at \notin {"connected", "answered"}

At(c, a, w) == [script EXCEPT ![c].at = a, ![c].want = w, ![c].on = None, ![c].res = None]
Answered(c, r) == [script EXCEPT ![c].at = "answered", ![c].res = r]

-----------------------------------------------------------------------------
(***************************************************************************)
(* ArcSignClient.                                                          *)
(***************************************************************************)
\* connect(); the script gives up when the model has no socket left.
Connect(c, w) ==
    /\ IF promise # None
       THEN /\ script' = [At(c, "connect", w) EXCEPT ![c].on = promise]
            /\ UNCHANGED connection
       ELSE IF \E s \in Socket : sock[s] = "none"
       THEN LET s == CHOOSE s \in Socket : sock[s] = "none"
            IN  /\ sock' = [sock EXCEPT ![s] = "connecting"]
                /\ ws' = s /\ promise' = s
                /\ timers' = timers \cup {s}
                /\ script' = [At(c, "connect", w) EXCEPT ![c].on = s]
                /\ UNCHANGED crossed
       ELSE script' = At(c, "out", None) /\ UNCHANGED connection
    /\ UNCHANGED <<lastId, pending, wire>>

\* Mutant: the id is that after the requests on their way on this connection.
SendFromOne(c, w) ==
    LET i == 1 + Cardinality({q \in wire : q.s = ws})
    IN  /\ lastId' = IF i > lastId /\ i <= MaxRequest THEN i ELSE lastId
        /\ IF ws # None /\ sock[ws] = "open" /\ i <= MaxRequest
           THEN /\ script' = [At(c, "wait", w) EXCEPT ![c].id = i]
                /\ pending' = pending \cup {<<i, c>>}
                /\ wire' = wire \cup {[id |-> i, s |-> ws, c |-> c, want |-> w, res |-> None]}
           ELSE script' = At(c, "out", None) /\ UNCHANGED <<pending, wire>>
        /\ UNCHANGED connection

\* The rest of sendRequest, which throws when there is no socket or the
\* socket is not open yet: the entry stays in the map.
Send(c, w) ==
    /\ IF lastId = MaxRequest
       THEN script' = At(c, "out", None) /\ UNCHANGED <<lastId, pending, wire>>
       ELSE LET i == lastId + 1
            IN  /\ lastId' = i
                /\ pending' = pending \cup {<<i, c>>}
                /\ script' = IF ws = None \/ sock[ws] = "connecting"
                             THEN [At(c, "answered", w) EXCEPT ![c] = [@ EXCEPT !.res = "fail", !.id = 0]]
                             ELSE [At(c, "wait", w) EXCEPT ![c].id = i]
                /\ wire' = IF IsConnected
                           THEN wire \cup {[id |-> i, s |-> ws, c |-> c, want |-> w, res |-> None]}
                           ELSE wire
    /\ UNCHANGED connection

SendRequest(c, w) == IF IsConnected THEN Send(c, w) ELSE Connect(c, w)

Settled(s, a, r) ==
    [c \in Caller |->
        IF script[c].at = "connect" /\ script[c].on = s
        THEN [script[c] EXCEPT !.at = a, !.on = None, !.res = r]
        ELSE script[c]]

\* on("open").
OnOpen(s) ==
    /\ Quiet
    /\ sock[s] = "connecting"
    /\ sock' = [sock EXCEPT ![s] = "open"]
    /\ promise' = None
    /\ script' = Settled(s, "connected", None)
    /\ crossed' = (crossed \/ ws # s)
    /\ UNCHANGED <<ws, timers, lastId, pending, wire, cached, gated, node>>

\* What on("close") does, after the scripts in waiting were set by sc.
Closes(s, sc) ==
    /\ sock' = [sock EXCEPT ![s] = "closed"]
    /\ ws' = None /\ promise' = None
    /\ script' = [c \in Caller |->
                    IF sc[c].at = "wait" /\ <<sc[c].id, c>> \in pending
                    THEN [sc[c] EXCEPT !.at = "answered", !.res = "fail"]
                    ELSE sc[c]]
    /\ pending' = {}
    /\ wire' = {q \in wire : q.s # s \/ q.res = None}
    /\ crossed' = (crossed \/ ws \notin {s, None})
    /\ UNCHANGED <<timers, lastId, cached, gated, node>>

\* on("error"), and on("close") after it.
OnError(s) ==
    /\ Quiet
    /\ sock[s] \in {"connecting", "aborted"}
    /\ Closes(s, Settled(s, "answered", "fail"))

OnClose(s) ==
    /\ Quiet
    /\ sock[s] = "closing"
    /\ Closes(s, script)

\* The dashboard stops, or closes the connection.
Drop(s) ==
    /\ Quiet
    /\ sock[s] = "open"
    /\ sock' = [sock EXCEPT ![s] = "closing"]
    /\ UNCHANGED <<ws, promise, timers, lastId, pending, wire, script, cached, gated, node, crossed>>

\* close() of the socket in this.ws.
Closing == IF ws = None THEN sock
           ELSE [sock EXCEPT ![ws] = CASE @ = "open" -> "closing"
                                       [] @ = "connecting" -> "aborted"
                                       [] OTHER -> @]

\* Ten seconds after the socket was made.
ConnectTimeout(s) ==
    /\ Quiet
    /\ s \in timers
    /\ timers' = timers \ {s}
    /\ IF IsConnected
       THEN UNCHANGED <<sock, promise, script, crossed>>
       ELSE /\ sock' = Closing
            /\ promise' = None
            /\ script' = Settled(s, "answered", "fail")
            /\ crossed' = (crossed \/ ws \notin {s, None} \/ promise \notin {s, None})
    /\ UNCHANGED <<ws, lastId, pending, wire, cached, gated, node>>

Disconnect ==
    /\ Quiet
    /\ ws # None
    /\ sock' = Closing
    /\ ws' = None
    /\ UNCHANGED <<promise, timers, lastId, pending, wire, script, cached, gated, node, crossed>>

\* on("message"): a message may still come while the socket is closing.
OnMessage(q) ==
    /\ Quiet
    /\ q.res # None /\ sock[q.s] \in {"open", "closing"}
    /\ wire' = wire \ {q}
    /\ pending' = {p \in pending : p[1] # q.id}
    /\ script' = [c \in Caller |->
                    IF <<q.id, c>> \in pending /\ script[c].at = "wait" /\ script[c].id = q.id
                    THEN [script[c] EXCEPT !.at = "answered", !.res = q.res,
                                           !.own = q.c = c /\ q.want = script[c].want]
                    ELSE script[c]]
    /\ UNCHANGED <<sock, ws, promise, timers, lastId, cached, gated, node, crossed>>

\* Mutant: the timeout only forgets the request.
RequestTimeoutForgets(c) ==
    /\ Quiet
    /\ script[c].at = "wait"
    /\ pending' = pending \ {<<script[c].id, c>>}
    /\ UNCHANGED <<sock, ws, promise, timers, lastId, wire, script, cached, gated, node, crossed>>

\* Five minutes after the request.
RequestTimeout(c) ==
    /\ Quiet
    /\ script[c].at = "wait"
    /\ pending' = pending \ {<<script[c].id, c>>}
    /\ script' = Answered(c, "fail")
    /\ UNCHANGED <<sock, ws, promise, timers, lastId, wire, cached, gated, node, crossed>>

-----------------------------------------------------------------------------
(***************************************************************************)
(* The dashboard.                                                          *)
(***************************************************************************)
\* A ping is always answered.  A transaction is signed and broadcast, and its
\* hash reported, or only signed; the broadcast may not reach the network.
Serve(q) ==
    /\ Quiet
    /\ q.res = None
    /\ \E r \in IF q.want \in {"probe", "ping"} THEN {"ok", "fail"}
               ELSE IF gated THEN {"fail"}
               ELSE IF q.want = "sign" THEN {"hash", "signed", "fail"}
               ELSE {"ok", "empty", "fail"} :
        /\ wire' = (wire \ {q}) \cup (IF sock[q.s] \in {"open", "closing"} THEN {[q EXCEPT !.res = r]} ELSE {})
        /\ node' \in IF r = "hash" THEN {node, node \cup {q.c}} ELSE {node}
    /\ UNCHANGED <<sock, ws, promise, timers, lastId, pending, script, cached, gated, crossed>>

-----------------------------------------------------------------------------
(***************************************************************************)
(* ArcSignProvider and ArcSignSigner: the steps of a script.               *)
(***************************************************************************)
\* isConnected() of the provider asks for an answer to a ping.
GetSigners(c) ==
    /\ Quiet
    /\ script[c].at = "idle"
    /\ IF IsConnected THEN Send(c, "probe") ELSE Connect(c, "open")
    /\ UNCHANGED <<cached, gated, node>>

\* connect() of the provider.
ProviderConnect(c) ==
    IF IsConnected
    THEN script' = At(c, "connected", "open") /\ UNCHANGED <<connection, lastId, pending, wire>>
    ELSE Connect(c, "open")

SendTransaction(c) ==
    /\ Quiet
    /\ script[c].at = "ready"
    /\ SendRequest(c, "sign")
    /\ UNCHANGED <<cached, gated, node>>

AfterConnect(c) ==
    /\ script[c].at = "connected"
    /\ IF script[c].want = "open" THEN SendRequest(c, "ping") ELSE Send(c, script[c].want)
    /\ UNCHANGED <<cached, gated, node>>

Ends(c, a) == script' = At(c, a, None) /\ UNCHANGED <<connection, lastId, pending, wire>>

AfterFailure(c) ==
    /\ script[c].at = "answered" /\ script[c].res = "fail"
    /\ IF script[c].want = "probe" THEN ProviderConnect(c) ELSE Ends(c, "failed")
    /\ UNCHANGED <<cached, gated, node>>

AfterPing(c) ==
    /\ script[c].at = "answered" /\ script[c].res = "ok"
    /\ \/ /\ script[c].want = "probe"
          /\ IF cached THEN Ends(c, "ready") ELSE SendRequest(c, "again")
       \/ script[c].want = "ping" /\ SendRequest(c, "accounts")
    /\ UNCHANGED <<cached, gated, node>>

\* getAccounts asks again when connect() found none.
AfterAccounts(c) ==
    /\ script[c].at = "answered" /\ script[c].want \in {"accounts", "again"}
    /\ script[c].res \in {"ok", "empty"}
    /\ cached' = (script[c].res = "ok")
    /\ IF cached' THEN Ends(c, "ready")
       ELSE IF script[c].want = "accounts" THEN SendRequest(c, "again")
       ELSE Ends(c, "failed")
    /\ UNCHANGED <<gated, node>>

\* Mutant: the reported hash is taken for the transaction.
AfterSignTrusting(c) ==
    /\ script[c].at = "answered" /\ script[c].want = "sign"
    /\ \/ script[c].res = "hash" /\ Ends(c, "done") /\ UNCHANGED node
       \/ script[c].res = "signed" /\ Ends(c, "failed") /\ UNCHANGED node
    /\ UNCHANGED <<cached, gated>>

\* The signed transaction of an answer without a hash is broadcast here.
AfterSign(c) ==
    /\ script[c].at = "answered" /\ script[c].want = "sign"
    /\ \/ script[c].res = "hash" /\ Ends(c, "poll") /\ UNCHANGED node
       \/ script[c].res = "signed" /\ Ends(c, "done") /\ node' = node \cup {c}
       \/ script[c].res = "signed" /\ Ends(c, "failed") /\ UNCHANGED node
    /\ UNCHANGED <<cached, gated>>

\* getTransaction, once a second for thirty seconds.
Poll(c) ==
    /\ Quiet
    /\ script[c].at = "poll"
    /\ \/ c \in node /\ Ends(c, "done")
       \/ Ends(c, "failed")
    /\ UNCHANGED <<cached, gated, node>>

-----------------------------------------------------------------------------
Microtask(c) ==
    AfterConnect(c) \/ AfterFailure(c) \/ AfterPing(c) \/ AfterAccounts(c) \/ AfterSign(c)

Next ==
    \/ \E c \in Caller :
        GetSigners(c) \/ SendTransaction(c) \/ Microtask(c) \/ Poll(c) \/ RequestTimeout(c)
    \/ \E s \in Socket :
        OnOpen(s) \/ OnError(s) \/ OnClose(s) \/ Drop(s) \/ ConnectTimeout(s)
    \/ Disconnect
    \/ \E q \in wire : OnMessage(q) \/ Serve(q)

Spec == Init /\ [][Next]_vars

\* Microtasks run, timers fire, and a closing socket closes.
FairSpec ==
    /\ Spec
    /\ \A c \in Caller : WF_vars(Microtask(c) \/ RequestTimeout(c) \/ Poll(c))
    /\ \A s \in Socket : WF_vars(ConnectTimeout(s) \/ OnClose(s) \/ OnError(s))

-----------------------------------------------------------------------------
TypeOK ==
    /\ sock \in [Socket -> {"none", "connecting", "open", "aborted", "closing", "closed"}]
    /\ {ws, promise} \subseteq Socket \cup {None}
    /\ timers \subseteq {s \in Socket : sock[s] # "none"}
    /\ lastId \in 0..MaxRequest
    /\ pending \subseteq (1..lastId) \X Caller
    /\ wire \subseteq Request
    /\ script \in [Caller -> Script]
    /\ node \subseteq Caller
    /\ {cached, gated, crossed} \subseteq BOOLEAN

\* A script that waits for an answer is in the map: an answer, the end of the
\* connection and the timeout all reach it.
WaiterIsPending == \A c \in Caller : script[c].at = "wait" => <<script[c].id, c>> \in pending

\* Whatever connections come and go, an answer is to the script's own request.
AnswerIsOwn == \A c \in Caller : script[c].own

\* Unless a handler of one socket changed the fields of another, the client
\* has one connection and knows it.
OneConnection ==
    ~crossed => \A s \in Socket : sock[s] \in {"connecting", "open"} => ws = s

\* However sockets, timers and answers of several connections interleave, a
\* script that waits can be answered, and only with what it asked for, on the
\* connection the client has.
AnswersArrive == WaiterIsPending /\ AnswerIsOwn /\ OneConnection

\* A script that was given a transaction finds it on the network.
ReturnedIsKnown == \A c \in Caller : script[c].at = "done" => c \in node

\* A script is not kept waiting.
CallsEnd ==
    \A c \in Caller : script[c].at \in {"connect", "wait", "poll"} ~>
                      script[c].at \in {"ready", "done", "failed", "out"}
=============================================================================
