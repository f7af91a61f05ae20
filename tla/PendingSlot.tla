----------------------------- MODULE PendingSlot -----------------------------
(***************************************************************************)
(* The hand-over of a signing request from a WebSocket connection to the   *)
(* page that asks the user (websocket/handler.rs and                       *)
(* commands/websocket_commands.rs of the desktop shell).                   *)
(*                                                                         *)
(* A handler queues the request together with the sender half of a oneshot *)
(* channel and waits for the other half, at most five minutes.  The page   *)
(* polls: the command moves the head of the queue into the single slot     *)
(* CURRENT and returns it.  A respond command takes whatever is in the     *)
(* slot.  Commands run on a pool of threads, so two polls can overlap: the *)
(* test of the slot and the move into it are two critical sections.        *)
(* Transactions and messages have one such queue and slot each.            *)
(***************************************************************************)
EXTENDS Sequences, Integers

CONSTANTS
    Req,     \* signing requests
    Id,      \* request ids, chosen by the client
    ReqId,   \* request -> id
    Conn,    \* connections
    ConnOf,  \* request -> connection it arrives on
    Poller,  \* polls that can be in progress at once
    None     \* not a request

Outcome == {"unasked", "waiting", "refused", "cancelled", "timedout"}

ASSUME RequestAssumption ==
    /\ ReqId \in [Req -> Id]
    /\ ConnOf \in [Req -> Conn]
    /\ None \notin Req
    /\ Req \cap (Outcome \cup {"none", "failure", "closed"}) = {}

VARIABLES
    verdict,  \* request -> what its caller was told
    reply,    \* request -> what is in its oneshot channel
    queue,    \* the unbounded mpsc channel
    current,  \* the pending request whose sender the app holds
    poll      \* poll -> progress of its get_pending_transaction call

slotVars == <<verdict, reply, queue, current, poll>>

\* The signed transaction of a success is named by the request it signs.
Verdict == Outcome \cup Req

\* "closed": the sender was dropped without a value.
Reply == {"none", "failure", "closed"} \cup Req

\* "start": invoked; "checked": the slot was seen empty; "back": returned.
PollState == [page : {"dash", "main", "gone"}, step : {"idle", "start", "checked", "back"},
              got : Req \cup {None}]

Polling(page, step, r) == [page |-> page, step |-> step, got |-> r]

NoPoll == Polling("gone", "idle", None)

\* The call returns r (None: nothing is pending); nobody looks at it when
\* the page that called is unmounted.
Back(page, r) == IF page = "gone" THEN NoPoll ELSE Polling(page, "back", r)

SlotInit ==
    /\ verdict = [r \in Req |-> "unasked"]
    /\ reply = [r \in Req |-> "none"]
    /\ queue = <<>>
    /\ current = None
    /\ poll = [p \in Poller |-> NoPoll]

-----------------------------------------------------------------------------
(***************************************************************************)
(* The handler.  A connection reads its next message only when the handler *)
(* of the last one has returned.                                           *)
(***************************************************************************)
Submit(r) ==
    /\ verdict[r] = "unasked"
    /\ \A s \in Req : ConnOf[s] = ConnOf[r] => verdict[s] # "waiting"
    /\ verdict' = [verdict EXCEPT ![r] = "waiting"]
    /\ queue' = Append(queue, r)
    /\ UNCHANGED <<reply, current, poll>>

\* The answer a handler makes of what it finds in its channel.
VerdictOf(x) ==
    CASE x = "failure" -> "refused"
      [] x = "closed" -> "cancelled"
      [] OTHER -> x

Deliver(r) ==
    /\ verdict[r] = "waiting"
    /\ reply[r] # "none"
    /\ verdict' = [verdict EXCEPT ![r] = VerdictOf(reply[r])]
    /\ reply' = [reply EXCEPT ![r] = "none"]
    /\ UNCHANGED <<queue, current, poll>>

\* The five minutes are over and the channel is still empty.  Nothing tells
\* the queue or the slot.
Timeout(r) ==
    /\ verdict[r] = "waiting"
    /\ reply[r] = "none"
    /\ verdict' = [verdict EXCEPT ![r] = "timedout"]
    /\ UNCHANGED <<reply, queue, current, poll>>

-----------------------------------------------------------------------------
(***************************************************************************)
(* The sender in the slot is used, or dropped ("closed"); it goes nowhere  *)
(* when the handler has given up.                                          *)
(***************************************************************************)
Put(x) == IF current = None \/ verdict[current] # "waiting" THEN reply
          ELSE [reply EXCEPT ![current] = x]

(***************************************************************************)
(* get_pending_transaction.                                                *)
(***************************************************************************)
PollCheck(p) ==
    /\ poll[p].step = "start"
    /\ poll' = [poll EXCEPT ![p] =
           IF current = None THEN Polling(@.page, "checked", None)
                             ELSE Back(@.page, current)]
    /\ UNCHANGED <<verdict, reply, queue, current>>

PollEmpty(p) ==
    /\ poll[p].step = "checked"
    /\ queue = <<>>
    /\ poll' = [poll EXCEPT ![p] = Back(@.page, None)]
    /\ UNCHANGED <<verdict, reply, queue, current>>

\* Mutant: the pair that was replaced is kept, say on a list of stale requests
\* nobody reads, so that its caller waits out the five minutes.
ReplacedIsKept == reply

\* Storing into an occupied slot drops the sender it held.
DropReplaced == Put("closed")

\* The receiver is locked from try_recv until the slot is written.
PollTake(p) ==
    /\ poll[p].step = "checked"
    /\ queue # <<>>
    /\ poll' = [poll EXCEPT ![p] = Back(@.page, Head(queue))]
    /\ current' = Head(queue)
    /\ queue' = Tail(queue)
    /\ reply' = DropReplaced
    /\ UNCHANGED verdict

-----------------------------------------------------------------------------
(***************************************************************************)
(* respond_to_transaction and cancel_pending_transaction.  Both empty the  *)
(* slot.  A response whose id is not that of the slot drops the sender.    *)
(***************************************************************************)
Matches(id) == current # None /\ ReqId[current] = id

\* Mutant: the id of the response is not compared.
RespondUnmatched(id, x) ==
    /\ current' = None
    /\ reply' = Put(x)
    /\ UNCHANGED <<verdict, queue>>

\* Mutant: a pair whose id does not match is put back.
RespondPutBack(id, x) ==
    /\ current' = IF Matches(id) THEN None ELSE current
    /\ reply' = IF Matches(id) THEN Put(x) ELSE reply
    /\ UNCHANGED <<verdict, queue>>

Respond(id, x) ==
    /\ current' = None
    /\ reply' = Put(IF Matches(id) THEN x ELSE "closed")
    /\ UNCHANGED <<verdict, queue>>

CancelCurrent ==
    /\ current' = None
    /\ reply' = Put("failure")
    /\ UNCHANGED <<verdict, queue>>

-----------------------------------------------------------------------------
\* A request that still waits for its answer can still get one: its sender
\* is in the queue or in the slot, whatever the polls and responses did.
WaitingIsReachable ==
    \A r \in Req : verdict[r] = "waiting" /\ reply[r] = "none" =>
        current = r \/ \E i \in 1..Len(queue) : queue[i] = r

=============================================================================
