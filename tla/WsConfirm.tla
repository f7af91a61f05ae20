------------------------------ MODULE WsConfirm ------------------------------
(***************************************************************************)
(* Transaction requests from local programs, from the WebSocket handler    *)
(* through the pending slot to the two pages of the desktop app that ask   *)
(* the user: Dashboard (a modal dialog) and DeveloperMode (a list).        *)
(*                                                                         *)
(* Both pages poll every 500 ms and act on what comes back whatever has    *)
(* become of the page since: a poll, a signature and a response are each   *)
(* awaited, so the user's clicks and the other page's calls come between.  *)
(***************************************************************************)
EXTENDS PendingSlot

CONSTANTS
    Script,  \* requests that name a script (Hardhat, Foundry)
    Job      \* approvals and rejections that can be in progress at once

ASSUME ScriptAssumption == Script \subseteq Req

VARIABLES
    view,      \* where the user is: Dashboard's view and DeveloperMode's state
    dialog,    \* Dashboard: pendingTransaction
    spinning,  \* TransactionSignDialog: isLoading
    cooldown,  \* Dashboard: rejectCooldown
    cancel,    \* a cancel_pending_transaction call is on its way
    list,      \* DeveloperMode: pendingRequests
    job,       \* what follows a click of Approve or Reject
    agreed     \* requests signed after the user approved them

uiVars == <<view, dialog, spinning, cooldown, cancel, list, job, agreed>>
vars == <<slotVars, uiVars>>

\* "choose" and "main": DeveloperMode before and after a wallet is chosen.
View == {"list", "settings", "choose", "main"}
Developer == {"choose", "main"}

\* "gone": the component that started the job was unmounted.
\* ok: the wallet signed; keep: the list entry stays (a failed approval).
JobState == [page : {"dialog", "list", "gone"}, req : Req \cup {None},
             step : {"none", "sign", "respond", "tidy"}, ok : BOOLEAN, keep : BOOLEAN]

Doing(page, r, step) == [page |-> page, req |-> r, step |-> step, ok |-> FALSE, keep |-> FALSE]

NoJob == Doing("gone", None, "none")

Init ==
    /\ SlotInit
    /\ view = "list"
    /\ dialog = None
    /\ spinning = FALSE
    /\ cooldown = FALSE
    /\ cancel = FALSE
    /\ list = {}
    /\ job = [j \in Job |-> NoJob]
    /\ agreed = {}

-----------------------------------------------------------------------------
(***************************************************************************)
(* Polling.  The gate of the Dashboard poll is read from the render that   *)
(* set the interval; DeveloperMode polls while its main view is mounted.   *)
(***************************************************************************)
Busy(page) == \E j \in Job : job[j].page = page /\ job[j].step # "none"

PollDashboard(p) ==
    /\ poll[p].step = "idle"
    /\ view \notin Developer
    /\ ~Busy("dialog") /\ dialog = None /\ ~cooldown
    /\ poll' = [poll EXCEPT ![p] = Polling("dash", "start", None)]
    /\ UNCHANGED <<verdict, reply, queue, current, uiVars>>

PollDeveloper(p) ==
    /\ poll[p].step = "idle"
    /\ view = "main"
    /\ poll' = [poll EXCEPT ![p] = Polling("main", "start", None)]
    /\ UNCHANGED <<verdict, reply, queue, current, uiVars>>

RunPoll(p) ==
    /\ PollCheck(p) \/ PollEmpty(p) \/ PollTake(p)
    /\ UNCHANGED uiVars

\* Entering DeveloperMode with a dialog open clears it and cancels.
Enter ==
    /\ view' = "choose"
    /\ dialog' = None
    /\ cancel' = (cancel \/ dialog # None)
    /\ spinning' = FALSE

\* Dashboard has its answer.  A script's request moves the user to
\* DeveloperMode, which will poll it again from the slot.
ShowDashboard(p) ==
    /\ poll[p].step = "back"
    /\ poll[p].page = "dash"
    /\ poll' = [poll EXCEPT ![p] = NoPoll]
    /\ \/ /\ poll[p].got \in Script
          /\ view \notin Developer
          /\ Enter
       \/ /\ poll[p].got \in Script
          /\ view \in Developer
          /\ UNCHANGED <<view, dialog, cancel, spinning>>
       \/ /\ poll[p].got \in Req \ Script
          /\ dialog' = poll[p].got
          /\ UNCHANGED <<view, cancel, spinning>>
       \/ /\ poll[p].got = None
          /\ UNCHANGED <<view, dialog, cancel, spinning>>
    /\ UNCHANGED <<verdict, reply, queue, current, cooldown, list, job, agreed>>

\* The list holds at most one entry per request id.
Listed(id) == \E r \in list : ReqId[r] = id

ShowDeveloper(p) ==
    /\ poll[p].step = "back"
    /\ poll[p].page = "main"
    /\ poll' = [poll EXCEPT ![p] = NoPoll]
    /\ list' = IF poll[p].got # None /\ ~Listed(ReqId[poll[p].got])
               THEN list \cup {poll[p].got} ELSE list
    /\ UNCHANGED <<verdict, reply, queue, current, view, dialog, spinning, cooldown, cancel,
                   job, agreed>>

-----------------------------------------------------------------------------
(***************************************************************************)
(* Navigation.  The dialog covers the list view; DeveloperMode is a        *)
(* component of its own and forgets its state when the user leaves it.     *)
(***************************************************************************)
OpenSettings ==
    /\ view = "list"
    /\ dialog = None
    /\ view' = "settings"
    /\ spinning' = FALSE
    /\ UNCHANGED <<slotVars, dialog, cooldown, cancel, list, job, agreed>>

CloseSettings ==
    /\ view = "settings"
    /\ view' = "list"
    /\ UNCHANGED <<slotVars, dialog, spinning, cooldown, cancel, list, job, agreed>>

EnterDeveloper ==
    /\ view = "settings"
    /\ Enter
    /\ UNCHANGED <<slotVars, cooldown, list, job, agreed>>

SelectWallet ==
    /\ view = "choose"
    /\ view' = "main"
    /\ UNCHANGED <<slotVars, dialog, spinning, cooldown, cancel, list, job, agreed>>

Orphaned(j) ==
    IF job[j].page # "list" THEN job[j]
    ELSE IF job[j].step = "tidy" THEN NoJob
    ELSE [job[j] EXCEPT !.page = "gone"]

Unheard(p) ==
    IF poll[p].page # "main" THEN poll[p]
    ELSE IF poll[p].step = "back" THEN NoPoll
    ELSE [poll[p] EXCEPT !.page = "gone"]

\* Back, or the inactivity logout.
LeaveDeveloper ==
    /\ view \in Developer
    /\ view' = "list"
    /\ dialog' = None
    /\ cooldown' = TRUE
    /\ cancel' = TRUE
    /\ list' = {}
    /\ job' = [j \in Job |-> Orphaned(j)]
    /\ poll' = [p \in Poller |-> Unheard(p)]
    /\ UNCHANGED <<verdict, reply, queue, current, spinning, agreed>>

RunCancel ==
    /\ cancel
    /\ cancel' = FALSE
    /\ CancelCurrent
    /\ UNCHANGED <<poll, view, dialog, spinning, cooldown, list, job, agreed>>

CooldownEnd ==
    /\ cooldown
    /\ cooldown' = FALSE
    /\ UNCHANGED <<slotVars, view, dialog, spinning, cancel, list, job, agreed>>

-----------------------------------------------------------------------------
(***************************************************************************)
(* The user's decision and what follows it.                                *)
(***************************************************************************)
Free(j) == job[j].step = "none"

\* The dialog's buttons are disabled while isLoading.  Confirm sets it and
\* only Reject, or unmounting the dialog, resets it.
ConfirmDialog(j) ==
    /\ view = "list"
    /\ dialog # None
    /\ ~spinning
    /\ Free(j)
    /\ spinning' = TRUE
    /\ job' = [job EXCEPT ![j] = Doing("dialog", dialog, "sign")]
    /\ UNCHANGED <<slotVars, view, dialog, cooldown, cancel, list, agreed>>

RejectDialog(j) ==
    /\ view = "list"
    /\ dialog # None
    /\ ~spinning
    /\ Free(j)
    /\ dialog' = None
    /\ cooldown' = TRUE
    /\ job' = [job EXCEPT ![j] = Doing("gone", dialog, "respond")]
    /\ UNCHANGED <<slotVars, view, spinning, cancel, list, agreed>>

\* PendingRequests handles one click at a time.
ApproveListed(j, r) ==
    /\ view = "main"
    /\ r \in list
    /\ ~Busy("list")
    /\ Free(j)
    /\ job' = [job EXCEPT ![j] = Doing("list", r, "sign")]
    /\ UNCHANGED <<slotVars, view, dialog, spinning, cooldown, cancel, list, agreed>>

RejectListed(j, r) ==
    /\ view = "main"
    /\ r \in list
    /\ ~Busy("list")
    /\ Free(j)
    /\ job' = [job EXCEPT ![j] = Doing("list", r, "respond")]
    /\ UNCHANGED <<slotVars, view, dialog, spinning, cooldown, cancel, list, agreed>>

Signed(x, ok) == [x EXCEPT !.step = "respond", !.ok = ok, !.keep = ~ok]

\* The wallet signs what the page shows, or refuses (wrong password).
Sign(j) ==
    /\ job[j].step = "sign"
    /\ \E ok \in BOOLEAN :
          /\ job' = [job EXCEPT ![j] = Signed(@, ok)]
          /\ agreed' = IF ok THEN agreed \cup {job[j].req} ELSE agreed
    /\ UNCHANGED <<slotVars, view, dialog, spinning, cooldown, cancel, list>>

Answer(j) == IF job[j].ok THEN job[j].req ELSE "failure"

\* The response reaches the slot.  A failed approval keeps its list entry.
SendAnswer(j) ==
    /\ job[j].step = "respond"
    /\ Respond(ReqId[job[j].req], Answer(j))
    /\ job' = [job EXCEPT ![j] = IF @.page = "gone" THEN NoJob ELSE [@ EXCEPT !.step = "tidy", !.ok = FALSE]]
    /\ UNCHANGED <<poll, view, dialog, spinning, cooldown, cancel, list, agreed>>

TidyDialog(j) ==
    /\ job[j].step = "tidy"
    /\ job[j].page = "dialog"
    /\ dialog' = None
    /\ job' = [job EXCEPT ![j] = NoJob]
    /\ UNCHANGED <<slotVars, view, spinning, cooldown, cancel, list, agreed>>

\* A failed approval keeps its entry, so that the user can try again.
TidyList(j) ==
    /\ job[j].step = "tidy"
    /\ job[j].page = "list"
    /\ list' = IF job[j].keep THEN list ELSE {r \in list : ReqId[r] # ReqId[job[j].req]}
    /\ job' = [job EXCEPT ![j] = NoJob]
    /\ UNCHANGED <<slotVars, view, dialog, spinning, cooldown, cancel, agreed>>

Handler ==
    \E r \in Req : (Submit(r) \/ Deliver(r) \/ Timeout(r)) /\ UNCHANGED uiVars

Poll ==
    \E p \in Poller :
        \/ PollDashboard(p) \/ PollDeveloper(p) \/ RunPoll(p)
        \/ ShowDashboard(p) \/ ShowDeveloper(p)

Navigate ==
    \/ OpenSettings \/ CloseSettings \/ EnterDeveloper \/ SelectWallet \/ LeaveDeveloper
    \/ RunCancel \/ CooldownEnd

Decide ==
    \E j \in Job :
        \/ ConfirmDialog(j) \/ RejectDialog(j)
        \/ \E r \in Req : ApproveListed(j, r) \/ RejectListed(j, r)
        \/ Sign(j) \/ SendAnswer(j) \/ TidyDialog(j) \/ TidyList(j)

Next == Handler \/ Poll \/ Navigate \/ Decide

Spec == Init /\ [][Next]_vars

\* The handlers run on the async runtime; DeveloperMode's interval fires and
\* awaited calls return, though of two under way one may take for ever; and the
\* user of DeveloperMode answers something of what is listed, not necessarily
\* the request that waits.  Timers are left out: the question is whether the
\* pages get there without them.
Fairness ==
    /\ WF_vars(\E r \in Req : Deliver(r) /\ UNCHANGED uiVars)
    /\ WF_vars(\E p \in Poller : PollDeveloper(p) \/ RunPoll(p)
                                \/ ShowDashboard(p) \/ ShowDeveloper(p))
    /\ WF_vars(\E j \in Job : Sign(j) \/ SendAnswer(j) \/ TidyDialog(j) \/ TidyList(j))
    /\ WF_vars(\E j \in Job, r \in Req : ApproveListed(j, r) \/ RejectListed(j, r))

FairSpec == Spec /\ Fairness

-----------------------------------------------------------------------------
TypeOK ==
    /\ verdict \in [Req -> Verdict]
    /\ reply \in [Req -> Reply]
    /\ queue \in Seq(Req)
    /\ current \in Req \cup {None}
    /\ poll \in [Poller -> PollState]
    /\ view \in View
    /\ dialog \in Req \cup {None}
    /\ spinning \in BOOLEAN
    /\ cooldown \in BOOLEAN
    /\ cancel \in BOOLEAN
    /\ list \subseteq Req
    /\ job \in [Job -> JobState]
    /\ agreed \subseteq Req
    /\ \A j \in Job : job[j].step # "none" => job[j].req \in Req

\* A caller that is told of success gets a signature the user approved, of a
\* request with the id of its own: the id comparison of respond_to_transaction
\* is all that ties an answer, computed long after the poll, to the slot.
SignedForId ==
    \A r \in Req : verdict[r] \in Req => verdict[r] \in agreed /\ ReqId[verdict[r]] = ReqId[r]

\* What the pages, the slot and the handlers do is what Approval promises.
Promise == INSTANCE Approval

Approves == Promise!ASpec

\* While the user stays in DeveloperMode, nobody waits for ever (each request is
\* made once): a request in the queue or the slot reaches the list, and whatever
\* entry the user answers first, be it one whose caller is long gone, the slot
\* is emptied.
DeveloperModeServes ==
    <>[](view = "main") => []<>(\A r \in Req : verdict[r] # "waiting")

(***************************************************************************)
(* What comments and docs of the repository say, and the code does not do. *)
(***************************************************************************)
\* "Request ID for correlation": a success answers the request it belongs to,
\* also when two clients number their requests alike.
IdsCorrelate == \A r \in Req : verdict[r] \in Req => verdict[r] = r

\* "Transactions require approval within 5 minutes": a request whose caller
\* was told that it timed out is not signed any more.
ApprovesOnlyWaiting ==
    [][\A j \in Job : job[j].step # "sign" /\ job'[j].step = "sign" =>
          verdict[job'[j].req] = "waiting"]_vars

\* "let the sender time out": a response to some other request leaves the
\* caller of the one in the slot waiting.
NobodyIsDropped == \A r \in Req : verdict[r] # "cancelled"

\* "the parent component will close the dialog": an open dialog can be answered.
DialogCanBeAnswered == view = "list" /\ dialog # None /\ spinning => Busy("dialog")
=============================================================================
