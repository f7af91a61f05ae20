--------------------------- MODULE WsConfirmProofs ---------------------------
(***************************************************************************)
(* Proofs about WsConfirm, for every set of requests, connections, polls   *)
(* and jobs and however clients number their requests; and about           *)
(* HardhatPlugin, for every set of scripts and sockets and any number of   *)
(* requests.                                                               *)
(***************************************************************************)
EXTENDS WsConfirm, MCHardhatPlugin, TLAPS

USE RequestAssumption, ScriptAssumption

LEMMA NoJobType == NoJob \in JobState /\ NoJob.step = "none"
  BY DEF NoJob, Doing, JobState

LEMMA NoPollType == NoPoll \in PollState
  BY DEF NoPoll, Polling, PollState

LEMMA DoingType ==
  ASSUME NEW page \in {"dialog", "list", "gone"}, NEW r \in Req,
         NEW step \in {"sign", "respond"}
  PROVE  /\ Doing(page, r, step) \in JobState
         /\ Doing(page, r, step).req = r
         /\ Doing(page, r, step).step = step
         /\ ~Doing(page, r, step).ok
  BY DEF Doing, JobState

LEMMA SignedType ==
  ASSUME NEW x \in JobState, NEW ok \in BOOLEAN
  PROVE  /\ Signed(x, ok) \in JobState
         /\ Signed(x, ok).req = x.req
         /\ Signed(x, ok).ok = ok
<1>1. CASE ok = TRUE
  BY <1>1 DEF Signed, JobState
<1>2. CASE ok = FALSE
  BY <1>2 DEF Signed, JobState
<1> QED
  BY <1>1, <1>2

LEMMA PollingType ==
  ASSUME NEW page \in {"dash", "main", "gone"}, NEW step \in {"idle", "start", "checked", "back"},
         NEW r \in Req \cup {None}
  PROVE  Polling(page, step, r) \in PollState
  BY DEF Polling, PollState

LEMMA BackType ==
  ASSUME NEW page \in {"dash", "main", "gone"}, NEW r \in Req \cup {None}
  PROVE  Back(page, r) \in PollState
  BY PollingType, NoPollType DEF Back

LEMMA PutType ==
  ASSUME reply \in [Req -> Reply], current \in Req \cup {None}, NEW x \in Reply
  PROVE  Put(x) \in [Req -> Reply]
  BY DEF Put

LEMMA VerdictType == \A x \in Reply : x # "none" => VerdictOf(x) \in Verdict
  BY DEF VerdictOf, Reply, Verdict, Outcome

-----------------------------------------------------------------------------
LEMMA TypeInit == Init => TypeOK
<1> SUFFICES ASSUME Init PROVE TypeOK
  OBVIOUS
<1>1. verdict \in [Req -> Verdict] /\ reply \in [Req -> Reply]
  BY DEF Init, SlotInit, Verdict, Outcome, Reply
<1>2. queue \in Seq(Req) /\ current \in Req \cup {None}
  BY DEF Init, SlotInit
<1>3. poll \in [Poller -> PollState]
  BY NoPollType DEF Init, SlotInit
<1>4. job \in [Job -> JobState] /\ \A j \in Job : job[j].step = "none"
  BY NoJobType DEF Init
<1> QED
  BY <1>1, <1>2, <1>3, <1>4 DEF Init, TypeOK, View

LEMMA TypeHandler == TypeOK /\ Handler => TypeOK'
<1> SUFFICES ASSUME TypeOK, NEW r \in Req, Submit(r) \/ Deliver(r) \/ Timeout(r), UNCHANGED uiVars
             PROVE  TypeOK'
  BY DEF Handler
<1> USE DEF TypeOK, uiVars
<1>1. CASE Submit(r)
  BY <1>1 DEF Submit, Verdict, Outcome
<1>2. CASE Deliver(r)
  <2>1. VerdictOf(reply[r]) \in Verdict
    BY <1>2, VerdictType DEF Deliver
  <2> QED
    BY <1>2, <2>1 DEF Deliver, Reply
<1>3. CASE Timeout(r)
  BY <1>3 DEF Timeout, Verdict, Outcome
<1> QED
  BY <1>1, <1>2, <1>3

LEMMA TypePoll == TypeOK /\ Poll => TypeOK'
<1> SUFFICES ASSUME TypeOK, NEW p \in Poller,
                    PollDashboard(p) \/ PollDeveloper(p) \/ RunPoll(p)
                        \/ ShowDashboard(p) \/ ShowDeveloper(p)
             PROVE  TypeOK'
  BY DEF Poll
<1> USE DEF TypeOK, uiVars
<1>0. poll[p].page \in {"dash", "main", "gone"} /\ poll[p].got \in Req \cup {None}
  BY DEF PollState
<1>1. CASE PollDashboard(p)
  BY <1>1, PollingType DEF PollDashboard
<1>2. CASE PollDeveloper(p)
  BY <1>2, PollingType DEF PollDeveloper
<1>3. CASE RunPoll(p)
  <2>1. CASE PollCheck(p)
    <3>1. poll' \in [Poller -> PollState]
      BY <1>0, <2>1, PollingType, BackType DEF PollCheck
    <3> QED
      BY <1>3, <2>1, <3>1 DEF RunPoll, PollCheck
  <2>2. CASE PollEmpty(p)
    BY <1>0, <1>3, <2>2, BackType DEF RunPoll, PollEmpty
  <2>3. CASE PollTake(p)
    <3>1. Head(queue) \in Req /\ Tail(queue) \in Seq(Req)
      BY <2>3 DEF PollTake
    <3>2. poll' \in [Poller -> PollState]
      BY <1>0, <2>3, <3>1, BackType DEF PollTake
    <3>3. reply' \in [Req -> Reply]
      BY <2>3, PutType DEF PollTake, DropReplaced, Reply
    <3> QED
      BY <1>3, <2>3, <3>1, <3>2, <3>3 DEF RunPoll, PollTake
  <2> QED
    BY <1>3, <2>1, <2>2, <2>3 DEF RunPoll
<1>4. CASE ShowDashboard(p)
  BY <1>0, <1>4, NoPollType DEF ShowDashboard, Enter, View
<1>5. CASE ShowDeveloper(p)
  BY <1>0, <1>5, NoPollType DEF ShowDeveloper
<1> QED
  BY <1>1, <1>2, <1>3, <1>4, <1>5

LEMMA TypeNavigate == TypeOK /\ Navigate => TypeOK'
<1> SUFFICES ASSUME TypeOK, Navigate PROVE TypeOK'
  OBVIOUS
<1> USE DEF TypeOK, slotVars
<1>1. CASE OpenSettings
  BY <1>1 DEF OpenSettings, View
<1>2. CASE CloseSettings
  BY <1>2 DEF CloseSettings, View
<1>3. CASE EnterDeveloper
  BY <1>3 DEF EnterDeveloper, Enter, View
<1>4. CASE SelectWallet
  BY <1>4 DEF SelectWallet, View
<1>5. CASE LeaveDeveloper
  <2>1. \A j \in Job : /\ Orphaned(j) \in JobState
                       /\ Orphaned(j).step # "none" => Orphaned(j).req \in Req
    BY NoJobType DEF Orphaned, JobState
  <2>2. \A p \in Poller : Unheard(p) \in PollState
    BY NoPollType DEF Unheard, PollState
  <2> QED
    BY <1>5, <2>1, <2>2 DEF LeaveDeveloper, View
<1>6. CASE RunCancel
  <2>1. reply' \in [Req -> Reply]
    BY <1>6, PutType DEF RunCancel, CancelCurrent, Reply
  <2> QED
    BY <1>6, <2>1 DEF RunCancel, CancelCurrent
<1>7. CASE CooldownEnd
  BY <1>7 DEF CooldownEnd
<1> QED
  BY <1>1, <1>2, <1>3, <1>4, <1>5, <1>6, <1>7 DEF Navigate

LEMMA TypeDecide == TypeOK /\ Decide => TypeOK'
<1> SUFFICES ASSUME TypeOK, NEW j \in Job,
                    \/ ConfirmDialog(j) \/ RejectDialog(j)
                    \/ \E r \in Req : ApproveListed(j, r) \/ RejectListed(j, r)
                    \/ Sign(j) \/ SendAnswer(j) \/ TidyDialog(j) \/ TidyList(j)
             PROVE  TypeOK'
  BY DEF Decide
<1> USE DEF TypeOK, slotVars
<1>1. CASE ConfirmDialog(j)
  <2>1. dialog \in Req
    BY <1>1 DEF ConfirmDialog
  <2> QED
    BY <1>1, <2>1, DoingType DEF ConfirmDialog
<1>2. CASE RejectDialog(j)
  <2>1. dialog \in Req
    BY <1>2 DEF RejectDialog
  <2> QED
    BY <1>2, <2>1, DoingType DEF RejectDialog
<1>3. ASSUME NEW r \in Req, ApproveListed(j, r) PROVE TypeOK'
  BY <1>3, DoingType DEF ApproveListed
<1>4. ASSUME NEW r \in Req, RejectListed(j, r) PROVE TypeOK'
  BY <1>4, DoingType DEF RejectListed
<1>5. CASE Sign(j)
  <2>1. job[j].req \in Req
    BY <1>5 DEF Sign
  <2>2. PICK ok \in BOOLEAN : /\ job' = [job EXCEPT ![j] = Signed(@, ok)]
                             /\ agreed' = IF ok THEN agreed \cup {job[j].req} ELSE agreed
    BY <1>5 DEF Sign
  <2>3. job' \in [Job -> JobState] /\ \A i \in Job : job'[i].step # "none" => job'[i].req \in Req
    BY <2>1, <2>2, SignedType
  <2>4. agreed' \subseteq Req
    BY <2>1, <2>2
  <2> QED
    BY <1>5, <2>3, <2>4 DEF Sign
<1>6. CASE SendAnswer(j)
  <2>1. job[j].req \in Req /\ Answer(j) \in Reply
    BY <1>6 DEF SendAnswer, Answer, Reply
  <2>2. reply' \in [Req -> Reply]
    <3>1. (IF Matches(ReqId[job[j].req]) THEN Answer(j) ELSE "closed") \in Reply
      BY <2>1 DEF Reply
    <3> QED
      BY <1>6, <3>1, PutType DEF SendAnswer, Respond
  <2>3. job' \in [Job -> JobState] /\ \A i \in Job : job'[i].step # "none" => job'[i].req \in Req
    BY <1>6, <2>1, NoJobType DEF SendAnswer, JobState
  <2> QED
    BY <1>6, <2>2, <2>3 DEF SendAnswer, Respond
<1>7. CASE TidyDialog(j)
  BY <1>7, NoJobType DEF TidyDialog
<1>8. CASE TidyList(j)
  BY <1>8, NoJobType DEF TidyList
<1> QED
  BY <1>1, <1>2, <1>3, <1>4, <1>5, <1>6, <1>7, <1>8

LEMMA TypeStutter == TypeOK /\ UNCHANGED vars => TypeOK'
  BY DEF TypeOK, vars, slotVars, uiVars

LEMMA TypeStep == TypeOK /\ [Next]_vars => TypeOK'
  BY TypeHandler, TypePoll, TypeNavigate, TypeDecide, TypeStutter DEF Next

(* The variables keep their types; a job in progress always has a request. *)
THEOREM TypeCorrect == Spec => []TypeOK
  BY TypeInit, TypeStep, PTL DEF Spec
-----------------------------------------------------------------------------
(***************************************************************************)
(* Reachability.  Emptying the slot always puts something in the channel   *)
(* of the request that was there, and taking one from the queue stores it. *)
(***************************************************************************)
Queued(r) == \E i \in 1..Len(queue) : queue[i] = r

LEMMA SubmitKeepsQueued ==
  ASSUME TypeOK, NEW r \in Req, queue' = Append(queue, r)
  PROVE  Queued(r)' /\ \A s \in Req : Queued(s) => Queued(s)'
<1> USE DEF TypeOK, Queued
<1>1. Len(queue') = Len(queue) + 1 /\ queue'[Len(queue) + 1] = r
  OBVIOUS
<1>2. \A i \in 1..Len(queue) : queue'[i] = queue[i]
  OBVIOUS
<1> QED
  BY <1>1, <1>2

LEMMA TakeKeepsQueued ==
  ASSUME TypeOK, queue # <<>>, queue' = Tail(queue)
  PROVE  \A s \in Req : Queued(s) => s = Head(queue) \/ Queued(s)'
<1> USE DEF TypeOK, Queued
<1> SUFFICES ASSUME NEW s \in Req, NEW i \in 1..Len(queue), queue[i] = s, s # Head(queue)
             PROVE  Queued(s)'
  OBVIOUS
<1>1. i # 1
  OBVIOUS
<1>2. i - 1 \in 1..Len(queue') /\ queue'[i - 1] = queue[i]
  BY <1>1
<1> QED
  BY <1>2

\* What Put leaves empty was empty, and was not the slot of a waiting caller.
LEMMA PutFills ==
  ASSUME TypeOK, NEW x \in Reply, x # "none", reply' = Put(x)
  PROVE  \A r \in Req : reply'[r] = "none" /\ verdict[r] = "waiting" => reply[r] = "none" /\ r # current
  BY DEF Put, TypeOK

LEMMA AnswerType ==
  ASSUME TypeOK, NEW j \in Job, job[j].step = "respond"
  PROVE  Answer(j) \in Reply \ {"none", "closed"}
  BY DEF TypeOK, Answer, Reply

LEMMA ReachInit == Init => WaitingIsReachable
  BY DEF Init, SlotInit, WaitingIsReachable

LEMMA ReachSlotStep ==
  ASSUME TypeOK, WaitingIsReachable, NEW x \in Reply, x # "none", reply' = Put(x),
         UNCHANGED verdict,
         \A s \in Req : Queued(s) => current' = s \/ Queued(s)'
  PROVE  WaitingIsReachable'
  BY PutFills DEF WaitingIsReachable, Queued

LEMMA ReachSame ==
  ASSUME WaitingIsReachable, UNCHANGED <<verdict, reply, queue, current>>
  PROVE  WaitingIsReachable'
  BY DEF WaitingIsReachable

LEMMA ReachStep == TypeOK /\ WaitingIsReachable /\ [Next]_vars => WaitingIsReachable'
<1> SUFFICES ASSUME TypeOK, WaitingIsReachable, [Next]_vars PROVE WaitingIsReachable'
  OBVIOUS
<1>1. ASSUME NEW r \in Req, Submit(r) PROVE WaitingIsReachable'
  <2>1. Queued(r)' /\ \A s \in Req : Queued(s) => Queued(s)'
    BY <1>1, SubmitKeepsQueued DEF Submit
  <2> QED
    BY <1>1, <2>1 DEF Submit, WaitingIsReachable, Queued, TypeOK
<1>2. ASSUME NEW r \in Req, Deliver(r) PROVE WaitingIsReachable'
  <2>1. verdict'[r] # "waiting"
    BY <1>2 DEF Deliver, VerdictOf, TypeOK, Reply, Outcome
  <2> QED
    BY <1>2, <2>1 DEF Deliver, WaitingIsReachable, TypeOK
<1>3. ASSUME NEW r \in Req, Timeout(r) PROVE WaitingIsReachable'
  BY <1>3 DEF Timeout, WaitingIsReachable, TypeOK
<1>4. ASSUME NEW p \in Poller, PollTake(p) PROVE WaitingIsReachable'
  <2>1. \A s \in Req : Queued(s) => current' = s \/ Queued(s)'
    BY <1>4, TakeKeepsQueued DEF PollTake
  <2> QED
    BY <1>4, <2>1, ReachSlotStep DEF PollTake, DropReplaced, Reply
<1>5. CASE RunCancel
  <2>1. \A s \in Req : Queued(s) => Queued(s)'
    BY <1>5 DEF RunCancel, CancelCurrent, Queued
  <2> QED
    BY <1>5, <2>1, ReachSlotStep DEF RunCancel, CancelCurrent, Reply
<1>6. ASSUME NEW j \in Job, SendAnswer(j) PROVE WaitingIsReachable'
  <2>1. \A s \in Req : Queued(s) => Queued(s)'
    BY <1>6 DEF SendAnswer, Respond, Queued
  <2>2. PICK x \in Reply : x # "none" /\ reply' = Put(x)
    BY <1>6, AnswerType DEF SendAnswer, Respond, Reply
  <2> QED
    BY <1>6, <2>1, <2>2, ReachSlotStep DEF SendAnswer, Respond
<1>7. CASE UNCHANGED <<verdict, reply, queue, current>>
  BY <1>7, ReachSame
<1>8. \/ \E r \in Req : Submit(r) \/ Deliver(r) \/ Timeout(r)
      \/ \E p \in Poller : PollTake(p)
      \/ RunCancel
      \/ \E j \in Job : SendAnswer(j)
      \/ UNCHANGED <<verdict, reply, queue, current>>
  <2>1. CASE Handler
    BY <2>1 DEF Handler
  <2>2. CASE Poll
    BY <2>2 DEF Poll, PollDashboard, PollDeveloper, RunPoll, PollCheck, PollEmpty, ShowDashboard,
                ShowDeveloper
  <2>3. CASE Navigate
    BY <2>3 DEF Navigate, OpenSettings, CloseSettings, EnterDeveloper, SelectWallet,
                LeaveDeveloper, CooldownEnd, slotVars
  <2>4. CASE Decide
    BY <2>4 DEF Decide, ConfirmDialog, RejectDialog, ApproveListed, RejectListed, Sign,
                TidyDialog, TidyList, slotVars
  <2>5. CASE UNCHANGED vars
    BY <2>5 DEF vars, slotVars
  <2> QED
    BY <2>1, <2>2, <2>3, <2>4, <2>5 DEF Next
<1> QED
  BY <1>1, <1>2, <1>3, <1>4, <1>5, <1>6, <1>7, <1>8

(* However polls overlap and responses race, a caller that waits on an open *)
(* channel has its request in the queue or in the slot.                    *)
THEOREM CallersAreReachable == Spec => []WaitingIsReachable
<1>1. Spec => []TypeOK
  BY TypeCorrect
<1> QED
  BY <1>1, ReachInit, ReachStep, PTL DEF Spec

-----------------------------------------------------------------------------
(***************************************************************************)
(* Successes.  SignedForId is not inductive: the signature is on its way   *)
(* in a job and in a channel before the caller sees it.                    *)
(***************************************************************************)
JobsSigned == \A j \in Job : job[j].step = "respond" /\ job[j].ok => job[j].req \in agreed

\* x is a signature that may answer r.
MayAnswer(x, r) == x \in agreed /\ ReqId[x] = ReqId[r]

RepliesMayAnswer == \A r \in Req : reply[r] \in Req => MayAnswer(reply[r], r)

AnswerInv == TypeOK /\ JobsSigned /\ RepliesMayAnswer /\ SignedForId

LEMMA AnswerInit == Init => AnswerInv
  BY TypeInit, NoJobType DEF Init, SlotInit, AnswerInv, JobsSigned, RepliesMayAnswer, SignedForId, Outcome

\* What is put into the channel of the slot is no success, or may answer it.
LEMMA PutMayAnswer ==
  ASSUME AnswerInv, NEW x \in Reply, x \in Req => MayAnswer(x, current), reply' = Put(x),
         agreed \subseteq agreed'
  PROVE  RepliesMayAnswer'
  BY DEF AnswerInv, TypeOK, RepliesMayAnswer, MayAnswer, Put

LEMMA AnswerStep == AnswerInv /\ [Next]_vars => AnswerInv'
<1> SUFFICES ASSUME AnswerInv, [Next]_vars PROVE JobsSigned' /\ RepliesMayAnswer' /\ SignedForId'
  BY TypeStep DEF AnswerInv
<1> USE DEF AnswerInv
<1>1. JobsSigned'
  <2>1. ASSUME NEW j \in Job, Sign(j) PROVE JobsSigned'
    <3>1. PICK ok \in BOOLEAN : /\ job' = [job EXCEPT ![j] = Signed(@, ok)]
                               /\ agreed' = IF ok THEN agreed \cup {job[j].req} ELSE agreed
      BY <2>1 DEF Sign
    <3> QED
      BY <3>1, SignedType DEF JobsSigned, TypeOK
  <2>2. ASSUME NEW j \in Job, SendAnswer(j) PROVE JobsSigned'
    BY <2>2, NoJobType DEF SendAnswer, JobsSigned, TypeOK, JobState
  <2>3. ASSUME NEW j \in Job, TidyDialog(j) \/ TidyList(j) PROVE JobsSigned'
    BY <2>3, NoJobType DEF TidyDialog, TidyList, JobsSigned, TypeOK
  <2>4. ASSUME NEW j \in Job, ConfirmDialog(j) \/ RejectDialog(j) PROVE JobsSigned'
    <3>1. dialog \in Req
      BY <2>4 DEF ConfirmDialog, RejectDialog, TypeOK
    <3> QED
      BY <2>4, <3>1, DoingType DEF ConfirmDialog, RejectDialog, JobsSigned, TypeOK
  <2>5. ASSUME NEW j \in Job, NEW r \in Req, ApproveListed(j, r) \/ RejectListed(j, r)
        PROVE  JobsSigned'
    <3>1. PICK step \in {"sign", "respond"} :
             job' = [job EXCEPT ![j] = Doing("list", r, step)] /\ UNCHANGED agreed
      BY <2>5 DEF ApproveListed, RejectListed
    <3> QED
      BY <3>1, DoingType DEF JobsSigned, TypeOK
  <2>6. CASE LeaveDeveloper
    <3>1. \A j \in Job : /\ Orphaned(j).step = "respond" => job[j].step = "respond"
                         /\ Orphaned(j).step = "respond" =>
                                Orphaned(j).ok = job[j].ok /\ Orphaned(j).req = job[j].req
      BY NoJobType DEF Orphaned, TypeOK, JobState
    <3> QED
      BY <2>6, <3>1 DEF LeaveDeveloper, JobsSigned, TypeOK
  <2>7. CASE UNCHANGED <<job, agreed>>
    BY <2>7 DEF JobsSigned
  <2>8. Handler \/ Poll \/ (Navigate /\ ~LeaveDeveloper) \/ UNCHANGED vars => UNCHANGED <<job, agreed>>
    BY DEF Handler, Poll, Navigate, PollDashboard, PollDeveloper, RunPoll, ShowDashboard,
           ShowDeveloper, OpenSettings, CloseSettings, EnterDeveloper, SelectWallet, RunCancel,
           CooldownEnd, uiVars, vars
  <2> QED
    BY <2>1, <2>2, <2>3, <2>4, <2>5, <2>6, <2>7, <2>8 DEF Next, Decide
<1>2. agreed \subseteq agreed'
  <2>1. CASE Decide
    BY <2>1 DEF Decide, ConfirmDialog, RejectDialog, ApproveListed, RejectListed, Sign, SendAnswer,
                TidyDialog, TidyList
  <2>2. CASE Navigate
    BY <2>2 DEF Navigate, OpenSettings, CloseSettings, EnterDeveloper, SelectWallet,
                LeaveDeveloper, RunCancel, CooldownEnd
  <2>3. CASE Handler \/ Poll \/ UNCHANGED vars
    BY <2>3 DEF Handler, Poll, PollDashboard, PollDeveloper, RunPoll, ShowDashboard, ShowDeveloper,
                uiVars, vars
  <2> QED
    BY <2>1, <2>2, <2>3 DEF Next
<1>3. RepliesMayAnswer'
  <2>1. ASSUME NEW r \in Req, Deliver(r) PROVE RepliesMayAnswer'
    BY <2>1, <1>2 DEF Deliver, RepliesMayAnswer, MayAnswer, TypeOK
  <2>2. ASSUME NEW p \in Poller, PollTake(p) PROVE RepliesMayAnswer'
    BY <2>2, <1>2, PutMayAnswer DEF PollTake, DropReplaced, Reply
  <2>3. CASE RunCancel
    BY <2>3, <1>2, PutMayAnswer DEF RunCancel, CancelCurrent, Reply
  <2>4. ASSUME NEW j \in Job, SendAnswer(j) PROVE RepliesMayAnswer'
    <3>1. job[j].step = "respond" /\ job[j].req \in Req
      BY <2>4 DEF SendAnswer, TypeOK
    <3>2. CASE Matches(ReqId[job[j].req])
      <4>1. ReqId[current] = ReqId[job[j].req]
        BY <3>2 DEF Matches
      <4>2. Answer(j) \in Req => MayAnswer(Answer(j), current)
        BY <3>1, <4>1 DEF Answer, JobsSigned, MayAnswer
      <4>3. Answer(j) \in Reply
        BY <3>1, AnswerType
      <4> QED
        BY <2>4, <1>2, <3>2, <4>2, <4>3, PutMayAnswer DEF SendAnswer, Respond
    <3>3. CASE ~Matches(ReqId[job[j].req])
      BY <2>4, <1>2, <3>3, PutMayAnswer DEF SendAnswer, Respond, Reply
    <3> QED
      BY <3>2, <3>3
  <2>5. CASE UNCHANGED reply
    BY <2>5, <1>2 DEF RepliesMayAnswer, MayAnswer
  <2>6. \/ \E r \in Req : Deliver(r)
        \/ \E p \in Poller : PollTake(p)
        \/ RunCancel
        \/ \E j \in Job : SendAnswer(j)
        \/ UNCHANGED reply
    <3>1. CASE Handler
      BY <3>1 DEF Handler, Submit, Timeout
    <3>2. CASE Poll
      BY <3>2 DEF Poll, PollDashboard, PollDeveloper, RunPoll, PollCheck, PollEmpty, ShowDashboard,
                  ShowDeveloper
    <3>3. CASE Navigate
      BY <3>3 DEF Navigate, OpenSettings, CloseSettings, EnterDeveloper, SelectWallet,
                  LeaveDeveloper, CooldownEnd, slotVars
    <3>4. CASE Decide
      BY <3>4 DEF Decide, ConfirmDialog, RejectDialog, ApproveListed, RejectListed, Sign,
                  TidyDialog, TidyList, slotVars
    <3> QED
      BY <3>1, <3>2, <3>3, <3>4 DEF Next, vars, slotVars
  <2> QED
    BY <2>1, <2>2, <2>3, <2>4, <2>5, <2>6
<1>4. SignedForId'
  <2>1. ASSUME NEW r \in Req, Deliver(r) PROVE SignedForId'
    <3>1. VerdictOf(reply[r]) \in Req => VerdictOf(reply[r]) = reply[r] /\ reply[r] \in Req
      BY DEF VerdictOf, TypeOK, Reply, Outcome
    <3> QED
      BY <2>1, <3>1, <1>2 DEF Deliver, SignedForId, RepliesMayAnswer, MayAnswer, TypeOK
  <2>2. ASSUME NEW r \in Req, Submit(r) \/ Timeout(r) PROVE SignedForId'
    BY <2>2, <1>2 DEF Submit, Timeout, SignedForId, TypeOK, Outcome
  <2>3. CASE UNCHANGED verdict
    BY <2>3, <1>2 DEF SignedForId
  <2>4. ~Handler => UNCHANGED verdict
    <3>1. CASE Poll
      BY <3>1 DEF Poll, PollDashboard, PollDeveloper, RunPoll, PollCheck, PollEmpty, PollTake,
                  ShowDashboard, ShowDeveloper
    <3>2. CASE Navigate
      BY <3>2 DEF Navigate, OpenSettings, CloseSettings, EnterDeveloper, SelectWallet,
                  LeaveDeveloper, RunCancel, CancelCurrent, CooldownEnd, slotVars
    <3>3. CASE Decide
      BY <3>3 DEF Decide, ConfirmDialog, RejectDialog, ApproveListed, RejectListed, Sign,
                  SendAnswer, Respond, TidyDialog, TidyList, slotVars
    <3> QED
      BY <3>1, <3>2, <3>3 DEF Next, vars, slotVars
  <2> QED
    BY <2>1, <2>2, <2>3, <2>4 DEF Handler
<1> QED
  BY <1>1, <1>3, <1>4

(* A caller that is told of success holds a signature the user agreed to,  *)
(* of a request with the id of its own: answers to timed-out requests,     *)
(* stale entries and overlapping polls never bring it any other.           *)
THEOREM AnswersAreAgreed == Spec => []SignedForId
<1>1. AnswerInv /\ [Next]_vars => AnswerInv'
  BY AnswerStep
<1>2. AnswerInv => SignedForId
  BY DEF AnswerInv
<1> QED
  BY <1>1, <1>2, AnswerInit, PTL DEF Spec

-----------------------------------------------------------------------------
(***************************************************************************)
(* Refinement.  The abstract state is part of the concrete one; only the   *)
(* handlers and the signing step move it.                                  *)
(***************************************************************************)
LEMMA AbstractStep == AnswerInv /\ [Next]_vars => [Promise!ANext]_(Promise!avars)
<1> SUFFICES ASSUME AnswerInv, [Next]_vars PROVE Promise!ANext \/ UNCHANGED Promise!avars
  OBVIOUS
<1> USE DEF AnswerInv
<1>1. ASSUME NEW r \in Req, Submit(r), UNCHANGED uiVars PROVE Promise!ANext
  BY <1>1 DEF Submit, uiVars, Promise!ANext, Promise!Ask
<1>2. ASSUME NEW r \in Req, Deliver(r), UNCHANGED uiVars PROVE Promise!ANext
  <2>1. CASE reply[r] \in Req
    <3>1. VerdictOf(reply[r]) = reply[r] /\ MayAnswer(reply[r], r)
      BY <2>1 DEF VerdictOf, RepliesMayAnswer
    <3> QED
      BY <1>2, <2>1, <3>1 DEF Deliver, uiVars, MayAnswer, Promise!ANext, Promise!Grant
  <2>2. CASE reply[r] \notin Req
    <3>1. VerdictOf(reply[r]) \in Promise!Refusals
      BY <1>2, <2>2 DEF Deliver, VerdictOf, TypeOK, Reply, Promise!Refusals
    <3> QED
      BY <1>2, <3>1 DEF Deliver, uiVars, Promise!ANext, Promise!Refuse
  <2> QED
    BY <2>1, <2>2
<1>3. ASSUME NEW r \in Req, Timeout(r), UNCHANGED uiVars PROVE Promise!ANext
  BY <1>3 DEF Timeout, uiVars, Promise!ANext, Promise!Refuse, Promise!Refusals
<1>4. ASSUME NEW j \in Job, Sign(j) PROVE Promise!ANext \/ UNCHANGED Promise!avars
  <2>1. job[j].req \in Req
    BY <1>4 DEF Sign, TypeOK
  <2>2. agreed' = agreed \cup {job[j].req} \/ agreed' = agreed
    BY <1>4 DEF Sign
  <2>3. UNCHANGED verdict
    BY <1>4 DEF Sign, slotVars
  <2> QED
    BY <2>1, <2>2, <2>3 DEF Promise!ANext, Promise!Agree, Promise!avars
<1>5. CASE UNCHANGED <<verdict, agreed>>
  BY <1>5 DEF Promise!avars
<1>6. \/ Handler
      \/ \E j \in Job : Sign(j)
      \/ UNCHANGED <<verdict, agreed>>
  <2>1. CASE Poll
    BY <2>1 DEF Poll, PollDashboard, PollDeveloper, RunPoll, PollCheck, PollEmpty, PollTake,
                ShowDashboard, ShowDeveloper, uiVars
  <2>2. CASE Navigate
    BY <2>2 DEF Navigate, OpenSettings, CloseSettings, EnterDeveloper, SelectWallet,
                LeaveDeveloper, RunCancel, CancelCurrent, CooldownEnd, slotVars
  <2>3. CASE Decide
    BY <2>3 DEF Decide, ConfirmDialog, RejectDialog, ApproveListed, RejectListed,
                SendAnswer, Respond, TidyDialog, TidyList, slotVars
  <2> QED
    BY <2>1, <2>2, <2>3 DEF Next, vars, slotVars, uiVars
<1> QED
  BY <1>1, <1>2, <1>3, <1>4, <1>5, <1>6 DEF Handler

(* The handlers, the slot and both pages implement the promise of          *)
(* Approval: one answer per request, and a success only with what the user *)
(* agreed to under its id.                                                 *)
THEOREM ImplementsApproval == Spec => Approves
<1>1. Init => Promise!AInit
  BY DEF Init, SlotInit, Promise!AInit
<1>2. AnswerInv /\ [Next]_vars => AnswerInv'
  BY AnswerStep
<1>3. AnswerInv /\ [Next]_vars => [Promise!ANext]_(Promise!avars)
  BY AbstractStep
<1> QED
  BY <1>1, <1>2, <1>3, AnswerInit, PTL DEF Spec, Approves, Promise!ASpec

-----------------------------------------------------------------------------
(***************************************************************************)
(* The Hardhat plugin.  The client's answers are the scripts' own because  *)
(* an id is given once and stays in the map as long as its script waits;   *)
(* its connection is one because the promise of a connection in the making *)
(* is there as long as its socket connects, unless the handlers of two     *)
(* sockets crossed.                                                        *)
(***************************************************************************)
\* An id is given once, a request and its answer are the waiting script's own.
IdsAreGivenOnce ==
    /\ \A p1, p2 \in pending : p1[1] = p2[1] => p1 = p2
    /\ \A q \in wire :
        /\ q.id <= lastId
        /\ \A p \in pending : p[1] = q.id => p[2] = q.c
        /\ script[q.c].at = "wait" /\ script[q.c].id = q.id => q.want = script[q.c].want

\* Unless handlers crossed, connectPromise is of the socket that connects.
PromiseIsOwn ==
    ~crossed => \A s \in Socket : sock[s] = "connecting" => promise = s

\* A script that connects knows what for.
WantIsKnown ==
    \A c \in Caller : script[c].at \in {"connect", "connected"}
         => script[c].want \in Plugin!Want

PluginInv == Plugin!TypeOK /\ Plugin!AnswersArrive /\ Plugin!ReturnedIsKnown /\ IdsAreGivenOnce
     /\ PromiseIsOwn /\ WantIsKnown

\* The states of a socket and the places of a script.
Sock == {"none", "connecting", "open", "aborted", "closing", "closed"}
Place == {"idle", "connect", "connected", "wait", "answered", "ready", "poll", "done", "failed", "out"}

\* What the type says of each variable.
LEMMA PluginTypes ==
  ASSUME Plugin!TypeOK
  PROVE  /\ sock \in [Socket -> Sock] /\ ws \in Socket \cup {Nil}
         /\ promise \in Socket \cup {Nil}
         /\ timers \subseteq Socket /\ \A s \in timers : sock[s] # "none"
         /\ lastId \in 0..MaxRequest
         /\ pending \subseteq (1..lastId) \X Caller /\ wire \subseteq Plugin!Request
         /\ script \in [Caller -> Plugin!Script] /\ node \subseteq Caller
         /\ cached \in BOOLEAN /\ gated \in BOOLEAN /\ crossed \in BOOLEAN
BY DEF Plugin!TypeOK, Sock

\* The fields of a script and of a request.
LEMMA ScriptFields ==
  ASSUME NEW x \in Plugin!Script
  PROVE  /\ x.at \in Place /\ x.want \in Plugin!Want \cup {Nil} /\ x.on \in Socket \cup {Nil}
         /\ x.id \in 0..MaxRequest /\ x.res \in Plugin!Result \cup {Nil} /\ x.own \in BOOLEAN
BY DEF Plugin!Script, Place

LEMMA RequestFields ==
  ASSUME NEW q \in Plugin!Request
  PROVE  /\ q.id \in 1..MaxRequest /\ q.s \in Socket /\ q.c \in Caller
         /\ q.want \in Plugin!Want /\ q.res \in Plugin!Result \cup {Nil}
BY DEF Plugin!Request

-----------------------------------------------------------------------------
USE PluginAssumption

\* At first no script waits and no socket was made.
LEMMA PluginInit == ASSUME Plugin!Init PROVE PluginInv
<1>1. Plugin!Idle \in Plugin!Script
  BY DEF Plugin!Idle, Plugin!Script
<1>2. Plugin!Idle.at = "idle" /\ Plugin!Idle.own = TRUE
  BY DEF Plugin!Idle
<1>3. Plugin!TypeOK
  <2>1. sock \in [Socket -> {"none", "connecting", "open", "aborted", "closing", "closed"}]
    BY DEF Plugin!Init
  <2>2. lastId \in 0..MaxRequest /\ script \in [Caller -> Plugin!Script]
    BY <1>1 DEF Plugin!Init
  <2>3. {cached, gated, crossed} \subseteq BOOLEAN /\ {ws, promise} \subseteq Socket \cup {Nil}
    BY DEF Plugin!Init
  <2> QED
    BY <2>1, <2>2, <2>3 DEF Plugin!Init, Plugin!TypeOK
<1>4. Plugin!WaiterIsPending /\ Plugin!AnswerIsOwn /\ Plugin!OneConnection
           /\ Plugin!ReturnedIsKnown /\ WantIsKnown
  BY <1>2 DEF WantIsKnown, Plugin!Init, Plugin!WaiterIsPending, Plugin!AnswerIsOwn,
     Plugin!OneConnection, Plugin!ReturnedIsKnown
<1>5. IdsAreGivenOnce /\ PromiseIsOwn
  BY DEF Plugin!Init, IdsAreGivenOnce, PromiseIsOwn
<1> QED
  BY <1>3, <1>4, <1>5 DEF PluginInv, Plugin!AnswersArrive

\* Where a script is put.
LEMMA PutAt ==
  ASSUME Plugin!TypeOK, NEW c \in Caller, NEW a \in Place, NEW w \in Plugin!Want \cup {Nil}
  PROVE  /\ Plugin!At(c, a, w) \in [Caller -> Plugin!Script]
         /\ \A x \in Caller \ {c} : Plugin!At(c, a, w)[x] = script[x]
         /\ Plugin!At(c, a, w)[c].at = a /\ Plugin!At(c, a, w)[c].want = w
         /\ Plugin!At(c, a, w)[c].id = script[c].id
         /\ Plugin!At(c, a, w)[c].own = script[c].own
<1> DEFINE r == [script[c] EXCEPT !.at = a, !.want = w, !.on = Nil, !.res = Nil]
<1>1. script \in [Caller -> Plugin!Script] /\ script[c] \in Plugin!Script
  BY PluginTypes
<1>2. r \in Plugin!Script /\ r.at = a /\ r.want = w /\ r.id = script[c].id
           /\ r.own = script[c].own
  BY <1>1 DEF Plugin!Script, Place
<1>3. Plugin!At(c, a, w) = [script EXCEPT ![c] = r]
  BY <1>1 DEF Plugin!At, Plugin!Script
<1> HIDE DEF r
<1> QED
  BY <1>1, <1>2, <1>3

\* A step of one script that sends nothing.
LEMMA MoveKeeps ==
  ASSUME PluginInv, NEW c \in Caller,
         script' \in [Caller -> Plugin!Script], \A x \in Caller \ {c} : script'[x] = script[x],
         script'[c].at # "wait",
              script'[c].at \in {"connect", "connected"} => script'[c].want \in Plugin!Want,
         script'[c].own = script[c].own,
         UNCHANGED <<lastId, pending, wire, gated>>, cached' \in BOOLEAN,
         node \subseteq node', node' \subseteq Caller, script'[c].at = "done" => c \in node'
  PROVE  /\ Plugin!WaiterIsPending' /\ Plugin!AnswerIsOwn' /\ Plugin!ReturnedIsKnown'
         /\ IdsAreGivenOnce' /\ WantIsKnown'
         /\ UNCHANGED Plugin!connection => PluginInv'
<1>1. Plugin!WaiterIsPending'
  BY DEF PluginInv, Plugin!AnswersArrive, Plugin!WaiterIsPending
<1>2. Plugin!AnswerIsOwn'
  BY DEF PluginInv, Plugin!AnswersArrive, Plugin!AnswerIsOwn
<1>3. Plugin!ReturnedIsKnown'
  BY DEF PluginInv, Plugin!ReturnedIsKnown
<1>6. WantIsKnown'
  BY DEF PluginInv, WantIsKnown
<1>4. IdsAreGivenOnce'
  <2>1. \A q \in wire : q.c \in Caller
    BY PluginTypes, RequestFields DEF PluginInv, Plugin!AnswersArrive
  <2> QED
    BY <2>1 DEF PluginInv, IdsAreGivenOnce
<1>5. ASSUME UNCHANGED Plugin!connection PROVE PluginInv'
  <2>1. Plugin!TypeOK'
    BY <1>5 DEF PluginInv, Plugin!AnswersArrive, Plugin!TypeOK, Plugin!connection
  <2>2. Plugin!OneConnection' /\ PromiseIsOwn'
    BY <1>5 DEF PluginInv, Plugin!AnswersArrive, Plugin!OneConnection, PromiseIsOwn,
       Plugin!connection
  <2> QED
    BY <1>1, <1>2, <1>3, <1>4, <1>6, <2>1, <2>2 DEF PluginInv, Plugin!AnswersArrive
<1> QED
  BY <1>1, <1>2, <1>3, <1>4, <1>5, <1>6

\* A script goes on, or ends.
LEMMA EndsKeeps ==
  ASSUME PluginInv, NEW c \in Caller,
         NEW a \in Place \ {"wait", "connect", "connected"},
         Plugin!Ends(c, a),
         gated' = gated, cached' \in BOOLEAN,
         node \subseteq node', node' \subseteq Caller, a = "done" => c \in node'
  PROVE  PluginInv'
<1>1. Plugin!TypeOK /\ UNCHANGED Plugin!connection /\ UNCHANGED <<lastId, pending, wire>>
      /\ script' = Plugin!At(c, a, Nil)
  BY DEF PluginInv, Plugin!AnswersArrive, Plugin!Ends
<1> QED
  BY <1>1, PutAt, MoveKeeps

\* A new socket is made when the client has none that is or may be open.
LEMMA ConnectKeeps ==
  ASSUME PluginInv, NEW c \in Caller, NEW w \in Plugin!Want,
         Plugin!Connect(c, w), ~Plugin!IsConnected, UNCHANGED <<gated, node>>,
              cached' \in BOOLEAN
  PROVE  PluginInv'
<1>0. Plugin!TypeOK
  BY DEF PluginInv, Plugin!AnswersArrive
<1>1. CASE promise # Nil
  <2> DEFINE sc == Plugin!At(c, "connect", w)
  <2>1. script' = [sc EXCEPT ![c].on = promise] /\ UNCHANGED Plugin!connection
        /\ UNCHANGED <<lastId, pending, wire>>
    BY <1>1 DEF Plugin!Connect
  <2>2. sc \in [Caller -> Plugin!Script] /\ (\A x \in Caller \ {c} : sc[x] = script[x])
        /\ sc[c].at = "connect" /\ sc[c].own = script[c].own /\ sc[c].want = w
    BY <1>0, PutAt DEF Place
  <2> HIDE DEF sc
  <2>3. script' \in [Caller -> Plugin!Script]
             /\ (\A x \in Caller \ {c} : script'[x] = script[x])
        /\ script'[c].at = "connect" /\ script'[c].own = script[c].own /\ script'[c].want = w
    BY <1>0, <1>1, <2>1, <2>2, PluginTypes DEF Plugin!Script
  <2> QED
    BY <1>0, <2>1, <2>3, MoveKeeps, PluginTypes
<1>2. CASE promise = Nil /\ ~\E s \in Socket : sock[s] = "none"
  <2>1. Plugin!Ends(c, "out")
    BY <1>2 DEF Plugin!Connect, Plugin!Ends
  <2> QED
    BY <1>0, <2>1, EndsKeeps, PluginTypes DEF Place
<1>3. CASE promise = Nil /\ \E s \in Socket : sock[s] = "none"
  <2> DEFINE sc == Plugin!At(c, "connect", w)
  <2>0. PICK s \in Socket : s = CHOOSE t \in Socket : sock[t] = "none"
    BY <1>3
  <2>1. /\ sock[s] = "none"
        /\ sock' = [sock EXCEPT ![s] = "connecting"] /\ ws' = s /\ promise' = s
        /\ timers' = timers \cup {s} /\ crossed' = crossed
        /\ script' = [sc EXCEPT ![c].on = s] /\ UNCHANGED <<lastId, pending, wire>>
    BY <1>3, <2>0 DEF Plugin!Connect
  <2>2. sc \in [Caller -> Plugin!Script] /\ (\A x \in Caller \ {c} : sc[x] = script[x])
        /\ sc[c].at = "connect" /\ sc[c].own = script[c].own /\ sc[c].want = w
    BY <1>0, PutAt DEF Place
  <2> HIDE DEF sc
  <2>3. script' \in [Caller -> Plugin!Script]
             /\ (\A x \in Caller \ {c} : script'[x] = script[x])
        /\ script'[c].at = "connect" /\ script'[c].own = script[c].own /\ script'[c].want = w
    BY <1>0, <2>1, <2>2, PluginTypes DEF Plugin!Script
  <2>4. Plugin!WaiterIsPending' /\ Plugin!AnswerIsOwn' /\ Plugin!ReturnedIsKnown'
             /\ IdsAreGivenOnce' /\ WantIsKnown'
    BY <1>0, <2>1, <2>3, MoveKeeps, PluginTypes
  <2>5. Plugin!TypeOK'
    BY <1>0, <2>1, <2>3, PluginTypes DEF Plugin!TypeOK, Sock
  <2>6. ~crossed => \A t \in Socket : sock[t] \notin {"connecting", "open"}
    BY <1>3 DEF PluginInv, Plugin!AnswersArrive,
       Plugin!OneConnection, PromiseIsOwn, Plugin!IsConnected
  <2>7. Plugin!OneConnection' /\ PromiseIsOwn'
    BY <1>0, <2>1, <2>6, PluginTypes DEF Plugin!OneConnection, PromiseIsOwn
  <2> QED
    BY <2>4, <2>5, <2>7 DEF PluginInv, Plugin!AnswersArrive
<1> QED
  BY <1>1, <1>2, <1>3

\* A request gets an id of its own, and its script is in the map when it waits.
LEMMA SendKeeps ==
  ASSUME PluginInv, NEW c \in Caller, NEW w \in Plugin!Want,
         Plugin!Send(c, w), UNCHANGED <<gated, node>>, cached' \in BOOLEAN
  PROVE  PluginInv'
<1>0. Plugin!TypeOK
  BY DEF PluginInv, Plugin!AnswersArrive
<1>1. CASE lastId = MaxRequest
  <2>1. Plugin!Ends(c, "out")
    BY <1>1 DEF Plugin!Send, Plugin!Ends
  <2> QED
    BY <1>0, <2>1, EndsKeeps, PluginTypes DEF Place
<1>2. CASE lastId # MaxRequest
  <2> DEFINE i == lastId + 1
             q == [id |-> i, s |-> ws, c |-> c, want |-> w, res |-> Nil]
  <2>1. /\ lastId' = i /\ pending' = pending \cup {<<i, c>>} /\ UNCHANGED Plugin!connection
        /\ script' = (IF ws = Nil \/ sock[ws] = "connecting"
                      THEN [Plugin!At(c, "answered", w) EXCEPT ![c] = [@ EXCEPT !.res = "fail", !.id = 0]]
                      ELSE [Plugin!At(c, "wait", w) EXCEPT ![c].id = i])
        /\ wire' = (IF Plugin!IsConnected THEN wire \cup {q} ELSE wire)
    BY <1>2 DEF Plugin!Send
  <2>2. lastId \in Nat /\ i \in 1..MaxRequest /\ lastId < i /\ 0 \in 0..MaxRequest
        /\ i \in 0..MaxRequest
    BY <1>0, <1>2, PluginTypes
  <2> HIDE DEF i
  <2>3. /\ script' \in [Caller -> Plugin!Script]
        /\ \A x \in Caller \ {c} : script'[x] = script[x]
        /\ script'[c].own = script[c].own /\ script'[c].want = w
        /\ \/ script'[c].at = "answered"
           \/ script'[c].at = "wait" /\ script'[c].id = i
    <3>1. CASE ws = Nil \/ sock[ws] = "connecting"
      <4> DEFINE sc == Plugin!At(c, "answered", w)
      <4>1. script' = [sc EXCEPT ![c] = [@ EXCEPT !.res = "fail", !.id = 0]]
        BY ONLY <2>1, <3>1
      <4>2. sc \in [Caller -> Plugin!Script] /\ (\A x \in Caller \ {c} : sc[x] = script[x])
            /\ sc[c].at = "answered" /\ sc[c].own = script[c].own /\ sc[c].want = w
        BY <1>0, PutAt DEF Place
      <4> HIDE DEF sc
      <4>3. [sc[c] EXCEPT !.res = "fail", !.id = 0] \in Plugin!Script
        <5>1. sc[c] \in Plugin!Script
          BY <4>2
        <5>2. ASSUME NEW y \in Plugin!Script
              PROVE  [y EXCEPT !.res = "fail", !.id = 0] \in Plugin!Script
          BY ONLY <2>2 DEF Plugin!Script, Plugin!Result
        <5> QED
          BY ONLY <5>1, <5>2
      <4>4. script' = [sc EXCEPT ![c] = [sc[c] EXCEPT !.res = "fail", !.id = 0]]
        BY <4>1, <4>2
      <4> QED
        BY <4>2, <4>3, <4>4 DEF Plugin!Script
    <3>2. CASE ~(ws = Nil \/ sock[ws] = "connecting")
      <4> DEFINE sc == Plugin!At(c, "wait", w)
      <4>1. script' = [sc EXCEPT ![c].id = i]
        BY <2>1, <3>2
      <4>2. sc \in [Caller -> Plugin!Script] /\ (\A x \in Caller \ {c} : sc[x] = script[x])
            /\ sc[c].at = "wait" /\ sc[c].own = script[c].own /\ sc[c].want = w
        BY <1>0, PutAt DEF Place
      <4> HIDE DEF sc
      <4> QED
        BY <2>2, <4>1, <4>2 DEF Plugin!Script
    <3> QED
      BY <3>1, <3>2
  <2>4. Plugin!IsConnected => q \in Plugin!Request
    BY <1>0, <2>2, PluginTypes DEF Plugin!IsConnected, Plugin!Request
  <2>5. q.id = i /\ q.c = c /\ q.want = w
    OBVIOUS
  <2> HIDE DEF q
  <2>6. /\ sock' = sock /\ ws' = ws /\ promise' = promise /\ timers' = timers
        /\ crossed' = crossed /\ gated' = gated /\ node' = node
    BY <2>1 DEF Plugin!connection
  <2>7. pending' \subseteq (1..lastId') \X Caller
    BY <1>0, <2>1, <2>2, PluginTypes DEF i
  <2>8. Plugin!TypeOK'
    <3>1. wire' \subseteq Plugin!Request
      BY <1>0, <2>1, <2>4, PluginTypes
    <3>2. lastId' \in 0..MaxRequest
      BY <2>1, <2>2
    <3> QED
      BY <1>0, <2>3, <2>6, <2>7, <3>1, <3>2 DEF Plugin!TypeOK
  <2>9. Plugin!WaiterIsPending' /\ Plugin!AnswerIsOwn' /\ Plugin!ReturnedIsKnown'
             /\ WantIsKnown'
    <3>1. Plugin!WaiterIsPending'
      BY <2>1, <2>3 DEF PluginInv, Plugin!AnswersArrive, Plugin!WaiterIsPending
    <3>2. Plugin!AnswerIsOwn'
      BY <2>3 DEF PluginInv, Plugin!AnswersArrive, Plugin!AnswerIsOwn
    <3>3. Plugin!ReturnedIsKnown'
      BY <2>3, <2>6 DEF PluginInv, Plugin!ReturnedIsKnown
    <3>4. WantIsKnown'
      BY <2>3 DEF PluginInv, WantIsKnown
    <3> QED
      BY <3>1, <3>2, <3>3, <3>4
  <2>10. Plugin!OneConnection' /\ PromiseIsOwn'
    BY <2>6 DEF PluginInv, Plugin!AnswersArrive, Plugin!OneConnection, PromiseIsOwn
  <2>11. IdsAreGivenOnce'
    <3>1. \A p \in pending : p[1] \in Nat /\ p[1] # i /\ p[1] <= lastId
      BY <1>0, <2>2, PluginTypes DEF i
    <3>2. \A r \in wire : r.id \in Nat /\ r.id <= lastId /\ r.id # i /\ r.c \in Caller
      BY <1>0, <2>2, PluginTypes, RequestFields DEF PluginInv, IdsAreGivenOnce, i
    <3>3. \A p1, p2 \in pending' : p1[1] = p2[1] => p1 = p2
      BY <2>1, <3>1 DEF PluginInv, IdsAreGivenOnce
    <3>4. ASSUME NEW r \in wire
          PROVE  /\ r.id <= lastId'
                 /\ \A p \in pending' : p[1] = r.id => p[2] = r.c
                 /\ (script'[r.c].at = "wait" /\ script'[r.c].id = r.id)
                      => r.want = script'[r.c].want
      <4>1. r.id <= lastId'
        BY <2>1, <2>2, <3>2 DEF i
      <4>2. \A p \in pending' : p[1] = r.id => p[2] = r.c
        BY <2>1, <3>2 DEF PluginInv, IdsAreGivenOnce
      <4>3. script'[r.c].at = "wait" /\ script'[r.c].id = r.id => r.want = script'[r.c].want
        <5>1. script[r.c].at = "wait" /\ script[r.c].id = r.id => r.want = script[r.c].want
          BY DEF PluginInv, IdsAreGivenOnce
        <5>2. r.c \in Caller /\ r.id # i
          BY <3>2
        <5>3. CASE r.c = c
          BY <2>3, <5>2, <5>3
        <5>4. CASE r.c # c
          <6>1. script'[r.c] = script[r.c]
            BY <2>3, <5>2, <5>4
          <6> QED
            BY <5>1, <6>1
        <5> QED
          BY <5>3, <5>4
      <4> QED
        BY <4>1, <4>2, <4>3
    <3>5. /\ q.id <= lastId'
          /\ \A p \in pending' : p[1] = q.id => p[2] = q.c
          /\ script'[q.c].at = "wait" /\ script'[q.c].id = q.id => q.want = script'[q.c].want
      BY <2>1, <2>2, <2>3, <2>5, <3>1
    <3> QED
      BY <2>1, <3>3, <3>4, <3>5 DEF IdsAreGivenOnce
  <2> QED
    BY <2>8, <2>9, <2>10, <2>11 DEF PluginInv, Plugin!AnswersArrive
<1> QED
  BY <1>1, <1>2

\* sendRequest connects first when it must.
LEMMA SendRequestKeeps ==
  ASSUME PluginInv, NEW c \in Caller, NEW w \in Plugin!Want,
         Plugin!SendRequest(c, w), UNCHANGED <<gated, node>>, cached' \in BOOLEAN
  PROVE  PluginInv'
BY SendKeeps, ConnectKeeps DEF Plugin!SendRequest

\* The steps of a script.
LEMMA ScriptKeeps ==
  ASSUME PluginInv, NEW c \in Caller,
         Plugin!GetSigners(c) \/ Plugin!SendTransaction(c) \/ Plugin!Microtask(c)
              \/ Plugin!Poll(c)
  PROVE  PluginInv'
<1>0. Plugin!TypeOK /\ cached \in BOOLEAN /\ node \subseteq Caller
      /\ {"probe", "open", "ping", "accounts", "again", "sign"} \subseteq Plugin!Want
      /\ {"failed", "ready", "poll", "done", "connected"} \subseteq Place
  BY PluginTypes DEF PluginInv, Plugin!AnswersArrive, Plugin!Want, Place
<1>1. CASE Plugin!GetSigners(c)
  <2>1. UNCHANGED <<cached, gated, node>>
    BY <1>1 DEF Plugin!GetSigners
  <2>2. CASE Plugin!IsConnected
    BY <1>0, <1>1, <2>1, <2>2, SendKeeps DEF Plugin!GetSigners
  <2>3. CASE ~Plugin!IsConnected
    BY <1>0, <1>1, <2>1, <2>3, ConnectKeeps DEF Plugin!GetSigners
  <2> QED
    BY <2>2, <2>3
<1>2. CASE Plugin!SendTransaction(c)
  BY <1>0, <1>2, SendRequestKeeps DEF Plugin!SendTransaction
<1>3. CASE Plugin!AfterConnect(c)
  <2>1. UNCHANGED <<cached, gated, node>> /\ script[c].at = "connected"
    BY <1>3 DEF Plugin!AfterConnect
  <2>2. CASE script[c].want = "open"
    BY <1>0, <1>3, <2>1, <2>2, SendRequestKeeps DEF Plugin!AfterConnect
  <2>3. CASE script[c].want \in Plugin!Want \ {"open"}
    BY <1>0, <1>3, <2>1, <2>3, SendKeeps DEF Plugin!AfterConnect
  <2> QED
    BY <1>3, <2>2, <2>3 DEF Plugin!AfterConnect, PluginInv, WantIsKnown
<1>4. CASE Plugin!AfterFailure(c)
  <2>1. UNCHANGED <<cached, gated, node>>
    BY <1>4 DEF Plugin!AfterFailure
  <2>2. CASE Plugin!Ends(c, "failed")
    BY <1>0, <2>1, <2>2, EndsKeeps
  <2>3. CASE Plugin!Connect(c, "open") /\ ~Plugin!IsConnected
    BY <1>0, <2>1, <2>3, ConnectKeeps
  <2>4. CASE script' = Plugin!At(c, "connected", "open")
             /\ UNCHANGED <<Plugin!connection, lastId, pending, wire>>
    <3> DEFINE sc == Plugin!At(c, "connected", "open")
    <3>1. sc \in [Caller -> Plugin!Script] /\ (\A x \in Caller \ {c} : sc[x] = script[x])
          /\ sc[c].at = "connected" /\ sc[c].own = script[c].own /\ sc[c].want = "open"
      BY <1>0, PutAt DEF Place, Plugin!Want
    <3>2. script' = sc
      BY <2>4
    <3> HIDE DEF sc
    <3> QED
      BY <1>0, <2>1, <2>4, <3>1, <3>2, MoveKeeps
  <2> QED
    BY <1>4, <2>2, <2>3, <2>4 DEF Plugin!AfterFailure, Plugin!ProviderConnect
<1>5. CASE Plugin!AfterPing(c)
  <2>1. UNCHANGED <<cached, gated, node>>
    BY <1>5 DEF Plugin!AfterPing
  <2>2. CASE Plugin!Ends(c, "ready")
    BY <1>0, <2>1, <2>2, EndsKeeps
  <2>3. ASSUME NEW w \in Plugin!Want, Plugin!SendRequest(c, w) PROVE PluginInv'
    BY <1>0, <2>1, <2>3, SendRequestKeeps
  <2> QED
    BY <1>0, <1>5, <2>2, <2>3 DEF Plugin!AfterPing
<1>6. CASE Plugin!AfterAccounts(c)
  <2>1. UNCHANGED <<gated, node>> /\ cached' \in BOOLEAN
    BY <1>6 DEF Plugin!AfterAccounts
  <2>2. ASSUME NEW a \in {"ready", "failed"}, Plugin!Ends(c, a) PROVE PluginInv'
    BY <1>0, <2>1, <2>2, EndsKeeps
  <2>3. CASE Plugin!SendRequest(c, "again")
    BY <1>0, <2>1, <2>3, SendRequestKeeps
  <2> QED
    BY <1>6, <2>2, <2>3 DEF Plugin!AfterAccounts
<1>7. CASE Plugin!AfterSign(c)
  BY <1>0, <1>7, EndsKeeps DEF Plugin!AfterSign
<1>8. CASE Plugin!Poll(c)
  BY <1>0, <1>8, EndsKeeps DEF Plugin!Poll
<1> QED
  BY <1>1, <1>2, <1>3, <1>4, <1>5, <1>6, <1>7, <1>8 DEF Plugin!Microtask

\* What an event does to the scripts: those it settles have no answer but their
\* own, and nobody waits who is not in the map.
Settles ==
    /\ script' \in [Caller -> Plugin!Script]
    /\ \A x \in Caller :
        \/ script'[x] = script[x]
        \/ /\ script'[x].at \in {"connected", "answered"} /\ script'[x].own
           /\ script'[x].at = "connected" => script'[x].want \in Plugin!Want
    /\ \A x \in Caller : script'[x].at = "wait" => <<script[x].id, x>> \in pending'
    /\ pending' \subseteq pending /\ lastId' = lastId
    /\ wire' \subseteq Plugin!Request
    /\ \A r \in wire' : \E q \in wire : r.id = q.id /\ r.c = q.c /\ r.want = q.want
    /\ cached' = cached /\ gated' = gated
    /\ node \subseteq node' /\ node' \subseteq Caller

\* So what was asked stays the script's own.
LEMMA SettlesKeeps ==
  ASSUME PluginInv, Settles
  PROVE  /\ Plugin!WaiterIsPending' /\ Plugin!AnswerIsOwn' /\ Plugin!ReturnedIsKnown'
         /\ IdsAreGivenOnce' /\ WantIsKnown'
         /\ lastId' \in 0..MaxRequest /\ pending' \subseteq (1..lastId') \X Caller
         /\ cached' \in BOOLEAN /\ gated' \in BOOLEAN
<1> USE DEF Settles
<1>0. Plugin!TypeOK
  BY DEF PluginInv, Plugin!AnswersArrive
<1>1. Plugin!WaiterIsPending'
  BY DEF Plugin!WaiterIsPending
<1>2. Plugin!AnswerIsOwn' /\ Plugin!ReturnedIsKnown' /\ WantIsKnown'
  BY DEF PluginInv, Plugin!AnswersArrive, Plugin!AnswerIsOwn, Plugin!ReturnedIsKnown,
     WantIsKnown
<1>3. IdsAreGivenOnce'
  <2>1. \A p1, p2 \in pending' : p1[1] = p2[1] => p1 = p2
    BY DEF PluginInv, IdsAreGivenOnce
  <2>2. ASSUME NEW r \in wire'
        PROVE  /\ r.id <= lastId'
               /\ \A p \in pending' : p[1] = r.id => p[2] = r.c
               /\ (script'[r.c].at = "wait" /\ script'[r.c].id = r.id)
                    => r.want = script'[r.c].want
    <3>1. PICK q \in wire : r.id = q.id /\ r.c = q.c /\ r.want = q.want
      BY <2>2
    <3>2. r.c \in Caller
      BY <1>0, <3>1, PluginTypes, RequestFields
    <3>3. /\ q.id <= lastId
          /\ \A p \in pending : p[1] = q.id => p[2] = q.c
          /\ script[q.c].at = "wait" /\ script[q.c].id = q.id => q.want = script[q.c].want
      BY DEF PluginInv, IdsAreGivenOnce
    <3>4. script'[r.c] = script[r.c] \/ script'[r.c].at # "wait"
      BY <3>2
    <3>5. script'[r.c].at = "wait" /\ script'[r.c].id = r.id => r.want = script'[r.c].want
      BY <3>1, <3>3, <3>4
    <3>6. r.id <= lastId' /\ \A p \in pending' : p[1] = r.id => p[2] = r.c
      BY <3>1, <3>3
    <3> QED
      BY <3>5, <3>6
  <2> QED
    BY <2>1, <2>2 DEF IdsAreGivenOnce
<1>4. lastId' \in 0..MaxRequest /\ pending' \subseteq (1..lastId') \X Caller
      /\ cached' \in BOOLEAN /\ gated' \in BOOLEAN
  BY <1>0, PluginTypes
<1> QED
  BY <1>1, <1>2, <1>3, <1>4

\* The two together: an event that settles scripts and keeps the connection one.
LEMMA EventKeeps ==
  ASSUME PluginInv, Settles,
         sock' \in [Socket -> Sock], ws' \in Socket \cup {Nil}, promise' \in Socket \cup {Nil},
         timers' \subseteq timers, \A s \in Socket : sock'[s] = "none" => sock[s] = "none",
         crossed' \in BOOLEAN, Plugin!OneConnection', PromiseIsOwn'
  PROVE  PluginInv'
<1>0. Plugin!TypeOK
  BY DEF PluginInv, Plugin!AnswersArrive
<1>1. /\ Plugin!WaiterIsPending' /\ Plugin!AnswerIsOwn' /\ Plugin!ReturnedIsKnown'
      /\ IdsAreGivenOnce' /\ WantIsKnown'
      /\ lastId' \in 0..MaxRequest /\ pending' \subseteq (1..lastId') \X Caller
      /\ cached' \in BOOLEAN /\ gated' \in BOOLEAN
  BY SettlesKeeps
<1>2. timers' \subseteq {s \in Socket : sock'[s] # "none"}
  BY <1>0, PluginTypes
<1>3. Plugin!TypeOK'
  BY <1>1, <1>2 DEF Plugin!TypeOK, Settles, Sock
<1> QED
  BY <1>1, <1>3 DEF PluginInv, Plugin!AnswersArrive

\* The promise of a socket is resolved or rejected for all who wait for it.
LEMMA ResolvedIs ==
  ASSUME PluginInv, NEW s \in Socket, NEW sc, sc = Plugin!Settled(s, "connected", Nil)
  PROVE  /\ sc \in [Caller -> Plugin!Script]
         /\ \A x \in Caller :
              \/ sc[x] = script[x]
              \/ /\ script[x].at = "connect" /\ sc[x].at = "connected" /\ sc[x].own
                 /\ sc[x].want \in Plugin!Want
<1>0. Plugin!TypeOK
  BY DEF PluginInv, Plugin!AnswersArrive
<1>1. /\ sc = [x \in Caller |-> sc[x]]
      /\ \A x \in Caller :
           sc[x] = IF script[x].at = "connect" /\ script[x].on = s
                   THEN [script[x] EXCEPT !.at = "connected", !.on = Nil, !.res = Nil]
                   ELSE script[x]
  BY DEF Plugin!Settled
<1>2. ASSUME NEW x \in Caller
      PROVE  /\ sc[x] \in Plugin!Script
             /\ \/ sc[x] = script[x]
                \/ /\ script[x].at = "connect" /\ sc[x].at = "connected" /\ sc[x].own
                   /\ sc[x].want \in Plugin!Want
  <2>0. script[x] \in Plugin!Script /\ script[x].own = TRUE
    BY <1>0, PluginTypes DEF PluginInv, Plugin!AnswersArrive, Plugin!AnswerIsOwn
  <2>1. CASE script[x].at = "connect" /\ script[x].on = s
    <3>1. sc[x] = [script[x] EXCEPT !.at = "connected", !.on = Nil, !.res = Nil]
      BY <1>1, <2>1
    <3>2. script[x].want \in Plugin!Want
      BY <2>1 DEF PluginInv, WantIsKnown
    <3>3. [script[x] EXCEPT !.at = "connected", !.on = Nil, !.res = Nil] \in Plugin!Script
      BY <2>0 DEF Plugin!Script, Plugin!Result
    <3> QED
      BY <2>0, <2>1, <3>1, <3>2, <3>3 DEF Plugin!Script
  <2>2. CASE ~(script[x].at = "connect" /\ script[x].on = s)
    BY <1>1, <2>0, <2>2
  <2> QED
    BY <2>1, <2>2
<1> QED
  BY <1>1, <1>2

LEMMA RejectedIs ==
  ASSUME PluginInv, NEW s \in Socket, NEW sc, sc = Plugin!Settled(s, "answered", "fail")
  PROVE  /\ sc \in [Caller -> Plugin!Script]
         /\ \A x \in Caller :
              \/ sc[x] = script[x]
              \/ /\ script[x].at = "connect" /\ sc[x].at = "answered" /\ sc[x].own
                 /\ sc[x].want \in Plugin!Want
<1>0. Plugin!TypeOK
  BY DEF PluginInv, Plugin!AnswersArrive
<1>1. /\ sc = [x \in Caller |-> sc[x]]
      /\ \A x \in Caller :
           sc[x] = IF script[x].at = "connect" /\ script[x].on = s
                   THEN [script[x] EXCEPT !.at = "answered", !.on = Nil, !.res = "fail"]
                   ELSE script[x]
  BY DEF Plugin!Settled
<1>2. ASSUME NEW x \in Caller
      PROVE  /\ sc[x] \in Plugin!Script
             /\ \/ sc[x] = script[x]
                \/ /\ script[x].at = "connect" /\ sc[x].at = "answered" /\ sc[x].own
                   /\ sc[x].want \in Plugin!Want
  <2>0. script[x] \in Plugin!Script /\ script[x].own = TRUE
    BY <1>0, PluginTypes DEF PluginInv, Plugin!AnswersArrive, Plugin!AnswerIsOwn
  <2>1. CASE script[x].at = "connect" /\ script[x].on = s
    <3>1. sc[x] = [script[x] EXCEPT !.at = "answered", !.on = Nil, !.res = "fail"]
      BY <1>1, <2>1
    <3>2. script[x].want \in Plugin!Want
      BY <2>1 DEF PluginInv, WantIsKnown
    <3>3. [script[x] EXCEPT !.at = "answered", !.on = Nil, !.res = "fail"] \in Plugin!Script
      BY <2>0 DEF Plugin!Script, Plugin!Result
    <3> QED
      BY <2>0, <2>1, <3>1, <3>2, <3>3 DEF Plugin!Script
  <2>2. CASE ~(script[x].at = "connect" /\ script[x].on = s)
    BY <1>1, <2>0, <2>2
  <2> QED
    BY <2>1, <2>2
<1> QED
  BY <1>1, <1>2

\* Who waits is in the map.
LEMMA WaitersWait ==
  ASSUME PluginInv
  PROVE  \A x \in Caller : script[x].at = "wait" => <<script[x].id, x>> \in pending
BY DEF PluginInv, Plugin!AnswersArrive, Plugin!WaiterIsPending

\* The socket that opens is the one that was to be opened.
LEMMA OpenKeeps == ASSUME PluginInv, NEW s \in Socket, Plugin!OnOpen(s) PROVE PluginInv'
<1>0. Plugin!TypeOK
  BY DEF PluginInv, Plugin!AnswersArrive
<1>1. /\ sock[s] = "connecting" /\ sock' = [sock EXCEPT ![s] = "open"] /\ promise' = Nil
      /\ script' = Plugin!Settled(s, "connected", Nil) /\ crossed' = (crossed \/ ws # s)
      /\ UNCHANGED <<ws, timers, lastId, pending, wire, cached, gated, node>>
  BY DEF Plugin!OnOpen
<1>a. PICK sc : sc = Plugin!Settled(s, "connected", Nil)
  OBVIOUS
<1>2. /\ sc \in [Caller -> Plugin!Script]
      /\ \A x \in Caller :
           \/ sc[x] = script[x]
           \/ sc[x].at = "connected" /\ sc[x].own /\ sc[x].want \in Plugin!Want
  BY <1>a, ResolvedIs
<1>3. Settles
  BY <1>0, <1>1, <1>a, <1>2, PluginTypes, WaitersWait DEF Settles
<1>4. /\ sock' \in [Socket -> Sock] /\ \A t \in Socket : sock'[t] = "none" => sock[t] = "none"
      /\ promise' \in Socket \cup {Nil} /\ ws' \in Socket \cup {Nil} /\ crossed' \in BOOLEAN
  BY <1>0, <1>1, PluginTypes DEF Sock
<1>5. Plugin!OneConnection' /\ PromiseIsOwn'
  BY <1>0, <1>1, PluginTypes DEF PluginInv, Plugin!AnswersArrive, Plugin!OneConnection,
     PromiseIsOwn
<1> QED
  BY <1>1, <1>3, <1>4, <1>5, EventKeeps

\* Closing a socket fails all who wait.
LEMMA CloseKeeps ==
  ASSUME PluginInv, NEW s \in Socket, Plugin!OnError(s) \/ Plugin!OnClose(s)
  PROVE  PluginInv'
<1>0. Plugin!TypeOK
  BY DEF PluginInv, Plugin!AnswersArrive
<1>1. PICK sc :
        /\ Plugin!Closes(s, sc) /\ sc \in [Caller -> Plugin!Script]
        /\ \A x \in Caller :
             \/ sc[x] = script[x]
             \/ /\ script[x].at = "connect" /\ sc[x].at = "answered" /\ sc[x].own
                /\ sc[x].want \in Plugin!Want
  <2>1. CASE Plugin!OnError(s)
    <3>a. PICK sc : sc = Plugin!Settled(s, "answered", "fail")
      OBVIOUS
    <3>1. "fail" \in Plugin!Result \cup {Nil} /\ Plugin!Closes(s, sc)
      BY <2>1, <3>a DEF Plugin!OnError, Plugin!Result
    <3>2. /\ sc \in [Caller -> Plugin!Script]
          /\ \A x \in Caller :
               \/ sc[x] = script[x]
               \/ /\ script[x].at = "connect" /\ sc[x].at = "answered" /\ sc[x].own
                  /\ sc[x].want \in Plugin!Want
      BY <3>a, RejectedIs
    <3> QED
      BY <3>1, <3>2
  <2>2. CASE Plugin!OnClose(s)
    BY <1>0, <2>2, PluginTypes DEF Plugin!OnClose
  <2> QED
    BY <2>1, <2>2
<1>2. /\ sock' = [sock EXCEPT ![s] = "closed"] /\ ws' = Nil /\ promise' = Nil
      /\ pending' = {} /\ wire' \subseteq wire /\ crossed' = (crossed \/ ws \notin {s, Nil})
      /\ UNCHANGED <<timers, lastId, cached, gated, node>>
  BY <1>1 DEF Plugin!Closes
<1>3. ASSUME NEW x \in Caller
      PROVE  /\ script'[x] \in Plugin!Script
             /\ \/ script'[x] = script[x]
                \/ script'[x].at = "answered" /\ script'[x].own
             /\ script'[x].at # "wait"
  <2> DEFINE y == [sc[x] EXCEPT !.at = "answered", !.res = "fail"]
  <2>1. sc[x] \in Plugin!Script /\ sc[x].own
    BY <1>1, <1>3 DEF PluginInv, Plugin!AnswersArrive, Plugin!AnswerIsOwn
  <2>2. y \in Plugin!Script /\ y.at = "answered" /\ y.own = TRUE
    BY <2>1 DEF Plugin!Script, Plugin!Result
  <2>3. script'[x] = IF sc[x].at = "wait" /\ <<sc[x].id, x>> \in pending THEN y ELSE sc[x]
    BY <1>1 DEF Plugin!Closes
  <2>4. sc[x].at = "wait" => <<sc[x].id, x>> \in pending
    BY <1>1, <1>3, WaitersWait
  <2> HIDE DEF y
  <2> QED
    BY <1>1, <2>1, <2>2, <2>3, <2>4
<1>4. script' \in [Caller -> Plugin!Script]
  <2>1. script' = [x \in Caller |-> script'[x]]
    BY <1>1 DEF Plugin!Closes
  <2> QED
    BY <1>3, <2>1
<1>5. Settles
  BY <1>0, <1>2, <1>3, <1>4, PluginTypes DEF Settles
<1>6. /\ sock' \in [Socket -> Sock] /\ \A t \in Socket : sock'[t] = "none" => sock[t] = "none"
      /\ promise' \in Socket \cup {Nil} /\ ws' \in Socket \cup {Nil} /\ crossed' \in BOOLEAN
  BY <1>0, <1>2, PluginTypes DEF Sock
<1>7. Plugin!OneConnection' /\ PromiseIsOwn'
  BY <1>0, <1>2, PluginTypes
     DEF PluginInv, Plugin!AnswersArrive, Plugin!OneConnection, PromiseIsOwn
<1> QED
  BY <1>2, <1>5, <1>6, <1>7, EventKeeps

\* close() leaves no socket that is or may be open.
LEMMA ClosingIs ==
  ASSUME PluginInv
  PROVE  /\ Plugin!Closing \in [Socket -> Sock]
         /\ \A t \in Socket : /\ Plugin!Closing[t] = "none" => sock[t] = "none"
                              /\ t # ws => Plugin!Closing[t] = sock[t]
                              /\ t = ws => Plugin!Closing[t] \notin {"open", "connecting"}
<1>1. Plugin!TypeOK
  BY DEF PluginInv, Plugin!AnswersArrive
<1>2. sock \in [Socket -> Sock] /\ ws \in Socket \cup {Nil}
  BY <1>1, PluginTypes
<1>3. CASE ws = Nil
  BY <1>2, <1>3 DEF Plugin!Closing
<1>4. CASE ws \in Socket /\ ws # Nil
  <2>1. PICK v \in Sock : v = CASE sock[ws] = "open" -> "closing"
                                [] sock[ws] = "connecting" -> "aborted"
                                [] OTHER -> sock[ws]
    BY <1>2, <1>4 DEF Sock
  <2>2. v \notin {"open", "connecting"} /\ (v = "none" => sock[ws] = "none")
    BY <2>1
  <2>3. Plugin!Closing = [sock EXCEPT ![ws] = v]
    BY <1>2, <1>4, <2>1 DEF Plugin!Closing
  <2> QED
    BY <1>2, <1>4, <2>2, <2>3
<1> QED
  BY <1>2, <1>3, <1>4

\* A connection that is given up is this.ws, whoever gives it up.
LEMMA SocketKeeps ==
  ASSUME PluginInv,
         Plugin!Disconnect \/ \E s \in Socket : Plugin!Drop(s) \/ Plugin!ConnectTimeout(s)
  PROVE  PluginInv'
<1>0. Plugin!TypeOK
  BY DEF PluginInv, Plugin!AnswersArrive
<1>1. /\ sock \in [Socket -> Sock] /\ ws \in Socket \cup {Nil} /\ promise \in Socket \cup {Nil}
      /\ script \in [Caller -> Plugin!Script] /\ wire \subseteq Plugin!Request
      /\ node \subseteq Caller
      /\ timers \subseteq Socket /\ crossed \in BOOLEAN
      /\ \A t \in Socket : Plugin!Closing[t] = "none" => sock[t] = "none"
  BY <1>0, PluginTypes, ClosingIs
<1>2. (UNCHANGED <<lastId, pending, wire, script, cached, gated, node>>) => Settles
  <2> SUFFICES ASSUME UNCHANGED <<lastId, pending, wire, script, cached, gated, node>>
           PROVE Settles
    OBVIOUS
  <2>1. \A x \in Caller : script'[x].at = "wait" => <<script[x].id, x>> \in pending'
    BY WaitersWait
  <2> QED
    BY <1>1, <2>1 DEF Settles
<1>3. ASSUME NEW s \in Socket, Plugin!Drop(s) PROVE PluginInv'
  <2>1. /\ sock[s] = "open" /\ sock' = [sock EXCEPT ![s] = "closing"]
        /\ UNCHANGED <<ws, promise, timers, lastId, pending, wire, script, cached, gated, node, crossed>>
    BY <1>3 DEF Plugin!Drop
  <2>2. Plugin!OneConnection' /\ PromiseIsOwn'
    BY <1>1, <2>1 DEF PluginInv, Plugin!AnswersArrive, Plugin!OneConnection, PromiseIsOwn
  <2>3. sock' \in [Socket -> Sock] /\ \A t \in Socket : sock'[t] = "none" => sock[t] = "none"
    BY <1>1, <2>1 DEF Sock
  <2> QED
    BY <1>1, <1>2, <2>1, <2>2, <2>3, EventKeeps
<1>4. CASE Plugin!Disconnect
  <2>1. /\ ws # Nil /\ sock' = Plugin!Closing /\ ws' = Nil
        /\ UNCHANGED <<promise, timers, lastId, pending, wire, script, cached, gated, node, crossed>>
    BY <1>4 DEF Plugin!Disconnect
  <2>2. Plugin!OneConnection' /\ PromiseIsOwn'
    BY <1>1, <2>1, ClosingIs DEF PluginInv, Plugin!AnswersArrive, Plugin!OneConnection,
       PromiseIsOwn
  <2> QED
    BY <1>1, <1>2, <2>1, <2>2, ClosingIs, EventKeeps
<1>5. ASSUME NEW s \in Socket, Plugin!ConnectTimeout(s) PROVE PluginInv'
  <2>1. s \in timers /\ timers' = timers \ {s}
        /\ UNCHANGED <<ws, lastId, pending, wire, cached, gated, node>>
    BY <1>5 DEF Plugin!ConnectTimeout
  <2>2. CASE Plugin!IsConnected
    <3>1. UNCHANGED <<sock, promise, script, crossed>>
      BY <1>5, <2>2 DEF Plugin!ConnectTimeout
    <3>2. Plugin!OneConnection' /\ PromiseIsOwn'
      BY <2>1, <3>1 DEF PluginInv, Plugin!AnswersArrive, Plugin!OneConnection, PromiseIsOwn
    <3> QED
      BY <1>1, <1>2, <2>1, <3>1, <3>2, EventKeeps
  <2>3. CASE ~Plugin!IsConnected
    <3>a. PICK sc : sc = Plugin!Settled(s, "answered", "fail")
      OBVIOUS
    <3>1. /\ sock' = Plugin!Closing /\ promise' = Nil /\ script' = sc
          /\ crossed' = (crossed \/ ws \notin {s, Nil} \/ promise \notin {s, Nil})
      BY <1>5, <2>3, <3>a DEF Plugin!ConnectTimeout
    <3>2. /\ sc \in [Caller -> Plugin!Script]
          /\ \A x \in Caller :
               \/ sc[x] = script[x]
               \/ sc[x].at = "answered" /\ sc[x].own /\ sc[x].want \in Plugin!Want
      BY <3>a, RejectedIs
    <3>3. Settles
      BY <1>1, <2>1, <3>1, <3>2, WaitersWait DEF Settles
    <3>4. Plugin!OneConnection' /\ PromiseIsOwn'
      BY <1>1, <2>1, <3>1, ClosingIs DEF PluginInv, Plugin!AnswersArrive,
         Plugin!OneConnection, PromiseIsOwn
    <3> QED
      BY <1>1, <2>1, <3>1, <3>3, <3>4, ClosingIs, EventKeeps
  <2> QED
    BY <2>2, <2>3
<1> QED
  BY <1>3, <1>4, <1>5

\* Answers, and requests that are given up.
LEMMA AnswerKeeps ==
  ASSUME PluginInv,
         (\E c \in Caller : Plugin!RequestTimeout(c)) \/ \E q \in wire : Plugin!OnMessage(q)
              \/ Plugin!Serve(q)
  PROVE  PluginInv'
<1>0. Plugin!TypeOK
  BY DEF PluginInv, Plugin!AnswersArrive
<1>1. /\ sock \in [Socket -> Sock] /\ ws \in Socket \cup {Nil} /\ promise \in Socket \cup {Nil}
      /\ script \in [Caller -> Plugin!Script] /\ wire \subseteq Plugin!Request
      /\ node \subseteq Caller
      /\ timers \subseteq Socket /\ crossed \in BOOLEAN
      /\ pending \subseteq (1..lastId) \X Caller
  BY <1>0, PluginTypes
<1>2. (UNCHANGED Plugin!connection /\ Settles) => PluginInv'
  <2> SUFFICES ASSUME UNCHANGED Plugin!connection, Settles PROVE PluginInv'
    OBVIOUS
  <2>1. Plugin!OneConnection' /\ PromiseIsOwn'
    BY DEF PluginInv, Plugin!AnswersArrive, Plugin!OneConnection, PromiseIsOwn,
       Plugin!connection
  <2> QED
    BY <1>1, <2>1, EventKeeps DEF Plugin!connection
<1>3. ASSUME NEW c \in Caller, Plugin!RequestTimeout(c) PROVE PluginInv'
  <2> DEFINE y == [script[c] EXCEPT !.at = "answered", !.res = "fail"]
  <2>1. /\ script[c].at = "wait" /\ pending' = pending \ {<<script[c].id, c>>}
        /\ script' = Plugin!Answered(c, "fail")
        /\ UNCHANGED <<sock, ws, promise, timers, lastId, wire, cached, gated, node, crossed>>
    BY <1>3 DEF Plugin!RequestTimeout
  <2>2. script[c] \in Plugin!Script /\ script[c].own = TRUE
    BY <1>1 DEF PluginInv, Plugin!AnswersArrive, Plugin!AnswerIsOwn
  <2>3. y \in Plugin!Script /\ y.at = "answered" /\ y.own = TRUE
    BY <2>2 DEF Plugin!Script, Plugin!Result
  <2>4. script' = [script EXCEPT ![c] = y]
    BY <1>1, <2>1, <2>2 DEF Plugin!Answered, Plugin!Script
  <2> HIDE DEF y
  <2>5. \A x \in Caller : script'[x].at = "wait" => <<script[x].id, x>> \in pending'
    BY <1>1, <2>1, <2>3, <2>4, WaitersWait
  <2>6. Settles
    BY <1>1, <2>1, <2>3, <2>4, <2>5 DEF Settles
  <2> QED
    BY <1>2, <2>1, <2>6 DEF Plugin!connection
<1>4. ASSUME NEW q \in wire, Plugin!OnMessage(q) PROVE PluginInv'
  <2>1. /\ q.res # Nil /\ wire' = wire \ {q} /\ pending' = {p \in pending : p[1] # q.id}
        /\ UNCHANGED <<sock, ws, promise, timers, lastId, cached, gated, node, crossed>>
    BY <1>4 DEF Plugin!OnMessage
  <2>2. ASSUME NEW x \in Caller
        PROVE  /\ script'[x] \in Plugin!Script
               /\ \/ script'[x] = script[x]
                  \/ script'[x].at = "answered" /\ script'[x].own
               /\ script'[x].at = "wait" => <<script[x].id, x>> \in pending'
    <3> DEFINE own == q.c = x /\ q.want = script[x].want
               y == [script[x] EXCEPT !.at = "answered", !.res = q.res, !.own = own]
    <3>1. script[x] \in Plugin!Script /\ q.res \in Plugin!Result /\ own \in BOOLEAN
      BY <1>1, <2>1, RequestFields
    <3>2. y \in Plugin!Script /\ y.at = "answered" /\ y.own = own
      BY <3>1 DEF Plugin!Script
    <3>3. script'[x] = IF <<q.id, x>> \in pending /\ script[x].at = "wait"
               /\ script[x].id = q.id
                       THEN y ELSE script[x]
      BY <1>4 DEF Plugin!OnMessage
    <3>4. <<q.id, x>> \in pending /\ script[x].at = "wait" /\ script[x].id = q.id => own = TRUE
      BY DEF PluginInv, IdsAreGivenOnce
    <3>5. script[x].at = "wait" => <<script[x].id, x>> \in pending
      BY WaitersWait
    <3> HIDE DEF y, own
    <3> QED
      BY <2>1, <3>1, <3>2, <3>3, <3>4, <3>5
  <2>3. script' \in [Caller -> Plugin!Script]
    <3>1. script' = [x \in Caller |-> script'[x]]
      BY <1>4 DEF Plugin!OnMessage
    <3> QED
      BY <2>2, <3>1
  <2>4. Settles
    BY <1>1, <2>1, <2>2, <2>3 DEF Settles
  <2> QED
    BY <1>2, <2>1, <2>4 DEF Plugin!connection
<1>5. ASSUME NEW q \in wire, Plugin!Serve(q) PROVE PluginInv'
  <2>1. PICK r \in Plugin!Result : 
           /\ wire' = (wire \ {q}) \cup (IF sock[q.s] \in {"open", "closing"}
                                         THEN {[q EXCEPT !.res = r]} ELSE {})
           /\ node' \in IF r = "hash" THEN {node, node \cup {q.c}} ELSE {node}
    BY <1>5 DEF Plugin!Serve, Plugin!Result
  <2>2. UNCHANGED <<sock, ws, promise, timers, lastId, pending, script, cached, gated, crossed>>
    BY <1>5 DEF Plugin!Serve
  <2> DEFINE a == [q EXCEPT !.res = r]
  <2>3. a \in Plugin!Request /\ a.id = q.id /\ a.c = q.c /\ a.want = q.want /\ q.c \in Caller
    BY <1>1, RequestFields DEF Plugin!Request
  <2>4. wire' \subseteq wire \cup {a}
    BY <2>1
  <2>5. node \subseteq node' /\ node' \subseteq Caller
    BY <1>1, <2>1, <2>3
  <2> HIDE DEF a
  <2>6. \A x \in wire' : \E y \in wire : x.id = y.id /\ x.c = y.c /\ x.want = y.want
    BY <2>3, <2>4
  <2>7. Settles
    BY <1>1, <2>2, <2>3, <2>4, <2>5, <2>6, WaitersWait DEF Settles
  <2> QED
    BY <1>2, <2>2, <2>7 DEF Plugin!connection
<1> QED
  BY <1>3, <1>4, <1>5

\* The invariant is inductive.
LEMMA PluginStep == ASSUME PluginInv,
     [Plugin!Next]_(Plugin!vars) PROVE PluginInv'
<1>1. CASE UNCHANGED Plugin!vars
  BY <1>1 DEF Plugin!vars, PluginInv, Plugin!AnswersArrive, Plugin!TypeOK,
     Plugin!WaiterIsPending, Plugin!AnswerIsOwn, Plugin!OneConnection,
              Plugin!ReturnedIsKnown, IdsAreGivenOnce, PromiseIsOwn, WantIsKnown
<1>2. CASE Plugin!Next
  <2>1. CASE \E c \in Caller : Plugin!GetSigners(c) \/ Plugin!SendTransaction(c)
             \/ Plugin!Microtask(c) \/ Plugin!Poll(c)
    BY <2>1, ScriptKeeps
  <2>2. CASE \E s \in Socket : Plugin!OnOpen(s)
    BY <2>2, OpenKeeps
  <2>3. CASE \E s \in Socket : Plugin!OnError(s) \/ Plugin!OnClose(s)
    BY <2>3, CloseKeeps
  <2>4. CASE Plugin!Disconnect \/ \E s \in Socket : Plugin!Drop(s) \/ Plugin!ConnectTimeout(s)
    BY <2>4, SocketKeeps
  <2>5. CASE (\E c \in Caller : Plugin!RequestTimeout(c))
             \/ \E q \in wire : Plugin!OnMessage(q) \/ Plugin!Serve(q)
    BY <2>5, AnswerKeeps
  <2> QED
    BY <1>2, <2>1, <2>2, <2>3, <2>4, <2>5 DEF Plugin!Next
<1> QED
  BY <1>1, <1>2

-----------------------------------------------------------------------------
\* However sockets, timers and answers of several connections interleave, a
\* script that waits can be answered, and only with what it asked for, on the
\* connection the client has.
THEOREM PluginAnswers == PluginSpec => []AnswersArrive
<1>1. Plugin!Init => PluginInv
  BY PluginInit
<1>2. PluginInv /\ [Plugin!Next]_(Plugin!vars) => PluginInv'
  BY PluginStep
<1>3. PluginInv => AnswersArrive
  BY DEF PluginInv, AnswersArrive
<1> QED
  BY <1>1, <1>2, <1>3, PTL DEF PluginSpec, Plugin!Spec

\* A script that was given a transaction finds it on the network.
THEOREM PluginReturns == PluginSpec => []ReturnedIsKnown
<1>1. Plugin!Init => PluginInv
  BY PluginInit
<1>2. PluginInv /\ [Plugin!Next]_(Plugin!vars) => PluginInv'
  BY PluginStep
<1>3. PluginInv => ReturnedIsKnown
  BY DEF PluginInv, ReturnedIsKnown
<1> QED
  BY <1>1, <1>2, <1>3, PTL DEF PluginSpec, Plugin!Spec
=============================================================================
