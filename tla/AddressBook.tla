------------------------------ MODULE AddressBook ------------------------------
(***************************************************************************)
(* The address book (components/AddressBook.tsx, hooks/useContacts.ts): a  *)
(* list of contacts, a form that adds or edits one and a dialog that       *)
(* deletes one.  A payment takes its recipient from this list.             *)
(*                                                                         *)
(* A request goes through the backend's queue to the contacts store; the   *)
(* page changes its list only when the answer is there.  A page that is    *)
(* left leaves its requests in the queue.                                  *)
(***************************************************************************)
EXTENDS ContactStore, Integers, Sequences

CONSTANT MaxCalls  \* bound on the requests whose answers are not yet handled

ASSUME CallsAssumption == MaxCalls \in Nat
ASSUME FormAssumption == "closed" \notin Contact /\ "add" \notin Contact

VARIABLES
    calls,     \* requests in the queue; the worker serves the first
    answers,   \* answers on their way to the page
    mounted,   \* the address book is open
    shown,     \* contacts
    fetched,   \* history: a list was answered since the page was opened
    error,     \* the banner with its Retry button
    form,      \* "closed", "add", or the contact that is edited
    saving,    \* isSaving
    target,    \* deleteTarget
    deleting,  \* isDeleting
    blind      \* history: a request met no stick since the page was opened on
               \*   an idle store

pageVars == <<mounted, shown, fetched, error, form, saving, target, deleting>>
queues == <<calls, answers>>
vars == <<storeVars, queues, pageVars, blind>>

\* own: the page that asked is still open.
Call == [req : Request, own : BOOLEAN]

\* got: the list it was answered with.
Reply == [req : Request, own : BOOLEAN, ok : BOOLEAN, got : Book]

Init ==
    /\ StoreInit
    /\ calls = <<>> /\ answers = <<>>
    /\ mounted = FALSE /\ shown = NoContact /\ fetched = FALSE /\ error = FALSE
    /\ form = "closed" /\ saving = FALSE /\ target = None /\ deleting = FALSE
    /\ blind = FALSE

Unmount ==
    /\ mounted' = FALSE /\ shown' = NoContact /\ fetched' = FALSE /\ error' = FALSE
    /\ form' = "closed" /\ saving' = FALSE /\ target' = None /\ deleting' = FALSE

Ask(do, c, d) ==
    /\ Len(calls) + Len(answers) < MaxCalls
    /\ calls' = Append(calls, [req |-> [do |-> do, c |-> c, d |-> d], own |-> TRUE])
    /\ UNCHANGED <<storeVars, answers>>

\* The answers to these go to a page that is no longer there.
Disowned(q) == [i \in DOMAIN q |-> [q[i] EXCEPT !.own = FALSE]]

\* Nothing lies over the list: an overlay covers the buttons behind it.
Uncovered == mounted /\ form = "closed" /\ target = None

-----------------------------------------------------------------------------
(***************************************************************************)
(* What the user does.                                                     *)
(***************************************************************************)
Open ==
    /\ ~mounted
    /\ mounted' = TRUE
    /\ Ask("list", None, None)
    /\ blind' = (blind /\ (calls # <<>> \/ answers # <<>>))
    /\ UNCHANGED <<shown, fetched, error, form, saving, target, deleting>>

\* Back, a contact picked for a payment, or the lock.
Leave ==
    /\ mounted
    /\ Unmount
    /\ calls' = Disowned(calls) /\ answers' = Disowned(answers)
    /\ UNCHANGED storeVars

Retry ==
    /\ Uncovered /\ error
    /\ Ask("list", None, None)
    /\ error' = FALSE
    /\ UNCHANGED <<mounted, shown, fetched, form, saving, target, deleting>>

OpenForm(f) ==
    /\ Uncovered
    /\ f \in {"add"} \cup {c \in Contact : shown[c] # None}
    /\ form' = f
    /\ UNCHANGED <<storeVars, queues, mounted, shown, fetched, error, saving, target, deleting>>

\* Cancel, or a click beside the form, which a save under way does not stop.
CloseForm ==
    /\ mounted /\ form # "closed"
    /\ form' = "closed"
    /\ UNCHANGED <<storeVars, queues, mounted, shown, fetched, error, saving, target, deleting>>

\* The id of a new contact is the store's: it does not matter when it is drawn.
AskToSave(d) ==
    IF form = "add"
    THEN \E c \in Contact \ (used \cup {calls[i].req.c : i \in DOMAIN calls}) : Ask("add", c, d)
    ELSE Ask("update", form, d)

\* Mutant: the list is changed before the answer.
SaveAtOnce(d) ==
    /\ mounted /\ form # "closed" /\ ~saving
    /\ AskToSave(d)
    /\ shown' = IF form = "add" THEN shown ELSE [shown EXCEPT ![form] = d]
    /\ saving' = TRUE /\ error' = FALSE
    /\ UNCHANGED <<mounted, fetched, form, target, deleting>>

Save(d) ==
    /\ mounted /\ form # "closed" /\ ~saving
    /\ AskToSave(d)
    /\ saving' = TRUE /\ error' = FALSE
    /\ UNCHANGED <<mounted, shown, fetched, form, target, deleting>>

AskDelete(c) ==
    /\ Uncovered /\ shown[c] # None
    /\ target' = c
    /\ UNCHANGED <<storeVars, queues, mounted, shown, fetched, error, form, saving, deleting>>

CancelDelete ==
    /\ mounted /\ target # None /\ ~deleting
    /\ target' = None
    /\ UNCHANGED <<storeVars, queues, mounted, shown, fetched, error, form, saving, deleting>>

ConfirmDelete ==
    /\ mounted /\ target # None /\ ~deleting
    /\ Ask("delete", target, None)
    /\ deleting' = TRUE /\ error' = FALSE
    /\ UNCHANGED <<mounted, shown, fetched, form, saving, target>>

-----------------------------------------------------------------------------
(***************************************************************************)
(* The backend: one worker takes the requests in their order.              *)
(***************************************************************************)
Serve ==
    /\ calls # <<>>
    /\ Begin(Head(calls).req)
    /\ UNCHANGED <<queues, pageVars>>

Work == Progress /\ blind' = (blind \/ missed') /\ UNCHANGED <<queues, pageVars>>

Return ==
    /\ calls # <<>>
    /\ Finish
    /\ calls' = Tail(calls)
    /\ answers' = Append(answers, [req |-> op, own |-> Head(calls).own, ok |-> step = "ok",
                                   got |-> IF op.do = "list" THEN mem ELSE NoContact])
    /\ UNCHANGED pageVars

Die == Crash /\ Unmount /\ calls' = <<>> /\ answers' = <<>> /\ blind' = FALSE

Pull == Plug /\ UNCHANGED <<queues, pageVars>>

-----------------------------------------------------------------------------
(***************************************************************************)
(* What the page makes of an answer.                                       *)
(***************************************************************************)
Refused(a) ==
    /\ error' = TRUE
    /\ UNCHANGED <<shown, fetched, form>>

Listed(a) ==
    /\ shown' = a.got /\ fetched' = TRUE
    /\ UNCHANGED <<error, form>>

\* The form is closed, whichever it is; a contact that is not shown stays so.
Saved(a) ==
    /\ shown' = IF a.req.do = "update" /\ shown[a.req.c] = None THEN shown
                ELSE [shown EXCEPT ![a.req.c] = a.req.d]
    /\ form' = "closed"
    /\ UNCHANGED <<fetched, error>>

Deleted(a) ==
    /\ shown' = [shown EXCEPT ![a.req.c] = None]
    /\ UNCHANGED <<fetched, error, form>>

Effect(a) ==
    \/ ~a.ok /\ Refused(a)
    \/ a.ok /\ a.req.do = "list" /\ Listed(a)
    \/ a.ok /\ a.req.do \in {"add", "update"} /\ Saved(a)
    \/ a.ok /\ a.req.do = "delete" /\ Deleted(a)

Settle(a) ==
    /\ saving' = (saving /\ a.req.do \notin {"add", "update"})
    /\ deleting' = (deleting /\ a.req.do # "delete")
    /\ target' = IF a.req.do = "delete" THEN None ELSE target
    /\ UNCHANGED mounted

Answer ==
    /\ answers # <<>>
    /\ answers' = Tail(answers)
    /\ IF Head(answers).own
       THEN Effect(Head(answers)) /\ Settle(Head(answers))
       ELSE UNCHANGED pageVars
    /\ UNCHANGED <<storeVars, calls>>

\* The steps that do not bear on blind.
Steady ==
    \/ Leave \/ Retry \/ CloseForm \/ CancelDelete \/ ConfirmDelete
    \/ \E f \in Contact \cup {"add"} : OpenForm(f)
    \/ \E d \in Data : Save(d)
    \/ \E c \in Contact : AskDelete(c)
    \/ Serve \/ Return \/ Answer \/ Pull

Next == Open \/ Work \/ Die \/ (Steady /\ UNCHANGED blind)

Spec == Init /\ [][Next]_vars

-----------------------------------------------------------------------------
TypeOK ==
    /\ file \in Book /\ tmp \in Tmp /\ mem \in Book
    /\ op \in Request /\ step \in Step /\ used \subseteq Contact
    /\ {inserted, missed, blind} \subseteq BOOLEAN
    /\ calls \in Seq(Call) /\ answers \in Seq(Reply) /\ Len(calls) + Len(answers) <= MaxCalls
    /\ mounted \in BOOLEAN /\ shown \in Book /\ fetched \in BOOLEAN /\ error \in BOOLEAN
    /\ form \in Contact \cup {"closed", "add"} /\ saving \in BOOLEAN
    /\ target \in Contact \cup {None} /\ deleting \in BOOLEAN

\* The page's own requests of these kinds, still to be answered.
Own(q, kinds) == {i \in DOMAIN q : q[i].own /\ q[i].req.do \in kinds}
Pending(kinds) == Own(calls, kinds) # {} \/ Own(answers, kinds) # {}
PendingOn(c) ==
    \/ \E i \in DOMAIN calls : calls[i].own /\ calls[i].req.c = c
    \/ \E i \in DOMAIN answers : answers[i].own /\ answers[i].req.c = c

\* What the list says of a contact, whose address a payment may be sent to,
\* is what is stored of it, except while a request of this page on that very
\* contact is under way; before the first list is there it may be missing.
\* Once a request met no stick either may lack what the other has, but the two
\* never differ.
ShownIsStored ==
    \A c \in Contact :
        mounted /\ ~PendingOn(c) =>
            \/ shown[c] = file[c]
            \/ shown[c] = None /\ ~fetched
            \/ blind /\ None \in {shown[c], file[c]}

\* The page waits only for a request it made, for one save and one deletion
\* at a time, and the dialog names the contact that is being deleted.
AtMostOne(kinds) ==
    /\ \A i, j \in Own(calls, kinds) : i = j
    /\ \A i, j \in Own(answers, kinds) : i = j
    /\ Own(calls, kinds) = {} \/ Own(answers, kinds) = {}

WaitsForItsCall ==
    /\ saving <=> Pending({"add", "update"})
    /\ deleting <=> Pending({"delete"})
    /\ AtMostOne({"add", "update"}) /\ AtMostOne({"delete"})
    /\ \A i \in Own(calls, {"delete"}) : calls[i].req.c = target
    /\ \A i \in Own(answers, {"delete"}) : answers[i].req.c = target

\* As long as every request found the stick, no edit and no deletion of the
\* page meets a contact that is gone.
NothingIsMissing ==
    step = "loaded" /\ op.do \in {"update", "delete"} /\ ~blind => mem[op.c] # None

\* What the page shows of a contact, and what it waits for, is so: no answer is
\* lost, taken for another, or met by a contact that is gone.
PageIsTrue == ShownIsStored /\ WaitsForItsCall /\ NothingIsMissing
=============================================================================
