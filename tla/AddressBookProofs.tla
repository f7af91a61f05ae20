-------------------------- MODULE AddressBookProofs --------------------------
(***************************************************************************)
(* Proofs about the contacts store and the page that uses it, for every    *)
(* set of contacts and of data and every bound on the requests under way.  *)
(***************************************************************************)
EXTENDS MCDesk, TLAPS

USE ContactAssumption, CallsAssumption, FormAssumption

StoreTypes ==
    /\ file \in Book /\ tmp \in Tmp /\ mem \in Book
    /\ op \in Request /\ step \in Step /\ used \subseteq Contact
    /\ inserted \in BOOLEAN /\ missed \in BOOLEAN

\* What each step of a request knows of the file.
StepKnows ==
    /\ step = "begun" => ~missed
    /\ step = "loaded" => mem = Seen
    /\ step \in {"changed", "written"} =>
          op.do # "list" /\ (op.do \in {"update", "delete"} => Seen[op.c] # None)
    /\ step = "idle" => ~missed

StoreInv == StoreTypes /\ WritesOneChange /\ StepKnows

-----------------------------------------------------------------------------
(***************************************************************************)
(* The store.                                                              *)
(***************************************************************************)
LEMMA NoContactType == NoContact \in Book
  BY DEF NoContact, Book, Promise!NoContact, Promise!Book

LEMMA NoTmpType == NoTmp \in Tmp /\ Torn \in Tmp
  BY NoContactType DEF NoTmp, Torn, Tmp

LEMMA NoRequestType == NoRequest \in Request
  BY DEF NoRequest, Request, Promise!NoRequest, Promise!Request

LEMMA RequestFields ==
  ASSUME NEW r \in Request
  PROVE  /\ r.do \in {"list", "add", "update", "delete"}
         /\ r.c \in Contact \cup {None}
         /\ r.d \in Data \cup {None}
  BY DEF Request, Promise!Request

LEMMA ApplyType ==
  ASSUME NEW b \in Book, NEW r \in Request
  PROVE  Apply(b, r) \in Book
  BY RequestFields DEF Apply, Promise!Apply, Book, Promise!Book

LEMMA WholeType ==
  ASSUME NEW b \in Book
  PROVE  [state |-> "whole", book |-> b] \in Tmp
  BY DEF Tmp

LEMMA StoreInvInit == StoreInit => StoreInv
  BY NoContactType, NoTmpType, NoRequestType
     DEF StoreInit, StoreInv, StoreTypes, StepKnows, WritesOneChange, Step

LEMMA StoreTypesStep == StoreTypes /\ StoreNext => StoreTypes'
<1> SUFFICES ASSUME StoreTypes, StoreNext PROVE StoreTypes'
  OBVIOUS
<1> USE DEF StoreTypes, Step
<1> USE DEF usb
<1>1. CASE Load
  BY <1>1, NoContactType DEF Load
<1>1a. CASE List
  BY <1>1a DEF List
<1>1b. CASE Plug
  BY <1>1b DEF Plug
<1>2. CASE Change
  BY <1>2, ApplyType DEF Change
<1>3. CASE WriteTemp
  BY <1>3, WholeType, NoTmpType DEF WriteTemp
<1>4. CASE Rename
  <2>1. tmp.book \in Book
    BY DEF Tmp
  <2> QED
    BY <1>4, <2>1, NoTmpType DEF Rename
<1>5. CASE Finish
  BY <1>5, NoRequestType, NoContactType DEF Finish
<1>6. CASE Crash
  BY <1>6, NoRequestType, NoContactType, NoTmpType DEF Crash
<1>7. ASSUME NEW r \in Request, Begin(r) PROVE StoreTypes'
  BY <1>7 DEF Begin
<1> QED
  BY <1>1, <1>1a, <1>1b, <1>2, <1>3, <1>4, <1>5, <1>6, <1>7 DEF StoreNext, Progress

LEMMA StoreInvStep == StoreInv /\ [StoreNext]_storeVars => StoreInv'
<1> SUFFICES ASSUME StoreInv, [StoreNext]_storeVars PROVE StoreInv'
  OBVIOUS
<1>0. CASE UNCHANGED storeVars
  BY <1>0 DEF storeVars, StoreInv, StoreTypes, StepKnows, WritesOneChange, Seen
<1>a. CASE StoreNext
  <2>0. StoreTypes'
    BY <1>a, StoreTypesStep DEF StoreInv
  <2> USE DEF StoreInv, StepKnows, WritesOneChange, Seen, usb
  <2>1. CASE Load
    BY <2>0, <2>1 DEF Load, StoreTypes
  <2>1a. CASE List
    BY <2>0, <2>1a DEF List
  <2>1b. CASE Plug
    BY <2>0, <2>1b DEF Plug
  <2>2. CASE Change
    BY <2>0, <2>2 DEF Change
  <2>3. CASE WriteTemp
    BY <2>0, <2>3 DEF WriteTemp
  <2>4. CASE Rename
    BY <2>0, <2>4 DEF Rename
  <2>5. CASE Finish
    BY <2>0, <2>5 DEF Finish
  <2>6. CASE Crash
    BY <2>0, <2>6 DEF Crash
  <2>7. ASSUME NEW r \in Request, Begin(r) PROVE StoreInv'
    BY <2>0, <2>7 DEF Begin
  <2> QED
    BY <1>a, <2>1, <2>1a, <2>1b, <2>2, <2>3, <2>4, <2>5, <2>6, <2>7 DEF StoreNext, Progress
<1> QED
  BY <1>0, <1>a

-----------------------------------------------------------------------------
(***************************************************************************)
(* The store keeps its promise.                                            *)
(***************************************************************************)
LEMMA PromiseInit == StoreInit => Promise!CInit
  BY DEF StoreInit, Promise!CInit, NoContact, NoRequest

LEMMA PromiseStep == StoreInv /\ [StoreNext]_storeVars => [Promise!CNext]_(Promise!cvars)
<1> SUFFICES ASSUME StoreInv, [StoreNext]_storeVars
             PROVE  Promise!CNext \/ UNCHANGED Promise!cvars
  OBVIOUS
<1> USE DEF Promise!cvars, usb
<1>0. CASE UNCHANGED storeVars
  BY <1>0 DEF storeVars
<1>1. CASE Load
  BY <1>1 DEF Load, Promise!CNext, Promise!Miss, Promise!Refuse, StoreInv, StoreTypes, StepKnows
<1>1a. CASE List
  BY <1>1a DEF List, Promise!CNext, Promise!Commit
<1>1b. CASE Plug
  BY <1>1b DEF Plug, Promise!CNext, Promise!Plug
<1>2. CASE Change
  BY <1>2 DEF Change, Promise!CNext, Promise!Refuse
<1>3. CASE WriteTemp
  BY <1>3 DEF WriteTemp, Promise!CNext, Promise!Refuse
<1>4. CASE Rename
  <2>1. tmp.book = Promise!Apply(Seen, op)
    BY <1>4 DEF Rename, StoreInv, WritesOneChange, Apply
  <2>2. op.do # "list" /\ (op.do \in {"update", "delete"} => Seen[op.c] # None)
    BY <1>4 DEF Rename, StoreInv, StepKnows
  <2>3. Seen = IF missed THEN Promise!NoContact ELSE file
    BY DEF Seen, NoContact
  <2>4. CASE step' = "ok"
    BY <1>4, <2>1, <2>2, <2>3, <2>4 DEF Rename, Promise!CNext, Promise!Commit
  <2>5. CASE step' = "failed"
    BY <1>4, <2>5 DEF Rename, Promise!CNext, Promise!Refuse
  <2> QED
    BY <1>4, <2>4, <2>5 DEF Rename
<1>5. CASE Finish
  BY <1>5 DEF Finish, NoRequest, Promise!CNext, Promise!Return
<1>6. CASE Crash
  BY <1>6 DEF Crash, NoRequest, Promise!CNext, Promise!Stop
<1>7. ASSUME NEW r \in Request, Begin(r) PROVE Promise!CNext
  BY <1>7 DEF Begin, Request, Promise!CNext, Promise!Receive
<1> QED
  BY <1>0, <1>1, <1>1a, <1>1b, <1>2, <1>3, <1>4, <1>5, <1>6, <1>7 DEF StoreNext, Progress

\* The store by itself, for callers that ask anything at any time.
THEOREM StoreKeepsPromise == StoreSpec => KeepsPromise
<1>1. StoreInit => StoreInv
  BY StoreInvInit
<1>2. StoreInv /\ [StoreNext]_storeVars => StoreInv'
  BY StoreInvStep
<1>3. StoreInit => Promise!CInit
  BY PromiseInit
<1>4. StoreInv /\ [StoreNext]_storeVars => [Promise!CNext]_(Promise!cvars)
  BY PromiseStep
<1> QED
  BY <1>1, <1>2, <1>3, <1>4, PTL DEF StoreSpec, KeepsPromise, Promise!CSpec

-----------------------------------------------------------------------------
(***************************************************************************)
(* The page on top of it.                                                  *)
(***************************************************************************)
QueueTypes ==
    /\ calls \in Seq(Call) /\ answers \in Seq(Reply)
    /\ Len(calls) + Len(answers) <= MaxCalls

PageTypes ==
    /\ mounted \in BOOLEAN /\ shown \in Book /\ fetched \in BOOLEAN /\ error \in BOOLEAN
    /\ form \in Contact \cup {"closed", "add"} /\ saving \in BOOLEAN
    /\ target \in Contact \cup {None} /\ deleting \in BOOLEAN

LEMMA TypeParts == TypeOK <=> StoreTypes /\ QueueTypes /\ PageTypes /\ blind \in BOOLEAN
  BY DEF TypeOK, StoreTypes, QueueTypes, PageTypes

LEMMA CallType ==
  ASSUME NEW do \in {"list", "add", "update", "delete"}, NEW c \in Contact \cup {None},
         NEW d \in Data \cup {None}
  PROVE  [req |-> [do |-> do, c |-> c, d |-> d], own |-> TRUE] \in Call
  BY DEF Call, Request, Promise!Request

LEMMA AskType ==
  ASSUME QueueTypes, NEW do \in {"list", "add", "update", "delete"},
         NEW c \in Contact \cup {None}, NEW d \in Data \cup {None}, Ask(do, c, d)
  PROVE  QueueTypes' /\ UNCHANGED storeVars
<1> DEFINE x == [req |-> [do |-> do, c |-> c, d |-> d], own |-> TRUE]
<1>1. x \in Call
  BY CallType
<1> HIDE DEF x
<1>2. calls' = Append(calls, x) /\ UNCHANGED <<storeVars, answers>>
  BY DEF Ask, x
<1>3. Len(calls) + Len(answers) < MaxCalls
  BY DEF Ask
<1> QED
  BY <1>1, <1>2, <1>3 DEF QueueTypes

LEMMA SaveType ==
  ASSUME QueueTypes, form \in Contact \cup {"closed", "add"}, form # "closed",
         NEW d \in Data, AskToSave(d)
  PROVE  QueueTypes' /\ UNCHANGED storeVars
<1>1. CASE form = "add"
  <2>1. PICK c \in Contact : Ask("add", c, d)
    BY <1>1 DEF AskToSave
  <2> QED
    BY <2>1, AskType
<1>2. CASE form # "add"
  <2>1. Ask("update", form, d)
    BY <1>2 DEF AskToSave
  <2> QED
    BY <1>2, <2>1, AskType
<1> QED
  BY <1>1, <1>2

LEMMA FunctionIsSeq ==
  ASSUME NEW S, NEW n \in Nat, NEW f \in [1..n -> S]
  PROVE  f \in Seq(S) /\ Len(f) = n
  OBVIOUS

LEMMA DisownedType ==
  ASSUME QueueTypes
  PROVE  /\ Disowned(calls) \in Seq(Call) /\ Len(Disowned(calls)) = Len(calls)
         /\ Disowned(answers) \in Seq(Reply) /\ Len(Disowned(answers)) = Len(answers)
<1>1. \A x \in Call : [x EXCEPT !.own = FALSE] \in Call
  BY DEF Call
<1>2. \A x \in Reply : [x EXCEPT !.own = FALSE] \in Reply
  BY DEF Reply
<1>3. calls \in Seq(Call) /\ answers \in Seq(Reply)
  BY DEF QueueTypes
<1>4. Disowned(calls) \in [1..Len(calls) -> Call]
  BY <1>1, <1>3 DEF Disowned
<1>5. Disowned(answers) \in [1..Len(answers) -> Reply]
  BY <1>2, <1>3 DEF Disowned
<1>6. Len(calls) \in Nat /\ Len(answers) \in Nat
  BY <1>3
<1> QED
  BY <1>4, <1>5, <1>6, FunctionIsSeq

LEMMA EffectType ==
  ASSUME PageTypes, NEW a \in Reply, Effect(a), Settle(a)
  PROVE  PageTypes'
<1> USE DEF PageTypes
<1>1. a.req \in Request /\ a.got \in Book
  BY DEF Reply
<1>2. mounted' \in BOOLEAN /\ saving' \in BOOLEAN /\ deleting' \in BOOLEAN
      /\ target' \in Contact \cup {None}
  BY DEF Settle
<1>3. shown' \in Book /\ fetched' \in BOOLEAN /\ error' \in BOOLEAN
      /\ form' \in Contact \cup {"closed", "add"}
  BY <1>1, RequestFields
     DEF Effect, Refused, Listed, Saved, Deleted, Book, Promise!Book
<1> QED
  BY <1>2, <1>3

LEMMA UnmountType == Unmount => PageTypes'
  BY NoContactType DEF Unmount, PageTypes

\* Every step of the page and of the queue is a step of the store or leaves
\* it alone.
LEMMA PageStep == TypeOK /\ [Next]_vars => [StoreNext]_storeVars
<1> SUFFICES ASSUME TypeOK, [Next]_vars PROVE [StoreNext]_storeVars
  OBVIOUS
<1>1. CASE Serve
  <2>1. Head(calls) \in Call
    BY <1>1 DEF Serve, TypeOK
  <2> QED
    BY <1>1, <2>1 DEF Serve, StoreNext, Call
<1>2. CASE Work \/ Return \/ Die \/ Pull
  BY <1>2 DEF Work, Return, Die, Pull, StoreNext
<1>3. ASSUME NEW d \in Data, Save(d) PROVE UNCHANGED storeVars
  BY <1>3 DEF Save, AskToSave, Ask
<1>4. CASE UNCHANGED vars
  BY <1>4 DEF vars
<1> QED
  BY <1>1, <1>2, <1>3, <1>4
     DEF Next, Steady, Open, Leave, Retry, OpenForm, CloseForm, AskDelete, CancelDelete, ConfirmDelete,
         Answer, Ask

LEMMA TypeInit == Init => TypeOK
<1> SUFFICES ASSUME Init PROVE StoreTypes /\ QueueTypes /\ PageTypes
  BY TypeParts DEF Init
<1>1. StoreTypes
  BY StoreInvInit DEF Init, StoreInv
<1>2. QueueTypes
  <2>1. calls = <<>> /\ answers = <<>>
    BY DEF Init
  <2> QED
    BY <2>1 DEF QueueTypes
<1>3. PageTypes
  BY NoContactType DEF Init, PageTypes
<1> QED
  BY <1>1, <1>2, <1>3

LEMMA TypeStep == TypeOK /\ [Next]_vars => TypeOK'
<1> SUFFICES ASSUME TypeOK, [Next]_vars PROVE TypeOK'
  OBVIOUS
<1>0. StoreTypes /\ QueueTypes /\ PageTypes
  BY TypeParts
<1>a. StoreTypes'
  <2>1. [StoreNext]_storeVars
    BY PageStep
  <2>2. CASE StoreNext
    BY <1>0, <2>2, StoreTypesStep
  <2>3. CASE UNCHANGED storeVars
    BY <1>0, <2>3 DEF storeVars, StoreTypes
  <2> QED
    BY <2>1, <2>2, <2>3
<1>b. blind' \in BOOLEAN
  <2>1. blind \in BOOLEAN /\ missed' \in BOOLEAN
    BY <1>a, TypeParts DEF StoreTypes
  <2> QED
    BY <2>1 DEF Next, Open, Work, Die, vars
<1> SUFFICES QueueTypes' /\ PageTypes'
  BY <1>a, <1>b DEF TypeOK, StoreTypes, QueueTypes, PageTypes
<1> USE DEF pageVars, queues
<1>1. CASE Open
  BY <1>0, <1>1, AskType DEF Open, PageTypes
<1>2. CASE Leave
  BY <1>0, <1>2, DisownedType, UnmountType DEF Leave, QueueTypes
<1>3. CASE Retry
  BY <1>0, <1>3, AskType DEF Retry, PageTypes
<1>4. ASSUME NEW f \in Contact \cup {"add"}, OpenForm(f) PROVE QueueTypes' /\ PageTypes'
  BY <1>0, <1>4 DEF OpenForm, QueueTypes, PageTypes
<1>5. CASE CloseForm
  BY <1>0, <1>5 DEF CloseForm, QueueTypes, PageTypes
<1>6. ASSUME NEW d \in Data, Save(d) PROVE QueueTypes' /\ PageTypes'
  <2>1. QueueTypes'
    BY <1>0, <1>6, SaveType DEF Save, PageTypes
  <2> QED
    BY <1>0, <1>6, <2>1 DEF Save, PageTypes
<1>7. ASSUME NEW c \in Contact, AskDelete(c) PROVE QueueTypes' /\ PageTypes'
  BY <1>0, <1>7 DEF AskDelete, QueueTypes, PageTypes
<1>8. CASE CancelDelete
  BY <1>0, <1>8 DEF CancelDelete, QueueTypes, PageTypes
<1>9. CASE ConfirmDelete
  <2>1. QueueTypes'
    BY <1>0, <1>9, AskType DEF ConfirmDelete, PageTypes
  <2> QED
    BY <1>0, <1>9, <2>1 DEF ConfirmDelete, PageTypes
<1>10. CASE Serve \/ Work \/ Pull
  BY <1>0, <1>10 DEF Serve, Work, Pull, QueueTypes, PageTypes
<1>11. CASE Return
  <2> DEFINE x == [req |-> op, own |-> Head(calls).own, ok |-> step = "ok",
                   got |-> IF op.do = "list" THEN mem ELSE NoContact]
  <2>a. Head(calls) \in Call
    BY <1>0, <1>11 DEF Return, QueueTypes
  <2>b. /\ op \in Request /\ Head(calls).own \in BOOLEAN /\ (step = "ok") \in BOOLEAN
        /\ (IF op.do = "list" THEN mem ELSE NoContact) \in Book
    BY <1>0, <2>a, NoContactType DEF StoreTypes, Call
  <2>1. x \in Reply
    BY <2>b DEF Reply
  <2> HIDE DEF x
  <2>2. answers' = Append(answers, x) /\ calls' = Tail(calls) /\ calls # <<>>
    BY <1>11 DEF Return, x
  <2>3. QueueTypes'
    BY <1>0, <2>1, <2>2 DEF QueueTypes
  <2> QED
    BY <1>0, <1>11, <2>3 DEF Return, PageTypes
<1>12. CASE Die
  BY <1>12, UnmountType DEF Die, QueueTypes
<1>13. CASE Answer
  <2>1. Head(answers) \in Reply
    BY <1>0, <1>13 DEF Answer, QueueTypes
  <2>2. QueueTypes'
    BY <1>0, <1>13 DEF Answer, QueueTypes
  <2>3. PageTypes'
    <3>1. CASE Head(answers).own
      BY <1>0, <1>13, <2>1, <3>1, EffectType DEF Answer
    <3>2. CASE ~Head(answers).own
      BY <1>0, <1>13, <3>2 DEF Answer, PageTypes
    <3> QED
      BY <3>1, <3>2
  <2> QED
    BY <2>2, <2>3
<1>14. CASE UNCHANGED vars
  BY <1>0, <1>14 DEF vars, QueueTypes, PageTypes
<1> QED
  BY <1>1, <1>2, <1>3, <1>4, <1>5, <1>6, <1>7, <1>8, <1>9, <1>10, <1>11, <1>12, <1>13, <1>14
     DEF Next, Steady

\* The state stays well formed.
THEOREM TypeCorrect == Spec => []TypeOK
  BY TypeInit, TypeStep, PTL DEF Spec

\* Between reading the book and replacing it nothing else gets in, so that the
\* new book is the one that was read with this one request applied (store.go,
\* Add, Update, Delete and save): the stored book, or an empty one if the stick
\* was out at the read (NewContactStore).
THEOREM OneChangeIsWritten == Spec => []WritesOneChange
<1>1. Init => TypeOK /\ StoreInv
  BY TypeInit, StoreInvInit DEF Init
<1>2. TypeOK /\ StoreInv /\ [Next]_vars => (TypeOK /\ StoreInv)'
  BY TypeStep, PageStep, StoreInvStep
<1>3. StoreInv => WritesOneChange
  BY DEF StoreInv
<1> QED
  BY <1>1, <1>2, <1>3, PTL DEF Spec

\* The page, the queue and the store together implement the promise: whatever
\* fails and wherever the app dies, a request takes effect as a whole or not
\* at all, and its answer says which.
THEOREM PromiseIsKept == Spec => KeepsPromise
<1>1. Init => TypeOK /\ StoreInv /\ Promise!CInit
  BY TypeInit, StoreInvInit, PromiseInit DEF Init
<1>2. TypeOK /\ StoreInv /\ [Next]_vars => (TypeOK /\ StoreInv)'
  BY TypeStep, PageStep, StoreInvStep
<1>3. TypeOK /\ StoreInv /\ [Next]_vars => [Promise!CNext]_(Promise!cvars)
  BY PageStep, PromiseStep
<1> QED
  BY <1>1, <1>2, <1>3, PTL DEF Spec, KeepsPromise, Promise!CSpec

-----------------------------------------------------------------------------
(***************************************************************************)
(* What the page shows is so.  The answers that wait to be handled and the *)
(* requests that wait to be served are one line: an answer takes the place *)
(* its request had, so that serving, committing and answering leave the    *)
(* order of the line alone.                                                *)
(***************************************************************************)
\* The first Back places of the line are answers.
Back == Len(answers)
Sent == Len(answers) + Len(calls)

Asked == [k \in 1..Sent |-> IF k <= Back THEN answers[k].req ELSE calls[k - Back].req]

\* The places whose page is still open, and those carried out with success.
Mine == {k \in 1..Sent : (k <= Back /\ answers[k].own) \/ (k > Back /\ calls[k - Back].own)}
Took == {k \in 1..Sent : (k <= Back /\ answers[k].ok) \/ (k = Back + 1 /\ step = "ok")}

Got == [k \in 1..Sent |-> IF k <= Back THEN answers[k].got ELSE mem]

\* News that the page has not been told yet.
Changes(k, c) == k \in Mine \cap Took /\ Asked[k].c = c
GivesList(k) == k \in Mine \cap Took /\ Asked[k].do = "list"

Waiting(kinds) == {k \in Mine : Asked[k].do \in kinds}

\* The worker serves the first request that has no answer.
ServesFirst ==
    /\ step # "idle" => Back < Sent /\ op = Asked[Back + 1]
    /\ step \in {"changed", "written"} => op.do # "list"

\* A request that met no stick is remembered.
MissIsKnown == missed => blind

IsWhole(r) ==
    /\ r.do = "list" => r.c = None
    /\ r.do # "list" => r.c \in Contact
    /\ r.do \in {"add", "update"} => r.d \in Data
RequestsAreWhole == \A k \in 1..Sent : IsWhole(Asked[k])

\* The requests of a page that was left are ahead of those of the next one.
InOrder == \A i, j \in 1..Sent : i < j /\ i \in Mine => j \in Mine

\* As long as any of them is left, the new page has no list.
NewPageIsEmpty ==
    /\ ~mounted => Mine = {} /\ form = "closed" /\ target = None
    /\ ~mounted \/ (\E k \in 1..Sent : k \notin Mine) => shown = NoContact /\ ~fetched

OneOverlay == (target # None => form = "closed") /\ (deleting => target # None)

\* The dialog covers the page until its deletion is answered.
DeleteIsLast == \A k \in Waiting({"delete"}) : k = Sent /\ Asked[k].c = target

Waits ==
    /\ saving <=> Waiting({"add", "update"}) # {}
    /\ deleting <=> Waiting({"delete"}) # {}
    /\ \A i, j \in Waiting({"add", "update"}) : i = j

\* What the user edits or deletes stays on the list until the answer is there.
Touched(c) ==
    \/ form = c \/ target = c
    \/ \E k \in Waiting({"update", "delete"}) : Asked[k].c = c
TouchedIsShown == blind \/ \A c \in Contact : Touched(c) => shown[c] # None

\* A contact that the page shows, or is about to show, is stored, unless the
\* page's own deletion took it; and every list still to come names it.
IsDeleted(c) == \E k \in Waiting({"delete"}) : Changes(k, c)
Gives(k, c) ==
    \/ GivesList(k) /\ Got[k][c] # None
    \/ Changes(k, c) /\ Asked[k].do \in {"add", "update"}
ShownIsThere ==
    blind \/ \A c \in Contact :
      /\ shown[c] # None => \A j \in 1..Sent : GivesList(j) => Got[j][c] # None
      /\ \A i, j \in 1..Sent : i < j /\ Gives(i, c) /\ GivesList(j) => Got[j][c] # None
      /\ shown[c] # None \/ (\E i \in 1..Sent : Gives(i, c)) => file[c] # None \/ IsDeleted(c)

\* The last news of a contact is what the file says: the last change that the
\* page has not been told, a list with no change behind it, or else the page.
\* With a stick that was out either may lack the contact.
Rests(c, i) == \A j \in 1..Sent : i < j => ~Changes(j, c)
Agree(x, y) == x = y \/ (blind /\ None \in {x, y})
RestIsShown ==
    \A c \in Contact :
      mounted /\ Rests(c, 0) => Agree(shown[c], file[c]) \/ (shown[c] = None /\ ~fetched)
ChangeIsStored ==
    \A c \in Contact, i \in 1..Sent :
      Changes(i, c) /\ Rests(c, i) =>
          Agree(IF Asked[i].do = "delete" THEN None ELSE Asked[i].d, file[c])
ListIsTrue ==
    \A c \in Contact, i \in 1..Sent :
      GivesList(i) /\ Rests(c, i) => Agree(Got[i][c], file[c])

\* What is still to be edited or deleted is stored, and will be when its turn
\* comes: nothing behind a deletion edits or deletes the same contact.
DeletedOnce ==
    \A i, j \in (Back + 1)..Sent :
        i < j /\ Asked[i].do = "delete" /\ Asked[j].c = Asked[i].c => Asked[j].do = "add"
StillThere ==
    \A k \in (Back + 1)..Sent : Asked[k].do \in {"update", "delete"} =>
        file[Asked[k].c] # None \/ (k = Back + 1 /\ step = "ok" /\ Asked[k].do = "delete")
NothingIsGone == blind \/ (DeletedOnce /\ StillThere)

LineInv ==
    /\ ServesFirst /\ MissIsKnown /\ RequestsAreWhole /\ InOrder
    /\ NewPageIsEmpty /\ OneOverlay /\ DeleteIsLast /\ Waits /\ TouchedIsShown /\ ShownIsThere
    /\ RestIsShown /\ ChangeIsStored /\ ListIsTrue /\ NothingIsGone

PageInv == TypeOK /\ StoreInv /\ LineInv

-----------------------------------------------------------------------------
\* What is left of a queue when its head is taken.
LEMMA TailFacts ==
    ASSUME NEW S, NEW q \in Seq(S), q # <<>>
    PROVE  /\ Len(q) \in Nat /\ Len(q) >= 1
           /\ Head(q) \in S /\ Head(q) = q[1]
           /\ Tail(q) \in Seq(S)
           /\ Len(Tail(q)) = Len(q) - 1
           /\ \A i \in 1..Len(Tail(q)) : Tail(q)[i] = q[i + 1] /\ i + 1 \in 1..Len(q)
<1>1. Len(q) \in Nat /\ Len(q) >= 1
    OBVIOUS
<1>2. Head(q) \in S /\ Head(q) = q[1]
    OBVIOUS
<1>3. Tail(q) \in Seq(S) /\ Len(Tail(q)) = Len(q) - 1
    OBVIOUS
<1>4. \A i \in 1..Len(Tail(q)) : Tail(q)[i] = q[i + 1]
    OBVIOUS
<1>5. \A i \in 1..Len(Tail(q)) : i + 1 \in 1..Len(q)
    BY <1>1, <1>3
<1> QED
    BY <1>1, <1>2, <1>3, <1>4, <1>5

\* What a queue holds when something was appended.
LEMMA AppendFacts ==
    ASSUME NEW S, NEW q \in Seq(S), NEW x \in S
    PROVE  /\ Len(q) \in Nat
           /\ Append(q, x) \in Seq(S)
           /\ Len(Append(q, x)) = Len(q) + 1
           /\ \A i \in 1..Len(q) : Append(q, x)[i] = q[i]
           /\ Append(q, x)[Len(q) + 1] = x
           /\ q = <<>> <=> Len(q) = 0
    OBVIOUS

\* The line is well formed.
LEMMA LineTypes ==
  ASSUME StoreTypes, QueueTypes
  PROVE  /\ Back \in Nat /\ Sent \in Nat /\ Back <= Sent
         /\ Mine \subseteq 1..Sent /\ Took \subseteq 1..Sent
         /\ \A k \in 1..Sent : Asked[k] \in Request /\ Got[k] \in Book
<1> USE DEF StoreTypes, QueueTypes, Back, Sent
<1>1. /\ Len(answers) \in Nat /\ Len(calls) \in Nat
      /\ \A i \in 1..Len(answers) : answers[i] \in Reply
      /\ \A i \in 1..Len(calls) : calls[i] \in Call
  OBVIOUS
<1>2. Back \in Nat /\ Sent \in Nat /\ Back <= Sent
  BY <1>1
<1>3. ASSUME NEW k \in 1..Sent
      PROVE  /\ k <= Back => answers[k] \in Reply
             /\ ~(k <= Back) => calls[k - Back] \in Call
  BY <1>1
<1>4. ASSUME NEW k \in 1..Sent
      PROVE  Asked[k] \in Request /\ Got[k] \in Book
  <2>1. CASE k <= Back
    BY <1>3, <2>1 DEF Asked, Got, Reply
  <2>2. CASE ~(k <= Back)
    BY <1>3, <2>2 DEF Asked, Got, Call
  <2> QED
    BY <2>1, <2>2
<1> QED
  BY <1>2, <1>4 DEF Mine, Took

\* A request is sent: the line grows by one place at its end.
LEMMA LineGrows ==
  ASSUME StoreTypes, QueueTypes, ServesFirst, NEW x \in Call,
         calls' = Append(calls, x), UNCHANGED <<storeVars, answers>>
  PROVE  /\ Back' = Back /\ Sent' = Sent + 1
         /\ \A k \in 1..Sent : /\ Asked'[k] = Asked[k] /\ (k \in Mine' <=> k \in Mine)
                               /\ (k \in Took' <=> k \in Took) /\ Got'[k] = Got[k]
         /\ Asked'[Sent + 1] = x.req /\ (Sent + 1 \in Mine' <=> x.own) /\ Sent + 1 \notin Took'
<1>1. /\ Len(answers) \in Nat /\ Len(calls) \in Nat
      /\ Len(calls') = Len(calls) + 1
      /\ \A i \in 1..Len(calls) : calls'[i] = calls[i]
      /\ calls'[Len(calls) + 1] = x
  BY AppendFacts DEF QueueTypes
<1>2. Back' = Back /\ Sent' = Sent + 1 /\ Back = Len(answers) /\ Sent = Len(answers) + Len(calls)
  BY <1>1 DEF Back, Sent
<1>3. \A k \in 1..Sent : ~(k <= Back) => calls'[k - Back] = calls[k - Back]
  BY <1>1, <1>2
<1>4. step' = step /\ mem' = mem /\ answers' = answers
  BY DEF storeVars
<1>5. ASSUME NEW k \in 1..Sent
      PROVE  /\ Asked'[k] = Asked[k] /\ (k \in Mine' <=> k \in Mine)
             /\ (k \in Took' <=> k \in Took) /\ Got'[k] = Got[k]
  BY <1>1, <1>2, <1>3, <1>4 DEF Asked, Mine, Took, Got
<1>6. Sent + 1 \in 1..Sent' /\ ~(Sent + 1 <= Back') /\ calls'[Sent + 1 - Back'] = x
  BY <1>1, <1>2
<1>a. Back \in Nat /\ Sent \in Nat
  BY <1>1, <1>2
<1>7. ~(Sent + 1 = Back' + 1 /\ step' = "ok")
  <2>1. step = "ok" => Back < Sent
    BY DEF ServesFirst
  <2> QED
    BY <1>2, <1>4, <1>a, <2>1
<1>8. Asked'[Sent + 1] = x.req
  BY <1>2, <1>6, <1>a DEF Asked
<1>9. Sent + 1 \in Mine' <=> x.own
  BY <1>2, <1>6, <1>a DEF Mine
<1>10. Sent + 1 \notin Took'
  BY <1>6, <1>7 DEF Took
<1> QED
  BY <1>2, <1>5, <1>8, <1>9, <1>10

\* The worker works on: the line stays, its first unanswered place may be
\* carried out.
LEMMA LineWaits ==
  ASSUME StoreTypes, QueueTypes, UNCHANGED queues
  PROVE  /\ Back' = Back /\ Sent' = Sent /\ Asked' = Asked /\ Mine' = Mine
         /\ \A k \in 1..Sent :
               /\ k # Back + 1 => (k \in Took' <=> k \in Took)
               /\ k = Back + 1 => (k \in Took <=> (step = "ok")) /\ (k \in Took' <=>
                     (step' = "ok"))
               /\ k \in Took /\ k \in Took' /\ mem' = mem => Got'[k] = Got[k]
               /\ k <= Back => Got'[k] = Got[k]
               /\ k = Back + 1 => Got'[k] = mem'
<1>1. Back' = Back /\ Sent' = Sent /\ Back \in Nat
  BY DEF Back, Sent, queues, QueueTypes
<1>2. calls' = calls /\ answers' = answers
  BY DEF queues
<1>3. Asked' = Asked /\ Mine' = Mine
  BY <1>1, <1>2 DEF Asked, Mine
<1>4. ASSUME NEW k \in 1..Sent
      PROVE  /\ k # Back + 1 => (k \in Took' <=> k \in Took)
             /\ k = Back + 1 => (k \in Took <=> (step = "ok")) /\ (k \in Took' <=> (step' = "ok"))
             /\ k \in Took /\ k \in Took' /\ mem' = mem => Got'[k] = Got[k]
             /\ k <= Back => Got'[k] = Got[k]
             /\ k = Back + 1 => Got'[k] = mem'
  BY <1>1, <1>2 DEF Took, Got
<1> QED
  BY <1>1, <1>3, <1>4

\* An answer is returned: nothing changes but where the answers end.
LEMMA LineMoves ==
  ASSUME StoreTypes, QueueTypes, ServesFirst, Return
  PROVE  /\ Back' = Back + 1 /\ Sent' = Sent
         /\ \A k \in 1..Sent :
               /\ Asked'[k] = Asked[k]
               /\ (k \in Mine' <=> k \in Mine) /\ (k \in Took' <=> k \in Took)
               /\ k \in Took /\ Asked[k].do = "list" => Got'[k] = Got[k]
<1> DEFINE x == [req |-> op, own |-> Head(calls).own, ok |-> step = "ok",
                 got |-> IF op.do = "list" THEN mem ELSE NoContact]
<1>a. /\ calls # <<>> /\ calls \in Seq(Call) /\ answers \in Seq(Reply)
      /\ op \in Request /\ mem \in Book
  BY DEF Return, QueueTypes, StoreTypes
<1>1. /\ Len(calls) \in Nat /\ Len(calls) >= 1
      /\ Head(calls) \in Call /\ Head(calls) = calls[1]
      /\ Len(Tail(calls)) = Len(calls) - 1
      /\ \A i \in 1..Len(Tail(calls)) : Tail(calls)[i] = calls[i + 1]
  BY <1>a, TailFacts
<1>2. x \in Reply
  BY <1>a, <1>1, NoContactType DEF Reply, Call
<1>3. x.req = op /\ x.own = calls[1].own /\ x.ok = (step = "ok") /\ (op.do = "list" =>
         x.got = mem)
  BY <1>1
<1>4. calls' = Tail(calls) /\ answers' = Append(answers, x) /\ step # "idle" /\ step' # "ok"
  BY DEF Return, Finish
<1> HIDE DEF x
<1>5. /\ Len(answers) \in Nat /\ Len(answers') = Len(answers) + 1
      /\ \A i \in 1..Len(answers) : answers'[i] = answers[i]
      /\ answers'[Len(answers) + 1] = x
  BY <1>a, <1>2, <1>4, AppendFacts
<1>b. /\ Len(calls') = Len(calls) - 1
  BY <1>1, <1>4
<1>c. Back' = Back + 1 /\ Back = Len(answers) /\ Sent = Back + Len(calls) /\ Sent' = Sent
  BY <1>1, <1>b, <1>5 DEF Back, Sent
<1>6. /\ Back' = Back + 1 /\ Sent' = Sent /\ Back = Len(answers) /\ Sent = Back + Len(calls)
      /\ Back \in Nat /\ Sent \in Nat /\ Back + 1 \in 1..Sent
  BY <1>1, <1>5, <1>c
<1>7. op = Asked[Back + 1] /\ Asked[Back + 1] = calls[1].req /\ (Back + 1 \in Mine <=>
         calls[1].own)
      /\ (Back + 1 \in Took <=> (step = "ok")) /\ Got[Back + 1] = mem
  BY <1>4, <1>6 DEF ServesFirst, Asked, Mine, Took, Got
<1>8. ASSUME NEW k \in 1..Sent
      PROVE  /\ Asked'[k] = Asked[k] /\ (k \in Mine' <=> k \in Mine) /\ (k \in Took' <=>
                   k \in Took)
             /\ k \in Took /\ Asked[k].do = "list" => Got'[k] = Got[k]
  <2>1. CASE k <= Back
    BY <1>5, <1>6, <2>1 DEF Asked, Mine, Took, Got
  <2>2. CASE k = Back + 1
    <3>1. answers'[k] = x /\ k <= Back' /\ k \in 1..Sent' /\ k # Back' + 1 /\ ~(k > Back')
      BY <1>5, <1>6, <2>2
    <3>2. Asked'[k] = x.req /\ Got'[k] = x.got
      BY <3>1 DEF Asked, Got
    <3>3. k \in Mine' <=> x.own
      BY <3>1 DEF Mine
    <3>4. k \in Took' <=> x.ok
      BY <3>1 DEF Took
    <3> QED
      BY <1>3, <1>7, <2>2, <3>2, <3>3, <3>4
  <2>3. CASE k > Back + 1
    <3>1. calls'[k - Back'] = calls[k - Back]
      BY <1>1, <1>4, <1>6, <2>3
    <3>2. Asked'[k] = Asked[k] /\ (k \in Mine' <=> k \in Mine)
      BY <1>6, <2>3, <3>1 DEF Asked, Mine
    <3>3. k \notin Took'
      BY <1>4, <1>6, <2>3 DEF Took
    <3>4. k \notin Took
      BY <1>6, <2>3 DEF Took
    <3> QED
      BY <1>4, <1>6, <2>3, <3>2, <3>3, <3>4
  <2> QED
    BY <1>6, <2>1, <2>2, <2>3
<1> QED
  BY <1>6, <1>8

\* An answer is handled: every place moves up by one.
LEMMA LineShifts ==
  ASSUME StoreTypes, QueueTypes, Answer
  PROVE  /\ Back >= 1 /\ Back' = Back - 1 /\ Sent' = Sent - 1
         /\ \A k \in 1..Sent' :
               /\ Asked'[k] = Asked[k + 1]
               /\ (k \in Mine' <=> k + 1 \in Mine) /\ (k \in Took' <=> k + 1 \in Took)
               /\ Got'[k] = Got[k + 1]
         /\ Head(answers) \in Reply
         /\ Asked[1] = Head(answers).req /\ (1 \in Mine <=> Head(answers).own)
         /\ (1 \in Took <=> Head(answers).ok) /\ Got[1] = Head(answers).got
<1>a. /\ answers # <<>> /\ answers \in Seq(Reply) /\ answers' = Tail(answers)
      /\ calls \in Seq(Call)
      /\ UNCHANGED <<storeVars, calls>>
  BY DEF Answer, QueueTypes
<1>1. /\ Len(answers) \in Nat /\ Len(answers) >= 1
      /\ Head(answers) \in Reply /\ Head(answers) = answers[1]
      /\ Len(answers') = Len(answers) - 1
      /\ \A i \in 1..Len(answers') : answers'[i] = answers[i + 1]
  BY <1>a, TailFacts
<1>2. /\ Back' = Back - 1 /\ Sent' = Sent - 1 /\ Back = Len(answers) /\ Back \in Nat /\ Back >= 1
      /\ Sent \in Nat /\ Sent = Back + Len(calls) /\ 1 \in 1..Sent
  BY <1>a, <1>1 DEF Back, Sent
<1>3. /\ Asked[1] = Head(answers).req /\ (1 \in Mine <=> Head(answers).own)
      /\ (1 \in Took <=> Head(answers).ok) /\ Got[1] = Head(answers).got
  BY <1>1, <1>2 DEF Asked, Mine, Took, Got
<1>4. step' = step /\ mem' = mem /\ calls' = calls
  BY <1>a DEF storeVars
<1>5. ASSUME NEW k \in 1..Sent'
      PROVE  /\ Asked'[k] = Asked[k + 1]
             /\ (k \in Mine' <=> k + 1 \in Mine) /\ (k \in Took' <=> k + 1 \in Took)
             /\ Got'[k] = Got[k + 1]
  <2>1. k + 1 \in 1..Sent
    BY <1>2
  <2>2. CASE k <= Back'
    <3>1. k + 1 <= Back /\ answers'[k] = answers[k + 1] /\ k # Back' + 1 /\ k + 1 # Back + 1
          /\ ~(k > Back') /\ ~(k + 1 > Back)
      BY <1>1, <1>2, <2>2
    <3>2. Asked'[k] = Asked[k + 1] /\ Got'[k] = Got[k + 1]
      BY <2>1, <2>2, <3>1 DEF Asked, Got
    <3>3. k \in Mine' <=> k + 1 \in Mine
      BY <2>1, <2>2, <3>1 DEF Mine
    <3>4. k \in Took' <=> k + 1 \in Took
      BY <2>1, <2>2, <3>1 DEF Took
    <3> QED
      BY <3>2, <3>3, <3>4
  <2>3. CASE ~(k <= Back')
    <3>a. k \in Int /\ Back \in Int /\ Back' \in Int /\ Sent \in Int /\ Sent' \in Int
      BY <1>2
    <3>1. ~(k + 1 <= Back) /\ k - Back' = k + 1 - Back /\ (k = Back' + 1 <=> k + 1 = Back + 1)
      BY <1>2, <2>3
    <3>d. calls'[k - Back'].req = calls[k + 1 - Back].req
      BY <1>4, <3>1
    <3>e. Asked'[k] = Asked[k + 1]
      BY <2>1, <2>3, <3>a, <3>1, <3>d DEF Asked
    <3>2. Got'[k] = Got[k + 1]
      BY <1>4, <2>1, <2>3, <3>1 DEF Got
    <3>b. calls'[k - Back'].own = calls[k + 1 - Back].own
      BY <1>4, <3>1
    <3>c. k > Back' /\ k + 1 > Back
      BY <2>3, <3>a, <3>1
    <3>3. k \in Mine' <=> k + 1 \in Mine
      BY <2>1, <3>a, <3>b, <3>c DEF Mine
    <3>4. k \in Took' <=> k + 1 \in Took
      BY <1>4, <2>1, <2>3, <3>a, <3>1 DEF Took
    <3> QED
      BY <3>2, <3>3, <3>4, <3>e
  <2> QED
    BY <2>2, <2>3
<1> QED
  BY <1>1, <1>2, <1>3, <1>5

\* Nothing is on its way and nothing is shown.
LEMMA LineInvInit == Init => LineInv
<1> SUFFICES ASSUME Init PROVE LineInv
  OBVIOUS
<1>1. Back = 0 /\ Sent = 0
  BY DEF Init, Back, Sent
<1>2. Mine = {}
  BY <1>1 DEF Mine
<1>3. 1..Sent = {} /\ (Back + 1)..Sent = {}
  BY <1>1
<1>4. /\ step = "idle" /\ ~mounted /\ shown = NoContact /\ ~fetched /\ form = "closed"
      /\ target = None /\ ~saving /\ ~deleting /\ file = NoContact /\ ~missed
  BY DEF Init, StoreInit
<1>5. ServesFirst /\ RequestsAreWhole /\ InOrder /\ MissIsKnown
  BY <1>3, <1>4 DEF ServesFirst, RequestsAreWhole, InOrder, MissIsKnown
<1>6. NewPageIsEmpty /\ OneOverlay
  BY <1>2, <1>4 DEF NewPageIsEmpty, OneOverlay
<1>7. DeleteIsLast /\ Waits
  BY <1>2, <1>4 DEF DeleteIsLast, Waits, Waiting
<1>8. TouchedIsShown
  BY <1>2, <1>4, ContactAssumption, FormAssumption DEF TouchedIsShown, Touched, Waiting
<1>9. ShownIsThere /\ RestIsShown
  BY <1>3, <1>4 DEF ShownIsThere, RestIsShown, Agree, NoContact, Promise!NoContact
<1>10. ChangeIsStored /\ ListIsTrue /\ NothingIsGone
  BY <1>3 DEF ChangeIsStored, ListIsTrue, NothingIsGone, DeletedOnce, StillThere
<1> QED
  BY <1>5, <1>6, <1>7, <1>8, <1>9, <1>10 DEF LineInv

\* The user looks at the page.
LEMMA LineStays ==
  ASSUME UNCHANGED queues, UNCHANGED <<step, mem>>
  PROVE  /\ Back' = Back /\ Sent' = Sent /\ Asked' = Asked /\ Mine' = Mine /\ Took' = Took
         /\ Got' = Got
  BY DEF queues, Back, Sent, Asked, Mine, Took, Got

\* The form or the dialog opens or closes.
LEMMA LookStep ==
  ASSUME PageInv, UNCHANGED <<file, mem, op, step, missed, blind, queues>>,
         UNCHANGED <<mounted, shown, fetched, saving, deleting>>, mounted, OneOverlay',
         form' \in {form, "closed", "add"} \/ shown[form'] # None,
         target' = target \/ (~deleting /\ (target' = None \/ shown[target'] # None))
  PROVE  LineInv'
<1> USE DEF PageInv, LineInv
<1>1. /\ Back' = Back /\ Sent' = Sent /\ Asked' = Asked /\ Mine' = Mine /\ Took' = Took
      /\ Got' = Got
  BY LineStays
<1>2. /\ step' = step /\ op' = op /\ file' = file /\ mounted' = mounted /\ shown' = shown
      /\ fetched' = fetched /\ saving' = saving /\ deleting' = deleting /\ blind' = blind
      /\ missed' = missed
  OBVIOUS
<1> USE <1>1, <1>2
<1>3. ServesFirst' /\ MissIsKnown'
  BY DEF ServesFirst, MissIsKnown
<1>4. RequestsAreWhole' /\ InOrder'
  BY DEF RequestsAreWhole, InOrder
<1>5. NewPageIsEmpty'
  BY DEF NewPageIsEmpty
<1>6. DeleteIsLast'
  BY DEF DeleteIsLast, Waits, Waiting
<1>7. Waits'
  BY DEF Waits, Waiting
<1>8. TouchedIsShown'
  BY FormAssumption, ContactAssumption DEF TouchedIsShown, Touched, Waiting
<1>9. ShownIsThere'
  BY DEF ShownIsThere, IsDeleted, Gives, GivesList, Changes, Waiting
<1>10. RestIsShown' /\ ChangeIsStored' /\ ListIsTrue'
  BY DEF RestIsShown, ChangeIsStored, ListIsTrue, Agree, Rests, Changes, GivesList
<1>11. NothingIsGone'
  BY DEF NothingIsGone, DeletedOnce, StillThere
<1> QED
  BY <1>3, <1>4, <1>5, <1>6, <1>7, <1>8, <1>9, <1>10, <1>11

\* Nothing the page waits for, or shows, is about to be deleted, unless its
\* own deletion is under way.
LEMMA ShownIsStoredYet ==
  ASSUME PageInv, ~deleting, ~blind, NEW c \in Contact, shown[c] # None
  PROVE  file[c] # None
<1>1. Waiting({"delete"}) = {}
  BY DEF PageInv, LineInv, Waits
<1> QED
  BY <1>1 DEF PageInv, LineInv, ShownIsThere, IsDeleted

\* The page asks for something.
LEMMA AskStep ==
  ASSUME PageInv, NEW x \in Call, x.own = TRUE, IsWhole(x.req),
         calls' = Append(calls, x), UNCHANGED <<storeVars, answers, blind>>,
         mounted', UNCHANGED <<shown, fetched, form, target>>, ~deleting,
         deleting' = (x.req.do = "delete"),
         x.req.do \in {"add", "update"} => ~saving,
         saving' = (saving \/ x.req.do \in {"add", "update"}),
         x.req.do = "delete" => x.req.c = target,
         x.req.do \in {"update", "delete"} => blind \/ shown[x.req.c] # None
  PROVE  LineInv'
<1> USE DEF PageInv, LineInv
<1>a. StoreTypes /\ QueueTypes
  BY TypeParts
<1>1. /\ Back \in Nat /\ Sent \in Nat /\ Back <= Sent
      /\ Mine \subseteq 1..Sent /\ Took \subseteq 1..Sent
  BY <1>a, LineTypes
<1>2. /\ Back' = Back /\ Sent' = Sent + 1
      /\ \A k \in 1..Sent : /\ Asked'[k] = Asked[k] /\ (k \in Mine' <=> k \in Mine)
                            /\ (k \in Took' <=> k \in Took) /\ Got'[k] = Got[k]
      /\ Asked'[Sent + 1] = x.req /\ (Sent + 1 \in Mine' <=> x.own) /\ Sent + 1 \notin Took'
  BY <1>a, LineGrows
<1>3. /\ Mine' \subseteq 1..Sent' /\ Took' \subseteq 1..Sent'
  BY DEF Mine, Took
<1>4. /\ step' = step /\ op' = op /\ file' = file /\ missed' = missed /\ blind' = blind
  BY DEF storeVars
<1>5. \A k \in 1..Sent' : k \in 1..Sent \/ k = Sent + 1
  BY <1>1, <1>2
<1>6. Mine' = Mine \cup {Sent + 1} /\ Took' = Took
  BY <1>1, <1>2, <1>3, <1>5
<1>7. Sent + 1 \notin Mine /\ Sent + 1 \notin Took
  BY <1>1
<1>8. \A k \in Mine : Asked'[k] = Asked[k] /\ Got'[k] = Got[k]
  BY <1>1, <1>2
<1>9. x.req.do \in {"list", "add", "update", "delete"} /\ x.req.c \in Contact \cup {None}
  BY RequestFields DEF Call
<1>10. Waiting({"delete"}) = {}
  BY DEF Waits
<1>b. ServesFirst' /\ MissIsKnown'
  BY <1>1, <1>2, <1>4 DEF ServesFirst, MissIsKnown
<1>c. RequestsAreWhole'
  BY <1>2, <1>5 DEF RequestsAreWhole
<1>d. InOrder'
  BY <1>1, <1>2, <1>5, <1>6 DEF InOrder
<1>e. NewPageIsEmpty'
  BY <1>2, <1>5, <1>6 DEF NewPageIsEmpty
<1>f. OneOverlay'
  BY <1>9, ContactAssumption DEF OneOverlay, IsWhole
<1>g. DeleteIsLast'
  BY <1>2, <1>6, <1>8, <1>10 DEF DeleteIsLast, Waiting
<1>h. Waits'
  <2>1. Waiting({"delete"})' = {k \in {Sent + 1} : x.req.do = "delete"}
    BY <1>2, <1>6, <1>8, <1>10 DEF Waiting
  <2>2. Waiting({"add", "update"})' =
           Waiting({"add", "update"}) \cup {k \in {Sent + 1} : x.req.do \in {"add", "update"}}
    BY <1>2, <1>6, <1>8 DEF Waiting
  <2> QED
    BY <2>1, <2>2 DEF Waits
<1>i. TouchedIsShown'
  BY <1>2, <1>4, <1>6, <1>8 DEF TouchedIsShown, Touched, Waiting
<1>j. \A k, c : Changes(k, c)' <=> Changes(k, c)
  BY <1>6, <1>7, <1>8 DEF Changes
<1>k. \A k : GivesList(k)' <=> GivesList(k)
  BY <1>6, <1>7, <1>8 DEF GivesList
<1>l. \A k : GivesList(k) => k \in 1..Sent /\ Got'[k] = Got[k]
  BY <1>1, <1>8 DEF GivesList
<1>m. \A k, c : Changes(k, c) => k \in 1..Sent /\ Asked'[k] = Asked[k]
  BY <1>1, <1>8 DEF Changes
<1>n. ShownIsThere'
  <2>1. \A k, c : Gives(k, c)' <=> Gives(k, c)
    BY <1>j, <1>k, <1>l, <1>m DEF Gives
  <2>2. \A k, c : Gives(k, c) => k \in 1..Sent
    BY <1>l, <1>m DEF Gives
  <2>3. \A c \in Contact : ~IsDeleted(c)
    BY <1>10 DEF IsDeleted
  <2> QED
    BY <1>4, <1>k, <1>l, <2>1, <2>2, <2>3 DEF ShownIsThere
<1>o. \A c, i : Rests(c, i)' <=> Rests(c, i)
  BY <1>j, <1>m, <1>5, <1>2, <1>1 DEF Rests
<1>p. RestIsShown'
  <2>1. CASE mounted
    BY <1>4, <1>o, <2>1 DEF RestIsShown, Agree
  <2>2. CASE ~mounted
    BY <2>2 DEF RestIsShown, NewPageIsEmpty, NoContact, Promise!NoContact
  <2> QED
    BY <2>1, <2>2
<1>q. ChangeIsStored'
  BY <1>4, <1>j, <1>m, <1>o DEF ChangeIsStored, Agree
<1>r. ListIsTrue'
  BY <1>4, <1>k, <1>l, <1>o DEF ListIsTrue, Agree
<1>s. NothingIsGone'
  <2> SUFFICES ASSUME ~blind PROVE DeletedOnce' /\ StillThere'
    BY <1>4 DEF NothingIsGone
  <2> USE DEF DeletedOnce, StillThere
  <2>1. \A k \in (Back' + 1)..Sent' : k \in (Back + 1)..Sent \/ k = Sent + 1
    BY <1>1, <1>2
  <2>2. \A k \in (Back + 1)..Sent : Asked'[k] = Asked[k] /\ k \in 1..Sent
    BY <1>1, <1>2
  <2>3. x.req.do \in {"update", "delete"} => file[x.req.c] # None
    BY ShownIsStoredYet DEF IsWhole
  <2>4. ASSUME NEW i \in (Back + 1)..Sent, Asked[i].do = "delete", x.req.c = Asked[i].c
        PROVE  x.req.do = "add"
    <3>1. Asked[i].c \in Contact
      BY <2>2, <2>4 DEF RequestsAreWhole, IsWhole
    <3>2. i \notin Mine
      BY <1>10, <2>4 DEF Waiting
    <3>3. shown = NoContact
      BY <2>2, <3>2 DEF NewPageIsEmpty
    <3> QED
      BY <1>9, <2>4, <3>1, <3>3, ContactAssumption DEF IsWhole, NoContact, Promise!NoContact
  <2>5. Back' = Back
    BY <1>2
  <2>6. ASSUME NEW i \in (Back + 1)..Sent', NEW j \in (Back + 1)..Sent', i < j,
               Asked'[i].do = "delete", Asked'[j].c = Asked'[i].c
        PROVE  Asked'[j].do = "add"
    <3>1. i \in (Back + 1)..Sent
      BY <1>1, <1>2, <2>6
    <3>2. CASE j = Sent + 1
      BY <1>2, <2>2, <2>4, <2>6, <3>1, <3>2
    <3>3. CASE j \in (Back + 1)..Sent
      BY <2>2, <2>6, <3>1, <3>3 DEF NothingIsGone
    <3> QED
      BY <2>1, <2>5, <3>2, <3>3
  <2>7. ASSUME NEW k \in (Back + 1)..Sent', Asked'[k].do \in {"update", "delete"}
        PROVE  file[Asked'[k].c] # None
             \/ (k = Back + 1 /\ step = "ok" /\ Asked'[k].do = "delete")
    <3>1. CASE k = Sent + 1
      BY <1>2, <2>3, <2>7, <3>1
    <3>2. CASE k \in (Back + 1)..Sent
      BY <2>2, <2>7, <3>2 DEF NothingIsGone
    <3> QED
      BY <2>1, <2>5, <3>1, <3>2
  <2> QED
    BY <1>4, <2>5, <2>6, <2>7 DEF NothingIsGone
<1> QED
  BY <1>b, <1>c, <1>d, <1>e, <1>f, <1>g, <1>h, <1>i, <1>n, <1>p, <1>q, <1>r, <1>s

-----------------------------------------------------------------------------
\* The page is left: what it asked for goes on without it.
LEMMA LeaveStep ==
  ASSUME PageInv, Leave, UNCHANGED blind
  PROVE  LineInv'
<1> USE DEF PageInv, LineInv
<1>a. StoreTypes /\ QueueTypes
  BY TypeParts
<1>b. /\ calls \in Seq(Call) /\ answers \in Seq(Reply)
      /\ calls' = Disowned(calls) /\ answers' = Disowned(answers)
      /\ Len(calls') = Len(calls) /\ Len(answers') = Len(answers)
      /\ Len(calls) \in Nat /\ Len(answers) \in Nat
  BY <1>a, DisownedType DEF Leave, QueueTypes
<1>c. /\ \A i \in 1..Len(calls) : calls'[i].req = calls[i].req /\ calls'[i].own = FALSE
      /\ \A i \in 1..Len(answers) : answers'[i].req = answers[i].req /\ answers'[i].own = FALSE
  BY <1>b DEF Disowned, Call, Reply
<1>1. /\ Back \in Nat /\ Sent \in Nat /\ Back' = Back /\ Sent' = Sent
      /\ Back = Len(answers) /\ Sent = Len(answers) + Len(calls)
  BY <1>b DEF Back, Sent
<1>2. Asked' = Asked
  <2>1. ASSUME NEW k \in 1..Sent PROVE Asked'[k] = Asked[k]
    BY <1>1, <1>c, <2>1 DEF Asked
  <2> QED
    BY <1>1, <2>1 DEF Asked
<1>3. Mine' = {}
  BY <1>1, <1>c DEF Mine
<1>4. /\ step' = step /\ op' = op /\ file' = file /\ mounted' = FALSE /\ shown' = NoContact
      /\ fetched' = FALSE /\ form' = "closed" /\ saving' = FALSE /\ target' = None
      /\ deleting' = FALSE /\ missed' = missed
  BY DEF Leave, Unmount, storeVars
<1> HIDE DEF Leave
<1>5. ServesFirst' /\ MissIsKnown'
  BY <1>1, <1>2, <1>4 DEF ServesFirst, MissIsKnown
<1>6. RequestsAreWhole' /\ InOrder'
  BY <1>1, <1>2, <1>3 DEF RequestsAreWhole, InOrder
<1>7. NewPageIsEmpty' /\ OneOverlay'
  BY <1>3, <1>4 DEF NewPageIsEmpty, OneOverlay
<1>8. DeleteIsLast' /\ Waits'
  BY <1>3, <1>4 DEF DeleteIsLast, Waits, Waiting
<1>9. TouchedIsShown'
  BY <1>3, <1>4, FormAssumption, ContactAssumption DEF TouchedIsShown, Touched, Waiting
<1>10. ShownIsThere' /\ RestIsShown'
  BY <1>3, <1>4
     DEF ShownIsThere, Gives, GivesList, Changes, RestIsShown, Agree, NoContact,
         Promise!NoContact
<1>11. ChangeIsStored' /\ ListIsTrue'
  BY <1>3 DEF ChangeIsStored, ListIsTrue, Changes, GivesList
<1>12. NothingIsGone'
  BY <1>1, <1>2, <1>4 DEF NothingIsGone, DeletedOnce, StillThere
<1> QED
  BY <1>5, <1>6, <1>7, <1>8, <1>9, <1>10, <1>11, <1>12

\* The app dies.
LEMMA DieStep == Die => LineInv'
<1> SUFFICES ASSUME Die PROVE LineInv'
  OBVIOUS
<1>1. Back' = 0 /\ Sent' = 0
  BY DEF Die, Back, Sent
<1>2. Mine' = {}
  BY <1>1 DEF Mine
<1>3. 1..Sent' = {} /\ (Back' + 1)..Sent' = {}
  BY <1>1
<1>4. /\ step' = "idle" /\ ~mounted' /\ shown' = NoContact /\ ~fetched' /\ form' = "closed"
      /\ target' = None /\ ~saving' /\ ~deleting' /\ ~missed'
  BY DEF Die, Crash, Unmount
<1>5. ServesFirst' /\ RequestsAreWhole' /\ InOrder' /\ MissIsKnown'
  BY <1>3, <1>4 DEF ServesFirst, RequestsAreWhole, InOrder, MissIsKnown
<1>6. NewPageIsEmpty' /\ OneOverlay'
  BY <1>2, <1>4 DEF NewPageIsEmpty, OneOverlay
<1>7. DeleteIsLast' /\ Waits'
  BY <1>2, <1>4 DEF DeleteIsLast, Waits, Waiting
<1>8. TouchedIsShown'
  BY <1>2, <1>4, ContactAssumption, FormAssumption DEF TouchedIsShown, Touched, Waiting
<1>9. ShownIsThere' /\ RestIsShown'
  BY <1>3, <1>4 DEF ShownIsThere, RestIsShown, NoContact, Promise!NoContact
<1>10. ChangeIsStored' /\ ListIsTrue' /\ NothingIsGone'
  BY <1>3 DEF ChangeIsStored, ListIsTrue, NothingIsGone, DeletedOnce, StillThere
<1> QED
  BY <1>5, <1>6, <1>7, <1>8, <1>9, <1>10 DEF LineInv

\* A step of the store that neither commits nor answers a list.
LEMMA QuietWorkStep ==
  ASSUME PageInv, UNCHANGED <<queues, pageVars, file>>, step # "ok", step' # "ok", ServesFirst',
         blind => blind', missed' => blind'
  PROVE  LineInv'
<1> USE DEF PageInv, LineInv
<1>a. StoreTypes /\ QueueTypes
  BY TypeParts
<1>1. /\ Back' = Back /\ Sent' = Sent /\ Asked' = Asked /\ Mine' = Mine
      /\ \A k \in 1..Sent : k <= Back => Got'[k] = Got[k]
  BY <1>a, LineWaits
<1>2. Took' = Took /\ Took \subseteq 1..Back /\ Back \in Nat /\ Back <= Sent /\ Sent \in Nat
  <2>1. Back \in Nat /\ Back <= Sent /\ Sent \in Nat
    BY <1>a, LineTypes
  <2>2. Took' = Took /\ Took \subseteq 1..Back
    BY <1>1, <2>1 DEF Took, queues
  <2> QED
    BY <2>1, <2>2
<1>3. /\ file' = file /\ mounted' = mounted /\ shown' = shown /\ form' = form /\ target' = target
      /\ fetched' = fetched /\ saving' = saving /\ deleting' = deleting
  BY DEF pageVars
<1>4. \A k \in Took : Got'[k] = Got[k]
  BY <1>1, <1>2
<1>5. RequestsAreWhole' /\ InOrder' /\ NewPageIsEmpty' /\ OneOverlay'
  BY <1>1, <1>3 DEF RequestsAreWhole, InOrder, NewPageIsEmpty, OneOverlay
<1>6. DeleteIsLast' /\ Waits' /\ TouchedIsShown' /\ MissIsKnown'
  BY <1>1, <1>3 DEF DeleteIsLast, Waits, TouchedIsShown, Touched, Waiting, MissIsKnown
<1>7. \A k, c : Changes(k, c)' <=> Changes(k, c)
  BY <1>1, <1>2 DEF Changes
<1>8. \A k : GivesList(k)' <=> GivesList(k)
  BY <1>1, <1>2 DEF GivesList
<1>9. \A k, c : Gives(k, c)' <=> Gives(k, c)
  BY <1>1, <1>4, <1>7, <1>8 DEF Gives, GivesList
<1>10. \A k : GivesList(k) => Got'[k] = Got[k]
  BY <1>4 DEF GivesList
<1>11. \A c : IsDeleted(c)' <=> IsDeleted(c)
  BY <1>1, <1>7 DEF IsDeleted, Waiting
<1>12. ShownIsThere'
  BY <1>1, <1>3, <1>8, <1>9, <1>10, <1>11 DEF ShownIsThere
<1>13. \A c, i : Rests(c, i)' <=> Rests(c, i)
  BY <1>1, <1>7 DEF Rests
<1>14. RestIsShown' /\ ChangeIsStored'
  BY <1>1, <1>3, <1>7, <1>13 DEF RestIsShown, ChangeIsStored, Agree
<1>15. ListIsTrue'
  BY <1>1, <1>3, <1>8, <1>10, <1>13 DEF ListIsTrue, Agree
<1>16. NothingIsGone'
  BY <1>1, <1>3 DEF NothingIsGone, DeletedOnce, StillThere
<1> QED
  BY <1>5, <1>6, <1>12, <1>14, <1>15, <1>16

\* The answer of the first request in the queue goes back.
LEMMA ReturnStep ==
  ASSUME PageInv, Return, UNCHANGED blind
  PROVE  LineInv'
<1> USE DEF PageInv, LineInv
<1>a. StoreTypes /\ QueueTypes
  BY TypeParts
<1>0. /\ Back \in Nat /\ Sent \in Nat /\ Back <= Sent
      /\ Mine \subseteq 1..Sent /\ Took \subseteq 1..Sent
  BY <1>a, LineTypes
<1>1. /\ Back' = Back + 1 /\ Sent' = Sent
      /\ \A k \in 1..Sent :
            /\ Asked'[k] = Asked[k] /\ (k \in Mine' <=> k \in Mine) /\ (k \in Took' <=>
                  k \in Took)
            /\ k \in Took /\ Asked[k].do = "list" => Got'[k] = Got[k]
  BY <1>a, LineMoves
<1>2. Mine' \subseteq 1..Sent /\ Took' \subseteq 1..Sent
  BY <1>1 DEF Mine, Took
<1>3. Mine' = Mine /\ Took' = Took
  BY <1>0, <1>1, <1>2
<1>4. /\ file' = file /\ mounted' = mounted /\ shown' = shown /\ form' = form /\ target' = target
      /\ fetched' = fetched /\ saving' = saving /\ deleting' = deleting /\ step' = "idle"
      /\ ~missed' /\ blind' = blind
  BY DEF Return, Finish, pageVars
<1>5. \A k \in Mine : Asked'[k] = Asked[k]
  BY <1>0, <1>1
<1>6. ServesFirst' /\ MissIsKnown'
  BY <1>4 DEF ServesFirst, MissIsKnown
<1>7. RequestsAreWhole' /\ InOrder' /\ NewPageIsEmpty' /\ OneOverlay'
  BY <1>1, <1>3, <1>4 DEF RequestsAreWhole, InOrder, NewPageIsEmpty, OneOverlay
<1>b. \A kinds : Waiting(kinds)' = Waiting(kinds)
  BY <1>3, <1>5 DEF Waiting
<1>8. DeleteIsLast' /\ Waits' /\ TouchedIsShown'
  <2>1. \A k, kinds : k \in Waiting(kinds) => Asked'[k] = Asked[k]
    BY <1>5 DEF Waiting
  <2> QED
    BY <1>1, <1>4, <1>b, <2>1 DEF DeleteIsLast, Waits, TouchedIsShown, Touched
<1>9. \A k, c : Changes(k, c)' <=> Changes(k, c)
  BY <1>3, <1>5 DEF Changes
<1>10. \A k : GivesList(k)' <=> GivesList(k)
  BY <1>3, <1>5 DEF GivesList
<1>11. \A k : GivesList(k) => Got'[k] = Got[k]
  BY <1>0, <1>1 DEF GivesList
<1>12. \A k, c : Gives(k, c)' <=> Gives(k, c)
  <2>1. \A k, c : Changes(k, c) => Asked'[k] = Asked[k]
    BY <1>5 DEF Changes
  <2> QED
    BY <1>9, <1>10, <1>11, <2>1 DEF Gives
<1>13. \A c : IsDeleted(c)' <=> IsDeleted(c)
  BY <1>9, <1>b DEF IsDeleted
<1>14. ShownIsThere'
  BY <1>1, <1>4, <1>10, <1>11, <1>12, <1>13 DEF ShownIsThere
<1>15. \A c, i : Rests(c, i)' <=> Rests(c, i)
  BY <1>1, <1>9 DEF Rests
<1>16. RestIsShown' /\ ChangeIsStored'
  BY <1>1, <1>4, <1>9, <1>15 DEF RestIsShown, ChangeIsStored, Agree
<1>17. ListIsTrue'
  BY <1>1, <1>4, <1>10, <1>11, <1>15 DEF ListIsTrue, Agree
<1>18. NothingIsGone'
  <2>1. \A k \in (Back' + 1)..Sent' : /\ k \in (Back + 1)..Sent /\ k # Back + 1
                                      /\ Asked'[k] = Asked[k]
    BY <1>0, <1>1
  <2> QED
    BY <1>4, <2>1 DEF NothingIsGone, DeletedOnce, StillThere
<1> QED
  BY <1>6, <1>7, <1>8, <1>14, <1>16, <1>17, <1>18

-----------------------------------------------------------------------------
\* What a commit or a list adds to the line: the first request that is not
\* answered yet has now been carried out.
LEMMA CarriedOut ==
  ASSUME PageInv, UNCHANGED <<queues, pageVars>>, step # "idle", step # "ok", step' = "ok"
  PROVE  /\ Back' = Back /\ Sent' = Sent /\ Asked' = Asked /\ Mine' = Mine
         /\ Took' = Took \cup {Back + 1} /\ Took \subseteq 1..Back
         /\ \A k \in 1..Back : Got'[k] = Got[k]
         /\ Got'[Back + 1] = mem'
         /\ op = Asked[Back + 1]
         /\ Back \in Nat /\ Sent \in Nat /\ Back + 1 \in 1..Sent /\ Mine \subseteq 1..Sent
         /\ \A k \in Mine : k \in 1..Back \/ k >= Back + 1
<1>a. StoreTypes /\ QueueTypes
  BY TypeParts DEF PageInv
<1>0. Back \in Nat /\ Sent \in Nat /\ Back <= Sent /\ Mine \subseteq 1..Sent
  BY <1>a, LineTypes
<1>1. Back < Sent /\ op = Asked[Back + 1]
  BY DEF PageInv, LineInv, ServesFirst
<1>2. /\ Back' = Back /\ Sent' = Sent /\ Asked' = Asked /\ Mine' = Mine
      /\ \A k \in 1..Sent : /\ k <= Back => Got'[k] = Got[k]
                            /\ k = Back + 1 => Got'[k] = mem'
  BY <1>a, LineWaits
<1>3. Back + 1 \in 1..Sent /\ \A k \in 1..Back : k \in 1..Sent /\ k <= Back
  BY <1>0, <1>1
<1>4. Took' = Took \cup {Back + 1} /\ Took \subseteq 1..Back
  BY <1>0, <1>2, <1>3 DEF Took, queues
<1>5. \A k \in Mine : k \in 1..Back \/ k >= Back + 1
  BY <1>0
<1> QED
  BY <1>0, <1>1, <1>2, <1>3, <1>4, <1>5

\* The conjuncts that do not depend on what has been carried out.
LEMMA WorkFrame ==
  ASSUME PageInv, UNCHANGED <<queues, pageVars, op, missed>>, blind => blind',
         step # "idle", step # "ok", step' = "ok"
  PROVE  /\ ServesFirst' /\ MissIsKnown' /\ RequestsAreWhole' /\ InOrder' /\ NewPageIsEmpty' /\ OneOverlay'
         /\ DeleteIsLast' /\ Waits' /\ TouchedIsShown'
         /\ \A kinds : Waiting(kinds)' = Waiting(kinds)
<1> USE DEF PageInv, LineInv
<1>1. /\ Back' = Back /\ Sent' = Sent /\ Asked' = Asked /\ Mine' = Mine
      /\ Back \in Nat /\ Sent \in Nat /\ Back + 1 \in 1..Sent /\ op = Asked[Back + 1]
  BY CarriedOut
<1>2. /\ mounted' = mounted /\ shown' = shown /\ form' = form /\ target' = target
      /\ fetched' = fetched /\ saving' = saving /\ deleting' = deleting /\ op' = op
  BY DEF pageVars
<1>3. ServesFirst' /\ MissIsKnown'
  BY <1>1, <1>2 DEF ServesFirst, MissIsKnown
<1>4. RequestsAreWhole' /\ InOrder' /\ NewPageIsEmpty' /\ OneOverlay'
  BY <1>1, <1>2 DEF RequestsAreWhole, InOrder, NewPageIsEmpty, OneOverlay
<1>5. DeleteIsLast' /\ Waits' /\ TouchedIsShown'
  BY <1>1, <1>2 DEF DeleteIsLast, Waits, TouchedIsShown, Touched, Waiting
<1>6. \A kinds : Waiting(kinds)' = Waiting(kinds)
  BY <1>1 DEF Waiting
<1> QED
  BY <1>3, <1>4, <1>5, <1>6

\* As long as a request is left to carry out, no deletion of this page has been.
LEMMA StoredUntilDeleted ==
  ASSUME PageInv, step # "idle", step # "ok"
  PROVE  /\ \A c : ~IsDeleted(c)
         /\ ~blind => \A c \in Contact :
               shown[c] # None \/ (\E i \in 1..Sent : Gives(i, c)) => file[c] # None
<1>a. StoreTypes /\ QueueTypes
  BY TypeParts DEF PageInv
<1>1. Sent \in Nat /\ Back \in Nat /\ Back < Sent
  BY <1>a, LineTypes DEF PageInv, LineInv, ServesFirst
<1>2. ASSUME NEW c, NEW k \in Waiting({"delete"}), Changes(k, c) PROVE FALSE
  <2>1. k = Sent /\ k \in Took
    BY <1>2 DEF PageInv, LineInv, DeleteIsLast, Changes
  <2> QED
    BY <1>1, <2>1 DEF Took
<1>3. \A c : ~IsDeleted(c)
  BY <1>2 DEF IsDeleted
<1> QED
  BY <1>3 DEF PageInv, LineInv, ShownIsThere

\* A list is answered from memory.
LEMMA ListStep ==
  ASSUME PageInv, List, UNCHANGED <<queues, pageVars, blind>>
  PROVE  LineInv'
<1> USE DEF PageInv, LineInv
<1>1. /\ step = "loaded" /\ step' = "ok" /\ op.do = "list" /\ mem' = Seen /\ op' = op
      /\ file' = file /\ missed' = missed /\ blind' = blind
  BY DEF List, StoreInv, StepKnows, usb
<1>s. ~blind => Seen = file
  BY DEF MissIsKnown, Seen
<1>t. \A c \in Contact : Agree(Seen[c], file[c])
  BY DEF MissIsKnown, Seen, Agree, NoContact, Promise!NoContact
<1>2. /\ Back' = Back /\ Sent' = Sent /\ Asked' = Asked /\ Mine' = Mine
      /\ Took' = Took \cup {Back + 1} /\ Took \subseteq 1..Back
      /\ \A k \in 1..Back : Got'[k] = Got[k]
      /\ Got'[Back + 1] = Seen
      /\ op = Asked[Back + 1]
      /\ Back \in Nat /\ Sent \in Nat /\ Back + 1 \in 1..Sent /\ Mine \subseteq 1..Sent
      /\ \A k \in Mine : k \in 1..Back \/ k >= Back + 1
  BY <1>1, CarriedOut
<1>3. /\ ServesFirst' /\ MissIsKnown' /\ RequestsAreWhole' /\ InOrder' /\ NewPageIsEmpty' /\ OneOverlay'
      /\ DeleteIsLast' /\ Waits' /\ TouchedIsShown' /\ \A kinds : Waiting(kinds)' = Waiting(kinds)
  BY <1>1, WorkFrame
<1>4. /\ file' = file /\ mounted' = mounted /\ shown' = shown /\ fetched' = fetched
  BY <1>1 DEF pageVars
<1>5. Asked[Back + 1].c = None
  BY <1>1, <1>2 DEF RequestsAreWhole, IsWhole
<1>6. \A k, c : c \in Contact => (Changes(k, c)' <=> Changes(k, c))
  BY <1>2, <1>5, ContactAssumption DEF Changes
<1>7. \A k : GivesList(k)' <=> GivesList(k) \/ (k = Back + 1 /\ k \in Mine)
  BY <1>1, <1>2 DEF GivesList
<1>8. \A k : GivesList(k) => k \in 1..Back /\ Got'[k] = Got[k]
  BY <1>2 DEF GivesList
<1>9. \A k, c : c \in Contact /\ Gives(k, c)'
                  => Gives(k, c) \/ (k = Back + 1 /\ Seen[c] # None)
  BY <1>2, <1>6, <1>7, <1>8 DEF Gives
<1>10. ~blind => \A c \in Contact :
               shown[c] # None \/ (\E i \in 1..Sent : Gives(i, c)) => file[c] # None
  BY <1>1, StoredUntilDeleted
<1>11. ShownIsThere'
  <2> SUFFICES ASSUME ~blind PROVE ShownIsThere'
    BY <1>1 DEF ShownIsThere
  <2>1. ASSUME NEW c \in Contact, shown[c] # None, NEW j \in 1..Sent, GivesList(j)'
        PROVE  Got'[j][c] # None
    <3>1. CASE GivesList(j)
      BY <1>8, <2>1, <3>1 DEF ShownIsThere
    <3>2. CASE j = Back + 1
      BY <1>s, <1>2, <1>10, <2>1, <3>2
    <3> QED
      BY <1>7, <2>1, <3>1, <3>2
  <2>2. ASSUME NEW c \in Contact, NEW i \in 1..Sent, NEW j \in 1..Sent, i < j,
               Gives(i, c)', GivesList(j)'
        PROVE  Got'[j][c] # None
    <3>1. file[c] # None
      BY <1>s, <1>9, <1>10, <2>2
    <3>2. CASE j = Back + 1
      BY <1>s, <1>2, <3>1, <3>2
    <3>3. CASE j \in 1..Back /\ GivesList(j)
      <4>1. Gives(i, c)
        BY <1>2, <1>9, <2>2, <3>3
      <4> QED
        BY <1>8, <2>2, <3>3, <4>1 DEF ShownIsThere
    <3> QED
      BY <1>7, <1>8, <2>2, <3>2, <3>3
  <2>3. ASSUME NEW c \in Contact, shown[c] # None \/ (\E i \in 1..Sent : Gives(i, c)')
        PROVE  file[c] # None
    BY <1>s, <1>9, <1>10, <2>3
  <2> QED
    BY <1>2, <1>4, <2>1, <2>2, <2>3 DEF ShownIsThere
<1>12. \A c, i : c \in Contact => (Rests(c, i)' <=> Rests(c, i))
  BY <1>2, <1>6 DEF Rests
<1>13. RestIsShown' /\ ChangeIsStored'
  BY <1>1, <1>2, <1>4, <1>6, <1>12 DEF RestIsShown, ChangeIsStored, Agree
<1>14. ListIsTrue'
  BY <1>1, <1>t, <1>2, <1>4, <1>7, <1>8, <1>12 DEF ListIsTrue, Agree
<1>15. NothingIsGone'
  BY <1>1, <1>2, <1>4 DEF NothingIsGone, DeletedOnce, StillThere
<1> QED
  BY <1>3, <1>11, <1>13, <1>14, <1>15

\* What a commit makes of the book.
LEMMA CommitFacts ==
  ASSUME PageInv, Rename, step' = "ok", UNCHANGED queues
  PROVE  /\ op.do \in {"add", "update", "delete"} /\ op.c \in Contact
         /\ op.do # "delete" => op.d \in Data
         /\ ~missed => file' = [file EXCEPT ![op.c] = IF op.do = "delete" THEN None ELSE op.d]
         /\ file'[op.c] = IF op.do = "delete" THEN None ELSE op.d
         /\ \A c \in Contact :
               c # op.c => file'[c] = file[c] \/ (missed /\ file'[c] = None)
         /\ missed' = missed
<1> USE DEF PageInv, LineInv
<1>a. StoreTypes /\ QueueTypes
  BY TypeParts
<1>1. Back \in Nat /\ Sent \in Nat /\ Back < Sent /\ op = Asked[Back + 1] /\ op.do # "list"
  BY <1>a, LineTypes DEF ServesFirst, Rename
<1>2. IsWhole(op)
  BY <1>1 DEF RequestsAreWhole
<1>3. op.do \in {"list", "add", "update", "delete"}
  BY <1>a, RequestFields DEF StoreTypes
<1>4. file' = Apply(Seen, op) /\ missed' = missed
  BY DEF Rename, StoreInv, WritesOneChange, usb
<1>5. file' = [Seen EXCEPT ![op.c] = IF op.do = "delete" THEN None ELSE op.d]
  BY <1>1, <1>4 DEF Apply, Promise!Apply
<1>6. op.c \in Contact /\ (op.do # "delete" => op.d \in Data)
  BY <1>1, <1>2, <1>3 DEF IsWhole
<1>7. CASE missed
  <2>1. Seen = NoContact /\ NoContact \in [Contact -> Data \cup {None}]
    BY <1>7, NoContactType DEF Seen, Book, Promise!Book
  <2> QED
    BY <1>1, <1>3, <1>4, <1>5, <1>6, <1>7, <2>1 DEF NoContact, Promise!NoContact
<1>8. CASE ~missed
  <2>1. Seen = file
    BY <1>8 DEF Seen
  <2> QED
    BY <1>a, <1>1, <1>3, <1>4, <1>5, <1>6, <1>8, <2>1 DEF StoreTypes, Book, Promise!Book
<1> QED
  BY <1>7, <1>8

\* A change is committed.
LEMMA CommitStep ==
  ASSUME PageInv, Rename, step' = "ok", UNCHANGED <<queues, pageVars, blind>>
  PROVE  LineInv'
<1> USE DEF PageInv, LineInv
<1>1. step = "written" /\ op' = op /\ missed' = missed /\ blind' = blind
  BY DEF Rename, usb
<1>2. /\ Back' = Back /\ Sent' = Sent /\ Asked' = Asked /\ Mine' = Mine
      /\ Took' = Took \cup {Back + 1} /\ Took \subseteq 1..Back
      /\ \A k \in 1..Back : Got'[k] = Got[k]
      /\ op = Asked[Back + 1]
      /\ Back \in Nat /\ Sent \in Nat /\ Back + 1 \in 1..Sent /\ Mine \subseteq 1..Sent
      /\ \A k \in Mine : k \in 1..Back \/ k >= Back + 1
  BY <1>1, CarriedOut
<1>3. /\ ServesFirst' /\ MissIsKnown' /\ RequestsAreWhole' /\ InOrder' /\ NewPageIsEmpty' /\ OneOverlay'
      /\ DeleteIsLast' /\ Waits' /\ TouchedIsShown' /\ \A kinds : Waiting(kinds)' = Waiting(kinds)
  BY <1>1, WorkFrame
<1>4. mounted' = mounted /\ shown' = shown /\ fetched' = fetched
  BY DEF pageVars
<1>5. /\ op.do \in {"add", "update", "delete"} /\ op.c \in Contact
      /\ op.do # "delete" => op.d \in Data
      /\ file'[op.c] = IF op.do = "delete" THEN None ELSE op.d
      /\ ~blind => \A c \in Contact : c # op.c => file'[c] = file[c]
      /\ \A c \in Contact : c # op.c => file'[c] = file[c] \/ (blind /\ file'[c] = None)
  BY CommitFacts DEF MissIsKnown
<1>6. \A k : GivesList(k)' <=> GivesList(k)
  BY <1>2, <1>5 DEF GivesList
<1>7. \A k : GivesList(k) => k \in 1..Back /\ Got'[k] = Got[k]
  BY <1>2 DEF GivesList
<1>8. \A k, c : Changes(k, c)' <=> Changes(k, c) \/ (k = Back + 1 /\ k \in Mine /\ c = op.c)
  BY <1>2 DEF Changes
<1>9. \A k, c : Changes(k, c) => k \in 1..Back
  BY <1>2 DEF Changes
<1>10. NothingIsGone'
  <2> SUFFICES ASSUME ~blind PROVE NothingIsGone'
    BY <1>1 DEF NothingIsGone
  <2> USE DEF NothingIsGone, DeletedOnce, StillThere
  <2>1. ASSUME NEW k \in (Back + 1)..Sent, Asked[k].do \in {"update", "delete"},
               ~(k = Back + 1 /\ Asked[k].do = "delete")
        PROVE  file'[Asked[k].c] # None
    <3>0. Asked[k].c \in Contact
      BY <1>2, <2>1 DEF RequestsAreWhole, IsWhole
    <3>1. file[Asked[k].c] # None
      BY <1>1, <2>1 DEF NothingIsGone
    <3>2. CASE Asked[k].c = op.c
      <4>1. op.do # "delete"
        BY <1>2, <2>1, <3>2 DEF NothingIsGone
      <4> QED
        BY <1>5, <3>2, <4>1, ContactAssumption
    <3>3. CASE Asked[k].c # op.c
      BY <1>5, <3>0, <3>1, <3>3
    <3> QED
      BY <3>2, <3>3
  <2> QED
    BY <1>2, <2>1 DEF NothingIsGone
<1>a. CASE Back + 1 \notin Mine
  <2>1. ASSUME NEW k \in Mine PROVE k \notin Took'
    BY <1>2, <1>a DEF InOrder
  <2>2. \A k, c : ~Changes(k, c)'
    BY <1>2, <2>1 DEF Changes
  <2>3. \A k : ~GivesList(k)'
    BY <1>2, <2>1 DEF GivesList
  <2>4. shown' = NoContact /\ fetched' = fetched /\ ~fetched
    BY <1>2, <1>4, <1>a DEF NewPageIsEmpty
  <2>5. ShownIsThere' /\ RestIsShown'
    BY <2>2, <2>3, <2>4
       DEF ShownIsThere, Gives, RestIsShown, Agree, NoContact, Promise!NoContact
  <2>6. ChangeIsStored' /\ ListIsTrue'
    BY <2>2, <2>3 DEF ChangeIsStored, ListIsTrue
  <2> QED
    BY <1>3, <1>10, <2>5, <2>6
<1>b. CASE Back + 1 \in Mine
  <2>1. \A k, c : Gives(k, c)' => Gives(k, c) \/ (k = Back + 1 /\ c = op.c /\ op.do # "delete")
    BY <1>2, <1>5, <1>6, <1>7, <1>8 DEF Gives
  <2>2. ~blind => \A c \in Contact :
               shown[c] # None \/ (\E i \in 1..Sent : Gives(i, c)) => file[c] # None
    BY <1>1, StoredUntilDeleted
  <2>3. ASSUME op.do = "delete", NEW c, c = op.c PROVE IsDeleted(c)'
    <3>1. \A k : k = Back + 1 => k \in Waiting({"delete"})' /\ Changes(k, c)'
      BY <1>2, <1>3, <1>8, <1>b, <2>3 DEF Waiting
    <3> QED
      BY <3>1 DEF IsDeleted
  <2>4. ASSUME ~blind, NEW c \in Contact, shown[c] # None \/ (\E i \in 1..Sent : Gives(i, c)')
        PROVE  file'[c] # None \/ IsDeleted(c)'
    <3>1. CASE c = op.c
      BY <1>5, <2>3, <3>1, ContactAssumption
    <3>2. CASE c # op.c
      BY <1>5, <2>1, <2>2, <2>4, <3>2
    <3> QED
      BY <3>1, <3>2
  <2>5. ASSUME ~blind, NEW c \in Contact, NEW i \in 1..Sent, NEW j \in 1..Sent, i < j,
               Gives(i, c)', GivesList(j)'
        PROVE  Got'[j][c] # None
    <3>1. j \in 1..Back /\ Got'[j] = Got[j] /\ GivesList(j)
      BY <1>6, <1>7, <2>5
    <3>2. Gives(i, c)
      BY <1>2, <2>1, <2>5, <3>1
    <3> QED
      BY <2>5, <3>1, <3>2 DEF ShownIsThere
  <2>6. ShownIsThere'
    BY <1>1, <1>2, <1>4, <1>6, <1>7, <2>4, <2>5 DEF ShownIsThere
  <2>7. ASSUME NEW c \in Contact, NEW i, i \in 0..Back, Rests(c, i)'
        PROVE  Rests(c, i) /\ (file'[c] = file[c] \/ (blind /\ file'[c] = None))
    <3>1. Rests(c, i)
      BY <1>2, <1>8, <2>7 DEF Rests
    <3>2. c # op.c
      BY <1>2, <1>8, <1>b, <2>7 DEF Rests
    <3> QED
      BY <1>5, <3>1, <3>2
  <2>8. RestIsShown'
    <3> SUFFICES ASSUME NEW c \in Contact, mounted, Rests(c, 0)'
                 PROVE  Agree(shown[c], file[c])' \/ (shown[c] = None /\ ~fetched)
      BY <1>2, <1>4 DEF RestIsShown
    <3>1. Rests(c, 0) /\ (file'[c] = file[c] \/ (blind /\ file'[c] = None))
      BY <1>2, <2>7
    <3> QED
      BY <1>1, <1>4, <3>1 DEF RestIsShown, Agree
  <2>9. ChangeIsStored'
    <3> SUFFICES ASSUME NEW c \in Contact, NEW i \in 1..Sent, Changes(i, c)', Rests(c, i)'
                 PROVE  LET x == IF Asked[i].do = "delete" THEN None ELSE Asked[i].d
                        IN  x = file'[c] \/ (blind /\ None \in {x, file'[c]})
      BY <1>1, <1>2 DEF ChangeIsStored, Agree
    <3>1. CASE i = Back + 1
      BY <1>2, <1>5, <1>8, <1>9, <3>1
    <3>2. CASE i # Back + 1
      <4>1. Changes(i, c) /\ i \in 0..Back
        BY <1>2, <1>8, <1>9, <3>2
      <4> QED
        BY <2>7, <4>1 DEF ChangeIsStored, Agree
    <3> QED
      BY <3>1, <3>2
  <2>10. ListIsTrue'
    <3> SUFFICES ASSUME NEW c \in Contact, NEW i \in 1..Sent, GivesList(i)', Rests(c, i)'
                 PROVE  Agree(Got[i][c], file[c])'
      BY <1>2 DEF ListIsTrue
    <3>1. GivesList(i) /\ i \in 1..Back /\ i \in 0..Back /\ Got'[i] = Got[i]
      BY <1>2, <1>6, <1>7
    <3> QED
      BY <1>1, <2>7, <3>1 DEF ListIsTrue, Agree
  <2> QED
    BY <1>3, <1>10, <2>6, <2>8, <2>9, <2>10
<1> QED
  BY <1>a, <1>b

-----------------------------------------------------------------------------
\* What the line looks like once its first entry is gone.
ShiftedLine ==
    /\ Back \in Nat /\ Sent \in Nat /\ 1 <= Back /\ Back <= Sent
    /\ Back' = Back - 1 /\ Sent' = Sent - 1
    /\ Mine \subseteq 1..Sent /\ Mine' \subseteq 1..Sent'
    /\ \A k \in 1..Sent' : /\ k + 1 \in 1..Sent
                             /\ Asked'[k] = Asked[k + 1] /\ Got'[k] = Got[k + 1]
    /\ \A k \in 1..Sent' : (k \in Mine' <=> k + 1 \in Mine) /\ (k \in Took' <=> k + 1 \in Took)
    /\ \A k \in 1..Sent : k = 1 \/ k - 1 \in 1..Sent'
    /\ UNCHANGED <<step, op, file, mem, missed, blind>>

\* Handling an answer makes it so.
LEMMA Shifted ==
  ASSUME PageInv, Answer, UNCHANGED blind
  PROVE  ShiftedLine
<1> USE DEF ShiftedLine
<1>a. StoreTypes /\ QueueTypes
  BY TypeParts DEF PageInv
<1>1. /\ Back \in Nat /\ Sent \in Nat /\ Back <= Sent /\ Mine \subseteq 1..Sent
  BY <1>a, LineTypes
<1>2. /\ Back >= 1 /\ Back' = Back - 1 /\ Sent' = Sent - 1
      /\ \A k \in 1..Sent' :
            /\ Asked'[k] = Asked[k + 1]
            /\ (k \in Mine' <=> k + 1 \in Mine) /\ (k \in Took' <=> k + 1 \in Took)
            /\ Got'[k] = Got[k + 1]
  BY <1>a, LineShifts
<1>3. \A k \in 1..Sent' : k + 1 \in 1..Sent
  BY <1>1, <1>2
<1>4. \A k \in 1..Sent : k = 1 \/ k - 1 \in 1..Sent'
  BY <1>1, <1>2
<1>5. Mine' \subseteq 1..Sent'
  BY DEF Mine
<1>6. UNCHANGED <<step, op, file, mem, missed, blind>>
  BY DEF Answer, storeVars
<1> QED
  BY <1>1, <1>2, <1>3, <1>4, <1>5, <1>6

\* What does not depend on whom the answer is for.
ShiftedNews ==
    /\ ServesFirst' /\ MissIsKnown' /\ RequestsAreWhole' /\ InOrder' /\ NothingIsGone'
    /\ \A k, c : Changes(k, c)' => k \in 1..Sent' /\ Changes(k + 1, c)
    /\ \A k \in 1..Sent' : \A c : Changes(k + 1, c) => Changes(k, c)'
    /\ \A k : GivesList(k)' => k \in 1..Sent' /\ GivesList(k + 1)
    /\ \A k, c : Gives(k, c)' => k \in 1..Sent' /\ Gives(k + 1, c)
    /\ \A k, kinds : k \in Waiting(kinds)' => k \in 1..Sent' /\ k + 1 \in Waiting(kinds)
    /\ \A k \in 1..Sent' : \A kinds : k + 1 \in Waiting(kinds) => k \in Waiting(kinds)'

\* Whomever the answer is for.
LEMMA ShiftFrame ==
  ASSUME PageInv, Answer, UNCHANGED blind
  PROVE  ShiftedNews
<1> USE DEF ShiftedLine
<1> USE DEF ShiftedNews
<1> USE DEF PageInv, LineInv
<1>1. /\ Back \in Nat /\ Sent \in Nat /\ 1 <= Back /\ Back <= Sent
      /\ Back' = Back - 1 /\ Sent' = Sent - 1
      /\ Mine \subseteq 1..Sent /\ Mine' \subseteq 1..Sent'
      /\ \A k \in 1..Sent' : /\ k + 1 \in 1..Sent
                               /\ Asked'[k] = Asked[k + 1] /\ Got'[k] = Got[k + 1]
      /\ \A k \in 1..Sent' : (k \in Mine' <=> k + 1 \in Mine) /\ (k \in Took' <=> k + 1 \in Took)
      /\ UNCHANGED <<step, op, file, mem, missed, blind>>
  BY Shifted
<1>m. MissIsKnown'
  BY <1>1 DEF MissIsKnown
<1>2. ServesFirst'
  <2>1. step # "idle" => Back' < Sent' /\ op = Asked'[Back' + 1]
    <3> SUFFICES ASSUME step # "idle" PROVE Back' < Sent' /\ op = Asked'[Back' + 1]
      OBVIOUS
    <3>1. Back < Sent /\ op = Asked[Back + 1]
      BY DEF ServesFirst
    <3>2. Back' < Sent' /\ Back' + 1 \in 1..Sent' /\ Back' + 1 = Back
      BY <1>1, <3>1
    <3> QED
      BY <1>1, <3>1, <3>2
  <2> QED
    BY <1>1, <2>1 DEF ServesFirst
<1>3. RequestsAreWhole'
  BY <1>1 DEF RequestsAreWhole
<1>4. InOrder'
  <2> SUFFICES ASSUME NEW i \in 1..Sent', NEW j \in 1..Sent', i < j, i \in Mine'
               PROVE  j \in Mine'
    BY DEF InOrder
  <2>1. i + 1 \in 1..Sent /\ j + 1 \in 1..Sent /\ i + 1 < j + 1 /\ i + 1 \in Mine
    BY <1>1
  <2> QED
    BY <1>1, <2>1 DEF InOrder
<1>5. NothingIsGone'
  <2> SUFFICES ASSUME ~blind PROVE NothingIsGone'
    BY <1>1 DEF NothingIsGone
  <2> USE DEF NothingIsGone, DeletedOnce, StillThere
  <2>1. \A k \in (Back' + 1)..Sent' : /\ k + 1 \in (Back + 1)..Sent /\ Asked'[k] = Asked[k + 1]
                                      /\ (k = Back' + 1 <=> k + 1 = Back + 1)
    BY <1>1
  <2>2. ASSUME NEW i \in (Back' + 1)..Sent', NEW j \in (Back' + 1)..Sent', i < j,
               Asked'[i].do = "delete", Asked'[j].c = Asked'[i].c
        PROVE  Asked'[j].do = "add"
    <3>1. i + 1 < j + 1
      BY <1>1, <2>2
    <3> QED
      BY <2>1, <2>2, <3>1 DEF NothingIsGone
  <2> QED
    BY <1>1, <2>1, <2>2 DEF NothingIsGone
<1>6. ASSUME NEW k, NEW c, Changes(k, c)' PROVE k \in 1..Sent' /\ Changes(k + 1, c)
  BY <1>1, <1>6 DEF Changes
<1>7. ASSUME NEW k \in 1..Sent', NEW c, Changes(k + 1, c) PROVE Changes(k, c)'
  BY <1>1, <1>7 DEF Changes
<1>8. ASSUME NEW k, GivesList(k)' PROVE k \in 1..Sent' /\ GivesList(k + 1)
  BY <1>1, <1>8 DEF GivesList
<1>9. ASSUME NEW k, NEW c, Gives(k, c)' PROVE k \in 1..Sent' /\ Gives(k + 1, c)
  <2>1. k \in 1..Sent'
    BY <1>6, <1>8, <1>9 DEF Gives
  <2> QED
    BY <1>1, <1>6, <1>8, <1>9, <2>1 DEF Gives
<1>10. ASSUME NEW k, NEW kinds, k \in Waiting(kinds)'
       PROVE  k \in 1..Sent' /\ k + 1 \in Waiting(kinds)
  BY <1>1, <1>10 DEF Waiting
<1>11. ASSUME NEW k \in 1..Sent', NEW kinds, k + 1 \in Waiting(kinds)
       PROVE  k \in Waiting(kinds)'
  BY <1>1, <1>11 DEF Waiting
<1> QED
  BY <1>m, <1>2, <1>3, <1>4, <1>5, <1>6, <1>7, <1>8, <1>9, <1>10, <1>11

\* The last news stay the last news.
LEMMA ShiftValues ==
  ASSUME PageInv, Answer, UNCHANGED blind
  PROVE  /\ \A c, i : i \in 0..Sent' /\ Rests(c, i)' => Rests(c, i + 1)
         /\ ChangeIsStored' /\ ListIsTrue'
<1> USE DEF ShiftedLine, ShiftedNews
<1> USE DEF PageInv, LineInv
<1>1. /\ Sent \in Nat /\ Sent' = Sent - 1
      /\ \A k \in 1..Sent' : /\ k + 1 \in 1..Sent
                               /\ Asked'[k] = Asked[k + 1] /\ Got'[k] = Got[k + 1]
      /\ file' = file /\ blind' = blind
  BY Shifted
<1>2. /\ \A k, c : Changes(k, c)' => k \in 1..Sent' /\ Changes(k + 1, c)
      /\ \A k \in 1..Sent' : \A c : Changes(k + 1, c) => Changes(k, c)'
      /\ \A k : GivesList(k)' => k \in 1..Sent' /\ GivesList(k + 1)
  BY ShiftFrame
<1>3. ASSUME NEW c, NEW i \in 0..Sent', Rests(c, i)' PROVE Rests(c, i + 1)
  <2> SUFFICES ASSUME NEW j \in 1..Sent, i + 1 < j, Changes(j, c) PROVE FALSE
    BY DEF Rests
  <2>1. j - 1 \in 1..Sent' /\ i < j - 1 /\ (j - 1) + 1 = j
    BY <1>1
  <2>2. \A k \in 1..Sent' : k = j - 1 => Changes(k, c)'
    BY <1>2, <2>1
  <2> QED
    BY <1>3, <2>1, <2>2 DEF Rests
<1>4. ChangeIsStored'
  <2> SUFFICES ASSUME NEW c \in Contact, NEW i \in 1..Sent', Changes(i, c)', Rests(c, i)'
               PROVE  Agree(IF Asked[i].do = "delete" THEN None ELSE Asked[i].d, file[c])'
    BY DEF ChangeIsStored
  <2>1. Changes(i + 1, c) /\ Rests(c, i + 1)
    BY <1>1, <1>2, <1>3
  <2> QED
    BY <1>1, <2>1 DEF ChangeIsStored, Agree
<1>5. ListIsTrue'
  <2> SUFFICES ASSUME NEW c \in Contact, NEW i \in 1..Sent', GivesList(i)', Rests(c, i)'
               PROVE  Agree(Got[i][c], file[c])'
    BY DEF ListIsTrue
  <2>1. GivesList(i + 1) /\ Rests(c, i + 1)
    BY <1>1, <1>2, <1>3
  <2> QED
    BY <1>1, <2>1 DEF ListIsTrue, Agree
<1> QED
  BY <1>3, <1>4, <1>5

\* An answer to a page that is gone changes nothing.
LEMMA StrayAnswerStep ==
  ASSUME PageInv, Answer, 1 \notin Mine, UNCHANGED blind
  PROVE  LineInv'
<1> USE DEF ShiftedLine, ShiftedNews
<1> USE DEF PageInv, LineInv
<1>a. StoreTypes /\ QueueTypes
  BY TypeParts
<1>1. ShiftedLine
  BY Shifted
<1>2. ShiftedNews
  BY ShiftFrame
<1>3. /\ \A c, i : i \in 0..Sent' /\ Rests(c, i)' => Rests(c, i + 1)
      /\ ChangeIsStored' /\ ListIsTrue'
  BY ShiftValues
<1>4. /\ mounted' = mounted /\ shown' = shown /\ form' = form /\ target' = target
      /\ fetched' = fetched /\ saving' = saving /\ deleting' = deleting
  <2>1. ~Head(answers).own
    BY <1>a, LineShifts
  <2> QED
    BY <2>1 DEF Answer, pageVars
<1>5. shown = NoContact /\ ~fetched
  BY <1>1 DEF NewPageIsEmpty
<1>6. NewPageIsEmpty' /\ OneOverlay'
  <2>1. Mine = {} => Mine' = {}
    BY <1>1
  <2> QED
    BY <1>4, <1>5, <2>1 DEF NewPageIsEmpty, OneOverlay
<1>7. \A kinds : Waiting(kinds) = {} <=> Waiting(kinds)' = {}
  <2>1. ASSUME NEW kinds, NEW k \in Waiting(kinds) PROVE \E i : i \in Waiting(kinds)'
    <3>1. k \in 1..Sent /\ k # 1
      BY <1>1 DEF Waiting
    <3>2. k - 1 \in 1..Sent' /\ (k - 1) + 1 = k
      BY <1>1, <3>1
    <3> QED
      BY <1>2, <3>2
  <2> QED
    BY <1>2, <2>1
<1>8. DeleteIsLast' /\ Waits'
  <2>1. DeleteIsLast'
    BY <1>1, <1>2, <1>4 DEF DeleteIsLast
  <2>2. \A i, j \in Waiting({"add", "update"})' : i = j
    BY <1>1, <1>2 DEF Waits
  <2> QED
    BY <1>4, <1>7, <2>1, <2>2 DEF Waits
<1>9. TouchedIsShown'
  BY <1>1, <1>2, <1>4 DEF TouchedIsShown, Touched
<1>10. ShownIsThere'
  <2> SUFFICES ASSUME ~blind PROVE ShownIsThere'
    BY DEF ShownIsThere
  <2>1. \A c \in Contact : shown'[c] = None
    BY <1>4, <1>5 DEF NoContact, Promise!NoContact
  <2>2. ASSUME NEW c \in Contact, NEW i \in 1..Sent', NEW j \in 1..Sent', i < j,
               Gives(i, c)', GivesList(j)'
        PROVE  Got'[j][c] # None
    <3>1. i + 1 < j + 1 /\ i + 1 \in 1..Sent /\ j + 1 \in 1..Sent
      BY <1>1, <2>2
    <3> QED
      BY <1>1, <1>2, <2>2, <3>1 DEF ShownIsThere
  <2>3. ASSUME NEW c \in Contact, NEW i \in 1..Sent', Gives(i, c)'
        PROVE  file'[c] # None \/ IsDeleted(c)'
    <3>1. file[c] # None \/ IsDeleted(c)
      BY <1>1, <1>2, <2>3 DEF ShownIsThere
    <3>2. ASSUME NEW k \in Waiting({"delete"}), Changes(k, c) PROVE IsDeleted(c)'
      <4>1. k \in 1..Sent /\ k # 1
        BY <1>1 DEF Waiting
      <4>2. k - 1 \in 1..Sent' /\ (k - 1) + 1 = k
        BY <1>1, <4>1
      <4>3. \A i1 \in 1..Sent' : i1 = k - 1 => i1 \in Waiting({"delete"})' /\ Changes(i1, c)'
        BY <1>2, <3>2, <4>2
      <4> QED
        BY <4>2, <4>3 DEF IsDeleted
    <3> QED
      BY <1>1, <3>1, <3>2 DEF IsDeleted
  <2> QED
    BY <2>1, <2>2, <2>3 DEF ShownIsThere
<1>11. RestIsShown'
  BY <1>4, <1>5 DEF RestIsShown, Agree, NoContact, Promise!NoContact
<1> QED
  BY <1>2, <1>3, <1>6, <1>8, <1>9, <1>10, <1>11

\* What an answer does to the page that waits for it.
LEMMA OwnAnswer ==
  ASSUME PageInv, Answer, 1 \in Mine, UNCHANGED blind
  PROVE  /\ mounted' = mounted /\ form' \in {form, "closed"}
         /\ saving' = (saving /\ Asked[1].do \notin {"add", "update"})
         /\ deleting' = (deleting /\ Asked[1].do # "delete")
         /\ target' = IF Asked[1].do = "delete" THEN None ELSE target
         /\ 1 \notin Took => shown' = shown /\ fetched' = fetched
         /\ 1 \in Took /\ Asked[1].do = "list" => shown' = Got[1]
         /\ 1 \in Took /\ Asked[1].do # "list" =>
               /\ fetched' = fetched
               /\ \A c \in Contact : c # Asked[1].c => shown'[c] = shown[c]
               /\ \/ shown'[Asked[1].c] = IF Asked[1].do = "delete" THEN None ELSE Asked[1].d
                  \/ blind /\ shown'[Asked[1].c] = None /\ shown[Asked[1].c] = None
<1> USE DEF PageInv, LineInv
<1>a. StoreTypes /\ QueueTypes /\ PageTypes
  BY TypeParts
<1> DEFINE a == Head(answers)
<1>1. /\ a \in Reply /\ Asked[1] = a.req /\ a.own /\ (1 \in Took <=> a.ok) /\ Got[1] = a.got
      /\ Back >= 1
  BY <1>a, LineShifts
<1>2. Effect(a) /\ Settle(a)
  BY <1>1 DEF Answer
<1>b. /\ IsWhole(a.req) /\ a.req.do \in {"list", "add", "update", "delete"}
      /\ shown \in [Contact -> Data \cup {None}]
  <2>1. 1 \in 1..Sent
    BY <1>a, <1>1, LineTypes
  <2>2. IsWhole(a.req)
    BY <1>1, <2>1 DEF RequestsAreWhole
  <2>3. a.req \in Request
    BY <1>1 DEF Reply
  <2> QED
    BY <1>a, <2>2, <2>3, RequestFields DEF PageTypes, Book, Promise!Book
<1> HIDE DEF a
<1>3. /\ mounted' = mounted
      /\ saving' = (saving /\ a.req.do \notin {"add", "update"})
      /\ deleting' = (deleting /\ a.req.do # "delete")
      /\ target' = IF a.req.do = "delete" THEN None ELSE target
  BY <1>2 DEF Settle
<1>4. CASE ~a.ok
  <2>1. Refused(a)
    BY <1>2, <1>4 DEF Effect
  <2> QED
    BY <1>1, <1>3, <1>4, <2>1 DEF Refused
<1>5. CASE a.ok /\ a.req.do = "list"
  <2>1. Listed(a)
    BY <1>2, <1>5 DEF Effect
  <2> QED
    BY <1>1, <1>3, <1>5, <2>1 DEF Listed
<1>6. CASE a.ok /\ a.req.do \in {"add", "update"}
  <2>1. Saved(a)
    BY <1>2, <1>6 DEF Effect
  <2>2. a.req.c \in Contact
    BY <1>6, <1>b DEF IsWhole
  <2>3. a.req.do = "update" => blind \/ shown[a.req.c] # None
    <3> SUFFICES ASSUME a.req.do = "update", ~blind PROVE shown[a.req.c] # None
      OBVIOUS
    <3>1. 1 \in Waiting({"update", "delete"})
      BY <1>1 DEF Waiting
    <3> QED
      BY <1>1, <2>2, <3>1 DEF TouchedIsShown, Touched
  <2>4. /\ \/ shown' = [shown EXCEPT ![a.req.c] = a.req.d]
           \/ blind /\ shown' = shown /\ shown[a.req.c] = None
        /\ fetched' = fetched /\ form' = "closed"
    BY <2>1, <2>3 DEF Saved
  <2> QED
    BY <1>1, <1>3, <1>6, <1>b, <2>2, <2>4
<1>7. CASE a.ok /\ a.req.do = "delete"
  <2>1. Deleted(a)
    BY <1>2, <1>7 DEF Effect
  <2>2. a.req.c \in Contact
    BY <1>7, <1>b DEF IsWhole
  <2> QED
    BY <1>1, <1>3, <1>7, <1>b, <2>1, <2>2 DEF Deleted
<1> QED
  BY <1>b, <1>4, <1>5, <1>6, <1>7

\* An answer to the page that waits for it.
LEMMA OwnAnswerStep ==
  ASSUME PageInv, Answer, 1 \in Mine, UNCHANGED blind
  PROVE  LineInv'
<1> USE DEF ShiftedLine, ShiftedNews
<1> USE DEF PageInv, LineInv
<1>a. StoreTypes /\ QueueTypes
  BY TypeParts
<1>1. ShiftedLine
  BY Shifted
<1>2. ShiftedNews
  BY ShiftFrame
<1>3. /\ \A c, i : i \in 0..Sent' /\ Rests(c, i)' => Rests(c, i + 1)
      /\ ChangeIsStored' /\ ListIsTrue'
  BY ShiftValues
<1>4. /\ mounted' = mounted /\ form' \in {form, "closed"}
      /\ saving' = (saving /\ Asked[1].do \notin {"add", "update"})
      /\ deleting' = (deleting /\ Asked[1].do # "delete")
      /\ target' = IF Asked[1].do = "delete" THEN None ELSE target
      /\ 1 \notin Took => shown' = shown /\ fetched' = fetched
      /\ 1 \in Took /\ Asked[1].do = "list" => shown' = Got[1]
      /\ 1 \in Took /\ Asked[1].do # "list" =>
            /\ fetched' = fetched
            /\ \A c \in Contact : c # Asked[1].c => shown'[c] = shown[c]
            /\ \/ shown'[Asked[1].c] = IF Asked[1].do = "delete" THEN None ELSE Asked[1].d
               \/ blind /\ shown'[Asked[1].c] = None /\ shown[Asked[1].c] = None
  BY OwnAnswer
<1>5. /\ IsWhole(Asked[1]) /\ Asked[1].do \in {"list", "add", "update", "delete"} /\ 1 \in 1..Sent
  BY <1>a, <1>1, LineTypes, RequestFields DEF RequestsAreWhole
<1>6. Asked[1].do = "delete" => /\ Sent = 1 /\ 1..Sent' = {} /\ Mine' = {} /\ Asked[1].c = target
                                /\ target # None /\ form = "closed" /\ form' = "closed"
  <2> SUFFICES ASSUME Asked[1].do = "delete"
               PROVE  /\ Sent = 1 /\ 1..Sent' = {} /\ Mine' = {} /\ Asked[1].c = target
                      /\ target # None /\ form = "closed" /\ form' = "closed"
    OBVIOUS
  <2>1. 1 \in Waiting({"delete"})
    BY DEF Waiting
  <2>2. Sent = 1 /\ Asked[1].c = target
    BY <2>1 DEF DeleteIsLast
  <2>3. 1..Sent' = {}
    BY <1>1, <2>2
  <2>4. target # None
    BY <1>5, <2>2, ContactAssumption DEF IsWhole
  <2> QED
    BY <1>1, <1>4, <2>2, <2>3, <2>4 DEF OneOverlay
<1>7. mounted /\ \A k \in 1..Sent' : k \in Mine'
  <2>1. mounted
    BY DEF NewPageIsEmpty
  <2>2. ASSUME NEW k \in 1..Sent' PROVE k \in Mine'
    <3>1. k + 1 \in 1..Sent /\ 1 < k + 1
      BY <1>1
    <3>2. k + 1 \in Mine
      BY <1>5, <3>1 DEF InOrder
    <3> QED
      BY <1>1, <3>2
  <2> QED
    BY <2>1, <2>2
<1>8. NewPageIsEmpty' /\ OneOverlay'
  BY <1>4, <1>6, <1>7 DEF NewPageIsEmpty, OneOverlay
<1>9. ASSUME NEW kinds, 1 \notin Waiting(kinds)
      PROVE  Waiting(kinds) = {} <=> Waiting(kinds)' = {}
  <2>1. ASSUME NEW k \in Waiting(kinds) PROVE \E i : i \in Waiting(kinds)'
    <3>1. k \in 1..Sent /\ k # 1
      BY <1>1, <1>9 DEF Waiting
    <3>2. k - 1 \in 1..Sent' /\ (k - 1) + 1 = k
      BY <1>1, <3>1
    <3> QED
      BY <1>2, <3>2
  <2> QED
    BY <1>2, <2>1
<1>10. DeleteIsLast'
  <2> SUFFICES ASSUME NEW k \in Waiting({"delete"})' PROVE k = Sent' /\ Asked'[k].c = target'
    BY DEF DeleteIsLast
  <2>1. k \in 1..Sent' /\ k + 1 \in Waiting({"delete"})
    BY <1>2
  <2>2. k + 1 = Sent /\ Asked[k + 1].c = target
    BY <2>1 DEF DeleteIsLast
  <2>3. Asked[1].do # "delete"
    BY <1>6, <2>1
  <2> QED
    BY <1>1, <1>4, <2>1, <2>2, <2>3
<1>11. Waits'
  <2>1. \A i, j \in Waiting({"add", "update"})' : i = j
    BY <1>1, <1>2 DEF Waits
  <2>2. saving' <=> Waiting({"add", "update"})' # {}
    <3>1. CASE Asked[1].do \in {"add", "update"}
      <4>1. 1 \in Waiting({"add", "update"})
        BY <3>1 DEF Waiting
      <4>2. \A k \in Waiting({"add", "update"})' : k + 1 = 1 /\ k \in 1..Sent'
        BY <1>2, <4>1 DEF Waits
      <4>3. Waiting({"add", "update"})' = {}
        BY <1>1, <4>2
      <4> QED
        BY <1>4, <3>1, <4>3
    <3>2. CASE Asked[1].do \notin {"add", "update"}
      <4>1. 1 \notin Waiting({"add", "update"})
        BY <3>2 DEF Waiting
      <4> QED
        BY <1>4, <1>9, <3>2, <4>1 DEF Waits
    <3> QED
      BY <3>1, <3>2
  <2>3. deleting' <=> Waiting({"delete"})' # {}
    <3>1. CASE Asked[1].do = "delete"
      BY <1>4, <1>6, <3>1 DEF Waiting
    <3>2. CASE Asked[1].do # "delete"
      <4>1. 1 \notin Waiting({"delete"})
        BY <3>2 DEF Waiting
      <4> QED
        BY <1>4, <1>9, <3>2, <4>1 DEF Waits
    <3> QED
      BY <3>1, <3>2
  <2> QED
    BY <2>1, <2>2, <2>3 DEF Waits
<1>12. \A c \in Contact : shown'[c] # None => shown[c] # None \/ Gives(1, c)
  BY <1>4, <1>5 DEF Gives, GivesList, Changes
<1>13. TouchedIsShown'
  <2> SUFFICES ASSUME ~blind, NEW c \in Contact, Touched(c)' PROVE shown'[c] # None
    BY DEF TouchedIsShown
  <2>1. Asked[1].do # "delete"
    BY <1>2, <1>4, <1>6, FormAssumption, ContactAssumption DEF Touched
  <2>2. Touched(c)
    BY <1>1, <1>2, <1>4, <2>1, FormAssumption DEF Touched
  <2>3. shown[c] # None
    BY <2>2 DEF TouchedIsShown
  <2>4. CASE 1 \in Took /\ Asked[1].do = "list"
    <3>1. GivesList(1)
      BY <2>4 DEF GivesList
    <3> QED
      BY <1>4, <1>5, <2>3, <2>4, <3>1 DEF ShownIsThere
  <2>5. CASE 1 \in Took /\ Asked[1].do # "list"
    BY <1>4, <1>5, <2>1, <2>3, <2>5, ContactAssumption DEF IsWhole
  <2>6. CASE 1 \notin Took
    BY <1>4, <2>3, <2>6
  <2> QED
    BY <2>4, <2>5, <2>6
<1>14. ShownIsThere'
  <2> SUFFICES ASSUME ~blind PROVE ShownIsThere'
    BY DEF ShownIsThere
  <2>1. ASSUME NEW c \in Contact, NEW j \in 1..Sent', GivesList(j)', shown'[c] # None
        PROVE  Got'[j][c] # None
    <3>1. j + 1 \in 1..Sent /\ 1 < j + 1 /\ GivesList(j + 1) /\ Got'[j] = Got[j + 1]
      BY <1>1, <1>2, <2>1
    <3> QED
      BY <1>5, <1>12, <2>1, <3>1 DEF ShownIsThere
  <2>2. ASSUME NEW c \in Contact, NEW i \in 1..Sent', NEW j \in 1..Sent', i < j,
               Gives(i, c)', GivesList(j)'
        PROVE  Got'[j][c] # None
    <3>1. i + 1 < j + 1 /\ i + 1 \in 1..Sent /\ j + 1 \in 1..Sent
      BY <1>1, <2>2
    <3> QED
      BY <1>1, <1>2, <2>2, <3>1 DEF ShownIsThere
  <2>3. ASSUME NEW c \in Contact, shown'[c] # None \/ (\E i \in 1..Sent' : Gives(i, c)')
        PROVE  file'[c] # None \/ IsDeleted(c)'
    <3>1. file[c] # None \/ IsDeleted(c)
      <4>1. shown[c] # None \/ \E i \in 1..Sent : Gives(i, c)
        BY <1>1, <1>2, <1>5, <1>12, <2>3
      <4> QED
        BY <4>1 DEF ShownIsThere
    <3>2. ASSUME NEW k \in Waiting({"delete"}), Changes(k, c), k # 1 PROVE IsDeleted(c)'
      <4>1. k \in 1..Sent
        BY <1>1 DEF Waiting
      <4>2. k - 1 \in 1..Sent' /\ (k - 1) + 1 = k
        BY <1>1, <3>2, <4>1
      <4>3. \A i1 \in 1..Sent' : i1 = k - 1 => i1 \in Waiting({"delete"})' /\ Changes(i1, c)'
        BY <1>2, <3>2, <4>2
      <4> QED
        BY <4>2, <4>3 DEF IsDeleted
    <3>3. ~(1 \in Waiting({"delete"}) /\ Changes(1, c))
      BY <1>4, <1>6, <2>3 DEF Waiting, Changes
    <3> QED
      BY <1>1, <3>1, <3>2, <3>3 DEF IsDeleted
  <2> QED
    BY <2>1, <2>2, <2>3 DEF ShownIsThere
<1>15. RestIsShown'
  <2> SUFFICES ASSUME NEW c \in Contact, Rests(c, 0)'
               PROVE  Agree(shown[c], file[c])' \/ (shown'[c] = None /\ ~fetched')
    BY DEF RestIsShown
  <2>1. Rests(c, 1)
    <3>1. \A i \in 0..Sent' : i = 0 => Rests(c, i + 1)
      BY <1>3
    <3>2. 0 \in 0..Sent' /\ 0 + 1 = 1
      BY <1>1
    <3> QED
      BY <3>1, <3>2
  <2>2. CASE GivesList(1)
    BY <1>1, <1>4, <1>5, <2>1, <2>2 DEF ListIsTrue, GivesList, Agree
  <2>3. CASE Changes(1, c)
    <3>1. Asked[1].do # "list" /\ 1 \in Took /\ Asked[1].c = c
      BY <1>5, <2>3, ContactAssumption DEF Changes, IsWhole
    <3>2. Agree(IF Asked[1].do = "delete" THEN None ELSE Asked[1].d, file[c])
      BY <1>5, <2>1, <2>3 DEF ChangeIsStored
    <3> QED
      BY <1>1, <1>4, <3>1, <3>2 DEF Agree
  <2>4. CASE ~GivesList(1) /\ ~Changes(1, c)
    <3>1. Rests(c, 0)
      <4> SUFFICES ASSUME NEW j \in 1..Sent, 0 < j, Changes(j, c) PROVE FALSE
        BY DEF Rests
      <4>1. 1 < j
        BY <1>1, <2>4
      <4> QED
        BY <2>1, <4>1 DEF Rests
    <3>2. Agree(shown[c], file[c]) \/ (shown[c] = None /\ ~fetched)
      BY <1>7, <3>1 DEF RestIsShown
    <3>3. shown'[c] = shown[c] /\ fetched' = fetched
      BY <1>4, <2>4 DEF GivesList, Changes
    <3> QED
      BY <1>1, <3>2, <3>3 DEF Agree
  <2> QED
    BY <2>2, <2>3, <2>4
<1> QED
  BY <1>2, <1>3, <1>8, <1>10, <1>11, <1>13, <1>14, <1>15

-----------------------------------------------------------------------------
\* The queue and the answers as the line sees them.
LEMMA LineIsQueue ==
  ASSUME StoreTypes, QueueTypes
  PROVE  /\ \A i \in DOMAIN answers :
               /\ i \in 1..Sent /\ i <= Back /\ Asked[i] = answers[i].req
               /\ (i \in Mine <=> answers[i].own)
         /\ \A i \in DOMAIN calls :
               /\ Back + i \in 1..Sent /\ Back + i > Back /\ Asked[Back + i] = calls[i].req
               /\ (Back + i \in Mine <=> calls[i].own)
         /\ \A k \in 1..Sent : \/ k \in DOMAIN answers
                               \/ k - Back \in DOMAIN calls /\ Back + (k - Back) = k
<1>1. /\ Len(answers) \in Nat /\ Len(calls) \in Nat /\ DOMAIN answers = 1..Len(answers)
      /\ DOMAIN calls = 1..Len(calls)
  BY DEF QueueTypes
<1>2. Back = Len(answers) /\ Sent = Len(answers) + Len(calls)
  BY DEF Back, Sent
<1>3. ASSUME NEW i \in DOMAIN answers
      PROVE  /\ i \in 1..Sent /\ i <= Back /\ Asked[i] = answers[i].req
             /\ (i \in Mine <=> answers[i].own)
  <2>1. i \in 1..Sent /\ i <= Back /\ ~(i > Back)
    BY <1>1, <1>2
  <2> QED
    BY <2>1 DEF Asked, Mine
<1>4. ASSUME NEW i \in DOMAIN calls
      PROVE  /\ Back + i \in 1..Sent /\ Back + i > Back /\ Asked[Back + i] = calls[i].req
             /\ (Back + i \in Mine <=> calls[i].own)
  <2>1. Back + i \in 1..Sent /\ Back + i > Back /\ ~(Back + i <= Back) /\ Back + i - Back = i
    BY <1>1, <1>2
  <2>2. \A k \in 1..Sent : k = Back + i => /\ Asked[k] = calls[k - Back].req
                                         /\ (k \in Mine <=> calls[k - Back].own)
    BY <2>1 DEF Asked, Mine
  <2>3. \A k : k = Back + i => k \in 1..Sent /\ calls[k - Back] = calls[i]
    BY <1>1, <1>2
  <2> QED
    BY <2>1, <2>2, <2>3
<1>5. \A k \in 1..Sent : k \in DOMAIN answers
           \/ (k - Back \in DOMAIN calls /\ Back + (k - Back) = k)
  BY <1>1, <1>2
<1> QED
  BY <1>3, <1>4, <1>5

\* The worker takes the next request.
LEMMA ServeStep ==
  ASSUME PageInv, Serve, UNCHANGED blind
  PROVE  LineInv'
<1>a. StoreTypes /\ QueueTypes
  BY TypeParts DEF PageInv
<1>1. step = "idle" /\ step' = "begun" /\ op' = Head(calls).req /\ calls # <<>>
      /\ UNCHANGED <<queues, pageVars, file, missed>>
  BY DEF Serve, Begin, usb
<1>2. Head(calls) = calls[1] /\ 1 \in DOMAIN calls
  BY <1>a, <1>1, TailFacts DEF QueueTypes
<1>3. Back' = Back /\ Sent' = Sent /\ Asked' = Asked /\ Back \in Nat /\ Sent \in Nat
  BY <1>a, <1>1, LineWaits, LineTypes
<1>4. Back + 1 \in 1..Sent /\ Asked[Back + 1] = calls[1].req
  BY <1>a, <1>2, LineIsQueue
<1>5. ServesFirst'
  BY <1>1, <1>2, <1>3, <1>4 DEF ServesFirst
<1> QED
  BY <1>1, <1>5, QuietWorkStep DEF PageInv, LineInv, MissIsKnown

\* The worker goes on.
LEMMA WorkStep ==
  ASSUME PageInv, Work
  PROVE  LineInv'
<1>a. StoreTypes /\ QueueTypes
  BY TypeParts DEF PageInv
<1>0. UNCHANGED <<queues, pageVars>> /\ (blind => blind') /\ (missed' => blind')
  BY DEF Work
<1>b. UNCHANGED missed => UNCHANGED blind
  BY TypeParts DEF Work, PageInv, LineInv, MissIsKnown, StoreTypes
<1>1. Back' = Back /\ Sent' = Sent /\ Asked' = Asked
  BY <1>a, <1>0, LineWaits
<1>2. ServesFirst
  BY DEF PageInv, LineInv
<1>3. CASE Load
  <2>1. ServesFirst'
    BY <1>1, <1>2, <1>3 DEF Load, ServesFirst
  <2> QED
    BY <1>0, <1>3, <2>1, QuietWorkStep DEF Load
<1>c. CASE List
  BY <1>0, <1>b, <1>c, ListStep DEF List, usb
<1>4. CASE Change \/ WriteTemp
  <2>1. ServesFirst'
    BY <1>1, <1>2, <1>4 DEF Change, WriteTemp, ServesFirst
  <2> QED
    BY <1>0, <1>4, <2>1, QuietWorkStep DEF Change, WriteTemp
<1>5. CASE Rename
  <2>1. CASE step' = "ok"
    BY <1>0, <1>b, <1>5, <2>1, CommitStep DEF Rename, usb
  <2>2. CASE step' # "ok"
    <3>1. ServesFirst' /\ step = "written" /\ file' = file
      BY <1>1, <1>2, <1>5, <2>2 DEF Rename, ServesFirst
    <3> QED
      BY <1>0, <2>2, <3>1, QuietWorkStep
  <2> QED
    BY <2>1, <2>2
<1> QED
  BY <1>3, <1>c, <1>4, <1>5 DEF Work, Progress

\* A form is saved: what it edits is shown, hence stored.
LEMMA SaveStep ==
  ASSUME PageInv, NEW d \in Data, Save(d), UNCHANGED blind
  PROVE  LineInv'
<1> USE DEF PageInv, LineInv
<1>a. PageTypes
  BY TypeParts
<1>1. /\ mounted /\ form # "closed" /\ ~saving /\ AskToSave(d) /\ saving' = TRUE /\ mounted'
      /\ UNCHANGED <<shown, fetched, form, target, deleting>>
  BY DEF Save
<1>2. ~deleting
  BY <1>1 DEF OneOverlay
<1>b. deleting \in BOOLEAN
  BY <1>a DEF PageTypes
<1>3. ASSUME NEW do \in {"add", "update"}, NEW c \in Contact, Ask(do, c, d),
             do = "update" => blind \/ shown[c] # None
      PROVE  LineInv'
  <2> DEFINE x == [req |-> [do |-> do, c |-> c, d |-> d], own |-> TRUE]
  <2>1. x \in Call /\ x.own = TRUE /\ x.req.do = do /\ x.req.c = c /\ x.req.d = d
    BY CallType
  <2>2. calls' = Append(calls, x) /\ UNCHANGED <<storeVars, answers>>
    BY <1>3 DEF Ask
  <2> HIDE DEF x
  <2>3. IsWhole(x.req)
    BY <2>1 DEF IsWhole
  <2>4. deleting' = (x.req.do = "delete") /\ saving' = (saving \/ x.req.do \in {"add", "update"})
    BY <1>1, <1>2, <1>b, <2>1
  <2> QED
    BY <1>1, <1>2, <1>3, <2>1, <2>2, <2>3, <2>4, AskStep
<1>4. CASE form = "add"
  BY <1>1, <1>3, <1>4 DEF AskToSave
<1>5. CASE form # "add"
  <2>1. form \in Contact /\ Ask("update", form, d)
    BY <1>a, <1>1, <1>5 DEF AskToSave, PageTypes
  <2>2. blind \/ shown[form] # None
    BY <2>1 DEF TouchedIsShown, Touched
  <2> QED
    BY <1>3, <2>1, <2>2
<1> QED
  BY <1>4, <1>5

\* The page asks for the list.
LEMMA ListAskStep ==
  ASSUME PageInv, Open \/ Retry, UNCHANGED blind
  PROVE  LineInv'
<1> USE DEF PageInv, LineInv
<1>a. PageTypes
  BY TypeParts
<1>1. /\ Ask("list", None, None) /\ mounted'
      /\ UNCHANGED <<shown, fetched, form, saving, target, deleting>>
  BY DEF Open, Retry, Uncovered
<1>2. ~deleting
  <2>1. CASE Open
    BY <2>1 DEF Open, NewPageIsEmpty, OneOverlay
  <2>2. CASE Retry
    BY <2>2 DEF Retry, Uncovered, OneOverlay
  <2> QED
    BY <2>1, <2>2
<1>b. deleting \in BOOLEAN /\ saving \in BOOLEAN
  BY <1>a DEF PageTypes
<1> DEFINE x == [req |-> [do |-> "list", c |-> None, d |-> None], own |-> TRUE]
<1>3. x \in Call /\ x.own = TRUE /\ x.req.do = "list" /\ x.req.c = None
  BY CallType
<1>4. calls' = Append(calls, x) /\ UNCHANGED <<storeVars, answers>>
  BY <1>1 DEF Ask
<1> HIDE DEF x
<1>5. IsWhole(x.req)
  BY <1>3 DEF IsWhole
<1>6. deleting' = (x.req.do = "delete") /\ saving' = (saving \/ x.req.do \in {"add", "update"})
  BY <1>1, <1>2, <1>b, <1>3
<1> QED
  BY <1>1, <1>2, <1>3, <1>4, <1>5, <1>6, AskStep

\* The page is opened while nothing is left of an earlier one: whatever was
\* missed no longer matters.
LEMMA OpenAfreshStep ==
  ASSUME PageInv, Open, calls = <<>>, answers = <<>>
  PROVE  LineInv'
<1> USE DEF PageInv, LineInv
<1>a. StoreTypes /\ QueueTypes
  BY TypeParts
<1> DEFINE x == [req |-> [do |-> "list", c |-> None, d |-> None], own |-> TRUE]
<1>1. x \in Call /\ x.own = TRUE /\ x.req.do = "list" /\ x.req.c = None
  BY CallType
<1>2. calls' = Append(calls, x) /\ UNCHANGED <<storeVars, answers>>
  BY DEF Open, Ask
<1> HIDE DEF x
<1>3. Back = 0 /\ Sent = 0
  BY DEF Back, Sent
<1>4. /\ Back' = 0 /\ Sent' = 1 /\ Asked'[1] = x.req /\ 1 \in Mine' /\ 1 \notin Took'
  BY <1>a, <1>1, <1>2, <1>3, LineGrows
<1>5. 1..Sent' = {1} /\ (Back' + 1)..Sent' = {1} /\ Mine' = {1} /\ Took' = {}
  <2>1. 1..Sent' = {1} /\ (Back' + 1)..Sent' = {1}
    BY <1>4
  <2> QED
    BY <1>4, <2>1 DEF Mine, Took
<1>6. step = "idle" /\ ~missed
  BY <1>3 DEF ServesFirst, StoreInv, StepKnows
<1>7. ~mounted /\ form = "closed" /\ target = None /\ shown = NoContact /\ ~fetched
  BY DEF Open, NewPageIsEmpty
<1>8. /\ step' = "idle" /\ ~missed' /\ mounted' /\ form' = "closed" /\ target' = None
      /\ shown' = NoContact /\ ~fetched' /\ saving' = saving /\ deleting' = deleting
  BY <1>2, <1>6, <1>7 DEF Open, storeVars
<1>9. ~saving /\ ~deleting
  <2>1. Mine = {}
    BY <1>3 DEF Mine
  <2> QED
    BY <2>1 DEF Waits, Waiting
<1>10. Waiting({"add", "update"})' = {} /\ Waiting({"delete"})' = {}
       /\ Waiting({"update", "delete"})' = {}
  BY <1>1, <1>4, <1>5 DEF Waiting
<1>11. ServesFirst' /\ MissIsKnown' /\ RequestsAreWhole' /\ InOrder'
  BY <1>1, <1>4, <1>5, <1>8 DEF ServesFirst, MissIsKnown, RequestsAreWhole, InOrder, IsWhole
<1>12. NewPageIsEmpty' /\ OneOverlay' /\ DeleteIsLast' /\ Waits'
  BY <1>5, <1>8, <1>9, <1>10 DEF NewPageIsEmpty, OneOverlay, DeleteIsLast, Waits
<1>13. TouchedIsShown'
  BY <1>8, <1>10, FormAssumption, ContactAssumption DEF TouchedIsShown, Touched
<1>14. ShownIsThere' /\ RestIsShown'
  BY <1>5, <1>8
     DEF ShownIsThere, Gives, GivesList, Changes, RestIsShown, NoContact, Promise!NoContact
<1>15. ChangeIsStored' /\ ListIsTrue'
  BY <1>5 DEF ChangeIsStored, ListIsTrue, Changes, GivesList
<1>16. NothingIsGone'
  BY <1>1, <1>4, <1>5 DEF NothingIsGone, DeletedOnce, StillThere
<1> QED
  BY <1>11, <1>12, <1>13, <1>14, <1>15, <1>16

\* A deletion is confirmed.
LEMMA ConfirmStep ==
  ASSUME PageInv, ConfirmDelete, UNCHANGED blind
  PROVE  LineInv'
<1> USE DEF PageInv, LineInv
<1>a. PageTypes
  BY TypeParts
<1>1. /\ Ask("delete", target, None) /\ mounted /\ mounted' /\ target # None
      /\ ~deleting /\ deleting' = TRUE
      /\ UNCHANGED <<shown, fetched, form, saving, target>>
  BY DEF ConfirmDelete
<1>2. target \in Contact /\ saving \in BOOLEAN
  BY <1>a, <1>1 DEF PageTypes
<1> DEFINE x == [req |-> [do |-> "delete", c |-> target, d |-> None], own |-> TRUE]
<1>3. x \in Call /\ x.own = TRUE /\ x.req.do = "delete" /\ x.req.c = target
  BY <1>2, CallType
<1>4. calls' = Append(calls, x) /\ UNCHANGED <<storeVars, answers>>
  BY <1>1 DEF Ask
<1> HIDE DEF x
<1>5. IsWhole(x.req)
  BY <1>2, <1>3 DEF IsWhole
<1>6. deleting' = (x.req.do = "delete") /\ saving' = (saving \/ x.req.do \in {"add", "update"})
  BY <1>1, <1>2, <1>3
<1>7. blind \/ shown[target] # None
  BY <1>2 DEF TouchedIsShown, Touched
<1> QED
  BY <1>1, <1>3, <1>4, <1>5, <1>6, <1>7, AskStep

\* Every step keeps it.
LEMMA LineInvStep == PageInv /\ [Next]_vars => LineInv'
<1> SUFFICES ASSUME PageInv, [Next]_vars PROVE LineInv'
  OBVIOUS
<1>0. OneOverlay
  BY DEF PageInv, LineInv
<1>o. CASE Open
  BY <1>o, ListAskStep, OpenAfreshStep, TypeParts DEF Open, PageInv
<1> USE DEF storeVars, usb
<1>1. ASSUME Retry, UNCHANGED blind PROVE LineInv'
  BY <1>1, ListAskStep
<1>2. ASSUME Leave, UNCHANGED blind PROVE LineInv'
  BY <1>2, LeaveStep
<1>3. ASSUME NEW f \in Contact \cup {"add"}, OpenForm(f), UNCHANGED blind PROVE LineInv'
  <2>1. OneOverlay'
    BY <1>0, <1>3 DEF OpenForm, Uncovered, OneOverlay
  <2> QED
    BY <1>3, <2>1, LookStep DEF OpenForm, Uncovered
<1>4. ASSUME CloseForm, UNCHANGED blind PROVE LineInv'
  <2>1. OneOverlay'
    BY <1>0, <1>4 DEF CloseForm, OneOverlay
  <2> QED
    BY <1>4, <2>1, LookStep DEF CloseForm
<1>5. ASSUME NEW d \in Data, Save(d), UNCHANGED blind PROVE LineInv'
  BY <1>5, SaveStep
<1>6. ASSUME NEW c \in Contact, AskDelete(c), UNCHANGED blind PROVE LineInv'
  <2>1. OneOverlay' /\ ~deleting
    BY <1>0, <1>6, ContactAssumption DEF AskDelete, Uncovered, OneOverlay
  <2> QED
    BY <1>6, <2>1, LookStep DEF AskDelete, Uncovered
<1>7. ASSUME CancelDelete, UNCHANGED blind PROVE LineInv'
  <2>1. OneOverlay'
    BY <1>0, <1>7 DEF CancelDelete, OneOverlay
  <2> QED
    BY <1>7, <2>1, LookStep DEF CancelDelete
<1>8. ASSUME ConfirmDelete, UNCHANGED blind PROVE LineInv'
  BY <1>8, ConfirmStep
<1>9. ASSUME Serve, UNCHANGED blind PROVE LineInv'
  BY <1>9, ServeStep
<1>10. CASE Work
  BY <1>10, WorkStep
<1>11. ASSUME Return, UNCHANGED blind PROVE LineInv'
  BY <1>11, ReturnStep
<1>12. CASE Die
  BY <1>12, DieStep
<1>13. ASSUME Answer, UNCHANGED blind PROVE LineInv'
  BY <1>13, StrayAnswerStep, OwnAnswerStep
<1>14. ASSUME UNCHANGED vars \/ (Pull /\ UNCHANGED blind) PROVE LineInv'
  <2>1. /\ UNCHANGED <<file, mem, op, step, missed, blind, queues>>
        /\ UNCHANGED <<mounted, shown, fetched, saving, deleting, form, target>>
    BY <1>14 DEF vars, pageVars, Pull, Plug
  <2>2. CASE mounted
    BY <1>0, <2>1, <2>2, LookStep DEF OneOverlay
  <2>3. CASE ~mounted
    BY <2>1, LineStays
       DEF PageInv, LineInv, ServesFirst, MissIsKnown, RequestsAreWhole, InOrder, NewPageIsEmpty,
           OneOverlay, DeleteIsLast, Waits, TouchedIsShown, Touched, ShownIsThere, IsDeleted,
           Gives, GivesList, Changes, Waiting, RestIsShown, ChangeIsStored, ListIsTrue, Agree,
           Rests, NothingIsGone, DeletedOnce, StillThere
  <2> QED
    BY <2>2, <2>3
<1> QED
  BY <1>o, <1>1, <1>2, <1>3, <1>4, <1>5, <1>6, <1>7, <1>8, <1>9, <1>10, <1>11, <1>12, <1>13, <1>14
     DEF Next, Steady

\* It says what the page promises.
LEMMA LineIsTrue == PageInv => PageIsTrue
<1> SUFFICES ASSUME PageInv PROVE PageIsTrue
  OBVIOUS
<1> USE DEF PageInv, LineInv
<1>a. StoreTypes /\ QueueTypes /\ PageTypes
  BY TypeParts
<1>0. Back \in Nat /\ Sent \in Nat /\ Mine \subseteq 1..Sent
  BY <1>a, LineTypes
<1>1. /\ \A i \in DOMAIN answers :
            /\ i \in 1..Sent /\ i <= Back /\ Asked[i] = answers[i].req
            /\ (i \in Mine <=> answers[i].own)
      /\ \A i \in DOMAIN calls :
            /\ Back + i \in 1..Sent /\ Back + i > Back /\ Asked[Back + i] = calls[i].req
            /\ (Back + i \in Mine <=> calls[i].own)
      /\ \A k \in 1..Sent : \/ k \in DOMAIN answers
                            \/ k - Back \in DOMAIN calls /\ Back + (k - Back) = k
  BY <1>a, LineIsQueue
<1>b. DOMAIN answers \subseteq Nat /\ DOMAIN calls \subseteq Nat
  BY <1>a DEF QueueTypes
<1>2. ShownIsStored
  <2> SUFFICES ASSUME NEW c \in Contact, mounted, ~PendingOn(c)
               PROVE  Agree(shown[c], file[c]) \/ (shown[c] = None /\ ~fetched)
    BY DEF ShownIsStored, Agree
  <2>1. ASSUME NEW j \in 1..Sent, Changes(j, c) PROVE FALSE
    <3>1. j \in Mine /\ Asked[j].c = c
      BY <2>1 DEF Changes
    <3> QED
      BY <1>1, <3>1 DEF PendingOn
  <2> QED
    BY <2>1 DEF RestIsShown, Rests
<1>3. ASSUME NEW kinds
      PROVE  /\ \A i \in Own(answers, kinds) : i \in Waiting(kinds) /\ i <= Back
             /\ \A i \in Own(calls, kinds) : Back + i \in Waiting(kinds) /\ Back + i > Back
             /\ Pending(kinds) <=> Waiting(kinds) # {}
  <2>1. \A i \in Own(answers, kinds) : i \in Waiting(kinds) /\ i <= Back
    BY <1>1 DEF Own, Waiting
  <2>2. \A i \in Own(calls, kinds) : Back + i \in Waiting(kinds) /\ Back + i > Back
    BY <1>1 DEF Own, Waiting
  <2>3. ASSUME NEW k \in Waiting(kinds) PROVE Pending(kinds)
    <3>1. k \in 1..Sent /\ k \in Mine /\ Asked[k].do \in kinds
      BY <1>0 DEF Waiting
    <3>2. CASE k \in DOMAIN answers
      <4>1. k \in Own(answers, kinds)
        BY <1>1, <3>1, <3>2 DEF Own
      <4> QED
        BY <4>1 DEF Pending
    <3>3. CASE k - Back \in DOMAIN calls /\ Back + (k - Back) = k
      <4>1. k - Back \in Own(calls, kinds)
        BY <1>1, <3>1, <3>3 DEF Own
      <4> QED
        BY <4>1 DEF Pending
    <3> QED
      BY <1>1, <3>1, <3>2, <3>3
  <2> QED
    BY <2>1, <2>2, <2>3 DEF Pending
<1>4. ASSUME NEW kinds, \A i, j \in Waiting(kinds) : i = j PROVE AtMostOne(kinds)
  <2>1. \A i \in Own(calls, kinds) : i \in Nat
    BY <1>b DEF Own
  <2>2. ASSUME NEW i \in Own(calls, kinds), NEW j \in Own(calls, kinds) PROVE i = j
    <3>1. Back + i = Back + j
      BY <1>3, <1>4
    <3> QED
      BY <1>0, <2>1, <3>1
  <2>3. ASSUME NEW i \in Own(calls, kinds), NEW j \in Own(answers, kinds) PROVE FALSE
    <3>1. Back + i = j /\ j <= Back /\ Back + i > Back
      BY <1>3, <1>4
    <3> QED
      BY <1>0, <2>1, <3>1
  <2>4. \A i, j \in Own(answers, kinds) : i = j
    BY <1>3, <1>4
  <2> QED
    BY <2>2, <2>3, <2>4 DEF AtMostOne
<1>5. WaitsForItsCall
  <2>1. AtMostOne({"add", "update"}) /\ AtMostOne({"delete"})
    BY <1>4 DEF Waits, DeleteIsLast
  <2>2. /\ saving <=> Pending({"add", "update"})
        /\ deleting <=> Pending({"delete"})
    BY <1>3 DEF Waits
  <2>3. \A i \in Own(calls, {"delete"}) : calls[i].req.c = target
    BY <1>1, <1>3 DEF DeleteIsLast, Own
  <2>4. \A i \in Own(answers, {"delete"}) : answers[i].req.c = target
    BY <1>1, <1>3 DEF DeleteIsLast, Own
  <2> QED
    BY <2>1, <2>2, <2>3, <2>4 DEF WaitsForItsCall
<1>6. NothingIsMissing
  <2> SUFFICES ASSUME step = "loaded", op.do \in {"update", "delete"}, ~blind
               PROVE  mem[op.c] # None
    BY DEF NothingIsMissing
  <2>1. Back + 1 \in (Back + 1)..Sent /\ op = Asked[Back + 1]
    BY <1>0 DEF ServesFirst
  <2>2. file[op.c] # None
    BY <2>1 DEF NothingIsGone, StillThere
  <2> QED
    BY <2>2 DEF StoreInv, StepKnows, Seen, MissIsKnown
<1> QED
  BY <1>2, <1>5, <1>6 DEF PageIsTrue

\* The list says of every contact what is stored of it, unless a request of
\* this page on that contact is under way; the page waits for just what it
\* asked; and no edit or deletion meets a contact that is gone (AddressBook.tsx,
\* useContacts.ts).  A stick that was out when a request read (store.go,
\* NewContactStore) makes the list or the file lack contacts, but never say
\* different things of one.
THEOREM PageTellsTheTruth == Spec => []PageIsTrue
<1>1. Init => PageInv
  BY TypeInit, StoreInvInit, LineInvInit DEF Init, PageInv
<1>2. PageInv /\ [Next]_vars => PageInv'
  BY TypeStep, PageStep, StoreInvStep, LineInvStep DEF PageInv
<1>3. PageInv => PageIsTrue
  BY LineIsTrue
<1> QED
  BY <1>1, <1>2, <1>3, PTL DEF Spec

-----------------------------------------------------------------------------
(***************************************************************************)
(* The wallets of the stick and the home page.                             *)
(***************************************************************************)
USE HomeAssumption

New == {"create", "import", "restore"}
Reloads == {"import", "restore", "delete"}

\* Requests are served in their order.
ServedInOrder ==
    \A i, j \in 1..Len(homeCalls) : i < j /\ homeCalls[i].done = "no" => homeCalls[j].done = "no"

\* The wallet a request creates is not on the stick before it is served, and
\* was never there; no two requests create the same.
NamesAreNew ==
    /\ \A i \in 1..Len(homeCalls) : homeCalls[i].op \in New =>
          homeCalls[i].w \in Wallet /\ (homeCalls[i].done = "no" =>
             homeCalls[i].w \notin stick \cup gone)
    /\ \A i, j \in 1..Len(homeCalls) :
          homeCalls[i].op \in New /\ homeCalls[j].op \in New
               /\ homeCalls[i].w = homeCalls[j].w => i = j

\* What the page before a lock asked comes before what the page after it asks.
HostsAreLater ==
    \A i, j \in 1..Len(homeCalls) :
        homeCalls[i].host /\ homeCalls[j].op \in Reloads /\ ~homeCalls[j].host => j < i

QueueInv == Home!TypeOK /\ ServedInOrder /\ NamesAreNew /\ HostsAreLater /\ Home!DeletingHasCall

\* The wallets that answers after the first k will add to the list.
Added(k) == {homeCalls[j].w : j \in {i \in 1..Len(homeCalls) :
                i > k /\ homeCalls[i].op \in {"create", "import"} /\ homeCalls[i].done = "ok"}}

\* From the k-th on, an answered list and what later answers add are the stick.
ListsAgree(k) ==
    \A i \in 1..Len(homeCalls) :
        i >= k /\ homeCalls[i].op = "list" /\ homeCalls[i].done = "ok" =>
           stick = homeCalls[i].got \cup Added(i)

\* The list is going to be read again, or an error is shown.
ReadAgain ==
    \/ read = "error" \/ view = "locked"
    \/ \E l \in loads : l.host
    \/ \E i \in 1..Len(homeCalls) :
          homeCalls[i].op \in Reloads /\ homeCalls[i].host /\ homeCalls[i].done = "ok"
    \/ \E i \in 1..Len(homeCalls) :
          homeCalls[i].op = "list" /\ homeCalls[i].host /\ homeCalls[i].done \in {"no", "failed"}

\* An answer on its way makes the list right.
ReadRight ==
    \E i \in 1..Len(homeCalls) :
        homeCalls[i].op = "list" /\ homeCalls[i].host
             /\ homeCalls[i].done \in {"ok", "blind"} /\ ListsAgree(i)

\* The list and the answers on their way are right.
IsRight ==
    /\ read = "blind" \/ stick = list \cup Added(0)
    /\ ListsAgree(1)
    /\ \A i \in 1..Len(homeCalls) :
          homeCalls[i].op \in Reloads /\ homeCalls[i].done = "no" => homeCalls[i].host

WillBeRight == ReadAgain \/ ReadRight \/ IsRight

\* Only the page of a wallet waits for its password, and for one that was
\* entered on it.
DetailInv ==
    /\ entered # None => view = "detail" /\ entered \in asked
    /\ \A i \in 1..Len(homeCalls) : homeCalls[i].op = "unlock" /\ homeCalls[i].own =>
          view = "detail" /\ homeCalls[i].w \in asked

\* A phrase that is owed is shown, or is in the answer to the one creation the
\* page waits for.
PhraseInv ==
    /\ phrase # None => view = "create"
    /\ \A i \in 1..Len(homeCalls) : homeCalls[i].op = "create" /\ homeCalls[i].own =>
          view = "create" /\ phrase = None
    /\ \A i, j \in 1..Len(homeCalls) :
          homeCalls[i].op = "create" /\ homeCalls[i].own /\ homeCalls[j].op = "create"
               /\ homeCalls[j].own => i = j
    /\ \A w \in owed : w = phrase \/ \E i \in 1..Len(homeCalls) :
          homeCalls[i].op = "create" /\ homeCalls[i].own /\ homeCalls[i].done = "ok"
               /\ homeCalls[i].w = w

-----------------------------------------------------------------------------
(***************************************************************************)
(* What a step does to the queue.                                          *)
(***************************************************************************)
\* The first d answers are handled; pages may forget that they asked.
Moves(d) ==
    /\ Len(homeCalls') = Len(homeCalls) - d
    /\ \A i \in 1..Len(homeCalls') :
          /\ homeCalls'[i].op = homeCalls[i + d].op /\ homeCalls'[i].w = homeCalls[i + d].w
          /\ homeCalls'[i].done = homeCalls[i + d].done
          /\ homeCalls'[i].host = homeCalls[i + d].host
          /\ homeCalls'[i].got = homeCalls[i + d].got
          /\ homeCalls'[i].own => homeCalls[i + d].own

\* One request more.
Adds(c) ==
    /\ homeCalls' = Append(homeCalls, c)
    /\ c \in Home!Call /\ c.done = "no"
    /\ c.op \in Reloads => c.host
    /\ c.op \in New => c.w \in Home!Fresh

LEMMA CallFields ==
  ASSUME NEW c \in Home!Call
  PROVE  /\ c.op \in {"list", "create", "import", "restore", "export", "delete", "unlock"}
         /\ c.w \in Wallet \cup {None} /\ c.done \in {"no", "ok", "blind", "failed"}
         /\ c.own \in BOOLEAN /\ c.host \in BOOLEAN /\ c.got \in SUBSET Wallet
         /\ c.first \in BOOLEAN
  BY DEF Home!Call

LEMMA RequestType ==
  ASSUME NEW kind \in {"list", "create", "import", "restore", "export", "delete", "unlock"},
         NEW w \in Wallet \cup {None}
  PROVE  /\ Home!Request(kind, w) \in Home!Call
         /\ Home!Request(kind, w).op = kind /\ Home!Request(kind, w).w = w
         /\ Home!Request(kind, w).done = "no"
         /\ Home!Request(kind, w).own = (kind \notin {"list", "delete"})
         /\ Home!Request(kind, w).host = (kind \in {"list", "delete", "import", "restore"})
  BY DEF Home!Request, Home!Call

LEMMA NoneMoves ==
  ASSUME Home!TypeOK, UNCHANGED homeCalls
  PROVE  Moves(0)
  BY DEF Home!TypeOK, Moves

LEMMA TailMoves ==
  ASSUME Home!TypeOK, homeCalls # <<>>, homeCalls' = Tail(homeCalls)
  PROVE  homeCalls' \in Seq(Home!Call) /\ Moves(1)
<1>1. homeCalls \in Seq(Home!Call) /\ Len(homeCalls) \in Nat /\ Len(homeCalls) # 0
  BY DEF Home!TypeOK
<1>2. Len(Tail(homeCalls)) = Len(homeCalls) - 1 /\ Tail(homeCalls) \in Seq(Home!Call)
  BY <1>1
<1>3. \A i \in 1..Len(Tail(homeCalls)) : Tail(homeCalls)[i] = homeCalls[i + 1]
  BY <1>1, <1>2
<1> QED
  BY <1>1, <1>2, <1>3 DEF Moves

LEMMA FlagsOff ==
  ASSUME NEW c \in Home!Call, NEW o,
         o = [c EXCEPT !.own = FALSE] \/ o = [c EXCEPT !.host = FALSE]
  PROVE  /\ o \in Home!Call
         /\ o.op = c.op /\ o.w = c.w /\ o.done = c.done /\ o.got = c.got
         /\ o = [c EXCEPT !.own = FALSE] => ~o.own /\ o.host = c.host
         /\ o = [c EXCEPT !.host = FALSE] => ~o.host
  BY DEF Home!Call

LEMMA Forgets ==
  ASSUME NEW cs \in Seq(Home!Call)
  PROVE  LET t == [i \in DOMAIN cs |-> [cs[i] EXCEPT !.own = FALSE]]
         IN  /\ t \in Seq(Home!Call) /\ Len(t) = Len(cs)
             /\ \A i \in 1..Len(cs) :
                   /\ t[i].op = cs[i].op /\ t[i].w = cs[i].w /\ t[i].done = cs[i].done
                   /\ t[i].host = cs[i].host /\ t[i].got = cs[i].got /\ ~t[i].own
<1> DEFINE t == [i \in DOMAIN cs |-> [cs[i] EXCEPT !.own = FALSE]]
<1>1. DOMAIN cs = 1..Len(cs) /\ Len(cs) \in Nat
  OBVIOUS
<1>2. \A i \in 1..Len(cs) : cs[i] \in Home!Call
  OBVIOUS
<1>3. \A i \in 1..Len(cs) : t[i] = [cs[i] EXCEPT !.own = FALSE]
  BY <1>1
<1>4. \A i \in 1..Len(cs) :
         /\ t[i] \in Home!Call
         /\ t[i].op = cs[i].op /\ t[i].w = cs[i].w /\ t[i].done = cs[i].done
         /\ t[i].host = cs[i].host /\ t[i].got = cs[i].got /\ ~t[i].own
  <2> HIDE DEF t
  <2> SUFFICES ASSUME NEW i \in 1..Len(cs)
               PROVE  /\ t[i] \in Home!Call
                      /\ t[i].op = cs[i].op /\ t[i].w = cs[i].w /\ t[i].done = cs[i].done
                      /\ t[i].host = cs[i].host /\ t[i].got = cs[i].got /\ ~t[i].own
    OBVIOUS
  <2>1. cs[i] \in Home!Call /\ t[i] = [cs[i] EXCEPT !.own = FALSE]
    BY <1>2, <1>3
  <2> QED
    BY <2>1, FlagsOff
<1>5. t \in Seq(Home!Call) /\ Len(t) = Len(cs)
  <2>1. t = [i \in 1..Len(cs) |-> t[i]]
    BY <1>1
  <2>2. t \in [1..Len(cs) -> Home!Call]
    <3> HIDE DEF t
    <3> QED
      BY <2>1, <1>4
  <2>3. DOMAIN t = 1..Len(cs)
    BY <1>1
  <2> HIDE DEF t
  <2> QED
    BY <1>1, <2>2, <2>3
<1> QED
  BY <1>4, <1>5

LEMMA ShowMoves ==
  ASSUME Home!TypeOK, NEW v, Home!Show(v, homeCalls)
  PROVE  /\ homeCalls' \in Seq(Home!Call) /\ Moves(0)
         /\ v # view => \A i \in 1..Len(homeCalls') : ~homeCalls'[i].own
<1>1. homeCalls \in Seq(Home!Call) /\ Len(homeCalls) \in Nat
  BY DEF Home!TypeOK
<1>2. CASE v = view
  BY <1>1, <1>2, NoneMoves DEF Home!Show
<1>3. CASE v # view
  <2> DEFINE t == [i \in DOMAIN homeCalls |-> [homeCalls[i] EXCEPT !.own = FALSE]]
  <2>1. homeCalls' = t
    BY <1>3 DEF Home!Show
  <2>2. /\ t \in Seq(Home!Call) /\ Len(t) = Len(homeCalls)
        /\ \A i \in 1..Len(homeCalls) :
              /\ t[i].op = homeCalls[i].op /\ t[i].w = homeCalls[i].w
              /\ t[i].done = homeCalls[i].done
              /\ t[i].host = homeCalls[i].host /\ t[i].got = homeCalls[i].got /\ ~t[i].own
    BY <1>1, Forgets
  <2> HIDE DEF t
  <2> QED
    BY <1>1, <2>1, <2>2 DEF Moves
<1> QED
  BY <1>2, <1>3

LEMMA ShowTailMoves ==
  ASSUME Home!TypeOK, homeCalls # <<>>, NEW v, Home!Show(v, Tail(homeCalls))
  PROVE  /\ homeCalls' \in Seq(Home!Call) /\ Moves(1)
         /\ v # view => \A i \in 1..Len(homeCalls') : ~homeCalls'[i].own
<1>1. homeCalls \in Seq(Home!Call) /\ Len(homeCalls) \in Nat /\ Len(homeCalls) # 0
  BY DEF Home!TypeOK
<1>2. Len(Tail(homeCalls)) = Len(homeCalls) - 1 /\ Tail(homeCalls) \in Seq(Home!Call)
  BY <1>1
<1>3. \A i \in 1..Len(Tail(homeCalls)) : Tail(homeCalls)[i] = homeCalls[i + 1]
  BY <1>1, <1>2
<1>4. CASE v = view
  BY <1>4, TailMoves DEF Home!Show
<1>5. CASE v # view
  <2> DEFINE t == [i \in DOMAIN Tail(homeCalls) |-> [Tail(homeCalls)[i] EXCEPT !.own = FALSE]]
  <2>1. homeCalls' = t
    BY <1>5 DEF Home!Show
  <2>2. /\ t \in Seq(Home!Call) /\ Len(t) = Len(Tail(homeCalls))
        /\ \A i \in 1..Len(Tail(homeCalls)) :
              /\ t[i].op = Tail(homeCalls)[i].op /\ t[i].w = Tail(homeCalls)[i].w
              /\ t[i].done = Tail(homeCalls)[i].done /\ t[i].host = Tail(homeCalls)[i].host
              /\ t[i].got = Tail(homeCalls)[i].got /\ ~t[i].own
    BY <1>2, Forgets
  <2> HIDE DEF t
  <2>3. Len(homeCalls') = Len(homeCalls) - 1 /\ 1..Len(homeCalls') = 1..Len(Tail(homeCalls))
    BY <1>2, <2>1, <2>2
  <2> QED
    BY <1>3, <2>1, <2>2, <2>3 DEF Moves
<1> QED
  BY <1>4, <1>5

\* The queue of a lock: nobody waits.
LEMMA LockMoves ==
  ASSUME Home!TypeOK, Home!Lock
  PROVE  /\ homeCalls' \in Seq(Home!Call) /\ Len(homeCalls') = Len(homeCalls)
         /\ \A i \in 1..Len(homeCalls') :
               /\ homeCalls'[i].op = homeCalls[i].op /\ homeCalls'[i].w = homeCalls[i].w
               /\ homeCalls'[i].done = homeCalls[i].done /\ homeCalls'[i].got = homeCalls[i].got
               /\ ~homeCalls'[i].own /\ ~homeCalls'[i].host
<1> DEFINE t == [i \in DOMAIN homeCalls |-> [homeCalls[i] EXCEPT !.host = FALSE]]
<1>1. DOMAIN homeCalls = 1..Len(homeCalls) /\ Len(homeCalls) \in Nat
           /\ homeCalls \in Seq(Home!Call)
  BY DEF Home!TypeOK
<1>2. \A i \in 1..Len(homeCalls) : homeCalls[i] \in Home!Call
  BY <1>1
<1>3. \A i \in 1..Len(homeCalls) : t[i] = [homeCalls[i] EXCEPT !.host = FALSE]
  BY <1>1
<1>4. \A i \in 1..Len(homeCalls) :
         /\ t[i] \in Home!Call
         /\ t[i].op = homeCalls[i].op /\ t[i].w = homeCalls[i].w /\ t[i].done = homeCalls[i].done
         /\ ~t[i].host /\ t[i].got = homeCalls[i].got
  <2> HIDE DEF t
  <2> SUFFICES ASSUME NEW i \in 1..Len(homeCalls)
               PROVE  /\ t[i] \in Home!Call
                      /\ t[i].op = homeCalls[i].op /\ t[i].w = homeCalls[i].w
                      /\ t[i].done = homeCalls[i].done /\ ~t[i].host
                      /\ t[i].got = homeCalls[i].got
    OBVIOUS
  <2>1. homeCalls[i] \in Home!Call /\ t[i] = [homeCalls[i] EXCEPT !.host = FALSE]
    BY <1>2, <1>3
  <2> QED
    BY <2>1, FlagsOff
<1>5. t \in Seq(Home!Call) /\ Len(t) = Len(homeCalls)
  <2>1. t = [i \in 1..Len(homeCalls) |-> t[i]] /\ DOMAIN t = 1..Len(homeCalls)
    BY <1>1
  <2> HIDE DEF t
  <2>2. t \in [1..Len(homeCalls) -> Home!Call]
    BY <2>1, <1>4
  <2> QED
    BY <1>1, <2>1, <2>2
<1>6. Home!Show("locked", t) /\ view # "locked"
  BY DEF Home!Lock, Home!TakenAway
<1> HIDE DEF t
<1>7. homeCalls' = [i \in DOMAIN t |-> [t[i] EXCEPT !.own = FALSE]]
  BY <1>6 DEF Home!Show
<1> QED
  BY <1>1, <1>4, <1>5, <1>7, Forgets

-----------------------------------------------------------------------------
(***************************************************************************)
(* Types.                                                                  *)
(***************************************************************************)
Types ==
    /\ plugged \in BOOLEAN /\ loading \in BOOLEAN /\ homeDeleting \in BOOLEAN /\ asked \subseteq Wallet
    /\ stick \subseteq Wallet /\ gone \subseteq Wallet /\ list \subseteq Wallet
    /\ owed \subseteq Wallet /\ stick \cap gone = {}
    /\ selected \in Wallet \cup {None} /\ toDelete \in Wallet \cup {None}
    /\ entered \in Wallet \cup {None} /\ phrase \in Wallet \cup {None}
    /\ view \in Home!View
    /\ read \in {"stick", "error", "blind"}
    /\ loads \subseteq [first : BOOLEAN, host : BOOLEAN]

LEMMA TypesAre ==
  ASSUME Home!TypeOK
  PROVE  /\ Types /\ homeCalls \in Seq(Home!Call) /\ Len(homeCalls) \in Nat
         /\ DOMAIN homeCalls = 1..Len(homeCalls)
         /\ \A i \in 1..Len(homeCalls) : homeCalls[i] \in Home!Call
         /\ homeCalls # <<>> =>
               Len(homeCalls) # 0 /\ Head(homeCalls) = homeCalls[1] /\ 1 \in 1..Len(homeCalls)
<1>1. Types
  BY DEF Home!TypeOK, Types
<1> QED
  BY <1>1 DEF Home!TypeOK

LEMMA TypesNext ==
  ASSUME Types', homeCalls' \in Seq(Home!Call)
  PROVE  Home!TypeOK'
  BY DEF Home!TypeOK, Types

LEMMA LoadTypes ==
  ASSUME Types, Home!Load
  PROVE  loads' \subseteq [first : BOOLEAN, host : BOOLEAN] /\ loading' = TRUE /\ read' = "stick"
<1> DEFINE b == selected = None
<1>1. b \in BOOLEAN
  OBVIOUS
<1>2. loads' = loads \cup {[first |-> b, host |-> TRUE]} /\ loading' = TRUE /\ read' = "stick"
  BY DEF Home!Load
<1> HIDE DEF b
<1>3. [first |-> b, host |-> TRUE] \in [first : BOOLEAN, host : BOOLEAN]
  BY <1>1
<1> QED
  BY <1>2, <1>3 DEF Types

LEMMA ShowTypes ==
  ASSUME Types, NEW v \in Home!View, NEW cs, Home!Show(v, cs)
  PROVE  /\ view' \in Home!View /\ asked' \subseteq Wallet
         /\ entered' \in Wallet \cup {None} /\ phrase' \in Wallet \cup {None}
  BY DEF Home!Show, Types

LEMMA TakenTypes ==
  ASSUME Types, NEW v \in Home!View, NEW cs, Home!TakenAway(v, cs)
  PROVE  /\ Home!Show(v, cs) /\ owed' \subseteq Wallet
         /\ view' \in Home!View /\ asked' \subseteq Wallet
         /\ entered' \in Wallet \cup {None} /\ phrase' \in Wallet \cup {None}
  BY ShowTypes DEF Home!TakenAway, Types

LEMMA BackTypes ==
  ASSUME Types, NEW c \in Home!Call, Home!BackWithSuccess(c)
  PROVE  /\ owed' \subseteq Wallet /\ view' \in Home!View /\ asked' \subseteq Wallet
         /\ entered' \in Wallet \cup {None} /\ phrase' \in Wallet \cup {None}
         /\ loads' \subseteq [first : BOOLEAN, host : BOOLEAN] /\ loading' \in BOOLEAN
         /\ read' \in {"stick", "error", "blind"}
<1>1. CASE c.done = "ok" /\ c.host
  <2>1. Home!TakenAway("list", Tail(homeCalls)) /\ Home!Load
    BY <1>1 DEF Home!BackWithSuccess
  <2>2. "list" \in Home!View
    BY DEF Home!View
  <2> QED
    BY <2>1, <2>2, TakenTypes, LoadTypes
<1>2. CASE ~(c.done = "ok" /\ c.host)
  BY <1>2 DEF Home!BackWithSuccess, Home!page, Home!reload, Home!history, Types
<1> QED
  BY <1>1, <1>2

LEMMA AnswerTypes ==
  ASSUME Home!TypeOK, NamesAreNew, Home!Answer
  PROVE  Types'
<1> DEFINE c == Head(homeCalls)
<1>1. /\ Types /\ c \in Home!Call /\ homeCalls # <<>> /\ c = homeCalls[1]
      /\ 1 \in 1..Len(homeCalls)
      /\ c.op \in New => c.w \in Wallet
  BY TypesAre DEF Home!Answer, NamesAreNew
<1>2. /\ c.w \in Wallet \cup {None} /\ c.got \subseteq Wallet /\ c.host \in BOOLEAN
      /\ c.done \in {"no", "ok", "blind", "failed"}
  BY <1>1, CallFields
<1>3. \/ c.op = "list" /\ Home!ListAnswers(c)
      \/ c.op = "unlock" /\ Home!UnlockAnswers(c)
      \/ c.op = "create" /\ Home!CreateAnswers(c)
      \/ c.op = "import" /\ Home!ImportAnswers(c)
      \/ c.op = "restore" /\ Home!RestoreAnswers(c)
      \/ c.op = "export" /\ Home!ExportAnswers(c)
      \/ c.op = "delete" /\ Home!DeleteAnswers(c)
  BY DEF Home!Answer
<1>4. c.done # "no"
  BY DEF Home!Answer
<1> HIDE DEF c
<1> USE DEF Home!disk, Home!store, Home!page, Home!reload, Home!dialog, Home!history
<1>6. CASE c.op = "list" /\ Home!ListAnswers(c)
  <2>1. read' \in {"stick", "error", "blind"}
    BY <1>1, <1>2, <1>4, <1>6 DEF Home!ListAnswers, Types
  <2>2. list' \subseteq Wallet /\ selected' \in Wallet \cup {None} /\ asked' \subseteq Wallet
    BY <1>1, <1>2, <1>6 DEF Home!ListAnswers, Types
  <2> QED
    BY <1>1, <1>2, <1>6, <2>1, <2>2 DEF Home!ListAnswers, Types
<1>7. CASE c.op = "unlock" /\ Home!UnlockAnswers(c)
  BY <1>1, <1>2, <1>7 DEF Home!UnlockAnswers, Types
<1>8. CASE c.op = "create" /\ Home!CreateAnswers(c)
  <2>1. c.w \in Wallet
    BY <1>1, <1>8 DEF New
  <2> QED
    BY <1>1, <1>2, <1>8, <2>1 DEF Home!CreateAnswers, Home!AddWallet, Types
<1>9. CASE c.op = "import" /\ Home!ImportAnswers(c)
  <2>1. c.w \in Wallet
    BY <1>1, <1>9 DEF New
  <2>2. list' \subseteq Wallet /\ selected' \in Wallet \cup {None}
    BY <1>1, <1>9, <2>1 DEF Home!ImportAnswers, Home!AddWallet, Types
  <2>3. Home!BackWithSuccess(c)
    BY <1>9 DEF Home!ImportAnswers
  <2> QED
    BY <1>1, <1>9, <2>2, <2>3, BackTypes DEF Home!ImportAnswers, Types
<1>10. CASE c.op = "restore" /\ Home!RestoreAnswers(c)
  <2>1. Home!BackWithSuccess(c)
    BY <1>10 DEF Home!RestoreAnswers
  <2> QED
    BY <1>1, <1>10, <2>1, BackTypes DEF Home!RestoreAnswers, Types
<1>11. CASE c.op = "export" /\ Home!ExportAnswers(c)
  BY <1>1, <1>11 DEF Home!ExportAnswers, Types
<1>12. CASE c.op = "delete" /\ Home!DeleteAnswers(c)
  BY <1>1, <1>2, <1>12, LoadTypes DEF Home!DeleteAnswers, Types
<1> QED
  BY <1>3, <1>6, <1>7, <1>8, <1>9, <1>10, <1>11, <1>12

-----------------------------------------------------------------------------
(***************************************************************************)
(* The worker takes a request.                                             *)
(***************************************************************************)
ServedAs(i, d) ==
    /\ i \in 1..Len(homeCalls) /\ homeCalls[i].done = "no"
    /\ \A j \in 1..Len(homeCalls) : j < i => homeCalls[j].done # "no"
    /\ d \in {"ok", "failed", "blind"}
    /\ homeCalls' \in Seq(Home!Call) /\ Len(homeCalls') = Len(homeCalls)
    /\ \A j \in 1..Len(homeCalls) :
          /\ homeCalls'[j].op = homeCalls[j].op /\ homeCalls'[j].w = homeCalls[j].w
          /\ homeCalls'[j].host = homeCalls[j].host /\ homeCalls'[j].own = homeCalls[j].own
          /\ j # i =>
                homeCalls'[j].done = homeCalls[j].done /\ homeCalls'[j].got = homeCalls[j].got
    /\ homeCalls'[i].done = d
    /\ homeCalls[i].op = "list" /\ d = "ok" => homeCalls'[i].got = stick
    /\ d = "blind" => homeCalls[i].op = "list"
    /\ d = "ok" /\ homeCalls[i].op \in New => stick' = stick \cup {homeCalls[i].w} /\ gone' = gone
    /\ d = "ok" /\ homeCalls[i].op = "delete" =>
          /\ homeCalls[i].w \in stick
          /\ stick' = stick \ {homeCalls[i].w} /\ gone' = gone \cup {homeCalls[i].w}
    /\ d # "ok" \/ homeCalls[i].op \notin New \cup {"delete"} => stick' = stick /\ gone' = gone
    /\ owed' = IF d = "ok" /\ homeCalls[i].op = "create" /\ homeCalls[i].own
               THEN owed \cup {homeCalls[i].w} ELSE owed

LEMMA ExceptIs ==
  ASSUME NEW S, NEW q \in Seq(S), NEW i \in 1..Len(q), NEW e, NEW r, r = [q EXCEPT ![i] = e]
  PROVE  r[i] = e /\ \A j \in 1..Len(q) : j # i => r[j] = q[j]
  OBVIOUS

LEMMA EndsChanges ==
  ASSUME Home!TypeOK, NEW i \in 1..Len(homeCalls), NEW d \in {"ok", "failed", "blind"},
         NEW g \in SUBSET Wallet,
         homeCalls' = [homeCalls EXCEPT ![i].done = d, ![i].got = g]
  PROVE  /\ homeCalls' \in Seq(Home!Call) /\ Len(homeCalls') = Len(homeCalls)
         /\ homeCalls'[i].done = d /\ homeCalls'[i].got = g
         /\ \A j \in 1..Len(homeCalls) :
               /\ homeCalls'[j].op = homeCalls[j].op /\ homeCalls'[j].w = homeCalls[j].w
               /\ homeCalls'[j].host = homeCalls[j].host /\ homeCalls'[j].own = homeCalls[j].own
               /\ j # i =>
                     homeCalls'[j].done = homeCalls[j].done /\ homeCalls'[j].got = homeCalls[j].got
<1>1. homeCalls \in Seq(Home!Call) /\ Len(homeCalls) \in Nat
           /\ DOMAIN homeCalls = 1..Len(homeCalls)
      /\ \A j \in 1..Len(homeCalls) : homeCalls[j] \in Home!Call
  BY TypesAre
<1> DEFINE e == [homeCalls[i] EXCEPT !.done = d, !.got = g]
<1>2. /\ e \in Home!Call /\ e.done = d /\ e.got = g
      /\ e.op = homeCalls[i].op /\ e.w = homeCalls[i].w /\ e.host = homeCalls[i].host
      /\ e.own = homeCalls[i].own
  <2>1. homeCalls[i] \in Home!Call
    BY <1>1
  <2> QED
    BY <2>1 DEF Home!Call
<1>3. homeCalls' = [homeCalls EXCEPT ![i] = e]
  BY <1>1
<1> HIDE DEF e
<1>4. homeCalls' \in Seq(Home!Call) /\ Len(homeCalls') = Len(homeCalls)
  <2>1. homeCalls' \in [1..Len(homeCalls) -> Home!Call] /\ DOMAIN homeCalls' = 1..Len(homeCalls)
    BY <1>1, <1>2, <1>3
  <2>2. \A n \in Nat : \A f \in [1..n -> Home!Call] : f \in Seq(Home!Call) /\ Len(f) = n
    BY FunctionIsSeq
  <2>3. Len(homeCalls) \in Nat
    BY <1>1
  <2> QED
    BY <2>1, <2>2, <2>3
<1>5. homeCalls'[i] = e /\ \A j \in 1..Len(homeCalls) : j # i => homeCalls'[j] = homeCalls[j]
  <2>1. homeCalls \in Seq(Home!Call)
    BY <1>1
  <2> QED
    BY ONLY <1>3, <2>1, ExceptIs, i \in 1..Len(homeCalls)
<1> QED
  BY <1>2, <1>4, <1>5

LEMMA ServeIs ==
  ASSUME Home!TypeOK, Home!Serve
  PROVE  \E i, d : ServedAs(i, d)
<1>1. homeCalls \in Seq(Home!Call) /\ Len(homeCalls) \in Nat
           /\ DOMAIN homeCalls = 1..Len(homeCalls) /\ stick \subseteq Wallet
  BY TypesAre DEF Types
<1>2. PICK i \in DOMAIN homeCalls : Home!ServeCall(i)
  BY DEF Home!Serve
<1>3. i \in 1..Len(homeCalls) /\ homeCalls[i].done = "no"
           /\ \A j \in 1..Len(homeCalls) : j < i => homeCalls[j].done # "no"
  BY <1>1, <1>2 DEF Home!ServeCall
<1> DEFINE G(d) == IF homeCalls[i].op = "list" /\ d = "ok" THEN stick ELSE {}
           Sets(d) == homeCalls' = [homeCalls EXCEPT ![i].done = d, ![i].got = G(d)]
<1>4. \A d : G(d) \in SUBSET Wallet
  BY <1>1
<1>5. CASE Sets("failed") /\ UNCHANGED <<stick, gone, owed>>
  <2>1. /\ homeCalls' \in Seq(Home!Call) /\ Len(homeCalls') = Len(homeCalls)
        /\ homeCalls'[i].done = "failed"
        /\ \A j \in 1..Len(homeCalls) :
               /\ homeCalls'[j].op = homeCalls[j].op /\ homeCalls'[j].w = homeCalls[j].w
               /\ homeCalls'[j].host = homeCalls[j].host /\ homeCalls'[j].own = homeCalls[j].own
               /\ j # i =>
                     homeCalls'[j].done = homeCalls[j].done /\ homeCalls'[j].got = homeCalls[j].got
    BY <1>3, <1>4, <1>5, EndsChanges
  <2>2. ServedAs(i, "failed")
    BY <1>3, <1>5, <2>1 DEF ServedAs, New
  <2> QED
    BY <2>2
<1>6. CASE homeCalls[i].op = "list" /\ Sets("blind") /\ UNCHANGED <<stick, gone, owed>>
  <2>1. /\ homeCalls' \in Seq(Home!Call) /\ Len(homeCalls') = Len(homeCalls)
        /\ homeCalls'[i].done = "blind"
        /\ \A j \in 1..Len(homeCalls) :
               /\ homeCalls'[j].op = homeCalls[j].op /\ homeCalls'[j].w = homeCalls[j].w
               /\ homeCalls'[j].host = homeCalls[j].host /\ homeCalls'[j].own = homeCalls[j].own
               /\ j # i =>
                     homeCalls'[j].done = homeCalls[j].done /\ homeCalls'[j].got = homeCalls[j].got
    BY <1>3, <1>4, <1>6, EndsChanges
  <2>2. ServedAs(i, "blind")
    BY <1>3, <1>6, <2>1 DEF ServedAs, New
  <2> QED
    BY <2>2
<1>7. CASE /\ Sets("ok")
           /\ \/ homeCalls[i].op = "list" /\ UNCHANGED <<stick, gone, owed>>
              \/ /\ homeCalls[i].op \in New
                 /\ stick' = stick \cup {homeCalls[i].w}
                 /\ owed' = IF homeCalls[i].op = "create" /\ homeCalls[i].own
                            THEN owed \cup {homeCalls[i].w} ELSE owed
                 /\ gone' = gone
              \/ homeCalls[i].op \in {"export", "unlock"} /\ UNCHANGED <<stick, gone, owed>>
              \/ /\ homeCalls[i].op = "delete" /\ homeCalls[i].w \in stick
                 /\ stick' = stick \ {homeCalls[i].w}
                 /\ gone' = gone \cup {homeCalls[i].w}
                 /\ owed' = owed
  <2>0. PICK g \in SUBSET Wallet :
            /\ homeCalls' = [homeCalls EXCEPT ![i].done = "ok", ![i].got = g]
            /\ homeCalls[i].op = "list" => g = stick
    <3> DEFINE h == G("ok")
    <3>1. h \in SUBSET Wallet
      BY <1>4
    <3>2. homeCalls' = [homeCalls EXCEPT ![i].done = "ok", ![i].got = h]
      BY <1>7
    <3>3. homeCalls[i].op = "list" => h = stick
      OBVIOUS
    <3> HIDE DEF h
    <3> QED
      BY ONLY <3>1, <3>2, <3>3
  <2>1. /\ homeCalls' \in Seq(Home!Call) /\ Len(homeCalls') = Len(homeCalls)
        /\ homeCalls'[i].done = "ok" /\ homeCalls'[i].got = g
        /\ \A j \in 1..Len(homeCalls) :
               /\ homeCalls'[j].op = homeCalls[j].op /\ homeCalls'[j].w = homeCalls[j].w
               /\ homeCalls'[j].host = homeCalls[j].host /\ homeCalls'[j].own = homeCalls[j].own
               /\ j # i =>
                     homeCalls'[j].done = homeCalls[j].done /\ homeCalls'[j].got = homeCalls[j].got
    <3>1. i \in 1..Len(homeCalls) /\ "ok" \in {"ok", "failed", "blind"}
      BY <1>3
    <3> QED
      BY <2>0, <3>1, EndsChanges
  <2>2. /\ homeCalls[i].op \in New => stick' = stick \cup {homeCalls[i].w} /\ gone' = gone
        /\ homeCalls[i].op = "delete" =>
              /\ homeCalls[i].w \in stick
              /\ stick' = stick \ {homeCalls[i].w} /\ gone' = gone \cup {homeCalls[i].w}
        /\ homeCalls[i].op \notin New \cup {"delete"} => stick' = stick /\ gone' = gone
        /\ owed' = IF homeCalls[i].op = "create" /\ homeCalls[i].own
                   THEN owed \cup {homeCalls[i].w} ELSE owed
    BY <1>7 DEF New
  <2>3. homeCalls[i].op = "list" => homeCalls'[i].got = stick
    BY <2>0, <2>1
  <2>4. ServedAs(i, "ok")
    BY <1>3, <2>1, <2>2, <2>3 DEF ServedAs
  <2> QED
    BY <2>4
<1> QED
  BY <1>2, <1>5, <1>6, <1>7 DEF New, Home!ServeCall, Home!Ends

LEMMA ServeTypes ==
  ASSUME Home!TypeOK, NamesAreNew, Home!Serve, NEW i, NEW d, ServedAs(i, d)
  PROVE  Types'
<1>1. Types /\ homeCalls[i] \in Home!Call
           /\ UNCHANGED <<plugged, Home!store, Home!page, Home!reload, Home!dialog, asked>>
  <2>1. UNCHANGED <<plugged, Home!store, Home!page, Home!reload, Home!dialog, asked>>
    BY DEF Home!Serve
  <2> QED
    BY <2>1, TypesAre DEF ServedAs
<1>2. homeCalls[i].op \in New => homeCalls[i].w \in Wallet \ (stick \cup gone)
  BY DEF NamesAreNew, ServedAs
<1>3. stick' \subseteq Wallet /\ gone' \subseteq Wallet /\ stick' \cap gone' = {}
  BY <1>1, <1>2 DEF ServedAs, Types
<1>4. owed' \subseteq Wallet
  BY <1>1, <1>2 DEF ServedAs, Types, New
<1> QED
  BY <1>1, <1>3, <1>4 DEF Types, Home!store, Home!page, Home!reload, Home!dialog

-----------------------------------------------------------------------------
(***************************************************************************)
(* The queue keeps its order, its names and its hosts.                     *)
(***************************************************************************)
OrderInv == ServedInOrder /\ NamesAreNew /\ HostsAreLater

LEMMA MovesKeep ==
  ASSUME Home!TypeOK, OrderInv, NEW d \in {0, 1}, Moves(d), homeCalls' \in Seq(Home!Call),
         UNCHANGED <<stick, gone>>
  PROVE  OrderInv'
<1>1. Len(homeCalls) \in Nat /\ Len(homeCalls') \in Nat /\ Len(homeCalls') = Len(homeCalls) - d
  BY TypesAre DEF Moves
<1>2. \A i \in 1..Len(homeCalls') : /\ i + d \in 1..Len(homeCalls)
                                    /\ homeCalls'[i].op = homeCalls[i + d].op
                                    /\ homeCalls'[i].w = homeCalls[i + d].w
                                    /\ homeCalls'[i].done = homeCalls[i + d].done
                                    /\ homeCalls'[i].host = homeCalls[i + d].host
  BY <1>1 DEF Moves
<1>3. ServedInOrder'
  <2> SUFFICES ASSUME NEW i \in 1..Len(homeCalls'), NEW j \in 1..Len(homeCalls'), i < j,
                      homeCalls'[i].done = "no"
               PROVE  homeCalls'[j].done = "no"
    BY DEF ServedInOrder
  <2>1. i + d \in 1..Len(homeCalls) /\ j + d \in 1..Len(homeCalls) /\ i + d < j + d
    BY <1>1
  <2> QED
    BY <1>2, <2>1 DEF OrderInv, ServedInOrder
<1>4. NamesAreNew'
  <2>1. ASSUME NEW i \in 1..Len(homeCalls'), homeCalls'[i].op \in New
        PROVE  homeCalls'[i].w \in Wallet /\ (homeCalls'[i].done = "no" =>
                  homeCalls'[i].w \notin stick' \cup gone')
    BY <1>2, <2>1 DEF OrderInv, NamesAreNew
  <2>2. ASSUME NEW i \in 1..Len(homeCalls'), NEW j \in 1..Len(homeCalls'),
               homeCalls'[i].op \in New, homeCalls'[j].op \in New,
                    homeCalls'[i].w = homeCalls'[j].w
        PROVE  i = j
    <3>1. i + d = j + d
      BY <1>2, <2>2 DEF OrderInv, NamesAreNew
    <3> QED
      BY <1>1, <3>1
  <2> QED
    BY <2>1, <2>2 DEF NamesAreNew
<1>5. HostsAreLater'
  <2> SUFFICES ASSUME NEW i \in 1..Len(homeCalls'), NEW j \in 1..Len(homeCalls'),
                      homeCalls'[i].host, homeCalls'[j].op \in Reloads, ~homeCalls'[j].host
               PROVE  j < i
    BY DEF HostsAreLater
  <2>1. i + d \in 1..Len(homeCalls) /\ j + d \in 1..Len(homeCalls)
    BY <1>2
  <2>2. homeCalls[i + d].host /\ homeCalls[j + d].op \in Reloads /\ ~homeCalls[j + d].host
    BY <1>2
  <2>3. j + d < i + d
    BY <2>1, <2>2 DEF OrderInv, HostsAreLater
  <2> QED
    BY <1>1, <2>3
<1> QED
  BY <1>3, <1>4, <1>5 DEF OrderInv

LEMMA AddsIs ==
  ASSUME Home!TypeOK, NEW c, Adds(c)
  PROVE  /\ homeCalls' \in Seq(Home!Call) /\ Len(homeCalls') = Len(homeCalls) + 1
         /\ homeCalls'[Len(homeCalls) + 1] = c
         /\ \A i \in 1..Len(homeCalls) : homeCalls'[i] = homeCalls[i]
  BY TypesAre DEF Adds

LEMMA FreshIs ==
  ASSUME Home!TypeOK, NEW w \in Home!Fresh
  PROVE  /\ w \in Wallet \ (stick \cup gone)
         /\ \A i \in 1..Len(homeCalls) : homeCalls[i].op \in New => homeCalls[i].w # w
  BY TypesAre DEF Home!Fresh, Home!Named, New

LEMMA AddsKeep ==
  ASSUME Home!TypeOK, OrderInv, NEW c, Adds(c), UNCHANGED <<stick, gone>>
  PROVE  OrderInv'
<1>1. /\ Len(homeCalls) \in Nat /\ Len(homeCalls') = Len(homeCalls) + 1
      /\ homeCalls'[Len(homeCalls) + 1] = c
      /\ \A i \in 1..Len(homeCalls) : homeCalls'[i] = homeCalls[i]
  BY TypesAre, AddsIs
<1>2. /\ c.done = "no" /\ (c.op \in Reloads => c.host)
      /\ c.op \in New =>
            /\ c.w \in Wallet \ (stick \cup gone)
            /\ \A i \in 1..Len(homeCalls) : homeCalls[i].op \in New => homeCalls[i].w # c.w
  BY FreshIs DEF Adds
<1>3. \A i \in 1..Len(homeCalls') : i \in 1..Len(homeCalls) \/ i = Len(homeCalls) + 1
  BY <1>1
<1>4. ServedInOrder'
  BY <1>1, <1>2, <1>3 DEF OrderInv, ServedInOrder
<1>5. NamesAreNew'
  BY <1>1, <1>2, <1>3 DEF OrderInv, NamesAreNew
<1>6. HostsAreLater'
  BY <1>1, <1>2, <1>3 DEF OrderInv, HostsAreLater
<1> QED
  BY <1>4, <1>5, <1>6 DEF OrderInv

LEMMA ServeKeeps ==
  ASSUME Home!TypeOK, OrderInv, NEW i, NEW d, ServedAs(i, d)
  PROVE  OrderInv'
<1>1. /\ Len(homeCalls) \in Nat /\ Len(homeCalls') = Len(homeCalls) /\ i \in 1..Len(homeCalls)
      /\ \A j \in 1..Len(homeCalls) :
          /\ homeCalls'[j].op = homeCalls[j].op /\ homeCalls'[j].w = homeCalls[j].w
          /\ homeCalls'[j].host = homeCalls[j].host
          /\ homeCalls'[j].done = "no" => homeCalls[j].done = "no" /\ j # i
          /\ j # i => homeCalls'[j].done = homeCalls[j].done
      /\ \A j \in 1..Len(homeCalls) : j < i => homeCalls[j].done # "no"
  BY TypesAre DEF ServedAs
<1>2. ServedInOrder'
  BY <1>1 DEF OrderInv, ServedInOrder
<1>3. \A j \in 1..Len(homeCalls) : homeCalls[j].op \in New /\ j # i /\ homeCalls[j].done = "no" =>
         homeCalls[j].w \notin stick' \cup gone'
  BY <1>1 DEF OrderInv, NamesAreNew, ServedAs
<1>4. NamesAreNew'
  BY <1>1, <1>3 DEF OrderInv, NamesAreNew
<1>5. HostsAreLater'
  BY <1>1 DEF OrderInv, HostsAreLater
<1> QED
  BY <1>2, <1>4, <1>5 DEF OrderInv

LEMMA LockKeeps ==
  ASSUME Home!TypeOK, OrderInv, Home!Lock
  PROVE  OrderInv'
<1>1. /\ Len(homeCalls) \in Nat /\ Len(homeCalls') = Len(homeCalls)
      /\ \A j \in 1..Len(homeCalls) :
          /\ homeCalls'[j].op = homeCalls[j].op /\ homeCalls'[j].w = homeCalls[j].w
          /\ homeCalls'[j].done = homeCalls[j].done /\ ~homeCalls'[j].host
      /\ UNCHANGED <<stick, gone>>
  BY TypesAre, LockMoves DEF Home!Lock, Home!disk
<1> QED
  BY <1>1 DEF OrderInv, ServedInOrder, NamesAreNew, HostsAreLater

-----------------------------------------------------------------------------
(***************************************************************************)
(* The kinds of steps.                                                     *)
(***************************************************************************)
\* Steps that leave the queue, or replace the page.
Stays == Moves(0) /\ homeCalls' \in Seq(Home!Call) /\ UNCHANGED <<stick, gone>>

\* Steps that add a request.
Asks == (\E c : Adds(c)) /\ UNCHANGED <<stick, gone>>

\* An answer is handled.
Handles == homeCalls # <<>> /\ Moves(1) /\ homeCalls' \in Seq(Home!Call)
     /\ UNCHANGED <<stick, gone>>

LEMMA AnswerHandles ==
  ASSUME Home!TypeOK, Home!Answer
  PROVE  Handles
<1> DEFINE c == Head(homeCalls)
<1>1. /\ homeCalls # <<>> /\ UNCHANGED Home!disk
      /\ \/ homeCalls' = Tail(homeCalls)
         \/ \E v : Home!Show(v, Tail(homeCalls))
  BY DEF Home!Answer, Home!ListAnswers, Home!UnlockAnswers, Home!CreateAnswers,
     Home!ImportAnswers, Home!RestoreAnswers,
         Home!ExportAnswers, Home!DeleteAnswers, Home!BackWithSuccess, Home!TakenAway
<1>2. homeCalls' \in Seq(Home!Call) /\ Moves(1)
  BY <1>1, TailMoves, ShowTailMoves
<1> QED
  BY <1>1, <1>2 DEF Handles, Home!disk

LEMMA ShowStays ==
  ASSUME Home!TypeOK, NEW v, Home!Show(v, homeCalls), UNCHANGED <<stick, gone>>
  PROVE  Stays
  BY ShowMoves DEF Stays

LEMMA SameStays ==
  ASSUME Home!TypeOK, UNCHANGED <<homeCalls, stick, gone>>
  PROVE  Stays
  BY NoneMoves, TypesAre DEF Stays

LEMMA DetectAdds ==
  ASSUME Home!TypeOK, NEW l \in loads, Home!DetectReturns(l), plugged
  PROVE  \E c : Adds(c) /\ c.op = "list" /\ c.host = l.host
<1> DEFINE c == [Home!Request("list", None) EXCEPT !.first = l.first, !.host = l.host]
<1>1. l.first \in BOOLEAN /\ l.host \in BOOLEAN
  BY TypesAre DEF Types
<1>2. Home!Request("list", None) \in Home!Call /\ Home!Request("list", None).op = "list"
      /\ Home!Request("list", None).done = "no"
  BY RequestType
<1>3. c \in Home!Call /\ c.op = "list" /\ c.host = l.host /\ c.done = "no"
  BY <1>1, <1>2 DEF Home!Call
<1>4. homeCalls' = Append(homeCalls, c)
  BY DEF Home!DetectReturns, Home!Enqueue
<1> HIDE DEF c
<1>5. Adds(c)
  BY <1>3, <1>4 DEF Adds, New, Reloads
<1> QED
  BY <1>3, <1>5

LEMMA RequestAdds ==
  ASSUME Home!TypeOK, NEW kind \in {"create", "import", "restore", "export", "delete", "unlock"},
         NEW w \in Wallet \cup {None}, Home!Enqueue(Home!Request(kind, w)),
         kind \in New => w \in Home!Fresh
  PROVE  Adds(Home!Request(kind, w))
<1> DEFINE c == Home!Request(kind, w)
<1>1. c \in Home!Call /\ c.op = kind /\ c.w = w /\ c.done = "no"
      /\ c.host = (kind \in {"list", "delete", "import", "restore"})
  BY RequestType
<1>2. homeCalls' = Append(homeCalls, c)
  BY DEF Home!Enqueue
<1> HIDE DEF c
<1>3. Adds(c)
  BY <1>1, <1>2 DEF Adds, Reloads
<1> QED
  BY <1>3 DEF c

LEMMA SubmitAsks ==
  ASSUME Home!TypeOK, NEW kind \in New, NEW w \in Wallet, Home!Submit(kind, w)
  PROVE  Adds(Home!Request(kind, w)) /\ Asks
<1>1. Adds(Home!Request(kind, w))
  BY RequestAdds DEF Home!Submit, New
<1> QED
  BY <1>1 DEF Home!Submit, Asks, Home!disk

\* Every other step leaves the queue or adds one request to it.
Plain ==
    /\ Stays \/ Asks
    /\ Types'
    /\ homeDeleting' => homeDeleting \/ \E c : Adds(c) /\ c.op = "delete" /\ c.host

LEMMA PlainSteps ==
  ASSUME Home!TypeOK, Home!Next, ~Home!Serve, ~Home!Answer, ~Home!Lock
  PROVE  Plain
<1> USE DEF Home!disk, Home!store, Home!page, Home!reload, Home!dialog, Home!history
<1>0. Types
  BY TypesAre
<1>a. /\ "list" \in Home!View /\ "developer" \in Home!View /\ "detail" \in Home!View
      /\ "export" \in Home!View
  BY DEF Home!View
<1>1. CASE Home!HandleReload
  <2>1. Stays
    BY <1>1, SameStays DEF Home!HandleReload
  <2> QED
    BY <1>0, <1>1, <2>1, LoadTypes DEF Home!HandleReload, Plain, Types
<1>2. CASE Home!Unplug
  <2>1. Stays
    BY <1>2, SameStays DEF Home!Unplug
  <2> QED
    BY <1>0, <1>2, <2>1 DEF Home!Unplug, Plain, Types
<1>3. ASSUME NEW l \in loads, Home!DetectReturns(l)
      PROVE  Plain
  <2>1. l.host \in BOOLEAN /\ loads' \subseteq loads
    BY <1>0, <1>3 DEF Home!DetectReturns, Types
  <2>2. Stays \/ Asks
    <3>1. CASE plugged
      <4>1. (\E c : Adds(c)) /\ UNCHANGED <<stick, gone>>
        <5>1. \E c : Adds(c) /\ c.op = "list" /\ c.host = l.host
          BY <1>3, <3>1, DetectAdds
        <5>2. UNCHANGED <<stick, gone>>
          BY <1>3 DEF Home!DetectReturns
        <5> QED
          BY ONLY <5>1, <5>2
      <4> QED
        BY ONLY <4>1 DEF Asks
    <3>2. CASE ~plugged
      BY <1>3, <3>2, SameStays DEF Home!DetectReturns
    <3> QED
      BY <3>1, <3>2
  <2>3. read' \in {"stick", "error", "blind"} /\ loading' \in BOOLEAN
    BY <1>0, <1>3, <2>1 DEF Home!DetectReturns, Types
  <2> QED
    BY <1>0, <1>3, <2>1, <2>2, <2>3 DEF Home!DetectReturns, Plain, Types
<1>4. ASSUME NEW v \in Home!View, Home!Open(v)
      PROVE  Plain
  <2>1. Home!Show(v, homeCalls)
             /\ UNCHANGED <<Home!disk, Home!store, Home!reload, Home!dialog, owed>>
    BY <1>4 DEF Home!Open
  <2> QED
    BY <1>0, <2>1, ShowStays, ShowTypes DEF Plain, Types
<1>5. CASE Home!HandleBackToList \/ Home!HandleCancelClick
  <2>1. Home!Show("list", homeCalls)
             /\ UNCHANGED <<Home!disk, Home!store, Home!reload, Home!dialog, owed>>
    BY <1>5 DEF Home!HandleBackToList, Home!HandleCancelClick
  <2> QED
    BY <1>0, <1>a, <2>1, ShowStays, ShowTypes DEF Plain, Types
<1>6. CASE Home!Redirect
  <2>1. Home!TakenAway("developer", homeCalls)
             /\ UNCHANGED <<Home!disk, Home!store, Home!reload, Home!dialog>>
    BY <1>6 DEF Home!Redirect
  <2>2. Home!Show("developer", homeCalls)
    BY <2>1 DEF Home!TakenAway
  <2> QED
    BY <1>0, <1>a, <2>1, <2>2, ShowStays, TakenTypes DEF Plain, Types
<1>7. CASE Home!Unlock
  <2>1. Home!Show("list", homeCalls) /\ Home!Load
             /\ UNCHANGED <<Home!disk, Home!store, Home!dialog, owed>>
    BY <1>7 DEF Home!Unlock
  <2> QED
    BY <1>0, <1>a, <2>1, ShowStays, ShowTypes, LoadTypes DEF Plain, Types
<1>8. ASSUME NEW w \in Wallet, Home!HandleWalletSelect(w)
      PROVE  Plain
  <2>1. Home!Show("detail", homeCalls) /\ selected' = w
             /\ UNCHANGED <<Home!disk, list, Home!reload, Home!dialog, owed>>
    BY <1>8 DEF Home!HandleWalletSelect
  <2> QED
    BY <1>0, <1>a, <2>1, ShowStays, ShowTypes DEF Plain, Types
<1>9. ASSUME NEW w \in Wallet, Home!HandleDeleteWallet(w)
      PROVE  Plain
  <2>1. toDelete' = w /\ UNCHANGED <<Home!disk, Home!store, Home!page, Home!reload, homeCalls, homeDeleting, Home!history>>
    BY <1>9 DEF Home!HandleDeleteWallet
  <2> QED
    BY <1>0, <2>1, SameStays DEF Plain, Types
<1>10. ASSUME NEW w \in Wallet, Home!HandleExport(w)
       PROVE  Plain
  <2>1. Adds(Home!Request("export", w))
             /\ UNCHANGED <<Home!disk, Home!store, Home!page, Home!reload, Home!dialog,
             Home!history>>
    BY <1>10, RequestAdds DEF Home!HandleExport, New
  <2> QED
    BY <1>0, <2>1 DEF Plain, Asks, Types
<1>11. ASSUME NEW w \in Wallet,
              Home!CreateWallet(w) \/ Home!ImportWallet(w) \/ Home!HandleImport(w)
       PROVE  Plain
  <2>1. PICK kind \in New : Home!Submit(kind, w)
    BY <1>11 DEF Home!CreateWallet, Home!ImportWallet, Home!HandleImport, New
  <2>2. Asks /\ UNCHANGED <<Home!disk, Home!store, Home!page, Home!reload, Home!dialog, Home!history>>
    BY <2>1, SubmitAsks DEF Home!Submit
  <2> QED
    BY <1>0, <2>2 DEF Plain, Types
<1>12. CASE Home!EnterPassword
  <2>1. Home!Enqueue(Home!Request("unlock", selected)) /\ selected \in Wallet
             /\ UNCHANGED <<Home!disk, Home!store, Home!page, Home!reload, Home!dialog, owed>>
             /\ asked' = asked \cup {selected}
    BY <1>0, <1>12 DEF Home!EnterPassword, Home!DetailShown, Types
  <2>2. Adds(Home!Request("unlock", selected))
    BY <2>1, RequestAdds DEF New
  <2> QED
    BY <1>0, <2>1, <2>2 DEF Plain, Asks, Types
<1>13. CASE Home!HandleMnemonicConfirm
  <2>1. Home!Show("list", homeCalls) /\ Home!Load
             /\ UNCHANGED <<Home!disk, Home!store, Home!dialog>> /\ owed' \subseteq owed
    BY <1>13 DEF Home!HandleMnemonicConfirm
  <2> QED
    BY <1>0, <1>a, <2>1, ShowStays, ShowTypes, LoadTypes DEF Plain, Types
<1>14. CASE Home!OpenExport
  <2>1. Home!Show("export", homeCalls)
             /\ UNCHANGED <<Home!disk, Home!store, Home!reload, Home!dialog, owed>>
    BY <1>14 DEF Home!OpenExport
  <2> QED
    BY <1>0, <1>a, <2>1, ShowStays, ShowTypes DEF Plain, Types
<1>15. CASE Home!HandleCancelDelete
  <2>1. toDelete' = None /\ UNCHANGED <<Home!disk, Home!store, Home!page, Home!reload, homeCalls, homeDeleting, Home!history>>
    BY <1>15 DEF Home!HandleCancelDelete
  <2> QED
    BY <1>0, <2>1, SameStays DEF Plain, Types
<1>16. CASE Home!HandleSubmit
  <2>1. /\ Adds(Home!Request("delete", toDelete)) /\ homeDeleting' = TRUE
        /\ UNCHANGED <<Home!disk, Home!store, Home!page, Home!reload, toDelete, Home!history>>
    BY <1>0, <1>16, RequestAdds DEF Home!HandleSubmit, New, Types
  <2>2. Home!Request("delete", toDelete).op = "delete" /\ Home!Request("delete", toDelete).host
    BY DEF Home!Request
  <2> QED
    BY <1>0, <2>1, <2>2 DEF Plain, Asks, Types
<1> QED
  BY <1>1, <1>2, <1>3, <1>4, <1>5, <1>6, <1>7, <1>8, <1>9, <1>10, <1>11, <1>12, <1>13, <1>14,
     <1>15, <1>16 DEF Home!Next

\* The dialog's deletion, in terms of positions.
Deletes(i) == homeCalls[i].op = "delete" /\ homeCalls[i].host

LEMMA DeletingIs ==
  ASSUME Home!TypeOK
  PROVE  Home!DeletingHasCall <=> (homeDeleting => \E i \in 1..Len(homeCalls) : Deletes(i))
  BY TypesAre DEF Home!DeletingHasCall, Deletes

LEMMA DeletingIsNext ==
  ASSUME homeCalls' \in Seq(Home!Call)
  PROVE  Home!DeletingHasCall' <=> (homeDeleting' => \E i \in 1..Len(homeCalls') : Deletes(i)')
  BY DEF Home!DeletingHasCall, Deletes

LEMMA QueueStep ==
  ASSUME QueueInv, Home!Next
  PROVE  QueueInv'
<1>0. /\ Home!TypeOK /\ OrderInv /\ Len(homeCalls) \in Nat
      /\ homeDeleting => \E i \in 1..Len(homeCalls) : Deletes(i)
  BY TypesAre, DeletingIs DEF QueueInv, OrderInv
<1>1. CASE Home!Serve
  <2>1. PICK i, d : ServedAs(i, d)
    BY <1>0, <1>1, ServeIs
  <2>2. Home!TypeOK'
    <3>1. Types'
      <4>1. NamesAreNew
        BY <1>0 DEF OrderInv
      <4> QED
        BY <1>0, <1>1, <2>1, <4>1, ServeTypes
    <3>2. homeCalls' \in Seq(Home!Call)
      BY <2>1 DEF ServedAs
    <3> QED
      BY <3>1, <3>2, TypesNext
  <2>3. OrderInv'
    BY <1>0, <2>1, ServeKeeps
  <2>4. Home!DeletingHasCall'
    <3>1. homeCalls' \in Seq(Home!Call) /\ homeDeleting' = homeDeleting
      BY <1>1, <2>1 DEF ServedAs, Home!Serve, Home!dialog
    <3>2. \A j \in 1..Len(homeCalls) : Deletes(j) => j \in 1..Len(homeCalls') /\ Deletes(j)'
      BY <2>1 DEF ServedAs, Deletes
    <3> QED
      BY <1>0, <3>1, <3>2, DeletingIsNext
  <2> QED
    BY <2>2, <2>3, <2>4 DEF QueueInv, OrderInv
<1>2. CASE Home!Answer
  <2>1. Handles
    BY <1>0, <1>2, AnswerHandles
  <2>2. Home!TypeOK'
    BY <1>0, <1>2, <2>1, AnswerTypes, TypesNext DEF OrderInv, Handles
  <2>3. OrderInv'
    BY <1>0, <2>1, MovesKeep DEF Handles
  <2>4. Home!DeletingHasCall'
    <3>1. homeDeleting' => homeDeleting /\ ~Deletes(1)
      <4>1. homeCalls # <<>> /\ Head(homeCalls) = homeCalls[1] /\ homeCalls[1] \in Home!Call
        BY <1>0, <2>1, TypesAre DEF Handles
      <4>2. CASE homeCalls[1].op = "delete"
        <5>1. Home!DeleteAnswers(homeCalls[1])
          BY <1>2, <4>1, <4>2 DEF Home!Answer
        <5>2. homeDeleting' = (homeDeleting /\ ~homeCalls[1].host)
          BY <5>1 DEF Home!DeleteAnswers
        <5> QED
          BY <5>2 DEF Deletes
      <4>3. CASE homeCalls[1].op # "delete"
        <5>1. homeDeleting' = homeDeleting
          BY <1>2, <4>1, <4>3 DEF Home!Answer, Home!ListAnswers, Home!UnlockAnswers,
             Home!CreateAnswers, Home!ImportAnswers,
             Home!RestoreAnswers, Home!ExportAnswers, Home!dialog
        <5> QED
          BY <4>3, <5>1 DEF Deletes
      <4> QED
        BY <4>2, <4>3
    <3>2. \A j \in 1..Len(homeCalls) : j # 1 /\ Deletes(j) =>
             j - 1 \in 1..Len(homeCalls') /\ (homeCalls'[j - 1].op = "delete" /\ homeCalls'[j - 1].host)
      <4> SUFFICES ASSUME NEW j \in 1..Len(homeCalls), j # 1, Deletes(j)
                   PROVE  j - 1 \in 1..Len(homeCalls')
                        /\ (homeCalls'[j - 1].op = "delete" /\ homeCalls'[j - 1].host)
        OBVIOUS
      <4>1. Len(homeCalls') = Len(homeCalls) - 1 /\ j - 1 \in 1..Len(homeCalls')
                 /\ (j - 1) + 1 = j
        BY <1>0, <2>1 DEF Handles, Moves
      <4> QED
        BY <2>1, <4>1 DEF Handles, Moves, Deletes
    <3> QED
      BY <1>0, <2>1, <3>1, <3>2, DeletingIsNext DEF Handles, Deletes
  <2> QED
    BY <2>2, <2>3, <2>4 DEF QueueInv, OrderInv
<1>3. CASE Home!Lock
  <2>1. Home!Show("locked", [i \in DOMAIN homeCalls |-> [homeCalls[i] EXCEPT !.host = FALSE]])
        /\ owed' \subseteq owed /\ "locked" \in Home!View /\ Types
    BY <1>0, <1>3, TypesAre DEF Home!Lock, Home!TakenAway, Home!View
  <2>2. loads' \subseteq [first : BOOLEAN, host : BOOLEAN]
    <3>1. \A l \in loads : [l EXCEPT !.host = FALSE] \in [first : BOOLEAN, host : BOOLEAN]
      BY <2>1 DEF Types
    <3>2. loads' = {[l EXCEPT !.host = FALSE] : l \in loads}
      BY <1>3 DEF Home!Lock
    <3> QED
      BY <3>1, <3>2
  <2>3. Types'
    BY <1>3, <2>1, <2>2, ShowTypes DEF Home!Lock, Types, Home!disk, Home!store
  <2>4. Home!TypeOK'
    BY <1>0, <1>3, <2>3, LockMoves, TypesNext
  <2>5. Home!DeletingHasCall'
    BY <1>3 DEF Home!Lock, Home!DeletingHasCall
  <2> QED
    BY <1>0, <1>3, <2>4, <2>5, LockKeeps DEF QueueInv, OrderInv
<1>4. CASE Plain
  <2>1. homeCalls' \in Seq(Home!Call) /\ UNCHANGED <<stick, gone>>
    BY <1>0, <1>4, AddsIs DEF Plain, Stays, Asks
  <2>2. Home!TypeOK'
    BY <1>4, <2>1, TypesNext DEF Plain
  <2>3. OrderInv'
    BY <1>0, <1>4, <2>1, MovesKeep, AddsKeep DEF Plain, Stays, Asks
  <2>4. \A j \in 1..Len(homeCalls) : Deletes(j) => j \in 1..Len(homeCalls') /\ Deletes(j)'
    <3>1. CASE Stays
      BY <1>0, <3>1 DEF Stays, Moves, Deletes
    <3>2. CASE Asks
      BY <1>0, <3>2, AddsIs DEF Asks, Deletes
    <3> QED
      BY <1>4, <3>1, <3>2 DEF Plain
  <2>5. Home!DeletingHasCall'
    <3>1. CASE ~homeDeleting' \/ homeDeleting
      BY <1>0, <2>1, <2>4, <3>1, DeletingIsNext
    <3>2. CASE \E c : Adds(c) /\ c.op = "delete" /\ c.host
      <4>1. PICK c : Adds(c) /\ c.op = "delete" /\ c.host
        BY <3>2
      <4>2. Len(homeCalls) + 1 \in 1..Len(homeCalls') /\ homeCalls'[Len(homeCalls) + 1] = c
        BY <1>0, <4>1, AddsIs
      <4> QED
        BY <2>1, <4>1, <4>2, DeletingIsNext DEF Deletes
    <3> QED
      BY <1>4, <3>1, <3>2 DEF Plain
  <2> QED
    BY <2>2, <2>3, <2>5 DEF QueueInv, OrderInv
<1> QED
  BY <1>0, <1>1, <1>2, <1>3, <1>4, PlainSteps

-----------------------------------------------------------------------------
(***************************************************************************)
(* The wallet's page.                                                      *)
(***************************************************************************)
LEMMA DetailKeeps ==
  ASSUME Home!TypeOK, DetailInv, NEW d \in {0, 1}, Moves(d), homeCalls' \in Seq(Home!Call),
         UNCHANGED <<view, entered, asked>>
  PROVE  DetailInv'
<1>1. Len(homeCalls) \in Nat /\ Len(homeCalls') \in Nat
  BY TypesAre
<1>2. ASSUME NEW i \in 1..Len(homeCalls'), homeCalls'[i].op = "unlock", homeCalls'[i].own
      PROVE  view' = "detail" /\ homeCalls'[i].w \in asked'
  <2>1. /\ i + d \in 1..Len(homeCalls) /\ homeCalls[i + d].op = "unlock" /\ homeCalls[i + d].own
        /\ homeCalls'[i].w = homeCalls[i + d].w
    BY <1>1, <1>2 DEF Moves
  <2> QED
    BY <2>1 DEF DetailInv
<1> QED
  BY <1>2 DEF DetailInv

LEMMA DetailShows ==
  ASSUME Home!TypeOK, DetailInv, NEW d \in {0, 1}, Moves(d), homeCalls' \in Seq(Home!Call),
         NEW v, NEW cs, Home!Show(v, cs),
         v # view => \A i \in 1..Len(homeCalls') : ~homeCalls'[i].own
  PROVE  DetailInv'
<1>1. CASE v = view
  <2>1. UNCHANGED <<view, entered, asked>>
    BY <1>1 DEF Home!Show
  <2> QED
    BY <2>1, DetailKeeps
<1>2. CASE v # view
  BY <1>2 DEF Home!Show, DetailInv
<1> QED
  BY <1>1, <1>2

LEMMA DetailAdds ==
  ASSUME Home!TypeOK, DetailInv, NEW c, Adds(c), UNCHANGED <<view, entered>>,
         asked \subseteq asked',
         c.op = "unlock" => view = "detail" /\ c.w \in asked'
  PROVE  DetailInv'
<1>1. /\ Len(homeCalls) \in Nat /\ Len(homeCalls') = Len(homeCalls) + 1
      /\ homeCalls'[Len(homeCalls) + 1] = c
      /\ \A i \in 1..Len(homeCalls) : homeCalls'[i] = homeCalls[i]
  BY TypesAre, AddsIs
<1>2. \A i \in 1..Len(homeCalls') : i \in 1..Len(homeCalls) \/ i = Len(homeCalls) + 1
  BY <1>1
<1> QED
  BY <1>1, <1>2 DEF DetailInv

LEMMA DetailAnswer ==
  ASSUME Home!TypeOK, DetailInv, Home!Answer
  PROVE  DetailInv'
<1> DEFINE c == Head(homeCalls)
<1>1. /\ homeCalls # <<>> /\ c = homeCalls[1] /\ 1 \in 1..Len(homeCalls) /\ c \in Home!Call
      /\ Moves(1) /\ homeCalls' \in Seq(Home!Call)
  BY AnswerHandles, TypesAre DEF Handles
<1>2. \/ c.op = "list" /\ Home!ListAnswers(c)
      \/ c.op = "unlock" /\ Home!UnlockAnswers(c)
      \/ c.op = "create" /\ Home!CreateAnswers(c)
      \/ c.op = "import" /\ Home!ImportAnswers(c)
      \/ c.op = "restore" /\ Home!RestoreAnswers(c)
      \/ c.op = "export" /\ Home!ExportAnswers(c)
      \/ c.op = "delete" /\ Home!DeleteAnswers(c)
  BY DEF Home!Answer
<1> HIDE DEF c
<1> USE DEF Home!disk, Home!store, Home!page, Home!reload, Home!dialog, Home!history
<1>4. ASSUME UNCHANGED <<view, entered, asked>>
      PROVE  DetailInv'
  BY <1>1, <1>4, DetailKeeps
<1>5. ASSUME Home!BackWithSuccess(c)
      PROVE  DetailInv'
  <2>1. CASE c.done = "ok" /\ c.host
    <3>1. Home!Show("list", Tail(homeCalls))
      BY <1>5, <2>1 DEF Home!BackWithSuccess, Home!TakenAway
    <3>2. "list" # view => \A i \in 1..Len(homeCalls') : ~homeCalls'[i].own
      BY <1>1, <3>1, ShowTailMoves
    <3> QED
      BY <1>1, <3>1, <3>2, DetailShows
  <2>2. CASE ~(c.done = "ok" /\ c.host)
    BY <1>4, <1>5, <2>2 DEF Home!BackWithSuccess
  <2> QED
    BY <2>1, <2>2
<1>6. CASE c.op = "list" /\ Home!ListAnswers(c)
  BY <1>4, <1>6 DEF Home!ListAnswers
<1>7. CASE c.op = "unlock" /\ Home!UnlockAnswers(c)
  <2>1. CASE c.own /\ c.done = "ok"
    <3>1. view = "detail" /\ c.w \in asked
      BY <1>1, <1>7, <2>1 DEF DetailInv
    <3>2. entered' = c.w /\ UNCHANGED <<view, asked>>
      BY <1>7, <2>1 DEF Home!UnlockAnswers
    <3>3. ASSUME NEW i \in 1..Len(homeCalls'), homeCalls'[i].op = "unlock", homeCalls'[i].own
          PROVE  homeCalls'[i].w \in asked
      <4>1. /\ i + 1 \in 1..Len(homeCalls) /\ homeCalls[i + 1].op = "unlock"
            /\ homeCalls[i + 1].own
            /\ homeCalls'[i].w = homeCalls[i + 1].w
        BY <1>1, <3>3, TypesAre DEF Moves
      <4> QED
        BY <4>1 DEF DetailInv
    <3> QED
      BY <3>1, <3>2, <3>3 DEF DetailInv
  <2>2. CASE ~(c.own /\ c.done = "ok")
    BY <1>4, <1>7, <2>2 DEF Home!UnlockAnswers
  <2> QED
    BY <2>1, <2>2
<1>8. CASE c.op = "create" /\ Home!CreateAnswers(c)
  BY <1>4, <1>8 DEF Home!CreateAnswers
<1>9. CASE c.op = "import" /\ Home!ImportAnswers(c)
  BY <1>5, <1>9 DEF Home!ImportAnswers
<1>10. CASE c.op = "restore" /\ Home!RestoreAnswers(c)
  BY <1>5, <1>10 DEF Home!RestoreAnswers
<1>11. CASE c.op = "export" /\ Home!ExportAnswers(c)
  BY <1>4, <1>11 DEF Home!ExportAnswers
<1>12. CASE c.op = "delete" /\ Home!DeleteAnswers(c)
  BY <1>4, <1>12 DEF Home!DeleteAnswers
<1> QED
  BY <1>2, <1>6, <1>7, <1>8, <1>9, <1>10, <1>11, <1>12

LEMMA DetailStep ==
  ASSUME Home!TypeOK, DetailInv, Home!Next
  PROVE  DetailInv'
<1> USE DEF Home!disk, Home!store, Home!page, Home!reload, Home!dialog, Home!history
<1>1. CASE Home!Answer
  BY <1>1, DetailAnswer
<1>2. CASE Home!Serve
  <2>1. PICK i, d : ServedAs(i, d)
    BY <1>2, ServeIs
  <2>2. UNCHANGED <<view, entered, asked>>
    BY <1>2 DEF Home!Serve
  <2> QED
    BY <2>1, <2>2 DEF ServedAs, DetailInv
<1>3. CASE Home!Lock
  <2>1. view' = "locked" /\ entered' = None
    <3>1. PICK cs : Home!TakenAway("locked", cs) /\ view # "locked"
      BY <1>3 DEF Home!Lock
    <3> QED
      BY ONLY <3>1 DEF Home!TakenAway, Home!Show
  <2>2. \A i \in 1..Len(homeCalls') : ~homeCalls'[i].own
    BY <1>3, LockMoves
  <2> QED
    BY <2>1, <2>2 DEF DetailInv
<1>4. ASSUME UNCHANGED <<homeCalls, view, entered, asked>>
      PROVE  DetailInv'
  BY <1>4 DEF DetailInv
<1>5. ASSUME NEW v, Home!Show(v, homeCalls)
      PROVE  DetailInv'
  BY <1>5, ShowMoves, DetailShows
<1>6. CASE Home!HandleReload \/ Home!Unplug \/ Home!HandleCancelDelete
           \/ \E w \in Wallet : Home!HandleDeleteWallet(w)
  BY <1>4, <1>6 DEF Home!HandleReload, Home!Unplug, Home!HandleCancelDelete,
     Home!HandleDeleteWallet
<1>7. ASSUME NEW l \in loads, Home!DetectReturns(l)
      PROVE  DetailInv'
  <2>1. UNCHANGED <<view, entered, asked>>
    BY <1>7 DEF Home!DetectReturns
  <2>2. CASE plugged
    <3>1. PICK c : Adds(c) /\ c.op = "list"
      BY <1>7, <2>2, DetectAdds
    <3> QED
      BY <2>1, <3>1, DetailAdds
  <2>3. CASE ~plugged
    BY <1>4, <1>7, <2>1, <2>3 DEF Home!DetectReturns
  <2> QED
    BY <2>2, <2>3
<1>8. CASE \/ \E v \in Home!View : Home!Open(v)
           \/ Home!HandleBackToList \/ Home!HandleCancelClick \/ Home!Redirect \/ Home!Unlock
           \/ Home!HandleMnemonicConfirm
           \/ Home!OpenExport
  <2>1. PICK v : Home!Show(v, homeCalls)
    BY <1>8 DEF Home!Open, Home!HandleBackToList, Home!HandleCancelClick, Home!Redirect,
       Home!Unlock, Home!HandleMnemonicConfirm,
       Home!OpenExport, Home!TakenAway
  <2> QED
    BY <1>5, <2>1
<1>9. CASE \E w \in Wallet : Home!HandleWalletSelect(w)
  <2>1. Home!Show("detail", homeCalls) /\ "detail" # view
    BY <1>9 DEF Home!HandleWalletSelect
  <2> QED
    BY <1>5, <2>1
<1>10. ASSUME NEW w \in Wallet, Home!HandleExport(w)
       PROVE  DetailInv'
  <2>1. Adds(Home!Request("export", w)) /\ Home!Request("export", w).op = "export"
    BY <1>10, RequestAdds, RequestType DEF Home!HandleExport, New
  <2> QED
    BY <1>10, <2>1, DetailAdds DEF Home!HandleExport
<1>11. ASSUME NEW w \in Wallet,
              Home!CreateWallet(w) \/ Home!ImportWallet(w) \/ Home!HandleImport(w)
       PROVE  DetailInv'
  <2>1. PICK kind \in New : Home!Submit(kind, w)
    BY <1>11 DEF Home!CreateWallet, Home!ImportWallet, Home!HandleImport, New
  <2>2. Adds(Home!Request(kind, w)) /\ Home!Request(kind, w).op # "unlock"
    BY <2>1, SubmitAsks DEF New, Home!Request
  <2> QED
    BY <2>1, <2>2, DetailAdds DEF Home!Submit
<1>12. CASE Home!EnterPassword
  <2>0. selected \in Wallet \cup {None}
    BY TypesAre DEF Types
  <2>1. Adds(Home!Request("unlock", selected)) /\ Home!Request("unlock", selected).w = selected
    BY <1>12, <2>0, RequestAdds, RequestType DEF Home!EnterPassword, New
  <2> QED
    BY <1>12, <2>1, DetailAdds DEF Home!EnterPassword, Home!DetailShown
<1>13. CASE Home!HandleSubmit
  <2>0. toDelete \in Wallet \cup {None}
    BY TypesAre DEF Types
  <2>1. Adds(Home!Request("delete", toDelete)) /\ Home!Request("delete", toDelete).op = "delete"
    BY <1>13, <2>0, RequestAdds, RequestType DEF Home!HandleSubmit, New
  <2> QED
    BY <1>13, <2>1, DetailAdds DEF Home!HandleSubmit
<1> QED
  BY <1>1, <1>2, <1>3, <1>6, <1>7, <1>8, <1>9, <1>10, <1>11, <1>12, <1>13 DEF Home!Next

-----------------------------------------------------------------------------
(***************************************************************************)
(* The recovery phrase.                                                    *)
(***************************************************************************)
\* The pages of the requests that stay in the queue are those that asked.
SameOwn(d) == \A i \in 1..Len(homeCalls') : homeCalls'[i].own = homeCalls[i + d].own

LEMMA TailOwn ==
  ASSUME Home!TypeOK, homeCalls # <<>>, homeCalls' = Tail(homeCalls)
  PROVE  SameOwn(1)
<1>1. homeCalls \in Seq(Home!Call) /\ Len(homeCalls) \in Nat /\ Len(homeCalls) # 0
  BY DEF Home!TypeOK
<1>2. \A i \in 1..Len(Tail(homeCalls)) : Tail(homeCalls)[i] = homeCalls[i + 1]
  BY <1>1
<1> QED
  BY <1>2 DEF SameOwn

LEMMA NoneOwn ==
  ASSUME Home!TypeOK, UNCHANGED homeCalls
  PROVE  SameOwn(0)
  BY TypesAre DEF SameOwn

LEMMA PhraseKeeps ==
  ASSUME Home!TypeOK, PhraseInv, NEW d \in {0, 1}, Moves(d), SameOwn(d),
         homeCalls' \in Seq(Home!Call),
         view' = view, phrase' = phrase, owed' = owed,
         d = 1 => ~(homeCalls[1].op = "create" /\ homeCalls[1].own /\ homeCalls[1].done = "ok")
  PROVE  PhraseInv'
<1>1. Len(homeCalls) \in Nat /\ Len(homeCalls') \in Nat /\ Len(homeCalls') = Len(homeCalls) - d
  BY TypesAre DEF Moves
<1>2. \A i \in 1..Len(homeCalls') : /\ i + d \in 1..Len(homeCalls)
                                    /\ homeCalls'[i].op = homeCalls[i + d].op
                                    /\ homeCalls'[i].w = homeCalls[i + d].w
                                    /\ homeCalls'[i].done = homeCalls[i + d].done
                                    /\ homeCalls'[i].own = homeCalls[i + d].own
  BY <1>1 DEF Moves, SameOwn
<1>3. \A i \in 1..Len(homeCalls') : homeCalls'[i].op = "create" /\ homeCalls'[i].own =>
         view' = "create" /\ phrase' = None
  BY <1>2 DEF PhraseInv
<1>4. ASSUME NEW i \in 1..Len(homeCalls'), NEW j \in 1..Len(homeCalls'),
             homeCalls'[i].op = "create" /\ homeCalls'[i].own /\ homeCalls'[j].op = "create"
                  /\ homeCalls'[j].own
      PROVE  i = j
  <2>0. /\ i + d \in 1..Len(homeCalls) /\ homeCalls[i + d].op = "create" /\ homeCalls[i + d].own
        /\ j + d \in 1..Len(homeCalls) /\ homeCalls[j + d].op = "create" /\ homeCalls[j + d].own
    BY <1>2, <1>4
  <2>1. i + d = j + d
    BY <2>0 DEF PhraseInv
  <2> QED
    BY <1>1, <2>1
<1>5. ASSUME NEW w \in owed', w # phrase'
      PROVE  \E i \in 1..Len(homeCalls') :
          homeCalls'[i].op = "create" /\ homeCalls'[i].own /\ homeCalls'[i].done = "ok"
               /\ homeCalls'[i].w = w
  <2>1. PICK k \in 1..Len(homeCalls) :
          homeCalls[k].op = "create" /\ homeCalls[k].own /\ homeCalls[k].done = "ok"
               /\ homeCalls[k].w = w
    BY <1>5 DEF PhraseInv
  <2>2. k - d \in 1..Len(homeCalls') /\ (k - d) + d = k
    BY <1>1, <2>1
  <2>3. /\ homeCalls'[k - d].op = "create" /\ homeCalls'[k - d].own
        /\ homeCalls'[k - d].done = "ok" /\ homeCalls'[k - d].w = w
    BY <1>2, <2>1, <2>2
  <2> QED
    BY <2>2, <2>3
<1> QED
  BY <1>3, <1>4, <1>5 DEF PhraseInv

LEMMA PhraseAway ==
  ASSUME NEW v, NEW cs, Home!Show(v, cs), v # view, owed' = {},
         \A i \in 1..Len(homeCalls') : ~homeCalls'[i].own
  PROVE  PhraseInv'
  BY DEF Home!Show, PhraseInv

\* Who takes the page away takes the phrase that was owed.
LEMMA TakenOwesNothing ==
  ASSUME Home!TypeOK, PhraseInv, NEW v, NEW cs, Home!TakenAway(v, cs), v # view
  PROVE  owed' = {}
<1>1. owed' = owed \ ({phrase} \cup Home!Named("create"))
  BY DEF Home!TakenAway
<1>2. \A i \in 1..Len(homeCalls) : homeCalls[i].op = "create" =>
         homeCalls[i].w \in Home!Named("create")
  BY TypesAre DEF Home!Named
<1> QED
  BY <1>1, <1>2 DEF PhraseInv

\* A page that does not create owes nothing.
LEMMA ElsewhereOwesNothing ==
  ASSUME Home!TypeOK, PhraseInv, phrase = None, view # "create" \/ ~Home!Pending("create")
  PROVE  owed = {}
<1>1. owed \subseteq Wallet /\ DOMAIN homeCalls = 1..Len(homeCalls)
  BY TypesAre DEF Types
<1>2. \A i \in 1..Len(homeCalls) : ~(homeCalls[i].op = "create" /\ homeCalls[i].own)
  BY <1>1 DEF PhraseInv, Home!Pending
<1> QED
  BY <1>1, <1>2 DEF PhraseInv

LEMMA PhraseAdds ==
  ASSUME Home!TypeOK, PhraseInv, NEW c, Adds(c), UNCHANGED <<view, phrase, owed>>,
         c.op = "create" => view = "create" /\ phrase = None /\ ~Home!Pending("create")
  PROVE  PhraseInv'
<1>1. /\ Len(homeCalls) \in Nat /\ Len(homeCalls') = Len(homeCalls) + 1
      /\ homeCalls'[Len(homeCalls) + 1] = c
      /\ \A i \in 1..Len(homeCalls) : homeCalls'[i] = homeCalls[i]
      /\ DOMAIN homeCalls = 1..Len(homeCalls)
  BY TypesAre, AddsIs
<1>2. \A i \in 1..Len(homeCalls') : i \in 1..Len(homeCalls) \/ i = Len(homeCalls) + 1
  BY <1>1
<1>3. c.op = "create" =>
         \A i \in 1..Len(homeCalls) : ~(homeCalls[i].op = "create" /\ homeCalls[i].own)
  BY <1>1 DEF Home!Pending
<1>4. \A i \in 1..Len(homeCalls) : i \in 1..Len(homeCalls')
  BY <1>1
<1>5. \A i, j \in 1..Len(homeCalls') :
          homeCalls'[i].op = "create" /\ homeCalls'[i].own /\ homeCalls'[j].op = "create"
               /\ homeCalls'[j].own => i = j
  BY <1>1, <1>2, <1>3 DEF PhraseInv
<1>6. \A w \in owed' : w = phrase' \/ \E i \in 1..Len(homeCalls') :
          homeCalls'[i].op = "create" /\ homeCalls'[i].own /\ homeCalls'[i].done = "ok"
               /\ homeCalls'[i].w = w
  BY <1>1, <1>4 DEF PhraseInv
<1>7. \A i \in 1..Len(homeCalls') : homeCalls'[i].op = "create" /\ homeCalls'[i].own =>
         view' = "create" /\ phrase' = None
  BY <1>1, <1>2 DEF PhraseInv
<1> QED
  BY <1>5, <1>6, <1>7 DEF PhraseInv

LEMMA PhraseServed ==
  ASSUME Home!TypeOK, PhraseInv, NEW i, NEW d, ServedAs(i, d), UNCHANGED <<view, phrase>>
  PROVE  PhraseInv'
<1>1. /\ Len(homeCalls) \in Nat /\ Len(homeCalls') = Len(homeCalls) /\ i \in 1..Len(homeCalls)
      /\ \A j \in 1..Len(homeCalls) :
          /\ homeCalls'[j].op = homeCalls[j].op /\ homeCalls'[j].w = homeCalls[j].w
          /\ homeCalls'[j].own = homeCalls[j].own
          /\ homeCalls[j].done = "ok" => homeCalls'[j].done = "ok"
  BY TypesAre DEF ServedAs
<1>2. ASSUME NEW w \in owed'
      PROVE  w = phrase' \/ \E j \in 1..Len(homeCalls') :
          homeCalls'[j].op = "create" /\ homeCalls'[j].own /\ homeCalls'[j].done = "ok"
               /\ homeCalls'[j].w = w
  <2>1. CASE w \in owed
    BY <1>1, <2>1 DEF PhraseInv
  <2>2. CASE w \notin owed
    <3>1. d = "ok" /\ homeCalls[i].op = "create" /\ homeCalls[i].own /\ w = homeCalls[i].w
               /\ homeCalls'[i].done = d
      BY <2>2 DEF ServedAs
    <3> QED
      BY <1>1, <3>1
  <2> QED
    BY <2>1, <2>2
<1> QED
  BY <1>1, <1>2 DEF PhraseInv

LEMMA PhraseAnswer ==
  ASSUME Home!TypeOK, PhraseInv, Home!Answer
  PROVE  PhraseInv'
<1> DEFINE c == Head(homeCalls)
<1>1. /\ homeCalls # <<>> /\ c = homeCalls[1] /\ 1 \in 1..Len(homeCalls) /\ c \in Home!Call
      /\ Moves(1) /\ homeCalls' \in Seq(Home!Call)
  BY AnswerHandles, TypesAre DEF Handles
<1>2. \/ c.op = "list" /\ Home!ListAnswers(c)
      \/ c.op = "unlock" /\ Home!UnlockAnswers(c)
      \/ c.op = "create" /\ Home!CreateAnswers(c)
      \/ c.op = "import" /\ Home!ImportAnswers(c)
      \/ c.op = "restore" /\ Home!RestoreAnswers(c)
      \/ c.op = "export" /\ Home!ExportAnswers(c)
      \/ c.op = "delete" /\ Home!DeleteAnswers(c)
  BY DEF Home!Answer
<1> HIDE DEF c
<1> USE DEF Home!disk, Home!store, Home!page, Home!reload, Home!dialog, Home!history
<1>4. ASSUME homeCalls' = Tail(homeCalls), view' = view, phrase' = phrase, owed' = owed,
             ~(c.op = "create" /\ c.own /\ c.done = "ok")
      PROVE  PhraseInv'
  BY <1>1, <1>4, TailOwn, PhraseKeeps
<1>5. ASSUME Home!BackWithSuccess(c), c.op # "create"
      PROVE  PhraseInv'
  <2>1. CASE c.done = "ok" /\ c.host
    <3>1. Home!TakenAway("list", Tail(homeCalls)) /\ Home!Show("list", Tail(homeCalls))
      BY <1>5, <2>1 DEF Home!BackWithSuccess, Home!TakenAway
    <3>2. CASE view = "list"
      <4>1. homeCalls' = Tail(homeCalls) /\ view' = view /\ phrase' = phrase /\ owed' = owed
        BY <3>1, <3>2 DEF Home!TakenAway, Home!Show
      <4> QED
        BY <1>4, <1>5, <4>1
    <3>3. CASE view # "list"
      BY <1>1, <3>1, <3>3, ShowTailMoves, TakenOwesNothing, PhraseAway
    <3> QED
      BY <3>2, <3>3
  <2>2. CASE ~(c.done = "ok" /\ c.host)
    BY <1>4, <1>5, <2>2 DEF Home!BackWithSuccess
  <2> QED
    BY <2>1, <2>2
<1>6. CASE c.op = "list" /\ Home!ListAnswers(c)
  BY <1>4, <1>6 DEF Home!ListAnswers
<1>7. CASE c.op = "unlock" /\ Home!UnlockAnswers(c)
  BY <1>4, <1>7 DEF Home!UnlockAnswers
<1>8. CASE c.op = "create" /\ Home!CreateAnswers(c)
  <2>1. CASE c.done = "ok" /\ c.own
    <3>1. homeCalls' = Tail(homeCalls) /\ view' = view /\ owed' = owed /\ phrase' = c.w
      BY <1>8, <2>1 DEF Home!CreateAnswers
    <3>2. view = "create" /\ phrase = None
      BY <1>1, <1>8, <2>1 DEF PhraseInv
    <3>3. \A i \in 1..Len(homeCalls') : ~(homeCalls'[i].op = "create" /\ homeCalls'[i].own)
      <4> SUFFICES ASSUME NEW i \in 1..Len(homeCalls'), homeCalls'[i].op = "create",
               homeCalls'[i].own
                   PROVE  FALSE
        OBVIOUS
      <4>1. /\ i + 1 \in 1..Len(homeCalls) /\ homeCalls[i + 1].op = "create"
            /\ homeCalls[i + 1].own
            /\ i + 1 # 1
        BY <1>1, TypesAre DEF Moves
      <4> QED
        BY <1>1, <1>8, <2>1, <4>1 DEF PhraseInv
    <3>4. \A w \in owed : w = c.w
      <4> SUFFICES ASSUME NEW w \in owed PROVE w = c.w
        OBVIOUS
      <4>1. w # None
        BY TypesAre DEF Types
      <4>2. PICK k \in 1..Len(homeCalls) : homeCalls[k].op = "create" /\ homeCalls[k].own
                 /\ homeCalls[k].w = w
        BY <3>2, <4>1 DEF PhraseInv
      <4>3. k = 1
        BY <1>1, <1>8, <2>1, <4>2 DEF PhraseInv
      <4> QED
        BY <1>1, <4>2, <4>3
    <3> QED
      BY <3>1, <3>2, <3>3, <3>4 DEF PhraseInv
  <2>2. CASE ~(c.done = "ok" /\ c.own)
    <3>1. homeCalls' = Tail(homeCalls) /\ view' = view /\ owed' = owed /\ phrase' = phrase
      BY <1>8, <2>2 DEF Home!CreateAnswers
    <3> QED
      BY <1>4, <2>2, <3>1
  <2> QED
    BY <2>1, <2>2
<1>9. CASE c.op = "import" /\ Home!ImportAnswers(c)
  BY <1>5, <1>9 DEF Home!ImportAnswers
<1>10. CASE c.op = "restore" /\ Home!RestoreAnswers(c)
  BY <1>5, <1>10 DEF Home!RestoreAnswers
<1>11. CASE c.op = "export" /\ Home!ExportAnswers(c)
  BY <1>4, <1>11 DEF Home!ExportAnswers
<1>12. CASE c.op = "delete" /\ Home!DeleteAnswers(c)
  BY <1>4, <1>12 DEF Home!DeleteAnswers
<1> QED
  BY <1>2, <1>6, <1>7, <1>8, <1>9, <1>10, <1>11, <1>12

LEMMA PhraseStep ==
  ASSUME Home!TypeOK, PhraseInv, Home!Next
  PROVE  PhraseInv'
<1> USE DEF Home!disk, Home!store, Home!page, Home!reload, Home!dialog, Home!history
<1>1. CASE Home!Answer
  BY <1>1, PhraseAnswer
<1>2. CASE Home!Serve
  <2>1. PICK i, d : ServedAs(i, d)
    BY <1>2, ServeIs
  <2>2. UNCHANGED <<view, phrase>>
    BY <1>2 DEF Home!Serve
  <2> QED
    BY <2>1, <2>2, PhraseServed
<1>3. CASE Home!Lock
  <2>1. PICK cs : Home!TakenAway("locked", cs) /\ Home!Show("locked", cs) /\ view # "locked"
    BY <1>3 DEF Home!Lock, Home!TakenAway
  <2>2. \A i \in 1..Len(homeCalls') : ~homeCalls'[i].own
    BY <1>3, LockMoves
  <2> QED
    BY <2>1, <2>2, TakenOwesNothing, PhraseAway
<1>4. ASSUME UNCHANGED <<homeCalls, view, phrase, owed>>
      PROVE  PhraseInv'
  BY <1>4 DEF PhraseInv
<1>5. ASSUME NEW v, Home!Show(v, homeCalls), v # view, owed' = {}
      PROVE  PhraseInv'
  BY <1>5, ShowMoves, PhraseAway
<1>6. CASE Home!HandleReload \/ Home!Unplug \/ Home!HandleCancelDelete
           \/ \E w \in Wallet : Home!HandleDeleteWallet(w)
  BY <1>4, <1>6 DEF Home!HandleReload, Home!Unplug, Home!HandleCancelDelete,
     Home!HandleDeleteWallet
<1>7. ASSUME NEW l \in loads, Home!DetectReturns(l)
      PROVE  PhraseInv'
  <2>1. UNCHANGED <<view, phrase, owed>>
    BY <1>7 DEF Home!DetectReturns
  <2>2. CASE plugged
    <3>1. PICK c : Adds(c) /\ c.op = "list"
      BY <1>7, <2>2, DetectAdds
    <3> QED
      BY <2>1, <3>1, PhraseAdds
  <2>3. CASE ~plugged
    BY <1>4, <1>7, <2>1, <2>3 DEF Home!DetectReturns
  <2> QED
    BY <2>2, <2>3
<1>8. CASE \/ \E v \in Home!View : Home!Open(v)
           \/ Home!HandleBackToList \/ Home!HandleCancelClick \/ Home!Unlock \/ Home!OpenExport
           \/ \E w \in Wallet : Home!HandleWalletSelect(w)
  <2>1. PICK v : /\ Home!Show(v, homeCalls) /\ owed' = owed /\ v # view
                 /\ view # "create" \/ (phrase = None /\ ~Home!Pending("create"))
    BY <1>8 DEF Home!Open, Home!HandleBackToList, Home!HandleCancelClick, Home!Unlock,
       Home!OpenExport, Home!HandleWalletSelect
  <2>2. phrase = None
    BY <2>1 DEF PhraseInv
  <2> QED
    BY <1>5, <2>1, <2>2, ElsewhereOwesNothing
<1>9. CASE Home!Redirect
  <2>1. Home!TakenAway("developer", homeCalls) /\ Home!Show("developer", homeCalls)
             /\ "developer" # view
    BY <1>9 DEF Home!Redirect, Home!TakenAway
  <2> QED
    BY <1>5, <2>1, TakenOwesNothing
<1>10. ASSUME NEW w \in Wallet, Home!HandleExport(w)
       PROVE  PhraseInv'
  <2>1. Adds(Home!Request("export", w)) /\ Home!Request("export", w).op = "export"
    BY <1>10, RequestAdds, RequestType DEF Home!HandleExport, New
  <2> QED
    BY <1>10, <2>1, PhraseAdds DEF Home!HandleExport
<1>11. ASSUME NEW w \in Wallet,
              Home!CreateWallet(w) \/ Home!ImportWallet(w) \/ Home!HandleImport(w)
       PROVE  PhraseInv'
  <2>1. PICK kind \in New : Home!Submit(kind, w)
    BY <1>11 DEF Home!CreateWallet, Home!ImportWallet, Home!HandleImport, New
  <2>2. Adds(Home!Request(kind, w)) /\ Home!Request(kind, w).op = kind
    BY <2>1, SubmitAsks DEF New, Home!Request
  <2> QED
    BY <2>1, <2>2, PhraseAdds DEF Home!Submit
<1>12. CASE Home!EnterPassword
  <2>0. selected \in Wallet \cup {None}
    BY TypesAre DEF Types
  <2>1. Adds(Home!Request("unlock", selected)) /\ Home!Request("unlock", selected).op = "unlock"
    BY <1>12, <2>0, RequestAdds, RequestType DEF Home!EnterPassword, New
  <2> QED
    BY <1>12, <2>1, PhraseAdds DEF Home!EnterPassword
<1>13. CASE Home!HandleSubmit
  <2>0. toDelete \in Wallet \cup {None}
    BY TypesAre DEF Types
  <2>1. Adds(Home!Request("delete", toDelete)) /\ Home!Request("delete", toDelete).op = "delete"
    BY <1>13, <2>0, RequestAdds, RequestType DEF Home!HandleSubmit, New
  <2> QED
    BY <1>13, <2>1, PhraseAdds DEF Home!HandleSubmit
<1>14. CASE Home!HandleMnemonicConfirm
  <2>1. Home!Show("list", homeCalls) /\ owed' = owed \ {phrase} /\ phrase # None
    BY <1>14 DEF Home!HandleMnemonicConfirm
  <2>2. view = "create" /\ \A w \in owed : w = phrase
    BY <2>1 DEF PhraseInv
  <2> QED
    BY <1>5, <2>1, <2>2
<1> QED
  BY <1>1, <1>2, <1>3, <1>6, <1>7, <1>8, <1>9, <1>10, <1>11, <1>12, <1>13, <1>14 DEF Home!Next

-----------------------------------------------------------------------------
(***************************************************************************)
(* The list.                                                               *)
(***************************************************************************)
Hosted == \E l \in loads : l.host
Adding(i) == homeCalls[i].op \in {"create", "import"} /\ homeCalls[i].done = "ok"

LEMMA AddedIs ==
  ASSUME NEW k, NEW w
  PROVE  w \in Added(k) <=> \E i \in 1..Len(homeCalls) : i > k /\ Adding(i) /\ homeCalls[i].w = w
  BY DEF Added, Adding

LEMMA AddedIsNext ==
  ASSUME NEW k, NEW w
  PROVE  w \in Added(k)' <=>
         \E i \in 1..Len(homeCalls') : /\ i > k /\ homeCalls'[i].op \in {"create", "import"}
                                       /\ homeCalls'[i].done = "ok" /\ homeCalls'[i].w = w
  BY DEF Added

LEMMA AddedMoves ==
  ASSUME Home!TypeOK, NEW d \in {0, 1}, Moves(d), homeCalls' \in Seq(Home!Call), NEW k \in Nat
  PROVE  Added(k)' = Added(k + d)
<1>1. Len(homeCalls) \in Nat /\ Len(homeCalls') \in Nat /\ Len(homeCalls') = Len(homeCalls) - d
  BY TypesAre DEF Moves
<1>2. \A i \in 1..Len(homeCalls') : /\ i + d \in 1..Len(homeCalls)
                                    /\ homeCalls'[i].op = homeCalls[i + d].op
                                    /\ homeCalls'[i].w = homeCalls[i + d].w
                                    /\ homeCalls'[i].done = homeCalls[i + d].done
  BY <1>1 DEF Moves
<1>3. ASSUME NEW w \in Added(k)'
      PROVE  w \in Added(k + d)
  <2>1. PICK i \in 1..Len(homeCalls') :
            /\ i > k /\ homeCalls'[i].op \in {"create", "import"} /\ homeCalls'[i].done = "ok"
            /\ homeCalls'[i].w = w
    BY <1>3, AddedIsNext
  <2>2. i + d \in 1..Len(homeCalls) /\ i + d > k + d /\ Adding(i + d) /\ homeCalls[i + d].w = w
    BY <1>1, <1>2, <2>1 DEF Adding
  <2> QED
    BY <2>2, AddedIs
<1>4. ASSUME NEW w \in Added(k + d)
      PROVE  w \in Added(k)'
  <2>1. PICK j \in 1..Len(homeCalls) : j > k + d /\ Adding(j) /\ homeCalls[j].w = w
    BY <1>4, AddedIs
  <2>2. j - d \in 1..Len(homeCalls') /\ j - d > k /\ (j - d) + d = j
    BY <1>1, <2>1
  <2>3. /\ homeCalls'[j - d].op \in {"create", "import"} /\ homeCalls'[j - d].done = "ok"
        /\ homeCalls'[j - d].w = w
    BY <1>2, <2>1, <2>2 DEF Adding
  <2> QED
    BY <2>2, <2>3, AddedIsNext
<1> QED
  BY <1>3, <1>4

LEMMA ListsAgreeMoves ==
  ASSUME Home!TypeOK, NEW d \in {0, 1}, Moves(d), homeCalls' \in Seq(Home!Call), stick' = stick,
         NEW k \in Nat, NEW m \in Nat, m <= k + d, ListsAgree(m)
  PROVE  ListsAgree(k)'
<1>1. Len(homeCalls) \in Nat /\ Len(homeCalls') \in Nat /\ Len(homeCalls') = Len(homeCalls) - d
  BY TypesAre DEF Moves
<1>2. ASSUME NEW i \in 1..Len(homeCalls'), i >= k, homeCalls'[i].op = "list",
             homeCalls'[i].done = "ok"
      PROVE  stick' = homeCalls'[i].got \cup Added(i)'
  <2>1. /\ i + d \in 1..Len(homeCalls) /\ i + d >= m
        /\ homeCalls[i + d].op = "list" /\ homeCalls[i + d].done = "ok"
        /\ homeCalls'[i].got = homeCalls[i + d].got
    BY <1>1, <1>2 DEF Moves
  <2>2. stick = homeCalls[i + d].got \cup Added(i + d)
    BY <2>1 DEF ListsAgree
  <2>3. Added(i)' = Added(i + d)
    <3>1. i \in Nat
      BY <1>1
    <3> QED
      BY <3>1, AddedMoves
  <2> QED
    BY <2>1, <2>2, <2>3
<1> QED
  BY <1>2 DEF ListsAgree

LEMMA AddedAsked ==
  ASSUME Home!TypeOK, NEW c, Adds(c), NEW k
  PROVE  Added(k)' = Added(k)
<1>1. /\ Len(homeCalls) \in Nat /\ Len(homeCalls') = Len(homeCalls) + 1
      /\ homeCalls'[Len(homeCalls) + 1] = c
      /\ \A i \in 1..Len(homeCalls) : homeCalls'[i] = homeCalls[i]
      /\ c.done = "no"
  BY TypesAre, AddsIs DEF Adds
<1>2. \A i \in 1..Len(homeCalls') : i \in 1..Len(homeCalls) \/ i = Len(homeCalls) + 1
  BY <1>1
<1>3. \A i \in 1..Len(homeCalls) : i \in 1..Len(homeCalls')
  BY <1>1
<1>4. ASSUME NEW w PROVE w \in Added(k)' <=> w \in Added(k)
  BY <1>1, <1>2, <1>3, AddedIs, AddedIsNext DEF Adding
<1> QED
  BY <1>4

LEMMA ListsAgreeAsked ==
  ASSUME Home!TypeOK, NEW c, Adds(c), stick' = stick, NEW k, ListsAgree(k)
  PROVE  ListsAgree(k)'
<1>1. /\ Len(homeCalls) \in Nat /\ Len(homeCalls') = Len(homeCalls) + 1
      /\ homeCalls'[Len(homeCalls) + 1] = c
      /\ \A i \in 1..Len(homeCalls) : homeCalls'[i] = homeCalls[i]
      /\ c.done = "no"
  BY TypesAre, AddsIs DEF Adds
<1>2. \A i \in 1..Len(homeCalls') : i \in 1..Len(homeCalls) \/ i = Len(homeCalls) + 1
  BY <1>1
<1>3. \A i \in 1..Len(homeCalls') : Added(i)' = Added(i)
  BY AddedAsked
<1> QED
  BY <1>1, <1>2, <1>3 DEF ListsAgree

\* A request more makes nothing wrong.
LEMMA RightAsked ==
  ASSUME Home!TypeOK, WillBeRight, NEW c, Adds(c), UNCHANGED <<stick, list, read, view>>,
         Hosted => Hosted' \/ (c.op = "list" /\ c.host)
  PROVE  WillBeRight'
<1>1. /\ Len(homeCalls) \in Nat /\ Len(homeCalls') = Len(homeCalls) + 1
      /\ homeCalls'[Len(homeCalls) + 1] = c
      /\ \A i \in 1..Len(homeCalls) : homeCalls'[i] = homeCalls[i] /\ i \in 1..Len(homeCalls')
      /\ c.done = "no" /\ (c.op \in Reloads => c.host)
      /\ Len(homeCalls) + 1 \in 1..Len(homeCalls')
  BY TypesAre, AddsIs DEF Adds
<1>2. \A i \in 1..Len(homeCalls') : i \in 1..Len(homeCalls) \/ i = Len(homeCalls) + 1
  BY <1>1
<1>3. CASE ReadAgain
  BY <1>1, <1>3 DEF ReadAgain, Hosted, WillBeRight
<1>4. CASE ReadRight
  <2>1. PICK i \in 1..Len(homeCalls) : /\ homeCalls[i].op = "list" /\ homeCalls[i].host
                                       /\ homeCalls[i].done \in {"ok", "blind"} /\ ListsAgree(i)
    BY <1>4 DEF ReadRight
  <2>2. ListsAgree(i)'
    BY <2>1, ListsAgreeAsked
  <2> QED
    BY <1>1, <2>1, <2>2 DEF ReadRight, WillBeRight
<1>5. CASE IsRight
  <2>1. ListsAgree(1)' /\ Added(0)' = Added(0)
    BY <1>5, ListsAgreeAsked, AddedAsked DEF IsRight
  <2>2. \A i \in 1..Len(homeCalls') : homeCalls'[i].op \in Reloads
             /\ homeCalls'[i].done = "no" => homeCalls'[i].host
    BY <1>1, <1>2, <1>5 DEF IsRight
  <2> QED
    BY <1>5, <2>1, <2>2 DEF IsRight, WillBeRight
<1> QED
  BY <1>3, <1>4, <1>5 DEF WillBeRight

\* Nor does a step that leaves the queue.
LEMMA RightStays ==
  ASSUME Home!TypeOK, WillBeRight, Moves(0), homeCalls' \in Seq(Home!Call),
         UNCHANGED <<stick, list, read>>,
         view = "locked" => view' = "locked", Hosted => Hosted' \/ read' = "error"
  PROVE  WillBeRight'
<1>1. Len(homeCalls') = Len(homeCalls) /\ Len(homeCalls) \in Nat
  BY TypesAre DEF Moves
<1>2. \A i \in 1..Len(homeCalls) : /\ homeCalls'[i].op = homeCalls[i].op
           /\ homeCalls'[i].host = homeCalls[i].host
                                   /\ homeCalls'[i].done = homeCalls[i].done
  BY <1>1 DEF Moves
<1>3. CASE ReadAgain
  BY <1>1, <1>2, <1>3 DEF ReadAgain, Hosted, WillBeRight
<1>4. CASE ReadRight
  <2>1. PICK i \in 1..Len(homeCalls) : /\ homeCalls[i].op = "list" /\ homeCalls[i].host
                                       /\ homeCalls[i].done \in {"ok", "blind"} /\ ListsAgree(i)
    BY <1>4 DEF ReadRight
  <2>2. ListsAgree(i)'
    BY <2>1, ListsAgreeMoves
  <2> QED
    BY <1>1, <1>2, <2>1, <2>2 DEF ReadRight, WillBeRight
<1>5. CASE IsRight
  <2>1. ListsAgree(1)' /\ Added(0)' = Added(0)
    BY <1>5, ListsAgreeMoves, AddedMoves DEF IsRight
  <2>2. \A i \in 1..Len(homeCalls') : homeCalls'[i].op \in Reloads
             /\ homeCalls'[i].done = "no" => homeCalls'[i].host
    BY <1>1, <1>2, <1>5 DEF IsRight
  <2> QED
    BY <1>5, <2>1, <2>2 DEF IsRight, WillBeRight
<1> QED
  BY <1>3, <1>4, <1>5 DEF WillBeRight

LEMMA LoadHosts ==
  ASSUME Home!Load
  PROVE  Hosted' /\ WillBeRight'
<1>1. [first |-> selected = None, host |-> TRUE] \in loads'
  BY DEF Home!Load
<1>2. [first |-> selected = None, host |-> TRUE].host
  OBVIOUS
<1>3. \E l \in loads' : l.host
  BY <1>1, <1>2
<1> QED
  BY <1>3 DEF Hosted, WillBeRight, ReadAgain

LEMMA AddedHead ==
  ASSUME Home!TypeOK, homeCalls # <<>>
  PROVE  Added(0) = Added(1) \cup (IF Adding(1) THEN {homeCalls[1].w} ELSE {})
<1>1. Len(homeCalls) \in Nat /\ 1 \in 1..Len(homeCalls)
  BY TypesAre
<1>2. \A i \in 1..Len(homeCalls) : i > 0 /\ (i > 1 \/ i = 1)
  BY <1>1
<1>3. ASSUME NEW w
      PROVE  w \in Added(0) <=> w \in Added(1) \/ (Adding(1) /\ w = homeCalls[1].w)
  BY <1>1, <1>2, AddedIs
<1> QED
  BY <1>3

\* What is right stays right when an answer is handled the way each handler
\* does it.
LEMMA RightHandled ==
  ASSUME QueueInv, WillBeRight, Handles, NEW c, c = homeCalls[1], c.done # "no",
         c.op \in Reloads /\ c.host /\ c.done = "ok" => Hosted',
         view = "locked" => view' = "locked" \/ Hosted',
         read = "error" => read' = "error" \/ Hosted',
         Hosted => Hosted',
         read = "blind" /\ ~(c.op = "list" /\ c.done = "ok") =>
            read' \in {"blind", "error"} \/ Hosted',
         c.op = "list" /\ c.done = "ok" => list' = c.got,
         c.op = "list" /\ c.done = "blind" => read' \in {"blind", "error"},
         c.op = "list" /\ c.done = "failed" => list' = list /\ (c.host => read' = "error"),
         Adding(1) => list' = list \cup {c.w},
         c.op # "list" /\ ~Adding(1) => list' = list
  PROVE  WillBeRight'
<1>0. /\ Home!TypeOK /\ Len(homeCalls) \in Nat /\ 1 \in 1..Len(homeCalls) /\ homeCalls # <<>>
      /\ c.done \in {"ok", "blind", "failed"}
      /\ stick' = stick /\ Moves(1) /\ homeCalls' \in Seq(Home!Call)
  BY TypesAre, CallFields DEF QueueInv, Handles
<1>1. Len(homeCalls') = Len(homeCalls) - 1
  BY <1>0 DEF Moves
<1>2. ASSUME NEW i \in 1..Len(homeCalls), i # 1
      PROVE  /\ i - 1 \in 1..Len(homeCalls') /\ i - 1 \in Nat /\ i <= (i - 1) + 1
             /\ homeCalls'[i - 1].op = homeCalls[i].op
             /\ homeCalls'[i - 1].host = homeCalls[i].host
             /\ homeCalls'[i - 1].done = homeCalls[i].done
  <2>1. i - 1 \in 1..Len(homeCalls') /\ (i - 1) + 1 = i /\ i - 1 \in Nat /\ i <= (i - 1) + 1
    BY <1>0, <1>1, <1>2
  <2> QED
    BY <1>0, <2>1 DEF Moves
<1>3. CASE Hosted' \/ read' = "error"
  BY <1>3 DEF WillBeRight, ReadAgain, Hosted
<1>4. Added(0)' = Added(1)
  BY <1>0, AddedMoves
<1>5. ASSUME ListsAgree(1)
      PROVE  ListsAgree(1)'
  BY <1>0, <1>5, ListsAgreeMoves
<1>6. CASE ReadAgain /\ ~Hosted' /\ read' # "error"
  <2>1. CASE view = "locked"
    BY <1>6, <2>1 DEF WillBeRight, ReadAgain
  <2>2. CASE \E i \in 1..Len(homeCalls) : homeCalls[i].op \in Reloads /\ homeCalls[i].host
             /\ homeCalls[i].done = "ok"
    <3>1. PICK i \in 1..Len(homeCalls) : homeCalls[i].op \in Reloads /\ homeCalls[i].host
               /\ homeCalls[i].done = "ok"
      BY <2>2
    <3>2. i # 1
      BY <1>6, <3>1
    <3>3. /\ i - 1 \in 1..Len(homeCalls') /\ homeCalls'[i - 1].op \in Reloads
          /\ homeCalls'[i - 1].host /\ homeCalls'[i - 1].done = "ok"
      BY <1>2, <3>1, <3>2
    <3> QED
      BY <3>3 DEF WillBeRight, ReadAgain
  <2>3. CASE \E i \in 1..Len(homeCalls) :
                homeCalls[i].op = "list" /\ homeCalls[i].host
                     /\ homeCalls[i].done \in {"no", "failed"}
    <3>1. PICK i \in 1..Len(homeCalls) :
             homeCalls[i].op = "list" /\ homeCalls[i].host
                  /\ homeCalls[i].done \in {"no", "failed"}
      BY <2>3
    <3>2. i # 1
      BY <1>6, <3>1
    <3>3. /\ i - 1 \in 1..Len(homeCalls') /\ homeCalls'[i - 1].op = "list"
          /\ homeCalls'[i - 1].host /\ homeCalls'[i - 1].done \in {"no", "failed"}
      BY <1>2, <3>1, <3>2
    <3> QED
      BY <3>3 DEF WillBeRight, ReadAgain
  <2> QED
    BY <1>6, <2>1, <2>2, <2>3 DEF ReadAgain, Hosted
<1>7. CASE ReadRight /\ ~Hosted' /\ read' # "error"
  <2>1. PICK i \in 1..Len(homeCalls) : /\ homeCalls[i].op = "list" /\ homeCalls[i].host
                                       /\ homeCalls[i].done \in {"ok", "blind"} /\ ListsAgree(i)
    BY <1>7 DEF ReadRight
  <2>2. CASE i # 1
    <3>1. ListsAgree(i - 1)'
      BY <1>0, <1>2, <2>1, <2>2, ListsAgreeMoves
    <3> QED
      BY <1>2, <2>1, <2>2, <3>1 DEF WillBeRight, ReadRight
  <2>3. CASE i = 1
    <3>1. ListsAgree(1)'
      BY <1>5, <2>1, <2>3
    <3>2. ASSUME NEW j \in 1..Len(homeCalls'), homeCalls'[j].op \in Reloads,
                 homeCalls'[j].done = "no"
          PROVE  homeCalls'[j].host
      <4>1. /\ j + 1 \in 1..Len(homeCalls) /\ ~(j + 1 < 1) /\ homeCalls[j + 1].op \in Reloads
            /\ homeCalls'[j].host = homeCalls[j + 1].host
        BY <1>0, <1>1, <3>2 DEF Moves
      <4> QED
        BY <1>0, <2>1, <2>3, <4>1 DEF QueueInv, HostsAreLater
    <3>3. read' = "blind" \/ stick' = list' \cup Added(0)'
      <4>1. CASE c.done = "ok"
        <5>1. stick = c.got \cup Added(1)
          BY <1>0, <2>1, <2>3, <4>1 DEF ListsAgree
        <5> QED
          BY <1>0, <1>4, <2>1, <2>3, <4>1, <5>1
      <4>2. CASE c.done = "blind"
        BY <1>7, <2>1, <2>3, <4>2
      <4> QED
        BY <2>1, <2>3, <4>1, <4>2
    <3> QED
      BY <3>1, <3>2, <3>3 DEF WillBeRight, IsRight
  <2> QED
    BY <2>2, <2>3
<1>8. CASE IsRight /\ ~Hosted' /\ read' # "error"
  <2>1. ListsAgree(1)'
    BY <1>5, <1>8 DEF IsRight
  <2>2. ASSUME NEW j \in 1..Len(homeCalls'), homeCalls'[j].op \in Reloads,
               homeCalls'[j].done = "no"
        PROVE  homeCalls'[j].host
    <3>0. j + 1 \in 1..Len(homeCalls)
      BY <1>0, <1>1
    <3>1. /\ homeCalls[j + 1].op \in Reloads /\ homeCalls[j + 1].done = "no"
          /\ homeCalls'[j].host = homeCalls[j + 1].host
      BY <1>0, <2>2 DEF Moves
    <3> QED
      BY <1>8, <3>0, <3>1 DEF IsRight
  <2>3. read' = "blind" \/ stick' = list' \cup Added(0)'
    <3>1. CASE c.op = "list" /\ c.done = "ok"
      <4>1. stick = c.got \cup Added(1)
        BY <1>0, <1>8, <3>1 DEF IsRight, ListsAgree
      <4> QED
        BY <1>0, <1>4, <3>1, <4>1
    <3>2. CASE c.op = "list" /\ c.done = "blind"
      BY <1>8, <3>2
    <3>3. CASE ~(c.op = "list" /\ c.done \in {"ok", "blind"}) /\ read = "blind"
      BY <1>8, <3>3
    <3>4. CASE ~(c.op = "list" /\ c.done \in {"ok", "blind"}) /\ read # "blind"
      <4>1. stick = list \cup Added(0)
        BY <1>8, <3>4 DEF IsRight
      <4>2. Added(0) = Added(1) \cup (IF Adding(1) THEN {c.w} ELSE {})
        BY <1>0, AddedHead
      <4>3. Adding(1) => c.op # "list"
        BY DEF Adding
      <4>4. list' = list \cup (IF Adding(1) THEN {c.w} ELSE {})
        BY <1>0, <3>4, <4>3
      <4> QED
        BY <1>0, <1>4, <4>1, <4>2, <4>4
    <3> QED
      BY <1>0, <3>1, <3>2, <3>3, <3>4
  <2> QED
    BY <2>1, <2>2, <2>3 DEF WillBeRight, IsRight
<1> QED
  BY <1>3, <1>6, <1>7, <1>8 DEF WillBeRight

LEMMA RightAnswer ==
  ASSUME QueueInv, WillBeRight, Home!Answer
  PROVE  WillBeRight'
<1> DEFINE c == Head(homeCalls)
<1>0. Handles /\ Home!TypeOK
  BY AnswerHandles DEF QueueInv
<1>1. /\ homeCalls # <<>> /\ c = homeCalls[1] /\ 1 \in 1..Len(homeCalls) /\ c \in Home!Call
      /\ c.done # "no"
  BY <1>0, TypesAre DEF Handles, Home!Answer
<1>2. \/ c.op = "list" /\ Home!ListAnswers(c)
      \/ c.op = "unlock" /\ Home!UnlockAnswers(c)
      \/ c.op = "create" /\ Home!CreateAnswers(c)
      \/ c.op = "import" /\ Home!ImportAnswers(c)
      \/ c.op = "restore" /\ Home!RestoreAnswers(c)
      \/ c.op = "export" /\ Home!ExportAnswers(c)
      \/ c.op = "delete" /\ Home!DeleteAnswers(c)
  BY DEF Home!Answer
<1>3. c.done \in {"ok", "blind", "failed"} /\ c.host \in BOOLEAN
  BY <1>1, CallFields
<1> HIDE DEF c
<1> USE DEF Home!disk, Home!store, Home!page, Home!reload, Home!dialog, Home!history
<1>4. ASSUME UNCHANGED <<view, read, loads>>, c.op # "list",
             ~(c.op \in Reloads /\ c.host /\ c.done = "ok"),
             list' = IF Adding(1) THEN list \cup {c.w} ELSE list
      PROVE  WillBeRight'
  <2>1. Hosted => Hosted'
    BY <1>4 DEF Hosted
  <2> QED
    BY <1>0, <1>1, <1>4, <2>1, RightHandled
<1>5. ASSUME Home!BackWithSuccess(c), c.op # "list",
             list' = IF Adding(1) THEN list \cup {c.w} ELSE list
      PROVE  WillBeRight'
  <2>1. CASE c.done = "ok" /\ c.host
    BY <1>5, <2>1, LoadHosts DEF Home!BackWithSuccess
  <2>2. CASE ~(c.done = "ok" /\ c.host)
    BY <1>4, <1>5, <2>2 DEF Home!BackWithSuccess
  <2> QED
    BY <2>1, <2>2
<1>6. CASE c.op = "list" /\ Home!ListAnswers(c)
  <2>1. UNCHANGED <<view, loads>>
    BY <1>6 DEF Home!ListAnswers
  <2>2. Hosted => Hosted'
    BY <2>1 DEF Hosted
  <2>3. list' = IF c.done \in {"ok", "blind"} THEN c.got ELSE list
    BY <1>6 DEF Home!ListAnswers
  <2>4. /\ read = "error" => read' = "error"
        /\ c.done = "blind" => read' \in {"blind", "error"}
        /\ c.done = "failed" => read' = (IF c.host THEN "error" ELSE read)
    BY <1>3, <1>6 DEF Home!ListAnswers
  <2>5. ~Adding(1)
    BY <1>1, <1>6 DEF Adding
  <2>6. c.op \notin Reloads
    BY <1>6 DEF Reloads
  <2> QED
    BY <1>0, <1>1, <1>3, <1>6, <2>1, <2>2, <2>3, <2>4, <2>5, <2>6, RightHandled
<1>7. CASE c.op = "unlock" /\ Home!UnlockAnswers(c)
  BY <1>1, <1>4, <1>7 DEF Home!UnlockAnswers, Adding, Reloads
<1>8. CASE c.op = "create" /\ Home!CreateAnswers(c)
  <2>1. list' = IF Adding(1) THEN list \cup {c.w} ELSE list
    BY <1>1, <1>8 DEF Home!CreateAnswers, Adding, Home!AddWallet
  <2>2. UNCHANGED <<view, read, loads>> /\ c.op \notin Reloads /\ c.op # "list"
    BY <1>8 DEF Home!CreateAnswers, Reloads
  <2> QED
    BY <1>4, <2>1, <2>2
<1>9. CASE c.op = "import" /\ Home!ImportAnswers(c)
  <2>1. list' = IF Adding(1) THEN list \cup {c.w} ELSE list
    BY <1>1, <1>9 DEF Home!ImportAnswers, Adding, Home!AddWallet
  <2> QED
    BY <1>5, <1>9, <2>1 DEF Home!ImportAnswers
<1>10. CASE c.op = "restore" /\ Home!RestoreAnswers(c)
  <2>1. list' = IF Adding(1) THEN list \cup {c.w} ELSE list
    BY <1>1, <1>10 DEF Home!RestoreAnswers, Adding
  <2> QED
    BY <1>5, <1>10, <2>1 DEF Home!RestoreAnswers
<1>11. CASE c.op = "export" /\ Home!ExportAnswers(c)
  BY <1>1, <1>4, <1>11 DEF Home!ExportAnswers, Adding, Reloads
<1>12. CASE c.op = "delete" /\ Home!DeleteAnswers(c)
  <2>1. CASE c.host /\ c.done = "ok"
    BY <1>12, <2>1, LoadHosts DEF Home!DeleteAnswers
  <2>2. CASE ~(c.host /\ c.done = "ok")
    BY <1>1, <1>4, <1>12, <2>2 DEF Home!DeleteAnswers, Adding
  <2> QED
    BY <2>1, <2>2
<1> QED
  BY <1>2, <1>6, <1>7, <1>8, <1>9, <1>10, <1>11, <1>12

Created(i, d) == IF d = "ok" /\ homeCalls[i].op = "create" THEN {homeCalls[i].w} ELSE {}

LEMMA AddedServed ==
  ASSUME QueueInv, NEW i, NEW d, ServedAs(i, d), ~(d = "ok" /\ homeCalls[i].op \in Reloads)
  PROVE  /\ stick' = stick \cup Created(i, d)
         /\ \A j \in Nat : j < i => Added(j)' = Added(j) \cup Created(i, d)
         /\ \A k \in 1..Len(homeCalls) : homeCalls[k].done # "no" => k < i
         /\ \A k \in 1..Len(homeCalls) : k > i => homeCalls'[k].done = "no"
<1>1. /\ Home!TypeOK /\ Len(homeCalls) \in Nat /\ Len(homeCalls') = Len(homeCalls)
      /\ i \in 1..Len(homeCalls)
      /\ homeCalls[i].done = "no" /\ homeCalls'[i].done = d /\ homeCalls[i] \in Home!Call
      /\ \A j \in 1..Len(homeCalls) :
            /\ homeCalls'[j].op = homeCalls[j].op /\ homeCalls'[j].w = homeCalls[j].w
            /\ j # i => homeCalls'[j].done = homeCalls[j].done
  BY TypesAre DEF ServedAs, QueueInv
<1>2. \A k \in 1..Len(homeCalls) : i < k => homeCalls[k].done = "no"
  BY <1>1 DEF QueueInv, ServedInOrder
<1>3. stick' = stick \cup Created(i, d)
  BY <1>1 DEF ServedAs, New, Reloads, Created
<1>4. ASSUME NEW j \in Nat, j < i
      PROVE  Added(j)' = Added(j) \cup Created(i, d)
  <2>1. ASSUME NEW w
        PROVE  w \in Added(j)' <=> w \in Added(j) \cup Created(i, d)
    <3>1. w \in Added(j)' <=>
            \E k \in 1..Len(homeCalls) : /\ k > j /\ homeCalls[k].op \in {"create", "import"}
                                         /\ homeCalls'[k].done = "ok" /\ homeCalls[k].w = w
      BY <1>1, AddedIsNext
    <3>2. w \in Added(j) <=>
            \E k \in 1..Len(homeCalls) : /\ k > j /\ homeCalls[k].op \in {"create", "import"}
                                         /\ homeCalls[k].done = "ok" /\ homeCalls[k].w = w
      BY AddedIs DEF Adding
    <3>3. w \in Created(i, d) <=> /\ homeCalls[i].op \in {"create", "import"}
                      /\ homeCalls'[i].done = "ok" /\ homeCalls[i].w = w
      BY <1>1 DEF Reloads, Created
    <3>4. i > j
      BY <1>1, <1>4
    <3> QED
      BY <1>1, <3>1, <3>2, <3>3, <3>4
  <2> QED
    BY <2>1
<1> QED
  BY <1>1, <1>2, <1>3, <1>4

LEMMA RightServed ==
  ASSUME QueueInv, WillBeRight, NEW i, NEW d, ServedAs(i, d),
         UNCHANGED <<list, read, view, loads>>
  PROVE  WillBeRight'
<1>1. /\ Home!TypeOK /\ Len(homeCalls) \in Nat /\ Len(homeCalls') = Len(homeCalls)
      /\ i \in 1..Len(homeCalls)
      /\ homeCalls[i].done = "no" /\ homeCalls'[i].done = d /\ d \in {"ok", "failed", "blind"}
      /\ \A j \in 1..Len(homeCalls) :
            /\ homeCalls'[j].op = homeCalls[j].op /\ homeCalls'[j].w = homeCalls[j].w
            /\ homeCalls'[j].host = homeCalls[j].host
            /\ j # i =>
                  homeCalls'[j].done = homeCalls[j].done /\ homeCalls'[j].got = homeCalls[j].got
  BY TypesAre DEF ServedAs, QueueInv
<1>2. CASE homeCalls[i].op \in Reloads /\ homeCalls[i].host /\ d = "ok"
  BY <1>1, <1>2 DEF WillBeRight, ReadAgain
<1>3. ASSUME ~(d = "ok" /\ homeCalls[i].op \in Reloads)
      PROVE  /\ stick' = stick \cup Created(i, d)
             /\ \A j \in Nat : j < i => Added(j)' = Added(j) \cup Created(i, d)
             /\ \A k \in 1..Len(homeCalls) : homeCalls[k].done # "no" => k < i
             /\ \A k \in 1..Len(homeCalls) : k > i => homeCalls'[k].done = "no"
    BY <1>3, AddedServed
<1>4. ASSUME ~(d = "ok" /\ homeCalls[i].op \in Reloads), NEW k \in 1..Len(homeCalls),
             k = i \/ ListsAgree(k)
      PROVE  ListsAgree(k)'
  <2> SUFFICES ASSUME NEW m \in 1..Len(homeCalls'), m >= k,
                      homeCalls'[m].op = "list", homeCalls'[m].done = "ok"
               PROVE  stick' = homeCalls'[m].got \cup Added(m)'
    BY DEF ListsAgree
  <2>1. CASE m = i
    <3>1. homeCalls'[i].got = stick /\ stick' = stick
      BY <1>1, <2>1 DEF ServedAs, New
    <3>2. \A w : w \notin Added(i)'
      <4> SUFFICES ASSUME NEW w, w \in Added(i)' PROVE FALSE
        OBVIOUS
      <4>1. PICK j \in 1..Len(homeCalls') : j > i /\ homeCalls'[j].done = "ok"
        BY AddedIsNext
      <4> QED
        BY <1>1, <1>3, <1>4, <4>1
    <3> QED
      BY <2>1, <3>1, <3>2
  <2>2. CASE m # i
    <3>1. /\ m \in 1..Len(homeCalls) /\ homeCalls[m].op = "list" /\ homeCalls[m].done = "ok"
          /\ homeCalls'[m].got = homeCalls[m].got /\ m \in Nat
      BY <1>1, <2>2
    <3>2. m < i
      BY <1>3, <1>4, <3>1
    <3>3. ListsAgree(k)
      BY <1>1, <1>4, <3>2
    <3>4. stick = homeCalls[m].got \cup Added(m)
      BY <3>1, <3>3 DEF ListsAgree
    <3> QED
      BY <1>3, <1>4, <3>1, <3>2, <3>4
  <2> QED
    BY <2>1, <2>2
<1>5. CASE ReadAgain
  <2>1. CASE read = "error" \/ view = "locked" \/ Hosted
    BY <2>1 DEF WillBeRight, ReadAgain, Hosted
  <2>2. CASE \E k \in 1..Len(homeCalls) : homeCalls[k].op \in Reloads /\ homeCalls[k].host
             /\ homeCalls[k].done = "ok"
    BY <1>1, <2>2 DEF WillBeRight, ReadAgain
  <2>3. CASE \E k \in 1..Len(homeCalls) :
                homeCalls[k].op = "list" /\ homeCalls[k].host
                     /\ homeCalls[k].done \in {"no", "failed"}
    <3>1. PICK k \in 1..Len(homeCalls) :
             homeCalls[k].op = "list" /\ homeCalls[k].host
                  /\ homeCalls[k].done \in {"no", "failed"}
      BY <2>3
    <3>2. CASE k # i \/ d = "failed"
      BY <1>1, <3>1, <3>2 DEF WillBeRight, ReadAgain
    <3>3. CASE k = i /\ d # "failed"
      <4>1. ListsAgree(i)'
        BY <1>1, <1>4, <3>1, <3>3 DEF Reloads
      <4> QED
        BY <1>1, <3>1, <3>3, <4>1 DEF WillBeRight, ReadRight
    <3> QED
      BY <3>2, <3>3
  <2> QED
    BY <1>5, <2>1, <2>2, <2>3 DEF ReadAgain, Hosted
<1>6. CASE ReadRight /\ ~(homeCalls[i].op \in Reloads /\ homeCalls[i].host /\ d = "ok")
  <2>1. PICK k \in 1..Len(homeCalls) : /\ homeCalls[k].op = "list" /\ homeCalls[k].host
                                       /\ homeCalls[k].done \in {"ok", "blind"} /\ ListsAgree(k)
    BY <1>6 DEF ReadRight
  <2>2. k # i /\ ~(i > k /\ homeCalls[i].op \in Reloads /\ ~homeCalls[i].host)
    BY <1>1, <2>1 DEF QueueInv, HostsAreLater
  <2>3. i > k
    BY <1>1, <2>1, <2>2 DEF QueueInv, ServedInOrder
  <2>4. ListsAgree(k)'
    BY <1>4, <1>6, <2>1, <2>2, <2>3
  <2> QED
    BY <1>1, <2>1, <2>2, <2>4 DEF WillBeRight, ReadRight
<1>7. CASE IsRight /\ ~(homeCalls[i].op \in Reloads /\ homeCalls[i].host /\ d = "ok")
  <2>1. ~(d = "ok" /\ homeCalls[i].op \in Reloads)
    BY <1>1, <1>7 DEF IsRight
  <2>2. ListsAgree(1)'
    BY <1>1, <1>4, <1>7, <2>1 DEF IsRight
  <2>3. Added(0)' = Added(0) \cup Created(i, d) /\ stick' = stick \cup Created(i, d)
    <3>1. 0 \in Nat /\ 0 < i
      BY <1>1
    <3> QED
      BY <1>3, <2>1, <3>1
  <2>4. read' = "blind" \/ stick' = list' \cup Added(0)'
    BY <1>7, <2>3 DEF IsRight
  <2>5. \A k \in 1..Len(homeCalls') : homeCalls'[k].op \in Reloads
             /\ homeCalls'[k].done = "no" => homeCalls'[k].host
    BY <1>1, <1>7 DEF IsRight
  <2> QED
    BY <2>2, <2>4, <2>5 DEF WillBeRight, IsRight
<1> QED
  BY <1>2, <1>5, <1>6, <1>7 DEF WillBeRight

LEMMA RightStep ==
  ASSUME QueueInv, WillBeRight, Home!Next
  PROVE  WillBeRight'
<1> USE DEF Home!disk, Home!store, Home!page, Home!reload, Home!dialog, Home!history
<1>0. Home!TypeOK
  BY DEF QueueInv
<1>1. CASE Home!Answer
  BY <1>1, RightAnswer
<1>2. CASE Home!Serve
  <2>1. PICK i, d : ServedAs(i, d)
    BY <1>0, <1>2, ServeIs
  <2>2. UNCHANGED <<list, read, view, loads>>
    BY <1>2 DEF Home!Serve
  <2> QED
    BY <2>1, <2>2, RightServed
<1>3. CASE Home!Lock
  <2>1. view' = "locked"
    BY <1>3 DEF Home!Lock, Home!TakenAway, Home!Show
  <2> QED
    BY <2>1 DEF WillBeRight, ReadAgain
<1>4. CASE Home!HandleReload \/ Home!Unlock \/ Home!HandleMnemonicConfirm
  BY <1>4, LoadHosts DEF Home!HandleReload, Home!Unlock, Home!HandleMnemonicConfirm
<1>5. ASSUME UNCHANGED <<homeCalls, view, stick, list, read, loads>>
      PROVE  WillBeRight'
  <2>1. Moves(0) /\ homeCalls' \in Seq(Home!Call)
    BY <1>0, <1>5, NoneMoves, TypesAre
  <2> QED
    BY <1>0, <1>5, <2>1, RightStays DEF Hosted
<1>6. ASSUME NEW v, Home!Show(v, homeCalls), view # "locked",
             UNCHANGED <<stick, list, read, loads>>
      PROVE  WillBeRight'
  <2>1. Moves(0) /\ homeCalls' \in Seq(Home!Call)
    BY <1>0, <1>6, ShowMoves
  <2> QED
    BY <1>0, <1>6, <2>1, RightStays DEF Hosted
<1>7. ASSUME NEW c, Adds(c), UNCHANGED <<view, stick, list, read, loads>>
      PROVE  WillBeRight'
  <2>1. Hosted => Hosted'
    BY <1>7 DEF Hosted
  <2> QED
    BY <1>0, <1>7, <2>1, RightAsked
<1>8. CASE Home!Unplug \/ Home!HandleCancelDelete \/ \E w \in Wallet : Home!HandleDeleteWallet(w)
  BY <1>5, <1>8 DEF Home!Unplug, Home!HandleCancelDelete, Home!HandleDeleteWallet
<1>9. ASSUME NEW l \in loads, Home!DetectReturns(l)
      PROVE  WillBeRight'
  <2>1. UNCHANGED <<view, stick, list>> /\ loads' = loads \ {l}
    BY <1>9 DEF Home!DetectReturns
  <2>2. Hosted => Hosted' \/ l.host
    BY <2>1 DEF Hosted
  <2>3. CASE plugged
    <3>1. PICK c : Adds(c) /\ c.op = "list" /\ c.host = l.host
      BY <1>0, <1>9, <2>3, DetectAdds
    <3>2. read' = read
      BY <1>9, <2>3 DEF Home!DetectReturns
    <3> QED
      BY <1>0, <2>1, <2>2, <3>1, <3>2, RightAsked
  <2>4. CASE ~plugged /\ l.host
    <3>1. read' = "error"
      BY <1>9, <2>4 DEF Home!DetectReturns
    <3> QED
      BY <3>1 DEF WillBeRight, ReadAgain
  <2>5. CASE ~plugged /\ ~l.host
    <3>1. UNCHANGED <<homeCalls, read>>
      BY <1>9, <2>5 DEF Home!DetectReturns
    <3>2. Moves(0) /\ homeCalls' \in Seq(Home!Call)
      BY <1>0, <3>1, NoneMoves, TypesAre
    <3> QED
      BY <1>0, <2>1, <2>2, <2>5, <3>1, <3>2, RightStays
  <2> QED
    BY <2>3, <2>4, <2>5
<1>10. CASE \/ \E v \in Home!View : Home!Open(v)
            \/ Home!HandleBackToList \/ Home!HandleCancelClick \/ Home!Redirect \/ Home!OpenExport
            \/ \E w \in Wallet : Home!HandleWalletSelect(w)
  <2>1. PICK v : Home!Show(v, homeCalls) /\ view # "locked"
             /\ UNCHANGED <<stick, list, read, loads>>
    BY <1>10 DEF Home!Open, Home!HandleBackToList, Home!HandleCancelClick, Home!Redirect,
       Home!OpenExport,
       Home!HandleWalletSelect, Home!TakenAway
  <2> QED
    BY <1>6, <2>1
<1>11. ASSUME NEW w \in Wallet, Home!HandleExport(w)
       PROVE  WillBeRight'
  <2>1. Adds(Home!Request("export", w))
    BY <1>0, <1>11, RequestAdds DEF Home!HandleExport, New
  <2> QED
    BY <1>7, <1>11, <2>1 DEF Home!HandleExport
<1>12. ASSUME NEW w \in Wallet,
              Home!CreateWallet(w) \/ Home!ImportWallet(w) \/ Home!HandleImport(w)
       PROVE  WillBeRight'
  <2>1. PICK kind \in New : Home!Submit(kind, w)
    BY <1>12 DEF Home!CreateWallet, Home!ImportWallet, Home!HandleImport, New
  <2>2. Adds(Home!Request(kind, w))
    BY <1>0, <2>1, SubmitAsks
  <2> QED
    BY <1>7, <2>1, <2>2 DEF Home!Submit
<1>13. CASE Home!EnterPassword
  <2>1. Adds(Home!Request("unlock", selected))
    BY <1>0, <1>13, TypesAre, RequestAdds DEF Home!EnterPassword, New, Types
  <2> QED
    BY <1>7, <1>13, <2>1 DEF Home!EnterPassword
<1>14. CASE Home!HandleSubmit
  <2>1. Adds(Home!Request("delete", toDelete))
    BY <1>0, <1>14, TypesAre, RequestAdds DEF Home!HandleSubmit, New, Types
  <2> QED
    BY <1>7, <1>14, <2>1 DEF Home!HandleSubmit
<1> QED
  BY <1>1, <1>2, <1>3, <1>4, <1>8, <1>9, <1>10, <1>11, <1>12, <1>13, <1>14 DEF Home!Next

-----------------------------------------------------------------------------
HomeInv == QueueInv /\ WillBeRight /\ DetailInv /\ PhraseInv

LEMMA HomeInit == Home!Init => HomeInv
<1> SUFFICES ASSUME Home!Init PROVE HomeInv
  OBVIOUS
<1>1. homeCalls = <<>> /\ Len(homeCalls) = 0 /\ 1..Len(homeCalls) = {}
           /\ homeCalls \in Seq(Home!Call)
  BY DEF Home!Init
<1>2. Home!TypeOK
  <2>1. (CHOOSE w \in Wallet : TRUE) \in Wallet
    OBVIOUS
  <2>2. stick \subseteq Wallet
    BY <2>1 DEF Home!Init
  <2>3. loads \subseteq [first : BOOLEAN, host : BOOLEAN]
    BY DEF Home!Init
  <2> QED
    BY <1>1, <2>2, <2>3 DEF Home!Init, Home!TypeOK, Home!View
<1>3. QueueInv
  BY <1>1, <1>2 DEF Home!Init, QueueInv, ServedInOrder, NamesAreNew, HostsAreLater,
     Home!DeletingHasCall
<1>4. WillBeRight
  <2>1. [first |-> TRUE, host |-> TRUE] \in loads /\ [first |-> TRUE, host |-> TRUE].host
    BY DEF Home!Init
  <2> QED
    BY <2>1 DEF WillBeRight, ReadAgain
<1>5. DetailInv /\ PhraseInv
  BY <1>1 DEF Home!Init, DetailInv, PhraseInv
<1> QED
  BY <1>3, <1>4, <1>5 DEF HomeInv

LEMMA HomeNext == HomeInv /\ [Home!Next]_(Home!vars) => HomeInv'
<1> SUFFICES ASSUME HomeInv, [Home!Next]_(Home!vars) PROVE HomeInv'
  OBVIOUS
<1>1. CASE Home!Next
  BY <1>1, QueueStep, RightStep, DetailStep, PhraseStep DEF HomeInv, QueueInv
<1>2. CASE UNCHANGED Home!vars
  <2>1. /\ UNCHANGED <<plugged, stick, gone, list, selected, view, loads, loading, read, homeCalls>>
        /\ UNCHANGED <<toDelete, homeDeleting, entered, phrase, owed, asked>>
    BY <1>2 DEF Home!vars, Home!disk, Home!store, Home!page, Home!reload, Home!dialog,
       Home!history
  <2>2. QueueInv'
    BY <2>1 DEF HomeInv, QueueInv, Home!TypeOK, ServedInOrder, NamesAreNew, HostsAreLater,
       Home!DeletingHasCall
  <2>3. WillBeRight'
    BY <2>1 DEF HomeInv, WillBeRight, ReadAgain, ReadRight, IsRight, ListsAgree, Added
  <2>4. DetailInv' /\ PhraseInv'
    BY <2>1 DEF HomeInv, DetailInv, PhraseInv
  <2> QED
    BY <2>2, <2>3, <2>4 DEF HomeInv
<1> QED
  BY <1>1, <1>2

LEMMA HomeHolds == HomeInv => Home!HomeSettles /\ Home!DetailIsEntered /\ Home!PhraseIsShown
<1> SUFFICES ASSUME HomeInv PROVE Home!HomeSettles /\ Home!DetailIsEntered /\ Home!PhraseIsShown
  OBVIOUS
<1>1. Home!TypeOK /\ Home!DeletingHasCall /\ DOMAIN homeCalls = 1..Len(homeCalls)
  BY TypesAre DEF HomeInv, QueueInv
<1>2. Home!ListIsStick
  <2> SUFFICES ASSUME loads = {}, homeCalls = <<>>, read = "stick", view = "list"
               PROVE  list = stick
    BY DEF Home!ListIsStick
  <2>1. 1..Len(homeCalls) = {}
    OBVIOUS
  <2>2. IsRight
    BY <2>1 DEF HomeInv, WillBeRight, ReadAgain, ReadRight
  <2>3. Added(0) = {}
    BY <2>1 DEF Added
  <2> QED
    BY <2>2, <2>3 DEF IsRight
<1>3. Home!DetailIsEntered
  BY DEF HomeInv, DetailInv, Home!DetailIsEntered
<1>4. Home!PhraseIsShown
  BY <1>1 DEF HomeInv, PhraseInv, Home!PhraseIsShown, Home!Named
<1> QED
  BY <1>1, <1>2, <1>3, <1>4 DEF Home!HomeSettles

LEMMA HomeAlways == Home!Spec => []HomeInv
  BY HomeInit, HomeNext, PTL DEF Home!Spec

\* Once the answers are in, the list of the home page is what the stick holds,
\* however loads, creations, imports, restores, deletions, locks and
\* redirections overlapped, and no deletion is waited for that was answered
\* (Dashboard.tsx, dashboardStore.ts).
THEOREM DeskSettles == Home!Spec => []HomeSettles
<1>1. HomeInv => HomeSettles
  BY HomeHolds DEF HomeSettles
<1> QED
  BY <1>1, HomeAlways, PTL

\* The page of a wallet is unlocked only by a password that was entered on it
\* since it was opened, whatever was left under way by the pages before it
\* (Dashboard.tsx, useWalletDetailDisplay.ts).
THEOREM DeskDetailIsEntered == Home!Spec => []DetailIsEntered
<1>1. HomeInv => DetailIsEntered
  BY HomeHolds DEF DetailIsEntered
<1> QED
  BY <1>1, HomeAlways, PTL

\* No step of the user loses the recovery phrase of a wallet that was created
\* (WalletCreate.tsx).
THEOREM DeskPhraseIsShown == Home!Spec => []PhraseIsShown
<1>1. HomeInv => PhraseIsShown
  BY HomeHolds DEF PhraseIsShown
<1> QED
  BY <1>1, HomeAlways, PTL
=============================================================================
