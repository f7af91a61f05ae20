----------------------------- MODULE ContactStore -----------------------------
(***************************************************************************)
(* internal/contacts/store.go and the exported functions that use it.      *)
(* Every call opens the store afresh: it reads and decrypts contacts.enc,  *)
(* changes the copy in memory, writes the whole book to a temporary file   *)
(* and renames that over contacts.enc.  The app can die between any two of *)
(* these steps, and each can fail; a rename is atomic.                     *)
(*                                                                         *)
(* The file is on a stick that may be pulled at any time.  No call asks    *)
(* for the stick: the path is checked as a string, the session in memory,  *)
(* and a file that is not there is an empty book.                          *)
(***************************************************************************)
CONSTANTS Contact, Data, None

ASSUME ContactAssumption == None \notin Contact /\ None \notin Data

VARIABLES
    file,  \* contacts.enc
    tmp,   \* contacts.enc.tmp
    mem,   \* the store's list
    op,    \* the request in service
    step,  \* how far it is
    used,     \* history: ids that were given to a contact
    inserted, \* the stick is in
    missed    \* history: the request in service read while the stick was out

storeVars == <<file, tmp, mem, op, step, used, inserted, missed>>
usb == <<inserted, missed>>

\* The promise, and the data it is stated with.
Promise == INSTANCE Contacts WITH
    book <- file, call <- op, plugged <- inserted, blind <- missed,
    status <- IF step \in {"begun", "loaded", "changed", "written"} THEN "busy" ELSE step

Book == Promise!Book
Request == Promise!Request
NoRequest == Promise!NoRequest
NoContact == Promise!NoContact
Apply(b, r) == Promise!Apply(b, r)

\* What a temporary file holds when it was written to the end.
Tmp == [state : {"none", "torn", "whole"}, book : Book]
NoTmp == [state |-> "none", book |-> NoContact]
Torn == [state |-> "torn", book |-> NoContact]

Step == {"idle", "begun", "loaded", "changed", "written", "ok", "failed"}

StoreInit ==
    /\ file = NoContact /\ tmp = NoTmp /\ mem = NoContact
    /\ op = NoRequest /\ step = "idle"
    /\ used = {} /\ inserted = TRUE /\ missed = FALSE

-----------------------------------------------------------------------------
\* A new contact gets an id of its own.
Begin(r) ==
    /\ step = "idle"
    /\ op' = r /\ step' = "begun"
    /\ IF r.do = "add"
       THEN r.c \in Contact \ used /\ used' = used \cup {r.c}
       ELSE UNCHANGED used
    /\ UNCHANGED <<file, tmp, mem, usb>>

\* The session or the password is refused, or the file cannot be read; a file
\* that does not exist, as on a stick that is out, is no error.
Load ==
    /\ step = "begun"
    /\ \/ /\ step' = "loaded"
          /\ mem' = IF inserted THEN file ELSE NoContact
          /\ missed' = ~inserted
       \/ step' = "failed" /\ UNCHANGED <<mem, missed>>
    /\ UNCHANGED <<file, tmp, op, used, inserted>>

\* A list is answered from memory.
List ==
    /\ step = "loaded" /\ op.do = "list"
    /\ step' = "ok"
    /\ UNCHANGED <<file, tmp, mem, op, used, usb>>

Change ==
    /\ step = "loaded" /\ op.do # "list"
    /\ IF op.do \in {"update", "delete"} /\ mem[op.c] = None
       THEN step' = "failed" /\ UNCHANGED mem
       ELSE step' = "changed" /\ mem' = Apply(mem, op)
    /\ UNCHANGED <<file, tmp, op, used, usb>>

\* Mutant: the book is written where it is read.
WriteInPlace ==
    /\ step = "changed"
    /\ \/ inserted /\ step' = "written" /\ tmp' = [state |-> "whole", book |-> mem] /\ file' = mem
       \/ step' = "failed" /\ tmp' \in {tmp, Torn} /\ UNCHANGED file
    /\ UNCHANGED <<mem, op, used, usb>>

WriteTemp ==
    /\ step = "changed"
    /\ \/ inserted /\ step' = "written" /\ tmp' = [state |-> "whole", book |-> mem]
       \/ step' = "failed" /\ tmp' \in {tmp, Torn}
    /\ UNCHANGED <<file, mem, op, used, usb>>

\* The temporary copy is removed when the rename fails, if it can be.
Rename ==
    /\ step = "written"
    /\ \/ inserted /\ file' = tmp.book /\ tmp' = NoTmp /\ step' = "ok"
       \/ step' = "failed" /\ tmp' \in {tmp, NoTmp} /\ UNCHANGED file
    /\ UNCHANGED <<mem, op, used, usb>>

\* The store is closed.
Finish ==
    /\ step \in {"ok", "failed"}
    /\ op' = NoRequest /\ step' = "idle" /\ mem' = NoContact /\ missed' = FALSE
    /\ UNCHANGED <<file, tmp, used, inserted>>

\* The app dies, in the middle of a write perhaps.
Crash ==
    /\ op' = NoRequest /\ step' = "idle" /\ mem' = NoContact /\ missed' = FALSE
    /\ tmp' \in IF step = "changed" THEN {tmp, Torn} ELSE {tmp}
    /\ UNCHANGED <<file, used, inserted>>

\* The user pulls the stick, or puts it back.
Plug ==
    /\ inserted' = ~inserted
    /\ UNCHANGED <<file, tmp, mem, op, step, used, missed>>

Progress == Load \/ List \/ Change \/ WriteTemp \/ Rename

StoreNext == Progress \/ Finish \/ Crash \/ Plug \/ \E r \in Request : Begin(r)

StoreSpec == StoreInit /\ [][StoreNext]_storeVars

-----------------------------------------------------------------------------
\* Opening, changing, writing and renaming amount to one atomic change of the
\* book the request read, wherever a step fails, wherever the app dies and
\* whenever the stick goes: that book is the stored one, or an empty one if the
\* stick was out.
KeepsPromise == Promise!CSpec

\* What the request in service has read.
Seen == IF missed THEN NoContact ELSE file

\* The book that is about to replace the file is the one that was read with
\* this one request applied to it: nobody else's change is overwritten, except
\* by a request that read while the stick was out, which overwrites them all.
WritesOneChange ==
    /\ step = "changed" => mem = Apply(Seen, op)
    /\ step = "written" => tmp = [state |-> "whole", book |-> Apply(Seen, op)]
=============================================================================
