------------------------------- MODULE Contacts -------------------------------
(***************************************************************************)
(* What the contacts store promises its callers.  A request sees the book  *)
(* as it is stored or, if the stick is out when it looks, an empty one.    *)
(* One that succeeds has taken effect as a whole, and what it leaves is    *)
(* the book it saw with its own change; one that fails, or that a crash    *)
(* cuts off, has taken effect as a whole or not at all; and nothing else   *)
(* changes the book.  A contact that is added with the stick out for the   *)
(* look and in for the change therefore replaces all others: the promise   *)
(* is no better than that.                                                 *)
(* The file, its temporary copy and the steps in between are ContactStore. *)
(***************************************************************************)
CONSTANTS Contact, Data, None

VARIABLES
    book,    \* contact -> what is kept of it, None if there is no such contact
    call,    \* the request under way
    status,  \* "idle", "busy", and then "ok" or "failed"
    plugged, \* the stick is in
    blind    \* the request looked while the stick was out

cvars == <<book, call, status, plugged, blind>>

Book == [Contact -> Data \cup {None}]
Request == [do : {"list", "add", "update", "delete"}, c : Contact \cup {None}, d : Data \cup {None}]
NoRequest == [do |-> "list", c |-> None, d |-> None]
NoContact == [c \in Contact |-> None]

Apply(b, r) ==
    IF r.do = "list" THEN b
    ELSE [b EXCEPT ![r.c] = IF r.do = "delete" THEN None ELSE r.d]

CInit == book = NoContact /\ call = NoRequest /\ status = "idle" /\ plugged = TRUE /\ blind = FALSE

Receive ==
    /\ status = "idle" /\ status' = "busy"
    /\ call' \in Request
    /\ UNCHANGED <<book, plugged, blind>>

\* The request looks for the book and finds no stick.
Miss ==
    /\ status = "busy"
    /\ ~plugged /\ ~blind /\ blind' = TRUE
    /\ UNCHANGED <<book, call, status, plugged>>

\* A contact is changed or removed only if it was seen, and nothing is changed
\* while the stick is out.
Commit ==
    LET seen == IF blind THEN NoContact ELSE book
    IN  /\ status = "busy"
        /\ call.do \in {"update", "delete"} => seen[call.c] # None
        /\ IF call.do = "list" THEN UNCHANGED book ELSE plugged /\ book' = Apply(seen, call)
        /\ status' = "ok"
        /\ UNCHANGED <<call, plugged, blind>>

Refuse ==
    /\ status = "busy"
    /\ status' = "failed"
    /\ UNCHANGED <<book, call, plugged, blind>>

Return ==
    /\ status \in {"ok", "failed"}
    /\ call' = NoRequest /\ status' = "idle" /\ blind' = FALSE
    /\ UNCHANGED <<book, plugged>>

Stop ==
    /\ call' = NoRequest /\ status' = "idle" /\ blind' = FALSE
    /\ UNCHANGED <<book, plugged>>

Plug ==
    /\ plugged' = ~plugged
    /\ UNCHANGED <<book, call, status, blind>>

CNext == Commit \/ Refuse \/ Return \/ Stop \/ Receive \/ Miss \/ Plug

CSpec == CInit /\ [][CNext]_cvars
=============================================================================
