-------------------------------- MODULE Home --------------------------------
(***************************************************************************)
(* The wallets of one USB stick as the home page (Dashboard) shows them:   *)
(* the list, and the pages that create, import, restore, export, delete    *)
(* and open a wallet.                                                      *)
(*                                                                         *)
(* Every request goes through the backend's queue: requests are served one *)
(* at a time and their answers are handled in that order.  A page that is  *)
(* replaced, by the user, by the lock or by a request of the developer's   *)
(* tool, leaves its requests in the queue, and the handlers that wait for  *)
(* them go on: what they set on the page is lost, what they set in the     *)
(* store is not.                                                           *)
(***************************************************************************)
EXTENDS Integers, Sequences, FiniteSets

CONSTANTS
    Wallet,
    MaxCalls,  \* bound on the requests in the queue
    None

VARIABLES
    plugged,   \* detectUsb finds the stick
    stick,     \* wallets on it
    gone,      \* history: wallets deleted from it
    list,      \* dashboardStore: wallets
    selected,  \* dashboardStore: selectedWalletId
    view,      \* currentView; "locked" when the page is not mounted
    loads,     \* loadWallets runs that wait for detectUsb
    loading,   \* isLoadingWallets
    read,      \* how the last load ended: "error" if it showed one, "blind" if
               \*   it read the list when the stick was out (history), "stick"
    calls,     \* the queue, with the answers on their way
    toDelete,  \* walletToDelete
    deleting,  \* isDeletingWallet
    entered,   \* the wallet whose page has been unlocked
    phrase,    \* createdWallet: the wallet whose recovery phrase is shown
    owed,      \* history: created wallets whose phrase was neither shown to
               \*   the end nor taken from the user
    asked      \* history: the wallets whose password was entered on the page
               \*   that is shown

disk == <<plugged, stick, gone>>
store == <<list, selected>>
page == <<view, entered, phrase>>
reload == <<loads, loading, read>>
dialog == <<toDelete, deleting>>
history == <<owed, asked>>
vars == <<disk, store, page, reload, calls, dialog, history>>

View == {"list", "create", "import", "restore", "export", "detail", "settings", "developer", "locked"}

\* done: what the backend answered, blind for the success of a list that found
\* no stick, which looks like any other; own, host: the form that asked, the
\* home page, waits for it; got: a list's answer; first: nothing was selected
\* when the load began.
Call == [op : {"list", "create", "import", "restore", "export", "delete", "unlock"},
         w : Wallet \cup {None}, done : {"no", "ok", "blind", "failed"}, own : BOOLEAN, host : BOOLEAN,
         got : SUBSET Wallet, first : BOOLEAN]

Init ==
    /\ plugged = TRUE
    /\ stick \in {{}, {CHOOSE w \in Wallet : TRUE}}
    /\ gone = {}
    /\ list = {} /\ selected = None
    /\ view = "list" /\ entered = None /\ phrase = None
    /\ loads = {[first |-> TRUE, host |-> TRUE]} /\ loading = TRUE /\ read = "stick"
    /\ calls = <<>>
    /\ toDelete = None /\ deleting = FALSE
    /\ owed = {} /\ asked = {}

Pending(op) == \E i \in DOMAIN calls : calls[i].op = op /\ calls[i].own
Named(op) == {calls[i].w : i \in {j \in DOMAIN calls : calls[j].op = op}}

Request(op, w) ==
    [op |-> op, w |-> w, done |-> "no", own |-> op \notin {"list", "delete"},
     host |-> op \in {"list", "delete", "import", "restore"}, got |-> {}, first |-> FALSE]

Enqueue(c) == Len(calls) < MaxCalls /\ calls' = Append(calls, c)

\* A wallet gets a new id.
Fresh == Wallet \ (stick \cup gone \cup UNION {Named(op) : op \in {"create", "import", "restore"}})

\* setCurrentView: the page that was shown is unmounted, the dialog with the
\* list; cs is what the queue holds.
Show(v, cs) ==
    /\ view' = v
    /\ IF v = view
       THEN calls' = cs /\ UNCHANGED <<entered, phrase, asked>>
       ELSE /\ calls' = [i \in DOMAIN cs |-> [cs[i] EXCEPT !.own = FALSE]]
            /\ entered' = None
            /\ phrase' = None
            /\ asked' = {}

\* The same when it is not the user who leaves.
TakenAway(v, cs) ==
    /\ Show(v, cs)
    /\ owed' = IF v = view THEN owed ELSE owed \ ({phrase} \cup Named("create"))

-----------------------------------------------------------------------------
(***************************************************************************)
(* The list.                                                               *)
(***************************************************************************)
Load ==
    /\ loads' = loads \cup {[first |-> selected = None, host |-> TRUE]}
    /\ loading' = TRUE
    /\ read' = "stick"

HandleReload ==
    /\ view = "list" /\ ~loading /\ toDelete = None
    /\ Load
    /\ UNCHANGED <<disk, store, page, calls, dialog, history>>

DetectReturns(l) ==
    /\ loads' = loads \ {l}
    /\ IF plugged
       THEN /\ Enqueue([Request("list", None) EXCEPT !.first = l.first, !.host = l.host])
            /\ UNCHANGED <<loading, read>>
       ELSE /\ loading' = (loading /\ ~l.host)
            /\ read' = IF l.host THEN "error" ELSE read
            /\ UNCHANGED calls
    /\ UNCHANGED <<disk, store, page, dialog, history>>

\* The first wallet is selected if none was when the load began, whatever page
\* is shown by now: the page of a wallet turns into that of another, unlocked
\* as it is.
ListAnswers(c) ==
    /\ IF c.done \in {"ok", "blind"}
       THEN /\ list' = c.got
            /\ IF c.first /\ c.got # {}
               THEN selected' \in c.got
               ELSE UNCHANGED selected
       ELSE UNCHANGED store
    /\ loading' = (loading /\ ~c.host)
    /\ read' = IF read = "error"
               THEN read
               ELSE CASE c.done = "blind"  -> "blind"
                      [] c.done = "ok"     -> "stick"
                      [] c.done = "failed" -> IF c.host THEN "error" ELSE read
    /\ calls' = Tail(calls)
    /\ UNCHANGED <<disk, page, loads, dialog, history>>

Unplug ==
    /\ plugged' = ~plugged
    /\ UNCHANGED <<stick, gone, store, page, reload, calls, dialog, history>>

\* The worker takes the next request.
Ends(i, d) ==
    calls' = [calls EXCEPT ![i].done = d,
                           ![i].got = IF calls[i].op = "list" /\ d = "ok" THEN stick ELSE {}]

ServeCall(i) ==
    LET c == calls[i]
    IN  /\ c.done = "no"
        /\ \A j \in 1..(i - 1) : calls[j].done # "no"
        /\ \/ Ends(i, "failed") /\ UNCHANGED <<stick, gone, owed>>
           \/ /\ ~plugged /\ c.op = "list" /\ Ends(i, "blind")
              /\ UNCHANGED <<stick, gone, owed>>
           \/ /\ plugged /\ Ends(i, "ok")
              /\ \/ c.op = "list" /\ UNCHANGED <<stick, gone, owed>>
                 \/ /\ c.op \in {"create", "import", "restore"}
                    /\ stick' = stick \cup {c.w}
                    /\ owed' = IF c.op = "create" /\ c.own THEN owed \cup {c.w} ELSE owed
                    /\ UNCHANGED gone
                 \/ c.op \in {"export", "unlock"} /\ c.w \in stick /\ UNCHANGED <<stick, gone, owed>>
                 \/ /\ c.op = "delete" /\ c.w \in stick
                    /\ stick' = stick \ {c.w}
                    /\ gone' = gone \cup {c.w}
                    /\ UNCHANGED owed

Serve ==
    /\ \E i \in DOMAIN calls : ServeCall(i)
    /\ UNCHANGED <<plugged, store, page, reload, dialog, asked>>

-----------------------------------------------------------------------------
(***************************************************************************)
(* Pages.                                                                  *)
(***************************************************************************)
Open(v) ==
    /\ view = "list" /\ toDelete = None
    /\ v \in {"create", "import", "restore", "settings"}
    /\ Show(v, calls)
    /\ UNCHANGED <<disk, store, reload, dialog, owed>>

\* handleBackToList; the developer page and the settings have it too, and so
\* has the import page at any time.
HandleBackToList ==
    /\ view \in {"import", "restore", "detail", "settings", "developer"}
    /\ Show("list", calls)
    /\ UNCHANGED <<disk, store, reload, dialog, owed>>

\* Mutant: the creation can be cancelled while it runs.
CancelAnyTime ==
    /\ view = "create" /\ phrase = None
    /\ Show("list", calls)
    /\ UNCHANGED <<disk, store, reload, dialog, owed>>

\* Cancel of the creation, after a question if the form was filled.
HandleCancelClick ==
    /\ view = "create" /\ phrase = None
    /\ ~Pending("create")
    /\ Show("list", calls)
    /\ UNCHANGED <<disk, store, reload, dialog, owed>>

\* A transaction of the developer's tool is found by the poll.
Redirect ==
    /\ view \notin {"developer", "locked"}
    /\ TakenAway("developer", calls)
    /\ UNCHANGED <<disk, store, reload, dialog>>

\* The page goes, whatever it shows; the store and the queue stay.
Lock ==
    /\ view # "locked"
    /\ TakenAway("locked", [i \in DOMAIN calls |-> [calls[i] EXCEPT !.host = FALSE]])
    /\ loads' = {[l EXCEPT !.host = FALSE] : l \in loads}
    /\ loading' = FALSE /\ read' = "stick"
    /\ toDelete' = None /\ deleting' = FALSE
    /\ UNCHANGED <<disk, store>>

Unlock ==
    /\ view = "locked"
    /\ Show("list", calls)
    /\ Load
    /\ UNCHANGED <<disk, store, dialog, owed>>

HandleWalletSelect(w) ==
    /\ view = "list" /\ ~loading /\ toDelete = None
    /\ w \in list
    /\ selected' = w
    /\ Show("detail", calls)
    /\ UNCHANGED <<disk, list, reload, dialog, owed>>

DetailShown == view = "detail" /\ selected \in list

\* handleLoadBalances of the wallet's page, and what it sets there.
EnterPassword ==
    /\ DetailShown /\ entered = None /\ ~Pending("unlock")
    /\ Enqueue(Request("unlock", selected))
    /\ asked' = asked \cup {selected}
    /\ UNCHANGED <<disk, store, page, reload, dialog, owed>>

\* Mutant: the answer is shown on whatever page is there.
UnlockAnswersAnyPage(c) ==
    /\ entered' = IF c.done = "ok" THEN c.w ELSE entered
    /\ calls' = Tail(calls)
    /\ UNCHANGED <<disk, store, view, phrase, reload, dialog, history>>

UnlockAnswers(c) ==
    /\ entered' = IF c.own /\ c.done = "ok" THEN c.w ELSE entered
    /\ calls' = Tail(calls)
    /\ UNCHANGED <<disk, store, view, phrase, reload, dialog, history>>

-----------------------------------------------------------------------------
(***************************************************************************)
(* Creating, importing, restoring, exporting.                              *)
(***************************************************************************)
Submit(op, w) ==
    /\ view = op /\ phrase = None
    /\ ~Pending(op)
    /\ w \in Fresh
    /\ Enqueue(Request(op, w))
    /\ UNCHANGED <<disk, store, page, reload, dialog, history>>

CreateWallet(w) == Submit("create", w)
ImportWallet(w) == Submit("import", w)
\* One backup, or a file of several.
HandleImport(w) == Submit("restore", w)

AddWallet(w) == list' = list \cup {w} /\ selected' = w

\* The answer of create_wallet holds the recovery phrase, this once.
CreateAnswers(c) ==
    /\ calls' = Tail(calls)
    /\ IF c.done = "ok"
       THEN /\ AddWallet(c.w)
            /\ phrase' = IF c.own THEN c.w ELSE phrase
       ELSE UNCHANGED <<store, phrase>>
    /\ UNCHANGED <<disk, view, entered, reload, dialog, history>>

\* handleMnemonicConfirm, of the button or of the thirty seconds' end.
HandleMnemonicConfirm ==
    /\ phrase # None
    /\ owed' = owed \ {phrase}
    /\ Show("list", calls)
    /\ Load
    /\ UNCHANGED <<disk, store, dialog>>

\* Mutant: the store learns of a wallet only from the page that asked.
ImportAnswersQuietly(c) ==
    /\ TakenAway(IF c.done = "ok" /\ c.own THEN "list" ELSE view, Tail(calls))
    /\ UNCHANGED <<disk, store, reload, dialog>>

\* onSuccess: the list is shown and read again, whatever is shown by then.
BackWithSuccess(c) ==
    IF c.done = "ok" /\ c.host
    THEN TakenAway("list", Tail(calls)) /\ Load
    ELSE calls' = Tail(calls) /\ UNCHANGED <<page, history, reload>>

ImportAnswers(c) ==
    /\ IF c.done = "ok" THEN AddWallet(c.w) ELSE UNCHANGED store
    /\ BackWithSuccess(c)
    /\ UNCHANGED <<disk, dialog>>

\* The restored wallets are left to the list that is read again.
RestoreAnswers(c) ==
    /\ BackWithSuccess(c)
    /\ UNCHANGED <<disk, store, dialog>>

OpenExport ==
    /\ view = "settings"
    /\ Show("export", calls)
    /\ UNCHANGED <<disk, store, reload, dialog, owed>>

HandleExport(w) ==
    /\ view = "export" /\ w \in list
    /\ ~Pending("export")
    /\ Enqueue(Request("export", w))
    /\ UNCHANGED <<disk, store, page, reload, dialog, history>>

\* The answer is written to a file the user chooses.
ExportAnswers(c) ==
    /\ calls' = Tail(calls)
    /\ UNCHANGED <<disk, store, page, reload, dialog, history>>

-----------------------------------------------------------------------------
(***************************************************************************)
(* Deleting.                                                               *)
(***************************************************************************)
HandleDeleteWallet(w) ==
    /\ view = "list" /\ ~loading /\ toDelete = None
    /\ w \in list
    /\ toDelete' = w
    /\ UNCHANGED <<disk, store, page, reload, calls, deleting, history>>

Asking == view = "list" /\ toDelete # None /\ ~deleting

HandleCancelDelete ==
    /\ Asking
    /\ toDelete' = None
    /\ UNCHANGED <<disk, store, page, reload, calls, deleting, history>>

\* With the wallet's password, or with the app's password and the wallet's
\* name: handleConfirmDelete, handleForceConfirmDelete.
HandleSubmit ==
    /\ Asking
    /\ Enqueue(Request("delete", toDelete))
    /\ deleting' = TRUE
    /\ UNCHANGED <<disk, store, page, reload, toDelete, history>>

DeleteAnswers(c) ==
    /\ calls' = Tail(calls)
    /\ deleting' = (deleting /\ ~c.host)
    /\ IF c.host /\ c.done = "ok"
       THEN toDelete' = None /\ Load
       ELSE UNCHANGED <<toDelete, reload>>
    /\ UNCHANGED <<disk, store, page, history>>

-----------------------------------------------------------------------------
Answer ==
    /\ calls # <<>>
    /\ LET c == Head(calls)
       IN  /\ c.done # "no"
           /\ \/ c.op = "list" /\ ListAnswers(c)
              \/ c.op = "unlock" /\ UnlockAnswers(c)
              \/ c.op = "create" /\ CreateAnswers(c)
              \/ c.op = "import" /\ ImportAnswers(c)
              \/ c.op = "restore" /\ RestoreAnswers(c)
              \/ c.op = "export" /\ ExportAnswers(c)
              \/ c.op = "delete" /\ DeleteAnswers(c)

Next ==
    \/ HandleReload \/ Unplug \/ Serve \/ Answer
    \/ \E l \in loads : DetectReturns(l)
    \/ \E v \in View : Open(v)
    \/ HandleBackToList \/ HandleCancelClick \/ Redirect \/ Lock \/ Unlock
    \/ \E w \in Wallet :
        \/ HandleWalletSelect(w) \/ HandleDeleteWallet(w) \/ HandleExport(w)
        \/ CreateWallet(w) \/ ImportWallet(w) \/ HandleImport(w)
    \/ EnterPassword \/ HandleMnemonicConfirm \/ OpenExport
    \/ HandleCancelDelete \/ HandleSubmit

Spec == Init /\ [][Next]_vars

-----------------------------------------------------------------------------
TypeOK ==
    /\ {plugged, loading, deleting} \subseteq BOOLEAN
    /\ {stick, gone, list, owed, asked} \subseteq SUBSET Wallet /\ stick \cap gone = {}
    /\ {selected, toDelete, entered, phrase} \subseteq Wallet \cup {None}
    /\ view \in View
    /\ read \in {"stick", "error", "blind"}
    /\ loads \subseteq [first : BOOLEAN, host : BOOLEAN]
    /\ calls \in Seq(Call)

\* When nothing is under way and the last load found the stick, the list is what
\* it holds, however requests, answers, locks and redirections interleaved.
ListIsStick ==
    view = "list" /\ loads = {} /\ calls = <<>> /\ read = "stick" => list = stick

\* The page of a wallet is unlocked only by a password that was entered on it
\* since it was opened, never by the answer to a password that was entered on
\* the page of another wallet before.
DetailIsEntered == entered # None => view = "detail" /\ entered \in asked

\* The user's own steps never lose the recovery phrase of a new wallet.
PhraseIsShown == owed \subseteq Named("create") \cup {phrase}

\* The dialog waits for a deletion only while one is in the queue.
DeletingHasCall == deleting => \E i \in DOMAIN calls : calls[i].op = "delete" /\ calls[i].host

\* What the home page shows settles: on the truth about the stick, and with no
\* deletion waited for that was answered.
HomeSettles == TypeOK /\ ListIsStick /\ DeletingHasCall
=============================================================================
