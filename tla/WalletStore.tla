----------------------------- MODULE WalletStore -----------------------------
(***************************************************************************)
(* The files of the wallets and of the app's configuration on the USB      *)
(* stick, and the page that signs the user in.                             *)
(*                                                                         *)
(* A wallet is a directory with mnemonic.enc, the encrypted seed, and      *)
(* wallet.json, which makes it listed and names the seed's absolute path.  *)
(* The app can die and the stick can be pulled and come back, elsewhere    *)
(* perhaps, between any two accesses to a file; a write can fail at any    *)
(* time.  AtomicWriteFile renames a temporary file that nothing reads over *)
(* the old one; app_config.enc is truncated and written in place.          *)
(***************************************************************************)
CONSTANTS
    Wallet,
    Path,      \* where the stick may be mounted
    Password   \* of the app

VARIABLES
    at,      \* the stick's mount point, "out" if it is pulled
    seed,    \* wallets with a mnemonic.enc
    meta,    \* wallet -> the path its wallet.json names, "none", or "torn"
    config,  \* the password of app_config.enc, "none", or "torn"
    legacy,  \* it was written with the old key parameters
    page,    \* what the app shows
    usb,     \* usbPath of the app
    op,      \* the request in service
    step,    \* how far it is
    todo,    \* wallets it has still to go through
    done,    \* wallets it has an answer for
    used,    \* history: ids that were drawn
    doomed,  \* history: wallets whose deletion was authorised
    steady   \* history: the stick has been where op looks for it

files == <<seed, meta, config, legacy>>
screen == <<page, usb>>
request == <<op, step, todo, done>>
vars == <<at, files, screen, request, used, doomed, steady>>

\* create, import and the import of one backup write one wallet, a bundle
\* several; right: the password, or the name, that was typed is right.
Op == [do : {"none", "add", "bundle", "list", "open", "export", "exportAll", "delete", "force",
             "check", "setup", "signIn"},
       ws : SUBSET Wallet, pw : Password \cup {"none"}, right : BOOLEAN, path : Path \cup {"out"}]
NoOp == [do |-> "none", ws |-> {}, pw |-> "none", right |-> FALSE, path |-> "out"]

Step == {"idle", "begun", "seeded", "verified", "migrating", "loaded", "proved", "removing",
         "truncated", "ok", "failed"}

Init ==
    /\ at \in Path /\ usb = at
    /\ seed = {} /\ meta = [w \in Wallet |-> "none"]
    /\ config \in {"none"} \cup Password /\ legacy \in BOOLEAN /\ (config = "none" => ~legacy)
    /\ page = "checking"
    /\ op = NoOp /\ step = "idle" /\ todo = {} /\ done = {}
    /\ used = {} /\ doomed = {} /\ steady = FALSE

Reach == at = op.path
Listed == {w \in Wallet : meta[w] \in Path}
Left(w) == w \in seed \/ meta[w] # "none"
Target == CHOOSE w \in op.ws : TRUE

GoTo(s) == step' = s /\ UNCHANGED <<op, todo, done>>
Elsewhere == UNCHANGED <<at, screen, used, steady>>

-----------------------------------------------------------------------------
(***************************************************************************)
(* Wallets are added: the seed first, then what makes it listed.           *)
(***************************************************************************)
Adds == op.do \in {"add", "bundle"}

WriteSeed(w) ==
    /\ Adds /\ step = "begun" /\ w \in todo
    /\ Reach
    /\ seed' = seed \cup {w}
    /\ GoTo("seeded")
    /\ UNCHANGED <<meta, config, legacy, doomed>>

\* The wallet whose seed was written is the only one to do that has one.
WriteMetadata(w) ==
    /\ Adds /\ step = "seeded" /\ w \in todo \cap seed
    /\ Reach
    /\ meta' = [meta EXCEPT ![w] = op.path]
    /\ todo' = todo \ {w} /\ done' = done \cup {w}
    /\ step' = IF todo' = {} THEN "ok" ELSE "begun"
    /\ UNCHANGED <<op, seed, config, legacy, doomed>>

\* A bundle goes on with the next wallet.
WriteFails(w) ==
    /\ Adds /\ step \in {"begun", "seeded"} /\ w \in todo
    /\ step = "seeded" => w \in seed
    /\ todo' = todo \ {w}
    /\ step' = IF op.do = "bundle" /\ todo' # {} THEN "begun"
               ELSE IF done = {} THEN "failed" ELSE "ok"
    /\ UNCHANGED <<op, done, files, doomed>>

Add(w) == WriteSeed(w) \/ WriteMetadata(w) \/ WriteFails(w)

-----------------------------------------------------------------------------
(***************************************************************************)
(* Wallets are listed, opened and exported.                                *)
(***************************************************************************)
Goes == op.do \in {"list", "exportAll"}

\* The directories; a stick that is not there has none.
ReadDir ==
    /\ Goes /\ step = "begun"
    /\ todo' = IF Reach THEN Listed ELSE {}
    /\ step' = "loaded"
    /\ UNCHANGED <<op, done, files, doomed>>

\* What cannot be read is skipped.
ReadNext(w) ==
    /\ Goes /\ step = "loaded" /\ w \in todo
    /\ todo' = todo \ {w}
    /\ done' = IF Reach /\ (op.do = "list" \/ w \in seed) THEN done \cup {w} ELSE done
    /\ UNCHANGED <<op, step, files, doomed>>

ReadAll ==
    /\ Goes /\ step = "loaded" /\ todo = {}
    /\ GoTo(IF op.do = "exportAll" /\ done = {} THEN "failed" ELSE "ok")
    /\ UNCHANGED <<files, doomed>>

\* ExportBackup looks for the seed beside wallet.json.
ExportBackup ==
    /\ op.do = "export" /\ step = "begun"
    /\ IF Reach /\ Target \in seed \cap Listed
       THEN step' = "ok" /\ done' = op.ws
       ELSE step' = "failed" /\ UNCHANGED done
    /\ UNCHANGED <<op, todo, files, doomed>>

LoadWallet ==
    /\ \/ op.do \in {"open", "delete"} /\ step = "begun"
       \/ op.do = "force" /\ step = "verified"
    /\ GoTo(IF Reach /\ Target \in Listed THEN "loaded" ELSE "failed")
    /\ UNCHANGED <<files, doomed>>

\* RestoreWallet reads the seed where wallet.json says it is; ForceDeleteWallet
\* compares the name.
Prove ==
    /\ op.do \in {"open", "delete", "force"} /\ step = "loaded"
    /\ LET proved == op.right /\ (op.do # "force" => Target \in seed /\ meta[Target] = at)
       IN  /\ GoTo(IF ~proved THEN "failed" ELSE IF op.do = "force" THEN "removing" ELSE "proved")
           /\ doomed' = IF proved /\ op.do # "open" THEN doomed \cup op.ws ELSE doomed
    /\ UNCHANGED files

\* Mutant: the file is written in place.
TouchInPlace ==
    /\ step = "proved"
    /\ \E m \in {meta[Target], "torn"} : meta' = [meta EXCEPT ![Target] = m]
    /\ step' = IF op.do = "delete" THEN "removing" ELSE "ok"
    /\ done' = op.ws
    /\ UNCHANGED <<op, todo, seed, config, legacy, doomed>>

\* wallet.json is written anew with the time of the access; if that fails the
\* old one stays.
Touch ==
    /\ step = "proved"
    /\ step' = IF op.do = "delete" THEN "removing" ELSE "ok"
    /\ done' = op.ws
    /\ UNCHANGED <<op, todo, files, doomed>>

-----------------------------------------------------------------------------
(***************************************************************************)
(* A wallet is deleted: os.RemoveAll takes file by file, in any order, and *)
(* finds nothing to do where there is no directory.                        *)
(***************************************************************************)
RemoveFile ==
    /\ step = "removing" /\ Reach
    /\ \/ /\ seed' = seed \ op.ws /\ seed' # seed
          /\ UNCHANGED meta
       \/ /\ meta' = [meta EXCEPT ![Target] = "none"] /\ meta' # meta
          /\ UNCHANGED seed
    /\ UNCHANGED <<request, config, legacy, doomed>>

RemoveEnds ==
    /\ step = "removing"
    /\ \/ /\ ~Reach \/ ~Left(Target)
          /\ step' = "ok" /\ done' = op.ws
       \/ step' = "failed" /\ UNCHANGED done
    /\ UNCHANGED <<op, todo, files, doomed>>

-----------------------------------------------------------------------------
(***************************************************************************)
(* The configuration.                                                      *)
(***************************************************************************)
\* SaveAppConfig truncates the file and writes it.
Truncate ==
    /\ \/ op.do = "setup" /\ step = "begun"
       \/ step = "migrating"
    /\ Reach
    /\ config' = "torn" /\ legacy' = FALSE
    /\ GoTo("truncated")
    /\ UNCHANGED <<seed, meta, doomed>>

AfterSave == IF op.do = "force" THEN "verified" ELSE "ok"

Fill ==
    /\ step = "truncated" /\ Reach
    /\ config' = op.pw
    /\ GoTo(AfterSave)
    /\ UNCHANGED <<seed, meta, legacy, doomed>>

\* A setup that cannot save fails; a migration that cannot is not noticed.
SaveFails ==
    /\ step \in {"migrating", "truncated"} \/ (op.do = "setup" /\ step = "begun")
    /\ GoTo(IF op.do = "setup" THEN "failed" ELSE AfterSave)
    /\ UNCHANGED <<files, doomed>>

\* LoadAppConfig, of a sign-in or of a deletion without the wallet's password;
\* the limit on attempts is asked before it.
LoadAppConfig ==
    /\ op.do \in {"signIn", "force"} /\ step = "begun"
    /\ \/ GoTo("failed")
       \/ Reach /\ config = op.pw /\ GoTo(IF legacy THEN "migrating" ELSE AfterSave)
    /\ UNCHANGED <<files, doomed>>

\* AppConfigExists: no such file is to be seen.  A check that fails leaves the
\* form of a sign-in.
IsFirstTimeSetup ==
    /\ op.do = "check" /\ step = "begun"
    /\ page' \in {"unlock"} \cup IF Reach /\ config # "none" THEN {} ELSE {"setup"}
    /\ GoTo("ok")
    /\ UNCHANGED <<at, files, usb, used, doomed, steady>>

-----------------------------------------------------------------------------
(***************************************************************************)
(* Requests, the page and the stick.                                       *)
(***************************************************************************)
Begin(r) ==
    /\ step = "idle"
    /\ op' = r /\ step' = "begun" /\ done' = {}
    /\ todo' = IF r.do \in {"add", "bundle"} THEN r.ws ELSE {}
    /\ steady' = (at = r.path)
    /\ UNCHANGED <<at, files, screen, doomed>>

\* A new wallet gets an id of its own; the home page looks for the stick before
\* it asks, but not again.
Draw(do, ws, p) ==
    /\ page = "home"
    /\ do \in {"add", "bundle"} /\ ws # {} /\ ws \cap used = {}
    /\ do = "add" => \E w \in ws : ws = {w}
    /\ used' = used \cup ws
    /\ Begin([NoOp EXCEPT !.do = do, !.ws = ws, !.path = p])

Ask(do, p) ==
    /\ page = "home"
    /\ do \in {"list", "exportAll"}
    /\ Begin([NoOp EXCEPT !.do = do, !.path = p])
    /\ UNCHANGED used

AskOf(do, w, right, p) ==
    /\ page = "home" /\ w \in used
    /\ do \in {"open", "export", "delete"}
    /\ Begin([NoOp EXCEPT !.do = do, !.ws = {w}, !.right = right, !.path = p])
    /\ UNCHANGED used

ForceDelete(w, pw, right, p) ==
    /\ page = "home" /\ w \in used
    /\ Begin([NoOp EXCEPT !.do = "force", !.ws = {w}, !.pw = pw, !.right = right, !.path = p])
    /\ UNCHANGED used

\* AppUnlock asks when it appears.
CheckFirstTime ==
    /\ page = "checking"
    /\ Begin([NoOp EXCEPT !.do = "check", !.path = usb])
    /\ UNCHANGED used

HandleInitialize(pw) ==
    /\ page = "setup"
    /\ Begin([NoOp EXCEPT !.do = "setup", !.pw = pw, !.path = usb])
    /\ UNCHANGED used

HandleUnlock(pw) ==
    /\ page = "unlock"
    /\ Begin([NoOp EXCEPT !.do = "signIn", !.pw = pw, !.path = usb])
    /\ UNCHANGED used

\* A setup is followed by a sign-in with the same password.
Return ==
    /\ step \in {"ok", "failed"}
    /\ IF op.do = "setup" /\ step = "ok"
       THEN op' = [op EXCEPT !.do = "signIn"] /\ step' = "begun"
       ELSE op' = NoOp /\ step' = "idle"
    /\ page' = IF op.do = "signIn" /\ step = "ok" THEN "home" ELSE page
    /\ todo' = {} /\ done' = {}
    /\ steady' = (steady /\ step' = "begun")
    /\ UNCHANGED <<at, files, usb, used, doomed>>

\* The lock, whatever is in service.
Lock ==
    /\ page = "home"
    /\ page' = "checking"
    /\ UNCHANGED <<at, files, usb, request, used, doomed, steady>>

Pull ==
    /\ at # "out"
    /\ at' = "out" /\ steady' = FALSE
    /\ UNCHANGED <<files, screen, request, used, doomed>>

Plug(p) ==
    /\ at = "out"
    /\ at' = p
    /\ UNCHANGED <<files, screen, request, used, doomed, steady>>

Die ==
    /\ page # "starting"
    /\ page' = "starting" /\ usb' = "out"
    /\ op' = NoOp /\ step' = "idle" /\ todo' = {} /\ done' = {} /\ steady' = FALSE
    /\ UNCHANGED <<at, files, used, doomed>>

\* The app asks for the stick when it starts, and keeps the path it finds.
Start ==
    /\ page = "starting" /\ at \in Path
    /\ page' = "checking" /\ usb' = at
    /\ UNCHANGED <<at, files, request, used, doomed, steady>>

Work ==
    /\ \/ \E w \in Wallet : Add(w) \/ ReadNext(w)
       \/ ReadDir \/ ReadAll \/ ExportBackup
       \/ LoadWallet \/ Prove \/ Touch
       \/ RemoveFile \/ RemoveEnds
       \/ Truncate \/ Fill \/ SaveFails \/ LoadAppConfig
    /\ Elsewhere

Next ==
    \/ Work \/ IsFirstTimeSetup \/ Return
    \/ CheckFirstTime \/ Lock \/ Pull \/ Die \/ Start
    \/ \E pw \in Password : HandleInitialize(pw) \/ HandleUnlock(pw)
    \/ \E p \in Path :
        \/ Plug(p)
        \/ \E do \in {"list", "exportAll"} : Ask(do, p)
        \/ \E do \in {"add", "bundle"}, ws \in SUBSET Wallet : Draw(do, ws, p)
        \/ \E w \in Wallet, right \in BOOLEAN :
            \/ \E do \in {"open", "export", "delete"} : AskOf(do, w, right, p)
            \/ \E pw \in Password : ForceDelete(w, pw, right, p)

Spec == Init /\ [][Next]_vars

-----------------------------------------------------------------------------
TypeOK ==
    /\ at \in Path \cup {"out"} /\ usb \in Path \cup {"out"}
    /\ seed \subseteq Wallet /\ meta \in [Wallet -> Path \cup {"none", "torn"}]
    /\ config \in Password \cup {"none", "torn"} /\ legacy \in BOOLEAN
    /\ page \in {"starting", "checking", "setup", "unlock", "home"}
    /\ op \in Op /\ step \in Step
    /\ {todo, done, used, doomed} \subseteq SUBSET Wallet
    /\ steady \in BOOLEAN

\* The promise: what was left of a wallet, and what the answers say.
Kind ==
    CASE op.do \in {"add", "bundle"}     -> "add"
      [] op.do \in {"open", "export"}    -> "open"
      [] op.do \in {"list", "exportAll"} -> "list"
      [] op.do \in {"delete", "force"}   -> "delete"
      [] OTHER                           -> "none"

Promise == INSTANCE Vault WITH
    state <- [w \in Wallet |-> IF w \in doomed THEN (IF Left(w) THEN "doomed" ELSE "gone")
                               ELSE IF w \in seed \cap Listed THEN "kept" ELSE "new"],
    reply <- IF step = "ok" /\ Kind # "none" THEN [do |-> Kind, ws |-> done]
             ELSE [do |-> "none", ws |-> {}]

\* Wherever a write fails, the stick is pulled or the app dies: a wallet comes
\* into being at once and can be opened until its deletion was authorised; an
\* answer of success is true, for a list, a backup of all and a deletion if the
\* stick stayed where it was.
KeepsWallets == Promise!VSpec

-----------------------------------------------------------------------------
(***************************************************************************)
(* What the repository says, and the code does not keep.                   *)
(***************************************************************************)
\* The setup makes the app's configuration when there is none
\* (exports_app.go:92, storage.go:59): violated, a locked app whose stick is out
\* takes it for a new one, and writes over the configuration when it is back.
SetupIsFirst == [][op.do = "setup" /\ config \in Password => config' = config]_vars

\* All writes are atomic (docs/architecture.md:280): violated, a sign-in that
\* writes an old configuration anew can be cut off.
ConfigIsWhole == step = "idle" => config # "torn"

\* The right password opens a wallet: violated where the stick is mounted
\* elsewhere than when the wallet was made.
OpensAnywhere ==
    op.do = "open" /\ op.right /\ steady /\ step = "failed" => Target \notin seed \cap Listed

\* A deleted wallet is gone: violated, RemoveAll takes a stick that was pulled for
\* an empty directory.
DeletedIsGone == step = "ok" /\ op.do \in {"delete", "force"} => ~Left(Target)

\* A deletion that was cut off can be done again (service.go:523): violated when
\* wallet.json went first; the seed stays and no list shows it.
LeftIsListed == step = "idle" => \A w \in doomed : Left(w) => w \in Listed
=============================================================================
