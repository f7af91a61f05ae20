----------------------------- MODULE DevSession -----------------------------
(***************************************************************************)
(* The developer-session manager of the Go library                         *)
(* (internal/app/dev_session.go) with the XOR-split keys it keeps in       *)
(* memory (internal/security).                                             *)
(*                                                                         *)
(* Two threads run.  The WORKER is the library's only caller: the desktop  *)
(* shell sends every FFI call through one queue, so the calls are serial   *)
(* and at most one is in progress.  The CLEANER is the goroutine started   *)
(* by NewDevSessionManager, which wakes up every minute.  They share the   *)
(* session map (dsm.mu) and each session's signer table (session.mu).      *)
(*                                                                         *)
(* A step is a critical section, or the code between two of them.  A lock  *)
(* is modelled only where it is held across steps: the cleaner keeps       *)
(* dsm.mu for a whole sweep and a session's mu while it clears that        *)
(* session's signers.  Signing holds no lock.                              *)
(***************************************************************************)
EXTENDS Integers

CONSTANTS
    Token,          \* session tokens (random, never reused)
    Addr,           \* EVM addresses
    Chain,          \* EVM chain ids; a chain stands for its network name too
    Testnet,        \* keys of TestnetChainIDs
    Mainnet,        \* keys of MainnetChainIDs
    DefaultTrusted, \* networks trusted when the caller names none
    Adapted,        \* chains for which the chain-adapter service has an adapter
    BookLen,        \* number of EVM entries in the wallet's address book
    Book,           \* entry number -> address
    NetLists,       \* trusted-network lists a caller may pass
    Minutes,        \* durations a caller may ask for (integers)
    DefaultMinutes, \* 30 in the code
    MaxMinutes,     \* 120 in the code
    MaxTime,        \* bound on the clock
    MaxSigns,       \* bound on a session's signatures
    None            \* not a token

Entry == 1..BookLen

ASSUME NetworkAssumption ==
    /\ Testnet \subseteq Chain
    /\ Mainnet \subseteq Chain
    /\ Testnet \cap Mainnet = {}
    /\ DefaultTrusted \subseteq Testnet
    /\ Adapted \subseteq Chain
    /\ NetLists \subseteq SUBSET Chain
    /\ None \notin Chain

ASSUME BookAssumption ==
    /\ BookLen \in Nat
    /\ Book \in [Entry -> Addr]
    /\ None \notin Token
    /\ None \notin Addr

ASSUME TimeAssumption ==
    /\ Minutes \subseteq Int
    /\ DefaultMinutes \in Nat \ {0}
    /\ MaxMinutes \in Nat
    /\ DefaultMinutes <= MaxMinutes
    /\ MaxTime \in Nat
    /\ MaxSigns \in Nat

VARIABLES
    now,      \* the clock, in minutes
    live,     \* tokens in dsm.sessions
    sess,     \* token -> [expires, trusted, count]
    signers,  \* token -> address -> book entry of the stored signer, 0 for none
    shares,   \* token -> book entry -> state of that signer's key shares
    worker,   \* the FFI call in progress
    cleaner   \* the cleanup goroutine

vars == <<now, live, sess, signers, shares, worker, cleaner>>

-----------------------------------------------------------------------------
(***************************************************************************)
(* State.                                                                  *)
(*                                                                         *)
(* "none": no signer was made for the entry; "whole": three XOR shares;    *)
(* "torn": Zeroize is running, some shares are zeroed and others not;      *)
(* "gone": the shares are freed and the pointer is nil.                    *)
(***************************************************************************)
ShareState == {"none", "whole", "torn", "gone"}

Call == {"none", "create", "sign", "message", "info", "end"}

\* "derived": keys made, session not stored; "found": GetSession has the
\* session; "admitted": it has seen it unexpired; "signing": the signer is
\* looked up, no lock held; "signed": signature made, count not updated;
\* "ending": EndSession entered; "removed": it took the session off the map.
Pc == {"idle", "derived", "found", "admitted", "signing", "signed",
       "ending", "removed"}

Worker == [call : Call, pc : Pc, tok : Token \cup {None}, chain : Chain \cup {None},
           from : Addr \cup {None}, entry : 0..BookLen, key : {"right", "wrong"}]

\* A call at pc on session t, for chain c and address a where it has them.
Calling(call, pc, t, c, a) ==
    [call |-> call, pc |-> pc, tok |-> t, chain |-> c, from |-> a, entry |-> 0, key |-> "right"]

Idle == Calling("none", "idle", None, None, None)

NoSigners == [a \in Addr |-> 0]

Session == [expires : Nat, trusted : SUBSET Chain, count : Nat]

NoSession == [expires |-> 0, trusted |-> {}, count |-> 0]

Cleaner == [on : BOOLEAN, todo : SUBSET Token, cur : Token \cup {None}]

Asleep == [on |-> FALSE, todo |-> {}, cur |-> None]

Init ==
    /\ now = 0
    /\ live = {}
    /\ sess = [t \in Token |-> NoSession]
    /\ signers = [t \in Token |-> NoSigners]
    /\ shares = [t \in Token |-> [e \in Entry |-> "none"]]
    /\ worker = Idle
    /\ cleaner = Asleep

\* dsm.mu can be taken.
ManagerFree == ~cleaner.on

\* session.mu of t can be taken.
SessionFree(t) == cleaner.cur # t

Expired(t) == now > sess[t].expires

Created(t) == \E e \in Entry : shares[t][e] # "none"

-----------------------------------------------------------------------------
(***************************************************************************)
(* CreateSession.  Deriving a key may fail for any entry and the entry is  *)
(* skipped; with no key left the call fails and the session is dropped.    *)
(* signers is a map from the lower-cased address, filled in book order, so *)
(* of several entries with one address only the last one's signer stays.   *)
(***************************************************************************)
ClampMinutes(d) ==
    IF d <= 0 THEN DefaultMinutes
    ELSE IF d > MaxMinutes THEN MaxMinutes ELSE d

TrustedOrDefault(nets) == IF nets = {} THEN DefaultTrusted ELSE nets

\* tab is the signer table after signers were made for the entries of ok.
IsTable(tab, ok) ==
    \A a \in Addr :
        LET mine == {e \in ok : Book[e] = a}
        IN  IF mine = {} THEN tab[a] = 0
            ELSE tab[a] \in mine /\ \A e \in mine : e <= tab[a]

CreateSession(t, ok, d, nets) ==
    /\ worker.pc = "idle"
    /\ ~Created(t)
    /\ ok # {}
    /\ sess' = [sess EXCEPT ![t] = [expires |-> now + ClampMinutes(d),
                                    trusted |-> TrustedOrDefault(nets),
                                    count   |-> 0]]
    /\ shares' = [shares EXCEPT ![t] =
                     [e \in Entry |-> IF e \in ok THEN "whole" ELSE "none"]]
    /\ \E tab \in [Addr -> 0..BookLen] :
          IsTable(tab, ok) /\ signers' = [signers EXCEPT ![t] = tab]
    /\ worker' = Calling("create", "derived", t, None, None)
    /\ UNCHANGED <<now, live, cleaner>>

\* Step 5 of CreateSession; the export then reads the session back
\* (GetSessionInfo), which may already find it expired.
StoreSession ==
    /\ worker.pc = "derived"
    /\ ManagerFree
    /\ live' = live \cup {worker.tok}
    /\ worker' = [worker EXCEPT !.pc = "found"]
    /\ UNCHANGED <<now, sess, signers, shares, cleaner>>

-----------------------------------------------------------------------------
(***************************************************************************)
(* GetSession, the prologue of every other call: look the token up under   *)
(* dsm.mu, release it, then compare the clock with ExpiresAt.  An expired  *)
(* session is ended there and then.                                        *)
(***************************************************************************)
Lookup(call, t, c, a) ==
    /\ worker.pc = "idle"
    /\ ManagerFree
    /\ t \in live
    /\ sess[t].count < MaxSigns
    /\ worker' = Calling(call, "found", t, c, a)
    /\ UNCHANGED <<now, live, sess, signers, shares, cleaner>>

CheckExpirySkipped ==
    /\ worker.pc = "found"
    /\ worker' = [worker EXCEPT !.pc = "admitted"]
    /\ UNCHANGED <<now, live, sess, signers, shares, cleaner>>

CheckExpiry ==
    /\ worker.pc = "found"
    /\ worker' = [worker EXCEPT !.pc = IF Expired(worker.tok) THEN "ending" ELSE "admitted"]
    /\ UNCHANGED <<now, live, sess, signers, shares, cleaner>>

\* GetSessionInfo: read the signer table under session.mu and return.
ReportInfo ==
    /\ worker.pc = "admitted"
    /\ worker.call \in {"create", "info"}
    /\ SessionFree(worker.tok)
    /\ worker' = Idle
    /\ UNCHANGED <<now, live, sess, signers, shares, cleaner>>

(***************************************************************************)
(* SignTransaction and SignMessage after GetSession.  A transaction passes *)
(* the mainnet block and the trusted-network list; a message does not look *)
(* at either.  The signer is fetched under session.mu and used without it. *)
(***************************************************************************)
ChainAllowed(t, c) == c \notin Mainnet /\ c \in sess[t].trusted

FetchSigner ==
    LET t == worker.tok
        e == signers[t][worker.from]
        ok == /\ worker.call = "sign" => ChainAllowed(t, worker.chain)
              /\ e # 0
    IN  /\ worker.pc = "admitted"
        /\ worker.call \in {"sign", "message"}
        /\ SessionFree(t)
        /\ worker' = IF ok THEN [worker EXCEPT !.pc = "signing", !.entry = e] ELSE Idle
        /\ UNCHANGED <<now, live, sess, signers, shares, cleaner>>

(***************************************************************************)
(* SecureSigner.Sign on shares in state s.  Whole shares give the key.  A  *)
(* read that races with Zeroize sees some shares zeroed in place (another  *)
(* key), some already nil (an error), or none of it.  A nil SecretShares   *)
(* is a nil-pointer panic, recovered by the export.  "fail" is an error.   *)
(***************************************************************************)
SignOutcome(s) ==
    CASE s = "whole" -> {"right"}
      [] s = "torn"  -> {"right", "wrong", "fail"}
      [] OTHER       -> {"fail"}

\* The adapter compares the recovered sender with From but only logs a
\* mismatch, so a signature by another key is returned like a right one.
Sign ==
    /\ worker.pc = "signing"
    /\ \E r \in SignOutcome(shares[worker.tok][worker.entry]) :
          worker' = IF r = "fail" \/ (worker.call = "sign" /\ worker.chain \notin Adapted)
                    THEN Idle
                    ELSE [worker EXCEPT !.pc = "signed", !.key = r]
    /\ UNCHANGED <<now, live, sess, signers, shares, cleaner>>

\* The other errors of signing: a malformed transaction, an address whose
\* letter case differs from the stored one, a payload that is not a hash.
SignError ==
    /\ worker.pc = "signing"
    /\ worker' = Idle
    /\ UNCHANGED <<now, live, sess, signers, shares, cleaner>>

CountSignature ==
    /\ worker.pc = "signed"
    /\ SessionFree(worker.tok)
    /\ sess' = [sess EXCEPT ![worker.tok].count = @ + 1]
    /\ worker' = Idle
    /\ UNCHANGED <<now, live, signers, shares, cleaner>>

-----------------------------------------------------------------------------
(***************************************************************************)
(* EndSession: take the session off the map under dsm.mu, then zeroize its *)
(* signers under session.mu.  If the cleaner was faster it is an error.    *)
(***************************************************************************)
EndCall(t) ==
    /\ worker.pc = "idle"
    /\ worker' = Calling("end", "ending", t, None, None)
    /\ UNCHANGED <<now, live, sess, signers, shares, cleaner>>

RemoveSessionKept ==
    /\ worker.pc = "ending"
    /\ ManagerFree
    /\ worker' = IF worker.tok \in live THEN [worker EXCEPT !.pc = "removed"] ELSE Idle
    /\ UNCHANGED <<now, live, sess, signers, shares, cleaner>>

RemoveSession ==
    /\ worker.pc = "ending"
    /\ ManagerFree
    /\ live' = live \ {worker.tok}
    /\ worker' = IF worker.tok \in live THEN [worker EXCEPT !.pc = "removed"] ELSE Idle
    /\ UNCHANGED <<now, sess, signers, shares, cleaner>>

\* The entries whose signers are in the table of t.
Stored(t) == {e \in Entry : signers[t][Book[e]] = e}

ZeroizeRemoved ==
    LET t == worker.tok
    IN  /\ worker.pc = "removed"
        /\ SessionFree(t)
        /\ shares' = [shares EXCEPT ![t] =
                         [e \in Entry |-> IF e \in Stored(t) THEN "gone" ELSE shares[t][e]]]
        /\ signers' = [signers EXCEPT ![t] = NoSigners]
        /\ worker' = Idle
        /\ UNCHANGED <<now, live, sess, cleaner>>

-----------------------------------------------------------------------------
(***************************************************************************)
(* cleanupExpiredSessions.  The clock is read once per sweep, under dsm.mu;*)
(* each expired session is cleared under its mu, signer by signer, share by*)
(* share, and then deleted.                                                *)
(***************************************************************************)
SweepBegin ==
    /\ ~cleaner.on
    /\ cleaner' = [on |-> TRUE, todo |-> {t \in live : Expired(t)}, cur |-> None]
    /\ UNCHANGED <<now, live, sess, signers, shares, worker>>

SweepLock(t) ==
    /\ cleaner.on
    /\ cleaner.cur = None
    /\ t \in cleaner.todo
    /\ cleaner' = [cleaner EXCEPT !.cur = t]
    /\ UNCHANGED <<now, live, sess, signers, shares, worker>>

\* One step of Zeroize on the signer of entry e.
NextShareState(s) == IF s = "whole" THEN "torn" ELSE "gone"

SweepZeroize(e) ==
    LET t == cleaner.cur
    IN  /\ t # None
        /\ e \in Stored(t)
        /\ shares[t][e] # "gone"
        /\ shares' = [shares EXCEPT ![t][e] = NextShareState(@)]
        /\ UNCHANGED <<now, live, sess, signers, worker, cleaner>>

\* Mutant: the session is deleted before its signers are erased.
SweepDeleteUncleared ==
    LET t == cleaner.cur
    IN  /\ t # None
        /\ signers' = [signers EXCEPT ![t] = NoSigners]
        /\ live' = live \ {t}
        /\ cleaner' = [cleaner EXCEPT !.todo = @ \ {t}, !.cur = None]
        /\ UNCHANGED <<now, sess, shares, worker>>

SweepDelete ==
    LET t == cleaner.cur
    IN  /\ t # None
        /\ \A e \in Stored(t) : shares[t][e] = "gone"
        /\ signers' = [signers EXCEPT ![t] = NoSigners]
        /\ live' = live \ {t}
        /\ cleaner' = [cleaner EXCEPT !.todo = @ \ {t}, !.cur = None]
        /\ UNCHANGED <<now, sess, shares, worker>>

SweepEnd ==
    /\ cleaner.on
    /\ cleaner.todo = {}
    /\ cleaner' = Asleep
    /\ UNCHANGED <<now, live, sess, signers, shares, worker>>

Tick ==
    /\ now < MaxTime
    /\ now' = now + 1
    /\ UNCHANGED <<live, sess, signers, shares, worker, cleaner>>

-----------------------------------------------------------------------------
CallBegin ==
    \E t \in Token :
        \/ \E ok \in SUBSET Entry, d \in Minutes, nets \in NetLists :
              CreateSession(t, ok, d, nets)
        \/ \E c \in Chain, a \in Addr : Lookup("sign", t, c, a)
        \/ \E a \in Addr : Lookup("message", t, None, a)
        \/ Lookup("info", t, None, None)
        \/ EndCall(t)

CallStep ==
    \/ StoreSession \/ CheckExpiry \/ ReportInfo \/ FetchSigner \/ Sign \/ SignError
    \/ CountSignature \/ RemoveSession \/ ZeroizeRemoved

CleanerStep ==
    \/ SweepBegin
    \/ \E t \in Token : SweepLock(t)
    \/ \E e \in Entry : SweepZeroize(e)
    \/ SweepDelete
    \/ SweepEnd

Next == CallBegin \/ CallStep \/ CleanerStep \/ Tick

(***************************************************************************)
(* A call that has entered the library runs to its end (strong fairness:   *)
(* Go mutexes do not starve a waiter), the clock advances, and the         *)
(* cleaner's ticker keeps firing.                                          *)
(***************************************************************************)
Fairness == SF_vars(CallStep) /\ WF_vars(CleanerStep) /\ WF_vars(Tick)

Spec == Init /\ [][Next]_vars

FairSpec == Spec /\ Fairness

-----------------------------------------------------------------------------
(***************************************************************************)
(* Properties.                                                             *)
(***************************************************************************)
TypeOK ==
    /\ now \in 0..MaxTime
    /\ live \subseteq Token
    /\ sess \in [Token -> Session]
    /\ signers \in [Token -> [Addr -> 0..BookLen]]
    /\ shares \in [Token -> [Entry -> ShareState]]
    /\ worker \in Worker
    /\ worker.pc # "idle" => worker.tok \in Token
    /\ worker.call \in {"sign", "message"} => worker.from \in Addr
    /\ worker.pc \in {"signing", "signed"} => worker.entry \in Entry
    /\ cleaner \in Cleaner

\* Some thread may still use the session of t.
Open(t) == t \in live \/ (worker.tok = t /\ worker.pc \in {"derived", "removed"})

\* The session of t existed, is off the map, and no thread is still at it.
Ended(t) ==
    /\ Created(t)
    /\ ~Open(t)

\* The signer of entry e was replaced in the table by a later entry's.
Replaced(t, e) ==
    \E f \in Entry : e < f /\ Book[f] = Book[e] /\ shares[t][f] # "none"

\* Of the keys of t only those of replaced signers are still in memory.
Erased(t) == \A e \in Entry : shares[t][e] \in {"none", "gone"} \/ Replaced(t, e)

\* Once a session has ended, by EndSession, by GetSession on an expired
\* session or by the cleaner, every signer its table held has been erased.
EndedKeysErased ==
    \A t \in Token : Ended(t) =>
        /\ signers[t] = NoSigners
        /\ Erased(t)

\* A session that GetSession can still return has its keys: the cleaner
\* erases only what it deletes in the same sweep, under the session's lock.
LiveKeysWhole ==
    \A t \in live : SessionFree(t) =>
        Stored(t) # {} /\ \A e \in Stored(t) : shares[t][e] = "whole"

\* A sign call that lost its key to a concurrent sweep, or signed with a
\* half-erased one, belongs to a session that has run out: no unexpired
\* session ever fails to sign, or signs wrongly, because of the cleaner.
KeyLostOnlyByExpiry ==
    \/ worker.pc = "signing" /\ shares[worker.tok][worker.entry] # "whole"
    \/ worker.pc = "signed" /\ worker.key = "wrong"
    => Expired(worker.tok)

\* The keys follow the sessions, both ways, and under a call that uses one.
KeysFollowSessions == EndedKeysErased /\ LiveKeysWhole /\ KeyLostOnlyByExpiry

\* The lookup and the clock test of GetSession are not atomic, yet a session
\* that passes them is still on the map at the moment it passes.
AdmitsOnlyLive ==
    [][worker.pc = "found" /\ worker'.pc = "admitted" => worker.tok \in live]_vars

(***************************************************************************)
(* The inductive strengthening of the invariants above.                    *)
(***************************************************************************)
CleanerInv ==
    /\ ~cleaner.on => cleaner.todo = {}
    /\ cleaner.cur # None => cleaner.on /\ cleaner.cur \in cleaner.todo
    /\ \A t \in cleaner.todo : t \in live /\ Expired(t)

\* What a call in progress knows of its session.
WorkerInv ==
    /\ worker.pc \in {"derived", "removed"} => worker.tok \notin live
    /\ worker.pc = "found" => worker.tok \in live \/ Expired(worker.tok)

\* The table names signers that were made for its addresses.
TableInv ==
    \A t \in Token, a \in Addr : signers[t][a] # 0 =>
        /\ Book[signers[t][a]] = a
        /\ shares[t][signers[t][a]] # "none"

OpenInv ==
    \A t \in Token : Open(t) =>
        /\ Stored(t) # {}
        /\ SessionFree(t) => \A e \in Stored(t) : shares[t][e] = "whole"

ClosedInv ==
    \A t \in Token :
        /\ ~Open(t) => signers[t] = NoSigners
        /\ \A e \in Entry : shares[t][e] \in {"whole", "torn"} =>
               e \in Stored(t) \/ Replaced(t, e)

KeyInv ==
    /\ TypeOK /\ CleanerInv /\ WorkerInv /\ TableInv /\ OpenInv /\ ClosedInv
    /\ KeyLostOnlyByExpiry

\* An expired session does not stay: it ends, and its keys are erased from
\* memory, even if nobody calls the library again.
ExpiredKeysErased ==
    \A t \in Token : (t \in live /\ Expired(t)) ~> (Ended(t) /\ Erased(t))

(***************************************************************************)
(* What comments of the repository say, and the code does not do.          *)
(***************************************************************************)
\* "EndSession ends a developer session and clears all stored keys".
EndClearsAllKeys ==
    \A t \in Token : Ended(t) => \A e \in Entry : shares[t][e] \in {"none", "gone"}

\* "MUST verify signature against SigningPayload": what Sign returns was
\* signed by the key of From.
SignatureVerified == worker.pc = "signed" => worker.key = "right"

\* "Testnet chain IDs that can be auto-signed": a trusted testnet transaction
\* that passed every gate is not refused for want of a chain adapter.
TestnetsCanBeSigned ==
    worker.pc = "signing" /\ worker.chain \in Testnet => worker.chain \in Adapted
=============================================================================
