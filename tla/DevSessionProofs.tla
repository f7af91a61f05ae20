-------------------------- MODULE DevSessionProofs --------------------------
(***************************************************************************)
(* Proofs about DevSession, for every number of tokens, addresses, chains  *)
(* and book entries and for every bound.                                   *)
(***************************************************************************)
EXTENDS DevSession, TLAPS

USE NetworkAssumption, BookAssumption, TimeAssumption

\* A clamped duration is a positive number of minutes.
LEMMA ClampPositive == \A d \in Minutes : ClampMinutes(d) \in Nat \ {0}
  BY DEF ClampMinutes

\* Every record the worker variable may hold when no call is in progress.
LEMMA IdleType == Idle \in Worker /\ Idle.pc = "idle" /\ Idle.call = "none" /\ Idle.tok = None
  BY DEF Idle, Calling, Worker, Call, Pc

\* The empty signer table has the type of a table.
LEMMA NoSignersType == NoSigners \in [Addr -> 0..BookLen]
  BY DEF NoSigners

\* Init and every step keep the variables in their types.
LEMMA TypeInit == Init => TypeOK
  BY IdleType DEF Init, TypeOK, Idle, Calling, NoSession, Session, NoSigners, ShareState, Asleep, Cleaner

LEMMA TypeStep == TypeOK /\ [Next]_vars => TypeOK'
<1> SUFFICES ASSUME TypeOK, [Next]_vars PROVE TypeOK'
  OBVIOUS
<1> USE DEF TypeOK
<1>1. ASSUME NEW t \in Token, NEW ok \in SUBSET Entry, NEW d \in Minutes, NEW nets \in NetLists,
             CreateSession(t, ok, d, nets)
      PROVE  TypeOK'
  <2>1. now + ClampMinutes(d) \in Nat
    BY ClampPositive
  <2>2. TrustedOrDefault(nets) \in SUBSET Chain
    BY DEF TrustedOrDefault
  <2>3. sess' \in [Token -> Session]
    BY <1>1, <2>1, <2>2 DEF CreateSession, Session
  <2>4. shares' \in [Token -> [Entry -> ShareState]]
    BY <1>1 DEF CreateSession, ShareState
  <2>5. signers' \in [Token -> [Addr -> 0..BookLen]]
    BY <1>1 DEF CreateSession
  <2>6. worker' \in Worker
    BY <1>1 DEF CreateSession, Calling, Worker, Call, Pc
  <2> QED
    BY <1>1, <2>3, <2>4, <2>5, <2>6 DEF CreateSession, Calling
<1>2. ASSUME NEW call \in {"sign", "message", "info"}, NEW t \in Token,
             NEW c \in Chain \cup {None}, NEW a \in Addr \cup {None},
             call # "info" => a \in Addr, Lookup(call, t, c, a)
      PROVE  TypeOK'
  BY <1>2 DEF Lookup, Calling, Worker, Call, Pc
<1>3. ASSUME NEW t \in Token, EndCall(t) PROVE TypeOK'
  BY <1>3 DEF EndCall, Calling, Worker, Call, Pc
<1>4. CASE StoreSession
  BY <1>4 DEF StoreSession, Worker, Pc
<1>5. CASE CheckExpiry
  BY <1>5 DEF CheckExpiry, Worker, Pc
<1>6. CASE ReportInfo
  BY <1>6, IdleType DEF ReportInfo
<1>7. CASE FetchSigner
  <2> DEFINE e == signers[worker.tok][worker.from]
  <2>1. worker.tok \in Token /\ worker.from \in Addr
    BY <1>7 DEF FetchSigner
  <2>2. e \in 0..BookLen
    <3>1. signers[worker.tok] \in [Addr -> 0..BookLen]
      BY <2>1
    <3> QED
      BY <2>1, <3>1
  <2>3. \/ worker' = Idle
        \/ worker' = [worker EXCEPT !.pc = "signing", !.entry = e] /\ e # 0
    BY <1>7 DEF FetchSigner
  <2> HIDE DEF e
  <2>4. CASE worker' = Idle
    BY <1>7, <2>4, IdleType DEF FetchSigner
  <2>5. CASE worker' = [worker EXCEPT !.pc = "signing", !.entry = e] /\ e # 0
    <3>1. worker' \in Worker /\ worker'.tok = worker.tok /\ worker'.entry = e
          /\ worker'.from = worker.from
      BY <2>5, <2>2 DEF Worker, Pc
    <3> QED
      BY <1>7, <2>1, <2>2, <2>5, <3>1 DEF FetchSigner, Entry
  <2> QED
    BY <2>3, <2>4, <2>5
<1>8. CASE Sign
  <2>1. PICK r \in SignOutcome(shares[worker.tok][worker.entry]) :
           worker' = Idle \/ (r # "fail" /\ worker' = [worker EXCEPT !.pc = "signed", !.key = r])
    BY <1>8 DEF Sign
  <2>2. r \in {"right", "wrong", "fail"}
    BY DEF SignOutcome
  <2>3. CASE worker' = Idle
    BY <1>8, <2>3, IdleType DEF Sign
  <2>4. CASE r # "fail" /\ worker' = [worker EXCEPT !.pc = "signed", !.key = r]
    BY <1>8, <2>2, <2>4 DEF Sign, Worker, Pc
  <2> QED
    BY <2>1, <2>3, <2>4
<1>9. CASE SignError
  BY <1>9, IdleType DEF SignError
<1>10. CASE CountSignature
  <2>1. worker.tok \in Token
    BY <1>10 DEF CountSignature
  <2>2. sess' \in [Token -> Session]
    BY <1>10, <2>1 DEF CountSignature, Session
  <2> QED
    BY <1>10, <2>2, IdleType DEF CountSignature
<1>11. CASE RemoveSession
  BY <1>11, IdleType DEF RemoveSession, Worker, Pc
<1>12. CASE ZeroizeRemoved
  BY <1>12, IdleType, NoSignersType DEF ZeroizeRemoved, ShareState
<1>13. CASE CleanerStep
  <2>1. CASE SweepBegin
    BY <2>1 DEF SweepBegin, Cleaner
  <2>2. ASSUME NEW t \in Token, SweepLock(t) PROVE TypeOK'
    BY <2>2 DEF SweepLock, Cleaner
  <2>3. ASSUME NEW e \in Entry, SweepZeroize(e) PROVE TypeOK'
    BY <2>3 DEF SweepZeroize, Cleaner, NextShareState, ShareState
  <2>4. CASE SweepDelete
    <3>1. signers' \in [Token -> [Addr -> 0..BookLen]]
      BY <2>4, NoSignersType DEF SweepDelete
    <3>2. cleaner' \in Cleaner
      BY <2>4 DEF SweepDelete, Cleaner
    <3> QED
      BY <2>4, <3>1, <3>2 DEF SweepDelete
  <2>5. CASE SweepEnd
    BY <2>5 DEF SweepEnd, Asleep, Cleaner
  <2> QED
    BY <1>13, <2>1, <2>2, <2>3, <2>4, <2>5 DEF CleanerStep
<1>14. CASE Tick
  BY <1>14 DEF Tick
<1>15. CASE UNCHANGED vars
  BY <1>15 DEF vars
<1> QED
  BY <1>1, <1>2, <1>3, <1>4, <1>5, <1>6, <1>7, <1>8, <1>9, <1>10, <1>11, <1>12, <1>13,
     <1>14, <1>15 DEF Next, CallBegin, CallStep

\* Type correctness: every value of every variable is one the code can hold.
THEOREM TypeCorrect == Spec => []TypeOK
  BY TypeInit, TypeStep, PTL DEF Spec

-----------------------------------------------------------------------------
(***************************************************************************)
(* The key invariant.                                                      *)
(***************************************************************************)
LEMMA KeyInit == Init => KeyInv
<1> SUFFICES ASSUME Init PROVE KeyInv
  OBVIOUS
<1>1. TypeOK
  BY TypeInit
<1>2. CleanerInv /\ WorkerInv /\ KeyLostOnlyByExpiry
  BY IdleType DEF Init, CleanerInv, WorkerInv, KeyLostOnlyByExpiry, Asleep
<1>3. TableInv /\ OpenInv /\ ClosedInv
  BY IdleType DEF Init, TableInv, OpenInv, ClosedInv, Open, NoSigners
<1> QED
  BY <1>1, <1>2, <1>3 DEF KeyInv

\* A step of the worker that leaves everything else alone, and that is not at
\* the two places where it keeps an unmapped session, preserves the
\* invariants about sessions and cleaner.
LEMMA WorkerOnly ==
  ASSUME CleanerInv, TableInv, OpenInv, ClosedInv,
         UNCHANGED <<now, live, sess, signers, shares, cleaner>>,
         worker.pc \notin {"derived", "removed"}, worker'.pc \notin {"derived", "removed"}
  PROVE  CleanerInv' /\ TableInv' /\ OpenInv' /\ ClosedInv'
<1>1. CleanerInv'
  BY DEF CleanerInv, Expired
<1>2. TableInv'
  BY DEF TableInv
<1>3. \A t \in Token : Open(t)' <=> Open(t)
  BY DEF Open
<1>4. \A t \in Token : Stored(t)' = Stored(t)
  BY DEF Stored
<1>5. OpenInv'
  BY <1>3, <1>4 DEF OpenInv, SessionFree
<1>6. ClosedInv'
  BY <1>3, <1>4 DEF ClosedInv, Replaced
<1> QED
  BY <1>1, <1>2, <1>5, <1>6

\* A kept table holds, for each entry made, that entry or a later one of the
\* same address.
LEMMA TableEntry ==
  ASSUME NEW ok \in SUBSET Entry, NEW tab \in [Addr -> 0..BookLen], IsTable(tab, ok),
         NEW e \in ok
  PROVE  /\ tab[Book[e]] \in ok
         /\ Book[tab[Book[e]]] = Book[e]
         /\ e <= tab[Book[e]]
  BY DEF IsTable

\* Every step preserves the key invariant.
LEMMA KeyStep == KeyInv /\ [Next]_vars => KeyInv'
<1> SUFFICES ASSUME KeyInv, [Next]_vars PROVE KeyInv'
  OBVIOUS
<1>1. TypeOK /\ CleanerInv /\ WorkerInv /\ TableInv /\ OpenInv /\ ClosedInv /\ KeyLostOnlyByExpiry
  BY DEF KeyInv
<1>2. TypeOK'
  BY <1>1, TypeStep
<1>3. ASSUME UNCHANGED <<now, live, sess, signers, shares, cleaner>>,
             worker.pc \notin {"derived", "removed"}, worker'.pc \notin {"derived", "removed"},
             WorkerInv', KeyLostOnlyByExpiry'
      PROVE  KeyInv'
  BY <1>1, <1>2, <1>3, WorkerOnly DEF KeyInv
<1>4. ASSUME worker' = Idle PROVE WorkerInv' /\ KeyLostOnlyByExpiry'
  BY <1>4, IdleType DEF WorkerInv, KeyLostOnlyByExpiry
<1>5. ASSUME NEW t \in Token, NEW ok \in SUBSET Entry, NEW d \in Minutes, NEW nets \in NetLists,
             CreateSession(t, ok, d, nets)
      PROVE  KeyInv'
  <2>1. PICK tab \in [Addr -> 0..BookLen] :
           IsTable(tab, ok) /\ signers' = [signers EXCEPT ![t] = tab]
    BY <1>5 DEF CreateSession
  <2>2. signers'[t] = tab /\ \A u \in Token : u # t => signers'[u] = signers[u]
    BY <1>1, <2>1 DEF TypeOK
  <2>3. /\ shares'[t] = [e \in Entry |-> IF e \in ok THEN "whole" ELSE "none"]
        /\ \A u \in Token : u # t => shares'[u] = shares[u]
    BY <1>1, <1>5 DEF CreateSession, TypeOK
  <2>4. /\ worker.pc = "idle" /\ ok # {} /\ UNCHANGED <<now, live, cleaner>>
        /\ worker'.pc = "derived" /\ worker'.tok = t
    BY <1>5 DEF CreateSession, Calling
  <2>5. ~Open(t)
    <3> SUFFICES ASSUME Open(t) PROVE FALSE
      OBVIOUS
    <3>1. PICK e \in Entry : signers[t][Book[e]] = e
      BY <1>1 DEF OpenInv, Stored
    <3>2. shares[t][e] # "none"
      BY <1>1, <3>1 DEF TableInv, Entry
    <3> QED
      BY <1>5, <3>2 DEF CreateSession, Created
  <2>6. t \notin live /\ t \notin cleaner.todo /\ cleaner.cur # t
    BY <1>1, <2>5 DEF Open, CleanerInv
  <2>7. \A u \in Token : u # t => sess'[u] = sess[u]
    BY <1>1, <1>5 DEF CreateSession, TypeOK
  <2>8. CleanerInv'
    BY <1>1, <2>4, <2>6, <2>7 DEF CleanerInv, Expired, TypeOK
  <2>9. WorkerInv' /\ KeyLostOnlyByExpiry'
    BY <2>4, <2>6 DEF WorkerInv, KeyLostOnlyByExpiry
  <2>10. TableInv'
    <3> SUFFICES ASSUME NEW u \in Token, NEW a \in Addr, signers'[u][a] # 0
                 PROVE  Book[signers'[u][a]] = a /\ shares'[u][signers'[u][a]] # "none"
      BY DEF TableInv
    <3>1. CASE u # t
      BY <1>1, <2>2, <2>3, <3>1 DEF TableInv
    <3>2. CASE u = t
      <4>1. tab[a] \in ok /\ Book[tab[a]] = a
        BY <2>1, <2>2, <3>2 DEF IsTable
      <4> QED
        BY <2>2, <2>3, <3>2, <4>1
    <3> QED
      BY <3>1, <3>2
  <2>11. \A e \in ok : tab[Book[e]] \in ok /\ Book[tab[Book[e]]] = Book[e] /\ e <= tab[Book[e]]
    BY <2>1, TableEntry
  <2>12. /\ \A u \in Token : u # t => (Open(u)' <=> Open(u)) /\ Stored(u)' = Stored(u)
         /\ Open(t)'
    BY <2>2, <2>4 DEF Open, Stored
  <2>13. OpenInv'
    <3> SUFFICES ASSUME NEW u \in Token, Open(u)'
                 PROVE  /\ Stored(u)' # {}
                        /\ SessionFree(u)' => \A e \in Stored(u)' : shares'[u][e] = "whole"
      BY DEF OpenInv
    <3>1. CASE u # t
      BY <1>1, <2>3, <2>4, <2>12, <3>1 DEF OpenInv, SessionFree
    <3>2. CASE u = t
      <4>1. PICK e \in ok : TRUE
        BY <2>4
      <4>2. tab[Book[e]] \in Stored(t)'
        BY <2>2, <2>11 DEF Stored
      <4>3. ASSUME NEW f \in Stored(t)' PROVE shares'[t][f] = "whole"
        <5>1. f \in Entry /\ tab[Book[f]] = f /\ f # 0
          BY <2>2 DEF Stored, Entry
        <5>2. f \in ok
          BY <2>1, <5>1 DEF IsTable
        <5> QED
          BY <2>3, <5>2
      <4> QED
        BY <3>2, <4>2, <4>3
    <3> QED
      BY <3>1, <3>2
  <2>14. ClosedInv'
    <3> SUFFICES ASSUME NEW u \in Token
                 PROVE  /\ ~Open(u)' => signers'[u] = NoSigners
                        /\ \A e \in Entry : shares'[u][e] \in {"whole", "torn"} =>
                               e \in Stored(u)' \/ Replaced(u, e)'
      BY DEF ClosedInv
    <3>1. CASE u # t
      BY <1>1, <2>2, <2>3, <2>12, <3>1 DEF ClosedInv, Replaced
    <3>2. CASE u = t
      <4>1. ASSUME NEW e \in ok PROVE e \in Stored(t)' \/ Replaced(t, e)'
        <5>1. CASE tab[Book[e]] = e
          BY <2>2, <5>1 DEF Stored
        <5>2. CASE tab[Book[e]] # e
          <6>1. e < tab[Book[e]] /\ shares'[t][tab[Book[e]]] # "none"
            BY <2>3, <2>11, <5>2 DEF Entry
          <6> QED
            BY <2>11, <6>1 DEF Replaced
        <5> QED
          BY <5>1, <5>2
      <4> QED
        BY <2>3, <2>12, <3>2, <4>1
    <3> QED
      BY <3>1, <3>2
  <2> QED
    BY <1>2, <2>8, <2>9, <2>10, <2>13, <2>14 DEF KeyInv
<1>6. ASSUME NEW call \in Call, NEW t \in Token, NEW c, NEW a, Lookup(call, t, c, a) PROVE KeyInv'
  <2>1. worker'.pc = "found" /\ worker'.tok = t /\ t \in live /\ live' = live
    BY <1>6 DEF Lookup, Calling
  <2>2. WorkerInv' /\ KeyLostOnlyByExpiry'
    BY <2>1 DEF WorkerInv, KeyLostOnlyByExpiry
  <2> QED
    BY <1>3, <1>6, <2>1, <2>2 DEF Lookup
<1>7. ASSUME NEW t \in Token, EndCall(t) PROVE KeyInv'
  <2>1. worker'.pc = "ending"
    BY <1>7 DEF EndCall, Calling
  <2>2. WorkerInv' /\ KeyLostOnlyByExpiry'
    BY <2>1 DEF WorkerInv, KeyLostOnlyByExpiry
  <2> QED
    BY <1>3, <1>7, <2>1, <2>2 DEF EndCall
<1>8. CASE CheckExpiry
  <2>1. worker'.pc \in {"ending", "admitted"} /\ worker.pc = "found"
    BY <1>1, <1>8 DEF CheckExpiry, TypeOK, Worker
  <2>2. WorkerInv' /\ KeyLostOnlyByExpiry'
    BY <2>1 DEF WorkerInv, KeyLostOnlyByExpiry
  <2> QED
    BY <1>3, <1>8, <2>1, <2>2 DEF CheckExpiry
<1>9. CASE ReportInfo \/ SignError
  <2>1. worker' = Idle /\ worker.pc \in {"admitted", "signing"}
    BY <1>9 DEF ReportInfo, SignError
  <2> QED
    BY <1>3, <1>4, <1>9, <2>1, IdleType DEF ReportInfo, SignError
<1>10. CASE FetchSigner
  <2> DEFINE t == worker.tok
             e == signers[t][worker.from]
  <2>1. t \in Token /\ worker.from \in Addr /\ worker.pc = "admitted" /\ SessionFree(t)
    BY <1>1, <1>10 DEF FetchSigner, TypeOK
  <2>2. e \in 0..BookLen
    <3>1. signers[t] \in [Addr -> 0..BookLen]
      BY <1>1, <2>1 DEF TypeOK
    <3> QED
      BY <2>1, <3>1
  <2>3. CASE worker' = Idle
    BY <1>3, <1>4, <1>10, <2>1, <2>3, IdleType DEF FetchSigner
  <2>4. CASE worker' # Idle
    <3>1. /\ worker' = [worker EXCEPT !.pc = "signing", !.entry = e]
          /\ e # 0
          /\ worker.call = "sign" => ChainAllowed(t, worker.chain)
      BY <1>10, <2>4 DEF FetchSigner
    <3>2. /\ worker'.pc = "signing" /\ worker'.entry = e /\ worker'.tok = t
          /\ worker'.call = worker.call /\ worker'.chain = worker.chain
      BY <1>1, <3>1 DEF TypeOK, Worker
    <3>3. WorkerInv'
      BY <1>10, <3>1, <3>2 DEF WorkerInv, FetchSigner, ChainAllowed
    <3>4. e \in Stored(t)
      BY <1>1, <2>1, <2>2, <3>1 DEF TableInv, Stored, Entry
    <3>5. signers[t] # NoSigners
      BY <2>1, <3>1 DEF NoSigners
    <3>6. Open(t)
      BY <1>1, <2>1, <3>5 DEF ClosedInv
    <3>7. shares[t][e] = "whole"
      BY <1>1, <2>1, <3>4, <3>6 DEF OpenInv
    <3>8. KeyLostOnlyByExpiry'
      BY <1>10, <3>2, <3>7 DEF FetchSigner, KeyLostOnlyByExpiry
    <3> QED
      BY <1>3, <1>10, <2>1, <3>2, <3>3, <3>8 DEF FetchSigner
  <2> QED
    BY <2>3, <2>4
<1>11. CASE Sign
  <2>1. PICK r \in SignOutcome(shares[worker.tok][worker.entry]) :
           worker' = Idle \/ (r # "fail" /\ worker' = [worker EXCEPT !.pc = "signed", !.key = r])
    BY <1>11 DEF Sign
  <2>2. worker.pc = "signing"
    BY <1>11 DEF Sign
  <2>3. CASE worker' = Idle
    BY <1>3, <1>4, <1>11, <2>2, <2>3, IdleType DEF Sign
  <2>4. CASE r # "fail" /\ worker' = [worker EXCEPT !.pc = "signed", !.key = r]
    <3>1. /\ worker'.pc = "signed" /\ worker'.key = r /\ worker'.tok = worker.tok
          /\ worker'.call = worker.call /\ worker'.chain = worker.chain
      BY <1>1, <2>4 DEF TypeOK, Worker
    <3>2. r = "wrong" => shares[worker.tok][worker.entry] # "whole"
      BY <2>1 DEF SignOutcome
    <3>3. WorkerInv'
      BY <1>1, <1>11, <2>2, <3>1 DEF WorkerInv, Sign, ChainAllowed
    <3>4. KeyLostOnlyByExpiry'
      BY <1>1, <1>11, <2>2, <3>1, <3>2 DEF KeyLostOnlyByExpiry, Sign, Expired
    <3> QED
      BY <1>3, <1>11, <2>2, <3>1, <3>3, <3>4 DEF Sign
  <2> QED
    BY <2>1, <2>3, <2>4
<1>12. CASE CountSignature
  <2>1. worker' = Idle /\ worker.pc = "signed" /\ worker.tok \in Token
    BY <1>1, <1>12 DEF CountSignature, TypeOK
  <2>2. \A u \in Token : sess'[u].expires = sess[u].expires /\ sess'[u].trusted = sess[u].trusted
    BY <1>1, <1>12, <2>1 DEF CountSignature, TypeOK, Session
  <2>3. CleanerInv'
    BY <1>1, <1>12, <2>2 DEF CleanerInv, Expired, CountSignature, TypeOK
  <2>4. TableInv'
    BY <1>1, <1>12 DEF TableInv, CountSignature
  <2>5. \A u \in Token : (Open(u)' <=> Open(u)) /\ Stored(u)' = Stored(u)
    BY <1>12, <2>1, IdleType DEF Open, Stored, CountSignature
  <2>6. OpenInv'
    BY <1>1, <1>12, <2>5 DEF OpenInv, SessionFree, CountSignature
  <2>7. ClosedInv'
    BY <1>1, <1>12, <2>5 DEF ClosedInv, Replaced, CountSignature
  <2> QED
    BY <1>2, <1>4, <2>1, <2>3, <2>4, <2>6, <2>7 DEF KeyInv
<1>13. CASE StoreSession
  <2>0. PICK t \in Token : t = worker.tok
    BY <1>1, <1>13 DEF StoreSession, TypeOK
  <2>1. /\ worker.pc = "derived" /\ t \in Token /\ live' = live \cup {t}
        /\ worker'.pc = "found" /\ worker'.tok = t /\ ~cleaner.on
        /\ UNCHANGED <<now, sess, signers, shares, cleaner>>
    BY <1>1, <1>13, <2>0 DEF StoreSession, TypeOK, Worker, ManagerFree
  <2>2. \A u \in Token : (Open(u)' <=> Open(u)) /\ Stored(u)' = Stored(u)
    BY <2>0, <2>1 DEF Open, Stored
  <2>3. CleanerInv' /\ TableInv'
    BY <1>1, <2>1 DEF CleanerInv, Expired, TableInv
  <2>4. WorkerInv' /\ KeyLostOnlyByExpiry'
    BY <2>1 DEF WorkerInv, KeyLostOnlyByExpiry
  <2>5. OpenInv'
    BY <1>1, <2>1, <2>2 DEF OpenInv, SessionFree
  <2>6. ClosedInv'
    BY <1>1, <2>1, <2>2 DEF ClosedInv, Replaced
  <2> QED
    BY <1>2, <2>3, <2>4, <2>5, <2>6 DEF KeyInv
<1>14. CASE RemoveSession
  <2>0. PICK t \in Token : t = worker.tok
    BY <1>1, <1>14 DEF RemoveSession, TypeOK
  <2>1. /\ worker.pc = "ending" /\ t \in Token /\ live' = live \ {t} /\ ~cleaner.on
        /\ UNCHANGED <<now, sess, signers, shares, cleaner>>
    BY <1>1, <1>14, <2>0 DEF RemoveSession, TypeOK, ManagerFree
  <2>2. CASE t \notin live
    <3>1. worker' = Idle /\ live' = live
      BY <1>14, <2>0, <2>1, <2>2 DEF RemoveSession
    <3> QED
      BY <1>3, <1>4, <2>1, <3>1, IdleType
  <2>3. CASE t \in live
    <3>1. worker'.pc = "removed" /\ worker'.tok = t
      BY <1>1, <1>14, <2>0, <2>3 DEF RemoveSession, TypeOK, Worker
    <3>2. \A u \in Token : (Open(u)' <=> Open(u)) /\ Stored(u)' = Stored(u)
      BY <2>1, <2>3, <3>1 DEF Open, Stored
    <3>3. CleanerInv' /\ TableInv'
      BY <1>1, <2>1 DEF CleanerInv, Expired, TableInv
    <3>4. WorkerInv' /\ KeyLostOnlyByExpiry'
      BY <2>1, <3>1 DEF WorkerInv, KeyLostOnlyByExpiry
    <3>5. OpenInv'
      BY <1>1, <2>1, <3>2 DEF OpenInv, SessionFree
    <3>6. ClosedInv'
      BY <1>1, <2>1, <3>2 DEF ClosedInv, Replaced
    <3> QED
      BY <1>2, <3>3, <3>4, <3>5, <3>6 DEF KeyInv
  <2> QED
    BY <2>2, <2>3
<1>15. CASE ZeroizeRemoved
  <2>0. PICK t \in Token : t = worker.tok
    BY <1>1, <1>15 DEF ZeroizeRemoved, TypeOK
  <2>1. /\ worker.pc = "removed" /\ t \in Token /\ t \notin live /\ worker' = Idle
        /\ UNCHANGED <<now, live, sess, cleaner>>
    BY <1>1, <1>15, <2>0 DEF ZeroizeRemoved, TypeOK, WorkerInv
  <2>2. /\ shares'[t] = [e \in Entry |-> IF e \in Stored(t) THEN "gone" ELSE shares[t][e]]
        /\ signers'[t] = NoSigners
        /\ \A u \in Token : u # t => shares'[u] = shares[u] /\ signers'[u] = signers[u]
    BY <1>1, <1>15, <2>0, <2>1 DEF ZeroizeRemoved, TypeOK
  <2>3. CleanerInv'
    BY <1>1, <2>1 DEF CleanerInv, Expired
  <2>4. TableInv'
    BY <1>1, <2>2 DEF TableInv, NoSigners
  <2>5. /\ ~Open(t)'
        /\ \A u \in Token : u # t => (Open(u)' <=> Open(u)) /\ Stored(u)' = Stored(u)
    BY <2>0, <2>1, <2>2, IdleType DEF Open, Stored
  <2>6. OpenInv'
    BY <1>1, <2>1, <2>2, <2>5 DEF OpenInv, SessionFree
  <2>7. ClosedInv'
    <3> SUFFICES ASSUME NEW u \in Token
                 PROVE  /\ ~Open(u)' => signers'[u] = NoSigners
                        /\ \A e \in Entry : shares'[u][e] \in {"whole", "torn"} =>
                               e \in Stored(u)' \/ Replaced(u, e)'
      BY DEF ClosedInv
    <3>1. CASE u # t
      BY <1>1, <2>2, <2>5, <3>1 DEF ClosedInv, Replaced
    <3>2. CASE u = t
      <4>1. ASSUME NEW e \in Entry, shares'[t][e] \in {"whole", "torn"} PROVE Replaced(t, e)'
        <5>1. e \notin Stored(t) /\ shares[t][e] \in {"whole", "torn"}
          BY <2>2, <4>1
        <5>2. PICK f \in Entry : e < f /\ Book[f] = Book[e] /\ shares[t][f] # "none"
          BY <1>1, <2>1, <5>1 DEF ClosedInv, Replaced
        <5>3. shares'[t][f] # "none"
          BY <2>2, <5>2
        <5> QED
          BY <5>2, <5>3 DEF Replaced
      <4> QED
        BY <2>2, <3>2, <4>1
    <3> QED
      BY <3>1, <3>2
  <2> QED
    BY <1>2, <1>4, <2>1, <2>3, <2>4, <2>6, <2>7 DEF KeyInv
<1>16. CASE SweepBegin \/ (\E t \in Token : SweepLock(t)) \/ SweepEnd
  <2>1. /\ UNCHANGED <<now, live, sess, signers, shares, worker>>
        /\ cleaner'.cur # None => cleaner'.cur \in cleaner'.todo
        /\ cleaner'.todo # {} => cleaner'.on
        /\ \A t \in cleaner'.todo : t \in live /\ Expired(t)
        /\ cleaner'.cur # None => cleaner'.on
    <3>1. CASE SweepBegin
      BY <3>1 DEF SweepBegin
    <3>2. ASSUME NEW t \in Token, SweepLock(t)
          PROVE  /\ cleaner'.on /\ cleaner'.cur = t /\ cleaner'.todo = cleaner.todo
                 /\ t \in cleaner.todo
                 /\ UNCHANGED <<now, live, sess, signers, shares, worker>>
      BY <1>1, <3>2 DEF SweepLock, TypeOK, Cleaner
    <3>3. CASE SweepEnd
      BY <3>3 DEF SweepEnd, Asleep
    <3> QED
      BY <1>1, <1>16, <3>1, <3>2, <3>3 DEF CleanerInv
  <2>2. CleanerInv'
    BY <2>1 DEF CleanerInv, Expired
  <2>3. WorkerInv' /\ TableInv' /\ KeyLostOnlyByExpiry'
    BY <1>1, <2>1 DEF WorkerInv, TableInv, KeyLostOnlyByExpiry, ChainAllowed, Expired
  <2>4. \A u \in Token : (Open(u)' <=> Open(u)) /\ Stored(u)' = Stored(u)
    BY <2>1 DEF Open, Stored
  <2>5. ClosedInv'
    BY <1>1, <2>1, <2>4 DEF ClosedInv, Replaced
  <2>6. \A u \in Token : Open(u) /\ ~SessionFree(u) /\ SessionFree(u)' =>
           \A e \in Stored(u) : shares[u][e] = "whole"
    BY <1>1, <1>16 DEF SessionFree, CleanerInv, SweepBegin, SweepLock, SweepEnd, TypeOK, BookAssumption
  <2>7. OpenInv'
    BY <1>1, <2>1, <2>4, <2>6 DEF OpenInv
  <2> QED
    BY <1>2, <2>2, <2>3, <2>5, <2>7 DEF KeyInv
<1>17. ASSUME NEW e \in Entry, SweepZeroize(e) PROVE KeyInv'
  <2>0. PICK t \in Token : t = cleaner.cur
    BY <1>1, <1>17 DEF SweepZeroize, TypeOK, Cleaner
  <2>1. /\ t \in Token /\ t \in live /\ Expired(t) /\ ~SessionFree(t)
        /\ UNCHANGED <<now, live, sess, signers, worker, cleaner>>
    BY <1>1, <1>17, <2>0 DEF SweepZeroize, CleanerInv, TypeOK, SessionFree
  <2>2. /\ \A u \in Token : u # t => shares'[u] = shares[u]
        /\ \A f \in Entry : f # e => shares'[t][f] = shares[t][f]
        /\ shares'[t][e] # "none" /\ e \in Stored(t)
    BY <1>1, <1>17, <2>0, <2>1 DEF SweepZeroize, TypeOK, NextShareState
  <2>3. CleanerInv' /\ WorkerInv'
    BY <1>1, <2>1 DEF CleanerInv, WorkerInv, Expired, ChainAllowed
  <2>4. TableInv'
    <3> SUFFICES ASSUME NEW u \in Token, NEW a \in Addr, signers[u][a] # 0
                 PROVE  Book[signers[u][a]] = a /\ shares'[u][signers[u][a]] # "none"
      BY <2>1 DEF TableInv
    <3>1. signers[u][a] \in Entry
      BY <1>1 DEF TypeOK, Entry
    <3> QED
      BY <1>1, <2>2, <3>1 DEF TableInv
  <2>5. \A u \in Token : (Open(u)' <=> Open(u)) /\ Stored(u)' = Stored(u)
    BY <2>1 DEF Open, Stored
  <2>6. OpenInv'
    BY <1>1, <2>1, <2>2, <2>5 DEF OpenInv, SessionFree
  <2>7. ASSUME NEW u \in Token, NEW f \in Entry, Replaced(u, f) PROVE Replaced(u, f)'
    BY <2>2, <2>7 DEF Replaced
  <2>8. ClosedInv'
    BY <1>1, <2>1, <2>2, <2>5, <2>7 DEF ClosedInv
  <2>9. KeyLostOnlyByExpiry'
    BY <1>1, <2>1, <2>2 DEF KeyLostOnlyByExpiry, Expired, TypeOK
  <2> QED
    BY <1>2, <2>3, <2>4, <2>6, <2>8, <2>9 DEF KeyInv
<1>18. CASE SweepDelete
  <2>0. PICK t \in Token : t = cleaner.cur
    BY <1>1, <1>18 DEF SweepDelete, TypeOK, Cleaner
  <2>1. /\ t \in Token /\ t \in live /\ Expired(t) /\ live' = live \ {t} /\ cleaner.on
        /\ \A e \in Stored(t) : shares[t][e] = "gone"
        /\ UNCHANGED <<now, sess, shares, worker>>
    BY <1>1, <1>18, <2>0 DEF SweepDelete, CleanerInv, TypeOK
  <2>2. /\ signers'[t] = NoSigners
        /\ \A u \in Token : u # t => signers'[u] = signers[u]
        /\ cleaner'.on /\ cleaner'.todo = cleaner.todo \ {t} /\ cleaner'.cur = None
    BY <1>1, <1>18, <2>0, <2>1 DEF SweepDelete, TypeOK, Cleaner
  <2>3. CleanerInv'
    BY <1>1, <2>1, <2>2 DEF CleanerInv, Expired
  <2>4. WorkerInv' /\ KeyLostOnlyByExpiry'
    BY <1>1, <2>1 DEF WorkerInv, KeyLostOnlyByExpiry, Expired, ChainAllowed
  <2>5. TableInv'
    BY <1>1, <2>1, <2>2 DEF TableInv, NoSigners
  <2>6. /\ ~Open(t)'
        /\ \A u \in Token : u # t => (Open(u)' <=> Open(u)) /\ Stored(u)' = Stored(u)
    BY <1>1, <2>1, <2>2 DEF Open, Stored, WorkerInv
  <2>7. OpenInv'
    BY <1>1, <2>0, <2>1, <2>2, <2>6 DEF OpenInv, SessionFree
  <2>8. ClosedInv'
    <3> SUFFICES ASSUME NEW u \in Token
                 PROVE  /\ ~Open(u)' => signers'[u] = NoSigners
                        /\ \A e \in Entry : shares'[u][e] \in {"whole", "torn"} =>
                               e \in Stored(u)' \/ Replaced(u, e)'
      BY DEF ClosedInv
    <3>1. CASE u # t
      BY <1>1, <2>1, <2>2, <2>6, <3>1 DEF ClosedInv, Replaced
    <3>2. CASE u = t
      BY <1>1, <2>1, <2>2, <3>2 DEF ClosedInv, Replaced
    <3> QED
      BY <3>1, <3>2
  <2> QED
    BY <1>2, <2>3, <2>4, <2>5, <2>7, <2>8 DEF KeyInv
<1>19. CASE Tick
  <2>1. UNCHANGED <<live, sess, signers, shares, worker, cleaner>>
    BY <1>19 DEF Tick
  <2>2. \A u \in Token : Expired(u) => Expired(u)'
    BY <1>1, <1>19 DEF Tick, Expired, TypeOK, Session
  <2>3. CleanerInv' /\ TableInv'
    BY <1>1, <2>1, <2>2 DEF CleanerInv, TableInv, TypeOK
  <2>4. WorkerInv' /\ KeyLostOnlyByExpiry'
    BY <1>1, <2>1, <2>2 DEF WorkerInv, KeyLostOnlyByExpiry, ChainAllowed, TypeOK
  <2>5. \A u \in Token : (Open(u)' <=> Open(u)) /\ Stored(u)' = Stored(u)
    BY <2>1 DEF Open, Stored
  <2>6. OpenInv' /\ ClosedInv'
    BY <1>1, <2>1, <2>5 DEF OpenInv, ClosedInv, SessionFree, Replaced
  <2> QED
    BY <1>2, <2>3, <2>4, <2>6 DEF KeyInv
<1>20. CASE UNCHANGED vars
  <2>1. CleanerInv' /\ WorkerInv' /\ TableInv' /\ KeyLostOnlyByExpiry'
    BY <1>1, <1>20 DEF vars, CleanerInv, WorkerInv, TableInv, KeyLostOnlyByExpiry, Expired, ChainAllowed
  <2>2. \A u \in Token : (Open(u)' <=> Open(u)) /\ Stored(u)' = Stored(u)
    BY <1>20 DEF Open, Stored, vars
  <2>3. OpenInv' /\ ClosedInv'
    BY <1>1, <1>20, <2>2 DEF OpenInv, ClosedInv, SessionFree, Replaced, vars
  <2> QED
    BY <1>2, <2>1, <2>3 DEF KeyInv
<1>21. CASE CleanerStep
  BY <1>16, <1>17, <1>18, <1>21 DEF CleanerStep
<1>22. CASE CallStep
  BY <1>8, <1>9, <1>10, <1>11, <1>12, <1>13, <1>14, <1>15, <1>22 DEF CallStep
<1>23. CASE CallBegin
  BY <1>5, <1>6, <1>7, <1>23 DEF CallBegin, Call
<1> QED
  BY <1>19, <1>20, <1>21, <1>22, <1>23 DEF Next

-----------------------------------------------------------------------------
\* The key invariant holds throughout.
THEOREM KeyInvariant == Spec => []KeyInv
  BY KeyInit, KeyStep, PTL DEF Spec

\* A session that has ended, however it ended, leaves no key of its table in
\* memory; only signers already replaced in the table may be left.
THEOREM EndedKeysAreErased == Spec => []EndedKeysErased
<1>1. KeyInv => EndedKeysErased
  BY DEF KeyInv, TypeOK, ClosedInv, EndedKeysErased, Erased, Ended, Stored, NoSigners, Entry, ShareState,
         BookAssumption
<1> QED
  BY <1>1, KeyInvariant, PTL

\* Whatever the cleaner does, a session that can be looked up can sign.
THEOREM LiveKeysAreWhole == Spec => []LiveKeysWhole
<1>1. KeyInv => LiveKeysWhole
  BY DEF KeyInv, TypeOK, OpenInv, LiveKeysWhole, Open
<1> QED
  BY <1>1, KeyInvariant, PTL

\* Only a session that has run out loses its key under a sign call.
THEOREM KeysAreLostOnlyByExpiry == Spec => []KeyLostOnlyByExpiry
<1>1. KeyInv => KeyLostOnlyByExpiry
  BY DEF KeyInv
<1> QED
  BY <1>1, KeyInvariant, PTL

\* So the keys in memory are those of the sessions that can still be used.
THEOREM KeysFollowTheSessions == Spec => []KeysFollowSessions
  BY EndedKeysAreErased, LiveKeysAreWhole, KeysAreLostOnlyByExpiry, PTL DEF KeysFollowSessions

\* The non-atomic test of GetSession admits only sessions still on the map.
THEOREM AdmissionIsAtomic == Spec => AdmitsOnlyLive
<1>1. KeyInv /\ [Next]_vars =>
        [worker.pc = "found" /\ worker'.pc = "admitted" => worker.tok \in live]_vars
  <2> SUFFICES ASSUME KeyInv, Next, worker.pc = "found", worker'.pc = "admitted"
               PROVE  worker.tok \in live
    OBVIOUS
  <2>1. worker \in Worker /\ worker # worker'
    BY DEF KeyInv, TypeOK
  <2>2. CASE CheckExpiry
    BY <2>1, <2>2 DEF CheckExpiry, KeyInv, WorkerInv, Worker
  <2>3. CASE ~CheckExpiry
    BY <2>1, <2>3 DEF Next, CallBegin, CreateSession, Lookup, EndCall, CallStep, StoreSession,
       ReportInfo, FetchSigner, Sign, SignError, CountSignature, RemoveSession, ZeroizeRemoved,
       CleanerStep, SweepBegin, SweepLock, SweepZeroize, SweepDelete, SweepEnd, Tick
  <2> QED
    BY <2>2, <2>3
<1> QED
  BY <1>1, KeyInvariant, PTL DEF Spec, AdmitsOnlyLive
=============================================================================
