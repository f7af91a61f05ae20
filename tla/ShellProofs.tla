---------------------------- MODULE ShellProofs ----------------------------
(***************************************************************************)
(* For any pages, plugins, wallets, mount points and bounds: the pairing   *)
(* gate of the WebSocket server opens only to a connection whose own code  *)
(* the app has shown, and no code is missed more often than its budget;    *)
(* the wallets' files on the stick keep the promise of Vault.              *)
(***************************************************************************)
EXTENDS MCShell, TLAPS

\* A pairing state holds a code of its connection's present turn.
CodeIsOwn ==
    \A c \in Conn : pairing[c].code # 0 =>
        pairing[c].code \in 1..made /\ owner[pairing[c].code] = <<c, turn[c]>>

\* A state is paired only by a code that was typed in, and only codes that
\* were shown are.
PairedWasShown == \A c \in Conn : pairing[c].paired => pairing[c].code \in seen

\* A state that is not locked has an attempt left.
AttemptsLeft == \A c \in Conn : ~pairing[c].locked => pairing[c].attempts < MaxAttempts

IInv == TypeOK /\ CodeIsOwn /\ PairedWasShown /\ AttemptsLeft /\ OpenGateWasShown

-----------------------------------------------------------------------------
\* A connection begins with no code, no attempt and no gate.
LEMMA NoStateIsState == NoState \in State
    BY BoundAssumption DEF NoState, State

\* PairingState::verify keeps the type of a state, its code, and the budget of
\* attempts; it pairs only with the state's own code.
LEMMA VerifiedIsState ==
    ASSUME NEW s \in State, NEW code,
           ~s.locked => s.attempts < MaxAttempts
    PROVE  /\ Verified(s, code) \in State
           /\ Verified(s, code).code = s.code
           /\ ~Verified(s, code).locked => Verified(s, code).attempts < MaxAttempts
           /\ Verified(s, code).paired => s.paired \/ (s.code = code /\ s.code # 0)
           /\ s.locked => Verified(s, code) = s
<1>1. CASE s.code = 0 \/ s.paired \/ s.locked \/ IsExpired(s)
    <2>1. Verified(s, code) = s
        BY <1>1 DEF Verified
    <2> QED
        BY <2>1
<1>2. CASE ~(s.code = 0 \/ s.paired \/ s.locked \/ IsExpired(s)) /\ s.code = code
    <2>1. Verified(s, code) = [s EXCEPT !.paired = TRUE]
        BY <1>2 DEF Verified
    <2> QED
        BY <1>2, <2>1 DEF State
<1>3. CASE ~(s.code = 0 \/ s.paired \/ s.locked \/ IsExpired(s)) /\ s.code # code
    <2>1. Verified(s, code) = WrongAttempt(s)
        BY <1>3 DEF Verified
    <2>2. s.attempts + 1 \in 0..MaxAttempts
        BY <1>3, BoundAssumption DEF State
    <2>3. (s.attempts + 1 >= MaxAttempts) \in BOOLEAN
        BY <2>2, BoundAssumption
    <2>4. WrongAttempt(s) \in State
        BY <2>2, <2>3 DEF WrongAttempt, State
    <2>5. WrongAttempt(s).attempts = s.attempts + 1
        BY DEF WrongAttempt, State
    <2>6. WrongAttempt(s).locked = (s.attempts + 1 >= MaxAttempts)
        BY DEF WrongAttempt, State
    <2>7. ~WrongAttempt(s).locked => WrongAttempt(s).attempts < MaxAttempts
        <3>1. s.attempts + 1 >= MaxAttempts => WrongAttempt(s).locked
            BY <2>6, Zenon
        <3>2. s.attempts + 1 < MaxAttempts \/ s.attempts + 1 >= MaxAttempts
            BY <2>2, BoundAssumption
        <3> QED
            BY <2>5, <3>1, <3>2
    <2>8. WrongAttempt(s).code = s.code
        BY DEF WrongAttempt, State
    <2>9. WrongAttempt(s).paired => s.paired
        BY DEF WrongAttempt, State
    <2> QED
        BY <1>3, <2>1, <2>4, <2>7, <2>8, <2>9
<1> QED
    BY <1>1, <1>2, <1>3

LEMMA InitHolds == Init => IInv
<1> SUFFICES ASSUME Init PROVE IInv
    OBVIOUS
<1>1. TypeOK
    BY NoStateIsState, BoundAssumption DEF Init, TypeOK, Answers
<1> QED
    BY <1>1, BoundAssumption
    DEF Init, IInv, CodeIsOwn, PairedWasShown, AttemptsLeft, OpenGateWasShown, NoState

-----------------------------------------------------------------------------
\* One lemma for each step that moves a connection or a code.
LEMMA ConnectKeeps == ASSUME IInv, NEW c \in Conn, Connect(c) PROVE IInv'
<1> USE DEF IInv
<1>1. TypeOK'
    BY NoStateIsState, BoundAssumption DEF TypeOK, Connect, Answers
<1>2. CodeIsOwn' /\ PairedWasShown' /\ AttemptsLeft'
    BY BoundAssumption DEF TypeOK, Connect, NoState, CodeIsOwn, PairedWasShown, AttemptsLeft
<1>3. OpenGateWasShown'
    BY DEF TypeOK, Connect, OpenGateWasShown
<1> QED
    BY <1>1, <1>2, <1>3

LEMMA RequestPairingKeeps == ASSUME IInv, NEW c \in Conn, RequestPairing(c) PROVE IInv'
<1> USE DEF IInv
<1>1. CASE UNCHANGED <<made, owner, pairing, prompts>>
    BY <1>1 DEF RequestPairing, TypeOK, CodeIsOwn, PairedWasShown, AttemptsLeft,
        OpenGateWasShown
<1>2. CASE /\ made < MaxCode
           /\ made' = made + 1
           /\ owner' = Append(owner, <<c, turn[c]>>)
           /\ pairing' = [pairing EXCEPT ![c] = [NoState EXCEPT !.code = made + 1, !.at = now]]
           /\ prompts' = Append(prompts, made + 1)
    <2> DEFINE new == [NoState EXCEPT !.code = made + 1, !.at = now]
    <2>0. UNCHANGED <<now, open, turn, gate, answer, shown, seen, wrong>>
        BY DEF RequestPairing
    <2>1. made' \in 0..MaxCode /\ 1..made \subseteq 1..made' /\ made + 1 \in 1..made'
        BY <1>2, BoundAssumption DEF TypeOK
    <2>2. made + 1 \in 0..MaxCode /\ now \in Nat /\ 0 \in 0..MaxAttempts
        BY <1>2, <2>1, BoundAssumption DEF TypeOK
    <2>15. new \in State
        BY <2>2 DEF NoState, State
    <2>3. new.code = made + 1 /\ ~new.paired /\ ~new.locked /\ new.attempts = 0
        BY DEF NoState
    <2>4. pairing' \in [Conn -> State] /\ pairing'[c] = new
        BY <1>2, <2>15 DEF TypeOK
    <2>5. \A d \in Conn : d # c => pairing'[d] = pairing[d]
        BY <1>2 DEF TypeOK
    <2> HIDE DEF new
    <2> DEFINE Turns == Conn \X (0..MaxOpen)
               own == <<c, turn[c]>>
    <2>16. own \in Turns
        BY DEF TypeOK
    <2>17. owner \in Seq(Turns) /\ Len(owner) = made /\ owner' = Append(owner, own)
        BY <1>2 DEF TypeOK
    <2> HIDE DEF Turns, own
    <2>6. owner' \in Seq(Turns)
        BY <2>16, <2>17
    <2>18. Len(owner') = made'
        BY <1>2, <2>16, <2>17
    <2>7. \A k \in 1..made : owner'[k] = owner[k]
        BY <2>16, <2>17
    <2>8. owner'[made + 1] = own
        BY <2>16, <2>17
    <2>9. prompts \in Seq(1..made')
        BY <2>1 DEF TypeOK
    <2>10. prompts' \in Seq(1..made')
        BY <1>2, <2>1, <2>9
    <2>11. TypeOK'
        BY <2>0, <2>1, <2>4, <2>6, <2>10, <2>18, <1>2 DEF TypeOK, Turns
    <2>12. CodeIsOwn'
        BY <2>0, <2>1, <2>3, <2>4, <2>5, <2>7, <2>8 DEF CodeIsOwn, own
    <2>13. PairedWasShown' /\ AttemptsLeft'
        BY <2>0, <2>3, <2>4, <2>5, BoundAssumption DEF PairedWasShown, AttemptsLeft
    <2>14. OpenGateWasShown'
        BY <2>0, <2>7 DEF OpenGateWasShown, TypeOK
    <2> QED
        BY <2>11, <2>12, <2>13, <2>14
<1> QED
    BY <1>1, <1>2 DEF RequestPairing

\* Counting one more keeps a table of counts.
LEMMA OneMoreIsCounted ==
    ASSUME NEW D, NEW f \in [D -> Nat], NEW k
    PROVE  [f EXCEPT ![k] = @ + 1] \in [D -> Nat]
<1>1. \A x \in D : x # k => [f EXCEPT ![k] = @ + 1][x] = f[x]
    OBVIOUS
<1>2. k \in D => [f EXCEPT ![k] = @ + 1][k] = f[k] + 1 /\ f[k] + 1 \in Nat
    OBVIOUS
<1>3. \A x \in D : [f EXCEPT ![k] = @ + 1][x] \in Nat
    BY <1>1, <1>2
<1>4. [f EXCEPT ![k] = @ + 1] = [x \in D |-> [f EXCEPT ![k] = @ + 1][x]]
    OBVIOUS
<1> QED
    BY <1>3, <1>4

LEMMA VerifyPairingKeeps ==
    ASSUME IInv, NEW c \in Conn, NEW code \in seen \cup {0}, VerifyPairing(c, code)
    PROVE  IInv'
<1> USE DEF IInv
<1> DEFINE s == pairing[c]
           t == Verified(s, code)
<1>0. UNCHANGED <<now, open, turn, answer, made, owner, prompts, shown, seen>>
    BY DEF VerifyPairing
<1>1. s \in State /\ (~s.locked => s.attempts < MaxAttempts)
    BY DEF TypeOK, AttemptsLeft
<1>2. /\ t \in State /\ t.code = s.code
      /\ ~t.locked => t.attempts < MaxAttempts
      /\ t.paired => s.paired \/ (s.code = code /\ s.code # 0)
    BY <1>1, VerifiedIsState
<1>3. pairing' = [pairing EXCEPT ![c] = t]
    BY DEF VerifyPairing
<1> HIDE DEF t
<1>4. pairing' \in [Conn -> State] /\ pairing'[c] = t
    BY <1>2, <1>3 DEF TypeOK
<1>5. \A d \in Conn : d # c => pairing'[d] = pairing[d]
    BY <1>3 DEF TypeOK
<1>6. gate' = [gate EXCEPT ![c] = t.paired]
    BY <1>4 DEF VerifyPairing
<1>7. t.paired => t.code \in seen
    BY <1>2 DEF PairedWasShown
<1>12. wrong' \in [1..MaxCode -> Nat]
    <2>1. wrong \in [1..MaxCode -> Nat]
        BY DEF TypeOK
    <2>2. wrong' = wrong \/ wrong' = [wrong EXCEPT ![s.code] = @ + 1]
        BY DEF VerifyPairing
    <2> QED
        BY <2>1, <2>2, OneMoreIsCounted
<1>8. TypeOK'
    <2>1. t.code \in 0..MaxCode /\ t.paired \in BOOLEAN
        BY <1>2 DEF State
    <2>2. gate' \in [Conn -> BOOLEAN]
        BY <1>6, <2>1 DEF TypeOK
    <2> QED
        BY <1>0, <1>4, <1>12, <2>2 DEF TypeOK
<1>9. CodeIsOwn'
    BY <1>0, <1>2, <1>4, <1>5 DEF CodeIsOwn
<1>10. PairedWasShown' /\ AttemptsLeft'
    BY <1>0, <1>2, <1>4, <1>5, <1>7 DEF PairedWasShown, AttemptsLeft
<1>11. OpenGateWasShown'
    <2> SUFFICES ASSUME NEW d \in Conn, gate'[d]
                 PROVE  \E k \in seen : owner[k] = <<d, turn[d]>>
        BY <1>0 DEF OpenGateWasShown
    <2>1. CASE d # c
        BY <1>6, <2>1 DEF TypeOK, OpenGateWasShown
    <2>2. CASE d = c
        <3>1. t.paired
            BY <1>6, <2>2 DEF TypeOK
        <3>2. s.code \in seen /\ s.code # 0
            BY <1>2, <1>7, <3>1 DEF TypeOK
        <3> QED
            BY <2>2, <3>2 DEF CodeIsOwn
    <2> QED
        BY <2>1, <2>2
<1> QED
    BY <1>8, <1>9, <1>10, <1>11

LEMMA PollPromptKeeps == ASSUME IInv, PollPrompt PROVE IInv'
<1> USE DEF IInv
<1> DEFINE codes == 1..made
<1>1. prompts \in Seq(codes) /\ prompts # <<>>
    BY DEF PollPrompt, TypeOK
<1> HIDE DEF codes
<1>2. Head(prompts) \in codes
    BY <1>1
<1>3. Tail(prompts) \in Seq(codes)
    BY <1>1
<1>4. /\ UNCHANGED <<now, open, turn, pairing, gate, answer, made, owner, wrong>>
      /\ seen' = seen \cup {Head(prompts)} /\ shown' = Head(prompts)
      /\ prompts' = Tail(prompts)
    BY DEF PollPrompt
<1>5. prompts' \in Seq(1..made') /\ Head(prompts) \in 1..made
    BY <1>2, <1>3, <1>4 DEF codes
<1>6. seen' \subseteq 1..made'
    BY <1>4, <1>5 DEF TypeOK
<1>7. shown' \in 0..made'
    BY <1>4, <1>5 DEF TypeOK
<1>8. TypeOK'
    BY <1>4, <1>5, <1>6, <1>7 DEF TypeOK
<1> QED
    BY <1>4, <1>8 DEF CodeIsOwn, PairedWasShown, AttemptsLeft, OpenGateWasShown

LEMMA OtherStepsKeep ==
    ASSUME IInv,
           \/ \E c \in Conn : Disconnect(c) \/ Request(c)
           \/ CloseDialog \/ Tick \/ UNCHANGED vars
    PROVE  IInv'
<1> USE DEF IInv
<1>1. UNCHANGED <<turn, pairing, gate, made, owner, prompts, seen, wrong>>
    BY DEF Disconnect, Request, CloseDialog, Tick, vars
<1>3. now' \in Nat /\ open' \subseteq Conn
    BY DEF TypeOK, Disconnect, Request, CloseDialog, Tick, vars
<1>5. answer' \in [Conn -> Answers]
    BY DEF TypeOK, Disconnect, Request, CloseDialog, Tick, vars, Answers
<1>4. shown' \in 0..made
    BY DEF TypeOK, Disconnect, Request, CloseDialog, Tick, vars
<1>2. TypeOK'
    BY <1>1, <1>3, <1>4, <1>5 DEF TypeOK
<1> QED
    BY <1>1, <1>2 DEF CodeIsOwn, PairedWasShown, AttemptsLeft, OpenGateWasShown

\* No step leaves the invariant.
LEMMA StepKeeps == ASSUME IInv, [Next]_vars PROVE IInv'
<1>1. ASSUME NEW c \in Conn, Connect(c) PROVE IInv'
    BY <1>1, ConnectKeeps
<1>2. ASSUME NEW c \in Conn, RequestPairing(c) PROVE IInv'
    BY <1>2, RequestPairingKeeps
<1>3. ASSUME NEW c \in Conn, NEW code \in seen \cup {0}, VerifyPairing(c, code) PROVE IInv'
    BY <1>3, VerifyPairingKeeps
<1>4. CASE PollPrompt
    BY <1>4, PollPromptKeeps
<1>5. CASE \/ \E c \in Conn : Disconnect(c) \/ Request(c)
           \/ CloseDialog \/ Tick \/ UNCHANGED vars
    BY <1>5, OtherStepsKeep
<1> QED
    BY <1>1, <1>2, <1>3, <1>4, <1>5 DEF Next

LEMMA Invariance == Spec => []IInv
    BY InitHolds, StepKeeps, PTL DEF Spec

-----------------------------------------------------------------------------
\* Every variable of the gate keeps its type (server.rs, pairing.rs).
THEOREM TypeCorrect == Spec => []TypeOK
<1>1. IInv => TypeOK
    BY DEF IInv
<1> QED
    BY <1>1, Invariance, PTL

\* However pages connect again, ask again, guess and wait, a gate is open only
\* to a connection for which the app showed a code (server.rs:382-421).
THEOREM GateWasShown == Spec => []OpenGateWasShown
<1>1. IInv => OpenGateWasShown
    BY DEF IInv
<1> QED
    BY <1>1, Invariance, PTL

-----------------------------------------------------------------------------
(***************************************************************************)
(* The budget of a code.  What BudgetIsKept says is inductive only with    *)
(* the count a state keeps of its own code: the two never differ, because  *)
(* no two states have the same code and none gets its count back.          *)
(***************************************************************************)
AttemptsAreCounted ==
    \A c \in Conn : pairing[c].code # 0 => wrong[pairing[c].code] = pairing[c].attempts

\* A code that is still to be made was never missed.
NewIsUntried == \A k \in 1..MaxCode : k > made => wrong[k] = 0

PairedIsUnlocked == \A c \in Conn : pairing[c].paired => ~pairing[c].locked /\ pairing[c].code # 0

BudgetInv ==
    AttemptsAreCounted /\ NewIsUntried /\ PairedIsUnlocked /\ \A k \in 1..MaxCode : wrong[k] <= MaxAttempts

LEMMA BudgetInit == Init => BudgetInv
    BY BoundAssumption
    DEF Init, BudgetInv, AttemptsAreCounted, NewIsUntried, PairedIsUnlocked, NoState

\* Of two connections no two states hold one code.
LEMMA CodesDiffer ==
    ASSUME IInv, NEW c \in Conn, NEW d \in Conn, c # d, pairing[c].code # 0
    PROVE  pairing[d].code # pairing[c].code
    BY DEF IInv, CodeIsOwn

\* What verify does to the count and the flags.
LEMMA VerifiedCounts ==
    ASSUME NEW s \in State, NEW code, s.paired => ~s.locked /\ s.code # 0
    PROVE  /\ Verified(s, code).paired => ~Verified(s, code).locked /\ Verified(s, code).code # 0
           /\ Verified(s, code).paired => Verified(s, code).attempts = s.attempts
           /\ Verified(s, code) # s /\ ~Verified(s, code).paired
                  => s.code # 0 /\ Verified(s, code).attempts = s.attempts + 1
<1>1. CASE s.code = 0 \/ s.paired \/ s.locked \/ IsExpired(s)
    BY <1>1 DEF Verified
<1>2. CASE ~(s.code = 0 \/ s.paired \/ s.locked \/ IsExpired(s)) /\ s.code = code
    <2>1. Verified(s, code) = [s EXCEPT !.paired = TRUE]
        BY <1>2 DEF Verified
    <2> QED
        BY <1>2, <2>1 DEF State
<1>3. CASE ~(s.code = 0 \/ s.paired \/ s.locked \/ IsExpired(s)) /\ s.code # code
    <2>1. Verified(s, code) = WrongAttempt(s)
        BY <1>3 DEF Verified
    <2>2. WrongAttempt(s).attempts = s.attempts + 1 /\ WrongAttempt(s).paired = s.paired
        BY DEF WrongAttempt, State
    <2> QED
        BY <1>3, <2>1, <2>2
<1> QED
    BY <1>1, <1>2, <1>3

LEMMA BudgetVerify ==
    ASSUME IInv, IInv', BudgetInv, NEW c \in Conn, NEW code, VerifyPairing(c, code)
    PROVE  BudgetInv'
<1> DEFINE s == pairing[c]
           t == Verified(s, code)
<1>1. /\ pairing \in [Conn -> State] /\ s \in State /\ made \in 0..MaxCode
      /\ wrong \in [1..MaxCode -> Nat]
    BY DEF IInv, TypeOK
<1>2. /\ t.code = s.code /\ t \in State
      /\ t.paired => ~t.locked /\ t.code # 0
      /\ t.paired => t.attempts = s.attempts
      /\ t # s /\ ~t.paired => s.code # 0 /\ t.attempts = s.attempts + 1
    BY <1>1, VerifiedIsState, VerifiedCounts DEF IInv, AttemptsLeft, BudgetInv, PairedIsUnlocked
<1>3. /\ pairing'[c] = t /\ made' = made
      /\ \A d \in Conn : d # c => pairing'[d] = pairing[d]
    BY <1>1 DEF VerifyPairing
<1>4. wrong' = IF t = s \/ t.paired THEN wrong ELSE [wrong EXCEPT ![s.code] = @ + 1]
    BY <1>3 DEF VerifyPairing
<1> HIDE DEF t
<1>5. s.code # 0 => s.code \in 1..made /\ s.code \in 1..MaxCode /\ wrong[s.code] = s.attempts
    BY <1>1, BoundAssumption DEF IInv, CodeIsOwn, BudgetInv, AttemptsAreCounted
<1>6. t.code # 0 => wrong'[t.code] = t.attempts
    BY <1>1, <1>2, <1>4, <1>5
<1>7. \A k \in 1..MaxCode : k # s.code => wrong'[k] = wrong[k]
    BY <1>1, <1>4
<1>8. AttemptsAreCounted'
    <2> SUFFICES ASSUME NEW d \in Conn, d # c, pairing[d].code # 0
                 PROVE  wrong'[pairing[d].code] = pairing[d].attempts
        BY <1>3, <1>6 DEF AttemptsAreCounted
    <2>1. pairing[d].code # s.code
        BY CodesDiffer
    <2>2. pairing[d].code \in 1..MaxCode
        BY <1>1, BoundAssumption DEF IInv, CodeIsOwn
    <2> QED
        BY <1>7, <2>1, <2>2 DEF BudgetInv, AttemptsAreCounted
<1>9. NewIsUntried'
    BY <1>1, <1>3, <1>4, <1>5, <1>7 DEF BudgetInv, NewIsUntried
<1>10. PairedIsUnlocked'
    BY <1>2, <1>3 DEF BudgetInv, PairedIsUnlocked
<1>11. \A k \in 1..MaxCode : wrong'[k] <= MaxAttempts
    <2>1. CASE s.code = 0
        BY <1>1, <1>2, <1>4, <2>1 DEF BudgetInv
    <2>2. CASE s.code # 0
        <3>1. t.attempts <= MaxAttempts
            BY <1>2, BoundAssumption DEF State
        <3> QED
            BY <1>2, <1>5, <1>6, <1>7, <2>2, <3>1 DEF BudgetInv
    <2> QED
        BY <2>1, <2>2
<1> QED
    BY <1>8, <1>9, <1>10, <1>11 DEF BudgetInv

LEMMA BudgetStep == ASSUME IInv, IInv', BudgetInv, [Next]_vars PROVE BudgetInv'
<1>0. /\ pairing \in [Conn -> State] /\ made \in 0..MaxCode
      /\ wrong \in [1..MaxCode -> Nat]
    BY DEF IInv, TypeOK
<1>1. ASSUME NEW c \in Conn, Connect(c) PROVE BudgetInv'
    BY <1>0, <1>1 DEF Connect, NoState, BudgetInv, AttemptsAreCounted, NewIsUntried,
       PairedIsUnlocked
<1>2. ASSUME NEW c \in Conn, RequestPairing(c) PROVE BudgetInv'
    <2>1. CASE UNCHANGED <<made, owner, pairing, prompts>>
        BY <1>2, <2>1 DEF RequestPairing, BudgetInv, AttemptsAreCounted, NewIsUntried,
           PairedIsUnlocked
    <2>2. CASE /\ made < MaxCode /\ made' = made + 1
               /\ pairing' = [pairing EXCEPT ![c] = [NoState EXCEPT !.code = made + 1, !.at = now]]
        <3> DEFINE new == [NoState EXCEPT !.code = made + 1, !.at = now]
        <3>1. new.code = made + 1 /\ new.attempts = 0 /\ ~new.paired
            BY DEF NoState
        <3> HIDE DEF new
        <3>2. /\ pairing'[c] = new /\ wrong' = wrong
              /\ \A d \in Conn : d # c => pairing'[d] = pairing[d]
            BY <1>0, <1>2, <2>2 DEF RequestPairing, new
        <3>3. made + 1 \in 1..MaxCode /\ made + 1 > made /\ wrong[made + 1] = 0
            BY <1>0, <2>2, BoundAssumption DEF BudgetInv, NewIsUntried
        <3>4. AttemptsAreCounted'
            BY <3>1, <3>2, <3>3 DEF BudgetInv, AttemptsAreCounted
        <3>5. NewIsUntried'
            BY <1>0, <2>2, <3>2, BoundAssumption DEF BudgetInv, NewIsUntried
        <3>6. PairedIsUnlocked'
            BY <3>1, <3>2 DEF BudgetInv, PairedIsUnlocked
        <3> QED
            BY <3>2, <3>4, <3>5, <3>6 DEF BudgetInv
    <2> QED
        BY <1>2, <2>1, <2>2 DEF RequestPairing
<1>3. ASSUME NEW c \in Conn, NEW code, VerifyPairing(c, code) PROVE BudgetInv'
    BY <1>3, BudgetVerify
<1>4. CASE UNCHANGED <<pairing, made, wrong>>
    BY <1>4 DEF BudgetInv, AttemptsAreCounted, NewIsUntried, PairedIsUnlocked
<1>5. \/ \E c \in Conn : Connect(c) \/ RequestPairing(c) \/ \E code \in seen \cup {0} : VerifyPairing(c, code)
      \/ UNCHANGED <<pairing, made, wrong>>
    BY DEF Next, Disconnect, Request, PollPrompt, CloseDialog, Tick, vars
<1> QED
    BY <1>1, <1>2, <1>3, <1>4, <1>5

\* Over all the requests and connections of a page, no code is missed more
\* often than its budget, and none that was pairs (pairing.rs:63-93).
THEOREM BudgetHolds == Spec => []BudgetIsKept
<1>1. IInv /\ BudgetInv => BudgetIsKept
    <2> SUFFICES ASSUME IInv, BudgetInv PROVE BudgetIsKept
        OBVIOUS
    <2>1. \A k \in 1..made : k \in 1..MaxCode
        BY BoundAssumption DEF IInv, TypeOK
    <2>2. \A c \in Conn : pairing[c].paired =>
              pairing[c].attempts < MaxAttempts /\ wrong[pairing[c].code] = pairing[c].attempts
        BY DEF IInv, AttemptsLeft, BudgetInv, PairedIsUnlocked, AttemptsAreCounted
    <2> QED
        BY <2>1, <2>2 DEF BudgetInv, BudgetIsKept
<1>2. IInv /\ IInv' /\ BudgetInv /\ [Next]_vars => BudgetInv'
    BY BudgetStep
<1> QED
    BY <1>1, <1>2, Invariance, BudgetInit, PTL DEF Spec

-----------------------------------------------------------------------------
(***************************************************************************)
(* The wallets of the stick keep the promise of Vault: the invariant of    *)
(* the store, what the promise sees, and that every step of the store is   *)
(* one of the promise's.                                                   *)
(***************************************************************************)
\* No file of a wallet is there before its id was drawn.
UnusedIsBlank == \A w \in Wallet \ used : w \notin seed /\ meta[w] = "none" /\ w \notin doomed

\* Only what is being deleted can be listed without its seed.
ListedHasSeed == \A w \in Wallet \ doomed : meta[w] # "none" => w \in seed /\ meta[w] \in Path

\* Requests for one wallet.
Single == op.do \in {"open", "export", "delete", "force"}
\* A request in service is one that was asked for, and as far as it can be; a
\* wallet that is added is added where the stick may be.
OpIsWhole ==
    /\ op.ws \subseteq used
    /\ Single => \E w \in Wallet : op.ws = {w}
    /\ step = "seeded" => Stick!Adds
    /\ step = "loaded" => Stick!Goes \/ op.do \in {"open", "delete", "force"}
    /\ step \in {"migrating", "truncated"} => op.do \in {"setup", "signIn", "force"}
    /\ step = "verified" => op.do = "force"
    /\ step = "proved" => op.do \in {"open", "delete"}
    /\ step = "removing" => op.do \in {"delete", "force"}
    /\ Stick!Adds => op.path \in Path /\ step \in {"begun", "seeded", "ok", "failed"}

\* What is added was drawn for it: nobody deletes it, nothing lists it before its
\* turn, and what is answered for is whole.
AddedIsNew ==
    Stick!Adds =>
        /\ op.ws \cap doomed = {} /\ todo \cup done \subseteq op.ws
        /\ \A w \in todo : meta[w] = "none"
        /\ done \subseteq seed \cap Stick!Listed
        /\ step = "ok" => done # {}

\* What a list has gone through and has still to go through is listed, and all that
\* is kept while the stick stays.
ReadIsHeld ==
    /\ Stick!Goes /\ step = "begun" => done = {}
    /\ Stick!Goes /\ step \in {"loaded", "ok"} =>
        /\ todo \cup done \subseteq Stick!Listed
        /\ steady => (seed \cap Stick!Listed) \ doomed \subseteq todo \cup done
        /\ step = "ok" => todo = {}

\* The wallet of a request was found where it is answered for, and what removes it
\* was authorised.
TargetIsThere ==
    Single =>
        /\ step = "loaded" => Stick!Target \in Stick!Listed
        /\ step = "proved" => Stick!Target \in seed \cap Stick!Listed
        /\ (step = "proved" /\ op.do = "delete") \/ step = "removing" => Stick!Target \in doomed
        /\ step = "ok" =>
              /\ done = op.ws
              /\ op.do \in {"open", "export"} => Stick!Target \in seed \cap Stick!Listed
              /\ op.do \in {"delete", "force"} =>
                   Stick!Target \in doomed /\ (steady => ~Stick!Left(Stick!Target))

\* While the stick stays it can be reached.
SteadyReaches == steady => Stick!Reach /\ at \in Path
\* An app that was started knows where the stick was; one that was not serves
\* nothing.
UsbIsKnown == IF page = "starting" THEN step = "idle" ELSE usb \in Path

StoreInv ==
    /\ UnusedIsBlank /\ ListedHasSeed /\ OpIsWhole /\ AddedIsNew /\ ReadIsHeld
    /\ TargetIsThere /\ SteadyReaches /\ UsbIsKnown

-----------------------------------------------------------------------------
\* A request for one wallet has a wallet.
LEMMA TargetIs ==
  ASSUME OpIsWhole, Single
  PROVE  Stick!Target \in Wallet /\ op.ws = {Stick!Target}
<1>1. PICK w \in Wallet : op.ws = {w}
  BY DEF OpIsWhole
<1> QED
  BY <1>1 DEF Stick!Target

\* The fields of a request.
LEMMA OpFields ==
  ASSUME NEW o \in Stick!Op
  PROVE  /\ o.do \in {"none", "add", "bundle", "list", "open", "export", "exportAll", "delete",
                      "force", "check", "setup", "signIn"}
         /\ o.ws \subseteq Wallet /\ o.pw \in Password \cup {"none"} /\ o.right \in BOOLEAN
         /\ o.path \in Path \cup {"out"}
  BY DEF Stick!Op

\* A request r is asked for when nothing is in service; a wallet is drawn for what
\* adds one.
Starts(r) ==
    /\ step = "idle" /\ page' = page /\ usb' = usb
    /\ op' = r /\ step' = "begun" /\ done' = {}
    /\ todo' = IF r.do \in {"add", "bundle"} THEN r.ws ELSE {}
    /\ steady' = (at = r.path)
    /\ UNCHANGED <<at, seed, meta, config, legacy, page, usb, doomed>>
    /\ r \in Stick!Op /\ r.path \in Path
    /\ used' \subseteq Wallet /\ used \subseteq used'
    /\ r.ws \subseteq used'
    /\ r.do \in {"open", "export", "delete", "force"} => \E w \in Wallet : r.ws = {w}
    /\ r.do \in {"add", "bundle"} => r.ws \cap used = {}

\* The actions that ask.
Asks ==
    \/ Stick!CheckFirstTime
    \/ \E pw \in Password : Stick!HandleInitialize(pw) \/ Stick!HandleUnlock(pw)
    \/ \E p \in Path :
        \/ \E do \in {"list", "exportAll"} : Stick!Ask(do, p)
        \/ \E do \in {"add", "bundle"}, ws \in SUBSET Wallet : Stick!Draw(do, ws, p)
        \/ \E w \in Wallet, right \in BOOLEAN :
            \/ \E do \in {"open", "export", "delete"} : Stick!AskOf(do, w, right, p)
            \/ \E pw \in Password : Stick!ForceDelete(w, pw, right, p)

\* Each of them asks for a request that is whole.
LEMMA AskFacts ==
  ASSUME Stick!TypeOK, UsbIsKnown, Asks
  PROVE  \E r \in Stick!Op : Starts(r)
<1> USE DEF Stick!TypeOK, Stick!Begin, Stick!files, Stick!screen
<1>0. Stick!NoOp \in Stick!Op
  BY DEF Stick!NoOp, Stick!Op
<1>1. CASE Stick!CheckFirstTime
  <2> DEFINE r == [Stick!NoOp EXCEPT !.do = "check", !.path = usb]
  <2>1. r \in Stick!Op /\ r.do = "check" /\ r.ws = {} /\ r.path \in Path
    BY <1>1 DEF Stick!NoOp, Stick!Op, Stick!CheckFirstTime, UsbIsKnown
  <2>2. Stick!Begin(r) /\ used' = used
    BY <1>1 DEF Stick!CheckFirstTime
  <2> HIDE DEF r
  <2>3. Starts(r)
    BY <2>1, <2>2 DEF Starts
  <2> QED
    BY <2>1, <2>3
<1>2. ASSUME NEW pw \in Password, Stick!HandleInitialize(pw) \/ Stick!HandleUnlock(pw)
      PROVE  \E r \in Stick!Op : Starts(r)
  <2>1. PICK do \in {"setup", "signIn"} :
           Stick!Begin([Stick!NoOp EXCEPT !.do = do, !.pw = pw, !.path = usb]) /\ used' = used
    BY <1>2 DEF Stick!HandleInitialize, Stick!HandleUnlock
  <2> DEFINE r == [Stick!NoOp EXCEPT !.do = do, !.pw = pw, !.path = usb]
  <2>2. r \in Stick!Op /\ r.do = do /\ r.ws = {} /\ r.path \in Path
    BY <1>2 DEF Stick!NoOp, Stick!Op, Stick!HandleInitialize, Stick!HandleUnlock, UsbIsKnown
  <2>3. Stick!Begin(r)
    BY <2>1
  <2> HIDE DEF r
  <2>4. Starts(r)
    BY <2>1, <2>2, <2>3 DEF Starts
  <2> QED
    BY <2>2, <2>4
<1>3. ASSUME NEW p \in Path, NEW do \in {"list", "exportAll"}, Stick!Ask(do, p)
      PROVE  \E r \in Stick!Op : Starts(r)
  <2> DEFINE r == [Stick!NoOp EXCEPT !.do = do, !.path = p]
  <2>1. r \in Stick!Op /\ r.do = do /\ r.ws = {} /\ r.path \in Path
    BY DEF Stick!NoOp, Stick!Op
  <2>2. Stick!Begin(r) /\ used' = used
    BY <1>3 DEF Stick!Ask
  <2> HIDE DEF r
  <2>3. Starts(r)
    BY <2>1, <2>2 DEF Starts
  <2> QED
    BY <2>1, <2>3
<1>4. ASSUME NEW p \in Path, NEW do \in {"add", "bundle"}, NEW ws \in SUBSET Wallet,
             Stick!Draw(do, ws, p)
      PROVE  \E r \in Stick!Op : Starts(r)
  <2> DEFINE r == [Stick!NoOp EXCEPT !.do = do, !.ws = ws, !.path = p]
  <2>1. r \in Stick!Op /\ r.do = do /\ r.ws = ws /\ r.path = p
    BY DEF Stick!NoOp, Stick!Op
  <2>2. Stick!Begin(r) /\ used' = used \cup ws /\ ws \cap used = {}
    BY <1>4 DEF Stick!Draw
  <2> HIDE DEF r
  <2>3. Starts(r)
    BY <2>1, <2>2 DEF Starts
  <2> QED
    BY <2>1, <2>3
<1>5. ASSUME NEW p \in Path, NEW w \in Wallet, NEW right \in BOOLEAN,
             NEW do \in {"open", "export", "delete"}, Stick!AskOf(do, w, right, p)
      PROVE  \E r \in Stick!Op : Starts(r)
  <2> DEFINE r == [Stick!NoOp EXCEPT !.do = do, !.ws = {w}, !.right = right, !.path = p]
  <2>1. r \in Stick!Op /\ r.do = do /\ r.ws = {w} /\ r.path \in Path
    BY DEF Stick!NoOp, Stick!Op
  <2>2. Stick!Begin(r) /\ used' = used /\ w \in used
    BY <1>5 DEF Stick!AskOf
  <2> HIDE DEF r
  <2>3. Starts(r)
    BY <2>1, <2>2 DEF Starts
  <2> QED
    BY <2>1, <2>3
<1>6. ASSUME NEW p \in Path, NEW w \in Wallet, NEW right \in BOOLEAN, NEW pw \in Password,
             Stick!ForceDelete(w, pw, right, p)
      PROVE  \E r \in Stick!Op : Starts(r)
  <2> DEFINE r == [Stick!NoOp EXCEPT !.do = "force", !.ws = {w}, !.pw = pw, !.right = right,
                                     !.path = p]
  <2>1. r \in Stick!Op /\ r.do = "force" /\ r.ws = {w} /\ r.path \in Path
    BY DEF Stick!NoOp, Stick!Op
  <2>2. Stick!Begin(r) /\ used' = used /\ w \in used
    BY <1>6 DEF Stick!ForceDelete
  <2> HIDE DEF r
  <2>3. Starts(r)
    BY <2>1, <2>2 DEF Starts
  <2> QED
    BY <2>1, <2>3
<1> QED
  BY <1>1, <1>2, <1>3, <1>4, <1>5, <1>6 DEF Asks

-----------------------------------------------------------------------------
\* At first nothing is there and nothing in service.
LEMMA TypeInit == Stick!Init => Stick!TypeOK
<1> SUFFICES ASSUME Stick!Init PROVE Stick!TypeOK
  OBVIOUS
<1>1. op \in Stick!Op /\ step \in Stick!Step
  BY DEF Stick!Init, Stick!NoOp, Stick!Op, Stick!Step
<1>2. meta \in [Wallet -> Path \cup {"none", "torn"}]
  BY DEF Stick!Init
<1> QED
  BY <1>1, <1>2 DEF Stick!Init, Stick!TypeOK

LEMMA StoreInvInit == Stick!Init => StoreInv
<1> SUFFICES ASSUME Stick!Init PROVE StoreInv
  OBVIOUS
<1>1. op = Stick!NoOp /\ step = "idle" /\ todo = {} /\ done = {} /\ seed = {} /\ doomed = {}
      /\ used = {} /\ meta = [w \in Wallet |-> "none"] /\ ~steady
  BY DEF Stick!Init
<1>2. op.do = "none" /\ op.ws = {}
  BY <1>1 DEF Stick!NoOp
<1>3. UnusedIsBlank /\ ListedHasSeed /\ SteadyReaches /\ UsbIsKnown
  BY <1>1 DEF Stick!Init, UsbIsKnown, UnusedIsBlank, ListedHasSeed, SteadyReaches
<1>4. OpIsWhole /\ AddedIsNew /\ ReadIsHeld /\ TargetIsThere
  BY <1>1, <1>2 DEF OpIsWhole, AddedIsNew, ReadIsHeld, TargetIsThere, Single, Stick!Adds,
     Stick!Goes
<1> QED
  BY <1>3, <1>4 DEF StoreInv

\* A wallet that is added is listed when its seed is there, and only then.
LEMMA AddStep ==
  ASSUME Stick!TypeOK, StoreInv, NEW w \in Wallet, Stick!Add(w), Stick!Elsewhere
  PROVE  Stick!TypeOK' /\ StoreInv'
<1> USE DEF Stick!Elsewhere, Stick!files, Stick!screen, Stick!GoTo, Stick!Step
<1>0. op' = op /\ at' = at /\ page' = page /\ usb' = usb /\ used' = used /\ steady' = steady
      /\ doomed' = doomed /\ config' = config /\ legacy' = legacy
  BY DEF Stick!Add, Stick!WriteSeed, Stick!WriteMetadata, Stick!WriteFails
<1>1. Stick!Adds /\ ~Single /\ ~Stick!Goes /\ w \in todo /\ step \in {"begun", "seeded"}
  BY DEF Stick!Add, Stick!WriteSeed, Stick!WriteMetadata, Stick!WriteFails, Stick!Adds,
     Single, Stick!Goes
<1>2. w \in used /\ w \notin doomed /\ op.path \in Path /\ w \in op.ws
  BY <1>1 DEF StoreInv, AddedIsNew, OpIsWhole
<1>3. /\ seed' \subseteq Wallet /\ seed \subseteq seed' /\ seed' \subseteq seed \cup {w}
      /\ meta' \in [Wallet -> Path \cup {"none", "torn"}]
      /\ \A x \in Wallet : x # w => meta'[x] = meta[x]
      /\ meta'[w] = meta[w] \/ (meta'[w] = op.path /\ w \in seed' /\ todo' = todo \ {w})
      /\ step' \in {"begun", "seeded", "ok", "failed"}
      /\ todo' \subseteq todo /\ done' \subseteq done \cup {w} /\ done \subseteq done'
      /\ w \in done' => w \in done \/ (meta'[w] = op.path /\ w \in seed')
      /\ step' = "ok" => done' # {}
  <2>1. CASE Stick!WriteSeed(w)
    BY <1>1, <2>1 DEF Stick!WriteSeed, Stick!TypeOK
  <2>2. CASE Stick!WriteMetadata(w)
    <3>1. /\ w \in seed /\ meta' = [meta EXCEPT ![w] = op.path] /\ seed' = seed
          /\ todo' = todo \ {w} /\ done' = done \cup {w} /\ step' \in {"begun", "ok"}
      BY <2>2 DEF Stick!WriteMetadata
    <3>2. meta \in [Wallet -> Path \cup {"none", "torn"}] /\ seed \subseteq Wallet
      BY DEF Stick!TypeOK
    <3>3. /\ meta' \in [Wallet -> Path \cup {"none", "torn"}]
          /\ \A x \in Wallet : x # w => meta'[x] = meta[x]
          /\ meta'[w] = op.path
      BY <1>2, <3>1, <3>2
    <3> QED
      BY <3>1, <3>2, <3>3
  <2>3. CASE Stick!WriteFails(w)
    <3>1. seed' = seed /\ meta' = meta /\ todo' = todo \ {w} /\ done' = done
      BY <2>3 DEF Stick!WriteFails
    <3>2. step' \in {"begun", "ok", "failed"}
      BY <2>3 DEF Stick!WriteFails
    <3>3. step' = "ok" => done # {}
      BY <2>3 DEF Stick!WriteFails
    <3>4. meta \in [Wallet -> Path \cup {"none", "torn"}] /\ seed \subseteq Wallet
      BY DEF Stick!TypeOK
    <3> QED
      BY <3>1, <3>2, <3>3, <3>4
  <2> QED
    BY <2>1, <2>2, <2>3 DEF Stick!Add
<1>4. Stick!Adds' /\ ~Single' /\ ~Stick!Goes'
  BY <1>0, <1>1 DEF Stick!Adds, Single, Stick!Goes
<1>5. Stick!TypeOK'
  BY <1>0, <1>2, <1>3 DEF Stick!TypeOK
<1>6. UnusedIsBlank'
  BY <1>0, <1>2, <1>3 DEF StoreInv, UnusedIsBlank
<1>7. ListedHasSeed'
  BY <1>0, <1>2, <1>3, PathAssumption DEF StoreInv, ListedHasSeed
<1>8. OpIsWhole'
  BY <1>0, <1>2, <1>3, <1>4 DEF StoreInv, OpIsWhole
<1>9. Stick!Listed \subseteq Stick!Listed'
  BY <1>2, <1>3 DEF Stick!Listed
<1>10. AddedIsNew'
  <2>1. /\ op.ws \cap doomed = {} /\ todo \cup done \subseteq op.ws
        /\ \A x \in todo : meta[x] = "none"
        /\ done \subseteq seed \cap Stick!Listed
    BY <1>1 DEF StoreInv, AddedIsNew
  <2>2. todo' \cup done' \subseteq op.ws
    BY <1>2, <1>3, <2>1
  <2>3. \A x \in todo' : meta'[x] = "none"
    BY <1>3, <2>1 DEF Stick!TypeOK
  <2>4. done' \subseteq seed' \cap Stick!Listed'
    BY <1>2, <1>3, <1>9, <2>1 DEF Stick!Listed
  <2> QED
    BY <1>0, <1>3, <2>1, <2>2, <2>3, <2>4 DEF AddedIsNew
<1>11. ReadIsHeld' /\ TargetIsThere'
  BY <1>4 DEF ReadIsHeld, TargetIsThere
<1>12. SteadyReaches' /\ UsbIsKnown'
  BY <1>0, <1>1 DEF StoreInv, SteadyReaches, Stick!Reach, UsbIsKnown
<1> QED
  BY <1>5, <1>6, <1>7, <1>8, <1>10, <1>11, <1>12 DEF StoreInv

\* What no file of a wallet is touched by.
LEMMA FilesStay ==
  ASSUME Stick!TypeOK, StoreInv, UNCHANGED <<seed, meta, doomed>>, used \subseteq used'
  PROVE  UnusedIsBlank' /\ ListedHasSeed' /\ Stick!Listed' = Stick!Listed
         /\ \A w : Stick!Left(w)' = Stick!Left(w)
<1>1. UnusedIsBlank'
  BY DEF StoreInv, UnusedIsBlank
<1>2. ListedHasSeed'
  BY DEF StoreInv, ListedHasSeed
<1>4. Stick!Listed' = Stick!Listed /\ \A w : Stick!Left(w)' = Stick!Left(w)
  BY DEF Stick!Listed, Stick!Left
<1> QED
  BY <1>1, <1>2, <1>4

\* A list and a backup of all take what is listed, and drop what they cannot read
\* only if the stick has gone.
LEMMA ReadStep ==
  ASSUME Stick!TypeOK, StoreInv, 
         Stick!ReadDir \/ Stick!ReadAll \/ \E w \in Wallet : Stick!ReadNext(w), Stick!Elsewhere
  PROVE  Stick!TypeOK' /\ StoreInv'
<1> USE DEF Stick!Elsewhere, Stick!files, Stick!screen, Stick!GoTo, Stick!Step
<1>0. op' = op /\ at' = at /\ page' = page /\ usb' = usb /\ used' = used /\ steady' = steady
      /\ UNCHANGED <<seed, meta, doomed, config, legacy>>
  BY DEF Stick!ReadDir, Stick!ReadAll, Stick!ReadNext
<1>1. Stick!Goes /\ ~Single /\ ~Stick!Adds
  BY DEF Stick!ReadDir, Stick!ReadAll, Stick!ReadNext, Stick!Goes, Single, Stick!Adds
<1>2. Stick!Goes' /\ ~Single' /\ ~Stick!Adds'
  BY <1>0, <1>1 DEF Stick!Goes, Single, Stick!Adds
<1>s. step \in {"begun", "loaded"}
  BY DEF Stick!ReadDir, Stick!ReadAll, Stick!ReadNext
<1>3. Stick!Reach' = Stick!Reach /\ (steady => Stick!Reach) /\ SteadyReaches' /\ UsbIsKnown'
  BY <1>0, <1>s DEF Stick!Reach, StoreInv, SteadyReaches, UsbIsKnown
<1>4. UnusedIsBlank' /\ ListedHasSeed' /\ Stick!Listed' = Stick!Listed
  BY <1>0, <1>3, FilesStay
<1>5. OpIsWhole' /\ AddedIsNew' /\ TargetIsThere' /\ Stick!TypeOK' /\ ReadIsHeld'
  <2> USE DEF OpIsWhole, AddedIsNew, TargetIsThere
  <2>0. op.ws \subseteq used /\ Stick!Listed \subseteq Wallet
    BY DEF StoreInv, Stick!Listed
  <2>1. CASE Stick!ReadDir
    <3>1. /\ step = "begun" /\ step' = "loaded" /\ done' = done
          /\ todo' = IF Stick!Reach THEN Stick!Listed ELSE {}
      BY <2>1 DEF Stick!ReadDir
    <3>2. done = {}
      BY <1>1, <3>1 DEF StoreInv, ReadIsHeld
    <3> QED
      BY <1>0, <1>1, <1>2, <1>3, <1>4, <2>0, <3>1, <3>2 DEF ReadIsHeld, Stick!TypeOK
  <2>2. CASE Stick!ReadAll
    <3>1. step = "loaded" /\ todo = {} /\ todo' = todo /\ done' = done /\ step' \in {"ok", "failed"}
      BY <2>2 DEF Stick!ReadAll
    <3> QED
      BY <1>0, <1>1, <1>2, <1>4, <2>0, <3>1 DEF ReadIsHeld, Stick!TypeOK, StoreInv
  <2>3. ASSUME NEW w \in Wallet, Stick!ReadNext(w)
        PROVE  OpIsWhole' /\ AddedIsNew' /\ TargetIsThere' /\ Stick!TypeOK' /\ ReadIsHeld'
    <3>1. /\ step = "loaded" /\ w \in todo /\ todo' = todo \ {w} /\ step' = step
          /\ done' = IF Stick!Reach /\ (op.do = "list" \/ w \in seed) THEN done \cup {w} ELSE done
      BY <2>3 DEF Stick!ReadNext
    <3>2. /\ todo \cup done \subseteq Stick!Listed
          /\ steady => (seed \cap Stick!Listed) \ doomed \subseteq todo \cup done
      BY <1>1, <3>1 DEF StoreInv, ReadIsHeld
    <3>3. /\ todo' \cup done' \subseteq Stick!Listed
          /\ steady => (seed \cap Stick!Listed) \ doomed \subseteq todo' \cup done'
      BY <1>3, <3>1, <3>2
    <3>4. ReadIsHeld'
      BY <1>0, <1>4, <3>1, <3>3 DEF ReadIsHeld
    <3>5. Stick!TypeOK'
      BY <1>0, <3>1 DEF Stick!TypeOK
    <3> QED
      BY <1>0, <1>1, <1>2, <2>0, <3>1, <3>4, <3>5
  <2> QED
    BY <2>1, <2>2, <2>3
<1> QED
  BY <1>3, <1>4, <1>5 DEF StoreInv

\* A wallet is found before it is opened, exported or doomed, and its directory is
\* found empty before it is gone.
LEMMA TargetStep ==
  ASSUME Stick!TypeOK, StoreInv, Stick!Elsewhere,
         Stick!ExportBackup \/ Stick!LoadWallet \/ Stick!Prove \/ Stick!Touch \/ Stick!RemoveEnds
  PROVE  Stick!TypeOK' /\ StoreInv'
<1> USE DEF Stick!Elsewhere, Stick!files, Stick!screen, Stick!GoTo, Stick!Step
<1>0. op' = op /\ at' = at /\ page' = page /\ usb' = usb /\ used' = used /\ steady' = steady
      /\ UNCHANGED <<seed, meta, config, legacy, todo>>
  BY DEF Stick!ExportBackup, Stick!LoadWallet, Stick!Prove, Stick!Touch, Stick!RemoveEnds
<1>1. Single /\ ~Stick!Goes /\ ~Stick!Adds
  BY DEF Stick!ExportBackup, Stick!LoadWallet, Stick!Prove, Stick!Touch, Stick!RemoveEnds,
     Stick!Goes, Single, Stick!Adds, StoreInv, OpIsWhole
<1>2. Single' /\ ~Stick!Goes' /\ ~Stick!Adds' /\ Stick!Target' = Stick!Target
  BY <1>0, <1>1 DEF Stick!Goes, Single, Stick!Adds, Stick!Target
<1>3. Stick!Target \in Wallet /\ op.ws = {Stick!Target} /\ op.ws \subseteq used
  BY <1>1, TargetIs DEF StoreInv, OpIsWhole
<1>4. /\ Stick!Listed' = Stick!Listed /\ Stick!Reach' = Stick!Reach
      /\ (Stick!Left(Stick!Target)' = Stick!Left(Stick!Target))
  BY <1>0, <1>2 DEF Stick!Listed, Stick!Left, Stick!Reach
<1>s. step # "idle"
  BY DEF Stick!ExportBackup, Stick!LoadWallet, Stick!Prove, Stick!Touch, Stick!RemoveEnds
<1>5. SteadyReaches' /\ UsbIsKnown' /\ ReadIsHeld' /\ AddedIsNew'
  BY <1>0, <1>s, <1>2, <1>4 DEF UsbIsKnown, StoreInv, SteadyReaches, ReadIsHeld, AddedIsNew
<1>6. doomed \subseteq doomed' /\ doomed' \subseteq doomed \cup {Stick!Target}
  BY <1>3 DEF Stick!ExportBackup, Stick!LoadWallet, Stick!Prove, Stick!Touch, Stick!RemoveEnds
<1>7. UnusedIsBlank' /\ ListedHasSeed'
  BY <1>0, <1>3, <1>6 DEF StoreInv, UnusedIsBlank, ListedHasSeed
<1>8. Stick!TypeOK' /\ OpIsWhole' /\ TargetIsThere'
  <2>0. \E x \in Wallet : op'.ws = {x}
    BY <1>0, <1>3
  <2>1. CASE Stick!ExportBackup
    BY <1>0, <1>1, <1>2, <1>3, <1>4, <2>0, <2>1 DEF Stick!ExportBackup, Stick!TypeOK,
       StoreInv, OpIsWhole, TargetIsThere
  <2>2. CASE Stick!LoadWallet
    BY <1>0, <1>1, <1>2, <1>3, <1>4, <2>0, <2>2 DEF Stick!LoadWallet, Stick!TypeOK, StoreInv,
       OpIsWhole, TargetIsThere
  <2>3. CASE Stick!Prove
    BY <1>0, <1>1, <1>2, <1>3, <1>4, <2>0, <2>3 DEF Stick!Prove, Stick!TypeOK, StoreInv,
       OpIsWhole, TargetIsThere
  <2>4. CASE Stick!Touch
    BY <1>0, <1>1, <1>2, <1>3, <1>4, <2>0, <2>4 DEF Stick!Touch, Stick!TypeOK, StoreInv,
       OpIsWhole, TargetIsThere
  <2>5. CASE Stick!RemoveEnds
    BY <1>0, <1>1, <1>2, <1>3, <1>4, <2>0, <2>5 DEF Stick!RemoveEnds, Stick!TypeOK, StoreInv,
       OpIsWhole, TargetIsThere, SteadyReaches
  <2> QED
    BY <2>1, <2>2, <2>3, <2>4, <2>5
<1> QED
  BY <1>5, <1>7, <1>8 DEF StoreInv

\* Only what is doomed loses a file.
LEMMA RemoveStep ==
  ASSUME Stick!TypeOK, StoreInv, Stick!RemoveFile, Stick!Elsewhere
  PROVE  Stick!TypeOK' /\ StoreInv'
<1> USE DEF Stick!Elsewhere, Stick!files, Stick!screen, Stick!request
<1>0. op' = op /\ at' = at /\ page' = page /\ usb' = usb /\ used' = used /\ steady' = steady
      /\ UNCHANGED <<step, todo, done, config, legacy, doomed>> /\ step = "removing"
  BY DEF Stick!RemoveFile
<1>1. Single /\ ~Stick!Goes /\ ~Stick!Adds
  BY <1>0 DEF Stick!Goes, Single, Stick!Adds, StoreInv, OpIsWhole
<1>2. Single' /\ ~Stick!Goes' /\ ~Stick!Adds'
  BY <1>0, <1>1 DEF Stick!Goes, Single, Stick!Adds
<1>3. /\ Stick!Target \in Wallet /\ op.ws = {Stick!Target} /\ Stick!Target \in doomed
      /\ Stick!Target' = Stick!Target
  BY <1>0, <1>1, TargetIs DEF StoreInv, TargetIsThere, Stick!Target
<1>4. /\ seed' \subseteq seed /\ seed \subseteq seed' \cup {Stick!Target}
      /\ meta' \in [Wallet -> Path \cup {"none", "torn"}]
      /\ \A x \in Wallet : x # Stick!Target => meta'[x] = meta[x]
      /\ meta'[Stick!Target] = meta[Stick!Target] \/ meta'[Stick!Target] = "none"
  BY <1>3 DEF Stick!RemoveFile, Stick!TypeOK
<1>5. Stick!TypeOK'
  BY <1>0, <1>4 DEF Stick!TypeOK
<1>6. UnusedIsBlank' /\ ListedHasSeed'
  BY <1>0, <1>3, <1>4 DEF StoreInv, UnusedIsBlank, ListedHasSeed
<1>7. OpIsWhole' /\ TargetIsThere'
  BY <1>0, <1>1, <1>2, <1>3 DEF StoreInv, OpIsWhole, TargetIsThere
<1>8. AddedIsNew' /\ ReadIsHeld'
  BY <1>2 DEF AddedIsNew, ReadIsHeld
<1>9. SteadyReaches' /\ UsbIsKnown'
  BY <1>0 DEF StoreInv, SteadyReaches, Stick!Reach, UsbIsKnown
<1> QED
  BY <1>5, <1>6, <1>7, <1>8, <1>9 DEF StoreInv

\* The configuration is none of a wallet's files; nothing is promised about it.
Configures == Stick!Truncate \/ Stick!Fill \/ Stick!SaveFails \/ Stick!LoadAppConfig

LEMMA ConfigStep ==
  ASSUME Stick!TypeOK, StoreInv, (Configures /\ Stick!Elsewhere) \/ Stick!IsFirstTimeSetup
  PROVE  Stick!TypeOK' /\ StoreInv' /\ (step' # "ok" \/ Stick!Kind' = "none")
<1> USE DEF Stick!Elsewhere, Stick!files, Stick!screen, Stick!GoTo, Stick!Step, Configures
<1>0. /\ op' = op /\ at' = at /\ usb' = usb /\ used' = used /\ steady' = steady
      /\ UNCHANGED <<todo, done, seed, meta, doomed>>
      /\ op.do \in {"setup", "signIn", "force", "check"}
  BY DEF Stick!Truncate, Stick!Fill, Stick!SaveFails, Stick!LoadAppConfig,
     Stick!IsFirstTimeSetup, StoreInv, OpIsWhole
<1>1. /\ step' \in {"truncated", "verified", "ok", "failed", "migrating"}
      /\ step' = "verified" => op.do = "force"
      /\ step' = "ok" => op.do # "force"
      /\ step' \in {"truncated", "migrating"} => op.do # "check"
  BY DEF Stick!Truncate, Stick!Fill, Stick!SaveFails, Stick!LoadAppConfig,
     Stick!IsFirstTimeSetup, StoreInv, OpIsWhole, Stick!AfterSave
<1>2. /\ config' \in Password \cup {"none", "torn"} /\ legacy' \in BOOLEAN
      /\ page' \in {"starting", "checking", "setup", "unlock", "home"}
  BY OpFields DEF Stick!Truncate, Stick!Fill, Stick!SaveFails, Stick!LoadAppConfig,
     Stick!IsFirstTimeSetup, Stick!TypeOK
<1>3. Stick!TypeOK'
  BY <1>0, <1>1, <1>2 DEF Stick!TypeOK
<1>4. /\ ~Stick!Goes /\ ~Stick!Adds /\ ~Stick!Goes' /\ ~Stick!Adds'
      /\ (Single' <=> Single) /\ (Single => op.do = "force")
  BY <1>0 DEF Stick!Goes, Stick!Adds, Single
<1>5. UnusedIsBlank' /\ ListedHasSeed'
  BY <1>0, FilesStay
<1>9. SteadyReaches' /\ UsbIsKnown'
  <2>1. page # "starting" /\ usb \in Path
    BY DEF Stick!Truncate, Stick!Fill, Stick!SaveFails, Stick!LoadAppConfig,
       Stick!IsFirstTimeSetup, StoreInv, UsbIsKnown
  <2>2. page' # "starting"
    BY <2>1 DEF Stick!Truncate, Stick!Fill, Stick!SaveFails, Stick!LoadAppConfig,
       Stick!IsFirstTimeSetup
  <2> QED
    BY <1>0, <2>1, <2>2 DEF StoreInv, SteadyReaches, Stick!Reach, UsbIsKnown
<1>6. OpIsWhole'
  BY <1>0, <1>1, <1>4 DEF StoreInv, OpIsWhole
<1>7. AddedIsNew' /\ ReadIsHeld' /\ TargetIsThere'
  BY <1>0, <1>1, <1>4 DEF AddedIsNew, ReadIsHeld, TargetIsThere
<1>8. step' = "ok" => Stick!Kind' = "none"
  BY <1>0, <1>1 DEF Stick!Kind
<1> QED
  BY <1>3, <1>5, <1>6, <1>7, <1>8, <1>9 DEF StoreInv

\* A request starts with nothing done.
LEMMA AsksStep ==
  ASSUME Stick!TypeOK, StoreInv, Asks
  PROVE  Stick!TypeOK' /\ StoreInv' /\ UNCHANGED <<seed, meta, doomed>> /\ step' = "begun"
<1>1. PICK r \in Stick!Op : Starts(r)
  BY AskFacts DEF StoreInv
<1> USE DEF Starts
<1>2. Stick!TypeOK'
  BY <1>1, OpFields DEF Stick!TypeOK, Stick!Step
<1>3. UnusedIsBlank' /\ ListedHasSeed'
  BY <1>1, FilesStay
<1>s. page # "starting"
  BY DEF Asks, Stick!CheckFirstTime, Stick!HandleInitialize, Stick!HandleUnlock, Stick!Ask,
     Stick!Draw, Stick!AskOf, Stick!ForceDelete
<1>7. SteadyReaches' /\ UsbIsKnown'
  BY <1>1, <1>s DEF StoreInv, SteadyReaches, Stick!Reach, UsbIsKnown
<1>4. OpIsWhole'
  BY <1>1 DEF OpIsWhole, Single, Stick!Adds
<1>5. AddedIsNew'
  <2> SUFFICES ASSUME Stick!Adds' PROVE AddedIsNew'
    BY DEF AddedIsNew
  <2>1. r.ws \cap used = {} /\ r.ws \subseteq Wallet /\ todo' = r.ws /\ done' = {}
    BY <1>1, OpFields DEF Stick!Adds
  <2>2. \A w \in r.ws : meta[w] = "none" /\ w \notin doomed
    BY <2>1 DEF StoreInv, UnusedIsBlank
  <2> QED
    BY <1>1, <2>1, <2>2 DEF AddedIsNew
<1>6. ReadIsHeld' /\ TargetIsThere'
  BY <1>1 DEF ReadIsHeld, TargetIsThere
<1> QED
  BY <1>1, <1>2, <1>3, <1>4, <1>5, <1>6, <1>7 DEF StoreInv

\* The rest: no file is touched and nothing goes on.
Rests ==
    \/ Stick!Return \/ Stick!Lock \/ Stick!Pull \/ Stick!Die \/ Stick!Start
    \/ (\E p \in Path : Stick!Plug(p)) \/ UNCHANGED Stick!vars

LEMMA RestsStep ==
  ASSUME Stick!TypeOK, StoreInv, Rests
  PROVE  Stick!TypeOK' /\ StoreInv' /\ UNCHANGED <<seed, meta, doomed>>
<1> USE DEF Rests, Stick!files, Stick!screen, Stick!request, Stick!vars
<1>1. UNCHANGED <<seed, meta, doomed, used, config, legacy>>
  BY DEF Stick!Return, Stick!Lock, Stick!Pull, Stick!Die, Stick!Start, Stick!Plug
<1>a. Stick!NoOp \in Stick!Op /\ Stick!NoOp.do = "none" /\ Stick!NoOp.ws = {}
  BY DEF Stick!NoOp, Stick!Op
<1>2. /\ at' \in Path \cup {"out"} /\ usb' \in Path \cup {"out"}
      /\ page' \in {"starting", "checking", "setup", "unlock", "home"}
      /\ steady' \in BOOLEAN
  BY DEF Stick!Return, Stick!Lock, Stick!Pull, Stick!Die, Stick!Start, Stick!Plug, Stick!TypeOK
<1>3. \/ /\ step' = step /\ op' = op /\ todo' = todo /\ done' = done
         /\ steady' => steady
      \/ /\ step' \in {"idle", "begun"} /\ todo' = {} /\ done' = {}
         /\ op' \in Stick!Op /\ op'.ws \subseteq used /\ op'.do \in {"none", "signIn"}
  <2>1. CASE Stick!Return
    <3>1. CASE op.do = "setup" /\ step = "ok"
      <4>1. op' = [op EXCEPT !.do = "signIn"] /\ op \in Stick!Op
        BY <2>1, <3>1 DEF Stick!Return, Stick!TypeOK
      <4>2. op' \in Stick!Op /\ op'.do = "signIn" /\ op'.ws = op.ws /\ op'.path = op.path
        BY <4>1 DEF Stick!Op
      <4> QED
        BY <2>1, <3>1, <4>2 DEF Stick!Return, StoreInv, OpIsWhole
    <3>2. CASE ~(op.do = "setup" /\ step = "ok")
      BY <1>a, <2>1, <3>2 DEF Stick!Return
    <3> QED
      BY <3>1, <3>2
  <2>2. CASE Stick!Die
    BY <1>a, <2>2 DEF Stick!Die
  <2>3. CASE Stick!Lock \/ Stick!Start \/ UNCHANGED Stick!vars
    BY <2>3 DEF Stick!Lock, Stick!Start
  <2>4. CASE Stick!Pull
    BY <2>4 DEF Stick!Pull
  <2>5. ASSUME NEW p \in Path, Stick!Plug(p) PROVE <1>3!1
    <3>1. ~steady
      BY <2>5, PathAssumption DEF Stick!Plug, StoreInv, SteadyReaches, Stick!Reach
    <3> QED
      BY <2>5, <3>1 DEF Stick!Plug
  <2> QED
    BY <2>1, <2>2, <2>3, <2>4, <2>5
<1>4. SteadyReaches' /\ UsbIsKnown'
  <2> USE DEF StoreInv, SteadyReaches, Stick!Reach, UsbIsKnown
  <2>1. CASE Stick!Return
    <3>1. step # "idle" /\ page # "starting" /\ page' # "starting" /\ usb' = usb /\ at' = at
      BY <2>1 DEF Stick!Return
    <3>2. UsbIsKnown'
      BY <3>1
    <3>3. CASE op.do = "setup" /\ step = "ok"
      <4>1. op' = [op EXCEPT !.do = "signIn"] /\ op \in Stick!Op /\ (steady' => steady)
        BY <2>1, <3>3 DEF Stick!Return, Stick!TypeOK
      <4>2. op'.path = op.path
        BY <4>1 DEF Stick!Op
      <4> QED
        BY <3>1, <3>2, <4>1, <4>2
    <3>4. CASE ~(op.do = "setup" /\ step = "ok")
      BY <2>1, <3>2, <3>4 DEF Stick!Return
    <3> QED
      BY <3>3, <3>4
  <2>2. CASE Stick!Die
    BY <2>2 DEF Stick!Die
  <2>3. CASE Stick!Lock \/ Stick!Start \/ UNCHANGED Stick!vars
    BY <2>3 DEF Stick!Lock, Stick!Start
  <2>4. CASE Stick!Pull
    BY <2>4 DEF Stick!Pull
  <2>5. ASSUME NEW p \in Path, Stick!Plug(p) PROVE SteadyReaches' /\ UsbIsKnown'
    BY <2>5, PathAssumption DEF Stick!Plug
  <2> QED
    BY <2>1, <2>2, <2>3, <2>4, <2>5
<1>5. /\ UnusedIsBlank' /\ ListedHasSeed' /\ Stick!Listed' = Stick!Listed
      /\ \A w : Stick!Left(w)' = Stick!Left(w)
  BY <1>1, FilesStay
<1>6. Stick!TypeOK'
  BY <1>1, <1>2, <1>3 DEF Stick!TypeOK, Stick!Step
<1>7. OpIsWhole' /\ AddedIsNew' /\ ReadIsHeld' /\ TargetIsThere'
  <2>1. CASE step' = step /\ op' = op /\ todo' = todo /\ done' = done /\ (steady' => steady)
    <3>1. /\ Stick!Target' = Stick!Target /\ (Stick!Adds' <=> Stick!Adds)
          /\ (Stick!Goes' <=> Stick!Goes) /\ (Single' <=> Single)
      BY <2>1 DEF Stick!Target, Stick!Adds, Stick!Goes, Single
    <3>2. OpIsWhole' /\ AddedIsNew'
      BY <1>1, <1>5, <2>1, <3>1 DEF StoreInv, OpIsWhole, AddedIsNew
    <3>3. ReadIsHeld' /\ TargetIsThere'
      BY <1>1, <1>5, <2>1, <3>1 DEF StoreInv, ReadIsHeld, TargetIsThere, Stick!Left
    <3> QED
      BY <3>2, <3>3
  <2>2. CASE /\ step' \in {"idle", "begun"} /\ todo' = {} /\ done' = {}
             /\ op' \in Stick!Op /\ op'.ws \subseteq used /\ op'.do \in {"none", "signIn"}
    <3>1. ~Stick!Adds' /\ ~Stick!Goes' /\ ~Single'
      BY <2>2 DEF Stick!Adds, Stick!Goes, Single
    <3> QED
      BY <1>1, <2>2, <3>1 DEF OpIsWhole, AddedIsNew, ReadIsHeld, TargetIsThere
  <2> QED
    BY <1>3, <2>1, <2>2
<1> QED
  BY <1>1, <1>4, <1>5, <1>6, <1>7 DEF StoreInv
\* The invariant is inductive.
LEMMA NextStep ==
  ASSUME Stick!TypeOK, StoreInv, [Stick!Next]_(Stick!vars)
  PROVE  Stick!TypeOK' /\ StoreInv'
<1>1. CASE Stick!Work
  <2>1. CASE \E w \in Wallet : Stick!Add(w)
    BY <1>1, <2>1, AddStep DEF Stick!Work
  <2>2. CASE Stick!ReadDir \/ Stick!ReadAll \/ \E w \in Wallet : Stick!ReadNext(w)
    BY <1>1, <2>2, ReadStep DEF Stick!Work
  <2>3. CASE \/ Stick!ExportBackup \/ Stick!LoadWallet \/ Stick!Prove \/ Stick!Touch
             \/ Stick!RemoveEnds
    BY <1>1, <2>3, TargetStep DEF Stick!Work
  <2>4. CASE Stick!RemoveFile
    BY <1>1, <2>4, RemoveStep DEF Stick!Work
  <2>5. CASE Configures
    BY <1>1, <2>5, ConfigStep DEF Stick!Work
  <2> QED
    BY <1>1, <2>1, <2>2, <2>3, <2>4, <2>5 DEF Stick!Work, Configures
<1>2. CASE Stick!IsFirstTimeSetup
  BY <1>2, ConfigStep
<1>3. CASE Asks
  BY <1>3, AsksStep
<1>4. CASE Rests
  BY <1>4, RestsStep
<1> QED
  BY <1>1, <1>2, <1>3, <1>4 DEF Stick!Next, Asks, Rests

-----------------------------------------------------------------------------
\* What the promise sees of a wallet, how that may change, and of an answer.
Seen(w) == IF w \in doomed THEN (IF Stick!Left(w) THEN "doomed" ELSE "gone")
           ELSE IF w \in seed \cap Stick!Listed THEN "kept" ELSE "new"
Moves(w) == \/ Seen(w)' = Seen(w)
            \/ Seen(w) = "new" /\ Seen(w)' = "kept"
            \/ Seen(w) = "kept" /\ Seen(w)' = "doomed"
            \/ Seen(w) = "doomed" /\ Seen(w)' = "gone"
Answered == step = "ok" /\ Stick!Kind # "none"

\* A step in which one wallet moves on, or none, is a change of Vault.
LEMMA OneMoves ==
  ASSUME NEW w \in Wallet, Moves(w), \A x \in Wallet \ {w} : Seen(x)' = Seen(x)
  PROVE  Stick!Promise!Change
<1> DEFINE st == [x \in Wallet |-> Seen(x)]
<1>1. /\ st = [x \in Wallet |-> IF x \in doomed THEN (IF Stick!Left(x) THEN "doomed" ELSE "gone")
                                ELSE IF x \in seed \cap Stick!Listed THEN "kept" ELSE "new"]
      /\ st' = [x \in Wallet |-> IF x \in doomed THEN (IF Stick!Left(x) THEN "doomed" ELSE "gone")
                                ELSE IF x \in seed \cap Stick!Listed THEN "kept" ELSE "new"]'
      /\ st[w] = Seen(w)
  BY DEF Seen
<1>2. st' = [st EXCEPT ![w] = Seen(w)']
  OBVIOUS
<1>3. CASE Seen(w)' = Seen(w)
  <2>1. st' = st
    BY <1>2, <1>3
  <2> QED
    BY <1>1, <2>1 DEF Stick!Promise!Change
<1>4. CASE Seen(w) = "new" /\ Seen(w)' = "kept"
  <2>1. Stick!Promise!Keep(w)
    BY <1>1, <1>2, <1>4 DEF Stick!Promise!Keep, Stick!Promise!Become
  <2> QED
    BY <2>1 DEF Stick!Promise!Change
<1>5. CASE Seen(w) = "kept" /\ Seen(w)' = "doomed"
  <2>1. Stick!Promise!Doom(w)
    BY <1>1, <1>2, <1>5 DEF Stick!Promise!Doom, Stick!Promise!Become
  <2> QED
    BY <2>1 DEF Stick!Promise!Change
<1>6. CASE Seen(w) = "doomed" /\ Seen(w)' = "gone"
  <2>1. Stick!Promise!Erase(w)
    BY <1>1, <1>2, <1>6 DEF Stick!Promise!Erase, Stick!Promise!Become
  <2> QED
    BY <2>1 DEF Stick!Promise!Change
<1> QED
  BY <1>3, <1>4, <1>5, <1>6 DEF Moves

LEMMA NoneMoves ==
  ASSUME UNCHANGED <<seed, meta, doomed>>
  PROVE  /\ \A x \in Wallet : Seen(x)' = Seen(x)
         /\ Stick!Promise!Change
         /\ UNCHANGED [w \in Wallet |->
              IF w \in doomed THEN (IF Stick!Left(w) THEN "doomed" ELSE "gone")
                               ELSE IF w \in seed \cap Stick!Listed THEN "kept" ELSE "new"]
<1>1. \A x \in Wallet : Stick!Left(x)' = Stick!Left(x) /\ Stick!Listed' = Stick!Listed
  BY DEF Stick!Left, Stick!Listed
<1>2. \A x \in Wallet : Seen(x)' = Seen(x)
  BY <1>1 DEF Seen
<1>3. UNCHANGED [w \in Wallet |->
              IF w \in doomed THEN (IF Stick!Left(w) THEN "doomed" ELSE "gone")
                               ELSE IF w \in seed \cap Stick!Listed THEN "kept" ELSE "new"]
  BY <1>1, <1>2 DEF Seen
<1> QED
  BY <1>2, <1>3 DEF Stick!Promise!Change

\* A wallet is kept with its wallet.json, doomed by the proof, and gone with its
\* last file.
LEMMA WorkMoves ==
  ASSUME Stick!TypeOK, StoreInv, Stick!Work
  PROVE  Stick!Promise!Change
<1> USE DEF Stick!files
<1>1. ASSUME NEW w \in Wallet, Stick!Add(w) PROVE Stick!Promise!Change
  <2>1. Stick!Adds /\ w \in todo /\ meta[w] = "none" /\ w \in op.ws /\ w \notin doomed
        /\ (\A x \in Wallet \ {w} : meta'[x] = meta[x] /\ (x \in seed' <=> x \in seed))
        /\ doomed' = doomed /\ meta \in [Wallet -> Path \cup {"none", "torn"}]
    BY <1>1 DEF Stick!Add, Stick!WriteSeed, Stick!WriteMetadata, Stick!WriteFails, Stick!Adds,
       StoreInv, AddedIsNew, Stick!TypeOK
  <2>2. Seen(w) = "new"
    BY <2>1, PathAssumption DEF Seen, Stick!Listed
  <2>3. \A x \in Wallet \ {w} : Seen(x)' = Seen(x)
    BY <2>1 DEF Seen, Stick!Listed, Stick!Left
  <2>4. CASE Stick!WriteMetadata(w)
    <3>1. meta' = [meta EXCEPT ![w] = op.path] /\ w \in seed' /\ op.path \in Path
      BY <1>1, <2>1, <2>4 DEF Stick!WriteMetadata, StoreInv, OpIsWhole
    <3>2. w \in Stick!Listed'
      BY <2>1, <3>1 DEF Stick!Listed
    <3>3. Seen(w)' = "kept"
      BY <2>1, <3>1, <3>2 DEF Seen
    <3> QED
      BY <2>2, <2>3, <3>3, OneMoves DEF Moves
  <2>5. CASE Stick!WriteSeed(w) \/ Stick!WriteFails(w)
    <3>1. meta' = meta
      BY <2>5 DEF Stick!WriteSeed, Stick!WriteFails
    <3>2. Seen(w)' = "new"
      BY <2>1, <3>1, PathAssumption DEF Seen, Stick!Listed
    <3> QED
      BY <2>2, <2>3, <3>2, OneMoves DEF Moves
  <2> QED
    BY <1>1, <2>4, <2>5 DEF Stick!Add
<1>2. CASE Stick!Prove
  <2>1. Single /\ step = "loaded"
    BY <1>2 DEF Stick!Prove, Single
  <2>2. Stick!Target \in Wallet /\ op.ws = {Stick!Target} /\ Stick!Target \in Stick!Listed
    BY <2>1, TargetIs DEF StoreInv, TargetIsThere
  <2>3. UNCHANGED <<seed, meta>> /\ (doomed' = doomed \/ doomed' = doomed \cup {Stick!Target})
    BY <1>2, <2>2 DEF Stick!Prove
  <2>4. CASE doomed' = doomed
    BY <2>3, <2>4, NoneMoves
  <2>5. CASE Stick!Target \notin doomed /\ doomed' = doomed \cup {Stick!Target}
    <3>1. Stick!Target \in seed /\ Stick!Left(Stick!Target)
      BY <2>2, <2>5, PathAssumption DEF StoreInv, ListedHasSeed, Stick!Listed, Stick!Left
    <3>2. Seen(Stick!Target) = "kept"
      BY <2>2, <2>5, <3>1 DEF Seen
    <3>3. PICK t \in Wallet : t = Stick!Target
      BY <2>2
    <3>4. Stick!Left(t)' /\ t \in doomed'
      BY <2>3, <2>5, <3>1, <3>3 DEF Stick!Left
    <3>5. Seen(t)' = "doomed"
      BY <3>4 DEF Seen
    <3>6. \A x \in Wallet \ {t} : Seen(x)' = Seen(x)
      BY <2>3, <2>5, <3>3 DEF Seen, Stick!Left, Stick!Listed
    <3> QED
      BY <3>2, <3>3, <3>5, <3>6, OneMoves DEF Moves
  <2> QED
    BY <2>3, <2>4, <2>5
<1>3. CASE Stick!RemoveFile
  <2>1. Single /\ step = "removing" /\ doomed' = doomed
    BY <1>3 DEF Stick!RemoveFile, Single, StoreInv, OpIsWhole
  <2>2. PICK t \in Wallet : t = Stick!Target /\ op.ws = {t} /\ t \in doomed
    BY <2>1, TargetIs DEF StoreInv, TargetIsThere
  <2>3. Stick!Left(t) /\ \A x \in Wallet \ {t} : meta'[x] = meta[x] /\ (x \in seed' <=> x \in seed)
    BY <1>3, <2>2 DEF Stick!RemoveFile, Stick!Left, Stick!TypeOK
  <2>4. \A x \in Wallet \ {t} : Seen(x)' = Seen(x)
    BY <2>1, <2>3 DEF Seen, Stick!Left, Stick!Listed
  <2>5. Seen(t) = "doomed" /\ Seen(t)' \in {"doomed", "gone"}
    BY <2>1, <2>2, <2>3 DEF Seen
  <2> QED
    BY <2>4, <2>5, OneMoves DEF Moves
<1>4. CASE UNCHANGED <<seed, meta, doomed>>
  BY <1>4, NoneMoves
<1> QED
  BY <1>1, <1>2, <1>3, <1>4 DEF Stick!Work, Stick!ReadNext, Stick!ReadDir, Stick!ReadAll,
     Stick!ExportBackup, Stick!LoadWallet, Stick!Touch,
       Stick!RemoveEnds, Stick!Truncate, Stick!Fill, Stick!SaveFails, Stick!LoadAppConfig

\* What is answered is so.
LEMMA AnswersAreSo ==
  ASSUME Stick!TypeOK', StoreInv', Answered', UNCHANGED steady,
         NEW do, NEW ws, do = Stick!Kind', ws = done'
  PROVE  Stick!Promise!IsSo(do, ws) /\ do \in {"add", "open", "list", "delete"}
<1> DEFINE st == [x \in Wallet |-> Seen(x)]
<1>1. st' = [x \in Wallet |-> IF x \in doomed THEN (IF Stick!Left(x) THEN "doomed" ELSE "gone")
                              ELSE IF x \in seed \cap Stick!Listed THEN "kept" ELSE "new"]'
  BY DEF Seen
<1>2. done' \subseteq Wallet /\ step' = "ok" /\ steady' = steady
  BY DEF Stick!TypeOK, Answered
<1>3. \A x \in Wallet : st'[x] = Seen(x)'
  OBVIOUS
<1>4. CASE Stick!Adds'
  <2>1. Stick!Kind' = "add"
    BY <1>4 DEF Stick!Adds, Stick!Kind
  <2>2. done' # {} /\ \A x \in done' : x \in seed' /\ x \in Stick!Listed' /\ x \notin doomed'
    BY <1>2, <1>4 DEF StoreInv, AddedIsNew
  <2>3. \A x \in done' : Seen(x)' = "kept"
    BY <2>2 DEF Seen
  <2> HIDE DEF st
  <2> QED
    BY <1>1, <1>2, <1>3, <2>1, <2>2, <2>3 DEF Stick!Promise!IsSo
<1>5. CASE op'.do \in {"open", "export"}
  <2>1. Stick!Kind' = "open" /\ Single'
    BY <1>5 DEF Stick!Kind, Single
  <2>2. PICK t \in Wallet : op'.ws = {t}
    BY <2>1 DEF StoreInv, OpIsWhole
  <2>3. Stick!Target' = t
    BY <2>2 DEF Stick!Target
  <2>4. done' = {t} /\ t \in seed' /\ t \in Stick!Listed'
    BY <1>2, <1>5, <2>1, <2>2, <2>3 DEF StoreInv, TargetIsThere
  <2>5. Seen(t)' \in {"kept", "doomed"}
    BY <2>4 DEF Seen, Stick!Left
  <2> HIDE DEF st
  <2> QED
    BY <1>1, <1>3, <2>1, <2>4, <2>5 DEF Stick!Promise!IsSo
<1>6. CASE Stick!Goes'
  <2>1. Stick!Kind' = "list"
    BY <1>6 DEF Stick!Kind, Stick!Goes
  <2>2. /\ done' \subseteq Stick!Listed'
        /\ steady' => (seed' \cap Stick!Listed') \ doomed' \subseteq done'
    BY <1>2, <1>6 DEF StoreInv, ReadIsHeld
  <2>3. \A x \in Stick!Listed' : Seen(x)' \in {"kept", "doomed"}
    <3> SUFFICES ASSUME NEW x \in Stick!Listed' PROVE Seen(x)' \in {"kept", "doomed"}
      OBVIOUS
    <3>1. x \in Wallet /\ meta'[x] # "none"
      BY PathAssumption DEF Stick!Listed
    <3>2. x \notin doomed' => x \in seed'
      BY <3>1 DEF StoreInv, ListedHasSeed
    <3> QED
      BY <3>1, <3>2 DEF Seen, Stick!Left
  <2>4. \A x \in Wallet : Seen(x)' = "kept" => x \in (seed' \cap Stick!Listed') \ doomed'
    BY DEF Seen
  <2> HIDE DEF st
  <2> QED
    BY <1>1, <1>2, <1>3, <2>1, <2>2, <2>3, <2>4 DEF Stick!Promise!IsSo
<1>7. CASE op'.do \in {"delete", "force"}
  <2>1. Stick!Kind' = "delete" /\ Single'
    BY <1>7 DEF Stick!Kind, Single
  <2>2. PICK t \in Wallet : op'.ws = {t}
    BY <2>1 DEF StoreInv, OpIsWhole
  <2>3. Stick!Target' = t
    BY <2>2 DEF Stick!Target
  <2>4. done' = {t} /\ t \in doomed' /\ (steady' => ~Stick!Left(t)')
    BY <1>2, <1>7, <2>1, <2>2, <2>3 DEF StoreInv, TargetIsThere, Stick!Left
  <2>5. steady' => Seen(t)' = "gone"
    BY <2>4 DEF Seen
  <2> HIDE DEF st
  <2> QED
    BY <1>1, <1>2, <1>3, <2>1, <2>4, <2>5 DEF Stick!Promise!IsSo
<1> QED
  BY <1>4, <1>5, <1>6, <1>7 DEF Answered, Stick!Kind, Stick!Adds, Stick!Goes

\* The initial states are Vault's, and every step is one of Vault's or changes nothing
\* that it sees.
LEMMA PromiseInit ==
  ASSUME Stick!Init
  PROVE  Stick!Promise!VInit
<1>1. seed = {} /\ meta = [w \in Wallet |-> "none"] /\ doomed = {} /\ step = "idle" /\ ~steady
  BY DEF Stick!Init
<1> QED
  BY <1>1 DEF Stick!Promise!VInit, Stick!Promise!NoReply, Stick!Listed, Stick!Init

LEMMA PromiseStep ==
  ASSUME Stick!TypeOK, StoreInv, [Stick!Next]_(Stick!vars)
  PROVE  [Stick!Promise!VNext]_(Stick!Promise!vvars)
<1>1. Stick!TypeOK' /\ StoreInv'
  BY NextStep
<1> DEFINE said == IF step = "ok" /\ Stick!Kind # "none" THEN [do |-> Stick!Kind, ws |-> done]
                   ELSE [do |-> "none", ws |-> {}]
<1>2. ~Answered' => said' = Stick!Promise!NoReply
  BY DEF Answered, Stick!Promise!NoReply
<1>3. ASSUME Stick!Promise!Change, ~Answered' PROVE Stick!Promise!VNext
  BY <1>2, <1>3 DEF Stick!Promise!VNext, Stick!Promise!Silent
<1>4. ASSUME Stick!Promise!Change, Answered', UNCHANGED steady PROVE Stick!Promise!VNext
  <2>1. PICK do, ws : do = Stick!Kind' /\ ws = done'
    OBVIOUS
  <2>2. Stick!Promise!IsSo(do, ws) /\ do \in {"add", "open", "list", "delete"}
    BY <1>1, <1>4, <2>1, AnswersAreSo
  <2>3. said' = [do |-> do, ws |-> ws] /\ ws \in SUBSET Wallet
    BY <1>1, <1>4, <2>1 DEF Answered, Stick!TypeOK
  <2>4. Stick!Promise!Answer(do, ws)
    BY <1>4, <2>2, <2>3 DEF Stick!Promise!Answer
  <2> QED
    BY <1>4, <2>2, <2>3, <2>4 DEF Stick!Promise!VNext
<1>5. CASE Stick!Work
  <2>1. Stick!Promise!Change /\ UNCHANGED steady
    BY <1>5, WorkMoves DEF Stick!Work, Stick!Elsewhere
  <2> QED
    BY <1>3, <1>4, <2>1
<1>6. CASE Stick!IsFirstTimeSetup
  <2>1. UNCHANGED <<seed, meta, doomed>> /\ op'.do = "check"
    BY <1>6 DEF Stick!IsFirstTimeSetup, Stick!files, Stick!GoTo
  <2>2. Stick!Promise!Change
    BY <2>1, NoneMoves
  <2>3. ~Answered'
    BY <2>1 DEF Answered, Stick!Kind
  <2> QED
    BY <1>3, <2>2, <2>3
<1>7. CASE Asks
  <2>1. UNCHANGED <<seed, meta, doomed>> /\ step' = "begun"
    BY <1>7, AsksStep
  <2>2. Stick!Promise!Change /\ ~Answered'
    BY <2>1, NoneMoves DEF Answered
  <2> QED
    BY <1>3, <2>2
<1>8. CASE Rests
  <2>1. UNCHANGED <<seed, meta, doomed>>
    BY <1>8, RestsStep
  <2>2. CASE Stick!Return \/ Stick!Die
    <3>1. Stick!Promise!Change /\ ~Answered'
      BY <2>1, <2>2, NoneMoves DEF Answered, Stick!Return, Stick!Die
    <3> QED
      BY <1>3, <3>1
  <2>3. CASE UNCHANGED Stick!request
    <3>1. said' = said
      BY <2>3 DEF Stick!request, Stick!Kind
    <3> QED
      BY <2>1, <3>1, NoneMoves DEF Stick!Promise!VNext
  <2> QED
    BY <1>8, <2>2, <2>3 DEF Rests, Stick!Lock, Stick!Pull, Stick!Start, Stick!Plug, Stick!vars
<1> QED
  BY <1>5, <1>6, <1>7, <1>8 DEF Stick!Next, Asks, Rests

-----------------------------------------------------------------------------
\* KeepsWallets: wherever a write fails, the stick is pulled or the app dies, a
\* wallet comes into being at once and can be opened until its deletion was
\* authorised; an answer of success is true, for a list, a backup of all and a
\* deletion if the stick stayed where it was.
THEOREM StickKeepsWallets == Stick!Spec => KeepsWallets
<1> DEFINE Inv == Stick!TypeOK /\ StoreInv
<1>1. Stick!Init => Inv /\ Stick!Promise!VInit
  BY TypeInit, StoreInvInit, PromiseInit
<1>2. ASSUME Inv, [Stick!Next]_(Stick!vars)
      PROVE  Inv' /\ [Stick!Promise!VNext]_(Stick!Promise!vvars)
  BY <1>2, NextStep, PromiseStep
<1>3. Inv => Stick!TypeOK
  OBVIOUS
<1> HIDE DEF Inv
<1> QED
  BY <1>1, <1>2, <1>3, PTL DEF Stick!Spec, KeepsWallets, Stick!KeepsWallets, Stick!Promise!VSpec
=============================================================================
