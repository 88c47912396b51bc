-------------------------- MODULE UnlockGate_proofs --------------------------
(***************************************************************************)
(* Proofs about UnlockGate, for any number of shares, addresses, attempts  *)
(* and uses, any limits and lifetimes, and any number of crashes.          *)
(*                                                                         *)
(* Two invariants carry the safety properties.  FailInv: while an attempt  *)
(* verifies a guess it holds the lock, and fewer than MaxFailures wrong    *)
(* guesses of its address are recent, by the clock of this moment and not  *)
(* only by that of the count.  TokenInv: a token in the map is the one its *)
(* attempt minted since the last restart, and an attempt that was unlocked *)
(* since then has its token in the map until it expires.                   *)
(***************************************************************************)
EXTENDS UnlockGate, FiniteSetTheorems, TLAPS

LEMMA TimeType == 0 \in Time /\ \A t \in Time : t \in Nat /\ t <= MaxTime
BY GateAssumption DEF Time

----------------------------------------------------------------------------
(* Types.                                                                  *)

\* What was read from the clock is past, and a token is of this boot or an
\* earlier one
Past ==
    /\ sweeper.at <= now
    /\ \A a \in Attempts : attempt[a].at <= now /\ attempt[a].boot <= crashes

\* A handler in flight knows its share and its address
Named ==
    \A a \in Attempts :
        attempt[a].pc \in AttemptInFlight =>
            attempt[a].share \in ShareIds /\ attempt[a].client \in Clients

LEMMA BlankTypes == NoAttempt \in AttemptStates /\ NoUse \in UseStates
BY TimeType, GateAssumption DEF NoAttempt, AttemptStates, NoUse, UseStates

LEMMA NoAttemptType ==
    \A pc \in {"idle"} \cup AttemptInFlight \cup AttemptFinal :
        [NoAttempt EXCEPT !.pc = pc] \in AttemptStates
BY TimeType, GateAssumption DEF NoAttempt, AttemptStates

LEMMA NoUseType ==
    \A pc \in {"idle", "open", "gate", "passed", "stopped", "failed"} :
        [NoUse EXCEPT !.pc = pc] \in UseStates
BY TimeType, GateAssumption DEF NoUse, UseStates

LEMMA NoTokenType == NoToken \in Tokens
BY GateAssumption DEF NoToken, Tokens

LEMMA AnswerType ==
    ASSUME attempt \in [Attempts -> AttemptStates], NEW a \in Attempts,
           NEW pc \in AttemptFinal, Answer(a, pc)
    PROVE  attempt' \in [Attempts -> AttemptStates]
<1>1. [NoAttempt EXCEPT !.pc = pc] \in AttemptStates
  BY NoAttemptType
<1> QED
  BY <1>1 DEF Answer

LEMMA GotoType ==
    ASSUME attempt \in [Attempts -> AttemptStates], NEW a \in Attempts,
           NEW pc \in AttemptInFlight, Goto(a, pc)
    PROVE  attempt' \in [Attempts -> AttemptStates]
<1>1. [attempt[a] EXCEPT !.pc = pc] \in AttemptStates
  BY DEF AttemptStates
<1> QED
  BY <1>1 DEF Goto

LEMMA InitTyped == Init => TypeOK
<1> SUFFICES ASSUME Init PROVE TypeOK
  OBVIOUS
<1> QED
  BY BlankTypes, NoTokenType, TimeType, GateAssumption DEF Init, TypeOK

LEMMA LoadType ==
    ASSUME TypeOK, NEW a \in Attempts, NEW id \in ShareIds, NEW ip \in Clients,
           NEW guess \in Passwords, Load(a, id, ip, guess),
           UNCHANGED <<now, password, use, sweeper, crashes>>
    PROVE  TypeOK'
<1>1. CASE \E pc \in AttemptFinal : Answer(a, pc)
  <2>1. attempt' \in [Attempts -> AttemptStates]
    BY <1>1, AnswerType DEF TypeOK
  <2> QED
    BY <2>1 DEF Load, TypeOK
<1>2. CASE attempt' = [attempt EXCEPT ![a] =
                         [NoAttempt EXCEPT !.pc = "lock", !.share = id, !.client = ip,
                                           !.guess = guess, !.hash = password[id]]]
  <2>1. [NoAttempt EXCEPT !.pc = "lock", !.share = id, !.client = ip,
                          !.guess = guess, !.hash = password[id]] \in AttemptStates
    <3>1. password[id] \in Passwords \cup {NULL}
      BY DEF TypeOK
    <3> QED
      BY <3>1, BlankTypes DEF AttemptStates, AttemptInFlight
  <2> QED
    BY <1>2, <2>1 DEF Load, TypeOK
<1> QED
  BY <1>1, <1>2 DEF Load, AttemptFinal

LEMMA UnlockType ==
    ASSUME TypeOK, NEW a \in Attempts, Unlock(a),
           UNCHANGED <<now, password, use, sweeper, crashes>>
    PROVE  TypeOK'
<1>0. /\ attempt \in [Attempts -> AttemptStates] /\ attempt[a] \in AttemptStates
      /\ now \in Time /\ crashes \in 0 .. MaxCrashes
      /\ tokens \in [Attempts -> Tokens]
  BY DEF TypeOK
<1>1. CASE Count(a)
  <2>1. attempt' \in [Attempts -> AttemptStates]
    BY <1>0, <1>1, GotoType DEF Count, AttemptInFlight
  <2> QED
    BY <1>1, <2>1 DEF Count, TypeOK
<1>2. CASE Limit(a) \/ DatabaseFails(a)
  <2>1. attempt' \in [Attempts -> AttemptStates]
    BY <1>0, <1>2, AnswerType DEF Limit, DatabaseFails, AttemptFinal
  <2> QED
    BY <1>2, <2>1 DEF Limit, DatabaseFails, TypeOK
<1>3. CASE Wrong(a)
  <2>1. [NoAttempt EXCEPT !.pc = "wrong", !.share = attempt[a].share,
                          !.client = attempt[a].client, !.at = now] \in AttemptStates
    BY <1>0, BlankTypes, TimeType DEF AttemptStates, AttemptFinal
  <2>2. attempt' \in [Attempts -> AttemptStates]
    BY <1>0, <1>3, <2>1 DEF Wrong
  <2> QED
    BY <1>3, <2>2 DEF Wrong, TypeOK
<1>4. CASE Accept(a)
  <2>1. attempt' \in [Attempts -> AttemptStates]
    BY <1>0, <1>4, GotoType DEF Accept, AttemptInFlight
  <2> QED
    BY <1>4, <2>1 DEF Accept, TypeOK
<1>5. CASE Mint(a)
  <2>1. [attempt[a] EXCEPT !.pc = "unlocked", !.at = now, !.boot = crashes] \in AttemptStates
    BY <1>0 DEF AttemptStates, AttemptFinal
  <2>2. attempt' = [attempt EXCEPT ![a] = [attempt[a] EXCEPT !.pc = "unlocked", !.at = now,
                                                             !.boot = crashes]]
    BY <1>0, <1>5 DEF Mint
  <2>3. attempt' \in [Attempts -> AttemptStates]
    BY <1>0, <2>1, <2>2
  <2>4. [share |-> attempt[a].share, client |-> attempt[a].client,
         expires_at |-> now + TokenTtl] \in Tokens
    BY <1>0, TimeType, GateAssumption DEF AttemptStates, Tokens
  <2>5. tokens' \in [Attempts -> Tokens]
    BY <1>0, <1>5, <2>4 DEF Mint
  <2> QED
    BY <1>5, <2>3, <2>5 DEF Mint, TypeOK
<1> QED
  BY <1>1, <1>2, <1>3, <1>4, <1>5 DEF Unlock

LEMMA UseType ==
    ASSUME TypeOK, NEW u \in Uses,
           UNCHANGED <<now, password, failed, authLock, attempt, sweeper, crashes>>,
           \/ \E id \in ShareIds, ip \in Clients, c \in Attempts \cup {NULL} : Reach(u, id, ip, c)
           \/ Gate(u)
    PROVE  TypeOK'
<1>0. use \in [Uses -> UseStates] /\ use[u] \in UseStates /\ tokens \in [Attempts -> Tokens]
  BY DEF TypeOK
<1>1. ASSUME NEW id \in ShareIds, NEW ip \in Clients, NEW c \in Attempts \cup {NULL},
             Reach(u, id, ip, c)
      PROVE  TypeOK'
  <2>1. [NoUse EXCEPT !.pc = "open"] \in UseStates
    BY NoUseType
  <2>2. [NoUse EXCEPT !.pc = "gate", !.share = id, !.client = ip, !.token = c] \in UseStates
    BY BlankTypes DEF UseStates
  <2>3. use' \in [Uses -> UseStates]
    BY <1>0, <1>1, <2>1, <2>2 DEF Reach
  <2> QED
    BY <1>1, <2>3 DEF Reach, TypeOK
<1>2. CASE Gate(u)
  <2>1. \A pc \in {"passed", "stopped"} :
            [use[u] EXCEPT !.pc = pc, !.at = now, !.boot = crashes] \in UseStates
    BY <1>0 DEF UseStates, TypeOK
  <2>2. \E pc \in {"passed", "stopped"} :
            use' = [use EXCEPT ![u] = [use[u] EXCEPT !.pc = pc, !.at = now, !.boot = crashes]]
    BY <1>0, <1>2 DEF Gate
  <2>3. use' \in [Uses -> UseStates]
    BY <1>0, <2>1, <2>2
  <2>4. tokens' \in [Attempts -> Tokens]
    BY <1>0, <1>2, NoTokenType DEF Gate
  <2> QED
    BY <2>3, <2>4 DEF TypeOK
<1> QED
  BY <1>1, <1>2

LEMMA CrashType == TypeOK /\ Crash => TypeOK'
<1> SUFFICES ASSUME TypeOK, Crash PROVE TypeOK'
  OBVIOUS
<1>1. attempt' \in [Attempts -> AttemptStates]
  BY NoAttemptType DEF Crash, TypeOK, AttemptFinal
<1>2. use' \in [Uses -> UseStates]
  BY NoUseType DEF Crash, TypeOK
<1>3. tokens' \in [Attempts -> Tokens]
  BY NoTokenType DEF Crash
<1>4. crashes' \in 0 .. MaxCrashes
  BY GateAssumption DEF Crash, TypeOK
<1> QED
  BY <1>1, <1>2, <1>3, <1>4, TimeType DEF Crash, TypeOK

LEMMA StepTyped == TypeOK /\ [Next]_gateVars => TypeOK'
<1> SUFFICES ASSUME TypeOK, [Next]_gateVars PROVE TypeOK'
  OBVIOUS
<1>1. ASSUME NEW id \in ShareIds, NEW p \in Passwords \cup {NULL}, SetPassword(id, p),
             UNCHANGED <<now, failed, authLock, tokens, attempt, use, sweeper, crashes>>
      PROVE  TypeOK'
  BY <1>1 DEF SetPassword, TypeOK
<1>2. CASE /\ SweepBegin \/ Sweep
           /\ UNCHANGED <<now, password, failed, authLock, attempt, use, crashes>>
  BY <1>2, NoTokenType, TimeType DEF SweepBegin, Sweep, TypeOK
<1>3. CASE Tick /\ UNCHANGED <<password, failed, authLock, tokens, attempt, use, sweeper, crashes>>
  BY <1>3, GateAssumption DEF Tick, TypeOK, Time
<1>4. CASE UNCHANGED gateVars
  BY <1>4 DEF gateVars, TypeOK
<1> QED
  BY <1>1, <1>2, <1>3, <1>4, LoadType, UnlockType, UseType, CrashType DEF Next

\* Type correctness of the gate.
THEOREM GateTyped == Spec => []TypeOK
BY InitTyped, StepTyped, PTL DEF Spec

----------------------------------------------------------------------------
(* Wrong guesses.                                                          *)

\* The rows of failed_auth_attempts are the wrong guesses
RowsAreWrong == \A a \in Attempts : a \in failed <=> attempt[a].pc = "wrong"

\* What the count established holds until the guess is recorded
CountHolds ==
    \A a \in Attempts :
        attempt[a].pc = "verify" =>
            /\ authLock = a
            /\ Cardinality(RecentFailures(attempt[a].share, attempt[a].client, now)) < MaxFailures

\* The wrong guesses of ip at id in the period that starts at first
WrongIn(id, ip, first) ==
    {a \in Attempts :
        /\ attempt[a].pc = "wrong"
        /\ attempt[a].share = id /\ attempt[a].client = ip
        /\ first <= attempt[a].at /\ attempt[a].at <= first + Lookback}

FailInv == TypeOK /\ RowsAreWrong /\ CountHolds /\ FailureBudget

LEMMA AttemptsFinite ==
    ASSUME NEW S \in SUBSET Attempts
    PROVE  IsFiniteSet(S) /\ Cardinality(S) \in Nat
<1>1. IsFiniteSet(S)
  BY FS_Subset, GateAssumption
<1> QED
  BY <1>1, FS_CardinalityType

LEMMA SmallerSet ==
    ASSUME NEW S \in SUBSET Attempts, NEW T \in SUBSET S
    PROVE  Cardinality(T) <= Cardinality(S) /\ Cardinality(T) \in Nat /\ Cardinality(S) \in Nat
<1>1. IsFiniteSet(S) /\ Cardinality(S) \in Nat /\ T \in SUBSET Attempts
  BY AttemptsFinite
<1> QED
  BY <1>1, FS_Subset, AttemptsFinite

LEMMA BudgetOfSets ==
    FailureBudget <=> \A id \in ShareIds, ip \in Clients, first \in Time :
                          Cardinality(WrongIn(id, ip, first)) <= MaxFailures
BY DEF FailureBudget, WrongIn

\* A step that records no guess: the wrong ones stay as they are, and an
\* attempt that verifies was doing so before.
LEMMA UnrecordedKeeps ==
    ASSUME FailInv, TypeOK', failed' = failed, now <= now',
           \A a \in Attempts : /\ attempt'[a].pc = "wrong" <=> attempt[a].pc = "wrong"
                               /\ attempt[a].pc = "wrong" => attempt'[a] = attempt[a]
                               /\ attempt'[a].pc = "verify" =>
                                     attempt'[a] = attempt[a] /\ authLock' = a
    PROVE  FailInv'
<1>1. RowsAreWrong'
  BY DEF FailInv, RowsAreWrong
<1>2. \A a \in failed : a \in Attempts /\ attempt'[a] = attempt[a]
  BY DEF FailInv, RowsAreWrong, TypeOK
<1>3. CountHolds'
  <2> SUFFICES ASSUME NEW a \in Attempts, attempt'[a].pc = "verify"
               PROVE  Cardinality(RecentFailures(attempt[a].share, attempt[a].client, now)')
                          < MaxFailures
    BY DEF CountHolds, RecentFailures
  <2> DEFINE before == RecentFailures(attempt[a].share, attempt[a].client, now)
             after == RecentFailures(attempt[a].share, attempt[a].client, now)'
  <2>1. attempt'[a] = attempt[a] /\ attempt[a].pc = "verify"
    OBVIOUS
  <2>2. Cardinality(before) < MaxFailures
    BY <2>1 DEF FailInv, CountHolds
  <2>3. \A b \in failed : attempt[b].at \in Nat
    BY <1>2, TimeType DEF FailInv, TypeOK, AttemptStates
  <2>4. now \in Nat /\ now' \in Nat /\ Lookback \in Nat /\ MaxFailures \in Nat
    BY TimeType, GateAssumption DEF FailInv, TypeOK
  <2>5. after \subseteq before
    BY <1>2, <2>1, <2>3, <2>4 DEF RecentFailures
  <2>6. before \subseteq Attempts
    BY <1>2 DEF RecentFailures
  <2> HIDE DEF before, after
  <2>7. Cardinality(after) < MaxFailures
    BY <2>2, <2>4, <2>5, <2>6, SmallerSet
  <2> QED
    BY <2>7 DEF after
<1>4. \A id \in ShareIds, ip \in Clients, first \in Time :
          WrongIn(id, ip, first)' = WrongIn(id, ip, first)
  BY DEF WrongIn
<1>5. FailureBudget'
  <2>1. FailureBudget' <=> \A id \in ShareIds, ip \in Clients, first \in Time :
                               Cardinality(WrongIn(id, ip, first)') <= MaxFailures
    BY DEF FailureBudget, WrongIn
  <2> QED
    BY <2>1, <1>4, BudgetOfSets DEF FailInv
<1> QED
  BY <1>1, <1>3, <1>5 DEF FailInv

\* The count: nobody else verifies, since the lock was free.
LEMMA CountKeeps ==
    ASSUME FailInv, TypeOK', NEW a \in Attempts, Count(a),
           UNCHANGED <<now, password, use, sweeper, crashes>>
    PROVE  FailInv'
<1>1. /\ attempt \in [Attempts -> AttemptStates]
      /\ attempt[a].pc = "lock" /\ authLock = NULL /\ authLock' = a
      /\ attempt' = [attempt EXCEPT ![a].pc = "verify"]
      /\ failed' = failed
      /\ Cardinality(RecentFailures(attempt[a].share, attempt[a].client, now)) < MaxFailures
  BY DEF Count, Goto, FailInv, TypeOK
<1>2. /\ attempt'[a].pc = "verify" /\ attempt'[a].share = attempt[a].share
      /\ attempt'[a].client = attempt[a].client
      /\ \A b \in Attempts : b # a => attempt'[b] = attempt[b]
  BY <1>1 DEF AttemptStates
<1>3. \A b \in Attempts : attempt[b].pc # "verify"
  BY <1>1, GateAssumption DEF FailInv, CountHolds
<1>4. RowsAreWrong'
  BY <1>1, <1>2 DEF FailInv, RowsAreWrong
<1>5. \A b \in failed : b \in Attempts /\ attempt'[b] = attempt[b]
  BY <1>1, <1>2 DEF FailInv, RowsAreWrong, TypeOK
<1>6. \A id, ip : RecentFailures(id, ip, now)' = RecentFailures(id, ip, now)
  BY <1>1, <1>5 DEF RecentFailures
<1>7. CountHolds'
  <2> SUFFICES ASSUME NEW b \in Attempts, attempt'[b].pc = "verify"
               PROVE  /\ authLock' = b
                      /\ Cardinality(RecentFailures(attempt[b].share, attempt[b].client, now)')
                             < MaxFailures
    BY DEF CountHolds
  <2>1. b = a
    BY <1>2, <1>3
  <2>2. RecentFailures(attempt[a].share, attempt[a].client, now)'
            = RecentFailures(attempt[a].share, attempt[a].client, now)
    BY <1>1, <1>2, <1>5 DEF RecentFailures
  <2> QED
    BY <1>1, <2>1, <2>2
<1>8. \A id \in ShareIds, ip \in Clients, first \in Time :
          WrongIn(id, ip, first)' = WrongIn(id, ip, first)
  BY <1>1, <1>2 DEF WrongIn
<1>9. FailureBudget'
  BY <1>8, BudgetOfSets DEF FailInv, FailureBudget, WrongIn
<1> QED
  BY <1>4, <1>7, <1>9 DEF FailInv

\* A wrong guess is recorded: every period that contains it contains, of the
\* guesses before, only ones that are still recent.
LEMMA WrongKeeps ==
    ASSUME FailInv, TypeOK', NEW a \in Attempts, Wrong(a),
           UNCHANGED <<now, password, use, sweeper, crashes>>
    PROVE  FailInv'
<1>0. PICK share, client : share = attempt[a].share /\ client = attempt[a].client
  OBVIOUS
<1> DEFINE recent == RecentFailures(share, client, now)
<1>1. /\ attempt \in [Attempts -> AttemptStates]
      /\ attempt[a].pc = "verify" /\ failed' = failed \cup {a}
      /\ \A b \in Attempts : b # a => attempt'[b] = attempt[b]
      /\ failed \subseteq Attempts
  BY DEF Wrong, FailInv, TypeOK
<1>2. /\ attempt'[a].pc = "wrong" /\ attempt'[a].share = share
      /\ attempt'[a].client = client /\ attempt'[a].at = now
  <2>1. attempt'[a] = [NoAttempt EXCEPT !.pc = "wrong", !.share = share,
                                        !.client = client, !.at = now]
    BY <1>0, <1>1 DEF Wrong
  <2> QED
    BY <2>1, BlankTypes DEF AttemptStates
<1>3. authLock = a /\ Cardinality(recent) < MaxFailures
  BY <1>0, <1>1 DEF FailInv, CountHolds
<1>4. \A b \in Attempts : b # a => attempt'[b].pc # "verify"
  BY <1>1, <1>3 DEF FailInv, CountHolds
<1>5. RowsAreWrong'
  BY <1>1, <1>2 DEF FailInv, RowsAreWrong
<1>6. CountHolds'
  BY <1>2, <1>4 DEF CountHolds
<1>7. FailureBudget'
  <2> SUFFICES ASSUME NEW id \in ShareIds, NEW ip \in Clients, NEW first \in Time
               PROVE  Cardinality(WrongIn(id, ip, first)') <= MaxFailures
    BY DEF FailureBudget, WrongIn
  <2>1. Cardinality(WrongIn(id, ip, first)) <= MaxFailures
    BY BudgetOfSets DEF FailInv
  <2>2. CASE a \notin WrongIn(id, ip, first)'
    <3>1. WrongIn(id, ip, first)' = WrongIn(id, ip, first)
      BY <2>2, <1>1 DEF WrongIn
    <3> QED
      BY <2>1, <3>1
  <2>3. CASE a \in WrongIn(id, ip, first)'
    <3>1. id = share /\ ip = client /\ first <= now /\ now <= first + Lookback
      BY <2>3, <1>2 DEF WrongIn
    <3>2. \A b \in Attempts : attempt[b].at \in Nat
      BY <1>1, TimeType DEF AttemptStates
    <3>3. now \in Nat /\ first \in Nat /\ Lookback \in Nat /\ MaxFailures \in Nat
      BY TimeType, GateAssumption DEF FailInv, TypeOK
    <3>4. ASSUME NEW b \in WrongIn(id, ip, first)', b # a
          PROVE  b \in recent
      <4>1. /\ b \in Attempts /\ attempt'[b] = attempt[b]
            /\ attempt[b].pc = "wrong" /\ attempt[b].share = share /\ attempt[b].client = client
            /\ first <= attempt[b].at
        BY <3>1, <3>4, <1>1 DEF WrongIn
      <4>2. b \in failed
        BY <4>1 DEF FailInv, RowsAreWrong
      <4>3. attempt[b].at + Lookback >= now
        BY <4>1, <3>1, <3>2, <3>3
      <4> QED
        BY <4>1, <4>2, <4>3 DEF RecentFailures
    <3>5. WrongIn(id, ip, first)' \subseteq recent \cup {a}
      BY <3>4
    <3>6. recent \subseteq Attempts
      BY <1>1 DEF RecentFailures
    <3> HIDE DEF recent
    <3>7. IsFiniteSet(recent) /\ Cardinality(recent) \in Nat
      BY <3>6, AttemptsFinite
    <3>8. Cardinality(recent \cup {a}) <= Cardinality(recent) + 1
      <4>1. /\ IsFiniteSet(recent \cup {a})
            /\ Cardinality(recent \cup {a}) = IF a \in recent THEN Cardinality(recent)
                                                            ELSE Cardinality(recent) + 1
        BY <3>7, FS_AddElement
      <4> QED
        BY <3>7, <4>1
    <3>9. Cardinality(WrongIn(id, ip, first)') <= Cardinality(recent \cup {a})
          /\ Cardinality(WrongIn(id, ip, first)') \in Nat
          /\ Cardinality(recent \cup {a}) \in Nat
      BY <3>5, <3>6, SmallerSet
    <3> QED
      BY <1>3, <3>3, <3>7, <3>8, <3>9
  <2> QED
    BY <2>2, <2>3
<1> QED
  BY <1>5, <1>6, <1>7 DEF FailInv

\* What a handler that has loaded the share, and one that answers, looks like.
LEMMA LoadResult ==
    ASSUME attempt \in [Attempts -> AttemptStates], NEW a \in Attempts, NEW id, NEW ip, NEW guess,
           Load(a, id, ip, guess)
    PROVE  /\ attempt'[a].pc \in {"lock", "unprotected", "refused", "failed"}
           /\ \A b \in Attempts : b # a => attempt'[b] = attempt[b]
<1>1. ASSUME NEW pc \in {"unprotected", "refused", "failed"}, Answer(a, pc)
      PROVE  attempt'[a].pc = pc /\ \A b \in Attempts : b # a => attempt'[b] = attempt[b]
  BY <1>1, BlankTypes DEF Answer, AttemptStates
<1>2. ASSUME attempt' = [attempt EXCEPT ![a] =
                           [NoAttempt EXCEPT !.pc = "lock", !.share = id, !.client = ip,
                                             !.guess = guess, !.hash = password[id]]]
      PROVE  attempt'[a].pc = "lock" /\ \A b \in Attempts : b # a => attempt'[b] = attempt[b]
  BY <1>2, BlankTypes DEF AttemptStates
<1> QED
  BY <1>1, <1>2 DEF Load

LEMMA UnlockResult ==
    ASSUME attempt \in [Attempts -> AttemptStates], NEW a \in Attempts, Unlock(a)
    PROVE  /\ attempt'[a].pc = "limited" => Limit(a)
           /\ attempt[a].pc \in AttemptInFlight
           /\ \A b \in Attempts : b # a => attempt'[b] = attempt[b]
<1>1. CASE Limit(a)
  BY <1>1 DEF Limit, Answer, AttemptInFlight
<1>2. CASE Count(a) \/ Accept(a)
  BY <1>2 DEF Count, Accept, Goto, AttemptInFlight, AttemptStates
<1>3. CASE Wrong(a)
  BY <1>3, BlankTypes DEF Wrong, AttemptInFlight, AttemptStates
<1>4. CASE DatabaseFails(a)
  BY <1>4, BlankTypes DEF DatabaseFails, Answer, AttemptInFlight, AttemptStates
<1>5. CASE Mint(a)
  BY <1>5 DEF Mint, AttemptInFlight, AttemptStates
<1> QED
  BY <1>1, <1>2, <1>3, <1>4, <1>5 DEF Unlock

\* The clock readings and the boot they leave with a handler.
LEMMA LoadBlank ==
    ASSUME attempt \in [Attempts -> AttemptStates], NEW a \in Attempts, NEW id, NEW ip, NEW guess,
           Load(a, id, ip, guess)
    PROVE  attempt'[a].at = 0 /\ attempt'[a].boot = 0
<1>0. NoAttempt.at = 0 /\ NoAttempt.boot = 0
  BY DEF NoAttempt
<1>1. ASSUME NEW pc \in {"unprotected", "refused", "failed"}, Answer(a, pc)
      PROVE  attempt'[a].at = 0 /\ attempt'[a].boot = 0
  BY <1>0, <1>1, BlankTypes DEF Answer, AttemptStates
<1>2. ASSUME attempt' = [attempt EXCEPT ![a] =
                           [NoAttempt EXCEPT !.pc = "lock", !.share = id, !.client = ip,
                                             !.guess = guess, !.hash = password[id]]]
      PROVE  attempt'[a].at = 0 /\ attempt'[a].boot = 0
  BY <1>0, <1>2, BlankTypes DEF AttemptStates
<1> QED
  BY <1>1, <1>2 DEF Load

LEMMA UnlockClock ==
    ASSUME attempt \in [Attempts -> AttemptStates], NEW a \in Attempts, Unlock(a)
    PROVE  /\ attempt'[a].at \in {0, now, attempt[a].at}
           /\ attempt'[a].boot \in {0, crashes, attempt[a].boot}
<1>0. NoAttempt.at = 0 /\ NoAttempt.boot = 0
  BY DEF NoAttempt
<1>1. CASE Limit(a) \/ DatabaseFails(a)
  BY <1>0, <1>1, BlankTypes DEF Limit, DatabaseFails, Answer, AttemptStates
<1>2. CASE Count(a) \/ Accept(a)
  BY <1>2 DEF Count, Accept, Goto, AttemptStates
<1>3. CASE Wrong(a)
  BY <1>0, <1>3, BlankTypes DEF Wrong, AttemptStates
<1>4. CASE Mint(a)
  BY <1>4 DEF Mint, AttemptStates
<1> QED
  BY <1>1, <1>2, <1>3, <1>4 DEF Unlock

LEMMA FailInvInit == Init => FailInv
<1> SUFFICES ASSUME Init PROVE FailInv
  OBVIOUS
<1>1. \A a \in Attempts : attempt[a].pc = "idle"
  BY DEF Init, NoAttempt
<1>2. RowsAreWrong /\ CountHolds
  BY <1>1 DEF Init, RowsAreWrong, CountHolds
<1>3. \A id \in ShareIds, ip \in Clients, first \in Time : WrongIn(id, ip, first) = {}
  BY <1>1 DEF WrongIn
<1>4. FailureBudget
  BY <1>3, BudgetOfSets, FS_EmptySet, GateAssumption
<1> QED
  BY <1>2, <1>4, InitTyped DEF FailInv

LEMMA FailInvStep == FailInv /\ [Next]_gateVars => FailInv'
<1> SUFFICES ASSUME FailInv, [Next]_gateVars PROVE FailInv'
  OBVIOUS
<1>0. /\ TypeOK' /\ now \in Nat /\ attempt \in [Attempts -> AttemptStates]
      /\ \A a \in Attempts : attempt[a].pc = "verify" => authLock = a
  BY StepTyped, TimeType DEF FailInv, TypeOK, CountHolds
<1>1. ASSUME NEW a \in Attempts, NEW id \in ShareIds, NEW ip \in Clients, NEW guess \in Passwords,
             Load(a, id, ip, guess), UNCHANGED <<now, password, use, sweeper, crashes>>
      PROVE  FailInv'
  <2>0. attempt[a].pc = "idle" /\ failed' = failed /\ authLock' = authLock
    BY <1>1 DEF Load
  <2>1. /\ attempt'[a].pc \notin {"wrong", "verify"}
        /\ \A b \in Attempts : b # a => attempt'[b] = attempt[b]
    BY <1>0, <1>1, LoadResult
  <2> QED
    BY <1>0, <1>1, <2>0, <2>1, UnrecordedKeeps
<1>2. ASSUME NEW a \in Attempts, Limit(a) \/ DatabaseFails(a) \/ Accept(a) \/ Mint(a),
             UNCHANGED <<now, password, use, sweeper, crashes>>
      PROVE  FailInv'
  <2>1. /\ attempt[a].pc \in AttemptInFlight /\ attempt'[a].pc \notin {"wrong", "verify"}
        /\ \A b \in Attempts : b # a => attempt'[b] = attempt[b]
        /\ failed' = failed
    BY <1>0, <1>2, BlankTypes
       DEF Limit, DatabaseFails, Accept, Mint, Answer, Goto, AttemptStates, AttemptInFlight
  <2>2. authLock' # authLock => \A b \in Attempts : b # a => attempt[b].pc # "verify"
    BY <1>0, <1>2, GateAssumption DEF Limit, DatabaseFails, Accept, Mint
  <2> QED
    BY <1>0, <1>2, <2>1, <2>2, UnrecordedKeeps DEF AttemptInFlight
<1>3. CASE UNCHANGED <<failed, authLock, attempt>> /\ now' >= now
  BY <1>0, <1>3, UnrecordedKeeps
<1>4. CASE Crash
  <2>1. \A a \in Attempts :
            attempt'[a].pc \notin {"verify"} /\ (attempt[a].pc \notin AttemptInFlight =>
                attempt'[a] = attempt[a])
    BY <1>4, BlankTypes DEF Crash, AttemptStates, AttemptInFlight
  <2>2. \A a \in Attempts : attempt[a].pc \in AttemptInFlight => attempt'[a].pc = "failed"
    BY <1>4, BlankTypes DEF Crash, AttemptStates
  <2>3. failed' = failed /\ now' = now
    BY <1>4 DEF Crash
  <2> QED
    BY <1>0, <2>1, <2>2, <2>3, UnrecordedKeeps DEF AttemptInFlight
<1>5. ASSUME NEW a \in Attempts, Unlock(a), UNCHANGED <<now, password, use, sweeper, crashes>>
      PROVE  FailInv'
  BY <1>0, <1>2, <1>5, CountKeeps, WrongKeeps DEF Unlock
<1> QED
  BY <1>0, <1>1, <1>3, <1>4, <1>5 DEF Next, Tick, gateVars

LEMMA FailInvariant == Spec => []FailInv
BY FailInvInit, FailInvStep, PTL DEF Spec

\* For any number of parallel guesses, and across restarts, no period of
\* Lookback holds more than MaxFailures wrong guesses of one address at one
\* share (unlock_share under failed_auth_lock).
THEOREM GateFailureBudget == Spec => []FailureBudget
<1>1. FailInv => FailureBudget
  BY DEF FailInv
<1> QED
  BY <1>1, FailInvariant, PTL

\* failed_auth_lock is held only by a handler between its count and its
\* record: what is left of AttemptsAnswered without fairness.
LockInVerify == authLock # NULL => authLock \in Attempts /\ attempt[authLock].pc = "verify"

LEMMA LockInVerifyStep ==
    ASSUME TypeOK, CountHolds, LockInVerify, [Next]_gateVars
    PROVE  LockInVerify'
<1>0. attempt \in [Attempts -> AttemptStates] /\ NULL \notin Attempts
  BY GateAssumption DEF TypeOK
<1>1. CASE UNCHANGED <<authLock, attempt>>
  BY <1>1 DEF LockInVerify
<1>2. ASSUME NEW a \in Attempts, NEW id \in ShareIds, NEW ip \in Clients,
             NEW guess \in Passwords, Load(a, id, ip, guess)
      PROVE  LockInVerify'
  <2>1. /\ attempt[a].pc = "idle" /\ authLock' = authLock
        /\ \A b \in Attempts \ {a} : attempt'[b] = attempt[b]
    BY <1>0, <1>2 DEF Load, Answer
  <2> QED
    BY <2>1 DEF LockInVerify
<1>3. ASSUME NEW a \in Attempts, Unlock(a)
      PROVE  LockInVerify'
  <2>1. \A b \in Attempts \ {a} : attempt'[b] = attempt[b]
    BY <1>0, <1>3 DEF Unlock, Count, Limit, Wrong, DatabaseFails, Accept, Mint, Goto, Answer
  <2>2. CASE Count(a)
    <3>1. authLock' = a /\ attempt'[a].pc = "verify"
      BY <1>0, <2>2 DEF Count, Goto, AttemptStates
    <3> QED
      BY <3>1 DEF LockInVerify
  <2>3. CASE Limit(a)
    BY <2>3 DEF Limit, LockInVerify
  <2>4. CASE Wrong(a) \/ DatabaseFails(a) \/ Accept(a)
    BY <2>4 DEF Wrong, DatabaseFails, Accept, LockInVerify
  <2>5. CASE Mint(a)
    BY <2>1, <2>5 DEF Mint, LockInVerify
  <2> QED
    BY <1>3, <2>2, <2>3, <2>4, <2>5 DEF Unlock
<1>4. CASE Crash
  BY <1>4 DEF Crash, LockInVerify
<1> QED
  BY <1>1, <1>2, <1>3, <1>4 DEF Next, gateVars

\* No path of unlock_share leaves the handler with the lock, whatever fails in
\* its critical section; a crash gives it back.
THEOREM GateLockReturned == Spec => []LockInVerify
<1>1. Init => LockInVerify
  BY DEF Init, LockInVerify
<1>2. FailInv /\ LockInVerify /\ [Next]_gateVars => LockInVerify'
  BY LockInVerifyStep DEF FailInv
<1> QED
  BY <1>1, <1>2, FailInvariant, PTL DEF Spec

\* Only wrong guesses of the same address at the same share lead to a 429
\* (unlock_share).
THEOREM GateLimitedOnlyByWrongGuesses == Spec => LimitedOnlyByWrongGuesses
<1> DEFINE Wrongs(a) == {b \in Attempts :
                            /\ attempt[b].pc = "wrong"
                            /\ attempt[b].share = attempt[a].share
                            /\ attempt[b].client = attempt[a].client
                            /\ attempt[b].at + Lookback >= now}
           Limited == \A a \in Attempts :
                          attempt[a].pc # "limited" /\ attempt'[a].pc = "limited" =>
                              Cardinality(Wrongs(a)) >= MaxFailures
<1>1. FailInv /\ [Next]_gateVars => [Limited]_gateVars
  <2> SUFFICES ASSUME FailInv, Next, NEW a \in Attempts,
                      attempt[a].pc # "limited", attempt'[a].pc = "limited"
               PROVE  Cardinality(Wrongs(a)) >= MaxFailures
    OBVIOUS
  <2>0. attempt \in [Attempts -> AttemptStates]
    BY DEF FailInv, TypeOK
  <2>1. ASSUME NEW b \in Attempts, NEW id \in ShareIds, NEW ip \in Clients,
               NEW guess \in Passwords, Load(b, id, ip, guess)
        PROVE  FALSE
    BY <2>0, <2>1, LoadResult
  <2>2. ASSUME NEW b \in Attempts, Unlock(b)
        PROVE  Limit(a)
    BY <2>0, <2>2, UnlockResult
  <2>3. ~Crash
    BY <2>0, BlankTypes DEF Crash, AttemptStates
  <2>4. Limit(a)
    BY <2>1, <2>2, <2>3 DEF Next
  <2>5. RecentFailures(attempt[a].share, attempt[a].client, now) = Wrongs(a)
    BY DEF RecentFailures, FailInv, RowsAreWrong, TypeOK
  <2> QED
    BY <2>4, <2>5 DEF Limit
<1>2. LimitedOnlyByWrongGuesses <=> [][Limited]_gateVars
  BY PTL DEF LimitedOnlyByWrongGuesses
<1> QED
  BY <1>1, <1>2, FailInvariant, PTL DEF Spec

----------------------------------------------------------------------------
(* Tokens.                                                                 *)

\* The tokens that are in the map are those their attempts earned, in this boot
TokensEarned ==
    \A c \in Attempts :
        tokens[c].share # NULL =>
            /\ attempt[c].pc = "unlocked"
            /\ tokens[c].share = attempt[c].share
            /\ tokens[c].client = attempt[c].client
            /\ tokens[c].expires_at = attempt[c].at + TokenTtl
            /\ attempt[c].boot = crashes

\* The token an attempt earned in this boot is in the map until it expires
TokensKept ==
    \A c \in Attempts :
        attempt[c].pc = "unlocked" /\ attempt[c].boot = crashes
            /\ now < attempt[c].at + TokenTtl =>
            tokens[c] = [share |-> attempt[c].share, client |-> attempt[c].client,
                         expires_at |-> attempt[c].at + TokenTtl]

GuessedRight ==
    \A a \in Attempts : attempt[a].pc \in {"mint", "unlocked"} => attempt[a].guess = attempt[a].hash

\* Browsers send tokens they were given
UsesGiven ==
    \A u \in Uses :
        use[u].pc \in {"gate", "passed", "stopped"} =>
            /\ use[u].share \in ShareIds
            /\ use[u].token # NULL => attempt[use[u].token].pc = "unlocked"

TokenInv ==
    /\ TypeOK /\ Past
    /\ TokensEarned /\ TokensKept /\ GuessedRight
    /\ UsesGiven /\ PassedOnlyUnlocked /\ UnlockLasts

\* Steps that leave the unlocked attempts alone keep what is said of uses that
\* they leave alone.
LEMMA UsesKept ==
    ASSUME TokenInv, NEW u \in Uses, use'[u] = use[u],
           \A a \in Attempts : attempt[a].pc = "unlocked" => attempt'[a] = attempt[a]
    PROVE  /\ use'[u].pc \in {"gate", "passed", "stopped"} =>
                 /\ use'[u].share \in ShareIds
                 /\ use'[u].token # NULL => attempt'[use'[u].token].pc = "unlocked"
           /\ use'[u].pc = "passed" => GoodFor(use[u].token, u)'
           /\ use'[u].pc = "stopped" => ~GoodFor(use[u].token, u)'
<1>0. use[u] \in UseStates
  BY DEF TokenInv, TypeOK
<1>1. use[u].token # NULL => use[u].token \in Attempts
  BY <1>0 DEF UseStates
<1>2. CASE use[u].pc \in {"gate", "passed", "stopped"}
  <2>1. use[u].token # NULL =>
            /\ attempt[use[u].token].pc = "unlocked"
            /\ attempt'[use[u].token] = attempt[use[u].token]
    BY <1>1, <1>2 DEF TokenInv, UsesGiven
  <2>2. GoodFor(use[u].token, u)' <=> GoodFor(use[u].token, u)
    BY <2>1 DEF GoodFor
  <2> QED
    BY <1>2, <2>1, <2>2 DEF TokenInv, UsesGiven, PassedOnlyUnlocked, UnlockLasts
<1> QED
  BY <1>2

\* A step that unlocks nothing and leaves tokens, boots and uses alone.
LEMMA QuietKeeps ==
    ASSUME TokenInv, TypeOK', Past', now <= now', crashes' = crashes,
           tokens' = tokens, use' = use,
           \A a \in Attempts : /\ attempt[a].pc = "unlocked" => attempt'[a] = attempt[a]
                               /\ attempt'[a].pc = "unlocked" => attempt'[a] = attempt[a]
                               /\ attempt'[a].pc = "mint" => attempt'[a].guess = attempt'[a].hash
    PROVE  TokenInv'
<1>0. /\ now \in Nat /\ now' \in Nat /\ TokenTtl \in Nat
      /\ \A a \in Attempts : attempt[a].at \in Nat
  BY TimeType, GateAssumption DEF TokenInv, TypeOK, AttemptStates
<1>1. TokensEarned'
  BY DEF TokenInv, TokensEarned
<1>2. TokensKept'
  BY <1>0 DEF TokenInv, TokensKept
<1>3. GuessedRight'
  BY DEF TokenInv, GuessedRight
<1>4. UsesGiven' /\ PassedOnlyUnlocked' /\ UnlockLasts'
  BY UsesKept DEF UsesGiven, PassedOnlyUnlocked, UnlockLasts
<1> QED
  BY <1>1, <1>2, <1>3, <1>4 DEF TokenInv

LEMMA StepPast ==
    ASSUME TypeOK, Past, [Next]_gateVars
    PROVE  Past'
<1>0. /\ now \in Nat /\ crashes \in Nat /\ attempt \in [Attempts -> AttemptStates]
      /\ sweeper.at \in Nat
      /\ \A a \in Attempts : attempt[a].at \in Nat /\ attempt[a].boot \in Nat
  BY TimeType, GateAssumption DEF TypeOK, AttemptStates
<1> USE DEF Past
<1>1. ASSUME NEW a \in Attempts, NEW id \in ShareIds, NEW ip \in Clients, NEW guess \in Passwords,
             Load(a, id, ip, guess), UNCHANGED <<now, password, use, sweeper, crashes>>
      PROVE  Past'
  <2>1. attempt'[a].at = 0 /\ attempt'[a].boot = 0
    BY <1>0, <1>1, LoadBlank
  <2> QED
    BY <1>0, <1>1, <2>1, LoadResult
<1>2. ASSUME NEW a \in Attempts, Unlock(a), UNCHANGED <<now, password, use, sweeper, crashes>>
      PROVE  Past'
  <2>1. attempt'[a].at \in {0, now, attempt[a].at} /\ attempt'[a].boot \in {0, crashes, attempt[a].boot}
    BY <1>0, <1>2, UnlockClock
  <2> QED
    BY <1>0, <1>2, <2>1, UnlockResult
<1>3. ASSUME NEW u \in Uses, UNCHANGED <<now, password, failed, authLock, attempt, sweeper, crashes>>
      PROVE  Past'
  BY <1>3
<1>4. ASSUME UNCHANGED <<now, attempt, sweeper, crashes>>
      PROVE  Past'
  BY <1>4
<1>5. CASE (SweepBegin \/ Sweep) /\ UNCHANGED <<now, password, failed, authLock, attempt, use, crashes>>
  BY <1>0, <1>5 DEF SweepBegin, Sweep
<1>6. CASE Tick /\ UNCHANGED <<password, failed, authLock, tokens, attempt, use, sweeper, crashes>>
  BY <1>0, <1>6 DEF Tick
<1>7. CASE Crash
  <2>1. \A a \in Attempts :
            \/ attempt'[a] = attempt[a]
            \/ attempt'[a].at = 0 /\ attempt'[a].boot = 0
    BY <1>7 DEF Crash, NoAttempt
  <2> QED
    <3>1. sweeper'.at = 0 /\ now' = now /\ crashes' = crashes + 1
      BY <1>7 DEF Crash
    <3> QED
      BY <1>0, <2>1, <3>1
<1> QED
  BY <1>1, <1>2, <1>3, <1>4, <1>5, <1>6, <1>7 DEF Next, gateVars

\* An attempt that is accepted gets its token: it is new, of this boot, and
\* good for as long as the property says.
LEMMA MintKeeps ==
    ASSUME TokenInv, TypeOK', Past', NEW a \in Attempts, Mint(a),
           UNCHANGED <<now, password, use, sweeper, crashes>>
    PROVE  TokenInv'
<1>0. /\ attempt \in [Attempts -> AttemptStates] /\ tokens \in [Attempts -> Tokens]
      /\ attempt[a].pc = "mint" /\ attempt[a].guess = attempt[a].hash
  BY DEF TokenInv, TypeOK, Mint, GuessedRight
<1>1. /\ attempt'[a].pc = "unlocked" /\ attempt'[a].at = now /\ attempt'[a].boot = crashes
      /\ attempt'[a].share = attempt[a].share /\ attempt'[a].client = attempt[a].client
      /\ attempt'[a].guess = attempt[a].guess /\ attempt'[a].hash = attempt[a].hash
      /\ tokens'[a] = [share |-> attempt[a].share, client |-> attempt[a].client,
                       expires_at |-> now + TokenTtl]
      /\ \A b \in Attempts : b # a => attempt'[b] = attempt[b] /\ tokens'[b] = tokens[b]
  BY <1>0 DEF Mint, AttemptStates
<1>2. TokensEarned'
  BY <1>1 DEF TokenInv, TokensEarned
<1>3. TokensKept'
  BY <1>1 DEF TokenInv, TokensKept
<1>4. GuessedRight'
  BY <1>0, <1>1 DEF TokenInv, GuessedRight
<1>5. \A b \in Attempts : attempt[b].pc = "unlocked" => attempt'[b] = attempt[b]
  BY <1>0, <1>1
<1>6. UsesGiven' /\ PassedOnlyUnlocked' /\ UnlockLasts'
  BY <1>5, UsesKept DEF UsesGiven, PassedOnlyUnlocked, UnlockLasts
<1> QED
  BY <1>2, <1>3, <1>4, <1>6 DEF TokenInv

\* Dropping tokens that have expired by a clock reading of the past.
LEMMA DropKeeps ==
    ASSUME TokenInv, TypeOK',
           UNCHANGED <<now, attempt, crashes>>,
           \A c \in Attempts : tokens'[c] = tokens[c]
                               \/ (tokens'[c] = NoToken /\ tokens[c].expires_at <= now)
    PROVE  TokensEarned' /\ TokensKept' /\ GuessedRight'
<1>0. /\ now \in Nat /\ TokenTtl \in Nat
      /\ \A a \in Attempts : attempt[a].at \in Nat
  BY TimeType, GateAssumption DEF TokenInv, TypeOK, AttemptStates
<1>1. TokensEarned'
  BY DEF TokenInv, TokensEarned, NoToken
<1>2. TokensKept'
  <2> SUFFICES ASSUME NEW c \in Attempts, attempt[c].pc = "unlocked", attempt[c].boot = crashes,
                      now < attempt[c].at + TokenTtl
               PROVE  tokens'[c] = [share |-> attempt[c].share, client |-> attempt[c].client,
                                    expires_at |-> attempt[c].at + TokenTtl]
    BY DEF TokensKept
  <2>1. tokens[c] = [share |-> attempt[c].share, client |-> attempt[c].client,
                     expires_at |-> attempt[c].at + TokenTtl]
    BY DEF TokenInv, TokensKept
  <2>2. ~(tokens[c].expires_at <= now)
    BY <2>1, <1>0
  <2> QED
    BY <2>1, <2>2
<1>3. GuessedRight'
  BY DEF TokenInv, GuessedRight
<1> QED
  BY <1>1, <1>2, <1>3

\* The gate lets through who has a token and only who has one.
LEMMA GateKeeps ==
    ASSUME TokenInv, TypeOK', Past', NEW u \in Uses, Gate(u),
           UNCHANGED <<now, password, failed, authLock, attempt, sweeper, crashes>>
    PROVE  TokenInv'
<1>0. PICK c : c = use[u].token
  OBVIOUS
<1>1. /\ use \in [Uses -> UseStates] /\ use[u] \in UseStates /\ use[u].pc = "gate"
      /\ tokens \in [Attempts -> Tokens]
      /\ c # NULL => c \in Attempts
      /\ now \in Nat /\ TokenTtl \in Nat
      /\ \A a \in Attempts : attempt[a].at \in Nat /\ tokens[a].expires_at \in Nat
  BY <1>0, TimeType, GateAssumption DEF TokenInv, TypeOK, UseStates, Gate, AttemptStates, Tokens
<1>2. /\ use[u].share \in ShareIds /\ use[u].share # NULL
      /\ c # NULL => attempt[c].pc = "unlocked"
  BY <1>0, <1>1, GateAssumption DEF TokenInv, UsesGiven
<1> DEFINE matches == TokenMatches(c, use[u].share, use[u].client)
           good == /\ c # NULL
                   /\ attempt[c].pc = "unlocked"
                   /\ attempt[c].guess = attempt[c].hash
                   /\ attempt[c].share = use[u].share
                   /\ attempt[c].client = use[u].client
                   /\ attempt[c].boot = crashes
                   /\ now < attempt[c].at + TokenTtl
<1>3. use' = [use EXCEPT ![u].pc = IF matches THEN "passed" ELSE "stopped",
                         ![u].at = now, ![u].boot = crashes]
  BY <1>0 DEF Gate
<1>4. matches <=> good
  <2>1. ASSUME matches PROVE good
    <3>1. /\ c \in Attempts /\ tokens[c].share = use[u].share /\ tokens[c].client = use[u].client
          /\ tokens[c].expires_at > now
      BY <2>1, <1>1 DEF TokenMatches
    <3>2. tokens[c].share # NULL
      BY <3>1, <1>2
    <3>3. /\ attempt[c].pc = "unlocked" /\ tokens[c].share = attempt[c].share
          /\ tokens[c].client = attempt[c].client
          /\ tokens[c].expires_at = attempt[c].at + TokenTtl
          /\ attempt[c].boot = crashes /\ attempt[c].guess = attempt[c].hash
      BY <3>1, <3>2 DEF TokenInv, TokensEarned, GuessedRight
    <3> QED
      BY <2>1, <3>1, <3>3, <1>1 DEF TokenMatches
  <2>2. ASSUME good PROVE matches
    <3>1. tokens[c] = [share |-> attempt[c].share, client |-> attempt[c].client,
                       expires_at |-> attempt[c].at + TokenTtl]
      BY <2>2, <1>1 DEF TokenInv, TokensKept
    <3> QED
      BY <2>2, <3>1, <1>1 DEF TokenMatches
  <2> QED
    BY <2>1, <2>2
<1>5. \A d \in Attempts : tokens'[d] = tokens[d]
                          \/ (tokens'[d] = NoToken /\ tokens[d].expires_at <= now)
  <2>1. tokens' = IF c # NULL /\ tokens[c].expires_at <= now
                  THEN [tokens EXCEPT ![c] = NoToken] ELSE tokens
    BY <1>0 DEF Gate
  <2> QED
    BY <1>1, <2>1
<1>6. TokensEarned' /\ TokensKept' /\ GuessedRight'
  BY <1>5, DropKeeps
<1>7. /\ use'[u].pc = IF matches THEN "passed" ELSE "stopped"
      /\ use'[u].share = use[u].share /\ use'[u].client = use[u].client
      /\ use'[u].token = c /\ use'[u].at = now /\ use'[u].boot = crashes
      /\ \A v \in Uses : v # u => use'[v] = use[v]
  <2> HIDE DEF matches
  <2> QED
    BY <1>0, <1>1, <1>3 DEF UseStates
<1>8. GoodFor(c, u)' <=> good
  BY <1>7 DEF GoodFor
<1>9. UsesGiven' /\ PassedOnlyUnlocked' /\ UnlockLasts'
  <2> HIDE DEF matches, good
  <2>1. \A v \in Uses : v # u =>
            /\ use'[v].pc \in {"gate", "passed", "stopped"} =>
                 /\ use'[v].share \in ShareIds
                 /\ use'[v].token # NULL => attempt'[use'[v].token].pc = "unlocked"
            /\ use'[v].pc = "passed" => GoodFor(use[v].token, v)'
            /\ use'[v].pc = "stopped" => ~GoodFor(use[v].token, v)'
    BY <1>7, UsesKept
  <2>2. UsesGiven'
    BY <1>2, <1>7, <2>1 DEF UsesGiven
  <2>3. use'[u].pc = "passed" => GoodFor(c, u)'
    BY <1>4, <1>7, <1>8
  <2>4. use'[u].pc = "stopped" => ~GoodFor(c, u)'
    BY <1>4, <1>7, <1>8
  <2>5. PassedOnlyUnlocked'
    BY <1>0, <1>7, <2>1, <2>3 DEF PassedOnlyUnlocked
  <2>6. UnlockLasts'
    BY <1>0, <1>7, <2>1, <2>4 DEF UnlockLasts
  <2> QED
    BY <2>2, <2>5, <2>6
<1> QED
  BY <1>6, <1>9 DEF TokenInv

LEMMA ReachKeeps ==
    ASSUME TokenInv, TypeOK', Past', NEW u \in Uses, NEW id \in ShareIds, NEW ip \in Clients,
           NEW c \in Attempts \cup {NULL}, Reach(u, id, ip, c),
           UNCHANGED <<now, password, failed, authLock, attempt, sweeper, crashes>>
    PROVE  TokenInv'
<1>0. use \in [Uses -> UseStates]
  BY DEF TokenInv, TypeOK
<1>1. /\ use'[u].pc \in {"open", "gate"}
      /\ use'[u].pc = "gate" => use'[u].share = id /\ use'[u].token = c
      /\ \A v \in Uses : v # u => use'[v] = use[v]
  <2>1. CASE password[id] = NULL
    BY <2>1, <1>0, BlankTypes DEF Reach, UseStates
  <2>2. CASE password[id] # NULL
    <3>1. use' = [use EXCEPT ![u] = [NoUse EXCEPT !.pc = "gate", !.share = id, !.client = ip,
                                                   !.token = c]]
      BY <2>2 DEF Reach
    <3> QED
      BY <3>1, <1>0, BlankTypes DEF UseStates
  <2> QED
    BY <2>1, <2>2
<1>2. tokens' = tokens /\ (c # NULL => attempt[c].pc = "unlocked")
  BY DEF Reach
<1>3. TokensEarned' /\ TokensKept' /\ GuessedRight'
  <2>1. \A d \in Attempts : tokens'[d] = tokens[d]
                            \/ (tokens'[d] = NoToken /\ tokens[d].expires_at <= now)
    BY <1>2
  <2> QED
    BY <2>1, DropKeeps
<1>4. UsesGiven' /\ PassedOnlyUnlocked' /\ UnlockLasts'
  BY <1>1, <1>2, UsesKept DEF UsesGiven, PassedOnlyUnlocked, UnlockLasts
<1> QED
  BY <1>3, <1>4 DEF TokenInv

LEMMA SweepKeeps ==
    ASSUME TokenInv, TypeOK', Past', Sweep,
           UNCHANGED <<now, password, failed, authLock, attempt, use, crashes>>
    PROVE  TokenInv'
<1>0. /\ sweeper.at \in Nat /\ sweeper.at <= now /\ now \in Nat
      /\ \A c \in Attempts : tokens[c].expires_at \in Nat
  BY TimeType, GateAssumption DEF TokenInv, TypeOK, Tokens, Past
<1>1. \A c \in Attempts : tokens'[c] = tokens[c]
                          \/ (tokens'[c] = NoToken /\ tokens[c].expires_at <= now)
  <2>1. tokens' = [c \in Attempts |-> IF tokens[c].expires_at > sweeper.at
                                      THEN tokens[c] ELSE NoToken]
    BY DEF Sweep
  <2> QED
    BY <1>0, <2>1
<1>2. TokensEarned' /\ TokensKept' /\ GuessedRight'
  BY <1>1, DropKeeps
<1>3. UsesGiven' /\ PassedOnlyUnlocked' /\ UnlockLasts'
  BY UsesKept DEF UsesGiven, PassedOnlyUnlocked, UnlockLasts
<1> QED
  BY <1>2, <1>3 DEF TokenInv

\* A restart forgets the tokens: those of earlier boots are good for nothing.
LEMMA CrashKeeps ==
    ASSUME TokenInv, TypeOK', Past', Crash
    PROVE  TokenInv'
<1>0. /\ crashes \in Nat /\ crashes' = crashes + 1 /\ now' = now
      /\ use \in [Uses -> UseStates]
      /\ \A a \in Attempts : attempt[a].boot \in Nat /\ attempt[a].boot <= crashes
  BY GateAssumption DEF TokenInv, TypeOK, AttemptStates, Past, Crash
<1>1. \A a \in Attempts :
          /\ tokens'[a] = NoToken
          /\ attempt[a].pc \notin AttemptInFlight => attempt'[a] = attempt[a]
          /\ attempt[a].pc \in AttemptInFlight => attempt'[a].pc = "failed"
  BY BlankTypes DEF Crash, AttemptStates
<1>2. \A a \in Attempts : attempt[a].pc = "unlocked" => attempt'[a] = attempt[a]
  BY <1>1 DEF AttemptInFlight
<1>3. \A u \in Uses : IF use[u].pc = "gate" THEN use'[u].pc = "failed" ELSE use'[u] = use[u]
  BY BlankTypes DEF Crash, UseStates
<1>4. TokensEarned'
  BY <1>1 DEF TokensEarned, NoToken
<1>5. TokensKept'
  BY <1>0, <1>1, <1>2 DEF TokensKept, AttemptInFlight
<1>6. GuessedRight'
  BY <1>1 DEF GuessedRight, TokenInv
<1>7. UsesGiven' /\ PassedOnlyUnlocked' /\ UnlockLasts'
  BY <1>2, <1>3, UsesKept DEF UsesGiven, PassedOnlyUnlocked, UnlockLasts
<1> QED
  BY <1>4, <1>5, <1>6, <1>7 DEF TokenInv

LEMMA TokenInvInit == Init => TokenInv
<1> SUFFICES ASSUME Init PROVE TokenInv
  OBVIOUS
<1>1. \A a \in Attempts : attempt[a].pc = "idle" /\ attempt[a].at = 0 /\ attempt[a].boot = 0
  BY DEF Init, NoAttempt
<1>2. \A c \in Attempts : tokens[c].share = NULL
  BY DEF Init, NoToken
<1>3. \A u \in Uses : use[u].pc = "idle"
  BY DEF Init, NoUse
<1>4. Past
  BY <1>1 DEF Init, Past
<1> QED
  BY <1>1, <1>2, <1>3, <1>4, InitTyped
     DEF TokenInv, TokensEarned, TokensKept, GuessedRight, UsesGiven, PassedOnlyUnlocked, UnlockLasts

LEMMA TokenInvStep == TokenInv /\ [Next]_gateVars => TokenInv'
<1> SUFFICES ASSUME TokenInv, [Next]_gateVars PROVE TokenInv'
  OBVIOUS
<1>0. /\ TypeOK' /\ Past' /\ now \in Nat /\ attempt \in [Attempts -> AttemptStates]
  BY StepTyped, StepPast, TimeType DEF TokenInv, TypeOK
<1>1. ASSUME NEW a \in Attempts, NEW id \in ShareIds, NEW ip \in Clients, NEW guess \in Passwords,
             Load(a, id, ip, guess), UNCHANGED <<now, password, use, sweeper, crashes>>
      PROVE  TokenInv'
  <2>1. tokens' = tokens /\ attempt[a].pc = "idle"
    BY <1>1 DEF Load
  <2> QED
    BY <1>0, <1>1, <2>1, LoadResult, QuietKeeps DEF TokenInv, GuessedRight
<1>2. ASSUME NEW a \in Attempts, Count(a) \/ Limit(a) \/ Wrong(a) \/ DatabaseFails(a) \/ Accept(a),
             UNCHANGED <<now, password, use, sweeper, crashes>>
      PROVE  TokenInv'
  <2>1. tokens' = tokens
    BY <1>2 DEF Count, Limit, Wrong, DatabaseFails, Accept
  <2>2. /\ attempt[a].pc \in AttemptInFlight
        /\ \A b \in Attempts : b # a => attempt'[b] = attempt[b]
    BY <1>0, <1>2, UnlockResult DEF Unlock
  <2>3. CASE Count(a) \/ Accept(a)
    <3>1. /\ attempt'[a].pc # "unlocked"
          /\ attempt'[a].pc = "mint" => attempt'[a].guess = attempt'[a].hash
      BY <1>0, <2>3 DEF Count, Accept, Goto, AttemptStates
    <3> QED
      BY <1>0, <1>2, <2>1, <2>2, <3>1, QuietKeeps DEF TokenInv, GuessedRight, AttemptInFlight
  <2>4. CASE Limit(a) \/ Wrong(a) \/ DatabaseFails(a)
    <3>1. attempt'[a].pc \in {"limited", "wrong", "failed"}
      BY <1>0, <2>4, BlankTypes DEF Limit, Wrong, DatabaseFails, Answer, AttemptStates
    <3> QED
      BY <1>0, <1>2, <2>1, <2>2, <3>1, QuietKeeps DEF TokenInv, GuessedRight, AttemptInFlight
  <2> QED
    BY <1>2, <2>3, <2>4
<1>3. ASSUME NEW a \in Attempts, Unlock(a), UNCHANGED <<now, password, use, sweeper, crashes>>
      PROVE  TokenInv'
  BY <1>0, <1>2, <1>3, MintKeeps DEF Unlock
<1>4. CASE UNCHANGED <<tokens, attempt, use, crashes>> /\ now' >= now
  BY <1>0, <1>4, QuietKeeps DEF TokenInv, GuessedRight
<1>5. CASE /\ SweepBegin \/ Sweep
           /\ UNCHANGED <<now, password, failed, authLock, attempt, use, crashes>>
  BY <1>0, <1>4, <1>5, SweepKeeps DEF SweepBegin
<1> QED
  BY <1>0, <1>1, <1>3, <1>4, <1>5, ReachKeeps, GateKeeps, CrashKeeps DEF Next, Tick, gateVars

LEMMA TokenInvariant == Spec => []TokenInv
BY TokenInvInit, TokenInvStep, PTL DEF Spec

\* Nobody passes the gate of a protected share without a token minted since
\* the last restart, for that share and address, not yet expired, for a guess
\* of the password the share had (is_unlocked).
THEOREM GatePassedOnlyUnlocked == Spec => []PassedOnlyUnlocked
<1>1. TokenInv => PassedOnlyUnlocked
  BY DEF TokenInv
<1> QED
  BY <1>1, TokenInvariant, PTL

\* Nobody with such a token is stopped, whatever the sweep and other requests
\* remove meanwhile (is_unlocked, sweep_unlock_tokens).
THEOREM GateUnlockLasts == Spec => []UnlockLasts
<1>1. TokenInv => UnlockLasts
  BY DEF TokenInv
<1> QED
  BY <1>1, TokenInvariant, PTL
=============================================================================
