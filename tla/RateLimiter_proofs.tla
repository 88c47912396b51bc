------------------------- MODULE RateLimiter_proofs -------------------------
(***************************************************************************)
(* Proofs about RateLimiter, for any number of calls and addresses, any    *)
(* window, budget and bound on the lag.                                    *)
(*                                                                         *)
(* The budget follows from what the map may have lost: a stamp is dropped  *)
(* by a call or by the sweep at a time that is already past, so an         *)
(* admitted call the map has forgotten is older than the window by the     *)
(* clock; and since a call waits at most MaxLag for the mutex, the map     *)
(* still holds every stamp that shares a shortened window with it.         *)
(***************************************************************************)
EXTENDS RateLimiter, FiniteSetTheorems, TLAPS

\* Times that were read are past; a call that waits does so for MaxLag at most
StampsPast ==
    /\ sweeper.at <= now
    /\ \A c \in Calls :
          /\ call[c].at <= now
          /\ call[c].pc = "check" => call[c].client \in Clients /\ now <= call[c].at + MaxLag

\* The map holds admitted calls only ...
HitsAdmitted == \A ip \in Clients : hits[ip] \subseteq Admitted(ip)

\* ... and those it does not hold have left the window
OnlyStaleForgotten ==
    \A ip \in Clients : \A q \in Admitted(ip) : q \in hits[ip] \/ call[q].at + Window <= now

LimiterInv ==
    TypeOK /\ StampsPast /\ HitsAdmitted /\ OnlyStaleForgotten /\ WindowBudget

----------------------------------------------------------------------------
(* Types.                                                                  *)

LEMMA TimeType == \A t \in Time : t \in Nat /\ t <= MaxTime
BY LimiterAssumption DEF Time

LEMMA InitTyped == Init => TypeOK
BY LimiterAssumption DEF Init, TypeOK, CallStates, Time

LEMMA StepTyped == TypeOK /\ StampsPast /\ [Next]_limiterVars => TypeOK'
<1> SUFFICES ASSUME TypeOK, StampsPast, [Next]_limiterVars PROVE TypeOK'
  OBVIOUS
<1> USE DEF TypeOK
<1>1. ASSUME NEW c \in Calls, NEW ip \in Clients, Arrive(c, ip), UNCHANGED <<now, sweeper>>
      PROVE  TypeOK'
  <2>1. PICK pc \in {"check", "unmetered"} :
            call' = [call EXCEPT ![c] = [pc |-> pc, client |-> ip, at |-> now]]
    BY <1>1 DEF Arrive
  <2>2. [pc |-> pc, client |-> ip, at |-> now] \in CallStates
    BY DEF CallStates
  <2> QED
    BY <1>1, <2>1, <2>2 DEF Arrive
<1>2. ASSUME NEW c \in Calls, Check(c), UNCHANGED <<now, sweeper>>
      PROVE  TypeOK'
  <2>1. \A pc \in {"admitted", "denied"} : [call[c] EXCEPT !.pc = pc] \in CallStates
    BY DEF CallStates
  <2>2. call' \in [Calls -> CallStates]
    BY <1>2, <2>1 DEF Check
  <2>3. call[c].client \in Clients
    BY <1>2 DEF Check, StampsPast
  <2>4. Fresh(hits[call[c].client], call[c].at) \subseteq Calls
    BY <2>3 DEF Fresh
  <2>5. hits' \in [Clients -> SUBSET Calls]
    BY <1>2, <2>4 DEF Check
  <2> QED
    BY <1>2, <2>2, <2>5
<1>3. CASE (SweepBegin \/ Sweep) /\ UNCHANGED <<now, call>>
  <2>1. 0 \in Time
    BY LimiterAssumption DEF Time
  <2> QED
    BY <1>3, <2>1 DEF SweepBegin, Sweep, Fresh
<1>4. CASE Tick /\ UNCHANGED <<call, hits, sweeper>>
  BY <1>4, LimiterAssumption DEF Tick, Time
<1>5. CASE UNCHANGED limiterVars
  BY <1>5 DEF limiterVars
<1> QED
  BY <1>1, <1>2, <1>3, <1>4, <1>5 DEF Next

----------------------------------------------------------------------------
(* What dropping stale stamps loses.                                       *)

LEMMA DroppedIsStale ==
    ASSUME TypeOK, NEW entries \in SUBSET Calls, NEW t \in Time, t <= now,
           NEW q \in entries, q \notin Fresh(entries, t)
    PROVE  call[q].at + Window <= now
<1>1. call[q].at \in Nat /\ t \in Nat /\ now \in Nat /\ Window \in Nat \ {0}
  BY TimeType, LimiterAssumption DEF TypeOK, CallStates
<1>2. ~(Age(t, call[q].at) < Window)
  BY DEF Fresh
<1> QED
  BY <1>1, <1>2 DEF Age

\* The sets of calls are finite.
LEMMA CallsFinite ==
    ASSUME NEW S \in SUBSET Calls
    PROVE  IsFiniteSet(S) /\ Cardinality(S) \in Nat
<1>1. IsFiniteSet(S)
  BY FS_Subset, LimiterAssumption
<1> QED
  BY <1>1, FS_CardinalityType

----------------------------------------------------------------------------
(* One step of each kind keeps the invariant.                              *)

LEMMA ArriveKeeps ==
    ASSUME LimiterInv, TypeOK', NEW c \in Calls, NEW ip \in Clients,
           Arrive(c, ip), UNCHANGED <<now, sweeper>>
    PROVE  LimiterInv'
<1> USE DEF LimiterInv
<1>1. PICK pc \in {"check", "unmetered"} :
          call' = [call EXCEPT ![c] = [pc |-> pc, client |-> ip, at |-> now]]
  BY DEF Arrive
<1>2. /\ call \in [Calls -> CallStates]
      /\ call[c].pc = "idle"
      /\ hits' = hits
      /\ call'[c] = [pc |-> pc, client |-> ip, at |-> now]
      /\ \A q \in Calls : q # c => call'[q] = call[q]
  BY <1>1 DEF Arrive, TypeOK
<1>3. now \in Nat /\ MaxLag \in Nat
  BY TimeType, LimiterAssumption DEF TypeOK
<1>4. StampsPast'
  BY <1>2, <1>3 DEF StampsPast
<1>5. \A i \in Clients : Admitted(i)' = Admitted(i) /\ c \notin Admitted(i)
  BY <1>2 DEF Admitted
<1>6. \A i \in Clients : \A q \in Admitted(i) : call'[q] = call[q]
  BY <1>2, <1>5 DEF Admitted
<1>7. HitsAdmitted' /\ OnlyStaleForgotten'
  BY <1>2, <1>5, <1>6 DEF HitsAdmitted, OnlyStaleForgotten
<1>8. \A i \in Clients, first \in Time :
          Within(Admitted(i), first, Window - MaxLag)'
              = Within(Admitted(i), first, Window - MaxLag)
  BY <1>5, <1>6 DEF Within
<1>9. WindowBudget'
  BY <1>8 DEF WindowBudget
<1> QED
  BY <1>4, <1>7, <1>9

\* A call that is let in shares a shortened window only with calls the map
\* still held when it was counted.
LEMMA SharesWindowWithKept ==
    ASSUME LimiterInv, NEW c \in Calls, call[c].pc = "check",
           NEW first \in Time,
           first <= call[c].at, call[c].at < first + (Window - MaxLag)
    PROVE  Within(Admitted(call[c].client), first, Window - MaxLag)
               \subseteq Fresh(hits[call[c].client], call[c].at)
<1> DEFINE ip == call[c].client
           t == call[c].at
<1> SUFFICES ASSUME NEW q \in Within(Admitted(ip), first, Window - MaxLag)
             PROVE  q \in Fresh(hits[ip], t)
  OBVIOUS
<1>1. /\ q \in Calls /\ q \in Admitted(ip) /\ ip \in Clients
      /\ first <= call[q].at /\ call[q].at < first + (Window - MaxLag)
      /\ now <= t + MaxLag
  BY DEF Within, Admitted, LimiterInv, StampsPast
<1>2. /\ call[q].at \in Nat /\ t \in Nat /\ now \in Nat /\ first \in Nat
      /\ Window \in Nat /\ MaxLag \in Nat /\ MaxLag <= Window /\ Window > 0
  BY <1>1, TimeType, LimiterAssumption DEF LimiterInv, TypeOK, CallStates
<1>3. ~(call[q].at + Window <= now)
  BY <1>1, <1>2
<1>4. q \in hits[ip]
  BY <1>1, <1>3 DEF LimiterInv, OnlyStaleForgotten
<1>5. Age(t, call[q].at) < Window
  BY <1>1, <1>2 DEF Age
<1> QED
  BY <1>4, <1>5 DEF Fresh

LEMMA CheckKeeps ==
    ASSUME LimiterInv, TypeOK', NEW c \in Calls, Check(c), UNCHANGED <<now, sweeper>>
    PROVE  LimiterInv'
<1>0. PICK ip \in Clients, t \in Time : ip = call[c].client /\ t = call[c].at
  BY DEF Check, LimiterInv, StampsPast, TypeOK, CallStates
<1> DEFINE kept == Fresh(hits[ip], t)
           full == Cardinality(kept) >= MaxRequests
<1>1. /\ call \in [Calls -> CallStates] /\ hits \in [Clients -> SUBSET Calls]
      /\ call[c].pc = "check" /\ t <= now
  BY <1>0 DEF Check, LimiterInv, StampsPast, TypeOK, CallStates
<1>2. /\ call'[c].client = ip /\ call'[c].at = t
      /\ call'[c].pc = IF full THEN "denied" ELSE "admitted"
      /\ hits'[ip] = IF full THEN kept ELSE kept \cup {c}
      /\ \A q \in Calls : q # c => call'[q] = call[q]
      /\ \A i \in Clients : i # ip => hits'[i] = hits[i]
  <2>1. /\ call' = [call EXCEPT ![c].pc = IF full THEN "denied" ELSE "admitted"]
        /\ hits' = [hits EXCEPT ![ip] = IF full THEN kept ELSE kept \cup {c}]
    BY <1>0 DEF Check
  <2> HIDE DEF kept, full
  <2> QED
    BY <1>0, <1>1, <2>1 DEF CallStates
<1>9. \A q \in Calls : call'[q].at = call[q].at
  BY <1>0, <1>2
<1>3. /\ kept \subseteq hits[ip]
      /\ \A q \in hits[ip] : q \in kept \/ call[q].at + Window <= now
  BY <1>1, DroppedIsStale DEF Fresh, LimiterInv
<1>4. StampsPast'
  BY <1>1, <1>2, <1>9 DEF LimiterInv, StampsPast
<1>5. /\ Admitted(ip)' = IF full THEN Admitted(ip) ELSE Admitted(ip) \cup {c}
      /\ \A i \in Clients : i # ip => Admitted(i)' = Admitted(i)
      /\ Admitted(ip) \subseteq Calls
  BY <1>0, <1>1, <1>2 DEF Admitted
<1>6. HitsAdmitted'
  BY <1>1, <1>2, <1>3, <1>5 DEF LimiterInv, HitsAdmitted
<1>7. OnlyStaleForgotten'
  <2> SUFFICES ASSUME NEW i \in Clients, NEW q \in Admitted(i)'
               PROVE  q \in hits'[i] \/ call[q].at + Window <= now
    BY <1>9 DEF OnlyStaleForgotten, Admitted
  <2>1. CASE i # ip
    BY <2>1, <1>2, <1>5 DEF LimiterInv, OnlyStaleForgotten
  <2>2. CASE i = ip
    BY <2>2, <1>1, <1>2, <1>3, <1>5 DEF LimiterInv, OnlyStaleForgotten
  <2> QED
    BY <2>1, <2>2
<1>8. WindowBudget'
  <2> SUFFICES ASSUME NEW i \in Clients, NEW first \in Time
               PROVE  Cardinality(Within(Admitted(i), first, Window - MaxLag)') <= MaxRequests
    BY DEF WindowBudget
  <2> DEFINE W == Within(Admitted(i), first, Window - MaxLag)
  <2>1. Cardinality(W) <= MaxRequests
    BY DEF LimiterInv, WindowBudget
  <2>2. CASE Admitted(i)' = Admitted(i)
    <3>1. W' = W
      BY <2>2, <1>9 DEF Within, Admitted
    <3> QED
      BY <2>1, <3>1
  <2>3. CASE i = ip /\ ~full /\ ~(first <= t /\ t < first + (Window - MaxLag))
    <3>1. W' = W
      BY <2>3, <1>9, <1>5, <1>2 DEF Within
    <3> QED
      BY <2>1, <3>1
  <2>4. CASE i = ip /\ ~full /\ first <= t /\ t < first + (Window - MaxLag)
    <3>1. W \subseteq kept
      BY <2>4, <1>0, <1>1, SharesWindowWithKept
    <3>2. W' \subseteq kept \cup {c}
      BY <2>4, <3>1, <1>9, <1>5, <1>2 DEF Within
    <3>3. kept \subseteq Calls
      BY <1>1, <1>3
    <3>4. IsFiniteSet(kept) /\ Cardinality(kept) \in Nat
      BY <3>3, CallsFinite
    <3>5. IsFiniteSet(kept \cup {c}) /\ Cardinality(kept \cup {c}) <= Cardinality(kept) + 1
      <4> HIDE DEF kept
      <4>1. /\ IsFiniteSet(kept \cup {c})
            /\ Cardinality(kept \cup {c}) = IF c \in kept THEN Cardinality(kept)
                                                          ELSE Cardinality(kept) + 1
        BY <3>4, FS_AddElement
      <4> QED
        BY <3>4, <4>1
    <3>6. Cardinality(W') <= Cardinality(kept \cup {c})
      BY <3>2, <3>5, FS_Subset
    <3>7. /\ Cardinality(W') \in Nat /\ Cardinality(kept \cup {c}) \in Nat
      BY <3>2, <3>3, CallsFinite
    <3> QED
      BY <2>4, <3>4, <3>5, <3>6, <3>7, LimiterAssumption
  <2> QED
    BY <2>2, <2>3, <2>4, <1>5
<1> QED
  BY <1>4, <1>6, <1>7, <1>8 DEF LimiterInv

LEMMA SweepKeeps ==
    ASSUME LimiterInv, TypeOK', SweepBegin \/ Sweep, UNCHANGED <<now, call>>
    PROVE  LimiterInv'
<1>1. /\ now \in Nat /\ sweeper.at \in Time /\ sweeper.at <= now
      /\ hits \in [Clients -> SUBSET Calls]
  BY TimeType DEF LimiterInv, StampsPast, TypeOK
<1>2. sweeper'.at <= now
  BY <1>1 DEF SweepBegin, Sweep
<1>3. \A i \in Clients : /\ hits'[i] \subseteq hits[i]
                         /\ \A q \in hits[i] : q \in hits'[i] \/ call[q].at + Window <= now
  BY <1>1, DroppedIsStale DEF SweepBegin, Sweep, Fresh, LimiterInv
<1>4. \A i \in Clients : Admitted(i)' = Admitted(i)
  BY DEF Admitted
<1>5. StampsPast'
  BY <1>2 DEF StampsPast, LimiterInv
<1>6. HitsAdmitted' /\ OnlyStaleForgotten'
  BY <1>3, <1>4 DEF HitsAdmitted, OnlyStaleForgotten, LimiterInv
<1>7. WindowBudget'
  BY <1>4 DEF WindowBudget, Within, Admitted, LimiterInv
<1> QED
  BY <1>5, <1>6, <1>7 DEF LimiterInv

LEMMA TickKeeps ==
    ASSUME LimiterInv, TypeOK', Tick, UNCHANGED <<call, hits, sweeper>>
    PROVE  LimiterInv'
<1>0. /\ now \in Nat /\ sweeper.at \in Nat /\ MaxLag \in Nat /\ Window \in Nat
      /\ \A c \in Calls : call[c].at \in Nat
  BY TimeType, LimiterAssumption DEF LimiterInv, TypeOK, CallStates
<1>1. /\ now' = now + 1
      /\ \A c \in Calls : call[c].pc = "check" => now < call[c].at + MaxLag
  BY DEF Tick
<1>2. StampsPast'
  BY <1>0, <1>1 DEF LimiterInv, StampsPast
<1>3. \A i \in Clients : Admitted(i)' = Admitted(i) /\ Admitted(i) \subseteq Calls
  BY DEF Admitted
<1>4. HitsAdmitted' /\ OnlyStaleForgotten'
  BY <1>0, <1>1, <1>3 DEF LimiterInv, HitsAdmitted, OnlyStaleForgotten
<1>5. WindowBudget'
  BY <1>3 DEF LimiterInv, WindowBudget, Within, Admitted
<1> QED
  BY <1>2, <1>4, <1>5 DEF LimiterInv

----------------------------------------------------------------------------
(* The theorems.                                                           *)

LEMMA LimiterInvInit == Init => LimiterInv
<1> SUFFICES ASSUME Init PROVE LimiterInv
  OBVIOUS
<1>1. TypeOK
  BY InitTyped
<1>2. StampsPast
  BY LimiterAssumption DEF Init, StampsPast
<1>3. \A ip \in Clients : Admitted(ip) = {} /\ hits[ip] = {}
  BY DEF Init, Admitted
<1>4. HitsAdmitted /\ OnlyStaleForgotten
  BY <1>3 DEF HitsAdmitted, OnlyStaleForgotten
<1>5. \A ip \in Clients, first \in Time : Within(Admitted(ip), first, Window - MaxLag) = {}
  BY <1>3 DEF Within
<1>6. WindowBudget
  BY <1>5, FS_EmptySet, LimiterAssumption DEF WindowBudget
<1> QED
  BY <1>1, <1>2, <1>4, <1>6 DEF LimiterInv

LEMMA LimiterInvStep == LimiterInv /\ [Next]_limiterVars => LimiterInv'
<1> SUFFICES ASSUME LimiterInv, [Next]_limiterVars PROVE LimiterInv'
  OBVIOUS
<1>1. TypeOK'
  BY StepTyped DEF LimiterInv
<1>2. CASE UNCHANGED limiterVars
  BY <1>2, <1>1 DEF LimiterInv, limiterVars, StampsPast, HitsAdmitted, OnlyStaleForgotten,
                    WindowBudget, Admitted, Within
<1> QED
  BY <1>1, <1>2, ArriveKeeps, CheckKeeps, SweepKeeps, TickKeeps DEF Next

LEMMA LimiterInvariant == Spec => []LimiterInv
BY LimiterInvInit, LimiterInvStep, PTL DEF Spec

\* Type correctness of the limiter.
THEOREM LimiterTyped == Spec => []TypeOK
<1>1. LimiterInv => TypeOK
  BY DEF LimiterInv
<1> QED
  BY <1>1, LimiterInvariant, PTL

\* For any number of calls and addresses, whatever the order in which stamped
\* calls reach the map and whatever the sweep removes, no window shortened by
\* the lag holds more admitted calls than the budget (RateLimiter::check).
THEOREM LimiterWindowBudget == Spec => []WindowBudget
<1>1. LimiterInv => WindowBudget
  BY DEF LimiterInv
<1> QED
  BY <1>1, LimiterInvariant, PTL

\* A call is refused only when that many admitted calls of its address are
\* inside the window: refused calls are not pushed, and a forgotten one never
\* comes back (RateLimiter::check).
THEOREM LimiterDeniedOnlyWhenFull == Spec => DeniedOnlyWhenFull
<1> DEFINE Denial ==
        \A c \in Calls :
            call[c].pc # "denied" /\ call'[c].pc = "denied" =>
                Cardinality(Fresh(Admitted(call[c].client), call[c].at)) >= MaxRequests
<1>1. LimiterInv /\ [Next]_limiterVars => [Denial]_limiterVars
  <2> SUFFICES ASSUME LimiterInv, Next, NEW c \in Calls,
                      call[c].pc # "denied", call'[c].pc = "denied"
               PROVE  Cardinality(Fresh(Admitted(call[c].client), call[c].at)) >= MaxRequests
    OBVIOUS
  <2> DEFINE kept == Fresh(hits[call[c].client], call[c].at)
             inside == Fresh(Admitted(call[c].client), call[c].at)
  <2>1. call \in [Calls -> CallStates]
    BY DEF LimiterInv, TypeOK
  <2>2. ASSUME NEW d \in Calls, NEW ip \in Clients, Arrive(d, ip)
        PROVE  FALSE
    BY <2>1, <2>2 DEF Arrive
  <2>3. PICK d \in Calls : Check(d)
    BY <2>2 DEF Next, Tick
  <2>4. d = c
    BY <2>1, <2>3 DEF Check
  <2>5. call[c].client \in Clients /\ Cardinality(kept) >= MaxRequests
    <3>1. call[c].pc = "check" /\ (Cardinality(kept) < MaxRequests => call'[c].pc = "admitted")
      <4> HIDE DEF kept
      <4>1. /\ call[c].pc = "check"
            /\ call' = [call EXCEPT ![c].pc = IF Cardinality(kept) >= MaxRequests
                                              THEN "denied" ELSE "admitted"]
        BY <2>3, <2>4 DEF Check, kept
      <4>2. Cardinality(kept) \in Nat /\ MaxRequests \in Nat
        BY <4>1, CallsFinite, LimiterAssumption DEF kept, Fresh, LimiterInv, StampsPast, TypeOK
      <4> QED
        BY <2>1, <4>1, <4>2 DEF CallStates
    <3>2. Cardinality(kept) \in Nat /\ MaxRequests \in Nat
      BY <3>1, CallsFinite, LimiterAssumption DEF Fresh, LimiterInv, StampsPast, TypeOK
    <3> QED
      BY <3>1, <3>2 DEF LimiterInv, StampsPast
  <2>6. kept \subseteq inside /\ inside \subseteq Calls
    BY <2>5 DEF Fresh, Admitted, LimiterInv, HitsAdmitted
  <2>7. IsFiniteSet(inside) /\ Cardinality(inside) \in Nat /\ Cardinality(kept) \in Nat
    BY <2>6, CallsFinite
  <2>8. Cardinality(kept) <= Cardinality(inside)
    BY <2>6, <2>7, FS_Subset
  <2> QED
    BY <2>5, <2>7, <2>8, LimiterAssumption
<1>2. DeniedOnlyWhenFull <=> [][Denial]_limiterVars
  BY PTL DEF DeniedOnlyWhenFull
<1> QED
  BY <1>1, <1>2, LimiterInvariant, PTL DEF Spec
=============================================================================
