---------------------------- MODULE RateLimiter ----------------------------
(***************************************************************************)
(* The sliding-window limiter of src/auth.rs as the public listener uses   *)
(* it.  check() reads the clock before it locks the map, so a call may be  *)
(* judged by a time that is already past, after calls with a later one.    *)
(* Only GET /download/:id consults the limiter (src/download.rs:271).      *)
(***************************************************************************)
EXTENDS Naturals, FiniteSets

CONSTANTS
    Calls,        \* public requests, each made at most once
    Clients,      \* client addresses
    NULL,         \* no address yet
    Window,       \* length of the window, in ticks (60 s in the code)
    MaxRequests,  \* calls allowed per window (120 by default)
    MaxLag,       \* bound on the time a thread waits for the map's mutex
    MaxTime       \* bound on the clock

ASSUME LimiterAssumption ==
    /\ NULL \notin Clients
    /\ Window \in Nat \ {0}
    /\ MaxRequests \in Nat
    /\ MaxLag \in 0 .. Window
    /\ MaxTime \in Nat
    /\ IsFiniteSet(Calls)

VARIABLES
    now,      \* the monotonic clock
    call,     \* each request: where it is, its address, its time stamp
    hits,     \* the calls whose stamps the map holds, per address
    sweeper   \* the periodic sweep: where it is, its time stamp

limiterVars == <<now, call, hits, sweeper>>

----------------------------------------------------------------------------

Time == 0 .. MaxTime

\* Instant::duration_since saturates when u is later than t
Age(t, u) == IF u <= t THEN t - u ELSE 0

\* Mutant: a stamp expires one tick early
EagerFresh(entries, t) == {q \in entries : Age(t, call[q].at) + 1 < Window}

\* The stamps retain() keeps at time t
Fresh(entries, t) == {q \in entries : Age(t, call[q].at) < Window}

\* A request reaches its handler.  Those of the recipient page, the share's
\* metadata and the unlock endpoint are handled without asking the limiter.
Arrive(c, ip) ==
    /\ call[c].pc = "idle"
    /\ \E pc \in {"check", "unmetered"} :
          call' = [call EXCEPT ![c] = [pc |-> pc, client |-> ip, at |-> now]]
    /\ UNCHANGED hits

\* Mutant: refused calls are pushed as well
PenalisingCheck(c) ==
    LET ip == call[c].client
        kept == Fresh(hits[ip], call[c].at) IN
    /\ call[c].pc = "check"
    /\ call' = [call EXCEPT ![c].pc = IF Cardinality(kept) >= MaxRequests
                                      THEN "denied" ELSE "admitted"]
    /\ hits' = [hits EXCEPT ![ip] = kept \cup {c}]

\* The critical section: drop stale stamps, then refuse or push
Check(c) ==
    LET ip == call[c].client
        kept == Fresh(hits[ip], call[c].at) IN
    /\ call[c].pc = "check"
    /\ IF Cardinality(kept) >= MaxRequests
       THEN /\ call' = [call EXCEPT ![c].pc = "denied"]
            /\ hits' = [hits EXCEPT ![ip] = kept]
       ELSE /\ call' = [call EXCEPT ![c].pc = "admitted"]
            /\ hits' = [hits EXCEPT ![ip] = kept \cup {c}]

\* Mutant: the clock is rounded up
EarlySweepBegin ==
    /\ sweeper.pc = "idle"
    /\ sweeper' = [pc |-> "sweep", at |-> now + 1]
    /\ UNCHANGED hits

\* sweep() reads the clock, then locks the map
SweepBegin ==
    /\ sweeper.pc = "idle"
    /\ sweeper' = [pc |-> "sweep", at |-> now]
    /\ UNCHANGED hits

Sweep ==
    /\ sweeper.pc = "sweep"
    /\ hits' = [ip \in Clients |-> Fresh(hits[ip], sweeper.at)]
    /\ sweeper' = [pc |-> "idle", at |-> 0]

\* Nobody waits for the mutex longer than MaxLag: its critical sections are short
Tick ==
    /\ now < MaxTime
    /\ \A c \in Calls : call[c].pc = "check" => now < call[c].at + MaxLag
    /\ now' = now + 1

Init ==
    /\ now = 0
    /\ call = [c \in Calls |-> [pc |-> "idle", client |-> NULL, at |-> 0]]
    /\ hits = [ip \in Clients |-> {}]
    /\ sweeper = [pc |-> "idle", at |-> 0]

Next ==
    \/ \E c \in Calls : /\ (\E ip \in Clients : Arrive(c, ip)) \/ Check(c)
                        /\ UNCHANGED <<now, sweeper>>
    \/ (SweepBegin \/ Sweep) /\ UNCHANGED <<now, call>>
    \/ Tick /\ UNCHANGED <<call, hits, sweeper>>

Spec == Init /\ [][Next]_limiterVars

----------------------------------------------------------------------------

CallStates == [pc     : {"idle", "check", "unmetered", "admitted", "denied"},
               client : Clients \cup {NULL},
               at     : Time]

\* Every variable has its type.
TypeOK ==
    /\ now \in Time
    /\ call \in [Calls -> CallStates]
    /\ hits \in [Clients -> SUBSET Calls]
    /\ sweeper \in [pc : {"idle", "sweep"}, at : Time]

Admitted(ip) == {q \in Calls : call[q].pc = "admitted" /\ call[q].client = ip}

Within(set, first, length) ==
    {q \in set : first <= call[q].at /\ call[q].at < first + length}

\* The limiter's budget: whatever the order in which stamped calls reach the
\* map, and whatever the sweep removes in between, no more than MaxRequests
\* calls of one address are admitted in any window, shortened by the time a
\* call may have waited for the mutex.
WindowBudget ==
    \A ip \in Clients, first \in Time :
        Cardinality(Within(Admitted(ip), first, Window - MaxLag)) <= MaxRequests

\* Refused calls do not extend the wait: a call is refused only when that many
\* admitted calls of its address are still inside the window.
DeniedOnlyWhenFull ==
    [][\A c \in Calls :
          call[c].pc # "denied" /\ call'[c].pc = "denied" =>
              Cardinality(Fresh(Admitted(call[c].client), call[c].at)) >= MaxRequests]_limiterVars

\* "Global per-IP request budget on the public listener (requests / minute)"
\* (src/.env.example:28): all requests an address makes to the public listener
\* are counted, so no window holds more than MaxRequests handled ones.
ListenerBudget ==
    \A ip \in Clients, first \in Time :
        Cardinality(Within({q \in Calls : call[q].client = ip
                                          /\ call[q].pc \in {"admitted", "unmetered"}},
                           first, Window)) <= MaxRequests
=============================================================================
