----------------------------- MODULE UnlockGate -----------------------------
(***************************************************************************)
(* The password gate: unlock_share and is_unlocked of src/download.rs over *)
(* the failed_auth_attempts table, the failed_auth_lock and the            *)
(* unlock_tokens map, while the owner changes passwords, the cleanup task  *)
(* sweeps tokens and the process restarts.  A password hash stands for the *)
(* one password it verifies.                                               *)
(*                                                                         *)
(* Neither handler awaits: an action is one SQL statement or one critical  *)
(* section, and only a crash ends a handler between two of them.           *)
(***************************************************************************)
EXTENDS Naturals, FiniteSets

CONSTANTS
    ShareIds,
    Clients,     \* client addresses
    Attempts,    \* POST unlock calls; a call also names the token it mints
    Uses,        \* GET /download/:id calls that reach the gate
    Passwords,
    NULL,        \* no password, no token, nobody
    MaxFailures, \* failed_auth_max (5 in the code)
    Lookback,    \* failed_auth_window_secs, in ticks (300 s in the code)
    TokenTtl,    \* unlock_token_ttl_secs, in ticks (900 s by default)
    MaxTime,     \* bound on the clock
    MaxCrashes   \* bound on the number of crashes

ASSUME GateAssumption ==
    /\ NULL \notin Passwords \cup Attempts \cup ShareIds \cup Clients
    /\ MaxFailures \in Nat \ {0}
    /\ Lookback \in Nat
    /\ TokenTtl \in Nat \ {0}
    /\ MaxTime \in Nat
    /\ MaxCrashes \in Nat
    /\ IsFiniteSet(Attempts)

VARIABLES
    now,       \* the clock
    password,  \* password_hash of each share
    failed,    \* the failed_auth_attempts rows, named by their attempt
    authLock,  \* who holds failed_auth_lock
    tokens,    \* unlock_tokens: the token of each attempt
    attempt,   \* the unlock handlers
    use,       \* the download handlers at the gate
    sweeper,   \* the token sweep
    crashes    \* crashes so far

gateVars == <<now, password, failed, authLock, tokens, attempt, use, sweeper, crashes>>

----------------------------------------------------------------------------
(* POST /api/download/:id/unlock.                                          *)

Time == 0 .. MaxTime

NoToken == [share |-> NULL, client |-> NULL, expires_at |-> 0]

\* "at" is the time of the last clock reading; "boot" counts the restarts
\* before the token was minted, for the properties only
NoAttempt == [pc |-> "idle", share |-> NULL, client |-> NULL, guess |-> NULL,
              hash |-> NULL, at |-> 0, boot |-> 0]

AttemptFinal == {"unprotected", "refused", "limited", "wrong", "failed", "unlocked"}

Goto(a, pc) == attempt' = [attempt EXCEPT ![a].pc = pc]

\* The handler ends, and its locals with it
Answer(a, pc) == attempt' = [attempt EXCEPT ![a] = [NoAttempt EXCEPT !.pc = pc]]

\* The share is loaded before the lock is taken: its hash may be outdated by
\* the time it is verified.  A share that is not active is a 404.
Load(a, id, ip, guess) ==
    /\ attempt[a].pc = "idle"
    /\ \/ /\ password[id] # NULL
          /\ attempt' = [attempt EXCEPT ![a] =
                           [NoAttempt EXCEPT !.pc = "lock", !.share = id, !.client = ip,
                                             !.guess = guess, !.hash = password[id]]]
       \/ password[id] = NULL /\ Answer(a, "unprotected")
       \/ \E pc \in {"refused", "failed"} : Answer(a, pc)
    /\ UNCHANGED <<failed, authLock, tokens>>

\* Mutant: the failures of every address are counted
CrowdedRecentFailures(id, ip, t) ==
    {b \in failed : attempt[b].share = id /\ attempt[b].at + Lookback >= t}

\* The rows count_recent_failed_auth counts at time t: timestamp >= t - Lookback
RecentFailures(id, ip, t) ==
    {b \in failed : attempt[b].share = id /\ attempt[b].client = ip
                    /\ attempt[b].at + Lookback >= t}

\* Mutant: the count is taken before the lock
UnlockedCount(a) ==
    /\ attempt[a].pc = "lock"
    /\ Cardinality(RecentFailures(attempt[a].share, attempt[a].client, now)) < MaxFailures
    /\ Goto(a, "verify")
    /\ UNCHANGED <<failed, authLock, tokens>>

\* Inside the lock: below the limit the handler goes on and keeps it
Count(a) ==
    /\ attempt[a].pc = "lock"
    /\ authLock = NULL
    /\ Cardinality(RecentFailures(attempt[a].share, attempt[a].client, now)) < MaxFailures
    /\ Goto(a, "verify")
    /\ authLock' = a
    /\ UNCHANGED <<failed, tokens>>

\* At the limit it answers 429 and records nothing
Limit(a) ==
    /\ attempt[a].pc = "lock"
    /\ authLock = NULL
    /\ Cardinality(RecentFailures(attempt[a].share, attempt[a].client, now)) >= MaxFailures
    /\ Answer(a, "limited")
    /\ UNCHANGED <<failed, authLock, tokens>>

\* A wrong password is recorded, with a clock reading of its own, before the
\* lock is released
Wrong(a) ==
    /\ attempt[a].pc = "verify"
    /\ attempt[a].guess # attempt[a].hash
    /\ attempt' = [attempt EXCEPT ![a] =
                     [NoAttempt EXCEPT !.pc = "wrong", !.share = attempt[a].share,
                                       !.client = attempt[a].client, !.at = now]]
    /\ failed' = failed \cup {a}
    /\ authLock' = NULL
    /\ UNCHANGED tokens

\* Mutant: the lock is not released on the error path
LeakyDatabaseFails(a) ==
    /\ \/ attempt[a].pc = "lock" /\ authLock = NULL
       \/ attempt[a].pc = "verify" /\ attempt[a].guess # attempt[a].hash
    /\ Answer(a, "failed")
    /\ UNCHANGED <<failed, authLock, tokens>>

\* Counting or recording fails: a 500, and no row
DatabaseFails(a) ==
    /\ \/ attempt[a].pc = "lock" /\ authLock = NULL
       \/ attempt[a].pc = "verify" /\ attempt[a].guess # attempt[a].hash
    /\ Answer(a, "failed")
    /\ authLock' = NULL
    /\ UNCHANGED <<failed, tokens>>

Accept(a) ==
    /\ attempt[a].pc = "verify"
    /\ attempt[a].guess = attempt[a].hash
    /\ Goto(a, "mint")
    /\ authLock' = NULL
    /\ UNCHANGED <<failed, tokens>>

Mint(a) ==
    /\ attempt[a].pc = "mint"
    /\ tokens' = [tokens EXCEPT ![a] = [share      |-> attempt[a].share,
                                        client     |-> attempt[a].client,
                                        expires_at |-> now + TokenTtl]]
    /\ attempt' = [attempt EXCEPT ![a].pc = "unlocked", ![a].at = now, ![a].boot = crashes]
    /\ UNCHANGED <<failed, authLock>>

Unlock(a) ==
    Count(a) \/ Limit(a) \/ Wrong(a) \/ DatabaseFails(a) \/ Accept(a) \/ Mint(a)

----------------------------------------------------------------------------
(* The gate of GET /download/:id.                                          *)

NoUse == [pc |-> "idle", share |-> NULL, client |-> NULL, token |-> NULL,
          at |-> 0, boot |-> 0]

\* A browser sends a token it was given, for whatever share and from whatever
\* address, also when the server has forgotten it
Reach(u, id, ip, c) ==
    /\ use[u].pc = "idle"
    /\ c # NULL => attempt[c].pc = "unlocked"
    /\ use' = [use EXCEPT ![u] =
                 IF password[id] = NULL THEN [NoUse EXCEPT !.pc = "open"]
                 ELSE [NoUse EXCEPT !.pc = "gate", !.share = id, !.client = ip, !.token = c]]
    /\ UNCHANGED tokens

\* Mutant: the address of the token is not compared
RoamingTokenMatches(c, id, ip) ==
    c # NULL /\ tokens[c].expires_at > now /\ tokens[c].share = id

TokenMatches(c, id, ip) ==
    /\ c # NULL
    /\ tokens[c].expires_at > now
    /\ tokens[c].share = id
    /\ tokens[c].client = ip

\* is_unlocked: an expired token is removed on sight
Gate(u) ==
    LET c == use[u].token IN
    /\ use[u].pc = "gate"
    /\ use' = [use EXCEPT ![u].pc = IF TokenMatches(c, use[u].share, use[u].client)
                                    THEN "passed" ELSE "stopped",
                          ![u].at = now, ![u].boot = crashes]
    /\ tokens' = IF c # NULL /\ tokens[c].expires_at <= now
                 THEN [tokens EXCEPT ![c] = NoToken] ELSE tokens

----------------------------------------------------------------------------
(* The owner, the sweep, the clock, restarts.                              *)

SetPassword(id, p) == password' = [password EXCEPT ![id] = p]

\* Mutant: tokens about to expire are swept
EagerSweepBegin ==
    /\ sweeper.pc = "idle"
    /\ sweeper' = [pc |-> "retain", at |-> now + 1]
    /\ UNCHANGED tokens

\* sweep_unlock_tokens reads the clock before it has the mutex
SweepBegin ==
    /\ sweeper.pc = "idle"
    /\ sweeper' = [pc |-> "retain", at |-> now]
    /\ UNCHANGED tokens

\* Mutant: the last tick of a token is cut off
HastySweep ==
    /\ sweeper.pc = "retain"
    /\ tokens' = [c \in Attempts |-> IF tokens[c].expires_at > sweeper.at + 1
                                     THEN tokens[c] ELSE NoToken]
    /\ sweeper' = [pc |-> "idle", at |-> 0]

Sweep ==
    /\ sweeper.pc = "retain"
    /\ tokens' = [c \in Attempts |-> IF tokens[c].expires_at > sweeper.at
                                     THEN tokens[c] ELSE NoToken]
    /\ sweeper' = [pc |-> "idle", at |-> 0]

Tick == now < MaxTime /\ now' = now + 1

AttemptInFlight == {"lock", "verify", "mint"}

\* The rows of failed_auth_attempts and the passwords survive
Crash ==
    /\ crashes < MaxCrashes
    /\ crashes' = crashes + 1
    /\ tokens' = [c \in Attempts |-> NoToken]
    /\ authLock' = NULL
    /\ attempt' = [a \in Attempts |->
                     IF attempt[a].pc \in AttemptInFlight
                     THEN [NoAttempt EXCEPT !.pc = "failed"] ELSE attempt[a]]
    /\ use' = [u \in Uses |-> IF use[u].pc = "gate"
                              THEN [NoUse EXCEPT !.pc = "failed"] ELSE use[u]]
    /\ sweeper' = [pc |-> "idle", at |-> 0]
    /\ UNCHANGED <<now, password, failed>>

Init ==
    /\ now = 0
    /\ password \in [ShareIds -> Passwords \cup {NULL}]
    /\ failed = {}
    /\ authLock = NULL
    /\ tokens = [a \in Attempts |-> NoToken]
    /\ attempt = [a \in Attempts |-> NoAttempt]
    /\ use = [u \in Uses |-> NoUse]
    /\ sweeper = [pc |-> "idle", at |-> 0]
    /\ crashes = 0

Next ==
    \/ \E a \in Attempts :
          /\ \/ \E id \in ShareIds, ip \in Clients, guess \in Passwords : Load(a, id, ip, guess)
             \/ Unlock(a)
          /\ UNCHANGED <<now, password, use, sweeper, crashes>>
    \/ \E u \in Uses :
          /\ \/ \E id \in ShareIds, ip \in Clients, c \in Attempts \cup {NULL} : Reach(u, id, ip, c)
             \/ Gate(u)
          /\ UNCHANGED <<now, password, failed, authLock, attempt, sweeper, crashes>>
    \/ \E id \in ShareIds, p \in Passwords \cup {NULL} :
          /\ SetPassword(id, p)
          /\ UNCHANGED <<now, failed, authLock, tokens, attempt, use, sweeper, crashes>>
    \/ /\ SweepBegin \/ Sweep
       /\ UNCHANGED <<now, password, failed, authLock, attempt, use, crashes>>
    \/ Tick /\ UNCHANGED <<password, failed, authLock, tokens, attempt, use, sweeper, crashes>>
    \/ Crash

Spec == Init /\ [][Next]_gateVars

----------------------------------------------------------------------------
(* Properties.                                                             *)

AttemptStates == [pc     : {"idle"} \cup AttemptInFlight \cup AttemptFinal,
                  share  : ShareIds \cup {NULL},
                  client : Clients \cup {NULL},
                  guess  : Passwords \cup {NULL},
                  hash   : Passwords \cup {NULL},
                  at     : Time,
                  boot   : 0 .. MaxCrashes]

UseStates == [pc     : {"idle", "open", "gate", "passed", "stopped", "failed"},
              share  : ShareIds \cup {NULL},
              client : Clients \cup {NULL},
              token  : Attempts \cup {NULL},
              at     : Time,
              boot   : 0 .. MaxCrashes]

Tokens == [share      : ShareIds \cup {NULL},
           client     : Clients \cup {NULL},
           expires_at : 0 .. MaxTime + TokenTtl]

\* Every variable has its type.
TypeOK ==
    /\ now \in Time
    /\ password \in [ShareIds -> Passwords \cup {NULL}]
    /\ failed \subseteq Attempts
    /\ authLock \in Attempts \cup {NULL}
    /\ tokens \in [Attempts -> Tokens]
    /\ attempt \in [Attempts -> AttemptStates]
    /\ use \in [Uses -> UseStates]
    /\ sweeper \in [pc : {"idle", "retain"}, at : Time]
    /\ crashes \in 0 .. MaxCrashes

\* However many guesses run in parallel, and across restarts, no period of
\* Lookback holds more than MaxFailures wrong guesses of one address at one
\* share: failed_auth_lock makes the count and the record one step.
FailureBudget ==
    \A id \in ShareIds, ip \in Clients, first \in Time :
        Cardinality({a \in Attempts :
                        /\ attempt[a].pc = "wrong"
                        /\ attempt[a].share = id /\ attempt[a].client = ip
                        /\ first <= attempt[a].at /\ attempt[a].at <= first + Lookback})
            <= MaxFailures

\* A 429 is only ever the consequence of wrong guesses: neither correct
\* passwords, nor refused attempts, nor other clients' guesses count.
LimitedOnlyByWrongGuesses ==
    [][\A a \in Attempts :
          attempt[a].pc # "limited" /\ attempt'[a].pc = "limited" =>
              Cardinality({b \in Attempts :
                              /\ attempt[b].pc = "wrong"
                              /\ attempt[b].share = attempt[a].share
                              /\ attempt[b].client = attempt[a].client
                              /\ attempt[b].at + Lookback >= now}) >= MaxFailures]_gateVars

\* The token c is good for a use of this share from this address at this time:
\* it was minted since the last restart, no longer than TokenTtl ago, for an
\* attempt that gave the password the share had when it was loaded.
GoodFor(c, u) ==
    /\ c # NULL
    /\ attempt[c].pc = "unlocked"
    /\ attempt[c].guess = attempt[c].hash
    /\ attempt[c].share = use[u].share
    /\ attempt[c].client = use[u].client
    /\ attempt[c].boot = use[u].boot
    /\ use[u].at < attempt[c].at + TokenTtl

\* Nobody passes the gate of a protected share without such a token ...
PassedOnlyUnlocked == \A u \in Uses : use[u].pc = "passed" => GoodFor(use[u].token, u)

\* ... and nobody with one is stopped, whatever the sweep or other requests
\* removed meanwhile.
UnlockLasts == \A u \in Uses : use[u].pc = "stopped" => ~GoodFor(use[u].token, u)

\* The unlock handlers run on; a client owes nothing.
Fairness ==
    \A a \in Attempts : WF_gateVars(Unlock(a) /\ UNCHANGED <<now, password, use, sweeper, crashes>>)

FairSpec == Spec /\ Fairness

\* Every unlock attempt is answered: no path leaves the handler with the lock.
AttemptsAnswered ==
    \A a \in Attempts : attempt[a].pc # "idle" ~> attempt[a].pc \in AttemptFinal
=============================================================================
