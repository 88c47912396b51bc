----------------------------- MODULE Admission -----------------------------
(***************************************************************************)
(* Who may download: the public handlers share_page and download of        *)
(* src/download.rs, the owner's update_share, revoke_share and             *)
(* delete_share of src/shares.rs, and the cleanup task of src/main.rs, all *)
(* running concurrently over the shares table of ShareRegistry and the     *)
(* download_sessions map of AppState.                                      *)
(*                                                                         *)
(* A handler is a process with a program counter.  One action is one SQL   *)
(* statement, one critical section of the sessions mutex, or one read of   *)
(* the clock; between two of them any other process may run, and at an     *)
(* await the handler may be dropped because its client went away.  The     *)
(* process may be killed at any moment: the table survives, the sessions   *)
(* and every handler in flight do not.                                     *)
(***************************************************************************)
EXTENDS ShareRegistry

CONSTANTS
    Clients,     \* client addresses, as client_ip computes them
    Requests,    \* GET /download/:id calls, each made at most once
    Visits,      \* GET /s/:id calls; a visit also names the token it mints
    Updates,     \* PATCH /api/shares/:id calls
    Settings,    \* the settings an owner enters for a new share or an update
    Keep,        \* "this setting is not part of the update"
    SessionTtl,  \* lifetime of a download session (86 400 s in the code)
    MaxCrashes   \* bound on the number of crashes

ASSUME AdmissionAssumption ==
    /\ NULL \notin Visits /\ NULL \notin Requests /\ NULL \notin ShareIds
    /\ NULL \notin Clients
    /\ Requests \cap Visits = {}
    /\ Keep \notin Nat \cup Hashes \cup {NULL}
    /\ Settings \subseteq [expires       : Lifetimes \cup {NULL, Keep},
                           max_downloads : Limits \cup {Keep},
                           password      : Hashes \cup {NULL, Keep}]
    /\ SessionTtl \in Nat \ {0}
    /\ MaxCrashes \in Nat

VARIABLES
    sessions,      \* download_sessions: the session of each token
    sessionsLock,  \* the request holding its mutex across a SQL statement
    req,           \* the download handlers
    visit,         \* the share_page handlers
    upd,           \* the update_share handlers
    cleaner,       \* the cleanup task
    crashes        \* crashes so far

vars == <<shares, now, sessions, sessionsLock, req, visit, upd, cleaner, crashes>>

----------------------------------------------------------------------------
(* Sessions.                                                               *)

NoSession == [share_id |-> NULL, client_ip |-> NULL, expires_at |-> 0, counted |-> FALSE]

\* A cookie names a token or is absent; a token swept or lost in a crash
\* is still sent by the browser.
SharedTokenMatches(c, id, ip) ==
    /\ c # NULL
    /\ sessions[c].expires_at > now
    /\ sessions[c].share_id = id

\* The test both lookups make: unexpired, for this share and this address
SessionMatches(c, id, ip) ==
    /\ c # NULL
    /\ sessions[c].expires_at > now
    /\ sessions[c].share_id = id
    /\ sessions[c].client_ip = ip

Counted(c, id, ip) == SessionMatches(c, id, ip) /\ sessions[c].counted

\* A handler that sent a cookie takes the mutex; one without it never does
MutexFree(c) == c # NULL => sessionsLock = NULL

----------------------------------------------------------------------------
(* GET /download/:id.                                                      *)

\* "refused" is an answer the handler decides on (401, 404, 416 or 429), "failed"
\* a 500 or a client that went away: neither sends any of the file
Final == {"served", "refused", "failed"}

InFlight == {"session", "load", "open", "claim", "claimdb", "seek"}

Idle == [pc |-> "idle", share |-> NULL, client |-> NULL, cookie |-> NULL,
         continuing |-> FALSE, via |-> "none", at |-> 0, charged |-> FALSE,
         late |-> "no"]

\* The handler ends and its locals with it; what it was charged and what it
\* served stay on record
Ended(q, outcome) ==
    IF q.charged \/ outcome = "served"
    THEN [q EXCEPT !.pc = outcome, !.continuing = FALSE, !.at = 0]
    ELSE [Idle EXCEPT !.pc = outcome]

Finish(r, outcome) == req' = [req EXCEPT ![r] = Ended(@, outcome)]

\* "late" notes that the share was already over when the request arrived; it
\* and "charged" are kept for the properties, no handler reads them
Lateness(row) ==
    IF row.status \in {"revoked", "deleted"} THEN "dead"
    ELSE IF Expired(row, now) THEN "expired" ELSE "no"

\* The rate limiter answers first
Arrive(r, id, ip, c) ==
    /\ req[r].pc = "idle"
    /\ c # NULL => visit[c].pc = "done"
    /\ \/ req' = [req EXCEPT ![r] =
                    [Idle EXCEPT !.pc = "session", !.share = id, !.client = ip,
                                 !.cookie = c, !.late = Lateness(shares[id])]]
       \/ Finish(r, "refused")
    /\ UNCHANGED <<shares, sessions, sessionsLock>>

\* has_counted_download_session: the answer is used after the mutex is released
CheckSession(r) ==
    /\ req[r].pc = "session"
    /\ MutexFree(req[r].cookie)
    /\ req' = [req EXCEPT ![r] =
                  [@ EXCEPT !.pc = "load",
                            !.continuing = Counted(req[r].cookie, req[r].share, req[r].client)]]
    /\ UNCHANGED <<shares, sessions, sessionsLock>>

\* Mutant: a continuing session skips the deadline, too
DeadlineBlindAvailable(row, continuing) ==
    /\ row.status = "active"
    /\ ~continuing => ~Expired(row, now) /\ ~Exhausted(row)

\* Mutant: a continuing session skips every check, not only the limit
LaxAvailable(row, continuing) ==
    continuing \/ (row.status = "active" /\ ~Expired(row, now) /\ ~Exhausted(row))

\* load_active_share_with_session
Available(row, continuing) ==
    /\ row.status = "active"
    /\ ~Expired(row, now)
    /\ ~continuing => ~Exhausted(row)

\* The row is read once: a missing, dead or exhausted share is a 404, and a
\* protected one a 401 without an unlock token; the database may fail
LoadShare(r) ==
    /\ req[r].pc = "load"
    /\ LET row == shares[req[r].share] IN
          \/ /\ Available(row, req[r].continuing)
             /\ req' = [req EXCEPT ![r] = [@ EXCEPT !.pc = "open", !.continuing = FALSE]]
          \/ /\ ~Available(row, req[r].continuing) \/ row.password_hash # NULL
             /\ Finish(r, "refused")
          \/ Finish(r, "failed")
    /\ UNCHANGED <<shares, sessions, sessionsLock>>

\* Open the stored file or build the archive (404 when a folder deleted
\* meanwhile has no entries left), then resolve the range (416)
OpenFile(r) ==
    /\ req[r].pc = "open"
    /\ \/ req' = [req EXCEPT ![r] = [@ EXCEPT !.pc = "claim"]]
       \/ \E outcome \in {"refused", "failed"} : Finish(r, outcome)
    /\ UNCHANGED <<shares, sessions, sessionsLock>>

\* Mutant: the mutex is released before the statement runs
UnlockedBeginClaim(r) ==
    LET c == req[r].cookie
        matches == SessionMatches(c, req[r].share, req[r].client) IN
    /\ req[r].pc = "claim"
    /\ MutexFree(c)
    /\ IF matches /\ sessions[c].counted
       THEN req' = [req EXCEPT ![r] = [@ EXCEPT !.pc = "seek"]]
       ELSE req' = [req EXCEPT ![r] =
                      [@ EXCEPT !.pc = "claimdb", !.at = now,
                                !.via = IF matches THEN "session" ELSE "direct"]]
    /\ UNCHANGED <<shares, sessions, sessionsLock>>

\* claim_download_session up to the statement: a counted session passes
\* without any further check, an uncounted one keeps the mutex
BeginClaim(r) ==
    LET c == req[r].cookie
        matches == SessionMatches(c, req[r].share, req[r].client) IN
    /\ req[r].pc = "claim"
    /\ MutexFree(c)
    /\ IF matches /\ sessions[c].counted
       THEN /\ req' = [req EXCEPT ![r] = [@ EXCEPT !.pc = "seek"]]
            /\ UNCHANGED sessionsLock
       ELSE /\ req' = [req EXCEPT ![r] =
                         [@ EXCEPT !.pc = "claimdb", !.at = now,
                                   !.via = IF matches THEN "session" ELSE "direct"]]
            /\ sessionsLock' = IF matches THEN r ELSE sessionsLock
    /\ UNCHANGED <<shares, sessions>>

ReleaseMutex(r) == sessionsLock' = IF sessionsLock = r THEN NULL ELSE sessionsLock

\* Mutant: the mutex is kept when the statement fails
LeakyFailClaim(r) ==
    /\ req[r].pc = "claimdb"
    /\ \/ ~Claimable(shares[req[r].share], req[r].at) /\ Finish(r, "refused")
       \/ Finish(r, "failed")
    /\ UNCHANGED <<shares, sessions, sessionsLock>>

\* The statement changed no row (404) or failed (500); the mutex is released
FailClaim(r) ==
    /\ req[r].pc = "claimdb"
    /\ \/ ~Claimable(shares[req[r].share], req[r].at) /\ Finish(r, "refused")
       \/ Finish(r, "failed")
    /\ ReleaseMutex(r)
    /\ UNCHANGED <<shares, sessions>>

\* Mutant: the session is not marked as counted
ForgetfulClaim(r) ==
    /\ req[r].pc = "claimdb"
    /\ ClaimDownload(req[r].share, req[r].at)
    /\ req' = [req EXCEPT ![r] = [@ EXCEPT !.pc = "seek", !.charged = TRUE, !.at = 0]]
    /\ ReleaseMutex(r)
    /\ UNCHANGED sessions

\* Mutant: a statement that changed no row is taken for a success
UncheckedClaim(r) ==
    /\ req[r].pc = "claimdb"
    /\ ClaimDownload(req[r].share, req[r].at) \/ UNCHANGED shares
    /\ req' = [req EXCEPT ![r] = [@ EXCEPT !.pc = "seek", !.charged = TRUE, !.at = 0]]
    /\ sessions' = IF req[r].via = "session"
                   THEN [sessions EXCEPT ![req[r].cookie].counted = TRUE]
                   ELSE sessions
    /\ ReleaseMutex(r)

\* Mutant: the unguarded increment_download_count instead of claim_download
UnguardedClaim(r) ==
    /\ req[r].pc = "claimdb"
    /\ UpdateRow(req[r].share, [shares[req[r].share] EXCEPT !.download_count = @ + 1])
    /\ req' = [req EXCEPT ![r] = [@ EXCEPT !.pc = "seek", !.charged = TRUE, !.at = 0]]
    /\ sessions' = IF req[r].via = "session"
                   THEN [sessions EXCEPT ![req[r].cookie].counted = TRUE]
                   ELSE sessions
    /\ ReleaseMutex(r)

\* The statement counted one download; the session is marked before release
Claim(r) ==
    /\ req[r].pc = "claimdb"
    /\ ClaimDownload(req[r].share, req[r].at)
    /\ req' = [req EXCEPT ![r] = [@ EXCEPT !.pc = "seek", !.charged = TRUE, !.at = 0]]
    /\ sessions' = IF req[r].via = "session"
                   THEN [sessions EXCEPT ![req[r].cookie].counted = TRUE]
                   ELSE sessions
    /\ ReleaseMutex(r)

\* Seek to the start of the range and hand the body to the server
Respond(r) ==
    /\ req[r].pc = "seek"
    /\ \E outcome \in {"served", "failed"} : Finish(r, outcome)
    /\ UNCHANGED <<shares, sessions, sessionsLock>>

Proceed(r) ==
    CheckSession(r) \/ LoadShare(r) \/ OpenFile(r) \/ BeginClaim(r)
    \/ FailClaim(r) \/ Claim(r) \/ Respond(r)

Download(r) ==
    \/ \E id \in ShareIds, ip \in Clients, c \in Visits \cup {NULL} : Arrive(r, id, ip, c)
    \/ Proceed(r)

----------------------------------------------------------------------------
(* GET /s/:id.                                                             *)

NoVisit == [pc |-> "idle", share |-> NULL, client |-> NULL]

\* load_active_share: the page of a dead or exhausted share is a 404
LoadPage(v, id, ip) ==
    /\ visit[v].pc = "idle"
    /\ \/ /\ Available(shares[id], FALSE)
          /\ visit' = [visit EXCEPT ![v] = [pc |-> "mint", share |-> id, client |-> ip]]
       \/ visit' = [visit EXCEPT ![v].pc = "refused"]
    /\ UNCHANGED sessions

MintSession(v) ==
    /\ visit[v].pc = "mint"
    /\ sessionsLock = NULL
    /\ sessions' = [sessions EXCEPT ![v] = [share_id   |-> visit[v].share,
                                            client_ip  |-> visit[v].client,
                                            expires_at |-> now + SessionTtl,
                                            counted    |-> FALSE]]
    /\ visit' = [visit EXCEPT ![v] = [NoVisit EXCEPT !.pc = "done"]]

SharePage(v) ==
    (\E id \in ShareIds, ip \in Clients : LoadPage(v, id, ip)) \/ MintSession(v)

----------------------------------------------------------------------------
(* The owner.                                                              *)

\* Mutant: the lifetime is added twice
DoubledExpiry(d) == {IF d = NULL THEN NULL ELSE now + d + d}

\* Mutant: the addition wraps around
WrappingExpiry(d) ==
    {IF d = NULL THEN NULL
     ELSE IF now + d > I64Max THEN now + d - 2 * I64Max - 2 ELSE now + d}

\* The deadline a lifetime gives; none, and the request is refused, when it is
\* too large
ParseExpiry(d) == {e \in {IF d = NULL THEN NULL ELSE now + d} : e = NULL \/ e <= I64Max}

CreateShare(id) ==
    \E s \in Settings :
        /\ Keep \notin {s.expires, s.max_downloads, s.password}
        /\ \E e \in ParseExpiry(s.expires) :
              InsertShare(id, NewRow(e, s.max_downloads, s.password))

NoUpdate == [pc |-> "idle", share |-> NULL, expires_at |-> Keep,
             max_downloads |-> Keep, password_hash |-> Keep]

Writing == {"expires_at", "max_downloads", "password_hash"}

\* update_share finds the row, then parses each setting the body names
StartUpdate(u, id) ==
    /\ upd[u].pc = "idle"
    /\ \/ /\ Exists(id)
          /\ \E s \in Settings : \E e \in IF s.expires = Keep THEN {Keep} ELSE ParseExpiry(s.expires) :
                upd' = [upd EXCEPT ![u] = [pc            |-> "expires_at",
                                           share         |-> id,
                                           expires_at    |-> e,
                                           max_downloads |-> s.max_downloads,
                                           password_hash |-> s.password]]
       \/ upd' = [upd EXCEPT ![u].pc = "failed"]
    /\ UNCHANGED shares

\* One of the three statements of update_share_settings: skipped when the
\* setting is kept, and when it fails the ones after it are not run
WriteSetting(u, pc, next, kept, Statement1) ==
    /\ upd[u].pc = pc
    /\ \/ /\ ~kept
          /\ Statement1
          /\ upd' = [upd EXCEPT ![u].pc = next]
       \/ kept /\ upd' = [upd EXCEPT ![u].pc = next] /\ UNCHANGED shares
       \/ ~kept /\ upd' = [upd EXCEPT ![u].pc = "failed"] /\ UNCHANGED shares

UpdateSettings(u) ==
    LET s == upd[u] IN
    \/ WriteSetting(u, "expires_at", "max_downloads", s.expires_at = Keep,
                    SetExpiresAt(s.share, s.expires_at))
    \/ WriteSetting(u, "max_downloads", "password_hash", s.max_downloads = Keep,
                    SetMaxDownloads(s.share, s.max_downloads))
    \/ WriteSetting(u, "password_hash", "done", s.password_hash = Keep,
                    SetPasswordHash(s.share, s.password_hash))

UpdateShare(u) == (\E id \in ShareIds : StartUpdate(u, id)) \/ UpdateSettings(u)

----------------------------------------------------------------------------
(* The cleanup task, once a minute.                                        *)

NotCleaning == [pc |-> "idle", pending |-> {}, at |-> 0]

ExpiredShares(t) == {id \in ShareIds : shares[id].status = "active" /\ Expired(shares[id], t)}

\* delete_expired_shares selects the expired rows and lets the connection go
CleanSelect ==
    /\ cleaner.pc = "idle"
    /\ cleaner' = [pc |-> IF ExpiredShares(now) = {} THEN "sweep" ELSE "revoke",
                   pending |-> ExpiredShares(now), at |-> 0]
    /\ UNCHANGED <<shares, sessions>>

\* ... then revokes them one by one, by id alone
CleanRevoke(id) ==
    /\ cleaner.pc = "revoke"
    /\ id \in cleaner.pending
    /\ RevokeShare(id)
    /\ cleaner' = [cleaner EXCEPT !.pending = @ \ {id},
                                  !.pc = IF cleaner.pending = {id} THEN "sweep" ELSE "revoke"]
    /\ UNCHANGED sessions

\* Mutant: the error ends the task
FatalCleanFail ==
    /\ cleaner.pc \in {"idle", "revoke"}
    /\ cleaner' = [NotCleaning EXCEPT !.pc = "stopped"]
    /\ UNCHANGED <<shares, sessions>>

\* A failed statement gives up the remaining rows until the next round
CleanFail ==
    /\ cleaner.pc \in {"idle", "revoke"}
    /\ cleaner' = [NotCleaning EXCEPT !.pc = "sweep"]
    /\ UNCHANGED <<shares, sessions>>

\* sweep_unlock_tokens reads the clock before it has the sessions mutex
SweepBegin ==
    /\ cleaner.pc = "sweep"
    /\ cleaner' = [cleaner EXCEPT !.pc = "retain", !.at = now]
    /\ UNCHANGED <<shares, sessions>>

SweepSessions ==
    /\ cleaner.pc = "retain"
    /\ sessionsLock = NULL
    /\ sessions' = [c \in Visits |-> IF sessions[c].expires_at > cleaner.at
                                     THEN sessions[c] ELSE NoSession]
    /\ cleaner' = NotCleaning
    /\ UNCHANGED shares

Clean ==
    \/ CleanSelect \/ CleanFail \/ SweepBegin \/ SweepSessions
    \/ \E id \in ShareIds : CleanRevoke(id)

----------------------------------------------------------------------------

\* The process is killed and restarted: what was in memory is gone
Crash ==
    /\ crashes < MaxCrashes
    /\ crashes' = crashes + 1
    /\ sessions' = [c \in Visits |-> NoSession]
    /\ sessionsLock' = NULL
    /\ req' = [r \in Requests |->
                 IF req[r].pc \in InFlight THEN Ended(req[r], "failed") ELSE req[r]]
    /\ visit' = [v \in Visits |->
                   IF visit[v].pc = "mint" THEN [NoVisit EXCEPT !.pc = "refused"] ELSE visit[v]]
    /\ upd' = [u \in Updates |->
                 IF upd[u].pc \in Writing
                 THEN [upd[u] EXCEPT !.pc = "failed"] ELSE upd[u]]
    /\ cleaner' = NotCleaning
    /\ UNCHANGED <<shares, now>>

Init ==
    /\ RegistryInit
    /\ sessions = [c \in Visits |-> NoSession]
    /\ sessionsLock = NULL
    /\ req = [r \in Requests |-> Idle]
    /\ visit = [v \in Visits |-> NoVisit]
    /\ upd = [u \in Updates |-> NoUpdate]
    /\ cleaner = NotCleaning
    /\ crashes = 0

OwnerStep(id) == CreateShare(id) \/ RevokeShare(id) \/ DeleteShare(id)

Next ==
    \/ \E r \in Requests : Download(r) /\ UNCHANGED <<now, visit, upd, cleaner, crashes>>
    \/ \E v \in Visits : SharePage(v)
          /\ UNCHANGED <<shares, now, sessionsLock, req, upd, cleaner, crashes>>
    \/ \E u \in Updates : UpdateShare(u)
          /\ UNCHANGED <<now, sessions, sessionsLock, req, visit, cleaner, crashes>>
    \/ \E id \in ShareIds : OwnerStep(id)
          /\ UNCHANGED <<now, sessions, sessionsLock, req, visit, upd, cleaner, crashes>>
    \/ Clean /\ UNCHANGED <<now, sessionsLock, req, visit, upd, crashes>>
    \/ Tick /\ UNCHANGED <<shares, sessions, sessionsLock, req, visit, upd, cleaner, crashes>>
    \/ Crash

Spec == Init /\ [][Next]_vars
----------------------------------------------------------------------------
(* Properties.                                                             *)

Sessions == [share_id   : ShareIds \cup {NULL},
             client_ip  : Clients \cup {NULL},
             expires_at : 0 .. MaxTime + SessionTtl,
             counted    : BOOLEAN]

RequestStates == [pc         : {"idle"} \cup InFlight \cup Final,
                  share      : ShareIds \cup {NULL},
                  client     : Clients \cup {NULL},
                  cookie     : Visits \cup {NULL},
                  continuing : BOOLEAN,
                  via        : {"none", "session", "direct"},
                  at         : Time,
                  charged    : BOOLEAN,
                  late       : {"no", "dead", "expired"}]

VisitStates == [pc     : {"idle", "mint", "done", "refused"},
                share  : ShareIds \cup {NULL},
                client : Clients \cup {NULL}]

UpdateStates == [pc            : {"idle", "done", "failed"} \cup Writing,
                 share         : ShareIds \cup {NULL},
                 expires_at    : Deadlines \cup {Keep},
                 max_downloads : Limits \cup {Keep},
                 password_hash : Hashes \cup {NULL, Keep}]

CleanerStates == [pc      : {"idle", "revoke", "sweep", "retain"},
                  pending : SUBSET ShareIds,
                  at      : Time]

\* Every variable has its type; the mutex is free or held by a request.
TypeOK ==
    /\ RegistryTypeOK
    /\ sessions \in [Visits -> Sessions]
    /\ sessionsLock \in Requests \cup {NULL}
    /\ req \in [Requests -> RequestStates]
    /\ visit \in [Visits -> VisitStates]
    /\ upd \in [Updates -> UpdateStates]
    /\ cleaner \in CleanerStates
    /\ crashes \in 0 .. MaxCrashes

\* q was counted against the session that c names
PaidBy(q, c) == req[q].charged /\ req[q].via = "session" /\ req[q].cookie = c

\* Every body that is sent was paid for: by the request itself, or by another
\* request of the same session, for the same share and from the same address.
\* download checks the session twice (once to skip the limit, once to claim),
\* releases the mutex in between, and races with the sweep, with other requests
\* of the session and with restarts.
ServedIsPaid ==
    \A r \in Requests :
        req[r].pc \in {"seek", "served"} /\ ~req[r].charged =>
            \E q \in Requests :
                /\ PaidBy(q, req[r].cookie)
                /\ req[q].share = req[r].share
                /\ req[q].client = req[r].client

\* Parallel range requests of one recipient are counted once: at most one
\* request is ever charged through a given session token, because
\* claim_download_session holds the mutex across the UPDATE.
OneChargePerSession ==
    \A q1, q2 \in Requests, c \in Visits : PaidBy(q1, c) /\ PaidBy(q2, c) => q1 = q2

\* download_count is exactly the number of requests the table was charged for,
\* whatever fails after the charge.
CountMatchesCharges ==
    \A id \in ShareIds : Exists(id) =>
        shares[id].download_count =
            Cardinality({r \in Requests : req[r].charged /\ req[r].share = id})

\* A request that arrives after its share was revoked or deleted is never
\* served, counted session or not; one that arrives after the deadline is
\* served only if the owner moves the deadline meanwhile.
LateNeverServed ==
    \A r \in Requests : req[r].pc = "served" =>
        /\ req[r].late # "dead"
        /\ req[r].late = "expired" =>
              \E u \in Updates : upd[u].share = req[r].share /\ upd[u].expires_at # Keep

\* A share that is created, and an update that is accepted, has a deadline that
\* is still to come: the handlers add the lifetime to the time they read, and
\* refuse one that leads beyond the largest i64, where the sum would be in the
\* past.
DeadlinesAhead ==
    [][/\ \A id \in ShareIds :
             shares[id].status = "unissued" => ~Expired(shares'[id], now)
       /\ \A u \in Updates :
             LET e == upd'[u].expires_at IN
             upd[u].pc = "idle" => e \in {Keep, NULL} \/ e \in (now + 1) .. I64Max]_vars

\* A session that has paid can go on: while its share is active, not expired
\* and without a password, a request that carries it is told "exhausted" only
\* when it looked the session up before a sibling's charge and loaded the share
\* after it.
PaidSessionGoesOn ==
    [][\A r \in Requests :
          LET q == req[r] IN
          /\ q.pc \in {"load", "claimdb"}
          /\ req'[r].pc = "refused"
          /\ Counted(q.cookie, q.share, q.client)
          /\ shares[q.share].status = "active"
          /\ ~Expired(shares[q.share], now)
          /\ shares[q.share].password_hash = NULL
          => q.pc = "load" /\ ~q.continuing]_vars

\* The mutex is only ever held by a request that is about to run, or to give
\* up, its statement: nobody leaves the handler with it.
MutexHeldInClaim ==
    sessionsLock # NULL =>
        req[sessionsLock].pc = "claimdb" /\ req[sessionsLock].via = "session"

(* The refinement mapping to DownloadBudget: a session pays as one payer,  *)
(* a request outside any session pays for itself.                          *)

Payer(r) == IF req[r].via = "direct" THEN r ELSE req[r].cookie

Budget == INSTANCE DownloadBudget WITH
    Payers <- Requests \cup Visits,
    phase <- [id \in ShareIds |->
                CASE shares[id].status = "unissued" -> "unpublished"
                  [] shares[id].status = "active" -> "open"
                  [] OTHER -> "closed"],
    limit <- [id \in ShareIds |->
                IF shares[id].status = "active" THEN shares[id].max_downloads ELSE NULL],
    paid <- [id \in ShareIds |->
               {Payer(r) : r \in {q \in Requests : req[q].charged /\ req[q].share = id}}],
    delivered <- [id \in ShareIds |->
               {Payer(r) : r \in {q \in Requests : req[q].pc = "served" /\ req[q].share = id}}]

\* The handlers implement the promise made to the owner: no more payers than
\* the limit allowed when each paid, nobody pays twice, and nobody is served
\* who did not pay.
BudgetSpec == Budget!Spec

(* Liveness.                                                               *)

\* Every handler runs on, and the cleanup task is a loop; the client, the
\* owner and the clock owe nothing.  A statement may fail now and then but
\* not for ever, so the cleanup's statements get strong fairness.
Fairness ==
    /\ \A r \in Requests : WF_vars(Proceed(r) /\ UNCHANGED <<now, visit, upd, cleaner, crashes>>)
    /\ \A v \in Visits : WF_vars(MintSession(v)
          /\ UNCHANGED <<shares, now, sessionsLock, req, upd, cleaner, crashes>>)
    /\ WF_vars(Clean /\ UNCHANGED <<now, sessionsLock, req, visit, upd, crashes>>)
    /\ SF_vars(CleanSelect /\ UNCHANGED <<now, sessionsLock, req, visit, upd, crashes>>)
    /\ \A id \in ShareIds :
          SF_vars(CleanRevoke(id) /\ UNCHANGED <<now, sessionsLock, req, visit, upd, crashes>>)

FairSpec == Spec /\ Fairness

\* Every download request gets an answer (or its client goes away): no path
\* through the handler waits for ever on the sessions mutex.
RequestsFinish ==
    \A r \in Requests : req[r].pc # "idle" ~> req[r].pc \in Final

\* An expired share does not stay active for ever unless its owner moves the
\* deadline: failed statements, and a restart between any two of them,
\* notwithstanding, a later round of the cleanup revokes it.
ExpiredSharesRevoked ==
    \A id \in ShareIds :
        shares[id].status = "active" /\ Expired(shares[id], now)
            ~> shares[id].status # "active" \/ ~Expired(shares[id], now)

(* What the code's own words claim and the code does not do.               *)

\* "Background cleanup: revoke expired shares" (src/main.rs:28): the cleanup
\* only revokes a share that is expired when it does so.
CleanupRevokesOnlyExpired ==
    [][\A id \in ShareIds :
          cleaner.pc = "revoke" /\ id \in cleaner.pending \ cleaner'.pending
             /\ shares[id].status = "active" /\ shares'[id].status = "revoked"
             => Expired(shares[id], now)]_vars
=============================================================================
