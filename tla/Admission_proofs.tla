-------------------------- MODULE Admission_proofs --------------------------
(***************************************************************************)
(* Proofs about Admission, for any number of shares, addresses, requests,  *)
(* visits and updates, any interleaving, and any number of crashes.        *)
(***************************************************************************)
EXTENDS Admission, ShareRegistry_proofs, FiniteSetTheorems

(* Types.  Each shape of record a handler may leave is checked once.       *)

LEMMA ZeroIsTime == 0 \in Time
BY RegistryAssumption DEF Time

LEMMA IdleType == Idle \in RequestStates
BY ZeroIsTime DEF Idle, RequestStates, InFlight

\* A change of program counter and of the locals that go with it.
LEMMA RequestStateUpdate ==
    ASSUME NEW q \in RequestStates,
           NEW pc \in {"idle"} \cup InFlight \cup Final,
           NEW b \in BOOLEAN, NEW t \in Time, NEW via \in {"none", "session", "direct"}
    PROVE  /\ [q EXCEPT !.pc = pc] \in RequestStates
           /\ [q EXCEPT !.pc = pc, !.continuing = b] \in RequestStates
           /\ [q EXCEPT !.pc = pc, !.continuing = b, !.at = t] \in RequestStates
           /\ [q EXCEPT !.pc = pc, !.at = t, !.via = via] \in RequestStates
           /\ [q EXCEPT !.pc = pc, !.charged = b, !.at = t] \in RequestStates
<1>1. [q EXCEPT !.pc = pc] \in RequestStates
  BY DEF RequestStates
<1>2. [q EXCEPT !.pc = pc, !.continuing = b] \in RequestStates
  BY DEF RequestStates
<1>3. [q EXCEPT !.pc = pc, !.continuing = b, !.at = t] \in RequestStates
  BY DEF RequestStates
<1>4. [q EXCEPT !.pc = pc, !.at = t, !.via = via] \in RequestStates
  BY DEF RequestStates
<1>5. [q EXCEPT !.pc = pc, !.charged = b, !.at = t] \in RequestStates
  BY DEF RequestStates
<1> QED
  BY <1>1, <1>2, <1>3, <1>4, <1>5

\* What a handler leaves on record when it ends is well formed.
LEMMA EndedType ==
    ASSUME NEW q \in RequestStates, NEW outcome \in Final
    PROVE  Ended(q, outcome) \in RequestStates
<1>1. [Idle EXCEPT !.pc = outcome] \in RequestStates
  BY IdleType DEF RequestStates
<1>2. [q EXCEPT !.pc = outcome, !.continuing = FALSE, !.at = 0] \in RequestStates
  BY ZeroIsTime, RequestStateUpdate
<1> QED
  BY <1>1, <1>2 DEF Ended

LEMMA FinishType ==
    ASSUME NEW r \in Requests, NEW outcome \in Final, req \in [Requests -> RequestStates],
           Finish(r, outcome)
    PROVE  req' \in [Requests -> RequestStates]
<1>1. Ended(req[r], outcome) \in RequestStates
  BY EndedType
<1> QED
  BY <1>1 DEF Finish

\* Every step of a download handler keeps the types.
LEMMA DownloadType ==
    ASSUME TypeOK, NEW r \in Requests, Download(r)
    PROVE  /\ req' \in [Requests -> RequestStates]
           /\ sessions' \in [Visits -> Sessions]
           /\ sessionsLock' \in Requests \cup {NULL}
           /\ shares' \in [ShareIds -> Rows]
<1> DEFINE ReqTyped == req \in [Requests -> RequestStates]
<1>0. /\ ReqTyped /\ req[r] \in RequestStates
      /\ sessions \in [Visits -> Sessions]
      /\ sessionsLock \in Requests \cup {NULL}
      /\ shares \in [ShareIds -> Rows]
      /\ now \in Time
      /\ "served" \in Final /\ "refused" \in Final /\ "failed" \in Final
      /\ {"session", "load", "open", "claim", "claimdb", "seek"} = InFlight
  BY DEF TypeOK, RegistryTypeOK, Final, InFlight
<1>1. ASSUME NEW id \in ShareIds, NEW ip \in Clients, NEW c \in Visits \cup {NULL},
             Arrive(r, id, ip, c)
      PROVE  ReqTyped'
  <2>1. Lateness(shares[id]) \in {"no", "dead", "expired"}
    BY DEF Lateness
  <2>2. [Idle EXCEPT !.pc = "session", !.share = id, !.client = ip,
                     !.cookie = c, !.late = Lateness(shares[id])] \in RequestStates
    BY <1>0, <2>1, IdleType DEF RequestStates
  <2> QED
    BY <1>0, <1>1, <2>2, FinishType DEF Arrive
<1>2. ASSUME CheckSession(r)
      PROVE  ReqTyped'
  <2>1. Counted(req[r].cookie, req[r].share, req[r].client) \in BOOLEAN
    BY <1>0 DEF Counted, SessionMatches, Sessions, RequestStates
  <2>2. [req[r] EXCEPT !.pc = "load",
                       !.continuing = Counted(req[r].cookie, req[r].share, req[r].client)]
           \in RequestStates
    BY <1>0, <2>1, RequestStateUpdate, ZeroIsTime
  <2> QED
    BY <1>0, <1>2, <2>2 DEF CheckSession
<1>3. ASSUME LoadShare(r)
      PROVE  ReqTyped'
  <2>1. [req[r] EXCEPT !.pc = "open", !.continuing = FALSE] \in RequestStates
    BY <1>0, RequestStateUpdate, ZeroIsTime
  <2> QED
    BY <1>0, <1>3, <2>1, FinishType DEF LoadShare
<1>4. ASSUME OpenFile(r)
      PROVE  ReqTyped'
  <2>1. [req[r] EXCEPT !.pc = "claim"] \in RequestStates
    BY <1>0, RequestStateUpdate, ZeroIsTime
  <2> QED
    BY <1>0, <1>4, <2>1, FinishType DEF OpenFile
<1>5. ASSUME BeginClaim(r)
      PROVE  ReqTyped'
  <2>1. [req[r] EXCEPT !.pc = "seek"] \in RequestStates
    BY <1>0, RequestStateUpdate, ZeroIsTime
  <2>2. ASSUME NEW via \in {"session", "direct"}
        PROVE  [req[r] EXCEPT !.pc = "claimdb", !.at = now, !.via = via] \in RequestStates
    BY <1>0, RequestStateUpdate
  <2> QED
    BY <1>0, <1>5, <2>1, <2>2 DEF BeginClaim
<1>6. ASSUME FailClaim(r)
      PROVE  ReqTyped'
  <2>1. Finish(r, "refused") \/ Finish(r, "failed")
    BY <1>6 DEF FailClaim
  <2>2. CASE Finish(r, "refused")
    BY <1>0, <2>2, FinishType
  <2>3. CASE Finish(r, "failed")
    BY <1>0, <2>3, FinishType
  <2> QED
    BY <2>1, <2>2, <2>3
<1>7. CASE Claim(r)
  <2>1. ReqTyped'
    <3>1. [req[r] EXCEPT !.pc = "seek", !.charged = TRUE, !.at = 0] \in RequestStates
      BY <1>0, RequestStateUpdate, ZeroIsTime
    <3> QED
      BY <1>0, <1>7, <3>1 DEF Claim
  <2>2. sessions' \in [Visits -> Sessions]
    <3>1. ASSUME NEW c \in Visits
          PROVE  [sessions[c] EXCEPT !.counted = TRUE] \in Sessions
      BY <1>0 DEF Sessions
    <3>2. \/ sessions' = sessions
          \/ sessions' = [sessions EXCEPT ![req[r].cookie].counted = TRUE]
      BY <1>7 DEF Claim
    <3> QED
      BY <1>0, <3>1, <3>2
  <2>3. shares' \in [ShareIds -> Rows]
    <3>1. ASSUME NEW id \in ShareIds
          PROVE  [shares[id] EXCEPT !.download_count = @ + 1] \in Rows
      BY <1>0 DEF Rows
    <3> QED
      BY <1>0, <1>7, <3>1 DEF Claim, ClaimDownload
  <2> QED
    BY <1>0, <1>7, <2>1, <2>2, <2>3 DEF Claim, ReleaseMutex
<1>8. ASSUME Respond(r)
      PROVE  ReqTyped'
  BY <1>0, <1>8, FinishType DEF Respond
<1>9. ASSUME ~Claim(r)
      PROVE  /\ UNCHANGED shares /\ UNCHANGED sessions
             /\ sessionsLock' \in {sessionsLock, r, NULL}
  BY <1>9 DEF Download, Proceed, Arrive, CheckSession, LoadShare, OpenFile, BeginClaim,
              FailClaim, ReleaseMutex, Respond
<1> QED
  <2>1. ReqTyped'
    BY <1>1, <1>2, <1>3, <1>4, <1>5, <1>6, <1>7, <1>8 DEF Download, Proceed
  <2> QED
    BY <1>0, <1>7, <1>9, <2>1

\* A page visit keeps the types.
LEMMA SharePageType ==
    ASSUME TypeOK, NEW v \in Visits, SharePage(v)
    PROVE  visit' \in [Visits -> VisitStates] /\ sessions' \in [Visits -> Sessions]
<1>1. ASSUME NEW id \in ShareIds, NEW ip \in Clients, LoadPage(v, id, ip)
      PROVE  visit' \in [Visits -> VisitStates] /\ sessions' \in [Visits -> Sessions]
  <2>1. [visit[v] EXCEPT !.pc = "refused"] \in VisitStates
    BY DEF TypeOK, VisitStates
  <2>2. [pc |-> "mint", share |-> id, client |-> ip] \in VisitStates
    BY DEF VisitStates
  <2> QED
    BY <1>1, <2>1, <2>2 DEF LoadPage, TypeOK
<1>2. CASE MintSession(v)
  <2>1. [NoVisit EXCEPT !.pc = "done"] \in VisitStates
    BY DEF NoVisit, VisitStates
  <2>2. now + SessionTtl \in 0 .. MaxTime + SessionTtl
    BY RegistryAssumption, AdmissionAssumption DEF TypeOK, RegistryTypeOK, Time
  <2>3. [share_id   |-> visit[v].share,
         client_ip  |-> visit[v].client,
         expires_at |-> now + SessionTtl,
         counted    |-> FALSE] \in Sessions
    BY <2>2 DEF TypeOK, VisitStates, Sessions
  <2> QED
    BY <1>2, <2>1, <2>3 DEF MintSession, TypeOK
<1> QED
  BY <1>1, <1>2 DEF SharePage

\* What the parser accepts is a deadline the table may hold.
LEMMA DeadlineType ==
    ASSUME now \in Time, NEW d \in Lifetimes \cup {NULL}, NEW e \in ParseExpiry(d)
    PROVE  e \in Deadlines
<1>1. CASE d = NULL
  BY <1>1 DEF ParseExpiry, Deadlines
<1>2. CASE d # NULL
  <2>1. d \in Lifetimes /\ d \in Nat /\ now \in Nat
    BY <1>2, RegistryAssumption DEF Time
  <2>2. e = now + d /\ e <= I64Max
    BY <1>2, <2>1, RegistryAssumption DEF ParseExpiry
  <2> QED
    BY <2>1, <2>2 DEF Deadlines
<1> QED
  BY <1>1, <1>2

\* The settings of a new share are values its row may hold.
LEMMA CreateShareStatement ==
    ASSUME now \in Time, NEW id \in ShareIds, CreateShare(id)
    PROVE  \E e \in Deadlines, m \in Limits, h \in Hashes \cup {NULL} :
              InsertShare(id, NewRow(e, m, h))
<1>1. PICK s \in Settings :
         /\ Keep \notin {s.expires, s.max_downloads, s.password}
         /\ \E e \in ParseExpiry(s.expires) :
               InsertShare(id, NewRow(e, s.max_downloads, s.password))
  BY DEF CreateShare
<1>2. /\ s.expires \in Lifetimes \cup {NULL}
      /\ s.max_downloads \in Limits
      /\ s.password \in Hashes \cup {NULL}
  BY <1>1, AdmissionAssumption
<1>3. PICK e \in ParseExpiry(s.expires) :
         InsertShare(id, NewRow(e, s.max_downloads, s.password))
  BY <1>1
<1>4. e \in Deadlines
  BY <1>2, <1>3, DeadlineType
<1> QED
  BY <1>2, <1>3, <1>4

\* What a handler works with: a share id, from its first step to its end, and
\* a time of day that it has read already.
Addressed ==
    /\ \A r \in Requests : req[r].at <= now
    /\ \A r \in Requests :
          req[r].pc \in InFlight \cup {"served"} \/ req[r].charged => req[r].share \in ShareIds
    /\ \A u \in Updates : upd[u].pc \in Writing => upd[u].share \in ShareIds

\* The settings an update writes are values the table may hold.
LEMMA UpdateShareType ==
    ASSUME TypeOK, Addressed, NEW u \in Updates, UpdateShare(u)
    PROVE  /\ upd' \in [Updates -> UpdateStates]
           /\ \A w \in Updates : upd'[w].pc \in Writing => upd'[w].share \in ShareIds
           /\ UNCHANGED shares \/ \E id \in ShareIds : Statement(id)
<1>0. upd \in [Updates -> UpdateStates] /\ upd[u] \in UpdateStates /\ now \in Time
  BY DEF TypeOK, RegistryTypeOK
<1>1. ASSUME NEW pc \in {"done", "failed"} \cup Writing
      PROVE  [upd[u] EXCEPT !.pc = pc] \in UpdateStates
  BY <1>0 DEF UpdateStates
<1>2. ASSUME NEW id \in ShareIds, StartUpdate(u, id)
      PROVE  /\ upd' \in [Updates -> UpdateStates]
             /\ upd'[u].pc \in Writing => upd'[u].share \in ShareIds
             /\ UNCHANGED shares
  <2>1. CASE upd' = [upd EXCEPT ![u].pc = "failed"]
    BY <1>0, <1>1, <1>2, <2>1 DEF StartUpdate, Writing
  <2>2. ASSUME NEW s \in Settings,
               NEW e \in IF s.expires = Keep THEN {Keep} ELSE ParseExpiry(s.expires),
               upd' = [upd EXCEPT ![u] =
                          [pc            |-> "expires_at",
                           share         |-> id,
                           expires_at    |-> e,
                           max_downloads |-> s.max_downloads,
                           password_hash |-> s.password]]
        PROVE  /\ upd' \in [Updates -> UpdateStates]
               /\ upd'[u].share \in ShareIds
    <3>0. /\ s.expires \in Lifetimes \cup {NULL, Keep}
          /\ s.max_downloads \in Limits \cup {Keep}
          /\ s.password \in Hashes \cup {NULL, Keep}
      BY AdmissionAssumption
    <3>1. e \in Deadlines \cup {Keep}
      BY <1>0, <3>0, DeadlineType
    <3>2. "expires_at" \in Writing
      BY DEF Writing
    <3> QED
      BY <1>0, <2>2, <3>0, <3>1, <3>2 DEF UpdateStates
  <2> QED
    BY <1>2, <2>1, <2>2 DEF StartUpdate
<1>3. ASSUME NEW pc \in Writing, NEW next \in {"done"} \cup Writing, upd[u].pc = pc,
             upd' = [upd EXCEPT ![u].pc = next] \/ upd' = [upd EXCEPT ![u].pc = "failed"]
      PROVE  /\ upd' \in [Updates -> UpdateStates]
             /\ upd'[u].share \in ShareIds
  <2>1. upd[u].share \in ShareIds
    BY <1>3 DEF Addressed
  <2> QED
    BY <1>0, <1>1, <1>3, <2>1 DEF UpdateStates
<1>4. ASSUME UpdateSettings(u)
      PROVE  /\ upd' \in [Updates -> UpdateStates]
             /\ upd'[u].share \in ShareIds
             /\ UNCHANGED shares \/ \E id \in ShareIds : Statement(id)
  <2> DEFINE s == upd[u]
  <2>0. {"expires_at", "max_downloads", "password_hash"} = Writing
    BY DEF Writing
  <2>1. ASSUME WriteSetting(u, "expires_at", "max_downloads", s.expires_at = Keep,
                            SetExpiresAt(s.share, s.expires_at))
        PROVE  /\ upd' \in [Updates -> UpdateStates]
               /\ upd'[u].share \in ShareIds
               /\ UNCHANGED shares \/ \E id \in ShareIds : Statement(id)
    <3>1. /\ upd' \in [Updates -> UpdateStates] /\ upd'[u].share \in ShareIds
      BY <1>3, <2>0, <2>1 DEF WriteSetting
    <3>2. s.share \in ShareIds /\ s.expires_at \in Deadlines \cup {Keep}
      BY <1>0, <2>0, <2>1 DEF WriteSetting, Addressed, UpdateStates
    <3>3. UNCHANGED shares \/ \E id \in ShareIds : Statement(id)
      BY <2>1, <3>2 DEF WriteSetting, Statement
    <3> QED
      BY <3>1, <3>3
  <2>2. ASSUME WriteSetting(u, "max_downloads", "password_hash", s.max_downloads = Keep,
                            SetMaxDownloads(s.share, s.max_downloads))
        PROVE  /\ upd' \in [Updates -> UpdateStates]
               /\ upd'[u].share \in ShareIds
               /\ UNCHANGED shares \/ \E id \in ShareIds : Statement(id)
    <3>1. /\ upd' \in [Updates -> UpdateStates] /\ upd'[u].share \in ShareIds
      BY <1>3, <2>0, <2>2 DEF WriteSetting
    <3>2. s.share \in ShareIds /\ s.max_downloads \in Limits \cup {Keep}
      BY <1>0, <2>0, <2>2 DEF WriteSetting, Addressed, UpdateStates
    <3>3. UNCHANGED shares \/ \E id \in ShareIds : Statement(id)
      BY <2>2, <3>2 DEF WriteSetting, Statement
    <3> QED
      BY <3>1, <3>3
  <2>3. ASSUME WriteSetting(u, "password_hash", "done", s.password_hash = Keep,
                            SetPasswordHash(s.share, s.password_hash))
        PROVE  /\ upd' \in [Updates -> UpdateStates]
               /\ upd'[u].share \in ShareIds
               /\ UNCHANGED shares \/ \E id \in ShareIds : Statement(id)
    <3>1. /\ upd' \in [Updates -> UpdateStates] /\ upd'[u].share \in ShareIds
      BY <1>3, <2>0, <2>3 DEF WriteSetting
    <3>2. s.share \in ShareIds /\ s.password_hash \in Hashes \cup {NULL, Keep}
      BY <1>0, <2>0, <2>3 DEF WriteSetting, Addressed, UpdateStates
    <3>3. UNCHANGED shares \/ \E id \in ShareIds : Statement(id)
      BY <2>3, <3>2 DEF WriteSetting, Statement
    <3> QED
      BY <3>1, <3>3
  <2>4. UpdateSettings(u) =>
           \/ WriteSetting(u, "expires_at", "max_downloads", s.expires_at = Keep,
                           SetExpiresAt(s.share, s.expires_at))
           \/ WriteSetting(u, "max_downloads", "password_hash", s.max_downloads = Keep,
                           SetMaxDownloads(s.share, s.max_downloads))
           \/ WriteSetting(u, "password_hash", "done", s.password_hash = Keep,
                           SetPasswordHash(s.share, s.password_hash))
    BY DEF UpdateSettings
  <2> HIDE DEF s
  <2> QED
    BY <1>4, <2>1, <2>2, <2>3, <2>4
<1>5. \A w \in Updates : w # u => upd'[w] = upd[w]
  BY <1>0 DEF UpdateShare, StartUpdate, UpdateSettings, WriteSetting
<1> QED
  BY <1>2, <1>4, <1>5 DEF UpdateShare, Addressed

\* The cleanup task keeps the types and changes the table one statement at a time.
LEMMA CleanType ==
    ASSUME TypeOK, Clean
    PROVE  /\ cleaner' \in CleanerStates
           /\ sessions' \in [Visits -> Sessions]
           /\ UNCHANGED shares \/ \E id \in ShareIds : Statement(id)
<1> USE ZeroIsTime
<1>0. /\ cleaner \in CleanerStates /\ sessions \in [Visits -> Sessions] /\ now \in Time
      /\ NotCleaning \in CleanerStates
  BY DEF TypeOK, RegistryTypeOK, NotCleaning, CleanerStates
<1>1. CASE CleanSelect
  BY <1>0, <1>1 DEF CleanSelect, CleanerStates, ExpiredShares
<1>2. CASE CleanFail
  BY <1>0, <1>2 DEF CleanFail, NotCleaning, CleanerStates
<1>3. CASE SweepBegin
  BY <1>0, <1>3 DEF SweepBegin, CleanerStates
<1>4. CASE SweepSessions
  <2>1. NoSession \in Sessions
    BY RegistryAssumption, AdmissionAssumption DEF NoSession, Sessions
  <2> QED
    BY <1>0, <1>4, <2>1 DEF SweepSessions
<1>5. ASSUME NEW id \in ShareIds, CleanRevoke(id)
      PROVE  /\ cleaner' \in CleanerStates
             /\ sessions' \in [Visits -> Sessions]
             /\ Statement(id)
  BY <1>0, <1>5 DEF CleanRevoke, CleanerStates, Statement
<1> QED
  BY <1>1, <1>2, <1>3, <1>4, <1>5 DEF Clean

\* A crash keeps the types.
LEMMA CrashType ==
    ASSUME TypeOK, Crash
    PROVE  TypeOK'
<1> USE ZeroIsTime
<1>1. req' \in [Requests -> RequestStates]
  <2>1. \A r \in Requests : Ended(req[r], "failed") \in RequestStates
    BY EndedType DEF TypeOK, Final
  <2> QED
    BY <2>1 DEF Crash, TypeOK
<1>2. sessions' \in [Visits -> Sessions]
  BY RegistryAssumption, AdmissionAssumption DEF Crash, NoSession, Sessions
<1>3. visit' \in [Visits -> VisitStates]
  BY DEF Crash, TypeOK, VisitStates, NoVisit
<1>4. upd' \in [Updates -> UpdateStates]
  <2>1. \A u \in Updates : [upd[u] EXCEPT !.pc = "failed"] \in UpdateStates
    BY DEF TypeOK, UpdateStates
  <2> QED
    BY <2>1 DEF Crash, TypeOK
<1>5. cleaner' \in CleanerStates
  BY DEF Crash, NotCleaning, CleanerStates
<1>6. crashes' \in 0 .. MaxCrashes
  BY AdmissionAssumption DEF Crash, TypeOK
<1> QED
  BY <1>1, <1>2, <1>3, <1>4, <1>5, <1>6 DEF Crash, TypeOK, RegistryTypeOK

\* Every handler that is under way, was charged or served has its share id.
LEMMA DownloadAddressed ==
    ASSUME TypeOK, Addressed, NEW r \in Requests, Download(r), NEW q \in Requests,
           req'[q].pc \in InFlight \cup {"served"} \/ req'[q].charged
    PROVE  req'[q].share \in ShareIds
<1> USE DEF InFlight, Final
<1>0. req \in [Requests -> RequestStates] /\ req[r] \in RequestStates
  BY DEF TypeOK
<1>1. ASSUME NEW outcome \in {"refused", "failed", "served"}, Finish(r, outcome),
             outcome = "served" => req[r].pc = "seek"
      PROVE  req'[q].share \in ShareIds
  <2>1. CASE q # r
    BY <1>0, <1>1, <2>1 DEF Finish, Addressed
  <2>2. CASE q = r /\ (req[r].charged \/ outcome = "served")
    <3>1. req'[r].share = req[r].share
      BY <1>0, <1>1, <2>2 DEF Finish, Ended, RequestStates
    <3> QED
      BY <1>1, <2>2, <3>1 DEF Addressed
  <2>3. CASE q = r /\ ~(req[r].charged \/ outcome = "served")
    <3>1. req'[r] = [Idle EXCEPT !.pc = outcome]
      BY <1>0, <1>1, <2>3 DEF Finish, Ended
    <3> QED
      BY <1>1, <2>3, <3>1 DEF Idle
  <2> QED
    BY <2>1, <2>2, <2>3
<1>2. ASSUME NEW x, req' = [req EXCEPT ![r] = x], x.share = req[r].share,
             req[r].pc \in InFlight
      PROVE  req'[q].share \in ShareIds
  BY <1>0, <1>2 DEF Addressed
<1>3. ASSUME NEW id \in ShareIds, NEW ip \in Clients, NEW c \in Visits \cup {NULL},
             Arrive(r, id, ip, c)
      PROVE  req'[q].share \in ShareIds
  <2>1. [Idle EXCEPT !.pc = "session", !.share = id, !.client = ip,
                     !.cookie = c, !.late = Lateness(shares[id])].share = id
    BY DEF Idle
  <2>2. CASE req' = [req EXCEPT ![r] = [Idle EXCEPT !.pc = "session", !.share = id,
                       !.client = ip, !.cookie = c, !.late = Lateness(shares[id])]]
    BY <1>0, <2>1, <2>2 DEF Addressed
  <2> QED
    BY <1>1, <1>3, <2>2 DEF Arrive
<1>4. CASE CheckSession(r)
  BY <1>0, <1>2, <1>4 DEF CheckSession, RequestStates
<1>5. CASE LoadShare(r)
  BY <1>0, <1>1, <1>2, <1>5 DEF LoadShare, RequestStates
<1>6. CASE OpenFile(r)
  BY <1>0, <1>1, <1>2, <1>6 DEF OpenFile, RequestStates
<1>7. CASE BeginClaim(r)
  BY <1>0, <1>2, <1>7 DEF BeginClaim, RequestStates
<1>8. CASE FailClaim(r)
  BY <1>1, <1>8 DEF FailClaim
<1>9. CASE Claim(r)
  BY <1>0, <1>2, <1>9 DEF Claim, RequestStates
<1>10. CASE Respond(r)
  BY <1>1, <1>10 DEF Respond
<1> QED
  BY <1>3, <1>4, <1>5, <1>6, <1>7, <1>8, <1>9, <1>10 DEF Download, Proceed

\* A download handler only uses times it has read.
LEMMA DownloadTimely ==
    ASSUME TypeOK, Addressed, NEW r \in Requests, Download(r), NEW q \in Requests
    PROVE  req'[q].at <= now
<1>0. /\ req \in [Requests -> RequestStates] /\ req[r] \in RequestStates
      /\ now \in Nat /\ 0 <= now
  BY RegistryAssumption DEF TypeOK, RegistryTypeOK, Time
<1>1. ASSUME NEW x, req' = [req EXCEPT ![r] = x], x.at \in {0, now, req[r].at}
      PROVE  req'[q].at <= now
  BY <1>0, <1>1 DEF Addressed
<1>2. ASSUME NEW outcome, Finish(r, outcome)
      PROVE  req'[q].at <= now
  <2>1. Ended(req[r], outcome).at = 0
    BY <1>0 DEF Ended, Idle, RequestStates
  <2> QED
    BY <1>1, <1>2, <2>1 DEF Finish
<1>3. ASSUME NEW id \in ShareIds, NEW ip \in Clients, NEW c \in Visits \cup {NULL},
             Arrive(r, id, ip, c)
      PROVE  req'[q].at <= now
  <2>1. [Idle EXCEPT !.pc = "session", !.share = id, !.client = ip,
                     !.cookie = c, !.late = Lateness(shares[id])].at = 0
    BY DEF Idle
  <2> QED
    BY <1>1, <1>2, <1>3, <2>1 DEF Arrive
<1>4. CASE CheckSession(r)
  BY <1>0, <1>1, <1>4 DEF CheckSession, RequestStates
<1>5. CASE LoadShare(r)
  BY <1>0, <1>1, <1>2, <1>5 DEF LoadShare, RequestStates
<1>6. CASE OpenFile(r)
  BY <1>0, <1>1, <1>2, <1>6 DEF OpenFile, RequestStates
<1>7. CASE BeginClaim(r)
  BY <1>0, <1>1, <1>7 DEF BeginClaim, RequestStates
<1>8. CASE FailClaim(r)
  BY <1>2, <1>8 DEF FailClaim
<1>9. CASE Claim(r)
  BY <1>0, <1>1, <1>9 DEF Claim, RequestStates
<1>10. CASE Respond(r)
  BY <1>2, <1>10 DEF Respond
<1> QED
  BY <1>3, <1>4, <1>5, <1>6, <1>7, <1>8, <1>9, <1>10 DEF Download, Proceed

\* A download handler changes the table by its claim alone.
LEMMA DownloadStatement ==
    ASSUME TypeOK, Addressed, NEW r \in Requests, Download(r)
    PROVE  UNCHANGED shares \/ \E id \in ShareIds : Statement(id)
<1>1. CASE Claim(r)
  <2>1. /\ req[r].share \in ShareIds /\ req[r].at \in Time /\ req[r] \in RequestStates
        /\ req[r].at <= now
    BY <1>1 DEF Claim, Addressed, TypeOK, RequestStates, InFlight
  <2> QED
    BY <1>1, <2>1 DEF Claim, Statement
<1>2. CASE ~Claim(r)
  BY <1>2 DEF Download, Proceed, Arrive, CheckSession, LoadShare, OpenFile, BeginClaim,
              FailClaim, Respond
<1> QED
  BY <1>1, <1>2

\* Every step of the system is one statement on the table, a tick, or neither.
LEMMA StepIsRegistryStep ==
    ASSUME TypeOK, Addressed, [Next]_vars
    PROVE  [RegistryNext]_registryVars
<1> USE DEF RegistryNext, registryVars
<1>1. ASSUME NEW r \in Requests, Download(r), UNCHANGED now
      PROVE  [RegistryNext]_registryVars
  BY <1>1, DownloadStatement
<1>2. ASSUME NEW u \in Updates, UpdateShare(u), UNCHANGED now
      PROVE  [RegistryNext]_registryVars
  BY <1>2, UpdateShareType
<1>3. ASSUME NEW id \in ShareIds, OwnerStep(id), UNCHANGED now
      PROVE  [RegistryNext]_registryVars
  <2>1. CASE CreateShare(id)
    <3>1. now \in Time
      BY DEF TypeOK, RegistryTypeOK
    <3>2. Statement(id)
      BY <2>1, <3>1, CreateShareStatement DEF Statement
    <3> QED
      BY <1>3, <3>2
  <2>2. CASE RevokeShare(id) \/ DeleteShare(id)
    BY <1>3, <2>2 DEF Statement
  <2> QED
    BY <1>3, <2>1, <2>2 DEF OwnerStep
<1>4. ASSUME Clean, UNCHANGED now
      PROVE  [RegistryNext]_registryVars
  BY <1>4, CleanType
<1>5. ASSUME Tick, UNCHANGED shares
      PROVE  [RegistryNext]_registryVars
  BY <1>5
<1>6. CASE UNCHANGED <<shares, now>>
  BY <1>6
<1> QED
  BY <1>1, <1>2, <1>3, <1>4, <1>5, <1>6 DEF Next, Crash, vars

\* One step keeps the types and the addresses.
LEMMA TypeStep ==
    ASSUME TypeOK, Addressed, [Next]_vars
    PROVE  TypeOK' /\ Addressed'
<1>0. RegistryTypeOK'
  BY StepIsRegistryStep, RegistryTypedStep DEF TypeOK
<1>1. ASSUME NEW r \in Requests, Download(r), UNCHANGED <<now, visit, upd, cleaner, crashes>>
      PROVE  TypeOK' /\ Addressed'
  <2>1. TypeOK'
    BY <1>0, <1>1, DownloadType DEF TypeOK
  <2>2. Addressed'
    BY <1>1, DownloadAddressed, DownloadTimely DEF Addressed
  <2> QED
    BY <2>1, <2>2
<1>2. ASSUME NEW v \in Visits, SharePage(v),
             UNCHANGED <<shares, now, sessionsLock, req, upd, cleaner, crashes>>
      PROVE  TypeOK' /\ Addressed'
  BY <1>0, <1>2, SharePageType DEF TypeOK, Addressed
<1>3. ASSUME NEW u \in Updates, UpdateShare(u),
             UNCHANGED <<now, sessions, sessionsLock, req, visit, cleaner, crashes>>
      PROVE  TypeOK' /\ Addressed'
  BY <1>0, <1>3, UpdateShareType DEF TypeOK, Addressed
<1>4. ASSUME UNCHANGED <<now, sessions, sessionsLock, req, visit, upd, cleaner, crashes>>
      PROVE  TypeOK' /\ Addressed'
  BY <1>0, <1>4 DEF TypeOK, Addressed
<1>5. ASSUME Clean, UNCHANGED <<now, sessionsLock, req, visit, upd, crashes>>
      PROVE  TypeOK' /\ Addressed'
  BY <1>0, <1>5, CleanType DEF TypeOK, Addressed
<1>6. ASSUME Tick, UNCHANGED <<shares, sessions, sessionsLock, req, visit, upd, cleaner, crashes>>
      PROVE  TypeOK' /\ Addressed'
  <2>1. \A r \in Requests : req[r].at \in Nat /\ now \in Nat
    BY RegistryAssumption DEF TypeOK, RegistryTypeOK, RequestStates, Time
  <2> QED
    BY <1>0, <1>6, <2>1 DEF TypeOK, Addressed, Tick
<1>7. CASE Crash
  <2>1. Addressed'
    <3>1. ASSUME NEW r \in Requests
          PROVE  /\ req'[r].at <= now
                 /\ req'[r].pc \in InFlight \cup {"served"} \/ req'[r].charged
                       => req'[r].share \in ShareIds
      <4>1. CASE req[r].pc \notin InFlight
        BY <1>7, <4>1 DEF Crash, Addressed
      <4>2. CASE req[r].pc \in InFlight
        <5>1. req'[r] = Ended(req[r], "failed") /\ req[r] \in RequestStates
          BY <1>7, <4>2 DEF Crash, TypeOK
        <5>2. /\ Ended(req[r], "failed").at = 0
              /\ Ended(req[r], "failed").charged => Ended(req[r], "failed").share = req[r].share
              /\ Ended(req[r], "failed").pc = "failed"
          BY <5>1 DEF Ended, Idle, RequestStates
        <5>3. 0 <= now
          BY RegistryAssumption DEF TypeOK, RegistryTypeOK, Time
        <5> QED
          BY <4>2, <5>1, <5>2, <5>3 DEF Addressed, InFlight
      <4> QED
        BY <4>1, <4>2
    <3>2. ASSUME NEW u \in Updates, upd'[u].pc \in Writing
          PROVE  upd'[u].share \in ShareIds
      BY <1>7, <3>2 DEF Crash, Addressed, Writing, TypeOK, UpdateStates
    <3> QED
      BY <1>7, <3>1, <3>2 DEF Addressed, Crash
  <2> QED
    BY <1>7, <2>1, CrashType
<1>8. CASE UNCHANGED vars
  BY <1>8 DEF vars, TypeOK, RegistryTypeOK, Addressed
<1> QED
  BY <1>1, <1>2, <1>3, <1>4, <1>5, <1>6, <1>7, <1>8 DEF Next

\* The system starts well typed.
LEMMA TypeInit == Init => TypeOK /\ Addressed
<1> SUFFICES ASSUME Init
             PROVE  TypeOK /\ Addressed
  OBVIOUS
<1>1. RegistryTypeOK
  BY RegistryAssumption, NullDeadline
  DEF Init, RegistryInit, RegistryTypeOK, Rows, NoRow, Time
<1>2. /\ sessions \in [Visits -> Sessions]
      /\ visit \in [Visits -> VisitStates]
      /\ upd \in [Updates -> UpdateStates]
  BY RegistryAssumption, AdmissionAssumption
  DEF Init, NoSession, Sessions, NoVisit, VisitStates, NoUpdate, UpdateStates
<1>3. cleaner \in CleanerStates /\ crashes \in 0 .. MaxCrashes
  BY ZeroIsTime, AdmissionAssumption DEF Init, NotCleaning, CleanerStates
<1>4. req \in [Requests -> RequestStates]
  BY IdleType DEF Init
<1>5. Addressed
  BY DEF Init, RegistryInit, Addressed, Idle, NoUpdate, InFlight, Writing
<1> QED
  BY <1>1, <1>2, <1>3, <1>4, <1>5 DEF Init, TypeOK

\* Every variable of the admission system keeps its type, through any
\* interleaving of handlers, cleanup and crashes.
THEOREM AdmissionTyped == Spec => []TypeOK
<1>1. TypeOK /\ Addressed /\ [Next]_vars => (TypeOK /\ Addressed)'
  BY TypeStep
<1> QED
  BY <1>1, TypeInit, PTL DEF Spec

\* The handlers implement the table's specification, so what is proved of the
\* table holds of the whole system.
THEOREM AdmissionImplementsRegistry == Spec => RegistrySpec
<1>1. TypeOK /\ Addressed /\ [Next]_vars => (TypeOK /\ Addressed)' /\ [RegistryNext]_registryVars
  BY TypeStep, StepIsRegistryStep
<1>2. Init => RegistryInit
  BY DEF Init
<1> QED
  BY <1>1, <1>2, TypeInit, PTL DEF Spec, RegistrySpec

----------------------------------------------------------------------------
(* Who paid.                                                               *)

\* The mutex and the claim go together, and the session being claimed is the
\* one its holder looked up, still uncounted.
MutexInv ==
    \A r \in Requests :
        /\ sessionsLock = r <=> req[r].pc = "claimdb" /\ req[r].via = "session"
        /\ sessionsLock = r =>
              /\ req[r].cookie \in Visits
              /\ sessions[req[r].cookie].share_id = req[r].share
              /\ sessions[req[r].cookie].client_ip = req[r].client
              /\ ~sessions[req[r].cookie].counted

\* Request q paid for the session of token c, as that session is bound.
PaidFor(q, c) ==
    /\ PaidBy(q, c)
    /\ req[q].share = sessions[c].share_id
    /\ req[q].client = sessions[c].client_ip

\* A session is counted exactly when some request paid for it; a token whose
\* session is not minted yet is unknown to every client.
SessionInv ==
    \A c \in Visits :
        /\ sessions[c].counted => \E q \in Requests : PaidFor(q, c)
        /\ sessions[c].share_id # NULL /\ ~sessions[c].counted
              => \A q \in Requests : ~PaidBy(q, c)
        /\ visit[c].pc # "done" => /\ sessions[c] = NoSession
                                   /\ \A r \in Requests : req[r].cookie # c

\* Nobody is charged before the claim.
UnchargedInv ==
    \A r \in Requests : req[r].charged => req[r].pc \in {"seek"} \cup Final

PaymentInv ==
    MutexInv /\ SessionInv /\ UnchargedInv /\ ServedIsPaid /\ OneChargePerSession

\* A step of r that neither begins nor makes a claim: what r was charged, and
\* for what, stays; r gives the mutex back if it had it.
QuietRecord(r, x) ==
    /\ x.charged = req[r].charged
    /\ x.charged => /\ x.via = req[r].via /\ x.cookie = req[r].cookie
                    /\ x.share = req[r].share /\ x.client = req[r].client
    /\ x.charged => x.pc \in Final
    /\ x.pc \notin {"claimdb", "seek"}
    /\ x.pc = "served" => /\ req[r].pc = "seek" /\ x.cookie = req[r].cookie
                          /\ x.share = req[r].share /\ x.client = req[r].client
    /\ x.cookie \in Visits => x.cookie = req[r].cookie \/ visit[x.cookie].pc = "done"

LEMMA QuietStep ==
    ASSUME TypeOK, PaymentInv, NEW r \in Requests, NEW x \in RequestStates, QuietRecord(r, x),
           req' = [req EXCEPT ![r] = x],
           sessionsLock' = IF sessionsLock = r THEN NULL ELSE sessionsLock,
           UNCHANGED <<sessions, visit>>
    PROVE  PaymentInv'
<1>0. /\ req \in [Requests -> RequestStates] /\ req' \in [Requests -> RequestStates]
      /\ req'[r] = x /\ \A q \in Requests : q # r => req'[q] = req[q]
      /\ NULL \notin Requests
  BY AdmissionAssumption DEF TypeOK
<1>1. \A q \in Requests, c \in Visits : PaidBy(q, c)' <=> PaidBy(q, c)
  BY <1>0 DEF PaidBy, QuietRecord
<1>2. \A q \in Requests, c \in Visits : PaidFor(q, c)' <=> PaidFor(q, c)
  BY <1>0, <1>1 DEF PaidFor, PaidBy, QuietRecord
<1>3. MutexInv'
  BY <1>0 DEF PaymentInv, MutexInv, QuietRecord
<1>4. SessionInv'
  <2>1. ASSUME NEW c \in Visits, visit[c].pc # "done", NEW q \in Requests
        PROVE  req'[q].cookie # c
    BY <1>0, <2>1 DEF PaymentInv, SessionInv, QuietRecord
  <2> QED
    BY <1>1, <1>2, <2>1 DEF PaymentInv, SessionInv
<1>5. UnchargedInv'
  BY <1>0 DEF PaymentInv, UnchargedInv, QuietRecord
<1>6. ServedIsPaid'
  <2> SUFFICES ASSUME NEW p \in Requests, req'[p].pc \in {"seek", "served"}, ~req'[p].charged
               PROVE  \E q \in Requests : /\ PaidBy(q, req[p].cookie)'
                                          /\ req'[q].share = req'[p].share
                                          /\ req'[q].client = req'[p].client
    BY DEF ServedIsPaid
  <2>1. /\ req[p].pc \in {"seek", "served"} /\ ~req[p].charged
        /\ req'[p].cookie = req[p].cookie
        /\ req'[p].share = req[p].share /\ req'[p].client = req[p].client
    BY <1>0 DEF QuietRecord
  <2>2. PICK q \in Requests : /\ PaidBy(q, req[p].cookie)
                              /\ req[q].share = req[p].share
                              /\ req[q].client = req[p].client
    BY <2>1 DEF PaymentInv, ServedIsPaid
  <2>3. /\ PaidBy(q, req[p].cookie)'
        /\ req'[q].share = req[q].share /\ req'[q].client = req[q].client
    BY <1>0, <2>1, <2>2 DEF PaidBy, QuietRecord
  <2> QED
    BY <2>1, <2>2, <2>3
<1>7. OneChargePerSession'
  BY <1>1 DEF PaymentInv, OneChargePerSession
<1> QED
  BY <1>3, <1>4, <1>5, <1>6, <1>7 DEF PaymentInv

\* A handler that ends without being served, or after its body was handed over.
LEMMA EndStep ==
    ASSUME TypeOK, PaymentInv, NEW r \in Requests, NEW outcome \in Final, Finish(r, outcome),
           outcome = "served" => req[r].pc = "seek",
           sessionsLock' = IF sessionsLock = r THEN NULL ELSE sessionsLock,
           UNCHANGED <<sessions, visit>>
    PROVE  PaymentInv'
<1>1. req[r] \in RequestStates /\ Ended(req[r], outcome) \in RequestStates
  BY EndedType DEF TypeOK
<1>2. QuietRecord(r, Ended(req[r], outcome))
  <2>1. CASE req[r].charged \/ outcome = "served"
    <3>1. Ended(req[r], outcome)
            = [req[r] EXCEPT !.pc = outcome, !.continuing = FALSE, !.at = 0]
      BY <2>1 DEF Ended
    <3> QED
      BY <1>1, <3>1 DEF QuietRecord, RequestStates, Final
  <2>2. CASE ~(req[r].charged \/ outcome = "served")
    <3>1. Ended(req[r], outcome) = [Idle EXCEPT !.pc = outcome]
      BY <2>2 DEF Ended
    <3>2. /\ Ended(req[r], outcome).pc = outcome
          /\ Ended(req[r], outcome).charged = FALSE
          /\ Ended(req[r], outcome).cookie = NULL
      BY <3>1 DEF Idle
    <3> QED
      BY <1>1, <2>2, <3>2, AdmissionAssumption DEF QuietRecord, RequestStates, Final
  <2> QED
    BY <2>1, <2>2
<1> QED
  BY <1>1, <1>2, QuietStep DEF Finish

\* Everything a download handler does but its claim.
LEMMA QuietActions ==
    ASSUME TypeOK, PaymentInv, NEW r \in Requests, UNCHANGED visit,
           \/ \E id \in ShareIds, ip \in Clients, c \in Visits \cup {NULL} : Arrive(r, id, ip, c)
           \/ CheckSession(r) \/ LoadShare(r) \/ OpenFile(r) \/ FailClaim(r) \/ Respond(r)
    PROVE  PaymentInv'
<1>0. /\ req[r] \in RequestStates
      /\ "served" \in Final /\ "refused" \in Final /\ "failed" \in Final
      /\ req[r].pc # "claimdb" => sessionsLock # r
  BY DEF TypeOK, Final, PaymentInv, MutexInv
<1>1. ASSUME NEW x \in RequestStates, req' = [req EXCEPT ![r] = x], QuietRecord(r, x),
             req[r].pc # "claimdb", UNCHANGED <<sessions, sessionsLock>>
      PROVE  PaymentInv'
  BY <1>0, <1>1, QuietStep
<1>2. ASSUME NEW outcome \in Final, Finish(r, outcome), outcome = "served" => req[r].pc = "seek",
             req[r].pc # "claimdb", UNCHANGED <<sessions, sessionsLock>>
      PROVE  PaymentInv'
  BY <1>0, <1>2, EndStep
<1>3. ASSUME NEW id \in ShareIds, NEW ip \in Clients, NEW c \in Visits \cup {NULL},
             Arrive(r, id, ip, c)
      PROVE  PaymentInv'
  <2> DEFINE x == [Idle EXCEPT !.pc = "session", !.share = id, !.client = ip,
                               !.cookie = c, !.late = Lateness(shares[id])]
  <2>1. x \in RequestStates
    <3>1. Lateness(shares[id]) \in {"no", "dead", "expired"} /\ "session" \in InFlight
      BY DEF Lateness, InFlight
    <3> QED
      BY <3>1, IdleType DEF RequestStates
  <2>2. x.charged = FALSE /\ x.pc = "session" /\ x.cookie = c
    BY DEF Idle
  <2>3. req[r].pc = "idle" /\ (c # NULL => visit[c].pc = "done")
    BY <1>3 DEF Arrive
  <2>4. ~req[r].charged
    BY <2>3 DEF PaymentInv, UnchargedInv, Final
  <2> HIDE DEF x
  <2>5. QuietRecord(r, x)
    BY <1>0, <2>1, <2>2, <2>3, <2>4, AdmissionAssumption DEF QuietRecord, RequestStates
  <2>6. Finish(r, "refused") \/ req' = [req EXCEPT ![r] = x]
    BY <1>3 DEF Arrive, x
  <2> QED
    BY <1>0, <1>1, <1>2, <1>3, <2>1, <2>3, <2>5, <2>6 DEF Arrive
<1>4. CASE CheckSession(r)
  <2> DEFINE b == Counted(req[r].cookie, req[r].share, req[r].client)
             x == [req[r] EXCEPT !.pc = "load", !.continuing = b]
  <2>1. b \in BOOLEAN
    BY <1>0 DEF Counted, SessionMatches, Sessions, RequestStates, TypeOK
  <2>2. x \in RequestStates
    <3>1. "load" \in InFlight
      BY DEF InFlight
    <3> HIDE DEF b
    <3> QED
      BY <1>0, <2>1, <3>1, RequestStateUpdate, ZeroIsTime
  <2>3. ~req[r].charged
    BY <1>4 DEF CheckSession, PaymentInv, UnchargedInv, Final
  <2>4. QuietRecord(r, x)
    BY <1>0, <2>3 DEF QuietRecord, RequestStates
  <2> QED
    BY <1>1, <1>4, <2>2, <2>4 DEF CheckSession
<1>5. CASE LoadShare(r)
  <2> DEFINE x == [req[r] EXCEPT !.pc = "open", !.continuing = FALSE]
  <2>1. x \in RequestStates
    BY <1>0, RequestStateUpdate, ZeroIsTime DEF InFlight
  <2>2. ~req[r].charged
    BY <1>5 DEF LoadShare, PaymentInv, UnchargedInv, Final
  <2>3. QuietRecord(r, x)
    BY <1>0, <2>2 DEF QuietRecord, RequestStates
  <2>4. \/ req' = [req EXCEPT ![r] = x]
        \/ Finish(r, "refused") \/ Finish(r, "failed")
    BY <1>5 DEF LoadShare
  <2> QED
    BY <1>0, <1>1, <1>2, <1>5, <2>1, <2>3, <2>4 DEF LoadShare
<1>6. CASE OpenFile(r)
  <2> DEFINE x == [req[r] EXCEPT !.pc = "claim"]
  <2>1. x \in RequestStates
    BY <1>0, RequestStateUpdate, ZeroIsTime DEF InFlight
  <2>2. ~req[r].charged
    BY <1>6 DEF OpenFile, PaymentInv, UnchargedInv, Final
  <2>3. QuietRecord(r, x)
    BY <1>0, <2>2 DEF QuietRecord, RequestStates
  <2>4. \/ req' = [req EXCEPT ![r] = x]
        \/ Finish(r, "refused") \/ Finish(r, "failed")
    BY <1>6 DEF OpenFile
  <2> QED
    BY <1>0, <1>1, <1>2, <1>6, <2>1, <2>3, <2>4 DEF OpenFile
<1>7. CASE FailClaim(r)
  <2>1. Finish(r, "refused") \/ Finish(r, "failed")
    BY <1>7 DEF FailClaim
  <2> QED
    BY <1>0, <1>7, <2>1, EndStep DEF FailClaim, ReleaseMutex
<1>8. CASE Respond(r)
  <2>1. Finish(r, "served") \/ Finish(r, "failed")
    BY <1>8 DEF Respond
  <2> QED
    BY <1>0, <1>2, <1>8, <2>1 DEF Respond
<1> QED
  BY <1>3, <1>4, <1>5, <1>6, <1>7, <1>8

\* The lookup before the claim: a counted session is paid for already, and an
\* uncounted one is locked, so that nobody else can count it meanwhile.
LEMMA BeginClaimStep ==
    ASSUME TypeOK, Addressed, PaymentInv, NEW r \in Requests, BeginClaim(r), UNCHANGED visit
    PROVE  PaymentInv'
<1> DEFINE c == req[r].cookie
           matches == SessionMatches(c, req[r].share, req[r].client)
<1>0. /\ req \in [Requests -> RequestStates] /\ req[r] \in RequestStates
      /\ req[r].pc = "claim" /\ ~req[r].charged
      /\ NULL \notin Requests /\ NULL \notin Visits
      /\ c \in Visits \cup {NULL}
      /\ UNCHANGED <<sessions, visit>>
      /\ sessionsLock # r
  BY AdmissionAssumption
  DEF TypeOK, BeginClaim, PaymentInv, UnchargedInv, MutexInv, Final, RequestStates
<1>1. PICK x : /\ req' = [req EXCEPT ![r] = x]
               /\ x.charged = FALSE /\ x.cookie = c
               /\ x.share = req[r].share /\ x.client = req[r].client
               /\ \/ /\ matches /\ sessions[c].counted
                     /\ x.pc = "seek"
                     /\ UNCHANGED sessionsLock
                  \/ /\ ~(matches /\ sessions[c].counted)
                     /\ x.pc = "claimdb"
                     /\ x.via = IF matches THEN "session" ELSE "direct"
                     /\ sessionsLock' = IF matches THEN r ELSE sessionsLock
  <2>1. CASE matches /\ sessions[c].counted
    <3> DEFINE x == [req[r] EXCEPT !.pc = "seek"]
    <3>1. /\ req' = [req EXCEPT ![r] = x] /\ UNCHANGED sessionsLock
      BY <2>1 DEF BeginClaim
    <3>2. /\ x.charged = FALSE /\ x.cookie = c /\ x.pc = "seek"
          /\ x.share = req[r].share /\ x.client = req[r].client
      BY <1>0 DEF RequestStates
    <3> QED
      BY <2>1, <3>1, <3>2
  <2>2. CASE ~(matches /\ sessions[c].counted)
    <3> DEFINE via == IF matches THEN "session" ELSE "direct"
               x == [req[r] EXCEPT !.pc = "claimdb", !.at = now, !.via = via]
    <3>1. /\ req' = [req EXCEPT ![r] = x]
          /\ sessionsLock' = IF matches THEN r ELSE sessionsLock
      BY <2>2 DEF BeginClaim
    <3> HIDE DEF matches
    <3>2. /\ x.charged = FALSE /\ x.cookie = c /\ x.pc = "claimdb" /\ x.via = via
          /\ x.share = req[r].share /\ x.client = req[r].client
      BY <1>0 DEF RequestStates
    <3> QED
      BY <2>2, <3>1, <3>2
  <2> QED
    BY <2>1, <2>2
<1>2. matches => /\ c \in Visits
                 /\ sessions[c].share_id = req[r].share
                 /\ sessions[c].client_ip = req[r].client
                 /\ sessionsLock = NULL
  BY <1>0 DEF SessionMatches, BeginClaim, MutexFree
<1> HIDE DEF matches
<1>3. /\ req'[r] = x /\ \A q \in Requests : q # r => req'[q] = req[q]
  BY <1>0, <1>1
<1>4. \A q \in Requests, d \in Visits : PaidBy(q, d)' <=> PaidBy(q, d)
  BY <1>0, <1>1, <1>3 DEF PaidBy
<1>5. \A q \in Requests, d \in Visits : PaidFor(q, d)' <=> PaidFor(q, d)
  BY <1>0, <1>1, <1>3, <1>4 DEF PaidFor, PaidBy
<1>6. MutexInv'
  <2> SUFFICES ASSUME NEW q \in Requests
               PROVE  /\ sessionsLock' = q <=> req'[q].pc = "claimdb" /\ req'[q].via = "session"
                      /\ sessionsLock' = q =>
                            /\ req'[q].cookie \in Visits
                            /\ sessions'[req'[q].cookie].share_id = req'[q].share
                            /\ sessions'[req'[q].cookie].client_ip = req'[q].client
                            /\ ~sessions'[req'[q].cookie].counted
    BY DEF MutexInv
  <2>1. CASE matches /\ ~sessions[c].counted
    BY <1>0, <1>1, <1>2, <1>3, <2>1 DEF PaymentInv, MutexInv
  <2>2. CASE ~matches \/ sessions[c].counted
    BY <1>0, <1>1, <1>2, <1>3, <2>2 DEF PaymentInv, MutexInv
  <2> QED
    BY <2>1, <2>2
<1>7. SessionInv'
  BY <1>0, <1>1, <1>3, <1>4, <1>5 DEF PaymentInv, SessionInv
<1>8. UnchargedInv'
  BY <1>0, <1>1, <1>3 DEF PaymentInv, UnchargedInv
<1>9. ServedIsPaid'
  <2> SUFFICES ASSUME NEW p \in Requests, req'[p].pc \in {"seek", "served"}, ~req'[p].charged
               PROVE  \E q \in Requests : /\ PaidBy(q, req[p].cookie)'
                                          /\ req'[q].share = req'[p].share
                                          /\ req'[q].client = req'[p].client
    BY DEF ServedIsPaid
  <2>1. PICK q \in Requests : /\ PaidBy(q, req[p].cookie)
                              /\ req[q].share = req[p].share
                              /\ req[q].client = req[p].client
    <3>1. CASE p = r
      BY <1>0, <1>1, <1>2, <1>3, <3>1 DEF PaymentInv, SessionInv, PaidFor
    <3>2. CASE p # r
      BY <1>3, <3>2 DEF PaymentInv, ServedIsPaid
    <3> QED
      BY <3>1, <3>2
  <2>2. q # r
    BY <1>0, <2>1 DEF PaidBy
  <2>3. /\ req'[q] = req[q] /\ req'[p].share = req[p].share
        /\ req'[p].client = req[p].client /\ req'[p].cookie = req[p].cookie
    BY <1>1, <1>3, <2>2
  <2> QED
    BY <2>1, <2>3 DEF PaidBy
<1>10. OneChargePerSession'
  BY <1>4 DEF PaymentInv, OneChargePerSession
<1> QED
  BY <1>6, <1>7, <1>8, <1>9, <1>10 DEF PaymentInv

\* The claim: the one request charged through a session is the one that marks it.
LEMMA ClaimStep ==
    ASSUME TypeOK, Addressed, PaymentInv, NEW r \in Requests, Claim(r), UNCHANGED visit
    PROVE  PaymentInv'
<1> DEFINE c == req[r].cookie
           x == [req[r] EXCEPT !.pc = "seek", !.charged = TRUE, !.at = 0]
<1>0. /\ req \in [Requests -> RequestStates] /\ req[r] \in RequestStates
      /\ req' = [req EXCEPT ![r] = x]
      /\ sessions \in [Visits -> Sessions]
      /\ req[r].pc = "claimdb" /\ ~req[r].charged
      /\ NULL \notin Requests /\ NULL \notin Visits /\ NULL \notin ShareIds
      /\ req[r].share \in ShareIds
      /\ sessionsLock' = IF sessionsLock = r THEN NULL ELSE sessionsLock
  BY AdmissionAssumption
  DEF TypeOK, Addressed, Claim, ReleaseMutex, PaymentInv, UnchargedInv, Final, InFlight
<1>1. /\ x.pc = "seek" /\ x.charged = TRUE /\ x.cookie = c /\ x.via = req[r].via
      /\ x.share = req[r].share /\ x.client = req[r].client
  BY <1>0 DEF RequestStates
<1> HIDE DEF x
<1>2. /\ req'[r] = x /\ \A q \in Requests : q # r => req'[q] = req[q]
  BY <1>0
<1>3. CASE req[r].via # "session"
  <2>1. UNCHANGED <<sessions, sessionsLock>> /\ sessionsLock # r
    BY <1>0, <1>3 DEF Claim, PaymentInv, MutexInv
  <2>2. \A q \in Requests, d \in Visits : PaidBy(q, d)' <=> PaidBy(q, d)
    BY <1>0, <1>1, <1>2, <1>3 DEF PaidBy
  <2>3. \A q \in Requests, d \in Visits : PaidFor(q, d)' <=> PaidFor(q, d)
    BY <1>1, <1>2, <2>1, <2>2 DEF PaidFor
  <2>4. MutexInv'
    BY <1>1, <1>2, <2>1 DEF PaymentInv, MutexInv
  <2>5. SessionInv'
    BY <1>1, <1>2, <2>1, <2>2, <2>3 DEF PaymentInv, SessionInv
  <2>6. UnchargedInv'
    BY <1>1, <1>2 DEF PaymentInv, UnchargedInv
  <2>7. ServedIsPaid'
    BY <1>0, <1>1, <1>2, <1>3 DEF PaymentInv, ServedIsPaid, PaidBy
  <2>8. OneChargePerSession'
    BY <2>2 DEF PaymentInv, OneChargePerSession
  <2> QED
    BY <2>4, <2>5, <2>6, <2>7, <2>8 DEF PaymentInv
<1>4. CASE req[r].via = "session"
  <2>1. /\ sessionsLock = r /\ c \in Visits
        /\ sessions[c].share_id = req[r].share
        /\ sessions[c].client_ip = req[r].client
        /\ ~sessions[c].counted
        /\ sessionsLock' = NULL
    BY <1>0, <1>4 DEF PaymentInv, MutexInv
  <2>2. \A q \in Requests : ~PaidBy(q, c)
    BY <1>0, <2>1 DEF PaymentInv, SessionInv
  <2>3. sessions' = [sessions EXCEPT ![c] = [@ EXCEPT !.counted = TRUE]]
    BY <1>4 DEF Claim
  <2>4. /\ sessions'[c].counted = TRUE
        /\ \A d \in Visits : /\ sessions'[d].share_id = sessions[d].share_id
                             /\ sessions'[d].client_ip = sessions[d].client_ip
                             /\ d # c => sessions'[d] = sessions[d]
    BY <1>0, <2>1, <2>3 DEF Sessions
  <2>5. \A q \in Requests, d \in Visits : PaidBy(q, d)' <=> PaidBy(q, d) \/ (q = r /\ d = c)
    BY <1>0, <1>1, <1>2, <1>4 DEF PaidBy
  <2>6. \A q \in Requests, d \in Visits : PaidFor(q, d) => PaidFor(q, d)'
    BY <1>1, <1>2, <2>4, <2>5 DEF PaidFor
  <2>7. PaidFor(r, c)'
    BY <1>1, <1>2, <2>1, <2>4, <2>5 DEF PaidFor
  <2>8. MutexInv'
    BY <1>0, <1>1, <1>2, <2>1, <2>4 DEF PaymentInv, MutexInv
  <2>9. SessionInv'
    <3>1. visit[c].pc = "done"
      BY <2>1 DEF PaymentInv, SessionInv
    <3> QED
      BY <1>1, <1>2, <2>1, <2>4, <2>5, <2>6, <2>7, <3>1 DEF PaymentInv, SessionInv
  <2>10. UnchargedInv'
    BY <1>1, <1>2 DEF PaymentInv, UnchargedInv
  <2>11. ServedIsPaid'
    BY <1>0, <1>1, <1>2 DEF PaymentInv, ServedIsPaid, PaidBy
  <2>12. OneChargePerSession'
    BY <2>2, <2>5 DEF PaymentInv, OneChargePerSession
  <2> QED
    BY <2>8, <2>9, <2>10, <2>11, <2>12 DEF PaymentInv
<1> QED
  BY <1>3, <1>4

\* A visit mints a session nobody has used yet.
LEMMA SharePageStep ==
    ASSUME TypeOK, PaymentInv, NEW v \in Visits, SharePage(v), UNCHANGED <<req, sessionsLock>>
    PROVE  PaymentInv'
<1>0. visit \in [Visits -> VisitStates] /\ sessions \in [Visits -> Sessions]
  BY DEF TypeOK
<1>1. \A q \in Requests, d \in Visits : PaidBy(q, d)' <=> PaidBy(q, d)
  BY DEF PaidBy
<1>2. UnchargedInv' /\ ServedIsPaid' /\ OneChargePerSession'
  BY <1>1 DEF PaymentInv, UnchargedInv, ServedIsPaid, OneChargePerSession, PaidBy
<1>3. ASSUME NEW id \in ShareIds, NEW ip \in Clients, LoadPage(v, id, ip)
      PROVE  MutexInv' /\ SessionInv'
  <2>1. MutexInv'
    BY <1>3 DEF LoadPage, PaymentInv, MutexInv
  <2>2. \A d \in Visits : visit'[d].pc # "done" => visit[d].pc # "done"
    BY <1>0, <1>3 DEF LoadPage, VisitStates
  <2>3. SessionInv'
    BY <1>1, <1>3, <2>2 DEF LoadPage, PaymentInv, SessionInv, PaidFor
  <2> QED
    BY <2>1, <2>3
<1>4. ASSUME MintSession(v)
      PROVE  MutexInv' /\ SessionInv'
  <2>1. /\ sessions'[v].counted = FALSE
        /\ \A d \in Visits : d # v => sessions'[d] = sessions[d] /\ visit'[d] = visit[d]
        /\ visit'[v].pc = "done"
        /\ visit[v].pc # "done"
    BY <1>0, <1>4 DEF MintSession, NoVisit
  <2>2. \A q \in Requests : ~PaidBy(q, v)
    BY <2>1 DEF PaymentInv, SessionInv, PaidBy
  <2>3. MutexInv'
    BY <1>4, AdmissionAssumption DEF MintSession, PaymentInv, MutexInv
  <2>4. SessionInv'
    BY <1>1, <2>1, <2>2 DEF PaymentInv, SessionInv, PaidFor
  <2> QED
    BY <2>3, <2>4
<1> QED
  BY <1>2, <1>3, <1>4 DEF PaymentInv, SharePage

\* The sweep only runs while nobody claims, and forgets whole sessions.
LEMMA CleanStep ==
    ASSUME TypeOK, PaymentInv, Clean, UNCHANGED <<req, sessionsLock, visit>>
    PROVE  PaymentInv'
<1>1. CASE UNCHANGED sessions
  BY <1>1 DEF PaymentInv, MutexInv, SessionInv, UnchargedInv, ServedIsPaid,
              OneChargePerSession, PaidBy, PaidFor
<1>2. CASE SweepSessions
  <2>1. \A q \in Requests, d \in Visits : PaidBy(q, d)' <=> PaidBy(q, d)
    BY DEF PaidBy
  <2>2. \A d \in Visits : sessions'[d] = sessions[d] \/ sessions'[d] = NoSession
    BY <1>2 DEF SweepSessions
  <2>3. NoSession.counted = FALSE /\ NoSession.share_id = NULL
    BY DEF NoSession
  <2>4. MutexInv'
    BY <1>2, AdmissionAssumption DEF SweepSessions, PaymentInv, MutexInv
  <2>5. SessionInv'
    BY <2>1, <2>2, <2>3 DEF PaymentInv, SessionInv, PaidFor
  <2>6. UnchargedInv' /\ ServedIsPaid' /\ OneChargePerSession'
    BY <2>1 DEF PaymentInv, UnchargedInv, ServedIsPaid, OneChargePerSession, PaidBy
  <2> QED
    BY <2>4, <2>5, <2>6 DEF PaymentInv
<1> QED
  BY <1>1, <1>2 DEF Clean, CleanSelect, CleanFail, SweepBegin, CleanRevoke

\* A crash forgets the sessions and ends every handler; what was charged and
\* what was served stays.
LEMMA CrashStep ==
    ASSUME TypeOK, PaymentInv, Crash
    PROVE  PaymentInv'
<1>0. req \in [Requests -> RequestStates] /\ visit \in [Visits -> VisitStates]
  BY DEF TypeOK
<1>1. ASSUME NEW q \in Requests
      PROVE  /\ req'[q].charged = req[q].charged
             /\ req[q].charged => /\ req'[q].via = req[q].via
                                  /\ req'[q].cookie = req[q].cookie
                                  /\ req'[q].share = req[q].share
                                  /\ req'[q].client = req[q].client
             /\ req'[q].pc \in {"seek", "served", "claimdb"} => req'[q] = req[q]
             /\ req'[q].pc # "claimdb" /\ req'[q].pc # "seek"
             /\ req'[q].charged => req'[q].pc \in Final
             /\ req'[q].cookie \in Visits => req'[q].cookie = req[q].cookie
  <2>1. CASE req[q].pc \notin InFlight
    BY <2>1 DEF Crash, InFlight, PaymentInv, UnchargedInv
  <2>2. CASE req[q].pc \in InFlight /\ req[q].charged
    <3>1. req'[q] = [req[q] EXCEPT !.pc = "failed", !.continuing = FALSE, !.at = 0]
      BY <2>2 DEF Crash, Ended
    <3>2. /\ req'[q].pc = "failed" /\ req'[q].charged = req[q].charged
          /\ req'[q].via = req[q].via /\ req'[q].cookie = req[q].cookie
          /\ req'[q].share = req[q].share /\ req'[q].client = req[q].client
      BY <1>0, <3>1 DEF RequestStates
    <3> QED
      BY <2>2, <3>2 DEF Final
  <2>3. CASE req[q].pc \in InFlight /\ ~req[q].charged
    <3>1. req'[q] = [Idle EXCEPT !.pc = "failed"]
      BY <2>3 DEF Crash, Ended
    <3>2. req'[q].charged = FALSE /\ req'[q].pc = "failed" /\ req'[q].cookie = NULL
      BY <3>1 DEF Idle
    <3> QED
      BY <1>0, <2>3, <3>2, AdmissionAssumption DEF RequestStates, Final
  <2> QED
    BY <2>1, <2>2, <2>3
<1>2. \A q \in Requests, d \in Visits : PaidBy(q, d)' <=> PaidBy(q, d)
  BY <1>1 DEF PaidBy
<1>3. \A d \in Visits : /\ sessions'[d] = NoSession
                        /\ visit'[d].pc # "done" => visit[d].pc # "done"
  BY <1>0 DEF Crash, NoVisit, VisitStates
<1>4. MutexInv'
  BY <1>1, AdmissionAssumption DEF Crash, MutexInv
<1>5. SessionInv'
  <2>1. NoSession.counted = FALSE /\ NoSession.share_id = NULL
    BY DEF NoSession
  <2>2. \A d \in Visits, q \in Requests : visit[d].pc # "done" => req'[q].cookie # d
    BY <1>1 DEF PaymentInv, SessionInv
  <2> QED
    BY <1>3, <2>1, <2>2 DEF SessionInv, NoSession
<1>6. UnchargedInv'
  BY <1>1 DEF UnchargedInv
<1>7. ServedIsPaid'
  <2> SUFFICES ASSUME NEW p \in Requests, req'[p].pc = "served", ~req'[p].charged
               PROVE  \E q \in Requests : /\ PaidBy(q, req[p].cookie)'
                                          /\ req'[q].share = req'[p].share
                                          /\ req'[q].client = req'[p].client
                                          /\ req'[p].cookie = req[p].cookie
    BY <1>1 DEF ServedIsPaid, PaidBy
  <2>1. req'[p] = req[p]
    BY <1>1
  <2>2. PICK q \in Requests : /\ PaidBy(q, req[p].cookie)
                              /\ req[q].share = req[p].share
                              /\ req[q].client = req[p].client
    BY <2>1 DEF PaymentInv, ServedIsPaid
  <2> QED
    BY <1>1, <2>1, <2>2 DEF PaidBy
<1>8. OneChargePerSession'
  BY <1>2 DEF PaymentInv, OneChargePerSession
<1> QED
  BY <1>4, <1>5, <1>6, <1>7, <1>8 DEF PaymentInv

\* PaymentInv is inductive.
LEMMA PaymentStep ==
    ASSUME TypeOK, Addressed, PaymentInv, [Next]_vars
    PROVE  PaymentInv'
<1>1. ASSUME NEW r \in Requests, Download(r), UNCHANGED visit
      PROVE  PaymentInv'
  BY <1>1, QuietActions, BeginClaimStep, ClaimStep DEF Download, Proceed
<1>2. ASSUME UNCHANGED <<sessions, sessionsLock, req, visit>>
      PROVE  PaymentInv'
  BY <1>2 DEF PaymentInv, MutexInv, SessionInv, UnchargedInv, ServedIsPaid,
              OneChargePerSession, PaidBy, PaidFor
<1> QED
  BY <1>1, <1>2, SharePageStep, CleanStep, CrashStep DEF Next, vars

LEMMA PaymentInit == Init => PaymentInv
BY AdmissionAssumption
DEF Init, PaymentInv, MutexInv, SessionInv, UnchargedInv, ServedIsPaid, OneChargePerSession,
    PaidBy, PaidFor, NoSession, NoVisit, Idle

LEMMA PaymentInvariant == Spec => []PaymentInv
<1>1. TypeOK /\ Addressed /\ PaymentInv /\ [Next]_vars => (TypeOK /\ Addressed /\ PaymentInv)'
  BY TypeStep, PaymentStep
<1> QED
  BY <1>1, TypeInit, PaymentInit, PTL DEF Spec

\* Nobody is served unless the request, or another one of its session, was
\* counted against the share: for any number of requests and sessions, and
\* through sweeps and crashes.
THEOREM AdmissionServedIsPaid == Spec => []ServedIsPaid
BY PaymentInvariant, PTL DEF PaymentInv

\* A session is counted at most once, however many of its requests run in parallel.
THEOREM AdmissionOneChargePerSession == Spec => []OneChargePerSession
BY PaymentInvariant, PTL DEF PaymentInv

\* The sessions mutex is only held by a handler that is about to claim.
THEOREM AdmissionMutexHeldInClaim == Spec => []MutexHeldInClaim
<1>1. TypeOK /\ PaymentInv => MutexHeldInClaim
  BY DEF TypeOK, PaymentInv, MutexInv, MutexHeldInClaim
<1> QED
  BY <1>1, AdmissionTyped, PaymentInvariant, PTL

\* Revocation and deletion are final in the whole system.
THEOREM AdmissionNeverReopened == Spec => NeverReopened
BY AdmissionImplementsRegistry, RegistryNeverReopened

\* Concurrent downloads never exceed the limit in the whole system.
THEOREM AdmissionOnlyOwnerOverdraws == Spec => OnlyOwnerOverdraws
BY AdmissionImplementsRegistry, RegistryOnlyOwnerOverdraws

----------------------------------------------------------------------------
(* What was counted.                                                       *)

Charged(id) == {r \in Requests : req[r].charged /\ req[r].share = id}

\* The counter of a share is the number of its charges, which are finitely many
\* because each came with a step; nobody is charged for an id that is not issued.
CountInv ==
    \A id \in ShareIds :
        /\ IsFiniteSet(Charged(id))
        /\ Exists(id) => shares[id].download_count = Cardinality(Charged(id))
        /\ shares[id].status = "unissued" => Charged(id) = {}

\* A row that a step leaves, removes, or inserts with its counter at zero.
CountKept(id) ==
    /\ Exists(id)' => \/ Exists(id) /\ shares'[id].download_count = shares[id].download_count
                      \/ shares[id].status = "unissued" /\ shares'[id].download_count = 0
    /\ shares'[id].status = "unissued" => shares[id].status = "unissued"

\* The charges stay what they are.
ChargesKept ==
    \A q \in Requests : /\ req'[q].charged = req[q].charged
                        /\ req[q].charged => req'[q].share = req[q].share

LEMMA CountStep ==
    ASSUME CountInv, ChargesKept, \A id \in ShareIds : CountKept(id)
    PROVE  CountInv'
<1>1. \A id \in ShareIds : Charged(id)' = Charged(id)
  BY DEF ChargesKept, Charged
<1> QED
  BY <1>1, FS_EmptySet DEF CountInv, CountKept, Exists

\* Every statement but the claim keeps the counters.
LEMMA StatementsKeepCounts ==
    ASSUME TypeOK, NEW id \in ShareIds,
           \/ \E e, m, h : InsertShare(id, NewRow(e, m, h))
           \/ RevokeShare(id) \/ DeleteShare(id)
           \/ \E v : SetExpiresAt(id, v) \/ SetMaxDownloads(id, v) \/ SetPasswordHash(id, v)
    PROVE  \A k \in ShareIds : CountKept(k)
<1>0. shares \in [ShareIds -> Rows] /\ shares[id] \in Rows
  BY DEF TypeOK, RegistryTypeOK
<1>1. ASSUME NEW e, NEW m, NEW h, InsertShare(id, NewRow(e, m, h))
      PROVE  \A k \in ShareIds : CountKept(k)
  BY <1>0, <1>1 DEF InsertShare, NewRow, CountKept, Exists
<1>2. ASSUME NEW row, UpdateRow(id, row), row.status # "unissued",
             row.status = "deleted" \/ row.download_count = shares[id].download_count
      PROVE  \A k \in ShareIds : CountKept(k)
  BY <1>0, <1>2 DEF UpdateRow, CountKept, Exists
<1>3. CASE RevokeShare(id)
  <2> DEFINE row == [shares[id] EXCEPT !.status = "revoked"]
  <2>1. row.status = "revoked" /\ row.download_count = shares[id].download_count
    BY <1>0 DEF Rows
  <2>2. UpdateRow(id, row)
    BY <1>3 DEF RevokeShare
  <2> HIDE DEF row
  <2> QED
    BY <1>2, <2>1, <2>2
<1>4. CASE DeleteShare(id)
  <2>1. NoRow("deleted").status = "deleted"
    BY DEF NoRow
  <2> QED
    BY <1>2, <1>4, <2>1 DEF DeleteShare
<1>5. ASSUME NEW v, SetExpiresAt(id, v) \/ SetMaxDownloads(id, v) \/ SetPasswordHash(id, v)
      PROVE  \A k \in ShareIds : CountKept(k)
  <2>1. PICK row : /\ UpdateRow(id, row)
                   /\ row.status = shares[id].status
                   /\ row.download_count = shares[id].download_count
    <3>1. CASE SetExpiresAt(id, v)
      <4> DEFINE x == [shares[id] EXCEPT !.expires_at = v]
      <4>1. UpdateRow(id, x) /\ x.status = shares[id].status
              /\ x.download_count = shares[id].download_count
        BY <1>0, <3>1 DEF SetExpiresAt, Rows
      <4> QED
        BY <4>1
    <3>2. CASE SetMaxDownloads(id, v)
      <4> DEFINE x == [shares[id] EXCEPT !.max_downloads = v]
      <4>1. UpdateRow(id, x) /\ x.status = shares[id].status
              /\ x.download_count = shares[id].download_count
        BY <1>0, <3>2 DEF SetMaxDownloads, Rows
      <4> QED
        BY <4>1
    <3>3. CASE SetPasswordHash(id, v)
      <4> DEFINE x == [shares[id] EXCEPT !.password_hash = v]
      <4>1. UpdateRow(id, x) /\ x.status = shares[id].status
              /\ x.download_count = shares[id].download_count
        BY <1>0, <3>3 DEF SetPasswordHash, Rows
      <4> QED
        BY <4>1
    <3> QED
      BY <1>5, <3>1, <3>2, <3>3
  <2>2. CASE ~Exists(id)
    BY <1>0, <2>1, <2>2 DEF UpdateRow, CountKept, Exists
  <2>3. CASE Exists(id)
    BY <1>2, <2>1, <2>3 DEF Exists
  <2> QED
    BY <2>2, <2>3
<1> QED
  BY <1>1, <1>3, <1>4, <1>5

\* The steps of a download that are not its claim keep its charge.
LEMMA DownloadKeepsCharges ==
    ASSUME TypeOK, PaymentInv, NEW r \in Requests, Download(r), ~Claim(r)
    PROVE  ChargesKept /\ UNCHANGED shares
<1>0. req \in [Requests -> RequestStates] /\ req[r] \in RequestStates
  BY DEF TypeOK
<1>1. ASSUME NEW x, req' = [req EXCEPT ![r] = x], x.charged = req[r].charged,
             req[r].charged => x.share = req[r].share
      PROVE  ChargesKept
  BY <1>0, <1>1 DEF ChargesKept
<1>2. ASSUME NEW outcome \in Final, Finish(r, outcome)
      PROVE  ChargesKept
  <2>1. /\ Ended(req[r], outcome).charged = req[r].charged
        /\ req[r].charged => Ended(req[r], outcome).share = req[r].share
    <3>1. CASE req[r].charged \/ outcome = "served"
      <4>1. Ended(req[r], outcome)
              = [req[r] EXCEPT !.pc = outcome, !.continuing = FALSE, !.at = 0]
        BY <3>1 DEF Ended
      <4> QED
        BY <1>0, <4>1 DEF RequestStates
    <3>2. CASE ~(req[r].charged \/ outcome = "served")
      <4>1. Ended(req[r], outcome) = [Idle EXCEPT !.pc = outcome]
        BY <3>2 DEF Ended
      <4>2. Ended(req[r], outcome).charged = FALSE
        BY <4>1 DEF Idle
      <4> QED
        BY <1>0, <3>2, <4>2 DEF RequestStates
    <3> QED
      BY <3>1, <3>2
  <2> QED
    BY <1>1, <1>2, <2>1 DEF Finish
<1>3. "served" \in Final /\ "refused" \in Final /\ "failed" \in Final
  BY DEF Final
<1>4. ASSUME NEW id \in ShareIds, NEW ip \in Clients, NEW c \in Visits \cup {NULL},
             Arrive(r, id, ip, c)
      PROVE  ChargesKept
  <2> DEFINE x == [Idle EXCEPT !.pc = "session", !.share = id, !.client = ip,
                               !.cookie = c, !.late = Lateness(shares[id])]
  <2>1. x.charged = FALSE
    BY DEF Idle
  <2>2. req[r].charged = FALSE
    BY <1>0, <1>4 DEF Arrive, PaymentInv, UnchargedInv, Final, RequestStates
  <2>3. Finish(r, "refused") \/ req' = [req EXCEPT ![r] = x]
    BY <1>4 DEF Arrive
  <2> HIDE DEF x
  <2> QED
    BY <1>1, <1>2, <1>3, <2>1, <2>2, <2>3
<1>5. ASSUME CheckSession(r)
      PROVE  ChargesKept
  <2> DEFINE b == Counted(req[r].cookie, req[r].share, req[r].client)
             x == [req[r] EXCEPT !.pc = "load", !.continuing = b]
  <2>1. req' = [req EXCEPT ![r] = x]
    BY <1>5 DEF CheckSession
  <2>2. x.charged = req[r].charged /\ x.share = req[r].share
    BY <1>0 DEF RequestStates
  <2> HIDE DEF x
  <2> QED
    BY <1>1, <2>1, <2>2
<1>6. ASSUME LoadShare(r)
      PROVE  ChargesKept
  <2> DEFINE x == [req[r] EXCEPT !.pc = "open", !.continuing = FALSE]
  <2>1. \/ req' = [req EXCEPT ![r] = x]
        \/ Finish(r, "refused") \/ Finish(r, "failed")
    BY <1>6 DEF LoadShare
  <2>2. x.charged = req[r].charged /\ x.share = req[r].share
    BY <1>0 DEF RequestStates
  <2> HIDE DEF x
  <2> QED
    BY <1>1, <1>2, <1>3, <2>1, <2>2
<1>7. ASSUME OpenFile(r)
      PROVE  ChargesKept
  <2> DEFINE x == [req[r] EXCEPT !.pc = "claim"]
  <2>1. \/ req' = [req EXCEPT ![r] = x]
        \/ Finish(r, "refused") \/ Finish(r, "failed")
    BY <1>7 DEF OpenFile
  <2>2. x.charged = req[r].charged /\ x.share = req[r].share
    BY <1>0 DEF RequestStates
  <2> HIDE DEF x
  <2> QED
    BY <1>1, <1>2, <1>3, <2>1, <2>2
<1>8. ASSUME BeginClaim(r)
      PROVE  ChargesKept
  <2> DEFINE via == IF SessionMatches(req[r].cookie, req[r].share, req[r].client)
                    THEN "session" ELSE "direct"
             x == [req[r] EXCEPT !.pc = "seek"]
             y == [req[r] EXCEPT !.pc = "claimdb", !.at = now, !.via = via]
  <2>1. req' = [req EXCEPT ![r] = x] \/ req' = [req EXCEPT ![r] = y]
    BY <1>8 DEF BeginClaim
  <2> HIDE DEF via
  <2>2. /\ x.charged = req[r].charged /\ x.share = req[r].share
        /\ y.charged = req[r].charged /\ y.share = req[r].share
    BY <1>0 DEF RequestStates
  <2> HIDE DEF x, y
  <2> QED
    BY <1>1, <2>1, <2>2
<1>9. ASSUME FailClaim(r)
      PROVE  ChargesKept
  <2>1. Finish(r, "refused") \/ Finish(r, "failed")
    BY <1>9 DEF FailClaim
  <2> QED
    BY <1>2, <1>3, <2>1
<1>10. ASSUME Respond(r)
      PROVE  ChargesKept
  <2>1. Finish(r, "served") \/ Finish(r, "failed")
    BY <1>10 DEF Respond
  <2> QED
    BY <1>2, <1>3, <2>1
<1>11. ChargesKept
  BY <1>4, <1>5, <1>6, <1>7, <1>8, <1>9, <1>10 DEF Download, Proceed
<1>12. UNCHANGED shares
  BY DEF Download, Proceed, Arrive, CheckSession, LoadShare, OpenFile, BeginClaim,
         FailClaim, Respond
<1> QED
  BY <1>11, <1>12

\* A claim adds one to the counter and its request, which was in no charge yet,
\* to the charges.
LEMMA ClaimCounts ==
    ASSUME TypeOK, Addressed, PaymentInv, CountInv, NEW r \in Requests, Claim(r)
    PROVE  CountInv'
<1> DEFINE x == [req[r] EXCEPT !.pc = "seek", !.charged = TRUE, !.at = 0]
<1>. PICK k \in ShareIds : k = req[r].share
  BY DEF TypeOK, Addressed, Claim, InFlight
<1>0. /\ req \in [Requests -> RequestStates] /\ req[r] \in RequestStates
      /\ shares \in [ShareIds -> Rows]
      /\ req' = [req EXCEPT ![r] = x]
      /\ ~req[r].charged /\ req[r].share = k
  BY DEF TypeOK, RegistryTypeOK, Claim, PaymentInv, UnchargedInv, Final
<1>1. x.charged = TRUE /\ x.share = k
  BY <1>0 DEF RequestStates
<1> HIDE DEF x
<1>2. req'[r] = x /\ \A q \in Requests : q # r => req'[q] = req[q]
  BY <1>0
<1>3. /\ shares[k].status = "active"
      /\ shares' = [shares EXCEPT ![k].download_count = @ + 1]
  BY <1>0 DEF Claim, ClaimDownload, Claimable
<1>4. /\ shares'[k].status = "active"
      /\ shares'[k].download_count = shares[k].download_count + 1
      /\ \A id \in ShareIds : id # k => shares'[id] = shares[id]
  BY <1>0, <1>3 DEF Rows
<1>5. ASSUME NEW id \in ShareIds, id # k
      PROVE  Charged(id)' = Charged(id)
  BY <1>1, <1>2, <1>5 DEF Charged
<1>6. Charged(k)' = Charged(k) \cup {r} /\ r \notin Charged(k)
  BY <1>0, <1>1, <1>2 DEF Charged
<1>7. /\ IsFiniteSet(Charged(k))
      /\ shares[k].download_count = Cardinality(Charged(k))
  BY <1>0, <1>3 DEF CountInv, Exists
<1>8. /\ IsFiniteSet(Charged(k) \cup {r})
      /\ Cardinality(Charged(k) \cup {r}) = Cardinality(Charged(k)) + 1
  <2>1. /\ IsFiniteSet(Charged(k) \cup {r})
        /\ Cardinality(Charged(k) \cup {r}) = IF r \in Charged(k) THEN Cardinality(Charged(k))
                                                              ELSE Cardinality(Charged(k)) + 1
    BY <1>7, FS_AddElement
  <2> QED
    BY <1>6, <2>1
<1>9. ASSUME NEW id \in ShareIds
      PROVE  /\ IsFiniteSet(Charged(id)')
             /\ Exists(id)' => shares'[id].download_count = Cardinality(Charged(id)')
             /\ shares'[id].status = "unissued" => Charged(id)' = {}
  <2>1. CASE id = k
    BY <1>4, <1>6, <1>7, <1>8, <2>1
  <2>2. CASE id # k
    BY <1>4, <1>5, <2>2 DEF CountInv, Exists
  <2> QED
    BY <2>1, <2>2
<1> QED
  BY <1>9 DEF CountInv

\* A crash ends handlers and keeps what they were charged.
LEMMA CrashKeepsCharges ==
    ASSUME TypeOK, Crash
    PROVE  ChargesKept /\ UNCHANGED shares
<1>1. ASSUME NEW q \in Requests
      PROVE  req'[q].charged = req[q].charged /\ (req[q].charged => req'[q].share = req[q].share)
  <2>0. req[q] \in RequestStates
    BY DEF TypeOK
  <2>1. CASE req[q].pc \notin InFlight
    BY <2>1 DEF Crash
  <2>2. CASE req[q].pc \in InFlight /\ req[q].charged
    <3>1. req'[q] = [req[q] EXCEPT !.pc = "failed", !.continuing = FALSE, !.at = 0]
      BY <2>2 DEF Crash, Ended
    <3> QED
      BY <2>0, <3>1 DEF RequestStates
  <2>3. CASE req[q].pc \in InFlight /\ ~req[q].charged
    <3>1. req'[q] = [Idle EXCEPT !.pc = "failed"]
      BY <2>3 DEF Crash, Ended
    <3>2. req'[q].charged = FALSE
      BY <3>1 DEF Idle
    <3> QED
      BY <2>0, <2>3, <3>2 DEF RequestStates
  <2> QED
    BY <2>1, <2>2, <2>3
<1> QED
  BY <1>1 DEF ChargesKept, Crash

\* CountInv is inductive.
LEMMA CountInvStep ==
    ASSUME TypeOK, Addressed, PaymentInv, CountInv, [Next]_vars
    PROVE  CountInv'
<1>1. ASSUME UNCHANGED shares, ChargesKept
      PROVE  CountInv'
  BY <1>1, CountStep DEF CountKept, Exists
<1>2. ASSUME UNCHANGED req, \A id \in ShareIds : CountKept(id)
      PROVE  CountInv'
  BY <1>2, CountStep DEF ChargesKept
<1>3. UNCHANGED shares => \A id \in ShareIds : CountKept(id)
  BY DEF CountKept, Exists
<1>4. ASSUME NEW r \in Requests, Download(r)
      PROVE  CountInv'
  BY <1>1, <1>4, DownloadKeepsCharges, ClaimCounts
<1>5. ASSUME NEW u \in Updates, UpdateShare(u), UNCHANGED req
      PROVE  CountInv'
  <2>1. \/ UNCHANGED shares
        \/ /\ upd[u].pc \in Writing
           /\ \E v : \/ SetExpiresAt(upd[u].share, v) \/ SetMaxDownloads(upd[u].share, v)
                     \/ SetPasswordHash(upd[u].share, v)
    BY <1>5 DEF UpdateShare, StartUpdate, UpdateSettings, WriteSetting, Writing
  <2>2. upd[u].pc \in Writing => upd[u].share \in ShareIds
    BY DEF Addressed
  <2> QED
    BY <1>2, <1>3, <1>5, <2>1, <2>2, StatementsKeepCounts
<1>6. ASSUME NEW id \in ShareIds, OwnerStep(id), UNCHANGED req
      PROVE  CountInv'
  <2>1. \/ \E e, m, h : InsertShare(id, NewRow(e, m, h))
        \/ RevokeShare(id) \/ DeleteShare(id)
    BY <1>6 DEF OwnerStep, CreateShare
  <2> QED
    BY <1>2, <1>6, <2>1, StatementsKeepCounts
<1>7. ASSUME Clean, UNCHANGED req
      PROVE  CountInv'
  <2>1. UNCHANGED shares \/ \E id \in ShareIds : RevokeShare(id)
    BY <1>7 DEF Clean, CleanSelect, CleanFail, SweepBegin, SweepSessions, CleanRevoke
  <2> QED
    BY <1>2, <1>3, <1>7, <2>1, StatementsKeepCounts
<1>8. CASE UNCHANGED <<shares, req>>
  BY <1>2, <1>3, <1>8
<1> QED
  BY <1>1, <1>4, <1>5, <1>6, <1>7, <1>8, CrashKeepsCharges DEF Next, vars, SharePage, LoadPage, MintSession

LEMMA CountInit == Init => CountInv
<1> SUFFICES ASSUME Init, NEW id \in ShareIds
             PROVE  Charged(id) = {} /\ ~Exists(id)
  BY FS_EmptySet DEF CountInv
<1> QED
  BY DEF Init, RegistryInit, NoRow, Idle, Charged, Exists

\* The counter of a share is exactly the number of requests that were charged
\* for it, whatever fails after the charge, and through crashes.
THEOREM AdmissionCountMatchesCharges == Spec => []CountMatchesCharges
<1>1. /\ TypeOK /\ Addressed /\ PaymentInv /\ CountInv /\ [Next]_vars
          => (TypeOK /\ Addressed /\ PaymentInv /\ CountInv)'
  BY TypeStep, PaymentStep, CountInvStep
<1>2. CountInv => CountMatchesCharges
  BY DEF CountInv, Charged, CountMatchesCharges
<1> QED
  BY <1>1, <1>2, TypeInit, PaymentInit, CountInit, PTL DEF Spec

----------------------------------------------------------------------------
(* Who came too late.                                                      *)

Over(id) == shares[id].status \in {"revoked", "deleted"}

Lapsed(id) == shares[id].status = "active" /\ Expired(shares[id], now)

\* The owner gave the share another deadline, or is about to.
Moved(id) == \E u \in Updates : upd[u].share = id /\ upd[u].expires_at # Keep

\* A request that came too late has not got past the look at its share, unless
\* the deadline it came after was moved.
LateRequest(r) ==
    LET q == req[r] IN
    q.pc \in InFlight \cup {"served"} =>
        /\ q.late = "dead" => q.pc \in {"session", "load"} /\ Over(q.share)
        /\ q.late = "expired" =>
              \/ Moved(q.share)
              \/ q.pc \in {"session", "load"} /\ (Over(q.share) \/ Lapsed(q.share))

LateInv ==
    /\ \A u \in Updates : upd[u].pc = "idle" => upd[u].share = NULL
    /\ \A id \in ShareIds : shares[id].status = "unissued" => shares[id].expires_at = NULL
    /\ \A r \in Requests : LateRequest(r)

\* A row that a step leaves as far as its end is concerned, ends, or inserts.
EndKept(id) ==
    \/ /\ shares'[id].status = shares[id].status
       /\ shares'[id].expires_at = shares[id].expires_at
    \/ shares'[id].status \in {"revoked", "deleted"}
    \/ shares[id].status = "unissued" /\ shares'[id].status = "active"

\* Every statement but a new deadline keeps the end of every share.
LEMMA StatementsKeepEnds ==
    ASSUME TypeOK, NEW id \in ShareIds,
           \/ \E e, m, h : InsertShare(id, NewRow(e, m, h))
           \/ \E t : ClaimDownload(id, t)
           \/ RevokeShare(id) \/ DeleteShare(id)
           \/ \E v : SetMaxDownloads(id, v) \/ SetPasswordHash(id, v)
    PROVE  \A k \in ShareIds : EndKept(k)
<1>0. shares \in [ShareIds -> Rows] /\ shares[id] \in Rows
  BY DEF TypeOK, RegistryTypeOK
<1>1. ASSUME NEW row, shares' = [shares EXCEPT ![id] = row],
             \/ row.status = shares[id].status /\ row.expires_at = shares[id].expires_at
             \/ row.status \in {"revoked", "deleted"}
             \/ shares[id].status = "unissued" /\ row.status = "active"
      PROVE  \A k \in ShareIds : EndKept(k)
  BY <1>0, <1>1 DEF EndKept
<1>2. UNCHANGED shares => \A k \in ShareIds : EndKept(k)
  BY DEF EndKept
<1>3. ASSUME NEW e, NEW m, NEW h, InsertShare(id, NewRow(e, m, h))
      PROVE  \A k \in ShareIds : EndKept(k)
  <2>1. NewRow(e, m, h).status = "active"
    BY DEF NewRow
  <2> QED
    BY <1>1, <1>3, <2>1 DEF InsertShare
<1>4. ASSUME NEW t, ClaimDownload(id, t)
      PROVE  \A k \in ShareIds : EndKept(k)
  <2> DEFINE row == [shares[id] EXCEPT !.download_count = @ + 1]
  <2>1. shares' = [shares EXCEPT ![id] = row]
    BY <1>4 DEF ClaimDownload
  <2>2. row.status = shares[id].status /\ row.expires_at = shares[id].expires_at
    BY <1>0 DEF Rows
  <2> HIDE DEF row
  <2> QED
    BY <1>1, <2>1, <2>2
<1>5. CASE RevokeShare(id)
  <2> DEFINE row == [shares[id] EXCEPT !.status = "revoked"]
  <2>1. UNCHANGED shares \/ shares' = [shares EXCEPT ![id] = row]
    BY <1>5 DEF RevokeShare, UpdateRow
  <2>2. row.status = "revoked"
    BY <1>0 DEF Rows
  <2> HIDE DEF row
  <2> QED
    BY <1>1, <1>2, <2>1, <2>2
<1>6. CASE DeleteShare(id)
  <2>1. UNCHANGED shares \/ shares' = [shares EXCEPT ![id] = NoRow("deleted")]
    BY <1>6 DEF DeleteShare, UpdateRow
  <2>2. NoRow("deleted").status = "deleted"
    BY DEF NoRow
  <2> QED
    BY <1>1, <1>2, <2>1, <2>2
<1>7. ASSUME NEW v, SetMaxDownloads(id, v) \/ SetPasswordHash(id, v)
      PROVE  \A k \in ShareIds : EndKept(k)
  <2> DEFINE x == [shares[id] EXCEPT !.max_downloads = v]
             y == [shares[id] EXCEPT !.password_hash = v]
  <2>1. \/ UNCHANGED shares
        \/ shares' = [shares EXCEPT ![id] = x]
        \/ shares' = [shares EXCEPT ![id] = y]
    BY <1>7 DEF SetMaxDownloads, SetPasswordHash, UpdateRow
  <2>2. /\ x.status = shares[id].status /\ x.expires_at = shares[id].expires_at
        /\ y.status = shares[id].status /\ y.expires_at = shares[id].expires_at
    BY <1>0 DEF Rows
  <2> HIDE DEF x, y
  <2> QED
    BY <1>1, <1>2, <2>1, <2>2
<1> QED
  BY <1>3, <1>4, <1>5, <1>6, <1>7

\* What the passing of time and the steps of the others do to the end of a share.
Ages ==
    \A id \in ShareIds :
        /\ Over(id) => Over(id)'
        /\ Lapsed(id) => Lapsed(id)' \/ Over(id)' \/ Moved(id)'
        /\ Moved(id) => Moved(id)'
        /\ shares'[id].status = "unissued" => shares'[id].expires_at = NULL

LEMMA KeptEndsAge ==
    ASSUME LateInv, \A id \in ShareIds : EndKept(id) /\ (Moved(id) => Moved(id)'),
           UNCHANGED now
    PROVE  Ages
BY DEF LateInv, EndKept, Ages, Over, Lapsed, Expired

\* An update that is under way stays with its share and its settings.
LEMMA UpdatesAge ==
    ASSUME TypeOK, Addressed, LateInv, NEW u \in Updates, UpdateShare(u), UNCHANGED now
    PROVE  Ages /\ \A w \in Updates : upd'[w].pc = "idle" => upd'[w].share = NULL
<1>0. /\ upd \in [Updates -> UpdateStates] /\ upd[u] \in UpdateStates
      /\ shares \in [ShareIds -> Rows]
      /\ NULL \notin ShareIds
  BY AdmissionAssumption DEF TypeOK, RegistryTypeOK
<1>1. UNCHANGED shares => \A k \in ShareIds : EndKept(k)
  BY DEF EndKept
<1>2. ASSUME NEW id \in ShareIds, StartUpdate(u, id)
      PROVE  Ages /\ upd'[u].pc # "idle"
  <2>1. upd'[u].pc # "idle" /\ \A w \in Updates : w # u => upd'[w] = upd[w]
    BY <1>0, <1>2 DEF StartUpdate, UpdateStates
  <2>2. \A k \in ShareIds : Moved(k) => Moved(k)'
    <3>1. upd[u].share = NULL
      BY <1>2 DEF StartUpdate, LateInv
    <3> QED
      BY <1>0, <2>1, <3>1 DEF Moved
  <2> QED
    BY <1>1, <1>2, <2>1, <2>2, KeptEndsAge DEF StartUpdate
<1>3. ASSUME NEW pc \in {"done", "failed"} \cup Writing, upd' = [upd EXCEPT ![u].pc = pc]
      PROVE  /\ upd'[u].pc # "idle"
             /\ \A k \in ShareIds : Moved(k) => Moved(k)'
  <2>1. /\ upd'[u].pc = pc
        /\ \A w \in Updates : upd'[w].share = upd[w].share /\ upd'[w].expires_at = upd[w].expires_at
    BY <1>0, <1>3 DEF UpdateStates
  <2> QED
    BY <2>1 DEF Moved, Writing
<1>4. ASSUME UpdateSettings(u)
      PROVE  Ages /\ upd'[u].pc # "idle"
  <2> DEFINE s == upd[u]
  <2>0. /\ s.pc \in Writing => s.share \in ShareIds
        /\ {"expires_at", "max_downloads", "password_hash"} = Writing
    BY DEF Addressed, Writing
  <2>1. ASSUME WriteSetting(u, "expires_at", "max_downloads", s.expires_at = Keep,
                            SetExpiresAt(s.share, s.expires_at))
        PROVE  Ages /\ upd'[u].pc # "idle"
    <3>1. /\ upd'[u].pc # "idle" /\ s.share \in ShareIds
          /\ \A k \in ShareIds : Moved(k) => Moved(k)'
      BY <1>3, <2>0, <2>1 DEF WriteSetting
    <3>2. CASE UNCHANGED shares
      BY <1>1, <3>1, <3>2, KeptEndsAge
    <3>3. CASE s.expires_at # Keep /\ SetExpiresAt(s.share, s.expires_at)
      <4>1. Moved(s.share)
        BY <3>3 DEF Moved
      <4>2. PICK id \in ShareIds : id = s.share
        BY <3>1
      <4>3. Moved(id)'
        BY <3>1, <4>1, <4>2
      <4>4. /\ \A k \in ShareIds : k # id => shares'[k] = shares[k]
            /\ shares'[id].status = shares[id].status
            /\ shares[id].status = "unissued" => shares'[id] = shares[id]
        <5> DEFINE row == [shares[id] EXCEPT !.expires_at = s.expires_at]
        <5>1. shares' = IF Exists(id) THEN [shares EXCEPT ![id] = row] ELSE shares
          BY <3>3, <4>2 DEF SetExpiresAt, UpdateRow
        <5>2. row.status = shares[id].status
          BY <1>0 DEF Rows
        <5> HIDE DEF row
        <5> QED
          BY <1>0, <5>1, <5>2 DEF Exists
      <4> QED
        BY <3>1, <4>3, <4>4 DEF LateInv, Ages, Over, Lapsed, Expired
    <3> QED
      BY <2>1, <3>2, <3>3 DEF WriteSetting
  <2>2. ASSUME WriteSetting(u, "max_downloads", "password_hash", s.max_downloads = Keep,
                            SetMaxDownloads(s.share, s.max_downloads))
        PROVE  Ages /\ upd'[u].pc # "idle"
    <3>1. /\ upd'[u].pc # "idle" /\ s.share \in ShareIds
          /\ \A k \in ShareIds : Moved(k) => Moved(k)'
      BY <1>3, <2>0, <2>2 DEF WriteSetting
    <3>2. \A k \in ShareIds : EndKept(k)
      BY <1>1, <2>2, <3>1, StatementsKeepEnds DEF WriteSetting
    <3> QED
      BY <3>1, <3>2, KeptEndsAge
  <2>3. ASSUME WriteSetting(u, "password_hash", "done", s.password_hash = Keep,
                            SetPasswordHash(s.share, s.password_hash))
        PROVE  Ages /\ upd'[u].pc # "idle"
    <3>1. /\ upd'[u].pc # "idle" /\ s.share \in ShareIds
          /\ \A k \in ShareIds : Moved(k) => Moved(k)'
      BY <1>3, <2>0, <2>3 DEF WriteSetting
    <3>2. \A k \in ShareIds : EndKept(k)
      BY <1>1, <2>3, <3>1, StatementsKeepEnds DEF WriteSetting
    <3> QED
      BY <3>1, <3>2, KeptEndsAge
  <2> QED
    BY <1>4, <2>1, <2>2, <2>3 DEF UpdateSettings
<1>5. \A w \in Updates : w # u => upd'[w] = upd[w]
  BY <1>0 DEF UpdateShare, StartUpdate, UpdateSettings, WriteSetting
<1> QED
  BY <1>2, <1>4, <1>5 DEF UpdateShare, LateInv

\* Every step lets the shares age, and no update begins unnoticed.
LEMMA StepAges ==
    ASSUME TypeOK, Addressed, LateInv, [Next]_vars
    PROVE  Ages /\ \A u \in Updates : upd'[u].pc = "idle" => upd'[u].share = NULL
<1>0. UNCHANGED upd => /\ \A id \in ShareIds : Moved(id) => Moved(id)'
                       /\ \A u \in Updates : upd'[u].pc = "idle" => upd'[u].share = NULL
  BY DEF Moved, LateInv
<1>1. ASSUME UNCHANGED <<upd, now>>, \A id \in ShareIds : EndKept(id)
      PROVE  Ages
  BY <1>0, <1>1, KeptEndsAge
<1>2. UNCHANGED shares => \A id \in ShareIds : EndKept(id)
  BY DEF EndKept
<1>3. ASSUME NEW r \in Requests, Download(r), UNCHANGED <<upd, now>>
      PROVE  Ages
  <2>1. \/ UNCHANGED shares
        \/ req[r].share \in ShareIds /\ ClaimDownload(req[r].share, req[r].at)
    BY <1>3 DEF Download, Proceed, Arrive, CheckSession, LoadShare, OpenFile, BeginClaim,
                FailClaim, Claim, Respond, Addressed, InFlight
  <2> QED
    BY <1>1, <1>2, <1>3, <2>1, StatementsKeepEnds
<1>4. ASSUME NEW id \in ShareIds, OwnerStep(id), UNCHANGED <<upd, now>>
      PROVE  Ages
  <2>1. \/ \E e, m, h : InsertShare(id, NewRow(e, m, h))
        \/ RevokeShare(id) \/ DeleteShare(id)
    BY <1>4 DEF OwnerStep, CreateShare
  <2> QED
    BY <1>1, <1>4, <2>1, StatementsKeepEnds
<1>5. ASSUME Clean, UNCHANGED <<upd, now>>
      PROVE  Ages
  <2>1. UNCHANGED shares \/ \E id \in ShareIds : RevokeShare(id)
    BY <1>5 DEF Clean, CleanSelect, CleanFail, SweepBegin, SweepSessions, CleanRevoke
  <2> QED
    BY <1>1, <1>2, <1>5, <2>1, StatementsKeepEnds
<1>6. ASSUME Tick, UNCHANGED <<shares, upd>>
      PROVE  Ages
  <2>1. now \in Nat /\ now' = now + 1
    BY <1>6, RegistryAssumption DEF Tick, TypeOK, RegistryTypeOK, Time
  <2>2. ASSUME NEW id \in ShareIds, Lapsed(id)
        PROVE  Lapsed(id)'
    <3>1. shares[id].expires_at \in Nat \/ shares[id].expires_at = NULL
      BY RegistryAssumption DEF TypeOK, RegistryTypeOK, Rows, Deadlines, Time
    <3> QED
      BY <1>6, <2>1, <2>2, <3>1 DEF Lapsed, Expired
  <2> QED
    BY <1>0, <1>6, <2>2 DEF Ages, Over, LateInv
<1>7. ASSUME Crash
      PROVE  Ages /\ \A u \in Updates : upd'[u].pc = "idle" => upd'[u].share = NULL
  <2>1. ASSUME NEW u \in Updates
        PROVE  /\ upd'[u].share = upd[u].share /\ upd'[u].expires_at = upd[u].expires_at
               /\ upd'[u].pc = "idle" => upd[u].pc = "idle"
    <3>1. upd[u] \in UpdateStates
      BY DEF TypeOK
    <3>2. upd'[u] = IF upd[u].pc \in Writing THEN [upd[u] EXCEPT !.pc = "failed"] ELSE upd[u]
      BY <1>7 DEF Crash
    <3> QED
      BY <3>1, <3>2 DEF UpdateStates
  <2>2. \A id \in ShareIds : Moved(id) => Moved(id)'
    BY <2>1 DEF Moved
  <2>3. UNCHANGED <<shares, now>>
    BY <1>7 DEF Crash
  <2>4. Ages
    BY <1>2, <2>2, <2>3, KeptEndsAge
  <2> QED
    BY <2>1, <2>4 DEF LateInv
<1>8. CASE UNCHANGED <<shares, now, upd>>
  BY <1>0, <1>1, <1>2, <1>8
<1> QED
  BY <1>0, <1>3, <1>4, <1>5, <1>6, <1>7, <1>8, UpdatesAge
  DEF Next, vars, SharePage, LoadPage, MintSession, Tick

\* A late request stays late while the shares age.
LEMMA LateStays ==
    ASSUME TypeOK, Addressed, LateInv, Ages, NEW q \in Requests, req'[q] = req[q]
    PROVE  LateRequest(q)'
<1>1. CASE req[q].pc \in InFlight \cup {"served"}
  <2>1. PICK id \in ShareIds : id = req[q].share
    BY <1>1 DEF Addressed
  <2> QED
    BY <1>1, <2>1 DEF LateInv, LateRequest, Ages
<1>2. CASE req[q].pc \notin InFlight \cup {"served"}
  BY <1>2 DEF LateRequest
<1> QED
  BY <1>1, <1>2

\* A step of a download: it stays with its share, and gets past the look at its
\* share only if that has not ended.
LEMMA DownloadLate ==
    ASSUME TypeOK, Addressed, LateInv, Ages, NEW r \in Requests, Download(r), UNCHANGED now
    PROVE  \A q \in Requests : LateRequest(q)'
<1>0. /\ req \in [Requests -> RequestStates] /\ req[r] \in RequestStates
      /\ {"session", "load", "open", "claim", "claimdb", "seek"} = InFlight
  BY DEF TypeOK, InFlight
<1>1. ASSUME NEW x, req' = [req EXCEPT ![r] = x], x.pc \notin InFlight \cup {"served"}
      PROVE  LateRequest(r)'
  <2>1. req'[r] = x
    BY <1>0, <1>1
  <2> QED
    BY <1>1, <2>1 DEF LateRequest
<1>2. ASSUME NEW x, req' = [req EXCEPT ![r] = x], req[r].pc \in InFlight,
             x.late = req[r].late, x.share = req[r].share,
             req[r].pc \in {"session", "load"} =>
                \/ x.pc \in {"session", "load"}
                \/ ~Over(req[r].share) /\ ~Lapsed(req[r].share)
      PROVE  LateRequest(r)'
  <2>1. req'[r] = x
    BY <1>0, <1>2
  <2>2. PICK id \in ShareIds : id = req[r].share
    BY <1>2 DEF Addressed
  <2>3. /\ Over(id) => Over(id)'
        /\ Moved(id) => Moved(id)'
        /\ Lapsed(id) => Lapsed(id)' \/ Over(id)' \/ Moved(id)'
    BY DEF Ages
  <2>4. /\ req[r].late = "dead" => req[r].pc \in {"session", "load"} /\ Over(id)
        /\ req[r].late = "expired" =>
              Moved(id) \/ (req[r].pc \in {"session", "load"} /\ (Over(id) \/ Lapsed(id)))
    BY <1>2, <2>2 DEF LateInv, LateRequest
  <2>5. req[r].pc \in {"session", "load"} => x.pc \in {"session", "load"} \/ (~Over(id) /\ ~Lapsed(id))
    BY <1>2, <2>2
  <2>6. /\ x.late = "dead" => x.pc \in {"session", "load"} /\ Over(id)'
        /\ x.late = "expired" =>
              Moved(id)' \/ (x.pc \in {"session", "load"} /\ (Over(id)' \/ Lapsed(id)'))
    BY <1>2, <2>3, <2>4, <2>5
  <2>7. x.share = id
    BY <1>2, <2>2
  <2> QED
    BY <2>1, <2>6, <2>7 DEF LateRequest
<1>3. ASSUME NEW outcome \in {"refused", "failed"}, Finish(r, outcome)
      PROVE  LateRequest(r)'
  <2>1. Ended(req[r], outcome).pc = outcome
    BY <1>0 DEF Ended, RequestStates, Idle
  <2> QED
    BY <1>0, <1>1, <1>3, <2>1 DEF Finish
<1>4. ASSUME NEW id \in ShareIds, NEW ip \in Clients, NEW c \in Visits \cup {NULL},
             Arrive(r, id, ip, c)
      PROVE  LateRequest(r)'
  <2> DEFINE x == [Idle EXCEPT !.pc = "session", !.share = id, !.client = ip,
                               !.cookie = c, !.late = Lateness(shares[id])]
  <2>1. /\ x.pc = "session" /\ x.share = id
        /\ x.late = Lateness(shares[id])
    BY DEF Idle
  <2> HIDE DEF x
  <2>2. ASSUME req' = [req EXCEPT ![r] = x]
        PROVE  LateRequest(r)'
    <3>1. req'[r] = x
      BY <1>0, <2>2
    <3>2. UNCHANGED shares
      BY <1>4 DEF Arrive
    <3>3. shares[id].status \in {"unissued", "active", "revoked", "deleted"}
      BY DEF TypeOK, RegistryTypeOK, Rows
    <3>4. /\ Lateness(shares[id]) = "dead" => Over(id)
          /\ Lateness(shares[id]) = "expired" => Lapsed(id)
      BY <3>3 DEF Lateness, Over, Lapsed, LateInv, Expired
    <3>5. Over(id)' = Over(id) /\ Lapsed(id)' = Lapsed(id)
      BY <3>2 DEF Over, Lapsed, Expired
    <3> QED
      BY <2>1, <3>1, <3>4, <3>5 DEF LateRequest
  <2>3. Finish(r, "refused") \/ req' = [req EXCEPT ![r] = x]
    BY <1>4 DEF Arrive, x
  <2> QED
    BY <1>3, <2>2, <2>3
<1>5. ASSUME CheckSession(r)
      PROVE  LateRequest(r)'
  <2> DEFINE b == Counted(req[r].cookie, req[r].share, req[r].client)
             x == [req[r] EXCEPT !.pc = "load", !.continuing = b]
  <2>1. req' = [req EXCEPT ![r] = x] /\ req[r].pc = "session"
    BY <1>5 DEF CheckSession
  <2> HIDE DEF b
  <2>2. x.late = req[r].late /\ x.share = req[r].share /\ x.pc = "load"
    BY <1>0 DEF RequestStates
  <2> HIDE DEF x
  <2> QED
    BY <1>0, <1>2, <2>1, <2>2
<1>6. ASSUME LoadShare(r)
      PROVE  LateRequest(r)'
  <2> DEFINE x == [req[r] EXCEPT !.pc = "open", !.continuing = FALSE]
  <2>1. \/ /\ Available(shares[req[r].share], req[r].continuing)
           /\ req' = [req EXCEPT ![r] = x] /\ req[r].pc = "load"
        \/ Finish(r, "refused") \/ Finish(r, "failed")
    BY <1>6 DEF LoadShare
  <2>2. x.late = req[r].late /\ x.share = req[r].share
    BY <1>0 DEF RequestStates
  <2> HIDE DEF x
  <2>3. Available(shares[req[r].share], req[r].continuing)
           => ~Over(req[r].share) /\ ~Lapsed(req[r].share)
    BY DEF Available, Over, Lapsed
  <2> QED
    BY <1>0, <1>2, <1>3, <2>1, <2>2, <2>3
<1>7. ASSUME NEW x, req' = [req EXCEPT ![r] = x],
             req[r].pc \in InFlight \ {"session", "load"},
             x.late = req[r].late, x.share = req[r].share
      PROVE  LateRequest(r)'
  BY <1>2, <1>7
<1>8. ASSUME OpenFile(r)
      PROVE  LateRequest(r)'
  <2> DEFINE x == [req[r] EXCEPT !.pc = "claim"]
  <2>1. \/ req' = [req EXCEPT ![r] = x] /\ req[r].pc = "open"
        \/ Finish(r, "refused") \/ Finish(r, "failed")
    BY <1>8 DEF OpenFile
  <2>2. x.late = req[r].late /\ x.share = req[r].share
    BY <1>0 DEF RequestStates
  <2> HIDE DEF x
  <2> QED
    BY <1>0, <1>3, <1>7, <2>1, <2>2
<1>9. ASSUME BeginClaim(r)
      PROVE  LateRequest(r)'
  <2> DEFINE via == IF SessionMatches(req[r].cookie, req[r].share, req[r].client)
                    THEN "session" ELSE "direct"
             x == [req[r] EXCEPT !.pc = "seek"]
             y == [req[r] EXCEPT !.pc = "claimdb", !.at = now, !.via = via]
  <2>1. /\ req' = [req EXCEPT ![r] = x] \/ req' = [req EXCEPT ![r] = y]
        /\ req[r].pc = "claim"
    BY <1>9 DEF BeginClaim
  <2> HIDE DEF via
  <2>2. /\ x.late = req[r].late /\ x.share = req[r].share
        /\ y.late = req[r].late /\ y.share = req[r].share
    BY <1>0 DEF RequestStates
  <2> HIDE DEF x, y
  <2> QED
    BY <1>0, <1>7, <2>1, <2>2
<1>10. ASSUME FailClaim(r)
       PROVE  LateRequest(r)'
  <2>1. Finish(r, "refused") \/ Finish(r, "failed")
    BY <1>10 DEF FailClaim
  <2> QED
    BY <1>3, <2>1
<1>11. ASSUME Claim(r)
       PROVE  LateRequest(r)'
  <2> DEFINE x == [req[r] EXCEPT !.pc = "seek", !.charged = TRUE, !.at = 0]
  <2>1. req' = [req EXCEPT ![r] = x] /\ req[r].pc = "claimdb"
    BY <1>11 DEF Claim
  <2>2. x.late = req[r].late /\ x.share = req[r].share
    BY <1>0 DEF RequestStates
  <2> HIDE DEF x
  <2> QED
    BY <1>0, <1>7, <2>1, <2>2
<1>12. ASSUME Respond(r)
       PROVE  LateRequest(r)'
  <2> DEFINE x == [req[r] EXCEPT !.pc = "served", !.continuing = FALSE, !.at = 0]
  <2>1. Finish(r, "failed") \/ (req' = [req EXCEPT ![r] = x] /\ req[r].pc = "seek")
    BY <1>12 DEF Respond, Finish, Ended
  <2>2. x.late = req[r].late /\ x.share = req[r].share
    BY <1>0 DEF RequestStates
  <2> HIDE DEF x
  <2> QED
    BY <1>0, <1>3, <1>7, <2>1, <2>2
<1>13. LateRequest(r)'
  BY <1>4, <1>5, <1>6, <1>8, <1>9, <1>10, <1>11, <1>12 DEF Download, Proceed
<1>14. \A q \in Requests : q # r => req'[q] = req[q]
  BY <1>0 DEF Download, Proceed, Arrive, CheckSession, LoadShare, OpenFile, BeginClaim,
              FailClaim, Claim, Respond, Finish
<1> QED
  BY <1>13, <1>14, LateStays

\* LateInv is inductive.
LEMMA LateStep ==
    ASSUME TypeOK, Addressed, LateInv, [Next]_vars
    PROVE  LateInv'
<1>1. Ages /\ \A u \in Updates : upd'[u].pc = "idle" => upd'[u].share = NULL
  BY StepAges
<1>2. \A q \in Requests : LateRequest(q)'
  <2>1. CASE UNCHANGED req
    BY <1>1, <2>1, LateStays
  <2>2. CASE \E r \in Requests : Download(r) /\ UNCHANGED now
    BY <1>1, <2>2, DownloadLate
  <2>3. CASE Crash
    <3>1. ASSUME NEW q \in Requests, req'[q] # req[q]
          PROVE  req'[q].pc = "failed"
      <4>1. req'[q] = Ended(req[q], "failed") /\ req[q] \in RequestStates
        BY <2>3, <3>1 DEF Crash, TypeOK
      <4> QED
        BY <4>1 DEF Ended, RequestStates, Idle
    <3>2. "failed" \notin InFlight \cup {"served"}
      BY DEF InFlight
    <3>3. \A q \in Requests : req'[q] # req[q] => LateRequest(q)'
      BY <3>1, <3>2 DEF LateRequest
    <3> QED
      BY <1>1, <3>3, LateStays
  <2> QED
    BY <2>1, <2>2, <2>3 DEF Next, vars
<1> QED
  BY <1>1, <1>2 DEF LateInv, Ages

LEMMA LateInit == Init => LateInv
BY DEF Init, RegistryInit, NoRow, NoUpdate, Idle, LateInv, LateRequest, InFlight

\* A request that comes after its share was revoked or deleted is not served,
\* and one that comes after the deadline only if the deadline is moved: however
\* many sessions, siblings, updates and crashes come in between.
THEOREM AdmissionLateNeverServed == Spec => []LateNeverServed
<1>1. TypeOK /\ Addressed /\ LateInv /\ [Next]_vars => (TypeOK /\ Addressed /\ LateInv)'
  BY TypeStep, LateStep
<1>2. LateInv => LateNeverServed
  BY DEF LateInv, LateRequest, Moved, LateNeverServed
<1> QED
  BY <1>1, <1>2, TypeInit, LateInit, PTL DEF Spec

----------------------------------------------------------------------------
(* New deadlines are still to come.                                        *)

\* What the parser accepts lies ahead, and in the range of an i64.
LEMMA ParsedAhead ==
    ASSUME now \in Time, NEW d \in Lifetimes \cup {NULL}, NEW e \in ParseExpiry(d)
    PROVE  e = NULL \/ e \in (now + 1) .. I64Max
<1>1. CASE d = NULL
  BY <1>1 DEF ParseExpiry
<1>2. CASE d # NULL
  <2>1. d \in Nat /\ d > 0 /\ now \in Nat /\ I64Max \in Nat
    BY <1>2, RegistryAssumption DEF Time
  <2>2. e = now + d /\ e <= I64Max
    BY <1>2, <2>1, RegistryAssumption DEF ParseExpiry
  <2> QED
    BY <2>1, <2>2
<1> QED
  BY <1>1, <1>2

\* A handler that has not started has no deadline to write.
FreshInv ==
    /\ \A u \in Updates : upd[u].pc = "idle" => upd[u].expires_at = Keep
    /\ \A id \in ShareIds : shares[id].status = "unissued" => shares[id].expires_at = NULL

AheadStep ==
    /\ \A id \in ShareIds :
          shares[id].status = "unissued" => ~Expired(shares'[id], now)
    /\ \A u \in Updates :
          LET e == upd'[u].expires_at IN
          upd[u].pc = "idle" => e \in {Keep, NULL} \/ e \in (now + 1) .. I64Max

\* No statement but the insertion concerns a share that is not issued yet.
LEMMA StatementUnissued ==
    ASSUME shares \in [ShareIds -> Rows], NEW k \in ShareIds, NEW id \in ShareIds,
           shares[id].status = "unissued",
           \/ \E t : ClaimDownload(k, t)
           \/ RevokeShare(k) \/ DeleteShare(k)
           \/ \E v : SetExpiresAt(k, v) \/ SetMaxDownloads(k, v) \/ SetPasswordHash(k, v)
    PROVE  shares'[id] = shares[id]
<1>1. CASE \E t : ClaimDownload(k, t)
  BY <1>1 DEF ClaimDownload, Claimable
<1>2. CASE \E row : UpdateRow(k, row)
  BY <1>2 DEF UpdateRow, Exists
<1> QED
  BY <1>1, <1>2 DEF RevokeShare, DeleteShare, SetExpiresAt, SetMaxDownloads, SetPasswordHash

\* The insertion gives its share a deadline ahead, and touches no other.
LEMMA CreatedAhead ==
    ASSUME TypeOK, NEW k \in ShareIds, NEW id \in ShareIds, CreateShare(k),
           shares[id].status = "unissued"
    PROVE  \/ shares'[id] = shares[id]
           \/ shares'[id].status = "active" /\ ~Expired(shares'[id], now)
<1>1. PICK s \in Settings :
         /\ Keep \notin {s.expires, s.max_downloads, s.password}
         /\ \E e \in ParseExpiry(s.expires) :
               InsertShare(k, NewRow(e, s.max_downloads, s.password))
  BY DEF CreateShare
<1>2. s.expires \in Lifetimes \cup {NULL} /\ now \in Time
  BY <1>1, AdmissionAssumption DEF TypeOK, RegistryTypeOK
<1>3. PICK e \in ParseExpiry(s.expires) :
         InsertShare(k, NewRow(e, s.max_downloads, s.password))
  BY <1>1
<1>4. e = NULL \/ e \in (now + 1) .. I64Max
  BY <1>2, <1>3, ParsedAhead
<1>5. now \in Nat /\ I64Max \in Nat
  BY <1>2, RegistryAssumption DEF Time
<1>6. CASE id = k
  <2>1. shares'[id] = NewRow(e, s.max_downloads, s.password)
    BY <1>3, <1>6 DEF InsertShare, TypeOK, RegistryTypeOK
  <2>2. shares'[id].status = "active" /\ shares'[id].expires_at = e
    BY <2>1 DEF NewRow
  <2> QED
    BY <1>4, <1>5, <2>2 DEF Expired
<1>7. CASE id # k
  BY <1>3, <1>7 DEF InsertShare, TypeOK, RegistryTypeOK
<1> QED
  BY <1>6, <1>7

\* An update that starts takes a deadline ahead, or none.
LEMMA StartedAhead ==
    ASSUME TypeOK, FreshInv, NEW u \in Updates, NEW id \in ShareIds, StartUpdate(u, id)
    PROVE  /\ upd'[u].pc # "idle"
           /\ \A w \in Updates : w # u => upd'[w] = upd[w]
           /\ LET e == upd'[u].expires_at IN e \in {Keep, NULL} \/ e \in (now + 1) .. I64Max
<1>0. upd \in [Updates -> UpdateStates] /\ now \in Time
  BY DEF TypeOK, RegistryTypeOK
<1>1. CASE upd' = [upd EXCEPT ![u].pc = "failed"]
  <2>1. upd[u] \in UpdateStates /\ upd[u].expires_at = Keep
    BY <1>0 DEF StartUpdate, FreshInv
  <2>2. upd'[u].pc = "failed" /\ upd'[u].expires_at = Keep
    BY <1>0, <1>1, <2>1 DEF UpdateStates
  <2> QED
    BY <1>0, <1>1, <2>2
<1>2. ASSUME NEW s \in Settings,
             NEW e \in IF s.expires = Keep THEN {Keep} ELSE ParseExpiry(s.expires),
             NEW m, NEW h,
             upd' = [upd EXCEPT ![u] = [pc            |-> "expires_at",
                                        share         |-> id,
                                        expires_at    |-> e,
                                        max_downloads |-> m,
                                        password_hash |-> h]]
      PROVE  /\ upd'[u].pc # "idle"
             /\ \A w \in Updates : w # u => upd'[w] = upd[w]
             /\ upd'[u].expires_at \in {Keep, NULL} \cup (now + 1) .. I64Max
  <2>1. s.expires \in Lifetimes \cup {NULL, Keep}
    BY AdmissionAssumption
  <2>2. e \in {Keep, NULL} \cup (now + 1) .. I64Max
    BY <1>0, <2>1, ParsedAhead
  <2> QED
    BY <1>0, <1>2, <2>2
<1> QED
  BY <1>1, <1>2 DEF StartUpdate

LEMMA FreshStep ==
    ASSUME TypeOK, Addressed, FreshInv, [Next]_vars
    PROVE  FreshInv' /\ AheadStep
<1>0. /\ shares \in [ShareIds -> Rows] /\ upd \in [Updates -> UpdateStates]
      /\ FreshInv
  BY DEF TypeOK, RegistryTypeOK
<1> DEFINE Kept(id) == shares[id].status = "unissued" =>
                          \/ shares'[id] = shares[id]
                          \/ shares'[id].status = "active" /\ ~Expired(shares'[id], now)
           Begun(u) == /\ upd'[u].pc = "idle" => upd[u].pc = "idle" /\ upd'[u] = upd[u]
                       /\ upd[u].pc = "idle" =>
                             upd'[u].expires_at \in {Keep, NULL} \cup (now + 1) .. I64Max
           Issued(id) == shares'[id].status = "unissued" => shares[id].status = "unissued"
<1>1. \A u \in Updates : UNCHANGED upd => Begun(u)
  BY <1>0 DEF FreshInv
<1>2. \A id \in ShareIds : UNCHANGED shares => Kept(id) /\ Issued(id)
  OBVIOUS
<1>3. ASSUME NEW r \in Requests, Download(r)
      PROVE  \A id \in ShareIds : Kept(id) /\ Issued(id)
  <2>1. UNCHANGED shares \/ (req[r].share \in ShareIds /\ ClaimDownload(req[r].share, req[r].at))
    BY <1>3 DEF Download, Proceed, Arrive, CheckSession, LoadShare, OpenFile, BeginClaim,
                FailClaim, Claim, Respond, Addressed, InFlight
  <2>2. ASSUME NEW id \in ShareIds, ClaimDownload(req[r].share, req[r].at)
        PROVE  Issued(id)
    BY <1>0, <2>2 DEF ClaimDownload, Rows
  <2> QED
    BY <1>0, <1>2, <2>1, <2>2, StatementUnissued
<1>4. ASSUME NEW k \in ShareIds, NEW row \in Rows, UpdateRow(k, row), row.status # "unissued"
      PROVE  \A id \in ShareIds : Kept(id) /\ Issued(id)
  BY <1>0, <1>4 DEF UpdateRow, Exists
<1>5. ASSUME NEW k \in ShareIds, RevokeShare(k) \/ DeleteShare(k)
      PROVE  \A id \in ShareIds : Kept(id) /\ Issued(id)
  <2>1. CASE RevokeShare(k)
    <3>1. [shares[k] EXCEPT !.status = "revoked"] \in Rows
      BY <1>0 DEF Rows
    <3>2. [shares[k] EXCEPT !.status = "revoked"].status # "unissued"
      BY <1>0 DEF Rows
    <3> QED
      BY <1>4, <2>1, <3>1, <3>2 DEF RevokeShare
  <2>2. CASE DeleteShare(k)
    <3>1. NoRow("deleted") \in Rows /\ NoRow("deleted").status # "unissued"
      BY NullDeadline DEF Rows, NoRow
    <3> QED
      BY <1>4, <2>2, <3>1 DEF DeleteShare
  <2> QED
    BY <1>5, <2>1, <2>2
<1>6. ASSUME NEW k \in ShareIds, CreateShare(k)
      PROVE  \A id \in ShareIds : Kept(id) /\ Issued(id)
  <2>1. \A id \in ShareIds : Kept(id)
    BY <1>6, CreatedAhead
  <2>2. \A id \in ShareIds : Issued(id)
    BY <1>0, <1>6 DEF CreateShare, InsertShare, NewRow
  <2> QED
    BY <2>1, <2>2
<1>7. ASSUME NEW u \in Updates, UpdateShare(u)
      PROVE  /\ \A w \in Updates : Begun(w)
             /\ \A id \in ShareIds : Kept(id) /\ Issued(id)
  <2>1. ASSUME NEW id \in ShareIds, StartUpdate(u, id)
        PROVE  /\ \A w \in Updates : Begun(w)
               /\ UNCHANGED shares
    <3>1. \A w \in Updates : w # u => Begun(w)
      BY <1>0, <2>1, StartedAhead DEF FreshInv
    <3>2. Begun(u)
      BY <1>0, <2>1, StartedAhead
    <3> QED
      BY <2>1, <3>1, <3>2 DEF StartUpdate
  <2>2. ASSUME NEW pc \in Writing, upd[u].pc = pc,
               NEW next \in {"done", "failed"} \cup Writing,
               upd' = [upd EXCEPT ![u].pc = next]
        PROVE  \A w \in Updates : Begun(w)
    <3>1. upd[u].pc # "idle" /\ next # "idle"
      BY <2>2 DEF Writing
    <3>2. upd'[u].pc = next
      BY <1>0, <2>2 DEF UpdateStates
    <3>3. \A w \in Updates : w # u => upd'[w] = upd[w]
      BY <1>0, <2>2
    <3> QED
      BY <1>0, <3>1, <3>2, <3>3 DEF FreshInv
  <2>3. ASSUME UpdateSettings(u)
        PROVE  /\ \A w \in Updates : Begun(w)
               /\ \A id \in ShareIds : Kept(id) /\ Issued(id)
    <3>1. /\ upd[u].pc \in Writing
          /\ \E next \in {"done", "failed"} \cup Writing : upd' = [upd EXCEPT ![u].pc = next]
          /\ \/ UNCHANGED shares
             \/ upd[u].pc = "expires_at" /\ upd[u].expires_at # Keep
                   /\ SetExpiresAt(upd[u].share, upd[u].expires_at)
             \/ upd[u].pc = "max_downloads" /\ upd[u].max_downloads # Keep
                   /\ SetMaxDownloads(upd[u].share, upd[u].max_downloads)
             \/ upd[u].pc = "password_hash" /\ upd[u].password_hash # Keep
                   /\ SetPasswordHash(upd[u].share, upd[u].password_hash)
      BY <2>3 DEF UpdateSettings, WriteSetting, Writing
    <3>2. upd[u].share \in ShareIds /\ upd[u] \in UpdateStates
      BY <1>0, <3>1 DEF Addressed
    <3>3. shares[upd[u].share] \in Rows
      BY <1>0, <3>2
    <3>4. /\ upd[u].expires_at # Keep =>
                [shares[upd[u].share] EXCEPT !.expires_at = upd[u].expires_at] \in Rows
          /\ upd[u].max_downloads # Keep =>
                [shares[upd[u].share] EXCEPT !.max_downloads = upd[u].max_downloads] \in Rows
          /\ upd[u].password_hash # Keep =>
                [shares[upd[u].share] EXCEPT !.password_hash = upd[u].password_hash] \in Rows
      BY <3>2, <3>3 DEF UpdateStates, Rows
    <3>5. ASSUME NEW row \in Rows, UpdateRow(upd[u].share, row),
                 row.status = shares[upd[u].share].status
          PROVE  \A id \in ShareIds : Kept(id) /\ Issued(id)
      BY <1>0, <3>2, <3>5 DEF UpdateRow, Exists
    <3>6. \A id \in ShareIds : Kept(id) /\ Issued(id)
      <4>1. CASE upd[u].expires_at # Keep /\ SetExpiresAt(upd[u].share, upd[u].expires_at)
        <5>1. [shares[upd[u].share] EXCEPT !.expires_at = upd[u].expires_at].status
                 = shares[upd[u].share].status
          BY <3>3 DEF Rows
        <5> QED
          BY <3>4, <3>5, <4>1, <5>1 DEF SetExpiresAt
      <4>2. CASE upd[u].max_downloads # Keep
                   /\ SetMaxDownloads(upd[u].share, upd[u].max_downloads)
        <5>1. [shares[upd[u].share] EXCEPT !.max_downloads = upd[u].max_downloads].status
                 = shares[upd[u].share].status
          BY <3>3 DEF Rows
        <5> QED
          BY <3>4, <3>5, <4>2, <5>1 DEF SetMaxDownloads
      <4>3. CASE upd[u].password_hash # Keep
                   /\ SetPasswordHash(upd[u].share, upd[u].password_hash)
        <5>1. [shares[upd[u].share] EXCEPT !.password_hash = upd[u].password_hash].status
                 = shares[upd[u].share].status
          BY <3>3 DEF Rows
        <5> QED
          BY <3>4, <3>5, <4>3, <5>1 DEF SetPasswordHash
      <4> QED
        BY <1>2, <3>1, <4>1, <4>2, <4>3
    <3> QED
      BY <2>2, <3>1, <3>6
  <2> QED
    BY <1>2, <1>7, <2>1, <2>3 DEF UpdateShare
<1>8. ASSUME Clean
      PROVE  \A id \in ShareIds : Kept(id) /\ Issued(id)
  <2>1. UNCHANGED shares \/ \E id \in ShareIds : RevokeShare(id)
    BY <1>8 DEF Clean, CleanSelect, CleanFail, SweepBegin, SweepSessions, CleanRevoke
  <2> QED
    BY <1>2, <1>5, <2>1
<1>9. ASSUME Crash
      PROVE  (\A u \in Updates : Begun(u)) /\ UNCHANGED shares
  <2>1. ASSUME NEW u \in Updates
        PROVE  Begun(u)
    <3>1. upd[u] \in UpdateStates
      BY <1>0
    <3>2. \/ upd'[u] = upd[u]
          \/ upd[u].pc \in Writing /\ upd'[u] = [upd[u] EXCEPT !.pc = "failed"]
      BY <1>9 DEF Crash
    <3>3. upd'[u] # upd[u] => upd[u].pc # "idle" /\ upd'[u].pc = "failed"
      BY <3>1, <3>2 DEF UpdateStates, Writing
    <3> QED
      BY <1>0, <3>3 DEF FreshInv
  <2> QED
    BY <1>9, <2>1 DEF Crash
<1>10. /\ \A u \in Updates : Begun(u)
       /\ \A id \in ShareIds : Kept(id) /\ Issued(id)
  <2>1. CASE \E r \in Requests : Download(r) /\ UNCHANGED upd
    BY <1>1, <1>3, <2>1
  <2>2. CASE \E u \in Updates : UpdateShare(u)
    BY <1>7, <2>2
  <2>3. CASE \E id \in ShareIds : OwnerStep(id) /\ UNCHANGED upd
    BY <1>1, <1>5, <1>6, <2>3 DEF OwnerStep
  <2>4. CASE Clean /\ UNCHANGED upd
    BY <1>1, <1>8, <2>4
  <2>5. CASE Crash
    BY <1>2, <1>9, <2>5
  <2>6. CASE UNCHANGED <<shares, upd>>
    BY <1>1, <1>2, <2>6
  <2> QED
    BY <2>1, <2>2, <2>3, <2>4, <2>5, <2>6 DEF Next, vars
<1>11. FreshInv'
  <2>1. \A u \in Updates : (upd[u].pc = "idle" => upd[u].expires_at = Keep)'
    BY <1>0, <1>10 DEF FreshInv
  <2>2. ASSUME NEW id \in ShareIds, shares'[id].status = "unissued"
        PROVE  shares'[id].expires_at = NULL
    BY <1>0, <1>10, <2>2 DEF FreshInv
  <2> QED
    BY <2>1, <2>2 DEF FreshInv
<1>12. AheadStep
  <2>1. ASSUME NEW id \in ShareIds, shares[id].status = "unissued"
        PROVE  ~Expired(shares'[id], now)
    BY <1>0, <1>10, <2>1 DEF FreshInv, Expired
  <2> QED
    BY <1>10, <2>1 DEF AheadStep
<1> QED
  BY <1>11, <1>12

LEMMA FreshInit == Init => FreshInv
BY DEF Init, RegistryInit, NoRow, NoUpdate, FreshInv

\* Whatever the clock shows and however large the lifetime is, a share that is
\* created and an update that is accepted has no deadline in the past.
THEOREM AdmissionDeadlinesAhead == Spec => DeadlinesAhead
<1>1. TypeOK /\ Addressed /\ FreshInv /\ [Next]_vars => (TypeOK /\ Addressed /\ FreshInv)'
  BY TypeStep, FreshStep
<1>2. TypeOK /\ Addressed /\ FreshInv /\ [Next]_vars => [AheadStep]_vars
  BY FreshStep
<1>3. Spec => [][AheadStep]_vars
  BY <1>1, <1>2, TypeInit, FreshInit, PTL DEF Spec
<1> QED
  BY <1>3 DEF DeadlinesAhead, AheadStep

----------------------------------------------------------------------------
(* Whom the cleanup revokes.                                               *)

\* What the cleanup has chosen had expired when it was chosen: it has ended
\* since, is expired still, or has an update that moves its deadline.
ChosenInv == \A id \in cleaner.pending : Over(id) \/ Lapsed(id) \/ Moved(id)

\* ChosenInv is inductive: a share is only added by the SELECT.
LEMMA ChosenStep ==
    ASSUME TypeOK, Addressed, LateInv, ChosenInv, [Next]_vars
    PROVE  ChosenInv'
<1>0. cleaner \in CleanerStates /\ cleaner.pending \subseteq ShareIds
  BY DEF TypeOK, CleanerStates
<1>1. Ages
  BY StepAges
<1>2. ASSUME cleaner'.pending \subseteq cleaner.pending
      PROVE  ChosenInv'
  BY <1>0, <1>1, <1>2 DEF ChosenInv, Ages
<1>3. ASSUME CleanSelect, UNCHANGED now
      PROVE  ChosenInv'
  <2>1. cleaner'.pending = ExpiredShares(now) /\ UNCHANGED shares
    BY <1>3 DEF CleanSelect
  <2>2. \A id \in ExpiredShares(now) : Lapsed(id)'
    BY <1>3, <2>1 DEF ExpiredShares, Lapsed, Expired
  <2> QED
    BY <2>1, <2>2 DEF ChosenInv
<1>4. ASSUME NEW id \in ShareIds, CleanRevoke(id)
      PROVE  ChosenInv'
  <2>1. cleaner'.pending = cleaner.pending \ {id}
    BY <1>0, <1>4 DEF CleanRevoke, CleanerStates
  <2> QED
    BY <1>2, <2>1
<1>5. CASE CleanFail \/ SweepSessions \/ Crash
  <2>1. cleaner'.pending = {}
    BY <1>5 DEF CleanFail, SweepSessions, Crash, NotCleaning
  <2> QED
    BY <1>2, <2>1
<1>6. CASE SweepBegin
  <2>1. cleaner'.pending = cleaner.pending
    BY <1>0, <1>6 DEF SweepBegin, CleanerStates
  <2> QED
    BY <1>2, <2>1
<1>7. CASE UNCHANGED cleaner
  BY <1>2, <1>7
<1> QED
  BY <1>3, <1>4, <1>5, <1>6, <1>7 DEF Next, vars, Clean, Tick

LEMMA ChosenInit == Init => ChosenInv
BY DEF Init, NotCleaning, ChosenInv

\* The cleanup revokes a share that is not expired only when some update moves
\* its deadline: what CleanupRevokesOnlyExpired overlooks is the one race of
\* delete_expired_shares, between its SELECT and its UPDATE by id alone, with
\* the first statement of update_share.
CleanupSparesTheRest ==
    [][\A id \in ShareIds :
          cleaner.pc = "revoke" /\ id \in cleaner.pending \ cleaner'.pending
             /\ shares[id].status = "active" /\ shares'[id].status = "revoked"
             => \/ Expired(shares[id], now)
                \/ \E u \in Updates : upd[u].share = id /\ upd[u].expires_at # Keep]_vars

\* For any number of shares, updates and rounds.
THEOREM AdmissionCleanupSparesTheRest == Spec => CleanupSparesTheRest
<1> DEFINE Inv == TypeOK /\ Addressed /\ LateInv /\ ChosenInv
<1>1. Inv /\ [Next]_vars => Inv'
  BY TypeStep, LateStep, ChosenStep
<1>2. Inv /\ [Next]_vars =>
         [\A id \in ShareIds :
             cleaner.pc = "revoke" /\ id \in cleaner.pending \ cleaner'.pending
                /\ shares[id].status = "active" /\ shares'[id].status = "revoked"
                => \/ Expired(shares[id], now)
                   \/ \E u \in Updates : upd[u].share = id /\ upd[u].expires_at # Keep]_vars
  BY DEF ChosenInv, Over, Lapsed, Moved
<1>3. Init => Inv
  BY TypeInit, LateInit, ChosenInit
<1> QED
  BY <1>1, <1>2, <1>3, PTL DEF Spec, CleanupSparesTheRest

\* In particular, without updates the claim that the code makes is true.
THEOREM AdmissionCleanupWithoutUpdates ==
    ASSUME Updates = {}
    PROVE  Spec => CleanupRevokesOnlyExpired
<1>1. [\A id \in ShareIds :
          cleaner.pc = "revoke" /\ id \in cleaner.pending \ cleaner'.pending
             /\ shares[id].status = "active" /\ shares'[id].status = "revoked"
             => \/ Expired(shares[id], now)
                \/ \E u \in Updates : upd[u].share = id /\ upd[u].expires_at # Keep]_vars
      => [\A id \in ShareIds :
             cleaner.pc = "revoke" /\ id \in cleaner.pending \ cleaner'.pending
                /\ shares[id].status = "active" /\ shares'[id].status = "revoked"
                => Expired(shares[id], now)]_vars
  OBVIOUS
<1> QED
  BY <1>1, AdmissionCleanupSparesTheRest, PTL DEF CleanupSparesTheRest, CleanupRevokesOnlyExpired

----------------------------------------------------------------------------
(* Who paid may go on.                                                     *)

\* A request that claims outside its session has none that matches, and will
\* not get one: a session is minted before its token is sent.
DirectInv ==
    \A r \in Requests :
        req[r].pc = "claimdb" /\ req[r].via # "session" =>
            ~SessionMatches(req[r].cookie, req[r].share, req[r].client)

LEMMA NeverMatchesAgain ==
    ASSUME TypeOK, NEW c \in Visits \cup {NULL}, NEW id \in ShareIds, NEW ip,
           c # NULL => visit[c].pc = "done", ~SessionMatches(c, id, ip), [Next]_vars
    PROVE  ~SessionMatches(c, id, ip)'
<1>0. /\ sessions \in [Visits -> Sessions] /\ visit \in [Visits -> VisitStates]
      /\ now \in Nat /\ NULL \notin ShareIds
  BY RegistryAssumption, AdmissionAssumption DEF TypeOK, RegistryTypeOK, Time
<1>1. now' \in Nat /\ now <= now'
  BY <1>0 DEF Next, Tick, Crash, vars
<1>2. CASE c = NULL
  BY <1>2 DEF SessionMatches
<1>3. CASE c \in Visits
  <2>1. ASSUME \/ sessions'[c] = NoSession
               \/ /\ sessions'[c].expires_at = sessions[c].expires_at
                  /\ sessions'[c].share_id = sessions[c].share_id
                  /\ sessions'[c].client_ip = sessions[c].client_ip
        PROVE  ~SessionMatches(c, id, ip)'
    <3>1. sessions[c].expires_at \in Nat /\ NoSession.share_id = NULL
      BY <1>0, <1>3, RegistryAssumption, AdmissionAssumption DEF Sessions, NoSession
    <3> QED
      BY <1>0, <1>1, <2>1, <3>1 DEF SessionMatches
  <2>2. ASSUME NEW r \in Requests, Download(r)
        PROVE  /\ sessions'[c].expires_at = sessions[c].expires_at
               /\ sessions'[c].share_id = sessions[c].share_id
               /\ sessions'[c].client_ip = sessions[c].client_ip
    <3>1. \/ UNCHANGED sessions
          \/ sessions' = [sessions EXCEPT ![req[r].cookie].counted = TRUE]
      BY <2>2 DEF Download, Proceed, Arrive, CheckSession, LoadShare, OpenFile, BeginClaim,
                  FailClaim, Claim, Respond
    <3> QED
      BY <1>0, <1>3, <3>1 DEF Sessions
  <2>3. ASSUME NEW v \in Visits, SharePage(v)
        PROVE  sessions'[c] = sessions[c]
    BY <1>0, <1>3, <2>3, AdmissionAssumption DEF SharePage, LoadPage, MintSession
  <2>4. ASSUME Clean
        PROVE  sessions'[c] \in {sessions[c], NoSession}
    BY <1>3, <2>4 DEF Clean, CleanSelect, CleanFail, SweepBegin, SweepSessions, CleanRevoke
  <2>5. Crash => sessions'[c] = NoSession
    BY <1>3 DEF Crash
  <2> QED
    BY <1>3, <2>1, <2>2, <2>3, <2>4, <2>5 DEF Next, vars
<1> QED
  BY <1>2, <1>3

\* DirectInv is inductive.
LEMMA DirectStep ==
    ASSUME TypeOK, Addressed, PaymentInv, DirectInv, [Next]_vars
    PROVE  DirectInv'
<1> SUFFICES ASSUME NEW q \in Requests, req'[q].pc = "claimdb", req'[q].via # "session"
             PROVE  ~SessionMatches(req[q].cookie, req[q].share, req[q].client)'
  BY DEF DirectInv
<1>0. /\ req \in [Requests -> RequestStates] /\ req[q] \in RequestStates
  BY DEF TypeOK
<1>1. \A c \in Visits : req[q].cookie = c => visit[c].pc = "done"
  BY DEF PaymentInv, SessionInv
<1>2. req[q].cookie \in Visits \cup {NULL} /\ req[q].client \in Clients \cup {NULL}
  BY <1>0 DEF RequestStates
<1>3. ASSUME req[q].pc \in InFlight,
             ~SessionMatches(req[q].cookie, req[q].share, req[q].client),
             req'[q].cookie = req[q].cookie, req'[q].share = req[q].share,
             req'[q].client = req[q].client
      PROVE  ~SessionMatches(req[q].cookie, req[q].share, req[q].client)'
  <2>1. PICK c \in Visits \cup {NULL}, id \in ShareIds, ip \in Clients \cup {NULL} :
            c = req[q].cookie /\ id = req[q].share /\ ip = req[q].client
    BY <1>2, <1>3 DEF Addressed
  <2>2. ~SessionMatches(c, id, ip)'
    BY <1>1, <1>3, <2>1, NeverMatchesAgain
  <2>3. req'[q].cookie = c /\ req'[q].share = id /\ req'[q].client = ip
    BY <1>3, <2>1
  <2> QED
    BY <2>2, <2>3 DEF SessionMatches
<1>4. CASE BeginClaim(q)
  <2> DEFINE via == IF SessionMatches(req[q].cookie, req[q].share, req[q].client)
                    THEN "session" ELSE "direct"
             x == [req[q] EXCEPT !.pc = "seek"]
             y == [req[q] EXCEPT !.pc = "claimdb", !.at = now, !.via = via]
  <2>1. req' = [req EXCEPT ![q] = x] \/ req' = [req EXCEPT ![q] = y]
    BY <1>4 DEF BeginClaim
  <2> HIDE DEF via
  <2>2. /\ x.pc = "seek"
        /\ y.via = via /\ y.cookie = req[q].cookie /\ y.share = req[q].share
        /\ y.client = req[q].client
    BY <1>0 DEF RequestStates
  <2> HIDE DEF x, y
  <2>3. req'[q] = y
    BY <1>0, <2>1, <2>2
  <2>4. via # "session"
    BY <2>2, <2>3
  <2>5. ~SessionMatches(req[q].cookie, req[q].share, req[q].client)
    BY <2>4 DEF via
  <2>6. req[q].pc \in InFlight
    BY <1>4 DEF BeginClaim, InFlight
  <2> QED
    BY <1>3, <2>2, <2>3, <2>5, <2>6
<1>5. CASE req'[q] = req[q]
  BY <1>3, <1>5 DEF DirectInv, InFlight
<1>6. BeginClaim(q) \/ req'[q] = req[q]
  <2>1. ASSUME NEW r \in Requests, Download(r), r # q
        PROVE  req'[q] = req[q]
    BY <1>0, <2>1 DEF Download, Proceed, Arrive, CheckSession, LoadShare, OpenFile, BeginClaim,
              FailClaim, Claim, Respond, Finish
  <2>2. ASSUME NEW outcome \in Final, Finish(q, outcome)
        PROVE  FALSE
    <3>1. req'[q] = Ended(req[q], outcome)
      BY <1>0, <2>2 DEF Finish
    <3>2. Ended(req[q], outcome).pc = outcome
      BY <1>0 DEF Ended, RequestStates, Idle
    <3> QED
      BY <3>1, <3>2 DEF Final
  <2>3. "served" \in Final /\ "refused" \in Final /\ "failed" \in Final
    BY DEF Final
  <2>4. ASSUME NEW x, req' = [req EXCEPT ![q] = x], x.pc # "claimdb"
        PROVE  FALSE
    BY <1>0, <2>4
  <2>5. ASSUME NEW id \in ShareIds, NEW ip \in Clients, NEW c \in Visits \cup {NULL},
               Arrive(q, id, ip, c)
        PROVE  FALSE
    <3> DEFINE x == [Idle EXCEPT !.pc = "session", !.share = id, !.client = ip,
                                 !.cookie = c, !.late = Lateness(shares[id])]
    <3>1. x.pc = "session" /\ (Finish(q, "refused") \/ req' = [req EXCEPT ![q] = x])
      BY <2>5 DEF Arrive, Idle
    <3> HIDE DEF x
    <3> QED
      BY <2>2, <2>3, <2>4, <3>1
  <2>6. ASSUME CheckSession(q)
        PROVE  FALSE
    <3> DEFINE b == Counted(req[q].cookie, req[q].share, req[q].client)
               x == [req[q] EXCEPT !.pc = "load", !.continuing = b]
    <3>1. req' = [req EXCEPT ![q] = x]
      BY <2>6 DEF CheckSession
    <3> HIDE DEF b
    <3>2. x.pc = "load"
      BY <1>0 DEF RequestStates
    <3> HIDE DEF x
    <3> QED
      BY <2>4, <3>1, <3>2
  <2>7. ASSUME LoadShare(q) \/ OpenFile(q) \/ Claim(q)
        PROVE  FALSE
    <3> DEFINE x == [req[q] EXCEPT !.pc = "open", !.continuing = FALSE]
               y == [req[q] EXCEPT !.pc = "claim"]
               z == [req[q] EXCEPT !.pc = "seek", !.charged = TRUE, !.at = 0]
    <3>1. \/ Finish(q, "refused") \/ Finish(q, "failed")
          \/ req' = [req EXCEPT ![q] = x]
          \/ req' = [req EXCEPT ![q] = y]
          \/ req' = [req EXCEPT ![q] = z]
      BY <2>7 DEF LoadShare, OpenFile, Claim
    <3>2. x.pc = "open" /\ y.pc = "claim" /\ z.pc = "seek"
      BY <1>0 DEF RequestStates
    <3> HIDE DEF x, y, z
    <3> QED
      BY <2>2, <2>3, <2>4, <3>1, <3>2
  <2>8. ASSUME FailClaim(q) \/ Respond(q)
        PROVE  FALSE
    <3>1. Finish(q, "refused") \/ Finish(q, "failed") \/ Finish(q, "served")
      BY <2>8 DEF FailClaim, Respond
    <3> QED
      BY <2>2, <2>3, <3>1
  <2>9. Download(q) => BeginClaim(q)
    BY <2>5, <2>6, <2>7, <2>8 DEF Download, Proceed
  <2>10. ASSUME Crash
         PROVE  req'[q] = req[q]
    <3>1. CASE req[q].pc \notin InFlight
      BY <2>10, <3>1 DEF Crash
    <3>2. CASE req[q].pc \in InFlight
      <4>1. req'[q] = Ended(req[q], "failed")
        BY <2>10, <3>2 DEF Crash
      <4>2. Ended(req[q], "failed").pc = "failed"
        BY <1>0 DEF Ended, RequestStates, Idle
      <4> QED
        BY <4>1, <4>2
    <3> QED
      BY <3>1, <3>2
  <2> QED
    BY <2>1, <2>9, <2>10 DEF Next, vars
<1> QED
  BY <1>4, <1>5, <1>6

LEMMA DirectInit == Init => DirectInv
BY DEF Init, Idle, DirectInv

PaidSessionGoesOnStep ==
    \A r \in Requests :
        LET q == req[r] IN
        /\ q.pc \in {"load", "claimdb"}
        /\ req'[r].pc = "refused"
        /\ Counted(q.cookie, q.share, q.client)
        /\ shares[q.share].status = "active"
        /\ ~Expired(shares[q.share], now)
        /\ shares[q.share].password_hash = NULL
        => q.pc = "load" /\ ~q.continuing

LEMMA PaidSessionStep ==
    ASSUME TypeOK, PaymentInv, DirectInv, [Next]_vars
    PROVE  PaidSessionGoesOnStep
<1> SUFFICES ASSUME NEW r \in Requests, req[r].pc \in {"load", "claimdb"},
                    req'[r].pc = "refused",
                    Counted(req[r].cookie, req[r].share, req[r].client),
                    shares[req[r].share].status = "active",
                    ~Expired(shares[req[r].share], now),
                    shares[req[r].share].password_hash = NULL
             PROVE  req[r].pc = "load" /\ ~req[r].continuing
  BY DEF PaidSessionGoesOnStep
<1>0. req \in [Requests -> RequestStates] /\ req[r] \in RequestStates
  BY DEF TypeOK
<1>1. req'[r] # req[r]
  OBVIOUS
<1>2. Download(r)
  <2>1. ASSUME NEW q \in Requests, Download(q), q # r
        PROVE  req'[r] = req[r]
    BY <1>0, <2>1 DEF Download, Proceed, Arrive, CheckSession, LoadShare, OpenFile, BeginClaim,
              FailClaim, Claim, Respond, Finish
  <2>2. ~Crash
    <3>1. Crash => req'[r] = Ended(req[r], "failed")
      BY DEF Crash, InFlight
    <3>2. Ended(req[r], "failed").pc = "failed"
      BY <1>0 DEF Ended, RequestStates, Idle
    <3> QED
      BY <3>1, <3>2
  <2> QED
    BY <1>1, <2>1, <2>2 DEF Next, vars
<1>3. CASE req[r].pc = "load"
  <2>1. LoadShare(r)
    BY <1>2, <1>3 DEF Download, Proceed, Arrive, CheckSession, OpenFile, BeginClaim,
                      FailClaim, Claim, Respond
  <2>2. ~(req' = [req EXCEPT ![r] = [@ EXCEPT !.pc = "open", !.continuing = FALSE]])
    BY <1>0 DEF RequestStates
  <2>3. ~Finish(r, "failed")
    <3>1. Ended(req[r], "failed").pc = "failed"
      BY <1>0 DEF Ended, RequestStates, Idle
    <3> QED
      BY <1>0, <3>1 DEF Finish
  <2>4. ~Available(shares[req[r].share], req[r].continuing)
    BY <2>1, <2>2, <2>3 DEF LoadShare
  <2> QED
    BY <1>0, <1>3, <2>4 DEF Available, RequestStates
<1>4. CASE req[r].pc = "claimdb"
  BY <1>4 DEF Counted, DirectInv, PaymentInv, MutexInv
<1> QED
  BY <1>3, <1>4

\* A session that paid is told "exhausted" only when its request looked it up
\* before a sibling was charged: for any number of siblings, updates and sweeps.
THEOREM AdmissionPaidSessionGoesOn == Spec => PaidSessionGoesOn
<1>1. /\ TypeOK /\ Addressed /\ PaymentInv /\ DirectInv /\ [Next]_vars
          => (TypeOK /\ Addressed /\ PaymentInv /\ DirectInv)'
  BY TypeStep, PaymentStep, DirectStep
<1>2. TypeOK /\ PaymentInv /\ DirectInv /\ [Next]_vars => [PaidSessionGoesOnStep]_vars
  BY PaidSessionStep
<1> QED
  BY <1>1, <1>2, TypeInit, PaymentInit, DirectInit, PTL
  DEF Spec, PaidSessionGoesOn, PaidSessionGoesOnStep

----------------------------------------------------------------------------
(* The promise to the owner.                                               *)

\* A request is charged through its session or directly, and one that is not
\* charged and not about to be is nobody's payer but its session's.
ViaInv ==
    \A r \in Requests :
        /\ req[r].charged => \/ req[r].via = "direct"
                             \/ req[r].via = "session" /\ req[r].cookie \in Visits
        /\ ~req[r].charged /\ req[r].pc # "claimdb" => req[r].via # "direct"
        /\ req[r].pc = "claimdb" => req[r].via \in {"session", "direct"}

\* What a download handler but for its claim makes of its record.
Uncounted(r, x) ==
    /\ x.charged = req[r].charged
    /\ x.charged => x.via = req[r].via /\ x.cookie = req[r].cookie /\ x.share = req[r].share
    /\ ~x.charged /\ x.pc # "claimdb" => x.via # "direct"
    /\ x.pc = "claimdb" => x.via \in {"session", "direct"}
    /\ x.pc = "served" => /\ req[r].pc = "seek" /\ x.via = req[r].via
                          /\ x.cookie = req[r].cookie /\ x.share = req[r].share
                          /\ x.client = req[r].client

\* A download handler either claims, or leaves the table and what was paid alone.
LEMMA DownloadUncounted ==
    ASSUME TypeOK, PaymentInv, ViaInv, NEW r \in Requests, Download(r), ~Claim(r)
    PROVE  \E x : req' = [req EXCEPT ![r] = x] /\ Uncounted(r, x)
<1>0. /\ req \in [Requests -> RequestStates] /\ req[r] \in RequestStates
      /\ req[r].charged => req[r].pc \in {"seek"} \cup Final
      /\ ~req[r].charged /\ req[r].pc # "claimdb" => req[r].via # "direct"
  BY DEF TypeOK, PaymentInv, UnchargedInv, ViaInv
<1>1. ASSUME NEW outcome \in {"refused", "failed"}, Finish(r, outcome)
      PROVE  \E x : req' = [req EXCEPT ![r] = x] /\ Uncounted(r, x)
  <2> DEFINE x == Ended(req[r], outcome)
  <2>1. req' = [req EXCEPT ![r] = x]
    BY <1>1 DEF Finish
  <2>2. CASE req[r].charged
    <3>1. x = [req[r] EXCEPT !.pc = outcome, !.continuing = FALSE, !.at = 0]
      BY <2>2 DEF Ended
    <3>2. /\ x.charged = req[r].charged /\ x.via = req[r].via /\ x.pc = outcome
          /\ x.cookie = req[r].cookie /\ x.share = req[r].share
      BY <1>0, <3>1 DEF RequestStates
    <3> HIDE DEF x
    <3>3. Uncounted(r, x)
      BY <2>2, <3>2 DEF Uncounted
    <3> QED
      BY <2>1, <3>3
  <2>3. CASE ~req[r].charged
    <3>1. x = [Idle EXCEPT !.pc = outcome]
      BY <2>3 DEF Ended
    <3>2. x.charged = FALSE /\ x.via = "none" /\ x.pc = outcome
      BY <3>1 DEF Idle
    <3> HIDE DEF x
    <3> QED
      BY <1>0, <2>1, <2>3, <3>2 DEF Uncounted, RequestStates
  <2> QED
    BY <2>2, <2>3
<1>2. ASSUME NEW x, req' = [req EXCEPT ![r] = x],
             x.charged = req[r].charged, ~req[r].charged, x.pc # "served",
             \/ x.pc # "claimdb" /\ x.via # "direct"
             \/ x.pc = "claimdb" /\ x.via \in {"session", "direct"}
      PROVE  \E y : req' = [req EXCEPT ![r] = y] /\ Uncounted(r, y)
  BY <1>2 DEF Uncounted
<1>3. ASSUME NEW id \in ShareIds, NEW ip \in Clients, NEW c \in Visits \cup {NULL},
             Arrive(r, id, ip, c)
      PROVE  \E x : req' = [req EXCEPT ![r] = x] /\ Uncounted(r, x)
  <2> DEFINE x == [Idle EXCEPT !.pc = "session", !.share = id, !.client = ip,
                               !.cookie = c, !.late = Lateness(shares[id])]
  <2>1. x.charged = FALSE /\ x.via = "none" /\ x.pc = "session"
    BY DEF Idle
  <2>2. req[r].charged = FALSE
    BY <1>0, <1>3 DEF Arrive, Final, RequestStates
  <2>3. Finish(r, "refused") \/ req' = [req EXCEPT ![r] = x]
    BY <1>3 DEF Arrive
  <2> HIDE DEF x
  <2> QED
    BY <1>1, <1>2, <2>1, <2>2, <2>3
<1>4. ASSUME CheckSession(r)
      PROVE  \E x : req' = [req EXCEPT ![r] = x] /\ Uncounted(r, x)
  <2> DEFINE b == Counted(req[r].cookie, req[r].share, req[r].client)
             x == [req[r] EXCEPT !.pc = "load", !.continuing = b]
  <2>1. req' = [req EXCEPT ![r] = x] /\ req[r].pc = "session"
    BY <1>4 DEF CheckSession
  <2> HIDE DEF b
  <2>2. x.charged = req[r].charged /\ x.via = req[r].via /\ x.pc = "load"
    BY <1>0 DEF RequestStates
  <2> HIDE DEF x
  <2> QED
    BY <1>0, <1>2, <2>1, <2>2 DEF Final
<1>5. ASSUME LoadShare(r)
      PROVE  \E x : req' = [req EXCEPT ![r] = x] /\ Uncounted(r, x)
  <2> DEFINE x == [req[r] EXCEPT !.pc = "open", !.continuing = FALSE]
  <2>1. \/ req' = [req EXCEPT ![r] = x] /\ req[r].pc = "load"
        \/ Finish(r, "refused") \/ Finish(r, "failed")
    BY <1>5 DEF LoadShare
  <2>2. x.charged = req[r].charged /\ x.via = req[r].via /\ x.pc = "open"
    BY <1>0 DEF RequestStates
  <2> HIDE DEF x
  <2> QED
    BY <1>0, <1>1, <1>2, <2>1, <2>2 DEF Final
<1>6. ASSUME OpenFile(r)
      PROVE  \E x : req' = [req EXCEPT ![r] = x] /\ Uncounted(r, x)
  <2> DEFINE x == [req[r] EXCEPT !.pc = "claim"]
  <2>1. \/ req' = [req EXCEPT ![r] = x] /\ req[r].pc = "open"
        \/ Finish(r, "refused") \/ Finish(r, "failed")
    BY <1>6 DEF OpenFile
  <2>2. x.charged = req[r].charged /\ x.via = req[r].via /\ x.pc = "claim"
    BY <1>0 DEF RequestStates
  <2> HIDE DEF x
  <2> QED
    BY <1>0, <1>1, <1>2, <2>1, <2>2 DEF Final
<1>7. ASSUME BeginClaim(r)
      PROVE  \E x : req' = [req EXCEPT ![r] = x] /\ Uncounted(r, x)
  <2> DEFINE via == IF SessionMatches(req[r].cookie, req[r].share, req[r].client)
                    THEN "session" ELSE "direct"
             x == [req[r] EXCEPT !.pc = "seek"]
             y == [req[r] EXCEPT !.pc = "claimdb", !.at = now, !.via = via]
  <2>1. /\ req' = [req EXCEPT ![r] = x] \/ req' = [req EXCEPT ![r] = y]
        /\ req[r].pc = "claim" /\ via \in {"session", "direct"}
    BY <1>7 DEF BeginClaim
  <2> HIDE DEF via
  <2>2. /\ x.charged = req[r].charged /\ x.via = req[r].via /\ x.pc = "seek"
        /\ y.charged = req[r].charged /\ y.via = via /\ y.pc = "claimdb"
    BY <1>0 DEF RequestStates
  <2> HIDE DEF x, y
  <2> QED
    BY <1>0, <1>2, <2>1, <2>2 DEF Final
<1>8. ASSUME FailClaim(r)
      PROVE  \E x : req' = [req EXCEPT ![r] = x] /\ Uncounted(r, x)
  <2>1. Finish(r, "refused") \/ Finish(r, "failed")
    BY <1>8 DEF FailClaim
  <2> QED
    BY <1>1, <2>1
<1>9. ASSUME Respond(r)
      PROVE  \E x : req' = [req EXCEPT ![r] = x] /\ Uncounted(r, x)
  <2> DEFINE x == [req[r] EXCEPT !.pc = "served", !.continuing = FALSE, !.at = 0]
  <2>1. Finish(r, "failed") \/ (req' = [req EXCEPT ![r] = x] /\ req[r].pc = "seek")
    BY <1>9 DEF Respond, Finish, Ended
  <2>2. /\ x.charged = req[r].charged /\ x.via = req[r].via /\ x.pc = "served"
        /\ x.cookie = req[r].cookie /\ x.share = req[r].share /\ x.client = req[r].client
    BY <1>0 DEF RequestStates
  <2> HIDE DEF x
  <2>3. req[r].pc = "seek" => Uncounted(r, x)
    BY <1>0, <2>2 DEF Uncounted
  <2> QED
    BY <1>1, <2>1, <2>3
<1> QED
  BY <1>3, <1>4, <1>5, <1>6, <1>7, <1>8, <1>9 DEF Download, Proceed

\* ViaInv is inductive.
LEMMA ViaStep ==
    ASSUME TypeOK, PaymentInv, ViaInv, [Next]_vars
    PROVE  ViaInv'
<1>0. req \in [Requests -> RequestStates]
  BY DEF TypeOK
<1>1. ASSUME NEW r \in Requests, Download(r), ~Claim(r)
      PROVE  ViaInv'
  <2>1. PICK x : req' = [req EXCEPT ![r] = x] /\ Uncounted(r, x)
    BY <1>1, DownloadUncounted
  <2> QED
    BY <1>0, <2>1 DEF ViaInv, Uncounted
<1>2. ASSUME NEW r \in Requests, Claim(r)
      PROVE  ViaInv'
  <2> DEFINE x == [req[r] EXCEPT !.pc = "seek", !.charged = TRUE, !.at = 0]
  <2>1. req' = [req EXCEPT ![r] = x] /\ req[r].pc = "claimdb"
    BY <1>2 DEF Claim
  <2>2. x.charged = TRUE /\ x.via = req[r].via /\ x.cookie = req[r].cookie /\ x.pc = "seek"
    BY <1>0 DEF RequestStates
  <2> HIDE DEF x
  <2>3. req[r].via = "session" => req[r].cookie \in Visits
    BY <2>1 DEF PaymentInv, MutexInv
  <2> QED
    BY <1>0, <2>1, <2>2, <2>3 DEF ViaInv
<1>3. ASSUME Crash, NEW q \in Requests
      PROVE  /\ req'[q].charged = req[q].charged
             /\ req'[q].charged => req'[q].via = req[q].via /\ req'[q].cookie = req[q].cookie
             /\ ~req'[q].charged => req'[q].via # "direct"
             /\ req'[q].pc # "claimdb"
  <2>1. CASE req[q].pc \notin InFlight
    BY <1>0, <1>3, <2>1 DEF Crash, ViaInv, InFlight
  <2>2. CASE req[q].pc \in InFlight /\ req[q].charged
    <3>1. req'[q] = [req[q] EXCEPT !.pc = "failed", !.continuing = FALSE, !.at = 0]
      BY <1>3, <2>2 DEF Crash, Ended
    <3>2. /\ req'[q].charged = req[q].charged /\ req'[q].via = req[q].via
          /\ req'[q].cookie = req[q].cookie /\ req'[q].pc = "failed"
      BY <1>0, <3>1 DEF RequestStates
    <3> QED
      BY <2>2, <3>2
  <2>3. CASE req[q].pc \in InFlight /\ ~req[q].charged
    <3>1. req'[q] = [Idle EXCEPT !.pc = "failed"]
      BY <1>3, <2>3 DEF Crash, Ended
    <3>2. req'[q].charged = FALSE /\ req'[q].via = "none" /\ req'[q].pc = "failed"
      BY <3>1 DEF Idle
    <3> QED
      BY <1>0, <2>3, <3>2 DEF RequestStates
  <2> QED
    BY <2>1, <2>2, <2>3
<1>4. CASE Crash
  BY <1>3, <1>4 DEF ViaInv
<1>5. CASE UNCHANGED req
  BY <1>5 DEF ViaInv
<1> QED
  BY <1>1, <1>2, <1>4, <1>5 DEF Next, vars

LEMMA ViaInit == Init => ViaInv
BY DEF Init, Idle, ViaInv

\* The refinement mapping, one variable of DownloadBudget at a time.
PaidSet(id) == {Payer(r) : r \in Charged(id)}

ServedSet(id) == {Payer(r) : r \in {q \in Requests : req[q].pc = "served" /\ req[q].share = id}}

PhaseMap == [id \in ShareIds |->
    CASE shares[id].status = "unissued" -> "unpublished"
      [] shares[id].status = "active" -> "open"
      [] OTHER -> "closed"]

LimitMap == [id \in ShareIds |->
    IF shares[id].status = "active" THEN shares[id].max_downloads ELSE NULL]

PaidMap == [id \in ShareIds |-> PaidSet(id)]

ServedMap == [id \in ShareIds |-> ServedSet(id)]

\* No more payers than charges.
LEMMA PayersBounded ==
    ASSUME NEW id, IsFiniteSet(Charged(id))
    PROVE  IsFiniteSet(PaidSet(id)) /\ Cardinality(PaidSet(id)) <= Cardinality(Charged(id))
<1> DEFINE f == [r \in Charged(id) |-> Payer(r)]
<1>1. f \in Surjection(Charged(id), PaidSet(id))
  BY DEF Surjection, PaidSet
<1> QED
  BY <1>1, FS_Surjection

\* Each action of DownloadBudget, in terms of the mapping.
LEMMA BudgetPublish ==
    ASSUME NEW s \in ShareIds, NEW l \in Limits \cup {NULL}, PhaseMap[s] = "unpublished",
           PhaseMap' = [PhaseMap EXCEPT ![s] = "open"],
           LimitMap' = [LimitMap EXCEPT ![s] = l],
           UNCHANGED <<PaidMap, ServedMap>>
    PROVE  Budget!Next
<1>1. Budget!Publish(s, l)
  BY DEF Budget!Publish, PhaseMap, LimitMap, PaidMap, ServedMap, PaidSet, ServedSet, Charged
<1> QED
  BY <1>1 DEF Budget!Next

LEMMA BudgetSetLimit ==
    ASSUME NEW s \in ShareIds, NEW l \in Limits \cup {NULL}, PhaseMap[s] = "open",
           LimitMap' = [LimitMap EXCEPT ![s] = l],
           UNCHANGED <<PhaseMap, PaidMap, ServedMap>>
    PROVE  Budget!Next
<1>1. Budget!SetLimit(s, l)
  BY DEF Budget!SetLimit, PhaseMap, LimitMap, PaidMap, ServedMap, PaidSet, ServedSet, Charged
<1> QED
  BY <1>1 DEF Budget!Next

LEMMA BudgetClose ==
    ASSUME NEW s \in ShareIds,
           PhaseMap' = [PhaseMap EXCEPT ![s] = "closed"],
           LimitMap' = [LimitMap EXCEPT ![s] = NULL],
           UNCHANGED <<PaidMap, ServedMap>>
    PROVE  Budget!Next
<1>1. Budget!Close(s)
  BY DEF Budget!Close, PhaseMap, LimitMap, PaidMap, ServedMap, PaidSet, ServedSet, Charged
<1> QED
  BY <1>1 DEF Budget!Next

\* The promise counts as this module does.
LEMMA BudgetCardinality ==
    ASSUME NEW S
    PROVE  Budget!Cardinality(S) = Cardinality(S)
BY DEF Budget!Cardinality, Cardinality

LEMMA BudgetPay ==
    ASSUME NEW s \in ShareIds, NEW p \in Requests \cup Visits, PhaseMap[s] = "open",
           \A t \in ShareIds : p \notin PaidMap[t],
           LimitMap[s] = NULL \/ Cardinality(PaidMap[s]) < LimitMap[s],
           PaidMap' = [PaidMap EXCEPT ![s] = @ \cup {p}],
           UNCHANGED <<PhaseMap, LimitMap, ServedMap>>
    PROVE  Budget!Next
<1>1. Budget!Pay(s, p)
  BY BudgetCardinality DEF Budget!Pay, PhaseMap, LimitMap, PaidMap, ServedMap, PaidSet, ServedSet, Charged
<1> QED
  BY <1>1 DEF Budget!Next

LEMMA BudgetDeliver ==
    ASSUME NEW s \in ShareIds, NEW p \in Requests \cup Visits, p \in PaidMap[s],
           ServedMap' = [ServedMap EXCEPT ![s] = @ \cup {p}],
           UNCHANGED <<PhaseMap, LimitMap, PaidMap>>
    PROVE  Budget!Next
<1>1. Budget!Deliver(s, p)
  BY DEF Budget!Deliver, PhaseMap, LimitMap, PaidMap, ServedMap, PaidSet, ServedSet, Charged
<1> QED
  BY <1>1 DEF Budget!Next

LEMMA BudgetStutter ==
    ASSUME UNCHANGED <<PhaseMap, LimitMap, PaidMap, ServedMap>>
    PROVE  UNCHANGED Budget!budgetVars
BY DEF Budget!budgetVars, PhaseMap, LimitMap, PaidMap, ServedMap, PaidSet, ServedSet, Charged

LEMMA BudgetInit ==
    ASSUME Init
    PROVE  Budget!Init
<1>1. /\ PhaseMap = [s \in ShareIds |-> "unpublished"]
      /\ LimitMap = [s \in ShareIds |-> NULL]
  BY DEF Init, RegistryInit, NoRow, PhaseMap, LimitMap
<1>2. /\ PaidMap = [s \in ShareIds |-> {}]
      /\ ServedMap = [s \in ShareIds |-> {}]
  BY DEF Init, Idle, PaidMap, ServedMap, PaidSet, ServedSet, Charged
<1> QED
  BY <1>1, <1>2 DEF Budget!Init, PhaseMap, LimitMap, PaidMap, ServedMap, PaidSet, ServedSet, Charged

\* What was paid and served for each share stays when the records that say so stay.
LEMMA PaidStays ==
    ASSUME \A q \in Requests :
               /\ req'[q].charged = req[q].charged
               /\ req[q].charged => /\ req'[q].via = req[q].via /\ req'[q].cookie = req[q].cookie
                                    /\ req'[q].share = req[q].share
    PROVE  UNCHANGED PaidMap
<1>1. ASSUME NEW id \in ShareIds
      PROVE  PaidSet(id)' = PaidSet(id)
  <2>1. Charged(id)' = Charged(id)
    BY DEF Charged
  <2>2. \A r \in Charged(id) : Payer(r)' = Payer(r)
    BY DEF Charged, Payer
  <2> QED
    BY <2>1, <2>2 DEF PaidSet
<1> QED
  BY <1>1 DEF PaidMap

LEMMA ServedStays ==
    ASSUME \A q \in Requests :
               /\ req'[q].pc = "served" <=> req[q].pc = "served"
               /\ req[q].pc = "served" => /\ req'[q].via = req[q].via
                                          /\ req'[q].cookie = req[q].cookie
                                          /\ req'[q].share = req[q].share
    PROVE  UNCHANGED ServedMap
<1>1. ASSUME NEW id \in ShareIds
      PROVE  ServedSet(id)' = ServedSet(id)
  <2> DEFINE S == {q \in Requests : req[q].pc = "served" /\ req[q].share = id}
  <2>1. S' = S
    OBVIOUS
  <2>2. \A r \in S : Payer(r)' = Payer(r)
    BY DEF Payer
  <2> QED
    BY <2>1, <2>2 DEF ServedSet
<1> QED
  BY <1>1 DEF ServedMap

LEMMA TableStays ==
    ASSUME UNCHANGED shares
    PROVE  UNCHANGED <<PhaseMap, LimitMap>>
BY DEF PhaseMap, LimitMap

\* Whoever hands out a body was paid for, by itself or by its session.
LEMMA ServedPayer ==
    ASSUME TypeOK, Addressed, PaymentInv, ViaInv, NEW r \in Requests, req[r].pc = "seek"
    PROVE  /\ req[r].share \in ShareIds
           /\ Payer(r) \in PaidMap[req[r].share]
           /\ Payer(r) \in Requests \cup Visits
<1>1. req[r].share \in ShareIds
  BY DEF Addressed, InFlight
<1>2. PICK q \in Requests : q \in Charged(req[r].share) /\ Payer(q) = Payer(r)
  <2>1. CASE req[r].charged
    BY <2>1 DEF Charged
  <2>2. CASE ~req[r].charged
    <3>1. PICK q \in Requests : PaidBy(q, req[r].cookie) /\ req[q].share = req[r].share
      BY <2>2 DEF PaymentInv, ServedIsPaid
    <3>2. req[r].via # "direct"
      BY <2>2 DEF ViaInv
    <3> QED
      BY <3>1, <3>2 DEF PaidBy, Payer, Charged
  <2> QED
    BY <2>1, <2>2
<1>3. Payer(q) \in Requests \cup Visits
  BY <1>2 DEF Charged, ViaInv, Payer
<1> QED
  BY <1>1, <1>2, <1>3 DEF PaidMap, PaidSet

\* A step of a download handler that is not its claim serves a payer, or is none
\* of the owner's business.
LEMMA BudgetDownload ==
    ASSUME TypeOK, Addressed, PaymentInv, ViaInv, NEW r \in Requests, Download(r), ~Claim(r)
    PROVE  [Budget!Next]_(Budget!budgetVars)
<1>0. /\ req \in [Requests -> RequestStates]
      /\ req[r].pc # "served"
  BY DEF TypeOK, Download, Proceed, Arrive, CheckSession, LoadShare, OpenFile, BeginClaim,
         FailClaim, Respond
<1>1. PICK x : req' = [req EXCEPT ![r] = x] /\ Uncounted(r, x)
  BY DownloadUncounted
<1>2. req'[r] = x /\ \A q \in Requests : q # r => req'[q] = req[q]
  BY <1>0, <1>1
<1>3. UNCHANGED <<PhaseMap, LimitMap>>
  BY TableStays, DownloadKeepsCharges
<1>4. UNCHANGED PaidMap
  BY <1>1, <1>2, PaidStays DEF Uncounted
<1>5. CASE x.pc # "served"
  <2>1. UNCHANGED ServedMap
    BY <1>0, <1>2, <1>5, ServedStays
  <2> QED
    BY <1>3, <1>4, <2>1, BudgetStutter
<1>6. CASE x.pc = "served"
  <2>1. /\ req[r].pc = "seek" /\ x.via = req[r].via
        /\ x.cookie = req[r].cookie /\ x.share = req[r].share
    BY <1>1, <1>6 DEF Uncounted
  <2>. PICK s \in ShareIds, p \in Requests \cup Visits :
            s = req[r].share /\ p = Payer(r) /\ p \in PaidMap[s]
    BY <2>1, ServedPayer
  <2>2. ASSUME NEW id \in ShareIds
        PROVE  ServedSet(id)' = IF id = s THEN ServedSet(id) \cup {p} ELSE ServedSet(id)
    <3> DEFINE S == {q \in Requests : req[q].pc = "served" /\ req[q].share = id}
    <3>1. S' = IF id = s THEN S \cup {r} ELSE S
      BY <1>0, <1>2, <1>6, <2>1
    <3>2. \A q \in S : Payer(q)' = Payer(q)
      BY <1>0, <1>2 DEF Payer
    <3>3. Payer(r)' = p
      BY <1>2, <2>1 DEF Payer
    <3>4. ServedSet(id) = {Payer(q) : q \in S} /\ ServedSet(id)' = {Payer(q)' : q \in S'}
      BY DEF ServedSet
    <3> HIDE DEF S
    <3> QED
      BY <3>1, <3>2, <3>3, <3>4
  <2>3. ServedMap' = [ServedMap EXCEPT ![s] = @ \cup {p}]
    BY <2>2 DEF ServedMap
  <2> QED
    BY <1>3, <1>4, <2>3, BudgetDeliver
<1> QED
  BY <1>5, <1>6

\* A claim is a payment: within the limit, by who has not paid for anything.
LEMMA BudgetClaim ==
    ASSUME TypeOK, Addressed, PaymentInv, CountInv, ViaInv, NEW r \in Requests, Claim(r)
    PROVE  [Budget!Next]_(Budget!budgetVars)
<1> DEFINE x == [req[r] EXCEPT !.pc = "seek", !.charged = TRUE, !.at = 0]
<1>. PICK s \in ShareIds : s = req[r].share
  BY DEF TypeOK, Addressed, Claim, InFlight
<1>0. /\ req \in [Requests -> RequestStates] /\ req[r] \in RequestStates
      /\ shares \in [ShareIds -> Rows]
      /\ req' = [req EXCEPT ![r] = x] /\ req[r].pc = "claimdb"
      /\ ~req[r].charged /\ req[r].share = s
      /\ req[r].via \in {"session", "direct"}
      /\ req[r].via = "session" => sessionsLock = r
  BY DEF TypeOK, RegistryTypeOK, Claim, PaymentInv, UnchargedInv, Final, ViaInv, MutexInv
<1>1. /\ x.charged = TRUE /\ x.share = s /\ x.via = req[r].via /\ x.cookie = req[r].cookie
      /\ x.pc = "seek"
  BY <1>0 DEF RequestStates
<1> HIDE DEF x
<1>2. req'[r] = x /\ \A q \in Requests : q # r => req'[q] = req[q]
  BY <1>0
<1>. PICK p : p = Payer(r)
  OBVIOUS
<1>3. /\ Claimable(shares[s], req[r].at)
      /\ shares' = [shares EXCEPT ![s].download_count = @ + 1]
  BY <1>0 DEF Claim, ClaimDownload
<1>4. /\ shares'[s].status = shares[s].status
      /\ shares'[s].max_downloads = shares[s].max_downloads
      /\ \A id \in ShareIds : id # s => shares'[id] = shares[id]
  BY <1>0, <1>3 DEF Rows
<1>5. UNCHANGED <<PhaseMap, LimitMap>>
  BY <1>4 DEF PhaseMap, LimitMap
<1>6. UNCHANGED ServedMap
  BY <1>0, <1>1, <1>2, ServedStays
<1>7. p \in Requests \cup Visits
  BY <1>0 DEF Payer, PaymentInv, MutexInv
<1>8. ASSUME NEW q \in Requests, req[q].charged
      PROVE  Payer(q) # p
  <2>1. q # r
    BY <1>0, <1>8
  <2>2. \/ req[q].via = "direct" /\ Payer(q) = q
        \/ req[q].via = "session" /\ req[q].cookie \in Visits /\ Payer(q) = req[q].cookie
    BY <1>8 DEF ViaInv, Payer
  <2>3. CASE req[r].via = "direct"
    BY <2>1, <2>2, <2>3, AdmissionAssumption DEF Payer
  <2>4. CASE req[r].via = "session"
    <3>1. /\ p = req[r].cookie /\ p \in Visits
          /\ sessions[p].share_id = s /\ ~sessions[p].counted
      BY <1>0, <2>4 DEF Payer, PaymentInv, MutexInv
    <3>2. NULL # s
      BY AdmissionAssumption
    <3>3. ~PaidBy(q, p)
      BY <3>1, <3>2 DEF PaymentInv, SessionInv
    <3> QED
      BY <1>8, <2>2, <3>1, <3>3, AdmissionAssumption DEF PaidBy
  <2> QED
    BY <1>0, <2>3, <2>4
<1>9. \A t \in ShareIds : p \notin PaidMap[t]
  BY <1>8 DEF PaidMap, PaidSet, Charged
<1>10. PhaseMap[s] = "open" /\ LimitMap[s] = shares[s].max_downloads
  BY <1>3 DEF PhaseMap, LimitMap, Claimable
<1>11. LimitMap[s] = NULL \/ Cardinality(PaidMap[s]) < LimitMap[s]
  <2>1. /\ IsFiniteSet(Charged(s)) /\ IsFiniteSet(PaidSet(s))
        /\ Cardinality(PaidSet(s)) <= Cardinality(Charged(s))
        /\ shares[s].download_count = Cardinality(Charged(s))
    BY <1>3, PayersBounded DEF CountInv, Exists, Claimable
  <2>2. Cardinality(PaidSet(s)) \in Nat /\ Cardinality(Charged(s)) \in Nat
    BY <2>1, FS_CardinalityType
  <2>3. /\ shares[s].max_downloads \in Nat \cup {NULL}
        /\ shares[s].max_downloads # NULL => shares[s].download_count < shares[s].max_downloads
    BY <1>0, <1>3, <2>1, <2>2, RegistryAssumption DEF Claimable, Exhausted, Rows
  <2>4. PaidMap[s] = PaidSet(s)
    BY DEF PaidMap
  <2> QED
    BY <1>10, <2>1, <2>2, <2>3, <2>4, RegistryAssumption
<1>12. ASSUME NEW id \in ShareIds
       PROVE  PaidSet(id)' = IF id = s THEN PaidSet(id) \cup {p} ELSE PaidSet(id)
  <2>1. Charged(id)' = IF id = s THEN Charged(id) \cup {r} ELSE Charged(id)
    BY <1>1, <1>2 DEF Charged
  <2>2. \A q \in Requests : Payer(q)' = Payer(q)
    BY <1>1, <1>2 DEF Payer
  <2>3. Charged(id) \subseteq Requests
    BY DEF Charged
  <2>4. PaidSet(id) = {Payer(q) : q \in Charged(id)} /\ PaidSet(id)' = {Payer(q)' : q \in Charged(id)'}
    BY DEF PaidSet
  <2> QED
    BY <2>1, <2>2, <2>3, <2>4
<1>13. PaidMap' = [PaidMap EXCEPT ![s] = @ \cup {p}]
  BY <1>12 DEF PaidMap
<1> QED
  BY <1>5, <1>6, <1>7, <1>9, <1>10, <1>11, <1>13, BudgetPay

\* The owner's statements and the cleanup publish, move the limit, close, or are
\* none of the promise's business.
LEMMA BudgetRow ==
    ASSUME TypeOK, UNCHANGED req, NEW s \in ShareIds, NEW row, UpdateRow(s, row),
           \/ row.status = shares[s].status
              /\ row.max_downloads \in Limits \cup {NULL}
           \/ row.status \in {"revoked", "deleted"}
    PROVE  [Budget!Next]_(Budget!budgetVars)
<1>0. shares \in [ShareIds -> Rows] /\ UNCHANGED <<PaidMap, ServedMap>>
  BY PaidStays, ServedStays DEF TypeOK, RegistryTypeOK
<1>1. CASE ~Exists(s)
  BY <1>0, <1>1, TableStays, BudgetStutter DEF UpdateRow
<1>2. CASE Exists(s) /\ row.status \in {"revoked", "deleted"}
  <2>1. /\ PhaseMap' = [PhaseMap EXCEPT ![s] = "closed"]
        /\ LimitMap' = [LimitMap EXCEPT ![s] = NULL]
    BY <1>0, <1>2 DEF UpdateRow, PhaseMap, LimitMap
  <2> QED
    BY <1>0, <2>1, BudgetClose
<1>3. CASE shares[s].status = "active" /\ row.status = shares[s].status
           /\ row.max_downloads \in Limits \cup {NULL}
  <2>1. PICK l \in Limits \cup {NULL} : l = row.max_downloads
    BY <1>3
  <2>2. /\ PhaseMap' = PhaseMap /\ PhaseMap[s] = "open"
        /\ LimitMap' = [LimitMap EXCEPT ![s] = l]
    BY <1>0, <1>3, <2>1 DEF UpdateRow, Exists, PhaseMap, LimitMap
  <2> QED
    BY <1>0, <2>2, BudgetSetLimit
<1>4. CASE shares[s].status = "revoked" /\ row.status = shares[s].status
  <2>1. PhaseMap' = PhaseMap /\ LimitMap' = LimitMap
    BY <1>0, <1>4 DEF UpdateRow, Exists, PhaseMap, LimitMap
  <2> QED
    BY <1>0, <2>1, BudgetStutter
<1> QED
  BY <1>1, <1>2, <1>3, <1>4 DEF Exists

LEMMA BudgetCreate ==
    ASSUME TypeOK, UNCHANGED req, NEW s \in ShareIds, CreateShare(s)
    PROVE  [Budget!Next]_(Budget!budgetVars)
<1>0. shares \in [ShareIds -> Rows] /\ UNCHANGED <<PaidMap, ServedMap>>
  BY PaidStays, ServedStays DEF TypeOK, RegistryTypeOK
<1>. PICK e \in Deadlines, l \in Limits, h \in Hashes \cup {NULL} :
          InsertShare(s, NewRow(e, l, h))
  BY CreateShareStatement DEF TypeOK, RegistryTypeOK
<1>1. /\ NewRow(e, l, h).status = "active"
      /\ NewRow(e, l, h).max_downloads = l
  BY DEF NewRow
<1>2. /\ PhaseMap[s] = "unpublished"
      /\ PhaseMap' = [PhaseMap EXCEPT ![s] = "open"]
      /\ LimitMap' = [LimitMap EXCEPT ![s] = l]
  BY <1>0, <1>1 DEF InsertShare, PhaseMap, LimitMap
<1> QED
  BY <1>0, <1>2, BudgetPublish

\* The settings an update writes: only the limit concerns the promise.
LEMMA BudgetUpdate ==
    ASSUME TypeOK, Addressed, UNCHANGED req, NEW u \in Updates, UpdateShare(u)
    PROVE  [Budget!Next]_(Budget!budgetVars)
<1>0. /\ shares \in [ShareIds -> Rows]
      /\ upd[u] \in UpdateStates
      /\ upd[u].pc \in Writing => upd[u].share \in ShareIds
  BY DEF TypeOK, RegistryTypeOK, Addressed
<1>1. ASSUME UNCHANGED shares
      PROVE  UNCHANGED Budget!budgetVars
  BY <1>1, PaidStays, ServedStays, TableStays, BudgetStutter
<1>2. ASSUME NEW id \in ShareIds,
             \E v : SetExpiresAt(id, v) \/ SetPasswordHash(id, v)
      PROVE  [Budget!Next]_(Budget!budgetVars)
  <2>1. PICK row : /\ UpdateRow(id, row) /\ row.status = shares[id].status
                   /\ row.max_downloads = shares[id].max_downloads
    BY <1>0, <1>2 DEF SetExpiresAt, SetPasswordHash, Rows
  <2>2. row.max_downloads \in Limits \cup {NULL}
    BY <1>0, <2>1 DEF Rows
  <2> QED
    BY <2>1, <2>2, BudgetRow
<1>3. ASSUME NEW id \in ShareIds, NEW l \in Limits \cup {NULL}, SetMaxDownloads(id, l)
      PROVE  [Budget!Next]_(Budget!budgetVars)
  <2> DEFINE row == [shares[id] EXCEPT !.max_downloads = l]
  <2>1. UpdateRow(id, row) /\ row.status = shares[id].status /\ row.max_downloads = l
    BY <1>0, <1>3 DEF SetMaxDownloads, Rows
  <2> HIDE DEF row
  <2> QED
    BY <2>1, BudgetRow
<1>4. \/ UNCHANGED shares
      \/ /\ upd[u].pc \in Writing
         /\ \/ \E v : SetExpiresAt(upd[u].share, v) \/ SetPasswordHash(upd[u].share, v)
            \/ upd[u].max_downloads # Keep /\ SetMaxDownloads(upd[u].share, upd[u].max_downloads)
  BY DEF UpdateShare, StartUpdate, UpdateSettings, WriteSetting, Writing
<1>5. upd[u].max_downloads # Keep => upd[u].max_downloads \in Limits \cup {NULL}
  BY <1>0 DEF UpdateStates
<1> QED
  BY <1>0, <1>1, <1>2, <1>3, <1>4, <1>5

LEMMA BudgetClosing ==
    ASSUME TypeOK, UNCHANGED req, NEW s \in ShareIds, RevokeShare(s) \/ DeleteShare(s)
    PROVE  [Budget!Next]_(Budget!budgetVars)
<1>1. PICK row : UpdateRow(s, row) /\ row.status \in {"revoked", "deleted"}
  BY DEF TypeOK, RegistryTypeOK, Rows, RevokeShare, DeleteShare, NoRow
<1> QED
  BY <1>1, BudgetRow

\* A crash takes handlers away, not what they paid, and nothing that was served.
LEMMA BudgetCrash ==
    ASSUME TypeOK, Crash
    PROVE  UNCHANGED Budget!budgetVars
<1>1. ASSUME NEW q \in Requests
      PROVE  /\ req'[q].charged = req[q].charged
             /\ req[q].charged => /\ req'[q].via = req[q].via /\ req'[q].cookie = req[q].cookie
                                  /\ req'[q].share = req[q].share
             /\ req'[q].pc = "served" <=> req[q].pc = "served"
             /\ req[q].pc = "served" => req'[q] = req[q]
  <2>0. req[q] \in RequestStates
    BY DEF TypeOK
  <2>1. CASE req[q].pc \notin InFlight
    BY <2>1 DEF Crash
  <2>2. CASE req[q].pc \in InFlight /\ req[q].charged
    <3>1. req'[q] = [req[q] EXCEPT !.pc = "failed", !.continuing = FALSE, !.at = 0]
      BY <2>2 DEF Crash, Ended
    <3> QED
      BY <2>0, <2>2, <3>1 DEF RequestStates, InFlight
  <2>3. CASE req[q].pc \in InFlight /\ ~req[q].charged
    <3>1. req'[q] = [Idle EXCEPT !.pc = "failed"]
      BY <2>3 DEF Crash, Ended
    <3>2. req'[q].charged = FALSE /\ req'[q].pc = "failed"
      BY <3>1 DEF Idle
    <3> QED
      BY <2>0, <2>3, <3>2 DEF RequestStates, InFlight
  <2> QED
    BY <2>1, <2>2, <2>3
<1>2. UNCHANGED PaidMap
  BY <1>1, PaidStays
<1>3. UNCHANGED ServedMap
  BY <1>1, ServedStays
<1> QED
  BY <1>2, <1>3, TableStays, BudgetStutter DEF Crash

\* Every step of the system is a step of the promise, or none of its business.
LEMMA BudgetStep ==
    ASSUME TypeOK, Addressed, PaymentInv, CountInv, ViaInv, [Next]_vars
    PROVE  [Budget!Next]_(Budget!budgetVars)
<1>1. ASSUME UNCHANGED <<shares, req>>
      PROVE  UNCHANGED Budget!budgetVars
  BY <1>1, PaidStays, ServedStays, TableStays, BudgetStutter
<1>2. ASSUME NEW r \in Requests, Download(r)
      PROVE  [Budget!Next]_(Budget!budgetVars)
  BY <1>2, BudgetDownload, BudgetClaim
<1>3. ASSUME NEW id \in ShareIds, OwnerStep(id), UNCHANGED req
      PROVE  [Budget!Next]_(Budget!budgetVars)
  BY <1>3, BudgetCreate, BudgetClosing DEF OwnerStep
<1>4. ASSUME Clean, UNCHANGED req
      PROVE  [Budget!Next]_(Budget!budgetVars)
  <2>1. UNCHANGED shares \/ \E id \in ShareIds : RevokeShare(id)
    BY <1>4 DEF Clean, CleanSelect, CleanFail, SweepBegin, SweepSessions, CleanRevoke
  <2> QED
    BY <1>1, <1>4, <2>1, BudgetClosing
<1> QED
  BY <1>1, <1>2, <1>3, <1>4, BudgetUpdate, BudgetCrash DEF Next, vars

\* The handlers, the settings, the cleanup and any number of crashes implement
\* the promise to the owner: each recipient pays once, within the limit in force,
\* and only who paid is served.
THEOREM AdmissionImplementsBudget == Spec => BudgetSpec
<1>1. /\ TypeOK /\ Addressed /\ PaymentInv /\ CountInv /\ ViaInv /\ [Next]_vars
          => /\ (TypeOK /\ Addressed /\ PaymentInv /\ CountInv /\ ViaInv)'
             /\ [Budget!Next]_(Budget!budgetVars)
  BY TypeStep, PaymentStep, CountInvStep, ViaStep, BudgetStep
<1>2. Init => Budget!Init
  BY BudgetInit
<1> QED
  BY <1>1, <1>2, TypeInit, PaymentInit, CountInit, ViaInit, PTL DEF Spec, BudgetSpec, Budget!Spec

=============================================================================
