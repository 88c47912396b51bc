--------------------------- MODULE ShareRegistry ---------------------------
(***************************************************************************)
(* The shares table of src/db.rs: one row per share, the SQL statements    *)
(* that change a row, and the clock the statements compare deadlines with. *)
(* Every action is one statement (or one transaction), the unit SQLite     *)
(* makes atomic; handlers that issue several are built from these actions  *)
(* in Admission.                                                           *)
(*                                                                         *)
(* A share id is random and is never issued twice, so a deleted row is     *)
(* kept as a tombstone that no statement matches.                          *)
(***************************************************************************)
EXTENDS Naturals, FiniteSets

CONSTANTS
    ShareIds,   \* the ids the server may issue
    Hashes,     \* password hashes, each standing for one password
    NULL,       \* SQL NULL: no deadline, no limit, no password
    Limits,     \* the values of max_downloads, NULL among them if offered
    Lifetimes,  \* the lifetimes a share may be given, in ticks
    MaxTime,    \* bound on the clock
    I64Max      \* the latest time an i64 holds

ASSUME RegistryAssumption ==
    /\ NULL \notin Nat
    /\ NULL \notin Hashes
    /\ Limits \subseteq (Nat \ {0}) \cup {NULL}
    /\ Lifetimes \subseteq Nat \ {0}
    /\ MaxTime \in Nat
    /\ I64Max \in Nat

VARIABLES
    shares,     \* the row of each id
    now         \* seconds since the epoch, in ticks

registryVars == <<shares, now>>

----------------------------------------------------------------------------

Time == 0 .. MaxTime

\* A positive lifetime added to the time of day, or "never"
Deadlines == {e \in {t + d : t \in Time, d \in Lifetimes} : e <= I64Max} \cup {NULL}

Rows == [status         : {"unissued", "active", "revoked", "deleted"},
         expires_at     : Deadlines,
         max_downloads  : Limits \cup {NULL},
         download_count : Nat,
         password_hash  : Hashes \cup {NULL}]

\* The table has no row for an id that is not issued yet, or was deleted
NoRow(why) == [status         |-> why,
               expires_at     |-> NULL,
               max_downloads  |-> NULL,
               download_count |-> 0,
               password_hash  |-> NULL]

\* What create_share inserts
NewRow(expires, max, hash) == [status         |-> "active",
                               expires_at     |-> expires,
                               max_downloads  |-> max,
                               download_count |-> 0,
                               password_hash  |-> hash]

Exists(id) == shares[id].status \in {"active", "revoked"}

Expired(row, t) == row.expires_at # NULL /\ row.expires_at <= t

Exhausted(row) ==
    row.max_downloads # NULL /\ row.download_count >= row.max_downloads

\* Mutant: the UPDATE trusts the limit check made when the row was loaded
LaxClaimable(row, t) == row.status = "active" /\ ~Expired(row, t)

\* The WHERE clause of claim_download
Claimable(row, t) ==
    row.status = "active" /\ ~Expired(row, t) /\ ~Exhausted(row)

----------------------------------------------------------------------------

InsertShare(id, row) ==
    /\ shares[id].status = "unissued"
    /\ shares' = [shares EXCEPT ![id] = row]

\* UPDATE ... WHERE id: no effect on the table when the row is gone
UpdateRow(id, row) ==
    shares' = IF Exists(id) THEN [shares EXCEPT ![id] = row] ELSE shares

\* The single guarded UPDATE; t is the time of day read before the statement
ClaimDownload(id, t) ==
    /\ Claimable(shares[id], t)
    /\ shares' = [shares EXCEPT ![id].download_count = @ + 1]

RevokeShare(id) == UpdateRow(id, [shares[id] EXCEPT !.status = "revoked"])

DeleteShare(id) == UpdateRow(id, NoRow("deleted"))

\* Mutant: a new deadline also reactivates the share
ReviveOnSetExpiresAt(id, v) ==
    UpdateRow(id, [shares[id] EXCEPT !.expires_at = v, !.status = "active"])

SetExpiresAt(id, v) == UpdateRow(id, [shares[id] EXCEPT !.expires_at = v])

SetMaxDownloads(id, v) == UpdateRow(id, [shares[id] EXCEPT !.max_downloads = v])

SetPasswordHash(id, v) == UpdateRow(id, [shares[id] EXCEPT !.password_hash = v])

Tick == now < MaxTime /\ now' = now + 1

----------------------------------------------------------------------------

RegistryInit ==
    /\ shares = [id \in ShareIds |-> NoRow("unissued")]
    /\ now = 0

Statement(id) ==
    \/ \E e \in Deadlines, m \in Limits, h \in Hashes \cup {NULL} :
          InsertShare(id, NewRow(e, m, h))
    \/ \E t \in Time : t <= now /\ ClaimDownload(id, t)
    \/ RevokeShare(id)
    \/ DeleteShare(id)
    \/ \E e \in Deadlines : SetExpiresAt(id, e)
    \/ \E m \in Limits : SetMaxDownloads(id, m)
    \/ \E h \in Hashes \cup {NULL} : SetPasswordHash(id, h)

RegistryNext ==
    \/ \E id \in ShareIds : Statement(id) /\ UNCHANGED now
    \/ Tick /\ UNCHANGED shares

RegistrySpec == RegistryInit /\ [][RegistryNext]_registryVars

----------------------------------------------------------------------------

\* Every row is well formed and the clock stays within its bound.
RegistryTypeOK ==
    /\ shares \in [ShareIds -> Rows]
    /\ now \in Time

\* A share's life runs one way: once revoked (by its owner or by the expiry
\* cleanup) no settings change, claim or later cleanup makes it active again,
\* and once deleted no late statement of a request, an update or the cleaner
\* brings its row back.
NeverReopened ==
    [][\A id \in ShareIds :
          /\ shares[id].status = "revoked"
                => shares'[id].status \in {"revoked", "deleted"}
          /\ shares[id].status = "deleted"
                => shares'[id] = shares[id]]_registryVars

\* The promise of claim_download: concurrent requests never take a share past
\* its limit.  A count above max_downloads can only come from the owner
\* lowering the limit below what was already downloaded.
OverLimit(row) == row.max_downloads # NULL /\ row.download_count > row.max_downloads

OnlyOwnerOverdraws ==
    [][\A id \in ShareIds :
          OverLimit(shares'[id]) /\ ~OverLimit(shares[id])
             => shares'[id].max_downloads # shares[id].max_downloads]_registryVars
=============================================================================
