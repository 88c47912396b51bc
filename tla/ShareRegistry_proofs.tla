------------------------ MODULE ShareRegistry_proofs ------------------------
(***************************************************************************)
(* Proofs about the shares table, for any number of shares, any limits and *)
(* lifetimes, and any interleaving of statements.                          *)
(***************************************************************************)
EXTENDS ShareRegistry, TLAPS

\* Statements only write well-formed rows.
LEMMA RowUpdate ==
    ASSUME NEW id \in ShareIds, NEW row \in Rows,
           shares \in [ShareIds -> Rows], UpdateRow(id, row)
    PROVE  shares' \in [ShareIds -> Rows]
BY DEF UpdateRow

\* A deadline is a tick plus a lifetime, or none.
LEMMA DeadlinesType == Deadlines \subseteq Nat \cup {NULL}
BY RegistryAssumption DEF Deadlines, Time

LEMMA NullDeadline == NULL \in Deadlines
BY DEF Deadlines

\* A statement leaves every row well formed.
LEMMA StatementType ==
    ASSUME NEW id \in ShareIds, shares \in [ShareIds -> Rows], Statement(id)
    PROVE  shares' \in [ShareIds -> Rows]
<1> USE RegistryAssumption
<1> shares[id] \in Rows
  OBVIOUS
<1>1. ASSUME NEW e \in Deadlines, NEW m \in Limits, NEW h \in Hashes \cup {NULL},
             InsertShare(id, NewRow(e, m, h))
      PROVE  shares' \in [ShareIds -> Rows]
  <2>1. NewRow(e, m, h) \in Rows
    BY DEF NewRow, Rows
  <2> QED
    BY <1>1, <2>1 DEF InsertShare
<1>2. ASSUME NEW t \in Time, ClaimDownload(id, t)
      PROVE  shares' \in [ShareIds -> Rows]
  BY <1>2 DEF ClaimDownload, Rows
<1>3. CASE RevokeShare(id)
  <2>1. [shares[id] EXCEPT !.status = "revoked"] \in Rows
    BY DEF Rows
  <2> QED
    BY <1>3, <2>1, RowUpdate DEF RevokeShare
<1>4. CASE DeleteShare(id)
  <2>1. NoRow("deleted") \in Rows
    BY NullDeadline DEF Rows, NoRow
  <2> QED
    BY <1>4, <2>1, RowUpdate DEF DeleteShare
<1>5. ASSUME NEW e \in Deadlines, SetExpiresAt(id, e)
      PROVE  shares' \in [ShareIds -> Rows]
  <2>1. [shares[id] EXCEPT !.expires_at = e] \in Rows
    BY DEF Rows
  <2> QED
    BY <1>5, <2>1, RowUpdate DEF SetExpiresAt
<1>6. ASSUME NEW m \in Limits, SetMaxDownloads(id, m)
      PROVE  shares' \in [ShareIds -> Rows]
  <2>1. [shares[id] EXCEPT !.max_downloads = m] \in Rows
    BY DEF Rows
  <2> QED
    BY <1>6, <2>1, RowUpdate DEF SetMaxDownloads
<1>7. ASSUME NEW h \in Hashes \cup {NULL}, SetPasswordHash(id, h)
      PROVE  shares' \in [ShareIds -> Rows]
  <2>1. [shares[id] EXCEPT !.password_hash = h] \in Rows
    BY DEF Rows
  <2> QED
    BY <1>7, <2>1, RowUpdate DEF SetPasswordHash
<1> QED
  BY <1>1, <1>2, <1>3, <1>4, <1>5, <1>6, <1>7 DEF Statement

\* One step of the table keeps the rows well formed.
LEMMA RegistryTypedStep ==
    ASSUME RegistryTypeOK, [RegistryNext]_registryVars
    PROVE  RegistryTypeOK'
<1>1. ASSUME NEW id \in ShareIds, Statement(id), UNCHANGED now
      PROVE  RegistryTypeOK'
  BY <1>1, StatementType DEF RegistryTypeOK
<1>2. ASSUME Tick, UNCHANGED shares
      PROVE  RegistryTypeOK'
  BY <1>2, RegistryAssumption DEF RegistryTypeOK, Tick, Time
<1>3. CASE UNCHANGED registryVars
  BY <1>3 DEF RegistryTypeOK, registryVars
<1> QED
  BY <1>1, <1>2, <1>3 DEF RegistryNext

\* The rows stay well formed and the clock within its bound.
THEOREM RegistryTyped == RegistrySpec => []RegistryTypeOK
<1>1. RegistryInit => RegistryTypeOK
  BY RegistryAssumption, NullDeadline
  DEF RegistryInit, RegistryTypeOK, Rows, NoRow, Time
<1>2. RegistryTypeOK /\ [RegistryNext]_registryVars => RegistryTypeOK'
  BY RegistryTypedStep
<1> QED
  BY <1>1, <1>2, PTL DEF RegistrySpec

----------------------------------------------------------------------------

NeverReopenedStep ==
    \A id \in ShareIds :
        /\ shares[id].status = "revoked" => shares'[id].status \in {"revoked", "deleted"}
        /\ shares[id].status = "deleted" => shares'[id] = shares[id]

OnlyOwnerOverdrawsStep ==
    \A id \in ShareIds :
        OverLimit(shares'[id]) /\ ~OverLimit(shares[id])
            => shares'[id].max_downloads # shares[id].max_downloads

\* What one statement may do to the row it names, and to the others.
LEMMA StatementEffect ==
    ASSUME NEW id \in ShareIds, RegistryTypeOK, Statement(id), NEW other \in ShareIds
    PROVE  /\ other # id => shares'[other] = shares[other]
           /\ \/ shares'[id] = shares[id]
              \/ shares[id].status = "unissued" /\ shares'[id].download_count = 0
              \/ /\ Exists(id)
                 /\ \/ /\ shares'[id].status = shares[id].status
                       /\ shares'[id].max_downloads # shares[id].max_downloads
                    \/ /\ shares'[id].status \in {shares[id].status, "revoked"}
                       /\ shares'[id].max_downloads = shares[id].max_downloads
                       /\ shares'[id].download_count = shares[id].download_count
                    \/ shares'[id] = NoRow("deleted")
                    \/ /\ shares'[id] = [shares[id] EXCEPT !.download_count = @ + 1]
                       /\ shares[id].status = "active"
                       /\ ~Exhausted(shares[id])
<1> shares \in [ShareIds -> Rows] /\ shares[id] \in Rows
  BY DEF RegistryTypeOK
<1>1. ASSUME NEW e \in Deadlines, NEW m \in Limits, NEW h \in Hashes \cup {NULL},
             InsertShare(id, NewRow(e, m, h))
      PROVE  /\ shares' = [shares EXCEPT ![id] = NewRow(e, m, h)]
             /\ shares[id].status = "unissued" /\ shares'[id].download_count = 0
  BY <1>1 DEF InsertShare, NewRow
<1>2. ASSUME NEW t \in Time, ClaimDownload(id, t)
      PROVE  /\ shares' = [shares EXCEPT ![id].download_count = @ + 1]
             /\ Exists(id)
             /\ shares'[id] = [shares[id] EXCEPT !.download_count = @ + 1]
             /\ shares[id].status = "active"
             /\ ~Exhausted(shares[id])
  BY <1>2 DEF ClaimDownload, Claimable, Exists
<1>3. ASSUME NEW row, UpdateRow(id, row)
      PROVE  /\ other # id => shares'[other] = shares[other]
             /\ shares'[id] = shares[id] \/ (Exists(id) /\ shares'[id] = row)
  BY <1>3 DEF UpdateRow
<1>4. CASE RevokeShare(id)
  BY <1>3, <1>4 DEF RevokeShare, Rows
<1>5. CASE DeleteShare(id)
  BY <1>3, <1>5 DEF DeleteShare
<1>6. ASSUME NEW e \in Deadlines, SetExpiresAt(id, e)
      PROVE  /\ other # id => shares'[other] = shares[other]
             /\ \/ shares'[id] = shares[id]
                \/ /\ Exists(id)
                   /\ shares'[id].status = shares[id].status
                   /\ shares'[id].max_downloads = shares[id].max_downloads
                   /\ shares'[id].download_count = shares[id].download_count
  BY <1>3, <1>6 DEF SetExpiresAt, Rows
<1>7. ASSUME NEW m \in Limits, SetMaxDownloads(id, m)
      PROVE  /\ other # id => shares'[other] = shares[other]
             /\ \/ shares'[id] = shares[id]
                \/ /\ Exists(id)
                   /\ shares'[id].status = shares[id].status
                   /\ shares'[id].download_count = shares[id].download_count
  BY <1>3, <1>7 DEF SetMaxDownloads, Rows
<1>8. ASSUME NEW h \in Hashes \cup {NULL}, SetPasswordHash(id, h)
      PROVE  /\ other # id => shares'[other] = shares[other]
             /\ \/ shares'[id] = shares[id]
                \/ /\ Exists(id)
                   /\ shares'[id].status = shares[id].status
                   /\ shares'[id].max_downloads = shares[id].max_downloads
                   /\ shares'[id].download_count = shares[id].download_count
  BY <1>3, <1>8 DEF SetPasswordHash, Rows
<1> QED
  BY <1>1, <1>2, <1>4, <1>5, <1>6, <1>7, <1>8 DEF Statement

\* One step of the table neither reopens a share nor overdraws it.
LEMMA StepEffect ==
    RegistryTypeOK /\ [RegistryNext]_registryVars => NeverReopenedStep /\ OnlyOwnerOverdrawsStep
<1> SUFFICES ASSUME RegistryTypeOK, [RegistryNext]_registryVars, NEW other \in ShareIds
             PROVE  /\ shares[other].status = "revoked"
                          => shares'[other].status \in {"revoked", "deleted"}
                    /\ shares[other].status = "deleted" => shares'[other] = shares[other]
                    /\ OverLimit(shares'[other]) /\ ~OverLimit(shares[other])
                          => shares'[other].max_downloads # shares[other].max_downloads
  BY DEF NeverReopenedStep, OnlyOwnerOverdrawsStep
<1>1. CASE shares' = shares
  BY <1>1
<1>2. ASSUME NEW id \in ShareIds, Statement(id), other = id
      PROVE  /\ shares[id].status = "revoked"
                   => shares'[id].status \in {"revoked", "deleted"}
             /\ shares[id].status = "deleted" => shares'[id] = shares[id]
  <2>1. CASE shares'[id] = NoRow("deleted") /\ Exists(id)
    BY <2>1 DEF NoRow, Exists
  <2>2. CASE shares'[id] = [shares[id] EXCEPT !.download_count = @ + 1]
             /\ shares[id].status = "active"
    BY <2>2
  <2> QED
    BY <1>2, <2>1, <2>2, StatementEffect DEF Exists
<1>3. ASSUME NEW id \in ShareIds, Statement(id), other = id
      PROVE  OverLimit(shares'[id]) /\ ~OverLimit(shares[id])
                => shares'[id].max_downloads # shares[id].max_downloads
  <2> shares[id] \in Rows /\ shares'[id] \in Rows
    BY <1>3, StatementType DEF RegistryTypeOK
  <2>1. CASE shares[id].status = "unissued" /\ shares'[id].download_count = 0
    <3>1. shares'[id].max_downloads # NULL => shares'[id].max_downloads \in Nat \ {0}
      BY RegistryAssumption DEF Rows
    <3>2. shares'[id].max_downloads \in Nat \ {0} => ~(0 > shares'[id].max_downloads)
      OBVIOUS
    <3> QED
      BY <2>1, <3>1, <3>2 DEF OverLimit
  <2>2. CASE shares'[id] = NoRow("deleted")
    BY <2>2 DEF OverLimit, NoRow
  <2>3. CASE /\ shares'[id] = [shares[id] EXCEPT !.download_count = @ + 1]
             /\ ~Exhausted(shares[id])
    BY <2>3, RegistryAssumption DEF OverLimit, Exhausted, Rows
  <2>4. CASE /\ shares'[id].max_downloads = shares[id].max_downloads
             /\ shares'[id].download_count = shares[id].download_count
    BY <2>4 DEF OverLimit
  <2> QED
    BY <1>3, <2>1, <2>2, <2>3, <2>4, StatementEffect
<1>4. ASSUME NEW id \in ShareIds, Statement(id), other # id
      PROVE  shares'[other] = shares[other]
  BY <1>4, StatementEffect
<1> QED
  BY <1>1, <1>2, <1>3, <1>4 DEF RegistryNext, registryVars

\* No statement brings a revoked or deleted share back.
THEOREM RegistryNeverReopened == RegistrySpec => NeverReopened
<1>1. RegistryTypeOK /\ [RegistryNext]_registryVars => [NeverReopenedStep]_registryVars
  BY StepEffect
<1> QED
  BY <1>1, RegistryTyped, PTL DEF RegistrySpec, NeverReopened, NeverReopenedStep

\* However many requests claim at once, no claim takes a share past its limit.
THEOREM RegistryOnlyOwnerOverdraws == RegistrySpec => OnlyOwnerOverdraws
<1>1. RegistryTypeOK /\ [RegistryNext]_registryVars => [OnlyOwnerOverdrawsStep]_registryVars
  BY StepEffect
<1> QED
  BY <1>1, RegistryTyped, PTL DEF RegistrySpec, OnlyOwnerOverdraws, OnlyOwnerOverdrawsStep
=============================================================================
