# A verification project for TempShare

TempShare shares local files through expiring links: a loopback management server
(create, list, update, revoke, delete), a public server (recipient page, metadata,
password unlock, download), an SQLite database, a storage directory, a background task
and a supervised `cloudflared` process. This directory holds TLA+ models of the parts
where concurrency, crashes, time and partial failures decide whether the program keeps its
promises, TLC configurations that check them on small instances, and TLAPS proofs that the
safety properties hold for every value of the constants.

Reading order: `ShareRegistry`, `DownloadBudget`, `Admission`; then, each on its own,
`UnlockGate`, `RateLimiter`, `Storage` with `Archive`, `RangeHeader` with `Transfer`,
`Tunnel`; last the `_proofs` modules, from their theorems (at the end of each section) back
to their invariants.

## 1. Inventory of the system

| component | source | state | operations | interacts with |
|---|---|---|---|---|
| Share registry | `src/db.rs` | table `shares` (status, deadline, limit, count, hash), `share_entries` | insert, guarded claim, revoke, delete, three setting updates, select of expired rows | every handler and the cleanup, over a pool of 8 connections |
| Download admission | `src/download.rs` `share_page`, `download`; `src/state.rs` | `download_sessions` and its mutex | mint a session, check it, load the share, open the file or build the archive, claim, respond | registry, rate limiter, password gate |
| Password gate | `src/download.rs` `unlock_share`, `is_unlocked`; `src/auth.rs`; `failed_auth_attempts` | `unlock_tokens`, `failed_auth_lock`, the table of failures | unlock, check a token, sweep | registry (hash), admission |
| Rate limiter | `src/auth.rs` | `hits` per address | check, sweep | `download` only, cleanup |
| Owner operations | `src/shares.rs` | none of its own | create file or folder share, update, revoke, delete | registry, stored files |
| Expiry cleanup | `src/main.rs:28-49`, `delete_expired_shares`, `sweep_unlock_tokens` | none of its own | every 60 s: revoke expired shares, sweep limiter, tokens, sessions | registry, all in-memory maps |
| Stored files, uploads | `src/shares.rs` | the storage directory | stream an upload, guards that remove it, `delete_file` | registry, downloads that have a file open |
| Folder archives | `src/download.rs` `generate_folder_archive` | temporary ZIPs in the storage directory | build, open, remove on drop | `share_entries`, stored files |
| Transfer accounting | `src/download.rs` `AccountingStream` | `download_events` | count bytes, record once | the HTTP server polling or dropping the body |
| Range and field parsing | `parse_range`, `parse_expiry`, `parse_max_downloads` | none | pure | download, create, update |
| Quick tunnel | `src/main.rs` `start_quick_tunnel`; `src/state.rs` | public URL and status, two RwLocks; a child process | start, read its output, publish the URL, wait, retry | `server_status`, share links |
| Dashboard | `static/app.js` | browser variables | poll shares and status, create, update | management API |
| Management validation, routing | `src/lib.rs` | none | Host and Origin tests | every management request |
| Ids, configuration, errors | `src/ids.rs`, `src/state.rs`, `src/error.rs` | none | random ids, environment, status codes | all |

What is hard, and what makes each part correct:

- **Registry and admission.** Handlers run in parallel on several threads, release the
  database between a check and its use, and hold the sessions mutex across one statement.
  Correct: nobody is served unpaid, a session pays once, the counter equals the charges, the
  limit is never exceeded by downloads, a dead share serves no new request, revocation and
  deletion are final.
- **Cleanup.** SELECT, then one UPDATE per row, any of which may fail. Correct: it ends
  every expired share eventually, and no other.
- **Limiter.** The clock is read before the lock. Correct: no window admits more than the
  budget; refusals do not prolong the wait.
- **Password gate.** Parallel guesses, stamps at the edge of the window, restarts. Correct:
  guesses are bounded per window; a token opens its share to its address for its lifetime.
- **Uploads and files.** The disk is written by blocking threads that outlive the handler
  awaiting them; guards remove what is unfinished, crashes run no guard, deletes overlap, and
  whoever removes something discards the error when the file system refuses.
  Correct: a row has its whole files, the size limit holds on the disk, and whatever stays
  behind stays for a known reason.
- **Archives.** Entries are listed once and opened one by one while a delete removes them;
  the ZIP is owned by nobody until it is open and measured. Correct: what is served is whole.
- **Transfers.** A body ends by its end, an error or a drop, in combinations. Correct: one
  exact event; the ranges a recipient puts together are the file.
- **Tunnel.** Two locks, a process that writes its two lines in any order and dies at any
  time, overlapping status calls. Correct: "connected" is said of the process that runs; what
  it said is not lost; the page ends up with the right address.

`PROJECT.json` lists every hazard at its line with the properties that cover it.

## 2. Modules

| module | models | role |
|---|---|---|
| `ShareRegistry` | the table: rows, statements, clock | base of `Admission`; a specification of its own (`RegistrySpec`): any statement, any time |
| `Admission` | `share_page`, `download`, owner handlers, cleanup, restarts | extends `ShareRegistry` |
| `DownloadBudget` | nothing in the code: what the owner is promised | abstract specification, instantiated by `Admission` |
| `RateLimiter` | `RateLimiter::check`, `sweep`, and who calls it | stands alone |
| `UnlockGate` | `unlock_share`, `is_unlocked`, token sweep, restarts | stands alone; says when the arbitrary 401 of `Admission` occurs |
| `Storage` | uploads, guards, blocking threads, removals, deletes, restarts | base of `Archive`; a specification of its own |
| `Archive` | downloads between row and body, the archive thread, `DownloadFile` | extends `Storage` |
| `RangeHeader` | `parse_range` and the choice of the response | operators, and what a header asks for without their case distinctions |
| `Transfer` | the answer to a request, `AccountingStream`, the server that polls it, a recipient, restarts | extends `RangeHeader` |
| `Tunnel` | `start_quick_tunnel`, `cloudflared`, `server_status`, `loadStatus` | stands alone |
| `ShareRegistry_proofs`, `Admission_proofs`, `RateLimiter_proofs`, `UnlockGate_proofs`, `Archive_proofs`, `Transfer_proofs`, `Tunnel_proofs` | | theorems and proofs |
| `MCAdmission`, `MCRateLimiter`, `MCArchive` | | symmetry sets and owners' inputs for TLC; the other modules are run as they are |

Definitions marked *Mutant* in the modules are plausible faults (a lock not held, a guard
dropped). No specification uses them; each property is known to fail when one of them
replaces the definition that follows it.

### Code and model

**One action is one atomic piece of the code**: one SQL statement or transaction, one
critical section of a mutex, one system call on the disk, one poll of a stream, or one
reading of the clock that is used later. Everything else may run between two actions.

- **`download`** (`Admission`) is the program counter of `req[r]`: `Arrive` (rate limiter),
  `CheckSession` (`has_counted_download_session`), `LoadShare`
  (`load_active_share_with_session` and the password gate), `OpenFile` (file or archive,
  range), `BeginClaim` and `Claim`/`FailClaim` (`claim_download_session` before and after
  the UPDATE, with the mutex in `sessionsLock`), `Respond` (seek and hand over).
- **`share_page`** is `LoadPage`, then `MintSession`; a visit's name is also the token.
- **`update_share`** is `StartUpdate` (the row is found, the settings parsed) and three
  statements `WriteSetting`, each with a failure that ends the handler; a lifetime goes through
  `ParseExpiry`, here and in `CreateShare`, and is refused when it leads beyond `I64Max`.
  Create, revoke and delete are one statement each.
- **The cleanup task** is `CleanSelect`, `CleanRevoke(id)` in any order (the SELECT has no
  ORDER BY), `CleanFail`, `SweepBegin`, `SweepSessions`.
- **`unlock_share`** (`UnlockGate`) is `Load`, `Count`/`Limit` (inside `failed_auth_lock`),
  `Wrong`/`Accept`/`DatabaseFails` (which release it), `Mint`; `is_unlocked` is `Gate`.
- **The limiter** is `Arrive` (the clock is read) and `Check` (the critical section of
  `hits`); `SweepBegin` and `Sweep` are split the same way.
- **`create_share`, `create_folder_share`** (`Storage`) are the program counter of
  `upload[u]`: `Begin`, `FolderReady`, then for each field `NextFile`, `FileReady`,
  `WriteChunk`, `FileDone`; `Insert` and `Respond` at the end; `GiveUp` for every error and
  for a client who goes away at any await. `Create` and `WriteBack` are the blocking threads
  of `File::create`, `create_dir` and `write_all`: they run when they like, also after
  `GiveUp`. A guard that is armed becomes a removal when the handler ends
  (`PendingUpload`, `PendingFolder`).
- **`delete_share`** is `Load` and `DeleteRow`; with `delete_file` it begins a removal.
  Removals are `RemoveFile` (`remove_file`) or `RemoveEntry` and `RemoveDir`
  (`remove_dir_all`: list, remove entry by entry, remove the directory), or at any point
  `RemovalFails`: the file system refuses, nobody looks at the error (`shares.rs:23`, `33`,
  `475-477`), the row is gone, the answer says ok and the rest stays on the disk.
- **A download of a stored file or folder** (`Archive`): `LoadShare`, `OpenFile` or
  `ListEntries`; the blocking thread `CreateArchive`, `CopyEntry`, `FinishZip`; the handler
  again with `Built`, or `BuildFailed` and `Discard` (the partial ZIP is removed), then
  `OpenArchive`, `Measure`; `Stream` and `DropFile` (the `Drop` of `DownloadFile`);
  `CancelFetch` at every await that can be given up. Both removals of a ZIP may be refused too
  (`RemoveArchive`).
- **A body** (`Transfer`): `Start` (the header is parsed, the file sought; a 416, a 500 and the
  answer for an empty file have no body), `Read`/`Yield` (the file is read, the chunk waits
  for the throttle, is counted and handed over), `ReadFails`, `PollEnd` (also before the end of
  the range, when the file is shorter than it was), `Drop`; the
  recipient's `Receive` and `Disconnect`. The byte at position p of the file is p, so a byte
  in the wrong place shows. The HTTP server is external.
- **The supervisor** (`Tunnel`): `Missing`, `Start`, `Spawn`/`SpawnFails`, `ReadLine`,
  `Publish` (two steps: the two locks of `set_public_base_url`), `StopReading`, `ChildGone`,
  `Backoff`. `cloudflared` is external. A status call is `Send`, `ReadUrl`, `ReadStatus`,
  `Apply` or `LoseAnswer`.
- **`Crash`** empties what is in `AppState`, ends every handler, thread and guard; tables
  and files survive.

### Abstractions

- One clock that never runs backwards stands for the wall clock (deadlines, failures) and
  the monotonic one (sessions, tokens, limiter). A tick is the unit of all durations.
- Share ids, stored names and tokens are never issued twice (22 and 32 random symbols); a
  deleted share is a tombstone row that no statement matches.
- A row and the clock it is compared with are read together in `LoadShare`, `LoadPage` and
  `CleanSelect`. The claim keeps its clock reading apart, because the statement may still
  have to wait for a connection.
- `create_share`, `create_folder_share`, `revoke_share` and `delete_share` act on the table
  with one statement or transaction; what they read or compute just before (the deadline of
  a new share) is part of that action.
- Outcomes of a download in `Admission` collapse to `served`, `refused` (an answer the
  handler decides on) and `failed` (a 500, or the handler was dropped because the client went
  away). `served` means the body was handed to the server, whatever is then read of it.
- In `Admission` the password gate is a 401 that may or may not occur when the row has a
  hash; `UnlockGate` models when it does. A hash stands for the password it verifies.
- A file is its size; an archive is the set of entries in it and their bytes. A file that is
  open stays readable when its name goes, so opening and copying an entry is one step.
- A header or a field is its form and the numbers it spells; which texts `str::parse` takes
  for a number is not modelled. The widths of u64 and i64 are (`U64Max`, `I64Max`). Limits and
  lifetimes are positive, as `parse_max_downloads` and `parse_expiry` demand; what they refuse
  never reaches the table.
- `late`, `charged`, `via` (of a finished request), `boot`, the `at` of a finished attempt,
  `left` of an upload or a download, and `reply` of a body are history: no action reads them.

## 3. Runs

| run | what it asks | instance | distinct states |
|---|---|---|---|
| `sharing` | Who pays, and how often, when requests use their own cookie, somebody else's or none, through a restart? | 2 shares, 2 clients, 2 requests, 1 visit, limit 2, clock stopped, 1 restart | 1.5 M |
| `settings` | What do interleaved setting updates do to counts and status, who is served too late, and are accepted deadlines to come? | 1 share, 1 hash, limits 1 and none, lifetimes 1 and 2, 2 requests, 1 visit, 1 update, 2 instants, i64 up to 2 | 2.2 M |
| `liveness` | Do the handlers keep the budget, does every request end, is every expired share revoked? | 1 share, 1 client, 2 requests, 1 visit, 2 instants, 1 restart | 160 k |
| `lag` | Does the limiter keep its budget when stamps arrive out of order? | 4 calls, 2 addresses, window 3, budget 2, lag 1, 6 instants | 281 k |
| `gate` | How many wrong guesses fit, when does a token open the gate, is every attempt answered? | 1 share, 2 addresses, 2 attempts, 1 use, 2 passwords, 1 failure allowed, 2 instants, 1 restart | 530 k |
| `resume` | Is a range answered with what it asks for, are events exact, is the recipient's copy the file? | 2 bodies, a file of 3 bytes, reads of up to 2, 2 bytes in flight, u64 up to 4, numbers up to 5, 1 restart | 878 k |
| `storage` | Are rows whole, limits kept, leftovers explained, downloads whole? | 1 upload (file or folder of up to 2 entries), 2 deletes, 1 download, 2 bytes, 1 restart | 634 k |
| `tunnel` | Is "connected" true, is a dead process replaced, is what it said published, does the page catch up? | 2 hostnames, 2 status calls, 1 line waiting, delays 1 and 2, 1 lost answer | 554 k |
| `cleanup_race` (violation) | Does the cleanup revoke only expired shares? | 1 share, 1 update | |
| `coverage` (violation) | Does the budget cover the public listener? | 4 calls, 2 addresses, no lag | |
| `temporary` (violation) | Is every archive removed when its download is over? | 1 folder, 1 download | |
| `multirange` (violation) | Is the whole file served to who asks for several ranges? | 1 request | |

What the passing runs show:

- `OneChargePerSession`, `ServedIsPaid`, `CountMatchesCharges`: a session is charged at most
  once; every body sent was paid for by the request or by a request of the same session, share
  and address; the counter is exact even when the handler fails after the charge.
- `LateNeverServed`: a counted session, even one that outlives the share's deadline, waives the
  limit and nothing else. `PaidSessionGoesOn`: it does waive it, but for one race (section 7).
- `DeadlinesAhead`: what `parse_expiry` accepts is a deadline to come, at the width of an i64. That
  an accepted update leaves a download is not so: a share may be revoked, or its limit be set
  to what was already downloaded.
- `BudgetSpec`: the handlers implement `DownloadBudget`. A session is one payer, a request
  outside any session pays for itself; a payer pays at most once over all shares.
- `RegistrySpec`: each step of each handler is one statement of the registry; this is what
  makes `NeverReopened` and `OnlyOwnerOverdraws`, proved of the registry, hold of the system.
- `MutexHeldInClaim`, `RequestsFinish`, `AttemptsAnswered`: no path keeps a mutex.
- `ExpiredSharesRevoked`: failed statements only delay the cleanup.
- `WindowBudget`: no window shortened by the time a call waited for the mutex admits more
  than the budget. A full window can hold more when calls are delayed; that is why the lag
  appears in the property. `DeniedOnlyWhenFull`: refusals are not counted.
- `FailureBudget`, `LimitedOnlyByWrongGuesses`: failures are bounded per closed window of
  `Lookback`, and nothing but wrong guesses locks an address out.
- `PassedOnlyUnlocked`, `UnlockLasts`: the token is necessary and sufficient.
- `StoredWhole`, `WithinLimit`, `ServedWhole`: a row has all files with all bytes, no upload
  takes more than the limit at any moment, and a download that begins has everything.
- `NothingLeftBehind`, `ArchivesOwned`, `DeletedGone`: what may stay on the disk, exactly. Each
  names its exceptions; a removal that the file system refuses is one of all three.
- `RangeAnswered`: a single range is answered with exactly the bytes it asks for, or with 416 when
  it is malformed or asks for none.
- `EventsExact`, `CopyFaithful`, `TransfersSettle`: one exact event per body, a faithful copy,
  and an end unless the client holds the connection or the process dies.
- `ConnectedIsCurrent`, `ChildReplaced`, `Published`, `DashboardCatchesUp`: see section 1.

The four violations are findings.
`delete_expired_shares` revokes by id alone, so a share the owner extends between its SELECT
and its UPDATE is revoked although it has not expired (`src/main.rs:28`: "revoke expired
shares"; section 5 proves that this is the only way). Only `GET /download/:id` consults the
limiter that `.env.example:28` calls the budget of the public listener. And the temporary ZIP
that `README.md:190` says is "removed when streaming ends" stays for good when the client goes
away while it is built, or when opening or measuring it fails. Last, the comments on `parse_range` say that a
request for several ranges is "rejected by falling back to a full 200 response"
(`download.rs:368-369`) and gets the "full file instead" (`download.rs:376`); `download` answers it
with 416, which is also what `tests/integration.rs:494-541` expects.

### Bounds

- Two instants and lifetimes of one tick give a share that is created, expires and may be
  extended. In `liveness`, `SessionTtl = 1` lets a session expire between its two checks; in
  `settings`, `SessionTtl = 2` lets one that was counted before the deadline still count after it,
  and a lifetime of 2 is within the i64 at the first instant and beyond it at the second. Its
  `FewSettings` let an update change one setting or all three. Two requests are
  the smallest number that race for a claim. `sharing` stops the clock because it asks about
  identity, not time; `settings` and `liveness` let it run. Limit 1 or none lets the owner put
  a limit on a share that was already downloaded more often.
- In `lag`, window 3 and six instants let a full window pass; four calls exceed a budget of
  two. `MaxLag` bounds the time a thread waits for the map's mutex, a scheduling assumption
  that `WindowBudget` names.
- In `gate` one allowed failure and two attempts are the smallest case in which two parallel
  guesses could both pass the count; `Lookback = 0` makes the lookback period one instant, so
  that both instants of the clock are needed to leave it. One share is enough for these
  questions but not for a token used at another share, which is left to the proof.
- In `storage` two entries and two bytes are the smallest folder whose sum can exceed the
  limit while no file does, and that can be half removed; a chunk may be as large as the limit.
  Two deletes may overlap on one share.
- In `resume` reads of one or two bytes of three and two bytes in flight separate what is
  read, handed over and received; two bodies run in parallel or resume each other. The numbers
  of a header go from 0 to 5, past the file's 3 bytes and the u64 of 4. The file is not empty
  there: that length, as every other, is left to the proof.
- In `tunnel` one line waits at a time, so that every order of the two announcements, with
  other lines and deaths between them, occurs; delay 1 doubles to its cap.
- Every handler runs once per name; `MaxCrashes`, `MaxLost` and `MaxLines` bound restarts,
  lost answers and the queue.

`sharing`, `settings`, `lag`, `coverage` and `temporary` use symmetry; they check only
invariants, step properties and refinement without fairness. The runs with liveness
properties do not. Deadlock checking is off in `resume`, `multirange`, `storage` and `temporary`, where
every handler runs once and the system may really stop, and on elsewhere.

### Fairness

Tokio polls every task that is ready and the mutexes are held for bounded times, so a handler
that has started runs on: weak fairness of `Proceed`, `MintSession` and `Unlock`, of the
blocking threads and removals (`StorageFairness`), and of `Serve(b)`, the server polling a
body it can poll. The cleanup is an infinite loop on a timer (weak fairness of `Clean`); a
statement may fail at any time but not for ever, so `CleanSelect` and `CleanRevoke` get
strong fairness. The supervisor's loop and the page's timer run on (weak fairness of
`Missing \/ Supervise` and of each status call). Clients, the owner, `cloudflared`, the clock
and crashes owe nothing, nor do downloads in `Archive`.

## 4. Findings and what a test would not have shown

Apart from the four violations, the models show behaviour that no document promises to be
otherwise, and that the properties name as their exceptions:

- A line of `cloudflared` that cannot be read ends the reading loop while the process lives on,
  and the supervisor then waits for its end with whatever status it last gave (`Stalled` in
  `Tunnel`, `src/main.rs:132`).
- A delete whose removal fails says ok, and what stays has no row any more (`shares.rs:471-479`);
  the guards of the uploads and `DownloadFile` ignore the errors of their removals as well.
- A range in another unit than bytes is answered with 416 (`download.rs:298-300`), although HTTP
  has servers ignore units they do not know. `RangeAnswered` therefore says nothing of them.
- The comment on `unlock_share` speaks of "exponential backoff characteristics enforced by the
  caller" (`download.rs:174-175`); there is none, the gate is the plain count that `FailureBudget` is
  about.

## 5. Proofs

TLAPS checks every theorem to the last leaf, from the named assumptions on the constants
alone: model values are distinct, limits, windows and lifetimes are naturals (positive where
the code's are), the sets that are counted or summed over and could be infinite otherwise
(`Calls`, `Attempts`, `Slots`) are finite. There is no bound on the number of shares, clients, requests, uploads,
entries, downloads, processes or restarts. Every safety property of every passing run,
invariants and step properties, is a theorem.

**`ShareRegistry_proofs`.** `RegistryTyped`, `RegistryNeverReopened`,
`RegistryOnlyOwnerOverdraws`: one lemma per statement; the last needs the guard of `Claimable`.

**`Admission_proofs`.**
- `AdmissionTyped`, one lemma per process. `AdmissionImplementsRegistry` rests on it and on
  `Addressed`: a handler past its first step has a share, and a clock reading not later than
  now. `AdmissionNeverReopened` and `AdmissionOnlyOwnerOverdraws` follow from the registry's.
- `AdmissionServedIsPaid`, `AdmissionOneChargePerSession`, `AdmissionMutexHeldInClaim` come from
  `PaymentInv`: `MutexInv` (the mutex is held exactly by the request in its statement through a
  session, and that session is still for its share and address, and uncounted), `SessionInv` (a
  counted session was charged by some request for its share and from its address; a live
  uncounted one by nobody; a token nobody received has no session and is in no cookie),
  `UnchargedInv`, and the two properties. Neither is inductive alone: `ServedIsPaid` says nothing
  of a counted session that nobody has ridden on, and `OneChargePerSession` nothing of a request
  about to charge a session that already paid. The mutex rules that case out.
- `AdmissionCountMatchesCharges` (`CountInv`: the charges of an id are finite, equal the counter
  of its row, and there are none before it is issued), `AdmissionLateNeverServed` (`LateInv`, with
  `Ages`: a share that is over stays over, one that has lapsed stays so unless an update moves its
  deadline), `AdmissionPaidSessionGoesOn` (`DirectInv`: who claims outside its session will never
  have one that matches), `AdmissionDeadlinesAhead` (`FreshInv`: an update that has not started and a
  share that is not issued have no deadline yet).
- `AdmissionCleanupSparesTheRest`, from `ChosenInv`: a share that the cleanup revokes is past its
  deadline, or has an update that moves the deadline, whatever else happens between the SELECT and
  the UPDATE. Where nobody updates (`AdmissionCleanupWithoutUpdates`) the property that `cleanup_race`
  refutes is therefore true: the race with `update_share` is the only one.
- `AdmissionImplementsBudget`: `Spec => BudgetSpec`, one variable of the mapping at a time, from all
  of the above and `ViaInv` (who is not charged and not about to be is nobody's payer but its
  session's).

**`RateLimiter_proofs`.** `LimiterInv`: stamps are past and a waiting call waits `MaxLag` at most; the
map holds admitted calls only; an admitted call it does not hold has left the window;
`WindowBudget` itself. The budget alone is not inductive: it is the third part that says that the map still counts
everything that matters to the next call.

**`UnlockGate_proofs`.** `FailInv` (the rows are the wrong guesses; `CountHolds`: what the count
established holds until the guess is recorded, because the lock is held; `FailureBudget`) and
`TokenInv` (the tokens in the map are those earned in this boot, each is there until it expires,
who was unlocked had guessed right, browsers send tokens they were given). `GateLockReturned`: the
lock is held only between count and record, whatever fails there.

**`Archive_proofs`**, about `Storage` and `Archive` together.
- `DirectoryInv`: from the first moment a handler has something on the disk its guard is armed; a
  given-up upload is gone, or its guard is at work and has seen all there is, or was refused;
  removals see files of their share only. Gives `GuardsLeaveNothing`, and with `ArchiveInv` `ZipsOwned`.
- `DiskInv`: what an upload has on the disk at each stage of its handler: a chunk is counted before
  it is written, so the bytes on the disk and the one unwritten chunk make up the counted size. A
  delete removes only after the row. Gives `StoredIsWhole` and `UploadsWithinLimit`. The sums are
  over finite sets of any size: what the fold of the community modules computes when one file is added or
  grows is proved by way of a minimal counterexample among the subsets of a finite set (`WFMin`).
- `ServesInv`: what a download has open, or its thread has still to copy, is what was uploaded.
  Gives `ServedIsWhole`, whatever is deleted meanwhile.
- `EndInv`: a delete that removes alone has seen all there is, was refused, or is done and everything
  is gone; a row that was inserted and is missing was deleted. Gives `DeletesAccountedFor`: a
  removal came to its end and left nothing, or stopped early because two deletes of the share met,
  or is running, refused, or cut off by a crash. And `DiskExplained`: whatever is in the storage
  directory is there for one of the reasons listed in `Explained` (a row, a handler, a crash, an
  upload dropped while a thread created something for it, a guard or a delete that is at work or was
  refused, a delete that kept the file or met another) or, for the ZIPs, in `ArchivesOwned`. No sweep of
  the code removes such leftovers, so the list is what an operator has to know.

**`Transfer_proofs`.** `StreamInv`: the bytes a stream counted are those it handed over, its cursor is
where they end, and what it recorded, it recorded once; the recipient holds what it was sent where
the response said (`ResponseFits`: a response with a body lies within the file). Gives `TransferEventsExact`,
`TransferCopyFaithful` and `TransferEndsRecorded`: a body that is over was recorded. `RangesAnswered`: for
every length of the file, every number and every width, by cases on the form of the header; the
answer is made once, in `Start`, and no later step touches it.

**`Tunnel_proofs`.** `PublishInv`: a line in the queue and what was read from it are true of the process
that runs; gives `TunnelConnectedIsCurrent`. `HeardInv`: what the process told waits in the queue, is
known to the supervisor, or is published; gives `TunnelHeardIsPublished`.

## 6. Only model-checked

The eight liveness properties: `RequestsFinish`, `ExpiredSharesRevoked`, `AttemptsAnswered`,
`DeletedGone`, `TransfersSettle`, `ChildReplaced`, `Published`, `DashboardCatchesUp`. Fairness and
ENABLED are out of the prover's reach. Of five of them the safety half is proved, what holds once the
fair steps have been taken, or the reason why they can be: `AdmissionMutexHeldInClaim` for
`RequestsFinish`, `GateLockReturned` for `AttemptsAnswered`, `DeletesAccountedFor` for
`DeletedGone`, `TransferEndsRecorded` for `TransfersSettle`, `TunnelHeardIsPublished` for `Published`.

## 7. Observations outside the runs

- Two first requests of a session, in parallel, with one download left: the one that looked
  its session up before the other was charged is refused as exhausted although a
  moment later the session counts (`download.rs:275-276`; the exception of `PaidSessionGoesOn`).
- A password change ends neither unlock tokens nor attempts that loaded the old hash.
- After a restart a recipient who resumes is charged again, or refused at the limit.
- A body dropped after its last byte but before the end of the stream is polled is recorded
  as incomplete (`download.rs:123-127`); `EventsExact` therefore has "completed" in one
  direction only.
- An upload dropped while a blocking thread creates its file or directory leaves that behind
  (the exception of `NothingLeftBehind`); so does every crash, and the next start looks for
  neither.
- Of two deletes of one folder each may stop at an entry the other removed, and both may leave
  the rest behind (an exception of `DeletedGone`).
- An update whose second or third statement fails leaves the settings before it changed and answers
  500 (`db.rs:324-346`). No property forbids it.

## 8. Not modelled

- Management validation and routing (`src/lib.rs`): stateless tests of the Host and Origin
  strings, which a model would restate. Routing appears as which handlers exist and which
  consult the limiter.
- Of the dashboard, everything but `loadStatus`: the table, the form and the link only read or
  call the API. Of ids, configuration and errors: ids are fresh, configuration values are
  constants, error responses collapse.
- TLS and HTTP framing, argon2, compression, HTML and header formatting, tracing, Windows
  power management, the pool's limit of 8 connections (a statement that has to wait for one is a
  later action, one that times out is a failing one).
- `increment_download_count` is public and called by nobody.

## 9. Plan

What is left is proof work: a composition of `UnlockGate` and `Admission` that replaces the
arbitrary 401, and shorter proofs where the type invariant is unfolded more often than it needs to be.
