-------------------------------- MODULE Storage --------------------------------
(***************************************************************************)
(* The storage directory and the rows that point into it: create_share,    *)
(* create_folder_share and delete_share of src/shares.rs, the guards       *)
(* PendingUpload and PendingFolder that remove an unfinished upload, and   *)
(* crashes, which run no guard.                                            *)
(*                                                                         *)
(* An upload stands for its share and for the name it stores under.  A     *)
(* path is a pair: <<u, NULL>> is the file of a file share, <<u, s>> the   *)
(* file of an entry s of a folder share, whose directory is u itself.      *)
(* Creating a file or a directory runs on a blocking thread, which goes on *)
(* when the handler that awaits it is dropped.                             *)
(***************************************************************************)
EXTENDS Naturals, FiniteSets, FiniteSetsExt, Functions

CONSTANTS
    Uploads,
    Slots,      \* the stored names of entries of a folder
    Deletes,    \* DELETE /api/shares/:id calls
    MaxBytes,   \* max_upload_bytes
    MaxChunk,   \* the largest chunk of a request body
    MaxCrashes, \* bound on the number of crashes
    NULL

ASSUME StorageAssumption ==
    /\ IsFiniteSet(Slots) /\ NULL \notin Slots
    /\ Uploads \cap Deletes = {}
    /\ MaxBytes \in Nat /\ MaxChunk \in Nat \ {0} /\ MaxCrashes \in Nat

VARIABLES
    files,   \* the size of each file that exists: a function from paths
    dirs,    \* the directories of folders that exist
    rows,    \* the shares in the database; an upload keeps what its row says
    upload,  \* the create handlers
    task,    \* what each of them has a blocking thread create, or its result
    removal, \* the removals: of guards, named by their upload, and of deletes
    delete,  \* the delete handlers
    crashes  \* crashes so far

storageVars == <<files, dirs, rows, upload, task, removal, delete, crashes>>

Paths == Uploads \X (Slots \cup {NULL})

\* size is what the handler has counted, unwritten the part of it that is not
\* in the file yet, entries the files completed; left is where it stood when
\* it was given up
NoUpload == [pc |-> "idle", folder |-> FALSE, guard |-> FALSE, slot |-> NULL,
             size |-> 0, unwritten |-> 0, entries |-> {}, left |-> "idle"]

NoTask == [pc |-> "none", dir |-> FALSE]

NoRemoval == [pc |-> "none", share |-> NULL, seen |-> {}]

NoDelete == [pc |-> "idle", share |-> NULL]

PathsOf(u) == {p \in DOMAIN files : p[1] = u}

SizeOf(u) == SumFunctionOnSet(files, PathsOf(u))

\* The path an upload writes to
Target(u) == <<u, upload[u].slot>>

Put(p, n) == [q \in DOMAIN files \cup {p} |-> IF q = p THEN n ELSE files[q]]

----------------------------------------------------------------------------
(* The blocking threads.                                                   *)

\* File::create and create_dir; an entry needs its directory
Create(u) ==
    /\ task[u].pc = "pending"
    /\ \/ /\ task[u].dir
          /\ dirs' = dirs \cup {u}
          /\ task' = [task EXCEPT ![u].pc = "created"]
          /\ UNCHANGED files
       \/ /\ ~task[u].dir
          /\ upload[u].folder => u \in dirs
          /\ files' = Put(Target(u), 0)
          /\ task' = [task EXCEPT ![u].pc = "created"]
          /\ UNCHANGED dirs
       \/ /\ task' = [task EXCEPT ![u].pc = "failed"]
          /\ UNCHANGED <<files, dirs>>
    /\ UNCHANGED <<upload, removal>>

\* Mutant: the file is opened anew for each write
RecreatingWriteBack(u) ==
    /\ upload[u].unwritten > 0
    /\ files' = Put(Target(u), (IF Target(u) \in DOMAIN files THEN files[Target(u)] ELSE 0)
                                  + upload[u].unwritten)
    /\ upload' = [upload EXCEPT ![u].unwritten = 0]
    /\ UNCHANGED <<dirs, task, removal>>

\* A write lands in the file, if it still has a name
WriteBack(u) ==
    /\ upload[u].unwritten > 0
    /\ files' = IF Target(u) \in DOMAIN files
                THEN [files EXCEPT ![Target(u)] = @ + upload[u].unwritten] ELSE files
    /\ upload' = [upload EXCEPT ![u].unwritten = 0]
    /\ UNCHANGED <<dirs, task, removal>>

----------------------------------------------------------------------------
(* The removals: remove_file, and remove_dir_all, which lists a directory, *)
(* removes what it saw entry by entry and then the directory, and stops    *)
(* early when somebody else removed something or put something there.  The *)
(* file system may refuse either of them at any point; whoever asked for   *)
(* the removal discards the error.                                         *)

\* Mutant: an empty directory is expected
ShallowBeginRemoval(r, u) ==
    removal' = [removal EXCEPT ![r] = [pc |-> "running", share |-> u, seen |-> {}]]

BeginRemoval(r, u) ==
    removal' = [removal EXCEPT ![r] = [pc |-> "running", share |-> u, seen |-> PathsOf(u)]]

Ends(r, pc) == removal' = [removal EXCEPT ![r].pc = pc]

RemoveFile(r) ==
    LET u == removal[r].share IN
    /\ removal[r].pc = "running"
    /\ ~upload[u].folder
    /\ files' = Restrict(files, DOMAIN files \ {<<u, NULL>>})
    /\ Ends(r, "done")
    /\ UNCHANGED dirs

RemoveEntry(r) ==
    /\ removal[r].pc = "running"
    /\ upload[removal[r].share].folder
    /\ \E p \in removal[r].seen :
          IF p \in DOMAIN files
          THEN /\ files' = Restrict(files, DOMAIN files \ {p})
               /\ removal' = [removal EXCEPT ![r].seen = @ \ {p}]
          ELSE /\ \/ removal' = [removal EXCEPT ![r].seen = @ \ {p}]
                  \/ Ends(r, "stopped")
               /\ UNCHANGED files
    /\ UNCHANGED dirs

\* A late entry is removed when the listing still sees it; otherwise it makes
\* the removal of the directory fail
RemoveDir(r) ==
    LET u == removal[r].share IN
    /\ removal[r].pc = "running"
    /\ upload[u].folder
    /\ removal[r].seen = {}
    /\ \/ PathsOf(u) = {} /\ dirs' = dirs \ {u} /\ Ends(r, "done")
       \/ PathsOf(u) # {} /\ UNCHANGED dirs /\ Ends(r, "stopped")
       \/ /\ PathsOf(u) # {} /\ UNCHANGED dirs
          /\ removal' = [removal EXCEPT ![r].seen = PathsOf(u)]
    /\ UNCHANGED files

\* The file, an entry or the directory stays, and what was not reached yet
RemovalFails(r) ==
    /\ removal[r].pc = "running"
    /\ Ends(r, "failed")
    /\ UNCHANGED <<files, dirs>>

Remove(r) ==
    /\ RemoveFile(r) \/ RemoveEntry(r) \/ RemoveDir(r) \/ RemovalFails(r)
    /\ UNCHANGED <<upload, task>>

----------------------------------------------------------------------------
(* The create handlers.                                                    *)

To(u, pc) == upload' = [upload EXCEPT ![u].pc = pc]

Begin(u, folder) ==
    /\ upload[u].pc = "idle"
    /\ upload' = [upload EXCEPT ![u].pc = IF folder THEN "mkdir" ELSE "fields",
                                ![u].folder = folder]
    /\ task' = IF folder THEN [task EXCEPT ![u] = [pc |-> "pending", dir |-> TRUE]] ELSE task
    /\ UNCHANGED <<files, dirs, rows, removal>>

\* The guard is armed when the handler is resumed, not when the directory exists
FolderReady(u) ==
    /\ upload[u].pc = "mkdir"
    /\ task[u].pc = "created"
    /\ upload' = [upload EXCEPT ![u].pc = "fields", ![u].guard = TRUE]
    /\ task' = [task EXCEPT ![u] = NoTask]
    /\ UNCHANGED <<files, dirs, rows, removal>>

\* A "file" field begins: a file share takes one
NextFile(u) ==
    /\ upload[u].pc = "fields"
    /\ \E s \in IF upload[u].folder THEN Slots ELSE {NULL} :
          /\ s \notin upload[u].entries
          /\ upload' = [upload EXCEPT ![u].pc = "creating", ![u].slot = s]
    /\ task' = [task EXCEPT ![u] = [pc |-> "pending", dir |-> FALSE]]
    /\ UNCHANGED <<files, dirs, rows, removal>>

\* Mutant: the guard of a file share is not armed
UnguardedFileReady(u) ==
    /\ upload[u].pc = "creating"
    /\ task[u].pc = "created"
    /\ To(u, "writing")
    /\ task' = [task EXCEPT ![u] = NoTask]
    /\ UNCHANGED <<files, dirs, rows, removal>>

FileReady(u) ==
    /\ upload[u].pc = "creating"
    /\ task[u].pc = "created"
    /\ upload' = [upload EXCEPT ![u].pc = "writing", ![u].guard = TRUE]
    /\ task' = [task EXCEPT ![u] = NoTask]
    /\ UNCHANGED <<files, dirs, rows, removal>>

\* Mutant: the limit holds for each file of a folder
LimitPerFileChunk(u) ==
    /\ upload[u].pc = "writing"
    /\ upload[u].unwritten = 0
    /\ \E n \in 1 .. MaxChunk :
          /\ Target(u) \in DOMAIN files => files[Target(u)] + n <= MaxBytes
          /\ upload' = [upload EXCEPT ![u].size = @ + n, ![u].unwritten = n]
    /\ UNCHANGED <<files, dirs, rows, task, removal>>

\* A chunk within the limit is counted and handed to the writing thread, which
\* holds one write at a time; one beyond it gives the upload up (GiveUp)
WriteChunk(u) ==
    /\ upload[u].pc = "writing"
    /\ upload[u].unwritten = 0
    /\ \E n \in 1 .. MaxChunk :
          /\ upload[u].size + n <= MaxBytes
          /\ upload' = [upload EXCEPT ![u].size = @ + n, ![u].unwritten = n]
    /\ UNCHANGED <<files, dirs, rows, task, removal>>

\* Mutant: the end of the field does not wait for the last write
UnflushedFileDone(u) ==
    /\ upload[u].pc = "writing"
    /\ upload' = [upload EXCEPT ![u].pc = "fields", ![u].entries = @ \cup {upload[u].slot},
                                ![u].unwritten = 0]
    /\ UNCHANGED <<files, dirs, rows, task, removal>>

\* The field ends: flush waits for the last write
FileDone(u) ==
    /\ upload[u].pc = "writing"
    /\ upload[u].unwritten = 0
    /\ upload' = [upload EXCEPT ![u].pc = "fields", ![u].entries = @ \cup {upload[u].slot}]
    /\ UNCHANGED <<files, dirs, rows, task, removal>>

\* Mutant: the guard is still armed when the handler returns
ArmedInsert(u) ==
    /\ upload[u].pc = "fields"
    /\ upload[u].entries # {}
    /\ rows' = rows \cup {u}
    /\ To(u, "respond")
    /\ UNCHANGED <<files, dirs, task, removal>>

\* The request ends and its settings are accepted: the row is inserted (with
\* the rows of its entries, in one transaction) and the guard disarmed
Insert(u) ==
    /\ upload[u].pc = "fields"
    /\ upload[u].entries # {}
    /\ rows' = rows \cup {u}
    /\ upload' = [upload EXCEPT ![u].pc = "respond", ![u].guard = FALSE]
    /\ UNCHANGED <<files, dirs, task, removal>>

\* The handler is gone: an armed guard removes what it names
DropGuard(u) ==
    IF upload[u].guard THEN BeginRemoval(u, u) ELSE UNCHANGED removal

Respond(u) ==
    /\ upload[u].pc = "respond"
    /\ To(u, "stored")
    /\ DropGuard(u)
    /\ UNCHANGED <<files, dirs, rows, task>>

InHandler == {"mkdir", "fields", "creating", "writing"}

\* An error (malformed or interrupted request, too large, a second file, no
\* file, settings that do not parse, disk or database) or the client gone and
\* the handler dropped, at any await
GiveUp(u) ==
    /\ upload[u].pc \in InHandler
    /\ upload' = [upload EXCEPT ![u].pc = "given_up", ![u].left = upload[u].pc]
    /\ DropGuard(u)
    /\ UNCHANGED <<files, dirs, rows, task>>

Upload(u) ==
    \/ \E folder \in BOOLEAN : Begin(u, folder)
    \/ FolderReady(u) \/ NextFile(u) \/ FileReady(u) \/ WriteChunk(u) \/ FileDone(u)
    \/ Insert(u) \/ Respond(u) \/ GiveUp(u)

----------------------------------------------------------------------------
(* The delete handlers, which await nothing.                               *)

Load(d, u) ==
    /\ delete[d].pc = "idle"
    /\ u \in rows
    /\ delete' = [delete EXCEPT ![d] = [pc |-> "loaded", share |-> u]]
    /\ UNCHANGED <<files, rows, removal>>

\* Mutant: the file goes before the row
HastyDeleteRow(d) ==
    /\ delete[d].pc = "loaded"
    /\ \/ /\ removal[d].pc = "none"
          /\ BeginRemoval(d, delete[d].share)
          /\ UNCHANGED <<rows, delete>>
       \/ /\ rows' = rows \ {delete[d].share}
          /\ delete' = [delete EXCEPT ![d].pc = "removing"]
          /\ UNCHANGED removal
    /\ UNCHANGED files

\* The row goes first, and its entries with it; the file only on request
\* (delete_file), or the statement fails
DeleteRow(d) ==
    /\ delete[d].pc = "loaded"
    /\ \/ /\ rows' = rows \ {delete[d].share}
          /\ \/ /\ delete' = [delete EXCEPT ![d].pc = "removing"]
                /\ BeginRemoval(d, delete[d].share)
             \/ /\ delete' = [delete EXCEPT ![d].pc = "kept"]
                /\ UNCHANGED removal
       \/ /\ delete' = [delete EXCEPT ![d].pc = "failed"]
          /\ UNCHANGED <<rows, removal>>
    /\ UNCHANGED files

----------------------------------------------------------------------------

(* Restarts, and the whole.                                                *)

\* Handlers, threads, guards and removals end; files and rows stay
CrashedUploads ==
    [u \in Uploads |-> IF upload[u].pc \in InHandler \cup {"respond"}
                       THEN [upload[u] EXCEPT !.pc = "crashed", !.guard = FALSE, !.unwritten = 0]
                       ELSE [upload[u] EXCEPT !.unwritten = 0]]

CrashStorage ==
    /\ crashes < MaxCrashes
    /\ crashes' = crashes + 1
    /\ upload' = CrashedUploads
    /\ task' = [u \in Uploads |-> NoTask]
    /\ removal' = [r \in Uploads \cup Deletes |->
                     IF removal[r].pc = "running" THEN [removal[r] EXCEPT !.pc = "lost"] ELSE removal[r]]
    /\ delete' = [d \in Deletes |->
                    IF delete[d].pc = "loaded" THEN [delete[d] EXCEPT !.pc = "failed"] ELSE delete[d]]
    /\ UNCHANGED <<files, dirs, rows>>

StorageInit ==
    /\ files = <<>>
    /\ dirs = {}
    /\ rows = {}
    /\ upload = [u \in Uploads |-> NoUpload]
    /\ task = [u \in Uploads |-> NoTask]
    /\ removal = [r \in Uploads \cup Deletes |-> NoRemoval]
    /\ delete = [d \in Deletes |-> NoDelete]
    /\ crashes = 0

StorageStep ==
    \/ \E u \in Uploads : Upload(u) /\ UNCHANGED <<delete, crashes>>
    \/ \E u \in Uploads : (Create(u) \/ WriteBack(u)) /\ UNCHANGED <<rows, delete, crashes>>
    \/ \E r \in Uploads \cup Deletes : Remove(r) /\ UNCHANGED <<rows, delete, crashes>>
    \/ \E d \in Deletes :
          /\ DeleteRow(d) \/ \E u \in Uploads : Load(d, u)
          /\ UNCHANGED <<dirs, upload, task, crashes>>

StorageNext == StorageStep \/ CrashStorage

StorageSpec == StorageInit /\ [][StorageNext]_storageVars

----------------------------------------------------------------------------
(* Properties.                                                             *)

UploadStates == [pc        : {"idle", "respond", "stored", "given_up", "crashed"} \cup InHandler,
                 folder    : BOOLEAN,
                 guard     : BOOLEAN,
                 slot      : Slots \cup {NULL},
                 size      : Nat,
                 unwritten : 0 .. MaxChunk,
                 entries   : SUBSET (Slots \cup {NULL}),
                 left      : {"idle"} \cup InHandler]

\* Every variable has its type, and entries exist in directories only.
StorageTypeOK ==
    /\ files \in [DOMAIN files -> Nat]
    /\ DOMAIN files \subseteq Paths
    /\ \A p \in DOMAIN files : p[2] # NULL => p[1] \in dirs
    /\ dirs \subseteq Uploads
    /\ rows \subseteq Uploads
    /\ upload \in [Uploads -> UploadStates]
    /\ task \in [Uploads -> [pc : {"none", "pending", "created", "failed"}, dir : BOOLEAN]]
    /\ removal \in [Uploads \cup Deletes -> [pc    : {"none", "running", "done", "stopped", "failed", "lost"},
                                             share : Uploads \cup {NULL},
                                             seen  : SUBSET Paths]]
    /\ delete \in [Deletes -> [pc    : {"idle", "loaded", "removing", "kept", "failed"},
                               share : Uploads \cup {NULL}]]
    /\ crashes \in 0 .. MaxCrashes

\* Exactly the files of the share are there, with the sizes its rows say
Whole(u) ==
    /\ PathsOf(u) = {u} \X upload[u].entries
    /\ SizeOf(u) = upload[u].size
    /\ upload[u].folder => u \in dirs

\* A share in the database has its file, or all its entries, completely
\* written, and so does a stored share whose row was deleted with its file
\* kept: writes in flight, guards that were dropped, deletes that overlap
\* and crashes notwithstanding.
StoredWhole ==
    \A u \in Uploads :
        \/ u \in rows
        \/ /\ upload[u].pc = "stored"
           /\ \A d \in Deletes : delete[d].share = u => delete[d].pc # "removing"
        => Whole(u)

\* No upload ever occupies more than max_upload_bytes, not even one that is
\* about to be refused for it, and a folder not by the sum of its files.
WithinLimit == \A u \in Uploads : SizeOf(u) <= MaxBytes

Gone(u) == PathsOf(u) = {} /\ u \notin dirs

\* An upload that was given up leaves nothing behind once its guard has run,
\* wherever in its request it was, with two exceptions: a removal that the file
\* system refuses, and a handler that is dropped while a blocking thread
\* creates a file or the directory.  The file appears without a guard, or it
\* appears in the directory that the guard is removing.
NothingLeftBehind ==
    \A u \in Uploads :
        /\ upload[u].pc = "given_up"
        /\ removal[u].pc \in {"none", "done", "stopped"}
        /\ upload[u].left \notin {"mkdir", "creating"}
        => Gone(u)

\* Blocking threads, guards and delete handlers run on.
StorageFairness ==
    /\ \A u \in Uploads :
          WF_storageVars((Create(u) \/ WriteBack(u)) /\ UNCHANGED <<rows, delete, crashes>>)
    /\ \A r \in Uploads \cup Deletes :
          WF_storageVars(Remove(r) /\ UNCHANGED <<rows, delete, crashes>>)

FairStorageSpec == StorageSpec /\ StorageFairness

\* A share deleted with its file is gone from the disk eventually, unless the
\* process dies first or the file system refuses the removal, which the answer
\* of the call does not tell.  Only a removal that met an entry another delete
\* of the same folder had removed may stop before that: it leaves the rest to
\* the other.
DeletedGone ==
    \A d \in Deletes :
        delete[d].pc = "removing" ~>
            \/ Gone(delete[d].share)
            \/ removal[d].pc \in {"failed", "lost"}
            \/ /\ removal[d].pc = "stopped"
               /\ \E e \in Deletes \ {d} : delete[e].pc = "removing" /\ delete[e].share = delete[d].share
=============================================================================
