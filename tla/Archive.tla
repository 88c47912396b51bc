-------------------------------- MODULE Archive --------------------------------
(***************************************************************************)
(* Downloads between the row of a share and the body they serve, while the *)
(* owner deletes: opening a stored file, and generate_folder_archive of    *)
(* src/download.rs with the temporary ZIP it leaves in the storage         *)
(* directory until DownloadFile is dropped.                                *)
(*                                                                         *)
(* The archive is written on a blocking thread, which goes on when the     *)
(* handler that awaits it is dropped.  Its name is fresh: an archive is    *)
(* named by its fetch.  A file that is open stays readable when its name   *)
(* is removed, so opening an entry and copying it is one step.             *)
(***************************************************************************)
EXTENDS Storage

CONSTANT Fetches  \* the downloads

ASSUME ArchiveAssumption == Fetches \cap (Uploads \cup Deletes) = {}

VARIABLES
    fetch,    \* the download handlers and their bodies
    zip,      \* the blocking thread of each
    archives  \* the archives in the storage directory

archiveVars == <<fetch, zip, archives>>

\* parts are the entries in the stream ({NULL} for a file share), size its
\* bytes; left is where the handler stood when it was dropped or failed
NoFetch == [pc |-> "idle", share |-> NULL, parts |-> {}, size |-> 0, left |-> "idle"]

\* todo are the entries to copy, parts and size what has been copied
NoZip == [pc |-> "none", todo |-> {}, parts |-> {}, size |-> 0]

FetchTo(f, pc) == fetch' = [fetch EXCEPT ![f].pc = pc]

FetchFails(f) == fetch' = [fetch EXCEPT ![f].pc = "failed", ![f].left = fetch[f].pc]

LoadShare(f, u) ==
    /\ fetch[f].pc = "idle"
    /\ u \in rows
    /\ fetch' = [fetch EXCEPT ![f].pc = "loaded", ![f].share = u]
    /\ UNCHANGED <<zip, archives>>

\* A file share: File::open and metadata
OpenFile(f) ==
    LET path == <<fetch[f].share, NULL>> IN
    /\ fetch[f].pc = "loaded"
    /\ ~upload[fetch[f].share].folder
    /\ \/ /\ path \in DOMAIN files
          /\ fetch' = [fetch EXCEPT ![f].pc = "owned", ![f].parts = {NULL}, ![f].size = files[path]]
       \/ FetchFails(f)
    /\ UNCHANGED <<zip, archives>>

\* A folder share: its entries are listed in one statement; a share deleted
\* meanwhile has none, a 404
ListEntries(f) ==
    LET u == fetch[f].share IN
    /\ fetch[f].pc = "loaded"
    /\ upload[u].folder
    /\ IF u \in rows
       THEN /\ FetchTo(f, "building")
            /\ zip' = [zip EXCEPT ![f] = [NoZip EXCEPT !.pc = "create", !.todo = upload[u].entries]]
       ELSE FetchFails(f) /\ UNCHANGED zip
    /\ UNCHANGED archives

----------------------------------------------------------------------------
(* The blocking thread.                                                    *)

ZipFails(f) == zip' = [zip EXCEPT ![f].pc = "error"]

CreateArchive(f) ==
    /\ zip[f].pc = "create"
    /\ \/ archives' = archives \cup {f} /\ zip' = [zip EXCEPT ![f].pc = "copy"]
       \/ UNCHANGED archives /\ ZipFails(f)
    /\ UNCHANGED fetch

\* Mutant: an entry that cannot be opened is left out
SkippingCopyEntry(f) ==
    /\ zip[f].pc = "copy"
    /\ \E e \in zip[f].todo :
          LET path == <<fetch[f].share, e>> IN
          \/ /\ path \in DOMAIN files
             /\ zip' = [zip EXCEPT ![f].todo = @ \ {e}, ![f].parts = @ \cup {e}, ![f].size = @ + files[path]]
          \/ path \notin DOMAIN files /\ zip' = [zip EXCEPT ![f].todo = @ \ {e}]
    /\ UNCHANGED <<fetch, archives>>

\* An entry that is gone ends the thread with an error, as does the disk
CopyEntry(f) ==
    /\ zip[f].pc = "copy"
    /\ \E e \in zip[f].todo :
          LET path == <<fetch[f].share, e>> IN
          \/ /\ path \in DOMAIN files
             /\ zip' = [zip EXCEPT ![f].todo = @ \ {e}, ![f].parts = @ \cup {e}, ![f].size = @ + files[path]]
          \/ ZipFails(f)
    /\ UNCHANGED <<fetch, archives>>

FinishZip(f) ==
    /\ zip[f].pc = "copy"
    /\ zip[f].todo = {}
    /\ zip' = [zip EXCEPT ![f].pc = "ok"] \/ ZipFails(f)
    /\ UNCHANGED <<fetch, archives>>

----------------------------------------------------------------------------
(* The handler goes on.                                                    *)

Built(f) ==
    /\ fetch[f].pc = "building"
    /\ zip[f].pc = "ok"
    /\ FetchTo(f, "opening")
    /\ UNCHANGED <<zip, archives>>

BuildFailed(f) ==
    /\ fetch[f].pc = "building"
    /\ zip[f].pc = "error"
    /\ FetchTo(f, "discarding")
    /\ UNCHANGED <<zip, archives>>

\* The archive of f is removed and f ends as pc; when the file system refuses,
\* the error is discarded
RemoveArchive(f, pc) ==
    /\ \/ archives' = archives \ {f} /\ FetchTo(f, pc)
       \/ f \in archives /\ UNCHANGED archives /\ FetchTo(f, "unremoved")
    /\ UNCHANGED zip

\* Mutant: what was written of the archive is left there
CarelessDiscard(f) ==
    /\ fetch[f].pc = "discarding"
    /\ FetchTo(f, "refused")
    /\ UNCHANGED <<zip, archives>>

\* The removal runs on a thread of its own: it goes on when the handler is
\* dropped
Discard(f) ==
    /\ fetch[f].pc = "discarding"
    /\ RemoveArchive(f, "refused")

\* Only when the archive is open and measured does DownloadFile own it
OpenArchive(f) ==
    /\ fetch[f].pc = "opening"
    /\ FetchTo(f, "measuring") \/ FetchFails(f)
    /\ UNCHANGED <<zip, archives>>

Measure(f) ==
    /\ fetch[f].pc = "measuring"
    /\ \/ fetch' = [fetch EXCEPT ![f].pc = "owned", ![f].parts = zip[f].parts, ![f].size = zip[f].size]
       \/ FetchFails(f)
    /\ UNCHANGED <<zip, archives>>

\* The body begins
Stream(f) ==
    /\ fetch[f].pc = "owned"
    /\ FetchTo(f, "streaming")
    /\ UNCHANGED <<zip, archives>>

\* Mutant: the archive is removed at the end of a body only
ForgetfulDropFile(f) ==
    /\ fetch[f].pc \in {"owned", "streaming"}
    /\ FetchTo(f, "ended")
    /\ archives' = IF fetch[f].pc = "streaming" THEN archives \ {f} ELSE archives
    /\ UNCHANGED zip

\* Drop for DownloadFile: the range or the claim is refused, the seek fails,
\* the handler is dropped, or the body ends in whatever way
DropFile(f) ==
    /\ fetch[f].pc \in {"owned", "streaming"}
    /\ RemoveArchive(f, "ended")

\* The client goes away while the handler awaits
CancelFetch(f) ==
    /\ fetch[f].pc \in {"loaded", "building", "opening", "measuring"}
    /\ FetchFails(f)
    /\ UNCHANGED <<zip, archives>>

Fetch(f) ==
    \/ \E u \in Uploads : LoadShare(f, u)
    \/ OpenFile(f) \/ ListEntries(f)
    \/ CreateArchive(f) \/ CopyEntry(f) \/ FinishZip(f)
    \/ Built(f) \/ BuildFailed(f) \/ Discard(f) \/ OpenArchive(f) \/ Measure(f)
    \/ Stream(f) \/ DropFile(f) \/ CancelFetch(f)

----------------------------------------------------------------------------

FetchInFlight == {"loaded", "building", "discarding", "opening", "measuring", "owned", "streaming"}

\* The archives stay; nothing looks for them at the next start
CrashFetches ==
    /\ fetch' = [f \in Fetches |-> IF fetch[f].pc \in FetchInFlight
                                   THEN [fetch[f] EXCEPT !.pc = "lost"] ELSE fetch[f]]
    /\ zip' = [f \in Fetches |-> NoZip]
    /\ UNCHANGED archives

Init ==
    /\ StorageInit
    /\ fetch = [f \in Fetches |-> NoFetch]
    /\ zip = [f \in Fetches |-> NoZip]
    /\ archives = {}

Next ==
    \/ StorageStep /\ UNCHANGED archiveVars
    \/ \E f \in Fetches : Fetch(f) /\ UNCHANGED storageVars
    \/ CrashStorage /\ CrashFetches

Spec == Init /\ [][Next]_<<storageVars, archiveVars>>

----------------------------------------------------------------------------
(* Properties.                                                             *)

\* Every variable has its type.
TypeOK ==
    /\ StorageTypeOK
    /\ fetch \in [Fetches -> [pc    : {"idle", "failed", "refused", "ended", "unremoved", "lost"}
                                        \cup FetchInFlight,
                              share : Uploads \cup {NULL},
                              parts : SUBSET (Slots \cup {NULL}),
                              size  : Nat,
                              left  : {"idle"} \cup FetchInFlight]]
    /\ zip \in [Fetches -> [pc    : {"none", "create", "copy", "ok", "error"},
                            todo  : SUBSET Slots,
                            parts : SUBSET Slots,
                            size  : Nat]]
    /\ archives \subseteq Fetches

\* What is served is what the owner uploaded, all entries and all bytes of
\* it, whatever is deleted while the archive is built: otherwise the download
\* fails before it begins.
ServedWhole ==
    \A f \in Fetches :
        fetch[f].pc \in {"owned", "streaming"} =>
            /\ fetch[f].parts = upload[fetch[f].share].entries
            /\ fetch[f].size = upload[fetch[f].share].size

\* The fairness of the storage directory; downloads owe nothing.
FairSpec == Spec /\ StorageFairness

\* An archive outlives its download only when the process died, when the file
\* system refused to remove it, or when the handler was dropped or failed
\* between the start of the blocking thread and the moment DownloadFile owns
\* the archive.
ArchivesOwned ==
    \A f \in archives :
        \/ fetch[f].pc \in FetchInFlight \cup {"unremoved", "lost"}
        \/ fetch[f].pc = "failed" /\ fetch[f].left \in {"building", "opening", "measuring"}

\* The README on folder downloads: their ZIP is temporary.  When every
\* download is over, its thread has ended and no removal was refused there is
\* no archive.
ArchivesTemporary ==
    crashes = 0 /\ (\A f \in Fetches : /\ fetch[f].pc \notin FetchInFlight \cup {"unremoved"}
                                       /\ zip[f].pc \notin {"create", "copy"})
        => archives = {}
=============================================================================
