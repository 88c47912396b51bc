-------------------------- MODULE Archive_proofs --------------------------
(***************************************************************************)
(* Proofs about Storage and Archive, for any number of uploads, entries,   *)
(* deletes, downloads and crashes, and any size of chunks and limit.       *)
(***************************************************************************)
EXTENDS Archive, FiniteSetTheorems, WellFoundedInduction, TLAPS

(* Sums over finite sets: SumFunctionOnSet, the fold that measures files.   *)

\* g sums f over the subsets of S, whichever element is taken out first.
Sums(f, S, g) ==
    /\ DOMAIN g = SUBSET S /\ g = [T \in SUBSET S |-> g[T]]
    /\ g[{}] = 0
    /\ \A T \in SUBSET S : g[T] \in Nat /\ \A x \in T : g[T] = f[x] + g[T \ {x}]

\* The recursion of FoldFunctionOnSet.
Iterates(f, S, it) ==
    it = [T \in SUBSET S |-> IF T = {} THEN 0
                             ELSE f[CHOOSE x \in T : TRUE] + it[T \ {CHOOSE x \in T : TRUE}]]

\* Among some subsets of a finite set there is a smallest: induction over sets.
LEMMA MinimalSet ==
    ASSUME NEW S, IsFiniteSet(S), NEW C \in SUBSET SUBSET S, C # {}
    PROVE  \E T \in C : \A U \in SUBSET T : U # T => U \notin C
<1>1. C \subseteq FiniteSubsetsOf(S)
  BY FS_Subset DEF FiniteSubsetsOf
<1>2. PICK T \in C : \A U \in C : <<U, T>> \notin StrictSubsetOrdering(S)
  BY <1>1, FS_StrictSubsetOrderingWellFounded, WFMin
<1> QED
  BY <1>2 DEF StrictSubsetOrdering

\* Such a g exists, by taking an element away from a smallest set without one.
LEMMA SumsExist ==
    ASSUME NEW S, IsFiniteSet(S), NEW f, \A x \in S : f[x] \in Nat
    PROVE  \E g : Sums(f, S, g)
<1> DEFINE C == {T \in SUBSET S : ~\E g : Sums(f, T, g)}
<1>1. SUFFICES ASSUME C # {} PROVE FALSE
  BY DEF C
<1>a. C \in SUBSET SUBSET S
  OBVIOUS
<1>2. PICK T \in C : \A U \in SUBSET T : U # T => U \notin C
  <2> HIDE DEF C
  <2> QED
    BY <1>1, <1>a, MinimalSet
<1>b. \A x \in T : f[x] \in Nat
  BY <1>a, <1>2
<1>3. T # {}
  <2> DEFINE g == [U \in SUBSET {} |-> 0]
  <2>1. Sums(f, {}, g)
    BY DEF Sums
  <2> QED
    BY <2>1
<1>4. PICK a \in T : TRUE
  BY <1>3
<1>5. PICK g : Sums(f, T \ {a}, g)
  BY <1>2, <1>4
<1> DEFINE h == [U \in SUBSET T |-> IF a \in U THEN f[a] + g[U \ {a}] ELSE g[U]]
<1>6. \A U \in SUBSET T : U \ {a} \in SUBSET (T \ {a}) /\ (a \notin U => U \in SUBSET (T \ {a}))
  OBVIOUS
<1>7. \A U \in SUBSET T : h[U] \in Nat
  <2> SUFFICES ASSUME NEW U \in SUBSET T
               PROVE  (IF a \in U THEN f[a] + g[U \ {a}] ELSE g[U]) \in Nat
    OBVIOUS
  <2>1. U \ {a} \in SUBSET (T \ {a}) /\ (a \notin U => U \in SUBSET (T \ {a}))
    OBVIOUS
  <2>2. g[U \ {a}] \in Nat /\ (a \notin U => g[U] \in Nat)
    BY <1>5, <2>1 DEF Sums
  <2> QED
    BY <1>b, <1>4, <2>2
<1>8. h[{}] = 0
  BY <1>5 DEF Sums
<1>9. ASSUME NEW U \in SUBSET T, NEW x \in U
      PROVE  h[U] = f[x] + h[U \ {x}]
  <2>1. CASE x = a
    <3>1. h[U] = f[a] + g[U \ {a}] /\ h[U \ {a}] = g[U \ {a}]
      BY <1>6, <2>1
    <3> QED
      BY <2>1, <3>1
  <2>2. CASE x # a /\ a \in U
    <3>1. h[U] = f[a] + g[U \ {a}] /\ h[U \ {x}] = f[a] + g[(U \ {x}) \ {a}]
      BY <1>6, <2>2
    <3>2. (U \ {x}) \ {a} = (U \ {a}) \ {x} /\ x \in U \ {a} /\ U \ {a} \in SUBSET (T \ {a})
      BY <2>2
    <3>5. PICK V : V = U \ {a}
      OBVIOUS
    <3>6. V \in SUBSET (T \ {a}) /\ V \ {x} \in SUBSET (T \ {a}) /\ x \in V
      BY <3>2, <3>5
    <3>7. g[V] = f[x] + g[V \ {x}] /\ g[V \ {x}] \in Nat
      BY <1>5, <3>6 DEF Sums
    <3>3. g[U \ {a}] = f[x] + g[(U \ {x}) \ {a}] /\ g[(U \ {x}) \ {a}] \in Nat
      BY <3>2, <3>5, <3>7
    <3>4. f[a] \in Nat /\ f[x] \in Nat
      BY <1>4
    <3> HIDE DEF h
    <3> QED
      BY <3>1, <3>3, <3>4
  <2>3. CASE x # a /\ a \notin U
    <3>1. h[U] = g[U] /\ h[U \ {x}] = g[U \ {x}]
      BY <2>3
    <3> QED
      BY <1>5, <1>6, <2>3, <3>1 DEF Sums
  <2> QED
    BY <2>1, <2>2, <2>3
<1>10. Sums(f, T, h)
  BY <1>7, <1>8, <1>9 DEF Sums
<1> QED
  BY <1>2, <1>10

\* The definition of SumFunctionOnSet, down to the function it recurses with.
LEMMA FoldUnfold ==
    ASSUME NEW f, NEW S
    PROVE  SumFunctionOnSet(f, S) = (CHOOSE it : Iterates(f, S, it))[S]
BY DEF SumFunctionOnSet, FoldFunctionOnSet, MapThenFoldSet, Iterates

\* The recursion has one solution, and g is it, whatever CHOOSE chooses.
LEMMA SumsUnique ==
    ASSUME NEW S, IsFiniteSet(S), NEW f, NEW g, Sums(f, S, g)
    PROVE  SumFunctionOnSet(f, S) = g[S]
<1>1. Iterates(f, S, g)
  <2>1. \A T \in SUBSET S : T # {} => (CHOOSE x \in T : TRUE) \in T
    OBVIOUS
  <2>2. \A T \in SUBSET S :
            g[T] = IF T = {} THEN 0
                   ELSE f[CHOOSE x \in T : TRUE] + g[T \ {CHOOSE x \in T : TRUE}]
    BY <2>1 DEF Sums
  <2> QED
    BY <2>2 DEF Sums, Iterates
<1>2. PICK it : it = CHOOSE i : Iterates(f, S, i)
  OBVIOUS
<1>3. Iterates(f, S, it)
  BY <1>1, <1>2
<1> DEFINE C == {T \in SUBSET S : it[T] # g[T]}
<1>4. ASSUME C # {} PROVE FALSE
  <2>0. C \in SUBSET SUBSET S
    OBVIOUS
  <2>1. PICK T \in C : \A U \in SUBSET T : U # T => U \notin C
    <3> HIDE DEF C
    <3> QED
      BY <1>4, <2>0, MinimalSet
  <2>2. T # {}
    BY <1>3, <2>1 DEF Iterates, Sums
  <2>3. PICK x \in T : x = CHOOSE y \in T : TRUE
    BY <2>2
  <2>4. it[T] = f[x] + it[T \ {x}]
    BY <1>3, <2>2, <2>3 DEF Iterates
  <2>5. g[T] = f[x] + g[T \ {x}]
    BY <2>1, <2>3 DEF Sums
  <2>6. T \ {x} \notin C
    BY <2>1, <2>3
  <2> QED
    BY <2>1, <2>4, <2>5, <2>6
<1> QED
  BY <1>2, <1>4, FoldUnfold

\* The facts the rest of the module uses of a sum: over nothing, with one
\* element taken out or added, and of two functions that agree.
LEMMA SumEmpty == ASSUME NEW f PROVE SumFunctionOnSet(f, {}) = 0
<1>1. PICK g : Sums(f, {}, g)
  BY SumsExist, FS_EmptySet
<1> QED
  BY <1>1, SumsUnique, FS_EmptySet DEF Sums

LEMMA SumTake ==
    ASSUME NEW S, IsFiniteSet(S), NEW f, \A x \in S : f[x] \in Nat
    PROVE  /\ SumFunctionOnSet(f, S) \in Nat
           /\ \A x \in S : SumFunctionOnSet(f, S) = f[x] + SumFunctionOnSet(f, S \ {x})
<1>1. PICK g : Sums(f, S, g)
  BY SumsExist
<1>2. SumFunctionOnSet(f, S) = g[S]
  BY <1>1, SumsUnique
<1>3. ASSUME NEW x \in S
      PROVE  SumFunctionOnSet(f, S) = f[x] + SumFunctionOnSet(f, S \ {x})
  <2> DEFINE h == [T \in SUBSET (S \ {x}) |-> g[T]]
  <2>1. Sums(f, S \ {x}, h)
    BY <1>1 DEF Sums
  <2>2. SumFunctionOnSet(f, S \ {x}) = g[S \ {x}]
    <3>1. IsFiniteSet(S \ {x}) /\ h[S \ {x}] = g[S \ {x}]
      BY FS_RemoveElement
    <3> HIDE DEF h
    <3> QED
      BY <2>1, <3>1, SumsUnique
  <2> QED
    BY <1>1, <1>2, <2>2 DEF Sums
<1> QED
  BY <1>1, <1>2, <1>3 DEF Sums

LEMMA SumSame ==
    ASSUME NEW S, IsFiniteSet(S), NEW f, NEW h, \A x \in S : f[x] \in Nat /\ h[x] = f[x]
    PROVE  SumFunctionOnSet(h, S) = SumFunctionOnSet(f, S)
<1>1. PICK g : Sums(f, S, g)
  BY SumsExist
<1>2. Sums(h, S, g)
  BY <1>1 DEF Sums
<1> QED
  BY <1>1, <1>2, SumsUnique

LEMMA SumAdd ==
    ASSUME NEW S, IsFiniteSet(S), NEW x, x \notin S, NEW f, \A y \in S \cup {x} : f[y] \in Nat
    PROVE  SumFunctionOnSet(f, S \cup {x}) = SumFunctionOnSet(f, S) + f[x]
<1>1. IsFiniteSet(S \cup {x}) /\ (S \cup {x}) \ {x} = S
  BY FS_AddElement
<1>2. SumFunctionOnSet(f, S \cup {x}) = f[x] + SumFunctionOnSet(f, S)
  BY <1>1, SumTake
<1> QED
  BY <1>2, SumTake

----------------------------------------------------------------------------

(* The handlers and threads of the storage directory.                      *)

\* Where a handler that has a row, or had one, may stand.
Entered == {"respond", "stored", "crashed"}

\* An upload, by itself: a blocking thread only creates for the await that
\* started it, only folders have a directory and named entries, and a guard is
\* armed from the first moment at which the handler has something on the disk.
UploadInv(u) ==
    LET s == upload[u] IN
    /\ s.pc = "idle" => ~s.guard /\ ~s.folder /\ s.entries = {} /\ task[u].pc = "none"
    /\ ~s.folder => u \notin dirs /\ s.slot = NULL /\ s.pc # "mkdir"
    /\ ~s.folder /\ task[u].pc = "pending" => ~task[u].dir
    /\ s.folder => NULL \notin s.entries
    /\ s.folder /\ s.pc \in {"creating", "writing"} => s.slot # NULL
    /\ task[u].pc = "pending" /\ ~task[u].dir /\ s.folder => s.slot # NULL
    /\ task[u].pc # "none" =>
          \/ s.pc \in {"mkdir", "creating"}
          \/ s.pc = "given_up" /\ s.left \in {"mkdir", "creating"}
    /\ s.pc = "writing" => s.guard
    /\ s.pc = "fields" /\ s.folder => s.guard
    /\ s.pc \in {"idle", "fields"} /\ ~s.guard => PathsOf(u) = {} /\ u \notin dirs
    /\ s.pc = "respond" => ~s.guard

\* What removes what: a guard its own upload once it was given up, a delete a
\* share that was in the database.
RemovalInv ==
    /\ rows \subseteq {u \in Uploads : upload[u].pc \in Entered}
    /\ \A u \in Uploads : removal[u].pc # "none" =>
          removal[u].share = u /\ upload[u].pc = "given_up"
    /\ \A d \in Deletes :
          /\ delete[d].pc # "idle" =>
                delete[d].share \in Uploads /\ upload[delete[d].share].pc \in Entered
          /\ removal[d].pc # "none" =>
                removal[d].share \in Uploads /\ upload[removal[d].share].pc \in Entered

\* An upload that was given up outside the creation of a file or directory is
\* gone, or its guard is at work and has seen all there is, was refused, or died.
GivenUpInv(u) ==
    upload[u].pc = "given_up" /\ upload[u].left \notin {"mkdir", "creating"} =>
        /\ removal[u].pc \in {"none", "done", "stopped"} => Gone(u)
        /\ removal[u].pc = "running" /\ upload[u].folder => removal[u].seen = PathsOf(u)

\* A removal only sees files of its share.
SeenInv ==
    \A r \in Uploads \cup Deletes : \A p \in removal[r].seen : p[1] = removal[r].share

DirectoryInv ==
    /\ \A u \in Uploads : UploadInv(u) /\ GivenUpInv(u)
    /\ \A p \in DOMAIN files : ~upload[p[1]].folder => p[2] = NULL
    /\ RemovalInv
    /\ SeenInv

\* An archive is created only by the thread of a handler that waits for it or
\* was dropped while it did.
ArchiveInv ==
    \A f \in Fetches :
        /\ fetch[f].pc \in {"idle", "loaded"} => zip[f].pc = "none" /\ f \notin archives
        /\ zip[f].pc \in {"create", "copy"} =>
              \/ fetch[f].pc = "building"
              \/ fetch[f].pc = "failed" /\ fetch[f].left = "building"
        /\ f \in archives =>
              \/ fetch[f].pc \in FetchInFlight \cup {"unremoved", "lost"}
              \/ fetch[f].pc = "failed" /\ fetch[f].left \in {"building", "opening", "measuring"}
        /\ fetch[f].pc # "idle" => fetch[f].share \in Uploads

----------------------------------------------------------------------------
(* Types.                                                                  *)

LEMMA UploadUpdate ==
    ASSUME NEW s \in UploadStates
    PROVE  /\ \A pc \in {"idle", "respond", "stored", "given_up", "crashed"} \cup InHandler :
                 [s EXCEPT !.pc = pc] \in UploadStates
           /\ \A b \in BOOLEAN : [s EXCEPT !.guard = b] \in UploadStates
           /\ \A b \in BOOLEAN : [s EXCEPT !.folder = b] \in UploadStates
           /\ \A e \in Slots \cup {NULL} : [s EXCEPT !.slot = e] \in UploadStates
           /\ \A n \in Nat : [s EXCEPT !.size = n] \in UploadStates
           /\ \A n \in 0 .. MaxChunk : [s EXCEPT !.unwritten = n] \in UploadStates
           /\ \A E \in SUBSET (Slots \cup {NULL}) : [s EXCEPT !.entries = E] \in UploadStates
           /\ \A pc \in {"idle"} \cup InHandler : [s EXCEPT !.left = pc] \in UploadStates
<1> USE DEF UploadStates
<1>1. \A pc \in {"idle", "respond", "stored", "given_up", "crashed"} \cup InHandler :
         [s EXCEPT !.pc = pc] \in UploadStates
  OBVIOUS
<1>2. /\ \A b \in BOOLEAN : [s EXCEPT !.guard = b] \in UploadStates
      /\ \A b \in BOOLEAN : [s EXCEPT !.folder = b] \in UploadStates
  OBVIOUS
<1>3. \A e \in Slots \cup {NULL} : [s EXCEPT !.slot = e] \in UploadStates
  OBVIOUS
<1>4. \A n \in Nat : [s EXCEPT !.size = n] \in UploadStates
  OBVIOUS
<1>5. \A n \in 0 .. MaxChunk : [s EXCEPT !.unwritten = n] \in UploadStates
  OBVIOUS
<1>6. \A E \in SUBSET (Slots \cup {NULL}) : [s EXCEPT !.entries = E] \in UploadStates
  OBVIOUS
<1>7. \A pc \in {"idle"} \cup InHandler : [s EXCEPT !.left = pc] \in UploadStates
  OBVIOUS
<1> QED
  BY <1>1, <1>2, <1>3, <1>4, <1>5, <1>6, <1>7

\* A file that is put, and files that are removed.
LEMMA PutFile ==
    ASSUME files \in [DOMAIN files -> Nat], NEW p, NEW n \in Nat
    PROVE  /\ DOMAIN Put(p, n) = DOMAIN files \cup {p}
           /\ Put(p, n) \in [DOMAIN files \cup {p} -> Nat]
BY DEF Put

LEMMA RemoveFiles ==
    ASSUME files \in [DOMAIN files -> Nat], NEW S
    PROVE  /\ DOMAIN Restrict(files, DOMAIN files \ S) = DOMAIN files \ S
           /\ Restrict(files, DOMAIN files \ S) \in [DOMAIN files \ S -> Nat]
BY DEF Restrict

\* The files and directories, the removals and the rest of the state, apart.
FilesTypeOK ==
    /\ files \in [DOMAIN files -> Nat]
    /\ DOMAIN files \subseteq Paths
    /\ \A p \in DOMAIN files : p[2] # NULL => p[1] \in dirs
    /\ dirs \subseteq Uploads

RemovalStates == [pc    : {"none", "running", "done", "stopped", "failed", "lost"},
                  share : Uploads \cup {NULL},
                  seen  : SUBSET Paths]

RemovalTypeOK == removal \in [Uploads \cup Deletes -> RemovalStates]

LEMMA RemovalTypedAs == StorageTypeOK => RemovalTypeOK
BY DEF StorageTypeOK, RemovalTypeOK, RemovalStates

\* A removal that goes on, or ends.
LEMMA RemovalUpdate ==
    ASSUME NEW s \in RemovalStates
    PROVE  /\ \A pc \in {"none", "running", "done", "stopped", "failed", "lost"} :
                 [s EXCEPT !.pc = pc] \in RemovalStates
           /\ \A S \in SUBSET Paths : [s EXCEPT !.seen = S] \in RemovalStates
BY DEF RemovalStates

TaskTypeOK == task \in [Uploads -> [pc : {"none", "pending", "created", "failed"}, dir : BOOLEAN]]

LEMMA CreateType ==
    ASSUME StorageTypeOK, DirectoryInv, NEW u \in Uploads, Create(u)
    PROVE  FilesTypeOK' /\ TaskTypeOK'
<1>0. FilesTypeOK
  BY DEF StorageTypeOK, FilesTypeOK
<1>1. TaskTypeOK'
  BY DEF StorageTypeOK, Create, TaskTypeOK
<1>2. ASSUME UNCHANGED files, dirs \subseteq dirs', dirs' \subseteq Uploads
      PROVE  FilesTypeOK'
  BY <1>0, <1>2 DEF FilesTypeOK
<1>3. ASSUME files' = Put(Target(u), 0), UNCHANGED dirs, upload[u].folder => u \in dirs
      PROVE  FilesTypeOK'
  <2>1. upload[u] \in UploadStates /\ Target(u) \in Paths
    BY DEF StorageTypeOK, UploadStates, Target, Paths
  <2>2. Target(u)[1] = u /\ (Target(u)[2] # NULL => u \in dirs)
    BY <1>3 DEF Target, DirectoryInv, UploadInv
  <2>3. DOMAIN files' = DOMAIN files \cup {Target(u)} /\ files' \in [DOMAIN files' -> Nat]
    BY <1>3, PutFile DEF StorageTypeOK
  <2> QED
    BY <1>0, <1>3, <2>1, <2>2, <2>3 DEF FilesTypeOK
<1>4. \/ UNCHANGED files /\ dirs \subseteq dirs' /\ dirs' \subseteq Uploads
      \/ files' = Put(Target(u), 0) /\ UNCHANGED dirs /\ (upload[u].folder => u \in dirs)
  BY DEF StorageTypeOK, Create
<1> QED
  BY <1>1, <1>2, <1>3, <1>4

LEMMA WriteBackType ==
    ASSUME StorageTypeOK, NEW u \in Uploads, WriteBack(u)
    PROVE  /\ FilesTypeOK' /\ upload' \in [Uploads -> UploadStates]
           /\ DOMAIN files' = DOMAIN files
<1>1. upload[u] \in UploadStates /\ 0 \in 0 .. MaxChunk
  BY StorageAssumption DEF StorageTypeOK
<1>2. upload' \in [Uploads -> UploadStates]
  <2>1. [upload[u] EXCEPT !.unwritten = 0] \in UploadStates
    BY <1>1, UploadUpdate
  <2> QED
    BY <2>1 DEF WriteBack, StorageTypeOK
<1>3. upload[u].unwritten \in Nat
  BY <1>1, StorageAssumption DEF UploadStates
<1>4. DOMAIN files' = DOMAIN files /\ files' \in [DOMAIN files -> Nat]
  BY <1>3 DEF WriteBack, StorageTypeOK
<1> QED
  BY <1>2, <1>4 DEF FilesTypeOK, WriteBack, StorageTypeOK

LEMMA BeginRemovalType ==
    ASSUME StorageTypeOK, NEW r \in Uploads \cup Deletes, NEW u \in Uploads, BeginRemoval(r, u)
    PROVE  RemovalTypeOK'
<1>1. PathsOf(u) \subseteq Paths
  BY DEF PathsOf, StorageTypeOK
<1> QED
  BY <1>1, RemovalTypedAs DEF BeginRemoval, RemovalTypeOK, RemovalStates

LEMMA RemoveType ==
    ASSUME StorageTypeOK, DirectoryInv, NEW r \in Uploads \cup Deletes, Remove(r)
    PROVE  FilesTypeOK' /\ RemovalTypeOK'
<1> DEFINE u == removal[r].share
<1>0. /\ files \in [DOMAIN files -> Nat] /\ DOMAIN files \subseteq Paths
      /\ dirs \subseteq Uploads
      /\ removal[r] \in [pc : {"none", "running", "done", "stopped", "failed", "lost"}, share : Uploads \cup {NULL},
                         seen : SUBSET Paths]
  BY DEF StorageTypeOK
<1>1. ASSUME NEW S, files' = Restrict(files, DOMAIN files \ S), UNCHANGED dirs
      PROVE  FilesTypeOK'
  <2>1. DOMAIN files' = DOMAIN files \ S /\ files' \in [DOMAIN files' -> Nat]
    BY <1>0, <1>1, RemoveFiles
  <2> QED
    BY <1>1, <2>1 DEF FilesTypeOK, StorageTypeOK
<1>2. ASSUME NEW pc \in {"done", "stopped", "failed"}, Ends(r, pc)
      PROVE  RemovalTypeOK'
  BY <1>2, RemovalTypedAs, RemovalUpdate DEF Ends, RemovalTypeOK
<1>3. ASSUME NEW S \in SUBSET Paths, removal' = [removal EXCEPT ![r].seen = S]
      PROVE  RemovalTypeOK'
  BY <1>3, RemovalTypedAs, RemovalUpdate DEF RemovalTypeOK
<1>4. UNCHANGED <<files, dirs>> => FilesTypeOK'
  BY DEF FilesTypeOK, StorageTypeOK
<1>5. CASE RemoveFile(r)
  BY <1>1, <1>2, <1>5 DEF RemoveFile
<1>6. CASE RemoveEntry(r)
  <2>1. PICK p \in removal[r].seen :
           \/ /\ files' = Restrict(files, DOMAIN files \ {p})
              /\ removal' = [removal EXCEPT ![r].seen = removal[r].seen \ {p}]
           \/ /\ \/ removal' = [removal EXCEPT ![r].seen = removal[r].seen \ {p}]
                 \/ Ends(r, "stopped")
              /\ UNCHANGED files
    BY <1>6 DEF RemoveEntry
  <2>2. removal[r].seen \ {p} \in SUBSET Paths
    BY <1>0
  <2> QED
    BY <1>1, <1>2, <1>3, <1>4, <1>6, <2>1, <2>2 DEF RemoveEntry
<1>7. CASE RemoveDir(r)
  <2>1. PathsOf(u) \in SUBSET Paths
    BY <1>0 DEF PathsOf
  <2>2. \/ UNCHANGED <<files, dirs>>
        \/ PathsOf(u) = {} /\ UNCHANGED files /\ dirs' = dirs \ {u}
    BY <1>7 DEF RemoveDir
  <2>3. ASSUME PathsOf(u) = {}, UNCHANGED files, dirs' = dirs \ {u}
        PROVE  FilesTypeOK'
    BY <2>3 DEF FilesTypeOK, StorageTypeOK, PathsOf
  <2>4. \/ Ends(r, "done") \/ Ends(r, "stopped")
        \/ removal' = [removal EXCEPT ![r].seen = PathsOf(u)]
    BY <1>7 DEF RemoveDir
  <2> QED
    BY <1>2, <1>3, <1>4, <2>1, <2>2, <2>3, <2>4
<1>8. CASE RemovalFails(r)
  BY <1>2, <1>4, <1>8 DEF RemovalFails
<1> QED
  BY <1>5, <1>6, <1>7, <1>8 DEF Remove

LEMMA UploadType ==
    ASSUME StorageTypeOK, NEW u \in Uploads, Upload(u)
    PROVE  upload' \in [Uploads -> UploadStates] /\ TaskTypeOK' /\ RemovalTypeOK'
<1> DEFINE s == upload[u]
<1>0. /\ upload \in [Uploads -> UploadStates] /\ s \in UploadStates
      /\ TaskTypeOK /\ RemovalTypeOK
  BY RemovalTypedAs DEF StorageTypeOK, TaskTypeOK
<1>1. ASSUME NEW x \in UploadStates, upload' = [upload EXCEPT ![u] = x]
      PROVE  upload' \in [Uploads -> UploadStates]
  BY <1>0, <1>1
<1>2. UNCHANGED task \/ task' = [task EXCEPT ![u] = NoTask]
         \/ task' = [task EXCEPT ![u] = [pc |-> "pending", dir |-> TRUE]]
         \/ task' = [task EXCEPT ![u] = [pc |-> "pending", dir |-> FALSE]]
      => TaskTypeOK'
  <2>1. ASSUME NEW x \in [pc : {"none", "pending", "created", "failed"}, dir : BOOLEAN],
               task' = [task EXCEPT ![u] = x]
        PROVE  TaskTypeOK'
    BY <1>0, <2>1 DEF TaskTypeOK
  <2>2. UNCHANGED task => TaskTypeOK'
    BY <1>0 DEF TaskTypeOK
  <2>3. /\ NoTask \in [pc : {"none", "pending", "created", "failed"}, dir : BOOLEAN]
        /\ \A b \in BOOLEAN : [pc |-> "pending", dir |-> b]
                 \in [pc : {"none", "pending", "created", "failed"}, dir : BOOLEAN]
    BY DEF NoTask
  <2> QED
    BY <2>1, <2>2, <2>3
<1>3. DropGuard(u) \/ UNCHANGED removal => RemovalTypeOK'
  BY <1>0, BeginRemovalType DEF DropGuard, RemovalTypeOK
<1>4. ASSUME NEW pc \in {"idle", "respond", "stored", "given_up", "crashed"} \cup InHandler
      PROVE  [s EXCEPT !.pc = pc] \in UploadStates
  BY <1>0, UploadUpdate
<1>5. "fields" \in InHandler /\ "mkdir" \in InHandler /\ "creating" \in InHandler /\ "writing" \in InHandler
  BY DEF InHandler
<1>6. ASSUME NEW folder \in BOOLEAN, Begin(u, folder)
      PROVE  /\ upload' \in [Uploads -> UploadStates] /\ TaskTypeOK' /\ RemovalTypeOK'
  <2>1. [[s EXCEPT !.pc = IF folder THEN "mkdir" ELSE "fields"] EXCEPT !.folder = folder] \in UploadStates
    BY <1>4, <1>5, UploadUpdate
  <2>2. upload' = [upload EXCEPT ![u] =
                     [[s EXCEPT !.pc = IF folder THEN "mkdir" ELSE "fields"] EXCEPT !.folder = folder]]
    BY <1>0, <1>6 DEF Begin, UploadStates
  <2> QED
    BY <1>1, <1>2, <1>3, <1>6, <2>1, <2>2 DEF Begin
<1>7. CASE FolderReady(u) \/ FileReady(u)
  <2>1. PICK pc \in {"fields", "writing"} : upload' = [upload EXCEPT ![u].pc = pc, ![u].guard = TRUE]
    BY <1>7 DEF FolderReady, FileReady
  <2>2. [[s EXCEPT !.pc = pc] EXCEPT !.guard = TRUE] \in UploadStates
    BY <1>4, <1>5, UploadUpdate
  <2>3. upload' = [upload EXCEPT ![u] = [[s EXCEPT !.pc = pc] EXCEPT !.guard = TRUE]]
    BY <1>0, <2>1 DEF UploadStates
  <2> QED
    BY <1>1, <1>2, <1>3, <1>7, <2>2, <2>3 DEF FolderReady, FileReady
<1>8. CASE NextFile(u)
  <2>1. PICK e \in Slots \cup {NULL} :
           upload' = [upload EXCEPT ![u].pc = "creating", ![u].slot = e]
    BY <1>8 DEF NextFile
  <2>2. [[s EXCEPT !.pc = "creating"] EXCEPT !.slot = e] \in UploadStates
    BY <1>4, <1>5, UploadUpdate
  <2>3. upload' = [upload EXCEPT ![u] = [[s EXCEPT !.pc = "creating"] EXCEPT !.slot = e]]
    BY <1>0, <2>1 DEF UploadStates
  <2> QED
    BY <1>1, <1>2, <1>3, <1>8, <2>2, <2>3 DEF NextFile
<1>9. CASE WriteChunk(u)
  <2>1. PICK n \in 1 .. MaxChunk :
           upload' = [upload EXCEPT ![u].size = @ + n, ![u].unwritten = n]
    BY <1>9 DEF WriteChunk
  <2>2. s.size + n \in Nat /\ n \in 0 .. MaxChunk
    BY <1>0, StorageAssumption DEF UploadStates
  <2>3. [[s EXCEPT !.size = s.size + n] EXCEPT !.unwritten = n] \in UploadStates
    BY <1>0, <2>2, UploadUpdate
  <2>4. upload' = [upload EXCEPT ![u] = [[s EXCEPT !.size = s.size + n] EXCEPT !.unwritten = n]]
    BY <1>0, <2>1 DEF UploadStates
  <2> QED
    BY <1>1, <1>2, <1>3, <1>9, <2>3, <2>4 DEF WriteChunk
<1>10. CASE FileDone(u)
  <2>1. s.entries \cup {s.slot} \in SUBSET (Slots \cup {NULL})
    BY <1>0 DEF UploadStates
  <2>2. [[s EXCEPT !.pc = "fields"] EXCEPT !.entries = s.entries \cup {s.slot}] \in UploadStates
    BY <1>4, <1>5, <2>1, UploadUpdate
  <2>3. upload' = [upload EXCEPT ![u] = [[s EXCEPT !.pc = "fields"] EXCEPT !.entries = s.entries \cup {s.slot}]]
    BY <1>0, <1>10 DEF FileDone, UploadStates
  <2> QED
    BY <1>1, <1>2, <1>3, <1>10, <2>2, <2>3 DEF FileDone
<1>11. CASE Insert(u)
  <2>1. [[s EXCEPT !.pc = "respond"] EXCEPT !.guard = FALSE] \in UploadStates
    BY <1>4, UploadUpdate
  <2>2. upload' = [upload EXCEPT ![u] = [[s EXCEPT !.pc = "respond"] EXCEPT !.guard = FALSE]]
    BY <1>0, <1>11 DEF Insert, UploadStates
  <2> QED
    BY <1>1, <1>2, <1>3, <1>11, <2>1, <2>2 DEF Insert
<1>12. CASE Respond(u)
  <2>1. [s EXCEPT !.pc = "stored"] \in UploadStates
    BY <1>4
  <2>2. upload' = [upload EXCEPT ![u] = [s EXCEPT !.pc = "stored"]]
    BY <1>0, <1>12 DEF Respond, To, UploadStates
  <2> QED
    BY <1>1, <1>2, <1>3, <1>12, <2>1, <2>2 DEF Respond
<1>13. CASE GiveUp(u)
  <2>1. [[s EXCEPT !.pc = "given_up"] EXCEPT !.left = s.pc] \in UploadStates
    BY <1>4, <1>13, UploadUpdate DEF GiveUp
  <2>2. upload' = [upload EXCEPT ![u] = [[s EXCEPT !.pc = "given_up"] EXCEPT !.left = s.pc]]
    BY <1>0, <1>13 DEF GiveUp, UploadStates
  <2> QED
    BY <1>1, <1>2, <1>3, <1>13, <2>1, <2>2 DEF GiveUp
<1> QED
  BY <1>6, <1>7, <1>8, <1>9, <1>10, <1>11, <1>12, <1>13 DEF Upload

LEMMA DeleteType ==
    ASSUME StorageTypeOK, NEW d \in Deletes, DeleteRow(d) \/ \E u \in Uploads : Load(d, u),
           DirectoryInv
    PROVE  /\ rows' \subseteq rows /\ UNCHANGED files
           /\ delete' \in [Deletes -> [pc    : {"idle", "loaded", "removing", "kept", "failed"},
                                       share : Uploads \cup {NULL}]]
           /\ RemovalTypeOK'
<1>1. /\ rows' \subseteq rows /\ UNCHANGED files
      /\ delete' \in [Deletes -> [pc    : {"idle", "loaded", "removing", "kept", "failed"},
                                  share : Uploads \cup {NULL}]]
  <2>1. CASE DeleteRow(d)
    BY <2>1 DEF DeleteRow, StorageTypeOK
  <2>2. ASSUME NEW u \in Uploads, Load(d, u)
        PROVE  /\ rows' \subseteq rows /\ UNCHANGED files
               /\ delete' \in [Deletes -> [pc    : {"idle", "loaded", "removing", "kept", "failed"},
                                           share : Uploads \cup {NULL}]]
    BY <2>2 DEF Load, StorageTypeOK
  <2> QED
    BY <2>1, <2>2
<1>2. CASE UNCHANGED removal
  BY <1>1, <1>2, RemovalTypedAs DEF StorageTypeOK, RemovalTypeOK
<1>3. CASE BeginRemoval(d, delete[d].share) /\ delete[d].pc = "loaded"
  <2>1. delete[d].share \in Uploads
    BY <1>3 DEF DirectoryInv, RemovalInv
  <2> QED
    BY <1>1, <1>3, <2>1, BeginRemovalType
<1> QED
  BY <1>2, <1>3 DEF DeleteRow, Load

LEMMA CrashStorageType ==
    ASSUME StorageTypeOK, CrashStorage
    PROVE  StorageTypeOK'
<1>1. ASSUME NEW u \in Uploads
      PROVE  upload'[u] \in UploadStates
  <2>1. upload[u] \in UploadStates /\ 0 \in 0 .. MaxChunk
    BY StorageAssumption DEF StorageTypeOK
  <2>2. /\ [upload[u] EXCEPT !.unwritten = 0] \in UploadStates
        /\ [[[upload[u] EXCEPT !.pc = "crashed"] EXCEPT !.guard = FALSE] EXCEPT !.unwritten = 0] \in UploadStates
    BY <2>1 DEF UploadStates
  <2> QED
    BY <2>2 DEF CrashStorage, CrashedUploads
<1>2. upload' \in [Uploads -> UploadStates]
  BY <1>1 DEF CrashStorage, CrashedUploads
<1>3. task' \in [Uploads -> [pc : {"none", "pending", "created", "failed"}, dir : BOOLEAN]]
  BY DEF CrashStorage, NoTask
<1>4. RemovalTypeOK'
  BY RemovalTypedAs, RemovalUpdate DEF CrashStorage, RemovalTypeOK
<1>5. delete' \in [Deletes -> [pc    : {"idle", "loaded", "removing", "kept", "failed"},
                               share : Uploads \cup {NULL}]]
  BY DEF CrashStorage, StorageTypeOK
<1>6. crashes' \in 0 .. MaxCrashes
  BY StorageAssumption DEF CrashStorage, StorageTypeOK
<1> QED
  BY <1>2, <1>3, <1>4, <1>5, <1>6
  DEF CrashStorage, StorageTypeOK, RemovalTypeOK, RemovalStates

\* Every step of the storage directory keeps the types.
LEMMA StorageTypeStep ==
    ASSUME StorageTypeOK, DirectoryInv, [StorageNext]_storageVars
    PROVE  StorageTypeOK'
<1> USE DEF FilesTypeOK, TaskTypeOK, RemovalTypeOK, RemovalStates
<1>1. ASSUME NEW u \in Uploads, Upload(u), UNCHANGED <<delete, crashes>>
      PROVE  StorageTypeOK'
  <2>1. UNCHANGED <<files, dirs>> /\ rows' \subseteq Uploads
    BY <1>1 DEF Upload, Begin, FolderReady, NextFile, FileReady, WriteChunk, FileDone, Insert,
                Respond, GiveUp, StorageTypeOK
  <2> QED
    BY <1>1, <2>1, UploadType DEF StorageTypeOK
<1>2. ASSUME NEW u \in Uploads, Create(u), UNCHANGED <<rows, delete, crashes>>
      PROVE  StorageTypeOK'
  <2>1. UNCHANGED <<upload, removal>>
    BY <1>2 DEF Create
  <2> QED
    BY <1>2, <2>1, CreateType DEF StorageTypeOK
<1>3. ASSUME NEW u \in Uploads, WriteBack(u), UNCHANGED <<rows, delete, crashes>>
      PROVE  StorageTypeOK'
  <2>1. UNCHANGED <<task, removal>>
    BY <1>3 DEF WriteBack
  <2> QED
    BY <1>3, <2>1, WriteBackType DEF StorageTypeOK
<1>4. ASSUME NEW r \in Uploads \cup Deletes, Remove(r), UNCHANGED <<rows, delete, crashes>>
      PROVE  StorageTypeOK'
  <2>1. UNCHANGED <<upload, task>>
    BY <1>4 DEF Remove
  <2> QED
    BY <1>4, <2>1, RemoveType DEF StorageTypeOK
<1>5. ASSUME NEW d \in Deletes, DeleteRow(d) \/ \E u \in Uploads : Load(d, u),
             UNCHANGED <<dirs, upload, task, crashes>>
      PROVE  StorageTypeOK'
  BY <1>5, DeleteType DEF StorageTypeOK
<1>6. CASE UNCHANGED storageVars
  BY <1>6 DEF storageVars, StorageTypeOK
<1> QED
  BY <1>1, <1>2, <1>3, <1>4, <1>5, <1>6, CrashStorageType DEF StorageNext, StorageStep

----------------------------------------------------------------------------
(* What is on the disk, and who is to remove it.                           *)

\* What a create handler does concerns its own upload only.
LEMMA UploadLocal ==
    ASSUME StorageTypeOK, DirectoryInv, NEW u \in Uploads, Upload(u)
    PROVE  /\ UNCHANGED <<files, dirs>>
           /\ \A w \in Uploads \ {u} : /\ upload'[w] = upload[w] /\ task'[w] = task[w]
                                       /\ removal'[w] = removal[w]
           /\ \A d \in Deletes : removal'[d] = removal[d]
           /\ rows' \subseteq rows \cup {u}
<1>0. u \notin Deletes
  BY StorageAssumption
<1>1. DropGuard(u) \/ UNCHANGED removal
  BY DEF Upload, Begin, FolderReady, NextFile, FileReady, WriteChunk, FileDone, Insert,
         Respond, GiveUp
<1>2. /\ \A w \in Uploads \ {u} : removal'[w] = removal[w]
      /\ \A d \in Deletes : removal'[d] = removal[d]
  BY <1>0, <1>1 DEF DropGuard, BeginRemoval, StorageTypeOK
<1>3. /\ UNCHANGED <<files, dirs>> /\ rows' \subseteq rows \cup {u}
      /\ \A w \in Uploads \ {u} : upload'[w] = upload[w] /\ task'[w] = task[w]
  <2>1. CASE \E folder \in BOOLEAN : Begin(u, folder)
    BY <2>1 DEF Begin, StorageTypeOK
  <2>2. CASE FolderReady(u) \/ FileReady(u) \/ NextFile(u)
    BY <2>2 DEF FolderReady, FileReady, NextFile, StorageTypeOK
  <2>3. CASE WriteChunk(u) \/ FileDone(u) \/ Insert(u)
    BY <2>3 DEF WriteChunk, FileDone, Insert, StorageTypeOK
  <2>4. CASE Respond(u) \/ GiveUp(u)
    BY <2>4 DEF Respond, GiveUp, To, StorageTypeOK
  <2> QED
    BY <2>1, <2>2, <2>3, <2>4 DEF Upload
<1> QED
  BY <1>2, <1>3

\* What becomes of the upload itself.
LEMMA UploadOwn ==
    ASSUME StorageTypeOK, DirectoryInv, NEW u \in Uploads, Upload(u)
    PROVE  /\ (UploadInv(u) /\ GivenUpInv(u))'
           /\ upload[u].pc \notin {"given_up", "stored", "crashed"}
           /\ upload[u].pc = "respond" => upload'[u].pc = "stored"
           /\ u \in rows' => u \in rows \/ upload'[u].pc = "respond"
           /\ upload'[u].folder = upload[u].folder \/ PathsOf(u) = {}
           /\ removal'[u].pc # "none" => removal'[u].share = u /\ upload'[u].pc = "given_up"
<1> DEFINE s == upload[u]
<1>0. /\ upload \in [Uploads -> UploadStates] /\ s \in UploadStates
      /\ UploadInv(u) /\ GivenUpInv(u)
      /\ removal[u].pc # "none" => removal[u].share = u /\ s.pc = "given_up"
      /\ task \in [Uploads -> [pc : {"none", "pending", "created", "failed"}, dir : BOOLEAN]]
      /\ removal \in [Uploads \cup Deletes -> [pc    : {"none", "running", "done", "stopped", "failed", "lost"},
                                               share : Uploads \cup {NULL},
                                               seen  : SUBSET Paths]]
  BY DEF StorageTypeOK, DirectoryInv, RemovalInv
<1>1. PathsOf(u)' = PathsOf(u) /\ UNCHANGED dirs
  BY UploadLocal DEF PathsOf
<1>2. ASSUME NEW folder \in BOOLEAN, Begin(u, folder)
      PROVE  /\ (UploadInv(u) /\ GivenUpInv(u))'
             /\ s.pc = "idle" /\ u \in rows' => u \in rows
             /\ PathsOf(u) = {} /\ removal'[u].pc = "none"
  <2>1. /\ s.pc = "idle" /\ ~s.guard /\ s.entries = {} /\ s.slot = NULL /\ task[u].pc = "none"
        /\ PathsOf(u) = {} /\ u \notin dirs /\ removal'[u].pc = "none" /\ rows' = rows
    BY <1>0, <1>2 DEF Begin, UploadInv
  <2>2. /\ upload'[u].pc = IF folder THEN "mkdir" ELSE "fields"
        /\ upload'[u].folder = folder /\ upload'[u].guard = s.guard
        /\ upload'[u].slot = s.slot /\ upload'[u].entries = s.entries
    BY <1>0, <1>2 DEF Begin, UploadStates
  <2>3. task'[u] = IF folder THEN [pc |-> "pending", dir |-> TRUE] ELSE task[u]
    BY <1>0, <1>2 DEF Begin
  <2> QED
    BY <1>0, <1>1, <2>1, <2>2, <2>3 DEF UploadInv, GivenUpInv, Gone
<1>3. ASSUME s.pc \in InHandler, UNCHANGED <<rows, removal>>,
             upload'[u].folder = s.folder, upload'[u].pc \in InHandler, UploadInv(u)'
      PROVE  /\ (UploadInv(u) /\ GivenUpInv(u))'
             /\ s.pc \in InHandler /\ u \in rows' => u \in rows
             /\ upload'[u].folder = s.folder /\ removal'[u].pc = "none"
  BY <1>0, <1>3 DEF GivenUpInv, InHandler
<1>4. CASE FolderReady(u)
  <2>1. /\ upload'[u].pc = "fields" /\ upload'[u].guard = TRUE /\ upload'[u].folder = s.folder
        /\ upload'[u].slot = s.slot /\ upload'[u].entries = s.entries
        /\ task'[u].pc = "none" /\ s.pc = "mkdir" /\ UNCHANGED <<rows, removal>>
    BY <1>0, <1>4 DEF FolderReady, UploadStates, NoTask
  <2>2. UploadInv(u)'
    BY <1>0, <1>1, <2>1 DEF UploadInv
  <2> QED
    BY <1>3, <2>1, <2>2 DEF InHandler
<1>5. CASE NextFile(u)
  <2>1. PICK e \in IF s.folder THEN Slots ELSE {NULL} :
            upload' = [upload EXCEPT ![u].pc = "creating", ![u].slot = e]
    BY <1>5 DEF NextFile
  <2>2. /\ upload'[u].pc = "creating" /\ upload'[u].guard = s.guard /\ upload'[u].folder = s.folder
        /\ upload'[u].slot = e /\ upload'[u].entries = s.entries
        /\ task'[u] = [pc |-> "pending", dir |-> FALSE]
        /\ s.pc = "fields" /\ UNCHANGED <<rows, removal>>
    BY <1>0, <1>5, <2>1 DEF NextFile, UploadStates
  <2>3. s.folder => e # NULL
    BY <2>1, StorageAssumption
  <2>4. ~s.folder => e = NULL
    BY <2>1
  <2>5. UploadInv(u)'
    BY <1>0, <1>1, <2>2, <2>3, <2>4 DEF UploadInv
  <2> QED
    BY <1>3, <2>2, <2>5 DEF InHandler
<1>6. CASE FileReady(u)
  <2>1. /\ upload'[u].pc = "writing" /\ upload'[u].guard = TRUE /\ upload'[u].folder = s.folder
        /\ upload'[u].slot = s.slot /\ upload'[u].entries = s.entries
        /\ task'[u].pc = "none" /\ s.pc = "creating" /\ UNCHANGED <<rows, removal>>
    BY <1>0, <1>6 DEF FileReady, UploadStates, NoTask
  <2>2. UploadInv(u)'
    BY <1>0, <1>1, <2>1 DEF UploadInv
  <2> QED
    BY <1>3, <2>1, <2>2 DEF InHandler
<1>7. CASE WriteChunk(u)
  <2>1. /\ upload'[u].pc = "writing" /\ upload'[u].guard = s.guard /\ upload'[u].folder = s.folder
        /\ upload'[u].slot = s.slot /\ upload'[u].entries = s.entries
        /\ task'[u] = task[u] /\ s.pc = "writing" /\ UNCHANGED <<rows, removal>>
    BY <1>0, <1>7 DEF WriteChunk, UploadStates
  <2>2. UploadInv(u)'
    BY <1>0, <1>1, <2>1 DEF UploadInv
  <2> QED
    BY <1>3, <2>1, <2>2 DEF InHandler
<1>8. CASE FileDone(u)
  <2>1. /\ upload'[u].pc = "fields" /\ upload'[u].guard = s.guard /\ upload'[u].folder = s.folder
        /\ upload'[u].slot = s.slot /\ upload'[u].entries = s.entries \cup {s.slot}
        /\ task'[u] = task[u] /\ s.pc = "writing" /\ UNCHANGED <<rows, removal>>
    BY <1>0, <1>8 DEF FileDone, UploadStates
  <2>2. UploadInv(u)'
    BY <1>0, <1>1, <2>1 DEF UploadInv
  <2> QED
    BY <1>3, <2>1, <2>2 DEF InHandler
<1>9. CASE Insert(u)
  <2>1. /\ upload'[u].pc = "respond" /\ upload'[u].guard = FALSE /\ upload'[u].folder = s.folder
        /\ upload'[u].slot = s.slot /\ upload'[u].entries = s.entries
        /\ task'[u] = task[u] /\ s.pc = "fields" /\ UNCHANGED removal
    BY <1>0, <1>9 DEF Insert, UploadStates
  <2>2. UploadInv(u)'
    BY <1>0, <1>1, <2>1 DEF UploadInv
  <2> QED
    BY <1>0, <2>1, <2>2 DEF GivenUpInv
<1>10. CASE Respond(u)
  <2>1. /\ upload'[u].pc = "stored" /\ upload'[u].guard = s.guard /\ upload'[u].folder = s.folder
        /\ upload'[u].slot = s.slot /\ upload'[u].entries = s.entries
        /\ task'[u] = task[u] /\ s.pc = "respond" /\ rows' = rows
    BY <1>0, <1>10 DEF Respond, To, UploadStates
  <2>2. UNCHANGED removal
    BY <1>0, <1>10, <2>1 DEF Respond, DropGuard, UploadInv
  <2>3. UploadInv(u)'
    BY <1>0, <1>1, <2>1 DEF UploadInv
  <2> QED
    BY <1>0, <2>1, <2>2, <2>3 DEF GivenUpInv
<1>11. CASE GiveUp(u)
  <2>1. /\ upload'[u].pc = "given_up" /\ upload'[u].guard = s.guard /\ upload'[u].folder = s.folder
        /\ upload'[u].slot = s.slot /\ upload'[u].entries = s.entries /\ upload'[u].left = s.pc
        /\ task'[u] = task[u] /\ s.pc \in InHandler /\ rows' = rows
    BY <1>0, <1>11 DEF GiveUp, UploadStates
  <2>2. removal[u].pc = "none"
    BY <1>0, <2>1 DEF InHandler
  <2>3. \/ s.guard /\ removal'[u] = [pc |-> "running", share |-> u, seen |-> PathsOf(u)]
        \/ ~s.guard /\ removal' = removal
    BY <1>0, <1>11 DEF GiveUp, DropGuard, BeginRemoval
  <2>4. UploadInv(u)'
    BY <1>0, <1>1, <2>1 DEF UploadInv, InHandler
  <2>5. GivenUpInv(u)'
    BY <1>0, <1>1, <2>1, <2>2, <2>3 DEF GivenUpInv, UploadInv, InHandler, Gone
  <2> QED
    BY <2>1, <2>2, <2>3, <2>4, <2>5 DEF InHandler
<1>12. CASE \E folder \in BOOLEAN : Begin(u, folder)
  <2>1. PICK folder \in BOOLEAN : Begin(u, folder)
    BY <1>12
  <2>2. s.pc = "idle"
    BY <2>1 DEF Begin
  <2> QED
    BY <1>2, <2>1, <2>2
<1> QED
  BY <1>4, <1>5, <1>6, <1>7, <1>8, <1>9, <1>10, <1>11, <1>12 DEF Upload

LEMMA BeginRemovalSeen ==
    ASSUME StorageTypeOK, SeenInv, NEW r \in Uploads \cup Deletes, NEW u, BeginRemoval(r, u)
    PROVE  SeenInv'
BY DEF BeginRemoval, SeenInv, StorageTypeOK, PathsOf

LEMMA UploadStep ==
    ASSUME StorageTypeOK, DirectoryInv, NEW u \in Uploads, Upload(u), UNCHANGED delete
    PROVE  DirectoryInv'
<1>1. ASSUME NEW w \in Uploads
      PROVE  (UploadInv(w) /\ GivenUpInv(w))'
  <2>1. CASE w = u
    BY <2>1, UploadOwn
  <2>2. CASE w # u
    <3>1. /\ upload'[w] = upload[w] /\ task'[w] = task[w] /\ removal'[w] = removal[w]
          /\ PathsOf(w)' = PathsOf(w) /\ UNCHANGED dirs
      BY <2>2, UploadLocal DEF PathsOf
    <3> QED
      BY <3>1 DEF DirectoryInv, UploadInv, GivenUpInv, Gone
  <2> QED
    BY <2>1, <2>2
<1>2. ASSUME NEW p \in DOMAIN files', ~upload'[p[1]].folder
      PROVE  p[2] = NULL
  <2>1. p \in DOMAIN files /\ p[1] \in Uploads
    BY UploadLocal DEF StorageTypeOK, Paths
  <2>2. upload'[p[1]].folder = upload[p[1]].folder
    <3>1. CASE p[1] = u
      <4>1. PathsOf(u) # {}
        BY <2>1, <3>1 DEF PathsOf
      <4> QED
        BY <3>1, <4>1, UploadOwn
    <3>2. CASE p[1] # u
      BY <2>1, <3>2, UploadLocal
    <3> QED
      BY <3>1, <3>2
  <2> QED
    BY <1>2, <2>1, <2>2 DEF DirectoryInv
<1>3. ASSUME NEW w \in Uploads, upload[w].pc \in Entered
      PROVE  upload'[w].pc \in Entered
  BY <1>3, UploadOwn, UploadLocal DEF Entered
<1>4. RemovalInv'
  <2>1. rows' \subseteq {w \in Uploads : upload'[w].pc \in Entered}
    BY <1>3, UploadLocal, UploadOwn DEF DirectoryInv, RemovalInv, Entered
  <2>2. ASSUME NEW w \in Uploads, removal'[w].pc # "none"
        PROVE  removal'[w].share = w /\ upload'[w].pc = "given_up"
    BY <2>2, UploadLocal, UploadOwn DEF DirectoryInv, RemovalInv
  <2>3. ASSUME NEW d \in Deletes
        PROVE  /\ delete'[d].pc # "idle" =>
                    delete'[d].share \in Uploads /\ upload'[delete'[d].share].pc \in Entered
               /\ removal'[d].pc # "none" =>
                    removal'[d].share \in Uploads /\ upload'[removal'[d].share].pc \in Entered
    BY <1>3, UploadLocal DEF DirectoryInv, RemovalInv
  <2> QED
    BY <2>1, <2>2, <2>3 DEF RemovalInv
<1>5. SeenInv'
  <2>1. DropGuard(u) \/ UNCHANGED removal
    BY DEF Upload, Begin, FolderReady, NextFile, FileReady, WriteChunk, FileDone, Insert,
           Respond, GiveUp
  <2>2. UNCHANGED removal => SeenInv'
    BY DEF DirectoryInv, SeenInv
  <2> QED
    BY <2>1, <2>2, BeginRemovalSeen DEF DropGuard, DirectoryInv
<1> QED
  BY <1>1, <1>2, <1>4, <1>5 DEF DirectoryInv

LEMMA CreateStep ==
    ASSUME StorageTypeOK, DirectoryInv, NEW u \in Uploads, Create(u), UNCHANGED <<rows, delete>>
    PROVE  DirectoryInv'
<1>0. /\ task \in [Uploads -> [pc : {"none", "pending", "created", "failed"}, dir : BOOLEAN]]
      /\ files \in [DOMAIN files -> Nat]
      /\ UNCHANGED <<upload, removal>> /\ task[u].pc = "pending"
  BY DEF StorageTypeOK, Create
<1>1. /\ \A w \in Uploads \ {u} : task'[w] = task[w]
      /\ task'[u].pc \in {"created", "failed"} /\ task'[u].dir = task[u].dir
  BY <1>0 DEF Create
<1>2. DOMAIN files' = DOMAIN files \/ (DOMAIN files' = DOMAIN files \cup {Target(u)} /\ ~task[u].dir)
  BY <1>0, PutFile DEF Create
<1>3. /\ dirs' = dirs \/ (dirs' = dirs \cup {u} /\ task[u].dir)
  BY DEF Create
<1>4. ASSUME NEW w \in Uploads, w # u
      PROVE  PathsOf(w)' = PathsOf(w) /\ (w \in dirs' <=> w \in dirs)
  BY <1>2, <1>3, <1>4 DEF PathsOf, Target
<1>5. ASSUME NEW w \in Uploads
      PROVE  (UploadInv(w) /\ GivenUpInv(w))'
  <2>1. CASE w = u
    BY <1>0, <1>1, <1>3, <2>1 DEF DirectoryInv, UploadInv, GivenUpInv, Gone
  <2>2. CASE w # u
    BY <1>0, <1>1, <1>4, <2>2 DEF DirectoryInv, UploadInv, GivenUpInv, Gone
  <2> QED
    BY <2>1, <2>2
<1>6. ASSUME NEW p \in DOMAIN files', ~upload'[p[1]].folder
      PROVE  p[2] = NULL
  <2>1. CASE p \in DOMAIN files
    BY <1>0, <1>6, <2>1 DEF DirectoryInv
  <2>2. CASE p = Target(u)
    BY <1>0, <1>6, <2>2 DEF Target, DirectoryInv, UploadInv
  <2> QED
    BY <1>2, <1>6, <2>1, <2>2
<1>7. RemovalInv' /\ SeenInv'
  BY <1>0 DEF DirectoryInv, RemovalInv, SeenInv
<1> QED
  BY <1>5, <1>6, <1>7 DEF DirectoryInv

LEMMA WriteBackStep ==
    ASSUME StorageTypeOK, DirectoryInv, NEW u \in Uploads, WriteBack(u), UNCHANGED <<rows, delete>>
    PROVE  DirectoryInv'
<1>1. /\ DOMAIN files' = DOMAIN files /\ UNCHANGED <<dirs, task, removal>>
      /\ upload \in [Uploads -> UploadStates]
  BY WriteBackType DEF WriteBack, StorageTypeOK
<1>2. ASSUME NEW w \in Uploads
      PROVE  /\ upload'[w].pc = upload[w].pc /\ upload'[w].folder = upload[w].folder
             /\ upload'[w].guard = upload[w].guard /\ upload'[w].slot = upload[w].slot
             /\ upload'[w].entries = upload[w].entries /\ upload'[w].left = upload[w].left
             /\ PathsOf(w)' = PathsOf(w)
  BY <1>1 DEF WriteBack, UploadStates, PathsOf
<1>3. ASSUME NEW w \in Uploads
      PROVE  (UploadInv(w) /\ GivenUpInv(w))'
  BY <1>1, <1>2 DEF DirectoryInv, UploadInv, GivenUpInv, Gone
<1>4. \A p \in DOMAIN files' : ~upload'[p[1]].folder => p[2] = NULL
  BY <1>1, <1>2 DEF DirectoryInv, StorageTypeOK, Paths
<1>5. RemovalInv' /\ SeenInv'
  BY <1>1, <1>2 DEF DirectoryInv, RemovalInv, SeenInv
<1> QED
  BY <1>3, <1>4, <1>5 DEF DirectoryInv

LEMMA DeleteStep ==
    ASSUME StorageTypeOK, DirectoryInv, NEW d \in Deletes,
           DeleteRow(d) \/ \E u \in Uploads : Load(d, u),
           UNCHANGED <<dirs, upload, task>>
    PROVE  DirectoryInv'
<1>0. /\ d \notin Uploads /\ rows' \subseteq rows /\ UNCHANGED files
      /\ delete \in [Deletes -> [pc    : {"idle", "loaded", "removing", "kept", "failed"},
                                 share : Uploads \cup {NULL}]]
      /\ removal \in [Uploads \cup Deletes -> [pc    : {"none", "running", "done", "stopped", "failed", "lost"},
                                               share : Uploads \cup {NULL},
                                               seen  : SUBSET Paths]]
  BY StorageAssumption, DeleteType DEF StorageTypeOK
<1>1. /\ \A e \in Deletes \ {d} : delete'[e] = delete[e]
      /\ delete'[d].share \in Uploads /\ upload[delete'[d].share].pc \in Entered
  <2>1. CASE DeleteRow(d)
    BY <1>0, <2>1 DEF DeleteRow, DirectoryInv, RemovalInv
  <2>2. ASSUME NEW u \in Uploads, Load(d, u)
        PROVE  /\ \A e \in Deletes \ {d} : delete'[e] = delete[e]
               /\ delete'[d].share = u /\ upload[u].pc \in Entered
    BY <1>0, <2>2 DEF Load, DirectoryInv, RemovalInv
  <2> QED
    BY <2>1, <2>2
<1>2. /\ \A r \in (Uploads \cup Deletes) \ {d} : removal'[r] = removal[r]
      /\ removal'[d] = removal[d] \/ (delete[d].pc = "loaded" /\ removal'[d].share = delete[d].share)
  BY <1>0 DEF DeleteRow, Load, BeginRemoval
<1>3. \A w \in Uploads : (UploadInv(w) /\ GivenUpInv(w))'
  <2>1. \A w \in Uploads : removal'[w] = removal[w] /\ PathsOf(w)' = PathsOf(w)
    BY <1>0, <1>2 DEF PathsOf
  <2> QED
    BY <2>1 DEF DirectoryInv, UploadInv, GivenUpInv, Gone
<1>4. RemovalInv'
  <2>1. rows' \subseteq {w \in Uploads : upload'[w].pc \in Entered}
    BY <1>0 DEF DirectoryInv, RemovalInv
  <2>2. \A w \in Uploads : removal'[w].pc # "none" =>
            removal'[w].share = w /\ upload'[w].pc = "given_up"
    BY <1>0, <1>2 DEF DirectoryInv, RemovalInv
  <2>3. ASSUME NEW e \in Deletes
        PROVE  /\ delete'[e].pc # "idle" =>
                    delete'[e].share \in Uploads /\ upload'[delete'[e].share].pc \in Entered
               /\ removal'[e].pc # "none" =>
                    removal'[e].share \in Uploads /\ upload'[removal'[e].share].pc \in Entered
    BY <1>0, <1>1, <1>2 DEF DirectoryInv, RemovalInv
  <2> QED
    BY <2>1, <2>2, <2>3 DEF RemovalInv
<1>5. SeenInv'
  <2>1. UNCHANGED removal => SeenInv'
    BY DEF DirectoryInv, SeenInv
  <2> QED
    BY <2>1, BeginRemovalSeen DEF DeleteRow, Load, DirectoryInv
<1> QED
  BY <1>0, <1>3, <1>4, <1>5 DEF DirectoryInv

LEMMA CrashStorageStep ==
    ASSUME StorageTypeOK, DirectoryInv, CrashStorage
    PROVE  DirectoryInv'
<1>0. /\ upload \in [Uploads -> UploadStates] /\ UNCHANGED <<files, dirs, rows>>
      /\ \A w \in Uploads : task'[w].pc = "none" /\ PathsOf(w)' = PathsOf(w)
  BY DEF StorageTypeOK, CrashStorage, NoTask, PathsOf
<1>1. ASSUME NEW w \in Uploads
      PROVE  /\ upload'[w].folder = upload[w].folder /\ upload'[w].slot = upload[w].slot
             /\ upload'[w].entries = upload[w].entries /\ upload'[w].left = upload[w].left
             /\ \/ upload'[w].pc = upload[w].pc /\ upload'[w].guard = upload[w].guard
                   /\ upload[w].pc \notin InHandler \cup {"respond"}
                \/ upload'[w].pc = "crashed" /\ upload'[w].guard = FALSE
                   /\ upload[w].pc \in InHandler \cup {"respond"}
  BY <1>0 DEF CrashStorage, CrashedUploads, UploadStates
<1>2. ASSUME NEW r \in Uploads \cup Deletes
      PROVE  /\ removal'[r].share = removal[r].share /\ removal'[r].seen = removal[r].seen
             /\ \/ removal[r].pc = "running" /\ removal'[r].pc = "lost"
                \/ removal[r].pc # "running" /\ removal'[r] = removal[r]
  BY DEF CrashStorage, StorageTypeOK
<1>3. ASSUME NEW d \in Deletes
      PROVE  delete'[d].share = delete[d].share /\ (delete[d].pc = "idle" => delete'[d].pc = "idle")
  BY DEF CrashStorage, StorageTypeOK
<1>4. ASSUME NEW w \in Uploads
      PROVE  UploadInv(w)'
  <2>1. task'[w].pc = "none" /\ PathsOf(w)' = PathsOf(w) /\ dirs' = dirs /\ UploadInv(w)
    BY <1>0 DEF DirectoryInv
  <2>2. CASE upload'[w].pc = "crashed" /\ upload'[w].guard = FALSE
    BY <1>1, <2>1, <2>2 DEF UploadInv
  <2>3. CASE upload'[w].pc = upload[w].pc /\ upload'[w].guard = upload[w].guard
    BY <1>1, <2>1, <2>3 DEF UploadInv
  <2> QED
    BY <1>1, <2>2, <2>3
<1>5. ASSUME NEW w \in Uploads
      PROVE  GivenUpInv(w)'
  <2>1. PathsOf(w)' = PathsOf(w) /\ dirs' = dirs /\ GivenUpInv(w)
    BY <1>0 DEF DirectoryInv
  <2>2. CASE upload'[w].pc = "crashed"
    BY <2>2 DEF GivenUpInv
  <2>3. CASE upload'[w].pc = upload[w].pc
    BY <1>1, <1>2, <2>1, <2>3 DEF GivenUpInv, Gone
  <2> QED
    BY <1>1, <2>2, <2>3
<1>6. \A p \in DOMAIN files' : ~upload'[p[1]].folder => p[2] = NULL
  BY <1>0, <1>1 DEF DirectoryInv, StorageTypeOK, Paths
<1>7. RemovalInv'
  <2>1. \A w \in Uploads : upload[w].pc \in Entered => upload'[w].pc \in Entered
    BY <1>1 DEF Entered
  <2>2. rows' \subseteq {w \in Uploads : upload'[w].pc \in Entered}
    BY <1>0, <2>1 DEF DirectoryInv, RemovalInv
  <2>3. \A w \in Uploads : removal'[w].pc # "none" =>
            removal'[w].share = w /\ upload'[w].pc = "given_up"
    <3> SUFFICES ASSUME NEW w \in Uploads, removal'[w].pc # "none"
                 PROVE  removal'[w].share = w /\ upload'[w].pc = "given_up"
      OBVIOUS
    <3>1. removal[w].pc # "none" /\ removal'[w].share = removal[w].share
      BY <1>2
    <3>2. removal[w].share = w /\ upload[w].pc = "given_up"
      BY <3>1 DEF DirectoryInv, RemovalInv
    <3>3. upload[w].pc \notin InHandler \cup {"respond"}
      BY <3>2 DEF InHandler
    <3> QED
      BY <1>1, <3>1, <3>2, <3>3
  <2>4. \A d \in Deletes :
          /\ delete'[d].pc # "idle" =>
                delete'[d].share \in Uploads /\ upload'[delete'[d].share].pc \in Entered
          /\ removal'[d].pc # "none" =>
                removal'[d].share \in Uploads /\ upload'[removal'[d].share].pc \in Entered
    BY <1>2, <1>3, <2>1 DEF DirectoryInv, RemovalInv
  <2> QED
    BY <2>2, <2>3, <2>4 DEF RemovalInv
<1>8. SeenInv'
  BY <1>2 DEF DirectoryInv, SeenInv
<1> QED
  BY <1>4, <1>5, <1>6, <1>7, <1>8 DEF DirectoryInv

\* What a removal of u that has seen S does: nothing to another upload.
RemovalEffect(r, u, S) ==
    /\ UNCHANGED <<upload, task>> /\ removal[r].pc = "running"
    /\ \A q \in (Uploads \cup Deletes) \ {r} : removal'[q] = removal[q]
    /\ removal'[r].share = u
    /\ \/ /\ ~upload[u].folder /\ UNCHANGED dirs
          /\ files' = Restrict(files, DOMAIN files \ {<<u, NULL>>})
          /\ removal'[r].pc = "done" /\ removal'[r].seen = S
       \/ \E p \in S :
             /\ upload[u].folder /\ p \in DOMAIN files /\ UNCHANGED dirs
             /\ files' = Restrict(files, DOMAIN files \ {p})
             /\ removal'[r].pc = "running" /\ removal'[r].seen = S \ {p}
       \/ \E p \in S :
             /\ upload[u].folder /\ p \notin DOMAIN files /\ UNCHANGED <<dirs, files>>
             /\ \/ removal'[r].pc = "stopped" /\ removal'[r].seen = S
                \/ removal'[r].pc = "running" /\ removal'[r].seen = S \ {p}
       \/ /\ upload[u].folder /\ S = {} /\ UNCHANGED files /\ dirs' = dirs \ {u}
          /\ removal'[r].pc = "done" /\ removal'[r].seen = {} /\ PathsOf(u) = {}
       \/ /\ upload[u].folder /\ S = {} /\ UNCHANGED <<dirs, files>> /\ PathsOf(u) # {}
          /\ \/ removal'[r].pc = "running" /\ removal'[r].seen = PathsOf(u)
             \/ removal'[r].pc = "stopped" /\ removal'[r].seen = {}
       \/ /\ UNCHANGED <<dirs, files>>
          /\ removal'[r].pc = "failed" /\ removal'[r].seen = S

LEMMA RemoveEffect ==
    ASSUME StorageTypeOK, DirectoryInv, NEW r \in Uploads \cup Deletes, Remove(r),
           NEW u \in Uploads, removal[r].share = u, NEW S, removal[r].seen = S
    PROVE  RemovalEffect(r, u, S)
<1>0. removal \in [Uploads \cup Deletes -> [pc    : {"none", "running", "done", "stopped", "failed", "lost"},
                                            share : Uploads \cup {NULL},
                                            seen  : SUBSET Paths]]
  BY DEF StorageTypeOK
<1>1. ASSUME NEW pc, Ends(r, pc)
      PROVE  /\ \A q \in (Uploads \cup Deletes) \ {r} : removal'[q] = removal[q]
             /\ removal'[r].share = u /\ removal'[r].pc = pc /\ removal'[r].seen = S
  BY <1>0, <1>1 DEF Ends
<1>2. ASSUME NEW T, removal' = [removal EXCEPT ![r].seen = T], removal[r].pc = "running"
      PROVE  /\ \A q \in (Uploads \cup Deletes) \ {r} : removal'[q] = removal[q]
             /\ removal'[r].share = u /\ removal'[r].pc = "running" /\ removal'[r].seen = T
  BY <1>0, <1>2
<1>3. CASE RemoveFile(r)
  BY <1>1, <1>3 DEF RemovalEffect, RemoveFile, Remove
<1>4. CASE RemoveEntry(r)
  <2>1. PICK p \in S :
           \/ /\ p \in DOMAIN files
              /\ files' = Restrict(files, DOMAIN files \ {p})
              /\ removal' = [removal EXCEPT ![r].seen = S \ {p}]
           \/ /\ p \notin DOMAIN files
              /\ removal' = [removal EXCEPT ![r].seen = S \ {p}] \/ Ends(r, "stopped")
              /\ UNCHANGED files
    BY <1>4 DEF RemoveEntry
  <2>2. removal[r].pc = "running" /\ upload[u].folder /\ UNCHANGED <<dirs, upload, task>>
    BY <1>4 DEF RemoveEntry, Remove
  <2>3. CASE removal' = [removal EXCEPT ![r].seen = S \ {p}]
    BY <1>2, <2>1, <2>2, <2>3 DEF RemovalEffect
  <2>4. CASE p \notin DOMAIN files /\ Ends(r, "stopped") /\ UNCHANGED files
    BY <1>1, <2>2, <2>4 DEF RemovalEffect
  <2> QED
    BY <2>1, <2>3, <2>4
<1>5. CASE RemoveDir(r)
  <2>1. /\ removal[r].pc = "running" /\ upload[u].folder /\ S = {}
        /\ UNCHANGED <<files, upload, task>>
        /\ \/ PathsOf(u) = {} /\ dirs' = dirs \ {u} /\ Ends(r, "done")
           \/ PathsOf(u) # {} /\ UNCHANGED dirs /\ Ends(r, "stopped")
           \/ /\ PathsOf(u) # {} /\ UNCHANGED dirs
              /\ removal' = [removal EXCEPT ![r].seen = PathsOf(u)]
    BY <1>5 DEF RemoveDir, Remove
  <2>2. CASE PathsOf(u) = {} /\ dirs' = dirs \ {u} /\ Ends(r, "done")
    BY <1>1, <2>1, <2>2 DEF RemovalEffect
  <2>3. CASE PathsOf(u) # {} /\ UNCHANGED dirs /\ Ends(r, "stopped")
    BY <1>1, <2>1, <2>3 DEF RemovalEffect
  <2>4. CASE /\ PathsOf(u) # {} /\ UNCHANGED dirs
             /\ removal' = [removal EXCEPT ![r].seen = PathsOf(u)]
    BY <1>2, <2>1, <2>4 DEF RemovalEffect
  <2> QED
    BY <2>1, <2>2, <2>3, <2>4
<1>6. CASE RemovalFails(r)
  BY <1>1, <1>6 DEF RemovalEffect, RemovalFails, Remove
<1> QED
  BY <1>3, <1>4, <1>5, <1>6 DEF Remove

\* A removal of u takes from u only, and all of it when it comes to its end; one
\* of a folder that has seen all there is does not stop early.
OnlyTakes(r, u, S) ==
    /\ DOMAIN files' \subseteq DOMAIN files
    /\ \A w \in Uploads : PathsOf(w)' \subseteq PathsOf(w) /\ (w \in dirs' => w \in dirs)
    /\ \A w \in Uploads \ {u} : PathsOf(w)' = PathsOf(w) /\ (w \in dirs' <=> w \in dirs)
    /\ \A p \in removal'[r].seen : p[1] = u
    /\ removal'[r].pc = "done" => PathsOf(u)' = {} /\ u \notin dirs'
    /\ ~upload[u].folder => removal'[r].pc \in {"done", "failed"}
    /\ upload[u].folder /\ S = PathsOf(u) =>
          \/ removal'[r].pc = "running" /\ removal'[r].seen = PathsOf(u)'
          \/ removal'[r].pc \in {"done", "failed"}

LEMMA RemoveOnlyTakes ==
    ASSUME StorageTypeOK, DirectoryInv, NEW r \in Uploads \cup Deletes, Remove(r),
           NEW u \in Uploads, removal[r].share = u, NEW S, removal[r].seen = S
    PROVE  OnlyTakes(r, u, S)
<1>0. files \in [DOMAIN files -> Nat] /\ DOMAIN files \subseteq Paths
  BY DEF StorageTypeOK
<1>1. \A p \in S : p[1] = u
  BY DEF DirectoryInv, SeenInv
<1>2. RemovalEffect(r, u, S)
  BY RemoveEffect
<1>3. ASSUME NEW T, files' = Restrict(files, DOMAIN files \ T)
      PROVE  DOMAIN files' = DOMAIN files \ T /\ \A w \in Uploads : PathsOf(w)' = PathsOf(w) \ T
  <2>1. DOMAIN files' = DOMAIN files \ T
    BY <1>0, <1>3, RemoveFiles
  <2> QED
    BY <2>1 DEF PathsOf
<1>4. UNCHANGED files => DOMAIN files' = DOMAIN files /\ \A w \in Uploads : PathsOf(w)' = PathsOf(w)
  BY DEF PathsOf
<1>5. \A w \in Uploads : \A p \in PathsOf(w) : p[1] = w
  BY DEF PathsOf
<1>6. CASE /\ ~upload[u].folder /\ UNCHANGED dirs
           /\ files' = Restrict(files, DOMAIN files \ {<<u, NULL>>})
           /\ removal'[r].pc = "done" /\ removal'[r].seen = S
  <2>1. <<u, NULL>>[1] = u
    OBVIOUS
  <2>2. \A w \in Uploads \ {u} : PathsOf(w) \ {<<u, NULL>>} = PathsOf(w)
    BY <1>5, <2>1
  <2>3. /\ DOMAIN files' = DOMAIN files \ {<<u, NULL>>}
        /\ \A w \in Uploads : PathsOf(w)' = PathsOf(w) \ {<<u, NULL>>}
    BY <1>3, <1>6
  <2>4. \A w \in Uploads \ {u} : PathsOf(w)' = PathsOf(w)
    BY <2>2, <2>3
  <2>5. \A w \in Uploads : PathsOf(w)' \subseteq PathsOf(w)
    BY <2>3
  <2>6. \A p \in removal'[r].seen : p[1] = u
    BY <1>1, <1>6
  <2>7. u \notin dirs'
    BY <1>6 DEF DirectoryInv, UploadInv
  <2>8. \A p \in PathsOf(u) : p[2] = NULL /\ p[1] = u /\ p \in Paths
    BY <1>0, <1>6 DEF PathsOf, DirectoryInv
  <2>9. \A p \in PathsOf(u) : p = <<u, NULL>>
    BY <2>8 DEF Paths
  <2>10. PathsOf(u)' = {}
    BY <2>3, <2>9
  <2> QED
    BY <1>6, <2>3, <2>4, <2>5, <2>6, <2>7, <2>10 DEF OnlyTakes
<1>7. ASSUME NEW p \in S, p \in DOMAIN files, upload[u].folder, UNCHANGED dirs,
             files' = Restrict(files, DOMAIN files \ {p}),
             removal'[r].pc = "running", removal'[r].seen = S \ {p}
      PROVE  OnlyTakes(r, u, S)
  <2>1. \A w \in Uploads \ {u} : PathsOf(w) \ {p} = PathsOf(w)
    BY <1>1, <1>5
  <2>2. /\ DOMAIN files' = DOMAIN files \ {p}
        /\ \A w \in Uploads : PathsOf(w)' = PathsOf(w) \ {p}
    BY <1>3, <1>7
  <2>3. S = PathsOf(u) => removal'[r].seen = PathsOf(u)'
    BY <1>7, <2>2
  <2>4. \A q \in removal'[r].seen : q[1] = u
    BY <1>1, <1>7
  <2>5. \A w \in Uploads \ {u} : PathsOf(w)' = PathsOf(w)
    BY <2>1, <2>2
  <2>6. \A w \in Uploads : PathsOf(w)' \subseteq PathsOf(w)
    BY <2>2
  <2> QED
    BY <1>7, <2>2, <2>3, <2>4, <2>5, <2>6 DEF OnlyTakes
<1>8. ASSUME NEW p \in S, p \notin DOMAIN files, upload[u].folder, UNCHANGED <<dirs, files>>,
             \/ removal'[r].pc = "stopped" /\ removal'[r].seen = S
             \/ removal'[r].pc = "running" /\ removal'[r].seen = S \ {p}
      PROVE  OnlyTakes(r, u, S)
  <2>1. S # PathsOf(u)
    BY <1>8 DEF PathsOf
  <2> QED
    BY <1>1, <1>4, <1>8, <2>1 DEF OnlyTakes
<1>9. CASE /\ upload[u].folder /\ S = {} /\ UNCHANGED files /\ dirs' = dirs \ {u}
           /\ removal'[r].pc = "done" /\ removal'[r].seen = {} /\ PathsOf(u) = {}
  BY <1>4, <1>9 DEF OnlyTakes
<1>10. CASE /\ upload[u].folder /\ S = {} /\ UNCHANGED <<dirs, files>> /\ PathsOf(u) # {}
            /\ \/ removal'[r].pc = "running" /\ removal'[r].seen = PathsOf(u)
               \/ removal'[r].pc = "stopped" /\ removal'[r].seen = {}
  BY <1>4, <1>5, <1>10 DEF OnlyTakes
<1>11. CASE UNCHANGED <<dirs, files>> /\ removal'[r].pc = "failed" /\ removal'[r].seen = S
  BY <1>1, <1>4, <1>11 DEF OnlyTakes
<1> QED
  BY <1>2, <1>6, <1>7, <1>8, <1>9, <1>10, <1>11 DEF RemovalEffect

LEMMA RemoveStep ==
    ASSUME StorageTypeOK, DirectoryInv, NEW r \in Uploads \cup Deletes, Remove(r),
           UNCHANGED <<rows, delete>>
    PROVE  DirectoryInv'
<1>1. removal[r].pc = "running"
  BY DEF Remove, RemoveFile, RemoveEntry, RemoveDir, RemovalFails
<1>2. removal[r].share \in Uploads
  BY <1>1 DEF DirectoryInv, RemovalInv
<1>3. PICK u \in Uploads : removal[r].share = u
  BY <1>2
<1>4. PICK S : removal[r].seen = S
  OBVIOUS
<1>5. OnlyTakes(r, u, S)
  BY <1>3, <1>4, RemoveOnlyTakes
<1>6. /\ UNCHANGED <<upload, task>>
      /\ \A q \in (Uploads \cup Deletes) \ {r} : removal'[q] = removal[q]
      /\ removal'[r].share = u
      /\ removal'[r].pc \in {"running", "done", "stopped", "failed"}
  BY <1>3, <1>4, RemoveEffect DEF RemovalEffect
<1>7. /\ r \in Uploads => u = r /\ upload[u].pc = "given_up"
      /\ r \in Deletes => upload[u].pc \in Entered
  BY <1>1, <1>3 DEF DirectoryInv, RemovalInv
<1>8. ASSUME NEW w \in Uploads
      PROVE  UploadInv(w)'
  <2>1. UploadInv(w)
    BY DEF DirectoryInv
  <2>2. PathsOf(w) = {} /\ w \notin dirs => PathsOf(w)' = {} /\ w \notin dirs'
    BY <1>5 DEF OnlyTakes
  <2>3. w \notin dirs => w \notin dirs'
    BY <1>5 DEF OnlyTakes
  <2> QED
    BY <1>6, <2>1, <2>2, <2>3 DEF UploadInv
<1>9. ASSUME NEW w \in Uploads, w # u
      PROVE  GivenUpInv(w)'
  <2>1. removal'[w] = removal[w]
    BY <1>6, <1>7, <1>9
  <2>2. GivenUpInv(w) /\ PathsOf(w)' = PathsOf(w) /\ (w \in dirs' <=> w \in dirs)
    BY <1>5, <1>9 DEF OnlyTakes, DirectoryInv
  <2> QED
    BY <1>6, <2>1, <2>2 DEF GivenUpInv, Gone
<1>10. GivenUpInv(u)'
  <2> SUFFICES ASSUME upload[u].pc = "given_up", upload[u].left \notin {"mkdir", "creating"}
               PROVE  /\ removal'[u].pc \in {"none", "done", "stopped"} => Gone(u)'
                      /\ removal'[u].pc = "running" /\ upload[u].folder
                            => removal'[u].seen = PathsOf(u)'
    BY <1>6 DEF GivenUpInv
  <2>1. u = r
    BY <1>7 DEF Entered
  <2>2. upload[u].folder => S = PathsOf(u)
    BY <1>1, <1>4, <2>1 DEF DirectoryInv, GivenUpInv
  <2> QED
    BY <1>5, <1>6, <2>1, <2>2 DEF OnlyTakes, Gone
<1>11. \A p \in DOMAIN files' : ~upload'[p[1]].folder => p[2] = NULL
  BY <1>5, <1>6 DEF OnlyTakes, DirectoryInv
<1>12. RemovalInv'
  <2>1. RemovalInv
    BY DEF DirectoryInv
  <2> QED
    BY <1>6, <1>7, <2>1 DEF RemovalInv
<1>13. SeenInv'
  BY <1>5, <1>6 DEF OnlyTakes, DirectoryInv, SeenInv
<1> QED
  BY <1>8, <1>9, <1>10, <1>11, <1>12, <1>13 DEF DirectoryInv

----------------------------------------------------------------------------
(* The storage directory, by itself.                                       *)

LEMMA StorageInitInv ==
    ASSUME StorageInit
    PROVE  StorageTypeOK /\ DirectoryInv
<1>1. /\ DOMAIN files = {} /\ files \in [DOMAIN files -> Nat]
      /\ \A u \in Uploads : PathsOf(u) = {}
  BY DEF StorageInit, PathsOf
<1>2. NoUpload \in UploadStates /\ 0 \in 0 .. MaxCrashes
  BY StorageAssumption DEF NoUpload, UploadStates
<1>3. StorageTypeOK
  BY <1>1, <1>2 DEF StorageInit, StorageTypeOK, NoTask, NoRemoval, NoDelete
<1>4. \A u \in Uploads : UploadInv(u) /\ GivenUpInv(u)
  BY <1>1 DEF StorageInit, UploadInv, GivenUpInv, NoUpload, NoTask, NoRemoval
<1>5. RemovalInv /\ SeenInv
  BY DEF StorageInit, RemovalInv, SeenInv, NoRemoval, NoDelete
<1> QED
  BY <1>1, <1>3, <1>4, <1>5 DEF DirectoryInv

LEMMA DirectoryStep ==
    ASSUME StorageTypeOK, DirectoryInv, [StorageNext]_storageVars
    PROVE  StorageTypeOK' /\ DirectoryInv'
<1>1. CASE UNCHANGED storageVars
  <2>0. UNCHANGED <<files, dirs, rows, upload, task, removal, delete>>
    BY <1>1 DEF storageVars
  <2>1. \A u \in Uploads : PathsOf(u)' = PathsOf(u) /\ Gone(u)' = Gone(u)
    BY <2>0 DEF PathsOf, Gone
  <2>2. \A u \in Uploads : UploadInv(u)' /\ GivenUpInv(u)'
    BY <2>0, <2>1 DEF DirectoryInv, UploadInv, GivenUpInv
  <2>3. RemovalInv' /\ SeenInv'
    BY <2>0 DEF DirectoryInv, RemovalInv, SeenInv
  <2>4. \A p \in DOMAIN files' : ~upload'[p[1]].folder => p[2] = NULL
    BY <2>0 DEF DirectoryInv
  <2> QED
    BY <2>2, <2>3, <2>4, StorageTypeStep DEF DirectoryInv
<1>2. ASSUME NEW u \in Uploads, Upload(u), UNCHANGED <<delete, crashes>>
      PROVE  DirectoryInv'
  BY <1>2, UploadStep
<1>3. ASSUME NEW u \in Uploads, Create(u) \/ WriteBack(u), UNCHANGED <<rows, delete, crashes>>
      PROVE  DirectoryInv'
  BY <1>3, CreateStep, WriteBackStep
<1>4. ASSUME NEW r \in Uploads \cup Deletes, Remove(r), UNCHANGED <<rows, delete, crashes>>
      PROVE  DirectoryInv'
  BY <1>4, RemoveStep
<1>5. ASSUME NEW d \in Deletes, DeleteRow(d) \/ \E u \in Uploads : Load(d, u),
             UNCHANGED <<dirs, upload, task, crashes>>
      PROVE  DirectoryInv'
  BY <1>5, DeleteStep
<1>6. CASE CrashStorage
  BY <1>6, CrashStorageStep, StorageTypeStep
<1> QED
  BY <1>1, <1>2, <1>3, <1>4, <1>5, <1>6, StorageTypeStep DEF StorageNext, StorageStep

----------------------------------------------------------------------------
(* The bytes an upload has on the disk.                                    *)

LEMMA FinitePaths ==
    ASSUME NEW u, NEW E \in SUBSET (Slots \cup {NULL})
    PROVE  IsFiniteSet({u} \X E)
<1>1. IsFiniteSet(Slots \cup {NULL})
  BY StorageAssumption, FS_AddElement
<1>2. IsFiniteSet(E) /\ IsFiniteSet({u})
  BY <1>1, FS_Subset, FS_Singleton
<1> QED
  BY <1>2, FS_Product

LEMMA SizeType ==
    ASSUME StorageTypeOK, NEW u \in Uploads
    PROVE  /\ IsFiniteSet(PathsOf(u))
           /\ \A p \in PathsOf(u) : files[p] \in Nat /\ p \in Paths /\ p[1] = u
           /\ SizeOf(u) \in Nat
<1>1. \A p \in PathsOf(u) : files[p] \in Nat /\ p \in Paths /\ p[1] = u
  BY DEF StorageTypeOK, PathsOf
<1>2. PathsOf(u) \subseteq {u} \X (Slots \cup {NULL})
  BY <1>1 DEF Paths
<1>3. IsFiniteSet(PathsOf(u))
  BY <1>2, FinitePaths, FS_Subset
<1> QED
  BY <1>1, <1>3, SumTake DEF SizeOf

\* An upload whose files are left alone keeps its bytes.
LEMMA SizeSame ==
    ASSUME StorageTypeOK, NEW u \in Uploads, PathsOf(u)' = PathsOf(u),
           \A p \in PathsOf(u) : files'[p] = files[p]
    PROVE  SizeOf(u)' = SizeOf(u)
<1>1. SumFunctionOnSet(files', PathsOf(u)) = SumFunctionOnSet(files, PathsOf(u))
  BY SizeType, SumSame
<1> QED
  BY <1>1 DEF SizeOf

\* A file that is removed takes its bytes with it.
LEMMA SizeTaken ==
    ASSUME StorageTypeOK, NEW p, files' = Restrict(files, DOMAIN files \ {p}), NEW u \in Uploads
    PROVE  /\ PathsOf(u)' = PathsOf(u) \ {p}
           /\ \A q \in PathsOf(u)' : files'[q] = files[q]
           /\ SizeOf(u)' \in Nat /\ SizeOf(u)' <= SizeOf(u)
           /\ p \notin PathsOf(u) => SizeOf(u)' = SizeOf(u)
<1>1. /\ DOMAIN files' = DOMAIN files \ {p}
      /\ \A q \in DOMAIN files' : files'[q] = files[q]
  BY DEF Restrict
<1>2. PathsOf(u)' = PathsOf(u) \ {p} /\ \A q \in PathsOf(u)' : files'[q] = files[q]
  BY <1>1 DEF PathsOf
<1>3. IsFiniteSet(PathsOf(u) \ {p})
  BY SizeType, FS_RemoveElement
<1>4. PICK T : T = PathsOf(u) \ {p}
  OBVIOUS
<1>5. \A q \in T : files[q] \in Nat /\ files'[q] = files[q]
  BY <1>2, <1>4, SizeType
<1>6. SumFunctionOnSet(files', T) = SumFunctionOnSet(files, T) /\ SumFunctionOnSet(files, T) \in Nat
  BY <1>3, <1>4, <1>5, SumSame, SumTake
<1>7. SizeOf(u)' = SumFunctionOnSet(files, T) /\ SizeOf(u)' \in Nat
  BY <1>2, <1>4, <1>6 DEF SizeOf
<1>8. p \notin PathsOf(u) => SizeOf(u)' = SizeOf(u)
  BY <1>4, <1>7 DEF SizeOf
<1>9. p \in PathsOf(u) => SizeOf(u) = files[p] + SizeOf(u)' /\ files[p] \in Nat
  BY <1>4, <1>7, SizeType, SumTake DEF SizeOf
<1>10. SizeOf(u)' <= SizeOf(u)
  BY <1>7, <1>8, <1>9, SizeType
<1> QED
  BY <1>2, <1>7, <1>8, <1>10

\* A file that is created is empty, and one it replaces is gone.
LEMMA SizePut ==
    ASSUME StorageTypeOK, NEW p, p[1] \in Uploads, files' = Put(p, 0), NEW u \in Uploads
    PROVE  /\ PathsOf(u)' = IF p[1] = u THEN PathsOf(u) \cup {p} ELSE PathsOf(u)
           /\ SizeOf(u)' \in Nat /\ SizeOf(u)' <= SizeOf(u)
           /\ p \notin PathsOf(u) => SizeOf(u)' = SizeOf(u)
           /\ p[1] # u => \A q \in PathsOf(u) : files'[q] = files[q]
<1>1. /\ DOMAIN files' = DOMAIN files \cup {p} /\ files'[p] = 0
      /\ \A q \in DOMAIN files \ {p} : files'[q] = files[q]
  BY DEF Put
<1>2. PathsOf(u)' = IF p[1] = u THEN PathsOf(u) \cup {p} ELSE PathsOf(u)
  BY <1>1 DEF PathsOf
<1>3. p[1] # u => \A q \in PathsOf(u) : files'[q] = files[q]
  BY <1>1 DEF PathsOf
<1>4. CASE p[1] # u
  <2>1. SizeOf(u)' = SizeOf(u)
    BY <1>2, <1>3, <1>4, SizeSame
  <2> QED
    BY <1>2, <1>3, <1>4, <2>1, SizeType
<1>5. CASE p[1] = u
  <2>1. PICK T : T = PathsOf(u) \ {p}
    OBVIOUS
  <2>2. IsFiniteSet(T) /\ p \notin T /\ \A q \in T : files[q] \in Nat /\ files'[q] = files[q]
    BY <1>1, <2>1, SizeType, FS_RemoveElement DEF PathsOf
  <2>3. SumFunctionOnSet(files', T) = SumFunctionOnSet(files, T) /\ SumFunctionOnSet(files, T) \in Nat
    BY <2>2, SumSame, SumTake
  <2>4. PathsOf(u)' = T \cup {p}
    BY <1>2, <1>5, <2>1
  <2>5. SumFunctionOnSet(files', T \cup {p}) = SumFunctionOnSet(files', T) + files'[p]
    <3>1. \A q \in T \cup {p} : files'[q] \in Nat
      BY <1>1, <2>2
    <3> QED
      BY <2>2, <3>1, SumAdd
  <2>6. SizeOf(u)' = SumFunctionOnSet(files, T)
    BY <1>1, <2>3, <2>4, <2>5 DEF SizeOf
  <2>7. p \notin PathsOf(u) => SizeOf(u)' = SizeOf(u)
    BY <2>1, <2>6 DEF SizeOf
  <2>8. p \in PathsOf(u) => SizeOf(u) = files[p] + SizeOf(u)' /\ files[p] \in Nat
    BY <2>1, <2>6, SizeType, SumTake DEF SizeOf
  <2>9. SizeOf(u)' \in Nat /\ SizeOf(u)' <= SizeOf(u)
    BY <2>3, <2>6, <2>7, <2>8, SizeType
  <2> QED
    BY <1>2, <1>5, <2>7, <2>9
<1> QED
  BY <1>4, <1>5

\* A write adds its bytes.
LEMMA SizeGrows ==
    ASSUME StorageTypeOK, NEW p \in DOMAIN files, NEW n \in Nat,
           files' = [files EXCEPT ![p] = @ + n], NEW u \in Uploads
    PROVE  /\ PathsOf(u)' = PathsOf(u)
           /\ SizeOf(u)' = IF p[1] = u THEN SizeOf(u) + n ELSE SizeOf(u)
           /\ p[1] # u => \A q \in PathsOf(u) : files'[q] = files[q]
<1>1. /\ DOMAIN files' = DOMAIN files /\ files'[p] = files[p] + n
      /\ \A q \in DOMAIN files \ {p} : files'[q] = files[q]
      /\ files[p] \in Nat
  BY DEF StorageTypeOK
<1>2. PathsOf(u)' = PathsOf(u)
  BY <1>1 DEF PathsOf
<1>3. p[1] # u => \A q \in PathsOf(u) : files'[q] = files[q]
  BY <1>1 DEF PathsOf
<1>4. CASE p[1] # u
  BY <1>2, <1>3, <1>4, SizeSame
<1>5. CASE p[1] = u
  <2>1. PICK T : T = PathsOf(u) \ {p}
    OBVIOUS
  <2>2. /\ IsFiniteSet(T) /\ p \in PathsOf(u)
        /\ \A q \in T : files[q] \in Nat /\ files'[q] = files[q]
    BY <1>1, <1>5, <2>1, SizeType, FS_RemoveElement DEF PathsOf
  <2>3. SumFunctionOnSet(files', T) = SumFunctionOnSet(files, T) /\ SumFunctionOnSet(files, T) \in Nat
    BY <2>2, SumSame, SumTake
  <2>4. SizeOf(u) = files[p] + SumFunctionOnSet(files, T)
    BY <2>1, <2>2, SizeType, SumTake DEF SizeOf
  <2>5. SumFunctionOnSet(files', PathsOf(u)) = files'[p] + SumFunctionOnSet(files', T)
    <3>1. \A q \in PathsOf(u) : files'[q] \in Nat
      BY <1>1, <2>1, <2>2
    <3> QED
      BY <2>1, <2>2, <3>1, SizeType, SumTake
  <2>6. SizeOf(u)' = files[p] + n + SumFunctionOnSet(files, T)
    BY <1>1, <1>2, <2>3, <2>5 DEF SizeOf
  <2>7. SizeOf(u)' = SizeOf(u) + n
    BY <1>1, <2>3, <2>4, <2>6
  <2> QED
    BY <1>2, <1>5, <2>7
<1> QED
  BY <1>4, <1>5

----------------------------------------------------------------------------
(* Uploads and their bytes, by stage of the handler.                        *)

\* u is in the database, or it was and its files were kept.
Present(u) ==
    \/ u \in rows
    \/ /\ upload[u].pc \in {"respond", "stored"}
       /\ \A d \in Deletes : delete[d].share = u => delete[d].pc # "removing"

\* What an upload has on the disk, at each stage of its handler.
BytesInv(u) ==
    LET s == upload[u] IN
    /\ SizeOf(u) + s.unwritten <= s.size
    /\ s.size <= MaxBytes
    /\ s.pc \notin {"writing", "given_up"} => s.unwritten = 0
    /\ ~s.folder => s.entries \subseteq {NULL}
    /\ s.pc \in {"idle", "mkdir"} => PathsOf(u) = {} /\ s.entries = {} /\ s.size = 0
    /\ s.pc = "mkdir" => task[u].dir /\ (task[u].pc = "created" => u \in dirs)
    /\ s.pc \in {"fields", "creating", "writing"} /\ s.folder => u \in dirs
    /\ s.pc = "fields" => PathsOf(u) = {u} \X s.entries /\ SizeOf(u) = s.size
    /\ s.pc = "creating" =>
          /\ s.slot \notin s.entries /\ ~task[u].dir
          /\ PathsOf(u) = {u} \X IF task[u].pc = "created" THEN s.entries \cup {s.slot} ELSE s.entries
          /\ SizeOf(u) = s.size
    /\ s.pc = "writing" =>
          /\ s.slot \notin s.entries
          /\ PathsOf(u) = {u} \X (s.entries \cup {s.slot})
          /\ SizeOf(u) + s.unwritten = s.size
    /\ Present(u) => Whole(u)

\* A delete removes files only after the row.
DeletesInv ==
    \A d \in Deletes :
        /\ delete[d].pc \in {"removing", "kept"} => delete[d].share \notin rows
        /\ removal[d].pc # "none" => delete[d].pc = "removing" /\ removal[d].share = delete[d].share

DiskInv == DeletesInv /\ \A u \in Uploads : BytesInv(u)

\* A step of somebody else.
Untouched(u) ==
    /\ upload'[u] = upload[u] /\ task'[u] = task[u]
    /\ PathsOf(u)' = PathsOf(u) /\ SizeOf(u)' = SizeOf(u)
    /\ u \in dirs' <=> u \in dirs
    /\ Present(u)' => Present(u)

LEMMA UntouchedBytes ==
    ASSUME NEW u \in Uploads, BytesInv(u), Untouched(u)
    PROVE  BytesInv(u)'
BY DEF Untouched, BytesInv, Whole

LEMMA SameFiles ==
    ASSUME StorageTypeOK, UNCHANGED files, NEW u \in Uploads
    PROVE  PathsOf(u)' = PathsOf(u) /\ SizeOf(u)' = SizeOf(u)
BY DEF PathsOf, SizeOf

LEMMA SamePresent ==
    ASSUME NEW u \in Uploads, UNCHANGED delete, u \in rows' => u \in rows,
           upload'[u].pc = upload[u].pc
    PROVE  Present(u)' => Present(u)
BY DEF Present

\* A create handler moves its own upload from one stage to the next.
LEMMA UploadDisk ==
    ASSUME StorageTypeOK, DirectoryInv, DiskInv, NEW u \in Uploads, Upload(u), UNCHANGED delete
    PROVE  DiskInv'
<1>1. UNCHANGED <<files, dirs>> /\ \A d \in Deletes : removal'[d] = removal[d]
  BY UploadLocal
<1>2. ASSUME NEW w \in Uploads, w # u
      PROVE  BytesInv(w)'
  <2>1. /\ upload'[w] = upload[w] /\ task'[w] = task[w]
        /\ w \in rows' => w \in rows
    BY <1>2, UploadLocal
  <2>2. Untouched(w)
    BY <1>1, <2>1, SameFiles, SamePresent DEF Untouched
  <2> QED
    BY <2>2, UntouchedBytes DEF DiskInv
<1> DEFINE s == upload[u]
<1>3. /\ upload \in [Uploads -> UploadStates] /\ s \in UploadStates
      /\ task \in [Uploads -> [pc : {"none", "pending", "created", "failed"}, dir : BOOLEAN]]
      /\ BytesInv(u) /\ UploadInv(u) /\ SizeOf(u) \in Nat
  BY SizeType DEF StorageTypeOK, DirectoryInv, DiskInv
<1>4. PathsOf(u)' = PathsOf(u) /\ SizeOf(u)' = SizeOf(u) /\ (u \in dirs' <=> u \in dirs)
  BY <1>1, SameFiles
<1>5. s.pc \notin Entered => u \notin rows
  BY DEF DirectoryInv, RemovalInv
<1>6. rows' = rows /\ upload'[u].pc \notin {"respond", "stored"} /\ s.pc \notin Entered => ~Present(u)'
  BY <1>5 DEF Present
<1>7. ASSUME \E folder \in BOOLEAN : Begin(u, folder)
      PROVE  BytesInv(u)'
  <2>1. PICK folder \in BOOLEAN : Begin(u, folder)
    BY <1>7
  <2>2. /\ upload'[u].pc = IF folder THEN "mkdir" ELSE "fields"
        /\ upload'[u].folder = folder /\ upload'[u].entries = s.entries
        /\ upload'[u].size = s.size /\ upload'[u].unwritten = s.unwritten
    BY <1>3, <2>1 DEF Begin, UploadStates
  <2>3. /\ task'[u] = IF folder THEN [pc |-> "pending", dir |-> TRUE] ELSE task[u]
        /\ s.pc = "idle" /\ rows' = rows
    BY <1>3, <2>1 DEF Begin
  <2>4. /\ PathsOf(u) = {} /\ s.entries = {} /\ s.size = 0 /\ s.unwritten = 0 /\ SizeOf(u) = 0
    BY <1>3, <2>3, SumEmpty DEF BytesInv, SizeOf
  <2>5. ~Present(u)'
    BY <1>6, <2>2, <2>3 DEF Entered
  <2>6. {u} \X s.entries = {}
    BY <2>4
  <2> QED
    BY <1>3, <1>4, <2>2, <2>3, <2>4, <2>5, <2>6 DEF BytesInv
<1>8. ASSUME FolderReady(u) PROVE BytesInv(u)'
  <2>1. /\ upload'[u].pc = "fields" /\ upload'[u].folder = s.folder
        /\ upload'[u].entries = s.entries
        /\ upload'[u].size = s.size /\ upload'[u].unwritten = s.unwritten
    BY <1>3, <1>8 DEF FolderReady, UploadStates
  <2>2. s.pc = "mkdir" /\ task[u].pc = "created" /\ rows' = rows
    BY <1>8 DEF FolderReady
  <2>3. /\ PathsOf(u) = {} /\ s.entries = {} /\ s.size = 0 /\ s.unwritten = 0 /\ SizeOf(u) = 0
        /\ u \in dirs
    BY <1>3, <2>2, SumEmpty DEF BytesInv, SizeOf
  <2>4. ~Present(u)'
    BY <1>6, <2>1, <2>2 DEF Entered
  <2>5. {u} \X s.entries = {}
    BY <2>3
  <2> QED
    BY <1>3, <1>4, <2>1, <2>2, <2>3, <2>4, <2>5 DEF BytesInv
<1>9. ASSUME NextFile(u) PROVE BytesInv(u)'
  <2>1. PICK e \in IF s.folder THEN Slots ELSE {NULL} :
            e \notin s.entries /\ upload' = [upload EXCEPT ![u].pc = "creating", ![u].slot = e]
    BY <1>9 DEF NextFile
  <2>2. /\ upload'[u].pc = "creating" /\ upload'[u].folder = s.folder
        /\ upload'[u].slot = e /\ upload'[u].entries = s.entries
        /\ upload'[u].size = s.size /\ upload'[u].unwritten = s.unwritten
    BY <1>3, <2>1 DEF UploadStates
  <2>3. task'[u] = [pc |-> "pending", dir |-> FALSE] /\ s.pc = "fields" /\ rows' = rows
    BY <1>3, <1>9 DEF NextFile
  <2>4. ~Present(u)'
    BY <1>6, <2>2, <2>3 DEF Entered
  <2> QED
    BY <1>3, <1>4, <2>1, <2>2, <2>3, <2>4 DEF BytesInv
<1>10. ASSUME FileReady(u) PROVE BytesInv(u)'
  <2>1. /\ upload'[u].pc = "writing" /\ upload'[u].folder = s.folder
        /\ upload'[u].slot = s.slot /\ upload'[u].entries = s.entries
        /\ upload'[u].size = s.size /\ upload'[u].unwritten = s.unwritten
    BY <1>3, <1>10 DEF FileReady, UploadStates
  <2>2. s.pc = "creating" /\ task[u].pc = "created" /\ rows' = rows
    BY <1>10 DEF FileReady
  <2>3. ~Present(u)'
    BY <1>6, <2>1, <2>2 DEF Entered
  <2> QED
    BY <1>3, <1>4, <2>1, <2>2, <2>3 DEF BytesInv
<1>11. ASSUME WriteChunk(u) PROVE BytesInv(u)'
  <2>1. PICK n \in 1 .. MaxChunk :
            /\ s.size + n <= MaxBytes
            /\ upload' = [upload EXCEPT ![u].size = @ + n, ![u].unwritten = n]
    BY <1>11 DEF WriteChunk
  <2>2. /\ upload'[u].pc = "writing" /\ upload'[u].folder = s.folder
        /\ upload'[u].slot = s.slot /\ upload'[u].entries = s.entries
        /\ upload'[u].size = s.size + n /\ upload'[u].unwritten = n
        /\ s.pc = "writing" /\ s.unwritten = 0 /\ rows' = rows
    BY <1>3, <1>11, <2>1 DEF WriteChunk, UploadStates
  <2>3. ~Present(u)'
    BY <1>6, <2>2 DEF Entered
  <2>4. SizeOf(u) = s.size
    BY <1>3, <2>2 DEF BytesInv
  <2>5. SizeOf(u) + n = s.size + n /\ SizeOf(u) + n <= s.size + n
    BY <1>3, <2>4 DEF UploadStates
  <2> QED
    BY <1>3, <1>4, <2>1, <2>2, <2>3, <2>5 DEF BytesInv
<1>12. ASSUME FileDone(u) PROVE BytesInv(u)'
  <2>1. /\ upload'[u].pc = "fields" /\ upload'[u].folder = s.folder
        /\ upload'[u].entries = s.entries \cup {s.slot}
        /\ upload'[u].size = s.size /\ upload'[u].unwritten = s.unwritten
        /\ s.pc = "writing" /\ s.unwritten = 0 /\ rows' = rows
    BY <1>3, <1>12 DEF FileDone, UploadStates
  <2>2. ~Present(u)'
    BY <1>6, <2>1 DEF Entered
  <2>3. SizeOf(u) = s.size
    BY <1>3, <2>1 DEF BytesInv
  <2>4. ~s.folder => s.slot = NULL
    BY <1>3 DEF UploadInv
  <2> QED
    BY <1>3, <1>4, <2>1, <2>2, <2>3, <2>4 DEF BytesInv
<1>13. ASSUME Insert(u) PROVE BytesInv(u)'
  <2>1. /\ upload'[u].pc = "respond" /\ upload'[u].folder = s.folder
        /\ upload'[u].entries = s.entries
        /\ upload'[u].size = s.size /\ upload'[u].unwritten = s.unwritten
        /\ s.pc = "fields"
    BY <1>3, <1>13 DEF Insert, UploadStates
  <2>2. Whole(u)'
    BY <1>3, <1>4, <2>1 DEF BytesInv, Whole
  <2> QED
    BY <1>3, <1>4, <2>1, <2>2 DEF BytesInv
<1>14. ASSUME Respond(u) PROVE BytesInv(u)'
  <2>1. /\ upload'[u].pc = "stored" /\ upload'[u].folder = s.folder
        /\ upload'[u].entries = s.entries
        /\ upload'[u].size = s.size /\ upload'[u].unwritten = s.unwritten
        /\ s.pc = "respond" /\ rows' = rows
    BY <1>3, <1>14 DEF Respond, To, UploadStates
  <2>2. Present(u)' => Present(u)
    BY <2>1 DEF Present
  <2> QED
    BY <1>3, <1>4, <2>1, <2>2 DEF BytesInv, Whole
<1>15. ASSUME GiveUp(u) PROVE BytesInv(u)'
  <2>1. /\ upload'[u].pc = "given_up" /\ upload'[u].folder = s.folder
        /\ upload'[u].entries = s.entries
        /\ upload'[u].size = s.size /\ upload'[u].unwritten = s.unwritten
        /\ s.pc \in InHandler /\ rows' = rows
    BY <1>3, <1>15 DEF GiveUp, UploadStates
  <2>2. ~Present(u)'
    BY <1>6, <2>1 DEF Entered, InHandler
  <2> QED
    BY <1>3, <1>4, <2>1, <2>2 DEF BytesInv
<1>16. BytesInv(u)'
  BY <1>7, <1>8, <1>9, <1>10, <1>11, <1>12, <1>13, <1>14, <1>15 DEF Upload
<1>17. DeletesInv'
  <2>1. \A d \in Deletes : delete[d].pc # "idle" => upload[delete[d].share].pc \in Entered
    BY DEF DirectoryInv, RemovalInv
  <2>2. u \in rows' => u \in rows \/ s.pc = "fields"
    <3>1. \A folder : Begin(u, folder) => rows' = rows
      BY DEF Begin
    <3> QED
      BY <3>1 DEF Upload, FolderReady, NextFile, FileReady, WriteChunk, FileDone, Insert,
                  Respond, GiveUp
  <2>3. \A d \in Deletes : delete[d].pc \in {"removing", "kept"} => delete[d].share \notin rows'
    BY <2>1, <2>2, UploadLocal DEF DiskInv, DeletesInv, Entered
  <2> QED
    BY <1>1, <2>3 DEF DiskInv, DeletesInv
<1> QED
  BY <1>2, <1>16, <1>17 DEF DiskInv

\* A blocking thread creates for an upload that waits for it, or was given up.
LEMMA CreateDisk ==
    ASSUME StorageTypeOK, DirectoryInv, DiskInv, NEW u \in Uploads, Create(u),
           UNCHANGED <<rows, delete>>
    PROVE  DiskInv'
<1> DEFINE s == upload[u]
<1>1. /\ task \in [Uploads -> [pc : {"none", "pending", "created", "failed"}, dir : BOOLEAN]]
      /\ s \in UploadStates
      /\ UNCHANGED <<upload, removal>> /\ task[u].pc = "pending"
      /\ BytesInv(u) /\ UploadInv(u) /\ SizeOf(u) \in Nat
  BY SizeType DEF StorageTypeOK, Create, DirectoryInv, DiskInv
<1>2. /\ \A w \in Uploads \ {u} : task'[w] = task[w]
      /\ task'[u].pc \in {"created", "failed"} /\ task'[u].dir = task[u].dir
  BY <1>1 DEF Create
<1>3. \A w \in Uploads : Present(w)' = Present(w)
  BY <1>1 DEF Present
<1>4. s.pc \in {"mkdir", "creating", "given_up"}
  BY <1>1 DEF UploadInv
<1>5. ~Present(u)
  BY <1>4 DEF Present, DirectoryInv, RemovalInv, Entered
<1>6. \/ task[u].dir /\ dirs' = dirs \cup {u} /\ UNCHANGED files /\ task'[u].pc = "created"
      \/ ~task[u].dir /\ files' = Put(Target(u), 0) /\ UNCHANGED dirs /\ task'[u].pc = "created"
      \/ UNCHANGED <<files, dirs>> /\ task'[u].pc = "failed"
  BY <1>1 DEF Create
<1>7. Target(u)[1] = u /\ Target(u) = <<u, s.slot>>
  BY DEF Target
<1>8. ASSUME NEW w \in Uploads, w # u
      PROVE  BytesInv(w)'
  <2>1. PathsOf(w)' = PathsOf(w) /\ SizeOf(w)' = SizeOf(w) /\ (w \in dirs' <=> w \in dirs)
    <3>1. CASE files' = Put(Target(u), 0)
      <4>1. Target(u) \notin PathsOf(w)
        BY <1>7, <1>8 DEF PathsOf
      <4> QED
        BY <1>6, <1>7, <1>8, <3>1, <4>1, SizePut
    <3>2. CASE UNCHANGED files
      BY <1>6, <1>8, <3>2, SameFiles
    <3> QED
      BY <1>6, <3>1, <3>2
  <2>2. Untouched(w)
    BY <1>1, <1>2, <1>3, <1>8, <2>1 DEF Untouched
  <2> QED
    BY <2>2, UntouchedBytes DEF DiskInv
<1>9. BytesInv(u)'
  <2>1. ASSUME task[u].dir, dirs' = dirs \cup {u}, UNCHANGED files, task'[u].pc = "created"
        PROVE  BytesInv(u)'
    <3>1. PathsOf(u)' = PathsOf(u) /\ SizeOf(u)' = SizeOf(u) /\ u \in dirs'
      BY <2>1, SameFiles
    <3>2. s.pc # "creating"
      BY <1>1, <2>1 DEF BytesInv
    <3> QED
      BY <1>1, <1>2, <1>3, <1>4, <1>5, <3>1, <3>2 DEF BytesInv
  <2>2. ASSUME ~task[u].dir, files' = Put(Target(u), 0), UNCHANGED dirs, task'[u].pc = "created"
        PROVE  BytesInv(u)'
    <3>1. /\ PathsOf(u)' = PathsOf(u) \cup {Target(u)}
          /\ SizeOf(u)' \in Nat /\ SizeOf(u)' <= SizeOf(u)
          /\ Target(u) \notin PathsOf(u) => SizeOf(u)' = SizeOf(u)
      BY <1>7, <2>2, SizePut
    <3>2. s.pc # "mkdir"
      BY <1>1, <2>2 DEF BytesInv
    <3>3. s.pc = "creating" => /\ PathsOf(u) = {u} \X s.entries /\ s.slot \notin s.entries
                               /\ SizeOf(u) = s.size
      BY <1>1 DEF BytesInv
    <3>4. s.pc = "creating" => PathsOf(u)' = {u} \X (s.entries \cup {s.slot}) /\ SizeOf(u)' = s.size
      BY <1>7, <3>1, <3>3
    <3>5. SizeOf(u)' + s.unwritten <= s.size
      <4>1. SizeOf(u) + s.unwritten <= s.size /\ s.unwritten \in Nat /\ s.size \in Nat
        BY <1>1, StorageAssumption DEF BytesInv, UploadStates
      <4> QED
        BY <1>1, <3>1, <4>1
    <3> QED
      BY <1>1, <1>2, <1>3, <1>4, <1>5, <2>2, <3>2, <3>3, <3>4, <3>5 DEF BytesInv
  <2>3. ASSUME UNCHANGED <<files, dirs>>, task'[u].pc = "failed"
        PROVE  BytesInv(u)'
    <3>1. PathsOf(u)' = PathsOf(u) /\ SizeOf(u)' = SizeOf(u)
      BY <2>3, SameFiles
    <3> QED
      BY <1>1, <1>2, <1>3, <1>4, <1>5, <2>3, <3>1 DEF BytesInv
  <2> QED
    BY <1>6, <2>1, <2>2, <2>3
<1> QED
  BY <1>1, <1>8, <1>9 DEF DiskInv, DeletesInv

\* A write lands in the file that is being written, or in none.
LEMMA WriteBackDisk ==
    ASSUME StorageTypeOK, DirectoryInv, DiskInv, NEW u \in Uploads, WriteBack(u),
           UNCHANGED <<rows, delete>>
    PROVE  DiskInv'
<1> DEFINE s == upload[u]
<1>1. /\ upload \in [Uploads -> UploadStates] /\ s \in UploadStates
      /\ UNCHANGED <<dirs, task, removal>> /\ s.unwritten > 0
      /\ BytesInv(u) /\ SizeOf(u) \in Nat
      /\ s.unwritten \in Nat /\ s.size \in Nat
  BY SizeType, StorageAssumption DEF StorageTypeOK, WriteBack, DiskInv, UploadStates
<1>2. /\ upload'[u].pc = s.pc /\ upload'[u].folder = s.folder /\ upload'[u].slot = s.slot
      /\ upload'[u].entries = s.entries /\ upload'[u].size = s.size /\ upload'[u].unwritten = 0
      /\ \A w \in Uploads \ {u} : upload'[w] = upload[w]
  BY <1>1 DEF WriteBack, UploadStates
<1>3. \A w \in Uploads : Present(w)' => Present(w)
  BY <1>2, SamePresent
<1>4. s.pc \in {"writing", "given_up"}
  BY <1>1 DEF BytesInv
<1>5. ~Present(u)
  BY <1>4 DEF Present, DirectoryInv, RemovalInv, Entered
<1>6. Target(u)[1] = u /\ Target(u) = <<u, s.slot>>
  BY DEF Target
<1>7. ASSUME NEW w \in Uploads
      PROVE  /\ PathsOf(w)' = PathsOf(w)
             /\ w # u => SizeOf(w)' = SizeOf(w)
             /\ SizeOf(u)' = IF Target(u) \in DOMAIN files THEN SizeOf(u) + s.unwritten ELSE SizeOf(u)
  <2>1. CASE Target(u) \in DOMAIN files
    <3>1. files' = [files EXCEPT ![Target(u)] = @ + s.unwritten]
      BY <2>1 DEF WriteBack
    <3> QED
      BY <1>1, <1>6, <2>1, <3>1, SizeGrows
  <2>2. CASE Target(u) \notin DOMAIN files
    <3>1. UNCHANGED files
      BY <2>2 DEF WriteBack
    <3> QED
      BY <2>2, <3>1, SameFiles
  <2> QED
    BY <2>1, <2>2
<1>8. ASSUME NEW w \in Uploads, w # u
      PROVE  BytesInv(w)'
  <2>1. Untouched(w)
    BY <1>1, <1>2, <1>3, <1>7, <1>8 DEF Untouched
  <2> QED
    BY <2>1, UntouchedBytes DEF DiskInv
<1>9. BytesInv(u)'
  <2>1. PathsOf(u)' = PathsOf(u)
    BY <1>7
  <2>2. SizeOf(u)' \in Nat /\ SizeOf(u)' <= SizeOf(u) + s.unwritten
    BY <1>1, <1>7
  <2>3. SizeOf(u)' + 0 <= s.size
    BY <1>1, <2>2 DEF BytesInv
  <2>4. ASSUME s.pc = "writing"
        PROVE  SizeOf(u)' + 0 = s.size
    <3>1. Target(u) \in PathsOf(u)
      BY <1>1, <1>6, <2>4 DEF BytesInv
    <3>2. Target(u) \in DOMAIN files
      BY <3>1 DEF PathsOf
    <3>3. SizeOf(u)' = SizeOf(u) + s.unwritten
      BY <1>7, <3>2
    <3> QED
      BY <1>1, <2>4, <3>3 DEF BytesInv
  <2> QED
    BY <1>1, <1>2, <1>3, <1>4, <1>5, <2>1, <2>3, <2>4 DEF BytesInv
<1>10. DeletesInv'
  BY <1>1 DEF DiskInv, DeletesInv
<1> QED
  BY <1>8, <1>9, <1>10 DEF DiskInv

\* A removal takes files of one upload only, and none of an upload that is in
\* the database or kept its files.
RemovalTakes(u) ==
    /\ UNCHANGED <<upload, task>> /\ ~Present(u)
    /\ upload[u].pc \in {"given_up"} \cup Entered
    /\ \A w \in Uploads : /\ PathsOf(w)' \subseteq PathsOf(w)
                          /\ SizeOf(w)' \in Nat /\ SizeOf(w)' <= SizeOf(w)
                          /\ \A p \in PathsOf(w)' : files'[p] = files[p]
    /\ \A w \in Uploads \ {u} : /\ PathsOf(w)' = PathsOf(w) /\ SizeOf(w)' = SizeOf(w)
                                /\ w \in dirs' <=> w \in dirs

LEMMA RemoveTakes ==
    ASSUME StorageTypeOK, DirectoryInv, DiskInv, NEW r \in Uploads \cup Deletes, Remove(r)
    PROVE  /\ \E u \in Uploads : RemovalTakes(u)
           /\ removal[r].pc = "running" /\ removal'[r].share = removal[r].share
           /\ \A q \in (Uploads \cup Deletes) \ {r} : removal'[q] = removal[q]
<1>1. removal[r].pc = "running"
  BY DEF Remove, RemoveFile, RemoveEntry, RemoveDir, RemovalFails
<1>2. removal[r].share \in Uploads
  BY <1>1 DEF DirectoryInv, RemovalInv
<1>3. PICK u \in Uploads : removal[r].share = u
  BY <1>2
<1>4. PICK S : removal[r].seen = S
  OBVIOUS
<1>5. RemovalEffect(r, u, S)
  BY <1>3, <1>4, RemoveEffect
<1>6. UNCHANGED <<upload, task>>
  BY <1>5 DEF RemovalEffect
<1>7. /\ \A p \in S : p[1] = u
      /\ r \in Uploads => upload[u].pc = "given_up"
      /\ r \in Deletes => upload[u].pc \in Entered
  BY <1>1, <1>3, <1>4 DEF DirectoryInv, RemovalInv, SeenInv
<1>8. ~Present(u)
  <2>1. CASE r \in Uploads
    <3>1. upload[u].pc = "given_up"
      BY <1>7, <2>1
    <3> QED
      BY <3>1 DEF Present, DirectoryInv, RemovalInv, Entered
  <2>2. CASE r \in Deletes
    <3>1. delete[r].pc = "removing" /\ delete[r].share = u /\ u \notin rows
      BY <1>1, <1>3, <2>2 DEF DiskInv, DeletesInv
    <3> QED
      BY <2>2, <3>1 DEF Present
  <2> QED
    BY <2>1, <2>2
<1>9. ASSUME NEW p, p[1] = u, files' = Restrict(files, DOMAIN files \ {p}), UNCHANGED dirs
      PROVE  RemovalTakes(u)
  <2>1. ASSUME NEW w \in Uploads
        PROVE  /\ PathsOf(w)' = PathsOf(w) \ {p}
               /\ SizeOf(w)' \in Nat /\ SizeOf(w)' <= SizeOf(w)
               /\ \A q \in PathsOf(w)' : files'[q] = files[q]
               /\ p \notin PathsOf(w) => SizeOf(w)' = SizeOf(w)
    BY <1>9, SizeTaken
  <2>2. \A w \in Uploads \ {u} : p \notin PathsOf(w)
    BY <1>9 DEF PathsOf
  <2>3. \A w \in Uploads \ {u} : PathsOf(w)' = PathsOf(w) /\ SizeOf(w)' = SizeOf(w)
    BY <2>1, <2>2
  <2>4. \A w \in Uploads : /\ PathsOf(w)' \subseteq PathsOf(w)
                           /\ SizeOf(w)' \in Nat /\ SizeOf(w)' <= SizeOf(w)
                           /\ \A q \in PathsOf(w)' : files'[q] = files[q]
    BY <2>1
  <2> QED
    BY <1>6, <1>7, <1>8, <1>9, <2>3, <2>4 DEF RemovalTakes
<1>10. ASSUME UNCHANGED files, \A w \in Uploads \ {u} : w \in dirs' <=> w \in dirs
       PROVE  RemovalTakes(u)
  <2>1. ASSUME NEW w \in Uploads
        PROVE  /\ PathsOf(w)' = PathsOf(w) /\ SizeOf(w)' = SizeOf(w) /\ SizeOf(w) \in Nat
               /\ \A p \in PathsOf(w)' : files'[p] = files[p]
    BY <1>10, SameFiles, SizeType
  <2>2. \A w \in Uploads : SizeOf(w)' \in Nat /\ SizeOf(w)' <= SizeOf(w)
    BY <2>1
  <2> QED
    BY <1>6, <1>7, <1>8, <1>10, <2>1, <2>2 DEF RemovalTakes
<1>11. RemovalTakes(u)
  <2>1. <<u, NULL>>[1] = u
    OBVIOUS
  <2>2. CASE files' = Restrict(files, DOMAIN files \ {<<u, NULL>>}) /\ UNCHANGED dirs
    BY <1>9, <2>1, <2>2
  <2>3. CASE \E p \in S : files' = Restrict(files, DOMAIN files \ {p}) /\ UNCHANGED dirs
    BY <1>7, <1>9, <2>3
  <2>4. CASE UNCHANGED files /\ (dirs' = dirs \/ dirs' = dirs \ {u})
    BY <1>10, <2>4
  <2> QED
    BY <1>5, <2>2, <2>3, <2>4 DEF RemovalEffect
<1> QED
  BY <1>1, <1>3, <1>5, <1>11 DEF RemovalEffect

LEMMA RemoveDisk ==
    ASSUME StorageTypeOK, DirectoryInv, DiskInv, NEW r \in Uploads \cup Deletes, Remove(r),
           UNCHANGED <<rows, delete>>
    PROVE  DiskInv'
<1>1. PICK u \in Uploads : RemovalTakes(u)
  BY RemoveTakes
<1>2. \A w \in Uploads : Present(w)' => Present(w)
  BY <1>1, SamePresent DEF RemovalTakes
<1>3. ASSUME NEW w \in Uploads, w # u
      PROVE  BytesInv(w)'
  <2>1. Untouched(w)
    BY <1>1, <1>2, <1>3 DEF RemovalTakes, Untouched
  <2> QED
    BY <2>1, UntouchedBytes DEF DiskInv
<1>4. BytesInv(u)'
  <2>1. /\ BytesInv(u) /\ upload[u] \in UploadStates /\ SizeOf(u) \in Nat
        /\ upload[u].unwritten \in Nat /\ upload[u].size \in Nat
    BY SizeType, StorageAssumption DEF DiskInv, StorageTypeOK, UploadStates
  <2>2. SizeOf(u)' \in Nat /\ SizeOf(u)' <= SizeOf(u)
    BY <1>1 DEF RemovalTakes
  <2>3. SizeOf(u)' + upload[u].unwritten <= upload[u].size
    BY <2>1, <2>2 DEF BytesInv
  <2>4. upload'[u] = upload[u] /\ ~Present(u)' /\ upload[u].pc \in {"given_up"} \cup Entered
    BY <1>1, <1>2 DEF RemovalTakes
  <2> QED
    BY <2>1, <2>3, <2>4 DEF BytesInv, Entered
<1>5. DeletesInv'
  BY RemoveTakes DEF DiskInv, DeletesInv
<1> QED
  BY <1>3, <1>4, <1>5 DEF DiskInv

\* A delete takes the row first.
LEMMA DeleteDisk ==
    ASSUME StorageTypeOK, DirectoryInv, DiskInv, NEW d \in Deletes,
           DeleteRow(d) \/ \E u \in Uploads : Load(d, u),
           UNCHANGED <<dirs, upload, task>>
    PROVE  DiskInv'
<1>0. /\ d \notin Uploads /\ rows' \subseteq rows /\ UNCHANGED files
      /\ delete \in [Deletes -> [pc    : {"idle", "loaded", "removing", "kept", "failed"},
                                 share : Uploads \cup {NULL}]]
      /\ removal \in [Uploads \cup Deletes -> [pc    : {"none", "running", "done", "stopped", "failed", "lost"},
                                               share : Uploads \cup {NULL},
                                               seen  : SUBSET Paths]]
      /\ DeletesInv
  BY StorageAssumption, DeleteType DEF StorageTypeOK, DiskInv
<1>1. \A e \in Deletes \ {d} : delete'[e] = delete[e] /\ removal'[e] = removal[e]
  BY <1>0 DEF DeleteRow, Load, BeginRemoval
<1>2. \/ delete'[d].pc = "loaded" /\ delete[d].pc = "idle" /\ removal' = removal
      \/ /\ delete[d].pc = "loaded" /\ delete'[d].share = delete[d].share
         /\ \/ /\ rows' = rows \ {delete[d].share} /\ delete'[d].pc = "removing"
               /\ removal'[d].share = delete[d].share
            \/ /\ rows' = rows \ {delete[d].share} /\ delete'[d].pc = "kept"
               /\ removal' = removal
            \/ delete'[d].pc = "failed" /\ removal' = removal
  <2>1. CASE DeleteRow(d)
    BY <1>0, <2>1 DEF DeleteRow, BeginRemoval
  <2>2. CASE \E u \in Uploads : Load(d, u)
    BY <1>0, <2>2 DEF Load
  <2> QED
    BY <2>1, <2>2
<1>3. DeletesInv'
  <2>1. ASSUME NEW e \in Deletes, e # d
        PROVE  /\ delete'[e].pc \in {"removing", "kept"} => delete'[e].share \notin rows'
               /\ removal'[e].pc # "none" => delete'[e].pc = "removing" /\ removal'[e].share = delete'[e].share
    BY <1>0, <1>1, <2>1 DEF DeletesInv
  <2>2. /\ delete'[d].pc \in {"removing", "kept"} => delete'[d].share \notin rows'
        /\ removal'[d].pc # "none" => delete'[d].pc = "removing" /\ removal'[d].share = delete'[d].share
    BY <1>0, <1>2 DEF DeletesInv
  <2> QED
    BY <2>1, <2>2 DEF DeletesInv
<1>4. ASSUME NEW u \in Uploads
      PROVE  Present(u)' => Present(u)
  <2>1. ASSUME NEW e \in Deletes, delete[e].share = u, delete[e].pc = "removing"
        PROVE  delete'[e].share = u /\ delete'[e].pc = "removing"
    BY <1>1, <1>2, <2>1
  <2> QED
    BY <1>0, <2>1 DEF Present
<1>5. ASSUME NEW u \in Uploads
      PROVE  BytesInv(u)'
  <2>1. Untouched(u)
    BY <1>0, <1>4, SameFiles DEF Untouched
  <2> QED
    BY <2>1, UntouchedBytes DEF DiskInv
<1> QED
  BY <1>3, <1>5 DEF DiskInv

\* A crash leaves the disk as it is.
LEMMA CrashDisk ==
    ASSUME StorageTypeOK, DirectoryInv, DiskInv, CrashStorage
    PROVE  DiskInv'
<1>1. /\ upload \in [Uploads -> UploadStates] /\ UNCHANGED <<files, dirs, rows>>
      /\ DeletesInv
  BY DEF StorageTypeOK, CrashStorage, DiskInv
<1>2. ASSUME NEW d \in Deletes
      PROVE  /\ delete'[d].share = delete[d].share
             /\ delete'[d].pc = IF delete[d].pc = "loaded" THEN "failed" ELSE delete[d].pc
             /\ removal'[d].share = removal[d].share
             /\ removal'[d].pc = "none" <=> removal[d].pc = "none"
  BY DEF CrashStorage, StorageTypeOK
<1>3. DeletesInv'
  BY <1>1, <1>2 DEF DeletesInv
<1>4. ASSUME NEW u \in Uploads
      PROVE  BytesInv(u)'
  <2>1. /\ upload'[u].folder = upload[u].folder /\ upload'[u].entries = upload[u].entries
        /\ upload'[u].size = upload[u].size /\ upload'[u].unwritten = 0
        /\ \/ upload'[u].pc = upload[u].pc /\ upload[u].pc \notin InHandler \cup {"respond"}
           \/ upload'[u].pc = "crashed"
    BY <1>1 DEF CrashStorage, CrashedUploads, UploadStates
  <2>2. PathsOf(u)' = PathsOf(u) /\ SizeOf(u)' = SizeOf(u) /\ SizeOf(u) \in Nat
    BY <1>1, SameFiles, SizeType
  <2>3. Present(u)' => Present(u)
    BY <1>1, <1>2, <2>1 DEF Present
  <2>4. BytesInv(u) /\ upload[u].unwritten \in Nat /\ upload[u].size \in Nat
    BY <1>1, StorageAssumption DEF DiskInv, UploadStates
  <2>5. SizeOf(u)' + 0 <= upload[u].size
    BY <2>2, <2>4 DEF BytesInv
  <2>6. Present(u)' => Whole(u)'
    BY <1>1, <2>1, <2>2, <2>3, <2>4 DEF BytesInv, Whole
  <2> QED
    BY <1>1, <2>1, <2>2, <2>4, <2>5, <2>6 DEF BytesInv, InHandler
<1> QED
  BY <1>3, <1>4 DEF DiskInv

LEMMA DiskInit ==
    ASSUME StorageInit
    PROVE  DiskInv
<1>1. \A u \in Uploads : PathsOf(u) = {} /\ SizeOf(u) = 0 /\ ~Present(u)
  BY SumEmpty DEF StorageInit, PathsOf, SizeOf, Present, NoUpload
<1>2. \A u \in Uploads : BytesInv(u)
  BY <1>1, StorageAssumption DEF StorageInit, BytesInv, NoUpload
<1> QED
  BY <1>2 DEF StorageInit, DiskInv, DeletesInv, NoDelete, NoRemoval

LEMMA DiskStep ==
    ASSUME StorageTypeOK, DirectoryInv, DiskInv, [StorageNext]_storageVars
    PROVE  DiskInv'
<1>1. CASE UNCHANGED storageVars
  <2>1. UNCHANGED <<files, dirs, rows, upload, task, removal, delete>>
    BY <1>1 DEF storageVars
  <2>2. \A u \in Uploads : Untouched(u)
    BY <2>1, SameFiles DEF Untouched, Present
  <2>3. \A u \in Uploads : BytesInv(u)'
    BY <2>2, UntouchedBytes DEF DiskInv
  <2> QED
    BY <2>1, <2>3 DEF DiskInv, DeletesInv
<1>2. ASSUME NEW u \in Uploads, Upload(u), UNCHANGED <<delete, crashes>>
      PROVE  DiskInv'
  BY <1>2, UploadDisk
<1>3. ASSUME NEW u \in Uploads, Create(u) \/ WriteBack(u), UNCHANGED <<rows, delete, crashes>>
      PROVE  DiskInv'
  BY <1>3, CreateDisk, WriteBackDisk
<1>4. ASSUME NEW r \in Uploads \cup Deletes, Remove(r), UNCHANGED <<rows, delete, crashes>>
      PROVE  DiskInv'
  BY <1>4, RemoveDisk
<1>5. ASSUME NEW d \in Deletes, DeleteRow(d) \/ \E u \in Uploads : Load(d, u),
             UNCHANGED <<dirs, upload, task, crashes>>
      PROVE  DiskInv'
  BY <1>5, DeleteDisk
<1> QED
  BY <1>1, <1>2, <1>3, <1>4, <1>5, CrashDisk DEF StorageNext, StorageStep

----------------------------------------------------------------------------
(* What stays on the disk, and why.                                        *)

\* No other delete removes the files of the same share.
Alone(d) ==
    \A e \in Deletes \ {d} : ~(delete[e].pc = "removing" /\ delete[e].share = delete[d].share)

\* A delete that has come to its end has left nothing; one that removes the files
\* alone has seen all there is, and does not stop early.
DeletedInv(d) ==
    delete[d].pc = "removing" =>
        LET u == delete[d].share IN
        /\ removal[d].pc # "none"
        /\ removal[d].pc = "done" => Gone(u)
        /\ Alone(d) /\ removal[d].pc = "running" /\ upload[u].folder
              => removal[d].seen = PathsOf(u)
        /\ Alone(d) => removal[d].pc # "stopped"

\* A row that was inserted and is gone was deleted.
RowGoneInv(u) ==
    upload[u].pc \in {"respond", "stored"} /\ u \notin rows =>
        \E d \in Deletes : delete[d].share = u /\ delete[d].pc \in {"removing", "kept"}

EndInv == (\A d \in Deletes : DeletedInv(d)) /\ (\A u \in Uploads : RowGoneInv(u))

\* A delete whose share a step leaves alone.
LEMMA DeletedKept ==
    ASSUME NEW d \in Deletes, DeletedInv(d), removal'[d] = removal[d],
           delete'[d] = delete[d], Alone(d)' => Alone(d),
           delete[d].pc = "removing" =>
              LET u == delete[d].share IN
              /\ upload'[u].folder = upload[u].folder
              /\ PathsOf(u)' = PathsOf(u) /\ (u \in dirs' <=> u \in dirs)
    PROVE  DeletedInv(d)'
BY DEF DeletedInv, Gone

\* A create handler goes on: what a delete removes is in its last step, if any.
LEMMA UploadEnd ==
    ASSUME StorageTypeOK, DirectoryInv, EndInv, NEW u \in Uploads, Upload(u), UNCHANGED delete
    PROVE  EndInv'
<1>1. /\ upload \in [Uploads -> UploadStates] /\ UNCHANGED <<files, dirs>>
      /\ \A w \in Uploads \ {u} : upload'[w] = upload[w]
      /\ \A d \in Deletes : removal'[d] = removal[d]
  BY UploadLocal DEF StorageTypeOK
<1>2. upload[u].pc \in Entered =>
         /\ upload'[u].folder = upload[u].folder /\ upload'[u].pc = "stored"
         /\ upload[u].pc = "respond" /\ rows' = rows
  <2> SUFFICES ASSUME upload[u].pc \in Entered
               PROVE  /\ upload'[u].folder = upload[u].folder /\ upload'[u].pc = "stored"
                      /\ upload[u].pc = "respond" /\ rows' = rows
    OBVIOUS
  <2>1. upload[u].pc = "respond"
    BY UploadOwn DEF Entered
  <2>2. Respond(u)
    BY <2>1 DEF Upload, Begin, FolderReady, NextFile, FileReady, WriteChunk, FileDone, Insert,
                GiveUp, InHandler
  <2>3. upload' = [upload EXCEPT ![u].pc = "stored"] /\ rows' = rows
    BY <2>2 DEF Respond, To
  <2> QED
    BY <1>1, <2>1, <2>3 DEF UploadStates
<1>3. ASSUME NEW d \in Deletes
      PROVE  DeletedInv(d)'
  <2>1. delete[d].pc = "removing" => delete[d].share \in Uploads /\ upload[delete[d].share].pc \in Entered
    BY DEF DirectoryInv, RemovalInv
  <2>2. \A w : PathsOf(w)' = PathsOf(w)
    BY <1>1 DEF PathsOf
  <2>3. Alone(d)' => Alone(d)
    BY DEF Alone
  <2> QED
    BY <1>1, <1>2, <2>1, <2>2, <2>3, DeletedKept DEF EndInv
<1>4. ASSUME NEW w \in Uploads
      PROVE  RowGoneInv(w)'
  <2>1. CASE w = u
    <3>1. CASE upload[u].pc \in Entered
      BY <1>2, <2>1, <3>1 DEF EndInv, RowGoneInv
    <3>2. CASE upload[u].pc \notin Entered
      <4>1. upload'[u].pc \in {"respond", "stored"} => u \in rows'
        <5>1. CASE \E folder \in BOOLEAN : Begin(u, folder)
          BY <1>1, <5>1 DEF Begin
        <5>2. CASE FolderReady(u) \/ NextFile(u) \/ FileReady(u)
          <6>1. u \in DOMAIN upload /\ "pc" \in DOMAIN upload[u]
            BY <1>1 DEF UploadStates
          <6>2. CASE FolderReady(u)
            <7>1. upload'[u].pc = "fields"
              BY <6>1, <6>2 DEF FolderReady
            <7> QED
              BY <7>1
          <6>3. CASE NextFile(u)
            <7>1. upload'[u].pc = "creating"
              BY <6>1, <6>3 DEF NextFile
            <7> QED
              BY <7>1
          <6>4. CASE FileReady(u)
            <7>1. upload'[u].pc = "writing"
              BY <6>1, <6>4 DEF FileReady
            <7> QED
              BY <7>1
          <6> QED
            BY <5>2, <6>2, <6>3, <6>4
        <5>3. CASE WriteChunk(u) \/ FileDone(u)
          <6>1. u \in DOMAIN upload /\ "pc" \in DOMAIN upload[u]
            BY <1>1 DEF UploadStates
          <6>2. CASE WriteChunk(u)
            <7>1. upload[u].pc = "writing"
              BY <6>2 DEF WriteChunk
            <7>2. PICK n : upload' = [upload EXCEPT ![u].size = @ + n, ![u].unwritten = n]
              BY <6>2 DEF WriteChunk
            <7>3. upload'[u].pc = "writing"
              BY <6>1, <7>1, <7>2
            <7> QED
              BY <7>3
          <6>3. CASE FileDone(u)
            <7>1. upload'[u].pc = "fields"
              BY <6>1, <6>3 DEF FileDone
            <7> QED
              BY <7>1
          <6> QED
            BY <5>3, <6>2, <6>3
        <5>4. CASE Insert(u)
          BY <5>4 DEF Insert
        <5>5. CASE Respond(u)
          BY <3>2, <5>5 DEF Respond, Entered
        <5>6. CASE GiveUp(u)
          BY <1>1, <5>6 DEF GiveUp
        <5> QED
          BY <5>1, <5>2, <5>3, <5>4, <5>5, <5>6 DEF Upload
      <4> QED
        BY <2>1, <4>1 DEF RowGoneInv
    <3> QED
      BY <3>1, <3>2
  <2>2. CASE w # u
    <3>1. w \in rows => w \in rows'
      BY DEF Upload, Begin, FolderReady, NextFile, FileReady, WriteChunk, FileDone, Insert,
             Respond, GiveUp
    <3> QED
      BY <1>1, <2>2, <3>1 DEF EndInv, RowGoneInv
  <2> QED
    BY <2>1, <2>2
<1> QED
  BY <1>3, <1>4 DEF EndInv

\* A blocking thread creates only for an upload that is going on or given up,
\* and a write creates nothing.
LEMMA ThreadEnd ==
    ASSUME StorageTypeOK, DirectoryInv, EndInv, NEW u \in Uploads, Create(u) \/ WriteBack(u),
           UNCHANGED <<rows, delete>>
    PROVE  EndInv'
<1>1. /\ upload \in [Uploads -> UploadStates] /\ files \in [DOMAIN files -> Nat]
      /\ UNCHANGED removal
  BY DEF StorageTypeOK, Create, WriteBack
<1>2. \A w \in Uploads : upload'[w].pc = upload[w].pc /\ upload'[w].folder = upload[w].folder
  BY <1>1 DEF Create, WriteBack, UploadStates
<1>3. ASSUME NEW w \in Uploads, upload[w].pc \in Entered
      PROVE  PathsOf(w)' = PathsOf(w) /\ (w \in dirs' <=> w \in dirs)
  <2>1. CASE Create(u)
    <3>1. w # u
      BY <1>3, <2>1 DEF Create, DirectoryInv, UploadInv, Entered
    <3>2. DOMAIN files' = DOMAIN files \/ DOMAIN files' = DOMAIN files \cup {Target(u)}
      BY <1>1, <2>1, PutFile DEF Create
    <3>3. dirs' = dirs \/ dirs' = dirs \cup {u}
      BY <2>1 DEF Create
    <3> QED
      BY <3>1, <3>2, <3>3 DEF PathsOf, Target
  <2>2. CASE WriteBack(u)
    <3>1. DOMAIN files' = DOMAIN files /\ UNCHANGED dirs
      BY <2>2, WriteBackType DEF WriteBack
    <3> QED
      BY <3>1 DEF PathsOf
  <2> QED
    BY <2>1, <2>2
<1>4. ASSUME NEW d \in Deletes
      PROVE  DeletedInv(d)'
  <2>1. delete[d].pc = "removing" => delete[d].share \in Uploads /\ upload[delete[d].share].pc \in Entered
    BY DEF DirectoryInv, RemovalInv
  <2>2. Alone(d)' => Alone(d)
    BY DEF Alone
  <2> QED
    BY <1>1, <1>2, <1>3, <2>1, <2>2, DeletedKept DEF EndInv
<1>5. \A w \in Uploads : RowGoneInv(w)'
  BY <1>2 DEF EndInv, RowGoneInv
<1> QED
  BY <1>4, <1>5 DEF EndInv

\* A removal takes what it has seen, and nothing from the share of another
\* delete that removes alone.
LEMMA RemoveEnd ==
    ASSUME StorageTypeOK, DirectoryInv, DeletesInv, EndInv,
           NEW r \in Uploads \cup Deletes, Remove(r), UNCHANGED <<rows, delete>>
    PROVE  EndInv'
<1>1. removal[r].pc = "running"
  BY DEF Remove, RemoveFile, RemoveEntry, RemoveDir, RemovalFails
<1>2. removal[r].share \in Uploads
  BY <1>1 DEF DirectoryInv, RemovalInv
<1>3. PICK u \in Uploads : removal[r].share = u
  BY <1>2
<1>4. PICK S : removal[r].seen = S
  OBVIOUS
<1>5. OnlyTakes(r, u, S)
  BY <1>3, <1>4, RemoveOnlyTakes
<1>6. /\ UNCHANGED <<upload, task>>
      /\ \A q \in (Uploads \cup Deletes) \ {r} : removal'[q] = removal[q]
      /\ removal'[r].pc \in {"running", "done", "stopped", "failed"}
  BY <1>3, <1>4, RemoveEffect DEF RemovalEffect
<1>7. ASSUME NEW d \in Deletes, delete[d].pc = "removing", d = r
      PROVE  DeletedInv(d)'
  <2>1. delete[d].share = u /\ UNCHANGED delete
    BY <1>1, <1>3, <1>7 DEF DeletesInv
  <2>2. Alone(d) /\ upload[u].folder => S = PathsOf(u)
    BY <1>1, <1>4, <1>7, <2>1 DEF EndInv, DeletedInv
  <2>3. Alone(d)' => Alone(d)
    BY DEF Alone
  <2>4. /\ removal'[d].pc # "none"
        /\ removal'[d].pc = "done" => Gone(u)'
    BY <1>5, <1>6, <1>7 DEF OnlyTakes, Gone
  <2>5. Alone(d)' => /\ removal'[d].pc = "running" /\ upload'[u].folder
                            => removal'[d].seen = PathsOf(u)'
                     /\ removal'[d].pc # "stopped"
    BY <1>5, <1>6, <1>7, <2>2, <2>3 DEF OnlyTakes
  <2> QED
    BY <2>1, <2>4, <2>5 DEF DeletedInv
<1>8. ASSUME NEW d \in Deletes, delete[d].pc = "removing", d # r
      PROVE  DeletedInv(d)'
  <2>0. /\ DeletedInv(d) /\ d \in Uploads \cup Deletes
        /\ UNCHANGED delete /\ (Alone(d)' => Alone(d)) /\ removal'[d] = removal[d]
    BY <1>6, <1>8 DEF EndInv, Alone
  <2>1. delete[d].share \in Uploads /\ upload[delete[d].share].pc \in Entered
    BY <1>8 DEF DirectoryInv, RemovalInv
  <2>2. CASE delete[d].share = u
    <3>1. r \in Deletes
      BY <1>1, <1>3, <2>1, <2>2 DEF DirectoryInv, RemovalInv, Entered
    <3>2. ~Alone(d)
      BY <1>1, <1>3, <1>8, <2>2, <3>1 DEF DeletesInv, Alone
    <3>3. Gone(u) => Gone(u)'
      BY <1>5 DEF OnlyTakes, Gone
    <3> QED
      BY <1>8, <2>0, <2>2, <3>2, <3>3 DEF DeletedInv
  <2>3. CASE delete[d].share # u
    BY <1>5, <1>6, <2>0, <2>1, <2>3, DeletedKept DEF OnlyTakes
  <2> QED
    BY <2>2, <2>3
<1>9. \A d \in Deletes : DeletedInv(d)'
  BY <1>7, <1>8 DEF DeletedInv
<1>10. \A w \in Uploads : RowGoneInv(w)'
  BY <1>6 DEF EndInv, RowGoneInv
<1> QED
  BY <1>9, <1>10 DEF EndInv

\* A delete sees all files of its share when it begins to remove them.
LEMMA DeleteEnd ==
    ASSUME StorageTypeOK, DirectoryInv, EndInv, NEW d \in Deletes,
           DeleteRow(d) \/ \E u \in Uploads : Load(d, u),
           UNCHANGED <<dirs, upload, task>>
    PROVE  EndInv'
<1>0. /\ d \notin Uploads /\ UNCHANGED files
      /\ delete \in [Deletes -> [pc    : {"idle", "loaded", "removing", "kept", "failed"},
                                 share : Uploads \cup {NULL}]]
      /\ removal \in [Uploads \cup Deletes -> [pc    : {"none", "running", "done", "stopped", "failed", "lost"},
                                               share : Uploads \cup {NULL},
                                               seen  : SUBSET Paths]]
  BY StorageAssumption, DeleteType DEF StorageTypeOK
<1>1. \A e \in Deletes \ {d} : delete'[e] = delete[e] /\ removal'[e] = removal[e]
  BY <1>0 DEF DeleteRow, Load, BeginRemoval
<1>2. \/ delete'[d].pc \in {"loaded", "failed"} /\ delete[d].pc \in {"idle", "loaded"} /\ rows' = rows
      \/ /\ delete[d].pc = "loaded" /\ delete'[d].share = delete[d].share
         /\ rows' = rows \ {delete[d].share}
         /\ \/ /\ delete'[d].pc = "removing" /\ removal'[d].pc = "running"
               /\ removal'[d].seen = PathsOf(delete[d].share)
            \/ delete'[d].pc = "kept"
  <2>1. CASE DeleteRow(d)
    BY <1>0, <2>1 DEF DeleteRow, BeginRemoval
  <2>2. CASE \E u \in Uploads : Load(d, u)
    BY <1>0, <2>2 DEF Load
  <2> QED
    BY <2>1, <2>2
<1>3. \A w : PathsOf(w)' = PathsOf(w)
  BY <1>0 DEF PathsOf
<1>4. DeletedInv(d)'
  BY <1>2, <1>3 DEF DeletedInv
<1>5. ASSUME NEW e \in Deletes, e # d
      PROVE  DeletedInv(e)'
  <2>1. Alone(e)' => Alone(e)
    <3>1. delete[d].pc = "removing" => delete'[d] = delete[d]
      BY <1>2
    <3>2. ASSUME NEW x \in Deletes, delete[x].pc = "removing"
          PROVE  delete'[x] = delete[x]
      BY <1>1, <3>1, <3>2
    <3>3. delete'[e] = delete[e]
      BY <1>1, <1>5
    <3> QED
      BY <3>2, <3>3 DEF Alone
  <2> QED
    BY <1>1, <1>3, <1>5, <2>1, DeletedKept DEF EndInv
<1>6. ASSUME NEW w \in Uploads
      PROVE  RowGoneInv(w)'
  <2>1. CASE w \in rows /\ w \notin rows'
    BY <1>2, <2>1 DEF RowGoneInv
  <2>2. CASE w \notin rows
    <3>1. \A e \in Deletes : delete[e].pc \in {"removing", "kept"} => delete'[e] = delete[e]
      BY <1>1, <1>2
    <3> QED
      BY <2>2, <3>1 DEF EndInv, RowGoneInv
  <2> QED
    BY <2>1, <2>2 DEF RowGoneInv
<1> QED
  BY <1>4, <1>5, <1>6 DEF EndInv

\* A crash ends removals before their end.
LEMMA CrashEnd ==
    ASSUME StorageTypeOK, DirectoryInv, EndInv, CrashStorage
    PROVE  EndInv'
<1>1. /\ upload \in [Uploads -> UploadStates] /\ UNCHANGED <<files, dirs, rows>>
      /\ \A w : PathsOf(w)' = PathsOf(w)
  BY DEF StorageTypeOK, CrashStorage, PathsOf
<1>2. ASSUME NEW w \in Uploads
      PROVE  /\ upload'[w].folder = upload[w].folder
             /\ upload'[w].pc \in {"respond", "stored"} => upload'[w].pc = upload[w].pc
  <2>1. \/ upload'[w] = [upload[w] EXCEPT !.pc = "crashed", !.guard = FALSE, !.unwritten = 0]
        \/ upload'[w] = [upload[w] EXCEPT !.unwritten = 0]
    <3>1. upload'[w] = IF upload[w].pc \in InHandler \cup {"respond"}
                       THEN [upload[w] EXCEPT !.pc = "crashed", !.guard = FALSE, !.unwritten = 0]
                       ELSE [upload[w] EXCEPT !.unwritten = 0]
      BY Zenon DEF CrashStorage, CrashedUploads
    <3> QED
      BY <3>1
  <2>2. upload[w] \in UploadStates
    BY <1>1
  <2> QED
    BY <2>1, <2>2 DEF UploadStates
<1>3. ASSUME NEW d \in Deletes
      PROVE  /\ delete'[d].share = delete[d].share
             /\ delete'[d].pc = IF delete[d].pc = "loaded" THEN "failed" ELSE delete[d].pc
             /\ \/ removal[d].pc = "running" /\ removal'[d].pc = "lost"
                \/ removal[d].pc # "running" /\ removal'[d] = removal[d]
  BY DEF CrashStorage, StorageTypeOK
<1>4. ASSUME NEW d \in Deletes
      PROVE  DeletedInv(d)'
  <2>1. Alone(d)' => Alone(d)
    BY <1>3 DEF Alone
  <2>2. delete'[d].pc = "removing" => delete[d].pc = "removing" /\ delete'[d].share = delete[d].share
    BY <1>3
  <2> QED
    BY <1>1, <1>3, <2>1, <2>2 DEF EndInv, DeletedInv, Gone
<1>5. \A w \in Uploads : RowGoneInv(w)'
  BY <1>1, <1>2, <1>3 DEF EndInv, RowGoneInv
<1> QED
  BY <1>4, <1>5 DEF EndInv

LEMMA EndStep ==
    ASSUME StorageTypeOK, DirectoryInv, DiskInv, EndInv, [StorageNext]_storageVars
    PROVE  EndInv'
<1>1. CASE UNCHANGED storageVars
  <2>1. UNCHANGED <<files, dirs, rows, upload, removal, delete>>
    BY <1>1 DEF storageVars
  <2>2. \A w : PathsOf(w)' = PathsOf(w)
    BY <2>1 DEF PathsOf
  <2>3. \A d \in Deletes : DeletedInv(d)'
    BY <2>1, <2>2, DeletedKept DEF EndInv, Alone
  <2> QED
    BY <2>1, <2>3 DEF EndInv, RowGoneInv
<1>2. ASSUME NEW u \in Uploads, Upload(u), UNCHANGED <<delete, crashes>>
      PROVE  EndInv'
  BY <1>2, UploadEnd
<1>3. ASSUME NEW u \in Uploads, Create(u) \/ WriteBack(u), UNCHANGED <<rows, delete, crashes>>
      PROVE  EndInv'
  BY <1>3, ThreadEnd
<1>4. ASSUME NEW r \in Uploads \cup Deletes, Remove(r), UNCHANGED <<rows, delete, crashes>>
      PROVE  EndInv'
  BY <1>4, RemoveEnd DEF DiskInv
<1>5. ASSUME NEW d \in Deletes, DeleteRow(d) \/ \E u \in Uploads : Load(d, u),
             UNCHANGED <<dirs, upload, task, crashes>>
      PROVE  EndInv'
  BY <1>5, DeleteEnd
<1> QED
  BY <1>1, <1>2, <1>3, <1>4, <1>5, CrashEnd DEF StorageNext, StorageStep

LEMMA EndInit ==
    ASSUME StorageInit
    PROVE  EndInv
BY DEF StorageInit, EndInv, DeletedInv, RowGoneInv, NoUpload, NoDelete

----------------------------------------------------------------------------
(* The downloads.                                                          *)

FetchStates == [pc    : {"idle", "failed", "refused", "ended", "unremoved", "lost"}
                           \cup FetchInFlight,
                share : Uploads \cup {NULL},
                parts : SUBSET (Slots \cup {NULL}),
                size  : Nat,
                left  : {"idle"} \cup FetchInFlight]

ZipStates == [pc    : {"none", "create", "copy", "ok", "error"},
              todo  : SUBSET Slots,
              parts : SUBSET Slots,
              size  : Nat]

\* Every variable of a download has its type, and its archive its owner.
FetchesOK ==
    /\ fetch \in [Fetches -> FetchStates]
    /\ zip \in [Fetches -> ZipStates]
    /\ archives \subseteq Fetches
    /\ ArchiveInv

\* The invariant of a download, of its own state only
ArchiveInvOf(F, Z, exists) ==
    /\ F.pc \in {"idle", "loaded"} => Z.pc = "none" /\ ~exists
    /\ Z.pc \in {"create", "copy"} =>
          \/ F.pc = "building"
          \/ F.pc = "failed" /\ F.left = "building"
    /\ exists =>
          \/ F.pc \in FetchInFlight \cup {"unremoved", "lost"}
          \/ F.pc = "failed" /\ F.left \in {"building", "opening", "measuring"}
    /\ F.pc # "idle" => F.share \in Uploads

\* A step of one download that keeps its own invariant keeps that of all.
LEMMA FetchLocal ==
    ASSUME FetchesOK, NEW f \in Fetches,
           NEW F \in FetchStates, NEW Z \in ZipStates, NEW exists \in BOOLEAN,
           fetch' = [fetch EXCEPT ![f] = F],
           zip' = [zip EXCEPT ![f] = Z],
           archives' = IF exists THEN archives \cup {f} ELSE archives \ {f},
           ArchiveInvOf(F, Z, exists)
    PROVE  FetchesOK'
<1>1. /\ fetch' \in [Fetches -> FetchStates] /\ zip' \in [Fetches -> ZipStates]
      /\ archives' \subseteq Fetches
  BY DEF FetchesOK
<1>2. ASSUME NEW g \in Fetches
      PROVE  ArchiveInvOf(fetch'[g], zip'[g], g \in archives')
  <2>1. CASE g = f
    BY <2>1 DEF FetchesOK, ArchiveInvOf
  <2>2. CASE g # f
    <3>1. fetch'[g] = fetch[g] /\ zip'[g] = zip[g] /\ (g \in archives' <=> g \in archives)
      BY <2>2
    <3> QED
      BY <3>1 DEF FetchesOK, ArchiveInv, ArchiveInvOf
  <2> QED
    BY <2>1, <2>2
<1>3. ArchiveInv'
  BY <1>2 DEF ArchiveInv, ArchiveInvOf
<1> QED
  BY <1>1, <1>3 DEF FetchesOK

LEMMA FetchStep ==
    ASSUME StorageTypeOK, DirectoryInv, FetchesOK, NEW f \in Fetches, Fetch(f),
           UNCHANGED storageVars
    PROVE  FetchesOK'
<1>0. /\ fetch \in [Fetches -> FetchStates] /\ zip \in [Fetches -> ZipStates]
      /\ fetch[f] \in FetchStates /\ zip[f] \in ZipStates
      /\ ArchiveInvOf(fetch[f], zip[f], f \in archives)
  BY DEF FetchesOK, ArchiveInv, ArchiveInvOf
<1>1. PICK F : F = fetch[f]
  OBVIOUS
<1>2. PICK Z : Z = zip[f]
  OBVIOUS
<1>3. PICK exists \in BOOLEAN : exists <=> f \in archives
  OBVIOUS
<1>4. /\ F \in FetchStates /\ Z \in ZipStates /\ ArchiveInvOf(F, Z, exists)
      /\ archives = IF exists THEN archives \cup {f} ELSE archives \ {f}
  BY <1>0, <1>1, <1>2, <1>3
<1>a. /\ UNCHANGED fetch => fetch' = [fetch EXCEPT ![f] = F]
      /\ UNCHANGED zip => zip' = [zip EXCEPT ![f] = Z]
      /\ UNCHANGED archives => archives' = IF exists THEN archives \cup {f} ELSE archives \ {f}
  BY <1>0, <1>1, <1>2, <1>4
<1>5. ASSUME NEW pc \in {"idle", "failed", "refused", "ended", "unremoved", "lost"} \cup FetchInFlight,
             NEW G \in FetchStates, G = [F EXCEPT !.pc = pc]
      PROVE  /\ G.pc = pc /\ G.share = F.share /\ G.left = F.left
  BY <1>4, <1>5 DEF FetchStates
<1>6. ASSUME NEW pc \in {"idle", "failed", "refused", "ended", "unremoved", "lost"} \cup FetchInFlight,
             FetchTo(f, pc)
      PROVE  \E G \in FetchStates : /\ fetch' = [fetch EXCEPT ![f] = G]
                                     /\ G.pc = pc /\ G.share = F.share /\ G.left = F.left
  <2>1. [F EXCEPT !.pc = pc] \in FetchStates
    BY <1>4 DEF FetchStates
  <2>2. fetch' = [fetch EXCEPT ![f] = [F EXCEPT !.pc = pc]]
    BY <1>0, <1>1, <1>6 DEF FetchTo
  <2> QED
    BY <1>5, <2>1, <2>2
<1>7. ASSUME FetchFails(f), F.pc \in {"loaded", "building", "opening", "measuring"}
      PROVE  \E G \in FetchStates : /\ fetch' = [fetch EXCEPT ![f] = G]
                                     /\ G.pc = "failed" /\ G.share = F.share /\ G.left = F.pc
  <2> DEFINE G == [F EXCEPT !.pc = "failed", !.left = F.pc]
  <2>1. G \in FetchStates
    BY <1>4, <1>7 DEF FetchStates, FetchInFlight
  <2>2. G.pc = "failed" /\ G.share = F.share /\ G.left = F.pc
    BY <1>4 DEF FetchStates
  <2>3. fetch' = [fetch EXCEPT ![f] = G]
    BY <1>0, <1>1, <1>7 DEF FetchFails
  <2> QED
    BY <2>1, <2>2, <2>3
<1>8. {"loaded", "building", "discarding", "opening", "measuring", "owned", "streaming"}
         = FetchInFlight
  BY DEF FetchInFlight
<1>9. ASSUME FetchFails(f), F.pc \in {"loaded", "building", "opening", "measuring"},
             UNCHANGED <<zip, archives>>
      PROVE  FetchesOK'
  <2>1. PICK G \in FetchStates : /\ fetch' = [fetch EXCEPT ![f] = G]
                                 /\ G.pc = "failed" /\ G.share = F.share /\ G.left = F.pc
    BY <1>7, <1>9
  <2>2. ArchiveInvOf(G, Z, exists)
    BY <1>4, <1>8, <1>9, <2>1 DEF ArchiveInvOf
  <2>3. /\ zip' = [zip EXCEPT ![f] = Z]
        /\ archives' = IF exists THEN archives \cup {f} ELSE archives \ {f}
    BY <1>a, <1>9
  <2> QED
    BY <1>4, <2>1, <2>2, <2>3, FetchLocal
<1>10. ASSUME NEW u \in Uploads, LoadShare(f, u)
       PROVE  FetchesOK'
  <2> DEFINE G == [F EXCEPT !.pc = "loaded", !.share = u]
  <2>1. G \in FetchStates
    BY <1>4 DEF FetchStates, FetchInFlight
  <2>2. G.pc = "loaded" /\ G.share = u
    BY <1>4 DEF FetchStates
  <2>3. fetch' = [fetch EXCEPT ![f] = G] /\ UNCHANGED <<zip, archives>> /\ F.pc = "idle"
    BY <1>0, <1>1, <1>10 DEF LoadShare
  <2> HIDE DEF G
  <2>4. ArchiveInvOf(G, Z, exists)
    BY <1>4, <2>2, <2>3 DEF ArchiveInvOf, FetchInFlight
  <2>5. /\ fetch' = [fetch EXCEPT ![f] = G]
        /\ zip' = [zip EXCEPT ![f] = Z]
        /\ archives' = IF exists THEN archives \cup {f} ELSE archives \ {f}
    BY <1>a, <2>3
  <2> QED
    BY <1>4, <2>1, <2>4, <2>5, FetchLocal
<1>11. CASE OpenFile(f)
  <2>1. CASE FetchFails(f)
    BY <1>1, <1>9, <1>11, <2>1 DEF OpenFile
  <2>2. ASSUME NEW n \in Nat,
               fetch' = [fetch EXCEPT ![f].pc = "owned", ![f].parts = {NULL}, ![f].size = n]
        PROVE  FetchesOK'
    <3> DEFINE G == [F EXCEPT !.pc = "owned", !.parts = {NULL}, !.size = n]
    <3>1. G \in FetchStates
      BY <1>4 DEF FetchStates, FetchInFlight
    <3>2. G.pc = "owned" /\ G.share = F.share
      BY <1>4 DEF FetchStates
    <3>3. fetch' = [fetch EXCEPT ![f] = G] /\ UNCHANGED <<zip, archives>> /\ F.pc = "loaded"
      BY <1>0, <1>1, <1>11, <2>2 DEF OpenFile
    <3> HIDE DEF G
    <3>4. ArchiveInvOf(G, Z, exists)
      BY <1>4, <3>2, <3>3 DEF ArchiveInvOf, FetchInFlight
    <3>5. /\ fetch' = [fetch EXCEPT ![f] = G]
          /\ zip' = [zip EXCEPT ![f] = Z]
          /\ archives' = IF exists THEN archives \cup {f} ELSE archives \ {f}
      BY <1>a, <3>3
    <3> QED
      BY <1>4, <3>1, <3>4, <3>5, FetchLocal
  <2> QED
    BY <1>11, <2>1, <2>2 DEF OpenFile, StorageTypeOK
<1>12. CASE ListEntries(f)
  <2>1. CASE FetchFails(f) /\ UNCHANGED zip
    BY <1>1, <1>9, <1>12, <2>1 DEF ListEntries
  <2>2. CASE /\ FetchTo(f, "building")
             /\ zip' = [zip EXCEPT ![f] = [NoZip EXCEPT !.pc = "create",
                                                        !.todo = upload[fetch[f].share].entries]]
    <3>1. fetch[f].share \in Uploads /\ upload[fetch[f].share].folder /\ F.pc = "loaded"
          /\ UNCHANGED archives
      BY <1>0, <1>1, <1>12 DEF ListEntries, ArchiveInvOf
    <3>2. PICK E : E = upload[fetch[f].share].entries
      OBVIOUS
    <3>3. E \in SUBSET Slots
      <4>1. upload[fetch[f].share] \in UploadStates /\ NULL \notin E
        BY <3>1, <3>2 DEF StorageTypeOK, DirectoryInv, UploadInv
      <4>2. E \in SUBSET (Slots \cup {NULL})
        BY <3>2, <4>1 DEF UploadStates
      <4> QED
        BY <4>1, <4>2
    <3> DEFINE Y == [NoZip EXCEPT !.pc = "create", !.todo = E]
    <3>4. Y \in ZipStates /\ Y.pc = "create"
      BY <3>3 DEF NoZip, ZipStates
    <3>5. zip' = [zip EXCEPT ![f] = Y]
      BY <2>2, <3>2
    <3> HIDE DEF Y
    <3>6. PICK G \in FetchStates : /\ fetch' = [fetch EXCEPT ![f] = G]
                                   /\ G.pc = "building" /\ G.share = F.share
      BY <1>6, <1>8, <2>2
    <3>7. ArchiveInvOf(G, Y, exists)
      BY <1>4, <3>1, <3>4, <3>6 DEF ArchiveInvOf, FetchInFlight
    <3> QED
      BY <1>4, <3>1, <3>4, <3>5, <3>6, <3>7, FetchLocal
  <2> QED
    BY <1>12, <2>1, <2>2 DEF ListEntries
<1>13. ASSUME NEW pc \in {"copy", "ok", "error"}, zip' = [zip EXCEPT ![f].pc = pc],
              UNCHANGED fetch, NEW made \in BOOLEAN,
              archives' = IF made THEN archives \cup {f} ELSE archives,
              Z.pc \in {"create", "copy"}
       PROVE  FetchesOK'
  <2> DEFINE Y == [Z EXCEPT !.pc = pc]
  <2>1. Y \in ZipStates /\ Y.pc = pc
    BY <1>4 DEF ZipStates
  <2>2. zip' = [zip EXCEPT ![f] = Y]
    BY <1>0, <1>2, <1>13
  <2> HIDE DEF Y
  <2>3. ArchiveInvOf(F, Y, exists \/ made)
    BY <1>4, <1>13, <2>1 DEF ArchiveInvOf, FetchInFlight
  <2>4. archives' = IF exists \/ made THEN archives \cup {f} ELSE archives \ {f}
    BY <1>3, <1>4, <1>13
  <2> QED
    BY <1>4, <1>a, <1>13, <2>1, <2>2, <2>3, <2>4, FetchLocal
<1>14. CASE CreateArchive(f) \/ FinishZip(f)
  BY <1>2, <1>13, <1>14 DEF CreateArchive, FinishZip, ZipFails
<1>15. CASE CopyEntry(f)
  <2>1. CASE ZipFails(f)
    BY <1>2, <1>13, <1>15, <2>1 DEF CopyEntry, ZipFails
  <2>2. ASSUME NEW e \in Z.todo, NEW n \in Nat,
               zip' = [zip EXCEPT ![f].todo = @ \ {e}, ![f].parts = @ \cup {e}, ![f].size = @ + n]
        PROVE  FetchesOK'
    <3> DEFINE Y == [Z EXCEPT !.todo = @ \ {e}, !.parts = @ \cup {e}, !.size = @ + n]
    <3>1. Z.todo \in SUBSET Slots /\ Z.parts \in SUBSET Slots /\ Z.size \in Nat
      BY <1>4 DEF ZipStates
    <3>2. Z.todo \ {e} \in SUBSET Slots /\ Z.parts \cup {e} \in SUBSET Slots /\ Z.size + n \in Nat
      BY <2>2, <3>1
    <3>3. Y \in ZipStates /\ Y.pc = Z.pc
      BY <1>4, <3>2 DEF ZipStates
    <3>4. zip' = [zip EXCEPT ![f] = Y]
      BY <1>0, <1>2, <2>2
    <3> HIDE DEF Y
    <3>5. ArchiveInvOf(F, Y, exists) /\ UNCHANGED <<fetch, archives>>
      BY <1>4, <1>15, <3>3 DEF ArchiveInvOf, CopyEntry
    <3>6. ArchiveInvOf(F, Y, exists)
      BY <3>5
    <3>7. /\ fetch' = [fetch EXCEPT ![f] = F]
          /\ zip' = [zip EXCEPT ![f] = Y]
          /\ archives' = IF exists THEN archives \cup {f} ELSE archives \ {f}
      BY <1>a, <3>4, <3>5
    <3> QED
      BY <1>4, <3>3, <3>6, <3>7, FetchLocal
  <2> QED
    BY <1>2, <1>15, <2>1, <2>2 DEF CopyEntry, StorageTypeOK
<1>16. ASSUME NEW pc \in {"opening", "discarding", "refused", "measuring", "streaming", "ended",
                           "unremoved"},
              FetchTo(f, pc),
              NEW gone \in BOOLEAN, UNCHANGED zip,
              archives' = IF gone THEN archives \ {f} ELSE archives,
              F.pc # "idle", Z.pc \notin {"create", "copy"},
              gone \/ pc \in FetchInFlight \cup {"unremoved"}
       PROVE  FetchesOK'
  <2>1. PICK G \in FetchStates : /\ fetch' = [fetch EXCEPT ![f] = G]
                                 /\ G.pc = pc /\ G.share = F.share
    BY <1>6, <1>8, <1>16
  <2>2. ArchiveInvOf(G, Z, exists /\ ~gone)
    BY <1>4, <1>16, <2>1 DEF ArchiveInvOf, FetchInFlight
  <2>3. archives' = IF exists /\ ~gone THEN archives \cup {f} ELSE archives \ {f}
    BY <1>3, <1>4, <1>16
  <2> QED
    BY <1>4, <1>a, <1>16, <2>1, <2>2, <2>3, FetchLocal
<1>17. F.pc \in FetchInFlight \ {"loaded", "building"} => Z.pc \notin {"create", "copy"}
  BY <1>4, <1>8 DEF ArchiveInvOf
<1>18. CASE Built(f)
  BY <1>1, <1>2, <1>8, <1>16, <1>18 DEF Built
<1>19. CASE BuildFailed(f)
  BY <1>1, <1>2, <1>8, <1>16, <1>19 DEF BuildFailed
<1>25. ASSUME NEW pc \in {"refused", "ended"}, RemoveArchive(f, pc),
              F.pc \in {"discarding", "owned", "streaming"}
       PROVE  FetchesOK'
  <2>1. F.pc # "idle" /\ Z.pc \notin {"create", "copy"}
    BY <1>8, <1>17, <1>25
  <2>2. CASE archives' = archives \ {f} /\ FetchTo(f, pc)
    BY <1>16, <1>25, <2>1, <2>2 DEF RemoveArchive
  <2>3. CASE UNCHANGED archives /\ FetchTo(f, "unremoved")
    BY <1>16, <1>25, <2>1, <2>3 DEF RemoveArchive
  <2> QED
    BY <1>25, <2>2, <2>3 DEF RemoveArchive
<1>26. CASE Discard(f)
  BY <1>1, <1>25, <1>26 DEF Discard
<1>20. CASE OpenArchive(f)
  BY <1>1, <1>8, <1>9, <1>16, <1>17, <1>20 DEF OpenArchive
<1>21. CASE Measure(f)
  <2>1. CASE FetchFails(f)
    BY <1>1, <1>9, <1>21, <2>1 DEF Measure
  <2>2. CASE fetch' = [fetch EXCEPT ![f].pc = "owned", ![f].parts = zip[f].parts, ![f].size = zip[f].size]
    <3> DEFINE G == [F EXCEPT !.pc = "owned", !.parts = Z.parts, !.size = Z.size]
    <3>0. Z.parts \in SUBSET (Slots \cup {NULL}) /\ Z.size \in Nat
      BY <1>4 DEF ZipStates
    <3>1. G \in FetchStates
      BY <1>4, <3>0 DEF FetchStates, FetchInFlight
    <3>2. G.pc = "owned" /\ G.share = F.share
      BY <1>4 DEF FetchStates
    <3>3. fetch' = [fetch EXCEPT ![f] = G] /\ UNCHANGED <<zip, archives>> /\ F.pc = "measuring"
      BY <1>0, <1>1, <1>2, <1>21, <2>2 DEF Measure
    <3> HIDE DEF G
    <3>4. ArchiveInvOf(G, Z, exists)
      BY <1>4, <3>2, <3>3 DEF ArchiveInvOf, FetchInFlight
    <3>5. /\ fetch' = [fetch EXCEPT ![f] = G]
          /\ zip' = [zip EXCEPT ![f] = Z]
          /\ archives' = IF exists THEN archives \cup {f} ELSE archives \ {f}
      BY <1>a, <3>3
    <3> QED
      BY <1>4, <3>1, <3>4, <3>5, FetchLocal
  <2> QED
    BY <1>21, <2>1, <2>2 DEF Measure
<1>22. CASE Stream(f)
  BY <1>1, <1>8, <1>16, <1>17, <1>22 DEF Stream
<1>23. CASE DropFile(f)
  BY <1>1, <1>25, <1>23 DEF DropFile
<1>24. CASE CancelFetch(f)
  BY <1>1, <1>9, <1>24 DEF CancelFetch
<1> QED
  BY <1>10, <1>11, <1>12, <1>14, <1>15, <1>18, <1>19, <1>20, <1>21, <1>22, <1>23, <1>24,
     <1>26 DEF Fetch

LEMMA CrashFetchesStep ==
    ASSUME FetchesOK, CrashFetches
    PROVE  FetchesOK'
<1>1. NoZip \in ZipStates /\ NoZip.pc = "none"
  BY DEF NoZip, ZipStates
<1>2. ASSUME NEW f \in Fetches
      PROVE  /\ [fetch[f] EXCEPT !.pc = "lost"] \in FetchStates
             /\ [fetch[f] EXCEPT !.pc = "lost"].pc = "lost"
             /\ [fetch[f] EXCEPT !.pc = "lost"].share = fetch[f].share
  BY DEF FetchesOK, FetchStates
<1>3. ASSUME NEW f \in Fetches
      PROVE  /\ fetch'[f] \in FetchStates
             /\ IF fetch[f].pc \in FetchInFlight
                THEN fetch'[f].pc = "lost" /\ fetch'[f].share = fetch[f].share
                ELSE fetch'[f] = fetch[f]
             /\ zip'[f] = NoZip
  BY <1>2 DEF CrashFetches, FetchesOK
<1>4. /\ fetch' \in [Fetches -> FetchStates] /\ zip' \in [Fetches -> ZipStates]
      /\ archives' \subseteq Fetches
  BY <1>1, <1>3 DEF CrashFetches, FetchesOK
<1>5. ArchiveInv'
  BY <1>1, <1>3 DEF CrashFetches, FetchesOK, ArchiveInv, FetchInFlight
<1> QED
  BY <1>4, <1>5 DEF FetchesOK

----------------------------------------------------------------------------
(* What a download has of the upload it serves.                            *)

\* w are the sizes of the files of u when its row was inserted; some of the
\* files may be gone since.
Uploaded(u, w) ==
    /\ upload[u].pc \in Entered
    /\ \A p \in {u} \X upload[u].entries : w[p] \in Nat
    /\ SumFunctionOnSet(w, {u} \X upload[u].entries) = upload[u].size
    /\ \A p \in PathsOf(u) : p[2] \in upload[u].entries /\ files[p] = w[p]

\* A download F with the thread Z has copied some of the n bytes of the entries E.
Copies(F, Z, E, n, w) ==
    /\ F.pc \in {"building", "opening", "measuring"} /\ Z.pc # "error" =>
          /\ Z.parts \cup Z.todo = E /\ Z.parts \cap Z.todo = {}
          /\ Z.size = SumFunctionOnSet(w, {F.share} \X Z.parts)
          /\ Z.pc = "ok" => Z.todo = {}
    /\ F.pc \in {"opening", "measuring"} => Z.pc = "ok"
    /\ F.pc \in {"owned", "streaming"} => F.parts = E /\ F.size = n

Serves(f) ==
    LET u == fetch[f].share IN
    fetch[f].pc # "idle" =>
        \E w : Uploaded(u, w) /\ Copies(fetch[f], zip[f], upload[u].entries, upload[u].size, w)

ServesInv == \A f \in Fetches : Serves(f)

\* A share in the database has the sizes that its files have.
LEMMA RowUploaded ==
    ASSUME StorageTypeOK, DirectoryInv, DiskInv, NEW u \in Uploads, u \in rows
    PROVE  Uploaded(u, files)
<1>1. Whole(u)
  BY DEF DiskInv, BytesInv, Present
<1>2. upload[u].pc \in Entered
  BY DEF DirectoryInv, RemovalInv
<1> QED
  BY <1>1, <1>2, SizeType DEF Uploaded, Whole, SizeOf

\* An upload that has had a row keeps its sizes, and what is left of its files
\* is as it was.
LEMMA StaysUploaded ==
    ASSUME NEW u \in Uploads, NEW w, Uploaded(u, w), upload'[u].pc \in Entered,
           upload'[u].entries = upload[u].entries, upload'[u].size = upload[u].size,
           PathsOf(u)' \subseteq PathsOf(u), \A p \in PathsOf(u)' : files'[p] = files[p]
    PROVE  /\ Uploaded(u, w)'
           /\ upload'[u].entries = upload[u].entries /\ upload'[u].size = upload[u].size
BY DEF Uploaded

LEMMA UploadedStep ==
    ASSUME StorageTypeOK, DirectoryInv, DiskInv, [StorageNext]_storageVars,
           NEW u \in Uploads, NEW w, Uploaded(u, w)
    PROVE  /\ Uploaded(u, w)'
           /\ upload'[u].entries = upload[u].entries /\ upload'[u].size = upload[u].size
<1>1. /\ upload \in [Uploads -> UploadStates] /\ upload[u].pc \in Entered
      /\ BytesInv(u) /\ UploadInv(u)
  BY DEF StorageTypeOK, DirectoryInv, DiskInv, Uploaded
<1>2. UNCHANGED files => PathsOf(u)' \subseteq PathsOf(u) /\ \A p \in PathsOf(u)' : files'[p] = files[p]
  BY SameFiles
<1>3. CASE UNCHANGED <<files, upload>>
  BY <1>1, <1>2, <1>3, StaysUploaded
<1>4. ASSUME NEW v \in Uploads, Upload(v)
      PROVE  /\ Uploaded(u, w)'
             /\ upload'[u].entries = upload[u].entries /\ upload'[u].size = upload[u].size
  <2>1. UNCHANGED files
    BY <1>4, UploadLocal
  <2>2. CASE v # u
    <3>1. upload'[u] = upload[u]
      BY <1>4, <2>2, UploadLocal
    <3> QED
      BY <1>1, <1>2, <2>1, <3>1, StaysUploaded
  <2>3. CASE v = u
    <3>1. Respond(u)
      BY <1>1, <1>4, <2>3 DEF Upload, Begin, FolderReady, NextFile, FileReady, WriteChunk,
                              FileDone, Insert, GiveUp, Entered, InHandler
    <3>2. /\ upload'[u].pc = "stored" /\ upload'[u].entries = upload[u].entries
          /\ upload'[u].size = upload[u].size
      BY <1>1, <3>1 DEF Respond, To, UploadStates
    <3>3. upload'[u].pc \in Entered
      BY <3>2 DEF Entered
    <3> QED
      BY <1>2, <2>1, <3>2, <3>3, StaysUploaded
  <2> QED
    BY <2>2, <2>3
<1>5. ASSUME NEW v \in Uploads, Create(v) \/ WriteBack(v)
      PROVE  /\ Uploaded(u, w)'
             /\ upload'[u].entries = upload[u].entries /\ upload'[u].size = upload[u].size
  <2>1. v # u
    <3>1. ~Create(u)
      BY <1>1 DEF Create, UploadInv, Entered
    <3>2. ~WriteBack(u)
      BY <1>1 DEF WriteBack, BytesInv, Entered
    <3> QED
      BY <1>5, <3>1, <3>2
  <2>2. upload'[u] = upload[u]
    BY <1>1, <1>5, <2>1 DEF Create, WriteBack
  <2>3. Target(v)[1] = v
    BY DEF Target
  <2>4. PathsOf(u)' = PathsOf(u) /\ \A p \in PathsOf(u) : files'[p] = files[p]
    <3>1. CASE UNCHANGED files
      BY <3>1, SameFiles
    <3>2. CASE files' = Put(Target(v), 0)
      BY <2>1, <2>3, <3>2, SizePut
    <3>3. ASSUME NEW n \in Nat, Target(v) \in DOMAIN files,
                 files' = [files EXCEPT ![Target(v)] = @ + n]
          PROVE  PathsOf(u)' = PathsOf(u) /\ \A p \in PathsOf(u) : files'[p] = files[p]
      BY <2>1, <2>3, <3>3, SizeGrows
    <3>4. upload[v].unwritten \in Nat
      BY <1>1, StorageAssumption DEF UploadStates
    <3> QED
      BY <1>5, <3>1, <3>2, <3>3, <3>4 DEF Create, WriteBack
  <2> QED
    BY <1>1, <2>2, <2>4, StaysUploaded
<1>6. ASSUME NEW r \in Uploads \cup Deletes, Remove(r)
      PROVE  /\ Uploaded(u, w)'
             /\ upload'[u].entries = upload[u].entries /\ upload'[u].size = upload[u].size
  <2>1. PICK v \in Uploads : RemovalTakes(v)
    BY <1>6, RemoveTakes
  <2>2. /\ upload' = upload /\ PathsOf(u)' \subseteq PathsOf(u)
        /\ \A p \in PathsOf(u)' : files'[p] = files[p]
    BY <2>1 DEF RemovalTakes
  <2> QED
    BY <1>1, <2>2, StaysUploaded
<1>7. CASE CrashStorage
  <2>1. /\ UNCHANGED files
        /\ upload'[u].entries = upload[u].entries /\ upload'[u].size = upload[u].size
        /\ upload'[u].pc \in {upload[u].pc, "crashed"}
    BY <1>1, <1>7 DEF CrashStorage, CrashedUploads, UploadStates
  <2>2. upload'[u].pc \in Entered
    BY <1>1, <2>1 DEF Entered
  <2> QED
    BY <1>2, <2>1, <2>2, StaysUploaded
<1>8. CASE UNCHANGED storageVars
  BY <1>3, <1>8 DEF storageVars
<1>9. ASSUME NEW d \in Deletes, DeleteRow(d) \/ \E v \in Uploads : Load(d, v),
             UNCHANGED <<dirs, upload, task, crashes>>
      PROVE  UNCHANGED <<files, upload>>
  BY <1>9 DEF DeleteRow, Load
<1> QED
  BY <1>3, <1>4, <1>5, <1>6, <1>7, <1>8, <1>9 DEF StorageNext, StorageStep

LEMMA ServesStorage ==
    ASSUME StorageTypeOK, DirectoryInv, DiskInv, FetchesOK, ServesInv, [StorageNext]_storageVars,
           NEW f \in Fetches, fetch'[f] = fetch[f], zip'[f] = zip[f]
    PROVE  Serves(f)'
<1> SUFFICES ASSUME fetch[f].pc # "idle"
             PROVE  Serves(f)'
  BY DEF Serves
<1>1. PICK u \in Uploads : u = fetch[f].share
  BY DEF FetchesOK, ArchiveInv
<1>2. PICK w : /\ Uploaded(u, w)
               /\ Copies(fetch[f], zip[f], upload[u].entries, upload[u].size, w)
  BY <1>1 DEF ServesInv, Serves
<1>3. /\ Uploaded(u, w)'
      /\ upload'[u].entries = upload[u].entries /\ upload'[u].size = upload[u].size
  BY <1>2, UploadedStep
<1>4. Copies(fetch'[f], zip'[f], upload'[u].entries, upload'[u].size, w)
  BY <1>2, <1>3
<1> QED
  BY <1>1, <1>3, <1>4 DEF Serves

\* A step of a download with what it has afterwards, F and Z.
LEMMA ServesStep ==
    ASSUME NEW f \in Fetches, NEW u \in Uploads, NEW w, Uploaded(u, w), UNCHANGED storageVars,
           NEW F, NEW Z, fetch'[f] = F, zip'[f] = Z, F.share = u,
           Copies(F, Z, upload[u].entries, upload[u].size, w)
    PROVE  Serves(f)'
<1>1. UNCHANGED <<files, upload>>
  BY DEF storageVars
<1>2. Uploaded(u, w)'
  BY <1>1 DEF Uploaded, PathsOf
<1>3. Copies(fetch'[f], zip'[f], upload'[u].entries, upload'[u].size, w)
  BY <1>1
<1> QED
  BY <1>2, <1>3 DEF Serves

LEMMA FetchOthers ==
    ASSUME FetchesOK, NEW f \in Fetches, Fetch(f), NEW g \in Fetches, g # f
    PROVE  fetch'[g] = fetch[g] /\ zip'[g] = zip[g]
<1>1. fetch \in [Fetches -> FetchStates] /\ zip \in [Fetches -> ZipStates]
  BY DEF FetchesOK
<1>2. CASE \E u \in Uploads : LoadShare(f, u)
  BY <1>1, <1>2 DEF LoadShare
<1>3. CASE OpenFile(f) \/ ListEntries(f)
  BY <1>1, <1>3 DEF OpenFile, ListEntries, FetchTo, FetchFails
<1>4. CASE CreateArchive(f) \/ FinishZip(f)
  BY <1>1, <1>4 DEF CreateArchive, FinishZip, ZipFails
<1>5. CASE CopyEntry(f)
  BY <1>1, <1>5 DEF CopyEntry, ZipFails
<1>6. CASE Built(f) \/ BuildFailed(f) \/ Discard(f) \/ OpenArchive(f)
  BY <1>1, <1>6 DEF Built, BuildFailed, Discard, RemoveArchive, OpenArchive, FetchTo, FetchFails
<1>7. CASE Measure(f) \/ Stream(f) \/ DropFile(f) \/ CancelFetch(f)
  BY <1>1, <1>7 DEF Measure, Stream, DropFile, RemoveArchive, CancelFetch, FetchTo, FetchFails
<1> QED
  BY <1>2, <1>3, <1>4, <1>5, <1>6, <1>7 DEF Fetch

\* An entry that is still there has the size that it had, and copying it adds
\* that size to the archive.
LEMMA CopyAdds ==
    ASSUME StorageTypeOK, NEW u \in Uploads, NEW w, Uploaded(u, w),
           NEW T \in SUBSET upload[u].entries, NEW e \in upload[u].entries \ T,
           <<u, e>> \in DOMAIN files
    PROVE  SumFunctionOnSet(w, {u} \X (T \cup {e})) =
               SumFunctionOnSet(w, {u} \X T) + files[<<u, e>>]
<1>1. upload[u].entries \in SUBSET (Slots \cup {NULL})
  BY DEF StorageTypeOK, UploadStates
<1>2. <<u, e>> \in PathsOf(u)
  BY DEF PathsOf
<1>3. files[<<u, e>>] = w[<<u, e>>]
  BY <1>2 DEF Uploaded
<1>4. PICK S : S = {u} \X T
  OBVIOUS
<1>5. IsFiniteSet(S) /\ <<u, e>> \notin S /\ {u} \X (T \cup {e}) = S \cup {<<u, e>>}
  BY <1>1, <1>4, FinitePaths
<1>6. \A p \in S \cup {<<u, e>>} : w[p] \in Nat
  BY <1>4 DEF Uploaded
<1>7. SumFunctionOnSet(w, S \cup {<<u, e>>}) = SumFunctionOnSet(w, S) + w[<<u, e>>]
  BY <1>5, <1>6, SumAdd
<1> QED
  BY <1>3, <1>4, <1>5, <1>7

LEMMA ServesFetch ==
    ASSUME StorageTypeOK, DirectoryInv, DiskInv, FetchesOK, ServesInv,
           NEW f \in Fetches, Fetch(f), UNCHANGED storageVars
    PROVE  Serves(f)'
<1>1. /\ fetch \in [Fetches -> FetchStates] /\ zip \in [Fetches -> ZipStates]
      /\ fetch[f] \in FetchStates /\ zip[f] \in ZipStates /\ Serves(f)
  BY DEF FetchesOK, ServesInv
<1>2. CASE \E v \in Uploads : LoadShare(f, v)
  <2>1. PICK v \in Uploads : LoadShare(f, v)
    BY <1>2
  <2>2. /\ fetch'[f].pc = "loaded" /\ fetch'[f].share = v /\ v \in rows
    BY <1>1, <2>1 DEF LoadShare, FetchStates
  <2>3. PICK F : F = fetch'[f]
    OBVIOUS
  <2>4. PICK Z : Z = zip'[f]
    OBVIOUS
  <2>5. PICK w : w = files
    OBVIOUS
  <2>6. Uploaded(v, w)
    BY <2>2, <2>5, RowUploaded
  <2>7. Copies(F, Z, upload[v].entries, upload[v].size, w)
    BY <2>2, <2>3 DEF Copies
  <2> QED
    BY <2>2, <2>3, <2>4, <2>6, <2>7, ServesStep
<1>3. fetch[f].pc = "idle" => \E v \in Uploads : LoadShare(f, v)
  <2> SUFFICES ASSUME fetch[f].pc = "idle"
               PROVE  \E v \in Uploads : LoadShare(f, v)
    OBVIOUS
  <2>1. zip[f].pc = "none"
    BY DEF FetchesOK, ArchiveInv
  <2> QED
    BY <2>1 DEF Fetch, OpenFile, ListEntries, CreateArchive, CopyEntry, FinishZip, Built,
                BuildFailed, Discard, OpenArchive, Measure, Stream, DropFile, CancelFetch
<1> SUFFICES ASSUME fetch[f].pc # "idle", ~\E v \in Uploads : LoadShare(f, v)
             PROVE  Serves(f)'
  BY <1>2, <1>3
<1>4. PICK u \in Uploads : u = fetch[f].share
  BY DEF FetchesOK, ArchiveInv
<1>5. PICK F : F = fetch[f]
  OBVIOUS
<1>6. PICK Z : Z = zip[f]
  OBVIOUS
<1>7. PICK E : E = upload[u].entries
  OBVIOUS
<1>8. PICK n : n = upload[u].size
  OBVIOUS
<1>9. PICK w : Uploaded(u, w) /\ Copies(F, Z, E, n, w)
  BY <1>1, <1>4, <1>5, <1>6, <1>7, <1>8 DEF Serves
<1>10. F \in FetchStates /\ Z \in ZipStates /\ F.share = u
  BY <1>1, <1>4, <1>5, <1>6
\* what is left to prove of a step
<1>11. ASSUME NEW G, NEW Y, fetch'[f] = G, zip'[f] = Y, G.share = u, Copies(G, Y, E, n, w)
       PROVE  Serves(f)'
  BY <1>7, <1>8, <1>9, <1>11, ServesStep
<1>12. ASSUME NEW pc, FetchTo(f, pc) \/ (pc = "failed" /\ FetchFails(f)), zip'[f] = Z,
              pc \in {"failed", "refused", "ended", "unremoved", "discarding", "measuring",
                      "opening", "building", "streaming"},
              pc = "measuring" => F.pc = "opening",
              pc = "opening" => F.pc = "building" /\ Z.pc = "ok",
              pc = "streaming" => F.pc = "owned",
              pc # "building"
       PROVE  Serves(f)'
  <2>1. PICK G : G = fetch'[f]
    OBVIOUS
  <2>2. G.pc = pc /\ G.share = u /\ G.parts = F.parts /\ G.size = F.size
    BY <1>1, <1>5, <1>10, <1>12, <2>1 DEF FetchTo, FetchFails, FetchStates
  <2>3. Copies(G, Z, E, n, w)
    BY <1>9, <1>10, <1>12, <2>2 DEF Copies
  <2> QED
    BY <1>11, <1>12, <2>1, <2>2, <2>3
<1>13. ASSUME NEW pc \in {"copy", "ok", "error"}, zip' = [zip EXCEPT ![f].pc = pc], UNCHANGED fetch,
              Z.pc \in {"create", "copy"}, pc = "ok" => Z.todo = {}
       PROVE  Serves(f)'
  <2>1. PICK Y : Y = zip'[f]
    OBVIOUS
  <2>2. Y.pc = pc /\ Y.todo = Z.todo /\ Y.parts = Z.parts /\ Y.size = Z.size
    BY <1>1, <1>6, <1>13, <2>1 DEF ZipStates
  <2>3. Copies(F, Y, E, n, w)
    BY <1>9, <1>13, <2>2 DEF Copies
  <2>4. fetch'[f] = F
    BY <1>5, <1>13
  <2> QED
    BY <1>10, <1>11, <2>1, <2>3, <2>4
<1>14. CASE OpenFile(f)
  <2>1. CASE FetchFails(f)
    BY <1>6, <1>12, <1>14, <2>1 DEF OpenFile
  <2>2. CASE /\ <<u, NULL>> \in DOMAIN files
             /\ fetch' = [fetch EXCEPT ![f].pc = "owned", ![f].parts = {NULL}, ![f].size = files[<<u, NULL>>]]
    <3>1. PICK G : G = fetch'[f]
      OBVIOUS
    <3>2. G.pc = "owned" /\ G.share = u /\ G.parts = {NULL} /\ G.size = files[<<u, NULL>>]
      BY <1>1, <1>5, <1>10, <2>2, <3>1 DEF FetchStates
    <3>3. ~upload[u].folder /\ <<u, NULL>> \in PathsOf(u)
      BY <1>4, <1>14, <2>2 DEF OpenFile, PathsOf
    <3>4. E = {NULL}
      <4>1. E \subseteq {NULL}
        BY <1>7, <3>3 DEF DiskInv, BytesInv
      <4>2. NULL \in E
        BY <1>7, <1>9, <3>3 DEF Uploaded
      <4> QED
        BY <4>1, <4>2
    <3>5. n = files[<<u, NULL>>]
      <4>1. SumFunctionOnSet(w, {u} \X ({} \cup {NULL})) =
                SumFunctionOnSet(w, {u} \X {}) + files[<<u, NULL>>]
        <5>1. {} \in SUBSET upload[u].entries /\ NULL \in upload[u].entries \ {}
          BY <1>7, <3>4
        <5> QED
          BY <1>9, <2>2, <5>1, CopyAdds
      <4>2. {} \cup {NULL} = E /\ {u} \X {} = {}
        BY <3>4
      <4>3. files[<<u, NULL>>] \in Nat
        BY <3>3, SizeType
      <4>4. SumFunctionOnSet(w, {u} \X E) = n
        BY <1>7, <1>8, <1>9 DEF Uploaded
      <4>5. SumFunctionOnSet(w, {}) = 0
        BY SumEmpty
      <4>6. n = SumFunctionOnSet(w, {}) + files[<<u, NULL>>]
        BY <4>1, <4>2, <4>4
      <4> QED
        BY <4>3, <4>5, <4>6
    <3>6. Copies(G, Z, E, n, w)
      BY <3>2, <3>4, <3>5 DEF Copies
    <3>7. zip'[f] = Z
      BY <1>6, <1>14 DEF OpenFile
    <3> QED
      BY <1>11, <3>1, <3>2, <3>6, <3>7
  <2> QED
    BY <1>4, <1>14, <2>1, <2>2 DEF OpenFile
<1>15. CASE ListEntries(f)
  <2>1. CASE FetchFails(f) /\ UNCHANGED zip
    BY <1>6, <1>12, <2>1
  <2>2. CASE /\ FetchTo(f, "building")
             /\ zip' = [zip EXCEPT ![f] = [NoZip EXCEPT !.pc = "create", !.todo = E]]
    <3>1. PICK G : G = fetch'[f]
      OBVIOUS
    <3>2. PICK Y : Y = zip'[f]
      OBVIOUS
    <3>3. G.pc = "building" /\ G.share = u
      BY <1>1, <1>5, <1>10, <2>2, <3>1 DEF FetchTo, FetchStates
    <3>4. Y.pc = "create" /\ Y.todo = E /\ Y.parts = {} /\ Y.size = 0
      BY <1>1, <2>2, <3>2 DEF NoZip
    <3>5. {u} \X {} = {}
      OBVIOUS
    <3>6. Copies(G, Y, E, n, w)
      BY <3>3, <3>4, <3>5, SumEmpty DEF Copies
    <3> QED
      BY <1>11, <3>1, <3>2, <3>3, <3>6
  <2> QED
    BY <1>4, <1>7, <1>15, <2>1, <2>2 DEF ListEntries
<1>16. CASE CreateArchive(f)
  BY <1>6, <1>13, <1>16 DEF CreateArchive, ZipFails
<1>17. CASE FinishZip(f)
  BY <1>6, <1>13, <1>17 DEF FinishZip, ZipFails
<1>18. CASE CopyEntry(f)
  <2>1. CASE ZipFails(f)
    BY <1>6, <1>13, <1>18, <2>1 DEF CopyEntry, ZipFails
  <2>2. ASSUME NEW e \in Z.todo, <<u, e>> \in DOMAIN files,
               zip' = [zip EXCEPT ![f].todo = @ \ {e}, ![f].parts = @ \cup {e},
                                  ![f].size = @ + files[<<u, e>>]]
        PROVE  Serves(f)'
    <3>1. PICK Y : Y = zip'[f]
      OBVIOUS
    <3>2. /\ Y.pc = "copy" /\ Y.todo = Z.todo \ {e} /\ Y.parts = Z.parts \cup {e}
          /\ Y.size = Z.size + files[<<u, e>>]
      BY <1>1, <1>6, <1>18, <2>2, <3>1 DEF CopyEntry, ZipStates
    <3>3. Z.pc = "copy" /\ fetch'[f] = F
      BY <1>5, <1>6, <1>18 DEF CopyEntry
    <3>4. ASSUME F.pc = "building"
          PROVE  /\ Y.parts \cup Y.todo = E /\ Y.parts \cap Y.todo = {}
                 /\ Y.size = SumFunctionOnSet(w, {u} \X Y.parts)
      <4>1. /\ Z.parts \cup Z.todo = E /\ Z.parts \cap Z.todo = {}
            /\ Z.size = SumFunctionOnSet(w, {u} \X Z.parts)
        BY <1>9, <1>10, <3>3, <3>4 DEF Copies
      <4>2. SumFunctionOnSet(w, {u} \X (Z.parts \cup {e})) =
                SumFunctionOnSet(w, {u} \X Z.parts) + files[<<u, e>>]
        BY <1>7, <1>9, <2>2, <4>1, CopyAdds
      <4> QED
        BY <2>2, <3>2, <4>1, <4>2
    <3>5. Copies(F, Y, E, n, w)
      BY <1>9, <1>10, <3>2, <3>3, <3>4 DEF Copies
    <3> QED
      BY <1>10, <1>11, <3>1, <3>3, <3>5
  <2> QED
    BY <1>4, <1>6, <1>18, <2>1, <2>2 DEF CopyEntry
<1>19. CASE Built(f) \/ BuildFailed(f)
  BY <1>5, <1>6, <1>12, <1>19 DEF Built, BuildFailed
<1>20. CASE OpenArchive(f)
  BY <1>5, <1>6, <1>12, <1>20 DEF OpenArchive
<1>21. CASE Measure(f)
  <2>1. CASE FetchFails(f)
    BY <1>6, <1>12, <1>21, <2>1 DEF Measure
  <2>2. CASE fetch' = [fetch EXCEPT ![f].pc = "owned", ![f].parts = Z.parts, ![f].size = Z.size]
    <3>1. PICK G : G = fetch'[f]
      OBVIOUS
    <3>2. G.pc = "owned" /\ G.share = u /\ G.parts = Z.parts /\ G.size = Z.size
      BY <1>1, <1>5, <1>10, <2>2, <3>1 DEF FetchStates
    <3>3. F.pc = "measuring" /\ zip'[f] = Z
      BY <1>5, <1>6, <1>21 DEF Measure
    <3>4. Z.parts = E /\ Z.size = SumFunctionOnSet(w, {u} \X Z.parts)
      BY <1>9, <1>10, <3>3 DEF Copies
    <3>5. Z.size = n
      BY <1>7, <1>8, <1>9, <3>4 DEF Uploaded
    <3>6. Copies(G, Z, E, n, w)
      BY <3>2, <3>4, <3>5 DEF Copies
    <3> QED
      BY <1>11, <3>1, <3>2, <3>3, <3>6
  <2> QED
    BY <1>6, <1>21, <2>1, <2>2 DEF Measure
<1>22. CASE Stream(f) \/ Discard(f) \/ DropFile(f) \/ CancelFetch(f)
  BY <1>5, <1>6, <1>12, <1>22 DEF Stream, Discard, DropFile, RemoveArchive, CancelFetch
<1> QED
  BY <1>14, <1>15, <1>16, <1>17, <1>18, <1>19, <1>20, <1>21, <1>22 DEF Fetch

LEMMA ServesCrash ==
    ASSUME StorageTypeOK, DirectoryInv, DiskInv, FetchesOK, ServesInv,
           CrashStorage, CrashFetches, NEW f \in Fetches
    PROVE  Serves(f)'
<1>1. fetch[f] \in FetchStates
  BY DEF FetchesOK
<1>2. /\ fetch'[f].share = fetch[f].share
      /\ fetch'[f].pc \in {"idle", "failed", "refused", "ended", "unremoved", "lost"}
      /\ fetch[f].pc = "idle" => fetch'[f].pc = "idle"
  BY <1>1 DEF CrashFetches, FetchStates, FetchInFlight
<1> SUFFICES ASSUME fetch[f].pc # "idle"
             PROVE  Serves(f)'
  BY <1>2 DEF Serves, CrashFetches, FetchInFlight
<1>3. PICK u \in Uploads : u = fetch[f].share
  BY DEF FetchesOK, ArchiveInv
<1>4. PICK w : Uploaded(u, w)
  BY <1>3 DEF ServesInv, Serves
<1>5. Uploaded(u, w)'
  BY <1>4, UploadedStep DEF StorageNext
<1>6. Copies(fetch'[f], zip'[f], upload'[u].entries, upload'[u].size, w)
  BY <1>2 DEF Copies
<1> QED
  BY <1>2, <1>3, <1>5, <1>6 DEF Serves

----------------------------------------------------------------------------
(* The whole.                                                              *)

Inv == StorageTypeOK /\ DirectoryInv /\ DiskInv /\ EndInv /\ FetchesOK /\ ServesInv

LEMMA InitInv == Init => Inv
<1> SUFFICES ASSUME Init PROVE Inv
  OBVIOUS
<1>1. StorageTypeOK /\ DirectoryInv /\ DiskInv /\ EndInv
  BY StorageInitInv, DiskInit, EndInit DEF Init
<1>2. NoFetch \in FetchStates /\ NoZip \in ZipStates
  BY DEF NoFetch, FetchStates, NoZip, ZipStates
<1>3. FetchesOK
  BY <1>2 DEF Init, FetchesOK, ArchiveInv, NoFetch, NoZip
<1>4. ServesInv
  BY DEF Init, ServesInv, Serves, NoFetch
<1> QED
  BY <1>1, <1>3, <1>4 DEF Inv

LEMMA StepInv == Inv /\ [Next]_<<storageVars, archiveVars>> => Inv'
<1> SUFFICES ASSUME Inv, [Next]_<<storageVars, archiveVars>> PROVE Inv'
  OBVIOUS
<1>0. StorageTypeOK /\ DirectoryInv /\ DiskInv /\ EndInv /\ FetchesOK /\ ServesInv
  BY DEF Inv
<1>1. [StorageNext]_storageVars
  BY DEF Next, StorageNext
<1>2. StorageTypeOK' /\ DirectoryInv' /\ DiskInv' /\ EndInv'
  BY <1>0, <1>1, DirectoryStep, DiskStep, EndStep
<1>3. CASE UNCHANGED archiveVars
  <2>1. UNCHANGED <<fetch, zip, archives>>
    BY <1>3 DEF archiveVars
  <2>2. FetchesOK'
    BY <1>0, <2>1 DEF FetchesOK, ArchiveInv
  <2>3. ServesInv'
    BY <1>0, <1>1, <2>1, ServesStorage DEF ServesInv
  <2> QED
    BY <1>2, <2>2, <2>3 DEF Inv
<1>4. ASSUME NEW f \in Fetches, Fetch(f), UNCHANGED storageVars
      PROVE  Inv'
  <2>1. FetchesOK'
    BY <1>0, <1>4, FetchStep
  <2>2. ASSUME NEW g \in Fetches
        PROVE  Serves(g)'
    <3>1. CASE g = f
      BY <1>0, <1>4, <3>1, ServesFetch
    <3>2. CASE g # f
      BY <1>0, <1>1, <1>4, <3>2, FetchOthers, ServesStorage
    <3> QED
      BY <3>1, <3>2
  <2> QED
    BY <1>2, <2>1, <2>2 DEF Inv, ServesInv
<1>5. CASE CrashStorage /\ CrashFetches
  BY <1>0, <1>2, <1>5, CrashFetchesStep, ServesCrash DEF Inv, ServesInv
<1> QED
  BY <1>3, <1>4, <1>5 DEF Next

LEMMA SpecInv == Spec => []Inv
BY InitInv, StepInv, PTL DEF Spec

\* Every variable of the storage directory, the create and delete handlers,
\* their blocking threads and guards, and the downloads has its type, and
\* every entry of a folder has its directory.
THEOREM ArchiveTyped == Spec => []TypeOK
<1>1. Inv => TypeOK
  BY DEF Inv, TypeOK, FetchesOK, FetchStates, ZipStates
<1> QED
  BY <1>1, SpecInv, PTL

\* create_share and create_folder_share leave nothing on the disk when they
\* end without a row, wherever in the request they end, except while a
\* blocking thread creates a file or the directory for them, and unless the
\* file system refuses a removal: the guards PendingUpload and PendingFolder
\* cover every other await.
THEOREM GuardsLeaveNothing == Spec => []NothingLeftBehind
<1>1. Inv => NothingLeftBehind
  BY DEF Inv, DirectoryInv, GivenUpInv, NothingLeftBehind
<1> QED
  BY <1>1, SpecInv, PTL

\* A temporary ZIP that generate_folder_archive wrote outlives its download
\* only when the process died, when the file system refused to remove it, or
\* when the handler failed or was dropped between the start of the blocking
\* thread and the moment DownloadFile owns the archive.
THEOREM ZipsOwned == Spec => []ArchivesOwned
<1>1. Inv => ArchivesOwned
  BY DEF Inv, FetchesOK, ArchiveInv, ArchivesOwned
<1> QED
  BY <1>1, SpecInv, PTL

\* A share in the database has its file, or all the entries of its folder,
\* with as many bytes as its row says, and keeps them when it is deleted
\* without its file: create_share and create_folder_share insert the row only
\* behind the last flush, their guards are disarmed by then, and delete_share
\* removes a file only behind its row.
THEOREM StoredIsWhole == Spec => []StoredWhole
<1>1. Inv => StoredWhole
  BY DEF Inv, DiskInv, BytesInv, Present, StoredWhole
<1> QED
  BY <1>1, SpecInv, PTL

\* No upload occupies more than max_upload_bytes at any moment, a folder not
\* with the sum of its files: a chunk is counted before it is written, and
\* only what was counted is ever written.
THEOREM UploadsWithinLimit == Spec => []WithinLimit
<1>1. ASSUME Inv, NEW u \in Uploads
      PROVE  SizeOf(u) <= MaxBytes
  <2>1. StorageTypeOK /\ BytesInv(u)
    BY <1>1 DEF Inv, DiskInv
  <2>2. upload[u].unwritten \in Nat /\ upload[u].size \in Nat /\ SizeOf(u) \in Nat
    BY <2>1, SizeType, StorageAssumption DEF StorageTypeOK, UploadStates
  <2>3. SizeOf(u) + upload[u].unwritten <= upload[u].size /\ upload[u].size <= MaxBytes
    BY <2>1 DEF BytesInv
  <2> QED
    BY <2>2, <2>3, StorageAssumption
<1>2. Inv => WithinLimit
  BY <1>1 DEF WithinLimit
<1> QED
  BY <1>2, SpecInv, PTL

\* A download serves all the entries and all the bytes that were uploaded, or
\* fails before it begins, however deletes run while generate_folder_archive
\* copies: an entry that is gone ends the archive, and one that is there is
\* as it was when the row was inserted.
THEOREM ServedIsWhole == Spec => []ServedWhole
<1>1. ASSUME Inv, NEW f \in Fetches, fetch[f].pc \in {"owned", "streaming"}
      PROVE  /\ fetch[f].parts = upload[fetch[f].share].entries
             /\ fetch[f].size = upload[fetch[f].share].size
  BY <1>1 DEF Inv, ServesInv, Serves, Copies
<1>2. Inv => ServedWhole
  BY <1>1 DEF ServedWhole
<1> QED
  BY <1>2, SpecInv, PTL

\* delete_share does not look at how its removal ends; this relates the end to
\* the disk, whatever uploads, writes and downloads go on meanwhile: a removal
\* that came to its end left nothing, and one that stopped because an entry it
\* had listed was gone met another delete of the same share.  It is what is left
\* of DeletedGone when the fairness of the removal is taken away.
DeletesAccounted ==
    \A d \in Deletes : delete[d].pc = "removing" =>
        /\ removal[d].pc \in {"running", "done", "stopped", "failed", "lost"}
        /\ removal[d].pc = "done" => Gone(delete[d].share)
        /\ removal[d].pc = "stopped" =>
              \E e \in Deletes \ {d} :
                 delete[e].pc = "removing" /\ delete[e].share = delete[d].share

\* delete_share with delete_file (remove_file, remove_dir_all) either removes
\* everything the share had on the disk, or it is at work, the file system
\* refused, the process died, or two deletes of the same share met.
THEOREM DeletesAccountedFor == Spec => []DeletesAccounted
<1>1. ASSUME Inv, NEW d \in Deletes, delete[d].pc = "removing"
      PROVE  /\ removal[d].pc \in {"running", "done", "stopped", "failed", "lost"}
             /\ removal[d].pc = "done" => Gone(delete[d].share)
             /\ removal[d].pc = "stopped" =>
                   \E e \in Deletes \ {d} :
                      delete[e].pc = "removing" /\ delete[e].share = delete[d].share
  <2>1. DeletedInv(d)
    BY <1>1 DEF Inv, EndInv
  <2>2. removal[d].pc \in {"none", "running", "done", "stopped", "failed", "lost"}
    BY <1>1 DEF Inv, StorageTypeOK
  <2> QED
    BY <1>1, <2>1, <2>2 DEF DeletedInv, Alone
<1>2. Inv => DeletesAccounted
  BY <1>1 DEF DeletesAccounted
<1> QED
  BY <1>2, SpecInv, PTL

\* Every reason for which u may have something in the storage directory: its
\* row, its handler, a crash, an upload that ended while a thread created
\* something for it or whose guard is at work, died or was refused, or a delete
\* that keeps the file, is at work, died, was refused, or stopped because it
\* met another delete.
Explained(u) ==
    \/ u \in rows
    \/ upload[u].pc \in InHandler \cup {"crashed"}
    \/ /\ upload[u].pc = "given_up"
       /\ \/ upload[u].left \in {"mkdir", "creating"}
          \/ removal[u].pc \in {"running", "failed", "lost"}
    \/ \E d \in Deletes :
          /\ delete[d].share = u
          /\ \/ delete[d].pc = "kept"
             \/ /\ delete[d].pc = "removing"
                /\ \/ removal[d].pc \in {"running", "failed", "lost"}
                   \/ removal[d].pc = "stopped" /\ ~Alone(d)

\* The archives of downloads lie in the same directory; ArchivesOwned lists the
\* reasons for them.
LeftoversExplained == (\A u \in Uploads : Gone(u) \/ Explained(u)) /\ ArchivesOwned

\* Nothing accumulates in the storage directory without one of the reasons
\* above: the code has no sweep that would remove it later.
THEOREM DiskExplained == Spec => []LeftoversExplained
<1>1. ASSUME Inv, NEW u \in Uploads, ~Gone(u)
      PROVE  Explained(u)
  <2>1. upload \in [Uploads -> UploadStates] /\ UploadInv(u) /\ GivenUpInv(u) /\ RowGoneInv(u)
    BY <1>1 DEF Inv, StorageTypeOK, DirectoryInv, EndInv
  <2>2. upload[u].pc \in {"idle", "respond", "stored", "given_up", "crashed"} \cup InHandler
    BY <2>1 DEF UploadStates
  <2>3. upload[u].pc # "idle"
    BY <1>1, <2>1 DEF UploadInv, Gone
  <2>4. CASE upload[u].pc = "given_up"
    <3>1. removal[u].pc \in {"none", "running", "done", "stopped", "failed", "lost"}
      BY <1>1 DEF Inv, StorageTypeOK
    <3> QED
      BY <1>1, <2>1, <2>4, <3>1 DEF GivenUpInv, Explained
  <2>5. CASE upload[u].pc \in {"respond", "stored"} /\ u \notin rows
    <3>1. PICK d \in Deletes : delete[d].share = u /\ delete[d].pc \in {"removing", "kept"}
      BY <2>1, <2>5 DEF RowGoneInv
    <3>2. DeletedInv(d) /\ removal[d].pc \in {"none", "running", "done", "stopped", "failed", "lost"}
      BY <1>1 DEF Inv, EndInv, StorageTypeOK
    <3> QED
      BY <1>1, <3>1, <3>2 DEF DeletedInv, Explained
  <2> QED
    BY <2>2, <2>3, <2>4, <2>5 DEF Explained
<1>2. Inv => LeftoversExplained
  BY <1>1 DEF LeftoversExplained, Inv, FetchesOK, ArchiveInv, ArchivesOwned
<1> QED
  BY <1>2, SpecInv, PTL

=============================================================================
