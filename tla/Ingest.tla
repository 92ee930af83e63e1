-------------------------------- MODULE Ingest --------------------------------
(***************************************************************************)
(* Adding games to the library and deleting them: finalize_reassembled of   *)
(* service/uploads/software_games.py, service/games/folder_ingest.py,       *)
(* path_import.py and the ingest pipeline of items.py.                      *)
(*                                                                          *)
(* An ingest first changes the disk, step by step, and writes its rows last;*)
(* on a failure it undoes what it did to the disk.  Ingests run in          *)
(* different threads and no lock orders them; each database call and each   *)
(* file system call is atomic.  SOFTWARE_PATH is set.                       *)
(***************************************************************************)
EXTENDS MediaLibrary

CONSTANTS
    Ingests,    \* ingests, 1..n in the order they start; also the bundle ids
    Requests,   \* what may be ingested
    Size,       \* content -> its size in bytes
    MaxActive,  \* bound: ingests and deletions that overlap
    Faults,     \* whether the database or the disk may fail
    NoName

\* A request: the shape the source is treated as, whether it is first staged
\* into a folder of its own (uploads and copies; otherwise it is in the library
\* already), whether the anchor of discs is looked up by content, whether the
\* original is moved, the title, and the files in manifest order.
RequestType ==
    [shape : {"file", "dir", "discs"}, staged : BOOLEAN, dedup : BOOLEAN, move : BOOLEAN,
     title : Bases, parts : Seq([stem : Bases, content : Contents])]

ASSUME IngestAssumption ==
    /\ Ingests = Bundles
    /\ Ingests \subseteq Nat
    /\ Requests \subseteq RequestType
    /\ \A r \in Requests :
         /\ r.parts # <<>>
         /\ r.shape = "discs" => r.staged
         /\ r.shape = "discs" /\ r.dedup => Len(r.parts) >= 2   \* detect_disc_files
    /\ Size \in [Contents -> Nat]
    /\ MaxActive \in Nat \ {0}
    /\ Faults \in BOOLEAN
    /\ NoName \notin Names \cup {Root}

VARIABLES
    pc,       \* where each ingest is
    req,      \* its request, once started
    dest,     \* the folder it staged, whatever that is called by now
    leaves,   \* the paths its rows will have
    folder,   \* the folder it takes for its own
    slug,
    undo,     \* the undo stack of its transaction
    before,   \* the library's files without what it staged
    ending,   \* how it ends when it is undoing
    deleting,   \* bundles whose media is gone and whose rows are not
    overlapped  \* history: the ingests that something else was at work beside

ingestVars == <<pc, req, dest, leaves, folder, slug, undo, before, ending, deleting, overlapped>>
vars == <<libraryVars, ingestVars>>

IngestStages == {"idle", "dedup", "dropping", "guard", "placing", "naming", "persisting", "undoing",
                 "done", "rejected", "failed"}
Ended == {"done", "rejected", "failed"}
DirOps == [kind : {"dir"}, old : Names, new : Names]
FileOps == [kind : {"file"}, old : Paths, new : Paths]

TypeOK ==
    /\ LibraryTypeOK
    /\ pc \in [Ingests -> IngestStages]
    /\ \A i \in Ingests : pc[i] # "idle" => req[i] \in Requests
    /\ dest \in [Ingests -> Names \cup {NoName}]
    /\ \A i \in Ingests : \A k \in DOMAIN leaves[i] : leaves[i][k] \in Paths
    /\ folder \in [Ingests -> Names \cup {NoName}]
    /\ slug \in [Ingests -> Names \cup {NoName}]
    /\ \A i \in Ingests : \A k \in DOMAIN undo[i] :
         undo[i][k] \in IF undo[i][k].kind = "dir" THEN DirOps ELSE FileOps
    /\ before \in [Ingests -> SUBSET Files]
    /\ ending \in [Ingests -> Ended]
    /\ deleting \in SUBSET Bundles
    /\ overlapped \in SUBSET Ingests

Init ==
    /\ LibraryInit
    /\ pc = [i \in Ingests |-> "idle"]
    /\ req = [i \in Ingests |-> NoName]
    /\ dest = [i \in Ingests |-> NoName]
    /\ leaves = [i \in Ingests |-> <<>>]
    /\ folder = [i \in Ingests |-> NoName]
    /\ slug = [i \in Ingests |-> NoName]
    /\ undo = [i \in Ingests |-> <<>>]
    /\ before = [i \in Ingests |-> {}]
    /\ ending = [i \in Ingests |-> "done"]
    /\ deleting = {}
    /\ overlapped = {}

Goto(i, stage) == pc' = [pc EXCEPT ![i] = stage]
Anchor(i) == leaves[i][1]   \* the file, or the first disc

\* An exception: roll back, undo, clean up.
Raise(i, how) ==
    /\ Goto(i, "undoing")
    /\ ending' = [ending EXCEPT ![i] = how]

------------------------------------------------------------------------------
(* Staging *)

Running == {i \in Ingests : pc[i] \notin Ended \cup {"idle"}}
MayStart == Cardinality(Running) + Cardinality(deleting) < MaxActive
NextToStart(i) == pc[i] = "idle" /\ \A j \in Ingests : j < i => pc[j] # "idle"

PutInto(d, r) == {[dir |-> d, stem |-> r.parts[k].stem, content |-> r.parts[k].content] : k \in DOMAIN r.parts}
PathsIn(d, r) == [k \in DOMAIN r.parts |-> [dir |-> d, stem |-> r.parts[k].stem]]

\* Discs go straight to their folder; files and folders are checked first.
AfterDedup(r) == IF r.shape = "discs" THEN "naming" ELSE "guard"

Begin(i, r, stage, files0) ==
    /\ MayStart /\ NextToStart(i)
    /\ Goto(i, stage)
    /\ req' = [req EXCEPT ![i] = r]
    /\ before' = [before EXCEPT ![i] = files0]
    /\ UNCHANGED <<rows, slug, undo, ending, deleting>>

\* reassemble and stage_from_source: a folder with a name that is free on disk.
Stage(i, r) ==
    LET d == UniqueSlug(Plain(r.title), dirs) IN
    /\ r.staged
    /\ HasFree(Plain(r.title), dirs)
    /\ Begin(i, r, IF r.dedup /\ r.shape # "dir" THEN "dedup" ELSE AfterDedup(r), files)
    /\ dirs' = dirs \cup {d}
    /\ files' = files \cup PutInto(d, r)
    /\ dest' = [dest EXCEPT ![i] = d]
    /\ leaves' = [leaves EXCEPT ![i] = PathsIn(d, r)]
    /\ folder' = [folder EXCEPT ![i] = d]

\* A loose file in the root, put there by the user or there already.
AdoptFile(i, r) ==
    LET p == [dir |-> Root, stem |-> r.parts[1].stem] IN
    /\ ~r.staged /\ r.shape = "file"
    /\ At(p) \in {{}, PutInto(Root, r)}
    /\ files' = files \cup PutInto(Root, r)
    /\ Begin(i, r, "guard", files')
    /\ leaves' = [leaves EXCEPT ![i] = <<p>>]
    /\ UNCHANGED <<dirs, dest, folder>>

\* A folder under the root that holds the request's files, put there by the
\* user or there already.
AdoptDir(i, r) ==
    /\ ~r.staged /\ r.shape = "dir"
    /\ \E d \in {e \in dirs : Inside(e) = PutInto(e, r)} \cup ({Plain(r.title)} \ dirs) :
         /\ dirs' = dirs \cup {d}
         /\ files' = IF d \in dirs THEN files ELSE files \cup PutInto(d, r)
         /\ folder' = [folder EXCEPT ![i] = d]
    /\ Begin(i, r, "guard", files')
    /\ UNCHANGED <<dest, leaves>>

------------------------------------------------------------------------------
(* Duplicates: the index may miss a match, never invent one *)

Twins(p) == {f \in files : PathOf(f) # p /\ \E g \in At(p) : f.content = g.content}

DedupMiss(i) ==
    /\ pc[i] = "dedup"
    /\ Present(Anchor(i))
    /\ Goto(i, AfterDedup(req[i]))
    /\ UNCHANGED <<libraryVars, req, dest, leaves, folder, slug, undo, before, ending, deleting>>

DedupGone(i) ==
    /\ pc[i] = "dedup"
    /\ ~Present(Anchor(i))
    /\ Raise(i, "failed")
    /\ UNCHANGED <<libraryVars, req, dest, leaves, folder, slug, undo, before, deleting>>

\* A file upload goes on with the file that is there, and drops its own folder.
DedupFile(i) ==
    /\ pc[i] = "dedup" /\ req[i].shape = "file"
    /\ \E f \in Twins(Anchor(i)) : leaves' = [leaves EXCEPT ![i] = <<PathOf(f)>>]
    /\ Goto(i, "dropping")
    /\ UNCHANGED <<libraryVars, req, dest, folder, slug, undo, before, ending, deleting>>

DropOwn(i) ==
    /\ pc[i] = "dropping"
    /\ RmTrees({dest[i]})
    /\ Goto(i, "guard")
    /\ UNCHANGED <<rows, req, dest, leaves, folder, slug, undo, before, ending, deleting>>

\* Mutant of DedupAnchor: a tracked twin replaces the anchor like an orphan.
DedupAnchorAny(i) ==
    /\ pc[i] = "dedup" /\ req[i].shape = "discs"
    /\ \E f \in Twins(Anchor(i)) :
         /\ files' = files \ At(Anchor(i))
         /\ leaves' = [leaves EXCEPT ![i][1] = PathOf(f)]
    /\ Goto(i, "naming")
    /\ UNCHANGED <<dirs, rows, req, dest, folder, slug, undo, before, ending, deleting>>

\* dedup_disc_anchor: a tracked twin is refused, an orphan replaces the anchor.
DedupAnchor(i) ==
    /\ pc[i] = "dedup" /\ req[i].shape = "discs"
    /\ \E f \in Twins(Anchor(i)) :
         \/ /\ PathOf(f) \in TrackedPaths
            /\ Raise(i, "rejected")
            /\ UNCHANGED <<files, leaves>>
         \/ /\ PathOf(f) \notin TrackedPaths
            /\ files' = files \ At(Anchor(i))
            /\ leaves' = [leaves EXCEPT ![i][1] = PathOf(f)]
            /\ Goto(i, "naming")
            /\ UNCHANGED ending
    /\ UNCHANGED <<dirs, rows, req, dest, folder, slug, undo, before, deleting>>

------------------------------------------------------------------------------
(* Admission: _validate_source, _guard_directory_source and the duplicate checks
   of _stage_file_source *)

\* A source that is tracked already is refused.
RefuseTracked(i) ==
    IF req[i].shape = "dir" THEN folder[i] \in TrackedDirs ELSE Anchor(i) \in TrackedPaths

SourceMissing(i) ==
    IF req[i].shape = "dir" THEN Inside(folder[i]) = {} ELSE ~Present(Anchor(i))

GuardRefuses(i) ==
    /\ pc[i] = "guard"
    /\ \/ SourceMissing(i) /\ Raise(i, "failed")
       \/ ~SourceMissing(i) /\ RefuseTracked(i) /\ Raise(i, "rejected")
    /\ UNCHANGED <<libraryVars, req, dest, leaves, folder, slug, undo, before, deleting>>

\* The row of a folder tracks the file that detection picks in it.
GuardDir(i) ==
    /\ pc[i] = "guard" /\ req[i].shape = "dir"
    /\ ~SourceMissing(i) /\ ~RefuseTracked(i)
    /\ \E f \in Inside(folder[i]) : leaves' = [leaves EXCEPT ![i] = <<PathOf(f)>>]
    /\ Goto(i, "naming")
    /\ UNCHANGED <<libraryVars, req, dest, folder, slug, undo, before, ending, deleting>>

\* A file goes to the folder named after its stem; if a row has a file there, a
\* twin is refused and anything else gets a folder with a name of its own.
GuardFile(i) ==
    LET stem == Anchor(i).stem
        canonical == [dir |-> Plain(stem), stem |-> stem]
        usedFor == {d \in Names : [dir |-> d, stem |-> stem] \in TrackedPaths}
    IN
    /\ pc[i] = "guard" /\ req[i].shape = "file"
    /\ ~SourceMissing(i) /\ ~RefuseTracked(i)
    /\ \/ /\ canonical \notin TrackedPaths
          /\ folder' = [folder EXCEPT ![i] = Plain(stem)]
          /\ Goto(i, "placing")
          /\ UNCHANGED ending
       \/ /\ canonical \in TrackedPaths /\ Twins(Anchor(i)) # {}
          /\ Raise(i, "rejected")
          /\ UNCHANGED folder
       \/ /\ canonical \in TrackedPaths
          /\ HasFree(Plain(stem), dirs \cup usedFor)
          /\ folder' = [folder EXCEPT ![i] = UniqueSlug(Plain(stem), dirs \cup usedFor)]
          /\ Goto(i, "placing")
          /\ UNCHANGED ending
    /\ UNCHANGED <<libraryVars, req, dest, leaves, slug, undo, before, deleting>>

------------------------------------------------------------------------------
(* Placing a file: the rest of _stage_file_source *)

Target(i) == [dir |-> folder[i], stem |-> Anchor(i).stem]
Push(i, op) == undo' = [undo EXCEPT ![i] = Append(@, op)]
SizeAt(p) == Size[(CHOOSE f \in At(p) : TRUE).content]

\* Mutant of PlaceRename: the rename is not undone.
PlaceRenameForGood(i) ==
    LET home == Anchor(i).dir IN
    /\ pc[i] = "placing"
    /\ home # Root /\ folder[i] \notin dirs
    /\ MayRename(home, folder[i])
    /\ RenameDir(home, folder[i])
    /\ leaves' = [leaves EXCEPT ![i] = <<Target(i)>>]
    /\ Goto(i, "naming")
    /\ UNCHANGED <<rows, req, dest, folder, slug, undo, before, ending, deleting>>

\* The folder the file lies in is renamed, whatever else it holds.
PlaceRename(i) ==
    LET home == Anchor(i).dir IN
    /\ pc[i] = "placing"
    /\ home # Root /\ folder[i] \notin dirs
    /\ MayRename(home, folder[i])
    /\ RenameDir(home, folder[i])
    /\ Push(i, [kind |-> "dir", old |-> home, new |-> folder[i]])
    /\ leaves' = [leaves EXCEPT ![i] = <<Target(i)>>]
    /\ Goto(i, "naming")
    /\ UNCHANGED <<rows, req, dest, folder, slug, before, ending, deleting>>

MustMove(i) == Anchor(i).dir = Root \/ folder[i] \in dirs
Crowded(i) == \E f \in Inside(folder[i]) : PathOf(f) # Target(i)

\* Mutant of PlaceMove: the item owns the folder the file came from.
PlaceMoveOwningHome(i) ==
    /\ pc[i] = "placing"
    /\ MustMove(i) /\ ~Crowded(i)
    /\ ~Present(Target(i)) /\ Present(Anchor(i))
    /\ dirs' = dirs \cup {folder[i]}
    /\ MoveFile(Anchor(i), Target(i))
    /\ Push(i, [kind |-> "file", old |-> Anchor(i), new |-> Target(i)])
    /\ leaves' = [leaves EXCEPT ![i] = <<Target(i)>>]
    /\ folder' = [folder EXCEPT ![i] = Anchor(i).dir]
    /\ Goto(i, "naming")
    /\ UNCHANGED <<rows, req, dest, slug, before, ending, deleting>>

\* The folder exists, or the file lies in the root: the file is moved into the
\* folder unless one of the same size is there.
PlaceMove(i) ==
    /\ pc[i] = "placing"
    /\ MustMove(i) /\ ~Crowded(i)
    /\ ~Present(Target(i)) /\ Present(Anchor(i))
    /\ dirs' = dirs \cup {folder[i]}
    /\ MoveFile(Anchor(i), Target(i))
    /\ Push(i, [kind |-> "file", old |-> Anchor(i), new |-> Target(i)])
    /\ leaves' = [leaves EXCEPT ![i] = <<Target(i)>>]
    /\ Goto(i, "naming")
    /\ UNCHANGED <<rows, req, dest, folder, slug, before, ending, deleting>>

\* Mutant of SameSize: whatever lies there is taken.
AnySize(p, q) == TRUE

SameSize(p, q) == SizeAt(p) = SizeAt(q)

PlaceReuse(i) ==
    /\ pc[i] = "placing"
    /\ MustMove(i) /\ ~Crowded(i)
    /\ Present(Target(i)) /\ Present(Anchor(i)) /\ SameSize(Target(i), Anchor(i))
    /\ leaves' = [leaves EXCEPT ![i] = <<Target(i)>>]
    /\ Goto(i, "naming")
    /\ UNCHANGED <<libraryVars, req, dest, folder, slug, undo, before, ending, deleting>>

\* 409 for a folder with other files, or another file of that name; or an
\* OSError because the source has gone.
PlaceRefused(i) ==
    /\ pc[i] = "placing"
    /\ \/ MustMove(i) /\ Crowded(i) /\ UNCHANGED dirs
       \/ /\ MustMove(i) /\ ~Crowded(i)
          /\ \/ ~Present(Anchor(i))
             \/ Present(Target(i)) /\ Present(Anchor(i)) /\ ~SameSize(Target(i), Anchor(i))
          /\ dirs' = dirs \cup {folder[i]}
       \/ ~MustMove(i) /\ ~MayRename(Anchor(i).dir, folder[i]) /\ UNCHANGED dirs
    /\ Raise(i, "failed")
    /\ UNCHANGED <<files, rows, req, dest, leaves, folder, slug, undo, before, deleting>>

------------------------------------------------------------------------------
(* The slug, and the folder renamed to it: _reconcile_folder_to_slug *)

\* Mutant of Rebase: the rows keep the paths of before the rename.
KeepPaths(i, new) == leaves[i]

Rebase(i, new) ==
    [k \in DOMAIN leaves[i] |->
        [leaves[i][k] EXCEPT !.dir = IF @ = folder[i] THEN new ELSE @]]

\* A name that is free as a slug; if a folder of that name is in the way, and no
\* row tracks it, the next name that is free as a folder.
FolderName(i) ==
    LET free == UniqueSlug(Plain(req[i].title), Slugs) IN
    IF free = folder[i] \/ free \notin dirs THEN free
    ELSE UniqueSlug(free, dirs \cup TrackedDirs)

\* Bound: both names exist.
NamesLeft(i) ==
    /\ HasFree(Plain(req[i].title), Slugs)
    /\ HasFree(UniqueSlug(Plain(req[i].title), Slugs), dirs \cup TrackedDirs)

NameTracked(i) ==
    LET free == UniqueSlug(Plain(req[i].title), Slugs) IN
    free # folder[i] /\ free \in dirs \cap TrackedDirs

\* Mutant of FinalSlug: the slug is not taken back from the folder.
FirstSlug(i) == UniqueSlug(Plain(req[i].title), Slugs)

FinalSlug(i) == FolderName(i)

Name(i) ==
    LET new == FolderName(i) IN
    /\ pc[i] = "naming"
    /\ NamesLeft(i) /\ ~NameTracked(i)
    /\ IF new = folder[i] THEN UNCHANGED <<dirs, files, undo>>
       ELSE /\ MayRename(folder[i], new)
            /\ RenameDir(folder[i], new)
            /\ Push(i, [kind |-> "dir", old |-> folder[i], new |-> new])
    /\ leaves' = [leaves EXCEPT ![i] = Rebase(i, new)]
    /\ folder' = [folder EXCEPT ![i] = new]
    /\ slug' = [slug EXCEPT ![i] = FinalSlug(i)]
    /\ Goto(i, "persisting")
    /\ UNCHANGED <<rows, req, dest, before, ending, deleting>>

\* Mutant of NameRefused: a rename that fails is tried again for ever.
NameRetries(i) ==
    /\ pc[i] = "naming"
    /\ NameTracked(i)
    /\ Raise(i, "failed")
    /\ UNCHANGED <<libraryVars, req, dest, leaves, folder, slug, undo, before, deleting>>

NameRefused(i) ==
    /\ pc[i] = "naming"
    /\ \/ NameTracked(i)
       \/ FolderName(i) # folder[i] /\ ~MayRename(folder[i], FolderName(i))
    /\ Raise(i, "failed")
    /\ UNCHANGED <<libraryVars, req, dest, leaves, folder, slug, undo, before, deleting>>

------------------------------------------------------------------------------
(* Rows, or undo *)

\* The folder of a row is that of the bundle, except for a disc elsewhere.
RowOf(i, k) == [bundle |-> i, slug |-> slug[i], path |-> leaves[i][k],
                folder |-> IF req[i].shape = "discs" THEN leaves[i][k].dir ELSE folder[i]]

\* Mutant of SlugTaken: the column is not unique.
SlugNeverTaken(i) == FALSE

SlugTaken(i) == slug[i] \in Slugs

\* _persist_multi_disc_collection and commit; slugs are unique in the database.
Persist(i) ==
    /\ pc[i] = "persisting"
    /\ ~SlugTaken(i)
    /\ rows' = rows \cup {RowOf(i, k) : k \in DOMAIN leaves[i]}
    /\ Goto(i, "done")
    /\ UNCHANGED <<dirs, files, req, dest, leaves, folder, slug, undo, before, ending, deleting>>

SlugCollision(i) ==
    /\ pc[i] = "persisting"
    /\ SlugTaken(i)
    /\ Raise(i, "failed")
    /\ UNCHANGED <<libraryVars, req, dest, leaves, folder, slug, undo, before, deleting>>

\* A statement or a file system call fails.
Fault(i) ==
    /\ Faults
    /\ pc[i] \in {"guard", "placing", "naming", "persisting"}
    /\ Raise(i, "failed")
    /\ UNCHANGED <<libraryVars, req, dest, leaves, folder, slug, undo, before, deleting>>

\* _replay_undo, newest first; an undo that cannot be done is skipped.
Undo(i) ==
    LET op == undo[i][Len(undo[i])] IN
    /\ pc[i] = "undoing" /\ undo[i] # <<>>
    /\ undo' = [undo EXCEPT ![i] = SubSeq(@, 1, Len(@) - 1)]
    /\ IF op.kind = "dir"
       THEN IF MayRename(op.new, op.old) THEN RenameDir(op.new, op.old) ELSE UNCHANGED <<dirs, files>>
       ELSE /\ IF Present(op.new) /\ ~Present(op.old) /\ op.old.dir \in dirs \cup {Root}
               THEN MoveFile(op.new, op.old) ELSE UNCHANGED files
            /\ UNCHANGED dirs
    /\ UNCHANGED <<rows, pc, req, dest, leaves, folder, slug, before, ending, deleting>>

\* finalize_reassembled removes the folder it staged, by the name it gave it,
\* even where DropOwn has removed it already.
CleanUp(i) ==
    /\ pc[i] = "undoing" /\ undo[i] = <<>>
    /\ RmTrees({dest[i]})
    /\ Goto(i, ending[i])
    /\ UNCHANGED <<rows, req, dest, leaves, folder, slug, undo, before, ending, deleting>>

------------------------------------------------------------------------------
(* delete_library_collection *)

BundleRows(b) == {r \in rows : r.bundle = b}

\* With the media: the folders of the leaves first, all owned, then the rows.
DeleteMedia(b) ==
    /\ MayStart
    /\ BundleRows(b) # {} /\ b \notin deleting
    /\ RmTrees({r.folder : r \in BundleRows(b)})
    /\ deleting' = deleting \cup {b}
    /\ UNCHANGED <<rows, pc, req, dest, leaves, folder, slug, undo, before, ending>>

\* Without the media, which stays behind as an orphan, or after it.
DeleteRows(b) ==
    /\ BundleRows(b) # {}
    /\ b \in deleting \/ MayStart
    /\ rows' = rows \ BundleRows(b)
    /\ deleting' = deleting \ {b}
    /\ UNCHANGED <<dirs, files, pc, req, dest, leaves, folder, slug, undo, before, ending>>

------------------------------------------------------------------------------
Start(i) == \E r \in Requests : Stage(i, r) \/ AdoptFile(i, r) \/ AdoptDir(i, r)
Dedup(i) == DedupMiss(i) \/ DedupGone(i) \/ DedupFile(i) \/ DropOwn(i) \/ DedupAnchor(i)
Guard(i) == GuardRefuses(i) \/ GuardDir(i) \/ GuardFile(i)
Place(i) == PlaceRename(i) \/ PlaceMove(i) \/ PlaceReuse(i) \/ PlaceRefused(i)
Finish(i) == Name(i) \/ NameRefused(i) \/ Persist(i) \/ SlugCollision(i)
GiveUp(i) == Fault(i) \/ Undo(i) \/ CleanUp(i)

\* The history: whoever is at work, and so is another.
Watch ==
    overlapped' = overlapped \cup {i \in Ingests : i \in Running' /\ (Running \ {i} # {} \/ deleting # {})'}

Next ==
    /\ \/ \E i \in Ingests : Start(i) \/ Dedup(i) \/ Guard(i) \/ Place(i) \/ Finish(i) \/ GiveUp(i)
       \/ \E b \in Bundles : DeleteMedia(b) \/ DeleteRows(b)
    /\ Watch

Spec == Init /\ [][Next]_vars

\* A background task that has started runs to its end.
Works(i) ==
    /\ Dedup(i) \/ Guard(i) \/ Place(i) \/ Finish(i) \/ Undo(i) \/ CleanUp(i)
    /\ Watch
Fairness == \A i \in Ingests : WF_vars(Works(i))

FairSpec == Spec /\ Fairness

------------------------------------------------------------------------------
(* Requests *)

\* What a request brings.
Brought(r) == {r.parts[k].content : k \in DOMAIN r.parts}

\* The content that is looked up in the library, of files and of first discs; and of
\* first discs alone.
Sought(R) == {r.parts[1].content : r \in {q \in R : q.dedup /\ q.shape # "dir"}}
FirstDiscs(R) == {r.parts[1].content : r \in {q \in R : q.dedup /\ q.shape = "discs"}}

\* Requests that do not get into each other's folders: no lookup finds a file beside
\* the tracked one of a game, two discs of one set, or a first disc that lies loose in
\* the library.
Apart(R) ==
    \A r \in R :
        /\ \A k, l \in DOMAIN r.parts : r.parts[k].stem = r.parts[l].stem => k = l
        /\ r.shape = "file" => Len(r.parts) = 1
        /\ r.shape = "dir" /\ Len(r.parts) # 1 => Brought(r) \cap Sought(R) = {}
        /\ r.shape = "discs" =>
             \A k, l \in DOMAIN r.parts : {r.parts[k].content, r.parts[l].content} \subseteq Sought(R) => k = l
        /\ r.shape = "file" /\ ~r.staged => Brought(r) \cap FirstDiscs(R) = {}

------------------------------------------------------------------------------
(* Safety *)

\* Every row of the library finds its file, through the renames of its own
\* ingest, those of later ones, and the undoing of failed ones.
RowsFindable == \A r \in rows : r.bundle \in deleting \/ Present(r.path)

\* No file is tracked twice, whichever of upload, scan and manual add brought it
\* and whatever two ingests saw of each other's work.
OneRowPerFile == \A r, s \in rows : r.path = s.path => r = s

\* The folder of a game has the game's slug for a name, although one is chosen
\* to be free on disk and the other to be free in the database.
SlugIsFolderName ==
    \A r \in rows : \E s \in BundleRows(r.bundle) : s.folder = r.slug

\* The row of a file or of the first disc leads to the content that was ingested,
\* also when the ingest reused a file that was there.
RowHasItsContent ==
    \A r \in rows : r.bundle \in deleting \/ ~req[r.bundle].staged \/
        \A f \in At(r.path) : \E k \in DOMAIN req[r.bundle].parts : f.content = req[r.bundle].parts[k].content

CleansUp(i) == pc[i] = "undoing" /\ pc'[i] # "undoing"

\* An ingest that fails or is refused leaves the files of the library as they were
\* before it, whatever it had staged, moved and renamed, unless another ingest or a
\* deletion was at work beside it.
Restores == \A i \in Ingests \ overlapped : CleansUp(i) => files' = before[i]
FailureRestoresLibrary == [][Restores]_vars

------------------------------------------------------------------------------
(* Liveness, under FairSpec *)

\* Every ingest ends, also when another one has renamed or removed the files it
\* works on: whatever it finds, it goes on or gives up.
IngestEnds == \A i \in Ingests : (i \in Running) ~> (pc[i] \in Ended)

==============================================================================
