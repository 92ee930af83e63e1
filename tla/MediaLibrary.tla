----------------------------- MODULE MediaLibrary -----------------------------
(***************************************************************************)
(* The games library that ingest works on: the folders and files under the  *)
(* library root, the game_items rows that track them, and the file system   *)
(* calls and queries of service/games/items.py.                             *)
(*                                                                          *)
(* A name is what slugify and unique_slug make of a title: a base and a     *)
(* number, doom, doom-2, doom-3.  A file is its folder, its stem and its    *)
(* content; the extension never distinguishes two files here.               *)
(***************************************************************************)
EXTENDS Naturals, Sequences, FiniteSets

CONSTANTS
    Bases,     \* slugs of titles and of file stems
    MaxSuffix, \* bound: largest number in a name
    Root,      \* the library root itself, where loose files lie
    Contents,
    Bundles    \* ids of game_item_bundles

Names == Bases \X (1..MaxSuffix)
Plain(base) == <<base, 1>>
Paths == [dir : Names \cup {Root}, stem : Bases]
Files == [dir : Names \cup {Root}, stem : Bases, content : Contents]
\* The folder of a disc that was found elsewhere may be the root itself.
Rows == [bundle : Bundles, slug : Names, path : Paths, folder : Names \cup {Root}]

ASSUME LibraryAssumption ==
    /\ MaxSuffix \in Nat \ {0}
    /\ Root \notin Names

VARIABLES
    dirs,   \* folders under the root
    files,
    rows    \* one leaf per disc; slug repeats the slug of the leaf's bundle

libraryVars == <<dirs, files, rows>>

LibraryTypeOK ==
    /\ dirs \in SUBSET Names
    /\ files \in SUBSET Files
    /\ rows \in SUBSET Rows

LibraryInit ==
    /\ dirs = {}
    /\ files = {}
    /\ rows = {}

------------------------------------------------------------------------------
(* Queries *)

PathOf(f) == [dir |-> f.dir, stem |-> f.stem]
At(p) == {f \in files : PathOf(f) = p}
Present(p) == At(p) # {}
Inside(d) == {f \in files : f.dir = d}

TrackedPaths == {r.path : r \in rows}
TrackedDirs == {r.folder : r \in rows} \cup {r.path.dir : r \in rows}
Slugs == {r.slug : r \in rows}

\* The first of name, name-2, name-3, ... that is not taken.
UniqueSlug(name, taken) ==
    CHOOSE new \in Names :
        /\ new \notin taken
        /\ new[1] = name[1] /\ new[2] >= name[2]
        /\ \A k \in name[2]..(new[2] - 1) : <<name[1], k>> \in taken

\* Bound: there is such a name.
HasFree(name, taken) ==
    {k \in 1..MaxSuffix : k >= name[2] /\ <<name[1], k>> \notin taken} # {}

------------------------------------------------------------------------------
(* File system calls *)

\* Windows refuses to rename a folder onto an existing one.
MayRename(old, new) == old \in dirs /\ new \notin dirs

RenameDir(old, new) ==
    /\ dirs' = (dirs \ {old}) \cup {new}
    /\ files' = {[f EXCEPT !.dir = IF @ = old THEN new ELSE @] : f \in files}

MoveFile(from, to) ==
    files' = (files \ At(from)) \cup {[dir |-> to.dir, stem |-> to.stem, content |-> f.content] : f \in At(from)}

\* Everything is under the root.
RmTrees(ds) ==
    /\ dirs' = IF Root \in ds THEN {} ELSE dirs \ ds
    /\ files' = IF Root \in ds THEN {} ELSE {f \in files : f.dir \notin ds}
==============================================================================
