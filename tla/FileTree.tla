------------------------------- MODULE FileTree -------------------------------
(***************************************************************************)
(* What a FAT16 volume promises its users (service/utils/fat/image.py): a   *)
(* tree of files, here a function from on-image paths to contents.  A file  *)
(* appears in it at once and whole, under a name that was free, and stays   *)
(* as it is until the image is removed or made anew.  Directories are not   *)
(* visible on their own, as list_files_in_image lists files.                *)
(***************************************************************************)
CONSTANTS
    Sources,         \* files that may be written
    Path(_),         \* on-image path of a file
    Content(_)       \* what reading the file back returns

VARIABLE tree

Init == tree = << >>

\* write_file_to_image, as its caller sees it.
Add(p) ==
    /\ Path(p) \notin DOMAIN tree
    /\ tree' = [q \in DOMAIN tree \cup {Path(p)} |->
                   IF q = Path(p) THEN Content(p) ELSE tree[q]]

\* The image is unlinked, or formatted.
Clear == tree' = << >>

Next == Clear \/ \E p \in Sources : Add(p)

Spec == Init /\ [][Next]_tree
==============================================================================
