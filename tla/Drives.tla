-------------------------------- MODULE Drives --------------------------------
(***************************************************************************)
(* The C: drive of one DOS game kept as loose files: its row, its image and *)
(* the flag that says the files have been copied.  A launch is a coroutine   *)
(* that runs from the resolution of the game to the dispatch without giving  *)
(* up the event loop (launch_collection, _launch_entity, launch), so that    *)
(* one launch at a time is in between; routes declared with def run in       *)
(* threads and interleave with it, and so does DOSBox-X.                     *)
(*                                                                           *)
(* The image is the volume of Fat16 when format_fat16 made it.  What DOSBox-X*)
(* writes into an image is not in the volume; `saved' says that there is such *)
(* a change.  Windows does not delete a file that is open.                   *)
(***************************************************************************)
EXTENDS Fat16

CONSTANTS
    Launches,  \* launches of the game, with whatever profiles
    FileSets   \* what the game's folder may hold

NoLaunch == "none"

ASSUME DrivesAssumption ==
    /\ FileSets \subseteq (SUBSET Paths) \ {{}}
    /\ NoLaunch \notin Launches

VARIABLES
    bundle,     \* the row of the game exists
    installed,  \* bundle.installed
    requires,   \* bundle.requires_install
    row,        \* the bundle has a drive row
    image,      \* "none", "fat" (the volume) or "made" (by IMGMAKE)
    saved,      \* the image holds changes made inside the drive
    folder,     \* the loose files
    copied,     \* the files copied and compared by the hydration in progress
    busy,       \* the launch that has the event loop
    launch,     \* launch -> where it is and what it has read
    deleting,   \* the DELETE of the drive
    removing,   \* the DELETE of the game
    patched,    \* history: `installed' has been set by hand
    again       \* history: ... to FALSE, and nothing has been copied since

rows == <<bundle, installed, requires, row>>
disk == <<image, saved, folder, fat, dir, chunk>>
threads == <<deleting, removing>>
history == <<patched, again>>
vars == <<rows, disk, op, copied, busy, launch, threads, history>>

Pcs == {"idle", "resolved", "drive", "unlinked", "sized", "copying", "ready", "dispatched",
        "conf", "running"}
Launch == [pc : Pcs, installed : BOOLEAN, drive : BOOLEAN, expired : BOOLEAN, make : BOOLEAN]
NotLaunched ==
    [pc |-> "idle", installed |-> FALSE, drive |-> FALSE, expired |-> FALSE, make |-> FALSE]

TypeOK ==
    /\ VolumeTypeOK
    /\ {bundle, installed, requires, row, saved, patched, again} \subseteq BOOLEAN
    /\ image \in {"none", "fat", "made"}
    /\ folder \in FileSets
    /\ copied \subseteq folder
    /\ busy \in Launches \cup {NoLaunch}
    /\ launch \in [Launches -> Launch]
    /\ deleting \in {"idle", "read", "unlinked"}
    /\ removing \in {"idle", "read", "unlinked", "dropped"}

Init ==
    /\ VolumeInit
    /\ bundle = TRUE /\ installed = FALSE /\ requires \in BOOLEAN /\ row = FALSE
    /\ image = "none" /\ saved = FALSE /\ folder \in FileSets /\ copied = {}
    /\ busy = NoLaunch /\ launch = [l \in Launches |-> NotLaunched]
    /\ deleting = "idle" /\ removing = "idle"
    /\ patched = FALSE /\ again = FALSE

------------------------------------------------------------------------------
(* The image on disk *)

\* A write_file_to_image between its open and its close.
OpenForWrite == op.stage \notin {"idle", "written", "failed"}
Mounted == \E l \in Launches : launch[l].pc = "running"
CanUnlink == ~OpenForWrite /\ ~Mounted

\* The image is gone, and with it what it held.
Unlink == image' = "none" /\ saved' = FALSE /\ Format /\ UNCHANGED folder

------------------------------------------------------------------------------
(* A launch, from the resolution of the game to the dispatch *)

At(l, pc) == busy = l /\ launch[l].pc = pc
Go(l, pc) == launch' = [launch EXCEPT ![l].pc = pc]
\* An exception ends the request; the event loop is free again.
Fail(l) ==
    /\ busy' = NoLaunch
    /\ launch' = [launch EXCEPT ![l] = NotLaunched]
    /\ op' = NoOp
    /\ copied' = {}

\* resolve_launchable: the flags and the drive are read here, once.
Resolve(l) ==
    /\ busy = NoLaunch /\ launch[l].pc = "idle" /\ bundle
    /\ busy' = l
    /\ launch' = [launch EXCEPT ![l] = [NotLaunched EXCEPT
                     !.pc = "resolved", !.installed = installed, !.drive = row]]
    /\ UNCHANGED <<rows, disk, op, copied, threads, history>>

\* create_drive_for_collection, where the launch found no drive.
EnsureDrive(l) ==
    /\ At(l, "resolved")
    /\ IF launch[l].drive
       THEN Go(l, "drive") /\ UNCHANGED <<row, op, copied, busy>>
       ELSE IF bundle
       THEN row' = TRUE /\ Go(l, "drive") /\ UNCHANGED <<op, copied, busy>>
       ELSE Fail(l) /\ UNCHANGED row
    /\ UNCHANGED <<bundle, installed, requires, disk, threads, history>>

NeedsHydration(l) == ~launch[l].installed /\ ~requires

\* The copy is skipped.
SkipCopy(l) ==
    /\ At(l, "drive") /\ ~NeedsHydration(l)
    /\ Go(l, "ready")
    /\ UNCHANGED <<rows, disk, op, copied, busy, threads, history>>

\* hydrate_drive_for_entity removes the image there is.
UnlinkImage(l) ==
    /\ At(l, "drive") /\ NeedsHydration(l)
    /\ IF image = "none" \/ CanUnlink
       THEN Unlink /\ Go(l, "unlinked") /\ UNCHANGED <<op, copied, busy>>
       ELSE Fail(l) /\ UNCHANGED disk
    /\ UNCHANGED <<rows, threads, history>>

\* The size computed from the folder is the row's, or is committed to the row;
\* the commit expires what the session has read.
SetSize(l) ==
    /\ At(l, "unlinked")
    /\ \/ Go(l, "sized") /\ UNCHANGED <<op, copied, busy>>
       \/ /\ row
          /\ launch' = [launch EXCEPT ![l].pc = "sized", ![l].expired = TRUE]
          /\ UNCHANGED <<op, copied, busy>>
       \/ ~row /\ Fail(l)
    /\ UNCHANGED <<rows, disk, threads, history>>

\* format_fat16 refuses an image that exists.
FormatImage(l) ==
    /\ At(l, "sized")
    /\ IF image = "none"
       THEN /\ image' = "fat" /\ Format
            /\ Go(l, "copying")
            /\ UNCHANGED <<op, copied, busy>>
       ELSE Fail(l) /\ UNCHANGED <<image, fat, dir, chunk>>
    /\ UNCHANGED <<rows, saved, folder, threads, history>>

\* Mutant of CopyFile: what is in the folder is not looked at.
CopyAnything(l, p) ==
    /\ At(l, "copying")
    /\ p \in Paths \ copied
    /\ image = "fat" /\ StartWrite(p)
    /\ UNCHANGED <<rows, image, saved, folder, copied, busy, launch, threads, history>>

\* _copy_loose_files_to_drive begins with the next file; rglob gives no order.
CopyFile(l, p) ==
    /\ At(l, "copying")
    /\ p \in folder \ copied
    /\ IF image = "fat"
       THEN StartWrite(p) /\ UNCHANGED <<copied, busy, launch>>
       ELSE op.stage = "idle" /\ Fail(l) /\ UNCHANGED <<fat, dir, chunk>>
    /\ UNCHANGED <<rows, image, saved, folder, threads, history>>

WriteFile(l) ==
    /\ At(l, "copying")
    /\ WriteStep
    /\ UNCHANGED <<rows, image, saved, folder, copied, busy, launch, threads, history>>

WriteFailed(l) ==
    /\ At(l, "copying")
    /\ op.stage = "failed"
    /\ Fail(l)
    /\ UNCHANGED <<rows, disk, threads, history>>

\* The file is read back and compared.
Compare(l) ==
    /\ At(l, "copying")
    /\ op.stage = "written"
    /\ IF image = "fat" /\ ReadFile(ShortPath(op.file)) = Content(op.file)
       THEN copied' = copied \cup {op.file} /\ op' = NoOp /\ UNCHANGED <<busy, launch>>
       ELSE Fail(l)
    /\ UNCHANGED <<rows, disk, threads, history>>

\* Mutant of MarkInstalled: the flag is not written.
MarkNothing(l) ==
    /\ At(l, "copying")
    /\ op.stage = "idle" /\ copied = folder
    /\ copied' = {}
    /\ launch' = [launch EXCEPT ![l].pc = "ready", ![l].expired = TRUE]
    /\ UNCHANGED <<rows, disk, op, busy, threads, history>>

\* Mutant of MarkInstalled: one file is enough.
MarkEarly(l) ==
    /\ At(l, "copying")
    /\ op.stage = "idle" /\ copied # {}
    /\ installed' = TRUE /\ again' = FALSE /\ copied' = {}
    /\ launch' = [launch EXCEPT ![l].pc = "ready", ![l].expired = TRUE]
    /\ UNCHANGED <<bundle, requires, row, disk, op, busy, threads, patched>>

\* bundle.installed = True, committed when every file has been copied.
MarkInstalled(l) ==
    /\ At(l, "copying")
    /\ op.stage = "idle" /\ copied = folder
    /\ IF bundle
       THEN /\ installed' = TRUE /\ again' = FALSE /\ copied' = {}
            /\ launch' = [launch EXCEPT ![l].pc = "ready", ![l].expired = TRUE]
            /\ UNCHANGED <<op, busy>>
       ELSE Fail(l) /\ UNCHANGED <<installed, again>>
    /\ UNCHANGED <<bundle, requires, row, disk, threads, patched>>

\* _build_spec_for_entity reads the drive again if a commit has expired it; launch
\* reserves, inserts the history row and dispatches, or is refused.
Dispatch(l) ==
    /\ At(l, "ready")
    /\ \/ /\ bundle /\ (launch[l].expired => row)
          /\ busy' = NoLaunch
          /\ Go(l, "dispatched")
          /\ UNCHANGED <<op, copied>>
       \/ Fail(l)
    /\ UNCHANGED <<rows, disk, threads, history>>

------------------------------------------------------------------------------
(* The dispatch thread and DOSBox-X *)

\* dosbox._build_drive_mount_lines: a missing image is to be made, an existing one
\* is mounted.
WriteConf(l) ==
    /\ launch[l].pc = "dispatched"
    /\ launch' = [launch EXCEPT ![l].pc = "conf", ![l].make = (image = "none")]
    /\ UNCHANGED <<rows, disk, op, copied, busy, threads, history>>

\* External: DOSBox-X runs the lines.  IMGMAKE does not replace a file.
Mount(l) ==
    /\ launch[l].pc = "conf"
    /\ Go(l, IF image = "none" /\ ~launch[l].make THEN "idle" ELSE "running")
    /\ image' = IF image = "none" /\ launch[l].make THEN "made" ELSE image
    /\ UNCHANGED <<rows, saved, folder, fat, dir, chunk, op, copied, busy, threads, history>>

\* External: the game writes to C:.
Save(l) ==
    /\ launch[l].pc = "running" /\ ~saved
    /\ saved' = TRUE
    /\ UNCHANGED <<rows, image, folder, fat, dir, chunk, op, copied, busy, launch, threads, history>>

\* The emulator ends, or was not started, or its profile uses no drive.
Exit(l) ==
    /\ launch[l].pc \in {"dispatched", "conf", "running"}
    /\ launch' = [launch EXCEPT ![l] = NotLaunched]
    /\ UNCHANGED <<rows, disk, op, copied, busy, threads, history>>

------------------------------------------------------------------------------
(* Routes that run in threads *)

\* DELETE /drives/{id}: the row is read, the image unlinked, the rows are changed.
DeleteDrive ==
    /\ deleting = "idle" /\ row
    /\ deleting' = "read"
    /\ UNCHANGED <<rows, disk, op, copied, busy, launch, removing, history>>

DeleteDriveImage ==
    /\ deleting = "read"
    /\ IF image = "none" \/ CanUnlink
       THEN Unlink /\ deleting' = "unlinked"
       ELSE deleting' = "idle" /\ UNCHANGED disk
    /\ UNCHANGED <<rows, op, copied, busy, launch, removing, history>>

DeleteDriveRow ==
    /\ deleting = "unlinked"
    /\ deleting' = "idle" /\ row' = FALSE
    /\ UNCHANGED <<bundle, installed, requires, disk, op, copied, busy, launch, removing, history>>

\* delete_library_collection: an image that cannot be unlinked stays.
DeleteBundle ==
    /\ removing = "idle" /\ bundle
    /\ removing' = IF row THEN "read" ELSE "dropped"
    /\ UNCHANGED <<rows, disk, op, copied, busy, launch, deleting, history>>

DeleteBundleImage ==
    /\ removing = "read"
    /\ removing' = "unlinked"
    /\ IF CanUnlink THEN Unlink ELSE UNCHANGED disk
    /\ UNCHANGED <<rows, op, copied, busy, launch, deleting, history>>

DeleteBundleDrive ==
    /\ removing = "unlinked"
    /\ removing' = "dropped" /\ row' = FALSE
    /\ UNCHANGED <<bundle, installed, requires, disk, op, copied, busy, launch, deleting, history>>

\* The row of a drive made in between goes by the cascade.
DeleteBundleRow ==
    /\ removing = "dropped"
    /\ removing' = "idle" /\ bundle' = FALSE /\ row' = FALSE
    /\ UNCHANGED <<installed, requires, disk, op, copied, busy, launch, deleting, history>>

\* PATCH of the bundle: the toggle of the game's page.
PatchInstalled ==
    /\ bundle
    /\ installed' = ~installed
    /\ patched' = TRUE /\ again' = (again \/ installed)
    /\ UNCHANGED <<bundle, requires, row, disk, op, copied, busy, launch, threads>>

\* The backend ends, and the emulators with it.
Crash ==
    /\ busy' = NoLaunch
    /\ launch' = [l \in Launches |-> NotLaunched]
    /\ op' = NoOp /\ copied' = {}
    /\ deleting' = "idle" /\ removing' = "idle"
    /\ UNCHANGED <<rows, disk, history>>

Next ==
    \/ \E l \in Launches :
          \/ Resolve(l) \/ EnsureDrive(l) \/ SkipCopy(l) \/ UnlinkImage(l) \/ SetSize(l)
          \/ FormatImage(l) \/ (\E p \in Paths : CopyFile(l, p)) \/ WriteFile(l)
          \/ WriteFailed(l) \/ Compare(l) \/ MarkInstalled(l) \/ Dispatch(l)
          \/ WriteConf(l) \/ Mount(l) \/ Save(l) \/ Exit(l)
    \/ DeleteDrive \/ DeleteDriveImage \/ DeleteDriveRow
    \/ DeleteBundle \/ DeleteBundleImage \/ DeleteBundleDrive \/ DeleteBundleRow
    \/ PatchInstalled \/ Crash

Spec == Init /\ [][Next]_vars

------------------------------------------------------------------------------
(* Properties *)

\* As long as nobody has set `installed' by hand, a game that runs from a volume
\* the backend made finds every one of its files there, whole: a launch that reads
\* `installed' never meets the image of a copy that failed, was cut off by the end
\* of the backend or is still going on for another launch.
MountedIsComplete ==
    \A l \in Launches : launch[l].pc = "running" /\ image = "fat" /\ ~patched =>
        \A p \in folder : ReadFile(ShortPath(p)) = Content(p)

\* The comparison after each copy never finds a difference (drive_hydration.py:42),
\* and what has been compared stays as it is while further files are written next to
\* it, under whatever names, into full directories and up to the last cluster.
CopiesMatch ==
    image = "fat" =>
        \A p \in copied \cup (IF op.stage = "written" THEN {op.file} ELSE {}) :
            ReadFile(ShortPath(p)) = Content(p)

\* A copy is right while it is made and whole when it is used; what is written to the
\* volume while no launch is at it reads back as well (a deletion takes the image away
\* from one that is).
HydrationIsFaithful ==
    /\ busy = NoLaunch => ReadBackMatches
    /\ CopiesMatch
    /\ MountedIsComplete

DeletesImage == (deleting = "read" /\ deleting' = "unlinked")
                \/ (removing = "read" /\ removing' = "unlinked")

\* What was changed inside the drive is lost only to a delete, or when the user has
\* asked for the files to be copied again: no launch formats a drive in use.
SavesSurvive == [][saved /\ ~saved' => DeletesImage \/ again]_vars

\* The promise of the dialog that marks a game as not installed
\* (frontend/src/hooks/useInstalledToggle.ts): changes made inside the drive are
\* preserved, whatever is copied again.
ChangesPreserved == [][saved /\ ~saved' => DeletesImage]_vars
==============================================================================
