------------------------------- MODULE Installs -------------------------------
(* Emulators are installed from release archives and deleted, and the ROM pack of  *)
(* one of them is cloned into its directory: api/routes/emulators.py,              *)
(* service/utils/emulator_installer.py, service/utils/github_release_installer.py. *)
(* The status of an install is kept in memory (core/install_registry.py) and what  *)
(* was installed on disk, where the startup looks for it again.                    *)
EXTENDS Naturals, FiniteSets

CONSTANTS Releases,        \* slugs with install_type "github_release"
          RomHost, Pack,   \* 86box, and the ROM pack that is cloned into its directory
          Jobs_            \* background tasks and deletions in flight

Packages == Releases \cup {Pack}

ASSUME InstallsAssumption == RomHost \in Releases /\ Pack \notin Releases

VARIABLES status,          \* install_registry
          part,            \* the files of each emulator: its binary and all the rest
          roms,            \* the clone: nothing, .git, .git with a lock, everything
          recorded,        \* rom_pack_items.is_present
          running,         \* emulators with a live session
          job,             \* what each task is at
          (* What has happened, for the properties. *)
          doubted          \* slugs called complete over files a crash, a deletion that
                           \* failed or another task has had a part in

installsVars == <<status, part, roms, recorded, running, job, doubted>>

Parts == {"binary", "rest"}
Missing_ == [x \in Parts |-> "none"]
Off == [stage |-> "off", slug |-> Pack, todo |-> {}, good |-> TRUE, alone |-> TRUE]

InstallsInit ==
    /\ status = [s \in Packages |-> "idle"]
    /\ part = [s \in Releases |-> Missing_]
    /\ roms = "none"
    /\ recorded = FALSE
    /\ running = {}
    /\ job = [j \in Jobs_ |-> Off]
    /\ doubted = {}

\* Tasks that write the files of s.
Writers(s) == {j \in Jobs_ : job[j].slug = s /\ job[j].stage \in {"fetch", "extract"}}
\* The others are no longer alone with the files of s.
Disturbed(s, now) == [j \in Jobs_ |-> IF j \in Writers(s) THEN [now[j] EXCEPT !.alone = FALSE] ELSE now[j]]
-------------------------------------------------------------------------------
(* install_emulator and _run_github_release_install.                             *)

\* The guard and the status are one step of the event loop; a deletion may have reset
\* the status of a download that is still running.
BeginInstall(j, s) ==
    /\ job[j] = Off /\ s \in Releases
    /\ status[s] # "downloading"
    /\ status' = [status EXCEPT ![s] = "downloading"]
    /\ job' = [Disturbed(s, job) EXCEPT ![j] =
            [Off EXCEPT !.stage = "fetch", !.slug = s, !.todo = Parts, !.alone = (Writers(s) = {})]]
    /\ UNCHANGED <<part, roms, recorded, running, doubted>>

\* Mutant of DigestMatches: any download will do.
DigestIgnored(good) == TRUE
\* _verify_digest
DigestMatches(good) == good

\* install_from_github_release: the whole archive, then its digest.
Fetch(j, good) ==
    /\ job[j].stage = "fetch" /\ DigestMatches(good)
    /\ job' = [job EXCEPT ![j].stage = "extract", ![j].good = good]
    /\ UNCHANGED <<status, part, roms, recorded, running, doubted>>

\* _safe_extract_zip, _safe_extract_7z: each file is cut to nothing and written.
OpenMember(j, x) ==
    LET s == job[j].slug IN
    /\ job[j].stage = "extract" /\ x \in job[j].todo /\ part[s][x] # "torn"
    /\ part' = [part EXCEPT ![s][x] = "torn"]
    /\ UNCHANGED <<status, roms, recorded, running, job, doubted>>

WriteMember(j, x) ==
    LET s == job[j].slug IN
    /\ job[j].stage = "extract" /\ x \in job[j].todo /\ part[s][x] = "torn"
    /\ part' = [part EXCEPT ![s][x] = IF job[j].good THEN "good" ELSE "torn"]
    /\ job' = [job EXCEPT ![j].todo = @ \ {x}]
    /\ UNCHANGED <<status, roms, recorded, running, doubted>>

\* The binary is looked for, and the task reports.
FinishInstall(j) ==
    LET s == job[j].slug IN
    /\ job[j].stage = "extract" /\ job[j].todo = {}
    /\ status' = [status EXCEPT ![s] = IF part[s]["binary"] # "none" THEN "complete" ELSE "error"]
    /\ doubted' = IF job[j].alone THEN doubted \ {s} ELSE doubted \cup {s}
    /\ job' = [job EXCEPT ![j] = Off]
    /\ UNCHANGED <<part, roms, recorded, running>>

\* No network, a digest that differs, a full disk: what was extracted stays.
FailInstall(j) ==
    /\ job[j].stage \in {"fetch", "extract"}
    /\ status' = [status EXCEPT ![job[j].slug] = "error"]
    /\ job' = [job EXCEPT ![j] = Off]
    /\ UNCHANGED <<part, roms, recorded, running, doubted>>
-------------------------------------------------------------------------------
(* install_emulator and _run_clone.                                              *)

BeginClone(j) ==
    /\ job[j] = Off
    /\ status[Pack] # "cloning"
    /\ status' = [status EXCEPT ![Pack] = "cloning"]
    /\ job' = [job EXCEPT ![j].stage = "clone"]
    /\ UNCHANGED <<part, roms, recorded, running, doubted>>

\* clone_rom_pack: git makes its directory, locks the index, checks the files out.
CloneStep(j) ==
    /\ \/ job[j].stage = "clone" /\ roms = "none" /\ roms' = "git"
       \/ job[j].stage = "git" /\ roms = "git" /\ roms' = "lock"
       \/ job[j].stage = "lock" /\ roms = "lock" /\ roms' = "whole"
    /\ job' = [job EXCEPT ![j].stage = roms']
    /\ UNCHANGED <<status, part, recorded, running, doubted>>

\* record_rom_pack_item, and the report.
FinishClone(j) ==
    /\ job[j].stage = "whole"
    /\ recorded' = TRUE
    /\ status' = [status EXCEPT ![Pack] = "complete"]
    /\ job' = [job EXCEPT ![j] = Off]
    /\ doubted' = IF roms = "whole" THEN doubted \ {Pack} ELSE doubted \cup {Pack}
    /\ UNCHANGED <<part, roms, running>>

\* The directory has content already, or git fails and takes away what it wrote.
FailClone(j) ==
    /\ job[j].stage \in {"clone", "git", "lock"}
    /\ roms' = IF job[j].stage = "clone" THEN roms ELSE "none"
    /\ status' = [status EXCEPT ![Pack] = "error"]
    /\ job' = [job EXCEPT ![j] = Off]
    /\ UNCHANGED <<part, recorded, running, doubted>>

\* verify_rom_pack: content is taken for the pack.
VerifyPack ==
    /\ recorded' = (roms # "none")
    /\ recorded' # recorded
    /\ UNCHANGED <<status, part, roms, running, job, doubted>>
-------------------------------------------------------------------------------
(* delete_emulator, remove_emulator.                                             *)

\* No session of it, and the token; nobody asks about its download.
BeginDelete_(j, s) ==
    /\ job[j] = Off
    /\ s \notin running
    /\ job' = [job EXCEPT ![j] = [Off EXCEPT !.stage = "remove", !.slug = s]]
    /\ UNCHANGED <<status, part, roms, recorded, running, doubted>>

\* The directory of the slug: the pack has none, it is in that of its host.
RemoveFiles(j) ==
    LET s == job[j].slug IN
    /\ job[j].stage = "remove"
    /\ part' = IF s \in Releases THEN [part EXCEPT ![s] = Missing_] ELSE part
    /\ roms' = IF s = RomHost THEN "none" ELSE roms
    /\ job' = [Disturbed(s, job) EXCEPT ![j].stage = "forget"]
    /\ doubted' = doubted \cup (IF s = RomHost THEN {s, Pack} ELSE {s})
    /\ UNCHANGED <<status, recorded, running>>

\* rmtree stops at a file it cannot delete, and the status is left as it was.
FailRemove(j, x) ==
    LET s == job[j].slug IN
    /\ job[j].stage = "remove" /\ s \in Releases
    /\ part' = [part EXCEPT ![s][x] = "none"]
    /\ job' = [Disturbed(s, job) EXCEPT ![j] = Off]
    /\ doubted' = doubted \cup {s}
    /\ UNCHANGED <<status, roms, recorded, running>>

Forget(j) ==
    /\ job[j].stage = "forget"
    /\ status' = [status EXCEPT ![job[j].slug] = "idle"]
    /\ job' = [job EXCEPT ![j] = Off]
    /\ UNCHANGED <<part, roms, recorded, running, doubted>>

Run_(s) ==
    /\ s \notin running /\ part[s]["binary"] # "none"
    /\ running' = running \cup {s}
    /\ UNCHANGED <<status, part, roms, recorded, job, doubted>>

Quit_(s) ==
    /\ s \in running
    /\ running' = running \ {s}
    /\ UNCHANGED <<status, part, roms, recorded, job, doubted>>
-------------------------------------------------------------------------------
(* The server dies, its tasks and the git it started with it, and starts again.   *)

\* Mutant of Interrupted: a clone is whole once something is checked out.
InterruptedByContent(r) == r = "git"
\* _heal_interrupted_rom_pack_clones
Interrupted(r) == r \in {"git", "lock"}

\* _heal_interrupted_rom_pack_clones, then _scan_installed_emulators with detect_binary.
Restart ==
    LET left == IF Interrupted(roms) THEN "none" ELSE roms
        found(s) == IF s = Pack THEN left # "none" ELSE part[s]["binary"] # "none"
    IN  /\ roms' = left
        /\ status' = [s \in Packages |-> IF found(s) THEN "complete" ELSE "idle"]
        /\ job' = [j \in Jobs_ |-> Off]
        /\ running' = {}
        /\ doubted' = {s \in Releases : \E x \in Parts : part[s][x] # "good"}
        /\ UNCHANGED <<part, recorded>>
-------------------------------------------------------------------------------
InstallsNext ==
    \/ \E j \in Jobs_ :
        \/ \E s \in Packages : BeginInstall(j, s) \/ BeginDelete_(j, s)
        \/ \E good \in BOOLEAN : Fetch(j, good)
        \/ \E x \in Parts : OpenMember(j, x) \/ WriteMember(j, x) \/ FailRemove(j, x)
        \/ FinishInstall(j) \/ FailInstall(j)
        \/ BeginClone(j) \/ CloneStep(j) \/ FinishClone(j) \/ FailClone(j)
        \/ RemoveFiles(j) \/ Forget(j)
    \/ \E s \in Releases : Run_(s) \/ Quit_(s)
    \/ VerifyPack
    \/ Restart

InstallsSpec == InstallsInit /\ [][InstallsNext]_installsVars
-------------------------------------------------------------------------------
InstallsTypeOK ==
    /\ status \in [Packages -> {"idle", "complete", "error", "cloning", "downloading"}]
    /\ part \in [Releases -> [Parts -> {"none", "torn", "good"}]]
    /\ roms \in {"none", "git", "lock", "whole"}
    /\ recorded \in BOOLEAN
    /\ running \subseteq Releases
    /\ \A j \in Jobs_ : job[j].stage \in {"off", "fetch", "extract", "clone", "git", "lock", "whole", "remove", "forget"}
    /\ doubted \subseteq Packages

\* An emulator that is called complete has all its files, whole: a download that was
\* cut short or altered, an extraction that stopped and a retry over what it left never
\* end in "complete" over torn files, unless a deletion or a second task worked in the
\* directory at the same time, a deletion failed, or a restart found the binary of an
\* install a crash had cut short. The same of the ROM pack.
StatusIsTrue ==
    /\ \A s \in Releases \ doubted : status[s] = "complete" => \A x \in Parts : part[s][x] = "good"
    /\ Pack \notin doubted /\ status[Pack] = "complete" => roms = "whole"

\* Wherever a clone was cut short, by git, by the deletion of its host or by a crash, the
\* directory is left empty for the next attempt, or whole; a clone refuses anything else.
CloneCanBeRetried ==
    (\A j \in Jobs_ : job[j].stage \notin {"git", "lock"}) => roms \in {"none", "whole"}

\* What the emulators page tells of the files on disk holds, and an install or a clone
\* that did not get there can be asked for again.
InstallsAreTrue == StatusIsTrue /\ CloneCanBeRetried
===============================================================================
